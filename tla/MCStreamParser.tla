--------------------------- MODULE MCStreamParser ---------------------------
(***************************************************************************)
(* StreamParser for TLC, and its reference, IsCut, against a second one:   *)
(* a scan of the stream from left to right, as a recursive function.       *)
(***************************************************************************)
EXTENDS StreamParser

\* The payloads of the messages of s from offset i on: at each offset a message
\* that is all there, else a byte that is skipped; the scan ends where a header
\* or a payload is not all there yet.
RECURSIVE MessagesFrom(_, _)
MessagesFrom(s, i) ==
  IF WaitsAt(s, i) THEN <<>>
  ELSE IF ~GoodAt(s, i) THEN MessagesFrom(s, i + 1)
  ELSE <<SubSeq(s, i + HeaderLen + 1, EndAt(s, i))>> \o MessagesFrom(s, EndAt(s, i))

\* The scan is a cut, and there is no other.
ASSUME ScanIsTheCut ==
  \A n \in 0..5 : \A s \in [1..n -> Byte] :
    LET messages == MessagesFrom(s, 0)
        Cuts == [1..(Len(messages) + 1) -> 0..n]
    IN  \E cut \in Cuts :
          IsCut(s, cut, messages) /\ \A other \in Cuts \ {cut} : ~IsCut(s, other, messages)
=============================================================================
