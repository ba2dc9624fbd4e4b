---------------------------- MODULE StreamParser ----------------------------
(***************************************************************************)
(* ck::StreamParser (src/src/stream_parser.h): cuts the byte stream of the *)
(* dongle, which arrives in chunks of any size, into messages.  feed() is  *)
(* modelled one loop iteration a step, on the thread that calls it.        *)
(*                                                                         *)
(* A message is a header and a payload.  The words of a header (magic,     *)
(* length, and type with its check word) are one symbol each here, and a   *)
(* payload byte is one symbol, so that a chunk may end, and garbage may    *)
(* start, inside a header or a payload.  HeaderLen and MaxMessage stand    *)
(* for 16 and 16 MiB.                                                      *)
(***************************************************************************)
EXTENDS Integers, Sequences

CONSTANTS
  MaxByte,     \* a symbol is a number of 0..MaxByte
  HeaderLen,   \* kHeaderLen
  MaxMessage,  \* kMaxMessage
  MaxStream    \* bound on the symbols fed to one parser

ASSUME ParserConstantsOK ==
  /\ MaxByte \in Nat
  /\ HeaderLen \in Nat /\ HeaderLen >= 3
  /\ MaxMessage \in Nat
  /\ MaxStream \in Nat

Byte == 0..MaxByte
Magic == MaxByte

VARIABLES
  chunk,       \* the buffer feed() was called with
  pos,         \* how much of it feed() has consumed
  assembling,  \* assembling_
  haveHeader,  \* have_header_
  hdr,         \* the first hdr_have_ bytes of hdr_
  need,        \* payload_need_
  payload,     \* the first payload_have_ bytes of payload_
  fed,         \* history: all that has been fed
  out          \* history: the payloads handed to the handler

vars == <<chunk, pos, assembling, haveHeader, hdr, need, payload, fed, out>>

TypeOK ==
  /\ chunk \in Seq(Byte)
  /\ pos \in 0..Len(chunk)
  /\ assembling \in BOOLEAN /\ haveHeader \in BOOLEAN
  /\ hdr \in Seq(Byte)
  /\ need \in Nat
  /\ payload \in Seq(Byte)
  /\ fed \in Seq(Byte)
  /\ out \in Seq(Seq(Byte))

Init ==
  /\ chunk = <<>> /\ pos = 0
  /\ assembling = FALSE /\ haveHeader = FALSE
  /\ hdr = <<>> /\ need = 0 /\ payload = <<>>
  /\ fed = <<>> /\ out = <<>>

\* Mutant: the length of a header is not checked.
GoodHeader_AnySize(h) == h[1] = Magic /\ h[HeaderLen] = 0

\* Header::parse and the size check that follows every call of it.
GoodHeader(h) == h[1] = Magic /\ h[2] <= MaxMessage /\ h[HeaderLen] = 0
BodyLength(h) == h[2]

Left == Len(chunk) - pos
Peek(n) == SubSeq(chunk, pos + 1, pos + n)   \* the next n symbols of the chunk
AtMost(n) == IF n < Left THEN n ELSE Left

\* finish_message(), and its counterparts in the fast path.
Idle ==
  /\ assembling' = FALSE /\ haveHeader' = FALSE
  /\ hdr' = <<>> /\ need' = 0 /\ payload' = <<>>

\* A call of feed().
Feed ==
  /\ Left = 0
  /\ \E n \in 1..(MaxStream - Len(fed)) : \E c \in [1..n -> Byte] :
       /\ chunk' = c
       /\ fed' = fed \o c
  /\ pos' = 0
  /\ UNCHANGED <<assembling, haveHeader, hdr, need, payload, out>>

\* A call of reset(), between two chunks: the stream starts anew.
Reset ==
  /\ Left = 0
  /\ haveHeader' = FALSE
  /\ hdr' = <<>> /\ need' = 0 /\ payload' = <<>>
  /\ chunk' = <<>> /\ pos' = 0
  /\ fed' = <<>> /\ out' = <<>>
  /\ UNCHANGED assembling

(***************************************************************************)
(* The loop of feed() outside a message: the fast path.                    *)
(***************************************************************************)
\* Less than a header is left: keep it for the next chunk.
KeepPartialHeader ==
  /\ Left > 0 /\ ~assembling
  /\ Left < HeaderLen
  /\ hdr' = Peek(Left)
  /\ haveHeader' = FALSE
  /\ assembling' = TRUE
  /\ pos' = Len(chunk)
  /\ UNCHANGED <<chunk, need, payload, fed, out>>

SkipByte ==
  /\ Left >= HeaderLen /\ ~assembling
  /\ ~GoodHeader(Peek(HeaderLen))
  /\ pos' = pos + 1
  /\ UNCHANGED <<chunk, assembling, haveHeader, hdr, need, payload, fed, out>>

\* The whole message is in the chunk: hand it on without copying it.
DispatchInPlace ==
  /\ Left >= HeaderLen /\ ~assembling
  /\ LET h == Peek(HeaderLen)
         size == BodyLength(h)
     IN /\ GoodHeader(h)
        /\ Left - HeaderLen >= size
        /\ out' = Append(out, SubSeq(chunk, pos + HeaderLen + 1,
                                     pos + HeaderLen + size))
        /\ pos' = pos + HeaderLen + size
  /\ UNCHANGED <<chunk, assembling, haveHeader, hdr, need, payload, fed>>

\* The payload goes on in the next chunk.
KeepPartialPayload ==
  /\ Left >= HeaderLen /\ ~assembling
  /\ LET h == Peek(HeaderLen)
     IN /\ GoodHeader(h)
        /\ Left - HeaderLen < BodyLength(h)
        /\ need' = BodyLength(h)
  /\ payload' = SubSeq(chunk, pos + HeaderLen + 1, Len(chunk))
  /\ haveHeader' = TRUE
  /\ assembling' = TRUE
  /\ pos' = Len(chunk)
  /\ UNCHANGED <<chunk, hdr, fed, out>>

(***************************************************************************)
(* assemble(): completing a header or a payload begun in an earlier chunk. *)
(***************************************************************************)
HeaderBytes == AtMost(HeaderLen - Len(hdr))
FullHdr == hdr \o Peek(HeaderBytes)

\* Where these end in the chunk, and a mutant: as if the header began in it.
HeaderEnd_Fresh == pos + HeaderLen
HeaderEnd == pos + HeaderBytes

\* What stays of a bad header, which loses its first byte, and two mutants.
SlidHeader_Nothing == <<>>
SlidHeader_All == FullHdr
SlidHeader == Tail(FullHdr)

GrowHeader ==
  /\ Left > 0 /\ assembling /\ ~haveHeader
  /\ Len(FullHdr) < HeaderLen
  /\ hdr' = FullHdr
  /\ pos' = HeaderEnd
  /\ UNCHANGED <<chunk, assembling, haveHeader, need, payload, fed, out>>

\* The header is bad: keep scanning.
SlideHeader ==
  /\ Left > 0 /\ assembling /\ ~haveHeader
  /\ Len(FullHdr) = HeaderLen
  /\ ~GoodHeader(FullHdr)
  /\ hdr' = SlidHeader
  /\ pos' = HeaderEnd
  /\ UNCHANGED <<chunk, assembling, haveHeader, need, payload, fed, out>>

\* Adds what the chunk has from offset start to the payload got so far of a
\* message of header h, and dispatches it once it has its size.
TakePayload(start, got, size, h) ==
  LET n == IF size - Len(got) < Len(chunk) - start
           THEN size - Len(got) ELSE Len(chunk) - start
      body == got \o SubSeq(chunk, start + 1, start + n)
  IN /\ pos' = start + n
     /\ IF Len(body) = size
        THEN /\ out' = Append(out, body)
             /\ Idle
        ELSE /\ payload' = body
             /\ need' = size
             /\ haveHeader' = TRUE
             /\ hdr' = h
             /\ UNCHANGED <<assembling, out>>
     /\ UNCHANGED <<chunk, fed>>

\* The header is complete and good: go on with its payload in the same call.
FinishHeader ==
  /\ Left > 0 /\ assembling /\ ~haveHeader
  /\ Len(FullHdr) = HeaderLen
  /\ GoodHeader(FullHdr)
  /\ TakePayload(HeaderEnd, <<>>, BodyLength(FullHdr), FullHdr)

GrowPayload ==
  /\ Left > 0 /\ assembling /\ haveHeader
  /\ TakePayload(pos, payload, need, hdr)

Assemble == GrowHeader \/ SlideHeader \/ FinishHeader \/ GrowPayload
FastPath == KeepPartialHeader \/ SkipByte \/ DispatchInPlace \/ KeepPartialPayload

Next == Feed \/ Reset \/ FastPath \/ Assemble
\* The loop of feed() goes on as long as it has input; nobody has to call it.
Spec == Init /\ [][Next]_vars /\ WF_vars(FastPath \/ Assemble)

(***************************************************************************)
(* Properties.                                                             *)
(***************************************************************************)
\* What is being assembled always fits the buffers it is copied into: the
\* 16-byte hdr_, and a payload_ resized to no more than kMaxMessage.
BuffersFit ==
  /\ assembling /\ ~haveHeader => Len(hdr) < HeaderLen
  /\ assembling /\ haveHeader => Len(payload) < need /\ need <= MaxMessage

(***************************************************************************)
(* The messages of a stream, read from a single buffer with no state.      *)
(***************************************************************************)
HeaderAt(s, i) == i + HeaderLen <= Len(s)
GoodAt(s, i) == s[i + 1] = Magic /\ s[i + 2] <= MaxMessage /\ s[i + HeaderLen] = 0
EndAt(s, i) == i + HeaderLen + s[i + 2]

\* From i to j - 1 there are bad headers only.
Skipped(s, i, j) == i <= j /\ \A k \in i..(j - 1) : HeaderAt(s, k) /\ ~GoodAt(s, k)

\* The message at i is all there, and body is its payload.
MessageAt(s, i, body) ==
  /\ HeaderAt(s, i) /\ GoodAt(s, i) /\ EndAt(s, i) <= Len(s)
  /\ body = SubSeq(s, i + HeaderLen + 1, EndAt(s, i))

\* What is at i is not all there yet.
WaitsAt(s, i) == HeaderAt(s, i) => GoodAt(s, i) /\ EndAt(s, i) > Len(s)

\* The messages begin at cut[1], cut[2] and so on: each is the first good header
\* behind the one before.  The scan has come to the last of the cuts.
From(s, cut, i) == IF i = 1 THEN 0 ELSE EndAt(s, cut[i - 1])

CutsInto(s, cut, messages) ==
  /\ \A i \in 1..Len(messages) : MessageAt(s, cut[i], messages[i])
  /\ \A i \in 1..(Len(messages) + 1) : Skipped(s, From(s, cut, i), cut[i])

IsCut(s, cut, messages) ==
  /\ CutsInto(s, cut, messages)
  /\ WaitsAt(s, cut[Len(messages) + 1])

\* However the stream is cut into chunks, the messages dispatched are those of
\* the stream: none is lost, doubled, torn or made up, and a reset in the
\* middle of a message leaves nothing behind.
ChunkingIrrelevant ==
  Left = 0 => \E cut \in [1..(Len(out) + 1) -> 0..Len(fed)] : IsCut(fed, cut, out)

\* feed() returns: garbage, wherever it starts and is cut, cannot keep the event
\* thread in its loop.
FeedReturns == Left > 0 ~> Left = 0
=============================================================================
