------------------------- MODULE StreamParserProofs -------------------------
(***************************************************************************)
(* Proofs about the parser, for any size of header, of message and of      *)
(* chunk.                                                                  *)
(***************************************************************************)
EXTENDS StreamParser, SequenceTheorems, NaturalsInduction, WellFoundedInduction, TLAPS

IInv == TypeOK /\ BuffersFit

(***************************************************************************)
(* The operators on the chunk.                                             *)
(***************************************************************************)
\* A piece of a sequence.
LEMMA Piece ==
  ASSUME NEW S, NEW s \in Seq(S),
         NEW m \in Nat, NEW n \in m..Len(s)
  PROVE  /\ SubSeq(s, m + 1, n) \in Seq(S)
         /\ Len(SubSeq(s, m + 1, n)) = n - m
         /\ \A i \in 1..(n - m) : SubSeq(s, m + 1, n)[i] = s[m + i]
<1>1. \A i \in (m + 1)..n : s[i] \in S
  BY ElementOfSeq, LenProperties
<1>2. m + 1 \in Int /\ n \in Int
  BY LenProperties
<1> QED
  BY <1>1, <1>2, SubSeqProperties

LEMMA PeekFits ==
  ASSUME TypeOK, NEW n \in 0..Left
  PROVE  /\ Peek(n) \in Seq(Byte)
         /\ Len(Peek(n)) = n
         /\ \A i \in 1..n : Peek(n)[i] = chunk[pos + i]
<1> DEFINE e == pos + n
<1>1. chunk \in Seq(Byte) /\ pos \in 0..Len(chunk)
  BY DEF TypeOK
<1>2. pos \in Nat /\ e \in pos..Len(chunk) /\ e - pos = n
  BY <1>1, LenProperties DEF Left
<1> HIDE DEF e
<1>3. /\ SubSeq(chunk, pos + 1, e) \in Seq(Byte)
      /\ Len(SubSeq(chunk, pos + 1, e)) = e - pos
      /\ \A i \in 1..(e - pos) : SubSeq(chunk, pos + 1, e)[i] = chunk[pos + i]
  BY <1>1, <1>2, Piece
<1> QED
  BY <1>2, <1>3 DEF Peek, e

LEMMA LeftRange == TypeOK => Left \in Nat /\ Len(chunk) \in Nat /\ pos \in Nat
BY LenProperties DEF TypeOK, Left

\* The length in a whole header is a number, and no more than kMaxMessage in a
\* good one.
LEMMA HeaderSize ==
  ASSUME NEW h \in Seq(Byte), Len(h) >= HeaderLen
  PROVE  /\ BodyLength(h) \in Nat
         /\ GoodHeader(h) => BodyLength(h) <= MaxMessage
<1>1. 2 \in 1..Len(h)
  BY LenProperties, ParserConstantsOK
<1>2. h[2] \in Byte
  BY <1>1, ElementOfSeq
<1> QED
  BY <1>2, ParserConstantsOK DEF Byte, BodyLength, GoodHeader

\* The header being completed never outgrows its buffer.
LEMMA FullHdrFits ==
  ASSUME TypeOK, Len(hdr) < HeaderLen
  PROVE  /\ HeaderBytes \in 0..Left
         /\ Left > 0 => HeaderBytes > 0
         /\ FullHdr \in Seq(Byte)
         /\ Len(FullHdr) = Len(hdr) + HeaderBytes
         /\ Len(FullHdr) <= HeaderLen
         /\ Len(FullHdr) < HeaderLen => HeaderBytes = Left
<1>1. Len(hdr) \in Nat /\ Left \in Nat
  BY LenProperties, LeftRange DEF TypeOK
<1>2. /\ HeaderBytes \in 0..Left
      /\ Left > 0 => HeaderBytes > 0
      /\ Len(hdr) + HeaderBytes <= HeaderLen
      /\ Len(hdr) + HeaderBytes < HeaderLen => HeaderBytes = Left
  BY <1>1, ParserConstantsOK DEF HeaderBytes, AtMost
<1>3. Peek(HeaderBytes) \in Seq(Byte) /\ Len(Peek(HeaderBytes)) = HeaderBytes
  BY <1>2, PeekFits
<1> QED
  BY <1>1, <1>2, <1>3, ConcatProperties DEF TypeOK, FullHdr

(***************************************************************************)
(* The invariant.                                                          *)
(***************************************************************************)
LEMMA IInvInit == Init => IInv
<1> SUFFICES ASSUME Init PROVE IInv
  OBVIOUS
<1>1. <<>> \in Seq(Byte) /\ Len(<<>>) = 0 /\ <<>> \in Seq(Seq(Byte))
  BY EmptySeq
<1>2. pos \in 0..Len(chunk) /\ need \in Nat
  BY <1>1 DEF Init
<1>3. assembling \in BOOLEAN /\ haveHeader \in BOOLEAN /\ BuffersFit
  BY DEF Init, BuffersFit
<1> QED
  BY <1>1, <1>2, <1>3 DEF Init, IInv, TypeOK

\* How much of a payload of which some is there is taken from what is left.
LEMMA Portion ==
  ASSUME NEW got \in Nat, NEW size \in Nat, got <= size, NEW left \in Nat
  PROVE  LET n == IF size - got < left THEN size - got ELSE left
         IN  /\ n \in 0..left
             /\ got + n <= size
             /\ got + n # size => got + n < size
OBVIOUS

\* Going on with a payload keeps the invariant, wherever in the chunk it is and
\* whatever of it is there.
LEMMA TakePayloadStep ==
  ASSUME IInv,
         NEW start \in Nat, start <= Len(chunk),
         NEW got \in Seq(Byte), NEW size \in Nat, NEW h \in Seq(Byte),
         Len(got) <= size, size <= MaxMessage,
         assembling,
         TakePayload(start, got, size, h)
  PROVE  IInv'
<1>1. Len(chunk) \in Nat /\ Len(got) \in Nat
  BY LenProperties DEF IInv, TypeOK
<1>2. PICK n :
        /\ n = IF size - Len(got) < Len(chunk) - start
               THEN size - Len(got) ELSE Len(chunk) - start
        /\ n \in 0..(Len(chunk) - start)
        /\ Len(got) + n <= size
        /\ Len(got) + n # size => Len(got) + n < size
  <2>1. Len(chunk) - start \in Nat
    BY <1>1
  <2> QED
    BY <1>1, <2>1, Portion
<1> start + n \in start..Len(chunk) /\ n \in Nat
  BY <1>1, <1>2
<1>3. PICK body : body = got \o SubSeq(chunk, start + 1, start + n)
  OBVIOUS
<1>4. chunk \in Seq(Byte)
  BY DEF IInv, TypeOK
<1>5. SubSeq(chunk, start + 1, start + n) \in Seq(Byte)
      /\ Len(SubSeq(chunk, start + 1, start + n)) = (start + n) - start
  BY <1>2, <1>4, Piece
<1>6. body \in Seq(Byte) /\ Len(body) = Len(got) + n
  <2>1. (start + n) - start = n
    BY <1>2
  <2> QED
    BY <1>3, <1>5, <2>1, ConcatProperties
<1>7. /\ chunk' = chunk /\ fed' = fed /\ pos' = start + n
      /\ IF Len(body) = size
         THEN out' = Append(out, body) /\ Idle
         ELSE /\ payload' = body /\ need' = size /\ haveHeader' = TRUE
              /\ hdr' = h /\ UNCHANGED <<assembling, out>>
  BY <1>2, <1>3 DEF TakePayload
<1>8. pos' \in 0..Len(chunk') /\ chunk' \in Seq(Byte) /\ fed' \in Seq(Byte)
  BY <1>1, <1>2, <1>4, <1>7 DEF IInv, TypeOK
<1>9. CASE Len(body) = size
  <2>1. out' = Append(out, body) /\ Idle
    BY <1>7, <1>9
  <2>2. out' \in Seq(Seq(Byte))
    BY <2>1, <1>6, AppendProperties DEF IInv, TypeOK
  <2>3. hdr' \in Seq(Byte) /\ payload' \in Seq(Byte) /\ need' \in Nat
    BY <2>1, EmptySeq DEF Idle
  <2>4. assembling' = FALSE /\ haveHeader' = FALSE
    BY <2>1 DEF Idle
  <2> QED
    BY <1>8, <2>2, <2>3, <2>4 DEF IInv, TypeOK, BuffersFit
<1>10. CASE Len(body) # size
  <2>1. /\ payload' = body /\ need' = size /\ haveHeader' = TRUE /\ hdr' = h
        /\ assembling' = assembling /\ out' = out
    BY <1>7, <1>10
  <2>2. Len(body) < size
    BY <1>2, <1>6, <1>10
  <2> QED
    BY <1>6, <1>8, <2>1, <2>2 DEF IInv, TypeOK, BuffersFit
<1> QED
  BY <1>9, <1>10

LEMMA IInvStep == IInv /\ [Next]_vars => IInv'
<1> SUFFICES ASSUME IInv, [Next]_vars PROVE IInv'
  OBVIOUS
<1> USE DEF IInv
<1>0. Left \in Nat /\ Len(chunk) \in Nat /\ pos \in Nat /\ Len(hdr) \in Nat
  BY LeftRange, LenProperties DEF TypeOK
<1>1. <<>> \in Seq(Byte) /\ Len(<<>>) = 0 /\ <<>> \in Seq(Seq(Byte))
  BY EmptySeq
<1>2. CASE Feed
  <2>1. PICK k \in 1..(MaxStream - Len(fed)) :
          \E c \in [1..k -> Byte] : chunk' = c /\ fed' = fed \o c
    BY <1>2 DEF Feed
  <2>2. PICK c \in [1..k -> Byte] : chunk' = c /\ fed' = fed \o c
    BY <2>1
  <2>3. k \in Nat
    BY <2>1, LenProperties, ParserConstantsOK DEF TypeOK
  <2>4. c \in Seq(Byte)
    BY <2>3, SeqDef
  <2>5. fed' \in Seq(Byte) /\ Len(chunk') \in Nat
    BY <2>2, <2>4, ConcatProperties, LenProperties DEF TypeOK
  <2> QED
    BY <1>2, <2>2, <2>4, <2>5 DEF Feed, TypeOK, BuffersFit
<1>3. CASE Reset
  <2>1. pos' \in 0..Len(chunk') /\ need' \in Nat /\ Len(hdr') < HeaderLen
    BY <1>1, <1>3, ParserConstantsOK DEF Reset
  <2> QED
    BY <1>1, <1>3, <2>1 DEF Reset, TypeOK, BuffersFit
<1>4. CASE KeepPartialHeader
  <2>1. Peek(Left) \in Seq(Byte) /\ Len(Peek(Left)) = Left
    BY <1>0, PeekFits
  <2>2. pos' \in 0..Len(chunk') /\ Len(hdr') < HeaderLen
    BY <1>0, <1>4, <2>1 DEF KeepPartialHeader
  <2> QED
    BY <1>4, <2>1, <2>2 DEF KeepPartialHeader, TypeOK, BuffersFit
<1>5. CASE SkipByte
  <2>1. pos + 1 \in 0..Len(chunk)
    BY <1>0, <1>5, ParserConstantsOK DEF SkipByte, Left
  <2> QED
    BY <1>5, <2>1 DEF SkipByte, TypeOK, BuffersFit
<1>6. CASE DispatchInPlace
  <2> DEFINE h == Peek(HeaderLen)
  <2>1. h \in Seq(Byte) /\ Len(h) = HeaderLen
    BY <1>0, <1>6, PeekFits, ParserConstantsOK DEF DispatchInPlace
  <2> HIDE DEF h
  <2>2. BodyLength(h) \in Nat
    BY <2>1, HeaderSize, ParserConstantsOK
  <2>3. /\ Left - HeaderLen >= BodyLength(h)
        /\ out' = Append(out, SubSeq(chunk, pos + HeaderLen + 1,
                                     pos + HeaderLen + BodyLength(h)))
        /\ pos' = pos + HeaderLen + BodyLength(h)
    BY <1>6 DEF DispatchInPlace, h
  <2>4. /\ pos + HeaderLen \in Nat
        /\ pos + HeaderLen + BodyLength(h) \in (pos + HeaderLen)..Len(chunk)
        /\ pos + HeaderLen + BodyLength(h) \in 0..Len(chunk)
    BY <1>0, <2>2, <2>3, ParserConstantsOK DEF Left
  <2>5. SubSeq(chunk, pos + HeaderLen + 1, pos + HeaderLen + BodyLength(h)) \in Seq(Byte)
    BY <2>4, Piece DEF TypeOK
  <2>6. out' \in Seq(Seq(Byte))
    BY <2>3, <2>5, AppendProperties DEF TypeOK
  <2> QED
    BY <1>6, <2>3, <2>4, <2>6 DEF DispatchInPlace, TypeOK, BuffersFit
<1>7. CASE KeepPartialPayload
  <2> DEFINE h == Peek(HeaderLen)
  <2>1. h \in Seq(Byte) /\ Len(h) = HeaderLen
    BY <1>0, <1>7, PeekFits, ParserConstantsOK DEF KeepPartialPayload
  <2> HIDE DEF h
  <2>2. /\ GoodHeader(h)
        /\ Left - HeaderLen < BodyLength(h)
        /\ need' = BodyLength(h)
    BY <1>7 DEF KeepPartialPayload, h
  <2>3. need' \in Nat /\ need' <= MaxMessage
    BY <2>1, <2>2, HeaderSize, ParserConstantsOK
  <2>4. pos + HeaderLen \in Nat /\ Len(chunk) \in (pos + HeaderLen)..Len(chunk)
    BY <1>0, <1>7, ParserConstantsOK DEF KeepPartialPayload, Left
  <2>5. payload' \in Seq(Byte) /\ Len(payload') = Len(chunk) - (pos + HeaderLen)
    BY <1>7, <2>4, Piece DEF KeepPartialPayload, TypeOK
  <2>6. Len(payload') < need'
    BY <1>0, <2>2, <2>3, <2>5, ParserConstantsOK DEF Left
  <2> QED
    BY <1>0, <1>7, <2>3, <2>5, <2>6 DEF KeepPartialPayload, TypeOK, BuffersFit
<1>8. ASSUME Left > 0, assembling, ~haveHeader
      PROVE  /\ HeaderEnd \in 0..Len(chunk)
             /\ FullHdr \in Seq(Byte)
             /\ Len(FullHdr) \in Nat
             /\ Len(FullHdr) <= HeaderLen
  BY <1>0, <1>8, FullHdrFits, LenProperties DEF BuffersFit, HeaderEnd, Left
<1>9. CASE GrowHeader
  BY <1>8, <1>9 DEF GrowHeader, TypeOK, BuffersFit
<1>10. CASE SlideHeader
  <2>1. FullHdr # <<>>
    BY <1>10, <1>1, ParserConstantsOK DEF SlideHeader
  <2>2. SlidHeader \in Seq(Byte) /\ Len(SlidHeader) = HeaderLen - 1
    BY <1>8, <1>10, <2>1, HeadTailProperties DEF SlideHeader, SlidHeader
  <2> QED
    BY <1>8, <1>10, <2>2, ParserConstantsOK DEF SlideHeader, TypeOK, BuffersFit
<1>11. CASE FinishHeader
  <2>1. HeaderEnd \in Nat /\ HeaderEnd <= Len(chunk)
    BY <1>0, <1>8, <1>11 DEF FinishHeader
  <2>2. BodyLength(FullHdr) \in Nat /\ BodyLength(FullHdr) <= MaxMessage
    BY <1>8, <1>11, HeaderSize, ParserConstantsOK DEF FinishHeader
  <2>3. assembling /\ TakePayload(HeaderEnd, <<>>, BodyLength(FullHdr), FullHdr)
    BY <1>11 DEF FinishHeader
  <2>4. FullHdr \in Seq(Byte)
    BY <1>8, <1>11 DEF FinishHeader
  <2>5. Len(<<>>) <= BodyLength(FullHdr)
    BY <1>1, <2>2
  <2> QED
    BY <1>1, <2>1, <2>2, <2>3, <2>4, <2>5, TakePayloadStep
<1>12. CASE GrowPayload
  <2>1. /\ pos \in Nat /\ pos <= Len(chunk)
        /\ payload \in Seq(Byte) /\ need \in Nat /\ hdr \in Seq(Byte)
        /\ Len(payload) <= need /\ need <= MaxMessage
    BY <1>0, <1>12, LenProperties DEF GrowPayload, TypeOK, BuffersFit, Left
  <2>2. assembling /\ TakePayload(pos, payload, need, hdr)
    BY <1>12 DEF GrowPayload
  <2> QED
    BY <2>1, <2>2, TakePayloadStep
<1>13. CASE UNCHANGED vars
  BY <1>13 DEF vars, TypeOK, BuffersFit
<1> QED
  BY <1>2, <1>3, <1>4, <1>5, <1>6, <1>7, <1>9, <1>10, <1>11, <1>12, <1>13
     DEF Next, FastPath, Assemble

(***************************************************************************)
(* Cuts of a stream.  q is how far it has been scanned.                    *)
(***************************************************************************)
Cut(s, messages, q) ==
  \E cut \in [1..(Len(messages) + 1) -> Nat] :
    CutsInto(s, cut, messages) /\ cut[Len(messages) + 1] = q

Messages == Seq(Seq(Byte))

\* A header that is there has a length.
LEMMA HeaderWords ==
  ASSUME NEW s \in Seq(Byte), NEW i \in Nat, HeaderAt(s, i)
  PROVE  /\ s[i + 2] \in Nat
         /\ EndAt(s, i) \in Nat /\ EndAt(s, i) >= i + HeaderLen
<1>1. i + 2 \in 1..Len(s)
  BY LenProperties, ParserConstantsOK DEF HeaderAt
<1>2. s[i + 2] \in Byte
  BY <1>1, ElementOfSeq
<1> QED
  BY <1>2, ParserConstantsOK DEF Byte, EndAt

LEMMA EmptyCut ==
  ASSUME NEW s \in Seq(Byte) PROVE Cut(s, <<>>, 0)
<1>1. Len(<<>>) = 0
  BY EmptySeq
<1> DEFINE cut == [i \in 1..1 |-> 0]
<1>2. Skipped(s, 0, 0)
  BY DEF Skipped
<1>3. CutsInto(s, cut, <<>>)
  BY <1>1, <1>2 DEF CutsInto, From
<1>4. cut \in [1..(Len(<<>>) + 1) -> Nat] /\ cut[Len(<<>>) + 1] = 0
  BY <1>1
<1> QED
  BY <1>3, <1>4 DEF Cut

\* A byte is skipped.
LEMMA CutSkips ==
  ASSUME NEW s \in Seq(Byte), NEW messages \in Messages, NEW q \in Nat,
         Cut(s, messages, q), HeaderAt(s, q), ~GoodAt(s, q)
  PROVE  Cut(s, messages, q + 1)
<1> DEFINE n == Len(messages) + 1
<1>1. n \in Nat /\ n >= 1 /\ Len(messages) = n - 1
  BY LenProperties DEF Messages
<1>2. PICK cut \in [1..n -> Nat] : CutsInto(s, cut, messages) /\ cut[n] = q
  BY DEF Cut
<1> DEFINE next == [cut EXCEPT ![n] = q + 1]
<1>3. /\ next \in [1..n -> Nat] /\ next[n] = q + 1
      /\ \A i \in 1..(n - 1) : next[i] = cut[i]
  BY <1>1, <1>2
<1> HIDE DEF next
<1>4. \A i \in 1..n : From(s, next, i) = From(s, cut, i)
  <2> TAKE i \in 1..n
  <2>1. CASE i = 1
    BY <2>1 DEF From
  <2>2. CASE i # 1
    <3>1. i - 1 \in 1..(n - 1)
      BY <1>1, <2>2
    <3>2. next[i - 1] = cut[i - 1]
      BY <1>3, <3>1
    <3> QED
      BY <2>2, <3>2 DEF From
  <2> QED
    BY <2>1, <2>2
<1>5. \A i \in 1..n : Skipped(s, From(s, cut, i), cut[i])
  BY <1>1, <1>2 DEF CutsInto
<1>6. \A i \in 1..(n - 1) : MessageAt(s, cut[i], messages[i])
  BY <1>1, <1>2 DEF CutsInto
<1>7. From(s, cut, n) \in Int
  <2>1. CASE n = 1
    BY <2>1 DEF From
  <2>2. CASE n # 1
    <3>1. n - 1 \in 1..(n - 1) /\ cut[n - 1] \in Nat
      BY <1>1, <1>2, <2>2
    <3>2. HeaderAt(s, cut[n - 1])
      BY <1>6, <3>1 DEF MessageAt
    <3> QED
      BY <2>2, <3>1, <3>2, HeaderWords DEF From
  <2> QED
    BY <2>1, <2>2
<1>8. Skipped(s, From(s, cut, n), q + 1)
  <2>1. Skipped(s, From(s, cut, n), q)
    BY <1>1, <1>2, <1>5
  <2> QED
    BY <1>7, <2>1 DEF Skipped
<1>9. \A i \in 1..n : Skipped(s, From(s, next, i), next[i])
  <2> TAKE i \in 1..n
  <2>1. CASE i = n
    BY <1>3, <1>4, <1>8, <2>1
  <2>2. CASE i # n
    BY <1>1, <1>3, <1>4, <1>5, <2>2
  <2> QED
    BY <2>1, <2>2
<1>10. CutsInto(s, next, messages)
  BY <1>1, <1>3, <1>6, <1>9 DEF CutsInto
<1> QED
  BY <1>3, <1>10 DEF Cut

\* A message is dispatched.
LEMMA CutDispatches ==
  ASSUME NEW s \in Seq(Byte), NEW messages \in Messages, NEW q \in Nat,
         NEW body \in Seq(Byte),
         Cut(s, messages, q), MessageAt(s, q, body)
  PROVE  Cut(s, Append(messages, body), EndAt(s, q))
<1> DEFINE n == Len(messages) + 1
           more == Append(messages, body)
<1>1. n \in Nat /\ n >= 1 /\ Len(messages) = n - 1
  BY LenProperties DEF Messages
<1>2. PICK cut \in [1..n -> Nat] : CutsInto(s, cut, messages) /\ cut[n] = q
  BY DEF Cut
<1>3. /\ Len(more) = n /\ more[n] = body
      /\ \A i \in 1..(n - 1) : more[i] = messages[i]
  BY <1>1, AppendProperties DEF Messages
<1>4. EndAt(s, q) \in Nat
  BY HeaderWords DEF MessageAt
<1> DEFINE next == [i \in 1..(n + 1) |-> IF i = n + 1 THEN EndAt(s, q) ELSE cut[i]]
<1>5. /\ next \in [1..(n + 1) -> Nat] /\ next[n + 1] = EndAt(s, q)
      /\ \A i \in 1..n : next[i] = cut[i]
  BY <1>1, <1>2, <1>4
<1> HIDE DEF next, more
<1>6. \A i \in 1..n : From(s, next, i) = From(s, cut, i)
  <2> TAKE i \in 1..n
  <2>1. CASE i = 1
    BY <2>1 DEF From
  <2>2. CASE i # 1
    <3>1. i - 1 \in 1..n
      BY <1>1, <2>2
    <3>2. next[i - 1] = cut[i - 1]
      BY <1>5, <3>1
    <3> QED
      BY <2>2, <3>2 DEF From
  <2> QED
    BY <2>1, <2>2
<1>7. From(s, next, n + 1) = EndAt(s, q)
  <2>1. n \in 1..n /\ (n + 1) - 1 = n /\ n + 1 # 1
    BY <1>1
  <2>2. next[n] = q
    BY <1>2, <1>5, <2>1
  <2> QED
    BY <2>1, <2>2 DEF From
<1>8. \A i \in 1..(n + 1) : Skipped(s, From(s, next, i), next[i])
  <2> TAKE i \in 1..(n + 1)
  <2>1. CASE i = n + 1
    BY <1>4, <1>5, <1>7, <2>1 DEF Skipped
  <2>2. CASE i \in 1..n
    BY <1>1, <1>2, <1>5, <1>6, <2>2 DEF CutsInto
  <2> QED
    BY <1>1, <2>1, <2>2
<1>9. \A i \in 1..n : MessageAt(s, next[i], more[i])
  <2> TAKE i \in 1..n
  <2>1. CASE i = n
    BY <1>2, <1>3, <1>5, <2>1
  <2>2. CASE i \in 1..(n - 1)
    BY <1>1, <1>2, <1>3, <1>5, <2>2 DEF CutsInto
  <2> QED
    BY <1>1, <2>1, <2>2
<1>10. CutsInto(s, next, more)
  BY <1>3, <1>8, <1>9 DEF CutsInto
<1> QED
  BY <1>3, <1>5, <1>10 DEF Cut, more

\* More of the stream changes nothing of what was scanned.
LEMMA CutGrows ==
  ASSUME NEW s \in Seq(Byte), NEW c \in Seq(Byte), NEW messages \in Messages, NEW q \in Nat,
         Cut(s, messages, q)
  PROVE  Cut(s \o c, messages, q)
<1> DEFINE n == Len(messages) + 1
           t == s \o c
<1>1. n \in Nat /\ n >= 1 /\ Len(messages) = n - 1
  BY LenProperties DEF Messages
<1>2. PICK cut \in [1..n -> Nat] : CutsInto(s, cut, messages) /\ cut[n] = q
  BY DEF Cut
<1>3. /\ t \in Seq(Byte) /\ Len(s) \in Nat /\ Len(t) \in Nat /\ Len(s) <= Len(t)
      /\ \A i \in 1..Len(s) : t[i] = s[i]
  BY ConcatProperties, LenProperties
<1> HIDE DEF t
<1>4. ASSUME NEW i \in Nat, HeaderAt(s, i)
      PROVE  HeaderAt(t, i) /\ (GoodAt(t, i) <=> GoodAt(s, i)) /\ EndAt(t, i) = EndAt(s, i)
  <2>1. i + 1 \in 1..Len(s) /\ i + 2 \in 1..Len(s) /\ i + HeaderLen \in 1..Len(s)
    BY <1>3, <1>4, ParserConstantsOK DEF HeaderAt
  <2> QED
    BY <1>3, <1>4, <2>1, ParserConstantsOK DEF HeaderAt, GoodAt, EndAt
<1>5. ASSUME NEW i \in Nat, NEW body, MessageAt(s, i, body)
      PROVE  MessageAt(t, i, body)
  <2>1. HeaderAt(s, i) /\ GoodAt(s, i) /\ EndAt(s, i) <= Len(s)
        /\ body = SubSeq(s, i + HeaderLen + 1, EndAt(s, i))
    BY <1>5 DEF MessageAt
  <2>2. EndAt(s, i) \in Nat /\ EndAt(s, i) >= i + HeaderLen
    BY <2>1, HeaderWords
  <2> DEFINE m == i + HeaderLen
             e == EndAt(s, i)
  <2>3. m \in Nat /\ e \in m..Len(s) /\ e \in m..Len(t)
    BY <1>3, <2>1, <2>2, ParserConstantsOK
  <2> HIDE DEF m, e
  <2>4. /\ SubSeq(s, m + 1, e) \in Seq(Byte) /\ Len(SubSeq(s, m + 1, e)) = e - m
        /\ \A k \in 1..(e - m) : SubSeq(s, m + 1, e)[k] = s[m + k]
    BY <2>3, Piece
  <2>5. /\ SubSeq(t, m + 1, e) \in Seq(Byte) /\ Len(SubSeq(t, m + 1, e)) = e - m
        /\ \A k \in 1..(e - m) : SubSeq(t, m + 1, e)[k] = t[m + k]
    BY <1>3, <2>3, Piece
  <2>6. \A k \in 1..(e - m) : t[m + k] = s[m + k]
    BY <1>3, <2>3
  <2>7. SubSeq(s, m + 1, e) = SubSeq(t, m + 1, e)
    BY <2>4, <2>5, <2>6, SeqEqual
  <2>8. EndAt(t, i) = EndAt(s, i) /\ HeaderAt(t, i) /\ GoodAt(t, i)
    BY <1>4, <2>1
  <2>9. EndAt(t, i) <= Len(t)
    BY <1>3, <2>1, <2>2, <2>8
  <2>10. body = SubSeq(t, i + HeaderLen + 1, EndAt(t, i))
    BY <2>1, <2>7, <2>8 DEF m, e
  <2> QED
    BY <2>8, <2>9, <2>10 DEF MessageAt
<1>6. \A i \in 1..(n - 1) : MessageAt(s, cut[i], messages[i]) /\ cut[i] \in Nat
  BY <1>1, <1>2 DEF CutsInto
<1>7. ASSUME NEW i \in 1..n
      PROVE  From(t, cut, i) = From(s, cut, i) /\ From(s, cut, i) \in Nat
  <2>1. CASE i = 1
    BY <2>1 DEF From
  <2>2. CASE i # 1
    <3>1. i - 1 \in 1..(n - 1)
      BY <1>1, <2>2
    <3>2. HeaderAt(s, cut[i - 1]) /\ cut[i - 1] \in Nat
      BY <1>6, <3>1 DEF MessageAt
    <3> QED
      BY <1>4, <2>2, <3>2, HeaderWords DEF From
  <2> QED
    BY <2>1, <2>2
<1>8. ASSUME NEW i \in 1..n PROVE Skipped(t, From(t, cut, i), cut[i])
  <2>1. Skipped(s, From(s, cut, i), cut[i])
    BY <1>1, <1>2 DEF CutsInto
  <2>2. \A k \in From(s, cut, i)..(cut[i] - 1) : k \in Nat
    BY <1>2, <1>7
  <2> QED
    BY <1>4, <1>7, <2>1, <2>2 DEF Skipped
<1>9. CutsInto(t, cut, messages)
  BY <1>1, <1>5, <1>6, <1>8 DEF CutsInto
<1> QED
  BY <1>2, <1>9 DEF Cut, t

(***************************************************************************)
(* The scan.  What is held, of a header or of a message, is a piece of the *)
(* stream; what is before it has been cut into the messages dispatched.    *)
(***************************************************************************)
Base == Len(fed) - Left    \* how much of the stream feed() has consumed

Scanned ==
  IF ~assembling THEN Base
  ELSE IF ~haveHeader THEN Base - Len(hdr)
  ELSE Base - Len(payload) - HeaderLen

\* The chunk is the end of the stream.
ChunkInv ==
  /\ Len(chunk) <= Len(fed)
  /\ \A i \in 1..Len(chunk) : chunk[i] = fed[Len(fed) - Len(chunk) + i]

HeldInv ==
  /\ Scanned \in Nat
  /\ assembling /\ ~haveHeader => \A i \in 1..Len(hdr) : hdr[i] = fed[Scanned + i]
  /\ assembling /\ haveHeader =>
       /\ GoodAt(fed, Scanned) /\ fed[Scanned + 2] = need
       /\ \A i \in 1..Len(payload) : payload[i] = fed[Scanned + HeaderLen + i]

ScanInv == ChunkInv /\ HeldInv /\ Cut(fed, out, Scanned)

LEMMA Lengths ==
  ASSUME TypeOK, ChunkInv
  PROVE  /\ Len(fed) \in Nat /\ Len(chunk) \in Nat /\ pos \in Nat /\ Left \in Nat
         /\ Len(hdr) \in Nat /\ Len(payload) \in Nat
         /\ Base \in Nat /\ Base = Len(fed) - Len(chunk) + pos
         /\ pos + Left = Len(chunk) /\ Base + Left = Len(fed)
BY LenProperties, LeftRange DEF TypeOK, ChunkInv, Base, Left

\* What feed() looks at in the chunk is what comes next in the stream.
LEMMA PeekIsStream ==
  ASSUME TypeOK, ChunkInv, NEW n \in 0..Left
  PROVE  \A i \in 1..n : Peek(n)[i] = fed[Base + i]
<1>1. ASSUME NEW i \in 1..n PROVE Peek(n)[i] = fed[Base + i]
  <2>1. Peek(n)[i] = chunk[pos + i]
    BY PeekFits
  <2>2. pos + i \in 1..Len(chunk)
    <3>1. pos \in Nat /\ Left \in Nat /\ pos + Left = Len(chunk)
      BY Lengths
    <3> QED
      BY <3>1
  <2>3. chunk[pos + i] = fed[Len(fed) - Len(chunk) + (pos + i)]
    BY <2>2 DEF ChunkInv
  <2>4. Len(fed) - Len(chunk) + (pos + i) = Base + i
    BY Lengths
  <2> QED
    BY <2>1, <2>3, <2>4
<1> QED
  BY <1>1

\* A header copied out of the stream is good where the stream's is.
LEMMA CopiedHeader ==
  ASSUME NEW h \in Seq(Byte), Len(h) = HeaderLen, NEW q \in Nat,
         \A i \in 1..HeaderLen : h[i] = fed[q + i]
  PROVE  (GoodHeader(h) <=> GoodAt(fed, q)) /\ BodyLength(h) = fed[q + 2]
<1>1. 1 \in 1..HeaderLen /\ 2 \in 1..HeaderLen /\ HeaderLen \in 1..HeaderLen
  BY ParserConstantsOK
<1>2. h[1] = fed[q + 1] /\ h[2] = fed[q + 2] /\ h[HeaderLen] = fed[q + HeaderLen]
  BY <1>1
<1> QED
  BY <1>2 DEF GoodHeader, GoodAt, BodyLength

LEMMA FullHdrIsStream ==
  ASSUME TypeOK, ChunkInv, HeldInv, assembling, ~haveHeader, Len(hdr) < HeaderLen
  PROVE  /\ Scanned + Len(FullHdr) = Base + HeaderBytes
         /\ \A i \in 1..Len(FullHdr) : FullHdr[i] = fed[Scanned + i]
<1>0. Base \in Nat /\ Len(hdr) \in Nat
  BY Lengths
<1>1. /\ HeaderBytes \in 0..Left /\ HeaderBytes \in Nat
      /\ Len(FullHdr) = Len(hdr) + HeaderBytes
  BY FullHdrFits, Lengths
<1>2. Scanned = Base - Len(hdr) /\ Scanned \in Nat
  BY DEF HeldInv, Scanned
<1>3. /\ Peek(HeaderBytes) \in Seq(Byte) /\ Len(Peek(HeaderBytes)) = HeaderBytes
      /\ \A i \in 1..HeaderBytes : Peek(HeaderBytes)[i] = fed[Base + i]
  BY <1>1, PeekFits, PeekIsStream
<1>4. ASSUME NEW i \in 1..Len(FullHdr) PROVE FullHdr[i] = fed[Scanned + i]
  <2>1. i \in 1..(Len(hdr) + Len(Peek(HeaderBytes)))
    BY <1>1, <1>3
  <2>2. FullHdr[i] = IF i <= Len(hdr) THEN hdr[i] ELSE Peek(HeaderBytes)[i - Len(hdr)]
    BY <1>3, <2>1, ConcatProperties DEF TypeOK, FullHdr
  <2>3. CASE i <= Len(hdr)
    <3>1. i \in 1..Len(hdr)
      BY <1>0, <2>1, <2>3
    <3> QED
      BY <2>2, <2>3, <3>1 DEF HeldInv
  <2>4. CASE ~(i <= Len(hdr))
    <3>1. i - Len(hdr) \in 1..HeaderBytes /\ Base + (i - Len(hdr)) = Scanned + i
      BY <1>0, <1>1, <1>2, <2>4
    <3>2. Peek(HeaderBytes)[i - Len(hdr)] = fed[Base + (i - Len(hdr))]
      BY <1>3, <3>1
    <3> QED
      BY <2>2, <2>4, <3>1, <3>2
  <2> QED
    BY <2>3, <2>4
<1>5. Scanned + Len(FullHdr) = Base + HeaderBytes
  BY <1>0, <1>1, <1>2
<1> QED
  BY <1>4, <1>5

LEMMA ScanInvInit == Init => ScanInv
<1> SUFFICES ASSUME Init PROVE ScanInv
  OBVIOUS
<1>1. <<>> \in Seq(Byte) /\ Len(<<>>) = 0
  BY EmptySeq
<1>2. Scanned = 0 /\ Len(fed) = 0 /\ Len(chunk) = 0
  BY <1>1 DEF Init, Scanned, Base, Left
<1>3. ChunkInv /\ HeldInv
  BY <1>2 DEF Init, ChunkInv, HeldInv
<1> QED
  BY <1>1, <1>2, <1>3, EmptyCut DEF Init, ScanInv

\* A step that scans nothing.
LEMMA ScanKept ==
  ASSUME Cut(fed, out, Scanned), UNCHANGED <<fed, out, Scanned>>
  PROVE  Cut(fed, out, Scanned)'
OBVIOUS

\* A step of feed(), which moves on in the chunk.
LEMMA ChunkKept ==
  ASSUME TypeOK, ChunkInv, UNCHANGED <<chunk, fed>>, NEW n \in Nat, pos' = pos + n
  PROVE  ChunkInv' /\ Left' = Left - n /\ Base' = Base + n
<1>0. Len(fed) \in Nat /\ Len(chunk) \in Nat /\ pos \in Nat /\ Left \in Nat
  BY Lengths
<1>1. Left' = Left - n
  BY <1>0 DEF Left
<1>2. Base' = Base + n
  BY <1>0, <1>1 DEF Base
<1>3. ChunkInv'
  BY DEF ChunkInv
<1> QED
  BY <1>1, <1>2, <1>3

\* Going on with the payload of the message at q, of which got is there.
LEMMA TakePayloadScan ==
  ASSUME TypeOK, ChunkInv, NEW q \in Nat, Cut(fed, out, q), GoodAt(fed, q), assembling,
         NEW start \in Nat, pos <= start, start <= Len(chunk),
         NEW got \in Seq(Byte), NEW h \in Seq(Byte), Len(got) <= fed[q + 2],
         q + HeaderLen + Len(got) = Len(fed) - Len(chunk) + start,
         \A i \in 1..Len(got) : got[i] = fed[q + HeaderLen + i],
         TakePayload(start, got, fed[q + 2], h)
  PROVE  ScanInv'
<1> DEFINE size == fed[q + 2]
           n == IF size - Len(got) < Len(chunk) - start
                THEN size - Len(got) ELSE Len(chunk) - start
           piece == SubSeq(chunk, start + 1, start + n)
           body == got \o piece
<1>0. /\ Len(fed) \in Nat /\ Len(chunk) \in Nat /\ pos \in Nat /\ Left \in Nat
      /\ Base \in Nat /\ Base = Len(fed) - Len(chunk) + pos
      /\ pos + Left = Len(chunk) /\ Base + Left = Len(fed)
  BY Lengths
<1>1. Len(got) \in Nat /\ Len(chunk) \in Nat /\ HeaderLen \in Nat
  BY <1>0, LenProperties, ParserConstantsOK
<1>2. HeaderAt(fed, q)
  <2>1. q + HeaderLen + Len(got) <= Len(fed)
    BY <1>0, <1>1
  <2> QED
    BY <1>0, <1>1, <2>1 DEF HeaderAt
<1>3. size \in Nat /\ EndAt(fed, q) = q + HeaderLen + size
  BY <1>2, HeaderWords DEF TypeOK, EndAt
<1>4. /\ chunk' = chunk /\ fed' = fed /\ pos' = start + n
      /\ IF Len(body) = size
         THEN out' = Append(out, body) /\ Idle
         ELSE /\ payload' = body /\ need' = size /\ haveHeader' = TRUE
              /\ hdr' = h /\ UNCHANGED <<assembling, out>>
  BY DEF TakePayload
<1>5. n \in 0..(Len(chunk) - start) /\ n \in Nat /\ Len(got) + n <= size
  BY <1>1, <1>3
<1> HIDE DEF size, n
<1>6. /\ piece \in Seq(Byte) /\ Len(piece) = n
      /\ \A i \in 1..n : piece[i] = chunk[start + i]
  <2>1. start + n \in start..Len(chunk) /\ (start + n) - start = n
    BY <1>1, <1>5
  <2>2. chunk \in Seq(Byte)
    BY DEF TypeOK
  <2> DEFINE e == start + n
  <2>3. e \in start..Len(chunk) /\ e - start = n
    BY <2>1
  <2> HIDE DEF e
  <2>4. /\ SubSeq(chunk, start + 1, e) \in Seq(Byte)
        /\ Len(SubSeq(chunk, start + 1, e)) = e - start
        /\ \A i \in 1..(e - start) : SubSeq(chunk, start + 1, e)[i] = chunk[start + i]
    BY <2>2, <2>3, Piece
  <2> QED
    BY <2>3, <2>4 DEF e
<1>7. body \in Seq(Byte) /\ Len(body) = Len(got) + n
  BY <1>6, ConcatProperties
<1>8. ASSUME NEW i \in 1..Len(body) PROVE body[i] = fed[q + HeaderLen + i]
  <2>1. body[i] = IF i <= Len(got) THEN got[i] ELSE piece[i - Len(got)]
    BY <1>6, <1>7, <1>8, ConcatProperties
  <2>2. CASE i <= Len(got)
    BY <1>1, <2>1, <2>2
  <2>3. CASE ~(i <= Len(got))
    <3> DEFINE k == i - Len(got)
    <3>1. k \in 1..n /\ start + k \in 1..Len(chunk)
      BY <1>1, <1>5, <1>7, <1>8, <2>3
    <3>2. Len(fed) - Len(chunk) + (start + k) = q + HeaderLen + i
      <4>1. k \in Int /\ i = Len(got) + k
        BY <1>1, <1>5, <1>7
      <4> HIDE DEF k
      <4>2. Len(fed) - Len(chunk) + (start + k) = (Len(fed) - Len(chunk) + start) + k
        BY <1>0, <4>1
      <4>3. (q + HeaderLen + Len(got)) + k = q + HeaderLen + (Len(got) + k)
        BY <1>1, <4>1
      <4> QED
        BY <4>1, <4>2, <4>3
    <3>3. chunk[start + k] = fed[Len(fed) - Len(chunk) + (start + k)]
      BY <3>1 DEF ChunkInv
    <3>4. body[i] = piece[k] /\ piece[k] = chunk[start + k]
      BY <1>6, <2>1, <2>3, <3>1
    <3> QED
      BY <3>2, <3>3, <3>4
  <2> QED
    BY <2>2, <2>3
<1> DEFINE moved == (start - pos) + n
<1>9. moved \in Nat /\ pos' = pos + moved /\ moved <= Left
  <2>1. pos' = start + n
    BY <1>4
  <2> QED
    BY <1>0, <1>5, <2>1
<1>10. ChunkInv' /\ Left' = Left - moved /\ Base' = Base + moved
  BY <1>4, <1>9, ChunkKept
<1>11. Base' = q + HeaderLen + Len(body)
  <2>1. Base' = Len(fed) - Len(chunk) + start + n
    BY <1>0, <1>5, <1>10
  <2>2. Len(body) = Len(got) + n
    BY <1>7
  <2> HIDE DEF body, moved
  <2>3. Base' = (q + HeaderLen + Len(got)) + n
    BY <2>1
  <2>4. q + HeaderLen + (Len(got) + n) = (q + HeaderLen + Len(got)) + n
    BY <1>1, <1>5
  <2> QED
    BY <2>2, <2>3, <2>4
<1> HIDE DEF moved, body
<1>12. CASE Len(body) = size
  <2>1. out' = Append(out, body) /\ assembling' = FALSE
    BY <1>4, <1>12 DEF Idle
  <2>2. EndAt(fed, q) \in Nat /\ Scanned' = EndAt(fed, q)
    BY <1>2, <1>3, <1>11, <1>12, <2>1, HeaderWords DEF TypeOK, Scanned
  <2>3. q + HeaderLen \in Nat /\ EndAt(fed, q) \in (q + HeaderLen)..Len(fed)
    <3>1. EndAt(fed, q) <= Len(fed)
      <4>1. Base' = EndAt(fed, q)
        BY <1>3, <1>11, <1>12
      <4> QED
        BY <1>0, <1>9, <1>10, <4>1
    <3> QED
      BY <1>3, <2>2, <3>1, Lengths, ParserConstantsOK
  <2>4. body = SubSeq(fed, q + HeaderLen + 1, EndAt(fed, q))
    <3> DEFINE m == q + HeaderLen
               e == EndAt(fed, q)
               sub == SubSeq(fed, m + 1, e)
    <3>1. /\ sub \in Seq(Byte) /\ Len(sub) = e - m
          /\ \A i \in 1..(e - m) : sub[i] = fed[m + i]
      <4>1. m \in Nat /\ e \in m..Len(fed) /\ fed \in Seq(Byte)
        BY <2>3 DEF TypeOK
      <4> HIDE DEF m, e
      <4> QED
        BY <4>1, Piece
    <3>2. e - m = Len(body)
      BY <1>3, <1>12, ParserConstantsOK
    <3> HIDE DEF sub
    <3>3. \A i \in 1..Len(body) : body[i] = sub[i]
      BY <1>8, <3>1, <3>2
    <3>4. body = sub
      BY <1>7, <3>1, <3>2, <3>3, SeqEqual DEF body
    <3> QED
      BY <3>4 DEF sub
  <2>5. MessageAt(fed, q, body)
    BY <1>2, <2>3, <2>4, Lengths DEF MessageAt
  <2>6. Cut(fed, Append(out, body), EndAt(fed, q))
    BY <1>7, <2>5, CutDispatches DEF TypeOK, Messages, body
  <2>7. Cut(fed, out, Scanned)'
    BY <1>4, <2>1, <2>2, <2>6
  <2>8. HeldInv'
    BY <2>1, <2>2 DEF HeldInv
  <2> QED
    BY <1>10, <2>7, <2>8 DEF ScanInv
<1>13. CASE Len(body) # size
  <2>1. /\ payload' = body /\ need' = size /\ haveHeader' = TRUE
        /\ assembling' = assembling /\ out' = out
    BY <1>4, <1>13
  <2>2. Scanned' = q
    <3>1. Scanned' = Base' - Len(body) - HeaderLen
      BY <2>1 DEF Scanned
    <3>2. Len(body) \in Nat
      BY <1>1, <1>5, <1>7 DEF body
    <3> QED
      BY <1>11, <3>1, <3>2, ParserConstantsOK
  <2>3. Cut(fed, out, Scanned)'
    BY <1>4, <2>1, <2>2
  <2>4. GoodAt(fed, q)' /\ fed'[q + 2] = need'
    BY <1>4, <2>1 DEF GoodAt, size
  <2>5. HeldInv'
    BY <1>4, <1>8, <2>1, <2>2, <2>4 DEF HeldInv, GoodAt
  <2> QED
    BY <1>10, <2>3, <2>5 DEF ScanInv
<1> QED
  BY <1>12, <1>13

LEMMA ScanInvStep == IInv /\ ScanInv /\ [Next]_vars => ScanInv'
<1> SUFFICES ASSUME IInv, ScanInv, [Next]_vars PROVE ScanInv'
  OBVIOUS
<1> USE DEF IInv, ScanInv
<1>0. /\ Len(fed) \in Nat /\ Len(chunk) \in Nat /\ pos \in Nat /\ Left \in Nat
      /\ Len(hdr) \in Nat /\ Len(payload) \in Nat
      /\ Base \in Nat /\ Base = Len(fed) - Len(chunk) + pos
      /\ pos + Left = Len(chunk) /\ Base + Left = Len(fed)
      /\ HeaderLen \in Nat /\ HeaderLen >= 3
  BY Lengths, ParserConstantsOK
<1>1. Scanned \in Nat
  BY DEF HeldInv
<1>2. <<>> \in Seq(Byte) /\ Len(<<>>) = 0
  BY EmptySeq
<1>3. CASE Feed
  <2>1. PICK k \in 1..(MaxStream - Len(fed)) :
          \E c \in [1..k -> Byte] : chunk' = c /\ fed' = fed \o c
    BY <1>3 DEF Feed
  <2>2. PICK c \in [1..k -> Byte] : chunk' = c /\ fed' = fed \o c
    BY <2>1
  <2>3. k \in Nat
    BY <1>0, <2>1, ParserConstantsOK
  <2>4. c \in Seq(Byte) /\ Len(c) = k
    BY <2>3, SeqDef, LenProperties
  <2>5. /\ Len(fed') = Len(fed) + k
        /\ \A i \in 1..Len(fed) : fed'[i] = fed[i]
        /\ \A i \in 1..k : c[i] = fed'[Len(fed) + i]
    <3>1. /\ Len(fed \o c) = Len(fed) + Len(c)
          /\ \A i \in 1..(Len(fed) + Len(c)) :
               (fed \o c)[i] = IF i <= Len(fed) THEN fed[i] ELSE c[i - Len(fed)]
      BY <2>4, ConcatProperties DEF TypeOK
    <3>2. ASSUME NEW i \in 1..Len(fed) PROVE (fed \o c)[i] = fed[i]
      BY <1>0, <2>3, <2>4, <3>1
    <3>3. ASSUME NEW i \in 1..k PROVE (fed \o c)[Len(fed) + i] = c[i]
      <4>1. /\ Len(fed) + i \in 1..(Len(fed) + Len(c)) /\ ~(Len(fed) + i <= Len(fed))
            /\ (Len(fed) + i) - Len(fed) = i
        BY <1>0, <2>3, <2>4
      <4> QED
        BY <3>1, <4>1
    <3> QED
      BY <2>2, <2>4, <3>1, <3>2, <3>3
  <2>6. Left = 0 /\ pos' = 0
        /\ UNCHANGED <<assembling, haveHeader, hdr, need, payload, out>>
    BY <1>3 DEF Feed
  <2>7. Base = Len(fed) /\ Base' = Base
    <3>1. Left' = k
      BY <2>2, <2>3, <2>4, <2>6 DEF Left
    <3>2. Base' = (Len(fed) + k) - k
      BY <2>5, <3>1 DEF Base
    <3> QED
      BY <1>0, <2>3, <2>6, <3>2
  <2>8. Scanned' = Scanned
    BY <2>6, <2>7 DEF Scanned
  <2>9. ChunkInv'
    <3>1. Len(chunk') = k /\ Len(fed') - Len(chunk') = Len(fed)
      BY <1>0, <2>2, <2>3, <2>4, <2>5
    <3> QED
      BY <1>0, <2>2, <2>3, <2>5, <3>1 DEF ChunkInv
  <2>10. HeldInv'
    <3>1. CASE assembling /\ ~haveHeader
      <4>1. Scanned + Len(hdr) = Len(fed)
        BY <1>0, <2>7, <3>1 DEF Scanned
      <4>2. \A i \in 1..Len(hdr) : Scanned + i \in 1..Len(fed)
        BY <1>0, <1>1, <4>1
      <4>3. \A i \in 1..Len(hdr) : hdr[i] = fed'[Scanned + i]
        BY <2>5, <3>1, <4>2 DEF HeldInv
      <4> QED
        BY <1>1, <2>6, <2>8, <3>1, <4>3 DEF HeldInv
    <3>2. CASE assembling /\ haveHeader
      <4>1. Scanned + HeaderLen + Len(payload) = Len(fed)
        BY <1>0, <2>7, <3>2 DEF Scanned
      <4>2. \A i \in 1..Len(payload) : Scanned + HeaderLen + i \in 1..Len(fed)
        BY <1>0, <1>1, <4>1
      <4>3. /\ Scanned + 1 \in 1..Len(fed) /\ Scanned + 2 \in 1..Len(fed)
            /\ Scanned + HeaderLen \in 1..Len(fed)
        BY <1>0, <1>1, <4>1
      <4>4. \A i \in 1..Len(payload) : payload[i] = fed'[Scanned + HeaderLen + i]
        BY <2>5, <3>2, <4>2 DEF HeldInv
      <4>5. /\ fed'[Scanned + 1] = Magic /\ fed'[Scanned + 2] <= MaxMessage
            /\ fed'[Scanned + HeaderLen] = 0 /\ fed'[Scanned + 2] = need
        BY <2>5, <3>2, <4>3 DEF HeldInv, GoodAt
      <4> QED
        BY <1>1, <2>6, <2>8, <3>2, <4>4, <4>5 DEF HeldInv, GoodAt
    <3>3. CASE ~assembling
      BY <1>1, <2>6, <2>8, <3>3 DEF HeldInv
    <3> QED
      BY <3>1, <3>2, <3>3
  <2>11. Cut(fed, out, Scanned)'
    <3>1. Cut(fed \o c, out, Scanned)
      BY <1>1, <2>4, CutGrows DEF TypeOK, Messages
    <3> QED
      BY <2>2, <2>6, <2>8, <3>1
  <2> QED
    BY <2>9, <2>10, <2>11
<1>4. CASE Reset
  <2>1. /\ chunk' = <<>> /\ fed' = <<>> /\ out' = <<>> /\ hdr' = <<>>
        /\ pos' = 0 /\ haveHeader' = FALSE
    BY <1>4 DEF Reset
  <2>2. Scanned' = 0 /\ Len(fed') = 0 /\ Len(chunk') = 0
    <3>1. Len(fed') = 0 /\ Len(chunk') = 0 /\ Len(hdr') = 0
      BY <1>2, <2>1
    <3>2. Base' = 0
      BY <2>1, <3>1 DEF Base, Left
    <3>3. Scanned' = IF ~assembling' THEN Base' ELSE Base' - Len(hdr')
      BY <2>1 DEF Scanned
    <3> QED
      BY <3>1, <3>2, <3>3
  <2>3. ChunkInv' /\ HeldInv'
    BY <1>2, <2>1, <2>2 DEF ChunkInv, HeldInv
  <2>4. Cut(fed, out, Scanned)'
    BY <1>2, <2>1, <2>2, EmptyCut
  <2> QED
    BY <2>3, <2>4
<1>5. CASE KeepPartialHeader
  <2>1. /\ hdr' = Peek(Left) /\ haveHeader' = FALSE /\ assembling' = TRUE
        /\ pos' = pos + Left /\ UNCHANGED <<chunk, fed, out>> /\ ~assembling
    BY <1>0, <1>5 DEF KeepPartialHeader
  <2>2. ChunkInv' /\ Base' = Base + Left
    BY <1>0, <2>1, ChunkKept
  <2>3. Len(hdr') = Left /\ \A i \in 1..Left : hdr'[i] = fed[Base + i]
    <3>1. Left \in 0..Left
      BY <1>0
    <3>2. Len(Peek(Left)) = Left /\ \A i \in 1..Left : Peek(Left)[i] = fed[Base + i]
      BY <3>1, PeekFits, PeekIsStream
    <3> QED
      BY <2>1, <3>2
  <2>4. Scanned = Base /\ Scanned' = Base
    BY <1>0, <2>1, <2>2, <2>3 DEF Scanned
  <2>5. HeldInv'
    BY <1>1, <2>1, <2>3, <2>4 DEF HeldInv
  <2> QED
    BY <2>1, <2>2, <2>4, <2>5, ScanKept
<1>6. CASE SkipByte
  <2>1. /\ pos' = pos + 1 /\ ~assembling /\ assembling' = FALSE
        /\ UNCHANGED <<chunk, fed, out>>
        /\ Left >= HeaderLen /\ ~GoodHeader(Peek(HeaderLen))
    BY <1>6 DEF SkipByte
  <2>2. ChunkInv' /\ Base' = Base + 1
    BY <2>1, ChunkKept
  <2>3. Scanned = Base /\ Scanned' = Base + 1
    BY <2>1, <2>2 DEF Scanned
  <2>4. /\ Peek(HeaderLen) \in Seq(Byte) /\ Len(Peek(HeaderLen)) = HeaderLen
        /\ \A i \in 1..HeaderLen : Peek(HeaderLen)[i] = fed[Base + i]
    BY <1>0, <2>1, PeekFits, PeekIsStream
  <2>5. HeaderAt(fed, Base) /\ ~GoodAt(fed, Base)
    <3>1. Base + HeaderLen <= Len(fed)
      BY <1>0, <2>1
    <3>2. ~GoodAt(fed, Base)
      BY <1>0, <2>1, <2>4, CopiedHeader
    <3> QED
      BY <3>1, <3>2 DEF HeaderAt
  <2>6. Cut(fed, out, Base + 1)
    BY <1>0, <2>3, <2>5, CutSkips DEF TypeOK, Messages
  <2>7. HeldInv'
    BY <1>0, <2>1, <2>3 DEF HeldInv
  <2> QED
    BY <2>1, <2>2, <2>3, <2>6, <2>7
<1>7. CASE DispatchInPlace
  <2> DEFINE h == Peek(HeaderLen)
             size == BodyLength(h)
             start == pos + HeaderLen
             body == SubSeq(chunk, start + 1, start + size)
  <2>1. /\ ~assembling /\ assembling' = FALSE /\ UNCHANGED <<chunk, fed>>
        /\ Left >= HeaderLen /\ GoodHeader(h) /\ Left - HeaderLen >= size
        /\ out' = Append(out, body) /\ pos' = start + size
    BY <1>7 DEF DispatchInPlace
  <2>2. /\ h \in Seq(Byte) /\ Len(h) = HeaderLen
        /\ \A i \in 1..HeaderLen : h[i] = fed[Base + i]
    BY <1>0, <2>1, PeekFits, PeekIsStream
  <2>3. GoodAt(fed, Base) /\ size = fed[Base + 2]
    BY <1>0, <2>1, <2>2, CopiedHeader
  <2>4. size \in Nat
    BY <2>2, HeaderSize
  <2> HIDE DEF h, size
  <2>5. /\ HeaderAt(fed, Base) /\ EndAt(fed, Base) = Base + HeaderLen + size
        /\ EndAt(fed, Base) <= Len(fed) /\ EndAt(fed, Base) \in Nat
    <3>1. Base + HeaderLen <= Len(fed) /\ Base + HeaderLen + size <= Len(fed)
          /\ Base + HeaderLen + size \in Nat
      BY <1>0, <2>1, <2>4
    <3>2. EndAt(fed, Base) = Base + HeaderLen + size
      BY <2>3 DEF EndAt
    <3> QED
      BY <3>1, <3>2 DEF HeaderAt
  <2>6. ChunkInv' /\ Base' = EndAt(fed, Base)
    <3>1. HeaderLen + size \in Nat /\ pos' = pos + (HeaderLen + size)
      BY <1>0, <2>1, <2>4
    <3>2. ChunkInv' /\ Base' = Base + (HeaderLen + size)
      BY <2>1, <3>1, ChunkKept
    <3> QED
      BY <1>0, <2>4, <2>5, <3>2
  <2>7. Scanned = Base /\ Scanned' = EndAt(fed, Base)
    BY <2>1, <2>6 DEF Scanned
  <2>8. /\ body \in Seq(Byte) /\ Len(body) = size
        /\ \A i \in 1..size : body[i] = chunk[start + i]
    <3> DEFINE e == start + size
    <3>1. start \in Nat /\ e \in start..Len(chunk) /\ e - start = size /\ chunk \in Seq(Byte)
      BY <1>0, <2>1, <2>4 DEF TypeOK
    <3> HIDE DEF e, start
    <3>2. /\ SubSeq(chunk, start + 1, e) \in Seq(Byte)
          /\ Len(SubSeq(chunk, start + 1, e)) = e - start
          /\ \A i \in 1..(e - start) : SubSeq(chunk, start + 1, e)[i] = chunk[start + i]
      BY <3>1, Piece
    <3> QED
      BY <3>1, <3>2 DEF e
  <2>9. body = SubSeq(fed, Base + HeaderLen + 1, EndAt(fed, Base))
    <3> DEFINE m == Base + HeaderLen
               e == EndAt(fed, Base)
               sub == SubSeq(fed, m + 1, e)
    <3>0. fed \in Seq(Byte)
      BY DEF TypeOK
    <3>1. m \in Nat /\ e \in m..Len(fed) /\ e - m = size
      BY <1>0, <2>4, <2>5
    <3> HIDE DEF m, e
    <3>2. /\ sub \in Seq(Byte) /\ Len(sub) = e - m
          /\ \A i \in 1..(e - m) : sub[i] = fed[m + i]
      BY <3>0, <3>1, Piece
    <3> HIDE DEF sub, body, start
    <3>3. ASSUME NEW i \in 1..size PROVE chunk[start + i] = fed[m + i]
      <4>1. start + i \in 1..Len(chunk)
            /\ Len(fed) - Len(chunk) + (start + i) = m + i
        BY <1>0, <2>1, <2>4 DEF start, m
      <4>2. chunk[start + i] = fed[Len(fed) - Len(chunk) + (start + i)]
        BY <4>1 DEF ChunkInv
      <4> QED
        BY <4>1, <4>2
    <3>4. \A i \in 1..Len(body) : body[i] = sub[i]
      BY <2>8, <3>1, <3>2, <3>3
    <3>5. body = sub
      BY <2>8, <3>1, <3>2, <3>4, SeqEqual
    <3> QED
      BY <3>5 DEF sub, m, e
  <2> HIDE DEF body
  <2>10. MessageAt(fed, Base, body)
    BY <2>3, <2>5, <2>9 DEF MessageAt
  <2>11. Cut(fed, Append(out, body), EndAt(fed, Base))
    BY <1>0, <2>7, <2>8, <2>10, CutDispatches DEF TypeOK, Messages
  <2>12. Cut(fed, out, Scanned)'
    BY <2>1, <2>7, <2>11
  <2>13. HeldInv'
    BY <2>1, <2>5, <2>7 DEF HeldInv
  <2> QED
    BY <2>6, <2>12, <2>13
<1>8. CASE KeepPartialPayload
  <2> DEFINE h == Peek(HeaderLen)
             start == pos + HeaderLen
  <2>1. /\ ~assembling /\ assembling' = TRUE /\ haveHeader' = TRUE
        /\ UNCHANGED <<chunk, fed, out>>
        /\ Left >= HeaderLen /\ GoodHeader(h) /\ need' = BodyLength(h)
        /\ payload' = SubSeq(chunk, start + 1, Len(chunk)) /\ pos' = pos + Left
    BY <1>0, <1>8 DEF KeepPartialPayload
  <2>2. /\ h \in Seq(Byte) /\ Len(h) = HeaderLen
        /\ \A i \in 1..HeaderLen : h[i] = fed[Base + i]
    BY <1>0, <2>1, PeekFits, PeekIsStream
  <2>3. GoodAt(fed, Base) /\ need' = fed[Base + 2]
    BY <1>0, <2>1, <2>2, CopiedHeader
  <2>4. ChunkInv' /\ Base' = Base + Left
    BY <1>0, <2>1, ChunkKept
  <2>5. /\ Len(payload') = Left - HeaderLen
        /\ \A i \in 1..(Left - HeaderLen) : payload'[i] = chunk[start + i]
    <3> DEFINE e == Len(chunk)
    <3>1. start \in Nat /\ e \in start..Len(chunk) /\ e - start = Left - HeaderLen
          /\ chunk \in Seq(Byte) /\ payload' = SubSeq(chunk, start + 1, e)
      BY <1>0, <2>1 DEF TypeOK
    <3> HIDE DEF e, start
    <3>2. /\ Len(SubSeq(chunk, start + 1, e)) = e - start
          /\ \A i \in 1..(e - start) : SubSeq(chunk, start + 1, e)[i] = chunk[start + i]
      BY <3>1, Piece
    <3> QED
      BY <3>1, <3>2
  <2>6. Scanned = Base /\ Scanned' = Base
    <3>1. Scanned = Base
      BY <2>1 DEF Scanned
    <3>2. Scanned' = (Base + Left) - (Left - HeaderLen) - HeaderLen
      BY <2>1, <2>4, <2>5 DEF Scanned
    <3> QED
      BY <1>0, <3>1, <3>2
  <2>7. ASSUME NEW i \in 1..Len(payload') PROVE payload'[i] = fed[Base + HeaderLen + i]
    <3>1. /\ i \in 1..(Left - HeaderLen) /\ start + i \in 1..Len(chunk)
          /\ Len(fed) - Len(chunk) + (start + i) = Base + HeaderLen + i
      <4>1. i \in 1..(Left - HeaderLen) /\ Left >= HeaderLen
        BY <2>1, <2>5
      <4> QED
        BY <1>0, <4>1
    <3>2. chunk[start + i] = fed[Len(fed) - Len(chunk) + (start + i)]
      BY <3>1 DEF ChunkInv
    <3> QED
      BY <2>5, <3>1, <3>2
  <2>8. HeldInv'
    BY <1>0, <2>1, <2>3, <2>6, <2>7 DEF HeldInv, GoodAt
  <2> QED
    BY <2>1, <2>4, <2>6, <2>8, ScanKept
<1>9. ASSUME Left > 0, assembling, ~haveHeader
      PROVE  /\ HeaderBytes \in Nat /\ HeaderEnd = pos + HeaderBytes
             /\ HeaderEnd \in Nat /\ HeaderEnd <= Len(chunk)
             /\ FullHdr \in Seq(Byte) /\ Len(FullHdr) \in Nat
             /\ Scanned + Len(FullHdr) = Base + HeaderBytes
             /\ \A i \in 1..Len(FullHdr) : FullHdr[i] = fed[Scanned + i]
  <2>1. Len(hdr) < HeaderLen
    BY <1>9 DEF BuffersFit
  <2>2. HeaderBytes \in 0..Left /\ FullHdr \in Seq(Byte)
    BY <2>1, FullHdrFits
  <2>3. HeaderEnd = pos + HeaderBytes /\ HeaderEnd <= Len(chunk)
        /\ HeaderEnd \in Nat /\ HeaderBytes \in Nat
    BY <1>0, <2>2 DEF HeaderEnd
  <2> QED
    BY <1>9, <2>1, <2>2, <2>3, FullHdrIsStream, LenProperties
<1>10. CASE GrowHeader
  <2>1. /\ hdr' = FullHdr /\ pos' = pos + HeaderBytes /\ Left > 0
        /\ assembling /\ ~haveHeader
        /\ UNCHANGED <<chunk, assembling, haveHeader, need, payload, fed, out>>
    BY <1>10 DEF GrowHeader, HeaderEnd
  <2>2. ChunkInv' /\ Base' = Base + HeaderBytes
    BY <1>9, <2>1, ChunkKept
  <2>3. Scanned' = Base' - Len(FullHdr)
    BY <2>1 DEF Scanned
  <2>4. Scanned' = Scanned
    BY <1>0, <1>1, <1>9, <2>1, <2>2, <2>3
  <2>5. HeldInv'
    BY <1>1, <1>9, <2>1, <2>4 DEF HeldInv
  <2> QED
    BY <2>1, <2>2, <2>4, <2>5, ScanKept
<1>11. CASE SlideHeader
  <2>1. /\ hdr' = Tail(FullHdr) /\ pos' = pos + HeaderBytes /\ Left > 0
        /\ assembling /\ ~haveHeader /\ Len(FullHdr) = HeaderLen /\ ~GoodHeader(FullHdr)
        /\ UNCHANGED <<chunk, assembling, haveHeader, need, payload, fed, out>>
    BY <1>11 DEF SlideHeader, HeaderEnd, SlidHeader
  <2>2. ChunkInv' /\ Base' = Base + HeaderBytes
    BY <1>9, <2>1, ChunkKept
  <2>3. /\ Len(hdr') = HeaderLen - 1
        /\ \A i \in 1..(HeaderLen - 1) : hdr'[i] = FullHdr[i + 1]
    <3>1. FullHdr # <<>>
      BY <1>0, <1>2, <2>1
    <3> QED
      BY <1>9, <2>1, <3>1, HeadTailProperties
  <2>4. Scanned + HeaderLen = Base' /\ Base' <= Len(fed)
    <3>1. Scanned + HeaderLen = Base + HeaderBytes
      BY <1>9, <2>1
    <3>2. pos + HeaderBytes <= Len(chunk)
      BY <1>9, <2>1
    <3>3. HeaderBytes \in Nat /\ Base' = Base + HeaderBytes
      BY <1>9, <2>1, <2>2
    <3> QED
      BY <1>0, <3>1, <3>2, <3>3
  <2>5. Scanned' = Base' - (HeaderLen - 1)
    BY <2>1, <2>3 DEF Scanned
  <2>6. Scanned' = Scanned + 1
    BY <1>0, <1>1, <2>4, <2>5
  <2>7. HeaderAt(fed, Scanned)
    BY <2>4 DEF HeaderAt
  <2>8. ~GoodAt(fed, Scanned)
    BY <1>1, <1>9, <2>1, CopiedHeader
  <2>9. Cut(fed, out, Scanned)'
    BY <1>1, <2>1, <2>6, <2>7, <2>8, CutSkips DEF TypeOK, Messages
  <2>10. ASSUME NEW i \in 1..Len(hdr') PROVE hdr'[i] = fed[Scanned + 1 + i]
    <3>1. i + 1 \in 1..Len(FullHdr) /\ Scanned + (i + 1) = Scanned + 1 + i
          /\ i \in 1..(HeaderLen - 1)
      BY <1>0, <1>1, <2>1, <2>3
    <3>2. FullHdr[i + 1] = fed[Scanned + (i + 1)]
      BY <1>9, <2>1, <3>1
    <3> QED
      BY <2>3, <3>1, <3>2
  <2>11. HeldInv'
    BY <1>1, <2>1, <2>6, <2>10 DEF HeldInv
  <2> QED
    BY <2>2, <2>9, <2>11
<1>12. CASE FinishHeader
  <2>1. /\ Left > 0 /\ assembling /\ ~haveHeader /\ Len(FullHdr) = HeaderLen
        /\ GoodHeader(FullHdr)
        /\ TakePayload(HeaderEnd, <<>>, BodyLength(FullHdr), FullHdr)
    BY <1>12 DEF FinishHeader
  <2>2. GoodAt(fed, Scanned) /\ BodyLength(FullHdr) = fed[Scanned + 2]
    BY <1>1, <1>9, <2>1, CopiedHeader
  <2>3. BodyLength(FullHdr) \in Nat
    <3>1. FullHdr \in Seq(Byte) /\ Len(FullHdr) >= HeaderLen
      BY <1>0, <1>9, <2>1
    <3> QED
      BY <3>1, HeaderSize
  <2>4. HeaderEnd \in Nat /\ pos <= HeaderEnd /\ HeaderEnd <= Len(chunk)
    BY <1>0, <1>9, <2>1
  <2>5. Scanned + HeaderLen + Len(<<>>) = Len(fed) - Len(chunk) + HeaderEnd
    <3>1. Scanned + HeaderLen = Base + HeaderBytes
      BY <1>9, <2>1
    <3>2. HeaderEnd = pos + HeaderBytes /\ HeaderBytes \in Nat
      BY <1>9, <2>1
    <3>3. Base + HeaderBytes = Len(fed) - Len(chunk) + HeaderEnd
      BY <1>0, <3>2
    <3> QED
      BY <1>0, <1>1, <1>2, <3>1, <3>3
  <2>6. Len(<<>>) <= fed[Scanned + 2]
        /\ \A i \in 1..Len(<<>>) : <<>>[i] = fed[Scanned + HeaderLen + i]
    BY <1>2, <2>2, <2>3
  <2>7. TakePayload(HeaderEnd, <<>>, fed[Scanned + 2], FullHdr) /\ FullHdr \in Seq(Byte)
    BY <1>9, <2>1, <2>2
  <2> QED
    BY <1>1, <1>2, <2>1, <2>2, <2>4, <2>5, <2>6, <2>7, TakePayloadScan
<1>13. CASE GrowPayload
  <2>1. /\ Left > 0 /\ assembling /\ haveHeader /\ TakePayload(pos, payload, need, hdr)
    BY <1>13 DEF GrowPayload
  <2>2. /\ GoodAt(fed, Scanned) /\ fed[Scanned + 2] = need
        /\ \A i \in 1..Len(payload) : payload[i] = fed[Scanned + HeaderLen + i]
    BY <2>1 DEF HeldInv
  <2>3. Len(payload) <= need /\ payload \in Seq(Byte) /\ hdr \in Seq(Byte)
    BY <1>0, <2>1 DEF TypeOK, BuffersFit
  <2>4. pos <= Len(chunk) /\ pos <= pos
    BY <1>0
  <2>5. Scanned + HeaderLen + Len(payload) = Len(fed) - Len(chunk) + pos
    <3>1. Scanned = Base - Len(payload) - HeaderLen
      BY <2>1 DEF Scanned
    <3> QED
      BY <1>0, <3>1
  <2> QED
    BY <1>0, <1>1, <2>1, <2>2, <2>3, <2>4, <2>5, TakePayloadScan
<1>14. CASE UNCHANGED vars
  BY <1>14 DEF vars, ChunkInv, HeldInv, Scanned, Base, Left
<1> QED
  BY <1>3, <1>4, <1>5, <1>6, <1>7, <1>8, <1>10, <1>11, <1>12, <1>13, <1>14
     DEF Next, FastPath, Assemble

(***************************************************************************)
(* Between two chunks what is held is not a whole message, so the scan     *)
(* cannot go on.                                                           *)
(***************************************************************************)
LEMMA ScanIsComplete == IInv /\ ScanInv /\ Left = 0 => WaitsAt(fed, Scanned)
<1> SUFFICES ASSUME IInv, ScanInv, Left = 0, HeaderAt(fed, Scanned)
             PROVE  GoodAt(fed, Scanned) /\ EndAt(fed, Scanned) > Len(fed)
  BY DEF WaitsAt
<1> USE DEF IInv, ScanInv
<1>1. /\ Base = Len(fed) /\ Len(fed) \in Nat /\ Len(hdr) \in Nat /\ Len(payload) \in Nat
      /\ HeaderLen \in Nat /\ HeaderLen >= 3
  BY Lengths, ParserConstantsOK
<1>2. Scanned + HeaderLen <= Len(fed)
  BY DEF HeaderAt
<1>3. assembling /\ haveHeader
  <2>1. CASE ~assembling
    BY <1>1, <1>2, <2>1 DEF Scanned
  <2>2. CASE assembling /\ ~haveHeader
    <3>1. Scanned = Len(fed) - Len(hdr)
      BY <1>1, <2>2 DEF Scanned
    <3> QED
      BY <1>1, <1>2, <2>2, <3>1 DEF BuffersFit
  <2> QED
    BY <2>1, <2>2
<1>4. Scanned = Len(fed) - Len(payload) - HeaderLen
  BY <1>1, <1>3 DEF Scanned
<1>5. GoodAt(fed, Scanned) /\ EndAt(fed, Scanned) = Scanned + HeaderLen + need
  BY <1>3 DEF HeldInv, EndAt
<1>6. Len(payload) < need /\ need \in Nat
  BY <1>3 DEF BuffersFit, TypeOK
<1>7. Scanned + HeaderLen + need > Len(fed)
  BY <1>1, <1>4, <1>6
<1> QED
  BY <1>5, <1>7

\* Every message of the cut begins in the stream.
LEMMA CutsAreInside ==
  ASSUME NEW s \in Seq(Byte), NEW messages \in Messages,
         NEW cut \in [1..(Len(messages) + 1) -> Nat], CutsInto(s, cut, messages)
  PROVE  \A i \in 1..Len(messages) : cut[i] <= Len(s)
<1> TAKE i \in 1..Len(messages)
<1>1. Len(messages) \in Nat
  BY LenProperties DEF Messages
<1>2. cut[i] \in Nat
  BY <1>1
<1>3. MessageAt(s, cut[i], messages[i])
  BY DEF CutsInto
<1> QED
  BY <1>2, <1>3, LenProperties, ParserConstantsOK DEF MessageAt, HeaderAt

LEMMA ScanCuts == IInv /\ ScanInv => ChunkingIrrelevant
<1> SUFFICES ASSUME IInv, ScanInv, Left = 0
             PROVE  \E cut \in [1..(Len(out) + 1) -> 0..Len(fed)] : IsCut(fed, cut, out)
  BY DEF ChunkingIrrelevant
<1>1. PICK cut \in [1..(Len(out) + 1) -> Nat] :
        CutsInto(fed, cut, out) /\ cut[Len(out) + 1] = Scanned
  BY DEF ScanInv, Cut
<1>2. WaitsAt(fed, Scanned)
  BY ScanIsComplete
<1>3. IsCut(fed, cut, out)
  BY <1>1, <1>2 DEF IsCut
<1>4. /\ fed \in Seq(Byte) /\ out \in Messages /\ Len(fed) \in Nat /\ Len(out) \in Nat
  BY LenProperties DEF IInv, TypeOK, Messages
<1>5. Scanned <= Len(fed)
  <2>1. /\ Base \in Nat /\ Base + Left = Len(fed) /\ Len(hdr) \in Nat /\ Len(payload) \in Nat
        /\ HeaderLen \in Nat
    BY Lengths, ParserConstantsOK DEF IInv, ScanInv
  <2>2. Scanned \in {Base, Base - Len(hdr), Base - Len(payload) - HeaderLen}
    BY DEF Scanned
  <2> QED
    BY <2>1, <2>2
<1>6. ASSUME NEW i \in 1..(Len(out) + 1) PROVE cut[i] \in 0..Len(fed)
  <2>1. CASE i = Len(out) + 1
    BY <1>1, <1>4, <1>5, <2>1
  <2>2. CASE i \in 1..Len(out)
    BY <1>1, <1>4, <2>2, CutsAreInside
  <2> QED
    BY <1>4, <2>1, <2>2
<1>7. cut \in [1..(Len(out) + 1) -> 0..Len(fed)]
  BY <1>1, <1>6
<1> QED
  BY <1>3, <1>7

\* Every copy the parser makes stays within the chunk it reads, and its state
\* is well-typed.
THEOREM TypeCorrect == Spec => []TypeOK
<1> QED
  BY IInvInit, IInvStep, PTL DEF Spec, IInv

\* Nothing that is being assembled outgrows the buffers it is copied into, for
\* any stream cut anywhere.
THEOREM AssemblyFits == Spec => []BuffersFit
<1> QED
  BY IInvInit, IInvStep, PTL DEF Spec, IInv

\* However a stream is cut into chunks, and whatever of it is garbage, the
\* messages dispatched are those of the stream, in order, whole and once each.
THEOREM ChunksDoNotMatter == Spec => []ChunkingIrrelevant
<1>1. IInv /\ ScanInv /\ [Next]_vars => (IInv /\ ScanInv)'
  BY IInvStep, ScanInvStep
<1> QED
  BY <1>1, IInvInit, ScanInvInit, ScanCuts, PTL DEF Spec

(***************************************************************************)
(* A stream has one cut.                                                   *)
(***************************************************************************)
LEMMA LeastNumber ==
  ASSUME NEW T, T \subseteq Nat, T # {}
  PROVE  \E x \in T : \A y \in T : x <= y
<1>1. PICK x \in T : \A y \in T : ~(<<y, x>> \in OpToRel(<, Nat))
  BY NatLessThanWellFounded, WFMin
<1>2. ASSUME NEW y \in T PROVE x <= y
  <2>1. x \in Nat /\ y \in Nat
    OBVIOUS
  <2>2. ~(y < x)
    BY <1>1, <2>1 DEF OpToRel
  <2> QED
    BY <2>1, <2>2
<1> QED
  BY <1>2

CutsOf(s, messages) ==
  {cut \in [1..(Len(messages) + 1) -> Nat] : IsCut(s, cut, messages)}

\* A cut does not lie among the headers another one skips.
LEMMA CutIsNotSkipped ==
  ASSUME NEW s \in Seq(Byte), NEW messages \in Messages,
         NEW cut \in CutsOf(s, messages),
         NEW i \in 1..(Len(messages) + 1), HeaderAt(s, cut[i])
  PROVE  GoodAt(s, cut[i])
<1>1. Len(messages) \in Nat
  BY LenProperties DEF Messages
<1>2. CASE i \in 1..Len(messages)
  BY <1>2 DEF CutsOf, IsCut, CutsInto, MessageAt
<1>3. CASE i = Len(messages) + 1
  BY <1>3 DEF CutsOf, IsCut, WaitsAt
<1> QED
  BY <1>1, <1>2, <1>3

LEMMA CutsAgree ==
  ASSUME NEW s \in Seq(Byte), NEW m1 \in Messages, NEW m2 \in Messages,
         NEW c1 \in CutsOf(s, m1), NEW c2 \in CutsOf(s, m2)
  PROVE  \A i \in (1..(Len(m1) + 1)) \cap (1..(Len(m2) + 1)) : c1[i] = c2[i]
<1> DEFINE Both == (1..(Len(m1) + 1)) \cap (1..(Len(m2) + 1))
           T == {j \in Both : c1[j] # c2[j]}
<1>1. Len(m1) \in Nat /\ Len(m2) \in Nat
  BY LenProperties DEF Messages
<1>2. SUFFICES ASSUME T # {} PROVE FALSE
  OBVIOUS
<1>3. T \subseteq Nat
  BY <1>1
<1>4. PICK j \in T : \A k \in T : j <= k
  BY <1>2, <1>3, LeastNumber
<1>5. /\ j \in 1..(Len(m1) + 1) /\ j \in 1..(Len(m2) + 1) /\ c1[j] # c2[j]
      /\ c1[j] \in Nat /\ c2[j] \in Nat
  BY <1>4 DEF CutsOf
<1>6. From(s, c1, j) = From(s, c2, j)
  <2>1. CASE j = 1
    BY <2>1 DEF From
  <2>2. CASE j # 1
    <3>1. j - 1 \in Both /\ ~(j <= j - 1)
      BY <1>1, <1>5, <2>2
    <3>2. j - 1 \notin T
      BY <1>4, <3>1
    <3>3. c1[j - 1] = c2[j - 1]
      BY <3>1, <3>2
    <3> QED
      BY <2>2, <3>3 DEF From
  <2> QED
    BY <2>1, <2>2
<1>7. Skipped(s, From(s, c1, j), c1[j]) /\ Skipped(s, From(s, c2, j), c2[j])
  BY <1>5 DEF CutsOf, IsCut, CutsInto
<1>8. From(s, c1, j) <= c1[j] /\ From(s, c1, j) <= c2[j]
  BY <1>6, <1>7 DEF Skipped
<1>9. ASSUME c1[j] < c2[j] PROVE FALSE
  <2>1. c1[j] \in From(s, c2, j)..(c2[j] - 1)
    BY <1>5, <1>6, <1>8, <1>9
  <2>2. HeaderAt(s, c1[j]) /\ ~GoodAt(s, c1[j])
    BY <1>7, <2>1 DEF Skipped
  <2> QED
    BY <1>5, <2>2, CutIsNotSkipped
<1>10. ASSUME c2[j] < c1[j] PROVE FALSE
  <2>1. c2[j] \in From(s, c1, j)..(c1[j] - 1)
    BY <1>5, <1>6, <1>8, <1>10
  <2>2. HeaderAt(s, c2[j]) /\ ~GoodAt(s, c2[j])
    BY <1>7, <2>1 DEF Skipped
  <2> QED
    BY <1>5, <2>2, CutIsNotSkipped
<1> QED
  BY <1>5, <1>9, <1>10

\* The other cut has no message where this one waits.
LEMMA CutsAreAsLong ==
  ASSUME NEW s \in Seq(Byte), NEW m1 \in Messages, NEW m2 \in Messages,
         NEW c1 \in CutsOf(s, m1), NEW c2 \in CutsOf(s, m2)
  PROVE  Len(m2) <= Len(m1)
<1>1. Len(m1) \in Nat /\ Len(m2) \in Nat
  BY LenProperties DEF Messages
<1> SUFFICES ASSUME ~(Len(m2) <= Len(m1)) PROVE FALSE
  OBVIOUS
<1> DEFINE j == Len(m1) + 1
<1>2. j \in 1..(Len(m1) + 1) /\ j \in 1..Len(m2) /\ j \in 1..(Len(m2) + 1)
  BY <1>1
<1>3. c1[j] = c2[j]
  <2>1. \A i \in (1..(Len(m1) + 1)) \cap (1..(Len(m2) + 1)) : c1[i] = c2[i]
    BY CutsAgree
  <2> QED
    BY <1>2, <2>1
<1>4. MessageAt(s, c2[j], m2[j])
  BY <1>2 DEF CutsOf, IsCut, CutsInto
<1>5. WaitsAt(s, c1[j])
  BY DEF CutsOf, IsCut
<1>6. c1[j] \in Nat
  BY <1>2 DEF CutsOf
<1>7. HeaderAt(s, c1[j]) /\ EndAt(s, c1[j]) <= Len(s)
  BY <1>3, <1>4 DEF MessageAt
<1>8. EndAt(s, c1[j]) > Len(s)
  BY <1>5, <1>7 DEF WaitsAt
<1>9. EndAt(s, c1[j]) \in Nat /\ Len(s) \in Nat
  BY <1>6, <1>7, HeaderWords, LenProperties
<1> QED
  BY <1>7, <1>8, <1>9

LEMMA OneCut ==
  ASSUME NEW s \in Seq(Byte), NEW m1 \in Messages, NEW m2 \in Messages,
         NEW c1 \in CutsOf(s, m1), NEW c2 \in CutsOf(s, m2)
  PROVE  m1 = m2
<1>1. \A i \in (1..(Len(m1) + 1)) \cap (1..(Len(m2) + 1)) : c1[i] = c2[i]
  BY CutsAgree
<1>2. Len(m1) <= Len(m2)
  BY CutsAreAsLong
<1>3. Len(m2) <= Len(m1)
  BY CutsAreAsLong
<1>4. Len(m1) = Len(m2) /\ Len(m1) \in Nat
  BY <1>2, <1>3, LenProperties DEF Messages
<1>5. ASSUME NEW i \in 1..Len(m1) PROVE m1[i] = m2[i]
  <2>1. c1[i] = c2[i]
    BY <1>1, <1>4
  <2>2. MessageAt(s, c1[i], m1[i]) /\ MessageAt(s, c2[i], m2[i])
    BY <1>4 DEF CutsOf, IsCut, CutsInto
  <2> QED
    BY <2>1, <2>2 DEF MessageAt
<1> QED
  BY <1>4, <1>5, SeqEqual DEF Messages

\* A stream determines its messages, so what ChunksDoNotMatter says of those
\* dispatched leaves the parser no choice.
THEOREM OneReading ==
  ASSUME NEW s \in Seq(Byte), NEW m1 \in Seq(Seq(Byte)), NEW m2 \in Seq(Seq(Byte)),
         NEW c1 \in [1..(Len(m1) + 1) -> 0..Len(s)], IsCut(s, c1, m1),
         NEW c2 \in [1..(Len(m2) + 1) -> 0..Len(s)], IsCut(s, c2, m2)
  PROVE  m1 = m2
<1>1. m1 \in Messages /\ m2 \in Messages
  BY DEF Messages
<1>2. c1 \in CutsOf(s, m1)
  BY DEF CutsOf
<1>3. c2 \in CutsOf(s, m2)
  BY DEF CutsOf
<1> QED
  BY <1>1, <1>2, <1>3, OneCut
=============================================================================
