------------------------ MODULE StreamBuffer_proofs ------------------------
(***************************************************************************)
(* The buffer of StreamBuffer keeps its types and its bounds for every     *)
(* maximal size and every output of the child.  What is inductive is       *)
(* stronger than InBounds: after a read that filled the buffer, readBytes  *)
(* is at most what realloc added, so that counting it twice stays inside.  *)
(***************************************************************************)
EXTENDS StreamBuffer, TLAPS

\* The bytes that would be counted a second time fit.
SecondCountFits == pc = "data_ready" => i + readBytes <= size /\ i < size

Bounded == TypeOK /\ InBounds /\ SecondCountFits

\* The bytes taken from the pipe are a part of it, and the rest is text.
LEMMA SplitPipe ==
    ASSUME NEW s \in Seq(Text), NEW n \in 0 .. Len(s)
    PROVE  /\ SubSeq(s, 1, n) \in Seq(Byte)
           /\ Len(SubSeq(s, 1, n)) = n
           /\ SubSeq(s, n + 1, Len(s)) \in Seq(Text)
BY DEF Byte

\* A prefix and a rest of the buffer are sequences of bytes.
LEMMA SplitStream ==
    ASSUME NEW s \in Seq(Byte), NEW j \in 0 .. Len(s)
    PROVE  /\ SubSeq(s, 1, j) \in Seq(Byte)
           /\ SubSeq(s, j + 1, Len(s)) \in Seq(Byte)
           /\ Len(SubSeq(s, j + 1, Len(s))) <= Len(s)
OBVIOUS

\* Garbage is a sequence of bytes of the length it was counted with.
LEMMA GarbageBytes ==
    ASSUME NEW n \in Nat, NEW g \in [1 .. n -> Garbage]
    PROVE  g \in Seq(Byte) /\ Len(g) = n
BY DEF Byte

\* What is read fits the buffer: Available is a number of bytes of the pipe.
LEMMA AvailableFits ==
    ASSUME TypeOK, InBounds
    PROVE  /\ left \in Nat
           /\ Available \in 0 .. Len(pipe)
           /\ Available <= left
           /\ i + left = size
           /\ i \in Nat
<1>1. i \in Nat /\ size \in Nat /\ Len(pipe) \in Nat /\ i <= size
  BY BufferAssumption DEF TypeOK, InBounds, i
<1> QED
  BY <1>1 DEF left, Available

\* The initial buffer has one byte.
LEMMA InitBounded == Init => Bounded
<1> SUFFICES ASSUME Init
             PROVE  Bounded
  OBVIOUS
<1>1. /\ <<>> \in Seq(Text)
      /\ <<>> \in Seq(Byte)
      /\ Len(<<>>) = 0
      /\ 1 \in 1 .. MaxSize
  BY BufferAssumption
<1>2. TypeOK
  BY <1>1 DEF Init, TypeOK
<1>3. i = 0 /\ size = 1 /\ pc = "poll"
  BY <1>1 DEF Init, i
<1> QED
  BY <1>2, <1>3 DEF Bounded, InBounds, SecondCountFits

\* The steps that leave the buffer alone.
LEMMA QuietSteps ==
    ASSUME Bounded,
           \/ \E b \in Text : Write(b)
           \/ Close
           \/ Consume
           \/ HangUp
           \/ Ready
           \/ NotPolled
           \/ UNCHANGED vars
    PROVE  Bounded'
<1> USE DEF Bounded, TypeOK, InBounds, SecondCountFits, i, operator
<1>1. CASE \E b \in Text : Write(b)
  BY <1>1 DEF Write
<1>2. CASE Close
  BY <1>2 DEF Close
<1>3. CASE Consume
  BY <1>3 DEF Consume
<1>4. CASE HangUp
  BY <1>4 DEF HangUp
<1>5. CASE Ready
  BY <1>5 DEF Ready
<1>6. CASE NotPolled
  BY <1>6 DEF NotPolled
<1>7. CASE UNCHANGED vars
  BY <1>7 DEF vars
<1> QED
  BY <1>1, <1>2, <1>3, <1>4, <1>5, <1>6, <1>7

\* A read, with and without growth.
LEMMA ReadBounded ==
    ASSUME Bounded, Read
    PROVE  Bounded'
<1> DEFINE taken == SubSeq(pipe, 1, Available)
<1>1. /\ left \in Nat
      /\ Available \in 0 .. Len(pipe)
      /\ Available <= left
      /\ i + left = size
      /\ i \in Nat
  BY AvailableFits DEF Bounded
<1>2. taken \in Seq(Byte) /\ Len(taken) = Available /\ pipe' \in Seq(Text)
  <2>1. pipe \in Seq(Text)
    BY DEF Bounded, TypeOK
  <2> QED
    BY <1>1, <2>1, SplitPipe DEF Read
<1>3. stream' = stream \o taken /\ stream \in Seq(Byte)
  BY DEF Read, Bounded, TypeOK
<1>4. stream' \in Seq(Byte) /\ i' = i + Available
  BY <1>2, <1>3 DEF i
<1>5. size \in 1 .. MaxSize /\ i < size /\ MaxSize \in Nat
  BY BufferAssumption DEF Bounded, TypeOK, InBounds, Read
<1>6. size' \in 1 .. MaxSize /\ readBytes' = Available /\ readBytes' \in Nat
  BY <1>1, <1>5 DEF Read, grow
<1>7. TypeOK'
  BY <1>2, <1>4, <1>6 DEF Read, Bounded, TypeOK
<1>8. CASE pc' = "data_ready"
  <2>1. size' = 2 * size /\ Available = left
    BY <1>8 DEF Read
  <2>2. i' = size
    BY <1>1, <1>4, <2>1
  <2>3. InBounds' /\ SecondCountFits'
    BY <1>1, <1>5, <1>6, <1>8, <2>1, <2>2 DEF InBounds, SecondCountFits
  <2> QED
    BY <1>7, <2>3 DEF Bounded
<1>9. CASE pc' = "send"
  <2>1. size' = size
    BY <1>9 DEF Read
  <2>2. InBounds' /\ SecondCountFits'
    BY <1>1, <1>4, <1>5, <1>9, <2>1 DEF InBounds, SecondCountFits
  <2> QED
    BY <1>7, <2>2 DEF Bounded
<1> QED
  BY <1>8, <1>9 DEF Read

\* The length of a buffer to which bytes are added.
LEMMA Concatenated ==
    ASSUME NEW s \in Seq(Byte), NEW t \in Seq(Byte)
    PROVE  s \o t \in Seq(Byte) /\ Len(s \o t) = Len(s) + Len(t)
OBVIOUS

\* readBytes is added a second time.
LEMMA NotReadyBounded ==
    ASSUME Bounded, NotReady
    PROVE  Bounded'
<1>1. PICK g \in [1 .. readBytes -> Garbage] : stream' = stream \o g
  BY DEF NotReady
<1>2. readBytes \in Nat /\ stream \in Seq(Byte)
  BY DEF Bounded, TypeOK
<1>3. g \in Seq(Byte) /\ Len(g) = readBytes
  BY <1>2, GarbageBytes
<1>4. stream' \in Seq(Byte) /\ i' = i + readBytes
  <2>1. /\ stream \o g \in Seq(Byte)
        /\ Len(stream \o g) = Len(stream) + readBytes
    BY <1>2, <1>3, Concatenated
  <2> QED
    BY <1>1, <2>1 DEF i
<1>5. i' <= size
  BY <1>4 DEF Bounded, SecondCountFits, NotReady
<1>6. TypeOK'
  BY <1>4 DEF NotReady, Bounded, TypeOK
<1> QED
  BY <1>5, <1>6 DEF NotReady, Bounded, InBounds, SecondCountFits

\* What is sent leaves the buffer, which does not shrink.
LEMMA SendBounded ==
    ASSUME Bounded, Deliver \/ Flush
    PROVE  Bounded'
<1>1. /\ stream \in Seq(Byte)
      /\ delivered \in Seq(Byte)
      /\ i \in Nat
      /\ i <= size
      /\ size \in 1 .. MaxSize
      /\ MaxSize \in Nat
  BY BufferAssumption DEF Bounded, TypeOK, InBounds, i
<1>2. CASE Deliver
  <2>1. PICK j \in 0 .. i : /\ delivered' = delivered \o SubSeq(stream, 1, j)
                            /\ stream' = SubSeq(stream, j + 1, i)
    BY <1>2 DEF Deliver
  <2>2. /\ SubSeq(stream, 1, j) \in Seq(Byte)
        /\ stream' \in Seq(Byte)
        /\ Len(stream') <= Len(stream)
    BY <1>1, <2>1, SplitStream DEF i
  <2>3. delivered' \in Seq(Byte)
    BY <1>1, <2>1, <2>2
  <2>4. TypeOK'
    BY <1>2, <2>2, <2>3 DEF Deliver, Bounded, TypeOK
  <2>5. i' \in Nat /\ i' <= i
    BY <2>2 DEF i
  <2> QED
    BY <1>1, <1>2, <2>4, <2>5
    DEF Deliver, Bounded, InBounds, SecondCountFits
<1>3. CASE Flush
  <2>1. SubSeq(stream, 1, i - 1) \in Seq(Byte)
    BY <1>1 DEF i
  <2>2. delivered' \in Seq(Byte) /\ stream' = <<>>
    BY <1>1, <1>3, <2>1 DEF Flush
  <2>3. TypeOK'
    BY <1>3, <2>2 DEF Flush, Bounded, TypeOK
  <2>4. i' = 0
    BY <2>2 DEF i
  <2> QED
    BY <1>1, <1>3, <2>3, <2>4
    DEF Flush, Bounded, InBounds, SecondCountFits
<1> QED
  BY <1>2, <1>3

\* The inductive invariant of the buffer, for any interleaving of the child's
\* writes with the loop of consume_stream and flush_stream.
THEOREM BoundedInvariant == Spec => []Bounded
<1>1. Init => Bounded
  BY InitBounded
<1>2. Bounded /\ [Next]_vars => Bounded'
  BY QuietSteps, ReadBounded, NotReadyBounded, SendBounded
  DEF Next, OsSpawn
<1> QED
  BY <1>1, <1>2, PTL DEF Spec

\* The state keeps its types, and the buffer its maximal size.
THEOREM BufferTypeCorrect == Spec => []TypeOK
<1>1. Bounded => TypeOK
  BY DEF Bounded
<1> QED
  BY <1>1, BoundedInvariant, PTL

\* read never gets a place or a length outside the buffer, whatever the child
\* writes and when: the index that is advanced twice stays inside.
THEOREM BufferInBounds == Spec => []InBounds
<1>1. Bounded => InBounds
  BY DEF Bounded
<1> QED
  BY <1>1, BoundedInvariant, PTL
=============================================================================
