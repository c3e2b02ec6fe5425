---------------------------- MODULE StreamBuffer ----------------------------
(***************************************************************************)
(* What cloudi_os_spawn does with the bytes a child prints                 *)
(* (port.cpp: consume_stream and flush_stream, realloc_ptr.hpp): they are  *)
(* read from a pipe into a buffer that doubles when it is full, complete   *)
(* lines are sent to Erlang and the rest waits for its newline.  The child *)
(* writes while the loop reads.                                            *)
(*                                                                         *)
(* The buffer is the sequence of the bytes below the index i.  Memory that *)
(* realloc has added and read has not filled holds any value: Garbage.     *)
(* Assertions are on, as in the build: a failed one ends os_spawn.         *)
(***************************************************************************)
EXTENDS Naturals, Sequences

CONSTANTS
    MaxSize,    \* the second argument of realloc_ptr, 16384 in the code
    MaxWritten  \* bound: bytes a child writes

ASSUME BufferAssumption ==
    /\ MaxSize \in Nat \ {0}
    /\ MaxWritten \in Nat

VARIABLES
    pipe,       \* bytes written and not read
    hup,        \* the child has closed the pipe
    pc,         \* where consume_stream or flush_stream is
    flushing,   \* it is flush_stream
    stream,     \* the bytes of the buffer below i
    size,       \* m_size
    readBytes,  \* what the last read returned
    unpolled,   \* the poll of data_ready failed before the read
    delivered,  \* bytes sent to Erlang
    written     \* history: bytes written

vars == <<pipe, hup, pc, flushing, stream, size, readBytes, unpolled,
          delivered, written>>

Text == {"x", "n"}
Garbage == {"?", "?n"}
Newline == {"n", "?n"}
Byte == Text \cup Garbage

i == Len(stream)
left == size - i

\* realloc_ptr<unsigned char> stream(1, MaxSize)
Init ==
    /\ pipe = <<>>
    /\ hup = FALSE
    /\ pc = "poll"
    /\ flushing = FALSE
    /\ stream = <<>>
    /\ size = 1
    /\ readBytes = 0
    /\ unpolled = FALSE
    /\ delivered = <<>>
    /\ written = <<>>

-----------------------------------------------------------------------------
(* The child (external)                                                    *)

Write(b) ==
    /\ ~hup
    /\ Len(written) < MaxWritten
    /\ pipe' = Append(pipe, b)
    /\ written' = Append(written, b)
    /\ UNCHANGED <<hup, pc, flushing, stream, size, readBytes, unpolled,
                   delivered>>

Close ==
    /\ ~hup
    /\ hup' = TRUE
    /\ UNCHANGED <<pipe, pc, flushing, stream, size, readBytes, unpolled,
                   delivered, written>>

-----------------------------------------------------------------------------
(* os_spawn                                                                *)

\* operator []: &stream[i] asserts that i is an index of the buffer.
operator(next) == IF i < size THEN next ELSE "dead"

\* poll reports POLLIN: consume_stream.
Consume ==
    /\ pc = "poll"
    /\ ~hup
    /\ pipe # <<>>
    /\ pc' = operator("read")
    /\ UNCHANGED <<pipe, hup, flushing, stream, size, readBytes, unpolled,
                   delivered, written>>

\* poll reports POLLHUP: flush_stream, which reads only with POLLIN.
HangUp ==
    /\ pc = "poll"
    /\ hup
    /\ pc' = IF pipe = <<>> THEN "closed" ELSE operator("read")
    /\ flushing' = TRUE
    /\ UNCHANGED <<pipe, hup, stream, size, readBytes, unpolled, delivered,
                   written>>

\* Mutant: the maximum is passed.
grow_more == size <= MaxSize

grow == 2 * size <= MaxSize

Available == IF left <= Len(pipe) THEN left ELSE Len(pipe)

\* Mutant: the loop goes on as if the buffer had grown.
ReadNoGrow ==
    /\ pc = "read"
    /\ stream' = stream \o SubSeq(pipe, 1, Available)
    /\ pipe' = SubSeq(pipe, Available + 1, Len(pipe))
    /\ readBytes' = Available
    /\ pc' = IF Available = left /\ grow THEN "data_ready" ELSE "send"
    /\ unpolled' = FALSE
    /\ UNCHANGED <<hup, flushing, size, delivered, written>>

\* One read of the loop, which waits while the pipe is empty and open.  A
\* read that fills the buffer makes it grow.
Read ==
    /\ pc = "read"
    /\ pipe # <<>> \/ hup
    /\ stream' = stream \o SubSeq(pipe, 1, Available)
    /\ pipe' = SubSeq(pipe, Available + 1, Len(pipe))
    /\ readBytes' = Available
    /\ \/ /\ Available = left
          /\ grow
          /\ size' = 2 * size
          /\ pc' = "data_ready"
       \/ /\ ~(Available = left /\ grow)
          /\ pc' = "send"
          /\ UNCHANGED size
    /\ unpolled' = FALSE
    /\ UNCHANGED <<hup, flushing, delivered, written>>

\* Mutant: the loop reads on without data_ready.
Ready_unchecked ==
    /\ pc = "data_ready"
    /\ pc' = "read"
    /\ UNCHANGED <<pipe, hup, flushing, stream, size, readBytes, unpolled,
                   delivered, written>>

\* There is more to read, or the end of the pipe.
Ready ==
    /\ pc = "data_ready"
    /\ pipe # <<>> \/ hup
    /\ pc' = "read"
    /\ UNCHANGED <<pipe, hup, flushing, stream, size, readBytes, unpolled,
                   delivered, written>>

\* The poll fails: nobody looks at what data_ready returns, and ready is still
\* true, so the loop reads on, and waits if there is nothing to read.
NotPolled ==
    /\ pc = "data_ready"
    /\ pc' = "read"
    /\ unpolled' = TRUE
    /\ UNCHANGED <<pipe, hup, flushing, stream, size, readBytes, delivered,
                   written>>

\* The loop is left after i was advanced, and readBytes is added once more:
\* as many bytes that nobody wrote are counted.
NotReady ==
    /\ pc = "data_ready"
    /\ pipe = <<>>
    /\ ~hup
    /\ \E g \in [1 .. readBytes -> Garbage] : stream' = stream \o g
    /\ pc' = "send"
    /\ UNCHANGED <<pipe, hup, flushing, size, readBytes, unpolled, delivered,
                   written>>

\* Mutant: what is kept starts one byte late.
Deliver_late ==
    /\ pc = "send"
    /\ ~flushing
    /\ \E j \in 0 .. i :
          /\ j > 0 => stream[j] \in Newline
          /\ \A k \in j + 1 .. i : stream[k] \notin Newline
          /\ delivered' = delivered \o SubSeq(stream, 1, j)
          /\ stream' = IF j = 0 THEN stream ELSE SubSeq(stream, j + 2, i)
    /\ pc' = "poll"
    /\ UNCHANGED <<pipe, hup, flushing, size, readBytes, unpolled, written>>

\* consume_stream sends what ends with the last newline and keeps the rest.
Deliver ==
    /\ pc = "send"
    /\ ~flushing
    /\ \E j \in 0 .. i :
          /\ j > 0 => stream[j] \in Newline
          /\ \A k \in j + 1 .. i : stream[k] \notin Newline
          /\ delivered' = delivered \o SubSeq(stream, 1, j)
          /\ stream' = SubSeq(stream, j + 1, i)
    /\ pc' = "poll"
    /\ UNCHANGED <<pipe, hup, flushing, size, readBytes, unpolled, written>>

\* flush_stream sends all but the last byte.
Flush ==
    /\ pc = "send"
    /\ flushing
    /\ delivered' = delivered \o SubSeq(stream, 1, i - 1)
    /\ stream' = <<>>
    /\ pc' = "closed"
    /\ UNCHANGED <<pipe, hup, flushing, size, readBytes, unpolled, written>>

OsSpawn ==
    \/ Consume
    \/ HangUp
    \/ Read
    \/ Ready
    \/ NotPolled
    \/ NotReady
    \/ Deliver
    \/ Flush

Next ==
    \/ \E b \in Text : Write(b)
    \/ Close
    \/ OsSpawn

Spec == Init /\ [][Next]_vars

\* os_spawn goes on; the child need not.
FairSpec == Spec /\ WF_vars(OsSpawn)

-----------------------------------------------------------------------------
(* Properties                                                              *)

\* The state has its types, and the buffer never grows past its maximum.
TypeOK ==
    /\ pipe \in Seq(Text)
    /\ hup \in BOOLEAN
    /\ pc \in {"poll", "read", "data_ready", "send", "dead", "closed"}
    /\ flushing \in BOOLEAN
    /\ stream \in Seq(Byte)
    /\ size \in 1 .. MaxSize
    /\ readBytes \in Nat
    /\ unpolled \in BOOLEAN
    /\ delivered \in Seq(Byte)
    /\ written \in Seq(Text)

\* read is called with a place inside the buffer and a length that fits, and
\* i, although it is advanced twice, never passes the end.
InBounds ==
    /\ i <= size
    /\ pc = "read" => i < size

\* The bytes that the child wrote.
Real(s) == SelectSeq(s, LAMBDA b : b \in Text)

\* Every byte of the child is in the pipe, in the buffer or sent, once and in
\* order, as long as the pipe is open and across any growth of the buffer.
NothingReordered ==
    pc \notin {"closed"} => Real(delivered) \o Real(stream) \o pipe = written

\* When a child has ended, the bytes of all its complete lines were sent, but
\* for the newline of the last one, unless more is left in the pipe than fits.
FlushKeepsLines ==
    pc = "closed" /\ pipe = <<>> =>
        \A k \in 1 .. Len(written) :
            written[k] = "n" => Len(Real(delivered)) >= k - 1

\* What a child writes reaches Erlang once and in order, up to its end.  Of
\* bytes that it did not write this says nothing: what NotReady counts twice
\* is sent between them, so a line may hold others or be split (IndexExact).
BytesInOrder == NothingReordered /\ FlushKeepsLines

\* A newline that is written is sent while the child lives, with all before
\* it: no complete line waits for more output, unless os_spawn itself is held
\* up by a read that it began after the poll of data_ready had failed.
LineDelivered ==
    \A k \in 1 .. MaxWritten :
        (Len(written) >= k /\ written[k] = "n") ~>
            \/ Len(Real(delivered)) >= k
            \/ pc \in {"dead", "closed"}
            \/ [](pc = "read" /\ unpolled)

\* The comment "i is the next index to read at, always": what is counted in
\* the buffer was read from the pipe.
IndexExact == \A k \in 1 .. i : stream[k] \in Text
=============================================================================
