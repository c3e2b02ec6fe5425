---------------------------- MODULE OsSpawn_proofs ----------------------------
(***************************************************************************)
(* Proofs about OsSpawn, for any number of children, any configuration and *)
(* any table of descriptors.  One inductive invariant, IInv, carries all   *)
(* of them: the vector and the poll array have to be followed together     *)
(* with who holds which end of which pipe, because a hang-up is what makes *)
(* os_spawn erase a process and shift the entries of the others.           *)
(***************************************************************************)
EXTENDS OsSpawn, TLAPS, FiniteSetTheorems, FunctionTheorems,
        WellFoundedInduction

-----------------------------------------------------------------------------
(* The inductive invariant                                                 *)

\* The states of a child that was forked and not yet waited for.
Alive == {"connect", "limited", "exec", "running", "exiting", "zombie"}

\* What a descriptor may refer to.
Kinds == {"free", "stdin", "port_read", "port_write", "read", "write",
          "socket"}
FileSet == [kind : Kinds, owner : Children \cup {Self}, n : Nat]
FileTables == [Table -> FileSet]

\* A record of a child, whatever its limits are.
IsProcess(p) ==
    /\ DOMAIN p = {"state", "stray", "connected", "status", "uid", "gid",
                   "limits", "files"}
    /\ p.stray \in BOOLEAN
    /\ p.connected \in Nat
    /\ p.files \in FileTables

\* An entry of the poll array.
PollEntry == [fd : Table, revents : SUBSET {"IN", "HUP"}]

\* The shape of the state: the poll array, the descriptors, the children.
Shape ==
    /\ pc \in {"init", "poll", "erlang", "own", "check", "return", "exit"}
    /\ fds \in [1 .. MaxPollFds -> PollEntry]
    /\ files \in FileTables
    /\ lines \in [Children \cup {Self} -> [Streams -> Nat]]
    /\ left \in [Children -> [Streams -> Nat]]
    /\ DOMAIN reported = Children
    /\ DOMAIN cause = Children
    /\ hungup \subseteq Children
    /\ closers \subseteq Children
    /\ DOMAIN child = Children
    /\ \A c \in Children :
          /\ child[c].state \in Alive \cup {"none", "failed", "reaped"}
          /\ IsProcess(child[c])
          /\ child[c].stray => child[c].state \in Alive

ProcessData == [pid : Children, index_stdout : Nat, index_stderr : Nat]

\* The vector holds each child that is alive once, but no stray, and its
\* entries of the poll array follow the three of os_spawn in its order.
Vector ==
    /\ processes \in Seq(ProcessData)
    /\ \A k \in 1 .. Len(processes) :
          /\ child[processes[k].pid].state \in Alive
          /\ ~child[processes[k].pid].stray
          /\ processes[k].index_stdout = 2 + 2 * k
          /\ processes[k].index_stderr = 3 + 2 * k
    /\ \A j, k \in 1 .. Len(processes) :
          processes[j].pid = processes[k].pid => j = k
    /\ \A c \in Children :
          child[c].state \in Alive /\ ~child[c].stray =>
              \E k \in 1 .. Len(processes) : processes[k].pid = c
    /\ pc = "init" => nfds = 0 /\ processes = <<>>
    /\ pc \in {"poll", "erlang", "own", "check"} =>
          nfds = 3 + 2 * Len(processes)
    /\ pc \in {"return", "exit"} =>
          nfds \in {2 * Len(processes), 3 + 2 * Len(processes)}

\* The counters of the main loop.
Counters ==
    /\ itr \in 1 .. Cardinality(Children) + 1
    /\ pc = "check" => itr <= Len(processes) + 1
    /\ requests \in Nat
    /\ requests <= Cardinality({c \in Children : child[c].state = "none"})
    /\ pc = "erlang" /\ "IN" \in fds[INDEX_ERLANG].revents => requests > 0

\* The entries at the places P of the poll array that poll found ready.
Ready(P) == {i \in P : fds[i].revents # {}}

\* count is the number of ready entries that the loop has not come to.
Counted ==
    /\ count \in 0 .. MaxPollFds
    /\ pc = "erlang" => count = Cardinality(Ready(1 .. nfds))
    /\ pc = "own" => count = Cardinality(Ready({1, 2} \cup 4 .. nfds))
    /\ pc = "check" => count = Cardinality(Ready(2 + 2 * itr .. nfds))

\* The descriptors of os_spawn: the entries of a process refer to the read
\* ends of its pipes; a read end is polled unless it is abandoned; os_spawn
\* keeps no other write end but its own streams.
Descriptors ==
    /\ pc \in {"poll", "erlang", "own", "check"} =>
          /\ fds[INDEX_ERLANG].fd = PORT_READ_FILE_DESCRIPTOR
          /\ \A k \in 1 .. Len(processes) :
                /\ files[fds[2 + 2 * k].fd] = ReadEnd(processes[k].pid, stdout)
                /\ files[fds[3 + 2 * k].fd] = ReadEnd(processes[k].pid, stderr)
          /\ \A k \in Table :
                files[k].kind = "read" =>
                    \/ /\ files[k].owner \in Children
                       /\ Abandoned(files[k].owner)
                    \/ k \in {fds[i].fd : i \in 1 .. nfds}
    /\ pc = "init" => /\ \A k \in Table : files[k].kind \notin {"read", "write"}
                      /\ \A n \in Streams : files[n] # Free
    /\ files[PORT_READ_FILE_DESCRIPTOR] = PortRead
    /\ \A k \in Table : files[k] = PortRead => k = PORT_READ_FILE_DESCRIPTOR
    /\ \A k \in Table : \A n \in Streams :
          files[k] = WriteEnd(Self, n) => k = n
    /\ \A d \in Children : \A n \in Streams :
          ~Abandoned(d) => ~Holds(files, WriteEnd(d, n))
    /\ \A d \in Children : \A n \in Streams :
          child[d].state = "none" => ~Holds(files, ReadEnd(d, n))

\* A child holds the write ends of its own pipes until it hangs up, and no
\* end of any other pipe, but those that are abandoned.
Ends ==
    /\ \A c \in Children : \A n \in Streams :
          child[c].state \in Alive /\ c \notin hungup =>
              child[c].files[n] = WriteEnd(c, n)
    /\ \A c \in Children :
          child[c].state \notin Alive => \A k \in Table : child[c].files[k] = Free
    /\ \A c \in hungup :
          \E n \in Streams : ~Holds(child[c].files, WriteEnd(c, n))
    /\ NothingInherited

\* A child hangs up once; one that did not close its pipes itself has ended,
\* and prints nothing more.
HangUps ==
    /\ \A c \in hungup : child[c].state \in Alive \cup {"reaped"}
    /\ closers \subseteq hungup
    /\ \A c \in Children : child[c].state \in {"exiting", "zombie"} => c \in hungup
    /\ \A c \in hungup \ closers :
          child[c].state \in {"exiting", "zombie", "reaped"}
    /\ \A c \in hungup \ closers : \A n \in Streams :
          lines[c][n] <= left[c][n]
    /\ KilledForAReason

\* What poll found is still true when the loop comes to the process: a hang-up
\* is the child's own, and what it had printed is there to be read.
Seen ==
    pc \in {"erlang", "own", "check"} =>
    \A k \in 1 .. Len(processes) :
        LET c == processes[k].pid
            revents(n) == fds[2 * k + 1 + n].revents
        IN  /\ (\E n \in Streams : "HUP" \in revents(n)) => c \in hungup
            /\ (pc = "check" => k >= itr) /\ c \notin closers
               /\ (\E n \in Streams : "HUP" \in revents(n)) =>
                   \A n \in Streams : lines[c][n] > 0 => "IN" \in revents(n)

\* The status of a start that failed names the step, until it is printed.
Causes ==
    \A c \in Children :
        cause[c] # "none" =>
            \/ /\ child[c].state \in {"exiting", "zombie"}
               /\ child[c].status \in 1 .. 255
               /\ string(child[c].status) = cause[c]
            \/ /\ child[c].state = "reaped"
               /\ pc = "exit" \/ reported[c] = cause[c]

\* What the sockets and the owner of a child are after each step.
Configured ==
    \A c \in Children :
        /\ child[c].state \in {"limited", "exec", "running"} =>
              child[c].connected = Ports
        /\ child[c].connected \in 0 .. Ports
        /\ child[c].state = "none" => child[c].connected = 0
        /\ child[c].state \in {"connect", "limited", "exec", "running"} =>
              \A i \in 0 .. child[c].connected - 1 :
                  child[c].files[i + 3] = Socket(c, i)
        /\ child[c].state \in {"none", "connect", "limited"} =>
              child[c].uid = 0 /\ child[c].gid = 0
        /\ child[c].state \in {"exec", "running"} =>
              /\ child[c].uid = owner_get(c).uid
              /\ child[c].gid = owner_get(c).gid

\* The status with which os_spawn ends is one of the call it failed at.
Result ==
    /\ pc \in {"return", "exit"} => exit_status_to_list(result) = Told(ended)
    /\ NobodyLeft

IInv ==
    /\ Shape /\ Vector /\ Counters /\ Counted /\ Descriptors /\ Ends
    /\ HangUps /\ Seen /\ Causes /\ Configured /\ Result /\ OutputDelivered

-----------------------------------------------------------------------------
(* Tables of descriptors                                                   *)

(* The assumptions on the constants, as the provers need them.             *)
LEMMA Constants ==
    /\ Cardinality(Children) \in Nat
    /\ MaxPollFds \in Nat /\ MaxPollFds >= 3
    /\ MaxFd \in Nat /\ MaxFd >= 4 /\ Ports \in Nat /\ Ports + 2 <= MaxFd
    /\ Table \subseteq Nat /\ 0 .. 4 \subseteq Table
    /\ \A i \in 0 .. Ports - 1 : i + 3 \in Table
<1>1. Cardinality(Children) \in Nat
  BY SpawnAssumption, FS_CardinalityType
<1> QED  BY <1>1, SpawnAssumption DEF MaxPollFds, Table

(* What a file is, and when two files are the same.                        *)
LEMMA Files ==
    /\ \A kind \in Kinds, x \in Children \cup {Self}, n \in Nat :
          File(kind, x, n) \in FileSet
    /\ \A kind, x, n :
          /\ File(kind, x, n).kind = kind
          /\ File(kind, x, n).owner = x
          /\ File(kind, x, n).n = n
    /\ Free \in FileSet /\ Free.kind = "free"
    /\ \A x \in Children \cup {Self}, n \in Nat :
          /\ ReadEnd(x, n) \in FileSet /\ WriteEnd(x, n) \in FileSet
          /\ Socket(x, n) \in FileSet
<1>1. \A kind \in Kinds, x \in Children \cup {Self}, n \in Nat :
          File(kind, x, n) \in FileSet
  BY DEF FileSet, File
<1>2. \A kind, x, n :
          /\ File(kind, x, n).kind = kind
          /\ File(kind, x, n).owner = x
          /\ File(kind, x, n).n = n
  BY DEF File
<1> QED
  BY <1>1, <1>2 DEF Free, ReadEnd, WriteEnd, Socket, Kinds

(* The kind, the owner and the number of an end and of a socket.           *)
LEMMA FileParts ==
    \A x, n :
        /\ ReadEnd(x, n).kind = "read" /\ ReadEnd(x, n).owner = x
        /\ ReadEnd(x, n).n = n
        /\ WriteEnd(x, n).kind = "write" /\ WriteEnd(x, n).owner = x
        /\ WriteEnd(x, n).n = n
        /\ Socket(x, n).kind = "socket" /\ Socket(x, n).owner = x
        /\ Socket(x, n).n = n
        /\ PortRead.kind = "port_read" /\ Free.kind = "free"
BY DEF ReadEnd, WriteEnd, Socket, PortRead, Free, File

(* A set of numbers that is not empty has a least element.                 *)
LEMMA LeastNat ==
    ASSUME NEW S \in SUBSET Nat, S # {}
    PROVE  \E a \in S : \A b \in S : a <= b
<1> DEFINE R == OpToRel(<, Nat)
<1>1. \A x, y \in Nat : y < x => <<y, x>> \in R
  BY DEF OpToRel
<1>2. IsWellFoundedOn(R, Nat)
  BY NatLessThanWellFounded
<1> HIDE DEF R
<1>3. PICK a \in S : \A b \in S : ~ (<<b, a>> \in R)
  <2>1. S \subseteq Nat
    OBVIOUS
  <2> QED  BY <1>2, <2>1, WFMin, Zenon
<1>4. ASSUME NEW b \in S
      PROVE  a <= b
  <2>1. a \in Nat /\ b \in Nat /\ ~ (<<b, a>> \in R)
    BY <1>3
  <2>2. ~ (b < a)
    BY <1>1, <2>1, Zenon
  <2> QED  BY <2>1, <2>2
<1> QED  BY <1>4

(* The free descriptors of a table are finitely many.                      *)
LEMMA FreeFinite ==
    ASSUME NEW t
    PROVE  /\ IsFiniteSet({k \in Table : t[k] = Free})
           /\ Cardinality({k \in Table : t[k] = Free}) \in Nat
<1>1. IsFiniteSet(Table)
  BY FS_Interval, Constants DEF Table
<1> QED  BY <1>1, FS_Subset, FS_CardinalityType

(* Opened puts the file at a descriptor that was free.                     *)
LEMMA OpenedIs ==
    ASSUME NEW t \in FileTables, NEW f \in FileSet, Room(t, 1)
    PROVE  \E k \in Table : t[k] = Free /\ Opened(t, f) = [t EXCEPT ![k] = f]
<1> DEFINE free == {k \in Table : t[k] = Free}
<1>1. free # {}
  BY FS_EmptySet DEF Room
<1>2. free \in SUBSET Nat
  BY Constants
<1>3. \E k \in free : \A j \in free : k <= j
  BY <1>1, <1>2, LeastNat
<1> DEFINE k == CHOOSE k \in free : \A j \in free : k <= j
<1>4. k \in free
  BY <1>3
<1>5. Opened(t, f) = [t EXCEPT ![k] = f]
  BY DEF Opened
<1> QED  BY <1>4, <1>5

(* One descriptor fewer is free.                                           *)
LEMMA RoomOpened ==
    ASSUME NEW t \in FileTables, NEW f \in FileSet, f # Free,
           NEW n \in Nat, Room(t, n + 1)
    PROVE  Room(Opened(t, f), n) /\ Room(t, 1)
<1> DEFINE free(u) == {k \in Table : u[k] = Free}
<1>1. Cardinality(free(t)) \in Nat /\ IsFiniteSet(free(t))
  BY FreeFinite
<1>2. Cardinality(free(t)) >= n + 1
  BY DEF Room
<1>3. Room(t, 1)
  BY <1>1, <1>2 DEF Room
<1>4. PICK k \in Table : t[k] = Free /\ Opened(t, f) = [t EXCEPT ![k] = f]
  BY <1>3, OpenedIs
<1>5. free(Opened(t, f)) = free(t) \ {k}
  BY <1>4 DEF FileTables
<1>6. Cardinality(free(t) \ {k}) = Cardinality(free(t)) - 1
  BY <1>1, <1>4, FS_RemoveElement
<1>7. Cardinality(free(Opened(t, f))) >= n
  BY <1>1, <1>2, <1>5, <1>6
<1> QED  BY <1>3, <1>7 DEF Room

\* A file is held at one descriptor at most.
Once(t, f) == \A j, k \in Table : t[j] = f /\ t[k] = f => j = k

(* pipe fills two descriptors that were free with the ends of a pipe.      *)
LEMMA PipeIs ==
    ASSUME NEW t \in FileTables, NEW x \in Children \cup {Self},
           NEW n \in Nat, NEW m \in Nat, Room(t, m + 2)
    PROVE  /\ pipe(t, x, n) \in FileTables
           /\ Room(pipe(t, x, n), m)
           /\ Holds(pipe(t, x, n), ReadEnd(x, n))
           /\ Holds(pipe(t, x, n), WriteEnd(x, n))
           /\ \A k \in Table :
                 \/ pipe(t, x, n)[k] = t[k]
                 \/ /\ t[k] = Free
                    /\ pipe(t, x, n)[k] \in {ReadEnd(x, n), WriteEnd(x, n)}
           /\ ~Holds(t, ReadEnd(x, n)) => Once(pipe(t, x, n), ReadEnd(x, n))
<1> DEFINE r == ReadEnd(x, n)
           w == WriteEnd(x, n)
           u == Opened(t, r)
<1>1. r \in FileSet /\ w \in FileSet /\ r # Free /\ w # Free /\ r # w
  BY Files, FileParts
<1> HIDE DEF r, w
<1>2. m + 1 \in Nat /\ (m + 1) + 1 = m + 2
  OBVIOUS
<1>3. Room(u, m + 1) /\ Room(t, 1)
  BY <1>1, <1>2, RoomOpened
<1>4. PICK j \in Table : t[j] = Free /\ u = [t EXCEPT ![j] = r]
  BY <1>1, <1>3, OpenedIs
<1>5. u \in FileTables
  BY <1>1, <1>4 DEF FileTables
<1>6. Room(Opened(u, w), m) /\ Room(u, 1)
  BY <1>1, <1>3, <1>5, RoomOpened
<1>7. PICK k \in Table : u[k] = Free /\ Opened(u, w) = [u EXCEPT ![k] = w]
  BY <1>1, <1>5, <1>6, OpenedIs
<1>8. pipe(t, x, n) = Opened(u, w)
  BY DEF pipe, r, w
<1>9. j # k
  BY <1>1, <1>4, <1>7 DEF FileTables
<1>10. pipe(t, x, n) = [t EXCEPT ![j] = r, ![k] = w]
  BY <1>4, <1>7, <1>8
<1>11. ~Holds(t, r) => Once(pipe(t, x, n), r)
  BY <1>1, <1>4, <1>7, <1>9, <1>10 DEF FileTables, Holds, Once
<1> QED
  BY <1>1, <1>4, <1>6, <1>7, <1>8, <1>9, <1>10, <1>11
     DEF FileTables, Holds, r, w

(* Closed frees the descriptors of some files and leaves the others.       *)
LEMMA ClosedIs ==
    ASSUME NEW t \in FileTables, NEW F
    PROVE  /\ Closed(t, F) \in FileTables
           /\ \A k \in Table :
                 Closed(t, F)[k] = IF t[k] \in F THEN Free ELSE t[k]
BY Files DEF Closed, FileTables

(* Moved leaves the file at its new place only.                            *)
LEMMA MovedIs ==
    ASSUME NEW t \in FileTables, NEW f \in FileSet, NEW n \in Table
    PROVE  /\ Moved(t, f, n) \in FileTables
           /\ Moved(t, f, n)[n] = f
           /\ \A k \in Table \ {n} :
                 Moved(t, f, n)[k] = IF t[k] = f THEN Free ELSE t[k]
<1>1. Closed(t, {f}) \in FileTables
  BY ClosedIs
<1>2. \A k \in Table : Closed(t, {f})[k] = IF t[k] = f THEN Free ELSE t[k]
  BY ClosedIs
<1> QED  BY <1>1, <1>2 DEF Moved, FileTables

(* Descriptor finds a file that is held.                                   *)
LEMMA DescriptorIs ==
    ASSUME NEW t, NEW f, Holds(t, f)
    PROVE  Descriptor(t, f) \in Table /\ t[Descriptor(t, f)] = f
BY DEF Descriptor, Holds

(* A child holds the write ends of its pipes as its streams, and of what   *)
(* os_spawn held nothing that is polled.                                   *)
LEMMA ForkedIs ==
    ASSUME NEW t \in FileTables, NEW c \in Children
    PROVE  /\ Forked(t, c) \in FileTables
           /\ \A n \in Streams : Forked(t, c)[n] = WriteEnd(c, n)
           /\ \A k \in Table \ Streams :
                 /\ Forked(t, c)[k] \in {Free, t[k]}
                 /\ k \in {fds[i].fd : i \in 1 .. nfds} =>
                       Forked(t, c)[k] = Free
<1> DEFINE polled == {fds[i].fd : i \in 1 .. nfds}
           kept == [k \in Table |-> IF k \in polled THEN Free ELSE t[k]]
           out == Moved(kept, WriteEnd(c, stdout), stdout)
           shut == Closed(out, {ReadEnd(c, stdout)})
           err == Moved(shut, WriteEnd(c, stderr), stderr)
<1>1. kept \in FileTables
      /\ \A k \in Table : kept[k] = IF k \in polled THEN Free ELSE t[k]
  BY Files DEF FileTables
<1>2. /\ 1 \in Table /\ 2 \in Table
      /\ WriteEnd(c, 1) \in FileSet /\ WriteEnd(c, 2) \in FileSet
  BY Constants, Files
<1>3. WriteEnd(c, 1) # WriteEnd(c, 2)
      /\ \A m, n : WriteEnd(c, m) # ReadEnd(c, n)
  BY FileParts
<1> HIDE DEF kept, polled
<1>4. /\ out \in FileTables /\ out[1] = WriteEnd(c, 1)
      /\ \A k \in Table \ {1} :
            out[k] = IF kept[k] = WriteEnd(c, 1) THEN Free ELSE kept[k]
  BY <1>1, <1>2, MovedIs DEF stdout
<1> HIDE DEF out
<1>5. /\ shut \in FileTables
      /\ \A k \in Table :
            shut[k] = IF out[k] = ReadEnd(c, 1) THEN Free ELSE out[k]
  BY <1>4, ClosedIs DEF stdout
<1> HIDE DEF shut
<1>6. /\ err \in FileTables /\ err[2] = WriteEnd(c, 2)
      /\ \A k \in Table \ {2} :
            err[k] = IF shut[k] = WriteEnd(c, 2) THEN Free ELSE shut[k]
  BY <1>2, <1>5, MovedIs DEF stderr
<1> HIDE DEF err
<1>7. /\ Forked(t, c) \in FileTables
      /\ \A k \in Table :
            Forked(t, c)[k] = IF err[k] = ReadEnd(c, 2) THEN Free ELSE err[k]
  <2>1. Forked(t, c) = Closed(err, {ReadEnd(c, stderr)})
    BY DEF Forked, err, shut, out, kept, polled
  <2> QED  BY <1>6, <2>1, ClosedIs DEF stderr
<1>8. Forked(t, c)[1] = WriteEnd(c, 1) /\ Forked(t, c)[2] = WriteEnd(c, 2)
  BY <1>2, <1>3, <1>4, <1>5, <1>6, <1>7
<1>9. ASSUME NEW k \in Table \ {1, 2}
      PROVE  /\ Forked(t, c)[k] \in {Free, t[k]}
             /\ k \in polled => Forked(t, c)[k] = Free
  BY <1>1, <1>4, <1>5, <1>6, <1>7
<1> QED  BY <1>7, <1>8, <1>9 DEF Streams, stdout, stderr, polled

(* The four ends of the pipes of a child are put where it was free.        *)
LEMMA BothPipes ==
    ASSUME NEW t \in FileTables, NEW c \in Children, Room(t, 4)
    PROVE  LET opened == pipe(pipe(t, c, stdout), c, stderr)
           IN  /\ opened \in FileTables
               /\ \A n \in Streams : /\ Holds(opened, ReadEnd(c, n))
                                     /\ Holds(opened, WriteEnd(c, n))
               /\ \A k \in Table :
                     \/ opened[k] = t[k]
                     \/ /\ t[k] = Free
                        /\ \E n \in Streams :
                              opened[k] \in {ReadEnd(c, n), WriteEnd(c, n)}
               /\ \A n \in Streams :
                     ~Holds(t, ReadEnd(c, n)) => Once(opened, ReadEnd(c, n))
<1> DEFINE one == pipe(t, c, 1)
           two == pipe(one, c, 2)
<1>1. /\ one \in FileTables /\ Room(one, 2)
      /\ Holds(one, ReadEnd(c, 1)) /\ Holds(one, WriteEnd(c, 1))
      /\ \A k \in Table :
            \/ one[k] = t[k]
            \/ t[k] = Free /\ one[k] \in {ReadEnd(c, 1), WriteEnd(c, 1)}
      /\ ~Holds(t, ReadEnd(c, 1)) => Once(one, ReadEnd(c, 1))
  <2>1. Room(t, 2 + 2) /\ 2 \in Nat /\ 1 \in Nat
    OBVIOUS
  <2> QED  BY <2>1, PipeIs
<1> HIDE DEF one
<1>2. /\ two \in FileTables
      /\ Holds(two, ReadEnd(c, 2)) /\ Holds(two, WriteEnd(c, 2))
      /\ \A k \in Table :
            \/ two[k] = one[k]
            \/ one[k] = Free /\ two[k] \in {ReadEnd(c, 2), WriteEnd(c, 2)}
      /\ ~Holds(one, ReadEnd(c, 2)) => Once(two, ReadEnd(c, 2))
  <2>1. Room(one, 0 + 2) /\ 2 \in Nat /\ 0 \in Nat
    BY <1>1
  <2> QED  BY <1>1, <2>1, PipeIs
<1> HIDE DEF two
<1>3. ReadEnd(c, 1) # Free /\ WriteEnd(c, 1) # Free
  BY FileParts
<1>4. Holds(two, ReadEnd(c, 1)) /\ Holds(two, WriteEnd(c, 1))
  BY <1>1, <1>2, <1>3 DEF Holds
<1>5. \A k \in Table :
          \/ two[k] = t[k]
          \/ /\ t[k] = Free
             /\ \E n \in {1, 2} : two[k] \in {ReadEnd(c, n), WriteEnd(c, n)}
  BY <1>1, <1>2
<1>6. two = pipe(pipe(t, c, stdout), c, stderr)
  BY DEF one, two, stdout, stderr
<1>7. ReadEnd(c, 1) \notin {ReadEnd(c, 2), WriteEnd(c, 2)}
      /\ ReadEnd(c, 2) \notin {ReadEnd(c, 1), WriteEnd(c, 1)}
  BY FileParts
<1>8. ~Holds(t, ReadEnd(c, 1)) => Once(two, ReadEnd(c, 1))
  BY <1>1, <1>2, <1>7 DEF Once
<1>9. ~Holds(t, ReadEnd(c, 2)) => Once(two, ReadEnd(c, 2))
  BY <1>1, <1>2, <1>7 DEF Holds
<1> QED
  BY <1>2, <1>4, <1>5, <1>6, <1>8, <1>9 DEF Streams, stdout, stderr

-----------------------------------------------------------------------------
(* Every step keeps the invariant                                          *)

(* The vector is no longer than there are children, and shorter while a    *)
(* child is not in it.                                                     *)
LEMMA VectorSize ==
    ASSUME Vector
    PROVE  /\ Len(processes) \in Nat
           /\ Len(processes) <= Cardinality(Children)
           /\ \A c \in Children :
                 child[c].state \notin Alive =>
                     Len(processes) + 1 <= Cardinality(Children)
<1> DEFINE f == [k \in 1 .. Len(processes) |-> processes[k].pid]
<1>1. Len(processes) \in Nat
  BY DEF Vector
<1>2. Cardinality(1 .. Len(processes)) = Len(processes)
  <2>1. Cardinality(1 .. Len(processes)) =
           IF 1 > Len(processes) THEN 0 ELSE Len(processes) - 1 + 1
    BY <1>1, FS_Interval
  <2> QED  BY <1>1, <2>1
<1>a. \A k \in 1 .. Len(processes) :
         processes[k].pid \in Children /\ child[processes[k].pid].state \in Alive
  <2>1. \A k \in 1 .. Len(processes) : processes[k] \in ProcessData
    BY DEF Vector
  <2>2. \A k \in 1 .. Len(processes) : processes[k].pid \in Children
    BY <2>1 DEF ProcessData
  <2> QED  BY <2>2 DEF Vector
<1>b. \A j, k \in 1 .. Len(processes) : f[j] = f[k] => j = k
  BY DEF Vector
<1> HIDE DEF f
<1>3. f \in Injection(1 .. Len(processes), Children)
  <2>1. f \in [1 .. Len(processes) -> Children]
    BY <1>a DEF f
  <2> QED  BY <1>b, <2>1, Fun_IsInj
<1>4. Len(processes) <= Cardinality(Children)
  BY <1>2, <1>3, FS_Injection, SpawnAssumption
<1>5. ASSUME NEW c \in Children, child[c].state \notin Alive
      PROVE  Len(processes) + 1 <= Cardinality(Children)
  <2>1. f \in Injection(1 .. Len(processes), Children \ {c})
    <3>1. f \in [1 .. Len(processes) -> Children \ {c}]
      BY <1>5, <1>a DEF f
    <3> QED  BY <1>b, <3>1, Fun_IsInj
  <2>2. /\ IsFiniteSet(Children \ {c})
        /\ Cardinality(Children \ {c}) = Cardinality(Children) - 1
    BY SpawnAssumption, FS_RemoveElement
  <2>3. Len(processes) <= Cardinality(Children \ {c})
    BY <1>2, <2>1, <2>2, FS_Injection
  <2> QED  BY <1>1, <2>2, <2>3, Constants
<1> QED  BY <1>1, <1>4, <1>5

(* The records of the vector.                                              *)
LEMMA VectorFacts ==
    ASSUME Vector, NEW k \in 1 .. Len(processes)
    PROVE  /\ processes[k] \in ProcessData
           /\ processes[k].pid \in Children
           /\ child[processes[k].pid].state \in Alive
           /\ ~child[processes[k].pid].stray
           /\ processes[k].index_stdout = 2 + 2 * k
           /\ processes[k].index_stderr = 3 + 2 * k
<1>1. processes[k] \in ProcessData
  BY DEF Vector
<1>2. processes[k].pid \in Children
  BY <1>1 DEF ProcessData
<1> QED  BY <1>1, <1>2 DEF Vector

(* Erlang calls spawn: only the number of calls in the port changes.       *)
LEMMA RequestStep ==
    ASSUME IInv, Request
    PROVE  IInv'
<1> USE DEF IInv, Request, pollVars, ending, history
<1>1. Shape'
  BY DEF Shape
<1>2. Vector'
  BY DEF Vector
<1>3. Counters'
  BY FS_Subset, FS_CardinalityType, SpawnAssumption DEF Counters
<1>4. Counted'
  BY DEF Counted, Ready
<1>5. Descriptors'
  BY DEF Descriptors, Abandoned
<1>6. Ends'
  BY DEF Ends, NothingInherited, Abandoned
<1>7. HangUps'
  BY DEF HangUps, KilledForAReason
<1>8. Seen'
  BY DEF Seen
<1>9. Causes'
  BY DEF Causes
<1>10. Configured'
  BY DEF Configured, owner_get
<1>11. Result' /\ OutputDelivered'
  BY DEF Result, NobodyLeft, OutputDelivered
<1> QED  BY <1>1, <1>2, <1>3, <1>4, <1>5, <1>6, <1>7, <1>8, <1>9, <1>10, <1>11

(* The status of a call that fails names the call.                         *)
LEMMA FailReports ==
    ASSUME NEW step \in {"erlang", "read", "write", "poll", "pipe", "dup",
                         "close", "encode", "memory"}, Fail(step)
    PROVE  pc' = "return" /\ exit_status_to_list(result') = Told(ended')
<1>1. pc' = "return" /\ ended' = step /\ result' \in PortStatus(step)
  BY DEF Fail
<1>2. /\ exit_status_to_list(80) = "erlang"
      /\ exit_status_to_list(103) = "encode"
      /\ exit_status_to_list(12) = "number"
      /\ \A s \in 81 .. 90 : exit_status_to_list(s) = "read"
      /\ \A s \in 91 .. 102 : exit_status_to_list(s) = "write"
      /\ \A s \in 104 .. 112 : exit_status_to_list(s) = "poll"
      /\ \A s \in 113 .. 117 : exit_status_to_list(s) = "pipe"
      /\ \A s \in 118 .. 123 : exit_status_to_list(s) = "dup"
      /\ \A s \in 124 .. 127 : exit_status_to_list(s) = "close"
  BY DEF exit_status_to_list, signals
<1>3. /\ PortStatus("erlang") = {80} /\ PortStatus("read") = 81 .. 90
      /\ PortStatus("write") = 91 .. 102 /\ PortStatus("poll") = 104 .. 112
      /\ PortStatus("pipe") = 113 .. 117 /\ PortStatus("dup") = 118 .. 123
      /\ PortStatus("close") = 124 .. 127 /\ PortStatus("encode") = {103}
      /\ PortStatus("memory") = {12}
  BY DEF PortStatus, erlang_exit, errno_read, port_errno_write, errno_poll,
         port_errno_pipe, port_errno_dup, port_errno_close, ei_encode_error,
         out_of_memory
<1>4. \A s \in {"erlang", "read", "write", "poll", "pipe", "dup", "close",
                "encode"} : Told(s) = s
  BY DEF Told
<1>5. Told("memory") = "number"
  BY DEF Told
<1> QED  BY <1>1, <1>2, <1>3, <1>4, <1>5

(* A reply is written, or os_spawn ends.                                   *)
LEMMA ReplyIs ==
    ASSUME Reply
    PROVE  \/ pc' = "own" /\ UNCHANGED ending
           \/ pc' = "return" /\ exit_status_to_list(result') = Told(ended')
BY FailReports DEF Reply

(* One read takes from a pipe, and leaves what does not fit the buffer.    *)
LEMMA UnreadIs ==
    ASSUME NEW k \in Nat
    PROVE  /\ Unread(k) \in Nat /\ Unread(k) <= k
           /\ Unread(k) > 0 => Unread(k) + Buffered <= k
BY SpawnAssumption DEF Unread

(* The lines that are left when some streams were read.                    *)
LEMMA DrainedIs ==
    ASSUME NEW x \in Children \cup {Self}, NEW read,
           lines \in [Children \cup {Self} -> [Streams -> Nat]]
    PROVE  /\ Drained(x, read) \in [Children \cup {Self} -> [Streams -> Nat]]
           /\ \A y \in Children \cup {Self} : \A n \in Streams :
                 /\ Drained(x, read)[y][n] <= lines[y][n]
                 /\ y # x => Drained(x, read)[y][n] = lines[y][n]
                 /\ n \notin read => Drained(x, read)[y][n] = lines[y][n]
           /\ \A n \in Streams :
                 n \in read => Drained(x, read)[x][n] = Unread(lines[x][n])
<1> DEFINE row == [n \in Streams |->
                      IF n \in read THEN Unread(lines[x][n])
                      ELSE lines[x][n]]
<1>1. \A y \in Children \cup {Self} : \A n \in Streams : lines[y][n] \in Nat
  OBVIOUS
<1>2. row \in [Streams -> Nat]
  BY <1>1, UnreadIs
<1>3. Drained(x, read) = [lines EXCEPT ![x] = row]
  BY DEF Drained
<1>4. /\ Drained(x, read) \in [Children \cup {Self} -> [Streams -> Nat]]
      /\ Drained(x, read)[x] = row
      /\ \A y \in Children \cup {Self} :
            y # x => Drained(x, read)[y] = lines[y]
  <2> HIDE DEF row
  <2> QED  BY <1>2, <1>3
<1> HIDE DEF row
<1>5. \A n \in Streams :
         /\ n \in read => row[n] = Unread(lines[x][n])
         /\ n \notin read => row[n] = lines[x][n]
         /\ row[n] <= lines[x][n]
  BY <1>1, UnreadIs DEF row
<1> QED  BY <1>1, <1>4, <1>5

(* os_spawn ends, by a status that names the call or by an abort, and what *)
(* it read is lost: nothing else changes.                                  *)
LEMMA EndKeeps ==
    ASSUME IInv, pc \notin {"return", "exit"},
           \/ pc' = "return"
           \/ pc' = "exit" /\ ended' = "abort",
           exit_status_to_list(result') = Told(ended'),
           lines' \in [Children \cup {Self} -> [Streams -> Nat]],
           \A c \in Children : \A n \in Streams : lines'[c][n] <= lines[c][n],
           UNCHANGED <<fds, nfds, processes, count, itr, files, child,
                       requests, erlang, reported, history>>
    PROVE  IInv'
<1> USE DEF IInv, history
<1>1. Shape'
  BY DEF Shape
<1>2. Vector'
  <2>1. pc = "init" => nfds = 0 /\ Len(processes) = 0
    BY DEF Vector
  <2> QED  BY <2>1 DEF Vector, Shape
<1>3. Counters'
  BY DEF Counters
<1>4. Counted'
  BY DEF Counted, Ready
<1>5. Descriptors'
  BY DEF Descriptors, Abandoned
<1>6. Ends'
  BY DEF Ends, NothingInherited, Abandoned
<1>a. \A c \in Children : \A n \in Streams :
         /\ lines[c][n] \in Nat /\ lines'[c][n] \in Nat /\ left[c][n] \in Nat
         /\ lines'[c][n] <= lines[c][n]
  BY DEF Shape
<1>7. HangUps'
  <2>1. \A c \in hungup \ closers : \A n \in Streams :
           lines'[c][n] <= left[c][n]
    BY <1>a DEF HangUps, Shape
  <2> QED  BY <2>1 DEF HangUps, KilledForAReason
<1>8. Seen'
  BY DEF Seen
<1>9. Causes'
  BY DEF Causes
<1>10. Configured'
  BY DEF Configured, owner_get
<1>11. Result'
  BY DEF Result, NobodyLeft
<1>12. OutputDelivered'
  <2> SUFFICES ASSUME NEW c \in Children, child[c].state = "reaped",
                      c \notin closers, NEW n \in Streams, lines'[c][n] > 0
               PROVE  lines'[c][n] + Buffered <= left[c][n]
    BY DEF OutputDelivered
  <2>1. lines[c][n] > 0 => lines[c][n] + Buffered <= left[c][n]
    BY DEF OutputDelivered
  <2> QED  BY <1>a, <2>1, SpawnAssumption
<1> QED
  BY <1>1, <1>2, <1>3, <1>4, <1>5, <1>6, <1>7, <1>8, <1>9,
     <1>10, <1>11, <1>12

(* Erlang ends: only the port changes.                                     *)
LEMMA ErlangStopsStep ==
    ASSUME IInv, ErlangStops
    PROVE  IInv'
<1> USE DEF IInv, pollVars, ending, history, ErlangStops
<1>1. Shape'
  BY DEF Shape
<1>2. Vector'
  BY DEF Vector
<1>3. Counters'
  BY DEF Counters
<1>4. Counted'
  BY DEF Counted, Ready
<1>5. Descriptors'
  BY DEF Descriptors, Abandoned
<1>6. Ends'
  BY DEF Ends, NothingInherited, Abandoned
<1>7. HangUps'
  BY DEF HangUps, KilledForAReason
<1>8. Seen'
  BY DEF Seen
<1>9. Causes'
  BY DEF Causes
<1>10. Configured'
  BY DEF Configured, owner_get
<1>11. Result'
  BY DEF Result, NobodyLeft
<1>12. OutputDelivered'
  BY DEF OutputDelivered
<1> QED
  BY <1>1, <1>2, <1>3, <1>4, <1>5, <1>6, <1>7, <1>8, <1>9,
     <1>10, <1>11, <1>12

(* The port is closed: os_spawn ends.                                      *)
LEMMA ErlangExitStep ==
    ASSUME IInv, ErlangExit
    PROVE  IInv'
<1>1. /\ pc' = "return" /\ exit_status_to_list(result') = Told(ended')
      /\ pc \notin {"return", "exit"}
  BY FailReports DEF ErlangExit
<1>2. lines \in [Children \cup {Self} -> [Streams -> Nat]]
  BY DEF IInv, Shape
<1> QED  BY <1>1, <1>2, EndKeeps DEF ErlangExit

(* A call of os_spawn fails: os_spawn ends.                                *)
LEMMA PortFailsStep ==
    ASSUME IInv, PortFails
    PROVE  IInv'
<1>1. /\ pc' = "return" /\ exit_status_to_list(result') = Told(ended')
      /\ pc \notin {"return", "exit"}
  BY FailReports DEF PortFails, CallsIn, Looking
<1>2. lines \in [Children \cup {Self} -> [Streams -> Nat]]
  BY DEF IInv, Shape
<1> QED  BY <1>1, <1>2, EndKeeps DEF PortFails

(* Something is read only for os_spawn itself or for a process.            *)
LEMMA ReadingIs ==
    ASSUME IInv, Reading # {}
    PROVE  /\ pc \notin {"return", "exit"}
           /\ ReadFrom \in Children \cup {Self}
<1>1. pc = "own" \/ Looking
  BY DEF Reading
<1>2. CASE pc = "own"
  BY <1>2 DEF ReadFrom
<1>3. CASE Looking
  <2>1. itr \in 1 .. Len(processes) /\ pc = "check"
    BY <1>3 DEF Looking, IInv, Counters, Vector
  <2>2. processes[itr].pid \in Children
    BY <2>1, VectorFacts DEF IInv
  <2> QED  BY <2>1, <2>2 DEF ReadFrom
<1> QED  BY <1>1, <1>2, <1>3

(* What was read is not sent: os_spawn ends.                               *)
LEMMA SendFailsStep ==
    ASSUME IInv, SendFails
    PROVE  IInv'
<1>1. pc' = "return" /\ exit_status_to_list(result') = Told(ended')
  BY FailReports DEF SendFails
<1>2. PICK read \in (SUBSET Reading) \ {{}} : lines' = Drained(ReadFrom, read)
  BY DEF SendFails
<1>3. /\ pc \notin {"return", "exit"}
      /\ ReadFrom \in Children \cup {Self}
  <2>1. Reading # {}
    BY <1>2
  <2> QED  BY <2>1, ReadingIs
<1>4. lines \in [Children \cup {Self} -> [Streams -> Nat]]
  BY DEF IInv, Shape
<1>5. /\ lines' \in [Children \cup {Self} -> [Streams -> Nat]]
      /\ \A c \in Children : \A n \in Streams : lines'[c][n] <= lines[c][n]
  BY <1>2, <1>3, <1>4, DrainedIs
<1> QED  BY <1>1, <1>3, <1>5, EndKeeps DEF SendFails

(* An assertion ends os_spawn with a signal.                               *)
LEMMA AbortStep ==
    ASSUME IInv, Abort
    PROVE  IInv'
<1>1. /\ pc' = "exit" /\ ended' = "abort"
      /\ exit_status_to_list(result') = Told(ended')
  BY DEF Abort, SIGABRT, exit_status_to_list, signals, Told
<1>2. pc \notin {"return", "exit"}
  BY ReadingIs DEF Abort
<1>3. lines \in [Children \cup {Self} -> [Streams -> Nat]]
  BY DEF IInv, Shape
<1>4. \A c \in Children : \A n \in Streams : lines[c][n] <= lines[c][n]
  BY <1>3
<1> QED  BY <1>1, <1>2, <1>3, <1>4, EndKeeps DEF Abort

(* There is no call to read.                                               *)
LEMMA WaitErlangStep ==
    ASSUME IInv, WaitErlang
    PROVE  IInv'
<1> USE DEF IInv, pollVars, ending, history, WaitErlang
<1>1. Shape'
  BY DEF Shape
<1>2. Vector'
  BY DEF Vector
<1>3. Counters'
  BY DEF Counters
<1>4. Counted'
  <2>1. nfds \in Nat /\ nfds >= 3
    BY DEF Vector
  <2>2. Ready(1 .. nfds) = Ready({1, 2} \cup 4 .. nfds)
    BY <2>1 DEF Ready, INDEX_ERLANG
  <2> QED  BY <2>2 DEF Counted, Ready
<1>5. Descriptors'
  BY DEF Descriptors, Abandoned
<1>6. Ends'
  BY DEF Ends, NothingInherited, Abandoned
<1>7. HangUps'
  BY DEF HangUps, KilledForAReason
<1>8. Seen'
  BY DEF Seen
<1>9. Causes'
  BY DEF Causes
<1>10. Configured'
  BY DEF Configured, owner_get
<1>11. Result'
  BY DEF Result, NobodyLeft
<1>12. OutputDelivered'
  BY DEF OutputDelivered
<1> QED
  BY <1>1, <1>2, <1>3, <1>4, <1>5, <1>6, <1>7, <1>8, <1>9,
     <1>10, <1>11, <1>12

(* Nothing is left to look at.                                             *)
LEMMA AgainStep ==
    ASSUME IInv, Again
    PROVE  IInv'
<1> USE DEF IInv, pollVars, ending, history, Again
<1>1. Shape'
  BY DEF Shape
<1>2. Vector'
  BY DEF Vector
<1>3. Counters'
  BY DEF Counters
<1>4. Counted'
  BY DEF Counted, Ready
<1>5. Descriptors'
  BY DEF Descriptors, Abandoned
<1>6. Ends'
  BY DEF Ends, NothingInherited, Abandoned
<1>7. HangUps'
  BY DEF HangUps, KilledForAReason
<1>8. Seen'
  BY DEF Seen
<1>9. Causes'
  BY DEF Causes
<1>10. Configured'
  BY DEF Configured, owner_get
<1>11. Result'
  BY DEF Result, NobodyLeft
<1>12. OutputDelivered'
  BY DEF OutputDelivered
<1> QED
  BY <1>1, <1>2, <1>3, <1>4, <1>5, <1>6, <1>7, <1>8, <1>9,
     <1>10, <1>11, <1>12

-----------------------------------------------------------------------------
(* Steps of a child                                                        *)

\* What the steps of a child have in common: it stays alive, it does nothing
\* to os_spawn or to other children, and it gets no file but sockets.
ChildKeeps(c) ==
    /\ UNCHANGED <<pollVars, files, requests, reported>>
    /\ DOMAIN child' = Children
    /\ \A d \in Children \ {c} : child'[d] = child[d]
    /\ child[c].state \in Alive /\ child'[c].state \in Alive
    /\ IsProcess(child'[c]) /\ child'[c].stray = child[c].stray
    /\ \A k \in Table :
          \/ child'[c].files[k] \in {Free, child[c].files[k]}
          \/ child'[c].files[k].kind = "socket"
    /\ lines' \in [Children \cup {Self} -> [Streams -> Nat]]
    /\ \A d \in Children \ {c} : lines'[d] = lines[d]
    /\ c \in hungup \ closers => lines' = lines
    /\ left' \in [Children -> [Streams -> Nat]]
    /\ \A d \in Children \ {c} : left'[d] = left[d]
    /\ hungup' \in {hungup, hungup \cup {c}}
    /\ closers' \in {closers, closers \cup {c}}
    /\ DOMAIN cause' = Children
    /\ \A d \in Children \ {c} : cause'[d] = cause[d]

(* Such a step leaves what the main loop keeps as it was.                  *)
LEMMA ChildKeepsLoop ==
    ASSUME IInv, NEW c \in Children, ChildKeeps(c)
    PROVE  /\ Shape' /\ Vector' /\ Counters' /\ Counted' /\ Descriptors'
           /\ NothingInherited' /\ Seen' /\ Result' /\ OutputDelivered'
<1> USE DEF IInv, ChildKeeps, pollVars, ending
<1>0. /\ \A d \in Children : child'[d].state \in Alive <=>
                             child[d].state \in Alive
      /\ \A d \in Children : child'[d].state = "none" <=>
                             child[d].state = "none"
      /\ \A d \in Children : child'[d].state = "failed" <=>
                             child[d].state = "failed"
      /\ \A d \in Children : child'[d].stray = child[d].stray
      /\ \A d \in Children : child'[d].state = "reaped" <=>
                             child[d].state = "reaped"
  BY DEF Alive
<1>1. Shape'
  <2>1. \A d \in Children :
            /\ child'[d].state \in Alive \cup {"none", "failed", "reaped"}
            /\ IsProcess(child'[d])
            /\ child'[d].stray => child'[d].state \in Alive
    BY DEF Shape
  <2>2. hungup' \subseteq Children /\ closers' \subseteq Children
    BY DEF Shape
  <2>3. Shape /\ UNCHANGED <<pc, fds, files, reported>>
    OBVIOUS
  <2>4. /\ DOMAIN child' = Children
        /\ lines' \in [Children \cup {Self} -> [Streams -> Nat]]
        /\ left' \in [Children -> [Streams -> Nat]]
        /\ DOMAIN cause' = Children
    OBVIOUS
  <2> HIDE DEF IInv, ChildKeeps
  <2> QED  BY <2>1, <2>2, <2>3, <2>4 DEF Shape
<1>2. Vector'
  <2>1. Vector /\ UNCHANGED <<processes, nfds, pc>>
    OBVIOUS
  <2> HIDE DEF IInv, ChildKeeps
  <2> QED  BY <1>0, <2>1, VectorFacts DEF Vector
<1>3. Counters'
  <2>1. {d \in Children : child'[d].state = "none"} =
        {d \in Children : child[d].state = "none"}
    BY <1>0
  <2> QED  BY <2>1 DEF Counters
<1>4. Counted'
  BY DEF Counted, Ready
<1>5. Descriptors'
  <2>1. UNCHANGED <<files, fds, processes, nfds, pc>>
    OBVIOUS
  <2> HIDE DEF ChildKeeps
  <2> QED  BY <1>0, <2>1 DEF Descriptors, Abandoned
<1>6. NothingInherited'
  <2> SUFFICES ASSUME NEW a \in Children, NEW d \in Children,
                      NEW n \in Streams, a # d, ~Abandoned(d)',
                      NEW f \in {ReadEnd(d, n), WriteEnd(d, n),
                                 ReadEnd(Self, n), WriteEnd(Self, n), PortRead},
                      NEW k \in Table, child'[a].files[k] = f
               PROVE  FALSE
    BY DEF NothingInherited, Abandoned, Holds
  <2>1. f.kind \in {"read", "write", "port_read"} /\ f # Free
    BY FileParts
  <2>2. child[a].files[k] = f
    BY <2>1
  <2>3. ~Abandoned(d)
    BY <1>0 DEF Abandoned
  <2> QED  BY <2>2, <2>3 DEF Ends, NothingInherited, Abandoned, Holds
<1>7. Seen'
  <2> SUFFICES ASSUME pc \in {"erlang", "own", "check"},
                      NEW k \in 1 .. Len(processes)
               PROVE  LET d == processes[k].pid
                          revents(n) == fds[2 * k + 1 + n].revents
                      IN  /\ (\E n \in Streams : "HUP" \in revents(n)) =>
                                d \in hungup'
                          /\ (pc = "check" => k >= itr) /\ d \notin closers'
                             /\ (\E n \in Streams : "HUP" \in revents(n)) =>
                                 \A n \in Streams :
                                     lines'[d][n] > 0 => "IN" \in revents(n)
    BY DEF Seen
  <2> DEFINE d == processes[k].pid
  <2>1. d \in Children
    BY VectorFacts
  <2>2. \/ d # c /\ lines'[d] = lines[d]
        \/ d = c /\ c \in hungup \ closers /\ lines' = lines
        \/ d = c /\ c \notin hungup
        \/ d = c /\ c \in closers
    BY <2>1
  <2> QED  BY <2>1, <2>2 DEF Seen
<1>8. Result'
  BY <1>0 DEF Result, NobodyLeft, Alive
<1>9. OutputDelivered'
  BY <1>0 DEF OutputDelivered, Alive
<1> QED  BY <1>1, <1>2, <1>3, <1>4, <1>5, <1>6, <1>7, <1>8, <1>9

\* What the invariant says of the child itself after its step.
OwnKeeps(c) ==
    /\ c \notin hungup' => \A n \in Streams : child'[c].files[n] = WriteEnd(c, n)
    /\ c \in hungup' => \E n \in Streams : ~Holds(child'[c].files, WriteEnd(c, n))
    /\ c \in closers' => c \in hungup'
    /\ c \in hungup' \ closers' => child'[c].state \in {"exiting", "zombie"}
    /\ c \in hungup' \ closers' => \A n \in Streams : lines'[c][n] <= left'[c][n]
    /\ child'[c].state \in {"exiting", "zombie"} => c \in hungup'
    /\ cause'[c] # "none" =>
          /\ child'[c].state \in {"exiting", "zombie"}
          /\ child'[c].status \in 1 .. 255
          /\ string(child'[c].status) = cause'[c]
    /\ child'[c].state \in {"limited", "exec", "running"} =>
          child'[c].connected = Ports
    /\ child'[c].connected \in 0 .. Ports
    /\ child'[c].state \in {"connect", "limited", "exec", "running"} =>
          \A i \in 0 .. child'[c].connected - 1 :
              child'[c].files[i + 3] = Socket(c, i)
    /\ child'[c].state \in {"connect", "limited"} =>
          child'[c].uid = 0 /\ child'[c].gid = 0
    /\ child'[c].state \in {"exec", "running"} =>
          /\ child'[c].uid = owner_get(c).uid
          /\ child'[c].gid = owner_get(c).gid

(* The two together keep the invariant.                                    *)
LEMMA ChildStepKeeps ==
    ASSUME IInv, NEW c \in Children, ChildKeeps(c), OwnKeeps(c)
    PROVE  IInv'
<1>1. /\ Shape' /\ Vector' /\ Counters' /\ Counted' /\ Descriptors'
      /\ NothingInherited' /\ Seen' /\ Result' /\ OutputDelivered'
  BY ChildKeepsLoop
<1>2. /\ \A d \in Children \ {c} : child'[d] = child[d] /\ cause'[d] = cause[d]
      /\ child[c].state \in Alive /\ child'[c].state \in Alive
      /\ hungup' \in {hungup, hungup \cup {c}}
      /\ closers' \in {closers, closers \cup {c}}
      /\ \A d \in Children \ {c} : lines'[d] = lines[d] /\ left'[d] = left[d]
      /\ pc' = pc /\ reported' = reported
  BY DEF ChildKeeps, pollVars
<1>3. Ends'
  <2>1. Ends /\ hungup \subseteq Children
    BY DEF IInv, Shape
  <2>2. ASSUME NEW d \in Children, NEW n \in Streams,
               child'[d].state \in Alive, d \notin hungup'
        PROVE  child'[d].files[n] = WriteEnd(d, n)
    BY <1>2, <2>1, <2>2 DEF Ends, OwnKeeps
  <2>3. ASSUME NEW d \in Children, child'[d].state \notin Alive
        PROVE  \A k \in Table : child'[d].files[k] = Free
    BY <1>2, <2>1, <2>3 DEF Ends
  <2>4. ASSUME NEW d \in hungup'
        PROVE  \E n \in Streams : ~Holds(child'[d].files, WriteEnd(d, n))
    <3>1. CASE d = c
      BY <3>1, <2>4 DEF OwnKeeps
    <3>2. CASE d # c
      BY <3>2, <1>2, <2>1, <2>4 DEF Ends
    <3> QED  BY <3>1, <3>2
  <2> QED  BY <1>1, <2>2, <2>3, <2>4 DEF Ends
<1>4. HangUps'
  <2>1. HangUps /\ hungup \subseteq Children
    BY DEF IInv, Shape
  <2> QED  BY <1>2, <2>1 DEF HangUps, KilledForAReason, OwnKeeps, Alive
<1>5. Causes'
  <2>1. Causes
    BY DEF IInv
  <2> QED  BY <1>2, <2>1 DEF Causes, OwnKeeps
<1>6. Configured'
  <2>1. Configured
    BY DEF IInv
  <2> QED  BY <1>2, <2>1 DEF Configured, OwnKeeps, owner_get, Alive
<1> QED  BY <1>1, <1>3, <1>4, <1>5, <1>6 DEF IInv

(* The record of a child and what the invariant says of a child that lives. *)
LEMMA ChildFacts ==
    ASSUME IInv, NEW c \in Children
    PROVE  /\ DOMAIN child = Children /\ IsProcess(child[c])
           /\ child[c].files \in FileTables /\ child[c].connected \in 0 .. Ports
           /\ lines \in [Children \cup {Self} -> [Streams -> Nat]]
           /\ left \in [Children -> [Streams -> Nat]]
           /\ DOMAIN cause = Children
           /\ c \in closers => c \in hungup
           /\ c \in hungup \ closers =>
                 \A n \in Streams : lines[c][n] <= left[c][n]
           /\ c \in hungup \ closers =>
                 child[c].state \in {"exiting", "zombie", "reaped"}
           /\ child[c].state \in {"exiting", "zombie"} => c \in hungup
           /\ child[c].state \in Alive /\ c \notin hungup =>
                 \A n \in Streams : child[c].files[n] = WriteEnd(c, n)
           /\ c \in hungup =>
                 \E n \in Streams : ~Holds(child[c].files, WriteEnd(c, n))
           /\ child[c].state \in {"connect", "limited", "exec", "running"} =>
                 cause[c] = "none"
           /\ cause[c] # "none" /\ child[c].state \in {"exiting", "zombie"} =>
                 /\ child[c].status \in 1 .. 255
                 /\ string(child[c].status) = cause[c]
           /\ child[c].state \in {"limited", "exec", "running"} =>
                 child[c].connected = Ports
           /\ child[c].state \in {"connect", "limited", "exec", "running"} =>
                 \A i \in 0 .. child[c].connected - 1 :
                     child[c].files[i + 3] = Socket(c, i)
           /\ child[c].state \in {"connect", "limited"} =>
                 child[c].uid = 0 /\ child[c].gid = 0
           /\ child[c].state \in {"exec", "running"} =>
                 /\ child[c].uid = owner_get(c).uid
                 /\ child[c].gid = owner_get(c).gid
<1>1. Shape /\ Ends /\ HangUps /\ Causes /\ Configured
  BY DEF IInv
<1>2. /\ DOMAIN child = Children /\ IsProcess(child[c])
      /\ child[c].files \in FileTables
      /\ lines \in [Children \cup {Self} -> [Streams -> Nat]]
      /\ left \in [Children -> [Streams -> Nat]]
      /\ DOMAIN cause = Children
  BY <1>1 DEF Shape, IsProcess
<1>3. /\ c \in closers => c \in hungup
      /\ c \in hungup \ closers =>
            \A n \in Streams : lines[c][n] <= left[c][n]
      /\ c \in hungup \ closers =>
            child[c].state \in {"exiting", "zombie", "reaped"}
      /\ child[c].state \in {"exiting", "zombie"} => c \in hungup
  BY <1>1 DEF HangUps
<1>4. /\ child[c].state \in Alive /\ c \notin hungup =>
            \A n \in Streams : child[c].files[n] = WriteEnd(c, n)
      /\ c \in hungup =>
            \E n \in Streams : ~Holds(child[c].files, WriteEnd(c, n))
  BY <1>1 DEF Ends
<1>5. /\ child[c].state \in {"connect", "limited", "exec", "running"} =>
            cause[c] = "none"
      /\ cause[c] # "none" /\ child[c].state \in {"exiting", "zombie"} =>
            child[c].status \in 1 .. 255 /\ string(child[c].status) = cause[c]
  BY <1>1 DEF Causes
<1> QED  BY <1>1, <1>2, <1>3, <1>4, <1>5 DEF Configured

(* A socket is opened and placed at its descriptor; the others stay.       *)
LEMMA ConnectStep ==
    ASSUME IInv, NEW c \in Children, Connect(c)
    PROVE  IInv'
<1> DEFINE i == child[c].connected
           t == child[c].files
           opened == Opened(t, Socket(c, i))
           placed == IF Descriptor(opened, Socket(c, i)) = i + 3 THEN opened
                     ELSE Moved(opened, Socket(c, i), i + 3)
<1>1. /\ child[c].state = "connect" /\ i < Ports /\ Room(t, 1)
      /\ child' = [child EXCEPT ![c].files = placed, ![c].connected = i + 1]
      /\ UNCHANGED <<pollVars, files, lines, requests, erlang, reported,
                     history>>
  BY DEF Connect
<1>2. /\ IsProcess(child[c]) /\ t \in FileTables /\ i \in 0 .. Ports
      /\ DOMAIN child = Children /\ cause[c] = "none"
      /\ \A j \in 0 .. i - 1 : t[j + 3] = Socket(c, j)
      /\ c \in hungup => \E n \in Streams : ~Holds(t, WriteEnd(c, n))
      /\ c \notin hungup => \A n \in Streams : t[n] = WriteEnd(c, n)
  BY <1>1, ChildFacts DEF Alive
<1>3. i \in Nat /\ i + 3 \in Table /\ Ports \in Nat /\ Socket(c, i) \in FileSet
  BY <1>1, <1>2, Constants, Files
<1> HIDE DEF i, t
<1>4. PICK k \in Table :
         t[k] = Free /\ opened = [t EXCEPT ![k] = Socket(c, i)]
  BY <1>1, <1>2, <1>3, OpenedIs
<1>5. opened \in FileTables /\ Holds(opened, Socket(c, i))
  BY <1>2, <1>3, <1>4 DEF FileTables, Holds
<1> HIDE DEF opened
<1>6. /\ placed \in FileTables /\ placed[i + 3] = Socket(c, i)
      /\ \A m \in Table \ {i + 3} : placed[m] \in {opened[m], Free}
      /\ \A m \in Table \ {i + 3} :
            opened[m] # Socket(c, i) => placed[m] = opened[m]
  BY <1>3, <1>5, DescriptorIs, MovedIs
<1> HIDE DEF placed
<1>7. /\ child'[c].files = placed /\ child'[c].connected = i + 1
      /\ child'[c].state = "connect" /\ IsProcess(child'[c])
      /\ child'[c].stray = child[c].stray
      /\ child'[c].uid = child[c].uid /\ child'[c].gid = child[c].gid
      /\ DOMAIN child' = Children
      /\ \A d \in Children \ {c} : child'[d] = child[d]
  <2>1. i + 1 \in Nat
    BY <1>3
  <2> QED  BY <1>1, <1>2, <1>6, <2>1 DEF IsProcess
<1>8. /\ \A m \in Table : \/ placed[m] \in {t[m], Free}
                          \/ placed[m] = Socket(c, i)
      /\ \A m \in Table \ {i + 3} :
            t[m] \notin {Free, Socket(c, i)} => placed[m] = t[m]
  BY <1>2, <1>3, <1>4, <1>5, <1>6 DEF FileTables
<1>9. /\ \A n : WriteEnd(c, n) \notin {Free, Socket(c, i)}
      /\ \A j : j # i => Socket(c, j) \notin {Free, Socket(c, i)}
      /\ \A j : Socket(c, j).kind = "socket"
  BY FileParts
<1>10. ChildKeeps(c)
  <2>1. \A m \in Table : \/ child'[c].files[m] \in {Free, child[c].files[m]}
                         \/ child'[c].files[m].kind = "socket"
    BY <1>7, <1>8, <1>9 DEF t
  <2>2. /\ lines \in [Children \cup {Self} -> [Streams -> Nat]]
        /\ left \in [Children -> [Streams -> Nat]]
        /\ DOMAIN cause = Children
    BY ChildFacts
  <2> QED
    BY <1>1, <1>7, <2>1, <2>2 DEF ChildKeeps, pollVars, ending, history, Alive
<1>11. \A n \in Streams : n \in Table \ {i + 3}
  BY <1>2, Constants DEF Streams, stdout, stderr
<1>12. \A n \in Streams :
          ~Holds(t, WriteEnd(c, n)) => ~Holds(placed, WriteEnd(c, n))
  BY <1>8, <1>9 DEF Holds
<1>13. \A j \in 0 .. (i + 1) - 1 : placed[j + 3] = Socket(c, j)
  <2> SUFFICES ASSUME NEW j \in 0 .. (i + 1) - 1
               PROVE  placed[j + 3] = Socket(c, j)
    OBVIOUS
  <2>1. CASE j = i
    BY <2>1, <1>6
  <2>2. CASE j # i
    <3>1. j \in 0 .. i - 1 /\ j + 3 \in Table \ {i + 3}
      BY <1>1, <1>3, <2>2, Constants
    <3> QED  BY <1>2, <1>8, <1>9, <2>2, <3>1
  <2> QED  BY <2>1, <2>2
<1>14. OwnKeeps(c)
  <2>1. hungup' = hungup /\ closers' = closers /\ cause' = cause
    BY <1>1 DEF history
  <2>2. c \in hungup => c \in closers
    BY <1>1, ChildFacts
  <2>3. c \in closers => c \in hungup
    BY ChildFacts
  <2>4. c \notin hungup => \A n \in Streams : placed[n] = WriteEnd(c, n)
    BY <1>2, <1>8, <1>9, <1>11
  <2>5. i + 1 \in 0 .. Ports
    BY <1>1, <1>3
  <2>6. child[c].uid = 0 /\ child[c].gid = 0
    BY <1>1, ChildFacts
  <2> QED
    BY <1>2, <1>7, <1>12, <1>13, <2>1, <2>2, <2>3, <2>4, <2>5, <2>6 DEF OwnKeeps
<1> QED  BY <1>10, <1>14, ChildStepKeeps

\* The child itself, where a step changes neither its descriptors nor what
\* is known of its end.
SameEnds(c) ==
    /\ child'[c].files = child[c].files
    /\ child'[c].stray = child[c].stray
    /\ UNCHANGED <<hungup, closers, cause, left>>

(* A step within the start of a child, or of its program.                  *)
LEMMA QuietKeeps ==
    ASSUME IInv, NEW c \in Children, SameEnds(c), IsProcess(child'[c]),
           child[c].state \in {"connect", "limited", "exec", "running"},
           child'[c].state \in {"limited", "exec", "running"},
           child[c].connected = Ports, child'[c].connected = Ports,
           child'[c].state = "limited" =>
               child'[c].uid = 0 /\ child'[c].gid = 0,
           child'[c].state \in {"exec", "running"} =>
               /\ child'[c].uid = owner_get(c).uid
               /\ child'[c].gid = owner_get(c).gid,
           DOMAIN child' = Children,
           \A d \in Children \ {c} : child'[d] = child[d],
           UNCHANGED <<pollVars, files, requests, reported>>,
           lines' \in [Children \cup {Self} -> [Streams -> Nat]],
           \A d \in Children \ {c} : lines'[d] = lines[d]
    PROVE  IInv'
<1>1. /\ child[c].state \in Alive /\ child'[c].state \in Alive
      /\ c \notin hungup \ closers
  BY ChildFacts DEF Alive
<1>2. ChildKeeps(c)
  <2>1. DOMAIN cause = Children /\ left \in [Children -> [Streams -> Nat]]
    BY ChildFacts
  <2> QED  BY <1>1, <2>1 DEF ChildKeeps, SameEnds
<1>3. OwnKeeps(c)
  <2>1. Ports \in 0 .. Ports
    BY Constants
  <2> QED  BY <1>1, <2>1, ChildFacts DEF OwnKeeps, SameEnds
<1> QED  BY <1>2, <1>3, ChildStepKeeps

(* The limits are set: all sockets are connected by then.                  *)
LEMMA LimitedStep ==
    ASSUME IInv, NEW c \in Children, Limited(c)
    PROVE  IInv'
<1> DEFINE limits == rlimit(child[c].limits,
                            [i \in DOMAIN LimitsOf[c] |->
                                limit_format(LimitsOf[c][i])])
<1>1. /\ child[c].state = "connect" /\ child[c].connected = Ports
      /\ child' = [child EXCEPT ![c].state = "limited", ![c].limits = limits]
      /\ UNCHANGED <<pollVars, files, lines, requests, erlang, reported,
                     history>>
  BY DEF Limited
<1> HIDE DEF limits
<1>2. /\ DOMAIN child = Children /\ IsProcess(child[c])
      /\ lines \in [Children \cup {Self} -> [Streams -> Nat]]
      /\ child[c].uid = 0 /\ child[c].gid = 0
  BY <1>1, ChildFacts
<1>3. /\ IsProcess(child'[c]) /\ child'[c].state = "limited"
      /\ child'[c].stray = child[c].stray
      /\ child'[c].uid = 0 /\ child'[c].gid = 0
      /\ child'[c].connected = Ports /\ child'[c].files = child[c].files
      /\ DOMAIN child' = Children
      /\ \A d \in Children \ {c} : child'[d] = child[d]
  BY <1>1, <1>2 DEF IsProcess
<1> QED  BY <1>1, <1>2, <1>3, QuietKeeps DEF SameEnds, history

(* The ids that owner_get gives are numbers.                               *)
LEMMA OwnerGetIs ==
    ASSUME NEW c \in Children
    PROVE  owner_get(c).uid \in Nat /\ owner_get(c).gid \in Nat
<1>1. /\ UserOf[c] \in User /\ GroupOf[c] \in Group
      /\ IdModulus \in Nat \ {0}
  BY SpawnAssumption
<1>2. /\ UserOf[c].id \in Nat /\ UserOf[c].uid \in Nat
      /\ UserOf[c].gid \in Nat
      /\ GroupOf[c].id \in Nat /\ GroupOf[c].gid \in Nat
  BY <1>1 DEF User, Group
<1>3. UserOf[c].id % IdModulus \in Nat /\ GroupOf[c].id % IdModulus \in Nat
  BY <1>1, <1>2
<1> QED  BY <1>2, <1>3 DEF owner_get

(* The user and the group are set.                                         *)
LEMMA OwnerSetStep ==
    ASSUME IInv, NEW c \in Children, owner_set(c)
    PROVE  IInv'
<1>1. /\ child[c].state = "limited"
      /\ child' = [child EXCEPT ![c].state = "exec",
                                ![c].uid = IF owner_get(c).uid > 0
                                           THEN owner_get(c).uid ELSE @,
                                ![c].gid = IF owner_get(c).gid > 0
                                           THEN owner_get(c).gid ELSE @]
      /\ UNCHANGED <<pollVars, files, lines, requests, erlang, reported,
                     history>>
  BY DEF owner_set
<1>2. /\ DOMAIN child = Children /\ IsProcess(child[c])
      /\ lines \in [Children \cup {Self} -> [Streams -> Nat]]
      /\ child[c].connected = Ports
      /\ child[c].uid = 0 /\ child[c].gid = 0
      /\ owner_get(c).uid \in Nat /\ owner_get(c).gid \in Nat
  BY <1>1, ChildFacts, OwnerGetIs
<1>3. /\ IsProcess(child'[c]) /\ child'[c].state = "exec"
      /\ child'[c].stray = child[c].stray
      /\ child'[c].connected = Ports /\ child'[c].files = child[c].files
      /\ child'[c].uid = owner_get(c).uid /\ child'[c].gid = owner_get(c).gid
      /\ DOMAIN child' = Children
      /\ \A d \in Children \ {c} : child'[d] = child[d]
  BY <1>1, <1>2 DEF IsProcess
<1> QED  BY <1>1, <1>2, <1>3, QuietKeeps DEF SameEnds, history

(* The program runs.                                                       *)
LEMMA ExecveStep ==
    ASSUME IInv, NEW c \in Children, execve(c)
    PROVE  IInv'
<1>1. /\ child[c].state = "exec"
      /\ child' = [child EXCEPT ![c].state = "running"]
      /\ UNCHANGED <<pollVars, files, lines, requests, erlang, reported,
                     history>>
  BY DEF execve
<1>2. /\ DOMAIN child = Children /\ IsProcess(child[c])
      /\ lines \in [Children \cup {Self} -> [Streams -> Nat]]
      /\ child[c].connected = Ports
      /\ child[c].uid = owner_get(c).uid /\ child[c].gid = owner_get(c).gid
  BY <1>1, ChildFacts
<1>3. /\ IsProcess(child'[c]) /\ child'[c].state = "running"
      /\ child'[c].stray = child[c].stray
      /\ child'[c].connected = Ports /\ child'[c].files = child[c].files
      /\ child'[c].uid = child[c].uid /\ child'[c].gid = child[c].gid
      /\ DOMAIN child' = Children
      /\ \A d \in Children \ {c} : child'[d] = child[d]
  BY <1>1, <1>2 DEF IsProcess
<1> QED  BY <1>1, <1>2, <1>3, QuietKeeps DEF SameEnds, history

(* The program prints a line.                                              *)
LEMMA WriteStep ==
    ASSUME IInv, NEW c \in Children, NEW n \in Streams, Write(c, n)
    PROVE  IInv'
<1>1. /\ child[c].state = "running" /\ child' = child
      /\ lines' = [lines EXCEPT ![c][n] = @ + 1]
      /\ UNCHANGED <<pollVars, files, requests, erlang, reported, history>>
  BY DEF Write
<1>2. /\ DOMAIN child = Children /\ IsProcess(child[c])
      /\ lines \in [Children \cup {Self} -> [Streams -> Nat]]
      /\ child[c].connected = Ports
      /\ child[c].uid = owner_get(c).uid /\ child[c].gid = owner_get(c).gid
  BY <1>1, ChildFacts
<1>3. /\ lines' \in [Children \cup {Self} -> [Streams -> Nat]]
      /\ \A d \in Children \ {c} : lines'[d] = lines[d]
  <2>1. lines[c] \in [Streams -> Nat] /\ lines[c][n] + 1 \in Nat
    BY <1>2
  <2>2. [lines[c] EXCEPT ![n] = @ + 1] \in [Streams -> Nat]
    BY <2>1
  <2> QED  BY <1>1, <1>2, <2>2
<1> QED  BY <1>1, <1>2, <1>3, QuietKeeps DEF SameEnds, history

(* A child that closes one of its streams holds the write end no more.     *)
LEMMA ClosedEnd ==
    ASSUME NEW c \in Children, NEW n \in Streams, NEW t \in FileTables
    PROVE  /\ Closed(t, {WriteEnd(c, n)}) \in FileTables
           /\ ~Holds(Closed(t, {WriteEnd(c, n)}), WriteEnd(c, n))
           /\ \A k \in Table :
                 Closed(t, {WriteEnd(c, n)})[k] \in {Free, t[k]}
           /\ \A k \in Table : \A i \in Nat :
                 t[k] = Socket(c, i) =>
                     Closed(t, {WriteEnd(c, n)})[k] = Socket(c, i)
<1>1. /\ Closed(t, {WriteEnd(c, n)}) \in FileTables
      /\ \A k \in Table : Closed(t, {WriteEnd(c, n)})[k] =
                              IF t[k] = WriteEnd(c, n) THEN Free ELSE t[k]
  BY ClosedIs
<1>2. Free # WriteEnd(c, n) /\ \A i : WriteEnd(c, n) # Socket(c, i)
  BY FileParts
<1> QED  BY <1>1, <1>2 DEF Holds

(* The program closes a stream.                                            *)
LEMMA CloseStreamStep ==
    ASSUME IInv, NEW c \in Children, NEW n \in Streams, CloseStream(c, n)
    PROVE  IInv'
<1> DEFINE t == Closed(child[c].files, {WriteEnd(c, n)})
<1>1. /\ child[c].state = "running"
      /\ child' = [child EXCEPT ![c].files = t]
      /\ hungup' = hungup \cup {c} /\ closers' = closers \cup {c}
      /\ UNCHANGED <<pollVars, files, lines, requests, erlang, reported, cause,
                     left>>
  BY DEF CloseStream
<1>2. /\ DOMAIN child = Children /\ IsProcess(child[c])
      /\ child[c].files \in FileTables
      /\ lines \in [Children \cup {Self} -> [Streams -> Nat]]
      /\ left \in [Children -> [Streams -> Nat]]
      /\ DOMAIN cause = Children /\ cause[c] = "none"
      /\ child[c].connected = Ports
      /\ \A i \in 0 .. Ports - 1 : child[c].files[i + 3] = Socket(c, i)
      /\ child[c].uid = owner_get(c).uid /\ child[c].gid = owner_get(c).gid
  BY <1>1, ChildFacts
<1>3. /\ t \in FileTables /\ ~Holds(t, WriteEnd(c, n))
      /\ \A k \in Table : t[k] \in {Free, child[c].files[k]}
      /\ \A k \in Table : \A i \in Nat :
            child[c].files[k] = Socket(c, i) => t[k] = Socket(c, i)
  BY <1>2, ClosedEnd
<1> HIDE DEF t
<1>4. /\ IsProcess(child'[c]) /\ child'[c].state = "running"
      /\ child'[c].stray = child[c].stray
      /\ child'[c].connected = Ports /\ child'[c].files = t
      /\ child'[c].uid = child[c].uid /\ child'[c].gid = child[c].gid
      /\ DOMAIN child' = Children
      /\ \A d \in Children \ {c} : child'[d] = child[d]
  BY <1>1, <1>2, <1>3 DEF IsProcess
<1>5. ChildKeeps(c)
  <2>1. "running" \in Alive
    BY DEF Alive
  <2> QED  BY <1>1, <1>2, <1>3, <1>4, <2>1 DEF ChildKeeps
<1>6. OwnKeeps(c)
  <2>1. Ports \in 0 .. Ports /\ \A i \in 0 .. Ports - 1 : i \in Nat /\ i + 3 \in Table
    BY Constants
  <2>2. \A i \in 0 .. Ports - 1 : t[i + 3] = Socket(c, i)
    BY <1>2, <1>3, <2>1
  <2> QED  BY <1>1, <1>2, <1>3, <1>4, <2>1, <2>2 DEF OwnKeeps
<1> QED  BY <1>5, <1>6, ChildStepKeeps

(* The status of a step that fails is printed as the step.                 *)
LEMMA StatusReports ==
    ASSUME NEW step \in {"dup", "close", "encode", "socket", "connect",
                         "write", "input", "exec"},
           NEW status \in StatusOf(step) \cap Statuses
    PROVE  status \in 1 .. 255 /\ string(status) = step
<1>1. status \in 1 .. 255
  <2>1. Statuses \subseteq 1 .. 255
    BY SpawnAssumption, Zenon
  <2> QED  BY <2>1
<1>2. /\ StatusOf("input") = {11} /\ StatusOf("socket") = 21 .. 29
      /\ StatusOf("dup") = 30 .. 35 /\ StatusOf("close") = 36 .. 39
      /\ StatusOf("connect") = 44 .. 59 /\ StatusOf("exec") = 60 .. 77
      /\ StatusOf("write") = 91 .. 102 /\ StatusOf("encode") = {103}
  BY DEF StatusOf, invalid_input, errno_socket, errno_dup, errno_close,
         errno_connect, errno_exec, errno_write, ei_encode_error
<1> USE DEF string, invalid_input, errno_pipe, errno_fork, errno_socket,
        errno_dup, errno_close, errno_connect, errno_exec, errno_write,
        ei_encode_error, ExitStatus, signals
<1>3. string(11) = "input" /\ string(103) = "encode"
  OBVIOUS
<1>4. \A s \in 21 .. 29 : string(s) = "socket"
  OBVIOUS
<1>5. \A s \in 30 .. 35 : string(s) = "dup"
  OBVIOUS
<1>6. \A s \in 36 .. 39 : string(s) = "close"
  OBVIOUS
<1>7. \A s \in 44 .. 59 : string(s) = "connect"
  OBVIOUS
<1>8. \A s \in 60 .. 77 : string(s) = "exec"
  OBVIOUS
<1>9. \A s \in 91 .. 102 : string(s) = "write"
  OBVIOUS
<1> HIDE DEF string
<1> QED  BY <1>1, <1>2, <1>3, <1>4, <1>5, <1>6, <1>7, <1>8, <1>9

(* A child that is about to end: its stdout is closed and its status set.  *)
LEMMA ExitingKeeps ==
    ASSUME IInv, NEW c \in Children, NEW status, Exiting(c, status),
           child[c].state \in {"connect", "limited", "exec", "running"},
           UNCHANGED <<pollVars, files, requests, reported, closers>>,
           lines' \in [Children \cup {Self} -> [Streams -> Nat]],
           \A d \in Children \ {c} : lines'[d] = lines[d],
           DOMAIN cause' = Children,
           \A d \in Children \ {c} : cause'[d] = cause[d],
           cause'[c] # "none" =>
               status \in 1 .. 255 /\ string(status) = cause'[c]
    PROVE  IInv'
<1> DEFINE t == Closed(child[c].files, {WriteEnd(c, stdout)})
<1>1. /\ child' = [child EXCEPT ![c].state = "exiting", ![c].status = status,
                                ![c].files = t]
      /\ hungup' = hungup \cup {c}
      /\ left' = [left EXCEPT ![c] = lines'[c]]
  BY DEF Exiting
<1>2. /\ DOMAIN child = Children /\ IsProcess(child[c])
      /\ child[c].files \in FileTables /\ child[c].connected \in 0 .. Ports
      /\ left \in [Children -> [Streams -> Nat]]
  BY ChildFacts
<1>3. /\ t \in FileTables /\ ~Holds(t, WriteEnd(c, stdout))
      /\ \A k \in Table : t[k] \in {Free, child[c].files[k]}
  BY <1>2, ClosedEnd DEF Streams
<1> HIDE DEF t
<1>4. /\ IsProcess(child'[c]) /\ child'[c].state = "exiting"
      /\ child'[c].status = status /\ child'[c].stray = child[c].stray
      /\ child'[c].connected = child[c].connected /\ child'[c].files = t
      /\ DOMAIN child' = Children
      /\ \A d \in Children \ {c} : child'[d] = child[d]
  BY <1>1, <1>2, <1>3 DEF IsProcess
<1>a. /\ left' \in [Children -> [Streams -> Nat]]
      /\ \A d \in Children \ {c} : left'[d] = left[d]
      /\ \A n \in Streams : lines'[c][n] <= left'[c][n]
  <2>1. lines'[c] \in [Streams -> Nat]
    OBVIOUS
  <2>2. left'[c] = lines'[c]
    BY <1>1, <1>2
  <2>3. \A n \in Streams : lines'[c][n] <= lines'[c][n]
    BY <2>1
  <2> QED  BY <1>1, <1>2, <2>1, <2>2, <2>3
<1>5. ChildKeeps(c)
  <2>1. child[c].state \in Alive /\ "exiting" \in Alive
    BY DEF Alive
  <2>2. c \notin hungup \ closers
    BY ChildFacts
  <2> QED  BY <1>1, <1>3, <1>4, <1>a, <2>1, <2>2 DEF ChildKeeps
<1>6. OwnKeeps(c)
  <2>1. c \in hungup' /\ stdout \in Streams
    BY <1>1 DEF Streams
  <2> QED  BY <1>2, <1>3, <1>4, <1>a, <2>1 DEF OwnKeeps
<1> QED  BY <1>5, <1>6, ChildStepKeeps

(* A step of the start fails.                                              *)
LEMMA SetUpFailsStep ==
    ASSUME IInv, NEW c \in Children, SetUpFails(c)
    PROVE  IInv'
<1>1. PICK step \in StepsIn(c) :
         /\ \E status \in StatusOf(step) \cap Statuses : Exiting(c, status)
         /\ cause' = [cause EXCEPT ![c] = step]
         /\ lines' \in {lines} \cup
               (IF step = "input" /\ lines[c][stderr] < MaxLines[c][stderr]
                THEN {[lines EXCEPT ![c][stderr] = @ + 1]} ELSE {})
         /\ UNCHANGED <<pollVars, files, requests, erlang, reported, closers>>
  BY DEF SetUpFails
<1>2. PICK status \in StatusOf(step) \cap Statuses : Exiting(c, status)
  BY <1>1
<1>3. /\ step \in {"dup", "close", "encode", "socket", "connect", "write",
                   "input", "exec"}
      /\ child[c].state \in {"connect", "limited", "exec", "running"}
  BY DEF StepsIn
<1>4. status \in 1 .. 255 /\ string(status) = step
  BY <1>3, StatusReports
<1>5. /\ lines \in [Children \cup {Self} -> [Streams -> Nat]]
      /\ DOMAIN cause = Children
  BY ChildFacts
<1>6. /\ lines' \in [Children \cup {Self} -> [Streams -> Nat]]
      /\ \A d \in Children \ {c} : lines'[d] = lines[d]
  <2>1. lines[c] \in [Streams -> Nat] /\ stderr \in Streams
    BY <1>5 DEF Streams
  <2>2. [lines[c] EXCEPT ![stderr] = @ + 1] \in [Streams -> Nat]
    BY <2>1
  <2> QED  BY <1>1, <1>5, <2>2
<1>7. /\ DOMAIN cause' = Children /\ cause'[c] = step
      /\ \A d \in Children \ {c} : cause'[d] = cause[d]
  BY <1>1, <1>3, <1>5
<1> QED  BY <1>1, <1>2, <1>3, <1>4, <1>6, <1>7, ExitingKeeps

(* The program exits or is killed.                                         *)
LEMMA ExitStep ==
    ASSUME IInv, NEW c \in Children, NEW status \in Exits, Exit(c, status)
    PROVE  IInv'
<1>1. /\ child[c].state = "running" /\ Exiting(c, status)
      /\ UNCHANGED <<pollVars, files, lines, requests, erlang, reported, cause,
                     closers>>
  BY DEF Exit
<1>2. /\ lines \in [Children \cup {Self} -> [Streams -> Nat]]
      /\ DOMAIN cause = Children /\ cause[c] = "none"
  BY <1>1, ChildFacts
<1> QED  BY <1>1, <1>2, ExitingKeeps

(* The rest of its descriptors is closed.                                  *)
LEMMA ExitedStep ==
    ASSUME IInv, NEW c \in Children, Exited(c)
    PROVE  IInv'
<1> DEFINE t == [k \in Table |-> Free]
<1>1. /\ child[c].state = "exiting"
      /\ child' = [child EXCEPT ![c].state = "zombie", ![c].files = t]
      /\ UNCHANGED <<pollVars, files, lines, requests, erlang, reported,
                     history>>
  BY DEF Exited
<1>2. /\ DOMAIN child = Children /\ IsProcess(child[c])
      /\ child[c].connected \in 0 .. Ports
      /\ lines \in [Children \cup {Self} -> [Streams -> Nat]]
      /\ left \in [Children -> [Streams -> Nat]]
      /\ DOMAIN cause = Children
      /\ c \in closers => c \in hungup
      /\ c \in hungup \ closers =>
            \A n \in Streams : lines[c][n] <= left[c][n]
      /\ cause[c] # "none" => /\ child[c].status \in 1 .. 255
                              /\ string(child[c].status) = cause[c]
  BY <1>1, ChildFacts
<1>3. c \in hungup
  BY <1>1, ChildFacts
<1>4. t \in FileTables /\ \A k \in Table : t[k] = Free
  BY Files DEF FileTables
<1>5. \A n : WriteEnd(c, n) # Free
  BY FileParts
<1> HIDE DEF t
<1>6. /\ IsProcess(child'[c]) /\ child'[c].state = "zombie"
      /\ child'[c].status = child[c].status /\ child'[c].stray = child[c].stray
      /\ child'[c].connected = child[c].connected /\ child'[c].files = t
      /\ DOMAIN child' = Children
      /\ \A d \in Children \ {c} : child'[d] = child[d]
  BY <1>1, <1>2, <1>4 DEF IsProcess
<1>7. ChildKeeps(c)
  <2>1. "exiting" \in Alive /\ "zombie" \in Alive
    BY DEF Alive
  <2> QED  BY <1>1, <1>2, <1>4, <1>6, <2>1 DEF ChildKeeps, history
<1>8. OwnKeeps(c)
  <2>1. stdout \in Streams /\ ~Holds(t, WriteEnd(c, stdout))
    BY <1>4, <1>5 DEF Streams, Holds
  <2> QED  BY <1>1, <1>2, <1>3, <1>6, <2>1 DEF OwnKeeps, history
<1> QED  BY <1>7, <1>8, ChildStepKeeps

-----------------------------------------------------------------------------
(* Steps of the main loop                                                  *)

(* A new entry of the poll array.                                          *)
LEMMA EntryIs ==
    /\ \A k \in Table : Entry(k) \in PollEntry
    /\ \A k : Entry(k).fd = k /\ Entry(k).revents = {}
BY DEF Entry, PollEntry

(* A stream of os_spawn becomes a pipe to itself.                          *)
LEMMA StoreStandard ==
    ASSUME NEW t \in FileTables, NEW n \in Streams, NEW m \in Nat,
           Room(t, m + 2), t[n] # Free,
           ~Holds(t, ReadEnd(Self, n)), ~Holds(t, WriteEnd(Self, n))
    PROVE  LET u == store_standard_fd(t, n)
           IN  /\ u \in FileTables /\ Room(u, m + 1)
               /\ u[n] = WriteEnd(Self, n)
               /\ Holds(u, ReadEnd(Self, n)) /\ Once(u, ReadEnd(Self, n))
               /\ \A k \in Table \ {n} :
                     \/ u[k] = t[k]
                     \/ t[k] = Free /\ u[k] = ReadEnd(Self, n)
<1> DEFINE r == ReadEnd(Self, n)
           w == WriteEnd(Self, n)
           p == pipe(t, Self, n)
           u == Moved(p, w, n)
           free(v) == {k \in Table : v[k] = Free}
<1>1. n \in Nat /\ n \in Table /\ w \in FileSet /\ r # w /\ r # Free /\ w # Free
  <2>1. n \in Nat /\ n \in Table
    BY Constants DEF Streams, stdout, stderr
  <2> QED  BY <2>1, Files, FileParts
<1>2. /\ p \in FileTables /\ Room(p, m) /\ Holds(p, r) /\ Holds(p, w)
      /\ \A k \in Table : p[k] = t[k] \/ (t[k] = Free /\ p[k] \in {r, w})
      /\ Once(p, r)
  <2>1. Self \in Children \cup {Self}
    OBVIOUS
  <2>2. /\ p \in FileTables /\ Room(p, m) /\ Holds(p, r) /\ Holds(p, w)
        /\ Once(p, r)
    BY <1>1, <2>1, PipeIs
  <2>3. \A k \in Table : p[k] = t[k] \/ (t[k] = Free /\ p[k] \in {r, w})
    BY <1>1, <2>1, PipeIs
  <2> QED  BY <2>2, <2>3
<1> HIDE DEF p, r, w
<1>3. /\ u \in FileTables /\ u[n] = w
      /\ \A k \in Table \ {n} : u[k] = IF p[k] = w THEN Free ELSE p[k]
  BY <1>1, <1>2, MovedIs
<1> HIDE DEF u
<1>4. /\ p[n] = t[n] /\ t[n] # w /\ t[n] # r
      /\ \A k \in Table : t[k] # w /\ t[k] # r
  BY <1>1, <1>2 DEF Holds, w, r
<1>5. Holds(u, r) /\ Once(u, r)
  <2>1. \A k \in Table : u[k] = r <=> p[k] = r
    BY <1>1, <1>3, <1>4
  <2> QED  BY <1>2, <2>1 DEF Holds, Once
<1>6. \A k \in Table \ {n} : u[k] = t[k] \/ (t[k] = Free /\ u[k] = r)
  BY <1>1, <1>2, <1>3, <1>4
<1>7. Room(u, m + 1)
  <2>1. PICK k \in Table : p[k] = w
    BY <1>2 DEF Holds
  <2>2. k # n /\ u[k] = Free /\ k \notin free(p)
    BY <1>1, <1>3, <1>4, <2>1
  <2>3. free(p) \cup {k} \in SUBSET free(u)
    BY <1>1, <1>3, <1>4, <2>1, <2>2
  <2>4. /\ Cardinality(free(p)) \in Nat /\ Cardinality(free(u)) \in Nat
        /\ IsFiniteSet(free(p)) /\ IsFiniteSet(free(u))
    BY FreeFinite
  <2>5. Cardinality(free(p) \cup {k}) = Cardinality(free(p)) + 1
    BY <2>2, <2>4, FS_AddElement
  <2>6. Cardinality(free(p) \cup {k}) <= Cardinality(free(u))
    BY <2>3, <2>4, FS_Subset
  <2>7. Cardinality(free(p)) >= m
    BY <1>2 DEF Room
  <2>8. Cardinality(free(u)) >= m + 1
    BY <2>4, <2>5, <2>6, <2>7
  <2> QED  BY <2>8 DEF Room
<1> QED  BY <1>3, <1>5, <1>6, <1>7 DEF store_standard_fd, u, p, r, w

(* What GEPD::init makes of the descriptors.                               *)
LEMMA InitFiles ==
    ASSUME IInv, pc = "init", Room(files, 3)
    PROVE  LET u == store_standard_fd(store_standard_fd(files, 1), 2)
           IN  /\ u \in FileTables
               /\ \A n \in Streams : /\ u[n] = WriteEnd(Self, n)
                                     /\ Holds(u, ReadEnd(Self, n))
                                     /\ Once(u, ReadEnd(Self, n))
               /\ \A k \in Table \ Streams :
                     \/ u[k] = files[k]
                     \/ /\ files[k] = Free
                        /\ \E n \in Streams : u[k] = ReadEnd(Self, n)
<1> DEFINE t == store_standard_fd(files, 1)
           u == store_standard_fd(t, 2)
<1>1. /\ files \in FileTables /\ files[1] # Free /\ files[2] # Free
      /\ \A k \in Table : files[k].kind \notin {"read", "write"}
  BY DEF IInv, Shape, Descriptors, Abandoned, Streams, stdout, stderr
<1>2. \A n : ~Holds(files, ReadEnd(Self, n)) /\ ~Holds(files, WriteEnd(Self, n))
  BY <1>1, FileParts DEF Holds
<1>3. 1 \in Table /\ 2 \in Table /\ 1 \in Streams /\ 2 \in Streams
  BY Constants DEF Streams, stdout, stderr
<1>4. Room(files, 1 + 2)
  OBVIOUS
<1>5. /\ t \in FileTables /\ Room(t, 1 + 1) /\ t[1] = WriteEnd(Self, 1)
      /\ Holds(t, ReadEnd(Self, 1)) /\ Once(t, ReadEnd(Self, 1))
      /\ \A k \in Table \ {1} :
            \/ t[k] = files[k]
            \/ files[k] = Free /\ t[k] = ReadEnd(Self, 1)
  BY <1>1, <1>2, <1>3, <1>4, StoreStandard
<1> HIDE DEF t
<1>6. /\ ReadEnd(Self, 1) \notin {ReadEnd(Self, 2), WriteEnd(Self, 2), Free,
                                  WriteEnd(Self, 1)}
      /\ ReadEnd(Self, 2) \notin {ReadEnd(Self, 1), WriteEnd(Self, 1), Free,
                                  WriteEnd(Self, 2)}
      /\ WriteEnd(Self, 2) \notin {ReadEnd(Self, 1), WriteEnd(Self, 1)}
      /\ WriteEnd(Self, 1) # Free
  BY FileParts
<1>7. /\ Room(t, 0 + 2) /\ t[2] # Free
      /\ ~Holds(t, ReadEnd(Self, 2)) /\ ~Holds(t, WriteEnd(Self, 2))
  BY <1>1, <1>2, <1>3, <1>5, <1>6 DEF Holds
<1>8. /\ u \in FileTables /\ u[2] = WriteEnd(Self, 2)
      /\ Holds(u, ReadEnd(Self, 2)) /\ Once(u, ReadEnd(Self, 2))
      /\ \A k \in Table \ {2} :
            \/ u[k] = t[k]
            \/ t[k] = Free /\ u[k] = ReadEnd(Self, 2)
  BY <1>3, <1>5, <1>7, StoreStandard
<1> HIDE DEF u
<1>9. u[1] = WriteEnd(Self, 1)
  BY <1>3, <1>5, <1>6, <1>8
<1>10. \A k \in Table : u[k] = ReadEnd(Self, 1) <=> t[k] = ReadEnd(Self, 1)
  BY <1>1, <1>2, <1>3, <1>5, <1>6, <1>8 DEF Holds
<1>11. Holds(u, ReadEnd(Self, 1)) /\ Once(u, ReadEnd(Self, 1))
  BY <1>5, <1>10 DEF Holds, Once
<1>12. \A k \in Table \ {1, 2} :
          \/ u[k] = files[k]
          \/ files[k] = Free /\ \E n \in {1, 2} : u[k] = ReadEnd(Self, n)
  BY <1>5, <1>6, <1>8
<1> QED
  BY <1>8, <1>9, <1>11, <1>12 DEF Streams, stdout, stderr, t, u

(* GEPD::init keeps the invariant.                                         *)
LEMMA InitStep ==
    ASSUME IInv, init
    PROVE  IInv'
<1> DEFINE u == store_standard_fd(store_standard_fd(files, 1), 2)
<1>a. /\ pc = "init" /\ files' = u /\ nfds' = 3 /\ pc' = "poll"
      /\ fds' = [fds EXCEPT
                    ![1] = Entry(Descriptor(u, ReadEnd(Self, stdout))),
                    ![2] = Entry(Descriptor(u, ReadEnd(Self, stderr))),
                    ![3] = Entry(PORT_READ_FILE_DESCRIPTOR)]
      /\ Room(files, 3)
      /\ UNCHANGED <<processes, count, itr, ending, child, lines, requests,
                     erlang, reported, history>>
  BY DEF init, INDEX_STDOUT, INDEX_STDERR, INDEX_ERLANG
<1>b. /\ u \in FileTables
      /\ \A n \in Streams : /\ u[n] = WriteEnd(Self, n)
                            /\ Holds(u, ReadEnd(Self, n))
                            /\ Once(u, ReadEnd(Self, n))
      /\ \A k \in Table \ Streams :
            \/ u[k] = files[k]
            \/ files[k] = Free /\ \E n \in Streams : u[k] = ReadEnd(Self, n)
  BY <1>a, InitFiles
<1> HIDE DEF u
<1>c. \A n \in Streams : /\ Descriptor(u, ReadEnd(Self, n)) \in Table
                         /\ u[Descriptor(u, ReadEnd(Self, n))] = ReadEnd(Self, n)
  BY <1>b, DescriptorIs
<1>d. /\ IInv /\ MaxPollFds \in Nat /\ MaxPollFds >= 3 /\ 3 \in Table
      /\ Streams = {1, 2} /\ Streams \subseteq Table
      /\ stdout = 1 /\ stderr = 2
      /\ processes = <<>> /\ Len(processes) = 0
  BY <1>a, Constants DEF IInv, Vector, Streams, stdout, stderr
<1>e. /\ fds' \in [1 .. MaxPollFds -> PollEntry]
      /\ fds'[1].fd = Descriptor(u, ReadEnd(Self, 1))
      /\ fds'[2].fd = Descriptor(u, ReadEnd(Self, 2))
      /\ fds'[3].fd = 3
  <2>1. /\ Entry(Descriptor(u, ReadEnd(Self, 1))) \in PollEntry
        /\ Entry(Descriptor(u, ReadEnd(Self, 2))) \in PollEntry
        /\ Entry(3) \in PollEntry
    BY <1>c, <1>d, EntryIs
  <2>2. fds \in [1 .. MaxPollFds -> PollEntry]
    BY <1>d DEF IInv, Shape
  <2>3. fds' = [fds EXCEPT ![1] = Entry(Descriptor(u, ReadEnd(Self, 1))),
                           ![2] = Entry(Descriptor(u, ReadEnd(Self, 2))),
                           ![3] = Entry(3)]
    BY <1>a, <1>d DEF PORT_READ_FILE_DESCRIPTOR
  <2>4. /\ fds' \in [1 .. MaxPollFds -> PollEntry]
        /\ fds'[1] = Entry(Descriptor(u, ReadEnd(Self, 1)))
        /\ fds'[2] = Entry(Descriptor(u, ReadEnd(Self, 2)))
        /\ fds'[3] = Entry(3)
    BY <1>d, <2>1, <2>2, <2>3
  <2> QED  BY <2>4, EntryIs
<1>1. Shape'
  BY <1>a, <1>d, <1>b, <1>e DEF IInv, Shape, ending, history
<1>2. Vector'
  BY <1>a, <1>d DEF IInv, Vector, ending, history
<1>3. Counters'
  BY <1>a, <1>d DEF IInv, Counters, ending, history
<1>4. Counted'
  BY <1>a, <1>d DEF IInv, Counted, Ready, ending, history
<1>5. Descriptors'
  <2>1. Descriptors
    BY <1>d DEF IInv
  <2>2. \A k \in Table : files[k].kind \notin {"read", "write"}
    BY <1>a, <2>1 DEF Descriptors, Abandoned
  <2>3. /\ files'[3] = PortRead
        /\ \A k \in Table : files'[k] = PortRead => k = 3
    BY <1>a, <1>b, <1>d, <2>1, FileParts
       DEF Descriptors, Abandoned, PORT_READ_FILE_DESCRIPTOR
  <2>4. \A k \in Table : files'[k].kind = "read" =>
           \E n \in Streams : files'[k] = ReadEnd(Self, n)
    BY <1>a, <1>b, <2>2, FileParts
  <2>5. \A k \in Table : \A x \in Children \cup {Self}, n \in Streams :
           files'[k] = WriteEnd(x, n) => x = Self /\ k = n
    BY <1>a, <1>b, <2>2, FileParts
  <2>6. \A k \in Table : files'[k].kind = "read" =>
           k \in {fds'[i].fd : i \in 1 .. 3}
    <3> SUFFICES ASSUME NEW k \in Table, NEW n \in Streams,
                        files'[k] = ReadEnd(Self, n)
                 PROVE  k \in {fds'[i].fd : i \in 1 .. 3}
      BY <2>4
    <3>1. k = Descriptor(u, ReadEnd(Self, n))
      BY <1>a, <1>b, <1>c DEF Once
    <3>2. fds'[n].fd = k /\ n \in 1 .. 3
      BY <1>d, <1>e, <3>1
    <3> QED  BY <3>2
  <2>7. \A d \in Children : \A n \in Streams :
           /\ ~Holds(files', WriteEnd(d, n))
           /\ ~Holds(files', ReadEnd(d, n))
    <3> SUFFICES ASSUME NEW d \in Children, NEW n \in Streams, NEW k \in Table,
                        files'[k] \in {ReadEnd(d, n), WriteEnd(d, n)}
                 PROVE  FALSE
      BY DEF Holds
    <3>1. d # Self
      BY SpawnAssumption
    <3>2. \A m : ReadEnd(Self, m) # ReadEnd(d, n)
      BY <3>1, FileParts
    <3> QED  BY <2>4, <2>5, <3>1, <3>2, FileParts
  <2> QED
    BY <1>a, <1>d, <1>e, <2>3, <2>5, <2>6, <2>7
       DEF Descriptors, Abandoned, INDEX_ERLANG, PORT_READ_FILE_DESCRIPTOR
<1>6. Ends'
  BY <1>a, <1>d DEF IInv, Ends, NothingInherited, Abandoned, ending, history
<1>7. HangUps'
  BY <1>a, <1>d DEF IInv, HangUps, KilledForAReason, ending, history
<1>8. Seen'
  BY <1>a, <1>d DEF IInv, Seen, ending, history
<1>9. Causes'
  BY <1>a, <1>d DEF IInv, Causes, ending, history
<1>10. Configured'
  BY <1>a, <1>d DEF IInv, Configured, owner_get, ending, history
<1>11. Result'
  BY <1>a, <1>d DEF IInv, Result, NobodyLeft, ending, history
<1>12. OutputDelivered'
  BY <1>a, <1>d DEF IInv, OutputDelivered, ending, history
<1> QED
  BY <1>1, <1>2, <1>3, <1>4, <1>5, <1>6, <1>7, <1>8, <1>9,
     <1>10, <1>11, <1>12 DEF IInv

(* What poll finds for the port and for a pipe.                            *)
LEMMA ReventsIs ==
    /\ \A f : Revents(f) \in SUBSET {"IN", "HUP"}
    /\ "IN" \in Revents(PortRead) => requests > 0
    /\ \A x, n : "IN" \in Revents(ReadEnd(x, n)) <=> lines[x][n] > 0
    /\ \A x, n : "HUP" \in Revents(ReadEnd(x, n)) <=>
          /\ ~Holds(files, WriteEnd(x, n))
          /\ \A c \in Children : ~Holds(child[c].files, WriteEnd(x, n))
<1>1. ASSUME NEW f PROVE Revents(f) \in SUBSET {"IN", "HUP"}
  <2>1. CASE f = PortRead
    BY <2>1 DEF Revents
  <2>2. CASE f # PortRead /\ f.kind = "read"
    BY <2>2 DEF Revents
  <2>3. CASE f # PortRead /\ f.kind # "read"
    BY <2>3 DEF Revents
  <2> QED  BY <2>1, <2>2, <2>3
<1>2. "IN" \in Revents(PortRead) => requests > 0
  <2>1. PortRead.kind # "read"
    BY FileParts
  <2> QED  BY <2>1 DEF Revents
<1>3. ASSUME NEW x, NEW n
      PROVE  Revents(ReadEnd(x, n)) =
                 (IF lines[x][n] > 0 THEN {"IN"} ELSE {}) \cup
                 (IF \/ Holds(files, WriteEnd(x, n))
                     \/ \E c \in Children :
                           Holds(child[c].files, WriteEnd(x, n))
                  THEN {} ELSE {"HUP"})
  <2>1. /\ ReadEnd(x, n) # PortRead /\ ReadEnd(x, n).kind = "read"
        /\ ReadEnd(x, n).owner = x /\ ReadEnd(x, n).n = n
    BY FileParts
  <2> QED  BY <2>1 DEF Revents
<1> QED  BY <1>1, <1>2, <1>3

(* The entries of the poll array that are in use.                          *)
LEMMA Places ==
    ASSUME IInv, pc \in {"poll", "erlang", "own", "check"}
    PROVE  /\ Len(processes) \in Nat
           /\ nfds = 3 + 2 * Len(processes) /\ nfds \in Nat /\ nfds >= 3
           /\ nfds <= MaxPollFds /\ MaxPollFds \in Nat
           /\ fds \in [1 .. MaxPollFds -> PollEntry]
           /\ \A i \in 1 .. MaxPollFds :
                 /\ fds[i] \in PollEntry /\ fds[i].fd \in Table
                 /\ fds[i].revents \in SUBSET {"IN", "HUP"}
           /\ \A k \in 1 .. Len(processes) : \A n \in Streams :
                 /\ 2 * k + 1 + n \in 4 .. nfds
                 /\ files[fds[2 * k + 1 + n].fd] = ReadEnd(processes[k].pid, n)
<1>1. Vector /\ Shape /\ Descriptors
  BY DEF IInv
<1>2. /\ Len(processes) \in Nat /\ Len(processes) <= Cardinality(Children)
      /\ Cardinality(Children) \in Nat
  BY <1>1, VectorSize, Constants
<1>3. nfds = 3 + 2 * Len(processes)
  BY <1>1 DEF Vector
<1>4. nfds \in Nat /\ nfds >= 3 /\ nfds <= MaxPollFds /\ MaxPollFds \in Nat
  BY <1>2, <1>3 DEF MaxPollFds
<1>5. /\ fds \in [1 .. MaxPollFds -> PollEntry]
      /\ \A i \in 1 .. MaxPollFds :
            /\ fds[i] \in PollEntry /\ fds[i].fd \in Table
            /\ fds[i].revents \in SUBSET {"IN", "HUP"}
  BY <1>1 DEF Shape, PollEntry
<1>6. ASSUME NEW k \in 1 .. Len(processes), NEW n \in Streams
      PROVE  /\ 2 * k + 1 + n \in 4 .. nfds
             /\ files[fds[2 * k + 1 + n].fd] = ReadEnd(processes[k].pid, n)
  <2>1. CASE n = 1
    <3>1. 2 * k + 1 + n = 2 + 2 * k
      BY <1>2, <2>1
    <3> QED  BY <1>1, <1>2, <1>3, <2>1, <3>1 DEF Descriptors, Abandoned, stdout
  <2>2. CASE n = 2
    <3>1. 2 * k + 1 + n = 3 + 2 * k
      BY <1>2, <2>2
    <3> QED  BY <1>1, <1>2, <1>3, <2>2, <3>1 DEF Descriptors, Abandoned, stderr
  <2> QED  BY <2>1, <2>2 DEF Streams, stdout, stderr
<1> QED  BY <1>2, <1>3, <1>4, <1>5, <1>6

(* poll keeps the invariant: what it finds is true when it returns.        *)
LEMMA PollStep ==
    ASSUME IInv, Poll
    PROVE  IInv'
<1> DEFINE polled == [i \in 1 .. MaxPollFds |->
                         IF i <= nfds
                         THEN [fds[i] EXCEPT
                                 !.revents = Revents(files[fds[i].fd])]
                         ELSE fds[i]]
           ready == {i \in 1 .. nfds : polled[i].revents # {}}
<1>a. /\ pc = "poll" /\ fds' = polled /\ count' = Cardinality(ready)
      /\ pc' = "erlang"
      /\ UNCHANGED <<ending, nfds, processes, itr, files, child, lines,
                     requests, erlang, reported, history>>
  BY DEF Poll
<1>b. /\ nfds = 3 + 2 * Len(processes) /\ nfds \in Nat /\ nfds >= 3
      /\ nfds <= MaxPollFds /\ MaxPollFds \in Nat /\ Len(processes) \in Nat
      /\ \A i \in 1 .. MaxPollFds : fds[i] \in PollEntry
      /\ \A k \in 1 .. Len(processes) : \A n \in Streams :
            /\ 2 * k + 1 + n \in 4 .. nfds
            /\ files[fds[2 * k + 1 + n].fd] = ReadEnd(processes[k].pid, n)
  BY <1>a, Places
<1>c. /\ polled \in [1 .. MaxPollFds -> PollEntry]
      /\ \A i \in 1 .. MaxPollFds : polled[i].fd = fds[i].fd
      /\ \A i \in 1 .. nfds : polled[i].revents = Revents(files[fds[i].fd])
  <2>1. ASSUME NEW i \in 1 .. MaxPollFds
        PROVE  /\ polled[i] \in PollEntry /\ polled[i].fd = fds[i].fd
               /\ i <= nfds => polled[i].revents = Revents(files[fds[i].fd])
    <3>1. fds[i] \in PollEntry /\ Revents(files[fds[i].fd]) \in SUBSET {"IN", "HUP"}
      BY <1>b, ReventsIs
    <3> QED  BY <3>1 DEF PollEntry
  <2> QED  BY <1>b, <2>1
<1> HIDE DEF polled
<1>1. Shape'
  BY <1>a, <1>c DEF IInv, Shape, ending, history
<1>2. Vector'
  BY <1>a DEF IInv, Vector, ending, history
<1>3. Counters'
  <2>1. Counters /\ Descriptors
    BY DEF IInv
  <2>2. "IN" \in fds'[3].revents => requests > 0
    <3>1. fds'[3].revents = Revents(PortRead)
      BY <1>a, <1>b, <1>c, <2>1 DEF Descriptors, Abandoned, INDEX_ERLANG
    <3> QED  BY <3>1, ReventsIs
  <2> QED  BY <1>a, <2>1, <2>2 DEF Counters, INDEX_ERLANG
<1>4. Counted'
  <2>1. ready = Ready(1 .. nfds)'
    BY <1>a, <1>b DEF Ready
  <2>2. /\ ready \in SUBSET (1 .. nfds) /\ IsFiniteSet(1 .. nfds)
        /\ Cardinality(1 .. nfds) = nfds
    <3>1. nfds \in Nat /\ nfds >= 1
      BY <1>b
    <3>2. /\ IsFiniteSet(1 .. nfds)
          /\ Cardinality(1 .. nfds) = IF 1 > nfds THEN 0 ELSE nfds - 1 + 1
      BY <3>1, FS_Interval
    <3>3. Cardinality(1 .. nfds) = nfds
      BY <3>1, <3>2
    <3>4. ready \in SUBSET (1 .. nfds)
      OBVIOUS
    <3> QED  BY <3>2, <3>3, <3>4
  <2>3. Cardinality(ready) \in Nat /\ Cardinality(ready) <= nfds
    BY <2>2, FS_Subset, FS_CardinalityType
  <2>4. count' \in 0 .. MaxPollFds
    BY <1>a, <1>b, <2>3
  <2> QED  BY <1>a, <2>1, <2>4 DEF Counted
<1>5. Descriptors'
  <2>1. \A i \in 1 .. nfds : fds'[i].fd = fds[i].fd
    BY <1>a, <1>b, <1>c
  <2>2. {fds'[i].fd : i \in 1 .. nfds} = {fds[i].fd : i \in 1 .. nfds}
    BY <2>1
  <2>3. \A k \in 1 .. Len(processes) :
           2 + 2 * k \in 1 .. nfds /\ 3 + 2 * k \in 1 .. nfds
    BY <1>b
  <2>4. fds'[3].fd = fds[3].fd
    BY <1>b, <2>1
  <2>5. Descriptors
    BY DEF IInv
  <2>6. \A k \in 1 .. Len(processes) :
           /\ fds'[2 + 2 * k].fd = fds[2 + 2 * k].fd
           /\ fds'[3 + 2 * k].fd = fds[3 + 2 * k].fd
    BY <2>1, <2>3
  <2>7. pc \in {"poll", "erlang", "own", "check"} /\ pc' # "init"
        /\ UNCHANGED <<files, processes, nfds, child>>
    BY <1>a
  <2> QED
    BY <2>2, <2>4, <2>5, <2>6, <2>7 DEF Descriptors, Abandoned, INDEX_ERLANG
<1>6. Ends'
  BY <1>a DEF IInv, Ends, NothingInherited, Abandoned, ending, history
<1>7. HangUps'
  BY <1>a DEF IInv, HangUps, KilledForAReason, ending, history
<1>8. Seen'
  <2>1. Ends /\ Vector
    BY DEF IInv
  <2> SUFFICES ASSUME NEW k \in 1 .. Len(processes)
               PROVE  LET c == processes[k].pid
                          revents(n) == fds'[2 * k + 1 + n].revents
                      IN  /\ (\E n \in Streams : "HUP" \in revents(n)) =>
                                c \in hungup
                          /\ \A n \in Streams :
                                lines[c][n] > 0 => "IN" \in revents(n)
    BY <1>a DEF Seen, history
  <2> DEFINE c == processes[k].pid
  <2>2. c \in Children /\ child[c].state \in Alive
    BY <2>1, VectorFacts
  <2>3. \A n \in Streams :
           fds'[2 * k + 1 + n].revents = Revents(ReadEnd(c, n))
    <3> SUFFICES ASSUME NEW n \in Streams
                 PROVE  fds'[2 * k + 1 + n].revents = Revents(ReadEnd(c, n))
      OBVIOUS
    <3> DEFINE i == 2 * k + 1 + n
    <3>1. i \in 1 .. nfds /\ files[fds[i].fd] = ReadEnd(c, n)
      BY <1>b
    <3> HIDE DEF i
    <3>2. fds'[i].revents = Revents(files[fds[i].fd])
      BY <1>a, <1>c, <3>1
    <3> QED  BY <3>1, <3>2 DEF i
  <2>4. ASSUME NEW n \in Streams, "HUP" \in Revents(ReadEnd(c, n))
        PROVE  c \in hungup
    <3>1. ~Holds(child[c].files, WriteEnd(c, n))
      BY <2>2, <2>4, ReventsIs
    <3>2. n \in Table
      BY Constants DEF Streams, stdout, stderr
    <3> QED  BY <2>1, <2>2, <3>1, <3>2 DEF Ends, Holds
  <2>5. \A n \in Streams : lines[c][n] > 0 => "IN" \in Revents(ReadEnd(c, n))
    BY ReventsIs
  <2> QED  BY <2>3, <2>4, <2>5
<1>9. Causes'
  BY <1>a DEF IInv, Causes, ending, history
<1>10. Configured'
  BY <1>a DEF IInv, Configured, owner_get, ending, history
<1>11. Result'
  BY <1>a DEF IInv, Result, NobodyLeft, ending, history
<1>12. OutputDelivered'
  BY <1>a DEF IInv, OutputDelivered, ending, history
<1> QED
  BY <1>1, <1>2, <1>3, <1>4, <1>5, <1>6, <1>7, <1>8, <1>9,
     <1>10, <1>11, <1>12 DEF IInv

(* The ready entries among finitely many.                                  *)
LEMMA ReadyFinite ==
    ASSUME NEW P, IsFiniteSet(P)
    PROVE  /\ IsFiniteSet(Ready(P)) /\ Cardinality(Ready(P)) \in Nat
           /\ Cardinality(Ready(P)) <= Cardinality(P)
<1>1. Ready(P) \in SUBSET P
  BY DEF Ready
<1>2. /\ IsFiniteSet(Ready(P))
      /\ Cardinality(Ready(P)) <= Cardinality(P)
  BY <1>1, FS_Subset
<1>3. IsFiniteSet(Ready(P)) => Cardinality(Ready(P)) \in Nat
  BY FS_CardinalityType
<1> QED  BY <1>2, <1>3

(* The ready entries of two parts are counted apart.                       *)
LEMMA ReadySplit ==
    ASSUME NEW P, NEW Q, IsFiniteSet(P), IsFiniteSet(Q), P \cap Q = {}
    PROVE  /\ Cardinality(Ready(P \cup Q)) =
                 Cardinality(Ready(P)) + Cardinality(Ready(Q))
           /\ Cardinality(Ready(P)) \in Nat /\ Cardinality(Ready(Q)) \in Nat
<1>1. /\ IsFiniteSet(Ready(P)) /\ Cardinality(Ready(P)) \in Nat
      /\ IsFiniteSet(Ready(Q)) /\ Cardinality(Ready(Q)) \in Nat
  BY ReadyFinite
<1>2. /\ Ready(P \cup Q) = Ready(P) \cup Ready(Q)
      /\ Ready(P) \cap Ready(Q) = {}
  BY DEF Ready
<1>3. Cardinality(Ready(P) \cup Ready(Q)) =
         Cardinality(Ready(P)) + Cardinality(Ready(Q))
         - Cardinality(Ready(P) \cap Ready(Q))
  BY <1>1, FS_Union
<1>4. Cardinality(Ready(P) \cap Ready(Q)) = 0
  BY <1>2, FS_EmptySet
<1>5. Cardinality(Ready(P \cup Q)) = Cardinality(Ready(P) \cup Ready(Q))
  BY <1>2, Zenon
<1>6. Cardinality(Ready(P) \cup Ready(Q)) =
         Cardinality(Ready(P)) + Cardinality(Ready(Q))
  <2>1. ASSUME NEW u, NEW i, NEW a \in Nat, NEW b \in Nat,
               u = a + b - i, i = 0
        PROVE  u = a + b
    BY <2>1
  <2> QED  BY <1>1, <1>3, <1>4, <2>1
<1> QED  BY <1>1, <1>5, <1>6, Zenon

(* A call is read: one call and one ready entry fewer.                     *)
LEMMA Consumed ==
    ASSUME IInv, consume_erlang, NEW c \in Children, child[c].state = "none",
           \A d \in Children \ {c} : child'[d] = child[d],
           child'[c].state # "none",
           nfds' \in Nat, nfds' >= nfds,
           fds'[3].revents = {}, \A i \in (1 .. nfds) \ {3} : fds'[i] = fds[i],
           \A i \in nfds + 1 .. nfds' : fds'[i].revents = {},
           Len(processes') \in Nat, pc' \in {"own", "return"}
    PROVE  /\ Counters' /\ Counted' /\ pc = "erlang"
           /\ UNCHANGED <<itr, lines, erlang, reported, history>>
<1>1. /\ pc = "erlang" /\ fds[3].revents = {"IN"}
      /\ requests' = requests - 1 /\ count' = count - 1
      /\ UNCHANGED <<itr, lines, erlang, reported, history>>
  BY DEF consume_erlang, INDEX_ERLANG
<1>3. Counters /\ Counted /\ Vector /\ Len(processes) \in Nat
  BY VectorSize DEF IInv
<1>4. Counters'
  <2> DEFINE none == {d \in Children : child[d].state = "none"}
  <2>1. {d \in Children : child'[d].state = "none"} = none \ {c}
    OBVIOUS
  <2>2. IsFiniteSet(none) /\ c \in none /\ Cardinality(none) \in Nat
    BY FS_Subset, FS_CardinalityType, SpawnAssumption
  <2>3. Cardinality(none \ {c}) = Cardinality(none) - 1
    BY <2>2, FS_RemoveElement
  <2>4. requests \in Nat /\ requests > 0 /\ requests <= Cardinality(none)
    BY <1>1, <1>3 DEF Counters, INDEX_ERLANG
  <2> HIDE DEF none
  <2>5. requests' \in Nat /\ requests' <= Cardinality(none \ {c})
    BY <1>1, <2>2, <2>3, <2>4
  <2> QED  BY <1>1, <1>3, <2>1, <2>5 DEF Counters
<1>5. Counted'
  <2>1. /\ nfds \in Nat /\ nfds >= 3 /\ nfds <= MaxPollFds
        /\ MaxPollFds \in Nat
    BY <1>1, Places
  <2>2. 3 \in Ready(1 .. nfds)
    <3>1. fds[3].revents # {}
      BY <1>1
    <3> QED  BY <2>1, <3>1 DEF Ready
  <2>3. Ready({1, 2} \cup 4 .. nfds)' = Ready(1 .. nfds) \ {3}
    BY <2>1 DEF Ready
  <2>4. IsFiniteSet(Ready(1 .. nfds)) /\ Cardinality(Ready(1 .. nfds)) \in Nat
    <3>1. IsFiniteSet(1 .. nfds)
      BY <2>1, FS_Interval
    <3> QED  BY <3>1, ReadyFinite
  <2>5. Cardinality(Ready(1 .. nfds) \ {3}) = Cardinality(Ready(1 .. nfds)) - 1
    BY <2>2, <2>4, FS_RemoveElement
  <2>6. Cardinality(Ready(1 .. nfds)) # 0
    BY <2>2, <2>4, FS_EmptySet
  <2>7. count = Cardinality(Ready(1 .. nfds)) /\ count \in 0 .. MaxPollFds
    BY <1>1, <1>3 DEF Counted
  <2>8. /\ count' \in 0 .. MaxPollFds
        /\ count' = Cardinality(Ready({1, 2} \cup 4 .. nfds)')
    <3> DEFINE N == Cardinality(Ready(1 .. nfds))
    <3>1. N \in Nat /\ N # 0 /\ count = N /\ count' = count - 1
          /\ N \in 0 .. MaxPollFds
      BY <1>1, <2>4, <2>6, <2>7
    <3>2. Cardinality(Ready({1, 2} \cup 4 .. nfds)') = N - 1
      BY <2>3, <2>5
    <3> HIDE DEF N
    <3>3. count' \in 0 .. MaxPollFds /\ count' = N - 1
      BY <2>1, <3>1
    <3> QED  BY <3>2, <3>3
  <2> QED  BY <2>8 DEF Counted
<1> QED  BY <1>1, <1>4, <1>5

(* The descriptors that a spawn that fails leaves.                         *)
LEMMA FailedFiles ==
    ASSUME NEW t \in FileTables, NEW c \in Children, NEW u,
           \/ u = t
           \/ Room(t, 2) /\ u = pipe(t, c, stdout)
           \/ Room(t, 4) /\ u = pipe(pipe(t, c, stdout), c, stderr)
    PROVE  /\ u \in FileTables
           /\ \A k \in Table :
                 \/ u[k] = t[k]
                 \/ /\ t[k] = Free
                    /\ \E n \in Streams :
                          u[k] \in {ReadEnd(c, n), WriteEnd(c, n)}
<1>1. CASE u = t
  BY <1>1
<1>2. CASE Room(t, 2) /\ u = pipe(t, c, stdout)
  <2>1. Room(t, 0 + 2) /\ 0 \in Nat /\ stdout \in Nat /\ stdout \in Streams
    BY <1>2 DEF stdout, Streams
  <2>2. /\ u \in FileTables
        /\ \A k \in Table :
              \/ u[k] = t[k]
              \/ /\ t[k] = Free
                 /\ u[k] \in {ReadEnd(c, stdout), WriteEnd(c, stdout)}
    BY <1>2, <2>1, PipeIs
  <2> QED  BY <2>1, <2>2
<1>3. CASE Room(t, 4) /\ u = pipe(pipe(t, c, stdout), c, stderr)
  BY <1>3, BothPipes
<1> QED  BY <1>1, <1>2, <1>3

(* A call that leaves a child in no vector: what it left open is kept.      *)
LEMMA LostKeeps ==
    ASSUME IInv, NEW c \in Children, consume_erlang, child[c].state = "none",
           \/ pc' = "own" /\ UNCHANGED ending
           \/ pc' = "return" /\ exit_status_to_list(result') = Told(ended'),
           DOMAIN child' = Children, IsProcess(child'[c]),
           \A d \in Children \ {c} : child'[d] = child[d],
           \/ child'[c].state = "failed" /\ ~child'[c].stray
           \/ child'[c].state = "connect" /\ child'[c].stray,
           child'[c].connected = child[c].connected,
           child'[c].uid = child[c].uid, child'[c].gid = child[c].gid,
           files' \in FileTables,
           \A k \in Table :
               \/ files'[k] = files[k]
               \/ /\ files[k] = Free
                  /\ \E n \in Streams :
                        files'[k] \in {ReadEnd(c, n), WriteEnd(c, n)},
           fds' = [fds EXCEPT ![3].revents = {}],
           UNCHANGED <<nfds, processes>>,
           Ends'
    PROVE  IInv'
<1>b. pc = "erlang"
  BY DEF consume_erlang
<1>c. /\ nfds = 3 + 2 * Len(processes) /\ nfds \in Nat /\ nfds >= 3
      /\ nfds <= MaxPollFds /\ MaxPollFds \in Nat /\ Len(processes) \in Nat
      /\ \A i \in 1 .. MaxPollFds : fds[i] \in PollEntry
      /\ fds \in [1 .. MaxPollFds -> PollEntry]
  BY <1>b, Places
<1>d. /\ fds' \in [1 .. MaxPollFds -> PollEntry] /\ fds'[3].revents = {}
      /\ fds'[3].fd = fds[3].fd
      /\ \A i \in (1 .. MaxPollFds) \ {3} : fds'[i] = fds[i]
  <2>1. 3 \in 1 .. MaxPollFds /\ fds[3] \in PollEntry
    BY <1>c
  <2>2. /\ [fds[3] EXCEPT !.revents = {}] \in PollEntry
        /\ [fds[3] EXCEPT !.revents = {}].fd = fds[3].fd
        /\ [fds[3] EXCEPT !.revents = {}].revents = {}
    BY <2>1 DEF PollEntry
  <2> QED  BY <1>c, <2>1, <2>2
<1>f. files \in FileTables
  BY DEF IInv, Shape
<1>g. /\ Counters' /\ Counted'
      /\ UNCHANGED <<itr, lines, erlang, reported, history>>
  <2>1. /\ nfds' \in Nat /\ nfds' >= nfds /\ Len(processes') \in Nat
        /\ \A i \in nfds + 1 .. nfds' : fds'[i].revents = {}
        /\ \A i \in (1 .. nfds) \ {3} : fds'[i] = fds[i]
    BY <1>c, <1>d
  <2>2. child'[c].state # "none" /\ pc' \in {"own", "return"}
    OBVIOUS
  <2> QED  BY <1>d, <2>1, <2>2, Consumed
<1>h. /\ c \notin hungup /\ cause[c] = "none" /\ c \notin closers
      /\ "none" \notin Alive /\ "failed" \notin Alive
      /\ "connect" \in Alive /\ "reaped" \notin Alive
      /\ child[c].connected = 0 /\ child[c].uid = 0 /\ child[c].gid = 0
  BY DEF IInv, HangUps, Causes, Configured, Alive
<1>i. /\ \A d \in Children :
            /\ child'[d].state = "reaped" <=> child[d].state = "reaped"
            /\ ~Abandoned(d)' => d # c
            /\ Abandoned(d) => Abandoned(d)'
      /\ pc' \in {"own", "return"}
      /\ UNCHANGED <<hungup, closers, left, cause, lines, reported>>
  <2>1. Shape
    BY DEF IInv
  <2>2. ~child[c].stray
    BY <1>h, <2>1 DEF Shape
  <2> QED  BY <1>g, <1>h, <2>2 DEF history, Abandoned
<1>j. hungup \subseteq Children
  BY DEF IInv, Shape
<1>1. Shape'
  <2>1. \A d \in Children :
            /\ child'[d].state \in Alive \cup {"none", "failed", "reaped"}
            /\ IsProcess(child'[d])
            /\ child'[d].stray => child'[d].state \in Alive
    BY <1>h DEF IInv, Shape
  <2> QED  BY <1>d, <1>i, <2>1 DEF IInv, Shape
<1>2. Vector'
  <2>1. Vector
    BY DEF IInv
  <2>2. \A k \in 1 .. Len(processes) :
           /\ processes[k].pid \in Children \ {c}
           /\ child'[processes[k].pid] = child[processes[k].pid]
    BY <1>h, <2>1, VectorFacts
  <2>3. \A d \in Children :
           child'[d].state \in Alive /\ ~child'[d].stray =>
               child[d].state \in Alive /\ ~child[d].stray
    BY <1>h
  <2> QED  BY <1>b, <1>i, <2>1, <2>2, <2>3 DEF Vector
<1>3. Counters'
  BY <1>g
<1>4. Counted'
  BY <1>g
<1>5. Descriptors'
  <2>1. Descriptors
    BY DEF IInv
  <2>2. \A k \in Table :
           files[k].kind # "free" => files'[k] = files[k]
    BY <1>f, FileParts
  <2>3. \A k \in Table :
           \/ files'[k] = files[k]
           \/ /\ files'[k].owner = c
              /\ files'[k].kind \in {"read", "write"}
    BY <1>f, FileParts
  <2>4. \A i \in 1 .. nfds : fds'[i].fd = fds[i].fd
    BY <1>c, <1>d
  <2>5. {fds'[i].fd : i \in 1 .. nfds} = {fds[i].fd : i \in 1 .. nfds}
    BY <2>4
  <2>6. ASSUME NEW k \in 1 .. Len(processes)
        PROVE  /\ files'[fds'[2 + 2 * k].fd] = ReadEnd(processes[k].pid, stdout)
               /\ files'[fds'[3 + 2 * k].fd] = ReadEnd(processes[k].pid, stderr)
    <3>1. /\ 2 + 2 * k \in 1 .. nfds /\ 3 + 2 * k \in 1 .. nfds
          /\ fds[2 + 2 * k].fd \in Table /\ fds[3 + 2 * k].fd \in Table
      BY <1>c DEF PollEntry
    <3>2. /\ files[fds[2 + 2 * k].fd] = ReadEnd(processes[k].pid, stdout)
          /\ files[fds[3 + 2 * k].fd] = ReadEnd(processes[k].pid, stderr)
      BY <1>b, <2>1 DEF Descriptors, Abandoned
    <3> QED  BY <2>2, <2>4, <3>1, <3>2, FileParts
  <2>7. \A k \in Table :
           files'[k].kind = "read" =>
               \/ /\ files'[k].owner \in Children
                  /\ Abandoned(files[k].owner)'
               \/ k \in {fds'[i].fd : i \in 1 .. nfds}
    <3> SUFFICES ASSUME NEW k \in Table, files'[k].kind = "read",
                        ~ /\ files'[k].owner \in Children
                          /\ Abandoned(files[k].owner)'
                 PROVE  k \in {fds'[i].fd : i \in 1 .. nfds}
      OBVIOUS
    <3>1. files'[k] = files[k]
      BY <1>i, <2>3
    <3>2. ~ /\ files[k].owner \in Children
            /\ Abandoned(files[k].owner)
      BY <1>i, <3>1
    <3>3. k \in {fds[i].fd : i \in 1 .. nfds}
      BY <1>b, <2>1, <3>1, <3>2 DEF Descriptors, Abandoned
    <3> QED  BY <2>5, <3>3
  <2>8. /\ files'[3] = PortRead
        /\ \A k \in Table : files'[k] = PortRead => k = 3
        /\ \A k \in Table : \A n \in Streams :
              files'[k] = WriteEnd(Self, n) => k = n
    <3>1. c # Self /\ 3 \in Table
      BY SpawnAssumption, Constants
    <3> QED
      BY <2>1, <2>2, <2>3, <3>1, FileParts
         DEF Descriptors, Abandoned, PORT_READ_FILE_DESCRIPTOR
  <2>9. \A d \in Children : \A n \in Streams :
           /\ ~Abandoned(d)' => ~Holds(files', WriteEnd(d, n))
           /\ child'[d].state = "none" => ~Holds(files', ReadEnd(d, n))
    <3> SUFFICES ASSUME NEW d \in Children, NEW n \in Streams, d # c
                 PROVE  /\ ~Abandoned(d)' => ~Holds(files', WriteEnd(d, n))
                        /\ child'[d].state = "none" =>
                              ~Holds(files', ReadEnd(d, n))
      BY <1>i
    <3>1. \A k \in Table :
             files'[k] \in {WriteEnd(d, n), ReadEnd(d, n)} =>
                 files'[k] = files[k]
      BY <2>3, FileParts
    <3> QED  BY <1>i, <2>1, <3>1 DEF Descriptors, Holds
  <2>10. fds'[3].fd = 3
    BY <1>b, <1>d, <2>1
       DEF Descriptors, Abandoned, INDEX_ERLANG, PORT_READ_FILE_DESCRIPTOR
  <2> QED
    BY <1>i, <2>6, <2>7, <2>8, <2>9, <2>10
       DEF Descriptors, Abandoned, INDEX_ERLANG, PORT_READ_FILE_DESCRIPTOR
<1>6. Ends'
  OBVIOUS
<1>7. HangUps'
  <2>1. HangUps
    BY DEF IInv
  <2> QED  BY <1>b, <1>h, <1>i, <1>j, <2>1 DEF HangUps, KilledForAReason
<1>8. Seen'
  <2>1. Seen
    BY DEF IInv
  <2>2. \A k \in 1 .. Len(processes) : \A n \in Streams :
           fds'[2 * k + 1 + n] = fds[2 * k + 1 + n]
    <3>1. \A k \in 1 .. Len(processes) : \A n \in Streams :
             2 * k + 1 + n \in (1 .. MaxPollFds) \ {3}
      BY <1>b, <1>c, Places
    <3> QED  BY <1>d, <3>1
  <2>3. ASSUME NEW k \in 1 .. Len(processes)
        PROVE  LET d == processes[k].pid
                   revents(n) == fds[2 * k + 1 + n].revents
               IN  /\ (\E n \in Streams : "HUP" \in revents(n)) => d \in hungup
                   /\ d \notin closers
                      /\ (\E n \in Streams : "HUP" \in revents(n)) =>
                          \A n \in Streams :
                              lines[d][n] > 0 => "IN" \in revents(n)
    BY <1>b, <2>1 DEF Seen
  <2>4. ASSUME NEW k \in 1 .. Len(processes)
        PROVE  LET d == processes[k].pid
                   revents(n) == fds'[2 * k + 1 + n].revents
               IN  /\ (\E n \in Streams : "HUP" \in revents(n)) => d \in hungup
                   /\ d \notin closers
                      /\ (\E n \in Streams : "HUP" \in revents(n)) =>
                          \A n \in Streams :
                              lines[d][n] > 0 => "IN" \in revents(n)
    BY <2>2, <2>3
  <2>5. processes' = processes /\ pc' # "check"
    BY <1>i
  <2> QED  BY <1>i, <2>4, <2>5 DEF Seen
<1>9. Causes'
  <2>1. Causes
    BY DEF IInv
  <2> QED  BY <1>b, <1>i, <1>h, <2>1 DEF Causes
<1>10. Configured'
  <2>1. Configured
    BY DEF IInv
  <2> QED  BY <1>h, <2>1, Constants DEF Configured, owner_get
<1>11. Result'
  BY <1>b, <1>g, <1>i DEF IInv, Result, NobodyLeft
<1>12. OutputDelivered'
  BY <1>b, <1>i DEF IInv, OutputDelivered
<1> QED
  BY <1>1, <1>2, <1>3, <1>4, <1>5, <1>6, <1>7, <1>8, <1>9,
     <1>10, <1>11, <1>12 DEF IInv

(* A spawn that fails leaves descriptors open and no process.              *)
LEMMA SpawnFailsStep ==
    ASSUME IInv, NEW c \in Children, SpawnFails(c)
    PROVE  IInv'
<1>a. /\ consume_erlang /\ child[c].state = "none" /\ Reply
      /\ child' = [child EXCEPT ![c].state = "failed"]
      /\ \/ files' = files
         \/ Room(files, 2) /\ files' = pipe(files, c, stdout)
         \/ Room(files, 4) /\ files' = pipe(pipe(files, c, stdout), c, stderr)
      /\ fds' = [fds EXCEPT ![3].revents = {}]
      /\ UNCHANGED <<nfds, processes>>
  BY DEF SpawnFails, INDEX_ERLANG
<1>e. /\ DOMAIN child' = Children /\ child'[c].state = "failed"
      /\ IsProcess(child'[c]) /\ child'[c].files = child[c].files
      /\ child'[c].connected = child[c].connected
      /\ child'[c].uid = child[c].uid /\ child'[c].gid = child[c].gid
      /\ child'[c].stray = child[c].stray
      /\ \A d \in Children \ {c} : child'[d] = child[d]
  <2>1. DOMAIN child = Children /\ IsProcess(child[c])
    BY ChildFacts
  <2> QED  BY <1>a, <2>1 DEF IsProcess
<1>f. /\ files' \in FileTables
      /\ \A k \in Table :
            \/ files'[k] = files[k]
            \/ /\ files[k] = Free
               /\ \E n \in Streams :
                     files'[k] \in {ReadEnd(c, n), WriteEnd(c, n)}
  <2>1. files \in FileTables
    BY DEF IInv, Shape
  <2> QED  BY <1>a, <2>1, FailedFiles
<1>g. /\ c \notin hungup /\ "none" \notin Alive /\ "failed" \notin Alive
      /\ hungup \subseteq Children /\ ~child[c].stray /\ hungup' = hungup
  <2>1. "none" \notin Alive /\ "failed" \notin Alive
    BY DEF Alive
  <2>2. hungup' = hungup
    BY <1>a DEF consume_erlang, history
  <2> QED  BY <1>a, <2>1, <2>2 DEF IInv, HangUps, Shape, Alive
<1>h. Ends'
  <2>1. Ends
    BY DEF IInv
  <2>2. /\ \A d \in Children :
              /\ child'[d].state \in Alive <=> child[d].state \in Alive
              /\ child'[d].files = child[d].files
              /\ Abandoned(d) => Abandoned(d)'
    BY <1>a, <1>e, <1>g DEF Abandoned
  <2>3. NothingInherited'
    BY <2>1, <2>2 DEF Ends, NothingInherited
  <2> QED  BY <1>g, <2>1, <2>2, <2>3 DEF Ends
<1> QED  BY <1>a, <1>e, <1>f, <1>g, <1>h, ReplyIs, LostKeeps

(* A child that is forked holds the write ends of its pipes, and no end of *)
(* the pipe of another that is not abandoned.                              *)
LEMMA ForkKeeps ==
    ASSUME IInv, pc = "erlang", NEW c \in Children, NEW stray \in BOOLEAN,
           fork(c, stray), hungup' = hungup
    PROVE  /\ child[c].state = "none" /\ Room(files, 4)
           /\ DOMAIN child' = Children /\ child'[c].state = "connect"
           /\ child'[c].stray = stray /\ IsProcess(child'[c])
           /\ child'[c].connected = child[c].connected
           /\ child'[c].uid = child[c].uid /\ child'[c].gid = child[c].gid
           /\ \A d \in Children \ {c} : child'[d] = child[d]
           /\ Ends'
<1> DEFINE opened == Pipes(c)
<1>a. /\ child[c].state = "none" /\ Room(files, 4)
      /\ child' = [child EXCEPT ![c].state = "connect", ![c].stray = stray,
                                ![c].files = Forked(opened, c)]
  BY DEF fork
<1>b. Descriptors /\ Ends /\ Shape /\ files \in FileTables
      /\ hungup \subseteq Children
  BY DEF IInv, Shape
<1>c. /\ nfds \in Nat /\ nfds >= 3
  BY Places
<1>f. /\ opened \in FileTables
      /\ \A k \in Table : opened[k] = files[k] \/ opened[k].owner = c
  <2>1. /\ opened \in FileTables
        /\ \A k \in Table :
              \/ opened[k] = files[k]
              \/ /\ files[k] = Free
                 /\ \E n \in Streams :
                       opened[k] \in {ReadEnd(c, n), WriteEnd(c, n)}
    BY <1>a, <1>b, BothPipes DEF Pipes
  <2> QED  BY <2>1, FileParts
<1>h. /\ c \notin hungup /\ c # Self /\ ~child[c].stray
      /\ "none" \notin Alive /\ "connect" \in Alive
  <2>1. "none" \notin Alive /\ "connect" \in Alive /\ "none" # "reaped"
    BY DEF Alive
  <2> QED  BY <1>a, <1>b, <2>1, SpawnAssumption DEF IInv, HangUps, Shape
<1> HIDE DEF opened
<1>e. /\ DOMAIN child' = Children /\ child'[c].state = "connect"
      /\ child'[c].stray = stray
      /\ IsProcess(child'[c]) /\ child'[c].files = Forked(opened, c)
      /\ child'[c].connected = child[c].connected
      /\ child'[c].uid = child[c].uid /\ child'[c].gid = child[c].gid
      /\ \A d \in Children \ {c} : child'[d] = child[d]
  <2>1. DOMAIN child = Children /\ IsProcess(child[c])
    BY ChildFacts
  <2>2. Forked(opened, c) \in FileTables
    BY <1>f, ForkedIs
  <2> QED  BY <1>a, <2>1, <2>2 DEF IsProcess
<1>u. /\ \A n \in Streams : child'[c].files[n] = WriteEnd(c, n)
      /\ \A k \in Table \ Streams :
            /\ child'[c].files[k] \in {Free, opened[k]}
            /\ k \in {fds[i].fd : i \in 1 .. nfds} => child'[c].files[k] = Free
  BY <1>e, <1>f, ForkedIs
<1>6. Ends'
  <2>1. ASSUME NEW d \in Children, NEW n \in Streams,
               child'[d].state \in Alive, d \notin hungup
        PROVE  child'[d].files[n] = WriteEnd(d, n)
    BY <1>b, <1>e, <1>u, <2>1 DEF Ends
  <2>2. ASSUME NEW d \in Children, child'[d].state \notin Alive
        PROVE  \A k \in Table : child'[d].files[k] = Free
    BY <1>b, <1>e, <1>h, <2>2 DEF Ends
  <2>3. ASSUME NEW d \in hungup
        PROVE  \E n \in Streams : ~Holds(child'[d].files, WriteEnd(d, n))
    BY <1>b, <1>e, <1>h, <2>3 DEF Ends
  <2>4. NothingInherited'
    <3> SUFFICES ASSUME NEW a \in Children, NEW d \in Children,
                        NEW n \in Streams, a # d, ~Abandoned(d)',
                        NEW f \in {ReadEnd(d, n), WriteEnd(d, n),
                                   ReadEnd(Self, n), WriteEnd(Self, n), PortRead},
                        NEW k \in Table, child'[a].files[k] = f
                 PROVE  FALSE
      BY DEF NothingInherited, Holds
    <3>0. ~Abandoned(d)
      BY <1>a, <1>e, <1>h DEF Abandoned
    <3>1. CASE a # c
      BY <1>b, <1>e, <3>0, <3>1 DEF Ends, NothingInherited, Holds
    <3>2. CASE a = c
      <4>1. f.owner # c /\ f # Free
        BY <1>h, <3>2, FileParts DEF PortRead, File
      <4>2. k \notin Streams
        BY <1>u, <3>2, <4>1, FileParts
      <4>3. files[k] = f /\ k \notin {fds[i].fd : i \in 1 .. nfds}
        BY <1>f, <1>u, <3>2, <4>1, <4>2
      <4>4. f \notin {WriteEnd(d, n), WriteEnd(Self, n)}
        BY <1>b, <3>0, <4>2, <4>3 DEF Descriptors, Holds
      <4>5. f # PortRead
        <5>1. 3 \in 1 .. nfds /\ fds[3].fd = 3
          BY <1>b, <1>c
             DEF Descriptors, INDEX_ERLANG, PORT_READ_FILE_DESCRIPTOR
        <5> QED
          BY <1>b, <4>3, <5>1 DEF Descriptors, PORT_READ_FILE_DESCRIPTOR
      <4>6. f.kind = "read" /\ f.owner \in {d, Self}
        BY <4>4, <4>5, FileParts
      <4>7. ~ /\ f.owner \in Children /\ Abandoned(f.owner)
        BY <3>0, <4>6, SpawnAssumption
      <4> QED  BY <1>b, <4>3, <4>6, <4>7 DEF Descriptors
    <3> QED  BY <3>1, <3>2
  <2> QED  BY <2>1, <2>2, <2>3, <2>4 DEF Ends
<1> QED  BY <1>a, <1>e, <1>6

(* The parent fails behind the fork: the child is a stray.                 *)
LEMMA SpawnStraysStep ==
    ASSUME IInv, NEW c \in Children, SpawnStrays(c)
    PROVE  IInv'
<1> DEFINE opened == Pipes(c)
           out == {WriteEnd(c, stdout)}
           both == {WriteEnd(c, stdout), WriteEnd(c, stderr)}
<1>a. /\ consume_erlang /\ fork(c, TRUE)
      /\ Reply \/ Fail("memory")
      /\ files' \in {opened, Closed(opened, out), Closed(opened, both)}
      /\ fds' = [fds EXCEPT ![3].revents = {}]
      /\ UNCHANGED <<nfds, processes>>
  BY DEF SpawnStrays, INDEX_ERLANG
<1>b. pc = "erlang" /\ hungup' = hungup
  BY <1>a DEF consume_erlang, history
<1>c. \/ pc' = "own" /\ UNCHANGED ending
      \/ pc' = "return" /\ exit_status_to_list(result') = Told(ended')
  BY <1>a, ReplyIs, FailReports
<1>d. /\ child[c].state = "none" /\ Room(files, 4)
      /\ DOMAIN child' = Children /\ child'[c].state = "connect"
      /\ child'[c].stray /\ IsProcess(child'[c])
      /\ child'[c].connected = child[c].connected
      /\ child'[c].uid = child[c].uid /\ child'[c].gid = child[c].gid
      /\ \A d \in Children \ {c} : child'[d] = child[d]
      /\ Ends'
  BY <1>a, <1>b, ForkKeeps
<1>e. /\ opened \in FileTables
      /\ \A k \in Table :
            \/ opened[k] = files[k]
            \/ /\ files[k] = Free
               /\ \E n \in Streams :
                     opened[k] \in {ReadEnd(c, n), WriteEnd(c, n)}
  <2>1. files \in FileTables
    BY DEF IInv, Shape
  <2> QED  BY <1>d, <2>1, BothPipes DEF Pipes
<1>f. \A k \in Table : \A n \in Streams : files[k] # WriteEnd(c, n)
  <2>1. Descriptors /\ Shape /\ "none" \notin Alive
    BY DEF IInv, Alive
  <2>2. ~Abandoned(c)
    BY <1>d, <2>1 DEF Shape, Abandoned
  <2> QED  BY <2>1, <2>2 DEF Descriptors, Holds
<1> HIDE DEF opened
<1>g. /\ files' \in FileTables
      /\ \A k \in Table :
            \/ files'[k] = files[k]
            \/ /\ files[k] = Free
               /\ \E n \in Streams :
                     files'[k] \in {ReadEnd(c, n), WriteEnd(c, n)}
  <2>1. ASSUME NEW F \in {out, both}
        PROVE  /\ Closed(opened, F) \in FileTables
               /\ \A k \in Table :
                     \/ Closed(opened, F)[k] = files[k]
                     \/ /\ files[k] = Free
                        /\ Closed(opened, F)[k] = opened[k]
                        /\ \E n \in Streams :
                              opened[k] \in {ReadEnd(c, n), WriteEnd(c, n)}
    <3>1. \A k \in Table : files[k] \notin F
      BY <1>f DEF Streams
    <3>2. /\ Closed(opened, F) \in FileTables
          /\ \A k \in Table : Closed(opened, F)[k] =
                                   IF opened[k] \in F THEN Free ELSE opened[k]
      BY <1>e, ClosedIs
    <3> HIDE DEF out, both
    <3> QED  BY <1>e, <3>1, <3>2
  <2> HIDE DEF out, both
  <2> QED  BY <1>a, <1>e, <2>1
<1> QED  BY <1>a, <1>c, <1>d, <1>g, LostKeeps

(* The descriptors of os_spawn after a spawn: the read ends are added.     *)
LEMMA SpawnedFiles ==
    ASSUME NEW t \in FileTables, NEW c \in Children, Room(t, 4),
           \A n \in Streams : ~Holds(t, ReadEnd(c, n)) /\ ~Holds(t, WriteEnd(c, n))
    PROVE  LET opened == pipe(pipe(t, c, stdout), c, stderr)
               held == Closed(opened, {WriteEnd(c, stdout), WriteEnd(c, stderr)})
           IN  /\ opened \in FileTables /\ held \in FileTables
               /\ \A k \in Table :
                     \/ opened[k] = t[k]
                     \/ opened[k].owner = c
               /\ \A k \in Table :
                     \/ held[k] = t[k]
                     \/ t[k] = Free /\ \E n \in Streams : held[k] = ReadEnd(c, n)
               /\ \A n \in Streams : /\ Holds(held, ReadEnd(c, n))
                                     /\ ~Holds(held, WriteEnd(c, n))
                                     /\ Once(held, ReadEnd(c, n))
<1> DEFINE opened == pipe(pipe(t, c, stdout), c, stderr)
           ends == {WriteEnd(c, stdout), WriteEnd(c, stderr)}
           held == Closed(opened, ends)
<1>1. /\ opened \in FileTables
      /\ \A n \in Streams : Holds(opened, ReadEnd(c, n))
      /\ \A k \in Table :
            \/ opened[k] = t[k]
            \/ /\ t[k] = Free
               /\ \E n \in Streams : opened[k] \in {ReadEnd(c, n), WriteEnd(c, n)}
      /\ \A n \in Streams : Once(opened, ReadEnd(c, n))
  BY BothPipes
<1>2. \A n \in Streams : WriteEnd(c, n) \in ends
  BY DEF Streams
<1>3. \A n, m : ReadEnd(c, n) # WriteEnd(c, m) /\ ReadEnd(c, n) # Free
                /\ WriteEnd(c, n) # Free
  BY FileParts
<1>4. \A n : ReadEnd(c, n) \notin ends /\ Free \notin ends
  BY <1>3
<1>5. \A k \in Table : t[k] \notin ends
  BY DEF Holds, Streams
<1> HIDE DEF opened
<1>6. /\ held \in FileTables
      /\ \A k \in Table : held[k] = IF opened[k] \in ends THEN Free ELSE opened[k]
  BY <1>1, ClosedIs
<1> HIDE DEF held, ends
<1>7. \A k \in Table :
         \/ held[k] = t[k]
         \/ t[k] = Free /\ \E n \in Streams : held[k] = ReadEnd(c, n)
  BY <1>1, <1>2, <1>4, <1>5, <1>6
<1>8. \A n \in Streams : /\ Holds(held, ReadEnd(c, n))
                         /\ ~Holds(held, WriteEnd(c, n))
                         /\ Once(held, ReadEnd(c, n))
  BY <1>1, <1>2, <1>3, <1>4, <1>6 DEF Holds, Once
<1>9. \A k \in Table : opened[k] = t[k] \/ opened[k].owner = c
  BY <1>1, FileParts
<1> QED  BY <1>1, <1>6, <1>7, <1>8, <1>9 DEF opened, held, ends

(* A spawn adds the process to the vector and its pipes to the poll array. *)
LEMMA SpawnStep ==
    ASSUME IInv, NEW c \in Children, spawn(c)
    PROVE  IInv'
<1> DEFINE opened == pipe(pipe(files, c, stdout), c, stderr)
           held == Closed(opened, {WriteEnd(c, stdout), WriteEnd(c, stderr)})
           at(n) == Descriptor(held, ReadEnd(c, n))
           L == Len(processes)
           P == [pid |-> c, index_stdout |-> nfds + 1, index_stderr |-> nfds + 2]
<1>a. /\ consume_erlang /\ fork(c, FALSE) /\ Reply
      /\ child[c].state = "none" /\ Room(files, 4)
      /\ files' = held
      /\ fds' = [fds EXCEPT ![3].revents = {},
                            ![nfds + 1] = Entry(at(1)),
                            ![nfds + 2] = Entry(at(2))]
      /\ nfds' = nfds + 2
      /\ processes' = Append(processes, P)
  BY DEF spawn, fork, Pipes, INDEX_ERLANG, stdout, stderr
<1>b. /\ pc = "erlang" /\ pc \in {"poll", "erlang", "own", "check"}
      /\ hungup' = hungup
  BY <1>a DEF consume_erlang, history
<1>c. /\ nfds = 3 + 2 * L /\ nfds \in Nat /\ nfds >= 3 /\ L \in Nat
      /\ nfds <= MaxPollFds /\ MaxPollFds \in Nat
      /\ \A i \in 1 .. MaxPollFds : fds[i] \in PollEntry /\ fds[i].fd \in Table
      /\ fds \in [1 .. MaxPollFds -> PollEntry]
      /\ \A k \in 1 .. L : \A n \in Streams :
            /\ 2 * k + 1 + n \in 4 .. nfds
            /\ files[fds[2 * k + 1 + n].fd] = ReadEnd(processes[k].pid, n)
  BY <1>b, Places
<1>h. /\ c \notin hungup /\ cause[c] = "none" /\ c \notin closers
      /\ "none" \notin Alive /\ "connect" \in Alive /\ "failed" \notin Alive
      /\ c # Self /\ "reaped" \notin Alive /\ ~child[c].stray
  <2>1. ~child[c].stray
    BY <1>a DEF IInv, Shape, Alive
  <2> QED  BY <1>a, <2>1, SpawnAssumption DEF IInv, HangUps, Causes, Alive
<1>k. nfds + 2 <= MaxPollFds
  <2>1. L + 1 <= Cardinality(Children)
    BY <1>a, <1>h, VectorSize DEF IInv
  <2> QED  BY <1>c, <2>1, Constants DEF MaxPollFds
<1>l. Vector /\ Descriptors /\ Ends /\ Shape /\ Seen
  BY DEF IInv
<1>f. /\ opened \in FileTables /\ held \in FileTables /\ files \in FileTables
      /\ \A k \in Table : opened[k] = files[k] \/ opened[k].owner = c
      /\ \A k \in Table :
            \/ held[k] = files[k]
            \/ files[k] = Free /\ \E n \in Streams : held[k] = ReadEnd(c, n)
      /\ \A n \in Streams : /\ Holds(held, ReadEnd(c, n))
                            /\ ~Holds(held, WriteEnd(c, n))
                            /\ Once(held, ReadEnd(c, n))
  <2>1. \A n \in Streams :
           ~Holds(files, ReadEnd(c, n)) /\ ~Holds(files, WriteEnd(c, n))
    BY <1>a, <1>h, <1>l DEF Descriptors, Abandoned
  <2>2. files \in FileTables
    BY <1>l DEF Shape
  <2> QED  BY <1>a, <2>1, <2>2, SpawnedFiles
<1> HIDE DEF opened, held
<1>m. \A n \in Streams :
         /\ at(n) \in Table /\ held[at(n)] = ReadEnd(c, n)
         /\ \A k \in Table : held[k] = ReadEnd(c, n) => k = at(n)
  BY <1>f, DescriptorIs DEF Once
<1> HIDE DEF at
<1>d. /\ fds' \in [1 .. MaxPollFds -> PollEntry] /\ fds'[3].revents = {}
      /\ fds'[3].fd = fds[3].fd
      /\ \A i \in (1 .. nfds) \ {3} : fds'[i] = fds[i]
      /\ \A n \in Streams : fds'[nfds + n] = Entry(at(n))
  <2>1. 3 \in 1 .. MaxPollFds /\ fds[3] \in PollEntry
    BY <1>c
  <2>2. /\ [fds[3] EXCEPT !.revents = {}] \in PollEntry
        /\ [fds[3] EXCEPT !.revents = {}].fd = fds[3].fd
        /\ [fds[3] EXCEPT !.revents = {}].revents = {}
    BY <2>1 DEF PollEntry
  <2>3. \A n \in Streams : Entry(at(n)) \in PollEntry
    BY <1>m DEF Entry, PollEntry
  <2>4. Streams = {1, 2}
    BY DEF Streams, stdout, stderr
  <2>5. nfds + 1 \in 1 .. MaxPollFds /\ nfds + 2 \in 1 .. MaxPollFds
        /\ nfds + 1 # 3 /\ nfds + 2 # 3
    BY <1>c, <1>k
  <2>6. fds' = [[[fds EXCEPT ![3] = [fds[3] EXCEPT !.revents = {}]]
                  EXCEPT ![nfds + 1] = Entry(at(1))]
                  EXCEPT ![nfds + 2] = Entry(at(2))]
    BY <1>a, <2>1, <2>5
  <2>7. \A n \in Streams : fds'[nfds + n] = Entry(at(n))
    BY <1>c, <2>4, <2>5, <2>6
  <2>8. Entry(at(1)) \in PollEntry /\ Entry(at(2)) \in PollEntry
    BY <2>3, <2>4
  <2> DEFINE third == [fds[3] EXCEPT !.revents = {}]
  <2>9. third \in PollEntry /\ third.fd = fds[3].fd /\ third.revents = {}
    BY <2>2
  <2> HIDE DEF third
  <2>10. fds' = [[[fds EXCEPT ![3] = third]
                   EXCEPT ![nfds + 1] = Entry(at(1))]
                   EXCEPT ![nfds + 2] = Entry(at(2))]
    BY <2>6 DEF third
  <2>11. fds' \in [1 .. MaxPollFds -> PollEntry] /\ fds'[3] = third
    BY <1>c, <2>1, <2>5, <2>8, <2>9, <2>10
  <2>12. ASSUME NEW i \in (1 .. nfds) \ {3}
         PROVE  fds'[i] = fds[i]
    <3>1. i # 3 /\ i # nfds + 1 /\ i # nfds + 2 /\ i \in 1 .. MaxPollFds
      BY <1>c
    <3> QED  BY <1>c, <2>10, <3>1
  <2> QED  BY <2>7, <2>9, <2>11, <2>12
<1>n. \A n \in Streams : fds'[nfds + n].fd = at(n) /\ fds'[nfds + n].revents = {}
  <2>1. \A n : Entry(at(n)).fd = at(n) /\ Entry(at(n)).revents = {}
    BY DEF Entry
  <2> QED  BY <1>d, <2>1
<1>e. /\ DOMAIN child' = Children /\ child'[c].state = "connect"
      /\ IsProcess(child'[c]) /\ ~child'[c].stray
      /\ child'[c].connected = child[c].connected
      /\ child'[c].uid = child[c].uid /\ child'[c].gid = child[c].gid
      /\ \A d \in Children \ {c} : child'[d] = child[d]
      /\ Ends'
  BY <1>a, <1>b, ForkKeeps
<1>p. /\ Len(processes') = L + 1 /\ processes' \in Seq(ProcessData)
      /\ \A k \in 1 .. L : processes'[k] = processes[k]
      /\ processes'[L + 1] = P
  <2>1. processes \in Seq(ProcessData)
    BY <1>l DEF Vector
  <2>2. P \in ProcessData
    BY <1>c DEF ProcessData
  <2> HIDE DEF P
  <2> QED  BY <1>a, <2>1, <2>2
<1>g. /\ Counters' /\ Counted'
      /\ \/ pc' = "own" /\ UNCHANGED ending
         \/ pc' = "return" /\ exit_status_to_list(result') = Told(ended')
      /\ UNCHANGED <<itr, lines, erlang, reported, history>>
  <2>1. /\ nfds' \in Nat /\ nfds' >= nfds /\ Len(processes') \in Nat
    BY <1>a, <1>c, <1>p
  <2>2. child'[c].state # "none"
    BY <1>e
  <2>3. \A i \in nfds + 1 .. nfds' : fds'[i].revents = {}
    <3>1. \A i \in nfds + 1 .. nfds + 2 : \E n \in {1, 2} : i = nfds + n
      BY <1>c
    <3>2. Streams = {1, 2}
      BY DEF Streams, stdout, stderr
    <3> QED  BY <1>a, <1>n, <3>1, <3>2
  <2>4. \/ pc' = "own" /\ UNCHANGED ending
        \/ pc' = "return" /\ exit_status_to_list(result') = Told(ended')
    BY <1>a, ReplyIs
  <2> QED  BY <1>a, <1>d, <1>e, <2>1, <2>2, <2>3, <2>4, Consumed
<1>i. /\ \A d \in Children :
            /\ child'[d].state = "reaped" <=> child[d].state = "reaped"
            /\ Abandoned(d)' <=> Abandoned(d)
            /\ child'[d].state = "none" => d # c /\ child[d].state = "none"
      /\ pc' \in {"own", "return"}
      /\ UNCHANGED <<hungup, closers, left, cause, lines, reported>>
  BY <1>a, <1>e, <1>g, <1>h DEF history, Abandoned
<1>j. hungup \subseteq Children
  BY <1>l DEF Shape
<1>q. Streams = {1, 2} /\ stdout = 1 /\ stderr = 2
  BY DEF Streams, stdout, stderr
<1>r. child[c].connected = 0 /\ child[c].uid = 0 /\ child[c].gid = 0
  BY <1>a DEF IInv, Configured
<1>s. NobodyLeft' /\ HangUps /\ Causes /\ Configured /\ OutputDelivered
  BY <1>i DEF IInv, NobodyLeft
<1>t. files' = held /\ nfds' = nfds + 2
  BY <1>a
<1>v. P.pid = c /\ P.index_stdout = nfds + 1 /\ P.index_stderr = nfds + 2
  OBVIOUS
<1> HIDE DEF P
<1>1. Shape'
  <2>1. \A d \in Children :
            /\ child'[d].state \in Alive \cup {"none", "failed", "reaped"}
            /\ IsProcess(child'[d])
            /\ child'[d].stray => child'[d].state \in Alive
    BY <1>e, <1>h, <1>l DEF Shape
  <2> QED  BY <1>d, <1>e, <1>f, <1>i, <1>l, <1>t, <2>1 DEF Shape
<1>2. Vector'
  <2>1. ASSUME NEW k \in 1 .. Len(processes')
        PROVE  \/ /\ k \in 1 .. L /\ processes'[k] = processes[k]
                  /\ processes[k].pid \in Children /\ processes[k].pid # c
                  /\ child[processes[k].pid].state \in Alive
                  /\ ~child[processes[k].pid].stray
                  /\ processes[k].index_stdout = 2 + 2 * k
                  /\ processes[k].index_stderr = 3 + 2 * k
               \/ k = L + 1 /\ processes'[k] = P
    <3>1. CASE k \in 1 .. L
      BY <1>a, <1>h, <1>l, <1>p, <3>1, VectorFacts
    <3>2. CASE k = L + 1
      BY <1>p, <3>2
    <3> QED  BY <1>c, <1>p, <3>1, <3>2
  <2>2. ASSUME NEW k \in 1 .. Len(processes')
        PROVE  /\ child'[processes'[k].pid].state \in Alive
               /\ ~child'[processes'[k].pid].stray
               /\ processes'[k].index_stdout = 2 + 2 * k
               /\ processes'[k].index_stderr = 3 + 2 * k
    <3>1. CASE k = L + 1 /\ processes'[k] = P
      <4>1. nfds + 1 = 2 + 2 * k /\ nfds + 2 = 3 + 2 * k
        BY <1>c, <3>1
      <4> QED  BY <1>e, <1>h, <1>v, <3>1, <4>1
    <3>2. CASE k \in 1 .. L
      <4>1. k # L + 1
        BY <1>c, <3>2
      <4> QED  BY <1>e, <2>1, <4>1
    <3> QED  BY <2>1, <3>1, <3>2
  <2>3. \A j, k \in 1 .. Len(processes') :
           processes'[j].pid = processes'[k].pid => j = k
    <3>1. \A j, k \in 1 .. L : processes[j].pid = processes[k].pid => j = k
      BY <1>l DEF Vector
    <3> QED  BY <1>v, <2>1, <3>1
  <2>4. ASSUME NEW d \in Children, child'[d].state \in Alive, ~child'[d].stray
        PROVE  \E k \in 1 .. Len(processes') : processes'[k].pid = d
    <3>1. CASE d = c
      <4>1. L + 1 \in 1 .. Len(processes')
        BY <1>c, <1>p
      <4> QED  BY <1>p, <1>v, <3>1, <4>1
    <3>2. CASE d # c
      <4>1. PICK k \in 1 .. L : processes[k].pid = d
        BY <1>e, <1>l, <2>4, <3>2 DEF Vector
      <4>2. k \in 1 .. Len(processes') /\ processes'[k].pid = d
        BY <1>c, <1>p, <4>1
      <4> QED  BY <4>2
    <3> QED  BY <3>1, <3>2
  <2>5. nfds' = 3 + 2 * Len(processes')
    BY <1>c, <1>p, <1>t
  <2> QED  BY <1>i, <1>p, <2>2, <2>3, <2>4, <2>5 DEF Vector
<1>3. Counters'
  BY <1>g
<1>4. Counted'
  BY <1>g
<1>5. Descriptors'
  <2>2. \A k \in Table : files[k].kind # "free" => held[k] = files[k]
    BY <1>f, FileParts
  <2>3. \A k \in Table :
           \/ held[k] = files[k]
           \/ held[k].owner = c /\ held[k].kind = "read"
    BY <1>f, FileParts
  <2>4. \A i \in 1 .. nfds : fds'[i].fd = fds[i].fd
    BY <1>d
  <2>6. ASSUME NEW k \in 1 .. Len(processes'), NEW n \in Streams
        PROVE  held[fds'[2 * k + 1 + n].fd] = ReadEnd(processes'[k].pid, n)
    <3>1. CASE k \in 1 .. L
      <4>1. 2 * k + 1 + n \in 1 .. nfds /\ 2 * k + 1 + n \in 1 .. MaxPollFds
            /\ files[fds[2 * k + 1 + n].fd] = ReadEnd(processes[k].pid, n)
            /\ fds[2 * k + 1 + n].fd \in Table
        <5>1. 2 * k + 1 + n \in 4 .. nfds
          BY <1>c, <3>1
        <5>2. 2 * k + 1 + n \in 1 .. nfds /\ 2 * k + 1 + n \in 1 .. MaxPollFds
          BY <1>c, <5>1
        <5> QED  BY <1>c, <3>1, <5>2
      <4>2. ReadEnd(processes[k].pid, n).kind # "free"
        BY FileParts
      <4> QED  BY <1>p, <2>2, <2>4, <3>1, <4>1, <4>2
    <3>2. CASE k = L + 1
      <4>1. 2 * k + 1 + n = nfds + n
        BY <1>c, <1>q, <3>2
      <4> QED  BY <1>m, <1>n, <1>p, <1>v, <3>2, <4>1
    <3> QED  BY <1>c, <1>p, <3>1, <3>2
  <2>5. \A k \in 1 .. Len(processes') :
           /\ held[fds'[2 + 2 * k].fd] = ReadEnd(processes'[k].pid, stdout)
           /\ held[fds'[3 + 2 * k].fd] = ReadEnd(processes'[k].pid, stderr)
    <3> SUFFICES ASSUME NEW k \in 1 .. Len(processes')
                 PROVE  /\ held[fds'[2 + 2 * k].fd] = ReadEnd(processes'[k].pid, 1)
                        /\ held[fds'[3 + 2 * k].fd] = ReadEnd(processes'[k].pid, 2)
      BY <1>q
    <3>1. 2 * k + 1 + 1 = 2 + 2 * k /\ 2 * k + 1 + 2 = 3 + 2 * k
      BY <1>c, <1>p
    <3>2. 1 \in Streams /\ 2 \in Streams
      BY <1>q
    <3>3. /\ held[fds'[2 * k + 1 + 1].fd] = ReadEnd(processes'[k].pid, 1)
          /\ held[fds'[2 * k + 1 + 2].fd] = ReadEnd(processes'[k].pid, 2)
      BY <2>6, <3>2
    <3> QED  BY <3>1, <3>3
  <2>7. \A k \in Table :
           held[k].kind = "read" =>
               \/ /\ held[k].owner \in Children
                  /\ Abandoned(files[k].owner)'
               \/ k \in {fds'[i].fd : i \in 1 .. nfds + 2}
    <3> SUFFICES ASSUME NEW k \in Table, held[k].kind = "read",
                        ~ /\ held[k].owner \in Children
                          /\ Abandoned(files[k].owner)'
                 PROVE  k \in {fds'[i].fd : i \in 1 .. nfds + 2}
      OBVIOUS
    <3>1. CASE held[k] = files[k]
      <4>1. ~ /\ files[k].owner \in Children
              /\ Abandoned(files[k].owner)
        BY <1>i, <1>t, <3>1
      <4>2. k \in {fds[i].fd : i \in 1 .. nfds}
        BY <1>b, <1>l, <3>1, <4>1 DEF Descriptors, Abandoned
      <4>3. PICK i \in 1 .. nfds : k = fds[i].fd
        BY <4>2
      <4>4. i \in 1 .. nfds + 2 /\ fds'[i].fd = k
        BY <1>c, <2>4, <4>3
      <4> QED  BY <4>4
    <3>2. ASSUME NEW n \in Streams, held[k] = ReadEnd(c, n)
          PROVE  k \in {fds'[i].fd : i \in 1 .. nfds + 2}
      <4>1. k = at(n) /\ nfds + n \in 1 .. nfds + 2
        BY <1>c, <1>m, <1>q, <3>2
      <4> QED  BY <1>n, <4>1
    <3> QED  BY <1>f, <3>1, <3>2
  <2>8. /\ held[3] = PortRead
        /\ \A k \in Table : held[k] = PortRead => k = 3
        /\ \A k \in Table : \A n \in Streams :
              held[k] = WriteEnd(Self, n) => k = n
    <3>1. 3 \in Table
      BY Constants
    <3> QED
      BY <1>h, <1>l, <2>2, <2>3, <3>1, FileParts
         DEF Descriptors, Abandoned, PORT_READ_FILE_DESCRIPTOR
  <2>9. ASSUME NEW d \in Children, NEW n \in Streams
        PROVE  /\ ~Abandoned(d)' => ~Holds(held, WriteEnd(d, n))
               /\ child'[d].state = "none" => ~Holds(held, ReadEnd(d, n))
    <3>1. \A k \in Table : held[k] = WriteEnd(d, n) => files[k] = WriteEnd(d, n)
      BY <2>3, FileParts
    <3>2. \A k \in Table :
             held[k] = ReadEnd(d, n) /\ d # c => files[k] = ReadEnd(d, n)
      BY <2>3, FileParts
    <3> QED  BY <1>i, <1>l, <3>1, <3>2 DEF Descriptors, Abandoned, Holds
  <2>10. fds'[3].fd = 3
    BY <1>b, <1>d, <1>l
       DEF Descriptors, Abandoned, INDEX_ERLANG, PORT_READ_FILE_DESCRIPTOR
  <2> QED
    BY <1>i, <1>t, <2>5, <2>7, <2>8, <2>9, <2>10
       DEF Descriptors, Abandoned, INDEX_ERLANG, PORT_READ_FILE_DESCRIPTOR
<1>6. Ends'
  BY <1>e
<1>7. HangUps'
  BY <1>b, <1>e, <1>h, <1>i, <1>j, <1>s DEF HangUps, KilledForAReason
<1>8. Seen'
  <2> SUFFICES ASSUME pc' = "own", NEW k \in 1 .. Len(processes')
               PROVE  LET d == processes'[k].pid
                          revents(n) == fds'[2 * k + 1 + n].revents
                      IN  /\ (\E n \in Streams : "HUP" \in revents(n)) =>
                                d \in hungup
                          /\ d \notin closers
                             /\ (\E n \in Streams : "HUP" \in revents(n)) =>
                                 \A n \in Streams :
                                     lines[d][n] > 0 => "IN" \in revents(n)
    BY <1>i DEF Seen
  <2>1. CASE k \in 1 .. L
    <3>1. \A n \in Streams : fds'[2 * k + 1 + n] = fds[2 * k + 1 + n]
      <4>1. \A n \in Streams : 2 * k + 1 + n \in 4 .. nfds
        BY <1>c, <2>1
      <4>2. \A n \in Streams : 2 * k + 1 + n \in (1 .. nfds) \ {3}
        BY <1>c, <4>1
      <4> QED  BY <1>d, <4>2
    <3> QED  BY <1>b, <1>l, <1>p, <2>1, <3>1 DEF Seen
  <2>2. CASE k = L + 1
    <3>1. \A n \in Streams : 2 * k + 1 + n = nfds + n
      BY <1>c, <1>q, <2>2
    <3> QED  BY <1>n, <3>1
  <2> QED  BY <1>c, <1>p, <2>1, <2>2
<1>9. Causes'
  BY <1>b, <1>e, <1>h, <1>i, <1>s DEF Causes
<1>10. Configured'
  BY <1>e, <1>r, <1>s, Constants DEF Configured, owner_get
<1>11. Result'
  BY <1>b, <1>g, <1>i, <1>s DEF Result
<1>12. OutputDelivered'
  BY <1>b, <1>i, <1>s DEF OutputDelivered
<1> QED
  BY <1>1, <1>2, <1>3, <1>4, <1>5, <1>6, <1>7, <1>8, <1>9,
     <1>10, <1>11, <1>12 DEF IInv

(* The descriptors stay as they were while no entry gets another one.      *)
LEMMA DescriptorsKeep ==
    ASSUME Descriptors, pc \in {"poll", "erlang", "own", "check"}, pc' # "init",
           UNCHANGED <<files, processes, nfds, child>>,
           Len(processes) \in Nat, nfds = 3 + 2 * Len(processes),
           \A i \in 1 .. nfds : fds'[i].fd = fds[i].fd
    PROVE  Descriptors'
<1>1. {fds'[i].fd : i \in 1 .. nfds} = {fds[i].fd : i \in 1 .. nfds}
  OBVIOUS
<1>2. \A k \in 1 .. Len(processes) :
         /\ fds'[2 + 2 * k].fd = fds[2 + 2 * k].fd
         /\ fds'[3 + 2 * k].fd = fds[3 + 2 * k].fd
  <2>1. \A k \in 1 .. Len(processes) :
           2 + 2 * k \in 1 .. nfds /\ 3 + 2 * k \in 1 .. nfds
    OBVIOUS
  <2> QED  BY <2>1
<1>3. fds'[3].fd = fds[3].fd
  OBVIOUS
<1> QED  BY <1>1, <1>2, <1>3 DEF Descriptors, Abandoned, INDEX_ERLANG

(* A step of the main loop that only reads keeps all but its counters.     *)
LEMMA ReadKeeps ==
    ASSUME IInv, pc \in {"own", "check"},
           UNCHANGED <<nfds, processes, files, child, requests, erlang,
                       reported, history>>,
           fds' \in [1 .. MaxPollFds -> PollEntry],
           \A i \in 1 .. MaxPollFds : fds'[i].fd = fds[i].fd,
           lines' \in [Children \cup {Self} -> [Streams -> Nat]],
           \A c \in Children : \A n \in Streams :
              lines'[c][n] <= lines[c][n],
           pc' \in {"poll", "check"}, UNCHANGED ending
    PROVE  /\ Shape' /\ Vector' /\ Descriptors' /\ Ends' /\ HangUps'
           /\ Causes' /\ Configured' /\ Result' /\ OutputDelivered'
<1>1. /\ UNCHANGED <<nfds, processes, files, child, requests, reported, cause,
                     hungup, closers, left>>
      /\ pc' \in {"poll", "check"}
      /\ pc # "exit" /\ pc \in {"poll", "erlang", "own", "check"}
  BY DEF history
<1>2. Shape /\ Vector /\ Descriptors /\ Ends /\ HangUps /\ Causes /\ Configured
      /\ OutputDelivered
  BY DEF IInv
<1>3. /\ Len(processes) \in Nat /\ nfds = 3 + 2 * Len(processes)
      /\ nfds \in Nat /\ nfds >= 3 /\ nfds <= MaxPollFds /\ MaxPollFds \in Nat
  BY <1>1, Places
<1>4. \A i \in 1 .. nfds : fds'[i].fd = fds[i].fd
  BY <1>3
<1>8. Shape'
  BY <1>1, <1>2 DEF Shape
<1>9. Vector'
  BY <1>1, <1>2 DEF Vector
<1>10. Descriptors'
  <2>1. pc' # "init"
    BY <1>1
  <2> QED  BY <1>1, <1>2, <1>3, <1>4, <2>1, DescriptorsKeep
<1>a. \A c \in Children : \A n \in Streams :
         /\ lines[c][n] \in Nat /\ lines'[c][n] \in Nat /\ left[c][n] \in Nat
         /\ lines'[c][n] <= lines[c][n]
  BY <1>2 DEF Shape
<1>b. \A c \in hungup \ closers : \A n \in Streams : lines'[c][n] <= left[c][n]
  BY <1>2, <1>a DEF HangUps, Shape
<1>11. Ends' /\ HangUps' /\ Causes' /\ Configured'
  BY <1>1, <1>2, <1>b
     DEF Ends, NothingInherited, Abandoned, HangUps, KilledForAReason, Causes,
         Configured, owner_get
<1>12. Result'
  BY <1>1 DEF Result, NobodyLeft
<1>13. OutputDelivered'
  <2> SUFFICES ASSUME NEW c \in Children, child[c].state = "reaped",
                      c \notin closers, NEW n \in Streams, lines'[c][n] > 0
               PROVE  lines'[c][n] + Buffered <= left[c][n]
    BY <1>1 DEF OutputDelivered
  <2>1. lines[c][n] > 0 => lines[c][n] + Buffered <= left[c][n]
    BY <1>1, <1>2 DEF OutputDelivered
  <2> QED  BY <1>a, <2>1, SpawnAssumption
<1> QED  BY <1>8, <1>9, <1>10, <1>11, <1>12, <1>13

(* The own streams are read: the entries of the children are left.         *)
LEMMA WaitOwnStep ==
    ASSUME IInv, WaitOwn
    PROVE  IInv'
<1> DEFINE ready == {i \in {2, 1} : fds[i].revents # {}}
           others == count - Cardinality(ready)
<1>1. /\ pc = "own"
      /\ fds' = [i \in 1 .. MaxPollFds |->
                    IF i \in ready THEN [fds[i] EXCEPT !.revents = {}] ELSE fds[i]]
      /\ lines' = Drained(Self, Reading)
      /\ count' = others
      /\ pc' = IF others > 0 THEN "check" ELSE "poll"
      /\ itr' = 1
      /\ UNCHANGED <<ending, nfds, processes, files, child, requests, erlang,
                     reported, history>>
  BY DEF WaitOwn, INDEX_STDOUT, INDEX_STDERR
<1>2. /\ Len(processes) \in Nat /\ nfds = 3 + 2 * Len(processes)
      /\ nfds \in Nat /\ nfds >= 3 /\ nfds <= MaxPollFds /\ MaxPollFds \in Nat
      /\ \A i \in 1 .. MaxPollFds : fds[i] \in PollEntry
      /\ \A k \in 1 .. Len(processes) : \A n \in Streams :
            2 * k + 1 + n \in 4 .. nfds
  BY <1>1, Places
<1>3. Shape /\ Counters /\ Counted /\ Seen /\ Vector
  BY DEF IInv
<1>4. pc' \in {"poll", "check"}
  BY <1>1
<1>5. /\ fds' \in [1 .. MaxPollFds -> PollEntry]
      /\ \A i \in 1 .. MaxPollFds : fds'[i].fd = fds[i].fd
      /\ \A i \in 4 .. nfds : fds'[i] = fds[i]
  <2>1. ASSUME NEW i \in 1 .. MaxPollFds
        PROVE  /\ [fds[i] EXCEPT !.revents = {}] \in PollEntry
               /\ [fds[i] EXCEPT !.revents = {}].fd = fds[i].fd
    <3>1. fds[i] \in PollEntry
      BY <1>2
    <3> QED  BY <3>1 DEF PollEntry
  <2>2. \A i \in 4 .. nfds : i \notin ready /\ i \in 1 .. MaxPollFds
    BY <1>2
  <2> QED  BY <1>1, <1>2, <2>1, <2>2
<1>6. /\ lines' \in [Children \cup {Self} -> [Streams -> Nat]]
      /\ \A c \in Children : lines'[c] = lines[c]
  <2>1. lines \in [Children \cup {Self} -> [Streams -> Nat]]
    BY <1>3 DEF Shape
  <2>2. /\ Drained(Self, Reading) \in [Children \cup {Self} -> [Streams -> Nat]]
        /\ \A c \in Children : \A n \in Streams :
              Drained(Self, Reading)[c][n] = lines[c][n]
    <3>1. Self \in Children \cup {Self} /\ \A c \in Children : c # Self
      BY SpawnAssumption
    <3> QED  BY <2>1, <3>1, DrainedIs
  <2>3. \A c \in Children : lines'[c] = lines[c]
    <3> SUFFICES ASSUME NEW c \in Children
                 PROVE  lines'[c] = lines[c]
      OBVIOUS
    <3>1. lines'[c] \in [Streams -> Nat] /\ lines[c] \in [Streams -> Nat]
      BY <1>1, <2>1, <2>2
    <3>2. \A n \in Streams : lines'[c][n] = lines[c][n]
      BY <1>1, <2>2
    <3> QED  BY <3>1, <3>2
  <2> QED  BY <1>1, <2>2, <2>3
<1>7. others = Cardinality(Ready(4 .. nfds)) /\ others \in 0 .. MaxPollFds
  <2>1. IsFiniteSet({1, 2}) /\ IsFiniteSet(4 .. nfds)
    <3>1. IsFiniteSet({1} \cup {2}) /\ {1, 2} = {1} \cup {2}
      BY FS_Singleton, FS_AddElement
    <3>2. IsFiniteSet(4 .. nfds)
      BY <1>2, FS_Interval
    <3> QED  BY <3>1, <3>2
  <2>2. {1, 2} \cap 4 .. nfds = {}
    BY <1>2
  <2>4. ready = Ready({1, 2})
    BY DEF Ready
  <2>5. /\ Cardinality(Ready({1, 2} \cup 4 .. nfds)) =
              Cardinality(Ready({1, 2})) + Cardinality(Ready(4 .. nfds))
        /\ Cardinality(Ready({1, 2})) \in Nat
        /\ Cardinality(Ready(4 .. nfds)) \in Nat
    BY <2>1, <2>2, ReadySplit
  <2>6. count = Cardinality(Ready({1, 2} \cup 4 .. nfds))
        /\ count \in 0 .. MaxPollFds
    BY <1>1, <1>3 DEF Counted
  <2>7. others = count - Cardinality(Ready({1, 2}))
    BY <2>4
  <2> HIDE DEF others, ready
  <2> QED  BY <1>2, <2>5, <2>6, <2>7
<1> HIDE DEF others, ready
<1>8. Counters'
  <2>1. UNCHANGED <<requests, child, processes>> /\ itr' = 1
    BY <1>1
  <2> QED  BY <1>2, <1>3, <1>4, <2>1, Constants DEF Counters
<1>9. Counted'
  <2>1. Ready(4 .. nfds)' = Ready(4 .. nfds)
    BY <1>1, <1>5 DEF Ready
  <2>2. 2 + 2 * itr' = 4 /\ nfds' = nfds
    BY <1>1
  <2>3. Ready(2 + 2 * itr .. nfds)' = Ready(4 .. nfds)
    BY <2>1, <2>2 DEF Ready
  <2>4. count' = Cardinality(Ready(4 .. nfds)) /\ count' \in 0 .. MaxPollFds
        /\ pc' # "own" /\ pc' # "erlang"
    BY <1>1, <1>4, <1>7
  <2> QED  BY <2>3, <2>4 DEF Counted
<1>10. Seen'
  <2>1. UNCHANGED <<processes, hungup, closers>> /\ itr' = 1
    BY <1>1 DEF history
  <2>2. \A k \in 1 .. Len(processes) :
           /\ processes[k].pid \in Children /\ k >= 1
           /\ \A n \in Streams : fds'[2 * k + 1 + n] = fds[2 * k + 1 + n]
    BY <1>2, <1>3, <1>5, VectorFacts
  <2>3. pc' \notin {"erlang", "own"} /\ pc \in {"erlang", "own"} /\ Seen
    BY <1>1, <1>3, <1>4
  <2>4. \A k \in 1 .. Len(processes) : lines'[processes[k].pid] = lines[processes[k].pid]
    BY <1>6, <2>2
  <2> QED  BY <2>1, <2>2, <2>3, <2>4 DEF Seen
<1>11. \A c \in Children : \A n \in Streams : lines'[c][n] <= lines[c][n]
  <2>1. \A c \in Children : lines[c] \in [Streams -> Nat]
    BY <1>3 DEF Shape
  <2> QED  BY <1>6, <2>1
<1> QED
  BY <1>1, <1>4, <1>5, <1>6, <1>8, <1>9, <1>10, <1>11, ReadKeeps DEF IInv

-----------------------------------------------------------------------------
(* One process of the vector                                               *)

\* What consume_stream and flush_stream work on.
Looks == [count : Nat, revents : [Streams -> SUBSET {"IN", "HUP"}],
          read : SUBSET Streams, hup : BOOLEAN]

\* A stream that is ready counts.
One(revents) == IF revents = {} THEN 0 ELSE 1

(* consume_stream reads a stream that is ready and did not hang up.        *)
LEMMA ConsumeIs ==
    ASSUME NEW x \in Looks, NEW n \in Streams, ~x.hup,
           x.count >= One(x.revents[n])
    PROVE  LET y == consume_stream(x, n)
           IN  /\ y \in Looks
               /\ y.hup <=> "HUP" \in x.revents[n]
               /\ y.hup => /\ y.count = x.count /\ y.revents = x.revents
                           /\ y.read = x.read
               /\ ~y.hup => /\ y.count = x.count - One(x.revents[n])
                            /\ y.revents = [x.revents EXCEPT ![n] = {}]
                            /\ x.revents[n] # {} => n \in y.read
                            /\ x.read \subseteq y.read
<1> DEFINE y == consume_stream(x, n)
<1>0. /\ x.count \in Nat /\ x.revents \in [Streams -> SUBSET {"IN", "HUP"}]
      /\ x.read \in SUBSET Streams /\ x.hup = FALSE
  BY DEF Looks
<1>1. CASE x.revents[n] = {}
  <2>1. y = x
    BY <1>1 DEF consume_stream
  <2>2. x.revents = [x.revents EXCEPT ![n] = {}]
    BY <1>0, <1>1
  <2> HIDE DEF y
  <2> QED  BY <1>0, <1>1, <2>1, <2>2 DEF One, y
<1>2. CASE x.revents[n] # {} /\ "HUP" \in x.revents[n]
  <2>1. x.count # 0
    BY <1>2 DEF One
  <2>2. y = [x EXCEPT !.hup = TRUE]
    BY <1>2, <2>1 DEF consume_stream
  <2>3. /\ y \in Looks /\ y.hup = TRUE /\ y.count = x.count
        /\ y.revents = x.revents /\ y.read = x.read
    BY <2>2 DEF Looks
  <2> HIDE DEF y
  <2> QED  BY <1>2, <2>3 DEF y
<1>3. CASE x.revents[n] # {} /\ "HUP" \notin x.revents[n]
  <2>1. x.count # 0 /\ x.count - 1 \in Nat
    BY <1>0, <1>3 DEF One
  <2> DEFINE r == [x.revents EXCEPT ![n] = {}]
             s == x.read \cup {n}
             q == x.count - 1
  <2>2. y = [x EXCEPT !.revents = r, !.count = q, !.read = s]
    BY <1>3, <2>1 DEF consume_stream
  <2>3. /\ r \in [Streams -> SUBSET {"IN", "HUP"}] /\ s \in SUBSET Streams
        /\ q \in Nat
    BY <1>0, <2>1
  <2> HIDE DEF y, r, s, q
  <2>5. /\ y \in Looks /\ y.hup = FALSE /\ y.count = q /\ y.revents = r
        /\ y.read = s
    BY <1>0, <2>2, <2>3 DEF Looks
  <2>4. /\ y \in Looks /\ y.hup = FALSE /\ y.count = x.count - 1
        /\ y.revents = [x.revents EXCEPT ![n] = {}]
        /\ y.read = x.read \cup {n}
    BY <2>5 DEF r, s, q
  <2> QED  BY <1>3, <2>4 DEF y, One
<1> QED  BY <1>1, <1>2, <1>3

(* flush_stream counts a stream that is ready, and reads what is there.    *)
LEMMA FlushIs ==
    ASSUME NEW x \in Looks, NEW n \in Streams, x.count >= One(x.revents[n])
    PROVE  LET y == flush_stream(x, n)
           IN  /\ y \in Looks /\ y.revents = x.revents
               /\ y.count = x.count - One(x.revents[n])
               /\ "IN" \in x.revents[n] => n \in y.read
               /\ x.read \subseteq y.read
<1> DEFINE y == flush_stream(x, n)
           read == IF "IN" \in x.revents[n] THEN x.read \cup {n} ELSE x.read
<1>0. /\ x.count \in Nat /\ x.read \in SUBSET Streams
  BY DEF Looks
<1>1. CASE x.revents[n] = {}
  <2>1. y = x
    BY <1>1 DEF flush_stream
  <2> QED  BY <1>0, <1>1, <2>1 DEF One
<1>2. CASE x.revents[n] # {}
  <2>1. x.count # 0 /\ x.count - 1 \in Nat
    BY <1>0, <1>2 DEF One
  <2>2. y = [x EXCEPT !.count = @ - 1, !.read = read]
    BY <1>2, <2>1 DEF flush_stream
  <2>3. read \in SUBSET Streams /\ x.read \subseteq read
        /\ ("IN" \in x.revents[n] => n \in read)
    BY <1>0
  <2> HIDE DEF read
  <2>4. /\ y \in Looks /\ y.revents = x.revents /\ y.count = x.count - 1
        /\ y.read = read
    BY <1>0, <2>1, <2>2, <2>3 DEF Looks
  <2> HIDE DEF y
  <2> QED  BY <1>2, <2>3, <2>4 DEF y, One
<1> QED  BY <1>1, <1>2

(* check finds a hang-up of either stream; otherwise it reads both.  What  *)
(* is left to read after a hang-up is read by flush.  Both count each      *)
(* stream that is ready once.                                              *)
LEMMA CheckFlush ==
    ASSUME NEW x \in Looks, ~x.hup,
           x.count >= One(x.revents[1]) + One(x.revents[2])
    PROVE  LET y == check(x)
               behind == x.count - One(x.revents[1]) - One(x.revents[2])
           IN  /\ y \in Looks /\ flush(y) \in Looks
               /\ y.hup <=> \E n \in Streams : "HUP" \in x.revents[n]
               /\ ~y.hup => /\ y.count = behind
                            /\ \A n \in Streams : y.revents[n] = {}
                            /\ \A n \in Streams : x.revents[n] # {} => n \in y.read
               /\ y.hup => /\ flush(y).count = behind
                           /\ \A n \in Streams :
                                 "IN" \in x.revents[n] => n \in flush(y).read
<1> DEFINE a == consume_stream(x, 2)
           y == consume_stream(a, 1)
           f == flush_stream(y, 2)
           g == flush_stream(f, 1)
<1>0. /\ Streams = {1, 2} /\ 1 \in Streams /\ 2 \in Streams
      /\ check(x) = y /\ flush(y) = g
  BY DEF Streams, stdout, stderr, check, flush
<1>1. /\ x.count \in Nat /\ x.revents \in [Streams -> SUBSET {"IN", "HUP"}]
      /\ \A z \in Looks : z.count \in Nat
      /\ \A z \in Looks : z.revents \in [Streams -> SUBSET {"IN", "HUP"}]
  BY DEF Looks
<1>2. One(x.revents[1]) \in {0, 1} /\ One(x.revents[2]) \in {0, 1} /\ One({}) = 0
  BY DEF One
<1>3. /\ a \in Looks
      /\ a.hup <=> "HUP" \in x.revents[2]
      /\ a.hup => /\ a.count = x.count /\ a.revents = x.revents
      /\ ~a.hup => /\ a.count = x.count - One(x.revents[2])
                   /\ a.revents = [x.revents EXCEPT ![2] = {}]
                   /\ x.revents[2] # {} => 2 \in a.read
  <2>1. x.count >= One(x.revents[2])
    BY <1>1, <1>2
  <2> QED  BY <1>0, <2>1, ConsumeIs
<1> HIDE DEF a
<1>4. CASE "HUP" \in x.revents[2]
  <2>1. y = a /\ a.hup /\ a.count = x.count /\ a.revents = x.revents
    BY <1>3, <1>4 DEF consume_stream
  <2> HIDE DEF y
  <2>2. /\ f \in Looks /\ f.revents = x.revents
        /\ f.count = x.count - One(x.revents[2])
        /\ "IN" \in x.revents[2] => 2 \in f.read
    <3>1. y \in Looks /\ y.count >= One(y.revents[2])
      BY <1>1, <1>2, <1>3, <2>1
    <3> QED  BY <1>0, <2>1, <3>1, FlushIs
  <2> HIDE DEF f
  <2>3. /\ g \in Looks /\ g.count = f.count - One(x.revents[1])
        /\ "IN" \in x.revents[1] => 1 \in g.read
        /\ f.read \subseteq g.read
    <3>1. f.count >= One(f.revents[1])
      BY <1>1, <1>2, <2>2
    <3> QED  BY <1>0, <2>2, <3>1, FlushIs
  <2> HIDE DEF g
  <2>4. g.count = x.count - One(x.revents[1]) - One(x.revents[2])
    BY <1>1, <1>2, <2>2, <2>3
  <2> QED  BY <1>0, <1>3, <1>4, <2>1, <2>2, <2>3, <2>4
<1>5. CASE "HUP" \notin x.revents[2]
  <2>1. ~a.hup /\ a.revents[1] = x.revents[1] /\ a.revents[2] = {}
        /\ a.count = x.count - One(x.revents[2])
        /\ a.count \in Nat /\ a.count >= One(a.revents[1])
    BY <1>0, <1>1, <1>2, <1>3, <1>5
  <2>2. /\ y \in Looks
        /\ y.hup <=> "HUP" \in x.revents[1]
        /\ y.hup => /\ y.count = a.count /\ y.revents = a.revents
                    /\ y.read = a.read
        /\ ~y.hup => /\ y.count = a.count - One(x.revents[1])
                     /\ y.revents = [a.revents EXCEPT ![1] = {}]
                     /\ x.revents[1] # {} => 1 \in y.read
                     /\ a.read \subseteq y.read
    BY <1>0, <1>3, <2>1, ConsumeIs
  <2> HIDE DEF y
  <2>3. f \in Looks /\ (y.hup => f = y)
    <3>1. y.hup => f = y
      BY <2>1, <2>2 DEF flush_stream
    <3>2. y.revents[2] = {}
      BY <1>0, <1>1, <1>3, <2>1, <2>2
    <3>3. y.count >= One(y.revents[2])
      BY <1>1, <1>2, <2>2, <3>2
    <3> QED  BY <1>0, <2>2, <3>1, <3>3, FlushIs
  <2> HIDE DEF f
  <2>4. f.count >= One(f.revents[1])
    <3>1. CASE y.hup
      <4>1. f = y /\ y.count = a.count /\ y.revents = a.revents
        BY <2>2, <2>3, <3>1
      <4> QED  BY <2>1, <4>1
    <3>2. CASE ~y.hup
      <4>1. y.revents[1] = {} /\ y.revents[2] = {}
        BY <1>0, <1>1, <1>3, <2>1, <2>2, <3>2
      <4>2. f = y
        BY <4>1 DEF flush_stream, f
      <4>3. y.count \in Nat
        BY <1>1, <2>2
      <4>4. f.count \in Nat /\ One(f.revents[1]) = 0
        BY <1>2, <4>1, <4>2, <4>3
      <4> QED  BY <4>4
    <3> QED  BY <3>1, <3>2
  <2>5. /\ g \in Looks /\ g.count = f.count - One(f.revents[1])
        /\ "IN" \in f.revents[1] => 1 \in g.read
        /\ f.read \subseteq g.read
    BY <1>0, <2>3, <2>4, FlushIs
  <2> HIDE DEF g
  <2>6. CASE y.hup
    <3>1. g.count = x.count - One(x.revents[1]) - One(x.revents[2])
      BY <1>1, <1>2, <2>1, <2>2, <2>3, <2>5, <2>6
    <3>2. "IN" \in x.revents[2] => 2 \in g.read
      BY <1>3, <2>1, <2>2, <2>3, <2>5, <2>6
    <3>3. "IN" \in x.revents[1] => 1 \in g.read
      BY <2>1, <2>2, <2>3, <2>5, <2>6
    <3> QED  BY <1>0, <2>2, <2>5, <2>6, <3>1, <3>2, <3>3
  <2>7. CASE ~y.hup
    <3>1. y.revents[1] = {} /\ y.revents[2] = {}
      BY <1>0, <1>1, <1>3, <2>1, <2>2, <2>7
    <3>2. y.count = x.count - One(x.revents[1]) - One(x.revents[2])
      BY <1>1, <1>2, <2>1, <2>2, <2>7
    <3>3. \A n \in Streams : x.revents[n] # {} => n \in y.read
      BY <1>0, <1>3, <2>1, <2>2, <2>7
    <3> QED  BY <1>0, <1>5, <2>2, <2>5, <2>7, <3>1, <3>2, <3>3
  <2> QED  BY <2>6, <2>7
<1> QED  BY <1>4, <1>5

(* The ready entries of two neighbours.                                    *)
LEMMA PairReady ==
    ASSUME NEW i \in Nat
    PROVE  /\ IsFiniteSet({i, i + 1})
           /\ Cardinality(Ready({i, i + 1})) =
                 One(fds[i].revents) + One(fds[i + 1].revents)
<1>1. /\ IsFiniteSet({i}) /\ IsFiniteSet({i + 1}) /\ {i} \cap {i + 1} = {}
      /\ {i, i + 1} = {i} \cup {i + 1}
  <2>1. IsFiniteSet({i}) /\ IsFiniteSet({i + 1})
    BY FS_Singleton
  <2>2. {i} \cap {i + 1} = {} /\ {i, i + 1} = {i} \cup {i + 1}
    OBVIOUS
  <2> QED  BY <2>1, <2>2
<1>2. \A j \in {i, i + 1} : Cardinality(Ready({j})) = One(fds[j].revents)
  <2> SUFFICES ASSUME NEW j \in {i, i + 1}
               PROVE  Cardinality(Ready({j})) = One(fds[j].revents)
    OBVIOUS
  <2>1. CASE fds[j].revents = {}
    <3>1. Ready({j}) = {}
      BY <2>1 DEF Ready
    <3> QED  BY <2>1, <3>1, FS_EmptySet DEF One
  <2>2. CASE fds[j].revents # {}
    <3>1. Ready({j}) = {j}
      BY <2>2 DEF Ready
    <3> QED  BY <2>2, <3>1, FS_Singleton DEF One
  <2> QED  BY <2>1, <2>2
<1>3. Cardinality(Ready({i} \cup {i + 1})) =
         Cardinality(Ready({i})) + Cardinality(Ready({i + 1}))
  BY <1>1, ReadySplit
<1>4. IsFiniteSet({i} \cup {i + 1})
  BY <1>1, FS_Union
<1> QED  BY <1>1, <1>2, <1>3, <1>4

(* What is found for the process the loop looks at.                        *)
LEMMA CurrentIs ==
    ASSUME IInv, Looking
    PROVE  LET revents(n) == fds[2 * itr + 1 + n].revents
               behind == Cardinality(Ready(4 + 2 * itr .. nfds))
           IN  /\ itr \in 1 .. Len(processes) /\ pc = "check"
               /\ behind \in 0 .. MaxPollFds
               /\ Current \in Looks /\ flush(Current) \in Looks
               /\ Current.hup <=> \E n \in Streams : "HUP" \in revents(n)
               /\ ~Current.hup =>
                     /\ Current.count = behind
                     /\ \A n \in Streams : Current.revents[n] = {}
               /\ Current.hup =>
                     /\ flush(Current).count = behind
                     /\ \A n \in Streams :
                           "IN" \in revents(n) => n \in flush(Current).read
<1> DEFINE revents(n) == fds[2 * itr + 1 + n].revents
           r == [n \in Streams |-> revents(n)]
           x == [count |-> count, revents |-> r, read |-> {}, hup |-> FALSE]
           behind == Cardinality(Ready(4 + 2 * itr .. nfds))
<1>1. pc = "check" /\ itr <= Len(processes)
  BY DEF Looking
<1>2. /\ Len(processes) \in Nat /\ nfds = 3 + 2 * Len(processes)
      /\ nfds \in Nat /\ nfds <= MaxPollFds /\ MaxPollFds \in Nat
      /\ \A i \in 1 .. MaxPollFds : fds[i].revents \in SUBSET {"IN", "HUP"}
  BY <1>1, Places
<1>3. itr \in 1 .. Len(processes) /\ itr \in Nat
  BY <1>1, <1>2, Constants DEF IInv, Counters
<1>4. Streams = {1, 2} /\ stdout = 1 /\ stderr = 2
  BY DEF Streams, stdout, stderr
<1>5. 2 + 2 * itr \in 1 .. MaxPollFds /\ 3 + 2 * itr \in 1 .. MaxPollFds
      /\ 2 * itr + 1 + 1 = 2 + 2 * itr /\ 2 * itr + 1 + 2 = 3 + 2 * itr
  BY <1>2, <1>3
<1>6. r \in [Streams -> SUBSET {"IN", "HUP"}]
  BY <1>2, <1>4, <1>5
<1>7. Current = check(x)
  <2>1. /\ processes[itr].index_stdout = 2 + 2 * itr
        /\ processes[itr].index_stderr = 3 + 2 * itr
    BY <1>3, VectorFacts DEF IInv
  <2>2. [n \in Streams |-> IF n = stdout
                           THEN fds[processes[itr].index_stdout].revents
                           ELSE fds[processes[itr].index_stderr].revents] = r
    BY <1>4, <1>5, <2>1
  <2> QED  BY <2>2 DEF Current
<1>8. r[1] = fds[2 + 2 * itr].revents /\ r[2] = fds[3 + 2 * itr].revents
      /\ \A n \in Streams : r[n] = revents(n)
  BY <1>4, <1>5
<1>9. /\ count = One(r[1]) + One(r[2]) + behind /\ behind \in Nat /\ count \in Nat
      /\ behind \in 0 .. MaxPollFds
  <2>1. /\ IsFiniteSet({2 + 2 * itr, 2 + 2 * itr + 1})
        /\ Cardinality(Ready({2 + 2 * itr, 2 + 2 * itr + 1})) =
              One(fds[2 + 2 * itr].revents) + One(fds[2 + 2 * itr + 1].revents)
    <3>1. 2 + 2 * itr \in Nat
      BY <1>3
    <3> QED  BY <3>1, PairReady
  <2>2. 2 + 2 * itr + 1 = 3 + 2 * itr
    BY <1>3
  <2>3. IsFiniteSet(4 + 2 * itr .. nfds)
    BY <1>2, <1>3, FS_Interval
  <2>4. 2 + 2 * itr .. nfds = {2 + 2 * itr, 3 + 2 * itr} \cup 4 + 2 * itr .. nfds
    BY <1>2, <1>3
  <2>5. {2 + 2 * itr, 3 + 2 * itr} \cap 4 + 2 * itr .. nfds = {}
    BY <1>3
  <2>6. /\ Cardinality(Ready({2 + 2 * itr, 3 + 2 * itr} \cup 4 + 2 * itr .. nfds)) =
              Cardinality(Ready({2 + 2 * itr, 3 + 2 * itr})) + behind
        /\ behind \in Nat
    BY <2>1, <2>2, <2>3, <2>5, ReadySplit
  <2>7. count = Cardinality(Ready(2 + 2 * itr .. nfds)) /\ count \in 0 .. MaxPollFds
    BY <1>1 DEF IInv, Counted
  <2>8. One(r[1]) \in Nat /\ One(r[2]) \in Nat
    BY DEF One
  <2>9. count = One(r[1]) + One(r[2]) + behind
    BY <1>8, <2>1, <2>2, <2>4, <2>6, <2>7
  <2> HIDE DEF behind, r
  <2> QED  BY <1>2, <2>6, <2>7, <2>8, <2>9
<1> HIDE DEF behind, r
<1>10. x \in Looks /\ x.hup = FALSE /\ x.count = count /\ x.revents = r
  BY <1>6, <1>9 DEF Looks
<1> HIDE DEF x
<1>11. One(r[1]) \in Nat /\ One(r[2]) \in Nat
  BY DEF One
<1>12. x.count >= One(x.revents[1]) + One(x.revents[2])
       /\ x.count - One(x.revents[1]) - One(x.revents[2]) = behind
  BY <1>9, <1>10, <1>11
<1>13. LET y == check(x)
       IN  /\ y \in Looks /\ flush(y) \in Looks
           /\ y.hup <=> \E n \in Streams : "HUP" \in x.revents[n]
           /\ ~y.hup => /\ y.count = behind
                        /\ \A n \in Streams : y.revents[n] = {}
           /\ y.hup => /\ flush(y).count = behind
                       /\ \A n \in Streams :
                             "IN" \in x.revents[n] => n \in flush(y).read
  BY <1>10, <1>12, CheckFlush
<1>14. \A n \in Streams : x.revents[n] = revents(n)
  BY <1>8, <1>10
<1> QED  BY <1>1, <1>3, <1>7, <1>9, <1>13, <1>14 DEF behind

(* A process that did not hang up is read, and the loop goes on.           *)
LEMMA CheckStep ==
    ASSUME IInv, Check
    PROVE  IInv'
<1> DEFINE c == processes[itr].pid
           a == 2 + 2 * itr
           b == 3 + 2 * itr
           behind == Cardinality(Ready(4 + 2 * itr .. nfds))
<1>1. /\ Looking /\ ~Current.hup
      /\ lines' = Drained(c, Current.read)
      /\ count' = Current.count
      /\ itr' = itr + 1
      /\ UNCHANGED <<ending, nfds, processes, pc, files, child, requests, erlang,
                     reported, history>>
  BY DEF Check
<1>2. /\ itr \in 1 .. Len(processes) /\ pc = "check"
      /\ behind \in 0 .. MaxPollFds /\ Current.count = behind
      /\ \A n \in Streams : Current.revents[n] = {}
  BY <1>1, CurrentIs
<1>3. /\ Len(processes) \in Nat /\ nfds = 3 + 2 * Len(processes)
      /\ nfds \in Nat /\ nfds >= 3 /\ nfds <= MaxPollFds /\ MaxPollFds \in Nat
      /\ fds \in [1 .. MaxPollFds -> PollEntry]
      /\ \A i \in 1 .. MaxPollFds : fds[i] \in PollEntry
      /\ \A k \in 1 .. Len(processes) : \A n \in Streams :
            2 * k + 1 + n \in 4 .. nfds
  BY <1>2, Places
<1>4. Shape /\ Counters /\ Counted /\ Seen /\ Vector
  BY DEF IInv
<1>5. c \in Children /\ processes[itr].index_stdout = a
      /\ processes[itr].index_stderr = b
  BY <1>2, <1>4, VectorFacts
<1>6. fds' = [fds EXCEPT ![a].revents = {}, ![b].revents = {}]
  <2>1. 1 \in Streams /\ 2 \in Streams /\ stdout = 1 /\ stderr = 2
    BY DEF Streams, stdout, stderr
  <2>2. fds' = [fds EXCEPT ![a].revents = Current.revents[1],
                           ![b].revents = Current.revents[2]]
    BY <1>5, <2>1 DEF Check
  <2> QED  BY <1>2, <2>1, <2>2
<1>7. a \in 1 .. MaxPollFds /\ b \in 1 .. MaxPollFds /\ a # b
  BY <1>2, <1>3
<1>8. /\ fds' \in [1 .. MaxPollFds -> PollEntry]
      /\ \A i \in 1 .. MaxPollFds : fds'[i].fd = fds[i].fd
      /\ \A i \in (1 .. MaxPollFds) \ {a, b} : fds'[i] = fds[i]
  <2> DEFINE u == [fds[a] EXCEPT !.revents = {}]
             v == [fds[b] EXCEPT !.revents = {}]
  <2>1. fds[a] \in PollEntry /\ fds[b] \in PollEntry
    BY <1>3, <1>7
  <2>2. u \in PollEntry /\ v \in PollEntry /\ u.fd = fds[a].fd /\ v.fd = fds[b].fd
    BY <2>1 DEF PollEntry
  <2> HIDE DEF a, b
  <2>3. fds' = [[fds EXCEPT ![a] = u] EXCEPT ![b] = v]
    BY <1>3, <1>6, <1>7
  <2> HIDE DEF u, v
  <2> QED  BY <1>3, <1>7, <2>2, <2>3
<1>9. /\ lines' \in [Children \cup {Self} -> [Streams -> Nat]]
      /\ \A d \in Children : \A n \in Streams : lines'[d][n] <= lines[d][n]
      /\ \A d \in Children : \A n \in Streams :
            d # c => lines'[d][n] = lines[d][n]
  <2>1. lines \in [Children \cup {Self} -> [Streams -> Nat]]
    BY <1>4 DEF Shape
  <2>2. c \in Children \cup {Self}
    BY <1>5
  <2> DEFINE read == Current.read
  <2>3. lines' = Drained(c, read)
    BY <1>1
  <2> HIDE DEF c, read
  <2>4. /\ Drained(c, read) \in [Children \cup {Self} -> [Streams -> Nat]]
        /\ \A d \in Children \cup {Self} : \A n \in Streams :
              /\ Drained(c, read)[d][n] <= lines[d][n]
              /\ d # c => Drained(c, read)[d][n] = lines[d][n]
    BY <2>1, <2>2, DrainedIs
  <2> QED  BY <2>3, <2>4
<1>10. pc' = "check" /\ pc' \in {"poll", "check"} /\ UNCHANGED ending
  BY <1>1, <1>2
<1>11. Counters'
  <2>1. UNCHANGED <<requests, child, processes>> /\ itr' = itr + 1
    BY <1>1
  <2>2. Len(processes) <= Cardinality(Children)
    BY <1>4, VectorSize
  <2>3. itr + 1 \in 1 .. Cardinality(Children) + 1 /\ itr + 1 <= Len(processes) + 1
    BY <1>2, <1>3, <2>2, Constants
  <2>4. pc' # "erlang"
    BY <1>10
  <2> QED  BY <1>4, <2>1, <2>3, <2>4 DEF Counters
<1>12. Counted'
  <2>1. 2 + 2 * itr' = 4 + 2 * itr /\ nfds' = nfds
    BY <1>1, <1>2
  <2>2. \A i \in 4 + 2 * itr .. nfds : i \in (1 .. MaxPollFds) \ {a, b}
    BY <1>2, <1>3
  <2>3. Ready(2 + 2 * itr .. nfds)' = Ready(4 + 2 * itr .. nfds)
    BY <1>8, <2>1, <2>2 DEF Ready
  <2>4. count' = behind /\ count' \in 0 .. MaxPollFds
        /\ pc' # "own" /\ pc' # "erlang"
    BY <1>1, <1>2, <1>10
  <2> QED  BY <2>3, <2>4 DEF Counted
<1>13. Seen'
  <2>1. UNCHANGED <<processes, hungup, closers>> /\ itr' = itr + 1
    BY <1>1 DEF history
  <2> SUFFICES ASSUME pc' = "check", NEW k \in 1 .. Len(processes)
               PROVE  LET d == processes[k].pid
                          revents(n) == fds'[2 * k + 1 + n].revents
                      IN  /\ (\E n \in Streams : "HUP" \in revents(n)) =>
                                d \in hungup
                          /\ k >= itr + 1 /\ d \notin closers
                             /\ (\E n \in Streams : "HUP" \in revents(n)) =>
                                 \A n \in Streams :
                                     lines'[d][n] > 0 => "IN" \in revents(n)
    BY <1>10, <2>1 DEF Seen
  <2>2. CASE k = itr
    <3>1. \A n \in Streams : fds'[2 * k + 1 + n].revents = {}
      <4> DEFINE u == [fds[a] EXCEPT !.revents = {}]
                 v == [fds[b] EXCEPT !.revents = {}]
      <4>1. u.revents = {} /\ v.revents = {}
        <5>1. fds[a] \in PollEntry /\ fds[b] \in PollEntry
          BY <1>3, <1>7
        <5> QED  BY <5>1 DEF PollEntry
      <4>2. fds'[a] = u /\ fds'[b] = v
        BY <1>3, <1>6, <1>7
      <4>3. \A n \in Streams : 2 * itr + 1 + n \in {a, b}
        BY <1>2 DEF Streams, stdout, stderr
      <4> HIDE DEF a, b, u, v
      <4> QED  BY <2>2, <4>1, <4>2, <4>3
    <3> QED  BY <3>1
  <2>3. CASE k # itr
    <3>1. \A n \in Streams : fds'[2 * k + 1 + n] = fds[2 * k + 1 + n]
      <4>1. \A n \in Streams : 2 * k + 1 + n \in 4 .. nfds
        BY <1>3
      <4>2. \A n \in {1, 2} : 2 * k + 1 + n # a /\ 2 * k + 1 + n # b
        BY <1>2, <1>3, <2>3
      <4>3. Streams = {1, 2}
        BY DEF Streams, stdout, stderr
      <4>5. \A n \in Streams : 2 * k + 1 + n \in 1 .. MaxPollFds
        BY <1>3, <4>1
      <4> HIDE DEF a, b
      <4>4. \A n \in Streams : 2 * k + 1 + n \in (1 .. MaxPollFds) \ {a, b}
        BY <4>2, <4>3, <4>5
      <4> QED  BY <1>8, <4>4
    <3>2. processes[k].pid \in Children /\ processes[k].pid # c
      BY <1>2, <1>4, <2>3, VectorFacts DEF Vector
    <3>3. \A n \in Streams :
             lines'[processes[k].pid][n] = lines[processes[k].pid][n]
      BY <1>9, <3>2
    <3>4. k >= itr + 1 => k >= itr
      BY <1>2, <1>3
    <3> QED  BY <1>2, <1>4, <3>1, <3>3, <3>4 DEF Seen
  <2> QED  BY <2>2, <2>3
<1> QED
  BY <1>1, <1>2, <1>8, <1>9, <1>10, <1>11, <1>12, <1>13, ReadKeeps DEF IInv

\* The place that a process of the shortened vector had before.
Before(k) == IF k < itr THEN k ELSE k + 1

(* The entries behind the process at itr are moved up by two, those before *)
(* it stay.                                                                *)
LEMMA ShiftIs ==
    ASSUME IInv, pc = "check", itr \in 1 .. Len(processes)
    PROVE  /\ shift \in [1 .. MaxPollFds -> PollEntry]
           /\ \A i \in 1 .. MaxPollFds :
                 shift[i] = IF i \in 2 + 2 * itr .. nfds - 2
                            THEN fds[i + 2] ELSE fds[i]
<1>1. /\ Len(processes) \in Nat /\ nfds = 3 + 2 * Len(processes)
      /\ nfds \in Nat /\ nfds <= MaxPollFds /\ MaxPollFds \in Nat
      /\ \A i \in 1 .. MaxPollFds : fds[i] \in PollEntry
  BY Places
<1>2. Vector
  BY DEF IInv
<1> DEFINE moves(i) == \E k \in itr + 1 .. Len(processes) :
                          i + 2 \in {processes[k].index_stdout,
                                     processes[k].index_stderr}
<1>3. ASSUME NEW i \in 1 .. MaxPollFds
      PROVE  moves(i) <=> i \in 2 + 2 * itr .. nfds - 2
  <2>1. \A k \in itr + 1 .. Len(processes) :
           /\ k \in 1 .. Len(processes)
           /\ processes[k].index_stdout = 2 + 2 * k
           /\ processes[k].index_stderr = 3 + 2 * k
    <3>1. \A k \in itr + 1 .. Len(processes) : k \in 1 .. Len(processes)
      BY <1>1
    <3> QED  BY <1>2, <3>1, VectorFacts
  <2>2. ASSUME moves(i)
        PROVE  i \in 2 + 2 * itr .. nfds - 2
    <3>1. PICK k \in itr + 1 .. Len(processes) : i + 2 \in {2 + 2 * k, 3 + 2 * k}
      BY <2>1, <2>2
    <3> QED  BY <1>1, <3>1
  <2>3. ASSUME i \in 2 + 2 * itr .. nfds - 2
        PROVE  moves(i)
    <3>1. \E k \in itr + 1 .. Len(processes) : i + 2 \in {2 + 2 * k, 3 + 2 * k}
      <4> DEFINE k == i \div 2
      <4>1. k \in Int /\ (i = 2 * k \/ i = 2 * k + 1)
        OBVIOUS
      <4> HIDE DEF k
      <4>2. k \in itr + 1 .. Len(processes)
        BY <1>1, <2>3, <4>1
      <4>3. i + 2 \in {2 + 2 * k, 3 + 2 * k}
        BY <1>1, <4>1
      <4> QED  BY <4>2, <4>3
    <3> QED  BY <2>1, <3>1
  <2> QED  BY <2>2, <2>3
<1>4. shift = [i \in 1 .. MaxPollFds |-> IF moves(i) THEN fds[i + 2] ELSE fds[i]]
  BY DEF shift
<1> HIDE DEF moves
<1>5. \A i \in 1 .. MaxPollFds :
         shift[i] = IF i \in 2 + 2 * itr .. nfds - 2 THEN fds[i + 2] ELSE fds[i]
  BY <1>3, <1>4
<1>6. \A i \in 1 .. MaxPollFds : shift[i] \in PollEntry
  <2>1. \A i \in 2 + 2 * itr .. nfds - 2 : i + 2 \in 1 .. MaxPollFds
    BY <1>1
  <2> QED  BY <1>1, <1>5, <2>1
<1> QED  BY <1>4, <1>5, <1>6

\* The vector without the process at itr.
Others ==
    [k \in 1 .. Len(processes) - 1 |->
        IF k < itr THEN processes[k]
        ELSE [processes[k + 1] EXCEPT !.index_stdout = @ - 2,
                                      !.index_stderr = @ - 2]]

(* What the shortened vector and the shifted poll array hold is what they  *)
(* held for the other processes.                                           *)
LEMMA Shortened ==
    ASSUME IInv, pc = "check", itr \in 1 .. Len(processes)
    PROVE  /\ Others \in Seq(ProcessData)
           /\ Len(Others) = Len(processes) - 1
           /\ \A k \in 1 .. Len(processes) - 1 :
                 /\ Before(k) \in (1 .. Len(processes)) \ {itr}
                 /\ Others[k].pid = processes[Before(k)].pid
                 /\ Others[k].index_stdout = 2 + 2 * k
                 /\ Others[k].index_stderr = 3 + 2 * k
                 /\ \A n \in Streams :
                       shift[2 * k + 1 + n] = fds[2 * Before(k) + 1 + n]
<1> DEFINE L == Len(processes)
           new == Others
<1>1. /\ L \in Nat /\ nfds = 3 + 2 * L
      /\ nfds \in Nat /\ nfds <= MaxPollFds /\ MaxPollFds \in Nat
  BY Places
<1>2. Vector
  BY DEF IInv
<1>3. ASSUME NEW k \in 1 .. L - 1
      PROVE  /\ Before(k) \in (1 .. L) \ {itr}
             /\ new[k] \in ProcessData
             /\ new[k].pid = processes[Before(k)].pid
             /\ new[k].index_stdout = 2 + 2 * k
             /\ new[k].index_stderr = 3 + 2 * k
  <2>1. CASE k < itr
    <3>1. Before(k) = k /\ k \in (1 .. L) \ {itr} /\ new[k] = processes[k]
      BY <1>1, <2>1 DEF Before, Others
    <3> QED  BY <1>2, <3>1, VectorFacts
  <2>2. CASE ~ (k < itr)
    <3>1. Before(k) = k + 1 /\ k + 1 \in (1 .. L) \ {itr} /\ k + 1 \in 1 .. L
      BY <1>1, <2>2 DEF Before
    <3>2. new[k] = [processes[k + 1] EXCEPT !.index_stdout = @ - 2,
                                            !.index_stderr = @ - 2]
      BY <2>2 DEF Others
    <3> DEFINE p == processes[k + 1]
    <3>3. /\ p \in ProcessData /\ p.index_stdout = 4 + 2 * k
          /\ p.index_stderr = 5 + 2 * k
      <4>1. /\ p \in ProcessData /\ p.index_stdout = 2 + 2 * (k + 1)
            /\ p.index_stderr = 3 + 2 * (k + 1)
        BY <1>2, <3>1, VectorFacts
      <4> QED  BY <1>1, <4>1
    <3>4. p.index_stdout - 2 = 2 + 2 * k /\ p.index_stderr - 2 = 3 + 2 * k
          /\ 2 + 2 * k \in Nat /\ 3 + 2 * k \in Nat
      BY <1>1, <3>3
    <3> HIDE DEF p
    <3>5. new[k] = [p EXCEPT !.index_stdout = 2 + 2 * k,
                             !.index_stderr = 3 + 2 * k]
      BY <3>2, <3>4 DEF p
    <3>6. /\ new[k] \in ProcessData /\ new[k].pid = p.pid
          /\ new[k].index_stdout = 2 + 2 * k /\ new[k].index_stderr = 3 + 2 * k
      BY <3>3, <3>4, <3>5 DEF ProcessData
    <3> QED  BY <3>1, <3>6 DEF p
  <2> QED  BY <2>1, <2>2
<1>4. /\ DOMAIN new = 1 .. L - 1 /\ L - 1 \in Nat
      /\ new = [k \in 1 .. L - 1 |-> new[k]]
  BY <1>1 DEF Others
<1>5. new \in Seq(ProcessData) /\ Len(new) = L - 1
  BY <1>3, <1>4, <1>1
<1>6. ASSUME NEW k \in 1 .. L - 1, NEW n \in Streams
      PROVE  shift[2 * k + 1 + n] = fds[2 * Before(k) + 1 + n]
  <2>1. n \in {1, 2}
    BY DEF Streams, stdout, stderr
  <2>2. 2 * k + 1 + n \in 1 .. MaxPollFds
    BY <1>1, <2>1
  <2>3. CASE k < itr
    <3>1. Before(k) = k /\ 2 * k + 1 + n \notin 2 + 2 * itr .. nfds - 2
      BY <1>1, <2>1, <2>3 DEF Before
    <3> QED  BY <2>2, <3>1, ShiftIs
  <2>4. CASE ~ (k < itr)
    <3>1. /\ Before(k) = k + 1 /\ 2 * k + 1 + n \in 2 + 2 * itr .. nfds - 2
          /\ 2 * k + 1 + n + 2 = 2 * (k + 1) + 1 + n
      BY <1>1, <2>1, <2>4 DEF Before
    <3> QED  BY <2>2, <3>1, ShiftIs
  <2> QED  BY <2>3, <2>4
<1> QED  BY <1>3, <1>4, <1>5, <1>6

(* The ready entries behind the process are as many as before.             *)
LEMMA ReadyShifted ==
    ASSUME IInv, pc = "check", itr \in 1 .. Len(processes), fds' = shift,
           nfds' = nfds - 2, itr' = itr
    PROVE  Cardinality(Ready(2 + 2 * itr .. nfds)') =
           Cardinality(Ready(4 + 2 * itr .. nfds))
<1> DEFINE S == Ready(4 + 2 * itr .. nfds)
           T == {i \in 2 + 2 * itr .. nfds - 2 : fds[i + 2].revents # {}}
           f == [i \in S |-> i - 2]
<1>1. /\ Len(processes) \in Nat /\ nfds = 3 + 2 * Len(processes)
      /\ nfds \in Nat /\ nfds <= MaxPollFds /\ MaxPollFds \in Nat
  BY Places
<1>2. Ready(2 + 2 * itr .. nfds)' = T
  <2>1. \A i \in 2 + 2 * itr .. nfds - 2 : fds'[i] = fds[i + 2]
    <3>1. \A i \in 2 + 2 * itr .. nfds - 2 : i \in 1 .. MaxPollFds
      BY <1>1
    <3> QED  BY <3>1, ShiftIs
  <2> QED  BY <2>1 DEF Ready
<1>3. S \subseteq Int /\ T \subseteq Int
  BY <1>1 DEF Ready
<1>4. f \in [S -> T]
  <2>1. ASSUME NEW i \in S
        PROVE  i - 2 \in T
    <3>1. i \in 4 + 2 * itr .. nfds /\ fds[i].revents # {}
      BY DEF Ready
    <3>2. i - 2 \in 2 + 2 * itr .. nfds - 2 /\ i - 2 + 2 = i
      BY <1>1, <3>1
    <3> QED  BY <3>1, <3>2
  <2> QED  BY <2>1
<1>5. \A i, j \in S : f[i] = f[j] => i = j
  BY <1>3
<1>6. ASSUME NEW j \in T
      PROVE  \E i \in S : f[i] = j
  <2>1. j + 2 \in S
    BY <1>1 DEF Ready
  <2>2. f[j + 2] = j
    BY <1>3, <2>1
  <2> QED  BY <2>1, <2>2
<1>7. IsFiniteSet(S)
  <2>1. IsFiniteSet(4 + 2 * itr .. nfds)
    BY <1>1, FS_Interval
  <2> QED  BY <2>1, ReadyFinite
<1> HIDE DEF f, S, T
<1>8. f \in Injection(S, T)
  BY <1>4, <1>5, Fun_IsInj
<1>9. f \in Surjection(S, T)
  BY <1>4, <1>6, Fun_IsSurj
<1>10. IsFiniteSet(T) /\ (Cardinality(T) = Cardinality(S) <=> f \in Injection(S, T))
  BY <1>7, <1>9, FS_Surjection
<1> QED  BY <1>2, <1>8, <1>10 DEF S

(* A process that hung up is flushed, erased and waited for.               *)
LEMMA EraseStep ==
    ASSUME IInv, Erase
    PROVE  IInv'
<1> DEFINE c == processes[itr].pid
           L == Len(processes)
           flushed == flush(Current)
           gone == {ReadEnd(c, stdout), ReadEnd(c, stderr)}
           status == waitpid(c)
           behind == Cardinality(Ready(4 + 2 * itr .. nfds))
           revents(n) == fds[2 * itr + 1 + n].revents
<1>1. /\ Looking /\ Current.hup
      /\ lines' = IF status = 0 THEN Drained(c, flushed.read)
                  ELSE [Drained(c, flushed.read) EXCEPT ![Self][stderr] = @ + 1]
      /\ reported' = IF status = 0 THEN reported
                     ELSE [reported EXCEPT ![c] = string(status)]
      /\ count' = flushed.count
      /\ fds' = shift /\ processes' = Others /\ nfds' = nfds - 2
      /\ child' = [child EXCEPT ![c] = Process("reaped")]
      /\ UNCHANGED <<ending, pc, itr, requests, erlang, history>>
  BY DEF Erase, dead, Others
<1>2. /\ itr \in 1 .. L /\ pc = "check" /\ behind \in 0 .. MaxPollFds
      /\ flushed.count = behind
      /\ \E n \in Streams : "HUP" \in revents(n)
      /\ \A n \in Streams : "IN" \in revents(n) => n \in flushed.read
  BY <1>1, CurrentIs
<1>3. /\ L \in Nat /\ nfds = 3 + 2 * L /\ nfds \in Nat /\ nfds >= 3
      /\ nfds <= MaxPollFds /\ MaxPollFds \in Nat
      /\ \A i \in 1 .. MaxPollFds : fds[i].fd \in Table
      /\ \A k \in 1 .. L : \A n \in Streams :
            /\ 2 * k + 1 + n \in 4 .. nfds
            /\ files[fds[2 * k + 1 + n].fd] = ReadEnd(processes[k].pid, n)
  BY <1>2, Places
<1>4. Shape /\ Vector /\ Counters /\ Descriptors /\ Ends /\ HangUps /\ Seen
      /\ Causes /\ Configured /\ OutputDelivered
  BY DEF IInv
<1>5. /\ c \in Children /\ child[c].state \in Alive /\ ~child[c].stray
      /\ processes[itr].index_stdout = 2 + 2 * itr
      /\ processes[itr].index_stderr = 3 + 2 * itr
  BY <1>2, <1>4, VectorFacts
<1>6. c \in hungup
  BY <1>2, <1>4 DEF Seen
<1>7. Streams = {1, 2} /\ stdout = 1 /\ stderr = 2 /\ c # Self
  BY <1>5, SpawnAssumption DEF Streams, stdout, stderr
<1>8. /\ files \in FileTables /\ files' \in FileTables
      /\ \A k \in Table : files'[k] = IF files[k] \in gone THEN Free ELSE files[k]
  <2>1. /\ files[fds[2 + 2 * itr].fd] = ReadEnd(c, stdout)
        /\ files[fds[3 + 2 * itr].fd] = ReadEnd(c, stderr)
    BY <1>2, <1>4 DEF Descriptors, Abandoned
  <2>2. files' = Closed(files, gone)
    BY <1>5, <2>1 DEF Erase, dead
  <2>3. files \in FileTables
    BY <1>4 DEF Shape
  <2> QED  BY <2>2, <2>3, ClosedIs
<1>9. /\ processes' \in Seq(ProcessData) /\ Len(processes') = L - 1
      /\ \A k \in 1 .. L - 1 :
            /\ Before(k) \in (1 .. L) \ {itr}
            /\ processes'[k].pid = processes[Before(k)].pid
            /\ processes'[k].index_stdout = 2 + 2 * k
            /\ processes'[k].index_stderr = 3 + 2 * k
            /\ \A n \in Streams :
                  fds'[2 * k + 1 + n] = fds[2 * Before(k) + 1 + n]
  <2>1. processes' = Others /\ fds' = shift
    BY <1>1
  <2>2. /\ Others \in Seq(ProcessData) /\ Len(Others) = L - 1
        /\ \A k \in 1 .. L - 1 :
              /\ Before(k) \in (1 .. L) \ {itr}
              /\ Others[k].pid = processes[Before(k)].pid
              /\ Others[k].index_stdout = 2 + 2 * k
              /\ Others[k].index_stderr = 3 + 2 * k
              /\ \A n \in Streams :
                    shift[2 * k + 1 + n] = fds[2 * Before(k) + 1 + n]
    BY <1>2, Shortened
  <2> QED  BY <2>1, <2>2
<1>10. /\ fds' \in [1 .. MaxPollFds -> PollEntry]
       /\ \A i \in 1 .. MaxPollFds :
             fds'[i] = IF i \in 2 + 2 * itr .. nfds - 2 THEN fds[i + 2] ELSE fds[i]
  BY <1>1, <1>2, ShiftIs
<1>11. /\ IsProcess(Process("reaped")) /\ Process("reaped").state = "reaped"
       /\ Process("reaped").stray = FALSE
       /\ Process("reaped").connected = 0
       /\ \A k \in Table : Process("reaped").files[k] = Free
  BY Files DEF Process, IsProcess, FileTables
<1>12. /\ DOMAIN child' = Children /\ child'[c] = Process("reaped")
       /\ \A d \in Children \ {c} : child'[d] = child[d]
  BY <1>1, <1>4, <1>5 DEF Shape
<1>13. /\ child'[c].state = "reaped" /\ child'[c].connected = 0
       /\ ~child'[c].stray
       /\ IsProcess(child'[c])
       /\ \A k \in Table : child'[c].files[k] = Free
  BY <1>11, <1>12
<1>14. /\ pc' = "check" /\ UNCHANGED ending
       /\ UNCHANGED <<itr, requests, hungup, closers, cause, left>>
       /\ nfds' = nfds - 2 /\ count' = behind
  BY <1>1, <1>2 DEF history
<1>15. /\ lines' \in [Children \cup {Self} -> [Streams -> Nat]]
       /\ \A n \in Streams : lines'[c][n] = IF n \in flushed.read
                                            THEN Unread(lines[c][n])
                                            ELSE lines[c][n]
       /\ \A d \in Children \ {c} : \A n \in Streams :
             lines'[d][n] = lines[d][n]
       /\ \A d \in Children : \A n \in Streams :
             lines[d][n] \in Nat /\ lines'[d][n] <= lines[d][n]
  <2> DEFINE streams == flushed.read
             read == Drained(c, streams)
             own == [read[Self] EXCEPT ![2] = @ + 1]
  <2>1. lines \in [Children \cup {Self} -> [Streams -> Nat]]
    BY <1>4 DEF Shape
  <2>2. lines' = IF status = 0 THEN read ELSE [read EXCEPT ![Self] = own]
    BY <1>1, <1>7
  <2>3. c \in Children \cup {Self}
    BY <1>5
  <2> HIDE DEF streams, status, flushed, c
  <2>4. /\ read \in [Children \cup {Self} -> [Streams -> Nat]]
        /\ \A d \in Children \cup {Self} : \A n \in Streams :
              /\ read[d][n] <= lines[d][n]
              /\ d # c => read[d][n] = lines[d][n]
              /\ n \notin streams => read[d][n] = lines[d][n]
        /\ \A n \in Streams : n \in streams => read[c][n] = Unread(lines[c][n])
    BY <2>1, <2>3, DrainedIs
  <2> HIDE DEF read
  <2>5. own \in [Streams -> Nat]
    BY <1>7, <2>4
  <2> HIDE DEF own
  <2>6. /\ lines' \in [Children \cup {Self} -> [Streams -> Nat]]
        /\ \A d \in Children : lines'[d] = read[d]
    BY <2>2, <2>4, <2>5, SpawnAssumption
  <2>7. \A d \in Children : \A n \in Streams : lines[d][n] \in Nat
    BY <2>1
  <2> QED  BY <1>5, <2>4, <2>6, <2>7 DEF streams
<1>16. /\ \A d \in Children : child'[d].state \in Alive <=>
                              (child[d].state \in Alive /\ d # c)
       /\ \A d \in Children : child'[d].state = "none" <=> child[d].state = "none"
       /\ \A d \in Children : Abandoned(d)' <=> Abandoned(d)
       /\ \A d \in Children : d # c => child'[d].stray = child[d].stray
       /\ \A d \in Children : child'[d].state = "reaped" <=>
                              (child[d].state = "reaped" \/ d = c)
  BY <1>5, <1>12, <1>13 DEF Alive, Abandoned
<1>17. hungup \subseteq Children
  BY <1>4 DEF Shape
<1>18. \A k \in 1 .. L - 1 : /\ processes'[k].pid \in Children
                             /\ processes'[k].pid # c
                             /\ child[processes'[k].pid].state \in Alive
                             /\ ~child[processes'[k].pid].stray
  <2> SUFFICES ASSUME NEW k \in 1 .. L - 1
               PROVE  /\ processes'[k].pid \in Children
                      /\ processes'[k].pid # c
                      /\ child[processes'[k].pid].state \in Alive
                      /\ ~child[processes'[k].pid].stray
    OBVIOUS
  <2>1. Before(k) \in 1 .. L /\ Before(k) # itr
        /\ processes'[k].pid = processes[Before(k)].pid
    BY <1>9
  <2>2. processes[Before(k)].pid \in Children
        /\ child[processes[Before(k)].pid].state \in Alive
        /\ ~child[processes[Before(k)].pid].stray
    BY <1>4, <2>1, VectorFacts
  <2>3. processes[Before(k)].pid # c
    BY <1>2, <1>4, <2>1 DEF Vector
  <2> QED  BY <2>1, <2>2, <2>3
<1>19. /\ DOMAIN reported' = Children
       /\ \A d \in Children \ {c} : reported'[d] = reported[d]
       /\ status # 0 => reported'[c] = string(status)
  BY <1>1, <1>4, <1>5 DEF Shape
<1> HIDE DEF behind, flushed, status, gone
<1>20. Shape'
  <2>1. \A d \in Children :
            /\ child'[d].state \in Alive \cup {"none", "failed", "reaped"}
            /\ IsProcess(child'[d])
            /\ child'[d].stray => child'[d].state \in Alive
    BY <1>4, <1>12, <1>13 DEF Shape
  <2> QED
    BY <1>4, <1>8, <1>10, <1>12, <1>14, <1>15, <1>19, <2>1 DEF Shape
<1>21. Vector'
  <2>1. \A k \in 1 .. L - 1 : /\ child'[processes'[k].pid].state \in Alive
                              /\ ~child'[processes'[k].pid].stray
    BY <1>16, <1>18
  <2>2. ASSUME NEW j \in 1 .. L - 1, NEW k \in 1 .. L - 1,
               processes'[j].pid = processes'[k].pid
        PROVE  j = k
    <3>0. /\ Before(j) \in 1 .. L /\ Before(k) \in 1 .. L
          /\ processes[Before(j)].pid = processes[Before(k)].pid
      BY <1>9, <2>2
    <3>1. Before(j) = Before(k)
      BY <1>4, <3>0 DEF Vector
    <3> QED  BY <1>2, <1>3, <3>1 DEF Before
  <2>3. ASSUME NEW d \in Children, child'[d].state \in Alive, ~child'[d].stray
        PROVE  \E k \in 1 .. L - 1 : processes'[k].pid = d
    <3>1. PICK j \in 1 .. L : processes[j].pid = d
      BY <1>4, <1>16, <2>3 DEF Vector
    <3>2. j # itr
      BY <1>16, <2>3, <3>1
    <3> DEFINE k == IF j < itr THEN j ELSE j - 1
    <3>3. k \in 1 .. L - 1 /\ Before(k) = j
      BY <1>2, <1>3, <3>2 DEF Before
    <3> QED  BY <1>9, <3>1, <3>3
  <2>4. nfds' = 3 + 2 * Len(processes')
    BY <1>3, <1>9, <1>14
  <2>5. pc' # "init"
    BY <1>14
  <2> QED  BY <1>9, <2>1, <2>2, <2>3, <2>4, <2>5 DEF Vector
<1>22. Counters'
  <2>1. {d \in Children : child'[d].state = "none"} =
        {d \in Children : child[d].state = "none"}
    BY <1>16
  <2>2. itr <= Len(processes') + 1 /\ pc' # "erlang"
    BY <1>2, <1>3, <1>9, <1>14
  <2> QED  BY <1>4, <1>14, <2>1, <2>2 DEF Counters
<1>23. Counted'
  <2>1. Cardinality(Ready(2 + 2 * itr .. nfds)') = behind
    BY <1>1, <1>2, ReadyShifted DEF behind
  <2>2. pc' # "erlang" /\ pc' # "own" /\ count' = behind /\ behind \in 0 .. MaxPollFds
    BY <1>2, <1>14
  <2> QED  BY <2>1, <2>2 DEF Counted
<1>24. Descriptors'
  <2>1. \A n : ReadEnd(c, n).kind = "read" /\ ReadEnd(c, n).owner = c
    BY FileParts
  <2>2. \A k \in Table : files'[k] # Free => files'[k] = files[k]
    BY <1>8
  <2>3. \A k \in Table :
           files[k].kind # "read" \/ files[k].owner # c => files'[k] = files[k]
    BY <1>8, <2>1 DEF gone
  <2>4. ASSUME NEW k \in 1 .. L - 1, NEW n \in Streams
        PROVE  files'[fds'[2 * k + 1 + n].fd] = ReadEnd(processes'[k].pid, n)
    <3> DEFINE j == Before(k)
    <3>1. j \in 1 .. L /\ fds'[2 * k + 1 + n] = fds[2 * j + 1 + n]
          /\ processes'[k].pid = processes[j].pid
      BY <1>9
    <3> HIDE DEF j
    <3>2. /\ files[fds[2 * j + 1 + n].fd] = ReadEnd(processes[j].pid, n)
          /\ 2 * j + 1 + n \in 4 .. nfds
      BY <1>3, <3>1
    <3>3. fds[2 * j + 1 + n].fd \in Table
      BY <1>3, <3>2
    <3>4. ReadEnd(processes[j].pid, n).owner # c
      BY <1>18, <3>1, FileParts
    <3> QED  BY <2>3, <3>1, <3>2, <3>3, <3>4
  <2>5. \A k \in 1 .. L - 1 :
           /\ files'[fds'[2 + 2 * k].fd] = ReadEnd(processes'[k].pid, stdout)
           /\ files'[fds'[3 + 2 * k].fd] = ReadEnd(processes'[k].pid, stderr)
    <3> SUFFICES ASSUME NEW k \in 1 .. L - 1
                 PROVE  /\ files'[fds'[2 + 2 * k].fd] = ReadEnd(processes'[k].pid, 1)
                        /\ files'[fds'[3 + 2 * k].fd] = ReadEnd(processes'[k].pid, 2)
      BY <1>7
    <3>1. 2 * k + 1 + 1 = 2 + 2 * k /\ 2 * k + 1 + 2 = 3 + 2 * k
      BY <1>3
    <3>2. 1 \in Streams /\ 2 \in Streams
      BY <1>7
    <3>3. /\ files'[fds'[2 * k + 1 + 1].fd] = ReadEnd(processes'[k].pid, 1)
          /\ files'[fds'[2 * k + 1 + 2].fd] = ReadEnd(processes'[k].pid, 2)
      BY <2>4, <3>2
    <3> QED  BY <3>1, <3>3
  <2>6. ASSUME NEW k \in Table, files'[k].kind = "read",
               ~ /\ files'[k].owner \in Children
                 /\ Abandoned(files[k].owner)'
        PROVE  k \in {fds'[i].fd : i \in 1 .. nfds - 2}
    <3>1. files'[k] = files[k] /\ files[k] \notin gone
      BY <1>8, <2>6, FileParts
    <3>2. ~ /\ files[k].owner \in Children
            /\ Abandoned(files[k].owner)
      BY <1>16, <2>6, <3>1
    <3>3. PICK i \in 1 .. nfds : k = fds[i].fd
      BY <1>2, <1>4, <2>6, <3>1, <3>2 DEF Descriptors, Abandoned
    <3>4. i # 2 + 2 * itr /\ i # 3 + 2 * itr
      BY <1>2, <1>4, <3>1, <3>3 DEF Descriptors, Abandoned, gone
    <3>5. CASE i < 2 + 2 * itr
      <4>1. i \in 1 .. nfds - 2 /\ i \in 1 .. MaxPollFds
            /\ i \notin 2 + 2 * itr .. nfds - 2
        BY <1>2, <1>3, <3>5
      <4>2. fds'[i] = fds[i]
        BY <1>10, <4>1
      <4> QED  BY <3>3, <4>1, <4>2
    <3>6. CASE ~ (i < 2 + 2 * itr)
      <4> DEFINE j == i - 2
      <4>1. j \in 1 .. nfds - 2 /\ j \in 1 .. MaxPollFds
            /\ j \in 2 + 2 * itr .. nfds - 2 /\ j + 2 = i
        BY <1>2, <1>3, <3>4, <3>6
      <4> HIDE DEF j
      <4>2. fds'[j] = fds[i]
        BY <1>10, <4>1
      <4> QED  BY <3>3, <4>1, <4>2
    <3> QED  BY <3>5, <3>6
  <2>7. /\ files'[3] = PortRead
        /\ \A k \in Table : files'[k] = PortRead => k = 3
        /\ \A k \in Table : \A n \in Streams :
              files'[k] = WriteEnd(Self, n) => k = n
    <3>1. 3 \in Table
      BY Constants
    <3> QED
      BY <1>4, <2>2, <2>3, <3>1, FileParts
         DEF Descriptors, Abandoned, PORT_READ_FILE_DESCRIPTOR
  <2>8. ASSUME NEW d \in Children, NEW n \in Streams
        PROVE  /\ ~Abandoned(d)' => ~Holds(files', WriteEnd(d, n))
               /\ child'[d].state = "none" => ~Holds(files', ReadEnd(d, n))
    <3>1. WriteEnd(d, n) # Free /\ ReadEnd(d, n) # Free
      BY FileParts
    <3>2. /\ Holds(files', WriteEnd(d, n)) => Holds(files, WriteEnd(d, n))
          /\ Holds(files', ReadEnd(d, n)) => Holds(files, ReadEnd(d, n))
      BY <2>2, <3>1 DEF Holds
    <3> QED  BY <1>4, <1>16, <3>2 DEF Descriptors, Abandoned
  <2>9. fds'[3].fd = 3
    <3>1. 3 \in 1 .. MaxPollFds /\ 3 \notin 2 + 2 * itr .. nfds - 2
      BY <1>2, <1>3
    <3> QED
      BY <1>2, <1>4, <1>10, <3>1
         DEF Descriptors, Abandoned, INDEX_ERLANG, PORT_READ_FILE_DESCRIPTOR
  <2>10. pc' # "init"
    BY <1>14
  <2> QED
    BY <1>9, <1>14, <2>5, <2>6, <2>7, <2>8, <2>9, <2>10
       DEF Descriptors, Abandoned, INDEX_ERLANG, PORT_READ_FILE_DESCRIPTOR
<1>25. Ends'
  <2>1. ASSUME NEW d \in Children, NEW n \in Streams,
               child'[d].state \in Alive, d \notin hungup
        PROVE  child'[d].files[n] = WriteEnd(d, n)
    BY <1>4, <1>12, <1>16, <2>1 DEF Ends
  <2>2. ASSUME NEW d \in Children, child'[d].state \notin Alive
        PROVE  \A k \in Table : child'[d].files[k] = Free
    BY <1>4, <1>12, <1>13, <2>2 DEF Ends
  <2>3. ASSUME NEW d \in hungup
        PROVE  \E n \in Streams : ~Holds(child'[d].files, WriteEnd(d, n))
    <3>1. CASE d = c
      <4>1. 1 \in Streams /\ WriteEnd(c, 1) # Free
        BY <1>7, FileParts
      <4>2. ~Holds(child'[c].files, WriteEnd(c, 1))
        BY <1>13, <4>1 DEF Holds
      <4> QED  BY <3>1, <4>1, <4>2
    <3>2. CASE d # c
      BY <1>4, <1>12, <1>17, <2>3, <3>2 DEF Ends
    <3> QED  BY <3>1, <3>2
  <2>4. NothingInherited'
    <3> SUFFICES ASSUME NEW a \in Children, NEW d \in Children,
                        NEW n \in Streams, a # d, ~Abandoned(d)',
                        NEW f \in {ReadEnd(d, n), WriteEnd(d, n),
                                   ReadEnd(Self, n), WriteEnd(Self, n), PortRead},
                        NEW k \in Table, child'[a].files[k] = f
                 PROVE  FALSE
      BY DEF NothingInherited, Holds
    <3>1. f # Free
      BY FileParts
    <3>2. a # c
      BY <1>13, <3>1
    <3> QED  BY <1>4, <1>12, <1>16, <3>2 DEF Ends, NothingInherited, Holds
  <2> QED  BY <1>14, <2>1, <2>2, <2>3, <2>4 DEF Ends
<1>26. HangUps'
  <2>1. "reaped" \notin {"exiting", "zombie"} /\ pc # "exit"
    BY <1>2
  <2>2. ASSUME NEW d \in hungup \ closers, NEW n \in Streams
        PROVE  lines'[d][n] <= left[d][n]
    <3>1. d \in Children /\ lines[d][n] <= left[d][n]
      BY <1>4, <1>17 DEF HangUps
    <3>2. lines[d][n] \in Nat /\ lines'[d][n] \in Nat /\ left[d][n] \in Nat
      BY <1>4, <1>15, <3>1 DEF Shape
    <3> QED  BY <1>15, <3>1, <3>2
  <2> QED
    BY <1>4, <1>6, <1>12, <1>13, <1>14, <1>16, <1>17, <2>1, <2>2
       DEF HangUps, KilledForAReason
<1>27. Seen'
  <2> SUFFICES ASSUME pc' = "check", NEW k \in 1 .. L - 1
               PROVE  LET d == processes'[k].pid
                          found(n) == fds'[2 * k + 1 + n].revents
                      IN  /\ (\E n \in Streams : "HUP" \in found(n)) =>
                                d \in hungup
                          /\ k >= itr /\ d \notin closers
                             /\ (\E n \in Streams : "HUP" \in found(n)) =>
                                 \A n \in Streams :
                                     lines'[d][n] > 0 => "IN" \in found(n)
    BY <1>9, <1>14 DEF Seen
  <2>1. /\ Before(k) \in 1 .. L
        /\ processes'[k].pid = processes[Before(k)].pid
        /\ \A n \in Streams : fds'[2 * k + 1 + n] = fds[2 * Before(k) + 1 + n]
    BY <1>9
  <2>2. k >= itr => Before(k) >= itr
    BY <1>2, <1>3 DEF Before
  <2>3. \A n \in Streams :
           lines'[processes'[k].pid][n] = lines[processes'[k].pid][n]
    BY <1>15, <1>18
  <2> QED  BY <1>2, <1>4, <2>1, <2>2, <2>3 DEF Seen
<1>28. Causes'
  <2> SUFFICES ASSUME NEW d \in Children, cause[d] # "none"
               PROVE  \/ /\ child'[d].state \in {"exiting", "zombie"}
                         /\ child'[d].status \in 1 .. 255
                         /\ string(child'[d].status) = cause[d]
                      \/ /\ child'[d].state = "reaped"
                         /\ pc' = "exit" \/ reported'[d] = cause[d]
    BY <1>14 DEF Causes
  <2>1. CASE d = c
    <3>1. /\ child[c].state \in {"exiting", "zombie"}
          /\ child[c].status \in 1 .. 255
          /\ string(child[c].status) = cause[c]
      BY <1>4, <1>5, <2>1 DEF Causes, Alive
    <3>2. status = child[c].status /\ status # 0
      <4>1. status = IF child[c].state \in {"exiting", "zombie"}
                     THEN child[c].status ELSE SIGKILL + 128
        BY DEF status, waitpid
      <4> HIDE DEF status
      <4> QED  BY <3>1, <4>1
    <3>3. child'[d].state = "reaped"
      BY <1>13, <2>1
    <3>4. reported'[d] = cause[d]
      BY <1>19, <2>1, <3>1, <3>2
    <3> QED  BY <3>3, <3>4
  <2>2. CASE d # c
    <3>1. pc # "exit" /\ child'[d] = child[d] /\ reported'[d] = reported[d]
      BY <1>2, <1>12, <1>19, <2>2
    <3> QED  BY <1>4, <3>1 DEF Causes
  <2> QED  BY <2>1, <2>2
<1>29. Configured'
  BY <1>4, <1>12, <1>13, Constants DEF Configured, owner_get
<1>30. Result'
  BY <1>14 DEF Result, NobodyLeft
<1>31. OutputDelivered'
  <2> SUFFICES ASSUME NEW d \in Children, child'[d].state = "reaped",
                      d \notin closers, NEW n \in Streams, lines'[d][n] > 0
               PROVE  lines'[d][n] + Buffered <= left[d][n]
    BY <1>14 DEF OutputDelivered
  <2>1. CASE d = c
    <3>1. lines[c][n] > 0 => "IN" \in revents(n)
      BY <1>2, <1>4, <2>1 DEF Seen
    <3>2. /\ lines[c][n] \in Nat /\ lines[c][n] <= left[c][n]
          /\ left[c][n] \in Nat
      BY <1>4, <1>5, <1>6, <1>15, <2>1 DEF HangUps, Shape
    <3>3. n \in flushed.read /\ lines'[c][n] = Unread(lines[c][n])
      BY <1>2, <1>15, <2>1, <3>1, <3>2
    <3>4. /\ Unread(lines[c][n]) \in Nat
          /\ Unread(lines[c][n]) > 0 =>
                Unread(lines[c][n]) + Buffered <= lines[c][n]
      BY <3>2, UnreadIs
    <3> QED  BY <2>1, <3>2, <3>3, <3>4, SpawnAssumption
  <2>2. CASE d # c
    <3>1. child'[d] = child[d] /\ lines'[d][n] = lines[d][n] /\ pc # "exit"
      BY <1>2, <1>12, <1>15, <2>2
    <3> QED  BY <1>4, <3>1 DEF OutputDelivered
  <2> QED  BY <2>1, <2>2
<1> QED
  BY <1>20, <1>21, <1>22, <1>23, <1>24, <1>25, <1>26, <1>27, <1>28,
     <1>29, <1>30, <1>31 DEF IInv

(* main returns: the vector is destroyed, and every process with it.       *)
LEMMA ReturnStep ==
    ASSUME IInv, Return
    PROVE  IInv'
<1> DEFINE L == Len(processes)
           listed(c) == \E k \in 1 .. L : processes[k].pid = c
<1>1. /\ pc = "return" /\ pc' = "exit" /\ processes' = <<>>
      /\ nfds' = nfds - 2 * L
      /\ child' = [c \in Children |->
                      IF listed(c) THEN Process("reaped") ELSE child[c]]
      /\ UNCHANGED <<ending, fds, count, itr, files, lines, requests, erlang,
                     reported, history>>
  BY DEF Return
<1>2. /\ IsProcess(Process("reaped")) /\ Process("reaped").state = "reaped"
      /\ Process("reaped").connected = 0 /\ Process("reaped").stray = FALSE
      /\ \A k \in Table : Process("reaped").files[k] = Free
  BY Files DEF Process, IsProcess, FileTables
<1>3. Shape /\ Vector /\ Counters /\ Counted /\ Descriptors /\ Ends /\ HangUps
      /\ Causes /\ Configured /\ Result /\ hungup \subseteq Children
  BY DEF IInv, Shape
<1>4. /\ "reaped" \notin Alive /\ "none" \notin Alive /\ "failed" \notin Alive
      /\ "exiting" \in Alive /\ "zombie" \in Alive
  BY DEF Alive
<1>5. \A c \in Children :
         listed(c) <=> child[c].state \in Alive /\ ~child[c].stray
  BY <1>3, VectorFacts DEF Vector
<1>6. /\ DOMAIN child' = Children
      /\ \A c \in Children :
            \/ /\ child[c].state \in Alive /\ ~child[c].stray
               /\ child'[c] = Process("reaped")
            \/ /\ child[c].state \notin Alive \/ child[c].stray
               /\ child'[c] = child[c]
  BY <1>1, <1>5
<1>7. \A c \in Children :
         /\ \/ /\ child'[c].state = "reaped" /\ child'[c].connected = 0
               /\ child[c].state \in Alive /\ ~child'[c].stray
               /\ \A k \in Table : child'[c].files[k] = Free
            \/ child'[c] = child[c]
         /\ IsProcess(child'[c])
         /\ child'[c].state \in Alive \cup {"none", "failed", "reaped"}
         /\ child'[c].state \in Alive => child'[c].stray /\ child'[c] = child[c]
         /\ child'[c].stray => child'[c].state \in Alive
         /\ child'[c].state = "none" <=> child[c].state = "none"
         /\ Abandoned(c)' <=> Abandoned(c)
  BY <1>2, <1>3, <1>4, <1>6 DEF Shape, Abandoned
<1>8. UNCHANGED <<fds, count, itr, files, lines, requests, reported, cause,
                  hungup, closers, left, result, ended>>
  BY <1>1 DEF history, ending
<1>9. Shape'
  BY <1>1, <1>3, <1>6, <1>7, <1>8 DEF Shape
<1>10. Vector'
  <2>1. L \in Nat /\ nfds \in {2 * L, 3 + 2 * L}
    BY <1>1, <1>3, VectorSize DEF Vector
  <2>2. nfds' \in {0, 3}
    BY <1>1, <2>1
  <2>3. Len(processes') = 0 /\ processes' \in Seq(ProcessData)
    BY <1>1
  <2>4. 1 .. Len(processes') = {}
    BY <2>3
  <2>5. nfds' \in {2 * Len(processes'), 3 + 2 * Len(processes')}
    BY <2>2, <2>3
  <2> HIDE DEF L
  <2> QED  BY <1>1, <1>7, <2>3, <2>4, <2>5 DEF Vector
<1>11. Counters'
  <2>1. {c \in Children : child'[c].state = "none"} =
        {c \in Children : child[c].state = "none"}
    BY <1>7
  <2> QED  BY <1>1, <1>3, <1>8, <2>1 DEF Counters
<1>12. Counted'
  BY <1>1, <1>3, <1>8 DEF Counted
<1>13. Descriptors'
  BY <1>1, <1>3, <1>7, <1>8 DEF Descriptors
<1>14. Ends'
  <2>1. \A c \in Children : \A k \in Table :
           child'[c].files[k] \in {Free, child[c].files[k]}
    BY <1>7
  <2>2. \A x, n : WriteEnd(x, n) # Free /\ ReadEnd(x, n) # Free /\ PortRead # Free
    BY FileParts
  <2>3. \A c \in Children : \A f :
           f # Free /\ Holds(child'[c].files, f) => Holds(child[c].files, f)
    BY <2>1 DEF Holds
  <2>4. NothingInherited'
    <3> SUFFICES ASSUME NEW a \in Children, NEW d \in Children,
                        NEW n \in Streams, a # d, ~Abandoned(d)',
                        NEW f \in {ReadEnd(d, n), WriteEnd(d, n),
                                   ReadEnd(Self, n), WriteEnd(Self, n),
                                   PortRead},
                        Holds(child'[a].files, f)
                 PROVE  FALSE
      BY DEF NothingInherited
    <3>1. f # Free
      BY <2>2
    <3>2. Holds(child[a].files, f)
      BY <2>3, <3>1
    <3>3. ~Abandoned(d)
      BY <1>7
    <3>4. NothingInherited
      BY <1>3 DEF Ends
    <3> QED  BY <3>2, <3>3, <3>4 DEF NothingInherited
  <2>5. \A c \in Children :
           child'[c].state \notin Alive => \A k \in Table : child'[c].files[k] = Free
    BY <1>3, <1>7 DEF Ends
  <2>6. ASSUME NEW c \in hungup
        PROVE  \E n \in Streams : ~Holds(child'[c].files, WriteEnd(c, n))
    BY <1>3, <2>2, <2>3 DEF Ends
  <2>7. ASSUME NEW c \in Children, NEW n \in Streams,
               child'[c].state \in Alive, c \notin hungup
        PROVE  child'[c].files[n] = WriteEnd(c, n)
    BY <1>3, <1>7, <2>7 DEF Ends
  <2> QED  BY <1>8, <2>4, <2>5, <2>6, <2>7 DEF Ends
<1>15. HangUps'
  <2>1. \A c \in hungup : child'[c].state = "reaped" \/ child'[c] = child[c]
    BY <1>3, <1>7
  <2>2. \A c \in Children :
           child'[c].state \in {"exiting", "zombie"} => c \in hungup
    BY <1>3, <1>4, <1>7 DEF HangUps
  <2>3. KilledForAReason'
    BY <1>1 DEF KilledForAReason
  <2> QED  BY <1>3, <1>8, <2>1, <2>2, <2>3 DEF HangUps
<1>16. Seen'
  BY <1>1 DEF Seen
<1>17. Causes'
  <2>1. \A c \in Children : child'[c].state = "reaped" \/ child'[c] = child[c]
    BY <1>7
  <2> QED  BY <1>1, <1>3, <1>8, <2>1 DEF Causes
<1>18. Configured'
  BY <1>3, <1>7, Constants DEF Configured, owner_get
<1>19. Result'
  BY <1>1, <1>3, <1>7, <1>8 DEF Result, NobodyLeft
<1>20. OutputDelivered'
  BY <1>1 DEF OutputDelivered
<1> QED
  BY <1>9, <1>10, <1>11, <1>12, <1>13, <1>14, <1>15, <1>16, <1>17, <1>18,
     <1>19, <1>20 DEF IInv

-----------------------------------------------------------------------------
(* The invariant holds                                                     *)

(* As the Erlang VM starts os_spawn, the invariant holds.                  *)
LEMMA InitKeeps ==
    ASSUME Init
    PROVE  IInv
<1>1. /\ IsProcess(Process("none")) /\ Process("none").state = "none"
      /\ Process("none").connected = 0 /\ ~Process("none").stray
      /\ Process("none").uid = 0 /\ Process("none").gid = 0
      /\ \A k \in Table : Process("none").files[k] = Free
  BY Files DEF Process, IsProcess, FileTables
<1>2. /\ DOMAIN child = Children
      /\ \A c \in Children : child[c] = Process("none")
  BY DEF Init
<1>3. \A c \in Children :
         /\ IsProcess(child[c]) /\ child[c].state = "none"
         /\ child[c].connected = 0 /\ ~child[c].stray
         /\ child[c].uid = 0 /\ child[c].gid = 0
         /\ \A k \in Table : child[c].files[k] = Free
  BY <1>1, <1>2
<1>4. /\ pc = "init" /\ nfds = 0 /\ processes = <<>> /\ count = 0 /\ itr = 1
      /\ requests = 0 /\ hungup = {} /\ closers = {}
      /\ cause = [c \in Children |-> "none"]
      /\ reported = [c \in Children |-> "nothing"]
      /\ lines = [x \in Children \cup {Self} |-> [n \in Streams |-> 0]]
      /\ fds = [i \in 1 .. MaxPollFds |-> Entry(0)]
      /\ left = [c \in Children |-> [n \in Streams |-> 0]]
  BY DEF Init
<1>5. /\ files \in FileTables
      /\ files[3] = PortRead
      /\ \A k \in Table : files[k].kind \in {"free", "stdin", "port_read", "port_write"}
      /\ \A k \in Table : files[k].kind = "port_read" => k = 3
      /\ \A n \in Streams : files[n].kind = "stdin"
  <2>1. /\ Free \in FileSet /\ Free.kind = "free"
        /\ PortRead \in FileSet /\ PortRead.kind = "port_read"
        /\ PortWrite \in FileSet /\ PortWrite.kind = "port_write"
        /\ Stdin \in FileSet /\ Stdin.kind = "stdin"
    BY Files DEF PortRead, PortWrite, Stdin, Kinds
  <2>2. files = [k \in Table |-> CASE k = 3 -> PortRead
                                   [] k = 4 -> PortWrite
                                   [] k \in 0 .. 2 -> Stdin
                                   [] OTHER -> Free]
    BY DEF Init, PORT_READ_FILE_DESCRIPTOR, PORT_WRITE_FILE_DESCRIPTOR
  <2>3. \A k \in Table :
           /\ k = 3 => files[k] = PortRead
           /\ k = 4 => files[k] = PortWrite
           /\ k \in 0 .. 2 => files[k] = Stdin
           /\ k \notin 0 .. 4 => files[k] = Free
    <3>1. Table \subseteq Nat
      BY Constants
    <3> QED  BY <2>2, <3>1
  <2>4. \A k \in Table : k = 3 \/ k = 4 \/ k \in 0 .. 2 \/ k \notin 0 .. 4
    BY Constants
  <2>5. \A k \in Table : files[k] \in {PortRead, PortWrite, Stdin, Free}
    BY <2>3, <2>4
  <2>6. files \in FileTables
    BY <2>1, <2>2, <2>5 DEF FileTables
  <2>7. 3 \in Table /\ 1 \in Table /\ 2 \in Table
    BY Constants
  <2>8. Streams = {1, 2}
    BY DEF Streams, stdout, stderr
  <2>9. \A n \in Streams : n \in Table /\ n \in 0 .. 2
    BY <2>7, <2>8
  <2>10. \A k \in Table : files[k].kind = "port_read" => k = 3
    BY <2>1, <2>3, <2>4
  <2> QED  BY <2>1, <2>3, <2>5, <2>6, <2>7, <2>9, <2>10
<1>6. Shape
  <2>1. Entry(0) \in PollEntry
    BY Constants DEF Entry, PollEntry
  <2>2. fds \in [1 .. MaxPollFds -> PollEntry]
    BY <1>4, <2>1
  <2>3. /\ lines \in [Children \cup {Self} -> [Streams -> Nat]]
        /\ left \in [Children -> [Streams -> Nat]]
    BY <1>4
  <2>4. DOMAIN cause = Children /\ DOMAIN reported = Children
    BY <1>4
  <2>5. pc \in {"init", "poll", "erlang", "own", "check", "return", "exit"}
    BY <1>4
  <2> QED  BY <1>2, <1>3, <1>4, <1>5, <2>2, <2>3, <2>4, <2>5 DEF Shape
<1>7. Vector
  <2>1. Len(processes) = 0 /\ processes \in Seq(ProcessData)
    BY <1>4
  <2>2. 1 .. Len(processes) = {}
    BY <2>1
  <2> QED  BY <1>3, <1>4, <2>1, <2>2 DEF Vector, Alive
<1>8. Counters
  <2>1. {c \in Children : child[c].state = "none"} = Children
    BY <1>3
  <2>2. Cardinality(Children) \in Nat /\ pc # "check" /\ pc # "erlang"
    BY <1>4, Constants
  <2>3. /\ itr \in 1 .. Cardinality(Children) + 1 /\ requests \in Nat
        /\ requests <= Cardinality(Children)
    BY <1>4, <2>2
  <2> QED  BY <2>1, <2>2, <2>3 DEF Counters
<1>9. Counted
  BY <1>4, Constants DEF Counted
<1>10. Descriptors
  <2>1. \A x, n : WriteEnd(x, n).kind = "write" /\ ReadEnd(x, n).kind = "read"
                  /\ PortRead.kind = "port_read" /\ Free.kind = "free"
    BY FileParts
  <2>2. \A k \in Table : files[k].kind \notin {"read", "write"}
    BY <1>5
  <2>3. \A n \in Streams : files[n] # Free
    BY <1>5, <2>1
  <2>4. \A k \in Table : files[k] = PortRead => k = 3
    BY <1>5, <2>1
  <2>5. \A x, n : ~Holds(files, WriteEnd(x, n)) /\ ~Holds(files, ReadEnd(x, n))
    BY <2>1, <2>2 DEF Holds
  <2>6. \A k \in Table : \A n \in Streams : files[k] # WriteEnd(Self, n)
    BY <2>1, <2>2
  <2> QED
    BY <1>4, <1>5, <2>2, <2>3, <2>4, <2>5, <2>6
       DEF Descriptors, Abandoned, PORT_READ_FILE_DESCRIPTOR
<1>11. Ends
  <2>1. \A x, n : WriteEnd(x, n) # Free /\ ReadEnd(x, n) # Free /\ PortRead # Free
    BY FileParts
  <2>2. \A c \in Children : \A f : f # Free => ~Holds(child[c].files, f)
    BY <1>3 DEF Holds
  <2>3. NothingInherited
    BY <2>1, <2>2 DEF NothingInherited, Abandoned
  <2> QED  BY <1>3, <1>4, <2>3 DEF Ends, Alive
<1>12. HangUps /\ Seen /\ Causes /\ Configured
  BY <1>3, <1>4, Constants
     DEF HangUps, KilledForAReason, Seen, Causes, Configured
<1>13. Result /\ OutputDelivered
  BY <1>3, <1>4 DEF Result, NobodyLeft, OutputDelivered
<1> QED
  BY <1>6, <1>7, <1>8, <1>9, <1>10, <1>11, <1>12, <1>13 DEF IInv

(* Every step of os_spawn, of Erlang and of a child keeps the invariant.   *)
LEMMA NextKeeps ==
    ASSUME IInv, [Next]_vars
    PROVE  IInv'
<1>1. CASE Request
  BY <1>1, RequestStep
<1>2. CASE ErlangStops
  BY <1>2, ErlangStopsStep
<1>3. CASE MainLoop
  BY <1>3, InitStep, PortFailsStep, PollStep, WaitErlangStep, SpawnStep,
     SpawnStraysStep, SpawnFailsStep, ErlangExitStep, WaitOwnStep,
     SendFailsStep, AbortStep, CheckStep, EraseStep, AgainStep, ReturnStep
     DEF MainLoop
<1>4. ASSUME NEW c \in Children, ChildStep(c)
      PROVE  IInv'
  BY <1>4, ConnectStep, LimitedStep, OwnerSetStep, ExecveStep, SetUpFailsStep,
     WriteStep, CloseStreamStep, ExitStep, ExitedStep DEF ChildStep
<1>5. CASE UNCHANGED vars
  <2> USE <1>5 DEF vars, pollVars, ending, history
  <2>1. Shape' /\ Vector'
    BY DEF IInv, Shape, Vector
  <2>2. Counters' /\ Counted'
    BY DEF IInv, Counters, Counted, Ready
  <2>3. Descriptors' /\ Ends'
    BY DEF IInv, Descriptors, Ends, NothingInherited, Abandoned
  <2>4. HangUps' /\ Seen' /\ Causes'
    BY DEF IInv, HangUps, KilledForAReason, Seen, Causes
  <2>5. Configured' /\ Result' /\ OutputDelivered'
    BY DEF IInv, Configured, owner_get, Result, Told, NobodyLeft,
           OutputDelivered
  <2> QED  BY <2>1, <2>2, <2>3, <2>4, <2>5 DEF IInv
<1> QED  BY <1>1, <1>2, <1>3, <1>4, <1>5 DEF Next

(* The inductive invariant holds in every state.                           *)
THEOREM Invariant == Spec => []IInv
<1>1. Init => IInv
  BY InitKeeps
<1>2. IInv /\ [Next]_vars => IInv'
  BY NextKeeps
<1> QED  BY <1>1, <1>2, PTL DEF Spec

-----------------------------------------------------------------------------
(* What the invariant says of os_spawn                                     *)

(* The invariant has the poll array, the vector and count agree.           *)
LEMMA ExactFromInvariant ==
    ASSUME IInv
    PROVE  PollArrayExact
<1> DEFINE L == Len(processes)
<1>1. Shape /\ Vector /\ Counters /\ Counted /\ Descriptors
  BY DEF IInv
<1>2. /\ L \in Nat /\ L <= Cardinality(Children) /\ Cardinality(Children) \in Nat
      /\ MaxPollFds \in Nat
  BY <1>1, VectorSize, Constants
<1>3. TypeOK
  <2>1. nfds \in 0 .. MaxPollFds
    <3>1. nfds \in {0, 2 * L, 3 + 2 * L}
      BY <1>1 DEF Shape, Vector
    <3> QED  BY <1>2, <3>1 DEF MaxPollFds
  <2>2. requests \in 0 .. Cardinality(Children)
    <3> DEFINE none == {c \in Children : child[c].state = "none"}
    <3>1. Cardinality(none) \in Nat /\ Cardinality(none) <= Cardinality(Children)
      BY SpawnAssumption, FS_Subset, FS_CardinalityType
    <3>2. requests \in Nat /\ requests <= Cardinality(none)
      BY <1>1 DEF Counters
    <3> HIDE DEF none
    <3> QED  BY <1>2, <3>1, <3>2
  <2>3. \A c \in Children :
           child[c].state \in {"none", "failed", "connect", "limited", "exec",
                               "running", "exiting", "zombie", "reaped"}
    BY <1>1 DEF Shape, Alive
  <2> QED  BY <1>1, <2>1, <2>2, <2>3 DEF TypeOK, Shape, Counters, Counted
<1>4. FdsExact
  <2> SUFFICES ASSUME pc \notin {"init", "return", "exit"}
               PROVE  /\ nfds = 3 + 2 * L
                      /\ \A k \in 1 .. L :
                            LET P == processes[k] IN
                            /\ P.index_stdout = 2 + 2 * k
                            /\ P.index_stderr = 3 + 2 * k
                            /\ files[fds[P.index_stdout].fd] = ReadEnd(P.pid, stdout)
                            /\ files[fds[P.index_stderr].fd] = ReadEnd(P.pid, stderr)
    BY DEF FdsExact
  <2>1. pc \in {"poll", "erlang", "own", "check"}
    BY <1>1 DEF Shape
  <2>2. nfds = 3 + 2 * L
    BY <1>1, <2>1 DEF Vector
  <2>3. \A k \in 1 .. L : /\ processes[k].index_stdout = 2 + 2 * k
                          /\ processes[k].index_stderr = 3 + 2 * k
    BY <1>1 DEF Vector
  <2>4. \A k \in 1 .. L :
           /\ files[fds[2 + 2 * k].fd] = ReadEnd(processes[k].pid, stdout)
           /\ files[fds[3 + 2 * k].fd] = ReadEnd(processes[k].pid, stderr)
    BY <1>1, <2>1 DEF Descriptors, Abandoned
  <2> QED  BY <2>2, <2>3, <2>4
<1>5. CountExact
  <2> SUFFICES ASSUME pc = "check"
               PROVE  {i \in 4 .. nfds :
                          /\ fds[i].revents # {}
                          /\ \E k \in itr .. L :
                                i \in {processes[k].index_stdout,
                                       processes[k].index_stderr}} =
                      Ready(2 + 2 * itr .. nfds)
    BY <1>1 DEF CountExact, Counted
  <2>1. nfds = 3 + 2 * L /\ itr \in Nat /\ itr >= 1
    BY <1>1, <1>2 DEF Vector, Counters
  <2>2. \A k \in itr .. L : /\ processes[k].index_stdout = 2 + 2 * k
                            /\ processes[k].index_stderr = 3 + 2 * k
    <3>1. \A k \in itr .. L : k \in 1 .. L
      BY <1>2, <2>1
    <3> QED  BY <1>1, <3>1 DEF Vector
  <2>3. ASSUME NEW i \in 4 .. nfds, NEW k \in itr .. L,
               i \in {2 + 2 * k, 3 + 2 * k}
        PROVE  i \in 2 + 2 * itr .. nfds
    BY <1>2, <2>1, <2>3
  <2>4. ASSUME NEW i \in 2 + 2 * itr .. nfds
        PROVE  i \in 4 .. nfds /\ \E k \in itr .. L : i \in {2 + 2 * k, 3 + 2 * k}
    <3> DEFINE k == (i - 2) \div 2
    <3>1. i - 2 \in Nat /\ i \in 4 .. nfds
      BY <1>2, <2>1
    <3>2. k \in Int /\ (i - 2 = 2 * k \/ i - 2 = 2 * k + 1)
      BY <3>1
    <3> HIDE DEF k
    <3>3. k \in itr .. L /\ i \in {2 + 2 * k, 3 + 2 * k}
      BY <1>2, <2>1, <3>1, <3>2
    <3> QED  BY <3>1, <3>3
  <2> QED  BY <2>2, <2>3, <2>4 DEF Ready
<1> QED  BY <1>3, <1>4, <1>5 DEF PollArrayExact

(* GEPD::fds, GEPD::nfds and the vector agree after any order of spawns    *)
(* and deaths: every process has the two entries of its place, they refer  *)
(* to the read ends of its own pipes, and count is the number of revents   *)
(* that process_data::check has not come to.                               *)
THEOREM PollArrayStaysExact == Spec => []PollArrayExact
<1>1. IInv => PollArrayExact
  BY ExactFromInvariant
<1> QED  BY <1>1, Invariant, PTL

(* ~process_data kills a child only when the child has closed one of its   *)
(* pipes, or when main returns.                                            *)
THEOREM KillsAreJustified == Spec => []KilledForAReason
<1>1. IInv => KilledForAReason
  BY DEF IInv, HangUps
<1> QED  BY <1>1, Invariant, PTL

(* What a child had in a pipe as it exited is read before the process is   *)
(* erased, or at least one buffer of it: flush_stream reads no further,    *)
(* and the pipe is closed behind it.                                       *)
THEOREM OutputIsDelivered == Spec => []OutputDelivered
<1>1. IInv => OutputDelivered
  BY DEF IInv
<1> QED  BY <1>1, Invariant, PTL

(* A child that hung up is in the vector, and poll reports it.             *)
LEMMA SeenFromInvariant ==
    ASSUME IInv
    PROVE  DeathsSeen
<1>1. Shape /\ Vector /\ Descriptors /\ Ends /\ HangUps
  BY DEF IInv
<1>2. NothingInherited
  BY <1>1 DEF Ends
<1>3. ASSUME NEW c \in hungup, child[c].state # "reaped", ~child[c].stray
      PROVE  \E k \in 1 .. Len(processes) :
                 /\ processes[k].pid = c
                 /\ pc = "poll" =>
                       \E n \in Streams : "HUP" \in Revents(ReadEnd(c, n))
  <2>1. c \in Children /\ child[c].state \in Alive /\ ~Abandoned(c)
    BY <1>1, <1>3 DEF Shape, HangUps, Alive, Abandoned
  <2>2. PICK k \in 1 .. Len(processes) : processes[k].pid = c
    BY <1>1, <1>3, <2>1 DEF Vector
  <2>3. PICK n \in Streams : ~Holds(child[c].files, WriteEnd(c, n))
    BY <1>1, <1>3 DEF Ends
  <2>4. ~Holds(files, WriteEnd(c, n))
    BY <1>1, <2>1 DEF Descriptors
  <2>5. \A d \in Children : ~Holds(child[d].files, WriteEnd(c, n))
    BY <1>2, <2>1, <2>3 DEF NothingInherited
  <2>6. "HUP" \in Revents(ReadEnd(c, n))
    BY <2>4, <2>5, ReventsIs
  <2> QED  BY <2>2, <2>6
<1>4. HangUpSeen
  BY <1>3 DEF HangUpSeen
<1> QED  BY <1>2, <1>4 DEF DeathsSeen

(* spawn closes what is polled in the child and the write ends in          *)
(* os_spawn, so poll reports the hang-up of a child although others live,  *)
(* and the child is in the vector until then.  A stray, for which the      *)
(* parent failed behind the fork, was never in it.                         *)
THEOREM DeathsAreSeen == Spec => []DeathsSeen
<1>1. IInv => DeathsSeen
  BY SeenFromInvariant
<1> QED  BY <1>1, Invariant, PTL

(* The status of a start that failed reaches waitpid although the child    *)
(* is killed on the way, and spawn_status::string names the step.          *)
THEOREM CauseIsReported == Spec => []CauseReported
<1>1. IInv => CauseReported
  BY DEF IInv, Causes, CauseReported
<1> QED  BY <1>1, Invariant, PTL

(* Whichever call of main fails, every child of the vector is dead and     *)
(* waited for when it has returned, and exit_status_to_list names the      *)
(* call; strays and an abort by an assertion are excepted.                 *)
THEOREM EndIsClean == Spec => []EndsCleanly
<1>1. IInv => EndsCleanly
  BY DEF IInv, Result, EndsCleanly, EndReported
<1> QED  BY <1>1, Invariant, PTL

(* A number that fits uid_t or gid_t is not changed by the cast.           *)
LEMMA CastKeeps ==
    /\ \A i \in 1 .. IdModulus - 1 : i % IdModulus = i /\ i # 0
    /\ 0 % IdModulus = 0
<1>1. ASSUME NEW m \in Nat, m # 0, NEW i \in 0 .. m - 1
      PROVE  i % m = i
  OBVIOUS
<1>2. IdModulus \in Nat /\ IdModulus # 0 /\ 0 \in 0 .. IdModulus - 1
  BY SpawnAssumption
<1>3. \A i \in 1 .. IdModulus - 1 : i \in 0 .. IdModulus - 1 /\ i # 0
  BY <1>2
<1> QED  BY <1>1, <1>2, <1>3, Zenon

(* What owner_get gives for the numbers that fit, and for names.           *)
LEMMA OwnerGetFits ==
    ASSUME NEW c \in Children
    PROVE  LET U == UserOf[c]
               G == GroupOf[c]
           IN  /\ U.id \in 1 .. IdModulus - 1 => owner_get(c).uid = U.id
               /\ U.id = 0 => owner_get(c).uid = IF U.named THEN U.uid ELSE 0
               /\ G.id \in 1 .. IdModulus - 1 => owner_get(c).gid = G.id
               /\ G.id = 0 /\ G.named => owner_get(c).gid = G.gid
               /\ G.id = 0 /\ ~G.named /\ U.id < IdModulus =>
                      owner_get(c).gid = IF U.id = 0 /\ U.named THEN U.gid ELSE 0
<1> DEFINE U == UserOf[c]
           G == GroupOf[c]
           user == U.id % IdModulus
           group == G.id % IdModulus
<1>1. U.id \in Nat /\ G.id \in Nat /\ IdModulus \in Nat
  BY SpawnAssumption DEF User, Group
<1>2. /\ U.id \in 1 .. IdModulus - 1 => user = U.id /\ user # 0
      /\ U.id = 0 => user = 0
      /\ G.id \in 1 .. IdModulus - 1 => group = G.id /\ group # 0
      /\ G.id = 0 => group = 0
  BY CastKeeps
<1>3. U.id < IdModulus => U.id = 0 \/ U.id \in 1 .. IdModulus - 1
  BY <1>1
<1>4. owner_get(c) =
        [uid |-> IF user = 0 /\ U.named THEN U.uid ELSE user,
         gid |-> LET gid == IF user = 0 /\ U.named /\ group = 0 /\ ~G.named
                            THEN U.gid ELSE group
                 IN  IF gid = 0 /\ G.named THEN G.gid ELSE gid]
  BY DEF owner_get
<1> HIDE DEF U, G, user, group
<1> QED  BY <1>2, <1>3, <1>4 DEF U, G

(* The sockets and the owner of a program are the configured ones.         *)
LEMMA PlacedFromInvariant ==
    ASSUME IInv
    PROVE  SocketsPlaced /\ UserApplied
<1>1. Configured
  BY DEF IInv
<1>2. SocketsPlaced
  BY <1>1 DEF Configured, SocketsPlaced
<1>3. UserApplied
  BY <1>1, OwnerGetFits DEF Configured, UserApplied
<1> QED  BY <1>2, <1>3

(* A program runs with its sockets at the descriptors where                *)
(* cloudi_initialize looks for them, whatever descriptors os_spawn had     *)
(* open when it forked, and as the configured user and group if their      *)
(* numbers fit uid_t and gid_t: owner_get casts a larger one.              *)
THEOREM SocketsAndUser == Spec => [](SocketsPlaced /\ UserApplied)
<1>1. IInv => SocketsPlaced /\ UserApplied
  BY PlacedFromInvariant
<1> QED  BY <1>1, Invariant, PTL
=============================================================================
