------------------------------- MODULE OsSpawn -------------------------------
(***************************************************************************)
(* cloudi_os_spawn (src/lib/cloudi_core/cxx_src): the port program of the  *)
(* Erlang VM that starts the OS processes of external services.  It polls  *)
(* its Erlang port, its own stdout and stderr and two pipes per child, and *)
(* hands on what the children print.  A child that closes one of its pipes *)
(* is dead: what is left in the pipes is read, the entries of the poll     *)
(* array behind it are shifted, and the child is killed and waited for.    *)
(*                                                                         *)
(* File descriptors are modelled by tables, one for os_spawn and one for   *)
(* each child, because who holds the write end of a pipe decides when the  *)
(* read end hangs up.  The bytes of a line are the module StreamBuffer.    *)
(***************************************************************************)
EXTENDS Integers, Sequences, FiniteSets, SequencesExt

CONSTANTS
    Children,   \* the processes that are started
    Self,       \* os_spawn
    Ports,      \* sockets of a child, one for each of its threads
    UserOf,     \* configured user of a child, and what its name stands for
    GroupOf,    \* configured group of a child, and what its name stands for
    IdModulus,  \* numbers of users and groups: 2^32 for uid_t and gid_t
    LimitsOf,   \* configured limits of a child
    Inherited,  \* the limit os_spawn has itself, for every resource
    MaxLimit,   \* bound: the largest limit, which stands for infinity
    Closing,    \* children whose program may close stdout or stderr
    Failing,    \* bound: children whose spawn may fail in os_spawn
    Exits,      \* statuses a program of a service ends with
    Statuses,   \* bound: statuses a start that fails ends with
    Endings,    \* bound: statuses that os_spawn ends with
    MaxFd,      \* bound: file descriptors
    Buffered,   \* lines that fit the buffer of a stream (16384 bytes)
    MaxLines    \* bound: lines in each pipe of a child

\* A configured limit; undefined is -1 here, and infinity is MaxLimit.
undefined == -1
Limit == [type : STRING, current : undefined .. MaxLimit,
          maximum : undefined .. MaxLimit]

\* A user is configured by number, or by a name that getpwnam finds an id and
\* a group for; the number is 0 and named is FALSE if it is not configured.
User == [id : Nat, named : BOOLEAN, uid : Nat, gid : Nat]
Group == [id : Nat, named : BOOLEAN, gid : Nat]

ASSUME SpawnAssumption ==
    /\ IsFiniteSet(Children)
    /\ Self \notin Children
    /\ Ports \in Nat
    /\ UserOf \in [Children -> User]
    /\ GroupOf \in [Children -> Group]
    /\ IdModulus \in Nat \ {0}
    /\ LimitsOf \in [Children -> Seq(Limit)]
    /\ Inherited.cur <= Inherited.max
    /\ Closing \subseteq Children
    /\ Failing \subseteq Children
    /\ Exits \subseteq 0 .. 255
    /\ Statuses \subseteq 1 .. 255
    /\ Endings \subseteq {12} \cup 80 .. 127
    /\ MaxFd \in Nat
    /\ Ports + 4 <= MaxFd
    /\ Buffered \in Nat \ {0}
    /\ MaxLines \in [Children -> [{1, 2} -> Nat]]

VARIABLES
    fds,        \* GEPD::fds
    nfds,       \* GEPD::nfds
    processes,  \* the vector of process_data
    count,      \* revents left to look at
    pc,         \* where the main loop is
    itr,        \* the process the main loop looks at
    files,      \* the descriptors of os_spawn
    child,      \* the children
    lines,      \* lines in the pipes, written and not read
    requests,   \* calls of spawn in the port
    erlang,     \* the Erlang VM has the port open
    reported,   \* what os_spawn printed of the end of a child
    result,     \* the exit status of os_spawn
    cause,      \* history: the step at which the start of a child failed
    ended,      \* history: the call at which os_spawn failed
    hungup,     \* history: children that closed one of their pipes
    closers,    \* history: children that did so other than by exiting
    left        \* history: lines in the pipes of a child as it exited

ending == <<result, ended>>
pollVars == <<fds, nfds, processes, count, pc, itr, ending>>
history == <<cause, hungup, closers, left>>
vars == <<pollVars, files, child, lines, requests, erlang, reported, history>>

-----------------------------------------------------------------------------
(* Statuses                                                                *)

\* The values of spawn_status and GEPD::ExitStatus, by the call they are for.
invalid_input == {11}
errno_pipe == 13 .. 17
errno_fork == 18 .. 20
errno_socket == 21 .. 29
errno_dup == 30 .. 35
errno_close == 36 .. 39
errno_connect == 44 .. 59
errno_exec == 60 .. 77
out_of_memory == 12
errno_write == 91 .. 102
ei_encode_error == {103}
ExitStatus == 81 .. 127
signals == 129 .. 159
SIGKILL == 9
SIGABRT == 6

\* Mutant: errno_exec gives a status of connect for one of its errors.
StatusOfShifted(step) ==
    CASE step = "input" -> invalid_input
      [] step = "socket" -> errno_socket
      [] step = "dup" -> errno_dup
      [] step = "close" -> errno_close
      [] step = "connect" -> errno_connect
      [] step = "exec" -> 59 .. 76
      [] step = "write" -> errno_write
      [] step = "encode" -> ei_encode_error

StatusOf(step) ==
    CASE step = "input" -> invalid_input
      [] step = "socket" -> errno_socket
      [] step = "dup" -> errno_dup
      [] step = "close" -> errno_close
      [] step = "connect" -> errno_connect
      [] step = "exec" -> errno_exec
      [] step = "write" -> errno_write
      [] step = "encode" -> ei_encode_error

\* spawn_status::string, as the call that is named.
string(status) ==
    CASE status \in invalid_input -> "input"
      [] status \in errno_pipe -> "pipe"
      [] status \in errno_fork -> "fork"
      [] status \in errno_socket -> "socket"
      [] status \in errno_dup -> "dup"
      [] status \in errno_close -> "close"
      [] status \in errno_connect -> "connect"
      [] status \in errno_exec -> "exec"
      [] status \in errno_write -> "write"
      [] status \in ei_encode_error -> "encode"
      [] status \in ExitStatus \ (errno_write \cup ei_encode_error) -> "port"
      [] status \in signals -> "signal"
      [] OTHER -> "number"

\* GEPD::ExitStatus, by the call that os_spawn itself failed at.
erlang_exit == {80}
errno_read == 81 .. 90
port_errno_write == 91 .. 102
errno_poll == 104 .. 112
port_errno_pipe == 113 .. 117
port_errno_dup == 118 .. 123
port_errno_close == 124 .. 127

PortStatus(step) ==
    CASE step = "erlang" -> erlang_exit
      [] step = "read" -> errno_read
      [] step = "write" -> port_errno_write
      [] step = "poll" -> errno_poll
      [] step = "pipe" -> port_errno_pipe
      [] step = "dup" -> port_errno_dup
      [] step = "close" -> port_errno_close
      [] step = "encode" -> ei_encode_error
      [] step = "memory" -> {out_of_memory}

\* What cloudi_core_i_os_spawn stops with when os_spawn ends, as the call
\* that is named.
exit_status_to_list(status) ==
    CASE status = 0 -> "no error"
      [] status = 80 -> "erlang"
      [] status \in 81 .. 90 -> "read"
      [] status \in 91 .. 102 -> "write"
      [] status = 103 -> "encode"
      [] status \in 104 .. 112 -> "poll"
      [] status \in 113 .. 117 -> "pipe"
      [] status \in 118 .. 123 -> "dup"
      [] status \in 124 .. 127 -> "close"
      [] status \in signals -> "signal"
      [] OTHER -> "number"

-----------------------------------------------------------------------------
(* Limits                                                                  *)

\* The numbers that limit_format_list_type gives to the limits, and the
\* resources type_value makes of the numbers.
limit_types == <<"as", "core", "cpu", "data", "fsize", "memlock", "msgqueue",
                 "nice", "nofile", "nproc", "rss", "rtprio", "rttime",
                 "sigpending", "stack", "vmem">>

type_value(type) ==
    CASE type = 1 -> "RLIMIT_AS"           [] type = 2 -> "RLIMIT_CORE"
      [] type = 3 -> "RLIMIT_CPU"          [] type = 4 -> "RLIMIT_DATA"
      [] type = 5 -> "RLIMIT_FSIZE"        [] type = 6 -> "RLIMIT_MEMLOCK"
      [] type = 7 -> "RLIMIT_MSGQUEUE"     [] type = 8 -> "RLIMIT_NICE"
      [] type = 9 -> "RLIMIT_NOFILE"       [] type = 10 -> "RLIMIT_NPROC"
      [] type = 11 -> "RLIMIT_RSS"         [] type = 12 -> "RLIMIT_RTPRIO"
      [] type = 13 -> "RLIMIT_RTTIME"      [] type = 14 -> "RLIMIT_SIGPENDING"
      [] type = 15 -> "RLIMIT_STACK"       [] type = 16 -> "RLIMIT_VMEM"

Resources == {type_value(type) : type \in DOMAIN limit_types}

\* limit_format: a limit as it is packed for os_spawn.
limit_format(limit) ==
    [type |-> CHOOSE i \in DOMAIN limit_types : limit_types[i] = limit.type,
     format |-> CASE limit.maximum = undefined -> "CURRENT_ONLY"
                  [] limit.current = undefined -> "MAXIMUM_ONLY"
                  [] OTHER -> "CURRENT_MAXIMUM",
     values |-> SelectSeq(<<limit.current, limit.maximum>>,
                          LAMBDA v : v # undefined)]

\* Mutant: the value of a maximum is used as the current limit too.
element_both(held, packed) ==
    CASE packed.format = "CURRENT_ONLY" ->
            [cur |-> packed.values[1], max |-> held.max]
      [] packed.format = "MAXIMUM_ONLY" ->
            [cur |-> packed.values[1], max |-> packed.values[1]]
      [] packed.format = "CURRENT_MAXIMUM" ->
            [cur |-> packed.values[1], max |-> packed.values[2]]

\* The limit that is set for an element of the packed limits: what it does
\* not give is got from the limit that is held.
element(held, packed) ==
    CASE packed.format = "CURRENT_ONLY" ->
            [cur |-> packed.values[1], max |-> held.max]
      [] packed.format = "MAXIMUM_ONLY" ->
            [cur |-> held.cur, max |-> packed.values[1]]
      [] packed.format = "CURRENT_MAXIMUM" ->
            [cur |-> packed.values[1], max |-> packed.values[2]]

\* rlimit: every element is set in its turn.
rlimit(held, rlimits) ==
    FoldLeft(LAMBDA limits, packed :
                [limits EXCEPT ![type_value(packed.type)] =
                                    element(@, packed)],
             held, rlimits)

\* setrlimit refuses a current limit above the maximum (external).
setrlimit(limits) == \A r \in Resources : limits[r].cur <= limits[r].max

-----------------------------------------------------------------------------
(* File descriptors                                                        *)

stdout == 1
stderr == 2
Streams == {stdout, stderr}

\* What a descriptor refers to: a pipe has a read end and a write end, n
\* tells the pipes of an owner apart, and the sockets of a child.
File(kind, owner, n) == [kind |-> kind, owner |-> owner, n |-> n]

Free == File("free", Self, 0)
Stdin == File("stdin", Self, 0)
PORT_READ_FILE_DESCRIPTOR == 3
PORT_WRITE_FILE_DESCRIPTOR == 4
PortRead == File("port_read", Self, 0)
PortWrite == File("port_write", Self, 0)
ReadEnd(x, n) == File("read", x, n)
WriteEnd(x, n) == File("write", x, n)
Socket(c, n) == File("socket", c, n)

Table == 0 .. MaxFd

Holds(t, f) == \E k \in Table : t[k] = f

\* There are n free descriptors; without them socket and pipe fail.
Room(t, n) == Cardinality({k \in Table : t[k] = Free}) >= n

\* open, and pipe: the lowest free descriptor is used.
Opened(t, f) ==
    LET free == {k \in Table : t[k] = Free}
    IN  [t EXCEPT ![CHOOSE k \in free : \A j \in free : k <= j] = f]

pipe(t, x, n) == Opened(Opened(t, ReadEnd(x, n)), WriteEnd(x, n))

Closed(t, F) == [k \in Table |-> IF t[k] \in F THEN Free ELSE t[k]]

Descriptor(t, f) == CHOOSE k \in Table : t[k] = f

\* dup2(f, n) and close(f)
Moved(t, f, n) == [Closed(t, {f}) EXCEPT ![n] = f]

-----------------------------------------------------------------------------
(* The poll array                                                          *)

\* The indexes of C, plus one.
INDEX_STDOUT == 1
INDEX_STDERR == 2
INDEX_ERLANG == 3

MaxPollFds == 3 + 2 * Cardinality(Children)

Entry(fd) == [fd |-> fd, revents |-> {}]

\* store_standard_fd: the own stream n becomes a pipe to itself.
store_standard_fd(t, n) == Moved(pipe(t, Self, n), WriteEnd(Self, n), n)

\* A process that is not there, not yet or no more.  A stray is one that was
\* forked and is in no vector; 0 is root.
Process(state) ==
    [state |-> state, stray |-> FALSE, connected |-> 0, status |-> 0,
     uid |-> 0, gid |-> 0, limits |-> [r \in Resources |-> Inherited],
     files |-> [k \in Table |-> Free]]

\* os_spawn as the Erlang VM starts it.
Init ==
    /\ files = [k \in Table |->
                  CASE k = PORT_READ_FILE_DESCRIPTOR -> PortRead
                    [] k = PORT_WRITE_FILE_DESCRIPTOR -> PortWrite
                    [] k \in 0 .. 2 -> Stdin
                    [] OTHER -> Free]
    /\ fds = [i \in 1 .. MaxPollFds |-> Entry(0)]
    /\ nfds = 0
    /\ processes = <<>>
    /\ count = 0
    /\ pc = "init"
    /\ itr = 1
    /\ child = [c \in Children |-> Process("none")]
    /\ lines = [x \in Children \cup {Self} |-> [n \in Streams |-> 0]]
    /\ requests = 0
    /\ erlang = TRUE
    /\ result = 0
    /\ ended = "none"
    /\ reported = [c \in Children |-> "nothing"]
    /\ cause = [c \in Children |-> "none"]
    /\ hungup = {}
    /\ closers = {}
    /\ left = [c \in Children |-> [n \in Streams |-> 0]]

-----------------------------------------------------------------------------
(* The children                                                            *)

\* A child is about to end, and its stdout is closed first.
Exiting(c, status) ==
    /\ child' = [child EXCEPT ![c].state = "exiting",
                              ![c].status = status,
                              ![c].files = Closed(@, {WriteEnd(c, stdout)})]
    /\ hungup' = hungup \cup {c}
    /\ left' = [left EXCEPT ![c] = lines'[c]]

\* Mutant: the polled descriptors are kept.
ForkedKeeps(t, c) ==
    LET out == Moved(t, WriteEnd(c, stdout), stdout)
        err == Moved(Closed(out, {ReadEnd(c, stdout)}),
                     WriteEnd(c, stderr), stderr)
    IN  Closed(err, {ReadEnd(c, stderr)})

\* spawn, in the child, up to the sockets: the descriptors of the poll array
\* are closed, and the pipes become stdout and stderr.
Forked(t, c) ==
    LET polled == {fds[i].fd : i \in 1 .. nfds}
        kept == [k \in Table |-> IF k \in polled THEN Free ELSE t[k]]
        out == Moved(kept, WriteEnd(c, stdout), stdout)
        err == Moved(Closed(out, {ReadEnd(c, stdout)}),
                     WriteEnd(c, stderr), stderr)
    IN  Closed(err, {ReadEnd(c, stderr)})

\* The next socket is opened, placed at the descriptor where
\* cloudi_initialize looks for it, and connected; the pid message is written
\* to the first one (ExternalService, connection_init).
Connect(c) ==
    LET i == child[c].connected
        opened == Opened(child[c].files, Socket(c, i))
        placed == IF Descriptor(opened, Socket(c, i)) = i + 3 THEN opened
                  ELSE Moved(opened, Socket(c, i), i + 3)
    IN  /\ child[c].state = "connect"
        /\ i < Ports
        /\ Room(child[c].files, 1)
        /\ child' = [child EXCEPT ![c].files = placed,
                                  ![c].connected = i + 1]
        /\ UNCHANGED <<pollVars, files, lines, requests, erlang, reported,
                       history>>

\* The numbers are cast to uid_t and gid_t before a name is looked up, and a
\* group that is not configured comes from the name of the user only.
owner_get(c) ==
    LET U == UserOf[c]
        G == GroupOf[c]
        user == U.id % IdModulus
        group == G.id % IdModulus
        looked_up == user = 0 /\ U.named
        gid == IF looked_up /\ group = 0 /\ ~G.named THEN U.gid ELSE group
    IN  [uid |-> IF looked_up THEN U.uid ELSE user,
         gid |-> IF gid = 0 /\ G.named THEN G.gid ELSE gid]

\* argv and env are split; owner_get, chroot and the limits, still as root.
Limited(c) ==
    LET limits == rlimit(child[c].limits,
                         [i \in DOMAIN LimitsOf[c] |->
                             limit_format(LimitsOf[c][i])])
    IN  /\ child[c].state = "connect"
        /\ child[c].connected = Ports
        /\ setrlimit(limits)
        /\ child' = [child EXCEPT ![c].state = "limited",
                                  ![c].limits = limits]
        /\ UNCHANGED <<pollVars, files, lines, requests, erlang, reported,
                       history>>

\* nice, owner_set and chdir; the id 0 is not set.
owner_set(c) ==
    LET to == owner_get(c)
    IN  /\ child[c].state = "limited"
        /\ child' = [child EXCEPT ![c].state = "exec",
                                  ![c].uid = IF to.uid > 0 THEN to.uid ELSE @,
                                  ![c].gid = IF to.gid > 0 THEN to.gid ELSE @]
        /\ UNCHANGED <<pollVars, files, lines, requests, erlang, reported,
                       history>>

execve(c) ==
    /\ child[c].state = "exec"
    /\ child' = [child EXCEPT ![c].state = "running"]
    /\ UNCHANGED <<pollVars, files, lines, requests, erlang, reported, history>>

\* The steps that may fail in a state before the program runs.
StepsIn(c) ==
    CASE child[c].state = "connect" /\ child[c].connected < Ports ->
            {"dup", "close", "encode", "socket", "connect", "write"}
      [] \/ child[c].state = "connect" /\ child[c].connected = Ports
         \/ child[c].state = "limited" -> {"input"}
      [] child[c].state = "exec" -> {"exec"}
      [] OTHER -> {}

\* A step fails: _exit with its status.  perror tells of input on stderr.
SetUpFails(c) ==
    \E step \in StepsIn(c) :
        /\ lines' \in {lines} \cup
               (IF step = "input" /\ lines[c][stderr] < MaxLines[c][stderr]
                THEN {[lines EXCEPT ![c][stderr] = @ + 1]} ELSE {})
        /\ \E status \in StatusOf(step) \cap Statuses : Exiting(c, status)
        /\ cause' = [cause EXCEPT ![c] = step]
        /\ UNCHANGED <<pollVars, files, requests, erlang, reported, closers>>

\* The program of the service prints a line (external).
Write(c, n) ==
    /\ child[c].state = "running"
    /\ Holds(child[c].files, WriteEnd(c, n))
    /\ lines[c][n] < MaxLines[c][n]
    /\ lines' = [lines EXCEPT ![c][n] = @ + 1]
    /\ UNCHANGED <<pollVars, files, child, requests, erlang, reported, history>>

\* It closes its stdout or stderr (external).
CloseStream(c, n) ==
    /\ c \in Closing
    /\ child[c].state = "running"
    /\ Holds(child[c].files, WriteEnd(c, n))
    /\ child' = [child EXCEPT ![c].files = Closed(@, {WriteEnd(c, n)})]
    /\ hungup' = hungup \cup {c}
    /\ closers' = closers \cup {c}
    /\ UNCHANGED <<pollVars, files, lines, requests, erlang, reported, cause,
                   left>>

\* It exits or is killed (external).
Exit(c, status) ==
    /\ child[c].state = "running"
    /\ UNCHANGED lines
    /\ Exiting(c, status)
    /\ UNCHANGED <<pollVars, files, requests, erlang, reported, cause, closers>>

\* The rest of its descriptors is closed.
Exited(c) ==
    /\ child[c].state = "exiting"
    /\ child' = [child EXCEPT ![c].state = "zombie",
                              ![c].files = [k \in Table |-> Free]]
    /\ UNCHANGED <<pollVars, files, lines, requests, erlang, reported, history>>

-----------------------------------------------------------------------------
(* GEPD::wait                                                              *)

\* What poll finds for a descriptor of os_spawn.
Revents(f) ==
    CASE f = PortRead ->
            (IF requests > 0 THEN {"IN"} ELSE {}) \cup
            (IF erlang THEN {} ELSE {"HUP"})
      [] f.kind = "read" ->
            (IF lines[f.owner][f.n] > 0 THEN {"IN"} ELSE {}) \cup
            (IF \/ Holds(files, WriteEnd(f.owner, f.n))
                \/ \E c \in Children :
                      Holds(child[c].files, WriteEnd(f.owner, f.n))
             THEN {} ELSE {"HUP"})
      [] OTHER -> {}

Poll ==
    LET polled == [i \in 1 .. MaxPollFds |->
                      IF i <= nfds
                      THEN [fds[i] EXCEPT
                              !.revents = Revents(files[fds[i].fd])]
                      ELSE fds[i]]
        ready == {i \in 1 .. nfds : polled[i].revents # {}}
    IN  /\ pc = "poll"
        /\ ready # {}
        /\ fds' = polled
        /\ count' = Cardinality(ready)
        /\ pc' = "erlang"
        /\ UNCHANGED <<ending, nfds, processes, itr, files, child, lines,
                       requests, erlang, reported, history>>

\* main is about to return a status.
Fail(step) ==
    /\ result' \in PortStatus(step) \cap Endings
    /\ ended' = step
    /\ pc' = "return"

-----------------------------------------------------------------------------
(* The streams of the process that the main loop looks at                  *)

\* consume_stream and flush_stream for the stream n of the process: x is the
\* count, the revents of both streams, the streams read so far, and whether
\* a hang-up was seen.
consume_stream(x, n) ==
    IF x.hup \/ x.count = 0 \/ x.revents[n] = {} THEN x
    ELSE IF "HUP" \in x.revents[n] THEN [x EXCEPT !.hup = TRUE]
    ELSE [x EXCEPT !.revents[n] = {}, !.count = @ - 1, !.read = @ \cup {n}]

flush_stream(x, n) ==
    IF x.count = 0 \/ x.revents[n] = {} THEN x
    ELSE [x EXCEPT !.count = @ - 1,
                   !.read = IF "IN" \in x.revents[n] THEN @ \cup {n} ELSE @]

\* process_data::check and process_data::flush: stderr is first.
check(x) == consume_stream(consume_stream(x, stderr), stdout)
\* Mutant: what is left in the pipes is not read.
flush_unread(x) ==
    [flush_stream(flush_stream(x, stderr), stdout) EXCEPT !.read = x.read]

flush(x) == flush_stream(flush_stream(x, stderr), stdout)

\* What check finds for the process at itr.
Current ==
    LET P == processes[itr]
        revents == [n \in Streams |->
                       IF n = stdout THEN fds[P.index_stdout].revents
                       ELSE fds[P.index_stderr].revents]
    IN  check([count |-> count, revents |-> revents,
               read |-> {}, hup |-> FALSE])

Looking == pc = "check" /\ itr <= Len(processes) /\ count > 0

\* One read takes what fits the buffer of the stream; the rest stays in the
\* pipe, where poll finds it unless the pipe is closed.
Unread(k) == IF k > Buffered THEN k - Buffered ELSE 0

Drained(x, read) ==
    [lines EXCEPT ![x] = [n \in Streams |->
                             IF n \in read THEN Unread(@[n]) ELSE @[n]]]

\* The streams that are read and sent where the main loop is, and whose they
\* are.
Reading ==
    CASE pc = "own" ->
            {n \in Streams :
                fds[IF n = stdout THEN INDEX_STDOUT
                    ELSE INDEX_STDERR].revents # {}}
      [] Looking -> IF Current.hup THEN flush(Current).read ELSE Current.read
      [] OTHER -> {}

ReadFrom == IF pc = "own" THEN Self ELSE processes[itr].pid

\* What was read is sent: write_cmd needs the port.
Sent(read) == read # {} => erlang

\* A stream is read, and the message with its lines is not encoded or not
\* written: main returns before anything else is done for the process, and
\* what was counted so far is not used again.
SendFails ==
    /\ \E step \in {"write", "encode"} : Fail(step)
    /\ \E read \in (SUBSET Reading) \ {{}} :
          /\ stderr \in Reading => stderr \in read
          /\ lines' = Drained(ReadFrom, read)
    /\ UNCHANGED <<fds, nfds, processes, count, itr, files, child, requests,
                   erlang, reported, history>>

\* An assertion of realloc_ptr fails on an index that was counted too far
\* (StreamBuffer, IndexExact): nobody catches the exception, so os_spawn is
\* aborted and no process_data is destroyed.
Abort ==
    /\ Reading # {}
    /\ result' = SIGABRT + 128
    /\ ended' = "abort"
    /\ pc' = "exit"
    /\ UNCHANGED <<fds, nfds, processes, count, itr, files, child, lines,
                   requests, erlang, reported, history>>

-----------------------------------------------------------------------------
(* Starting, and the calls of Erlang                                       *)

\* The calls of os_spawn itself that may fail where it is; read_exact and
\* the streams are read where poll found something to read, and flush_stream
\* ignores that it could not.
CallsIn ==
    CASE pc = "init" -> {"pipe", "dup", "close"}
      [] pc = "poll" -> {"poll"}
      [] pc = "erlang" /\ fds[INDEX_ERLANG].revents = {"IN"} -> {"read"}
      [] pc = "own" /\ Reading # {} -> {"read"}
      [] Looking /\ Current.read # {} -> {"read"}
      [] OTHER -> {}

PortFails ==
    /\ \E step \in CallsIn : Fail(step)
    /\ UNCHANGED <<fds, nfds, processes, count, itr, files, child, lines,
                   requests, erlang, reported, history>>

\* GEPD::init: the own stdout and stderr become pipes, and are polled like
\* the port.
init ==
    LET started == store_standard_fd(store_standard_fd(files, 1), 2)
    IN  /\ pc = "init"
        /\ Room(files, 3)
        /\ files' = started
        /\ fds' = [fds EXCEPT
                      ![INDEX_STDOUT] =
                          Entry(Descriptor(started, ReadEnd(Self, stdout))),
                      ![INDEX_STDERR] =
                          Entry(Descriptor(started, ReadEnd(Self, stderr))),
                      ![INDEX_ERLANG] = Entry(PORT_READ_FILE_DESCRIPTOR)]
        /\ nfds' = 3
        /\ pc' = "poll"
        /\ UNCHANGED <<processes, count, itr, ending, child, lines, requests,
                       erlang, reported, history>>

\* There is nothing to read from the port.
WaitErlang ==
    /\ pc = "erlang"
    /\ fds[INDEX_ERLANG].revents = {}
    /\ pc' = "own"
    /\ UNCHANGED <<ending, fds, nfds, processes, count, itr, files, child,
                   lines, requests, erlang, reported, history>>

\* consume_erlang: a call of spawn is read.
consume_erlang ==
    /\ pc = "erlang"
    /\ fds[INDEX_ERLANG].revents = {"IN"}
    /\ requests' = requests - 1
    /\ count' = count - 1
    /\ UNCHANGED <<itr, lines, erlang, reported, history>>

\* What spawn returns is written, or that fails and main returns.
Reply ==
    \/ erlang /\ pc' = "own" /\ UNCHANGED ending
    \/ \E step \in {"write", "encode"} : Fail(step)

\* The pipes of spawn, and the child that is forked with them.
Pipes(c) == pipe(pipe(files, c, stdout), c, stderr)

fork(c, stray) ==
    /\ child[c].state = "none"
    /\ Room(files, 4)
    /\ child' = [child EXCEPT ![c].state = "connect",
                              ![c].stray = stray,
                              ![c].files = Forked(Pipes(c), c)]

\* The parent's part of spawn: the write ends are closed and the read ends
\* are appended to the poll array.
spawn(c) ==
    LET held == Closed(Pipes(c), {WriteEnd(c, stdout), WriteEnd(c, stderr)})
        added(n) == Entry(Descriptor(held, ReadEnd(c, n)))
    IN  /\ consume_erlang
        /\ Reply
        /\ fork(c, FALSE)
        /\ files' = held
        /\ fds' = [fds EXCEPT ![INDEX_ERLANG].revents = {},
                              ![nfds + 1] = added(stdout),
                              ![nfds + 2] = added(stderr)]
        /\ nfds' = nfds + 2
        /\ processes' = Append(processes,
                               [pid |-> c, index_stdout |-> nfds + 1,
                                index_stderr |-> nfds + 2])

\* The parent fails behind the fork and the child is in no vector: a close
\* fails, which may have closed the descriptor or not, and the status is
\* returned in the place of a pid; or the poll array cannot grow and os_spawn
\* exits, which destroys the vector like the end of main.
SpawnStrays(c) ==
    LET out == Closed(Pipes(c), {WriteEnd(c, stdout)})
        held == Closed(Pipes(c), {WriteEnd(c, stdout), WriteEnd(c, stderr)})
    IN  /\ c \in Failing
        /\ consume_erlang
        /\ fork(c, TRUE)
        /\ \/ Reply /\ files' \in {Pipes(c), out, held}
           \/ Fail("memory") /\ files' = held
        /\ fds' = [fds EXCEPT ![INDEX_ERLANG].revents = {}]
        /\ UNCHANGED <<nfds, processes>>

\* A pipe or the fork fails: the status is returned in the place of a pid,
\* and the descriptors that were opened stay open.
SpawnFails(c) ==
    LET one == pipe(files, c, stdout)
    IN  /\ c \in Failing
        /\ consume_erlang
        /\ Reply
        /\ child[c].state = "none"
        /\ child' = [child EXCEPT ![c].state = "failed"]
        /\ \/ files' = files
           \/ Room(files, 2) /\ files' = one
           \/ Room(files, 4) /\ files' = pipe(one, c, stderr)
        /\ fds' = [fds EXCEPT ![INDEX_ERLANG].revents = {}]
        /\ UNCHANGED <<nfds, processes>>

\* erlang_exit
ErlangExit ==
    /\ pc = "erlang"
    /\ "HUP" \in fds[INDEX_ERLANG].revents
    /\ Fail("erlang")
    /\ UNCHANGED <<fds, nfds, processes, count, itr, files, child, lines,
                   requests, erlang, reported, history>>

\* The own stderr, then the own stdout.
WaitOwn ==
    LET ready == {i \in {INDEX_STDERR, INDEX_STDOUT} : fds[i].revents # {}}
        others == count - Cardinality(ready)
    IN  /\ pc = "own"
        /\ fds' = [i \in 1 .. MaxPollFds |->
                      IF i \in ready THEN [fds[i] EXCEPT !.revents = {}]
                      ELSE fds[i]]
        /\ Sent(Reading)
        /\ lines' = Drained(Self, Reading)
        /\ count' = others
        /\ pc' = IF others > 0 THEN "check" ELSE "poll"
        /\ itr' = 1
        /\ UNCHANGED <<ending, nfds, processes, files, child, requests, erlang,
                       reported, history>>

\* ~process_data: the child is killed if it is not dead, and waited for.
waitpid(c) ==
    IF child[c].state \in {"exiting", "zombie"} THEN child[c].status
    ELSE SIGKILL + 128

\* Mutant: a process is destroyed with the vector only if it was checked.
ReturnChecked ==
    /\ pc = "return"
    /\ pc' = "exit"
    /\ processes' = <<>>
    /\ nfds' = nfds - 2 * Len(processes)
    /\ child' = [c \in Children |->
                    IF \E k \in 1 .. Len(processes) :
                          processes[k].pid = c /\ k < itr
                    THEN Process("reaped") ELSE child[c]]
    /\ UNCHANGED <<ending, fds, count, itr, files, lines, requests, erlang,
                   reported, history>>

\* main returns, and every process_data is destroyed.
Return ==
    /\ pc = "return"
    /\ pc' = "exit"
    /\ processes' = <<>>
    /\ nfds' = nfds - 2 * Len(processes)
    /\ child' = [c \in Children |->
                    IF \E k \in 1 .. Len(processes) : processes[k].pid = c
                    THEN Process("reaped") ELSE child[c]]
    /\ UNCHANGED <<ending, fds, count, itr, files, lines, requests, erlang,
                   reported, history>>

-----------------------------------------------------------------------------
(* The main loop: one process of the vector                                *)

Check ==
    LET P == processes[itr]
    IN  /\ Looking
        /\ ~Current.hup
        /\ fds' = [fds EXCEPT
                      ![P.index_stdout].revents = Current.revents[stdout],
                      ![P.index_stderr].revents = Current.revents[stderr]]
        /\ Sent(Current.read)
        /\ lines' = Drained(P.pid, Current.read)
        /\ count' = Current.count
        /\ itr' = itr + 1
        /\ UNCHANGED <<ending, nfds, processes, pc, files, child, requests,
                       erlang, reported, history>>

\* Mutant: the indexes are decremented and the entries stay.
shift_indexes == fds

\* process_data::shift for every process behind the one at itr, in order.
shift ==
    [i \in 1 .. MaxPollFds |->
        IF \E k \in itr + 1 .. Len(processes) :
              i + 2 \in {processes[k].index_stdout,
                         processes[k].index_stderr}
        THEN fds[i + 2] ELSE fds[i]]

\* Mutant: the iterator has moved on to the next process.
dead_moved == IF itr < Len(processes) THEN itr + 1 ELSE itr

\* The process that is erased is the one that was checked.
dead == itr

\* The child hung up: flush, close, shift the others, and erase, where
\* ~process_data prints the status of the child.
Erase ==
    LET P == processes[dead]
        c == P.pid
        flushed == flush(Current)
        gone == {files[fds[P.index_stdout].fd], files[fds[P.index_stderr].fd]}
        status == waitpid(c)
        read == Drained(c, flushed.read)
    IN  /\ Looking
        /\ Current.hup
        /\ Sent(flushed.read)
        /\ lines' = IF status = 0 THEN read
                    ELSE [read EXCEPT ![Self][stderr] = @ + 1]
        /\ reported' = IF status = 0 THEN reported
                       ELSE [reported EXCEPT ![c] = string(status)]
        /\ count' = flushed.count
        /\ files' = Closed(files, gone)
        /\ fds' = shift
        /\ processes' = [k \in 1 .. Len(processes) - 1 |->
                            IF k < dead THEN processes[k]
                            ELSE [processes[k + 1] EXCEPT
                                    !.index_stdout = @ - 2,
                                    !.index_stderr = @ - 2]]
        /\ nfds' = nfds - 2
        /\ child' = [child EXCEPT ![c] = Process("reaped")]
        /\ UNCHANGED <<ending, pc, itr, requests, erlang, history>>

Again ==
    /\ pc = "check"
    /\ ~Looking
    /\ pc' = "poll"
    /\ UNCHANGED <<ending, fds, nfds, processes, count, itr, files, child,
                   lines, requests, erlang, reported, history>>

-----------------------------------------------------------------------------
(* The specification                                                       *)

\* Erlang calls spawn (cloudi_core_i_spawn), or ends.
Request ==
    /\ erlang
    /\ requests < Cardinality({c \in Children : child[c].state = "none"})
    /\ requests' = requests + 1
    /\ UNCHANGED <<pollVars, files, child, lines, erlang, reported, history>>

ErlangStops ==
    /\ erlang
    /\ erlang' = FALSE
    /\ UNCHANGED <<pollVars, files, child, lines, requests, reported, history>>

MainLoop ==
    \/ init
    \/ PortFails
    \/ Poll
    \/ WaitErlang
    \/ \E c \in Children : spawn(c) \/ SpawnStrays(c) \/ SpawnFails(c)
    \/ ErlangExit
    \/ WaitOwn
    \/ SendFails
    \/ Abort
    \/ Check
    \/ Erase
    \/ Again
    \/ Return

ChildStep(c) ==
    \/ Connect(c)
    \/ Limited(c)
    \/ owner_set(c)
    \/ execve(c)
    \/ SetUpFails(c)
    \/ \E n \in Streams : Write(c, n) \/ CloseStream(c, n)
    \/ \E status \in Exits : Exit(c, status)
    \/ Exited(c)

\* What is left of the children when os_spawn has ended is not followed.
Next ==
    /\ pc # "exit"
    /\ \/ Request
       \/ ErlangStops
       \/ MainLoop
       \/ \E c \in Children : ChildStep(c)

Spec == Init /\ [][Next]_vars

-----------------------------------------------------------------------------
(* Properties                                                              *)

\* The bookkeeping of the main loop has its types; count, which the handlers
\* decrement each on its own, is never negative.
TypeOK ==
    /\ pc \in {"init", "poll", "erlang", "own", "check", "return", "exit"}
    /\ nfds \in 0 .. MaxPollFds
    /\ count \in 0 .. MaxPollFds
    /\ itr \in 1 .. Cardinality(Children) + 1
    /\ requests \in 0 .. Cardinality(Children)
    /\ \A c \in Children :
          child[c].state \in {"none", "failed", "connect", "limited", "exec",
                              "running", "exiting", "zombie", "reaped"}

\* The poll array and the vector agree after any sequence of spawns and
\* deaths: the entries of the k-th process are at its place, refer to the
\* read ends of its own pipes, and nothing else is polled.
FdsExact ==
    pc \notin {"init", "return", "exit"} =>
    /\ nfds = 3 + 2 * Len(processes)
    /\ \A k \in 1 .. Len(processes) :
          LET P == processes[k] IN
          /\ P.index_stdout = 2 + 2 * k
          /\ P.index_stderr = 3 + 2 * k
          /\ files[fds[P.index_stdout].fd] = ReadEnd(P.pid, stdout)
          /\ files[fds[P.index_stderr].fd] = ReadEnd(P.pid, stderr)

\* count is the number of revents that are still to be looked at, so the
\* main loop neither stops before a process that is ready nor looks on for
\* one that is not there.
CountExact ==
    pc = "check" =>
        count = Cardinality(
                   {i \in 4 .. nfds :
                       /\ fds[i].revents # {}
                       /\ \E k \in itr .. Len(processes) :
                             i \in {processes[k].index_stdout,
                                    processes[k].index_stderr}})

\* After any order of spawns and deaths the poll array, the vector and the
\* counter of revents agree.
PollArrayExact == TypeOK /\ FdsExact /\ CountExact

\* os_spawn kills a child only when the child has closed one of its pipes,
\* or when os_spawn itself ends; never for what another child did.
KilledForAReason ==
    \A c \in Children :
        child[c].state = "reaped" => c \in hungup \/ pc = "exit"

\* Whatever a child had in a pipe as it exited was read before it was erased,
\* or at least as much as one buffer holds: flush_stream reads once, and the
\* pipe is closed behind it, so only the output beyond one buffer is lost.
OutputDelivered ==
    \A c \in Children :
        child[c].state = "reaped" /\ c \notin closers /\ pc # "exit" =>
            \A n \in Streams :
                lines[c][n] > 0 => lines[c][n] + Buffered <= left[c][n]

\* A program runs with each of its sockets at the descriptor 3 + i, whatever
\* descriptors os_spawn had open when it forked.
SocketsPlaced ==
    \A c \in Children :
        child[c].state \in {"exec", "running"} =>
            \A i \in 0 .. Ports - 1 : child[c].files[i + 3] = Socket(c, i)

\* The pipes of a start that failed, and of a stray, are never closed and are
\* handed on to the children that are forked later.
Abandoned(d) == child[d].state = "failed" \/ child[d].stray

\* A child holds no end of a pipe of another child that is in the vector, nor
\* the read ends of os_spawn: a death is seen although others live.
NothingInherited ==
    \A c, d \in Children : \A n \in Streams :
        c # d /\ ~Abandoned(d) =>
            ~ \E f \in {ReadEnd(d, n), WriteEnd(d, n), ReadEnd(Self, n),
                        WriteEnd(Self, n), PortRead} :
                 Holds(child[c].files, f)

\* A program runs as the user and the group of its configuration, if their
\* numbers fit uid_t and gid_t: a larger number may be cast to 0, which is
\* not set, and the program runs as root.  Without a group it has the group
\* of a user given by name, and keeps that of root with one given by number.
UserApplied ==
    \A c \in Children :
        LET U == UserOf[c]
            G == GroupOf[c]
        IN  child[c].state = "running" =>
                /\ U.id \in 1 .. IdModulus - 1 => child[c].uid = U.id
                /\ U.id = 0 => child[c].uid = IF U.named THEN U.uid ELSE 0
                /\ G.id \in 1 .. IdModulus - 1 => child[c].gid = G.id
                /\ G.id = 0 /\ G.named => child[c].gid = G.gid
                /\ G.id = 0 /\ ~G.named /\ U.id < IdModulus =>
                       child[c].gid = IF U.id = 0 /\ U.named THEN U.gid ELSE 0

\* A program runs with the limits of its configuration: a current limit or a
\* maximum that is given is in force, and whatever is not given is inherited.
LimitsApplied ==
    \A c \in Children : \A i \in DOMAIN limit_types :
        LET held == child[c].limits[type_value(i)]
            given == {k \in DOMAIN LimitsOf[c] :
                         LimitsOf[c][k].type = limit_types[i]}
        IN  child[c].state = "running" =>
                /\ given = {} => held = Inherited
                /\ \A k \in given :
                      /\ held.cur = IF LimitsOf[c][k].current = undefined
                                    THEN Inherited.cur
                                    ELSE LimitsOf[c][k].current
                      /\ held.max = IF LimitsOf[c][k].maximum = undefined
                                    THEN Inherited.max
                                    ELSE LimitsOf[c][k].maximum

\* No program runs without the sockets, the user, the group and the limits of
\* its configuration, whatever os_spawn had open and whichever step of the
\* start might have failed.
StartedAsConfigured == SocketsPlaced /\ UserApplied /\ LimitsApplied

\* Whatever call os_spawn fails at and whenever that is, every child of its
\* vector is dead and waited for: what it may leave behind are strays, and
\* all of its children when an assertion aborts it.
NobodyLeft ==
    pc = "exit" /\ ended # "abort" =>
        \A c \in Children :
            ~child[c].stray => child[c].state \in {"none", "failed", "reaped"}

\* What can be told of the end of os_spawn: there is no name for a lack of
\* memory, and an abort is only a signal.
Told(step) ==
    CASE step = "memory" -> "number"
      [] step = "abort" -> "signal"
      [] OTHER -> step

\* The Erlang VM names the call at which os_spawn ended, by the status alone.
EndReported == pc = "exit" => exit_status_to_list(result) = Told(ended)

\* os_spawn ends with the children of its vector and tells the Erlang VM why.
EndsCleanly == NobodyLeft /\ EndReported

\* When a start fails, what os_spawn prints names the step that failed,
\* although the child is killed on the way.
CauseReported ==
    \A c \in Children :
        child[c].state = "reaped" /\ cause[c] # "none" /\ pc # "exit" =>
            reported[c] = cause[c]

\* No zombie but a stray is left: a child that closed a pipe is still in the
\* vector, where the end of os_spawn would find it too, and poll reports the
\* hang-up however many other children were forked while it ran.
HangUpSeen ==
    \A c \in hungup :
        child[c].state # "reaped" /\ ~child[c].stray =>
            \E k \in 1 .. Len(processes) :
                /\ processes[k].pid = c
                /\ pc = "poll" =>
                      \E n \in Streams : "HUP" \in Revents(ReadEnd(c, n))

\* The death of a child is seen although other children hold descriptors
\* that were open when they were forked.
DeathsSeen == NothingInherited /\ HangUpSeen
=============================================================================
