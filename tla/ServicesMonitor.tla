--------------------------- MODULE ServicesMonitor ---------------------------
(***************************************************************************)
(* cloudi_core_i_services_monitor: the process that starts, restarts and   *)
(* ends the processes of every CloudI service.                             *)
(*                                                                         *)
(* A service has count_process indices; each is a group of count_thread    *)
(* Erlang processes that start and end together (one for an internal       *)
(* service, one per thread for an external service).  The monitor handles  *)
(* one message at a time, and inside a handler it may block in a selective *)
(* receive: until processes that it ends are down, or until processes that *)
(* it restarted are initialized.                                           *)
(*                                                                         *)
(* Dynamic process counts and updates are not part of this module.         *)
(***************************************************************************)
EXTENDS Integers, Sequences, FiniteSets, SequencesExt, FiniteSetsExt

CONSTANTS
    Services,   \* service ids
    Scenarios,  \* the configurations of a service, and what happens to it
    MaxT,       \* restarts are counted over MaxT seconds
    MaxPids,    \* bound on the processes that are started
    MaxTime     \* bound on the clock, in seconds

(* The options of a service: its processes, the Erlang processes of each,  *)
(* at most max_r restarts in MaxT seconds, and the restart delay (none, 0  *)
(* or longer).  Then its surroundings: may starting a process return an    *)
(* error, why do processes end by themselves; and the bounds: the calls of *)
(* the service API, the processes started and the clock.                   *)
Options ==
    [count_process : Nat \ {0}, count_thread : Nat \ {0}, max_r : Nat,
     restart_delay : {"false", "zero", "positive"},
     start_fails : BOOLEAN,
     fail_reasons : SUBSET {"error", "shutdown", "dynamic"},
     max_calls : Nat, max_pids : 0..MaxPids, max_time : 0..MaxTime]

ASSUME MonitorAssumption ==
    /\ IsFiniteSet(Services)
    /\ MaxT \in Nat /\ MaxPids \in Nat /\ MaxTime \in Nat
    /\ Scenarios \subseteq Options

VARIABLES
    alive,       \* the service processes: pid, service, index, state, reason
    signals,     \* exit signals on their way: pid and reason
    services,    \* what the monitor knows: service id, pid, #service{}
    mailbox,     \* the monitor's message queue
    timers,      \* the messages that timers will deliver
    wait,        \* what the monitor is blocked in
    options,     \* the configuration of each service
    configured,  \* the services in the configurator's configuration
    next_pid,    \* the next Erlang process
    now,         \* the clock
    restarts,    \* restarts[s][i]: when index i of s was restarted
    calls        \* service API calls made

proc_vars == <<alive, signals, next_pid>>
Indices(s) == 1..options[s].count_process

vars == <<proc_vars, services, mailbox, timers, wait, options, configured,
          now, restarts, calls>>

-----------------------------------------------------------------------------
(* Records *)

NoWait == [kind |-> "none"]

(* #service{} as far as restarts need it.                                  *)
NewService(i, pids) ==
    [index |-> i, pids |-> pids, restart_count |-> 0, restart_times |-> <<>>]

Down(p, reason) == [tag |-> "DOWN", pid |-> p, reason |-> reason]
TerminateEnd(p) == [tag |-> "terminate_end", pid |-> p]
Stage(n, s, rec) == [tag |-> n, id |-> s, service |-> rec]

Alive(p) == \E a \in alive : a.pid = p
Entries(s) == {e \in services : e.id = s}
Known(p) == {e \in services : e.pid = p}

(* The monitor runs a handler only when it is not blocked in one.          *)
Handling(tag) == /\ wait = NoWait
                 /\ mailbox # <<>>
                 /\ Head(mailbox).tag = tag
Done == mailbox' = Tail(mailbox)

-----------------------------------------------------------------------------
(* Ending processes *)

(* terminate_end_enforce: the termination timeout of a process.            *)
Enforce_not(ps) == UNCHANGED timers
Enforce(ps) == timers' = timers \cup {TerminateEnd(p) : p \in ps}

(* Mutant: the test for a live process is the wrong way round.             *)
Kill_dead(p) == IF Alive(p) THEN {} ELSE {[pid |-> p, reason |-> "killed"]}

(* terminate_end_enforce_now *)
Kill(p) == IF Alive(p) THEN {[pid |-> p, reason |-> "killed"]} ELSE {}

(* terminate_service: all of ps are forgotten, and all but old are told to *)
(* end and get a termination timeout.                                      *)
terminate_service_pids(ps, old) ==
    /\ services' = {e \in services : e.pid \notin ps}
    /\ signals' = signals \cup
          {[pid |-> p, reason |-> "shutdown"] : p \in {x \in ps : Alive(x)}
                                                      \ {old}}
    /\ Enforce(ps \ {old})

(* Block: the monitor waits for the end of each, in order.                 *)
WaitFor_nobody(pids, old) == <<>>
WaitFor(pids, old) ==
    IF old \in ToSet(pids)
    THEN RemoveAt(pids, CHOOSE k \in DOMAIN pids : pids[k] = old)
    ELSE pids

(* terminated_service: the service will not restart.                       *)
terminated_service(s) == configured' = configured \ {s}

-----------------------------------------------------------------------------
(* Restarting *)

NewPids(s) == [j \in 1..options[s].count_thread |-> next_pid + j - 1]

(* cloudi_core_i_spawn starts the processes of index i.                    *)
Start(s, i) ==
    /\ next_pid' = next_pid + options[s].count_thread
    /\ next_pid' <= options[s].max_pids + 1
    /\ alive' = alive \cup
          {[pid |-> p, service |-> s, index |-> i, state |-> "init",
            reason |-> "none", group |-> next_pid] : p \in ToSet(NewPids(s))}
    /\ UNCHANGED signals

(* seconds_filter_monotonic keeps the recent times. The order it leaves    *)
(* them in is of no account: the list is only counted and filtered.        *)
Keep(times, kept) == [j \in 1..Cardinality(kept) |-> times[SetToSeq(kept)[j]]]
Recent(times) == {k \in DOMAIN times : now - times[k] <= MaxT}
Filter_exclusive(times) ==
    Keep(times, {k \in DOMAIN times : now - times[k] < MaxT})
Filter(times) == Keep(times, Recent(times))

Filtered(rec) == [rec EXCEPT !.restart_times = Filter(@),
                             !.restart_count = Len(Filter(rec.restart_times))]

(* restart_stage3: is the limit reached, counting what MaxT still covers?  *)
AtLimit(s, rec) == /\ rec.restart_count = options[s].max_r
                   /\ rec.restart_times # <<>>
                   /\ Filtered(rec).restart_count = rec.restart_count

(* The service record that a restart leaves.                               *)
Restarted(s, rec) ==
    LET r == IF rec.restart_count = options[s].max_r THEN Filtered(rec)
                                                     ELSE rec
    IN  [r EXCEPT !.restart_count = @ + 1,
                  !.restart_times = <<now>> \o @]

(* restart_failed: the other processes of the service are ended as well.   *)
restart_failed(s) ==
    /\ terminate_service_pids({e.pid : e \in Entries(s)}, 0)
    /\ terminated_service(s)
    /\ wait' = NoWait
    /\ UNCHANGED <<alive, next_pid, restarts>>

(* restart_stage2_async, when no process could be started: the monitor     *)
(* sends itself the message that tries again (mutant: it gives up).        *)
restart_stage2_async_not(s, rec, rest) == mailbox' = rest
restart_stage2_async(s, rec, rest) ==
    mailbox' = Append(rest, Stage("stage2", s, rec))

restart_stage3(s, rec, rest) ==
    \/ /\ AtLimit(s, rec)
       /\ restart_failed(s)
       /\ mailbox' = rest
    \/ /\ ~AtLimit(s, rec)
       /\ restarts' = [restarts EXCEPT ![s][rec.index] = Append(@, now)]
       /\ \/ /\ Start(s, rec.index)   \* initialize_wait
             /\ wait' = [kind |-> "init", id |-> s, pids |-> NewPids(s),
                         service |-> [Restarted(s, rec) EXCEPT
                                          !.pids = NewPids(s)]]
             /\ mailbox' = rest
          \/ /\ options[s].start_fails
             /\ restart_stage2_async(s, Restarted(s, rec), rest)
             /\ wait' = NoWait
             /\ UNCHANGED proc_vars
       /\ UNCHANGED <<services, timers, configured>>

restart_stage2(s, rec, rest) ==
    LET none == options[s].max_r = 0 /\ rec.restart_count = 0
        delay == options[s].restart_delay
    IN  \/ /\ none                     \* no restarts allowed
           /\ restart_failed(s)
           /\ mailbox' = rest
        \/ /\ ~none /\ delay = "false"
           /\ restart_stage3(s, rec, rest)
        \/ /\ ~none /\ delay = "zero"
           /\ restart_stage3(s, Filtered(rec), rest)
        \/ /\ ~none /\ delay = "positive"   \* restart_stage3_async
           /\ timers' = timers \cup {Stage("stage3", s, Filtered(rec))}
           /\ mailbox' = rest
           /\ wait' = NoWait
           /\ UNCHANGED <<proc_vars, services, configured, restarts>>

-----------------------------------------------------------------------------
(* The handlers of the monitor *)

(* {monitor, ...}: the configurator starts an index of a service.          *)
HandleMonitor ==
    /\ Handling("monitor")
    /\ LET m == Head(mailbox) IN
       \/ /\ Start(m.id, m.index)
          /\ services' = services \cup
                {[id |-> m.id, pid |-> p,
                  service |-> NewService(m.index, NewPids(m.id))] :
                    p \in ToSet(NewPids(m.id))}
       \/ options[m.id].start_fails /\ UNCHANGED <<proc_vars, services>>
    /\ Done
    /\ UNCHANGED <<timers, wait, options, configured, now, restarts, calls>>

(* {shutdown, ServiceId} *)
HandleShutdown ==
    /\ Handling("shutdown")
    /\ LET s == Head(mailbox).id
           ps == {e.pid : e \in Entries(s)}
       IN  \/ /\ ps = {}              \* {error, not_found}
              /\ UNCHANGED <<services, signals, timers, wait>>
           \/ /\ ps # {}
              /\ terminate_service_pids(ps, 0)
              /\ \E pids \in SetToSeqs(ps) :
                   wait' = [kind |-> "shutdown", id |-> s,
                            pids |-> WaitFor(pids, 0), killed |-> FALSE]
    /\ Done
    /\ UNCHANGED <<alive, next_pid, options, configured, now, restarts,
                   calls>>

(* {restart, ServiceId}: every process gets the exit signal.               *)
HandleRestart ==
    /\ Handling("restart")
    /\ signals' = signals \cup
          {[pid |-> e.pid, reason |-> "restart"] :
             e \in {x \in Entries(Head(mailbox).id) : Alive(x.pid)}}
    /\ Done
    /\ UNCHANGED <<alive, next_pid, services, timers, wait, options,
                   configured, now, restarts, calls>>

(* A process began to end: its termination timeout starts, or is over      *)
(* already if this message waited for too long.                            *)
HandleTerminateBegin ==
    /\ Handling("terminate_begin")
    /\ LET ps == {e.pid : e \in Known(Head(mailbox).pid)} IN
       \/ Enforce(ps) /\ UNCHANGED signals
       \/ /\ signals' = signals \cup UNION {Kill(p) : p \in ps}
          /\ UNCHANGED timers
    /\ Done
    /\ UNCHANGED <<alive, next_pid, services, wait, options, configured,
                   now, restarts, calls>>

(* 'DOWN' with shutdown or {shutdown, Reason}: the whole service ends,     *)
(* without waiting.                                                        *)
HandleDownShutdown ==
    /\ Handling("DOWN")
    /\ LET m == Head(mailbox) IN
       /\ m.reason = "shutdown"
       /\ \E e \in Known(m.pid) :
            /\ terminate_service_pids({x.pid : x \in Entries(e.id)}, m.pid)
            /\ terminated_service(e.id)
    /\ Done
    /\ UNCHANGED <<alive, next_pid, wait, options, now, restarts, calls>>

(* 'DOWN' of a process that the dynamic process count ended.               *)
HandleDownDynamic ==
    /\ Handling("DOWN")
    /\ LET m == Head(mailbox) IN
       /\ m.reason = "dynamic"
       /\ Known(m.pid) # {}
       /\ services' = services \ Known(m.pid)
    /\ Done
    /\ UNCHANGED <<proc_vars, timers, wait, options, configured, now,
                   restarts, calls>>

(* Mutant: the group is restarted without waiting for its end.             *)
HandleDownError_now ==
    /\ Handling("DOWN")
    /\ LET m == Head(mailbox) IN
       /\ m.reason \notin {"shutdown", "dynamic"}
       /\ \E e \in Known(m.pid) :
            /\ terminate_service_pids(ToSet(e.service.pids), m.pid)
            /\ wait' = [kind |-> "restart", id |-> e.id, killed |-> FALSE,
                        pids |-> <<>>,
                        service |-> [e.service EXCEPT !.pids = <<>>]]
    /\ Done
    /\ UNCHANGED <<alive, next_pid, options, configured, now, restarts,
                   calls>>

(* 'DOWN' with any other reason: the rest of the group ends first.         *)
HandleDownError ==
    /\ Handling("DOWN")
    /\ LET m == Head(mailbox) IN
       /\ m.reason \notin {"shutdown", "dynamic"}
       /\ \E e \in Known(m.pid) :
            /\ terminate_service_pids(ToSet(e.service.pids), m.pid)
            /\ wait' = [kind |-> "restart", id |-> e.id, killed |-> FALSE,
                        pids |-> WaitFor(e.service.pids, m.pid),
                        service |-> [e.service EXCEPT !.pids = <<>>]]
    /\ Done
    /\ UNCHANGED <<alive, next_pid, options, configured, now, restarts,
                   calls>>

(* Service pid has already terminated.                                     *)
HandleDownUnknown ==
    /\ Handling("DOWN")
    /\ Known(Head(mailbox).pid) = {}
    /\ Done
    /\ UNCHANGED <<proc_vars, services, timers, wait, options, configured,
                   now, restarts, calls>>

HandleStage2 ==
    /\ Handling("stage2")
    /\ LET m == Head(mailbox)
       IN  restart_stage2(m.id, m.service, Tail(mailbox))
    /\ UNCHANGED <<options, now, calls>>

HandleStage3 ==
    /\ Handling("stage3")
    /\ LET m == Head(mailbox)
       IN  restart_stage3(m.id, m.service, Tail(mailbox))
    /\ UNCHANGED <<options, now, calls>>

HandleTerminateEnd ==
    /\ Handling("terminate_end")
    /\ signals' = signals \cup Kill(Head(mailbox).pid)
    /\ Done
    /\ UNCHANGED <<alive, next_pid, services, timers, wait, options,
                   configured, now, restarts, calls>>

(* For the configurator, which waits for the first start of a service.     *)
HandleInitEnd ==
    /\ Handling("init_end")
    /\ Done
    /\ UNCHANGED <<proc_vars, services, timers, wait, options, configured,
                   now, restarts, calls>>

-----------------------------------------------------------------------------
(* The selective receives *)

(* A receive takes the first message of the mailbox that matches.          *)
Receives(i, matching) ==
    i \in matching /\ \A j \in matching : i <= j

(* terminate_service_wait: a DOWN, or the termination timeout and then     *)
(* the DOWN.                                                               *)
WaitTerminated ==
    /\ wait.kind \in {"shutdown", "restart"}
    /\ wait.pids # <<>>
    /\ LET p == Head(wait.pids)
           matching == {i \in DOMAIN mailbox :
                          \/ mailbox[i].tag = "DOWN" /\ mailbox[i].pid = p
                          \/ ~wait.killed /\ mailbox[i] = TerminateEnd(p)}
       IN  \E i \in DOMAIN mailbox :
             /\ Receives(i, matching)
             /\ mailbox' = RemoveAt(mailbox, i)
             /\ \/ /\ mailbox[i].tag = "DOWN"
                   /\ wait' = [wait EXCEPT !.pids = Tail(@),
                                           !.killed = FALSE]
                   /\ UNCHANGED signals
                \/ /\ mailbox[i].tag = "terminate_end"
                   /\ wait' = [wait EXCEPT !.killed = TRUE]
                   /\ signals' = signals \cup Kill(p)
    /\ UNCHANGED <<alive, next_pid, services, timers, options, configured,
                   now, restarts, calls>>

(* The reply {ok, Pids} of a shutdown; the configurator then removes the   *)
(* service from its configuration.                                         *)
ShutdownDone ==
    /\ wait.kind = "shutdown"
    /\ wait.pids = <<>>
    /\ terminated_service(wait.id)
    /\ wait' = NoWait
    /\ UNCHANGED <<proc_vars, services, mailbox, timers, options, now,
                   restarts, calls>>

(* restart_stage1 goes on to restart_stage2.                               *)
RestartTerminated ==
    /\ wait.kind = "restart"
    /\ wait.pids = <<>>
    /\ restart_stage2(wait.id, wait.service, mailbox)
    /\ UNCHANGED <<options, now, calls>>

(* initialize_wait_pids: a process that ended instead is looked at later.  *)
Again(m, rest) == IF m.tag = "DOWN" THEN Append(rest, m) ELSE rest

WaitInitialized ==
    /\ wait.kind = "init"
    /\ wait.pids # <<>>
    /\ LET p == Head(wait.pids)
           matching == {i \in DOMAIN mailbox :
                          /\ mailbox[i].tag \in {"DOWN", "init_end"}
                          /\ mailbox[i].pid = p}
       IN  \E i \in DOMAIN mailbox :
             /\ Receives(i, matching)
             /\ mailbox' = Again(mailbox[i], RemoveAt(mailbox, i))
             /\ wait' = [wait EXCEPT !.pids = Tail(@)]
    /\ UNCHANGED <<proc_vars, services, timers, options, configured, now,
                   restarts, calls>>

RestartDone ==
    /\ wait.kind = "init"
    /\ wait.pids = <<>>
    /\ services' = services \cup
          {[id |-> wait.id, pid |-> p, service |-> wait.service] :
             p \in ToSet(wait.service.pids)}
    /\ wait' = NoWait
    /\ UNCHANGED <<proc_vars, mailbox, timers, options, configured, now,
                   restarts, calls>>

-----------------------------------------------------------------------------
(* The service processes, the timers and the callers *)

Dies(a, reason) ==
    /\ alive' = alive \ {a}
    /\ signals' = {x \in signals : x.pid # a.pid}
    /\ mailbox' = Append(mailbox, Down(a.pid, reason))
    /\ UNCHANGED <<next_pid, services, timers, wait, options, configured,
                   now, restarts, calls>>

(* The configurator has started every index of every service and sends     *)
(* cloudi_service_init_begin to the processes.                             *)
Started == \A i \in DOMAIN mailbox : mailbox[i].tag # "monitor"

(* cloudi_service_init returned; from now on the process traps exits.      *)
Initialized(a) ==
    /\ a.state = "init"
    /\ Started
    /\ alive' = (alive \ {a}) \cup {[a EXCEPT !.state = "up"]}
    /\ mailbox' = Append(mailbox, [tag |-> "init_end", pid |-> a.pid])
    /\ UNCHANGED <<signals, next_pid, services, timers, wait, options,
                   configured, now, restarts, calls>>

(* A process begins to end: it fails or stops, or receives an exit signal. *)
(* It calls cloudi_service_terminate, which may hang.                      *)
TerminateBegins(a, reason) ==
    /\ alive' = (alive \ {a}) \cup
                {[a EXCEPT !.state = "ending", !.reason = reason]}
    /\ mailbox' = Append(mailbox, [tag |-> "terminate_begin", pid |-> a.pid])
    /\ UNCHANGED <<signals, next_pid, services, timers, wait, options,
                   configured, now, restarts, calls>>

Fails(a) ==
    /\ a.state \in {"init", "up"}
    /\ \E reason \in options[a.service].fail_reasons :
         TerminateBegins(a, reason)

Signalled(a) ==
    \E x \in signals :
      /\ x.pid = a.pid
      /\ x.reason # "killed"
      /\ \/ a.state = "init" /\ Dies(a, x.reason)
         \/ a.state = "up" /\ TerminateBegins(a, x.reason)

Killed(a) == /\ [pid |-> a.pid, reason |-> "killed"] \in signals
             /\ Dies(a, "killed")

TerminateEnds(a) == a.state = "ending" /\ Dies(a, a.reason)

TimerFires(m) ==
    /\ timers' = timers \ {m}
    /\ mailbox' = Append(mailbox, m)
    /\ UNCHANGED <<proc_vars, services, wait, options, configured, now,
                   restarts, calls>>

Call(tag, s) ==
    /\ calls < options[s].max_calls
    /\ s \in configured
    /\ Started
    /\ calls' = calls + 1
    /\ mailbox' = Append(mailbox, [tag |-> tag, id |-> s])
    /\ UNCHANGED <<proc_vars, services, timers, wait, options, configured,
                   now, restarts>>

Tick ==
    /\ \E s \in Services : now < options[s].max_time
    /\ now' = now + 1
    /\ UNCHANGED <<proc_vars, services, mailbox, timers, wait, options,
                   configured, restarts, calls>>

-----------------------------------------------------------------------------
(* service_start_internal: the processes of a service are started in order *)
(* of their index, and one service after the other.                        *)
Starts(s) == {[tag |-> "monitor", id |-> s, index |-> i] : i \in Indices(s)}

StartOrder(q) ==
    /\ \A j, k \in DOMAIN q :
         j < k /\ q[j].id = q[k].id => q[j].index < q[k].index
    /\ \A j, k, l \in DOMAIN q :
         j < k /\ k < l /\ q[j].id = q[l].id => q[k].id = q[j].id

Init ==
    /\ alive = {}
    /\ signals = {}
    /\ services = {}
    /\ options \in [Services -> Scenarios]
    /\ mailbox \in {q \in SetToSeqs(UNION {Starts(s) : s \in Services}) :
                       StartOrder(q)}
    /\ timers = {}
    /\ wait = NoWait
    /\ configured = Services
    /\ next_pid = 1
    /\ now = 0
    /\ restarts = [s \in Services |-> [i \in Indices(s) |-> <<>>]]
    /\ calls = 0

Monitor ==
    \/ HandleMonitor \/ HandleShutdown \/ HandleRestart
    \/ HandleTerminateBegin \/ HandleTerminateEnd \/ HandleInitEnd
    \/ HandleDownShutdown \/ HandleDownDynamic \/ HandleDownError
    \/ HandleDownUnknown
    \/ HandleStage2 \/ HandleStage3
    \/ WaitTerminated \/ ShutdownDone \/ RestartTerminated
    \/ WaitInitialized \/ RestartDone

Next ==
    \/ Monitor
    \/ \E a \in alive : \/ Initialized(a) \/ Fails(a) \/ Signalled(a)
                        \/ Killed(a) \/ TerminateEnds(a)
    \/ \E m \in timers : TimerFires(m)
    \/ \E s \in Services : Call("shutdown", s) \/ Call("restart", s)
    \/ Tick

Spec == Init /\ [][Next]_vars

(* The processes that the monitor is starting again.                       *)
Starting == IF wait.kind = "init" THEN ToSet(wait.service.pids) ELSE {}

(* The monitor takes its messages, timers fire, exit signals arrive, and   *)
(* an initialization ends.  Nothing makes a terminate callback return.     *)
Fairness ==
    /\ WF_vars(Monitor)
    /\ \A p \in 1..MaxPids :
         /\ WF_vars(\E m \in timers : m = TerminateEnd(p) /\ TimerFires(m))
         /\ WF_vars(\E a \in alive : a.pid = p /\ (Signalled(a) \/ Killed(a)))
         /\ WF_vars(\E a \in alive : a.pid = p /\ Initialized(a))
    /\ WF_vars(\E m \in timers : m.tag = "stage3" /\ TimerFires(m))

FairSpec == Spec /\ Fairness

-----------------------------------------------------------------------------
(* What the properties are about *)

InMailbox(m) == \E i \in DOMAIN mailbox : mailbox[i] = m
DownDue(p) == \E i \in DOMAIN mailbox :
                mailbox[i].tag = "DOWN" /\ mailbox[i].pid = p

(* The termination timeout of p runs, or will kill it.                     *)
MustEnd(p) == \/ TerminateEnd(p) \in timers
              \/ InMailbox(TerminateEnd(p))
              \/ [pid |-> p, reason |-> "killed"] \in signals

(* What holds a service record: the table, a restart and its messages.     *)
Records ==
    services
    \cup {w \in {wait} : w.kind \in {"restart", "init"}}
    \cup {m \in timers \cup ToSet(mailbox) : m.tag \in {"stage2", "stage3"}}

(* The types of the monitor's state; the restart count is the number of    *)
(* the restart times and never more than max_r.                            *)
TypeOK ==
    /\ \A a \in alive :
         /\ a.pid \in 1..next_pid - 1
         /\ a.service \in Services /\ a.index \in Indices(a.service)
         /\ a.state \in {"init", "up", "ending"}
    /\ \A x \in signals : x.pid \in 1..next_pid - 1
    /\ \A e \in services :
         /\ e.id \in Services /\ e.pid \in ToSet(e.service.pids)
    /\ \A h \in Records :
         /\ h.service \in [index : Indices(h.id), pids : Seq(1..MaxPids),
                           restart_count : 0..options[h.id].max_r,
                           restart_times : Seq(0..MaxTime)]
         /\ h.service.restart_count = Len(h.service.restart_times)
    /\ wait.kind \in {"none", "shutdown", "restart", "init"}
    /\ options \in [Services -> Scenarios]
    /\ configured \subseteq Services
    /\ next_pid \in 1..MaxPids + 1
    /\ now \in 0..MaxTime
    /\ calls \in Nat

(* No process escapes the monitor: one that lives is known to it, is being *)
(* started by it, or has a termination timeout that will kill it           *)
(* (terminate_service_pids forgets a process before it has ended).         *)
NoOrphans ==
    \A a \in alive :
        Known(a.pid) # {} \/ a.pid \in Starting \/ MustEnd(a.pid)

(* What the monitor knows is true: a process it lists lives or its DOWN is *)
(* on the way, also when it ended during initialize_wait.                  *)
KnownAlive == \A e \in services : Alive(e.pid) \/ DownDue(e.pid)

(* The table of the monitor and the processes agree in both directions.    *)
ProcessesWatched == TypeOK /\ NoOrphans /\ KnownAlive

(* A group is restarted only when every process of the group before it has *)
(* ended (restart_stage1 blocks): two generations never run side by side.  *)
OneGeneration ==
    \A a, b \in alive :
        a.service = b.service /\ a.index = b.index => a.group = b.group

(* More than max_r restarts of a process within MaxT seconds never happen,  *)
(* although restart_times is only filtered when the count is at max_r.     *)
RestartBound ==
    \A s \in Services : \A i \in Indices(s) :
        LET times == restarts[s][i]
            r == options[s].max_r
        IN  \A k \in DOMAIN times :
              k + r \in DOMAIN times => times[k + r] - times[k] > MaxT

(* terminated_service: a service that is completely terminated does not    *)
(* restart; every process that is started belongs to a configured service. *)
(* It does restart if the message of a restart delay is still to come when *)
(* another process of the service ends it.                                 *)
TerminatedStays ==
    [][\A a \in alive' :
         a.pid >= next_pid => a.service \in configured]_vars

(* A shutdown is answered only when no process of the service is left.     *)
ShutdownComplete ==
    [][ShutdownDone => \A a \in alive : a.service # wait.id]_vars

(* What the monitor has of index i of s: a message that will start it, its *)
(* entries in the table, its restart, or the shutdown of its service.      *)
Held(s, i) ==
    \/ InMailbox([tag |-> "monitor", id |-> s, index |-> i])
    \/ \E h \in Records : h.id = s /\ h.service.index = i
    \/ wait.kind = "shutdown" /\ wait.id = s

(* The monitor does not forget an index of a service that is to run, from  *)
(* one message, timer and blocked handler of its restart to the next       *)
(* (restart_stage1 to restart_stage3, and what fails in them).  An index   *)
(* that could not be started at all or that the dynamic process count      *)
(* ended is forgotten by intention.                                        *)
IndexHeld ==
    \A s \in configured : \A i \in Indices(s) :
        \/ Held(s, i)
        \/ options[s].start_fails /\ restarts[s][i] = <<>>
        \/ "dynamic" \in options[s].fail_reasons

(* The monitor is never blocked with nothing that could wake it: a process *)
(* whose end it waits for has ended or is under a termination timeout or a *)
(* kill; one whose initialization it waits for has not finished, or its    *)
(* message is there.  The receive of initialize_wait_pids has no timeout:  *)
(* the terminate callback of a process that fails to initialize decides    *)
(* when it ends, and the monitor handles nothing meanwhile.                *)
BlockedForAReason ==
    wait # NoWait =>
    \A p \in ToSet(wait.pids) :
        IF wait.kind = "init"
        THEN \/ \E a \in alive : a.pid = p /\ a.state # "up"
             \/ DownDue(p)
             \/ InMailbox([tag |-> "init_end", pid |-> p])
        ELSE DownDue(p) \/ (Alive(p) /\ MustEnd(p))

(* The execution of cloudi_service_terminate is limited: a process that    *)
(* began to end has ended some time later, by itself or by a brutal_kill.  *)
(* It need not, if the monitor waits for its initialization.               *)
TerminateLimited ==
    \A p \in 1..MaxPids :
        (\E a \in alive : a.pid = p /\ a.state = "ending") ~> ~Alive(p)

=============================================================================
