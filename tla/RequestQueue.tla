---------------------------- MODULE RequestQueue ----------------------------
(***************************************************************************)
(* The receiving half of a CloudI internal service process.                *)
(*                                                                         *)
(* The dispatcher runs one callback at a time, in a process of its own (a  *)
(* request pid or an info pid), and queues what arrives meanwhile: service *)
(* requests by priority, each with a timer, info messages in order.  The   *)
(* flag queue_requests is true while anything must be queued: during       *)
(* initialization, while a callback runs, and while an update is prepared. *)
(*                                                                         *)
(* The model follows cloudi_core_i_services_internal.erl with duo_mode     *)
(* off.  Senders, timers, the callback processes and the services monitor  *)
(* that updates the process are the environment.                           *)
(***************************************************************************)
EXTENDS Integers, Sequences, FiniteSets, SequencesExt, FiniteSetsExt

CONSTANTS
    Requests,        \* transaction ids
    MaxSends,        \* bound on the sends of one id (more than 1: retries)
    Infos,           \* info messages, each sent once
    Priorities,      \* service request priorities, the least goes first
    Timeouts,        \* timeouts, in units of 100 ms
    Sizes,           \* sizes of a queued request
    MaxUpdates,      \* bound on the updates of the service
    UpdateKeys,      \* the sets of options an update may change
    Terminates,      \* may count_process_dynamic end this process?
    Fails,           \* may callbacks fail?
    RateLimited,     \* may rate_request_max refuse a request?
    Undefined,       \* the atom undefined
    Infinity,        \* the atom infinity
    QueueLimit,      \* option queue_limit, or Undefined
    QueueSize,       \* option queue_size, or Undefined
    RequestPidUses,  \* option request_pid_uses
    InfoPidUses,     \* option info_pid_uses
    ResponseTimeoutImmediateMax, \* option response_timeout_immediate_max
    RequestNameLookup            \* option request_name_lookup

PidKeys == {"request_pid", "info_pid"}

ASSUME QueueAssumption ==
    /\ MaxSends \in Nat
    /\ MaxUpdates \in Nat
    /\ Priorities \subseteq -128..127
    /\ Timeouts \subseteq Nat
    /\ Sizes \subseteq Nat
    /\ UpdateKeys \subseteq SUBSET PidKeys
    /\ Terminates \in BOOLEAN /\ Fails \in BOOLEAN /\ RateLimited \in BOOLEAN
    /\ QueueLimit \in Nat \cup {Undefined}
    /\ QueueSize \in Nat \cup {Undefined}
    /\ RequestPidUses \in (Nat \ {0}) \cup {Infinity}
    /\ InfoPidUses \in (Nat \ {0}) \cup {Infinity}
    /\ ResponseTimeoutImmediateMax \in Nat
    /\ RequestNameLookup \in {"sync", "async"}
    /\ Undefined \notin Nat /\ Infinity \notin Nat

(* FORWARD_ASYNC_INTERVAL and FORWARD_SYNC_INTERVAL are 500 ms,            *)
(* FORWARD_DELTA is 100 ms.                                                *)
Interval == 5
Delta == 1

VARIABLES
    sent,            \* sent[r]: how often request r was sent
    informed,        \* the info messages that were sent
    mailbox,         \* the dispatcher's message queue
    timers,          \* running timers and the message each delivers
    status,          \* "up", or why the dispatcher stopped
    queue_requests,  \* must what arrives be queued?
    queued,          \* queued[p]: the requests queued with priority p
    queued_size,     \* their size
    recv_timeouts,   \* recv_timeouts[r]: the timer of a queued request, or 0
    queued_info,     \* info messages not handled yet
    request_pid,     \* the process that handles requests, or Undefined
    info_pid,        \* the process that handles info messages, or Undefined
    workers,         \* the callback processes and what each is running
    next_pid,        \* the next callback process
    service_state,   \* the module's state, as the number of steps behind it
    update_plan,     \* the update in progress, or NoPlan
    update,          \* how far the services monitor is with the update
    updates,         \* updates started
    fate             \* fate[r]: how the sends of r ended

io_vars == <<sent, informed, fate>>
queue_vars == <<queue_requests, queued, queued_size, recv_timeouts,
                queued_info>>
pid_vars == <<status, request_pid, info_pid, workers, next_pid>>
plan_vars == <<service_state, update_plan, update, updates>>

vars == <<io_vars, mailbox, timers, queue_vars, pid_vars, plan_vars>>

-----------------------------------------------------------------------------
(* Messages, timers and callback processes                                 *)

(* A message of the mailbox; a field that a tag does not use is left at    *)
(* its default.                                                            *)
NoMessage == [tag |-> "none", id |-> Undefined, timeout |-> 0,
              priority |-> 0, size |-> 0, pid |-> 0, how |-> "none",
              state |-> 0]

Plan == [set : BOOLEAN, sync : BOOLEAN, keys : SUBSET PidKeys,
         update_pending : BOOLEAN, update_now : BOOLEAN,
         update_start : BOOLEAN, queue_requests : BOOLEAN]
NoPlan == [set |-> FALSE, sync |-> FALSE, keys |-> {},
           update_pending |-> FALSE, update_now |-> FALSE,
           update_start |-> FALSE, queue_requests |-> FALSE]

UpdateMessage(plan) == [tag |-> "update", plan |-> plan]

(* What a callback process runs; it was given the service state S.         *)
NoJob == [kind |-> "none", id |-> Undefined, timeout |-> 0, state |-> 0]
LoopExit == [NoJob EXCEPT !.kind = "loop_exit"]
RequestJob_before(r, T, S) ==
    [kind |-> "request", id |-> r, timeout |-> T, state |-> service_state]
RequestJob(r, T, S) ==
    [kind |-> "request", id |-> r, timeout |-> T, state |-> S]
InfoJob(i, S) == [NoJob EXCEPT !.kind = "info", !.id = i, !.state = S]

(* A dispatcher that runs takes the messages of its mailbox in order.      *)
Handling(tag) == /\ status = "up"
                 /\ mailbox # <<>>
                 /\ Head(mailbox).tag = tag

Post(msg) == mailbox' = Append(mailbox, msg)

(* erlang:send_after(Time, Dispatcher, msg): a timer reference is never    *)
(* one that is still known to the dispatcher.                              *)
UsedRefs == {tm.ref : tm \in timers} \cup {recv_timeouts[r] : r \in Requests}
FreshRef == Min((1..Cardinality(UsedRefs) + 1) \ UsedRefs)
SendAfter(msg) == [ref |-> FreshRef, msg |-> msg]
Running(ref) == \E tm \in timers : tm.ref = ref

(* One send of request r came to this end.                                 *)
End(r, how) == fate' = [fate EXCEPT ![r] = Append(@, how)]

(* A request that cannot be taken gets an empty response, unless its       *)
(* timeout is so short that the sender will time out as soon.              *)
Refused(T) == IF T >= ResponseTimeoutImmediateMax THEN "empty" ELSE "silent"

(* {stop, Reason, State}: the callback processes are linked and end too.   *)
Stop(why) ==
    /\ status' = why
    /\ workers' = {}
    /\ UNCHANGED <<request_pid, info_pid, next_pid>>

(* A new process is spawned for the job, or the old one is sent it.        *)
loop_pid(ws, pid, uses, job) ==
    IF pid = Undefined
    THEN ws \cup {[pid |-> next_pid, uses |-> uses, job |-> job]}
    ELSE {IF w.pid = pid THEN [w EXCEPT !.job = job] ELSE w : w \in ws}

NewPid(pid) == IF pid = Undefined THEN next_pid ELSE pid
NextPid(pid) == IF pid = Undefined THEN next_pid + 1 ELSE next_pid

handle_module_request_loop_pid(ws, rpid, ipid, job) ==
    /\ workers' = loop_pid(ws, rpid, RequestPidUses, job)
    /\ request_pid' = NewPid(rpid)
    /\ next_pid' = NextPid(rpid)
    /\ info_pid' = ipid
    /\ UNCHANGED status

handle_module_info_loop_pid(ws, rpid, ipid, job) ==
    /\ workers' = loop_pid(ws, ipid, InfoPidUses, job)
    /\ info_pid' = NewPid(ipid)
    /\ next_pid' = NextPid(ipid)
    /\ request_pid' = rpid
    /\ UNCHANGED status

-----------------------------------------------------------------------------
(* The queues *)

Waiting == {p \in Priorities : queued[p] # <<>>}

(* Sum of f over the queued requests.                                      *)
SumQueued(f(_)) ==
    MapThenSumSet(LAMBDA p : FoldSeq(LAMBDA e, acc : f(e) + acc, 0,
                                     queued[p]), Priorities)
QueueLen == SumQueued(LAMBDA e : 1)

(* The size of an entry is only computed when queue_size is set.           *)
EntrySize(m) == IF QueueSize = Undefined THEN 0 ELSE m.size

QueueLimitOk == QueueLimit # Undefined => QueueLen < QueueLimit
QueueSizeOk(m) == QueueSize # Undefined => queued_size + m.size <= QueueSize

StartTimer_not(timer) == UNCHANGED timers
StartTimer(timer) == timers' = timers \cup {timer}

(* maps:remove(TransId, RecvTimeouts) *)
Forget_not(r) == UNCHANGED recv_timeouts
Forget(r) == recv_timeouts' = [recv_timeouts EXCEPT ![r] = 0]

recv_timeout_start(m) ==
    LET timer == SendAfter([NoMessage EXCEPT !.tag = "recv_timeout",
                                !.priority = m.priority, !.id = m.id,
                                !.size = EntrySize(m)])
        entry == [id |-> m.id, timeout |-> m.timeout, size |-> EntrySize(m)]
    IN  /\ StartTimer(timer)
        /\ recv_timeouts' = [recv_timeouts EXCEPT ![m.id] = timer.ref]
        /\ queued' = [queued EXCEPT ![m.priority] = Append(@, entry)]
        /\ queued_size' = queued_size + EntrySize(m)
        /\ UNCHANGED <<queue_requests, queued_info>>

(* The next info message is handed to the info pid.                        *)
process_queue_info(ws, rpid, ipid, S) ==
    /\ queued_info # <<>>
    /\ queued_info' = Tail(queued_info)
    /\ queue_requests' = TRUE
    /\ handle_module_info_loop_pid(ws, rpid, ipid,
                                   InfoJob(Head(queued_info), S))
    /\ UNCHANGED <<timers, queued, queued_size, recv_timeouts>>

(* The request with the least priority number, its timer cancelled, is     *)
(* handed to the request pid with the time that it has left.               *)
process_queue(ws, rpid, ipid, S) ==
    LET p == Min(Waiting)
        e == Head(queued[p])
        ref == recv_timeouts[e.id]
    IN  \/ /\ Waiting = {}
           /\ queue_requests' = FALSE
           /\ request_pid' = rpid /\ info_pid' = ipid /\ workers' = ws
           /\ UNCHANGED <<timers, queued, queued_size, recv_timeouts,
                          queued_info, status, next_pid>>
        \/ /\ Waiting # {}
           /\ ref = 0           \* maps:get/2 fails
           /\ Stop("badkey")
           /\ UNCHANGED <<timers, queue_vars>>
        \/ /\ Waiting # {}
           /\ ref # 0
           /\ \E T \in {t \in Timeouts : t <= e.timeout} \cup {0} :
                /\ Running(ref) \/ T = 0
                /\ handle_module_request_loop_pid(ws, rpid, ipid,
                                                  RequestJob(e.id, T, S))
           /\ timers' = {tm \in timers : tm.ref # ref}
           /\ Forget(e.id)
           /\ queued' = [queued EXCEPT ![p] = Tail(@)]
           /\ queued_size' = queued_size - e.size
           /\ queue_requests' = TRUE
           /\ UNCHANGED queued_info

run_queues(ws, rpid, ipid, S) ==
    \/ process_queue_info(ws, rpid, ipid, S)
    \/ queued_info = <<>> /\ process_queue(ws, rpid, ipid, S)

-----------------------------------------------------------------------------
(* Updates *)

(* update_state ends the process whose options change.                     *)
TellExit(ws, pids) ==
    {IF w.pid \in pids THEN [w EXCEPT !.job = LoopExit] ELSE w : w \in ws}

ChangedPid(key, plan, pid) == IF key \in plan.keys THEN Undefined ELSE pid

(* The update is applied between two callbacks, or it fails, and the       *)
(* services monitor is told; then the queues go on.                        *)
process_update(ws, rpid, ipid, S, plan) ==
    LET rpid1 == ChangedPid("request_pid", plan, rpid)
        ipid1 == ChangedPid("info_pid", plan, ipid)
        told == {rpid, ipid} \ {rpid1, ipid1}
    IN  /\ update_plan' = NoPlan
        /\ UNCHANGED updates
        /\ \/ /\ plan.update_start
              /\ update' = "ok"
              /\ service_state' = S + 1
              /\ run_queues(TellExit(ws, told), rpid1, ipid1, S + 1)
           \/ /\ plan.update_start => Fails
              /\ update' = "error"
              /\ service_state' = S
              /\ run_queues(ws, rpid, ipid, S)

process_queues(ws, rpid, ipid, S) ==
    LET plan == [update_plan EXCEPT !.update_pending = FALSE,
                                    !.queue_requests = FALSE]
    IN  \/ /\ update_plan.set
           /\ update_plan.update_now
           /\ process_update(ws, rpid, ipid, S, plan)
        \/ /\ update_plan.set
           /\ ~update_plan.update_now
           /\ update_plan' = plan
           /\ update' = IF update_plan.update_pending THEN "ready" ELSE update
           /\ service_state' = S
           /\ request_pid' = rpid /\ info_pid' = ipid /\ workers' = ws
           /\ UNCHANGED <<timers, queue_vars, status, next_pid, updates>>
        \/ /\ ~update_plan.set
           /\ service_state' = S
           /\ run_queues(ws, rpid, ipid, S)
           /\ UNCHANGED <<update_plan, update, updates>>

-----------------------------------------------------------------------------
(* The handlers of the dispatcher *)

Done == mailbox' = Tail(mailbox)

(* Only an idle dispatcher starts a callback when a message arrives.       *)
Idle_always == TRUE
Idle == ~queue_requests

(* cloudi_service_init_execute: the module's init callback ran, in the     *)
(* dispatcher itself.                                                      *)
HandleInit ==
    /\ Handling("init_execute")
    /\ Done
    /\ \/ process_queues(workers, request_pid, info_pid, service_state)
       \/ /\ Fails
          /\ Stop("failed")
          /\ UNCHANGED <<timers, queue_vars, plan_vars>>
    /\ UNCHANGED io_vars

(* A request for an idle dispatcher runs at once, unless there are too     *)
(* many.                                                                   *)
HandleSendIdle ==
    /\ Handling("send")
    /\ Idle
    /\ Done
    /\ LET m == Head(mailbox) IN
       \/ /\ queue_requests' = TRUE
          /\ handle_module_request_loop_pid(workers, request_pid, info_pid,
                               RequestJob(m.id, m.timeout, service_state))
          /\ UNCHANGED <<queued, queued_size, recv_timeouts, queued_info,
                         io_vars>>
       \/ /\ RateLimited
          /\ End(m.id, Refused(m.timeout))
          /\ UNCHANGED <<sent, informed, queue_vars, pid_vars>>
    /\ UNCHANGED <<timers, plan_vars>>

(* A busy dispatcher does not queue a request that cannot wait.            *)
HandleSendNow ==
    /\ Handling("send")
    /\ queue_requests
    /\ LET m == Head(mailbox) IN
       /\ m.timeout = 0
       /\ End(m.id, Refused(0))
    /\ Done
    /\ UNCHANGED <<sent, informed, timers, queue_vars, pid_vars,
                   plan_vars>>

(* A busy dispatcher queues a request within its limits, and starts its    *)
(* timer.                                                                  *)
HandleSendBusy ==
    /\ Handling("send")
    /\ queue_requests
    /\ LET m == Head(mailbox) IN
       /\ m.timeout # 0
       /\ \/ /\ QueueLimitOk /\ QueueSizeOk(m)
             /\ recv_timeout_start(m)
             /\ UNCHANGED io_vars
          \/ /\ ~(QueueLimitOk /\ QueueSizeOk(m)) \/ RateLimited
             /\ End(m.id, Refused(m.timeout))
             /\ UNCHANGED <<sent, informed, timers, queue_vars>>
    /\ Done
    /\ UNCHANGED <<pid_vars, plan_vars>>

(* The request of a cloudi_service_recv_timeout is taken from the queue,   *)
(* if it is there: the timer may have fired just before it was cancelled.  *)
InQueue(m) == /\ queue_requests
              /\ \E e \in ToSet(queued[m.priority]) : e.id = m.id

remove_unique(m) ==
    queued' = [queued EXCEPT ![m.priority] =
                   RemoveFirstMatch(@, LAMBDA e : e.id = m.id)]

SizeLeft(m) == IF InQueue(m) THEN queued_size - m.size ELSE queued_size

HandleRecvTimeout ==
    /\ Handling("recv_timeout")
    /\ LET m == Head(mailbox)
       IN  /\ \/ InQueue(m) /\ remove_unique(m) /\ End(m.id, "expired")
              \/ ~InQueue(m) /\ UNCHANGED <<queued, fate>>
           /\ queued_size' = SizeLeft(m)
           /\ Forget(m.id)
    /\ Done
    /\ UNCHANGED <<sent, informed, timers, queue_requests, queued_info,
                   pid_vars, plan_vars>>

(* handle_info_message *)
HandleInfo ==
    /\ Handling("info")
    /\ LET m == Head(mailbox) IN
       \/ /\ ~Idle
          /\ queued_info' = Append(queued_info, m.id)
          /\ UNCHANGED <<queue_requests, pid_vars>>
       \/ /\ Idle
          /\ queue_requests' = TRUE
          /\ handle_module_info_loop_pid(workers, request_pid, info_pid,
                                         InfoJob(m.id, service_state))
          /\ UNCHANGED queued_info
    /\ Done
    /\ UNCHANGED <<io_vars, timers, queued, queued_size, recv_timeouts,
                   plan_vars>>

(* What a request's result does, besides the new service state.            *)
Route(m) ==
    /\ mailbox' = IF m.how = "forward"
                  THEN Append(Tail(mailbox), [m EXCEPT !.tag = "forward"])
                  ELSE Tail(mailbox)
    /\ IF m.how \in {"response", "empty", "noreply"} THEN End(m.id, m.how)
       ELSE UNCHANGED fate

(* A process that exits with its result is no longer the current one.      *)
StillCurrent(m, pid) == IF m.pid = 0 THEN pid ELSE Undefined

(* A result comes as a message, or as the reason of the exit of the        *)
(* current process (the exit of any other stops the dispatcher).           *)
HandleRequestResult ==
    /\ Handling("request_result")
    /\ LET m == Head(mailbox)
           rpid == StillCurrent(m, request_pid)
       IN  \/ /\ m.pid \in {0, request_pid}
              /\ m.how # "failure"
              /\ Route(m)
              /\ process_queues(workers, rpid, info_pid, m.state)
           \/ /\ m.pid \notin {0, request_pid} \/ m.how = "failure"
              /\ Stop(IF m.pid \in {0, request_pid} THEN "failed"
                      ELSE "forced")
              /\ Done
              /\ UNCHANGED <<fate, timers, queue_vars, plan_vars>>
    /\ UNCHANGED <<sent, informed>>

HandleInfoResult ==
    /\ Handling("info_result")
    /\ LET m == Head(mailbox)
           ipid == StillCurrent(m, info_pid)
       IN  \/ /\ m.pid \in {0, info_pid}
              /\ m.how # "failure"
              /\ process_queues(workers, request_pid, ipid, m.state)
           \/ /\ m.pid \notin {0, info_pid} \/ m.how = "failure"
              /\ Stop(IF m.pid \in {0, info_pid} THEN "failed"
                      ELSE "forced")
              /\ UNCHANGED <<timers, queue_vars, plan_vars>>
    /\ Done
    /\ UNCHANGED io_vars

(* {'EXIT', Pid, normal}: any exit that is not a result stops the          *)
(* dispatcher, whether Pid is current or not.                              *)
HandleExit ==
    /\ Handling("exit")
    /\ Done
    /\ Stop("forced")
    /\ UNCHANGED <<io_vars, timers, queue_vars, plan_vars>>

ForwardLater_same(m) == m
ForwardLater(m) == [m EXCEPT !.timeout = @ - Interval]

(* cloudi_service_forward_*_retry: the next destination is looked up       *)
(* ("denied", no "time" left for the lookup, an "error", or "found").      *)
HandleForward ==
    /\ Handling("forward")
    /\ LET m == Head(mailbox)
           T == m.timeout
           again == SendAfter(ForwardLater(m))
       IN  \E found \in {"denied", "time", "error", "found"} :
             \/ /\ found = "error"
                /\ RequestNameLookup = "sync"
                /\ T >= Interval
                /\ timers' = timers \cup {again}
                /\ UNCHANGED fate
             \/ /\ ~(/\ found = "error"
                     /\ RequestNameLookup = "sync"
                     /\ T >= Interval)
                /\ End(m.id, CASE found = "found" /\ T >= Delta -> "forwarded"
                               [] found = "error"
                                  /\ RequestNameLookup = "async" -> Refused(T)
                               [] OTHER -> "silent")
                /\ UNCHANGED timers
    /\ Done
    /\ UNCHANGED <<sent, informed, queue_vars, pid_vars, plan_vars>>

(* cloudi_service_update: hold the queues; when that waits for a callback  *)
(* to end (sync), the services monitor hears of it later.                  *)
WaitForCallback(plan) == plan.sync /\ queue_requests

BusyBefore_always == TRUE
BusyBefore == queue_requests

HoldQueues_not == UNCHANGED queue_requests
HoldQueues == queue_requests' = TRUE

HandleUpdate ==
    /\ Handling("update")
    /\ LET plan == Head(mailbox).plan
           wait == WaitForCallback(plan)
       IN  /\ update_plan' = [plan EXCEPT !.update_pending = wait,
                                          !.queue_requests = BusyBefore]
           /\ update' = IF wait THEN update ELSE "ready"
    /\ HoldQueues
    /\ Done
    /\ UNCHANGED <<io_vars, timers, queued, queued_size, recv_timeouts,
                   queued_info, pid_vars, service_state, updates>>

(* cloudi_service_update_now: apply the update, or after the callback.     *)
CallbackRuns(plan) == plan.queue_requests

HandleUpdateNow ==
    /\ Handling("update_now")
    /\ LET plan == [update_plan EXCEPT !.update_now = TRUE,
                                       !.update_start = Head(mailbox).start]
       IN  \/ /\ CallbackRuns(plan)
              /\ update_plan' = plan
              /\ UNCHANGED <<timers, queue_vars, pid_vars, service_state,
                             update, updates>>
           \/ /\ ~CallbackRuns(plan)
              /\ process_update(workers, request_pid, info_pid,
                                service_state, plan)
    /\ Done
    /\ UNCHANGED io_vars

(* cloudi_count_process_dynamic_terminate: leave the groups, end when      *)
(* idle, or when the period is over.                                       *)
HandleTerminate ==
    /\ Handling("terminate")
    /\ mailbox' = Append(Tail(mailbox),
                         [NoMessage EXCEPT !.tag = "terminate_check"])
    /\ timers' = timers \cup
                 {SendAfter([NoMessage EXCEPT !.tag = "terminate_now"])}
    /\ UNCHANGED <<io_vars, queue_vars, pid_vars, plan_vars>>

HandleTerminateCheck_now ==
    /\ Handling("terminate_check")
    /\ Stop("terminated")
    /\ Done
    /\ UNCHANGED <<io_vars, timers, queue_vars, plan_vars>>

HandleTerminateCheck ==
    /\ Handling("terminate_check")
    /\ \/ /\ ~queue_requests
          /\ Stop("terminated")
          /\ UNCHANGED timers
       \/ /\ queue_requests
          /\ timers' = timers \cup {SendAfter(Head(mailbox))}
          /\ UNCHANGED pid_vars
    /\ Done
    /\ UNCHANGED <<io_vars, queue_vars, plan_vars>>

HandleTerminateNow ==
    /\ Handling("terminate_now")
    /\ Stop("terminated")
    /\ Done
    /\ UNCHANGED <<io_vars, timers, queue_vars, plan_vars>>

-----------------------------------------------------------------------------
(* The environment: senders, timers, callback processes, services monitor  *)

Send(r) ==
    /\ status = "up"
    /\ sent[r] < MaxSends
    /\ \E T \in Timeouts, p \in Priorities, z \in Sizes :
         Post([NoMessage EXCEPT !.tag = "send", !.id = r, !.timeout = T,
                                !.priority = p, !.size = z])
    /\ sent' = [sent EXCEPT ![r] = @ + 1]
    /\ UNCHANGED <<informed, fate, timers, queue_vars, pid_vars, plan_vars>>

SendInfo(i) ==
    /\ status = "up"
    /\ i \notin informed
    /\ Post([NoMessage EXCEPT !.tag = "info", !.id = i])
    /\ informed' = informed \cup {i}
    /\ UNCHANGED <<sent, fate, timers, queue_vars, pid_vars, plan_vars>>

TimerFires(tag, id) ==
    /\ status = "up"
    /\ \E tm \in timers : /\ tm.msg.tag = tag
                          /\ tm.msg.id = id
                          /\ timers' = timers \ {tm}
                          /\ Post(tm.msg)
    /\ UNCHANGED <<io_vars, queue_vars, pid_vars, plan_vars>>

(* What a callback may return.  The empty response of a request that       *)
(* cannot wait for it is not sent.                                         *)
Returns(job) ==
    (IF Fails THEN {"failure"} ELSE {}) \cup
    (CASE job.kind = "info" -> {"noreply"}
       [] job.timeout >= ResponseTimeoutImmediateMax ->
            {"response", "noreply", "forward", "empty"}
       [] OTHER -> {"response", "noreply", "forward"})

(* A callback returns.  The process of the last use exits with the result, *)
(* any other sends it and waits for its next use.                          *)
Return(tag, w) ==
    /\ \E how \in Returns(w.job) :
       \E T \in IF how = "forward" THEN Timeouts ELSE {w.job.timeout} :
         Post([NoMessage EXCEPT !.tag = tag, !.id = w.job.id, !.timeout = T,
                   !.how = how, !.state = w.job.state + 1,
                   !.pid = IF w.uses = 1 THEN w.pid ELSE 0])
    /\ workers' = (workers \ {w}) \cup
         (CASE w.uses = 1 -> {}
            [] w.uses = Infinity -> {[w EXCEPT !.job = NoJob]}
            [] OTHER -> {[w EXCEPT !.job = NoJob, !.uses = @ - 1]})
    /\ UNCHANGED <<io_vars, timers, queue_vars, status, request_pid, info_pid,
                   next_pid, plan_vars>>

handle_module_request ==
    \E w \in workers : w.job.kind = "request" /\ Return("request_result", w)

handle_module_info ==
    \E w \in workers : w.job.kind = "info" /\ Return("info_result", w)

(* A callback process that ends without a result is an exit message.       *)
Ends(w) ==
    /\ Post([NoMessage EXCEPT !.tag = "exit", !.pid = w.pid])
    /\ workers' = workers \ {w}
    /\ UNCHANGED <<io_vars, timers, queue_vars, status, request_pid,
                   info_pid, next_pid, plan_vars>>

(* It was told to end by update_state.                                     *)
LoopExits == \E w \in workers : w.job.kind = "loop_exit" /\ Ends(w)

(* The exit signal of a process the callback linked to kills it.           *)
WorkerKilled == Fails /\ \E w \in workers : Ends(w)

(* The services monitor asks for an update, and waits until it is ready.   *)
UpdateStart ==
    /\ status = "up"
    /\ updates < MaxUpdates
    /\ update \in {"none", "ok", "error"}
    /\ \E sync \in BOOLEAN, keys \in UpdateKeys :
         Post(UpdateMessage([NoPlan EXCEPT !.set = TRUE, !.sync = sync,
                                           !.keys = keys]))
    /\ update' = "start"
    /\ updates' = updates + 1
    /\ UNCHANGED <<io_vars, timers, queue_vars, pid_vars, service_state,
                   update_plan>>

(* The new modules were loaded, or not; the process may be dead.           *)
UpdateNow ==
    /\ update = "ready"
    /\ \E start \in BOOLEAN : Post([tag |-> "update_now", start |-> start])
    /\ update' = "now"
    /\ UNCHANGED <<io_vars, timers, queue_vars, pid_vars, service_state,
                   update_plan, updates>>

(* 'DOWN' instead of an answer.                                            *)
UpdateDown ==
    /\ status # "up"
    /\ update \in {"start", "now"}
    /\ update' = "error"
    /\ UNCHANGED <<io_vars, mailbox, timers, queue_vars, pid_vars,
                   service_state, update_plan, updates>>

(* The configurator wants fewer processes.                                 *)
Terminate ==
    /\ Terminates
    /\ status = "up"
    /\ \A i \in 1..Len(mailbox) :
         mailbox[i].tag \notin {"terminate", "terminate_check",
                                "terminate_now"}
    /\ \A tm \in timers : tm.msg.tag # "terminate_now"
    /\ Post([NoMessage EXCEPT !.tag = "terminate"])
    /\ UNCHANGED <<io_vars, timers, queue_vars, pid_vars, plan_vars>>

-----------------------------------------------------------------------------
Init ==
    /\ sent = [r \in Requests |-> 0]
    /\ informed = {}
    /\ fate = [r \in Requests |-> <<>>]
    /\ mailbox = <<[NoMessage EXCEPT !.tag = "init_execute"]>>
    /\ timers = {}
    /\ status = "up"
    /\ queue_requests = TRUE
    /\ queued = [p \in Priorities |-> <<>>]
    /\ queued_size = 0
    /\ recv_timeouts = [r \in Requests |-> 0]
    /\ queued_info = <<>>
    /\ request_pid = Undefined
    /\ info_pid = Undefined
    /\ workers = {}
    /\ next_pid = 1
    /\ service_state = 0
    /\ update_plan = NoPlan
    /\ update = "none"
    /\ updates = 0

Handle ==
    \/ HandleInit
    \/ HandleSendIdle \/ HandleSendNow \/ HandleSendBusy
    \/ HandleRecvTimeout
    \/ HandleInfo
    \/ HandleRequestResult \/ HandleInfoResult
    \/ HandleExit
    \/ HandleForward
    \/ HandleUpdate \/ HandleUpdateNow
    \/ HandleTerminate \/ HandleTerminateCheck \/ HandleTerminateNow

TimerTags == {"recv_timeout", "forward", "terminate_check", "terminate_now"}

Next ==
    \/ Handle
    \/ \E r \in Requests : Send(r)
    \/ \E i \in Infos : SendInfo(i)
    \/ \E tag \in TimerTags, id \in Requests \cup {Undefined} :
         TimerFires(tag, id)
    \/ handle_module_request \/ handle_module_info
    \/ LoopExits \/ WorkerKilled
    \/ UpdateStart \/ UpdateNow \/ UpdateDown
    \/ Terminate

Spec == Init /\ [][Next]_vars

(* The dispatcher takes its messages and its timers fire.                  *)
DispatcherFairness ==
    /\ WF_vars(Handle)
    /\ \A tag \in TimerTags : \A id \in Requests \cup {Undefined} :
         WF_vars(TimerFires(tag, id))

(* Callbacks return as well, and the services monitor goes on.             *)
CallbackFairness ==
    /\ WF_vars(handle_module_request)
    /\ WF_vars(handle_module_info)
    /\ WF_vars(LoopExits)
    /\ WF_vars(UpdateNow)
    /\ WF_vars(UpdateDown)

FairSpec == Spec /\ DispatcherFairness

-----------------------------------------------------------------------------
(* What the properties are about *)

Mail(Test(_)) == {i \in 1..Len(mailbox) : Test(mailbox[i])}
Busy == {w \in workers : w.job.kind \in {"request", "info"}}
Results == Mail(LAMBDA m : m.tag \in {"request_result", "info_result"})
Exits == Mail(LAMBDA m : m.tag = "exit")
Queued(r) == \E p \in Priorities : \E e \in ToSet(queued[p]) : e.id = r

(* How often request r is somewhere between its sender and its end.        *)
Places(r) ==
    Cardinality(Mail(LAMBDA m : m.tag \in {"send", "request_result", "forward"}
                                /\ m.id = r))
    + SumQueued(LAMBDA e : IF e.id = r THEN 1 ELSE 0)
    + Cardinality({w \in workers : w.job.kind = "request" /\ w.job.id = r})
    + Cardinality({tm \in timers : tm.msg.tag = "forward" /\ tm.msg.id = r})

Messages ==
    [tag : {"init_execute", "send", "info", "recv_timeout", "request_result",
            "info_result", "exit", "forward", "terminate", "terminate_check",
            "terminate_now"},
     id : Requests \cup Infos \cup {Undefined}, timeout : Nat,
     priority : Priorities \cup {0}, size : Nat, pid : Nat,
     how : {"none", "response", "empty", "noreply", "forward", "failure"},
     state : Nat]
    \cup [tag : {"update"}, plan : Plan]
    \cup [tag : {"update_now"}, start : BOOLEAN]

Jobs == [kind : {"none", "loop_exit", "request", "info"},
         id : Requests \cup Infos \cup {Undefined}, timeout : Nat, state : Nat]

(* The types of the dispatcher's state record and of its messages.         *)
TypeOK ==
    /\ sent \in [Requests -> 0..MaxSends]
    /\ informed \subseteq Infos
    /\ fate \in [Requests -> Seq({"response", "empty", "noreply", "silent",
                                  "expired", "forwarded"})]
    /\ \A i \in 1..Len(mailbox) : mailbox[i] \in Messages
    /\ \A tm \in timers : tm.ref \in Nat \ {0} /\ tm.msg \in Messages
    /\ status \in {"up", "badkey", "failed", "forced", "terminated"}
    /\ queue_requests \in BOOLEAN
    /\ queued \in [Priorities -> Seq([id : Requests, timeout : Nat,
                                      size : Nat])]
    /\ queued_size \in Nat
    /\ recv_timeouts \in [Requests -> Nat]
    /\ queued_info \in Seq(Infos)
    /\ request_pid \in Nat \cup {Undefined}
    /\ info_pid \in Nat \cup {Undefined}
    /\ \A w \in workers : /\ w.pid \in 1..next_pid - 1
                          /\ w.uses \in (Nat \ {0}) \cup {Infinity}
                          /\ w.job \in Jobs
    /\ next_pid \in Nat \ {0}
    /\ service_state \in Nat
    /\ update_plan \in Plan
    /\ update \in {"none", "start", "ready", "now", "ok", "error"}
    /\ updates \in 0..MaxUpdates

(* One callback at a time: a callback that runs, or whose result the       *)
(* dispatcher has not seen, is the only one, and the dispatcher queues     *)
(* requests and info messages meanwhile (handle_info of a send, of info    *)
(* messages and of updates, process_queues).                               *)
OneCallback ==
    status = "up" =>
        Cardinality(Busy) + Cardinality(Results)
            <= (IF queue_requests THEN 1 ELSE 0)

(* The dispatcher never queues for nothing: while it does, a message that  *)
(* will end that is due (init, a result, an exit), a callback is running,  *)
(* or the services monitor is to send cloudi_service_update_now.           *)
BusyForAReason ==
    status = "up" /\ queue_requests =>
        \/ mailbox # <<>> /\ Head(mailbox).tag = "init_execute"
        \/ Busy # {} \/ Results # {} \/ Exits # {}
        \/ /\ update_plan.set
           /\ ~update_plan.update_now
           /\ update = "ready" \/ update = "now"

(* An idle dispatcher has nothing queued and no update in progress, so     *)
(* that a request that runs at once never overtakes a queued one.          *)
IdleEmpty ==
    status = "up" /\ ~queue_requests =>
        Waiting = {} /\ queued_info = <<>> /\ ~update_plan.set

(* The flag queue_requests stops the queues when, and only when, something *)
(* will set them going again.                                              *)
QueuesMove == BusyForAReason /\ IdleEmpty

(* recv_timeouts has exactly the queued requests, and the timer of each is *)
(* running or its cloudi_service_recv_timeout is in the mailbox: none is   *)
(* queued forever, and maps:get in process_queue cannot fail.              *)
RecvTimeoutsExact ==
    status = "up" =>
        \A r \in Requests :
          /\ recv_timeouts[r] # 0 <=> Queued(r)
          /\ recv_timeouts[r] # 0 =>
               \/ \E tm \in timers : /\ tm.ref = recv_timeouts[r]
                                     /\ tm.msg.tag = "recv_timeout"
                                     /\ tm.msg.id = r
               \/ Mail(LAMBDA m : m.tag = "recv_timeout" /\ m.id = r) # {}

(* queued_size is the size of what is queued, and the limits of the        *)
(* options hold, whichever way requests left the queue (process_queue,     *)
(* recv_timeout before or after it was cancelled).                         *)
QueueWithinLimits ==
    /\ queued_size = SumQueued(LAMBDA e : e.size)
    /\ QueueSize # Undefined => queued_size <= QueueSize
    /\ QueueLimit # Undefined => QueueLen <= QueueLimit

(* The queue, its timers, its size and its limits agree.                   *)
QueueExact == TypeOK /\ RecvTimeoutsExact /\ QueueWithinLimits

(* While the process lives no request is lost and none is handled twice:   *)
(* each send has ended, or is in exactly one of the mailbox, the queue, a  *)
(* callback process and a forward that is retried (the exit of a process   *)
(* that was killed stops the dispatcher).                                  *)
NothingLost ==
    status = "up" /\ Exits = {} =>
        \A r \in Requests : sent[r] = Len(fate[r]) + Places(r)

(* Callbacks and updates see each other's service state in turn: a         *)
(* callback that runs was given the current state, and its result is a     *)
(* step from the current state, so no change to it is ever overwritten.    *)
StateSerial ==
    status = "up" =>
        /\ \A w \in Busy : w.job.state = service_state
        /\ \A i \in Results : mailbox[i].state = service_state + 1

(* A sync update: once the services monitor knows that the process is      *)
(* ready (and loads modules) no callback runs until it is applied.         *)
SyncUpdateQuiet ==
    status = "up" /\ update_plan.set /\ update_plan.sync
        /\ update \in {"ready", "now"} =>
            Busy = {} /\ Results = {}

(* Requests, info messages and updates take turns on the service state.    *)
CallbacksSerial == OneCallback /\ StateSerial /\ SyncUpdateQuiet

(* A duplicate of a request that is still queued (a retry of cloudi_queue  *)
(* with the same transaction id) is delivered like any other.              *)
DuplicateDelivered == status # "badkey"

(* A service is updated without losing its service requests and its state: *)
(* applying an update does not end the process.  It does if update_state   *)
(* tells a callback process that lives to exit: the 'EXIT' it gets then,   *)
(* with the reason normal, ends the dispatcher.                            *)
UpdateKeepsService == update = "ok" => status # "forced"

(* A process that count_process_dynamic ends does so in its check only     *)
(* with nothing queued, running or finished but not yet seen, and in no    *)
(* update; otherwise it goes on until its time is over.                    *)
EndsOnlyWhenIdle ==
    [][(HandleTerminateCheck /\ status' # "up") =>
         /\ Waiting = {} /\ queued_info = <<>>
         /\ Busy = {} /\ Results = {}
         /\ update \in {"none", "start", "ok", "error"}]_vars

(* Every request comes to an end if callbacks return (response, time-out   *)
(* in the queue, refusal or forward), unless the process stops.            *)
RequestEnds ==
    CallbackFairness =>
        \A r \in Requests :
          sent[r] > 0 ~> (Len(fate[r]) = sent[r] \/ status # "up")

(* The services monitor, which waits without a timeout, is answered if     *)
(* callbacks return.                                                       *)
UpdateAnswered ==
    CallbackFairness => (update = "start" ~> update \in {"ok", "error"})

(* A queued request leaves the queue even if the callback that it waits    *)
(* for never returns: its timer ends the wait.                             *)
QueueDrains ==
    \A r \in Requests : Queued(r) ~> (~Queued(r) \/ status # "up")

=============================================================================
