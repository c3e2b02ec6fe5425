--------------------------- MODULE ExternalService ---------------------------
(***************************************************************************)
(* An external service: the thread of CloudiAPI composed with its Erlang   *)
(* process (cloudi_core_i_services_external.erl, "the dispatcher"), which  *)
(* takes the service requests of other services, gives the OS process one  *)
(* of them at a time, acts on what the API writes, and ends the OS process *)
(* when it terminates.                                                     *)
(*                                                                         *)
(* Left out: aspects, the order of the queue (module RequestQueue), the    *)
(* requests the service sends (module ServiceSender; here such a call is   *)
(* only answered some time later) and the update of the OS process.        *)
(***************************************************************************)
EXTENDS CloudiAPI, FiniteSets

CONSTANTS
    OsPidKnown,     \* whether os_pid is set, as it is for the first thread
    MaxProcesses,   \* bound: the number of processes of the service
    MayTerminate,   \* whether the process may be one of those that
                    \* count_process_dynamic ends
    MayCrash        \* whether the OS process may die at any time

ASSUME ExternalAssumption ==
    /\ OsPidKnown \in BOOLEAN
    /\ MaxProcesses \in Nat
    /\ MayTerminate \in BOOLEAN
    /\ MayCrash \in BOOLEAN

VARIABLES
    d,              \* the #state{} of the dispatcher
    status,         \* where each service request is
    joined,         \* memberships in the group of each pattern (cpg)
    outstanding,    \* calls of the API to be answered later
    begun           \* history: the requests a callback was called for

dispatcherVars == <<d, status, joined, outstanding>>
vars == <<apiVars, socketVars, dispatcherVars, begun>>

Dispatcher == [
    state : {"CONNECT", "INIT_WAIT", "HANDLE",
             "terminating", "closing", "stopped"},
    initialize : BOOLEAN,
    init_timer : BOOLEAN,           \* set until the first cloudi_poll
    queue_requests : BOOLEAN,
    request_data : Requests \cup {NoRequest},
    process_count : Nat,
    keepalive : {"undefined", "received"},
    udp_closed : BOOLEAN,           \* sent to itself, not yet handled
    terminated : BOOLEAN]           \* count_process_dynamic_terminated

\* "inflight" is in the dispatcher's mailbox, "running" was written to the
\* socket.
Status == {"unsent", "inflight", "queued", "running", "answered", "dropped"}

Running == d.state \in {"CONNECT", "INIT_WAIT", "HANDLE"}
Handling == d.state = "HANDLE"

DispatcherInit ==
    /\ d = [state |-> "CONNECT", initialize |-> FALSE, init_timer |-> TRUE,
            queue_requests |-> TRUE, request_data |-> NoRequest,
            process_count |-> 1, keepalive |-> "undefined",
            udp_closed |-> FALSE, terminated |-> FALSE]
    /\ status = [r \in Requests |-> "unsent"]
    /\ joined = [x \in Patterns |-> 0]
    /\ outstanding = {}
    /\ begun = {}

-----------------------------------------------------------------------------
(* What the handlers have in common                                        *)

\* send/2
send(m) == to_api' = Append(to_api, m)

\* The next message the API wrote is of one of these types.
Receives(types) ==
    /\ to_dispatcher # <<>>
    /\ Head(to_dispatcher).type \in types
    /\ to_dispatcher' = Tail(to_dispatcher)

Message == Head(to_dispatcher)

\* terminate/3 and the beginning of socket_close/2: unless the socket was
\* closed, the OS process is told to terminate.  What is in the mailbox and
\* in the queue is lost.
terminate(closed) ==
    /\ d' = [d EXCEPT !.state = IF closed THEN "closing" ELSE "terminating"]
    /\ IF closed THEN UNCHANGED to_api ELSE send([type |-> "TERM"])
    /\ status' = [r \in Requests |->
                    IF status[r] \in {"inflight", "queued"}
                    THEN "dropped" ELSE status[r]]
    /\ outstanding' = {}
    /\ UNCHANGED <<joined>>

\* Mutant: requests that arrive are not queued while one is handled.
DispatchNoQueue(s, r) ==
    /\ send([type |-> "SEND", request |-> r])
    /\ d' = [s EXCEPT !.request_data = r]

\* The request r is written to the socket; s is the state before.
Dispatch(s, r) ==
    /\ send([type |-> "SEND", request |-> r])
    /\ d' = [s EXCEPT !.queue_requests = TRUE, !.request_data = r]

\* process_queues/1 in the state s, where a request may have just ended.
process_queue(s, now) ==
    IF \A r \in Requests : now[r] # "queued"
    THEN /\ d' = [s EXCEPT !.queue_requests = FALSE]
         /\ status' = now
         /\ UNCHANGED to_api
    ELSE \E r \in Requests :
            /\ now[r] = "queued"
            /\ Dispatch(s, r)
            /\ status' = [now EXCEPT ![r] = "running"]

-----------------------------------------------------------------------------
(* The connection                                                          *)

\* connection_init/1: MESSAGE_INIT, and over UDP the first keepalive.
connection_init(s) ==
    /\ d' = [s EXCEPT !.state = "HANDLE", !.initialize = TRUE]
    /\ to_api' = to_api
         \o <<[type |-> "INIT", call |-> 0, count |-> s.process_count]>>
         \o (IF p.use_header THEN <<>> ELSE <<[type |-> "KEEPALIVE"]>>)

HandleInit ==
    /\ d.state = "CONNECT"
    /\ Receives({"init"})
    /\ IF d.initialize
       THEN connection_init(d)
       ELSE d' = [d EXCEPT !.state = "INIT_WAIT"] /\ UNCHANGED to_api
    /\ UNCHANGED <<status, joined, outstanding>>

\* cloudi_service_init_begin: all processes of the service were started.
InitBegin ==
    /\ ~d.initialize
    /\ \/ /\ d.state = "CONNECT"
          /\ d' = [d EXCEPT !.initialize = TRUE]
          /\ UNCHANGED to_api
       \/ /\ d.state = "INIT_WAIT"
          /\ connection_init(d)
    /\ UNCHANGED <<status, joined, outstanding, to_dispatcher>>

HandlePolling ==
    /\ Handling
    /\ Receives({"polling"})
    /\ process_queue([d EXCEPT !.init_timer = FALSE], status)
    /\ UNCHANGED <<joined, outstanding>>

\* cloudi_service_init_timeout: initialization took too long.
InitTimeout ==
    /\ Running
    /\ d.init_timer
    /\ terminate(FALSE)
    /\ UNCHANGED to_dispatcher

-----------------------------------------------------------------------------
(* Calls of the API                                                        *)

HandleSubscribe ==
    /\ Handling
    /\ Receives({"subscribe"})
    /\ joined' = IF d.terminated THEN joined
                 ELSE [joined EXCEPT ![Message.pattern] = @ + 1]
    /\ UNCHANGED <<d, status, outstanding, to_api>>

\* cpg:leave of a group the process is not in is an error that ends it.
HandleUnsubscribe ==
    /\ Handling
    /\ Receives({"unsubscribe"})
    /\ IF d.terminated
       THEN UNCHANGED <<dispatcherVars, to_api>>
       ELSE IF joined[Message.pattern] = 0
       THEN terminate(FALSE)
       ELSE /\ joined' = [joined EXCEPT ![Message.pattern] = @ - 1]
            /\ UNCHANGED <<d, status, outstanding, to_api>>

Reply(m) ==
    send([type |-> AnswerTo[m.type], call |-> m.call, count |-> 0])

HandleSubscribeCount ==
    /\ Handling
    /\ Receives({"subscribe_count"})
    /\ Reply(Message)
    /\ UNCHANGED dispatcherVars

\* A response cannot be waited for during initialization.
InvalidState ==
    /\ Handling
    /\ d.init_timer
    /\ Receives({"send_sync", "recv_async"})
    /\ terminate(FALSE)

\* The other calls are answered when a destination was found, a response
\* came or the time is over.
HandleCall ==
    /\ Handling
    /\ Receives(Blocking \ {"subscribe_count"})
    /\ d.init_timer => Message.type \notin {"send_sync", "recv_async"}
    /\ outstanding' = outstanding \cup {Message}
    /\ UNCHANGED <<d, status, joined, to_api>>

\* Mutant: an answer is held back while a request is handled.
CallEndsIdle ==
    /\ Handling
    /\ ~d.queue_requests
    /\ \E m \in outstanding :
        /\ Reply(m)
        /\ outstanding' = outstanding \ {m}
    /\ UNCHANGED <<d, status, joined, to_dispatcher>>

CallEnds ==
    /\ Handling
    /\ \E m \in outstanding :
        /\ Reply(m)
        /\ outstanding' = outstanding \ {m}
    /\ UNCHANGED <<d, status, joined, to_dispatcher>>

HandleShutdown ==
    /\ Handling
    /\ Receives({"shutdown"})
    /\ terminate(FALSE)

\* A return or a forward of the request that runs; whether it was sent as
\* async or sync is not compared.
HandleAnswer ==
    /\ Handling
    /\ Receives({"return", "forward"})
    /\ IF Message.request = d.request_data
       THEN /\ process_queue([d EXCEPT !.request_data = NoRequest],
                             [status EXCEPT ![d.request_data] = "answered"])
            /\ UNCHANGED <<joined, outstanding>>
       ELSE terminate(FALSE)                \* undefined_message

-----------------------------------------------------------------------------
(* Service requests                                                        *)

\* Another service finds the process in the group of the pattern and sends.
Send(r) ==
    /\ Running
    /\ status[r] = "unsent"
    /\ joined[PatternOf[r]] > 0
    /\ status' = [status EXCEPT ![r] = "inflight"]
    /\ UNCHANGED <<d, joined, outstanding, to_api, to_dispatcher>>

\* The request is dispatched, queued, or refused by a limit.
HandleRequest(r) ==
    /\ Handling
    /\ status[r] = "inflight"
    /\ \/ /\ ~d.queue_requests
          /\ Dispatch(d, r)
          /\ status' = [status EXCEPT ![r] = "running"]
       \/ /\ d.queue_requests
          /\ status' = [status EXCEPT ![r] = "queued"]
          /\ UNCHANGED <<d, to_api>>
       \/ /\ status' = [status EXCEPT ![r] = "dropped"]
          /\ UNCHANGED <<d, to_api>>
    /\ UNCHANGED <<joined, outstanding, to_dispatcher>>

\* Mutant: the timer of a request was not cancelled when it was dispatched.
RecvTimeoutRunning(r) ==
    /\ Handling
    /\ status[r] \in {"queued", "running"}
    /\ d.queue_requests
    /\ status' = [status EXCEPT ![r] = "dropped"]
    /\ UNCHANGED <<d, joined, outstanding, to_api, to_dispatcher>>

\* cloudi_service_recv_timeout
RecvTimeout(r) ==
    /\ Handling
    /\ status[r] = "queued"
    /\ d.queue_requests
    /\ status' = [status EXCEPT ![r] = "dropped"]
    /\ UNCHANGED <<d, joined, outstanding, to_api, to_dispatcher>>

-----------------------------------------------------------------------------
(* The number of processes, and the keepalive of UDP                       *)

\* cloudi_count_process_dynamic_update
Reinit ==
    /\ Handling
    /\ d.process_count < MaxProcesses
    /\ d' = [d EXCEPT !.process_count = @ + 1]
    /\ send([type |-> "REINIT", count |-> d.process_count + 1])
    /\ UNCHANGED <<status, joined, outstanding, to_dispatcher>>

\* cloudi_count_process_dynamic_terminate: no more requests are sent to it,
\* and it stops when it is idle (_terminate_check) or at once.
DynamicTerminate ==
    /\ Handling
    /\ MayTerminate
    /\ \/ /\ ~d.terminated
          /\ d' = [d EXCEPT !.terminated = TRUE]
          /\ joined' = [x \in Patterns |-> 0]
          /\ UNCHANGED <<status, outstanding, to_api>>
       \/ /\ d.terminated
          /\ terminate(FALSE)
    /\ UNCHANGED to_dispatcher

HandleKeepalive ==
    /\ Handling
    /\ Receives({"keepalive"})
    /\ d' = [d EXCEPT !.keepalive = "received"]
    /\ UNCHANGED <<status, joined, outstanding, to_api>>

\* Mutant: a keepalive that was not answered is sent again.
KeepaliveTimerPatient ==
    /\ Handling
    /\ ~p.use_header
    /\ d.keepalive = "received"
    /\ send([type |-> "KEEPALIVE"])
    /\ d' = [d EXCEPT !.keepalive = "undefined"]
    /\ UNCHANGED <<status, joined, outstanding, to_dispatcher>>

\* keepalive_udp
KeepaliveTimer ==
    /\ Handling
    /\ ~p.use_header
    /\ ~d.udp_closed
    /\ IF d.keepalive = "received"
       THEN /\ send([type |-> "KEEPALIVE"])
            /\ d' = [d EXCEPT !.keepalive = "undefined"]
       ELSE /\ d' = [d EXCEPT !.udp_closed = TRUE]
            /\ UNCHANGED to_api
    /\ UNCHANGED <<status, joined, outstanding, to_dispatcher>>

\* udp_closed, or tcp_closed: the OS process is gone and what it wrote was
\* read, or was lost because it had not read everything itself.
SocketClosed ==
    /\ Running
    /\ \/ d.udp_closed
       \/ /\ p.use_header
          /\ ~alive
          /\ to_dispatcher = <<>> \/ to_api # <<>>
    /\ terminate(TRUE)
    /\ UNCHANGED to_dispatcher

-----------------------------------------------------------------------------
(* The end                                                                 *)

\* An 'EXIT', from the services monitor or from an error of a handler.
Stop ==
    /\ Running
    /\ \/ terminate(FALSE)
       \/ d.state = "CONNECT" /\ terminate(TRUE)    \* not yet accepted
    /\ UNCHANGED to_dispatcher

\* socket_close/2, when the OS process closed its end or had its time.
SocketClose ==
    /\ d.state = "terminating"
    /\ d' = [d EXCEPT !.state = "closing"]
    /\ open' = FALSE
    /\ UNCHANGED <<apiVars, begun, to_api, to_dispatcher,
                   status, joined, outstanding>>

\* os_pid_terminate/1: kill -9, or nothing if os_pid is undefined.
os_pid_terminate ==
    /\ d.state = "closing"
    /\ d' = [d EXCEPT !.state = "stopped"]
    /\ open' = FALSE
    /\ IF alive /\ OsPidKnown THEN Dies ELSE UNCHANGED apiVars
    /\ UNCHANGED <<begun, to_api, to_dispatcher,
                   status, joined, outstanding>>

-----------------------------------------------------------------------------
(* The specification                                                       *)

\* The requests whose callbacks are on the stack.
Serving == {stack[n].request : n \in
                {k \in 1 .. Len(stack) : stack[k].kind = "callback"}}

Thread ==
    /\ PollRequest \/ ServiceCode
    /\ begun' = begun \cup Serving'
    /\ UNCHANGED dispatcherVars

Crash == MayCrash /\ Dies /\ UNCHANGED <<socketVars, dispatcherVars, begun>>

\* Messages of the API, in the order they were written.
HandleMessage ==
    \/ HandleInit
    \/ HandlePolling
    \/ HandleSubscribe
    \/ HandleUnsubscribe
    \/ HandleSubscribeCount
    \/ InvalidState
    \/ HandleCall
    \/ HandleShutdown
    \/ HandleAnswer
    \/ HandleKeepalive

DispatcherStep ==
    /\ \/ HandleMessage
       \/ InitBegin
       \/ InitTimeout
       \/ CallEnds
       \/ \E r \in Requests : Send(r) \/ HandleRequest(r) \/ RecvTimeout(r)
       \/ Reinit
       \/ DynamicTerminate
       \/ KeepaliveTimer
       \/ SocketClosed
       \/ Stop
    /\ UNCHANGED <<apiVars, open, begun>>

Next ==
    \/ Thread
    \/ Crash
    \/ DispatcherStep
    \/ SocketClose
    \/ os_pid_terminate

EInit == Init /\ DispatcherInit

Step(A) == A /\ begun' = begun \cup Serving' /\ UNCHANGED dispatcherVars
Handled(A) == A /\ UNCHANGED <<apiVars, open, begun>>

\* The OS process runs: what it can read it reads, a callback ends, and the
\* main function goes on to cloudi_poll and exits when that is over.  The
\* Erlang process handles every message it gets, the answers it owes are
\* given, and its timers end.
Fairness ==
    /\ WF_vars(Step(PollRead))
    /\ WF_vars(Step(callback))
    /\ WF_vars(Step(cloudi_initialize))
    /\ WF_vars(Step(\E finite \in BOOLEAN : cloudi_poll(finite)))
    /\ WF_vars(Step(cloudi_destroy))
    /\ WF_vars(Handled(HandleMessage))
    /\ WF_vars(Handled(InitBegin))
    /\ WF_vars(Handled(CallEnds))
    /\ \A r \in Requests : WF_vars(Handled(HandleRequest(r)))
    /\ WF_vars(Handled(KeepaliveTimer))
    /\ WF_vars(Handled(SocketClosed))
    /\ WF_vars(SocketClose)
    /\ WF_vars(os_pid_terminate)

Spec == EInit /\ [][Next]_vars /\ Fairness

-----------------------------------------------------------------------------
(* Safety                                                                  *)

\* The state of the thread, of the socket and of the dispatcher
\* (cloudi_instance_t, #state{}) stays within its types.
TypeOK ==
    /\ p \in Instance
    /\ stack \in Seq(Frame)
    /\ alive \in BOOLEAN
    /\ main \in {"start", "initialized", "timeout", "success", "terminate",
                 "error"}
    /\ outcome \in [CallId -> {"unused", "waiting", "own", "other",
                               "unanswered", "terminate", "error"}]
    /\ subscribes \in 0 .. MaxSubscribes
    /\ open \in BOOLEAN
    /\ to_api \in Seq(ToAPI)
    /\ to_dispatcher \in Seq(ToDispatcher)
    /\ d \in Dispatcher
    /\ status \in [Requests -> Status]
    /\ joined \in [Patterns -> 0 .. MaxSubscribes]
    /\ outstanding \subseteq [type : Blocking, call : CallId]
    /\ begun \subseteq Requests

Places(q, ok(_)) == {n \in 1 .. Len(q) : ok(q[n])}

\* The answers of the request r on their way to the dispatcher.
AnswersOf(r) ==
    Places(to_dispatcher,
           LAMBDA m : m.type \in {"return", "forward"} /\ m.request = r)

\* The name, request and trans_id a callback was called with point into
\* buffer_call (cloudi.cpp, MESSAGE_SEND_*): no other request is copied
\* there before the callback is over, whatever the callback waits for.
RequestIntact == \A r \in Serving : p.buffer_call = r

\* request_data of the dispatcher is the one request the OS process has: it
\* is still to be read, or its callback runs, or its answer is to be read,
\* and only one of these - unless the OS process has left its poll loop.
\* Otherwise no other request would ever be dispatched.
RequestSomewhere ==
    Handling =>
    \A r \in Requests :
        LET unread == Places(to_api,
                             LAMBDA m : m.type = "SEND" /\ m.request = r)
            places == Cardinality(unread) + Cardinality(AnswersOf(r))
                      + (IF r \in Serving THEN 1 ELSE 0)
        IN  IF r = d.request_data
            THEN \/ places = 1
                 \/ /\ places = 0
                    /\ \/ ~alive
                       \/ main \notin {"initialized", "timeout"}
            ELSE places = 0

\* The callbacks the API keeps for a pattern are as many as the memberships
\* of the process group the requests are sent by, up to the calls that were
\* not read yet, and no unsubscribe finds the group left already (which
\* would stop the service with unsubscribe_invalid).
SubscriptionsAgree ==
    Running /\ ~d.terminated =>
    \A x \in Patterns :
        LET written(type, n) ==
                Cardinality(Places(SubSeq(to_dispatcher, 1, n),
                                   LAMBDA m : m.type = type /\ m.pattern = x))
            before(n) == joined[x] + written("subscribe", n)
        IN  /\ before(Len(to_dispatcher)) =
                   Len(p.lookup[x]) + written("unsubscribe",
                                              Len(to_dispatcher))
            /\ \A n \in 1 .. Len(to_dispatcher) :
                   before(n) >= written("unsubscribe", n)

\* The process count the service reads with cloudi_get_process_count is the
\* dispatcher's, or the newest one on its way is: a REINIT is not lost, also
\* not one that was read behind another message.
CountTracked ==
    LET counts == Places(to_api, LAMBDA m : m.type \in {"INIT", "REINIT"})
        newest == CHOOSE n \in counts : \A k \in counts : k <= n
    IN  Handling /\ alive =>
            d.process_count = IF counts = {} THEN p.process_count
                              ELSE to_api[newest].count

\* What the API keeps of subscriptions and of the process count is what the
\* dispatcher keeps, up to the messages on their way.
BothSidesAgree == TypeOK /\ SubscriptionsAgree /\ CountTracked

\* A call that returned cloudi_success shows the answer to that call.  It need
\* not: a call of a callback that was called while the main function waits,
\* or a call after one that failed, takes the first answer that comes.
OwnResponse == \A c \in CallId : outcome[c] # "other"

-----------------------------------------------------------------------------
(* The contract                                                            *)

ContractState ==
    [r \in Requests |->
        CASE status[r] = "answered" -> "answered"
          [] status[r] # "answered" /\ r \in begun ->
                IF r \in Serving \/ (Handling /\ AnswersOf(r) # {})
                THEN "serving" ELSE "dropped"
          [] status[r] # "answered" /\ r \notin begun ->
                IF \/ status[r] = "dropped"
                   \/ status[r] = "running" /\ ~alive /\ ~Running
                THEN "dropped" ELSE "waiting"]

Contract == INSTANCE ServiceContract WITH state <- ContractState

\* The API and the dispatcher together keep the contract: a request is
\* handled at most once, one at a time, and answered by its own handling
\* (callback() of cloudi.cpp, queue_requests and request_data of the
\* dispatcher).
KeepsContract == Contract!Spec

\* A request that was sent to the process is answered or given up, or the
\* process ends: also when the OS process dies, over UDP too, where only the
\* missing keepalive tells.
RequestsEnd ==
    \A r \in Requests :
        status[r] = "inflight" ~> \/ status[r] \in {"answered", "dropped"}
                                  \/ d.state = "stopped"

\* A call that waits does so without a timeout of its own (poll_request with
\* -1), and returns at last: with an answer, an error or because the service
\* is to terminate, or one of the two processes ends.  The dispatcher gives
\* the answer while the request whose callback made the call still runs.
CallsReturn ==
    \A c \in CallId :
        outcome[c] = "waiting" ~> \/ outcome[c] # "waiting"
                                  \/ ~alive
                                  \/ d.state = "stopped"

\* src/ChangeLog (2014-09-22): the terminate situation is a return value if a
\* request is processed, otherwise a return from the poll function occurs:
\* no thread that was told to terminate waits in cloudi_poll.
TerminateLeavesPoll == ~(InPoll /\ External /\ p.terminate)
=============================================================================
