------------------------------ MODULE CloudiAPI ------------------------------
(***************************************************************************)
(* The CloudI API of C and C++ (src/api/c/cloudi.cpp): one thread of an    *)
(* external service, its cloudi_instance_t and the socket that joins it to *)
(* its Erlang process.  A call of the API either only writes to the        *)
(* socket, or writes and then waits in poll_request for the answer;        *)
(* poll_request also runs the callbacks of the service requests it reads,  *)
(* and a callback may call the API again.  The control state is therefore  *)
(* a stack: what the thread is inside of, outermost first.  When the stack *)
(* is empty the service's main function runs.                              *)
(*                                                                         *)
(* The Erlang side is the module ExternalService.                          *)
(***************************************************************************)
EXTENDS Naturals, Sequences

CONSTANTS
    Requests,           \* the service requests other services send
    Patterns,           \* the service name patterns that are subscribed to
    PatternOf,          \* the pattern each request was matched with
    TypeOf,             \* "async" or "sync": how each request was sent
    Functions,          \* the callback functions of the service
    NullFunction,       \* the callback that gives an empty response
    NoRequest,
    Calls,              \* the calls the service makes that wait for an answer
    MaxCalls,           \* bound: how many of them
    MaxSubscribes,      \* bound: calls of subscribe
    MayFail,            \* whether a ::poll or a read may fail with the socket
                        \* open
    CallsBetweenPolls   \* whether the main function calls the API after a
                        \* poll that timed out, not only before the first

ASSUME APIAssumption ==
    /\ PatternOf \in [Requests -> Patterns]
    /\ TypeOf \in [Requests -> {"async", "sync"}]
    /\ NullFunction \notin Functions
    /\ NoRequest \notin Requests
    /\ Calls \subseteq {"subscribe_count", "send_async", "send_sync",
                         "mcast_async", "recv_async"}
    /\ MaxCalls \in Nat
    /\ MaxSubscribes \in Nat
    /\ MayFail \in BOOLEAN
    /\ CallsBetweenPolls \in BOOLEAN

VARIABLES
    p,              \* the cloudi_instance_t
    stack,          \* what the thread is inside of, outermost first
    alive,          \* the OS process runs
    main,           \* "start", or the last result the main function was given
    outcome,        \* how each waiting call of the service ended
    subscribes,     \* subscribe calls so far
    open,           \* the Erlang end of the socket is open
    to_api,         \* written by the Erlang process, not yet read
    to_dispatcher   \* written by the API, not yet read

socketVars == <<open, to_api, to_dispatcher>>
apiVars == <<p, stack, alive, main, outcome, subscribes>>

-----------------------------------------------------------------------------
(* Types                                                                   *)

CallId == 1 .. MaxCalls

\* The fields of cloudi_instance_t that outlive a call.
Instance == [
    use_header : BOOLEAN,
    initialization_complete : BOOLEAN,
    terminate : BOOLEAN,
    lookup : [Patterns -> Seq(Functions)],
    buffer_call : Requests \cup {NoRequest},
    process_count : Nat]

Frame == [
    kind : {"poll", "wait", "callback"},
    call : 0 .. MaxCalls,           \* "wait": the call; 0 is cloudi_initialize
    finite : BOOLEAN,               \* "poll": whether a timeout was given
    late : BOOLEAN,                 \* "poll": it may be over by now
    request : Requests \cup {NoRequest},
    function : Functions \cup {NullFunction}]

PollFrame(finite) ==
    [kind |-> "poll", call |-> 0, finite |-> finite, late |-> FALSE,
     request |-> NoRequest, function |-> NullFunction]

WaitFrame(c) ==
    [kind |-> "wait", call |-> c, finite |-> FALSE, late |-> FALSE,
     request |-> NoRequest, function |-> NullFunction]

CallbackFrame(r, f) ==
    [kind |-> "callback", call |-> 0, finite |-> FALSE, late |-> FALSE,
     request |-> r, function |-> f]

\* A call that waits asks for one of these and is answered by the message
\* next to it (MESSAGE_* of cloudi.cpp).
AnswerTo == [
    init            |-> "INIT",
    subscribe_count |-> "SUBSCRIBE_COUNT",
    send_async      |-> "RETURN_ASYNC",
    send_sync       |-> "RETURN_SYNC",
    mcast_async     |-> "RETURNS_ASYNC",
    recv_async      |-> "RECV_ASYNC"]

Answers == {AnswerTo[k] : k \in DOMAIN AnswerTo}

Blocking == DOMAIN AnswerTo \ {"init"}

\* Messages to the API.  "call" is what the trans_id identifies.
ToAPI ==
         [type : Answers, call : 0 .. MaxCalls, count : Nat]
    \cup [type : {"SEND"}, request : Requests]
    \cup [type : {"REINIT"}, count : Nat]
    \cup [type : {"KEEPALIVE", "TERM"}]

\* Messages to the Erlang process.
ToDispatcher ==
         [type : {"init", "polling", "keepalive", "shutdown"}]
    \cup [type : {"subscribe", "unsubscribe"}, pattern : Patterns]
    \cup [type : Blocking, call : CallId]
    \cup [type : {"return", "forward"}, request : Requests]

-----------------------------------------------------------------------------
(* The stack                                                               *)

Top == stack[Len(stack)]
Pop(s) == SubSeq(s, 1, Len(s) - 1)

\* A message was handled, in a part of the timeout that was given.
Spend(s) == [s EXCEPT ![Len(s)].late = s[Len(s)].finite]

\* The thread is in poll_request, waiting for the socket.
InPoll == alive /\ stack # <<>> /\ Top.kind \in {"poll", "wait"}

\* poll_request was called by cloudi_poll: its "external" argument.
External == Top.kind = "poll"

\* The thread runs a callback of the service.
InCallback ==
    /\ alive
    /\ stack # <<>>
    /\ Top.kind = "callback"
    /\ Top.function \in Functions

InMain == alive /\ stack = <<>>

\* The service may call the API: in a callback, and in its main function
\* before the first poll (or after any poll that timed out).
MayCall ==
    \/ InCallback
    \/ /\ InMain
       /\ \/ main = "initialized"
          \/ main = "timeout" /\ CallsBetweenPolls

-----------------------------------------------------------------------------
(* The socket                                                              *)

\* write_exact: a write to a closed stream socket fails; a datagram for a
\* closed port is lost, or the write reports the refusal of an earlier one.
WriteOk == open \/ ~p.use_header
WriteFails == ~open

Written(m) == IF open THEN Append(to_dispatcher, m) ELSE to_dispatcher

\* read_all: with a header one message is read.  Without one, a datagram of
\* exactly buffer_size bytes is taken for a part, and if another one is
\* ready it is read behind it; only messages that carry data or a list can
\* be that long.
CarriesData == {"SEND", "INIT", "RETURN_SYNC", "RECV_ASYNC", "RETURNS_ASYNC"}

read_all ==
    {n \in 1 .. 2 :
        /\ n <= Len(to_api)
        /\ n = 2 => ~p.use_header /\ to_api[1].type \in CarriesData}

-----------------------------------------------------------------------------
(* callback_function_lookup                                                *)

insert(lookup, pattern, f) == [lookup EXCEPT ![pattern] = Append(@, f)]

remove(lookup, pattern) == [lookup EXCEPT ![pattern] = Tail(@)]

\* The function that was next, and the queue with it moved to the back.
cycle(q) ==
    IF Len(q) <= 1 THEN q ELSE Append(Tail(q), Head(q))

find(lookup, pattern) ==
    IF lookup[pattern] = <<>> THEN NullFunction ELSE Head(lookup[pattern])

-----------------------------------------------------------------------------
(* Leaving poll_request                                                    *)

\* A waiting call ends in what is left of the stack.  The main function
\* ends the service when a call of its own fails; a callback may go on.
CallReturns(c, result, s) ==
    /\ outcome' = [outcome EXCEPT ![c] = result]
    /\ main' = IF result = "error" /\ s = <<>> THEN "error" ELSE main

\* The result goes to the call that entered poll_request: to the main
\* function for cloudi_poll and cloudi_initialize, else to the waiting call.
PollReturns(result) ==
    /\ stack' = Pop(stack)
    /\ IF External \/ Top.call = 0
       THEN /\ main' = IF result \in {"own", "other"}
                       THEN "initialized" ELSE result
            /\ UNCHANGED outcome
       ELSE CallReturns(Top.call, result, Pop(stack))

\* A failed assert throws, which ends the process: a callback that called
\* the API would catch it as any std::exception, but a request is only read
\* when no callback runs (RequestIntact of ExternalService).
Raises == stack' = <<>> /\ alive' = FALSE /\ UNCHANGED <<main, outcome>>

-----------------------------------------------------------------------------
(* Entering and leaving the API                                            *)

Init ==
    /\ p \in [use_header : BOOLEAN,
              initialization_complete : {FALSE}, terminate : {FALSE},
              lookup : {[x \in Patterns |-> <<>>]},
              buffer_call : {NoRequest}, process_count : {0}]
    /\ stack = <<>>
    /\ alive = TRUE
    /\ main = "start"
    /\ outcome = [c \in CallId |-> "unused"]
    /\ subscribes = 0
    /\ open = TRUE
    /\ to_api = <<>>
    /\ to_dispatcher = <<>>

\* cloudi_initialize: announce the thread and wait for MESSAGE_INIT; the
\* polls of one second it repeats change nothing.
cloudi_initialize ==
    /\ InMain
    /\ main = "start"
    /\ \/ /\ WriteOk
          /\ to_dispatcher' = Written([type |-> "init"])
          /\ stack' = <<WaitFrame(0)>>
          /\ UNCHANGED main
       \/ /\ WriteFails
          /\ main' = "error"
          /\ UNCHANGED <<to_dispatcher, stack>>
    /\ UNCHANGED <<p, alive, outcome, subscribes, open, to_api>>

\* The main function has been given a result that ends the service: it calls
\* cloudi_destroy, which closes the socket, and exits.
cloudi_destroy ==
    /\ InMain
    /\ main \notin {"start", "initialized", "timeout"}
    /\ alive' = FALSE
    /\ UNCHANGED <<p, stack, main, outcome, subscribes, socketVars>>

\* The process dies: in code of the service, or by a signal of another.
Dies ==
    /\ alive
    /\ alive' = FALSE
    /\ stack' = <<>>
    /\ UNCHANGED <<p, main, outcome, subscribes>>

cloudi_subscribe(pattern, f) ==
    /\ MayCall
    /\ subscribes < MaxSubscribes
    /\ subscribes' = subscribes + 1
    /\ p' = [p EXCEPT !.lookup = insert(@, pattern, f)]
    /\ to_dispatcher' = Written([type |-> "subscribe", pattern |-> pattern])
    /\ UNCHANGED <<stack, alive, main, outcome, open, to_api>>

cloudi_unsubscribe(pattern) ==
    /\ MayCall
    /\ p.lookup[pattern] # <<>>     \* else cloudi_error_function_parameter
    /\ p' = [p EXCEPT !.lookup = remove(@, pattern)]
    /\ to_dispatcher' = Written([type |-> "unsubscribe", pattern |-> pattern])
    /\ UNCHANGED <<stack, alive, main, outcome, subscribes, open, to_api>>

cloudi_shutdown ==
    /\ MayCall
    /\ open
    /\ \A n \in 1 .. Len(to_dispatcher) :      \* bound: one is never read twice
            to_dispatcher[n].type # "shutdown"
    /\ to_dispatcher' = Written([type |-> "shutdown"])
    /\ UNCHANGED <<apiVars, open, to_api>>

\* A call that waits: write, then poll_request(p, -1, 0), which returns
\* cloudi_success at once if the service was told to terminate.
Waits(kind, c) ==
    /\ MayCall
    /\ kind \in Calls
    /\ outcome[c] = "unused"
    /\ \A d \in 1 .. c - 1 : outcome[d] # "unused"
    /\ \/ /\ WriteFails
          /\ CallReturns(c, "error", stack)
          /\ UNCHANGED <<to_dispatcher, stack>>
       \/ /\ WriteOk
          /\ to_dispatcher' = Written([type |-> kind, call |-> c])
          /\ UNCHANGED main
          /\ IF p.terminate
             THEN /\ outcome' = [outcome EXCEPT ![c] = "unanswered"]
                  /\ UNCHANGED stack
             ELSE /\ outcome' = [outcome EXCEPT ![c] = "waiting"]
                  /\ stack' = Append(stack, WaitFrame(c))
    /\ UNCHANGED <<p, alive, subscribes, open, to_api>>

cloudi_subscribe_count(c) == Waits("subscribe_count", c)
cloudi_send_async(c) == Waits("send_async", c)
cloudi_send_sync(c) == Waits("send_sync", c)
cloudi_mcast_async(c) == Waits("mcast_async", c)
cloudi_recv_async(c) == Waits("recv_async", c)

\* cloudi_poll, up to the first ::poll of poll_request.
cloudi_poll(finite) ==
    /\ InMain
    /\ main \in {"initialized", "timeout"}
    /\ IF p.terminate
       THEN /\ main' = "success"
            /\ UNCHANGED <<p, stack, to_dispatcher>>
       ELSE IF p.initialization_complete
       THEN /\ stack' = <<PollFrame(finite)>>
            /\ UNCHANGED <<p, main, to_dispatcher>>
       ELSE \/ /\ WriteOk
               /\ to_dispatcher' = Written([type |-> "polling"])
               /\ p' = [p EXCEPT !.initialization_complete = TRUE]
               /\ stack' = <<PollFrame(finite)>>
               /\ UNCHANGED main
            \/ /\ WriteFails
               /\ main' = "error"
               /\ UNCHANGED <<p, stack, to_dispatcher>>
    /\ UNCHANGED <<alive, outcome, subscribes, open, to_api>>

-----------------------------------------------------------------------------
(* poll_request: one read of the socket                                    *)

\* keepalive(), and how its write may end.
keepalive ==
    (IF WriteOk THEN {<<Written([type |-> "keepalive"]), "none">>} ELSE {})
    \cup (IF WriteFails THEN {<<to_dispatcher, "error">>} ELSE {})

\* Mutant: a REINIT behind another message is skipped over.
handle_events_skips(q, e) ==
    CASE e.type = "TERM" ->
            {[p |-> [q EXCEPT !.terminate = TRUE], sent |-> to_dispatcher,
              result |-> IF External THEN "success" ELSE "terminate"]}
      [] e.type \in {"REINIT", "KEEPALIVE"} ->
            {[p |-> q, sent |-> to_dispatcher, result |-> "none"]}
      [] OTHER ->
            {[p |-> q, sent |-> to_dispatcher, result |-> "error"]}

\* handle_events for the message e: the instance, what is then written, and
\* the result poll_request returns ("none": it goes on).
handle_events(q, e) ==
    CASE e.type = "TERM" ->
            {[p |-> [q EXCEPT !.terminate = TRUE], sent |-> to_dispatcher,
              result |-> IF External THEN "success" ELSE "terminate"]}
      [] e.type = "REINIT" ->
            {[p |-> [q EXCEPT !.process_count = e.count],
              sent |-> to_dispatcher, result |-> "none"]}
      [] e.type = "KEEPALIVE" ->
            {[p |-> q, sent |-> k[1], result |-> k[2]] : k \in keepalive}
      [] OTHER ->
            {[p |-> q, sent |-> to_dispatcher, result |-> "error"]}

\* What is left in the buffer behind the first of n messages.
Leftover(q, n) ==
    IF n = 1
    THEN {[p |-> q, sent |-> to_dispatcher, result |-> "none"]}
    ELSE handle_events(q, to_api[2])

\* n messages are read, the first of a type in types.
Reads(n, types) ==
    /\ InPoll
    /\ n \in read_all
    /\ to_api[1].type \in types
    /\ to_api' = SubSeq(to_api, n + 1, Len(to_api))
    /\ UNCHANGED <<subscribes, open>>

\* MESSAGE_SEND_ASYNC, MESSAGE_SEND_SYNC: the request is copied to
\* buffer_call and, unless a TERM or an error was read behind it, the next
\* function of its pattern is called.
ReadSend(n) ==
    LET r == to_api[1].request
        q == [p EXCEPT !.buffer_call = r]
        f == find(q.lookup, PatternOf[r])
    IN  /\ Reads(n, {"SEND"})
        /\ IF n = 2 /\ ~External              \* assert(external)
           THEN p' = q /\ Raises /\ UNCHANGED to_dispatcher
           ELSE /\ \E e \in Leftover(q, n) :
                    /\ to_dispatcher' = e.sent
                    /\ IF e.result # "none"
                       THEN p' = e.p /\ PollReturns(e.result)
                       ELSE /\ p' = [e.p EXCEPT
                                        !.lookup[PatternOf[r]] = cycle(@)]
                            /\ stack' = Append(Spend(stack), CallbackFrame(r, f))
                            /\ UNCHANGED <<main, outcome>>
                /\ UNCHANGED alive

\* The answer of a waiting call.  Whichever call waits takes it.
ReadAnswer(n) ==
    LET m == to_api[1]
        q == IF m.type = "INIT"
             THEN [p EXCEPT !.process_count = m.count] ELSE p
        given == IF m.call = Top.call THEN "own" ELSE "other"
    IN  /\ Reads(n, Answers)
        /\ IF n = 2 /\ External               \* assert(! external)
           THEN p' = q /\ Raises /\ UNCHANGED to_dispatcher
           ELSE /\ \E e \in Leftover(q, n) :
                    /\ p' = e.p
                    /\ to_dispatcher' = e.sent
                    /\ PollReturns(IF e.result # "none" THEN e.result
                                   ELSE IF External THEN "success"
                                   ELSE given)
                /\ UNCHANGED alive

\* MESSAGE_TERM
ReadTerm ==
    /\ Reads(1, {"TERM"})
    /\ \E e \in handle_events(p, to_api[1]) :
            p' = e.p /\ to_dispatcher' = e.sent /\ PollReturns(e.result)
    /\ UNCHANGED alive

\* Mutant: the request a callback works on is read from buffer_recv, which
\* the next message overwrites.
ReadReinitOverwrites ==
    /\ Reads(1, {"REINIT"})
    /\ p' = [p EXCEPT !.process_count = to_api[1].count,
                      !.buffer_call = NoRequest]
    /\ stack' = Spend(stack)
    /\ UNCHANGED <<alive, main, outcome, to_dispatcher>>

\* MESSAGE_REINIT, and on to the next ::poll.
ReadReinit ==
    /\ Reads(1, {"REINIT"})
    /\ p' = [p EXCEPT !.process_count = to_api[1].count]
    /\ stack' = Spend(stack)
    /\ UNCHANGED <<alive, main, outcome, to_dispatcher>>

\* MESSAGE_KEEPALIVE.  If the write fails "return false" is executed, the
\* value of cloudi_success.
ReadKeepalive ==
    /\ Reads(1, {"KEEPALIVE"})
    /\ \E k \in keepalive :
        /\ to_dispatcher' = k[1]
        /\ IF k[2] = "none"
           THEN stack' = Spend(stack) /\ UNCHANGED <<main, outcome>>
           ELSE PollReturns(IF External THEN "success"
                            ELSE IF Top.call = 0 THEN "initialized"
                            ELSE "unanswered")
    /\ UNCHANGED <<p, alive>>

\* The Erlang end was closed and everything was read: cloudi_error_read_null.
\* A datagram socket tells nothing.
ReadNull ==
    /\ InPoll
    /\ p.use_header
    /\ ~open
    /\ to_api = <<>>
    /\ PollReturns("error")
    /\ UNCHANGED <<p, alive, subscribes, socketVars>>

\* ::poll fails (errno_poll, EINTR too), or the read of a message that has
\* arrived does, or reads nothing: the error is returned and the message is
\* still there, so the answer of a call is left for whatever reads next.  An
\* error in the middle of a message is not modelled.
PollFails ==
    /\ MayFail
    /\ InPoll
    /\ PollReturns("error")
    /\ UNCHANGED <<p, alive, subscribes, socketVars>>

\* ::poll waited for the timeout given, or what was handled before it took
\* that long; then the socket is not looked at again.
PollTimeout ==
    /\ InPoll
    /\ Top.finite
    /\ to_api = <<>> \/ Top.late
    /\ PollReturns("timeout")
    /\ UNCHANGED <<p, alive, subscribes, socketVars>>

-----------------------------------------------------------------------------
(* callback(): how the handling of a request ends                          *)

\* cloudi_return_ or cloudi_forward_ for the request of the callback, as one
\* of the given kind (which the messages here leave out); if the write fails
\* the callback only gets an error.  Success is thrown: callback() returns
\* if the kind is that of the request, and fails an assert otherwise.
Answered(type, kind) ==
    /\ InCallback
    /\ WriteOk
    /\ to_dispatcher' = Written([type |-> type, request |-> Top.request])
    /\ IF kind = TypeOf[Top.request]
       THEN stack' = Pop(stack) /\ UNCHANGED <<alive, main, outcome>>
       ELSE Raises
    /\ UNCHANGED <<p, subscribes, open, to_api>>

cloudi_return == Answered("return", TypeOf[Top.request])
cloudi_return_async == Answered("return", "async")
cloudi_return_sync == Answered("return", "sync")
cloudi_forward == Answered("forward", TypeOf[Top.request])
cloudi_forward_async == Answered("forward", "async")
cloudi_forward_sync == Answered("forward", "sync")

\* The callback returns or throws, or was null_response: an empty response
\* is returned, and the assert that follows fails if that could not be
\* written.
callback ==
    /\ alive
    /\ stack # <<>>
    /\ Top.kind = "callback"
    /\ \/ /\ WriteOk
          /\ to_dispatcher' = Written([type |-> "return",
                                       request |-> Top.request])
          /\ stack' = Pop(stack)
          /\ UNCHANGED <<alive, main, outcome>>
       \/ /\ WriteFails
          /\ Raises
          /\ UNCHANGED to_dispatcher
    /\ UNCHANGED <<p, subscribes, open, to_api>>

-----------------------------------------------------------------------------
(* The steps of the thread                                                 *)

\* The socket is looked at, and what is there is read.
PollRead ==
    \/ \E n \in 1 .. 2 : ReadSend(n) \/ ReadAnswer(n)
    \/ ReadTerm
    \/ ReadReinit
    \/ ReadKeepalive
    \/ ReadNull
    \/ PollTimeout

PollRequest == PollRead \/ PollFails

ServiceCode ==
    \/ \E x \in Patterns :
          \/ \E f \in Functions : cloudi_subscribe(x, f)
          \/ cloudi_unsubscribe(x)
    \/ \E c \in CallId :
          \/ cloudi_subscribe_count(c)
          \/ cloudi_send_async(c)
          \/ cloudi_send_sync(c)
          \/ cloudi_mcast_async(c)
          \/ cloudi_recv_async(c)
    \/ cloudi_shutdown
    \/ cloudi_return
    \/ cloudi_return_async
    \/ cloudi_return_sync
    \/ cloudi_forward
    \/ cloudi_forward_async
    \/ cloudi_forward_sync
    \/ callback
    \/ cloudi_initialize
    \/ \E finite \in BOOLEAN : cloudi_poll(finite)
    \/ cloudi_destroy
=============================================================================
