------------------------ MODULE ExternalService_proofs ------------------------
(***************************************************************************)
(* Proofs about ExternalService, for any set of requests, patterns and     *)
(* calls.  The request the dispatcher gave the OS process is followed from *)
(* the socket into the callback and back to the socket: in each of these   *)
(* three places there is at most that one request, and it is in one of     *)
(* them only.  The subscriptions and the process count are followed        *)
(* through the messages that carry them, up to those not read yet.         *)
(***************************************************************************)
EXTENDS ExternalService, TLAPS, FiniteSetTheorems, FunctionTheorems,
        SequenceTheorems, NaturalsInduction, WellFoundedInduction

-----------------------------------------------------------------------------
(* The inductive invariant                                                 *)

\* The positions in q of the messages of the given types, whether there is
\* only one of them, and the requests they carry.
Of(q, types) == {n \in 1 .. Len(q) : q[n].type \in types}
One(q, types) == \A m, n \in Of(q, types) : m = n
Carried(q, types) == {q[n].request : n \in Of(q, types)}

Unread == Carried(to_api, {"SEND"})
Replies == Carried(to_dispatcher, {"return", "forward"})

\* The types, but for the bound of joined.
Typed ==
    /\ p \in Instance
    /\ stack \in Seq(Frame)
    /\ alive \in BOOLEAN
    /\ main \in {"start", "initialized", "timeout", "success", "terminate",
                 "error"}
    /\ outcome \in [CallId -> {"unused", "waiting", "own", "other",
                               "unanswered", "terminate", "error"}]
    /\ subscribes \in 0 .. MaxSubscribes
    /\ open \in BOOLEAN
    /\ to_api \in Seq(ToAPI)
    /\ to_dispatcher \in Seq(ToDispatcher)
    /\ d \in Dispatcher
    /\ status \in [Requests -> Status]
    /\ joined \in [Patterns -> Nat]
    /\ outstanding \subseteq [type : Blocking, call : CallId]
    /\ begun \subseteq Requests

\* What the thread may be inside of: poll_request, a callback it called, and
\* a call of that callback.
Nested(s) ==
    /\ Len(s) <= 3
    /\ Len(s) >= 1 => s[1].kind \in {"poll", "wait"}
    /\ Len(s) >= 2 => s[2].kind = "callback" /\ s[2].request \in Requests
    /\ Len(s) >= 3 => s[3].kind = "wait" /\ s[3].call # 0
    /\ \A k \in 1 .. Len(s) : s[k].finite => s[k].kind = "poll"

\* The main function is not in the API once it was given a result that ends
\* the service, and it polls after it was initialized.
Nesting ==
    /\ Nested(stack)
    /\ stack # <<>> /\ stack[1].kind = "poll" => main # "start"
    /\ stack # <<>> /\ stack[1].kind = "wait" /\ stack[1].call = 0 =>
          main = "start"
    /\ stack # <<>> => alive /\ main \in {"start", "initialized", "timeout"}
    /\ main = "start" => ~p.initialization_complete

\* Nothing is dispatched before the first cloudi_poll was announced, which
\* happens once, nor while a request is handled.
Dispatching ==
    /\ Running => open
    /\ d.state \in {"CONNECT", "INIT_WAIT"} => d.init_timer
    /\ ~p.initialization_complete => d.init_timer
    /\ d.init_timer => d.queue_requests /\ d.request_data = NoRequest
    /\ ~d.queue_requests => d.request_data = NoRequest
    /\ One(to_dispatcher, {"polling"})
    /\ Of(to_dispatcher, {"polling"}) # {} =>
          p.initialization_complete /\ d.init_timer
    /\ \A r \in Requests : status[r] = "running" <=> r = d.request_data

\* The request in the OS process is request_data, in one place only.
Followed ==
    /\ One(to_api, {"SEND"})
    /\ One(to_dispatcher, {"return", "forward"})
    /\ Unread \cup Serving \cup Replies \subseteq {d.request_data}
    /\ Unread \cap begun = {}
    /\ Serving \cup Replies \subseteq begun
    /\ Serving \cap Replies = {}
    /\ \A r \in begun : status[r] \in {"running", "answered"}

\* It is only in none of them when the OS process left its poll loop.
Lost ==
    Handling /\ d.request_data # NoRequest
             /\ Unread \cup Serving \cup Replies = {} =>
        ~alive \/ main \in {"success", "terminate", "error"}

IInv == Typed /\ Nesting /\ Dispatching /\ Followed /\ RequestIntact /\ Lost

-----------------------------------------------------------------------------
(* Messages in a sequence                                                  *)

LEMMA CarriedNone ==
    ASSUME NEW q, NEW types
    PROVE  Carried(q, types) = {} <=> Of(q, types) = {}
BY DEF Carried

(* A message of another type is written.                                   *)
LEMMA AppendOther ==
    ASSUME NEW S, NEW q \in Seq(S), NEW m \in S, NEW types,
           m.type \notin types
    PROVE  /\ Of(Append(q, m), types) = Of(q, types)
           /\ Carried(Append(q, m), types) = Carried(q, types)
<1>1. /\ Len(q) \in Nat /\ Len(Append(q, m)) = Len(q) + 1
      /\ \A n \in 1 .. Len(q) : Append(q, m)[n] = q[n]
      /\ Append(q, m)[Len(q) + 1] = m
  OBVIOUS
<1>2. Of(Append(q, m), types) = Of(q, types)
  BY <1>1 DEF Of
<1>3. \A n \in Of(q, types) : Append(q, m)[n] = q[n]
  BY <1>1 DEF Of
<1> QED  BY <1>2, <1>3 DEF Carried

(* The only message of its type is written.                                *)
LEMMA AppendOnly ==
    ASSUME NEW S, NEW q \in Seq(S), NEW m \in S, NEW types,
           m.type \in types, Of(q, types) = {}
    PROVE  /\ Of(Append(q, m), types) = {Len(q) + 1}
           /\ One(Append(q, m), types)
           /\ Carried(Append(q, m), types) = {m.request}
<1>1. /\ Len(q) \in Nat /\ Len(Append(q, m)) = Len(q) + 1
      /\ \A n \in 1 .. Len(q) : Append(q, m)[n] = q[n]
      /\ Append(q, m)[Len(q) + 1] = m
  OBVIOUS
<1>2. Of(Append(q, m), types) = {Len(q) + 1}
  BY <1>1 DEF Of
<1> QED  BY <1>1, <1>2 DEF Carried, One

(* The first k messages are read.                                          *)
LEMMA ReadFirst ==
    ASSUME NEW S, NEW q \in Seq(S), NEW types, NEW k \in 1 .. Len(q)
    PROVE  LET rest == SubSeq(q, k + 1, Len(q))
           IN  /\ rest \in Seq(S)
               /\ One(q, types) => One(rest, types)
               /\ Carried(rest, types) \subseteq Carried(q, types)
               /\ Of(q, types) = {} => Of(rest, types) = {}
               /\ (\A n \in 1 .. k : q[n].type \notin types) =>
                     Carried(rest, types) = Carried(q, types)
               /\ One(q, types) /\ (\E n \in 1 .. k : q[n].type \in types) =>
                     Of(rest, types) = {} /\ Carried(rest, types) = {}
<1> DEFINE rest == SubSeq(q, k + 1, Len(q))
<1>1. /\ rest \in Seq(S) /\ Len(q) \in Nat /\ k \in Nat
      /\ k <= Len(q) /\ k >= 1
      /\ Len(rest) = Len(q) - k
      /\ \A n \in 1 .. Len(q) - k : rest[n] = q[n + k]
  OBVIOUS
<1> HIDE DEF rest
<1>2. \A n \in Of(rest, types) : n + k \in Of(q, types) /\ rest[n] = q[n + k]
                                 /\ n \in Nat
  BY <1>1 DEF Of
<1>3. \A n \in Of(q, types) : n > k => n - k \in Of(rest, types)
                                       /\ rest[n - k] = q[n]
  BY <1>1 DEF Of
<1>4. One(q, types) => One(rest, types)
  BY <1>1, <1>2 DEF One
<1>5. Carried(rest, types) \subseteq Carried(q, types)
  BY <1>2 DEF Carried
<1>6. Of(q, types) = {} => Of(rest, types) = {}
  BY <1>2
<1>7. ASSUME \A n \in 1 .. k : q[n].type \notin types
      PROVE  Carried(q, types) \subseteq Carried(rest, types)
  <2>1. \A n \in Of(q, types) : n > k
    BY <1>1, <1>7 DEF Of
  <2> QED  BY <1>3, <2>1 DEF Carried
<1>8. ASSUME One(q, types), NEW n \in 1 .. k, q[n].type \in types
      PROVE  Of(rest, types) = {}
  <2>1. n \in Of(q, types) /\ n \in Nat
    BY <1>1, <1>8 DEF Of
  <2>2. \A j \in Of(rest, types) : j + k = n /\ j \in Nat /\ j >= 1
    BY <1>1, <1>2, <1>8, <2>1 DEF One, Of
  <2> QED  BY <1>1, <2>2
<1> QED
  BY <1>1, <1>4, <1>5, <1>6, <1>7, <1>8, CarriedNone DEF rest

-----------------------------------------------------------------------------
(* What is read and written                                                *)

LEMMA Events ==
    ASSUME p \in Instance, to_dispatcher \in Seq(ToDispatcher),
           NEW q \in Instance, NEW m \in ToAPI, NEW e \in handle_events(q, m)
    PROVE  /\ e.p \in Instance
           /\ e.p.buffer_call = q.buffer_call
           /\ e.p.initialization_complete = q.initialization_complete
           /\ e.sent \in {to_dispatcher, Written([type |-> "keepalive"])}
           /\ e.result \in {"none", "success", "terminate", "error"}
           /\ m.type = "SEND" => e.result = "error"
<1>1. CASE m.type = "TERM"
  <2>1. e = [p |-> [q EXCEPT !.terminate = TRUE], sent |-> to_dispatcher,
             result |-> IF External THEN "success" ELSE "terminate"]
    BY <1>1 DEF handle_events
  <2> QED  BY <1>1, <2>1 DEF Instance
<1>2. CASE m.type = "REINIT"
  <2>1. e = [p |-> [q EXCEPT !.process_count = m.count],
              sent |-> to_dispatcher, result |-> "none"]
    BY <1>2 DEF handle_events
  <2>2. m.count \in Nat
    BY <1>2 DEF ToAPI, Answers, AnswerTo
  <2> QED  BY <1>2, <2>1, <2>2 DEF Instance
<1>3. CASE m.type = "KEEPALIVE"
  <2>1. PICK k \in keepalive : e = [p |-> q, sent |-> k[1], result |-> k[2]]
    BY <1>3 DEF handle_events
  <2>2. \/ k = <<Written([type |-> "keepalive"]), "none">>
        \/ k = <<to_dispatcher, "error">>
    BY DEF keepalive
  <2> QED  BY <1>3, <2>1, <2>2
<1>4. CASE m.type \notin {"TERM", "REINIT", "KEEPALIVE"}
  <2>1. e = [p |-> q, sent |-> to_dispatcher, result |-> "error"]
    BY <1>4 DEF handle_events
  <2> QED  BY <2>1
<1> QED  BY <1>1, <1>2, <1>3, <1>4

-----------------------------------------------------------------------------
(* The stack                                                               *)

\* The request of the callback on the stack s.
ServedBy(s) == IF Len(s) >= 2 THEN {s[2].request} ELSE {}

LEMMA ServingIs ==
    ASSUME NEW s \in Seq(Frame), Nested(s)
    PROVE  {s[n].request : n \in {k \in 1 .. Len(s) : s[k].kind = "callback"}}
           = ServedBy(s)
<1>1. Len(s) \in Nat /\ Len(s) <= 3
  BY DEF Nested
<1>2. {k \in 1 .. Len(s) : s[k].kind = "callback"} =
         IF Len(s) >= 2 THEN {2} ELSE {}
  <2>1. ASSUME NEW k \in 1 .. Len(s), s[k].kind = "callback"
        PROVE  k = 2
    <3>1. k \in {1, 2, 3}
      BY <1>1
    <3>2. k # 1
      BY <1>1, <2>1 DEF Nested
    <3>3. k # 3
      BY <1>1, <2>1 DEF Nested
    <3> QED  BY <3>1, <3>2, <3>3
  <2>2. Len(s) >= 2 => 2 \in 1 .. Len(s) /\ s[2].kind = "callback"
    BY <1>1 DEF Nested
  <2> QED  BY <1>1, <2>1, <2>2
<1> QED  BY <1>1, <1>2 DEF ServedBy

LEMMA PopIs ==
    ASSUME NEW s \in Seq(Frame), s # <<>>
    PROVE  /\ Pop(s) \in Seq(Frame) /\ Len(Pop(s)) = Len(s) - 1
           /\ Len(s) \in Nat /\ Len(s) >= 1
           /\ \A k \in 1 .. Len(s) - 1 : Pop(s)[k] = s[k]
           /\ Len(s) <= 1 => Pop(s) = <<>>
<1>1. Len(s) \in Nat /\ Len(s) >= 1
  OBVIOUS
<1>2. ASSUME NEW n \in Nat, n >= 1, \A k \in 1 .. n - 1 : s[k] \in Frame
      PROVE  LET t == SubSeq(s, 1, n - 1)
             IN  /\ t \in Seq(Frame) /\ Len(t) = n - 1
                 /\ \A k \in 1 .. n - 1 : t[k] = s[k]
                 /\ n <= 1 => t = <<>>
  <2> DEFINE t == SubSeq(s, 1, n - 1)
  <2>1. n - 1 \in Int /\ 1 \in Int /\ n - 1 \in Nat
    BY <1>2
  <2>2. /\ t \in Seq(Frame)
        /\ Len(t) = IF 1 <= n - 1 THEN n - 1 - 1 + 1 ELSE 0
        /\ \A k \in 1 .. n - 1 - 1 + 1 : t[k] = s[1 + k - 1]
    BY <1>2, <2>1, SubSeqProperties
  <2>3. n <= 1 => t = <<>>
    BY <2>1, SubSeqEmpty
  <2> HIDE DEF t
  <2> QED  BY <2>1, <2>2, <2>3 DEF t
<1>3. \A k \in 1 .. Len(s) - 1 : s[k] \in Frame
  BY <1>1
<1> QED  BY <1>1, <1>2, <1>3 DEF Pop

LEMMA SpendIs ==
    ASSUME NEW s \in Seq(Frame), s # <<>>
    PROVE  /\ Spend(s) \in Seq(Frame) /\ Len(Spend(s)) = Len(s)
           /\ Len(s) \in Nat /\ Len(s) >= 1
           /\ \A k \in 1 .. Len(s) :
                 /\ Spend(s)[k].kind = s[k].kind
                 /\ Spend(s)[k].call = s[k].call
                 /\ Spend(s)[k].finite = s[k].finite
                 /\ Spend(s)[k].request = s[k].request
<1>1. /\ Len(s) \in Nat /\ Len(s) >= 1 /\ Len(s) \in 1 .. Len(s)
      /\ \A k \in 1 .. Len(s) : s[k] \in Frame
  OBVIOUS
<1>2. [s[Len(s)] EXCEPT !.late = s[Len(s)].finite] \in Frame
  BY <1>1 DEF Frame
<1>3. /\ Spend(s) \in Seq(Frame) /\ Len(Spend(s)) = Len(s)
      /\ \A k \in 1 .. Len(s) :
            Spend(s)[k] = IF k = Len(s)
                          THEN [s[k] EXCEPT !.late = s[k].finite] ELSE s[k]
  BY <1>1, <1>2 DEF Spend
<1> QED  BY <1>1, <1>3 DEF Frame

LEMMA NestedPop ==
    ASSUME NEW s \in Seq(Frame), Nested(s), s # <<>>
    PROVE  Nested(Pop(s))
<1>1. /\ Pop(s) \in Seq(Frame) /\ Len(Pop(s)) = Len(s) - 1
      /\ Len(s) \in Nat /\ Len(s) >= 1
      /\ \A k \in 1 .. Len(s) - 1 : Pop(s)[k] = s[k]
  BY PopIs
<1> QED  BY <1>1 DEF Nested

LEMMA NestedSpend ==
    ASSUME NEW s \in Seq(Frame), Nested(s), s # <<>>
    PROVE  Nested(Spend(s)) /\ ServedBy(Spend(s)) = ServedBy(s)
<1>1. /\ Spend(s) \in Seq(Frame) /\ Len(Spend(s)) = Len(s)
      /\ Len(s) \in Nat /\ Len(s) >= 1
      /\ \A k \in 1 .. Len(s) :
                 /\ Spend(s)[k].kind = s[k].kind
                 /\ Spend(s)[k].call = s[k].call
                 /\ Spend(s)[k].finite = s[k].finite
                 /\ Spend(s)[k].request = s[k].request
  BY SpendIs
<1> HIDE DEF Spend
<1>2. Len(s) >= 2 => 1 \in 1 .. Len(s) /\ 2 \in 1 .. Len(s)
  BY <1>1
<1>3. Len(s) >= 3 => 3 \in 1 .. Len(s)
  BY <1>1
<1>4. Len(s) >= 1 => 1 \in 1 .. Len(s)
  BY <1>1
<1>5. Nested(Spend(s))
  BY <1>1, <1>2, <1>3, <1>4 DEF Nested
<1> QED  BY <1>1, <1>2, <1>5 DEF ServedBy

LEMMA FrameTypes ==
    /\ \A f \in BOOLEAN : PollFrame(f) \in Frame
    /\ \A c \in 0 .. MaxCalls : WaitFrame(c) \in Frame
    /\ \A r \in Requests : \A f \in Functions \cup {NullFunction} :
          CallbackFrame(r, f) \in Frame
BY APIAssumption DEF Frame, PollFrame, WaitFrame, CallbackFrame

-----------------------------------------------------------------------------
(* The steps of the thread                                                 *)

Answering == {"return", "forward"}

LEMMA OneOf ==
    ASSUME NEW q, NEW t, NEW types, Of(q, types) = Of(t, types), One(t, types)
    PROVE  One(q, types)
BY DEF One

(* What is written besides answers and the first poll.                     *)
LEMMA WrittenOther ==
    ASSUME to_dispatcher \in Seq(ToDispatcher), NEW m \in ToDispatcher,
           m.type \notin Answering \cup {"polling"}
    PROVE  LET w == Written(m)
           IN  /\ w \in Seq(ToDispatcher)
               /\ Of(w, {"polling"}) = Of(to_dispatcher, {"polling"})
               /\ Of(w, Answering) = Of(to_dispatcher, Answering)
               /\ Carried(w, Answering) = Carried(to_dispatcher, Answering)
<1>1. CASE open
  <2>1. Written(m) = Append(to_dispatcher, m)
    BY <1>1 DEF Written
  <2>2. Append(to_dispatcher, m) \in Seq(ToDispatcher)
    OBVIOUS
  <2>3. m.type \notin Answering /\ m.type \notin {"polling"}
    OBVIOUS
  <2> QED  BY <2>1, <2>2, <2>3, AppendOther
<1>2. CASE ~open
  BY <1>2 DEF Written
<1> QED  BY <1>1, <1>2

LEMMA UnreadTypes ==
    ASSUME to_api \in Seq(ToAPI)
    PROVE  Unread \subseteq Requests
<1>1. ASSUME NEW n \in Of(to_api, {"SEND"})
      PROVE  to_api[n].request \in Requests
  <2>1. to_api[n] \in ToAPI /\ to_api[n].type = "SEND"
    BY DEF Of
  <2> QED  BY <2>1 DEF ToAPI, Answers, AnswerTo
<1> QED  BY <1>1 DEF Unread, Carried

\* The invariant is kept, and the request only moves on: from the socket to
\* a callback, and from there to the socket back.
Keeps ==
    /\ IInv'
    /\ Serving' \subseteq Serving \cup Unread
    /\ Replies' \subseteq Replies \cup Serving

(* What a step of the thread must keep to keep the invariant.              *)
LEMMA ThreadKeeps ==
    ASSUME IInv, Typed', Nesting',
           UNCHANGED <<dispatcherVars, open>>,
           begun' = begun \cup Serving',
           One(to_api', {"SEND"}), One(to_dispatcher', Answering),
           Unread' \subseteq Unread,
           Serving' \subseteq Serving \cup Unread,
           Unread' \cap Serving' = {},
           Replies' \subseteq Replies \cup Serving,
           Serving' \cap Replies' = {},
           RequestIntact',
           One(to_dispatcher', {"polling"}),
           Of(to_dispatcher', {"polling"}) # {} =>
              p'.initialization_complete /\ d.init_timer,
           p.initialization_complete => p'.initialization_complete,
           Lost'
    PROVE  Keeps
<1>1. Dispatching'
  BY DEF IInv, Dispatching, dispatcherVars, Running, Handling, Typed, Instance
<1>2. Followed'
  <2>1. Followed /\ Dispatching /\ begun \subseteq Requests
        /\ d' = d /\ status' = status /\ Unread \subseteq Requests
    BY UnreadTypes DEF IInv, dispatcherVars, Typed
  <2>2. One(to_api, {"SEND"})' /\ One(to_dispatcher, {"return", "forward"})'
    BY DEF Answering
  <2>3. (Unread \cup Serving \cup Replies \subseteq {d.request_data})'
    BY <2>1 DEF Followed
  <2>4. (Unread \cap begun = {})' /\ (Serving \cup Replies \subseteq begun)'
    BY <2>1 DEF Followed
  <2>5. \A r \in begun' : status'[r] \in {"running", "answered"}
    BY <2>1 DEF Followed, Dispatching
  <2> QED  BY <2>2, <2>3, <2>4, <2>5 DEF Followed
<1> QED  BY <1>1, <1>2 DEF IInv, Keeps

(* A step that leaves the request where it is.                             *)
LEMMA QuietThread ==
    ASSUME IInv, Typed', Nesting',
           UNCHANGED <<dispatcherVars, open>>,
           begun' = begun \cup Serving', Serving' = Serving,
           One(to_api', {"SEND"}), Unread' = Unread,
           Of(to_dispatcher', {"polling"}) = Of(to_dispatcher, {"polling"}),
           Of(to_dispatcher', Answering) = Of(to_dispatcher, Answering),
           Replies' = Replies,
           p'.buffer_call = p.buffer_call,
           p'.initialization_complete = p.initialization_complete,
           ~alive \/ main \in {"success", "terminate", "error"} =>
              ~alive' \/ main' \in {"success", "terminate", "error"}
    PROVE  Keeps
<1>1. /\ Followed /\ Dispatching /\ RequestIntact /\ Lost
      /\ d' = d
  BY DEF IInv, dispatcherVars
<1>2. One(to_dispatcher', Answering) /\ One(to_dispatcher', {"polling"})
  BY <1>1, OneOf DEF Followed, Dispatching, Answering
<1>3. Unread' \cap Serving' = {} /\ Serving' \cap Replies' = {}
  BY <1>1 DEF Followed
<1>4. RequestIntact'
  BY <1>1 DEF RequestIntact
<1>5. Of(to_dispatcher', {"polling"}) # {} =>
         p'.initialization_complete /\ d.init_timer
  BY <1>1 DEF Dispatching
<1>6. Lost'
  BY <1>1 DEF Lost, Handling
<1> QED  BY <1>2, <1>3, <1>4, <1>5, <1>6, ThreadKeeps

LEMMA ServingHere ==
    ASSUME stack \in Seq(Frame), Nested(stack)
    PROVE  Serving = ServedBy(stack)
BY ServingIs DEF Serving

Results == {"own", "other", "error", "terminate"}

\* The results that poll_request may have for the call that entered it.
Possible(result) ==
    \/ result \in Results
    \/ (External \/ Top.call = 0)
       /\ result \in {"timeout", "success", "initialized"}
    \/ ~(External \/ Top.call = 0) /\ result = "unanswered"

(* poll_request returns: to the main function, or to a call of a callback. *)
LEMMA Returns ==
    ASSUME Typed, Nesting, InPoll, NEW result, Possible(result),
           PollReturns(result), alive' = alive,
           p'.initialization_complete = p.initialization_complete
    PROVE  /\ stack' \in Seq(Frame)
           /\ main' \in {"start", "initialized", "timeout", "success",
                         "terminate", "error"}
           /\ outcome' \in [CallId -> {"unused", "waiting", "own", "other",
                                       "unanswered", "terminate", "error"}]
           /\ Nesting'
           /\ Serving' = Serving
           /\ alive /\ main \notin {"success", "terminate", "error"}
           /\ Len(stack) <= 1 /\ result = "error" => main' = "error"
           /\ External => /\ Len(stack) <= 1
                          /\ result \in {"success", "terminate", "error"} =>
                                main' = result
<1> DEFINE n == Len(stack)
<1>1. /\ stack \in Seq(Frame) /\ n \in Nat /\ n >= 1 /\ n <= 3
      /\ \A k \in 1 .. n : stack[k] \in Frame
      /\ Top = stack[n] /\ stack # <<>> /\ Nested(stack)
  BY DEF Typed, Nesting, Nested, InPoll, Top
<1>2. n <= 1 \/ n >= 3
  <2>1. \A j \in Nat : j <= 1 \/ j = 2 \/ j >= 3
    OBVIOUS
  <2>2. CASE n = 2
    BY <1>1, <2>2 DEF InPoll, Nested
  <2> QED  BY <1>1, <2>1, <2>2
<1>3. /\ stack' = Pop(stack) /\ stack' \in Seq(Frame)
      /\ Len(stack') = n - 1
      /\ \A k \in 1 .. n - 1 : stack'[k] = stack[k]
      /\ n <= 1 => stack' = <<>>
  BY <1>1, PopIs DEF PollReturns
<1>4. Nested(stack')
  BY <1>1, <1>3, NestedPop
<1>5. Top.call \in 0 .. MaxCalls /\ MaxCalls \in Nat
  BY <1>1, APIAssumption DEF Frame
<1>6. alive /\ main \in {"start", "initialized", "timeout"}
  BY <1>1 DEF Nesting, InPoll
<1>7. External => n <= 1 /\ main # "start"
  <2>1. External => n <= 1
    BY <1>1, <1>2 DEF External, Nested
  <2> QED  BY <1>1, <2>1 DEF External, Nesting
<1>8. CASE n <= 1
  <2>0. n <= 1 /\ stack' = <<>>
    BY <1>3, <1>8
  <2>1. stack[1].kind = "wait" /\ stack[1].call = 0 => main = "start"
    BY <1>1 DEF Nesting
  <2>2. CASE External \/ Top.call = 0
    <3>1. /\ main' = IF result \in {"own", "other"}
                     THEN "initialized" ELSE result
          /\ outcome' = outcome
      BY <2>2 DEF PollReturns
    <3>2. main' \in {"initialized", "timeout", "success", "terminate",
                     "error"}
      BY <2>2, <3>1 DEF Possible, Results
    <3>3. Nesting'
      BY <1>4, <2>0, <3>2 DEF Nesting
    <3>4. Serving' = Serving
      <4>1. Serving = ServedBy(stack) /\ Serving' = ServedBy(stack')
        BY <1>1, <1>3, <1>4, ServingIs DEF Serving
      <4> QED  BY <1>1, <1>3, <1>8, <4>1 DEF ServedBy
    <3> QED  BY <1>1, <1>3, <1>6, <1>8, <3>1, <3>2, <3>3, <3>4 DEF Typed
  <2>3. CASE ~(External \/ Top.call = 0)
    <3>1. /\ outcome' = [outcome EXCEPT ![Top.call] = result]
          /\ main' = IF result = "error" THEN "error" ELSE main
      BY <1>3, <2>0, <2>3 DEF PollReturns, CallReturns
    <3>2. result \in {"own", "other", "unanswered", "terminate", "error"}
      BY <2>3 DEF Possible, Results
    <3>3. outcome' \in [CallId -> {"unused", "waiting", "own", "other",
                                   "unanswered", "terminate", "error"}]
      BY <1>5, <2>3, <3>1, <3>2 DEF Typed, CallId
    <3>4. Nesting'
      BY <1>4, <1>6, <2>0, <3>1 DEF Nesting
    <3>5. Serving' = Serving
      <4>1. Serving = ServedBy(stack) /\ Serving' = ServedBy(stack')
        BY <1>1, <1>3, <1>4, ServingIs DEF Serving
      <4> QED  BY <1>1, <1>3, <1>8, <4>1 DEF ServedBy
    <3> QED  BY <1>1, <1>3, <1>6, <1>8, <2>3, <3>1, <3>3, <3>4, <3>5
  <2> QED  BY <2>2, <2>3
<1>9. CASE n >= 3
  <2>1. /\ ~External /\ Top.call # 0 /\ stack' # <<>>
        /\ Len(stack') >= 2 /\ stack'[1] = stack[1] /\ stack'[2] = stack[2]
    <3>1. Top = stack[3]
      <4>1. \A j \in Nat : j >= 3 /\ j <= 3 => j = 3
        OBVIOUS
      <4> QED  BY <1>1, <1>9, <4>1
    <3> QED  BY <1>1, <1>3, <1>7, <1>9, <3>1 DEF Nested
  <2>2. /\ outcome' = [outcome EXCEPT ![Top.call] = result]
        /\ main' = main
    BY <1>3, <2>1 DEF PollReturns, CallReturns
  <2>3. result \in {"own", "other", "unanswered", "terminate", "error"}
    BY <2>1 DEF Possible, Results
  <2>4. outcome' \in [CallId -> {"unused", "waiting", "own", "other",
                                 "unanswered", "terminate", "error"}]
    BY <1>5, <2>1, <2>2, <2>3 DEF Typed, CallId
  <2>5. Nesting'
    BY <1>1, <1>4, <2>1, <2>2 DEF Nesting
  <2>6. Serving' = Serving
    <3>1. Serving = ServedBy(stack) /\ Serving' = ServedBy(stack')
      BY <1>1, <1>3, <1>4, ServingIs DEF Serving
    <3> QED  BY <1>1, <1>9, <2>1, <3>1 DEF ServedBy
  <2> QED  BY <1>3, <1>6, <1>9, <2>1, <2>2, <2>4, <2>5, <2>6
<1> QED  BY <1>1, <1>2, <1>8, <1>9

LEMMA ServedNone ==
    ASSUME NEW s \in Seq(Frame), ServedBy(s) = {}
    PROVE  Len(s) <= 1
<1>1. Len(s) \in Nat
  OBVIOUS
<1>2. CASE Len(s) >= 2
  <2>1. s[2].request \in ServedBy(s)
    BY <1>2 DEF ServedBy
  <2> QED  BY <2>1
<1> QED  BY <1>1, <1>2

(* The requests that are handled are requests.                             *)
LEMMA ServingTypes ==
    ASSUME stack \in Seq(Frame), Nested(stack)
    PROVE  Serving \subseteq Requests
<1>1. Serving = ServedBy(stack)
  BY ServingHere
<1> QED  BY <1>1 DEF ServedBy, Nested

LEMMA ReadsIs ==
    ASSUME Typed, Followed, NEW n \in 1 .. 2, NEW types, Reads(n, types)
    PROVE  /\ InPoll /\ n \in 1 .. Len(to_api)
           /\ to_api[1] \in ToAPI /\ to_api[1].type \in types
           /\ n = 2 => to_api[2] \in ToAPI
           /\ to_api' \in Seq(ToAPI)
           /\ One(to_api', {"SEND"})
           /\ Unread' \subseteq Unread
           /\ (\A k \in 1 .. n : to_api[k].type # "SEND") => Unread' = Unread
           /\ (\E k \in 1 .. n : to_api[k].type = "SEND") => Unread' = {}
           /\ UNCHANGED <<subscribes, open>>
<1>1. /\ InPoll /\ n \in 1 .. Len(to_api) /\ to_api[1].type \in types
      /\ to_api' = SubSeq(to_api, n + 1, Len(to_api))
      /\ UNCHANGED <<subscribes, open>>
      /\ to_api \in Seq(ToAPI) /\ One(to_api, {"SEND"})
  BY DEF Reads, read_all, Typed, Followed
<1>2. /\ 1 \in 1 .. Len(to_api) /\ (n = 2 => 2 \in 1 .. Len(to_api))
  BY <1>1
<1>3. to_api[1] \in ToAPI /\ (n = 2 => to_api[2] \in ToAPI)
  BY <1>1, <1>2
<1>4. /\ to_api' \in Seq(ToAPI) /\ One(to_api', {"SEND"})
      /\ Carried(to_api', {"SEND"}) \subseteq Carried(to_api, {"SEND"})
      /\ (\A k \in 1 .. n : to_api[k].type \notin {"SEND"}) =>
            Carried(to_api', {"SEND"}) = Carried(to_api, {"SEND"})
      /\ (\E k \in 1 .. n : to_api[k].type \in {"SEND"}) =>
            Carried(to_api', {"SEND"}) = {}
  BY <1>1, ReadFirst
<1> QED  BY <1>1, <1>3, <1>4 DEF Unread

(* What poll_request does when it read nothing of a request and goes on.   *)
LEMMA ReadOnStep ==
    ASSUME IInv, begun' = begun \cup Serving', UNCHANGED dispatcherVars,
           NEW types, Reads(1, types), "SEND" \notin types,
           stack' = Spend(stack),
           to_dispatcher' \in {to_dispatcher, Written([type |-> "keepalive"])},
           p' \in Instance, p'.buffer_call = p.buffer_call,
           p'.initialization_complete = p.initialization_complete,
           UNCHANGED <<alive, main, outcome>>
    PROVE  Keeps
<1>1. Typed /\ Nesting /\ Followed /\ Nested(stack) /\ stack \in Seq(Frame)
  BY DEF IInv, Nesting, Typed
<1>2. /\ to_api' \in Seq(ToAPI) /\ One(to_api', {"SEND"})
      /\ Unread' = Unread /\ UNCHANGED <<subscribes, open>> /\ InPoll
  <2>1. 1 \in 1 .. 2 /\ \A k \in 1 .. 1 : k = 1
    OBVIOUS
  <2> QED  BY <1>1, <2>1, ReadsIs
<1>3. stack # <<>>
  BY <1>2 DEF InPoll
<1>4. /\ stack' \in Seq(Frame) /\ Len(stack') = Len(stack)
      /\ Len(stack) \in Nat /\ Len(stack) >= 1 /\ stack' # <<>>
      /\ stack'[1].kind = stack[1].kind /\ stack'[1].call = stack[1].call
      /\ Nested(stack') /\ ServedBy(stack') = ServedBy(stack)
  <2>1. /\ stack' \in Seq(Frame) /\ Len(stack') = Len(stack)
        /\ Len(stack) \in Nat /\ Len(stack) >= 1
        /\ \A k \in 1 .. Len(stack) :
              stack'[k].kind = stack[k].kind /\ stack'[k].call = stack[k].call
    BY <1>1, <1>3, SpendIs
  <2>2. Nested(stack') /\ ServedBy(stack') = ServedBy(stack)
    BY <1>1, <1>3, NestedSpend
  <2>3. 1 \in 1 .. Len(stack) /\ stack' # <<>>
    BY <2>1
  <2> QED  BY <2>1, <2>2, <2>3
<1>5. Serving' = Serving
  <2>1. Serving = ServedBy(stack) /\ Serving' = ServedBy(stack')
    BY <1>1, <1>4, ServingIs DEF Serving
  <2> QED  BY <1>4, <2>1
<1>6. /\ to_dispatcher' \in Seq(ToDispatcher)
      /\ Of(to_dispatcher', {"polling"}) = Of(to_dispatcher, {"polling"})
      /\ Of(to_dispatcher', Answering) = Of(to_dispatcher, Answering)
      /\ Replies' = Replies
  <2>1. /\ [type |-> "keepalive"] \in ToDispatcher
        /\ [type |-> "keepalive"].type \notin Answering \cup {"polling"}
    BY DEF ToDispatcher, Answering
  <2>2. to_dispatcher \in Seq(ToDispatcher)
    BY <1>1 DEF Typed
  <2> QED  BY <2>1, <2>2, WrittenOther DEF Replies, Answering
<1>7. Typed'
  BY <1>1, <1>2, <1>4, <1>5, <1>6, ServingTypes DEF Typed, dispatcherVars
<1>8. Nesting'
  BY <1>1, <1>3, <1>4 DEF Nesting
<1> QED
  BY <1>2, <1>5, <1>6, <1>7, <1>8, QuietThread

LEMMA WrittenKeepalive ==
    ASSUME to_dispatcher \in Seq(ToDispatcher),
           to_dispatcher' \in {to_dispatcher, Written([type |-> "keepalive"])}
    PROVE  /\ to_dispatcher' \in Seq(ToDispatcher)
           /\ Of(to_dispatcher', {"polling"}) = Of(to_dispatcher, {"polling"})
           /\ Of(to_dispatcher', Answering) = Of(to_dispatcher, Answering)
           /\ Replies' = Replies
<1>1. /\ [type |-> "keepalive"] \in ToDispatcher
      /\ [type |-> "keepalive"].type \notin Answering \cup {"polling"}
  BY DEF ToDispatcher, Answering
<1> QED  BY <1>1, WrittenOther DEF Replies, Answering

(* poll_request returns, and read nothing of a request.                    *)
LEMMA ReturnStep ==
    ASSUME IInv, begun' = begun \cup Serving', UNCHANGED dispatcherVars,
           InPoll, NEW result, Possible(result), PollReturns(result),
           to_api' \in Seq(ToAPI), One(to_api', {"SEND"}), Unread' = Unread,
           to_dispatcher' \in {to_dispatcher, Written([type |-> "keepalive"])},
           p' \in Instance, p'.buffer_call = p.buffer_call,
           p'.initialization_complete = p.initialization_complete,
           UNCHANGED <<alive, subscribes, open>>
    PROVE  Keeps
<1>1. Typed /\ Nesting /\ Nested(stack) /\ stack \in Seq(Frame)
      /\ to_dispatcher \in Seq(ToDispatcher)
  BY DEF IInv, Nesting, Typed
<1>2. /\ stack' \in Seq(Frame)
      /\ main' \in {"start", "initialized", "timeout", "success",
                    "terminate", "error"}
      /\ outcome' \in [CallId -> {"unused", "waiting", "own", "other",
                                  "unanswered", "terminate", "error"}]
      /\ Nesting' /\ Serving' = Serving
      /\ alive /\ main \notin {"success", "terminate", "error"}
  BY <1>1, Returns
<1>3. /\ to_dispatcher' \in Seq(ToDispatcher)
      /\ Of(to_dispatcher', {"polling"}) = Of(to_dispatcher, {"polling"})
      /\ Of(to_dispatcher', Answering) = Of(to_dispatcher, Answering)
      /\ Replies' = Replies
  BY <1>1, WrittenKeepalive
<1>4. Serving \subseteq Requests
  BY <1>1, ServingTypes
<1>5. Typed'
  BY <1>1, <1>2, <1>3, <1>4 DEF Typed, dispatcherVars
<1> QED
  BY <1>2, <1>3, <1>5, QuietThread

LEMMA ReadTermStep ==
    ASSUME IInv, begun' = begun \cup Serving', UNCHANGED dispatcherVars,
           ReadTerm
    PROVE  Keeps
<1>1. Typed /\ Nesting /\ Followed /\ Reads(1, {"TERM"}) /\ p \in Instance
      /\ to_dispatcher \in Seq(ToDispatcher)
  BY DEF IInv, ReadTerm, Typed
<1>2. /\ to_api' \in Seq(ToAPI) /\ One(to_api', {"SEND"}) /\ InPoll
      /\ Unread' = Unread /\ UNCHANGED <<subscribes, open>>
      /\ to_api[1] \in ToAPI /\ to_api[1].type = "TERM"
  <2>1. 1 \in 1 .. 2 /\ \A k \in 1 .. 1 : k = 1
    OBVIOUS
  <2> QED  BY <1>1, <2>1, ReadsIs
<1>3. PICK e \in handle_events(p, to_api[1]) :
         p' = e.p /\ to_dispatcher' = e.sent /\ PollReturns(e.result)
  BY DEF ReadTerm
<1>4. /\ e.p \in Instance
      /\ e.p.buffer_call = p.buffer_call
      /\ e.p.initialization_complete = p.initialization_complete
      /\ e.sent \in {to_dispatcher, Written([type |-> "keepalive"])}
  BY <1>1, <1>2, Events
<1>5. e.result = IF External THEN "success" ELSE "terminate"
  BY <1>2 DEF handle_events
<1>6. Possible(e.result)
  BY <1>5 DEF Possible, Results
<1> QED
  BY <1>2, <1>3, <1>4, <1>6, ReturnStep DEF ReadTerm

LEMMA ReadReinitStep ==
    ASSUME IInv, begun' = begun \cup Serving', UNCHANGED dispatcherVars,
           ReadReinit
    PROVE  Keeps
<1>1. Typed /\ Followed /\ Reads(1, {"REINIT"}) /\ p \in Instance
  BY DEF IInv, ReadReinit, Typed
<1>2. to_api[1] \in ToAPI /\ to_api[1].type = "REINIT"
  <2>1. 1 \in 1 .. 2
    OBVIOUS
  <2> QED  BY <1>1, <2>1, ReadsIs
<1>3. to_api[1].count \in Nat
  BY <1>2 DEF ToAPI, Answers, AnswerTo
<1>4. /\ p' \in Instance /\ p'.buffer_call = p.buffer_call
      /\ p'.initialization_complete = p.initialization_complete
  BY <1>1, <1>3 DEF ReadReinit, Instance
<1> QED  BY <1>1, <1>4, ReadOnStep DEF ReadReinit

LEMMA ReadKeepaliveStep ==
    ASSUME IInv, begun' = begun \cup Serving', UNCHANGED dispatcherVars,
           ReadKeepalive
    PROVE  Keeps
<1>1. Typed /\ Nesting /\ Followed /\ Reads(1, {"KEEPALIVE"})
      /\ p \in Instance
  BY DEF IInv, ReadKeepalive, Typed
<1>2. /\ to_api' \in Seq(ToAPI) /\ One(to_api', {"SEND"}) /\ InPoll
      /\ Unread' = Unread /\ UNCHANGED <<subscribes, open>>
  <2>1. 1 \in 1 .. 2 /\ \A k \in 1 .. 1 : k = 1
    OBVIOUS
  <2> QED  BY <1>1, <2>1, ReadsIs
<1>3. PICK k \in keepalive :
        /\ to_dispatcher' = k[1]
        /\ IF k[2] = "none"
           THEN stack' = Spend(stack) /\ UNCHANGED <<main, outcome>>
           ELSE PollReturns(IF External THEN "success"
                            ELSE IF Top.call = 0 THEN "initialized"
                            ELSE "unanswered")
  BY DEF ReadKeepalive
<1>4. \/ k = <<Written([type |-> "keepalive"]), "none">>
      \/ k = <<to_dispatcher, "error">>
  BY DEF keepalive
<1>5. to_dispatcher' \in {to_dispatcher, Written([type |-> "keepalive"])}
      /\ p' = p /\ alive' = alive
  BY <1>3, <1>4 DEF ReadKeepalive
<1>6. CASE k[2] = "none"
  BY <1>1, <1>3, <1>5, <1>6, ReadOnStep
<1>7. CASE k[2] # "none"
  <2> DEFINE result == IF External THEN "success"
                       ELSE IF Top.call = 0 THEN "initialized"
                       ELSE "unanswered"
  <2>1. PollReturns(result)
    BY <1>3, <1>7
  <2>2. Possible(result)
    BY DEF Possible
  <2> HIDE DEF result
  <2> QED  BY <1>1, <1>2, <1>5, <2>1, <2>2, ReturnStep
<1> QED  BY <1>6, <1>7

LEMMA ReadNullStep ==
    ASSUME IInv, begun' = begun \cup Serving', UNCHANGED dispatcherVars,
           ReadNull
    PROVE  Keeps
<1>1. /\ InPoll /\ PollReturns("error") /\ Possible("error")
      /\ UNCHANGED <<p, alive, subscribes, open, to_api, to_dispatcher>>
  BY DEF ReadNull, socketVars, Possible, Results
<1>2. p \in Instance /\ to_api \in Seq(ToAPI) /\ One(to_api, {"SEND"})
  BY DEF IInv, Typed, Followed
<1>3. Unread' = Unread
  BY <1>1 DEF Unread
<1> QED  BY <1>1, <1>2, <1>3, ReturnStep

LEMMA PollFailsStep ==
    ASSUME IInv, begun' = begun \cup Serving', UNCHANGED dispatcherVars,
           PollFails
    PROVE  Keeps
<1>1. /\ InPoll /\ PollReturns("error") /\ Possible("error")
      /\ UNCHANGED <<p, alive, subscribes, open, to_api, to_dispatcher>>
  BY DEF PollFails, socketVars, Possible, Results
<1>2. p \in Instance /\ to_api \in Seq(ToAPI) /\ One(to_api, {"SEND"})
  BY DEF IInv, Typed, Followed
<1>3. Unread' = Unread
  BY <1>1 DEF Unread
<1> QED  BY <1>1, <1>2, <1>3, ReturnStep

LEMMA PollTimeoutStep ==
    ASSUME IInv, begun' = begun \cup Serving', UNCHANGED dispatcherVars,
           PollTimeout
    PROVE  Keeps
<1>1. /\ InPoll /\ PollReturns("timeout") /\ Top.finite
      /\ UNCHANGED <<p, alive, subscribes, open, to_api, to_dispatcher>>
  BY DEF PollTimeout, socketVars
<1>2. p \in Instance /\ to_api \in Seq(ToAPI) /\ One(to_api, {"SEND"})
      /\ stack \in Seq(Frame) /\ Nested(stack)
  BY DEF IInv, Typed, Followed, Nesting
<1>3. Unread' = Unread
  BY <1>1 DEF Unread
<1>4. External
  <2>1. Len(stack) \in 1 .. Len(stack)
    BY <1>1, <1>2 DEF InPoll
  <2> QED  BY <1>1, <1>2, <2>1 DEF External, Top, Nested
<1>5. Possible("timeout")
  BY <1>4 DEF Possible
<1> QED  BY <1>1, <1>2, <1>3, <1>5, ReturnStep

(* The OS process dies: what it had of a request is lost.                  *)
LEMMA DeathStep ==
    ASSUME IInv, begun' = begun \cup Serving', UNCHANGED dispatcherVars,
           stack' = <<>>, alive' = FALSE,
           UNCHANGED <<main, outcome, subscribes, open>>,
           to_api' \in Seq(ToAPI), One(to_api', {"SEND"}),
           Unread' \subseteq Unread,
           to_dispatcher' \in Seq(ToDispatcher),
           One(to_dispatcher', Answering), Replies' \subseteq Replies \cup Serving,
           Of(to_dispatcher', {"polling"}) = Of(to_dispatcher, {"polling"}),
           p' \in Instance,
           p'.initialization_complete = p.initialization_complete
    PROVE  Keeps
<1>1. stack' \in Seq(Frame) /\ Len(stack') = 0
  OBVIOUS
<1>2. Serving' = {}
  BY <1>1 DEF Serving
<1>3. Typed /\ Nesting /\ Dispatching
  BY DEF IInv
<1>4. Typed'
  BY <1>1, <1>2, <1>3 DEF Typed, dispatcherVars
<1>5. Nesting'
  BY <1>1, <1>3 DEF Nesting, Nested
<1>6. RequestIntact' /\ Lost'
  BY <1>2 DEF RequestIntact, Lost
<1>7. One(to_dispatcher', {"polling"})
      /\ (Of(to_dispatcher', {"polling"}) # {} =>
            p'.initialization_complete /\ d.init_timer)
  BY <1>3, OneOf DEF Dispatching
<1> QED
  BY <1>2, <1>4, <1>5, <1>6, <1>7, ThreadKeeps

(* poll_request returns to the main function with a result that ends the   *)
(* service, and the request it read is lost.                               *)
LEMMA LosingStep ==
    ASSUME IInv, begun' = begun \cup Serving', UNCHANGED dispatcherVars,
           InPoll, NEW result, Possible(result), PollReturns(result),
           main' \in {"success", "terminate", "error"},
           to_api' \in Seq(ToAPI), One(to_api', {"SEND"}),
           Unread' \subseteq Unread,
           to_dispatcher' \in {to_dispatcher, Written([type |-> "keepalive"])},
           p' \in Instance,
           p'.initialization_complete = p.initialization_complete,
           UNCHANGED <<alive, subscribes, open>>
    PROVE  Keeps
<1>1. Typed /\ Nesting /\ Nested(stack) /\ stack \in Seq(Frame)
      /\ to_dispatcher \in Seq(ToDispatcher) /\ Followed /\ Dispatching
  BY DEF IInv, Nesting, Typed
<1>2. /\ stack' \in Seq(Frame)
      /\ outcome' \in [CallId -> {"unused", "waiting", "own", "other",
                                  "unanswered", "terminate", "error"}]
      /\ Nesting'
  BY <1>1, Returns
<1>3. /\ to_dispatcher' \in Seq(ToDispatcher)
      /\ Of(to_dispatcher', {"polling"}) = Of(to_dispatcher, {"polling"})
      /\ Of(to_dispatcher', Answering) = Of(to_dispatcher, Answering)
      /\ Replies' = Replies
  BY <1>1, WrittenKeepalive
<1>4. Serving' = {}
  <2>1. stack' = <<>>
    BY <1>2 DEF Nesting
  <2>2. Len(stack') = 0
    BY <2>1
  <2> QED  BY <2>2 DEF Serving
<1>5. Typed'
  BY <1>1, <1>2, <1>3, <1>4 DEF Typed, dispatcherVars
<1>6. RequestIntact' /\ Lost'
  BY <1>4 DEF RequestIntact, Lost
<1>7. /\ One(to_dispatcher', {"polling"}) /\ One(to_dispatcher', Answering)
      /\ (Of(to_dispatcher', {"polling"}) # {} =>
            p'.initialization_complete /\ d.init_timer)
  BY <1>1, <1>3, OneOf DEF Dispatching, Followed, Answering
<1> QED
  BY <1>2, <1>3, <1>4, <1>5, <1>6, <1>7, ThreadKeeps

(* What is left behind the first message.                                  *)
LEMMA LeftoverIs ==
    ASSUME p \in Instance, to_dispatcher \in Seq(ToDispatcher),
           NEW q \in Instance, NEW n \in 1 .. 2, n = 2 => to_api[2] \in ToAPI,
           NEW e \in Leftover(q, n)
    PROVE  /\ e.p \in Instance
           /\ e.p.buffer_call = q.buffer_call
           /\ e.p.initialization_complete = q.initialization_complete
           /\ e.sent \in {to_dispatcher, Written([type |-> "keepalive"])}
           /\ e.result \in {"none", "success", "terminate", "error"}
           /\ n = 2 /\ to_api[2].type = "SEND" => e.result = "error"
           /\ e.result = "success" => External
<1>1. CASE n = 1
  <2>1. e = [p |-> q, sent |-> to_dispatcher, result |-> "none"]
    BY <1>1 DEF Leftover
  <2> QED  BY <1>1, <2>1
<1>2. CASE n = 2
  <2>1. e \in handle_events(q, to_api[2])
    BY <1>2 DEF Leftover
  <2>2. /\ e.p \in Instance
        /\ e.p.buffer_call = q.buffer_call
        /\ e.p.initialization_complete = q.initialization_complete
        /\ e.sent \in {to_dispatcher, Written([type |-> "keepalive"])}
        /\ e.result \in {"none", "success", "terminate", "error"}
        /\ to_api[2].type = "SEND" => e.result = "error"
    BY <1>2, <2>1, Events
  <2>3. e.result = "success" => External
    <3>1. CASE to_api[2].type = "TERM"
      <4>1. e = [p |-> [q EXCEPT !.terminate = TRUE], sent |-> to_dispatcher,
                 result |-> IF External THEN "success" ELSE "terminate"]
        BY <2>1, <3>1 DEF handle_events
      <4> QED  BY <4>1
    <3>2. CASE to_api[2].type = "REINIT"
      <4>1. e = [p |-> [q EXCEPT !.process_count = to_api[2].count],
                 sent |-> to_dispatcher, result |-> "none"]
        BY <2>1, <3>2 DEF handle_events
      <4> QED  BY <4>1
    <3>3. CASE to_api[2].type = "KEEPALIVE"
      <4>1. PICK k \in keepalive :
                    e = [p |-> q, sent |-> k[1], result |-> k[2]]
        BY <2>1, <3>3 DEF handle_events
      <4> QED  BY <4>1 DEF keepalive
    <3>4. CASE to_api[2].type \notin {"TERM", "REINIT", "KEEPALIVE"}
      <4>1. e = [p |-> q, sent |-> to_dispatcher, result |-> "error"]
        BY <2>1, <3>4 DEF handle_events
      <4> QED  BY <4>1
    <3> QED  BY <3>1, <3>2, <3>3, <3>4
  <2> QED  BY <1>2, <2>2, <2>3
<1> QED  BY <1>1, <1>2

LEMMA ReadAnswerStep ==
    ASSUME IInv, begun' = begun \cup Serving', UNCHANGED dispatcherVars,
           NEW n \in 1 .. 2, ReadAnswer(n)
    PROVE  Keeps
<1> DEFINE m == to_api[1]
           q == IF m.type = "INIT"
                THEN [p EXCEPT !.process_count = m.count] ELSE p
           given == IF m.call = Top.call THEN "own" ELSE "other"
<1>1. Typed /\ Nesting /\ Followed /\ p \in Instance /\ Reads(n, Answers)
      /\ to_dispatcher \in Seq(ToDispatcher) /\ stack \in Seq(Frame)
      /\ Nested(stack)
  BY DEF IInv, ReadAnswer, Typed, Nesting
<1>2. /\ InPoll /\ n \in 1 .. Len(to_api)
      /\ m \in ToAPI /\ m.type \in Answers
      /\ n = 2 => to_api[2] \in ToAPI
      /\ to_api' \in Seq(ToAPI) /\ One(to_api', {"SEND"})
      /\ Unread' \subseteq Unread
      /\ (\A k \in 1 .. n : to_api[k].type # "SEND") => Unread' = Unread
      /\ UNCHANGED <<subscribes, open>>
  BY <1>1, ReadsIs
<1>3. /\ q \in Instance /\ q.buffer_call = p.buffer_call
      /\ q.initialization_complete = p.initialization_complete
  <2>1. m.type = "INIT" => m.count \in Nat
    BY <1>2 DEF ToAPI
  <2> QED  BY <1>1, <2>1 DEF Instance
<1>4. CASE n = 2 /\ External
  <2>1. /\ p' = q /\ to_dispatcher' = to_dispatcher
        /\ stack' = <<>> /\ alive' = FALSE /\ UNCHANGED <<main, outcome>>
    BY <1>4 DEF ReadAnswer, Raises
  <2>2. One(to_dispatcher', Answering) /\ Replies' = Replies
    BY <1>1, <2>1 DEF Followed, Replies, Answering
  <2> HIDE DEF q, m
  <2> QED  BY <1>1, <1>2, <1>3, <2>1, <2>2, DeathStep
<1>5. CASE ~(n = 2 /\ External)
  <2>1. PICK e \in Leftover(q, n) :
           /\ p' = e.p
           /\ to_dispatcher' = e.sent
           /\ PollReturns(IF e.result # "none" THEN e.result
                          ELSE IF External THEN "success" ELSE given)
    BY <1>5 DEF ReadAnswer
  <2>2. alive' = alive
    BY <1>5 DEF ReadAnswer
  <2> DEFINE result == IF e.result # "none" THEN e.result
                       ELSE IF External THEN "success" ELSE given
  <2>3. /\ e.p \in Instance
        /\ e.p.buffer_call = q.buffer_call
        /\ e.p.initialization_complete = q.initialization_complete
        /\ e.sent \in {to_dispatcher, Written([type |-> "keepalive"])}
        /\ e.result \in {"none", "success", "terminate", "error"}
        /\ n = 2 /\ to_api[2].type = "SEND" => e.result = "error"
        /\ e.result = "success" => External
    <3> HIDE DEF q
    <3> QED  BY <1>1, <1>2, <1>3, LeftoverIs
  <2>4. PollReturns(result) /\ Possible(result)
    BY <2>1, <2>3 DEF Possible, Results
  <2>5. n = 2 /\ to_api[2].type = "SEND" => result = "error"
    BY <2>3
  <2>6. m.type # "SEND"
    BY <1>2 DEF Answers, AnswerTo
  <2> HIDE DEF q, result
  <2>7. CASE n = 2 /\ to_api[2].type = "SEND"
    <3>1. Len(stack) <= 1
      <4>1. Unread # {}
        <5>1. 2 \in Of(to_api, {"SEND"})
          BY <1>2, <2>7 DEF Of
        <5> QED  BY <5>1 DEF Unread, Carried
      <4>2. Serving = {}
        BY <1>1, <4>1 DEF Followed
      <4>3. Serving = ServedBy(stack)
        BY <1>1, ServingHere
      <4> QED  BY <1>1, <4>2, <4>3, ServedNone
    <3>2. main' = "error"
      BY <1>1, <1>2, <1>3, <2>1, <2>2, <2>3, <2>4, <2>5, <2>7, <3>1, Returns
    <3> QED
      BY <1>2, <1>3, <2>1, <2>2, <2>3, <2>4, <3>2, LosingStep
  <2>8. CASE ~(n = 2 /\ to_api[2].type = "SEND")
    <3>1. \A k \in 1 .. n : to_api[k].type # "SEND"
      BY <2>6, <2>8
    <3> QED
      BY <1>2, <1>3, <2>1, <2>2, <2>3, <2>4, <3>1, ReturnStep
  <2> QED  BY <2>7, <2>8
<1> QED  BY <1>4, <1>5

(* A callback is called, over the poll_request that read its request.      *)
LEMMA NestedCallback ==
    ASSUME NEW s \in Seq(Frame), Nested(s), s # <<>>, Len(s) <= 1,
           NEW r \in Requests, NEW f \in Functions \cup {NullFunction}
    PROVE  LET t == Append(Spend(s), CallbackFrame(r, f))
           IN  /\ t \in Seq(Frame) /\ Nested(t) /\ ServedBy(t) = {r}
               /\ t # <<>> /\ t[1].kind = s[1].kind /\ t[1].call = s[1].call
<1> DEFINE u == Spend(s)
           c == CallbackFrame(r, f)
           t == Append(u, c)
<1>1. c \in Frame /\ c.kind = "callback" /\ c.request = r /\ ~c.finite
  BY FrameTypes DEF CallbackFrame
<1>2. /\ u \in Seq(Frame) /\ Len(u) = Len(s)
      /\ Len(s) \in Nat /\ Len(s) >= 1
      /\ \A k \in 1 .. Len(s) :
            u[k].kind = s[k].kind /\ u[k].call = s[k].call
  BY SpendIs
<1>3. Nested(u)
  BY NestedSpend
<1> HIDE DEF u, c
<1>4. Len(u) = 1
  <2>1. \A j \in Nat : j >= 1 /\ j <= 1 => j = 1
    OBVIOUS
  <2>2. Len(u) \in Nat /\ Len(u) >= 1 /\ Len(u) <= 1
    BY <1>2
  <2> QED  BY <2>1, <2>2
<1>5. t \in Seq(Frame) /\ Len(t) = 2 /\ t[1] = u[1] /\ t[2] = c
  <2>1. t \in Seq(Frame) /\ Len(t) = Len(u) + 1
    BY <1>1, <1>2
  <2>2. Len(t) = 2
    BY <1>4, <2>1
  <2>3. 1 \in 1 .. Len(u) /\ t[Len(u) + 1] = c
    BY <1>1, <1>2
  <2>4. t[1] = u[1]
    BY <1>1, <1>2, <2>3
  <2> QED  BY <1>4, <2>1, <2>2, <2>3, <2>4
<1> HIDE DEF t
<1>6. Nested(t)
  <2>1. \A k \in 1 .. Len(t) : k = 1 \/ k = 2
    BY <1>5
  <2>2. u[1].kind \in {"poll", "wait"} /\ (u[1].finite => u[1].kind = "poll")
    BY <1>3, <1>4 DEF Nested
  <2>3. ~(Len(t) >= 3) /\ Len(t) <= 3
    BY <1>5
  <2> QED  BY <1>1, <1>5, <2>1, <2>2, <2>3 DEF Nested
<1>7. ServedBy(t) = {r}
  BY <1>1, <1>5 DEF ServedBy
<1>8. t[1].kind = s[1].kind /\ t[1].call = s[1].call /\ t # <<>>
  BY <1>2, <1>5
<1> QED  BY <1>5, <1>6, <1>7, <1>8 DEF t, u, c

LEMMA ReadSendStep ==
    ASSUME IInv, begun' = begun \cup Serving', UNCHANGED dispatcherVars,
           NEW n \in 1 .. 2, ReadSend(n)
    PROVE  Keeps
<1> DEFINE r == to_api[1].request
           q == [p EXCEPT !.buffer_call = r]
           f == find(q.lookup, PatternOf[r])
<1>1. Typed /\ Nesting /\ Followed /\ Dispatching /\ p \in Instance
      /\ Reads(n, {"SEND"})
      /\ to_dispatcher \in Seq(ToDispatcher) /\ stack \in Seq(Frame)
      /\ Nested(stack)
  BY DEF IInv, ReadSend, Typed, Nesting
<1>2. /\ InPoll /\ n \in 1 .. Len(to_api)
      /\ to_api[1] \in ToAPI /\ to_api[1].type = "SEND"
      /\ n = 2 => to_api[2] \in ToAPI
      /\ to_api' \in Seq(ToAPI) /\ One(to_api', {"SEND"})
      /\ Unread' \subseteq Unread
      /\ UNCHANGED <<subscribes, open>>
  BY <1>1, ReadsIs
<1>a. Unread' = {}
  <2>1. 1 \in 1 .. n
    OBVIOUS
  <2> QED  BY <1>1, <1>2, <2>1, ReadsIs
<1>3. r \in Requests /\ r \in Unread
  <2>1. 1 \in Of(to_api, {"SEND"})
    BY <1>2 DEF Of
  <2> QED  BY <1>2, <2>1 DEF ToAPI, Answers, AnswerTo, Unread, Carried
<1>4. Serving = {} /\ Replies = {}
  BY <1>1, <1>3 DEF Followed
<1>5. /\ q \in Instance /\ q.buffer_call = r
      /\ q.initialization_complete = p.initialization_complete
  BY <1>1, <1>3 DEF Instance
<1>6. CASE n = 2 /\ ~External
  <2>1. /\ p' = q /\ to_dispatcher' = to_dispatcher
        /\ stack' = <<>> /\ alive' = FALSE /\ UNCHANGED <<main, outcome>>
    BY <1>6 DEF ReadSend, Raises
  <2>2. One(to_dispatcher', Answering) /\ Replies' = Replies
    BY <1>1, <2>1 DEF Followed, Replies, Answering
  <2> HIDE DEF q
  <2> QED  BY <1>1, <1>2, <1>5, <2>1, <2>2, DeathStep
<1>7. CASE ~(n = 2 /\ ~External)
  <2>1. PICK e \in Leftover(q, n) :
           /\ to_dispatcher' = e.sent
           /\ IF e.result # "none"
              THEN p' = e.p /\ PollReturns(e.result)
              ELSE /\ p' = [e.p EXCEPT !.lookup[PatternOf[r]] = cycle(@)]
                   /\ stack' = Append(Spend(stack), CallbackFrame(r, f))
                   /\ UNCHANGED <<main, outcome>>
    BY <1>7 DEF ReadSend
  <2>2. alive' = alive
    BY <1>7 DEF ReadSend
  <2>3. /\ e.p \in Instance
        /\ e.p.buffer_call = q.buffer_call
        /\ e.p.initialization_complete = q.initialization_complete
        /\ e.sent \in {to_dispatcher, Written([type |-> "keepalive"])}
        /\ e.result \in {"none", "success", "terminate", "error"}
    <3> HIDE DEF q
    <3> QED  BY <1>1, <1>2, <1>5, LeftoverIs
  <2>4. CASE e.result # "none"
    <3>1. p' = e.p /\ PollReturns(e.result)
      BY <2>1, <2>4
    <3>2. External
      <4>1. n = 2
        <5>1. CASE n = 1
          <6>1. e = [p |-> q, sent |-> to_dispatcher, result |-> "none"]
            BY <5>1 DEF Leftover
          <6> QED  BY <2>4, <6>1
        <5> QED  BY <5>1
      <4> QED  BY <1>7, <4>1
    <3>3. e.result \in {"success", "terminate", "error"}
          /\ Possible(e.result)
      BY <2>3, <2>4, <3>2 DEF Possible, Results
    <3> HIDE DEF q
    <3>4. main' = e.result
      BY <1>1, <1>2, <1>5, <2>2, <2>3, <3>1, <3>2, <3>3, Returns
    <3> QED
      BY <1>2, <1>5, <2>1, <2>2, <2>3, <3>1, <3>3, <3>4, LosingStep
  <2>5. CASE e.result = "none"
    <3>1. /\ p' = [e.p EXCEPT !.lookup[PatternOf[r]] = cycle(@)]
          /\ stack' = Append(Spend(stack), CallbackFrame(r, f))
          /\ UNCHANGED <<main, outcome>>
      BY <2>1, <2>5
    <3>2. PatternOf[r] \in Patterns
      BY <1>3, APIAssumption
    <3>3. f \in Functions \cup {NullFunction}
      <4>1. p.lookup[PatternOf[r]] \in Seq(Functions)
            /\ q.lookup = p.lookup
        BY <1>1, <3>2 DEF Instance
      <4>2. p.lookup[PatternOf[r]] # <<>> =>
               Head(p.lookup[PatternOf[r]]) \in Functions
        BY <4>1, HeadTailProperties
      <4> QED  BY <4>1, <4>2 DEF find
    <3>4. /\ p' \in Instance /\ p'.buffer_call = r
          /\ p'.initialization_complete = p.initialization_complete
      <4>1. \A s \in Seq(Functions) : cycle(s) \in Seq(Functions)
        <5> SUFFICES ASSUME NEW s \in Seq(Functions)
                     PROVE  cycle(s) \in Seq(Functions)
          OBVIOUS
        <5>1. CASE Len(s) <= 1
          BY <5>1 DEF cycle
        <5>2. CASE ~(Len(s) <= 1)
          <6>1. s # <<>>
            BY <5>2
          <6>2. Head(s) \in Functions /\ Tail(s) \in Seq(Functions)
            BY <6>1, HeadTailProperties
          <6> QED  BY <5>2, <6>2 DEF cycle
        <5> QED  BY <5>1, <5>2
      <4>2. e.p.lookup[PatternOf[r]] \in Seq(Functions)
        BY <2>3, <3>2 DEF Instance
      <4>3. cycle(e.p.lookup[PatternOf[r]]) \in Seq(Functions)
        BY <4>1, <4>2
      <4> HIDE DEF q, f
      <4> QED  BY <1>5, <2>3, <3>1, <3>2, <4>3 DEF Instance
    <3>5. stack # <<>> /\ Len(stack) <= 1
      <4>1. Serving = ServedBy(stack)
        BY <1>1, ServingHere
      <4> QED  BY <1>1, <1>2, <1>4, <4>1, ServedNone DEF InPoll
    <3> HIDE DEF q, f, r
    <3>6. /\ stack' \in Seq(Frame) /\ Nested(stack')
          /\ ServedBy(stack') = {r} /\ stack' # <<>>
          /\ stack'[1].kind = stack[1].kind /\ stack'[1].call = stack[1].call
      BY <1>1, <1>3, <3>1, <3>3, <3>5, NestedCallback
    <3>7. Serving' = {r}
      BY <3>6, ServingIs DEF Serving
    <3>8. /\ to_dispatcher' \in Seq(ToDispatcher)
          /\ Of(to_dispatcher', {"polling"}) = Of(to_dispatcher, {"polling"})
          /\ Of(to_dispatcher', Answering) = Of(to_dispatcher, Answering)
          /\ Replies' = Replies
      BY <1>1, <2>1, <2>3, WrittenKeepalive
    <3>9. Typed'
      BY <1>1, <1>2, <1>3, <2>2, <3>1, <3>4, <3>6, <3>7, <3>8
         DEF Typed, dispatcherVars
    <3>10. Nesting'
      BY <1>1, <2>2, <3>1, <3>4, <3>5, <3>6 DEF Nesting
    <3>11. RequestIntact' /\ Lost'
      BY <3>4, <3>7 DEF RequestIntact, Lost
    <3>12. /\ One(to_dispatcher', {"polling"}) /\ One(to_dispatcher', Answering)
           /\ (Of(to_dispatcher', {"polling"}) # {} =>
                 p'.initialization_complete /\ d.init_timer)
      BY <1>1, <3>4, <3>8, OneOf DEF Dispatching, Followed, Answering
    <3> QED
      BY <1>2, <1>a, <1>3, <1>4, <3>4, <3>7, <3>8, <3>9, <3>10, <3>11,
         <3>12, ThreadKeeps
  <2> QED  BY <2>3, <2>4, <2>5
<1> QED  BY <1>6, <1>7

(* A call that only writes.                                                *)
LEMMA WriteStep ==
    ASSUME IInv, begun' = begun \cup Serving', UNCHANGED dispatcherVars,
           NEW m \in ToDispatcher, m.type \notin Answering \cup {"polling"},
           to_dispatcher' = Written(m),
           p' \in Instance, p'.buffer_call = p.buffer_call,
           p'.initialization_complete = p.initialization_complete,
           subscribes' \in 0 .. MaxSubscribes,
           UNCHANGED <<stack, alive, main, outcome, open, to_api>>
    PROVE  Keeps
<1>1. Typed /\ Nesting /\ stack \in Seq(Frame) /\ Nested(stack)
      /\ to_dispatcher \in Seq(ToDispatcher) /\ One(to_api, {"SEND"})
  BY DEF IInv, Typed, Nesting, Followed
<1>2. Serving' = Serving /\ Serving \subseteq Requests /\ Unread' = Unread
  BY <1>1, ServingTypes DEF Serving, Unread
<1>3. /\ to_dispatcher' \in Seq(ToDispatcher)
      /\ Of(to_dispatcher', {"polling"}) = Of(to_dispatcher, {"polling"})
      /\ Of(to_dispatcher', Answering) = Of(to_dispatcher, Answering)
      /\ Replies' = Replies
  BY <1>1, WrittenOther DEF Replies, Answering
<1>4. Typed'
  BY <1>1, <1>2, <1>3 DEF Typed, dispatcherVars
<1>5. Nesting'
  BY <1>1 DEF Nesting
<1> QED  BY <1>1, <1>2, <1>3, <1>4, <1>5, QuietThread

LEMMA SubscribeStep ==
    ASSUME IInv, begun' = begun \cup Serving', UNCHANGED dispatcherVars,
           NEW x \in Patterns, NEW f \in Functions, cloudi_subscribe(x, f)
    PROVE  Keeps
<1>1. p \in Instance /\ subscribes \in 0 .. MaxSubscribes
      /\ MaxSubscribes \in Nat
  BY APIAssumption DEF IInv, Typed
<1>2. Append(p.lookup[x], f) \in Seq(Functions)
  BY <1>1 DEF Instance
<1>3. /\ p' \in Instance /\ p'.buffer_call = p.buffer_call
      /\ p'.initialization_complete = p.initialization_complete
  BY <1>1, <1>2 DEF Instance, cloudi_subscribe, insert
<1>4. subscribes' \in 0 .. MaxSubscribes
  BY <1>1 DEF cloudi_subscribe
<1> DEFINE m == [type |-> "subscribe", pattern |-> x]
<1>5. m \in ToDispatcher /\ m.type \notin Answering \cup {"polling"}
  BY DEF ToDispatcher, Answering
<1>6. to_dispatcher' = Written(m)
  BY DEF cloudi_subscribe
<1> HIDE DEF m
<1> QED  BY <1>3, <1>4, <1>5, <1>6, WriteStep DEF cloudi_subscribe

LEMMA UnsubscribeStep ==
    ASSUME IInv, begun' = begun \cup Serving', UNCHANGED dispatcherVars,
           NEW x \in Patterns, cloudi_unsubscribe(x)
    PROVE  Keeps
<1>1. p \in Instance /\ subscribes \in 0 .. MaxSubscribes
  BY DEF IInv, Typed
<1>2. Tail(p.lookup[x]) \in Seq(Functions)
  <2>1. p.lookup[x] \in Seq(Functions) /\ p.lookup[x] # <<>>
    BY <1>1 DEF Instance, cloudi_unsubscribe
  <2> QED  BY <2>1, HeadTailProperties
<1>3. /\ p' \in Instance /\ p'.buffer_call = p.buffer_call
      /\ p'.initialization_complete = p.initialization_complete
  BY <1>1, <1>2 DEF Instance, cloudi_unsubscribe, remove
<1> DEFINE m == [type |-> "unsubscribe", pattern |-> x]
<1>4. m \in ToDispatcher /\ m.type \notin Answering \cup {"polling"}
  BY DEF ToDispatcher, Answering
<1>5. to_dispatcher' = Written(m)
  BY DEF cloudi_unsubscribe
<1> HIDE DEF m
<1> QED  BY <1>1, <1>3, <1>4, <1>5, WriteStep DEF cloudi_unsubscribe

LEMMA ShutdownStep ==
    ASSUME IInv, begun' = begun \cup Serving', UNCHANGED dispatcherVars,
           cloudi_shutdown
    PROVE  Keeps
<1>1. p \in Instance /\ subscribes \in 0 .. MaxSubscribes
  BY DEF IInv, Typed
<1> DEFINE m == [type |-> "shutdown"]
<1>2. m \in ToDispatcher /\ m.type \notin Answering \cup {"polling"}
  BY DEF ToDispatcher, Answering
<1>3. /\ to_dispatcher' = Written(m)
      /\ UNCHANGED <<p, stack, alive, main, outcome, subscribes, open, to_api>>
  BY DEF cloudi_shutdown, apiVars
<1> HIDE DEF m
<1> QED  BY <1>1, <1>2, <1>3, WriteStep

LEMMA DestroyStep ==
    ASSUME IInv, begun' = begun \cup Serving', UNCHANGED dispatcherVars,
           cloudi_destroy
    PROVE  Keeps
<1>1. Typed /\ Followed /\ stack = <<>>
  BY DEF IInv, cloudi_destroy, InMain
<1>2. /\ UNCHANGED <<p, stack, main, outcome, subscribes, open, to_api,
                     to_dispatcher>>
      /\ alive' = FALSE
  BY DEF cloudi_destroy, socketVars
<1>3. Unread' = Unread /\ Replies' = Replies /\ One(to_dispatcher', Answering)
      /\ One(to_api', {"SEND"})
  BY <1>1, <1>2 DEF Followed, Answering, Unread, Replies
<1>4. to_api' \in Seq(ToAPI) /\ to_dispatcher' \in Seq(ToDispatcher)
      /\ p' \in Instance
  BY <1>1, <1>2 DEF Typed
<1> QED  BY <1>1, <1>2, <1>3, <1>4, DeathStep

LEMMA CrashStep ==
    ASSUME IInv, Crash
    PROVE  Keeps
<1>1. /\ stack' = <<>> /\ alive' = FALSE
      /\ UNCHANGED <<p, main, outcome, subscribes, open, to_api,
                     to_dispatcher>>
      /\ UNCHANGED dispatcherVars /\ begun' = begun
  BY DEF Crash, Dies, socketVars
<1>2. begun' = begun \cup Serving'
  <2>1. Len(stack') = 0
    BY <1>1
  <2>2. Serving' = {}
    BY <2>1 DEF Serving
  <2> QED  BY <1>1, <2>2
<1>3. Unread' = Unread /\ Replies' = Replies /\ One(to_dispatcher', Answering)
      /\ One(to_api', {"SEND"})
  BY <1>1 DEF IInv, Followed, Answering, Unread, Replies
<1>4. to_api' \in Seq(ToAPI) /\ to_dispatcher' \in Seq(ToDispatcher)
      /\ p' \in Instance
  BY <1>1 DEF IInv, Typed
<1> QED  BY <1>1, <1>2, <1>3, <1>4, DeathStep

(* A callback runs: it is the second of two.                               *)
LEMMA CallbackTop ==
    ASSUME stack \in Seq(Frame), Nested(stack), stack # <<>>,
           Top.kind = "callback"
    PROVE  /\ Len(stack) = 2 /\ Top = stack[2] /\ Top.request \in Requests
           /\ Serving = {Top.request}
<1>1. Len(stack) \in Nat /\ Len(stack) >= 1 /\ Len(stack) <= 3
  BY DEF Nested
<1>2. \A j \in Nat : j >= 1 /\ j <= 3 => j = 1 \/ j = 2 \/ j = 3
  OBVIOUS
<1>3. Len(stack) = 1 \/ Len(stack) = 2 \/ Len(stack) = 3
  BY <1>1, <1>2
<1>4. Len(stack) = 2
  <2>1. CASE Len(stack) = 1
    BY <2>1 DEF Top, Nested
  <2>2. CASE Len(stack) = 3
    BY <2>2 DEF Top, Nested
  <2> QED  BY <1>3, <2>1, <2>2
<1>5. Serving = ServedBy(stack)
  BY ServingHere
<1> QED  BY <1>4, <1>5 DEF Top, Nested, ServedBy

(* A call waits, in the main function or in a callback.                    *)
LEMMA NestedWait ==
    ASSUME NEW s \in Seq(Frame), Nested(s), s = <<>> \/ Len(s) = 2,
           NEW c \in 1 .. MaxCalls
    PROVE  LET t == Append(s, WaitFrame(c))
           IN  /\ t \in Seq(Frame) /\ Nested(t) /\ ServedBy(t) = ServedBy(s)
               /\ t # <<>>
               /\ IF s = <<>> THEN t[1].kind = "wait" /\ t[1].call # 0
                              ELSE t[1] = s[1]
<1> DEFINE w == WaitFrame(c)
           t == Append(s, w)
<1>1. w \in Frame /\ w.kind = "wait" /\ w.call = c /\ ~w.finite /\ c # 0
  BY FrameTypes, APIAssumption DEF WaitFrame
<1> HIDE DEF w
<1>2. t \in Seq(Frame) /\ Len(t) = Len(s) + 1 /\ t[Len(s) + 1] = w
      /\ \A k \in 1 .. Len(s) : t[k] = s[k]
  BY <1>1
<1>3. CASE s = <<>>
  <2>1. Len(s) = 0
    BY <1>3
  <2>2. Len(t) = 1 /\ t[1] = w
    BY <1>2, <2>1
  <2> HIDE DEF t
  <2>3. \A k \in 1 .. Len(t) : k = 1
    BY <2>2
  <2>4. ~(Len(t) >= 2) /\ ~(Len(t) >= 3) /\ Len(t) <= 3 /\ Len(t) >= 1
    BY <2>2
  <2>5. Nested(t)
    BY <1>1, <2>2, <2>3, <2>4 DEF Nested
  <2>6. ServedBy(t) = {} /\ ServedBy(s) = {}
    BY <2>1, <2>4 DEF ServedBy
  <2>7. t # <<>>
    BY <1>2, <2>4
  <2> QED  BY <1>1, <1>2, <1>3, <2>2, <2>5, <2>6, <2>7 DEF t, w
<1>4. CASE Len(s) = 2
  <2>1. Len(t) = 3 /\ t[1] = s[1] /\ t[2] = s[2] /\ t[3] = w
    BY <1>2, <1>4
  <2> HIDE DEF t
  <2>2. \A k \in 1 .. Len(t) : k \in 1 .. Len(s) \/ k = 3
    BY <1>4, <2>1
  <2>3. Len(t) >= 2 /\ Len(t) >= 3 /\ Len(t) <= 3 /\ Len(t) >= 1
    BY <2>1
  <2>4. Len(s) >= 1 /\ Len(s) >= 2
    BY <1>4
  <2>5. Nested(t)
    BY <1>1, <1>2, <2>1, <2>2, <2>3, <2>4 DEF Nested
  <2>6. ServedBy(t) = ServedBy(s)
    BY <2>1, <2>3, <2>4 DEF ServedBy
  <2>7. s # <<>> /\ t # <<>>
    BY <1>2, <2>3, <2>4
  <2> QED  BY <1>2, <2>1, <2>5, <2>6, <2>7 DEF t, w
<1> QED  BY <1>3, <1>4

LEMMA WaitsStep ==
    ASSUME IInv, begun' = begun \cup Serving', UNCHANGED dispatcherVars,
           NEW kind \in Blocking, NEW c \in CallId, Waits(kind, c)
    PROVE  Keeps
<1>1. /\ Typed /\ Nesting /\ stack \in Seq(Frame) /\ Nested(stack)
      /\ to_dispatcher \in Seq(ToDispatcher) /\ One(to_api, {"SEND"})
      /\ UNCHANGED <<p, alive, subscribes, open, to_api>>
      /\ c \in 1 .. MaxCalls
      /\ outcome \in [CallId -> {"unused", "waiting", "own", "other",
                                 "unanswered", "terminate", "error"}]
  BY DEF IInv, Typed, Nesting, Followed, Waits, CallId
<1>2. Unread' = Unread
  BY <1>1 DEF Unread
<1>3. stack = <<>> \/ Len(stack) = 2
  BY <1>1, CallbackTop DEF Waits, MayCall, InCallback, InMain
<1>m. alive /\ main \in {"start", "initialized", "timeout"}
  BY <1>1 DEF Waits, MayCall, InCallback, InMain, Nesting
<1>4. Serving \subseteq Requests /\ Serving = ServedBy(stack)
  BY <1>1, ServingTypes, ServingHere
<1>5. CASE WriteFails /\ CallReturns(c, "error", stack)
           /\ UNCHANGED <<to_dispatcher, stack>>
  <2>1. /\ outcome' \in [CallId -> {"unused", "waiting", "own", "other",
                                    "unanswered", "terminate", "error"}]
        /\ main' = IF stack = <<>> THEN "error" ELSE main
    BY <1>1, <1>5 DEF CallReturns
  <2>2. Serving' = Serving
    BY <1>5 DEF Serving
  <2>3. Typed'
    BY <1>1, <1>4, <1>5, <2>1, <2>2 DEF Typed, dispatcherVars
  <2>4. Nesting'
    BY <1>1, <1>5, <2>1 DEF Nesting
  <2>5. Replies' = Replies
    BY <1>5 DEF Replies
  <2> QED
    BY <1>1, <1>m, <1>2, <1>5, <2>2, <2>3, <2>4, <2>5, QuietThread
<1>6. ASSUME to_dispatcher' = Written([type |-> kind, call |-> c]),
             main' = main
      PROVE  /\ to_dispatcher' \in Seq(ToDispatcher)
             /\ Of(to_dispatcher', {"polling"}) = Of(to_dispatcher, {"polling"})
             /\ Of(to_dispatcher', Answering) = Of(to_dispatcher, Answering)
             /\ Replies' = Replies
  <2>1. /\ [type |-> kind, call |-> c] \in ToDispatcher
        /\ [type |-> kind, call |-> c].type \notin Answering \cup {"polling"}
    BY DEF ToDispatcher, Answering, Blocking, AnswerTo
  <2> QED  BY <1>1, <1>6, <2>1, WrittenOther DEF Replies, Answering
<1>7. CASE /\ to_dispatcher' = Written([type |-> kind, call |-> c])
           /\ main' = main
           /\ outcome' = [outcome EXCEPT ![c] = "unanswered"]
           /\ stack' = stack
  <2>1. outcome' \in [CallId -> {"unused", "waiting", "own", "other",
                                 "unanswered", "terminate", "error"}]
    BY <1>1, <1>7
  <2>2. Serving' = Serving
    BY <1>7 DEF Serving
  <2>3. Typed'
    BY <1>1, <1>4, <1>6, <1>7, <2>1, <2>2 DEF Typed, dispatcherVars
  <2>4. Nesting'
    BY <1>1, <1>7 DEF Nesting
  <2> QED
    BY <1>1, <1>m, <1>2, <1>6, <1>7, <2>2, <2>3, <2>4, QuietThread
<1>8. CASE /\ to_dispatcher' = Written([type |-> kind, call |-> c])
           /\ main' = main
           /\ outcome' = [outcome EXCEPT ![c] = "waiting"]
           /\ stack' = Append(stack, WaitFrame(c))
  <2>1. outcome' \in [CallId -> {"unused", "waiting", "own", "other",
                                 "unanswered", "terminate", "error"}]
    BY <1>1, <1>8
  <2>2. /\ stack' \in Seq(Frame) /\ Nested(stack')
        /\ ServedBy(stack') = ServedBy(stack) /\ stack' # <<>>
        /\ IF stack = <<>> THEN stack'[1].kind = "wait" /\ stack'[1].call # 0
                           ELSE stack'[1] = stack[1]
    BY <1>1, <1>3, <1>8, NestedWait
  <2>3. Serving' = Serving
    BY <1>4, <2>2, ServingIs DEF Serving
  <2>4. Typed'
    BY <1>1, <1>4, <1>6, <1>8, <2>1, <2>2, <2>3 DEF Typed, dispatcherVars
  <2>5. Nesting'
    BY <1>1, <1>m, <1>8, <2>2 DEF Nesting
  <2> QED
    BY <1>1, <1>m, <1>2, <1>6, <1>8, <2>3, <2>4, <2>5, QuietThread
<1> QED
  BY <1>5, <1>7, <1>8 DEF Waits

LEMMA NestedFirst ==
    ASSUME NEW f \in Frame, f.kind \in {"poll", "wait"},
           f.finite => f.kind = "poll"
    PROVE  /\ <<f>> \in Seq(Frame) /\ Nested(<<f>>) /\ ServedBy(<<f>>) = {}
           /\ <<f>> # <<>> /\ <<f>>[1] = f
<1>1. <<f>> \in Seq(Frame) /\ Len(<<f>>) = 1 /\ <<f>>[1] = f
  OBVIOUS
<1>2. <<f>> # <<>>
  OBVIOUS
<1> DEFINE s == <<f>>
<1>3. s \in Seq(Frame) /\ Len(s) = 1 /\ s[1] = f
  BY <1>1
<1> HIDE DEF s
<1>4. Nested(s) /\ ServedBy(s) = {}
  BY <1>3 DEF Nested, ServedBy
<1> QED  BY <1>1, <1>2, <1>4 DEF s

LEMMA InitializeStep ==
    ASSUME IInv, begun' = begun \cup Serving', UNCHANGED dispatcherVars,
           cloudi_initialize
    PROVE  Keeps
<1>1. /\ Typed /\ Nesting /\ to_dispatcher \in Seq(ToDispatcher)
      /\ One(to_api, {"SEND"}) /\ stack = <<>> /\ main = "start" /\ alive
      /\ UNCHANGED <<p, alive, outcome, subscribes, open, to_api>>
  BY DEF IInv, Typed, Followed, cloudi_initialize, InMain
<1>2. Unread' = Unread
  BY <1>1 DEF Unread
<1>3. Serving = {}
  <2>1. Len(stack) = 0
    BY <1>1
  <2> QED  BY <2>1 DEF Serving
<1>4. CASE /\ to_dispatcher' = Written([type |-> "init"])
           /\ stack' = <<WaitFrame(0)>> /\ main' = main
  <2>1. /\ [type |-> "init"] \in ToDispatcher
        /\ [type |-> "init"].type \notin Answering \cup {"polling"}
    BY DEF ToDispatcher, Answering
  <2>2. /\ to_dispatcher' \in Seq(ToDispatcher)
        /\ Of(to_dispatcher', {"polling"}) = Of(to_dispatcher, {"polling"})
        /\ Of(to_dispatcher', Answering) = Of(to_dispatcher, Answering)
        /\ Replies' = Replies
    BY <1>1, <1>4, <2>1, WrittenOther DEF Replies, Answering
  <2> DEFINE w == WaitFrame(0)
  <2>3. w \in Frame /\ w.kind = "wait" /\ w.call = 0 /\ ~w.finite
    BY FrameTypes, APIAssumption DEF WaitFrame
  <2> HIDE DEF w
  <2>4. /\ stack' \in Seq(Frame) /\ Nested(stack') /\ ServedBy(stack') = {}
        /\ stack' # <<>> /\ stack'[1] = w
    BY <1>4, <2>3, NestedFirst DEF w
  <2>5. Serving' = {}
    BY <2>4, ServingIs DEF Serving
  <2>6. Typed'
    BY <1>1, <1>4, <2>2, <2>4, <2>5 DEF Typed, dispatcherVars
  <2>7. Nesting'
    BY <1>1, <1>4, <2>3, <2>4 DEF Nesting
  <2> QED
    BY <1>1, <1>2, <1>3, <2>2, <2>5, <2>6, <2>7, QuietThread
<1>5. CASE main' = "error" /\ UNCHANGED <<to_dispatcher, stack>>
  <2>1. Serving' = Serving /\ Replies' = Replies
    BY <1>5 DEF Serving, Replies
  <2>2. Typed'
    BY <1>1, <1>3, <1>5, <2>1 DEF Typed, dispatcherVars
  <2>3. Nesting'
    BY <1>1, <1>5 DEF Nesting
  <2> QED
    BY <1>1, <1>2, <1>5, <2>1, <2>2, <2>3, QuietThread
<1> QED  BY <1>4, <1>5 DEF cloudi_initialize

LEMMA PollStep ==
    ASSUME IInv, begun' = begun \cup Serving', UNCHANGED dispatcherVars,
           NEW finite \in BOOLEAN, cloudi_poll(finite)
    PROVE  Keeps
<1>1. /\ Typed /\ Nesting /\ Followed /\ Dispatching
      /\ to_dispatcher \in Seq(ToDispatcher)
      /\ stack = <<>> /\ alive /\ main \in {"initialized", "timeout"}
      /\ UNCHANGED <<alive, outcome, subscribes, open, to_api>>
      /\ p \in Instance /\ One(to_api, {"SEND"})
  BY DEF IInv, Typed, Followed, cloudi_poll, InMain
<1>2. Unread' = Unread
  BY <1>1 DEF Unread
<1>3. Serving = {}
  <2>1. Len(stack) = 0
    BY <1>1
  <2> QED  BY <2>1 DEF Serving
<1> DEFINE f == PollFrame(finite)
<1>4. f \in Frame /\ f.kind = "poll"
  BY FrameTypes DEF PollFrame
<1> HIDE DEF f
<1>5. ASSUME stack' = <<f>>
      PROVE  /\ stack' \in Seq(Frame) /\ Nested(stack')
             /\ stack' # <<>> /\ stack'[1] = f /\ Serving' = {}
  <2>1. /\ stack' \in Seq(Frame) /\ Nested(stack') /\ ServedBy(stack') = {}
        /\ stack' # <<>> /\ stack'[1] = f
    BY <1>4, <1>5, NestedFirst
  <2> QED  BY <2>1, ServingIs DEF Serving
<1>6. CASE main' \in {"success", "error"} /\ UNCHANGED <<p, stack, to_dispatcher>>
  <2>1. Serving' = Serving /\ Replies' = Replies
    BY <1>6 DEF Serving, Replies
  <2>2. Typed'
    BY <1>1, <1>3, <1>6, <2>1 DEF Typed, dispatcherVars
  <2>3. Nesting'
    BY <1>1, <1>6 DEF Nesting
  <2> QED
    BY <1>1, <1>2, <1>6, <2>1, <2>2, <2>3, QuietThread
<1>7. CASE stack' = <<f>> /\ UNCHANGED <<p, main, to_dispatcher>>
  <2>1. Replies' = Replies
    BY <1>7 DEF Replies
  <2>2. Typed'
    BY <1>1, <1>5, <1>7 DEF Typed, dispatcherVars
  <2>3. Nesting'
    BY <1>1, <1>4, <1>5, <1>7 DEF Nesting
  <2> QED
    BY <1>1, <1>2, <1>3, <1>5, <1>7, <2>1, <2>2, <2>3, QuietThread
<1>8. CASE /\ ~p.initialization_complete
           /\ to_dispatcher' = Written([type |-> "polling"])
           /\ p' = [p EXCEPT !.initialization_complete = TRUE]
           /\ stack' = <<f>> /\ main' = main
  <2> DEFINE m == [type |-> "polling"]
  <2>1. m \in ToDispatcher /\ m.type = "polling" /\ m.type \notin Answering
    BY DEF ToDispatcher, Answering
  <2>2. Of(to_dispatcher, {"polling"}) = {} /\ d.init_timer
    BY <1>1, <1>8 DEF Dispatching
  <2> HIDE DEF m
  <2>3. /\ to_dispatcher' \in Seq(ToDispatcher)
        /\ One(to_dispatcher', {"polling"})
        /\ Of(to_dispatcher', Answering) = Of(to_dispatcher, Answering)
        /\ Replies' = Replies
    <3>1. CASE open
      <4>1. to_dispatcher' = Append(to_dispatcher, m)
        BY <1>8, <3>1 DEF Written, m
      <4>2. to_dispatcher' \in Seq(ToDispatcher)
        BY <1>1, <2>1, <4>1
      <4> QED
        BY <1>1, <2>1, <2>2, <4>1, <4>2, AppendOther, AppendOnly
           DEF Replies, Answering
    <3>2. CASE ~open
      BY <1>1, <1>8, <3>2 DEF Written, Replies, Dispatching
    <3> QED  BY <3>1, <3>2
  <2>4. /\ p' \in Instance /\ p'.buffer_call = p.buffer_call
        /\ p'.initialization_complete
    BY <1>1, <1>8 DEF Instance
  <2>5. Typed'
    BY <1>1, <1>5, <1>8, <2>3, <2>4 DEF Typed, dispatcherVars
  <2>6. Nesting'
    BY <1>1, <1>4, <1>5, <1>8 DEF Nesting
  <2>7. RequestIntact'
    BY <1>5, <1>8 DEF RequestIntact
  <2>8. Lost'
    <3>1. d.request_data = NoRequest /\ d' = d
      BY <1>1, <2>2 DEF Dispatching, dispatcherVars
    <3> QED  BY <3>1 DEF Lost
  <2>9. One(to_dispatcher', Answering)
    BY <1>1, <2>3, OneOf DEF Followed, Answering
  <2> QED
    BY <1>1, <1>2, <1>3, <1>5, <1>8, <2>2, <2>3, <2>4, <2>5, <2>6,
       <2>7, <2>8, <2>9, ThreadKeeps
<1> QED  BY <1>6, <1>7, <1>8 DEF cloudi_poll, f

(* The answer of the callback that runs is written.                        *)
LEMMA AppendReply ==
    ASSUME NEW q \in Seq(ToDispatcher), Of(q, Answering) = {},
           NEW m \in ToDispatcher, m.type \in Answering
    PROVE  LET w == Append(q, m)
           IN  /\ w \in Seq(ToDispatcher)
               /\ Of(w, {"polling"}) = Of(q, {"polling"})
               /\ One(w, Answering)
               /\ Carried(w, Answering) = {m.request}
<1>1. m.type \notin {"polling"}
  BY DEF Answering
<1>2. Append(q, m) \in Seq(ToDispatcher)
  OBVIOUS
<1> QED  BY <1>1, <1>2, AppendOther, AppendOnly

LEMMA ReplyWritten ==
    ASSUME IInv, stack # <<>>, Top.kind = "callback",
           NEW type \in Answering
    PROVE  LET w == Written([type |-> type, request |-> Top.request])
           IN  /\ w \in Seq(ToDispatcher)
               /\ Of(w, {"polling"}) = Of(to_dispatcher, {"polling"})
               /\ One(w, Answering)
               /\ Carried(w, Answering) = IF open THEN Serving ELSE {}
               /\ Serving = {Top.request}
<1> DEFINE m == [type |-> type, request |-> Top.request]
<1>1. /\ stack \in Seq(Frame) /\ Nested(stack) /\ Followed
      /\ to_dispatcher \in Seq(ToDispatcher)
  BY DEF IInv, Typed, Nesting
<1>2. Top.request \in Requests /\ Serving = {Top.request}
  BY <1>1, CallbackTop
<1>3. Replies = {} /\ Of(to_dispatcher, Answering) = {}
  <2>1. Replies = {}
    BY <1>1, <1>2 DEF Followed
  <2> QED  BY <2>1, CarriedNone DEF Replies, Answering
<1>4. m \in ToDispatcher /\ m.type \in Answering /\ m.request = Top.request
  BY <1>2 DEF ToDispatcher, Answering
<1> HIDE DEF m
<1>5. CASE open
  <2>1. Written(m) = Append(to_dispatcher, m)
    BY <1>5 DEF Written
  <2> QED
    BY <1>1, <1>2, <1>3, <1>4, <1>5, <2>1, AppendReply DEF m
<1>6. CASE ~open
  <2>1. Written(m) = to_dispatcher
    BY <1>6 DEF Written
  <2> QED
    BY <1>1, <1>2, <1>3, <1>6, <2>1 DEF Replies, Answering, Followed, m
<1> QED  BY <1>5, <1>6

(* The callback is over, and its answer was written.                       *)
LEMMA CallbackEnds ==
    ASSUME IInv, begun' = begun \cup Serving', UNCHANGED dispatcherVars,
           stack # <<>>, Top.kind = "callback",
           NEW type \in Answering,
           to_dispatcher' = Written([type |-> type, request |-> Top.request]),
           stack' = Pop(stack),
           UNCHANGED <<p, alive, main, outcome, subscribes, open, to_api>>
    PROVE  Keeps
<1>1. /\ stack \in Seq(Frame) /\ Nested(stack) /\ Followed /\ Typed /\ Nesting
      /\ Dispatching
  BY DEF IInv, Typed, Nesting
<1>2. /\ to_dispatcher' \in Seq(ToDispatcher)
      /\ Of(to_dispatcher', {"polling"}) = Of(to_dispatcher, {"polling"})
      /\ One(to_dispatcher', Answering)
      /\ Replies' = IF open THEN Serving ELSE {}
      /\ Serving = {Top.request}
  BY ReplyWritten DEF Replies, Answering
<1>3. Len(stack) = 2
  BY <1>1, CallbackTop
<1>4. /\ stack' \in Seq(Frame) /\ Nested(stack') /\ Len(stack') = 1
      /\ stack'[1] = stack[1] /\ stack' # <<>>
  <2>1. /\ stack' \in Seq(Frame) /\ Len(stack') = Len(stack) - 1
        /\ \A k \in 1 .. Len(stack) - 1 : stack'[k] = stack[k]
    BY <1>1, PopIs
  <2>2. Len(stack') = 1
    BY <1>3, <2>1
  <2>3. stack'[1] = stack[1]
    BY <1>3, <2>1
  <2>4. Nested(stack')
    BY <1>1, NestedPop
  <2>5. stack' # <<>>
    <3>1. Len(<<>>) = 0
      OBVIOUS
    <3>2. 0 # 1
      OBVIOUS
    <3> QED  BY <2>2, <3>1, <3>2, Zenon
  <2> QED  BY <2>1, <2>2, <2>3, <2>4, <2>5
<1>5. Serving' = {}
  <2>1. Serving' = ServedBy(stack')
    BY <1>4, ServingIs DEF Serving
  <2> QED  BY <1>4, <2>1 DEF ServedBy
<1>6. Unread' = Unread
  BY DEF Unread
<1>7. Typed'
  BY <1>1, <1>2, <1>4, <1>5 DEF Typed, dispatcherVars
<1>8. Nesting'
  BY <1>1, <1>4 DEF Nesting
<1>9. RequestIntact'
  BY <1>5 DEF RequestIntact
<1>10. Lost'
  <2>1. CASE open
    BY <1>2, <2>1 DEF Lost
  <2>2. CASE ~open
    <3>1. ~Running
      BY <1>1, <2>2 DEF Dispatching
    <3>2. ~Handling'
      BY <3>1 DEF Running, Handling, dispatcherVars
    <3> QED  BY <3>2 DEF Lost
  <2> QED  BY <2>1, <2>2
<1>11. /\ One(to_dispatcher', {"polling"})
       /\ (Of(to_dispatcher', {"polling"}) # {} =>
             p'.initialization_complete /\ d.init_timer)
       /\ One(to_api', {"SEND"})
  BY <1>1, <1>2, OneOf DEF Dispatching, Followed
<1> QED
  BY <1>2, <1>5, <1>6, <1>7, <1>8, <1>9, <1>10, <1>11, ThreadKeeps

LEMMA AnsweredStep ==
    ASSUME IInv, begun' = begun \cup Serving', UNCHANGED dispatcherVars,
           NEW type \in Answering, NEW kind, Answered(type, kind)
    PROVE  Keeps
<1>1. /\ stack # <<>> /\ Top.kind = "callback"
      /\ to_dispatcher' = Written([type |-> type, request |-> Top.request])
      /\ UNCHANGED <<p, subscribes, open, to_api>>
  BY DEF Answered, InCallback
<1>2. CASE kind = TypeOf[Top.request]
  BY <1>1, <1>2, CallbackEnds DEF Answered
<1>3. CASE kind # TypeOf[Top.request]
  <2>1. stack' = <<>> /\ alive' = FALSE /\ UNCHANGED <<main, outcome>>
    BY <1>3 DEF Answered, Raises
  <2>2. /\ to_dispatcher' \in Seq(ToDispatcher)
        /\ Of(to_dispatcher', {"polling"}) = Of(to_dispatcher, {"polling"})
        /\ One(to_dispatcher', Answering)
        /\ Replies' = IF open THEN Serving ELSE {}
    BY <1>1, ReplyWritten DEF Replies, Answering
  <2>3. /\ to_api \in Seq(ToAPI) /\ One(to_api, {"SEND"}) /\ p \in Instance
        /\ Unread' = Unread /\ Replies' \subseteq Replies \cup Serving
    BY <1>1, <2>2 DEF IInv, Typed, Followed, Unread
  <2> QED  BY <1>1, <2>1, <2>2, <2>3, DeathStep
<1> QED  BY <1>2, <1>3

LEMMA CallbackStep ==
    ASSUME IInv, begun' = begun \cup Serving', UNCHANGED dispatcherVars,
           callback
    PROVE  Keeps
<1>1. /\ stack # <<>> /\ Top.kind = "callback"
      /\ UNCHANGED <<p, subscribes, open, to_api>>
  BY DEF callback
<1>2. CASE /\ to_dispatcher' = Written([type |-> "return",
                                        request |-> Top.request])
           /\ stack' = Pop(stack)
           /\ UNCHANGED <<alive, main, outcome>>
  <2>1. "return" \in Answering
    BY DEF Answering
  <2> QED  BY <1>1, <1>2, <2>1, CallbackEnds
<1>3. CASE Raises /\ UNCHANGED to_dispatcher
  <2>1. /\ to_api \in Seq(ToAPI) /\ One(to_api, {"SEND"}) /\ p \in Instance
        /\ to_dispatcher \in Seq(ToDispatcher)
        /\ One(to_dispatcher, Answering)
        /\ Unread' = Unread /\ Replies' = Replies
    BY <1>1, <1>3 DEF IInv, Typed, Followed, Unread, Replies, Answering
  <2> QED  BY <1>1, <1>3, <2>1, DeathStep DEF Raises
<1> QED  BY <1>2, <1>3 DEF callback

(* Every step of the thread keeps the invariant.                           *)
LEMMA ThreadStep ==
    ASSUME IInv, Thread
    PROVE  Keeps
<1>1. begun' = begun \cup Serving' /\ UNCHANGED dispatcherVars
  BY DEF Thread
<1>2. CASE PollRequest
  BY <1>1, <1>2, ReadSendStep, ReadAnswerStep, ReadTermStep, ReadReinitStep,
     ReadKeepaliveStep, ReadNullStep, PollTimeoutStep, PollFailsStep
     DEF PollRequest, PollRead
<1>3. CASE \E x \in Patterns : \/ \E f \in Functions : cloudi_subscribe(x, f)
                               \/ cloudi_unsubscribe(x)
  BY <1>1, <1>3, SubscribeStep, UnsubscribeStep
<1>4. ASSUME NEW c \in CallId,
             \/ cloudi_subscribe_count(c) \/ cloudi_send_async(c)
             \/ cloudi_send_sync(c) \/ cloudi_mcast_async(c)
             \/ cloudi_recv_async(c)
      PROVE  Keeps
  <2>1. PICK kind \in Blocking : Waits(kind, c)
    BY <1>4 DEF cloudi_subscribe_count, cloudi_send_async, cloudi_send_sync,
                cloudi_mcast_async, cloudi_recv_async, Blocking, AnswerTo
  <2> QED  BY <1>1, <2>1, WaitsStep
<1>5. CASE \/ cloudi_return \/ cloudi_return_async \/ cloudi_return_sync
           \/ cloudi_forward \/ cloudi_forward_async \/ cloudi_forward_sync
  <2>1. \E type \in Answering : \E kind \in {"async", "sync", TypeOf[Top.request]} :
           Answered(type, kind)
    BY <1>5 DEF cloudi_return, cloudi_return_async, cloudi_return_sync,
                cloudi_forward, cloudi_forward_async, cloudi_forward_sync,
                Answering
  <2> QED  BY <1>1, <2>1, AnsweredStep
<1>6. CASE \/ cloudi_shutdown \/ callback \/ cloudi_initialize
           \/ cloudi_destroy
           \/ \E finite \in BOOLEAN : cloudi_poll(finite)
  BY <1>1, <1>6, ShutdownStep, CallbackStep, InitializeStep, DestroyStep,
     PollStep
<1> QED
  BY <1>2, <1>3, <1>4, <1>5, <1>6 DEF Thread, ServiceCode

-----------------------------------------------------------------------------
(* The steps of the dispatcher                                             *)

\* What every step of it leaves alone.
Apart == UNCHANGED <<apiVars, open, begun>>

LEMMA ApartIs ==
    ASSUME Apart
    PROVE  /\ UNCHANGED <<p, stack, alive, main, outcome, subscribes, open,
                          begun>>
           /\ Serving' = Serving
BY DEF Apart, apiVars, Serving

\* A step that gives the OS process no request and takes no answer of it.
Quiet ==
    /\ UNCHANGED <<d.request_data, d.queue_requests, d.init_timer>>
    /\ Running' => Running
    /\ d'.state \in {"CONNECT", "INIT_WAIT"} => d.init_timer
    /\ Handling' => Handling \/ d.init_timer
    /\ \A r \in Requests : status'[r] = "running" <=> status[r] = "running"
    /\ \A r \in Requests : status[r] = "answered" => status'[r] = "answered"
    /\ One(to_api', {"SEND"}) /\ Unread' = Unread
    /\ One(to_dispatcher', Answering) /\ Replies' = Replies
    /\ One(to_dispatcher', {"polling"})
    /\ Of(to_dispatcher, {"polling"}) = {} =>
          Of(to_dispatcher', {"polling"}) = {}

LEMMA QuietDispatcher ==
    ASSUME IInv, Apart, Typed', Quiet
    PROVE  IInv'
<1>1. /\ Typed /\ Nesting /\ Dispatching /\ Followed /\ RequestIntact /\ Lost
      /\ UNCHANGED <<p, stack, alive, main, open, begun>>
      /\ Serving' = Serving
  BY ApartIs DEF IInv
<1>2. Nesting'
  BY <1>1 DEF Nesting
<1>3. Dispatching'
  BY <1>1 DEF Dispatching, Quiet
<1>4. Followed'
  <2>1. /\ One(to_api', {"SEND"}) /\ One(to_dispatcher', {"return", "forward"})
        /\ Unread' = Unread /\ Replies' = Replies
        /\ d'.request_data = d.request_data
    BY DEF Quiet, Answering
  <2>2. \A r \in begun' : status'[r] \in {"running", "answered"}
    BY <1>1 DEF Followed, Quiet, Typed
  <2> QED  BY <1>1, <2>1, <2>2 DEF Followed
<1>5. RequestIntact'
  BY <1>1 DEF RequestIntact
<1>6. Lost'
  BY <1>1 DEF Lost, Quiet, Dispatching
<1> QED  BY <1>2, <1>3, <1>4, <1>5, <1>6 DEF IInv

(* A message of the API is read.                                           *)
LEMMA ReceivesIs ==
    ASSUME IInv, NEW types, Receives(types)
    PROVE  /\ Message \in ToDispatcher /\ Message.type \in types
           /\ to_dispatcher' \in Seq(ToDispatcher)
           /\ One(to_dispatcher', Answering)
           /\ One(to_dispatcher', {"polling"})
           /\ Of(to_dispatcher, {"polling"}) = {} =>
                 Of(to_dispatcher', {"polling"}) = {}
           /\ Message.type = "polling" =>
                 /\ Of(to_dispatcher', {"polling"}) = {}
                 /\ Of(to_dispatcher, {"polling"}) # {}
           /\ Message.type \notin Answering => Replies' = Replies
           /\ Message.type \in Answering =>
                 Message.request \in Replies /\ Replies' = {}
<1>1. /\ to_dispatcher \in Seq(ToDispatcher) /\ to_dispatcher # <<>>
      /\ One(to_dispatcher, Answering) /\ One(to_dispatcher, {"polling"})
      /\ to_dispatcher' = Tail(to_dispatcher)
      /\ Message.type \in types
  BY DEF IInv, Typed, Followed, Dispatching, Receives, Message, Answering
<1>2. /\ 1 \in 1 .. Len(to_dispatcher) /\ Message = to_dispatcher[1]
      /\ Message \in ToDispatcher
      /\ \A k \in 1 .. 1 : k = 1
  <2>1. Len(to_dispatcher) \in Nat /\ Len(to_dispatcher) >= 1
    BY <1>1
  <2>2. Message \in ToDispatcher
    BY <1>1, HeadTailProperties DEF Message
  <2> QED  BY <1>1, <2>1, <2>2 DEF Message
<1>3. to_dispatcher' = SubSeq(to_dispatcher, 1 + 1, Len(to_dispatcher))
  <2>1. to_dispatcher' = SubSeq(to_dispatcher, 2, Len(to_dispatcher))
    BY <1>1, TailIsSubSeq
  <2> QED  BY <2>1
<1> DEFINE q == to_dispatcher
           rest == SubSeq(q, 1 + 1, Len(q))
<1>4. ASSUME NEW T
      PROVE  /\ rest \in Seq(ToDispatcher)
             /\ One(q, T) => One(rest, T)
             /\ Of(q, T) = {} => Of(rest, T) = {}
             /\ (\A n \in 1 .. 1 : q[n].type \notin T) =>
                   Carried(rest, T) = Carried(q, T)
             /\ One(q, T) /\ (\E n \in 1 .. 1 : q[n].type \in T) =>
                   Of(rest, T) = {} /\ Carried(rest, T) = {}
  BY <1>1, <1>2, ReadFirst
<1>5. \A T : Message.type \in T => 1 \in Of(q, T)
  BY <1>2 DEF Of
<1> HIDE DEF rest
<1>6. /\ rest \in Seq(ToDispatcher) /\ One(rest, Answering)
      /\ One(rest, {"polling"})
      /\ Of(q, {"polling"}) = {} => Of(rest, {"polling"}) = {}
  BY <1>1, <1>4
<1>7. Message.type = "polling" =>
         Of(rest, {"polling"}) = {} /\ Of(q, {"polling"}) # {}
  BY <1>1, <1>2, <1>4, <1>5
<1>8. Message.type \notin Answering =>
         Carried(rest, Answering) = Carried(q, Answering)
  BY <1>2, <1>4
<1>9. Message.type \in Answering =>
         /\ Message.request \in Carried(q, Answering)
         /\ Carried(rest, Answering) = {}
  BY <1>1, <1>2, <1>4, <1>5 DEF Carried
<1> QED
  BY <1>1, <1>2, <1>3, <1>6, <1>7, <1>8, <1>9 DEF Replies, Answering, rest

(* A message that is not a request is written.                             *)
LEMMA SendIs ==
    ASSUME IInv, NEW m \in ToAPI, m.type # "SEND", send(m)
    PROVE  /\ to_api' \in Seq(ToAPI) /\ One(to_api', {"SEND"})
           /\ Unread' = Unread
<1>1. to_api \in Seq(ToAPI) /\ One(to_api, {"SEND"})
  BY DEF IInv, Typed, Followed
<1>2. to_api' = Append(to_api, m) /\ to_api' \in Seq(ToAPI)
  BY <1>1 DEF send
<1>3. m.type \notin {"SEND"}
  OBVIOUS
<1>4. /\ Of(to_api', {"SEND"}) = Of(to_api, {"SEND"})
      /\ Carried(to_api', {"SEND"}) = Carried(to_api, {"SEND"})
  BY <1>1, <1>2, <1>3, AppendOther
<1> QED  BY <1>1, <1>2, <1>4, OneOf DEF Unread

(* The dispatcher terminates.                                              *)
LEMMA TerminateIs ==
    ASSUME IInv, NEW closed \in BOOLEAN, terminate(closed), Running
    PROVE  /\ d' \in Dispatcher
           /\ d'.state \in {"closing", "terminating"}
           /\ UNCHANGED <<d.request_data, d.queue_requests, d.init_timer>>
           /\ status' \in [Requests -> Status]
           /\ \A r \in Requests :
                 /\ status'[r] = "running" <=> status[r] = "running"
                 /\ status[r] = "answered" => status'[r] = "answered"
           /\ to_api' \in Seq(ToAPI) /\ One(to_api', {"SEND"})
           /\ Unread' = Unread
           /\ joined' = joined /\ outstanding' = {}
<1>1. d \in Dispatcher /\ status \in [Requests -> Status]
      /\ to_api \in Seq(ToAPI) /\ One(to_api, {"SEND"})
  BY DEF IInv, Typed, Followed
<1>2. /\ d' = [d EXCEPT !.state = IF closed THEN "closing" ELSE "terminating"]
      /\ IF closed THEN UNCHANGED to_api ELSE send([type |-> "TERM"])
      /\ status' = [r \in Requests |->
                      IF status[r] \in {"inflight", "queued"}
                      THEN "dropped" ELSE status[r]]
      /\ outstanding' = {} /\ joined' = joined
  BY DEF terminate
<1>3. /\ d' \in Dispatcher
      /\ d'.state \in {"closing", "terminating"}
      /\ UNCHANGED <<d.request_data, d.queue_requests, d.init_timer>>
  BY <1>1, <1>2 DEF Dispatcher
<1>4. /\ status' \in [Requests -> Status]
      /\ \A r \in Requests :
            /\ status'[r] = "running" <=> status[r] = "running"
            /\ status[r] = "answered" => status'[r] = "answered"
  BY <1>1, <1>2 DEF Status
<1>5. /\ to_api' \in Seq(ToAPI) /\ One(to_api', {"SEND"})
      /\ Unread' = Unread
  <2>1. CASE closed
    BY <1>1, <1>2, <2>1 DEF Unread
  <2>2. CASE ~closed
    <3>1. [type |-> "TERM"] \in ToAPI /\ [type |-> "TERM"].type # "SEND"
      BY DEF ToAPI
    <3> QED  BY <1>2, <2>2, <3>1, SendIs
  <2> QED  BY <2>1, <2>2
<1> QED  BY <1>2, <1>3, <1>4, <1>5

(* It terminates, after it read a message or not.                          *)
LEMMA TerminateStep ==
    ASSUME IInv, Apart, Running, NEW closed \in BOOLEAN, terminate(closed),
           \/ UNCHANGED to_dispatcher
           \/ \E types : Receives(types) /\ types \cap Answering = {}
    PROVE  IInv'
<1>1. /\ d' \in Dispatcher
      /\ d'.state \in {"closing", "terminating"}
      /\ UNCHANGED <<d.request_data, d.queue_requests, d.init_timer>>
      /\ status' \in [Requests -> Status]
      /\ \A r \in Requests :
            /\ status'[r] = "running" <=> status[r] = "running"
            /\ status[r] = "answered" => status'[r] = "answered"
      /\ to_api' \in Seq(ToAPI) /\ One(to_api', {"SEND"})
      /\ Unread' = Unread
      /\ joined' = joined /\ outstanding' = {}
  BY TerminateIs
<1>2. /\ to_dispatcher' \in Seq(ToDispatcher)
      /\ One(to_dispatcher', Answering) /\ Replies' = Replies
      /\ One(to_dispatcher', {"polling"})
      /\ Of(to_dispatcher, {"polling"}) = {} =>
            Of(to_dispatcher', {"polling"}) = {}
  <2>1. CASE UNCHANGED to_dispatcher
    BY <2>1 DEF IInv, Typed, Followed, Dispatching, Answering, Replies
  <2>2. CASE \E types : Receives(types) /\ types \cap Answering = {}
    BY <2>2, ReceivesIs
  <2> QED  BY <2>1, <2>2
<1>3. Typed'
  BY <1>1, <1>2, ApartIs DEF IInv, Typed
<1>4. Quiet
  BY <1>1, <1>2 DEF Quiet, Running, Handling
<1> QED  BY <1>3, <1>4, QuietDispatcher

(* Any other step that leaves the request where it is.                     *)
LEMMA PlainStep ==
    ASSUME IInv, Apart,
           \/ UNCHANGED to_dispatcher
           \/ \E types : Receives(types) /\ types \cap Answering = {},
           to_api' \in Seq(ToAPI), One(to_api', {"SEND"}), Unread' = Unread,
           d' \in Dispatcher,
           UNCHANGED <<d.request_data, d.queue_requests, d.init_timer>>,
           \/ d'.state = d.state
           \/ /\ d.state \in {"CONNECT", "INIT_WAIT"}
              /\ d'.state \in {"INIT_WAIT", "HANDLE"},
           status' \in [Requests -> Status],
           \A r \in Requests :
              /\ status'[r] = "running" <=> status[r] = "running"
              /\ status[r] = "answered" => status'[r] = "answered",
           joined' \in [Patterns -> Nat],
           outstanding' \subseteq [type : Blocking, call : CallId]
    PROVE  IInv'
<1>1. /\ to_dispatcher' \in Seq(ToDispatcher)
      /\ One(to_dispatcher', Answering) /\ Replies' = Replies
      /\ One(to_dispatcher', {"polling"})
      /\ Of(to_dispatcher, {"polling"}) = {} =>
            Of(to_dispatcher', {"polling"}) = {}
  <2>1. CASE UNCHANGED to_dispatcher
    BY <2>1 DEF IInv, Typed, Followed, Dispatching, Answering, Replies
  <2>2. CASE \E types : Receives(types) /\ types \cap Answering = {}
    BY <2>2, ReceivesIs
  <2> QED  BY <2>1, <2>2
<1>2. Typed'
  BY <1>1, ApartIs DEF IInv, Typed
<1>3. Quiet
  BY <1>1 DEF Quiet, Running, Handling, IInv, Dispatching
<1> QED  BY <1>2, <1>3, QuietDispatcher

LEMMA Unsent ==
    ASSUME IInv, UNCHANGED to_api
    PROVE  to_api' \in Seq(ToAPI) /\ One(to_api', {"SEND"}) /\ Unread' = Unread
BY DEF IInv, Typed, Followed, Unread

LEMMA Dispatchers ==
    ASSUME IInv
    PROVE  /\ d \in Dispatcher /\ status \in [Requests -> Status]
           /\ joined \in [Patterns -> Nat]
           /\ outstanding \subseteq [type : Blocking, call : CallId]
           /\ Handling => Running
BY DEF IInv, Typed, Handling, Running

(* MESSAGE_INIT, and over UDP the first keepalive, are written.            *)
LEMMA ConnectionInitIs ==
    ASSUME IInv, NEW s \in Dispatcher, connection_init(s)
    PROVE  /\ to_api' \in Seq(ToAPI) /\ One(to_api', {"SEND"})
           /\ Unread' = Unread
<1> DEFINE m == [type |-> "INIT", call |-> 0, count |-> s.process_count]
           k == [type |-> "KEEPALIVE"]
<1>1. m \in ToAPI /\ k \in ToAPI /\ m.type \notin {"SEND"}
      /\ k.type \notin {"SEND"}
  BY APIAssumption DEF ToAPI, Answers, AnswerTo, Dispatcher
<1>2. to_api' = to_api \o <<m>> \o (IF p.use_header THEN <<>> ELSE <<k>>)
  BY DEF connection_init
<1>3. to_api \in Seq(ToAPI) /\ One(to_api, {"SEND"})
  BY DEF IInv, Typed, Followed
<1> HIDE DEF m, k
<1> DEFINE q == Append(to_api, m)
<1>4. to_api \o <<m>> = q /\ q \in Seq(ToAPI)
  BY <1>1, <1>3, AppendIsConcat, AppendProperties
<1>5. /\ Of(q, {"SEND"}) = Of(to_api, {"SEND"})
      /\ Carried(q, {"SEND"}) = Carried(to_api, {"SEND"})
  BY <1>1, <1>3, AppendOther
<1> HIDE DEF q
<1>6. CASE p.use_header
  <2>1. to_api' = q
    BY <1>2, <1>4, <1>6, ConcatEmptySeq
  <2> QED  BY <1>3, <1>4, <1>5, <2>1, OneOf DEF Unread
<1>7. CASE ~p.use_header
  <2>0. Append(q, k) = q \o <<k>> /\ Append(q, k) \in Seq(ToAPI)
    BY <1>1, <1>4, AppendIsConcat, AppendProperties
  <2>1. to_api' = Append(q, k) /\ to_api' \in Seq(ToAPI)
    BY <1>2, <1>4, <1>7, <2>0
  <2>2. /\ Of(to_api', {"SEND"}) = Of(q, {"SEND"})
        /\ Carried(to_api', {"SEND"}) = Carried(q, {"SEND"})
    BY <1>1, <1>4, <2>1, AppendOther
  <2> QED  BY <1>3, <1>5, <2>1, <2>2, OneOf DEF Unread
<1> QED  BY <1>6, <1>7

LEMMA ConnectingStep ==
    ASSUME IInv, Apart, HandleInit \/ InitBegin
    PROVE  IInv'
<1>1. /\ d \in Dispatcher /\ status \in [Requests -> Status]
      /\ joined \in [Patterns -> Nat]
      /\ outstanding \subseteq [type : Blocking, call : CallId]
      /\ UNCHANGED <<status, joined, outstanding>>
  BY Dispatchers DEF HandleInit, InitBegin
<1>2. \/ UNCHANGED to_dispatcher
      \/ \E types : Receives(types) /\ types \cap Answering = {}
  <2>1. CASE HandleInit
    <3>1. Receives({"init"}) /\ {"init"} \cap Answering = {}
      BY <2>1 DEF HandleInit, Answering
    <3> QED  BY <3>1
  <2>2. CASE InitBegin
    BY <2>2 DEF InitBegin
  <2> QED  BY <2>1, <2>2
<1>3. CASE d.state \in {"CONNECT", "INIT_WAIT"} /\ connection_init(d)
  <2>1. /\ to_api' \in Seq(ToAPI) /\ One(to_api', {"SEND"})
        /\ Unread' = Unread
    BY <1>1, <1>3, ConnectionInitIs
  <2>2. /\ d' \in Dispatcher /\ d'.state = "HANDLE"
        /\ UNCHANGED <<d.request_data, d.queue_requests, d.init_timer>>
    BY <1>1, <1>3 DEF connection_init, Dispatcher
  <2> QED  BY <1>1, <1>2, <1>3, <2>1, <2>2, PlainStep
<1>4. CASE /\ d.state = "CONNECT" /\ UNCHANGED to_api
           /\ \/ d' = [d EXCEPT !.state = "INIT_WAIT"]
              \/ d' = [d EXCEPT !.initialize = TRUE]
  <2>1. /\ to_api' \in Seq(ToAPI) /\ One(to_api', {"SEND"})
        /\ Unread' = Unread
    BY <1>4, Unsent
  <2>2. /\ d' \in Dispatcher /\ (d'.state = "INIT_WAIT" \/ d'.state = d.state)
        /\ UNCHANGED <<d.request_data, d.queue_requests, d.init_timer>>
    BY <1>1, <1>4 DEF Dispatcher
  <2> QED  BY <1>1, <1>2, <1>4, <2>1, <2>2, PlainStep
<1> QED  BY <1>3, <1>4 DEF HandleInit, InitBegin

(* subscribe, unsubscribe, the calls that wait, and their answers.         *)
LEMMA CallsStep ==
    ASSUME IInv, Apart,
           \/ HandleSubscribe \/ HandleUnsubscribe \/ HandleSubscribeCount
           \/ InvalidState \/ HandleCall \/ CallEnds \/ HandleShutdown
           \/ HandleKeepalive
    PROVE  IInv'
<1>1. /\ d \in Dispatcher /\ status \in [Requests -> Status]
      /\ joined \in [Patterns -> Nat]
      /\ outstanding \subseteq [type : Blocking, call : CallId]
  BY Dispatchers
<1>2. Running
  BY Dispatchers DEF HandleSubscribe, HandleUnsubscribe, HandleSubscribeCount,
        InvalidState, HandleCall, CallEnds, HandleShutdown, HandleKeepalive
<1>3. ASSUME NEW m \in [type : Blocking, call : CallId], Reply(m)
      PROVE  to_api' \in Seq(ToAPI) /\ One(to_api', {"SEND"})
             /\ Unread' = Unread
  <2> DEFINE a == [type |-> AnswerTo[m.type], call |-> m.call, count |-> 0]
  <2>1. a \in ToAPI /\ a.type # "SEND"
    <3>1. m.call \in 0 .. MaxCalls /\ AnswerTo[m.type] \in Answers
      BY APIAssumption DEF CallId, Answers, Blocking
    <3>2. AnswerTo[m.type] # "SEND"
      BY <3>1 DEF Answers, AnswerTo
    <3> QED  BY <3>1, <3>2 DEF ToAPI
  <2>2. send(a)
    BY <1>3 DEF Reply
  <2> HIDE DEF a
  <2> QED  BY <2>1, <2>2, SendIs
<1>4. ASSUME NEW types, Receives(types), types \subseteq Blocking
      PROVE  Message \in [type : Blocking, call : CallId]
  <2>1. Message \in ToDispatcher /\ Message.type \in Blocking
    BY <1>4, ReceivesIs
  <2> QED  BY <2>1 DEF ToDispatcher, Blocking, AnswerTo
<1>5. CASE HandleSubscribe
  <2>1. Receives({"subscribe"}) /\ {"subscribe"} \cap Answering = {}
        /\ UNCHANGED <<d, status, outstanding, to_api>>
    BY <1>5 DEF HandleSubscribe, Answering
  <2>2. Message.pattern \in Patterns
    <3>1. Message \in ToDispatcher /\ Message.type = "subscribe"
      BY <2>1, ReceivesIs
    <3> QED  BY <3>1 DEF ToDispatcher, Blocking, AnswerTo
  <2>3. joined' \in [Patterns -> Nat]
    BY <1>1, <1>5, <2>2 DEF HandleSubscribe
  <2> QED  BY <1>1, <2>1, <2>3, Unsent, PlainStep
<1>6. CASE HandleUnsubscribe
  <2>1. Receives({"unsubscribe"}) /\ {"unsubscribe"} \cap Answering = {}
    BY <1>6 DEF HandleUnsubscribe, Answering
  <2>2. Message.pattern \in Patterns
    <3>1. Message \in ToDispatcher /\ Message.type = "unsubscribe"
      BY <2>1, ReceivesIs
    <3> QED  BY <3>1 DEF ToDispatcher, Blocking, AnswerTo
  <2>3. CASE terminate(FALSE)
    BY <1>2, <2>1, <2>3, TerminateStep
  <2>4. CASE /\ UNCHANGED <<d, status, outstanding, to_api>>
             /\ joined' \in [Patterns -> Nat]
    BY <1>1, <2>1, <2>4, Unsent, PlainStep
  <2>5. CASE UNCHANGED <<dispatcherVars, to_api>>
    BY <1>1, <2>4, <2>5 DEF dispatcherVars
  <2>6. ASSUME joined[Message.pattern] # 0,
               joined' = [joined EXCEPT ![Message.pattern] = @ - 1]
        PROVE  joined' \in [Patterns -> Nat]
    BY <1>1, <2>2, <2>6
  <2> QED  BY <1>6, <2>3, <2>4, <2>5, <2>6 DEF HandleUnsubscribe
<1>7. CASE HandleSubscribeCount
  <2>1. Receives({"subscribe_count"}) /\ {"subscribe_count"} \cap Answering = {}
        /\ Reply(Message) /\ UNCHANGED dispatcherVars
        /\ {"subscribe_count"} \subseteq Blocking
    BY <1>7 DEF HandleSubscribeCount, Answering, Blocking, AnswerTo
  <2>2. to_api' \in Seq(ToAPI) /\ One(to_api', {"SEND"}) /\ Unread' = Unread
    BY <1>3, <1>4, <2>1
  <2> QED  BY <1>1, <2>1, <2>2, PlainStep DEF dispatcherVars
<1>8. CASE InvalidState
  <2>1. Receives({"send_sync", "recv_async"}) /\ terminate(FALSE)
        /\ {"send_sync", "recv_async"} \cap Answering = {}
    BY <1>8 DEF InvalidState, Answering
  <2> QED  BY <1>2, <2>1, TerminateStep
<1>9. CASE HandleCall
  <2> DEFINE types == Blocking \ {"subscribe_count"}
  <2>1. Receives(types) /\ types \cap Answering = {} /\ types \subseteq Blocking
        /\ UNCHANGED <<d, status, joined, to_api>>
        /\ outstanding' = outstanding \cup {Message}
    BY <1>9 DEF HandleCall, Answering, Blocking, AnswerTo
  <2> HIDE DEF types
  <2>2. outstanding' \subseteq [type : Blocking, call : CallId]
    BY <1>1, <1>4, <2>1
  <2> QED  BY <1>1, <2>1, <2>2, Unsent, PlainStep
<1>10. CASE CallEnds
  <2>1. PICK m \in outstanding :
           Reply(m) /\ outstanding' = outstanding \ {m}
    BY <1>10 DEF CallEnds
  <2>2. UNCHANGED <<d, status, joined, to_dispatcher>>
    BY <1>10 DEF CallEnds
  <2>3. to_api' \in Seq(ToAPI) /\ One(to_api', {"SEND"}) /\ Unread' = Unread
    BY <1>1, <1>3, <2>1
  <2>4. outstanding' \subseteq [type : Blocking, call : CallId]
    BY <1>1, <2>1
  <2> QED  BY <1>1, <2>2, <2>3, <2>4, PlainStep
<1>11. CASE HandleShutdown
  <2>1. Receives({"shutdown"}) /\ terminate(FALSE)
        /\ {"shutdown"} \cap Answering = {}
    BY <1>11 DEF HandleShutdown, Answering
  <2> QED  BY <1>2, <2>1, TerminateStep
<1>12. CASE HandleKeepalive
  <2>1. Receives({"keepalive"}) /\ {"keepalive"} \cap Answering = {}
        /\ UNCHANGED <<status, joined, outstanding, to_api>>
    BY <1>12 DEF HandleKeepalive, Answering
  <2>2. /\ d' \in Dispatcher /\ d'.state = d.state
        /\ UNCHANGED <<d.request_data, d.queue_requests, d.init_timer>>
    BY <1>1, <1>12 DEF HandleKeepalive, Dispatcher
  <2> QED  BY <1>1, <2>1, <2>2, Unsent, PlainStep
<1> QED
  BY <1>5, <1>6, <1>7, <1>8, <1>9, <1>10, <1>11, <1>12

\* The OS process has no request: the dispatcher may give it one.
Idle(s, now) ==
    /\ s \in Dispatcher /\ s.state = "HANDLE"
    /\ s.request_data = NoRequest /\ ~s.init_timer
    /\ now \in [Requests -> Status]
    /\ \A r \in Requests : now[r] # "running"
    /\ \A r \in begun : now[r] = "answered"
    /\ p.initialization_complete /\ open
    /\ Unread = {} /\ Serving = {} /\ Replies' = {}
    /\ to_dispatcher' \in Seq(ToDispatcher)
    /\ One(to_dispatcher', Answering)
    /\ Of(to_dispatcher', {"polling"}) = {}
    /\ UNCHANGED <<joined, outstanding>>

LEMMA DispatchStep ==
    ASSUME IInv, Apart, NEW s, NEW now, Idle(s, now), NEW r \in Requests,
           now[r] # "answered", Dispatch(s, r),
           status' = [now EXCEPT ![r] = "running"]
    PROVE  IInv'
<1> DEFINE m == [type |-> "SEND", request |-> r]
<1>1. m \in ToAPI /\ m.type \in {"SEND"} /\ m.request = r
  BY DEF ToAPI
<1>2. /\ Typed /\ Nesting /\ to_api \in Seq(ToAPI) /\ begun \subseteq Requests
      /\ UNCHANGED <<p, stack, alive, main, outcome, subscribes, open, begun>>
      /\ Serving' = Serving
  BY ApartIs DEF IInv, Typed
<1>3. to_api' = Append(to_api, m)
      /\ d' = [s EXCEPT !.queue_requests = TRUE, !.request_data = r]
  BY DEF Dispatch, send
<1> HIDE DEF m
<1>4. Of(to_api, {"SEND"}) = {}
  BY CarriedNone DEF Idle, Unread
<1>5. /\ to_api' \in Seq(ToAPI) /\ One(to_api', {"SEND"})
      /\ Unread' = {r}
  <2>1. to_api' \in Seq(ToAPI)
    BY <1>1, <1>2, <1>3, AppendProperties
  <2> QED  BY <1>1, <1>2, <1>3, <1>4, <2>1, AppendOnly DEF Unread
<1>6. /\ d' \in Dispatcher /\ d'.state = "HANDLE" /\ d'.queue_requests
      /\ d'.request_data = r /\ ~d'.init_timer
  BY <1>3 DEF Idle, Dispatcher
<1>7. /\ status' \in [Requests -> Status]
      /\ \A k \in Requests : status'[k] = "running" <=> k = r
      /\ \A k \in begun : status'[k] = "answered"
      /\ r \notin begun
  BY <1>2 DEF Idle, Status
<1>8. Typed'
  BY <1>2, <1>5, <1>6, <1>7 DEF Typed, Idle
<1>9. Nesting'
  BY <1>2 DEF Nesting
<1>10. Dispatching'
  BY <1>2, <1>6, <1>7 DEF Dispatching, Idle, Running, One
<1>11. Followed'
  BY <1>2, <1>5, <1>6, <1>7 DEF Followed, Idle, Answering
<1>12. RequestIntact' /\ Lost'
  BY <1>2, <1>5 DEF RequestIntact, Lost, Idle
<1> QED  BY <1>8, <1>9, <1>10, <1>11, <1>12 DEF IInv

LEMMA ProcessQueueStep ==
    ASSUME IInv, Apart, NEW s, NEW now, Idle(s, now), process_queue(s, now)
    PROVE  IInv'
<1>1. CASE \A r \in Requests : now[r] # "queued"
  <2>1. /\ Typed /\ Nesting /\ to_api \in Seq(ToAPI) /\ begun \subseteq Requests
        /\ UNCHANGED <<p, stack, alive, main, outcome, subscribes, open, begun>>
        /\ Serving' = Serving
    BY ApartIs DEF IInv, Typed
  <2>2. d' = [s EXCEPT !.queue_requests = FALSE] /\ status' = now
        /\ UNCHANGED to_api
    BY <1>1 DEF process_queue
  <2>3. to_api' \in Seq(ToAPI) /\ One(to_api', {"SEND"}) /\ Unread' = Unread
    BY <2>2, Unsent
  <2>4. /\ d' \in Dispatcher /\ d'.state = "HANDLE"
        /\ d'.request_data = NoRequest /\ ~d'.init_timer
    BY <2>2 DEF Idle, Dispatcher
  <2>5. Typed'
    BY <2>1, <2>2, <2>3, <2>4 DEF Typed, Idle
  <2>6. Nesting'
    BY <2>1 DEF Nesting
  <2>7. Dispatching'
    BY <2>1, <2>2, <2>4, APIAssumption DEF Dispatching, Idle, Running, One
  <2>8. Followed'
    BY <2>1, <2>2, <2>3, <2>4 DEF Followed, Idle, Answering
  <2>9. RequestIntact' /\ Lost'
    BY <2>1, <2>4 DEF RequestIntact, Lost, Idle
  <2> QED  BY <2>5, <2>6, <2>7, <2>8, <2>9 DEF IInv
<1>2. CASE ~\A r \in Requests : now[r] # "queued"
  <2>1. PICK r \in Requests : /\ now[r] = "queued" /\ Dispatch(s, r)
                              /\ status' = [now EXCEPT ![r] = "running"]
    BY <1>2 DEF process_queue
  <2> QED  BY <2>1, DispatchStep
<1> QED  BY <1>1, <1>2

(* While request_data is undefined the OS process has no request.          *)
LEMMA NothingGiven ==
    ASSUME IInv, d.request_data = NoRequest
    PROVE  /\ Unread = {} /\ Serving = {} /\ Replies = {}
           /\ \A r \in Requests : status[r] # "running"
           /\ \A r \in begun : status[r] = "answered"
<1>1. /\ Unread \subseteq Requests /\ begun \subseteq Requests
      /\ Followed /\ Dispatching /\ NoRequest \notin Requests
  BY UnreadTypes, APIAssumption DEF IInv, Typed
<1> QED  BY <1>1 DEF Followed, Dispatching

LEMMA HandlePollingStep ==
    ASSUME IInv, Apart, HandlePolling
    PROVE  IInv'
<1> DEFINE s == [d EXCEPT !.init_timer = FALSE]
<1>1. /\ Receives({"polling"}) /\ process_queue(s, status)
      /\ d.state = "HANDLE" /\ UNCHANGED <<joined, outstanding>>
  BY DEF HandlePolling, Handling
<1>2. Message.type = "polling"
  BY <1>1, ReceivesIs
<1>3. /\ to_dispatcher' \in Seq(ToDispatcher)
      /\ One(to_dispatcher', Answering)
      /\ Of(to_dispatcher', {"polling"}) = {}
      /\ Of(to_dispatcher, {"polling"}) # {}
      /\ Replies' = Replies
  BY <1>1, <1>2, ReceivesIs DEF Answering
<1>4. p.initialization_complete /\ d.request_data = NoRequest /\ open
  BY <1>1, <1>3 DEF IInv, Dispatching, Running
<1>5. s \in Dispatcher /\ s.state = "HANDLE" /\ ~s.init_timer
      /\ s.request_data = NoRequest /\ status \in [Requests -> Status]
  BY <1>1, <1>4, Dispatchers DEF Dispatcher
<1> HIDE DEF s
<1>6. Idle(s, status)
  BY <1>1, <1>3, <1>4, <1>5, NothingGiven DEF Idle
<1> QED  BY <1>1, <1>6, ProcessQueueStep

LEMMA HandleAnswerStep ==
    ASSUME IInv, Apart, HandleAnswer
    PROVE  IInv'
<1>1. /\ Receives({"return", "forward"}) /\ d.state = "HANDLE" /\ Typed
      /\ Followed /\ Dispatching /\ begun \subseteq Requests
  BY DEF HandleAnswer, Handling, IInv, Typed
<1>2. /\ to_dispatcher' \in Seq(ToDispatcher)
      /\ One(to_dispatcher', Answering)
      /\ Of(to_dispatcher, {"polling"}) = {} =>
            Of(to_dispatcher', {"polling"}) = {}
      /\ Message.request \in Replies /\ Replies' = {}
  BY <1>1, ReceivesIs DEF Answering
<1> DEFINE r == d.request_data
           s == [d EXCEPT !.request_data = NoRequest]
           now == [status EXCEPT ![r] = "answered"]
<1>3. Message.request = r /\ r \in begun /\ r \in Requests /\ r \in Replies
  BY <1>1, <1>2 DEF Followed
<1>4. process_queue(s, now) /\ UNCHANGED <<joined, outstanding>>
  BY <1>3 DEF HandleAnswer
<1>5. Unread = {} /\ Serving = {}
  BY <1>1, <1>3 DEF Followed
<1>6. ~d.init_timer /\ Of(to_dispatcher', {"polling"}) = {}
      /\ p.initialization_complete /\ open
  BY <1>1, <1>2, <1>3, APIAssumption DEF Dispatching, Running
<1>7. s \in Dispatcher /\ s.state = "HANDLE" /\ ~s.init_timer
      /\ s.request_data = NoRequest
  BY <1>1, <1>6, Dispatchers DEF Dispatcher
<1>8. /\ now \in [Requests -> Status]
      /\ \A k \in Requests : now[k] # "running"
      /\ \A k \in begun : now[k] = "answered"
  BY <1>1, <1>3 DEF Dispatching, Followed, Status, Typed
<1> HIDE DEF s, now, r
<1>9. Idle(s, now)
  BY <1>2, <1>4, <1>5, <1>6, <1>7, <1>8 DEF Idle
<1> QED  BY <1>4, <1>9, ProcessQueueStep

LEMMA RequestStep ==
    ASSUME IInv, Apart, NEW r \in Requests,
           Send(r) \/ HandleRequest(r) \/ RecvTimeout(r)
    PROVE  IInv'
<1>1. /\ d \in Dispatcher /\ status \in [Requests -> Status]
      /\ joined \in [Patterns -> Nat]
      /\ outstanding \subseteq [type : Blocking, call : CallId]
      /\ UNCHANGED <<joined, outstanding, to_dispatcher>>
  BY Dispatchers DEF Send, HandleRequest, RecvTimeout
<1>2. status[r] \in {"unsent", "inflight", "queued"}
  BY DEF Send, HandleRequest, RecvTimeout
<1>3. CASE /\ UNCHANGED <<d, to_api>>
           /\ \E x \in {"inflight", "queued", "dropped"} :
                 status' = [status EXCEPT ![r] = x]
  <2>1. /\ status' \in [Requests -> Status]
        /\ \A k \in Requests :
              /\ status'[k] = "running" <=> status[k] = "running"
              /\ status[k] = "answered" => status'[k] = "answered"
    BY <1>1, <1>2, <1>3 DEF Status
  <2> QED  BY <1>1, <1>3, <2>1, Unsent, PlainStep
<1>4. CASE /\ Handling /\ ~d.queue_requests /\ Dispatch(d, r)
           /\ status' = [status EXCEPT ![r] = "running"]
  <2>1. /\ Typed /\ Followed /\ Dispatching
    BY DEF IInv
  <2>2. /\ d.request_data = NoRequest /\ ~d.init_timer
        /\ p.initialization_complete /\ open
        /\ Of(to_dispatcher, {"polling"}) = {}
    BY <1>4, <2>1 DEF Dispatching, Running, Handling
  <2>3. /\ to_dispatcher' \in Seq(ToDispatcher) /\ Replies' = Replies
        /\ One(to_dispatcher', Answering)
        /\ Of(to_dispatcher', {"polling"}) = {}
    BY <1>1, <2>1, <2>2 DEF Typed, Followed, Replies, Answering
  <2>4. Idle(d, status)
    BY <1>1, <1>4, <2>2, <2>3, NothingGiven DEF Idle, Handling
  <2> QED  BY <1>2, <1>4, <2>4, DispatchStep
<1> QED  BY <1>3, <1>4 DEF Send, HandleRequest, RecvTimeout

(* The timers, the number of processes and the end.                        *)
LEMMA TimerStep ==
    ASSUME IInv, Apart,
           \/ InitTimeout \/ Reinit \/ DynamicTerminate \/ KeepaliveTimer
           \/ SocketClosed \/ Stop
    PROVE  IInv'
<1>1. /\ d \in Dispatcher /\ status \in [Requests -> Status]
      /\ joined \in [Patterns -> Nat]
      /\ outstanding \subseteq [type : Blocking, call : CallId]
      /\ UNCHANGED to_dispatcher
  BY Dispatchers DEF InitTimeout, Reinit, DynamicTerminate, KeepaliveTimer,
                     SocketClosed, Stop
<1>2. Running
  BY Dispatchers DEF InitTimeout, Reinit, DynamicTerminate, KeepaliveTimer,
                     SocketClosed, Stop
<1>3. CASE terminate(FALSE) \/ terminate(TRUE)
  BY <1>1, <1>2, <1>3, TerminateStep
<1>4. CASE Reinit
  <2> DEFINE m == [type |-> "REINIT", count |-> d.process_count + 1]
  <2>1. d.process_count + 1 \in Nat
    BY <1>1 DEF Dispatcher
  <2>2. m \in ToAPI /\ m.type # "SEND"
    BY <2>1 DEF ToAPI
  <2>3. send(m) /\ UNCHANGED <<status, joined, outstanding>>
        /\ d' = [d EXCEPT !.process_count = @ + 1]
    BY <1>4 DEF Reinit
  <2> HIDE DEF m
  <2>4. to_api' \in Seq(ToAPI) /\ One(to_api', {"SEND"}) /\ Unread' = Unread
    BY <2>2, <2>3, SendIs
  <2>5. /\ d' \in Dispatcher /\ d'.state = d.state
        /\ UNCHANGED <<d.request_data, d.queue_requests, d.init_timer>>
    BY <1>1, <2>1, <2>3 DEF Dispatcher
  <2> QED  BY <1>1, <2>3, <2>4, <2>5, PlainStep
<1>5. CASE /\ d' = [d EXCEPT !.terminated = TRUE]
           /\ joined' = [x \in Patterns |-> 0]
           /\ UNCHANGED <<status, outstanding, to_api>>
  <2>1. /\ d' \in Dispatcher /\ d'.state = d.state
        /\ UNCHANGED <<d.request_data, d.queue_requests, d.init_timer>>
        /\ joined' \in [Patterns -> Nat]
    BY <1>1, <1>5 DEF Dispatcher
  <2> QED  BY <1>1, <1>5, <2>1, Unsent, PlainStep
<1>6. CASE KeepaliveTimer
  <2>1. UNCHANGED <<status, joined, outstanding>>
    BY <1>6 DEF KeepaliveTimer
  <2>2. /\ d' \in Dispatcher /\ d'.state = d.state
        /\ UNCHANGED <<d.request_data, d.queue_requests, d.init_timer>>
    <3>1. /\ \/ d' = [d EXCEPT !.keepalive = "undefined"]
             \/ d' = [d EXCEPT !.udp_closed = TRUE]
          /\ d \in Dispatcher
      BY <1>1, <1>6 DEF KeepaliveTimer
    <3> QED  BY <3>1 DEF Dispatcher
  <2>3. to_api' \in Seq(ToAPI) /\ One(to_api', {"SEND"}) /\ Unread' = Unread
    <3>1. [type |-> "KEEPALIVE"] \in ToAPI
          /\ [type |-> "KEEPALIVE"].type # "SEND"
      BY DEF ToAPI
    <3>2. CASE UNCHANGED to_api
      BY <3>2, Unsent
    <3>3. CASE send([type |-> "KEEPALIVE"])
      BY <3>1, <3>3, SendIs
    <3> QED  BY <1>6, <3>2, <3>3 DEF KeepaliveTimer
  <2> QED  BY <1>1, <2>1, <2>2, <2>3, PlainStep
<1> QED
  BY <1>3, <1>4, <1>5, <1>6
     DEF InitTimeout, DynamicTerminate, SocketClosed, Stop

(* The socket is closed, and the OS process is killed.                     *)
LEMMA CloseStep ==
    ASSUME IInv, SocketClose \/ os_pid_terminate
    PROVE  IInv'
<1>1. /\ Typed /\ Nesting /\ Dispatching /\ Followed /\ RequestIntact
      /\ UNCHANGED <<begun, to_api, to_dispatcher, status, joined, outstanding>>
      /\ UNCHANGED <<p, main, outcome, subscribes>>
      /\ open' = FALSE
  BY DEF IInv, SocketClose, os_pid_terminate, apiVars, Dies
<1>2. /\ d' \in Dispatcher /\ d'.state \in {"closing", "stopped"}
      /\ UNCHANGED <<d.request_data, d.queue_requests, d.init_timer>>
  BY <1>1 DEF SocketClose, os_pid_terminate, Typed, Dispatcher
<1>3. \/ UNCHANGED <<stack, alive>>
      \/ stack' = <<>> /\ alive' = FALSE
  BY DEF SocketClose, os_pid_terminate, apiVars, Dies
<1>4. Serving' \subseteq Serving
  <2>1. CASE UNCHANGED stack
    BY <2>1 DEF Serving
  <2>2. CASE stack' = <<>>
    <3>1. Len(stack') = 0
      BY <2>2
    <3>2. Serving' = {}
      BY <3>1 DEF Serving
    <3> QED  BY <3>2
  <2> QED  BY <1>3, <2>1, <2>2
<1>5. Unread' = Unread /\ Replies' = Replies
  BY <1>1 DEF Unread, Replies
<1>6. Typed'
  <2>1. stack' \in Seq(Frame) /\ alive' \in BOOLEAN
    <3>1. stack \in Seq(Frame) /\ alive \in BOOLEAN /\ <<>> \in Seq(Frame)
      BY <1>1 DEF Typed
    <3>2. CASE UNCHANGED <<stack, alive>>
      BY <3>1, <3>2
    <3>3. CASE stack' = <<>> /\ alive' = FALSE
      BY <3>1, <3>3
    <3> QED  BY <1>3, <3>2, <3>3
  <2> QED  BY <1>1, <1>2, <2>1 DEF Typed
<1>7. Nesting'
  <2>1. CASE UNCHANGED <<stack, alive>>
    BY <1>1, <2>1 DEF Nesting
  <2>2. CASE stack' = <<>> /\ alive' = FALSE
    <3>1. Len(stack') = 0
      BY <2>2
    <3> QED  BY <1>1, <2>2, <3>1 DEF Nesting, Nested
  <2> QED  BY <1>3, <2>1, <2>2
<1>8. Dispatching'
  BY <1>1, <1>2 DEF Dispatching, Running
<1>9. Followed'
  BY <1>1, <1>2, <1>4, <1>5 DEF Followed
<1>10. RequestIntact' /\ Lost'
  BY <1>1, <1>2, <1>4 DEF RequestIntact, Lost, Handling
<1> QED  BY <1>6, <1>7, <1>8, <1>9, <1>10 DEF IInv

LEMMA InitKeeps ==
    EInit => IInv
<1> SUFFICES ASSUME EInit PROVE IInv
  OBVIOUS
<1> USE DEF EInit, Init, DispatcherInit
<1>1. /\ Len(stack) = 0 /\ Len(to_api) = 0 /\ Len(to_dispatcher) = 0
      /\ stack \in Seq(Frame) /\ to_api \in Seq(ToAPI)
      /\ to_dispatcher \in Seq(ToDispatcher)
  OBVIOUS
<1>2. p \in Instance /\ ~p.initialization_complete
  <2> HIDE DEF EInit, Init, DispatcherInit
  <2> DEFINE none == [x \in Patterns |-> <<>>]
  <2>1. none \in [Patterns -> Seq(Functions)]
    <3>1. <<>> \in Seq(Functions)
      OBVIOUS
    <3> QED  BY <3>1
  <2> HIDE DEF none
  <2>2. p \in [use_header : BOOLEAN, initialization_complete : {FALSE},
               terminate : {FALSE}, lookup : {none},
               buffer_call : {NoRequest}, process_count : {0}]
    BY DEF EInit, Init, none
  <2>3. PICK u \in BOOLEAN :
          p = [use_header |-> u, initialization_complete |-> FALSE,
               terminate |-> FALSE, lookup |-> none,
               buffer_call |-> NoRequest, process_count |-> 0]
    BY <2>2
  <2>4. 0 \in Nat /\ FALSE \in BOOLEAN
        /\ NoRequest \in Requests \cup {NoRequest}
    OBVIOUS
  <2>5. p \in Instance
    BY <2>1, <2>3, <2>4 DEF Instance
  <2>6. p.initialization_complete = FALSE
    BY <2>3
  <2> QED  BY <2>5, <2>6
<1>3. Typed
  BY <1>1, <1>2, APIAssumption DEF Typed, Dispatcher, Status, CallId
<1>4. Nesting
  BY <1>1, <1>2 DEF Nesting, Nested
<1>5. \A T : Of(to_api, T) = {} /\ Of(to_dispatcher, T) = {}
  BY <1>1 DEF Of
<1>6. Unread = {} /\ Replies = {} /\ Serving = {}
  BY <1>1, <1>5 DEF Unread, Replies, Carried, Serving
<1>7. Dispatching
  BY <1>5, APIAssumption DEF Dispatching, One
<1>8. Followed
  BY <1>5, <1>6 DEF Followed, One
<1>9. RequestIntact /\ Lost
  BY <1>6 DEF RequestIntact, Lost
<1> QED  BY <1>3, <1>4, <1>7, <1>8, <1>9 DEF IInv

LEMMA StutterKeeps ==
    ASSUME IInv, UNCHANGED vars
    PROVE  IInv'
<1>1. UNCHANGED <<p, stack, alive, main, outcome, subscribes, open, to_api,
                  to_dispatcher, d, status, joined, outstanding, begun>>
  BY DEF vars, apiVars, socketVars, dispatcherVars
<1>2. Unread' = Unread /\ Replies' = Replies /\ Serving' = Serving
  BY <1>1 DEF Unread, Replies, Serving
<1> QED
  BY <1>1, <1>2 DEF IInv, Typed, Nesting, Dispatching, Followed,
     RequestIntact, Lost, Running, Handling

LEMMA NextKeeps ==
    IInv /\ [Next]_vars => IInv'
<1> SUFFICES ASSUME IInv, [Next]_vars PROVE IInv'
  OBVIOUS
<1>1. CASE Thread
  BY <1>1, ThreadStep DEF Keeps
<1>2. CASE Crash
  BY <1>2, CrashStep DEF Keeps
<1>3. CASE DispatcherStep
  <2>1. Apart
    BY <1>3 DEF DispatcherStep, Apart
  <2>2. CASE HandleMessage
    BY <2>1, <2>2, ConnectingStep, CallsStep, HandlePollingStep,
       HandleAnswerStep DEF HandleMessage
  <2>3. CASE \E r \in Requests : Send(r) \/ HandleRequest(r) \/ RecvTimeout(r)
    BY <2>1, <2>3, RequestStep
  <2>4. CASE \/ InitBegin \/ InitTimeout \/ CallEnds \/ Reinit
             \/ DynamicTerminate \/ KeepaliveTimer \/ SocketClosed \/ Stop
    BY <2>1, <2>4, ConnectingStep, CallsStep, TimerStep
  <2> QED  BY <1>3, <2>2, <2>3, <2>4 DEF DispatcherStep
<1>4. CASE SocketClose \/ os_pid_terminate
  BY <1>4, CloseStep
<1>5. CASE UNCHANGED vars
  BY <1>5, StutterKeeps
<1> QED  BY <1>1, <1>2, <1>3, <1>4, <1>5 DEF Next

-----------------------------------------------------------------------------
(* The theorems                                                            *)

(* In every state of the API and its dispatcher the invariant holds: the   *)
(* request given to the OS process is in one place (poll_request of        *)
(* cloudi.cpp, request_data and queue_requests of the dispatcher).         *)
THEOREM Invariant == Spec => []IInv
<1>1. EInit => IInv
  BY InitKeeps
<1>2. IInv /\ [Next]_vars => IInv'
  BY NextKeeps
<1> QED  BY <1>1, <1>2, PTL DEF Spec

(* The request in buffer_call of cloudi.cpp is not overwritten while its   *)
(* callback runs.                                                          *)
THEOREM RequestStaysIntact == Spec => []RequestIntact
<1>1. IInv => RequestIntact
  BY DEF IInv
<1> QED  BY <1>1, Invariant, PTL

LEMMA SomewhereFromInvariant ==
    IInv => RequestSomewhere
<1> SUFFICES ASSUME IInv, Handling, NEW r \in Requests
             PROVE  LET unread == Places(to_api,
                                     LAMBDA m : m.type = "SEND" /\ m.request = r)
                        places == Cardinality(unread)
                                  + Cardinality(AnswersOf(r))
                                  + (IF r \in Serving THEN 1 ELSE 0)
                    IN  IF r = d.request_data
                        THEN \/ places = 1
                             \/ /\ places = 0
                                /\ \/ ~alive
                                   \/ main \notin {"initialized", "timeout"}
                        ELSE places = 0
  BY DEF RequestSomewhere
<1> DEFINE unread == Places(to_api,
                            LAMBDA m : m.type = "SEND" /\ m.request = r)
<1>1. unread = {n \in Of(to_api, {"SEND"}) : to_api[n].request = r}
  BY DEF Places, Of
<1>2. AnswersOf(r) = {n \in Of(to_dispatcher, Answering) :
                         to_dispatcher[n].request = r}
  BY DEF AnswersOf, Places, Of, Answering
<1> HIDE DEF unread
<1>3. Followed /\ Lost /\ One(to_dispatcher, Answering)
  BY DEF IInv, Followed, Answering
<1>4. ASSUME NEW S, \A m, n \in S : m = n
      PROVE  Cardinality(S) = IF S = {} THEN 0 ELSE 1
  <2>1. CASE S = {}
    BY <2>1, FS_EmptySet
  <2>2. CASE S # {}
    <3>1. PICK n \in S : TRUE
      BY <2>2
    <3>2. S = {n}
      BY <1>4, <3>1
    <3>3. Cardinality({n}) = 1
      BY FS_Singleton
    <3> QED  BY <2>2, <3>2, <3>3
  <2> QED  BY <2>1, <2>2
<1>5. /\ \A m, n \in unread : m = n
      /\ \A m, n \in AnswersOf(r) : m = n
  BY <1>1, <1>2, <1>3 DEF Followed, One
<1>6. /\ Cardinality(unread) = IF unread = {} THEN 0 ELSE 1
      /\ Cardinality(AnswersOf(r)) = IF AnswersOf(r) = {} THEN 0 ELSE 1
  BY <1>4, <1>5
<1>7. /\ unread # {} <=> r \in Unread
      /\ AnswersOf(r) # {} <=> r \in Replies
  BY <1>1, <1>2 DEF Unread, Replies, Carried, Answering
<1>8. CASE r # d.request_data
  <2>1. r \notin Unread /\ r \notin Serving /\ r \notin Replies
    BY <1>3, <1>8 DEF Followed
  <2>2. /\ Cardinality(unread) = 0 /\ Cardinality(AnswersOf(r)) = 0
        /\ r \notin Serving
    BY <1>6, <1>7, <2>1
  <2> QED  BY <1>8, <2>2 DEF unread, Places
<1>9. CASE r = d.request_data
  <2>1. /\ r \in Unread => r \notin Serving /\ r \notin Replies
        /\ r \in Serving => r \notin Replies
    BY <1>3 DEF Followed
  <2>2. r \notin Unread /\ r \notin Serving /\ r \notin Replies =>
           ~alive \/ main \notin {"initialized", "timeout"}
    <3>1. Unread \cup Serving \cup Replies \subseteq {r}
          /\ d.request_data # NoRequest
      BY <1>3, <1>9, APIAssumption DEF Followed
    <3> QED  BY <1>3, <3>1 DEF Lost
  <2>3. \/ /\ Cardinality(unread) = 1 /\ Cardinality(AnswersOf(r)) = 0
           /\ r \notin Serving
        \/ /\ Cardinality(unread) = 0 /\ Cardinality(AnswersOf(r)) = 1
           /\ r \notin Serving
        \/ /\ Cardinality(unread) = 0 /\ Cardinality(AnswersOf(r)) = 0
           /\ r \in Serving
        \/ /\ Cardinality(unread) = 0 /\ Cardinality(AnswersOf(r)) = 0
           /\ r \notin Serving
           /\ ~alive \/ main \notin {"initialized", "timeout"}
    BY <1>6, <1>7, <2>1, <2>2
  <2> QED  BY <1>9, <2>3 DEF unread, Places
<1> QED  BY <1>8, <1>9

(* request_data of the dispatcher is in exactly one of three places: the   *)
(* socket to the OS process, a callback, or the socket back, unless the OS *)
(* process left its poll loop (cloudi_core_i_services_external.erl).       *)
THEOREM RequestIsSomewhere == Spec => []RequestSomewhere
BY SomewhereFromInvariant, Invariant, PTL

-----------------------------------------------------------------------------
(* The contract                                                            *)

LEMMA AnswersAre ==
    ASSUME NEW r
    PROVE  AnswersOf(r) # {} <=> r \in Replies
<1>1. AnswersOf(r) = {n \in Of(to_dispatcher, Answering) :
                         to_dispatcher[n].request = r}
  BY DEF AnswersOf, Places, Of, Answering
<1> QED  BY <1>1 DEF Replies, Carried, Answering

\* The state of the request r in the contract.
Phase(r) ==
    IF status[r] = "answered" THEN "answered"
    ELSE IF r \in begun
    THEN IF r \in Serving \/ (Handling /\ r \in Replies)
         THEN "serving" ELSE "dropped"
    ELSE IF \/ status[r] = "dropped"
            \/ status[r] = "running" /\ ~alive /\ ~Running
         THEN "dropped" ELSE "waiting"

LEMMA ContractStateIs ==
    ContractState = [r \in Requests |-> Phase(r)]
<1>1. ASSUME NEW r \in Requests
      PROVE  ContractState[r] = Phase(r)
  <2>1. CASE status[r] = "answered"
    BY <2>1 DEF ContractState, Phase
  <2>2. CASE status[r] # "answered" /\ r \in begun
    BY <2>2, AnswersAre DEF ContractState, Phase
  <2>3. CASE status[r] # "answered" /\ r \notin begun
    BY <2>3 DEF ContractState, Phase
  <2> QED  BY <2>1, <2>2, <2>3
<1>2. ContractState = [r \in Requests |-> ContractState[r]]
  BY DEF ContractState
<1> QED  BY <1>1, <1>2

LEMMA ContractStateIsNext ==
    ContractState' = [r \in Requests |-> Phase(r)']
<1>1. (ContractState = [r \in Requests |-> Phase(r)])'
  BY ContractStateIs, PTL
<1> QED  BY <1>1

(* Any number of requests are given up.                                    *)
LEMMA DropsKeep ==
    ASSUME \A r \in Requests :
              \/ Phase(r)' = Phase(r)
              \/ Phase(r)' = "dropped" /\ Phase(r) \in {"waiting", "serving"}
    PROVE  Contract!Next
<1> DEFINE R == {r \in Requests : Phase(r)' # Phase(r)}
<1>1. R \in SUBSET Requests
  OBVIOUS
<1>2. \A r \in Requests : ContractState[r] = Phase(r)
  BY ContractStateIs
<1>3. \A r \in R : ContractState[r] \in {"waiting", "serving"}
  BY <1>2
<1>4. ContractState' =
         [r \in Requests |-> IF r \in R THEN "dropped" ELSE ContractState[r]]
  BY <1>2, ContractStateIsNext
<1>5. Contract!Drop(R)
  BY <1>3, <1>4 DEF Contract!Drop
<1> QED  BY <1>1, <1>5 DEF Contract!Next

(* A step of the thread: it begins the request it reads, or it gives up    *)
(* one that is not answered any more.                                      *)
LEMMA ThreadContract ==
    ASSUME IInv, Thread
    PROVE  Contract!Next
<1>1. Keeps
  BY ThreadStep
<1>2. /\ d' = d /\ status' = status /\ begun' = begun \cup Serving'
      /\ Followed /\ Followed' /\ Dispatching /\ begun \subseteq Requests
      /\ Unread \subseteq Requests /\ Nesting' /\ Typed'
  <2>1. d' = d /\ status' = status /\ begun' = begun \cup Serving'
    BY DEF Thread, dispatcherVars
  <2>2. /\ Followed /\ Followed' /\ Dispatching /\ Nesting' /\ Typed'
        /\ Typed
    BY <1>1 DEF Keeps, IInv
  <2>3. begun \subseteq Requests /\ Unread \subseteq Requests
    <3>1. begun \subseteq Requests /\ to_api \in Seq(ToAPI)
      BY <2>2 DEF Typed
    <3> QED  BY <3>1, UnreadTypes
  <2> QED  BY <2>1, <2>2, <2>3
<1>3. alive
  <2>1. CASE PollRequest
    BY <2>1 DEF PollRequest, PollRead, PollFails, ReadSend, ReadAnswer,
                ReadTerm, ReadReinit, ReadKeepalive, ReadNull, PollTimeout,
                Reads, InPoll
  <2>2. CASE ServiceCode
    <3>1. \/ MayCall \/ InMain \/ InCallback \/ alive
      BY <2>2 DEF ServiceCode, cloudi_initialize, cloudi_destroy,
                  cloudi_subscribe, cloudi_unsubscribe, cloudi_shutdown,
                  cloudi_subscribe_count, cloudi_send_async, cloudi_send_sync,
                  cloudi_mcast_async, cloudi_recv_async, Waits, cloudi_poll,
                  callback, cloudi_return, cloudi_forward,
                  cloudi_return_async, cloudi_return_sync,
                  cloudi_forward_async, cloudi_forward_sync, Answered
    <3> QED  BY <3>1 DEF InCallback, InMain, MayCall
  <2> QED  BY <2>1, <2>2 DEF Thread
<1>4. Serving' \subseteq Requests
  <2>1. (stack \in Seq(Frame))' /\ Nested(stack)'
    BY <1>2 DEF Typed, Nesting
  <2>2. (stack \in Seq(Frame) /\ Nested(stack) => Serving \subseteq Requests)'
    BY ServingTypes, PTL
  <2> QED  BY <2>1, <2>2
<1>5. CASE Serving' \subseteq begun
  <2>1. ASSUME NEW r \in Requests
        PROVE  \/ Phase(r)' = Phase(r)
               \/ Phase(r)' = "dropped" /\ Phase(r) \in {"waiting", "serving"}
    <3>1. begun' = begun
      BY <1>2, <1>5
    <3>2. CASE r \in begun
      BY <1>1, <1>2, <1>5, <3>1, <3>2 DEF Phase, Keeps, Followed, Handling
    <3>3. CASE r \notin begun
      BY <1>2, <1>3, <3>1, <3>3 DEF Phase, Running
    <3> QED  BY <3>2, <3>3
  <2> QED  BY <2>1, DropsKeep
<1>6. CASE ~(Serving' \subseteq begun)
  <2>1. PICK r \in Requests : r \in Serving' /\ r \notin begun
    BY <1>4, <1>6
  <2>2. r = d.request_data /\ status[r] = "running" /\ Serving' = {r}
    BY <1>2, <2>1 DEF Followed, Dispatching
  <2>3. Serving = {} /\ Replies = {}
    BY <1>2, <2>1, <2>2 DEF Followed
  <2>4. alive'
    <3>1. stack' # <<>>
      <4>1. CASE stack' = <<>>
        <5>1. Len(stack') = 0
          BY <4>1
        <5>2. Serving' = {}
          BY <5>1 DEF Serving
        <5> QED  BY <2>1, <5>2
      <4> QED  BY <4>1
    <3> QED  BY <1>2, <3>1 DEF Nesting
  <2>5. Phase(r) = "waiting" /\ Phase(r)' = "serving"
    BY <1>2, <1>3, <2>1, <2>2 DEF Phase
  <2>6. ASSUME NEW s \in Requests, s # r
        PROVE  Phase(s) # "serving" /\ Phase(s)' = Phase(s)
    <3>1. Phase(s) # "serving"
      BY <2>3 DEF Phase
    <3>2. s \in begun' <=> s \in begun
      BY <1>2, <2>2, <2>6
    <3>3. s \notin Serving' /\ s \notin Replies'
      BY <1>2, <2>2, <2>6 DEF Followed
    <3> QED  BY <1>2, <1>3, <2>3, <2>4, <3>1, <3>2, <3>3 DEF Phase, Running
  <2>7. \A s \in Requests : ContractState[s] = Phase(s)
    BY ContractStateIs
  <2>8. ContractState' = [ContractState EXCEPT ![r] = "serving"]
    BY <2>5, <2>6, ContractStateIs, ContractStateIsNext
  <2>9. ContractState[r] = "waiting"
        /\ \A s \in Requests : ContractState[s] # "serving"
    BY <2>5, <2>6, <2>7
  <2>10. Contract!Begin(r)
    BY <2>8, <2>9 DEF Contract!Begin
  <2> QED  BY <2>10 DEF Contract!Next
<1> QED  BY <1>5, <1>6

(* The OS process dies.                                                    *)
LEMMA CrashContract ==
    ASSUME IInv, Crash
    PROVE  Contract!Next
<1>1. /\ d' = d /\ status' = status /\ begun' = begun
      /\ Replies' = Replies /\ stack' = <<>> /\ alive /\ ~alive'
  BY DEF Crash, Dies, dispatcherVars, socketVars, Replies
<1>2. Serving' = {}
  <2>1. Len(stack') = 0
    BY <1>1
  <2> QED  BY <2>1 DEF Serving
<1>3. \A r \in Requests :
         \/ Phase(r)' = Phase(r)
         \/ Phase(r)' = "dropped" /\ Phase(r) \in {"waiting", "serving"}
  BY <1>1, <1>2 DEF Phase, Handling, Running
<1> QED  BY <1>3, DropsKeep

(* The dispatcher closes the socket, and ends the OS process.              *)
LEMMA CloseContract ==
    ASSUME IInv, SocketClose \/ os_pid_terminate
    PROVE  Contract!Next
<1>1. /\ status' = status /\ begun' = begun /\ Replies' = Replies
      /\ ~Running /\ ~Running' /\ ~Handling /\ ~Handling' /\ d \in Dispatcher
  BY DEF SocketClose, os_pid_terminate, Replies, Running, Handling, IInv,
         Typed, Dispatcher
<1>2. \/ stack' = stack /\ alive' = alive
      \/ stack' = <<>> /\ alive' = FALSE
  BY DEF SocketClose, os_pid_terminate, apiVars, Dies
<1>3. /\ Serving' \subseteq Serving
      /\ alive' => alive
  <2>1. CASE stack' = stack /\ alive' = alive
    BY <2>1 DEF Serving
  <2>2. CASE stack' = <<>> /\ alive' = FALSE
    <3>1. Len(stack') = 0
      BY <2>2
    <3> QED  BY <2>2, <3>1 DEF Serving
  <2> QED  BY <1>2, <2>1, <2>2
<1>4. \A r \in Requests :
         \/ Phase(r)' = Phase(r)
         \/ Phase(r)' = "dropped" /\ Phase(r) \in {"waiting", "serving"}
  BY <1>1, <1>3 DEF Phase
<1> QED  BY <1>4, DropsKeep

\* A step of the dispatcher that answers no request: none comes back.
Forward ==
    /\ Running
    /\ Replies' \subseteq Replies
    /\ \A r \in Requests :
          /\ status[r] \in {"answered", "dropped"} => status'[r] = status[r]
          /\ status'[r] = "answered" => status[r] = "answered"

(* terminate/3 of the dispatcher gives up what it had not written.         *)
LEMMA TerminateForward ==
    ASSUME NEW closed, terminate(closed), Running, Replies' \subseteq Replies
    PROVE  Forward
BY DEF terminate, Forward

LEMMA RepliesRead ==
    ASSUME IInv,
           \/ UNCHANGED to_dispatcher
           \/ \E types : Receives(types)
    PROVE  Replies' \subseteq Replies
<1>1. CASE UNCHANGED to_dispatcher
  BY <1>1 DEF Replies
<1>2. CASE \E types : Receives(types)
  <2>1. PICK types : Receives(types)
    BY <1>2
  <2>2. to_dispatcher \in Seq(ToDispatcher) /\ to_dispatcher # <<>>
        /\ to_dispatcher' = Tail(to_dispatcher)
    BY <2>1 DEF IInv, Typed, Receives
  <2>3. to_dispatcher' = SubSeq(to_dispatcher, 1 + 1, Len(to_dispatcher))
    BY <2>2, TailIsSubSeq
  <2>4. 1 \in 1 .. Len(to_dispatcher)
    BY <2>2
  <2>5. Carried(to_dispatcher', {"return", "forward"})
          \subseteq Carried(to_dispatcher, {"return", "forward"})
    BY <2>2, <2>3, <2>4, ReadFirst
  <2> QED  BY <2>5 DEF Replies
<1> QED  BY <1>1, <1>2

LEMMA StepForward ==
    ASSUME IInv, DispatcherStep, ~HandleAnswer
    PROVE  Forward
<1>1. status \in [Requests -> Status] /\ d \in Dispatcher
  BY DEF IInv, Typed
<1>2. CASE HandleMessage
  <2>1. \E types : Receives(types)
    BY <1>2 DEF HandleMessage, HandleInit, HandlePolling, HandleSubscribe,
           HandleUnsubscribe, HandleSubscribeCount, InvalidState, HandleCall,
           HandleShutdown, HandleAnswer, HandleKeepalive
  <2>2. Replies' \subseteq Replies
    BY <2>1, RepliesRead
  <2>3. Running
    BY <1>2 DEF HandleMessage, HandleInit, HandlePolling, HandleSubscribe,
           HandleUnsubscribe, HandleSubscribeCount, InvalidState, HandleCall,
           HandleShutdown, HandleAnswer, HandleKeepalive, Running, Handling
  <2>4. CASE UNCHANGED status
    BY <2>2, <2>3, <2>4 DEF Forward
  <2>5. CASE terminate(FALSE)
    BY <2>2, <2>3, <2>5, TerminateForward
  <2>6. CASE HandlePolling
    <3>1. \/ status' = status
          \/ \E r \in Requests :
                /\ status[r] = "queued"
                /\ status' = [status EXCEPT ![r] = "running"]
      BY <2>6 DEF HandlePolling, process_queue
    <3> QED  BY <1>1, <2>2, <2>3, <3>1 DEF Forward
  <2> QED
    BY <1>2, <2>4, <2>5, <2>6 DEF HandleMessage, HandleInit, HandleSubscribe,
       HandleUnsubscribe, HandleSubscribeCount, InvalidState, HandleCall,
       HandleShutdown, HandleKeepalive, dispatcherVars
<1>3. CASE \E r \in Requests : Send(r) \/ HandleRequest(r) \/ RecvTimeout(r)
  <2>1. PICK r \in Requests : Send(r) \/ HandleRequest(r) \/ RecvTimeout(r)
    BY <1>3
  <2>2. Running /\ UNCHANGED to_dispatcher
    BY <2>1 DEF Send, HandleRequest, RecvTimeout, Running, Handling
  <2>3. /\ status[r] \in {"unsent", "inflight", "queued"}
        /\ \E x \in {"inflight", "running", "queued", "dropped"} :
              status' = [status EXCEPT ![r] = x]
    BY <2>1 DEF Send, HandleRequest, RecvTimeout
  <2>4. Replies' \subseteq Replies
    BY <2>2, RepliesRead
  <2> QED  BY <1>1, <2>2, <2>3, <2>4 DEF Forward
<1>4. CASE \/ InitBegin \/ InitTimeout \/ CallEnds \/ Reinit
           \/ DynamicTerminate \/ KeepaliveTimer \/ SocketClosed \/ Stop
  <2>1. UNCHANGED to_dispatcher /\ Running
    BY <1>4 DEF InitBegin, InitTimeout, CallEnds, Reinit, DynamicTerminate,
       KeepaliveTimer, SocketClosed, Stop, Running, Handling
  <2>2. Replies' \subseteq Replies
    BY <2>1, RepliesRead
  <2>3. UNCHANGED status \/ terminate(TRUE) \/ terminate(FALSE)
    BY <1>4 DEF InitBegin, InitTimeout, CallEnds, Reinit, DynamicTerminate,
       KeepaliveTimer, SocketClosed, Stop
  <2>4. CASE UNCHANGED status
    BY <2>1, <2>2, <2>4 DEF Forward
  <2> QED  BY <2>1, <2>2, <2>3, <2>4, TerminateForward
<1> QED  BY <1>2, <1>3, <1>4 DEF DispatcherStep

LEMMA ForwardContract ==
    ASSUME IInv, IInv', Apart, Forward
    PROVE  Contract!Next
<1>1. /\ alive' = alive /\ begun' = begun /\ Serving' = Serving
      /\ Followed /\ Followed' /\ Dispatching /\ begun \subseteq Requests
      /\ NoRequest \notin Requests
  BY ApartIs, APIAssumption DEF IInv, Typed
<1>2. ASSUME NEW r \in Requests
      PROVE  \/ Phase(r)' = Phase(r)
             \/ Phase(r)' = "dropped" /\ Phase(r) \in {"waiting", "serving"}
  <2>1. CASE status[r] = "answered"
    BY <2>1 DEF Phase, Forward
  <2>2. CASE status[r] # "answered" /\ r \in begun
    <3>1. status[r] = "running" /\ r = d.request_data /\ Handling
      BY <1>1, <2>2 DEF Followed, Dispatching, Forward, Running, Handling
    <3> QED  BY <1>1, <2>2, <3>1 DEF Phase, Forward
  <2>3. CASE status[r] # "answered" /\ r \notin begun
    BY <1>1, <2>3 DEF Phase, Forward
  <2> QED  BY <2>1, <2>2, <2>3
<1> QED  BY <1>2, DropsKeep

(* A return or a forward is read: it is the one of the request that runs.  *)
LEMMA AnswerContract ==
    ASSUME IInv, IInv', Apart, HandleAnswer
    PROVE  Contract!Next
<1>1. /\ alive' = alive /\ begun' = begun /\ Serving' = Serving
      /\ Followed /\ Followed' /\ Dispatching /\ Dispatching'
      /\ begun \subseteq Requests
      /\ status \in [Requests -> Status] /\ Handling
      /\ to_dispatcher \in Seq(ToDispatcher) /\ to_dispatcher # <<>>
      /\ Receives(Answering)
  BY ApartIs DEF IInv, Typed, HandleAnswer, Receives, Answering
<1>2. Message.request \in Replies
  <2>1. 1 \in 1 .. Len(to_dispatcher) /\ Message = to_dispatcher[1]
        /\ Message.type \in Answering
    BY <1>1 DEF Message, Receives
  <2>2. 1 \in Of(to_dispatcher, {"return", "forward"})
    BY <2>1 DEF Of, Answering
  <2> QED  BY <2>1, <2>2 DEF Replies, Carried
<1>3. PICK r \in Requests : /\ Message.request = r /\ r = d.request_data
                           /\ r \in Replies /\ r \in begun
  BY <1>1, <1>2 DEF Followed
<1> DEFINE now == [status EXCEPT ![r] = "answered"]
<1>4. process_queue([d EXCEPT !.request_data = NoRequest], now)
  BY <1>3 DEF HandleAnswer
<1>5. status[r] = "running"
  BY <1>1, <1>3 DEF Dispatching
<1>6. Phase(r) = "serving"
  BY <1>1, <1>3, <1>5 DEF Phase
<1>7. /\ now \in [Requests -> Status] /\ now[r] = "answered"
      /\ \A s \in Requests : s # r => now[s] = status[s]
  BY <1>1, <1>3 DEF Status
<1> HIDE DEF now
<1>8. \/ status' = now
      \/ \E s \in Requests : /\ now[s] = "queued"
                             /\ status' = [now EXCEPT ![s] = "running"]
  BY <1>4 DEF process_queue
<1>9. Running'
  <2>1. d \in Dispatcher
    BY DEF IInv, Typed
  <2>2. d'.state = d.state
    BY <1>4, <2>1 DEF process_queue, Dispatch, Dispatcher
  <2> QED  BY <1>1, <2>2 DEF Running, Handling
<1>10. Phase(r)' = "answered"
  <2>1. status'[r] = "answered"
    BY <1>3, <1>7, <1>8
  <2> QED  BY <2>1 DEF Phase
<1>11. ASSUME NEW s \in Requests, s # r
       PROVE  Phase(s)' = Phase(s)
  <2>1. status[s] # "running"
    BY <1>1, <1>3, <1>11 DEF Dispatching
  <2>2. \/ status'[s] = status[s]
        \/ status[s] = "queued" /\ status'[s] = "running"
    BY <1>7, <1>8, <1>11
  <2>3. s \in begun => status[s] = "answered"
    BY <1>1, <2>1 DEF Followed
  <2> QED  BY <1>1, <1>9, <2>1, <2>2, <2>3 DEF Phase
<1>12. ContractState' = [ContractState EXCEPT ![r] = "answered"]
  BY <1>3, <1>10, <1>11, ContractStateIs, ContractStateIsNext
<1>13. ContractState[r] = "serving"
  BY <1>3, <1>6, ContractStateIs
<1>14. Contract!Answer(r)
  BY <1>12, <1>13 DEF Contract!Answer
<1> QED  BY <1>3, <1>14 DEF Contract!Next

LEMMA StepContract ==
    IInv /\ [Next]_vars => [Contract!Next]_ContractState
<1> SUFFICES ASSUME IInv, [Next]_vars
             PROVE  Contract!Next \/ ContractState' = ContractState
  OBVIOUS
<1>1. IInv'
  BY NextKeeps
<1>2. CASE Thread
  BY <1>2, ThreadContract
<1>3. CASE Crash
  BY <1>3, CrashContract
<1>4. CASE DispatcherStep
  <2>1. Apart
    BY <1>4 DEF DispatcherStep, Apart
  <2>2. CASE HandleAnswer
    BY <1>1, <2>1, <2>2, AnswerContract
  <2>3. CASE ~HandleAnswer
    BY <1>1, <1>4, <2>1, <2>3, StepForward, ForwardContract
  <2> QED  BY <2>2, <2>3
<1>5. CASE SocketClose \/ os_pid_terminate
  BY <1>5, CloseContract
<1>6. CASE UNCHANGED vars
  <2>1. UNCHANGED <<stack, alive, to_dispatcher, d, status, begun>>
    BY <1>6 DEF vars, apiVars, socketVars, dispatcherVars
  <2>2. Serving' = Serving /\ Replies' = Replies
    BY <2>1 DEF Serving, Replies
  <2>3. \A r \in Requests : Phase(r)' = Phase(r)
    BY <2>1, <2>2 DEF Phase, Handling, Running
  <2> QED  BY <2>3, DropsKeep
<1> QED  BY <1>2, <1>3, <1>4, <1>5, <1>6 DEF Next

LEMMA InitContract ==
    EInit => Contract!Init
<1> SUFFICES ASSUME EInit PROVE Contract!Init
  OBVIOUS
<1>1. \A r \in Requests : Phase(r) = "waiting"
  BY DEF EInit, DispatcherInit, Phase
<1> QED  BY <1>1, ContractStateIs DEF Contract!Init

(* The API and the dispatcher together implement the contract of a service *)
(* (module ServiceContract): a request is handled at most once, one at a   *)
(* time, and a response is the end of its own handling, whatever fails     *)
(* (callback of cloudi.cpp, request_data and queue_requests of             *)
(* cloudi_core_i_services_external.erl).                                   *)
THEOREM ContractIsKept == Spec => KeepsContract
<1>1. EInit => Contract!Init
  BY InitContract
<1>2. IInv /\ [Next]_vars => [Contract!Next]_ContractState
  BY StepContract
<1> QED
  BY <1>1, <1>2, Invariant, PTL DEF Spec, KeepsContract, Contract!Spec

-----------------------------------------------------------------------------
(* Both sides agree                                                        *)

\* Whether a message is of the type, for the pattern, and how many of the
\* first n messages of q are.
Matches(m, type, x) == m.type = type /\ m.pattern = x
Hit(m, type, x) == IF Matches(m, type, x) THEN 1 ELSE 0
At(q, type, x, n) == {k \in 1 .. n : Matches(q[k], type, x)}
Count(q, type, x, n) == Cardinality(At(q, type, x, n))

\* SubscriptionsAgree for the pattern x: what was joined and is to be
\* joined is what the API has and will leave, after every message.
Agree(x) ==
    /\ joined[x] + Count(to_dispatcher, "subscribe", x, Len(to_dispatcher))
         = Len(p.lookup[x])
           + Count(to_dispatcher, "unsubscribe", x, Len(to_dispatcher))
    /\ \A n \in 0 .. Len(to_dispatcher) :
          joined[x] + Count(to_dispatcher, "subscribe", x, n)
            >= Count(to_dispatcher, "unsubscribe", x, n)

\* So it is for every pattern while both sides run; and no more was joined
\* than the API subscribed.
Subscribed ==
    /\ Running /\ ~d.terminated => \A x \in Patterns : Agree(x)
    /\ \A x \in Patterns :
          joined[x] + Count(to_dispatcher, "subscribe", x, Len(to_dispatcher))
            <= subscribes

\* The newest process count on its way is the dispatcher's, and the first
\* one is read before anything else.
Counts == {"INIT", "REINIT"}
Newest(q, n) == n \in Of(q, Counts) /\ \A k \in Of(q, Counts) : k <= n

Counted ==
    /\ d.state \in {"CONNECT", "INIT_WAIT"} => to_api = <<>>
    /\ Handling /\ alive =>
          /\ \A n \in Of(to_api, {"INIT"}) : n = 1
          /\ Of(to_api, Counts) = {} => p.process_count = d.process_count
          /\ \A n \in 1 .. Len(to_api) :
                Newest(to_api, n) => to_api[n].count = d.process_count

-----------------------------------------------------------------------------
(* Counting messages                                                       *)

(* The places of the first n messages are a finite set.                    *)
LEMMA CountIs ==
    ASSUME NEW q, NEW type, NEW x, NEW n \in Nat
    PROVE  /\ IsFiniteSet(At(q, type, x, n)) /\ Count(q, type, x, n) \in Nat
           /\ Count(q, type, x, 0) = 0
<1>1. IsFiniteSet(1 .. n)
  BY FS_Interval
<1>2. At(q, type, x, n) \subseteq 1 .. n
  BY DEF At
<1>3. IsFiniteSet(At(q, type, x, n))
  BY <1>1, <1>2, FS_Subset, Zenon
<1>4. Count(q, type, x, n) \in Nat
  BY <1>3, FS_CardinalityType, Zenon DEF Count
<1>5. At(q, type, x, 0) = {}
  BY DEF At
<1> QED  BY <1>3, <1>4, <1>5, FS_EmptySet, Zenon DEF Count

(* One more message is counted.                                            *)
LEMMA CountNext ==
    ASSUME NEW q, NEW type, NEW x, NEW n \in Nat
    PROVE  Count(q, type, x, n + 1) =
              Count(q, type, x, n)
              + Hit(q[n + 1], type, x)
<1> DEFINE S == At(q, type, x, n)
           T == At(q, type, x, n + 1)
<1>1. IsFiniteSet(S) /\ Cardinality(S) \in Nat
  BY CountIs, Zenon DEF Count
<1>2. n + 1 \notin S
  BY DEF At
<1>3. CASE Matches(q[n + 1], type, x)
  <2>1. T = S \cup {n + 1}
    BY <1>3 DEF At
  <2> HIDE DEF S, T
  <2>2. Cardinality(S \cup {n + 1}) = Cardinality(S) + 1
    BY <1>1, <1>2, FS_AddElement, Zenon
  <2>3. Cardinality(T) = Cardinality(S) + 1
    BY <2>1, <2>2, Zenon
  <2> QED  BY <1>3, <2>3, Zenon DEF Count, Hit, S, T
<1>4. CASE ~Matches(q[n + 1], type, x)
  <2>1. T = S
    BY <1>4 DEF At
  <2> HIDE DEF S, T
  <2>2. Cardinality(T) = Cardinality(S) + 0
    BY <1>1, <2>1
  <2> QED  BY <1>4, <2>2, Zenon DEF Count, Hit, S, T
<1> QED  BY <1>3, <1>4

(* A message is written.                                                   *)
LEMMA CountBefore ==
    ASSUME NEW q \in Seq(ToDispatcher), NEW m \in ToDispatcher,
           NEW type, NEW x, NEW n \in 0 .. Len(q)
    PROVE  Count(Append(q, m), type, x, n) = Count(q, type, x, n)
<1> DEFINE r == Append(q, m)
<1>1. /\ Len(q) \in Nat
      /\ \A k \in 1 .. Len(q) : r[k] = q[k]
  OBVIOUS
<1> HIDE DEF r
<1>2. \A k \in 1 .. n : k \in 1 .. Len(q)
  BY <1>1
<1>3. \A k \in 1 .. n : r[k] = q[k]
  BY <1>1, <1>2, Zenon
<1>4. At(r, type, x, n) = At(q, type, x, n)
  BY <1>3, Zenon DEF At, Matches
<1> QED  BY <1>4, Zenon DEF Count, r

(* One more message counts for what it is.                                 *)
LEMMA CountAppend ==
    ASSUME NEW q \in Seq(ToDispatcher), NEW m \in ToDispatcher,
           NEW type, NEW x
    PROVE  Count(Append(q, m), type, x, Len(q) + 1) =
              Count(q, type, x, Len(q)) + Hit(m, type, x)
<1> DEFINE r == Append(q, m)
<1>1. /\ Len(q) \in Nat /\ Len(q) \in 0 .. Len(q)
      /\ r[Len(q) + 1] = m
  OBVIOUS
<1>2. Count(r, type, x, Len(q)) = Count(q, type, x, Len(q))
  BY <1>1, CountBefore, Zenon
<1> HIDE DEF r
<1>3. Count(r, type, x, Len(q) + 1) =
         Count(r, type, x, Len(q)) + Hit(r[Len(q) + 1], type, x)
  BY <1>1, CountNext, Zenon
<1> QED  BY <1>1, <1>2, <1>3, Zenon DEF r

(* A message is read.                                                      *)
LEMMA CountTail ==
    ASSUME NEW q \in Seq(ToDispatcher), q # <<>>, NEW type, NEW x,
           NEW n \in 0 .. Len(q) - 1
    PROVE  Count(q, type, x, n + 1) =
              Count(Tail(q), type, x, n)
              + Hit(Head(q), type, x)
<1> DEFINE A == At(Tail(q), type, x, n)
           B == At(q, type, x, n + 1)
           C == {k \in B : k # 1}
           f == [k \in A |-> k + 1]
<1>1. /\ Len(q) \in Nat /\ n \in Nat /\ n <= Len(q) - 1
      /\ Len(Tail(q)) = Len(q) - 1 /\ Head(q) = q[1]
      /\ \A k \in 1 .. Len(q) - 1 : Tail(q)[k] = q[k + 1]
  OBVIOUS
<1>2. IsFiniteSet(A) /\ IsFiniteSet(B)
  <2>1. n + 1 \in Nat
    BY <1>1
  <2> QED  BY <1>1, <2>1, CountIs, Zenon
<1>3. \A k \in 1 .. n : Tail(q)[k] = q[k + 1]
  BY <1>1
<1>4. \A k \in A : k \in Nat /\ k + 1 \in C
  BY <1>1, <1>3 DEF At
<1>5. \A k \in C : k - 1 \in A /\ (k - 1) + 1 = k
  BY <1>1, <1>3 DEF At
<1>6. ExistsBijection(A, C)
  <2>1. f \in [A -> C]
    BY <1>4
  <2>2. \A j, k \in A : f[j] = f[k] => j = k
    BY <1>4
  <2>3. \A k \in C : \E j \in A : f[j] = k
    <3> TAKE k \in C
    <3>1. k - 1 \in A /\ f[k - 1] = k
      BY <1>5
    <3> QED  BY <3>1, Zenon
  <2> HIDE DEF A, C, f
  <2>4. f \in Bijection(A, C)
    BY <2>1, <2>2, <2>3, Fun_IsBij, Zenon
  <2> QED  BY <2>4, Zenon DEF ExistsBijection
<1>7. Cardinality(A) = Cardinality(C) /\ IsFiniteSet(C)
  <2> HIDE DEF A, C
  <2> QED  BY <1>2, <1>6, FS_Bijection, Zenon
<1>8. Cardinality(C) \in Nat
  BY <1>7, FS_CardinalityType, Zenon
<1>9. CASE Matches(q[1], type, x)
  <2>1. B = C \cup {1} /\ 1 \notin C
    BY <1>1, <1>9 DEF At
  <2> HIDE DEF A, B, C
  <2>2. Cardinality(B) = Cardinality(C) + 1
    BY <1>7, <2>1, FS_AddElement, Zenon
  <2>3. Cardinality(B) = Cardinality(A) + 1
    BY <2>2, <1>7, Zenon
  <2> QED  BY <1>1, <1>9, <2>3, Zenon DEF Count, Hit, A, B
<1>10. CASE ~Matches(q[1], type, x)
  <2>1. B = C
    BY <1>1, <1>10 DEF At
  <2> HIDE DEF A, B, C
  <2>2. Cardinality(B) = Cardinality(A) + 0
    BY <2>1, <1>7, <1>8
  <2> QED  BY <1>1, <1>10, <2>2, Zenon DEF Count, Hit, A, B
<1> QED  BY <1>9, <1>10

-----------------------------------------------------------------------------
(* Subscriptions                                                           *)

\* The messages by which an API joins and leaves the groups.
Subscribing == {"subscribe", "unsubscribe"}

\* The messages of r about subscriptions are those of q.
SameCounts(q, r) ==
    \A x : /\ \A type \in Subscribing :
                 Count(r, type, x, Len(r)) = Count(q, type, x, Len(q))
           /\ \A n \in 0 .. Len(r) : \E k \in 0 .. Len(q) :
                 \A type \in Subscribing :
                    Count(r, type, x, n) = Count(q, type, x, k)

(* Nothing is written or read.                                             *)
LEMMA SameKept ==
    ASSUME NEW q
    PROVE  SameCounts(q, q)
BY Zenon DEF SameCounts

(* Another message is written.                                             *)
LEMMA SameWritten ==
    ASSUME NEW q \in Seq(ToDispatcher), NEW m \in ToDispatcher,
           m.type \notin Subscribing
    PROVE  SameCounts(q, Append(q, m))
<1> DEFINE r == Append(q, m)
<1>1. Len(q) \in Nat /\ Len(r) = Len(q) + 1
  OBVIOUS
<1>2. \A x : \A type \in Subscribing : Hit(m, type, x) = 0
  BY Zenon DEF Matches, Hit
<1>3. ASSUME NEW type \in Subscribing, NEW x
      PROVE  /\ \A n \in 0 .. Len(q) :
                   Count(r, type, x, n) = Count(q, type, x, n)
             /\ Count(r, type, x, Len(r)) = Count(q, type, x, Len(q))
  <2>1. /\ \A n \in 0 .. Len(q) :
              Count(r, type, x, n) = Count(q, type, x, n)
        /\ Count(r, type, x, Len(q) + 1) =
              Count(q, type, x, Len(q)) + Hit(m, type, x)
    <3>1. Count(r, type, x, Len(q) + 1) =
             Count(q, type, x, Len(q)) + Hit(m, type, x)
      BY CountAppend
    <3>2. ASSUME NEW n \in 0 .. Len(q)
          PROVE  Count(r, type, x, n) = Count(q, type, x, n)
      BY CountBefore
    <3> QED  BY <3>1, <3>2, Zenon
  <2> HIDE DEF r
  <2>2. Count(q, type, x, Len(q)) \in Nat
    BY <1>1, CountIs, Zenon
  <2> QED  BY <1>1, <1>2, <2>1, <2>2
<1> HIDE DEF r
<1>4. ASSUME NEW x, NEW n \in 0 .. Len(r)
      PROVE  \E k \in 0 .. Len(q) : \A type \in Subscribing :
                Count(r, type, x, n) = Count(q, type, x, k)
  <2>1. CASE n \in 0 .. Len(q)
    BY <1>3, <2>1, Zenon
  <2>2. CASE n = Len(r)
    <3>1. Len(q) \in 0 .. Len(q)
      BY <1>1
    <3> QED  BY <1>3, <2>2, <3>1, Zenon
  <2> QED  BY <1>1, <2>1, <2>2
<1>5. ASSUME NEW x
      PROVE  \A type \in Subscribing :
                Count(r, type, x, Len(r)) = Count(q, type, x, Len(q))
  BY <1>3, Zenon
<1> QED  BY <1>4, <1>5, Zenon DEF SameCounts, r

(* A message is read: another one, or one about a subscription.            *)
LEMMA CountRead ==
    ASSUME NEW q \in Seq(ToDispatcher), q # <<>>, NEW x,
           NEW type \in Subscribing
    PROVE  /\ Len(q) \in Nat /\ Len(Tail(q)) = Len(q) - 1 /\ Len(q) >= 1
           /\ \A n \in 0 .. Len(q) - 1 :
                 Count(q, type, x, n + 1) =
                    Count(Tail(q), type, x, n)
                    + Hit(Head(q), type, x)
           /\ Count(q, type, x, Len(q)) =
                 Count(Tail(q), type, x, Len(Tail(q)))
                 + Hit(Head(q), type, x)
           /\ \A n \in 0 .. Len(q) - 1 : Count(Tail(q), type, x, n) \in Nat
           /\ \A n \in 0 .. Len(q) : Count(q, type, x, n) \in Nat
<1>1. Len(q) \in Nat /\ Len(Tail(q)) = Len(q) - 1 /\ Len(q) >= 1
  OBVIOUS
<1>2. \A n \in 0 .. Len(q) - 1 :
         Count(q, type, x, n + 1) =
            Count(Tail(q), type, x, n)
            + Hit(Head(q), type, x)
  BY CountTail
<1>3. Len(q) - 1 \in 0 .. Len(q) - 1 /\ (Len(q) - 1) + 1 = Len(q)
  BY <1>1
<1>4. Count(q, type, x, Len(q)) =
         Count(Tail(q), type, x, Len(Tail(q)))
         + Hit(Head(q), type, x)
  <2>1. Count(q, type, x, (Len(q) - 1) + 1) =
           Count(Tail(q), type, x, Len(q) - 1)
           + Hit(Head(q), type, x)
    BY <1>2, <1>3, Zenon
  <2> QED  BY <1>1, <1>3, <2>1, Zenon
<1>5. \A n \in 0 .. Len(q) - 1 : n \in Nat
  BY <1>1
<1>6. \A n \in 0 .. Len(q) - 1 : Count(Tail(q), type, x, n) \in Nat
  BY <1>5, CountIs, Zenon
<1>7. \A n \in 0 .. Len(q) : n \in Nat
  BY <1>1
<1>8. \A n \in 0 .. Len(q) : Count(q, type, x, n) \in Nat
  BY <1>7, CountIs, Zenon
<1> QED  BY <1>1, <1>2, <1>4, <1>6, <1>8, Zenon

(* A message about something else was read.                                *)
LEMMA SameRead ==
    ASSUME NEW q \in Seq(ToDispatcher), q # <<>>,
           Head(q).type \notin Subscribing
    PROVE  SameCounts(q, Tail(q))
<1>1. \A x : \A type \in Subscribing : Hit(Head(q), type, x) = 0
  BY Zenon DEF Matches, Hit
<1>2. ASSUME NEW type \in Subscribing, NEW x
      PROVE  /\ Len(q) \in Nat /\ Len(Tail(q)) = Len(q) - 1 /\ Len(q) >= 1
             /\ \A n \in 0 .. Len(q) - 1 :
                   Count(Tail(q), type, x, n) = Count(q, type, x, n + 1)
             /\ Count(Tail(q), type, x, Len(Tail(q))) =
                   Count(q, type, x, Len(q))
  <2>1. /\ Len(q) \in Nat /\ Len(Tail(q)) = Len(q) - 1 /\ Len(q) >= 1
        /\ \A n \in 0 .. Len(q) - 1 :
              Count(q, type, x, n + 1) =
                 Count(Tail(q), type, x, n) + Hit(Head(q), type, x)
        /\ Count(q, type, x, Len(q)) =
              Count(Tail(q), type, x, Len(Tail(q))) + Hit(Head(q), type, x)
        /\ \A n \in 0 .. Len(q) - 1 : Count(Tail(q), type, x, n) \in Nat
    BY CountRead, Zenon
  <2>2. Len(q) - 1 \in 0 .. Len(q) - 1
    BY <2>1
  <2>3. Count(Tail(q), type, x, Len(Tail(q))) \in Nat
    BY <2>1, <2>2, Zenon
  <2>4. Hit(Head(q), type, x) = 0
    BY <1>1, Zenon
  <2> QED  BY <2>1, <2>3, <2>4
<1>3. ASSUME NEW x, NEW n \in 0 .. Len(Tail(q))
      PROVE  \E k \in 0 .. Len(q) : \A type \in Subscribing :
                Count(Tail(q), type, x, n) = Count(q, type, x, k)
  <2>1. Len(q) \in Nat /\ Len(Tail(q)) = Len(q) - 1
    BY <1>2 DEF Subscribing
  <2>2. n \in 0 .. Len(q) - 1 /\ n + 1 \in 0 .. Len(q)
    BY <2>1
  <2>3. \A type \in Subscribing :
           Count(Tail(q), type, x, n) = Count(q, type, x, n + 1)
    BY <1>2, <2>2, Zenon
  <2> WITNESS n + 1 \in 0 .. Len(q)
  <2> QED  BY <2>3, Zenon
<1>4. ASSUME NEW x
      PROVE  \A type \in Subscribing :
                Count(Tail(q), type, x, Len(Tail(q))) =
                   Count(q, type, x, Len(q))
  BY <1>2, Zenon
<1> QED  BY <1>3, <1>4, Zenon DEF SameCounts

(* A step that leaves the subscriptions alone, or ends the dispatcher.     *)
LEMMA SubscribedKept ==
    ASSUME IInv, Subscribed, SameCounts(to_dispatcher, to_dispatcher'),
           joined' = joined, subscribes' = subscribes,
           \A x \in Patterns : Len(p'.lookup[x]) = Len(p.lookup[x]),
           Running' /\ ~d'.terminated => Running /\ ~d.terminated
    PROVE  Subscribed'
<1>1. "subscribe" \in Subscribing /\ "unsubscribe" \in Subscribing
  BY DEF Subscribing
<1>2. ASSUME NEW x \in Patterns
      PROVE  /\ \A type \in Subscribing :
                   Count(to_dispatcher', type, x, Len(to_dispatcher')) =
                      Count(to_dispatcher, type, x, Len(to_dispatcher))
             /\ \A n \in 0 .. Len(to_dispatcher') :
                   \E k \in 0 .. Len(to_dispatcher) :
                      \A type \in Subscribing :
                         Count(to_dispatcher', type, x, n) =
                            Count(to_dispatcher, type, x, k)
  BY Zenon DEF SameCounts
<1>3. ASSUME NEW x \in Patterns, Agree(x)
      PROVE  Agree(x)'
  <2>1. joined'[x]
          + Count(to_dispatcher', "subscribe", x, Len(to_dispatcher'))
          = Len(p'.lookup[x])
            + Count(to_dispatcher', "unsubscribe", x, Len(to_dispatcher'))
    BY <1>1, <1>2, <1>3, Zenon DEF Agree
  <2>2. ASSUME NEW n \in 0 .. Len(to_dispatcher')
        PROVE  joined'[x] + Count(to_dispatcher', "subscribe", x, n)
                 >= Count(to_dispatcher', "unsubscribe", x, n)
    <3>1. PICK k \in 0 .. Len(to_dispatcher) :
             /\ Count(to_dispatcher', "subscribe", x, n) =
                   Count(to_dispatcher, "subscribe", x, k)
             /\ Count(to_dispatcher', "unsubscribe", x, n) =
                   Count(to_dispatcher, "unsubscribe", x, k)
      BY <1>1, <1>2, Zenon
    <3>2. joined[x] + Count(to_dispatcher, "subscribe", x, k)
            >= Count(to_dispatcher, "unsubscribe", x, k)
      BY <1>3, Zenon DEF Agree
    <3> QED  BY <3>1, <3>2, Zenon
  <2> QED  BY <2>1, <2>2, Zenon DEF Agree
<1>4. ASSUME NEW x \in Patterns
      PROVE  joined'[x]
               + Count(to_dispatcher', "subscribe", x, Len(to_dispatcher'))
               <= subscribes'
  BY <1>1, <1>2, Zenon DEF Subscribed
<1> QED  BY <1>3, <1>4, Zenon DEF Subscribed

\* Nothing about subscriptions is written.
Said(q, r) ==
    \/ r = q
    \/ \E m \in ToDispatcher : m.type \notin Subscribing /\ r = Append(q, m)

(* Then what was written about subscriptions is the same.                  *)
LEMMA SaidSame ==
    ASSUME NEW q \in Seq(ToDispatcher), NEW r, Said(q, r)
    PROVE  SameCounts(q, r)
BY SameKept, SameWritten, Zenon DEF Said

(* A message about something else may be written.                          *)
LEMMA WrittenSaid ==
    ASSUME NEW m \in ToDispatcher, m.type \notin Subscribing
    PROVE  Said(to_dispatcher, Written(m))
BY DEF Said, Written

(* What handle_events does to the instance.                                *)
LEMMA EventsMore ==
    ASSUME NEW q \in Instance, NEW m \in ToAPI, NEW e \in handle_events(q, m)
    PROVE  /\ e.p \in Instance
           /\ e.p.lookup = q.lookup
           /\ e.p.initialization_complete = q.initialization_complete
           /\ e.p.process_count =
                 IF m.type = "REINIT" THEN m.count ELSE q.process_count
           /\ q.terminate => e.p.terminate
           /\ e.p.terminate => q.terminate \/ e.result # "none"
           /\ e.sent \in {to_dispatcher, Written([type |-> "keepalive"])}
           /\ Said(to_dispatcher, e.sent)
           /\ e.result \in {"none", "success", "terminate", "error"}
           /\ e.result = "success" => External
           /\ e.result = "terminate" => ~External
<1>0. /\ Said(to_dispatcher, to_dispatcher)
      /\ Said(to_dispatcher, Written([type |-> "keepalive"]))
  <2>1. [type |-> "keepalive"] \in ToDispatcher
        /\ [type |-> "keepalive"].type \notin Subscribing
    BY DEF ToDispatcher, Subscribing
  <2>2. Said(to_dispatcher, Written([type |-> "keepalive"]))
    BY <2>1, WrittenSaid
  <2> QED  BY <2>2 DEF Said
<1>1. CASE m.type = "TERM"
  <2>1. e = [p |-> [q EXCEPT !.terminate = TRUE], sent |-> to_dispatcher,
             result |-> IF External THEN "success" ELSE "terminate"]
    BY <1>1 DEF handle_events
  <2> QED  BY <1>0, <1>1, <2>1 DEF Instance
<1>2. CASE m.type = "REINIT"
  <2>1. e = [p |-> [q EXCEPT !.process_count = m.count],
              sent |-> to_dispatcher, result |-> "none"]
    BY <1>2 DEF handle_events
  <2>2. m.count \in Nat
    BY <1>2 DEF ToAPI, Answers, AnswerTo
  <2> QED  BY <1>0, <1>2, <2>1, <2>2 DEF Instance
<1>3. CASE m.type = "KEEPALIVE"
  <2>1. PICK k \in keepalive : e = [p |-> q, sent |-> k[1], result |-> k[2]]
    BY <1>3 DEF handle_events
  <2>2. \/ k = <<Written([type |-> "keepalive"]), "none">>
        \/ k = <<to_dispatcher, "error">>
    BY DEF keepalive
  <2> QED  BY <1>0, <1>3, <2>1, <2>2
<1>4. CASE m.type \notin {"TERM", "REINIT", "KEEPALIVE"}
  <2>1. e = [p |-> q, sent |-> to_dispatcher, result |-> "error"]
    BY <1>4 DEF handle_events
  <2> QED  BY <1>0, <1>4, <2>1
<1> QED  BY <1>1, <1>2, <1>3, <1>4

(* And what the second message of a read does to it.                       *)
LEMMA LeftoverMore ==
    ASSUME NEW q \in Instance, NEW n \in 1 .. 2, n = 2 => to_api[2] \in ToAPI,
           NEW e \in Leftover(q, n)
    PROVE  /\ e.p \in Instance
           /\ e.p.lookup = q.lookup
           /\ e.p.initialization_complete = q.initialization_complete
           /\ e.p.process_count =
                 IF n = 2 /\ to_api[2].type = "REINIT"
                 THEN to_api[2].count ELSE q.process_count
           /\ q.terminate => e.p.terminate
           /\ e.p.terminate => q.terminate \/ e.result # "none"
           /\ e.sent \in {to_dispatcher, Written([type |-> "keepalive"])}
           /\ Said(to_dispatcher, e.sent)
           /\ e.result \in {"none", "success", "terminate", "error"}
           /\ e.result = "success" => External
           /\ e.result = "terminate" => ~External
<1>1. CASE n = 1
  <2>1. e = [p |-> q, sent |-> to_dispatcher, result |-> "none"]
    BY <1>1 DEF Leftover
  <2> QED  BY <1>1, <2>1 DEF Said
<1>2. CASE n = 2
  <2>1. e \in handle_events(q, to_api[2])
    BY <1>2 DEF Leftover
  <2> QED  BY <1>2, <2>1, EventsMore
<1> QED  BY <1>1, <1>2

-----------------------------------------------------------------------------
(* What a read does to the instance                                        *)

\* The process count once n messages were read.
CountAfter(n) ==
    IF n = 2 /\ to_api[2].type = "REINIT" THEN to_api[2].count
    ELSE IF to_api[1].type \in Counts THEN to_api[1].count
    ELSE p.process_count

\* What a read of n messages leaves of the two directions of the socket.
ReadOf(n) ==
    /\ n \in 1 .. Len(to_api)
    /\ to_api' = SubSeq(to_api, n + 1, Len(to_api))
    /\ Said(to_dispatcher, to_dispatcher')
    /\ \A x \in Patterns : Len(p'.lookup[x]) = Len(p.lookup[x])
    /\ subscribes' = subscribes
    /\ alive' => alive /\ p'.process_count = CountAfter(n)

(* The functions of a pattern take turns.                                  *)
LEMMA CycleIs ==
    ASSUME NEW q \in Seq(Functions)
    PROVE  Len(cycle(q)) = Len(q)
<1>1. Len(q) \in Nat
  OBVIOUS
<1>2. CASE Len(q) <= 1
  BY <1>2 DEF cycle
<1>3. CASE ~(Len(q) <= 1)
  <2>1. q # <<>>
    BY <1>1, <1>3
  <2>2. /\ Tail(q) \in Seq(Functions) /\ Len(Tail(q)) = Len(q) - 1
        /\ Head(q) \in Functions
    BY <2>1
  <2>3. Len(Append(Tail(q), Head(q))) = Len(Tail(q)) + 1
    BY <2>2
  <2>4. cycle(q) = Append(Tail(q), Head(q))
    BY <1>3 DEF cycle
  <2> QED  BY <1>1, <2>2, <2>3, <2>4
<1> QED  BY <1>2, <1>3

(* What every read has in common.                                          *)
LEMMA ReadsMore ==
    ASSUME IInv, NEW n \in 1 .. 2, NEW types, Reads(n, types)
    PROVE  /\ p \in Instance /\ to_api \in Seq(ToAPI)
           /\ InPoll /\ alive /\ n \in 1 .. Len(to_api)
           /\ to_api[1] \in ToAPI /\ to_api[1].type \in types
           /\ n = 2 => to_api[2] \in ToAPI
           /\ to_api' = SubSeq(to_api, n + 1, Len(to_api))
           /\ subscribes' = subscribes /\ open' = open
<1>1. Typed /\ Followed
  BY DEF IInv
<1>2. /\ InPoll /\ n \in 1 .. Len(to_api)
      /\ to_api[1] \in ToAPI /\ to_api[1].type \in types
      /\ n = 2 => to_api[2] \in ToAPI
  BY <1>1, ReadsIs
<1>3. /\ to_api' = SubSeq(to_api, n + 1, Len(to_api))
      /\ subscribes' = subscribes /\ open' = open
  BY DEF Reads
<1> QED  BY <1>1, <1>2, <1>3 DEF Typed, InPoll

(* A request, after which the function of the pattern is chosen.           *)
LEMMA ReadSendOf ==
    ASSUME IInv, NEW n \in 1 .. 2, ReadSend(n)
    PROVE  ReadOf(n)
<1> DEFINE r == to_api[1].request
           q == [p EXCEPT !.buffer_call = r]
<1>1. Reads(n, {"SEND"})
  BY DEF ReadSend
<1>2. /\ p \in Instance /\ to_api \in Seq(ToAPI)
      /\ alive /\ n \in 1 .. Len(to_api)
      /\ to_api[1] \in ToAPI /\ to_api[1].type = "SEND"
      /\ n = 2 => to_api[2] \in ToAPI
      /\ to_api' = SubSeq(to_api, n + 1, Len(to_api))
      /\ subscribes' = subscribes /\ open' = open
  BY <1>1, ReadsMore
<1>3. r \in Requests /\ PatternOf[r] \in Patterns
  BY <1>2, APIAssumption DEF ToAPI, Answers, AnswerTo
<1>4. /\ q \in Instance /\ q.lookup = p.lookup
      /\ q.process_count = p.process_count
  BY <1>2, <1>3 DEF Instance
<1>5. to_api[1].type \notin Counts
  BY <1>2 DEF Counts
<1>6. CASE n = 2 /\ ~External
  <2>1. p' = q /\ to_dispatcher' = to_dispatcher /\ alive' = FALSE
    BY <1>6 DEF ReadSend, Raises
  <2>2. \A x \in Patterns : Len(p'.lookup[x]) = Len(p.lookup[x])
    BY <1>4, <2>1
  <2> QED  BY <1>2, <2>1, <2>2 DEF ReadOf, Said
<1>7. CASE ~(n = 2 /\ ~External)
  <2>1. PICK e \in Leftover(q, n) :
           /\ to_dispatcher' = e.sent
           /\ \/ p' = e.p
              \/ p' = [e.p EXCEPT !.lookup[PatternOf[r]] = cycle(@)]
    BY <1>7 DEF ReadSend
  <2> HIDE DEF q, r
  <2>2. /\ e.p \in Instance /\ e.p.lookup = q.lookup
        /\ e.p.process_count =
              IF n = 2 /\ to_api[2].type = "REINIT"
              THEN to_api[2].count ELSE q.process_count
        /\ Said(to_dispatcher, e.sent)
    BY <1>2, <1>4, <2>1, LeftoverMore
  <2>3. p'.process_count = CountAfter(n)
    <3>1. p'.process_count = e.p.process_count
      BY <2>1, <2>2 DEF Instance
    <3> QED  BY <1>4, <1>5, <2>2, <3>1 DEF CountAfter
  <2>4. \A x \in Patterns : Len(p'.lookup[x]) = Len(p.lookup[x])
    <3>1. CASE p' = e.p
      BY <1>4, <2>2, <3>1
    <3>2. CASE p' = [e.p EXCEPT !.lookup[PatternOf[r]] = cycle(@)]
      <4>1. e.p.lookup \in [Patterns -> Seq(Functions)]
        BY <2>2 DEF Instance
      <4>2. p'.lookup = [e.p.lookup EXCEPT ![PatternOf[r]] = cycle(@)]
        BY <2>2, <3>2 DEF Instance
      <4>3. \A x \in Patterns : Len(p'.lookup[x]) = Len(e.p.lookup[x])
        BY <1>3, <4>1, <4>2, CycleIs
      <4> QED  BY <1>4, <2>2, <4>3
    <3> QED  BY <2>1, <3>1, <3>2
  <2> QED  BY <1>2, <2>1, <2>2, <2>3, <2>4 DEF ReadOf
<1> QED  BY <1>6, <1>7

(* The answer of a call, INIT among them.                                  *)
LEMMA ReadAnswerOf ==
    ASSUME IInv, NEW n \in 1 .. 2, ReadAnswer(n)
    PROVE  ReadOf(n)
<1> DEFINE m == to_api[1]
           q == IF m.type = "INIT"
                THEN [p EXCEPT !.process_count = m.count] ELSE p
<1>1. Reads(n, Answers)
  BY DEF ReadAnswer
<1>2. /\ p \in Instance /\ to_api \in Seq(ToAPI)
      /\ alive /\ n \in 1 .. Len(to_api)
      /\ m \in ToAPI /\ m.type \in Answers
      /\ n = 2 => to_api[2] \in ToAPI
      /\ to_api' = SubSeq(to_api, n + 1, Len(to_api))
      /\ subscribes' = subscribes /\ open' = open
  BY <1>1, ReadsMore
<1>3. m.type \in Counts <=> m.type = "INIT"
  BY <1>2 DEF Counts, Answers, AnswerTo
<1>4. /\ q \in Instance /\ q.lookup = p.lookup
      /\ q.process_count =
            IF m.type \in Counts THEN m.count ELSE p.process_count
  <2>1. m.type = "INIT" => m.count \in Nat
    BY <1>2 DEF ToAPI
  <2> QED  BY <1>2, <1>3, <2>1 DEF Instance
<1>5. CASE n = 2 /\ External
  <2>1. p' = q /\ to_dispatcher' = to_dispatcher /\ alive' = FALSE
    BY <1>5 DEF ReadAnswer, Raises
  <2> HIDE DEF q
  <2>2. \A x \in Patterns : Len(p'.lookup[x]) = Len(p.lookup[x])
    BY <1>4, <2>1
  <2> QED  BY <1>2, <2>1, <2>2 DEF ReadOf, Said
<1>6. CASE ~(n = 2 /\ External)
  <2>1. PICK e \in Leftover(q, n) : p' = e.p /\ to_dispatcher' = e.sent
    BY <1>6 DEF ReadAnswer
  <2> HIDE DEF q
  <2>2. /\ e.p \in Instance /\ e.p.lookup = q.lookup
        /\ e.p.process_count =
              IF n = 2 /\ to_api[2].type = "REINIT"
              THEN to_api[2].count ELSE q.process_count
        /\ Said(to_dispatcher, e.sent)
    BY <1>2, <1>4, <2>1, LeftoverMore
  <2>3. p'.process_count = CountAfter(n)
    BY <1>4, <2>1, <2>2 DEF CountAfter
  <2>4. \A x \in Patterns : Len(p'.lookup[x]) = Len(p.lookup[x])
    BY <1>4, <2>1, <2>2
  <2> QED  BY <1>2, <2>1, <2>2, <2>3, <2>4 DEF ReadOf
<1> QED  BY <1>5, <1>6

(* The messages that no call waits for.                                    *)
LEMMA ReadOthersOf ==
    ASSUME IInv, ReadTerm \/ ReadReinit \/ ReadKeepalive
    PROVE  ReadOf(1)
<1>0. 1 \in 1 .. 2
  OBVIOUS
<1>1. CASE ReadTerm
  <2>1. Reads(1, {"TERM"})
    BY <1>1 DEF ReadTerm
  <2>2. /\ p \in Instance /\ alive /\ 1 \in 1 .. Len(to_api)
        /\ to_api[1] \in ToAPI /\ to_api[1].type = "TERM"
        /\ to_api' = SubSeq(to_api, 1 + 1, Len(to_api))
        /\ subscribes' = subscribes
    BY <1>0, <2>1, ReadsMore
  <2>3. PICK e \in handle_events(p, to_api[1]) :
           p' = e.p /\ to_dispatcher' = e.sent
    BY <1>1 DEF ReadTerm
  <2>4. /\ e.p.lookup = p.lookup
        /\ e.p.process_count = p.process_count
        /\ Said(to_dispatcher, e.sent)
    BY <2>2, <2>3, EventsMore
  <2>5. p'.process_count = CountAfter(1)
    BY <2>2, <2>3, <2>4 DEF CountAfter, Counts
  <2> QED  BY <2>2, <2>3, <2>4, <2>5 DEF ReadOf
<1>2. CASE ReadReinit
  <2>1. Reads(1, {"REINIT"})
    BY <1>2 DEF ReadReinit
  <2>2. /\ p \in Instance /\ alive /\ 1 \in 1 .. Len(to_api)
        /\ to_api[1] \in ToAPI /\ to_api[1].type = "REINIT"
        /\ to_api' = SubSeq(to_api, 1 + 1, Len(to_api))
        /\ subscribes' = subscribes
    BY <1>0, <2>1, ReadsMore
  <2>3. p' = [p EXCEPT !.process_count = to_api[1].count]
        /\ to_dispatcher' = to_dispatcher
    BY <1>2 DEF ReadReinit
  <2>4. p'.process_count = to_api[1].count /\ p'.lookup = p.lookup
    BY <2>2, <2>3 DEF Instance
  <2>5. p'.process_count = CountAfter(1)
    BY <2>2, <2>4 DEF CountAfter, Counts
  <2> QED  BY <2>2, <2>3, <2>4, <2>5 DEF ReadOf, Said
<1>3. CASE ReadKeepalive
  <2>1. Reads(1, {"KEEPALIVE"})
    BY <1>3 DEF ReadKeepalive
  <2>2. /\ p \in Instance /\ alive /\ 1 \in 1 .. Len(to_api)
        /\ to_api[1] \in ToAPI /\ to_api[1].type = "KEEPALIVE"
        /\ to_api' = SubSeq(to_api, 1 + 1, Len(to_api))
        /\ subscribes' = subscribes
    BY <1>0, <2>1, ReadsMore
  <2>3. PICK k \in keepalive : to_dispatcher' = k[1] /\ p' = p
    BY <1>3 DEF ReadKeepalive
  <2>4. k[1] \in {to_dispatcher, Written([type |-> "keepalive"])}
    BY DEF keepalive
  <2>5. [type |-> "keepalive"] \in ToDispatcher
        /\ [type |-> "keepalive"].type \notin Subscribing
    BY DEF ToDispatcher, Subscribing
  <2>6. Said(to_dispatcher, to_dispatcher')
    <3>1. Said(to_dispatcher, Written([type |-> "keepalive"]))
      BY <2>5, WrittenSaid
    <3> QED  BY <2>3, <2>4, <3>1 DEF Said
  <2>7. p'.process_count = CountAfter(1)
    BY <2>2, <2>3 DEF CountAfter, Counts
  <2> QED  BY <2>2, <2>3, <2>6, <2>7 DEF ReadOf
<1> QED  BY <1>1, <1>2, <1>3

-----------------------------------------------------------------------------
(* Subscriptions, step by step                                             *)

(* A message is written, and the functions of the pattern with it.         *)
LEMMA AgreeWritten ==
    ASSUME IInv, NEW x \in Patterns, Agree(x), NEW m \in ToDispatcher,
           to_dispatcher' = Append(to_dispatcher, m), joined' = joined,
           Len(p'.lookup[x]) \in Nat,
           Len(p'.lookup[x]) + Hit(m, "unsubscribe", x) =
              Len(p.lookup[x]) + Hit(m, "subscribe", x)
    PROVE  Agree(x)'
<1> DEFINE q == to_dispatcher
           S(n) == Count(q, "subscribe", x, n)
           U(n) == Count(q, "unsubscribe", x, n)
           T(n) == Count(q', "subscribe", x, n)
           V(n) == Count(q', "unsubscribe", x, n)
<1>1. /\ q \in Seq(ToDispatcher) /\ Len(q) \in Nat /\ Len(q') = Len(q) + 1
      /\ joined[x] \in Nat /\ p.lookup[x] \in Seq(Functions)
  BY DEF IInv, Typed, Instance
<1>2. Len(p.lookup[x]) \in Nat
  BY <1>1
<1>3. \A n \in 0 .. Len(q) : T(n) = S(n) /\ V(n) = U(n)
  <2>1. q \in Seq(ToDispatcher) /\ q' = Append(q, m)
    BY <1>1
  <2>2. ASSUME NEW n \in 0 .. Len(q), NEW type
        PROVE  Count(Append(q, m), type, x, n) = Count(q, type, x, n)
    BY <2>1, CountBefore
  <2> QED  BY <2>1, <2>2
<1>4. T(Len(q) + 1) = S(Len(q)) + Hit(m, "subscribe", x)
  BY <1>1, CountAppend, Zenon
<1>5. V(Len(q) + 1) = U(Len(q)) + Hit(m, "unsubscribe", x)
  BY <1>1, CountAppend, Zenon
<1>6. S(Len(q)) \in Nat /\ U(Len(q)) \in Nat
  BY <1>1, CountIs, Zenon
<1>7. Hit(m, "subscribe", x) \in Nat /\ Hit(m, "unsubscribe", x) \in Nat
  BY DEF Hit
<1>8. joined[x] + S(Len(q)) = Len(p.lookup[x]) + U(Len(q))
  BY DEF Agree
<1>a. \A n \in 0 .. Len(q) : joined[x] + S(n) >= U(n)
  BY DEF Agree
<1> HIDE DEF S, U, T, V, q
<1>9. joined[x] + T(Len(q) + 1) = Len(p'.lookup[x]) + V(Len(q) + 1)
  <2>1. joined[x] \in Nat
    BY <1>1
  <2>2. PICK j \in Nat, a \in Nat, b \in Nat, e \in Nat, g \in Nat,
             k \in Nat, l \in Nat :
           /\ j = joined[x] /\ a = S(Len(q)) /\ b = U(Len(q))
           /\ e = Hit(m, "subscribe", x) /\ g = Hit(m, "unsubscribe", x)
           /\ k = Len(p'.lookup[x]) /\ l = Len(p.lookup[x])
    BY <1>2, <1>6, <1>7, <2>1, Zenon
  <2>3. j + a = l + b /\ k + g = l + e
    BY <1>8, <2>2, Zenon
  <2>4. j + (a + e) = k + (b + g)
    BY <2>3
  <2>5. T(Len(q) + 1) = a + e /\ V(Len(q) + 1) = b + g
    BY <1>4, <1>5, <2>2, Zenon
  <2> QED  BY <2>2, <2>4, <2>5, Zenon
<1>10. joined[x] + T(Len(q) + 1) >= V(Len(q) + 1)
  BY <1>1, <1>5, <1>6, <1>7, <1>9
<1>11. \A n \in 0 .. Len(q) + 1 : n \in 0 .. Len(q) \/ n = Len(q) + 1
  BY <1>1
<1>12. \A n \in 0 .. Len(q) + 1 : joined[x] + T(n) >= V(n)
  BY <1>3, <1>a, <1>10, <1>11, Zenon
<1> QED  BY <1>1, <1>9, <1>12, Zenon DEF Agree, T, V, q

\* A subscription or its end is counted on one side or on the other.
Balanced(i, j, t, v, a, b, l) ==
    i + b = j + a =>
       /\ j + (t + a) = l + (v + b) => i + t = l + v
       /\ j + (t + a) >= v + b => i + t >= v

(* So the sums stay what they were.                                        *)
LEMMA Balance ==
    \A i, j, t, v, a, b, l \in Nat : Balanced(i, j, t, v, a, b, l)
BY DEF Balanced

(* A message is read, and the group is joined or left with it.             *)
LEMMA AgreeRead ==
    ASSUME IInv, NEW x \in Patterns, Agree(x), to_dispatcher # <<>>,
           to_dispatcher' = Tail(to_dispatcher), p' = p, joined'[x] \in Nat,
           joined'[x] + Hit(Head(to_dispatcher), "unsubscribe", x) =
              joined[x] + Hit(Head(to_dispatcher), "subscribe", x)
    PROVE  Agree(x)'
<1> DEFINE q == to_dispatcher
           S(n) == Count(q, "subscribe", x, n)
           U(n) == Count(q, "unsubscribe", x, n)
           T(n) == Count(Tail(q), "subscribe", x, n)
           V(n) == Count(Tail(q), "unsubscribe", x, n)
           hs == Hit(Head(q), "subscribe", x)
           hu == Hit(Head(q), "unsubscribe", x)
<1>1. /\ q \in Seq(ToDispatcher) /\ joined[x] \in Nat
      /\ "subscribe" \in Subscribing /\ "unsubscribe" \in Subscribing
      /\ p.lookup[x] \in Seq(Functions)
  BY DEF IInv, Typed, Subscribing, Instance
<1>2. /\ Len(q) \in Nat /\ Len(Tail(q)) = Len(q) - 1 /\ Len(q) >= 1
      /\ \A n \in 0 .. Len(q) - 1 : S(n + 1) = T(n) + hs
      /\ S(Len(q)) = T(Len(Tail(q))) + hs
      /\ \A n \in 0 .. Len(q) - 1 : T(n) \in Nat
  BY <1>1, CountRead, Zenon
<1>3. /\ \A n \in 0 .. Len(q) - 1 : U(n + 1) = V(n) + hu
      /\ U(Len(q)) = V(Len(Tail(q))) + hu
      /\ \A n \in 0 .. Len(q) - 1 : V(n) \in Nat
  BY <1>1, CountRead, Zenon
<1>4. hs \in Nat /\ hu \in Nat
  BY DEF Hit
<1>5. /\ joined[x] + S(Len(q)) = Len(p.lookup[x]) + U(Len(q))
      /\ \A n \in 0 .. Len(q) : joined[x] + S(n) >= U(n)
  BY DEF Agree
<1>6. joined'[x] + hu = joined[x] + hs
  OBVIOUS
<1>7. Len(p.lookup[x]) \in Nat
  BY <1>1
<1>8. Len(Tail(q)) \in 0 .. Len(q) - 1
  BY <1>2
<1> HIDE DEF S, U, T, V, hs, hu, q
<1>9. T(Len(Tail(q))) \in Nat /\ V(Len(Tail(q))) \in Nat
  BY <1>2, <1>3, <1>8, Zenon
<1>10. joined'[x] + T(Len(Tail(q))) = Len(p.lookup[x]) + V(Len(Tail(q)))
  <2>1. /\ S(Len(q)) = T(Len(Tail(q))) + hs
        /\ U(Len(q)) = V(Len(Tail(q))) + hu
        /\ joined[x] + S(Len(q)) = Len(p.lookup[x]) + U(Len(q))
    BY <1>2, <1>3, <1>5, Zenon
  <2>2. joined[x] \in Nat /\ joined'[x] \in Nat
    BY <1>1
  <2>3. joined[x] + (T(Len(Tail(q))) + hs)
          = Len(p.lookup[x]) + (V(Len(Tail(q))) + hu)
    BY <2>1, Zenon
  <2>4. Balanced(joined'[x], joined[x], T(Len(Tail(q))), V(Len(Tail(q))),
                 hs, hu, Len(p.lookup[x]))
    BY <1>4, <1>7, <1>9, <2>2, Balance, Zenon
  <2> QED  BY <1>6, <2>3, <2>4, Zenon DEF Balanced
<1>11. ASSUME NEW n \in 0 .. Len(q) - 1
       PROVE  joined'[x] + T(n) >= V(n)
  <2>1. n + 1 \in 0 .. Len(q)
    BY <1>2
  <2>2. S(n + 1) = T(n) + hs /\ U(n + 1) = V(n) + hu
        /\ T(n) \in Nat /\ V(n) \in Nat
    BY <1>2, <1>3, Zenon
  <2>3. joined[x] + S(n + 1) >= U(n + 1)
    BY <1>5, <2>1, Zenon
  <2>4. joined[x] \in Nat /\ joined'[x] \in Nat
    BY <1>1
  <2>5. joined[x] + (T(n) + hs) >= V(n) + hu
    BY <2>2, <2>3, Zenon
  <2>6. Balanced(joined'[x], joined[x], T(n), V(n), hs, hu,
                 Len(p.lookup[x]))
    BY <1>4, <1>7, <2>2, <2>4, Balance, Zenon
  <2> QED  BY <1>6, <2>5, <2>6, Zenon DEF Balanced
<1> QED  BY <1>2, <1>10, <1>11, Zenon DEF Agree, T, V, q

(* The code of the service, but for subscriptions.                         *)
LEMMA CodeOf ==
    ASSUME IInv, ServiceCode
    PROVE  \/ /\ Said(to_dispatcher, to_dispatcher')
              /\ p'.lookup = p.lookup
              /\ p'.process_count = p.process_count
              /\ to_api' = to_api /\ subscribes' = subscribes
              /\ alive' => alive
           \/ \E x \in Patterns : \E f \in Functions : cloudi_subscribe(x, f)
           \/ \E x \in Patterns : cloudi_unsubscribe(x)
<1> DEFINE Plainly == /\ Said(to_dispatcher, to_dispatcher')
                      /\ p'.lookup = p.lookup
                      /\ p'.process_count = p.process_count
                      /\ to_api' = to_api /\ subscribes' = subscribes
                      /\ alive' => alive
<1>1. Said(to_dispatcher, to_dispatcher)
  BY DEF Said
<1>2. /\ p \in Instance /\ stack \in Seq(Frame) /\ Nested(stack)
  BY DEF IInv, Typed, Nesting
<1>3. CASE \E c \in CallId :
              \/ cloudi_subscribe_count(c) \/ cloudi_send_async(c)
              \/ cloudi_send_sync(c) \/ cloudi_mcast_async(c)
              \/ cloudi_recv_async(c)
  <2>1. PICK c \in CallId, kind \in Blocking : Waits(kind, c)
    BY <1>3 DEF cloudi_subscribe_count, cloudi_send_async, cloudi_send_sync,
       cloudi_mcast_async, cloudi_recv_async, Blocking, AnswerTo
  <2>2. /\ [type |-> kind, call |-> c] \in ToDispatcher
        /\ [type |-> kind, call |-> c].type \notin Subscribing
    BY DEF ToDispatcher, Blocking, AnswerTo, Subscribing
  <2>3. Said(to_dispatcher, Written([type |-> kind, call |-> c]))
    BY <2>2, WrittenSaid
  <2> QED  BY <1>1, <2>1, <2>3 DEF Waits
<1>4. CASE \/ cloudi_return \/ cloudi_return_async \/ cloudi_return_sync
           \/ cloudi_forward \/ cloudi_forward_async \/ cloudi_forward_sync
  <2>1. PICK type \in {"return", "forward"} : \E kind : Answered(type, kind)
    BY <1>4 DEF cloudi_return, cloudi_return_async, cloudi_return_sync,
       cloudi_forward, cloudi_forward_async, cloudi_forward_sync
  <2>2. Top.request \in Requests
    BY <1>2, <2>1, CallbackTop DEF Answered, InCallback
  <2>3. /\ [type |-> type, request |-> Top.request] \in ToDispatcher
        /\ [type |-> type, request |-> Top.request].type \notin Subscribing
    BY <2>2 DEF ToDispatcher, Subscribing
  <2>4. Said(to_dispatcher,
             Written([type |-> type, request |-> Top.request]))
    BY <2>3, WrittenSaid
  <2> QED  BY <2>1, <2>4 DEF Answered, Raises, InCallback
<1>5. CASE callback
  <2>1. Top.request \in Requests
    BY <1>2, <1>5, CallbackTop DEF callback
  <2>2. /\ [type |-> "return", request |-> Top.request] \in ToDispatcher
        /\ [type |-> "return", request |-> Top.request].type
              \notin Subscribing
    BY <2>1 DEF ToDispatcher, Subscribing
  <2>3. Said(to_dispatcher,
             Written([type |-> "return", request |-> Top.request]))
    BY <2>2, WrittenSaid
  <2> QED  BY <1>1, <1>5, <2>3 DEF callback, Raises
<1>6. ASSUME NEW k \in {"shutdown", "init", "polling"}
      PROVE  Said(to_dispatcher, Written([type |-> k]))
  <2>1. [type |-> k] \in ToDispatcher /\ [type |-> k].type \notin Subscribing
    BY DEF ToDispatcher, Subscribing
  <2> QED  BY <2>1, WrittenSaid
<1>7. CASE cloudi_shutdown \/ cloudi_destroy \/ cloudi_initialize
  BY <1>1, <1>6, <1>7 DEF cloudi_shutdown, cloudi_destroy, cloudi_initialize,
     apiVars, socketVars
<1>8. CASE \E finite \in BOOLEAN : cloudi_poll(finite)
  <2>1. PICK finite \in BOOLEAN : cloudi_poll(finite)
    BY <1>8
  <2>2. /\ p' = p \/ p' = [p EXCEPT !.initialization_complete = TRUE]
        /\ \/ to_dispatcher' = to_dispatcher
           \/ to_dispatcher' = Written([type |-> "polling"])
        /\ UNCHANGED <<alive, subscribes, to_api>>
    BY <2>1 DEF cloudi_poll
  <2>3. p'.lookup = p.lookup /\ p'.process_count = p.process_count
    BY <1>2, <2>2 DEF Instance
  <2> QED  BY <1>1, <1>6, <2>2, <2>3
<1> QED  BY <1>3, <1>4, <1>5, <1>7, <1>8 DEF ServiceCode

(* A step of the thread that leaves the subscriptions alone.               *)
LEMMA ThreadSays ==
    ASSUME IInv, Subscribed, UNCHANGED dispatcherVars,
           Said(to_dispatcher, to_dispatcher'),
           \A x \in Patterns : Len(p'.lookup[x]) = Len(p.lookup[x]),
           subscribes' = subscribes
    PROVE  Subscribed'
<1>1. joined' = joined /\ d' = d
  BY DEF dispatcherVars
<1>2. SameCounts(to_dispatcher, to_dispatcher')
  BY SaidSame, Zenon DEF IInv, Typed
<1>3. Running' /\ ~d'.terminated => Running /\ ~d.terminated
  BY <1>1 DEF Running
<1> QED  BY <1>1, <1>2, <1>3, SubscribedKept, Zenon

(* subscribe: the function is kept, and the message is written.            *)
LEMMA SubscribeAgrees ==
    ASSUME IInv, IInv', Subscribed, UNCHANGED dispatcherVars,
           NEW y \in Patterns, NEW f \in Functions, cloudi_subscribe(y, f)
    PROVE  Subscribed'
<1> DEFINE m == [type |-> "subscribe", pattern |-> y]
           q == to_dispatcher
<1>1. /\ joined' = joined /\ d' = d /\ open' = open
      /\ subscribes \in Nat /\ subscribes' = subscribes + 1
      /\ joined \in [Patterns -> Nat]
      /\ p.lookup \in [Patterns -> Seq(Functions)]
      /\ p'.lookup = [p.lookup EXCEPT ![y] = Append(@, f)]
      /\ q \in Seq(ToDispatcher) /\ Len(q) \in Nat
  BY DEF dispatcherVars, cloudi_subscribe, IInv, Typed, Instance, insert
<1>2. /\ \A x : Hit(m, "unsubscribe", x) = 0
      /\ \A x : Hit(m, "subscribe", x) = IF x = y THEN 1 ELSE 0
  BY DEF Hit, Matches
<1>3. m \in ToDispatcher
  BY DEF ToDispatcher
<1>4. ASSUME NEW x \in Patterns
      PROVE  /\ Len(p'.lookup[x]) \in Nat
             /\ Len(p'.lookup[x]) + Hit(m, "unsubscribe", x) =
                   Len(p.lookup[x]) + Hit(m, "subscribe", x)
  <2>1. p.lookup[x] \in Seq(Functions) /\ Len(p.lookup[x]) \in Nat
    BY <1>1
  <2>2. CASE x = y
    <3>1. p'.lookup[x] = Append(p.lookup[x], f)
      BY <1>1, <2>2
    <3>2. Len(p'.lookup[x]) = Len(p.lookup[x]) + 1
      BY <2>1, <3>1
    <3> QED  BY <1>2, <2>1, <2>2, <3>2
  <2>3. CASE x # y
    <3>1. p'.lookup[x] = p.lookup[x]
      BY <1>1, <2>3
    <3> QED  BY <1>2, <2>1, <2>3, <3>1
  <2> QED  BY <2>2, <2>3
<1>5. to_dispatcher' = IF open THEN Append(q, m) ELSE q
  BY DEF cloudi_subscribe, Written
<1> HIDE DEF m
<1>6. ASSUME Running', ~d'.terminated, NEW x \in Patterns
      PROVE  Agree(x)'
  <2>1. Agree(x)
    BY <1>1, <1>6 DEF Subscribed, Running
  <2>2. open
    BY <1>1, <1>6 DEF IInv, Dispatching, Running
  <2>3. to_dispatcher' = Append(to_dispatcher, m)
    BY <1>5, <2>2
  <2> QED  BY <1>1, <1>3, <1>4, <2>1, <2>3, AgreeWritten, Zenon
<1>7. ASSUME NEW x \in Patterns
      PROVE  joined'[x] + Count(to_dispatcher', "subscribe", x,
                                Len(to_dispatcher')) <= subscribes'
  <2>1. /\ joined[x] + Count(q, "subscribe", x, Len(q)) <= subscribes
        /\ joined[x] \in Nat
    BY <1>1 DEF Subscribed
  <2>2. Count(q, "subscribe", x, Len(q)) \in Nat
    BY <1>1, CountIs, Zenon
  <2>3. CASE ~open
    <3>1. to_dispatcher' = q
      BY <1>5, <2>3
    <3> QED  BY <1>1, <2>1, <2>2, <3>1
  <2>4. CASE open
    <3>0. Len(Append(q, m)) = Len(q) + 1
      BY <1>1, <1>3
    <3>1. to_dispatcher' = Append(q, m) /\ Len(to_dispatcher') = Len(q) + 1
      BY <1>5, <2>4, <3>0, Zenon
    <3>2. Count(Append(q, m), "subscribe", x, Len(q) + 1) =
             Count(q, "subscribe", x, Len(q)) + Hit(m, "subscribe", x)
      <4>1. q \in Seq(ToDispatcher)
        BY <1>1
      <4> QED  BY <1>3, <4>1, CountAppend, Zenon
    <3>3. Hit(m, "subscribe", x) \in {0, 1}
      BY DEF Hit
    <3>4. Count(to_dispatcher', "subscribe", x, Len(to_dispatcher')) =
             Count(q, "subscribe", x, Len(q)) + Hit(m, "subscribe", x)
      BY <3>1, <3>2, Zenon
    <3> QED  BY <1>1, <2>1, <2>2, <3>3, <3>4
  <2> QED  BY <2>3, <2>4
<1> QED  BY <1>6, <1>7, Zenon DEF Subscribed

(* unsubscribe: the pattern has a function, so its group was joined or     *)
(* will be when the dispatcher reads this.                                 *)
LEMMA UnsubscribeAgrees ==
    ASSUME IInv, IInv', Subscribed, UNCHANGED dispatcherVars,
           NEW y \in Patterns, cloudi_unsubscribe(y)
    PROVE  Subscribed'
<1> DEFINE m == [type |-> "unsubscribe", pattern |-> y]
           q == to_dispatcher
<1>1. /\ joined' = joined /\ d' = d /\ open' = open
      /\ subscribes \in Nat /\ subscribes' = subscribes
      /\ joined \in [Patterns -> Nat]
      /\ p.lookup \in [Patterns -> Seq(Functions)]
      /\ p'.lookup = [p.lookup EXCEPT ![y] = Tail(@)]
      /\ p.lookup[y] # <<>>
      /\ q \in Seq(ToDispatcher) /\ Len(q) \in Nat
  BY DEF dispatcherVars, cloudi_unsubscribe, IInv, Typed, Instance, remove
<1>2. /\ \A x : Hit(m, "subscribe", x) = 0
      /\ \A x : Hit(m, "unsubscribe", x) = IF x = y THEN 1 ELSE 0
  BY DEF Hit, Matches
<1>3. m \in ToDispatcher
  BY DEF ToDispatcher
<1>4. ASSUME NEW x \in Patterns
      PROVE  /\ Len(p'.lookup[x]) \in Nat
             /\ Len(p'.lookup[x]) + Hit(m, "unsubscribe", x) =
                   Len(p.lookup[x]) + Hit(m, "subscribe", x)
  <2>1. p.lookup[x] \in Seq(Functions) /\ Len(p.lookup[x]) \in Nat
    BY <1>1
  <2>2. CASE x = y
    <3>1. p'.lookup[x] = Tail(p.lookup[x]) /\ p.lookup[x] # <<>>
      BY <1>1, <2>2
    <3>2. Len(p'.lookup[x]) = Len(p.lookup[x]) - 1 /\ Len(p.lookup[x]) >= 1
      BY <2>1, <3>1
    <3> QED  BY <1>2, <2>1, <2>2, <3>2
  <2>3. CASE x # y
    <3>1. p'.lookup[x] = p.lookup[x]
      BY <1>1, <2>3
    <3> QED  BY <1>2, <2>1, <2>3, <3>1
  <2> QED  BY <2>2, <2>3
<1>5. to_dispatcher' = IF open THEN Append(q, m) ELSE q
  BY DEF cloudi_unsubscribe, Written
<1> HIDE DEF m
<1>6. ASSUME Running', ~d'.terminated, NEW x \in Patterns
      PROVE  Agree(x)'
  <2>1. Agree(x)
    BY <1>1, <1>6 DEF Subscribed, Running
  <2>2. open
    BY <1>1, <1>6 DEF IInv, Dispatching, Running
  <2>3. to_dispatcher' = Append(to_dispatcher, m)
    BY <1>5, <2>2
  <2> QED  BY <1>1, <1>3, <1>4, <2>1, <2>3, AgreeWritten, Zenon
<1>7. ASSUME NEW x \in Patterns
      PROVE  joined'[x] + Count(to_dispatcher', "subscribe", x,
                                Len(to_dispatcher')) <= subscribes'
  <2>1. /\ joined[x] + Count(q, "subscribe", x, Len(q)) <= subscribes
        /\ joined[x] \in Nat
    BY <1>1 DEF Subscribed
  <2>2. Count(q, "subscribe", x, Len(q)) \in Nat
    BY <1>1, CountIs, Zenon
  <2>3. CASE ~open
    <3>1. to_dispatcher' = q
      BY <1>5, <2>3
    <3> QED  BY <1>1, <2>1, <2>2, <3>1
  <2>4. CASE open
    <3>0. Len(Append(q, m)) = Len(q) + 1
      BY <1>1, <1>3
    <3>1. to_dispatcher' = Append(q, m) /\ Len(to_dispatcher') = Len(q) + 1
      BY <1>5, <2>4, <3>0, Zenon
    <3>2. Count(Append(q, m), "subscribe", x, Len(q) + 1) =
             Count(q, "subscribe", x, Len(q)) + Hit(m, "subscribe", x)
      <4>1. q \in Seq(ToDispatcher)
        BY <1>1
      <4> QED  BY <1>3, <4>1, CountAppend, Zenon
    <3>3. Count(to_dispatcher', "subscribe", x, Len(to_dispatcher')) =
             Count(q, "subscribe", x, Len(q)) + Hit(m, "subscribe", x)
      BY <3>1, <3>2, Zenon
    <3> QED  BY <1>1, <1>2, <2>1, <2>2, <3>3
  <2> QED  BY <2>3, <2>4
<1> QED  BY <1>6, <1>7, Zenon DEF Subscribed

(* The thread of the OS process keeps the agreement.                       *)
LEMMA ThreadSubscribed ==
    ASSUME IInv, IInv', Subscribed, Thread
    PROVE  Subscribed'
<1>1. UNCHANGED dispatcherVars
  BY DEF Thread
<1>2. CASE \E n \in 1 .. 2 : ReadSend(n) \/ ReadAnswer(n)
  <2>1. PICK n \in 1 .. 2 : ReadOf(n)
    BY <1>2, ReadSendOf, ReadAnswerOf
  <2> QED  BY <1>1, <2>1, ThreadSays DEF ReadOf
<1>3. CASE ReadTerm \/ ReadReinit \/ ReadKeepalive
  <2>1. ReadOf(1)
    BY <1>3, ReadOthersOf
  <2> QED  BY <1>1, <2>1, ThreadSays DEF ReadOf
<1>4. CASE ReadNull \/ PollTimeout \/ PollFails
  <2>1. UNCHANGED <<p, subscribes, to_dispatcher>>
    BY <1>4 DEF ReadNull, PollTimeout, PollFails, socketVars
  <2> QED  BY <1>1, <2>1, ThreadSays DEF Said
<1>5. CASE ServiceCode
  <2>1. CASE Said(to_dispatcher, to_dispatcher') /\ p'.lookup = p.lookup
             /\ subscribes' = subscribes
    BY <1>1, <2>1, ThreadSays
  <2>2. CASE \E x \in Patterns : \E f \in Functions : cloudi_subscribe(x, f)
    BY <1>1, <2>2, SubscribeAgrees
  <2>3. CASE \E x \in Patterns : cloudi_unsubscribe(x)
    BY <1>1, <2>3, UnsubscribeAgrees
  <2> QED  BY <1>5, <2>1, <2>2, <2>3, CodeOf
<1> QED  BY <1>2, <1>3, <1>4, <1>5 DEF Thread, PollRequest, PollRead

\* What the dispatcher reads, if it is not about subscriptions.
Took(q, r) == r = q \/ (q # <<>> /\ Head(q).type \notin Subscribing
                                 /\ r = Tail(q))

(* Then what is left about subscriptions is the same.                      *)
LEMMA TookSame ==
    ASSUME NEW q \in Seq(ToDispatcher), NEW r, Took(q, r)
    PROVE  SameCounts(q, r)
BY SameKept, SameRead, Zenon DEF Took

(* A step of the dispatcher that joins no group and leaves none.           *)
LEMMA DispatcherTakes ==
    ASSUME IInv, DispatcherStep, ~HandleSubscribe, ~HandleUnsubscribe,
           ~DynamicTerminate
    PROVE  /\ Took(to_dispatcher, to_dispatcher')
           /\ joined' = joined
           /\ Running
           /\ d'.terminated = d.terminated
<1>1. d \in Dispatcher
  BY DEF IInv, Typed
<1>2. Took(to_dispatcher, to_dispatcher)
  BY DEF Took
<1>3. ASSUME NEW types, Receives(types), types \cap Subscribing = {}
      PROVE  Took(to_dispatcher, to_dispatcher')
  BY <1>3 DEF Receives, Took
<1>4. ASSUME NEW closed \in BOOLEAN, terminate(closed)
      PROVE  joined' = joined /\ d'.terminated = d.terminated
  BY <1>1, <1>4 DEF terminate, Dispatcher
<1>5. ASSUME NEW s \in Dispatcher, NEW now, process_queue(s, now)
      PROVE  d'.terminated = s.terminated
  BY <1>5 DEF process_queue, Dispatch, Dispatcher
<1>6. Handling => Running
  BY DEF Handling, Running
<1>7. CASE HandleInit
  <2>1. /\ Receives({"init"}) /\ {"init"} \cap Subscribing = {}
        /\ joined' = joined
        /\ Running
    BY <1>7 DEF HandleInit, Subscribing, Running
  <2>2. d'.terminated = d.terminated
    BY <1>1, <1>7 DEF HandleInit, connection_init, Dispatcher
  <2> QED  BY <1>3, <2>1, <2>2
<1>8. CASE HandlePolling
  <2>1. Receives({"polling"}) /\ {"polling"} \cap Subscribing = {}
        /\ joined' = joined /\ Handling
        /\ process_queue([d EXCEPT !.init_timer = FALSE], status)
    BY <1>8 DEF HandlePolling, Subscribing
  <2>2. [d EXCEPT !.init_timer = FALSE] \in Dispatcher
        /\ [d EXCEPT !.init_timer = FALSE].terminated = d.terminated
    BY <1>1 DEF Dispatcher
  <2>3. d'.terminated = d.terminated
    BY <1>5, <2>1, <2>2
  <2> QED  BY <1>3, <1>6, <2>1, <2>3
<1>9. CASE HandleAnswer
  <2>1. Receives({"return", "forward"}) /\ Handling
        /\ {"return", "forward"} \cap Subscribing = {}
    BY <1>9 DEF HandleAnswer, Subscribing
  <2>2. CASE terminate(FALSE)
    BY <1>3, <1>4, <1>6, <2>1, <2>2
  <2>3. CASE /\ process_queue([d EXCEPT !.request_data = NoRequest],
                              [status EXCEPT ![d.request_data] = "answered"])
             /\ UNCHANGED <<joined, outstanding>>
    <3>1. [d EXCEPT !.request_data = NoRequest] \in Dispatcher
          /\ [d EXCEPT !.request_data = NoRequest].terminated = d.terminated
      BY <1>1 DEF Dispatcher
    <3>2. d'.terminated = d.terminated
      BY <1>5, <2>3, <3>1
    <3> QED  BY <1>3, <1>6, <2>1, <2>3, <3>2
  <2> QED  BY <1>9, <2>2, <2>3 DEF HandleAnswer
<1>10. CASE HandleSubscribeCount \/ HandleCall \/ HandleKeepalive
  <2>1. PICK types : Receives(types) /\ types \cap Subscribing = {}
    <3>1. Blocking \cap Subscribing = {}
      BY DEF Blocking, AnswerTo, Subscribing
    <3>2. \/ Receives({"subscribe_count"}) \/ Receives({"keepalive"})
          \/ Receives(Blocking \ {"subscribe_count"})
      BY <1>10 DEF HandleSubscribeCount, HandleCall, HandleKeepalive
    <3>3. /\ {"subscribe_count"} \cap Subscribing = {}
          /\ {"keepalive"} \cap Subscribing = {}
          /\ (Blocking \ {"subscribe_count"}) \cap Subscribing = {}
      BY <3>1 DEF Subscribing
    <3> QED  BY <3>2, <3>3
  <2>2. joined' = joined /\ d'.terminated = d.terminated /\ Handling
    BY <1>1, <1>10 DEF HandleSubscribeCount, HandleCall, HandleKeepalive,
       dispatcherVars, Dispatcher
  <2> QED  BY <1>3, <1>6, <2>1, <2>2
<1>11. CASE InvalidState \/ HandleShutdown
  <2>1. /\ terminate(FALSE) /\ Handling
        /\ \/ Receives({"send_sync", "recv_async"})
           \/ Receives({"shutdown"})
    BY <1>11 DEF InvalidState, HandleShutdown
  <2>2. /\ {"send_sync", "recv_async"} \cap Subscribing = {}
        /\ {"shutdown"} \cap Subscribing = {}
    BY DEF Subscribing
  <2> QED  BY <1>3, <1>4, <1>6, <2>1, <2>2
<1>12. CASE \E r \in Requests : Send(r) \/ HandleRequest(r) \/ RecvTimeout(r)
  <2>1. PICK r \in Requests : Send(r) \/ HandleRequest(r) \/ RecvTimeout(r)
    BY <1>12
  <2>2. /\ to_dispatcher' = to_dispatcher /\ joined' = joined /\ Running
        /\ d'.terminated = d.terminated
    BY <1>1, <1>6, <2>1 DEF Send, HandleRequest, RecvTimeout, Dispatch,
       Dispatcher
  <2> QED  BY <1>2, <2>2
<1>13. CASE InitBegin \/ CallEnds \/ Reinit \/ KeepaliveTimer
  <2>1. /\ to_dispatcher' = to_dispatcher /\ joined' = joined /\ Running
        /\ d'.terminated = d.terminated
    BY <1>1, <1>6, <1>13 DEF InitBegin, CallEnds, Reinit, KeepaliveTimer,
       connection_init, Dispatcher, Running
  <2> QED  BY <1>2, <2>1
<1>14. CASE InitTimeout \/ SocketClosed \/ Stop
  <2>1. /\ to_dispatcher' = to_dispatcher /\ Running
        /\ terminate(FALSE) \/ terminate(TRUE)
    BY <1>14 DEF InitTimeout, SocketClosed, Stop
  <2> QED  BY <1>2, <1>4, <2>1
<1> QED
  BY <1>7, <1>8, <1>9, <1>10, <1>11, <1>12, <1>13, <1>14
  DEF DispatcherStep, HandleMessage

(* A subscribe or an unsubscribe is read.                                  *)
LEMMA GroupsAgree ==
    ASSUME IInv, IInv', Subscribed, UNCHANGED <<p, subscribes>>,
           HandleSubscribe \/ HandleUnsubscribe
    PROVE  Subscribed'
<1> DEFINE q == to_dispatcher
           y == Message.pattern
<1>1. /\ Handling /\ Running /\ d \in Dispatcher
      /\ Receives(Subscribing) /\ subscribes \in Nat
      /\ joined \in [Patterns -> Nat] /\ joined' \in [Patterns -> Nat]
      /\ q \in Seq(ToDispatcher) /\ q # <<>> /\ q' = Tail(q)
      /\ Message.type \in Subscribing
  <2>1. Handling /\ (Receives({"subscribe"}) \/ Receives({"unsubscribe"}))
    BY DEF HandleSubscribe, HandleUnsubscribe
  <2>2. /\ q # <<>> /\ q' = Tail(q) /\ Message.type \in Subscribing
        /\ Receives(Subscribing)
    BY <2>1 DEF Receives, Message, Subscribing
  <2>3. /\ d \in Dispatcher /\ subscribes \in Nat
        /\ joined \in [Patterns -> Nat] /\ q \in Seq(ToDispatcher)
    BY DEF IInv, Typed
  <2>4. joined' \in [Patterns -> Nat]
    BY DEF IInv, Typed
  <2> QED  BY <2>1, <2>2, <2>3, <2>4 DEF Handling, Running
<1>2. y \in Patterns
  <2>1. Message \in ToDispatcher
    BY <1>1, ReceivesIs
  <2> QED  BY <1>1, <2>1 DEF ToDispatcher, Subscribing, Blocking, AnswerTo
<1>3. \A x : /\ Hit(Head(q), "subscribe", x) =
                   IF Message.type = "subscribe" /\ y = x THEN 1 ELSE 0
             /\ Hit(Head(q), "unsubscribe", x) =
                   IF Message.type = "unsubscribe" /\ y = x THEN 1 ELSE 0
  BY DEF Hit, Matches, Message
<1>4. ASSUME NEW x \in Patterns
      PROVE  /\ Count(q, "subscribe", x, Len(q)) =
                   Count(q', "subscribe", x, Len(q'))
                   + Hit(Head(q), "subscribe", x)
             /\ Count(q', "subscribe", x, Len(q')) \in Nat
             /\ joined[x] + Count(q, "subscribe", x, Len(q)) <= subscribes
  <2>1. "subscribe" \in Subscribing
    BY DEF Subscribing
  <2>2. Count(q, "subscribe", x, Len(q)) =
           Count(Tail(q), "subscribe", x, Len(Tail(q)))
           + Hit(Head(q), "subscribe", x)
    BY <1>1, <2>1, CountRead, Zenon
  <2>3. Tail(q) \in Seq(ToDispatcher) /\ Len(Tail(q)) \in Nat
    BY <1>1
  <2>4. Count(Tail(q), "subscribe", x, Len(Tail(q))) \in Nat
    BY <2>3, CountIs, Zenon
  <2>5. joined[x] + Count(q, "subscribe", x, Len(q)) <= subscribes
    BY DEF Subscribed
  <2> QED  BY <1>1, <2>2, <2>4, <2>5, Zenon
<1>5. \/ d.terminated /\ d' = d /\ joined' = joined
      \/ ~d.terminated /\ ~Running' /\ joined' = joined
      \/ ~d.terminated /\ d' = d /\ \A x \in Patterns :
            joined'[x] + Hit(Head(q), "unsubscribe", x) =
               joined[x] + Hit(Head(q), "subscribe", x)
  <2>1. CASE HandleSubscribe
    <3>0. Message.type = "subscribe" /\ d' = d
      BY <2>1 DEF HandleSubscribe, Receives, Message
    <3>1. CASE d.terminated
      BY <2>1, <3>0, <3>1 DEF HandleSubscribe
    <3>2. CASE ~d.terminated
      <4>1. joined' = [joined EXCEPT ![y] = @ + 1]
        BY <2>1, <3>2 DEF HandleSubscribe
      <4>2. \A x \in Patterns :
               joined'[x] + Hit(Head(q), "unsubscribe", x) =
                  joined[x] + Hit(Head(q), "subscribe", x)
        BY <1>1, <1>2, <1>3, <3>0, <4>1
      <4> QED  BY <3>0, <3>2, <4>2
    <3> QED  BY <3>1, <3>2
  <2>2. CASE HandleUnsubscribe
    <3>0. Message.type = "unsubscribe"
      BY <2>2 DEF HandleUnsubscribe, Receives, Message
    <3>1. CASE d.terminated
      BY <2>2, <3>1 DEF HandleUnsubscribe, dispatcherVars
    <3>2. CASE ~d.terminated /\ joined[y] = 0
      <4>1. terminate(FALSE)
        BY <2>2, <3>2 DEF HandleUnsubscribe
      <4> QED  BY <1>1, <3>2, <4>1 DEF terminate, Dispatcher, Running
    <3>3. CASE ~d.terminated /\ joined[y] # 0
      <4>1. joined' = [joined EXCEPT ![y] = @ - 1] /\ d' = d
        BY <2>2, <3>3 DEF HandleUnsubscribe
      <4>2. \A x \in Patterns :
               joined'[x] + Hit(Head(q), "unsubscribe", x) =
                  joined[x] + Hit(Head(q), "subscribe", x)
        BY <1>1, <1>2, <1>3, <3>0, <3>3, <4>1
      <4> QED  BY <3>3, <4>1, <4>2
    <3> QED  BY <3>1, <3>2, <3>3
  <2> QED  BY <2>1, <2>2
<1>6. ASSUME Running', ~d'.terminated, NEW x \in Patterns
      PROVE  Agree(x)'
  <2>1. /\ ~d.terminated
        /\ joined'[x] + Hit(Head(q), "unsubscribe", x) =
              joined[x] + Hit(Head(q), "subscribe", x)
    BY <1>5, <1>6
  <2>2. Agree(x)
    BY <1>1, <2>1 DEF Subscribed
  <2>3. joined'[x] \in Nat
    BY <1>1
  <2> QED  BY <1>1, <2>1, <2>2, <2>3, AgreeRead, Zenon
<1>7. ASSUME NEW x \in Patterns
      PROVE  joined'[x] + Count(q', "subscribe", x, Len(q')) <= subscribes'
  <2>1. PICK a \in Nat, b \in Nat, e \in Nat, g \in Nat, j \in Nat, k \in Nat :
           /\ a = Count(q', "subscribe", x, Len(q'))
           /\ e = Hit(Head(q), "subscribe", x)
           /\ g = Hit(Head(q), "unsubscribe", x)
           /\ j = joined[x] /\ k = joined'[x] /\ b = subscribes
    <3>1. /\ Hit(Head(q), "subscribe", x) \in Nat
          /\ Hit(Head(q), "unsubscribe", x) \in Nat
      BY DEF Hit
    <3>2. joined[x] \in Nat /\ joined'[x] \in Nat
      BY <1>1
    <3> QED  BY <1>1, <1>4, <3>1, <3>2, Zenon
  <2>2. j + (a + e) <= b
    BY <1>4, <2>1, Zenon
  <2>3. k = j \/ k + g = j + e
    BY <1>5, <2>1, Zenon
  <2>4. k + a <= b
    BY <2>2, <2>3
  <2> QED  BY <2>1, <2>4, Zenon
<1> QED  BY <1>6, <1>7, Zenon DEF Subscribed

(* The process is one of those that count_process_dynamic ends.            *)
LEMMA DynamicSubscribed ==
    ASSUME IInv, Subscribed, UNCHANGED <<p, subscribes>>, DynamicTerminate
    PROVE  Subscribed'
<1>1. /\ to_dispatcher' = to_dispatcher /\ subscribes \in Nat
      /\ d \in Dispatcher /\ Len(to_dispatcher) \in Nat
      /\ joined \in [Patterns -> Nat]
  BY DEF DynamicTerminate, IInv, Typed
<1>2. /\ Running' => d'.terminated
      /\ joined' = joined \/ joined' = [x \in Patterns |-> 0]
  BY <1>1 DEF DynamicTerminate, terminate, Running, Dispatcher
<1>3. ASSUME NEW x \in Patterns
      PROVE  joined'[x] + Count(to_dispatcher', "subscribe", x,
                                Len(to_dispatcher')) <= subscribes'
  <2>1. Count(to_dispatcher, "subscribe", x, Len(to_dispatcher)) \in Nat
    BY <1>1, CountIs, Zenon
  <2>2. joined[x] + Count(to_dispatcher, "subscribe", x, Len(to_dispatcher))
          <= subscribes
    BY DEF Subscribed
  <2>3. joined'[x] = joined[x] \/ joined'[x] = 0
    BY <1>2
  <2>4. joined[x] \in Nat
    BY <1>1
  <2> QED  BY <1>1, <2>1, <2>2, <2>3, <2>4
<1> QED  BY <1>2, <1>3, Zenon DEF Subscribed

(* Every step keeps the agreement about subscriptions.                     *)
LEMMA SubscribedNext ==
    ASSUME IInv, IInv', Subscribed, [Next]_vars
    PROVE  Subscribed'
<1>1. to_dispatcher \in Seq(ToDispatcher)
  BY DEF IInv, Typed
<1>2. CASE Thread
  BY <1>2, ThreadSubscribed
<1>3. CASE DispatcherStep
  <2>1. UNCHANGED <<p, subscribes>>
    BY <1>3 DEF DispatcherStep, apiVars
  <2>2. CASE HandleSubscribe \/ HandleUnsubscribe
    BY <2>1, <2>2, GroupsAgree
  <2>3. CASE DynamicTerminate
    BY <2>1, <2>3, DynamicSubscribed
  <2>4. CASE ~HandleSubscribe /\ ~HandleUnsubscribe /\ ~DynamicTerminate
    <3>1. /\ Took(to_dispatcher, to_dispatcher') /\ joined' = joined
          /\ Running /\ d'.terminated = d.terminated
      BY <1>3, <2>4, DispatcherTakes
    <3>2. SameCounts(to_dispatcher, to_dispatcher')
      BY <1>1, <3>1, TookSame, Zenon
    <3> QED  BY <2>1, <3>1, <3>2, SubscribedKept
  <2> QED  BY <2>2, <2>3, <2>4
<1>4. CASE Crash \/ SocketClose \/ os_pid_terminate \/ UNCHANGED vars
  <2>1. UNCHANGED <<p, subscribes, to_dispatcher, joined>>
    BY <1>4 DEF Crash, SocketClose, os_pid_terminate, Dies, vars, apiVars,
       socketVars, dispatcherVars
  <2>2. Running' /\ ~d'.terminated => Running /\ ~d.terminated
    BY <1>4 DEF Crash, SocketClose, os_pid_terminate, vars, dispatcherVars,
       Running, IInv, Typed, Dispatcher
  <2>3. SameCounts(to_dispatcher, to_dispatcher')
    BY <2>1, SameKept, Zenon
  <2> QED  BY <2>1, <2>2, <2>3, SubscribedKept
<1> QED  BY <1>2, <1>3, <1>4 DEF Next

-----------------------------------------------------------------------------
(* The process count, step by step                                         *)

(* Messages are read, and the count they carry is kept.                    *)
LEMMA ReadCounted ==
    ASSUME IInv, Counted, NEW n \in 1 .. 2, ReadOf(n), d' = d
    PROVE  Counted'
<1> DEFINE q == to_api
           rest == to_api'
<1>1. /\ q \in Seq(ToAPI) /\ n \in 1 .. Len(q) /\ n \in Nat
      /\ rest = SubSeq(q, n + 1, Len(q))
  BY DEF IInv, Typed, ReadOf
<1>2. /\ Len(q) \in Nat /\ Len(rest) = Len(q) - n
      /\ \A k \in 1 .. Len(q) - n : rest[k] = q[k + n]
  BY <1>1
<1>3. to_api # <<>>
  BY <1>1
<1> HIDE DEF q, rest
<1>4. \A T : \A k \in Of(rest, T) :
         k \in Nat /\ k >= 1 /\ k + n \in Of(q, T) /\ rest[k] = q[k + n]
  BY <1>1, <1>2 DEF Of
<1>5. \A T : \A k \in Of(q, T) : k \in Nat /\ (k > n => k - n \in Of(rest, T))
  BY <1>1, <1>2 DEF Of
<1>6. ASSUME Handling', alive'
      PROVE  /\ \A k \in Of(rest, {"INIT"}) : k = 1
             /\ Of(rest, Counts) = {} => p'.process_count = d'.process_count
             /\ \A k \in 1 .. Len(rest) :
                   Newest(rest, k) => rest[k].count = d'.process_count
  <2>1. /\ Handling /\ alive /\ p'.process_count = CountAfter(n)
    BY <1>6 DEF Handling, ReadOf
  <2>2. /\ \A k \in Of(q, {"INIT"}) : k = 1
        /\ Of(q, Counts) = {} => p.process_count = d.process_count
        /\ \A k \in 1 .. Len(q) :
              Newest(q, k) => q[k].count = d.process_count
    BY <2>1 DEF Counted, q
  <2>3. \A k \in Of(rest, {"INIT"}) : FALSE
    BY <1>1, <1>4, <2>2
  <2>4. ASSUME Of(rest, Counts) = {}
        PROVE  CountAfter(n) = d.process_count
    <3>1. \A k \in Of(q, Counts) : k \in 1 .. n
      <4> TAKE k \in Of(q, Counts)
      <4>1. k \in Nat /\ k >= 1
        BY <1>2 DEF Of
      <4>2. ~(k > n)
        BY <1>5, <2>4
      <4> QED  BY <1>1, <4>1, <4>2
    <3>2. CASE n = 2 /\ q[2].type = "REINIT"
      <4>1. 2 \in Of(q, Counts) /\ 2 \in 1 .. Len(q)
        BY <1>1, <3>2 DEF Of, Counts
      <4>2. Newest(q, 2)
        BY <3>1, <3>2, <4>1 DEF Newest
      <4> QED  BY <2>2, <3>2, <4>1, <4>2 DEF CountAfter, q
    <3>3. CASE ~(n = 2 /\ q[2].type = "REINIT")
      <4>1. \A k \in Of(q, Counts) : k = 1
        <5> TAKE k \in Of(q, Counts)
        <5>1. k = 1 \/ (k = 2 /\ n = 2)
          BY <3>1
        <5>2. k = 2 /\ n = 2 => q[2].type = "INIT"
          BY <3>3 DEF Of, Counts
        <5>3. k = 2 /\ n = 2 => 2 \in Of(q, {"INIT"})
          BY <5>2 DEF Of
        <5> QED  BY <2>2, <5>1, <5>3
      <4>2. CASE q[1].type \in Counts
        <5>1. 1 \in Of(q, Counts) /\ 1 \in 1 .. Len(q)
          BY <1>1, <1>2, <4>2 DEF Of
        <5>2. Newest(q, 1)
          BY <4>1, <5>1 DEF Newest
        <5> QED  BY <2>2, <3>3, <4>2, <5>1, <5>2 DEF CountAfter, q
      <4>3. CASE q[1].type \notin Counts
        <5>1. Of(q, Counts) = {}
          BY <4>1, <4>3 DEF Of
        <5> QED  BY <2>2, <3>3, <4>3, <5>1 DEF CountAfter, q
      <4> QED  BY <4>2, <4>3
    <3> QED  BY <3>2, <3>3
  <2>5. ASSUME NEW k \in 1 .. Len(rest), Newest(rest, k)
        PROVE  rest[k].count = d.process_count
    <3>1. k \in Of(rest, Counts) /\ \A j \in Of(rest, Counts) : j <= k
      BY <2>5 DEF Newest
    <3>2. /\ k \in Nat /\ k + n \in Of(q, Counts) /\ rest[k] = q[k + n]
      BY <1>4, <3>1
    <3>3. ASSUME NEW j \in Of(q, Counts)
          PROVE  j <= k + n
      <4>1. j \in Nat /\ (j > n => j - n <= k)
        BY <1>5, <3>1
      <4> QED  BY <1>1, <3>2, <4>1
    <3>4. Newest(q, k + n) /\ k + n \in 1 .. Len(q)
      BY <3>2, <3>3 DEF Newest, Of
    <3> QED  BY <2>2, <3>2, <3>4
  <2> QED  BY <2>1, <2>3, <2>4, <2>5
<1>7. d'.state \notin {"CONNECT", "INIT_WAIT"}
  BY <1>3 DEF Counted
<1> QED  BY <1>6, <1>7 DEF Counted, rest

\* No process count is written.
Sends(q, r) ==
    r = q \/ \E m \in ToAPI : m.type \notin Counts /\ r = Append(q, m)

(* A step that writes no process count and changes none.                   *)
LEMMA CountedKept ==
    ASSUME IInv, Counted, p'.process_count = p.process_count,
           alive' => alive, Sends(to_api, to_api'),
           d'.process_count = d.process_count,
           d'.state \in {"CONNECT", "INIT_WAIT"} =>
              d.state \in {"CONNECT", "INIT_WAIT"} /\ to_api' = to_api,
           Handling' => Handling
    PROVE  Counted'
<1> DEFINE q == to_api
<1>1. q \in Seq(ToAPI) /\ Len(q) \in Nat
  BY DEF IInv, Typed
<1>2. /\ Of(to_api', Counts) = Of(q, Counts)
      /\ Of(to_api', {"INIT"}) = Of(q, {"INIT"})
      /\ \A k \in Of(q, Counts) : to_api'[k] = q[k] /\ k \in 1 .. Len(q)
  <2>1. CASE to_api' = q
    BY <2>1 DEF Of
  <2>2. CASE \E m \in ToAPI : m.type \notin Counts /\ to_api' = Append(q, m)
    <3>1. PICK m \in ToAPI : m.type \notin Counts /\ to_api' = Append(q, m)
      BY <2>2
    <3>2. m.type \notin {"INIT"}
      BY <3>1 DEF Counts
    <3>3. /\ Of(Append(q, m), Counts) = Of(q, Counts)
          /\ Of(Append(q, m), {"INIT"}) = Of(q, {"INIT"})
      BY <1>1, <3>1, <3>2, AppendOther, Zenon
    <3>4. \A k \in 1 .. Len(q) : Append(q, m)[k] = q[k]
      BY <1>1
    <3>5. \A k \in Of(q, Counts) : k \in 1 .. Len(q)
      BY DEF Of
    <3> QED  BY <3>1, <3>3, <3>4, <3>5, Zenon
  <2> QED  BY <2>1, <2>2 DEF Sends
<1>3. d'.state \in {"CONNECT", "INIT_WAIT"} => to_api' = <<>>
  BY DEF Counted
<1>4. ASSUME Handling', alive'
      PROVE  /\ \A n \in Of(to_api', {"INIT"}) : n = 1
             /\ Of(to_api', Counts) = {} => p'.process_count = d'.process_count
             /\ \A n \in 1 .. Len(to_api') :
                   Newest(to_api', n) => to_api'[n].count = d'.process_count
  <2>1. /\ \A n \in Of(q, {"INIT"}) : n = 1
        /\ Of(q, Counts) = {} => p.process_count = d.process_count
        /\ \A n \in 1 .. Len(q) :
              Newest(q, n) => q[n].count = d.process_count
    BY <1>4 DEF Counted
  <2>2. ASSUME NEW n, Newest(to_api', n)
        PROVE  to_api'[n].count = d'.process_count
    <3>1. n \in Of(q, Counts) /\ Newest(q, n)
      BY <1>2, <2>2, Zenon DEF Newest
    <3>2. n \in 1 .. Len(q) /\ to_api'[n] = q[n]
      BY <1>2, <3>1, Zenon
    <3>3. q[n].count = d.process_count
      BY <2>1, <3>1, <3>2, Zenon
    <3> QED  BY <3>2, <3>3, Zenon
  <2> QED  BY <1>2, <2>1, <2>2, Zenon
<1> QED  BY <1>3, <1>4, Zenon DEF Counted

(* REINIT is written with the count the dispatcher keeps.                  *)
LEMMA ReinitCounted ==
    ASSUME IInv, Counted, Reinit, UNCHANGED <<p, alive>>
    PROVE  Counted'
<1> DEFINE m == [type |-> "REINIT", count |-> d.process_count + 1]
           q == to_api
<1>1. /\ q \in Seq(ToAPI) /\ Len(q) \in Nat /\ d \in Dispatcher /\ Handling
  BY DEF IInv, Typed, Reinit
<1>2. /\ to_api' = Append(q, m) /\ d'.process_count = d.process_count + 1
      /\ d'.state = "HANDLE" /\ d.process_count \in Nat
  BY <1>1 DEF Reinit, send, Dispatcher, Handling
<1>3. m \in ToAPI /\ m.type \in Counts /\ m.type \notin {"INIT"}
      /\ m.count = d.process_count + 1
  BY <1>2 DEF ToAPI, Counts
<1> HIDE DEF m
<1>4. /\ Len(Append(q, m)) = Len(q) + 1 /\ Append(q, m)[Len(q) + 1] = m
  BY <1>1, <1>3
<1>5. Of(Append(q, m), {"INIT"}) = Of(q, {"INIT"})
  BY <1>1, <1>3, AppendOther, Zenon
<1>6. Len(q) + 1 \in Of(to_api', Counts)
  BY <1>1, <1>2, <1>3, <1>4 DEF Of
<1>7. ASSUME NEW n \in 1 .. Len(to_api'), Newest(to_api', n)
      PROVE  to_api'[n].count = d'.process_count
  <2>1. Len(q) + 1 <= n /\ n \in 1 .. Len(q) + 1
    BY <1>2, <1>4, <1>6, <1>7 DEF Newest
  <2>2. n = Len(q) + 1
    BY <1>1, <2>1
  <2> QED  BY <1>2, <1>3, <1>4, <2>2
<1>8. alive => \A n \in Of(q, {"INIT"}) : n = 1
  BY <1>1 DEF Counted
<1> QED  BY <1>2, <1>5, <1>6, <1>7, <1>8 DEF Counted

(* MESSAGE_INIT is the first that is written.                              *)
LEMMA InitCounted ==
    ASSUME IInv, Counted, d.state \in {"CONNECT", "INIT_WAIT"},
           connection_init(d), UNCHANGED <<p, alive>>
    PROVE  Counted'
<1> DEFINE m == [type |-> "INIT", call |-> 0, count |-> d.process_count]
           k == [type |-> "KEEPALIVE"]
<1>1. to_api = <<>> /\ d \in Dispatcher
  BY DEF Counted, IInv, Typed
<1>2. /\ d'.state = "HANDLE" /\ d'.process_count = d.process_count
      /\ to_api' = to_api \o <<m>> \o (IF p.use_header THEN <<>> ELSE <<k>>)
  BY <1>1 DEF connection_init, Dispatcher
<1>3. /\ m.type = "INIT" /\ m.count = d.process_count
      /\ k.type = "KEEPALIVE"
  OBVIOUS
<1> HIDE DEF m, k
<1>4. /\ Len(to_api') \in {1, 2} /\ to_api'[1] = m
      /\ Len(to_api') = 2 => to_api'[2] = k
  BY <1>1, <1>2
<1>5. \A n \in Of(to_api', Counts) : n = 1
  BY <1>3, <1>4 DEF Of, Counts
<1>6. \A n \in Of(to_api', {"INIT"}) : n = 1
  BY <1>3, <1>4 DEF Of
<1>7. 1 \in Of(to_api', Counts)
  BY <1>3, <1>4 DEF Of, Counts
<1>8. \A n : Newest(to_api', n) => to_api'[n].count = d'.process_count
  BY <1>2, <1>3, <1>4, <1>5 DEF Newest
<1> QED  BY <1>2, <1>6, <1>7, <1>8 DEF Counted

(* A step of the dispatcher that writes no process count.                  *)
LEMMA DispatcherSends ==
    ASSUME IInv, DispatcherStep, ~HandleInit, ~InitBegin, ~Reinit
    PROVE  /\ Sends(to_api, to_api')
           /\ d'.process_count = d.process_count
           /\ d'.state \in {"CONNECT", "INIT_WAIT"} =>
                 d.state \in {"CONNECT", "INIT_WAIT"} /\ to_api' = to_api
           /\ Handling' => Handling
<1> DEFINE Fine == /\ Sends(to_api, to_api')
                   /\ d'.process_count = d.process_count
                   /\ d'.state \in {"CONNECT", "INIT_WAIT"} =>
                         /\ d.state \in {"CONNECT", "INIT_WAIT"}
                         /\ to_api' = to_api
                   /\ Handling' => Handling
<1>1. /\ d \in Dispatcher
      /\ outstanding \subseteq [type : Blocking, call : CallId]
  BY DEF IInv, Typed
<1>2. Sends(to_api, to_api)
  BY DEF Sends
<1>3. ASSUME NEW m \in ToAPI, m.type \notin Counts, send(m)
      PROVE  Sends(to_api, to_api')
  BY <1>3 DEF Sends, send
<1>4. ASSUME NEW closed \in BOOLEAN, terminate(closed)
      PROVE  Fine
  <2>1. /\ d'.state \in {"closing", "terminating"}
        /\ d'.process_count = d.process_count
    BY <1>1, <1>4 DEF terminate, Dispatcher
  <2>2. [type |-> "TERM"] \in ToAPI /\ [type |-> "TERM"].type \notin Counts
    BY DEF ToAPI, Counts
  <2>3. to_api' = to_api \/ send([type |-> "TERM"])
    BY <1>4 DEF terminate
  <2> QED  BY <1>2, <1>3, <2>1, <2>2, <2>3 DEF Handling
<1>5. ASSUME NEW s \in Dispatcher, NEW r \in Requests, Dispatch(s, r)
      PROVE  /\ Sends(to_api, to_api') /\ d'.state = s.state
             /\ d'.process_count = s.process_count
  <2>1. /\ [type |-> "SEND", request |-> r] \in ToAPI
        /\ [type |-> "SEND", request |-> r].type \notin Counts
    BY DEF ToAPI, Counts
  <2>2. send([type |-> "SEND", request |-> r])
    BY <1>5 DEF Dispatch
  <2>3. d'.state = s.state /\ d'.process_count = s.process_count
    BY <1>5 DEF Dispatch, Dispatcher
  <2> QED  BY <1>3, <2>1, <2>2, <2>3
<1>6. ASSUME NEW s \in Dispatcher, NEW now, process_queue(s, now)
      PROVE  /\ Sends(to_api, to_api') /\ d'.state = s.state
             /\ d'.process_count = s.process_count
  <2>1. CASE /\ d' = [s EXCEPT !.queue_requests = FALSE]
             /\ UNCHANGED to_api
    BY <1>2, <2>1 DEF Dispatcher
  <2>2. CASE \E r \in Requests : Dispatch(s, r)
    BY <1>5, <2>2
  <2> QED  BY <1>6, <2>1, <2>2 DEF process_queue
<1>7. ASSUME Handling, Sends(to_api, to_api'), d'.state = d.state,
             d'.process_count = d.process_count
      PROVE  Fine
  BY <1>7 DEF Handling
<1>8. ASSUME NEW m \in [type : Blocking, call : CallId], Reply(m)
      PROVE  Sends(to_api, to_api')
  <2> DEFINE a == [type |-> AnswerTo[m.type], call |-> m.call, count |-> 0]
  <2>1. a \in ToAPI /\ a.type \notin Counts
    <3>1. m.call \in 0 .. MaxCalls /\ AnswerTo[m.type] \in Answers
      BY APIAssumption DEF CallId, Answers, Blocking
    <3>2. AnswerTo[m.type] \notin Counts
      <4>1. m.type \in {"subscribe_count", "send_async", "send_sync",
                        "mcast_async", "recv_async"}
        BY DEF Blocking, AnswerTo
      <4> QED  BY <4>1 DEF AnswerTo, Counts
    <3> QED  BY <3>1, <3>2 DEF ToAPI
  <2>2. send(a)
    BY <1>8 DEF Reply
  <2> HIDE DEF a
  <2> QED  BY <1>3, <2>1, <2>2
<1>9. CASE HandlePolling
  <2>1. [d EXCEPT !.init_timer = FALSE] \in Dispatcher
        /\ [d EXCEPT !.init_timer = FALSE].state = d.state
        /\ [d EXCEPT !.init_timer = FALSE].process_count = d.process_count
    BY <1>1 DEF Dispatcher
  <2>2. Handling /\ process_queue([d EXCEPT !.init_timer = FALSE], status)
    BY <1>9 DEF HandlePolling
  <2> QED  BY <1>6, <1>7, <2>1, <2>2
<1>10. CASE HandleAnswer
  <2>1. CASE terminate(FALSE)
    BY <1>4, <2>1
  <2>2. CASE process_queue([d EXCEPT !.request_data = NoRequest],
                           [status EXCEPT ![d.request_data] = "answered"])
    <3>1. [d EXCEPT !.request_data = NoRequest] \in Dispatcher
          /\ [d EXCEPT !.request_data = NoRequest].state = d.state
          /\ [d EXCEPT !.request_data = NoRequest].process_count
                = d.process_count
      BY <1>1 DEF Dispatcher
    <3>2. Handling
      BY <1>10 DEF HandleAnswer
    <3> QED  BY <1>6, <1>7, <2>2, <3>1, <3>2
  <2> QED  BY <1>10, <2>1, <2>2 DEF HandleAnswer
<1>11. CASE HandleSubscribe \/ HandleCall \/ HandleKeepalive
  <2>1. /\ Handling /\ to_api' = to_api /\ d'.state = d.state
        /\ d'.process_count = d.process_count
    BY <1>1, <1>11 DEF HandleSubscribe, HandleCall, HandleKeepalive,
       Dispatcher
  <2> QED  BY <1>2, <1>7, <2>1
<1>12. CASE HandleUnsubscribe
  <2>1. CASE terminate(FALSE)
    BY <1>4, <2>1
  <2>2. CASE d' = d /\ to_api' = to_api
    BY <1>2, <2>2 DEF Handling
  <2> QED  BY <1>12, <2>1, <2>2 DEF HandleUnsubscribe, dispatcherVars
<1>13. CASE HandleSubscribeCount
  <2>1. /\ Handling /\ Reply(Message) /\ Receives({"subscribe_count"})
        /\ d' = d
    BY <1>13 DEF HandleSubscribeCount, dispatcherVars
  <2>2. Message \in ToDispatcher /\ Message.type = "subscribe_count"
    BY <2>1, ReceivesIs
  <2>3. Message \in [type : Blocking, call : CallId]
    BY <2>2 DEF ToDispatcher, Blocking, AnswerTo
  <2>4. Sends(to_api, to_api')
    BY <1>8, <2>1, <2>3
  <2> QED  BY <2>1, <2>4 DEF Handling
<1>14. CASE CallEnds
  <2>1. PICK m \in outstanding : Reply(m)
    BY <1>14 DEF CallEnds
  <2>2. Sends(to_api, to_api')
    BY <1>1, <1>8, <2>1
  <2>3. Handling /\ d' = d
    BY <1>14 DEF CallEnds
  <2> QED  BY <2>2, <2>3 DEF Handling
<1>15. CASE \/ InvalidState \/ HandleShutdown \/ InitTimeout \/ SocketClosed
            \/ Stop
  <2>1. terminate(FALSE) \/ terminate(TRUE)
    BY <1>15 DEF InvalidState, HandleShutdown, InitTimeout, SocketClosed, Stop
  <2> QED  BY <1>4, <2>1
<1>16. CASE \E r \in Requests : Send(r) \/ HandleRequest(r) \/ RecvTimeout(r)
  <2>1. PICK r \in Requests : Send(r) \/ HandleRequest(r) \/ RecvTimeout(r)
    BY <1>16
  <2>2. CASE Dispatch(d, r) /\ Handling
    BY <1>1, <1>5, <1>7, <2>2
  <2>3. CASE d' = d /\ to_api' = to_api
    BY <1>2, <2>3 DEF Handling
  <2> QED  BY <2>1, <2>2, <2>3 DEF Send, HandleRequest, RecvTimeout
<1>17. CASE DynamicTerminate
  <2>1. CASE terminate(FALSE)
    BY <1>4, <2>1
  <2>2. CASE d' = [d EXCEPT !.terminated = TRUE] /\ to_api' = to_api
    <3>1. d'.state = d.state /\ d'.process_count = d.process_count
      BY <1>1, <2>2 DEF Dispatcher
    <3> QED  BY <1>2, <2>2, <3>1 DEF Handling
  <2> QED  BY <1>17, <2>1, <2>2 DEF DynamicTerminate
<1>18. CASE KeepaliveTimer
  <2>1. /\ Handling /\ d'.state = d.state
        /\ d'.process_count = d.process_count
    BY <1>1, <1>18 DEF KeepaliveTimer, Dispatcher
  <2>2. [type |-> "KEEPALIVE"] \in ToAPI
        /\ [type |-> "KEEPALIVE"].type \notin Counts
    BY DEF ToAPI, Counts
  <2>3. send([type |-> "KEEPALIVE"]) \/ to_api' = to_api
    BY <1>18 DEF KeepaliveTimer
  <2>4. Sends(to_api, to_api')
    BY <1>2, <1>3, <2>2, <2>3
  <2> QED  BY <1>7, <2>1, <2>4
<1> QED
  BY <1>9, <1>10, <1>11, <1>12, <1>13, <1>14, <1>15, <1>16, <1>17, <1>18
  DEF DispatcherStep, HandleMessage

(* Every step keeps the agreement about the process count.                 *)
LEMMA CountedNext ==
    ASSUME IInv, Counted, [Next]_vars
    PROVE  Counted'
<1>1. d \in Dispatcher /\ p \in Instance
  BY DEF IInv, Typed
<1>2. Sends(to_api, to_api)
  BY DEF Sends
<1>3. CASE Thread
  <2>1. d' = d
    BY <1>3 DEF Thread, dispatcherVars
  <2>2. CASE \E n \in 1 .. 2 : ReadSend(n) \/ ReadAnswer(n)
    BY <2>1, <2>2, ReadSendOf, ReadAnswerOf, ReadCounted
  <2>3. CASE ReadTerm \/ ReadReinit \/ ReadKeepalive
    <3>1. 1 \in 1 .. 2
      OBVIOUS
    <3> QED  BY <2>1, <2>3, <3>1, ReadOthersOf, ReadCounted
  <2>4. ASSUME p'.process_count = p.process_count, alive' => alive,
               to_api' = to_api
        PROVE  Counted'
    BY <1>2, <2>1, <2>4, CountedKept DEF Handling
  <2>5. CASE ReadNull \/ PollTimeout \/ PollFails
    BY <2>4, <2>5 DEF ReadNull, PollTimeout, PollFails, socketVars
  <2>6. CASE ServiceCode
    <3>1. CASE \E x \in Patterns : \E f \in Functions : cloudi_subscribe(x, f)
      <4>1. /\ alive' = alive /\ to_api' = to_api
            /\ \E l : p' = [p EXCEPT !.lookup = l]
        BY <3>1 DEF cloudi_subscribe
      <4>2. p'.process_count = p.process_count
        BY <1>1, <4>1 DEF Instance
      <4> QED  BY <2>4, <4>1, <4>2
    <3>2. CASE \E x \in Patterns : cloudi_unsubscribe(x)
      <4>1. /\ alive' = alive /\ to_api' = to_api
            /\ \E l : p' = [p EXCEPT !.lookup = l]
        BY <3>2 DEF cloudi_unsubscribe
      <4>2. p'.process_count = p.process_count
        BY <1>1, <4>1 DEF Instance
      <4> QED  BY <2>4, <4>1, <4>2
    <3>3. CASE p'.process_count = p.process_count /\ to_api' = to_api
               /\ (alive' => alive)
      BY <2>4, <3>3
    <3> QED  BY <2>6, <3>1, <3>2, <3>3, CodeOf
  <2> QED  BY <1>3, <2>2, <2>3, <2>5, <2>6 DEF Thread, PollRequest, PollRead
<1>4. CASE DispatcherStep
  <2>1. UNCHANGED <<p, alive>>
    BY <1>4 DEF DispatcherStep, apiVars
  <2>2. CASE HandleInit \/ InitBegin
    <3>1. CASE d.state \in {"CONNECT", "INIT_WAIT"} /\ connection_init(d)
      BY <2>1, <3>1, InitCounted
    <3>2. CASE /\ d.state = "CONNECT" /\ to_api' = to_api
               /\ \/ d' = [d EXCEPT !.state = "INIT_WAIT"]
                  \/ d' = [d EXCEPT !.initialize = TRUE]
      <4>1. /\ d'.process_count = d.process_count
            /\ d'.state \in {"CONNECT", "INIT_WAIT"}
        BY <1>1, <3>2 DEF Dispatcher
      <4> QED  BY <1>2, <2>1, <3>2, <4>1, CountedKept DEF Handling
    <3> QED  BY <2>2, <3>1, <3>2 DEF HandleInit, InitBegin
  <2>3. CASE Reinit
    BY <2>1, <2>3, ReinitCounted
  <2>4. CASE ~HandleInit /\ ~InitBegin /\ ~Reinit
    BY <1>4, <2>1, <2>4, DispatcherSends, CountedKept
  <2> QED  BY <2>2, <2>3, <2>4
<1>5. CASE Crash \/ UNCHANGED vars
  <2>1. UNCHANGED <<p, to_api, d>> /\ (alive' => alive)
    BY <1>5 DEF Crash, Dies, vars, apiVars, socketVars, dispatcherVars
  <2> QED  BY <1>2, <2>1, CountedKept DEF Handling
<1>6. CASE SocketClose \/ os_pid_terminate
  <2>1. d'.state \in {"closing", "stopped"}
    BY <1>1, <1>6 DEF SocketClose, os_pid_terminate, Dispatcher
  <2> QED  BY <2>1 DEF Counted, Handling
<1> QED  BY <1>3, <1>4, <1>5, <1>6 DEF Next

-----------------------------------------------------------------------------
(* The two agreements together                                             *)

(* A set of numbers up to N has a largest one.                             *)
LEMMA Largest ==
    ASSUME NEW N \in Nat, NEW S \in SUBSET (1 .. N), S # {}
    PROVE  \E a \in S : \A b \in S : b <= a
<1> DEFINE R == OpToRel(<, Nat)
           T == {N - k : k \in S}
<1>1. \A x, y \in Nat : y < x => <<y, x>> \in R
  BY DEF OpToRel
<1>2. IsWellFoundedOn(R, Nat)
  BY NatLessThanWellFounded
<1> HIDE DEF R
<1>3. T \subseteq Nat /\ T # {}
  <2>1. \A k \in S : N - k \in Nat
    OBVIOUS
  <2>2. T \subseteq Nat
    BY <2>1, Zenon
  <2>3. PICK k \in S : TRUE
    OBVIOUS
  <2>4. N - k \in T
    BY <2>3, Zenon
  <2> QED  BY <2>2, <2>4, Zenon
<1>4. PICK c \in T : \A e \in T : ~ (<<e, c>> \in R)
  <2> HIDE DEF T
  <2> QED  BY <1>2, <1>3, WFMin, Zenon
<1>5. PICK a \in S : c = N - a
  BY <1>4
<1>6. ASSUME NEW b \in S
      PROVE  b <= a
  <2>1. N - b \in T /\ N - b \in Nat /\ c \in Nat
    BY <1>3, <1>4
  <2>2. ~ (N - b < c)
    BY <1>1, <1>4, <2>1, Zenon
  <2>3. a \in Nat /\ b \in Nat
    OBVIOUS
  <2> QED  BY <1>5, <2>2, <2>3
<1> QED  BY <1>6

(* SubscriptionsAgree counts in SubSeq, Subscribed in the messages         *)
(* themselves.                                                             *)
LEMMA SubscriptionsFollow ==
    ASSUME IInv, Subscribed
    PROVE  SubscriptionsAgree
<1> SUFFICES ASSUME Running, ~d.terminated, NEW x \in Patterns
             PROVE  LET written(type, n) ==
                            Cardinality(Places(SubSeq(to_dispatcher, 1, n),
                               LAMBDA m : m.type = type /\ m.pattern = x))
                        before(n) == joined[x] + written("subscribe", n)
                    IN  /\ before(Len(to_dispatcher)) =
                              Len(p.lookup[x])
                              + written("unsubscribe", Len(to_dispatcher))
                        /\ \A n \in 1 .. Len(to_dispatcher) :
                              before(n) >= written("unsubscribe", n)
  BY DEF SubscriptionsAgree
<1> DEFINE q == to_dispatcher
           written(type, n) ==
              Cardinality(Places(SubSeq(q, 1, n),
                                 LAMBDA m : m.type = type /\ m.pattern = x))
<1>1. q \in Seq(ToDispatcher) /\ Len(q) \in Nat
  BY DEF IInv, Typed
<1>2. ASSUME NEW type, NEW n \in 0 .. Len(q)
      PROVE  written(type, n) = Count(q, type, x, n)
  <2>1. n \in Nat
    BY <1>1
  <2>2. /\ Len(SubSeq(q, 1, n)) = n
        /\ \A k \in 1 .. n : SubSeq(q, 1, n)[k] = q[k]
    BY <1>1, <2>1
  <2>3. Places(SubSeq(q, 1, n),
               LAMBDA m : m.type = type /\ m.pattern = x)
          = {k \in 1 .. n : q[k].type = type /\ q[k].pattern = x}
    BY <2>2 DEF Places
  <2> QED  BY <2>3 DEF Count, At, Matches
<1> HIDE DEF written
<1>3. Agree(x)
  BY DEF Subscribed
<1>4. Len(q) \in 0 .. Len(q) /\ \A n \in 1 .. Len(q) : n \in 0 .. Len(q)
  BY <1>1
<1>5. joined[x] + written("subscribe", Len(q)) =
         Len(p.lookup[x]) + written("unsubscribe", Len(q))
  BY <1>2, <1>3, <1>4, Zenon DEF Agree
<1>6. \A n \in 1 .. Len(q) :
         joined[x] + written("subscribe", n) >= written("unsubscribe", n)
  BY <1>2, <1>3, <1>4, Zenon DEF Agree
<1> QED  BY <1>5, <1>6 DEF written

(* The newest count on its way is the one CountTracked chooses.            *)
LEMMA CountFollows ==
    ASSUME IInv, Counted
    PROVE  CountTracked
<1> SUFFICES ASSUME Handling, alive
             PROVE  LET counts == Places(to_api,
                                  LAMBDA m : m.type \in {"INIT", "REINIT"})
                        newest == CHOOSE n \in counts :
                                     \A k \in counts : k <= n
                    IN  d.process_count = IF counts = {} THEN p.process_count
                                          ELSE to_api[newest].count
  BY DEF CountTracked
<1> DEFINE counts == Places(to_api, LAMBDA m : m.type \in {"INIT", "REINIT"})
           newest == CHOOSE n \in counts : \A k \in counts : k <= n
<1>1. counts = Of(to_api, Counts)
  BY DEF Places, Of, Counts
<1>2. /\ Of(to_api, Counts) = {} => p.process_count = d.process_count
      /\ \A n \in 1 .. Len(to_api) :
            Newest(to_api, n) => to_api[n].count = d.process_count
  BY DEF Counted
<1>3. CASE counts = {}
  BY <1>1, <1>2, <1>3
<1>4. CASE counts # {}
  <2> HIDE DEF counts
  <2>1. Len(to_api) \in Nat /\ counts \in SUBSET (1 .. Len(to_api))
    <3>1. Len(to_api) \in Nat
      BY DEF IInv, Typed
    <3>2. counts \in SUBSET (1 .. Len(to_api))
      BY <1>1, Zenon DEF Of
    <3> QED  BY <3>1, <3>2
  <2>2. \E n \in counts : \A k \in counts : k <= n
    BY <1>4, <2>1, Largest, Zenon
  <2>3. newest \in counts /\ \A k \in counts : k <= newest
    BY <2>2
  <2> HIDE DEF newest
  <2>4. Newest(to_api, newest) /\ newest \in 1 .. Len(to_api)
    BY <1>1, <2>1, <2>3 DEF Newest
  <2>5. to_api[newest].count = d.process_count
    BY <1>2, <2>4, Zenon
  <2> QED  BY <1>4, <2>5 DEF counts, newest
<1> QED  BY <1>3, <1>4

(* The bound of joined comes from the number of subscriptions.             *)
LEMMA TypesFollow ==
    ASSUME IInv, Subscribed
    PROVE  TypeOK
<1>1. Typed
  BY DEF IInv
<1>2. ASSUME NEW x \in Patterns
      PROVE  joined[x] \in 0 .. MaxSubscribes
  <2>1. /\ Len(to_dispatcher) \in Nat /\ joined[x] \in Nat
        /\ subscribes \in Nat /\ subscribes <= MaxSubscribes
        /\ MaxSubscribes \in Nat
    BY <1>1, APIAssumption DEF Typed
  <2>2. Count(to_dispatcher, "subscribe", x, Len(to_dispatcher)) \in Nat
    BY <2>1, CountIs, Zenon
  <2>3. joined[x] + Count(to_dispatcher, "subscribe", x, Len(to_dispatcher))
          <= subscribes
    BY DEF Subscribed
  <2> QED  BY <2>1, <2>2, <2>3
<1>3. joined \in [Patterns -> 0 .. MaxSubscribes]
  <2>1. joined = [x \in Patterns |-> joined[x]]
    BY <1>1 DEF Typed
  <2> QED  BY <1>2, <2>1
<1> QED  BY <1>1, <1>3 DEF Typed, TypeOK

(* At the start nothing was subscribed or counted.                         *)
LEMMA AgreeInit ==
    ASSUME EInit
    PROVE  Subscribed /\ Counted
<1>1. /\ to_dispatcher = <<>> /\ to_api = <<>> /\ Len(to_dispatcher) = 0
      /\ d.state = "CONNECT" /\ ~d.terminated /\ subscribes = 0
      /\ joined = [x \in Patterns |-> 0]
      /\ p.lookup = [x \in Patterns |-> <<>>]
  BY DEF EInit, Init, DispatcherInit
<1>2. ASSUME NEW x \in Patterns, NEW type
      PROVE  Count(to_dispatcher, type, x, 0) = 0
  <2>1. 0 \in Nat
    OBVIOUS
  <2> QED  BY <2>1, CountIs, Zenon
<1>3. \A x \in Patterns : joined[x] = 0 /\ Len(p.lookup[x]) = 0
  BY <1>1
<1>4. ASSUME NEW x \in Patterns
      PROVE  /\ Agree(x)
             /\ joined[x] + Count(to_dispatcher, "subscribe", x,
                                  Len(to_dispatcher)) <= subscribes
  BY <1>1, <1>2, <1>3 DEF Agree
<1> QED  BY <1>1, <1>4 DEF Subscribed, Counted, Handling

(* The subscriptions and the process count of the API are those of the     *)
(* dispatcher, up to the messages on their way (cloudi.cpp and             *)
(* cloudi_core_i_services_external.erl): no unsubscribe finds the group    *)
(* left already, and no REINIT is lost.                                    *)
THEOREM SidesAgree == Spec => []BothSidesAgree
<1>1. EInit => IInv /\ Subscribed /\ Counted
  BY InitKeeps, AgreeInit
<1>2. IInv /\ Subscribed /\ Counted /\ [Next]_vars =>
         (IInv /\ Subscribed /\ Counted)'
  <2> SUFFICES ASSUME IInv, Subscribed, Counted, [Next]_vars
               PROVE  IInv' /\ Subscribed' /\ Counted'
    OBVIOUS
  <2>1. IInv'
    BY NextKeeps
  <2> QED  BY <2>1, SubscribedNext, CountedNext
<1>3. IInv /\ Subscribed /\ Counted => BothSidesAgree
  BY TypesFollow, SubscriptionsFollow, CountFollows DEF BothSidesAgree
<1> QED  BY <1>1, <1>2, <1>3, PTL DEF Spec

=============================================================================
