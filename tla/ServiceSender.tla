--------------------------- MODULE ServiceSender ---------------------------
(***************************************************************************)
(* The sending half of a CloudI service process.                           *)
(*                                                                         *)
(* A service process is an Erlang gen_server, the dispatcher.  Processes   *)
(* that run the service's callbacks block in gen_server:call on it to      *)
(* send service requests (send_async, send_async_active, send_sync, mcast) *)
(* and to collect responses (recv_async, recv_asyncs).  The dispatcher     *)
(* keeps one entry per outstanding request in send_timeouts, the requests  *)
(* that a destination's death should end in send_timeout_monitors, and the *)
(* responses nobody has asked for yet in async_responses.                  *)
(*                                                                         *)
(* The model follows cloudi_core_i_services_internal.erl and the functions *)
(* it shares with external services, cloudi_core_i_services_common.hrl.    *)
(* The mailbox is the dispatcher's Erlang message queue, handled in order; *)
(* destinations, the name lookup (cpg), timers and monitors are the        *)
(* environment.                                                            *)
(***************************************************************************)
EXTENDS Integers, Sequences, FiniteSets, SequencesExt

CONSTANTS
    SendCalls,   \* tags of the gen_server:calls that send, each made once
    RecvCalls,   \* tags of the gen_server:calls that receive
    Pids,        \* destination processes
    Mortal,      \* the destinations that may die
    Forwarding,  \* do destinations forward requests?
    MaxTransId,  \* bound on the transaction ids the uuid generator issues
    Timeouts,    \* timeouts a caller may give, in units of 100 ms
    Ops,         \* the calls the callbacks make in this model
    Undefined,   \* the atom undefined
    RequestTimeoutImmediateMax,  \* option request_timeout_immediate_max
    ResponseTimeoutAdjustment,   \* option response_timeout_adjustment
    RequestNameLookup,           \* option request_name_lookup
    DestRefreshImmediate         \* dest_refresh is one of immediate_*

(* Transaction ids are version 1 UUIDs: the generator's are increasing in  *)
(* time, so a number stands for one and the oldest is the least.           *)
TransIds == 1..MaxTransId

Calls == SendCalls \cup RecvCalls

LookupOps == {"get_pid", "get_pids", "send_async", "send_async_active",
              "send_sync", "mcast_async", "mcast_async_active"}
PidOps == {"send_async_pid", "send_async_active_pid", "send_sync_pid"}
RecvOps == {"recv_async", "recv_asyncs"}
AllOps == LookupOps \cup PidOps \cup RecvOps \cup {"monitor"}

ASSUME SenderAssumption ==
    /\ Undefined \notin Pids
    /\ Undefined \notin Calls
    /\ IsFiniteSet(Pids)
    /\ Mortal \subseteq Pids
    /\ Forwarding \in BOOLEAN
    /\ MaxTransId \in Nat
    /\ Timeouts \subseteq Nat
    /\ Ops \subseteq AllOps
    /\ RequestTimeoutImmediateMax \in Nat
    /\ ResponseTimeoutAdjustment \in BOOLEAN
    /\ RequestNameLookup \in {"sync", "async"}
    /\ DestRefreshImmediate \in BOOLEAN

(* SEND_ASYNC_INTERVAL, SEND_SYNC_INTERVAL, MCAST_ASYNC_INTERVAL and       *)
(* RECV_ASYNC_INTERVAL are all 500 ms; FORWARD_DELTA and TIMEOUT_DELTA are *)
(* 100 ms.                                                                 *)
Interval == 5
Delta == 1

VARIABLES
    made,                  \* the calls that were made
    replies,               \* replies[c]: the replies sent to call c
    mailbox,               \* the dispatcher's message queue
    timers,                \* running timers and the message each delivers
    cancelling,            \* references of timers cancelled with {async, true}
    next_ref,              \* the next Erlang reference
    next_id,               \* uuid_generator: the next transaction id
    send_timeouts,         \* send_timeouts[t]: the pending request or NoEntry
    send_timeout_monitors, \* send_timeout_monitors[p]: reference and requests
    async_responses,       \* ids of the responses stored for recv_async
    alive,                 \* destinations that have not died
    inflight,              \* requests held by a destination
    monitored,             \* active Erlang monitors
    outcome,               \* outcome[t]: the *_async_active messages about t
    fate,                  \* fate[t]: what became of the response stored for t
    loose,                 \* timers left running when their request ended
    watched                \* monitors of the module that await their DOWN

vars == <<made, replies, mailbox, timers, cancelling, next_ref, next_id,
          send_timeouts, send_timeout_monitors, async_responses, alive,
          inflight, monitored, outcome, fate, loose, watched>>

NoEntry == [type |-> "none", pid |-> Undefined, tref |-> 0,
            client |-> Undefined]
NoMonitor == [ref |-> 0, ids |-> {}]

-----------------------------------------------------------------------------
(* Messages *)

AnyId == 0   \* the null transaction id <<0:128>>: receive the oldest response

LookupMessage ==
    [tag : LookupOps, call : Calls, timeout : Nat, allowed : BOOLEAN]
PidMessage ==   \* trans is AnyId unless the caller supplies an id to reuse
    [tag : PidOps, call : Calls, timeout : Nat, pid : Pids,
     trans : TransIds \cup {AnyId}]
RecvMessage ==
    [tag : {"recv_async"}, call : Calls, timeout : Nat, consume : BOOLEAN,
     trans : TransIds \cup {AnyId}]
RecvsMessage ==  \* found: the results collected by earlier retries
    [tag : {"recv_asyncs"}, call : Calls, timeout : Nat, consume : BOOLEAN,
     results : SUBSET TransIds, found : SUBSET TransIds]
MonitorMessage ==
    [tag : {"monitor"}, call : Calls, pid : Pids]
ReturnMessage ==
    [tag : {"return_async", "return_sync"}, trans : TransIds, timeout : Nat,
     empty : BOOLEAN]
TimeoutMessage ==  \* ref, the timer's reference, is not in the code's message
    [tag : {"send_async_timeout", "send_sync_timeout", "recv_async_timeout"},
     trans : TransIds, ref : Nat]
DownMessage ==
    [tag : {"DOWN"}, pid : Pids, ref : Nat]

Message == LookupMessage \cup PidMessage \cup RecvMessage \cup RecvsMessage
           \cup MonitorMessage \cup ReturnMessage \cup TimeoutMessage
           \cup DownMessage

Down(r, p) == [tag |-> "DOWN", pid |-> p, ref |-> r]

-----------------------------------------------------------------------------
(* Erlang primitives *)

Handling(tags) == mailbox # <<>> /\ Head(mailbox).tag \in tags

(* gen_server:reply(Client, {ok, ...}) and gen_server:reply(Client, {error, *)
(* timeout}); ids are the transaction ids in the reply.                    *)
reply(c, v) == replies' = [replies EXCEPT ![c] = Append(@, v)]
Error == [ok |-> FALSE, ids |-> {}, consume |-> FALSE]
Ok(ids, consume) == [ok |-> TRUE, ids |-> ids, consume |-> consume]

(* A timer that fired has put its message in the mailbox.                  *)
Running(ref) == \E tm \in timers : tm.ref = ref
Stopped(refs) == {tm \in timers : tm.ref \notin refs}

(* erlang:demonitor(MonitorRef, [flush]) takes the DOWN message, if it     *)
(* arrived, out of the mailbox.                                            *)
Flush(q, r, p) ==
    LET at == {i \in DOMAIN q : q[i] = Down(r, p)}
    IN  IF at = {} THEN q ELSE RemoveAt(q, CHOOSE i \in at : TRUE)

-----------------------------------------------------------------------------
(* cloudi_core_i_services_common.hrl: the bookkeeping of sent requests.    *)
(* dest maps each transaction id being sent to its destination (several    *)
(* for mcast); the reference of a request's timer also names the monitor   *)
(* that the request creates.                                               *)

TimerRef(t, dest) == next_ref + (t - Min(DOMAIN dest))

Watch(T) == T >= RequestTimeoutImmediateMax

monitors_start_replace(T, dest) ==
    [p \in Pids |->
        LET ts == {t \in DOMAIN dest : dest[t] = p}
        IN  IF ~Watch(T) \/ ts = {} THEN send_timeout_monitors[p]
            ELSE [ref |-> TimerRef(CHOOSE t \in ts : TRUE, dest), ids |-> ts]]
monitors_start(T, dest) ==
    [p \in Pids |->
        LET ts == {t \in DOMAIN dest : dest[t] = p}
            m == send_timeout_monitors[p]
        IN  IF ~Watch(T) \/ ts = {} THEN m
            ELSE IF m = NoMonitor
                 THEN [ref |-> TimerRef(CHOOSE t \in ts : TRUE, dest),
                       ids |-> ts]
                 ELSE [m EXCEPT !.ids = @ \cup ts]]

(* Pid ! {'cloudi_service_send_...', ...} for every destination, then the  *)
(* timer, the entry and the monitor of each request.  Monitoring a process *)
(* that is already dead delivers DOWN at once.                             *)
timeout_start(type, T, dest, client) ==
    LET tag == IF type = "sync" THEN "send_sync_timeout"
                                ELSE "send_async_timeout"
        new == {t \in DOMAIN dest :
                   Watch(T) /\ send_timeout_monitors[dest[t]] = NoMonitor}
        dead == {Down(TimerRef(t, dest), dest[t]) :
                    t \in {u \in new : dest[u] \notin alive}}
    IN  /\ send_timeouts' =
              [t \in TransIds |->
                  IF t \in DOMAIN dest
                  THEN [type |-> type, tref |-> TimerRef(t, dest),
                        pid |-> IF Watch(T) THEN dest[t] ELSE Undefined,
                        client |-> client]
                  ELSE send_timeouts[t]]
        /\ send_timeout_monitors' = monitors_start(T, dest)
        /\ monitored' = monitored \cup
              {[ref |-> TimerRef(t, dest), pid |-> dest[t]] :
                  t \in {u \in new : dest[u] \in alive}}
        /\ timers' = timers \cup
              {[ref |-> TimerRef(t, dest),
                msg |-> [tag |-> tag, trans |-> t,
                         ref |-> TimerRef(t, dest)]] : t \in DOMAIN dest}
        /\ \E downs \in SetToSeqs(dead) : mailbox' = Tail(mailbox) \o downs
        /\ inflight' = inflight \cup
              {[trans |-> t, pid |-> dest[t], timeout |-> T,
                sync |-> type = "sync", ref |-> TimerRef(t, dest)] :
                  t \in {u \in DOMAIN dest : dest[u] \in alive}}
        /\ next_ref' = next_ref + Cardinality(DOMAIN dest)

send_async_timeout_start(T, dest) ==
    timeout_start("passive", T, dest, Undefined)
send_async_active_timeout_start(T, dest) ==
    timeout_start("active", T, dest, Undefined)
send_sync_timeout_start(T, dest, c) ==
    timeout_start("sync", T, dest, c)

(* The request of t is over: forget it, and stop monitoring its            *)
(* destination when it was the last request sent there.                    *)
unlist_last_only(m, t) == IF m.ids = {t} THEN NoMonitor ELSE m
unlist(m, t) == IF m.ids = {t} THEN NoMonitor
                ELSE [m EXCEPT !.ids = @ \ {t}]

demonitor(m, p) == monitored \ {[ref |-> m.ref, pid |-> p]}

forget_not(t) == send_timeouts
forget(t) == [send_timeouts EXCEPT ![t] = NoEntry]

send_timeout_end(t, p) ==
    LET m == IF p = Undefined THEN NoMonitor ELSE send_timeout_monitors[p]
        last == m.ids = {t}
    IN  /\ send_timeouts' = forget(t)
        /\ send_timeout_monitors' =
              IF m = NoMonitor THEN send_timeout_monitors
              ELSE [send_timeout_monitors EXCEPT ![p] = unlist(m, t)]
        /\ monitored' = IF last THEN demonitor(m, p) ELSE monitored
        /\ mailbox' = IF last THEN Flush(Tail(mailbox), m.ref, p)
                      ELSE Tail(mailbox)

(* A destination died: every request watched on it times out now, through  *)
(* a timeout message to the dispatcher itself unless the timer already     *)
(* sent one.                                                               *)
timeout_messages_none(now) == {}
timeout_messages(now) ==
    {[tag |-> IF send_timeouts[t].type = "sync"
              THEN "send_sync_timeout" ELSE "send_async_timeout",
      trans |-> t, ref |-> send_timeouts[t].tref] : t \in now}

send_timeout_dead(p) ==
    LET ids == {t \in send_timeout_monitors[p].ids :
                   send_timeouts[t] # NoEntry}
        now == {t \in ids : Running(send_timeouts[t].tref)}
    IN  /\ send_timeouts' =
              [t \in TransIds |->
                  IF t \in ids
                  THEN [send_timeouts[t] EXCEPT !.pid = Undefined]
                  ELSE send_timeouts[t]]
        /\ send_timeout_monitors' =
              [send_timeout_monitors EXCEPT ![p] = NoMonitor]
        /\ timers' = Stopped({send_timeouts[t].tref : t \in now})
        /\ \E msgs \in SetToSeqs(timeout_messages(now)) :
              mailbox' = Tail(mailbox) \o msgs

(* A response nobody waits for is kept until its timer ends it.            *)
async_response_timeout_start(t, stopped, store) ==
    /\ timers' = Stopped(stopped) \cup
          IF store
          THEN {[ref |-> 0, msg |-> [tag |-> "recv_async_timeout",
                                     trans |-> t, ref |-> 0]]}
          ELSE {}
    /\ async_responses' = IF store THEN async_responses \cup {t}
                          ELSE async_responses
    /\ fate' = IF store THEN [fate EXCEPT ![t] = "stored"] ELSE fate

-----------------------------------------------------------------------------
(* Calls: a callback blocks in gen_server:call(Dispatcher, ...).           *)

call(c, msg) ==
    /\ c \notin made
    /\ made' = made \cup {c}
    /\ mailbox' = Append(mailbox, msg)
    /\ UNCHANGED <<replies, timers, cancelling, next_ref, next_id,
                   send_timeouts, send_timeout_monitors, async_responses,
                   alive, inflight, monitored, outcome, fate, loose,
                   watched>>

CallLookup(c) ==
    \E op \in Ops \cap LookupOps, T \in Timeouts, allowed \in BOOLEAN :
        call(c, [tag |-> op, call |-> c, timeout |-> T, allowed |-> allowed])

(* The id of a finished active request may be used again, as the retries   *)
(* of cloudi_service_queue do.                                             *)
Reusable(t) ==
    /\ outcome[t] # <<>>
    /\ send_timeouts[t] = NoEntry
    /\ \A i \in DOMAIN mailbox :
          mailbox[i].tag \in PidOps => mailbox[i].trans # t

CallPid(c) ==
    \E op \in Ops \cap PidOps, T \in Timeouts, p \in Pids,
       t \in {AnyId} \cup {u \in TransIds : Reusable(u)} :
        /\ t # AnyId => op = "send_async_active_pid"
        /\ call(c, [tag |-> op, call |-> c, timeout |-> T, pid |-> p,
                    trans |-> t])

CallRecvAsync(c) ==
    \E T \in Timeouts, consume \in BOOLEAN, t \in 0..(next_id - 1) :
        /\ "recv_async" \in Ops
        /\ call(c, [tag |-> "recv_async", call |-> c, timeout |-> T,
                    consume |-> consume, trans |-> t])

CallRecvAsyncs(c) ==
    \E T \in Timeouts, consume \in BOOLEAN,
       ids \in (SUBSET (1..(next_id - 1))) \ {{}} :
        /\ "recv_asyncs" \in Ops
        /\ call(c, [tag |-> "recv_asyncs", call |-> c, timeout |-> T,
                    consume |-> consume, results |-> ids, found |-> {}])

CallMonitor(c) ==
    \E p \in Pids :
        /\ "monitor" \in Ops
        /\ call(c, [tag |-> "monitor", call |-> c, pid |-> p])

-----------------------------------------------------------------------------
(* Handlers of the calls that look a service name up.                      *)

(* destination_get / destination_all: cpg returns whatever members the     *)
(* service name has at that moment.  A lazy lookup reads a local copy of   *)
(* the groups, which may still list a dead process; an immediate one asks  *)
(* the cpg process and may time out.                                       *)
TooLate(T) == DestRefreshImmediate /\ T < Delta
LookupTimeout == DestRefreshImmediate
LookupError(T) == ~TooLate(T)
Members(T) == IF TooLate(T) THEN {} ELSE (SUBSET Pids) \ {{}}

(* Is there time for another lookup?  Only request_name_lookup = sync does *)
(* that.                                                                   *)
lookup_again_always(T) == RequestNameLookup = "sync"
lookup_again(T) == RequestNameLookup = "sync" /\ T >= Interval

(* The {error, _} clauses shared by every handler: give up, or look the    *)
(* name up again after an interval.                                        *)
lookup_failed(m) ==
    /\ \/ /\ \/ ~m.allowed
             \/ LookupTimeout
             \/ LookupError(m.timeout) /\ ~lookup_again(m.timeout)
          /\ reply(m.call, Error)
          /\ UNCHANGED timers
       \/ /\ m.allowed /\ LookupError(m.timeout)
          /\ lookup_again(m.timeout)
          /\ timers' = timers \cup
                {[ref |-> 0, msg |-> [m EXCEPT !.timeout = @ - Interval]]}
          /\ UNCHANGED replies
    /\ mailbox' = Tail(mailbox)
    /\ UNCHANGED <<next_id, next_ref, send_timeouts, send_timeout_monitors,
                   inflight, monitored>>

(* The ids the uuid generator has not issued yet, within the bound.        *)
Issue(n) == next_id + n - 1 <= MaxTransId /\ next_id' = next_id + n

handle_get_pid(m) ==
    \/ lookup_failed(m)
    \/ /\ m.allowed /\ Members(m.timeout) # {}
       /\ reply(m.call, Ok({}, FALSE))
       /\ mailbox' = Tail(mailbox)
       /\ UNCHANGED <<timers, next_id, next_ref, send_timeouts,
                      send_timeout_monitors, inflight, monitored>>

handle_get_pids(m) == handle_get_pid(m)

handle_send_async(m) ==
    \/ lookup_failed(m)
    \/ /\ m.allowed
       /\ \E p \in UNION Members(m.timeout) :
             send_async_timeout_start(m.timeout, [t \in {next_id} |-> p])
       /\ Issue(1)
       /\ reply(m.call, Ok({next_id}, FALSE))

handle_send_async_active(m) ==
    \/ lookup_failed(m)
    \/ /\ m.allowed
       /\ \E p \in UNION Members(m.timeout) :
             send_async_active_timeout_start(m.timeout,
                                             [t \in {next_id} |-> p])
       /\ Issue(1)
       /\ reply(m.call, Ok({next_id}, FALSE))

(* The reply to send_sync waits for the response.                          *)
handle_send_sync(m) ==
    \/ lookup_failed(m)
    \/ /\ m.allowed
       /\ \E p \in UNION Members(m.timeout) :
             send_sync_timeout_start(m.timeout, [t \in {next_id} |-> p],
                                     m.call)
       /\ Issue(1)
       /\ UNCHANGED replies

(* One request, with an id of its own, to every member of the group.       *)
McastIds(pids) == next_id..(next_id + Len(pids) - 1)

handle_mcast_async(m) ==
    \/ lookup_failed(m)
    \/ /\ m.allowed
       /\ \E pids \in UNION {SetToSeqs(S) : S \in Members(m.timeout)} :
             /\ send_async_timeout_start(m.timeout,
                   [t \in McastIds(pids) |-> pids[t - next_id + 1]])
             /\ Issue(Len(pids))
             /\ reply(m.call, Ok(McastIds(pids), FALSE))

handle_mcast_async_active(m) ==
    \/ lookup_failed(m)
    \/ /\ m.allowed
       /\ \E pids \in UNION {SetToSeqs(S) : S \in Members(m.timeout)} :
             /\ send_async_active_timeout_start(m.timeout,
                   [t \in McastIds(pids) |-> pids[t - next_id + 1]])
             /\ Issue(Len(pids))
             /\ reply(m.call, Ok(McastIds(pids), FALSE))

HandleLookup ==
    /\ Handling(LookupOps)
    /\ LET m == Head(mailbox) IN
          \/ m.tag = "get_pid" /\ handle_get_pid(m)
          \/ m.tag = "get_pids" /\ handle_get_pids(m)
          \/ m.tag = "send_async" /\ handle_send_async(m)
          \/ m.tag = "send_async_active" /\ handle_send_async_active(m)
          \/ m.tag = "send_sync" /\ handle_send_sync(m)
          \/ m.tag = "mcast_async" /\ handle_mcast_async(m)
          \/ m.tag = "mcast_async_active" /\ handle_mcast_async_active(m)
    /\ UNCHANGED <<made, cancelling, async_responses, alive, outcome,
                   fate, loose, watched>>

-----------------------------------------------------------------------------
(* Handlers of the calls that name the destination process.                *)

handle_send_async_pid(m) ==
    /\ send_async_timeout_start(m.timeout, [t \in {next_id} |-> m.pid])
    /\ Issue(1)
    /\ reply(m.call, Ok({next_id}, FALSE))

(* With an id of the caller's (OldTransId), no new id is issued.           *)
handle_send_async_active_pid(m) ==
    LET id == IF m.trans = AnyId THEN next_id ELSE m.trans
    IN  /\ send_async_active_timeout_start(m.timeout, [t \in {id} |-> m.pid])
        /\ IF m.trans = AnyId THEN Issue(1) ELSE UNCHANGED next_id
        /\ reply(m.call, Ok({id}, FALSE))

handle_send_sync_pid(m) ==
    /\ send_sync_timeout_start(m.timeout, [t \in {next_id} |-> m.pid],
                               m.call)
    /\ Issue(1)
    /\ UNCHANGED replies

HandlePid ==
    /\ Handling(PidOps)
    /\ LET m == Head(mailbox) IN
          \/ m.tag = "send_async_pid" /\ handle_send_async_pid(m)
          \/ m.tag = "send_async_active_pid"
             /\ handle_send_async_active_pid(m)
          \/ m.tag = "send_sync_pid" /\ handle_send_sync_pid(m)
    /\ UNCHANGED <<made, cancelling, async_responses, alive, outcome,
                   fate, loose, watched>>

(* {monitor, Pid}: the module's own monitor, made by the dispatcher.       *)
HandleMonitor ==
    /\ Handling({"monitor"})
    /\ LET m == Head(mailbox) IN
          /\ reply(m.call, Ok({}, FALSE))
          /\ watched' = watched \cup {next_ref}
          /\ next_ref' = next_ref + 1
          /\ IF m.pid \in alive
             THEN /\ monitored' = monitored \cup
                        {[ref |-> next_ref, pid |-> m.pid]}
                  /\ mailbox' = Tail(mailbox)
             ELSE /\ mailbox' = Append(Tail(mailbox), Down(next_ref, m.pid))
                  /\ UNCHANGED monitored
    /\ UNCHANGED <<made, timers, cancelling, next_id, send_timeouts,
                   send_timeout_monitors, async_responses, alive,
                   inflight, outcome, fate, loose>>

-----------------------------------------------------------------------------
(* recv_async and recv_asyncs                                              *)

recv_retry(m) ==
    /\ timers' = timers \cup
          {[ref |-> 0, msg |-> [m EXCEPT !.timeout = @ - Interval]]}
    /\ UNCHANGED replies

(* recv_async_select_oldest *)
recv_async_select_oldest(ids) == Min(ids)

recv_async(m) ==
    LET ids == IF m.trans = AnyId THEN async_responses
               ELSE async_responses \cap {m.trans}
        pick == recv_async_select_oldest(ids)
    IN  \/ /\ ids = {} /\ m.timeout >= Interval
           /\ recv_retry(m)
           /\ UNCHANGED async_responses
        \/ /\ ids = {} /\ m.timeout < Interval
           /\ reply(m.call, Error)
           /\ UNCHANGED <<timers, async_responses>>
        \/ /\ ids # {}
           /\ reply(m.call, Ok({pick}, m.consume))
           /\ async_responses' = IF m.consume THEN async_responses \ {pick}
                                 ELSE async_responses
           /\ UNCHANGED timers

(* recv_asyncs_pick: the results found so far, and what they leave stored. *)
recv_asyncs_pick_again(m) == m.results \cap async_responses
recv_asyncs_pick(m) == m.found \cup (m.results \cap async_responses)
recv_asyncs_left_all(m) == async_responses
recv_asyncs_left(m) == IF m.consume
                       THEN async_responses \ (m.results \ m.found)
                       ELSE async_responses

recv_asyncs(m) ==
    LET found == recv_asyncs_pick(m)
    IN  \/ /\ found = m.results \/ (m.timeout < Interval /\ found # {})
           /\ reply(m.call, Ok(found, m.consume))
           /\ async_responses' = recv_asyncs_left(m)
           /\ UNCHANGED timers
        \/ /\ found # m.results /\ m.timeout >= Interval
           /\ recv_retry([m EXCEPT !.found = found])
           /\ async_responses' = recv_asyncs_left(m)
        \/ /\ found = {} /\ m.timeout < Interval
           /\ reply(m.call, Error)
           /\ UNCHANGED <<timers, async_responses>>

HandleRecv ==
    /\ Handling(RecvOps)
    /\ LET m == Head(mailbox) IN
          \/ m.tag = "recv_async" /\ recv_async(m)
          \/ m.tag = "recv_asyncs" /\ recv_asyncs(m)
    /\ mailbox' = Tail(mailbox)
    /\ UNCHANGED <<made, cancelling, next_ref, next_id, send_timeouts,
                   send_timeout_monitors, alive, inflight, monitored,
                   outcome, fate, loose, watched>>

-----------------------------------------------------------------------------
(* Responses, timeouts and deaths                                          *)

(* The timer of an answered request is cancelled, unless the request was   *)
(* too short to bother.                                                    *)
Cancels(m) == \/ ResponseTimeoutAdjustment
              \/ m.timeout >= RequestTimeoutImmediateMax

tell(t, kind) ==
    outcome' = [outcome EXCEPT
                   ![t] = Append(@, [ref |-> send_timeouts[t].tref,
                                     kind |-> kind])]

(* The timer outlives the request it was started for.                      *)
Loose(ref) == IF Running(ref) THEN {ref} ELSE {}

(* cancel_timer_async(Tref), or no cancel at all: the timer may still fire *)
cancel_timer_async(m, ref) ==
    /\ cancelling' = IF Cancels(m) THEN cancelling \cup Loose(ref)
                     ELSE cancelling
    /\ loose' = loose \cup Loose(ref)
    /\ UNCHANGED timers

(* erlang:cancel_timer(Tref)                                               *)
cancel_timer(m, ref) ==
    /\ timers' = IF Cancels(m) THEN Stopped({ref}) ELSE timers
    /\ loose' = IF Cancels(m) THEN loose ELSE loose \cup Loose(ref)
    /\ UNCHANGED cancelling

(* The response and request info of an empty response are both <<>>.       *)
return_async_active(m, e) ==
    /\ IF m.empty THEN cancel_timer_async(m, e.tref) /\ tell(m.trans, "timeout")
                  ELSE cancel_timer(m, e.tref) /\ tell(m.trans, "return")
    /\ UNCHANGED <<async_responses, fate>>

(* The response is stored for as long as the request's timer still had;    *)
(* cancel_timer returns false, or 0, when there is nothing left.           *)
return_async_passive(m, e) ==
    /\ \/ /\ m.empty
          /\ cancel_timer_async(m, e.tref)
          /\ UNCHANGED <<async_responses, fate>>
       \/ /\ ~m.empty
          /\ \E store \in BOOLEAN :
                /\ IF Cancels(m) THEN store => Running(e.tref)
                                 ELSE store = (m.timeout > 0)
                /\ async_response_timeout_start(m.trans,
                      IF Cancels(m) THEN {e.tref} ELSE {}, store)
          /\ loose' = IF Cancels(m) THEN loose
                      ELSE loose \cup Loose(e.tref)
          /\ UNCHANGED cancelling
    /\ UNCHANGED outcome

ignore == /\ mailbox' = Tail(mailbox)
          /\ UNCHANGED <<replies, timers, cancelling, send_timeouts,
                         send_timeout_monitors, async_responses, monitored,
                         outcome, fate, loose>>

HandleReturnAsync ==
    /\ Handling({"return_async"})
    /\ LET m == Head(mailbox)
           e == send_timeouts[m.trans]
       IN  \/ e = NoEntry /\ ignore
           \/ /\ \/ e.type = "active" /\ return_async_active(m, e)
                 \/ e.type = "passive" /\ return_async_passive(m, e)
              /\ send_timeout_end(m.trans, e.pid)
              /\ UNCHANGED replies
    /\ UNCHANGED <<made, next_ref, next_id, alive, inflight, watched>>

HandleReturnSync ==
    /\ Handling({"return_sync"})
    /\ LET m == Head(mailbox)
           e == send_timeouts[m.trans]
       IN  \/ e = NoEntry /\ ignore
           \/ /\ e # NoEntry
              /\ cancel_timer_async(m, e.tref)
              /\ reply(e.client, IF m.empty THEN Error
                                 ELSE Ok({m.trans}, FALSE))
              /\ send_timeout_end(m.trans, e.pid)
              /\ UNCHANGED <<async_responses, outcome, fate>>
    /\ UNCHANGED <<made, next_ref, next_id, alive, inflight, watched>>

HandleSendAsyncTimeout ==
    /\ Handling({"send_async_timeout"})
    /\ LET t == Head(mailbox).trans
           e == send_timeouts[t]
       IN  \/ e = NoEntry /\ ignore
           \/ /\ e # NoEntry
              /\ IF e.type = "active" THEN tell(t, "timeout")
                                      ELSE UNCHANGED outcome
              /\ send_timeout_end(t, e.pid)
              /\ loose' = loose \cup Loose(e.tref)
              /\ UNCHANGED <<replies, timers, cancelling, async_responses,
                             fate>>
    /\ UNCHANGED <<made, next_ref, next_id, alive, inflight, watched>>

HandleSendSyncTimeout ==
    /\ Handling({"send_sync_timeout"})
    /\ LET t == Head(mailbox).trans
           e == send_timeouts[t]
       IN  \/ e = NoEntry /\ ignore
           \/ /\ e # NoEntry
              /\ reply(e.client, Error)
              /\ send_timeout_end(t, e.pid)
              /\ loose' = loose \cup Loose(e.tref)
              /\ UNCHANGED <<timers, cancelling, async_responses, outcome,
                             fate>>
    /\ UNCHANGED <<made, next_ref, next_id, alive, inflight, watched>>

HandleRecvAsyncTimeout ==
    /\ Handling({"recv_async_timeout"})
    /\ LET t == Head(mailbox).trans IN
          /\ async_responses' = async_responses \ {t}
          /\ fate' = IF t \in async_responses
                     THEN [fate EXCEPT ![t] = "expired"] ELSE fate
    /\ mailbox' = Tail(mailbox)
    /\ UNCHANGED <<made, replies, timers, cancelling, next_ref, next_id,
                   send_timeouts, send_timeout_monitors, alive,
                   inflight, monitored, outcome, loose, watched>>

(* 'DOWN': taken by the requests watched on the process if there are any,  *)
(* whatever its reference; otherwise it is an info message of the module.  *)
HandleDown ==
    /\ Handling({"DOWN"})
    /\ LET m == Head(mailbox) IN
          \/ /\ send_timeout_monitors[m.pid] # NoMonitor
             /\ send_timeout_dead(m.pid)
             /\ UNCHANGED watched
          \/ /\ send_timeout_monitors[m.pid] = NoMonitor
             /\ watched' = watched \ {m.ref}
             /\ mailbox' = Tail(mailbox)
             /\ UNCHANGED <<timers, send_timeouts, send_timeout_monitors>>
    /\ UNCHANGED <<made, replies, cancelling, next_ref, next_id,
                   async_responses, alive, inflight, monitored,
                   outcome, fate, loose>>

-----------------------------------------------------------------------------
(* The environment: timers, destinations and the name lookup.              *)

TimerFires(tm) ==
    /\ timers' = timers \ {tm}
    /\ cancelling' = cancelling \ {tm.ref}
    /\ mailbox' = Append(mailbox, tm.msg)
    /\ UNCHANGED <<made, replies, next_ref, next_id, send_timeouts,
                   send_timeout_monitors, async_responses, alive,
                   inflight, monitored, outcome, fate, loose, watched>>

(* The asynchronous cancellation takes effect before the timer fired.      *)
TimerCancelled(ref) ==
    /\ timers' = Stopped({ref})
    /\ cancelling' = cancelling \ {ref}
    /\ UNCHANGED <<made, replies, mailbox, next_ref, next_id, send_timeouts,
                   send_timeout_monitors, async_responses, alive,
                   inflight, monitored, outcome, fate, loose, watched>>

(* A destination answers: the timeout it returns is what it has left.      *)
DestReturn(r, T, empty) ==
    /\ T <= r.timeout
    /\ inflight' = inflight \ {r}
    /\ mailbox' = Append(mailbox,
          [tag |-> IF r.sync THEN "return_sync" ELSE "return_async",
           trans |-> r.trans, timeout |-> T, empty |-> empty])
    /\ UNCHANGED <<made, replies, timers, cancelling, next_ref, next_id,
                   send_timeouts, send_timeout_monitors, async_responses,
                   alive, monitored, outcome, fate, loose, watched>>

(* forward_async and forward_sync: the request goes on to another process  *)
(* under the same id, with FORWARD_DELTA less to go; it is lost when there *)
(* is not that much left, or when the process is dead.                     *)
DestForward(r, p) ==
    /\ Forwarding
    /\ inflight' = (inflight \ {r}) \cup
          IF r.timeout >= Delta /\ p \in alive
          THEN {[r EXCEPT !.pid = p, !.timeout = @ - Delta]} ELSE {}
    /\ UNCHANGED <<made, replies, mailbox, timers, cancelling, next_ref,
                   next_id, send_timeouts, send_timeout_monitors,
                   async_responses, alive, monitored, outcome, fate,
                   loose, watched>>

(* Every monitor of a dead process delivers one DOWN, in no given order.   *)
DestDie(p) ==
    /\ p \in alive
    /\ alive' = alive \ {p}
    /\ inflight' = {r \in inflight : r.pid # p}
    /\ monitored' = {x \in monitored : x.pid # p}
    /\ \E downs \in SetToSeqs({x \in monitored : x.pid = p}) :
          mailbox' = mailbox \o
              [i \in DOMAIN downs |-> Down(downs[i].ref, p)]
    /\ UNCHANGED <<made, replies, timers, cancelling, next_ref, next_id,
                   send_timeouts, send_timeout_monitors, async_responses,
                   outcome, fate, loose, watched>>

-----------------------------------------------------------------------------
Init ==
    /\ made = {}
    /\ replies = [c \in Calls |-> <<>>]
    /\ mailbox = <<>>
    /\ timers = {}
    /\ cancelling = {}
    /\ next_ref = 1
    /\ next_id = 1
    /\ send_timeouts = [t \in TransIds |-> NoEntry]
    /\ send_timeout_monitors = [p \in Pids |-> NoMonitor]
    /\ async_responses = {}
    /\ alive = Pids
    /\ inflight = {}
    /\ monitored = {}
    /\ outcome = [t \in TransIds |-> <<>>]
    /\ fate = [t \in TransIds |-> "none"]
    /\ loose = {}
    /\ watched = {}

Caller ==
    \/ \E c \in SendCalls : CallLookup(c) \/ CallPid(c) \/ CallMonitor(c)
    \/ \E c \in RecvCalls : CallRecvAsync(c) \/ CallRecvAsyncs(c)

Dispatcher ==
    HandleLookup \/ HandlePid \/ HandleMonitor \/ HandleRecv
    \/ HandleReturnAsync \/ HandleReturnSync \/ HandleSendAsyncTimeout
    \/ HandleSendSyncTimeout \/ HandleRecvAsyncTimeout \/ HandleDown

Timer == \E tm \in timers : TimerFires(tm)

Destination ==
    \/ \E r \in inflight :
          \/ \E T \in Timeouts, empty \in BOOLEAN : DestReturn(r, T, empty)
          \/ \E p \in Pids : DestForward(r, p)
    \/ \E p \in Mortal : DestDie(p)

Next == Caller \/ Dispatcher \/ Timer \/ Destination
        \/ \E ref \in cancelling : TimerCancelled(ref)

(* The dispatcher handles its mailbox and Erlang timers fire.              *)
Fairness == WF_vars(Dispatcher) /\ WF_vars(Timer)

Spec == Init /\ [][Next]_vars
FairSpec == Spec /\ Fairness

-----------------------------------------------------------------------------
(* Properties *)

InMailbox(P(_)) == \E i \in DOMAIN mailbox : P(mailbox[i])
Pending(t) == send_timeouts[t] # NoEntry

(* Every variable holds what the state record of the dispatcher declares.  *)
TypeOK ==
    /\ made \subseteq Calls
    /\ replies \in [Calls -> Seq([ok : BOOLEAN, ids : SUBSET TransIds,
                                  consume : BOOLEAN])]
    /\ mailbox \in Seq(Message)
    /\ timers \subseteq [ref : Nat, msg : Message]
    /\ cancelling \subseteq Nat
    /\ next_ref \in Nat \ {0}
    /\ next_id \in 1..(MaxTransId + 1)
    /\ send_timeouts \in
          [TransIds -> [type : {"none", "active", "passive", "sync"},
                        pid : Pids \cup {Undefined}, tref : Nat,
                        client : Calls \cup {Undefined}]]
    /\ send_timeout_monitors \in
          [Pids -> [ref : Nat, ids : SUBSET TransIds]]
    /\ async_responses \subseteq TransIds
    /\ alive \subseteq Pids
    /\ inflight \subseteq [trans : TransIds, pid : Pids, timeout : Nat,
                           sync : BOOLEAN, ref : Nat]
    /\ monitored \subseteq [ref : Nat, pid : Pids]
    /\ IsFiniteSet(monitored)
    /\ outcome \in
          [TransIds -> Seq([ref : Nat, kind : {"return", "timeout"}])]
    /\ fate \in [TransIds -> {"none", "stored", "expired"}]
    /\ loose \subseteq Nat
    /\ watched \subseteq Nat

(* A caller is answered at most once, and an active request ends with one  *)
(* return_async_active or timeout_async_active message, never two: the     *)
(* response, the timer and the destination's death all race to end it.     *)
RequestEndsOnce ==
    /\ \A c \in Calls : Len(replies[c]) <= 1
    /\ \A t \in TransIds : \A i, j \in DOMAIN outcome[t] :
          outcome[t][i].ref = outcome[t][j].ref => i = j

(* A request sent with a monitor is listed under its destination, so that  *)
(* the destination's death reaches it (send_timeout_dead).                 *)
MonitorsCover ==
    \A t \in TransIds : \A p \in Pids :
        Pending(t) /\ send_timeouts[t].pid = p
            => t \in send_timeout_monitors[p].ids

(* ... and nothing else is listed: no finished request keeps a destination *)
(* monitored, or is timed out in another request's place.                  *)
MonitorsExact ==
    \A p \in Pids : \A t \in send_timeout_monitors[p].ids :
        Pending(t) /\ send_timeouts[t].pid = p

(* A destination listed in send_timeout_monitors has an Erlang monitor     *)
(* that is active or whose DOWN is on its way; and a monitor of the        *)
(* dispatcher's own is active only while it is listed.                     *)
MonitorsActive ==
    /\ \A p \in Pids : send_timeout_monitors[p] # NoMonitor =>
          LET r == send_timeout_monitors[p].ref
          IN  \/ [ref |-> r, pid |-> p] \in monitored
              \/ InMailbox(LAMBDA m : m = Down(r, p))
    /\ \A x \in monitored : x.ref \notin watched =>
          send_timeout_monitors[x.pid].ref = x.ref

(* A DOWN that the dispatcher's own monitors caused never reaches the      *)
(* module as an info message: demonitor flushes the ones that come late.   *)
DownExpected ==
    \A i \in DOMAIN mailbox : mailbox[i].tag = "DOWN" =>
        send_timeout_monitors[mailbox[i].pid].ref = mailbox[i].ref

(* send_timeout_monitors, the pending requests, the Erlang monitors and    *)
(* the DOWN messages on their way agree, whatever ends requests in between.*)
MonitorBookkeeping == MonitorsExact /\ MonitorsActive /\ DownExpected

(* A pending request always has a running timer or its timeout message in  *)
(* the mailbox: nothing can leave it pending for ever.                     *)
PendingWillEnd ==
    \A t \in TransIds : Pending(t) =>
        LET e == send_timeouts[t]
        IN  \/ Running(e.tref)
            \/ InMailbox(LAMBDA m : /\ m.tag = IF e.type = "sync"
                                              THEN "send_sync_timeout"
                                              ELSE "send_async_timeout"
                                    /\ m.trans = t)

(* When an id is used again, the timer of an earlier request can end the   *)
(* new one only if the code left it running (cancel_timer_async, or a      *)
(* timeout below request_timeout_immediate_max); a timer that fired while  *)
(* it was being cancelled is handled before the id can be used again.      *)
StaleTimeout ==
    \A i \in DOMAIN mailbox :
        LET m == mailbox[i]
        IN  m.tag = "send_async_timeout" =>
                \/ ~Pending(m.trans)
                \/ m.ref = send_timeouts[m.trans].tref
                \/ m.ref \in loose

(* A request ends once, and by its own response, timer or death.           *)
EndedOnceByItsOwn == RequestEndsOnce /\ StaleTimeout

(* A stored response is handed to at most one consuming receive.           *)
Takers(t) == {c \in Calls : \E i \in DOMAIN replies[c] :
                 replies[c][i].consume /\ t \in replies[c][i].ids}
ConsumedOnce == \A t \in TransIds : Cardinality(Takers(t)) <= 1

(* No stored response is lost: until its timer removes it, it is stored,   *)
(* or held by a recv_asyncs that retries, or was handed to a receiver.     *)
Holds(m, t) == m.tag = "recv_asyncs" /\ m.consume /\ t \in m.found
ResponseKept ==
    \A t \in TransIds : fate[t] = "stored" =>
        \/ t \in async_responses
        \/ InMailbox(LAMBDA m : Holds(m, t))
        \/ \E tm \in timers : Holds(tm.msg, t)
        \/ Takers(t) # {}

(* cloudi_service:monitor/2: the callback receives the monitor's result.   *)
MonitorResult ==
    \A r \in watched :
        \/ \E x \in monitored : x.ref = r
        \/ InMailbox(LAMBDA m : m.tag = "DOWN" /\ m.ref = r)

(* Every call is answered: send_sync by the response or the timeout, a     *)
(* name lookup and a receive after their retries at the latest.            *)
EveryCallAnswered ==
    \A c \in Calls : c \in made ~> replies[c] # <<>>

(* Every request ends and every stored response is consumed or removed.    *)
EveryRequestEnds ==
    \A t \in TransIds : /\ Pending(t) ~> ~Pending(t)
                        /\ t \in async_responses ~> t \notin async_responses

(* Callers, requests and stored responses are all done with at last, for   *)
(* any silence of the destinations.                                        *)
EverythingEnds == EveryCallAnswered /\ EveryRequestEnds
=============================================================================
