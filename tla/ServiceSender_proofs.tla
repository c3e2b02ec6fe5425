----------------------- MODULE ServiceSender_proofs -------------------------
(***************************************************************************)
(* Proofs about ServiceSender: the type invariant, and that a request sent *)
(* with a monitor is always listed under its destination.                  *)
(***************************************************************************)
EXTENDS ServiceSender, TLAPS, FiniteSetTheorems,
        WellFoundedInduction

-----------------------------------------------------------------------------
(* Sequences and finite sets *)

(* SetToSeqs lists the elements of a finite set.                           *)
LEMMA Arrangement ==
    ASSUME NEW S, IsFiniteSet(S), NEW q \in SetToSeqs(S)
    PROVE  q \in Seq(S)
BY FS_CardinalityType DEF SetToSeqs

(* The transaction ids within the bound are finitely many.                 *)
LEMMA TransIdsFinite ==
    \A S \in SUBSET TransIds : IsFiniteSet(S)
<1>1. IsFiniteSet(TransIds)
  BY FS_Interval, SenderAssumption DEF TransIds
<1> QED  BY <1>1, FS_Subset

(* The values a function takes on a finite set are finitely many.          *)
LEMMA ValuesFinite ==
    ASSUME NEW S, IsFiniteSet(S), NEW f, f = [x \in S |-> f[x]]
    PROVE  IsFiniteSet({f[x] : x \in S})
<1> DEFINE T == {f[x] : x \in S}
<1>1. f \in Surjection(S, T)
  BY DEF Surjection
<1> QED  BY <1>1, FS_Surjection

(* Min of a set of numbers with a least element.                           *)
LEMMA MinLeast ==
    ASSUME NEW S \in SUBSET Int, NEW a \in S, \A y \in S : a <= y
    PROVE  Min(S) = a
<1>1. \E x \in S : \A y \in S : x =< y
  OBVIOUS
<1>2. Min(S) \in S /\ \A y \in S : Min(S) =< y
  BY <1>1 DEF Min
<1>3. ASSUME NEW b \in S, \A y \in S : b =< y PROVE b = a
  <2>1. b \in Int /\ a \in Int /\ a <= b /\ b <= a
    BY <1>3
  <2> QED  BY <2>1
<1> QED  BY <1>2, <1>3

(* A set of numbers that is not empty has a least element.                 *)
LEMMA LeastNat ==
    ASSUME NEW S \in SUBSET Nat, S # {}
    PROVE  \E a \in S : \A b \in S : a <= b
<1> DEFINE R == OpToRel(<, Nat)
<1>1. \A x, y \in Nat : y < x => <<y, x>> \in R
  BY DEF OpToRel
<1>2. IsWellFoundedOn(R, Nat)
  BY NatLessThanWellFounded
<1> HIDE DEF R
<1>3. PICK a \in S : \A b \in S : ~ (<<b, a>> \in R)
  <2>1. S \subseteq Nat
    OBVIOUS
  <2> QED  BY <1>2, <2>1, WFMin, Zenon
<1>4. ASSUME NEW b \in S
      PROVE  a <= b
  <2>1. a \in Nat /\ b \in Nat /\ ~ (<<b, a>> \in R)
    BY <1>3
  <2>2. ~ (b < a)
    BY <1>1, <2>1, Zenon
  <2> QED  BY <2>1, <2>2
<1> QED  BY <1>4

(* Flushing a DOWN message leaves a queue of messages.                     *)
LEMMA FlushType ==
    ASSUME NEW S, NEW q \in Seq(S), NEW r, NEW p
    PROVE  Flush(q, r, p) \in Seq(S)
<1> DEFINE at == {i \in DOMAIN q : q[i] = Down(r, p)}
           i == CHOOSE i \in at : TRUE
<1>1. CASE at = {}
  BY <1>1 DEF Flush
<1>2. CASE at # {}
  <2>1. i \in 1..Len(q)
    BY <1>2
  <2> HIDE DEF i
  <2>2. SubSeq(q, 1, i-1) \in Seq(S) /\ SubSeq(q, i+1, Len(q)) \in Seq(S)
    BY <2>1
  <2>3. RemoveAt(q, i) \in Seq(S)
    BY <2>2 DEF RemoveAt
  <2> QED  BY <1>2, <2>3 DEF Flush, i
<1> QED  BY <1>1, <1>2

-----------------------------------------------------------------------------
(* Messages *)

(* The tag of a message says which kind of message it is.                  *)
LEMMA MessageKinds ==
    ASSUME NEW m \in Message
    PROVE  /\ m.tag \in LookupOps => m \in LookupMessage
           /\ m.tag \in PidOps => m \in PidMessage
           /\ m.tag = "recv_async" => m \in RecvMessage
           /\ m.tag = "recv_asyncs" => m \in RecvsMessage
           /\ m.tag = "monitor" => m \in MonitorMessage
           /\ m.tag \in {"return_async", "return_sync"} => m \in ReturnMessage
           /\ m.tag \in {"send_async_timeout", "send_sync_timeout",
                         "recv_async_timeout"} => m \in TimeoutMessage
           /\ m.tag = "DOWN" => m \in DownMessage
BY DEF Message, LookupMessage, PidMessage, RecvMessage, RecvsMessage,
       MonitorMessage, ReturnMessage, TimeoutMessage, DownMessage,
       LookupOps, PidOps

(* The message the dispatcher handles next is a message.                   *)
LEMMA HeadMessage ==
    ASSUME TypeOK, mailbox # <<>>
    PROVE  Head(mailbox) \in Message /\ Tail(mailbox) \in Seq(Message)
BY DEF TypeOK

(* DOWN and timeout messages are messages.                                 *)
LEMMA MadeMessages ==
    /\ \A r \in Nat, p \in Pids : Down(r, p) \in Message
    /\ \A tag \in {"send_async_timeout", "send_sync_timeout",
                   "recv_async_timeout"}, t \in TransIds, r \in Nat :
          [tag |-> tag, trans |-> t, ref |-> r] \in Message
BY DEF Down, Message, DownMessage, TimeoutMessage

-----------------------------------------------------------------------------
(* The bookkeeping of sent requests keeps its types                        *)

Entries == [type : {"none", "active", "passive", "sync"},
            pid : Pids \cup {Undefined}, tref : Nat,
            client : Calls \cup {Undefined}]

(* The part of the type invariant about the bookkeeping, and about what    *)
(* sending changes besides.                                                *)
BooksType ==
    /\ send_timeouts \in [TransIds -> Entries]
    /\ send_timeout_monitors \in [Pids -> [ref : Nat, ids : SUBSET TransIds]]
    /\ monitored \subseteq [ref : Nat, pid : Pids]
    /\ IsFiniteSet(monitored)
    /\ mailbox \in Seq(Message)

SendsType ==
    /\ timers \subseteq [ref : Nat, msg : Message]
    /\ inflight \subseteq [trans : TransIds, pid : Pids, timeout : Nat,
                           sync : BOOLEAN, ref : Nat]
    /\ next_ref \in Nat \ {0}

(* What timeout_start leaves: dest gives each id in D its destination, and *)
(* D has a least element from which the references count up.               *)
LEMMA TimeoutStartType ==
    ASSUME TypeOK, mailbox # <<>>,
           NEW type \in {"active", "passive", "sync"}, NEW T \in Nat,
           NEW D \in SUBSET TransIds, NEW dest \in [D -> Pids],
           NEW a \in D, \A t \in D : a <= t,
           NEW client \in Calls \cup {Undefined},
           timeout_start(type, T, dest, client)
    PROVE  BooksType' /\ SendsType'
<1> DEFINE tag == IF type = "sync" THEN "send_sync_timeout"
                                   ELSE "send_async_timeout"
           new == {t \in DOMAIN dest :
                      Watch(T) /\ send_timeout_monitors[dest[t]] = NoMonitor}
           deadIds == {u \in new : dest[u] \notin alive}
           liveIds == {u \in new : dest[u] \in alive}
           dead == {Down(TimerRef(t, dest), dest[t]) : t \in deadIds}
           live == {[ref |-> TimerRef(t, dest), pid |-> dest[t]] :
                       t \in liveIds}
<1>0. D \subseteq Nat /\ DOMAIN dest = D
  BY SenderAssumption DEF TransIds
<1>1. \A t \in D : TimerRef(t, dest) \in Nat /\ dest[t] \in Pids
  <2>1. Min(D) = a
    BY <1>0, MinLeast
  <2> QED  BY <1>0, <2>1 DEF TimerRef, TypeOK
<1>2. IsFiniteSet(D) /\ Cardinality(D) \in Nat
      /\ IsFiniteSet(deadIds) /\ IsFiniteSet(liveIds)
  BY <1>0, TransIdsFinite, FS_CardinalityType
<1>3. send_timeouts' \in [TransIds -> Entries]
  BY <1>0, <1>1 DEF timeout_start, TypeOK, Entries
<1>4. send_timeout_monitors' \in [Pids -> [ref : Nat, ids : SUBSET TransIds]]
  <2> DEFINE ts(p) == {t \in DOMAIN dest : dest[t] = p}
             m(p) == send_timeout_monitors[p]
             e(p) == IF ~Watch(T) \/ ts(p) = {} THEN m(p)
                     ELSE IF m(p) = NoMonitor
                          THEN [ref |-> TimerRef(CHOOSE t \in ts(p) : TRUE, dest),
                                ids |-> ts(p)]
                          ELSE [m(p) EXCEPT !.ids = @ \cup ts(p)]
  <2>1. send_timeout_monitors' = [p \in Pids |-> e(p)]
    BY DEF timeout_start, monitors_start
  <2>2. ASSUME NEW p \in Pids
        PROVE  e(p) \in [ref : Nat, ids : SUBSET TransIds]
    <3>1. m(p) \in [ref : Nat, ids : SUBSET TransIds]
      BY DEF TypeOK
    <3>2. ts(p) \subseteq D /\ ts(p) \subseteq TransIds
      BY <1>0
    <3>3. ts(p) # {} => (CHOOSE t \in ts(p) : TRUE) \in D
      BY <3>2
    <3>4. ts(p) # {} => TimerRef(CHOOSE t \in ts(p) : TRUE, dest) \in Nat
      BY <1>1, <3>3, Zenon
    <3> HIDE DEF m, ts
    <3> QED  BY <3>1, <3>2, <3>4
  <2> HIDE DEF e
  <2> QED  BY <2>1, <2>2
<1>5. monitored' = monitored \cup live
  BY DEF timeout_start
<1>6. live \subseteq [ref : Nat, pid : Pids]
  BY <1>0, <1>1
<1>7. IsFiniteSet(live)
  <2> DEFINE f == [t \in liveIds |->
                      [ref |-> TimerRef(t, dest), pid |-> dest[t]]]
  <2>1. IsFiniteSet({f[t] : t \in liveIds})
    <3>1. f = [t \in liveIds |-> f[t]]
      OBVIOUS
    <3> HIDE DEF f, liveIds
    <3> QED  BY <1>2, <3>1, ValuesFinite
  <2>2. live = {f[t] : t \in liveIds}
    OBVIOUS
  <2> QED  BY <2>1, <2>2
<1>8. monitored' \subseteq [ref : Nat, pid : Pids] /\ IsFiniteSet(monitored')
  BY <1>5, <1>6, <1>7, FS_Union DEF TypeOK
<1>9. timers' \subseteq [ref : Nat, msg : Message]
  <2> DEFINE msg(t) == [tag |-> tag, trans |-> t, ref |-> TimerRef(t, dest)]
             added == {[ref |-> TimerRef(t, dest), msg |-> msg(t)] : t \in D}
  <2>1. timers' = timers \cup added
    BY <1>0 DEF timeout_start
  <2>2. \A t \in D : msg(t) \in Message
    BY <1>0, <1>1, MadeMessages
  <2>3. added \subseteq [ref : Nat, msg : Message]
    <3> HIDE DEF msg
    <3> QED  BY <1>1, <2>2
  <2> HIDE DEF added
  <2> QED  BY <2>1, <2>3 DEF TypeOK
<1>10. mailbox' \in Seq(Message)
  <2>1. IsFiniteSet(dead)
    <3> DEFINE f == [t \in deadIds |-> Down(TimerRef(t, dest), dest[t])]
    <3>1. IsFiniteSet({f[t] : t \in deadIds})
      <4>1. f = [t \in deadIds |-> f[t]]
        OBVIOUS
      <4> HIDE DEF f, deadIds
      <4> QED  BY <1>2, <4>1, ValuesFinite
    <3>2. dead = {f[t] : t \in deadIds}
      OBVIOUS
    <3> QED  BY <3>1, <3>2
  <2>2. dead \subseteq Message
    <3>1. ASSUME NEW t \in deadIds
          PROVE  Down(TimerRef(t, dest), dest[t]) \in Message
      <4>1. t \in D
        BY <1>0
      <4>2. TimerRef(t, dest) \in Nat /\ dest[t] \in Pids
        BY <1>1, <4>1
      <4> QED  BY <4>2, MadeMessages, Zenon
    <3> HIDE DEF deadIds
    <3> QED  BY <3>1, Zenon
  <2>3. PICK downs \in SetToSeqs(dead) : mailbox' = Tail(mailbox) \o downs
    BY DEF timeout_start
  <2>4. downs \in Seq(Message)
    <3>1. downs \in Seq(dead)
      BY <2>1, <2>3, Arrangement
    <3> QED  BY <2>2, <3>1
  <2> QED  BY <2>3, <2>4, HeadMessage
<1>11. inflight' \subseteq [trans : TransIds, pid : Pids, timeout : Nat,
                            sync : BOOLEAN, ref : Nat]
  <2> DEFINE sync == type = "sync"
             added == {[trans |-> t, pid |-> dest[t], timeout |-> T,
                        sync |-> sync, ref |-> TimerRef(t, dest)] :
                          t \in {u \in D : dest[u] \in alive}}
  <2>1. inflight' = inflight \cup added
    BY <1>0 DEF timeout_start
  <2>2. added \subseteq [trans : TransIds, pid : Pids, timeout : Nat,
                         sync : BOOLEAN, ref : Nat]
    <3>1. sync \in BOOLEAN
      OBVIOUS
    <3> HIDE DEF sync
    <3>2. ASSUME NEW t \in D
          PROVE  [trans |-> t, pid |-> dest[t], timeout |-> T,
                  sync |-> sync, ref |-> TimerRef(t, dest)] \in
                     [trans : TransIds, pid : Pids, timeout : Nat,
                      sync : BOOLEAN, ref : Nat]
      <4>1. t \in TransIds /\ dest[t] \in Pids /\ TimerRef(t, dest) \in Nat
        BY <1>0, <1>1
      <4> QED  BY <3>1, <4>1, Zenon
    <3> QED  BY <3>2
  <2> HIDE DEF added
  <2> QED  BY <2>1, <2>2 DEF TypeOK
<1>12. next_ref' \in Nat \ {0}
  <2>1. next_ref' = next_ref + Cardinality(D)
    BY <1>0 DEF timeout_start
  <2> QED  BY <1>2, <2>1 DEF TypeOK
<1> QED  BY <1>3, <1>4, <1>8, <1>9, <1>10, <1>11, <1>12
         DEF BooksType, SendsType

(* What send_timeout_end leaves.                                           *)
LEMMA TimeoutEndType ==
    ASSUME TypeOK, mailbox # <<>>, NEW t \in TransIds,
           NEW p \in Pids \cup {Undefined}, send_timeout_end(t, p)
    PROVE  BooksType'
<1> DEFINE m == IF p = Undefined THEN NoMonitor ELSE send_timeout_monitors[p]
<1>1. m \in [ref : Nat, ids : SUBSET TransIds]
  BY DEF NoMonitor, TypeOK
<1>2. send_timeouts' \in [TransIds -> Entries]
  <2>1. NoEntry \in Entries
    BY DEF NoEntry, Entries
  <2>2. send_timeouts \in [TransIds -> Entries]
    BY DEF TypeOK, Entries
  <2> QED  BY <2>1, <2>2 DEF send_timeout_end, forget
<1>3. send_timeout_monitors' \in [Pids -> [ref : Nat, ids : SUBSET TransIds]]
  <2>1. unlist(m, t) \in [ref : Nat, ids : SUBSET TransIds]
    <3> HIDE DEF m
    <3> QED  BY <1>1 DEF unlist, NoMonitor
  <2>2. send_timeout_monitors' = IF m = NoMonitor THEN send_timeout_monitors
            ELSE [send_timeout_monitors EXCEPT ![p] = unlist(m, t)]
    BY DEF send_timeout_end
  <2> QED  BY <2>1, <2>2 DEF TypeOK
<1>4. monitored' \subseteq [ref : Nat, pid : Pids] /\ IsFiniteSet(monitored')
  <2>1. monitored' \in SUBSET monitored
    BY DEF send_timeout_end, demonitor
  <2> QED  BY <2>1, FS_Subset DEF TypeOK
<1>5. mailbox' \in Seq(Message)
  <2>1. Flush(Tail(mailbox), m.ref, p) \in Seq(Message)
    BY HeadMessage, FlushType
  <2>2. mailbox' \in {Tail(mailbox), Flush(Tail(mailbox), m.ref, p)}
    BY DEF send_timeout_end
  <2> QED  BY <2>1, <2>2, HeadMessage
<1> QED  BY <1>2, <1>3, <1>4, <1>5 DEF BooksType

(* What send_timeout_dead leaves.                                          *)
LEMMA TimeoutDeadType ==
    ASSUME TypeOK, mailbox # <<>>, NEW p \in Pids, send_timeout_dead(p)
    PROVE  /\ send_timeouts' \in [TransIds -> Entries]
           /\ send_timeout_monitors' \in
                 [Pids -> [ref : Nat, ids : SUBSET TransIds]]
           /\ timers' \subseteq timers
           /\ mailbox' \in Seq(Message)
<1> DEFINE ids == {t \in send_timeout_monitors[p].ids :
                      send_timeouts[t] # NoEntry}
           now == {t \in ids : Running(send_timeouts[t].tref)}
<1>1. now \in SUBSET TransIds
  BY DEF TypeOK
<1>2. send_timeouts' \in [TransIds -> Entries]
  <2>1. send_timeouts \in [TransIds -> Entries]
    BY DEF TypeOK, Entries
  <2>2. \A e \in Entries : [e EXCEPT !.pid = Undefined] \in Entries
    BY DEF Entries
  <2>3. send_timeouts' = [t \in TransIds |->
            IF t \in ids THEN [send_timeouts[t] EXCEPT !.pid = Undefined]
                         ELSE send_timeouts[t]]
    BY DEF send_timeout_dead
  <2> QED  BY <2>1, <2>2, <2>3
<1>3. send_timeout_monitors' \in [Pids -> [ref : Nat, ids : SUBSET TransIds]]
  BY DEF send_timeout_dead, NoMonitor, TypeOK
<1>4. timers' \subseteq timers
  BY DEF send_timeout_dead, Stopped
<1>5. mailbox' \in Seq(Message)
  <2> DEFINE f == [t \in now |->
                      [tag |-> IF send_timeouts[t].type = "sync"
                               THEN "send_sync_timeout"
                               ELSE "send_async_timeout",
                       trans |-> t, ref |-> send_timeouts[t].tref]]
  <2>1. timeout_messages(now) = {f[t] : t \in now}
    BY DEF timeout_messages
  <2>2. timeout_messages(now) \subseteq Message
    <3>1. \A t \in now : send_timeouts[t].tref \in Nat /\ t \in TransIds
      BY <1>1 DEF TypeOK
    <3> QED  BY <3>1, MadeMessages DEF timeout_messages
  <2>3. IsFiniteSet(timeout_messages(now))
    <3>1. f = [t \in now |-> f[t]]
      OBVIOUS
    <3>2. IsFiniteSet(now)
      BY <1>1, TransIdsFinite
    <3> HIDE DEF f, now
    <3> QED  BY <2>1, <3>1, <3>2, ValuesFinite
  <2>4. PICK msgs \in SetToSeqs(timeout_messages(now)) :
            mailbox' = Tail(mailbox) \o msgs
    BY DEF send_timeout_dead
  <2>5. msgs \in Seq(Message)
    <3>1. msgs \in Seq(timeout_messages(now))
      BY <2>3, <2>4, Arrangement
    <3> QED  BY <2>2, <3>1
  <2> QED  BY <2>4, <2>5, HeadMessage
<1> QED  BY <1>2, <1>3, <1>4, <1>5

-----------------------------------------------------------------------------
(* Every action keeps the type invariant                                   *)

Reply == [ok : BOOLEAN, ids : SUBSET TransIds, consume : BOOLEAN]

(* A reply is appended to the replies of a call.                           *)
LEMMA ReplyType ==
    ASSUME TypeOK, NEW c \in Calls \cup {Undefined}, NEW v \in Reply,
           reply(c, v)
    PROVE  replies' \in [Calls -> Seq(Reply)]
<1>1. replies \in [Calls -> Seq(Reply)]
  BY DEF TypeOK, Reply
<1>2. CASE c \in Calls
  <2>1. Append(replies[c], v) \in Seq(Reply)
    BY <1>1, <1>2
  <2> QED  BY <1>1, <2>1 DEF reply
<1>3. CASE c \notin Calls
  BY <1>1, <1>3 DEF reply
<1> QED  BY <1>2, <1>3

(* The two kinds of reply.                                                 *)
LEMMA ReplyValues ==
    /\ Error \in Reply
    /\ \A ids \in SUBSET TransIds, b \in BOOLEAN : Ok(ids, b) \in Reply
BY DEF Error, Ok, Reply

(* Making a call.                                                          *)
LEMMA CallType ==
    ASSUME TypeOK, NEW c \in Calls, NEW msg \in Message, call(c, msg)
    PROVE  TypeOK'
<1>1. made' \subseteq Calls /\ mailbox' \in Seq(Message)
  BY DEF call, TypeOK
<1> QED  BY <1>1 DEF call, TypeOK

LEMMA CallerType ==
    ASSUME TypeOK, Caller
    PROVE  TypeOK'
<1>1. ASSUME NEW c \in Calls, CallLookup(c)
      PROVE  TypeOK'
  <2>1. PICK op \in Ops \cap LookupOps, T \in Timeouts, allowed \in BOOLEAN :
            call(c, [tag |-> op, call |-> c, timeout |-> T,
                     allowed |-> allowed])
    BY <1>1 DEF CallLookup
  <2>2. [tag |-> op, call |-> c, timeout |-> T, allowed |-> allowed]
            \in Message
    BY SenderAssumption, Zenon DEF Message, LookupMessage
  <2> QED  BY <2>1, <2>2, CallType
<1>2. ASSUME NEW c \in Calls, CallPid(c)
      PROVE  TypeOK'
  <2>1. PICK op \in Ops \cap PidOps, T \in Timeouts, p \in Pids,
             t \in {AnyId} \cup {u \in TransIds : Reusable(u)} :
            call(c, [tag |-> op, call |-> c, timeout |-> T, pid |-> p,
                     trans |-> t])
    BY <1>2 DEF CallPid
  <2>2. [tag |-> op, call |-> c, timeout |-> T, pid |-> p, trans |-> t]
            \in Message
    BY SenderAssumption, Zenon DEF Message, PidMessage
  <2> QED  BY <2>1, <2>2, CallType
<1>3. ASSUME NEW c \in Calls, CallMonitor(c)
      PROVE  TypeOK'
  <2>1. PICK p \in Pids : call(c, [tag |-> "monitor", call |-> c, pid |-> p])
    BY <1>3 DEF CallMonitor
  <2>2. [tag |-> "monitor", call |-> c, pid |-> p] \in Message
    BY Zenon DEF Message, MonitorMessage
  <2> QED  BY <2>1, <2>2, CallType
<1>4. ASSUME NEW c \in Calls, CallRecvAsync(c)
      PROVE  TypeOK'
  <2>1. PICK T \in Timeouts, consume \in BOOLEAN, t \in 0..(next_id - 1) :
            call(c, [tag |-> "recv_async", call |-> c, timeout |-> T,
                     consume |-> consume, trans |-> t])
    BY <1>4 DEF CallRecvAsync
  <2>2. t \in TransIds \cup {AnyId}
    BY SenderAssumption DEF TransIds, AnyId, TypeOK
  <2>3. [tag |-> "recv_async", call |-> c, timeout |-> T,
         consume |-> consume, trans |-> t] \in Message
    BY <2>2, SenderAssumption, Zenon DEF Message, RecvMessage
  <2> QED  BY <2>1, <2>3, CallType
<1>5. ASSUME NEW c \in Calls, CallRecvAsyncs(c)
      PROVE  TypeOK'
  <2>1. PICK T \in Timeouts, consume \in BOOLEAN,
             ids \in (SUBSET (1..(next_id - 1))) \ {{}} :
            call(c, [tag |-> "recv_asyncs", call |-> c, timeout |-> T,
                     consume |-> consume, results |-> ids, found |-> {}])
    BY <1>5 DEF CallRecvAsyncs
  <2>2. ids \in SUBSET TransIds /\ {} \in SUBSET TransIds
    BY SenderAssumption DEF TransIds, TypeOK
  <2>3. [tag |-> "recv_asyncs", call |-> c, timeout |-> T,
         consume |-> consume, results |-> ids, found |-> {}] \in Message
    BY <2>2, SenderAssumption, Zenon DEF Message, RecvsMessage
  <2> QED  BY <2>1, <2>3, CallType
<1> QED  BY <1>1, <1>2, <1>3, <1>4, <1>5 DEF Caller, Calls

(* A failed lookup: the caller is told, or the call comes back later.      *)
LEMMA LookupFailedType ==
    ASSUME TypeOK, mailbox # <<>>, NEW m \in LookupMessage, lookup_failed(m)
    PROVE  /\ replies' \in [Calls -> Seq(Reply)]
           /\ timers' \subseteq [ref : Nat, msg : Message]
           /\ mailbox' \in Seq(Message)
<1> DEFINE again == [m EXCEPT !.timeout = @ - Interval]
<1>1. CASE reply(m.call, Error) /\ UNCHANGED timers
  <2>1. m.call \in Calls
    BY DEF LookupMessage
  <2> QED  BY <1>1, <2>1, ReplyType, ReplyValues, HeadMessage
           DEF lookup_failed, TypeOK
<1>2. CASE /\ lookup_again(m.timeout)
           /\ timers' = timers \cup {[ref |-> 0, msg |-> again]}
           /\ UNCHANGED replies
  <2>1. again \in LookupMessage
    BY <1>2 DEF LookupMessage, lookup_again, Interval
  <2>2. again \in Message
    BY <2>1 DEF Message
  <2>3. timers' \subseteq [ref : Nat, msg : Message]
    <3> HIDE DEF again
    <3> QED  BY <1>2, <2>2 DEF TypeOK
  <2>4. replies' \in [Calls -> Seq(Reply)]
    BY <1>2 DEF TypeOK, Reply
  <2> QED  BY <2>3, <2>4, HeadMessage DEF lookup_failed
<1> QED  BY <1>1, <1>2 DEF lookup_failed

(* Sending one request.                                                    *)
LEMMA SendOneType ==
    ASSUME TypeOK, mailbox # <<>>,
           NEW type \in {"active", "passive", "sync"}, NEW T \in Nat,
           NEW id \in TransIds, NEW p \in Pids,
           NEW client \in Calls \cup {Undefined},
           timeout_start(type, T, [t \in {id} |-> p], client)
    PROVE  BooksType' /\ SendsType'
<1> DEFINE dest == [t \in {id} |-> p]
<1>1. {id} \in SUBSET TransIds /\ dest \in [{id} -> Pids]
  OBVIOUS
<1>2. id \in {id} /\ \A t \in {id} : id <= t
  BY SenderAssumption DEF TransIds
<1> HIDE DEF dest
<1>3. timeout_start(type, T, dest, client)
  BY DEF dest
<1> QED  BY <1>1, <1>2, <1>3, TimeoutStartType

(* The ids of an mcast: next_id is the first of them, and each has one of  *)
(* the group's processes as its destination.                               *)
LEMMA McastDest ==
    ASSUME TypeOK, NEW T, NEW pids \in UNION {SetToSeqs(S) : S \in Members(T)},
           Issue(Len(pids))
    PROVE  /\ McastIds(pids) \in SUBSET TransIds
           /\ next_id \in McastIds(pids)
           /\ \A t \in McastIds(pids) : next_id <= t
           /\ [t \in McastIds(pids) |-> pids[t - next_id + 1]]
                 \in [McastIds(pids) -> Pids]
           /\ next_id' \in 1..(MaxTransId + 1)
<1>1. PICK S \in (SUBSET Pids) \ {{}} : pids \in SetToSeqs(S)
  BY DEF Members
<1>2. IsFiniteSet(S)
  BY SenderAssumption, FS_Subset
<1>3. pids \in Seq(Pids)
  <2>1. pids \in Seq(S)
    BY <1>1, <1>2, Arrangement
  <2> QED  BY <2>1
<1>4. Len(pids) \in Nat \ {0}
  <2>1. Cardinality(S) \in Nat \ {0}
    <3>1. Cardinality(S) \in Nat
      BY <1>2, FS_CardinalityType
    <3>2. Cardinality(S) # 0
      BY <1>1, <1>2, FS_EmptySet
    <3> QED  BY <3>1, <3>2
  <2>2. Len(pids) = Cardinality(S)
    <3>1. DOMAIN pids = 1..Cardinality(S)
      BY <1>1 DEF SetToSeqs
    <3>2. DOMAIN pids = 1..Len(pids) /\ Len(pids) \in Nat
      BY <1>3
    <3> QED  BY <2>1, <3>1, <3>2
  <2> QED  BY <2>1, <2>2
<1>5. next_id \in Nat \ {0} /\ next_id + Len(pids) - 1 <= MaxTransId
      /\ next_id' = next_id + Len(pids)
  BY DEF Issue, TypeOK
<1>6. \A t \in McastIds(pids) : pids[t - next_id + 1] \in Pids
  BY <1>3, <1>4, <1>5 DEF McastIds
<1>7. McastIds(pids) \in SUBSET TransIds /\ next_id \in McastIds(pids)
      /\ \A t \in McastIds(pids) : next_id <= t
  BY <1>4, <1>5, SenderAssumption DEF McastIds, TransIds
<1>8. next_id' \in 1..(MaxTransId + 1)
  BY <1>4, <1>5, SenderAssumption
<1> QED  BY <1>6, <1>7, <1>8

(* A request to one process of the looked up group.                        *)
LEMMA LookupOneType ==
    ASSUME TypeOK, mailbox # <<>>, NEW m \in LookupMessage,
           NEW type \in {"active", "passive", "sync"},
           NEW client \in Calls \cup {Undefined},
           \E p \in UNION Members(m.timeout) :
              timeout_start(type, m.timeout, [t \in {next_id} |-> p], client),
           Issue(1)
    PROVE  BooksType' /\ SendsType' /\ next_id' \in 1..(MaxTransId + 1)
           /\ next_id \in TransIds
<1>1. next_id \in TransIds /\ next_id' \in 1..(MaxTransId + 1)
  BY SenderAssumption DEF Issue, TransIds, TypeOK
<1>2. PICK p \in Pids :
          timeout_start(type, m.timeout, [t \in {next_id} |-> p], client)
  BY DEF Members
<1>3. m.timeout \in Nat
  BY DEF LookupMessage
<1> QED  BY <1>1, <1>2, <1>3, SendOneType

(* A request to every process of the looked up group.                      *)
LEMMA LookupAllType ==
    ASSUME TypeOK, mailbox # <<>>, NEW m \in LookupMessage,
           NEW type \in {"active", "passive"},
           NEW pids \in UNION {SetToSeqs(S) : S \in Members(m.timeout)},
           timeout_start(type, m.timeout,
              [t \in McastIds(pids) |-> pids[t - next_id + 1]], Undefined),
           Issue(Len(pids)), reply(m.call, Ok(McastIds(pids), FALSE))
    PROVE  BooksType' /\ SendsType' /\ next_id' \in 1..(MaxTransId + 1)
           /\ replies' \in [Calls -> Seq(Reply)]
<1> DEFINE D == McastIds(pids)
           dest == [t \in D |-> pids[t - next_id + 1]]
<1>1. /\ D \in SUBSET TransIds /\ next_id \in D
      /\ \A t \in D : next_id <= t
      /\ dest \in [D -> Pids]
      /\ next_id' \in 1..(MaxTransId + 1)
  BY McastDest
<1>2. m.timeout \in Nat /\ m.call \in Calls
  BY DEF LookupMessage
<1>3. BooksType' /\ SendsType'
  <2>1. timeout_start(type, m.timeout, dest, Undefined)
    OBVIOUS
  <2> HIDE DEF D, dest
  <2> QED  BY <1>1, <1>2, <2>1, TimeoutStartType
<1>4. replies' \in [Calls -> Seq(Reply)]
  BY <1>1, <1>2, ReplyType, ReplyValues
<1> QED  BY <1>1, <1>3, <1>4

(* TypeOK in terms of its parts.                                           *)
RestType ==
    /\ made \subseteq Calls
    /\ cancelling \subseteq Nat
    /\ async_responses \subseteq TransIds
    /\ alive \subseteq Pids
    /\ outcome \in
          [TransIds -> Seq([ref : Nat, kind : {"return", "timeout"}])]
    /\ fate \in [TransIds -> {"none", "stored", "expired"}]
    /\ loose \subseteq Nat
    /\ watched \subseteq Nat

LEMMA TypeParts ==
    TypeOK <=> /\ BooksType /\ SendsType /\ RestType
               /\ next_id \in 1..(MaxTransId + 1)
               /\ replies \in [Calls -> Seq(Reply)]
BY DEF TypeOK, BooksType, SendsType, RestType, Entries, Reply

LEMMA HandleLookupType ==
    ASSUME TypeOK, HandleLookup
    PROVE  TypeOK'
<1> DEFINE m == Head(mailbox)
           Typed == /\ BooksType' /\ SendsType'
                    /\ next_id' \in 1..(MaxTransId + 1)
                    /\ replies' \in [Calls -> Seq(Reply)]
<1>1. mailbox # <<>> /\ m \in LookupMessage /\ m.call \in Calls
  <2>1. mailbox # <<>> /\ m.tag \in LookupOps
    BY DEF HandleLookup, Handling
  <2>2. m \in LookupMessage
    BY <2>1, HeadMessage, MessageKinds
  <2> QED  BY <2>1, <2>2 DEF LookupMessage
<1> HIDE DEF m
<1>2. ASSUME lookup_failed(m)
      PROVE  Typed
  BY <1>1, <1>2, LookupFailedType, TypeParts
     DEF lookup_failed, BooksType, SendsType
<1>3. ASSUME handle_get_pid(m), ~lookup_failed(m)
      PROVE  Typed
  <2>1. /\ reply(m.call, Ok({}, FALSE))
        /\ mailbox' = Tail(mailbox)
        /\ UNCHANGED <<timers, next_id, next_ref, send_timeouts,
                       send_timeout_monitors, inflight, monitored>>
    BY <1>3 DEF handle_get_pid
  <2>2. replies' \in [Calls -> Seq(Reply)]
    BY <1>1, <2>1, ReplyType, ReplyValues
  <2> QED  BY <1>1, <2>1, <2>2, HeadMessage, TypeParts
           DEF BooksType, SendsType
<1>4. ASSUME NEW type \in {"active", "passive"},
             \E p \in UNION Members(m.timeout) :
                timeout_start(type, m.timeout, [t \in {next_id} |-> p],
                              Undefined),
             Issue(1), reply(m.call, Ok({next_id}, FALSE))
      PROVE  Typed
  <2>1. BooksType' /\ SendsType' /\ next_id' \in 1..(MaxTransId + 1)
        /\ next_id \in TransIds
    BY <1>1, <1>4, LookupOneType
  <2>2. replies' \in [Calls -> Seq(Reply)]
    BY <1>1, <1>4, <2>1, ReplyType, ReplyValues
  <2> QED  BY <2>1, <2>2
<1>5. ASSUME handle_send_sync(m), ~lookup_failed(m)
      PROVE  Typed
  <2>1. /\ \E p \in UNION Members(m.timeout) :
              timeout_start("sync", m.timeout, [t \in {next_id} |-> p],
                            m.call)
        /\ Issue(1) /\ UNCHANGED replies
    BY <1>5 DEF handle_send_sync, send_sync_timeout_start
  <2>2. BooksType' /\ SendsType' /\ next_id' \in 1..(MaxTransId + 1)
    BY <1>1, <2>1, LookupOneType
  <2> QED  BY <2>1, <2>2, TypeParts
<1>6. ASSUME NEW type \in {"active", "passive"},
             \E pids \in UNION {SetToSeqs(S) : S \in Members(m.timeout)} :
                /\ timeout_start(type, m.timeout,
                      [t \in McastIds(pids) |-> pids[t - next_id + 1]],
                      Undefined)
                /\ Issue(Len(pids))
                /\ reply(m.call, Ok(McastIds(pids), FALSE))
      PROVE  Typed
  BY <1>1, <1>6, LookupAllType
<1>7. Typed
  <2>1. \/ handle_get_pid(m) \/ handle_send_async(m)
        \/ handle_send_async_active(m) \/ handle_send_sync(m)
        \/ handle_mcast_async(m) \/ handle_mcast_async_active(m)
    BY DEF HandleLookup, handle_get_pids, m
  <2> HIDE DEF Typed
  <2>2. CASE handle_send_async(m)
    BY <1>2, <1>4, <2>2 DEF handle_send_async, send_async_timeout_start
  <2>3. CASE handle_send_async_active(m)
    BY <1>2, <1>4, <2>3
       DEF handle_send_async_active, send_async_active_timeout_start
  <2>4. CASE handle_mcast_async(m)
    BY <1>2, <1>6, <2>4 DEF handle_mcast_async, send_async_timeout_start
  <2>5. CASE handle_mcast_async_active(m)
    BY <1>2, <1>6, <2>5
       DEF handle_mcast_async_active, send_async_active_timeout_start
  <2> QED  BY <1>2, <1>3, <1>5, <2>1, <2>2, <2>3, <2>4, <2>5
<1>8. RestType'
  BY TypeParts DEF HandleLookup, RestType
<1> QED  BY <1>7, <1>8
         DEF TypeOK, BooksType, SendsType, RestType, Entries, Reply

LEMMA HandlePidType ==
    ASSUME TypeOK, HandlePid
    PROVE  TypeOK'
<1> DEFINE m == Head(mailbox)
<1>1. mailbox # <<>> /\ m \in PidMessage
      /\ m.call \in Calls /\ m.timeout \in Nat /\ m.pid \in Pids
      /\ m.trans \in TransIds \cup {AnyId}
  <2>1. mailbox # <<>> /\ m.tag \in PidOps
    BY DEF HandlePid, Handling
  <2>2. m \in PidMessage
    BY <2>1, HeadMessage, MessageKinds
  <2> QED  BY <2>1, <2>2 DEF PidMessage
<1> HIDE DEF m
<1>2. Issue(1) => next_id \in TransIds /\ next_id' \in 1..(MaxTransId + 1)
  BY SenderAssumption DEF Issue, TransIds, TypeOK
<1>3. BooksType' /\ SendsType' /\ next_id' \in 1..(MaxTransId + 1)
      /\ replies' \in [Calls -> Seq(Reply)]
  <2>1. CASE handle_send_async_pid(m)
    <3>1. timeout_start("passive", m.timeout, [t \in {next_id} |-> m.pid],
                        Undefined)
          /\ Issue(1) /\ reply(m.call, Ok({next_id}, FALSE))
      BY <2>1 DEF handle_send_async_pid, send_async_timeout_start
    <3>2. BooksType' /\ SendsType'
      BY <1>1, <1>2, <3>1, SendOneType
    <3>3. replies' \in [Calls -> Seq(Reply)]
      BY <1>1, <1>2, <3>1, ReplyType, ReplyValues
    <3> QED  BY <1>2, <3>1, <3>2, <3>3
  <2>2. CASE handle_send_async_active_pid(m)
    <3> DEFINE id == IF m.trans = AnyId THEN next_id ELSE m.trans
    <3>1. timeout_start("active", m.timeout, [t \in {id} |-> m.pid],
                        Undefined)
          /\ (IF m.trans = AnyId THEN Issue(1) ELSE UNCHANGED next_id)
          /\ reply(m.call, Ok({id}, FALSE))
      BY <2>2 DEF handle_send_async_active_pid,
                  send_async_active_timeout_start
    <3>2. id \in TransIds /\ next_id' \in 1..(MaxTransId + 1)
      BY <1>1, <1>2, <3>1 DEF TypeOK
    <3> HIDE DEF id
    <3>3. BooksType' /\ SendsType'
      BY <1>1, <3>1, <3>2, SendOneType
    <3>4. replies' \in [Calls -> Seq(Reply)]
      BY <1>1, <3>1, <3>2, ReplyType, ReplyValues
    <3> QED  BY <3>2, <3>3, <3>4
  <2>3. CASE handle_send_sync_pid(m)
    <3>1. timeout_start("sync", m.timeout, [t \in {next_id} |-> m.pid],
                        m.call)
          /\ Issue(1) /\ UNCHANGED replies
      BY <2>3 DEF handle_send_sync_pid, send_sync_timeout_start
    <3>2. BooksType' /\ SendsType'
      BY <1>1, <1>2, <3>1, SendOneType
    <3> QED  BY <1>2, <3>1, <3>2, TypeParts
  <2> QED  BY <2>1, <2>2, <2>3 DEF HandlePid, m
<1>4. RestType'
  BY TypeParts DEF HandlePid, RestType
<1> QED  BY <1>3, <1>4
         DEF TypeOK, BooksType, SendsType, RestType, Entries, Reply

LEMMA HandleMonitorType ==
    ASSUME TypeOK, HandleMonitor
    PROVE  TypeOK'
<1> DEFINE m == Head(mailbox)
<1>1. mailbox # <<>> /\ m \in MonitorMessage /\ m.call \in Calls
      /\ m.pid \in Pids
  <2>1. mailbox # <<>> /\ m.tag = "monitor"
    BY DEF HandleMonitor, Handling
  <2>2. m \in MonitorMessage
    BY <2>1, HeadMessage, MessageKinds
  <2> QED  BY <2>1, <2>2 DEF MonitorMessage
<1> HIDE DEF m
<1>2. replies' \in [Calls -> Seq(Reply)]
  BY <1>1, ReplyType, ReplyValues DEF HandleMonitor, m
<1>3. next_ref' \in Nat \ {0} /\ watched' \subseteq Nat
  BY DEF HandleMonitor, TypeOK
<1>4. monitored' \subseteq [ref : Nat, pid : Pids] /\ IsFiniteSet(monitored')
      /\ mailbox' \in Seq(Message)
  <2>1. CASE m.pid \in alive
    <3>1. monitored' = monitored \cup {[ref |-> next_ref, pid |-> m.pid]}
          /\ mailbox' = Tail(mailbox)
      BY <2>1 DEF HandleMonitor, m
    <3>2. IsFiniteSet({[ref |-> next_ref, pid |-> m.pid]})
      BY FS_Singleton
    <3>3. [ref |-> next_ref, pid |-> m.pid] \in [ref : Nat, pid : Pids]
      BY <1>1 DEF TypeOK
    <3>4. IsFiniteSet(monitored')
      BY <3>1, <3>2, FS_Union DEF TypeOK
    <3> QED  BY <1>1, <3>1, <3>3, <3>4, HeadMessage DEF TypeOK
  <2>2. CASE m.pid \notin alive
    <3>1. mailbox' = Append(Tail(mailbox), Down(next_ref, m.pid))
          /\ UNCHANGED monitored
      BY <2>2 DEF HandleMonitor, m
    <3>2. Down(next_ref, m.pid) \in Message
      BY <1>1, MadeMessages DEF TypeOK
    <3> QED  BY <1>1, <3>1, <3>2, HeadMessage DEF TypeOK
  <2> QED  BY <2>1, <2>2
<1> QED  BY <1>2, <1>3, <1>4 DEF HandleMonitor, TypeOK, Reply

(* A receive that comes back after an interval.                            *)
LEMMA RecvRetryType ==
    ASSUME TypeOK, NEW m \in RecvMessage \cup RecvsMessage,
           m.timeout >= Interval, recv_retry(m)
    PROVE  /\ timers' \subseteq [ref : Nat, msg : Message]
           /\ replies' \in [Calls -> Seq(Reply)]
<1> DEFINE again == [m EXCEPT !.timeout = @ - Interval]
<1>1. again \in RecvMessage \cup RecvsMessage
  BY DEF RecvMessage, RecvsMessage, Interval
<1>2. again \in Message
  BY <1>1 DEF Message
<1>3. timers' = timers \cup {[ref |-> 0, msg |-> again]}
  BY DEF recv_retry
<1> HIDE DEF again
<1>4. timers' \subseteq [ref : Nat, msg : Message]
  BY <1>2, <1>3 DEF TypeOK
<1> QED  BY <1>4 DEF recv_retry, TypeOK, Reply

LEMMA HandleRecvType ==
    ASSUME TypeOK, HandleRecv
    PROVE  TypeOK'
<1> DEFINE m == Head(mailbox)
<1>1. mailbox # <<>> /\ m \in Message /\ m.tag \in RecvOps
  BY HeadMessage DEF HandleRecv, Handling
<1> HIDE DEF m
<1> DEFINE Typed == /\ timers' \subseteq [ref : Nat, msg : Message]
                    /\ replies' \in [Calls -> Seq(Reply)]
                    /\ async_responses' \subseteq TransIds
<1>2. ASSUME m.tag = "recv_async", recv_async(m)
      PROVE  Typed
  <2> DEFINE ids == IF m.trans = AnyId THEN async_responses
                    ELSE async_responses \cap {m.trans}
             pick == recv_async_select_oldest(ids)
  <2>1. m \in RecvMessage /\ m.call \in Calls /\ m.timeout \in Nat
        /\ m.consume \in BOOLEAN
    <3>1. m \in RecvMessage
      BY <1>1, <1>2, MessageKinds
    <3> QED  BY <3>1 DEF RecvMessage
  <2>2. CASE ids = {} /\ m.timeout >= Interval
    <3>1. recv_retry(m) /\ UNCHANGED async_responses
      BY <1>2, <2>1, <2>2 DEF recv_async, Interval
    <3> QED  BY <2>1, <2>2, <3>1, RecvRetryType DEF TypeOK
  <2>3. CASE ids = {} /\ ~(m.timeout >= Interval)
    <3>1. reply(m.call, Error) /\ UNCHANGED <<timers, async_responses>>
      BY <1>2, <2>1, <2>3 DEF recv_async
    <3> QED  BY <2>1, <3>1, ReplyType, ReplyValues DEF TypeOK
  <2>4. CASE ids # {}
    <3>1. reply(m.call, Ok({pick}, m.consume))
          /\ async_responses' \subseteq async_responses /\ UNCHANGED timers
      BY <1>2, <2>4 DEF recv_async
    <3>2. pick \in TransIds
      <4>1. ids \in SUBSET TransIds /\ ids # {}
        BY <2>4 DEF TypeOK
      <4>2. \E a \in ids : \A b \in ids : a <= b
        <5> HIDE DEF ids
        <5>1. ids \in SUBSET Nat
          BY <4>1, SenderAssumption DEF TransIds
        <5> QED  BY <4>1, <5>1, LeastNat
      <4> HIDE DEF ids
      <4> QED  BY <4>1, <4>2 DEF recv_async_select_oldest, Min
    <3> HIDE DEF pick
    <3>3. replies' \in [Calls -> Seq(Reply)]
      BY <2>1, <3>1, <3>2, ReplyType, ReplyValues
    <3> QED  BY <3>1, <3>3 DEF TypeOK
  <2> QED  BY <2>2, <2>3, <2>4
<1>3. ASSUME m.tag = "recv_asyncs", recv_asyncs(m)
      PROVE  Typed
  <2> DEFINE found == recv_asyncs_pick(m)
             again == [m EXCEPT !.found = found]
  <2>1. m \in RecvsMessage /\ m.call \in Calls /\ m.timeout \in Nat
        /\ m.consume \in BOOLEAN /\ found \in SUBSET TransIds
    <3>1. m \in RecvsMessage
      BY <1>1, <1>3, MessageKinds
    <3> QED  BY <3>1 DEF RecvsMessage, recv_asyncs_pick, TypeOK
  <2>2. async_responses' \subseteq TransIds
    <3>1. async_responses' \in {recv_asyncs_left(m), async_responses}
      BY <1>3 DEF recv_asyncs
    <3> QED  BY <3>1 DEF recv_asyncs_left, TypeOK
  <2>3. CASE reply(m.call, Ok(found, m.consume)) /\ UNCHANGED timers
    <3> HIDE DEF found
    <3> QED  BY <2>1, <2>2, <2>3, ReplyType, ReplyValues DEF TypeOK
  <2>4. CASE m.timeout >= Interval /\ recv_retry(again)
    <3>1. again \in RecvsMessage /\ again.timeout >= Interval
      <4> HIDE DEF found
      <4> QED  BY <2>1, <2>4 DEF RecvsMessage
    <3> HIDE DEF again
    <3> QED  BY <2>2, <2>4, <3>1, RecvRetryType
  <2>5. CASE reply(m.call, Error) /\ UNCHANGED timers
    BY <2>1, <2>2, <2>5, ReplyType, ReplyValues DEF TypeOK
  <2> QED  BY <1>3, <2>3, <2>4, <2>5 DEF recv_asyncs
<1>4. Typed
  BY <1>2, <1>3 DEF HandleRecv, m
<1> QED  BY <1>1, <1>4, HeadMessage DEF HandleRecv, TypeOK, Reply

Outcomes == [ref : Nat, kind : {"return", "timeout"}]

(* An active request's message.                                            *)
LEMMA TellType ==
    ASSUME TypeOK, NEW t \in TransIds, NEW kind \in {"return", "timeout"},
           tell(t, kind)
    PROVE  outcome' \in [TransIds -> Seq(Outcomes)]
<1> DEFINE o == [ref |-> send_timeouts[t].tref, kind |-> kind]
<1>1. outcome \in [TransIds -> Seq(Outcomes)]
  BY DEF TypeOK, Outcomes
<1>2. o \in Outcomes
  BY DEF TypeOK, Outcomes
<1>3. outcome' = [outcome EXCEPT ![t] = Append(@, o)]
  BY DEF tell
<1> HIDE DEF o
<1>4. Append(outcome[t], o) \in Seq(Outcomes)
  BY <1>1, <1>2
<1> QED  BY <1>1, <1>3, <1>4

(* Cancelling a timer.                                                     *)
LEMMA CancelType ==
    ASSUME TypeOK, NEW m, NEW ref \in Nat,
           cancel_timer(m, ref) \/ cancel_timer_async(m, ref)
    PROVE  /\ timers' \subseteq timers
           /\ cancelling' \subseteq Nat
           /\ loose' \subseteq Nat
BY DEF cancel_timer, cancel_timer_async, Stopped, Loose, TypeOK

(* A message that finds no request is dropped.                             *)
LEMMA IgnoreType ==
    ASSUME TypeOK, mailbox # <<>>, ignore,
           UNCHANGED <<made, next_ref, next_id, alive, inflight, watched>>
    PROVE  TypeOK'
BY HeadMessage DEF TypeOK, ignore

LEMMA HandleReturnAsyncType ==
    ASSUME TypeOK, HandleReturnAsync
    PROVE  TypeOK'
<1> DEFINE m == Head(mailbox)
           e == send_timeouts[m.trans]
<1>1. mailbox # <<>> /\ m \in ReturnMessage /\ m.trans \in TransIds
      /\ m.timeout \in Nat
      /\ UNCHANGED <<made, next_ref, next_id, alive, inflight, watched>>
  <2>1. mailbox # <<>> /\ m.tag = "return_async"
    BY DEF HandleReturnAsync, Handling
  <2>2. m \in ReturnMessage
    BY <2>1, HeadMessage, MessageKinds
  <2> QED  BY <2>1, <2>2 DEF ReturnMessage, HandleReturnAsync
<1>2. e.tref \in Nat /\ e.pid \in Pids \cup {Undefined}
  BY <1>1 DEF TypeOK
<1>3. CASE e = NoEntry /\ ignore
  BY <1>1, <1>3, IgnoreType
<1>4. CASE /\ \/ e.type = "active" /\ return_async_active(m, e)
              \/ e.type = "passive" /\ return_async_passive(m, e)
           /\ send_timeout_end(m.trans, e.pid)
           /\ UNCHANGED replies
  <2> HIDE DEF m, e
  <2>1. BooksType'
    BY <1>1, <1>2, <1>4, TimeoutEndType
  <2>2. /\ timers' \subseteq [ref : Nat, msg : Message]
        /\ cancelling' \subseteq Nat
        /\ loose' \subseteq Nat
        /\ async_responses' \subseteq TransIds
        /\ outcome' \in [TransIds -> Seq(Outcomes)]
        /\ fate' \in [TransIds -> {"none", "stored", "expired"}]
    <3>1. CASE return_async_active(m, e)
      <4>1. outcome' \in [TransIds -> Seq(Outcomes)]
        <5>1. \E kind \in {"return", "timeout"} : tell(m.trans, kind)
          BY <3>1 DEF return_async_active
        <5> QED  BY <1>1, <5>1, TellType
      <4>2. /\ timers' \subseteq timers /\ cancelling' \subseteq Nat
            /\ loose' \subseteq Nat
        BY <1>2, <3>1, CancelType DEF return_async_active
      <4> QED  BY <3>1, <4>1, <4>2 DEF return_async_active, TypeOK
    <3>2. CASE m.empty /\ return_async_passive(m, e)
      <4>1. cancel_timer_async(m, e.tref)
            /\ UNCHANGED <<async_responses, fate, outcome>>
        BY <3>2 DEF return_async_passive
      <4>2. /\ timers' \subseteq timers /\ cancelling' \subseteq Nat
            /\ loose' \subseteq Nat
        BY <1>2, <4>1, CancelType
      <4> QED  BY <4>1, <4>2 DEF TypeOK, Outcomes
    <3>3. CASE ~m.empty /\ return_async_passive(m, e)
      <4>1. PICK store \in BOOLEAN :
                async_response_timeout_start(m.trans,
                   IF Cancels(m) THEN {e.tref} ELSE {}, store)
        BY <3>3 DEF return_async_passive
      <4>2. /\ loose' \subseteq Nat
            /\ UNCHANGED <<cancelling, outcome>>
        BY <1>2, <3>3 DEF return_async_passive, Loose, TypeOK
      <4>3. timers' \subseteq [ref : Nat, msg : Message]
        <5> DEFINE end == [tag |-> "recv_async_timeout", trans |-> m.trans,
                           ref |-> 0]
        <5>1. end \in Message
          BY <1>1, MadeMessages
        <5> HIDE DEF end
        <5>2. timers' \subseteq timers \cup {[ref |-> 0, msg |-> end]}
          BY <4>1 DEF async_response_timeout_start, Stopped, end
        <5> QED  BY <5>1, <5>2 DEF TypeOK
      <4>4. /\ async_responses' \subseteq TransIds
            /\ fate' \in [TransIds -> {"none", "stored", "expired"}]
        BY <1>1, <4>1 DEF async_response_timeout_start, TypeOK
      <4> QED  BY <4>2, <4>3, <4>4 DEF TypeOK, Outcomes
    <3> QED  BY <1>4, <3>1, <3>2, <3>3
  <2>3. SendsType' /\ RestType'
    BY <1>1, <2>2, TypeParts DEF SendsType, RestType, Outcomes
  <2> QED  BY <1>1, <1>4, <2>1, <2>3, TypeParts
           DEF TypeOK, BooksType, SendsType, RestType, Entries, Reply
<1> QED  BY <1>3, <1>4 DEF HandleReturnAsync

LEMMA HandleReturnSyncType ==
    ASSUME TypeOK, HandleReturnSync
    PROVE  TypeOK'
<1> DEFINE m == Head(mailbox)
           e == send_timeouts[m.trans]
<1>1. mailbox # <<>> /\ m.trans \in TransIds
      /\ UNCHANGED <<made, next_ref, next_id, alive, inflight, watched>>
  <2>1. mailbox # <<>> /\ m.tag = "return_sync"
    BY DEF HandleReturnSync, Handling
  <2>2. m \in ReturnMessage
    BY <2>1, HeadMessage, MessageKinds
  <2> QED  BY <2>1, <2>2 DEF ReturnMessage, HandleReturnSync
<1>2. e.tref \in Nat /\ e.pid \in Pids \cup {Undefined}
      /\ e.client \in Calls \cup {Undefined}
  BY <1>1 DEF TypeOK
<1>3. CASE e = NoEntry /\ ignore
  BY <1>1, <1>3, IgnoreType
<1>4. CASE /\ cancel_timer_async(m, e.tref)
           /\ reply(e.client, IF m.empty THEN Error
                              ELSE Ok({m.trans}, FALSE))
           /\ send_timeout_end(m.trans, e.pid)
           /\ UNCHANGED <<async_responses, outcome, fate>>
  <2> HIDE DEF m, e
  <2>1. BooksType'
    BY <1>1, <1>2, <1>4, TimeoutEndType
  <2>2. timers' \subseteq timers /\ cancelling' \subseteq Nat
        /\ loose' \subseteq Nat
    BY <1>2, <1>4, CancelType
  <2>3. replies' \in [Calls -> Seq(Reply)]
    BY <1>1, <1>2, <1>4, ReplyType, ReplyValues
  <2>4. SendsType' /\ RestType'
    BY <1>1, <1>4, <2>2, TypeParts DEF SendsType, RestType
  <2> QED  BY <1>1, <2>1, <2>3, <2>4
           DEF TypeOK, BooksType, SendsType, RestType, Entries, Reply
<1> QED  BY <1>3, <1>4 DEF HandleReturnSync

LEMMA HandleSendTimeoutType ==
    ASSUME TypeOK, HandleSendAsyncTimeout \/ HandleSendSyncTimeout
    PROVE  TypeOK'
<1> DEFINE t == Head(mailbox).trans
           e == send_timeouts[t]
<1>1. mailbox # <<>> /\ t \in TransIds
      /\ UNCHANGED <<made, next_ref, next_id, alive, inflight, watched>>
  <2>1. mailbox # <<>>
        /\ Head(mailbox).tag \in {"send_async_timeout", "send_sync_timeout"}
    BY DEF HandleSendAsyncTimeout, HandleSendSyncTimeout, Handling
  <2>2. Head(mailbox) \in TimeoutMessage
    BY <2>1, HeadMessage, MessageKinds
  <2> QED  BY <2>1, <2>2
           DEF TimeoutMessage, HandleSendAsyncTimeout, HandleSendSyncTimeout
<1>2. e.tref \in Nat /\ e.pid \in Pids \cup {Undefined}
      /\ e.client \in Calls \cup {Undefined}
  BY <1>1 DEF TypeOK
<1>3. CASE e = NoEntry /\ ignore
  BY <1>1, <1>3, IgnoreType
<1>4. CASE /\ outcome' \in [TransIds -> Seq(Outcomes)]
           /\ replies' \in [Calls -> Seq(Reply)]
           /\ send_timeout_end(t, e.pid)
           /\ loose' = loose \cup Loose(e.tref)
           /\ UNCHANGED <<timers, cancelling, async_responses, fate>>
  <2> HIDE DEF t, e
  <2>1. BooksType'
    BY <1>1, <1>2, <1>4, TimeoutEndType
  <2>2. loose' \subseteq Nat
    BY <1>2, <1>4 DEF Loose, TypeOK
  <2>3. SendsType' /\ RestType'
    BY <1>1, <1>4, <2>2, TypeParts DEF SendsType, RestType, Outcomes
  <2> QED  BY <1>1, <1>4, <2>1, <2>3
           DEF TypeOK, BooksType, SendsType, RestType, Entries, Reply
<1>5. CASE HandleSendAsyncTimeout /\ ~(e = NoEntry /\ ignore)
  <2>1. /\ IF e.type = "active" THEN tell(t, "timeout") ELSE UNCHANGED outcome
        /\ send_timeout_end(t, e.pid)
        /\ loose' = loose \cup Loose(e.tref)
        /\ UNCHANGED <<replies, timers, cancelling, async_responses, fate>>
    BY <1>5 DEF HandleSendAsyncTimeout
  <2>2. outcome' \in [TransIds -> Seq(Outcomes)]
    BY <1>1, <2>1, TellType DEF TypeOK, Outcomes
  <2>3. replies' \in [Calls -> Seq(Reply)]
    BY <2>1 DEF TypeOK, Reply
  <2> QED  BY <1>4, <2>1, <2>2, <2>3
<1>6. CASE HandleSendSyncTimeout /\ ~(e = NoEntry /\ ignore)
  <2>1. /\ reply(e.client, Error)
        /\ send_timeout_end(t, e.pid)
        /\ loose' = loose \cup Loose(e.tref)
        /\ UNCHANGED <<timers, cancelling, async_responses, outcome, fate>>
    BY <1>6 DEF HandleSendSyncTimeout
  <2>2. outcome' \in [TransIds -> Seq(Outcomes)]
    BY <2>1 DEF TypeOK, Outcomes
  <2>3. replies' \in [Calls -> Seq(Reply)]
    BY <1>2, <2>1, ReplyType, ReplyValues
  <2> QED  BY <1>4, <2>1, <2>2, <2>3
<1> QED  BY <1>3, <1>5, <1>6

LEMMA HandleRecvAsyncTimeoutType ==
    ASSUME TypeOK, HandleRecvAsyncTimeout
    PROVE  TypeOK'
<1>1. mailbox # <<>>
  BY DEF HandleRecvAsyncTimeout, Handling
<1>2. fate' \in [TransIds -> {"none", "stored", "expired"}]
      /\ async_responses' \subseteq TransIds
  BY DEF HandleRecvAsyncTimeout, TypeOK
<1> QED  BY <1>1, <1>2, HeadMessage DEF HandleRecvAsyncTimeout, TypeOK

LEMMA HandleDownType ==
    ASSUME TypeOK, HandleDown
    PROVE  TypeOK'
<1> DEFINE m == Head(mailbox)
<1>1. mailbox # <<>> /\ m.pid \in Pids
  <2>1. mailbox # <<>> /\ m.tag = "DOWN"
    BY DEF HandleDown, Handling
  <2>2. m \in DownMessage
    BY <2>1, HeadMessage, MessageKinds
  <2> QED  BY <2>1, <2>2 DEF DownMessage
<1>2. CASE send_timeout_dead(m.pid) /\ UNCHANGED watched
  <2>1. /\ send_timeouts' \in [TransIds -> Entries]
        /\ send_timeout_monitors' \in
              [Pids -> [ref : Nat, ids : SUBSET TransIds]]
        /\ timers' \subseteq timers
        /\ mailbox' \in Seq(Message)
    <3> HIDE DEF m
    <3> QED  BY <1>1, <1>2, TimeoutDeadType
  <2> QED  BY <1>2, <2>1 DEF HandleDown, TypeOK, Entries
<1>3. CASE /\ watched' = watched \ {m.ref}
           /\ mailbox' = Tail(mailbox)
           /\ UNCHANGED <<timers, send_timeouts, send_timeout_monitors>>
  BY <1>1, <1>3, HeadMessage DEF HandleDown, TypeOK
<1> QED  BY <1>2, <1>3 DEF HandleDown

LEMMA TimerType ==
    ASSUME TypeOK, Timer \/ \E ref \in cancelling : TimerCancelled(ref)
    PROVE  TypeOK'
<1>1. CASE Timer
  <2>1. PICK tm \in timers : TimerFires(tm)
    BY <1>1 DEF Timer
  <2>2. tm.msg \in Message
    BY DEF TypeOK
  <2>3. mailbox' \in Seq(Message)
    BY <2>1, <2>2 DEF TimerFires, TypeOK
  <2> QED  BY <2>1, <2>3 DEF TimerFires, TypeOK
<1>2. CASE \E ref \in cancelling : TimerCancelled(ref)
  BY <1>2 DEF TimerCancelled, Stopped, TypeOK
<1> QED  BY <1>1, <1>2

LEMMA DestinationType ==
    ASSUME TypeOK, Destination
    PROVE  TypeOK'
<1> DEFINE Request == [trans : TransIds, pid : Pids, timeout : Nat,
                       sync : BOOLEAN, ref : Nat]
<1>1. ASSUME NEW r \in inflight, NEW T \in Timeouts, NEW empty \in BOOLEAN,
             DestReturn(r, T, empty)
      PROVE  TypeOK'
  <2> DEFINE tag == IF r.sync THEN "return_sync" ELSE "return_async"
             msg == [tag |-> tag, trans |-> r.trans, timeout |-> T,
                     empty |-> empty]
  <2>1. tag \in {"return_async", "return_sync"} /\ r.trans \in TransIds
        /\ T \in Nat
    BY SenderAssumption DEF TypeOK
  <2>2. msg \in Message
    <3> HIDE DEF tag
    <3> QED  BY <2>1, Zenon DEF Message, ReturnMessage
  <2>3. mailbox' = Append(mailbox, msg) /\ inflight' = inflight \ {r}
    BY <1>1 DEF DestReturn
  <2> HIDE DEF msg
  <2>4. mailbox' \in Seq(Message)
    BY <2>2, <2>3 DEF TypeOK
  <2> QED  BY <1>1, <2>3, <2>4 DEF DestReturn, TypeOK
<1>2. ASSUME NEW r \in inflight, NEW p \in Pids, DestForward(r, p)
      PROVE  TypeOK'
  <2> DEFINE moved == [r EXCEPT !.pid = p, !.timeout = @ - Delta]
  <2>1. r \in Request /\ inflight \subseteq Request
    BY DEF TypeOK
  <2>2. ASSUME r.timeout >= Delta
        PROVE  moved \in Request
    <3>1. r.timeout - Delta \in Nat
      BY <2>1, <2>2 DEF Delta
    <3> DEFINE n == r.timeout - Delta
    <3>2. moved = [[r EXCEPT !.pid = p] EXCEPT !.timeout = n]
      BY <2>1
    <3>3. [r EXCEPT !.pid = p] \in Request
      BY <2>1, Zenon
    <3> HIDE DEF n
    <3> QED  BY <3>1, <3>2, <3>3, Zenon DEF n
  <2> HIDE DEF moved
  <2>3. inflight' \subseteq Request
    <3>1. inflight' \subseteq inflight
          \/ (r.timeout >= Delta /\ inflight' \subseteq inflight \cup {moved})
      BY <1>2 DEF DestForward, moved
    <3> HIDE DEF Request
    <3> QED  BY <2>1, <2>2, <3>1
  <2> QED  BY <1>2, <2>3 DEF DestForward, TypeOK
<1>3. ASSUME NEW p \in Pids, DestDie(p)
      PROVE  TypeOK'
  <2> DEFINE S == {x \in monitored : x.pid = p}
  <2>1. PICK downs \in SetToSeqs(S) :
            mailbox' = mailbox \o [i \in DOMAIN downs |-> Down(downs[i].ref, p)]
    BY <1>3 DEF DestDie
  <2>2. downs \in Seq(S)
    <3>1. IsFiniteSet(S)
      BY FS_Subset DEF TypeOK
    <3> QED  BY <2>1, <3>1, Arrangement
  <2>3. \A i \in 1..Len(downs) : Down(downs[i].ref, p) \in Message
    <3>1. \A i \in 1..Len(downs) : downs[i].ref \in Nat
      BY <2>2 DEF TypeOK
    <3> QED  BY <3>1, MadeMessages
  <2>4. [i \in DOMAIN downs |-> Down(downs[i].ref, p)] \in Seq(Message)
    BY <2>2, <2>3
  <2>5. mailbox' \in Seq(Message)
    BY <2>1, <2>4 DEF TypeOK
  <2>6. monitored' \in SUBSET monitored /\ IsFiniteSet(monitored')
    <3>1. monitored' \in SUBSET monitored
      BY <1>3 DEF DestDie
    <3> QED  BY <3>1, FS_Subset DEF TypeOK
  <2> QED  BY <1>3, <2>5, <2>6 DEF DestDie, TypeOK
<1> QED  BY <1>1, <1>2, <1>3, SenderAssumption DEF Destination

-----------------------------------------------------------------------------
(* Initially, and after every step                                         *)

LEMMA InitType == Init => TypeOK
<1> SUFFICES ASSUME Init PROVE TypeOK
  OBVIOUS
<1>1. IsFiniteSet(monitored)
  BY FS_EmptySet DEF Init
<1>2. next_id \in 1..(MaxTransId + 1)
  BY SenderAssumption DEF Init
<1> QED  BY <1>1, <1>2 DEF Init, TypeOK, NoEntry, NoMonitor

LEMMA NextType == TypeOK /\ [Next]_vars => TypeOK'
<1> SUFFICES ASSUME TypeOK, [Next]_vars
             PROVE  TypeOK'
  OBVIOUS
<1>1. CASE UNCHANGED vars
  BY <1>1 DEF vars, TypeOK
<1>2. CASE Next
  BY <1>2, CallerType, HandleLookupType, HandlePidType, HandleMonitorType,
     HandleRecvType, HandleReturnAsyncType, HandleReturnSyncType,
     HandleSendTimeoutType, HandleRecvAsyncTimeoutType, HandleDownType,
     TimerType, DestinationType
     DEF Next, Dispatcher
<1> QED  BY <1>1, <1>2

(* The dispatcher's state has its types in every reachable state, for any  *)
(* calls, destinations, options and bounds: no retry or forward drives a   *)
(* timeout below zero, no bookkeeping step leaves a malformed entry.       *)
THEOREM TypeCorrect == Spec => []TypeOK
<1>1. Init => TypeOK
  BY InitType
<1>2. TypeOK /\ [Next]_vars => TypeOK'
  BY NextType
<1> QED  BY <1>1, <1>2, PTL DEF Spec

-----------------------------------------------------------------------------
(* A watched request is listed under its destination                       *)

(* Starting requests lists each watched one, and unlists none.             *)
LEMMA StartCovers ==
    ASSUME TypeOK, MonitorsCover, NEW type, NEW T, NEW dest, NEW client,
           timeout_start(type, T, dest, client)
    PROVE  MonitorsCover'
<1> SUFFICES ASSUME NEW t \in TransIds, NEW p \in Pids,
                    Pending(t)', send_timeouts'[t].pid = p
             PROVE  t \in send_timeout_monitors'[p].ids
  BY DEF MonitorsCover
<1> DEFINE ts == {u \in DOMAIN dest : dest[u] = p}
           m == send_timeout_monitors[p]
<1>1. m \in [ref : Nat, ids : SUBSET TransIds]
  BY DEF TypeOK
<1>2. send_timeout_monitors'[p].ids =
          IF Watch(T) THEN m.ids \cup ts ELSE m.ids
  <2>1. send_timeout_monitors'[p] =
            IF ~Watch(T) \/ ts = {} THEN m
            ELSE IF m = NoMonitor
                 THEN [ref |-> TimerRef(CHOOSE u \in ts : TRUE, dest),
                       ids |-> ts]
                 ELSE [m EXCEPT !.ids = @ \cup ts]
    BY DEF timeout_start, monitors_start
  <2>2. m = NoMonitor => m.ids = {}
    BY DEF NoMonitor
  <2> HIDE DEF m, ts
  <2> QED  BY <1>1, <2>1, <2>2
<1>3. CASE t \in DOMAIN dest
  <2>1. send_timeouts'[t].pid = IF Watch(T) THEN dest[t] ELSE Undefined
    BY <1>3 DEF timeout_start
  <2>2. Watch(T) /\ dest[t] = p
    BY <2>1, SenderAssumption
  <2> QED  BY <1>2, <1>3, <2>2
<1>4. CASE t \notin DOMAIN dest
  <2>1. send_timeouts'[t] = send_timeouts[t]
    BY <1>4 DEF timeout_start
  <2>2. t \in m.ids
    BY <2>1 DEF MonitorsCover, Pending
  <2> QED  BY <1>2, <2>2
<1> QED  BY <1>3, <1>4

(* Ending a request unlists that request only.                             *)
LEMMA EndCovers ==
    ASSUME TypeOK, MonitorsCover, NEW t \in TransIds,
           NEW p \in Pids \cup {Undefined}, send_timeout_end(t, p)
    PROVE  MonitorsCover'
<1> SUFFICES ASSUME NEW u \in TransIds, NEW q \in Pids,
                    Pending(u)', send_timeouts'[u].pid = q
             PROVE  u \in send_timeout_monitors'[q].ids
  BY DEF MonitorsCover
<1>1. send_timeouts' = [send_timeouts EXCEPT ![t] = NoEntry]
  BY DEF send_timeout_end, forget
<1>2. u # t /\ send_timeouts'[u] = send_timeouts[u]
  BY <1>1 DEF Pending, TypeOK
<1>3. u \in send_timeout_monitors[q].ids
  BY <1>2 DEF MonitorsCover, Pending
<1>4. CASE q # p
  <2>1. send_timeout_monitors'[q] = send_timeout_monitors[q]
    BY <1>4 DEF send_timeout_end, TypeOK
  <2> QED  BY <1>3, <2>1
<1>5. CASE q = p
  <2> DEFINE m == send_timeout_monitors[p]
  <2>1. p \in Pids /\ m \in [ref : Nat, ids : SUBSET TransIds]
        /\ p # Undefined
    BY <1>5, SenderAssumption DEF TypeOK
  <2>2. send_timeout_monitors'[p] = IF m = NoMonitor THEN m
                                    ELSE unlist(m, t)
    BY <2>1 DEF send_timeout_end, TypeOK
  <2>3. u \in unlist(m, t).ids
    <3> HIDE DEF m
    <3>1. u \in m.ids
      BY <1>3, <1>5 DEF m
    <3> QED  BY <1>2, <2>1, <3>1 DEF unlist
  <2> QED  BY <1>3, <1>5, <2>2, <2>3
<1> QED  BY <1>4, <1>5

(* A death unlists the requests of one destination, and stops watching     *)
(* them.                                                                   *)
LEMMA DeadCovers ==
    ASSUME TypeOK, MonitorsCover, NEW p \in Pids, send_timeout_dead(p)
    PROVE  MonitorsCover'
<1> SUFFICES ASSUME NEW u \in TransIds, NEW q \in Pids,
                    Pending(u)', send_timeouts'[u].pid = q
             PROVE  u \in send_timeout_monitors'[q].ids
  BY DEF MonitorsCover
<1> DEFINE ids == {t \in send_timeout_monitors[p].ids :
                      send_timeouts[t] # NoEntry}
<1>1. send_timeouts'[u] =
          IF u \in ids THEN [send_timeouts[u] EXCEPT !.pid = Undefined]
                       ELSE send_timeouts[u]
  BY DEF send_timeout_dead
<1>2. u \notin ids
  <2>1. u \in ids => send_timeouts'[u].pid = Undefined
    BY <1>1 DEF TypeOK
  <2> QED  BY <2>1, SenderAssumption
<1>3. Pending(u) /\ u \in send_timeout_monitors[q].ids
  BY <1>1, <1>2 DEF MonitorsCover, Pending
<1>4. q # p
  BY <1>2, <1>3 DEF Pending
<1> QED  BY <1>3, <1>4 DEF send_timeout_dead, TypeOK

(* Every step starts requests, ends one, or buries a destination, or       *)
(* leaves the bookkeeping alone.                                           *)
BookStep ==
    \/ UNCHANGED <<send_timeouts, send_timeout_monitors>>
    \/ \E type, T, dest, client : timeout_start(type, T, dest, client)
    \/ \E t \in TransIds, p \in Pids \cup {Undefined} : send_timeout_end(t, p)
    \/ \E p \in Pids : send_timeout_dead(p)

LEMMA BookSteps ==
    ASSUME TypeOK, Next
    PROVE  BookStep
<1>1. CASE Caller \/ Timer \/ Destination
           \/ \E ref \in cancelling : TimerCancelled(ref)
  BY <1>1 DEF BookStep, Caller, CallLookup, CallPid, CallMonitor,
     CallRecvAsync, CallRecvAsyncs, call, Timer, TimerFires, Destination,
     DestReturn, DestForward, DestDie, TimerCancelled
<1>2. CASE HandleLookup
  <2> DEFINE m == Head(mailbox)
  <2>1. \/ lookup_failed(m) \/ handle_get_pid(m) \/ handle_send_async(m)
        \/ handle_send_async_active(m) \/ handle_send_sync(m)
        \/ handle_mcast_async(m) \/ handle_mcast_async_active(m)
    BY <1>2 DEF HandleLookup, handle_get_pids
  <2> HIDE DEF m
  <2>2. lookup_failed(m) => BookStep
    BY DEF lookup_failed, BookStep
  <2>3. handle_get_pid(m) => BookStep
    BY <2>2 DEF handle_get_pid, BookStep
  <2>4. handle_send_async(m) => BookStep
    BY <2>2, Zenon DEF handle_send_async, send_async_timeout_start, BookStep
  <2>5. handle_send_async_active(m) => BookStep
    BY <2>2, Zenon DEF handle_send_async_active,
       send_async_active_timeout_start, BookStep
  <2>6. handle_send_sync(m) => BookStep
    BY <2>2, Zenon DEF handle_send_sync, send_sync_timeout_start, BookStep
  <2>7. handle_mcast_async(m) => BookStep
    BY <2>2, Zenon DEF handle_mcast_async, send_async_timeout_start, BookStep
  <2>8. handle_mcast_async_active(m) => BookStep
    BY <2>2, Zenon DEF handle_mcast_async_active,
       send_async_active_timeout_start, BookStep
  <2> QED  BY <2>1, <2>2, <2>3, <2>4, <2>5, <2>6, <2>7, <2>8
<1>3. CASE HandlePid
  <2>1. \E type, T, dest, client : timeout_start(type, T, dest, client)
    BY <1>3, Zenon DEF HandlePid, handle_send_async_pid,
       handle_send_async_active_pid, handle_send_sync_pid,
       send_async_timeout_start, send_async_active_timeout_start,
       send_sync_timeout_start
  <2> QED  BY <2>1 DEF BookStep
<1>4. CASE HandleMonitor \/ HandleRecv \/ HandleRecvAsyncTimeout
  BY <1>4 DEF HandleMonitor, HandleRecv, HandleRecvAsyncTimeout, BookStep
<1>5. CASE HandleReturnAsync \/ HandleReturnSync \/ HandleSendAsyncTimeout
           \/ HandleSendSyncTimeout
  <2> DEFINE m == Head(mailbox)
             e == send_timeouts[m.trans]
  <2>1. ignore \/ send_timeout_end(m.trans, e.pid)
    BY <1>5 DEF HandleReturnAsync, HandleReturnSync, HandleSendAsyncTimeout,
                HandleSendSyncTimeout
  <2>2. m.trans \in TransIds
    <3>1. mailbox # <<>>
          /\ m.tag \in {"return_async", "return_sync", "send_async_timeout",
                        "send_sync_timeout"}
      BY <1>5 DEF HandleReturnAsync, HandleReturnSync,
         HandleSendAsyncTimeout, HandleSendSyncTimeout, Handling
    <3>2. m \in ReturnMessage \cup TimeoutMessage
      BY <3>1, HeadMessage, MessageKinds
    <3> QED  BY <3>2 DEF ReturnMessage, TimeoutMessage
  <2>3. e.pid \in Pids \cup {Undefined}
    BY <2>2 DEF TypeOK
  <2>4. ignore => BookStep
    BY DEF ignore, BookStep
  <2> HIDE DEF m, e
  <2> QED  BY <2>1, <2>2, <2>3, <2>4 DEF BookStep
<1>6. CASE HandleDown
  <2>1. Head(mailbox).pid \in Pids
    <3>1. mailbox # <<>> /\ Head(mailbox).tag = "DOWN"
      BY <1>6 DEF HandleDown, Handling
    <3>2. Head(mailbox) \in DownMessage
      BY <3>1, HeadMessage, MessageKinds
    <3> QED  BY <3>2 DEF DownMessage
  <2> QED  BY <1>6, <2>1 DEF HandleDown, BookStep
<1> QED  BY <1>1, <1>2, <1>3, <1>4, <1>5, <1>6 DEF Next, Dispatcher

(* A request sent with a monitor stays listed under its destination until  *)
(* it ends or the destination's death ends it: whatever the order of       *)
(* responses, timeouts, deaths and further requests to the same process,   *)
(* send_timeout_end and send_timeout_dead never lose one of the others.    *)
THEOREM WatchedRequestListed == Spec => []MonitorsCover
<1>1. Init => MonitorsCover
  BY DEF Init, MonitorsCover, Pending
<1>2. TypeOK /\ MonitorsCover /\ [Next]_vars => MonitorsCover'
  <2> SUFFICES ASSUME TypeOK, MonitorsCover, [Next]_vars
               PROVE  MonitorsCover'
    OBVIOUS
  <2>1. BookStep
    BY BookSteps DEF vars, BookStep
  <2>2. CASE UNCHANGED <<send_timeouts, send_timeout_monitors>>
    BY <2>2 DEF MonitorsCover, Pending
  <2> QED  BY <2>1, <2>2, StartCovers, EndCovers, DeadCovers DEF BookStep
<1> QED  BY <1>1, <1>2, TypeCorrect, PTL DEF Spec
=============================================================================
