--------------------- MODULE ServiceSenderRequests_proofs ---------------------
(***************************************************************************)
(* Proofs about ServiceSender, for any number of calls, destinations and   *)
(* transaction ids: a request ends once and by its own response, timer or  *)
(* death; a pending request will end; a call is answered at most once.     *)
(***************************************************************************)
EXTENDS ServiceSender_proofs, SequenceTheorems

-----------------------------------------------------------------------------
(* The mailbox                                                             *)

\* The mailbox after a step: f says where each of its messages was before,
\* beyond the end if it is one of the new messages.  The messages at the
\* places in gone were taken out.
From(f, gone, new) ==
    /\ f \in [1..Len(mailbox') -> Nat \ {0}]
    /\ \A i, j \in 1..Len(mailbox') : i < j => f[i] < f[j]
    /\ \A i \in 1..Len(mailbox') :
          /\ f[i] \notin gone
          /\ IF f[i] <= Len(mailbox) THEN mailbox'[i] = mailbox[f[i]]
                                     ELSE mailbox'[i] \in new
    /\ \A k \in (1..Len(mailbox)) \ gone :
          \E i \in 1..Len(mailbox') : f[i] = k
    /\ \A m \in new : \E i \in 1..Len(mailbox') : mailbox'[i] = m

Mail(gone, new) == \E f : From(f, gone, new)

(* Messages are added behind the others.                                   *)
LEMMA MailAdded ==
    ASSUME TypeOK, NEW s \in Seq(Message), mailbox' = mailbox \o s
    PROVE  Mail({}, {s[i] : i \in 1..Len(s)})
<1> DEFINE f == [i \in 1..Len(mailbox') |-> i]
           new == {s[i] : i \in 1..Len(s)}
<1>1. mailbox \in Seq(Message) /\ Len(mailbox) \in Nat /\ Len(s) \in Nat
  BY DEF TypeOK
<1>2. /\ mailbox' \in Seq(Message) /\ Len(mailbox') = Len(mailbox) + Len(s)
      /\ \A i \in 1..Len(mailbox) : mailbox'[i] = mailbox[i]
      /\ \A i \in 1..Len(s) : mailbox'[Len(mailbox) + i] = s[i]
  BY <1>1
<1>3. \A i \in 1..Len(mailbox') : i > Len(mailbox) =>
         mailbox'[i] = s[i - Len(mailbox)] /\ i - Len(mailbox) \in 1..Len(s)
  BY <1>1, <1>2
<1>4. \A m \in new : \E i \in 1..Len(mailbox') : mailbox'[i] = m
  <2>1. \A i \in 1..Len(s) : Len(mailbox) + i \in 1..Len(mailbox')
    BY <1>1, <1>2
  <2> QED  BY <1>2, <2>1
<1>5. \A i \in 1..Len(mailbox') : f[i] = i
  OBVIOUS
<1>6. f \in [1..Len(mailbox') -> Nat \ {0}]
  BY <1>1, <1>2
<1> HIDE DEF f, new
<1>7. \A i \in 1..Len(mailbox') :
         IF f[i] <= Len(mailbox) THEN mailbox'[i] = mailbox[f[i]]
                                 ELSE mailbox'[i] \in new
  <2>1. \A i \in 1..Len(s) : s[i] \in new
    BY DEF new
  <2> QED  BY <1>1, <1>2, <1>3, <1>5, <2>1
<1>8. \A k \in 1..Len(mailbox) : k \in 1..Len(mailbox') /\ f[k] = k
  BY <1>1, <1>2, <1>5
<1>9. From(f, {}, new)
  BY <1>4, <1>5, <1>6, <1>7, <1>8 DEF From
<1> QED  BY <1>9 DEF Mail, new

(* The first message is taken, others are added behind the rest.           *)
LEMMA MailTaken ==
    ASSUME TypeOK, mailbox # <<>>, NEW s \in Seq(Message),
           mailbox' = Tail(mailbox) \o s
    PROVE  Mail({1}, {s[i] : i \in 1..Len(s)})
<1> DEFINE f == [i \in 1..Len(mailbox') |-> i + 1]
           new == {s[i] : i \in 1..Len(s)}
           w == Tail(mailbox)
<1>1. /\ mailbox \in Seq(Message) /\ Len(mailbox) \in Nat /\ Len(s) \in Nat
      /\ Len(mailbox) >= 1
  BY DEF TypeOK
<1>2. /\ w \in Seq(Message) /\ Len(w) = Len(mailbox) - 1
      /\ \A i \in 1..Len(mailbox) - 1 : w[i] = mailbox[i + 1]
  BY <1>1, HeadTailProperties
<1> HIDE DEF w
<1>3. /\ mailbox' \in Seq(Message) /\ Len(mailbox') = Len(w) + Len(s)
      /\ \A i \in 1..Len(w) : mailbox'[i] = w[i]
      /\ \A i \in 1..Len(s) : mailbox'[Len(w) + i] = s[i]
  <2>1. mailbox' = w \o s
    BY DEF w
  <2> QED  BY <1>1, <1>2, <2>1
<1>4. /\ Len(w) \in Nat /\ Len(mailbox') \in Nat
      /\ Len(mailbox') = Len(mailbox) - 1 + Len(s)
      /\ \A i \in 1..Len(mailbox') : i + 1 <= Len(mailbox) =>
            mailbox'[i] = mailbox[i + 1]
      /\ \A i \in 1..Len(mailbox') : i + 1 > Len(mailbox) =>
            /\ mailbox'[i] = s[i - (Len(mailbox) - 1)]
            /\ i - (Len(mailbox) - 1) \in 1..Len(s)
  BY <1>1, <1>2, <1>3
<1>5. \A m \in new : \E i \in 1..Len(mailbox') : mailbox'[i] = m
  <2>1. \A i \in 1..Len(s) : Len(w) + i \in 1..Len(mailbox')
    BY <1>1, <1>2, <1>3
  <2> QED  BY <1>3, <2>1
<1>6. \A i \in 1..Len(mailbox') : f[i] = i + 1
  OBVIOUS
<1>7. f \in [1..Len(mailbox') -> Nat \ {0}]
  BY <1>4
<1> HIDE DEF f, new
<1>8. \A i \in 1..Len(mailbox') :
         /\ f[i] \notin {1}
         /\ IF f[i] <= Len(mailbox) THEN mailbox'[i] = mailbox[f[i]]
                                    ELSE mailbox'[i] \in new
  <2>1. \A i \in 1..Len(s) : s[i] \in new
    BY DEF new
  <2> QED  BY <1>1, <1>4, <1>6, <2>1
<1>9. \A k \in (1..Len(mailbox)) \ {1} :
         k - 1 \in 1..Len(mailbox') /\ f[k - 1] = k
  BY <1>1, <1>4, <1>6
<1>10. \A i, j \in 1..Len(mailbox') : i < j => f[i] < f[j]
  BY <1>4, <1>6
<1>11. From(f, {1}, new)
  BY <1>5, <1>7, <1>8, <1>9, <1>10 DEF From
<1> QED  BY <1>11 DEF Mail, new

(* The first message is taken, and a DOWN is flushed if there is one.      *)
LEMMA MailFlushed ==
    ASSUME TypeOK, mailbox # <<>>, NEW r, NEW p,
           mailbox' = Flush(Tail(mailbox), r, p)
    PROVE  \/ /\ Mail({1}, {})
              /\ \A i \in 1..Len(mailbox) : i > 1 => mailbox[i] # Down(r, p)
           \/ \E k \in 2..Len(mailbox) :
                 mailbox[k] = Down(r, p) /\ Mail({1, k}, {})
<1> DEFINE w == Tail(mailbox)
           at == {i \in DOMAIN w : w[i] = Down(r, p)}
<1>1. /\ mailbox \in Seq(Message) /\ Len(mailbox) \in Nat
      /\ Len(mailbox) >= 1
  BY DEF TypeOK
<1>2. /\ w \in Seq(Message) /\ Len(w) = Len(mailbox) - 1
      /\ \A i \in 1..Len(mailbox) - 1 : w[i] = mailbox[i + 1]
      /\ DOMAIN w = 1..Len(w)
  BY <1>1, HeadTailProperties
<1>3. CASE at = {}
  <2>1. mailbox' = w
    BY <1>3 DEF Flush
  <2> HIDE DEF w
  <2>2. \A i \in 1..Len(mailbox) : i > 1 => mailbox[i] # Down(r, p)
    <3>1. ASSUME NEW i \in 1..Len(mailbox), i > 1
          PROVE  mailbox[i] # Down(r, p)
      <4>1. i - 1 \in DOMAIN w /\ w[i - 1] = mailbox[i]
        BY <1>1, <1>2, <3>1
      <4> QED  BY <1>3, <4>1
    <3> QED  BY <3>1
  <2>3. mailbox' = Tail(mailbox) \o <<>>
    BY <1>2, <2>1, ConcatEmptySeq DEF w
  <2>4. <<>> \in Seq(Message) /\ {<<>>[i] : i \in 1..Len(<<>>)} = {}
    OBVIOUS
  <2>5. Mail({1}, {<<>>[i] : i \in 1..Len(<<>>)})
    BY <2>3, <2>4, MailTaken
  <2> QED  BY <2>2, <2>4, <2>5
<1>4. CASE at # {}
  <2>1. PICK k \in 1..Len(w) : w[k] = Down(r, p) /\ mailbox' = RemoveAt(w, k)
    <3> DEFINE k == CHOOSE i \in at : TRUE
    <3>1. mailbox' = RemoveAt(w, k)
      BY <1>4 DEF Flush
    <3>2. k \in at
      BY <1>4
    <3>3. k \in 1..Len(w) /\ w[k] = Down(r, p)
      BY <1>2, <3>2
    <3> HIDE DEF k
    <3> QED  BY <3>1, <3>3
  <2> HIDE DEF w
  <2>2. /\ Len(w) \in Nat /\ k \in Nat /\ k >= 1 /\ k <= Len(w)
    BY <1>1, <1>2
  <2> DEFINE u == SubSeq(w, 1, k - 1)
             v == SubSeq(w, k + 1, Len(w))
  <2>3. /\ u \in Seq(Message) /\ Len(u) = k - 1
        /\ \A i \in 1..k - 1 : u[i] = w[i]
    BY <1>2, <2>2
  <2>4. /\ v \in Seq(Message) /\ Len(v) = Len(w) - k
        /\ \A i \in 1..Len(w) - k : v[i] = w[k + i]
    BY <1>2, <2>2
  <2> HIDE DEF u, v
  <2>5. /\ Len(mailbox') = Len(u) + Len(v)
        /\ \A i \in 1..Len(u) + Len(v) :
              mailbox'[i] = IF i <= Len(u) THEN u[i] ELSE v[i - Len(u)]
    <3>1. mailbox' = u \o v
      BY <2>1 DEF RemoveAt, u, v
    <3>2. u \in Seq(Message) /\ v \in Seq(Message)
      BY <2>3, <2>4
    <3>3. /\ Len(u \o v) = Len(u) + Len(v)
          /\ \A i \in 1..Len(u) + Len(v) :
                (u \o v)[i] = IF i <= Len(u) THEN u[i] ELSE v[i - Len(u)]
      BY <3>2, ConcatProperties
    <3> QED  BY <3>1, <3>3
  <2>6. /\ Len(mailbox') = Len(w) - 1
        /\ \A i \in 1..Len(w) - 1 :
              mailbox'[i] = IF i < k THEN w[i] ELSE w[i + 1]
    <3>1. Len(mailbox') = Len(w) - 1
      <4>1. Len(u) + Len(v) = Len(w) - 1
        BY <2>2, <2>3, <2>4
      <4>2. Len(mailbox') = Len(u) + Len(v)
        BY <2>5
      <4> QED  BY <4>1, <4>2, Zenon
    <3>2. ASSUME NEW i \in 1..Len(w) - 1
          PROVE  mailbox'[i] = IF i < k THEN w[i] ELSE w[i + 1]
      <4>1. mailbox'[i] = IF i <= k - 1 THEN u[i] ELSE v[i - (k - 1)]
        <5>1. Len(u) + Len(v) = Len(w) - 1
          BY <2>2, <2>3, <2>4
        <5>2. mailbox'[i] = IF i <= Len(u) THEN u[i] ELSE v[i - Len(u)]
          BY <2>5, <5>1
        <5> QED  BY <2>3, <5>2
      <4>2. CASE i < k
        BY <2>2, <2>3, <4>1, <4>2
      <4>3. CASE i >= k
        <5>1. /\ i - (k - 1) \in 1..Len(w) - k /\ k + (i - (k - 1)) = i + 1
          BY <2>2, <4>3
        <5> QED  BY <2>2, <2>4, <4>1, <4>3, <5>1
      <4> QED  BY <2>2, <4>2, <4>3
    <3> QED  BY <3>1, <3>2
  <2> DEFINE f == [i \in 1..Len(mailbox') |-> IF i < k THEN i + 1 ELSE i + 2]
  <2>7. /\ \A i \in 1..Len(mailbox') : f[i] = IF i < k THEN i + 1 ELSE i + 2
        /\ f \in [1..Len(mailbox') -> Nat \ {0}]
    BY <2>2, <2>6
  <2> HIDE DEF f
  <2>8. Len(mailbox') = Len(mailbox) - 2
    BY <1>1, <1>2, <2>2, <2>6
  <2>9. ASSUME NEW i \in 1..Len(mailbox')
        PROVE  /\ f[i] \notin {1, k + 1} /\ f[i] <= Len(mailbox)
               /\ mailbox'[i] = mailbox[f[i]]
    <3>1. i \in 1..Len(w) - 1 /\ i \in 1..Len(mailbox) - 1
          /\ i + 1 \in 1..Len(mailbox) - 1
      BY <1>1, <1>2, <2>2, <2>8
    <3>2. w[i] = mailbox[i + 1] /\ w[i + 1] = mailbox[i + 1 + 1]
      BY <1>2, <3>1
    <3> QED  BY <1>1, <2>2, <2>6, <2>7, <2>8, <3>1, <3>2
  <2>10. ASSUME NEW j \in (1..Len(mailbox)) \ {1, k + 1}
         PROVE  \E i \in 1..Len(mailbox') : f[i] = j
    <3>1. CASE j <= k
      <4>1. j - 1 \in 1..Len(mailbox') /\ f[j - 1] = j
        BY <1>1, <1>2, <2>2, <2>7, <2>8, <3>1
      <4> QED  BY <4>1
    <3>2. CASE j > k
      <4>1. j - 2 \in 1..Len(mailbox') /\ f[j - 2] = j
        BY <1>1, <1>2, <2>2, <2>7, <2>8, <3>2
      <4> QED  BY <4>1
    <3> QED  BY <2>2, <3>1, <3>2
  <2>11. \A i, j \in 1..Len(mailbox') : i < j => f[i] < f[j]
    BY <1>1, <2>2, <2>7, <2>8
  <2>12. From(f, {1, k + 1}, {})
    BY <2>7, <2>9, <2>10, <2>11 DEF From
  <2>13. k + 1 \in 2..Len(mailbox) /\ mailbox[k + 1] = Down(r, p)
    BY <1>1, <1>2, <2>1, <2>2
  <2> QED  BY <2>12, <2>13 DEF Mail
<1> QED  BY <1>3, <1>4

-----------------------------------------------------------------------------
(* The steps, by their effect                                              *)

SendTimeouts == {"send_async_timeout", "send_sync_timeout"}

\* A callback makes the call c.
Called(c, msg) ==
    /\ call(c, msg)
    /\ c \in Calls /\ msg \in Message /\ msg.tag \in Ops /\ msg.call = c
    /\ msg.tag \in PidOps /\ msg.trans # AnyId =>
          msg.tag = "send_async_active_pid" /\ Reusable(msg.trans)
    /\ msg.tag = "recv_asyncs" => msg.found = {}

\* Requests with the ids a..b are sent, new ones or one that is used again.
Started(type, T, a, b, dest, client) ==
    /\ Handling(LookupOps \cup PidOps)
    /\ type \in {"active", "passive", "sync"} /\ T \in Nat
    /\ a \in TransIds /\ b \in TransIds /\ a <= b
    /\ dest \in [a..b -> Pids]
    /\ \A t, u \in a..b : dest[t] = dest[u] => t = u
    /\ timeout_start(type, T, dest, client)
    /\ \/ a = next_id /\ next_id' = b + 1
       \/ /\ Head(mailbox).tag = "send_async_active_pid"
          /\ Head(mailbox).trans = a
          /\ a = b /\ type = "active" /\ next_id' = next_id
    /\ IF type = "sync"
       THEN a = b /\ client = Head(mailbox).call /\ UNCHANGED replies
       ELSE /\ client = Undefined
            /\ \E ids \in SUBSET TransIds :
                  reply(Head(mailbox).call, Ok(ids, FALSE))
    /\ UNCHANGED <<made, cancelling, async_responses, alive, outcome,
                   fate, loose, watched>>

\* A name lookup that sends nothing: it is answered, or done again later.
LookedUp ==
    /\ Handling(LookupOps)
    /\ \/ /\ \E v \in Reply : ~v.consume /\ reply(Head(mailbox).call, v)
          /\ UNCHANGED timers
       \/ /\ \E T \in Nat :
                timers' = timers \cup
                   {[ref |-> 0, msg |-> [Head(mailbox) EXCEPT !.timeout = T]]}
          /\ UNCHANGED replies
    /\ mailbox' = Tail(mailbox)
    /\ UNCHANGED <<made, cancelling, next_ref, next_id, send_timeouts,
                   send_timeout_monitors, async_responses, alive, inflight,
                   monitored, outcome, fate, loose, watched>>

\* The request t ends: its timer is stopped, or left running.
Ended(t, stop, store) ==
    LET e == send_timeouts[t]
    IN  /\ Handling({"return_async", "return_sync"} \cup SendTimeouts)
        /\ Head(mailbox).trans = t /\ t \in TransIds /\ Pending(t)
        /\ send_timeout_end(t, e.pid)
        /\ timers' =
              (IF stop THEN Stopped({e.tref}) ELSE timers) \cup
              (IF store THEN {[ref |-> 0, msg |-> [tag |-> "recv_async_timeout",
                                                   trans |-> t, ref |-> 0]]}
                        ELSE {})
        /\ loose' = IF stop THEN loose ELSE loose \cup Loose(e.tref)
        /\ cancelling' \in {cancelling, cancelling \cup Loose(e.tref)}
        /\ UNCHANGED outcome \/ \E kind \in {"return", "timeout"} : tell(t, kind)
        /\ \/ UNCHANGED replies
           \/ \E v \in Reply : ~v.consume /\ reply(e.client, v)
        /\ IF store THEN /\ e.type = "passive"
                         /\ async_responses' = async_responses \cup {t}
                         /\ fate' = [fate EXCEPT ![t] = "stored"]
                    ELSE UNCHANGED <<async_responses, fate>>
        /\ UNCHANGED <<made, next_ref, next_id, alive, inflight, watched>>

\* A response or a timeout for a request that ended before.
Ignored ==
    /\ Handling({"return_async", "return_sync"} \cup SendTimeouts)
    /\ Head(mailbox).trans \in TransIds /\ ~Pending(Head(mailbox).trans)
    /\ ignore
    /\ UNCHANGED <<made, next_ref, next_id, alive, inflight, watched>>

Kinds ==
    \/ \E c, msg : Called(c, msg)
    \/ \E type, T, a, b, dest, client : Started(type, T, a, b, dest, client)
    \/ LookedUp \/ HandleMonitor \/ HandleRecv \/ HandleRecvAsyncTimeout
    \/ \E t : \E stop, store \in BOOLEAN : Ended(t, stop, store)
    \/ Ignored \/ HandleDown
    \/ Timer \/ Destination \/ \E ref \in cancelling : TimerCancelled(ref)

(* A call of the service interface.                                        *)
LEMMA CallerKind ==
    ASSUME TypeOK, Caller
    PROVE  \E c, msg : Called(c, msg)
<1>1. ASSUME NEW c \in SendCalls, CallLookup(c)
      PROVE  \E msg : Called(c, msg)
  <2>1. PICK op \in Ops \cap LookupOps, T \in Timeouts, allowed \in BOOLEAN :
            call(c, [tag |-> op, call |-> c, timeout |-> T,
                     allowed |-> allowed])
    BY <1>1 DEF CallLookup
  <2> DEFINE msg == [tag |-> op, call |-> c, timeout |-> T,
                     allowed |-> allowed]
  <2>2. msg \in LookupMessage /\ msg.tag = op /\ msg.call = c
    BY SenderAssumption DEF LookupMessage, Calls
  <2>3. op \notin PidOps /\ op # "recv_asyncs"
    BY DEF LookupOps, PidOps
  <2> HIDE DEF msg
  <2>4. call(c, msg)
    BY <2>1 DEF msg
  <2> QED  BY <2>2, <2>3, <2>4 DEF Called, Message, Calls
<1>2. ASSUME NEW c \in SendCalls, CallPid(c)
      PROVE  \E msg : Called(c, msg)
  <2>1. PICK op \in Ops \cap PidOps, T \in Timeouts, p \in Pids,
             t \in {AnyId} \cup {u \in TransIds : Reusable(u)} :
            /\ t # AnyId => op = "send_async_active_pid"
            /\ call(c, [tag |-> op, call |-> c, timeout |-> T, pid |-> p,
                        trans |-> t])
    BY <1>2 DEF CallPid
  <2> DEFINE msg == [tag |-> op, call |-> c, timeout |-> T, pid |-> p,
                     trans |-> t]
  <2>2. msg \in PidMessage /\ msg.tag = op /\ msg.call = c /\ msg.trans = t
    BY SenderAssumption DEF PidMessage, Calls
  <2>3. op # "recv_asyncs"
    BY DEF PidOps
  <2> HIDE DEF msg
  <2>4. call(c, msg)
    BY <2>1 DEF msg
  <2>5. t # AnyId => Reusable(t)
    OBVIOUS
  <2> QED  BY <2>1, <2>2, <2>3, <2>4, <2>5 DEF Called, Message, Calls
<1>3. ASSUME NEW c \in SendCalls, CallMonitor(c)
      PROVE  \E msg : Called(c, msg)
  <2>1. PICK p \in Pids :
            "monitor" \in Ops
            /\ call(c, [tag |-> "monitor", call |-> c, pid |-> p])
    BY <1>3 DEF CallMonitor
  <2> DEFINE msg == [tag |-> "monitor", call |-> c, pid |-> p]
  <2>2. msg \in MonitorMessage /\ msg.tag = "monitor" /\ msg.call = c
    BY DEF MonitorMessage, Calls
  <2> HIDE DEF msg
  <2>4. call(c, msg)
    BY <2>1 DEF msg
  <2> QED  BY <2>1, <2>2, <2>4 DEF Called, Message, Calls, PidOps
<1>4. ASSUME NEW c \in RecvCalls, CallRecvAsync(c)
      PROVE  \E msg : Called(c, msg)
  <2>1. PICK T \in Timeouts, consume \in BOOLEAN, t \in 0..(next_id - 1) :
            /\ "recv_async" \in Ops
            /\ call(c, [tag |-> "recv_async", call |-> c, timeout |-> T,
                        consume |-> consume, trans |-> t])
    BY <1>4 DEF CallRecvAsync
  <2> DEFINE msg == [tag |-> "recv_async", call |-> c, timeout |-> T,
                     consume |-> consume, trans |-> t]
  <2>2. t \in TransIds \cup {AnyId}
    BY SenderAssumption DEF TransIds, AnyId, TypeOK
  <2>3. msg \in RecvMessage /\ msg.tag = "recv_async" /\ msg.call = c
    BY <2>2, SenderAssumption DEF RecvMessage, Calls
  <2> HIDE DEF msg
  <2>4. call(c, msg)
    BY <2>1 DEF msg
  <2> QED  BY <2>1, <2>3, <2>4 DEF Called, Message, Calls, PidOps
<1>5. ASSUME NEW c \in RecvCalls, CallRecvAsyncs(c)
      PROVE  \E msg : Called(c, msg)
  <2>1. PICK T \in Timeouts, consume \in BOOLEAN,
             ids \in (SUBSET (1..(next_id - 1))) \ {{}} :
            /\ "recv_asyncs" \in Ops
            /\ call(c, [tag |-> "recv_asyncs", call |-> c, timeout |-> T,
                        consume |-> consume, results |-> ids, found |-> {}])
    BY <1>5 DEF CallRecvAsyncs
  <2> DEFINE msg == [tag |-> "recv_asyncs", call |-> c, timeout |-> T,
                     consume |-> consume, results |-> ids, found |-> {}]
  <2>2. ids \in SUBSET TransIds
    BY SenderAssumption DEF TransIds, TypeOK
  <2>3. msg \in RecvsMessage /\ msg.tag = "recv_asyncs" /\ msg.call = c
        /\ msg.found = {}
    BY <2>2, SenderAssumption DEF RecvsMessage, Calls
  <2> HIDE DEF msg
  <2>4. call(c, msg)
    BY <2>1 DEF msg
  <2> QED  BY <2>1, <2>3, <2>4 DEF Called, Message, Calls, PidOps
<1> QED  BY <1>1, <1>2, <1>3, <1>4, <1>5 DEF Caller

(* A request to one process.                                               *)
LEMMA OneStarted ==
    ASSUME TypeOK, Handling(LookupOps \cup PidOps),
           NEW type \in {"active", "passive", "sync"}, NEW T \in Nat,
           NEW id \in TransIds, NEW p \in Pids, NEW client,
           timeout_start(type, T, [t \in {id} |-> p], client),
           \/ id = next_id /\ Issue(1)
           \/ /\ Head(mailbox).tag = "send_async_active_pid"
              /\ Head(mailbox).trans = id
              /\ type = "active" /\ next_id' = next_id,
           IF type = "sync"
           THEN client = Head(mailbox).call /\ UNCHANGED replies
           ELSE /\ client = Undefined
                /\ reply(Head(mailbox).call, Ok({id}, FALSE)),
           UNCHANGED <<made, cancelling, async_responses, alive, outcome,
                       fate, loose, watched>>
    PROVE  Kinds
<1> DEFINE dest == [t \in {id} |-> p]
<1>1. id \in Nat /\ id..id = {id} /\ id <= id
  BY SenderAssumption DEF TransIds
<1>2. dest \in [id..id -> Pids] /\ \A t, u \in id..id : dest[t] = dest[u] => t = u
  BY <1>1
<1>3. timeout_start(type, T, dest, client)
  OBVIOUS
<1> HIDE DEF dest
<1>4. \/ id = next_id /\ next_id' = id + 1
      \/ /\ Head(mailbox).tag = "send_async_active_pid"
         /\ Head(mailbox).trans = id
         /\ id = id /\ type = "active" /\ next_id' = next_id
  BY DEF Issue
<1>5. IF type = "sync"
      THEN client = Head(mailbox).call /\ UNCHANGED replies
      ELSE /\ client = Undefined
           /\ \E ids \in SUBSET TransIds :
                 reply(Head(mailbox).call, Ok(ids, FALSE))
  <2>1. {id} \in SUBSET TransIds
    OBVIOUS
  <2> QED  BY <2>1
<1>6. Started(type, T, id, id, dest, client)
  BY <1>1, <1>2, <1>3, <1>4, <1>5, Zenon DEF Started
<1> QED  BY <1>6 DEF Kinds

(* A request to every process of a group.                                  *)
LEMMA ManyStarted ==
    ASSUME TypeOK, Handling(LookupOps \cup PidOps), NEW T \in Nat,
           NEW type \in {"active", "passive"},
           NEW pids \in UNION {SetToSeqs(S) : S \in Members(T)},
           timeout_start(type, T,
              [t \in McastIds(pids) |-> pids[t - next_id + 1]], Undefined),
           Issue(Len(pids)),
           reply(Head(mailbox).call, Ok(McastIds(pids), FALSE)),
           UNCHANGED <<made, cancelling, async_responses, alive, outcome,
                       fate, loose, watched>>
    PROVE  Kinds
<1> DEFINE b == next_id + Len(pids) - 1
           dest == [t \in McastIds(pids) |-> pids[t - next_id + 1]]
<1>1. /\ McastIds(pids) \in SUBSET TransIds
      /\ next_id \in McastIds(pids)
      /\ dest \in [McastIds(pids) -> Pids]
      /\ next_id' \in 1..(MaxTransId + 1)
  BY McastDest
<1>2. PICK S \in (SUBSET Pids) \ {{}} : pids \in SetToSeqs(S)
  BY DEF Members
<1>3. IsFiniteSet(S)
  BY SenderAssumption, FS_Subset
<1>4. /\ pids \in Seq(S) /\ Len(pids) \in Nat
      /\ \A i, j \in 1..Len(pids) : pids[i] = pids[j] => i = j
  <2>1. pids \in Seq(S)
    BY <1>2, <1>3, Arrangement
  <2>2. DOMAIN pids = 1..Len(pids) /\ Len(pids) \in Nat
    BY <2>1
  <2>3. \A i, j \in DOMAIN pids : i # j => pids[i] # pids[j]
    BY <1>2 DEF SetToSeqs
  <2> QED  BY <2>1, <2>2, <2>3
<1>5. next_id \in Nat
  BY DEF TypeOK
<1>6. McastIds(pids) = next_id..b /\ b \in Int /\ next_id <= b /\ next_id' = b + 1
  <2>1. McastIds(pids) = next_id..b
    BY DEF McastIds
  <2>2. b \in Int /\ next_id' = b + 1
    BY <1>4, <1>5 DEF Issue
  <2>3. next_id <= b
    BY <1>1, <1>5, <2>1, <2>2
  <2> QED  BY <2>1, <2>2, <2>3
<1>7. next_id \in TransIds /\ b \in TransIds
  <2>1. b \in next_id..b
    BY <1>5, <1>6
  <2> QED  BY <1>1, <1>6, <2>1
<1>8. \A t, u \in next_id..b : dest[t] = dest[u] => t = u
  <2>1. ASSUME NEW t \in next_id..b, NEW u \in next_id..b, dest[t] = dest[u]
        PROVE  t = u
    <3>1. dest[t] = pids[t - next_id + 1] /\ dest[u] = pids[u - next_id + 1]
      BY <1>6
    <3>2. t - next_id + 1 \in 1..Len(pids) /\ u - next_id + 1 \in 1..Len(pids)
      BY <1>4, <1>5
    <3>3. t - next_id + 1 = u - next_id + 1
      BY <1>4, <2>1, <3>1, <3>2
    <3> QED  BY <1>5, <3>3
  <2> QED  BY <2>1
<1>9. timeout_start(type, T, dest, Undefined)
  OBVIOUS
<1>10. dest \in [next_id..b -> Pids]
  BY <1>1, <1>6
<1>11. type # "sync"
  OBVIOUS
<1>12. \E ids \in SUBSET TransIds : reply(Head(mailbox).call, Ok(ids, FALSE))
  BY <1>1
<1> HIDE DEF dest, b
<1>13. Started(type, T, next_id, b, dest, Undefined)
  BY <1>6, <1>7, <1>8, <1>9, <1>10, <1>11, <1>12, Zenon DEF Started
<1> QED  BY <1>13 DEF Kinds

LEMMA LookupKind ==
    ASSUME TypeOK, HandleLookup
    PROVE  Kinds
<1> DEFINE m == Head(mailbox)
<1>1. mailbox # <<>> /\ m \in LookupMessage /\ m.call \in Calls
      /\ m.timeout \in Nat /\ Handling(LookupOps)
      /\ Handling(LookupOps \cup PidOps)
      /\ UNCHANGED <<made, cancelling, async_responses, alive, outcome,
                     fate, loose, watched>>
  <2>1. mailbox # <<>> /\ m.tag \in LookupOps
    BY DEF HandleLookup, Handling
  <2>2. m \in LookupMessage
    BY <2>1, HeadMessage, MessageKinds
  <2> QED  BY <2>1, <2>2 DEF LookupMessage, HandleLookup, Handling
<1>2. ASSUME lookup_failed(m)
      PROVE  Kinds
  <2>1. \/ reply(m.call, Error) /\ UNCHANGED timers
        \/ /\ m.timeout >= Interval
           /\ timers' = timers \cup
                {[ref |-> 0, msg |-> [m EXCEPT !.timeout = @ - Interval]]}
           /\ UNCHANGED replies
    BY <1>2 DEF lookup_failed, lookup_again
  <2>2. /\ mailbox' = Tail(mailbox)
        /\ UNCHANGED <<next_id, next_ref, send_timeouts,
                       send_timeout_monitors, inflight, monitored>>
    BY <1>2 DEF lookup_failed
  <2>3. Error \in Reply /\ ~Error.consume
    BY DEF Error, Reply
  <2>4. m.timeout >= Interval => m.timeout - Interval \in Nat
    BY <1>1 DEF Interval
  <2>5. \/ /\ \E v \in Reply : ~v.consume /\ reply(m.call, v)
           /\ UNCHANGED timers
        \/ /\ \E T \in Nat :
                 timers' = timers \cup
                    {[ref |-> 0, msg |-> [m EXCEPT !.timeout = T]]}
           /\ UNCHANGED replies
    BY <2>1, <2>3, <2>4
  <2>6. LookedUp
    BY <1>1, <2>2, <2>5 DEF LookedUp
  <2> QED  BY <2>6 DEF Kinds
<1>3. ASSUME handle_get_pid(m), ~lookup_failed(m)
      PROVE  Kinds
  <2>1. /\ reply(m.call, Ok({}, FALSE))
        /\ mailbox' = Tail(mailbox)
        /\ UNCHANGED <<timers, next_id, next_ref, send_timeouts,
                       send_timeout_monitors, inflight, monitored>>
    BY <1>3 DEF handle_get_pid
  <2>2. Ok({}, FALSE) \in Reply /\ ~Ok({}, FALSE).consume
    BY DEF Ok, Reply
  <2>3. LookedUp
    BY <1>1, <2>1, <2>2 DEF LookedUp
  <2> QED  BY <2>3 DEF Kinds
<1>4. ASSUME NEW type \in {"active", "passive"},
             \E p \in UNION Members(m.timeout) :
                timeout_start(type, m.timeout, [t \in {next_id} |-> p],
                              Undefined),
             Issue(1), reply(m.call, Ok({next_id}, FALSE))
      PROVE  Kinds
  <2>1. PICK p \in Pids :
          timeout_start(type, m.timeout, [t \in {next_id} |-> p], Undefined)
    BY <1>4 DEF Members
  <2>2. next_id \in TransIds
    BY <1>4, SenderAssumption DEF Issue, TransIds, TypeOK
  <2> QED  BY <1>1, <1>4, <2>1, <2>2, OneStarted
<1>5. ASSUME handle_send_sync(m), ~lookup_failed(m)
      PROVE  Kinds
  <2>1. /\ \E p \in UNION Members(m.timeout) :
              timeout_start("sync", m.timeout, [t \in {next_id} |-> p],
                            m.call)
        /\ Issue(1) /\ UNCHANGED replies
    BY <1>5 DEF handle_send_sync, send_sync_timeout_start
  <2>2. PICK p \in Pids :
          timeout_start("sync", m.timeout, [t \in {next_id} |-> p], m.call)
    BY <2>1 DEF Members
  <2>3. next_id \in TransIds
    BY <2>1, SenderAssumption DEF Issue, TransIds, TypeOK
  <2> QED  BY <1>1, <2>1, <2>2, <2>3, OneStarted
<1>6. ASSUME NEW type \in {"active", "passive"},
             \E pids \in UNION {SetToSeqs(S) : S \in Members(m.timeout)} :
                /\ timeout_start(type, m.timeout,
                      [t \in McastIds(pids) |-> pids[t - next_id + 1]],
                      Undefined)
                /\ Issue(Len(pids))
                /\ reply(m.call, Ok(McastIds(pids), FALSE))
      PROVE  Kinds
  BY <1>1, <1>6, ManyStarted
<1>7. \/ handle_get_pid(m) \/ handle_send_async(m)
      \/ handle_send_async_active(m) \/ handle_send_sync(m)
      \/ handle_mcast_async(m) \/ handle_mcast_async_active(m)
  BY DEF HandleLookup, handle_get_pids
<1> HIDE DEF m, Kinds
<1>8. CASE handle_send_async(m)
  BY <1>2, <1>4, <1>8 DEF handle_send_async, send_async_timeout_start
<1>9. CASE handle_send_async_active(m)
  BY <1>2, <1>4, <1>9
     DEF handle_send_async_active, send_async_active_timeout_start
<1>10. CASE handle_mcast_async(m)
  BY <1>2, <1>6, <1>10 DEF handle_mcast_async, send_async_timeout_start
<1>11. CASE handle_mcast_async_active(m)
  BY <1>2, <1>6, <1>11
     DEF handle_mcast_async_active, send_async_active_timeout_start
<1> QED  BY <1>2, <1>3, <1>5, <1>7, <1>8, <1>9, <1>10, <1>11

LEMMA PidKind ==
    ASSUME TypeOK, HandlePid
    PROVE  Kinds
<1> DEFINE m == Head(mailbox)
<1>1. mailbox # <<>> /\ m \in PidMessage /\ m.tag \in PidOps
      /\ m.call \in Calls /\ m.timeout \in Nat /\ m.pid \in Pids
      /\ m.trans \in TransIds \cup {AnyId}
      /\ Handling(LookupOps \cup PidOps)
      /\ UNCHANGED <<made, cancelling, async_responses, alive, outcome,
                     fate, loose, watched>>
  <2>1. mailbox # <<>> /\ m.tag \in PidOps
    BY DEF HandlePid, Handling
  <2>2. m \in PidMessage
    BY <2>1, HeadMessage, MessageKinds
  <2> QED  BY <2>1, <2>2 DEF PidMessage, HandlePid, Handling
<1>2. Issue(1) => next_id \in TransIds
  BY SenderAssumption DEF Issue, TransIds, TypeOK
<1>3. CASE m.tag = "send_async_pid" /\ handle_send_async_pid(m)
  <2>1. /\ timeout_start("passive", m.timeout, [t \in {next_id} |-> m.pid],
                         Undefined)
        /\ Issue(1) /\ reply(m.call, Ok({next_id}, FALSE))
    BY <1>3 DEF handle_send_async_pid, send_async_timeout_start
  <2> QED  BY <1>1, <1>2, <2>1, OneStarted
<1>4. CASE m.tag = "send_async_active_pid" /\ handle_send_async_active_pid(m)
  <2> DEFINE id == IF m.trans = AnyId THEN next_id ELSE m.trans
  <2>1. /\ timeout_start("active", m.timeout, [t \in {id} |-> m.pid],
                         Undefined)
        /\ IF m.trans = AnyId THEN Issue(1) ELSE UNCHANGED next_id
        /\ reply(m.call, Ok({id}, FALSE))
    BY <1>4 DEF handle_send_async_active_pid, send_async_active_timeout_start
  <2>2. id \in TransIds
    BY <1>1, <1>2, <2>1
  <2>3. \/ id = next_id /\ Issue(1)
        \/ m.trans = id /\ UNCHANGED next_id
    BY <2>1
  <2> HIDE DEF id
  <2> QED  BY <1>1, <1>4, <2>1, <2>2, <2>3, OneStarted
<1>5. CASE m.tag = "send_sync_pid" /\ handle_send_sync_pid(m)
  <2>1. /\ timeout_start("sync", m.timeout, [t \in {next_id} |-> m.pid],
                         m.call)
        /\ Issue(1) /\ UNCHANGED replies
    BY <1>5 DEF handle_send_sync_pid, send_sync_timeout_start
  <2> QED  BY <1>1, <1>2, <2>1, OneStarted
<1> QED  BY <1>3, <1>4, <1>5 DEF HandlePid

(* A message about a request that is pending or was.                       *)
LEMMA EndMessage ==
    ASSUME TypeOK,
           Handling({"return_async", "return_sync"} \cup SendTimeouts)
    PROVE  /\ mailbox # <<>> /\ Head(mailbox).trans \in TransIds
           /\ Head(mailbox).tag \in {"return_async", "return_sync"}
                                       \cup SendTimeouts
<1>1. mailbox # <<>> /\ Head(mailbox).tag \in {"return_async", "return_sync"}
                                       \cup SendTimeouts
  BY DEF Handling
<1>2. Head(mailbox) \in ReturnMessage \cup TimeoutMessage
  BY <1>1, HeadMessage, MessageKinds DEF SendTimeouts
<1> QED  BY <1>1, <1>2 DEF ReturnMessage, TimeoutMessage

LEMMA ReturnAsyncKind ==
    ASSUME TypeOK, HandleReturnAsync
    PROVE  Kinds
<1> DEFINE m == Head(mailbox)
           t == m.trans
           e == send_timeouts[t]
           stored == [ref |-> 0, msg |-> [tag |-> "recv_async_timeout",
                                          trans |-> t, ref |-> 0]]
<1>1. /\ Handling({"return_async", "return_sync"} \cup SendTimeouts)
      /\ UNCHANGED <<made, next_ref, next_id, alive, inflight, watched>>
  BY DEF HandleReturnAsync, Handling
<1>2. t \in TransIds
  BY <1>1, EndMessage
<1> HIDE DEF m
<1> DEFINE Rest(stop, store) ==
              /\ timers' = (IF stop THEN Stopped({e.tref}) ELSE timers)
                             \cup (IF store THEN {stored} ELSE {})
              /\ loose' = IF stop THEN loose ELSE loose \cup Loose(e.tref)
              /\ cancelling' \in {cancelling, cancelling \cup Loose(e.tref)}
              /\ UNCHANGED outcome
                 \/ \E kind \in {"return", "timeout"} : tell(t, kind)
              /\ IF store THEN /\ e.type = "passive"
                               /\ async_responses' = async_responses \cup {t}
                               /\ fate' = [fate EXCEPT ![t] = "stored"]
                          ELSE UNCHANGED <<async_responses, fate>>
<1>3. ASSUME NEW stop \in BOOLEAN, NEW store \in BOOLEAN, Rest(stop, store),
             Pending(t), send_timeout_end(t, e.pid), UNCHANGED replies
      PROVE  Kinds
  <2>1. Ended(t, stop, store)
    BY <1>1, <1>2, <1>3 DEF Ended, m
  <2> QED  BY <2>1 DEF Kinds
<1>4. CASE e = NoEntry /\ ignore
  <2>1. Ignored
    BY <1>1, <1>2, <1>4 DEF Ignored, Pending, m
  <2> QED  BY <2>1 DEF Kinds
<1>5. ASSUME \/ e.type = "active" /\ return_async_active(m, e)
             \/ e.type = "passive" /\ return_async_passive(m, e),
             send_timeout_end(t, e.pid), UNCHANGED replies
      PROVE  Kinds
  <2>1. Pending(t)
    BY <1>5 DEF Pending, NoEntry
  <2>2. \E stop, store \in BOOLEAN : Rest(stop, store)
    <3>1. CASE cancel_timer_async(m, e.tref)
               /\ (UNCHANGED outcome \/ tell(t, "timeout"))
               /\ UNCHANGED <<async_responses, fate>>
      <4>1. Rest(FALSE, FALSE)
        BY <3>1 DEF cancel_timer_async
      <4> QED  BY <4>1
    <3>2. CASE cancel_timer(m, e.tref) /\ tell(t, "return")
               /\ UNCHANGED <<async_responses, fate>>
      <4>1. CASE Cancels(m)
        <5>1. Rest(TRUE, FALSE)
          BY <3>2, <4>1 DEF cancel_timer
        <5> QED  BY <5>1
      <4>2. CASE ~Cancels(m)
        <5>1. Rest(FALSE, FALSE)
          BY <3>2, <4>2 DEF cancel_timer
        <5> QED  BY <5>1
      <4> QED  BY <4>1, <4>2
    <3>3. ASSUME NEW store \in BOOLEAN, e.type = "passive", UNCHANGED outcome,
                 async_response_timeout_start(t,
                    IF Cancels(m) THEN {e.tref} ELSE {}, store),
                 loose' = IF Cancels(m) THEN loose
                          ELSE loose \cup Loose(e.tref),
                 UNCHANGED cancelling
          PROVE  \E stop, st \in BOOLEAN : Rest(stop, st)
      <4>1. CASE Cancels(m)
        <5>1. Rest(TRUE, store)
          BY <3>3, <4>1 DEF async_response_timeout_start
        <5> QED  BY <5>1
      <4>2. CASE ~Cancels(m)
        <5>0. Stopped({}) = timers
          BY DEF Stopped
        <5>1. Rest(FALSE, store)
          BY <3>3, <4>2, <5>0 DEF async_response_timeout_start
        <5> QED  BY <5>1
      <4> QED  BY <4>1, <4>2
    <3> HIDE DEF Rest
    <3>4. CASE return_async_active(m, e)
      BY <3>1, <3>2, <3>4 DEF return_async_active
    <3>5. CASE e.type = "passive" /\ return_async_passive(m, e)
      BY <3>1, <3>3, <3>5 DEF return_async_passive
    <3> QED  BY <1>5, <3>4, <3>5
  <2> HIDE DEF Rest
  <2> QED  BY <1>3, <1>5, <2>1, <2>2
<1> QED  BY <1>4, <1>5 DEF HandleReturnAsync, m

LEMMA EndKind ==
    ASSUME TypeOK, \/ HandleReturnSync \/ HandleSendAsyncTimeout
                   \/ HandleSendSyncTimeout
    PROVE  Kinds
<1> DEFINE m == Head(mailbox)
           t == m.trans
           e == send_timeouts[t]
<1>1. /\ Handling({"return_async", "return_sync"} \cup SendTimeouts)
      /\ UNCHANGED <<made, next_ref, next_id, alive, inflight, watched>>
  BY DEF HandleReturnSync, HandleSendAsyncTimeout, HandleSendSyncTimeout,
         Handling, SendTimeouts
<1>2. t \in TransIds
  BY <1>1, EndMessage
<1> HIDE DEF m
<1>3. CASE e = NoEntry /\ ignore
  <2>1. Ignored
    BY <1>1, <1>2, <1>3 DEF Ignored, Pending, m
  <2> QED  BY <2>1 DEF Kinds
<1>4. ASSUME e # NoEntry, send_timeout_end(t, e.pid), UNCHANGED timers,
             loose' = loose \cup Loose(e.tref),
             cancelling' \in {cancelling, cancelling \cup Loose(e.tref)},
             UNCHANGED outcome \/ tell(t, "timeout"),
             \/ UNCHANGED replies
             \/ \E v \in Reply : ~v.consume /\ reply(e.client, v),
             UNCHANGED <<async_responses, fate>>
      PROVE  Kinds
  <2>1. Pending(t)
    BY <1>4 DEF Pending
  <2>2. Ended(t, FALSE, FALSE)
    BY <1>1, <1>2, <1>4, <2>1 DEF Ended, m
  <2> QED  BY <2>2 DEF Kinds
<1>5. /\ Error \in Reply /\ ~Error.consume
      /\ Ok({t}, FALSE) \in Reply /\ ~Ok({t}, FALSE).consume
  BY <1>2 DEF Error, Ok, Reply
<1> HIDE DEF t, e, Kinds
<1>6. CASE HandleReturnSync
  <2>1. CASE e # NoEntry
    <3>1. /\ cancel_timer_async(m, e.tref)
          /\ reply(e.client, IF m.empty THEN Error ELSE Ok({t}, FALSE))
          /\ send_timeout_end(t, e.pid)
          /\ UNCHANGED <<async_responses, outcome, fate>>
      BY <1>6, <2>1 DEF HandleReturnSync, m, t, e
    <3>2. \E v \in Reply : ~v.consume /\ reply(e.client, v)
      BY <1>5, <3>1
    <3> QED  BY <1>4, <2>1, <3>1, <3>2 DEF cancel_timer_async
  <2>2. CASE e = NoEntry
    BY <1>3, <1>6, <2>2 DEF HandleReturnSync, m, t, e
  <2> QED  BY <2>1, <2>2
<1>7. CASE HandleSendAsyncTimeout
  <2>1. CASE e # NoEntry
    <3>1. /\ UNCHANGED outcome \/ tell(t, "timeout")
          /\ send_timeout_end(t, e.pid)
          /\ loose' = loose \cup Loose(e.tref)
          /\ UNCHANGED <<replies, timers, cancelling, async_responses, fate>>
      BY <1>7, <2>1 DEF HandleSendAsyncTimeout, m, t, e
    <3> QED  BY <1>4, <2>1, <3>1
  <2>2. CASE e = NoEntry
    BY <1>3, <1>7, <2>2 DEF HandleSendAsyncTimeout, m, t, e
  <2> QED  BY <2>1, <2>2
<1>8. CASE HandleSendSyncTimeout
  <2>1. CASE e # NoEntry
    <3>1. /\ reply(e.client, Error)
          /\ send_timeout_end(t, e.pid)
          /\ loose' = loose \cup Loose(e.tref)
          /\ UNCHANGED <<timers, cancelling, async_responses, outcome, fate>>
      BY <1>8, <2>1 DEF HandleSendSyncTimeout, m, t, e
    <3> QED  BY <1>4, <1>5, <2>1, <3>1
  <2>2. CASE e = NoEntry
    BY <1>3, <1>8, <2>2 DEF HandleSendSyncTimeout, m, t, e
  <2> QED  BY <2>1, <2>2
<1> QED  BY <1>6, <1>7, <1>8

(* Every step is of one of the kinds.                                      *)
LEMMA StepKinds ==
    ASSUME TypeOK, Next
    PROVE  Kinds
<1>1. CASE Caller
  BY <1>1, CallerKind DEF Kinds
<1>2. CASE Dispatcher
  <2>1. CASE \/ HandleMonitor \/ HandleRecv \/ HandleRecvAsyncTimeout
             \/ HandleDown
    BY <2>1 DEF Kinds
  <2> QED  BY <1>2, <2>1, LookupKind, PidKind, ReturnAsyncKind, EndKind
           DEF Dispatcher
<1>3. CASE \/ Timer \/ Destination \/ \E ref \in cancelling : TimerCancelled(ref)
  BY <1>3 DEF Kinds
<1> QED  BY <1>1, <1>2, <1>3 DEF Next

-----------------------------------------------------------------------------
(* How requests end                                                        *)

Box == 1..Len(mailbox)

\* The message that the timer of the pending request t delivers.
TimeoutOf(t) ==
    [tag |-> IF send_timeouts[t].type = "sync" THEN "send_sync_timeout"
                                               ELSE "send_async_timeout",
     trans |-> t, ref |-> send_timeouts[t].tref]

\* A pending request has a timer reference of its own, and its timer is
\* neither left over from another request nor being cancelled.
PendingRefs ==
    \A t \in TransIds : Pending(t) =>
        /\ send_timeouts[t].tref \in 1..(next_ref - 1)
        /\ send_timeouts[t].tref \notin loose \cup cancelling
        /\ t < next_id
        /\ \A u \in TransIds :
              Pending(u) /\ send_timeouts[u].tref = send_timeouts[t].tref
                  => u = t

\* A running timer is that of a pending request, left over, or has no
\* reference: lookups, receives and stored responses.
TimerRefs ==
    /\ \A tm \in timers :
          IF tm.msg.tag \in SendTimeouts
          THEN /\ tm.ref = tm.msg.ref
               /\ tm.ref \in loose \/ /\ Pending(tm.msg.trans)
                                      /\ tm.msg = TimeoutOf(tm.msg.trans)
          ELSE tm.ref = 0 /\ tm.msg.tag \notin PidOps \cup {"monitor", "DOWN"}
    /\ loose \cup cancelling \subseteq 1..(next_ref - 1)

\* No two messages about one request, and none about one that is pending.
OutcomeRefs ==
    \A t \in TransIds : \A i \in 1..Len(outcome[t]) :
        /\ outcome[t][i].ref < next_ref
        /\ Pending(t) => outcome[t][i].ref # send_timeouts[t].tref
        /\ \A j \in 1..Len(outcome[t]) :
              outcome[t][i].ref = outcome[t][j].ref => i = j

\* Whatever mentions an id mentions one that was issued.
Issued ==
    /\ \A i \in Box : mailbox[i].tag \in SendTimeouts =>
          mailbox[i].trans < next_id
    /\ \A tm \in timers : tm.msg.tag \in SendTimeouts =>
          tm.msg.trans < next_id
    /\ \A t \in TransIds : outcome[t] # <<>> => t < next_id

\* A call that uses an id again is the only one to do so, the id's earlier
\* request is over, and its timeout message can follow the call only if the
\* timer was left running.
Reuse ==
    \A j \in Box : mailbox[j].tag \in PidOps /\ mailbox[j].trans # AnyId =>
        /\ mailbox[j].tag = "send_async_active_pid"
        /\ ~Pending(mailbox[j].trans)
        /\ mailbox[j].trans < next_id
        /\ \A i \in Box :
              mailbox[i].tag \in PidOps /\ mailbox[i].trans = mailbox[j].trans
                  => i = j
        /\ \A i \in Box :
              /\ i > j /\ mailbox[i].tag = "send_async_timeout"
              /\ mailbox[i].trans = mailbox[j].trans
              => mailbox[i].ref \in loose

Stale ==
    \A i \in Box : mailbox[i].tag = "send_async_timeout" =>
        \/ ~Pending(mailbox[i].trans)
        \/ mailbox[i].ref = send_timeouts[mailbox[i].trans].tref
        \/ mailbox[i].ref \in loose

WillEnd ==
    \A t \in TransIds : Pending(t) =>
        \/ Running(send_timeouts[t].tref)
        \/ \E i \in Box : mailbox[i] = TimeoutOf(t)

Ends == /\ PendingRefs /\ TimerRefs /\ OutcomeRefs /\ Issued
        /\ Reuse /\ Stale /\ WillEnd

\* A step that starts and ends no request: the requests stay as they are,
\* a timer of a pending request stops only when its message is sent, and
\* no other timeout message is sent unless its timer was left running.
QuietTables(new) ==
    /\ \A t \in TransIds :
          /\ Pending(t)' <=> Pending(t)
          /\ send_timeouts'[t].tref = send_timeouts[t].tref
          /\ send_timeouts'[t].type = send_timeouts[t].type
    /\ loose' = loose /\ outcome' = outcome
    /\ next_ref <= next_ref' /\ next_id' = next_id
    /\ cancelling' \subseteq cancelling
    /\ \A tm \in timers' : tm \in timers \/
          /\ tm.ref = 0
          /\ tm.msg.tag \notin SendTimeouts \cup PidOps \cup {"monitor", "DOWN"}
    /\ \A t \in TransIds : Pending(t) /\ Running(send_timeouts[t].tref) =>
          \/ \E tm \in timers' : tm.ref = send_timeouts[t].tref
          \/ TimeoutOf(t) \in new
QuietMail(gone, new) ==
    /\ \A m \in new : m.tag \in SendTimeouts =>
          /\ m.trans \in TransIds /\ m.trans < next_id
          /\ m.ref \in loose \/ /\ Pending(m.trans)
                                /\ m = TimeoutOf(m.trans)
    /\ \A k \in gone \cap Box :
          mailbox[k].tag \in SendTimeouts => ~Pending(mailbox[k].trans)

LEMMA TimeoutOfSame ==
    ASSUME NEW t, send_timeouts'[t].tref = send_timeouts[t].tref,
           send_timeouts'[t].type = send_timeouts[t].type
    PROVE  TimeoutOf(t)' = TimeoutOf(t)
BY DEF TimeoutOf

LEMMA OutcomeType ==
    ASSUME TypeOK, NEW t \in TransIds
    PROVE  /\ outcome[t] \in Seq(Outcomes) /\ Len(outcome[t]) \in Nat
           /\ \A i \in 1..Len(outcome[t]) : outcome[t][i].ref \in Nat
<1>1. outcome[t] \in Seq(Outcomes)
  BY DEF TypeOK, Outcomes
<1>2. \A i \in 1..Len(outcome[t]) : outcome[t][i] \in Outcomes
  BY <1>1
<1> QED  BY <1>1, <1>2 DEF Outcomes

LEMMA EndsQuiet ==
    ASSUME TypeOK, TypeOK', Ends, NEW gone, NEW new, QuietTables(new),
           Mail(gone, new), QuietMail(gone, new)
    PROVE  /\ PendingRefs' /\ TimerRefs' /\ OutcomeRefs' /\ Issued'
           /\ Stale' /\ WillEnd'
<1>1. PICK f : From(f, gone, new)
  BY DEF Mail
<1>2. /\ next_ref \in Nat /\ next_ref' \in Nat /\ next_id \in Nat
      /\ Len(mailbox) \in Nat /\ Len(mailbox') \in Nat
      /\ \A t \in TransIds : send_timeouts[t].tref \in Nat
  BY DEF TypeOK
<1>3. \A t \in TransIds :
         /\ Pending(t)' <=> Pending(t)
         /\ send_timeouts'[t].tref = send_timeouts[t].tref
         /\ TimeoutOf(t)' = TimeoutOf(t)
  BY TimeoutOfSame DEF QuietTables
<1>4. ASSUME NEW i \in 1..Len(mailbox')
      PROVE  \/ /\ f[i] \in Box /\ f[i] \notin gone
                /\ mailbox'[i] = mailbox[f[i]]
             \/ mailbox'[i] \in new
  BY <1>1, <1>2 DEF From, Box
<1>5. PendingRefs'
  BY <1>2, <1>3 DEF PendingRefs, QuietTables, Ends
<1>6. TimerRefs'
  <2>1. loose' \cup cancelling' \subseteq 1..(next_ref' - 1)
    BY <1>2 DEF TimerRefs, QuietTables, Ends
  <2>2. ASSUME NEW tm \in timers', tm.msg.tag \in SendTimeouts
        PROVE  /\ tm.ref = tm.msg.ref
               /\ tm.ref \in loose' \/ /\ Pending(tm.msg.trans)'
                                       /\ tm.msg = TimeoutOf(tm.msg.trans)'
    <3>1. tm \in timers
      BY <2>2 DEF QuietTables
    <3>2. tm.msg \in Message
      BY DEF TypeOK
    <3>3. tm.msg.trans \in TransIds
      BY <2>2, <3>2, MessageKinds DEF SendTimeouts, TimeoutMessage
    <3> QED  BY <1>3, <2>2, <3>1, <3>3 DEF TimerRefs, QuietTables, Ends
  <2>3. ASSUME NEW tm \in timers', tm.msg.tag \notin SendTimeouts
        PROVE  tm.ref = 0 /\ tm.msg.tag \notin PidOps \cup {"monitor", "DOWN"}
    BY <2>3 DEF TimerRefs, QuietTables, Ends
  <2> QED  BY <2>1, <2>2, <2>3 DEF TimerRefs
<1>7. OutcomeRefs'
  <2>1. ASSUME NEW t \in TransIds, NEW i \in 1..Len(outcome[t])
        PROVE  outcome[t][i].ref \in Nat
    BY OutcomeType
  <2>2. outcome' = outcome /\ next_ref <= next_ref'
    BY DEF QuietTables
  <2> QED  BY <1>2, <1>3, <2>1, <2>2 DEF OutcomeRefs, Ends
<1>8. Issued'
  <2>1. \A i \in Box' : mailbox'[i].tag \in SendTimeouts =>
           mailbox'[i].trans < next_id'
    BY <1>4 DEF Issued, QuietMail, QuietTables, Ends, Box
  <2>2. \A tm \in timers' : tm.msg.tag \in SendTimeouts =>
           tm.msg.trans < next_id'
    BY DEF Issued, QuietTables, Ends
  <2>3. \A t \in TransIds : outcome'[t] # <<>> => t < next_id'
    BY DEF Issued, QuietTables, Ends
  <2> QED  BY <2>1, <2>2, <2>3 DEF Issued
<1>9. Stale'
  <2>1. ASSUME NEW i \in 1..Len(mailbox'),
               mailbox'[i].tag = "send_async_timeout"
        PROVE  (\/ ~Pending(mailbox[i].trans)
                \/ mailbox[i].ref = send_timeouts[mailbox[i].trans].tref
                \/ mailbox[i].ref \in loose)'
    <3>1. mailbox'[i] \in Message
      BY DEF TypeOK
    <3>2. PICK t \in TransIds : mailbox'[i].trans = t
      BY <2>1, <3>1, MessageKinds DEF TimeoutMessage
    <3> SUFFICES \/ ~Pending(t)'
                 \/ mailbox'[i].ref = send_timeouts'[t].tref
                 \/ mailbox'[i].ref \in loose'
      BY <3>2 DEF Pending
    <3>3. mailbox'[i].tag \in SendTimeouts
      BY <2>1 DEF SendTimeouts
    <3>4. CASE mailbox'[i] \in new
      <4>1. mailbox'[i] = TimeoutOf(t) =>
               mailbox'[i].ref = send_timeouts[t].tref
        BY DEF TimeoutOf
      <4> QED  BY <1>3, <3>2, <3>3, <3>4, <4>1 DEF QuietMail, QuietTables
    <3>5. CASE f[i] \in Box /\ mailbox'[i] = mailbox[f[i]]
      BY <1>3, <2>1, <3>2, <3>5 DEF Stale, Ends, QuietTables
    <3> QED  BY <1>4, <3>4, <3>5
  <2> QED  BY <2>1 DEF Stale, Box
<1>10. WillEnd'
  <2>1. ASSUME NEW t \in TransIds, Pending(t)
        PROVE  \/ \E tm \in timers' : tm.ref = send_timeouts[t].tref
               \/ \E i \in Box' : mailbox'[i] = TimeoutOf(t)
    <3>1. CASE Running(send_timeouts[t].tref)
      <4>1. CASE TimeoutOf(t) \in new
        BY <1>1, <4>1 DEF From, Box
      <4> QED  BY <2>1, <3>1, <4>1 DEF QuietTables
    <3>2. CASE \E i \in Box : mailbox[i] = TimeoutOf(t)
      <4>1. PICK k \in Box : mailbox[k] = TimeoutOf(t)
        BY <3>2
      <4>2. mailbox[k].tag \in SendTimeouts /\ mailbox[k].trans = t
        BY <4>1 DEF TimeoutOf, SendTimeouts
      <4>3. k \notin gone
        BY <2>1, <4>2 DEF QuietMail
      <4>4. PICK i \in 1..Len(mailbox') : f[i] = k
        BY <1>1, <4>3 DEF From, Box
      <4>5. k <= Len(mailbox)
        BY <1>2 DEF Box
      <4>6. mailbox'[i] = mailbox[k]
        BY <1>1, <4>4, <4>5 DEF From
      <4> QED  BY <4>1, <4>6 DEF Box
    <3> QED  BY <2>1, <3>1, <3>2 DEF WillEnd, Ends
  <2> QED  BY <1>3, <2>1 DEF WillEnd, Running
<1> QED  BY <1>5, <1>6, <1>7, <1>8, <1>9, <1>10

(* The calls that use an id again, in any step that makes no such call.    *)
LEMMA ReuseKept ==
    ASSUME TypeOK, TypeOK', Ends, NEW gone, NEW new, Mail(gone, new),
           \A t \in TransIds : \A j \in Box \ gone :
              mailbox[j].tag \in PidOps /\ mailbox[j].trans = t /\ ~Pending(t)
                 => ~Pending(t)',
           loose \subseteq loose', next_id <= next_id',
           \A m \in new : /\ m.tag \in PidOps => m.trans = AnyId
                          /\ m.tag = "send_async_timeout" =>
                                m.ref \in loose' \/ Pending(m.trans)
    PROVE  Reuse'
<1>1. PICK f : From(f, gone, new)
  BY DEF Mail
<1>2. Len(mailbox) \in Nat /\ Len(mailbox') \in Nat
      /\ next_id \in Nat /\ next_id' \in Nat
  BY DEF TypeOK
<1>3. ASSUME NEW i \in 1..Len(mailbox')
      PROVE  \/ f[i] \in Box \ gone /\ mailbox'[i] = mailbox[f[i]]
             \/ mailbox'[i] \in new
  BY <1>1, <1>2 DEF From, Box
<1>4. ASSUME NEW j \in 1..Len(mailbox'), mailbox'[j].tag \in PidOps,
             NEW t \in TransIds, mailbox'[j].trans = t
      PROVE  /\ mailbox'[j].tag = "send_async_active_pid"
             /\ ~Pending(t)' /\ t < next_id'
             /\ \A i \in 1..Len(mailbox') :
                   mailbox'[i].tag \in PidOps /\ mailbox'[i].trans = t => i = j
             /\ \A i \in 1..Len(mailbox') :
                   /\ i > j /\ mailbox'[i].tag = "send_async_timeout"
                   /\ mailbox'[i].trans = t
                   => mailbox'[i].ref \in loose'
  <2>1. t # AnyId
    BY SenderAssumption DEF TransIds, AnyId
  <2>2. f[j] \in Box /\ f[j] \notin gone /\ mailbox'[j] = mailbox[f[j]]
    BY <1>3, <1>4, <2>1
  <2>3. /\ mailbox[f[j]].tag = "send_async_active_pid"
        /\ ~Pending(t) /\ t < next_id
        /\ \A i \in Box :
              mailbox[i].tag \in PidOps /\ mailbox[i].trans = t => i = f[j]
        /\ \A i \in Box :
              /\ i > f[j] /\ mailbox[i].tag = "send_async_timeout"
              /\ mailbox[i].trans = t
              => mailbox[i].ref \in loose
    <3> DEFINE k == f[j]
    <3>1. k \in Box /\ mailbox[k].tag \in PidOps /\ mailbox[k].trans = t
      BY <1>4, <2>2
    <3> HIDE DEF k
    <3>2. /\ mailbox[k].tag = "send_async_active_pid"
          /\ ~Pending(mailbox[k].trans) /\ mailbox[k].trans < next_id
          /\ \A i \in Box :
                mailbox[i].tag \in PidOps
                /\ mailbox[i].trans = mailbox[k].trans => i = k
          /\ \A i \in Box :
                /\ i > k /\ mailbox[i].tag = "send_async_timeout"
                /\ mailbox[i].trans = mailbox[k].trans
                => mailbox[i].ref \in loose
      BY <2>1, <3>1 DEF Ends, Reuse
    <3>3. mailbox[k].trans = t
      BY <3>1
    <3> QED  BY <3>2, <3>3 DEF k
  <2>4. ~Pending(t)'
    BY <1>4, <2>2, <2>3
  <2>5. ASSUME NEW i \in 1..Len(mailbox'), mailbox'[i].tag \in PidOps,
               mailbox'[i].trans = t
        PROVE  i = j
    <3>1. f[i] \in Box /\ mailbox'[i] = mailbox[f[i]]
      BY <1>3, <2>1, <2>5
    <3>2. f[i] = f[j]
      BY <2>3, <2>5, <3>1
    <3>3. f[i] \in Nat /\ f[j] \in Nat
      BY <2>2, <3>1, <1>2 DEF Box
    <3>4. ~(f[i] < f[j]) /\ ~(f[j] < f[i])
      BY <3>2, <3>3
    <3>5. ~(i < j) /\ ~(j < i)
      BY <1>1, <3>4 DEF From
    <3> QED  BY <3>5, <1>2
  <2>6. ASSUME NEW i \in 1..Len(mailbox'), i > j, mailbox'[i].trans = t,
               mailbox'[i].tag = "send_async_timeout"
        PROVE  mailbox'[i].ref \in loose'
    <3>2. CASE mailbox'[i] \in new
      BY <2>3, <2>6, <3>2
    <3>3. CASE f[i] \in Box /\ mailbox'[i] = mailbox[f[i]]
      <4>1. f[j] < f[i]
        BY <1>1, <1>2, <2>6 DEF From
      <4>2. f[i] > f[j]
        BY <1>2, <2>2, <3>3, <4>1 DEF Box
      <4> QED  BY <1>2, <2>3, <2>6, <3>3, <4>2
    <3> QED  BY <1>3, <3>2, <3>3
  <2>7. t < next_id'
    BY <1>2, <2>3 DEF TransIds
  <2> QED  BY <2>2, <2>3, <2>4, <2>5, <2>6, <2>7
<1>5. ASSUME NEW j \in 1..Len(mailbox'), mailbox'[j].tag \in PidOps,
             mailbox'[j].trans # AnyId
      PROVE  \E t \in TransIds : mailbox'[j].trans = t
  <2>1. mailbox'[j] \in Message
    BY DEF TypeOK
  <2> QED  BY <1>5, <2>1, MessageKinds DEF PidMessage
<1>6. ASSUME NEW j \in Box',
             mailbox'[j].tag \in PidOps /\ mailbox'[j].trans # AnyId
      PROVE  (/\ mailbox[j].tag = "send_async_active_pid"
              /\ ~Pending(mailbox[j].trans)
              /\ mailbox[j].trans < next_id
              /\ \A i \in Box :
                    mailbox[i].tag \in PidOps
                    /\ mailbox[i].trans = mailbox[j].trans => i = j
              /\ \A i \in Box :
                    /\ i > j /\ mailbox[i].tag = "send_async_timeout"
                    /\ mailbox[i].trans = mailbox[j].trans
                    => mailbox[i].ref \in loose)'
  <2>1. PICK t \in TransIds : mailbox'[j].trans = t
    BY <1>5, <1>6 DEF Box
  <2>2. (~Pending(mailbox[j].trans))' <=> ~Pending(t)'
    BY <2>1 DEF Pending
  <2> QED  BY <1>4, <1>6, <2>1, <2>2 DEF Box
<1> QED  BY <1>6 DEF Reuse

-----------------------------------------------------------------------------
(* What the steps do to the mailbox and to the tables                      *)

(* The arrangement of a finite set lists all of it.                        *)
LEMMA ArrangedAll ==
    ASSUME NEW S, IsFiniteSet(S), NEW q \in SetToSeqs(S)
    PROVE  q \in Seq(S) /\ {q[i] : i \in 1..Len(q)} = S
<1> DEFINE D == 1..Cardinality(S)
<1>1. Cardinality(S) \in Nat
  BY FS_CardinalityType
<1>2. q \in [D -> S] /\ \A i, j \in D : q[i] = q[j] => i = j
  BY DEF SetToSeqs
<1>3. q \in Injection(D, S)
  BY <1>2 DEF Injection, IsInjective
<1>4. Cardinality(D) = Cardinality(S)
  <2>1. 1 \in Int /\ Cardinality(S) \in Int /\ 1 <= Cardinality(S) + 1
    BY <1>1
  <2>2. Cardinality(D) = IF 1 > Cardinality(S) THEN 0 ELSE Cardinality(S) - 1 + 1
    BY <1>1, FS_Interval
  <2> QED  BY <1>1, <2>2
<1>5. q \in Surjection(D, S)
  BY <1>3, <1>4, FS_Injection
<1>6. \A x \in S : \E i \in D : q[i] = x
  BY <1>5 DEF Surjection
<1>7. q \in Seq(S) /\ Len(q) = Cardinality(S)
  BY <1>1, <1>2
<1>8. 1..Len(q) = D
  BY <1>7, Zenon
<1> HIDE DEF D
<1> QED  BY <1>2, <1>6, <1>7, <1>8

LEMMA MailSame ==
    ASSUME TypeOK, UNCHANGED mailbox
    PROVE  Mail({}, {})
<1>1. <<>> \in Seq(Message) /\ {<<>>[i] : i \in 1..Len(<<>>)} = {}
  OBVIOUS
<1>2. mailbox' = mailbox \o <<>>
  BY ConcatEmptySeq DEF TypeOK
<1>3. Mail({}, {<<>>[i] : i \in 1..Len(<<>>)})
  BY <1>1, <1>2, MailAdded
<1> QED  BY <1>1, <1>3

LEMMA MailTail ==
    ASSUME TypeOK, mailbox # <<>>, mailbox' = Tail(mailbox)
    PROVE  Mail({1}, {})
<1>1. <<>> \in Seq(Message) /\ {<<>>[i] : i \in 1..Len(<<>>)} = {}
  OBVIOUS
<1>2. mailbox' = Tail(mailbox) \o <<>>
  BY ConcatEmptySeq, HeadMessage
<1>3. Mail({1}, {<<>>[i] : i \in 1..Len(<<>>)})
  BY <1>1, <1>2, MailTaken
<1> QED  BY <1>1, <1>3

LEMMA OneMessage ==
    ASSUME NEW m \in Message
    PROVE  <<m>> \in Seq(Message) /\ {<<m>>[i] : i \in 1..Len(<<m>>)} = {m}
OBVIOUS

LEMMA MailOne ==
    ASSUME TypeOK, NEW m \in Message, mailbox' = Append(mailbox, m)
    PROVE  Mail({}, {m})
<1>1. mailbox' = mailbox \o <<m>>
  BY AppendIsConcat DEF TypeOK
<1>2. Mail({}, {<<m>>[i] : i \in 1..Len(<<m>>)})
  BY <1>1, OneMessage, MailAdded
<1> QED  BY <1>2, OneMessage

LEMMA MailTailOne ==
    ASSUME TypeOK, mailbox # <<>>, NEW m \in Message,
           mailbox' = Append(Tail(mailbox), m)
    PROVE  Mail({1}, {m})
<1>1. mailbox' = Tail(mailbox) \o <<m>>
  BY AppendIsConcat, HeadMessage
<1>2. Mail({1}, {<<m>>[i] : i \in 1..Len(<<m>>)})
  BY <1>1, OneMessage, MailTaken
<1> QED  BY <1>2, OneMessage

(* Several messages, in any order.                                         *)
LEMMA MailTailSet ==
    ASSUME TypeOK, mailbox # <<>>, NEW S \in SUBSET Message, IsFiniteSet(S),
           \E q \in SetToSeqs(S) : mailbox' = Tail(mailbox) \o q
    PROVE  Mail({1}, S)
<1>1. PICK q \in SetToSeqs(S) : mailbox' = Tail(mailbox) \o q
  OBVIOUS
<1>2. q \in Seq(S) /\ {q[i] : i \in 1..Len(q)} = S
  BY <1>1, ArrangedAll
<1>3. q \in Seq(Message)
  BY <1>2
<1>4. Mail({1}, {q[i] : i \in 1..Len(q)})
  BY <1>1, <1>3, MailTaken
<1> QED  BY <1>2, <1>4

\* The references of the requests a..b, in their order.
RefOf(t, a) == next_ref + (t - a)

\* The monitors that starting requests makes, and the DOWN messages of those
\* whose process is dead.
Fresh(T, D, dest) == {t \in D : Watch(T) /\ send_timeout_monitors[dest[t]] = NoMonitor}
Dead(T, a, D, dest) ==
    {Down(RefOf(t, a), dest[t]) : t \in {u \in Fresh(T, D, dest) : dest[u] \notin alive}}

LEMMA StartedIs ==
    ASSUME TypeOK, NEW type, NEW T, NEW a, NEW b, NEW dest, NEW client,
           Started(type, T, a, b, dest, client)
    PROVE  /\ mailbox # <<>> /\ Mail({1}, Dead(T, a, a..b, dest))
           /\ IsFiniteSet(Dead(T, a, a..b, dest))
           /\ \E q \in SetToSeqs(Dead(T, a, a..b, dest)) :
                 mailbox' = Tail(mailbox) \o q
           /\ next_ref' = next_ref + (b - a + 1)
           /\ \A t \in a..b :
                 send_timeouts'[t] =
                    [type |-> type, tref |-> RefOf(t, a),
                     pid |-> IF Watch(T) THEN dest[t] ELSE Undefined,
                     client |-> client]
           /\ \A t \in TransIds \ (a..b) : send_timeouts'[t] = send_timeouts[t]
           /\ timers' = timers \cup
                 {[ref |-> RefOf(t, a),
                   msg |-> [tag |-> IF type = "sync" THEN "send_sync_timeout"
                                                     ELSE "send_async_timeout",
                            trans |-> t, ref |-> RefOf(t, a)]] : t \in a..b}
           /\ monitored' = monitored \cup
                 {[ref |-> RefOf(t, a), pid |-> dest[t]] :
                     t \in {u \in Fresh(T, a..b, dest) : dest[u] \in alive}}
           /\ send_timeout_monitors' = monitors_start(T, dest)
           /\ a..b \subseteq TransIds /\ DOMAIN dest = a..b
           /\ \A t \in a..b : TimerRef(t, dest) = RefOf(t, a)
<1>1. /\ timeout_start(type, T, dest, client)
      /\ a \in TransIds /\ b \in TransIds /\ a <= b
      /\ dest \in [a..b -> Pids] /\ DOMAIN dest = a..b
      /\ mailbox # <<>>
  BY DEF Started, Handling
<1>2. a \in Nat /\ b \in Nat /\ next_ref \in Nat
  BY <1>1 DEF TransIds, TypeOK
<1>3. a..b \subseteq TransIds
  BY <1>1, SenderAssumption DEF TransIds
<1>4. Min(a..b) = a
  <2>1. a..b \in SUBSET Int /\ a \in a..b /\ \A y \in a..b : a <= y
    BY <1>1, <1>2
  <2> QED  BY <2>1, MinLeast
<1>5. \A t \in a..b : TimerRef(t, dest) = RefOf(t, a)
  BY <1>1, <1>4 DEF TimerRef, RefOf
<1>6. next_ref' = next_ref + (b - a + 1)
  <2>1. Cardinality(a..b) = IF a > b THEN 0 ELSE b - a + 1
    BY <1>2, FS_Interval
  <2>2. next_ref' = next_ref + Cardinality(a..b)
    BY <1>1 DEF timeout_start
  <2> QED  BY <1>1, <1>2, <2>1, <2>2
<1>7. /\ \A t \in a..b :
            send_timeouts'[t] =
               [type |-> type, tref |-> RefOf(t, a),
                pid |-> IF Watch(T) THEN dest[t] ELSE Undefined,
                client |-> client]
      /\ \A t \in TransIds \ (a..b) : send_timeouts'[t] = send_timeouts[t]
  BY <1>1, <1>3, <1>5 DEF timeout_start
<1>8. timers' = timers \cup
         {[ref |-> RefOf(t, a),
           msg |-> [tag |-> IF type = "sync" THEN "send_sync_timeout"
                                             ELSE "send_async_timeout",
                    trans |-> t, ref |-> RefOf(t, a)]] : t \in a..b}
  <2> DEFINE tag == IF type = "sync" THEN "send_sync_timeout"
                                     ELSE "send_async_timeout"
             F(t, r) == [ref |-> r, msg |-> [tag |-> tag, trans |-> t, ref |-> r]]
  <2>1. timers' = timers \cup {F(t, TimerRef(t, dest)) : t \in a..b}
    BY <1>1 DEF timeout_start
  <2> HIDE DEF F
  <2>2. {F(t, TimerRef(t, dest)) : t \in a..b} = {F(t, RefOf(t, a)) : t \in a..b}
    BY <1>5
  <2> QED  BY <2>1, <2>2 DEF F
<1> DEFINE up == {u \in Fresh(T, a..b, dest) : dest[u] \in alive}
           down == {u \in Fresh(T, a..b, dest) : dest[u] \notin alive}
<1>9. up \subseteq a..b /\ down \subseteq a..b
  BY DEF Fresh
<1>10. monitored' = monitored \cup {[ref |-> RefOf(t, a), pid |-> dest[t]] : t \in up}
  <2>1. monitored' = monitored \cup {[ref |-> TimerRef(t, dest), pid |-> dest[t]] : t \in up}
    BY <1>1 DEF timeout_start, Fresh
  <2> HIDE DEF up
  <2>2. {[ref |-> TimerRef(t, dest), pid |-> dest[t]] : t \in up}
        = {[ref |-> RefOf(t, a), pid |-> dest[t]] : t \in up}
    BY <1>5, <1>9
  <2> QED  BY <2>1, <2>2
<1>11. /\ Mail({1}, Dead(T, a, a..b, dest))
       /\ IsFiniteSet(Dead(T, a, a..b, dest))
       /\ \E q \in SetToSeqs(Dead(T, a, a..b, dest)) :
             mailbox' = Tail(mailbox) \o q
  <2> DEFINE f == [t \in down |-> Down(RefOf(t, a), dest[t])]
             S == {Down(RefOf(t, a), dest[t]) : t \in down}
  <2>1. S = Dead(T, a, a..b, dest)
    BY DEF Dead
  <2>2. \E q \in SetToSeqs(S) : mailbox' = Tail(mailbox) \o q
    <3>1. \E q \in SetToSeqs({Down(TimerRef(t, dest), dest[t]) : t \in down}) :
             mailbox' = Tail(mailbox) \o q
      BY <1>1 DEF timeout_start, Fresh
    <3> HIDE DEF down
    <3>2. {Down(TimerRef(t, dest), dest[t]) : t \in down} = S
      BY <1>5, <1>9
    <3> QED  BY <3>1, <3>2
  <2>3. S \in SUBSET Message
    <3>1. \A t \in down : RefOf(t, a) \in Nat /\ dest[t] \in Pids
      BY <1>1, <1>2, <1>9 DEF RefOf
    <3> HIDE DEF down
    <3> QED  BY <3>1, MadeMessages
  <2>4. IsFiniteSet(S)
    <3>1. f = [t \in down |-> f[t]] /\ S = {f[t] : t \in down}
      OBVIOUS
    <3>2. IsFiniteSet(down)
      BY <1>3, <1>9, TransIdsFinite
    <3> HIDE DEF f, down, S
    <3> QED  BY <3>1, <3>2, ValuesFinite
  <2> HIDE DEF S
  <2> QED  BY <1>1, <2>1, <2>2, <2>3, <2>4, MailTailSet
<1> QED  BY <1>1, <1>3, <1>5, <1>6, <1>7, <1>8, <1>10, <1>11 DEF timeout_start

\* The requests that the death of p ends, and those among them whose timer
\* has not ended them yet.
Listed(p) == {t \in send_timeout_monitors[p].ids : Pending(t)}
Awaited(p) == {t \in Listed(p) : Running(send_timeouts[t].tref)}

(* A destination's death ends the requests watched on it, by a message.    *)
LEMMA DeadIs ==
    ASSUME TypeOK, mailbox # <<>>, NEW p \in Pids, send_timeout_dead(p)
    PROVE  LET ids == Listed(p)
               now == Awaited(p)
           IN  /\ ids \subseteq TransIds
               /\ \A t \in ids : send_timeouts'[t] =
                     [send_timeouts[t] EXCEPT !.pid = Undefined]
               /\ \A t \in TransIds \ ids : send_timeouts'[t] = send_timeouts[t]
               /\ send_timeout_monitors' =
                     [send_timeout_monitors EXCEPT ![p] = NoMonitor]
               /\ timers' = Stopped({send_timeouts[t].tref : t \in now})
               /\ Mail({1}, {TimeoutOf(t) : t \in now})
<1> DEFINE ids == Listed(p)
           now == Awaited(p)
<1>0. ids \subseteq TransIds /\ now \subseteq TransIds
  BY DEF TypeOK, Listed, Awaited
<1>1. /\ send_timeouts' =
            [t \in TransIds |->
                IF t \in ids THEN [send_timeouts[t] EXCEPT !.pid = Undefined]
                ELSE send_timeouts[t]]
      /\ send_timeout_monitors' = [send_timeout_monitors EXCEPT ![p] = NoMonitor]
      /\ timers' = Stopped({send_timeouts[t].tref : t \in now})
      /\ \E q \in SetToSeqs(timeout_messages(now)) : mailbox' = Tail(mailbox) \o q
  BY DEF send_timeout_dead, Pending, Listed, Awaited
<1> HIDE DEF ids, now
<1> DEFINE S == {TimeoutOf(t) : t \in now}
           f == [t \in now |-> TimeoutOf(t)]
<1>2. timeout_messages(now) = S
  BY DEF timeout_messages, TimeoutOf
<1>3. S \in SUBSET Message
  <2>1. \A t \in now : send_timeouts[t].tref \in Nat /\ t \in TransIds
    BY <1>0 DEF TypeOK
  <2> QED  BY <2>1, MadeMessages DEF TimeoutOf
<1>4. IsFiniteSet(S)
  <2>1. f = [t \in now |-> f[t]] /\ S = {f[t] : t \in now}
    OBVIOUS
  <2>2. IsFiniteSet(now)
    BY <1>0, TransIdsFinite
  <2> HIDE DEF f, S
  <2> QED  BY <2>1, <2>2, ValuesFinite
<1> HIDE DEF S
<1>5. Mail({1}, S)
  BY <1>1, <1>2, <1>3, <1>4, MailTailSet
<1> QED  BY <1>0, <1>1, <1>5 DEF S, ids, now

(* A destination dies: each of its monitors delivers a DOWN.               *)
LEMMA DieIs ==
    ASSUME TypeOK, NEW p \in Pids, DestDie(p)
    PROVE  Mail({}, {Down(x.ref, p) : x \in {y \in monitored : y.pid = p}})
<1> DEFINE S == {y \in monitored : y.pid = p}
<1>1. PICK q \in SetToSeqs(S) :
          mailbox' = mailbox \o [i \in DOMAIN q |-> Down(q[i].ref, p)]
  BY DEF DestDie
<1> DEFINE s == [i \in DOMAIN q |-> Down(q[i].ref, p)]
<1>2. q \in Seq(S) /\ {q[i] : i \in 1..Len(q)} = S
  <2>1. IsFiniteSet(S)
    BY FS_Subset DEF TypeOK
  <2> HIDE DEF S
  <2> QED  BY <1>1, <2>1, ArrangedAll
<1>3. \A i \in 1..Len(q) : Down(q[i].ref, p) \in Message
  <2>1. \A i \in 1..Len(q) : q[i].ref \in Nat
    <3>1. \A x \in S : x.ref \in Nat
      BY DEF TypeOK
    <3> HIDE DEF S
    <3> QED  BY <1>2, <3>1
  <2> QED  BY <2>1, MadeMessages
<1>4. DOMAIN q = 1..Len(q) /\ Len(q) \in Nat
  BY <1>2
<1>5. s \in Seq(Message)
  BY <1>3, <1>4
<1>6. Len(s) = Len(q)
  BY <1>4
<1>7. 1..Len(s) = 1..Len(q)
  BY <1>6, Zenon
<1>8. {s[i] : i \in 1..Len(s)} = {Down(x.ref, p) : x \in S}
  <2>1. \A i \in 1..Len(q) : s[i] = Down(q[i].ref, p) /\ q[i] \in S
    BY <1>2, <1>4
  <2>2. \A x \in S : \E i \in 1..Len(q) : q[i] = x
    BY <1>2
  <2> HIDE DEF S, s
  <2> QED  BY <1>7, <2>1, <2>2
<1>9. mailbox' = mailbox \o s
  BY <1>1
<1> HIDE DEF s
<1>10. Mail({}, {s[i] : i \in 1..Len(s)})
  BY <1>5, <1>9, MailAdded
<1> QED  BY <1>8, <1>10

-----------------------------------------------------------------------------
(* Every step keeps Ends                                                   *)

LEMMA QuietEnds ==
    ASSUME TypeOK, TypeOK', Ends, NEW gone, NEW new, QuietTables(new),
           Mail(gone, new), QuietMail(gone, new),
           \A m \in new : m.tag \in PidOps => m.trans = AnyId
    PROVE  Ends'
<1>1. /\ PendingRefs' /\ TimerRefs' /\ OutcomeRefs' /\ Issued'
      /\ Stale' /\ WillEnd'
  BY EndsQuiet
<1>2. Reuse'
  <2>1. \A t \in TransIds : ~Pending(t) => ~Pending(t)'
    BY DEF QuietTables
  <2>2. loose \subseteq loose' /\ next_id <= next_id'
    BY DEF QuietTables, TypeOK
  <2>3. \A m \in new : m.tag = "send_async_timeout" =>
           m.ref \in loose' \/ Pending(m.trans)
    BY DEF QuietMail, QuietTables, SendTimeouts
  <2> QED  BY <2>1, <2>2, <2>3, ReuseKept
<1> QED  BY <1>1, <1>2 DEF Ends

\* Neither the requests nor their timers are touched.
Apart(gone, new) ==
    /\ UNCHANGED <<send_timeouts, loose, outcome, next_id, cancelling>>
    /\ next_ref <= next_ref' /\ timers \subseteq timers'
    /\ \A tm \in timers' \ timers :
          /\ tm.ref = 0
          /\ tm.msg.tag \notin SendTimeouts \cup PidOps \cup {"monitor", "DOWN"}
    /\ Mail(gone, new)
    /\ \A m \in new : m.tag \notin SendTimeouts
    /\ \A k \in gone \cap Box :
          mailbox[k].tag \in SendTimeouts => ~Pending(mailbox[k].trans)

LEMMA ApartQuiet ==
    ASSUME TypeOK, NEW gone, NEW new, Apart(gone, new)
    PROVE  QuietTables(new) /\ Mail(gone, new) /\ QuietMail(gone, new)
<1>1. \A t \in TransIds : Running(send_timeouts[t].tref) =>
         \E tm \in timers' : tm.ref = send_timeouts[t].tref
  BY DEF Apart, Running
<1>2. \A tm \in timers' : tm \in timers \/
         /\ tm.ref = 0
         /\ tm.msg.tag \notin SendTimeouts \cup PidOps \cup {"monitor", "DOWN"}
  BY DEF Apart
<1> QED  BY <1>1, <1>2 DEF Apart, QuietTables, QuietMail, Pending

LEMMA ApartEnds ==
    ASSUME TypeOK, TypeOK', Ends, NEW gone, NEW new, Apart(gone, new),
           \A m \in new : m.tag \in PidOps => m.trans = AnyId
    PROVE  Ends'
BY ApartQuiet, QuietEnds

(* The message that is handled is neither a timeout nor about a request.   *)
LEMMA HeadGone ==
    ASSUME TypeOK, mailbox # <<>>,
           Head(mailbox).tag \in SendTimeouts => ~Pending(Head(mailbox).trans)
    PROVE  \A k \in {1} \cap Box :
              mailbox[k].tag \in SendTimeouts => ~Pending(mailbox[k].trans)
<1>1. Head(mailbox) = mailbox[1]
  BY DEF TypeOK
<1> QED  BY <1>1

LEMMA CalledEnds ==
    ASSUME TypeOK, TypeOK', Ends, NEW c, NEW msg, Called(c, msg)
    PROVE  Ends'
<1>1. /\ UNCHANGED <<timers, send_timeouts, loose, outcome, next_id,
                     cancelling, next_ref>>
      /\ msg \in Message /\ msg.tag \in AllOps
      /\ mailbox' = Append(mailbox, msg)
  BY SenderAssumption DEF Called, call
<1>2. msg.tag \notin SendTimeouts
  BY <1>1 DEF SendTimeouts, AllOps, LookupOps, PidOps, RecvOps
<1>3. Mail({}, {msg})
  BY <1>1, MailOne
<1>4. Apart({}, {msg})
  BY <1>1, <1>2, <1>3 DEF Apart, TypeOK
<1>5. CASE ~(msg.tag \in PidOps /\ msg.trans # AnyId)
  BY <1>4, <1>5, ApartEnds
<1>6. CASE msg.tag \in PidOps /\ msg.trans # AnyId
  <2>1. msg.tag = "send_async_active_pid" /\ Reusable(msg.trans)
        /\ msg.trans \in TransIds
    BY <1>1, <1>6, MessageKinds DEF Called, PidMessage
  <2>2. /\ PendingRefs' /\ TimerRefs' /\ OutcomeRefs' /\ Issued'
        /\ Stale' /\ WillEnd'
    BY <1>4, ApartQuiet, EndsQuiet
  <2>3. /\ DOMAIN mailbox = Box /\ Len(mailbox) \in Nat
        /\ Len(mailbox') = Len(mailbox) + 1
        /\ mailbox'[Len(mailbox) + 1] = msg
        /\ \A i \in Box : mailbox'[i] = mailbox[i]
    BY <1>1 DEF TypeOK, Box
  <2>4. Box' = Box \cup {Len(mailbox) + 1}
    BY <2>3 DEF Box
  <2>5. /\ ~Pending(msg.trans) /\ msg.trans < next_id
        /\ \A i \in Box : mailbox[i].tag \in PidOps => mailbox[i].trans # msg.trans
    BY <2>1, <2>3 DEF Reusable, Pending, Ends, Issued
  <2>6. ASSUME NEW j \in Box',
               mailbox'[j].tag \in PidOps /\ mailbox'[j].trans # AnyId
        PROVE  (/\ mailbox[j].tag = "send_async_active_pid"
                /\ ~Pending(mailbox[j].trans)
                /\ mailbox[j].trans < next_id
                /\ \A i \in Box :
                      mailbox[i].tag \in PidOps
                      /\ mailbox[i].trans = mailbox[j].trans => i = j
                /\ \A i \in Box :
                      /\ i > j /\ mailbox[i].tag = "send_async_timeout"
                      /\ mailbox[i].trans = mailbox[j].trans
                      => mailbox[i].ref \in loose)'
    <3>1. CASE j \in Box
      <4>1. mailbox'[j] = mailbox[j]
        BY <2>3, <3>1
      <4>2. /\ mailbox[j].tag = "send_async_active_pid"
            /\ ~Pending(mailbox[j].trans)
            /\ mailbox[j].trans < next_id
            /\ \A i \in Box :
                  mailbox[i].tag \in PidOps
                  /\ mailbox[i].trans = mailbox[j].trans => i = j
            /\ \A i \in Box :
                  /\ i > j /\ mailbox[i].tag = "send_async_timeout"
                  /\ mailbox[i].trans = mailbox[j].trans
                  => mailbox[i].ref \in loose
        BY <2>6, <3>1, <4>1 DEF Ends, Reuse
      <4>3. mailbox[j].trans # msg.trans
        BY <2>5, <2>6, <3>1, <4>1
      <4>4. msg.tag # "send_async_timeout"
        BY <2>1
      <4> QED  BY <1>1, <2>3, <2>4, <4>1, <4>2, <4>3, <4>4 DEF Pending
    <3>2. CASE j = Len(mailbox) + 1
      <4>1. \A i \in Box' : ~(i > j)
        BY <2>3, <2>4, <3>2 DEF Box
      <4>2. mailbox'[j] = msg
        BY <2>3, <3>2
      <4>3. ~Pending(msg.trans)'
        BY <1>1, <2>5 DEF Pending
      <4>4. \A i \in Box' : mailbox'[i].tag \in PidOps
                            /\ mailbox'[i].trans = msg.trans => i = j
        BY <2>3, <2>4, <2>5, <3>2
      <4> QED  BY <1>1, <2>1, <2>5, <4>1, <4>2, <4>3, <4>4 DEF Pending
    <3> QED  BY <2>4, <3>1, <3>2
  <2>7. Reuse'
    BY <2>6 DEF Reuse
  <2> QED  BY <2>2, <2>7 DEF Ends
<1> QED  BY <1>5, <1>6

LEMMA LookedUpEnds ==
    ASSUME TypeOK, TypeOK', Ends, LookedUp
    PROVE  Ends'
<1> DEFINE m == Head(mailbox)
<1>1. /\ UNCHANGED <<send_timeouts, loose, outcome, next_id, cancelling,
                     next_ref>>
      /\ mailbox # <<>> /\ m.tag \in LookupOps /\ mailbox' = Tail(mailbox)
  BY DEF LookedUp, Handling
<1>2. m.tag \notin SendTimeouts \cup PidOps \cup {"monitor", "DOWN"}
  BY <1>1 DEF SendTimeouts, PidOps, LookupOps
<1>3. m \in LookupMessage
  BY <1>1, HeadMessage, MessageKinds
<1>4. Mail({1}, {})
  BY <1>1, MailTail
<1>5. \A k \in {1} \cap Box :
         mailbox[k].tag \in SendTimeouts => ~Pending(mailbox[k].trans)
  BY <1>1, <1>2, HeadGone
<1>6. /\ timers \subseteq timers'
      /\ \A tm \in timers' \ timers : tm.ref = 0 /\ tm.msg.tag = m.tag
  <2>1. CASE UNCHANGED timers
    BY <2>1
  <2>2. CASE \E T \in Nat : timers' = timers \cup
                {[ref |-> 0, msg |-> [m EXCEPT !.timeout = T]]}
    <3>1. PICK T : timers' = timers \cup
                      {[ref |-> 0, msg |-> [m EXCEPT !.timeout = T]]}
      BY <2>2
    <3> DEFINE x == [m EXCEPT !.timeout = T]
    <3>2. x.tag = m.tag
      BY <1>3 DEF LookupMessage
    <3>3. timers' = timers \cup {[ref |-> 0, msg |-> x]}
      BY <3>1
    <3> HIDE DEF x, m
    <3> QED  BY <3>2, <3>3
  <2> QED  BY <2>1, <2>2 DEF LookedUp
<1> HIDE DEF m
<1>7. Apart({1}, {})
  BY <1>1, <1>2, <1>4, <1>5, <1>6 DEF Apart, TypeOK
<1> QED  BY <1>7, ApartEnds

LEMMA MonitorEnds ==
    ASSUME TypeOK, TypeOK', Ends, HandleMonitor
    PROVE  Ends'
<1> DEFINE m == Head(mailbox)
           d == Down(next_ref, m.pid)
<1>1. /\ UNCHANGED <<timers, send_timeouts, loose, outcome, next_id,
                     cancelling>>
      /\ next_ref' = next_ref + 1
      /\ mailbox # <<>> /\ m.tag = "monitor"
      /\ mailbox' = Tail(mailbox) \/ mailbox' = Append(Tail(mailbox), d)
  BY DEF HandleMonitor, Handling
<1>2. next_ref <= next_ref'
  BY <1>1 DEF TypeOK
<1>3. \A k \in {1} \cap Box :
         mailbox[k].tag \in SendTimeouts => ~Pending(mailbox[k].trans)
  BY <1>1, HeadGone DEF SendTimeouts
<1>4. d \in Message /\ d.tag \notin SendTimeouts \cup PidOps
  <2>1. m.pid \in Pids
    BY <1>1, HeadMessage, MessageKinds DEF MonitorMessage
  <2>2. d \in Message
    BY <2>1, MadeMessages DEF TypeOK
  <2> QED  BY <2>2 DEF Down, SendTimeouts, PidOps
<1> HIDE DEF d, m
<1>5. CASE mailbox' = Tail(mailbox)
  <2>1. Mail({1}, {})
    BY <1>1, <1>5, MailTail
  <2>2. Apart({1}, {})
    BY <1>1, <1>2, <1>3, <2>1 DEF Apart
  <2> QED  BY <2>2, ApartEnds
<1>6. CASE mailbox' = Append(Tail(mailbox), d)
  <2>1. Mail({1}, {d})
    BY <1>1, <1>4, <1>6, MailTailOne
  <2>2. Apart({1}, {d})
    BY <1>1, <1>2, <1>3, <1>4, <2>1 DEF Apart
  <2> QED  BY <1>4, <2>2, ApartEnds
<1> QED  BY <1>1, <1>5, <1>6

\* What a receive does, to the timers and to its call.
LEMMA RecvIs ==
    ASSUME TypeOK, HandleRecv
    PROVE  LET m == Head(mailbox)
           IN  \/ /\ UNCHANGED timers
                  /\ \E v \in Reply : reply(m.call, v)
               \/ /\ UNCHANGED replies
                  /\ \E again \in RecvMessage \cup RecvsMessage :
                        /\ timers' = timers \cup {[ref |-> 0, msg |-> again]}
                        /\ again.tag = m.tag /\ again.call = m.call
<1> DEFINE m == Head(mailbox)
           Answered == /\ UNCHANGED timers
                       /\ \E v \in Reply : reply(m.call, v)
           Later == /\ UNCHANGED replies
                    /\ \E again \in RecvMessage \cup RecvsMessage :
                          /\ timers' = timers \cup {[ref |-> 0, msg |-> again]}
                          /\ again.tag = m.tag /\ again.call = m.call
<1>1. mailbox # <<>> /\ m.tag \in RecvOps /\ m \in Message
  BY HeadMessage DEF HandleRecv, Handling
<1>2. ASSUME NEW x \in RecvMessage \cup RecvsMessage, x.timeout >= Interval,
             recv_retry(x), x.tag = m.tag, x.call = m.call
      PROVE  Later
  <2> DEFINE again == [x EXCEPT !.timeout = @ - Interval]
  <2>1. /\ again \in RecvMessage \cup RecvsMessage
        /\ again.tag = x.tag /\ again.call = x.call
    BY <1>2 DEF RecvMessage, RecvsMessage, Interval
  <2>2. timers' = timers \cup {[ref |-> 0, msg |-> again]} /\ UNCHANGED replies
    BY <1>2 DEF recv_retry
  <2> HIDE DEF again
  <2> QED  BY <1>2, <2>1, <2>2
<1>3. CASE m.tag = "recv_async" /\ recv_async(m)
  <2>1. m \in RecvMessage
    BY <1>1, <1>3, MessageKinds
  <2> DEFINE ids == IF m.trans = AnyId THEN async_responses
                    ELSE async_responses \cap {m.trans}
             pick == recv_async_select_oldest(ids)
  <2>2. ids \in SUBSET TransIds
    BY DEF TypeOK
  <2>3. ids # {} => pick \in TransIds
    <3>1. ids \in SUBSET Nat
      BY <2>2 DEF TransIds
    <3> HIDE DEF ids
    <3>2. ids # {} => \E b \in ids : \A y \in ids : b <= y
      BY <3>1, LeastNat
    <3>3. ids # {} => pick \in ids
      BY <3>2 DEF recv_async_select_oldest, Min
    <3> QED  BY <2>2, <3>3
  <2>4. \/ m.timeout >= Interval /\ recv_retry(m)
        \/ reply(m.call, Error) /\ UNCHANGED timers
        \/ /\ ids # {} /\ reply(m.call, Ok({pick}, m.consume))
           /\ UNCHANGED timers
    BY <1>3 DEF recv_async
  <2>5. m.consume \in BOOLEAN
    BY <2>1 DEF RecvMessage
  <2> HIDE DEF m, ids, pick
  <2> QED  BY <1>2, <2>1, <2>3, <2>4, <2>5, ReplyValues DEF m
<1>4. CASE m.tag = "recv_asyncs" /\ recv_asyncs(m)
  <2>1. m \in RecvsMessage
    BY <1>1, <1>4, MessageKinds
  <2> DEFINE found == recv_asyncs_pick(m)
             x == [m EXCEPT !.found = found]
  <2>2. found \in SUBSET TransIds
    BY <2>1 DEF recv_asyncs_pick, RecvsMessage
  <2>3. x \in RecvsMessage /\ x.tag = m.tag /\ x.call = m.call
        /\ x.timeout = m.timeout
    BY <2>1, <2>2 DEF RecvsMessage
  <2>4. \/ m.timeout >= Interval /\ recv_retry(x)
        \/ reply(m.call, Error) /\ UNCHANGED timers
        \/ reply(m.call, Ok(found, m.consume)) /\ UNCHANGED timers
    BY <1>4 DEF recv_asyncs
  <2>5. m.consume \in BOOLEAN
    BY <2>1 DEF RecvsMessage
  <2> HIDE DEF m, found, x
  <2> QED  BY <1>2, <2>2, <2>3, <2>4, <2>5, ReplyValues DEF m
<1> QED  BY <1>3, <1>4 DEF HandleRecv

LEMMA RecvEnds ==
    ASSUME TypeOK, TypeOK', Ends, HandleRecv
    PROVE  Ends'
<1> DEFINE m == Head(mailbox)
<1>1. /\ UNCHANGED <<send_timeouts, loose, outcome, next_id, cancelling,
                     next_ref>>
      /\ mailbox # <<>> /\ m.tag \in RecvOps /\ mailbox' = Tail(mailbox)
  BY DEF HandleRecv, Handling
<1>2. m.tag \notin SendTimeouts \cup PidOps \cup {"monitor", "DOWN"}
  BY <1>1 DEF SendTimeouts, PidOps, RecvOps
<1>3. Mail({1}, {})
  BY <1>1, MailTail
<1>4. \A k \in {1} \cap Box :
         mailbox[k].tag \in SendTimeouts => ~Pending(mailbox[k].trans)
  BY <1>1, <1>2, HeadGone
<1>5. /\ timers \subseteq timers'
      /\ \A tm \in timers' \ timers : tm.ref = 0 /\ tm.msg.tag = m.tag
  BY RecvIs
<1> HIDE DEF m
<1>6. Apart({1}, {})
  BY <1>1, <1>2, <1>3, <1>4, <1>5 DEF Apart, TypeOK
<1> QED  BY <1>6, ApartEnds

(* Messages that find nothing to do, and the destinations' own steps.      *)
LEMMA OtherEnds ==
    ASSUME TypeOK, TypeOK', Ends,
           HandleRecvAsyncTimeout \/ Ignored \/ Destination
    PROVE  Ends'
<1>1. CASE HandleRecvAsyncTimeout \/ Ignored
  <2>1. /\ UNCHANGED <<timers, send_timeouts, loose, outcome, next_id,
                       cancelling, next_ref>>
        /\ mailbox # <<>> /\ mailbox' = Tail(mailbox)
        /\ Head(mailbox).tag \in SendTimeouts => ~Pending(Head(mailbox).trans)
    BY <1>1 DEF HandleRecvAsyncTimeout, Ignored, Handling, ignore, SendTimeouts
  <2>2. Mail({1}, {})
    BY <2>1, MailTail
  <2>3. next_ref <= next_ref'
    BY <2>1 DEF TypeOK
  <2>4. \A k \in {1} \cap Box :
           mailbox[k].tag \in SendTimeouts => ~Pending(mailbox[k].trans)
    BY <2>1, HeadGone
  <2>5. Apart({1}, {})
    BY <2>1, <2>2, <2>3, <2>4 DEF Apart
  <2> QED  BY <2>5, ApartEnds
<1>2. ASSUME NEW r \in inflight, NEW T \in Timeouts, NEW empty \in BOOLEAN,
             DestReturn(r, T, empty)
      PROVE  Ends'
  <2> DEFINE tag == IF r.sync THEN "return_sync" ELSE "return_async"
             msg == [tag |-> tag, trans |-> r.trans, timeout |-> T,
                     empty |-> empty]
  <2>1. tag \in {"return_async", "return_sync"} /\ r.trans \in TransIds
        /\ T \in Nat
    BY SenderAssumption DEF TypeOK
  <2>2. msg \in Message
    <3> HIDE DEF tag
    <3> QED  BY <2>1, Zenon DEF Message, ReturnMessage
  <2>3. msg.tag \notin SendTimeouts \cup PidOps
    BY <2>1 DEF SendTimeouts, PidOps
  <2>4. /\ mailbox' = Append(mailbox, msg)
        /\ UNCHANGED <<timers, send_timeouts, loose, outcome, next_id,
                       cancelling, next_ref>>
    BY <1>2 DEF DestReturn
  <2> HIDE DEF msg
  <2>5. Mail({}, {msg})
    BY <2>2, <2>4, MailOne
  <2>6. Apart({}, {msg})
    BY <2>3, <2>4, <2>5 DEF Apart, TypeOK
  <2> QED  BY <2>3, <2>6, ApartEnds
<1>3. ASSUME NEW r \in inflight, NEW p \in Pids, DestForward(r, p)
      PROVE  Ends'
  <2>1. UNCHANGED <<mailbox, timers, send_timeouts, loose, outcome, next_id,
                    cancelling, next_ref>>
    BY <1>3 DEF DestForward
  <2>2. Mail({}, {})
    BY <2>1, MailSame
  <2>3. Apart({}, {})
    BY <2>1, <2>2 DEF Apart, TypeOK
  <2> QED  BY <2>3, ApartEnds
<1>4. ASSUME NEW p \in Pids, DestDie(p)
      PROVE  Ends'
  <2> DEFINE new == {Down(x.ref, p) : x \in {y \in monitored : y.pid = p}}
  <2>1. Mail({}, new)
    BY <1>4, DieIs
  <2>2. UNCHANGED <<timers, send_timeouts, loose, outcome, next_id,
                    cancelling, next_ref>>
    BY <1>4 DEF DestDie
  <2>3. \A m \in new : m.tag \notin SendTimeouts \cup PidOps
    BY DEF Down, SendTimeouts, PidOps
  <2> HIDE DEF new
  <2>4. Apart({}, new)
    BY <2>1, <2>2, <2>3 DEF Apart, TypeOK
  <2> QED  BY <2>3, <2>4, ApartEnds
<1> QED  BY <1>1, <1>2, <1>3, <1>4, SenderAssumption DEF Destination

LEMMA TimerEnds ==
    ASSUME TypeOK, TypeOK', Ends,
           Timer \/ \E ref \in cancelling : TimerCancelled(ref)
    PROVE  Ends'
<1>1. ASSUME NEW tm \in timers, TimerFires(tm)
      PROVE  Ends'
  <2>1. /\ timers' = timers \ {tm} /\ cancelling' \subseteq cancelling
        /\ mailbox' = Append(mailbox, tm.msg)
        /\ UNCHANGED <<send_timeouts, loose, outcome, next_id, next_ref>>
    BY <1>1 DEF TimerFires
  <2>2. tm.msg \in Message
    BY DEF TypeOK
  <2>3. Mail({}, {tm.msg})
    BY <2>1, <2>2, MailOne
  <2>4. ASSUME NEW t \in TransIds, Pending(t), Running(send_timeouts[t].tref)
        PROVE  \/ \E x \in timers' : x.ref = send_timeouts[t].tref
               \/ TimeoutOf(t) \in {tm.msg}
    <3>1. PICK x \in timers : x.ref = send_timeouts[t].tref
      BY <2>4 DEF Running
    <3>2. CASE x = tm
      <4>1. tm.ref \notin loose /\ tm.ref # 0
        BY <2>4, <3>1, <3>2 DEF Ends, PendingRefs
      <4>2. /\ tm.msg.tag \in SendTimeouts /\ tm.ref = tm.msg.ref
            /\ Pending(tm.msg.trans) /\ tm.msg = TimeoutOf(tm.msg.trans)
        BY <4>1 DEF Ends, TimerRefs
      <4>3. tm.msg.trans \in TransIds
        BY <2>2, <4>2, MessageKinds DEF SendTimeouts, TimeoutMessage
      <4>4. send_timeouts[tm.msg.trans].tref = send_timeouts[t].tref
        BY <3>1, <3>2, <4>2 DEF TimeoutOf
      <4>5. tm.msg.trans = t
        BY <2>4, <4>2, <4>3, <4>4 DEF Ends, PendingRefs
      <4> QED  BY <4>2, <4>5
    <3>3. CASE x # tm
      BY <2>1, <3>1, <3>3
    <3> QED  BY <3>2, <3>3
  <2>5. QuietTables({tm.msg})
    <3>1. next_ref <= next_ref'
      BY <2>1 DEF TypeOK
    <3> QED  BY <2>1, <2>4, <3>1 DEF QuietTables, Pending
  <2>6. QuietMail({}, {tm.msg})
    <3>1. ASSUME tm.msg.tag \in SendTimeouts
          PROVE  /\ tm.msg.trans \in TransIds /\ tm.msg.trans < next_id
                 /\ tm.msg.ref \in loose \/ /\ Pending(tm.msg.trans)
                                            /\ tm.msg = TimeoutOf(tm.msg.trans)
      <4>1. tm.msg.trans \in TransIds
        BY <2>2, <3>1, MessageKinds DEF SendTimeouts, TimeoutMessage
      <4> QED  BY <3>1, <4>1 DEF Ends, TimerRefs, Issued
    <3>2. \A k \in {} \cap Box :
             mailbox[k].tag \in SendTimeouts => ~Pending(mailbox[k].trans)
      OBVIOUS
    <3>3. ASSUME NEW x \in {tm.msg}, x.tag \in SendTimeouts
          PROVE  /\ x.trans \in TransIds /\ x.trans < next_id
                 /\ x.ref \in loose \/ /\ Pending(x.trans)
                                       /\ x = TimeoutOf(x.trans)
      <4>1. x = tm.msg
        OBVIOUS
      <4> QED  BY <3>1, <3>3, <4>1
    <3> QED  BY <3>2, <3>3 DEF QuietMail
  <2>7. tm.msg.tag \notin PidOps
    BY DEF Ends, TimerRefs, SendTimeouts, PidOps
  <2> QED  BY <2>3, <2>5, <2>6, <2>7, QuietEnds
<1>2. ASSUME NEW ref \in cancelling, TimerCancelled(ref)
      PROVE  Ends'
  <2>1. /\ timers' = {tm \in timers : tm.ref \notin {ref}}
        /\ cancelling' \subseteq cancelling
        /\ UNCHANGED <<mailbox, send_timeouts, loose, outcome, next_id, next_ref>>
    BY <1>2 DEF TimerCancelled, Stopped
  <2>2. Mail({}, {})
    BY <2>1, MailSame
  <2>3. ASSUME NEW t \in TransIds, Pending(t), Running(send_timeouts[t].tref)
        PROVE  \E x \in timers' : x.ref = send_timeouts[t].tref
    <3>1. send_timeouts[t].tref # ref
      BY <2>3 DEF Ends, PendingRefs
    <3> QED  BY <2>1, <2>3, <3>1 DEF Running
  <2>4. QuietTables({})
    <3>1. next_ref <= next_ref'
      BY <2>1 DEF TypeOK
    <3> QED  BY <2>1, <2>3, <3>1 DEF QuietTables, Pending
  <2>5. QuietMail({}, {})
    BY DEF QuietMail
  <2> QED  BY <2>2, <2>4, <2>5, QuietEnds
<1> QED  BY <1>1, <1>2 DEF Timer

LEMMA DownEnds ==
    ASSUME TypeOK, TypeOK', Ends, HandleDown
    PROVE  Ends'
<1> DEFINE m == Head(mailbox)
<1>1. /\ mailbox # <<>> /\ m.tag = "DOWN" /\ m.pid \in Pids
      /\ UNCHANGED <<loose, outcome, next_id, cancelling, next_ref>>
  <2>1. mailbox # <<>> /\ m.tag = "DOWN"
    BY DEF HandleDown, Handling
  <2> QED  BY <2>1, HeadMessage, MessageKinds DEF DownMessage, HandleDown
<1>2. \A k \in {1} \cap Box :
         mailbox[k].tag \in SendTimeouts => ~Pending(mailbox[k].trans)
  BY <1>1, HeadGone DEF SendTimeouts
<1>3. next_ref <= next_ref'
  BY <1>1 DEF TypeOK
<1>4. CASE mailbox' = Tail(mailbox) /\ UNCHANGED <<timers, send_timeouts>>
  <2>1. Mail({1}, {})
    BY <1>1, <1>4, MailTail
  <2>2. Apart({1}, {})
    BY <1>1, <1>2, <1>3, <1>4, <2>1 DEF Apart
  <2> QED  BY <2>2, ApartEnds
<1>5. CASE send_timeout_dead(m.pid)
  <2>0. PICK p \in Pids : p = m.pid /\ send_timeout_dead(p)
    BY <1>1, <1>5
  <2> DEFINE ids == Listed(p)
             now == Awaited(p)
  <2>1. \A t \in ids : Pending(t)
    BY DEF Listed
  <2>2. \A t \in ids : t \in now <=> Running(send_timeouts[t].tref)
    BY DEF Awaited
  <2>3. /\ ids \subseteq TransIds
        /\ \A t \in ids : send_timeouts'[t] = [send_timeouts[t] EXCEPT !.pid = Undefined]
        /\ \A t \in TransIds \ ids : send_timeouts'[t] = send_timeouts[t]
        /\ timers' = Stopped({send_timeouts[t].tref : t \in now})
        /\ Mail({1}, {TimeoutOf(t) : t \in now})
    BY <1>1, <2>0, DeadIs
  <2> DEFINE new == {TimeoutOf(t) : t \in now}
  <2>4. ASSUME NEW t \in TransIds
        PROVE  /\ Pending(t)' <=> Pending(t)
               /\ send_timeouts'[t].tref = send_timeouts[t].tref
               /\ send_timeouts'[t].type = send_timeouts[t].type
    <3>1. CASE t \in ids
      <4>1. Pending(t) /\ send_timeouts[t].tref # 0
        BY <2>1, <3>1 DEF Ends, PendingRefs
      <4>2. /\ send_timeouts'[t].tref = send_timeouts[t].tref
            /\ send_timeouts'[t].type = send_timeouts[t].type
        <5>1. send_timeouts[t] \in Entries
          BY DEF TypeOK, Entries
        <5> QED  BY <2>3, <3>1, <5>1 DEF Entries
      <4>3. send_timeouts'[t] # NoEntry
        BY <4>1, <4>2 DEF NoEntry
      <4> QED  BY <4>1, <4>2, <4>3 DEF Pending
    <3>2. CASE t \notin ids
      BY <2>3, <3>2 DEF Pending
    <3> QED  BY <3>1, <3>2
  <2>5. now \subseteq TransIds /\ \A t \in now : Pending(t)
    BY <2>1, <2>3 DEF Awaited
  <2>6. ASSUME NEW t \in TransIds, Pending(t), Running(send_timeouts[t].tref)
        PROVE  \/ \E tm \in timers' : tm.ref = send_timeouts[t].tref
               \/ TimeoutOf(t) \in new
    <3>1. CASE t \in now
      BY <3>1
    <3>2. CASE t \notin now
      <4>1. send_timeouts[t].tref \notin {send_timeouts[u].tref : u \in now}
        BY <2>5, <2>6, <3>2 DEF Ends, PendingRefs
      <4> QED  BY <2>3, <2>6, <4>1 DEF Running, Stopped
    <3> QED  BY <3>1, <3>2
  <2>7. timers' \subseteq timers
    BY <2>3 DEF Stopped
  <2>8. \A x \in new : /\ x.tag \in SendTimeouts /\ x.tag \notin PidOps
                       /\ x.trans \in TransIds
                       /\ x.trans < next_id /\ Pending(x.trans)
                       /\ x = TimeoutOf(x.trans)
    <3>1. ASSUME NEW t \in now
          PROVE  LET x == TimeoutOf(t)
                 IN  /\ x.tag \in SendTimeouts /\ x.tag \notin PidOps
                     /\ x.trans \in TransIds
                     /\ x.trans < next_id /\ Pending(x.trans)
                     /\ x = TimeoutOf(x.trans)
      <4>1. t \in TransIds /\ Pending(t) /\ t < next_id
        BY <2>5 DEF Ends, PendingRefs
      <4>2. /\ TimeoutOf(t).tag \in SendTimeouts /\ TimeoutOf(t).trans = t
            /\ TimeoutOf(t).tag \notin PidOps
        BY DEF TimeoutOf, SendTimeouts, PidOps
      <4> QED  BY <4>1, <4>2
    <3> QED  BY <3>1
  <2>9. Mail({1}, new)
    BY <2>3
  <2> HIDE DEF new
  <2>10. QuietTables(new)
    BY <1>1, <1>3, <2>4, <2>6, <2>7 DEF QuietTables
  <2>11. QuietMail({1}, new)
    BY <1>2, <2>8 DEF QuietMail
  <2> QED  BY <2>8, <2>9, <2>10, <2>11, QuietEnds
<1> QED  BY <1>4, <1>5 DEF HandleDown

(* The end of a request takes its message, and perhaps a DOWN.             *)
LEMMA EndedMail ==
    ASSUME TypeOK, mailbox # <<>>, NEW t, NEW p, send_timeout_end(t, p)
    PROVE  \E gone : /\ Mail(gone, {}) /\ 1 \in gone
                     /\ \A k \in gone : k # 1 => mailbox[k].tag = "DOWN"
<1> DEFINE m == IF p = Undefined THEN NoMonitor ELSE send_timeout_monitors[p]
<1>1. CASE mailbox' = Tail(mailbox)
  <2>1. Mail({1}, {})
    BY <1>1, MailTail
  <2> QED  BY <2>1
<1>2. CASE mailbox' = Flush(Tail(mailbox), m.ref, p)
  <2>1. PICK r : mailbox' = Flush(Tail(mailbox), r, p)
    BY <1>2
  <2>2. CASE Mail({1}, {})
    BY <2>2
  <2>3. CASE \E k \in 2..Len(mailbox) :
                mailbox[k] = Down(r, p) /\ Mail({1, k}, {})
    <3>1. PICK k : mailbox[k] = Down(r, p) /\ Mail({1, k}, {})
      BY <2>3
    <3>2. mailbox[k].tag = "DOWN"
      BY <3>1 DEF Down
    <3> QED  BY <3>1, <3>2
  <2> QED  BY <2>1, <2>2, <2>3, MailFlushed
<1> QED  BY <1>1, <1>2 DEF send_timeout_end

LEMMA EndedEnds ==
    ASSUME TypeOK, TypeOK', Ends, NEW t, NEW stop \in BOOLEAN,
           NEW store \in BOOLEAN, Ended(t, stop, store)
    PROVE  Ends'
<1>1. PICK e : e = send_timeouts[t]
  OBVIOUS
<1>2. /\ mailbox # <<>> /\ Head(mailbox).trans = t /\ t \in TransIds
      /\ Head(mailbox).tag \in {"return_async", "return_sync"} \cup SendTimeouts
      /\ Pending(t) /\ send_timeout_end(t, e.pid)
      /\ loose' = IF stop THEN loose ELSE loose \cup Loose(e.tref)
      /\ cancelling' \in {cancelling, cancelling \cup Loose(e.tref)}
      /\ UNCHANGED <<next_ref, next_id>>
  BY <1>1 DEF Ended, Handling
<1>3. /\ send_timeouts'[t] = NoEntry
      /\ \A u \in TransIds \ {t} : send_timeouts'[u] = send_timeouts[u]
  BY <1>2 DEF send_timeout_end, forget, TypeOK
<1>4. PICK gone : /\ Mail(gone, {}) /\ 1 \in gone
                  /\ \A k \in gone : k # 1 => mailbox[k].tag = "DOWN"
  BY <1>2, EndedMail
<1>5. PICK f : From(f, gone, {})
  BY <1>4 DEF Mail
<1>6. /\ Len(mailbox) \in Nat /\ next_ref \in Nat /\ next_id \in Nat
      /\ mailbox[1] = Head(mailbox)
  BY <1>2 DEF TypeOK
<1>7. \A i \in Box' : /\ f[i] \in Box /\ f[i] \notin gone
                      /\ mailbox'[i] = mailbox[f[i]]
  BY <1>5, <1>6 DEF From, Box
<1>8. \A k \in Box \ gone : \E i \in Box' : f[i] = k
  BY <1>5 DEF From, Box
<1>9. /\ ~Pending(t)'
      /\ \A u \in TransIds \ {t} : /\ Pending(u)' <=> Pending(u)
                                   /\ TimeoutOf(u)' = TimeoutOf(u)
  BY <1>3 DEF Pending, TimeoutOf
<1>10. /\ e.tref \in 1..(next_ref - 1) /\ e.tref \notin loose \cup cancelling
       /\ t < next_id
       /\ \A u \in TransIds \ {t} : Pending(u) => send_timeouts[u].tref # e.tref
  BY <1>1, <1>2 DEF Ends, PendingRefs
<1>11. /\ loose \subseteq loose' /\ loose' \subseteq loose \cup {e.tref}
       /\ cancelling' \subseteq cancelling \cup {e.tref}
  BY <1>2 DEF Loose
<1>12. PendingRefs'
  <2>1. ASSUME NEW u \in TransIds, Pending(u)'
        PROVE  /\ send_timeouts'[u].tref \in 1..(next_ref' - 1)
               /\ send_timeouts'[u].tref \notin loose' \cup cancelling'
               /\ u < next_id'
               /\ \A v \in TransIds :
                     Pending(v)' /\ send_timeouts'[v].tref = send_timeouts'[u].tref
                        => v = u
    <3>1. u # t /\ Pending(u) /\ send_timeouts'[u] = send_timeouts[u]
      BY <1>3, <1>9, <2>1
    <3>2. send_timeouts[u].tref \notin loose' \cup cancelling'
      BY <1>10, <1>11, <3>1 DEF Ends, PendingRefs
    <3>3. \A v \in TransIds : Pending(v)' =>
             Pending(v) /\ send_timeouts'[v] = send_timeouts[v]
      BY <1>3, <1>9
    <3> QED  BY <1>2, <3>1, <3>2, <3>3 DEF Ends, PendingRefs
  <2> QED  BY <2>1 DEF PendingRefs
<1>13. ASSUME NEW tm \in timers'
       PROVE  \/ tm.ref = 0 /\ tm.msg.tag = "recv_async_timeout"
              \/ tm \in timers /\ (tm.ref = e.tref => tm.ref \in loose')
  <2> DEFINE kept == IF stop THEN Stopped({e.tref}) ELSE timers
  <2>1. timers' \subseteq kept \cup
          {[ref |-> 0, msg |-> [tag |-> "recv_async_timeout",
                                trans |-> t, ref |-> 0]]}
    BY <1>1 DEF Ended
  <2>2. CASE tm \in kept
    <3>1. tm \in timers
      BY <2>2 DEF Stopped
    <3>2. ~stop /\ tm.ref = e.tref => tm.ref \in loose'
      BY <1>2, <3>1 DEF Loose, Running
    <3>3. stop => tm.ref # e.tref
      BY <2>2 DEF Stopped
    <3> QED  BY <3>1, <3>2, <3>3
  <2> HIDE DEF kept
  <2> QED  BY <2>1, <2>2
<1>14. TimerRefs'
  <2>1. loose' \cup cancelling' \subseteq 1..(next_ref' - 1)
    BY <1>2, <1>10, <1>11 DEF Ends, TimerRefs
  <2>2. ASSUME NEW tm \in timers', tm.msg.tag \in SendTimeouts
        PROVE  /\ tm.ref = tm.msg.ref
               /\ tm.ref \in loose' \/ /\ Pending(tm.msg.trans)'
                                       /\ tm.msg = TimeoutOf(tm.msg.trans)'
    <3>1. tm \in timers /\ (tm.ref = e.tref => tm.ref \in loose')
      BY <1>13, <2>2 DEF SendTimeouts
    <3>2. tm.msg \in Message
      BY DEF TypeOK
    <3>3. tm.msg.trans \in TransIds
      BY <2>2, <3>2, MessageKinds DEF SendTimeouts, TimeoutMessage
    <3>4. /\ tm.ref = tm.msg.ref
          /\ tm.ref \in loose \/ /\ Pending(tm.msg.trans)
                                 /\ tm.msg = TimeoutOf(tm.msg.trans)
      BY <2>2, <3>1 DEF Ends, TimerRefs
    <3>5. tm.msg.trans = t /\ tm.msg = TimeoutOf(tm.msg.trans) => tm.ref = e.tref
      BY <1>1, <3>4 DEF TimeoutOf
    <3> QED  BY <1>9, <1>11, <3>1, <3>3, <3>4, <3>5
  <2>3. ASSUME NEW tm \in timers', tm.msg.tag \notin SendTimeouts
        PROVE  tm.ref = 0 /\ tm.msg.tag \notin PidOps \cup {"monitor", "DOWN"}
    BY <1>13, <2>3 DEF Ends, TimerRefs, PidOps
  <2> QED  BY <2>1, <2>2, <2>3 DEF TimerRefs
<1>15. \/ outcome' = outcome
       \/ \E kind : outcome' = [outcome EXCEPT
                ![t] = Append(@, [ref |-> e.tref, kind |-> kind])]
  BY <1>1 DEF Ended, tell
<1>16. \A u \in TransIds \ {t} : outcome'[u] = outcome[u]
  BY <1>2, <1>15 DEF TypeOK
<1>17. OutcomeRefs'
  <2>1. ASSUME NEW u \in TransIds, NEW i \in 1..Len(outcome'[u]),
               NEW j \in 1..Len(outcome'[u])
        PROVE  /\ outcome'[u][i].ref < next_ref
               /\ Pending(u)' => outcome'[u][i].ref # send_timeouts'[u].tref
               /\ outcome'[u][i].ref = outcome'[u][j].ref => i = j
    <3>1. CASE u # t \/ outcome' = outcome
      <4>1. outcome'[u] = outcome[u]
        BY <1>16, <3>1
      <4>2. /\ outcome[u][i].ref < next_ref
            /\ Pending(u) => outcome[u][i].ref # send_timeouts[u].tref
            /\ outcome[u][i].ref = outcome[u][j].ref => i = j
        BY <2>1, <4>1 DEF Ends, OutcomeRefs
      <4> QED  BY <1>3, <1>9, <4>1, <4>2
    <3>2. CASE u = t /\ outcome' # outcome
      <4> DEFINE s == outcome[t]
      <4>1. PICK kind : outcome' = [outcome EXCEPT
                ![t] = Append(@, [ref |-> e.tref, kind |-> kind])]
        BY <1>15, <3>2
      <4> DEFINE o == [ref |-> e.tref, kind |-> kind]
      <4>2. s \in Seq(Outcomes) /\ Len(s) \in Nat
            /\ \A n \in 1..Len(s) : s[n].ref \in Nat
        BY <1>2, OutcomeType
      <4>3. outcome'[u] = Append(s, o)
        BY <1>2, <3>2, <4>1 DEF TypeOK
      <4>4. \A n \in 1..Len(s) :
               /\ s[n].ref < next_ref /\ s[n].ref # e.tref
               /\ \A k \in 1..Len(s) : s[n].ref = s[k].ref => n = k
        BY <1>1, <1>2 DEF Ends, OutcomeRefs
      <4>5. o.ref = e.tref
        OBVIOUS
      <4>6. ~Pending(u)'
        BY <1>9, <3>2
      <4> HIDE DEF s, o
      <4>7. /\ Len(outcome'[u]) = Len(s) + 1
            /\ outcome'[u][Len(s) + 1] = o
            /\ \A n \in 1..Len(s) : outcome'[u][n] = s[n]
        BY <4>2, <4>3
      <4>8. i \in 1..Len(s) \/ i = Len(s) + 1
        BY <2>1, <4>2, <4>7
      <4>9. j \in 1..Len(s) \/ j = Len(s) + 1
        BY <2>1, <4>2, <4>7
      <4>10. e.tref < next_ref
        BY <1>6, <1>10
      <4> QED  BY <4>4, <4>5, <4>6, <4>7, <4>8, <4>9, <4>10
    <3> QED  BY <3>1, <3>2
  <2> QED  BY <1>2, <2>1 DEF OutcomeRefs
<1>18. Issued'
  <2>1. \A i \in Box' : mailbox'[i].tag \in SendTimeouts =>
           mailbox'[i].trans < next_id'
    BY <1>2, <1>7 DEF Ends, Issued
  <2>2. \A tm \in timers' : tm.msg.tag \in SendTimeouts =>
           tm.msg.trans < next_id'
    BY <1>2, <1>13 DEF Ends, Issued, SendTimeouts
  <2>3. \A u \in TransIds : outcome'[u] # <<>> => u < next_id'
    BY <1>2, <1>10, <1>16 DEF Ends, Issued
  <2> QED  BY <2>1, <2>2, <2>3 DEF Issued
<1>19. Reuse'
  <2>1. \A u \in TransIds : ~Pending(u) => ~Pending(u)'
    BY <1>2, <1>9
  <2>2. next_id <= next_id'
    BY <1>2, <1>6
  <2> QED  BY <1>4, <1>11, <2>1, <2>2, ReuseKept
<1>20. Stale'
  <2>1. ASSUME NEW i \in Box', mailbox'[i].tag = "send_async_timeout"
        PROVE  (\/ ~Pending(mailbox[i].trans)
                \/ mailbox[i].ref = send_timeouts[mailbox[i].trans].tref
                \/ mailbox[i].ref \in loose)'
    <3>1. f[i] \in Box /\ mailbox'[i] = mailbox[f[i]]
      BY <1>7
    <3>2. mailbox'[i] \in Message
      BY DEF TypeOK, Box
    <3>3. PICK u \in TransIds : mailbox'[i].trans = u
      BY <2>1, <3>2, MessageKinds DEF TimeoutMessage
    <3>4. \/ ~Pending(u) \/ mailbox'[i].ref = send_timeouts[u].tref
          \/ mailbox'[i].ref \in loose
      BY <2>1, <3>1, <3>3 DEF Ends, Stale
    <3>5. \/ ~Pending(u)' \/ mailbox'[i].ref = send_timeouts'[u].tref
          \/ mailbox'[i].ref \in loose'
      BY <1>3, <1>9, <1>11, <3>4
    <3> QED  BY <3>3, <3>5 DEF Pending
  <2> QED  BY <2>1 DEF Stale
<1>21. WillEnd'
  <2>1. ASSUME NEW u \in TransIds, Pending(u)'
        PROVE  \/ \E tm \in timers' : tm.ref = send_timeouts'[u].tref
               \/ \E i \in Box' : mailbox'[i] = TimeoutOf(u)'
    <3>1. /\ u # t /\ Pending(u) /\ send_timeouts'[u] = send_timeouts[u]
          /\ TimeoutOf(u)' = TimeoutOf(u)
      BY <1>3, <1>9, <2>1
    <3>2. CASE Running(send_timeouts[u].tref)
      <4>1. PICK tm \in timers : tm.ref = send_timeouts[u].tref
        BY <3>2 DEF Running
      <4>2. tm.ref # e.tref
        BY <1>10, <3>1, <4>1
      <4>3. tm \in timers'
        BY <1>1, <4>2 DEF Ended, Stopped
      <4> QED  BY <3>1, <4>1, <4>3
    <3>3. CASE \E i \in Box : mailbox[i] = TimeoutOf(u)
      <4>1. PICK k \in Box : mailbox[k] = TimeoutOf(u)
        BY <3>3
      <4>2. mailbox[k].trans = u /\ mailbox[k].tag # "DOWN"
        BY <4>1 DEF TimeoutOf
      <4>3. k \notin gone
        BY <1>2, <1>4, <1>6, <3>1, <4>2
      <4>4. PICK i \in Box' : f[i] = k
        BY <1>8, <4>3
      <4>5. mailbox'[i] = mailbox[k]
        BY <1>7, <4>4
      <4> QED  BY <3>1, <4>1, <4>5
    <3> QED  BY <3>1, <3>2, <3>3 DEF Ends, WillEnd
  <2> QED  BY <2>1 DEF WillEnd, Running
<1> QED  BY <1>12, <1>14, <1>17, <1>18, <1>19, <1>20, <1>21 DEF Ends

(* Requests start with ids that are neither pending nor waited for, and    *)
(* nothing in the mailbox can end them but timers that were left running.  *)
LEMMA StartedFresh ==
    ASSUME TypeOK, Ends, NEW type, NEW T, NEW a, NEW b, NEW dest, NEW client,
           Started(type, T, a, b, dest, client)
    PROVE  /\ \A t \in a..b : ~Pending(t) /\ t < next_id'
           /\ next_id <= next_id'
           /\ \A j \in Box \ {1} : mailbox[j].tag \in PidOps =>
                 mailbox[j].trans \notin a..b
           /\ \A i \in Box \ {1} :
                 /\ mailbox[i].tag = "send_async_timeout"
                 /\ mailbox[i].trans \in a..b
                 => mailbox[i].ref \in loose
<1>1. /\ a \in TransIds /\ b \in TransIds /\ a <= b
      /\ \/ a = next_id /\ next_id' = b + 1
         \/ /\ Head(mailbox).tag = "send_async_active_pid"
            /\ Head(mailbox).trans = a
            /\ a = b /\ next_id' = next_id
      /\ mailbox # <<>>
  BY DEF Started, Handling
<1>2. /\ a \in Nat /\ b \in Nat /\ a > 0 /\ next_id \in Nat
      /\ a..b \subseteq TransIds
      /\ Len(mailbox) \in Nat
  BY <1>1, SenderAssumption DEF TransIds, TypeOK
<1>3. CASE a = next_id /\ next_id' = b + 1
  <2>1. \A t \in a..b : ~Pending(t)
    BY <1>2, <1>3 DEF Ends, PendingRefs
  <2>2. ASSUME NEW j \in Box, mailbox[j].tag \in PidOps,
               mailbox[j].trans \in a..b
        PROVE  FALSE
    <3>1. mailbox[j].trans # AnyId
      BY <1>2, <2>2 DEF AnyId
    <3>2. mailbox[j].trans < next_id
      BY <2>2, <3>1 DEF Ends, Reuse
    <3> QED  BY <1>2, <1>3, <2>2, <3>2
  <2>3. ASSUME NEW i \in Box, mailbox[i].tag = "send_async_timeout",
               mailbox[i].trans \in a..b
        PROVE  FALSE
    <3>1. mailbox[i].trans < next_id
      BY <2>3 DEF Ends, Issued, SendTimeouts
    <3> QED  BY <1>2, <1>3, <2>3, <3>1
  <2> QED  BY <1>1, <1>2, <1>3, <2>1, <2>2, <2>3
<1>4. CASE /\ Head(mailbox).tag = "send_async_active_pid"
           /\ Head(mailbox).trans = a
           /\ a = b /\ next_id' = next_id
  <2>1. 1 \in Box /\ mailbox[1] = Head(mailbox)
    BY <1>1, <1>2 DEF TypeOK, Box
  <2>2. /\ mailbox[1].tag \in PidOps /\ mailbox[1].trans # AnyId
        /\ mailbox[1].trans = a
    BY <1>2, <1>4, <2>1 DEF PidOps, AnyId
  <2>3. /\ ~Pending(a) /\ a < next_id
        /\ \A i \in Box : mailbox[i].tag \in PidOps /\ mailbox[i].trans = a
              => i = 1
        /\ \A i \in Box : /\ i > 1 /\ mailbox[i].tag = "send_async_timeout"
                          /\ mailbox[i].trans = a
              => mailbox[i].ref \in loose
    <3>1. /\ ~Pending(mailbox[1].trans) /\ mailbox[1].trans < next_id
          /\ \A i \in Box : mailbox[i].tag \in PidOps
                            /\ mailbox[i].trans = mailbox[1].trans => i = 1
          /\ \A i \in Box : /\ i > 1 /\ mailbox[i].tag = "send_async_timeout"
                            /\ mailbox[i].trans = mailbox[1].trans
                => mailbox[i].ref \in loose
      BY <2>1, <2>2 DEF Ends, Reuse
    <3> QED  BY <2>2, <3>1
  <2>4. \A t \in a..b : t = a
    BY <1>2, <1>4
  <2>5. \A i \in Box \ {1} : i > 1
    BY <1>2 DEF Box
  <2> QED  BY <1>2, <1>4, <2>3, <2>4, <2>5
<1> QED  BY <1>1, <1>3, <1>4

LEMMA StartedEnds ==
    ASSUME TypeOK, TypeOK', Ends, NEW type, NEW T, NEW a, NEW b, NEW dest,
           NEW client, Started(type, T, a, b, dest, client)
    PROVE  Ends'
<1> DEFINE new == Dead(T, a, a..b, dest)
           tag == IF type = "sync" THEN "send_sync_timeout"
                                   ELSE "send_async_timeout"
           N(t) == [ref |-> RefOf(t, a),
                    msg |-> [tag |-> tag, trans |-> t, ref |-> RefOf(t, a)]]
<1>1. /\ mailbox # <<>> /\ Mail({1}, new)
      /\ next_ref' = next_ref + (b - a + 1)
      /\ \A t \in a..b :
            send_timeouts'[t] =
               [type |-> type, tref |-> RefOf(t, a),
                pid |-> IF Watch(T) THEN dest[t] ELSE Undefined,
                client |-> client]
      /\ \A t \in TransIds \ (a..b) : send_timeouts'[t] = send_timeouts[t]
      /\ timers' = timers \cup {N(t) : t \in a..b}
      /\ a..b \subseteq TransIds
  BY StartedIs
<1>2. /\ type \in {"active", "passive", "sync"} /\ a \in TransIds
      /\ b \in TransIds /\ a <= b
      /\ Head(mailbox).tag \in LookupOps \cup PidOps
      /\ UNCHANGED <<cancelling, outcome, loose>>
  BY DEF Started, Handling
<1>3. /\ a \in Nat /\ b \in Nat /\ next_ref \in Nat /\ next_ref > 0
      /\ next_id \in Nat /\ next_id' \in Nat /\ Len(mailbox) \in Nat
      /\ next_ref' \in Nat /\ mailbox[1] = Head(mailbox)
  BY <1>1, <1>2 DEF TransIds, TypeOK
<1>4. /\ \A t \in a..b : ~Pending(t) /\ t < next_id'
      /\ next_id <= next_id'
      /\ \A j \in Box \ {1} : mailbox[j].tag \in PidOps =>
            mailbox[j].trans \notin a..b
      /\ \A i \in Box \ {1} : /\ mailbox[i].tag = "send_async_timeout"
                              /\ mailbox[i].trans \in a..b
                              => mailbox[i].ref \in loose
  BY StartedFresh
<1>5. \A t \in a..b : /\ RefOf(t, a) \in next_ref..(next_ref' - 1)
                      /\ RefOf(t, a) \in Nat
                      /\ \A u \in a..b : RefOf(t, a) = RefOf(u, a) => t = u
  <2>1. /\ next_ref' = next_ref + (b - a + 1)
        /\ a \in Nat /\ b \in Nat /\ next_ref \in Nat
    BY <1>1, <1>3, Zenon
  <2>2. \A t \in a..b : /\ next_ref + t - a \in next_ref..(next_ref' - 1)
                        /\ next_ref + t - a \in Nat
    BY <2>1
  <2>3. \A t, u \in a..b : next_ref + t - a = next_ref + u - a => t = u
    BY <2>1
  <2> QED  BY <2>2, <2>3 DEF RefOf
<1>6. \A t \in a..b : /\ send_timeouts'[t].tref = RefOf(t, a)
                      /\ send_timeouts'[t].type = type
                      /\ N(t).msg = TimeoutOf(t)' /\ N(t).ref = N(t).msg.ref
                      /\ N(t).ref = RefOf(t, a) /\ N(t).msg.trans = t
                      /\ N(t).msg.tag = tag
  <2>1. ASSUME NEW t \in a..b
        PROVE  /\ send_timeouts'[t].tref = RefOf(t, a)
               /\ send_timeouts'[t].type = type
    <3>1. send_timeouts'[t] =
             [type |-> type, tref |-> RefOf(t, a),
              pid |-> IF Watch(T) THEN dest[t] ELSE Undefined,
              client |-> client]
      BY <1>1, Zenon
    <3> QED  BY <3>1
  <2>2. ASSUME NEW t \in a..b
        PROVE  N(t).msg = TimeoutOf(t)'
    <3>1. N(t).msg = [tag |-> tag, trans |-> t, ref |-> RefOf(t, a)]
      OBVIOUS
    <3>2. TimeoutOf(t)' = [tag |-> tag, trans |-> t, ref |-> RefOf(t, a)]
      BY <2>1, Zenon DEF TimeoutOf
    <3> HIDE DEF N
    <3> QED  BY <3>1, <3>2
  <2>3. ASSUME NEW t \in a..b
        PROVE  /\ N(t).ref = N(t).msg.ref
               /\ N(t).ref = RefOf(t, a) /\ N(t).msg.trans = t
               /\ N(t).msg.tag = tag
    OBVIOUS
  <2> HIDE DEF N, tag
  <2> QED  BY <2>1, <2>2, <2>3
<1>7. tag \in SendTimeouts
  BY DEF SendTimeouts
<1>8. \A t \in a..b : Pending(t)'
  <2>1. \A t \in a..b : send_timeouts'[t].type = type
    BY <1>6
  <2>2. NoEntry.type # type
    BY <1>2 DEF NoEntry
  <2>3. \A t \in a..b : send_timeouts'[t] # NoEntry
    BY <2>1, <2>2
  <2> QED  BY <2>3 DEF Pending
<1>9. \A t \in TransIds \ (a..b) : /\ Pending(t)' <=> Pending(t)
                                   /\ TimeoutOf(t)' = TimeoutOf(t)
                                   /\ send_timeouts'[t] = send_timeouts[t]
  BY <1>1 DEF Pending, TimeoutOf
<1>10. PICK f : From(f, {1}, new)
  BY <1>1 DEF Mail
<1>11. \A m \in new : m.tag = "DOWN"
  BY DEF Dead, Down
<1> HIDE DEF new, N, tag
<1>12. \A i \in Box' : \/ /\ f[i] \in Box \ {1}
                          /\ mailbox'[i] = mailbox[f[i]]
                       \/ mailbox'[i].tag = "DOWN"
  BY <1>3, <1>10, <1>11 DEF From, Box
<1>13. \A k \in Box \ {1} : \E i \in Box' : f[i] = k /\ mailbox'[i] = mailbox[k]
  BY <1>3, <1>10 DEF From, Box
<1>14. /\ loose \cup cancelling \subseteq 1..(next_ref - 1)
       /\ next_ref <= next_ref'
  BY <1>1, <1>2, <1>3 DEF Ends, TimerRefs
<1>15. PendingRefs'
  <2>1. ASSUME NEW t \in TransIds, Pending(t)'
        PROVE  /\ send_timeouts'[t].tref \in 1..(next_ref' - 1)
               /\ send_timeouts'[t].tref \notin loose \cup cancelling
               /\ t < next_id'
               /\ \A u \in TransIds :
                     Pending(u)' /\ send_timeouts'[u].tref = send_timeouts'[t].tref
                        => u = t
    <3>1. CASE t \in a..b
      <4>1. /\ RefOf(t, a) \in 1..(next_ref' - 1)
            /\ RefOf(t, a) \notin 1..(next_ref - 1)
        BY <1>3, <1>5, <3>1
      <4>2. ASSUME NEW u \in TransIds, Pending(u)',
                   send_timeouts'[u].tref = RefOf(t, a)
            PROVE  u = t
        <5>1. CASE u \in a..b
          BY <1>5, <1>6, <3>1, <4>2, <5>1
        <5>2. CASE u \notin a..b
          <6>1. send_timeouts[u].tref \in 1..(next_ref - 1)
            BY <1>9, <4>2, <5>2 DEF Ends, PendingRefs
          <6> QED  BY <1>9, <4>1, <4>2, <5>2, <6>1
        <5> QED  BY <5>1, <5>2
      <4>3. t < next_id'
        BY <1>4, <3>1
      <4> QED  BY <1>6, <1>14, <3>1, <4>1, <4>2, <4>3
    <3>2. CASE t \notin a..b
      <4>1. /\ Pending(t) /\ send_timeouts'[t] = send_timeouts[t]
            /\ send_timeouts[t].tref \in 1..(next_ref - 1)
            /\ send_timeouts[t].tref \notin loose \cup cancelling
            /\ t < next_id
        BY <1>9, <2>1, <3>2 DEF Ends, PendingRefs
      <4>2. /\ send_timeouts[t].tref \in 1..(next_ref' - 1) /\ t < next_id'
        BY <1>3, <1>4, <1>14, <4>1 DEF TransIds
      <4>3. ASSUME NEW u \in TransIds, Pending(u)',
                   send_timeouts'[u].tref = send_timeouts[t].tref
            PROVE  u = t
        <5>1. CASE u \in a..b
          <6>1. RefOf(u, a) = send_timeouts[t].tref
            BY <1>6, <4>3, <5>1
          <6> QED  BY <1>3, <1>5, <4>1, <5>1, <6>1
        <5>2. CASE u \notin a..b
          <6>1. Pending(u) /\ send_timeouts[u].tref = send_timeouts[t].tref
            BY <1>9, <4>3, <5>2
          <6> QED  BY <4>1, <6>1 DEF Ends, PendingRefs
        <5> QED  BY <5>1, <5>2
      <4> QED  BY <4>1, <4>2, <4>3
    <3> QED  BY <3>1, <3>2
  <2> QED  BY <1>2, <2>1 DEF PendingRefs
<1>16. \A tm \in timers' : tm \in timers \/ \E t \in a..b : tm = N(t)
  BY <1>1
<1>17. TimerRefs'
  <2>1. loose' \cup cancelling' \subseteq 1..(next_ref' - 1)
    BY <1>2, <1>3, <1>14
  <2>2. ASSUME NEW tm \in timers', tm.msg.tag \in SendTimeouts
        PROVE  /\ tm.ref = tm.msg.ref
               /\ tm.ref \in loose' \/ /\ Pending(tm.msg.trans)'
                                       /\ tm.msg = TimeoutOf(tm.msg.trans)'
    <3>1. CASE tm \in timers
      <4>1. tm.msg \in Message
        BY DEF TypeOK
      <4>2. tm.msg.trans \in TransIds
        BY <2>2, <4>1, MessageKinds DEF SendTimeouts, TimeoutMessage
      <4>3. /\ tm.ref = tm.msg.ref
            /\ tm.ref \in loose \/ /\ Pending(tm.msg.trans)
                                   /\ tm.msg = TimeoutOf(tm.msg.trans)
        BY <2>2, <3>1 DEF Ends, TimerRefs
      <4> QED  BY <1>2, <1>4, <1>9, <4>2, <4>3
    <3>2. CASE \E t \in a..b : tm = N(t)
      <4>1. PICK t \in a..b : tm = N(t)
        BY <3>2
      <4>2. tm.msg.trans = t /\ tm.msg = TimeoutOf(t)' /\ tm.ref = tm.msg.ref
        BY <1>6, <4>1
      <4>3. Pending(tm.msg.trans)' /\ TimeoutOf(tm.msg.trans)' = TimeoutOf(t)'
        BY <1>8, <4>2
      <4> QED  BY <4>2, <4>3
    <3> QED  BY <1>16, <3>1, <3>2
  <2>3. ASSUME NEW tm \in timers', tm.msg.tag \notin SendTimeouts
        PROVE  tm.ref = 0 /\ tm.msg.tag \notin PidOps \cup {"monitor", "DOWN"}
    BY <1>6, <1>7, <1>16, <2>3 DEF Ends, TimerRefs
  <2> QED  BY <2>1, <2>2, <2>3 DEF TimerRefs
<1>18. OutcomeRefs'
  <2>1. ASSUME NEW t \in TransIds, NEW i \in 1..Len(outcome[t])
        PROVE  /\ outcome[t][i].ref < next_ref'
               /\ Pending(t)' => outcome[t][i].ref # send_timeouts'[t].tref
               /\ \A j \in 1..Len(outcome[t]) :
                     outcome[t][i].ref = outcome[t][j].ref => i = j
    <3>1. /\ outcome[t][i].ref < next_ref
          /\ Pending(t) => outcome[t][i].ref # send_timeouts[t].tref
          /\ \A j \in 1..Len(outcome[t]) :
                outcome[t][i].ref = outcome[t][j].ref => i = j
      BY DEF Ends, OutcomeRefs
    <3>2. outcome[t][i].ref \in Nat
      BY OutcomeType
    <3>3. outcome[t][i].ref < next_ref'
      <4>1. /\ next_ref' = next_ref + (b - a + 1) /\ a <= b
            /\ a \in Nat /\ b \in Nat /\ next_ref \in Nat
        BY <1>1, <1>2, <1>3, Zenon
      <4> QED  BY <3>1, <3>2, <4>1
    <3>4. CASE t \in a..b
      <4>1. RefOf(t, a) # outcome[t][i].ref
        BY <1>3, <1>5, <3>1, <3>2, <3>4
      <4> QED  BY <1>6, <3>1, <3>3, <3>4, <4>1
    <3>5. CASE t \notin a..b
      BY <1>9, <3>1, <3>3, <3>5
    <3> QED  BY <3>4, <3>5
  <2> QED  BY <1>2, <2>1 DEF OutcomeRefs
<1>19. Issued'
  <2>1. ASSUME NEW i \in Box', mailbox'[i].tag \in SendTimeouts
        PROVE  mailbox'[i].trans < next_id'
    <3>1. f[i] \in Box /\ mailbox'[i] = mailbox[f[i]]
      BY <1>12, <2>1 DEF SendTimeouts
    <3>2. mailbox[f[i]].trans < next_id
      BY <2>1, <3>1 DEF Ends, Issued
    <3>3. mailbox[f[i]] \in Message
      BY <3>1 DEF TypeOK, Box
    <3>4. mailbox[f[i]].trans \in TransIds
      BY <2>1, <3>1, <3>3, MessageKinds DEF SendTimeouts, TimeoutMessage
    <3> QED  BY <1>3, <1>4, <3>1, <3>2, <3>4 DEF TransIds
  <2>2. ASSUME NEW tm \in timers', tm.msg.tag \in SendTimeouts
        PROVE  tm.msg.trans < next_id'
    <3>1. CASE tm \in timers
      <4>1. tm.msg \in Message
        BY DEF TypeOK
      <4>2. tm.msg.trans \in TransIds
        BY <2>2, <4>1, MessageKinds DEF SendTimeouts, TimeoutMessage
      <4>3. tm.msg.trans < next_id
        BY <2>2, <3>1 DEF Ends, Issued
      <4> QED  BY <1>3, <1>4, <4>2, <4>3 DEF TransIds
    <3>2. CASE \E t \in a..b : tm = N(t)
      BY <1>4, <1>6, <3>2
    <3> QED  BY <1>16, <3>1, <3>2
  <2>3. \A t \in TransIds : outcome'[t] # <<>> => t < next_id'
    BY <1>2, <1>3, <1>4 DEF Ends, Issued, TransIds
  <2> QED  BY <2>1, <2>2, <2>3 DEF Issued
<1>20. Reuse'
  <2>1. \A t \in TransIds : \A j \in Box \ {1} :
           mailbox[j].tag \in PidOps /\ mailbox[j].trans = t /\ ~Pending(t)
              => ~Pending(t)'
    BY <1>4, <1>9
  <2>2. \A m \in new : m.tag \notin PidOps /\ m.tag # "send_async_timeout"
    BY <1>11 DEF PidOps
  <2>3. loose \subseteq loose'
    BY <1>2
  <2> QED  BY <1>1, <1>4, <2>1, <2>2, <2>3, ReuseKept
<1>21. Stale'
  <2>1. ASSUME NEW i \in Box', mailbox'[i].tag = "send_async_timeout"
        PROVE  (\/ ~Pending(mailbox[i].trans)
                \/ mailbox[i].ref = send_timeouts[mailbox[i].trans].tref
                \/ mailbox[i].ref \in loose)'
    <3>1. f[i] \in Box \ {1} /\ mailbox'[i] = mailbox[f[i]]
      BY <1>12, <2>1
    <3>2. mailbox'[i] \in Message
      BY DEF TypeOK, Box
    <3>3. PICK u \in TransIds : mailbox'[i].trans = u
      BY <2>1, <3>2, MessageKinds DEF TimeoutMessage
    <3>4. CASE u \in a..b
      <4>1. mailbox[f[i]].ref \in loose
        BY <1>4, <2>1, <3>1, <3>3, <3>4
      <4> QED  BY <1>2, <3>1, <4>1
    <3>5. CASE u \notin a..b
      <4>1. \/ ~Pending(u) \/ mailbox'[i].ref = send_timeouts[u].tref
            \/ mailbox'[i].ref \in loose
        BY <2>1, <3>1, <3>3 DEF Ends, Stale
      <4>2. \/ ~Pending(u)' \/ mailbox'[i].ref = send_timeouts'[u].tref
            \/ mailbox'[i].ref \in loose'
        BY <1>2, <1>9, <3>5, <4>1
      <4> QED  BY <3>3, <4>2 DEF Pending
    <3> QED  BY <3>4, <3>5
  <2> QED  BY <2>1 DEF Stale
<1>22. WillEnd'
  <2>1. ASSUME NEW t \in TransIds, Pending(t)'
        PROVE  \/ \E tm \in timers' : tm.ref = send_timeouts'[t].tref
               \/ \E i \in Box' : mailbox'[i] = TimeoutOf(t)'
    <3>1. CASE t \in a..b
      <4>1. N(t) \in timers' /\ N(t).ref = send_timeouts'[t].tref
        BY <1>1, <1>6, <3>1
      <4> QED  BY <4>1
    <3>2. CASE t \notin a..b
      <4>1. Pending(t) /\ send_timeouts'[t] = send_timeouts[t]
            /\ TimeoutOf(t)' = TimeoutOf(t)
        BY <1>9, <2>1, <3>2
      <4>2. CASE Running(send_timeouts[t].tref)
        BY <1>1, <4>1, <4>2 DEF Running
      <4>3. CASE \E i \in Box : mailbox[i] = TimeoutOf(t)
        <5>1. PICK k \in Box : mailbox[k] = TimeoutOf(t)
          BY <4>3
        <5>2. mailbox[k].tag \notin LookupOps \cup PidOps
          BY <5>1 DEF TimeoutOf, LookupOps, PidOps
        <5>3. k # 1
          BY <1>2, <1>3, <5>2
        <5> QED  BY <1>13, <4>1, <5>1, <5>3
      <4> QED  BY <4>1, <4>2, <4>3 DEF Ends, WillEnd
    <3> QED  BY <3>1, <3>2
  <2> QED  BY <2>1 DEF WillEnd, Running
<1> QED  BY <1>15, <1>17, <1>18, <1>19, <1>20, <1>21, <1>22 DEF Ends

-----------------------------------------------------------------------------
(* Requests end, and only by what is theirs                                *)

LEMMA InitEnds == Init => Ends
<1> SUFFICES ASSUME Init PROVE Ends
  OBVIOUS
<1>1. /\ Box = {} /\ timers = {} /\ loose = {} /\ cancelling = {}
      /\ \A t \in TransIds : ~Pending(t)
      /\ \A t \in TransIds : outcome[t] = <<>>
  BY DEF Init, Box, Pending
<1>2. \A t \in TransIds : 1..Len(outcome[t]) = {}
  BY <1>1
<1>3. PendingRefs /\ TimerRefs /\ Reuse /\ Stale /\ WillEnd /\ Issued
  BY <1>1 DEF PendingRefs, TimerRefs, Reuse, Stale, WillEnd, Issued
<1>4. OutcomeRefs
  BY <1>2 DEF OutcomeRefs
<1> QED  BY <1>3, <1>4 DEF Ends

LEMMA NextEnds == TypeOK /\ TypeOK' /\ Ends /\ [Next]_vars => Ends'
<1> SUFFICES ASSUME TypeOK, TypeOK', Ends, [Next]_vars
             PROVE  Ends'
  OBVIOUS
<1>1. CASE UNCHANGED vars
  BY <1>1 DEF vars, Ends, PendingRefs, TimerRefs, OutcomeRefs, Issued, Reuse,
              Stale, WillEnd, Pending, Running, TimeoutOf, Box
<1>2. CASE Next
  BY <1>2, StepKinds, CalledEnds, StartedEnds, LookedUpEnds, MonitorEnds,
     RecvEnds, EndedEnds, OtherEnds, DownEnds, TimerEnds
     DEF Kinds
<1> QED  BY <1>1, <1>2

(* The timers, the timeout messages and the pending requests fit together  *)
(* in every reachable state: this is the inductive invariant behind the    *)
(* next theorems.                                                          *)
THEOREM RequestsEnd == Spec => []Ends
<1>1. Init => Ends
  BY InitEnds
<1>2. TypeOK /\ TypeOK' /\ Ends /\ [Next]_vars => Ends'
  BY NextEnds
<1> QED  BY <1>1, <1>2, TypeCorrect, PTL DEF Spec

(* A pending request always has its running timer or its own timeout       *)
(* message in the mailbox: neither a response, nor the cancellation of a   *)
(* timer, nor a destination's death (send_timeout_dead) can leave it       *)
(* pending with nothing to end it.                                         *)
THEOREM PendingRequestsEnd == Spec => []PendingWillEnd
<1>1. ASSUME TypeOK, Ends
      PROVE  PendingWillEnd
  <2>1. ASSUME NEW t \in TransIds, Pending(t),
               NEW i \in Box, mailbox[i] = TimeoutOf(t)
        PROVE  LET e == send_timeouts[t]
               IN  \E k \in DOMAIN mailbox :
                      /\ mailbox[k].tag = IF e.type = "sync"
                                          THEN "send_sync_timeout"
                                          ELSE "send_async_timeout"
                      /\ mailbox[k].trans = t
    <3>1. i \in DOMAIN mailbox
      BY <1>1 DEF TypeOK, Box
    <3>2. /\ mailbox[i].tag = IF send_timeouts[t].type = "sync"
                              THEN "send_sync_timeout"
                              ELSE "send_async_timeout"
          /\ mailbox[i].trans = t
      BY <2>1 DEF TimeoutOf
    <3> QED  BY <3>1, <3>2
  <2>2. \A t \in TransIds : Pending(t) =>
           \/ Running(send_timeouts[t].tref)
           \/ \E i \in Box : mailbox[i] = TimeoutOf(t)
    BY <1>1 DEF Ends, WillEnd
  <2> QED  BY <2>1, <2>2, Zenon DEF PendingWillEnd, InMailbox
<1> QED  BY <1>1, TypeCorrect, RequestsEnd, PTL

-----------------------------------------------------------------------------
(* Every call is answered at most once                                     *)

\* Where a call is: in the mailbox, in the timer that repeats it, or waiting
\* for the end of the request it sent.
CallAt(c) == {i \in Box : mailbox[i].tag \in AllOps /\ mailbox[i].call = c}
CallTimers(c) == {tm \in timers : tm.msg.tag \in AllOps /\ tm.msg.call = c}
CallWaits(c) == {t \in TransIds : Pending(t) /\ send_timeouts[t].client = c}

Single(S) == \A x, y \in S : x = y

\* It is in one place only, and nowhere before it is made or once it is
\* answered.
OnceAt(c) ==
    /\ Single(CallAt(c)) /\ Single(CallTimers(c)) /\ Single(CallWaits(c))
    /\ CallAt(c) # {} => CallTimers(c) = {} /\ CallWaits(c) = {}
    /\ CallTimers(c) # {} => CallWaits(c) = {}
    /\ replies[c] # <<>> \/ c \notin made =>
          CallAt(c) = {} /\ CallTimers(c) = {} /\ CallWaits(c) = {}
    /\ c \notin made => replies[c] = <<>>
    /\ Len(replies[c]) <= 1
CallOnce == \A c \in Calls : OnceAt(c)

\* The step leaves the call c where it is.
Elsewhere(c, new) ==
    /\ \A m \in new : m.tag \in AllOps => m.call # c
    /\ CallTimers(c)' \subseteq CallTimers(c)
    /\ CallWaits(c)' \subseteq CallWaits(c)
    /\ replies'[c] = replies[c]
    /\ c \in made' <=> c \in made

(* A message stays in the mailbox.                                         *)
LEMMA CallStays ==
    ASSUME TypeOK, NEW c, NEW gone, NEW new, Mail(gone, new),
           \A m \in new : m.tag \in AllOps => m.call # c
    PROVE  /\ Single(CallAt(c)) => Single(CallAt(c)')
           /\ CallAt(c)' # {} => CallAt(c) \ gone # {}
<1>1. PICK f : From(f, gone, new)
  BY DEF Mail
<1>2. Len(mailbox) \in Nat
  BY DEF TypeOK
<1>3. ASSUME NEW i \in CallAt(c)'
      PROVE  f[i] \in CallAt(c) \ gone
  <2>1. i \in 1..Len(mailbox') /\ mailbox'[i].tag \in AllOps
        /\ mailbox'[i].call = c
    BY DEF CallAt, Box
  <2>2. mailbox'[i] \notin new
    BY <2>1
  <2>3. f[i] \in Box \ gone /\ mailbox'[i] = mailbox[f[i]]
    BY <1>1, <1>2, <2>1, <2>2 DEF From, Box
  <2> QED  BY <2>1, <2>3 DEF CallAt
<1>4. ASSUME Single(CallAt(c)), NEW i \in CallAt(c)', NEW j \in CallAt(c)'
      PROVE  i = j
  <2>1. f[i] = f[j]
    BY <1>3, <1>4 DEF Single
  <2>2. f[i] \in Nat /\ f[j] \in Nat /\ i \in Nat /\ j \in Nat
        /\ i \in 1..Len(mailbox') /\ j \in 1..Len(mailbox')
    BY <1>1 DEF From, CallAt, Box
  <2>3. ~(f[i] < f[j]) /\ ~(f[j] < f[i])
    BY <2>1, <2>2
  <2>4. ~(i < j) /\ ~(j < i)
    BY <1>1, <2>2, <2>3 DEF From
  <2> QED  BY <2>2, <2>4
<1>5. Single(CallAt(c)) => Single(CallAt(c)')
  BY <1>4 DEF Single
<1>6. CallAt(c)' # {} => CallAt(c) \ gone # {}
  BY <1>3
<1> QED  BY <1>5, <1>6

LEMMA OnceElsewhere ==
    ASSUME TypeOK, NEW c \in Calls, OnceAt(c), NEW gone, NEW new,
           Mail(gone, new), Elsewhere(c, new)
    PROVE  OnceAt(c)'
<1>1. /\ Single(CallAt(c)) => Single(CallAt(c)')
      /\ CallAt(c)' # {} => CallAt(c) # {}
  BY CallStays DEF Elsewhere
<1>2. /\ CallTimers(c)' \subseteq CallTimers(c)
      /\ CallWaits(c)' \subseteq CallWaits(c)
      /\ replies'[c] = replies[c]
      /\ c \in made' <=> c \in made
  BY DEF Elsewhere
<1> HIDE DEF CallAt, CallTimers, CallWaits
<1>3. Single(CallTimers(c)') /\ Single(CallWaits(c)')
  BY <1>2 DEF OnceAt, Single
<1>4. CallTimers(c)' # {} => CallTimers(c) # {}
  BY <1>2
<1>5. CallWaits(c)' # {} => CallWaits(c) # {}
  BY <1>2
<1> QED  BY <1>1, <1>2, <1>3, <1>4, <1>5 DEF OnceAt

(* The call that is handled is nowhere else, and is gone from the mailbox. *)
LEMMA CallHandled ==
    ASSUME TypeOK, NEW c \in Calls, OnceAt(c), mailbox # <<>>,
           Head(mailbox).tag \in AllOps, Head(mailbox).call = c,
           NEW gone, 1 \in gone, NEW new, Mail(gone, new),
           \A m \in new : m.tag \in AllOps => m.call # c
    PROVE  /\ CallAt(c)' = {} /\ CallTimers(c) = {} /\ CallWaits(c) = {}
           /\ replies[c] = <<>> /\ c \in made
<1>1. 1 \in CallAt(c)
  <2>1. mailbox[1] = Head(mailbox) /\ 1 \in Box
    BY DEF TypeOK, Box
  <2> QED  BY <2>1 DEF CallAt
<1>2. \A i \in CallAt(c) : i = 1
  BY <1>1 DEF OnceAt, Single
<1>3. CallAt(c) \ gone = {}
  BY <1>2
<1>4. CallAt(c)' = {}
  BY <1>3, CallStays
<1> QED  BY <1>1, <1>4 DEF OnceAt

(* It is answered ...                                                      *)
LEMMA OnceAnswered ==
    ASSUME NEW c \in Calls, NEW v, CallAt(c)' = {}, CallTimers(c)' = {},
           CallWaits(c)' = {}, c \in made', replies[c] = <<>>,
           replies'[c] = Append(replies[c], v)
    PROVE  OnceAt(c)'
<1>1. replies'[c] = <<v>>
  OBVIOUS
<1>2. Len(replies'[c]) <= 1
  BY <1>1
<1> QED  BY <1>2 DEF OnceAt, Single

(* ... or goes somewhere else.                                             *)
LEMMA OnceMoved ==
    ASSUME NEW c \in Calls, c \in made', replies'[c] = <<>>,
           Single(CallAt(c)'), Single(CallTimers(c)'), Single(CallWaits(c)'),
           \/ CallTimers(c)' = {} /\ CallWaits(c)' = {}
           \/ CallAt(c)' = {} /\ CallWaits(c)' = {}
           \/ CallAt(c)' = {} /\ CallTimers(c)' = {}
    PROVE  OnceAt(c)'
<1>1. Len(replies'[c]) <= 1
  OBVIOUS
<1> QED  BY <1>1 DEF OnceAt

\* No timer repeats a call that none repeated, no request is waited for
\* that was not.
TimersLess == \A tm \in timers' : tm.msg.tag \in AllOps => tm \in timers
WaitsLess ==
    \A t \in TransIds : Pending(t)' =>
        \/ send_timeouts'[t].client = Undefined
        \/ Pending(t) /\ send_timeouts'[t].client = send_timeouts[t].client

LEMMA PlacesLess ==
    ASSUME TimersLess, WaitsLess, NEW c \in Calls
    PROVE  /\ CallTimers(c)' \subseteq CallTimers(c)
           /\ CallWaits(c)' \subseteq CallWaits(c)
<1>1. CallTimers(c)' \subseteq CallTimers(c)
  BY DEF TimersLess, CallTimers
<1>2. c # Undefined
  BY SenderAssumption
<1>3. ASSUME NEW t \in CallWaits(c)'
      PROVE  t \in CallWaits(c)
  <2>1. t \in TransIds /\ Pending(t)' /\ send_timeouts'[t].client = c
    BY DEF CallWaits
  <2> QED  BY <1>2, <2>1 DEF WaitsLess, CallWaits
<1> QED  BY <1>1, <1>3

(* Steps that touch no call.                                               *)
LEMMA NoCall ==
    ASSUME TypeOK, CallOnce, NEW gone, NEW new, Mail(gone, new),
           \A m \in new : m.tag \notin AllOps,
           TimersLess, WaitsLess, UNCHANGED <<replies, made>>
    PROVE  CallOnce'
<1>1. ASSUME NEW c \in Calls
      PROVE  OnceAt(c)'
  <2>1. OnceAt(c)
    BY DEF CallOnce
  <2>2. Elsewhere(c, new)
    BY PlacesLess DEF Elsewhere
  <2> QED  BY <2>1, <2>2, OnceElsewhere
<1> QED  BY <1>1 DEF CallOnce

(* The call in hand is answered.                                           *)
LEMMA HeadAnswered ==
    ASSUME TypeOK, CallOnce, mailbox # <<>>, Head(mailbox).tag \in AllOps,
           NEW new, Mail({1}, new), \A m \in new : m.tag \notin AllOps,
           TimersLess, WaitsLess, UNCHANGED made,
           NEW v, reply(Head(mailbox).call, v)
    PROVE  CallOnce'
<1>1. PICK d : d = Head(mailbox).call
  OBVIOUS
<1>2. replies' = [replies EXCEPT ![d] = Append(@, v)]
      /\ replies = [c \in Calls |-> replies[c]]
  BY <1>1 DEF reply, TypeOK
<1>3. ASSUME NEW c \in Calls, c # d
      PROVE  OnceAt(c)'
  <2>1. OnceAt(c)
    BY DEF CallOnce
  <2>2. replies'[c] = replies[c]
    BY <1>2, <1>3
  <2>3. Elsewhere(c, new)
    BY <2>2, PlacesLess DEF Elsewhere
  <2> QED  BY <2>1, <2>3, OnceElsewhere
<1>4. ASSUME d \in Calls
      PROVE  OnceAt(d)'
  <2>1. OnceAt(d)
    BY <1>4 DEF CallOnce
  <2>2. /\ CallAt(d)' = {} /\ CallTimers(d) = {} /\ CallWaits(d) = {}
        /\ replies[d] = <<>> /\ d \in made
    BY <1>1, <1>4, <2>1, CallHandled
  <2>3. CallTimers(d)' \subseteq CallTimers(d)
        /\ CallWaits(d)' \subseteq CallWaits(d)
    BY <1>4, PlacesLess
  <2>4. CallTimers(d)' = {} /\ CallWaits(d)' = {}
    BY <2>2, <2>3
  <2>5. replies'[d] = Append(replies[d], v)
    BY <1>2, <1>4
  <2> QED  BY <1>4, <2>2, <2>4, <2>5, OnceAnswered
<1> QED  BY <1>3, <1>4 DEF CallOnce

(* The call in hand will be repeated.                                      *)
LEMMA HeadRepeated ==
    ASSUME TypeOK, CallOnce, mailbox # <<>>, Head(mailbox).tag \in AllOps,
           Mail({1}, {}), NEW again, again.call = Head(mailbox).call,
           timers' = timers \cup {[ref |-> 0, msg |-> again]},
           WaitsLess, UNCHANGED <<replies, made>>
    PROVE  CallOnce'
<1>1. PICK d : d = Head(mailbox).call
  OBVIOUS
<1> DEFINE x == [ref |-> 0, msg |-> again]
<1>2. x.msg.call = d
  BY <1>1
<1> HIDE DEF x
<1>3. ASSUME NEW c \in Calls, c # d
      PROVE  OnceAt(c)'
  <2>1. OnceAt(c)
    BY DEF CallOnce
  <2>2. CallTimers(c)' \subseteq CallTimers(c)
    BY <1>2, <1>3 DEF CallTimers, x
  <2>3. CallWaits(c)' \subseteq CallWaits(c)
    <3>1. c # Undefined
      BY SenderAssumption
    <3> QED  BY <3>1 DEF WaitsLess, CallWaits
  <2>4. Elsewhere(c, {})
    BY <2>2, <2>3 DEF Elsewhere
  <2> QED  BY <2>1, <2>4, OnceElsewhere
<1>4. ASSUME d \in Calls
      PROVE  OnceAt(d)'
  <2>1. OnceAt(d)
    BY <1>4 DEF CallOnce
  <2>2. /\ CallAt(d)' = {} /\ CallTimers(d) = {} /\ CallWaits(d) = {}
        /\ replies[d] = <<>> /\ d \in made
    BY <1>1, <1>4, <2>1, CallHandled
  <2>3. CallWaits(d)' = {}
    <3>1. d # Undefined
      BY <1>4, SenderAssumption
    <3>2. CallWaits(d)' \subseteq CallWaits(d)
      BY <3>1 DEF WaitsLess, CallWaits
    <3> QED  BY <2>2, <3>2
  <2>4. \A tm \in CallTimers(d)' : tm = x
    BY <2>2 DEF CallTimers, x
  <2>5. Single(CallTimers(d)') /\ Single(CallAt(d)') /\ Single(CallWaits(d)')
    BY <2>2, <2>3, <2>4 DEF Single
  <2> QED  BY <1>4, <2>2, <2>3, <2>5, OnceMoved
<1> QED  BY <1>3, <1>4 DEF CallOnce

(* A call arrives in the mailbox.                                          *)
LEMMA CallArrives ==
    ASSUME TypeOK, NEW c, NEW m, mailbox' = Append(mailbox, m), CallAt(c) = {}
    PROVE  Single(CallAt(c)')
<1>1. /\ Len(mailbox) \in Nat /\ Len(mailbox') = Len(mailbox) + 1
      /\ \A i \in 1..Len(mailbox) : mailbox'[i] = mailbox[i]
  BY DEF TypeOK
<1>2. ASSUME NEW i \in CallAt(c)'
      PROVE  i = Len(mailbox) + 1
  <2>1. i \in 1..Len(mailbox') /\ mailbox'[i].tag \in AllOps
        /\ mailbox'[i].call = c
    BY DEF CallAt, Box
  <2>2. i \notin 1..Len(mailbox)
    BY <1>1, <2>1 DEF CallAt, Box
  <2> QED  BY <1>1, <2>1, <2>2
<1> QED  BY <1>2 DEF Single

LEMMA CalledOnce ==
    ASSUME TypeOK, CallOnce, NEW d, NEW msg, Called(d, msg)
    PROVE  CallOnce'
<1>1. /\ d \in Calls /\ d \notin made /\ made' = made \cup {d}
      /\ msg \in Message /\ msg.call = d /\ mailbox' = Append(mailbox, msg)
      /\ UNCHANGED <<replies, timers, send_timeouts>>
  BY DEF Called, call
<1>2. Mail({}, {msg})
  BY <1>1, MailOne
<1>3. \A c : CallTimers(c)' = CallTimers(c) /\ CallWaits(c)' = CallWaits(c)
  BY <1>1 DEF CallTimers, CallWaits, Pending
<1>4. ASSUME NEW c \in Calls, c # d
      PROVE  OnceAt(c)'
  <2>1. OnceAt(c)
    BY DEF CallOnce
  <2>2. Elsewhere(c, {msg})
    BY <1>1, <1>3, <1>4 DEF Elsewhere
  <2> QED  BY <1>2, <2>1, <2>2, OnceElsewhere
<1>5. OnceAt(d)'
  <2>1. OnceAt(d)
    BY <1>1 DEF CallOnce
  <2>2. /\ CallAt(d) = {} /\ CallTimers(d)' = {} /\ CallWaits(d)' = {}
        /\ replies'[d] = <<>> /\ d \in made'
    BY <1>1, <1>3, <2>1 DEF OnceAt
  <2>3. Single(CallAt(d)')
    BY <1>1, <2>2, CallArrives
  <2>4. Single(CallTimers(d)') /\ Single(CallWaits(d)')
    BY <2>2 DEF Single
  <2> QED  BY <1>1, <2>2, <2>3, <2>4, OnceMoved
<1> QED  BY <1>4, <1>5 DEF CallOnce

LEMMA HandledOnce ==
    ASSUME TypeOK, CallOnce, LookedUp \/ HandleRecv \/ HandleMonitor
    PROVE  CallOnce'
<1> DEFINE m == Head(mailbox)
<1>1. /\ mailbox # <<>> /\ m.tag \in LookupOps \cup RecvOps \cup {"monitor"}
      /\ UNCHANGED <<made, send_timeouts>>
  BY DEF LookedUp, HandleRecv, HandleMonitor, Handling
<1>2. m.tag \in AllOps
  BY <1>1 DEF AllOps
<1>3. WaitsLess
  BY <1>1 DEF WaitsLess, Pending
<1>4. UNCHANGED timers => TimersLess
  BY DEF TimersLess
<1>5. CASE LookedUp
  <2>1. mailbox' = Tail(mailbox) /\ m.tag \in LookupOps
    BY <1>5 DEF LookedUp, Handling
  <2>2. Mail({1}, {})
    BY <1>1, <2>1, MailTail
  <2>3. ASSUME NEW v, reply(m.call, v), UNCHANGED timers
        PROVE  CallOnce'
    BY <1>1, <1>2, <1>3, <1>4, <2>2, <2>3, HeadAnswered
  <2>4. ASSUME NEW T \in Nat, UNCHANGED replies,
               timers' = timers \cup {[ref |-> 0, msg |-> [m EXCEPT !.timeout = T]]}
        PROVE  CallOnce'
    <3> DEFINE again == [m EXCEPT !.timeout = T]
    <3>1. m \in LookupMessage
      BY <1>1, <2>1, HeadMessage, MessageKinds
    <3>2. again.call = m.call
      BY <3>1 DEF LookupMessage
    <3>3. timers' = timers \cup {[ref |-> 0, msg |-> again]}
      BY <2>4
    <3> HIDE DEF again, m
    <3> QED  BY <1>1, <1>2, <1>3, <2>2, <2>4, <3>2, <3>3, HeadRepeated DEF m
  <2> QED  BY <1>5, <2>3, <2>4 DEF LookedUp
<1>6. CASE HandleRecv
  <2>1. mailbox' = Tail(mailbox)
    BY <1>6 DEF HandleRecv
  <2>2. Mail({1}, {})
    BY <1>1, <2>1, MailTail
  <2>3. ASSUME NEW v, reply(m.call, v), UNCHANGED timers
        PROVE  CallOnce'
    BY <1>1, <1>2, <1>3, <1>4, <2>2, <2>3, HeadAnswered
  <2>4. ASSUME NEW again, again.call = m.call, UNCHANGED replies,
               timers' = timers \cup {[ref |-> 0, msg |-> again]}
        PROVE  CallOnce'
    BY <1>1, <1>2, <1>3, <2>2, <2>4, HeadRepeated
  <2>5. \/ /\ UNCHANGED timers
           /\ \E v \in Reply : reply(m.call, v)
        \/ /\ UNCHANGED replies
           /\ \E again \in RecvMessage \cup RecvsMessage :
                 /\ timers' = timers \cup {[ref |-> 0, msg |-> again]}
                 /\ again.tag = m.tag /\ again.call = m.call
    BY <1>6, RecvIs
  <2> QED  BY <2>3, <2>4, <2>5
<1>7. CASE HandleMonitor
  <2> DEFINE d == Down(next_ref, m.pid)
  <2>1. /\ UNCHANGED timers /\ m.tag = "monitor"
        /\ reply(m.call, Ok({}, FALSE))
        /\ mailbox' = Tail(mailbox) \/ mailbox' = Append(Tail(mailbox), d)
    BY <1>7 DEF HandleMonitor, Handling
  <2>2. d \in Message
    <3>1. m.pid \in Pids
      BY <1>1, <2>1, HeadMessage, MessageKinds DEF MonitorMessage
    <3> QED  BY <3>1, MadeMessages DEF TypeOK
  <2>3. d.tag \notin AllOps
    BY DEF Down, AllOps, LookupOps, PidOps, RecvOps
  <2>4. \E new : Mail({1}, new) /\ \A x \in new : x.tag \notin AllOps
    <3> HIDE DEF d
    <3>1. CASE mailbox' = Tail(mailbox)
      <4>1. Mail({1}, {})
        BY <1>1, <3>1, MailTail
      <4> QED  BY <4>1
    <3>2. CASE mailbox' = Append(Tail(mailbox), d)
      <4>1. Mail({1}, {d})
        BY <1>1, <2>2, <3>2, MailTailOne
      <4> QED  BY <2>3, <4>1
    <3> QED  BY <2>1, <3>1, <3>2
  <2> QED  BY <1>1, <1>2, <1>3, <1>4, <2>1, <2>4, HeadAnswered
<1> QED  BY <1>5, <1>6, <1>7

LEMMA StartedOnce ==
    ASSUME TypeOK, CallOnce, NEW type, NEW T, NEW a, NEW b, NEW dest,
           NEW client, Started(type, T, a, b, dest, client)
    PROVE  CallOnce'
<1> DEFINE new == Dead(T, a, a..b, dest)
           tag == IF type = "sync" THEN "send_sync_timeout"
                                   ELSE "send_async_timeout"
           N(t) == [ref |-> RefOf(t, a),
                    msg |-> [tag |-> tag, trans |-> t, ref |-> RefOf(t, a)]]
<1>1. /\ mailbox # <<>> /\ Mail({1}, new)
      /\ \A t \in TransIds \ (a..b) : send_timeouts'[t] = send_timeouts[t]
      /\ timers' = timers \cup {N(t) : t \in a..b}
      /\ a..b \subseteq TransIds
  BY StartedIs
<1>2. \A t \in a..b : send_timeouts'[t].client = client
  <2>1. \A t \in a..b :
            send_timeouts'[t] =
               [type |-> type, tref |-> RefOf(t, a),
                pid |-> IF Watch(T) THEN dest[t] ELSE Undefined,
                client |-> client]
    BY StartedIs
  <2> SUFFICES ASSUME NEW t \in a..b
               PROVE  send_timeouts'[t].client = client
    OBVIOUS
  <2>2. \E x, y : send_timeouts'[t] = [type |-> type, tref |-> x, pid |-> y,
                                      client |-> client]
    BY <2>1, Zenon
  <2> QED  BY <2>2
<1>3. /\ Head(mailbox).tag \in LookupOps \cup PidOps /\ UNCHANGED made
      /\ a \in TransIds
      /\ IF type = "sync"
         THEN a = b /\ client = Head(mailbox).call /\ UNCHANGED replies
         ELSE /\ client = Undefined
              /\ \E ids \in SUBSET TransIds :
                    reply(Head(mailbox).call, Ok(ids, FALSE))
  BY DEF Started, Handling
<1>4. Head(mailbox).tag \in AllOps
  BY <1>3 DEF AllOps
<1>5. TimersLess
  <2>1. tag \notin AllOps
    BY DEF AllOps, LookupOps, PidOps, RecvOps
  <2>2. \A t \in a..b : N(t).msg.tag = tag
    OBVIOUS
  <2> HIDE DEF N, tag
  <2> QED  BY <1>1, <2>1, <2>2 DEF TimersLess
<1>6. \A x \in new : x.tag \notin AllOps
  BY DEF Dead, Down, AllOps, LookupOps, PidOps, RecvOps
<1> HIDE DEF new, N
<1>7. CASE type # "sync"
  <2>1. WaitsLess
    <3>1. \A t \in TransIds \ (a..b) : Pending(t)' => Pending(t)
      BY <1>1 DEF Pending
    <3> QED  BY <1>1, <1>2, <1>3, <1>7, <3>1 DEF WaitsLess
  <2> QED  BY <1>1, <1>3, <1>4, <1>5, <1>6, <1>7, <2>1, HeadAnswered
<1>8. CASE type = "sync"
  <2>1. PICK d : d = Head(mailbox).call
    OBVIOUS
  <2>2. /\ client = d /\ UNCHANGED replies
        /\ \A t \in a..b : t = a
    BY <1>3, <1>8, <2>1 DEF TransIds
  <2>3. ASSUME NEW c, NEW t \in CallWaits(c)'
        PROVE  t \in CallWaits(c) \/ (t = a /\ c = d)
    <3>1. t \in TransIds /\ Pending(t)' /\ send_timeouts'[t].client = c
      BY DEF CallWaits
    <3>2. CASE t \in a..b
      BY <1>2, <2>2, <3>1, <3>2
    <3>3. CASE t \notin a..b
      BY <1>1, <3>1, <3>3 DEF CallWaits, Pending
    <3> QED  BY <3>2, <3>3
  <2>4. \A c : CallTimers(c)' \subseteq CallTimers(c)
    BY <1>5 DEF TimersLess, CallTimers
  <2>5. ASSUME NEW c \in Calls, c # d
        PROVE  OnceAt(c)'
    <3>1. OnceAt(c)
      BY DEF CallOnce
    <3>2. Elsewhere(c, new)
      BY <1>3, <1>6, <2>2, <2>3, <2>4, <2>5 DEF Elsewhere
    <3> QED  BY <1>1, <3>1, <3>2, OnceElsewhere
  <2>6. ASSUME d \in Calls
        PROVE  OnceAt(d)'
    <3>1. OnceAt(d)
      BY <2>6 DEF CallOnce
    <3>2. /\ CallAt(d)' = {} /\ CallTimers(d) = {} /\ CallWaits(d) = {}
          /\ replies[d] = <<>> /\ d \in made
      BY <1>1, <1>4, <1>6, <2>1, <2>6, <3>1, CallHandled
    <3>3. CallTimers(d)' = {}
      BY <2>4, <3>2
    <3>4. \A t \in CallWaits(d)' : t = a
      BY <2>3, <3>2
    <3>5. Single(CallTimers(d)') /\ Single(CallAt(d)') /\ Single(CallWaits(d)')
      BY <3>2, <3>3, <3>4 DEF Single
    <3> QED  BY <1>3, <2>2, <2>6, <3>2, <3>3, <3>5, OnceMoved
  <2> QED  BY <2>5, <2>6 DEF CallOnce
<1> QED  BY <1>7, <1>8

LEMMA EndedOnce ==
    ASSUME TypeOK, CallOnce, NEW t, NEW stop \in BOOLEAN,
           NEW store \in BOOLEAN, Ended(t, stop, store)
    PROVE  CallOnce'
<1>1. PICK e : e = send_timeouts[t]
  OBVIOUS
<1>2. /\ mailbox # <<>> /\ t \in TransIds /\ Pending(t)
      /\ send_timeout_end(t, e.pid) /\ UNCHANGED made
      /\ \/ UNCHANGED replies
         \/ \E v \in Reply : ~v.consume /\ reply(e.client, v)
  BY <1>1 DEF Ended, Handling
<1>3. /\ send_timeouts'[t] = NoEntry
      /\ \A u \in TransIds \ {t} : send_timeouts'[u] = send_timeouts[u]
  BY <1>2 DEF send_timeout_end, forget, TypeOK
<1>4. PICK gone : Mail(gone, {})
  BY <1>2, EndedMail
<1>5. TimersLess
  <2> DEFINE stored == [ref |-> 0, msg |-> [tag |-> "recv_async_timeout",
                                            trans |-> t, ref |-> 0]]
  <2>1. timers' \subseteq timers \cup {stored}
    BY DEF Ended, Stopped
  <2>2. stored.msg.tag \notin AllOps
    BY DEF AllOps, LookupOps, PidOps, RecvOps
  <2> HIDE DEF stored
  <2> QED  BY <2>1, <2>2 DEF TimersLess
<1>6. WaitsLess
  BY <1>3 DEF WaitsLess, Pending
<1>7. CASE UNCHANGED replies
  BY <1>2, <1>4, <1>5, <1>6, <1>7, NoCall
<1>8. ASSUME NEW v, reply(e.client, v)
      PROVE  CallOnce'
  <2>1. PICK d : d = e.client
    OBVIOUS
  <2>2. replies' = [replies EXCEPT ![d] = Append(@, v)]
        /\ replies = [c \in Calls |-> replies[c]]
    BY <1>8, <2>1 DEF reply, TypeOK
  <2>3. ASSUME NEW c \in Calls, c # d
        PROVE  OnceAt(c)'
    <3>1. OnceAt(c)
      BY DEF CallOnce
    <3>2. replies'[c] = replies[c]
      BY <2>2, <2>3
    <3>3. Elsewhere(c, {})
      BY <1>2, <1>5, <1>6, <3>2, PlacesLess DEF Elsewhere
    <3> QED  BY <1>4, <3>1, <3>3, OnceElsewhere
  <2>4. ASSUME d \in Calls
        PROVE  OnceAt(d)'
    <3>1. OnceAt(d)
      BY <2>4 DEF CallOnce
    <3>2. t \in CallWaits(d)
      BY <1>1, <1>2, <2>1 DEF CallWaits
    <3>3. /\ CallAt(d) = {} /\ CallTimers(d) = {}
          /\ replies[d] = <<>> /\ d \in made
          /\ \A u \in CallWaits(d) : u = t
      BY <3>1, <3>2 DEF OnceAt, Single
    <3>4. CallTimers(d)' = {}
      BY <1>5, <1>6, <2>4, <3>3, PlacesLess
    <3>5. CallWaits(d)' = {}
      <4>1. CallWaits(d)' \subseteq CallWaits(d)
        BY <1>5, <1>6, <2>4, PlacesLess
      <4>2. t \notin CallWaits(d)'
        BY <1>3 DEF CallWaits, Pending
      <4> QED  BY <3>3, <4>1, <4>2
    <3>6. CallAt(d)' = {}
      BY <1>4, <3>3, CallStays
    <3>7. replies'[d] = Append(replies[d], v)
      BY <2>2, <2>4
    <3> QED  BY <1>2, <2>4, <3>3, <3>4, <3>5, <3>6, <3>7, OnceAnswered
  <2> QED  BY <2>3, <2>4 DEF CallOnce
<1> QED  BY <1>2, <1>7, <1>8

LEMMA TimerOnce ==
    ASSUME TypeOK, CallOnce,
           Timer \/ \E ref \in cancelling : TimerCancelled(ref)
    PROVE  CallOnce'
<1>1. ASSUME NEW tm \in timers, TimerFires(tm)
      PROVE  CallOnce'
  <2>1. /\ timers' = timers \ {tm} /\ mailbox' = Append(mailbox, tm.msg)
        /\ UNCHANGED <<made, replies, send_timeouts>>
    BY <1>1 DEF TimerFires
  <2>2. tm.msg \in Message
    BY DEF TypeOK
  <2>3. Mail({}, {tm.msg})
    BY <2>1, <2>2, MailOne
  <2>4. TimersLess /\ WaitsLess
    BY <2>1 DEF TimersLess, WaitsLess, Pending
  <2>5. CASE tm.msg.tag \notin AllOps
    BY <2>1, <2>3, <2>4, <2>5, NoCall
  <2>6. CASE tm.msg.tag \in AllOps
    <3>1. PICK d : d = tm.msg.call
      OBVIOUS
    <3>2. ASSUME NEW c \in Calls, c # d
          PROVE  OnceAt(c)'
      <4>1. OnceAt(c)
        BY DEF CallOnce
      <4>2. Elsewhere(c, {tm.msg})
        BY <2>1, <2>4, <3>1, <3>2, PlacesLess DEF Elsewhere
      <4> QED  BY <2>3, <4>1, <4>2, OnceElsewhere
    <3>3. ASSUME d \in Calls
          PROVE  OnceAt(d)'
      <4>1. OnceAt(d)
        BY <3>3 DEF CallOnce
      <4>2. tm \in CallTimers(d)
        BY <2>6, <3>1 DEF CallTimers
      <4>3. /\ CallAt(d) = {} /\ CallWaits(d) = {}
            /\ replies[d] = <<>> /\ d \in made
            /\ \A x \in CallTimers(d) : x = tm
        BY <4>1, <4>2 DEF OnceAt, Single
      <4>4. CallTimers(d)' = {}
        <5>1. CallTimers(d)' \subseteq CallTimers(d)
          BY <2>4, <3>3, PlacesLess
        <5>2. tm \notin CallTimers(d)'
          BY <2>1 DEF CallTimers
        <5> QED  BY <4>3, <5>1, <5>2
      <4>5. CallWaits(d)' = {}
        BY <2>4, <3>3, <4>3, PlacesLess
      <4>6. Single(CallAt(d)')
        BY <2>1, <4>3, CallArrives
      <4>7. Single(CallTimers(d)') /\ Single(CallWaits(d)')
        BY <4>4, <4>5 DEF Single
      <4> QED  BY <2>1, <3>3, <4>3, <4>4, <4>5, <4>6, <4>7, OnceMoved
    <3> QED  BY <3>2, <3>3 DEF CallOnce
  <2> QED  BY <2>5, <2>6
<1>2. ASSUME NEW ref \in cancelling, TimerCancelled(ref)
      PROVE  CallOnce'
  <2>1. /\ timers' \subseteq timers
        /\ UNCHANGED <<made, replies, send_timeouts, mailbox>>
    BY <1>2 DEF TimerCancelled, Stopped
  <2>2. Mail({}, {})
    BY <2>1, MailSame
  <2>3. TimersLess /\ WaitsLess
    BY <2>1 DEF TimersLess, WaitsLess, Pending
  <2> QED  BY <2>1, <2>2, <2>3, NoCall
<1> QED  BY <1>1, <1>2 DEF Timer

LEMMA OtherOnce ==
    ASSUME TypeOK, CallOnce,
           HandleRecvAsyncTimeout \/ Ignored \/ Destination
    PROVE  CallOnce'
<1>1. UNCHANGED <<made, replies, timers, send_timeouts>>
  BY DEF HandleRecvAsyncTimeout, Ignored, ignore, Destination, DestReturn,
         DestForward, DestDie
<1>2. TimersLess /\ WaitsLess
  BY <1>1 DEF TimersLess, WaitsLess, Pending
<1>3. CASE HandleRecvAsyncTimeout \/ Ignored
  <2>1. mailbox # <<>> /\ mailbox' = Tail(mailbox)
    BY <1>3 DEF HandleRecvAsyncTimeout, Ignored, Handling, ignore
  <2>2. Mail({1}, {})
    BY <2>1, MailTail
  <2> QED  BY <1>1, <1>2, <2>2, NoCall
<1>4. ASSUME NEW r \in inflight, NEW T \in Timeouts, NEW empty \in BOOLEAN,
             DestReturn(r, T, empty)
      PROVE  CallOnce'
  <2> DEFINE tag == IF r.sync THEN "return_sync" ELSE "return_async"
             msg == [tag |-> tag, trans |-> r.trans, timeout |-> T,
                     empty |-> empty]
  <2>1. tag \in {"return_async", "return_sync"} /\ r.trans \in TransIds
        /\ T \in Nat
    BY SenderAssumption DEF TypeOK
  <2>2. msg \in Message
    <3> HIDE DEF tag
    <3> QED  BY <2>1, Zenon DEF Message, ReturnMessage
  <2>3. msg.tag \notin AllOps
    BY <2>1 DEF AllOps, LookupOps, PidOps, RecvOps
  <2>4. mailbox' = Append(mailbox, msg)
    BY <1>4 DEF DestReturn
  <2> HIDE DEF msg
  <2>5. Mail({}, {msg})
    BY <2>2, <2>4, MailOne
  <2> QED  BY <1>1, <1>2, <2>3, <2>5, NoCall
<1>5. ASSUME NEW r \in inflight, NEW p \in Pids, DestForward(r, p)
      PROVE  CallOnce'
  <2>1. UNCHANGED mailbox
    BY <1>5 DEF DestForward
  <2>2. Mail({}, {})
    BY <2>1, MailSame
  <2> QED  BY <1>1, <1>2, <2>2, NoCall
<1>6. ASSUME NEW p \in Mortal, DestDie(p)
      PROVE  CallOnce'
  <2> DEFINE new == {Down(x.ref, p) : x \in {y \in monitored : y.pid = p}}
  <2>1. Mail({}, new)
    BY <1>6, SenderAssumption, DieIs
  <2>2. \A m \in new : m.tag \notin AllOps
    BY DEF Down, AllOps, LookupOps, PidOps, RecvOps
  <2> HIDE DEF new
  <2> QED  BY <1>1, <1>2, <2>1, <2>2, NoCall
<1> QED  BY <1>3, <1>4, <1>5, <1>6 DEF Destination

LEMMA DownDoneOnce ==
    ASSUME TypeOK, CallOnce, HandleDown
    PROVE  CallOnce'
<1> DEFINE m == Head(mailbox)
<1>1. /\ mailbox # <<>> /\ m.pid \in Pids
      /\ UNCHANGED <<made, replies>>
  <2>1. mailbox # <<>> /\ m.tag = "DOWN"
    BY DEF HandleDown, Handling
  <2> QED  BY <2>1, HeadMessage, MessageKinds DEF DownMessage, HandleDown
<1>2. CASE mailbox' = Tail(mailbox) /\ UNCHANGED <<timers, send_timeouts>>
  <2>1. Mail({1}, {})
    BY <1>1, <1>2, MailTail
  <2>2. TimersLess /\ WaitsLess
    BY <1>2 DEF TimersLess, WaitsLess, Pending
  <2> QED  BY <1>1, <2>1, <2>2, NoCall
<1>3. CASE send_timeout_dead(m.pid)
  <2>1. PICK p \in Pids : p = m.pid /\ send_timeout_dead(p)
    BY <1>1, <1>3
  <2> DEFINE ids == Listed(p)
             new == {TimeoutOf(t) : t \in Awaited(p)}
  <2>2. /\ \A t \in ids : send_timeouts'[t] =
                             [send_timeouts[t] EXCEPT !.pid = Undefined]
        /\ \A t \in TransIds \ ids : send_timeouts'[t] = send_timeouts[t]
        /\ timers' = Stopped({send_timeouts[t].tref : t \in Awaited(p)})
        /\ Mail({1}, new)
    BY <1>1, <2>1, DeadIs
  <2>3. \A t \in ids : Pending(t)
    BY DEF Listed
  <2>4. TimersLess
    BY <2>2 DEF TimersLess, Stopped
  <2>5. WaitsLess
    <3>1. ASSUME NEW t \in TransIds, t \in ids
          PROVE  Pending(t) /\ send_timeouts'[t].client = send_timeouts[t].client
      <4>1. send_timeouts[t] \in Entries
        BY DEF TypeOK, Entries
      <4>2. send_timeouts'[t].client = send_timeouts[t].client
        BY <2>2, <3>1, <4>1 DEF Entries
      <4> QED  BY <2>3, <3>1, <4>2
    <3>2. ASSUME NEW t \in TransIds, t \notin ids, Pending(t)'
          PROVE  Pending(t) /\ send_timeouts'[t].client = send_timeouts[t].client
      BY <2>2, <3>2 DEF Pending
    <3> QED  BY <3>1, <3>2 DEF WaitsLess
  <2>6. \A x \in new : x.tag \notin AllOps
    BY DEF TimeoutOf, AllOps, LookupOps, PidOps, RecvOps
  <2> HIDE DEF new
  <2> QED  BY <1>1, <2>2, <2>4, <2>5, <2>6, NoCall
<1> QED  BY <1>2, <1>3 DEF HandleDown

LEMMA InitOnce == Init => CallOnce
<1> SUFFICES ASSUME Init, NEW c \in Calls
             PROVE  OnceAt(c)
  BY DEF CallOnce
<1>1. CallAt(c) = {} /\ CallTimers(c) = {}
  BY DEF Init, CallAt, CallTimers, Box
<1>2. CallWaits(c) = {}
  BY DEF Init, CallWaits, Pending
<1>3. replies[c] = <<>> /\ Len(replies[c]) <= 1
  BY DEF Init
<1> QED  BY <1>1, <1>2, <1>3 DEF OnceAt, Single

LEMMA NextOnce == TypeOK /\ CallOnce /\ [Next]_vars => CallOnce'
<1> SUFFICES ASSUME TypeOK, CallOnce, [Next]_vars
             PROVE  CallOnce'
  OBVIOUS
<1>1. CASE UNCHANGED vars
  BY <1>1 DEF vars, CallOnce, OnceAt, Single, CallAt, CallTimers, CallWaits,
              Pending, Box
<1>2. CASE Next
  BY <1>2, StepKinds, CalledOnce, StartedOnce, HandledOnce, EndedOnce,
     OtherOnce, DownDoneOnce, TimerOnce
     DEF Kinds
<1> QED  BY <1>1, <1>2

(* A call of the service interface is in one place only at any time (the   *)
(* mailbox, the timer that repeats it, the request it waits for) until its *)
(* one answer is sent.                                                     *)
THEOREM CallsAnsweredOnce == Spec => []CallOnce
<1>1. Init => CallOnce
  BY InitOnce
<1>2. TypeOK /\ CallOnce /\ [Next]_vars => CallOnce'
  BY NextOnce
<1> QED  BY <1>1, <1>2, TypeCorrect, PTL DEF Spec

(* No caller is answered twice and no active request is reported twice,    *)
(* though its response, its timer and its destination's death race to end  *)
(* it (send_timeout_end, send_timeout_dead); a timeout message of an       *)
(* earlier request with the same id ends the later one only if the code    *)
(* left that timer running.                                                *)
THEOREM RequestsEndOnce == Spec => []EndedOnceByItsOwn
<1>1. ASSUME TypeOK, Ends, CallOnce
      PROVE  EndedOnceByItsOwn
  <2>1. \A t \in TransIds : DOMAIN outcome[t] = 1..Len(outcome[t])
    BY <1>1 DEF TypeOK
  <2>2. DOMAIN mailbox = Box
    BY <1>1 DEF TypeOK, Box
  <2>3. RequestEndsOnce
    BY <1>1, <2>1 DEF RequestEndsOnce, Ends, OutcomeRefs, CallOnce, OnceAt
  <2>4. StaleTimeout
    BY <1>1, <2>2, Zenon DEF StaleTimeout, Ends, Stale
  <2> QED  BY <2>3, <2>4 DEF EndedOnceByItsOwn
<1> QED  BY <1>1, TypeCorrect, RequestsEnd, CallsAnsweredOnce, PTL
=============================================================================
