---------------------- MODULE ServiceSenderTables_proofs ----------------------
(***************************************************************************)
(* Proofs about the tables of ServiceSender, for any number of calls,      *)
(* destinations and transaction ids: send_timeout_monitors agrees with the *)
(* pending requests, the Erlang monitors and the DOWN messages; a stored   *)
(* response is kept until it expires or is received, by one receiver only. *)
(***************************************************************************)
EXTENDS ServiceSenderRequests_proofs

-----------------------------------------------------------------------------
(* Only pending requests are listed under their destination                *)

\* A step that neither starts nor ends requests leaves them listed.
LEMMA ExactSame ==
    ASSUME MonitorsExact, UNCHANGED <<send_timeouts, send_timeout_monitors>>
    PROVE  MonitorsExact'
BY DEF MonitorsExact, Pending

LEMMA ExactStarted ==
    ASSUME TypeOK, Ends, MonitorsExact, NEW type, NEW T, NEW a, NEW b,
           NEW dest, NEW client, Started(type, T, a, b, dest, client)
    PROVE  MonitorsExact'
<1>1. /\ send_timeout_monitors' = monitors_start(T, dest)
      /\ DOMAIN dest = a..b
      /\ \A t \in TransIds \ (a..b) : send_timeouts'[t] = send_timeouts[t]
  BY StartedIs
<1>2. \A t \in a..b : ~Pending(t)
  BY StartedFresh
<1>3. \A t \in a..b :
         send_timeouts'[t] =
            [type |-> type, tref |-> RefOf(t, a),
             pid |-> IF Watch(T) THEN dest[t] ELSE Undefined,
             client |-> client]
  BY StartedIs
<1>4. type # "none"
  BY DEF Started
<1>5. ASSUME NEW t \in a..b, Watch(T)
      PROVE  Pending(t)' /\ send_timeouts'[t].pid = dest[t]
  <2>1. \E x : send_timeouts'[t] = [type |-> type, tref |-> x, pid |-> dest[t],
                                    client |-> client]
    BY <1>3, <1>5, Zenon
  <2>2. send_timeouts'[t].type = type /\ send_timeouts'[t].pid = dest[t]
    BY <2>1
  <2> QED  BY <1>4, <2>2 DEF Pending, NoEntry
<1>6. ASSUME NEW p \in Pids, NEW t \in send_timeout_monitors'[p].ids
      PROVE  /\ t \in a..b => Watch(T) /\ dest[t] = p
             /\ t \notin a..b => t \in send_timeout_monitors[p].ids
  <2> DEFINE ts == {u \in a..b : dest[u] = p}
             m == send_timeout_monitors[p]
  <2>1. send_timeout_monitors'[p] =
           IF ~Watch(T) \/ ts = {} THEN m
           ELSE IF m = NoMonitor
                THEN [ref |-> TimerRef(CHOOSE u \in ts : TRUE, dest),
                      ids |-> ts]
                ELSE [m EXCEPT !.ids = @ \cup ts]
    BY <1>1 DEF monitors_start
  <2>2. m \in [ref : Nat, ids : SUBSET TransIds]
    BY DEF TypeOK
  <2>3. t \in m.ids \/ (Watch(T) /\ t \in ts)
    BY <1>6, <2>1, <2>2
  <2>4. t \in m.ids => t \notin a..b
    BY <1>2 DEF MonitorsExact
  <2> QED  BY <2>3, <2>4
<1>7. ASSUME NEW p \in Pids, NEW t \in send_timeout_monitors[p].ids,
             t \notin a..b
      PROVE  Pending(t)' /\ send_timeouts'[t].pid = p
  <2>1. t \in TransIds
    BY DEF TypeOK
  <2>2. send_timeouts'[t] = send_timeouts[t]
    BY <1>1, <1>7, <2>1
  <2> QED  BY <2>2 DEF MonitorsExact, Pending
<1> QED  BY <1>5, <1>6, <1>7 DEF MonitorsExact

LEMMA ExactEnded ==
    ASSUME TypeOK, MonitorsExact, MonitorsCover, NEW t, NEW stop \in BOOLEAN,
           NEW store \in BOOLEAN, Ended(t, stop, store)
    PROVE  MonitorsExact'
<1>1. PICK e : e = send_timeouts[t]
  OBVIOUS
<1>2. t \in TransIds /\ Pending(t) /\ send_timeout_end(t, e.pid)
  BY <1>1 DEF Ended
<1>3. \A u \in TransIds \ {t} : send_timeouts'[u] = send_timeouts[u]
  BY <1>2 DEF send_timeout_end, forget, TypeOK
<1>4. ASSUME NEW p \in Pids, NEW u \in send_timeout_monitors'[p].ids
      PROVE  u \in send_timeout_monitors[p].ids /\ u # t
  <2> DEFINE m == send_timeout_monitors[p]
  <2>1. m \in [ref : Nat, ids : SUBSET TransIds]
    BY DEF TypeOK
  <2>2. CASE e.pid # p
    <3>1. send_timeout_monitors'[p] = m
      BY <1>2, <2>2 DEF send_timeout_end, TypeOK
    <3>2. t \notin m.ids
      BY <1>1, <2>2 DEF MonitorsExact
    <3> QED  BY <1>4, <3>1, <3>2
  <2>3. CASE e.pid = p
    <3>1. t \in m.ids
      BY <1>1, <1>2, <2>3 DEF MonitorsCover
    <3>2. m # NoMonitor /\ p # Undefined
      BY <3>1, SenderAssumption DEF NoMonitor
    <3>3. send_timeout_monitors'[p] = unlist(m, t)
      BY <1>2, <2>3, <3>2 DEF send_timeout_end, TypeOK
    <3> QED  BY <1>4, <2>1, <3>3 DEF unlist, NoMonitor
  <2> QED  BY <2>2, <2>3
<1>5. ASSUME NEW p \in Pids, NEW u \in send_timeout_monitors'[p].ids
      PROVE  Pending(u)' /\ send_timeouts'[u].pid = p
  <2>1. u \in send_timeout_monitors[p].ids /\ u # t
    BY <1>4
  <2>2. u \in TransIds
    BY <2>1 DEF TypeOK
  <2> QED  BY <1>3, <2>1, <2>2 DEF MonitorsExact, Pending
<1> QED  BY <1>5 DEF MonitorsExact

LEMMA ExactDown ==
    ASSUME TypeOK, MonitorsExact, HandleDown
    PROVE  MonitorsExact'
<1> DEFINE m == Head(mailbox)
<1>1. mailbox # <<>> /\ m.pid \in Pids
  <2>1. mailbox # <<>> /\ m.tag = "DOWN"
    BY DEF HandleDown, Handling
  <2> QED  BY <2>1, HeadMessage, MessageKinds DEF DownMessage
<1>2. CASE UNCHANGED <<send_timeouts, send_timeout_monitors>>
  BY <1>2, ExactSame
<1>3. CASE send_timeout_dead(m.pid)
  <2>1. PICK p \in Pids : p = m.pid /\ send_timeout_dead(p)
    BY <1>1, <1>3
  <2>2. /\ \A t \in TransIds \ Listed(p) : send_timeouts'[t] = send_timeouts[t]
        /\ send_timeout_monitors' =
              [send_timeout_monitors EXCEPT ![p] = NoMonitor]
    BY <1>1, <2>1, DeadIs
  <2>3. ASSUME NEW q \in Pids, NEW t \in send_timeout_monitors'[q].ids
        PROVE  Pending(t)' /\ send_timeouts'[t].pid = q
    <3>1. q # p
      BY <2>2, <2>3 DEF NoMonitor, TypeOK
    <3>2. t \in send_timeout_monitors[q].ids
      BY <2>2, <2>3, <3>1 DEF TypeOK
    <3>3. Pending(t) /\ send_timeouts[t].pid = q /\ t \in TransIds
      BY <3>2 DEF MonitorsExact, TypeOK
    <3>4. t \notin Listed(p)
      BY <3>1, <3>3 DEF Listed, MonitorsExact
    <3> QED  BY <2>2, <3>3, <3>4 DEF Pending
  <2> QED  BY <2>3 DEF MonitorsExact
<1> QED  BY <1>2, <1>3 DEF HandleDown

LEMMA NextExact ==
    TypeOK /\ Ends /\ MonitorsCover /\ MonitorsExact /\ [Next]_vars
        => MonitorsExact'
<1> SUFFICES ASSUME TypeOK, Ends, MonitorsCover, MonitorsExact, [Next]_vars
             PROVE  MonitorsExact'
  OBVIOUS
<1>1. CASE UNCHANGED vars
  BY <1>1, ExactSame DEF vars
<1>2. ASSUME \/ \E c, msg : Called(c, msg)
             \/ LookedUp \/ HandleMonitor \/ HandleRecv
             \/ HandleRecvAsyncTimeout \/ Ignored \/ Timer \/ Destination
             \/ \E ref \in cancelling : TimerCancelled(ref)
      PROVE  MonitorsExact'
  <2>1. UNCHANGED <<send_timeouts, send_timeout_monitors>>
    BY <1>2 DEF Called, call, LookedUp, HandleMonitor, HandleRecv,
                HandleRecvAsyncTimeout, Ignored, ignore, Timer, TimerFires,
                Destination, DestReturn, DestForward, DestDie, TimerCancelled
  <2> QED  BY <2>1, ExactSame
<1>3. CASE Next
  BY <1>2, <1>3, StepKinds, ExactStarted, ExactEnded, ExactDown DEF Kinds
<1> QED  BY <1>1, <1>3

(* Only pending requests are listed in send_timeout_monitors, each under   *)
(* its own destination, also when the module has monitors of its own: no   *)
(* finished request is timed out again by a destination's death.           *)
THEOREM OnlyPendingListed == Spec => []MonitorsExact
<1>1. Init => MonitorsExact
  BY DEF Init, MonitorsExact, NoMonitor
<1>2. TypeOK /\ Ends /\ MonitorsCover /\ MonitorsExact /\ [Next]_vars
         => MonitorsExact'
  BY NextExact
<1> QED  BY <1>1, <1>2, TypeCorrect, RequestsEnd, WatchedRequestListed, PTL
         DEF Spec

-----------------------------------------------------------------------------
(* The Erlang monitors and the DOWN messages                               *)

\* The DOWN messages of p on their way.
Downs(p) == {i \in Box : mailbox[i].tag = "DOWN" /\ mailbox[i].pid = p}

\* A destination with requests listed is monitored once, with the reference
\* that is listed: either the monitor is active and p is alive, or its one
\* DOWN is on its way.  Without requests there is neither.
BookOf(p) ==
    /\ send_timeout_monitors[p] # NoMonitor =>
          /\ send_timeout_monitors[p].ref # 0
          /\ send_timeout_monitors[p].ids # {}
          /\ \/ [ref |-> send_timeout_monitors[p].ref, pid |-> p] \in monitored
             \/ Downs(p) # {}
    /\ \A x \in monitored : x.pid = p =>
          /\ p \in alive
          /\ x.ref = send_timeout_monitors[p].ref /\ x.ref # 0
    /\ \A i \in Downs(p) :
          /\ p \notin alive
          /\ mailbox[i].ref = send_timeout_monitors[p].ref
          /\ mailbox[i].ref # 0
    /\ Single(Downs(p))
Books == \A p \in Pids : BookOf(p)

\* The module has no monitors of its own.
NoMonitors == \A i \in Box : mailbox[i].tag # "monitor"

(* DOWN messages that a step neither sends nor takes.                      *)
LEMMA DownsStay ==
    ASSUME TypeOK, NEW p, NEW gone, NEW new, Mail(gone, new),
           \A m \in new : m.tag = "DOWN" => m.pid # p
    PROVE  /\ Single(Downs(p)) => Single(Downs(p)')
           /\ \A i \in Downs(p)' : \E k \in Downs(p) \ gone :
                 mailbox'[i] = mailbox[k]
           /\ Downs(p) \ gone # {} => Downs(p)' # {}
<1>1. PICK f : From(f, gone, new)
  BY DEF Mail
<1>2. /\ f \in [1..Len(mailbox') -> Nat \ {0}]
      /\ \A i, j \in 1..Len(mailbox') : i < j => f[i] < f[j]
      /\ \A k \in (1..Len(mailbox)) \ gone :
            \E i \in 1..Len(mailbox') : f[i] = k
      /\ \A i \in 1..Len(mailbox') :
            /\ f[i] \notin gone
            /\ IF f[i] <= Len(mailbox) THEN mailbox'[i] = mailbox[f[i]]
                                       ELSE mailbox'[i] \in new
  BY <1>1 DEF From
<1>3. ASSUME NEW i \in Downs(p)'
      PROVE  /\ i \in 1..Len(mailbox') /\ f[i] \in Downs(p) \ gone
             /\ mailbox'[i] = mailbox[f[i]]
  <2>1. /\ i \in 1..Len(mailbox') /\ mailbox'[i].tag = "DOWN"
        /\ mailbox'[i].pid = p
    BY DEF Downs, Box
  <2>2. f[i] <= Len(mailbox) /\ f[i] \in Nat \ {0} /\ Len(mailbox) \in Nat
    <3>1. mailbox'[i] \notin new
      BY <2>1
    <3>2. f[i] <= Len(mailbox)
      BY <1>2, <2>1, <3>1
    <3>3. f[i] \in Nat \ {0}
      BY <1>2, <2>1
    <3> QED  BY <3>2, <3>3 DEF TypeOK
  <2>3. mailbox'[i] = mailbox[f[i]] /\ f[i] \notin gone
    BY <1>2, <2>1, <2>2
  <2> QED  BY <2>1, <2>2, <2>3 DEF Downs, Box
<1>4. ASSUME Single(Downs(p))
      PROVE  Single(Downs(p)')
  <2>1. ASSUME NEW i \in Downs(p)', NEW j \in Downs(p)'
        PROVE  i = j
    <3>1. f[i] = f[j]
      BY <1>3, <1>4, <2>1 DEF Single
    <3>2. /\ i \in 1..Len(mailbox') /\ j \in 1..Len(mailbox')
          /\ f[i] \in Nat /\ f[j] \in Nat
      BY <1>2, <1>3, <2>1
    <3> QED  BY <1>2, <3>1, <3>2
  <2> QED  BY <2>1 DEF Single
<1>5. ASSUME NEW k \in Downs(p) \ gone
      PROVE  Downs(p)' # {}
  <2>1. PICK i \in 1..Len(mailbox') : f[i] = k
    BY <1>2 DEF Downs, Box
  <2>2. mailbox'[i] = mailbox[k]
    BY <1>2, <2>1 DEF Downs, Box
  <2>3. i \in Downs(p)'
    BY <2>1, <2>2 DEF Downs, Box
  <2> QED  BY <2>3
<1> QED  BY <1>3, <1>4, <1>5

(* A step that leaves the monitor of p alone, but for the requests listed. *)
LEMMA BookKept ==
    ASSUME TypeOK, NEW p \in Pids, BookOf(p), NEW gone, NEW new,
           Mail(gone, new), \A m \in new : m.tag = "DOWN" => m.pid # p,
           gone \cap Downs(p) = {},
           send_timeout_monitors'[p].ref = send_timeout_monitors[p].ref,
           send_timeout_monitors'[p] # NoMonitor =>
              /\ send_timeout_monitors[p] # NoMonitor
              /\ send_timeout_monitors'[p].ids # {},
           \A x : x.pid = p => (x \in monitored' <=> x \in monitored),
           p \in alive' <=> p \in alive
    PROVE  BookOf(p)'
<1>1. /\ Single(Downs(p)')
      /\ \A i \in Downs(p)' : \E k \in Downs(p) : mailbox'[i] = mailbox[k]
      /\ Downs(p) # {} => Downs(p)' # {}
  BY DownsStay DEF BookOf
<1>2. ASSUME send_timeout_monitors'[p] # NoMonitor
      PROVE  /\ send_timeout_monitors'[p].ref # 0
             /\ send_timeout_monitors'[p].ids # {}
             /\ \/ [ref |-> send_timeout_monitors'[p].ref, pid |-> p]
                      \in monitored'
                \/ Downs(p)' # {}
  <2> DEFINE x == [ref |-> send_timeout_monitors[p].ref, pid |-> p]
  <2>1. /\ send_timeout_monitors[p].ref # 0
        /\ x \in monitored \/ Downs(p) # {}
    BY <1>2 DEF BookOf
  <2>2. x.pid = p
    OBVIOUS
  <2>3. [ref |-> send_timeout_monitors'[p].ref, pid |-> p] = x
    OBVIOUS
  <2> HIDE DEF x
  <2> QED  BY <1>1, <1>2, <2>1, <2>2, <2>3
<1>3. \A i \in Downs(p)' :
          /\ p \notin alive'
          /\ mailbox'[i].ref = send_timeout_monitors'[p].ref
          /\ mailbox'[i].ref # 0
  <2>1. \A k \in Downs(p) : /\ p \notin alive
                            /\ mailbox[k].ref = send_timeout_monitors[p].ref
                            /\ mailbox[k].ref # 0
    BY DEF BookOf
  <2> QED  BY <1>1, <2>1
<1>4. \A x \in monitored' : x.pid = p =>
          /\ p \in alive'
          /\ x.ref = send_timeout_monitors'[p].ref /\ x.ref # 0
  BY DEF BookOf
<1> QED  BY <1>1, <1>2, <1>3, <1>4 DEF BookOf

(* The monitor of p is gone, and so is its DOWN.                           *)
LEMMA BookClosed ==
    ASSUME NEW p, send_timeout_monitors'[p] = NoMonitor, Downs(p)' = {},
           \A x \in monitored' : x.pid # p
    PROVE  BookOf(p)'
BY DEF BookOf, Single

(* A step that touches no monitor.                                         *)
LEMMA BooksSame ==
    ASSUME TypeOK, Books, NEW gone, NEW new, Mail(gone, new),
           \A m \in new : m.tag # "DOWN",
           \A k \in gone \cap Box : mailbox[k].tag # "DOWN",
           UNCHANGED <<send_timeout_monitors, monitored, alive>>
    PROVE  Books'
<1>1. ASSUME NEW p \in Pids
      PROVE  BookOf(p)'
  <2>1. BookOf(p)
    BY DEF Books
  <2>2. gone \cap Downs(p) = {}
    BY DEF Downs
  <2>3. send_timeout_monitors[p] # NoMonitor =>
           send_timeout_monitors[p].ids # {}
    BY <2>1 DEF BookOf
  <2> QED  BY <2>1, <2>2, <2>3, BookKept
<1> QED  BY <1>1 DEF Books

LEMMA MonitorsStay ==
    ASSUME TypeOK, NoMonitors, NEW gone, NEW new, Mail(gone, new),
           \A m \in new : m.tag # "monitor"
    PROVE  NoMonitors'
<1>1. PICK f : From(f, gone, new)
  BY DEF Mail
<1>2. ASSUME NEW i \in 1..Len(mailbox')
      PROVE  mailbox'[i].tag # "monitor"
  <2>1. /\ f[i] \in Nat \ {0}
        /\ IF f[i] <= Len(mailbox) THEN mailbox'[i] = mailbox[f[i]]
                                   ELSE mailbox'[i] \in new
    BY <1>1 DEF From
  <2>2. Len(mailbox) \in Nat
    BY DEF TypeOK
  <2>3. f[i] <= Len(mailbox) => f[i] \in Box
    BY <2>1, <2>2 DEF Box
  <2> QED  BY <2>1, <2>3 DEF NoMonitors
<1> QED  BY <1>2 DEF NoMonitors, Box

\* What the steps that send and end no request do with the mailbox: take a
\* message that is no DOWN, and send none.
LEMMA QuietMailOnly ==
    ASSUME TypeOK, Ends, "monitor" \notin Ops,
           \/ \E c, msg : Called(c, msg)
           \/ LookedUp \/ HandleRecv \/ HandleRecvAsyncTimeout \/ Ignored
           \/ Timer \/ \E ref \in cancelling : TimerCancelled(ref)
           \/ \E r \in inflight :
                 \/ \E T \in Timeouts, empty \in BOOLEAN :
                       DestReturn(r, T, empty)
                 \/ \E p \in Pids : DestForward(r, p)
    PROVE  \E gone, new :
              /\ Mail(gone, new)
              /\ \A m \in new : m.tag \notin {"DOWN", "monitor"}
              /\ \A k \in gone \cap Box : mailbox[k].tag # "DOWN"
<1> DEFINE Plain(gone, new) ==
              /\ Mail(gone, new)
              /\ \A m \in new : m.tag \notin {"DOWN", "monitor"}
              /\ \A k \in gone \cap Box : mailbox[k].tag # "DOWN"
<1>1. ASSUME NEW c, NEW msg, Called(c, msg)
      PROVE  Plain({}, {msg})
  <2>1. /\ msg \in Message /\ msg.tag \in Ops
        /\ mailbox' = Append(mailbox, msg)
    BY <1>1 DEF Called, call
  <2>2. Ops \subseteq AllOps
    BY SenderAssumption
  <2>3. msg.tag \notin {"DOWN", "monitor"}
    BY <2>1, <2>2 DEF AllOps, LookupOps, PidOps, RecvOps
  <2> QED  BY <2>1, <2>3, MailOne
<1>2. ASSUME LookedUp \/ HandleRecv \/ HandleRecvAsyncTimeout \/ Ignored
      PROVE  Plain({1}, {})
  <2>1. /\ mailbox # <<>> /\ mailbox' = Tail(mailbox)
        /\ Head(mailbox).tag # "DOWN"
    BY <1>2 DEF LookedUp, HandleRecv, HandleRecvAsyncTimeout, Ignored, ignore,
                Handling, LookupOps, RecvOps, SendTimeouts
  <2>2. Head(mailbox) = mailbox[1]
    BY DEF TypeOK
  <2> QED  BY <2>1, <2>2, MailTail
<1>3. ASSUME NEW tm \in timers, TimerFires(tm)
      PROVE  Plain({}, {tm.msg})
  <2>1. tm.msg \in Message /\ mailbox' = Append(mailbox, tm.msg)
    BY <1>3 DEF TimerFires, TypeOK
  <2>2. \/ tm.msg.tag \in SendTimeouts
        \/ tm.msg.tag \notin PidOps \cup {"monitor", "DOWN"}
    BY DEF Ends, TimerRefs
  <2>3. tm.msg.tag \notin {"DOWN", "monitor"}
    BY <2>2 DEF SendTimeouts
  <2> QED  BY <2>1, <2>3, MailOne
<1>4. ASSUME NEW r \in inflight, NEW T \in Timeouts, NEW empty \in BOOLEAN,
             DestReturn(r, T, empty)
      PROVE  \E msg : Plain({}, {msg})
  <2> DEFINE tag == IF r.sync THEN "return_sync" ELSE "return_async"
             msg == [tag |-> tag, trans |-> r.trans, timeout |-> T,
                     empty |-> empty]
  <2>1. tag \in {"return_async", "return_sync"} /\ r.trans \in TransIds
        /\ T \in Nat
    BY SenderAssumption DEF TypeOK
  <2>2. msg \in Message
    <3> HIDE DEF tag
    <3> QED  BY <2>1, Zenon DEF Message, ReturnMessage
  <2>3. msg.tag \notin {"DOWN", "monitor"}
    BY <2>1
  <2>4. mailbox' = Append(mailbox, msg)
    BY <1>4 DEF DestReturn
  <2> HIDE DEF msg
  <2> QED  BY <2>2, <2>3, <2>4, MailOne
<1>5. ASSUME UNCHANGED mailbox
      PROVE  Plain({}, {})
  BY <1>5, MailSame
<1> HIDE DEF Plain
<1> SUFFICES \E gone, new : Plain(gone, new)
  BY DEF Plain
<1>6. CASE UNCHANGED mailbox
  BY <1>5, <1>6
<1>7. CASE \E c, msg : Called(c, msg)
  BY <1>1, <1>7
<1>8. CASE LookedUp \/ HandleRecv \/ HandleRecvAsyncTimeout \/ Ignored
  BY <1>2, <1>8
<1>9. CASE Timer
  BY <1>3, <1>9 DEF Timer
<1>10. CASE \E r \in inflight : \E T \in Timeouts, empty \in BOOLEAN :
               DestReturn(r, T, empty)
  BY <1>4, <1>10
<1>11. CASE \/ \E ref \in cancelling : TimerCancelled(ref)
            \/ \E r \in inflight, p \in Pids : DestForward(r, p)
  BY <1>6, <1>11 DEF TimerCancelled, DestForward
<1> QED  BY <1>7, <1>8, <1>9, <1>10, <1>11

LEMMA BooksQuiet ==
    ASSUME TypeOK, Ends, "monitor" \notin Ops, Books, NoMonitors,
           \/ \E c, msg : Called(c, msg)
           \/ LookedUp \/ HandleRecv \/ HandleRecvAsyncTimeout \/ Ignored
           \/ Timer \/ \E ref \in cancelling : TimerCancelled(ref)
           \/ \E r \in inflight :
                 \/ \E T \in Timeouts, empty \in BOOLEAN :
                       DestReturn(r, T, empty)
                 \/ \E p \in Pids : DestForward(r, p)
    PROVE  Books' /\ NoMonitors'
<1>1. UNCHANGED <<send_timeout_monitors, monitored, alive>>
  BY DEF Called, call, LookedUp, HandleRecv, HandleRecvAsyncTimeout, Ignored,
         ignore, Timer, TimerFires, TimerCancelled, DestReturn, DestForward
<1>2. PICK gone, new :
         /\ Mail(gone, new)
         /\ \A m \in new : m.tag \notin {"DOWN", "monitor"}
         /\ \A k \in gone \cap Box : mailbox[k].tag # "DOWN"
  BY QuietMailOnly
<1>3. Books'
  BY <1>1, <1>2, BooksSame
<1>4. NoMonitors'
  BY <1>2, MonitorsStay
<1> QED  BY <1>3, <1>4

(* A DOWN of p is handled: it was the only one.                            *)
LEMMA BooksDown ==
    ASSUME TypeOK, Books, NoMonitors, HandleDown
    PROVE  Books' /\ NoMonitors'
<1>1. PICK p : p = Head(mailbox).pid
  OBVIOUS
<1>2. /\ mailbox # <<>> /\ Head(mailbox).tag = "DOWN" /\ p \in Pids
      /\ UNCHANGED <<alive, monitored>>
  <2>1. mailbox # <<>> /\ Head(mailbox).tag = "DOWN"
    BY DEF HandleDown, Handling
  <2> QED  BY <1>1, <2>1, HeadMessage, MessageKinds DEF DownMessage, HandleDown
<1>3. Head(mailbox) = mailbox[1] /\ 1 \in Box
  BY <1>2 DEF TypeOK, Box
<1>4. 1 \in Downs(p)
  BY <1>1, <1>2, <1>3 DEF Downs
<1>5. /\ p \notin alive /\ send_timeout_monitors[p].ref # 0
      /\ \A k \in Downs(p) : k = 1
  <2>1. BookOf(p)
    BY <1>2 DEF Books
  <2> QED  BY <1>4, <2>1 DEF BookOf, Single
<1>6. send_timeout_dead(p)
  <2>1. send_timeout_monitors[p] # NoMonitor
    BY <1>5 DEF NoMonitor
  <2> QED  BY <1>1, <2>1 DEF HandleDown
<1> DEFINE new == {TimeoutOf(t) : t \in Awaited(p)}
<1>7. /\ send_timeout_monitors' = [send_timeout_monitors EXCEPT ![p] = NoMonitor]
      /\ Mail({1}, new)
  BY <1>2, <1>6, DeadIs
<1>8. \A m \in new : m.tag \notin {"DOWN", "monitor"}
  BY DEF TimeoutOf
<1> HIDE DEF new
<1>9. NoMonitors'
  BY <1>7, <1>8, MonitorsStay
<1>10. BookOf(p)'
  <2>1. send_timeout_monitors'[p] = NoMonitor
    BY <1>2, <1>7 DEF TypeOK
  <2>2. Downs(p)' = {}
    BY <1>5, <1>7, <1>8, DownsStay
  <2>3. \A x \in monitored' : x.pid # p
    BY <1>2, <1>5 DEF Books, BookOf
  <2> QED  BY <2>1, <2>2, <2>3, BookClosed
<1>11. ASSUME NEW q \in Pids, q # p
       PROVE  BookOf(q)'
  <2>1. BookOf(q)
    BY DEF Books
  <2>2. {1} \cap Downs(q) = {}
    BY <1>1, <1>3, <1>11 DEF Downs
  <2>3. send_timeout_monitors'[q] = send_timeout_monitors[q]
    BY <1>7, <1>11 DEF TypeOK
  <2>4. send_timeout_monitors[q] # NoMonitor =>
           send_timeout_monitors[q].ids # {}
    BY <2>1 DEF BookOf
  <2> QED  BY <1>2, <1>7, <1>8, <2>1, <2>2, <2>3, <2>4, BookKept
<1> QED  BY <1>9, <1>10, <1>11 DEF Books

(* A request ends: the last one takes the monitor of its destination, and  *)
(* its DOWN, with it.                                                      *)
LEMMA BooksEnded ==
    ASSUME TypeOK, Books, NoMonitors, MonitorsCover, NEW t,
           NEW stop \in BOOLEAN, NEW store \in BOOLEAN, Ended(t, stop, store)
    PROVE  Books' /\ NoMonitors'
<1>1. PICK p : p = send_timeouts[t].pid
  OBVIOUS
<1>2. /\ mailbox # <<>> /\ t \in TransIds /\ Pending(t)
      /\ send_timeout_end(t, p) /\ UNCHANGED alive
      /\ Head(mailbox).tag # "DOWN"
  BY <1>1 DEF Ended, Handling, SendTimeouts
<1>3. p \in Pids \cup {Undefined}
  BY <1>1, <1>2 DEF TypeOK
<1>4. Head(mailbox) = mailbox[1] /\ 1 \in Box
  BY <1>2 DEF TypeOK, Box
<1>5. \A k \in {1} \cap Box : mailbox[k].tag # "DOWN"
  BY <1>2, <1>4
<1>6. CASE p = Undefined
  <2>1. /\ UNCHANGED <<send_timeout_monitors, monitored>>
        /\ mailbox' = Tail(mailbox)
    BY <1>2, <1>6 DEF send_timeout_end, NoMonitor
  <2>2. Mail({1}, {})
    BY <1>2, <2>1, MailTail
  <2>3. Books'
    BY <1>2, <1>5, <2>1, <2>2, BooksSame
  <2>4. NoMonitors'
    BY <2>2, MonitorsStay
  <2> QED  BY <2>3, <2>4
<1>7. CASE p \in Pids
  <2>1. PICK m : m = send_timeout_monitors[p]
    OBVIOUS
  <2>2. t \in m.ids /\ m # NoMonitor
    BY <1>1, <1>2, <1>7, <2>1 DEF MonitorsCover, NoMonitor
  <2>3. p # Undefined
    BY <1>7, SenderAssumption
  <2>4. /\ send_timeout_monitors' =
              [send_timeout_monitors EXCEPT ![p] = unlist(m, t)]
        /\ monitored' = IF m.ids = {t} THEN demonitor(m, p) ELSE monitored
        /\ mailbox' = IF m.ids = {t} THEN Flush(Tail(mailbox), m.ref, p)
                      ELSE Tail(mailbox)
    BY <1>2, <2>1, <2>2, <2>3 DEF send_timeout_end
  <2>5. m \in [ref : Nat, ids : SUBSET TransIds]
    BY <1>7, <2>1 DEF TypeOK
  <2>6. /\ send_timeout_monitors'[p] = unlist(m, t)
        /\ \A q \in Pids \ {p} :
              send_timeout_monitors'[q] = send_timeout_monitors[q]
    BY <1>7, <2>4 DEF TypeOK
  <2>7. BookOf(p)
    BY <1>7 DEF Books
  <2>8. ASSUME NEW q \in Pids, q # p, NEW gone, Mail(gone, {}),
               gone \cap Downs(q) = {}, monitored' = monitored \/
               monitored' = demonitor(m, p)
        PROVE  BookOf(q)'
    <3>1. BookOf(q)
      BY DEF Books
    <3>2. send_timeout_monitors'[q] = send_timeout_monitors[q]
      BY <2>6, <2>8
    <3>3. send_timeout_monitors[q] # NoMonitor =>
             send_timeout_monitors[q].ids # {}
      BY <3>1 DEF BookOf
    <3>4. \A x : x.pid = q => (x \in monitored' <=> x \in monitored)
      BY <2>8 DEF demonitor
    <3> QED  BY <1>2, <2>8, <3>1, <3>2, <3>3, <3>4, BookKept
  <2>9. CASE m.ids # {t}
    <3>1. Mail({1}, {})
      BY <1>2, <2>4, <2>9, MailTail
    <3>2. \A q \in Pids : {1} \cap Downs(q) = {}
      BY <1>5 DEF Downs
    <3>3. monitored' = monitored
      BY <2>4, <2>9
    <3>4. send_timeout_monitors'[p] = [m EXCEPT !.ids = @ \ {t}]
      BY <2>6, <2>9 DEF unlist
    <3>5. /\ send_timeout_monitors'[p].ref = m.ref
          /\ send_timeout_monitors'[p].ids = m.ids \ {t}
      BY <2>5, <3>4
    <3>6. m.ids \ {t} # {}
      BY <2>2, <2>9
    <3>7. BookOf(p)'
      BY <1>2, <1>7, <2>1, <2>2, <2>7, <3>1, <3>2, <3>3, <3>5, <3>6, BookKept
    <3>8. NoMonitors'
      BY <3>1, MonitorsStay
    <3> QED  BY <2>8, <3>1, <3>2, <3>3, <3>7, <3>8 DEF Books
  <2>10. CASE m.ids = {t}
    <3>1. send_timeout_monitors'[p] = NoMonitor
      BY <2>6, <2>10 DEF unlist
    <3>2. monitored' = demonitor(m, p)
      BY <2>4, <2>10
    <3>3. mailbox' = Flush(Tail(mailbox), m.ref, p)
      BY <2>4, <2>10
    <3>4. ASSUME NEW k \in Downs(p)
          PROVE  mailbox[k] = Down(m.ref, p) /\ k # 1
      <4>1. /\ k \in Box /\ mailbox[k].tag = "DOWN" /\ mailbox[k].pid = p
            /\ mailbox[k].ref = m.ref
        BY <2>1, <2>7 DEF Downs, BookOf
      <4>2. mailbox[k] \in Message
        BY <4>1 DEF TypeOK, Box
      <4>3. mailbox[k] \in DownMessage
        BY <4>1, <4>2, MessageKinds
      <4> QED  BY <1>5, <4>1, <4>3 DEF DownMessage, Down
    <3>5. ASSUME NEW k \in Box, mailbox[k] = Down(m.ref, p)
          PROVE  k \in Downs(p)
      BY <3>5 DEF Downs, Down
    <3>6. PICK gone : /\ Mail(gone, {}) /\ Downs(p) \subseteq gone
                      /\ \A k \in gone : k = 1 \/ k \in Downs(p)
      <4>1. CASE /\ Mail({1}, {})
                 /\ \A i \in 1..Len(mailbox) : i > 1 => mailbox[i] # Down(m.ref, p)
        <5>1. Downs(p) = {}
          <6>1. SUFFICES ASSUME NEW k \in Downs(p)
                         PROVE  FALSE
            OBVIOUS
          <6>2. k \in 1..Len(mailbox) /\ Len(mailbox) \in Nat
            BY DEF Downs, Box, TypeOK
          <6>3. k > 1
            BY <3>4, <6>2
          <6> QED  BY <3>4, <4>1, <6>2, <6>3
        <5>2. Downs(p) \subseteq {1} /\ \A k \in {1} : k = 1
          BY <5>1
        <5> QED  BY <4>1, <5>2
      <4>2. CASE \E k \in 2..Len(mailbox) :
                    mailbox[k] = Down(m.ref, p) /\ Mail({1, k}, {})
        <5>1. PICK k \in 2..Len(mailbox) :
                     mailbox[k] = Down(m.ref, p) /\ Mail({1, k}, {})
          BY <4>2
        <5>2. k \in Box
          BY <5>1 DEF TypeOK, Box
        <5>3. k \in Downs(p)
          BY <3>5, <5>1, <5>2
        <5>4. \A j \in Downs(p) : j = k
          BY <2>7, <5>3 DEF BookOf, Single
        <5>5. Downs(p) \subseteq {1, k} /\ \A j \in {1, k} : j = 1 \/ j \in Downs(p)
          BY <5>3, <5>4
        <5> QED  BY <5>1, <5>5
      <4> QED  BY <1>2, <3>3, <4>1, <4>2, MailFlushed
    <3>7. Downs(p)' = {}
      BY <3>6, DownsStay
    <3>8. \A x \in monitored' : x.pid # p
      <4>1. SUFFICES ASSUME NEW x \in monitored', x.pid = p
                     PROVE  FALSE
        OBVIOUS
      <4>2. x \in monitored /\ x # [ref |-> m.ref, pid |-> p]
        BY <3>2, <4>1 DEF demonitor
      <4>3. x \in [ref : Nat, pid : Pids] /\ x.ref = m.ref
        BY <2>1, <2>7, <4>1, <4>2 DEF TypeOK, BookOf
      <4> QED  BY <4>1, <4>2, <4>3
    <3>9. BookOf(p)'
      BY <3>1, <3>7, <3>8, BookClosed
    <3>10. NoMonitors'
      BY <3>6, MonitorsStay
    <3>11. \A q \in Pids : q # p => gone \cap Downs(q) = {}
      BY <1>5, <3>6 DEF Downs
    <3> QED  BY <2>8, <3>2, <3>6, <3>9, <3>10, <3>11 DEF Books
  <2> QED  BY <2>9, <2>10
<1> QED  BY <1>3, <1>6, <1>7

(* An arrangement of a set has no repetition.                              *)
LEMMA ArrangedOnce ==
    ASSUME NEW S, IsFiniteSet(S), NEW q \in SetToSeqs(S)
    PROVE  \A i, j \in 1..Len(q) : q[i] = q[j] => i = j
<1>1. Cardinality(S) \in Nat
  BY FS_CardinalityType
<1>2. /\ q \in [1..Cardinality(S) -> S]
      /\ \A i, j \in 1..Cardinality(S) : q[i] = q[j] => i = j
  BY DEF SetToSeqs
<1>3. Len(q) = Cardinality(S)
  BY <1>1, <1>2
<1> QED  BY <1>2, <1>3, Zenon

(* A message that was not there is added once.                             *)
LEMMA AddedOnce ==
    ASSUME NEW w \in Seq(Message), NEW q \in Seq(Message),
           \A i, j \in 1..Len(q) : q[i] = q[j] => i = j,
           NEW d, \A i \in 1..Len(w) : w[i] # d
    PROVE  \A i, j \in 1..Len(w \o q) :
              (w \o q)[i] = d /\ (w \o q)[j] = d => i = j
<1> DEFINE v == w \o q
<1>1. /\ Len(w) \in Nat /\ Len(q) \in Nat /\ Len(v) = Len(w) + Len(q)
      /\ \A i \in 1..Len(w) : v[i] = w[i]
      /\ \A i \in 1..Len(q) : v[Len(w) + i] = q[i]
  OBVIOUS
<1> HIDE DEF v
<1>2. ASSUME NEW i \in 1..Len(v), v[i] = d
      PROVE  i - Len(w) \in 1..Len(q) /\ q[i - Len(w)] = d
  <2>1. i \notin 1..Len(w)
    BY <1>1, <1>2
  <2>2. i - Len(w) \in 1..Len(q) /\ Len(w) + (i - Len(w)) = i
    BY <1>1, <2>1
  <2> QED  BY <1>1, <1>2, <2>2
<1>3. ASSUME NEW i \in 1..Len(v), NEW j \in 1..Len(v), v[i] = d, v[j] = d
      PROVE  i = j
  <2>1. i - Len(w) = j - Len(w)
    BY <1>2, <1>3
  <2> QED  BY <1>1, <2>1
<1> QED  BY <1>3 DEF v

(* The first request to p makes its monitor, and has its DOWN sent at once *)
(* when p is dead already.                                                 *)
LEMMA BookOpened ==
    ASSUME TypeOK, NEW type, NEW T, NEW a, NEW b, NEW dest, NEW client,
           Started(type, T, a, b, dest, client), NEW p \in Pids, BookOf(p),
           NEW t \in Fresh(T, a..b, dest), dest[t] = p
    PROVE  BookOf(p)'
<1>1. /\ \A u, v \in a..b : dest[u] = dest[v] => u = v
      /\ t \in a..b /\ Watch(T) /\ send_timeout_monitors[p] = NoMonitor
      /\ alive' = alive /\ a \in Nat
  BY DEF Started, Fresh, TransIds
<1> DEFINE new == Dead(T, a, a..b, dest)
           up == {u \in Fresh(T, a..b, dest) : dest[u] \in alive}
           r == RefOf(t, a)
<1>2. /\ mailbox # <<>> /\ Mail({1}, new) /\ IsFiniteSet(new)
      /\ send_timeout_monitors' = monitors_start(T, dest)
      /\ DOMAIN dest = a..b /\ TimerRef(t, dest) = r
      /\ monitored' = monitored \cup
            {[ref |-> RefOf(u, a), pid |-> dest[u]] : u \in up}
  BY <1>1, StartedIs
<1>3. r # 0
  BY <1>1 DEF RefOf, TypeOK
<1>4. Downs(p) = {} /\ \A x \in monitored : x.pid # p
  BY <1>1 DEF BookOf, NoMonitor
<1>5. send_timeout_monitors'[p] = [ref |-> r, ids |-> {t}]
  <2> DEFINE ts == {u \in a..b : dest[u] = p}
  <2>1. ts = {t}
    BY <1>1
  <2>2. send_timeout_monitors'[p] =
           [ref |-> TimerRef(CHOOSE u \in ts : TRUE, dest), ids |-> ts]
    BY <1>1, <1>2, <2>1 DEF monitors_start
  <2>3. (CHOOSE u \in ts : TRUE) = t
    BY <2>1
  <2> QED  BY <1>2, <2>1, <2>2, <2>3
<1>6. /\ send_timeout_monitors'[p].ref = r
      /\ send_timeout_monitors'[p].ids # {}
  <2>1. t \in send_timeout_monitors'[p].ids
    BY <1>5
  <2> QED  BY <1>5, <2>1
<1>7. \A m \in new : m.pid = p => m = Down(r, p) /\ p \notin alive
  BY <1>1 DEF Dead, Down, Fresh
<1>8. \A x \in monitored' : x.pid = p => p \in alive /\ x.ref = r
  BY <1>1, <1>2, <1>4 DEF Fresh
<1>9. CASE p \in alive
  <2>1. \A m \in new : m.pid # p
    BY <1>7, <1>9
  <2> HIDE DEF new
  <2>2. Downs(p)' = {}
    BY <1>2, <1>4, <2>1, DownsStay
  <2>3. [ref |-> r, pid |-> p] \in monitored'
    BY <1>2, <1>9
  <2> QED  BY <1>1, <1>3, <1>6, <1>8, <2>2, <2>3 DEF BookOf, Single
<1>10. CASE p \notin alive
  <2>1. Down(r, p) \in new
    BY <1>10 DEF Dead
  <2>2. PICK q \in SetToSeqs(new) : mailbox' = Tail(mailbox) \o q
    BY StartedIs
  <2>3. q \in Seq(new) /\ {q[i] : i \in 1..Len(q)} = new
    BY <1>2, <2>2, ArrangedAll
  <2>4. \A i, j \in 1..Len(q) : q[i] = q[j] => i = j
    BY <1>2, <2>2, ArrangedOnce
  <2>5. new \subseteq Message
    <3>1. /\ a \in Nat /\ next_ref \in Nat
          /\ dest \in [a..b -> Pids] /\ b \in Nat
      BY <1>1 DEF TypeOK, Started, TransIds
    <3>2. \A u \in Fresh(T, a..b, dest) : u \in a..b
      BY DEF Fresh
    <3>3. \A u \in a..b : RefOf(u, a) \in Nat /\ dest[u] \in Pids
      BY <3>1 DEF RefOf
    <3> QED  BY <3>2, <3>3, MadeMessages DEF Dead
  <2> HIDE DEF new
  <2>6. Tail(mailbox) \in Seq(Message) /\ q \in Seq(Message)
    BY <1>2, <2>3, <2>5, HeadMessage
  <2>7. ASSUME NEW i \in 1..Len(mailbox'), mailbox'[i].tag = "DOWN",
               mailbox'[i].pid = p
        PROVE  mailbox'[i] = Down(r, p)
    <3>1. PICK f : From(f, {1}, new)
      BY <1>2 DEF Mail
    <3>2. /\ f[i] \in Nat \ {0}
          /\ IF f[i] <= Len(mailbox) THEN mailbox'[i] = mailbox[f[i]]
                                     ELSE mailbox'[i] \in new
      BY <3>1 DEF From
    <3>3. ~(f[i] <= Len(mailbox))
      <4>1. SUFFICES ASSUME f[i] <= Len(mailbox)
                     PROVE  FALSE
        OBVIOUS
      <4>2. f[i] \in Box /\ mailbox'[i] = mailbox[f[i]]
        BY <3>2, <4>1 DEF Box, TypeOK
      <4>3. f[i] \in Downs(p)
        BY <2>7, <4>2 DEF Downs
      <4> QED  BY <1>4, <4>3
    <3> QED  BY <1>7, <2>7, <3>2, <3>3
  <2>8. \A i \in 1..Len(Tail(mailbox)) : Tail(mailbox)[i] # Down(r, p)
    <3>1. SUFFICES ASSUME NEW i \in 1..Len(Tail(mailbox)),
                          Tail(mailbox)[i] = Down(r, p)
                   PROVE  FALSE
      OBVIOUS
    <3>2. i + 1 \in Box /\ Tail(mailbox)[i] = mailbox[i + 1]
      BY <1>2 DEF TypeOK, Box
    <3>3. mailbox[i + 1].tag = "DOWN" /\ mailbox[i + 1].pid = p
      BY <3>1, <3>2 DEF Down
    <3>4. i + 1 \in Downs(p)
      BY <3>2, <3>3 DEF Downs
    <3> QED  BY <1>4, <3>4
  <2>9. \A i, j \in 1..Len(mailbox') :
           mailbox'[i] = Down(r, p) /\ mailbox'[j] = Down(r, p) => i = j
    <3> DEFINE w == Tail(mailbox)
               d == Down(r, p)
    <3> HIDE DEF w, d
    <3>1. w \in Seq(Message) /\ \A i \in 1..Len(w) : w[i] # d
      BY <2>6, <2>8 DEF w, d
    <3>2. \A i, j \in 1..Len(w \o q) :
             (w \o q)[i] = d /\ (w \o q)[j] = d => i = j
      BY <2>4, <2>6, <3>1, AddedOnce
    <3>3. mailbox' = w \o q
      BY <2>2 DEF w
    <3> QED  BY <3>2, <3>3, Zenon DEF d
  <2>10. Single(Downs(p)')
    BY <2>7, <2>9 DEF Single, Downs, Box
  <2>11. Downs(p)' # {}
    <3>1. PICK f : From(f, {1}, new)
      BY <1>2 DEF Mail
    <3>2. PICK i \in 1..Len(mailbox') : mailbox'[i] = Down(r, p)
      BY <2>1, <3>1 DEF From
    <3>3. mailbox'[i].tag = "DOWN" /\ mailbox'[i].pid = p
      BY <3>2 DEF Down
    <3>4. i \in Downs(p)'
      BY <3>3 DEF Downs, Box
    <3> QED  BY <3>4
  <2>12. \A i \in Downs(p)' : mailbox'[i].ref = r
    <3>1. \A i \in Downs(p)' : mailbox'[i] = Down(r, p)
      BY <2>7 DEF Downs, Box
    <3> QED  BY <3>1 DEF Down
  <2> HIDE DEF r
  <2> QED  BY <1>1, <1>3, <1>6, <1>8, <1>10, <2>10, <2>11, <2>12 DEF BookOf
<1> QED  BY <1>9, <1>10

LEMMA BooksStarted ==
    ASSUME TypeOK, Books, NoMonitors, NEW type, NEW T, NEW a, NEW b, NEW dest,
           NEW client, Started(type, T, a, b, dest, client)
    PROVE  Books' /\ NoMonitors'
<1> DEFINE new == Dead(T, a, a..b, dest)
           up == {u \in Fresh(T, a..b, dest) : dest[u] \in alive}
<1>1. /\ mailbox # <<>> /\ Mail({1}, new)
      /\ send_timeout_monitors' = monitors_start(T, dest)
      /\ DOMAIN dest = a..b
      /\ monitored' = monitored \cup
            {[ref |-> RefOf(u, a), pid |-> dest[u]] : u \in up}
  BY StartedIs
<1>2. /\ Head(mailbox).tag # "DOWN" /\ alive' = alive
      /\ Head(mailbox) = mailbox[1]
  BY <1>1 DEF Started, Handling, LookupOps, PidOps, TypeOK
<1>3. NoMonitors'
  <2>1. \A m \in new : m.tag # "monitor"
    BY DEF Dead, Down
  <2> HIDE DEF new
  <2> QED  BY <1>1, <2>1, MonitorsStay
<1>4. ASSUME NEW p \in Pids
      PROVE  BookOf(p)'
  <2>1. BookOf(p)
    BY DEF Books
  <2>2. CASE \E t \in Fresh(T, a..b, dest) : dest[t] = p
    BY <2>1, <2>2, BookOpened
  <2>3. CASE ~\E t \in Fresh(T, a..b, dest) : dest[t] = p
    <3> DEFINE m == send_timeout_monitors[p]
               ts == {t \in a..b : dest[t] = p}
    <3>1. \A x \in new : x.tag = "DOWN" => x.pid # p
      BY <2>3 DEF Dead, Down
    <3>2. {1} \cap Downs(p) = {}
      BY <1>2 DEF Downs
    <3>3. \A x : x.pid = p => (x \in monitored' <=> x \in monitored)
      BY <1>1, <2>3
    <3>4. m \in [ref : Nat, ids : SUBSET TransIds]
      BY DEF TypeOK
    <3>5. m # NoMonitor => m.ids # {}
      BY <2>1 DEF BookOf
    <3>6. ~Watch(T) \/ ts = {} \/ m # NoMonitor
      BY <2>3 DEF Fresh
    <3>7. send_timeout_monitors'[p] =
             IF ~Watch(T) \/ ts = {} THEN m
             ELSE IF m = NoMonitor
                  THEN [ref |-> TimerRef(CHOOSE u \in ts : TRUE, dest),
                        ids |-> ts]
                  ELSE [m EXCEPT !.ids = @ \cup ts]
      BY <1>1 DEF monitors_start
    <3>8. /\ send_timeout_monitors'[p].ref = m.ref
          /\ send_timeout_monitors'[p] # NoMonitor =>
                m # NoMonitor /\ send_timeout_monitors'[p].ids # {}
      BY <3>4, <3>5, <3>6, <3>7
    <3> HIDE DEF new
    <3> QED  BY <1>1, <1>2, <2>1, <3>1, <3>2, <3>3, <3>8, BookKept
  <2> QED  BY <2>2, <2>3
<1> QED  BY <1>3, <1>4 DEF Books

(* A destination dies: its monitor, if there is one, delivers one DOWN.    *)
LEMMA BookDied ==
    ASSUME TypeOK, NEW p \in Pids, BookOf(p), DestDie(p)
    PROVE  BookOf(p)'
<1> DEFINE S == {y \in monitored : y.pid = p}
           new == {Down(x.ref, p) : x \in S}
           r == send_timeout_monitors[p].ref
<1>1. /\ p \in alive /\ p \notin alive' /\ UNCHANGED send_timeout_monitors
      /\ \A x \in monitored' : x.pid # p
  BY DEF DestDie
<1>2. Downs(p) = {}
  BY <1>1 DEF BookOf
<1>3. \A x \in S : x.ref = r /\ r # 0 /\ x \in [ref : Nat, pid : Pids]
  BY DEF BookOf, TypeOK
<1>4. Mail({}, new)
  BY DieIs
<1>5. PICK q \in SetToSeqs(S) :
          mailbox' = mailbox \o [i \in DOMAIN q |-> Down(q[i].ref, p)]
  BY DEF DestDie
<1>6. IsFiniteSet(S)
  BY FS_Subset DEF TypeOK
<1> HIDE DEF S
<1>7. q \in Seq(S) /\ \A i, j \in 1..Len(q) : q[i] = q[j] => i = j
  BY <1>5, <1>6, ArrangedAll, ArrangedOnce
<1> DEFINE s == [i \in DOMAIN q |-> Down(q[i].ref, p)]
<1>8. DOMAIN q = 1..Len(q) /\ Len(q) \in Nat
  BY <1>7
<1>9. ASSUME NEW i \in 1..Len(q)
      PROVE  /\ q[i] = [ref |-> r, pid |-> p] /\ s[i] = Down(r, p)
             /\ Down(r, p) \in Message
  <2>1. q[i] \in S
    BY <1>7
  <2>2. q[i] \in [ref : Nat, pid : Pids] /\ q[i].ref = r /\ q[i].pid = p
    BY <1>3, <2>1 DEF S
  <2> HIDE DEF r
  <2>3. q[i] = [ref |-> r, pid |-> p]
    BY <2>2
  <2>4. s[i] = Down(r, p)
    BY <1>8, <2>2
  <2> QED  BY <2>2, <2>3, <2>4, MadeMessages
<1>10. s \in Seq(Message) /\ Len(s) = Len(q)
  BY <1>8, <1>9
<1>11. mailbox' = mailbox \o s
  BY <1>5
<1> HIDE DEF s
<1>12. \A i, j \in 1..Len(s) : s[i] = s[j] => i = j
  <2>1. \A i, j \in 1..Len(q) : i = j
    BY <1>7, <1>9
  <2>2. 1..Len(s) = 1..Len(q)
    BY <1>10, Zenon
  <2> QED  BY <2>1, <2>2
<1>13. \A i \in 1..Len(mailbox) : mailbox[i] # Down(r, p)
  BY <1>2 DEF Downs, Box, Down
<1>14. \A i, j \in 1..Len(mailbox') :
           mailbox'[i] = Down(r, p) /\ mailbox'[j] = Down(r, p) => i = j
  <2>1. mailbox \in Seq(Message)
    BY DEF TypeOK
  <2>2. PICK d : d = Down(r, p)
    OBVIOUS
  <2>3. \A i \in 1..Len(mailbox) : mailbox[i] # d
    BY <1>13, <2>2
  <2>4. \A i, j \in 1..Len(mailbox \o s) :
           (mailbox \o s)[i] = d /\ (mailbox \o s)[j] = d => i = j
    BY <1>10, <1>12, <2>1, <2>3, AddedOnce
  <2> QED  BY <1>11, <2>2, <2>4, Zenon
<1>15. \A m \in new : m = Down(r, p) /\ r # 0
  BY <1>3
<1> HIDE DEF new
<1>16. PICK f : From(f, {}, new)
  BY <1>4 DEF Mail
<1>17. ASSUME NEW i \in Downs(p)'
       PROVE  /\ i \in 1..Len(mailbox') /\ mailbox'[i] = Down(r, p)
              /\ mailbox'[i].ref = r /\ r # 0
  <2>1. /\ i \in 1..Len(mailbox') /\ mailbox'[i].tag = "DOWN"
        /\ mailbox'[i].pid = p
    BY DEF Downs, Box
  <2>2. /\ f[i] \in Nat \ {0}
        /\ IF f[i] <= Len(mailbox) THEN mailbox'[i] = mailbox[f[i]]
                                   ELSE mailbox'[i] \in new
    BY <1>16, <2>1 DEF From
  <2>3. ~(f[i] <= Len(mailbox))
    <3>1. SUFFICES ASSUME f[i] <= Len(mailbox)
                   PROVE  FALSE
      OBVIOUS
    <3>2. f[i] \in Box /\ mailbox'[i] = mailbox[f[i]]
      BY <2>2, <3>1 DEF Box, TypeOK
    <3>3. f[i] \in Downs(p)
      BY <2>1, <3>2 DEF Downs
    <3> QED  BY <1>2, <3>3
  <2>4. mailbox'[i] = Down(r, p) /\ r # 0
    BY <1>15, <2>2, <2>3
  <2>5. mailbox'[i].ref = r
    BY <2>4 DEF Down
  <2> QED  BY <2>1, <2>4, <2>5
<1>18. Single(Downs(p)')
  BY <1>14, <1>17 DEF Single
<1>19. ASSUME send_timeout_monitors[p] # NoMonitor
       PROVE  Downs(p)' # {}
  <2>1. [ref |-> r, pid |-> p] \in monitored
    BY <1>2, <1>19 DEF BookOf
  <2>2. Down(r, p) \in new
    BY <2>1 DEF new, S
  <2>3. PICK i \in 1..Len(mailbox') : mailbox'[i] = Down(r, p)
    BY <1>16, <2>2 DEF From
  <2>4. i \in Downs(p)'
    BY <2>3 DEF Downs, Box, Down
  <2> QED  BY <2>4
<1>20. send_timeout_monitors[p] # NoMonitor =>
          r # 0 /\ send_timeout_monitors[p].ids # {}
  BY DEF BookOf
<1> QED  BY <1>1, <1>17, <1>18, <1>19, <1>20 DEF BookOf

LEMMA BooksDied ==
    ASSUME TypeOK, Books, NoMonitors, NEW p \in Pids, DestDie(p)
    PROVE  Books' /\ NoMonitors'
<1> DEFINE new == {Down(x.ref, p) : x \in {y \in monitored : y.pid = p}}
<1>1. Mail({}, new)
  BY DieIs
<1>2. \A m \in new : m.tag # "monitor" /\ m.pid = p
  BY DEF Down
<1> HIDE DEF new
<1>3. NoMonitors'
  BY <1>1, <1>2, MonitorsStay
<1>4. ASSUME NEW q \in Pids, q # p
      PROVE  BookOf(q)'
  <2>1. BookOf(q)
    BY DEF Books
  <2>2. /\ UNCHANGED send_timeout_monitors
        /\ q \in alive' <=> q \in alive
        /\ \A x : x.pid = q => (x \in monitored' <=> x \in monitored)
    BY <1>4 DEF DestDie
  <2>3. send_timeout_monitors[q] # NoMonitor =>
           send_timeout_monitors[q].ids # {}
    BY <2>1 DEF BookOf
  <2> QED  BY <1>1, <1>2, <1>4, <2>1, <2>2, <2>3, BookKept
<1>5. BookOf(p)'
  BY BookDied DEF Books
<1> QED  BY <1>3, <1>4, <1>5 DEF Books

LEMMA NextBooks ==
    ASSUME "monitor" \notin Ops, TypeOK, Ends, MonitorsCover, Books,
           NoMonitors, [Next]_vars
    PROVE  Books' /\ NoMonitors'
<1>1. CASE UNCHANGED vars
  BY <1>1 DEF vars, Books, BookOf, Downs, Single, NoMonitors, Box
<1>2. ASSUME HandleMonitor
      PROVE  FALSE
  <2>1. mailbox # <<>> /\ Head(mailbox).tag = "monitor"
    BY <1>2 DEF HandleMonitor, Handling
  <2>2. Head(mailbox) = mailbox[1] /\ 1 \in Box
    BY <2>1 DEF TypeOK, Box
  <2> QED  BY <2>1, <2>2 DEF NoMonitors
<1>3. Mortal \subseteq Pids
  BY SenderAssumption
<1>4. CASE Destination
  BY <1>3, <1>4, BooksQuiet, BooksDied DEF Destination
<1>5. CASE Next
  BY <1>2, <1>4, <1>5, StepKinds, BooksQuiet, BooksStarted, BooksEnded,
     BooksDown
     DEF Kinds
<1> QED  BY <1>1, <1>5

(* While the module makes no monitors of its own, the requests pending,    *)
(* send_timeout_monitors, the Erlang monitors and the DOWN messages on     *)
(* their way agree: each destination with requests listed has one active   *)
(* monitor or one DOWN, and no DOWN finds its destination unlisted.        *)
THEOREM MonitorsAgree ==
    ASSUME "monitor" \notin Ops
    PROVE  Spec => []MonitorBookkeeping
<1> DEFINE I == Books /\ NoMonitors
<1>1. Init => I
  <2>1. SUFFICES ASSUME Init
                 PROVE  I
    OBVIOUS
  <2>2. Box = {} /\ monitored = {}
    BY <2>1 DEF Init, Box
  <2>3. \A p \in Pids : send_timeout_monitors[p] = NoMonitor /\ Downs(p) = {}
    BY <2>1, <2>2 DEF Init, Downs
  <2> QED  BY <2>2, <2>3 DEF Books, BookOf, Single, NoMonitors
<1>2. TypeOK /\ Ends /\ MonitorsCover /\ I /\ [Next]_vars => I'
  BY NextBooks
<1>3. ASSUME TypeOK, MonitorsExact, I
      PROVE  MonitorBookkeeping
  <2>1. DOMAIN mailbox = Box
    BY <1>3 DEF TypeOK, Box
  <2>2. ASSUME NEW i \in Box, mailbox[i].tag = "DOWN"
        PROVE  /\ mailbox[i].pid \in Pids /\ i \in Downs(mailbox[i].pid)
               /\ mailbox[i] = Down(mailbox[i].ref, mailbox[i].pid)
    <3>1. mailbox[i] \in Message
      BY <1>3 DEF TypeOK, Box
    <3>2. mailbox[i] \in DownMessage
      BY <2>2, <3>1, MessageKinds
    <3> QED  BY <2>2, <3>2 DEF DownMessage, Down, Downs
  <2>3. DownExpected
    BY <1>3, <2>1, <2>2 DEF DownExpected, Books, BookOf
  <2>4. ASSUME NEW p \in Pids, send_timeout_monitors[p] # NoMonitor
        PROVE  \/ [ref |-> send_timeout_monitors[p].ref, pid |-> p] \in monitored
               \/ \E i \in DOMAIN mailbox :
                     mailbox[i] = Down(send_timeout_monitors[p].ref, p)
    <3>1. CASE Downs(p) # {}
      <4>1. PICK i \in Downs(p) : TRUE
        BY <3>1
      <4>2. i \in Box /\ mailbox[i].tag = "DOWN" /\ mailbox[i].pid = p
        BY DEF Downs
      <4>3. mailbox[i].ref = send_timeout_monitors[p].ref
        BY <1>3 DEF Books, BookOf
      <4> QED  BY <2>1, <2>2, <4>2, <4>3
    <3>2. CASE Downs(p) = {}
      BY <1>3, <2>4, <3>2 DEF Books, BookOf
    <3> QED  BY <3>1, <3>2
  <2>5. \A x \in monitored : send_timeout_monitors[x.pid].ref = x.ref
    BY <1>3 DEF Books, BookOf, TypeOK
  <2>6. MonitorsActive
    BY <2>4, <2>5, Zenon DEF MonitorsActive, InMailbox
  <2> QED  BY <1>3, <2>3, <2>6 DEF MonitorBookkeeping
<1> HIDE DEF I
<1> QED  BY <1>1, <1>2, <1>3, TypeCorrect, RequestsEnd, WatchedRequestListed,
            OnlyPendingListed, PTL
         DEF Spec

-----------------------------------------------------------------------------
(* A stored response has one holder                                        *)

\* The receives that hold the response of t: in the mailbox, and between two
\* attempts.
HeldAt(t) == {i \in Box : Holds(mailbox[i], t)}
HeldIn(t) == {tm \in timers : Holds(tm.msg, t)}

\* The response of t is stored, or held by one receive, or was taken by one
\* caller, or it has expired; before it comes there is none of it.
OneHolder(t) ==
    /\ Single(HeldAt(t)) /\ Single(HeldIn(t)) /\ Single(Takers(t))
    /\ HeldAt(t) # {} => HeldIn(t) = {}
    /\ HeldAt(t) # {} \/ HeldIn(t) # {} => Takers(t) = {}
    /\ t \in async_responses \/ fate[t] = "none" =>
          HeldAt(t) = {} /\ HeldIn(t) = {} /\ Takers(t) = {}
    /\ fate[t] = "none" => t \notin async_responses
    /\ fate[t] = "stored" =>
          \/ t \in async_responses \/ HeldAt(t) # {}
          \/ HeldIn(t) # {} \/ Takers(t) # {}
    /\ Pending(t) /\ send_timeouts[t].type = "passive" => fate[t] = "none"
    /\ t >= next_id => fate[t] = "none"
ResponsesHeld == \A t \in TransIds : OneHolder(t)

(* A receive that a step neither sends nor takes.                          *)
LEMMA HeldStays ==
    ASSUME TypeOK, NEW t, NEW gone, NEW new, Mail(gone, new),
           \A m \in new : ~Holds(m, t)
    PROVE  /\ Single(HeldAt(t)) => Single(HeldAt(t)')
           /\ HeldAt(t)' # {} <=> HeldAt(t) \ gone # {}
<1>1. PICK f : From(f, gone, new)
  BY DEF Mail
<1>2. /\ f \in [1..Len(mailbox') -> Nat \ {0}]
      /\ \A i, j \in 1..Len(mailbox') : i < j => f[i] < f[j]
      /\ \A k \in (1..Len(mailbox)) \ gone :
            \E i \in 1..Len(mailbox') : f[i] = k
      /\ \A i \in 1..Len(mailbox') :
            /\ f[i] \notin gone
            /\ IF f[i] <= Len(mailbox) THEN mailbox'[i] = mailbox[f[i]]
                                       ELSE mailbox'[i] \in new
  BY <1>1 DEF From
<1>3. ASSUME NEW i \in HeldAt(t)'
      PROVE  i \in 1..Len(mailbox') /\ f[i] \in HeldAt(t) \ gone
  <2>1. i \in 1..Len(mailbox') /\ Holds(mailbox'[i], t)
    BY DEF HeldAt, Box
  <2>2. mailbox'[i] \notin new
    BY <2>1
  <2>3. f[i] <= Len(mailbox)
    BY <1>2, <2>1, <2>2
  <2>4. mailbox'[i] = mailbox[f[i]] /\ f[i] \notin gone
    BY <1>2, <2>1, <2>3
  <2>5. f[i] \in Nat \ {0}
    BY <1>2, <2>1
  <2>6. f[i] \in Box
    BY <2>3, <2>5 DEF Box, TypeOK
  <2> QED  BY <2>1, <2>4, <2>6 DEF HeldAt
<1>4. ASSUME Single(HeldAt(t))
      PROVE  Single(HeldAt(t)')
  <2>1. ASSUME NEW i \in HeldAt(t)', NEW j \in HeldAt(t)'
        PROVE  i = j
    <3>1. f[i] = f[j]
      BY <1>3, <1>4, <2>1 DEF Single
    <3>2. /\ i \in 1..Len(mailbox') /\ j \in 1..Len(mailbox')
          /\ f[i] \in Nat /\ f[j] \in Nat
      BY <1>2, <1>3, <2>1
    <3> QED  BY <1>2, <3>1, <3>2
  <2> QED  BY <2>1 DEF Single
<1>5. ASSUME NEW k \in HeldAt(t) \ gone
      PROVE  HeldAt(t)' # {}
  <2>1. PICK i \in 1..Len(mailbox') : f[i] = k
    BY <1>2 DEF HeldAt, Box
  <2>2. mailbox'[i] = mailbox[k]
    BY <1>2, <2>1 DEF HeldAt, Box
  <2>3. i \in HeldAt(t)'
    BY <2>1, <2>2 DEF HeldAt, Box
  <2> QED  BY <2>3
<1> QED  BY <1>3, <1>4, <1>5

(* The callers that have taken a response, after a reply.                  *)
LEMMA TakersAfter ==
    ASSUME TypeOK, NEW c, NEW v, reply(c, v), NEW t
    PROVE  Takers(t)' = Takers(t) \cup
              (IF c \in Calls /\ v.consume /\ t \in v.ids THEN {c} ELSE {})
<1> DEFINE Took(s) == \E i \in DOMAIN s : s[i].consume /\ t \in s[i].ids
<1>1. /\ replies' = [replies EXCEPT ![c] = Append(@, v)]
      /\ replies = [d \in Calls |-> replies[d]]
      /\ \A d \in Calls : replies[d] \in Seq(Reply)
  BY DEF reply, TypeOK, Reply
<1>2. /\ Takers(t) = {d \in Calls : Took(replies[d])}
      /\ Takers(t)' = {d \in Calls : Took(replies'[d])}
  BY DEF Takers
<1>3. \A d \in Calls : d # c => replies'[d] = replies[d]
  BY <1>1
<1>4. ASSUME c \in Calls
      PROVE  Took(replies'[c]) <=>
                Took(replies[c]) \/ (v.consume /\ t \in v.ids)
  <2>1. PICK s : s = replies[c]
    OBVIOUS
  <2>2. replies'[c] = Append(s, v) /\ s \in Seq(Reply)
    BY <1>1, <1>4, <2>1
  <2>3. Took(Append(s, v)) <=> Took(s) \/ (v.consume /\ t \in v.ids)
    <3>1. /\ Len(s) \in Nat /\ DOMAIN s = 1..Len(s)
          /\ DOMAIN Append(s, v) = 1..(Len(s) + 1)
          /\ \A i \in 1..Len(s) : Append(s, v)[i] = s[i]
          /\ Append(s, v)[Len(s) + 1] = v
      BY <2>2
    <3>2. \A i \in 1..(Len(s) + 1) : i \in 1..Len(s) \/ i = Len(s) + 1
      BY <3>1
    <3>3. Len(s) + 1 \in 1..(Len(s) + 1) /\ \A i \in 1..Len(s) : i \in 1..(Len(s) + 1)
      BY <3>1
    <3>4. PICK w : w = Append(s, v)
      OBVIOUS
    <3>5. Took(w) <=> Took(s) \/ (v.consume /\ t \in v.ids)
      BY <3>1, <3>2, <3>3, <3>4
    <3> QED  BY <3>4, <3>5
  <2> QED  BY <2>1, <2>2, <2>3, Zenon
<1> HIDE DEF Took
<1> QED  BY <1>2, <1>3, <1>4

\* A step that is nothing to the receives: the messages it sends and takes
\* hold no response, nor do the timers it starts and stops, nor its reply.
Aside(gone, new) ==
    /\ Mail(gone, new)
    /\ \A m \in new : m.tag # "recv_asyncs" \/ m.found = {}
    /\ \A k \in gone \cap Box : mailbox[k].tag # "recv_asyncs"
    /\ \A tm \in timers' : tm \in timers \/ tm.msg.tag # "recv_asyncs"
    /\ \A tm \in timers : tm.ref = 0 => tm \in timers'
    /\ UNCHANGED replies \/ \E c, v : ~v.consume /\ reply(c, v)

LEMMA AsideHeld ==
    ASSUME TypeOK, Ends, NEW gone, NEW new, Aside(gone, new), NEW t
    PROVE  /\ Single(HeldAt(t)) => Single(HeldAt(t)')
           /\ HeldAt(t)' # {} <=> HeldAt(t) # {}
           /\ HeldIn(t)' = HeldIn(t) /\ Takers(t)' = Takers(t)
<1>1. \A m \in new : ~Holds(m, t)
  BY DEF Aside, Holds
<1>2. HeldAt(t) \ gone = HeldAt(t)
  BY DEF HeldAt, Holds, Aside
<1>3. /\ Single(HeldAt(t)) => Single(HeldAt(t)')
      /\ HeldAt(t)' # {} <=> HeldAt(t) # {}
  BY <1>1, <1>2, HeldStays DEF Aside
<1>4. HeldIn(t)' = HeldIn(t)
  <2>1. \A tm \in timers : tm.msg.tag = "recv_asyncs" => tm.ref = 0
    BY DEF Ends, TimerRefs, SendTimeouts
  <2>2. \A tm : Holds(tm.msg, t) => (tm \in timers' <=> tm \in timers)
    BY <2>1 DEF Aside, Holds
  <2> QED  BY <2>2 DEF HeldIn
<1>5. Takers(t)' = Takers(t)
  <2>1. CASE UNCHANGED replies
    BY <2>1 DEF Takers
  <2>2. ASSUME NEW c, NEW v, ~v.consume, reply(c, v)
        PROVE  Takers(t)' = Takers(t)
    BY <2>2, TakersAfter
  <2> QED  BY <2>1, <2>2 DEF Aside
<1> QED  BY <1>3, <1>4, <1>5

(* What was stored and held of t stays so.                                 *)
LEMMA HolderKept ==
    ASSUME TypeOK, TypeOK', NEW t \in TransIds, OneHolder(t),
           Single(HeldAt(t)'), HeldAt(t)' # {} <=> HeldAt(t) # {},
           HeldIn(t)' = HeldIn(t), Takers(t)' = Takers(t),
           t \in async_responses' <=> t \in async_responses,
           fate'[t] = fate[t], next_id <= next_id',
           Pending(t)' /\ send_timeouts'[t].type = "passive" =>
              \/ Pending(t) /\ send_timeouts[t].type = "passive"
              \/ t >= next_id
    PROVE  OneHolder(t)'
<1>1. t >= next_id' => t >= next_id
  BY DEF TypeOK, TransIds
<1> HIDE DEF HeldAt, HeldIn, Takers, Single
<1> QED  BY <1>1, Zenon DEF OneHolder

(* A step aside that stores and expires no response.                       *)
LEMMA ResponsesAside ==
    ASSUME TypeOK, TypeOK', Ends, ResponsesHeld, NEW gone, NEW new,
           Aside(gone, new), UNCHANGED <<async_responses, fate>>,
           next_id <= next_id',
           \A t \in TransIds :
              Pending(t)' /\ send_timeouts'[t].type = "passive" =>
                 \/ Pending(t) /\ send_timeouts[t].type = "passive"
                 \/ t >= next_id
    PROVE  ResponsesHeld'
<1>1. ASSUME NEW t \in TransIds
      PROVE  OneHolder(t)'
  <2>1. OneHolder(t)
    BY DEF ResponsesHeld
  <2>2. Single(HeldAt(t))
    BY <2>1 DEF OneHolder
  <2>3. /\ Single(HeldAt(t)')
        /\ HeldAt(t)' # {} <=> HeldAt(t) # {}
        /\ HeldIn(t)' = HeldIn(t) /\ Takers(t)' = Takers(t)
    BY <2>2, AsideHeld
  <2> QED  BY <2>1, <2>3, HolderKept
<1> QED  BY <1>1 DEF ResponsesHeld

\* The first message is no receive.
LEMMA HeadAside ==
    ASSUME TypeOK, mailbox # <<>>, Head(mailbox).tag # "recv_asyncs"
    PROVE  \A k \in {1} \cap Box : mailbox[k].tag # "recv_asyncs"
<1>1. Head(mailbox) = mailbox[1]
  BY DEF TypeOK
<1> QED  BY <1>1

LEMMA ResponsesCalled ==
    ASSUME TypeOK, TypeOK', Ends, ResponsesHeld, NEW c, NEW msg, Called(c, msg)
    PROVE  ResponsesHeld'
<1>1. /\ msg \in Message /\ mailbox' = Append(mailbox, msg)
      /\ msg.tag # "recv_asyncs" \/ msg.found = {}
      /\ UNCHANGED <<timers, replies, async_responses, fate, next_id,
                     send_timeouts>>
  BY DEF Called, call
<1>2. Mail({}, {msg})
  BY <1>1, MailOne
<1>3. Aside({}, {msg})
  BY <1>1, <1>2 DEF Aside
<1>4. next_id <= next_id'
  BY <1>1 DEF TypeOK
<1> QED  BY <1>1, <1>3, <1>4, ResponsesAside DEF Pending

LEMMA ResponsesLookedUp ==
    ASSUME TypeOK, TypeOK', Ends, ResponsesHeld,
           LookedUp \/ HandleMonitor \/ Ignored \/ Destination
           \/ \E ref \in cancelling : TimerCancelled(ref)
    PROVE  ResponsesHeld'
<1>1. UNCHANGED <<async_responses, fate, next_id, send_timeouts>>
  BY DEF LookedUp, HandleMonitor, Ignored, ignore, Destination, DestReturn,
         DestForward, DestDie, TimerCancelled
<1>2. next_id <= next_id'
  BY <1>1 DEF TypeOK
<1>3. \A t \in TransIds : Pending(t)' /\ send_timeouts'[t].type = "passive" =>
         Pending(t) /\ send_timeouts[t].type = "passive"
  BY <1>1 DEF Pending
<1> SUFFICES \E gone, new : Aside(gone, new)
  BY <1>1, <1>2, <1>3, ResponsesAside
<1>4. CASE LookedUp
  <2>1. /\ mailbox # <<>> /\ mailbox' = Tail(mailbox)
        /\ Head(mailbox).tag \in LookupOps
    BY <1>4 DEF LookedUp, Handling
  <2>2. Mail({1}, {})
    BY <2>1, MailTail
  <2>3. \A k \in {1} \cap Box : mailbox[k].tag # "recv_asyncs"
    BY <2>1, HeadAside DEF LookupOps
  <2>4. UNCHANGED replies \/ \E c, v : ~v.consume /\ reply(c, v)
    BY <1>4 DEF LookedUp
  <2>5. /\ \A tm \in timers' : tm \in timers \/ tm.msg.tag # "recv_asyncs"
        /\ timers \subseteq timers'
    <3>1. CASE UNCHANGED timers
      BY <3>1
    <3>2. ASSUME NEW T \in Nat,
                 timers' = timers \cup
                    {[ref |-> 0, msg |-> [Head(mailbox) EXCEPT !.timeout = T]]}
          PROVE  /\ \A tm \in timers' :
                       tm \in timers \/ tm.msg.tag # "recv_asyncs"
                 /\ timers \subseteq timers'
      <4> DEFINE again == [Head(mailbox) EXCEPT !.timeout = T]
      <4>1. Head(mailbox) \in LookupMessage
        BY <2>1, HeadMessage, MessageKinds
      <4>2. again.tag = Head(mailbox).tag
        BY <4>1 DEF LookupMessage
      <4>3. again.tag # "recv_asyncs"
        BY <2>1, <4>2 DEF LookupOps
      <4>4. timers' = timers \cup {[ref |-> 0, msg |-> again]}
        BY <3>2
      <4> HIDE DEF again
      <4> QED  BY <4>3, <4>4
    <3> QED  BY <1>4, <3>1, <3>2 DEF LookedUp
  <2>6. Aside({1}, {})
    BY <2>2, <2>3, <2>4, <2>5 DEF Aside
  <2> QED  BY <2>6
<1>5. CASE HandleMonitor
  <2> DEFINE m == Head(mailbox)
             d == Down(next_ref, m.pid)
  <2>1. /\ UNCHANGED timers /\ m.tag = "monitor" /\ mailbox # <<>>
        /\ reply(m.call, Ok({}, FALSE))
        /\ mailbox' = Tail(mailbox) \/ mailbox' = Append(Tail(mailbox), d)
    BY <1>5 DEF HandleMonitor, Handling
  <2>2. d \in Message /\ d.tag # "recv_asyncs"
    <3>1. m.pid \in Pids
      BY <2>1, HeadMessage, MessageKinds DEF MonitorMessage
    <3>2. d.tag # "recv_asyncs"
      BY DEF Down
    <3> QED  BY <3>1, <3>2, MadeMessages DEF TypeOK
  <2>3. \E new : Mail({1}, new) /\ \A x \in new : x.tag # "recv_asyncs"
    <3> HIDE DEF d
    <3>1. CASE mailbox' = Tail(mailbox)
      <4>1. Mail({1}, {})
        BY <2>1, <3>1, MailTail
      <4> QED  BY <4>1
    <3>2. CASE mailbox' = Append(Tail(mailbox), d)
      <4>1. Mail({1}, {d})
        BY <2>1, <2>2, <3>2, MailTailOne
      <4> QED  BY <2>2, <4>1
    <3> QED  BY <2>1, <3>1, <3>2
  <2>4. PICK new : Mail({1}, new) /\ \A x \in new : x.tag # "recv_asyncs"
    BY <2>3
  <2>5. \A k \in {1} \cap Box : mailbox[k].tag # "recv_asyncs"
    BY <2>1, HeadAside
  <2>6. \E c, v : ~v.consume /\ reply(c, v)
    <3>1. Ok({}, FALSE).consume = FALSE
      BY DEF Ok
    <3> QED  BY <2>1, <3>1
  <2>7. Aside({1}, new)
    BY <2>1, <2>4, <2>5, <2>6 DEF Aside
  <2> QED  BY <2>7
<1>6. CASE Ignored
  <2>1. /\ mailbox # <<>> /\ mailbox' = Tail(mailbox)
        /\ Head(mailbox).tag # "recv_asyncs"
        /\ UNCHANGED <<timers, replies>>
    BY <1>6 DEF Ignored, ignore, Handling, SendTimeouts
  <2>2. Mail({1}, {})
    BY <2>1, MailTail
  <2>3. Aside({1}, {})
    BY <2>1, <2>2, HeadAside DEF Aside
  <2> QED  BY <2>3
<1>7. CASE Destination
  <2>1. UNCHANGED <<timers, replies>>
    BY <1>7 DEF Destination, DestReturn, DestForward, DestDie
  <2>2. ASSUME NEW r \in inflight, NEW T \in Timeouts, NEW empty \in BOOLEAN,
               DestReturn(r, T, empty)
        PROVE  \E gone, new : Aside(gone, new)
    <3> DEFINE tag == IF r.sync THEN "return_sync" ELSE "return_async"
               msg == [tag |-> tag, trans |-> r.trans, timeout |-> T,
                       empty |-> empty]
    <3>1. tag \in {"return_async", "return_sync"} /\ r.trans \in TransIds
          /\ T \in Nat
      BY SenderAssumption DEF TypeOK
    <3>2. msg \in Message
      <4> HIDE DEF tag
      <4> QED  BY <3>1, Zenon DEF Message, ReturnMessage
    <3>3. msg.tag # "recv_asyncs"
      BY <3>1
    <3>4. mailbox' = Append(mailbox, msg)
      BY <2>2 DEF DestReturn
    <3> HIDE DEF msg
    <3>5. Mail({}, {msg})
      BY <3>2, <3>4, MailOne
    <3>6. Aside({}, {msg})
      BY <2>1, <3>3, <3>5 DEF Aside
    <3> QED  BY <3>6
  <2>3. ASSUME NEW r \in inflight, NEW p \in Pids, DestForward(r, p)
        PROVE  \E gone, new : Aside(gone, new)
    <3>1. UNCHANGED mailbox
      BY <2>3 DEF DestForward
    <3>2. Aside({}, {})
      BY <2>1, <3>1, MailSame DEF Aside
    <3> QED  BY <3>2
  <2>4. ASSUME NEW p \in Mortal, DestDie(p)
        PROVE  \E gone, new : Aside(gone, new)
    <3> DEFINE new == {Down(x.ref, p) : x \in {y \in monitored : y.pid = p}}
    <3>1. Mail({}, new)
      BY <2>4, SenderAssumption, DieIs
    <3>2. \A m \in new : m.tag # "recv_asyncs"
      BY DEF Down
    <3> HIDE DEF new
    <3>3. Aside({}, new)
      BY <2>1, <3>1, <3>2 DEF Aside
    <3> QED  BY <3>3
  <2> QED  BY <1>7, <2>2, <2>3, <2>4 DEF Destination
<1>8. CASE \E ref \in cancelling : TimerCancelled(ref)
  <2>1. PICK ref \in cancelling : TimerCancelled(ref)
    BY <1>8
  <2>2. timers' = Stopped({ref}) /\ UNCHANGED <<mailbox, replies>>
    BY <2>1 DEF TimerCancelled
  <2>3. ref # 0
    BY DEF Ends, TimerRefs
  <2>4. Mail({}, {})
    BY <2>2, MailSame
  <2>5. Aside({}, {})
    BY <2>2, <2>3, <2>4 DEF Aside, Stopped
  <2> QED  BY <2>5
<1> QED  BY <1>4, <1>5, <1>6, <1>7, <1>8

LEMMA ResponsesStarted ==
    ASSUME TypeOK, TypeOK', Ends, ResponsesHeld, NEW type, NEW T, NEW a, NEW b,
           NEW dest, NEW client, Started(type, T, a, b, dest, client)
    PROVE  ResponsesHeld'
<1> DEFINE new == Dead(T, a, a..b, dest)
           tag == IF type = "sync" THEN "send_sync_timeout"
                                   ELSE "send_async_timeout"
           N(t) == [ref |-> RefOf(t, a),
                    msg |-> [tag |-> tag, trans |-> t, ref |-> RefOf(t, a)]]
<1>1. /\ mailbox # <<>> /\ Mail({1}, new)
      /\ \A t \in TransIds \ (a..b) : send_timeouts'[t] = send_timeouts[t]
      /\ timers' = timers \cup {N(t) : t \in a..b}
  BY StartedIs
<1>2. /\ UNCHANGED <<async_responses, fate>>
      /\ Head(mailbox).tag \in LookupOps \cup PidOps
      /\ a \in TransIds /\ b \in TransIds /\ a <= b
      /\ \/ a = next_id /\ next_id' = b + 1
         \/ type = "active" /\ next_id' = next_id
      /\ UNCHANGED replies \/ \E ids \in SUBSET TransIds :
            reply(Head(mailbox).call, Ok(ids, FALSE))
  BY DEF Started, Handling
<1>3. Aside({1}, new)
  <2>1. \A m \in new : m.tag # "recv_asyncs"
    BY DEF Dead, Down
  <2>2. tag # "recv_asyncs"
    OBVIOUS
  <2>3. \A t \in a..b : N(t).msg.tag = tag
    OBVIOUS
  <2>4. \A k \in {1} \cap Box : mailbox[k].tag # "recv_asyncs"
    BY <1>1, <1>2, HeadAside DEF LookupOps, PidOps
  <2>5. UNCHANGED replies \/ \E c, v : ~v.consume /\ reply(c, v)
    <3>1. \A ids : Ok(ids, FALSE).consume = FALSE
      BY DEF Ok
    <3> QED  BY <1>2, <3>1
  <2> HIDE DEF N, tag, new
  <2> QED  BY <1>1, <2>1, <2>2, <2>3, <2>4, <2>5 DEF Aside
<1> HIDE DEF N, new
<1>4. next_id <= next_id'
  BY <1>2 DEF TypeOK, TransIds
<1>5. ASSUME NEW t \in TransIds, Pending(t)',
             send_timeouts'[t].type = "passive"
      PROVE  \/ Pending(t) /\ send_timeouts[t].type = "passive"
             \/ t >= next_id
  <2>1. CASE t \in a..b
    <3>1. send_timeouts'[t].type = type
      <4>1. send_timeouts'[t] =
               [type |-> type, tref |-> RefOf(t, a),
                pid |-> IF Watch(T) THEN dest[t] ELSE Undefined,
                client |-> client]
        BY <2>1, StartedIs
      <4>2. \E x, y : send_timeouts'[t] = [type |-> type, tref |-> x,
                                           pid |-> y, client |-> client]
        BY <4>1, Zenon
      <4> QED  BY <4>2
    <3>2. a = next_id
      BY <1>2, <1>5, <3>1
    <3> QED  BY <1>2, <2>1, <3>2 DEF TransIds
  <2>2. CASE t \notin a..b
    BY <1>1, <1>5, <2>2 DEF Pending
  <2> QED  BY <2>1, <2>2
<1> QED  BY <1>2, <1>3, <1>4, <1>5, ResponsesAside

(* A destination's death stops timers of requests only.                    *)
LEMMA ResponsesDown ==
    ASSUME TypeOK, TypeOK', Ends, ResponsesHeld, HandleDown
    PROVE  ResponsesHeld'
<1> DEFINE m == Head(mailbox)
<1>1. /\ mailbox # <<>> /\ m.tag = "DOWN" /\ m.pid \in Pids
      /\ UNCHANGED <<replies, async_responses, fate, next_id>>
  <2>1. mailbox # <<>> /\ m.tag = "DOWN"
    BY DEF HandleDown, Handling
  <2> QED  BY <2>1, HeadMessage, MessageKinds DEF DownMessage, HandleDown
<1>2. next_id <= next_id'
  BY <1>1 DEF TypeOK
<1>3. \A k \in {1} \cap Box : mailbox[k].tag # "recv_asyncs"
  BY <1>1, HeadAside
<1>4. CASE mailbox' = Tail(mailbox) /\ UNCHANGED <<timers, send_timeouts>>
  <2>1. Mail({1}, {})
    BY <1>1, <1>4, MailTail
  <2>2. Aside({1}, {})
    BY <1>1, <1>3, <1>4, <2>1 DEF Aside
  <2> QED  BY <1>1, <1>2, <1>4, <2>2, ResponsesAside DEF Pending
<1>5. CASE send_timeout_dead(m.pid)
  <2>1. PICK p \in Pids : p = m.pid /\ send_timeout_dead(p)
    BY <1>1, <1>5
  <2> DEFINE ids == Listed(p)
             new == {TimeoutOf(t) : t \in Awaited(p)}
  <2>2. /\ \A t \in ids : send_timeouts'[t] =
                             [send_timeouts[t] EXCEPT !.pid = Undefined]
        /\ \A t \in TransIds \ ids : send_timeouts'[t] = send_timeouts[t]
        /\ timers' = Stopped({send_timeouts[t].tref : t \in Awaited(p)})
        /\ Mail({1}, new) /\ ids \subseteq TransIds
    BY <1>1, <2>1, DeadIs
  <2>3. \A t \in ids : Pending(t) /\ send_timeouts[t].tref # 0
    BY <2>2 DEF Listed, Ends, PendingRefs
  <2>4. Aside({1}, new)
    <3>1. \A x \in new : x.tag # "recv_asyncs"
      BY DEF TimeoutOf
    <3>2. \A t \in Awaited(p) : send_timeouts[t].tref # 0
      BY <2>3 DEF Awaited
    <3>3. \A tm \in timers : tm.ref = 0 => tm \in timers'
      BY <2>2, <3>2 DEF Stopped
    <3>4. timers' \subseteq timers
      BY <2>2 DEF Stopped
    <3> HIDE DEF new
    <3> QED  BY <1>1, <1>3, <2>2, <3>1, <3>3, <3>4 DEF Aside
  <2>5. ASSUME NEW t \in TransIds, Pending(t)'
        PROVE  Pending(t) /\ send_timeouts'[t].type = send_timeouts[t].type
    <3>1. CASE t \in ids
      <4>1. send_timeouts[t] \in Entries
        BY DEF TypeOK, Entries
      <4>2. send_timeouts'[t].type = send_timeouts[t].type
        BY <2>2, <3>1, <4>1 DEF Entries
      <4> QED  BY <2>3, <3>1, <4>2
    <3>2. CASE t \notin ids
      BY <2>2, <2>5, <3>2 DEF Pending
    <3> QED  BY <3>1, <3>2
  <2> HIDE DEF new
  <2> QED  BY <1>1, <1>2, <2>4, <2>5, ResponsesAside
<1> QED  BY <1>4, <1>5 DEF HandleDown

(* A request ends, and may leave a response: it was passive, and no        *)
(* response had come for it.                                               *)
LEMMA ResponsesEnded ==
    ASSUME TypeOK, TypeOK', Ends, ResponsesHeld, NEW d, NEW stop \in BOOLEAN,
           NEW store \in BOOLEAN, Ended(d, stop, store)
    PROVE  ResponsesHeld'
<1>1. PICK e : e = send_timeouts[d]
  OBVIOUS
<1>2. /\ mailbox # <<>> /\ d \in TransIds /\ Pending(d)
      /\ send_timeout_end(d, e.pid) /\ next_id' = next_id
      /\ Head(mailbox).tag # "recv_asyncs"
      /\ UNCHANGED replies \/ \E v \in Reply : ~v.consume /\ reply(e.client, v)
      /\ IF store THEN /\ e.type = "passive"
                       /\ async_responses' = async_responses \cup {d}
                       /\ fate' = [fate EXCEPT ![d] = "stored"]
                  ELSE UNCHANGED <<async_responses, fate>>
  BY <1>1 DEF Ended, Handling, SendTimeouts
<1>3. /\ send_timeouts'[d] = NoEntry
      /\ \A u \in TransIds \ {d} : send_timeouts'[u] = send_timeouts[u]
  BY <1>2 DEF send_timeout_end, forget, TypeOK
<1>4. e.tref # 0 /\ d < next_id
  BY <1>1, <1>2 DEF Ends, PendingRefs
<1>5. PICK gone : /\ Mail(gone, {})
                  /\ \A k \in gone : k # 1 => mailbox[k].tag = "DOWN"
  BY <1>2, EndedMail
<1>6. Aside(gone, {})
  <2> DEFINE stored == [ref |-> 0, msg |-> [tag |-> "recv_async_timeout",
                                            trans |-> d, ref |-> 0]]
  <2>1. /\ timers' \subseteq timers \cup {stored}
        /\ Stopped({e.tref}) \subseteq timers'
    BY <1>1 DEF Ended, Stopped
  <2>2. stored.msg.tag # "recv_asyncs"
    OBVIOUS
  <2> HIDE DEF stored
  <2>3. \A tm \in timers : tm.ref = 0 => tm \in timers'
    BY <1>4, <2>1 DEF Stopped
  <2>4. \A tm \in timers' : tm \in timers \/ tm.msg.tag # "recv_asyncs"
    BY <2>1, <2>2
  <2>5. \A k \in gone \cap Box : mailbox[k].tag # "recv_asyncs"
    <3>1. \A k \in {1} \cap Box : mailbox[k].tag # "recv_asyncs"
      BY <1>2, HeadAside
    <3> QED  BY <1>5, <3>1
  <2> QED  BY <1>2, <1>5, <2>3, <2>4, <2>5 DEF Aside
<1>7. next_id <= next_id' /\ next_id \in Nat
  BY <1>2 DEF TypeOK
<1>8. \A t \in TransIds : Pending(t)' /\ send_timeouts'[t].type = "passive" =>
         Pending(t) /\ send_timeouts[t].type = "passive"
  BY <1>3 DEF Pending
<1>9. CASE ~store
  BY <1>2, <1>6, <1>7, <1>8, <1>9, ResponsesAside
<1>10. CASE store
  <2>1. /\ e.type = "passive" /\ async_responses' = async_responses \cup {d}
        /\ fate'[d] = "stored"
        /\ \A t \in TransIds \ {d} : fate'[t] = fate[t]
    BY <1>2, <1>10 DEF TypeOK
  <2>2. ASSUME NEW t \in TransIds, t # d
        PROVE  OneHolder(t)'
    <3>1. OneHolder(t)
      BY DEF ResponsesHeld
    <3>2. Single(HeldAt(t))
      BY <3>1 DEF OneHolder
    <3>3. /\ Single(HeldAt(t)')
          /\ HeldAt(t)' # {} <=> HeldAt(t) # {}
          /\ HeldIn(t)' = HeldIn(t) /\ Takers(t)' = Takers(t)
      BY <1>6, <3>2, AsideHeld
    <3> QED  BY <1>7, <1>8, <2>1, <2>2, <3>1, <3>3, HolderKept
  <2>3. OneHolder(d)'
    <3>1. fate[d] = "none"
      BY <1>1, <1>2, <2>1 DEF ResponsesHeld, OneHolder
    <3>2. HeldAt(d) = {} /\ HeldIn(d) = {} /\ Takers(d) = {}
      BY <1>2, <3>1 DEF ResponsesHeld, OneHolder
    <3>3. HeldAt(d)' = {} /\ HeldIn(d)' = {} /\ Takers(d)' = {}
      BY <1>6, <3>2, AsideHeld
    <3>4. ~Pending(d)'
      BY <1>3 DEF Pending
    <3>5. ~(d >= next_id')
      BY <1>2, <1>4, <1>7 DEF TransIds
    <3> QED  BY <2>1, <3>3, <3>4, <3>5 DEF OneHolder, Single
  <2> QED  BY <2>2, <2>3 DEF ResponsesHeld
<1> QED  BY <1>9, <1>10

(* The timer of a stored response expires it, if it is still stored.       *)
LEMMA ResponsesExpired ==
    ASSUME TypeOK, TypeOK', Ends, ResponsesHeld, HandleRecvAsyncTimeout
    PROVE  ResponsesHeld'
<1>1. PICK d : d = Head(mailbox).trans
  OBVIOUS
<1>2. /\ mailbox # <<>> /\ mailbox' = Tail(mailbox)
      /\ Head(mailbox).tag # "recv_asyncs"
      /\ async_responses' = async_responses \ {d}
      /\ fate' = IF d \in async_responses THEN [fate EXCEPT ![d] = "expired"]
                 ELSE fate
      /\ UNCHANGED <<timers, replies, next_id, send_timeouts>>
  BY <1>1 DEF HandleRecvAsyncTimeout, Handling
<1>3. Mail({1}, {})
  BY <1>2, MailTail
<1>4. Aside({1}, {})
  BY <1>2, <1>3, HeadAside DEF Aside
<1>5. next_id <= next_id'
  BY <1>2 DEF TypeOK
<1>6. ASSUME NEW t \in TransIds
      PROVE  OneHolder(t)'
  <2>1. OneHolder(t)
    BY DEF ResponsesHeld
  <2>2. Single(HeldAt(t))
    BY <2>1 DEF OneHolder
  <2>3. /\ Single(HeldAt(t)')
        /\ HeldAt(t)' # {} <=> HeldAt(t) # {}
        /\ HeldIn(t)' = HeldIn(t) /\ Takers(t)' = Takers(t)
    BY <1>4, <2>2, AsideHeld
  <2>4. CASE t # d \/ d \notin async_responses
    <3>1. /\ t \in async_responses' <=> t \in async_responses
          /\ fate'[t] = fate[t]
      BY <1>2, <2>4 DEF TypeOK
    <3> QED  BY <1>2, <1>5, <2>1, <2>3, <3>1, HolderKept DEF Pending
  <2>5. CASE t = d /\ d \in async_responses
    <3>1. fate'[t] = "expired" /\ t \notin async_responses' /\ fate[t] # "none"
      BY <1>2, <2>1, <2>5 DEF TypeOK, OneHolder
    <3>2. HeldAt(t) = {} /\ HeldIn(t) = {} /\ Takers(t) = {}
      BY <2>1, <2>5 DEF OneHolder
    <3>3. HeldAt(t)' = {} /\ HeldIn(t)' = {} /\ Takers(t)' = {}
      BY <2>3, <3>2
    <3>4. /\ ~(Pending(t)' /\ send_timeouts'[t].type = "passive")
          /\ ~(t >= next_id')
      BY <1>2, <2>1, <3>1 DEF OneHolder, Pending
    <3> QED  BY <3>1, <3>3, <3>4 DEF OneHolder, Single
  <2> QED  BY <2>4, <2>5
<1> QED  BY <1>6 DEF ResponsesHeld

(* A receive comes back with the responses it holds.                       *)
LEMMA ResponsesTimer ==
    ASSUME TypeOK, TypeOK', Ends, ResponsesHeld, Timer
    PROVE  ResponsesHeld'
<1>1. PICK tm \in timers : TimerFires(tm)
  BY DEF Timer
<1>2. /\ timers' = timers \ {tm} /\ mailbox' = Append(mailbox, tm.msg)
      /\ UNCHANGED <<replies, next_id, send_timeouts, async_responses, fate>>
  BY <1>1 DEF TimerFires
<1>3. tm.msg \in Message
  BY DEF TypeOK
<1>4. Mail({}, {tm.msg})
  BY <1>2, <1>3, MailOne
<1>5. next_id <= next_id'
  BY <1>2 DEF TypeOK
<1>6. ASSUME NEW t \in TransIds
      PROVE  OneHolder(t)'
  <2>1. OneHolder(t)
    BY DEF ResponsesHeld
  <2>2. Takers(t)' = Takers(t)
    BY <1>2 DEF Takers
  <2>3. CASE ~Holds(tm.msg, t)
    <3>1. HeldIn(t)' = HeldIn(t)
      BY <1>2, <2>3 DEF HeldIn
    <3>2. /\ Single(HeldAt(t)) => Single(HeldAt(t)')
          /\ HeldAt(t)' # {} <=> HeldAt(t) # {}
      BY <1>4, <2>3, HeldStays
    <3>3. Single(HeldAt(t)')
      BY <2>1, <3>2 DEF OneHolder
    <3> QED  BY <1>2, <1>5, <2>1, <2>2, <3>1, <3>2, <3>3, HolderKept DEF Pending
  <2>4. CASE Holds(tm.msg, t)
    <3>1. tm \in HeldIn(t)
      BY <2>4 DEF HeldIn
    <3>2. /\ HeldAt(t) = {} /\ Takers(t) = {} /\ fate[t] # "none"
          /\ t \notin async_responses /\ \A x \in HeldIn(t) : x = tm
      BY <2>1, <3>1 DEF OneHolder, Single
    <3>3. HeldIn(t)' = {}
      <4>1. \A x \in HeldIn(t)' : x \in HeldIn(t) /\ x # tm
        BY <1>2 DEF HeldIn
      <4> QED  BY <3>2, <4>1
    <3>4. /\ Len(mailbox) \in Nat /\ Len(mailbox') = Len(mailbox) + 1
          /\ \A i \in 1..Len(mailbox) : mailbox'[i] = mailbox[i]
          /\ mailbox'[Len(mailbox) + 1] = tm.msg
      BY <1>2, <1>3 DEF TypeOK
    <3>5. \A i \in HeldAt(t)' : i = Len(mailbox) + 1
      <4>1. SUFFICES ASSUME NEW i \in HeldAt(t)'
                     PROVE  i = Len(mailbox) + 1
        OBVIOUS
      <4>2. i \in 1..Len(mailbox') /\ Holds(mailbox'[i], t)
        BY DEF HeldAt, Box
      <4>3. i \notin 1..Len(mailbox)
        BY <3>2, <3>4, <4>2 DEF HeldAt, Box
      <4> QED  BY <3>4, <4>2, <4>3
    <3>6. Len(mailbox) + 1 \in HeldAt(t)'
      BY <2>4, <3>4 DEF HeldAt, Box
    <3>7. Single(HeldAt(t)') /\ HeldAt(t)' # {}
      BY <3>5, <3>6 DEF Single
    <3>8. /\ ~(Pending(t)' /\ send_timeouts'[t].type = "passive")
          /\ ~(t >= next_id')
      BY <1>2, <2>1, <3>2 DEF OneHolder, Pending
    <3>9. Single(HeldIn(t)') /\ Single(Takers(t)')
      BY <2>2, <3>2, <3>3 DEF Single
    <3> QED  BY <1>2, <2>2, <3>2, <3>3, <3>7, <3>8, <3>9 DEF OneHolder
  <2> QED  BY <2>3, <2>4
<1> QED  BY <1>6 DEF ResponsesHeld

\* What a receive takes: the responses F leave the store, or the receive in
\* hand, for the caller that consumes them or for its next attempt.
Received(c, F) ==
    /\ \A t \in F : t \in async_responses \/ Holds(Head(mailbox), t)
    /\ \A t \in TransIds : Holds(Head(mailbox), t) => t \in F
    /\ async_responses' = async_responses \ F
    /\ \/ /\ UNCHANGED timers
          /\ \E v : /\ reply(c, v)
                    /\ \A t \in TransIds : v.consume /\ t \in v.ids <=> t \in F
       \/ /\ UNCHANGED replies
          /\ \E again : /\ timers' = timers \cup {[ref |-> 0, msg |-> again]}
                        /\ \A t \in TransIds : Holds(again, t) <=> t \in F

LEMMA RecvOneTakes ==
    ASSUME TypeOK, HandleRecv, Head(mailbox).tag = "recv_async"
    PROVE  \E F \in SUBSET TransIds : Received(Head(mailbox).call, F)
<1>1. PICK m : m = Head(mailbox)
  OBVIOUS
<1>2. mailbox # <<>> /\ m.tag = "recv_async" /\ recv_async(m)
  BY <1>1 DEF HandleRecv, Handling
<1>3. m \in RecvMessage
  BY <1>1, <1>2, HeadMessage, MessageKinds
<1>4. \A t : ~Holds(m, t)
  BY <1>2 DEF Holds
<1> DEFINE ids == IF m.trans = AnyId THEN async_responses
                  ELSE async_responses \cap {m.trans}
           pick == recv_async_select_oldest(ids)
<1>5. CASE recv_retry(m) /\ UNCHANGED async_responses
  <2> DEFINE again == [m EXCEPT !.timeout = @ - Interval]
  <2>1. again.tag # "recv_asyncs"
    BY <1>2, <1>3 DEF RecvMessage
  <2>2. \A t : ~Holds(again, t)
    BY <2>1 DEF Holds
  <2>3. /\ UNCHANGED <<replies, async_responses>>
        /\ timers' = timers \cup {[ref |-> 0, msg |-> again]}
    BY <1>5 DEF recv_retry
  <2> HIDE DEF again
  <2>4. Received(m.call, {})
    BY <1>1, <1>4, <2>2, <2>3 DEF Received
  <2> QED  BY <1>1, <2>4
<1>6. CASE reply(m.call, Error) /\ UNCHANGED <<timers, async_responses>>
  <2>1. ~Error.consume
    BY DEF Error
  <2>2. Received(m.call, {})
    BY <1>1, <1>4, <1>6, <2>1 DEF Received
  <2> QED  BY <1>1, <2>2
<1>7. CASE /\ ids # {}
           /\ reply(m.call, Ok({pick}, m.consume))
           /\ async_responses' = IF m.consume THEN async_responses \ {pick}
                                 ELSE async_responses
           /\ UNCHANGED timers
  <2>1. ids \subseteq async_responses /\ async_responses \subseteq TransIds
    BY DEF TypeOK
  <2>2. pick \in ids
    <3>1. ids \in SUBSET TransIds
      BY <2>1
    <3>2. ids \in SUBSET Nat
      BY <3>1 DEF TransIds
    <3> HIDE DEF ids
    <3>3. PICK x \in ids : \A y \in ids : x <= y
      BY <1>7, <3>2, LeastNat
    <3>4. Min(ids) = x
      BY <3>2, <3>3, MinLeast
    <3> QED  BY <3>4 DEF recv_async_select_oldest
  <2>3. PICK z : z = pick
    OBVIOUS
  <2>4. z \in async_responses /\ z \in TransIds
    BY <2>1, <2>2, <2>3
  <2>5. /\ reply(m.call, Ok({z}, m.consume)) /\ UNCHANGED timers
        /\ async_responses' = IF m.consume THEN async_responses \ {z}
                              ELSE async_responses
    BY <1>7, <2>3
  <2>6. Ok({z}, m.consume).consume = m.consume /\ Ok({z}, m.consume).ids = {z}
    BY DEF Ok
  <2>7. CASE m.consume
    <3>1. Received(m.call, {z})
      BY <1>1, <1>4, <2>4, <2>5, <2>6, <2>7 DEF Received
    <3> QED  BY <1>1, <2>4, <3>1
  <2>8. CASE ~m.consume
    <3>1. Received(m.call, {})
      BY <1>1, <1>4, <2>5, <2>6, <2>8 DEF Received
    <3> QED  BY <1>1, <3>1
  <2> QED  BY <2>7, <2>8
<1> QED  BY <1>2, <1>5, <1>6, <1>7 DEF recv_async

LEMMA RecvManyTakes ==
    ASSUME TypeOK, ResponsesHeld, HandleRecv, Head(mailbox).tag = "recv_asyncs"
    PROVE  \E F \in SUBSET TransIds : Received(Head(mailbox).call, F)
<1>1. PICK m : m = Head(mailbox)
  OBVIOUS
<1>2. mailbox # <<>> /\ m.tag = "recv_asyncs" /\ recv_asyncs(m)
  BY <1>1 DEF HandleRecv, Handling
<1>3. m \in RecvsMessage
  BY <1>1, <1>2, HeadMessage, MessageKinds
<1>4. /\ m.consume \in BOOLEAN /\ m.found \subseteq TransIds
      /\ m.results \subseteq TransIds /\ async_responses \subseteq TransIds
  BY <1>3 DEF RecvsMessage, TypeOK
<1>5. \A t : Holds(m, t) <=> m.consume /\ t \in m.found
  BY <1>2 DEF Holds
<1>6. m.consume => m.found \cap async_responses = {}
  <2>1. SUFFICES ASSUME m.consume, NEW t \in m.found, t \in async_responses
                 PROVE  FALSE
    OBVIOUS
  <2>2. m = mailbox[1] /\ 1 \in Box
    BY <1>1, <1>2 DEF TypeOK, Box
  <2>3. 1 \in HeldAt(t)
    BY <1>5, <2>1, <2>2 DEF HeldAt
  <2> QED  BY <1>4, <2>1, <2>3 DEF ResponsesHeld, OneHolder
<1>7. PICK found : found = m.found \cup (m.results \cap async_responses)
  OBVIOUS
<1>8. PICK F : F = IF m.consume THEN found ELSE {}
  OBVIOUS
<1>9. /\ F \in SUBSET TransIds
      /\ \A t \in F : t \in async_responses \/ Holds(m, t)
      /\ \A t \in TransIds : Holds(m, t) => t \in F
  BY <1>4, <1>5, <1>7, <1>8
<1>10. recv_asyncs_left(m) = async_responses \ F
  BY <1>4, <1>6, <1>7, <1>8 DEF recv_asyncs_left
<1>11. CASE /\ reply(m.call, Ok(found, m.consume))
            /\ async_responses' = recv_asyncs_left(m)
            /\ UNCHANGED timers
  <2>1. /\ Ok(found, m.consume).consume = m.consume
        /\ Ok(found, m.consume).ids = found
    BY DEF Ok
  <2>2. \A t \in TransIds : Ok(found, m.consume).consume
                            /\ t \in Ok(found, m.consume).ids <=> t \in F
    BY <1>4, <1>8, <2>1
  <2>3. Received(m.call, F)
    BY <1>1, <1>9, <1>10, <1>11, <2>2 DEF Received
  <2> QED  BY <1>1, <1>9, <2>3
<1>12. CASE /\ recv_retry([m EXCEPT !.found = found])
            /\ async_responses' = recv_asyncs_left(m)
  <2> DEFINE more == [m EXCEPT !.found = found]
             again == [more EXCEPT !.timeout = @ - Interval]
  <2>1. /\ again.tag = "recv_asyncs" /\ again.consume = m.consume
        /\ again.found = found
    BY <1>2, <1>3 DEF RecvsMessage
  <2>2. /\ UNCHANGED replies
        /\ timers' = timers \cup {[ref |-> 0, msg |-> again]}
    BY <1>12 DEF recv_retry
  <2> HIDE DEF again
  <2>3. \A t \in TransIds : Holds(again, t) <=> t \in F
    BY <1>4, <1>8, <2>1 DEF Holds
  <2>4. Received(m.call, F)
    BY <1>1, <1>9, <1>10, <1>12, <2>2, <2>3 DEF Received
  <2> QED  BY <1>1, <1>9, <2>4
<1>13. CASE /\ found = {} /\ reply(m.call, Error)
            /\ UNCHANGED <<timers, async_responses>>
  <2>1. ~Error.consume /\ F = {}
    BY <1>8, <1>13 DEF Error
  <2>2. Received(m.call, F)
    BY <1>1, <1>9, <1>13, <2>1 DEF Received
  <2> QED  BY <1>1, <1>9, <2>2
<1> QED  BY <1>2, <1>7, <1>11, <1>12, <1>13 DEF recv_asyncs, recv_asyncs_pick

(* A receive takes each response from its only holder to the next.         *)
LEMMA ResponsesReceived ==
    ASSUME TypeOK, TypeOK', Ends, ResponsesHeld, HandleRecv
    PROVE  ResponsesHeld'
<1>1. PICK c : c = Head(mailbox).call
  OBVIOUS
<1>2. /\ mailbox # <<>> /\ mailbox' = Tail(mailbox)
      /\ Head(mailbox).tag \in RecvOps
      /\ UNCHANGED <<fate, next_id, send_timeouts>>
  BY DEF HandleRecv, Handling
<1>3. c \in Calls
  <2>1. Head(mailbox) \in RecvMessage \cup RecvsMessage
    BY <1>2, HeadMessage, MessageKinds DEF RecvOps
  <2> QED  BY <1>1, <2>1 DEF RecvMessage, RecvsMessage
<1>4. PICK F \in SUBSET TransIds : Received(c, F)
  BY <1>1, <1>2, RecvOneTakes, RecvManyTakes DEF RecvOps
<1>5. Mail({1}, {})
  BY <1>2, MailTail
<1>6. Head(mailbox) = mailbox[1] /\ 1 \in Box
  BY <1>2 DEF TypeOK, Box
<1>7. \A t \in TransIds : 1 \in HeldAt(t) <=> Holds(Head(mailbox), t)
  BY <1>6 DEF HeldAt
<1>8. next_id <= next_id'
  BY <1>2 DEF TypeOK
<1>9. ASSUME NEW t \in TransIds
      PROVE  /\ t \in F =>
                   \/ HeldIn(t)' = HeldIn(t) /\ Takers(t)' = Takers(t) \cup {c}
                   \/ /\ \E x : HeldIn(t)' = HeldIn(t) \cup {x}
                      /\ Takers(t)' = Takers(t)
             /\ t \notin F => HeldIn(t)' = HeldIn(t) /\ Takers(t)' = Takers(t)
  <2>1. CASE /\ UNCHANGED timers
             /\ \E v : /\ reply(c, v)
                       /\ \A u \in TransIds : v.consume /\ u \in v.ids <=> u \in F
    <3>1. PICK v : /\ reply(c, v)
                   /\ \A u \in TransIds : v.consume /\ u \in v.ids <=> u \in F
      BY <2>1
    <3>2. Takers(t)' = Takers(t) \cup (IF t \in F THEN {c} ELSE {})
      BY <1>3, <3>1, TakersAfter
    <3>3. HeldIn(t)' = HeldIn(t)
      BY <2>1 DEF HeldIn
    <3> QED  BY <3>2, <3>3
  <2>2. CASE /\ UNCHANGED replies
             /\ \E again :
                   /\ timers' = timers \cup {[ref |-> 0, msg |-> again]}
                   /\ \A u \in TransIds : Holds(again, u) <=> u \in F
    <3>1. PICK again :
                   /\ timers' = timers \cup {[ref |-> 0, msg |-> again]}
                   /\ \A u \in TransIds : Holds(again, u) <=> u \in F
      BY <2>2
    <3>2. Takers(t)' = Takers(t)
      BY <2>2 DEF Takers
    <3>3. PICK x : x = [ref |-> 0, msg |-> again]
      OBVIOUS
    <3>4. x.msg = again /\ timers' = timers \cup {x}
      BY <3>1, <3>3
    <3>5. HeldIn(t)' = HeldIn(t) \cup (IF t \in F THEN {x} ELSE {})
      BY <3>1, <3>4 DEF HeldIn
    <3> QED  BY <3>2, <3>5
  <2> QED  BY <1>4, <2>1, <2>2 DEF Received
<1>10. ASSUME NEW t \in TransIds
       PROVE  OneHolder(t)'
  <2>1. OneHolder(t)
    BY DEF ResponsesHeld
  <2>2. /\ Single(HeldAt(t)')
        /\ HeldAt(t)' # {} <=> HeldAt(t) \ {1} # {}
    BY <1>5, <2>1, HeldStays DEF OneHolder
  <2>3. CASE t \notin F
    <3>1. t \in async_responses' <=> t \in async_responses
      BY <1>4, <2>3 DEF Received
    <3>2. 1 \notin HeldAt(t)
      BY <1>4, <1>7, <2>3 DEF Received
    <3>3. HeldAt(t)' # {} <=> HeldAt(t) # {}
      BY <2>2, <3>2
    <3> QED  BY <1>2, <1>8, <1>9, <2>1, <2>2, <2>3, <3>1, <3>3, HolderKept
             DEF Pending
  <2>4. CASE t \in F
    <3>1. t \in async_responses \/ 1 \in HeldAt(t)
      BY <1>4, <1>7, <2>4 DEF Received
    <3>2. /\ HeldIn(t) = {} /\ Takers(t) = {} /\ fate[t] # "none"
          /\ HeldAt(t) \ {1} = {}
      BY <2>1, <3>1 DEF OneHolder, Single
    <3>3. HeldAt(t)' = {} /\ t \notin async_responses'
      BY <1>4, <2>2, <2>4, <3>2 DEF Received
    <3>4. /\ ~(Pending(t)' /\ send_timeouts'[t].type = "passive")
          /\ ~(t >= next_id') /\ fate'[t] = fate[t]
      BY <1>2, <2>1, <3>2 DEF OneHolder, Pending
    <3>5. CASE HeldIn(t)' = {} /\ Takers(t)' = {c}
      <4>1. c \in Takers(t)' /\ \A x \in Takers(t)' : x = c
        BY <3>5
      <4> QED  BY <3>2, <3>3, <3>4, <3>5, <4>1 DEF OneHolder, Single
    <3>6. CASE Takers(t)' = {} /\ \E x : HeldIn(t)' = {x}
      <4>1. PICK x : HeldIn(t)' = {x}
        BY <3>6
      <4>2. x \in HeldIn(t)' /\ \A y \in HeldIn(t)' : y = x
        BY <4>1
      <4> QED  BY <3>2, <3>3, <3>4, <3>6, <4>2 DEF OneHolder, Single
    <3> QED  BY <1>9, <2>4, <3>2, <3>5, <3>6
  <2> QED  BY <2>3, <2>4
<1> QED  BY <1>10 DEF ResponsesHeld

LEMMA NextResponses ==
    TypeOK /\ TypeOK' /\ Ends /\ ResponsesHeld /\ [Next]_vars => ResponsesHeld'
<1> SUFFICES ASSUME TypeOK, TypeOK', Ends, ResponsesHeld, [Next]_vars
             PROVE  ResponsesHeld'
  OBVIOUS
<1>1. CASE UNCHANGED vars
  BY <1>1 DEF vars, ResponsesHeld, OneHolder, HeldAt, HeldIn, Takers, Single,
              Pending, Box
<1>2. CASE Next
  BY <1>2, StepKinds, ResponsesCalled, ResponsesStarted, ResponsesLookedUp,
     ResponsesReceived, ResponsesEnded, ResponsesExpired, ResponsesDown,
     ResponsesTimer
     DEF Kinds
<1> QED  BY <1>1, <1>2

(* A stored response is in one place at any time: in async_responses, in   *)
(* one recv_asyncs that waits for more, or with the one caller that        *)
(* consumed it.                                                            *)
THEOREM OneHolderEach == Spec => []ResponsesHeld
<1>1. Init => ResponsesHeld
  <2> SUFFICES ASSUME Init, NEW t \in TransIds
               PROVE  OneHolder(t)
    BY DEF ResponsesHeld
  <2>1. HeldAt(t) = {} /\ HeldIn(t) = {}
    BY DEF Init, HeldAt, HeldIn, Box
  <2>2. Takers(t) = {}
    BY DEF Init, Takers
  <2>3. fate[t] = "none" /\ t \notin async_responses
    BY DEF Init
  <2> QED  BY <2>1, <2>2, <2>3 DEF OneHolder, Single
<1>2. TypeOK /\ TypeOK' /\ Ends /\ ResponsesHeld /\ [Next]_vars => ResponsesHeld'
  BY NextResponses
<1> QED  BY <1>1, <1>2, TypeCorrect, RequestsEnd, PTL DEF Spec

(* No response is handed to two consuming receives, though receives race   *)
(* for it across their retries (recv_async, recv_asyncs_pick).             *)
THEOREM ResponsesConsumedOnce == Spec => []ConsumedOnce
<1>1. ASSUME ResponsesHeld
      PROVE  ConsumedOnce
  <2>1. SUFFICES ASSUME NEW t \in TransIds
                 PROVE  Cardinality(Takers(t)) <= 1
    BY DEF ConsumedOnce
  <2>2. Single(Takers(t))
    BY <1>1 DEF ResponsesHeld, OneHolder
  <2>3. CASE Takers(t) = {}
    BY <2>3, FS_EmptySet
  <2>4. CASE Takers(t) # {}
    <3>1. PICK c : c \in Takers(t)
      BY <2>4
    <3>2. Takers(t) = {c}
      BY <2>2, <3>1 DEF Single
    <3> QED  BY <3>2, FS_Singleton
  <2> QED  BY <2>3, <2>4
<1> QED  BY <1>1, OneHolderEach, PTL

(* No stored response is lost before it expires: not by a recv_asyncs that *)
(* has found some of its responses and waits for the others.               *)
THEOREM ResponsesStay == Spec => []ResponseKept
<1>1. ASSUME TypeOK, ResponsesHeld
      PROVE  ResponseKept
  <2>1. SUFFICES ASSUME NEW t \in TransIds, fate[t] = "stored"
                 PROVE  \/ t \in async_responses
                        \/ \E i \in DOMAIN mailbox : Holds(mailbox[i], t)
                        \/ \E tm \in timers : Holds(tm.msg, t)
                        \/ Takers(t) # {}
    BY Zenon DEF ResponseKept, InMailbox
  <2>2. \/ t \in async_responses \/ HeldAt(t) # {} \/ HeldIn(t) # {}
        \/ Takers(t) # {}
    BY <1>1, <2>1 DEF ResponsesHeld, OneHolder
  <2>3. DOMAIN mailbox = Box
    BY <1>1 DEF TypeOK, Box
  <2> QED  BY <2>2, <2>3 DEF HeldAt, HeldIn
<1> QED  BY <1>1, TypeCorrect, OneHolderEach, PTL
=============================================================================
