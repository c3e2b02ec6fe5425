------------------------ MODULE ServicesMonitor_proofs ------------------------
(***************************************************************************)
(* Proofs about ServicesMonitor, for any services and configurations:      *)
(* the table of the monitor and the processes agree, two generations of a  *)
(* group never run side by side, and max_r restarts in MaxT seconds are    *)
(* never exceeded.                                                         *)
(*                                                                         *)
(* Each index of a service is in the hands of at most one of: a message of *)
(* the mailbox, a timer, the handler the monitor is blocked in, and the    *)
(* table.                                                                  *)
(***************************************************************************)
EXTENDS ServicesMonitor, TLAPS, SequenceTheorems, FiniteSetTheorems

-----------------------------------------------------------------------------
(* The inductive invariant                                                 *)

In(q) == {q[k] : k \in 1..Len(q)}
Single(S) == \A x, y \in S : x = y

Stages == {"stage2", "stage3"}

\* A message that will start index i of service s.
ToStart(m, s, i) ==
    \/ m.tag = "monitor" /\ m.id = s /\ m.index = i
    \/ m.tag \in Stages /\ m.id = s /\ m.service.index = i

\* Who has index i of s in hand, and which of its processes live.
Mailed(q, s, i) == {k \in 1..Len(q) : ToStart(q[k], s, i)}
Timed(ts, s, i) == {m \in ts : ToStart(m, s, i)}
Blocked(w, s, i) ==
    w.kind \in {"restart", "init"} /\ w.id = s /\ w.service.index = i
Listed(es, s, i) == {e \in es : e.id = s /\ e.service.index = i}
Live(as, s, i) == {a.pid : a \in {x \in as : x.service = s /\ x.index = i}}

\* The processes of the index that the blocked monitor knows of.
Covered(w) == IF w.kind = "init" THEN In(w.service.pids) ELSE In(w.pids)

Fits(L, M, T, B, C, E) ==
    /\ Single(M) /\ Single(T)
    /\ M # {} => T = {} /\ ~B /\ E = {} /\ L = {}
    /\ T # {} => ~B /\ E = {} /\ L = {}
    /\ B => E = {} /\ L \subseteq C
    /\ \A e \in E : L \subseteq In(e.service.pids)
    /\ \A e, f \in E : e.service = f.service

Hands(as, q, ts, w, es) ==
    \A s \in Services : \A i \in Indices(s) :
        Fits(Live(as, s, i), Mailed(q, s, i), Timed(ts, s, i),
             Blocked(w, s, i), Covered(w), Listed(es, s, i))

InOneHand == Hands(alive, mailbox, timers, wait, services)

\* A service record, and its restarts that still count: each has a place of
\* its own in restart_times.
RecordOK(s, rec) ==
    /\ rec \in [index : Indices(s), pids : Seq(1..MaxPids),
                restart_count : 0..options[s].max_r,
                restart_times : Seq(0..MaxTime)]
    /\ rec.restart_count = Len(rec.restart_times)

Remembers(rec, times) ==
    \E g \in [Recent(times) -> 1..Len(rec.restart_times)] :
        /\ \A j, k \in Recent(times) : g[j] = g[k] => j = k
        /\ \A k \in Recent(times) : rec.restart_times[g[k]] = times[k]

\* What holds a service record.
Holders(q, ts, w, es) ==
    es \cup {x \in {w} : x.kind \in {"restart", "init"}}
       \cup {m \in ts \cup In(q) : m.tag \in Stages}

HolderOK(h) ==
    /\ h.id \in Services /\ RecordOK(h.id, h.service)
    /\ Remembers(h.service, restarts[h.id][h.service.index])

Recorded ==
    \A h \in Holders(mailbox, timers, wait, services) : HolderOK(h)

\* The history of the restarts.
History(r, times) ==
    /\ times \in Seq(0..now)
    /\ \A j, k \in 1..Len(times) : j <= k => times[j] <= times[k]
    /\ \A k \in 1..Len(times) :
          k + r \in 1..Len(times) => times[k + r] - times[k] > MaxT

Histories ==
    /\ restarts = [s \in Services |-> [i \in Indices(s) |-> restarts[s][i]]]
    /\ \A s \in Services : \A i \in Indices(s) :
          History(options[s].max_r, restarts[s][i])

\* The messages of the mailbox and of the timers.
MessageOK(m) ==
    /\ m.tag = "monitor" =>
          /\ m.id \in Services /\ m.index \in Indices(m.id)
          /\ restarts[m.id][m.index] = <<>>
    /\ m.tag \in Stages => m.id \in Services
    /\ m.tag = "stage3" => options[m.id].max_r # 0
    /\ m.tag = "DOWN" => m.pid \in 1..next_pid - 1 /\ ~Alive(m.pid)

Mail ==
    /\ mailbox \in Seq(In(mailbox))
    /\ \A m \in In(mailbox) \cup timers : MessageOK(m)

\* Processes, by their pids.
ProcessOK(a) ==
    /\ a = [pid |-> a.pid, service |-> a.service, index |-> a.index,
            state |-> a.state, reason |-> a.reason, group |-> a.group]
    /\ a.pid \in 1..next_pid - 1
    /\ a.service \in Services /\ a.index \in Indices(a.service)
    /\ a.state \in {"init", "up", "ending"}

Living ==
    /\ next_pid \in 1..MaxPids + 1
    /\ \A a \in alive : ProcessOK(a)
    /\ \A a, b \in alive : a.pid = b.pid => a = b
    /\ \A x \in signals : x.pid \in 1..next_pid - 1
    /\ OneGeneration

\* The table.
Table ==
    /\ \A e \in services :
         /\ e.id \in Services /\ e.pid \in In(e.service.pids)
         /\ e.pid \in 1..next_pid - 1
    /\ \A e, f \in services : e.pid = f.pid => e = f
    /\ NoOrphans /\ KnownAlive

\* What the monitor is blocked in: the processes that it ends are out of
\* its table, those that it starts are not yet in it.
Shape(w) ==
    /\ w.kind \in {"none", "shutdown", "restart", "init"}
    /\ w.kind = "none" => w = NoWait
    /\ w.kind # "none" => w.id \in Services /\ w.pids \in Seq(Nat)
    /\ w.kind = "shutdown" =>
          w = [kind |-> "shutdown", id |-> w.id, pids |-> w.pids,
               killed |-> w.killed]
    /\ w.kind = "restart" =>
          w = [kind |-> "restart", id |-> w.id, killed |-> w.killed,
               pids |-> w.pids, service |-> w.service]
    /\ w.kind = "init" =>
          w = [kind |-> "init", id |-> w.id, pids |-> w.pids,
               service |-> w.service]

Ended ==
    wait.kind \in {"shutdown", "restart"} =>
        \A p \in In(wait.pids) : Known(p) = {}

Begun ==
    wait.kind = "init" =>
        \A p \in In(wait.service.pids) :
            /\ p \in 1..next_pid - 1 /\ Known(p) = {}
            /\ Alive(p) \/ DownDue(p)

Rest ==
    /\ options \in [Services -> Scenarios]
    /\ configured \subseteq Services
    /\ now \in 0..MaxTime
    /\ calls \in Nat

Inv == /\ InOneHand /\ Recorded /\ Histories /\ Mail /\ Living
       /\ Table /\ Shape(wait) /\ Ended /\ Begun /\ Rest

-----------------------------------------------------------------------------
(* The mailbox                                                             *)

(* A message is sent.                                                      *)
LEMMA Sent ==
    ASSUME NEW q, q \in Seq(In(q)), NEW m
    PROVE  /\ Append(q, m) \in Seq(In(Append(q, m)))
           /\ In(Append(q, m)) = In(q) \cup {m}
           /\ \A s, i : ~ToStart(m, s, i) =>
                 Mailed(Append(q, m), s, i) = Mailed(q, s, i)
           /\ \A s, i : Mailed(q, s, i) = {} =>
                 Single(Mailed(Append(q, m), s, i))
<1> DEFINE r == Append(q, m)
<1>1. q \in Seq(In(q) \cup {m}) /\ m \in In(q) \cup {m}
  OBVIOUS
<1>2. /\ r \in Seq(In(q) \cup {m}) /\ Len(q) \in Nat /\ Len(r) = Len(q) + 1
      /\ \A k \in 1..Len(q) : r[k] = q[k]
      /\ r[Len(q) + 1] = m
  BY <1>1
<1> HIDE DEF r
<1>3. In(r) = In(q) \cup {m}
  <2>1. \A k \in 1..Len(r) : k \in 1..Len(q) \/ k = Len(q) + 1
    BY <1>2
  <2>2. Len(q) + 1 \in 1..Len(r) /\ \A k \in 1..Len(q) : k \in 1..Len(r)
    BY <1>2
  <2> QED BY <1>2, <2>1, <2>2, Zenon DEF In
<1>4. r \in Seq(In(r))
  BY <1>2, <1>3, Zenon
<1>5. ASSUME NEW s, NEW i, ~ToStart(m, s, i)
      PROVE  Mailed(r, s, i) = Mailed(q, s, i)
  <2>1. \A k \in 1..Len(r) : k \in 1..Len(q) \/ k = Len(q) + 1
    BY <1>2
  <2>2. \A k \in 1..Len(q) : k \in 1..Len(r)
    BY <1>2
  <2>3. ASSUME NEW k \in 1..Len(r), ToStart(r[k], s, i)
        PROVE  k \in 1..Len(q) /\ ToStart(q[k], s, i)
    BY <1>2, <1>5, <2>1, <2>3, Zenon
  <2>4. ASSUME NEW k \in 1..Len(q), ToStart(q[k], s, i)
        PROVE  k \in 1..Len(r) /\ ToStart(r[k], s, i)
    BY <1>2, <2>2, <2>4, Zenon
  <2> QED BY <2>3, <2>4, Zenon DEF Mailed
<1>6. ASSUME NEW s, NEW i, Mailed(q, s, i) = {}
      PROVE  Single(Mailed(r, s, i))
  <2>1. \A k \in 1..Len(r) : k \in 1..Len(q) \/ k = Len(q) + 1
    BY <1>2
  <2>2. ASSUME NEW k \in Mailed(r, s, i) PROVE k = Len(q) + 1
    <3>1. k \in 1..Len(r) /\ ToStart(r[k], s, i)
      BY <2>2, Zenon DEF Mailed
    <3>2. CASE k \in 1..Len(q)
      <4>1. ToStart(q[k], s, i)
        BY <3>1, <3>2, <1>2, Zenon
      <4> QED BY <4>1, <3>2, <1>6, Zenon DEF Mailed
    <3> QED BY <3>1, <3>2, <2>1, Zenon
  <2> QED BY <2>2, Zenon DEF Single
<1> QED BY <1>3, <1>4, <1>5, <1>6, Zenon DEF r

(* The order of the messages that start something does not matter: a new   *)
(* mailbox whose messages have distinct places in the old one starts no    *)
(* index that the old one does not, and none twice.                        *)
Fewer(q, r) ==
    /\ \A s, i : Single(Mailed(q, s, i)) => Single(Mailed(r, s, i))
    /\ \A s, i : Mailed(q, s, i) = {} => Mailed(r, s, i) = {}

(* Such a new mailbox keeps what was said of the old one.                  *)
LEMMA Places ==
    ASSUME NEW q, NEW r, NEW f,
           \A k \in 1..Len(r) : f[k] \in 1..Len(q) /\ r[k] = q[f[k]],
           \A j, k \in 1..Len(r) : f[j] = f[k] => j = k
    PROVE  Fewer(q, r)
<1>1. ASSUME NEW s, NEW i, NEW k \in Mailed(r, s, i)
      PROVE  f[k] \in Mailed(q, s, i) /\ k \in 1..Len(r)
  <2>1. k \in 1..Len(r) /\ ToStart(r[k], s, i)
    BY <1>1, Zenon DEF Mailed
  <2>2. f[k] \in 1..Len(q) /\ ToStart(q[f[k]], s, i)
    BY <2>1, Zenon
  <2> QED BY <2>1, <2>2, Zenon DEF Mailed
<1>2. ASSUME NEW s, NEW i, Single(Mailed(q, s, i))
      PROVE  Single(Mailed(r, s, i))
  <2>1. ASSUME NEW j \in Mailed(r, s, i), NEW k \in Mailed(r, s, i)
        PROVE  j = k
    <3>1. /\ f[j] \in Mailed(q, s, i) /\ j \in 1..Len(r)
          /\ f[k] \in Mailed(q, s, i) /\ k \in 1..Len(r)
      BY <1>1, Zenon
    <3>2. f[j] = f[k]
      BY <3>1, <1>2, Zenon DEF Single
    <3> QED BY <3>1, <3>2, Zenon
  <2> QED BY <2>1, Zenon DEF Single
<1>3. ASSUME NEW s, NEW i, Mailed(q, s, i) = {}
      PROVE  Mailed(r, s, i) = {}
  BY <1>1, <1>3, Zenon
<1> QED BY <1>2, <1>3, Zenon DEF Fewer

(* The first message is taken.                                             *)
LEMMA Taken ==
    ASSUME NEW q, q \in Seq(In(q)), q # <<>>
    PROVE  /\ Tail(q) \in Seq(In(Tail(q)))
           /\ In(Tail(q)) \subseteq In(q)
           /\ Head(q) \in In(q)
           /\ \A m \in In(q) : m = Head(q) \/ m \in In(Tail(q))
           /\ Fewer(q, Tail(q))
           /\ \A s, i : ToStart(Head(q), s, i) /\ Single(Mailed(q, s, i)) =>
                 Mailed(Tail(q), s, i) = {}
           /\ \A s, i : ToStart(Head(q), s, i) => Mailed(q, s, i) # {}
<1> DEFINE r == Tail(q)
           h == Head(q)
           f == [k \in 1..Len(r) |-> k + 1]
<1>1. /\ r \in Seq(In(q)) /\ Len(q) \in Nat \ {0} /\ Len(r) = Len(q) - 1
      /\ \A k \in 1..Len(r) : r[k] = q[k + 1]
      /\ h = q[1]
  OBVIOUS
<1> HIDE DEF r, h
<1>2. 1 \in 1..Len(q) /\ \A k \in 1..Len(r) : k + 1 \in 1..Len(q)
  BY <1>1
<1>3. In(r) \subseteq In(q) /\ h \in In(q)
  BY <1>1, <1>2, Zenon DEF In
<1>4. r \in Seq(In(r))
  <2>1. \A k \in 1..Len(r) : r[k] \in In(r)
    BY Zenon DEF In
  <2> QED BY <1>1, <2>1
<1>5. ASSUME NEW m \in In(q) PROVE m = h \/ m \in In(r)
  <2>1. PICK k \in 1..Len(q) : m = q[k]
    BY Zenon DEF In
  <2>2. CASE k = 1
    BY <2>1, <2>2, <1>1
  <2>3. CASE k # 1
    <3>1. k - 1 \in 1..Len(r) /\ k = (k - 1) + 1
      BY <1>1, <2>1, <2>3
    <3>2. r[k - 1] = m
      BY <3>1, <2>1, <1>1
    <3> QED BY <3>1, <3>2, Zenon DEF In
  <2> QED BY <2>2, <2>3
<1>6. Fewer(q, r)
  <2>1. \A k \in 1..Len(r) : f[k] \in 1..Len(q) /\ r[k] = q[f[k]]
    BY <1>1, <1>2
  <2>2. \A j, k \in 1..Len(r) : f[j] = f[k] => j = k
    BY <1>1
  <2> HIDE DEF f
  <2> QED BY <2>1, <2>2, Places
<1>7. ASSUME NEW s, NEW i, ToStart(h, s, i) PROVE 1 \in Mailed(q, s, i)
  <2>1. ToStart(q[1], s, i)
    BY <1>7, <1>1, Zenon
  <2> QED BY <1>2, <2>1, Zenon DEF Mailed
<1>8. ASSUME NEW s, NEW i, ToStart(h, s, i), Single(Mailed(q, s, i))
      PROVE  Mailed(r, s, i) = {}
  <2>1. ASSUME NEW k \in Mailed(r, s, i) PROVE FALSE
    <3>1. k \in 1..Len(r) /\ ToStart(r[k], s, i)
      BY <2>1, Zenon DEF Mailed
    <3>2. k + 1 \in 1..Len(q) /\ ToStart(q[k + 1], s, i)
      BY <3>1, <1>1, <1>2, Zenon
    <3>3. k + 1 \in Mailed(q, s, i)
      BY <3>2, Zenon DEF Mailed
    <3>4. k + 1 = 1
      BY <3>3, <1>7, <1>8, Zenon DEF Single
    <3> QED BY <3>4, <3>1
  <2> QED BY <2>1, Zenon
<1> QED BY <1>3, <1>4, <1>5, <1>6, <1>7, <1>8, Zenon DEF r, h

(* A message is taken from the middle.                                     *)
LEMMA Removed ==
    ASSUME NEW S, NEW q \in Seq(S), NEW k \in 1..Len(q)
    PROVE  /\ RemoveAt(q, k) \in Seq(S)
           /\ RemoveAt(q, k) \in Seq(In(RemoveAt(q, k)))
           /\ In(RemoveAt(q, k)) \subseteq In(q)
           /\ \A m \in In(q) : m = q[k] \/ m \in In(RemoveAt(q, k))
           /\ Fewer(q, RemoveAt(q, k))
<1> DEFINE a == SubSeq(q, 1, k - 1)
           b == SubSeq(q, k + 1, Len(q))
           r == RemoveAt(q, k)
           f == [j \in 1..Len(r) |-> IF j < k THEN j ELSE j + 1]
<1>1. Len(q) \in Nat /\ k \in Nat /\ 1 <= k /\ k <= Len(q)
  OBVIOUS
<1>2. /\ a \in Seq(S) /\ Len(a) = k - 1
      /\ \A j \in 1..k - 1 : a[j] = q[j]
  <2>1. k - 1 \in 1 - 1 .. Len(q) /\ 1 \in 1..Len(q) + 1
    BY <1>1
  <2>2. k - 1 \in Nat
    BY <1>1
  <2> QED BY <1>1, <2>1, <2>2
<1>3. /\ b \in Seq(S) /\ Len(b) = Len(q) - k
      /\ \A j \in 1..Len(q) - k : b[j] = q[j + k]
  <2>1. k + 1 \in 1..Len(q) + 1 /\ Len(q) \in k..Len(q)
    BY <1>1
  <2> QED BY <1>1, <2>1
<1>4. r = a \o b
  BY Zenon DEF RemoveAt
<1> HIDE DEF a, b, r
<1>5. /\ r \in Seq(S) /\ Len(r) = Len(q) - 1
      /\ \A j \in 1..Len(r) :
            r[j] = IF j <= k - 1 THEN a[j] ELSE b[j - (k - 1)]
  <2>1. /\ a \o b \in Seq(S) /\ Len(a \o b) = Len(a) + Len(b)
        /\ \A j \in 1..Len(a) + Len(b) :
              (a \o b)[j] = IF j <= Len(a) THEN a[j] ELSE b[j - Len(a)]
    BY <1>2, <1>3, ConcatProperties
  <2>2. Len(a) + Len(b) = Len(q) - 1
    BY <1>1, <1>2, <1>3
  <2>3. r \in Seq(S) /\ Len(r) = Len(q) - 1
    BY <2>1, <2>2, <1>4, Zenon
  <2>4. \A j \in 1..Len(r) :
           r[j] = IF j <= k - 1 THEN a[j] ELSE b[j - (k - 1)]
    BY <2>1, <2>2, <2>3, <1>2, <1>4, Zenon
  <2> QED BY <2>3, <2>4
<1>6. \A j \in 1..Len(r) : f[j] \in 1..Len(q) /\ r[j] = q[f[j]]
  <2> SUFFICES ASSUME NEW j \in 1..Len(r)
               PROVE  f[j] \in 1..Len(q) /\ r[j] = q[f[j]]
    OBVIOUS
  <2>1. CASE j < k
    <3>1. f[j] = j /\ j \in 1..k - 1 /\ j <= k - 1
      BY <2>1, <1>1, <1>5
    <3> QED BY <3>1, <1>1, <1>2, <1>5
  <2>2. CASE ~(j < k)
    <3>1. /\ f[j] = j + 1 /\ j - (k - 1) \in 1..Len(q) - k
          /\ ~(j <= k - 1) /\ (j - (k - 1)) + k = j + 1
      BY <2>2, <1>1, <1>5
    <3>2. r[j] = b[j - (k - 1)]
      BY <3>1, <1>5
    <3>3. b[j - (k - 1)] = q[(j - (k - 1)) + k]
      BY <3>1, <1>3
    <3>4. r[j] = q[f[j]]
      BY <3>1, <3>2, <3>3
    <3>5. f[j] \in 1..Len(q)
      BY <3>1, <1>1, <1>5
    <3> QED BY <3>4, <3>5
  <2> QED BY <2>1, <2>2
<1>7. \A j, l \in 1..Len(r) : f[j] = f[l] => j = l
  BY <1>1, <1>5
<1>8. \A l \in 1..Len(q) : l = k \/ \E j \in 1..Len(r) : f[j] = l
  <2> SUFFICES ASSUME NEW l \in 1..Len(q), l # k
               PROVE  \E j \in 1..Len(r) : f[j] = l
    OBVIOUS
  <2>1. CASE l < k
    <3>1. l \in 1..Len(r) /\ f[l] = l
      BY <2>1, <1>1, <1>5
    <3> QED BY <3>1
  <2>2. CASE l > k
    <3>1. l - 1 \in 1..Len(r) /\ ~(l - 1 < k) /\ (l - 1) + 1 = l
      BY <2>2, <1>1, <1>5
    <3>2. f[l - 1] = l
      BY <3>1
    <3> QED BY <3>1, <3>2
  <2> QED BY <2>1, <2>2, <1>1
<1> HIDE DEF f
<1>9. Fewer(q, r)
  BY <1>6, <1>7, Places
<1>10. In(r) \subseteq In(q)
  <2>1. ASSUME NEW j \in 1..Len(r) PROVE r[j] \in In(q)
    BY <1>6, Zenon DEF In
  <2> QED BY <2>1, Zenon DEF In
<1>11. ASSUME NEW m \in In(q) PROVE m = q[k] \/ m \in In(r)
  <2>1. PICK l \in 1..Len(q) : m = q[l]
    BY Zenon DEF In
  <2>2. CASE l # k
    <3>1. PICK j \in 1..Len(r) : f[j] = l
      BY <2>2, <1>8, Zenon
    <3>2. r[j] = m
      BY <3>1, <2>1, <1>6, Zenon
    <3> QED BY <3>2, Zenon DEF In
  <2> QED BY <2>1, <2>2, Zenon
<1>12. r \in Seq(In(r))
  <2>1. \A j \in 1..Len(r) : r[j] \in In(r)
    BY Zenon DEF In
  <2> QED BY <1>5, <2>1
<1> QED BY <1>5, <1>9, <1>10, <1>11, <1>12, Zenon DEF r

(* The monitor waits for every process of the group except the one whose   *)
(* DOWN it has.                                                            *)
LEMMA WaitForAll ==
    ASSUME NEW S, NEW pids \in Seq(S), NEW old
    PROVE  /\ WaitFor(pids, old) \in Seq(S)
           /\ In(WaitFor(pids, old)) \subseteq In(pids)
           /\ \A p \in In(pids) : p = old \/ p \in In(WaitFor(pids, old))
<1>1. CASE old \in ToSet(pids)
  <2> DEFINE k == CHOOSE j \in DOMAIN pids : pids[j] = old
  <2>1. DOMAIN pids = 1..Len(pids)
    OBVIOUS
  <2>2. \E j \in DOMAIN pids : pids[j] = old
    BY <1>1, Zenon DEF ToSet
  <2>3. k \in DOMAIN pids /\ pids[k] = old
    BY <2>2, Zenon
  <2>4. WaitFor(pids, old) = RemoveAt(pids, k)
    BY <1>1, Zenon DEF WaitFor
  <2> HIDE DEF k
  <2>5. k \in 1..Len(pids)
    BY <2>1, <2>3, Zenon
  <2>6. /\ RemoveAt(pids, k) \in Seq(S)
        /\ In(RemoveAt(pids, k)) \subseteq In(pids)
        /\ \A p \in In(pids) : p = pids[k] \/ p \in In(RemoveAt(pids, k))
    BY <2>5, Removed, Zenon
  <2> QED BY <2>3, <2>4, <2>6, Zenon
<1>2. CASE old \notin ToSet(pids)
  <2>1. WaitFor(pids, old) = pids
    BY <1>2, Zenon DEF WaitFor
  <2> QED BY <2>1, Zenon
<1> QED BY <1>1, <1>2, Zenon

(* A sequence and the set of its elements.                                 *)
LEMMA InSet ==
    ASSUME NEW S, NEW q \in Seq(S)
    PROVE  /\ ToSet(q) = In(q) /\ In(q) \subseteq S
           /\ q \in Seq(In(q)) /\ DOMAIN q = 1..Len(q)
           /\ (q = <<>> <=> In(q) = {})
<1>1. DOMAIN q = 1..Len(q) /\ Len(q) \in Nat
  OBVIOUS
<1>2. \A k \in 1..Len(q) : q[k] \in In(q)
  BY Zenon DEF In
<1>3. q \in Seq(In(q))
  BY <1>1, <1>2
<1>4. ToSet(q) = In(q)
  BY <1>1, Zenon DEF ToSet, In
<1>5. In(q) \subseteq S
  <2>1. \A k \in 1..Len(q) : q[k] \in S
    OBVIOUS
  <2> QED BY <2>1, Zenon DEF In
<1>6. q = <<>> => In(q) = {}
  <2>1. q = <<>> => 1..Len(q) = {}
    BY <1>1
  <2> QED BY <2>1, Zenon DEF In
<1>7. q # <<>> => In(q) # {}
  <2> SUFFICES ASSUME q # <<>> PROVE In(q) # {}
    OBVIOUS
  <2>1. 1 \in 1..Len(q)
    OBVIOUS
  <2> QED BY <2>1, Zenon DEF In
<1> QED BY <1>1, <1>3, <1>4, <1>5, <1>6, <1>7, Zenon

(* A sequence over a set is one over every wider set.                      *)
LEMMA SeqWider ==
    ASSUME NEW S, NEW T, S \subseteq T, NEW q \in Seq(S)
    PROVE  q \in Seq(T)
  OBVIOUS

-----------------------------------------------------------------------------
(* Who has an index in hand                                                *)

(* Fewer hands: an index that fits still does when processes end, and      *)
(* messages, timers and entries of the table go away.                      *)
LEMMA FitsLess ==
    ASSUME NEW L, NEW M, NEW T, NEW B, NEW C, NEW E, Fits(L, M, T, B, C, E),
           NEW L2, NEW M2, NEW T2, NEW B2, NEW C2, NEW E2,
           L2 \subseteq L, Single(M) => Single(M2), M = {} => M2 = {},
           T2 \subseteq T, B2 => B /\ (L \subseteq C => L2 \subseteq C2),
           E2 \subseteq E
    PROVE  Fits(L2, M2, T2, B2, C2, E2)
<1>1. /\ Single(M) /\ Single(T)
      /\ M # {} => T = {} /\ ~B /\ E = {} /\ L = {}
      /\ T # {} => ~B /\ E = {} /\ L = {}
      /\ B => E = {} /\ L \subseteq C
      /\ \A e \in E : L \subseteq In(e.service.pids)
      /\ \A e, f \in E : e.service = f.service
  BY Zenon DEF Fits
<1>2. Single(M2) /\ Single(T2)
  BY <1>1, Zenon DEF Single
<1>3. M2 # {} => T2 = {} /\ ~B2 /\ E2 = {} /\ L2 = {}
  BY <1>1, Zenon
<1>4. T2 # {} => ~B2 /\ E2 = {} /\ L2 = {}
  BY <1>1, Zenon
<1>5. B2 => E2 = {} /\ L2 \subseteq C2
  BY <1>1, Zenon
<1>6. \A e \in E2 : L2 \subseteq In(e.service.pids)
  BY <1>1, Zenon
<1>7. \A e, f \in E2 : e.service = f.service
  BY <1>1, Zenon
<1> QED BY <1>2, <1>3, <1>4, <1>5, <1>6, <1>7, Zenon DEF Fits

(* The parts of who has an index in hand.                                  *)
LEMMA FitsAt ==
    ASSUME NEW as, NEW q, NEW ts, NEW w, NEW es, Hands(as, q, ts, w, es),
           NEW s \in Services, NEW i \in Indices(s)
    PROVE  /\ Single(Mailed(q, s, i)) /\ Single(Timed(ts, s, i))
           /\ Mailed(q, s, i) # {} =>
                 /\ Timed(ts, s, i) = {} /\ ~Blocked(w, s, i)
                 /\ Listed(es, s, i) = {} /\ Live(as, s, i) = {}
           /\ Timed(ts, s, i) # {} =>
                 /\ ~Blocked(w, s, i)
                 /\ Listed(es, s, i) = {} /\ Live(as, s, i) = {}
           /\ Blocked(w, s, i) =>
                 /\ Listed(es, s, i) = {}
                 /\ Live(as, s, i) \subseteq Covered(w)
           /\ \A e \in Listed(es, s, i) :
                 Live(as, s, i) \subseteq In(e.service.pids)
           /\ \A e, f \in Listed(es, s, i) : e.service = f.service
<1>1. Fits(Live(as, s, i), Mailed(q, s, i), Timed(ts, s, i),
           Blocked(w, s, i), Covered(w), Listed(es, s, i))
  BY Zenon DEF Hands
<1> QED BY <1>1, Zenon DEF Fits

(* The invariant on hands is kept when hands only let go, and a blocked    *)
(* handler waits for at least the processes it waited for.                 *)
LEMMA HandsLess ==
    ASSUME NEW as, NEW q, NEW ts, NEW w, NEW es, Hands(as, q, ts, w, es),
           NEW as2, NEW q2, NEW ts2, NEW w2, NEW es2,
           \A s, i : Live(as2, s, i) \subseteq Live(as, s, i),
           Fewer(q, q2),
           \A s, i : Timed(ts2, s, i) \subseteq Timed(ts, s, i),
           \A s, i : Blocked(w2, s, i) =>
              /\ Blocked(w, s, i)
              /\ Live(as, s, i) \subseteq Covered(w) =>
                    Live(as2, s, i) \subseteq Covered(w2),
           es2 \subseteq es
    PROVE  Hands(as2, q2, ts2, w2, es2)
<1> SUFFICES ASSUME NEW s \in Services, NEW i \in Indices(s)
             PROVE  Fits(Live(as2, s, i), Mailed(q2, s, i), Timed(ts2, s, i),
                         Blocked(w2, s, i), Covered(w2), Listed(es2, s, i))
  BY Zenon DEF Hands
<1> DEFINE L == Live(as, s, i)
           M == Mailed(q, s, i)
           T == Timed(ts, s, i)
           B == Blocked(w, s, i)
           C == Covered(w)
           E == Listed(es, s, i)
           L2 == Live(as2, s, i)
           M2 == Mailed(q2, s, i)
           T2 == Timed(ts2, s, i)
           B2 == Blocked(w2, s, i)
           C2 == Covered(w2)
           E2 == Listed(es2, s, i)
<1>1. Fits(L, M, T, B, C, E)
  BY Zenon DEF Hands
<1>2. (Single(M) => Single(M2)) /\ (M = {} => M2 = {})
  BY Zenon DEF Fewer
<1>3. E2 \subseteq E
  BY Zenon DEF Listed
<1>4. L2 \subseteq L /\ T2 \subseteq T
  BY Zenon
<1>5. B2 => B /\ (L \subseteq C => L2 \subseteq C2)
  BY Zenon
<1>6. Fits(L2, M2, T2, B2, C2, E2)
  <2> HIDE DEF L, M, T, B, C, E, L2, M2, T2, B2, C2, E2
  <2> QED BY <1>1, <1>2, <1>3, <1>4, <1>5, FitsLess
<1> QED BY <1>6, Zenon

-----------------------------------------------------------------------------
(* What a step leaves as it is                                             *)

(* The invariant, taken apart.                                             *)
LEMMA Parts ==
    ASSUME Inv
    PROVE  /\ Hands(alive, mailbox, timers, wait, services)
           /\ \A h \in Holders(mailbox, timers, wait, services) : HolderOK(h)
           /\ Histories
           /\ mailbox \in Seq(In(mailbox))
           /\ \A m \in In(mailbox) \cup timers : MessageOK(m)
           /\ next_pid \in 1..MaxPids + 1
           /\ \A a \in alive : ProcessOK(a)
           /\ \A a, b \in alive : a.pid = b.pid => a = b
           /\ \A x \in signals : x.pid \in 1..next_pid - 1
           /\ OneGeneration
           /\ \A e \in services :
                /\ e.id \in Services /\ e.pid \in In(e.service.pids)
                /\ e.pid \in 1..next_pid - 1
           /\ \A e, f \in services : e.pid = f.pid => e = f
           /\ NoOrphans /\ KnownAlive
           /\ Shape(wait) /\ Ended /\ Begun
           /\ Rest
  BY Zenon DEF Inv, InOneHand, Recorded, Mail, Living, Table

(* A message is in the mailbox, by its place and by the set of messages.   *)
LEMMA Posted ==
    ASSUME mailbox \in Seq(In(mailbox))
    PROVE  /\ \A m : InMailbox(m) <=> m \in In(mailbox)
           /\ \A p : DownDue(p) <=>
                \E m \in In(mailbox) : m.tag = "DOWN" /\ m.pid = p
<1>1. DOMAIN mailbox = 1..Len(mailbox)
  OBVIOUS
<1>2. ASSUME NEW m PROVE InMailbox(m) <=> m \in In(mailbox)
  BY <1>1, Zenon DEF InMailbox, In
<1>3. ASSUME NEW p
      PROVE  DownDue(p) <=>
                \E m \in In(mailbox) : m.tag = "DOWN" /\ m.pid = p
  BY <1>1, Zenon DEF DownDue, In
<1> QED BY <1>2, <1>3, Zenon

(* The same in the next state.                                             *)
LEMMA PostedNext ==
    ASSUME mailbox' \in Seq(In(mailbox'))
    PROVE  /\ \A m : InMailbox(m)' <=> m \in In(mailbox')
           /\ \A p : DownDue(p)' <=>
                \E m \in In(mailbox') : m.tag = "DOWN" /\ m.pid = p
<1>1. DOMAIN mailbox' = 1..Len(mailbox')
  OBVIOUS
<1>2. ASSUME NEW m PROVE InMailbox(m)' <=> m \in In(mailbox')
  BY <1>1, Zenon DEF InMailbox, In
<1>3. ASSUME NEW p
      PROVE  DownDue(p)' <=>
                \E m \in In(mailbox') : m.tag = "DOWN" /\ m.pid = p
  BY <1>1, Zenon DEF DownDue, In
<1> QED BY <1>2, <1>3, Zenon

(* A service record stays right while no process of its index restarts.    *)
LEMMA HolderKept ==
    ASSUME NEW h, HolderOK(h), options' = options, now' = now,
           restarts' = restarts
    PROVE  HolderOK(h)'
<1>1. RecordOK(h.id, h.service)'
  BY DEF HolderOK, RecordOK, Indices
<1>2. \A times : Recent(times)' = Recent(times)
  BY DEF Recent
<1>3. \A rec, times : Remembers(rec, times) => Remembers(rec, times)'
  BY <1>2, Zenon DEF Remembers
<1> QED BY <1>1, <1>3 DEF HolderOK

(* Messages that neither start nor end anything.                           *)
Plain(m) == m.tag \notin Stages \cup {"monitor", "DOWN"}

(* The messages after a step in which no process starts.                   *)
LEMMA MailKept ==
    ASSUME \A m \in In(mailbox) \cup timers : MessageOK(m),
           mailbox' \in Seq(In(mailbox')),
           UNCHANGED <<options, restarts, next_pid>>,
           \A p : Alive(p)' => Alive(p),
           \A m \in In(mailbox') \cup timers' :
              \/ m \in In(mailbox) \cup timers
              \/ Plain(m)
              \/ m.tag = "DOWN" /\ m.pid \in 1..next_pid - 1 /\ ~Alive(m.pid)'
    PROVE  Mail'
<1> SUFFICES ASSUME NEW m \in In(mailbox') \cup timers' PROVE MessageOK(m)'
  BY Zenon DEF Mail
<1>1. CASE m \in In(mailbox) \cup timers
  <2>1. MessageOK(m)
    BY <1>1, Zenon
  <2>2. ~Alive(m.pid) => ~Alive(m.pid)'
    BY Zenon
  <2>3. \A s : Indices(s)' = Indices(s)
    BY DEF Indices
  <2> QED BY <2>1, <2>2, <2>3, Zenon DEF MessageOK
<1>2. CASE Plain(m)
  BY <1>2, Zenon DEF Plain, MessageOK, Stages
<1>3. CASE m.tag = "DOWN" /\ m.pid \in 1..next_pid - 1 /\ ~Alive(m.pid)'
  BY <1>3 DEF MessageOK, Stages
<1> QED BY <1>1, <1>2, <1>3, Zenon

(* The records that stay while the monitor's table shrinks.                *)
Holds(w) == w.kind \in {"restart", "init"}

(* Every record that a smaller table, the other messages and the blocked   *)
(* handler hold is right when it was before the step.                      *)
LEMMA HoldersLess ==
    ASSUME \A h \in Holders(mailbox, timers, wait, services) : HolderOK(h),
           UNCHANGED <<options, now, restarts>>,
           services' \subseteq services,
           \A m \in In(mailbox') \cup timers' :
              m \in In(mailbox) \cup timers \/ m.tag \notin Stages,
           Holds(wait') => HolderOK(wait')
    PROVE  Recorded'
<1> SUFFICES ASSUME NEW h \in Holders(mailbox', timers', wait', services')
             PROVE  HolderOK(h)'
  BY Zenon DEF Recorded
<1>1. CASE h \in services'
  <2>1. h \in Holders(mailbox, timers, wait, services)
    BY <1>1, Zenon DEF Holders
  <2> QED BY <2>1, HolderKept, Zenon
<1>2. CASE h \in timers' \cup In(mailbox') /\ h.tag \in Stages
  <2>1. h \in Holders(mailbox, timers, wait, services)
    BY <1>2, Zenon DEF Holders
  <2> QED BY <2>1, HolderKept, Zenon
<1>3. CASE h = wait' /\ h.kind \in {"restart", "init"}
  <2>1. HolderOK(h)
    BY <1>3, Zenon DEF Holds
  <2> QED BY <2>1, HolderKept, Zenon
<1> QED BY <1>1, <1>2, <1>3, Zenon DEF Holders

(* A step in which no process starts: what it has to leave right.          *)
Same(a, b) == /\ b.pid = a.pid /\ b.service = a.service
              /\ b.index = a.index /\ b.group = a.group

(* The parts of the invariant on processes, signals and messages, in a     *)
(* step in which no process starts and no restart is counted.              *)
LEMMA QuietBase ==
    ASSUME Inv,
           UNCHANGED <<options, now, restarts, next_pid>>,
           configured' \subseteq configured, calls' \in Nat,
           \A a \in alive' : ProcessOK(a) /\ \E b \in alive : Same(a, b),
           \A a, b \in alive' : a.pid = b.pid => a = b,
           \A x \in signals' : x \in signals \/ Alive(x.pid),
           mailbox' \in Seq(In(mailbox')),
           \A m \in In(mailbox') \cup timers' :
              \/ m \in In(mailbox) \cup timers
              \/ Plain(m)
              \/ m.tag = "DOWN" /\ m.pid \in 1..next_pid - 1 /\ ~Alive(m.pid)'
    PROVE  (Histories /\ Mail /\ Living /\ Rest)'
<1>1. ASSUME NEW p, Alive(p)' PROVE Alive(p)
  <2>1. PICK a \in alive' : a.pid = p
    BY <1>1, Zenon DEF Alive
  <2>2. PICK b \in alive : Same(a, b)
    BY Zenon
  <2> QED BY <2>1, <2>2, Zenon DEF Alive, Same
<1>2. Mail'
  <2>1. \A m \in In(mailbox) \cup timers : MessageOK(m)
    BY Parts, Zenon
  <2> QED BY <1>1, <2>1, MailKept, Zenon
<1>3. \A s : Indices(s)' = Indices(s)
  BY DEF Indices
<1>4. Histories'
  <2>1. Histories
    BY Parts, Zenon
  <2>2. \A r, times : History(r, times)' <=> History(r, times)
    BY DEF History
  <2> QED BY <2>1, <2>2, <1>3, Zenon DEF Histories
<1>5. Living'
  <2>1. /\ next_pid \in 1..MaxPids + 1
        /\ \A a \in alive : ProcessOK(a)
        /\ \A x \in signals : x.pid \in 1..next_pid - 1
        /\ OneGeneration
    BY Parts, Zenon
  <2>2. \A a \in alive' : ProcessOK(a)'
    BY <1>3, Zenon DEF ProcessOK
  <2>3. \A x \in signals' : x.pid \in 1..next_pid - 1
    <3>1. \A a \in alive : a.pid \in 1..next_pid - 1
      BY <2>1, Zenon DEF ProcessOK
    <3> QED BY <2>1, <3>1, Zenon DEF Alive
  <2>4. OneGeneration'
    <3> SUFFICES ASSUME NEW a \in alive', NEW b \in alive',
                        a.service = b.service /\ a.index = b.index
                 PROVE  a.group = b.group
      BY Zenon DEF OneGeneration
    <3>1. PICK c \in alive : Same(a, c)
      BY Zenon
    <3>2. PICK d \in alive : Same(b, d)
      BY Zenon
    <3>3. c.service = d.service /\ c.index = d.index
      BY <3>1, <3>2, Zenon DEF Same
    <3>4. c.group = d.group
      BY <3>3, <2>1, Zenon DEF OneGeneration
    <3> QED BY <3>1, <3>2, <3>4, Zenon DEF Same
  <2>5. next_pid' \in 1..MaxPids + 1
    BY <2>1, Zenon
  <2>6. \A x \in signals' : x.pid \in 1..next_pid' - 1
    BY <2>3, Zenon
  <2> QED BY <2>2, <2>4, <2>5, <2>6, Zenon DEF Living
<1>6. Rest'
  <2>1. Rest
    BY Parts, Zenon
  <2> QED BY <2>1, Zenon DEF Rest
<1> QED BY <1>2, <1>4, <1>5, <1>6, Zenon

(* The parts on the blocked handler and the table, in such a step.         *)
LEMMA QuietRest ==
    ASSUME Inv,
           UNCHANGED <<options, now, restarts, next_pid>>,
           configured' \subseteq configured, calls' \in Nat,
           \A a \in alive' : ProcessOK(a) /\ \E b \in alive : Same(a, b),
           \A a, b \in alive' : a.pid = b.pid => a = b,
           \A x \in signals' : x \in signals \/ Alive(x.pid),
           mailbox' \in Seq(In(mailbox')),
           \A m \in In(mailbox') \cup timers' :
              \/ m \in In(mailbox) \cup timers
              \/ Plain(m)
              \/ m.tag = "DOWN" /\ m.pid \in 1..next_pid - 1 /\ ~Alive(m.pid)',
           services' \subseteq services,
           (NoOrphans /\ KnownAlive)'
    PROVE  (Histories /\ Mail /\ Living /\ Table /\ Rest)'
<1>1. (Histories /\ Mail /\ Living /\ Rest)'
  BY QuietBase, Zenon
<1>2. Table'
  <2>1. /\ \A e \in services :
              /\ e.id \in Services /\ e.pid \in In(e.service.pids)
              /\ e.pid \in 1..next_pid - 1
        /\ \A e, f \in services : e.pid = f.pid => e = f
    BY Parts, Zenon
  <2>2. \A e \in services' :
              /\ e.id \in Services /\ e.pid \in In(e.service.pids)
              /\ e.pid \in 1..next_pid' - 1
    BY <2>1, Zenon
  <2>3. \A e, f \in services' : e.pid = f.pid => e = f
    BY <2>1, Zenon
  <2> QED BY <2>2, <2>3, Zenon DEF Table
<1> QED BY <1>1, <1>2, Zenon

(* The whole invariant in such a step, given what the step does to the     *)
(* two properties that relate the table to the processes.                  *)
LEMMA Quiet ==
    ASSUME Inv,
           UNCHANGED <<options, now, restarts, next_pid>>,
           configured' \subseteq configured, calls' \in Nat,
           \A a \in alive' : ProcessOK(a) /\ \E b \in alive : Same(a, b),
           \A a, b \in alive' : a.pid = b.pid => a = b,
           \A x \in signals' : x \in signals \/ Alive(x.pid),
           mailbox' \in Seq(In(mailbox')), Fewer(mailbox, mailbox'),
           \A m \in In(mailbox') \cup timers' :
              \/ m \in In(mailbox) \cup timers
              \/ Plain(m)
              \/ m.tag = "DOWN" /\ m.pid \in 1..next_pid - 1 /\ ~Alive(m.pid)',
           \A m \in timers' : m \in timers \/ Plain(m),
           services' \subseteq services,
           Holds(wait') =>
              /\ Holds(wait) /\ wait'.id = wait.id
              /\ wait'.service = wait.service
              /\ \A s, i : Blocked(wait', s, i) =>
                    /\ Live(alive, s, i) \subseteq Covered(wait) =>
                          Live(alive', s, i) \subseteq Covered(wait'),
           (NoOrphans /\ KnownAlive /\ Shape(wait) /\ Ended /\ Begun)'
    PROVE  Inv'
<1>1. (Histories /\ Mail /\ Living /\ Table /\ Rest)'
  BY QuietRest, Zenon
<1>2. Recorded'
  <2>1. \A h \in Holders(mailbox, timers, wait, services) : HolderOK(h)
    BY Parts, Zenon
  <2>2. \A m \in In(mailbox') \cup timers' :
              m \in In(mailbox) \cup timers \/ m.tag \notin Stages
    <3>1. "DOWN" \notin Stages
      BY DEF Stages
    <3> QED BY <3>1, Zenon DEF Plain
  <2>3. Holds(wait') => HolderOK(wait')
    <3>1. Holds(wait) => wait \in Holders(mailbox, timers, wait, services)
      BY Zenon DEF Holds, Holders
    <3>2. Holds(wait) => HolderOK(wait)
      BY <3>1, <2>1, Zenon
    <3> QED BY <3>2, Zenon DEF HolderOK
  <2> QED BY <2>1, <2>2, <2>3, HoldersLess, Zenon
<1>3. InOneHand'
  <2>1. Hands(alive, mailbox, timers, wait, services)
    BY Parts, Zenon
  <2>2. ASSUME NEW s, NEW i, NEW p \in Live(alive', s, i)
        PROVE  p \in Live(alive, s, i)
    <3>1. PICK a \in alive' : a.pid = p /\ a.service = s /\ a.index = i
      BY <2>2, Zenon DEF Live
    <3>2. PICK b \in alive : Same(a, b)
      BY Zenon
    <3>3. b.pid = p /\ b.service = s /\ b.index = i
      BY <3>1, <3>2, Zenon DEF Same
    <3> QED BY <3>3, Zenon DEF Live
  <2>3. \A s, i : Timed(timers', s, i) \subseteq Timed(timers, s, i)
    <3>1. ASSUME NEW s, NEW i, NEW m \in Timed(timers', s, i)
          PROVE  m \in Timed(timers, s, i)
      BY Zenon DEF Timed, ToStart, Plain
    <3> QED BY <3>1, Zenon
  <2>4. \A s, i : Blocked(wait', s, i) =>
              /\ Blocked(wait, s, i)
              /\ Live(alive, s, i) \subseteq Covered(wait) =>
                    Live(alive', s, i) \subseteq Covered(wait')
    BY Zenon DEF Blocked, Holds
  <2>5. Hands(alive', mailbox', timers', wait', services')
    BY <2>1, <2>2, <2>3, <2>4, HandsLess, Zenon
  <2>6. \A s : Indices(s)' = Indices(s)
    BY DEF Indices
  <2> QED BY <2>5, <2>6, Zenon DEF InOneHand, Hands
<1> QED BY <1>1, <1>2, <1>3, Zenon DEF Inv

-----------------------------------------------------------------------------
(* The table and the processes                                             *)

(* What will end process p: its timeout, or the kill.                      *)
Killing(p) == [pid |-> p, reason |-> "killed"]
Doomed(q, ts, xs, p) ==
    TerminateEnd(p) \in ts \/ TerminateEnd(p) \in In(q) \/ Killing(p) \in xs

(* No process becomes an orphan when each one that leaves the table is     *)
(* put under a timeout or a kill, and none of those is lost.               *)
LEMMA OrphansKept ==
    ASSUME Inv, mailbox' \in Seq(In(mailbox')),
           \A a \in alive' : Alive(a.pid),
           \A a \in alive' : Known(a.pid) # {} =>
              \/ Known(a.pid)' # {}
              \/ Doomed(mailbox', timers', signals', a.pid),
           Starting \subseteq Starting',
           \A a \in alive' : Doomed(mailbox, timers, signals, a.pid) =>
                             Doomed(mailbox', timers', signals', a.pid)
    PROVE  NoOrphans'
<1>1. ASSUME NEW p
      PROVE  /\ MustEnd(p) <=> Doomed(mailbox, timers, signals, p)
             /\ MustEnd(p)' <=> Doomed(mailbox', timers', signals', p)
  <2>1. mailbox \in Seq(In(mailbox))
    BY Parts, Zenon
  <2>2. InMailbox(TerminateEnd(p)) <=> TerminateEnd(p) \in In(mailbox)
    BY <2>1, Posted, Zenon
  <2>3. InMailbox(TerminateEnd(p))' <=> TerminateEnd(p) \in In(mailbox')
    <3>1. \A m : InMailbox(m)' <=> m \in In(mailbox')
      BY PostedNext, Zenon
    <3>2. \A m : m = TerminateEnd(p) =>
             (InMailbox(m)' <=> InMailbox(TerminateEnd(p))')
      BY Zenon DEF InMailbox, TerminateEnd
    <3> QED BY <3>1, <3>2, Zenon
  <2> QED BY <2>2, <2>3, Zenon DEF MustEnd, Doomed, Killing, TerminateEnd
<1> SUFFICES ASSUME NEW a \in alive'
             PROVE  \/ Known(a.pid)' # {} \/ a.pid \in Starting'
                    \/ MustEnd(a.pid)'
  BY Zenon DEF NoOrphans
<1>2. PICK b \in alive : b.pid = a.pid
  BY Zenon DEF Alive
<1>3. Known(b.pid) # {} \/ b.pid \in Starting \/ MustEnd(b.pid)
  <2>1. NoOrphans
    BY Parts, Zenon
  <2> QED BY <2>1, Zenon DEF NoOrphans
<1>4. Known(a.pid) # {} \/ a.pid \in Starting \/ MustEnd(a.pid)
  BY <1>2, <1>3, Zenon
<1> QED BY <1>1, <1>4, Zenon

(* The table knows no forgotten process: when a process of the table ends  *)
(* its DOWN message is in the mailbox, and no such message is taken away   *)
(* while the entry stays.                                                  *)
LEMMA KnownKept ==
    ASSUME Inv, mailbox' \in Seq(In(mailbox')), services' \subseteq services,
           \A e \in services' :
              Alive(e.pid) => \/ Alive(e.pid)'
                              \/ \E m \in In(mailbox') :
                                    m.tag = "DOWN" /\ m.pid = e.pid,
           \A e \in services' : \A m \in In(mailbox) :
              m.tag = "DOWN" /\ m.pid = e.pid => m \in In(mailbox')
    PROVE  KnownAlive'
<1> SUFFICES ASSUME NEW e \in services' PROVE (Alive(e.pid) \/ DownDue(e.pid))'
  BY Zenon DEF KnownAlive
<1>1. mailbox \in Seq(In(mailbox)) /\ KnownAlive
  BY Parts, Zenon
<1>2. Alive(e.pid) \/ DownDue(e.pid)
  BY <1>1, Zenon DEF KnownAlive
<1>3. DownDue(e.pid) => \E m \in In(mailbox) : m.tag = "DOWN" /\ m.pid = e.pid
  BY <1>1, Posted, Zenon
<1>4. (\E m \in In(mailbox') : m.tag = "DOWN" /\ m.pid = e.pid)
         => DownDue(e.pid)'
  BY PostedNext, Zenon
<1> QED BY <1>2, <1>3, <1>4, Zenon

(* The monitor is not blocked.                                             *)
LEMMA Idle ==
    ASSUME wait' = NoWait
    PROVE  (Shape(wait) /\ Ended /\ Begun)' /\ ~Holds(wait')
<1>1. wait'.kind = "none"
  BY DEF NoWait
<1> QED BY <1>1 DEF Shape, Ended, Begun, Holds

(* The processes do not change.                                            *)
LEMMA Unmoved ==
    ASSUME Inv, alive' = alive
    PROVE  /\ \A a \in alive' : ProcessOK(a) /\ \E b \in alive : Same(a, b)
           /\ \A a, b \in alive' : a.pid = b.pid => a = b
           /\ \A p : Alive(p)' <=> Alive(p)
           /\ \A a \in alive' : Alive(a.pid)
<1>1. /\ \A a \in alive : ProcessOK(a)
      /\ \A a, b \in alive : a.pid = b.pid => a = b
  BY Parts, Zenon
<1>2. \A a \in alive : \E b \in alive : Same(a, b)
  BY Zenon DEF Same
<1>3. \A p : Alive(p)' <=> Alive(p)
  BY Zenon DEF Alive
<1>4. \A a \in alive : Alive(a.pid)
  BY Zenon DEF Alive
<1> QED BY <1>1, <1>2, <1>3, <1>4, Zenon

(* The handler of a message takes it.                                      *)
LEMMA HeadTaken ==
    ASSUME Inv, NEW tag, Handling(tag), NEW q, q = Tail(mailbox)
    PROVE  /\ wait = NoWait /\ mailbox # <<>>
           /\ q \in Seq(In(q)) /\ In(q) \subseteq In(mailbox)
           /\ Head(mailbox) \in In(mailbox) /\ Head(mailbox).tag = tag
           /\ MessageOK(Head(mailbox))
           /\ \A m \in In(mailbox) : m = Head(mailbox) \/ m \in In(q)
           /\ Fewer(mailbox, q)
<1>1. /\ mailbox \in Seq(In(mailbox))
      /\ \A m \in In(mailbox) \cup timers : MessageOK(m)
  BY Parts, Zenon
<1>2. wait = NoWait /\ mailbox # <<>> /\ Head(mailbox).tag = tag
  BY Zenon DEF Handling
<1>3. /\ Tail(mailbox) \in Seq(In(Tail(mailbox)))
      /\ In(Tail(mailbox)) \subseteq In(mailbox)
      /\ Head(mailbox) \in In(mailbox)
      /\ \A m \in In(mailbox) : m = Head(mailbox) \/ m \in In(Tail(mailbox))
      /\ Fewer(mailbox, Tail(mailbox))
  BY <1>1, <1>2, Taken, Zenon
<1> QED BY <1>1, <1>2, <1>3, Zenon

-----------------------------------------------------------------------------
(* The steps in which nothing starts                                       *)

(* A handler that leaves the table as it is.                               *)
LEMMA HandledQuietly ==
    ASSUME Inv, NEW tag, Handling(tag), Done,
           UNCHANGED <<alive, next_pid, services, wait, options, configured,
                       now, restarts, calls>>,
           signals \subseteq signals',
           \A x \in signals' : x \in signals \/ Alive(x.pid),
           timers \subseteq timers',
           \A m \in timers' : m \in timers \/ m.tag = "terminate_end",
           tag = "DOWN" => Known(Head(mailbox).pid) = {},
           tag = "terminate_end" => Kill(Head(mailbox).pid) \subseteq signals'
    PROVE  Inv'
<1> DEFINE hd == Head(mailbox)
<1>1. /\ wait = NoWait /\ mailbox # <<>>
      /\ mailbox' \in Seq(In(mailbox')) /\ In(mailbox') \subseteq In(mailbox)
      /\ hd \in In(mailbox) /\ hd.tag = tag
      /\ \A m \in In(mailbox) : m = hd \/ m \in In(mailbox')
      /\ Fewer(mailbox, mailbox')
  BY HeadTaken, Zenon DEF Done
<1>2. /\ \A a \in alive' : ProcessOK(a) /\ \E b \in alive : Same(a, b)
      /\ \A a, b \in alive' : a.pid = b.pid => a = b
      /\ \A p : Alive(p)' <=> Alive(p)
      /\ \A a \in alive' : Alive(a.pid)
  BY Unmoved, Zenon
<1>3. /\ wait' = NoWait
      /\ (Shape(wait) /\ Ended /\ Begun)' /\ ~Holds(wait')
  BY <1>1, Idle, Zenon
<1>4. \A p : Known(p)' = Known(p)
  BY Zenon DEF Known
<1>5. Starting' = Starting
  BY Zenon DEF Starting
<1>6. NoOrphans'
  <2>1. ASSUME NEW a \in alive', Doomed(mailbox, timers, signals, a.pid)
        PROVE  Doomed(mailbox', timers', signals', a.pid)
    <3>1. CASE TerminateEnd(a.pid) \in In(mailbox)
               /\ TerminateEnd(a.pid) \notin In(mailbox')
      <4>1. hd = TerminateEnd(a.pid)
        BY <3>1, <1>1, Zenon
      <4>2. hd.pid = a.pid /\ tag = "terminate_end"
        <5>1. /\ TerminateEnd(a.pid).pid = a.pid
              /\ TerminateEnd(a.pid).tag = "terminate_end"
          BY DEF TerminateEnd
        <5> QED BY <5>1, <4>1, <1>1, Zenon
      <4>3. Killing(a.pid) \in Kill(a.pid)
        BY <1>2, Zenon DEF Kill, Killing
      <4>4. Killing(a.pid) \in signals'
        BY <4>2, <4>3, Zenon
      <4> QED BY <4>4, Zenon DEF Doomed
    <3> QED BY <2>1, <3>1, Zenon DEF Doomed
  <2>2. \A a \in alive' : Known(a.pid) # {} => Known(a.pid)' # {}
    BY <1>4, Zenon
  <2> QED BY <1>1, <1>2, <1>5, <2>1, <2>2, OrphansKept, Zenon
<1>7. KnownAlive'
  <2>1. ASSUME NEW e \in services', NEW m \in In(mailbox),
               m.tag = "DOWN" /\ m.pid = e.pid
        PROVE  m \in In(mailbox')
    <3>1. CASE m = hd
      <4>1. Known(e.pid) = {}
        BY <2>1, <3>1, <1>1, Zenon
      <4>2. e \in Known(e.pid)
        BY Zenon DEF Known
      <4> QED BY <4>1, <4>2, Zenon
    <3> QED BY <3>1, <1>1, Zenon
  <2>2. \A e \in services' : Alive(e.pid) => Alive(e.pid)'
    BY <1>2, Zenon
  <2>3. services' \subseteq services
    BY Zenon
  <2> QED BY <1>1, <2>1, <2>2, <2>3, KnownKept, Zenon
<1>8. \A m \in timers' : m \in timers \/ Plain(m)
  BY DEF Plain, Stages
<1>9. \A m \in In(mailbox') \cup timers' :
              \/ m \in In(mailbox) \cup timers
              \/ Plain(m)
              \/ m.tag = "DOWN" /\ m.pid \in 1..next_pid - 1 /\ ~Alive(m.pid)'
  BY <1>1, <1>8, Zenon
<1>10. configured' \subseteq configured /\ calls' \in Nat
       /\ services' \subseteq services
  <2>1. calls \in Nat
    BY Parts, Zenon DEF Rest
  <2> QED BY <2>1, Zenon
<1>11. UNCHANGED <<options, now, restarts, next_pid>>
  BY Zenon
<1> QED BY <1>1, <1>2, <1>3, <1>6, <1>7, <1>8, <1>9, <1>10, <1>11,
           Quiet, Zenon

(* The messages that change no record: restart, the marks that a process   *)
(* begins or ends its start and its end, and the DOWN of a process that    *)
(* the table does not know.                                                *)
LEMMA HandledOthers ==
    ASSUME Inv,
           HandleRestart \/ HandleTerminateBegin \/ HandleTerminateEnd
           \/ HandleInitEnd \/ HandleDownUnknown
    PROVE  Inv'
<1>1. ASSUME HandleRestart PROVE Inv'
  <2>1. Handling("restart") /\ Done
        /\ UNCHANGED <<alive, next_pid, services, timers, wait, options,
                       configured, now, restarts, calls>>
    BY <1>1, Zenon DEF HandleRestart
  <2> DEFINE S == {x \in Entries(Head(mailbox).id) : Alive(x.pid)}
  <2>2. signals' = signals \cup {[pid |-> e.pid, reason |-> "restart"] :
                                    e \in S}
    BY <1>1, Zenon DEF HandleRestart
  <2>3. \A x \in signals' : x \in signals \/ Alive(x.pid)
    <3>1. ASSUME NEW x \in signals', x \notin signals PROVE Alive(x.pid)
      <4>1. PICK e \in S : x = [pid |-> e.pid, reason |-> "restart"]
        BY <3>1, <2>2, Zenon
      <4>2. x.pid = e.pid
        BY <4>1
      <4> QED BY <4>2, Zenon
    <3> QED BY <3>1, Zenon
  <2>4. signals \subseteq signals'
    BY <2>2, Zenon
  <2> HIDE DEF S
  <2> QED BY <2>1, <2>3, <2>4, HandledQuietly
<1>2. ASSUME HandleTerminateBegin PROVE Inv'
  <2> DEFINE ps == {e.pid : e \in Known(Head(mailbox).pid)}
  <2>1. Handling("terminate_begin") /\ Done
        /\ UNCHANGED <<alive, next_pid, services, wait, options,
                       configured, now, restarts, calls>>
    BY <1>2, Zenon DEF HandleTerminateBegin
  <2>2. \/ Enforce(ps) /\ UNCHANGED signals
        \/ /\ signals' = signals \cup UNION {Kill(p) : p \in ps}
           /\ UNCHANGED timers
    BY <1>2, Zenon DEF HandleTerminateBegin
  <2> HIDE DEF ps
  <2>3. CASE Enforce(ps) /\ UNCHANGED signals
    <3>1. timers' = timers \cup {TerminateEnd(p) : p \in ps}
      BY <2>3, Zenon DEF Enforce
    <3>2. \A m \in timers' : m \in timers \/ m.tag = "terminate_end"
      BY <3>1 DEF TerminateEnd
    <3> QED BY <2>1, <2>3, <3>1, <3>2, HandledQuietly
  <2>4. CASE /\ signals' = signals \cup UNION {Kill(p) : p \in ps}
             /\ UNCHANGED timers
    <3>1. \A x \in signals' : x \in signals \/ Alive(x.pid)
      <4>1. ASSUME NEW x \in signals', x \notin signals PROVE Alive(x.pid)
        <5>1. PICK p \in ps : x \in Kill(p)
          BY <4>1, <2>4, Zenon
        <5>2. Alive(p) /\ x = [pid |-> p, reason |-> "killed"]
          BY <5>1, Zenon DEF Kill
        <5>3. x.pid = p
          BY <5>2
        <5> QED BY <5>2, <5>3, Zenon
      <4> QED BY <4>1, Zenon
    <3> QED BY <2>1, <2>4, <3>1, HandledQuietly
  <2> QED BY <2>2, <2>3, <2>4, Zenon
<1>3. ASSUME HandleTerminateEnd PROVE Inv'
  <2> DEFINE p == Head(mailbox).pid
  <2>1. Handling("terminate_end") /\ Done
        /\ UNCHANGED <<alive, next_pid, services, timers, wait, options,
                       configured, now, restarts, calls>>
        /\ signals' = signals \cup Kill(p)
    BY <1>3, Zenon DEF HandleTerminateEnd
  <2>2. \A x \in signals' : x \in signals \/ Alive(x.pid)
    <3>1. ASSUME NEW x \in Kill(p) PROVE Alive(x.pid)
      <4>1. Alive(p) /\ x = [pid |-> p, reason |-> "killed"]
        BY <3>1, Zenon DEF Kill
      <4>2. x.pid = p
        BY <4>1
      <4> QED BY <4>1, <4>2, Zenon
    <3> QED BY <3>1, <2>1, Zenon
  <2> QED BY <2>1, <2>2, HandledQuietly
<1>4. ASSUME HandleInitEnd PROVE Inv'
  <2>1. Handling("init_end") /\ Done
        /\ UNCHANGED <<alive, signals, next_pid, services, timers, wait,
                       options, configured, now, restarts, calls>>
    BY <1>4, Zenon DEF HandleInitEnd, proc_vars
  <2> QED BY <2>1, HandledQuietly
<1>5. ASSUME HandleDownUnknown PROVE Inv'
  <2>1. Handling("DOWN") /\ Done /\ Known(Head(mailbox).pid) = {}
        /\ UNCHANGED <<alive, signals, next_pid, services, timers, wait,
                       options, configured, now, restarts, calls>>
    BY <1>5, Zenon DEF HandleDownUnknown, proc_vars
  <2> QED BY <2>1, HandledQuietly
<1> QED BY <1>1, <1>2, <1>3, <1>4, <1>5, Zenon

(* A process, or a caller of the service API, sends a message; the process *)
(* may end with it.                                                        *)
LEMMA Grown ==
    ASSUME Inv, NEW x, mailbox' = Append(mailbox, x),
           UNCHANGED <<next_pid, services, timers, wait, options, configured,
                       now, restarts>>,
           calls' \in Nat,
           \A a \in alive' : ProcessOK(a) /\ \E b \in alive : Same(a, b),
           \A a, b \in alive' : a.pid = b.pid => a = b,
           \A p : Alive(p) => Alive(p)' \/ (x.tag = "DOWN" /\ x.pid = p),
           signals' \subseteq signals,
           \A a \in alive' : Killing(a.pid) \in signals =>
                             Killing(a.pid) \in signals',
           \/ Plain(x)
           \/ x.tag = "DOWN" /\ x.pid \in 1..next_pid - 1 /\ ~Alive(x.pid)'
    PROVE  Inv'
<1>1. mailbox \in Seq(In(mailbox))
  BY Parts, Zenon
<1>2. /\ mailbox' \in Seq(In(mailbox'))
      /\ In(mailbox') = In(mailbox) \cup {x}
      /\ \A s, i : ~ToStart(x, s, i) =>
            Mailed(mailbox', s, i) = Mailed(mailbox, s, i)
  <2> DEFINE q == Append(mailbox, x)
  <2>1. /\ q \in Seq(In(q)) /\ In(q) = In(mailbox) \cup {x}
        /\ \A s, i : ~ToStart(x, s, i) =>
              Mailed(q, s, i) = Mailed(mailbox, s, i)
    BY <1>1, Sent
  <2> HIDE DEF q
  <2>2. mailbox' = q
    BY Zenon DEF q
  <2> QED BY <2>1, <2>2, Zenon
<1>3. \A s, i : ~ToStart(x, s, i)
  <2>1. x.tag # "monitor" /\ x.tag \notin Stages
    BY DEF Plain, Stages
  <2> QED BY <2>1, Zenon DEF ToStart
<1>4. Fewer(mailbox, mailbox')
  BY <1>2, <1>3, Zenon DEF Fewer
<1>5. \A a \in alive' : Alive(a.pid)
  <2>1. ASSUME NEW a \in alive' PROVE Alive(a.pid)
    <3>1. PICK b \in alive : Same(a, b)
      BY Zenon
    <3> QED BY <3>1, Zenon DEF Alive, Same
  <2> QED BY <2>1, Zenon
<1>6. Starting' = Starting /\ \A p : Known(p)' = Known(p)
  BY Zenon DEF Starting, Known
<1>7. ASSUME NEW p, Alive(p) \/ DownDue(p) PROVE Alive(p)' \/ DownDue(p)'
  <2>1. DownDue(p) => \E m \in In(mailbox) : m.tag = "DOWN" /\ m.pid = p
    BY <1>1, Posted, Zenon
  <2>2. (\E m \in In(mailbox') : m.tag = "DOWN" /\ m.pid = p) => DownDue(p)'
    BY <1>2, PostedNext, Zenon
  <2>3. x \in In(mailbox') /\ In(mailbox) \subseteq In(mailbox')
    BY <1>2, Zenon
  <2> QED BY <1>7, <2>1, <2>2, <2>3, Zenon
<1>8. NoOrphans'
  <2>1. \A a \in alive' : Doomed(mailbox, timers, signals, a.pid) =>
                          Doomed(mailbox', timers', signals', a.pid)
    BY <1>2, Zenon DEF Doomed
  <2>2. \A a \in alive' : Known(a.pid) # {} => Known(a.pid)' # {}
    BY <1>6, Zenon
  <2> QED BY <1>2, <1>5, <1>6, <2>1, <2>2, OrphansKept, Zenon
<1>9. KnownAlive'
  <2>1. KnownAlive
    BY Parts, Zenon
  <2> QED BY <2>1, <1>7, Zenon DEF KnownAlive
<1>10. (Shape(wait) /\ Ended /\ Begun)'
  <2>1. Shape(wait) /\ Ended /\ Begun
    BY Parts, Zenon
  <2>2. Shape(wait)'
    BY <2>1, Zenon DEF Shape
  <2>3. Ended'
    BY <2>1, <1>6, Zenon DEF Ended
  <2>4. Begun'
    BY <2>1, <1>6, <1>7, Zenon DEF Begun
  <2> QED BY <2>2, <2>3, <2>4, Zenon
<1>11. \A m \in timers' : m \in timers \/ Plain(m)
  BY Zenon
<1>12. \A m \in In(mailbox') \cup timers' :
              \/ m \in In(mailbox) \cup timers
              \/ Plain(m)
              \/ m.tag = "DOWN" /\ m.pid \in 1..next_pid - 1 /\ ~Alive(m.pid)'
  BY <1>2, Zenon
<1>13. Holds(wait') =>
              /\ Holds(wait) /\ wait'.id = wait.id
              /\ wait'.service = wait.service
              /\ \A s, i : Blocked(wait', s, i) =>
                    /\ Live(alive, s, i) \subseteq Covered(wait) =>
                          Live(alive', s, i) \subseteq Covered(wait')
  <2>1. ASSUME NEW s, NEW i, NEW p \in Live(alive', s, i)
        PROVE  p \in Live(alive, s, i)
    <3>1. PICK a \in alive' : a.pid = p /\ a.service = s /\ a.index = i
      BY <2>1, Zenon DEF Live
    <3>2. PICK b \in alive : Same(a, b)
      BY Zenon
    <3>3. b.pid = p /\ b.service = s /\ b.index = i
      BY <3>1, <3>2, Zenon DEF Same
    <3> QED BY <3>3, Zenon DEF Live
  <2>2. wait' = wait
    BY Zenon
  <2> QED BY <2>1, <2>2, Zenon
<1>14. configured' \subseteq configured /\ services' \subseteq services
       /\ \A y \in signals' : y \in signals \/ Alive(y.pid)
  BY Zenon
<1>15. UNCHANGED <<options, now, restarts, next_pid>>
  BY Zenon
<1> QED BY <1>2, <1>4, <1>8, <1>9, <1>10, <1>11, <1>12, <1>13, <1>14, <1>15,
           Quiet, Zenon

(* A process goes on: it is initialized, or it begins to end.              *)
LEMMA Moved ==
    ASSUME Inv, NEW a \in alive, NEW b, ProcessOK(b), Same(b, a),
           alive' = (alive \ {a}) \cup {b}
    PROVE  /\ \A c \in alive' : ProcessOK(c) /\ \E d \in alive : Same(c, d)
           /\ \A c, d \in alive' : c.pid = d.pid => c = d
           /\ \A p : Alive(p) => Alive(p)'
<1>1. /\ \A c \in alive : ProcessOK(c)
      /\ \A c, d \in alive : c.pid = d.pid => c = d
  BY Parts, Zenon
<1>2. \A c \in alive : Same(c, c)
  BY Zenon DEF Same
<1>3. \A c \in alive' : ProcessOK(c) /\ \E d \in alive : Same(c, d)
  BY <1>1, <1>2, Zenon
<1>4. b.pid = a.pid
  BY Zenon DEF Same
<1>5. \A c, d \in alive' : c.pid = d.pid => c = d
  BY <1>1, <1>4, Zenon
<1>6. ASSUME NEW p, Alive(p) PROVE Alive(p)'
  <2>1. PICK c \in alive : c.pid = p
    BY <1>6, Zenon DEF Alive
  <2>2. CASE c = a
    <3>1. b \in alive' /\ b.pid = p
      BY <2>1, <2>2, <1>4, Zenon
    <3> QED BY <3>1, Zenon DEF Alive
  <2>3. CASE c # a
    <3>1. c \in alive'
      BY <2>3, Zenon
    <3> QED BY <3>1, <2>1, Zenon DEF Alive
  <2> QED BY <2>2, <2>3, Zenon
<1> QED BY <1>3, <1>5, <1>6, Zenon

(* A process has called its cloudi_service_init.                           *)
LEMMA StepInitialized ==
    ASSUME Inv, NEW a \in alive, Initialized(a)
    PROVE  Inv'
<1> DEFINE b == [a EXCEPT !.state = "up"]
           x == [tag |-> "init_end", pid |-> a.pid]
<1>1. /\ alive' = (alive \ {a}) \cup {b} /\ mailbox' = Append(mailbox, x)
      /\ UNCHANGED <<signals, next_pid, services, timers, wait, options,
                     configured, now, restarts, calls>>
  BY Zenon DEF Initialized
<1>2. ProcessOK(a)
  BY Parts, Zenon
<1>3. b = [pid |-> a.pid, service |-> a.service, index |-> a.index,
           state |-> "up", reason |-> a.reason, group |-> a.group]
  BY <1>2 DEF ProcessOK
<1>4. ProcessOK(b) /\ Same(b, a)
  BY <1>2, <1>3 DEF ProcessOK, Same
<1>5. Plain(x)
  BY DEF Plain, Stages
<1>6. calls' \in Nat
  BY <1>1, Parts, Zenon DEF Rest
<1> HIDE DEF b, x
<1>7. /\ \A c \in alive' : ProcessOK(c) /\ \E d \in alive : Same(c, d)
      /\ \A c, d \in alive' : c.pid = d.pid => c = d
      /\ \A p : Alive(p) => Alive(p)'
  BY <1>1, <1>4, Moved, Zenon
<1>8. signals' = signals /\ mailbox' = Append(mailbox, x)
      /\ UNCHANGED <<next_pid, services, timers, wait, options, configured,
                     now, restarts>>
  BY <1>1, Zenon
<1> QED BY <1>5, <1>6, <1>7, <1>8, Grown, Zenon

(* A process begins to end.                                                *)
LEMMA StepTerminateBegins ==
    ASSUME Inv, NEW a \in alive, NEW reason, TerminateBegins(a, reason)
    PROVE  Inv'
<1> DEFINE b == [a EXCEPT !.state = "ending", !.reason = reason]
           x == [tag |-> "terminate_begin", pid |-> a.pid]
<1>1. /\ alive' = (alive \ {a}) \cup {b} /\ mailbox' = Append(mailbox, x)
      /\ UNCHANGED <<signals, next_pid, services, timers, wait, options,
                     configured, now, restarts, calls>>
  BY Zenon DEF TerminateBegins
<1>2. ProcessOK(a)
  BY Parts, Zenon
<1>3. b = [pid |-> a.pid, service |-> a.service, index |-> a.index,
           state |-> "ending", reason |-> reason, group |-> a.group]
  <2>1. PICK p, s, i, t, r, g :
           a = [pid |-> p, service |-> s, index |-> i, state |-> t,
                reason |-> r, group |-> g]
    BY <1>2, Zenon DEF ProcessOK
  <2>2. b = [[pid |-> p, service |-> s, index |-> i, state |-> t,
              reason |-> r, group |-> g] EXCEPT !.state = "ending",
                                                !.reason = reason]
    BY <2>1, Zenon
  <2>3. a.pid = p /\ a.service = s /\ a.index = i /\ a.group = g
    BY <2>1
  <2> HIDE DEF b
  <2>4. b = [pid |-> p, service |-> s, index |-> i, state |-> "ending",
             reason |-> reason, group |-> g]
    BY <2>2
  <2> QED BY <2>3, <2>4
<1>4. ProcessOK(b) /\ Same(b, a)
  BY <1>2, <1>3 DEF ProcessOK, Same
<1>5. Plain(x)
  BY DEF Plain, Stages
<1>6. calls' \in Nat
  BY <1>1, Parts, Zenon DEF Rest
<1> HIDE DEF b, x
<1>7. /\ \A c \in alive' : ProcessOK(c) /\ \E d \in alive : Same(c, d)
      /\ \A c, d \in alive' : c.pid = d.pid => c = d
      /\ \A p : Alive(p) => Alive(p)'
  BY <1>1, <1>4, Moved, Zenon
<1>8. signals' = signals /\ mailbox' = Append(mailbox, x)
      /\ UNCHANGED <<next_pid, services, timers, wait, options, configured,
                     now, restarts>>
  BY <1>1, Zenon
<1> QED BY <1>5, <1>6, <1>7, <1>8, Grown, Zenon

(* A process ends, and the monitor is sent its DOWN message.               *)
LEMMA StepDies ==
    ASSUME Inv, NEW a \in alive, NEW reason, Dies(a, reason)
    PROVE  Inv'
<1> DEFINE x == Down(a.pid, reason)
<1>1. /\ alive' = alive \ {a} /\ mailbox' = Append(mailbox, x)
      /\ signals' = {y \in signals : y.pid # a.pid}
      /\ UNCHANGED <<next_pid, services, timers, wait, options,
                     configured, now, restarts, calls>>
  BY Zenon DEF Dies
<1>2. /\ \A c \in alive : ProcessOK(c)
      /\ \A c, d \in alive : c.pid = d.pid => c = d
  BY Parts, Zenon
<1>3. x.tag = "DOWN" /\ x.pid = a.pid
  BY DEF Down
<1> HIDE DEF x
<1>4. \A c \in alive : Same(c, c)
  BY Zenon DEF Same
<1>5. /\ \A c \in alive' : ProcessOK(c) /\ \E d \in alive : Same(c, d)
      /\ \A c, d \in alive' : c.pid = d.pid => c = d
  BY <1>1, <1>2, <1>4, Zenon
<1>6. a.pid \in 1..next_pid - 1 /\ ~Alive(a.pid)'
  <2>1. a.pid \in 1..next_pid - 1
    BY <1>2, Zenon DEF ProcessOK
  <2>2. ~Alive(a.pid)'
    BY <1>1, <1>2, Zenon DEF Alive
  <2> QED BY <2>1, <2>2, Zenon
<1>7. \A p : Alive(p) => Alive(p)' \/ (x.tag = "DOWN" /\ x.pid = p)
  <2>1. ASSUME NEW p, Alive(p), p # a.pid PROVE Alive(p)'
    <3>1. PICK c \in alive : c.pid = p
      BY <2>1, Zenon DEF Alive
    <3>2. c \in alive'
      BY <3>1, <2>1, <1>1, Zenon
    <3> QED BY <3>1, <3>2, Zenon DEF Alive
  <2> QED BY <2>1, <1>3, Zenon
<1>8. \A c \in alive' : Killing(c.pid) \in signals =>
                        Killing(c.pid) \in signals'
  <2>1. ASSUME NEW c \in alive', Killing(c.pid) \in signals
        PROVE  Killing(c.pid) \in signals'
    <3>1. Killing(c.pid).pid = c.pid
      BY DEF Killing
    <3>2. c.pid # a.pid
      BY <1>1, <1>2, Zenon
    <3> QED BY <2>1, <3>1, <3>2, <1>1, Zenon
  <2> QED BY <2>1, Zenon
<1>9. x.tag = "DOWN" /\ x.pid \in 1..next_pid - 1 /\ ~Alive(x.pid)'
  BY <1>3, <1>6
<1>10. calls' \in Nat /\ signals' \subseteq signals
  BY <1>1, Parts, Zenon DEF Rest
<1> QED BY <1>1, <1>5, <1>7, <1>8, <1>9, <1>10, Grown

(* What the processes do by themselves keeps the invariant.                *)
LEMMA StepProcess ==
    ASSUME Inv, NEW a \in alive,
           \/ Initialized(a) \/ Fails(a) \/ Signalled(a)
           \/ Killed(a) \/ TerminateEnds(a)
    PROVE  Inv'
<1>1. \/ Initialized(a)
      \/ \E reason : TerminateBegins(a, reason)
      \/ \E reason : Dies(a, reason)
  BY Zenon DEF Fails, Signalled, Killed, TerminateEnds
<1> QED BY <1>1, StepInitialized, StepTerminateBegins, StepDies, Zenon

(* A call of the service API, restart or shutdown, waits in the mailbox.   *)
LEMMA StepCall ==
    ASSUME Inv, NEW s \in Services, NEW tag \in {"shutdown", "restart"},
           Call(tag, s)
    PROVE  Inv'
<1> DEFINE x == [tag |-> tag, id |-> s]
<1>1. /\ mailbox' = Append(mailbox, x) /\ calls' = calls + 1
      /\ UNCHANGED <<alive, signals, next_pid, services, timers, wait,
                     options, configured, now, restarts>>
  BY Zenon DEF Call, proc_vars
<1>2. Plain(x)
  BY DEF Plain, Stages
<1>3. calls' \in Nat
  <2>1. calls \in Nat
    BY Parts, Zenon DEF Rest
  <2> QED BY <2>1, <1>1
<1> HIDE DEF x
<1>4. /\ \A c \in alive' : ProcessOK(c) /\ \E d \in alive : Same(c, d)
      /\ \A c, d \in alive' : c.pid = d.pid => c = d
      /\ \A p : Alive(p) => Alive(p)'
  BY <1>1, Unmoved, Zenon
<1>5. signals' = signals /\ mailbox' = Append(mailbox, x)
      /\ UNCHANGED <<next_pid, services, timers, wait, options, configured,
                     now, restarts>>
  BY <1>1, Zenon
<1> QED BY <1>2, <1>3, <1>4, <1>5, Grown, Zenon

(* A timer that fires moves its message into the mailbox.                  *)
LEMMA StepTimerFires ==
    ASSUME Inv, NEW x \in timers, TimerFires(x)
    PROVE  Inv'
<1>1. /\ timers' = timers \ {x} /\ mailbox' = Append(mailbox, x)
      /\ UNCHANGED <<alive, signals, next_pid, services, wait, options,
                     configured, now, restarts, calls>>
  BY Zenon DEF TimerFires, proc_vars
<1>2. mailbox \in Seq(In(mailbox))
      /\ Hands(alive, mailbox, timers, wait, services)
  BY Parts, Zenon
<1>3. /\ mailbox' \in Seq(In(mailbox'))
      /\ In(mailbox') = In(mailbox) \cup {x}
      /\ \A s, i : ~ToStart(x, s, i) =>
            Mailed(mailbox', s, i) = Mailed(mailbox, s, i)
      /\ \A s, i : Mailed(mailbox, s, i) = {} => Single(Mailed(mailbox', s, i))
  <2> DEFINE q == Append(mailbox, x)
  <2>1. /\ q \in Seq(In(q)) /\ In(q) = In(mailbox) \cup {x}
        /\ \A s, i : ~ToStart(x, s, i) =>
              Mailed(q, s, i) = Mailed(mailbox, s, i)
        /\ \A s, i : Mailed(mailbox, s, i) = {} => Single(Mailed(q, s, i))
    BY <1>2, Sent
  <2> HIDE DEF q
  <2>2. mailbox' = q
    BY <1>1, Zenon DEF q
  <2> QED BY <2>1, <2>2, Zenon
<1>4. Hands(alive, mailbox', timers', wait, services)
  <2> SUFFICES ASSUME NEW s \in Services, NEW i \in Indices(s)
               PROVE  Fits(Live(alive, s, i), Mailed(mailbox', s, i),
                           Timed(timers', s, i), Blocked(wait, s, i),
                           Covered(wait), Listed(services, s, i))
    BY Zenon DEF Hands
  <2>1. Fits(Live(alive, s, i), Mailed(mailbox, s, i), Timed(timers, s, i),
             Blocked(wait, s, i), Covered(wait), Listed(services, s, i))
    BY <1>2, Zenon DEF Hands
  <2>2. Timed(timers', s, i) = Timed(timers, s, i) \ {x}
    BY <1>1, Zenon DEF Timed
  <2>3. CASE ToStart(x, s, i)
    <3>1. x \in Timed(timers, s, i)
      BY <2>3, Zenon DEF Timed
    <3>2. /\ Mailed(mailbox, s, i) = {} /\ Timed(timers, s, i) = {x}
          /\ ~Blocked(wait, s, i)
          /\ Listed(services, s, i) = {} /\ Live(alive, s, i) = {}
      BY <2>1, <3>1, Zenon DEF Fits, Single
    <3>3. Single(Mailed(mailbox', s, i)) /\ Timed(timers', s, i) = {}
      BY <3>2, <2>2, <1>3, Zenon
    <3> QED BY <3>2, <3>3, Zenon DEF Fits, Single
  <2>4. CASE ~ToStart(x, s, i)
    <3>1. Mailed(mailbox', s, i) = Mailed(mailbox, s, i)
      BY <2>4, <1>3, Zenon
    <3>2. Timed(timers', s, i) \subseteq Timed(timers, s, i)
      BY <2>2, Zenon
    <3>3. Fits(Live(alive, s, i), Mailed(mailbox, s, i), Timed(timers', s, i),
               Blocked(wait, s, i), Covered(wait), Listed(services, s, i))
      BY <2>1, <3>2, Zenon DEF Fits, Single
    <3> QED BY <3>1, <3>3, Zenon
  <2> QED BY <2>3, <2>4, Zenon
<1>5. InOneHand'
  <2>1. \A s : Indices(s)' = Indices(s)
    BY <1>1 DEF Indices
  <2> QED BY <1>1, <1>4, <2>1, Zenon DEF InOneHand, Hands
<1>6. \A m \in In(mailbox') \cup timers' : m \in In(mailbox) \cup timers
  BY <1>1, <1>3, Zenon
<1>7. Recorded'
  <2>1. \A h \in Holders(mailbox, timers, wait, services) : HolderOK(h)
    BY Parts, Zenon
  <2>2. Holds(wait') => HolderOK(wait')
    <3>1. Holds(wait) => wait \in Holders(mailbox, timers, wait, services)
      BY Zenon DEF Holds, Holders
    <3> QED BY <3>1, <2>1, <1>1, Zenon
  <2>3. UNCHANGED <<options, now, restarts>> /\ services' \subseteq services
    BY <1>1, Zenon
  <2> QED BY <2>1, <2>2, <2>3, <1>6, HoldersLess, Zenon
<1>8. /\ \A a \in alive' : ProcessOK(a) /\ \E b \in alive : Same(a, b)
      /\ \A a, b \in alive' : a.pid = b.pid => a = b
      /\ \A p : Alive(p)' <=> Alive(p)
      /\ \A a \in alive' : Alive(a.pid)
  BY <1>1, Unmoved, Zenon
<1>9. Starting' = Starting /\ \A p : Known(p)' = Known(p)
  BY <1>1, Zenon DEF Starting, Known
<1>10. NoOrphans'
  <2>1. \A a \in alive' : Doomed(mailbox, timers, signals, a.pid) =>
                          Doomed(mailbox', timers', signals', a.pid)
    BY <1>1, <1>3, Zenon DEF Doomed
  <2>2. \A a \in alive' : Known(a.pid) # {} => Known(a.pid)' # {}
    BY <1>9, Zenon
  <2> QED BY <1>3, <1>8, <1>9, <2>1, <2>2, OrphansKept, Zenon
<1>11. \A p : DownDue(p) => DownDue(p)'
  <2>1. ASSUME NEW p, DownDue(p) PROVE DownDue(p)'
    <3>1. \E m \in In(mailbox) : m.tag = "DOWN" /\ m.pid = p
      BY <2>1, <1>2, Posted, Zenon
    <3>2. \E m \in In(mailbox') : m.tag = "DOWN" /\ m.pid = p
      BY <3>1, <1>3, Zenon
    <3> QED BY <3>2, <1>3, PostedNext, Zenon
  <2> QED BY <2>1, Zenon
<1>12. KnownAlive'
  <2>1. KnownAlive
    BY Parts, Zenon
  <2> QED BY <2>1, <1>1, <1>8, <1>11, Zenon DEF KnownAlive
<1>13. (Shape(wait) /\ Ended /\ Begun)'
  <2>1. Shape(wait) /\ Ended /\ Begun
    BY Parts, Zenon
  <2>2. Shape(wait)'
    BY <2>1, <1>1, Zenon DEF Shape
  <2>3. Ended'
    BY <2>1, <1>1, <1>9, Zenon DEF Ended
  <2>4. Begun'
    BY <2>1, <1>1, <1>8, <1>9, <1>11, Zenon DEF Begun
  <2> QED BY <2>2, <2>3, <2>4, Zenon
<1>14. (Histories /\ Mail /\ Living /\ Table /\ Rest)'
  <2>1. configured' \subseteq configured /\ services' \subseteq services
         /\ (\A y \in signals' : y \in signals \/ Alive(y.pid))
         /\ UNCHANGED <<options, now, restarts, next_pid>>
    BY <1>1, Zenon
  <2>2. calls' \in Nat
    BY <1>1, Parts, Zenon DEF Rest
  <2> QED BY <2>1, <2>2, <1>3, <1>6, <1>8, <1>10, <1>12, QuietRest, Zenon
<1> QED BY <1>5, <1>7, <1>13, <1>14, Zenon DEF Inv

(* Time passes: restarts stop to count.                                    *)
LEMMA StepTick ==
    ASSUME Inv, Tick
    PROVE  Inv'
<1>1. /\ now' = now + 1
      /\ UNCHANGED <<alive, signals, next_pid, services, mailbox, timers,
                     wait, options, configured, restarts, calls>>
  BY Zenon DEF Tick, proc_vars
<1>2. now \in 0..MaxTime /\ now' \in 0..MaxTime
  <2>1. Rest /\ MaxTime \in Nat
    BY Parts, MonitorAssumption, Zenon
  <2>2. PICK s \in Services : now < options[s].max_time
    BY Zenon DEF Tick
  <2>3. options[s].max_time \in 0..MaxTime
    <3>1. options[s] \in Options
      BY <2>1, MonitorAssumption, Zenon DEF Rest
    <3> QED BY <3>1 DEF Options
  <2> QED BY <2>1, <2>2, <2>3, <1>1 DEF Rest
<1>3. \A s : Indices(s)' = Indices(s)
  BY <1>1 DEF Indices
<1>4. Histories /\ Histories'
  <2>1. Histories
    BY Parts, Zenon
  <2>2. ASSUME NEW r, NEW times, History(r, times)
        PROVE  History(r, times)'
    <3>1. times \in Seq(0..now)
      BY <2>2, Zenon DEF History
    <3>2. times \in Seq(0..now')
      <4>1. 0..now \subseteq 0..now'
        BY <1>1, <1>2
      <4> QED BY <3>1, <4>1, SeqWider, Zenon
    <3> QED BY <2>2, <3>2, Zenon DEF History
  <2>3. restarts' = restarts /\ options' = options
    BY <1>1, Zenon
  <2> QED BY <2>1, <2>2, <2>3, <1>3, Zenon DEF Histories
<1>5. Recorded'
  <2> SUFFICES ASSUME NEW h \in Holders(mailbox', timers', wait', services')
               PROVE  HolderOK(h)'
    BY Zenon DEF Recorded
  <2>1. HolderOK(h)
    <3>1. h \in Holders(mailbox, timers, wait, services)
      BY <1>1, Zenon
    <3> QED BY <3>1, Parts, Zenon
  <2>2. RecordOK(h.id, h.service)'
    BY <2>1, <1>1 DEF HolderOK, RecordOK, Indices
  <2> DEFINE times == restarts[h.id][h.service.index]
             rec == h.service
             R == Recent(times)
             R2 == Recent(times)'
  <2>3. times \in Seq(0..now)
    <3>1. h.id \in Services /\ h.service.index \in Indices(h.id)
      BY <2>1 DEF HolderOK, RecordOK
    <3>2. History(options[h.id].max_r, times)
      BY <3>1, <1>4, Zenon DEF Histories
    <3> QED BY <3>2, Zenon DEF History
  <2>4. R2 \subseteq R
    <3>1. /\ R = {k \in DOMAIN times : now - times[k] <= MaxT}
          /\ R2 = {k \in DOMAIN times : now' - times[k] <= MaxT}
      BY <1>1 DEF Recent
    <3>2. MaxT \in Nat /\ now \in Nat
      BY MonitorAssumption, <1>2
    <3> HIDE DEF times, R, R2
    <3>3. \A k \in DOMAIN times : times[k] \in Int
      BY <2>3, <3>2
    <3> QED BY <3>1, <3>2, <3>3, <1>1
  <2>5. PICK g \in [R -> 1..Len(rec.restart_times)] :
          /\ \A j, k \in R : g[j] = g[k] => j = k
          /\ \A k \in R : rec.restart_times[g[k]] = times[k]
    BY <2>1, Zenon DEF HolderOK, Remembers
  <2>6. Remembers(rec, times)'
    <3> DEFINE f == [k \in R2 |-> g[k]]
    <3>1. f \in [R2 -> 1..Len(rec.restart_times)]
      BY <2>4, <2>5, Zenon
    <3>2. \A k \in R2 : f[k] = g[k]
      BY Zenon
    <3> HIDE DEF f
    <3>3. \A j, k \in R2 : f[j] = f[k] => j = k
      BY <3>2, <2>4, <2>5, Zenon
    <3>4. \A k \in R2 : rec.restart_times[f[k]] = times[k]
      BY <3>2, <2>4, <2>5, Zenon
    <3>5. restarts' = restarts
      BY <1>1, Zenon
    <3> HIDE DEF R2
    <3>6. \E c \in [R2 -> 1..Len(rec.restart_times)] :
              /\ \A j, k \in R2 : c[j] = c[k] => j = k
              /\ \A k \in R2 : rec.restart_times[c[k]] = times[k]
      <4> WITNESS f \in [R2 -> 1..Len(rec.restart_times)]
      <4> QED BY <3>3, <3>4, Zenon
    <3> QED BY <3>5, <3>6 DEF Remembers, R2
  <2> QED BY <2>1, <2>2, <2>6, <1>1, Zenon DEF HolderOK
<1>6. InOneHand'
  <2>1. InOneHand
    BY Zenon DEF Inv
  <2> QED BY <2>1, <1>1, <1>3, Zenon DEF InOneHand, Hands
<1>7. Mail'
  <2>1. Mail
    BY Zenon DEF Inv
  <2>2. \A m : MessageOK(m) => MessageOK(m)'
    BY <1>1, <1>3, Zenon DEF MessageOK, Alive
  <2> QED BY <2>1, <2>2, <1>1, Zenon DEF Mail
<1>8. Living'
  <2>1. Living
    BY Zenon DEF Inv
  <2>2. \A a : ProcessOK(a) => ProcessOK(a)'
    BY <1>1, <1>3, Zenon DEF ProcessOK
  <2>3. OneGeneration => OneGeneration'
    BY <1>1, Zenon DEF OneGeneration
  <2> QED BY <2>1, <2>2, <2>3, <1>1, Zenon DEF Living
<1>9. \A p : /\ Known(p)' = Known(p) /\ (Alive(p) <=> Alive(p)')
             /\ (DownDue(p) <=> DownDue(p)') /\ (MustEnd(p) <=> MustEnd(p)')
  BY <1>1, Zenon DEF Known, Alive, DownDue, MustEnd, InMailbox, TerminateEnd
<1>10. Table'
  <2>1. Table
    BY Zenon DEF Inv
  <2>2. NoOrphans'
    <3>1. Starting' = Starting
      BY <1>1, Zenon DEF Starting
    <3> QED BY <2>1, <3>1, <1>1, <1>9, Zenon DEF Table, NoOrphans
  <2>3. KnownAlive'
    BY <2>1, <1>1, <1>9, Zenon DEF Table, KnownAlive
  <2> QED BY <2>1, <2>2, <2>3, <1>1, Zenon DEF Table
<1>11. (Shape(wait) /\ Ended /\ Begun)'
  <2>1. Shape(wait) /\ Ended /\ Begun
    BY Parts, Zenon
  <2>2. Shape(wait)'
    BY <2>1, <1>1, Zenon DEF Shape
  <2>3. Ended'
    BY <2>1, <1>1, <1>9, Zenon DEF Ended
  <2>4. Begun'
    BY <2>1, <1>1, <1>9, Zenon DEF Begun
  <2> QED BY <2>2, <2>3, <2>4, Zenon
<1>12. Rest'
  <2>1. Rest
    BY Parts, Zenon
  <2> QED BY <2>1, <1>1, <1>2, Zenon DEF Rest
<1> QED BY <1>4, <1>5, <1>6, <1>7, <1>8, <1>10, <1>11, <1>12, Zenon DEF Inv

(* The reply of a shutdown.                                                *)
LEMMA StepShutdownDone ==
    ASSUME Inv, ShutdownDone
    PROVE  Inv'
<1>1. /\ wait.kind = "shutdown" /\ configured' = configured \ {wait.id}
      /\ wait' = NoWait
      /\ UNCHANGED <<alive, signals, next_pid, services, mailbox, timers,
                     options, now, restarts, calls>>
  BY Zenon DEF ShutdownDone, proc_vars, terminated_service
<1>2. mailbox \in Seq(In(mailbox)) /\ KnownAlive
  BY Parts, Zenon
<1>3. /\ \A a \in alive' : ProcessOK(a) /\ \E b \in alive : Same(a, b)
      /\ \A a, b \in alive' : a.pid = b.pid => a = b
      /\ \A p : Alive(p)' <=> Alive(p)
      /\ \A a \in alive' : Alive(a.pid)
  BY <1>1, Unmoved, Zenon
<1>4. (Shape(wait) /\ Ended /\ Begun)' /\ ~Holds(wait')
  BY <1>1, Idle, Zenon
<1>5. mailbox' \in Seq(In(mailbox')) /\ Fewer(mailbox, mailbox')
      /\ In(mailbox') = In(mailbox)
  BY <1>1, <1>2, Zenon DEF Fewer
<1>6. NoOrphans'
  <2>1. Starting = {}
    <3>1. "shutdown" # "init"
      OBVIOUS
    <3> QED BY <1>1, <3>1, Zenon DEF Starting
  <2>2. \A a \in alive' : Doomed(mailbox, timers, signals, a.pid) =>
                          Doomed(mailbox', timers', signals', a.pid)
    BY <1>1, Zenon
  <2>3. \A p : Known(p)' = Known(p)
    BY <1>1, Zenon DEF Known
  <2>4. \A a \in alive' : Known(a.pid) # {} => Known(a.pid)' # {}
    BY <2>3, Zenon
  <2>5. Starting \subseteq Starting'
    BY <2>1, Zenon
  <2> QED BY <1>3, <1>5, <2>2, <2>4, <2>5, OrphansKept, Zenon
<1>7. KnownAlive'
  <2>1. \A p : DownDue(p) => DownDue(p)'
    BY <1>1, Zenon DEF DownDue
  <2> QED BY <1>1, <1>2, <1>3, <2>1, Zenon DEF KnownAlive
<1>8. calls' \in Nat /\ configured' \subseteq configured
      /\ services' \subseteq services
      /\ (\A y \in signals' : y \in signals \/ Alive(y.pid))
      /\ UNCHANGED <<options, now, restarts, next_pid>>
  <2>1. calls \in Nat
    BY Parts, Zenon DEF Rest
  <2> QED BY <2>1, <1>1, Zenon
<1>9. /\ \A m \in timers' : m \in timers \/ Plain(m)
      /\ \A m \in In(mailbox') \cup timers' :
            \/ m \in In(mailbox) \cup timers
            \/ Plain(m)
            \/ m.tag = "DOWN" /\ m.pid \in 1..next_pid - 1 /\ ~Alive(m.pid)'
  BY <1>1, <1>5, Zenon
<1> QED BY <1>3, <1>4, <1>5, <1>6, <1>7, <1>8, <1>9, Quiet, Zenon

-----------------------------------------------------------------------------
(* The steps that take processes out of the table                          *)

(* terminate_service_pids: the processes leave the table, and each of      *)
(* them except the one that has ended gets its shutdown signal and its     *)
(* timeout.                                                                *)
LEMMA Forgets ==
    ASSUME NEW ps, NEW old, terminate_service_pids(ps, old)
    PROVE  /\ services' \subseteq services
           /\ \A e \in services' : e.pid \notin ps
           /\ \A e \in services : e.pid \notin ps => e \in services'
           /\ signals \subseteq signals'
           /\ \A x \in signals' : x \in signals \/ Alive(x.pid)
           /\ timers \subseteq timers'
           /\ \A m \in timers' : m \in timers \/ m.tag = "terminate_end"
           /\ \A p \in ps : p = old \/ TerminateEnd(p) \in timers'
<1> DEFINE S == {x \in ps : Alive(x)} \ {old}
<1>1. /\ services' = {e \in services : e.pid \notin ps}
      /\ signals' = signals \cup {[pid |-> p, reason |-> "shutdown"] : p \in S}
      /\ timers' = timers \cup {TerminateEnd(p) : p \in ps \ {old}}
  BY Zenon DEF terminate_service_pids, Enforce
<1>2. ASSUME NEW x \in signals', x \notin signals PROVE Alive(x.pid)
  <2>1. PICK p \in S : x = [pid |-> p, reason |-> "shutdown"]
    BY <1>1, <1>2, Zenon
  <2>2. x.pid = p
    BY <2>1
  <2> QED BY <2>2, Zenon
<1>3. ASSUME NEW m \in timers', m \notin timers PROVE m.tag = "terminate_end"
  <2>1. PICK p \in ps \ {old} : m = TerminateEnd(p)
    BY <1>1, <1>3, Zenon
  <2> QED BY <2>1 DEF TerminateEnd
<1>4. ASSUME NEW p \in ps, p # old PROVE TerminateEnd(p) \in timers'
  BY <1>1, <1>4, Zenon
<1>5. /\ services' \subseteq services
      /\ \A e \in services' : e.pid \notin ps
      /\ \A e \in services : e.pid \notin ps => e \in services'
      /\ signals \subseteq signals' /\ timers \subseteq timers'
  BY <1>1, Zenon
<1> QED BY <1>2, <1>3, <1>4, <1>5, Zenon

(* Processes that are told to end have a timeout, whatever follows.        *)
LEMMA Ends ==
    ASSUME Inv, NEW ps, NEW old, terminate_service_pids(ps, old),
           ~Alive(old), wait.kind # "init",
           UNCHANGED <<alive, next_pid, options, now, restarts>>,
           configured' \subseteq configured, calls' = calls,
           mailbox' \in Seq(In(mailbox')), In(mailbox') \subseteq In(mailbox),
           \A m \in In(mailbox) :
              \/ m \in In(mailbox')
              \/ m.tag # "terminate_end" /\ (m.tag = "DOWN" => m.pid \in ps)
    PROVE  /\ (Histories /\ Mail /\ Living /\ Table /\ Rest)'
           /\ (NoOrphans /\ KnownAlive)'
           /\ \A m \in timers' : m \in timers \/ Plain(m)
           /\ \A x \in signals' : x \in signals \/ Alive(x.pid)
           /\ \A p \in ps : Known(p)' = {}
           /\ services' \subseteq services
<1>1. /\ services' \subseteq services
      /\ \A e \in services' : e.pid \notin ps
      /\ \A e \in services : e.pid \notin ps => e \in services'
      /\ signals \subseteq signals'
      /\ \A x \in signals' : x \in signals \/ Alive(x.pid)
      /\ timers \subseteq timers'
      /\ \A m \in timers' : m \in timers \/ m.tag = "terminate_end"
      /\ \A p \in ps : p = old \/ TerminateEnd(p) \in timers'
  BY Forgets, Zenon
<1>2. /\ \A a \in alive' : ProcessOK(a) /\ \E b \in alive : Same(a, b)
      /\ \A a, b \in alive' : a.pid = b.pid => a = b
      /\ \A p : Alive(p)' <=> Alive(p)
      /\ \A a \in alive' : Alive(a.pid)
  BY Unmoved, Zenon
<1>3. NoOrphans'
  <2>1. ASSUME NEW a \in alive', Known(a.pid) # {}
        PROVE  \/ Known(a.pid)' # {}
               \/ Doomed(mailbox', timers', signals', a.pid)
    <3>1. PICK e \in services : e.pid = a.pid
      BY <2>1, Zenon DEF Known
    <3>2. CASE a.pid \in ps
      <4>1. a.pid # old
        BY <1>2, Zenon
      <4> QED BY <3>2, <4>1, <1>1, Zenon DEF Doomed
    <3>3. CASE a.pid \notin ps
      <4>1. e \in services'
        BY <3>1, <3>3, <1>1, Zenon
      <4> QED BY <3>1, <4>1, Zenon DEF Known
    <3> QED BY <3>2, <3>3, Zenon
  <2>2. ASSUME NEW a \in alive', Doomed(mailbox, timers, signals, a.pid)
        PROVE  Doomed(mailbox', timers', signals', a.pid)
    <3>1. TerminateEnd(a.pid).tag = "terminate_end"
      BY DEF TerminateEnd
    <3>2. TerminateEnd(a.pid) \in In(mailbox) =>
             TerminateEnd(a.pid) \in In(mailbox')
      BY <3>1, Zenon
    <3> QED BY <2>2, <3>2, <1>1, Zenon DEF Doomed
  <2>3. Starting \subseteq Starting'
    BY Zenon DEF Starting
  <2> QED BY <1>2, <2>1, <2>2, <2>3, OrphansKept, Zenon
<1>4. KnownAlive'
  <2>1. \A e \in services' : \A m \in In(mailbox) :
              m.tag = "DOWN" /\ m.pid = e.pid => m \in In(mailbox')
    BY <1>1, Zenon
  <2>2. \A e \in services' : Alive(e.pid) => Alive(e.pid)'
    BY <1>2, Zenon
  <2> QED BY <1>1, <2>1, <2>2, KnownKept, Zenon
<1>5. \A m \in timers' : m \in timers \/ Plain(m)
  BY <1>1 DEF Plain, Stages
<1>6. \A m \in In(mailbox') \cup timers' :
              \/ m \in In(mailbox) \cup timers
              \/ Plain(m)
              \/ m.tag = "DOWN" /\ m.pid \in 1..next_pid - 1 /\ ~Alive(m.pid)'
  BY <1>5, Zenon
<1>7. UNCHANGED <<options, now, restarts, next_pid>> /\ calls' \in Nat
  BY Parts, Zenon DEF Rest
<1>8. (Histories /\ Mail /\ Living /\ Table /\ Rest)'
  BY <1>1, <1>2, <1>3, <1>4, <1>6, <1>7, QuietRest, Zenon
<1>9. \A p \in ps : Known(p)' = {}
  BY <1>1, Zenon DEF Known
<1> QED BY <1>1, <1>3, <1>4, <1>5, <1>8, <1>9, Zenon

(* ... and if the monitor does not restart them, that is all.              *)
LEMMA EndsQuietly ==
    ASSUME Inv, NEW ps, NEW old, terminate_service_pids(ps, old),
           ~Alive(old), wait.kind # "init",
           UNCHANGED <<alive, next_pid, options, now, restarts>>,
           configured' \subseteq configured, calls' = calls,
           mailbox' \in Seq(In(mailbox')), In(mailbox') \subseteq In(mailbox),
           Fewer(mailbox, mailbox'),
           \A m \in In(mailbox) :
              \/ m \in In(mailbox')
              \/ m.tag # "terminate_end" /\ (m.tag = "DOWN" => m.pid \in ps),
           ~Holds(wait'), Shape(wait'), Begun',
           wait'.kind \in {"shutdown", "restart"} =>
              In(wait'.pids) \subseteq ps
    PROVE  Inv'
<1>1. /\ (Histories /\ Mail /\ Living /\ Table /\ Rest)'
      /\ (NoOrphans /\ KnownAlive)'
      /\ \A m \in timers' : m \in timers \/ Plain(m)
      /\ \A x \in signals' : x \in signals \/ Alive(x.pid)
      /\ \A p \in ps : Known(p)' = {}
      /\ services' \subseteq services
  BY Ends, Zenon
<1>2. Ended'
  BY <1>1, Zenon DEF Ended
<1>3. Shape(wait)'
  BY Zenon DEF Shape
<1>4. /\ \A a \in alive' : ProcessOK(a) /\ \E b \in alive : Same(a, b)
      /\ \A a, b \in alive' : a.pid = b.pid => a = b
  BY Unmoved, Zenon
<1>5. UNCHANGED <<options, now, restarts, next_pid>> /\ calls' \in Nat
  BY Parts, Zenon DEF Rest
<1>6. \A m \in In(mailbox') \cup timers' :
              \/ m \in In(mailbox) \cup timers
              \/ Plain(m)
              \/ m.tag = "DOWN" /\ m.pid \in 1..next_pid - 1 /\ ~Alive(m.pid)'
  BY <1>1, Zenon
<1> QED BY <1>1, <1>2, <1>3, <1>4, <1>5, <1>6, Quiet, Zenon

(* A shutdown takes every process of the service out of the table.         *)
LEMMA StepShutdown ==
    ASSUME Inv, HandleShutdown
    PROVE  Inv'
<1> DEFINE s == Head(mailbox).id
           ps == {e.pid : e \in Entries(s)}
<1>1. /\ Handling("shutdown") /\ Done
      /\ UNCHANGED <<alive, next_pid, options, configured, now, restarts,
                     calls>>
  BY Zenon DEF HandleShutdown
<1>2. /\ wait = NoWait
      /\ mailbox' \in Seq(In(mailbox')) /\ In(mailbox') \subseteq In(mailbox)
      /\ Head(mailbox).tag = "shutdown"
      /\ \A m \in In(mailbox) : m = Head(mailbox) \/ m \in In(mailbox')
      /\ Fewer(mailbox, mailbox')
  BY <1>1, HeadTaken, Zenon DEF Done
<1>3. CASE UNCHANGED <<services, signals, timers, wait>>
  <2>1. /\ UNCHANGED <<alive, next_pid, services, wait, options, configured,
                       now, restarts, calls>>
        /\ signals' = signals /\ timers' = timers
    BY <1>1, <1>3, Zenon
  <2>2. "shutdown" # "DOWN" /\ "shutdown" # "terminate_end"
    OBVIOUS
  <2> QED BY <1>1, <2>1, <2>2, HandledQuietly, Zenon
<1>4. CASE /\ ps # {}
           /\ terminate_service_pids(ps, 0)
           /\ \E pids \in SetToSeqs(ps) :
                wait' = [kind |-> "shutdown", id |-> s,
                         pids |-> WaitFor(pids, 0), killed |-> FALSE]
  <2>1. PICK pids \in SetToSeqs(ps) :
                wait' = [kind |-> "shutdown", id |-> s,
                         pids |-> WaitFor(pids, 0), killed |-> FALSE]
    BY <1>4, Zenon
  <2>2. s \in Services /\ ps \subseteq 1..next_pid - 1
    <3>1. \A e \in services : e.id \in Services /\ e.pid \in 1..next_pid - 1
      BY Parts, Zenon
    <3> QED BY <3>1, <1>4, Zenon DEF Entries
  <2>3. pids \in Seq(ps)
    <3>1. next_pid \in 1..MaxPids + 1 /\ MaxPids \in Nat
      BY Parts, MonitorAssumption, Zenon
    <3>2. next_pid - 1 \in Int
      BY <3>1
    <3>3. IsFiniteSet(1..next_pid - 1)
      BY <3>2, FS_Interval
    <3>4. Cardinality(ps) \in Nat
      <4> HIDE DEF ps
      <4>1. ps \in SUBSET (1..next_pid - 1)
        BY <2>2, Zenon
      <4>2. IsFiniteSet(ps)
        BY <3>3, <4>1, FS_Subset, Zenon
      <4> QED BY <4>2, FS_CardinalityType, Zenon
    <3>5. pids \in [1..Cardinality(ps) -> ps]
      BY Zenon DEF SetToSeqs
    <3> HIDE DEF ps
    <3> QED BY <3>4, <3>5
  <2> DEFINE w == WaitFor(pids, 0)
  <2> HIDE DEF ps, s
  <2>4. w \in Seq(ps) /\ In(w) \subseteq ps
    <3>1. w \in Seq(ps)
      BY <2>3, WaitForAll, Zenon
    <3> QED BY <3>1, InSet, Zenon
  <2>5. w \in Seq(Nat)
    <3>1. next_pid \in Nat
      BY Parts, MonitorAssumption
    <3>2. ps \subseteq Nat
      BY <2>2, <3>1
    <3> QED BY <2>4, <3>2, SeqWider, Zenon
  <2> HIDE DEF w
  <2>6. wait' = [kind |-> "shutdown", id |-> s, pids |-> w, killed |-> FALSE]
    BY <2>1, Zenon DEF w
  <2>7. /\ wait'.kind = "shutdown" /\ wait'.id = s /\ wait'.pids = w
        /\ wait'.killed = FALSE
    BY <2>6
  <2>8. ~Holds(wait') /\ Begun' /\ Shape(wait')
    BY <2>2, <2>5, <2>6, <2>7 DEF Holds, Begun, Shape
  <2>9. wait.kind # "init"
    BY <1>2 DEF NoWait
  <2>10. ~Alive(0)
    <3>1. \A a \in alive : a.pid \in 1..next_pid - 1
      BY Parts, Zenon DEF ProcessOK
    <3>2. 0 \notin 1..next_pid - 1
      OBVIOUS
    <3> QED BY <3>1, <3>2, Zenon DEF Alive
  <2>11. \A m \in In(mailbox) :
              \/ m \in In(mailbox')
              \/ m.tag # "terminate_end" /\ (m.tag = "DOWN" => m.pid \in ps)
    BY <1>2
  <2>12. UNCHANGED <<alive, next_pid, options, now, restarts>>
         /\ configured' \subseteq configured /\ calls' = calls
    BY <1>1, Zenon
  <2>13. wait'.kind \in {"shutdown", "restart"} => In(wait'.pids) \subseteq ps
    BY <2>4, <2>7, Zenon
  <2> QED BY <1>2, <1>4, <2>8, <2>9, <2>10, <2>11, <2>12, <2>13,
             EndsQuietly, Zenon
<1> QED BY <1>3, <1>4, Zenon DEF HandleShutdown

(* A process that ended by a shutdown takes the service with it.           *)
LEMMA StepDownShutdown ==
    ASSUME Inv, HandleDownShutdown
    PROVE  Inv'
<1> DEFINE x == Head(mailbox)
<1>1. /\ Handling("DOWN") /\ Done
      /\ UNCHANGED <<alive, next_pid, wait, options, now, restarts, calls>>
  BY Zenon DEF HandleDownShutdown
<1>2. PICK e \in Known(x.pid) :
            /\ terminate_service_pids({y.pid : y \in Entries(e.id)}, x.pid)
            /\ terminated_service(e.id)
  BY Zenon DEF HandleDownShutdown
<1>3. /\ wait = NoWait
      /\ mailbox' \in Seq(In(mailbox')) /\ In(mailbox') \subseteq In(mailbox)
      /\ x.tag = "DOWN" /\ MessageOK(x)
      /\ \A m \in In(mailbox) : m = x \/ m \in In(mailbox')
      /\ Fewer(mailbox, mailbox')
  BY <1>1, HeadTaken, Zenon DEF Done
<1> DEFINE ps == {y.pid : y \in Entries(e.id)}
<1>4. x.pid \in ps
  BY <1>2, Zenon DEF Known, Entries
<1> HIDE DEF x, ps
<1>5. ~Alive(x.pid)
  BY <1>3 DEF MessageOK
<1>6. wait' = NoWait
  BY <1>1, <1>3, Zenon
<1>7. (Shape(wait) /\ Ended /\ Begun)' /\ ~Holds(wait')
  BY <1>6, Idle, Zenon
<1>8. Shape(wait')
  BY <1>7, Zenon DEF Shape
<1>9. wait.kind # "init" /\ wait'.kind \notin {"shutdown", "restart"}
  BY <1>3, <1>6 DEF NoWait
<1>10. \A m \in In(mailbox) :
              \/ m \in In(mailbox')
              \/ m.tag # "terminate_end" /\ (m.tag = "DOWN" => m.pid \in ps)
  BY <1>3, <1>4
<1>11. UNCHANGED <<alive, next_pid, options, now, restarts>>
       /\ configured' \subseteq configured /\ calls' = calls
  BY <1>1, <1>2, Zenon DEF terminated_service
<1>12. terminate_service_pids(ps, x.pid)
  BY <1>2, Zenon DEF ps
<1> QED BY <1>3, <1>5, <1>7, <1>8, <1>9, <1>10, <1>11, <1>12,
           EndsQuietly, Zenon

(* A process that a decrease of count_process had ended leaves the table   *)
(* alone.                                                                  *)
LEMMA StepDownDynamic ==
    ASSUME Inv, HandleDownDynamic
    PROVE  Inv'
<1> DEFINE x == Head(mailbox)
<1>1. /\ Handling("DOWN") /\ Done /\ services' = services \ Known(x.pid)
      /\ UNCHANGED <<alive, signals, next_pid, timers, wait, options,
                     configured, now, restarts, calls>>
  BY Zenon DEF HandleDownDynamic, proc_vars
<1>2. /\ wait = NoWait
      /\ mailbox' \in Seq(In(mailbox')) /\ In(mailbox') \subseteq In(mailbox)
      /\ x.tag = "DOWN" /\ MessageOK(x)
      /\ \A m \in In(mailbox) : m = x \/ m \in In(mailbox')
      /\ Fewer(mailbox, mailbox')
  BY <1>1, HeadTaken, Zenon DEF Done
<1> HIDE DEF x
<1>3. ~Alive(x.pid)
  BY <1>2 DEF MessageOK
<1>4. (Shape(wait) /\ Ended /\ Begun)' /\ ~Holds(wait')
  BY <1>1, <1>2, Idle, Zenon
<1>5. /\ \A a \in alive' : ProcessOK(a) /\ \E b \in alive : Same(a, b)
      /\ \A a, b \in alive' : a.pid = b.pid => a = b
      /\ \A p : Alive(p)' <=> Alive(p)
      /\ \A a \in alive' : Alive(a.pid)
  BY <1>1, Unmoved, Zenon
<1>6. \A p : p # x.pid => Known(p)' = Known(p)
  BY <1>1, Zenon DEF Known
<1>7. NoOrphans'
  <2>1. \A a \in alive' : Known(a.pid) # {} => Known(a.pid)' # {}
    BY <1>3, <1>5, <1>6, Zenon
  <2>2. ASSUME NEW a \in alive', Doomed(mailbox, timers, signals, a.pid)
        PROVE  Doomed(mailbox', timers', signals', a.pid)
    <3>1. TerminateEnd(a.pid).tag # x.tag
      BY <1>2 DEF TerminateEnd
    <3>2. TerminateEnd(a.pid) \in In(mailbox) =>
             TerminateEnd(a.pid) \in In(mailbox')
      BY <3>1, <1>2, Zenon
    <3> QED BY <2>2, <3>2, <1>1, Zenon DEF Doomed
  <2>3. Starting \subseteq Starting'
    BY <1>1, Zenon DEF Starting
  <2> QED BY <1>2, <1>5, <2>1, <2>2, <2>3, OrphansKept, Zenon
<1>8. services' \subseteq services /\ \A e \in services' : e.pid # x.pid
  BY <1>1, Zenon DEF Known
<1>9. KnownAlive'
  <2>1. \A e \in services' : \A m \in In(mailbox) :
              m.tag = "DOWN" /\ m.pid = e.pid => m \in In(mailbox')
    BY <1>2, <1>8, Zenon
  <2>2. \A e \in services' : Alive(e.pid) => Alive(e.pid)'
    BY <1>5, Zenon
  <2> QED BY <1>2, <1>8, <2>1, <2>2, KnownKept, Zenon
<1>10. calls' \in Nat /\ configured' \subseteq configured
       /\ (\A y \in signals' : y \in signals \/ Alive(y.pid))
       /\ UNCHANGED <<options, now, restarts, next_pid>>
  <2>1. calls \in Nat
    BY Parts, Zenon DEF Rest
  <2> QED BY <2>1, <1>1, Zenon
<1>11. /\ \A m \in timers' : m \in timers \/ Plain(m)
       /\ \A m \in In(mailbox') \cup timers' :
            \/ m \in In(mailbox) \cup timers
            \/ Plain(m)
            \/ m.tag = "DOWN" /\ m.pid \in 1..next_pid - 1 /\ ~Alive(m.pid)'
  BY <1>1, <1>2, Zenon
<1> QED BY <1>2, <1>4, <1>5, <1>7, <1>8, <1>9, <1>10, <1>11, Quiet, Zenon

(* The pids of a service record do not matter to its restarts.             *)
LEMMA PidsReplaced ==
    ASSUME NEW s, NEW rec, RecordOK(s, rec), NEW pids \in Seq(1..MaxPids),
           NEW r, r = [rec EXCEPT !.pids = pids]
    PROVE  /\ RecordOK(s, r) /\ r.pids = pids /\ r.index = rec.index
           /\ r.restart_times = rec.restart_times
           /\ \A times : Remembers(rec, times) => Remembers(r, times)
<1>1. /\ rec \in [index : Indices(s), pids : Seq(1..MaxPids),
                  restart_count : 0..options[s].max_r,
                  restart_times : Seq(0..MaxTime)]
      /\ rec.restart_count = Len(rec.restart_times)
  BY Zenon DEF RecordOK
<1>2. /\ r \in [index : Indices(s), pids : Seq(1..MaxPids),
                restart_count : 0..options[s].max_r,
                restart_times : Seq(0..MaxTime)]
      /\ r.pids = pids /\ r.index = rec.index
      /\ r.restart_times = rec.restart_times
      /\ r.restart_count = rec.restart_count
  BY <1>1
<1>3. r.restart_times = rec.restart_times
  BY <1>2, Zenon
<1>4. \A times : Remembers(rec, times) => Remembers(r, times)
  BY <1>3 DEF Remembers
<1> QED BY <1>1, <1>2, <1>4, Zenon DEF RecordOK

(* A group fails: its index goes from the table into the hands of the      *)
(* blocked monitor, which waits for every process of it that lives.        *)
LEMMA StepDownError ==
    ASSUME Inv, HandleDownError
    PROVE  Inv'
<1> DEFINE x == Head(mailbox)
<1>1. /\ Handling("DOWN") /\ Done
      /\ UNCHANGED <<alive, next_pid, options, configured, now, restarts,
                     calls>>
  BY Zenon DEF HandleDownError
<1>2. PICK e \in Known(x.pid) :
            /\ terminate_service_pids(ToSet(e.service.pids), x.pid)
            /\ wait' = [kind |-> "restart", id |-> e.id, killed |-> FALSE,
                        pids |-> WaitFor(e.service.pids, x.pid),
                        service |-> [e.service EXCEPT !.pids = <<>>]]
  BY Zenon DEF HandleDownError
<1>3. /\ wait = NoWait
      /\ mailbox' \in Seq(In(mailbox')) /\ In(mailbox') \subseteq In(mailbox)
      /\ x.tag = "DOWN" /\ MessageOK(x)
      /\ \A m \in In(mailbox) : m = x \/ m \in In(mailbox')
      /\ Fewer(mailbox, mailbox')
  BY <1>1, HeadTaken, Zenon DEF Done
<1> HIDE DEF x
<1>4. e \in services /\ e.pid = x.pid
  BY Zenon DEF Known
<1>5. /\ e.id \in Services /\ e.pid \in In(e.service.pids)
      /\ HolderOK(e)
  <2>1. e \in Holders(mailbox, timers, wait, services)
    BY <1>4, Zenon DEF Holders
  <2> QED BY <1>4, <2>1, Parts, Zenon
<1>6. /\ RecordOK(e.id, e.service) /\ e.service.index \in Indices(e.id)
      /\ e.service.pids \in Seq(1..MaxPids)
  BY <1>5 DEF HolderOK, RecordOK
<1> DEFINE ps == In(e.service.pids)
           w == WaitFor(e.service.pids, x.pid)
           rec == [e.service EXCEPT !.pids = <<>>]
           i0 == e.service.index
<1>7. /\ ToSet(e.service.pids) = ps /\ ps \subseteq 1..MaxPids
  BY <1>6, InSet, Zenon
<1>8. /\ w \in Seq(1..MaxPids) /\ In(w) \subseteq ps
      /\ \A p \in ps : p = x.pid \/ p \in In(w)
  BY <1>6, WaitForAll, Zenon
<1>9. w \in Seq(Nat)
  <2>1. 1..MaxPids \subseteq Nat
    BY MonitorAssumption
  <2> QED BY <1>8, <2>1, SeqWider, Zenon
<1>10. /\ RecordOK(e.id, rec) /\ rec.index = i0
       /\ \A times : Remembers(e.service, times) => Remembers(rec, times)
  <2>1. PICK r, none : r = rec /\ none = <<>>
    OBVIOUS
  <2>2. none \in Seq(1..MaxPids) /\ r = [e.service EXCEPT !.pids = none]
    BY <2>1
  <2>3. /\ RecordOK(e.id, r) /\ r.pids = none
        /\ r.index = e.service.index
        /\ r.restart_times = e.service.restart_times
        /\ \A times : Remembers(e.service, times) => Remembers(r, times)
    <3> HIDE DEF rec, ps, w, i0
    <3> QED BY <2>2, <1>6, PidsReplaced
  <2> QED BY <2>1, <2>3, Zenon
<1>11. terminate_service_pids(ps, x.pid) /\ x.pid \in ps
  BY <1>2, <1>4, <1>5, <1>7, Zenon
<1>12. ~Alive(x.pid)
  BY <1>3 DEF MessageOK
<1> HIDE DEF w, rec, ps, i0
<1>13. wait' = [kind |-> "restart", id |-> e.id, killed |-> FALSE,
                pids |-> w, service |-> rec]
  BY <1>2, Zenon DEF w, rec
<1>14. /\ wait'.kind = "restart" /\ wait'.id = e.id /\ wait'.killed = FALSE
       /\ wait'.pids = w /\ wait'.service = rec
  BY <1>13
<1>15. /\ (Histories /\ Mail /\ Living /\ Table /\ Rest)'
       /\ (NoOrphans /\ KnownAlive)'
       /\ \A m \in timers' : m \in timers \/ Plain(m)
       /\ \A p \in ps : Known(p)' = {}
       /\ services' \subseteq services
  <2>1. wait.kind # "init"
    BY <1>3 DEF NoWait
  <2>2. \A m \in In(mailbox) :
              \/ m \in In(mailbox')
              \/ m.tag # "terminate_end" /\ (m.tag = "DOWN" => m.pid \in ps)
    BY <1>3, <1>11
  <2>3. UNCHANGED <<alive, next_pid, options, now, restarts>>
        /\ configured' \subseteq configured /\ calls' = calls
    BY <1>1, Zenon
  <2> QED BY <1>3, <1>11, <1>12, <2>1, <2>2, <2>3, Ends, Zenon
<1>16. Shape(wait)'
  <2>1. Shape(wait')
    BY <1>5, <1>9, <1>13, <1>14 DEF Shape
  <2> QED BY <2>1, Zenon DEF Shape
<1>17. Ended' /\ Begun'
  <2>1. Ended'
    BY <1>8, <1>14, <1>15, Zenon DEF Ended
  <2>2. Begun'
    BY <1>14 DEF Begun
  <2> QED BY <2>1, <2>2
<1>18. Recorded'
  <2>1. HolderOK(wait')
    <3>1. Remembers(rec, restarts[e.id][rec.index])
      BY <1>5, <1>10, Zenon DEF HolderOK, i0
    <3> QED BY <3>1, <1>5, <1>10, <1>14, Zenon DEF HolderOK
  <2>2. \A m \in In(mailbox') \cup timers' :
              m \in In(mailbox) \cup timers \/ m.tag \notin Stages
    BY <1>3, <1>15, Zenon DEF Plain
  <2>3. \A h \in Holders(mailbox, timers, wait, services) : HolderOK(h)
    BY Parts, Zenon
  <2>4. UNCHANGED <<options, now, restarts>>
    BY <1>1, Zenon
  <2> QED BY <2>1, <2>2, <2>3, <2>4, <1>15, HoldersLess, Zenon
<1>19. Hands(alive, mailbox', timers', wait', services')
  <2> SUFFICES ASSUME NEW s \in Services, NEW i \in Indices(s)
               PROVE  Fits(Live(alive, s, i), Mailed(mailbox', s, i),
                           Timed(timers', s, i), Blocked(wait', s, i),
                           Covered(wait'), Listed(services', s, i))
    BY Zenon DEF Hands
  <2> DEFINE L == Live(alive, s, i)
             M == Mailed(mailbox, s, i)
             T == Timed(timers, s, i)
             B == Blocked(wait, s, i)
             C == Covered(wait)
             E == Listed(services, s, i)
             M2 == Mailed(mailbox', s, i)
             T2 == Timed(timers', s, i)
             B2 == Blocked(wait', s, i)
             C2 == Covered(wait')
             E2 == Listed(services', s, i)
  <2>1. Fits(L, M, T, B, C, E)
    BY Parts, Zenon DEF Hands
  <2>2. (Single(M) => Single(M2)) /\ (M = {} => M2 = {})
    BY <1>3, Zenon DEF Fewer
  <2>3. E2 \subseteq E
    BY <1>15, Zenon DEF Listed
  <2>4. T2 \subseteq T
    <3>1. ASSUME NEW m \in T2 PROVE m \in T
      BY <1>15, Zenon DEF Timed, ToStart, Plain
    <3> QED BY <3>1, Zenon
  <2>5. CASE s = e.id /\ i = i0
    <3>1. e \in E
      BY <2>5, <1>4, Zenon DEF Listed, i0
    <3>2. M = {} /\ T = {} /\ L \subseteq ps
          /\ \A f \in E : f.service = e.service
      BY <2>1, <3>1, Zenon DEF Fits, ps
    <3>3. E2 = {}
      <4>1. ASSUME NEW f \in E2 PROVE FALSE
        <5>1. f \in services /\ f \in services' /\ f.service = e.service
          BY <2>3, <3>2, <1>15, Zenon DEF Listed
        <5>2. f.pid \in ps
          BY <5>1, Parts, Zenon DEF ps
        <5> QED BY <5>1, <5>2, <1>15, Zenon DEF Known
      <4> QED BY <4>1, Zenon
    <3>4. L \subseteq C2
      <4>1. \A p \in L : Alive(p)
        BY Zenon DEF Live, Alive
      <4>2. L \subseteq In(w)
        BY <4>1, <3>2, <1>8, <1>12, Zenon DEF ps
      <4>3. C2 = In(w)
        BY <1>14 DEF Covered
      <4> QED BY <4>2, <4>3, Zenon
    <3>5. M2 = {} /\ T2 = {}
      BY <2>2, <2>4, <3>2, Zenon
    <3> HIDE DEF L, M2, T2, B2, C2, E2
    <3>6. Fits(L, M2, T2, B2, C2, E2)
      BY <3>3, <3>4, <3>5, Zenon DEF Fits, Single
    <3> QED BY <3>6, Zenon DEF L, M2, T2, B2, C2, E2
  <2>6. CASE ~(s = e.id /\ i = i0)
    <3>1. ~B2
      BY <2>6, <1>10, <1>14, Zenon DEF Blocked
    <3> HIDE DEF L, M, T, B, C, E, M2, T2, B2, C2, E2
    <3>2. Fits(L, M2, T2, B2, C2, E2)
      BY <2>1, <2>2, <2>3, <2>4, <3>1, FitsLess
    <3> QED BY <3>2, Zenon DEF L, M2, T2, B2, C2, E2
  <2> QED BY <2>5, <2>6, Zenon
<1>20. InOneHand'
  <2>1. \A s : Indices(s)' = Indices(s)
    BY <1>1 DEF Indices
  <2>2. alive' = alive
    BY <1>1, Zenon
  <2> QED BY <1>19, <2>1, <2>2, Zenon DEF InOneHand, Hands
<1> QED BY <1>15, <1>16, <1>17, <1>18, <1>20, Zenon DEF Inv

-----------------------------------------------------------------------------
(* The selective receives                                                  *)

(* The monitor waits for the next process.                                 *)
LEMMA WaitMoves ==
    ASSUME NEW w, Shape(w), w.kind \in {"shutdown", "restart"},
           w.pids # <<>>, NEW v,
           v = [w EXCEPT !.pids = Tail(@), !.killed = FALSE]
    PROVE  /\ Shape(v) /\ v.kind = w.kind /\ v.id = w.id
           /\ Holds(w) => v.service = w.service
           /\ v.pids = Tail(w.pids)
<1>1. w.id \in Services /\ w.pids \in Seq(Nat)
  BY DEF Shape
<1>2. PICK t : t = Tail(w.pids)
  OBVIOUS
<1>3. t \in Seq(Nat)
  <2>1. PICK p : p = w.pids
    OBVIOUS
  <2>2. p \in Seq(Nat) /\ p # <<>>
    BY <1>1, <2>1
  <2>3. Tail(p) \in Seq(Nat)
    BY <2>2
  <2> QED BY <1>2, <2>1, <2>3
<1>4. CASE w.kind = "shutdown"
  <2>1. PICK i, p, k :
           w = [kind |-> "shutdown", id |-> i, pids |-> p,
                killed |-> k]
    BY <1>4, Zenon DEF Shape
  <2>2. w.id = i /\ w.pids = p
    BY <2>1
  <2>3. v = [[kind |-> "shutdown", id |-> i, pids |-> p,
              killed |-> k] EXCEPT !.pids = t, !.killed = FALSE]
    BY <1>2, <2>1, <2>2, Zenon
  <2> DEFINE u == [kind |-> "shutdown", id |-> i, pids |-> t,
                   killed |-> FALSE]
  <2>4. v = u
    BY <2>3
  <2>5. /\ u.kind = "shutdown" /\ u.id = i /\ u.pids = t
        /\ u.killed = FALSE
    OBVIOUS
  <2>6. u = [kind |-> "shutdown", id |-> u.id, pids |-> u.pids,
             killed |-> u.killed]
    OBVIOUS
  <2> HIDE DEF u
  <2>7. Shape(u)
    BY <1>1, <1>2, <1>3, <2>2, <2>5, <2>6 DEF Shape
  <2>8. ~Holds(w)
    BY <1>4 DEF Holds
  <2> QED BY <1>1, <1>2, <1>3, <1>4, <2>2, <2>4, <2>5, <2>7, <2>8, Zenon
<1>5. CASE w.kind = "restart"
  <2>1. PICK i, p, k, r :
           w = [kind |-> "restart", id |-> i, pids |-> p,
                killed |-> k, service |-> r]
    BY <1>5, Zenon DEF Shape
  <2>2. w.id = i /\ w.pids = p /\ w.service = r
    BY <2>1
  <2>3. v = [[kind |-> "restart", id |-> i, pids |-> p,
              killed |-> k, service |-> r] EXCEPT !.pids = t, !.killed = FALSE]
    BY <1>2, <2>1, <2>2, Zenon
  <2> DEFINE u == [kind |-> "restart", id |-> i, pids |-> t,
                   killed |-> FALSE, service |-> r]
  <2>4. v = u
    BY <2>3
  <2>5. /\ u.kind = "restart" /\ u.id = i /\ u.pids = t
        /\ u.killed = FALSE /\ u.service = r
    OBVIOUS
  <2>6. u = [kind |-> "restart", id |-> u.id, pids |-> u.pids,
             killed |-> u.killed, service |-> u.service]
    OBVIOUS
  <2> HIDE DEF u
  <2>7. Shape(u)
    BY <1>1, <1>2, <1>3, <2>2, <2>5, <2>6 DEF Shape
  <2> QED BY <1>1, <1>2, <1>3, <1>5, <2>2, <2>4, <2>5, <2>7, Zenon
<1> QED BY <1>4, <1>5

(* The monitor goes on to wait for a process that it has killed.           *)
LEMMA WaitKills ==
    ASSUME NEW w, Shape(w), w.kind \in {"shutdown", "restart"},
           NEW v,
           v = [w EXCEPT !.killed = TRUE]
    PROVE  /\ Shape(v) /\ v.kind = w.kind /\ v.id = w.id
           /\ Holds(w) => v.service = w.service
           /\ v.pids = w.pids
<1>1. w.id \in Services /\ w.pids \in Seq(Nat)
  BY DEF Shape
<1>2. CASE w.kind = "shutdown"
  <2>1. PICK i, p, k :
           w = [kind |-> "shutdown", id |-> i, pids |-> p,
                killed |-> k]
    BY <1>2, Zenon DEF Shape
  <2>2. w.id = i /\ w.pids = p
    BY <2>1
  <2>3. v = [[kind |-> "shutdown", id |-> i, pids |-> p,
              killed |-> k] EXCEPT !.killed = TRUE]
    BY <2>1, <2>2, Zenon
  <2> DEFINE u == [kind |-> "shutdown", id |-> i, pids |-> p,
                   killed |-> TRUE]
  <2>4. v = u
    BY <2>3
  <2>5. /\ u.kind = "shutdown" /\ u.id = i /\ u.pids = p
        /\ u.killed = TRUE
    OBVIOUS
  <2>6. u = [kind |-> "shutdown", id |-> u.id, pids |-> u.pids,
             killed |-> u.killed]
    OBVIOUS
  <2> HIDE DEF u
  <2>7. Shape(u)
    BY <1>1, <2>2, <2>5, <2>6 DEF Shape
  <2>8. ~Holds(w)
    BY <1>2 DEF Holds
  <2> QED BY <1>1, <1>2, <2>2, <2>4, <2>5, <2>7, <2>8, Zenon
<1>3. CASE w.kind = "restart"
  <2>1. PICK i, p, k, r :
           w = [kind |-> "restart", id |-> i, pids |-> p,
                killed |-> k, service |-> r]
    BY <1>3, Zenon DEF Shape
  <2>2. w.id = i /\ w.pids = p /\ w.service = r
    BY <2>1
  <2>3. v = [[kind |-> "restart", id |-> i, pids |-> p,
              killed |-> k, service |-> r] EXCEPT !.killed = TRUE]
    BY <2>1, <2>2, Zenon
  <2> DEFINE u == [kind |-> "restart", id |-> i, pids |-> p,
                   killed |-> TRUE, service |-> r]
  <2>4. v = u
    BY <2>3
  <2>5. /\ u.kind = "restart" /\ u.id = i /\ u.pids = p
        /\ u.killed = TRUE /\ u.service = r
    OBVIOUS
  <2>6. u = [kind |-> "restart", id |-> u.id, pids |-> u.pids,
             killed |-> u.killed, service |-> u.service]
    OBVIOUS
  <2> HIDE DEF u
  <2>7. Shape(u)
    BY <1>1, <2>2, <2>5, <2>6 DEF Shape
  <2> QED BY <1>1, <1>3, <2>2, <2>4, <2>5, <2>7, Zenon
<1> QED BY <1>2, <1>3

(* initialize_wait_pids: the monitor waits for the next process.           *)
LEMMA WaitInits ==
    ASSUME NEW w, Shape(w), w.kind = "init", w.pids # <<>>,
           NEW v, v = [w EXCEPT !.pids = Tail(@)]
    PROVE  /\ Shape(v) /\ v.kind = w.kind /\ v.id = w.id
           /\ v.service = w.service
<1>1. w.id \in Services /\ w.pids \in Seq(Nat)
  BY DEF Shape
<1>2. PICK t : t = Tail(w.pids)
  OBVIOUS
<1>3. t \in Seq(Nat)
  <2>1. PICK p : p = w.pids
    OBVIOUS
  <2>2. p \in Seq(Nat) /\ p # <<>>
    BY <1>1, <2>1
  <2>3. Tail(p) \in Seq(Nat)
    BY <2>2
  <2> QED BY <1>2, <2>1, <2>3
<1>4. PICK i, p, r :
         w = [kind |-> "init", id |-> i, pids |-> p, service |-> r]
  BY Zenon DEF Shape
<1>5. w.id = i /\ w.pids = p /\ w.service = r
  BY <1>4
<1>6. v = [[kind |-> "init", id |-> i, pids |-> p, service |-> r]
              EXCEPT !.pids = t]
  BY <1>2, <1>4, <1>5, Zenon
<1> DEFINE u == [kind |-> "init", id |-> i, pids |-> t, service |-> r]
<1>7. v = u
  BY <1>6
<1>8. u.kind = "init" /\ u.id = i /\ u.pids = t /\ u.service = r
  OBVIOUS
<1>9. u = [kind |-> "init", id |-> u.id, pids |-> u.pids,
           service |-> u.service]
  OBVIOUS
<1> HIDE DEF u
<1>10. Shape(u)
  BY <1>1, <1>3, <1>5, <1>8, <1>9 DEF Shape
<1> QED BY <1>5, <1>7, <1>8, <1>10, Zenon

(* The blocked handler takes the end of the process it waits for out of    *)
(* its turn.                                                               *)
LEMMA StepWaitTerminated ==
    ASSUME Inv, WaitTerminated
    PROVE  Inv'
<1> DEFINE p == Head(wait.pids)
<1>1. /\ wait.kind \in {"shutdown", "restart"} /\ wait.pids # <<>>
      /\ UNCHANGED <<alive, next_pid, services, timers, options, configured,
                     now, restarts, calls>>
  BY Zenon DEF WaitTerminated
<1>2. PICK k \in DOMAIN mailbox :
        /\ \/ mailbox[k].tag = "DOWN" /\ mailbox[k].pid = p
           \/ mailbox[k] = TerminateEnd(p)
        /\ mailbox' = RemoveAt(mailbox, k)
        /\ \/ /\ mailbox[k].tag = "DOWN"
              /\ wait' = [wait EXCEPT !.pids = Tail(@), !.killed = FALSE]
              /\ UNCHANGED signals
           \/ /\ mailbox[k].tag = "terminate_end"
              /\ wait' = [wait EXCEPT !.killed = TRUE]
              /\ signals' = signals \cup Kill(p)
  BY Zenon DEF WaitTerminated, Receives
<1> DEFINE x == mailbox[k]
<1>3. /\ mailbox \in Seq(In(mailbox)) /\ Shape(wait) /\ Ended
      /\ \A m \in In(mailbox) : MessageOK(m)
  BY Parts, Zenon
<1>4. k \in 1..Len(mailbox) /\ x \in In(mailbox)
  <2>1. DOMAIN mailbox = 1..Len(mailbox)
    BY <1>3
  <2> QED BY <2>1, Zenon DEF In
<1>5. /\ mailbox' \in Seq(In(mailbox')) /\ In(mailbox') \subseteq In(mailbox)
      /\ \A m \in In(mailbox) : m = x \/ m \in In(mailbox')
      /\ Fewer(mailbox, mailbox')
  <2>1. /\ RemoveAt(mailbox, k) \in Seq(In(RemoveAt(mailbox, k)))
        /\ In(RemoveAt(mailbox, k)) \subseteq In(mailbox)
        /\ \A m \in In(mailbox) : m = x \/ m \in In(RemoveAt(mailbox, k))
        /\ Fewer(mailbox, RemoveAt(mailbox, k))
    BY <1>3, <1>4, Removed, Zenon
  <2> QED BY <1>2, <2>1, Zenon
<1>6. wait.pids \in Seq(Nat)
  BY <1>1, <1>3 DEF Shape
<1>7. /\ p \in In(wait.pids) /\ In(Tail(wait.pids)) \subseteq In(wait.pids)
      /\ \A y \in In(wait.pids) : y = p \/ y \in In(Tail(wait.pids))
  <2>1. PICK q : q = wait.pids
    BY Zenon
  <2>2. q \in Seq(In(q)) /\ q # <<>>
    BY <2>1, <1>1, <1>6, InSet, Zenon
  <2>3. /\ Head(q) \in In(q) /\ In(Tail(q)) \subseteq In(q)
        /\ \A y \in In(q) : y = Head(q) \/ y \in In(Tail(q))
    BY <2>2, Taken, Zenon
  <2> QED BY <2>1, <2>3, Zenon
<1>8. Known(p) = {}
  BY <1>1, <1>3, <1>7, Zenon DEF Ended
<1> HIDE DEF p, x
<1>9. /\ \A a \in alive' : ProcessOK(a) /\ \E b \in alive : Same(a, b)
      /\ \A a, b \in alive' : a.pid = b.pid => a = b
      /\ \A y : Alive(y)' <=> Alive(y)
      /\ \A a \in alive' : Alive(a.pid)
  BY <1>1, Unmoved, Zenon
<1>10. x.pid = p /\ signals \subseteq signals'
       /\ (x.tag = "terminate_end" => signals' = signals \cup Kill(p))
       /\ \A y \in signals' : y \in signals \/ Alive(y.pid)
  <2>1. x.pid = p
    BY <1>2 DEF TerminateEnd, x
  <2>2. \A y \in Kill(p) : Alive(y.pid)
    <3>1. ASSUME NEW y \in Kill(p) PROVE Alive(y.pid)
      <4>1. Alive(p) /\ y = [pid |-> p, reason |-> "killed"]
        BY <3>1, Zenon DEF Kill
      <4>2. y.pid = p
        BY <4>1
      <4> QED BY <4>1, <4>2, Zenon
    <3> QED BY <3>1, Zenon
  <2>3. x.tag = "terminate_end" => signals' = signals \cup Kill(p)
    BY <1>2 DEF x
  <2>4. signals' = signals \/ signals' = signals \cup Kill(p)
    BY <1>2
  <2> QED BY <2>1, <2>2, <2>3, <2>4, Zenon
<1>11. /\ Shape(wait') /\ wait'.kind = wait.kind /\ wait'.id = wait.id
       /\ Holds(wait) => wait'.service = wait.service
       /\ In(wait'.pids) \subseteq In(wait.pids)
       /\ \A y \in In(wait.pids) : Alive(y) => y \in In(wait'.pids)
  <2>1. CASE /\ x.tag = "DOWN"
             /\ wait' = [wait EXCEPT !.pids = Tail(@), !.killed = FALSE]
    <3>1. /\ Shape(wait') /\ wait'.kind = wait.kind /\ wait'.id = wait.id
          /\ Holds(wait) => wait'.service = wait.service
          /\ wait'.pids = Tail(wait.pids)
      BY <2>1, <1>1, <1>3, WaitMoves, Zenon
    <3>2. ~Alive(p)
      <4>1. MessageOK(x)
        BY <1>3, <1>4, Zenon DEF x
      <4> QED BY <2>1, <4>1, <1>10 DEF MessageOK
    <3> QED BY <3>1, <3>2, <1>7, Zenon
  <2>2. CASE wait' = [wait EXCEPT !.killed = TRUE]
    <3>1. /\ Shape(wait') /\ wait'.kind = wait.kind /\ wait'.id = wait.id
          /\ Holds(wait) => wait'.service = wait.service
          /\ wait'.pids = wait.pids
      BY <2>2, <1>1, <1>3, WaitKills, Zenon
    <3> QED BY <3>1, Zenon
  <2> QED BY <2>1, <2>2, <1>2, Zenon DEF x
<1>12. \A y : Known(y)' = Known(y)
  BY <1>1, Zenon DEF Known
<1>13. (Shape(wait) /\ Ended /\ Begun)'
  <2>1. Shape(wait)'
    BY <1>11, Zenon DEF Shape
  <2>2. Ended'
    BY <1>3, <1>11, <1>12, Zenon DEF Ended
  <2>3. Begun'
    BY <1>1, <1>11 DEF Begun
  <2> QED BY <2>1, <2>2, <2>3, Zenon
<1>14. NoOrphans'
  <2>1. ASSUME NEW a \in alive', Doomed(mailbox, timers, signals, a.pid)
        PROVE  Doomed(mailbox', timers', signals', a.pid)
    <3>1. CASE x = TerminateEnd(a.pid)
      <4>1. x.tag = "terminate_end" /\ x.pid = a.pid
        BY <3>1 DEF TerminateEnd
      <4>2. Killing(a.pid) \in Kill(a.pid)
        BY <1>9, Zenon DEF Kill, Killing
      <4>3. Killing(a.pid) \in signals'
        BY <4>1, <4>2, <1>10, Zenon
      <4> QED BY <4>3, Zenon DEF Doomed
    <3>2. CASE x # TerminateEnd(a.pid)
      BY <2>1, <3>2, <1>1, <1>5, <1>10, Zenon DEF Doomed
    <3> QED BY <3>1, <3>2, Zenon
  <2>2. \A a \in alive' : Known(a.pid) # {} => Known(a.pid)' # {}
    BY <1>12, Zenon
  <2>3. Starting \subseteq Starting'
    BY <1>1 DEF Starting
  <2> QED BY <1>5, <1>9, <2>1, <2>2, <2>3, OrphansKept, Zenon
<1>15. KnownAlive'
  <2>1. ASSUME NEW e \in services', NEW m \in In(mailbox),
               m.tag = "DOWN" /\ m.pid = e.pid
        PROVE  m \in In(mailbox')
    <3>1. e \in Known(e.pid)
      BY <1>1, Zenon DEF Known
    <3>2. m # x
      BY <2>1, <3>1, <1>8, <1>10, Zenon
    <3> QED BY <3>2, <1>5, Zenon
  <2>2. \A e \in services' : Alive(e.pid) => Alive(e.pid)'
    BY <1>9, Zenon
  <2>3. services' \subseteq services
    BY <1>1, Zenon
  <2> QED BY <1>5, <2>1, <2>2, <2>3, KnownKept, Zenon
<1>16. Holds(wait') =>
              /\ Holds(wait) /\ wait'.id = wait.id
              /\ wait'.service = wait.service
              /\ \A s, i : Blocked(wait', s, i) =>
                    /\ Live(alive, s, i) \subseteq Covered(wait) =>
                          Live(alive', s, i) \subseteq Covered(wait')
  <2> SUFFICES ASSUME Holds(wait')
               PROVE  /\ Holds(wait) /\ wait'.id = wait.id
                      /\ wait'.service = wait.service
                      /\ \A s, i : Live(alive, s, i) \subseteq Covered(wait)
                            => Live(alive', s, i) \subseteq Covered(wait')
    BY Zenon
  <2>1. Holds(wait)
    BY <1>11, Zenon DEF Holds
  <2>2. Covered(wait) = In(wait.pids) /\ Covered(wait') = In(wait'.pids)
    BY <1>1, <1>11 DEF Covered
  <2>3. \A s, i : \A y \in Live(alive, s, i) : Alive(y)
    BY Zenon DEF Live, Alive
  <2>4. alive' = alive
    BY <1>1, Zenon
  <2> QED BY <2>1, <2>2, <2>3, <2>4, <1>11, Zenon
<1>17. calls' \in Nat /\ configured' \subseteq configured
       /\ services' \subseteq services
       /\ UNCHANGED <<options, now, restarts, next_pid>>
  <2>1. calls \in Nat
    BY Parts, Zenon DEF Rest
  <2> QED BY <2>1, <1>1, Zenon
<1>18. /\ \A m \in timers' : m \in timers \/ Plain(m)
       /\ \A m \in In(mailbox') \cup timers' :
            \/ m \in In(mailbox) \cup timers
            \/ Plain(m)
            \/ m.tag = "DOWN" /\ m.pid \in 1..next_pid - 1 /\ ~Alive(m.pid)'
  BY <1>1, <1>5, Zenon
<1> QED BY <1>5, <1>9, <1>10, <1>13, <1>14, <1>15, <1>16, <1>17, <1>18,
           Quiet, Zenon

(* The blocked handler takes the start of the process it waits for out of  *)
(* its turn.                                                               *)
LEMMA StepWaitInitialized ==
    ASSUME Inv, WaitInitialized
    PROVE  Inv'
<1> DEFINE p == Head(wait.pids)
<1>1. /\ wait.kind = "init" /\ wait.pids # <<>>
      /\ UNCHANGED <<alive, signals, next_pid, services, timers, options,
                     configured, now, restarts, calls>>
  BY Zenon DEF WaitInitialized, proc_vars
<1>2. PICK k \in DOMAIN mailbox :
        /\ mailbox[k].tag \in {"DOWN", "init_end"} /\ mailbox[k].pid = p
        /\ mailbox' = Again(mailbox[k], RemoveAt(mailbox, k))
        /\ wait' = [wait EXCEPT !.pids = Tail(@)]
  BY Zenon DEF WaitInitialized, Receives
<1> DEFINE x == mailbox[k]
           r == RemoveAt(mailbox, k)
<1>3. mailbox \in Seq(In(mailbox)) /\ Shape(wait) /\ Begun
  BY Parts, Zenon
<1>4. k \in 1..Len(mailbox) /\ x \in In(mailbox)
  <2>1. DOMAIN mailbox = 1..Len(mailbox)
    BY <1>3
  <2> QED BY <2>1, Zenon DEF In
<1>5. /\ r \in Seq(In(r)) /\ In(r) \subseteq In(mailbox)
      /\ \A m \in In(mailbox) : m = x \/ m \in In(r)
      /\ Fewer(mailbox, r)
  BY <1>3, <1>4, Removed, Zenon
<1> HIDE DEF p, x, r
<1>6. /\ Append(r, x) \in Seq(In(Append(r, x)))
      /\ In(Append(r, x)) = In(r) \cup {x}
      /\ Fewer(mailbox, Append(r, x))
  <2>1. /\ Append(r, x) \in Seq(In(Append(r, x)))
        /\ In(Append(r, x)) = In(r) \cup {x}
        /\ \A s, i : ~ToStart(x, s, i) =>
              Mailed(Append(r, x), s, i) = Mailed(r, s, i)
    BY <1>5, Sent
  <2>2. \A s, i : ~ToStart(x, s, i)
    BY <1>2 DEF ToStart, Stages, x
  <2>3. \A s, i : Mailed(Append(r, x), s, i) = Mailed(r, s, i)
    BY <2>1, <2>2, Zenon
  <2>4. Fewer(mailbox, Append(r, x))
    BY <2>3, <1>5 DEF Fewer
  <2> QED BY <2>1, <2>4, Zenon
<1>7. \/ mailbox' = Append(r, x)
      \/ mailbox' = r /\ x.tag = "init_end"
  BY <1>2 DEF Again, x, r
<1>8. /\ mailbox' \in Seq(In(mailbox')) /\ In(mailbox') \subseteq In(mailbox)
      /\ Fewer(mailbox, mailbox')
  BY <1>4, <1>5, <1>6, <1>7, Zenon DEF x
<1>9. \A m \in In(mailbox) : m.tag # "init_end" => m \in In(mailbox')
  BY <1>5, <1>6, <1>7, Zenon
<1>10. \A y : DownDue(y) => DownDue(y)'
  <2>1. ASSUME NEW y, DownDue(y) PROVE DownDue(y)'
    <3>1. PICK m \in In(mailbox) : m.tag = "DOWN" /\ m.pid = y
      BY <2>1, <1>3, Posted, Zenon
    <3>2. m \in In(mailbox')
      BY <3>1, <1>9
    <3> QED BY <3>1, <3>2, <1>8, PostedNext, Zenon
  <2> QED BY <2>1, Zenon
<1>11. /\ Shape(wait') /\ wait'.kind = wait.kind /\ wait'.id = wait.id
       /\ wait'.service = wait.service
  BY <1>1, <1>2, <1>3, WaitInits, Zenon
<1>12. /\ \A a \in alive' : ProcessOK(a) /\ \E b \in alive : Same(a, b)
       /\ \A a, b \in alive' : a.pid = b.pid => a = b
       /\ \A y : Alive(y)' <=> Alive(y)
       /\ \A a \in alive' : Alive(a.pid)
  BY <1>1, Unmoved, Zenon
<1>13. \A y : Known(y)' = Known(y)
  BY <1>1, Zenon DEF Known
<1>14. (Shape(wait) /\ Ended /\ Begun)'
  <2>1. Shape(wait)'
    BY <1>11, Zenon DEF Shape
  <2>2. Ended'
    BY <1>1, <1>11 DEF Ended
  <2>3. Begun'
    BY <1>1, <1>3, <1>10, <1>11, <1>12, <1>13, Zenon DEF Begun
  <2> QED BY <2>1, <2>2, <2>3, Zenon
<1>15. NoOrphans'
  <2>1. ASSUME NEW a \in alive', Doomed(mailbox, timers, signals, a.pid)
        PROVE  Doomed(mailbox', timers', signals', a.pid)
    <3>1. TerminateEnd(a.pid).tag # "init_end"
      BY DEF TerminateEnd
    <3> QED BY <2>1, <3>1, <1>1, <1>9, Zenon DEF Doomed
  <2>2. \A a \in alive' : Known(a.pid) # {} => Known(a.pid)' # {}
    BY <1>13, Zenon
  <2>3. Starting \subseteq Starting'
    BY <1>11, Zenon DEF Starting
  <2> QED BY <1>8, <1>12, <2>1, <2>2, <2>3, OrphansKept, Zenon
<1>16. KnownAlive'
  <2>1. KnownAlive
    BY Parts, Zenon
  <2> QED BY <2>1, <1>1, <1>10, <1>12, Zenon DEF KnownAlive
<1>17. Holds(wait') =>
              /\ Holds(wait) /\ wait'.id = wait.id
              /\ wait'.service = wait.service
              /\ \A s, i : Blocked(wait', s, i) =>
                    /\ Live(alive, s, i) \subseteq Covered(wait) =>
                          Live(alive', s, i) \subseteq Covered(wait')
  <2>1. Holds(wait)
    BY <1>1 DEF Holds
  <2>2. Covered(wait') = Covered(wait)
    BY <1>1, <1>11, Zenon DEF Covered
  <2>3. alive' = alive
    BY <1>1, Zenon
  <2> QED BY <2>1, <2>2, <2>3, <1>11, Zenon
<1>18. calls' \in Nat /\ configured' \subseteq configured
       /\ services' \subseteq services
       /\ (\A y \in signals' : y \in signals \/ Alive(y.pid))
       /\ UNCHANGED <<options, now, restarts, next_pid>>
  <2>1. calls \in Nat
    BY Parts, Zenon DEF Rest
  <2> QED BY <2>1, <1>1, Zenon
<1>19. /\ \A m \in timers' : m \in timers \/ Plain(m)
       /\ \A m \in In(mailbox') \cup timers' :
            \/ m \in In(mailbox) \cup timers
            \/ Plain(m)
            \/ m.tag = "DOWN" /\ m.pid \in 1..next_pid - 1 /\ ~Alive(m.pid)'
  BY <1>1, <1>8, Zenon
<1> QED BY <1>8, <1>12, <1>14, <1>15, <1>16, <1>17, <1>18, <1>19,
           Quiet, Zenon

(* A restarted group is initialized: it goes from the hands of the blocked *)
(* monitor into the table.                                                 *)
LEMMA StepRestartDone ==
    ASSUME Inv, RestartDone
    PROVE  Inv'
<1> DEFINE New(p) == [id |-> wait.id, pid |-> p, service |-> wait.service]
<1>1. /\ wait.kind = "init" /\ wait' = NoWait
      /\ services' = services \cup
            {New(p) : p \in ToSet(wait.service.pids)}
      /\ UNCHANGED <<alive, signals, next_pid, mailbox, timers, options,
                     configured, now, restarts, calls>>
  BY Zenon DEF RestartDone, proc_vars
<1>2. Shape(wait) /\ Begun /\ wait \in Holders(mailbox, timers, wait, services)
  BY <1>1, Parts, Zenon DEF Holders
<1>3. wait.id \in Services /\ HolderOK(wait)
      /\ RecordOK(wait.id, wait.service)
      /\ Remembers(wait.service, restarts[wait.id][wait.service.index])
  BY <1>2, Parts, Zenon DEF HolderOK
<1> DEFINE ps == In(wait.service.pids)
<1>4. ToSet(wait.service.pids) = ps
  <2>1. wait.service.pids \in Seq(1..MaxPids)
    BY <1>3 DEF RecordOK
  <2> QED BY <2>1, InSet, Zenon
<1>5. \A p : /\ New(p).id = wait.id /\ New(p).pid = p
             /\ New(p).service = wait.service
  OBVIOUS
<1> HIDE DEF New, ps
<1>6. /\ \A e \in services' : e \in services \/ \E p \in ps : e = New(p)
      /\ \A p \in ps : New(p) \in services'
      /\ services \subseteq services'
  BY <1>1, <1>4, Zenon
<1>7. \A p \in ps : /\ p \in 1..next_pid - 1 /\ Known(p) = {}
                    /\ Alive(p) \/ DownDue(p)
  BY <1>1, <1>2, Zenon DEF Begun, ps
<1>8. /\ \A a \in alive' : ProcessOK(a) /\ \E b \in alive : Same(a, b)
      /\ \A a, b \in alive' : a.pid = b.pid => a = b
      /\ \A y : Alive(y)' <=> Alive(y)
      /\ \A a \in alive' : Alive(a.pid)
  BY <1>1, Unmoved, Zenon
<1>9. (Shape(wait) /\ Ended /\ Begun)' /\ ~Holds(wait')
  BY <1>1, Idle, Zenon
<1>10. mailbox \in Seq(In(mailbox)) /\ mailbox' = mailbox
       /\ mailbox' \in Seq(In(mailbox'))
  BY <1>1, Parts, Zenon
<1>11. (Histories /\ Mail /\ Living /\ Rest)'
  <2>1. \A m \in In(mailbox') \cup timers' :
            \/ m \in In(mailbox) \cup timers
            \/ Plain(m)
            \/ m.tag = "DOWN" /\ m.pid \in 1..next_pid - 1 /\ ~Alive(m.pid)'
    BY <1>1, Zenon
  <2>2. calls' \in Nat /\ configured' \subseteq configured
        /\ (\A y \in signals' : y \in signals \/ Alive(y.pid))
        /\ UNCHANGED <<options, now, restarts, next_pid>>
    <3>1. calls \in Nat
      BY Parts, Zenon DEF Rest
    <3> QED BY <3>1, <1>1, Zenon
  <2> QED BY <2>1, <2>2, <1>8, <1>10, QuietBase, Zenon
<1>12. NoOrphans'
  <2> SUFFICES ASSUME NEW a \in alive'
               PROVE  Known(a.pid)' # {} \/ MustEnd(a.pid)'
    BY Zenon DEF NoOrphans
  <2>1. a \in alive
    BY <1>1, Zenon
  <2>2. Known(a.pid) # {} \/ a.pid \in Starting \/ MustEnd(a.pid)
    BY <2>1, Parts, Zenon DEF NoOrphans
  <2>3. MustEnd(a.pid) => MustEnd(a.pid)'
    BY <1>1, Zenon DEF MustEnd, InMailbox, TerminateEnd
  <2>4. Known(a.pid) # {} => Known(a.pid)' # {}
    BY <1>6, Zenon DEF Known
  <2>5. a.pid \in Starting => Known(a.pid)' # {}
    <3>1. a.pid \in Starting => a.pid \in ps
      BY <1>1, <1>4, Zenon DEF Starting
    <3>2. a.pid \in ps => New(a.pid) \in services' /\ New(a.pid).pid = a.pid
      BY <1>5, <1>6, Zenon
    <3> QED BY <3>1, <3>2, Zenon DEF Known
  <2> QED BY <2>2, <2>3, <2>4, <2>5, Zenon
<1>13. KnownAlive'
  <2> SUFFICES ASSUME NEW e \in services'
               PROVE  (Alive(e.pid) \/ DownDue(e.pid))'
    BY Zenon DEF KnownAlive
  <2>1. Alive(e.pid) \/ DownDue(e.pid)
    <3>1. CASE e \in services
      BY <3>1, Parts, Zenon DEF KnownAlive
    <3>2. CASE \E p \in ps : e = New(p)
      BY <3>2, <1>5, <1>7, Zenon
    <3> QED BY <3>1, <3>2, <1>6, Zenon
  <2>2. DownDue(e.pid) => DownDue(e.pid)'
    BY <1>1, Zenon DEF DownDue
  <2> QED BY <2>1, <2>2, <1>8, Zenon
<1>14. Table'
  <2>1. \A e \in services' :
              /\ e.id \in Services /\ e.pid \in In(e.service.pids)
              /\ e.pid \in 1..next_pid - 1
    <3> SUFFICES ASSUME NEW e \in services'
                 PROVE  /\ e.id \in Services /\ e.pid \in In(e.service.pids)
                        /\ e.pid \in 1..next_pid - 1
      BY Zenon
    <3>1. CASE e \in services
      BY <3>1, Parts, Zenon
    <3>2. CASE \E p \in ps : e = New(p)
      BY <3>2, <1>3, <1>5, <1>7, Zenon DEF ps
    <3> QED BY <3>1, <3>2, <1>6, Zenon
  <2>2. \A e, f \in services' : e.pid = f.pid => e = f
    <3>1. \A e, f \in services : e.pid = f.pid => e = f
      BY Parts, Zenon
    <3>2. \A e \in services : e.pid \notin ps
      BY <1>7, Zenon DEF Known
    <3>3. ASSUME NEW e \in services', NEW f \in services', e.pid = f.pid,
                 e \notin services
          PROVE  e = f
      <4>1. PICK p \in ps : e = New(p)
        BY <3>3, <1>6, Zenon
      <4>2. e.pid = p
        BY <4>1, <1>5, Zenon
      <4>3. f \notin services
        BY <3>2, <3>3, <4>2, Zenon
      <4>4. PICK o \in ps : f = New(o)
        BY <4>3, <1>6, Zenon
      <4>5. f.pid = o
        BY <4>4, <1>5, Zenon
      <4> QED BY <3>3, <4>1, <4>2, <4>4, <4>5, Zenon
    <3> QED BY <3>1, <3>3, Zenon
  <2>3. next_pid' = next_pid
    BY <1>1, Zenon
  <2> QED BY <2>1, <2>2, <2>3, <1>12, <1>13, Zenon DEF Table
<1>15. Recorded'
  <2> SUFFICES ASSUME NEW h \in Holders(mailbox', timers', wait', services')
               PROVE  HolderOK(h)'
    BY Zenon DEF Recorded
  <2>1. HolderOK(h)
    <3>1. CASE h \in Holders(mailbox, timers, wait, services)
      BY <3>1, Parts, Zenon
    <3>2. CASE \E p \in ps : h = New(p)
      BY <3>2, <1>3, <1>5, Zenon DEF HolderOK
    <3> QED BY <3>1, <3>2, <1>1, <1>6, <1>9, Zenon DEF Holders, Holds
  <2>2. options' = options /\ now' = now /\ restarts' = restarts
    BY <1>1, Zenon
  <2> QED BY <2>1, <2>2, HolderKept, Zenon
<1>16. Hands(alive, mailbox, timers, wait', services')
  <2> SUFFICES ASSUME NEW s \in Services, NEW i \in Indices(s)
               PROVE  Fits(Live(alive, s, i), Mailed(mailbox, s, i),
                           Timed(timers, s, i), Blocked(wait', s, i),
                           Covered(wait'), Listed(services', s, i))
    BY Zenon DEF Hands
  <2> DEFINE L == Live(alive, s, i)
             M == Mailed(mailbox, s, i)
             T == Timed(timers, s, i)
             B == Blocked(wait, s, i)
             C == Covered(wait)
             E == Listed(services, s, i)
             B2 == Blocked(wait', s, i)
             C2 == Covered(wait')
             E2 == Listed(services', s, i)
  <2>1. Fits(L, M, T, B, C, E)
    BY Parts, Zenon DEF Hands
  <2>2. ~B2
    BY <1>9, Zenon DEF Blocked, Holds
  <2>3. CASE B
    <3>1. M = {} /\ T = {} /\ E = {} /\ L \subseteq C
      BY <2>1, <2>3, Zenon DEF Fits
    <3>2. C = ps
      BY <1>1, Zenon DEF Covered, ps
    <3>3. \A e \in E2 : e.service = wait.service
      BY <3>1, <1>5, <1>6, Zenon DEF Listed
    <3> HIDE DEF L, M, T, B2, C2, E2, C
    <3>4. \A e \in E2 : L \subseteq In(e.service.pids)
      BY <3>1, <3>2, <3>3, Zenon DEF ps
    <3>5. Fits(L, M, T, B2, C2, E2)
      BY <2>2, <3>1, <3>3, <3>4, Zenon DEF Fits, Single
    <3> QED BY <3>5, Zenon DEF L, M, T, B2, C2, E2
  <2>4. CASE ~B
    <3>1. ~(s = wait.id /\ i = wait.service.index)
      BY <2>4, <1>1, Zenon DEF Blocked
    <3>2. E2 \subseteq E
      BY <3>1, <1>5, <1>6, Zenon DEF Listed
    <3> HIDE DEF L, M, T, B, C, E, B2, C2, E2
    <3>3. Fits(L, M, T, B2, C2, E2)
      BY <2>1, <2>2, <3>2, FitsLess
    <3> QED BY <3>3, Zenon DEF L, M, T, B2, C2, E2
  <2> QED BY <2>3, <2>4, Zenon
<1>17. InOneHand'
  <2>1. \A s : Indices(s)' = Indices(s)
    BY <1>1 DEF Indices
  <2>2. alive' = alive /\ mailbox' = mailbox /\ timers' = timers
    BY <1>1, Zenon
  <2> QED BY <1>16, <2>1, <2>2, Zenon DEF InOneHand, Hands
<1> QED BY <1>9, <1>11, <1>14, <1>15, <1>17, Zenon DEF Inv

-----------------------------------------------------------------------------
(* The restarts that count                                                 *)

(* SetToSeq lists every element of a finite set once.                      *)
LEMMA Enumerates ==
    ASSUME NEW S, IsFiniteSet(S)
    PROVE  /\ Cardinality(S) \in Nat
           /\ SetToSeq(S) \in [1..Cardinality(S) -> S]
           /\ \A x \in S : \E j \in 1..Cardinality(S) : SetToSeq(S)[j] = x
           /\ \A j, k \in 1..Cardinality(S) :
                 SetToSeq(S)[j] = SetToSeq(S)[k] => j = k
<1> DEFINE n == Cardinality(S)
<1>1. n \in Nat /\ ExistsBijection(1..n, S)
  BY FS_CardinalityType
<1>2. PICK b \in Bijection(1..n, S) : TRUE
  BY <1>1, Zenon DEF ExistsBijection
<1>3. b \in [1..n -> S] /\ IsInjective(b)
  BY <1>2, Zenon DEF Bijection, Injection
<1>4. SetToSeq(S) = CHOOSE f \in [1..n -> S] : IsInjective(f)
  BY Zenon DEF SetToSeq
<1>5. PICK f : f = SetToSeq(S)
  BY Zenon
<1>6. f \in [1..n -> S] /\ IsInjective(f)
  BY <1>3, <1>4, <1>5, Zenon
<1>7. f \in Injection(1..n, S)
  BY <1>6, Zenon DEF Injection
<1>8. IsFiniteSet(1..n) /\ Cardinality(1..n) = n
  <2>1. 1 \in Int /\ n \in Int
    BY <1>1
  <2> QED BY <1>1, <2>1, FS_Interval
<1>9. f \in Surjection(1..n, S)
  BY <1>7, <1>8, FS_Injection, Zenon
<1>10. \A x \in S : \E j \in 1..n : f[j] = x
  BY <1>9, Zenon DEF Surjection
<1>11. \A j, k \in 1..n : f[j] = f[k] => j = k
  <2>1. DOMAIN f = 1..n
    BY <1>6
  <2> QED BY <1>6, <2>1, Zenon DEF IsInjective
<1> QED BY <1>1, <1>5, <1>6, <1>10, <1>11, Zenon

(* seconds_filter_monotonic keeps each time that still counts, in a place  *)
(* of its own.                                                             *)
LEMMA Filters ==
    ASSUME NEW T, NEW times \in Seq(T)
    PROVE  /\ Filter(times) \in Seq(T)
           /\ Len(Filter(times)) <= Len(times)
           /\ \E c \in [Recent(times) -> 1..Len(Filter(times))] :
                 /\ \A j, k \in Recent(times) : c[j] = c[k] => j = k
                 /\ \A k \in Recent(times) :
                       Filter(times)[c[k]] = times[k]
<1> DEFINE R == Recent(times)
           n == Cardinality(R)
           f == SetToSeq(R)
           t == Filter(times)
<1>1. R \in SUBSET (1..Len(times)) /\ Len(times) \in Nat
  <2>1. DOMAIN times = 1..Len(times) /\ Len(times) \in Nat
    OBVIOUS
  <2> QED BY <2>1, Zenon DEF Recent
<1>2. IsFiniteSet(R) /\ n <= Len(times)
  <2>1. IsFiniteSet(1..Len(times)) /\ Cardinality(1..Len(times)) = Len(times)
    <3>1. 1 \in Int /\ Len(times) \in Int
      BY <1>1
    <3>2. \A a, b \in Int : /\ IsFiniteSet(a..b)
                           /\ Cardinality(a..b) = IF a > b THEN 0 ELSE b-a+1
      BY FS_Interval, Zenon
    <3>3. /\ IsFiniteSet(1..Len(times))
          /\ Cardinality(1..Len(times)) =
                IF 1 > Len(times) THEN 0 ELSE Len(times)-1+1
      BY <3>1, <3>2, Zenon
    <3>4. (IF 1 > Len(times) THEN 0 ELSE Len(times)-1+1) = Len(times)
      BY <1>1
    <3>5. PICK c : c = Cardinality(1..Len(times))
      BY Zenon
    <3>6. c = IF 1 > Len(times) THEN 0 ELSE Len(times)-1+1
      BY <3>3, <3>5, Zenon
    <3>7. c = Len(times)
      BY <3>4, <3>6, <1>1
    <3> QED BY <3>3, <3>5, <3>7, Zenon
  <2>2. IsFiniteSet(R) /\ n <= Cardinality(1..Len(times))
    BY <1>1, <2>1, FS_Subset, Zenon
  <2> QED BY <2>1, <2>2, Zenon
<1>3. /\ n \in Nat /\ f \in [1..n -> R]
      /\ \A x \in R : \E j \in 1..n : f[j] = x
      /\ \A j, k \in 1..n : f[j] = f[k] => j = k
  BY <1>2, Enumerates, Zenon
<1>4. t = [j \in 1..n |-> times[f[j]]]
  BY Zenon DEF Filter, Keep
<1> HIDE DEF R, n, f, t
<1>5. t \in Seq(T) /\ Len(t) = n
  <2>1. \A j \in 1..n : times[f[j]] \in T
    <3> TAKE j \in 1..n
    <3>1. f[j] \in 1..Len(times)
      BY <1>1, <1>3, Zenon
    <3> QED BY <3>1
  <2>2. t \in [1..n -> T]
    BY <2>1, <1>4
  <2> QED BY <2>2, <1>3
<1> DEFINE c == [k \in R |-> CHOOSE j \in 1..n : f[j] = k]
<1>6. \A k \in R : c[k] \in 1..n /\ f[c[k]] = k
  BY <1>3, Zenon
<1>7. c \in [R -> 1..n]
  BY <1>6, Zenon
<1> HIDE DEF c
<1>8. \A j, k \in R : c[j] = c[k] => j = k
  BY <1>6, Zenon
<1>9. \A k \in R : t[c[k]] = times[k]
  BY <1>4, <1>6
<1>10. \E d \in [R -> 1..n] :
                 /\ \A j, k \in R : d[j] = d[k] => j = k
                 /\ \A k \in R : t[d[k]] = times[k]
  BY <1>7, <1>8, <1>9, Zenon
<1> QED BY <1>2, <1>5, <1>10, Zenon DEF R, t

(* A filtered service record still remembers the restarts that count.      *)
LEMMA FilterRemembers ==
    ASSUME NEW s, NEW rec, RecordOK(s, rec), options[s].max_r \in Nat,
           NEW r, r = Filtered(rec)
    PROVE  /\ RecordOK(s, r) /\ r.index = rec.index /\ r.pids = rec.pids
           /\ r.restart_count <= rec.restart_count
           /\ \A times : Remembers(rec, times) => Remembers(r, times)
<1> DEFINE t == rec.restart_times
           f == Filter(t)
<1>1. /\ rec \in [index : Indices(s), pids : Seq(1..MaxPids),
                  restart_count : 0..options[s].max_r,
                  restart_times : Seq(0..MaxTime)]
      /\ rec.restart_count = Len(t)
  BY Zenon DEF RecordOK
<1>2. t \in Seq(0..MaxTime) /\ Len(t) \in Nat /\ DOMAIN t = 1..Len(t)
      /\ Len(t) <= options[s].max_r
  <2>1. t \in Seq(0..MaxTime) /\ rec.restart_count \in 0..options[s].max_r
    BY <1>1
  <2> QED BY <2>1, <1>1
<1>3. /\ f \in Seq(0..MaxTime) /\ Len(f) <= Len(t)
      /\ \E c \in [Recent(t) -> 1..Len(f)] :
            /\ \A j, k \in Recent(t) : c[j] = c[k] => j = k
            /\ \A k \in Recent(t) : f[c[k]] = t[k]
  <2> HIDE DEF t
  <2> QED BY <1>2, Filters, Zenon
<1> HIDE DEF f
<1>4. Len(f) \in 0..options[s].max_r
  <2>1. Len(f) \in Nat
    BY <1>3
  <2> QED BY <2>1, <1>2, <1>3
<1>5. r = [rec EXCEPT !.restart_times = f, !.restart_count = Len(f)]
  BY DEF Filtered, f
<1>6. /\ r \in [index : Indices(s), pids : Seq(1..MaxPids),
                restart_count : 0..options[s].max_r,
                restart_times : Seq(0..MaxTime)]
      /\ r.index = rec.index /\ r.pids = rec.pids
      /\ r.restart_times = f /\ r.restart_count = Len(f)
  BY <1>1, <1>3, <1>4, <1>5
<1>7. RecordOK(s, r)
  BY <1>6, Zenon DEF RecordOK
<1>8. ASSUME NEW times, Remembers(rec, times) PROVE Remembers(r, times)
  <2>1. PICK g \in [Recent(times) -> 1..Len(t)] :
              /\ \A j, k \in Recent(times) : g[j] = g[k] => j = k
              /\ \A k \in Recent(times) : t[g[k]] = times[k]
    BY <1>8, Zenon DEF Remembers
  <2>2. PICK c \in [Recent(t) -> 1..Len(f)] :
            /\ \A j, k \in Recent(t) : c[j] = c[k] => j = k
            /\ \A k \in Recent(t) : f[c[k]] = t[k]
    BY <1>3, Zenon
  <2> HIDE DEF t
  <2>3. ASSUME NEW k \in Recent(times) PROVE g[k] \in Recent(t)
    <3>1. g[k] \in DOMAIN t /\ t[g[k]] = times[k]
      BY <1>2, <2>1, Zenon
    <3>2. now - times[k] <= MaxT
      BY Zenon DEF Recent
    <3>3. now - t[g[k]] <= MaxT
      BY <3>1, <3>2, Zenon
    <3> QED BY <3>1, <3>3, Zenon DEF Recent
  <2> DEFINE d == [k \in Recent(times) |-> c[g[k]]]
  <2>4. \A k \in Recent(times) : d[k] = c[g[k]] /\ d[k] \in 1..Len(f)
    BY <2>2, <2>3, Zenon
  <2>5. d \in [Recent(times) -> 1..Len(f)]
    BY <2>4, Zenon
  <2> HIDE DEF d
  <2>6. ASSUME NEW j \in Recent(times), NEW k \in Recent(times), d[j] = d[k]
        PROVE  j = k
    <3>1. /\ g[j] \in Recent(t) /\ g[k] \in Recent(t)
          /\ c[g[j]] = c[g[k]]
      BY <2>3, <2>4, <2>6, Zenon
    <3>2. g[j] = g[k]
      BY <3>1, <2>2, Zenon
    <3> QED BY <3>2, <2>1, Zenon
  <2>7. ASSUME NEW k \in Recent(times) PROVE f[d[k]] = times[k]
    <3>1. d[k] = c[g[k]]
      BY <2>4, Zenon
    <3>2. f[c[g[k]]] = t[g[k]]
      BY <2>2, <2>3, Zenon
    <3>3. t[g[k]] = times[k]
      BY <2>1, Zenon
    <3> QED BY <3>1, <3>2, <3>3, Zenon
  <2>8. r.restart_times = f
    BY <1>6, Zenon
  <2>9. d \in [Recent(times) -> 1..Len(r.restart_times)]
    BY <2>5, <2>8, Zenon
  <2>10. ASSUME NEW k \in Recent(times)
         PROVE  r.restart_times[d[k]] = times[k]
    BY <2>7, <2>8, Zenon
  <2> SUFFICES \E e \in [Recent(times) -> 1..Len(r.restart_times)] :
              /\ \A j, k \in Recent(times) : e[j] = e[k] => j = k
              /\ \A k \in Recent(times) : r.restart_times[e[k]] = times[k]
    BY Zenon DEF Remembers
  <2> WITNESS d \in [Recent(times) -> 1..Len(r.restart_times)]
  <2> QED BY <2>6, <2>10, Zenon
<1>9. r.restart_count <= rec.restart_count
  <2>1. rec.restart_count = Len(t) /\ Len(f) <= Len(t)
    BY <1>1, <1>3, Zenon
  <2>2. Len(f) <= rec.restart_count
    <3> HIDE DEF t
    <3> QED BY <2>1, Zenon
  <2> QED BY <2>2, <1>6, Zenon
<1> QED BY <1>6, <1>7, <1>8, <1>9, Zenon

(* A restart is put in front of the restart times.                         *)
LEMMA AppendRemembers ==
    ASSUME NEW T, NEW t \in Seq(T), NEW S, NEW h \in Seq(S), now \in Nat,
           NEW rec, rec.restart_times = t, Remembers(rec, h),
           NEW r, r.restart_times = <<now>> \o t,
           NEW h2, h2 = Append(h, now)
    PROVE  Remembers(r, h2)
<1> DEFINE L == Len(h)
           t2 == <<now>> \o t
<1>1. /\ L \in Nat /\ Len(h2) = L + 1 /\ DOMAIN h2 = 1..(L + 1)
      /\ DOMAIN h = 1..L
      /\ h2[L + 1] = now /\ \A k \in 1..L : h2[k] = h[k]
  OBVIOUS
<1>2. /\ Len(t) \in Nat /\ Len(t2) = Len(t) + 1
      /\ t2[1] = now /\ \A k \in 1..Len(t) : t2[k + 1] = t[k]
  OBVIOUS
<1>3. PICK g \in [Recent(h) -> 1..Len(t)] :
              /\ \A j, k \in Recent(h) : g[j] = g[k] => j = k
              /\ \A k \in Recent(h) : t[g[k]] = h[k]
  BY Zenon DEF Remembers
<1> HIDE DEF L, t2
<1>4. ASSUME NEW k \in Recent(h2), k # L + 1
      PROVE  k \in Recent(h) /\ k \in 1..L
  <2>1. k \in 1..(L + 1) /\ now - h2[k] <= MaxT
    BY <1>1, Zenon DEF Recent
  <2>2. k \in 1..L
    BY <2>1, <1>1, <1>4
  <2>3. h2[k] = h[k] /\ k \in DOMAIN h
    BY <2>2, <1>1, Zenon
  <2>4. now - h[k] <= MaxT
    BY <2>1, <2>3, Zenon
  <2> QED BY <2>2, <2>3, <2>4, Zenon DEF Recent
<1> DEFINE d == [k \in Recent(h2) |-> IF k = L + 1 THEN 1 ELSE g[k] + 1]
<1>5. \A k \in Recent(h2) : k = L + 1 => d[k] = 1
  BY Zenon
<1>6. \A k \in Recent(h2) : k # L + 1 => d[k] = g[k] + 1
  BY Zenon
<1> HIDE DEF d
<1>7. ASSUME NEW k \in Recent(h2), k # L + 1
      PROVE  g[k] \in 1..Len(t) /\ d[k] = g[k] + 1 /\ d[k] # 1
  <2>1. g[k] \in 1..Len(t)
    BY <1>3, <1>4, <1>7, Zenon
  <2>2. d[k] = g[k] + 1
    BY <1>6, <1>7, Zenon
  <2>3. g[k] + 1 # 1
    BY <2>1, <1>2
  <2> QED BY <2>1, <2>2, <2>3, Zenon
<1>8. ASSUME NEW k \in Recent(h2) PROVE d[k] \in 1..Len(t2)
  <2>1. CASE k = L + 1
    BY <2>1, <1>2, <1>5
  <2>2. CASE k # L + 1
    <3>1. g[k] \in 1..Len(t) /\ d[k] = g[k] + 1
      BY <2>2, <1>7, Zenon
    <3> QED BY <3>1, <1>2
  <2> QED BY <2>1, <2>2
<1>9. d \in [Recent(h2) -> 1..Len(t2)]
  BY <1>8, Zenon DEF d
<1>10. ASSUME NEW j \in Recent(h2), NEW k \in Recent(h2), d[j] = d[k]
       PROVE  j = k
  <2>1. CASE j = L + 1 /\ k = L + 1
    BY <2>1, Zenon
  <2>2. CASE j # L + 1 /\ k # L + 1
    <3>1. /\ g[j] \in 1..Len(t) /\ g[k] \in 1..Len(t)
          /\ g[j] + 1 = g[k] + 1
      BY <2>2, <1>7, <1>10, Zenon
    <3>2. g[j] = g[k]
      BY <3>1, <1>2
    <3> QED BY <3>2, <2>2, <1>3, <1>4, Zenon
  <2> QED BY <2>1, <2>2, <1>5, <1>7, <1>10, Zenon
<1>11. ASSUME NEW k \in Recent(h2) PROVE t2[d[k]] = h2[k]
  <2>1. CASE k = L + 1
    BY <2>1, <1>1, <1>2, <1>5, Zenon
  <2>2. CASE k # L + 1
    <3>1. /\ g[k] \in 1..Len(t) /\ d[k] = g[k] + 1
          /\ t2[g[k] + 1] = t[g[k]]
      BY <2>2, <1>2, <1>7, Zenon
    <3>2. t[g[k]] = h[k] /\ h2[k] = h[k]
      BY <2>2, <1>1, <1>3, <1>4, Zenon
    <3> QED BY <3>1, <3>2, Zenon
  <2> QED BY <2>1, <2>2, Zenon
<1>12. r.restart_times = t2
  BY Zenon DEF t2
<1>13. d \in [Recent(h2) -> 1..Len(r.restart_times)]
  BY <1>9, <1>12, Zenon
<1>14. \A k \in Recent(h2) : r.restart_times[d[k]] = h2[k]
  BY <1>11, <1>12, Zenon
<1> QED BY <1>10, <1>13, <1>14, Zenon DEF Remembers

(* A restart that restart_times has room for is not one too many: of the   *)
(* restarts before it, fewer than max_r still count.                       *)
LEMMA Bound ==
    ASSUME now \in Nat, MaxT \in Nat, NEW r \in Nat, NEW h, History(r, h),
           NEW rec, Remembers(rec, h),
           NEW n \in Nat, Len(rec.restart_times) = n, n < r,
           NEW h2, h2 = Append(h, now)
    PROVE  History(r, h2)
<1> DEFINE L == Len(h)
<1>1. h \in Seq(0..now) /\ now \in 0..now
  BY DEF History
<1>2. /\ L \in Nat /\ h2 \in Seq(0..now) /\ Len(h2) = L + 1
      /\ h2[L + 1] = now /\ \A k \in 1..L : h2[k] = h[k] /\ h[k] \in 0..now
      /\ DOMAIN h = 1..L
  BY <1>1
<1>3. /\ \A j, k \in 1..L : j <= k => h[j] <= h[k]
      /\ \A k \in 1..L : k + r \in 1..L => h[k + r] - h[k] > MaxT
  BY Zenon DEF History
<1> HIDE DEF L
<1>4. ASSUME NEW j \in 1..(L + 1), NEW k \in 1..(L + 1), j <= k
      PROVE  h2[j] <= h2[k]
  <2>1. CASE k \in 1..L
    <3>1. j \in 1..L
      BY <2>1, <1>2, <1>4
    <3>2. h[j] <= h[k]
      BY <3>1, <2>1, <1>3, <1>4, Zenon
    <3> QED BY <3>1, <3>2, <2>1, <1>2, Zenon
  <2>2. CASE k = L + 1 /\ j \in 1..L
    <3>1. h[j] \in 0..now /\ h2[j] = h[j] /\ h2[k] = now
      BY <2>2, <1>2, Zenon
    <3>2. h[j] <= now
      BY <3>1
    <3> QED BY <3>1, <3>2, Zenon
  <2>3. CASE k = L + 1 /\ j = L + 1
    <3>1. h2[j] = now /\ h2[k] = now
      BY <2>3, <1>2, Zenon
    <3>2. now <= now
      OBVIOUS
    <3> QED BY <3>1, <3>2, Zenon
  <2> QED BY <2>1, <2>2, <2>3, <1>2
<1>5. ASSUME NEW k \in 1..(L + 1), k + r \in 1..(L + 1)
      PROVE  h2[k + r] - h2[k] > MaxT
  <2>1. CASE k + r \in 1..L
    <3>1. k \in 1..L
      BY <2>1, <1>2
    <3>2. h[k + r] - h[k] > MaxT
      BY <3>1, <2>1, <1>3, Zenon
    <3>3. h2[k + r] = h[k + r] /\ h2[k] = h[k]
      BY <3>1, <2>1, <1>2, Zenon
    <3> QED BY <3>2, <3>3, Zenon
  <2>2. CASE k + r = L + 1
    <3>1. k \in 1..L /\ k \in Int /\ L \in Int
      BY <2>2, <1>2
    <3>2. h2[k + r] = now /\ h2[k] = h[k] /\ h[k] \in 0..now
      BY <3>1, <2>2, <1>2, Zenon
    <3>3. ASSUME now - h[k] <= MaxT PROVE FALSE
      <4>1. \A j \in k..L : j \in 1..L /\ k <= j
        BY <3>1
      <4>2. ASSUME NEW j \in k..L PROVE j \in Recent(h)
        <5>1. h[j] \in 0..now /\ h[k] <= h[j] /\ j \in DOMAIN h
          BY <4>1, <3>1, <1>2, <1>3, Zenon
        <5>2. now - h[j] <= MaxT
          BY <5>1, <3>2, <3>3
        <5> QED BY <5>1, <5>2, Zenon DEF Recent
      <4>3. PICK g \in [Recent(h) -> 1..n] :
                 \A i, j \in Recent(h) : g[i] = g[j] => i = j
        <5>1. PICK g \in [Recent(h) -> 1..Len(rec.restart_times)] :
                 \A i, j \in Recent(h) : g[i] = g[j] => i = j
          BY Zenon DEF Remembers
        <5> QED BY <5>1, Zenon
      <4> DEFINE f == [j \in k..L |-> g[j]]
      <4>4. f \in [k..L -> 1..n] /\ \A j \in k..L : f[j] = g[j]
        BY <4>2, <4>3, Zenon
      <4> HIDE DEF f
      <4>5. /\ IsFiniteSet(k..L) /\ Cardinality(k..L) = r
            /\ IsFiniteSet(1..n) /\ Cardinality(1..n) = n
        <5>1. \A a, b \in Int :
                 /\ IsFiniteSet(a..b)
                 /\ Cardinality(a..b) = IF a > b THEN 0 ELSE b-a+1
          BY FS_Interval, Zenon
        <5>2. 1 \in Int /\ n \in Int
          OBVIOUS
        <5>3. PICK c, d : c = Cardinality(k..L) /\ d = Cardinality(1..n)
          BY Zenon
        <5>4. /\ c = IF k > L THEN 0 ELSE L-k+1
              /\ d = IF 1 > n THEN 0 ELSE n-1+1
              /\ IsFiniteSet(k..L) /\ IsFiniteSet(1..n)
          BY <5>1, <5>2, <5>3, <3>1, Zenon
        <5>5. c = r /\ d = n
          BY <5>4, <3>1, <2>2
        <5> QED BY <5>3, <5>4, <5>5, Zenon
      <4>6. Cardinality(1..n) < Cardinality(k..L)
        BY <4>5, Zenon
      <4>7. \E x, y \in k..L : x # y /\ f[x] = f[y]
        <5>1. PICK D, R : D = k..L /\ R = 1..n
          BY Zenon
        <5>2. /\ IsFiniteSet(D) /\ IsFiniteSet(R)
              /\ Cardinality(R) < Cardinality(D) /\ f \in [D -> R]
          BY <5>1, <4>4, <4>5, <4>6, Zenon
        <5>3. \E x, y \in D : x # y /\ f[x] = f[y]
          BY <5>2, FS_PigeonHole, Zenon
        <5> QED BY <5>1, <5>3, Zenon
      <4> QED BY <4>2, <4>3, <4>4, <4>7, Zenon
    <3>4. now - h[k] > MaxT
      BY <3>2, <3>3
    <3> QED BY <3>2, <3>4, Zenon
  <2>3. k + r \in 1..L \/ k + r = L + 1
    <3>1. PICK x : x = k + r
      BY Zenon
    <3>2. x \in 1..(L + 1)
      BY <3>1, <1>5, Zenon
    <3>3. x \in 1..L \/ x = L + 1
      BY <3>2, <1>2
    <3> QED BY <3>1, <3>3, Zenon
  <2> QED BY <2>1, <2>2, <2>3, Zenon
<1> QED BY <1>2, <1>4, <1>5, Zenon DEF History

(* The service record that a restart leaves, and the history with it.      *)
LEMMA RestartedOK ==
    ASSUME now \in 0..MaxTime, NEW s, options[s].max_r \in Nat \ {0},
           NEW rec, RecordOK(s, rec), ~AtLimit(s, rec),
           NEW h, Remembers(rec, h), History(options[s].max_r, h),
           NEW r, r = Restarted(s, rec), NEW h2, h2 = Append(h, now)
    PROVE  /\ RecordOK(s, r) /\ r.index = rec.index
           /\ Remembers(r, h2) /\ History(options[s].max_r, h2)
<1> DEFINE max == options[s].max_r
           b == IF rec.restart_count = max THEN Filtered(rec) ELSE rec
<1>1. /\ rec \in [index : Indices(s), pids : Seq(1..MaxPids),
                  restart_count : 0..max, restart_times : Seq(0..MaxTime)]
      /\ rec.restart_count = Len(rec.restart_times)
  BY Zenon DEF RecordOK
<1>2. now \in Nat /\ MaxT \in Nat /\ max \in Nat \ {0}
  BY MonitorAssumption
<1> HIDE DEF max
<1>3. PICK f : f = Filtered(rec)
  BY Zenon
<1>4. /\ RecordOK(s, f) /\ f.index = rec.index
      /\ f.restart_count <= rec.restart_count
      /\ Remembers(f, h)
  BY <1>2, <1>3, FilterRemembers, Zenon DEF max
<1>5. RecordOK(s, b) /\ b.index = rec.index /\ Remembers(b, h)
      /\ b.restart_count < max /\ b.restart_count \in 0..max
  <2>1. CASE rec.restart_count = max
    <3>1. b = f
      BY <2>1, <1>3, Zenon
    <3>2. rec.restart_times # <<>>
      BY <2>1, <1>1, <1>2
    <3>3. f.restart_count # rec.restart_count
      BY <2>1, <3>2, <1>3, Zenon DEF AtLimit, max
    <3>4. f.restart_count \in 0..max
      BY <1>4 DEF RecordOK, max
    <3>5. f.restart_count < max
      BY <3>3, <3>4, <2>1, <1>2, <1>4
    <3> QED BY <3>1, <3>4, <3>5, <1>4, Zenon
  <2>2. CASE rec.restart_count # max
    <3>1. b = rec
      BY <2>2, Zenon
    <3>2. rec.restart_count < max /\ rec.restart_count \in 0..max
      BY <2>2, <1>1, <1>2
    <3> QED BY <3>1, <3>2, Zenon
  <2> QED BY <2>1, <2>2, Zenon
<1>6. r = [b EXCEPT !.restart_count = b.restart_count + 1,
                    !.restart_times = <<now>> \o b.restart_times]
  BY DEF Restarted, max
<1> HIDE DEF b
<1>7. /\ b \in [index : Indices(s), pids : Seq(1..MaxPids),
                restart_count : 0..max, restart_times : Seq(0..MaxTime)]
      /\ b.restart_count = Len(b.restart_times)
  BY <1>5, Zenon DEF RecordOK, max
<1>8. PICK t : t = b.restart_times
  BY Zenon
<1>9. t \in Seq(0..MaxTime)
  BY <1>7, <1>8
<1>10. <<now>> \o t \in Seq(0..MaxTime) /\ Len(<<now>> \o t) = Len(t) + 1
  BY <1>9
<1>11. /\ r \in [index : Indices(s), pids : Seq(1..MaxPids),
                 restart_count : 0..max, restart_times : Seq(0..MaxTime)]
       /\ r.index = b.index /\ r.restart_times = <<now>> \o t
       /\ r.restart_count = Len(t) + 1
  <2>1. b.restart_count + 1 \in 0..max
    BY <1>2, <1>5
  <2>2. r = [b EXCEPT !.restart_count = b.restart_count + 1,
                      !.restart_times = <<now>> \o t]
    BY <1>6, <1>8, Zenon
  <2> QED BY <2>1, <2>2, <1>7, <1>8, <1>10
<1>12. RecordOK(s, r)
  BY <1>10, <1>11, Zenon DEF RecordOK, max
<1>13. h \in Seq(0..now)
  BY Zenon DEF History
<1>14. Remembers(r, h2)
  BY <1>2, <1>5, <1>8, <1>9, <1>11, <1>13, AppendRemembers, Zenon
<1>15. History(max, h2)
  <2>1. PICK n : n = b.restart_count
    BY Zenon
  <2>2. n \in Nat /\ Len(b.restart_times) = n /\ n < max
    <3>1. n \in 0..max /\ n < max
      BY <2>1, <1>5, Zenon
    <3>2. Len(b.restart_times) = n
      BY <2>1, <1>7, Zenon
    <3> QED BY <3>1, <3>2, <1>2
  <2>3. History(max, h) /\ max \in Nat
    BY <1>2, Zenon DEF max
  <2> QED BY <2>2, <2>3, <1>2, <1>5, Bound, Zenon
<1> QED BY <1>5, <1>11, <1>12, <1>14, <1>15, Zenon DEF max

-----------------------------------------------------------------------------
(* The steps that start processes                                          *)

(* The options of a service.                                               *)
LEMMA OptionsOf ==
    ASSUME Inv, NEW s \in Services
    PROVE  /\ options[s].max_r \in Nat
           /\ options[s].count_thread \in Nat \ {0}
           /\ options[s].max_pids \in 0..MaxPids
<1>1. options \in [Services -> Scenarios]
  BY Parts, Zenon DEF Rest
<1>2. options[s] \in Options
  BY <1>1, MonitorAssumption, Zenon
<1> QED BY <1>2 DEF Options

(* The processes that cloudi_core_i_spawn starts: their pids are new, and  *)
(* they are the only ones of their index.                                  *)
New(s) == In(NewPids(s))

(* The pids of a start are not the pids of any process before it.          *)
LEMMA PidsOfStart ==
    ASSUME Inv, NEW s \in Services, NEW i, Start(s, i)
    PROVE  /\ NewPids(s) \in Seq(1..MaxPids)
           /\ ToSet(NewPids(s)) = New(s)
           /\ \A p \in New(s) :
                 p \in 1..next_pid' - 1 /\ p \notin 1..next_pid - 1
           /\ next_pid' \in 1..MaxPids + 1
           /\ \A p \in 1..next_pid - 1 : p \in 1..next_pid' - 1
<1> DEFINE n == options[s].count_thread
           q == NewPids(s)
<1>1. n \in Nat \ {0} /\ options[s].max_pids \in 0..MaxPids
  BY OptionsOf, Zenon
<1>2. next_pid \in 1..MaxPids + 1 /\ MaxPids \in Nat
  BY Parts, MonitorAssumption, Zenon
<1>3. next_pid' = next_pid + n /\ next_pid' <= options[s].max_pids + 1
  BY Zenon DEF Start
<1>4. q = [j \in 1..n |-> next_pid + j - 1]
  BY Zenon DEF NewPids
<1> HIDE DEF n, q
<1>5. next_pid' \in 1..MaxPids + 1
  BY <1>1, <1>2, <1>3
<1>6. \A j \in 1..n : /\ next_pid + j - 1 \in 1..MaxPids
                      /\ next_pid + j - 1 \in 1..next_pid' - 1
                      /\ next_pid + j - 1 \notin 1..next_pid - 1
  <2>1. PICK x, y : x = next_pid /\ y = next_pid'
    BY Zenon
  <2>2. /\ x \in Nat \ {0} /\ y = x + n /\ y <= MaxPids + 1
        /\ n \in Nat \ {0} /\ MaxPids \in Nat
    BY <2>1, <1>1, <1>2, <1>3
  <2>3. \A j \in 1..n : /\ x + j - 1 \in 1..MaxPids
                        /\ x + j - 1 \in 1..y - 1
                        /\ x + j - 1 \notin 1..x - 1
    BY <2>2
  <2> QED BY <2>1, <2>3, Zenon
<1>7. q \in [1..n -> 1..MaxPids]
  BY <1>4, <1>6
<1>8. q \in Seq(1..MaxPids) /\ Len(q) = n
  <2>1. n \in Nat
    BY <1>1
  <2>2. \A S : \A f \in [1..n -> S] : f \in Seq(S) /\ Len(f) = n
    BY <2>1
  <2> QED BY <2>2, <1>7, Zenon
<1>9. ToSet(q) = In(q)
  BY <1>8, InSet, Zenon
<1>10. ASSUME NEW p \in In(q)
       PROVE  p \in 1..next_pid' - 1 /\ p \notin 1..next_pid - 1
  <2>1. PICK j \in 1..Len(q) : p = q[j]
    BY Zenon DEF In
  <2>2. j \in 1..n /\ p = next_pid + j - 1
    BY <2>1, <1>4, <1>8
  <2> QED BY <2>2, <1>6
<1>11. \A p \in 1..next_pid - 1 : p \in 1..next_pid' - 1
  BY <1>1, <1>2, <1>3
<1> QED BY <1>5, <1>8, <1>9, <1>10, <1>11, Zenon DEF New, q

(* After a start there are the processes of before and the new ones, and   *)
(* the new ones are not known to the table yet.                            *)
LEMMA ProcessesStart ==
    ASSUME Inv, NEW s \in Services, NEW i \in Indices(s), Start(s, i),
           options' = options
    PROVE  /\ alive \subseteq alive'
           /\ \A a \in alive' :
                 \/ a \in alive
                 \/ /\ a.pid \in New(s) /\ a.service = s /\ a.index = i
                    /\ a.group = next_pid
           /\ \A a \in alive' : ProcessOK(a)'
           /\ \A a, b \in alive' : a.pid = b.pid => a = b
           /\ \A p : Alive(p)' <=> Alive(p) \/ p \in New(s)
           /\ \A p \in New(s) : ~Alive(p) /\ Known(p) = {}
           /\ Live(alive, s, i) = {} => Living'
<1> DEFINE N(p) == [pid |-> p, service |-> s, index |-> i, state |-> "init",
                    reason |-> "none", group |-> next_pid]
<1>1. /\ ToSet(NewPids(s)) = New(s)
      /\ \A p \in New(s) : p \in 1..next_pid' - 1 /\ p \notin 1..next_pid - 1
      /\ next_pid' \in 1..MaxPids + 1
      /\ \A p \in 1..next_pid - 1 : p \in 1..next_pid' - 1
  BY PidsOfStart, Zenon
<1>2. alive' = alive \cup {N(p) : p \in New(s)} /\ signals' = signals
  BY <1>1, Zenon DEF Start
<1>3. \A p : /\ N(p).pid = p /\ N(p).service = s /\ N(p).index = i
             /\ N(p).state = "init" /\ N(p).reason = "none"
             /\ N(p).group = next_pid
  OBVIOUS
<1>4. \A p : N(p) = [pid |-> N(p).pid, service |-> N(p).service,
                     index |-> N(p).index, state |-> N(p).state,
                     reason |-> N(p).reason, group |-> N(p).group]
  OBVIOUS
<1> HIDE DEF N
<1>5. /\ \A a \in alive' : a \in alive \/ \E p \in New(s) : a = N(p)
      /\ \A p \in New(s) : N(p) \in alive'
      /\ alive \subseteq alive'
  BY <1>2, Zenon
<1>6. /\ \A a \in alive : ProcessOK(a)
      /\ \A a, b \in alive : a.pid = b.pid => a = b
      /\ \A x \in signals : x.pid \in 1..next_pid - 1
      /\ OneGeneration
      /\ \A e \in services : e.pid \in 1..next_pid - 1
  BY Parts, Zenon
<1>7. \A a \in alive : a.pid \in 1..next_pid - 1
  BY <1>6, Zenon DEF ProcessOK
<1>8. \A p \in New(s) : ~Alive(p) /\ Known(p) = {}
  <2>1. \A p : Alive(p) => p \in 1..next_pid - 1
    BY <1>7, Zenon DEF Alive
  <2>2. \A p : Known(p) # {} => p \in 1..next_pid - 1
    BY <1>6, Zenon DEF Known
  <2> QED BY <2>1, <2>2, <1>1, Zenon
<1>9. ASSUME NEW p PROVE Alive(p)' <=> Alive(p) \/ p \in New(s)
  <2>1. ASSUME NEW a \in alive', a.pid = p PROVE Alive(p) \/ p \in New(s)
    <3>1. CASE a \in alive
      BY <2>1, <3>1, Zenon DEF Alive
    <3>2. CASE \E o \in New(s) : a = N(o)
      BY <2>1, <3>2, <1>3, Zenon
    <3> QED BY <3>1, <3>2, <1>5, Zenon
  <2>2. p \in New(s) => N(p) \in alive' /\ N(p).pid = p
    BY <1>3, <1>5, Zenon
  <2>3. Alive(p) => Alive(p)'
    BY <1>5, Zenon DEF Alive
  <2> QED BY <2>1, <2>2, <2>3, Zenon DEF Alive
<1>10. \A t : Indices(t)' = Indices(t)
  BY DEF Indices
<1>11. ASSUME NEW a \in alive' PROVE ProcessOK(a)'
  <2>1. CASE a \in alive
    <3>1. ProcessOK(a)
      BY <2>1, <1>6, Zenon
    <3> QED BY <3>1, <1>1, <1>10, Zenon DEF ProcessOK
  <2>2. CASE \E p \in New(s) : a = N(p)
    <3>1. PICK p \in New(s) : a = N(p)
      BY <2>2, Zenon
    <3>2. /\ a.pid \in 1..next_pid' - 1 /\ a.service = s /\ a.index = i
          /\ a.state = "init"
          /\ a = [pid |-> a.pid, service |-> a.service, index |-> a.index,
                  state |-> a.state, reason |-> a.reason, group |-> a.group]
      BY <3>1, <1>1, <1>3, <1>4, Zenon
    <3>3. a.index \in Indices(a.service)'
      BY <3>2, <1>10, Zenon
    <3> QED BY <3>2, <3>3, Zenon DEF ProcessOK
  <2> QED BY <2>1, <2>2, <1>5, Zenon
<1>12. ASSUME NEW a \in alive', NEW b \in alive', a.pid = b.pid PROVE a = b
  <2>1. CASE a \in alive /\ b \in alive
    BY <2>1, <1>6, <1>12, Zenon
  <2>2. CASE a \notin alive
    <3>1. PICK p \in New(s) : a = N(p)
      BY <2>2, <1>5, Zenon
    <3>2. a.pid = p
      BY <3>1, <1>3, Zenon
    <3>3. b \notin alive
      BY <3>2, <1>1, <1>7, <1>12, Zenon
    <3>4. PICK o \in New(s) : b = N(o)
      BY <3>3, <1>5, Zenon
    <3>5. b.pid = o
      BY <3>4, <1>3, Zenon
    <3> QED BY <3>1, <3>2, <3>4, <3>5, <1>12, Zenon
  <2>3. CASE b \notin alive
    <3>1. PICK p \in New(s) : b = N(p)
      BY <2>3, <1>5, Zenon
    <3>2. b.pid = p
      BY <3>1, <1>3, Zenon
    <3>3. a \notin alive
      BY <3>2, <1>1, <1>7, <1>12, Zenon
    <3> QED BY <2>2, <3>3, Zenon
  <2> QED BY <2>1, <2>2, <2>3, Zenon
<1>13. ASSUME NEW a \in alive', a \notin alive
       PROVE  /\ a.pid \in New(s) /\ a.service = s /\ a.index = i
              /\ a.group = next_pid
  <2>1. PICK p \in New(s) : a = N(p)
    BY <1>5, <1>13, Zenon
  <2> QED BY <2>1, <1>3, Zenon
<1>14. ASSUME Live(alive, s, i) = {} PROVE Living'
  <2>1. \A a \in alive : ~(a.service = s /\ a.index = i)
    BY <1>14, Zenon DEF Live
  <2>2. OneGeneration'
    <3> SUFFICES ASSUME NEW a \in alive', NEW b \in alive',
                        a.service = b.service, a.index = b.index
                 PROVE  a.group = b.group
      BY Zenon DEF OneGeneration
    <3>1. CASE a \in alive /\ b \in alive
      BY <3>1, <1>6, Zenon DEF OneGeneration
    <3>2. CASE a \notin alive \/ b \notin alive
      <4>1. a \notin alive /\ b \notin alive
        BY <3>2, <2>1, <1>13, Zenon
      <4> QED BY <4>1, <1>13, Zenon
    <3> QED BY <3>1, <3>2, Zenon
  <2>3. \A x \in signals' : x.pid \in 1..next_pid' - 1
    BY <1>1, <1>2, <1>6, Zenon
  <2> QED BY <2>2, <2>3, <1>1, <1>11, <1>12, Zenon DEF Living
<1> QED BY <1>5, <1>8, <1>9, <1>11, <1>12, <1>13, <1>14, Zenon

(* A restart of index rec.index of s goes on: rec is its record, rest the  *)
(* mailbox without the message that asked for it, and nobody else has the  *)
(* index in hand.                                                          *)
Resumes(s, rec, rest) ==
    /\ s \in Services /\ RecordOK(s, rec)
    /\ Remembers(rec, restarts[s][rec.index])
    /\ rest \in Seq(In(rest)) /\ In(rest) \subseteq In(mailbox)
    /\ Fewer(mailbox, rest)
    /\ \A m \in In(mailbox) : m \in In(rest) \/ m.tag \in Stages
    /\ Mailed(rest, s, rec.index) = {} /\ Timed(timers, s, rec.index) = {}
    /\ Listed(services, s, rec.index) = {} /\ Live(alive, s, rec.index) = {}
    /\ wait.kind # "init"

\* The messages and entries that stay, and their records.
Stay(rest) == services \cup {m \in timers \cup In(rest) : m.tag \in Stages}

(* What stays when a restart goes on: no record, message or timer is       *)
(* about the index that restarts.                                          *)
LEMMA Stays ==
    ASSUME Inv, NEW s, NEW rec, NEW rest, Resumes(s, rec, rest)
    PROVE  /\ rec.index \in Indices(s)
           /\ \A h \in Stay(rest) :
                 HolderOK(h) /\ ~(h.id = s /\ h.service.index = rec.index)
           /\ \A m \in In(rest) \cup timers :
                 /\ MessageOK(m)
                 /\ m.tag = "monitor" => ~(m.id = s /\ m.index = rec.index)
<1>1. rec.index \in Indices(s)
  <2>1. RecordOK(s, rec)
    BY Zenon DEF Resumes
  <2> QED BY <2>1 DEF RecordOK
<1>2. /\ In(rest) \subseteq In(mailbox)
      /\ Mailed(rest, s, rec.index) = {} /\ Timed(timers, s, rec.index) = {}
      /\ Listed(services, s, rec.index) = {}
  BY Zenon DEF Resumes
<1>3. \A m \in In(rest) \cup timers : ~ToStart(m, s, rec.index)
  BY <1>2, Zenon DEF Mailed, Timed, In
<1>4. \A h \in services : ~(h.id = s /\ h.service.index = rec.index)
  BY <1>2, Zenon DEF Listed
<1>5. ASSUME NEW h \in Stay(rest)
      PROVE  HolderOK(h) /\ ~(h.id = s /\ h.service.index = rec.index)
  <2>1. h \in Holders(mailbox, timers, wait, services)
    BY <1>2, Zenon DEF Stay, Holders
  <2>2. HolderOK(h)
    BY <2>1, Parts, Zenon
  <2>3. CASE h \in services
    BY <2>2, <2>3, <1>4, Zenon
  <2>4. CASE h \in timers \cup In(rest) /\ h.tag \in Stages
    BY <2>2, <2>4, <1>3, Zenon DEF ToStart
  <2> QED BY <2>3, <2>4, Zenon DEF Stay
<1>6. ASSUME NEW m \in In(rest) \cup timers
      PROVE  /\ MessageOK(m)
             /\ m.tag = "monitor" => ~(m.id = s /\ m.index = rec.index)
  <2>1. MessageOK(m)
    BY <1>2, Parts, Zenon
  <2> QED BY <2>1, <1>3, Zenon DEF ToStart
<1> QED BY <1>1, <1>5, <1>6, Zenon

(* The histories after a restart of one index.                             *)
LEMMA HistoriesGrow ==
    ASSUME Inv, NEW s \in Services, NEW i0 \in Indices(s),
           restarts' = [restarts EXCEPT ![s][i0] = Append(@, now)],
           UNCHANGED <<options, now>>,
           History(options[s].max_r, Append(restarts[s][i0], now))
    PROVE  /\ Histories'
           /\ restarts'[s][i0] = Append(restarts[s][i0], now)
           /\ \A t \in Services : \A i \in Indices(t) :
                 ~(t = s /\ i = i0) => restarts'[t][i] = restarts[t][i]
<1>1. Histories
  BY Parts, Zenon
<1>2. restarts = [t \in Services |-> [i \in Indices(t) |-> restarts[t][i]]]
  BY <1>1, Zenon DEF Histories
<1> DEFINE n == Append(restarts[s][i0], now)
<1>3. restarts' = [restarts EXCEPT ![s] = [restarts[s] EXCEPT ![i0] = n]]
  OBVIOUS
<1> HIDE DEF n
<1>4. /\ DOMAIN restarts = Services
      /\ \A t \in Services : /\ DOMAIN restarts[t] = Indices(t)
            /\ restarts[t] = [i \in Indices(t) |-> restarts[t][i]]
  BY <1>2, Zenon
<1>5. /\ DOMAIN restarts' = Services
      /\ restarts' = [t \in Services |-> restarts'[t]]
      /\ restarts'[s] = [restarts[s] EXCEPT ![i0] = n]
      /\ \A t \in Services : t # s => restarts'[t] = restarts[t]
  BY <1>3, <1>4, Zenon
<1>6. /\ DOMAIN restarts'[s] = Indices(s)
      /\ restarts'[s] = [i \in Indices(s) |-> restarts'[s][i]]
      /\ restarts'[s][i0] = n
      /\ \A i \in Indices(s) : i # i0 => restarts'[s][i] = restarts[s][i]
  BY <1>4, <1>5, Zenon
<1>7. \A t \in Services : \A i \in Indices(t) :
                 ~(t = s /\ i = i0) => restarts'[t][i] = restarts[t][i]
  BY <1>5, <1>6, Zenon
<1>8. \A t \in Services :
         restarts'[t] = [i \in Indices(t) |-> restarts'[t][i]]
  <2> TAKE t \in Services
  <2>1. CASE t = s
    BY <2>1, <1>6, Zenon
  <2>2. CASE t # s
    <3>1. /\ restarts'[t] = restarts[t]
          /\ restarts[t] = [i \in Indices(t) |-> restarts[t][i]]
      BY <2>2, <1>4, <1>5, Zenon
    <3>2. \A f, g, S : f = g /\ g = [i \in S |-> g[i]]
                         => f = [i \in S |-> f[i]]
      OBVIOUS
    <3> QED BY <3>1, <3>2, Zenon
  <2> QED BY <2>1, <2>2, Zenon
<1>9. restarts' = [t \in Services |-> [i \in Indices(t) |-> restarts'[t][i]]]
  <2> DEFINE R(t) == [i \in Indices(t) |-> restarts'[t][i]]
  <2>1. \A t \in Services : restarts'[t] = R(t)
    BY <1>8, Zenon
  <2> HIDE DEF R
  <2>2. restarts' = [t \in Services |-> R(t)]
    BY <2>1, <1>5
  <2> QED BY <2>2, Zenon DEF R
<1>10. \A t : Indices(t)' = Indices(t)
  BY DEF Indices
<1>11. \A r, times : History(r, times)' <=> History(r, times)
  BY DEF History
<1>12. ASSUME NEW t \in Services, NEW i \in Indices(t)
       PROVE  History(options[t].max_r, restarts'[t][i])
  <2>1. CASE t = s /\ i = i0
    BY <2>1, <1>6, Zenon DEF n
  <2>2. CASE ~(t = s /\ i = i0)
    <3>1. History(options[t].max_r, restarts[t][i])
      BY <1>1, Zenon DEF Histories
    <3> QED BY <3>1, <2>2, <1>7, Zenon
  <2> QED BY <2>1, <2>2, Zenon
<1>13. Histories'
  BY <1>9, <1>10, <1>11, <1>12, Zenon DEF Histories
<1> QED BY <1>6, <1>7, <1>13, Zenon DEF n

(* What a record remembers changes only with the clock.                    *)
LEMMA RemembersStill ==
    ASSUME now' = now
    PROVE  \A rec, times : Remembers(rec, times) => Remembers(rec, times)'
<1>1. \A times : Recent(times)' = Recent(times)
  BY DEF Recent
<1> QED BY <1>1, Zenon DEF Remembers

(* A record of another index stays right.                                  *)
LEMMA HolderElsewhere ==
    ASSUME NEW h, HolderOK(h), UNCHANGED <<options, now>>,
           restarts'[h.id][h.service.index] = restarts[h.id][h.service.index]
    PROVE  HolderOK(h)'
<1>1. RecordOK(h.id, h.service)'
  BY DEF HolderOK, RecordOK, Indices
<1>3. \A rec, times : Remembers(rec, times) => Remembers(rec, times)'
  BY RemembersStill, Zenon
<1>4. h.id \in Services
      /\ Remembers(h.service, restarts[h.id][h.service.index])
  BY Zenon DEF HolderOK
<1>5. Remembers(h.service, restarts'[h.id][h.service.index])
  BY <1>4, Zenon
<1> QED BY <1>1, <1>3, <1>4, <1>5 DEF HolderOK

(* restart_failed: the other processes of the service end.                 *)
LEMMA RestartFails ==
    ASSUME Inv, NEW s, NEW rec, NEW rest, Resumes(s, rec, rest),
           restart_failed(s), mailbox' = rest,
           UNCHANGED <<options, now, calls>>
    PROVE  Inv'
<1> DEFINE ps == {e.pid : e \in Entries(s)}
<1>1. /\ terminate_service_pids(ps, 0) /\ configured' = configured \ {s}
      /\ wait' = NoWait /\ UNCHANGED <<alive, next_pid, restarts>>
  BY Zenon DEF restart_failed, terminated_service
<1>2. /\ rest \in Seq(In(rest)) /\ In(rest) \subseteq In(mailbox)
      /\ Fewer(mailbox, rest)
      /\ \A m \in In(mailbox) : m \in In(rest) \/ m.tag \in Stages
      /\ wait.kind # "init"
  BY Zenon DEF Resumes
<1>3. ~Alive(0)
  <2>1. \A a \in alive : a.pid \in 1..next_pid - 1
    BY Parts, Zenon DEF ProcessOK
  <2>2. 0 \notin 1..next_pid - 1
    <3>1. next_pid \in 1..MaxPids + 1 /\ MaxPids \in Nat
      BY Parts, MonitorAssumption, Zenon
    <3> QED BY <3>1
  <2> QED BY <2>1, <2>2, Zenon DEF Alive
<1>4. (Shape(wait) /\ Ended /\ Begun)' /\ ~Holds(wait') /\ Shape(wait')
      /\ wait'.kind = "none"
  <2>1. (Shape(wait) /\ Ended /\ Begun)' /\ ~Holds(wait')
    BY <1>1, Idle, Zenon
  <2>2. wait'.kind = "none"
    BY <1>1 DEF NoWait
  <2> QED BY <2>1, <2>2, Zenon DEF Shape
<1>5. \A m \in In(mailbox) :
              \/ m \in In(mailbox')
              \/ m.tag # "terminate_end" /\ (m.tag = "DOWN" => m.pid \in ps)
  <2>1. "terminate_end" \notin Stages /\ "DOWN" \notin Stages
    BY DEF Stages
  <2> QED BY <2>1, <1>2, Zenon
<1> HIDE DEF ps
<1>6. configured' \subseteq configured /\ calls' = calls
      /\ UNCHANGED <<alive, next_pid, options, now, restarts>>
  BY <1>1, Zenon
<1>7. wait'.kind \in {"shutdown", "restart"} => In(wait'.pids) \subseteq ps
  BY <1>4
<1>8. /\ mailbox' \in Seq(In(mailbox')) /\ In(mailbox') \subseteq In(mailbox)
      /\ Fewer(mailbox, mailbox')
  BY <1>2, Zenon
<1> QED BY <1>1, <1>2, <1>3, <1>4, <1>5, <1>6, <1>7, <1>8, EndsQuietly, Zenon

(* The restart goes on with message x, from the mailbox or from a timer:   *)
(* the index goes into its hand.                                           *)
LEMMA RestartDeferred ==
    ASSUME Inv, NEW s, NEW rec, NEW rest, Resumes(s, rec, rest),
           UNCHANGED <<alive, signals, next_pid, services, options, configured,
                       now, calls>>,
           wait' = NoWait,
           NEW x, x.tag \in Stages, x.id = s, x.service.index = rec.index,
           HolderOK(x)', MessageOK(x)',
           \/ mailbox' = rest /\ timers' = timers \cup {x}
           \/ mailbox' = Append(rest, x) /\ timers' = timers,
           Histories', \A h \in Stay(rest) : HolderOK(h)',
           \A m \in In(rest) \cup timers : MessageOK(m)'
    PROVE  Inv'
<1>1. /\ s \in Services /\ rest \in Seq(In(rest))
      /\ In(rest) \subseteq In(mailbox) /\ Fewer(mailbox, rest)
      /\ \A m \in In(mailbox) : m \in In(rest) \/ m.tag \in Stages
      /\ Mailed(rest, s, rec.index) = {} /\ Timed(timers, s, rec.index) = {}
      /\ Listed(services, s, rec.index) = {}
      /\ Live(alive, s, rec.index) = {}
      /\ wait.kind # "init"
  BY Zenon DEF Resumes
<1>2. /\ mailbox' \in Seq(In(mailbox'))
      /\ In(rest) \subseteq In(mailbox') /\ timers \subseteq timers'
      /\ \A m \in In(mailbox') \cup timers' :
            m \in In(rest) \cup timers \/ m = x
      /\ \A t, i : ~ToStart(x, t, i) =>
            Mailed(mailbox', t, i) = Mailed(rest, t, i)
      /\ \A m \in timers' : m \in timers \/ m = x
      /\ Single(Mailed(mailbox', s, rec.index))
      /\ Single(Timed(timers', s, rec.index))
      /\ Mailed(mailbox', s, rec.index) = {} \/ timers' = timers
  <2>1. CASE mailbox' = rest /\ timers' = timers \cup {x}
    BY <2>1, <1>1, Zenon DEF Single, Timed
  <2>2. CASE mailbox' = Append(rest, x) /\ timers' = timers
    <3> DEFINE q == Append(rest, x)
    <3>1. /\ q \in Seq(In(q)) /\ In(q) = In(rest) \cup {x}
          /\ \A t, i : ~ToStart(x, t, i) =>
                Mailed(q, t, i) = Mailed(rest, t, i)
          /\ \A t, i : Mailed(rest, t, i) = {} => Single(Mailed(q, t, i))
      BY <1>1, Sent
    <3> HIDE DEF q
    <3>2. mailbox' = q
      BY <2>2, Zenon DEF q
    <3> QED BY <3>1, <3>2, <2>2, <1>1, Zenon DEF Single
  <2> QED BY <2>1, <2>2, Zenon
<1>3. \A t, i : ToStart(x, t, i) => t = s /\ i = rec.index
  <2>1. "monitor" \notin Stages
    BY DEF Stages
  <2> QED BY <2>1, Zenon DEF ToStart
<1>4. (Shape(wait) /\ Ended /\ Begun)' /\ ~Holds(wait')
  BY Idle, Zenon
<1>5. /\ \A y : Alive(y)' <=> Alive(y)
      /\ \A a \in alive' : Alive(a.pid)
  BY Unmoved, Zenon
<1>6. NoOrphans'
  <2>1. \A a \in alive' : Known(a.pid) # {} => Known(a.pid)' # {}
    BY Zenon DEF Known
  <2>2. Starting \subseteq Starting'
    BY <1>1, Zenon DEF Starting
  <2>3. ASSUME NEW a \in alive', Doomed(mailbox, timers, signals, a.pid)
        PROVE  Doomed(mailbox', timers', signals', a.pid)
    <3>1. TerminateEnd(a.pid).tag \notin Stages
      BY DEF TerminateEnd, Stages
    <3>2. TerminateEnd(a.pid) \in In(mailbox) =>
             TerminateEnd(a.pid) \in In(mailbox')
      BY <3>1, <1>1, <1>2, Zenon
    <3> QED BY <2>3, <3>2, <1>2, Zenon DEF Doomed
  <2> QED BY <2>1, <2>2, <2>3, <1>2, <1>5, OrphansKept, Zenon
<1>7. KnownAlive'
  <2>1. "DOWN" \notin Stages
    BY DEF Stages
  <2>2. \A e \in services' : \A m \in In(mailbox) :
              m.tag = "DOWN" /\ m.pid = e.pid => m \in In(mailbox')
    BY <2>1, <1>1, <1>2, Zenon
  <2>3. \A e \in services' : Alive(e.pid) => Alive(e.pid)'
    BY <1>5, Zenon
  <2>4. services' \subseteq services
    BY Zenon
  <2> QED BY <2>2, <2>3, <2>4, <1>2, KnownKept, Zenon
<1>8. Table'
  <2>1. /\ \A e \in services' :
              /\ e.id \in Services /\ e.pid \in In(e.service.pids)
              /\ e.pid \in 1..next_pid' - 1
        /\ \A e, f \in services' : e.pid = f.pid => e = f
    BY Parts, Zenon
  <2> QED BY <2>1, <1>6, <1>7, Zenon DEF Table
<1>9. \A t : Indices(t)' = Indices(t)
  BY DEF Indices
<1>10. Living' /\ Rest'
  <2>1. /\ next_pid \in 1..MaxPids + 1
        /\ \A a \in alive : ProcessOK(a)
        /\ \A a, b \in alive : a.pid = b.pid => a = b
        /\ \A y \in signals : y.pid \in 1..next_pid - 1
        /\ OneGeneration /\ Rest
    BY Parts, Zenon
  <2>2. \A a \in alive' : ProcessOK(a)'
    BY <2>1, <1>9, Zenon DEF ProcessOK
  <2>3. OneGeneration'
    BY <2>1, Zenon DEF OneGeneration
  <2>4. Rest'
    BY <2>1, Zenon DEF Rest
  <2>5. /\ next_pid' \in 1..MaxPids + 1
        /\ \A a, b \in alive' : a.pid = b.pid => a = b
        /\ \A y \in signals' : y.pid \in 1..next_pid' - 1
    BY <2>1, Zenon
  <2> QED BY <2>2, <2>3, <2>4, <2>5, Zenon DEF Living
<1>11. Mail'
  BY <1>2, Zenon DEF Mail
<1>12. Recorded'
  <2> SUFFICES ASSUME NEW h \in Holders(mailbox', timers', wait', services')
               PROVE  HolderOK(h)'
    BY Zenon DEF Recorded
  <2>1. h \in Stay(rest) \/ h = x
    BY <1>2, <1>4, Zenon DEF Holders, Holds, Stay
  <2> QED BY <2>1, Zenon
<1>13. Hands(alive, mailbox', timers', wait', services)
  <2> SUFFICES ASSUME NEW t \in Services, NEW i \in Indices(t)
               PROVE  Fits(Live(alive, t, i), Mailed(mailbox', t, i),
                           Timed(timers', t, i), Blocked(wait', t, i),
                           Covered(wait'), Listed(services, t, i))
    BY Zenon DEF Hands
  <2> DEFINE L == Live(alive, t, i)
             M == Mailed(mailbox, t, i)
             T == Timed(timers, t, i)
             B == Blocked(wait, t, i)
             C == Covered(wait)
             E == Listed(services, t, i)
             M2 == Mailed(mailbox', t, i)
             T2 == Timed(timers', t, i)
             B2 == Blocked(wait', t, i)
             C2 == Covered(wait')
  <2>1. Fits(L, M, T, B, C, E)
    BY Parts, Zenon DEF Hands
  <2>2. ~B2
    BY <1>4, Zenon DEF Blocked, Holds
  <2>3. CASE t = s /\ i = rec.index
    <3>1. /\ Single(M2) /\ Single(T2) /\ E = {} /\ L = {}
          /\ M2 = {} \/ T2 = {}
      <4>1. Mailed(mailbox', s, rec.index) = {}
            \/ Timed(timers', s, rec.index) = {}
        BY <1>1, <1>2, Zenon
      <4>2. /\ M2 = Mailed(mailbox', s, rec.index)
            /\ T2 = Timed(timers', s, rec.index)
            /\ E = Listed(services, s, rec.index)
            /\ L = Live(alive, s, rec.index)
        BY <2>3, Zenon
      <4> HIDE DEF L, M2, T2, E
      <4> QED BY <4>1, <4>2, <1>1, <1>2, Zenon
    <3> HIDE DEF L, M2, T2, B2, C2, E
    <3>2. Fits(L, M2, T2, B2, C2, E)
      BY <2>2, <3>1, Zenon DEF Fits
    <3> QED BY <3>2, Zenon DEF L, M2, T2, B2, C2, E
  <2>4. CASE ~(t = s /\ i = rec.index)
    <3>1. ~ToStart(x, t, i)
      BY <2>4, <1>3, Zenon
    <3>2. (Single(M) => Single(M2)) /\ (M = {} => M2 = {})
      <4>1. M2 = Mailed(rest, t, i)
        BY <3>1, <1>2, Zenon
      <4>2. /\ Single(M) => Single(Mailed(rest, t, i))
            /\ M = {} => Mailed(rest, t, i) = {}
        BY <1>1, Zenon DEF Fewer
      <4> HIDE DEF M, M2
      <4> QED BY <4>1, <4>2, Zenon
    <3>3. T2 \subseteq T
      BY <3>1, <1>2, Zenon DEF Timed
    <3> HIDE DEF L, M, T, B, C, E, M2, T2, B2, C2
    <3>4. Fits(L, M2, T2, B2, C2, E)
      BY <2>1, <2>2, <3>2, <3>3, FitsLess
    <3> QED BY <3>4, Zenon DEF L, M2, T2, B2, C2, E
  <2> QED BY <2>3, <2>4, Zenon
<1>14. InOneHand'
  <2>1. alive' = alive /\ services' = services
    BY Zenon
  <2> QED BY <1>9, <1>13, <2>1, Zenon DEF InOneHand, Hands
<1> QED BY <1>4, <1>8, <1>10, <1>11, <1>12, <1>14, Zenon DEF Inv

(* A message about another index stays right when processes start.         *)
LEMMA MessageElsewhere ==
    ASSUME NEW m, MessageOK(m), options' = options,
           m.tag = "monitor" =>
              restarts'[m.id][m.index] = restarts[m.id][m.index],
           \A p \in 1..next_pid - 1 :
              p \in 1..next_pid' - 1 /\ (Alive(p)' => Alive(p))
    PROVE  MessageOK(m)'
<1>1. \A t : Indices(t)' = Indices(t)
  BY DEF Indices
<1>2. m.tag = "monitor" =>
         /\ m.id \in Services /\ m.index \in Indices(m.id)'
         /\ restarts'[m.id][m.index] = <<>>
  BY <1>1, Zenon DEF MessageOK
<1>3. m.tag = "DOWN" => m.pid \in 1..next_pid' - 1 /\ ~Alive(m.pid)'
  BY Zenon DEF MessageOK
<1>4. /\ m.tag \in Stages => m.id \in Services
      /\ m.tag = "stage3" => options'[m.id].max_r # 0
  BY Zenon DEF MessageOK
<1> QED BY <1>2, <1>3, <1>4, Zenon DEF MessageOK

(* The processes are started: the index goes into the hands of the blocked *)
(* monitor, which waits for them to initialize.                            *)
LEMMA RestartStarted ==
    ASSUME Inv, NEW s, NEW rec, NEW rest, Resumes(s, rec, rest),
           Start(s, rec.index), mailbox' = rest,
           UNCHANGED <<services, timers, options, configured, now, calls>>,
           NEW r, r.index = rec.index, r.pids = NewPids(s),
           NEW w, w = [kind |-> "init", id |-> s, pids |-> NewPids(s),
                       service |-> r],
           wait' = w, HolderOK(w)',
           Histories', \A h \in Stay(rest) : HolderOK(h)',
           \A m \in In(rest) \cup timers : MessageOK(m)'
    PROVE  Inv'
<1>1. /\ s \in Services /\ rest \in Seq(In(rest))
      /\ In(rest) \subseteq In(mailbox) /\ Fewer(mailbox, rest)
      /\ \A m \in In(mailbox) : m \in In(rest) \/ m.tag \in Stages
      /\ Mailed(rest, s, rec.index) = {} /\ Timed(timers, s, rec.index) = {}
      /\ Listed(services, s, rec.index) = {}
      /\ Live(alive, s, rec.index) = {}
      /\ wait.kind # "init" /\ rec.index \in Indices(s)
  BY Stays, Zenon DEF Resumes
<1>2. /\ alive \subseteq alive'
      /\ \A a \in alive' :
            \/ a \in alive
            \/ /\ a.pid \in New(s) /\ a.service = s /\ a.index = rec.index
               /\ a.group = next_pid
      /\ \A p : Alive(p)' <=> Alive(p) \/ p \in New(s)
      /\ \A p \in New(s) : ~Alive(p) /\ Known(p) = {}
      /\ Living'
  <2>1. PICK i \in Indices(s) : i = rec.index
    BY <1>1, Zenon
  <2>2. Start(s, i) /\ options' = options /\ Live(alive, s, i) = {}
    BY <2>1, <1>1, Zenon
  <2>3. /\ alive \subseteq alive'
        /\ \A a \in alive' :
              \/ a \in alive
              \/ /\ a.pid \in New(s) /\ a.service = s /\ a.index = i
                 /\ a.group = next_pid
        /\ \A a \in alive' : ProcessOK(a)'
        /\ \A a, b \in alive' : a.pid = b.pid => a = b
        /\ \A p : Alive(p)' <=> Alive(p) \/ p \in New(s)
        /\ \A p \in New(s) : ~Alive(p) /\ Known(p) = {}
        /\ Live(alive, s, i) = {} => Living'
    BY <1>1, <2>2, ProcessesStart
  <2> QED BY <2>1, <2>2, <2>3, Zenon
<1>3. /\ NewPids(s) \in Seq(1..MaxPids)
      /\ ToSet(NewPids(s)) = New(s)
      /\ \A p \in New(s) : p \in 1..next_pid' - 1
      /\ \A p \in 1..next_pid - 1 : p \in 1..next_pid' - 1
  BY <1>1, PidsOfStart, Zenon
<1>4. /\ wait'.kind = "init" /\ wait'.id = s /\ wait'.pids = NewPids(s)
      /\ wait'.service = r
  OBVIOUS
<1>5. mailbox' \in Seq(In(mailbox')) /\ signals' = signals
  BY <1>1, Zenon DEF Start
<1>6. \A p : Known(p)' = Known(p)
  BY Zenon DEF Known
<1>7. Starting' = New(s) /\ Starting = {}
  BY <1>1, <1>3, <1>4, Zenon DEF Starting
<1>8. Shape(wait)'
  <2>1. NewPids(s) \in Seq(Nat)
    <3>1. 1..MaxPids \subseteq Nat
      BY MonitorAssumption
    <3> QED BY <1>3, <3>1, SeqWider, Zenon
  <2>2. wait' = [kind |-> "init", id |-> wait'.id, pids |-> wait'.pids,
                 service |-> wait'.service]
    BY <1>4, Zenon
  <2>3. Shape(wait')
    <3>1. wait'.id \in Services /\ wait'.pids \in Seq(Nat)
      BY <2>1, <1>1, <1>4, Zenon
    <3> QED BY <3>1, <2>2, <1>4 DEF Shape
  <2> QED BY <2>3, Zenon DEF Shape
<1>9. Ended' /\ Begun'
  <2>1. Ended'
    BY <1>4 DEF Ended
  <2>2. In(wait'.service.pids) = New(s)
    BY <1>4, Zenon DEF New
  <2>3. Begun'
    BY <2>2, <1>2, <1>3, <1>6, Zenon DEF Begun
  <2> QED BY <2>1, <2>3
<1>10. NoOrphans'
  <2> SUFFICES ASSUME NEW a \in alive'
               PROVE  \/ Known(a.pid)' # {} \/ a.pid \in Starting'
                      \/ MustEnd(a.pid)'
    BY Zenon DEF NoOrphans
  <2>1. CASE a \notin alive
    BY <2>1, <1>2, <1>7, Zenon
  <2>2. CASE a \in alive
    <3>1. Known(a.pid) # {} \/ a.pid \in Starting \/ MustEnd(a.pid)
      BY <2>2, Parts, Zenon DEF NoOrphans
    <3>2. MustEnd(a.pid) => MustEnd(a.pid)'
      <4>1. mailbox \in Seq(In(mailbox))
        BY Parts, Zenon
      <4>2. PICK e : e = TerminateEnd(a.pid)
        BY Zenon
      <4>3. InMailbox(e) <=> e \in In(mailbox)
        BY <4>1, Posted, Zenon
      <4>4. InMailbox(e)' <=> e \in In(mailbox')
        BY <1>5, PostedNext, Zenon
      <4>5. e.tag \notin Stages
        BY <4>2 DEF TerminateEnd, Stages
      <4>6. InMailbox(e) => InMailbox(e)'
        BY <4>3, <4>4, <4>5, <1>1, Zenon
      <4>7. InMailbox(e) <=> InMailbox(TerminateEnd(a.pid))
        BY <4>2, Zenon DEF InMailbox
      <4>8. InMailbox(e)' <=> InMailbox(TerminateEnd(a.pid))'
        BY <4>2, Zenon DEF InMailbox, TerminateEnd
      <4> QED BY <4>6, <4>7, <4>8, <1>5, Zenon DEF MustEnd, TerminateEnd
    <3> QED BY <3>1, <3>2, <1>6, <1>7, Zenon
  <2> QED BY <2>1, <2>2, Zenon
<1>11. KnownAlive'
  <2>1. "DOWN" \notin Stages
    BY DEF Stages
  <2>2. \A e \in services' : \A m \in In(mailbox) :
              m.tag = "DOWN" /\ m.pid = e.pid => m \in In(mailbox')
    BY <2>1, <1>1, Zenon
  <2>3. \A e \in services' : Alive(e.pid) => Alive(e.pid)'
    BY <1>2, Zenon
  <2>4. services' \subseteq services
    BY Zenon
  <2> QED BY <2>2, <2>3, <2>4, <1>5, KnownKept, Zenon
<1>12. Table'
  <2>1. /\ \A e \in services :
              /\ e.id \in Services /\ e.pid \in In(e.service.pids)
              /\ e.pid \in 1..next_pid - 1
        /\ \A e, f \in services : e.pid = f.pid => e = f
    BY Parts, Zenon
  <2>2. /\ \A e \in services' :
              /\ e.id \in Services /\ e.pid \in In(e.service.pids)
              /\ e.pid \in 1..next_pid' - 1
        /\ \A e, f \in services' : e.pid = f.pid => e = f
    BY <2>1, <1>3, Zenon
  <2> QED BY <2>2, <1>10, <1>11, Zenon DEF Table
<1>13. \A t : Indices(t)' = Indices(t)
  BY DEF Indices
<1>14. Rest'
  <2>1. Rest
    BY Parts, Zenon
  <2> QED BY <2>1, Zenon DEF Rest
<1>15. Mail'
  BY <1>5, Zenon DEF Mail
<1>16. Recorded'
  <2> SUFFICES ASSUME NEW h \in Holders(mailbox', timers', wait', services')
               PROVE  HolderOK(h)'
    BY Zenon DEF Recorded
  <2>1. CASE h \in Stay(rest)
    BY <2>1, Zenon
  <2>2. CASE h = wait'
    <3>1. h = w
      BY <2>2, Zenon
    <3> QED BY <3>1, Zenon
  <2> QED BY <2>1, <2>2, Zenon DEF Holders, Stay
<1>17. Hands(alive', rest, timers, wait', services)
  <2> SUFFICES ASSUME NEW t \in Services, NEW i \in Indices(t)
               PROVE  Fits(Live(alive', t, i), Mailed(rest, t, i),
                           Timed(timers, t, i), Blocked(wait', t, i),
                           Covered(wait'), Listed(services, t, i))
    BY Zenon DEF Hands
  <2> DEFINE L == Live(alive, t, i)
             M == Mailed(mailbox, t, i)
             T == Timed(timers, t, i)
             B == Blocked(wait, t, i)
             C == Covered(wait)
             E == Listed(services, t, i)
             L2 == Live(alive', t, i)
             M2 == Mailed(rest, t, i)
             B2 == Blocked(wait', t, i)
             C2 == Covered(wait')
  <2>1. Fits(L, M, T, B, C, E)
    BY Parts, Zenon DEF Hands
  <2>2. CASE t = s /\ i = rec.index
    <3>1. /\ M2 = Mailed(rest, s, rec.index)
          /\ T = Timed(timers, s, rec.index)
          /\ E = Listed(services, s, rec.index)
          /\ L = Live(alive, s, rec.index)
      BY <2>2, Zenon
    <3>2. L2 \subseteq New(s)
      <4>1. ASSUME NEW p \in L2 PROVE p \in New(s)
        <5>1. PICK a \in alive' : a.pid = p /\ a.service = t /\ a.index = i
          BY Zenon DEF Live
        <5>2. a \notin alive
          <6>1. Live(alive, t, i) = {}
            BY <3>1, <1>1, Zenon
          <6> QED BY <5>1, <6>1, Zenon DEF Live
        <5> QED BY <5>1, <5>2, <1>2, Zenon
      <4> QED BY <4>1, Zenon
    <3>3. C2 = New(s)
      BY <1>4, Zenon DEF Covered, New
    <3> HIDE DEF L, L2, M2, T, B2, C2, E
    <3>4. M2 = {} /\ T = {} /\ E = {}
      BY <3>1, <1>1, Zenon
    <3>5. Fits(L2, M2, T, B2, C2, E)
      BY <3>2, <3>3, <3>4, Zenon DEF Fits, Single
    <3> QED BY <3>5, Zenon DEF L2, M2, T, B2, C2, E
  <2>3. CASE ~(t = s /\ i = rec.index)
    <3>1. ~B2
      BY <2>3, <1>4, Zenon DEF Blocked
    <3>2. (Single(M) => Single(M2)) /\ (M = {} => M2 = {})
      BY <1>1, Zenon DEF Fewer
    <3>3. L2 \subseteq L
      <4>1. ASSUME NEW p \in L2 PROVE p \in L
        <5>1. PICK a \in alive' : a.pid = p /\ a.service = t /\ a.index = i
          BY Zenon DEF Live
        <5>2. a \in alive
          BY <5>1, <2>3, <1>2, Zenon
        <5> QED BY <5>1, <5>2, Zenon DEF Live
      <4> QED BY <4>1, Zenon
    <3> HIDE DEF L, M, T, B, C, E, L2, M2, B2, C2
    <3>4. Fits(L2, M2, T, B2, C2, E)
      BY <2>1, <3>1, <3>2, <3>3, FitsLess
    <3> QED BY <3>4, Zenon DEF L2, M2, T, B2, C2, E
  <2> QED BY <2>2, <2>3, Zenon
<1>18. InOneHand'
  <2>1. mailbox' = rest /\ services' = services /\ timers' = timers
    BY Zenon
  <2> QED BY <1>13, <1>17, <2>1, Zenon DEF InOneHand, Hands
<1> QED BY <1>2, <1>8, <1>9, <1>12, <1>14, <1>15, <1>16, <1>18, Zenon DEF Inv

(* The record of a restarted index.                                        *)
LEMMA HolderNew ==
    ASSUME NEW s \in Services, NEW r, NEW times, RecordOK(s, r),
           Remembers(r, times), restarts'[s][r.index] = times,
           UNCHANGED <<options, now>>, NEW h, h.id = s, h.service = r
    PROVE  HolderOK(h)'
<1>1. RecordOK(s, r)'
  BY DEF RecordOK, Indices
<1>3. \A rec, t : Remembers(rec, t) => Remembers(rec, t)'
  BY RemembersStill, Zenon
<1>4. Remembers(r, restarts'[s][r.index])
  BY Zenon
<1> QED BY <1>1, <1>3, <1>4 DEF HolderOK

(* restart_stage3: the limit is reached, or the processes are started, or  *)
(* starting them failed and the monitor tries again.                       *)
LEMMA StepStage3 ==
    ASSUME Inv, NEW s, NEW rec, NEW rest, Resumes(s, rec, rest),
           options[s].max_r # 0, restart_stage3(s, rec, rest),
           UNCHANGED <<options, now, calls>>
    PROVE  Inv'
<1>1. /\ s \in Services /\ RecordOK(s, rec)
      /\ Remembers(rec, restarts[s][rec.index])
  BY Zenon DEF Resumes
<1>2. /\ rec.index \in Indices(s)
      /\ \A h \in Stay(rest) :
            HolderOK(h) /\ ~(h.id = s /\ h.service.index = rec.index)
      /\ \A m \in In(rest) \cup timers :
            /\ MessageOK(m)
            /\ m.tag = "monitor" => ~(m.id = s /\ m.index = rec.index)
  BY Stays, Zenon
<1>3. CASE AtLimit(s, rec)
  <2>1. restart_failed(s) /\ mailbox' = rest
    BY <1>3, Zenon DEF restart_stage3
  <2> QED BY <2>1, RestartFails, Zenon
<1>4. CASE ~AtLimit(s, rec)
  <2> DEFINE r == Restarted(s, rec)
             w == [kind |-> "init", id |-> s, pids |-> NewPids(s),
                   service |-> [r EXCEPT !.pids = NewPids(s)]]
             h == restarts[s][rec.index]
             h2 == Append(h, now)
             x == Stage("stage2", s, r)
  <2>1. /\ restarts' = [restarts EXCEPT ![s][rec.index] = Append(@, now)]
        /\ \/ /\ Start(s, rec.index) /\ wait' = w /\ mailbox' = rest
           \/ /\ mailbox' = Append(rest, x) /\ wait' = NoWait
              /\ UNCHANGED <<alive, signals, next_pid>>
        /\ UNCHANGED <<services, timers, configured>>
    BY <1>4, Zenon DEF restart_stage3, restart_stage2_async, proc_vars
  <2>2. /\ x.tag = "stage2" /\ x.id = s /\ x.service = r
    BY DEF Stage
  <2> HIDE DEF r, x
  <2>3. /\ RecordOK(s, r) /\ r.index = rec.index
        /\ Remembers(r, h2) /\ History(options[s].max_r, h2)
    <3>1. now \in 0..MaxTime
      BY Parts, Zenon DEF Rest
    <3>2. options[s].max_r \in Nat \ {0}
      <4>1. options[s].max_r \in Nat
        BY <1>1, OptionsOf, Zenon
      <4> QED BY <4>1
    <3>3. History(options[s].max_r, h)
      BY <1>1, <1>2, Parts, Zenon DEF Histories
    <3>4. PICK a, b, c : a = r /\ b = h /\ c = h2
      BY Zenon
    <3>5. /\ a = Restarted(s, rec) /\ c = Append(b, now)
          /\ Remembers(rec, b) /\ History(options[s].max_r, b)
      BY <3>3, <3>4, <1>1, Zenon DEF r
    <3>6. /\ RecordOK(s, a) /\ a.index = rec.index
          /\ Remembers(a, c) /\ History(options[s].max_r, c)
      <4> HIDE DEF h, h2, w
      <4> QED BY <3>1, <3>2, <3>5, <1>1, <1>4, RestartedOK
    <3> QED BY <3>4, <3>6, Zenon
  <2>4. /\ Histories'
        /\ restarts'[s][rec.index] = h2
        /\ \A t \in Services : \A i \in Indices(t) :
              ~(t = s /\ i = rec.index) => restarts'[t][i] = restarts[t][i]
    <3>1. PICK i0 \in Indices(s) : i0 = rec.index
      BY <1>2, Zenon
    <3>2. restarts' = [restarts EXCEPT ![s][i0] = Append(@, now)]
      BY <2>1, <3>1, Zenon
    <3>3. /\ UNCHANGED <<options, now>>
          /\ History(options[s].max_r, Append(restarts[s][i0], now))
      BY <2>3, <3>1, Zenon
    <3>4. /\ Histories'
          /\ restarts'[s][i0] = Append(restarts[s][i0], now)
          /\ \A t \in Services : \A i \in Indices(t) :
                ~(t = s /\ i = i0) => restarts'[t][i] = restarts[t][i]
      BY <1>1, <3>2, <3>3, HistoriesGrow, Zenon
    <3> QED BY <3>1, <3>4, Zenon
  <2> HIDE DEF h2, h, w
  <2>5. ASSUME NEW y \in Stay(rest) PROVE HolderOK(y)'
    <3>1. HolderOK(y) /\ ~(y.id = s /\ y.service.index = rec.index)
      BY <1>2, Zenon
    <3>2. y.id \in Services /\ y.service.index \in Indices(y.id)
      BY <3>1 DEF HolderOK, RecordOK
    <3>3. restarts'[y.id][y.service.index] = restarts[y.id][y.service.index]
      BY <3>1, <3>2, <2>4, Zenon
    <3>4. UNCHANGED <<options, now>>
      BY Zenon
    <3> QED BY <3>1, <3>3, <3>4, HolderElsewhere, Zenon
  <2>6. ASSUME NEW m \in In(rest) \cup timers,
               \A p \in 1..next_pid - 1 :
                  p \in 1..next_pid' - 1 /\ (Alive(p)' => Alive(p))
        PROVE  MessageOK(m)'
    <3>1. /\ MessageOK(m)
          /\ m.tag = "monitor" => ~(m.id = s /\ m.index = rec.index)
      BY <1>2, Zenon
    <3>2. m.tag = "monitor" => m.id \in Services /\ m.index \in Indices(m.id)
      BY <3>1, Zenon DEF MessageOK
    <3>3. m.tag = "monitor" =>
             restarts'[m.id][m.index] = restarts[m.id][m.index]
      BY <3>1, <3>2, <2>4, Zenon
    <3>4. options' = options
      BY Zenon
    <3> QED BY <3>1, <3>3, <3>4, <2>6, MessageElsewhere, Zenon
  <2>7. CASE Start(s, rec.index) /\ wait' = w /\ mailbox' = rest
    <3>1. PICK b : b = [r EXCEPT !.pids = NewPids(s)]
      BY Zenon
    <3>2. /\ NewPids(s) \in Seq(1..MaxPids)
          /\ \A p \in New(s) : p \notin 1..next_pid - 1
          /\ \A p \in 1..next_pid - 1 : p \in 1..next_pid' - 1
      BY <2>7, <1>1, PidsOfStart, Zenon
    <3>3. /\ RecordOK(s, b) /\ b.pids = NewPids(s) /\ b.index = rec.index
          /\ Remembers(b, h2)
      <4>1. /\ RecordOK(s, b) /\ b.pids = NewPids(s) /\ b.index = r.index
            /\ b.restart_times = r.restart_times
            /\ \A times : Remembers(r, times) => Remembers(b, times)
        BY <3>1, <3>2, <2>3, PidsReplaced
      <4> QED BY <4>1, <2>3, Zenon
    <3>4. /\ w = [kind |-> "init", id |-> s, pids |-> NewPids(s),
                  service |-> b]
      BY <3>1, Zenon DEF w
    <3>5. PICK v : v = w
      BY Zenon
    <3>6. v = [kind |-> "init", id |-> s, pids |-> NewPids(s), service |-> b]
          /\ wait' = v
      BY <3>4, <3>5, <2>7, Zenon
    <3>7. v.id = s /\ v.service = b
      BY <3>6
    <3>8. HolderOK(v)'
      <4>1. restarts'[s][b.index] = h2
        BY <2>4, <3>3, Zenon
      <4>2. UNCHANGED <<options, now>>
        BY Zenon
      <4> QED BY <4>1, <4>2, <3>3, <3>7, <1>1, HolderNew, Zenon
    <3>9. \A p \in 1..next_pid - 1 :
             p \in 1..next_pid' - 1 /\ (Alive(p)' => Alive(p))
      <4>1. PICK i \in Indices(s) : i = rec.index
        BY <1>2, Zenon
      <4>2. Start(s, i) /\ options' = options
        BY <4>1, <2>7, Zenon
      <4>3. \A p : Alive(p)' <=> Alive(p) \/ p \in New(s)
        BY <4>2, <1>1, ProcessesStart, Zenon
      <4> QED BY <4>3, <3>2, Zenon
    <3>10. UNCHANGED <<services, timers, options, configured, now, calls>>
      BY <2>1, Zenon
    <3>11. \A m \in In(rest) \cup timers : MessageOK(m)'
      BY <2>6, <3>9, Zenon
    <3>12. Start(s, rec.index) /\ mailbox' = rest /\ b.index = rec.index
           /\ b.pids = NewPids(s) /\ Histories'
      BY <2>4, <2>7, <3>3, Zenon
    <3>13. \A y \in Stay(rest) : HolderOK(y)'
      BY <2>5, Zenon
    <3> QED BY <3>6, <3>8, <3>10, <3>11, <3>12, <3>13, RestartStarted
  <2>8. CASE mailbox' = Append(rest, x) /\ wait' = NoWait
             /\ UNCHANGED <<alive, signals, next_pid>>
    <3>1. \A p \in 1..next_pid - 1 :
             p \in 1..next_pid' - 1 /\ (Alive(p)' => Alive(p))
      BY <2>8, Zenon DEF Alive
    <3>2. \A m \in In(rest) \cup timers : MessageOK(m)'
      BY <2>6, <3>1, Zenon
    <3>0. PICK y, b, times : y = x /\ b = r /\ times = h2
      BY Zenon
    <3>3. HolderOK(y)'
      <4>1. /\ restarts'[s][b.index] = times /\ RecordOK(s, b)
            /\ Remembers(b, times) /\ y.id = s /\ y.service = b
        BY <2>2, <2>3, <2>4, <3>0, Zenon
      <4>2. UNCHANGED <<options, now>>
        BY Zenon
      <4> QED BY <4>1, <4>2, <1>1, HolderNew, Zenon
    <3>4. y.tag \in Stages /\ y.id = s /\ y.service.index = rec.index
          /\ y.tag = "stage2" /\ mailbox' = Append(rest, y)
      <4>1. x.tag \in Stages
        BY <2>2 DEF Stages
      <4> QED BY <4>1, <2>2, <2>3, <2>8, <3>0, Zenon
    <3>5. MessageOK(y)'
      BY <3>4, <1>1 DEF MessageOK
    <3>6. UNCHANGED <<alive, signals, next_pid, services, options, configured,
                      now, calls>> /\ timers' = timers
      BY <2>1, <2>8, Zenon
    <3> QED BY <2>4, <2>5, <2>8, <3>2, <3>3, <3>4, <3>5, <3>6,
               RestartDeferred, Zenon
  <2> QED BY <2>1, <2>7, <2>8, Zenon
<1> QED BY <1>3, <1>4, Zenon

(* restart_stage2: no restarts are allowed, or restart_stage3 follows, at  *)
(* once or after a delay.                                                  *)
LEMMA StepStage2 ==
    ASSUME Inv, NEW s, NEW rec, NEW rest, Resumes(s, rec, rest),
           restart_stage2(s, rec, rest), UNCHANGED <<options, now, calls>>
    PROVE  Inv'
<1> DEFINE none == options[s].max_r = 0 /\ rec.restart_count = 0
           delay == options[s].restart_delay
<1>1. /\ s \in Services /\ RecordOK(s, rec)
      /\ Remembers(rec, restarts[s][rec.index])
  BY Zenon DEF Resumes
<1>2. options[s].max_r \in Nat
  BY <1>1, OptionsOf, Zenon
<1>3. ~none => options[s].max_r # 0
  <2>1. rec.restart_count \in 0..options[s].max_r
    BY <1>1 DEF RecordOK
  <2> QED BY <2>1, <1>2
<1>4. PICK f : f = Filtered(rec)
  BY Zenon
<1>5. RecordOK(s, f) /\ f.index = rec.index
      /\ Remembers(f, restarts[s][f.index])
  <2>1. /\ RecordOK(s, f) /\ f.index = rec.index /\ f.pids = rec.pids
        /\ f.restart_count <= rec.restart_count
        /\ \A times : Remembers(rec, times) => Remembers(f, times)
    BY <1>1, <1>2, <1>4, FilterRemembers
  <2> QED BY <2>1, <1>1, Zenon
<1>6. Resumes(s, f, rest)
  BY <1>5, Zenon DEF Resumes
<1>7. CASE none /\ restart_failed(s) /\ mailbox' = rest
  BY <1>7, RestartFails, Zenon
<1>8. CASE ~none /\ restart_stage3(s, rec, rest)
  <2>1. options[s].max_r # 0 /\ restart_stage3(s, rec, rest)
    BY <1>3, <1>8, Zenon
  <2> QED BY <2>1, StepStage3, Zenon
<1>9. CASE ~none /\ restart_stage3(s, Filtered(rec), rest)
  <2>1. options[s].max_r # 0 /\ restart_stage3(s, f, rest)
    BY <1>3, <1>4, <1>9, Zenon
  <2> QED BY <2>1, <1>6, StepStage3, Zenon
<1>10. CASE /\ ~none
            /\ timers' = timers \cup {Stage("stage3", s, Filtered(rec))}
            /\ mailbox' = rest /\ wait' = NoWait
            /\ UNCHANGED <<alive, signals, next_pid, services, configured,
                           restarts>>
  <2>1. PICK x : x = Stage("stage3", s, f)
    BY Zenon
  <2>2. x.tag = "stage3" /\ x.id = s /\ x.service = f
    BY <2>1 DEF Stage
  <2>3. timers' = timers \cup {x} /\ mailbox' = rest
    BY <2>1, <1>4, <1>10, Zenon
  <2>4. x.tag \in Stages /\ x.service.index = f.index
    BY <2>2 DEF Stages
  <2>5. HolderOK(x)'
    <3>1. HolderOK(x)
      BY <2>2, <1>1, <1>5, Zenon DEF HolderOK
    <3>2. options' = options /\ now' = now /\ restarts' = restarts
      BY <1>10, Zenon
    <3> QED BY <3>1, <3>2, HolderKept, Zenon
  <2>6. MessageOK(x)'
    <3>1. options'[x.id].max_r # 0
      BY <2>2, <1>3, <1>10, Zenon
    <3>2. x.tag # "monitor" /\ x.tag # "DOWN" /\ x.id \in Services
      BY <2>2, <1>1
    <3> QED BY <3>1, <3>2, Zenon DEF MessageOK
  <2>7. \A h \in Stay(rest) : HolderOK(h)'
    <3> TAKE h \in Stay(rest)
    <3>1. HolderOK(h)
      BY Stays, Zenon
    <3>2. options' = options /\ now' = now /\ restarts' = restarts
      BY <1>10, Zenon
    <3> QED BY <3>1, <3>2, HolderKept, Zenon
  <2>8. \A m \in In(rest) \cup timers : MessageOK(m)'
    <3> TAKE m \in In(rest) \cup timers
    <3>1. MessageOK(m)
      BY Stays, Zenon
    <3>2. options' = options /\ restarts' = restarts
      BY <1>10, Zenon
    <3>3. \A p \in 1..next_pid - 1 :
              p \in 1..next_pid' - 1 /\ (Alive(p)' => Alive(p))
      BY <1>10, Zenon DEF Alive
    <3> QED BY <3>1, <3>2, <3>3, MessageElsewhere, Zenon
  <2>9. Histories'
    <3>1. Histories
      BY Parts, Zenon
    <3>2. \A r, times : History(r, times)' <=> History(r, times)
      BY DEF History
    <3>3. \A t : Indices(t)' = Indices(t)
      BY DEF Indices
    <3>4. options' = options /\ restarts' = restarts
      BY <1>10, Zenon
    <3> QED BY <3>1, <3>2, <3>3, <3>4, Zenon DEF Histories
  <2>10. wait' = NoWait
         /\ UNCHANGED <<alive, signals, next_pid, services, options,
                        configured, now, calls>>
    BY <1>10, Zenon
  <2> QED BY <2>2, <2>3, <2>4, <2>5, <2>6, <2>7, <2>8, <2>9, <2>10, <1>6,
             RestartDeferred
<1> QED BY <1>7, <1>8, <1>9, <1>10, Zenon DEF restart_stage2, proc_vars

(* The message that asks for a restart has its index in hand.              *)
LEMMA StageTaken ==
    ASSUME Inv, NEW tag, tag \in Stages, Handling(tag),
           NEW m, m = Head(mailbox), NEW rest, rest = Tail(mailbox)
    PROVE  Resumes(m.id, m.service, rest) /\ MessageOK(m)
<1>1. /\ wait = NoWait /\ mailbox # <<>>
      /\ rest \in Seq(In(rest)) /\ In(rest) \subseteq In(mailbox)
      /\ m \in In(mailbox) /\ m.tag = tag
      /\ MessageOK(m)
      /\ \A x \in In(mailbox) : x = m \/ x \in In(rest)
      /\ Fewer(mailbox, rest)
  BY HeadTaken, Zenon
<1>2. HolderOK(m)
  <2>1. m \in Holders(mailbox, timers, wait, services)
    BY <1>1, Zenon DEF Holders
  <2> QED BY <2>1, Parts, Zenon
<1>3. /\ m.id \in Services /\ RecordOK(m.id, m.service)
      /\ Remembers(m.service, restarts[m.id][m.service.index])
      /\ m.service.index \in Indices(m.id)
  <2>1. RecordOK(m.id, m.service)
    BY <1>2, Zenon DEF HolderOK
  <2>2. m.service.index \in Indices(m.id)
    BY <2>1 DEF RecordOK
  <2> QED BY <2>1, <2>2, <1>2, Zenon DEF HolderOK
<1>4. PICK s, i : s = m.id /\ i = m.service.index
  BY Zenon
<1>5. ToStart(m, s, i)
  BY <1>1, <1>4, Zenon DEF ToStart
<1>6. /\ Single(Mailed(mailbox, s, i))
      /\ Mailed(mailbox, s, i) # {} =>
            /\ Timed(timers, s, i) = {} /\ ~Blocked(wait, s, i)
            /\ Listed(services, s, i) = {} /\ Live(alive, s, i) = {}
  <2>1. s \in Services /\ i \in Indices(s)
    BY <1>3, <1>4, Zenon
  <2>2. Hands(alive, mailbox, timers, wait, services)
    BY Parts, Zenon
  <2> QED BY <2>1, <2>2, FitsAt, Zenon
<1>7. Mailed(mailbox, s, i) # {} /\ Mailed(rest, s, i) = {}
  <2>1. mailbox \in Seq(In(mailbox))
    BY Parts, Zenon
  <2>2. /\ \A t, j : ToStart(Head(mailbox), t, j)
                     /\ Single(Mailed(mailbox, t, j)) =>
              Mailed(Tail(mailbox), t, j) = {}
        /\ \A t, j : ToStart(Head(mailbox), t, j) =>
              Mailed(mailbox, t, j) # {}
    BY <2>1, <1>1, Taken, Zenon
  <2>3. ToStart(Head(mailbox), s, i)
    BY <1>5, Zenon
  <2>4. Mailed(Tail(mailbox), s, i) = {} /\ Mailed(mailbox, s, i) # {}
    BY <2>2, <2>3, <1>6, Zenon
  <2> QED BY <2>4, Zenon
<1>8. wait.kind # "init"
  BY <1>1 DEF NoWait
<1>9. /\ Mailed(rest, m.id, m.service.index) = {}
      /\ Timed(timers, m.id, m.service.index) = {}
      /\ Listed(services, m.id, m.service.index) = {}
      /\ Live(alive, m.id, m.service.index) = {}
  BY <1>4, <1>6, <1>7, Zenon
<1>10. \A x \in In(mailbox) : x \in In(rest) \/ x.tag \in Stages
  BY <1>1, Zenon
<1> QED BY <1>1, <1>3, <1>8, <1>9, <1>10, Zenon DEF Resumes

(* The messages of a restart in progress, sent at once or by timer.        *)
LEMMA StepHandleStage ==
    ASSUME Inv, HandleStage2 \/ HandleStage3
    PROVE  Inv'
<1>1. PICK m, rest : m = Head(mailbox) /\ rest = Tail(mailbox)
  BY Zenon
<1>2. CASE HandleStage2
  <2>1. /\ Handling("stage2") /\ restart_stage2(m.id, m.service, rest)
        /\ UNCHANGED <<options, now, calls>>
    BY <1>1, <1>2, Zenon DEF HandleStage2
  <2>2. "stage2" \in Stages
    BY DEF Stages
  <2>3. Resumes(m.id, m.service, rest)
    BY <1>1, <2>1, <2>2, StageTaken, Zenon
  <2> QED BY <2>1, <2>3, StepStage2, Zenon
<1>3. CASE HandleStage3
  <2>1. /\ Handling("stage3") /\ restart_stage3(m.id, m.service, rest)
        /\ UNCHANGED <<options, now, calls>>
    BY <1>1, <1>3, Zenon DEF HandleStage3
  <2>2. "stage3" \in Stages
    BY DEF Stages
  <2>3. Resumes(m.id, m.service, rest) /\ MessageOK(m)
    BY <1>1, <2>1, <2>2, StageTaken, Zenon
  <2>4. m.tag = "stage3"
    BY <1>1, <2>1, Zenon DEF Handling
  <2>5. options[m.id].max_r # 0
    BY <2>3, <2>4, Zenon DEF MessageOK
  <2> QED BY <2>1, <2>3, <2>5, StepStage3, Zenon
<1> QED BY <1>2, <1>3, Zenon

(* The group has ended; restart_stage1 goes on.                            *)
LEMMA StepRestartTerminated ==
    ASSUME Inv, RestartTerminated
    PROVE  Inv'
<1>1. /\ wait.kind = "restart" /\ wait.pids = <<>>
      /\ restart_stage2(wait.id, wait.service, mailbox)
      /\ UNCHANGED <<options, now, calls>>
  BY Zenon DEF RestartTerminated
<1>2. PICK s, rec, rest : s = wait.id /\ rec = wait.service /\ rest = mailbox
  BY Zenon
<1>3. HolderOK(wait)
  <2>1. wait \in Holders(mailbox, timers, wait, services)
    BY <1>1, Zenon DEF Holders
  <2> QED BY <2>1, Parts, Zenon
<1>4. /\ s \in Services /\ RecordOK(s, rec)
      /\ Remembers(rec, restarts[s][rec.index])
  BY <1>2, <1>3, Zenon DEF HolderOK
<1>5. rec.index \in Indices(s)
  BY <1>4 DEF RecordOK
<1>6. Blocked(wait, s, rec.index)
  BY <1>1, <1>2, Zenon DEF Blocked
<1>7. Covered(wait) = {}
  <2>1. In(wait.pids) = {}
    <3>1. 1..Len(<<>>) = {}
      OBVIOUS
    <3> QED BY <3>1, <1>1, Zenon DEF In
  <2> QED BY <2>1, <1>1 DEF Covered
<1>8. PICK i : i = rec.index
  BY Zenon
<1>9. /\ Mailed(mailbox, s, i) # {} => ~Blocked(wait, s, i)
      /\ Timed(timers, s, i) # {} => ~Blocked(wait, s, i)
      /\ Blocked(wait, s, i) =>
            /\ Listed(services, s, i) = {}
            /\ Live(alive, s, i) \subseteq Covered(wait)
  <2>1. s \in Services /\ i \in Indices(s)
    BY <1>4, <1>5, <1>8, Zenon
  <2>2. Hands(alive, mailbox, timers, wait, services)
    BY Parts, Zenon
  <2> QED BY <2>1, <2>2, FitsAt, Zenon
<1>10. /\ Mailed(rest, s, rec.index) = {} /\ Timed(timers, s, rec.index) = {}
       /\ Listed(services, s, rec.index) = {}
       /\ Live(alive, s, rec.index) = {}
  BY <1>2, <1>6, <1>7, <1>8, <1>9, Zenon
<1>11. /\ rest \in Seq(In(rest)) /\ In(rest) \subseteq In(mailbox)
       /\ Fewer(mailbox, rest)
       /\ \A m \in In(mailbox) : m \in In(rest)
  BY <1>2, Parts, Zenon DEF Fewer
<1>12. Resumes(s, rec, rest)
  BY <1>1, <1>4, <1>10, <1>11, Zenon DEF Resumes
<1> QED BY <1>1, <1>2, <1>12, StepStage2, Zenon

(* The record of a service that starts: there are no restarts yet.         *)
LEMMA FirstRecord ==
    ASSUME NEW s, NEW i \in Indices(s), options[s].max_r \in Nat,
           NEW pids \in Seq(1..MaxPids), NEW rec, rec = NewService(i, pids),
           NEW times, times = <<>>
    PROVE  /\ RecordOK(s, rec) /\ Remembers(rec, times)
           /\ rec.index = i /\ rec.pids = pids
<1>1. /\ rec \in [index : Indices(s), pids : Seq(1..MaxPids),
                  restart_count : 0..options[s].max_r,
                  restart_times : Seq(0..MaxTime)]
      /\ rec.restart_count = Len(rec.restart_times)
      /\ rec.index = i /\ rec.pids = pids
  BY DEF NewService
<1>2. Recent(times) = {}
  <2>1. DOMAIN times = {}
    OBVIOUS
  <2> QED BY <2>1, Zenon DEF Recent
<1> DEFINE g == [k \in Recent(times) |-> k]
<1>3. g \in [Recent(times) -> 1..Len(rec.restart_times)]
  BY <1>2, Zenon
<1> HIDE DEF g
<1>4. Remembers(rec, times)
  BY <1>2, <1>3, Zenon DEF Remembers
<1> QED BY <1>1, <1>4, Zenon DEF RecordOK

(* The processes of an index start for the first time: it goes from the    *)
(* hands of the message into the table.                                    *)
LEMMA FirstStart ==
    ASSUME Inv, Handling("monitor"), Done,
           NEW s \in Services, NEW i \in Indices(s), NEW rec,
           ToStart(Head(mailbox), s, i), restarts[s][i] = <<>>, Start(s, i),
           rec = NewService(i, NewPids(s)),
           services' = services \cup
              {[id |-> s, pid |-> p, service |-> rec] : p \in New(s)},
           UNCHANGED <<timers, wait, options, configured, now, restarts,
                       calls>>
    PROVE  Inv'
<1> DEFINE N(p) == [id |-> s, pid |-> p, service |-> rec]
<1>1. /\ wait = NoWait /\ mailbox # <<>>
      /\ mailbox' \in Seq(In(mailbox')) /\ In(mailbox') \subseteq In(mailbox)
      /\ Head(mailbox).tag = "monitor"
      /\ \A m \in In(mailbox) : m = Head(mailbox) \/ m \in In(mailbox')
      /\ Fewer(mailbox, mailbox')
  BY HeadTaken, Zenon DEF Done
<1>2. /\ Single(Mailed(mailbox, s, i))
      /\ Mailed(mailbox, s, i) # {} =>
            /\ Timed(timers, s, i) = {} /\ ~Blocked(wait, s, i)
            /\ Listed(services, s, i) = {} /\ Live(alive, s, i) = {}
  <2>1. Hands(alive, mailbox, timers, wait, services)
    BY Parts, Zenon
  <2> QED BY <2>1, FitsAt, Zenon
<1>3. Mailed(mailbox, s, i) # {} /\ Mailed(mailbox', s, i) = {}
  <2>1. mailbox \in Seq(In(mailbox))
    BY Parts, Zenon
  <2>2. /\ \A t, j : ToStart(Head(mailbox), t, j)
                     /\ Single(Mailed(mailbox, t, j)) =>
              Mailed(Tail(mailbox), t, j) = {}
        /\ \A t, j : ToStart(Head(mailbox), t, j) =>
              Mailed(mailbox, t, j) # {}
    BY <2>1, <1>1, Taken, Zenon
  <2>3. Mailed(Tail(mailbox), s, i) = {} /\ Mailed(mailbox, s, i) # {}
    BY <2>2, <1>2, Zenon
  <2> QED BY <2>3, Zenon DEF Done
<1>4. /\ Timed(timers, s, i) = {} /\ Listed(services, s, i) = {}
      /\ Live(alive, s, i) = {}
  BY <1>2, <1>3, Zenon
<1>5. /\ alive \subseteq alive'
      /\ \A a \in alive' :
            \/ a \in alive
            \/ /\ a.pid \in New(s) /\ a.service = s /\ a.index = i
               /\ a.group = next_pid
      /\ \A p : Alive(p)' <=> Alive(p) \/ p \in New(s)
      /\ \A p \in New(s) : ~Alive(p) /\ Known(p) = {}
      /\ Living'
  <2>1. options' = options
    BY Zenon
  <2>2. /\ alive \subseteq alive'
        /\ \A a \in alive' :
              \/ a \in alive
              \/ /\ a.pid \in New(s) /\ a.service = s /\ a.index = i
                 /\ a.group = next_pid
        /\ \A a \in alive' : ProcessOK(a)'
        /\ \A a, b \in alive' : a.pid = b.pid => a = b
        /\ \A p : Alive(p)' <=> Alive(p) \/ p \in New(s)
        /\ \A p \in New(s) : ~Alive(p) /\ Known(p) = {}
        /\ Live(alive, s, i) = {} => Living'
    BY <2>1, ProcessesStart
  <2> QED BY <2>2, <1>4, Zenon
<1>6. /\ NewPids(s) \in Seq(1..MaxPids)
      /\ \A p \in New(s) : p \in 1..next_pid' - 1 /\ p \notin 1..next_pid - 1
      /\ \A p \in 1..next_pid - 1 : p \in 1..next_pid' - 1
  BY PidsOfStart, Zenon
<1>7. /\ RecordOK(s, rec) /\ Remembers(rec, restarts[s][i])
      /\ rec.index = i /\ rec.pids = NewPids(s)
  <2>1. options[s].max_r \in Nat
    BY OptionsOf, Zenon
  <2>2. PICK pids, times : pids = NewPids(s) /\ times = restarts[s][i]
    BY Zenon
  <2>3. pids \in Seq(1..MaxPids) /\ rec = NewService(i, pids) /\ times = <<>>
    BY <2>2, <1>6, Zenon
  <2>4. /\ RecordOK(s, rec) /\ Remembers(rec, times)
        /\ rec.index = i /\ rec.pids = pids
    BY <2>1, <2>3, FirstRecord
  <2> QED BY <2>2, <2>4, Zenon
<1>8. \A p : N(p).id = s /\ N(p).pid = p /\ N(p).service = rec
  OBVIOUS
<1>9. services' = services \cup {N(p) : p \in New(s)}
  BY Zenon
<1> HIDE DEF N
<1>10. /\ \A e \in services' : e \in services \/ \E p \in New(s) : e = N(p)
       /\ \A p \in New(s) : N(p) \in services'
       /\ services \subseteq services'
  BY <1>9, Zenon
<1>11. (Shape(wait) /\ Ended /\ Begun)' /\ ~Holds(wait')
  <2>1. wait' = NoWait
    BY <1>1, Zenon
  <2> QED BY <2>1, Idle, Zenon
<1>12. signals' = signals /\ timers' = timers
  BY Zenon DEF Start
<1>13. NoOrphans'
  <2> SUFFICES ASSUME NEW a \in alive'
               PROVE  Known(a.pid)' # {} \/ MustEnd(a.pid)'
    BY Zenon DEF NoOrphans
  <2>1. CASE a \notin alive
    <3>1. a.pid \in New(s)
      BY <2>1, <1>5, Zenon
    <3>2. N(a.pid) \in services' /\ N(a.pid).pid = a.pid
      BY <3>1, <1>8, <1>10, Zenon
    <3> QED BY <3>2, Zenon DEF Known
  <2>2. CASE a \in alive
    <3>1. Known(a.pid) # {} \/ a.pid \in Starting \/ MustEnd(a.pid)
      BY <2>2, Parts, Zenon DEF NoOrphans
    <3>2. MustEnd(a.pid) => MustEnd(a.pid)'
      <4>1. mailbox \in Seq(In(mailbox))
        BY Parts, Zenon
      <4>2. PICK e : e = TerminateEnd(a.pid)
        BY Zenon
      <4>3. InMailbox(e) <=> e \in In(mailbox)
        BY <4>1, Posted, Zenon
      <4>4. InMailbox(e)' <=> e \in In(mailbox')
        BY <1>1, PostedNext, Zenon
      <4>5. e # Head(mailbox)
        <5>1. e.tag = "terminate_end"
          BY <4>2 DEF TerminateEnd
        <5> QED BY <5>1, <1>1, Zenon
      <4>6. InMailbox(e) => InMailbox(e)'
        BY <4>3, <4>4, <4>5, <1>1, Zenon
      <4>7. InMailbox(e) <=> InMailbox(TerminateEnd(a.pid))
        BY <4>2, Zenon DEF InMailbox
      <4>8. InMailbox(e)' <=> InMailbox(TerminateEnd(a.pid))'
        BY <4>2, Zenon DEF InMailbox, TerminateEnd
      <4> QED BY <4>6, <4>7, <4>8, <1>12, Zenon DEF MustEnd, TerminateEnd
    <3>3. Starting = {}
      BY <1>1 DEF Starting, NoWait
    <3>4. Known(a.pid) # {} => Known(a.pid)' # {}
      BY <1>10, Zenon DEF Known
    <3> QED BY <3>1, <3>2, <3>3, <3>4, Zenon
  <2> QED BY <2>1, <2>2, Zenon
<1>14. KnownAlive'
  <2> SUFFICES ASSUME NEW e \in services'
               PROVE  (Alive(e.pid) \/ DownDue(e.pid))'
    BY Zenon DEF KnownAlive
  <2>1. CASE e \in services
    <3>1. Alive(e.pid) \/ DownDue(e.pid)
      BY <2>1, Parts, Zenon DEF KnownAlive
    <3>2. mailbox \in Seq(In(mailbox))
      BY Parts, Zenon
    <3>3. DownDue(e.pid) =>
             \E m \in In(mailbox) : m.tag = "DOWN" /\ m.pid = e.pid
      BY <3>2, Posted, Zenon
    <3>4. (\E m \in In(mailbox') : m.tag = "DOWN" /\ m.pid = e.pid)
             => DownDue(e.pid)'
      BY <1>1, PostedNext, Zenon
    <3>5. ASSUME NEW m \in In(mailbox), m.tag = "DOWN"
          PROVE  m \in In(mailbox')
      BY <3>5, <1>1, Zenon
    <3> QED BY <3>1, <3>3, <3>4, <3>5, <1>5, Zenon
  <2>2. CASE \E p \in New(s) : e = N(p)
    <3>1. e.pid \in New(s)
      BY <2>2, <1>8, Zenon
    <3> QED BY <3>1, <1>5, Zenon
  <2> QED BY <2>1, <2>2, <1>10, Zenon
<1>15. Table'
  <2>1. /\ \A e \in services :
              /\ e.id \in Services /\ e.pid \in In(e.service.pids)
              /\ e.pid \in 1..next_pid - 1
        /\ \A e, f \in services : e.pid = f.pid => e = f
    BY Parts, Zenon
  <2>2. ASSUME NEW e \in services'
        PROVE  /\ e.id \in Services /\ e.pid \in In(e.service.pids)
               /\ e.pid \in 1..next_pid' - 1
    <3>1. CASE e \in services
      BY <3>1, <2>1, <1>6, Zenon
    <3>2. CASE \E p \in New(s) : e = N(p)
      <4>1. PICK p \in New(s) : e = N(p)
        BY <3>2, Zenon
      <4>2. e.id = s /\ e.pid = p /\ e.service = rec
        BY <4>1, <1>8, Zenon
      <4>3. p \in In(rec.pids)
        BY <1>7, Zenon DEF New
      <4> QED BY <4>2, <4>3, <1>6, Zenon
    <3> QED BY <3>1, <3>2, <1>10, Zenon
  <2>3. ASSUME NEW e \in services', NEW f \in services', e.pid = f.pid
        PROVE  e = f
    <3>1. \A g \in services : g.pid \notin New(s)
      BY <2>1, <1>6, Zenon
    <3>2. ASSUME NEW g \in services', g \notin services
          PROVE  g.pid \in New(s) /\ g = N(g.pid)
      <4>1. PICK p \in New(s) : g = N(p)
        BY <3>2, <1>10, Zenon
      <4>2. g.pid = p
        BY <4>1, <1>8, Zenon
      <4> QED BY <4>1, <4>2, Zenon
    <3>3. CASE e \in services /\ f \in services
      BY <3>3, <2>1, <2>3, Zenon
    <3>4. CASE e \notin services \/ f \notin services
      <4>1. e \notin services /\ f \notin services
        BY <3>1, <3>2, <3>4, <2>3, Zenon
      <4>2. e = N(e.pid) /\ f = N(f.pid)
        BY <4>1, <3>2, Zenon
      <4> QED BY <4>2, <2>3, Zenon
    <3> QED BY <3>3, <3>4, Zenon
  <2> QED BY <2>2, <2>3, <1>13, <1>14, Zenon DEF Table
<1>16. \A t : Indices(t)' = Indices(t)
  BY DEF Indices
<1>17. Histories' /\ Rest'
  <2>1. Histories /\ Rest
    BY Parts, Zenon
  <2>2. \A r, times : History(r, times)' <=> History(r, times)
    BY DEF History
  <2>3. Histories'
    BY <2>1, <2>2, <1>16, Zenon DEF Histories
  <2>4. Rest'
    BY <2>1, Zenon DEF Rest
  <2> QED BY <2>3, <2>4
<1>18. Mail'
  <2>1. ASSUME NEW m \in In(mailbox') \cup timers' PROVE MessageOK(m)'
    <3>1. MessageOK(m)
      BY <1>1, <1>12, Parts, Zenon
    <3>2. \A p \in 1..next_pid - 1 :
              p \in 1..next_pid' - 1 /\ (Alive(p)' => Alive(p))
      BY <1>5, <1>6, Zenon
    <3>3. options' = options /\ restarts' = restarts
      BY Zenon
    <3> QED BY <3>1, <3>2, <3>3, MessageElsewhere, Zenon
  <2> QED BY <2>1, <1>1, Zenon DEF Mail
<1>19. Recorded'
  <2> SUFFICES ASSUME NEW h \in Holders(mailbox', timers', wait', services')
               PROVE  HolderOK(h)'
    BY Zenon DEF Recorded
  <2>1. HolderOK(h)
    <3>1. CASE h \in Holders(mailbox, timers, wait, services)
      BY <3>1, Parts, Zenon
    <3>2. CASE \E p \in New(s) : h = N(p)
      BY <3>2, <1>7, <1>8, Zenon DEF HolderOK
    <3> QED BY <3>1, <3>2, <1>1, <1>10, <1>11, <1>12, Zenon DEF Holders, Holds
  <2>2. options' = options /\ now' = now /\ restarts' = restarts
    BY Zenon
  <2> QED BY <2>1, <2>2, HolderKept, Zenon
<1>20. Hands(alive', mailbox', timers, wait, services')
  <2> SUFFICES ASSUME NEW t \in Services, NEW j \in Indices(t)
               PROVE  Fits(Live(alive', t, j), Mailed(mailbox', t, j),
                           Timed(timers, t, j), Blocked(wait, t, j),
                           Covered(wait), Listed(services', t, j))
    BY Zenon DEF Hands
  <2> DEFINE L == Live(alive, t, j)
             M == Mailed(mailbox, t, j)
             T == Timed(timers, t, j)
             B == Blocked(wait, t, j)
             C == Covered(wait)
             E == Listed(services, t, j)
             L2 == Live(alive', t, j)
             M2 == Mailed(mailbox', t, j)
             E2 == Listed(services', t, j)
  <2>1. Fits(L, M, T, B, C, E)
    BY Parts, Zenon DEF Hands
  <2>2. ~B
    <3>1. wait.kind = "none"
      BY <1>1 DEF NoWait
    <3> QED BY <3>1, Zenon DEF Blocked
  <2>3. CASE t = s /\ j = i
    <3>1. /\ M2 = Mailed(mailbox', s, i) /\ T = Timed(timers, s, i)
          /\ E = Listed(services, s, i) /\ L = Live(alive, s, i)
      BY <2>3, Zenon
    <3>2. L2 \subseteq New(s)
      <4>1. ASSUME NEW p \in L2 PROVE p \in New(s)
        <5>1. PICK a \in alive' : a.pid = p /\ a.service = t /\ a.index = j
          BY Zenon DEF Live
        <5>2. a \notin alive
          BY <5>1, <3>1, <1>4, Zenon DEF Live
        <5> QED BY <5>1, <5>2, <1>5, Zenon
      <4> QED BY <4>1, Zenon
    <3>3. \A e \in E2 : e.service = rec
      <4>1. ASSUME NEW e \in E2 PROVE e.service = rec
        <5>1. e \in services' /\ e.id = t /\ e.service.index = j
          BY Zenon DEF Listed
        <5>2. e \notin services
          BY <5>1, <3>1, <1>4, Zenon DEF Listed
        <5>3. PICK p \in New(s) : e = N(p)
          BY <5>1, <5>2, <1>10, Zenon
        <5> QED BY <5>3, <1>8, Zenon
      <4> QED BY <4>1, Zenon
    <3>4. New(s) = In(rec.pids)
      BY <1>7, Zenon DEF New
    <3> HIDE DEF L, L2, M2, T, B, C, E, E2
    <3>5. M2 = {} /\ T = {}
      BY <3>1, <1>3, <1>4, Zenon
    <3>6. \A e \in E2 : L2 \subseteq In(e.service.pids)
      BY <3>2, <3>3, <3>4, Zenon
    <3>7. \A e, f \in E2 : e.service = f.service
      BY <3>3, Zenon
    <3>8. Fits(L2, M2, T, B, C, E2)
      BY <2>2, <3>5, <3>6, <3>7, Zenon DEF Fits, Single
    <3> QED BY <3>8, Zenon DEF L2, M2, T, B, C, E2
  <2>4. CASE ~(t = s /\ j = i)
    <3>1. ASSUME NEW e \in E2 PROVE e \in E
      <4>1. e \in services' /\ e.id = t /\ e.service.index = j
        BY <3>1, Zenon DEF Listed
      <4>2. \A p \in New(s) : e # N(p)
        BY <4>1, <2>4, <1>7, <1>8, Zenon
      <4>3. e \in services
        BY <4>1, <4>2, <1>10, Zenon
      <4> QED BY <4>1, <4>3, Zenon DEF Listed
    <3>2. (Single(M) => Single(M2)) /\ (M = {} => M2 = {})
      BY <1>1, Zenon DEF Fewer
    <3>3. L2 \subseteq L
      <4>1. ASSUME NEW p \in L2 PROVE p \in L
        <5>1. PICK a \in alive' : a.pid = p /\ a.service = t /\ a.index = j
          BY Zenon DEF Live
        <5>2. a \in alive
          BY <5>1, <2>4, <1>5, Zenon
        <5> QED BY <5>1, <5>2, Zenon DEF Live
      <4> QED BY <4>1, Zenon
    <3> HIDE DEF L, M, T, B, C, E, L2, M2, E2
    <3>4. Fits(L2, M2, T, B, C, E2)
      BY <2>1, <2>2, <3>1, <3>2, <3>3, FitsLess
    <3> QED BY <3>4, Zenon DEF L2, M2, T, B, C, E2
  <2> QED BY <2>3, <2>4, Zenon
<1>21. InOneHand'
  <2>1. wait' = wait /\ timers' = timers
    BY Zenon
  <2> QED BY <1>16, <1>20, <2>1, Zenon DEF InOneHand, Hands
<1> QED BY <1>5, <1>11, <1>15, <1>17, <1>18, <1>19, <1>21, Zenon DEF Inv

(* A service process that was just started is put into the table.          *)
LEMMA StepMonitor ==
    ASSUME Inv, HandleMonitor
    PROVE  Inv'
<1>1. PICK m : m = Head(mailbox)
  BY Zenon
<1>2. /\ Handling("monitor") /\ Done
      /\ UNCHANGED <<timers, wait, options, configured, now, restarts, calls>>
  BY Zenon DEF HandleMonitor
<1>3. m.tag = "monitor" /\ MessageOK(m)
  <2>1. Head(mailbox).tag = "monitor" /\ MessageOK(Head(mailbox))
    <3>1. PICK q : q = Tail(mailbox)
      BY Zenon
    <3> QED BY <3>1, <1>2, HeadTaken, Zenon
  <2> QED BY <2>1, <1>1, Zenon
<1>4. PICK s, i : s = m.id /\ i = m.index
  BY Zenon
<1>5. /\ s \in Services /\ i \in Indices(s) /\ restarts[s][i] = <<>>
      /\ ToStart(Head(mailbox), s, i)
  BY <1>1, <1>3, <1>4, Zenon DEF MessageOK, ToStart
<1>6. CASE /\ Start(m.id, m.index)
           /\ services' = services \cup
                 {[id |-> m.id, pid |-> p,
                   service |-> NewService(m.index, NewPids(m.id))] :
                     p \in ToSet(NewPids(m.id))}
  <2>1. PICK rec : rec = NewService(i, NewPids(s))
    BY Zenon
  <2>2. Start(s, i)
    BY <1>4, <1>6, Zenon
  <2>3. ToSet(NewPids(s)) = New(s)
    BY <2>2, <1>5, PidsOfStart, Zenon
  <2>4. services' = services \cup
           {[id |-> s, pid |-> p, service |-> rec] : p \in New(s)}
    <3>1. m.id = s /\ NewService(m.index, NewPids(m.id)) = rec
      BY <2>1, <1>4, Zenon
    <3>2. ToSet(NewPids(m.id)) = New(s)
      BY <2>3, <1>4, Zenon
    <3>3. services' = services \cup
             {[id |-> m.id, pid |-> p,
               service |-> NewService(m.index, NewPids(m.id))] :
                 p \in ToSet(NewPids(m.id))}
      BY <1>6, Zenon
    <3> QED BY <3>1, <3>2, <3>3
  <2> QED BY <2>1, <2>2, <2>4, <1>2, <1>5, FirstStart
<1>7. CASE UNCHANGED <<alive, signals, next_pid, services>>
  <2>1. /\ UNCHANGED <<alive, next_pid, services, wait, options, configured,
                       now, restarts, calls>>
        /\ signals \subseteq signals' /\ timers \subseteq timers'
        /\ \A x \in signals' : x \in signals \/ Alive(x.pid)
        /\ \A x \in timers' : x \in timers \/ x.tag = "terminate_end"
    BY <1>2, <1>7, Zenon
  <2> QED BY <2>1, <1>2, HandledQuietly, Zenon
<1> QED BY <1>1, <1>6, <1>7, Zenon DEF HandleMonitor, proc_vars

-----------------------------------------------------------------------------
(* The invariant                                                           *)

(* The first messages: one for each index of each service.                 *)
AllStarts == UNION {Starts(s) : s \in Services}

(* There are finitely many first messages.                                 *)
LEMMA StartsFinite ==
    ASSUME options \in [Services -> Scenarios]
    PROVE  IsFiniteSet(AllStarts)
<1>1. ASSUME NEW s \in Services PROVE IsFiniteSet(Starts(s))
  <2> DEFINE n == options[s].count_process
             f == [i \in 1..n |-> [tag |-> "monitor", id |-> s, index |-> i]]
  <2>1. n \in Nat
    <3>1. options[s] \in Options
      BY MonitorAssumption, Zenon
    <3>2. options[s].count_process \in Nat
      BY <3>1 DEF Options
    <3> QED BY <3>2, Zenon
  <2> HIDE DEF n
  <2>2. IsFiniteSet(1..n)
    <3>1. 1 \in Int /\ n \in Int
      BY <2>1
    <3> QED BY <3>1, FS_Interval, Zenon
  <2>3. Starts(s) = {[tag |-> "monitor", id |-> s, index |-> i] : i \in 1..n}
    BY Zenon DEF Starts, Indices, n
  <2>4. /\ f \in [1..n -> Starts(s)]
        /\ \A x \in Starts(s) : \E i \in 1..n : f[i] = x
    BY <2>3, Zenon
  <2>5. f \in Surjection(1..n, Starts(s))
    <3> HIDE DEF f
    <3> QED BY <2>4, Zenon DEF Surjection
  <2> HIDE DEF f
  <2> QED BY <2>2, <2>5, FS_Surjection, Zenon
<1> DEFINE D == {Starts(s) : s \in Services}
           g == [s \in Services |-> Starts(s)]
<1>2. g \in [Services -> D] /\ \A x \in D : \E s \in Services : g[s] = x
  BY Zenon
<1>3. g \in Surjection(Services, D)
  <2> HIDE DEF g, D
  <2> QED BY <1>2, Zenon DEF Surjection
<1>4. \A T \in D : IsFiniteSet(T)
  BY <1>1, Zenon
<1> HIDE DEF g, D
<1>5. IsFiniteSet(D)
  BY <1>3, MonitorAssumption, FS_Surjection, Zenon
<1>6. IsFiniteSet(UNION D)
  BY <1>4, <1>5, FS_UNION, Zenon
<1> QED BY <1>6, Zenon DEF AllStarts, D

(* In the first mailbox each index of each service is in one message.      *)
LEMMA FirstMessages ==
    ASSUME Init
    PROVE  /\ mailbox \in Seq(In(mailbox))
           /\ \A m \in In(mailbox) :
                 /\ m.tag = "monitor" /\ m.id \in Services
                 /\ m.index \in Indices(m.id)
           /\ \A s, i : Single(Mailed(mailbox, s, i))
<1>1. options \in [Services -> Scenarios] /\ mailbox \in SetToSeqs(AllStarts)
  BY Zenon DEF Init, AllStarts
<1>2. PICK n : n = Cardinality(AllStarts)
  BY Zenon
<1>3. n \in Nat
  BY <1>1, <1>2, StartsFinite, FS_CardinalityType, Zenon
<1>4. /\ mailbox \in [1..n -> AllStarts]
      /\ \A j, k \in 1..n : j # k => mailbox[j] # mailbox[k]
  BY <1>1, <1>2, Zenon DEF SetToSeqs
<1>5. /\ mailbox \in Seq(AllStarts) /\ Len(mailbox) = n
  <2>1. \A S : \A f \in [1..n -> S] : f \in Seq(S) /\ Len(f) = n
    BY <1>3
  <2> QED BY <2>1, <1>4, Zenon
<1>6. mailbox \in Seq(In(mailbox)) /\ In(mailbox) \subseteq AllStarts
  BY <1>5, InSet, Zenon
<1>7. ASSUME NEW m \in AllStarts
      PROVE  /\ m = [tag |-> "monitor", id |-> m.id, index |-> m.index]
             /\ m.tag = "monitor" /\ m.id \in Services
             /\ m.index \in Indices(m.id)
  <2>1. PICK s \in Services : m \in Starts(s)
    BY Zenon DEF AllStarts
  <2>2. PICK i \in Indices(s) : m = [tag |-> "monitor", id |-> s, index |-> i]
    BY <2>1, Zenon DEF Starts
  <2>3. m.tag = "monitor" /\ m.id = s /\ m.index = i
    BY <2>2
  <2> QED BY <2>2, <2>3, Zenon
<1>8. ASSUME NEW s, NEW i, NEW j \in Mailed(mailbox, s, i),
             NEW k \in Mailed(mailbox, s, i)
      PROVE  j = k
  <2>1. /\ j \in 1..n /\ k \in 1..n
        /\ ToStart(mailbox[j], s, i) /\ ToStart(mailbox[k], s, i)
    BY <1>5, Zenon DEF Mailed
  <2>2. PICK a, b : a = mailbox[j] /\ b = mailbox[k]
    BY Zenon
  <2>3. a \in AllStarts /\ b \in AllStarts
    BY <2>1, <2>2, <1>4, Zenon
  <2>4. /\ a = [tag |-> "monitor", id |-> a.id, index |-> a.index]
        /\ b = [tag |-> "monitor", id |-> b.id, index |-> b.index]
        /\ a.tag \notin Stages /\ b.tag \notin Stages
    <3>1. a.tag = "monitor" /\ b.tag = "monitor"
      BY <2>3, <1>7, Zenon
    <3>2. "monitor" \notin Stages
      BY DEF Stages
    <3> QED BY <3>1, <3>2, <2>3, <1>7, Zenon
  <2>5. a.id = s /\ a.index = i /\ b.id = s /\ b.index = i
    BY <2>1, <2>2, <2>4, Zenon DEF ToStart
  <2>6. a = b
    BY <2>4, <2>5, Zenon
  <2> QED BY <2>1, <2>2, <2>6, <1>4, Zenon
<1>9. \A s, i : Single(Mailed(mailbox, s, i))
  BY <1>8, Zenon DEF Single
<1> QED BY <1>6, <1>7, <1>9, Zenon

(* The invariant holds at first.                                           *)
LEMMA InvInit ==
    ASSUME Init
    PROVE  Inv
<1>1. /\ alive = {} /\ signals = {} /\ services = {} /\ timers = {}
      /\ options \in [Services -> Scenarios] /\ wait = NoWait
      /\ configured = Services /\ next_pid = 1 /\ now = 0 /\ calls = 0
      /\ restarts = [s \in Services |-> [i \in Indices(s) |-> <<>>]]
  BY Zenon DEF Init
<1>2. /\ mailbox \in Seq(In(mailbox))
      /\ \A m \in In(mailbox) :
            /\ m.tag = "monitor" /\ m.id \in Services
            /\ m.index \in Indices(m.id)
      /\ \A s, i : Single(Mailed(mailbox, s, i))
  BY FirstMessages, Zenon
<1>3. wait.kind = "none"
  BY <1>1 DEF NoWait
<1>4. Shape(wait) /\ Ended /\ Begun
  BY <1>1, <1>3 DEF Shape, Ended, Begun
<1>5. Rest
  <2>1. 0 \in 0..MaxTime /\ 0 \in Nat
    BY MonitorAssumption
  <2> QED BY <2>1, <1>1, Zenon DEF Rest
<1>6. Table
  BY <1>1, Zenon DEF Table, NoOrphans, KnownAlive
<1>7. Living
  <2>1. 1 \in 1..MaxPids + 1
    BY MonitorAssumption
  <2> QED BY <2>1, <1>1, Zenon DEF Living, OneGeneration
<1>8. /\ \A s \in Services : \A i \in Indices(s) : restarts[s][i] = <<>>
      /\ restarts = [s \in Services |-> [i \in Indices(s) |-> restarts[s][i]]]
  <2>1. \A s \in Services : \A i \in Indices(s) : restarts[s][i] = <<>>
    BY <1>1, Zenon
  <2> QED BY <2>1, <1>1
<1>9. Histories
  <2>1. \A r : History(r, <<>>)
    <3>1. <<>> \in Seq(0..now) /\ 1..Len(<<>>) = {}
      OBVIOUS
    <3> QED BY <3>1, Zenon DEF History
  <2> QED BY <2>1, <1>8, Zenon DEF Histories
<1>10. Mail
  <2>1. ASSUME NEW m \in In(mailbox) PROVE MessageOK(m)
    <3>1. m.tag \notin Stages /\ m.tag # "stage3" /\ m.tag # "DOWN"
      BY <1>2 DEF Stages
    <3> QED BY <3>1, <1>2, <1>8, Zenon DEF MessageOK
  <2> QED BY <2>1, <1>1, <1>2, Zenon DEF Mail
<1>11. Recorded
  <2>1. "monitor" \notin Stages
    BY DEF Stages
  <2>2. Holders(mailbox, timers, wait, services) = {}
    BY <2>1, <1>1, <1>2, <1>3, Zenon DEF Holders
  <2> QED BY <2>2, Zenon DEF Recorded
<1>12. InOneHand
  <2> SUFFICES ASSUME NEW s \in Services, NEW i \in Indices(s)
               PROVE  Fits(Live(alive, s, i), Mailed(mailbox, s, i),
                           Timed(timers, s, i), Blocked(wait, s, i),
                           Covered(wait), Listed(services, s, i))
    BY Zenon DEF InOneHand, Hands
  <2>1. /\ Live(alive, s, i) = {} /\ Timed(timers, s, i) = {}
        /\ Listed(services, s, i) = {} /\ ~Blocked(wait, s, i)
    BY <1>1, <1>3, Zenon DEF Live, Timed, Listed, Blocked
  <2> QED BY <2>1, <1>2, Zenon DEF Fits, Single
<1> QED BY <1>4, <1>5, <1>6, <1>7, <1>9, <1>10, <1>11, <1>12, Zenon DEF Inv

(* A stuttering step.                                                      *)
LEMMA StepStutter ==
    ASSUME Inv, UNCHANGED vars
    PROVE  Inv'
<1>1. UNCHANGED <<alive, signals, next_pid, services, mailbox, timers, wait,
                  options, configured, now, restarts, calls>>
  BY Zenon DEF vars, proc_vars
<1>2. /\ \A a \in alive' : ProcessOK(a) /\ \E b \in alive : Same(a, b)
      /\ \A a, b \in alive' : a.pid = b.pid => a = b
      /\ \A p : Alive(p)' <=> Alive(p)
  BY <1>1, Unmoved, Zenon
<1>3. mailbox \in Seq(In(mailbox)) /\ calls \in Nat
  BY Parts, Zenon DEF Rest
<1>4. (NoOrphans /\ KnownAlive)'
  <2>1. NoOrphans /\ KnownAlive
    BY Parts, Zenon
  <2>2. NoOrphans'
    BY <2>1, <1>1, Zenon DEF NoOrphans, Known, Starting, MustEnd, InMailbox,
                             TerminateEnd
  <2>3. KnownAlive'
    BY <2>1, <1>1, <1>2, Zenon DEF KnownAlive, DownDue
  <2> QED BY <2>2, <2>3
<1>5. (Shape(wait) /\ Ended /\ Begun)'
  <2>1. Shape(wait) /\ Ended /\ Begun
    BY Parts, Zenon
  <2>2. Shape(wait)'
    BY <2>1, <1>1, Zenon DEF Shape
  <2>3. \A p : Known(p)' = Known(p)
    BY <1>1, Zenon DEF Known
  <2>4. \A p : DownDue(p)' <=> DownDue(p)
    BY <1>1, Zenon DEF DownDue
  <2>5. Ended' /\ Begun'
    BY <2>1, <2>3, <2>4, <1>1, <1>2, Zenon DEF Ended, Begun
  <2> QED BY <2>2, <2>5
<1>6. mailbox' \in Seq(In(mailbox')) /\ Fewer(mailbox, mailbox')
  BY <1>1, <1>3, Zenon DEF Fewer
<1>7. /\ UNCHANGED <<options, now, restarts, next_pid>>
      /\ configured' \subseteq configured /\ calls' \in Nat
      /\ \A x \in signals' : x \in signals \/ Alive(x.pid)
      /\ \A m \in In(mailbox') \cup timers' :
              \/ m \in In(mailbox) \cup timers
              \/ Plain(m)
              \/ m.tag = "DOWN" /\ m.pid \in 1..next_pid - 1 /\ ~Alive(m.pid)'
      /\ \A m \in timers' : m \in timers \/ Plain(m)
      /\ services' \subseteq services
  BY <1>1, <1>3, Zenon
<1>8. Holds(wait') =>
              /\ Holds(wait) /\ wait'.id = wait.id
              /\ wait'.service = wait.service
              /\ \A s, i : Blocked(wait', s, i) =>
                    /\ Live(alive, s, i) \subseteq Covered(wait) =>
                          Live(alive', s, i) \subseteq Covered(wait')
  BY <1>1, Zenon
<1> QED BY <1>2, <1>4, <1>5, <1>6, <1>7, <1>8, Quiet, Zenon

(* Every step of the monitor and of its surroundings keeps the invariant.  *)
LEMMA InvNext ==
    ASSUME Inv, [Next]_vars
    PROVE  Inv'
<1>1. CASE Monitor
  <2>1. CASE HandleMonitor
    BY <2>1, StepMonitor
  <2>2. CASE HandleShutdown
    BY <2>2, StepShutdown
  <2>3. CASE \/ HandleRestart \/ HandleTerminateBegin \/ HandleTerminateEnd
             \/ HandleInitEnd \/ HandleDownUnknown
    BY <2>3, HandledOthers
  <2>4. CASE HandleDownShutdown
    BY <2>4, StepDownShutdown
  <2>5. CASE HandleDownDynamic
    BY <2>5, StepDownDynamic
  <2>6. CASE HandleDownError
    BY <2>6, StepDownError
  <2>7. CASE HandleStage2 \/ HandleStage3
    BY <2>7, StepHandleStage
  <2>8. CASE WaitTerminated
    BY <2>8, StepWaitTerminated
  <2>9. CASE ShutdownDone
    BY <2>9, StepShutdownDone
  <2>10. CASE RestartTerminated
    BY <2>10, StepRestartTerminated
  <2>11. CASE WaitInitialized
    BY <2>11, StepWaitInitialized
  <2>12. CASE RestartDone
    BY <2>12, StepRestartDone
  <2> QED BY <1>1, <2>1, <2>2, <2>3, <2>4, <2>5, <2>6, <2>7, <2>8, <2>9,
             <2>10, <2>11, <2>12, Zenon DEF Monitor
<1>2. CASE \E a \in alive : \/ Initialized(a) \/ Fails(a) \/ Signalled(a)
                            \/ Killed(a) \/ TerminateEnds(a)
  BY <1>2, StepProcess, Zenon
<1>3. CASE \E m \in timers : TimerFires(m)
  BY <1>3, StepTimerFires, Zenon
<1>4. CASE \E s \in Services : Call("shutdown", s) \/ Call("restart", s)
  <2>1. PICK s \in Services : Call("shutdown", s) \/ Call("restart", s)
    BY <1>4, Zenon
  <2>2. "shutdown" \in {"shutdown", "restart"}
        /\ "restart" \in {"shutdown", "restart"}
    OBVIOUS
  <2> QED BY <2>1, <2>2, StepCall, Zenon
<1>5. CASE Tick
  BY <1>5, StepTick
<1>6. CASE UNCHANGED vars
  BY <1>6, StepStutter
<1> QED BY <1>1, <1>2, <1>3, <1>4, <1>5, <1>6, Zenon DEF Next

(* Each index of a service is in one hand, whatever ends, fails or is      *)
(* called, and in whatever order.                                          *)
THEOREM MonitorInvariant == Spec => []Inv
<1>1. Init => Inv
  BY InvInit
<1>2. Inv /\ [Next]_vars => Inv'
  BY InvNext
<1> QED BY <1>1, <1>2, PTL DEF Spec

(* TypeOK, NoOrphans and KnownAlive of the table and the processes.        *)
THEOREM ProcessesAreWatched == Spec => []ProcessesWatched
<1>1. ASSUME Inv PROVE ProcessesWatched
  <2>1. /\ mailbox \in Seq(In(mailbox)) /\ NoOrphans /\ KnownAlive
        /\ \A a \in alive : ProcessOK(a)
        /\ \A x \in signals : x.pid \in 1..next_pid - 1
        /\ next_pid \in 1..MaxPids + 1
        /\ \A h \in Holders(mailbox, timers, wait, services) : HolderOK(h)
        /\ \A e \in services :
              e.id \in Services /\ e.pid \in In(e.service.pids)
        /\ Shape(wait) /\ Rest
    BY <1>1, Parts, Zenon
  <2>2. Records = Holders(mailbox, timers, wait, services)
    <3>1. ToSet(mailbox) = In(mailbox)
      BY <2>1, InSet, Zenon
    <3> QED BY <3>1, Zenon DEF Records, Holders, Stages
  <2>3. \A h \in Records :
           /\ h.service \in [index : Indices(h.id), pids : Seq(1..MaxPids),
                             restart_count : 0..options[h.id].max_r,
                             restart_times : Seq(0..MaxTime)]
           /\ h.service.restart_count = Len(h.service.restart_times)
    BY <2>1, <2>2, Zenon DEF HolderOK, RecordOK
  <2>4. \A e \in services : e.pid \in ToSet(e.service.pids)
    <3> TAKE e \in services
    <3>1. e \in Records
      BY Zenon DEF Records
    <3>2. e.service.pids \in Seq(1..MaxPids)
      BY <3>1, <2>3
    <3>3. ToSet(e.service.pids) = In(e.service.pids)
      BY <3>2, InSet, Zenon
    <3> QED BY <3>3, <2>1, Zenon
  <2>5. \A a \in alive :
           /\ a.pid \in 1..next_pid - 1
           /\ a.service \in Services /\ a.index \in Indices(a.service)
           /\ a.state \in {"init", "up", "ending"}
    BY <2>1, Zenon DEF ProcessOK
  <2>6. wait.kind \in {"none", "shutdown", "restart", "init"}
    BY <2>1, Zenon DEF Shape
  <2>7. /\ options \in [Services -> Scenarios] /\ configured \subseteq Services
        /\ now \in 0..MaxTime /\ calls \in Nat
    BY <2>1, Zenon DEF Rest
  <2>8. TypeOK
    BY <2>1, <2>3, <2>4, <2>5, <2>6, <2>7, Zenon DEF TypeOK
  <2> QED BY <2>1, <2>8, Zenon DEF ProcessesWatched
<1> QED BY <1>1, MonitorInvariant, PTL

(* OneGeneration: restart_stage1 ends the whole group, and nobody else     *)
(* starts its index meanwhile.                                             *)
THEOREM GenerationsApart == Spec => []OneGeneration
<1>1. ASSUME Inv PROVE OneGeneration
  BY <1>1, Parts, Zenon
<1> QED BY <1>1, MonitorInvariant, PTL

(* RestartBound: restart_times has a place for each restart that counts.   *)
THEOREM RestartsBounded == Spec => []RestartBound
<1>1. ASSUME Inv PROVE RestartBound
  <2>1. \A s \in Services : \A i \in Indices(s) :
          History(options[s].max_r, restarts[s][i])
    BY <1>1, Parts, Zenon DEF Histories
  <2> SUFFICES ASSUME NEW s \in Services, NEW i \in Indices(s),
                      NEW k \in DOMAIN restarts[s][i],
                      k + options[s].max_r \in DOMAIN restarts[s][i]
               PROVE  restarts[s][i][k + options[s].max_r]
                         - restarts[s][i][k] > MaxT
    BY Zenon DEF RestartBound
  <2>2. PICK t, r : t = restarts[s][i] /\ r = options[s].max_r
    BY Zenon
  <2>3. History(r, t) /\ k \in DOMAIN t /\ k + r \in DOMAIN t
    BY <2>1, <2>2, Zenon
  <2>4. DOMAIN t = 1..Len(t)
    <3>1. t \in Seq(0..now)
      BY <2>3, Zenon DEF History
    <3> QED BY <3>1
  <2>5. t[k + r] - t[k] > MaxT
    BY <2>3, <2>4, Zenon DEF History
  <2> QED BY <2>2, <2>5, Zenon
<1> QED BY <1>1, MonitorInvariant, PTL
=============================================================================
