------------------------ MODULE RequestQueue_proofs ------------------------
(***************************************************************************)
(* Proofs about RequestQueue, for any requests, info messages, priorities, *)
(* limits and options, duplicates of requests, failing callbacks and       *)
(* updates included: callbacks and updates take turns, and the dispatcher  *)
(* never holds its queues without something that will set them going.      *)
(*                                                                         *)
(* The data of the messages does not matter here.  What matters is which   *)
(* kinds of messages are in the mailbox, which callback processes there    *)
(* are, and how far an update is.                                          *)
(***************************************************************************)
EXTENDS RequestQueue, TLAPS, SequenceTheorems, FiniteSetTheorems

-----------------------------------------------------------------------------
(* The inductive invariant                                                 *)

\* The messages of a mailbox, and the places of those with the given tags.
In(q) == {q[i] : i \in 1..Len(q)}
Of(q, tags) == {i \in 1..Len(q) : q[i].tag \in tags}
Single(S) == \A x, y \in S : x = y

Kinds == {"request", "info"}
ResultTags == {"request_result", "info_result"}

\* Callback processes, one of each pid.  The only ones that may run a request
\* or an info message are the current ones, which are two different ones.
Pool(ws, rpid, ipid, next) ==
    /\ next \in Nat \ {0}
    /\ \A w \in ws :
          /\ w = [pid |-> w.pid, uses |-> w.uses, job |-> w.job]
          /\ w.pid \in 1..next - 1
          /\ w.job.kind = "request" => w.pid = rpid
          /\ w.job.kind = "info" => w.pid = ipid
    /\ \A v, w \in ws : v.pid = w.pid => v = w
    /\ rpid \in (1..next - 1) \cup {Undefined}
    /\ ipid \in (1..next - 1) \cup {Undefined}
    /\ rpid # Undefined => rpid # ipid

\* A result is a record with the fields of a message.
Shaped(m) ==
    m = [tag |-> m.tag, id |-> m.id, timeout |-> m.timeout,
         priority |-> m.priority, size |-> m.size, pid |-> m.pid,
         how |-> m.how, state |-> m.state]

MailOK(q) ==
    /\ q \in Seq(In(q))
    /\ \A m \in In(q) :
          /\ m.tag \in ResultTags => Shaped(m)
          /\ m.tag = "update" =>
                m.plan \in Plan /\ m.plan.set /\ ~m.plan.update_now
          /\ m.tag = "update_now" => m.start \in BOOLEAN

\* What the proofs need of the types.
Typed ==
    /\ MailOK(mailbox)
    /\ queue_requests \in BOOLEAN
    /\ update_plan \in Plan
    /\ update \in {"none", "start", "ready", "now", "ok", "error"}
    /\ Pool(workers, request_pid, info_pid, next_pid)

\* A callback that runs, or whose result was not seen, is the only one, and
\* was given the current service state.
OneRuns ==
    /\ Single(Busy) /\ Single(Of(mailbox, ResultTags))
    /\ Busy = {} \/ Of(mailbox, ResultTags) = {}
    /\ ~queue_requests => Busy = {} /\ Of(mailbox, ResultTags) = {}
    /\ \A w \in Busy : w.job.state = service_state
    /\ \A m \in In(mailbox) :
          m.tag \in ResultTags => m.state = service_state + 1

\* A current process is there, or the result is that it exited with, or the
\* exit of a process is in the mailbox and will stop the dispatcher.
There(ws, pid) == pid # Undefined => \E w \in ws : w.pid = pid
ExitedWith(pid, tag) == \E m \in In(mailbox) : m.tag = tag /\ m.pid = pid
CurrentThere ==
    Of(mailbox, {"exit"}) = {} =>
        /\ \/ There(workers, request_pid)
           \/ ExitedWith(request_pid, "request_result")
        /\ \/ There(workers, info_pid)
           \/ ExitedWith(info_pid, "info_result")

\* Nothing runs before the dispatcher is initialized.
Starting ==
    /\ Of(mailbox, {"init_execute"}) \subseteq {1}
    /\ Of(mailbox, {"init_execute"}) # {} =>
          /\ Busy = {} /\ Of(mailbox, ResultTags) = {}
          /\ queue_requests /\ ~update_plan.set

\* Something will end the callback that was running.
Due == \/ Busy # {} \/ Of(mailbox, ResultTags) # {}
       \/ Of(mailbox, {"exit"}) # {}

\* How far the services monitor is agrees with the plan of the dispatcher.
\* The plan's queue_requests says whether the callback that was running when
\* the plan came still runs; update_pending, that a sync update waits for it.
Updating ==
    /\ Single(Of(mailbox, {"update"})) /\ Single(Of(mailbox, {"update_now"}))
    /\ Of(mailbox, {"update"}) # {} => update = "start" /\ ~update_plan.set
    /\ Of(mailbox, {"update_now"}) # {} =>
          update = "now" /\ update_plan.set /\ ~update_plan.update_now
    /\ update = "ready" => update_plan.set /\ ~update_plan.update_now
    /\ update_plan.set =>
          /\ queue_requests
          /\ update \in {"start", "ready", "now"}
          /\ update = "start" <=> update_plan.update_pending
          /\ update_plan.update_now => update = "now"
          /\ \/ update_plan.queue_requests
             \/ ~update_plan.update_pending /\ ~update_plan.update_now
          /\ update_plan.sync /\ update_plan.queue_requests =>
                update_plan.update_pending
          /\ IF update_plan.queue_requests THEN Due
             ELSE Busy = {} /\ Of(mailbox, ResultTags) = {}

\* The queues are held for a reason.
Held ==
    queue_requests =>
        \/ Of(mailbox, {"init_execute"}) # {}
        \/ Due
        \/ /\ update_plan.set /\ ~update_plan.update_now
           /\ update \in {"ready", "now"}

\* While the queues are not held they are empty.
Drained ==
    ~queue_requests => Waiting = {} /\ queued_info = <<>> /\ ~update_plan.set

InTurn ==
    status = "up" =>
        /\ OneRuns /\ CurrentThere /\ Starting /\ Updating /\ Held /\ Drained

-----------------------------------------------------------------------------
(* The mailbox                                                             *)

(* A message is sent.                                                      *)
LEMMA Sent ==
    ASSUME NEW q, q \in Seq(In(q)), NEW m
    PROVE  /\ Append(q, m) \in Seq(In(Append(q, m)))
           /\ In(Append(q, m)) = In(q) \cup {m}
           /\ \A tags :
                 /\ m.tag \notin tags =>
                       Of(Append(q, m), tags) = Of(q, tags)
                 /\ m.tag \in tags => Of(Append(q, m), tags) # {}
                 /\ m.tag \in tags /\ Of(q, tags) = {} =>
                       Single(Of(Append(q, m), tags))
<1> DEFINE r == Append(q, m)
<1>1. q \in Seq(In(q) \cup {m}) /\ m \in In(q) \cup {m}
  OBVIOUS
<1>2. /\ r \in Seq(In(q) \cup {m})
      /\ Len(q) \in Nat /\ Len(r) = Len(q) + 1
      /\ \A i \in 1..Len(q) : r[i] = q[i]
      /\ r[Len(q) + 1] = m
  BY <1>1
<1> HIDE DEF r
<1>3. In(r) = In(q) \cup {m}
  <2>1. In(r) \subseteq In(q) \cup {m}
    <3>1. \A i \in 1..Len(r) : r[i] \in In(q) \cup {m}
      BY <1>2
    <3> QED  BY <3>1, Zenon DEF In
  <2>2. ASSUME NEW i \in 1..Len(q) PROVE q[i] \in In(r)
    BY <1>2 DEF In
  <2>3. m \in In(r)
    BY <1>2 DEF In
  <2> QED  BY <2>1, <2>2, <2>3 DEF In
<1>4. ASSUME NEW tags, m.tag \notin tags PROVE Of(r, tags) = Of(q, tags)
  BY <1>2, <1>4 DEF Of
<1>5. ASSUME NEW tags, m.tag \in tags PROVE Len(q) + 1 \in Of(r, tags)
  BY <1>2, <1>5 DEF Of
<1>6. ASSUME NEW tags, m.tag \in tags, Of(q, tags) = {}
      PROVE  Of(r, tags) \subseteq {Len(q) + 1}
  BY <1>2, <1>6 DEF Of
<1> QED
  BY <1>2, <1>3, <1>4, <1>5, <1>6 DEF r, Single

(* The first message is taken.                                             *)
LEMMA Taken ==
    ASSUME NEW q, q \in Seq(In(q)), q # <<>>
    PROVE  /\ Tail(q) \in Seq(In(Tail(q)))
           /\ In(Tail(q)) \subseteq In(q)
           /\ Head(q) \in In(q)
           /\ \A m \in In(q) : m = Head(q) \/ m \in In(Tail(q))
           /\ \A tags :
                 /\ Single(Of(q, tags)) => Single(Of(Tail(q), tags))
                 /\ Of(q, tags) = {} => Of(Tail(q), tags) = {}
                 /\ Head(q).tag \notin tags =>
                       (Of(Tail(q), tags) = {} <=> Of(q, tags) = {})
                 /\ Head(q).tag \in tags /\ Single(Of(q, tags)) =>
                       Of(Tail(q), tags) = {}
                 /\ Of(q, tags) \subseteq {1} => Of(Tail(q), tags) = {}
                 /\ Head(q).tag \in tags => Of(q, tags) # {}
<1> DEFINE r == Tail(q)
<1>1. /\ r \in Seq(In(q))
      /\ Len(q) \in Nat \ {0} /\ Len(r) = Len(q) - 1
      /\ \A i \in 1..Len(r) : r[i] = q[i + 1]
      /\ Head(q) = q[1]
  OBVIOUS
<1> HIDE DEF r
<1>2. \A i \in 1..Len(r) : i + 1 \in 1..Len(q)
  BY <1>1
<1>3. \A i \in 1..Len(q) : i = 1 \/ (i - 1 \in 1..Len(r) /\ r[i - 1] = q[i])
  BY <1>1
<1>4. In(r) \subseteq In(q) /\ Head(q) \in In(q)
  BY <1>1, <1>2 DEF In
<1>5. ASSUME NEW m \in In(q) PROVE m = Head(q) \/ m \in In(r)
  <2>1. PICK i \in 1..Len(q) : m = q[i]
    BY DEF In
  <2>2. CASE i = 1
    BY <1>1, <2>1, <2>2
  <2>3. CASE i # 1
    BY <1>3, <2>1, <2>3 DEF In
  <2> QED  BY <2>2, <2>3
<1>6. \A tags : \A i \in Of(r, tags) : i + 1 \in Of(q, tags) /\ i \in Nat
                                       /\ i >= 1
  BY <1>1, <1>2 DEF Of
<1>7. \A tags : \A i \in Of(q, tags) : i = 1 \/ i - 1 \in Of(r, tags)
  BY <1>1, <1>3 DEF Of
<1>8. \A tags : 1 \in Of(q, tags) <=> Head(q).tag \in tags
  BY <1>1 DEF Of
<1>9. ASSUME NEW tags, Single(Of(q, tags)) PROVE Single(Of(r, tags))
  BY <1>6, <1>9 DEF Single
<1>10. ASSUME NEW tags, Head(q).tag \notin tags
       PROVE  Of(r, tags) = {} <=> Of(q, tags) = {}
  BY <1>6, <1>7, <1>8, <1>10
<1>11. ASSUME NEW tags, Of(q, tags) \subseteq {1} PROVE Of(r, tags) = {}
  BY <1>6, <1>11
<1>12. ASSUME NEW tags, Head(q).tag \in tags, Single(Of(q, tags))
       PROVE  Of(r, tags) = {}
  BY <1>8, <1>11, <1>12 DEF Single
<1>13. r \in Seq(In(r))
  <2>1. r = [i \in 1..Len(r) |-> r[i]]
    BY <1>1
  <2>2. r \in [1..Len(r) -> In(r)]
    BY <2>1 DEF In
  <2> QED  BY <1>1, <2>2
<1> QED
  BY <1>4, <1>5, <1>6, <1>8, <1>9, <1>10, <1>11, <1>12, <1>13 DEF r

-----------------------------------------------------------------------------
(* The callback processes                                                  *)

Free(ws) == \A w \in ws : w.job.kind \notin Kinds
Runs(ws) == {w \in ws : w.job.kind \in Kinds}

(* The atom undefined is not a pid.                                        *)
LEMMA Undef == Undefined \notin Nat
BY QueueAssumption

(* A job is given to a process: it is the only one that runs, and it is    *)
(* there if the process was.                                               *)
LEMMA JobGiven ==
    ASSUME NEW ws, NEW pid, NEW other, NEW uses, NEW job,
           job.kind \in Kinds, Free(ws),
           IF job.kind = "request" THEN Pool(ws, pid, other, next_pid)
                                   ELSE Pool(ws, other, pid, next_pid)
    PROVE  LET new == loop_pid(ws, pid, uses, job)
           IN  /\ IF job.kind = "request"
                  THEN Pool(new, NewPid(pid), other, NextPid(pid))
                  ELSE Pool(new, other, NewPid(pid), NextPid(pid))
               /\ Single(Runs(new))
               /\ \A w \in Runs(new) : w.job = job
               /\ There(ws, pid) => Runs(new) # {} /\ There(new, NewPid(pid))
               /\ There(ws, other) => There(new, other)
<1> DEFINE new == loop_pid(ws, pid, uses, job)
           fresh == [pid |-> next_pid, uses |-> uses, job |-> job]
           given(w) == [w EXCEPT !.job = job]
<1>1. /\ next_pid \in Nat \ {0}
      /\ \A w \in ws :
            /\ w = [pid |-> w.pid, uses |-> w.uses, job |-> w.job]
            /\ w.pid \in 1..next_pid - 1
            /\ w.job.kind \notin Kinds
      /\ \A v, w \in ws : v.pid = w.pid => v = w
      /\ pid \in (1..next_pid - 1) \cup {Undefined}
      /\ other \in (1..next_pid - 1) \cup {Undefined}
      /\ pid # Undefined => pid # other
  BY Undef DEF Pool, Free
<1>2. CASE pid = Undefined
  <2>1. new = ws \cup {fresh} /\ NewPid(pid) = next_pid
        /\ NextPid(pid) = next_pid + 1
    BY <1>2 DEF loop_pid, NewPid, NextPid
  <2> HIDE DEF new
  <2>2. fresh = [pid |-> fresh.pid, uses |-> fresh.uses, job |-> fresh.job]
        /\ fresh.pid = next_pid /\ fresh.job = job
    OBVIOUS
  <2> HIDE DEF fresh
  <2>3. Runs(new) = {fresh}
    BY <1>1, <2>1, <2>2 DEF Runs
  <2>4. \A w \in new : /\ w = [pid |-> w.pid, uses |-> w.uses, job |-> w.job]
                       /\ w.pid \in 1..next_pid
                       /\ w = fresh \/ w.job.kind \notin Kinds
    BY <1>1, <2>1, <2>2
  <2>5. \A v, w \in new : v.pid = w.pid => v = w
    <3> SUFFICES ASSUME NEW v \in new, NEW w \in new, v.pid = w.pid
                 PROVE  v = w
      OBVIOUS
    <3>1. \A u \in ws : u.pid # next_pid
      BY <1>1
    <3> QED  BY <1>1, <2>1, <2>2, <3>1
  <2>6. /\ next_pid + 1 \in Nat \ {0} /\ 1..(next_pid + 1) - 1 = 1..next_pid
        /\ next_pid \in 1..next_pid /\ 1..next_pid - 1 \subseteq 1..next_pid
        /\ next_pid \notin 1..next_pid - 1 /\ next_pid # Undefined
    BY <1>1, Undef
  <2>7. other # next_pid
    BY <1>1, <2>6
  <2>8. CASE job.kind = "request"
    <3>1. Pool(new, next_pid, other, next_pid + 1)
      BY <1>1, <2>2, <2>4, <2>5, <2>6, <2>7, <2>8 DEF Pool, Kinds
    <3> QED  BY <2>1, <2>2, <2>3, <2>8, <3>1 DEF new, There, Single
  <2>9. CASE job.kind = "info"
    <3>1. Pool(new, other, next_pid, next_pid + 1)
      BY <1>1, <2>2, <2>4, <2>5, <2>6, <2>7, <2>9 DEF Pool, Kinds
    <3> QED  BY <2>1, <2>2, <2>3, <2>9, <3>1 DEF new, There, Single
  <2> QED  BY <2>8, <2>9 DEF Kinds
<1>3. CASE pid # Undefined
  <2>1. /\ new = {IF w.pid = pid THEN given(w) ELSE w : w \in ws}
        /\ NewPid(pid) = pid /\ NextPid(pid) = next_pid
    BY <1>3 DEF loop_pid, NewPid, NextPid
  <2> HIDE DEF new
  <2>2. \A w \in ws : /\ given(w).pid = w.pid /\ given(w).job = job
                      /\ given(w) = [pid |-> given(w).pid,
                                     uses |-> given(w).uses,
                                     job |-> given(w).job]
    BY <1>1
  <2> HIDE DEF given
  <2>3. \A v \in new : \E w \in ws : v.pid = w.pid
                       /\ v = IF w.pid = pid THEN given(w) ELSE w
    BY <2>1, <2>2
  <2>4. \A w \in ws : \E v \in new : v.pid = w.pid
                      /\ v = IF w.pid = pid THEN given(w) ELSE w
    BY <2>1, <2>2
  <2>5. \A v \in new : /\ v = [pid |-> v.pid, uses |-> v.uses, job |-> v.job]
                       /\ v.pid \in 1..next_pid - 1
                       /\ IF v.pid = pid THEN v.job = job
                                         ELSE v.job.kind \notin Kinds
    BY <1>1, <2>2, <2>3
  <2>6. \A u, v \in new : u.pid = v.pid => u = v
    BY <1>1, <2>3
  <2>7. \A u \in Runs(new) : u.pid = pid /\ u.job = job
    BY <2>5 DEF Runs
  <2>8. Single(Runs(new))
    BY <2>6, <2>7 DEF Single, Runs
  <2>9. There(ws, pid) => Runs(new) # {} /\ There(new, pid)
    <3> SUFFICES ASSUME NEW w \in ws, w.pid = pid
                 PROVE  Runs(new) # {} /\ There(new, pid)
      BY <1>3 DEF There
    <3>1. PICK v \in new : v.pid = w.pid
      BY <2>4
    <3> QED  BY <2>5, <3>1 DEF Runs, There
  <2>10. There(ws, other) => There(new, other)
    BY <2>4 DEF There
  <2>11. CASE job.kind = "request"
    <3>1. Pool(new, pid, other, next_pid)
      BY <1>1, <2>5, <2>6, <2>11 DEF Pool, Kinds
    <3> QED  BY <2>1, <2>7, <2>8, <2>9, <2>10, <2>11, <3>1 DEF new
  <2>12. CASE job.kind = "info"
    <3>1. Pool(new, other, pid, next_pid)
      BY <1>1, <2>5, <2>6, <2>12 DEF Pool, Kinds
    <3> QED  BY <2>1, <2>7, <2>8, <2>9, <2>10, <2>12, <3>1 DEF new
  <2> QED  BY <2>11, <2>12 DEF Kinds
<1> QED  BY <1>2, <1>3

(* Processes are told to end.                                              *)
LEMMA ToldToExit ==
    ASSUME NEW ws, NEW rpid, NEW ipid, NEW rpid1, NEW ipid1, NEW pids,
           Free(ws), Pool(ws, rpid, ipid, next_pid),
           rpid1 \in {rpid, Undefined}, ipid1 \in {ipid, Undefined}
    PROVE  LET new == TellExit(ws, pids)
           IN  /\ Free(new) /\ Pool(new, rpid1, ipid1, next_pid)
               /\ There(ws, rpid) => There(new, rpid1)
               /\ There(ws, ipid) => There(new, ipid1)
<1> DEFINE new == TellExit(ws, pids)
           told(w) == [w EXCEPT !.job = LoopExit]
<1>1. new = {IF w.pid \in pids THEN told(w) ELSE w : w \in ws}
  BY DEF TellExit
<1>2. LoopExit.kind = "loop_exit"
  BY DEF LoopExit, NoJob
<1>3. \A w \in ws : /\ w = [pid |-> w.pid, uses |-> w.uses, job |-> w.job]
                    /\ w.pid \in 1..next_pid - 1
                    /\ w.job.kind \notin Kinds
  BY DEF Pool, Free
<1>4. \A w \in ws : /\ told(w).pid = w.pid /\ told(w).job = LoopExit
                    /\ told(w) = [pid |-> told(w).pid, uses |-> told(w).uses,
                                  job |-> told(w).job]
  BY <1>3
<1> HIDE DEF new, told
<1>5. \A v \in new : \E w \in ws : v.pid = w.pid
                     /\ v = IF w.pid \in pids THEN told(w) ELSE w
  BY <1>1, <1>4
<1>6. \A w \in ws : \E v \in new : v.pid = w.pid
  BY <1>1, <1>4
<1>7. \A v \in new : /\ v = [pid |-> v.pid, uses |-> v.uses, job |-> v.job]
                     /\ v.pid \in 1..next_pid - 1
                     /\ v.job.kind \notin Kinds
  BY <1>2, <1>3, <1>4, <1>5 DEF Kinds
<1>8. \A u, v \in new : u.pid = v.pid => u = v
  BY <1>5 DEF Pool
<1>9. Free(new) /\ Pool(new, rpid1, ipid1, next_pid)
  BY <1>7, <1>8, Undef DEF Free, Pool, Kinds
<1>10. /\ There(ws, rpid) => There(new, rpid1)
       /\ There(ws, ipid) => There(new, ipid1)
  BY <1>6 DEF There
<1> QED  BY <1>9, <1>10 DEF new

-----------------------------------------------------------------------------
(* The queues go on                                                        *)

\* What the queues leave: the next callback runs, or there is none and they
\* are empty, or the dispatcher has stopped.
Ran(ws, rpid, ipid, S) ==
    /\ Pool(workers', request_pid', info_pid', next_pid')
    /\ queue_requests' \in BOOLEAN
    /\ status' = "up" =>
          /\ Single(Runs(workers'))
          /\ \A w \in Runs(workers') : w.job.state = S
          /\ There(ws, rpid) /\ There(ws, ipid) =>
                /\ There(workers', request_pid')
                /\ There(workers', info_pid')
                /\ queue_requests' => Runs(workers') # {}
          /\ ~queue_requests' =>
                /\ Runs(workers') = {}
                /\ Waiting' = {} /\ queued_info' = <<>>

(* The processes that are linked to the dispatcher end with it.            *)
LEMMA Stopped ==
    ASSUME Typed, NEW why, why # "up", Stop(why)
    PROVE  status' # "up" /\ Pool(workers', request_pid', info_pid', next_pid')
BY DEF Stop, Typed, Pool

(* The jobs of requests and of info messages.                              *)
LEMMA JobKinds ==
    /\ \A r, T, S : RequestJob(r, T, S).kind = "request"
                    /\ RequestJob(r, T, S).state = S
    /\ \A i, S : InfoJob(i, S).kind = "info" /\ InfoJob(i, S).state = S
BY DEF RequestJob, InfoJob, NoJob

(* A request or an info message is handed to its process.                  *)
LEMMA RequestHanded ==
    ASSUME NEW ws, NEW rpid, NEW ipid, NEW S, NEW job,
           Free(ws), Pool(ws, rpid, ipid, next_pid),
           job.kind = "request", job.state = S, queue_requests' = TRUE,
           handle_module_request_loop_pid(ws, rpid, ipid, job)
    PROVE  Ran(ws, rpid, ipid, S)
<1> DEFINE new == loop_pid(ws, rpid, RequestPidUses, job)
<1>1. /\ workers' = new /\ request_pid' = NewPid(rpid)
      /\ next_pid' = NextPid(rpid) /\ info_pid' = ipid
  BY DEF handle_module_request_loop_pid
<1>2. /\ Pool(new, NewPid(rpid), ipid, NextPid(rpid))
      /\ Single(Runs(new))
      /\ \A w \in Runs(new) : w.job = job
      /\ There(ws, rpid) => Runs(new) # {} /\ There(new, NewPid(rpid))
      /\ There(ws, ipid) => There(new, ipid)
  BY JobGiven DEF Kinds
<1> HIDE DEF new
<1> QED  BY <1>1, <1>2 DEF Ran

(* An info message is handed to the info pid.                              *)
LEMMA InfoHanded ==
    ASSUME NEW ws, NEW rpid, NEW ipid, NEW S, NEW job,
           Free(ws), Pool(ws, rpid, ipid, next_pid),
           job.kind = "info", job.state = S, queue_requests' = TRUE,
           handle_module_info_loop_pid(ws, rpid, ipid, job)
    PROVE  Ran(ws, rpid, ipid, S)
<1> DEFINE new == loop_pid(ws, ipid, InfoPidUses, job)
<1>1. /\ workers' = new /\ info_pid' = NewPid(ipid)
      /\ next_pid' = NextPid(ipid) /\ request_pid' = rpid
  BY DEF handle_module_info_loop_pid
<1>2. /\ Pool(new, rpid, NewPid(ipid), NextPid(ipid))
      /\ Single(Runs(new))
      /\ \A w \in Runs(new) : w.job = job
      /\ There(ws, ipid) => Runs(new) # {} /\ There(new, NewPid(ipid))
      /\ There(ws, rpid) => There(new, rpid)
  BY JobGiven DEF Kinds
<1> HIDE DEF new
<1> QED  BY <1>1, <1>2 DEF Ran

(* The queues go on: a callback runs afterwards, or nothing is queued.     *)
LEMMA QueuesRun ==
    ASSUME Typed, NEW ws, NEW rpid, NEW ipid, NEW S,
           Free(ws), Pool(ws, rpid, ipid, next_pid),
           run_queues(ws, rpid, ipid, S)
    PROVE  Ran(ws, rpid, ipid, S)
<1>1. CASE process_queue_info(ws, rpid, ipid, S)
  BY <1>1, InfoHanded, JobKinds DEF process_queue_info
<1>2. CASE queued_info = <<>> /\ process_queue(ws, rpid, ipid, S)
  <2> DEFINE p == Min(Waiting)
             e == Head(queued[p])
             ref == recv_timeouts[e.id]
  <2>1. CASE /\ Waiting = {}
             /\ queue_requests' = FALSE
             /\ request_pid' = rpid /\ info_pid' = ipid /\ workers' = ws
             /\ UNCHANGED <<timers, queued, queued_size, recv_timeouts,
                            queued_info, status, next_pid>>
    <3>1. Waiting' = Waiting
      BY <2>1 DEF Waiting
    <3>2. Runs(ws) = {}
      BY DEF Free, Runs
    <3> QED  BY <1>2, <2>1, <3>1, <3>2 DEF Ran, Single
  <2>2. CASE Stop("badkey") /\ UNCHANGED <<timers, queue_vars>>
    BY <2>2, Stopped DEF Ran, Typed, queue_vars
  <2>3. CASE /\ queue_requests' = TRUE
             /\ \E T \in {t \in Timeouts : t <= e.timeout} \cup {0} :
                  handle_module_request_loop_pid(ws, rpid, ipid,
                                                 RequestJob(e.id, T, S))
    BY <2>3, RequestHanded, JobKinds
  <2> QED  BY <1>2, <2>1, <2>2, <2>3 DEF process_queue
<1> QED  BY <1>1, <1>2 DEF run_queues

(* An update is applied or fails.                                          *)
LEMMA UpdateRun ==
    ASSUME Typed, NEW ws, NEW rpid, NEW ipid, NEW S, NEW plan,
           Free(ws), Pool(ws, rpid, ipid, next_pid),
           process_update(ws, rpid, ipid, S, plan)
    PROVE  /\ update_plan' = NoPlan /\ update' \in {"ok", "error"}
           /\ Pool(workers', request_pid', info_pid', next_pid')
           /\ Ran(ws, rpid, ipid, service_state')
<1> DEFINE rpid1 == ChangedPid("request_pid", plan, rpid)
           ipid1 == ChangedPid("info_pid", plan, ipid)
           told == {rpid, ipid} \ {rpid1, ipid1}
<1>1. update_plan' = NoPlan /\ update' \in {"ok", "error"}
  BY DEF process_update
<1>2. CASE /\ service_state' = S + 1
           /\ run_queues(TellExit(ws, told), rpid1, ipid1, S + 1)
  <2>1. rpid1 \in {rpid, Undefined} /\ ipid1 \in {ipid, Undefined}
    BY DEF ChangedPid
  <2> DEFINE new == TellExit(ws, told)
  <2> HIDE DEF rpid1, ipid1, told
  <2>2. /\ Free(new) /\ Pool(new, rpid1, ipid1, next_pid)
        /\ There(ws, rpid) => There(new, rpid1)
        /\ There(ws, ipid) => There(new, ipid1)
    BY <2>1, ToldToExit
  <2> HIDE DEF new
  <2>3. Ran(new, rpid1, ipid1, service_state')
    BY <1>2, <2>2, QueuesRun DEF new
  <2> QED  BY <1>1, <2>2, <2>3 DEF Ran
<1>3. CASE /\ service_state' = S
           /\ run_queues(ws, rpid, ipid, S)
  BY <1>1, <1>3, QueuesRun DEF Ran
<1> QED  BY <1>2, <1>3 DEF process_update

-----------------------------------------------------------------------------
(* What the steps do to the mailbox                                        *)

\* The messages that matter, and those that come back when one is handled.
TagSets == {{"init_execute"}, ResultTags, {"exit"}, {"update"}, {"update_now"}}
OtherTags == {"send", "info", "recv_timeout", "forward", "terminate",
              "terminate_check", "terminate_now"}

\* The first message, with the tag h, is taken.
Took(h) ==
    /\ MailOK(mailbox')
    /\ Head(mailbox) \in In(mailbox) /\ Head(mailbox).tag = h
    /\ \A m \in In(mailbox') : m \in In(mailbox) \/ m.tag \in OtherTags
    /\ \A m \in In(mailbox) : m = Head(mailbox) \/ m \in In(mailbox')
    /\ \A tags \in TagSets :
          /\ Single(Of(mailbox, tags)) => Single(Of(mailbox', tags))
          /\ Of(mailbox, tags) = {} => Of(mailbox', tags) = {}
          /\ h \notin tags =>
                (Of(mailbox', tags) = {} <=> Of(mailbox, tags) = {})
          /\ h \in tags /\ Single(Of(mailbox, tags)) => Of(mailbox', tags) = {}
          /\ Of(mailbox, tags) \subseteq {1} => Of(mailbox', tags) = {}
          /\ h \in tags => Of(mailbox, tags) # {}

(* The other tags are not among those that matter.                         *)
LEMMA OtherIsOther ==
    \A tags \in TagSets : \A t \in OtherTags :
        /\ t \notin tags /\ t \notin ResultTags
        /\ t \notin {"update", "update_now"}
BY DEF TagSets, OtherTags, ResultTags

(* What a handler leaves in the mailbox, forwards and checks included.     *)
LEMMA Takes ==
    ASSUME Typed, NEW h, Handling(h),
           \/ mailbox' = Tail(mailbox)
           \/ \E x : x.tag \in OtherTags /\ mailbox' = Append(Tail(mailbox), x)
    PROVE  Took(h)
<1> DEFINE q == Tail(mailbox)
<1>1. /\ mailbox \in Seq(In(mailbox)) /\ mailbox # <<>>
      /\ Head(mailbox).tag = h /\ MailOK(mailbox)
  BY DEF Typed, MailOK, Handling
<1>2. /\ q \in Seq(In(q)) /\ In(q) \subseteq In(mailbox)
      /\ Head(mailbox) \in In(mailbox)
      /\ \A m \in In(mailbox) : m = Head(mailbox) \/ m \in In(q)
      /\ \A tags :
            /\ Single(Of(mailbox, tags)) => Single(Of(q, tags))
            /\ Of(mailbox, tags) = {} => Of(q, tags) = {}
            /\ Head(mailbox).tag \notin tags =>
                  (Of(q, tags) = {} <=> Of(mailbox, tags) = {})
            /\ Head(mailbox).tag \in tags /\ Single(Of(mailbox, tags)) =>
                  Of(q, tags) = {}
            /\ Of(mailbox, tags) \subseteq {1} => Of(q, tags) = {}
            /\ Head(mailbox).tag \in tags => Of(mailbox, tags) # {}
  BY <1>1, Taken, Zenon
<1>3. MailOK(q)
  BY <1>1, <1>2 DEF MailOK
<1>4. CASE mailbox' = q
  BY <1>1, <1>2, <1>3, <1>4, Zenon DEF Took
<1>5. ASSUME NEW x, x.tag \in OtherTags, mailbox' = Append(q, x)
      PROVE  Took(h)
  <2> HIDE DEF q
  <2>1. /\ mailbox' \in Seq(In(mailbox')) /\ In(mailbox') = In(q) \cup {x}
        /\ \A tags : x.tag \notin tags => Of(mailbox', tags) = Of(q, tags)
    BY <1>2, <1>5, Sent, Zenon
  <2>2. \A tags \in TagSets : Of(mailbox', tags) = Of(q, tags)
    BY <1>5, <2>1, OtherIsOther
  <2>3. MailOK(mailbox')
    BY <1>3, <1>5, <2>1 DEF MailOK, OtherTags, ResultTags
  <2>4. \A tags \in TagSets :
            /\ Single(Of(mailbox, tags)) => Single(Of(mailbox', tags))
            /\ Of(mailbox, tags) = {} => Of(mailbox', tags) = {}
            /\ h \notin tags =>
                  (Of(mailbox', tags) = {} <=> Of(mailbox, tags) = {})
            /\ h \in tags /\ Single(Of(mailbox, tags)) =>
                  Of(mailbox', tags) = {}
            /\ Of(mailbox, tags) \subseteq {1} => Of(mailbox', tags) = {}
            /\ h \in tags => Of(mailbox, tags) # {}
    BY <1>1, <1>2, <2>2, Zenon
  <2> QED  BY <1>1, <1>2, <1>5, <2>1, <2>3, <2>4 DEF Took
<1> QED  BY <1>4, <1>5

\* The messages that matter are the same.
Same ==
    /\ MailOK(mailbox')
    /\ \A m \in In(mailbox') : m \in In(mailbox) \/ m.tag \in OtherTags
    /\ \A m \in In(mailbox) : m \in In(mailbox') \/ m.tag \in OtherTags
    /\ \A tags \in TagSets :
          /\ Single(Of(mailbox, tags)) => Single(Of(mailbox', tags))
          /\ Of(mailbox', tags) = {} <=> Of(mailbox, tags) = {}
          /\ Of(mailbox, tags) \subseteq {1} => Of(mailbox', tags) \subseteq {1}

(* A message that does not matter was taken.                               *)
LEMMA TookOther ==
    ASSUME NEW h \in OtherTags, Took(h)
    PROVE  Same
<1>1. \A tags \in TagSets : h \notin tags
  BY OtherIsOther
<1>2. \A tags \in TagSets :
          /\ Single(Of(mailbox, tags)) => Single(Of(mailbox', tags))
          /\ Of(mailbox', tags) = {} <=> Of(mailbox, tags) = {}
          /\ Of(mailbox, tags) \subseteq {1} => Of(mailbox', tags) = {}
  BY <1>1 DEF Took
<1> QED  BY <1>2 DEF Took, Same

(* A message that does not matter is sent.                                 *)
LEMMA SentOther ==
    ASSUME Typed, NEW x, x.tag \in OtherTags, Post(x)
    PROVE  Same
<1>1. mailbox \in Seq(In(mailbox)) /\ MailOK(mailbox)
      /\ mailbox' = Append(mailbox, x)
  BY DEF Typed, MailOK, Post
<1> DEFINE q == Append(mailbox, x)
<1>2. /\ mailbox' \in Seq(In(mailbox')) /\ In(mailbox') = In(mailbox) \cup {x}
      /\ \A tags : x.tag \notin tags => Of(mailbox', tags) = Of(mailbox, tags)
  <2>1. /\ q \in Seq(In(q)) /\ In(q) = In(mailbox) \cup {x}
        /\ \A tags :
              /\ x.tag \notin tags => Of(q, tags) = Of(mailbox, tags)
              /\ x.tag \in tags => Of(q, tags) # {}
              /\ x.tag \in tags /\ Of(mailbox, tags) = {} =>
                    Single(Of(q, tags))
    BY <1>1, Sent, Zenon
  <2>2. mailbox' = q
    BY <1>1
  <2> HIDE DEF q
  <2> QED  BY <2>1, <2>2, Zenon
<1>3. MailOK(mailbox')
  BY <1>1, <1>2 DEF MailOK, OtherTags, ResultTags
<1>4. \A tags \in TagSets : Of(mailbox', tags) = Of(mailbox, tags)
  BY <1>2, OtherIsOther
<1> QED  BY <1>2, <1>3, <1>4 DEF Same

\* A message that matters, with the tag h, is sent.
Put(h, x) ==
    /\ MailOK(mailbox')
    /\ In(mailbox') = In(mailbox) \cup {x}
    /\ \A tags \in TagSets :
          /\ h \notin tags => Of(mailbox', tags) = Of(mailbox, tags)
          /\ h \in tags => Of(mailbox', tags) # {}
          /\ h \in tags /\ Of(mailbox, tags) = {} => Single(Of(mailbox', tags))

(* The mailbox after a message that matters was sent.                      *)
LEMMA Puts ==
    ASSUME Typed, NEW x, Post(x),
           x.tag \in ResultTags => Shaped(x),
           x.tag = "update" =>
              x.plan \in Plan /\ x.plan.set /\ ~x.plan.update_now,
           x.tag = "update_now" => x.start \in BOOLEAN
    PROVE  Put(x.tag, x)
<1>1. mailbox \in Seq(In(mailbox)) /\ MailOK(mailbox)
      /\ mailbox' = Append(mailbox, x)
  BY DEF Typed, MailOK, Post
<1> DEFINE q == Append(mailbox, x)
<1>2. /\ q \in Seq(In(q)) /\ In(q) = In(mailbox) \cup {x}
      /\ \A tags :
            /\ x.tag \notin tags => Of(q, tags) = Of(mailbox, tags)
            /\ x.tag \in tags => Of(q, tags) # {}
            /\ x.tag \in tags /\ Of(mailbox, tags) = {} =>
                  Single(Of(q, tags))
  BY <1>1, Sent, Zenon
<1> HIDE DEF q
<1>3. mailbox' = q /\ MailOK(q)
  BY <1>1, <1>2 DEF MailOK, q
<1> QED  BY <1>2, <1>3, Zenon DEF Put

-----------------------------------------------------------------------------
(* The invariant after a step                                              *)

(* The processes that run a callback, by either name.                      *)
LEMMA BusyRuns == Busy = Runs(workers)
BY DEF Busy, Runs, Kinds

(* The flags of a plan are Booleans.                                       *)
LEMMA PlanFields ==
    /\ \A f \in Plan : /\ f.set \in BOOLEAN /\ f.sync \in BOOLEAN
                       /\ f.update_pending \in BOOLEAN
                       /\ f.update_now \in BOOLEAN
                       /\ f.queue_requests \in BOOLEAN
    /\ NoPlan \in Plan /\ ~NoPlan.set
BY DEF Plan, NoPlan

(* The queues went on, without an update.                                  *)
LEMMA RanInTurn ==
    ASSUME NEW ws, NEW rpid, NEW ipid, Ran(ws, rpid, ipid, service_state'),
           MailOK(mailbox'), update_plan' \in Plan, ~update_plan'.set,
           update' \in {"none", "start", "now", "ok", "error"},
           Of(mailbox', ResultTags) = {}, Of(mailbox', {"init_execute"}) = {},
           Of(mailbox', {"exit"}) = {} => There(ws, rpid) /\ There(ws, ipid),
           Single(Of(mailbox', {"update"})), Of(mailbox', {"update_now"}) = {},
           Of(mailbox', {"update"}) # {} => update' = "start"
    PROVE  Typed' /\ InTurn'
<1>1. Busy' = Runs(workers')
  BY DEF Busy, Runs, Kinds
<1>2. Typed'
  BY DEF Typed, Ran
<1>3. \A m \in In(mailbox') : m.tag \notin ResultTags
  BY DEF In, Of
<1> SUFFICES ASSUME status' = "up"
             PROVE  /\ OneRuns' /\ CurrentThere' /\ Starting' /\ Updating'
                    /\ Held' /\ Drained'
  BY <1>2 DEF InTurn
<1>4. OneRuns'
  BY <1>1, <1>3 DEF OneRuns, Ran, Single
<1>5. CurrentThere'
  BY DEF CurrentThere, Ran
<1>6. Starting'
  BY DEF Starting
<1>7. Updating'
  BY DEF Updating, Single
<1>8. Held'
  BY <1>1 DEF Held, Due, Ran
<1>9. Drained'
  BY DEF Drained, Ran
<1> QED  BY <1>4, <1>5, <1>6, <1>7, <1>8, <1>9

(* A step that changes neither the processes nor the plan, nor the         *)
(* messages that matter.                                                   *)
LEMMA QuietInTurn ==
    ASSUME Typed, InTurn, Same,
           UNCHANGED <<status, workers, request_pid, info_pid, next_pid,
                       service_state, update_plan, update, queue_requests>>,
           status = "up" => Drained'
    PROVE  Typed' /\ InTurn'
<1>1. Busy' = Busy
  BY DEF Busy
<1>2. Typed'
  BY DEF Typed, Same
<1>3. \A m \in In(mailbox') : m.tag \in ResultTags => m \in In(mailbox)
  BY DEF Same, OtherTags, ResultTags
<1>4. \A m \in In(mailbox) : m.tag \in ResultTags => m \in In(mailbox')
  BY DEF Same, OtherTags, ResultTags
<1>5. \A tags \in TagSets :
          /\ Single(Of(mailbox, tags)) => Single(Of(mailbox', tags))
          /\ Of(mailbox', tags) = {} <=> Of(mailbox, tags) = {}
          /\ Of(mailbox, tags) \subseteq {1} => Of(mailbox', tags) \subseteq {1}
  BY DEF Same
<1>6. /\ {"init_execute"} \in TagSets /\ ResultTags \in TagSets
      /\ {"exit"} \in TagSets /\ {"update"} \in TagSets
      /\ {"update_now"} \in TagSets
  BY DEF TagSets
<1> SUFFICES ASSUME status = "up"
             PROVE  /\ OneRuns' /\ CurrentThere' /\ Starting' /\ Updating'
                    /\ Held' /\ Drained'
  BY <1>2 DEF InTurn
<1>7. OneRuns /\ CurrentThere /\ Starting /\ Updating /\ Held
  BY DEF InTurn
<1>8. OneRuns'
  BY <1>1, <1>3, <1>5, <1>6, <1>7 DEF OneRuns
<1>9. CurrentThere'
  <2>1. \A pid : \A tag \in ResultTags :
           ExitedWith(pid, tag) => ExitedWith(pid, tag)'
    BY <1>4 DEF ExitedWith
  <2> QED  BY <1>5, <1>6, <1>7, <2>1 DEF CurrentThere, ResultTags
<1>10. Starting'
  BY <1>1, <1>5, <1>6, <1>7 DEF Starting
<1>11. Due' <=> Due
  BY <1>1, <1>5, <1>6 DEF Due
<1>12. Updating'
  BY <1>1, <1>5, <1>6, <1>7, <1>11 DEF Updating
<1>13. Held'
  BY <1>5, <1>6, <1>7, <1>11 DEF Held
<1> QED  BY <1>8, <1>9, <1>10, <1>12, <1>13

(* The dispatcher stops.                                                   *)
LEMMA StopInTurn ==
    ASSUME Typed, NEW why, why # "up", Stop(why), MailOK(mailbox'),
           UNCHANGED <<queue_requests, update_plan, update>>
    PROVE  Typed' /\ InTurn'
<1>1. status' # "up" /\ Pool(workers', request_pid', info_pid', next_pid')
  BY Stopped
<1> QED  BY <1>1 DEF Typed, InTurn

(* A message that ends the callback, or the initialization, was taken.     *)
LEMMA TookTurn ==
    ASSUME Typed, InTurn, status = "up",
           NEW h \in {"init_execute", "request_result", "info_result"}, Took(h)
    PROVE  /\ Busy = {} /\ Free(workers)
           /\ Of(mailbox', ResultTags) = {}
           /\ Of(mailbox', {"init_execute"}) = {}
           /\ Of(mailbox', {"exit"}) = {} <=> Of(mailbox, {"exit"}) = {}
           /\ Single(Of(mailbox', {"update"}))
           /\ Of(mailbox', {"update"}) # {} => Of(mailbox, {"update"}) # {}
           /\ Single(Of(mailbox', {"update_now"}))
           /\ Of(mailbox', {"update_now"}) # {} =>
                 Of(mailbox, {"update_now"}) # {}
<1>1. OneRuns /\ Starting /\ Updating
  BY DEF InTurn
<1>2. /\ {"init_execute"} \in TagSets /\ ResultTags \in TagSets
      /\ {"exit"} \in TagSets /\ {"update"} \in TagSets
      /\ {"update_now"} \in TagSets
  BY DEF TagSets
<1>3. Busy = {} /\ Of(mailbox', ResultTags) = {}
  <2>1. CASE h = "init_execute"
    <3>1. Of(mailbox, {"init_execute"}) # {}
      BY <1>2, <2>1 DEF Took
    <3>2. Busy = {} /\ Of(mailbox, ResultTags) = {}
      BY <1>1, <3>1 DEF Starting
    <3> QED  BY <1>2, <3>2 DEF Took
  <2>2. CASE h \in ResultTags
    <3>1. Of(mailbox, ResultTags) # {}
      BY <1>2, <2>2 DEF Took
    <3>2. Busy = {} /\ Single(Of(mailbox, ResultTags))
      BY <1>1, <3>1 DEF OneRuns
    <3> QED  BY <1>2, <2>2, <3>2 DEF Took
  <2> QED  BY <2>1, <2>2 DEF ResultTags
<1>4. Of(mailbox', {"init_execute"}) = {}
  BY <1>1, <1>2 DEF Took, Starting
<1>5. Of(mailbox', {"exit"}) = {} <=> Of(mailbox, {"exit"}) = {}
  BY <1>2 DEF Took
<1>6. /\ Single(Of(mailbox', {"update"}))
      /\ Of(mailbox', {"update"}) # {} => Of(mailbox, {"update"}) # {}
      /\ Single(Of(mailbox', {"update_now"}))
      /\ Of(mailbox', {"update_now"}) # {} => Of(mailbox, {"update_now"}) # {}
  BY <1>1, <1>2 DEF Took, Updating
<1>7. Free(workers)
  BY <1>3 DEF Free, Busy, Kinds
<1> QED  BY <1>3, <1>4, <1>5, <1>6, <1>7

(* The queues go on, or an update that waited is applied or reported.      *)
LEMMA Proceeds ==
    ASSUME Typed, InTurn, status = "up",
           NEW h \in {"init_execute", "request_result", "info_result"}, Took(h),
           NEW rpid, NEW ipid, NEW S, Pool(workers, rpid, ipid, next_pid),
           Of(mailbox, {"exit"}) = {} =>
              There(workers, rpid) /\ There(workers, ipid),
           process_queues(workers, rpid, ipid, S)
    PROVE  Typed' /\ InTurn'
<1>1. /\ Busy = {} /\ Free(workers)
      /\ Of(mailbox', ResultTags) = {}
      /\ Of(mailbox', {"init_execute"}) = {}
      /\ Of(mailbox', {"exit"}) = {} <=> Of(mailbox, {"exit"}) = {}
      /\ Single(Of(mailbox', {"update"}))
      /\ Of(mailbox', {"update"}) # {} => Of(mailbox, {"update"}) # {}
      /\ Single(Of(mailbox', {"update_now"}))
      /\ Of(mailbox', {"update_now"}) # {} => Of(mailbox, {"update_now"}) # {}
  BY TookTurn
<1>2. MailOK(mailbox') /\ Updating
  BY DEF Took, InTurn
<1> DEFINE plan == [update_plan EXCEPT !.update_pending = FALSE,
                                       !.queue_requests = FALSE]
<1>3. CASE /\ update_plan.set /\ update_plan.update_now
           /\ process_update(workers, rpid, ipid, S, plan)
  <2>1. /\ update_plan' = NoPlan /\ update' \in {"ok", "error"}
        /\ Ran(workers, rpid, ipid, service_state')
    BY <1>1, <1>3, UpdateRun
  <2>2. Of(mailbox', {"update"}) = {} /\ Of(mailbox', {"update_now"}) = {}
    BY <1>1, <1>2, <1>3 DEF Updating
  <2> QED  BY <1>1, <1>2, <2>1, <2>2, PlanFields, RanInTurn
<1>4. CASE /\ update_plan.set /\ ~update_plan.update_now
           /\ update_plan' = plan
           /\ update' = IF update_plan.update_pending THEN "ready" ELSE update
           /\ service_state' = S
           /\ request_pid' = rpid /\ info_pid' = ipid /\ workers' = workers
           /\ UNCHANGED <<timers, queue_vars, status, next_pid, updates>>
  <2>1. update_plan \in Plan
    BY DEF Typed
  <2>2. /\ plan \in Plan /\ plan.set /\ ~plan.update_now
        /\ ~plan.update_pending /\ ~plan.queue_requests
        /\ plan.sync = update_plan.sync
    BY <1>4, <2>1 DEF Plan
  <2> HIDE DEF plan
  <2>3. Busy' = {} /\ queue_requests' = queue_requests
    BY <1>1, <1>4 DEF Busy, queue_vars
  <2>4. queue_requests /\ update' \in {"ready", "now"}
    BY <1>2, <1>4, <2>1, PlanFields DEF Updating
  <2>5. Of(mailbox', {"update"}) = {}
    BY <1>1, <1>2, <1>4 DEF Updating
  <2>6. Of(mailbox', {"update_now"}) # {} => update' = "now"
    BY <1>1, <1>2, <1>4, <2>1, PlanFields DEF Updating
  <2>7. Typed'
    BY <1>2, <1>4, <2>2, <2>3, <2>4 DEF Typed
  <2>8. OneRuns'
    <3>1. \A m \in In(mailbox') : m.tag \notin ResultTags
      BY <1>1 DEF In, Of
    <3> QED  BY <1>1, <2>3, <2>4, <3>1 DEF OneRuns, Single
  <2>9. CurrentThere'
    BY <1>1, <1>4 DEF CurrentThere
  <2>10. Starting' /\ Held' /\ Drained'
    BY <1>1, <1>4, <2>2, <2>3, <2>4 DEF Starting, Held, Drained
  <2>11. Updating'
    BY <1>1, <1>4, <2>2, <2>3, <2>4, <2>5, <2>6 DEF Updating, Single
  <2> QED  BY <2>7, <2>8, <2>9, <2>10, <2>11 DEF InTurn
<1>5. CASE /\ ~update_plan.set /\ service_state' = S
           /\ run_queues(workers, rpid, ipid, S)
           /\ UNCHANGED <<update_plan, update, updates>>
  <2>1. Ran(workers, rpid, ipid, service_state')
    BY <1>1, <1>5, QueuesRun
  <2>2. /\ Of(mailbox', {"update_now"}) = {} /\ update' # "ready"
        /\ Of(mailbox', {"update"}) # {} => update' = "start"
    BY <1>1, <1>2, <1>5 DEF Updating
  <2>3. /\ update_plan' \in Plan /\ ~update_plan'.set
        /\ update' \in {"none", "start", "now", "ok", "error"}
    BY <1>5, <2>2 DEF Typed
  <2> QED  BY <1>1, <1>2, <2>1, <2>2, <2>3, RanInTurn
<1> QED  BY <1>3, <1>4, <1>5 DEF process_queues

-----------------------------------------------------------------------------
(* The handlers of the dispatcher                                          *)

(* Nothing is queued by a step that leaves the queues alone.               *)
LEMMA UnchangedDrained ==
    ASSUME InTurn, status = "up",
           UNCHANGED <<queued, queued_info, update_plan, queue_requests>>
    PROVE  Drained'
BY DEF InTurn, Drained, Waiting

(* There is one result at most.                                            *)
LEMMA OneResult ==
    ASSUME Typed, OneRuns, Head(mailbox) \in In(mailbox), mailbox # <<>>,
           Head(mailbox).tag \in ResultTags
    PROVE  \A m \in In(mailbox) : m.tag \in ResultTags => m = Head(mailbox)
<1>1. Len(mailbox) \in Nat /\ Len(mailbox) >= 1 /\ Head(mailbox) = mailbox[1]
  BY DEF Typed, MailOK
<1>2. 1 \in Of(mailbox, ResultTags)
  BY <1>1 DEF Of
<1>3. \A i \in Of(mailbox, ResultTags) : i = 1
  BY <1>2 DEF OneRuns, Single
<1> QED  BY <1>1, <1>3 DEF In, Of

(* cloudi_service_init_execute sets the queues going.                      *)
LEMMA InitHandled ==
    ASSUME Typed, InTurn, HandleInit
    PROVE  Typed' /\ InTurn'
<1>1. Took("init_execute") /\ status = "up"
  BY Takes DEF HandleInit, Handling, Done
<1>2. CASE process_queues(workers, request_pid, info_pid, service_state)
  <2>1. {"init_execute"} \in TagSets
    BY DEF TagSets
  <2>2. Of(mailbox, {"init_execute"}) # {}
    BY <1>1, <2>1 DEF Took
  <2>3. Of(mailbox, ResultTags) = {} /\ CurrentThere
    BY <1>1, <2>2 DEF InTurn, Starting
  <2>4. \A m \in In(mailbox) : m.tag \notin ResultTags
    BY <2>3 DEF In, Of
  <2>5. Of(mailbox, {"exit"}) = {} =>
           There(workers, request_pid) /\ There(workers, info_pid)
    BY <2>3, <2>4 DEF CurrentThere, ExitedWith, ResultTags
  <2> QED  BY <1>1, <1>2, <2>5, Proceeds DEF Typed
<1>3. CASE Stop("failed") /\ UNCHANGED <<timers, queue_vars, plan_vars>>
  BY <1>1, <1>3, StopInTurn DEF Took, queue_vars, plan_vars
<1> QED  BY <1>2, <1>3 DEF HandleInit

(* An idle dispatcher starts a callback.                                   *)
LEMMA StartedIdle ==
    ASSUME Typed, InTurn, status = "up", Same, ~queue_requests,
           Ran(workers, request_pid, info_pid, service_state),
           UNCHANGED plan_vars
    PROVE  Typed' /\ InTurn'
<1>1. OneRuns /\ Drained /\ Starting /\ Updating /\ CurrentThere
  BY DEF InTurn
<1>2. /\ {"init_execute"} \in TagSets /\ ResultTags \in TagSets
      /\ {"exit"} \in TagSets /\ {"update"} \in TagSets
      /\ {"update_now"} \in TagSets
  BY DEF TagSets
<1>3. /\ Of(mailbox, ResultTags) = {} /\ Of(mailbox, {"init_execute"}) = {}
      /\ ~update_plan.set /\ Of(mailbox, {"update_now"}) = {}
      /\ update # "ready"
  BY <1>1 DEF OneRuns, Drained, Starting, Updating
<1>4. \A m \in In(mailbox) : m.tag \notin ResultTags
  BY <1>3 DEF In, Of
<1>5. /\ Of(mailbox', ResultTags) = {} /\ Of(mailbox', {"init_execute"}) = {}
      /\ Of(mailbox', {"update_now"}) = {}
      /\ Of(mailbox', {"exit"}) = {} <=> Of(mailbox, {"exit"}) = {}
      /\ Single(Of(mailbox', {"update"}))
      /\ Of(mailbox', {"update"}) # {} => update = "start"
      /\ MailOK(mailbox')
  BY <1>1, <1>2, <1>3 DEF Same, Updating
<1>6. Of(mailbox', {"exit"}) = {} =>
         There(workers, request_pid) /\ There(workers, info_pid)
  BY <1>1, <1>4, <1>5 DEF CurrentThere, ExitedWith, ResultTags
<1>7. UNCHANGED <<service_state, update_plan, update>>
  BY DEF plan_vars
<1>8. /\ update_plan' \in Plan /\ ~update_plan'.set
      /\ update' \in {"none", "start", "now", "ok", "error"}
  BY <1>3, <1>7 DEF Typed
<1> QED  BY <1>5, <1>6, <1>7, <1>8, RanInTurn

(* A request arrives.                                                      *)
LEMMA SendHandled ==
    ASSUME Typed, InTurn, HandleSendIdle \/ HandleSendNow \/ HandleSendBusy
    PROVE  Typed' /\ InTurn'
<1>1. status = "up" /\ Same
  <2>1. Handling("send") /\ Done
    BY DEF HandleSendIdle, HandleSendNow, HandleSendBusy
  <2>2. Took("send")
    BY <2>1, Takes DEF Done
  <2> QED  BY <2>1, <2>2, TookOther DEF OtherTags, Handling
<1> DEFINE m == Head(mailbox)
<1>2. CASE HandleSendIdle
  <2>1. CASE /\ queue_requests' = TRUE
             /\ handle_module_request_loop_pid(workers, request_pid, info_pid,
                                  RequestJob(m.id, m.timeout, service_state))
    <3>1. Busy = {} /\ ~queue_requests
      BY <1>1, <1>2 DEF InTurn, OneRuns, HandleSendIdle, Idle
    <3>2. Free(workers)
      BY <3>1 DEF Free, Busy, Kinds
    <3>3. Ran(workers, request_pid, info_pid, service_state)
      BY <2>1, <3>2, RequestHanded, JobKinds DEF Typed
    <3> QED  BY <1>1, <1>2, <3>1, <3>3, StartedIdle DEF HandleSendIdle
  <2>2. CASE UNCHANGED <<queue_vars, pid_vars>>
    <3>1. UNCHANGED <<status, workers, request_pid, info_pid, next_pid,
                      service_state, update_plan, update, queue_requests,
                      queued, queued_info>>
      BY <1>2, <2>2 DEF HandleSendIdle, queue_vars, pid_vars, plan_vars
    <3> QED  BY <1>1, <3>1, UnchangedDrained, QuietInTurn
  <2> QED  BY <1>2, <2>1, <2>2 DEF HandleSendIdle
<1>3. CASE HandleSendNow \/ HandleSendBusy
  <2>1. /\ UNCHANGED <<status, workers, request_pid, info_pid, next_pid,
                       service_state, update_plan, update, queue_requests>>
        /\ queue_requests
    BY <1>3 DEF HandleSendNow, HandleSendBusy, recv_timeout_start, queue_vars,
                pid_vars, plan_vars
  <2>2. Drained'
    BY <2>1 DEF Drained
  <2> QED  BY <1>1, <2>1, <2>2, QuietInTurn
<1> QED  BY <1>2, <1>3

(* A queued request expires.                                               *)
LEMMA RecvTimeoutHandled ==
    ASSUME Typed, InTurn, HandleRecvTimeout
    PROVE  Typed' /\ InTurn'
<1>1. status = "up" /\ Same
  <2>1. Handling("recv_timeout") /\ Done
    BY DEF HandleRecvTimeout
  <2>2. Took("recv_timeout")
    BY <2>1, Takes DEF Done
  <2> QED  BY <2>1, <2>2, TookOther DEF OtherTags, Handling
<1>2. UNCHANGED <<status, workers, request_pid, info_pid, next_pid,
                  service_state, update_plan, update, queue_requests,
                  queued_info>>
  BY DEF HandleRecvTimeout, pid_vars, plan_vars
<1>3. ~queue_requests => queued' = queued
  BY DEF HandleRecvTimeout, InQueue
<1>4. Drained'
  BY <1>1, <1>2, <1>3 DEF InTurn, Drained, Waiting
<1> QED  BY <1>1, <1>2, <1>4, QuietInTurn

(* An info message arrives.                                                *)
LEMMA InfoHandled ==
    ASSUME Typed, InTurn, HandleInfo
    PROVE  Typed' /\ InTurn'
<1>1. status = "up" /\ Same /\ UNCHANGED plan_vars
  <2>1. Handling("info") /\ Done /\ UNCHANGED plan_vars
    BY DEF HandleInfo
  <2>2. Took("info")
    BY <2>1, Takes DEF Done
  <2> QED  BY <2>1, <2>2, TookOther DEF OtherTags, Handling
<1> DEFINE m == Head(mailbox)
<1>2. CASE ~Idle /\ UNCHANGED <<queue_requests, pid_vars>>
  <2>1. /\ UNCHANGED <<status, workers, request_pid, info_pid, next_pid,
                       service_state, update_plan, update, queue_requests>>
        /\ queue_requests
    BY <1>1, <1>2 DEF Idle, pid_vars, plan_vars
  <2>2. Drained'
    BY <2>1 DEF Drained
  <2> QED  BY <1>1, <2>1, <2>2, QuietInTurn
<1>3. CASE /\ Idle
           /\ queue_requests' = TRUE
           /\ handle_module_info_loop_pid(workers, request_pid, info_pid,
                                          InfoJob(m.id, service_state))
  <2>1. Busy = {} /\ ~queue_requests
    BY <1>1, <1>3 DEF InTurn, OneRuns, Idle
  <2>2. Free(workers)
    BY <2>1 DEF Free, Busy, Kinds
  <2>3. Ran(workers, request_pid, info_pid, service_state)
    BY <1>3, <2>2, InfoHanded, JobKinds DEF Typed
  <2> QED  BY <1>1, <2>1, <2>3, StartedIdle
<1> QED  BY <1>2, <1>3 DEF HandleInfo

(* The result of a request sets the queues going, or stops.                *)
LEMMA RequestResultHandled ==
    ASSUME Typed, InTurn, HandleRequestResult
    PROVE  Typed' /\ InTurn'
<1> DEFINE m == Head(mailbox)
           rpid == StillCurrent(m, request_pid)
<1>1. Handling("request_result") /\ status = "up" /\ mailbox # <<>>
      /\ m.tag = "request_result" /\ m \in In(mailbox)
  BY Taken DEF HandleRequestResult, Handling, Typed, MailOK
<1>2. Shaped(m)
  BY <1>1 DEF Typed, MailOK, ResultTags
<1>3. Took("request_result")
  <2>1. CASE mailbox' = Tail(mailbox)
    BY <1>1, <2>1, Takes
  <2>2. CASE mailbox' = Append(Tail(mailbox), [m EXCEPT !.tag = "forward"])
    <3> DEFINE x == [m EXCEPT !.tag = "forward"]
    <3>1. x.tag = "forward"
      BY <1>2 DEF Shaped
    <3>2. mailbox' = Append(Tail(mailbox), x)
      BY <2>2
    <3> HIDE DEF x
    <3>3. \E y : y.tag \in OtherTags /\ mailbox' = Append(Tail(mailbox), y)
      BY <3>1, <3>2 DEF OtherTags
    <3> QED  BY <1>1, <3>3, Takes
  <2> QED  BY <2>1, <2>2 DEF HandleRequestResult, Route, Done
<1>4. CASE process_queues(workers, rpid, info_pid, m.state)
  <2>1. OneRuns /\ CurrentThere
    BY <1>1 DEF InTurn
  <2>2. \A x \in In(mailbox) : x.tag \in ResultTags => x = m
    BY <1>1, <2>1, OneResult DEF ResultTags
  <2>3. Free(workers)
    BY <1>1, <1>3, TookTurn
  <2>4. rpid = IF m.pid = 0 THEN request_pid ELSE Undefined
    BY DEF StillCurrent
  <2> HIDE DEF rpid
  <2>5. Pool(workers, rpid, info_pid, next_pid)
    BY <2>3, <2>4 DEF Typed, Pool, Free, Kinds
  <2>6. ~ExitedWith(info_pid, "info_result")
    BY <1>1, <2>2 DEF ExitedWith, ResultTags
  <2>7. m.pid = 0 => ~ExitedWith(request_pid, "request_result")
    <3>1. request_pid # 0
      BY Undef DEF Typed, Pool
    <3> QED  BY <2>2, <3>1 DEF ExitedWith, ResultTags
  <2>8. Of(mailbox, {"exit"}) = {} =>
           There(workers, rpid) /\ There(workers, info_pid)
    BY <2>1, <2>4, <2>6, <2>7 DEF CurrentThere, There
  <2> QED  BY <1>1, <1>3, <1>4, <2>5, <2>8, Proceeds
<1>5. CASE /\ Stop(IF m.pid \in {0, request_pid} THEN "failed" ELSE "forced")
           /\ UNCHANGED <<queue_vars, plan_vars>>
  BY <1>3, <1>5, StopInTurn DEF Took, queue_vars, plan_vars
<1> QED  BY <1>4, <1>5 DEF HandleRequestResult

(* The result of an info message does the same.                            *)
LEMMA InfoResultHandled ==
    ASSUME Typed, InTurn, HandleInfoResult
    PROVE  Typed' /\ InTurn'
<1> DEFINE m == Head(mailbox)
           ipid == StillCurrent(m, info_pid)
<1>1. Handling("info_result") /\ status = "up" /\ mailbox # <<>>
      /\ m.tag = "info_result" /\ m \in In(mailbox)
  BY Taken DEF HandleInfoResult, Handling, Typed, MailOK
<1>2. Took("info_result")
  BY <1>1, Takes DEF HandleInfoResult, Done
<1>3. CASE process_queues(workers, request_pid, ipid, m.state)
  <2>1. OneRuns /\ CurrentThere
    BY <1>1 DEF InTurn
  <2>2. \A x \in In(mailbox) : x.tag \in ResultTags => x = m
    BY <1>1, <2>1, OneResult DEF ResultTags
  <2>3. Free(workers)
    BY <1>1, <1>2, TookTurn
  <2>4. ipid = IF m.pid = 0 THEN info_pid ELSE Undefined
    BY DEF StillCurrent
  <2> HIDE DEF ipid
  <2>5. Pool(workers, request_pid, ipid, next_pid)
    BY <2>3, <2>4 DEF Typed, Pool, Free, Kinds
  <2>6. ~ExitedWith(request_pid, "request_result")
    BY <1>1, <2>2 DEF ExitedWith, ResultTags
  <2>7. m.pid = 0 => ~ExitedWith(info_pid, "info_result")
    <3>1. info_pid # 0
      BY Undef DEF Typed, Pool
    <3> QED  BY <2>2, <3>1 DEF ExitedWith, ResultTags
  <2>8. Of(mailbox, {"exit"}) = {} =>
           There(workers, request_pid) /\ There(workers, ipid)
    BY <2>1, <2>4, <2>6, <2>7 DEF CurrentThere, There
  <2> QED  BY <1>1, <1>2, <1>3, <2>5, <2>8, Proceeds
<1>4. CASE /\ Stop(IF m.pid \in {0, info_pid} THEN "failed" ELSE "forced")
           /\ UNCHANGED <<queue_vars, plan_vars>>
  BY <1>2, <1>4, StopInTurn DEF Took, queue_vars, plan_vars
<1> QED  BY <1>3, <1>4 DEF HandleInfoResult

(* The exit of a callback process stops the dispatcher.                    *)
LEMMA ExitHandled ==
    ASSUME Typed, InTurn, HandleExit
    PROVE  Typed' /\ InTurn'
<1>1. Took("exit")
  BY Takes DEF HandleExit, Done
<1> QED
  BY <1>1, StopInTurn DEF HandleExit, Took, queue_vars, plan_vars

(* A step that only handles a message that does not matter.                *)
LEMMA QuietStep ==
    ASSUME Typed, InTurn, Same, UNCHANGED <<queue_vars, pid_vars, plan_vars>>
    PROVE  Typed' /\ InTurn'
<1>1. UNCHANGED <<status, workers, request_pid, info_pid, next_pid,
                  service_state, update_plan, update, queue_requests,
                  queued, queued_info>>
  BY DEF queue_vars, pid_vars, plan_vars
<1> QED  BY <1>1, UnchangedDrained, QuietInTurn

(* A forwarded request is looked up again.                                 *)
LEMMA ForwardHandled ==
    ASSUME Typed, InTurn, HandleForward
    PROVE  Typed' /\ InTurn'
<1>1. /\ Handling("forward") /\ Done
      /\ UNCHANGED <<queue_vars, pid_vars, plan_vars>>
  BY DEF HandleForward
<1>2. Took("forward")
  BY <1>1, Takes DEF Done
<1>3. Same
  BY <1>2, TookOther DEF OtherTags
<1> QED  BY <1>1, <1>3, QuietStep

(* A process that is to end waits until it is idle.                        *)
LEMMA TerminateHandled ==
    ASSUME Typed, InTurn,
           HandleTerminate \/ HandleTerminateCheck \/ HandleTerminateNow
    PROVE  Typed' /\ InTurn'
<1>1. CASE HandleTerminate
  <2> DEFINE x == [NoMessage EXCEPT !.tag = "terminate_check"]
  <2>1. /\ Handling("terminate") /\ mailbox' = Append(Tail(mailbox), x)
        /\ UNCHANGED <<queue_vars, pid_vars, plan_vars>>
    BY <1>1 DEF HandleTerminate
  <2>2. x.tag \in OtherTags
    BY DEF NoMessage, OtherTags
  <2> HIDE DEF x
  <2>3. Took("terminate")
    BY <2>1, <2>2, Takes
  <2>4. Same
    BY <2>3, TookOther DEF OtherTags
  <2> QED  BY <2>1, <2>4, QuietStep
<1>2. CASE HandleTerminateCheck
  <2>1. Took("terminate_check")
    BY <1>2, Takes DEF HandleTerminateCheck, Done
  <2>2. CASE Stop("terminated")
    BY <1>2, <2>1, <2>2, StopInTurn
    DEF HandleTerminateCheck, Took, queue_vars, plan_vars
  <2>3. CASE UNCHANGED pid_vars
    <3>1. Same
      BY <2>1, TookOther DEF OtherTags
    <3> QED  BY <1>2, <2>3, <3>1, QuietStep DEF HandleTerminateCheck
  <2> QED  BY <1>2, <2>2, <2>3 DEF HandleTerminateCheck
<1>3. CASE HandleTerminateNow
  <2>1. Took("terminate_now")
    BY <1>3, Takes DEF HandleTerminateNow, Done
  <2> QED
    BY <1>3, <2>1, StopInTurn
    DEF HandleTerminateNow, Took, queue_vars, plan_vars
<1> QED  BY <1>1, <1>2, <1>3

(* cloudi_service_update holds the queues.                                 *)
LEMMA UpdateHandled ==
    ASSUME Typed, InTurn, HandleUpdate
    PROVE  Typed' /\ InTurn'
<1> DEFINE plan == Head(mailbox).plan
           wait == plan.sync /\ queue_requests
           new == [plan EXCEPT !.update_pending = wait,
                               !.queue_requests = queue_requests]
<1>1. /\ Handling("update") /\ status = "up" /\ Done /\ queue_requests' = TRUE
      /\ update_plan' = new
      /\ update' = IF wait THEN update ELSE "ready"
      /\ UNCHANGED <<status, workers, request_pid, info_pid, next_pid,
                     service_state>>
  BY DEF HandleUpdate, Handling, HoldQueues, WaitForCallback, BusyBefore,
         pid_vars
<1>2. Took("update")
  BY <1>1, Takes DEF Done
<1>3. plan \in Plan /\ plan.set /\ ~plan.update_now
  BY <1>2 DEF Took, Typed, MailOK
<1>4. queue_requests \in BOOLEAN /\ wait \in BOOLEAN
  BY <1>3, PlanFields DEF Typed
<1>5. /\ new \in Plan /\ new.set /\ ~new.update_now
      /\ new.update_pending <=> wait
      /\ new.queue_requests <=> queue_requests
      /\ new.sync <=> plan.sync
  BY <1>3, <1>4 DEF Plan
<1> HIDE DEF new
<1>6. OneRuns /\ CurrentThere /\ Starting /\ Updating /\ Held /\ Drained
  BY <1>1 DEF InTurn
<1>7. /\ {"init_execute"} \in TagSets /\ ResultTags \in TagSets
      /\ {"exit"} \in TagSets /\ {"update"} \in TagSets
      /\ {"update_now"} \in TagSets
  BY DEF TagSets
<1>8. "update" \notin ResultTags
  BY DEF ResultTags
<1>9. /\ Of(mailbox', ResultTags) = {} <=> Of(mailbox, ResultTags) = {}
      /\ Single(Of(mailbox', ResultTags))
      /\ Of(mailbox', {"exit"}) = {} <=> Of(mailbox, {"exit"}) = {}
      /\ Of(mailbox', {"init_execute"}) = {}
      /\ Of(mailbox, {"init_execute"}) = {}
      /\ Of(mailbox', {"update"}) = {} /\ Of(mailbox, {"update"}) # {}
      /\ Of(mailbox', {"update_now"}) = {}
  BY <1>2, <1>6, <1>7, <1>8 DEF Took, OneRuns, Starting, Updating
<1>10. update = "start" /\ ~update_plan.set
  BY <1>6, <1>9 DEF Updating
<1>11. Busy' = Busy
  BY <1>1 DEF Busy
<1>12. \A x \in In(mailbox') : x.tag \in ResultTags => x \in In(mailbox)
  BY <1>2 DEF Took, OtherTags, ResultTags
<1>13. \A x \in In(mailbox) : x.tag \in ResultTags => x \in In(mailbox')
  BY <1>2, <1>8 DEF Took
<1>14. Typed'
  BY <1>1, <1>2, <1>5, <1>10 DEF Typed, Took
<1>15. OneRuns'
  BY <1>1, <1>6, <1>9, <1>11, <1>12 DEF OneRuns
<1>16. CurrentThere'
  <2>1. \A pid : \A tag \in ResultTags :
           ExitedWith(pid, tag) => ExitedWith(pid, tag)'
    BY <1>13 DEF ExitedWith
  <2> QED  BY <1>1, <1>6, <1>9, <2>1 DEF CurrentThere, ResultTags
<1>17. Starting'
  BY <1>9 DEF Starting
<1>18. Due' <=> Due
  BY <1>9, <1>11 DEF Due
<1>19. queue_requests => Due
  BY <1>6, <1>9, <1>10 DEF Held
<1>20. ~queue_requests => Busy = {} /\ Of(mailbox, ResultTags) = {}
  BY <1>6 DEF OneRuns
<1>21. Updating'
  BY <1>1, <1>4, <1>5, <1>9, <1>10, <1>11, <1>18, <1>19, <1>20
  DEF Updating, Single
<1>22. Held'
  BY <1>1, <1>5, <1>10, <1>18, <1>19 DEF Held
<1>23. Drained'
  BY <1>1 DEF Drained
<1> QED
  BY <1>14, <1>15, <1>16, <1>17, <1>21, <1>22, <1>23 DEF InTurn

(* cloudi_service_update_now applies it, or leaves it to the callback.     *)
LEMMA UpdateNowHandled ==
    ASSUME Typed, InTurn, HandleUpdateNow
    PROVE  Typed' /\ InTurn'
<1> DEFINE start == Head(mailbox).start
           plan == [update_plan EXCEPT !.update_now = TRUE,
                                       !.update_start = start]
<1>1. Handling("update_now") /\ status = "up" /\ Done
  BY DEF HandleUpdateNow, Handling
<1>2. Took("update_now")
  BY <1>1, Takes DEF Done
<1>3. start \in BOOLEAN /\ update_plan \in Plan
  BY <1>2 DEF Took, Typed, MailOK
<1>4. /\ plan \in Plan /\ plan.update_now
      /\ plan.set = update_plan.set /\ plan.sync = update_plan.sync
      /\ plan.update_pending = update_plan.update_pending
      /\ plan.queue_requests = update_plan.queue_requests
  BY <1>3 DEF Plan
<1> HIDE DEF plan
<1>5. OneRuns /\ CurrentThere /\ Starting /\ Updating /\ Held /\ Drained
  BY <1>1 DEF InTurn
<1>6. /\ {"init_execute"} \in TagSets /\ ResultTags \in TagSets
      /\ {"exit"} \in TagSets /\ {"update"} \in TagSets
      /\ {"update_now"} \in TagSets
  BY DEF TagSets
<1>7. "update_now" \notin ResultTags
  BY DEF ResultTags
<1>8. /\ Of(mailbox', ResultTags) = {} <=> Of(mailbox, ResultTags) = {}
      /\ Single(Of(mailbox', ResultTags))
      /\ Of(mailbox', {"exit"}) = {} <=> Of(mailbox, {"exit"}) = {}
      /\ Of(mailbox', {"init_execute"}) = {}
      /\ Of(mailbox', {"update"}) = {} <=> Of(mailbox, {"update"}) = {}
      /\ Of(mailbox', {"update_now"}) = {} /\ Of(mailbox, {"update_now"}) # {}
  BY <1>2, <1>5, <1>6, <1>7 DEF Took, OneRuns, Starting, Updating
<1>9. update = "now" /\ update_plan.set /\ Of(mailbox', {"update"}) = {}
  BY <1>5, <1>8 DEF Updating
<1>10. MailOK(mailbox')
  BY <1>2 DEF Took
<1>11. \A x \in In(mailbox) : x.tag \in ResultTags => x \in In(mailbox')
  BY <1>2, <1>7 DEF Took
<1>12. \A x \in In(mailbox') : x.tag \in ResultTags => x \in In(mailbox)
  BY <1>2 DEF Took, OtherTags, ResultTags
<1>13. CASE /\ CallbackRuns(plan) /\ update_plan' = plan
            /\ UNCHANGED <<timers, queue_vars, pid_vars, service_state,
                           update, updates>>
  <2>1. UNCHANGED <<status, workers, request_pid, info_pid, next_pid,
                    service_state, update, queue_requests>>
    BY <1>13 DEF queue_vars, pid_vars
  <2>2. plan.queue_requests /\ queue_requests
    BY <1>5, <1>9, <1>13 DEF CallbackRuns, Updating
  <2>3. Busy' = Busy
    BY <2>1 DEF Busy
  <2>4. Typed'
    BY <1>4, <1>10, <1>13, <2>1 DEF Typed
  <2>5. OneRuns'
    BY <1>5, <1>8, <1>12, <2>1, <2>3 DEF OneRuns
  <2>6. CurrentThere'
    <3>1. \A pid : \A tag \in ResultTags :
             ExitedWith(pid, tag) => ExitedWith(pid, tag)'
      BY <1>11 DEF ExitedWith
    <3> QED  BY <1>5, <1>8, <2>1, <3>1 DEF CurrentThere, ResultTags
  <2>7. Starting'
    BY <1>8 DEF Starting
  <2>8. Due' <=> Due
    BY <1>8, <2>3 DEF Due
  <2>9. Due
    BY <1>4, <1>5, <1>9, <2>2 DEF Updating
  <2>10. Updating'
    BY <1>4, <1>5, <1>8, <1>9, <1>13, <2>1, <2>2, <2>8, <2>9
    DEF Updating, Single
  <2>11. Held' /\ Drained'
    BY <2>1, <2>2, <2>8, <2>9 DEF Held, Drained
  <2> QED
    BY <2>4, <2>5, <2>6, <2>7, <2>10, <2>11 DEF InTurn
<1>14. CASE /\ ~CallbackRuns(plan)
            /\ process_update(workers, request_pid, info_pid, service_state,
                              plan)
  <2>1. Busy = {} /\ Of(mailbox, ResultTags) = {}
    BY <1>4, <1>5, <1>9, <1>14 DEF Updating, CallbackRuns
  <2>2. Free(workers)
    BY <2>1 DEF Free, Busy, Kinds
  <2>3. /\ update_plan' = NoPlan /\ update' \in {"ok", "error"}
        /\ Ran(workers, request_pid, info_pid, service_state')
    BY <1>14, <2>2, UpdateRun DEF Typed
  <2>4. \A m \in In(mailbox) : m.tag \notin ResultTags
    BY <2>1 DEF In, Of
  <2>5. Of(mailbox', {"exit"}) = {} =>
           There(workers, request_pid) /\ There(workers, info_pid)
    BY <1>5, <1>8, <2>4 DEF CurrentThere, ExitedWith, ResultTags
  <2>6. Single(Of(mailbox', {"update"})) /\ ~update_plan'.set
        /\ update_plan' \in Plan
    BY <1>9, <2>3, PlanFields DEF Single
  <2> QED  BY <1>8, <1>9, <1>10, <2>1, <2>3, <2>5, <2>6, RanInTurn
<1> QED  BY <1>13, <1>14 DEF HandleUpdateNow, plan

-----------------------------------------------------------------------------
(* The environment                                                         *)

(* Senders and timers send messages that do not matter here.               *)
LEMMA SentStep ==
    ASSUME Typed, InTurn,
           \/ \E r \in Requests : Send(r)
           \/ \E i \in Infos : SendInfo(i)
           \/ \E tag \in TimerTags, id \in Requests \cup {Undefined} :
                TimerFires(tag, id)
           \/ Terminate
    PROVE  Typed' /\ InTurn'
<1>1. UNCHANGED <<queue_vars, pid_vars, plan_vars>>
  BY DEF Send, SendInfo, TimerFires, Terminate
<1>2. \E x : x.tag \in OtherTags /\ Post(x)
  <2>1. ASSUME NEW r \in Requests, Send(r)
        PROVE  \E x : x.tag \in OtherTags /\ Post(x)
    <3>1. PICK T \in Timeouts, p \in Priorities, z \in Sizes :
             Post([NoMessage EXCEPT !.tag = "send", !.id = r, !.timeout = T,
                                    !.priority = p, !.size = z])
      BY <2>1 DEF Send
    <3> DEFINE x == [NoMessage EXCEPT !.tag = "send", !.id = r, !.timeout = T,
                                      !.priority = p, !.size = z]
    <3>2. x.tag \in OtherTags
      BY DEF NoMessage, OtherTags
    <3> HIDE DEF x
    <3> QED  BY <3>1, <3>2 DEF x
  <2>2. ASSUME NEW i \in Infos, SendInfo(i)
        PROVE  \E x : x.tag \in OtherTags /\ Post(x)
    <3> DEFINE x == [NoMessage EXCEPT !.tag = "info", !.id = i]
    <3>1. Post(x)
      BY <2>2 DEF SendInfo
    <3>2. x.tag \in OtherTags
      BY DEF NoMessage, OtherTags
    <3> HIDE DEF x
    <3> QED  BY <3>1, <3>2
  <2>3. ASSUME NEW tag \in TimerTags, NEW id, TimerFires(tag, id)
        PROVE  \E x : x.tag \in OtherTags /\ Post(x)
    BY <2>3 DEF TimerFires, TimerTags, OtherTags
  <2>4. ASSUME Terminate
        PROVE  \E x : x.tag \in OtherTags /\ Post(x)
    <3> DEFINE x == [NoMessage EXCEPT !.tag = "terminate"]
    <3>1. Post(x)
      BY <2>4 DEF Terminate
    <3>2. x.tag \in OtherTags
      BY DEF NoMessage, OtherTags
    <3> HIDE DEF x
    <3> QED  BY <3>1, <3>2
  <2> QED  BY <2>1, <2>2, <2>3, <2>4
<1>3. Same
  BY <1>2, SentOther
<1> QED  BY <1>1, <1>3, QuietStep

(* A callback process gives its job up, or it is gone.                     *)
LEMMA JobDone ==
    ASSUME Typed, NEW w \in workers, NEW rest,
           \A v \in rest :
              /\ v = [pid |-> v.pid, uses |-> v.uses, job |-> v.job]
              /\ v.pid = w.pid /\ v.job.kind \notin Kinds,
           Single(rest), workers' = (workers \ {w}) \cup rest,
           UNCHANGED <<request_pid, info_pid, next_pid>>
    PROVE  /\ Pool(workers', request_pid', info_pid', next_pid')
           /\ Busy' = Busy \ {w}
<1>1. Pool(workers, request_pid, info_pid, next_pid)
  BY DEF Typed
<1>2. \A v \in workers' :
         /\ v = [pid |-> v.pid, uses |-> v.uses, job |-> v.job]
         /\ v.pid \in 1..next_pid - 1
         /\ v.job.kind = "request" => v.pid = request_pid
         /\ v.job.kind = "info" => v.pid = info_pid
  BY <1>1 DEF Pool, Kinds
<1>3. \A u, v \in workers' : u.pid = v.pid => u = v
  BY <1>1 DEF Pool, Single
<1>4. Busy' = Busy \ {w}
  BY DEF Busy, Kinds
<1> QED  BY <1>1, <1>2, <1>3, <1>4 DEF Pool

(* A callback returns.                                                     *)
LEMMA ReturnStep ==
    ASSUME Typed, InTurn, NEW w \in workers, NEW tag,
           \/ w.job.kind = "request" /\ tag = "request_result"
           \/ w.job.kind = "info" /\ tag = "info_result",
           Return(tag, w)
    PROVE  Typed' /\ InTurn'
<1>1. PICK how, T :
         Post([NoMessage EXCEPT !.tag = tag, !.id = w.job.id, !.timeout = T,
                   !.how = how, !.state = w.job.state + 1,
                   !.pid = IF w.uses = 1 THEN w.pid ELSE 0])
  BY DEF Return
<1> DEFINE x == [NoMessage EXCEPT !.tag = tag, !.id = w.job.id, !.timeout = T,
                    !.how = how, !.state = w.job.state + 1,
                    !.pid = IF w.uses = 1 THEN w.pid ELSE 0]
           rest == CASE w.uses = 1 -> {}
                     [] w.uses = Infinity -> {[w EXCEPT !.job = NoJob]}
                     [] OTHER -> {[w EXCEPT !.job = NoJob, !.uses = @ - 1]}
<1>2. /\ x.tag = tag /\ x.state = w.job.state + 1 /\ Shaped(x)
      /\ w.uses = 1 => x.pid = w.pid
  <2> DEFINE pid == IF w.uses = 1 THEN w.pid ELSE 0
             count == w.job.state + 1
  <2>1. w.uses = 1 => pid = w.pid
    OBVIOUS
  <2>2. x = [NoMessage EXCEPT !.tag = tag, !.id = w.job.id, !.timeout = T,
                !.how = how, !.state = count, !.pid = pid]
    OBVIOUS
  <2> HIDE DEF pid, count, x
  <2>3. x = [tag |-> tag, id |-> w.job.id, timeout |-> T, priority |-> 0,
             size |-> 0, pid |-> pid, how |-> how, state |-> count]
    BY <2>2 DEF NoMessage
  <2>4. x.tag = tag /\ x.state = count /\ x.pid = pid /\ Shaped(x)
    BY <2>3 DEF Shaped
  <2> QED  BY <2>1, <2>4 DEF count
<1>3. Post(x)
  BY <1>1
<1> HIDE DEF x
<1>4. w = [pid |-> w.pid, uses |-> w.uses, job |-> w.job]
  BY DEF Typed, Pool
<1>5. /\ workers' = (workers \ {w}) \cup rest
      /\ UNCHANGED <<queue_vars, status, request_pid, info_pid, next_pid,
                     plan_vars>>
  BY DEF Return
<1>6. /\ Single(rest)
      /\ \A v \in rest : /\ v = [pid |-> v.pid, uses |-> v.uses, job |-> v.job]
                         /\ v.pid = w.pid /\ v.job.kind \notin Kinds
      /\ w.uses # 1 => \E v \in rest : v.pid = w.pid
  <2>1. NoJob.kind \notin Kinds
    BY DEF NoJob, Kinds
  <2>2. CASE w.uses = 1
    <3>1. rest = {}
      BY <2>2, QueueAssumption
    <3> HIDE DEF rest
    <3> QED  BY <2>2, <3>1 DEF Single
  <2>3. CASE w.uses # 1 /\ w.uses = Infinity
    <3>1. rest = {[pid |-> w.pid, uses |-> w.uses, job |-> NoJob]}
      <4> DEFINE new == [w EXCEPT !.job = NoJob]
      <4>1. new = [pid |-> w.pid, uses |-> w.uses, job |-> NoJob]
        BY <1>4
      <4>2. rest = {new}
        BY <2>3
      <4> QED  BY <4>1, <4>2
    <3> HIDE DEF rest
    <3> QED  BY <2>1, <2>3, <3>1 DEF Single
  <2>4. CASE w.uses # 1 /\ w.uses # Infinity
    <3> DEFINE left == w.uses - 1
    <3>1. rest = {[w EXCEPT !.job = NoJob, !.uses = left]}
      BY <2>4
    <3> HIDE DEF rest, left
    <3>2. rest = {[pid |-> w.pid, uses |-> left, job |-> NoJob]}
      <4> DEFINE new == [w EXCEPT !.job = NoJob, !.uses = left]
      <4>1. PICK p, u, j : w = [pid |-> p, uses |-> u, job |-> j] /\ p = w.pid
        BY <1>4
      <4>2. new = [[pid |-> p, uses |-> u, job |-> j]
                     EXCEPT !.job = NoJob, !.uses = left]
        BY <4>1
      <4> HIDE DEF new
      <4>3. new = [pid |-> p, uses |-> left, job |-> NoJob]
        BY <4>2
      <4> QED  BY <3>1, <4>1, <4>3 DEF new
    <3> QED  BY <2>1, <2>4, <3>2 DEF Single
  <2> QED  BY <2>2, <2>3, <2>4
<1> HIDE DEF rest
<1>7. /\ Pool(workers', request_pid', info_pid', next_pid')
      /\ Busy' = Busy \ {w}
  BY <1>5, <1>6, JobDone
<1>8. tag \in ResultTags /\ w \in Busy
  BY DEF ResultTags, Busy
<1>9. Put(tag, x)
  BY <1>2, <1>3, <1>8, Puts DEF ResultTags
<1>10. UNCHANGED <<status, request_pid, info_pid, queue_requests,
                   service_state, update_plan, update>>
  BY <1>5 DEF queue_vars, plan_vars
<1>11. Typed'
  BY <1>7, <1>9, <1>10 DEF Typed, Put
<1> SUFFICES ASSUME status = "up"
             PROVE  /\ OneRuns' /\ CurrentThere' /\ Starting' /\ Updating'
                    /\ Held' /\ Drained'
  BY <1>10, <1>11 DEF InTurn
<1>12. OneRuns /\ CurrentThere /\ Starting /\ Updating
  BY DEF InTurn
<1>13. /\ {"init_execute"} \in TagSets /\ ResultTags \in TagSets
       /\ {"exit"} \in TagSets /\ {"update"} \in TagSets
       /\ {"update_now"} \in TagSets
  BY DEF TagSets
<1>14. Busy = {w} /\ Of(mailbox, ResultTags) = {} /\ queue_requests
       /\ w.job.state = service_state
  BY <1>8, <1>12 DEF OneRuns, Single
<1>15. /\ Of(mailbox', ResultTags) # {} /\ Single(Of(mailbox', ResultTags))
       /\ Of(mailbox', {"exit"}) = Of(mailbox, {"exit"})
       /\ Of(mailbox', {"init_execute"}) = {}
       /\ Of(mailbox', {"update"}) = Of(mailbox, {"update"})
       /\ Of(mailbox', {"update_now"}) = Of(mailbox, {"update_now"})
  BY <1>8, <1>9, <1>12, <1>13, <1>14 DEF Put, ResultTags, Starting
<1>16. \A m \in In(mailbox) : m.tag \notin ResultTags
  BY <1>14 DEF In, Of
<1>17. In(mailbox') = In(mailbox) \cup {x}
  BY <1>9 DEF Put
<1>18. OneRuns'
  BY <1>2, <1>7, <1>10, <1>14, <1>15, <1>16, <1>17 DEF OneRuns, Single
<1>19. CurrentThere'
  <2> SUFFICES ASSUME Of(mailbox, {"exit"}) = {}
               PROVE  /\ \/ There(workers', request_pid)
                         \/ \E m \in In(mailbox') :
                               m.tag = "request_result" /\ m.pid = request_pid
                      /\ \/ There(workers', info_pid)
                         \/ \E m \in In(mailbox') :
                               m.tag = "info_result" /\ m.pid = info_pid
    BY <1>10, <1>15 DEF CurrentThere, ExitedWith
  <2>1. There(workers, request_pid) /\ There(workers, info_pid)
    BY <1>12, <1>16 DEF CurrentThere, ExitedWith, ResultTags
  <2>2. \A v \in workers : v # w => v \in workers'
    BY <1>5
  <2>3. CASE w.uses # 1
    <3>1. \A v \in workers : \E u \in workers' : u.pid = v.pid
      BY <1>5, <1>6, <2>2, <2>3
    <3> QED  BY <2>1, <3>1 DEF There
  <2>4. CASE w.uses = 1
    <3>1. x \in In(mailbox') /\ x.tag = tag /\ x.pid = w.pid
      BY <1>2, <1>17, <2>4
    <3>2. CASE w.job.kind = "request" /\ tag = "request_result"
      <4>1. w.pid = request_pid
        BY <3>2 DEF Typed, Pool
      <4>2. info_pid # Undefined => info_pid # w.pid
        BY <4>1 DEF Typed, Pool
      <4>3. There(workers', info_pid)
        BY <2>1, <2>2, <4>2 DEF There
      <4> QED  BY <3>1, <3>2, <4>1, <4>3
    <3>3. CASE w.job.kind = "info" /\ tag = "info_result"
      <4>1. w.pid = info_pid
        BY <3>3 DEF Typed, Pool
      <4>2. request_pid # Undefined => request_pid # w.pid
        BY <4>1 DEF Typed, Pool
      <4>3. There(workers', request_pid)
        BY <2>1, <2>2, <4>2 DEF There
      <4> QED  BY <3>1, <3>3, <4>1, <4>3
    <3> QED  BY <3>2, <3>3
  <2> QED  BY <2>3, <2>4
<1>20. Starting' /\ Due'
  BY <1>15 DEF Starting, Due
<1>21. Updating'
  BY <1>10, <1>12, <1>14, <1>15, <1>20 DEF Updating
<1>22. Held' /\ Drained'
  BY <1>10, <1>14, <1>20 DEF Held, Drained
<1> QED  BY <1>18, <1>19, <1>20, <1>21, <1>22

(* A callback process ends without a result.                               *)
LEMMA EndStep ==
    ASSUME Typed, InTurn, NEW w \in workers, Ends(w)
    PROVE  Typed' /\ InTurn'
<1> DEFINE x == [NoMessage EXCEPT !.tag = "exit", !.pid = w.pid]
<1>1. /\ Post(x) /\ workers' = workers \ {w}
      /\ UNCHANGED <<queue_vars, status, request_pid, info_pid, next_pid,
                     plan_vars>>
  BY DEF Ends
<1>2. x.tag = "exit"
  BY DEF NoMessage
<1> HIDE DEF x
<1>3. Put("exit", x)
  BY <1>1, <1>2, Puts DEF ResultTags
<1>4. UNCHANGED <<status, request_pid, info_pid, queue_requests, queued,
                  queued_info, service_state, update_plan, update>>
  BY <1>1 DEF queue_vars, plan_vars
<1>5. /\ Pool(workers', request_pid', info_pid', next_pid')
      /\ Busy' = Busy \ {w}
  <2>1. workers' = (workers \ {w}) \cup {} /\ Single({})
    BY <1>1 DEF Single
  <2> QED  BY <1>1, <2>1, JobDone
<1>6. Typed'
  BY <1>3, <1>4, <1>5 DEF Typed, Put
<1> SUFFICES ASSUME status = "up"
             PROVE  /\ OneRuns' /\ CurrentThere' /\ Starting' /\ Updating'
                    /\ Held' /\ Drained'
  BY <1>4, <1>6 DEF InTurn
<1>7. OneRuns /\ Starting /\ Updating
  BY DEF InTurn
<1>8. /\ {"init_execute"} \in TagSets /\ ResultTags \in TagSets
      /\ {"exit"} \in TagSets /\ {"update"} \in TagSets
      /\ {"update_now"} \in TagSets
  BY DEF TagSets
<1>9. /\ Of(mailbox', ResultTags) = Of(mailbox, ResultTags)
      /\ Of(mailbox', {"exit"}) # {}
      /\ Of(mailbox', {"init_execute"}) = Of(mailbox, {"init_execute"})
      /\ Of(mailbox', {"update"}) = Of(mailbox, {"update"})
      /\ Of(mailbox', {"update_now"}) = Of(mailbox, {"update_now"})
  BY <1>3, <1>8 DEF Put, ResultTags
<1>10. \A m \in In(mailbox') : m.tag \in ResultTags => m \in In(mailbox)
  BY <1>2, <1>3 DEF Put, ResultTags
<1>11. OneRuns'
  BY <1>4, <1>5, <1>7, <1>9, <1>10 DEF OneRuns, Single
<1>12. CurrentThere' /\ Due'
  BY <1>9 DEF CurrentThere, Due
<1>13. Starting'
  BY <1>4, <1>5, <1>7, <1>9 DEF Starting
<1>14. Updating'
  BY <1>4, <1>5, <1>7, <1>9, <1>12 DEF Updating
<1>15. Held'
  BY <1>12 DEF Held
<1>16. Drained'
  BY <1>4, UnchangedDrained
<1> QED  BY <1>11, <1>12, <1>13, <1>14, <1>15, <1>16

(* The services monitor sends a message.                                   *)
LEMMA UpdateSent ==
    ASSUME Typed, InTurn, NEW h \in {"update", "update_now"}, NEW x,
           x.tag = h, Put(h, x),
           UNCHANGED <<queue_vars, pid_vars, service_state, update_plan>>,
           update' \in {"start", "now"},
           update \in {"ready", "now"} => update' \in {"ready", "now"},
           status = "up" =>
              /\ IF h = "update" THEN update' = "start" /\ ~update_plan.set
                 ELSE /\ update' = "now" /\ update_plan.set
                      /\ ~update_plan.update_now /\ update = "ready"
              /\ Of(mailbox, {"update"}) = {}
              /\ Of(mailbox, {"update_now"}) = {}
    PROVE  Typed' /\ InTurn'
<1>1. UNCHANGED <<status, workers, request_pid, info_pid, next_pid,
                  queue_requests, queued, queued_info>>
  BY DEF pid_vars, queue_vars
<1>2. Typed'
  BY <1>1 DEF Typed, Put
<1> SUFFICES ASSUME status = "up"
             PROVE  /\ OneRuns' /\ CurrentThere' /\ Starting' /\ Updating'
                    /\ Held' /\ Drained'
  BY <1>1, <1>2 DEF InTurn
<1>3. OneRuns /\ CurrentThere /\ Starting /\ Updating /\ Held
  BY DEF InTurn
<1>4. /\ {"init_execute"} \in TagSets /\ ResultTags \in TagSets
      /\ {"exit"} \in TagSets /\ {"update"} \in TagSets
      /\ {"update_now"} \in TagSets
  BY DEF TagSets
<1>5. Busy' = Busy
  BY <1>1 DEF Busy
<1>6. /\ Of(mailbox', ResultTags) = Of(mailbox, ResultTags)
      /\ Of(mailbox', {"exit"}) = Of(mailbox, {"exit"})
      /\ Of(mailbox', {"init_execute"}) = Of(mailbox, {"init_execute"})
  BY <1>4 DEF Put, ResultTags
<1>7. /\ Single(Of(mailbox', {"update"}))
      /\ Single(Of(mailbox', {"update_now"}))
      /\ h = "update" => Of(mailbox', {"update_now"}) = {}
      /\ h = "update_now" => Of(mailbox', {"update"}) = {}
  BY <1>4 DEF Put, Single
<1>8. \A m : m.tag \in ResultTags => (m \in In(mailbox') <=> m \in In(mailbox))
  BY DEF Put, ResultTags
<1>9. OneRuns'
  BY <1>1, <1>3, <1>5, <1>6, <1>8 DEF OneRuns
<1>10. CurrentThere'
  <2>1. \A pid : \A tag \in ResultTags :
           ExitedWith(pid, tag) => ExitedWith(pid, tag)'
    BY <1>8 DEF ExitedWith
  <2> QED  BY <1>1, <1>3, <1>6, <2>1 DEF CurrentThere, ResultTags
<1>11. Starting' /\ (Due' <=> Due)
  BY <1>1, <1>3, <1>5, <1>6 DEF Starting, Due
<1>12. Updating'
  <2>1. CASE h = "update"
    BY <1>7, <2>1 DEF Updating
  <2>2. CASE h = "update_now"
    BY <1>1, <1>3, <1>5, <1>6, <1>7, <1>11, <2>2 DEF Updating
  <2> QED  BY <2>1, <2>2
<1>13. Held'
  BY <1>1, <1>3, <1>6, <1>11 DEF Held
<1>14. Drained'
  BY <1>1, UnchangedDrained DEF InTurn
<1> QED  BY <1>9, <1>10, <1>11, <1>12, <1>13, <1>14

(* The services monitor asks for an update.                                *)
LEMMA UpdateStarted ==
    ASSUME Typed, InTurn, UpdateStart
    PROVE  Typed' /\ InTurn'
<1>1. PICK sync \in BOOLEAN, keys \in UpdateKeys :
         Post(UpdateMessage([NoPlan EXCEPT !.set = TRUE, !.sync = sync,
                                           !.keys = keys]))
  BY DEF UpdateStart
<1> DEFINE plan == [NoPlan EXCEPT !.set = TRUE, !.sync = sync, !.keys = keys]
           x == UpdateMessage(plan)
<1>2. plan \in Plan /\ plan.set /\ ~plan.update_now
  BY QueueAssumption DEF NoPlan, Plan
<1>3. Post(x)
  BY <1>1
<1> HIDE DEF plan
<1>4. x.tag = "update" /\ x.plan = plan
  BY DEF UpdateMessage
<1> HIDE DEF x
<1>5. Put("update", x)
  BY <1>2, <1>3, <1>4, Puts DEF ResultTags
<1>6. /\ UNCHANGED <<queue_vars, pid_vars, service_state, update_plan>>
      /\ update' = "start" /\ update \in {"none", "ok", "error"}
  BY DEF UpdateStart
<1>7. status = "up" => /\ ~update_plan.set /\ Of(mailbox, {"update"}) = {}
                       /\ Of(mailbox, {"update_now"}) = {}
  BY <1>6 DEF InTurn, Updating
<1> QED  BY <1>4, <1>5, <1>6, <1>7, UpdateSent

(* The services monitor goes on with the update.                           *)
LEMMA UpdateGoes ==
    ASSUME Typed, InTurn, UpdateNow
    PROVE  Typed' /\ InTurn'
<1>1. PICK start \in BOOLEAN : Post([tag |-> "update_now", start |-> start])
  BY DEF UpdateNow
<1> DEFINE x == [tag |-> "update_now", start |-> start]
<1>2. Post(x) /\ x.tag = "update_now" /\ x.start \in BOOLEAN
  BY <1>1
<1> HIDE DEF x
<1>3. Put("update_now", x)
  BY <1>2, Puts DEF ResultTags
<1>4. /\ UNCHANGED <<queue_vars, pid_vars, service_state, update_plan>>
      /\ update' = "now" /\ update = "ready"
  BY DEF UpdateNow
<1>5. status = "up" => /\ update_plan.set /\ ~update_plan.update_now
                       /\ Of(mailbox, {"update"}) = {}
                       /\ Of(mailbox, {"update_now"}) = {}
  BY <1>4 DEF InTurn, Updating
<1> QED  BY <1>2, <1>3, <1>4, <1>5, UpdateSent

(* The services monitor sees that the process is dead.                     *)
LEMMA UpdateLost ==
    ASSUME Typed, InTurn, UpdateDown
    PROVE  Typed' /\ InTurn'
BY DEF UpdateDown, Typed, InTurn, pid_vars, queue_vars

-----------------------------------------------------------------------------
(* The theorems                                                            *)

(* The invariant holds at first.                                           *)
LEMMA AtFirst ==
    ASSUME Init
    PROVE  Typed /\ InTurn
<1> DEFINE first == [NoMessage EXCEPT !.tag = "init_execute"]
<1>1. first.tag = "init_execute"
  BY DEF NoMessage
<1>2. mailbox = <<first>>
  BY DEF Init
<1> HIDE DEF first
<1>3. Len(mailbox) = 1 /\ mailbox[1] = first
  BY <1>2
<1>4. In(mailbox) = {first}
  BY <1>3 DEF In
<1>5. /\ Of(mailbox, {"init_execute"}) = {1}
      /\ Of(mailbox, ResultTags) = {} /\ Of(mailbox, {"exit"}) = {}
      /\ Of(mailbox, {"update"}) = {} /\ Of(mailbox, {"update_now"}) = {}
  BY <1>1, <1>3 DEF Of, ResultTags
<1>6. MailOK(mailbox)
  BY <1>1, <1>2, <1>4 DEF MailOK, ResultTags
<1>7. Pool(workers, request_pid, info_pid, next_pid) /\ Busy = {}
  BY DEF Init, Pool, Busy
<1>8. Typed
  BY <1>6, <1>7, PlanFields DEF Init, Typed
<1>9. \A m \in In(mailbox) : m.tag \notin ResultTags
  BY <1>1, <1>4 DEF ResultTags
<1>10. OneRuns /\ CurrentThere /\ Starting /\ Updating
  BY <1>5, <1>7, <1>9, PlanFields
     DEF Init, OneRuns, CurrentThere, There, Starting, Updating, Single
<1>11. Held /\ Drained
  BY <1>5 DEF Init, Held, Drained
<1> QED  BY <1>8, <1>10, <1>11 DEF InTurn

(* Every step preserves the invariant.                                     *)
LEMMA EveryStep ==
    ASSUME Typed, InTurn, [Next]_vars
    PROVE  Typed' /\ InTurn'
<1>1. CASE Handle
  BY <1>1, InitHandled, SendHandled, RecvTimeoutHandled, InfoHandled,
     RequestResultHandled, InfoResultHandled, ExitHandled, ForwardHandled,
     UpdateHandled, UpdateNowHandled, TerminateHandled, Zenon DEF Handle
<1>2. CASE \/ \E r \in Requests : Send(r)
           \/ \E i \in Infos : SendInfo(i)
           \/ \E tag \in TimerTags, id \in Requests \cup {Undefined} :
                TimerFires(tag, id)
           \/ Terminate
  BY <1>2, SentStep, Zenon
<1>3. CASE handle_module_request \/ handle_module_info
  <2>1. ASSUME NEW w \in workers, w.job.kind = "request",
               Return("request_result", w)
        PROVE  Typed' /\ InTurn'
    BY <2>1, ReturnStep, Zenon
  <2>2. ASSUME NEW w \in workers, w.job.kind = "info",
               Return("info_result", w)
        PROVE  Typed' /\ InTurn'
    BY <2>2, ReturnStep, Zenon
  <2> QED
    BY <1>3, <2>1, <2>2, Zenon DEF handle_module_request, handle_module_info
<1>4. CASE LoopExits \/ WorkerKilled
  BY <1>4, EndStep, Zenon DEF LoopExits, WorkerKilled
<1>5. CASE UpdateStart \/ UpdateNow \/ UpdateDown
  BY <1>5, UpdateStarted, UpdateGoes, UpdateLost, Zenon
<1>6. CASE UNCHANGED vars
  <2>1. UNCHANGED <<queue_vars, pid_vars, plan_vars, mailbox>>
    BY <1>6 DEF vars
  <2>2. Same
    BY <2>1 DEF Same, Typed
  <2> QED  BY <2>1, <2>2, QuietStep
<1> QED  BY <1>1, <1>2, <1>3, <1>4, <1>5, <1>6, Zenon DEF Next

(* The dispatcher, its callback processes and the services monitor always  *)
(* agree: who runs, what is due in the mailbox and how far an update is    *)
(* (every handler of the dispatcher, and the callbacks that return).       *)
THEOREM AlwaysInTurn == Spec => [](Typed /\ InTurn)
<1>1. Init => Typed /\ InTurn
  BY AtFirst
<1>2. Typed /\ InTurn /\ [Next]_vars => Typed' /\ InTurn'
  BY EveryStep
<1> QED  BY <1>1, <1>2, PTL DEF Spec

(* A set whose members are all equal has at most one.                      *)
LEMMA FewOf ==
    ASSUME NEW S, Single(S)
    PROVE  Cardinality(S) \in {0, 1} /\ (S = {} => Cardinality(S) = 0)
<1>1. Cardinality({}) = 0 /\ \A x : Cardinality({x}) = 1
  BY FS_EmptySet, FS_Singleton
<1>2. CASE S = {}
  BY <1>1, <1>2
<1>3. CASE S # {}
  <2>1. PICK x \in S : TRUE
    BY <1>3
  <2>2. S = {x}
    BY <2>1 DEF Single
  <2> QED  BY <1>1, <1>3, <2>2
<1> QED  BY <1>2, <1>3

(* The results and exits that the properties are about.                    *)
LEMMA ResultsAre ==
    /\ Results = Of(mailbox, ResultTags)
    /\ Exits = Of(mailbox, {"exit"})
BY DEF Results, Exits, Mail, Of, ResultTags

(* Requests, info messages and updates take turns on the service state,    *)
(* whichever callbacks fail, however often a request is sent, and with     *)
(* updates at any time: at most one callback runs or has a result that was *)
(* not seen, it was given the current state, and none runs once a sync     *)
(* update was reported as ready (handle_info, process_queues,              *)
(* process_update).                                                        *)
THEOREM CallbacksTakeTurns == Spec => []CallbacksSerial
<1>1. ASSUME Typed, InTurn
      PROVE  CallbacksSerial
  <2>1. OneCallback
    <3> SUFFICES ASSUME status = "up"
                 PROVE  Cardinality(Busy) + Cardinality(Results)
                          <= (IF queue_requests THEN 1 ELSE 0)
      BY DEF OneCallback
    <3>1. /\ Cardinality(Busy) \in {0, 1} /\ Cardinality(Results) \in {0, 1}
          /\ Busy = {} => Cardinality(Busy) = 0
          /\ Results = {} => Cardinality(Results) = 0
      BY <1>1, FewOf, ResultsAre DEF InTurn, OneRuns
    <3>2. /\ Busy = {} \/ Results = {}
          /\ ~queue_requests => Busy = {} /\ Results = {}
      BY <1>1, ResultsAre DEF InTurn, OneRuns
    <3> QED  BY <3>1, <3>2
  <2>2. StateSerial
    BY <1>1, ResultsAre DEF StateSerial, InTurn, OneRuns, In, Of
  <2>3. SyncUpdateQuiet
    BY <1>1, ResultsAre, PlanFields
       DEF SyncUpdateQuiet, InTurn, Updating, Typed
  <2> QED  BY <2>1, <2>2, <2>3 DEF CallbacksSerial
<1> QED  BY <1>1, AlwaysInTurn, PTL

(* The queues are never held for nothing: while the dispatcher queues what *)
(* arrives, its initialization, the result or the exit of a callback is    *)
(* due, or the services monitor is to go on with the update, and while it  *)
(* does not, nothing is queued (process_queues, handle_info of an update). *)
THEOREM QueuesAlwaysMove == Spec => []QueuesMove
<1>1. ASSUME Typed, InTurn
      PROVE  QueuesMove
  <2>1. BusyForAReason
    <3> SUFFICES ASSUME status = "up", queue_requests,
                        Of(mailbox, {"init_execute"}) # {}
                 PROVE  mailbox # <<>> /\ Head(mailbox).tag = "init_execute"
      BY <1>1, ResultsAre DEF BusyForAReason, InTurn, Held, Due
    <3>1. 1 \in Of(mailbox, {"init_execute"})
      BY <1>1 DEF InTurn, Starting
    <3>2. 1 \in 1..Len(mailbox) /\ mailbox[1].tag = "init_execute"
      BY <3>1 DEF Of
    <3>3. mailbox \in Seq(In(mailbox))
      BY <1>1 DEF Typed, MailOK
    <3> QED  BY <3>2, <3>3
  <2>2. IdleEmpty
    BY <1>1 DEF IdleEmpty, InTurn, Drained
  <2> QED  BY <2>1, <2>2 DEF QueuesMove
<1> QED  BY <1>1, AlwaysInTurn, PTL
=============================================================================
