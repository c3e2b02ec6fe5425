-------------------------- MODULE MCServiceSender --------------------------
(* Instances of ServiceSender for TLC: sets of calls, destinations and     *)
(* operations.  A timeout of 0 is immediate, 6 allows one retry.           *)
EXTENDS ServiceSender

CONSTANTS c1, c2, c3, p1, p2

NoCalls == {}
OneCall == {c1}
TwoCalls == {c1, c2}
OtherCall == {c2}
OtherCalls == {c2, c3}
NoPid == {}
OnePid == {p1}
TwoPids == {p1, p2}
Symmetry == Permutations(SendCalls) \cup Permutations(RecvCalls)
            \cup Permutations(Pids)

ShortLong == {0, 6}
Long == {2}
Retry == {5}

MixedOps == {"send_async_active_pid", "send_sync"}
ReceiveOps == {"mcast_async", "recv_async", "recv_asyncs"}
WatchOps == {"monitor", "send_async_active_pid"}
=============================================================================
