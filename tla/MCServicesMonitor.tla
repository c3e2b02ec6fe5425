------------------------- MODULE MCServicesMonitor --------------------------
(* The scenarios of the runs of ServicesMonitor.                           *)
EXTENDS ServicesMonitor

CONSTANTS s1

(* Two processes end for some of the reasons while the service API is      *)
(* called.                                                                 *)
Processes(reasons) ==
    [count_process |-> 2, count_thread |-> 1, max_r |-> 1,
     restart_delay |-> "false", start_fails |-> FALSE,
     fail_reasons |-> reasons,
     max_calls |-> 1, max_pids |-> 3, max_time |-> 0]

(* A process fails again and again, with or without a delay, while time    *)
(* passes and a start may fail.                                            *)
Restarting(delay) ==
    [count_process |-> 1, count_thread |-> 1, max_r |-> 2,
     restart_delay |-> delay, start_fails |-> TRUE,
     fail_reasons |-> {"error"},
     max_calls |-> 0, max_pids |-> 5, max_time |-> 3]

(* The two threads of a group end and start together, if they may restart. *)
Group(restarts_allowed) ==
    [count_process |-> 1, count_thread |-> 2, max_r |-> restarts_allowed,
     restart_delay |-> "zero", start_fails |-> TRUE,
     fail_reasons |-> {"error"},
     max_calls |-> 0, max_pids |-> 4, max_time |-> 1]

(* Threads of one group whose terminate callbacks may hang.                *)
Hanging ==
    [count_process |-> 1, count_thread |-> 2, max_r |-> 1,
     restart_delay |-> "false", start_fails |-> FALSE,
     fail_reasons |-> {"error"},
     max_calls |-> 0, max_pids |-> 4, max_time |-> 0]

(* A restart delay in which another process is shut down.                  *)
Delayed ==
    [count_process |-> 2, count_thread |-> 1, max_r |-> 1,
     restart_delay |-> "positive", start_fails |-> FALSE,
     fail_reasons |-> {"error", "shutdown"},
     max_calls |-> 0, max_pids |-> 6, max_time |-> 2]

AllSafety == {Processes({"error", "shutdown"}),
              Processes({"error", "dynamic"}),
              Restarting("zero"), Restarting("positive"),
              Group(0), Group(1), Hanging}
OnlyHanging == {Hanging}
OnlyDelayed == {Delayed}
=============================================================================
