--------------------------- MODULE ServiceContract ---------------------------
(***************************************************************************)
(* What a thread of an external service promises the services that send it *)
(* requests: a request is handled at most once, requests are handled one   *)
(* at a time, and a response is the end of a handling that took place.  A  *)
(* request may be given up at any time, by a timeout, a limit or the end   *)
(* of the service, and then it stays unanswered.                           *)
(***************************************************************************)
CONSTANT Requests

VARIABLE state  \* of each request: "waiting", "serving", "answered", "dropped"

Init == state = [r \in Requests |-> "waiting"]

Begin(r) ==
    /\ state[r] = "waiting"
    /\ \A s \in Requests : state[s] # "serving"
    /\ state' = [state EXCEPT ![r] = "serving"]

Answer(r) ==
    /\ state[r] = "serving"
    /\ state' = [state EXCEPT ![r] = "answered"]

\* One failure ends any number of requests.
Drop(R) ==
    /\ \A r \in R : state[r] \in {"waiting", "serving"}
    /\ state' = [r \in Requests |-> IF r \in R THEN "dropped" ELSE state[r]]

Next ==
    \/ \E r \in Requests : Begin(r) \/ Answer(r)
    \/ \E R \in SUBSET Requests : Drop(R)

Spec == Init /\ [][Next]_state
=============================================================================
