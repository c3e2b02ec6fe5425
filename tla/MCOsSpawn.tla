------------------------------ MODULE MCOsSpawn ------------------------------
(* Values of the constants of OsSpawn for TLC.                             *)
EXTENDS OsSpawn

CONSTANTS c1, c2

\* c1 has a user by name; the user of c2 has a number that does not fit.
UserIds == c1 :> [id |-> 0, named |-> TRUE, uid |-> 2, gid |-> 3] @@
           c2 :> [id |-> IdModulus, named |-> FALSE, uid |-> 0, gid |-> 0]
GroupIds == c1 :> [id |-> 0, named |-> FALSE, gid |-> 0] @@
            c2 :> [id |-> 1, named |-> FALSE, gid |-> 0]

\* c1 lowers two limits and c2 raises two, one of them to infinity.
Limits ==
    c1 :> <<[type |-> "nofile", current |-> 1, maximum |-> undefined],
            [type |-> "core", current |-> undefined, maximum |-> 2]>> @@
    c2 :> <<[type |-> "cpu", current |-> 3, maximum |-> MaxLimit],
            [type |-> "as", current |-> undefined, maximum |-> 3]>>

\* c1 may leave more than a buffer holds.
Printed == c1 :> <<1, 2>> @@ c2 :> <<1, 0>>

Own == [cur |-> 1, max |-> 2]
=============================================================================
