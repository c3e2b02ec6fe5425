--------------------------- MODULE MCRequestQueue ---------------------------
(* Values for the constants of RequestQueue that a configuration file      *)
(* cannot write.                                                           *)
EXTENDS RequestQueue

CONSTANTS r1, r2, r3, i1

OneRequest == {r1}
TwoRequests == {r1, r2}

HighLow == {-128, 127}

NoKeys == {{}}
AllKeysOrNone == {{}, PidKeys}
RequestPidChanges == {{"request_pid"}}

Symmetry == Permutations({r1, r2, r3})

=============================================================================
