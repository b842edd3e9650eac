------------------------------ MODULE MCSched ------------------------------
(* Small machines for Sched, by what the procs on them do. *)
EXTENDS Sched, TLC

Target  == CHOOSE p \in Proc : TRUE
Readers == [p \in Proc |-> IF p = Target THEN {"receive", "block"} ELSE {"send", "hold"}]
Clients == [p \in Proc |-> IF p = Target THEN {"receive", "block"}
                          ELSE {"send", "block", "hold"}]

Both     == {"pump", "collect"}
Quiet    == {}

Symmetry == Permutations(Port) \cup Permutations(Proc \ {Target})
============================================================================
