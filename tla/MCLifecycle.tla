---------------------------- MODULE MCLifecycle ----------------------------
(* Small machines for Lifecycle. *)
EXTENDS Lifecycle, TLC

(* A supervisor (pid 1), what it started, and the children it starts. *)
Family   == (1 :> {2}) @@ (2 :> {})
Workers  == [i \in Pid |-> CASE i = 1 -> {"spawn", "kill", "reap", "monitor"}
                             [] i = 2 -> {"block", "exit", "fault"}
                             [] OTHER -> {"send", "monitor"}]
NoVictim == {}

(* Procs that only die, one of them of a memory shortage. *)
Three    == [i \in 1 .. 3 |-> {}]
Mortals  == [i \in Pid |-> {"exit", "fault"}]
Victim   == {3}

(* A memory shortage among procs that park and send. *)
Parked   == [i \in Pid |-> {"block", "send"}]
============================================================================
