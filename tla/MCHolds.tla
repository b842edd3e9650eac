------------------------------ MODULE MCHolds ------------------------------
(* What one cpu holds while others run: the kernel's locks on two cpus, and
   one target with one debugger and one breakpoint line.  Each behaviour is one
   of one of the two. *)
EXTENDS IpcLock, Debug

VARIABLE part
all_vars == <<part, vars, debug_vars>>

(* A debugger that stops its target wherever it is, and may end at any time. *)
Session(ops, nests, faults) == [ops |-> ops, nests |-> nests, faults |-> faults]

Halting == Session({"attach", "stop", "cont"}, {"wrap", "resume"}, {})
HardHalting == Session({"attach", "stop"}, {"wrap", "hard"}, {})
Leaving == Session({"attach", "stop", "cont", "detach"}, {"run"}, {"dies"})

(* Breakpoints and steps through coroutines. *)
Stepping == Session({"attach", "setbreak", "step"}, {"wrap"}, {})
Clearing == Session({"attach", "setbreak", "clearbreak"}, {"wrap"}, {})

(* The target is killed under its debugger. *)
Killing == Session({"attach", "stop", "cont", "read"}, {}, {"dies", "kill"})

Debugging == {Halting, HardHalting, Leaving, Stepping, Clearing, Killing}

StillDebug == DebugInit /\ session = CHOOSE s \in Sessions : TRUE
HoldsInit ==
    /\ part \in {"locks", "stops"}
    /\ Init
    /\ IF part = "stops" THEN DebugInit ELSE StillDebug

HoldsNext ==
    /\ UNCHANGED part
    /\ \/ part = "locks" /\ Next /\ UNCHANGED debug_vars
       \/ part = "stops" /\ DebugNext /\ UNCHANGED vars

(* The cpus run laps: they take what is queued, finish what they took and
   sweep.  A call of the debugger's or the killer's goes on once its hold is
   granted.  A sample falls, in the end, in a frame that can yield.  Where the
   locks are in question none of this is owed. *)
Debugged(A) == part = "stops" /\ A
DebugFair ==
    /\ WF_debug_vars(Debugged(Kernel)) /\ WF_debug_vars(Debugged(dbg_sweep)) /\ WF_debug_vars(Debugged(Body))
    /\ SF_debug_vars(Debugged(Take)) /\ SF_debug_vars(Debugged(Sample))
    /\ WF_debug_vars(Debugged(kill = "hold" /\ api_kill))

HoldsSpec == HoldsInit /\ [][HoldsNext]_all_vars /\ Fairness /\ DebugFair
============================================================================
