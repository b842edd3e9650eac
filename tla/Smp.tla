-------------------------------- MODULE Smp --------------------------------
(***************************************************************************)
(* Starting the other cpus: src/platform/microvm/smp.c with lapic.c's      *)
(* start-up sequence.  The boot cpu hands each cpu its stack and its index *)
(* through one page, waits a bounded time for it to say it arrived, and    *)
(* lets them all go at the end.  The page is shared: a cpu reads it when   *)
(* it gets there, not when it was asked to start.                          *)
(***************************************************************************)
EXTENDS Integers, FiniteSets

CONSTANTS NCPU,     \* cpus the kernel is built for
          Present,  \* how many fw_cfg may say there are; 0 where it says nothing
          Late      \* whether a cpu may take longer than its second to arrive

ASSUME SmpAssumption == NCPU \in Nat \ {0} /\ Present \subseteq Nat /\ Late \in BOOLEAN

VARIABLES bsp,     \* where the boot cpu is, and which cpu it is starting
          apic,    \* there is a LAPIC
          page,    \* the stack and the index in the trampoline page
          online,  \* who said last that it arrived
          ncpu,    \* cpus counted
          apgo,    \* the cpus may dispatch
          ap       \* each other cpu: where it is, its stack and its index

smp_vars == <<bsp, apic, page, online, ncpu, apgo, ap>>

AP == 1 .. NCPU - 1
Nobody == -1

SmpInit ==
    /\ apic \in BOOLEAN
    /\ \E n \in Present : bsp = [at |-> "start", want |-> IF ~apic \/ n < 1 THEN 1 ELSE IF n > NCPU THEN NCPU ELSE n,
                                 i |-> 1]
    /\ page = [stack |-> 0, index |-> 0]
    /\ online = Nobody
    /\ ncpu = 1
    /\ apgo = FALSE
    /\ ap = [c \in AP |-> [at |-> "reset", stack |-> 0, index |-> 0]]

-----------------------------------------------------------------------------
(* The boot cpu. *)

(* startap's first half.  INIT puts the cpu back to the start and the first
   STARTUP it takes sends it to the page; lapic_startap sends two in case one
   is lost. *)
Asks(p, i) == [stack |-> i, index |-> i]

startap ==
    /\ bsp.at = "start" /\ bsp.i < bsp.want
    /\ online' = Nobody
    /\ page' = Asks(page, bsp.i)
    /\ ap' = [ap EXCEPT ![bsp.i].at = "started"]
    /\ bsp' = [bsp EXCEPT !.at = "wait"]
    /\ UNCHANGED <<apic, ncpu, apgo>>

Arrived ==
    /\ bsp.at = "wait" /\ online = bsp.i
    /\ ncpu' = ncpu + 1
    /\ bsp' = [bsp EXCEPT !.at = "start", !.i = @ + 1]
    /\ UNCHANGED <<apic, page, online, apgo, ap>>

(* The second is over: because the cpu is not there, or not there yet. *)
GivenUp ==
    /\ bsp.at = "wait" /\ online # bsp.i
    /\ Late \/ ap[bsp.i].at = "dead"
    /\ bsp' = [bsp EXCEPT !.at = "start", !.i = @ + 1]
    /\ UNCHANGED <<apic, page, online, ncpu, apgo, ap>>

GoesEarly == bsp.i >= bsp.want \/ bsp.i = 2

MayGo == bsp.i >= bsp.want

smp_start_aps ==
    /\ bsp.at = "start" /\ MayGo
    /\ apgo' = (bsp.want > 1)
    /\ bsp' = [bsp EXCEPT !.at = IF bsp.i >= bsp.want THEN "run" ELSE "start"]
    /\ UNCHANGED <<apic, page, online, ncpu, ap>>

-----------------------------------------------------------------------------
(* Another cpu. *)

(* One that cannot start never does. *)
Dies(c) ==
    /\ ap[c].at = "started"
    /\ ap' = [ap EXCEPT ![c].at = "dead"]
    /\ UNCHANGED <<bsp, apic, page, online, ncpu, apgo>>

(* The trampoline: stack and index as the page has them now. *)
Lands(c) ==
    /\ ap[c].at = "started"
    /\ ap' = [ap EXCEPT ![c] = [at |-> "main", stack |-> page.stack, index |-> page.index]]
    /\ UNCHANGED <<bsp, apic, page, online, ncpu, apgo>>

(* ap_main as far as saying so: its struct cpu, its idt, its LAPIC. *)
ap_main(c) ==
    /\ ap[c].at = "main"
    /\ online' = ap[c].index
    /\ ap' = [ap EXCEPT ![c].at = "parked"]
    /\ UNCHANGED <<bsp, apic, page, ncpu, apgo>>

kernel_run_ap(c) ==
    /\ ap[c].at = "parked" /\ apgo
    /\ ap' = [ap EXCEPT ![c].at = "run"]
    /\ UNCHANGED <<bsp, apic, page, online, ncpu, apgo>>

SmpNext ==
    \/ startap \/ Arrived \/ GivenUp \/ smp_start_aps
    \/ \E c \in AP : Dies(c) \/ Lands(c) \/ ap_main(c) \/ kernel_run_ap(c)

-----------------------------------------------------------------------------
(* Properties. *)

On == {c \in AP : ap[c].at \in {"main", "parked", "run"}}
Running == {c \in AP : ap[c].at = "run"}

(* No cpu dispatches before the count takes it in, and none on a stack or as
   an index another cpu has: what a proc is told of the machine is what it
   runs on. *)
CountedBeforeRun ==
    /\ Cardinality(Running) < ncpu
    /\ (apgo /\ bsp.at = "run") => Cardinality(On) + 1 = ncpu
    /\ \A c, d \in On : c # d => ap[c].stack # ap[d].stack /\ ap[c].index # ap[d].index

=============================================================================
