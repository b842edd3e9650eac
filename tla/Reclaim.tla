------------------------------ MODULE Reclaim ------------------------------
(***************************************************************************)
(* How a machine gets memory back: the collector's steps after a resume,   *)
(* the boot cpu's sweep over parked procs, the walk that returns the       *)
(* chunks heaps hold and do not use, and the kill when memory stays short. *)
(* Each works in the heap of a proc that another cpu may want to run, so   *)
(* each claims the proc first.  Memory is counted in units.                *)
(***************************************************************************)
EXTENDS Integers, Sequences, FiniteSets, FiniteSetsExt

CONSTANTS Procs,       \* 1 .. n: the slots of procv
          Cores,       \* the cpus
          Boot,        \* the one that runs kernel_run
          Units,       \* the chunk source
          OwedMax,     \* bound on the two counters of what a proc asked for
          GCSTEP_MIN, GCIDLE_MIN,
          Expendable,  \* the procs that may be killed for their memory
          Reclaimers,  \* the procs that call sys.reclaim
          MaxCalls     \* and how often, in all

NoCore == "none"
NoOne == 0
LastProc == Max(Procs)

ASSUME ReclaimAssumption ==
    /\ Boot \in Cores /\ NoCore \notin Cores
    /\ LastProc \in Nat /\ Procs = 1 .. LastProc
    /\ GCSTEP_MIN <= OwedMax /\ GCIDLE_MIN <= OwedMax

VARIABLES heap,    \* each proc's heap: units live, dead and held unused
          owed,    \* gc_owed and gc_idle_owed
          sched,   \* each proc's status, claim, queue, kill request, whether expendable
          cpu,     \* what each cpu is doing, to which proc, and where in a walk it is
          lowmem,
          calls    \* of sys.reclaim so far

reclaim_vars == <<heap, owed, sched, cpu, lowmem, calls>>

ReclaimInit ==
    /\ heap = [p \in Procs |-> [live |-> 0, dead |-> 0, held |-> 0]]
    /\ owed = [p \in Procs |-> [gc |-> 0, idle |-> 0]]
    /\ sched = [p \in Procs |-> [st |-> "READY", oncpu |-> NoCore, onq |-> TRUE, kill |-> FALSE,
                                 expendable |-> p \in Expendable]]
    /\ cpu = [c \in Cores |-> [at |-> "lap", p |-> NoOne, i |-> 0, ran |-> FALSE]]
    /\ lowmem = FALSE /\ calls = 0

Size(p) == heap[p].live + heap[p].dead + heap[p].held
Free == Units - MapThenSumSet(Size, Procs)

Gone(p) == sched[p].st \in {"BROKE", "DEAD"}

AtOf(c, at) == cpu[c].at = at
GoOn(c, at) == cpu' = [cpu EXCEPT ![c].at = at, ![c].i = 0]
Walks(c, at) == cpu' = [cpu EXCEPT ![c].at = at, ![c].i = 1]

-----------------------------------------------------------------------------
(* Dispatch.  A lap of the boot cpu has a budget, of one here. *)

TakesProc(c) ==
    /\ AtOf(c, "lap") /\ (c = Boot => ~cpu[c].ran)
    /\ \E p \in Procs :
         /\ sched[p].onq
         /\ sched' = [sched EXCEPT ![p].onq = FALSE, ![p].oncpu = c]
         /\ cpu' = [cpu EXCEPT ![c] = [at |-> "lua", p |-> p, i |-> 0, ran |-> c = Boot]]
    /\ UNCHANGED <<heap, owed, lowmem, calls>>

More(n) == IF n < OwedMax THEN n + 1 ELSE n

(* A unit is asked for: from what the heap holds, else from the source.
   An old one may die of it.  With neither, lua collects and, if that was in
   vain, raises; the proc dies of it unless it catches that. *)
kalloc_grow(c) ==
    LET p == cpu[c].p IN
    /\ AtOf(c, "lua") /\ ~Gone(p)
    /\ IF heap[p].held = 0 /\ Free = 0
       THEN /\ lowmem' = TRUE
            /\ heap' = [heap EXCEPT ![p].dead = 0, ![p].held = heap[p].dead]
            /\ \/ UNCHANGED <<sched, cpu>>
               \/ /\ heap[p].dead = 0
                  /\ sched' = [sched EXCEPT ![p].st = "BROKE"]
                  /\ GoOn(c, "release")
            /\ UNCHANGED owed
       ELSE /\ \E dies \in {0, 1} :
                 heap' = [heap EXCEPT ![p].live = @ + 1 - dies, ![p].dead = @ + dies,
                                      ![p].held = IF @ > 0 THEN @ - 1 ELSE 0]
            /\ owed' = [owed EXCEPT ![p] = [gc |-> More(@.gc), idle |-> More(@.idle)]]
            /\ UNCHANGED <<lowmem, sched, cpu>>
    /\ UNCHANGED calls

Suspends(c) ==
    /\ AtOf(c, "lua")
    /\ \E st \in {"READY", "BLOCKED"} : sched' = [sched EXCEPT ![cpu[c].p].st = st]
    /\ GoOn(c, "step")
    /\ UNCHANGED <<heap, owed, lowmem, calls>>

Collected(p, n) == heap' = [heap EXCEPT ![p].dead = @ - n, ![p].held = @ + n]

StepsAll(o) == [gc |-> 0, idle |-> 0]

StepsOwed(o) == [o EXCEPT !.gc = 0]

(* A step frees part of what is dead.  It is not taken for a proc that was
   killed, or died, meanwhile. *)
gc_step(c) ==
    LET p == cpu[c].p IN
    /\ AtOf(c, "step")
    /\ GoOn(c, "release")
    /\ IF Gone(p) \/ sched[p].kill \/ owed[p].gc < GCSTEP_MIN THEN UNCHANGED <<heap, owed>>
       ELSE /\ \E n \in 0 .. heap[p].dead : Collected(p, n)
            /\ owed' = [owed EXCEPT ![p] = StepsOwed(@)]
    /\ UNCHANGED <<sched, lowmem, calls>>

Emptied(p) == heap' = [heap EXCEPT ![p] = [live |-> 0, dead |-> 0, held |-> 0]]

release_claim(c) ==
    LET p == cpu[c].p IN
    /\ AtOf(c, "release")
    /\ sched' = [sched EXCEPT ![p].oncpu = NoCore, ![p].kill = FALSE,
                              ![p].st = IF sched[p].kill /\ ~Gone(p) THEN "DEAD" ELSE @,
                              ![p].onq = ~sched[p].kill /\ sched[p].st = "READY"]
    /\ IF sched[p].kill /\ ~Gone(p) THEN Emptied(p) ELSE UNCHANGED heap
    /\ cpu' = [cpu EXCEPT ![c].at = "lap", ![c].p = NoOne]
    /\ UNCHANGED <<owed, lowmem, calls>>

(* A message for a parked proc, from anywhere: one that is in hand is put on
   the queue by whoever has it. *)
make_ready(p) ==
    /\ sched[p].st = "BLOCKED"
    /\ sched' = [sched EXCEPT ![p].st = "READY", ![p].onq = sched[p].oncpu = NoCore]
    /\ UNCHANGED <<heap, owed, cpu, lowmem, calls>>

-----------------------------------------------------------------------------
(* gc_idle_sweep, by the boot cpu between laps. *)

LapEnd(c) ==
    /\ c = Boot /\ AtOf(c, "lap")
    /\ Walks(c, "sweep")
    /\ UNCHANGED <<heap, owed, sched, lowmem, calls>>

Parked(p) == sched[p].st = "BLOCKED" /\ sched[p].oncpu = NoCore /\ ~sched[p].onq

Claims(c, p, at) ==
    /\ sched' = [sched EXCEPT ![p].oncpu = c]
    /\ cpu' = [cpu EXCEPT ![c].at = at]

Skips(c) == cpu' = [cpu EXCEPT ![c].i = @ + 1] /\ UNCHANGED sched

(* What a proc is put back as: a wakeup met the claim and left the queue to
   whoever holds it. *)
LetGo(c, p, at) ==
    /\ sched' = [sched EXCEPT ![p].oncpu = NoCore, ![p].onq = sched[p].st = "READY"]
    /\ cpu' = [cpu EXCEPT ![c].at = at, ![c].i = @ + 1]

SweepClaim(c) ==
    /\ AtOf(c, "sweep") /\ cpu[c].i <= LastProc
    /\ IF Parked(cpu[c].i) /\ owed[cpu[c].i].idle >= GCIDLE_MIN THEN Claims(c, cpu[c].i, "collect") ELSE Skips(c)
    /\ UNCHANGED <<heap, owed, lowmem, calls>>

gc_idle_collect(c) ==
    LET p == cpu[c].i IN
    /\ AtOf(c, "collect")
    /\ Collected(p, heap[p].dead)
    /\ owed' = [owed EXCEPT ![p] = [gc |-> 0, idle |-> 0]]
    /\ LetGo(c, p, "sweep")
    /\ UNCHANGED <<lowmem, calls>>

-----------------------------------------------------------------------------
(* proc_heaps_release: the lap's when memory is low or the machine has been
   quiet, and sys.reclaim's on whichever cpu its caller runs. *)

SweepEnd(c) ==
    /\ AtOf(c, "sweep") /\ cpu[c].i > LastProc
    /\ lowmem' = FALSE
    /\ IF lowmem THEN Walks(c, "lowwalk") ELSE GoOn(c, "quiet")
    /\ UNCHANGED <<heap, owed, sched, calls>>

(* A lap in which nothing ran may be the one that makes a spell quiet: how
   many that takes, and that it is once a spell, is left open. *)
Quiet(c) ==
    /\ AtOf(c, "quiet")
    /\ \/ ~cpu[c].ran /\ Walks(c, "walk")
       \/ cpu' = [cpu EXCEPT ![c] = [@ EXCEPT !.at = "lap", !.ran = FALSE]]
    /\ UNCHANGED <<heap, owed, sched, lowmem, calls>>

api_reclaim(c) ==
    /\ AtOf(c, "lua") /\ cpu[c].p \in Reclaimers /\ calls < MaxCalls
    /\ calls' = calls + 1
    /\ Walks(c, "walk")
    /\ UNCHANGED <<heap, owed, sched, lowmem>>

Walking(c) == cpu[c].at \in {"walk", "lowwalk"}

MayRelease(c, p) == sched[p].oncpu = c \/ Parked(p)

Holding(at) == IF at = "walk" THEN "held" ELSE "lowheld"

WalkClaim(c) ==
    /\ Walking(c) /\ cpu[c].i <= LastProc
    /\ IF MayRelease(c, cpu[c].i) THEN Claims(c, cpu[c].i, Holding(cpu[c].at)) ELSE Skips(c)
    /\ UNCHANGED <<heap, owed, lowmem, calls>>

(* Whatever the heap holds goes back, and the proc with it, unless it is the
   caller's own. *)
luaheap_release(c) ==
    LET p == cpu[c].i
        at == IF cpu[c].at = "held" THEN "walk" ELSE "lowwalk"
    IN
    /\ cpu[c].at \in {"held", "lowheld"}
    /\ heap' = [heap EXCEPT ![p].held = 0]
    /\ IF cpu[c].p = p THEN cpu' = [cpu EXCEPT ![c].at = at, ![c].i = @ + 1] /\ UNCHANGED sched
       ELSE LetGo(c, p, at)
    /\ UNCHANGED <<owed, lowmem, calls>>

WalkEnd(c) ==
    /\ AtOf(c, "walk") /\ cpu[c].i > LastProc
    /\ GoOn(c, IF cpu[c].p = NoOne THEN "lap" ELSE "lua")
    /\ UNCHANGED <<heap, owed, sched, lowmem, calls>>

(* Short after the release: the largest expendable proc is killed, by the
   cpu that has it if one does. *)
kmem_victim == {p \in Procs : sched[p].expendable /\ ~Gone(p)}

kmem_short == Free = 0

LowEnd(c) ==
    /\ AtOf(c, "lowwalk") /\ cpu[c].i > LastProc
    /\ IF kmem_short /\ kmem_victim # {}
       THEN \E v \in {v \in kmem_victim : \A o \in kmem_victim : Size(o) <= Size(v)} :
              cpu' = [cpu EXCEPT ![c].at = "kill", ![c].i = v]
              /\ sched' = [sched EXCEPT ![v].expendable = FALSE]
       ELSE GoOn(c, "quiet") /\ UNCHANGED sched
    /\ UNCHANGED <<heap, owed, lowmem, calls>>

proc_kill(c) ==
    LET v == cpu[c].i IN
    /\ AtOf(c, "kill")
    /\ GoOn(c, "quiet")
    /\ IF Gone(v) THEN UNCHANGED <<heap, sched>>
       ELSE IF sched[v].oncpu \notin {NoCore, c}
       THEN sched' = [sched EXCEPT ![v].kill = TRUE] /\ UNCHANGED heap
       ELSE sched' = [sched EXCEPT ![v].st = "DEAD", ![v].onq = FALSE] /\ Emptied(v)
    /\ UNCHANGED <<owed, lowmem, calls>>

-----------------------------------------------------------------------------
Steps(c) ==
    \/ gc_step(c) \/ release_claim(c) \/ SweepClaim(c) \/ gc_idle_collect(c) \/ SweepEnd(c) \/ Quiet(c)
    \/ WalkClaim(c) \/ luaheap_release(c) \/ WalkEnd(c) \/ LowEnd(c) \/ proc_kill(c)

ReclaimNext ==
    \/ \E c \in Cores : TakesProc(c) \/ kalloc_grow(c) \/ Suspends(c) \/ api_reclaim(c) \/ LapEnd(c) \/ Steps(c)
    \/ \E p \in Procs : make_ready(p)

(* A cpu goes on: it takes the next step of the kernel's, the boot cpu ends
   its laps, and a count hook ends a resume. *)
GoesOn(c) == Steps(c) \/ LapEnd(c) \/ Suspends(c)

-----------------------------------------------------------------------------
(* Properties. *)

(* One cpu at a time is in a proc's heap, running lua, collecting or giving
   chunks back: dispatch, the sweep and the two walks agree on the claim. *)
In(c) ==
    (IF cpu[c].p # NoOne THEN {cpu[c].p} ELSE {}) \cup
    (IF cpu[c].at \in {"collect", "held", "lowheld"} THEN {cpu[c].i} ELSE {})

HeapAlone == \A c, d \in Cores : c # d => In(c) \cap In(d) = {}

(* A proc that stays parked is collected whole: what it left dead comes
   back, though nothing of its own runs. *)
ParkedCollected ==
    \A p \in Procs :
        (sched[p].st = "BLOCKED" /\ heap[p].dead >= GCIDLE_MIN) ~>
        (sched[p].st # "BLOCKED" \/ heap[p].dead < GCIDLE_MIN)

(* A heap is worked on by one cpu at a time, and one that is left with garbage
   is worked on (gc_idle_sweep, proc_heaps_release). *)
HeapsTended == []HeapAlone /\ ParkedCollected

(* A kill is left only for a cpu that will see it: proc_kill says "On
   another cpu, the kill is left for it", and it is release_claim that
   looks. *)
KillCarried == \A p \in Procs : sched[p].kill => \E c \in Cores : cpu[c].p = p
=============================================================================
