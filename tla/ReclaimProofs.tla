--------------------------- MODULE ReclaimProofs ---------------------------
(***************************************************************************)
(* One cpu at a time in a proc's heap, for any number of procs and cpus:   *)
(* HeapAlone, from an invariant that says where a cpu may be with what in  *)
(* its hands, that it has claimed the procs in whose heaps it works, and   *)
(* that a queued proc is nobody's.                                         *)
(***************************************************************************)
EXTENDS Reclaim, TLAPS

(* The places of a cpu's code, and those where it works in a heap it claimed
   for that. *)
Working == {"collect", "held", "lowheld"}
Code == {"lap", "lua", "step", "release", "sweep", "quiet", "walk", "lowwalk", "kill"} \cup Working

Slots == [st : {"READY", "BLOCKED", "BROKE", "DEAD"}, oncpu : Cores \cup {NoCore}, onq : BOOLEAN,
          kill : BOOLEAN, expendable : BOOLEAN]
Places == [at : Code, p : Procs \cup {NoOne}, i : Nat, ran : BOOLEAN]

ReclaimTypeOK == sched \in [Procs -> Slots] /\ cpu \in [Cores -> Places]

(* What a cpu has in its hands where it is. *)
Placed(c) ==
    /\ cpu[c].at \in {"lua", "step", "release"} => cpu[c].p # NoOne
    /\ cpu[c].at \in {"lap", "sweep", "collect", "quiet", "lowwalk", "lowheld", "kill"} => cpu[c].p = NoOne
    /\ cpu[c].at \in {"sweep", "walk", "lowwalk"} => cpu[c].i \in Nat \ {0}
    /\ cpu[c].at \in Working \cup {"kill"} => cpu[c].i \in Procs

(* A cpu has claimed the procs in whose heaps it is. *)
Mine(c) ==
    /\ cpu[c].p # NoOne => sched[cpu[c].p].oncpu = c
    /\ cpu[c].at \in Working => sched[cpu[c].i].oncpu = c

(* A queued proc is nobody's. *)
Queued == \A p \in Procs : sched[p].onq => sched[p].oncpu = NoCore

ReclaimInv == ReclaimTypeOK /\ Queued /\ \A c \in Cores : Placed(c) /\ Mine(c)

----------------------------------------------------------------------------
(* What a step may do to its cpu and to the claims. *)

(* Cpu c goes to a place with a proc in its hands and a slot to look at. *)
Goes(c, at, p, i) ==
    /\ cpu' \in [Cores -> Places]
    /\ cpu'[c].at = at /\ cpu'[c].p = p /\ cpu'[c].i = i
    /\ \A d \in Cores : d # c => cpu'[d] = cpu[d]

(* Every claim stays as it is. *)
Keeps ==
    /\ sched' \in [Procs -> Slots] /\ Queued'
    /\ \A p \in Procs : sched'[p].oncpu = sched[p].oncpu

(* The claim on one proc changes hands: from nobody or c to c or nobody. *)
Passes(c, p, to) ==
    /\ sched[p].oncpu \in {NoCore, c}
    /\ sched' \in [Procs -> Slots]
    /\ sched'[p].oncpu = to /\ (sched'[p].onq => to = NoCore)
    /\ \A x \in Procs : x # p => sched'[x] = sched[x]

(* A proc's slot is a number from 1. *)
LEMMA SlotNumbers ==
    /\ \A p \in Procs : p \in Nat \ {0} /\ p # NoOne
    /\ \A i \in Nat \ {0} : i <= LastProc => i \in Procs
    /\ \A i \in Nat : i + 1 \in Nat \ {0}
    /\ 0 \in Nat /\ 1 \in Nat \ {0}
<1>1. LastProc \in Nat /\ Procs = 1 .. LastProc
  BY Zenon, ReclaimAssumption
<1>2. \A n \in Nat : \A p \in 1 .. n : p \in Nat \ {0} /\ p # NoOne
  BY DEF NoOne
<1>3. \A n \in Nat : \A i \in Nat \ {0} : i <= n => i \in 1 .. n
  OBVIOUS
<1>4. (\A i \in Nat : i + 1 \in Nat \ {0}) /\ 0 \in Nat /\ 1 \in Nat \ {0}
  OBVIOUS
<1> QED
  BY Zenon, <1>1, <1>2, <1>3, <1>4

(* A step to another place of the code, with the same proc. *)
LEMMA GoesOnward ==
    ASSUME ReclaimTypeOK, NEW c \in Cores, NEW at \in Code, NEW i \in Nat,
           cpu' = [cpu EXCEPT ![c].at = at, ![c].i = i]
    PROVE  Goes(c, at, cpu[c].p, i)
<1>1. cpu[c] \in Places /\ cpu \in [Cores -> Places]
  BY Zenon DEF ReclaimTypeOK
<1>2. cpu'[c] = [cpu[c] EXCEPT !.at = at, !.i = i]
  BY Zenon, <1>1
<1>3. cpu'[c] \in Places /\ cpu'[c].at = at /\ cpu'[c].p = cpu[c].p /\ cpu'[c].i = i
  BY Zenon, <1>1, <1>2 DEF Places
<1>4. \A d \in Cores : d # c => cpu'[d] = cpu[d]
  BY Zenon, <1>1
<1>5. cpu' \in [Cores -> Places]
  BY Zenon, <1>1, <1>3, <1>4
<1> QED
  BY Zenon, <1>3, <1>4, <1>5 DEF Goes

(* Nothing of the claims is touched by a step that leaves them as they are. *)
LEMMA KeepsAll == ASSUME ReclaimInv, sched' = sched PROVE Keeps
  BY Zenon DEF ReclaimInv, ReclaimTypeOK, Keeps, Queued

(* A cpu that does nothing stays in its place. *)
LEMMA PlacedKept == ASSUME NEW d \in Cores, cpu'[d] = cpu[d], Placed(d) PROVE Placed(d)'
<1>1. /\ cpu'[d].at \in {"lua", "step", "release"} => cpu'[d].p # NoOne
      /\ cpu'[d].at \in {"lap", "sweep", "collect", "quiet", "lowwalk", "lowheld", "kill"} =>
           cpu'[d].p = NoOne
  BY Zenon DEF Placed
<1>2. /\ cpu'[d].at \in {"sweep", "walk", "lowwalk"} => cpu'[d].i \in Nat \ {0}
      /\ cpu'[d].at \in Working \cup {"kill"} => cpu'[d].i \in Procs
  BY Zenon DEF Placed
<1> QED
  BY Zenon, <1>1, <1>2 DEF Placed, Working

(* What one step needs to keep the invariant: its own cpu right, and every
   claim of another cpu left alone. *)
LEMMA StepInv ==
    ASSUME ReclaimInv, NEW c \in Cores, NEW at, NEW p, NEW i, Goes(c, at, p, i),
           Placed(c)', Mine(c)',
           Keeps \/ \E x \in Procs, to \in {NoCore, c} : Passes(c, x, to)
    PROVE  ReclaimInv'
<1>0. ReclaimTypeOK /\ Queued /\ (\A d \in Cores : Placed(d) /\ Mine(d)) /\ NoCore \notin Cores
  BY Zenon, ReclaimAssumption DEF ReclaimInv
<1>1. ReclaimTypeOK'
  BY Zenon DEF ReclaimTypeOK, Goes, Keeps, Passes
<1>2. Queued'
  BY Zenon, <1>0 DEF Queued, Keeps, Passes
<1>3. \A x \in Procs, d \in Cores : d # c /\ sched[x].oncpu = d => sched'[x].oncpu = d
  BY Zenon, <1>0 DEF Keeps, Passes
<1>4. ASSUME NEW d \in Cores, d # c PROVE Placed(d)' /\ Mine(d)'
  <2>1. cpu'[d] = cpu[d]
    BY Zenon, <1>4 DEF Goes
  <2>2. Placed(d) /\ Mine(d) /\ cpu[d].p \in Procs \cup {NoOne}
    <3>1. cpu[d] \in Places
      BY Zenon, <1>0 DEF ReclaimTypeOK
    <3>2. cpu[d].p \in Procs \cup {NoOne}
      BY Zenon, <3>1 DEF Places
    <3> QED
      BY Zenon, <1>0, <3>2
  <2>3. Placed(d)'
    BY Zenon, <2>1, <2>2, PlacedKept
  <2>4. cpu[d].p # NoOne => sched'[cpu[d].p].oncpu = d
    BY Zenon, <1>3, <1>4, <2>2 DEF Mine
  <2>5. cpu[d].at \in Working => sched'[cpu[d].i].oncpu = d
    BY Zenon, <1>3, <1>4, <2>2 DEF Mine, Placed
  <2> QED
    BY Zenon, <2>1, <2>3, <2>4, <2>5 DEF Mine
<1> QED
  BY Zenon, <1>1, <1>2, <1>4 DEF ReclaimInv

----------------------------------------------------------------------------
(* The steps. *)

(* A step that goes elsewhere with the same proc and leaves every claim. *)
LEMMA MovesOn ==
    ASSUME ReclaimInv, NEW c \in Cores, NEW at \in Code \ Working, NEW i \in Nat,
           cpu' = [cpu EXCEPT ![c].at = at, ![c].i = i], Keeps,
           at \in {"lua", "step", "release"} => cpu[c].p # NoOne,
           at \in {"lap", "sweep", "quiet", "lowwalk", "kill"} => cpu[c].p = NoOne,
           at \in {"sweep", "walk", "lowwalk"} => i \in Nat \ {0},
           at = "kill" => i \in Procs
    PROVE  ReclaimInv'
<1>0. ReclaimTypeOK /\ Mine(c)
  BY Zenon DEF ReclaimInv
<1>1. Goes(c, at, cpu[c].p, i)
  BY Zenon, <1>0, GoesOnward
<1>2. cpu'[c].at = at /\ cpu'[c].p = cpu[c].p /\ cpu'[c].i = i
  BY Zenon, <1>1 DEF Goes
<1>3. Placed(c)'
  BY Zenon, <1>2 DEF Placed, Working
<1>4. cpu[c].p # NoOne => sched'[cpu[c].p].oncpu = c
  <2>1. cpu[c] \in Places
    BY Zenon, <1>0 DEF ReclaimTypeOK
  <2>2. cpu[c].p \in Procs \cup {NoOne}
    BY Zenon, <2>1 DEF Places
  <2> QED
    BY Zenon, <1>0, <2>2 DEF Mine, Keeps
<1>5. Mine(c)'
  BY Zenon, <1>2, <1>4 DEF Mine
<1> QED
  BY Zenon, <1>1, <1>3, <1>5, StepInv

(* What is known of a cpu in a state of the invariant. *)
LEMMA Known ==
    ASSUME ReclaimInv, NEW c \in Cores
    PROVE  /\ ReclaimTypeOK /\ Queued /\ Placed(c) /\ Mine(c)
           /\ cpu[c] \in Places /\ cpu[c].p \in Procs \cup {NoOne} /\ cpu[c].i \in Nat
           /\ cpu[c].at \in Code /\ c # NoCore
<1>1. cpu[c] \in Places
  BY Zenon DEF ReclaimInv, ReclaimTypeOK
<1>2. cpu[c].p \in Procs \cup {NoOne} /\ cpu[c].i \in Nat /\ cpu[c].at \in Code
  BY Zenon, <1>1 DEF Places
<1> QED
  BY Zenon, <1>1, <1>2, ReclaimAssumption DEF ReclaimInv

(* A step that changes a proc's other fields leaves every claim. *)
LEMMA KeepsClaims ==
    ASSUME ReclaimInv, NEW v \in Procs, NEW r \in Slots, sched' = [sched EXCEPT ![v] = r],
           r.oncpu = sched[v].oncpu, r.onq => sched[v].onq
    PROVE  Keeps
<1>1. sched \in [Procs -> Slots] /\ Queued
  BY Zenon DEF ReclaimInv, ReclaimTypeOK
<1>2. sched' \in [Procs -> Slots]
  BY Zenon, <1>1
<1>3. \A p \in Procs : sched'[p].oncpu = sched[p].oncpu /\ (sched'[p].onq => sched[p].onq)
  BY Zenon, <1>1
<1> QED
  BY Zenon, <1>1, <1>2, <1>3 DEF Keeps, Queued

(* Dispatch: a queued proc is nobody's, so it may be claimed. *)
LEMMA TakesInv == ASSUME ReclaimInv, NEW c \in Cores, TakesProc(c) PROVE ReclaimInv'
<1>0. ReclaimTypeOK /\ Queued
  BY Zenon, Known
<1> DEFINE zero == 0
           first == c = Boot
<1>1. PICK p \in Procs :
        /\ sched[p].onq
        /\ sched' = [sched EXCEPT ![p].onq = FALSE, ![p].oncpu = c]
        /\ cpu' = [cpu EXCEPT ![c] = [at |-> "lua", p |-> p, i |-> zero, ran |-> first]]
  BY Zenon DEF TakesProc
<1>a. first \in BOOLEAN
  OBVIOUS
<1>2. zero \in Nat /\ first \in BOOLEAN /\ p # NoOne
  BY Zenon, <1>a, SlotNumbers
<1> HIDE DEF zero, first
<1>3. Goes(c, "lua", p, zero)
  <2> DEFINE k == [at |-> "lua", p |-> p, i |-> zero, ran |-> first]
  <2>1. k \in Places /\ k.at = "lua" /\ k.p = p /\ k.i = zero
    BY Zenon, <1>2 DEF Places, Code
  <2> HIDE DEF k
  <2>2. cpu' = [cpu EXCEPT ![c] = k]
    BY Zenon, <1>1 DEF k
  <2> QED
    BY Zenon, <1>0, <2>1, <2>2 DEF ReclaimTypeOK, Goes
<1>4. Passes(c, p, c)
  <2>1. sched[p] \in Slots /\ sched \in [Procs -> Slots]
    BY Zenon, <1>0 DEF ReclaimTypeOK
  <2> DEFINE r == [sched[p] EXCEPT !.onq = FALSE, !.oncpu = c]
  <2>2. r \in Slots /\ r.oncpu = c /\ ~r.onq
    BY Zenon, <2>1 DEF Slots
  <2>3. sched' = [sched EXCEPT ![p] = r]
    BY Zenon, <1>1, <2>1
  <2> HIDE DEF r
  <2> QED
    BY Zenon, <1>0, <1>1, <2>1, <2>2, <2>3 DEF Passes, Queued
<1>5. Placed(c)' /\ Mine(c)'
  BY Zenon, <1>2, <1>3, <1>4 DEF Goes, Passes, Placed, Mine, Working
<1> QED
  BY Zenon, <1>3, <1>4, <1>5, StepInv

(* A proc's other fields change while its cpu has it, or it is killed. *)
LEMMA SlotChange ==
    ASSUME ReclaimInv, NEW v \in Procs
    PROVE  /\ \A st \in {"READY", "BLOCKED", "BROKE", "DEAD"} :
                sched' = [sched EXCEPT ![v].st = st] => Keeps
           /\ sched' = [sched EXCEPT ![v].kill = TRUE] => Keeps
           /\ sched' = [sched EXCEPT ![v].expendable = FALSE] => Keeps
           /\ sched' = [sched EXCEPT ![v].st = "DEAD", ![v].onq = FALSE] => Keeps
<1>0. sched[v] \in Slots /\ sched \in [Procs -> Slots]
  BY Zenon DEF ReclaimInv, ReclaimTypeOK
<1>1. ASSUME NEW st \in {"READY", "BLOCKED", "BROKE", "DEAD"}, sched' = [sched EXCEPT ![v].st = st]
      PROVE  Keeps
  <2> DEFINE r == [sched[v] EXCEPT !.st = st]
  <2>1. r \in Slots /\ r.oncpu = sched[v].oncpu /\ r.onq = sched[v].onq
    BY Zenon, <1>0 DEF Slots
  <2>2. sched' = [sched EXCEPT ![v] = r]
    BY Zenon, <1>1
  <2> HIDE DEF r
  <2> QED
    BY Zenon, <2>1, <2>2, KeepsClaims
<1>2. ASSUME sched' = [sched EXCEPT ![v].kill = TRUE] PROVE Keeps
  <2> DEFINE r == [sched[v] EXCEPT !.kill = TRUE]
  <2>1. r \in Slots /\ r.oncpu = sched[v].oncpu /\ r.onq = sched[v].onq
    BY Zenon, <1>0 DEF Slots
  <2>2. sched' = [sched EXCEPT ![v] = r]
    BY Zenon, <1>2
  <2> HIDE DEF r
  <2> QED
    BY Zenon, <2>1, <2>2, KeepsClaims
<1>3. ASSUME sched' = [sched EXCEPT ![v].expendable = FALSE] PROVE Keeps
  <2> DEFINE r == [sched[v] EXCEPT !.expendable = FALSE]
  <2>1. r \in Slots /\ r.oncpu = sched[v].oncpu /\ r.onq = sched[v].onq
    BY Zenon, <1>0 DEF Slots
  <2>2. sched' = [sched EXCEPT ![v] = r]
    BY Zenon, <1>3
  <2> HIDE DEF r
  <2> QED
    BY Zenon, <2>1, <2>2, KeepsClaims
<1>4. ASSUME sched' = [sched EXCEPT ![v].st = "DEAD", ![v].onq = FALSE] PROVE Keeps
  <2> DEFINE r == [sched[v] EXCEPT !.st = "DEAD", !.onq = FALSE]
  <2>1. r \in Slots /\ r.oncpu = sched[v].oncpu /\ ~r.onq
    BY Zenon, <1>0 DEF Slots
  <2>2. sched' = [sched EXCEPT ![v] = r]
    BY Zenon, <1>0, <1>4
  <2> HIDE DEF r
  <2> QED
    BY Zenon, <2>1, <2>2, KeepsClaims
<1> QED
  BY Zenon, <1>1, <1>2, <1>3, <1>4

(* Nothing is done to cpus or claims. *)
LEMMA StillInv == ASSUME ReclaimInv, cpu' = cpu, sched' = sched PROVE ReclaimInv'
<1>1. ReclaimTypeOK' /\ Queued'
  BY Zenon DEF ReclaimInv, ReclaimTypeOK, Queued
<1>2. ASSUME NEW c \in Cores PROVE Placed(c)' /\ Mine(c)'
  <2>1. Placed(c) /\ Mine(c) /\ cpu'[c] = cpu[c]
    BY Zenon DEF ReclaimInv
  <2>2. Placed(c)'
    BY Zenon, <2>1, PlacedKept
  <2>3. Mine(c)'
    BY Zenon, <2>1 DEF Mine, Working
  <2> QED
    BY Zenon, <2>2, <2>3
<1> QED
  BY Zenon, <1>1, <1>2 DEF ReclaimInv

(* The steps of a cpu that leave every claim where it is: lua at work, the
   ends of the walks, and the kill. *)
LEMMA LuaInv ==
    ASSUME ReclaimInv, NEW c \in Cores,
           kalloc_grow(c) \/ Suspends(c) \/ api_reclaim(c) \/ gc_step(c)
    PROVE  ReclaimInv'
<1>0. Placed(c) /\ cpu[c].p \in Procs \cup {NoOne}
  BY Zenon, Known
<1> DEFINE zero == 0
           one == 1
<1>n. zero \in Nat /\ one \in Nat \ {0}
  BY Zenon, SlotNumbers
<1>1. CASE kalloc_grow(c)
  <2>1. cpu[c].at = "lua"
    BY Zenon, <1>1 DEF kalloc_grow, AtOf
  <2>2. cpu[c].p \in Procs /\ cpu[c].p # NoOne
    BY Zenon, <1>0, <2>1 DEF Placed
  <2>3. CASE UNCHANGED <<cpu, sched>>
    BY Zenon, <2>3, StillInv
  <2>4. CASE /\ sched' = [sched EXCEPT ![cpu[c].p].st = "BROKE"]
             /\ cpu' = [cpu EXCEPT ![c].at = "release", ![c].i = zero]
    <3>1. Keeps
      BY Zenon, <2>2, <2>4, SlotChange
    <3> HIDE DEF zero
    <3>2. "release" \in Code \ Working
      BY Zenon DEF Code, Working
    <3> QED
      BY Zenon, <1>n, <2>2, <2>4, <3>1, <3>2, MovesOn
  <2> QED
    BY Zenon, <1>1, <2>3, <2>4 DEF kalloc_grow, GoOn
<1>2. CASE Suspends(c)
  <2>1. cpu[c].at = "lua"
    BY Zenon, <1>2 DEF Suspends, AtOf
  <2>2. cpu[c].p \in Procs /\ cpu[c].p # NoOne
    BY Zenon, <1>0, <2>1 DEF Placed
  <2>3. Keeps
    BY Zenon, <1>2, <2>2, SlotChange DEF Suspends
  <2>4. cpu' = [cpu EXCEPT ![c].at = "step", ![c].i = zero]
    BY Zenon, <1>2 DEF Suspends, GoOn
  <2>5. "step" \in Code \ Working
    BY Zenon DEF Code, Working
  <2> HIDE DEF zero
  <2> QED
    BY Zenon, <1>n, <2>2, <2>3, <2>4, <2>5, MovesOn
<1>3. CASE api_reclaim(c)
  <2>1. Keeps
    BY Zenon, <1>3, KeepsAll DEF api_reclaim
  <2>2. cpu' = [cpu EXCEPT ![c].at = "walk", ![c].i = one]
    BY Zenon, <1>3 DEF api_reclaim, Walks
  <2>3. "walk" \in Code \ Working
    BY Zenon DEF Code, Working
  <2> HIDE DEF one
  <2> QED
    BY Zenon, <1>n, <2>1, <2>2, <2>3, MovesOn
<1>4. CASE gc_step(c)
  <2>1. cpu[c].at = "step"
    BY Zenon, <1>4 DEF gc_step, AtOf
  <2>2. cpu[c].p # NoOne
    BY Zenon, <1>0, <2>1 DEF Placed
  <2>3. Keeps
    BY Zenon, <1>4, KeepsAll DEF gc_step
  <2>4. cpu' = [cpu EXCEPT ![c].at = "release", ![c].i = zero]
    BY Zenon, <1>4 DEF gc_step, GoOn
  <2>5. "release" \in Code \ Working
    BY Zenon DEF Code, Working
  <2> HIDE DEF zero
  <2> QED
    BY Zenon, <1>n, <2>2, <2>3, <2>4, <2>5, MovesOn
<1> QED
  BY Zenon, <1>1, <1>2, <1>3, <1>4

(* The walks begin and end. *)
LEMMA WalksInv ==
    ASSUME ReclaimInv, NEW c \in Cores,
           LapEnd(c) \/ SweepEnd(c) \/ WalkEnd(c) \/ LowEnd(c) \/ proc_kill(c)
    PROVE  ReclaimInv'
<1>0. Placed(c) /\ cpu[c].i \in Nat
  BY Zenon, Known
<1> DEFINE zero == 0
           one == 1
<1>n. zero \in Nat /\ one \in Nat \ {0}
  BY Zenon, SlotNumbers
<1>s. /\ {"sweep", "lowwalk", "quiet", "lap", "lua", "kill"} \subseteq Code \ Working
  BY Zenon DEF Code, Working
<1>1. CASE LapEnd(c)
  <2>1. Keeps /\ cpu[c].p = NoOne
    BY Zenon, <1>0, <1>1, KeepsAll DEF LapEnd, AtOf, Placed
  <2>2. cpu' = [cpu EXCEPT ![c].at = "sweep", ![c].i = one]
    BY Zenon, <1>1 DEF LapEnd, Walks
  <2> HIDE DEF one
  <2> QED
    BY Zenon, <1>n, <1>s, <2>1, <2>2, MovesOn
<1>2. CASE SweepEnd(c)
  <2>1. Keeps /\ cpu[c].p = NoOne
    BY Zenon, <1>0, <1>2, KeepsAll DEF SweepEnd, AtOf, Placed
  <2>2. \/ cpu' = [cpu EXCEPT ![c].at = "lowwalk", ![c].i = one]
        \/ cpu' = [cpu EXCEPT ![c].at = "quiet", ![c].i = zero]
    BY Zenon, <1>2 DEF SweepEnd, Walks, GoOn
  <2> HIDE DEF zero, one
  <2>3. CASE cpu' = [cpu EXCEPT ![c].at = "lowwalk", ![c].i = one]
    BY Zenon, <1>n, <1>s, <2>1, <2>3, MovesOn
  <2>4. CASE cpu' = [cpu EXCEPT ![c].at = "quiet", ![c].i = zero]
    BY Zenon, <1>n, <1>s, <2>1, <2>4, MovesOn
  <2> QED
    BY Zenon, <2>2, <2>3, <2>4
<1>3. CASE WalkEnd(c)
  <2>1. Keeps
    BY Zenon, <1>3, KeepsAll DEF WalkEnd
  <2>2. \/ cpu[c].p = NoOne /\ cpu' = [cpu EXCEPT ![c].at = "lap", ![c].i = zero]
        \/ cpu[c].p # NoOne /\ cpu' = [cpu EXCEPT ![c].at = "lua", ![c].i = zero]
    BY Zenon, <1>3 DEF WalkEnd, GoOn
  <2> HIDE DEF zero
  <2>3. CASE cpu[c].p = NoOne /\ cpu' = [cpu EXCEPT ![c].at = "lap", ![c].i = zero]
    BY Zenon, <1>n, <1>s, <2>1, <2>3, MovesOn
  <2>4. CASE cpu[c].p # NoOne /\ cpu' = [cpu EXCEPT ![c].at = "lua", ![c].i = zero]
    BY Zenon, <1>n, <1>s, <2>1, <2>4, MovesOn
  <2> QED
    BY Zenon, <2>2, <2>3, <2>4
<1>4. CASE LowEnd(c)
  <2>1. cpu[c].p = NoOne
    BY Zenon, <1>0, <1>4 DEF LowEnd, AtOf, Placed
  <2>2. \/ cpu' = [cpu EXCEPT ![c].at = "quiet", ![c].i = zero] /\ sched' = sched
        \/ \E v \in Procs : /\ cpu' = [cpu EXCEPT ![c].at = "kill", ![c].i = v]
                            /\ sched' = [sched EXCEPT ![v].expendable = FALSE]
    BY Zenon, <1>4 DEF LowEnd, GoOn, kmem_victim
  <2> HIDE DEF zero
  <2>3. CASE cpu' = [cpu EXCEPT ![c].at = "quiet", ![c].i = zero] /\ sched' = sched
    BY Zenon, <1>n, <1>s, <2>1, <2>3, KeepsAll, MovesOn
  <2>4. ASSUME NEW v \in Procs, cpu' = [cpu EXCEPT ![c].at = "kill", ![c].i = v],
               sched' = [sched EXCEPT ![v].expendable = FALSE]
        PROVE  ReclaimInv'
    <3>1. v \in Nat /\ Keeps
      BY Zenon, <2>4, SlotNumbers, SlotChange
    <3> QED
      BY Zenon, <1>s, <2>1, <2>4, <3>1, MovesOn
  <2> QED
    BY Zenon, <2>2, <2>3, <2>4
<1>5. CASE proc_kill(c)
  <2>1. cpu[c].p = NoOne /\ cpu[c].i \in Procs
    BY Zenon, <1>0, <1>5 DEF proc_kill, AtOf, Placed
  <2>2. Keeps
    BY Zenon, <1>5, <2>1, KeepsAll, SlotChange DEF proc_kill
  <2>3. cpu' = [cpu EXCEPT ![c].at = "quiet", ![c].i = zero]
    BY Zenon, <1>5 DEF proc_kill, GoOn
  <2> HIDE DEF zero
  <2> QED
    BY Zenon, <1>n, <1>s, <2>1, <2>2, <2>3, MovesOn
<1> QED
  BY Zenon, <1>1, <1>2, <1>3, <1>4, <1>5

(* A quiet machine is walked, or the lap goes round. *)
LEMMA QuietInv == ASSUME ReclaimInv, NEW c \in Cores, Quiet(c) PROVE ReclaimInv'
<1>0. /\ ReclaimTypeOK /\ Placed(c) /\ Mine(c) /\ cpu[c] \in Places
      /\ cpu[c].p \in Procs \cup {NoOne} /\ cpu[c].i \in Nat
  BY Zenon, Known
<1>1. Keeps /\ cpu[c].p = NoOne
  BY Zenon, <1>0, KeepsAll DEF Quiet, AtOf, Placed
<1> DEFINE one == 1
<1>2. CASE cpu' = [cpu EXCEPT ![c].at = "walk", ![c].i = one]
  <2>1. one \in Nat \ {0} /\ "walk" \in Code \ Working
    BY Zenon, SlotNumbers DEF Code, Working
  <2> HIDE DEF one
  <2> QED
    BY Zenon, <1>1, <1>2, <2>1, MovesOn
<1>3. CASE cpu' = [cpu EXCEPT ![c] = [@ EXCEPT !.at = "lap", !.ran = FALSE]]
  <2> DEFINE k == [cpu[c] EXCEPT !.at = "lap", !.ran = FALSE]
  <2>1. k \in Places /\ k.at = "lap" /\ k.p = cpu[c].p /\ k.i = cpu[c].i
    BY Zenon, <1>0 DEF Places, Code
  <2>2. cpu' = [cpu EXCEPT ![c] = k]
    BY Zenon, <1>3
  <2> HIDE DEF k
  <2>3. Goes(c, "lap", cpu[c].p, cpu[c].i)
    BY Zenon, <1>0, <2>1, <2>2 DEF ReclaimTypeOK, Goes
  <2>4. Placed(c)' /\ Mine(c)'
    BY Zenon, <1>1, <2>3 DEF Goes, Placed, Mine, Working
  <2> QED
    BY Zenon, <1>1, <2>3, <2>4, StepInv
<1> QED
  BY Zenon, <1>2, <1>3 DEF Quiet, Walks

(* The end of a resume: only the cpu that has the proc lets it go. *)
LEMMA ReleaseInv == ASSUME ReclaimInv, NEW c \in Cores, release_claim(c) PROVE ReclaimInv'
<1>0. /\ ReclaimTypeOK /\ Placed(c) /\ Mine(c) /\ cpu[c] \in Places
      /\ cpu[c].p \in Procs \cup {NoOne} /\ cpu[c].i \in Nat /\ c # NoCore
  BY Zenon, Known
<1> DEFINE p == cpu[c].p
<1>1. p \in Procs /\ sched[p].oncpu = c
  BY Zenon, <1>0 DEF release_claim, AtOf, Placed, Mine
<1>2. Goes(c, "lap", NoOne, cpu[c].i)
  <2> DEFINE k == [cpu[c] EXCEPT !.at = "lap", !.p = NoOne]
  <2>1. k \in Places /\ k.at = "lap" /\ k.p = NoOne /\ k.i = cpu[c].i
    BY Zenon, <1>0 DEF Places, Code
  <2>2. cpu' = [cpu EXCEPT ![c] = k]
    BY Zenon, <1>0 DEF release_claim, ReclaimTypeOK
  <2> HIDE DEF k
  <2> QED
    BY Zenon, <1>0, <2>1, <2>2 DEF ReclaimTypeOK, Goes
<1>3. Passes(c, p, NoCore)
  <2>1. sched[p] \in Slots /\ sched \in [Procs -> Slots]
    BY Zenon, <1>0, <1>1 DEF ReclaimTypeOK
  <2> DEFINE st == IF sched[p].kill /\ ~Gone(p) THEN "DEAD" ELSE sched[p].st
             on == ~sched[p].kill /\ sched[p].st = "READY"
             r == [sched[p] EXCEPT !.oncpu = NoCore, !.kill = FALSE, !.st = st, !.onq = on]
  <2>2. sched' = [sched EXCEPT ![p] = r]
    BY Zenon, <2>1 DEF release_claim
  <2>3. st \in {"READY", "BLOCKED", "BROKE", "DEAD"}
    <3>1. sched[p].st \in {"READY", "BLOCKED", "BROKE", "DEAD"}
      BY Zenon, <2>1 DEF Slots
    <3> QED
      BY Zenon, <3>1
  <2>4. on \in BOOLEAN
    OBVIOUS
  <2> HIDE DEF st, on
  <2>5. r \in Slots /\ r.oncpu = NoCore
    BY Zenon, <2>1, <2>3, <2>4 DEF Slots
  <2> HIDE DEF r
  <2> QED
    BY Zenon, <1>1, <2>1, <2>2, <2>5 DEF Passes
<1>4. Placed(c)' /\ Mine(c)'
  BY Zenon, <1>2 DEF Goes, Placed, Mine, Working
<1> QED
  BY Zenon, <1>1, <1>2, <1>3, <1>4, StepInv

(* A cpu claims, to work in its heap, the proc it looks at: one that is
   nobody's and not queued, or its own. *)
LEMMA ClaimsInv ==
    ASSUME ReclaimInv, NEW c \in Cores, NEW at \in Working, cpu[c].i \in Procs,
           at \in {"collect", "lowheld"} => cpu[c].p = NoOne,
           sched[cpu[c].i].oncpu \in {NoCore, c}, ~sched[cpu[c].i].onq,
           Claims(c, cpu[c].i, at)
    PROVE  ReclaimInv'
<1>0. /\ ReclaimTypeOK /\ Mine(c) /\ cpu[c] \in Places
      /\ cpu[c].p \in Procs \cup {NoOne} /\ cpu[c].i \in Nat /\ at \in Code
  BY Zenon, Known DEF Code
<1> DEFINE p == cpu[c].i
           k == [cpu[c] EXCEPT !.at = at]
           r == [sched[p] EXCEPT !.oncpu = c]
<1>1. cpu' = [cpu EXCEPT ![c] = k] /\ sched' = [sched EXCEPT ![p] = r]
  BY Zenon, <1>0 DEF Claims, ReclaimTypeOK
<1>2. k \in Places /\ k.at = at /\ k.p = cpu[c].p /\ k.i = cpu[c].i
  BY Zenon, <1>0 DEF Places
<1>3. sched[p] \in Slots /\ sched \in [Procs -> Slots]
  BY Zenon, <1>0 DEF ReclaimTypeOK
<1>4. r \in Slots /\ r.oncpu = c /\ ~r.onq
  BY Zenon, <1>3 DEF Slots
<1> HIDE DEF k, r
<1>5. Goes(c, at, cpu[c].p, cpu[c].i)
  BY Zenon, <1>0, <1>1, <1>2 DEF ReclaimTypeOK, Goes
<1>6. Passes(c, p, c)
  BY Zenon, <1>1, <1>3, <1>4 DEF Passes
<1>7. cpu'[c].at = at /\ cpu'[c].p = cpu[c].p /\ cpu'[c].i = p
  BY Zenon, <1>5 DEF Goes
<1>8. Placed(c)'
  BY Zenon, <1>7 DEF Placed, Working
<1>9. cpu[c].p # NoOne => sched'[cpu[c].p].oncpu = c
  BY Zenon, <1>0, <1>6 DEF Mine, Passes
<1>10. Mine(c)'
  BY Zenon, <1>6, <1>7, <1>9 DEF Mine, Passes
<1> QED
  BY Zenon, <1>5, <1>6, <1>8, <1>10, StepInv

(* It looks at the next one instead. *)
LEMMA SkipsInv ==
    ASSUME ReclaimInv, NEW c \in Cores, cpu[c].at \in {"sweep", "walk", "lowwalk"}, Skips(c)
    PROVE  ReclaimInv'
<1>0. ReclaimTypeOK /\ Placed(c) /\ cpu[c] \in Places /\ cpu[c].i \in Nat /\ cpu[c].at \in Code
  BY Zenon, Known
<1> DEFINE at == cpu[c].at
           i == cpu[c].i + 1
<1>1. i \in Nat \ {0} /\ at \in Code \ Working
  BY Zenon, <1>0, SlotNumbers DEF Working
<1>2. cpu[c] = [cpu[c] EXCEPT !.at = at]
  BY Zenon, <1>0 DEF Places
<1>3. [cpu[c] EXCEPT !.i = i] = [cpu[c] EXCEPT !.at = at, !.i = i]
  BY Zenon, <1>2
<1>4. cpu' = [cpu EXCEPT ![c].at = at, ![c].i = i]
  <2>1. cpu' = [cpu EXCEPT ![c] = [cpu[c] EXCEPT !.i = i]]
    BY Zenon, <1>0 DEF Skips, ReclaimTypeOK
  <2>2. cpu' = [cpu EXCEPT ![c] = [cpu[c] EXCEPT !.at = at, !.i = i]]
    BY Zenon, <1>3, <2>1
  <2> QED
    BY Zenon, <1>0, <2>2 DEF ReclaimTypeOK
<1>5. Keeps
  BY Zenon, KeepsAll DEF Skips
<1>6. /\ at \notin {"lua", "step", "release", "kill"}
      /\ at \in {"lap", "sweep", "quiet", "lowwalk", "kill"} => cpu[c].p = NoOne
  BY Zenon, <1>0 DEF Placed
<1> HIDE DEF at, i
<1> QED
  BY Zenon, <1>1, <1>4, <1>5, <1>6, MovesOn

(* A cpu done with a heap lets go the proc it claimed for that, and goes on
   with its walk. *)
LEMMA LetGoInv ==
    ASSUME ReclaimInv, NEW c \in Cores, NEW at \in {"sweep", "walk", "lowwalk"},
           cpu[c].at \in Working, cpu[c].p # cpu[c].i, at # "walk" => cpu[c].p = NoOne,
           LetGo(c, cpu[c].i, at)
    PROVE  ReclaimInv'
<1>0. /\ ReclaimTypeOK /\ Mine(c) /\ Placed(c) /\ cpu[c] \in Places
      /\ cpu[c].p \in Procs \cup {NoOne} /\ cpu[c].i \in Nat
  BY Zenon, Known
<1> DEFINE p == cpu[c].i
           i == cpu[c].i + 1
           on == sched[p].st = "READY"
           r == [sched[p] EXCEPT !.oncpu = NoCore, !.onq = on]
<1>1. p \in Procs /\ sched[p].oncpu = c /\ i \in Nat \ {0} /\ at \in Code \ Working
  BY Zenon, <1>0, SlotNumbers DEF Placed, Mine, Code, Working
<1>2. cpu' = [cpu EXCEPT ![c].at = at, ![c].i = i]
  BY Zenon DEF LetGo
<1>3. sched' = [sched EXCEPT ![p] = r]
  BY Zenon, <1>0 DEF LetGo, ReclaimTypeOK
<1>4. sched[p] \in Slots /\ sched \in [Procs -> Slots]
  BY Zenon, <1>0, <1>1 DEF ReclaimTypeOK
<1>5. on \in BOOLEAN
  OBVIOUS
<1> HIDE DEF on, i
<1>6. r \in Slots /\ r.oncpu = NoCore
  BY Zenon, <1>4, <1>5 DEF Slots
<1> HIDE DEF r
<1>7. Passes(c, p, NoCore)
  BY Zenon, <1>1, <1>3, <1>4, <1>6 DEF Passes
<1>8. Goes(c, at, cpu[c].p, i)
  BY Zenon, <1>0, <1>1, <1>2, GoesOnward
<1>9. cpu'[c].at = at /\ cpu'[c].p = cpu[c].p /\ cpu'[c].i = i
  BY Zenon, <1>8 DEF Goes
<1>10. Placed(c)'
  BY Zenon, <1>1, <1>9 DEF Placed, Working
<1>11. cpu[c].p # NoOne => sched'[cpu[c].p].oncpu = c
  BY Zenon, <1>0, <1>7 DEF Mine, Passes
<1>12. Mine(c)'
  BY Zenon, <1>1, <1>9, <1>11 DEF Mine
<1> QED
  BY Zenon, <1>1, <1>7, <1>8, <1>10, <1>12, StepInv

(* The sweep and the walks: claims taken, kept over the work and given up. *)
LEMMA ClaimedInv ==
    ASSUME ReclaimInv, NEW c \in Cores,
           SweepClaim(c) \/ gc_idle_collect(c) \/ WalkClaim(c) \/ luaheap_release(c)
    PROVE  ReclaimInv'
<1>0. /\ ReclaimTypeOK /\ Queued /\ Placed(c) /\ Mine(c) /\ cpu[c].i \in Nat
      /\ cpu[c].at \in Code /\ cpu[c].p \in Procs \cup {NoOne} /\ c # NoCore
  BY Zenon, Known
<1> DEFINE p == cpu[c].i
<1>1. CASE SweepClaim(c)
  <2>1. cpu[c].at = "sweep" /\ p \in Procs /\ cpu[c].p = NoOne
    BY Zenon, <1>0, <1>1, SlotNumbers DEF SweepClaim, AtOf, Placed
  <2>2. (Parked(p) /\ Claims(c, p, "collect")) \/ Skips(c)
    BY Zenon, <1>1 DEF SweepClaim
  <2>3. CASE Parked(p) /\ Claims(c, p, "collect")
    <3>1. sched[p].oncpu \in {NoCore, c} /\ ~sched[p].onq /\ "collect" \in Working
      BY Zenon, <2>3 DEF Parked, Working
    <3> QED
      BY Zenon, <2>1, <2>3, <3>1, ClaimsInv
  <2>4. CASE Skips(c)
    BY Zenon, <2>1, <2>4, SkipsInv
  <2> QED
    BY Zenon, <2>2, <2>3, <2>4
<1>2. CASE gc_idle_collect(c)
  <2>1. /\ cpu[c].at \in Working /\ cpu[c].p = NoOne /\ cpu[c].p # p
        /\ LetGo(c, p, "sweep")
    BY Zenon, <1>0, <1>2, SlotNumbers DEF gc_idle_collect, AtOf, Placed, Working
  <2> QED
    BY Zenon, <2>1, LetGoInv
<1>3. CASE WalkClaim(c)
  <2>1. /\ cpu[c].at \in {"walk", "lowwalk"} /\ p \in Procs
        /\ cpu[c].at = "lowwalk" => cpu[c].p = NoOne
    BY Zenon, <1>0, <1>3, SlotNumbers DEF WalkClaim, Walking, Placed
  <2>2. (MayRelease(c, p) /\ Claims(c, p, Holding(cpu[c].at))) \/ Skips(c)
    BY Zenon, <1>3 DEF WalkClaim
  <2>3. CASE MayRelease(c, p) /\ Claims(c, p, Holding(cpu[c].at))
    <3>1. sched[p].oncpu \in {NoCore, c} /\ ~sched[p].onq
      BY Zenon, <1>0, <2>1, <2>3 DEF MayRelease, Parked, Queued
    <3> DEFINE at == Holding(cpu[c].at)
    <3>2. at \in Working /\ (at \in {"collect", "lowheld"} => cpu[c].p = NoOne)
      BY Zenon, <2>1 DEF Holding, Working
    <3> HIDE DEF at
    <3>3. Claims(c, p, at)
      BY Zenon, <2>3 DEF at
    <3> QED
      BY Zenon, <2>1, <3>1, <3>2, <3>3, ClaimsInv
  <2>4. CASE Skips(c)
    BY Zenon, <2>1, <2>4, SkipsInv
  <2> QED
    BY Zenon, <2>2, <2>3, <2>4
<1>4. CASE luaheap_release(c)
  <2> DEFINE at == IF cpu[c].at = "held" THEN "walk" ELSE "lowwalk"
             i == p + 1
  <2>1. /\ cpu[c].at \in Working /\ at \in {"walk", "lowwalk"} /\ at \in Code \ Working
        /\ at # "walk" => cpu[c].p = NoOne
        /\ i \in Nat \ {0}
    BY Zenon, <1>0, <1>4, SlotNumbers DEF luaheap_release, Placed, Working, Code
  <2>2. \/ cpu[c].p = p /\ sched' = sched /\ cpu' = [cpu EXCEPT ![c].at = at, ![c].i = i]
        \/ cpu[c].p # p /\ LetGo(c, p, at)
    BY Zenon, <1>4 DEF luaheap_release
  <2> HIDE DEF at, i
  <2>3. CASE cpu[c].p = p /\ sched' = sched /\ cpu' = [cpu EXCEPT ![c].at = at, ![c].i = i]
    BY Zenon, <2>1, <2>3, KeepsAll, MovesOn
  <2>4. CASE cpu[c].p # p /\ LetGo(c, p, at)
    BY Zenon, <2>1, <2>4, LetGoInv
  <2> QED
    BY Zenon, <2>2, <2>3, <2>4
<1> QED
  BY Zenon, <1>1, <1>2, <1>3, <1>4

(* A wakeup queues only a proc that is nobody's, and touches no claim. *)
LEMMA ReadyInv == ASSUME ReclaimInv, NEW p \in Procs, make_ready(p) PROVE ReclaimInv'
<1>0. ReclaimTypeOK /\ Queued /\ cpu' = cpu
  BY Zenon DEF ReclaimInv, make_ready
<1>1. sched[p] \in Slots /\ sched \in [Procs -> Slots]
  BY Zenon, <1>0 DEF ReclaimTypeOK
<1> DEFINE on == sched[p].oncpu = NoCore
           r == [sched[p] EXCEPT !.st = "READY", !.onq = on]
<1>2. sched' = [sched EXCEPT ![p] = r]
  BY Zenon, <1>1 DEF make_ready
<1>3. on \in BOOLEAN /\ (on => sched[p].oncpu = NoCore)
  OBVIOUS
<1> HIDE DEF on
<1>4. r \in Slots /\ r.oncpu = sched[p].oncpu /\ r.onq = on
  BY Zenon, <1>1, <1>3 DEF Slots
<1> HIDE DEF r
<1>5. /\ sched' \in [Procs -> Slots]
      /\ \A x \in Procs : sched'[x].oncpu = sched[x].oncpu
  BY Zenon, <1>1, <1>2, <1>4
<1>6. Queued'
  BY Zenon, <1>0, <1>1, <1>2, <1>3, <1>4 DEF Queued
<1>7. ASSUME NEW c \in Cores PROVE Placed(c)' /\ Mine(c)'
  <2>1. Placed(c) /\ Mine(c) /\ cpu'[c] = cpu[c] /\ cpu[c].p \in Procs \cup {NoOne}
    BY Zenon, <1>0, Known
  <2>2. Placed(c)'
    BY Zenon, <2>1, PlacedKept
  <2>3. /\ cpu[c].p # NoOne => sched'[cpu[c].p].oncpu = c
        /\ cpu[c].at \in Working => sched'[cpu[c].i].oncpu = c
    BY Zenon, <1>5, <2>1 DEF Mine, Placed
  <2> QED
    BY Zenon, <2>1, <2>2, <2>3 DEF Mine
<1>8. ReclaimTypeOK'
  BY Zenon, <1>0, <1>5 DEF ReclaimTypeOK
<1> QED
  BY Zenon, <1>6, <1>7, <1>8 DEF ReclaimInv

----------------------------------------------------------------------------
(* The machine boots with every proc queued and no cpu in a heap. *)
LEMMA ReclaimStart == ASSUME ReclaimInit PROVE ReclaimInv
<1>1. ReclaimTypeOK /\ Queued
  <2> DEFINE zero == 0
  <2>1. cpu = [c \in Cores |-> [at |-> "lap", p |-> NoOne, i |-> zero, ran |-> FALSE]] /\ zero \in Nat
    BY Zenon, SlotNumbers DEF ReclaimInit
  <2> HIDE DEF zero
  <2>2. cpu \in [Cores -> Places]
    BY Zenon, <2>1 DEF Places, Code
  <2>3. \A p \in Procs : (p \in Expendable) \in BOOLEAN
    OBVIOUS
  <2>4. sched \in [Procs -> Slots]
    BY Zenon, <2>3 DEF ReclaimInit, Slots
  <2>5. Queued
    BY Zenon DEF ReclaimInit, Queued
  <2> QED
    BY Zenon, <2>2, <2>4, <2>5 DEF ReclaimTypeOK
<1>2. \A c \in Cores : cpu[c].at = "lap" /\ cpu[c].p = NoOne
  BY Zenon DEF ReclaimInit
<1>3. \A c \in Cores : Placed(c) /\ Mine(c)
  BY Zenon, <1>2 DEF Placed, Mine, Working
<1> QED
  BY Zenon, <1>1, <1>3 DEF ReclaimInv

(* Every step keeps the invariant. *)
LEMMA ReclaimStep == ASSUME ReclaimInv, [ReclaimNext]_reclaim_vars PROVE ReclaimInv'
<1>1. ASSUME NEW c \in Cores, TakesProc(c) PROVE ReclaimInv'
  BY Zenon, <1>1, TakesInv
<1>2. ASSUME NEW c \in Cores, kalloc_grow(c) \/ Suspends(c) \/ api_reclaim(c) \/ gc_step(c)
      PROVE  ReclaimInv'
  BY Zenon, <1>2, LuaInv
<1>3. ASSUME NEW c \in Cores, LapEnd(c) \/ SweepEnd(c) \/ WalkEnd(c) \/ LowEnd(c) \/ proc_kill(c)
      PROVE  ReclaimInv'
  BY Zenon, <1>3, WalksInv
<1>4. ASSUME NEW c \in Cores, Quiet(c) \/ release_claim(c) PROVE ReclaimInv'
  BY Zenon, <1>4, QuietInv, ReleaseInv
<1>5. ASSUME NEW c \in Cores,
             SweepClaim(c) \/ gc_idle_collect(c) \/ WalkClaim(c) \/ luaheap_release(c)
      PROVE  ReclaimInv'
  BY Zenon, <1>5, ClaimedInv
<1>6. ASSUME NEW p \in Procs, make_ready(p) PROVE ReclaimInv'
  BY Zenon, <1>6, ReadyInv
<1>7. CASE UNCHANGED reclaim_vars
  BY Zenon, <1>7, StillInv DEF reclaim_vars
<1> QED
  BY Zenon, <1>1, <1>2, <1>3, <1>4, <1>5, <1>6, <1>7 DEF ReclaimNext, Steps

(* A claim has one owner, so no two cpus are in the same heap. *)
LEMMA ClaimedAlone == ASSUME ReclaimInv PROVE HeapAlone
<1>1. ASSUME NEW c \in Cores, NEW p \in In(c) PROVE sched[p].oncpu = c
  BY Zenon, <1>1, Known DEF In, Mine, Working
<1>2. ASSUME NEW c \in Cores, NEW d \in Cores, c # d PROVE In(c) \cap In(d) = {}
  <2>1. ASSUME NEW p \in In(c), p \in In(d) PROVE FALSE
    BY Zenon, <1>1, <1>2, <2>1
  <2> QED
    BY Zenon, <2>1
<1> QED
  BY Zenon, <1>2 DEF HeapAlone

(* One cpu at a time is in a proc's heap, whatever the numbers of procs and
   cpus and however dispatch, the boot cpu's sweep, the walks of
   proc_heaps_release, sys.reclaim's callers, wakeups and kills interleave. *)
THEOREM HeapAloneCorrect == ReclaimInit /\ [][ReclaimNext]_reclaim_vars => []HeapAlone
<1>1. ReclaimInit => ReclaimInv
  BY Zenon, ReclaimStart
<1>2. ReclaimInv /\ [ReclaimNext]_reclaim_vars => ReclaimInv'
  BY Zenon, ReclaimStep
<1>3. ReclaimInv => HeapAlone
  BY Zenon, ClaimedAlone
<1> QED
  BY <1>1, <1>2, <1>3, PTL
============================================================================
