----------------------------- MODULE PortsProofs ----------------------------
(***************************************************************************)
(* Theorems about ports, rights and messages, for any number of procs,     *)
(* ports, handles, messages and timers, any right tables to start from and *)
(* whatever the procs call.                                                *)
(***************************************************************************)
EXTENDS PortsCounts, FiniteSetTheorems, WellFoundedInduction

(* The library proves what the lemmas take as a hypothesis. *)
LEMMA SetFactsHold == SetFacts
<1>1. \A S : IsFiniteSet(S) => Cardinality(S) \in Nat /\ (Cardinality(S) = 0 <=> S = {})
  BY FS_CardinalityType, FS_EmptySet
<1>2. \A S, x : IsFiniteSet(S) =>
        /\ IsFiniteSet(S \cup {x})
        /\ x \notin S => Cardinality(S \cup {x}) = Cardinality(S) + 1
  BY FS_AddElement
<1>3. \A S : \A T \in SUBSET S : IsFiniteSet(S) => IsFiniteSet(T)
  BY FS_Subset
<1>4. ASSUME NEW S \in SUBSET Nat, S # {} PROVE \E x \in S : \A y \in S : x <= y
  <2>1. PICK x \in S : \A y \in S : ~(<<y, x>> \in OpToRel(<, Nat))
    BY <1>4, NatLessThanWellFounded, WFMin, Zenon
  <2>2. SUFFICES ASSUME NEW y \in S, y < x PROVE FALSE
    BY <1>4
  <2>3. <<y, x>> \in OpToRel(<, Nat)
    BY <2>2 DEF OpToRel
  <2> QED BY <2>1, <2>3, Zenon
<1>5. IsFiniteSet(Timer) /\ IsFiniteSet(Handle) /\ IsFiniteSet(Slot)
  <2>1. /\ MAXTIMERS \in Int /\ MAXRIGHTS - 1 \in Int /\ MAXMSGRIGHTS \in Int /\ 0 \in Int /\ 1 \in Int
    BY PortsAssumption, SMT
  <2> QED BY <2>1, FS_Interval, Zenon DEF Timer, Handle, Slot
<1>6. IsFiniteSet(Proc) /\ IsFiniteSet(MsgId)
  BY PortsAssumption, Zenon
<1>7. IsFiniteSet(Proc \X Handle) /\ IsFiniteSet(MsgId \X Slot)
  BY <1>5, <1>6, FS_Product, Zenon
<1>8. \A S : IsFiniteSet(S) => /\ Cardinality(S) \in Nat
                               /\ Cardinality(S) = 0 <=> S = {}
                               /\ \A T \in SUBSET S : IsFiniteSet(T)
                               /\ \A x : IsFiniteSet(S \cup {x})
                               /\ \A x : x \notin S => Cardinality(S \cup {x}) = Cardinality(S) + 1
  BY <1>1, <1>2, <1>3, Zenon
<1> QED BY <1>4, <1>5, <1>7, <1>8, Zenon DEF SetFacts

(* Where everybody is, what is counted, and who waits: together inductive. *)
IInv == PlaceInv /\ CountInv /\ WakeInv

(* It holds at the start, *)
LEMMA IInvInit == Init => IInv
BY SetFactsHold, PlaceInit, CountInit, WakeInit, Zenon DEF IInv

(* and every step keeps it, *)
LEMMA IInvStep == IInv /\ [Next]_<<menu, vars>> => IInv'
<1> SUFFICES ASSUME IInv, [Next]_<<menu, vars>> PROVE IInv'
  OBVIOUS
<1>0. SetFacts /\ PlaceInv /\ CountInv /\ WakeInv
  BY SetFactsHold, Zenon DEF IInv
<1>1. CASE Next
  <2>1. PICK a \in Actor : Acts(a)
    BY <1>1, NextActs, Zenon
  <2>2. PlaceInv'
    BY <1>0, <2>1, PlaceActs, Zenon
  <2>3. CountInv'
    BY <1>0, <2>1, <2>2, CountActs, Zenon
  <2>4. Turn(a)
    BY <1>0, <2>1, ActsMoved, Zenon DEF Moved
  <2>5. WakeInv'
    BY <1>0, <2>1, <2>2, <2>3, <2>4, WakeActs, Zenon
  <2> QED BY <2>2, <2>3, <2>5, Zenon DEF IInv
<1>2. CASE UNCHANGED <<menu, vars>>
  <2>1. UNCHANGED <<used, nrights, nrecv, dead, queue, rights, rhint, nports, wide, depth, stack,
                    after, refs, alloc, timers, waits, pc, local>>
    BY <1>2, Zenon DEF vars, portVars, tableVars, regionVars
  <2>2. PlaceInv'
    <3>1. PortType' /\ HolderType' /\ ProcType' /\ RegionType'
      BY <1>0, <2>1, Zenon DEF PlaceInv, PortType, HolderType, ProcType, RegionType
    <3>2. Hands'
      BY <1>0, <2>1, Zenon DEF PlaceInv, Hands
    <3>3. Loop' /\ Regions'
      BY <1>0, <2>1, Zenon DEF PlaceInv, Loop, Regions
    <3>4. Fits(stack', wide', rights')
      BY <1>0, <2>1, Zenon DEF PlaceInv
    <3>5. Linked' /\ Emptied'
      BY <1>0, <2>1, Zenon DEF PlaceInv, Linked, Emptied, Mine
    <3> QED BY <3>1, <3>2, <3>3, <3>4, <3>5, Zenon DEF PlaceInv
  <2>3. CountInv'
    BY <1>0, <2>1, <2>2, CarriesSame, StillKeeps, Zenon
  <2>4. WakeInv'
    BY <1>0, <2>1, Zenon DEF WakeInv, Full, Hung, sole_holder, Mine
  <2> QED BY <2>2, <2>3, <2>4, Zenon DEF IInv
<1> QED BY <1>1, <1>2, Zenon

(* so it holds always. *)
LEMMA Invariance == Spec => []IInv
<1> QED BY IInvInit, IInvStep, PTL DEF Spec

(* What kport.nrights and nrecv count is what there is, in every reachable *)
(* state: right_new, serialize, deserialize, right_drop, release_inflight, *)
(* timer_arm and the timers' expiry, each on its own path and half of them *)
(* with no lock, never leave a count off by one; and a port whose last     *)
(* receive right went is dead and holds no message.                        *)
THEOREM CountsCorrect == Spec => []CountsExact
<1>1. IInv => CountsExact
  BY Zenon DEF IInv, CountInv
<1> QED BY <1>1, Invariance, PTL

(* No right, message or timer names a port that port_unref has freed or is *)
(* about to free, and a waiter is linked exactly while its proc is parked, *)
(* on a port that exists and that its proc has a right to.                 *)
THEOREM DanglingCorrect == Spec => []NoDangling
<1>1. ASSUME IInv PROVE NoDangling
  <2>0. PlaceInv /\ CountInv /\ SetFacts
    BY <1>1, SetFactsHold, Zenon DEF IInv
  <2>1. ASSUME NEW p \in Port, Holders(p) > 0 PROVE p \in used /\ ~Pending(p)
    <3>1. p \in used /\ Listed(p)
      BY <2>0, <2>1, Zenon DEF CountInv, CountsExact
    <3>2. DOMAIN stack = 1 .. Len(stack)
      BY <2>0, SMT DEF PlaceInv, RegionType
    <3> QED BY <3>1, <3>2, Zenon DEF Listed, Pending
  <2>2. ASSUME NEW a \in Proc
        PROVE  /\ waits[a] # {} <=> pc[a] = "blocked"
               /\ \A w \in waits[a] : w[1] \in used /\ Mine(a, w[1]) # {}
    <3>1. ASSUME NEW w \in waits[a] PROVE w[1] \in used /\ Mine(a, w[1]) # {}
      <4>1. Mine(a, w[1]) # {} /\ w \in Port \X Kinds
        BY <2>0, Zenon DEF PlaceInv, Linked, ProcType
      <4>2. w[1] \in Port
        BY <4>1, SMT
      <4>3. Holders(w[1]) > 0
        BY <2>0, <4>1, MineHeld, Zenon
      <4> QED BY <2>1, <4>1, <4>2, <4>3, Zenon
    <3> QED BY <2>0, <3>1, Zenon DEF PlaceInv, Linked
  <2> QED BY <2>1, <2>2, Zenon DEF NoDangling
<1> QED BY <1>1, Invariance, PTL

(* Between wide regions no proc sleeps through what it waits for: a        *)
(* message, room or the end of the port it would send to, or the exit of   *)
(* the last proc that could answer.  Inside one, whoever should wake is    *)
(* owed it by a Hangup task still on the region's stack.                   *)
THEOREM WakeupsCorrect == Spec => []NoLostWakeup
<1>1. ASSUME IInv PROVE NoLostWakeup
  <2>0. PlaceInv /\ WakeInv
    BY <1>1, Zenon DEF IInv
  <2>1. ASSUME wide = NoProc PROVE \A p : ~Hung(p)
    <3>1. stack = <<>>
      BY <2>0, <2>1, Zenon DEF PlaceInv, Regions
    <3>2. \A i \in 1 .. Len(<<>>) : FALSE
      BY SMT
    <3> QED BY <3>1, <3>2, Zenon DEF Hung
  <2> QED BY <2>0, <2>1, Zenon DEF WakeInv, NoLostWakeup
<1> QED BY <1>1, Invariance, PTL
=============================================================================
