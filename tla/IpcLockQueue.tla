--------------------------- MODULE IpcLockQueue ----------------------------
(***************************************************************************)
(* Proofs about the locks of the ipc layer: type correctness, and that the *)
(* lock an enter or a leave is about to do is one of the locks it has      *)
(* left; then the inductive invariant, and that every step keeps the part  *)
(* of it that is about tickets.                                            *)
(***************************************************************************)
EXTENDS IpcLock, TLAPS

(* What the proofs use of the theory of finite sets and of the naturals.   *)
(* IpcLockProofs derives it from the library; it is a hypothesis up to     *)
(* there because every obligation carries the theorems its module extends. *)
SetFacts ==
    /\ \A S : IsFiniteSet(S) => Cardinality(S) \in Nat /\ (Cardinality(S) = 0 <=> S = {})
    /\ IsFiniteSet({})
    /\ \A S, x : IsFiniteSet(S) =>
          /\ IsFiniteSet(S \cup {x})
          /\ x \notin S => Cardinality(S \cup {x}) = Cardinality(S) + 1
    /\ \A S, x : IsFiniteSet(S) =>
          /\ IsFiniteSet(S \ {x})
          /\ Cardinality(S \ {x}) = IF x \in S THEN Cardinality(S) - 1 ELSE Cardinality(S)
    /\ \A x : Cardinality({x}) = 1
    /\ \A S : \A T \in SUBSET S : IsFiniteSet(S) =>
          IsFiniteSet(T) /\ Cardinality(T) <= Cardinality(S)
    /\ \A n \in Nat : IsFiniteSet(1 .. n)
    /\ \A S \in SUBSET Nat : S # {} => \E x \in S : \A y \in S : x <= y

LEMMA CardNat ==
    ASSUME SetFacts, NEW S, IsFiniteSet(S)
    PROVE  Cardinality(S) \in Nat
BY DEF SetFacts

LEMMA CardEmpty ==
    ASSUME SetFacts
    PROVE  Cardinality({}) = 0 /\ \A S : IsFiniteSet(S) => (Cardinality(S) = 0 <=> S = {})
BY DEF SetFacts

LEMMA CardAdd ==
    ASSUME SetFacts, NEW S, NEW x, IsFiniteSet(S)
    PROVE  /\ IsFiniteSet(S \cup {x})
           /\ x \notin S => Cardinality(S \cup {x}) = Cardinality(S) + 1
BY Zenon DEF SetFacts

LEMMA CardRemove ==
    ASSUME SetFacts, NEW S, NEW x, IsFiniteSet(S)
    PROVE  /\ IsFiniteSet(S \ {x})
           /\ Cardinality(S \ {x}) = IF x \in S THEN Cardinality(S) - 1 ELSE Cardinality(S)
BY DEF SetFacts

LEMMA CardOne ==
    ASSUME SetFacts, NEW x
    PROVE  Cardinality({x}) = 1
BY DEF SetFacts

LEMMA CardSubset ==
    ASSUME SetFacts, NEW S, IsFiniteSet(S), NEW T \in SUBSET S
    PROVE  IsFiniteSet(T) /\ Cardinality(T) <= Cardinality(S)
BY DEF SetFacts

LEMMA IntervalFinite ==
    ASSUME SetFacts, NEW n \in Nat
    PROVE  IsFiniteSet(1 .. n)
BY DEF SetFacts

LEMMA LeastNat ==
    ASSUME SetFacts, NEW S, S \subseteq Nat, S # {}
    PROVE  \E x \in S : \A y \in S : x <= y
BY Zenon DEF SetFacts

(* Lowest and Highest pick an element: a nonempty set of locks has a       *)
(* least and a greatest member.                                            *)
LEMMA LowestIn ==
    ASSUME SetFacts, NEW S, S \subseteq Nat, S # {}
    PROVE  Lowest(S) \in S
BY LeastNat, Zenon DEF Lowest

LEMMA LocksNat == Locks \subseteq Nat
BY LockAssumption, SMT DEF Locks, Bucket, Sched

LEMMA HighestIn ==
    ASSUME SetFacts, NEW S, S \subseteq Locks, S # {}
    PROVE  Highest(S) \in S
<1> DEFINE T == {Sched - k : k \in S}
<1>1. \A k \in S : k \in Nat /\ k <= Sched
  BY LockAssumption, SMT DEF Locks, Bucket, Sched
<1>2. T \subseteq Nat /\ T # {} /\ Sched \in Nat
  BY <1>1, LockAssumption, SMT DEF Sched
<1>3. \E y \in T : \A z \in T : y <= z
  <2> HIDE DEF T
  <2> QED BY <1>2, LeastNat, Zenon
<1>4. PICK x \in S : \A k \in S : Sched - x <= Sched - k
  BY <1>3
<1>5. \A k \in S : k <= x
  BY <1>1, <1>2, <1>4, SMT
<1> QED BY <1>5 DEF Highest
----------------------------------------------------------------------------
LEMMA RegionsLocks == \A R \in Regions : R \subseteq Locks /\ R # {}
<1>1. Wide \subseteq Locks /\ 1 \in Wide
  BY LockAssumption, SMT DEF Wide, Locks, Bucket
<1> QED BY <1>1 DEF Regions

(* A cpu has locks left to do exactly while it is inside an enter or a     *)
(* leave, and those of an enter belong to the region being entered.        *)
Shape ==
    \A c \in CPU :
        /\ pc[c] = "run" <=> todo[c] = {}
        /\ pc[c] \in {"enter", "spin"} =>
              /\ Len(regions[c]) > 0
              /\ todo[c] \subseteq regions[c][Len(regions[c])]

LEMMA IncType == \A t \in Tickets : Inc(t) \in Tickets
BY LockAssumption, SMT DEF Tickets, Inc

LEMMA FirstTicket ==
    ASSUME SetFacts
    PROVE  0 \in Tickets
<1>1. Cardinality(CPU) \in Nat
  BY LockAssumption, CardNat
<1> QED BY <1>1, LockAssumption, SMT DEF Tickets

(* The lock an enter or a leave is about to do is one of its todo. *)
LEMMA CurrentLock ==
    ASSUME SetFacts, TypeOK, Shape, NEW c \in CPU, pc[c] # "run"
    PROVE  /\ Lowest(todo[c]) \in todo[c] /\ Lowest(todo[c]) \in Locks
           /\ Highest(todo[c]) \in todo[c] /\ Highest(todo[c]) \in Locks
<1>1. todo[c] \subseteq Locks /\ todo[c] # {}
  BY DEF TypeOK, Shape
<1> QED BY <1>1, LowestIn, HighestIn, LocksNat, Zenon

LEMMA TypeInit ==
    ASSUME SetFacts
    PROVE  Init => TypeOK /\ Shape
BY FirstTicket, LockAssumption, SMT DEF Init, TypeOK, Shape, PC

LEMMA TypeStep ==
    ASSUME SetFacts
    PROVE  TypeOK /\ Shape /\ [Next]_vars => TypeOK' /\ Shape'
<1> SUFFICES ASSUME TypeOK, Shape, [Next]_vars PROVE TypeOK' /\ Shape'
  OBVIOUS
<1> USE DEF PC
<1>1. ASSUME NEW c \in CPU, NEW R \in Regions, Enter(c, R) PROVE TypeOK' /\ Shape'
  <2>1. R \subseteq Locks /\ R # {} BY RegionsLocks
  <2>2. regions' \in [CPU -> Seq(Regions)] BY <1>1, SMT DEF Enter, TypeOK
  <2>3. TypeOK' BY <1>1, <2>1, <2>2, SMT DEF Enter, TypeOK
  <2>4. regions'[c] = Append(regions[c], R) /\ regions[c] \in Seq(Regions)
    BY <1>1 DEF Enter, TypeOK
  <2>5. Len(regions'[c]) > 0 /\ regions'[c][Len(regions'[c])] = R
    BY <2>4, SMT
  <2>6. \A d \in CPU \ {c} : regions'[d] = regions[d] /\ todo'[d] = todo[d] /\ pc'[d] = pc[d]
    BY <1>1 DEF Enter, TypeOK
  <2>7. todo'[c] = R /\ pc'[c] = "enter"
    BY <1>1 DEF Enter, TypeOK
  <2>8. Shape' BY <2>1, <2>5, <2>6, <2>7 DEF Shape
  <2> QED BY <2>3, <2>8
<1>2. ASSUME NEW c \in CPU, Step(c) PROVE TypeOK' /\ Shape'
  <2> DEFINE lo == Lowest(todo[c])
             hi == Highest(todo[c])
  <2>0. ASSUME pc[c] # "run"
        PROVE  lo \in todo[c] /\ lo \in Locks /\ hi \in todo[c] /\ hi \in Locks
    BY CurrentLock, <2>0
  <2> HIDE DEF lo, hi
  <2>1. CASE EnterAgain(c)
    <3>1. lo \in todo[c] /\ lo \in Locks BY <2>0, <2>1 DEF EnterAgain
    <3>2. TypeOK' BY <2>1, <3>1, SMT DEF EnterAgain, Entered, TypeOK, lo
    <3>3. Shape' BY <2>1, <3>1, SMT DEF EnterAgain, Entered, TypeOK, Shape, lo
    <3> QED BY <3>2, <3>3
  <2>2. CASE DrawTicket(c)
    <3>1. lo \in todo[c] /\ lo \in Locks BY <2>0, <2>2 DEF DrawTicket
    <3>2. Inc(next[lo]) \in Tickets /\ next[lo] \in Tickets BY IncType, <3>1 DEF TypeOK
    <3>3. TypeOK' BY <2>2, <3>1, <3>2, SMT DEF DrawTicket, TypeOK, lo
    <3>4. Shape' BY <2>2, SMT DEF DrawTicket, TypeOK, Shape
    <3> QED BY <3>3, <3>4
  <2>3. CASE Acquire(c)
    <3>1. lo \in todo[c] /\ lo \in Locks BY <2>0, <2>3 DEF Acquire
    <3>2. TypeOK' BY <2>3, <3>1, FirstTicket, SMT DEF Acquire, Entered, TypeOK, lo
    <3>3. Shape' BY <2>3, <3>1, SMT DEF Acquire, Entered, TypeOK, Shape, lo
    <3> QED BY <3>2, <3>3
  <2>4. CASE Leave(c)
    <3> DEFINE n == Len(regions[c])
    <3>1. n \in Nat /\ n > 0 /\ regions[c] \in Seq(Regions)
      BY <2>4 DEF Leave, TypeOK
    <3>2. regions[c][n] \in Regions BY <3>1
    <3>3. regions[c][n] \subseteq Locks /\ regions[c][n] # {} BY <3>2, RegionsLocks
    <3>4. SubSeq(regions[c], 1, n - 1) \in Seq(Regions) BY <3>1, SMT
    <3>5. TypeOK' BY <2>4, <3>3, <3>4, SMT DEF Leave, TypeOK
    <3>6. Shape' BY <2>4, <3>3, SMT DEF Leave, TypeOK, Shape
    <3> QED BY <3>5, <3>6
  <2>5. CASE LeaveInner(c)
    <3>1. hi \in todo[c] /\ hi \in Locks BY <2>0, <2>5 DEF LeaveInner
    <3>2. TypeOK' BY <2>5, <3>1, SMT DEF LeaveInner, Left, TypeOK, hi
    <3>3. Shape' BY <2>5, <3>1, SMT DEF LeaveInner, Left, TypeOK, Shape, hi
    <3> QED BY <3>2, <3>3
  <2>6. CASE ClearHeld(c)
    <3>1. hi \in todo[c] /\ hi \in Locks BY <2>0, <2>6 DEF ClearHeld
    <3>2. TypeOK' BY <2>6, <3>1, SMT DEF ClearHeld, TypeOK, hi
    <3>3. Shape' BY <2>6, <3>1, SMT DEF ClearHeld, TypeOK, Shape, hi
    <3> QED BY <3>2, <3>3
  <2>7. CASE ServeNext(c)
    <3>1. hi \in todo[c] /\ hi \in Locks BY <2>0, <2>7 DEF ServeNext
    <3>2. Inc(owner[hi]) \in Tickets BY IncType, <3>1 DEF TypeOK
    <3>3. TypeOK' BY <2>7, <3>1, <3>2, SMT DEF ServeNext, Left, TypeOK, hi
    <3>4. Shape' BY <2>7, <3>1, SMT DEF ServeNext, Left, TypeOK, Shape, hi
    <3> QED BY <3>3, <3>4
  <2> QED BY <1>2, <2>1, <2>2, <2>3, <2>4, <2>5, <2>6, <2>7 DEF Step
<1>3. CASE UNCHANGED vars
  BY <1>3, SMT DEF vars, TypeOK, Shape
<1> QED BY <1>1, <1>2, <1>3 DEF Next
----------------------------------------------------------------------------
(* The tickets in use at a lock are exactly those from owner to next, one  *)
(* per cpu spinning or holding, and the holder has the one being served.   *)
QueueAt(l) ==
    /\ Dist(l, next[l]) = Cardinality(Users(l))
    /\ \A c \in CPU : Waits(c, l) => Dist(l, ticket[c]) < Dist(l, next[l])
    /\ \A c, d \in CPU :
          Waits(c, l) /\ Waits(d, l) /\ ticket[c] = ticket[d] => c = d
    /\ \A c, d \in CPU : Hold(c, l) /\ Waits(d, l) => ticket[d] # owner[l]
    /\ \A c, d \in CPU : Hold(c, l) /\ Hold(d, l) => c = d
    /\ \A c \in CPU : pc[c] = "unlock" /\ l = Highest(todo[c]) => own[l] = NoCpu

Queue == \A l \in Locks : QueueAt(l)

(* The regions of c that have entered l, and one more while the region     *)
(* being left has not yet come to l: what depth counts.                    *)
In(c, l) ==
    {i \in DOMAIN regions[c] :
        /\ l \in regions[c][i]
        /\ ~(i = Len(regions[c]) /\ pc[c] \in {"enter", "spin"} /\ l \in todo[c])}

Count(c, l) ==
    Cardinality(In(c, l)) + (IF pc[c] \in {"leave", "unlock"} /\ l \in todo[c] THEN 1 ELSE 0)

(* A cpu owns every lock it is inside or still leaving, its depth counts   *)
(* the regions that cover it, and held is set.                             *)
NestingAt(c, l) ==
    /\ In(c, l) # {} => own[l] = c
    /\ pc[c] = "leave" /\ l \in todo[c] => own[l] = c
    /\ pc[c] = "unlock" /\ l \in todo[c] /\ l # Highest(todo[c]) => own[l] = c
    /\ own[l] = c => held[l] /\ depth[l] = Count(c, l) /\ depth[l] > 0

Nesting == \A c \in CPU : \A l \in Locks : NestingAt(c, l)

IInv == TypeOK /\ Shape /\ Queue /\ Nesting

LEMMA UsersFinite ==
    ASSUME SetFacts, NEW l
    PROVE  /\ IsFiniteSet(Users(l)) /\ Cardinality(Users(l)) \in Nat
           /\ Users(l) # {} => Cardinality(Users(l)) > 0
<1>1. Users(l) \in SUBSET CPU BY DEF Users
<1>2. IsFiniteSet(Users(l)) BY <1>1, LockAssumption, CardSubset
<1>3. Cardinality(Users(l)) \in Nat BY <1>2, CardNat
<1>4. Cardinality(Users(l)) = 0 <=> Users(l) = {} BY <1>2, CardEmpty
<1> QED BY <1>2, <1>3, <1>4

(* Linear facts about distances on the ticket circle. *)
LEMMA DistFacts ==
    ASSUME TypeOK, NEW l \in Locks, NEW t \in Tickets
    PROVE  /\ Dist(l, t) \in 0 .. (TicketMod - 1)
           /\ Dist(l, t) = 0 <=> t = owner[l]
           /\ \A u \in Tickets : Dist(l, t) = Dist(l, u) => t = u
           /\ Dist(l, t) < TicketMod - 1 => Dist(l, Inc(t)) = Dist(l, t) + 1
<1>1. owner[l] \in Tickets /\ TicketMod \in Nat BY LockAssumption, Zenon DEF TypeOK
<1> QED BY <1>1, SMT DEF Dist, Tickets, Inc

(* A lock whose words, users and waiters a step leaves alone keeps its     *)
(* queue.                                                                  *)
LEMMA QueueFrame ==
    ASSUME NEW k \in Locks, QueueAt(k), Users(k)' = Users(k),
           next'[k] = next[k], owner'[k] = owner[k], own'[k] = own[k],
           \A d \in CPU : Waits(d, k)' => Waits(d, k) /\ ticket'[d] = ticket[d],
           \A d \in CPU : Hold(d, k)' => Hold(d, k),
           \A d \in CPU : pc'[d] = "unlock" /\ k = Highest(todo'[d]) =>
                          pc[d] = "unlock" /\ k = Highest(todo[d])
    PROVE  QueueAt(k)'
<1>1. Dist(k, next[k])' = Dist(k, next[k]) BY DEF Dist
<1>2. \A d \in CPU : Waits(d, k)' => Dist(k, ticket[d])' = Dist(k, ticket[d]) BY Zenon DEF Dist
<1>3. Dist(k, next[k])' = Cardinality(Users(k))' BY <1>1 DEF QueueAt
<1>4. \A d \in CPU : Waits(d, k)' => Dist(k, ticket[d])' < Dist(k, next[k])'
  BY <1>1, <1>2 DEF QueueAt
<1>5. \A d, e \in CPU : Waits(d, k)' /\ Waits(e, k)' /\ ticket'[d] = ticket'[e] => d = e
  BY DEF QueueAt
<1>6. \A d, e \in CPU : Hold(d, k)' /\ Waits(e, k)' => ticket'[e] # owner'[k]
  BY DEF QueueAt
<1>7. \A d, e \in CPU : Hold(d, k)' /\ Hold(e, k)' => d = e
  BY DEF QueueAt
<1>8. \A d \in CPU : pc'[d] = "unlock" /\ k = Highest(todo'[d]) => own'[k] = NoCpu
  BY DEF QueueAt
<1> QED BY <1>3, <1>4, <1>5, <1>6, <1>7, <1>8, Zenon DEF QueueAt

(* Steps that touch no ticket and no owner leave the queues as they were. *)
LEMMA QueueQuiet ==
    ASSUME Queue, UNCHANGED <<next, owner, own, ticket>>,
           \A d \in CPU : \/ pc'[d] = pc[d] /\ todo'[d] = todo[d]
                          \/ {pc[d], pc'[d]} \cap {"spin", "unlock"} = {}
    PROVE  Queue'
<1>1. \A d \in CPU : \A k \in Locks : Waits(d, k)' <=> Waits(d, k)
  BY Zenon DEF Waits
<1>2. \A d \in CPU : \A k \in Locks : Hold(d, k)' <=> Hold(d, k)
  BY Zenon DEF Hold
<1>3. \A k \in Locks : Users(k)' = Users(k)
  BY <1>1, <1>2 DEF Users
<1>4. \A d \in CPU : \A k \in Locks :
        pc'[d] = "unlock" /\ k = Highest(todo'[d]) => pc[d] = "unlock" /\ k = Highest(todo[d])
  BY Zenon
<1> SUFFICES ASSUME NEW l \in Locks PROVE QueueAt(l)'
  BY DEF Queue
<1>5. QueueAt(l) BY DEF Queue
<1> QED BY <1>1, <1>2, <1>3, <1>4, <1>5, QueueFrame

LEMMA QueueDrawTicket ==
    ASSUME SetFacts, TypeOK, Shape, Queue, NEW c \in CPU, DrawTicket(c)
    PROVE  Queue'
<1>1. PICK l \in Locks : l = Lowest(todo[c]) BY CurrentLock DEF DrawTicket
<1>l. QueueAt(l) BY DEF Queue
<1>2. /\ pc[c] = "enter" /\ pc'[c] = "spin" /\ own[l] # c
      /\ ticket'[c] = next[l] /\ next'[l] = Inc(next[l])
      /\ \A d \in CPU \ {c} : pc'[d] = pc[d] /\ ticket'[d] = ticket[d]
      /\ \A k \in Locks \ {l} : next'[k] = next[k]
      /\ owner' = owner /\ own' = own /\ todo' = todo
      /\ next[l] \in Tickets
  BY <1>1 DEF DrawTicket, TypeOK
<1>3. \A d \in CPU : \A k \in Locks : Waits(d, k)' <=> (Waits(d, k) \/ (d = c /\ k = l))
  BY <1>1, <1>2 DEF Waits
<1>4. \A d \in CPU : \A k \in Locks : Hold(d, k)' <=> Hold(d, k)
  BY <1>2 DEF Hold
<1>5. ~Hold(c, l) /\ \A k \in Locks : ~Waits(c, k)
  BY <1>2 DEF Hold, Waits
<1>6. Users(l)' = Users(l) \cup {c} /\ c \notin Users(l)
  BY <1>1, <1>3, <1>4, <1>5 DEF Users
<1>7. \A k \in Locks \ {l} : Users(k)' = Users(k)
  BY <1>3, <1>4 DEF Users
<1>8. Cardinality(Users(l))' = Cardinality(Users(l)) + 1
  <2>1. IsFiniteSet(Users(l)) BY UsersFinite
  <2>2. Cardinality(Users(l) \cup {c}) = Cardinality(Users(l)) + 1 BY <1>6, <2>1, CardAdd
  <2> QED BY <1>6, <2>2
<1>9. Cardinality(Users(l)) < TicketMod - 1
  <2>1. IsFiniteSet(CPU \ {c}) /\ Cardinality(CPU \ {c}) = Cardinality(CPU) - 1
    BY LockAssumption, CardRemove
  <2>2. Users(l) \in SUBSET (CPU \ {c}) BY <1>6 DEF Users
  <2>3. Cardinality(Users(l)) <= Cardinality(CPU) - 1 BY <2>1, <2>2, CardSubset
  <2>4. Cardinality(CPU) \in Nat BY LockAssumption, CardNat
  <2> QED BY <2>3, <2>4, UsersFinite, LockAssumption, SMT
<1>10. Dist(l, next[l]) = Cardinality(Users(l)) BY <1>1, <1>l DEF QueueAt
<1>11. Dist(l, next[l])' = Dist(l, next[l]) + 1
  <2>1. Dist(l, Inc(next[l])) = Dist(l, next[l]) + 1
    BY <1>1, <1>2, <1>9, <1>10, DistFacts
  <2> QED BY <2>1, <1>2, Zenon DEF Dist
<1>12. \A k \in Locks \ {l} : Dist(k, next[k])' = Dist(k, next[k])
  BY <1>2 DEF Dist
<1>13. \A k \in Locks : /\ \A d \in CPU \ {c} : Dist(k, ticket[d])' = Dist(k, ticket[d])
                        /\ Dist(l, ticket[c])' = Dist(l, next[l])
  BY <1>2 DEF Dist
<1>14. \A k \in Locks : \A d \in CPU : Dist(k, ticket[d]) \in Int /\ Dist(k, next[k]) \in Int
  BY DistFacts, LockAssumption, SMT DEF TypeOK
<1>15. SUFFICES ASSUME NEW k \in Locks PROVE QueueAt(k)'
  BY DEF Queue
<1>k. QueueAt(k) BY Zenon DEF Queue
<1>16. CASE k # l
  <2>1. \A d \in CPU : Waits(d, k)' => d # c /\ Waits(d, k) BY <1>16, <1>3, <1>5
  <2>2. \A d \in CPU : pc'[d] = "unlock" => pc[d] = "unlock" BY <1>2, Zenon
  <2> QED BY <1>16, <2>1, <2>2, <1>2, <1>4, <1>7, <1>k, QueueFrame, Zenon
<1>17. CASE k = l
  <2>1. \A d \in CPU : Waits(d, l) => d # c /\ Dist(l, ticket[d]) < Dist(l, next[l])
    BY <1>1, <1>5, <1>l, <1>k, Zenon DEF QueueAt
  <2>2. \A d \in CPU : Waits(d, l) => ticket[d] # next[l]
    BY <2>1, <1>14, <1>1, SMT
  <2>3. \A d \in CPU : Hold(d, l) => next[l] # owner[l]
    <3>1. SUFFICES ASSUME NEW d \in CPU, Hold(d, l) PROVE Dist(l, next[l]) # 0
      BY DistFacts, <1>1, <1>2
    <3>2. d \in Users(l) BY <3>1 DEF Users
    <3> QED BY <3>2, UsersFinite, <1>10, SMT
  <2>4. Dist(l, next[l])' = Cardinality(Users(l))' BY <1>8, <1>10, <1>11
  <2>5. \A d \in CPU : Waits(d, l)' => Dist(l, ticket[d])' < Dist(l, next[l])'
    <3>1. SUFFICES ASSUME NEW d \in CPU, Waits(d, l)'
          PROVE Dist(l, ticket[d])' < Dist(l, next[l]) + 1
      BY <1>11
    <3>2. CASE d = c BY <3>2, <1>1, <1>13, <1>14, SMT
    <3>3. CASE d # c
      <4>1. Dist(l, ticket[d])' = Dist(l, ticket[d]) BY <3>3, <1>13, <1>1
      <4>2. Dist(l, ticket[d]) < Dist(l, next[l]) BY <3>1, <3>3, <1>3, <1>1, <2>1, Zenon
      <4> QED BY <4>1, <4>2, <1>14, <1>1, SMT
    <3> QED BY <3>2, <3>3
  <2>6. ASSUME NEW d \in CPU, NEW e \in CPU, Waits(d, l)', Waits(e, l)', ticket'[d] = ticket'[e]
        PROVE  d = e
    <3>1. CASE d # c /\ e # c
      BY <1>1, <1>2, <1>3, <2>6, <3>1, <1>l, Zenon DEF QueueAt
    <3>2. CASE d = c
      BY <1>1, <1>2, <1>3, <2>2, <2>6, <3>2, Zenon
    <3>3. CASE e = c
      BY <1>1, <1>2, <1>3, <2>2, <2>6, <3>3, Zenon
    <3> QED BY <3>1, <3>2, <3>3, Zenon
  <2>7. \A d, e \in CPU : Hold(d, l)' /\ Waits(e, l)' => ticket'[e] # owner'[l]
    BY <1>1, <1>2, <1>3, <1>4, <2>3, <1>l, <1>k, ZenonT(30) DEF QueueAt
  <2>8. \A d, e \in CPU : Hold(d, l)' /\ Hold(e, l)' => d = e
    BY <1>1, <1>4, <1>l, <1>k, Zenon DEF QueueAt
  <2>9. \A d \in CPU : pc'[d] = "unlock" /\ l = Highest(todo'[d]) => own'[l] = NoCpu
    BY <1>1, <1>2, <1>l, <1>k, Zenon DEF QueueAt
  <2> QED BY <1>17, <2>4, <2>5, <2>6, <2>7, <2>8, <2>9, Zenon DEF QueueAt
<1> QED BY <1>16, <1>17

LEMMA QueueAcquire ==
    ASSUME SetFacts, TypeOK, Shape, Queue, NEW c \in CPU, Acquire(c)
    PROVE  Queue'
<1>1. PICK l \in Locks : l = Lowest(todo[c]) BY CurrentLock DEF Acquire
<1>l. QueueAt(l) BY DEF Queue
<1>2. /\ pc[c] = "spin" /\ pc'[c] \in {"run", "enter"} /\ ticket[c] = owner[l]
      /\ own'[l] = c
      /\ \A d \in CPU \ {c} : pc'[d] = pc[d] /\ ticket'[d] = ticket[d] /\ todo'[d] = todo[d]
      /\ \A k \in Locks \ {l} : own'[k] = own[k]
      /\ owner' = owner /\ next' = next
  BY <1>1 DEF Acquire, Entered, TypeOK
<1>3. \A d \in CPU : \A k \in Locks : Waits(d, k)' <=> (Waits(d, k) /\ d # c)
  BY <1>1, <1>2 DEF Waits
<1>4. Waits(c, l) /\ \A k \in Locks : Waits(c, k) => k = l
  BY <1>1, <1>2, Zenon DEF Waits
<1>5. \A d \in CPU : ~Hold(d, l)
  BY <1>1, <1>2, <1>4, <1>l, Zenon DEF QueueAt
<1>6. \A d \in CPU : \A k \in Locks : Hold(d, k)' <=> (Hold(d, k) \/ (d = c /\ k = l))
  BY <1>1, <1>2, <1>5 DEF Hold
<1>7. \A k \in Locks : Users(k)' = Users(k)
  BY <1>3, <1>4, <1>6, Zenon DEF Users
<1>8. \A k \in Locks : /\ Dist(k, next[k])' = Dist(k, next[k])
                       /\ \A d \in CPU \ {c} : Dist(k, ticket[d])' = Dist(k, ticket[d])
  BY <1>2, Zenon DEF Dist
<1>9. \A d \in CPU \ {c} : Waits(d, l) => ticket[d] # owner[l]
  BY <1>1, <1>2, <1>4, <1>l, Zenon DEF QueueAt
<1>10. \A d \in CPU : pc'[d] = "unlock" /\ l = Highest(todo'[d]) => FALSE
  BY <1>1, <1>2, <1>5, Zenon DEF Hold
<1>11. SUFFICES ASSUME NEW k \in Locks PROVE QueueAt(k)'
  BY DEF Queue
<1>k. QueueAt(k) BY DEF Queue
<1>12. CASE k # l
  <2>1. \A d \in CPU : Hold(d, k)' => Hold(d, k) BY <1>12, <1>6
  <2>2. \A d \in CPU : pc'[d] = "unlock" => d # c BY <1>2, Zenon
  <2> QED BY <1>12, <2>1, <2>2, <1>2, <1>3, <1>7, <1>k, QueueFrame, Zenon
<1>13. CASE k = l
  <2>1. Dist(l, next[l])' = Cardinality(Users(l))' BY <1>7, <1>8, <1>l, Zenon DEF QueueAt
  <2>2. \A d \in CPU : Waits(d, l)' => Dist(l, ticket[d])' < Dist(l, next[l])'
    BY <1>3, <1>8, <1>l, Zenon DEF QueueAt
  <2>3. ASSUME NEW d \in CPU, NEW e \in CPU, Waits(d, l)', Waits(e, l)', ticket'[d] = ticket'[e]
        PROVE  d = e
    <3>1. Waits(d, l) /\ Waits(e, l) /\ d # c /\ e # c BY <1>3, <2>3, Zenon
    <3>2. ticket[d] = ticket[e] BY <1>2, <2>3, <3>1, Zenon
    <3> QED BY <1>l, <3>1, <3>2, Zenon DEF QueueAt
  <2>4. \A d \in CPU : Waits(d, l)' => ticket'[d] # owner'[l] BY <1>2, <1>3, <1>9, Zenon
  <2>5. \A d \in CPU : Hold(d, l)' => d = c BY <1>5, <1>6, Zenon
  <2> QED BY <1>13, <2>1, <2>2, <2>3, <2>4, <2>5, <1>10, Zenon DEF QueueAt
<1> QED BY <1>12, <1>13

LEMMA QueueClearHeld ==
    ASSUME SetFacts, TypeOK, Shape, Queue, Nesting, NEW c \in CPU, ClearHeld(c)
    PROVE  Queue'
<1>1. PICK l \in Locks : l = Highest(todo[c]) /\ l \in todo[c] BY CurrentLock DEF ClearHeld
<1>l. QueueAt(l) BY DEF Queue
<1>n. \A d \in CPU : NestingAt(d, l) BY DEF Nesting
<1>2. /\ pc[c] = "leave" /\ pc'[c] = "unlock" /\ own'[l] = NoCpu /\ own[l] = c
      /\ \A d \in CPU \ {c} : pc'[d] = pc[d]
      /\ \A k \in Locks \ {l} : own'[k] = own[k]
      /\ owner' = owner /\ next' = next /\ todo' = todo /\ ticket' = ticket
  BY <1>1, <1>n DEF ClearHeld, TypeOK, NestingAt
<1>3. \A d \in CPU : \A k \in Locks : Waits(d, k)' <=> Waits(d, k)
  BY <1>1, <1>2 DEF Waits
<1>4. \A d \in CPU : NoCpu # d BY LockAssumption
<1>5. \A d \in CPU : \A k \in Locks : Hold(d, k)' <=> Hold(d, k)
  <2>1. \A d \in CPU : Hold(d, l) => d = c BY <1>1, <1>2, <1>l DEF QueueAt, Hold
  <2>2. \A k \in Locks : Hold(c, k)' <=> Hold(c, k) BY <1>1, <1>2, <1>4, Zenon DEF Hold
  <2>3. \A d \in CPU \ {c} : \A k \in Locks : Hold(d, k)' <=> Hold(d, k)
    BY <1>1, <1>2, <1>4, <2>1 DEF Hold
  <2> QED BY <2>2, <2>3
<1>6. \A k \in Locks : Users(k)' = Users(k)
  BY <1>3, <1>5 DEF Users
<1>7. \A k \in Locks : /\ Dist(k, next[k])' = Dist(k, next[k])
                       /\ \A d \in CPU : Dist(k, ticket[d])' = Dist(k, ticket[d])
  BY <1>2 DEF Dist
<1>8. SUFFICES ASSUME NEW k \in Locks PROVE QueueAt(k)'
  BY DEF Queue
<1>k. QueueAt(k) BY Zenon DEF Queue
<1>9. \A d \in CPU : pc'[d] = "unlock" /\ k = Highest(todo'[d]) => own'[k] = NoCpu
  BY <1>1, <1>2, <1>l, <1>k, Zenon DEF QueueAt
<1>10. Dist(k, next[k])' = Cardinality(Users(k))'
  BY <1>6, <1>7, <1>k, Zenon DEF QueueAt
<1>11. \A d \in CPU : Waits(d, k)' => Dist(k, ticket[d])' < Dist(k, next[k])'
  BY <1>3, <1>7, <1>k, Zenon DEF QueueAt
<1>12. \A d, e \in CPU : Waits(d, k)' /\ Waits(e, k)' /\ ticket'[d] = ticket'[e] => d = e
  BY <1>2, <1>3, <1>k, Zenon DEF QueueAt
<1>13. \A d, e \in CPU : Hold(d, k)' /\ Waits(e, k)' => ticket'[e] # owner'[k]
  BY <1>2, <1>3, <1>5, <1>k, Zenon DEF QueueAt
<1>14. \A d, e \in CPU : Hold(d, k)' /\ Hold(e, k)' => d = e
  BY <1>5, <1>k, Zenon DEF QueueAt
<1> QED BY <1>9, <1>10, <1>11, <1>12, <1>13, <1>14, Zenon DEF QueueAt

LEMMA QueueServeNext ==
    ASSUME SetFacts, TypeOK, Shape, Queue, NEW c \in CPU, ServeNext(c)
    PROVE  Queue'
<1>1. PICK l \in Locks : l = Highest(todo[c]) BY CurrentLock, Zenon DEF ServeNext
<1>l. QueueAt(l) BY DEF Queue
<1>2. /\ pc[c] = "unlock" /\ pc'[c] \in {"run", "leave"} /\ own[l] = NoCpu
      /\ owner'[l] = Inc(owner[l]) /\ owner[l] \in Tickets
      /\ \A d \in CPU \ {c} : pc'[d] = pc[d] /\ todo'[d] = todo[d]
      /\ \A k \in Locks \ {l} : owner'[k] = owner[k]
      /\ own' = own /\ next' = next /\ ticket' = ticket
  BY <1>1, <1>l DEF ServeNext, Left, TypeOK, QueueAt
<1>3. \A d \in CPU : \A k \in Locks : Waits(d, k)' <=> Waits(d, k)
  BY <1>2 DEF Waits
<1>4. \A d \in CPU : NoCpu # d BY LockAssumption, Zenon
<1>5. Hold(c, l) /\ \A d \in CPU : Hold(d, l) => d = c
  BY <1>1, <1>2, <1>l, Zenon DEF Hold, QueueAt
<1>6. \A d \in CPU : \A k \in Locks : Hold(d, k)' <=> (Hold(d, k) /\ ~(d = c /\ k = l))
  BY <1>1, <1>2, <1>4 DEF Hold
<1>7. \A k \in Locks \ {l} : Users(k)' = Users(k)
  BY <1>3, <1>6 DEF Users
<1>8. Users(l)' = Users(l) \ {c} /\ c \in Users(l)
  <2>1. ~Waits(c, l) BY <1>2 DEF Waits
  <2> QED BY <2>1, <1>1, <1>3, <1>5, <1>6 DEF Users
<1>9. Cardinality(Users(l))' = Cardinality(Users(l)) - 1 /\ Cardinality(Users(l)) > 0
  <2>1. IsFiniteSet(Users(l)) /\ Cardinality(Users(l)) > 0 BY <1>8, UsersFinite
  <2>2. Cardinality(Users(l) \ {c}) = Cardinality(Users(l)) - 1 BY <1>8, <2>1, CardRemove, Zenon
  <2> QED BY <1>8, <2>1, <2>2
<1>10. \A t \in Tickets : t # owner[l] =>
         (IF t >= owner'[l] THEN t - owner'[l] ELSE t - owner'[l] + TicketMod) = Dist(l, t) - 1
  BY <1>1, <1>2, LockAssumption, SMT DEF Dist, Inc, Tickets
<1>11. next[l] # owner[l] /\ next[l] \in Tickets
  <2>1. Dist(l, next[l]) = Cardinality(Users(l)) BY <1>1, <1>l DEF QueueAt
  <2>2. Dist(l, next[l]) # 0 BY <2>1, <1>9, UsersFinite, SMT
  <2> QED BY <2>2, <1>1, DistFacts, Zenon DEF TypeOK
<1>12. \A d \in CPU : Waits(d, l) => ticket[d] # owner[l] /\ ticket[d] \in Tickets
  BY <1>1, <1>5, <1>l, Zenon DEF QueueAt, TypeOK
<1>13. Dist(l, next[l])' = Dist(l, next[l]) - 1
  BY <1>2, <1>10, <1>11, Zenon DEF Dist
<1>14. \A d \in CPU : Waits(d, l) => Dist(l, ticket[d])' = Dist(l, ticket[d]) - 1
  BY <1>2, <1>10, <1>12, Zenon DEF Dist
<1>15. \A k \in Locks \ {l} : /\ Dist(k, next[k])' = Dist(k, next[k])
                              /\ \A d \in CPU : Dist(k, ticket[d])' = Dist(k, ticket[d])
  BY <1>2, Zenon DEF Dist
<1>16. \A k \in Locks : \A d \in CPU : Dist(k, ticket[d]) \in Int /\ Dist(k, next[k]) \in Int
  BY DistFacts, LockAssumption, SMT DEF TypeOK
<1>17. SUFFICES ASSUME NEW k \in Locks PROVE QueueAt(k)'
  BY DEF Queue
<1>k. QueueAt(k) BY DEF Queue
<1>18. CASE k # l
  <2>1. \A d \in CPU : pc'[d] = "unlock" => d # c BY <1>2, Zenon
  <2> QED BY <1>18, <2>1, <1>2, <1>3, <1>6, <1>7, <1>k, QueueFrame, Zenon
<1>19. CASE k = l
  <2>1. Dist(l, next[l])' = Cardinality(Users(l))' BY <1>1, <1>9, <1>13, <1>l, <1>k, Zenon DEF QueueAt
  <2>2. \A d \in CPU : Waits(d, l)' => Dist(l, ticket[d])' < Dist(l, next[l])'
    <3>1. SUFFICES ASSUME NEW d \in CPU, Waits(d, l)
          PROVE Dist(l, ticket[d]) - 1 < Dist(l, next[l]) - 1
      BY <1>1, <1>3, <1>13, <1>14, Zenon
    <3>2. Dist(l, ticket[d]) < Dist(l, next[l]) BY <3>1, <1>l DEF QueueAt
    <3>3. Dist(l, ticket[d]) \in Int /\ Dist(l, next[l]) \in Int BY <1>1, <1>16
    <3> QED BY <3>2, <3>3, SMT
  <2>3. \A d \in CPU : ~Hold(d, l)' BY <1>1, <1>5, <1>6, Zenon
  <2>4. \A d, e \in CPU : Waits(d, l)' /\ Waits(e, l)' /\ ticket'[d] = ticket'[e] => d = e
    BY <1>1, <1>2, <1>3, <1>l, <1>k, Zenon DEF QueueAt
  <2>5. \A d \in CPU : pc'[d] = "unlock" /\ l = Highest(todo'[d]) => own'[l] = NoCpu
    BY <1>2
  <2> QED BY <1>19, <2>1, <2>2, <2>3, <2>4, <2>5, Zenon DEF QueueAt
<1> QED BY <1>18, <1>19
============================================================================
