--------------------------- MODULE IpcLockProofs ---------------------------
(***************************************************************************)
(* Theorems about the locks of the ipc layer, for any number of cpus and   *)
(* buckets, any nesting and any ticket width that exceeds the cpu count.   *)
(* First that every step keeps the part of the inductive invariant that is *)
(* about ownership and depth.                                              *)
(***************************************************************************)
EXTENDS IpcLockQueue, FiniteSetTheorems, WellFoundedInduction

LEMMA InFinite ==
    ASSUME SetFacts, TypeOK, NEW c \in CPU, NEW l
    PROVE  /\ IsFiniteSet(In(c, l)) /\ Cardinality(In(c, l)) \in Nat
           /\ Cardinality(In(c, l)) = 0 <=> In(c, l) = {}
<1>1. In(c, l) \in SUBSET (1 .. Len(regions[c])) /\ Len(regions[c]) \in Nat
  BY SMT DEF In, TypeOK
<1>2. IsFiniteSet(1 .. Len(regions[c])) BY <1>1, IntervalFinite
<1>3. IsFiniteSet(In(c, l)) BY <1>1, <1>2, CardSubset
<1> QED BY <1>3, CardNat, CardEmpty

LEMMA NestingEnter ==
    ASSUME TypeOK, Shape, Nesting, NEW c \in CPU, NEW R \in Regions, Enter(c, R)
    PROVE  Nesting'
<1>1. regions[c] \in Seq(Regions) /\ Len(regions[c]) \in Nat BY DEF TypeOK
<1>2. /\ pc[c] = "run" /\ pc'[c] = "enter" /\ todo[c] = {} /\ todo'[c] = R
      /\ regions'[c] = Append(regions[c], R)
      /\ \A d \in CPU \ {c} : pc'[d] = pc[d] /\ regions'[d] = regions[d] /\ todo'[d] = todo[d]
      /\ UNCHANGED <<own, held, depth>>
  BY DEF Enter, TypeOK, Shape
<1>3. \A d \in CPU \ {c} : \A k \in Locks : In(d, k)' = In(d, k) /\ Count(d, k)' = Count(d, k)
  <2>1. \A d \in CPU \ {c} : \A k \in Locks : In(d, k)' = In(d, k) BY <1>2 DEF In
  <2> QED BY <2>1, <1>2 DEF Count
<1>4. \A k \in Locks : In(c, k)' = In(c, k)
  <2>1. Len(regions'[c]) = Len(regions[c]) + 1 /\ DOMAIN regions'[c] = 1 .. (Len(regions[c]) + 1)
    BY <1>1, <1>2, SMT
  <2>2. DOMAIN regions[c] = 1 .. Len(regions[c]) BY <1>1
  <2>3. /\ \A i \in 1 .. Len(regions[c]) : regions'[c][i] = regions[c][i]
        /\ regions'[c][Len(regions[c]) + 1] = R
    BY <1>1, <1>2, SMT
  <2>4. SUFFICES ASSUME NEW k \in Locks, NEW i PROVE i \in In(c, k)' <=> i \in In(c, k)
    BY Zenon
  <2>5. i \in In(c, k) <=> i \in 1 .. Len(regions[c]) /\ k \in regions[c][i]
    BY <1>2, <2>2 DEF In
  <2>6. i \in In(c, k)' <=> /\ i \in 1 .. (Len(regions[c]) + 1) /\ k \in regions'[c][i]
                            /\ ~(i = Len(regions[c]) + 1 /\ k \in R)
    BY <1>2, <2>1 DEF In
  <2> QED BY <2>3, <2>5, <2>6, <1>1, SMT
<1>5. \A k \in Locks : Count(c, k)' = Count(c, k) BY <1>2, <1>4 DEF Count
<1>6. SUFFICES ASSUME NEW d \in CPU, NEW k \in Locks PROVE NestingAt(d, k)'
  BY DEF Nesting
<1>k. NestingAt(d, k) BY DEF Nesting
<1> QED BY <1>2, <1>3, <1>4, <1>5, <1>k DEF NestingAt

(* What entering one lock does to the regions: the innermost one counts.   *)
LEMMA EnteredIn ==
    ASSUME SetFacts, TypeOK, Shape, NEW c \in CPU, pc[c] \in {"enter", "spin"},
           NEW l \in todo[c], Entered(c, l), regions' = regions
    PROVE  /\ Len(regions[c]) \notin In(c, l)
           /\ In(c, l)' = In(c, l) \cup {Len(regions[c])}
           /\ \A k \in Locks \ {l} : In(c, k)' = In(c, k)
           /\ \A k \in Locks : Count(c, k)' = Cardinality(In(c, k)')
           /\ \A k \in Locks : Count(c, k) = Cardinality(In(c, k))
           /\ \A d \in CPU \ {c} : \A k \in Locks :
                 In(d, k)' = In(d, k) /\ Count(d, k)' = Count(d, k)
           /\ pc'[c] \in {"run", "enter"}
           /\ \A d \in CPU \ {c} : pc'[d] = pc[d] /\ todo'[d] = todo[d]
<1>1. /\ pc'[c] \in {"run", "enter"} /\ todo'[c] = todo[c] \ {l}
      /\ pc'[c] = "run" => todo[c] = {l}
      /\ \A d \in CPU \ {c} : pc'[d] = pc[d] /\ todo'[d] = todo[d]
  BY DEF Entered, TypeOK
<1>2. /\ Len(regions[c]) \in DOMAIN regions[c] /\ l \in regions[c][Len(regions[c])]
  <2>1. regions[c] \in Seq(Regions) /\ Len(regions[c]) > 0 /\ l \in regions[c][Len(regions[c])]
    BY DEF TypeOK, Shape
  <2> QED BY <2>1, SMT
<1>3. \A d \in CPU \ {c} : \A k \in Locks : In(d, k)' = In(d, k) /\ Count(d, k)' = Count(d, k)
  <2>1. \A d \in CPU \ {c} : \A k \in Locks : In(d, k)' = In(d, k) BY <1>1 DEF In
  <2> QED BY <2>1, <1>1 DEF Count
<1>4. \A k \in Locks : /\ Count(c, k)' = Cardinality(In(c, k)') + 0
                       /\ Count(c, k) = Cardinality(In(c, k)) + 0
  BY <1>1 DEF Count
<1>5. \A k \in Locks : In(c, k) \in SUBSET DOMAIN regions[c] BY DEF In
<1>6. \A k \in Locks \ {l} : In(c, k)' = In(c, k)
  BY <1>1 DEF In
<1>7. In(c, l)' = In(c, l) \cup {Len(regions[c])}
  BY <1>1, <1>2 DEF In
<1>8. Len(regions[c]) \notin In(c, l) BY DEF In
<1>9. \A k \in Locks : Cardinality(In(c, k)) \in Int /\ Cardinality(In(c, k)') \in Int
  <2>1. \A k \in Locks : IsFiniteSet(In(c, k)) /\ Cardinality(In(c, k)) \in Nat BY InFinite
  <2>0. IsFiniteSet(In(c, l)) BY InFinite
  <2>2. IsFiniteSet(In(c, l) \cup {Len(regions[c])}) BY <2>0, CardAdd, Zenon
  <2>3. Cardinality(In(c, l)') \in Nat BY <2>2, <1>7, CardNat
  <2> QED BY <2>1, <2>3, <1>6
<1>10. \A k \in Locks : Count(c, k)' = Cardinality(In(c, k)') /\ Count(c, k) = Cardinality(In(c, k))
  BY <1>4, <1>9
<1> QED BY <1>1, <1>3, <1>6, <1>7, <1>8, <1>10

LEMMA NestingEnterAgain ==
    ASSUME SetFacts, TypeOK, Shape, Nesting, NEW c \in CPU, EnterAgain(c)
    PROVE  Nesting'
<1>1. PICK l \in Locks : l = Lowest(todo[c]) /\ l \in todo[c] BY CurrentLock DEF EnterAgain
<1>n. \A d \in CPU : NestingAt(d, l) BY DEF Nesting
<1>2. /\ own[l] = c /\ depth'[l] = depth[l] + 1 /\ Entered(c, l) /\ pc[c] = "enter"
      /\ \A k \in Locks \ {l} : depth'[k] = depth[k]
      /\ own' = own /\ held' = held /\ regions' = regions
  BY <1>1, Zenon DEF EnterAgain, TypeOK
<1>3. /\ Len(regions[c]) \notin In(c, l)
      /\ In(c, l)' = In(c, l) \cup {Len(regions[c])}
      /\ \A k \in Locks \ {l} : In(c, k)' = In(c, k)
      /\ \A k \in Locks : Count(c, k)' = Cardinality(In(c, k)')
      /\ \A k \in Locks : Count(c, k) = Cardinality(In(c, k))
      /\ \A d \in CPU \ {c} : \A k \in Locks :
            In(d, k)' = In(d, k) /\ Count(d, k)' = Count(d, k)
      /\ pc'[c] \in {"run", "enter"}
      /\ \A d \in CPU \ {c} : pc'[d] = pc[d] /\ todo'[d] = todo[d]
  BY <1>1, <1>2, EnteredIn, Zenon
<1>4. Count(c, l)' = Count(c, l) + 1
  <2>1. IsFiniteSet(In(c, l)) BY InFinite
  <2>2. Cardinality(In(c, l) \cup {Len(regions[c])}) = Cardinality(In(c, l)) + 1
    BY <1>3, <2>1, CardAdd, Zenon
  <2>3. Count(c, l)' = Cardinality(In(c, l)') /\ Count(c, l) = Cardinality(In(c, l))
    BY <1>3, Zenon
  <2> QED BY <1>3, <2>2, <2>3
<1>5. depth'[l] = Count(c, l)' /\ depth'[l] > 0
  <2>1. depth[l] = Count(c, l) /\ depth[l] > 0 BY <1>1, <1>2, <1>n, Zenon DEF NestingAt
  <2>2. depth[l] \in Nat BY <1>1, Zenon DEF TypeOK
  <2> QED BY <2>1, <2>2, <1>2, <1>4, SMT
<1>6. \A k \in Locks \ {l} : Count(c, k)' = Count(c, k) BY <1>3
<1>7. SUFFICES ASSUME NEW d \in CPU, NEW k \in Locks PROVE NestingAt(d, k)'
  BY DEF Nesting
<1>k. NestingAt(d, k) BY Zenon DEF Nesting
<1>8. CASE d # c
  <2>1. /\ In(d, k)' = In(d, k) /\ Count(d, k)' = Count(d, k)
        /\ pc'[d] = pc[d] /\ todo'[d] = todo[d]
    BY <1>3, <1>8, Zenon
  <2>2. k = l \/ depth'[k] = depth[k] BY <1>2, Zenon
  <2> QED BY <2>1, <2>2, <1>2, <1>8, <1>k, Zenon DEF NestingAt
<1>9. CASE d = c BY <1>9, <1>1, <1>2, <1>3, <1>5, <1>6, <1>k, Zenon DEF NestingAt
<1> QED BY <1>8, <1>9

LEMMA NestingAcquire ==
    ASSUME SetFacts, TypeOK, Shape, Queue, Nesting, NEW c \in CPU, Acquire(c)
    PROVE  Nesting'
<1>1. PICK l \in Locks : l = Lowest(todo[c]) /\ l \in todo[c] BY CurrentLock DEF Acquire
<1>l. QueueAt(l) BY DEF Queue
<1>n. \A d \in CPU : NestingAt(d, l) BY DEF Nesting
<1>2. /\ own'[l] = c /\ depth'[l] = 1 /\ held'[l] /\ Entered(c, l) /\ pc[c] = "spin"
      /\ ticket[c] = owner[l]
      /\ \A k \in Locks \ {l} : depth'[k] = depth[k] /\ own'[k] = own[k] /\ held'[k] = held[k]
      /\ regions' = regions
  BY <1>1, Zenon DEF Acquire, TypeOK
<1>3. /\ Len(regions[c]) \notin In(c, l)
      /\ In(c, l)' = In(c, l) \cup {Len(regions[c])}
      /\ \A k \in Locks \ {l} : In(c, k)' = In(c, k)
      /\ \A k \in Locks : Count(c, k)' = Cardinality(In(c, k)')
      /\ \A k \in Locks : Count(c, k) = Cardinality(In(c, k))
      /\ \A d \in CPU \ {c} : \A k \in Locks :
            In(d, k)' = In(d, k) /\ Count(d, k)' = Count(d, k)
      /\ pc'[c] \in {"run", "enter"}
      /\ \A d \in CPU \ {c} : pc'[d] = pc[d] /\ todo'[d] = todo[d]
  BY <1>1, <1>2, EnteredIn, Zenon
<1>4. \A d \in CPU : ~Hold(d, l)
  BY <1>1, <1>2, <1>l, Zenon DEF QueueAt, Waits
<1>5. \A d \in CPU : own[l] # d BY <1>4, Zenon DEF Hold
<1>6. \A d \in CPU : In(d, l) = {} /\ ~(pc[d] = "leave" /\ l \in todo[d])
                      /\ ~(pc[d] = "unlock" /\ l \in todo[d] /\ l # Highest(todo[d]))
  BY <1>1, <1>5, <1>n DEF NestingAt
<1>7. Count(c, l)' = 1
  <2>1. In(c, l)' = {Len(regions[c])} BY <1>3, <1>6
  <2>2. Cardinality({Len(regions[c])}) = 1 BY CardOne, Zenon
  <2>3. Count(c, l)' = Cardinality(In(c, l)') BY <1>3, Zenon
  <2> QED BY <2>1, <2>2, <2>3, Zenon
<1>8. \A k \in Locks \ {l} : Count(c, k)' = Count(c, k) BY <1>3
<1>9. SUFFICES ASSUME NEW d \in CPU, NEW k \in Locks PROVE NestingAt(d, k)'
  BY DEF Nesting
<1>k. NestingAt(d, k) BY DEF Nesting
<1>10. CASE k # l
  <2>1. CASE d # c
    <3>1. /\ In(d, k)' = In(d, k) /\ Count(d, k)' = Count(d, k)
          /\ pc'[d] = pc[d] /\ todo'[d] = todo[d]
      BY <1>3, <2>1
    <3>2. depth'[k] = depth[k] /\ own'[k] = own[k] /\ held'[k] = held[k] BY <1>2, <1>10, Zenon
    <3> QED BY <3>1, <3>2, <1>k, Zenon DEF NestingAt
  <2>2. CASE d = c
    <3>1. /\ In(c, k)' = In(c, k) /\ Count(c, k)' = Count(c, k)
          /\ pc'[c] # "leave" /\ pc'[c] # "unlock"
      BY <1>3, <1>8, <1>10, Zenon
    <3>2. depth'[k] = depth[k] /\ own'[k] = own[k] /\ held'[k] = held[k] BY <1>2, <1>10, Zenon
    <3> QED BY <2>2, <3>1, <3>2, <1>k, Zenon DEF NestingAt
  <2> QED BY <2>1, <2>2, Zenon
<1>11. CASE k = l
  <2>1. CASE d # c
    <3>1. In(d, l)' = In(d, l) /\ pc'[d] = pc[d] /\ todo'[d] = todo[d] BY <1>3, <2>1
    <3>2. own'[l] # d BY <1>2, <2>1, Zenon
    <3> QED BY <3>1, <3>2, <1>6, <1>11, Zenon DEF NestingAt
  <2>2. CASE d = c BY <1>11, <2>2, <1>1, <1>2, <1>3, <1>7 DEF NestingAt
  <2> QED BY <2>1, <2>2
<1> QED BY <1>10, <1>11, Zenon

LEMMA NestingDrawTicket ==
    ASSUME TypeOK, Nesting, NEW c \in CPU, DrawTicket(c)
    PROVE  Nesting'
<1>1. /\ pc[c] = "enter" /\ pc'[c] = "spin"
      /\ \A d \in CPU \ {c} : pc'[d] = pc[d]
      /\ UNCHANGED <<own, held, depth, regions, todo>>
  BY DEF DrawTicket, TypeOK
<1>2. \A d \in CPU : \A k \in Locks : In(d, k)' = In(d, k)
  BY <1>1 DEF In
<1>3. \A d \in CPU : \A k \in Locks : Count(d, k)' = Count(d, k)
  BY <1>1, <1>2 DEF Count
<1>4. SUFFICES ASSUME NEW d \in CPU, NEW k \in Locks PROVE NestingAt(d, k)'
  BY DEF Nesting
<1>k. NestingAt(d, k) BY DEF Nesting
<1> QED BY <1>1, <1>2, <1>3, <1>k, Zenon DEF NestingAt

LEMMA NestingLeave ==
    ASSUME SetFacts, TypeOK, Shape, Nesting, NEW c \in CPU, Leave(c)
    PROVE  Nesting'
<1>1. PICK n \in Nat : n = Len(regions[c]) /\ n > 0 /\ regions[c] \in Seq(Regions)
  BY DEF Leave, TypeOK
<1>2. /\ pc[c] = "run" /\ pc'[c] = "leave" /\ todo[c] = {} /\ todo'[c] = regions[c][n]
      /\ regions'[c] = SubSeq(regions[c], 1, n - 1)
      /\ \A d \in CPU \ {c} : pc'[d] = pc[d] /\ regions'[d] = regions[d] /\ todo'[d] = todo[d]
      /\ UNCHANGED <<own, held, depth>>
  BY <1>1 DEF Leave, TypeOK, Shape
<1>3. \A d \in CPU \ {c} : \A k \in Locks : In(d, k)' = In(d, k) /\ Count(d, k)' = Count(d, k)
  <2>1. \A d \in CPU \ {c} : \A k \in Locks : In(d, k)' = In(d, k) BY <1>2 DEF In
  <2> QED BY <2>1, <1>2, Zenon DEF Count
<1>4. \A k \in Locks : In(c, k)' = In(c, k) \ {n}
  <2>1. DOMAIN regions'[c] = 1 .. (n - 1) /\ DOMAIN regions[c] = 1 .. n
    BY <1>1, <1>2, SMT
  <2>2. \A i \in 1 .. (n - 1) : regions'[c][i] = regions[c][i]
    BY <1>1, <1>2, SMT
  <2>3. SUFFICES ASSUME NEW k \in Locks, NEW i
        PROVE i \in In(c, k)' <=> i \in In(c, k) /\ i # n
    OBVIOUS
  <2>4. i \in In(c, k) <=> i \in 1 .. n /\ k \in regions[c][i]
    BY <1>2, <2>1, Zenon DEF In
  <2>5. i \in In(c, k)' <=> i \in 1 .. (n - 1) /\ k \in regions'[c][i]
    BY <1>2, <2>1, Zenon DEF In
  <2> QED BY <2>2, <2>4, <2>5, <1>1, SMT
<1>5. \A k \in Locks : k \in regions[c][n] <=> n \in In(c, k)
  BY <1>1, <1>2, SMT DEF In
<1>6. \A k \in Locks : Count(c, k)' = Count(c, k)
  <2>1. SUFFICES ASSUME NEW k \in Locks PROVE Count(c, k)' = Count(c, k)
    OBVIOUS
  <2>2. Count(c, k) = Cardinality(In(c, k)) + 0 BY <1>2 DEF Count
  <2>3. Count(c, k)' = Cardinality(In(c, k) \ {n}) + (IF n \in In(c, k) THEN 1 ELSE 0)
    <3>1. In(c, k)' = In(c, k) \ {n} BY <1>4
    <3>2. k \in todo'[c] <=> n \in In(c, k) BY <1>2, <1>5
    <3> QED BY <1>2, <3>1, <3>2 DEF Count
  <2>4. Cardinality(In(c, k) \ {n}) =
          IF n \in In(c, k) THEN Cardinality(In(c, k)) - 1 ELSE Cardinality(In(c, k))
    <3>1. IsFiniteSet(In(c, k)) BY InFinite
    <3> QED BY <3>1, CardRemove, Zenon
  <2>5. Cardinality(In(c, k)) \in Nat BY InFinite
  <2> QED BY <2>2, <2>3, <2>4, <2>5, SMT
<1>7. SUFFICES ASSUME NEW d \in CPU, NEW k \in Locks PROVE NestingAt(d, k)'
  BY DEF Nesting
<1>k. NestingAt(d, k) BY Zenon DEF Nesting
<1>8. CASE d # c BY <1>8, <1>2, <1>3, <1>k, Zenon DEF NestingAt
<1>9. CASE d = c BY <1>9, <1>2, <1>4, <1>5, <1>6, <1>k, Zenon DEF NestingAt
<1> QED BY <1>8, <1>9

LEMMA NestingLeaveInner ==
    ASSUME SetFacts, TypeOK, Shape, Nesting, NEW c \in CPU, LeaveInner(c)
    PROVE  Nesting'
<1>1. PICK l \in Locks : l = Highest(todo[c]) /\ l \in todo[c] BY CurrentLock DEF LeaveInner
<1>n. \A d \in CPU : NestingAt(d, l) BY DEF Nesting
<1>2. /\ pc[c] = "leave" /\ pc'[c] \in {"run", "leave"} /\ todo'[c] = todo[c] \ {l}
      /\ pc'[c] = "run" => todo[c] = {l}
      /\ depth[l] > 1 /\ depth'[l] = depth[l] - 1
      /\ \A d \in CPU \ {c} : pc'[d] = pc[d] /\ todo'[d] = todo[d]
      /\ \A k \in Locks \ {l} : depth'[k] = depth[k]
      /\ UNCHANGED <<own, held, regions>>
  BY <1>1 DEF LeaveInner, Left, TypeOK
<1>3. \A d \in CPU : \A k \in Locks : In(d, k)' = In(d, k)
  BY <1>2 DEF In
<1>4. \A d \in CPU \ {c} : \A k \in Locks : Count(d, k)' = Count(d, k)
  BY <1>2, <1>3, Zenon DEF Count
<1>5. \A k \in Locks \ {l} : Count(c, k)' = Count(c, k)
  BY <1>2, <1>3 DEF Count
<1>6. Count(c, l) = Cardinality(In(c, l)) + 1 /\ Count(c, l)' = Cardinality(In(c, l)) + 0
  BY <1>1, <1>2, <1>3, Zenon DEF Count
<1>7. own[l] = c /\ depth[l] = Count(c, l) /\ depth[l] \in Nat
  BY <1>1, <1>2, <1>n, Zenon DEF NestingAt, TypeOK
<1>8. depth'[l] = Count(c, l)' /\ depth'[l] > 0
  <2>1. Cardinality(In(c, l)) \in Nat BY InFinite
  <2>2. depth[l] > 1 /\ depth'[l] = depth[l] - 1 BY <1>2
  <2>3. Count(c, l)' = depth[l] - 1 BY <2>1, <1>6, <1>7
  <2> QED BY <2>2, <2>3, <1>7
<1>9. SUFFICES ASSUME NEW d \in CPU, NEW k \in Locks PROVE NestingAt(d, k)'
  BY DEF Nesting
<1>k. NestingAt(d, k) BY DEF Nesting
<1>10. CASE k # l
  <2>1. CASE d # c
    <3>1. /\ In(d, k)' = In(d, k) /\ Count(d, k)' = Count(d, k)
          /\ pc'[d] = pc[d] /\ todo'[d] = todo[d]
      BY <1>2, <1>3, <1>4, <2>1, Zenon
    <3>2. depth'[k] = depth[k] /\ own'[k] = own[k] /\ held'[k] = held[k] BY <1>2, <1>10, Zenon
    <3> QED BY <3>1, <3>2, <1>k, Zenon DEF NestingAt
  <2>2. CASE d = c BY <2>2, <1>10, <1>2, <1>3, <1>5, <1>k, Zenon DEF NestingAt
  <2> QED BY <2>1, <2>2
<1>11. CASE k = l BY <1>11, <1>1, <1>2, <1>3, <1>7, <1>8, <1>k, Zenon DEF NestingAt
<1> QED BY <1>10, <1>11

LEMMA NestingClearHeld ==
    ASSUME SetFacts, TypeOK, Shape, Nesting, NEW c \in CPU, ClearHeld(c)
    PROVE  Nesting'
<1>1. PICK l \in Locks : l = Highest(todo[c]) /\ l \in todo[c] BY CurrentLock, Zenon DEF ClearHeld
<1>n. \A d \in CPU : NestingAt(d, l) BY DEF Nesting
<1>2. /\ pc[c] = "leave" /\ pc'[c] = "unlock" /\ own'[l] = NoCpu /\ depth[l] <= 1
      /\ \A d \in CPU \ {c} : pc'[d] = pc[d]
      /\ \A k \in Locks \ {l} : depth'[k] = depth[k] /\ own'[k] = own[k] /\ held'[k] = held[k]
      /\ UNCHANGED <<todo, regions>>
  BY <1>1, Zenon DEF ClearHeld, TypeOK
<1>3. \A d \in CPU : \A k \in Locks : In(d, k)' = In(d, k)
  BY <1>2, Zenon DEF In
<1>4. \A d \in CPU : \A k \in Locks : Count(d, k)' = Count(d, k)
  BY <1>2, <1>3, Zenon DEF Count
<1>5. own[l] = c /\ depth[l] = Count(c, l) /\ depth[l] \in Nat
  BY <1>1, <1>2, <1>n, Zenon DEF NestingAt, TypeOK
<1>6. In(c, l) = {}
  <2>1. Count(c, l) = Cardinality(In(c, l)) + 1 BY <1>1, <1>2, Zenon DEF Count
  <2>2. Cardinality(In(c, l)) \in Nat BY InFinite
  <2>3. Cardinality(In(c, l)) = 0 BY <2>1, <2>2, <1>2, <1>5, SMT
  <2> QED BY <2>3, InFinite, Zenon
<1>7. \A d \in CPU \ {c} : /\ In(d, l) = {} /\ ~(pc[d] = "leave" /\ l \in todo[d])
                            /\ ~(pc[d] = "unlock" /\ l \in todo[d] /\ l # Highest(todo[d]))
  BY <1>1, <1>5, <1>n DEF NestingAt
<1>8. \A d \in CPU : NoCpu # d BY LockAssumption, Zenon
<1>9. SUFFICES ASSUME NEW d \in CPU, NEW k \in Locks PROVE NestingAt(d, k)'
  BY DEF Nesting
<1>k. NestingAt(d, k) BY DEF Nesting
<1>10. CASE k # l BY <1>10, <1>1, <1>2, <1>3, <1>4, <1>k, Zenon DEF NestingAt
<1>11. CASE k = l
  <2>1. CASE d # c BY <1>11, <2>1, <1>2, <1>3, <1>7, <1>8, Zenon DEF NestingAt
  <2>2. CASE d = c BY <1>11, <2>2, <1>1, <1>2, <1>3, <1>6, <1>8, Zenon DEF NestingAt
  <2> QED BY <2>1, <2>2
<1> QED BY <1>10, <1>11

LEMMA NestingServeNext ==
    ASSUME SetFacts, TypeOK, Shape, Queue, Nesting, NEW c \in CPU, ServeNext(c)
    PROVE  Nesting'
<1>1. PICK l \in Locks : l = Highest(todo[c]) /\ l \in todo[c] BY CurrentLock, Zenon DEF ServeNext
<1>l. QueueAt(l) BY DEF Queue
<1>n. \A d \in CPU : NestingAt(d, l) BY DEF Nesting
<1>2. /\ pc[c] = "unlock" /\ pc'[c] \in {"run", "leave"} /\ todo'[c] = todo[c] \ {l}
      /\ pc'[c] = "run" => todo[c] = {l}
      /\ own[l] = NoCpu
      /\ \A d \in CPU \ {c} : pc'[d] = pc[d] /\ todo'[d] = todo[d]
      /\ UNCHANGED <<own, held, depth, regions>>
  BY <1>1, <1>l, Zenon DEF ServeNext, Left, TypeOK, QueueAt
<1>3. \A d \in CPU : \A k \in Locks : In(d, k)' = In(d, k)
  BY <1>2 DEF In
<1>4. \A d \in CPU \ {c} : \A k \in Locks : Count(d, k)' = Count(d, k)
  BY <1>2, <1>3, Zenon DEF Count
<1>5. \A k \in Locks \ {l} : Count(c, k)' = Count(c, k)
  BY <1>2, <1>3 DEF Count
<1>6. \A d \in CPU : NoCpu # d BY LockAssumption, Zenon
<1>7. SUFFICES ASSUME NEW d \in CPU, NEW k \in Locks PROVE NestingAt(d, k)'
  BY DEF Nesting
<1>k. NestingAt(d, k) BY DEF Nesting
<1>8. CASE d # c BY <1>8, <1>2, <1>3, <1>4, <1>k, Zenon DEF NestingAt
<1>9. CASE d = c /\ k # l BY <1>9, <1>1, <1>2, <1>3, <1>5, <1>k, Zenon DEF NestingAt
<1>10. CASE d = c /\ k = l BY <1>10, <1>1, <1>2, <1>3, <1>6, <1>k, Zenon DEF NestingAt
<1> QED BY <1>8, <1>9, <1>10, Zenon

LEMMA IInvInit ==
    ASSUME SetFacts
    PROVE  Init => IInv
<1> SUFFICES ASSUME Init PROVE IInv
  OBVIOUS
<1>1. TypeOK /\ Shape BY TypeInit
<1>2. \A c \in CPU : NoCpu # c BY LockAssumption
<1>3. \A c \in CPU : pc[c] = "run" /\ regions[c] = <<>> /\ \A l \in Locks : own[l] # c
  BY <1>2, Zenon DEF Init
<1>4. Nesting BY <1>3 DEF Nesting, NestingAt, In
<1>5. \A l \in Locks : Users(l) = {} BY <1>3 DEF Users, Waits, Hold
<1>6. \A l \in Locks : Dist(l, next[l]) = 0
  BY LockAssumption, SMT DEF Init, Dist
<1>7. Queue
  <2>1. Cardinality({}) = 0 BY CardEmpty
  <2>2. \A c \in CPU : \A l \in Locks : ~Waits(c, l) /\ ~Hold(c, l) BY <1>3 DEF Waits, Hold
  <2>3. SUFFICES ASSUME NEW l \in Locks PROVE QueueAt(l)
    BY DEF Queue
  <2>4. Dist(l, next[l]) = Cardinality(Users(l)) BY <1>5, <1>6, <2>1, Zenon
  <2>5. \A c \in CPU : ~Waits(c, l) /\ ~Hold(c, l) /\ pc[c] # "unlock" BY <1>3, <2>2
  <2> QED BY <2>4, <2>5 DEF QueueAt
<1> QED BY <1>1, <1>4, <1>7 DEF IInv

LEMMA IInvStep ==
    ASSUME SetFacts
    PROVE  IInv /\ [Next]_vars => IInv'
<1> SUFFICES ASSUME IInv, [Next]_vars PROVE IInv'
  OBVIOUS
<1>1. TypeOK /\ Shape /\ Queue /\ Nesting BY DEF IInv
<1>2. TypeOK' /\ Shape' BY <1>1, TypeStep
<1>3. ASSUME NEW c \in CPU, NEW R \in Regions, Enter(c, R) PROVE Queue' /\ Nesting'
  <2>1. Queue' BY <1>1, <1>3, QueueQuiet DEF Enter, TypeOK
  <2> QED BY <1>1, <1>3, <2>1, NestingEnter, Zenon
<1>4. ASSUME NEW c \in CPU, Step(c) PROVE Queue' /\ Nesting'
  <2>1. CASE EnterAgain(c)
    <3>1. Queue' BY <1>1, <2>1, QueueQuiet, Zenon DEF EnterAgain, Entered, TypeOK
    <3> QED BY <1>1, <2>1, <3>1, NestingEnterAgain, Zenon
  <2>2. CASE DrawTicket(c) BY <1>1, <2>2, QueueDrawTicket, NestingDrawTicket, Zenon
  <2>3. CASE Acquire(c) BY <1>1, <2>3, QueueAcquire, NestingAcquire, Zenon
  <2>4. CASE Leave(c)
    <3>1. Queue' BY <1>1, <2>4, QueueQuiet, Zenon DEF Leave, TypeOK
    <3> QED BY <1>1, <2>4, <3>1, NestingLeave
  <2>5. CASE LeaveInner(c)
    <3>1. Queue' BY <1>1, <2>5, QueueQuiet, Zenon DEF LeaveInner, Left, TypeOK
    <3> QED BY <1>1, <2>5, <3>1, NestingLeaveInner
  <2>6. CASE ClearHeld(c) BY <1>1, <2>6, QueueClearHeld, NestingClearHeld, Zenon
  <2>7. CASE ServeNext(c) BY <1>1, <2>7, QueueServeNext, NestingServeNext
  <2> QED BY <1>4, <2>1, <2>2, <2>3, <2>4, <2>5, <2>6, <2>7, Zenon DEF Step
<1>5. CASE UNCHANGED vars
  <2>1. Queue' BY <1>1, <1>5, QueueQuiet, Zenon DEF vars
  <2>2. Nesting'
    <3>1. \A c \in CPU : \A k \in Locks : In(c, k)' = In(c, k)
      BY <1>5, Zenon DEF vars, In
    <3>2. \A c \in CPU : \A k \in Locks : Count(c, k)' = Count(c, k)
      BY <1>5, <3>1 DEF vars, Count
    <3>3. SUFFICES ASSUME NEW c \in CPU, NEW k \in Locks PROVE NestingAt(c, k)'
      BY DEF Nesting
    <3>4. NestingAt(c, k) BY <1>1 DEF Nesting
    <3> QED BY <1>5, <3>1, <3>2, <3>4, Zenon DEF vars, NestingAt
  <2> QED BY <2>1, <2>2, <1>2, Zenon DEF IInv
<1> QED BY <1>2, <1>3, <1>4, <1>5 DEF Next, IInv
----------------------------------------------------------------------------
(* The library proves what the lemmas take as a hypothesis. *)
LEMMA SetFactsHold == SetFacts
<1>1. \A S : IsFiniteSet(S) => Cardinality(S) \in Nat /\ (Cardinality(S) = 0 <=> S = {})
  BY FS_CardinalityType, FS_EmptySet
<1>2. \A S, x : IsFiniteSet(S) =>
        /\ IsFiniteSet(S \cup {x})
        /\ x \notin S => Cardinality(S \cup {x}) = Cardinality(S) + 1
  BY FS_AddElement
<1>3. \A S, x : IsFiniteSet(S) =>
        /\ IsFiniteSet(S \ {x})
        /\ Cardinality(S \ {x}) = IF x \in S THEN Cardinality(S) - 1 ELSE Cardinality(S)
  BY FS_RemoveElement
<1>4. \A x : Cardinality({x}) = 1
  BY FS_Singleton, Zenon
<1>5. \A S : \A T \in SUBSET S : IsFiniteSet(S) =>
        IsFiniteSet(T) /\ Cardinality(T) <= Cardinality(S)
  BY FS_Subset
<1>6. \A n \in Nat : IsFiniteSet(1 .. n)
  BY FS_Interval
<1>7. ASSUME NEW S \in SUBSET Nat, S # {} PROVE \E x \in S : \A y \in S : x <= y
  <2>1. \E x \in S : \A y \in S : ~(<<y, x>> \in OpToRel(<, Nat))
    BY <1>7, NatLessThanWellFounded, WFMin, Zenon
  <2>2. PICK x \in S : \A y \in S : ~(<<y, x>> \in OpToRel(<, Nat))
    BY <2>1, Zenon
  <2>3. SUFFICES ASSUME NEW y \in S, y < x PROVE FALSE
    BY <1>7
  <2>4. <<y, x>> \in OpToRel(<, Nat)
    BY <2>3 DEF OpToRel
  <2> QED BY <2>2, <2>4, Zenon
<1> QED BY <1>1, <1>2, <1>3, <1>4, <1>5, <1>6, <1>7, FS_EmptySet, Zenon DEF SetFacts

(* Type correctness of the lock words, for every number of cpus, buckets,  *)
(* nestings and every ticket width.                                        *)
THEOREM TypeCorrect == Spec => []TypeOK
<1>1. Init => TypeOK /\ Shape BY SetFactsHold, TypeInit
<1>2. TypeOK /\ Shape /\ [Next]_vars => TypeOK' /\ Shape' BY SetFactsHold, TypeStep
<1> QED BY <1>1, <1>2, PTL DEF Spec

LEMMA Invariance == Spec => []IInv
<1>1. Init => IInv BY SetFactsHold, IInvInit
<1>2. IInv /\ [Next]_vars => IInv' BY SetFactsHold, IInvStep, Zenon
<1> QED BY <1>1, <1>2, PTL DEF Spec

LEMMA InsideOwns ==
    ASSUME IInv, NEW c \in CPU, NEW l \in Locks, Inside(c, l)
    PROVE  own[l] = c /\ held[l]
<1>1. In(c, l) # {} BY DEF Inside, In
<1> QED BY <1>1, Zenon DEF IInv, Nesting, NestingAt

(* No two cpus are ever inside regions that share a lock, for every number *)
(* of cpus and buckets, however regions nest and tickets wrap: ipcbucket   *)
(* ownership with lock()'s ticket order.                                   *)
THEOREM MutexCorrect == Spec => []MutualExclusion
<1>1. IInv => MutualExclusion
  BY InsideOwns, Zenon DEF MutualExclusion
<1> QED BY <1>1, Invariance, PTL, Zenon

(* holding() is true of every lock a cpu is inside, though held is written *)
(* with plain stores around the ticket handover.                           *)
THEOREM HoldingCorrect == Spec => []HoldingSound
<1>1. IInv => HoldingSound
  BY InsideOwns, Zenon DEF HoldingSound
<1> QED BY <1>1, Invariance, PTL

(* A cpu outside every region owns no bucket: depth counts the regions     *)
(* that cover a bucket exactly, so the outermost leave releases it.        *)
THEOREM NoBucketCorrect == Spec => []NoBucketHeld
<1>1. IInv => NoBucketHeld
  <2>1. SUFFICES ASSUME IInv, NEW c \in CPU, pc[c] = "run", regions[c] = <<>>,
                        NEW l \in Locks, own[l] = c
        PROVE FALSE
    BY Zenon DEF NoBucketHeld
  <2>2. depth[l] = Count(c, l) /\ depth[l] > 0 BY <2>1 DEF IInv, Nesting, NestingAt
  <2>3. In(c, l) = {} BY <2>1 DEF In
  <2>4. Count(c, l) = 0 BY <2>1, <2>3, FS_EmptySet DEF Count
  <2> QED BY <2>2, <2>4
<1> QED BY <1>1, Invariance, PTL

(* The three together, which is what the kernel's lock asserts rely on:     *)
(* ipclock_enter and ipclock_leave keep them for every machine.             *)
THEOREM LockCorrect == Spec => []LockSound
<1>1. MutualExclusion /\ HoldingSound /\ NoBucketHeld => LockSound
  BY DEF LockSound
<1> QED BY <1>1, MutexCorrect, HoldingCorrect, NoBucketCorrect, PTL, Zenon
----------------------------------------------------------------------------
(* A lock at which a step moves nobody is, to FifoLock, as it was. *)
Still(k) == Users(k)' = Users(k) /\ Order(k)' = Order(k) /\ Holders(k)' = Holders(k)

LEMMA StillAt ==
    ASSUME NEW k \in Locks, owner'[k] = owner[k],
           \A d \in CPU : /\ Waits(d, k)' <=> Waits(d, k)
                          /\ Hold(d, k)' <=> Hold(d, k)
                          /\ Waits(d, k) => ticket'[d] = ticket[d]
    PROVE  Still(k)
<1>1. Users(k)' = Users(k) /\ Holders(k)' = Holders(k)
  BY Zenon DEF Users, Holders
<1>2. \A d \in Users(k) : d \in CPU /\ (Waits(d, k) \/ Hold(d, k))
  BY Zenon DEF Users
<1>3. \A d \in Users(k) : Place(d, k)' = Place(d, k)
  BY <1>2, Zenon DEF Place, Dist
<1>4. \A p \in Users(k) \X Users(k) : p[1] \in Users(k) /\ p[2] \in Users(k)
  BY SMT
<1>5. Order(k)' = Order(k)
  <2>1. \A p \in Users(k) \X Users(k) :
           (Place(p[1], k) < Place(p[2], k))' <=> Place(p[1], k) < Place(p[2], k)
    BY <1>3, <1>4, Zenon
  <2> QED BY <1>1, <2>1, Zenon DEF Order
<1> QED BY <1>1, <1>5, Zenon DEF Still

(* How far the users of a lock are from being served. *)
LEMMA Places ==
    ASSUME SetFacts, TypeOK, Queue, NEW l \in Locks
    PROVE  /\ Dist(l, next[l]) \in Nat
           /\ \A d \in Users(l) : Place(d, l) \in Nat /\ Place(d, l) < Dist(l, next[l])
<1>0. /\ ticket \in [CPU -> Tickets] /\ next \in [Locks -> Tickets] /\ QueueAt(l)
      /\ TicketMod \in Nat
  BY LockAssumption, Zenon DEF TypeOK, Queue
<1>1. next[l] \in Tickets
  BY <1>0, Zenon
<1>2. Dist(l, next[l]) \in 0 .. (TicketMod - 1)
  BY <1>1, DistFacts, Zenon
<1>3. Dist(l, next[l]) \in Nat
  BY <1>0, <1>2, SMT
<1>4. ASSUME NEW d \in Users(l) PROVE Place(d, l) \in Nat /\ Place(d, l) < Dist(l, next[l])
  <2>1. d \in CPU /\ (Waits(d, l) \/ Hold(d, l))
    BY <1>4, Zenon DEF Users
  <2>2. CASE Hold(d, l)
    <3>1. Place(d, l) = 0
      BY <2>2, Zenon DEF Place
    <3>2. Cardinality(Users(l)) > 0 /\ Dist(l, next[l]) = Cardinality(Users(l))
      BY <1>0, <1>4, UsersFinite, Zenon DEF QueueAt
    <3> QED BY <3>1, <3>2, SMT
  <2>3. CASE ~Hold(d, l)
    <3>1. Waits(d, l) /\ Place(d, l) = Dist(l, ticket[d])
      BY <2>1, <2>3, Zenon DEF Place
    <3>2. Place(d, l) < Dist(l, next[l])
      BY <1>0, <2>1, <3>1, Zenon DEF QueueAt
    <3>3. ticket[d] \in Tickets
      BY <1>0, <2>1, Zenon
    <3>4. Place(d, l) \in 0 .. (TicketMod - 1)
      BY <3>1, <3>3, DistFacts, Zenon
    <3> QED BY <1>0, <3>2, <3>4, SMT
  <2> QED BY <2>2, <2>3
<1> QED BY <1>3, <1>4

(* A step that is a step of FifoLock at one lock, and leaves the others. *)
LEMMA AtOne ==
    ASSUME NEW l \in Locks, \A k \in Locks \ {l} : Still(k)
    PROVE  /\ [k \in Locks |-> Users(k)'] = [[k \in Locks |-> Users(k)] EXCEPT ![l] = Users(l)']
           /\ [k \in Locks |-> Order(k)'] = [[k \in Locks |-> Order(k)] EXCEPT ![l] = Order(l)']
           /\ [k \in Locks |-> Holders(k)'] = [[k \in Locks |-> Holders(k)] EXCEPT ![l] = Holders(l)']
BY Zenon DEF Still

(* lock()'s fetch_add is an Ask: the ticket drawn is behind all in use. *)
LEMMA DrawAsks ==
    ASSUME SetFacts, IInv, NEW c \in CPU, DrawTicket(c)
    PROVE  \E l \in Locks : Fifo!Ask(c, l)
<1>0. TypeOK /\ Shape /\ Queue
  BY Zenon DEF IInv
<1>1. PICK l \in Locks : l = Lowest(todo[c])
  BY <1>0, CurrentLock DEF DrawTicket
<1>2. /\ pc[c] = "enter" /\ own[l] # c /\ own' = own /\ owner' = owner /\ todo' = todo
      /\ ticket' = [ticket EXCEPT ![c] = next[l]] /\ pc' = [pc EXCEPT ![c] = "spin"]
      /\ ticket \in [CPU -> Tickets] /\ pc \in [CPU -> PC]
  BY <1>0, <1>1, Zenon DEF DrawTicket, TypeOK
<1>3. /\ pc'[c] = "spin" /\ ticket'[c] = next[l]
      /\ \A d \in CPU \ {c} : pc'[d] = pc[d] /\ ticket'[d] = ticket[d]
  BY <1>2, Zenon
<1>4. "enter" # "spin" /\ "enter" # "unlock" /\ "spin" # "unlock"
  OBVIOUS
<1>5. \A d \in CPU : \A k \in Locks : Hold(d, k)' <=> Hold(d, k)
  BY <1>2, <1>3, <1>4, Zenon DEF Hold
<1>6. ~Waits(c, l) /\ ~Hold(c, l) /\ Waits(c, l)'
  BY <1>1, <1>2, <1>3, <1>4, Zenon DEF Waits, Hold
<1>7. \A d \in CPU \ {c} : \A k \in Locks : Waits(d, k)' <=> Waits(d, k)
  BY <1>2, <1>3, Zenon DEF Waits
<1>8. \A k \in Locks \ {l} : ~Waits(c, k) /\ ~Waits(c, k)'
  BY <1>1, <1>2, <1>4, Zenon DEF Waits
<1>9. \A k \in Locks \ {l} : Still(k)
  BY <1>2, <1>3, <1>5, <1>7, <1>8, StillAt, Zenon
<1>10. c \notin Users(l) /\ Users(l)' = Users(l) \cup {c} /\ Holders(l)' = Holders(l)
  BY <1>5, <1>6, <1>7, Zenon DEF Users, Holders
<1>11. \A d \in Users(l) : Place(d, l)' = Place(d, l)
  <2>1. \A d \in Users(l) : d \in CPU /\ d # c
    BY <1>10, Zenon DEF Users
  <2> QED BY <1>2, <1>3, <1>5, <2>1, Zenon DEF Place, Dist
<1>12. Place(c, l)' = Dist(l, next[l])
  BY <1>2, <1>3, <1>5, <1>6, Zenon DEF Place, Dist
<1>13. Order(l)' = Order(l) \cup (Users(l) \X {c})
  <2>1. /\ Dist(l, next[l]) \in Nat
        /\ \A d \in Users(l) : Place(d, l) \in Nat /\ Place(d, l) < Dist(l, next[l])
    BY <1>0, Places, Zenon
  <2>2. \A d, e \in Users(l) \cup {c} : Place(d, l)' < Place(e, l)' <=>
           \/ d \in Users(l) /\ e \in Users(l) /\ Place(d, l) < Place(e, l)
           \/ d \in Users(l) /\ e = c
    BY <1>10, <1>11, <1>12, <2>1, SMT
  <2>3. Order(l)' = {p \in (Users(l) \cup {c}) \X (Users(l) \cup {c}) :
                        Place(p[1], l)' < Place(p[2], l)'}
    BY <1>10, Zenon DEF Order
  <2>4. \A p \in (Users(l) \cup {c}) \X (Users(l) \cup {c}) :
           Place(p[1], l)' < Place(p[2], l)' <=>
              \/ p[1] \in Users(l) /\ p[2] \in Users(l) /\ Place(p[1], l) < Place(p[2], l)
              \/ p[1] \in Users(l) /\ p[2] = c
    BY <2>2
  <2> DEFINE U == Users(l)
             Less(d, e) == Place(d, l) < Place(e, l)
             After(d, e) == Place(d, l)' < Place(e, l)'
  <2>5. {p \in (U \cup {c}) \X (U \cup {c}) : After(p[1], p[2])} =
           {p \in U \X U : Less(p[1], p[2])} \cup (U \X {c})
    <3>1. \A p \in (U \cup {c}) \X (U \cup {c}) :
             After(p[1], p[2]) <=>
                \/ p[1] \in U /\ p[2] \in U /\ Less(p[1], p[2])
                \/ p[1] \in U /\ p[2] = c
      BY <2>4
    <3> HIDE DEF U, Less, After
    <3> QED BY <3>1
  <2> QED BY <2>3, <2>5 DEF Order
<1> DEFINE line == [k \in Locks |-> Users(k)]
           before == [k \in Locks |-> Order(k)]
<1>14. /\ line[l] = Users(l) /\ before[l] = Order(l)
       /\ [k \in Locks |-> Users(k)'] = [line EXCEPT ![l] = Users(l)']
       /\ [k \in Locks |-> Order(k)'] = [before EXCEPT ![l] = Order(l)']
       /\ [k \in Locks |-> Holders(k)'] = [[k \in Locks |-> Holders(k)] EXCEPT ![l] = Holders(l)']
  BY <1>9, AtOne, Zenon
<1>15. [k \in Locks |-> Holders(k)'] = [k \in Locks |-> Holders(k)]
  BY <1>9, <1>10, Zenon DEF Still
<1>16. Fifo!Ask(c, l)
  BY <1>10, <1>13, <1>14, <1>15, Zenon DEF Fifo!Ask
<1> QED BY <1>16

(* lock()'s load that finds the ticket served is a LetIn: nobody is inside, *)
(* and nobody is before.                                                   *)
LEMMA AcquireLetsIn ==
    ASSUME SetFacts, IInv, NEW c \in CPU, Acquire(c)
    PROVE  \E l \in Locks : Fifo!LetIn(c, l)
<1>0. TypeOK /\ Shape /\ Queue
  BY Zenon DEF IInv
<1>1. PICK l \in Locks : l = Lowest(todo[c])
  BY <1>0, CurrentLock DEF Acquire
<1>2. /\ pc[c] = "spin" /\ owner[l] = ticket[c] /\ own' = [own EXCEPT ![l] = c]
      /\ owner' = owner /\ ticket' = [ticket EXCEPT ![c] = 0]
      /\ \E at \in {"run", "enter"} : pc' = [pc EXCEPT ![c] = at]
      /\ \E T : todo' = [todo EXCEPT ![c] = T]
      /\ own \in [Locks -> CPU \cup {NoCpu}] /\ pc \in [CPU -> PC]
      /\ ticket \in [CPU -> Tickets] /\ todo \in [CPU -> SUBSET Locks]
  BY <1>0, <1>1, Zenon DEF Acquire, Entered, TypeOK
<1>3. pc'[c] # "spin" /\ pc'[c] # "unlock"
  BY <1>2
<1>4. \A d \in CPU \ {c} : pc'[d] = pc[d] /\ todo'[d] = todo[d] /\ ticket'[d] = ticket[d]
  BY <1>2, Zenon
<1>5. own'[l] = c /\ \A k \in Locks \ {l} : own'[k] = own[k]
  BY <1>2, Zenon
<1>6. Waits(c, l) /\ \A d \in CPU : ~Hold(d, l)
  <2>1. Waits(c, l)
    BY <1>1, <1>2, Zenon DEF Waits
  <2> QED BY <1>0, <1>2, <2>1, Zenon DEF Queue, QueueAt
<1>7. \A k \in Locks : ~Waits(c, k)'
  BY <1>3, Zenon DEF Waits
<1>8. \A d \in CPU \ {c} : \A k \in Locks : Waits(d, k)' <=> Waits(d, k)
  BY <1>4, Zenon DEF Waits
<1>9. \A k \in Locks \ {l} : Still(k)
  <2>1. \A k \in Locks \ {l} : ~Waits(c, k)
    BY <1>1, Zenon DEF Waits
  <2>2. "spin" # "unlock"
    OBVIOUS
  <2>3. \A d \in CPU : \A k \in Locks \ {l} : Hold(d, k)' <=> Hold(d, k)
    BY <1>2, <1>3, <1>4, <1>5, <2>2, Zenon DEF Hold
  <2> QED BY <1>2, <1>4, <1>7, <1>8, <2>1, <2>3, StillAt, Zenon
<1>10. Hold(c, l)' /\ \A d \in CPU \ {c} : ~Hold(d, l)'
  BY <1>4, <1>5, <1>6, Zenon DEF Hold
<1>11. Holders(l) = {} /\ Holders(l)' = {c} /\ Users(l)' = Users(l) /\ c \in Users(l)
  BY <1>6, <1>7, <1>8, <1>10, Zenon DEF Holders, Users
<1>12. Place(c, l) = 0 /\ Place(c, l)' = 0
  <2>1. ticket[c] \in Tickets
    BY <1>2, Zenon
  <2>2. Dist(l, ticket[c]) = 0
    BY <1>0, <1>2, <2>1, DistFacts, Zenon
  <2> QED BY <1>6, <1>10, <2>2, Zenon DEF Place
<1>13. \A d \in Users(l) : Place(d, l)' = Place(d, l)
  <2>1. \A d \in Users(l) : d \in CPU
    BY Zenon DEF Users
  <2>2. \A d \in CPU \ {c} : Place(d, l)' = Place(d, l)
    BY <1>2, <1>4, <1>6, <1>10, Zenon DEF Place, Dist
  <2> QED BY <1>12, <2>1, <2>2, Zenon
<1>14. Order(l)' = Order(l)
  <2>1. \A p \in Users(l) \X Users(l) : p[1] \in Users(l) /\ p[2] \in Users(l)
    BY SMT
  <2>2. \A p \in Users(l) \X Users(l) :
           (Place(p[1], l) < Place(p[2], l))' <=> Place(p[1], l) < Place(p[2], l)
    BY <1>13, <2>1, Zenon
  <2> QED BY <1>11, <2>2, Zenon DEF Order
<1>15. \A d \in Users(l) : <<d, c>> \notin Order(l)
  <2>1. \A d \in Users(l) : Place(d, l) \in Nat
    BY <1>0, Places, Zenon
  <2>2. \A d \in Users(l) : ~(Place(d, l) < Place(c, l))
    BY <1>12, <2>1, SMT
  <2> QED BY <2>2 DEF Order
<1> DEFINE line == [k \in Locks |-> Users(k)]
           before == [k \in Locks |-> Order(k)]
           inside == [k \in Locks |-> Holders(k)]
<1>16. /\ line[l] = Users(l) /\ before[l] = Order(l) /\ inside[l] = Holders(l)
       /\ [k \in Locks |-> Holders(k)'] = [inside EXCEPT ![l] = Holders(l)']
  BY <1>9, AtOne, Zenon
<1>17. [k \in Locks |-> Users(k)'] = line /\ [k \in Locks |-> Order(k)'] = before
  BY <1>9, <1>11, <1>14, Zenon DEF Still
<1>18. Fifo!LetIn(c, l)
  BY <1>11, <1>15, <1>16, <1>17, Zenon DEF Fifo!LetIn
<1> QED BY <1>18

(* unlock()'s release store is a LetOut: the one inside goes, and everybody *)
(* else moves up by one.                                                   *)
LEMMA ServeLetsOut ==
    ASSUME SetFacts, IInv, NEW c \in CPU, ServeNext(c)
    PROVE  \E l \in Locks : Fifo!LetOut(c, l)
<1>0. TypeOK /\ Shape /\ Queue
  BY Zenon DEF IInv
<1>1. PICK l \in Locks : l = Highest(todo[c])
  BY <1>0, CurrentLock DEF ServeNext
<1>q. QueueAt(l)
  BY <1>0, Zenon DEF Queue
<1>2. /\ pc[c] = "unlock" /\ owner' = [owner EXCEPT ![l] = Inc(owner[l])]
      /\ own' = own /\ ticket' = ticket
      /\ \E at \in {"run", "leave"} : pc' = [pc EXCEPT ![c] = at]
      /\ \E T : todo' = [todo EXCEPT ![c] = T]
      /\ owner \in [Locks -> Tickets] /\ pc \in [CPU -> PC]
      /\ ticket \in [CPU -> Tickets] /\ todo \in [CPU -> SUBSET Locks]
  BY <1>0, <1>1, Zenon DEF ServeNext, Left, TypeOK
<1>3. pc'[c] # "spin" /\ pc'[c] # "unlock"
  BY <1>2
<1>4. \A d \in CPU \ {c} : pc'[d] = pc[d] /\ todo'[d] = todo[d]
  BY <1>2, Zenon
<1>5. owner'[l] = Inc(owner[l]) /\ \A k \in Locks \ {l} : owner'[k] = owner[k]
  BY <1>2, Zenon
<1>6. Hold(c, l) /\ own[l] = NoCpu /\ \A d \in CPU \ {c} : ~Hold(d, l)
  BY <1>1, <1>2, <1>q, Zenon DEF Hold, QueueAt
<1>7. \A k \in Locks : ~Waits(c, k)' /\ ~Waits(c, k)
  <2>1. "unlock" # "spin"
    OBVIOUS
  <2> QED BY <1>2, <1>3, <2>1, Zenon DEF Waits
<1>8. \A d \in CPU \ {c} : \A k \in Locks : Waits(d, k)' <=> Waits(d, k)
  BY <1>4, Zenon DEF Waits
<1>9. \A k \in Locks \ {l} : Still(k)
  <2>1. \A d \in CPU : \A k \in Locks \ {l} : Hold(d, k)' <=> Hold(d, k)
    BY <1>1, <1>2, <1>3, <1>4, Zenon DEF Hold
  <2> QED BY <1>2, <1>5, <1>7, <1>8, <2>1, StillAt, Zenon
<1>10. \A d \in CPU : ~Hold(d, l)'
  <2>1. NoCpu \notin CPU
    BY LockAssumption, Zenon
  <2> QED BY <1>2, <1>3, <1>4, <1>6, <2>1, Zenon DEF Hold
<1>11. Holders(l) = {c} /\ Holders(l)' = {} /\ Users(l)' = Users(l) \ {c}
  BY <1>6, <1>7, <1>8, <1>10, Zenon DEF Holders, Users
<1>12. \A d \in Users(l) \ {c} : Place(d, l) \in Int /\ Place(d, l)' = Place(d, l) - 1
  <2> SUFFICES ASSUME NEW d \in Users(l) \ {c}
               PROVE  Place(d, l) \in Int /\ Place(d, l)' = Place(d, l) - 1
    BY Zenon
  <2>1. d \in CPU \ {c} /\ Waits(d, l)
    BY <1>6, Zenon DEF Users
  <2>2. Place(d, l) = Dist(l, ticket[d]) /\ Place(d, l)' = Dist(l, ticket[d])'
    BY <1>6, <1>10, <2>1, Zenon DEF Place
  <2>3. ticket[d] # owner[l] /\ ticket[d] \in Tickets /\ owner[l] \in Tickets
    BY <1>2, <1>6, <1>q, <2>1, Zenon DEF QueueAt
  <2>4. TicketMod \in Nat
    BY LockAssumption, Zenon
  <2>5. ticket'[d] = ticket[d] /\ owner'[l] = Inc(owner[l])
    BY <1>2, <1>5, Zenon
  <2> QED BY <2>2, <2>3, <2>4, <2>5, SMT DEF Dist, Tickets, Inc
<1>13. Order(l)' = {p \in Order(l) : p[1] # c /\ p[2] # c}
  <2> DEFINE U == Users(l)
             Less(d, e) == Place(d, l) < Place(e, l)
             After(d, e) == Place(d, l)' < Place(e, l)'
  <2>1. \A d, e \in U \ {c} : After(d, e) <=> Less(d, e)
    BY <1>12, SMT
  <2>2. {p \in (U \ {c}) \X (U \ {c}) : After(p[1], p[2])} =
           {p \in {p \in U \X U : Less(p[1], p[2])} : p[1] # c /\ p[2] # c}
    <3> HIDE DEF U, Less, After
    <3> QED BY <2>1
  <2>3. Order(l)' = {p \in (U \ {c}) \X (U \ {c}) : After(p[1], p[2])}
    BY <1>11, Zenon DEF Order
  <2> QED BY <2>2, <2>3, Zenon DEF Order
<1> DEFINE line == [k \in Locks |-> Users(k)]
           before == [k \in Locks |-> Order(k)]
           inside == [k \in Locks |-> Holders(k)]
<1>14. /\ line[l] = Users(l) /\ before[l] = Order(l) /\ inside[l] = Holders(l)
       /\ [k \in Locks |-> Users(k)'] = [line EXCEPT ![l] = Users(l)']
       /\ [k \in Locks |-> Order(k)'] = [before EXCEPT ![l] = Order(l)']
       /\ [k \in Locks |-> Holders(k)'] = [inside EXCEPT ![l] = Holders(l)']
  BY <1>9, AtOne, Zenon
<1>15. Fifo!LetOut(c, l)
  BY <1>11, <1>13, <1>14, Zenon DEF Fifo!LetOut
<1> QED BY <1>15

(* The other steps move nobody: a call begins or ends, a nested enter or   *)
(* leave counts, and the holder clears own before it passes the lock on.   *)
LEMMA OthersStill ==
    ASSUME SetFacts, IInv, NEW c \in CPU, Step(c) \/ (\E R \in Regions : Enter(c, R)),
           ~DrawTicket(c), ~Acquire(c), ~ServeNext(c), NEW k \in Locks
    PROVE  Still(k)
<1>0. TypeOK /\ Shape /\ Queue /\ Nesting /\ NoCpu \notin CPU
  BY LockAssumption, Zenon DEF IInv
<1>1. /\ pc \in [CPU -> PC] /\ todo \in [CPU -> SUBSET Locks]
      /\ own \in [Locks -> CPU \cup {NoCpu}]
  BY <1>0, Zenon DEF TypeOK
<1>2. CASE ClearHeld(c)
  <2>1. PICK l \in Locks : l = Highest(todo[c]) /\ l \in todo[c]
    BY <1>0, <1>2, CurrentLock DEF ClearHeld
  <2>2. /\ pc[c] = "leave" /\ own' = [own EXCEPT ![l] = NoCpu] /\ todo' = todo
        /\ pc' = [pc EXCEPT ![c] = "unlock"] /\ ticket' = ticket /\ owner' = owner
    BY <1>2, <2>1, Zenon DEF ClearHeld
  <2>3. own[l] = c
    BY <1>0, <2>1, <2>2, Zenon DEF Nesting, NestingAt
  <2>4. /\ own'[l] = NoCpu /\ \A j \in Locks \ {l} : own'[j] = own[j]
        /\ pc'[c] = "unlock" /\ \A d \in CPU \ {c} : pc'[d] = pc[d]
    BY <1>1, <2>2, Zenon
  <2>5. "leave" # "spin" /\ "leave" # "unlock" /\ "unlock" # "spin"
    OBVIOUS
  <2>6. \A d \in CPU : Waits(d, k)' <=> Waits(d, k)
    BY <2>2, <2>4, <2>5, Zenon DEF Waits
  <2>7. \A d \in CPU : Hold(d, k)' <=> Hold(d, k)
    <3>1. CASE k = l
      BY <1>0, <2>1, <2>2, <2>3, <2>4, <3>1, Zenon DEF Hold
    <3>2. CASE k # l
      BY <2>1, <2>2, <2>4, <2>5, <3>2, Zenon DEF Hold
    <3> QED BY <3>1, <3>2
  <2> QED BY <2>2, <2>6, <2>7, StillAt, Zenon
<1>3. CASE ~ClearHeld(c)
  <2>1. \/ EnterAgain(c) \/ Leave(c) \/ LeaveInner(c)
        \/ \E R \in Regions : Enter(c, R)
    BY <1>3, Zenon DEF Step
  <2>2. /\ own' = own /\ owner' = owner /\ ticket' = ticket
        /\ pc[c] \in {"run", "enter", "leave"}
        /\ \E at \in {"run", "enter", "leave"} : pc' = [pc EXCEPT ![c] = at]
        /\ \E T : todo' = [todo EXCEPT ![c] = T]
    BY <2>1, Zenon DEF EnterAgain, Entered, Leave, LeaveInner, Left, Enter
  <2>3. \A d \in CPU \ {c} : pc'[d] = pc[d] /\ todo'[d] = todo[d]
    BY <1>1, <2>2, Zenon
  <2>4. pc'[c] # "spin" /\ pc'[c] # "unlock" /\ pc[c] # "spin" /\ pc[c] # "unlock"
    BY <1>1, <2>2
  <2>5. \A d \in CPU : (Waits(d, k)' <=> Waits(d, k)) /\ (Hold(d, k)' <=> Hold(d, k))
    BY <2>2, <2>3, <2>4, Zenon DEF Waits, Hold
  <2> QED BY <2>2, <2>5, StillAt, Zenon
<1> QED BY <1>2, <1>3

(* The ticket lock of lock.h, with the owner and depth port.c keeps beside *)
(* it, implements FifoLock: on every machine, whatever the regions and     *)
(* however tickets wrap, each lock lets in one cpu at a time and in the    *)
(* order in which lock() was called.                                       *)
THEOREM FifoCorrect == Spec => LockRefines
<1>1. Init => Fifo!Init
  <2> SUFFICES ASSUME Init PROVE Fifo!Init
    OBVIOUS
  <2>1. \A c \in CPU : \A l \in Locks : ~Waits(c, l) /\ ~Hold(c, l)
    <3>1. \A c \in CPU : pc[c] = "run" /\ \A l \in Locks : own[l] = NoCpu
      BY Zenon DEF Init
    <3>2. NoCpu \notin CPU /\ "run" # "spin" /\ "run" # "unlock"
      BY LockAssumption
    <3> QED BY <3>1, <3>2, Zenon DEF Waits, Hold
  <2>2. \A l \in Locks : Users(l) = {} /\ Holders(l) = {}
    BY <2>1, Zenon DEF Users, Holders
  <2>3. \A l \in Locks : Order(l) = {}
    BY <2>2 DEF Order
  <2> QED BY <2>2, <2>3, Zenon DEF Fifo!Init
<1>2. IInv /\ [Next]_vars =>
         [Fifo!Next]_<<[l \in Locks |-> Users(l)], [l \in Locks |-> Order(l)],
                       [l \in Locks |-> Holders(l)]>>
  <2> SUFFICES ASSUME IInv, [Next]_vars
               PROVE  \/ Fifo!Next
                      \/ \A k \in Locks : Still(k)
    BY Zenon DEF Still
  <2>1. CASE UNCHANGED vars
    BY <2>1, StillAt, Zenon DEF vars, Waits, Hold
  <2>2. ASSUME NEW c \in CPU, Step(c) \/ (\E R \in Regions : Enter(c, R))
        PROVE  Fifo!Next \/ \A k \in Locks : Still(k)
    <3>1. CASE DrawTicket(c)
      BY <3>1, SetFactsHold, DrawAsks, Zenon DEF Fifo!Next
    <3>2. CASE Acquire(c)
      BY <3>2, SetFactsHold, AcquireLetsIn, Zenon DEF Fifo!Next
    <3>3. CASE ServeNext(c)
      BY <3>3, SetFactsHold, ServeLetsOut, Zenon DEF Fifo!Next
    <3>4. CASE ~DrawTicket(c) /\ ~Acquire(c) /\ ~ServeNext(c)
      BY <2>2, <3>4, SetFactsHold, OthersStill, Zenon
    <3> QED BY <3>1, <3>2, <3>3, <3>4
  <2> QED BY <2>1, <2>2, Zenon DEF Next
<1> QED BY <1>1, <1>2, Invariance, PTL DEF Spec, LockRefines, Fifo!Spec
============================================================================
