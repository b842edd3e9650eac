----------------------------- MODULE SmpProofs -----------------------------
(***************************************************************************)
(* CountedBeforeRun for every number of cpus, where each cpu arrives in    *)
(* its second or not at all.                                               *)
(***************************************************************************)
EXTENDS Smp, FiniteSetTheorems, TLAPS

(* The cpus the boot cpu is done with that arrived. *)
Counted == {c \in AP : c < bsp.i /\ ap[c].at \in {"parked", "run"}}

SmpTypeOK ==
    /\ bsp \in [at : {"start", "wait", "run"}, want : 1 .. NCPU, i : 1 .. NCPU]
    /\ page \in [stack : Int, index : Int]
    /\ ap \in [AP -> [at : {"reset", "started", "dead", "main", "parked", "run"}, stack : Int, index : Int]]

(* Where the boot cpu is: it starts the cpus in order and lets them go when
   it is through. *)
InTurn ==
    /\ bsp.i <= bsp.want
    /\ bsp.at = "wait" => bsp.i < bsp.want /\ page.stack = bsp.i /\ page.index = bsp.i
    /\ apgo => bsp.at = "run"
    /\ bsp.at = "run" => bsp.i = bsp.want

(* Where another cpu is by then. *)
Sorted(c) ==
    /\ c < bsp.i => ap[c].at \in {"dead", "parked", "run"}
    /\ c > bsp.i \/ (c = bsp.i /\ bsp.at # "wait") => ap[c].at = "reset"

(* The one that is waited for: it may have yet to read the page. *)
Awaited(c) ==
    c = bsp.i /\ bsp.at = "wait" =>
        /\ ap[c].at \in {"started", "dead", "main", "parked"}
        /\ online = c <=> ap[c].at = "parked"

(* One that has read the page found its own stack and index there. *)
Landed(c) ==
    /\ ap[c].at \in {"main", "parked", "run"} => ap[c].stack = c /\ ap[c].index = c
    /\ ap[c].at = "run" => apgo

Settled(c) == Sorted(c) /\ Awaited(c) /\ Landed(c)

SmpInv ==
    /\ SmpTypeOK /\ InTurn /\ \A c \in AP : Settled(c)
    /\ ncpu = 1 + Cardinality(Counted)

(* Any set of cpus is finite, so that it can be counted. *)
LEMMA CpusFinite == ASSUME NEW S \in SUBSET AP PROVE IsFiniteSet(S) /\ Cardinality(S) \in Nat
<1>0. 1 \in Int /\ NCPU - 1 \in Int
  BY SmpAssumption
<1>1. IsFiniteSet(AP)
  BY Zenon, <1>0, FS_Interval DEF AP
<1>2. IsFiniteSet(S)
  BY Zenon, <1>1, FS_Subset
<1> QED
  BY Zenon, <1>2, FS_CardinalityType

(* The cpus and the counters of the boot cpu are numbers. *)
LEMMA Numbers ==
    ASSUME SmpTypeOK
    PROVE  /\ bsp.i \in 1 .. NCPU /\ bsp.want \in 1 .. NCPU /\ NCPU \in Nat
           /\ bsp.at \in {"start", "wait", "run"}
           /\ AP = 1 .. NCPU - 1
<1>1. bsp.i \in 1 .. NCPU /\ bsp.want \in 1 .. NCPU /\ bsp.at \in {"start", "wait", "run"}
  BY Zenon DEF SmpTypeOK
<1> QED
  BY Zenon, <1>1, SmpAssumption DEF AP

(* The machine starts with the boot cpu counted and every other one reset. *)
LEMMA SmpInitInv == SmpInit => SmpInv
<1> SUFFICES ASSUME SmpInit PROVE SmpInv
  BY Zenon
<1>1. PICK n \in Present :
        bsp = [at |-> "start",
               want |-> IF ~apic \/ n < 1 THEN 1 ELSE IF n > NCPU THEN NCPU ELSE n, i |-> 1]
  BY Zenon DEF SmpInit
<1>2. n \in Nat /\ NCPU \in Nat \ {0}
  BY Zenon, SmpAssumption
<1> DEFINE w == IF ~apic \/ n < 1 THEN 1 ELSE IF n > NCPU THEN NCPU ELSE n
<1>3. w \in 1 .. NCPU /\ 1 \in 1 .. NCPU /\ 1 <= w
  BY <1>2
<1>4. bsp.at = "start" /\ bsp.i = 1 /\ bsp.want = w
  BY <1>1
<1>5. bsp \in [at : {"start", "wait", "run"}, want : 1 .. NCPU, i : 1 .. NCPU]
  <2> HIDE DEF w
  <2>1. bsp = [at |-> "start", want |-> w, i |-> 1]
    BY Zenon, <1>1 DEF w
  <2> QED
    BY <1>3, <2>1
<1> HIDE DEF w
<1>6. page \in [stack : Int, index : Int]
  BY DEF SmpInit
<1>7. \A c \in AP : ap[c] = [at |-> "reset", stack |-> 0, index |-> 0]
  BY Zenon DEF SmpInit
<1>8. ap \in [AP -> [at : {"reset", "started", "dead", "main", "parked", "run"}, stack : Int, index : Int]]
  BY DEF SmpInit
<1>9. \A c \in AP : ap[c].at = "reset"
  BY SMTT(20), <1>7
<1>10. InTurn
  BY Zenon, <1>3, <1>4 DEF InTurn, SmpInit
<1>11. \A c \in AP : c \in Int /\ c >= 1
  BY SmpAssumption DEF AP
<1>12. \A c \in AP : ~(c < 1)
  BY <1>11
<1>13. \A c \in AP : Settled(c)
  BY Zenon, <1>4, <1>9, <1>12 DEF Settled, Sorted, Awaited, Landed
<1>14. Counted = {}
  BY Zenon, <1>4, <1>12 DEF Counted
<1>15. ncpu = 1 + Cardinality(Counted)
  <2>1. ncpu = 1 /\ Cardinality(Counted) = 0
    BY Zenon, <1>14, FS_EmptySet DEF SmpInit
  <2> QED
    BY <2>1
<1> QED
  BY Zenon, <1>5, <1>6, <1>8, <1>10, <1>13, <1>15 DEF SmpInv, SmpTypeOK

(* startap, for a cpu nobody has started before. *)
LEMMA StartapInv == ASSUME SmpInv, startap PROVE SmpInv'
<1>0. SmpTypeOK /\ InTurn /\ \A c \in AP : Settled(c)
  BY Zenon DEF SmpInv
<1> DEFINE i == bsp.i
<1>1. i \in AP /\ i \in Int /\ i >= 1
  BY <1>0, Numbers DEF startap, InTurn
<1>2. bsp'.at = "wait" /\ bsp'.i = i /\ bsp'.want = bsp.want /\ bsp.at = "start"
  BY <1>0 DEF startap, SmpTypeOK
<1>3. page'.stack = i /\ page'.index = i
  BY Zenon DEF startap, Asks
<1>4. /\ ap'[i].at = "started"
      /\ \A c \in AP : c # i => ap'[c] = ap[c]
  BY <1>0, <1>1 DEF startap, SmpTypeOK
<1>5. SmpTypeOK'
  <2>1. bsp' \in [at : {"start", "wait", "run"}, want : 1 .. NCPU, i : 1 .. NCPU]
    BY <1>0 DEF startap, SmpTypeOK
  <2>2. page' \in [stack : Int, index : Int]
    BY <1>1 DEF startap, Asks
  <2>3. ap' \in [AP -> [at : {"reset", "started", "dead", "main", "parked", "run"}, stack : Int, index : Int]]
    BY <1>0, <1>1 DEF startap, SmpTypeOK
  <2> QED
    BY Zenon, <2>1, <2>2, <2>3 DEF SmpTypeOK
<1>6. InTurn'
  BY Zenon, <1>0, <1>2, <1>3 DEF startap, InTurn
<1>7. online' # i
  BY <1>1 DEF startap, Nobody
<1>8. ASSUME NEW c \in AP PROVE Settled(c)'
  <2>1. CASE c = i
    <3>1. ~(i < i) /\ ~(i > i)
      BY <1>1
    <3> QED
      BY Zenon, <1>2, <1>4, <1>7, <2>1, <3>1 DEF Settled, Sorted, Awaited, Landed
  <2>2. CASE c # i
    <3>1. ap'[c] = ap[c] /\ apgo' = apgo /\ Settled(c)
      BY Zenon, <1>0, <1>4, <2>2 DEF startap
    <3> QED
      BY Zenon, <1>2, <2>2, <3>1 DEF Settled, Sorted, Awaited, Landed
  <2> QED
    BY Zenon, <2>1, <2>2
<1>9. Counted' = Counted
  <2>1. ~(i < i)
    BY <1>1
  <2>2. \A c \in AP : c < bsp'.i => c # i
    BY Zenon, <1>2, <2>1
  <2> QED
    BY Zenon, <1>2, <1>4, <2>1, <2>2 DEF Counted
<1>10. (ncpu = 1 + Cardinality(Counted))'
  BY Zenon, <1>9 DEF startap, SmpInv
<1> QED
  BY Zenon, <1>5, <1>6, <1>8, <1>10 DEF SmpInv

(* The boot cpu goes on to the next cpu once this one is parked or will never
   start. *)
LEMMA NextCpu ==
    ASSUME SmpInv, bsp.at = "wait", bsp' = [bsp EXCEPT !.at = "start", !.i = @ + 1],
           UNCHANGED <<page, apgo, ap>>, ap[bsp.i].at \in {"dead", "parked"}
    PROVE  /\ SmpTypeOK' /\ InTurn' /\ \A c \in AP : Settled(c)'
           /\ bsp.i \in AP \ Counted
           /\ Counted' = IF ap[bsp.i].at = "parked" THEN Counted \cup {bsp.i} ELSE Counted
<1>0. SmpTypeOK /\ InTurn /\ \A c \in AP : Settled(c)
  BY Zenon DEF SmpInv
<1> DEFINE i == bsp.i
<1>1. i \in AP /\ i \in Int /\ i < bsp.want /\ bsp.want \in Int
  BY <1>0, Numbers DEF InTurn
<1>2. bsp'.at = "start" /\ bsp'.i = i + 1 /\ bsp'.want = bsp.want
  BY <1>0 DEF SmpTypeOK
<1>3. i + 1 \in 1 .. NCPU /\ i + 1 <= bsp.want
  BY <1>0, <1>1, Numbers
<1>4. SmpTypeOK'
  <2> DEFINE n == i + 1
  <2>1. bsp' = [bsp EXCEPT !.at = "start", !.i = n] /\ n \in 1 .. NCPU
    BY <1>3
  <2> HIDE DEF n
  <2>2. bsp' \in [at : {"start", "wait", "run"}, want : 1 .. NCPU, i : 1 .. NCPU]
    BY Zenon, <1>0, <2>1 DEF SmpTypeOK
  <2> QED
    BY Zenon, <1>0, <2>2 DEF SmpTypeOK
<1>5. InTurn'
  BY Zenon, <1>0, <1>2, <1>3 DEF InTurn
<1>6. \A c \in AP : c \in Int
  BY SmpAssumption DEF AP
<1>7. ASSUME NEW c \in AP PROVE Settled(c)'
  <2>0. Settled(c) /\ c \in Int /\ ap'[c] = ap[c] /\ (apgo' <=> apgo)
    BY <1>0, <1>6
  <2>1. CASE c < i + 1
    <3>1. c < i \/ c = i
      BY <1>1, <2>0, <2>1
    <3>2. ~(c > i + 1) /\ c # i + 1
      BY <1>1, <2>0, <2>1
    <3>3. ap[c].at \in {"dead", "parked", "run"}
      BY Zenon, <2>0, <3>1 DEF Settled, Sorted, Awaited, Landed
    <3>4. ~(c > bsp'.i) /\ c # bsp'.i /\ bsp'.at # "wait"
      BY <1>2, <3>2
    <3>5. Landed(c)'
      BY Zenon, <2>0 DEF Settled, Landed
    <3>6. Sorted(c)' /\ Awaited(c)'
      BY Zenon, <2>0, <3>3, <3>4 DEF Sorted, Awaited
    <3> QED
      BY Zenon, <3>5, <3>6 DEF Settled
  <2>2. CASE ~(c < i + 1)
    <3>1. c > i
      BY <1>1, <2>0, <2>2
    <3>2. ap[c].at = "reset"
      BY Zenon, <2>0, <3>1 DEF Settled, Sorted, Awaited, Landed
    <3> QED
      BY Zenon, <1>2, <2>0, <2>2, <3>2 DEF Settled, Sorted, Awaited, Landed
  <2> QED
    BY Zenon, <2>1, <2>2
<1>8. bsp.i \in AP \ Counted
  <2>1. ~(i < i)
    BY <1>1
  <2> QED
    BY Zenon, <1>1, <2>1 DEF Counted
<1>9. Counted' = IF ap[bsp.i].at = "parked" THEN Counted \cup {bsp.i} ELSE Counted
  <2>1. \A c \in AP : c < i + 1 <=> c < i \/ c = i
    BY <1>1, <1>6
  <2>2. Counted' = {c \in AP : (c < i \/ c = i) /\ ap[c].at \in {"parked", "run"}}
    BY Zenon, <1>2, <2>1 DEF Counted
  <2>3. CASE ap[i].at = "parked"
    BY Zenon, <1>1, <2>2, <2>3 DEF Counted
  <2>4. CASE ap[i].at # "parked"
    <3>1. ap[i].at \notin {"parked", "run"}
      BY Zenon, <2>4
    <3> QED
      BY Zenon, <2>2, <2>4, <3>1 DEF Counted
  <2> QED
    BY Zenon, <2>3, <2>4
<1> QED
  BY Zenon, <1>4, <1>5, <1>7, <1>8, <1>9

(* The cpu that is waited for says it arrived, and is counted. *)
LEMMA ArrivedInv == ASSUME SmpInv, Arrived PROVE SmpInv'
<1>1. bsp.at = "wait" /\ online = bsp.i /\ SmpTypeOK /\ InTurn /\ \A c \in AP : Settled(c)
  BY Zenon DEF Arrived, SmpInv
<1>2. bsp.i \in AP
  BY <1>1, Numbers DEF InTurn
<1>3. ap[bsp.i].at = "parked"
  BY Zenon, <1>1, <1>2 DEF Settled, Sorted, Awaited, Landed
<1>4. /\ SmpTypeOK' /\ InTurn' /\ \A c \in AP : Settled(c)'
      /\ Counted' = Counted \cup {bsp.i} /\ bsp.i \notin Counted
  BY Zenon, <1>1, <1>3, NextCpu DEF Arrived
<1>5. Counted \in SUBSET AP
  BY Zenon DEF Counted
<1>6. Cardinality(Counted') = Cardinality(Counted) + 1 /\ Cardinality(Counted) \in Nat
  BY Zenon, <1>4, <1>5, CpusFinite, FS_AddElement
<1>7. ncpu' = ncpu + 1 /\ ncpu = 1 + Cardinality(Counted)
  BY Zenon DEF Arrived, SmpInv
<1>8. ncpu' = 1 + Cardinality(Counted')
  BY <1>6, <1>7
<1> QED
  BY Zenon, <1>4, <1>8 DEF SmpInv

(* The second is over for a cpu that does not start. *)
LEMMA GivenUpInv == ASSUME ~Late, SmpInv, GivenUp PROVE SmpInv'
<1>1. bsp.at = "wait" /\ ap[bsp.i].at = "dead"
  BY Zenon DEF GivenUp
<1>2. SmpTypeOK' /\ InTurn' /\ (\A c \in AP : Settled(c)') /\ Counted' = Counted
  BY Zenon, <1>1, NextCpu DEF GivenUp
<1>3. ncpu' = 1 + Cardinality(Counted')
  BY Zenon, <1>2 DEF GivenUp, SmpInv
<1> QED
  BY Zenon, <1>2, <1>3 DEF SmpInv

(* All of them were asked, and are let go. *)
LEMMA GoInv == ASSUME SmpInv, smp_start_aps PROVE SmpInv'
<1>0. SmpTypeOK /\ InTurn /\ \A c \in AP : Settled(c)
  BY Zenon DEF SmpInv
<1>1. bsp' = [bsp EXCEPT !.at = "run"] /\ bsp.at = "start" /\ bsp.i >= bsp.want
  BY Zenon DEF smp_start_aps, MayGo
<1>2. bsp'.at = "run" /\ bsp'.i = bsp.i /\ bsp'.want = bsp.want
  BY Zenon, <1>0, <1>1 DEF SmpTypeOK
<1>3. bsp.i = bsp.want
  BY <1>0, <1>1, Numbers DEF InTurn
<1>4. SmpTypeOK'
  <2>1. bsp' \in [at : {"start", "wait", "run"}, want : 1 .. NCPU, i : 1 .. NCPU]
    BY <1>0, <1>1 DEF SmpTypeOK
  <2> QED
    BY Zenon, <1>0, <2>1 DEF SmpTypeOK, smp_start_aps
<1>5. InTurn'
  BY Zenon, <1>0, <1>2, <1>3 DEF InTurn
<1>6. ASSUME NEW c \in AP PROVE Settled(c)'
  <2>1. Settled(c) /\ ap'[c] = ap[c]
    BY Zenon, <1>0 DEF smp_start_aps
  <2>2. ap[c].at # "run"
    BY Zenon, <1>0, <1>1, <2>1 DEF Settled, Sorted, Awaited, Landed, InTurn
  <2>3. bsp.at # "wait"
    BY Zenon, <1>1
  <2> QED
    BY Zenon, <1>2, <2>1, <2>2, <2>3 DEF Settled, Sorted, Awaited, Landed
<1>7. Counted' = Counted
  BY Zenon, <1>2 DEF smp_start_aps, Counted
<1>8. ncpu' = 1 + Cardinality(Counted')
  BY Zenon, <1>7 DEF smp_start_aps, SmpInv
<1> QED
  BY Zenon, <1>4, <1>5, <1>6, <1>8 DEF SmpInv

(* A step of another cpu leaves the boot cpu and the rest alone.  One that is
   still waited for is not counted yet, and one that is counted stays so. *)
LEMMA CpuMoves ==
    ASSUME SmpInv, NEW c \in AP, UNCHANGED <<bsp, page, ncpu, apgo>>, Settled(c)',
           NEW r \in [at : {"reset", "started", "dead", "main", "parked", "run"}, stack : Int, index : Int],
           ap' = [ap EXCEPT ![c] = r],
           c < bsp.i => ap[c].at \in {"parked", "run"} /\ r.at \in {"parked", "run"},
           online' = online \/ (c = bsp.i /\ bsp.at = "wait")
    PROVE  SmpInv'
<1>0. SmpTypeOK /\ InTurn /\ (\A d \in AP : Settled(d)) /\ ncpu = 1 + Cardinality(Counted)
  BY Zenon DEF SmpInv
<1>1. ap'[c] = r /\ \A d \in AP : d # c => ap'[d] = ap[d]
  BY Zenon, <1>0 DEF SmpTypeOK
<1>2. SmpTypeOK'
  BY Zenon, <1>0 DEF SmpTypeOK
<1>3. InTurn'
  BY Zenon, <1>0 DEF InTurn
<1>4. ASSUME NEW d \in AP, d # c PROVE Settled(d)'
  <2>1. ap'[d] = ap[d] /\ Settled(d) /\ bsp' = bsp /\ apgo' = apgo
    BY Zenon, <1>0, <1>1, <1>4
  <2>2. d = bsp.i /\ bsp.at = "wait" => online' = online
    BY Zenon, <1>4
  <2>3. ap'[d] = ap[d] /\ bsp'.i = bsp.i /\ bsp'.at = bsp.at /\ (apgo' <=> apgo)
    BY <2>1
  <2>4. Awaited(d)'
    BY Zenon, <2>1, <2>2, <2>3 DEF Settled, Awaited
  <2>5. Sorted(d)'
    BY Zenon, <2>1, <2>3 DEF Settled, Sorted
  <2>6. Landed(d)'
    BY Zenon, <2>1, <2>3 DEF Settled, Landed
  <2> QED
    BY Zenon, <2>4, <2>5, <2>6 DEF Settled
<1>5. Counted' = Counted
  <2>1. \A d \in AP : d < bsp.i =>
          (ap'[d].at \in {"parked", "run"} <=> ap[d].at \in {"parked", "run"})
    BY Zenon, <1>1
  <2> QED
    BY Zenon, <2>1 DEF Counted
<1> QED
  BY Zenon, <1>0, <1>2, <1>3, <1>4, <1>5 DEF SmpInv

(* A step of another cpu.  It reads the page only while it is waited for. *)
LEMMA CpuInv ==
    ASSUME SmpInv, NEW c \in AP, Dies(c) \/ Lands(c) \/ ap_main(c) \/ kernel_run_ap(c)
    PROVE  SmpInv'
<1>0. /\ SmpTypeOK /\ InTurn /\ Settled(c)
      /\ ap[c] \in [at : {"reset", "started", "dead", "main", "parked", "run"}, stack : Int, index : Int]
  BY Zenon DEF SmpInv, SmpTypeOK
<1>1. c < bsp.i \/ c = bsp.i \/ c > bsp.i
  <2>1. c \in Int /\ bsp.i \in Int
    BY <1>0, Numbers
  <2> QED
    BY <2>1
<1>2. ~(bsp.i < bsp.i) /\ ~(bsp.i > bsp.i)
  BY <1>0, Numbers
<1>3. ASSUME ap[c].at \in {"started", "main"} PROVE c = bsp.i /\ bsp.at = "wait" /\ ~(c < bsp.i)
  BY Zenon, <1>0, <1>1, <1>2, <1>3 DEF Settled, Sorted, Awaited, Landed
<1>4. CASE Dies(c)
  <2> DEFINE r == [ap[c] EXCEPT !.at = "dead"]
  <2>1. ap' = [ap EXCEPT ![c] = r] /\ UNCHANGED <<bsp, page, online, ncpu, apgo>> /\ ap[c].at = "started"
    BY Zenon, <1>4 DEF Dies
  <2>2. ap'[c] = r /\ r.at = "dead"
    BY Zenon, <1>0, <2>1 DEF SmpTypeOK
  <2>3. r \in [at : {"reset", "started", "dead", "main", "parked", "run"}, stack : Int, index : Int]
    BY Zenon, <1>0
  <2>4. c = bsp.i /\ bsp.at = "wait" /\ ~(c < bsp.i)
    BY Zenon, <1>3, <2>1
  <2> HIDE DEF r
  <2>5. Settled(c)'
    BY Zenon, <1>0, <1>2, <2>1, <2>2, <2>4 DEF Settled, Sorted, Awaited, Landed
  <2> QED
    BY Zenon, <2>1, <2>3, <2>4, <2>5, CpuMoves
<1>5. CASE Lands(c)
  <2> DEFINE r == [at |-> "main", stack |-> page.stack, index |-> page.index]
  <2>1. ap' = [ap EXCEPT ![c] = r] /\ UNCHANGED <<bsp, page, online, ncpu, apgo>> /\ ap[c].at = "started"
    BY Zenon, <1>5 DEF Lands
  <2>2. c = bsp.i /\ bsp.at = "wait" /\ ~(c < bsp.i)
    BY Zenon, <1>3, <2>1
  <2>3. ap'[c] = r /\ r.at = "main" /\ r.stack = c /\ r.index = c
    BY Zenon, <1>0, <2>1, <2>2 DEF SmpTypeOK, InTurn
  <2>4. r \in [at : {"reset", "started", "dead", "main", "parked", "run"}, stack : Int, index : Int]
    BY Zenon, <1>0 DEF SmpTypeOK
  <2> HIDE DEF r
  <2>5. Settled(c)'
    BY Zenon, <1>0, <1>2, <2>1, <2>2, <2>3 DEF Settled, Sorted, Awaited, Landed
  <2> QED
    BY Zenon, <2>1, <2>2, <2>4, <2>5, CpuMoves
<1>6. CASE ap_main(c)
  <2> DEFINE r == [ap[c] EXCEPT !.at = "parked"]
  <2>1. ap' = [ap EXCEPT ![c] = r] /\ UNCHANGED <<bsp, page, ncpu, apgo>> /\ ap[c].at = "main"
    BY Zenon, <1>6 DEF ap_main
  <2>2. c = bsp.i /\ bsp.at = "wait" /\ ~(c < bsp.i)
    BY Zenon, <1>3, <2>1
  <2>3. ap[c].stack = c /\ ap[c].index = c /\ online' = c
    BY Zenon, <1>0, <1>6, <2>1 DEF Settled, Sorted, Awaited, Landed, ap_main
  <2>4. ap'[c] = r /\ r.at = "parked" /\ r.stack = c /\ r.index = c
    BY Zenon, <1>0, <2>1, <2>3 DEF SmpTypeOK
  <2>5. r \in [at : {"reset", "started", "dead", "main", "parked", "run"}, stack : Int, index : Int]
    BY Zenon, <1>0
  <2> HIDE DEF r
  <2>6. Settled(c)'
    BY Zenon, <1>2, <2>1, <2>2, <2>3, <2>4 DEF Settled, Sorted, Awaited, Landed
  <2> QED
    BY Zenon, <2>1, <2>2, <2>5, <2>6, CpuMoves
<1>7. CASE kernel_run_ap(c)
  <2> DEFINE r == [ap[c] EXCEPT !.at = "run"]
  <2>1. /\ ap' = [ap EXCEPT ![c] = r] /\ UNCHANGED <<bsp, page, online, ncpu, apgo>>
        /\ ap[c].at = "parked" /\ apgo
    BY Zenon, <1>7 DEF kernel_run_ap
  <2>2. ap[c].stack = c /\ ap[c].index = c /\ bsp.at = "run"
    BY Zenon, <1>0, <2>1 DEF Settled, Sorted, Awaited, Landed, InTurn
  <2>3. c < bsp.i /\ ~(c > bsp.i) /\ c # bsp.i
    <3>1. c < bsp.i
      BY Zenon, <1>0, <1>1, <2>1, <2>2 DEF Settled, Sorted, Awaited, Landed
    <3>2. c \in Int /\ bsp.i \in Int
      BY <1>0, Numbers
    <3> QED
      BY <3>1, <3>2
  <2>4. ap'[c] = r /\ r.at = "run" /\ r.stack = c /\ r.index = c
    BY Zenon, <1>0, <2>1, <2>2 DEF SmpTypeOK
  <2>5. r \in [at : {"reset", "started", "dead", "main", "parked", "run"}, stack : Int, index : Int]
    BY Zenon, <1>0
  <2> HIDE DEF r
  <2>6. Settled(c)'
    BY Zenon, <2>1, <2>3, <2>4 DEF Settled, Sorted, Awaited, Landed
  <2> QED
    BY Zenon, <2>1, <2>3, <2>4, <2>5, <2>6, CpuMoves
<1> QED
  BY Zenon, <1>4, <1>5, <1>6, <1>7

(* The invariant is what the property needs: whoever runs was counted, and
   once the boot cpu is through, so was whoever is on. *)
LEMMA SmpInvCounted == SmpInv => CountedBeforeRun
<1> SUFFICES ASSUME SmpInv PROVE CountedBeforeRun
  BY Zenon
<1>0. SmpTypeOK /\ InTurn /\ (\A c \in AP : Settled(c)) /\ ncpu = 1 + Cardinality(Counted)
  BY Zenon DEF SmpInv
<1>1. \A c \in AP : c < bsp.i \/ c = bsp.i \/ c > bsp.i
  <2>1. bsp.i \in Int /\ \A c \in AP : c \in Int
    BY <1>0, Numbers
  <2> QED
    BY <2>1
<1>2. Counted \in SUBSET AP /\ Running \in SUBSET Counted /\ Running \in SUBSET AP
  <2>1. ASSUME NEW c \in AP, ap[c].at = "run" PROVE c < bsp.i
    BY Zenon, <1>0, <1>1, <2>1 DEF Settled, Sorted, Awaited, Landed, InTurn
  <2> QED
    BY Zenon, <2>1 DEF Running, Counted
<1>3. IsFiniteSet(Counted) /\ Cardinality(Counted) \in Nat /\ Cardinality(Running) \in Nat
  BY Zenon, <1>2, CpusFinite
<1>4. Cardinality(Running) <= Cardinality(Counted)
  BY Zenon, <1>2, <1>3, FS_Subset
<1>5. Cardinality(Running) < ncpu
  BY <1>0, <1>3, <1>4
<1>6. ASSUME bsp.at = "run" PROVE Cardinality(On) + 1 = ncpu
  <2>1. ASSUME NEW c \in AP, ap[c].at \in {"main", "parked", "run"}
        PROVE  c < bsp.i /\ ap[c].at \in {"parked", "run"}
    BY Zenon, <1>0, <1>1, <1>6, <2>1 DEF Settled, Sorted, Awaited, Landed
  <2>2. On = Counted
    BY Zenon, <2>1 DEF On, Counted
  <2> QED
    BY <1>0, <1>3, <2>2
<1>7. \A c, d \in On : c # d => ap[c].stack # ap[d].stack /\ ap[c].index # ap[d].index
  <2>1. \A c \in On : ap[c].stack = c /\ ap[c].index = c
    BY Zenon, <1>0 DEF On, Settled, Landed
  <2> SUFFICES ASSUME NEW c \in On, NEW d \in On, c # d
               PROVE  ap[c].stack # ap[d].stack /\ ap[c].index # ap[d].index
    BY Zenon
  <2> QED
    BY Zenon, <2>1
<1> QED
  BY Zenon, <1>5, <1>6, <1>7 DEF CountedBeforeRun

(* However many cpus there are and whichever of them start, none dispatches
   before the boot cpu has counted it, and no two share a stack or an index:
   smp_start_aps with startap and ap_main, when no cpu is late. *)
THEOREM CountedCorrect ==
    ASSUME ~Late PROVE SmpInit /\ [][SmpNext]_smp_vars => []CountedBeforeRun
<1>1. SmpInv /\ [SmpNext]_smp_vars => SmpInv'
  <2> SUFFICES ASSUME SmpInv, [SmpNext]_smp_vars PROVE SmpInv'
    BY Zenon
  <2>1. CASE UNCHANGED smp_vars
    <3>1. UNCHANGED <<bsp, page, online, ncpu, apgo, ap>>
      BY Zenon, <2>1 DEF smp_vars
    <3>2. SmpTypeOK' /\ InTurn' /\ Counted' = Counted
      BY Zenon, <3>1 DEF SmpInv, SmpTypeOK, InTurn, Counted
    <3>3. ASSUME NEW c \in AP PROVE Settled(c)'
      <4>1. Settled(c)
        BY Zenon DEF SmpInv
      <4>2. apgo' <=> apgo
        BY <3>1
      <4>3. Sorted(c)' /\ Awaited(c)'
        BY Zenon, <3>1, <4>1 DEF Settled, Sorted, Awaited
      <4>4. Landed(c)'
        BY Zenon, <3>1, <4>1, <4>2 DEF Settled, Landed
      <4> QED
        BY Zenon, <4>3, <4>4 DEF Settled
    <3> QED
      BY Zenon, <3>1, <3>2, <3>3 DEF SmpInv
  <2>2. CASE SmpNext
    BY Zenon, <2>2, StartapInv, ArrivedInv, GivenUpInv, GoInv, CpuInv DEF SmpNext
  <2> QED
    BY Zenon, <2>1, <2>2
<1> QED
  BY <1>1, SmpInitInv, SmpInvCounted, PTL
=============================================================================
