---------------------------- MODULE SchedProofs ----------------------------
(***************************************************************************)
(* OnePlace and HeldStill for any number of cpus, procs and ports.  The    *)
(* invariant has three parts, kept by every step: where a proc is, given   *)
(* what a cpu at each place of its code has in its hands; what wakes it,   *)
(* which takes the waiter lists, what a waker may count on between its     *)
(* test, its claim and its make_ready, and who is on the way to a proc     *)
(* that has a message; and what a reader counts on.                        *)
(***************************************************************************)
EXTENDS Sched, FiniteSetTheorems, TLAPS

Waking == {"wake", "claim", "ready", "ipi"}
Places == Running \cup Waking \cup
          {"lap", "take", "lapend", "sweep", "tick", "introff", "idling", "asleep", "awake"}

ProcType ==
    /\ status \in [Proc -> {"READY", "BLOCKED"}]
    /\ onq \in [Proc -> {"run", "done", "none"}]
    /\ oncpu \in [Proc -> CPU \cup {NoCpu}]
    /\ woken \in [Proc -> BOOLEAN]

IpcType ==
    /\ waits \in [Proc -> SUBSET Port]
    /\ linked \in SUBSET (Proc \X Port)
    /\ msgs \in [Port -> Nat]
    /\ bucket \in [Port -> CPU \cup {NoCpu}]

HoldType ==
    /\ frozen \in [Proc -> Nat]
    /\ hold \in [Proc -> Proc \cup {NoProc}]

Locals == [p : Proc \cup {NoProc}, phase : {1, 2}, left : Int, turn : Int, ran : BOOLEAN,
           port : Port \cup {NoPort}, todo : SUBSET Proc, wakee : Proc \cup {NoProc},
           ipi : CPU \cup {NoCpu}, ret : {"lap", "lua"}]

CpuType == pc \in [CPU -> Places] /\ me \in [CPU -> Locals]

(* What a cpu has in its hands at each place: a proc in a resume, in a wake
   that was called from one, and in the sweep; a port in a wake. *)
InHands(c) ==
    /\ me[c].p # NoProc <=> pc[c] \in Running \/ me[c].ret = "lua"
    /\ me[c].ret = "lua" => pc[c] \in Waking
    /\ me[c].port # NoPort <=> pc[c] \in Waking
    /\ pc[c] \in {"claim", "ready"} => me[c].wakee \in Proc

(* A bucket is held by the cpu that wakes on its port. *)
Buckets == \A c \in CPU, q \in Port : bucket[q] = c <=> me[c].port = q

(* The places, and the calls, at which the proc in hand is runnable: from
   its dispatch until it blocks or yields. *)
InSlice(c) == pc[c] \in {"reap", "lua", "again", "reading"} \/ me[c].ret = "lua"

(* Where a proc is. *)
Place(p) ==
    /\ \A c \in CPU : me[c].p = p <=> oncpu[p] = c
    /\ oncpu[p] # NoCpu => onq[p] = "none"
    /\ status[p] = "READY" => onq[p] # "none" \/ oncpu[p] # NoCpu
    /\ onq[p] # "none" => status[p] = "READY"

(* Where procs are, together. *)
PlaceInv ==
    /\ ProcType /\ IpcType /\ HoldType /\ CpuType /\ Buckets
    /\ \A c \in CPU : InHands(c)
    /\ \A p \in Proc : Place(p)
    /\ \A c \in CPU : InSlice(c) => status[me[c].p] = "READY"

(* A set of procs has a size. *)
Sized == \A S \in SUBSET Proc : Cardinality(S) \in Nat

(* A step of one cpu. *)
Acts(c) ==
    \/ Kernel(c) \/ Stops(c)
    \/ \E q \in Port : Push(c, q) \/ Receive(c, q)
    \/ \E t \in Proc : Hold(c, t)

----------------------------------------------------------------------------
(* What an action leaves alone. *)

(* The steps that touch a proc's status, queue, claim or woken flag. *)
MovesProc(c) ==
    \/ Take(c) \/ PhaseEnd(c) \/ LapEnd(c) \/ SweepClaim(c) \/ SweepRelease(c) \/ Resume(c)
    \/ release_claim(c) \/ wake_claim(c) \/ make_ready(c)
    \/ \E Q \in SUBSET Port \ {{}} : Block(c, Q)

(* The steps that touch a waiter list, a queue of messages or a bucket. *)
MovesIpc(c) ==
    \/ Unlink(c) \/ wake_claim(c) \/ PushDone(c)
    \/ \E Q \in SUBSET Port \ {{}} : Block(c, Q)
    \/ \E q \in Port : Push(c, q) \/ Receive(c, q)

(* The steps that freeze or thaw. *)
MovesHold(c) == proc_thaw(c) \/ \E t \in Proc : Hold(c, t)

(* A step moves what the lists above say it moves, and nothing else. *)
LEMMA Frame ==
    ASSUME NEW c \in CPU, Acts(c)
    PROVE  /\ MovesProc(c) \/ UNCHANGED procVars
           /\ MovesIpc(c) \/ UNCHANGED ipcVars
           /\ MovesHold(c) \/ UNCHANGED holdVars
<1>1. CASE Lap(c) \/ Take(c) \/ PhaseEnd(c) \/ LapEnd(c) \/ Tick(c) \/ GoIdle(c)
  BY Zenon, <1>1 DEF Lap, Take, PhaseEnd, LapEnd, Tick, GoIdle, MovesProc
<1>2. CASE Halt(c) \/ Awake(c) \/ NotIdle(c) \/ SpendWeight(c) \/ TurnOver(c)
  BY Zenon, <1>2 DEF Halt, Awake, NotIdle, SpendWeight, TurnOver
<1>3. CASE Resume(c) \/ release_claim(c) \/ make_ready(c) \/ WakeTest(c) \/ WakeCpu(c)
  BY Zenon, <1>3 DEF Resume, release_claim, make_ready, WakeTest, WakeCpu, MovesProc
<1>4. CASE SweepClaim(c) \/ SweepRelease(c) \/ SweepEnd(c) \/ HoldAgain(c) \/ Preempt(c)
  BY Zenon, <1>4 DEF SweepClaim, SweepRelease, SweepEnd, HoldAgain, Preempt, MovesProc
<1>5. CASE Unlink(c) \/ wake_claim(c) \/ PushDone(c) \/ proc_thaw(c)
  BY Zenon, <1>5 DEF Unlink, wake_claim, PushDone, proc_thaw, MovesProc, MovesIpc, MovesHold
<1>6. CASE \E Q \in SUBSET Port \ {{}} : Block(c, Q)
  BY Zenon, <1>6 DEF Block, MovesProc, MovesIpc
<1>7. CASE \E q \in Port : Push(c, q) \/ Receive(c, q)
  BY Zenon, <1>7 DEF Push, Receive, MovesIpc
<1>8. CASE \E t \in Proc : Hold(c, t)
  BY Zenon, <1>8 DEF Hold, MovesHold
<1> QED
  BY Zenon, <1>1, <1>2, <1>3, <1>4, <1>5, <1>6, <1>7, <1>8 DEF Acts, Kernel, Stops

(* The other cpus stay where they are, with what they have. *)
LEMMA OthersStay ==
    ASSUME CpuType, NEW c \in CPU, Acts(c), NEW d \in CPU, d # c
    PROVE  pc'[d] = pc[d] /\ me'[d] = me[d]
<1> USE DEF CpuType, Goto
<1>1. CASE Lap(c) \/ Take(c) \/ PhaseEnd(c) \/ LapEnd(c) \/ Tick(c) \/ GoIdle(c)
  BY Zenon, <1>1 DEF Lap, Take, PhaseEnd, LapEnd, Tick, GoIdle
<1>2. CASE Halt(c) \/ Awake(c) \/ NotIdle(c) \/ SpendWeight(c) \/ TurnOver(c)
  BY Zenon, <1>2 DEF Halt, Awake, NotIdle, SpendWeight, TurnOver
<1>3. CASE Resume(c) \/ release_claim(c) \/ make_ready(c) \/ WakeTest(c) \/ WakeCpu(c)
  BY Zenon, <1>3 DEF Resume, release_claim, make_ready, WakeTest, WakeCpu
<1>4. CASE SweepClaim(c) \/ SweepRelease(c) \/ SweepEnd(c) \/ HoldAgain(c) \/ Preempt(c)
  BY Zenon, <1>4 DEF SweepClaim, SweepRelease, SweepEnd, HoldAgain, Preempt
<1>5. CASE Unlink(c) \/ wake_claim(c) \/ PushDone(c) \/ proc_thaw(c)
  BY Zenon, <1>5 DEF Unlink, wake_claim, PushDone, proc_thaw
<1>6. CASE \E Q \in SUBSET Port \ {{}} : Block(c, Q)
  BY Zenon, <1>6 DEF Block
<1>7. CASE \E q \in Port : Push(c, q) \/ Receive(c, q)
  BY Zenon, <1>7 DEF Push, Receive
<1>8. CASE \E t \in Proc : Hold(c, t)
  BY Zenon, <1>8 DEF Hold
<1> QED
  BY Zenon, <1>1, <1>2, <1>3, <1>4, <1>5, <1>6, <1>7, <1>8 DEF Acts, Kernel, Stops

----------------------------------------------------------------------------
(* Types. *)

(* Every step keeps the type of what the run lock guards. *)
LEMMA ProcTypeStep == ASSUME ProcType, CpuType, NEW c \in CPU, Acts(c) PROVE ProcType'
<1> USE DEF ProcType
<1>1. CASE UNCHANGED procVars
  BY Zenon, <1>1 DEF procVars
<1>2. CASE Take(c)
  <2>1. UNCHANGED <<status, woken>> /\ \E p \in Proc : oncpu' = [oncpu EXCEPT ![p] = c]
    BY Zenon, <1>2 DEF Take, Queue
  <2>2. onq' \in [Proc -> {"run", "done", "none"}]
    BY <1>2 DEF Take
  <2> QED
    BY Zenon, <2>1, <2>2
<1>3. CASE PhaseEnd(c)
  BY Zenon, <1>3 DEF PhaseEnd
<1>4. CASE LapEnd(c)
  BY Zenon, <1>4 DEF LapEnd, Swapped
<1>5. CASE SweepClaim(c)
  BY Zenon, <1>5 DEF SweepClaim
<1>6. CASE SweepRelease(c)
  BY Zenon, <1>6 DEF SweepRelease, Requeued
<1>7. CASE Resume(c)
  BY Zenon, <1>7 DEF Resume, Rearmed
<1>8. CASE release_claim(c)
  BY Zenon, <1>8 DEF release_claim, Requeued
<1>9. CASE wake_claim(c)
  BY Zenon, <1>9 DEF wake_claim
<1>10. CASE make_ready(c)
  <2>1. UNCHANGED <<oncpu, woken>> /\ status' = [status EXCEPT ![me[c].wakee] = "READY"]
    BY Zenon, <1>10 DEF make_ready
  <2>2. onq' = onq \/ onq' = [onq EXCEPT ![me[c].wakee] = IF @ = "none" THEN "run" ELSE @]
    BY Zenon, <1>10 DEF make_ready
  <2>3. onq' = onq \/ onq' = [onq EXCEPT ![me[c].wakee] = "run"]
    BY Zenon, <2>2
  <2> QED
    BY Zenon, <2>1, <2>3
<1>11. ASSUME NEW Q \in SUBSET Port \ {{}}, Block(c, Q) PROVE ProcType'
  BY Zenon, <1>11 DEF Block
<1> QED
  BY Zenon, <1>1, <1>2, <1>3, <1>4, <1>5, <1>6, <1>7, <1>8, <1>9, <1>10, <1>11, Frame DEF MovesProc

(* ... of waiter lists, messages and buckets. *)
LEMMA IpcTypeStep == ASSUME IpcType, CpuType, NEW c \in CPU, Acts(c),
                            pc[c] = "lua" => me[c].p \in Proc
                     PROVE  IpcType'
<1> USE DEF IpcType
<1>1. CASE UNCHANGED ipcVars
  BY Zenon, <1>1 DEF ipcVars
<1>2. CASE Unlink(c)
  BY Zenon, <1>2 DEF Unlink
<1>3. CASE wake_claim(c)
  BY Zenon, <1>3 DEF wake_claim
<1>4. CASE PushDone(c)
  BY Zenon, <1>4 DEF PushDone
<1>5. ASSUME NEW Q \in SUBSET Port \ {{}}, Block(c, Q) PROVE IpcType'
  BY <1>5 DEF Block
<1>6. ASSUME NEW q \in Port, Push(c, q) PROVE IpcType'
  BY <1>6 DEF Push
<1>7. ASSUME NEW q \in Port, Receive(c, q) PROVE IpcType'
  BY <1>7 DEF Receive, HasMessage
<1> QED
  BY Zenon, <1>1, <1>2, <1>3, <1>4, <1>5, <1>6, <1>7, Frame DEF MovesIpc

(* ... of freezes and holds. *)
LEMMA HoldTypeStep == ASSUME HoldType, NEW c \in CPU, Acts(c) PROVE HoldType'
<1> USE DEF HoldType
<1>1. CASE UNCHANGED holdVars
  BY Zenon, <1>1 DEF holdVars
<1>2. CASE proc_thaw(c)
  <2>1. frozen' = [frozen EXCEPT ![hold[me[c].p]] = IF @ > 0 THEN @ - 1 ELSE 0]
    BY Zenon, <1>2 DEF proc_thaw, Thawed
  <2>2. \A n \in Nat : (IF n > 0 THEN n - 1 ELSE 0) \in Nat
    OBVIOUS
  <2>3. frozen' \in [Proc -> Nat]
    BY Zenon, <2>1, <2>2
  <2>4. hold' \in [Proc -> Proc \cup {NoProc}]
    BY Zenon, <1>2 DEF proc_thaw
  <2> QED
    BY Zenon, <2>3, <2>4
<1>3. ASSUME NEW t \in Proc, Hold(c, t) PROVE HoldType'
  <2>1. frozen' = [frozen EXCEPT ![t] = @ + 1]
    BY Zenon, <1>3 DEF Hold
  <2>2. frozen' \in [Proc -> Nat]
    BY <2>1
  <2>3. hold' \in [Proc -> Proc \cup {NoProc}]
    BY Zenon, <1>3 DEF Hold
  <2> QED
    BY Zenon, <2>2, <2>3
<1> QED
  BY Zenon, <1>1, <1>2, <1>3, Frame DEF MovesHold

(* The budget of a phase is a number, whatever the queue holds. *)
LEMMA BudgetType == ASSUME Sized, CpuType, NEW c \in CPU PROVE Budget(c) \in Int
<1>1. Cardinality(Queue("run")) \in Nat
  BY Zenon DEF Queue, Sized
<1>2. me[c].left \in Int
  BY Zenon DEF CpuType, Locals
<1> QED
  BY <1>1, <1>2, SchedAssumption DEF Budget

(* The steps that leave a cpu's locals alone. *)
KeepsLocals(c) ==
    \/ Tick(c) \/ GoIdle(c) \/ Halt(c) \/ Awake(c) \/ NotIdle(c) \/ Unlink(c) \/ Resume(c)
    \/ TurnOver(c) \/ wake_claim(c) \/ HoldAgain(c) \/ proc_thaw(c) \/ Stops(c)
    \/ \E q \in Port : Receive(c, q)
    \/ \E t \in Proc : Hold(c, t)

(* The steps listed leave every cpu's locals as they are. *)
LEMMA LocalsKept == ASSUME NEW c \in CPU, KeepsLocals(c) PROVE UNCHANGED me
<1>1. CASE Tick(c) \/ GoIdle(c) \/ Halt(c) \/ Awake(c) \/ NotIdle(c) \/ Unlink(c) \/ Resume(c)
  BY Zenon, <1>1 DEF Tick, GoIdle, Halt, Awake, NotIdle, Unlink, Resume
<1>2. CASE TurnOver(c) \/ wake_claim(c) \/ HoldAgain(c) \/ proc_thaw(c) \/ Stops(c)
  BY Zenon, <1>2 DEF TurnOver, wake_claim, HoldAgain, proc_thaw, Stops, Preempt, Block
<1>3. CASE \E q \in Port : Receive(c, q)
  BY Zenon, <1>3 DEF Receive
<1>4. CASE \E t \in Proc : Hold(c, t)
  BY Zenon, <1>4 DEF Hold
<1> QED
  BY Zenon, <1>1, <1>2, <1>3, <1>4 DEF KeepsLocals

(* ... of the locals. *)
LEMMA MeTypeStep ==
    ASSUME Sized, CpuType, NEW c \in CPU, Acts(c)
    PROVE  me' \in [CPU -> Locals]
<1> USE DEF CpuType
<1>0. me[c] \in Locals
  BY Zenon
<1>1. CASE KeepsLocals(c)
  BY Zenon, <1>1, LocalsKept
<1>2. CASE Lap(c) \/ SweepEnd(c)
  <2>1. Fresh \in Locals
    BY SchedAssumption DEF Fresh, Locals
  <2> QED
    BY Zenon, <1>2, <2>1 DEF Lap, SweepEnd
<1>3. CASE Take(c)
  <2>1. PICK A \in SUBSET (Queue("run") \cap Frozen), p \in Queue("run") \ Frozen :
           me' = [me EXCEPT ![c].p = p, ![c].left = Budget(c) - Cardinality(A) - 1,
                            ![c].turn = 1, ![c].ran = TRUE]
    BY Zenon, <1>3 DEF Take
  <2> DEFINE l == Budget(c) - Cardinality(A) - 1
             n == 1
  <2>2. Cardinality(A) \in Nat /\ p \in Proc
    BY Zenon DEF Sized, Queue
  <2>3. l \in Int /\ n \in Int
    BY <2>2, BudgetType
  <2>4. me'[c] = [me[c] EXCEPT !.p = p, !.left = l, !.turn = n, !.ran = TRUE]
    BY Zenon, <2>1
  <2> HIDE DEF l, n
  <2>5. me'[c] \in Locals
    BY Zenon, <1>0, <2>2, <2>3, <2>4 DEF Locals
  <2> QED
    BY Zenon, <2>1, <2>5
<1>4. CASE PhaseEnd(c)
  <2> DEFINE h == 2
             l == -1
  <2>1. me'[c] = [me[c] EXCEPT !.phase = h, !.left = l, !.ran = me[c].ran]
    BY Zenon, <1>4 DEF PhaseEnd, Ran
  <2>2. me[c].ran \in BOOLEAN /\ h \in {1, 2} /\ l \in Int
    BY <1>0 DEF Locals
  <2> HIDE DEF h, l
  <2>3. me'[c] \in Locals
    BY Zenon, <1>0, <2>1, <2>2 DEF Locals
  <2> QED
    BY Zenon, <1>4, <2>3 DEF PhaseEnd
<1>5. CASE release_claim(c)
  <2> DEFINE n == 0
  <2>1. me'[c] = [me[c] EXCEPT !.p = NoProc, !.turn = n] /\ n \in Int
    BY <1>5 DEF release_claim
  <2> HIDE DEF n
  <2>2. me'[c] \in Locals
    BY Zenon, <1>0, <2>1 DEF Locals
  <2> QED
    BY Zenon, <1>5, <2>2 DEF release_claim
<1>6. CASE SpendWeight(c)
  <2>1. me'[c] = [me[c] EXCEPT !.turn = me[c].turn + 1]
    BY Zenon, <1>6 DEF SpendWeight
  <2>2. me[c].turn + 1 \in Int
    BY <1>0 DEF Locals
  <2>3. me'[c] \in Locals
    BY Zenon, <1>0, <2>1, <2>2 DEF Locals
  <2> QED
    BY Zenon, <1>6, <2>3 DEF SpendWeight
<1>7. CASE LapEnd(c)
  BY <1>7 DEF LapEnd, Locals
<1>8. CASE SweepClaim(c)
  BY <1>8 DEF SweepClaim, Locals
<1>9. CASE SweepRelease(c)
  BY <1>9 DEF SweepRelease, Locals
<1>10. CASE WakeTest(c)
  BY <1>10 DEF WakeTest, Locals
<1>11. CASE make_ready(c)
  BY SMTT(30), <1>11 DEF make_ready, Locals, Sleepers
<1>12. CASE WakeCpu(c)
  BY <1>12 DEF WakeCpu, Locals
<1>13. CASE PushDone(c)
  <2>1. me'[c] = [me[c] EXCEPT !.port = NoPort, !.wakee = NoProc, !.ret = "lap"]
    BY Zenon, <1>13 DEF PushDone
  <2>2. me'[c] \in Locals
    BY Zenon, <1>0, <2>1 DEF Locals
  <2> QED
    BY Zenon, <1>13, <2>2 DEF PushDone
<1>14. ASSUME NEW q \in Port, Push(c, q) PROVE me' \in [CPU -> Locals]
  <2>1. PICK r \in {"lap", "lua"}, T \in SUBSET Proc :
            me'[c] = [me[c] EXCEPT !.port = q, !.ret = r, !.todo = T]
    BY Zenon, <1>14 DEF Push
  <2>2. me'[c] \in Locals
    BY Zenon, <1>0, <2>1 DEF Locals
  <2> QED
    BY Zenon, <1>14, <2>2 DEF Push
<1> QED
  BY Zenon, <1>1, <1>2, <1>3, <1>4, <1>5, <1>6, <1>7, <1>8, <1>9, <1>10, <1>11, <1>12, <1>13, <1>14
     DEF Acts, Kernel, KeepsLocals

(* ... and of where the cpus are. *)
LEMMA PcTypeStep ==
    ASSUME CpuType, NEW c \in CPU, Acts(c)
    PROVE  pc' \in [CPU -> Places]
<1>0. pc \in [CPU -> Places] /\ me[c].ret \in Places
  BY Zenon DEF CpuType, Locals, Places, Running
<1> USE DEF Goto
<1>1. CASE Lap(c) \/ Take(c) \/ PhaseEnd(c) \/ LapEnd(c) \/ Tick(c) \/ GoIdle(c)
  BY Zenon, <1>0, <1>1 DEF Lap, Take, PhaseEnd, LapEnd, Tick, GoIdle, Places, Running
<1>2. CASE Halt(c) \/ Awake(c) \/ NotIdle(c) \/ SpendWeight(c) \/ TurnOver(c)
  BY Zenon, <1>0, <1>2 DEF Halt, Awake, NotIdle, SpendWeight, TurnOver, Places, Running
<1>3. CASE Resume(c) \/ release_claim(c) \/ make_ready(c) \/ WakeTest(c) \/ WakeCpu(c)
  BY Zenon, <1>0, <1>3 DEF Resume, release_claim, make_ready, WakeTest, WakeCpu, Places, Running, Waking
<1>4. CASE SweepClaim(c) \/ SweepRelease(c) \/ SweepEnd(c) \/ HoldAgain(c) \/ Preempt(c)
  BY Zenon, <1>0, <1>4 DEF SweepClaim, SweepRelease, SweepEnd, HoldAgain, Preempt, Places, Running
<1>5. CASE Unlink(c) \/ wake_claim(c) \/ PushDone(c) \/ proc_thaw(c)
  BY Zenon, <1>0, <1>5 DEF Unlink, wake_claim, PushDone, proc_thaw, Places, Running, Waking
<1>6. CASE \E Q \in SUBSET Port \ {{}} : Block(c, Q)
  BY Zenon, <1>0, <1>6 DEF Block, Places, Running
<1>7. CASE \E q \in Port : Push(c, q) \/ Receive(c, q)
  BY Zenon, <1>0, <1>7 DEF Push, Receive, Places, Waking
<1>8. CASE \E t \in Proc : Hold(c, t)
  BY Zenon, <1>0, <1>8 DEF Hold, Places, Running
<1> QED
  BY Zenon, <1>1, <1>2, <1>3, <1>4, <1>5, <1>6, <1>7, <1>8 DEF Acts, Kernel, Stops

----------------------------------------------------------------------------
(* What is in whose hands. *)

(* A cpu goes from place to place with the right things in its hands. *)
LEMMA InHandsOwn ==
    ASSUME CpuType, NEW c \in CPU, InHands(c), Acts(c)
    PROVE  InHands(c)'
<1>0. me[c] \in Locals /\ pc[c] \in Places
  BY Zenon DEF CpuType
<1> USE SchedAssumption, <1>0 DEF CpuType, Locals, Goto, InHands, Running, Waking
<1>1. CASE Lap(c) \/ SweepEnd(c)
  BY <1>1 DEF Lap, SweepEnd, Fresh
<1>2. CASE Take(c)
  BY <1>2 DEF Take, Queue
<1>3. CASE PhaseEnd(c) \/ LapEnd(c)
  BY <1>3 DEF PhaseEnd, LapEnd
<1>4. CASE Tick(c) \/ GoIdle(c) \/ Halt(c) \/ Awake(c) \/ NotIdle(c)
  BY <1>4 DEF Tick, GoIdle, Halt, Awake, NotIdle
<1>5. CASE Unlink(c) \/ Resume(c) \/ HoldAgain(c) \/ proc_thaw(c) \/ Preempt(c)
  BY <1>5 DEF Unlink, Resume, HoldAgain, proc_thaw, Preempt, Hook
<1>6. CASE SpendWeight(c) \/ TurnOver(c)
  BY <1>6 DEF SpendWeight, TurnOver
<1>7. CASE release_claim(c) \/ SweepRelease(c)
  BY <1>7 DEF release_claim, SweepRelease
<1>8. CASE SweepClaim(c)
  BY <1>8 DEF SweepClaim
<1>9. CASE WakeTest(c)
  BY <1>9 DEF WakeTest
<1>10. CASE wake_claim(c) \/ WakeCpu(c)
  BY <1>10 DEF wake_claim, WakeCpu
<1>11. CASE make_ready(c)
  BY <1>11 DEF make_ready
<1>12. CASE PushDone(c)
  BY <1>12 DEF PushDone
<1>13. ASSUME NEW Q \in SUBSET Port \ {{}}, Block(c, Q) PROVE InHands(c)'
  BY <1>13 DEF Block
<1>14. ASSUME NEW q \in Port, Push(c, q) PROVE InHands(c)'
  BY <1>14 DEF Push
<1>15. ASSUME NEW q \in Port, Receive(c, q) PROVE InHands(c)'
  BY Zenon, <1>15 DEF Receive
<1>16. ASSUME NEW t \in Proc, Hold(c, t) PROVE InHands(c)'
  BY <1>16 DEF Hold
<1> QED
  BY Zenon, <1>1, <1>2, <1>3, <1>4, <1>5, <1>6, <1>7, <1>8, <1>9, <1>10, <1>11, <1>12, <1>13, <1>14,
     <1>15, <1>16 DEF Acts, Kernel, Stops

(* So every cpu has in its hands what its place says. *)
LEMMA InHandsStep ==
    ASSUME CpuType, \A d \in CPU : InHands(d), NEW c \in CPU, Acts(c)
    PROVE  \A d \in CPU : InHands(d)'
<1> SUFFICES ASSUME NEW d \in CPU, d # c PROVE InHands(d)'
  BY Zenon, InHandsOwn
<1>1. pc'[d] = pc[d] /\ me'[d] = me[d]
  BY Zenon, OthersStay
<1> QED
  BY Zenon, <1>1 DEF InHands

(* The port in a cpu's hands changes where a wake begins and where it ends. *)
LEMMA PortKept ==
    ASSUME CpuType, NEW c \in CPU, InHands(c), Acts(c), ~PushDone(c), \A q \in Port : ~Push(c, q)
    PROVE  me'[c].port = me[c].port
<1>0. me[c] \in Locals /\ pc[c] \in Places
  BY Zenon DEF CpuType
<1> USE SchedAssumption, <1>0 DEF CpuType, Locals
<1>1. CASE KeepsLocals(c)
  BY Zenon, <1>1, LocalsKept
<1>2. CASE Lap(c) \/ SweepEnd(c)
  BY <1>2 DEF Lap, SweepEnd, Fresh, InHands, Waking
<1>3. CASE Take(c)
  BY <1>3 DEF Take
<1>4. CASE PhaseEnd(c) \/ LapEnd(c)
  BY <1>4 DEF PhaseEnd, LapEnd
<1>5. CASE release_claim(c) \/ SpendWeight(c)
  BY <1>5 DEF release_claim, SpendWeight
<1>6. CASE SweepClaim(c)
  BY <1>6 DEF SweepClaim
<1>7. CASE WakeTest(c)
  BY <1>7 DEF WakeTest
<1>8. CASE make_ready(c) \/ WakeCpu(c)
  BY <1>8 DEF make_ready, WakeCpu
<1>9. CASE SweepRelease(c)
  BY Zenon, <1>9 DEF SweepRelease
<1> QED
  BY Zenon, <1>1, <1>2, <1>3, <1>4, <1>5, <1>6, <1>7, <1>8, <1>9 DEF Acts, Kernel, KeepsLocals

(* A bucket is taken by the push and given back at its end. *)
LEMMA BucketsStep ==
    ASSUME CpuType, IpcType, Buckets, NEW c \in CPU, InHands(c), Acts(c)
    PROVE  Buckets'
<1>0. \A d \in CPU \ {c} : me'[d] = me[d]
  BY Zenon, OthersStay
<1>1. ASSUME NEW q \in Port, Push(c, q) PROVE Buckets'
  <2>1. me'[c].port = q /\ me[c].port = NoPort
    BY Zenon, <1>1 DEF Push, CpuType, Locals, InHands, Waking
  <2>2. bucket[q] = NoCpu /\ bucket' = [bucket EXCEPT ![q] = c]
    BY Zenon, <1>1 DEF Push
  <2> QED
    BY <1>0, <2>1, <2>2, SchedAssumption DEF Buckets, IpcType
<1>2. CASE PushDone(c)
  <2>1. me'[c].port = NoPort /\ me[c].port \in Port
    BY Zenon, <1>2 DEF PushDone, CpuType, Locals, InHands, Waking
  <2>2. bucket' = [bucket EXCEPT ![me[c].port] = NoCpu]
    BY Zenon, <1>2 DEF PushDone
  <2> QED
    BY <1>0, <2>1, <2>2, SchedAssumption DEF Buckets, IpcType
<1>3. CASE ~PushDone(c) /\ \A q \in Port : ~Push(c, q)
  <2>1. me'[c].port = me[c].port
    BY Zenon, <1>3, PortKept
  <2>2. bucket' = bucket
    BY Zenon, <1>3, Frame DEF MovesIpc, ipcVars, Unlink, wake_claim, Block, Receive
  <2> QED
    BY <1>0, <2>1, <2>2 DEF Buckets
<1> QED
  BY Zenon, <1>1, <1>2, <1>3

----------------------------------------------------------------------------
(* Where a proc is. *)

(* The steps that claim a proc or let go of it. *)
MovesClaim(c) == Take(c) \/ SweepClaim(c) \/ SweepRelease(c) \/ release_claim(c)

(* Any other leaves the cpu with the proc it has. *)
LEMMA ProcKept ==
    ASSUME CpuType, NEW c \in CPU, InHands(c), Acts(c), ~MovesClaim(c)
    PROVE  me'[c].p = me[c].p
<1>0. me[c] \in Locals /\ pc[c] \in Places
  BY Zenon DEF CpuType
<1> USE <1>0 DEF CpuType, Locals
<1>1. CASE KeepsLocals(c)
  BY Zenon, <1>1, LocalsKept
<1>2. CASE Lap(c) \/ SweepEnd(c)
  BY <1>2 DEF Lap, SweepEnd, Fresh, InHands, Running, Waking
<1>3. CASE PhaseEnd(c) \/ LapEnd(c)
  BY <1>3 DEF PhaseEnd, LapEnd
<1>4. CASE SpendWeight(c)
  BY Zenon, <1>4 DEF SpendWeight
<1>5. CASE WakeTest(c)
  BY <1>5 DEF WakeTest
<1>6. CASE make_ready(c) \/ WakeCpu(c)
  BY <1>6 DEF make_ready, WakeCpu
<1>7. CASE PushDone(c)
  BY Zenon, <1>7 DEF PushDone
<1>8. ASSUME NEW q \in Port, Push(c, q) PROVE me'[c].p = me[c].p
  BY Zenon, <1>8 DEF Push
<1> QED
  BY Zenon, <1>1, <1>2, <1>3, <1>4, <1>5, <1>6, <1>7, <1>8 DEF Acts, Kernel, KeepsLocals, MovesClaim

(* No proc leaves its place but to another. *)
LEMMA PlaceStep ==
    ASSUME PlaceInv, NEW c \in CPU, Acts(c), NEW p \in Proc
    PROVE  Place(p)'
<1> USE DEF PlaceInv
<1>0. \A d \in CPU \ {c} : me'[d] = me[d]
  BY Zenon, OthersStay
<1>a. me[c] \in Locals /\ pc[c] \in Places /\ InHands(c)
  BY Zenon DEF CpuType
<1>b. ~MovesClaim(c) => me'[c].p = me[c].p
  BY Zenon, ProcKept
<1>1. CASE Take(c)
  <2>1. PICK A \in SUBSET (Queue("run") \cap Frozen), t \in Queue("run") \ Frozen :
          /\ onq' = [q \in Proc |-> IF q = t THEN "none" ELSE IF q \in A THEN "done" ELSE onq[q]]
          /\ oncpu' = [oncpu EXCEPT ![t] = c]
          /\ me' = [me EXCEPT ![c].p = t, ![c].left = Budget(c) - Cardinality(A) - 1,
                              ![c].turn = 1, ![c].ran = TRUE]
    BY Zenon, <1>1 DEF Take
  <2>2. me'[c].p = t
    BY Zenon, <1>a, <2>1 DEF CpuType, Locals
  <2>3. me[c].p = NoProc
    BY Zenon, <1>1, <1>a DEF Take, InHands, Running, Waking
  <2>4. t \in Proc /\ onq[t] = "run" /\ oncpu[t] = NoCpu /\ status[t] = "READY"
    BY Zenon DEF Queue, Place
  <2>5. p \in A => onq[p] = "run"
    BY Zenon DEF Queue
  <2>6. /\ onq'[p] = IF p = t THEN "none" ELSE IF p \in A THEN "done" ELSE onq[p]
        /\ oncpu'[p] = IF p = t THEN c ELSE oncpu[p]
        /\ status'[p] = status[p]
    BY Zenon, <1>1, <2>1 DEF Take, ProcType
  <2>7. \A d \in CPU : me'[d].p = p <=> oncpu'[p] = d
    BY <1>0, <2>2, <2>3, <2>4, <2>6, SchedAssumption DEF Place
  <2> QED
    BY <2>4, <2>5, <2>6, <2>7, SchedAssumption DEF Place
<1>2. CASE SweepClaim(c)
  <2>1. PICK t \in me[c].todo :
          /\ Parked(t)
          /\ oncpu' = [oncpu EXCEPT ![t] = c]
          /\ me' = [me EXCEPT ![c].p = t, ![c].todo = @ \ {t}]
    BY Zenon, <1>2 DEF SweepClaim
  <2>2. me'[c].p = t /\ t \in Proc
    BY Zenon, <1>a, <2>1 DEF CpuType, Locals
  <2>3. me[c].p = NoProc
    BY Zenon, <1>2, <1>a DEF SweepClaim, InHands, Running, Waking
  <2>4. status' = status /\ onq' = onq
    BY Zenon, <1>2 DEF SweepClaim
  <2>5. oncpu'[p] = IF p = t THEN c ELSE oncpu[p]
    BY Zenon, <2>1, <2>2 DEF ProcType
  <2>6. oncpu[t] = NoCpu /\ onq[t] = "none" /\ status[t] = "BLOCKED"
    BY Zenon, <2>1 DEF Parked
  <2>7. \A d \in CPU : me'[d].p = p <=> oncpu'[p] = d
    BY <1>0, <2>2, <2>3, <2>5, <2>6, SchedAssumption DEF Place
  <2> QED
    BY Zenon, <2>4, <2>5, <2>6, <2>7 DEF Place
<1>3. CASE SweepRelease(c) \/ release_claim(c)
  <2>1. me'[c].p = NoProc
    BY <1>3, <1>a DEF SweepRelease, release_claim, CpuType, Locals
  <2>2. /\ oncpu' = [oncpu EXCEPT ![me[c].p] = NoCpu]
        /\ onq' = Requeued(me[c].p) /\ status' = status
    BY Zenon, <1>3 DEF SweepRelease, release_claim
  <2>3. me[c].p \in Proc
    BY Zenon, <1>3, <1>a DEF SweepRelease, release_claim, InHands, Running, Locals
  <2> QED
    BY <1>0, <2>1, <2>2, <2>3, SchedAssumption DEF Place, ProcType, Requeued
<1>4. CASE ~MovesClaim(c)
  <2>1. \A d \in CPU : me'[d].p = me[d].p
    BY Zenon, <1>0, <1>b, <1>4
  <2>2. CASE UNCHANGED <<status, onq, oncpu>>
    BY <2>1, <2>2 DEF Place
  <2>3. CASE PhaseEnd(c)
    <3>1. PICK A \in SUBSET (Queue("run") \cap Frozen) :
             onq' = [q \in Proc |-> IF q \in A THEN "done" ELSE onq[q]]
      BY Zenon, <2>3 DEF PhaseEnd
    <3>2. p \in A => onq[p] = "run"
      BY Zenon DEF Queue
    <3>3. status' = status /\ oncpu' = oncpu
      BY Zenon, <2>3 DEF PhaseEnd
    <3> QED
      BY <2>1, <3>1, <3>2, <3>3 DEF Place
  <2>4. CASE LapEnd(c)
    BY <2>1, <2>4 DEF LapEnd, Swapped, Place, ProcType
  <2>5. CASE make_ready(c)
    <3>1. me[c].wakee \in Proc
      BY Zenon, <1>a, <2>5 DEF make_ready, InHands
    <3>2. oncpu' = oncpu /\ status' = [status EXCEPT ![me[c].wakee] = "READY"]
      BY Zenon, <2>5 DEF make_ready
    <3>3. \/ oncpu[me[c].wakee] # NoCpu /\ onq' = onq
          \/ /\ oncpu[me[c].wakee] = NoCpu
             /\ onq' = [onq EXCEPT ![me[c].wakee] = IF @ = "none" THEN "run" ELSE @]
      BY Zenon, <2>5 DEF make_ready, InHand
    <3> QED
      BY <2>1, <3>1, <3>2, <3>3 DEF Place, ProcType
  <2>6. ASSUME NEW Q \in SUBSET Port \ {{}}, Block(c, Q) PROVE Place(p)'
    <3>1. me[c].p \in Proc
      BY Zenon, <1>a, <2>6 DEF Block, InHands, Running, Locals
    <3>2. oncpu[me[c].p] = c
      BY Zenon, <3>1 DEF Place
    <3> QED
      BY <2>1, <2>6, <3>1, <3>2 DEF Block, Place, ProcType
  <2> QED
    BY Zenon, <1>4, <2>2, <2>3, <2>4, <2>5, <2>6, Frame
       DEF MovesProc, MovesClaim, procVars, Resume, wake_claim
<1> QED
  BY Zenon, <1>1, <1>2, <1>3, <1>4 DEF MovesClaim

(* A proc comes into a slice where it is taken or resumed again, and stays
   with its cpu through it. *)
LEMMA SliceKept ==
    ASSUME CpuType, NEW c \in CPU, InHands(c), Acts(c), ~Take(c), ~SpendWeight(c), InSlice(c)'
    PROVE  InSlice(c) /\ me'[c].p = me[c].p
<1>0. me[c] \in Locals /\ pc[c] \in Places
  BY Zenon DEF CpuType
<1> USE <1>0 DEF CpuType, Locals, Goto, InSlice
<1>1. CASE Lap(c) \/ SweepEnd(c)
  BY <1>1 DEF Lap, SweepEnd, Fresh
<1>2. CASE PhaseEnd(c) \/ LapEnd(c)
  BY <1>2 DEF PhaseEnd, LapEnd
<1>3. CASE Tick(c) \/ GoIdle(c) \/ Halt(c) \/ Awake(c) \/ NotIdle(c)
  BY Zenon, <1>3 DEF Tick, GoIdle, Halt, Awake, NotIdle
<1>4. CASE Unlink(c) \/ Resume(c) \/ HoldAgain(c) \/ proc_thaw(c) \/ Preempt(c) \/ TurnOver(c)
  BY Zenon, <1>4 DEF Unlink, Resume, HoldAgain, proc_thaw, Preempt, Hook, TurnOver
<1>5. CASE release_claim(c)
  BY Zenon, <1>5 DEF release_claim, InHands, Waking
<1>6. CASE SweepClaim(c)
  BY <1>6 DEF SweepClaim, InHands, Waking
<1>7. CASE SweepRelease(c)
  BY Zenon, <1>7 DEF SweepRelease, InHands, Waking
<1>8. CASE WakeTest(c)
  BY <1>8 DEF WakeTest
<1>9. CASE wake_claim(c) \/ WakeCpu(c)
  BY <1>9 DEF wake_claim, WakeCpu
<1>10. CASE make_ready(c)
  BY <1>10 DEF make_ready
<1>11. CASE PushDone(c)
  BY Zenon, <1>11 DEF PushDone
<1>12. ASSUME NEW Q \in SUBSET Port \ {{}}, Block(c, Q) PROVE InSlice(c) /\ me'[c].p = me[c].p
  BY Zenon, <1>12 DEF Block
<1>13. ASSUME NEW q \in Port, Push(c, q) PROVE InSlice(c) /\ me'[c].p = me[c].p
  BY Zenon, <1>13 DEF Push
<1>14. ASSUME NEW q \in Port, Receive(c, q) PROVE InSlice(c) /\ me'[c].p = me[c].p
  BY Zenon, <1>14 DEF Receive
<1>15. ASSUME NEW t \in Proc, Hold(c, t) PROVE InSlice(c) /\ me'[c].p = me[c].p
  BY Zenon, <1>15 DEF Hold
<1> QED
  BY Zenon, <1>1, <1>2, <1>3, <1>4, <1>5, <1>6, <1>7, <1>8, <1>9, <1>10, <1>11, <1>12, <1>13, <1>14,
     <1>15 DEF Acts, Kernel, Stops

(* Only its own call blocks a proc. *)
LEMMA StillReady ==
    ASSUME PlaceInv, NEW c \in CPU, Acts(c), NEW p \in Proc, status[p] = "READY",
           \A Q \in SUBSET Port \ {{}} : Block(c, Q) => p # me[c].p
    PROVE  status'[p] = "READY"
<1> USE DEF PlaceInv
<1>1. CASE UNCHANGED status
  BY Zenon, <1>1
<1>2. CASE make_ready(c)
  BY Zenon, <1>2 DEF make_ready, ProcType
<1>3. ASSUME NEW Q \in SUBSET Port \ {{}}, Block(c, Q) PROVE status'[p] = "READY"
  BY Zenon, <1>3 DEF Block, ProcType
<1> QED
  BY Zenon, <1>1, <1>2, <1>3, Frame DEF MovesProc, procVars, Take, PhaseEnd, LapEnd, SweepClaim,
     SweepRelease, Resume, release_claim, wake_claim

(* The proc in a slice is runnable. *)
LEMMA SliceStep ==
    ASSUME PlaceInv, NEW c \in CPU, Acts(c), NEW d \in CPU, InSlice(d)'
    PROVE  status'[me'[d].p] = "READY"
<1> USE DEF PlaceInv
<1>0. me[d] \in Locals /\ me[c] \in Locals
  BY Zenon DEF CpuType
<1>1. CASE d # c
  <2>1. pc'[d] = pc[d] /\ me'[d] = me[d]
    BY Zenon, <1>1, OthersStay
  <2>2. InSlice(d)
    BY Zenon, <2>1 DEF InSlice
  <2>3. me[d].p \in Proc /\ status[me[d].p] = "READY"
    BY Zenon, <1>0, <2>2 DEF InSlice, InHands, Running, Locals
  <2>4. me[d].p # me[c].p
    BY <1>1, <2>3 DEF Place
  <2> QED
    BY Zenon, <2>1, <2>3, <2>4, StillReady
<1>2. CASE d = c /\ Take(c)
  <2>1. PICK A \in SUBSET (Queue("run") \cap Frozen), t \in Queue("run") \ Frozen :
          me' = [me EXCEPT ![c].p = t, ![c].left = Budget(c) - Cardinality(A) - 1,
                           ![c].turn = 1, ![c].ran = TRUE]
    BY Zenon, <1>2 DEF Take
  <2>2. me'[c].p = t
    BY Zenon, <1>0, <2>1 DEF CpuType, Locals
  <2>3. status[t] = "READY" /\ status' = status
    BY Zenon, <1>2 DEF Take, Queue, Place
  <2> QED
    BY Zenon, <1>2, <2>2, <2>3
<1>3. CASE d = c /\ SpendWeight(c)
  BY Zenon, <1>0, <1>3 DEF SpendWeight, procVars, CpuType, Locals
<1>4. CASE d = c /\ ~Take(c) /\ ~SpendWeight(c)
  <2>1. InSlice(c) /\ me'[c].p = me[c].p
    BY Zenon, <1>4, SliceKept
  <2>2. me[c].p \in Proc /\ status[me[c].p] = "READY"
    BY Zenon, <1>0, <2>1 DEF InSlice, InHands, Running, Locals
  <2>3. ASSUME NEW Q \in SUBSET Port \ {{}}, Block(c, Q) PROVE FALSE
    BY Zenon, <1>0, <1>4, <2>3 DEF Block, Goto, InSlice, InHands, Waking, CpuType
  <2> QED
    BY Zenon, <1>4, <2>1, <2>2, <2>3, StillReady
<1> QED
  BY Zenon, <1>1, <1>2, <1>3, <1>4

(* Boot: every proc is queued and no cpu has one. *)
LEMMA PlaceInit == Init => PlaceInv
<1> SUFFICES ASSUME Init PROVE PlaceInv
  BY Zenon
<1> USE SchedAssumption DEF Init
<1>1. ProcType /\ IpcType /\ HoldType
  BY Zenon DEF ProcType, IpcType, HoldType
<1>2. Fresh \in Locals /\ Fresh.p = NoProc /\ Fresh.ret = "lap" /\ Fresh.port = NoPort
  BY DEF Fresh, Locals
<1> HIDE DEF Fresh
<1>3. CpuType
  BY Zenon, <1>2 DEF CpuType, Places
<1>4. Buckets
  BY Zenon, <1>2 DEF Buckets
<1>5. \A c \in CPU : InHands(c) /\ ~InSlice(c)
  BY Zenon, <1>2 DEF InHands, InSlice, Running, Waking
<1>6. \A p \in Proc : Place(p)
  BY Zenon, <1>2 DEF Place
<1> QED
  BY Zenon, <1>1, <1>3, <1>4, <1>5, <1>6 DEF PlaceInv

(* So every step leaves every proc in its place. *)
LEMMA PlaceInvStep == ASSUME Sized, PlaceInv, NEW c \in CPU, Acts(c) PROVE PlaceInv'
<1> USE DEF PlaceInv
<1>1. pc[c] = "lua" => me[c].p \in Proc
  BY Zenon DEF CpuType, Locals, InHands, Running
<1>2. ProcType' /\ IpcType' /\ HoldType'
  BY Zenon, <1>1, ProcTypeStep, IpcTypeStep, HoldTypeStep
<1>3. CpuType'
  BY Zenon, MeTypeStep, PcTypeStep DEF CpuType
<1>4. Buckets' /\ \A d \in CPU : InHands(d)'
  BY Zenon, BucketsStep, InHandsStep
<1>5. \A p \in Proc : Place(p)'
  BY Zenon, PlaceStep
<1>6. \A d \in CPU : InSlice(d)' => status'[me'[d].p] = "READY"
  BY Zenon, SliceStep
<1> QED
  BY Zenon, <1>2, <1>3, <1>4, <1>5, <1>6

----------------------------------------------------------------------------
(* What wakes a proc. *)

(* The places, and the calls, of a proc past its wait_reap. *)
AtLua(c) == pc[c] \in {"lua", "again", "reading"} \/ me[c].ret = "lua"

(* Whoever is on a waiter list waits there. *)
Listed == \A p \in Proc, q \in Port : <<p, q>> \in linked => q \in waits[p]

(* A blocked proc nobody has claimed is on every list it waits on. *)
OnLists(p) ==
    status[p] = "BLOCKED" /\ ~woken[p] => \A q \in waits[p] : <<p, q>> \in linked

(* A proc that runs waits nowhere, and can be claimed once it does. *)
Clear(c) == AtLua(c) => waits[me[c].p] = {} /\ ~woken[me[c].p]

(* What a waker has on its way: procs still on the list of its port; one that
   is blocked unless another waker has claimed it; one it claimed. *)
Waker(c) ==
    /\ pc[c] \in Waking => \A p \in me[c].todo : <<p, me[c].port>> \in linked
    /\ pc[c] = "claim" => /\ <<me[c].wakee, me[c].port>> \in linked
                          /\ me[c].wakee \notin me[c].todo
                          /\ ~woken[me[c].wakee] => status[me[c].wakee] = "BLOCKED"
    /\ pc[c] = "ready" => woken[me[c].wakee] /\ status[me[c].wakee] = "BLOCKED"

(* One waker at a time has claimed a proc. *)
OneWaker ==
    \A c, d \in CPU : pc[c] = "ready" /\ pc[d] = "ready" /\ me[c].wakee = me[d].wakee => c = d

Comes(c, p, q) == bucket[q] = c /\ (p \in me[c].todo \/ (me[c].wakee = p /\ pc[c] = "claim"))

(* A blocked proc that was claimed has its waker, and one with a message has
   a waker that will come to it. *)
Reached(p) ==
    /\ status[p] = "BLOCKED" /\ woken[p] => \E c \in CPU : pc[c] = "ready" /\ me[c].wakee = p
    /\ \A q \in waits[p] : status[p] = "BLOCKED" /\ ~woken[p] /\ msgs[q] > 0 =>
          \E c \in CPU : Comes(c, p, q)

(* What wakes a proc, together. *)
WakeInv ==
    /\ Listed /\ OneWaker
    /\ \A p \in Proc : OnLists(p) /\ Reached(p)
    /\ \A c \in CPU : Clear(c) /\ Waker(c)

----------------------------------------------------------------------------
(* Which steps a cpu takes where. *)

(* The steps of a cpu in wait_reap, in a wake, in a hold and in Lua. *)
LEMMA Doing ==
    ASSUME NEW c \in CPU, Acts(c)
    PROVE  /\ pc[c] = "reap" => Unlink(c) \/ Resume(c)
           /\ pc[c] \in Waking =>
                WakeTest(c) \/ wake_claim(c) \/ make_ready(c) \/ WakeCpu(c) \/ PushDone(c)
           /\ pc[c] = "again" => HoldAgain(c)
           /\ pc[c] = "reading" => proc_thaw(c)
           /\ pc[c] = "lua" =>
                \/ Stops(c)
                \/ \E q \in Port : Push(c, q) \/ Receive(c, q)
                \/ \E t \in Proc : Hold(c, t)
<1> USE DEF Waking
<1>1. CASE Lap(c) \/ Take(c) \/ PhaseEnd(c) \/ LapEnd(c) \/ Tick(c) \/ GoIdle(c)
  BY Zenon, <1>1 DEF Lap, Take, PhaseEnd, LapEnd, Tick, GoIdle
<1>2. CASE Halt(c) \/ Awake(c) \/ NotIdle(c) \/ SpendWeight(c) \/ TurnOver(c) \/ release_claim(c)
  BY Zenon, <1>2 DEF Halt, Awake, NotIdle, SpendWeight, TurnOver, release_claim
<1>3. CASE Resume(c) \/ make_ready(c) \/ WakeTest(c) \/ WakeCpu(c) \/ Unlink(c) \/ wake_claim(c) \/ PushDone(c)
  BY Zenon, <1>3 DEF Resume, Unlink, make_ready, WakeTest, WakeCpu, wake_claim, PushDone
<1>4. CASE SweepClaim(c) \/ SweepRelease(c) \/ SweepEnd(c) \/ HoldAgain(c) \/ Preempt(c) \/ proc_thaw(c)
  BY Zenon, <1>4 DEF SweepClaim, SweepRelease, SweepEnd, HoldAgain, Preempt, Hook, proc_thaw, Stops
<1>5. CASE \E Q \in SUBSET Port \ {{}} : Block(c, Q)
  BY Zenon, <1>5 DEF Block, Stops
<1>6. CASE \E q \in Port : Push(c, q) \/ Receive(c, q)
  BY Zenon, <1>6 DEF Push, Receive
<1>7. CASE \E t \in Proc : Hold(c, t)
  BY Zenon, <1>7 DEF Hold
<1> QED
  BY Zenon, <1>1, <1>2, <1>3, <1>4, <1>5, <1>6, <1>7 DEF Acts, Kernel, Stops

(* A wake begins with a push. *)
LEMMA Entering ==
    ASSUME CpuType, NEW c \in CPU, Acts(c), pc'[c] \in Waking
    PROVE  \/ \E q \in Port : Push(c, q)
           \/ WakeTest(c) \/ wake_claim(c) \/ make_ready(c) \/ WakeCpu(c)
<1> USE DEF Waking, Goto, CpuType
<1>1. CASE Lap(c) \/ Take(c) \/ PhaseEnd(c) \/ LapEnd(c) \/ Tick(c) \/ GoIdle(c)
  BY Zenon, <1>1 DEF Lap, Take, PhaseEnd, LapEnd, Tick, GoIdle
<1>2. CASE Halt(c) \/ Awake(c) \/ NotIdle(c) \/ SpendWeight(c) \/ TurnOver(c) \/ release_claim(c)
  BY Zenon, <1>2 DEF Halt, Awake, NotIdle, SpendWeight, TurnOver, release_claim
<1>3. CASE Resume(c) \/ Unlink(c)
  BY Zenon, <1>3 DEF Resume, Unlink
<1>4. CASE SweepClaim(c) \/ SweepRelease(c) \/ SweepEnd(c) \/ HoldAgain(c) \/ Preempt(c) \/ proc_thaw(c)
  BY Zenon, <1>4 DEF SweepClaim, SweepRelease, SweepEnd, HoldAgain, Preempt, proc_thaw
<1>5. CASE \E Q \in SUBSET Port \ {{}} : Block(c, Q)
  BY Zenon, <1>5 DEF Block
<1>6. CASE \E q \in Port : Receive(c, q)
  BY Zenon, <1>6 DEF Receive
<1>7. CASE \E t \in Proc : Hold(c, t)
  BY Zenon, <1>7 DEF Hold
<1>8. CASE PushDone(c)
  <2>1. pc'[c] = me[c].ret /\ me[c].ret \in {"lap", "lua"}
    BY Zenon, <1>8 DEF PushDone, Locals
  <2> QED
    BY Zenon, <2>1
<1> QED
  BY Zenon, <1>1, <1>2, <1>3, <1>4, <1>5, <1>6, <1>7, <1>8 DEF Acts, Kernel, Stops

(* A proc gets past its wait_reap by Resume. *)
LEMMA LuaKept ==
    ASSUME CpuType, NEW c \in CPU, InHands(c), Acts(c), ~Resume(c), AtLua(c)'
    PROVE  AtLua(c) /\ me'[c].p = me[c].p
<1>0. me[c] \in Locals /\ pc[c] \in Places
  BY Zenon DEF CpuType
<1>1. ASSUME Take(c) \/ SpendWeight(c) PROVE FALSE
  <2>1. pc'[c] = "reap" /\ me[c].ret # "lua"
    BY Zenon, <1>1 DEF Take, SpendWeight, Goto, CpuType, InHands, Waking
  <2>2. me'[c].ret = me[c].ret
    <3>1. CASE Take(c)
      BY <1>0, <3>1 DEF Take, CpuType, Locals
    <3>2. CASE SpendWeight(c)
      BY <1>0, <3>2 DEF SpendWeight, CpuType, Locals
    <3> QED
      BY Zenon, <1>1, <3>1, <3>2
  <2> QED
    BY Zenon, <2>1, <2>2 DEF AtLua
<1>2. InSlice(c)'
  BY Zenon DEF InSlice, AtLua
<1>3. InSlice(c) /\ me'[c].p = me[c].p
  BY Zenon, <1>1, <1>2, SliceKept
<1>4. ASSUME pc[c] = "reap" PROVE FALSE
  <2>1. Unlink(c)
    BY Zenon, <1>4, Doing
  <2> QED
    BY Zenon, <1>4, <2>1 DEF Unlink, AtLua, InHands, Waking
<1> QED
  BY Zenon, <1>3, <1>4 DEF InSlice, AtLua

----------------------------------------------------------------------------
(* Waiter lists. *)

(* A cpu in a slice, or past its wait_reap, has a proc, which is runnable. *)
LEMMA HasProc ==
    ASSUME PlaceInv, NEW c \in CPU, InSlice(c) \/ AtLua(c)
    PROVE  me[c].p \in Proc /\ status[me[c].p] = "READY"
<1>1. InSlice(c)
  BY Zenon DEF InSlice, AtLua
<1>2. me[c].p # NoProc /\ status[me[c].p] = "READY"
  BY Zenon, <1>1 DEF PlaceInv, InSlice, InHands, Running
<1>3. me[c].p \in Proc \cup {NoProc}
  BY DEF PlaceInv, CpuType, Locals
<1> QED
  BY Zenon, <1>2, <1>3

(* Two cpus have two procs. *)
LEMMA Apart ==
    ASSUME PlaceInv, NEW c \in CPU, NEW d \in CPU, c # d, me[d].p \in Proc
    PROVE  me[c].p # me[d].p
<1> DEFINE p == me[d].p
<1>1. Place(p)
  BY Zenon DEF PlaceInv
<1>2. oncpu[p] = d
  BY Zenon, <1>1 DEF Place
<1>3. me[c].p = p => oncpu[p] = c
  BY Zenon, <1>1 DEF Place
<1> QED
  BY Zenon, <1>2, <1>3

(* A proc is blocked by its own call only. *)
LEMMA WasBlocked ==
    ASSUME PlaceInv, NEW c \in CPU, Acts(c), NEW p \in Proc, status'[p] = "BLOCKED",
           \A Q \in SUBSET Port \ {{}} : Block(c, Q) => p # me[c].p
    PROVE  status[p] = "BLOCKED"
<1>1. status[p] \in {"READY", "BLOCKED"}
  BY Zenon DEF PlaceInv, ProcType
<1> QED
  BY Zenon, <1>1, StillReady

(* What each step does to waiter lists and to the woken flag. *)
LEMMA ListsMove ==
    ASSUME NEW c \in CPU, Acts(c)
    PROVE  \/ UNCHANGED <<waits, linked, woken>>
           \/ Unlink(c) \/ Resume(c) \/ wake_claim(c)
           \/ \E Q \in SUBSET Port \ {{}} : Block(c, Q)
<1>1. CASE MovesProc(c)
  BY Zenon, <1>1 DEF MovesProc, Take, PhaseEnd, LapEnd, SweepClaim, SweepRelease, release_claim,
     make_ready, ipcVars
<1>2. CASE MovesIpc(c)
  BY Zenon, <1>2 DEF MovesIpc, PushDone, Push, Receive, procVars
<1>3. CASE UNCHANGED procVars /\ UNCHANGED ipcVars
  BY Zenon, <1>3 DEF procVars, ipcVars
<1> QED
  BY Zenon, <1>1, <1>2, <1>3, Frame

(* A block links where it waits, and wait_reap unlinks before it forgets. *)
LEMMA ListedStep ==
    ASSUME PlaceInv, Listed, NEW c \in CPU, Clear(c), Acts(c)
    PROVE  Listed'
<1> SUFFICES ASSUME NEW p \in Proc, NEW q \in Port, <<p, q>> \in linked' PROVE q \in waits'[p]
  BY Zenon DEF Listed
<1>0. waits \in [Proc -> SUBSET Port]
  BY Zenon DEF PlaceInv, IpcType
<1>1. CASE UNCHANGED <<waits, linked>>
  BY Zenon, <1>1 DEF Listed
<1>2. CASE Unlink(c)
  <2>1. PICK x \in waits[me[c].p] :
          /\ waits' = [waits EXCEPT ![me[c].p] = @ \ {x}]
          /\ linked' = linked \ {<<me[c].p, x>>}
    BY Zenon, <1>2 DEF Unlink
  <2>2. q \in waits[p] /\ <<p, q>> # <<me[c].p, x>>
    BY Zenon, <2>1 DEF Listed
  <2> QED
    BY <1>0, <2>1, <2>2
<1>3. CASE wake_claim(c)
  BY Zenon, <1>3 DEF wake_claim, Listed
<1>4. CASE Resume(c)
  BY Zenon, <1>4 DEF Resume, ipcVars, Listed
<1>5. ASSUME NEW Q \in SUBSET Port \ {{}}, Block(c, Q) PROVE q \in waits'[p]
  <2>1. /\ waits' = [waits EXCEPT ![me[c].p] = Q]
        /\ linked' = linked \cup {<<me[c].p, x>> : x \in Q}
    BY Zenon, <1>5 DEF Block
  <2>2. waits[me[c].p] = {}
    BY Zenon, <1>5 DEF Block, Clear, AtLua
  <2>3. CASE p = me[c].p
    <3>1. <<p, q>> \notin linked
      BY Zenon, <2>2, <2>3 DEF Listed
    <3>2. q \in Q
      BY <2>1, <2>3, <3>1
    <3> QED
      BY Zenon, <1>0, <2>1, <2>3, <3>2
  <2>4. CASE p # me[c].p
    <3>1. <<p, q>> \in linked
      BY <2>1, <2>4
    <3> QED
      BY Zenon, <1>0, <2>1, <2>4, <3>1 DEF Listed
  <2> QED
    BY Zenon, <2>3, <2>4
<1> QED
  BY Zenon, <1>1, <1>2, <1>3, <1>4, <1>5, ListsMove

(* A waker unlinks only a proc it has claimed, and wait_reap its own. *)
LEMMA OnListsStep ==
    ASSUME PlaceInv, NEW p \in Proc, OnLists(p), NEW c \in CPU, Acts(c)
    PROVE  OnLists(p)'
<1> SUFFICES ASSUME status'[p] = "BLOCKED", ~woken'[p], NEW q \in waits'[p]
             PROVE  <<p, q>> \in linked'
  BY Zenon DEF OnLists
<1>0. waits \in [Proc -> SUBSET Port] /\ woken \in [Proc -> BOOLEAN]
  BY Zenon DEF PlaceInv, IpcType, ProcType
<1>a. ASSUME NEW Q \in SUBSET Port \ {{}}, Block(c, Q) PROVE <<p, q>> \in linked'
  <2>1. /\ waits' = [waits EXCEPT ![me[c].p] = Q]
        /\ linked' = linked \cup {<<me[c].p, x>> : x \in Q}
        /\ woken' = woken
    BY Zenon, <1>a DEF Block
  <2>2. CASE p = me[c].p
    <3>1. q \in Q
      BY Zenon, <1>0, <2>1, <2>2
    <3> QED
      BY Zenon, <2>1, <2>2, <3>1
  <2>3. CASE p # me[c].p
    <3>1. status[p] = "BLOCKED"
      BY Zenon, <1>a, <2>3 DEF Block, PlaceInv, ProcType
    <3>2. q \in waits[p]
      BY Zenon, <1>0, <2>1, <2>3
    <3> QED
      BY Zenon, <2>1, <3>1, <3>2 DEF OnLists
  <2> QED
    BY Zenon, <2>2, <2>3
<1>b. CASE \A Q \in SUBSET Port \ {{}} : ~Block(c, Q)
  <2>0. status[p] = "BLOCKED"
    BY Zenon, <1>b, WasBlocked
  <2>1. CASE UNCHANGED <<waits, linked, woken>>
    BY Zenon, <2>0, <2>1 DEF OnLists
  <2>2. CASE Unlink(c)
    <3>1. p # me[c].p
      BY Zenon, <2>0, <2>2, HasProc DEF Unlink, InSlice
    <3>2. PICK x \in waits[me[c].p] :
            /\ waits' = [waits EXCEPT ![me[c].p] = @ \ {x}]
            /\ linked' = linked \ {<<me[c].p, x>>}
      BY Zenon, <2>2 DEF Unlink
    <3>3. q \in waits[p] /\ ~woken[p]
      BY Zenon, <1>0, <2>2, <3>1, <3>2 DEF Unlink, procVars
    <3>4. <<p, q>> # <<me[c].p, x>>
      BY <3>1
    <3> QED
      BY Zenon, <2>0, <3>2, <3>3, <3>4 DEF OnLists
  <2>3. CASE wake_claim(c)
    <3>0. waits' = waits
      BY Zenon, <2>3 DEF wake_claim
    <3>1. CASE UNCHANGED <<woken, linked>>
      BY Zenon, <2>0, <3>0, <3>1 DEF OnLists
    <3>2. CASE /\ woken' = [woken EXCEPT ![me[c].wakee] = TRUE]
               /\ linked' = linked \ {<<me[c].wakee, me[c].port>>}
      <4>1. p # me[c].wakee /\ ~woken[p]
        BY Zenon, <1>0, <3>2
      <4>2. <<p, q>> # <<me[c].wakee, me[c].port>>
        BY <4>1
      <4> QED
        BY Zenon, <2>0, <3>0, <3>2, <4>1, <4>2 DEF OnLists
    <3> QED
      BY Zenon, <2>3, <3>1, <3>2 DEF wake_claim
  <2>4. CASE Resume(c)
    <3>1. p # me[c].p
      BY Zenon, <2>0, <2>4, HasProc DEF Resume, InSlice
    <3>2. ~woken[p]
      BY Zenon, <1>0, <2>4, <3>1 DEF Resume, Rearmed
    <3> QED
      BY Zenon, <2>0, <2>4, <3>2 DEF Resume, ipcVars, OnLists
  <2> QED
    BY Zenon, <1>b, <2>1, <2>2, <2>3, <2>4, ListsMove
<1> QED
  BY Zenon, <1>a, <1>b

(* A proc that waits nowhere is claimed by no waker. *)
LEMMA StaysClear ==
    ASSUME PlaceInv, Listed, NEW c \in CPU, Waker(c), Acts(c), NEW r \in Proc,
           waits[r] = {}, ~woken[r], \A Q \in SUBSET Port \ {{}} : Block(c, Q) => r # me[c].p
    PROVE  waits'[r] = {} /\ ~woken'[r]
<1>0. waits \in [Proc -> SUBSET Port] /\ woken \in [Proc -> BOOLEAN]
  BY Zenon DEF PlaceInv, IpcType, ProcType
<1>1. CASE UNCHANGED <<waits, linked, woken>>
  BY Zenon, <1>1
<1>2. CASE Unlink(c)
  BY Zenon, <1>0, <1>2 DEF Unlink, procVars
<1>3. CASE wake_claim(c)
  <2>1. waits' = waits /\ (woken' = woken \/ woken' = [woken EXCEPT ![me[c].wakee] = TRUE])
    BY Zenon, <1>3 DEF wake_claim
  <2>2. me[c].port \in Port
    BY <1>3 DEF wake_claim, PlaceInv, InHands, Waking, CpuType, Locals
  <2>3. r # me[c].wakee
    BY Zenon, <1>3, <2>2 DEF wake_claim, Waker, Listed
  <2> QED
    BY Zenon, <1>0, <2>1, <2>3
<1>4. CASE Resume(c)
  BY Zenon, <1>0, <1>4 DEF Resume, Rearmed, ipcVars
<1>5. ASSUME NEW Q \in SUBSET Port \ {{}}, Block(c, Q) PROVE waits'[r] = {} /\ ~woken'[r]
  BY Zenon, <1>0, <1>5 DEF Block
<1> QED
  BY Zenon, <1>1, <1>2, <1>3, <1>4, <1>5, ListsMove

(* wait_reap leaves nothing behind, and nobody wakes a proc that runs. *)
LEMMA ClearStep ==
    ASSUME PlaceInv, Listed, NEW c \in CPU, Waker(c), Acts(c), NEW d \in CPU, Clear(d)
    PROVE  Clear(d)'
<1> SUFFICES ASSUME AtLua(d)' PROVE waits'[me'[d].p] = {} /\ ~woken'[me'[d].p]
  BY Zenon DEF Clear
<1>0. CpuType /\ InHands(c)
  BY Zenon DEF PlaceInv
<1>1. CASE d # c
  <2>1. pc'[d] = pc[d] /\ me'[d] = me[d]
    BY Zenon, <1>0, <1>1, OthersStay
  <2>2. AtLua(d)
    BY Zenon, <2>1 DEF AtLua
  <2>3. me[d].p \in Proc
    BY Zenon, <2>2, HasProc
  <2>4. me[d].p # me[c].p
    BY Zenon, <1>1, <2>3, Apart
  <2> QED
    BY Zenon, <2>1, <2>2, <2>3, <2>4, StaysClear DEF Clear
<1>2. CASE d = c /\ Resume(c)
  <2>1. me[c].p \in Proc
    BY Zenon, <1>2, HasProc DEF Resume, InSlice
  <2> QED
    BY Zenon, <1>2, <2>1 DEF Resume, Rearmed, ipcVars, PlaceInv, ProcType
<1>3. CASE d = c /\ ~Resume(c)
  <2>1. AtLua(c) /\ me'[c].p = me[c].p
    BY Zenon, <1>0, <1>3, LuaKept
  <2>2. me[c].p \in Proc
    BY Zenon, <2>1, HasProc
  <2>3. ASSUME NEW Q \in SUBSET Port \ {{}}, Block(c, Q) PROVE FALSE
    <3>1. pc'[c] = "yield" /\ me' = me
      BY Zenon, <1>0, <2>3 DEF Block, Goto, CpuType
    <3>2. me[c].ret # "lua"
      BY Zenon, <1>0, <2>3 DEF Block, InHands, Waking
    <3> QED
      BY Zenon, <1>3, <3>1, <3>2 DEF AtLua
  <2> QED
    BY Zenon, <1>3, <2>1, <2>2, <2>3, StaysClear DEF Clear
<1> QED
  BY Zenon, <1>1, <1>2, <1>3

----------------------------------------------------------------------------
(* Wakers. *)

(* A port's list is left alone while another cpu has its bucket. *)
LEMMA LinkKept ==
    ASSUME PlaceInv, NEW c \in CPU, Acts(c), NEW d \in CPU, d # c,
           NEW p \in Proc, NEW q \in Port, me[d].port = q, <<p, q>> \in linked
    PROVE  <<p, q>> \in linked'
<1>0. bucket[q] = d /\ d # NoCpu
  BY Zenon, SchedAssumption DEF PlaceInv, Buckets
<1>1. CASE UNCHANGED linked
  BY Zenon, <1>1
<1>2. CASE Unlink(c)
  <2>1. PICK x \in waits[me[c].p] :
          /\ <<me[c].p, x>> \in linked => bucket[x] = NoCpu
          /\ linked' = linked \ {<<me[c].p, x>>}
    BY Zenon, <1>2 DEF Unlink
  <2>2. <<p, q>> # <<me[c].p, x>>
    BY <1>0, <2>1
  <2> QED
    BY Zenon, <2>1, <2>2
<1>3. CASE wake_claim(c)
  <2>1. linked' = linked \/ linked' = linked \ {<<me[c].wakee, me[c].port>>}
    BY Zenon, <1>3 DEF wake_claim
  <2>2. me[c].port # q
    BY Zenon, <1>0 DEF PlaceInv, Buckets
  <2>3. <<p, q>> # <<me[c].wakee, me[c].port>>
    BY <2>2
  <2> QED
    BY Zenon, <2>1, <2>3
<1>4. CASE Resume(c)
  BY Zenon, <1>4 DEF Resume, ipcVars
<1>5. ASSUME NEW Q \in SUBSET Port \ {{}}, Block(c, Q) PROVE <<p, q>> \in linked'
  BY Zenon, <1>5 DEF Block
<1> QED
  BY Zenon, <1>1, <1>2, <1>3, <1>4, <1>5, ListsMove

(* A claim lasts until its proc, made ready, is resumed. *)
LEMMA WokenKept ==
    ASSUME PlaceInv, NEW c \in CPU, Acts(c), NEW p \in Proc, woken[p]
    PROVE  woken'[p] \/ (Resume(c) /\ p = me[c].p)
<1>0. woken \in [Proc -> BOOLEAN]
  BY Zenon DEF PlaceInv, ProcType
<1>1. CASE UNCHANGED woken
  BY Zenon, <1>1
<1>2. CASE wake_claim(c)
  BY Zenon, <1>0, <1>2 DEF wake_claim
<1>3. CASE Resume(c)
  BY Zenon, <1>0, <1>3 DEF Resume, Rearmed
<1> QED
  BY Zenon, <1>1, <1>2, <1>3, ListsMove DEF Unlink, Block, procVars

(* A blocked proc stays so until the waker that claimed it readies it. *)
LEMMA BlockedKept ==
    ASSUME PlaceInv, NEW c \in CPU, Acts(c), NEW p \in Proc, status[p] = "BLOCKED"
    PROVE  status'[p] = "BLOCKED" \/ (make_ready(c) /\ p = me[c].wakee)
<1>0. status \in [Proc -> {"READY", "BLOCKED"}]
  BY Zenon DEF PlaceInv, ProcType
<1>1. CASE UNCHANGED status
  BY Zenon, <1>1
<1>2. CASE make_ready(c)
  BY Zenon, <1>0, <1>2 DEF make_ready
<1>3. ASSUME NEW Q \in SUBSET Port \ {{}}, Block(c, Q) PROVE status'[p] = "BLOCKED"
  BY Zenon, <1>0, <1>3 DEF Block
<1> QED
  BY Zenon, <1>1, <1>2, <1>3, Frame DEF MovesProc, procVars, Take, PhaseEnd, LapEnd, SweepClaim,
     SweepRelease, Resume, release_claim, wake_claim

(* A waker may count on what it found, whatever the other cpus do. *)
LEMMA WakerOther ==
    ASSUME PlaceInv, Listed, OneWaker, NEW c \in CPU, Waker(c), Acts(c),
           NEW d \in CPU, d # c, Waker(d)
    PROVE  Waker(d)'
<1> DEFINE w == me[d].wakee
<1>1. pc'[d] = pc[d] /\ me'[d] = me[d]
  BY Zenon, OthersStay DEF PlaceInv
<1>2. pc[d] \in Waking => me[d].port \in Port
  BY DEF PlaceInv, InHands, CpuType, Locals
<1>3. pc[d] \in {"claim", "ready"} => w \in Proc
  BY Zenon DEF PlaceInv, InHands
<1>4. ASSUME pc[d] \in Waking, NEW p \in me[d].todo PROVE <<p, me[d].port>> \in linked'
  <2>1. p \in Proc
    BY <1>4 DEF PlaceInv, CpuType, Locals
  <2> QED
    BY Zenon, <1>2, <1>4, <2>1, LinkKept DEF Waker
<1>5. ASSUME pc[d] = "claim"
      PROVE  /\ <<w, me[d].port>> \in linked'
             /\ w \notin me[d].todo
             /\ ~woken'[w] => status'[w] = "BLOCKED"
  <2>0. me[d].port \in Port /\ w \in Proc
    BY Zenon, <1>2, <1>3, <1>5 DEF Waking
  <2>1. <<w, me[d].port>> \in linked /\ w \notin me[d].todo
    BY Zenon, <1>5 DEF Waker
  <2>2. ASSUME ~woken'[w] PROVE status'[w] = "BLOCKED"
    <3>1. waits[w] # {}
      BY Zenon, <2>0, <2>1 DEF Listed
    <3>2. ~woken[w]
      BY Zenon, <2>0, <2>2, <3>1, WokenKept DEF Resume
    <3>3. status[w] = "BLOCKED"
      BY Zenon, <1>5, <3>2 DEF Waker
    <3>4. make_ready(c) => woken[me[c].wakee]
      BY Zenon DEF make_ready, Waker
    <3> QED
      BY Zenon, <2>0, <3>2, <3>3, <3>4, BlockedKept
  <2> QED
    BY Zenon, <2>0, <2>1, <2>2, LinkKept
<1>6. ASSUME pc[d] = "ready" PROVE woken'[w] /\ status'[w] = "BLOCKED"
  <2>0. w \in Proc /\ woken[w] /\ status[w] = "BLOCKED"
    BY Zenon, <1>3, <1>6 DEF Waker
  <2>1. ~(Resume(c) /\ w = me[c].p)
    BY Zenon, <2>0, HasProc DEF Resume, InSlice
  <2>2. ~(make_ready(c) /\ w = me[c].wakee)
    BY Zenon, <1>6 DEF make_ready, OneWaker
  <2> QED
    BY Zenon, <2>0, <2>1, <2>2, WokenKept, BlockedKept
<1> QED
  BY Zenon, <1>1, <1>4, <1>5, <1>6 DEF Waker

(* The steps of a wake keep what the next ones need. *)
LEMMA WakerOwn ==
    ASSUME PlaceInv, NEW c \in CPU, Waker(c), Acts(c)
    PROVE  Waker(c)'
<1>0. CpuType /\ me[c] \in Locals
  BY Zenon DEF PlaceInv, CpuType
<1> SUFFICES ASSUME pc'[c] \in Waking PROVE Waker(c)'
  BY Zenon DEF Waker, Waking
<1>1. ASSUME NEW q \in Port, Push(c, q) PROVE Waker(c)'
  <2>1. pc'[c] = "wake" /\ linked' = linked
    BY Zenon, <1>0, <1>1 DEF Push, Goto, CpuType
  <2>2. me'[c].port = q /\ me'[c].todo = {p \in Proc : <<p, q>> \in linked}
    BY <1>0, <1>1 DEF Push, CpuType, Locals
  <2> QED
    BY Zenon, <2>1, <2>2 DEF Waker
<1>2. CASE WakeTest(c)
  <2>1. /\ UNCHANGED <<linked, woken, status>>
        /\ pc[c] = "wake"
    BY Zenon, <1>2 DEF WakeTest, procVars, ipcVars
  <2>2. \A p \in me[c].todo : <<p, me[c].port>> \in linked
    BY Zenon, <2>1 DEF Waker, Waking
  <2>3. PICK p \in me[c].todo :
          \/ /\ me' = [me EXCEPT ![c].todo = @ \ {p}, ![c].wakee = p]
             /\ Goto(c, "claim") /\ status[p] = "BLOCKED"
          \/ me' = [me EXCEPT ![c].todo = @ \ {p}] /\ UNCHANGED pc
    BY Zenon, <1>2 DEF WakeTest
  <2>4. CASE /\ me' = [me EXCEPT ![c].todo = @ \ {p}, ![c].wakee = p]
             /\ Goto(c, "claim") /\ status[p] = "BLOCKED"
    <3>1. me'[c].todo = me[c].todo \ {p} /\ me'[c].wakee = p /\ me'[c].port = me[c].port
      BY <1>0, <2>4 DEF CpuType, Locals
    <3>2. pc'[c] = "claim"
      BY Zenon, <1>0, <2>4 DEF Goto, CpuType
    <3>3. \A x \in me'[c].todo : <<x, me'[c].port>> \in linked'
      BY Zenon, <2>1, <2>2, <3>1
    <3>4. <<me'[c].wakee, me'[c].port>> \in linked' /\ me'[c].wakee \notin me'[c].todo
      BY Zenon, <2>1, <2>2, <3>1
    <3>5. status'[me'[c].wakee] = "BLOCKED"
      BY Zenon, <2>1, <2>4, <3>1
    <3> QED
      BY Zenon, <3>2, <3>3, <3>4, <3>5 DEF Waker
  <2>5. CASE me' = [me EXCEPT ![c].todo = @ \ {p}] /\ UNCHANGED pc
    <3>1. me'[c].todo = me[c].todo \ {p} /\ me'[c].port = me[c].port
      BY <1>0, <2>5 DEF CpuType, Locals
    <3>2. \A x \in me'[c].todo : <<x, me'[c].port>> \in linked'
      BY Zenon, <2>1, <2>2, <3>1
    <3>3. pc'[c] = "wake"
      BY Zenon, <2>1, <2>5
    <3> QED
      BY Zenon, <3>2, <3>3 DEF Waker
  <2> QED
    BY Zenon, <2>3, <2>4, <2>5
<1>3. CASE wake_claim(c)
  <2>1. pc[c] = "claim" /\ UNCHANGED <<status, me>>
    BY Zenon, <1>3 DEF wake_claim
  <2>2. /\ \A p \in me[c].todo : <<p, me[c].port>> \in linked
        /\ me[c].wakee \notin me[c].todo
        /\ ~woken[me[c].wakee] => status[me[c].wakee] = "BLOCKED"
        /\ me[c].wakee \in Proc
    BY Zenon, <2>1 DEF Waker, Waking, PlaceInv, InHands
  <2>3. CASE woken[me[c].wakee]
    <3>1. pc'[c] = "wake" /\ linked' = linked
      BY Zenon, <1>0, <1>3, <2>3 DEF wake_claim, Claimed, Goto, CpuType
    <3> QED
      BY Zenon, <2>1, <2>2, <3>1 DEF Waker
  <2>4. CASE ~woken[me[c].wakee]
    <3>1. /\ pc'[c] = "ready" /\ woken'[me[c].wakee]
          /\ linked' = linked \ {<<me[c].wakee, me[c].port>>}
      BY Zenon, <1>0, <1>3, <2>2, <2>4 DEF wake_claim, Claimed, Goto, CpuType, PlaceInv, ProcType
    <3>2. \A p \in me[c].todo : <<p, me[c].port>> # <<me[c].wakee, me[c].port>>
      BY <2>2
    <3> QED
      BY Zenon, <2>1, <2>2, <2>4, <3>1, <3>2 DEF Waker
  <2> QED
    BY Zenon, <2>3, <2>4
<1>4. CASE make_ready(c) \/ WakeCpu(c)
  <2>1. pc[c] \in Waking /\ linked' = linked /\ pc'[c] \in {"wake", "ipi"}
    BY Zenon, <1>0, <1>4 DEF make_ready, WakeCpu, Goto, CpuType, Waking, ipcVars
  <2>2. me'[c].todo = me[c].todo /\ me'[c].port = me[c].port
    <3>1. me' = me \/ \E d : me' = [me EXCEPT ![c].ipi = d]
      BY Zenon, <1>4 DEF make_ready, WakeCpu
    <3> QED
      BY <1>0, <3>1 DEF CpuType, Locals
  <2> QED
    BY Zenon, <2>1, <2>2 DEF Waker
<1> QED
  BY Zenon, <1>0, <1>1, <1>2, <1>3, <1>4, Entering

(* The second of two wakers finds the proc claimed. *)
LEMMA OneWakerStep ==
    ASSUME PlaceInv, OneWaker, \A d \in CPU : Waker(d), NEW c \in CPU, Acts(c)
    PROVE  OneWaker'
<1>0. CpuType
  BY Zenon DEF PlaceInv
<1>1. ASSUME NEW d \in CPU, d # c, pc'[c] = "ready", pc'[d] = "ready", me'[c].wakee = me'[d].wakee
      PROVE  FALSE
  <2>1. pc[d] = "ready" /\ me'[d] = me[d]
    BY Zenon, <1>0, <1>1, OthersStay
  <2>2. wake_claim(c)
    <3>1. ASSUME NEW q \in Port, Push(c, q) PROVE FALSE
      BY Zenon, <1>0, <1>1, <3>1 DEF Push, Goto, CpuType
    <3>2. ~WakeTest(c)
      BY Zenon, <1>0, <1>1 DEF WakeTest, Goto, CpuType
    <3>3. ~make_ready(c) /\ ~WakeCpu(c)
      BY Zenon, <1>0, <1>1 DEF make_ready, WakeCpu, Goto, CpuType
    <3> QED
      BY Zenon, <1>0, <1>1, <3>1, <3>2, <3>3, Entering DEF Waking
  <2>3. me' = me /\ ~woken[me[c].wakee]
    BY Zenon, <1>0, <1>1, <2>2 DEF wake_claim, Claimed, Goto, CpuType
  <2> QED
    BY Zenon, <1>1, <2>1, <2>3 DEF Waker
<1>2. \A d \in CPU \ {c} : pc'[d] = pc[d] /\ me'[d] = me[d]
  BY Zenon, <1>0, OthersStay
<1> QED
  BY Zenon, <1>1, <1>2 DEF OneWaker

----------------------------------------------------------------------------
(* Who comes. *)

(* A claimed proc has its waker until the waker has readied it. *)
LEMMA ClaimReached ==
    ASSUME PlaceInv, NEW c \in CPU, Clear(c), Acts(c), NEW p \in Proc, Reached(p),
           status'[p] = "BLOCKED", woken'[p]
    PROVE  \E d \in CPU : pc'[d] = "ready" /\ me'[d].wakee = p
<1>0. CpuType /\ woken \in [Proc -> BOOLEAN]
  BY Zenon DEF PlaceInv, ProcType
<1>1. ASSUME NEW Q \in SUBSET Port \ {{}}, Block(c, Q) PROVE p # me[c].p
  BY Zenon, <1>1 DEF Block, Clear, AtLua
<1>2. status[p] = "BLOCKED"
  BY Zenon, <1>1, WasBlocked
<1>3. CASE woken[p]
  <2>1. PICK d \in CPU : pc[d] = "ready" /\ me[d].wakee = p
    BY Zenon, <1>2, <1>3 DEF Reached
  <2>2. ASSUME d = c PROVE FALSE
    <3>1. make_ready(c)
      BY Zenon, <2>1, <2>2, Doing DEF Waking, WakeTest, wake_claim, WakeCpu, PushDone
    <3> QED
      BY Zenon, <2>1, <2>2, <3>1 DEF make_ready, PlaceInv, ProcType
  <2> QED
    BY Zenon, <1>0, <2>1, <2>2, OthersStay
<1>4. CASE ~woken[p]
  <2>1. wake_claim(c)
    BY Zenon, <1>0, <1>4, ListsMove DEF Unlink, Resume, Rearmed, Block, procVars
  <2>2. woken' = [woken EXCEPT ![me[c].wakee] = TRUE] /\ pc'[c] = "ready" /\ me' = me
    BY Zenon, <1>0, <1>4, <2>1 DEF wake_claim, Goto, CpuType
  <2>3. me[c].wakee = p
    BY Zenon, <1>0, <1>4, <2>2
  <2> QED
    BY Zenon, <2>2, <2>3
<1> QED
  BY Zenon, <1>3, <1>4

(* Only a block adds to what a proc waits for. *)
LEMMA WaitsShrink ==
    ASSUME PlaceInv, NEW c \in CPU, Acts(c), NEW p \in Proc, NEW q \in waits'[p],
           \A Q \in SUBSET Port \ {{}} : Block(c, Q) => p # me[c].p
    PROVE  q \in waits[p]
<1>0. waits \in [Proc -> SUBSET Port]
  BY Zenon DEF PlaceInv, IpcType
<1>1. CASE UNCHANGED waits
  BY Zenon, <1>1
<1>2. CASE Unlink(c)
  BY Zenon, <1>0, <1>2 DEF Unlink
<1>3. ASSUME NEW Q \in SUBSET Port \ {{}}, Block(c, Q) PROVE q \in waits[p]
  BY Zenon, <1>0, <1>3 DEF Block
<1> QED
  BY Zenon, <1>1, <1>2, <1>3, ListsMove DEF Resume, wake_claim, ipcVars

(* Only a push adds a message. *)
LEMMA MsgsShrink ==
    ASSUME PlaceInv, NEW c \in CPU, Acts(c), NEW q \in Port, ~Push(c, q), msgs'[q] > 0
    PROVE  msgs[q] > 0
<1>0. msgs \in [Port -> Nat]
  BY Zenon DEF PlaceInv, IpcType
<1>1. CASE UNCHANGED msgs
  BY Zenon, <1>1
<1>2. ASSUME NEW x \in Port, Push(c, x) PROVE msgs[q] > 0
  <2>1. x # q /\ msgs' = [msgs EXCEPT ![x] = @ + 1]
    BY Zenon, <1>2 DEF Push
  <2> QED
    BY Zenon, <1>0, <2>1
<1>3. ASSUME NEW x \in Port, Receive(c, x) PROVE msgs[q] > 0
  <2>1. msgs' = [msgs EXCEPT ![x] = @ - 1]
    BY Zenon, <1>3 DEF Receive
  <2> QED
    BY <1>0, <2>1
<1> QED
  BY Zenon, <1>1, <1>2, <1>3, Frame DEF MovesIpc, Unlink, wake_claim, PushDone, Block, ipcVars

(* A waker that will come to a proc comes, unless the proc is claimed. *)
LEMMA ComesKept ==
    ASSUME PlaceInv, Buckets', NEW c \in CPU, Acts(c), NEW p \in Proc, NEW q \in Port,
           status[p] = "BLOCKED", ~woken[p], ~woken'[p], NEW d \in CPU, Comes(d, p, q)
    PROVE  Comes(d, p, q)'
<1>0. CpuType /\ me[d] \in Locals /\ InHands(d)
  BY Zenon DEF PlaceInv, CpuType
<1>1. me[d].port = q
  <2>1. Buckets
    BY Zenon DEF PlaceInv
  <2>2. bucket[q] = d
    BY Zenon DEF Comes
  <2> QED
    BY Zenon, <2>1, <2>2 DEF Buckets
<1>2. CASE d # c
  <2>1. pc'[d] = pc[d] /\ me'[d] = me[d]
    BY Zenon, <1>0, <1>2, OthersStay
  <2>2. bucket'[q] = d
    BY Zenon, <1>1, <2>1 DEF Buckets
  <2> QED
    BY Zenon, <2>1, <2>2 DEF Comes
<1>3. CASE d = c
  <2>0. pc[c] \in Waking
    BY Zenon, <1>0, <1>1, <1>3, SchedAssumption DEF InHands
  <2>1. ~PushDone(c)
    BY Zenon, <1>3 DEF PushDone, Comes
  <2>2. \A x \in Port : ~Push(c, x)
    BY Zenon, <2>0 DEF Push, Waking
  <2>3. bucket'[q] = c
    BY Zenon, <1>0, <1>1, <1>3, <2>1, <2>2, PortKept DEF Buckets
  <2>4. CASE WakeTest(c)
    <3>1. p \in me[c].todo
      BY Zenon, <1>3, <2>4 DEF WakeTest, Comes
    <3>2. PICK x \in me[c].todo :
            IF status[x] = "BLOCKED"
            THEN me' = [me EXCEPT ![c].todo = @ \ {x}, ![c].wakee = x] /\ Goto(c, "claim")
            ELSE me' = [me EXCEPT ![c].todo = @ \ {x}] /\ UNCHANGED pc
      BY Zenon, <2>4 DEF WakeTest
    <3>3. me'[c].todo = me[c].todo \ {x}
      BY <1>0, <1>3, <3>2 DEF CpuType, Locals
    <3>4. CASE x = p
      <4>1. me'[c].wakee = p
        BY <1>0, <1>3, <3>2, <3>4 DEF CpuType, Locals
      <4>2. pc'[c] = "claim"
        BY Zenon, <1>0, <3>2, <3>4 DEF Goto, CpuType
      <4> QED
        BY Zenon, <1>3, <2>3, <4>1, <4>2 DEF Comes
    <3> QED
      BY Zenon, <1>3, <2>3, <3>1, <3>3, <3>4 DEF Comes
  <2>5. CASE wake_claim(c)
    <3>1. me' = me /\ me[c].wakee # p
      BY Zenon, <2>5 DEF wake_claim, Claimed, PlaceInv, ProcType
    <3> QED
      BY Zenon, <1>3, <2>3, <3>1 DEF Comes
  <2>6. CASE make_ready(c) \/ WakeCpu(c)
    <3>1. p \in me[c].todo
      BY Zenon, <1>3, <2>6 DEF make_ready, WakeCpu, Comes
    <3>2. me' = me \/ \E x : me' = [me EXCEPT ![c].ipi = x]
      BY Zenon, <2>6 DEF make_ready, WakeCpu
    <3>3. me'[c].todo = me[c].todo
      BY <1>0, <1>3, <3>2 DEF CpuType, Locals
    <3> QED
      BY Zenon, <1>3, <2>3, <3>1, <3>3 DEF Comes
  <2> QED
    BY Zenon, <2>0, <2>1, <2>4, <2>5, <2>6, Doing
<1> QED
  BY Zenon, <1>2, <1>3

(* Whoever pushes a message comes to every proc on the list, and a blocked
   proc that is not claimed is on it. *)
LEMMA ReachedStep ==
    ASSUME PlaceInv, Buckets', NEW c \in CPU, Clear(c), Acts(c), NEW p \in Proc,
           OnLists(p), Reached(p)
    PROVE  Reached(p)'
<1>0. CpuType /\ me[c] \in Locals /\ waits \in [Proc -> SUBSET Port]
  BY Zenon DEF PlaceInv, CpuType, IpcType
<1>1. ASSUME NEW q \in waits'[p], status'[p] = "BLOCKED", ~woken'[p], msgs'[q] > 0
      PROVE  \E d \in CPU : Comes(d, p, q)'
  <2>1. ASSUME NEW Q \in SUBSET Port \ {{}}, Block(c, Q) PROVE p # me[c].p
    <3> SUFFICES ASSUME p = me[c].p PROVE FALSE
      BY Zenon
    <3>1. q \in Q
      BY Zenon, <1>0, <1>1, <2>1 DEF Block
    <3>2. msgs'[q] = 0
      BY Zenon, <2>1, <3>1 DEF Block, Empty
    <3> QED
      BY <1>1, <3>2
  <2>2. status[p] = "BLOCKED"
    BY Zenon, <1>1, <2>1, WasBlocked
  <2>3. ~woken[p]
    BY Zenon, <1>1, <2>2, WokenKept, HasProc DEF Resume, InSlice
  <2>4. q \in waits[p] /\ q \in Port
    BY Zenon, <1>0, <1>1, <2>1, WaitsShrink
  <2>5. CASE Push(c, q)
    <3>1. me'[c].port = q /\ me'[c].todo = {x \in Proc : <<x, q>> \in linked}
      BY <1>0, <2>5 DEF Push, CpuType, Locals
    <3>2. <<p, q>> \in linked
      BY Zenon, <2>2, <2>3, <2>4 DEF OnLists
    <3>3. bucket'[q] = c
      BY Zenon, <2>4, <3>1 DEF Buckets
    <3>4. p \in me'[c].todo
      BY Zenon, <3>1, <3>2
    <3>5. Comes(c, p, q)'
      BY Zenon, <3>3, <3>4 DEF Comes
    <3> QED
      BY Zenon, <3>5
  <2>6. CASE ~Push(c, q)
    <3>1. msgs[q] > 0
      BY Zenon, <1>1, <2>4, <2>6, MsgsShrink
    <3>2. PICK d \in CPU : Comes(d, p, q)
      BY Zenon, <2>2, <2>3, <2>4, <3>1 DEF Reached
    <3> QED
      BY Zenon, <1>1, <2>2, <2>3, <2>4, <3>2, ComesKept
  <2> QED
    BY Zenon, <2>5, <2>6
<1> QED
  BY Zenon, <1>1, ClaimReached DEF Reached
----------------------------------------------------------------------------
(* A reader asks, and asks again, with a target, and runs on without. *)
Reading(c) ==
    /\ pc[c] \in {"again", "reading"} => hold[me[c].p] \in Proc
    /\ pc[c] = "lua" \/ me[c].ret = "lua" => hold[me[c].p] = NoProc

HoldInv == HeldStill /\ \A c \in CPU : Reading(c)

SchedInv == PlaceInv /\ WakeInv /\ HoldInv

----------------------------------------------------------------------------
(* Holds. *)

(* A proc's hold is its own. *)
LEMMA HoldKept ==
    ASSUME PlaceInv, NEW c \in CPU, Acts(c), NEW r \in Proc,
           proc_thaw(c) \/ (\E t \in Proc : Hold(c, t)) => r # me[c].p
    PROVE  hold'[r] = hold[r]
<1>0. hold \in [Proc -> Proc \cup {NoProc}]
  BY Zenon DEF PlaceInv, HoldType
<1>1. CASE UNCHANGED holdVars
  BY Zenon, <1>1 DEF holdVars
<1>2. CASE MovesHold(c)
  BY Zenon, <1>0, <1>2 DEF MovesHold, proc_thaw, Hold
<1> QED
  BY Zenon, <1>1, <1>2, Frame

(* A proc that reads, or asks again, has a target, and one that runs on has
   none: a hold ends with its proc_thaw, however often it was asked for. *)
LEMMA ReadingStep ==
    ASSUME PlaceInv, NEW c \in CPU, Acts(c), NEW d \in CPU, Reading(d)
    PROVE  Reading(d)'
<1>0. CpuType /\ InHands(c) /\ me[c] \in Locals /\ hold \in [Proc -> Proc \cup {NoProc}]
  BY Zenon DEF PlaceInv, CpuType, HoldType
<1>1. CASE d # c
  <2>1. pc'[d] = pc[d] /\ me'[d] = me[d]
    BY Zenon, <1>0, <1>1, OthersStay
  <2>2. ASSUME AtLua(d) PROVE hold'[me[d].p] = hold[me[d].p]
    <3>1. me[d].p \in Proc
      BY Zenon, <2>2, HasProc
    <3>2. me[c].p # me[d].p
      BY Zenon, <1>1, <3>1, Apart
    <3> QED
      BY Zenon, <3>1, <3>2, HoldKept
  <2> QED
    BY Zenon, <2>1, <2>2 DEF Reading, AtLua
<1>2. CASE d = c /\ Resume(c)
  <2>1. me[c].p \in Proc /\ me[c].ret # "lua"
    BY Zenon, <1>0, <1>2, HasProc DEF Resume, InSlice, InHands, Waking
  <2>2. me' = me /\ hold' = hold /\ pc'[c] = IF hold[me[c].p] = NoProc THEN "lua" ELSE "again"
    BY Zenon, <1>0, <1>2 DEF Resume, Goto, CpuType, holdVars
  <2>3. hold[me[c].p] = NoProc \/ hold[me[c].p] \in Proc
    BY Zenon, <1>0, <2>1
  <2> QED
    BY Zenon, <1>2, <2>1, <2>2, <2>3 DEF Reading
<1>3. CASE d = c /\ ~Resume(c) /\ AtLua(c)'
  <2>0. AtLua(c) /\ me'[c].p = me[c].p
    BY Zenon, <1>0, <1>3, LuaKept
  <2>1. me[c].p \in Proc
    BY Zenon, <2>0, HasProc
  <2>2. CASE proc_thaw(c)
    <3>1. pc'[c] = "lua" /\ hold'[me[c].p] = NoProc
      BY Zenon, <1>0, <2>1, <2>2 DEF proc_thaw, Goto, CpuType
    <3> QED
      BY Zenon, <1>3, <2>0, <3>1 DEF Reading
  <2>3. ASSUME NEW t \in Proc, Hold(c, t) PROVE Reading(c)'
    <3>1. hold'[me[c].p] = t /\ me' = me /\ pc'[c] # "lua" /\ pc[c] = "lua"
      BY Zenon, <1>0, <2>1, <2>3 DEF Hold, Goto, CpuType
    <3>2. me[c].ret # "lua"
      BY Zenon, <1>0, <3>1 DEF InHands, Waking
    <3> QED
      BY Zenon, <3>1, <3>2 DEF Reading
  <2>4. CASE ~proc_thaw(c) /\ ~\E t \in Proc : Hold(c, t)
    <3>0. hold'[me[c].p] = hold[me[c].p]
      BY Zenon, <2>1, <2>4, HoldKept
    <3>1. CASE pc[c] = "lua"
      <4>1. Stops(c) \/ \E q \in Port : Push(c, q) \/ Receive(c, q)
        BY Zenon, <2>4, <3>1, Doing
      <4>2. pc'[c] \notin {"again", "reading"}
        BY Zenon, <1>0, <3>1, <4>1 DEF Stops, Preempt, Block, Push, Receive, Goto, CpuType
      <4> QED
        BY Zenon, <1>3, <2>0, <3>0, <3>1, <4>2 DEF Reading
    <3>2. CASE pc[c] = "again"
      <4>1. HoldAgain(c)
        BY Zenon, <3>2, Doing
      <4>2. pc'[c] # "lua" /\ me' = me /\ me[c].ret # "lua"
        BY Zenon, <1>0, <3>2, <4>1 DEF HoldAgain, Goto, CpuType, InHands, Waking
      <4> QED
        BY Zenon, <1>3, <2>0, <3>0, <3>2, <4>2 DEF Reading
    <3>3. CASE pc[c] = "reading"
      BY Zenon, <2>4, <3>3, Doing
    <3>4. CASE me[c].ret = "lua"
      <4>1. WakeTest(c) \/ wake_claim(c) \/ make_ready(c) \/ WakeCpu(c) \/ PushDone(c)
        BY Zenon, <1>0, <3>4, Doing DEF InHands
      <4>2. pc'[c] \notin {"again", "reading"}
        BY Zenon, <1>0, <3>4, <4>1 DEF WakeTest, wake_claim, make_ready, WakeCpu, PushDone,
           Goto, CpuType
      <4> QED
        BY Zenon, <1>3, <2>0, <3>0, <3>4, <4>2 DEF Reading
    <3> QED
      BY Zenon, <2>0, <3>1, <3>2, <3>3, <3>4, <1>3 DEF AtLua
  <2> QED
    BY Zenon, <1>3, <2>2, <2>3, <2>4
<1>4. CASE ~AtLua(d)'
  BY Zenon, <1>4 DEF Reading, AtLua
<1> QED
  BY Zenon, <1>1, <1>2, <1>3, <1>4

(* A claim is given up, or is taken on a proc that is not frozen. *)
LEMMA FrozenAlone ==
    ASSUME PlaceInv, NEW c \in CPU, Acts(c), NEW t \in Proc, oncpu[t] = NoCpu, frozen[t] > 0
    PROVE  oncpu'[t] = NoCpu
<1>0. oncpu \in [Proc -> CPU \cup {NoCpu}] /\ frozen \in [Proc -> Nat]
  BY Zenon DEF PlaceInv, ProcType, HoldType
<1>1. CASE Take(c)
  <2>1. \E p \in Queue("run") \ Frozen : oncpu' = [oncpu EXCEPT ![p] = c]
    BY Zenon, <1>1 DEF Take
  <2>2. t \in Frozen
    BY Zenon DEF Frozen
  <2> QED
    BY Zenon, <1>0, <2>1, <2>2
<1>2. CASE SweepClaim(c)
  <2>1. \E p \in me[c].todo : frozen[p] = 0 /\ oncpu' = [oncpu EXCEPT ![p] = c]
    BY Zenon, <1>2 DEF SweepClaim, Parked
  <2>2. frozen[t] # 0
    BY <1>0
  <2> QED
    BY Zenon, <1>0, <2>1, <2>2
<1>3. CASE SweepRelease(c) \/ release_claim(c)
  BY Zenon, <1>0, <1>3 DEF SweepRelease, release_claim
<1> QED
  BY Zenon, <1>1, <1>2, <1>3, Frame DEF MovesProc, PhaseEnd, LapEnd, Resume, wake_claim, make_ready,
     Block, procVars

(* The procs are finitely many. *)
LEMMA ProcsSized == Sized
<1> SUFFICES ASSUME NEW S \in SUBSET Proc PROVE Cardinality(S) \in Nat
  BY Zenon DEF Sized
<1>1. IsFiniteSet(S)
  BY Zenon, SchedAssumption, FS_Subset
<1> QED
  BY Zenon, <1>1, FS_CardinalityType

(* The readers of a proc, counted. *)
Readers(p) == {r \in Proc : hold[r] = p}

(* They are finitely many. *)
LEMMA ReadersSized ==
    ASSUME NEW p PROVE IsFiniteSet(Readers(p)) /\ Cardinality(Readers(p)) \in Nat
<1>1. Readers(p) \in SUBSET Proc
  BY Zenon DEF Readers
<1>2. IsFiniteSet(Readers(p))
  BY Zenon, <1>1, SchedAssumption, FS_Subset
<1> QED
  BY Zenon, <1>1, <1>2, ProcsSized DEF Sized

(* A proc somebody reads is frozen. *)
LEMMA ReadFrozen ==
    ASSUME HeldStill, NEW p \in Proc, NEW r \in Proc, hold[r] = p
    PROVE  frozen[p] > 0
<1>1. frozen[p] = Cardinality(Readers(p))
  BY Zenon DEF HeldStill, Readers
<1>2. Readers(p) # {}
  BY Zenon DEF Readers
<1>3. Cardinality(Readers(p)) # 0
  BY Zenon, <1>2, ReadersSized, FS_EmptySet
<1>4. Cardinality(Readers(p)) \in Nat
  BY Zenon, ReadersSized
<1> QED
  BY <1>1, <1>3, <1>4

(* A reader's target stays off every cpu while it reads. *)
LEMMA StillStep ==
    ASSUME PlaceInv, HeldStill, NEW c \in CPU, Acts(c), NEW d \in CPU, Reading(d), pc'[d] = "reading"
    PROVE  oncpu'[hold'[me'[d].p]] = NoCpu
<1>0. CpuType /\ hold \in [Proc -> Proc \cup {NoProc}]
  BY Zenon DEF PlaceInv, HoldType
<1>1. CASE d # c
  <2>1. pc[d] = "reading" /\ me'[d] = me[d]
    BY Zenon, <1>0, <1>1, OthersStay
  <2>2. me[d].p \in Proc /\ hold[me[d].p] \in Proc /\ oncpu[hold[me[d].p]] = NoCpu
    BY Zenon, <2>1, HasProc DEF AtLua, Reading, HeldStill
  <2>3. hold'[me[d].p] = hold[me[d].p]
    BY Zenon, <1>1, <2>2, Apart, HoldKept
  <2>4. frozen[hold[me[d].p]] > 0
    BY Zenon, <2>2, ReadFrozen
  <2>5. oncpu'[hold[me[d].p]] = NoCpu
    BY Zenon, <2>2, <2>4, FrozenAlone
  <2> QED
    BY Zenon, <2>1, <2>3, <2>5
<1>2. CASE d = c
  <2>1. ~Resume(c)
    BY Zenon, <1>0, <1>2 DEF Resume, Goto, CpuType
  <2>2. AtLua(c) /\ InHands(c)
    BY Zenon, <1>0, <1>2, <2>1, LuaKept DEF AtLua, PlaceInv
  <2>3. me[c].p \in Proc
    BY Zenon, <2>2, HasProc
  <2>4. CASE pc[c] = "lua"
    <3>1. ~Stops(c) /\ ~\E q \in Port : Push(c, q) \/ Receive(c, q)
      BY Zenon, <1>0, <1>2, <2>4 DEF Stops, Preempt, Block, Push, Receive, Goto, CpuType
    <3>2. PICK t \in Proc : Hold(c, t)
      BY Zenon, <2>4, <3>1, Doing
    <3>3. hold'[me[c].p] = t /\ UNCHANGED <<oncpu, me>> /\ oncpu[t] = NoCpu
      BY Zenon, <1>0, <1>2, <2>3, <3>2 DEF Hold, Goto, CpuType, procVars
    <3> QED
      BY Zenon, <1>2, <3>3
  <2>5. CASE pc[c] = "again"
    <3>1. HoldAgain(c)
      BY Zenon, <2>5, Doing
    <3>2. UNCHANGED <<oncpu, hold, me>> /\ oncpu[hold[me[c].p]] = NoCpu
      BY Zenon, <1>0, <1>2, <3>1 DEF HoldAgain, Goto, CpuType, procVars, holdVars
    <3> QED
      BY Zenon, <1>2, <3>2
  <2>6. CASE pc[c] = "reading"
    <3>1. proc_thaw(c)
      BY Zenon, <2>6, Doing
    <3> QED
      BY Zenon, <1>0, <1>2, <3>1 DEF proc_thaw, Goto, CpuType
  <2>7. CASE me[c].ret = "lua"
    <3>1. WakeTest(c) \/ wake_claim(c) \/ make_ready(c) \/ WakeCpu(c) \/ PushDone(c)
      BY Zenon, <2>2, <2>7, Doing DEF InHands
    <3> QED
      BY Zenon, <1>0, <1>2, <2>7, <3>1 DEF WakeTest, wake_claim, make_ready, WakeCpu, PushDone,
         Goto, CpuType
  <2> QED
    BY Zenon, <2>2, <2>4, <2>5, <2>6, <2>7 DEF AtLua
<1> QED
  BY Zenon, <1>1, <1>2

(* A freeze is counted for its reader, and its thaw takes that one back. *)
LEMMA CountStep ==
    ASSUME PlaceInv, HeldStill, NEW c \in CPU, Reading(c), Acts(c), NEW x \in Proc
    PROVE  frozen'[x] = Cardinality(Readers(x)')
<1>0. hold \in [Proc -> Proc \cup {NoProc}] /\ frozen \in [Proc -> Nat]
  BY Zenon DEF PlaceInv, HoldType
<1>1. frozen[x] = Cardinality(Readers(x))
  BY Zenon DEF HeldStill, Readers
<1>2. CASE UNCHANGED holdVars
  BY Zenon, <1>1, <1>2 DEF holdVars, Readers
<1>3. ASSUME NEW t \in Proc, Hold(c, t) PROVE frozen'[x] = Cardinality(Readers(x)')
  <2>0. me[c].p \in Proc /\ hold[me[c].p] = NoProc /\ NoProc # x
    BY Zenon, <1>3, HasProc, SchedAssumption DEF Hold, Reading, AtLua
  <2>1. /\ hold' = [hold EXCEPT ![me[c].p] = t]
        /\ frozen' = [frozen EXCEPT ![t] = @ + 1]
    BY Zenon, <1>3 DEF Hold
  <2>2. CASE x = t
    <3>1. Readers(x)' = Readers(x) \cup {me[c].p} /\ me[c].p \notin Readers(x)
      BY Zenon, <1>0, <2>0, <2>1, <2>2 DEF Readers
    <3>2. Cardinality(Readers(x) \cup {me[c].p}) = Cardinality(Readers(x)) + 1
      BY Zenon, <3>1, ReadersSized, FS_AddElement
    <3> QED
      BY Zenon, <1>0, <1>1, <2>1, <2>2, <3>1, <3>2
  <2>3. CASE x # t
    <3>1. Readers(x)' = Readers(x)
      BY Zenon, <1>0, <2>0, <2>1, <2>3 DEF Readers
    <3> QED
      BY Zenon, <1>0, <1>1, <2>1, <2>3, <3>1
  <2> QED
    BY Zenon, <2>2, <2>3
<1>4. CASE proc_thaw(c)
  <2> DEFINE t == hold[me[c].p]
  <2>0. me[c].p \in Proc /\ t \in Proc /\ NoProc # x
    BY Zenon, <1>4, HasProc, SchedAssumption DEF proc_thaw, Reading, AtLua
  <2>1. /\ hold' = [hold EXCEPT ![me[c].p] = NoProc]
        /\ frozen' = [frozen EXCEPT ![t] = Thawed(@)]
    BY Zenon, <1>4 DEF proc_thaw
  <2>2. CASE x = t
    <3>1. Readers(x)' = Readers(x) \ {me[c].p} /\ me[c].p \in Readers(x)
      BY Zenon, <1>0, <2>0, <2>1, <2>2 DEF Readers
    <3>2. Cardinality(Readers(x) \ {me[c].p}) = Cardinality(Readers(x)) - 1
      BY Zenon, <3>1, ReadersSized, FS_RemoveElement
    <3>3. frozen'[x] = Thawed(frozen[x])
      BY Zenon, <1>0, <2>1, <2>2
    <3>4. frozen[x] \in Nat /\ frozen[x] > 0
      BY Zenon, <1>0, <2>0, <2>2, ReadFrozen
    <3>5. Thawed(frozen[x]) = frozen[x] - 1
      BY <3>4 DEF Thawed
    <3> QED
      BY Zenon, <1>1, <3>1, <3>2, <3>3, <3>5
  <2>3. CASE x # t
    <3>1. Readers(x)' = Readers(x)
      BY Zenon, <1>0, <2>0, <2>1, <2>3 DEF Readers
    <3> QED
      BY Zenon, <1>0, <1>1, <2>1, <2>3, <3>1
  <2> QED
    BY Zenon, <2>2, <2>3
<1> QED
  BY Zenon, <1>2, <1>3, <1>4, Frame DEF MovesHold

----------------------------------------------------------------------------
(* The invariant. *)

(* It holds at first: every proc is runnable, queued, and in nobody's hands. *)
LEMMA SchedInit == Init => SchedInv
<1> SUFFICES ASSUME Init PROVE SchedInv
  BY Zenon
<1>1. PlaceInv
  BY Zenon, PlaceInit
<1>2. \A c \in CPU : pc[c] = "lap" /\ me[c] = Fresh
  BY Zenon DEF Init
<1>3. Fresh.ret = "lap"
  BY DEF Fresh
<1>4. Listed /\ OneWaker
  BY Zenon, <1>2 DEF Init, Listed, OneWaker
<1>5. \A p \in Proc : OnLists(p) /\ Reached(p)
  BY Zenon DEF Init, OnLists, Reached
<1>6. \A c \in CPU : Clear(c) /\ Waker(c) /\ Reading(c)
  BY Zenon, <1>2, <1>3 DEF Clear, AtLua, Waker, Waking, Reading
<1>7. ASSUME NEW p \in Proc PROVE frozen[p] = Cardinality({r \in Proc : hold[r] = p})
  <2>1. {r \in Proc : hold[r] = p} = {}
    BY Zenon, SchedAssumption DEF Init
  <2> QED
    BY Zenon, <2>1, FS_EmptySet DEF Init
<1>8. HeldStill
  BY Zenon, <1>2, <1>7 DEF HeldStill
<1> QED
  BY Zenon, <1>1, <1>4, <1>5, <1>6, <1>8 DEF SchedInv, WakeInv, HoldInv

(* Every step keeps it. *)
LEMMA SchedStep == ASSUME SchedInv, NEW c \in CPU, Acts(c) PROVE SchedInv'
<1>0. /\ PlaceInv /\ Listed /\ OneWaker /\ HeldStill
      /\ \A p \in Proc : OnLists(p) /\ Reached(p)
      /\ \A d \in CPU : Clear(d) /\ Waker(d) /\ Reading(d)
  BY Zenon DEF SchedInv, WakeInv, HoldInv
<1>1. PlaceInv'
  BY Zenon, <1>0, ProcsSized, PlaceInvStep
<1>2. Listed' /\ OneWaker'
  BY Zenon, <1>0, ListedStep, OneWakerStep
<1>3. ASSUME NEW p \in Proc PROVE OnLists(p)' /\ Reached(p)'
  BY Zenon, <1>0, <1>1, OnListsStep, ReachedStep DEF PlaceInv
<1>4. ASSUME NEW d \in CPU PROVE Clear(d)' /\ Waker(d)' /\ Reading(d)'
  BY Zenon, <1>0, ClearStep, WakerOther, WakerOwn, ReadingStep
<1>5. \A d \in CPU : pc'[d] = "reading" => oncpu'[hold'[me'[d].p]] = NoCpu
  BY Zenon, <1>0, StillStep
<1>6. \A x \in Proc : frozen'[x] = Cardinality(Readers(x)')
  BY Zenon, <1>0, CountStep
<1>7. HeldStill'
  BY Zenon, <1>5, <1>6 DEF HeldStill, Readers
<1> QED
  BY Zenon, <1>1, <1>2, <1>3, <1>4, <1>7 DEF SchedInv, WakeInv, HoldInv

(* A step that changes nothing keeps it. *)
LEMMA SchedStutter == ASSUME SchedInv, UNCHANGED vars PROVE SchedInv'
<1>0. /\ UNCHANGED <<status, onq, oncpu, woken, frozen, hold>>
      /\ UNCHANGED <<waits, linked, msgs, bucket, pc, me>>
  BY Zenon DEF vars, procVars, holdVars, ipcVars
<1>1. PlaceInv'
  <2>1. (ProcType /\ IpcType /\ HoldType /\ CpuType)'
    BY Zenon, <1>0 DEF SchedInv, PlaceInv, ProcType, IpcType, HoldType, CpuType
  <2>2. (Buckets /\ \A c \in CPU : InHands(c))'
    <3>1. Buckets'
      BY Zenon, <1>0 DEF SchedInv, PlaceInv, Buckets
    <3>2. (\A c \in CPU : InHands(c))'
      BY Zenon, <1>0 DEF SchedInv, PlaceInv, InHands
    <3> QED
      BY Zenon, <3>1, <3>2
  <2>3. (\A p \in Proc : Place(p))'
    BY Zenon, <1>0 DEF SchedInv, PlaceInv, Place
  <2>4. (\A c \in CPU : InSlice(c) => status[me[c].p] = "READY")'
    BY Zenon, <1>0 DEF SchedInv, PlaceInv, InSlice
  <2> QED
    BY Zenon, <2>1, <2>2, <2>3, <2>4 DEF PlaceInv
<1>2. WakeInv'
  <2>1. (Listed /\ OneWaker)'
    BY Zenon, <1>0 DEF SchedInv, WakeInv, Listed, OneWaker
  <2>2. (\A p \in Proc : OnLists(p) /\ Reached(p))'
    <3> SUFFICES ASSUME NEW p \in Proc PROVE OnLists(p)' /\ Reached(p)'
      BY Zenon
    <3>1. OnLists(p) /\ Reached(p)
      BY Zenon DEF SchedInv, WakeInv
    <3>2. OnLists(p)'
      BY Zenon, <1>0, <3>1 DEF OnLists
    <3>3. \A c \in CPU : \A q : Comes(c, p, q)' <=> Comes(c, p, q)
      BY Zenon, <1>0 DEF Comes
    <3>4. Reached(p)'
      BY Zenon, <1>0, <3>1, <3>3 DEF Reached
    <3> QED
      BY Zenon, <3>2, <3>4
  <2>3. (\A c \in CPU : Clear(c) /\ Waker(c))'
    <3> SUFFICES ASSUME NEW c \in CPU PROVE Clear(c)' /\ Waker(c)'
      BY Zenon
    <3>1. Clear(c) /\ Waker(c)
      BY Zenon DEF SchedInv, WakeInv
    <3>2. Clear(c)'
      BY Zenon, <1>0, <3>1 DEF Clear, AtLua
    <3>3. Waker(c)'
      BY Zenon, <1>0, <3>1 DEF Waker
    <3> QED
      BY Zenon, <3>2, <3>3
  <2> QED
    BY Zenon, <2>1, <2>2, <2>3 DEF WakeInv
<1>3. HoldInv'
  BY Zenon, <1>0 DEF SchedInv, HoldInv, HeldStill, Reading
<1> QED
  BY Zenon, <1>1, <1>2, <1>3 DEF SchedInv

(* It holds throughout. *)
LEMMA SchedSafe == Spec => []SchedInv
<1>1. ASSUME SchedInv, Next PROVE SchedInv'
  <2>1. \E c \in CPU : Acts(c)
    BY Zenon, <1>1 DEF Next, Acts
  <2> QED
    BY Zenon, <1>1, <2>1, SchedStep
<1>2. SchedInv /\ [Next]_vars => SchedInv'
  BY Zenon, <1>1, SchedStutter
<1> QED
  BY <1>2, SchedInit, PTL DEF Spec

(* And says that a proc is in one place. *)
LEMMA SchedPlaces == SchedInv => OnePlace
<1> SUFFICES ASSUME SchedInv, NEW p \in Proc
             PROVE  /\ \A c \in CPU : Holds(c, p) <=> oncpu[p] = c
                    /\ oncpu[p] # NoCpu => onq[p] = "none"
                    /\ status[p] = "READY" => onq[p] # "none" \/ oncpu[p] # NoCpu
                    /\ (status[p] = "BLOCKED" /\ \E q \in waits[p] : msgs[q] > 0) =>
                          \E c \in CPU : \/ pc[c] = "ready" /\ me[c].wakee = p
                                         \/ \E q \in waits[p] : Comes(c, p, q)
  BY Zenon DEF OnePlace, Comes
<1>1. Place(p) /\ Reached(p) /\ \A c \in CPU : InHands(c)
  BY Zenon DEF SchedInv, PlaceInv, WakeInv
<1>2. ASSUME NEW c \in CPU PROVE Holds(c, p) <=> oncpu[p] = c
  BY Zenon, <1>1, SchedAssumption DEF Place, InHands, Holds
<1>3. (status[p] = "BLOCKED" /\ \E q \in waits[p] : msgs[q] > 0) =>
         \E c \in CPU : \/ pc[c] = "ready" /\ me[c].wakee = p
                        \/ \E q \in waits[p] : Comes(c, p, q)
  BY Zenon, <1>1 DEF Reached
<1> QED
  BY Zenon, <1>1, <1>2, <1>3 DEF Place

(* A proc is in one place, whatever the numbers of cpus, procs and ports and
   whatever the procs call: dispatch_phase never claims a claimed proc, a
   runnable one is queued or will be requeued by the cpu that has it, and one
   blocked beside a message has a waker at work on it. *)
THEOREM PlaceCorrect == Spec => []OnePlace
  BY SchedSafe, SchedPlaces, PTL

(* A proc being read is off every cpu until its last reader thaws it, and the
   count of its freezes is the number of its readers: proc_hold, asked again
   after every yield, freezes once. *)
THEOREM HoldCorrect == Spec => []HeldStill
<1>1. SchedInv => HeldStill
  BY Zenon DEF SchedInv, HoldInv
<1> QED
  BY <1>1, SchedSafe, PTL
============================================================================
