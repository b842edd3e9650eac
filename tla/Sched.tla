------------------------------- MODULE Sched -------------------------------
(***************************************************************************)
(* Dispatch on several cpus: the two run queues of the machine, the claim  *)
(* a cpu has on the proc it resumes, the wake of a blocked proc (waiter    *)
(* lists, the woken flag, make_ready), and the sleep of a cpu with nothing *)
(* to run.                                                                 *)
(*                                                                         *)
(* A schedlock region is one step, and so is an ipc region, except a wake, *)
(* which keeps its port's bucket over several steps: it takes schedlock    *)
(* inside, and tests, claims and readies a proc in between.  Priorities    *)
(* are abstracted: a take gives any proc of the queue.                     *)
(***************************************************************************)
EXTENDS Integers, FiniteSets

CONSTANTS CPU,        \* cpus that dispatch
          Boot,       \* the one that pumps devices and is woken by the tick
          Proc, Port,
          Calls,      \* which calls each proc may make
          Machine,    \* whether devices push ("pump"), parked procs are collected ("collect")
          Weight,     \* kproc.weight: resumes per turn
          LAPSPILL,   \* least budget of a lap's second phase
          MaxMsgs,    \* bound: messages on a port
          NoCpu, NoProc, NoPort

ASSUME SchedAssumption ==
    /\ IsFiniteSet(CPU) /\ IsFiniteSet(Proc) /\ IsFiniteSet(Port)
    /\ Boot \in CPU
    /\ Calls \in [Proc -> SUBSET {"send", "receive", "block", "hold"}]
    /\ Machine \subseteq {"pump", "collect"}
    /\ Weight \in Nat \ {0} /\ LAPSPILL \in Nat /\ MaxMsgs \in Nat
    /\ NoCpu \notin CPU /\ NoProc \notin Proc /\ NoPort \notin Port

VARIABLES status,   \* kproc.status
          onq,      \* kproc.onq: runq, donq or neither
          oncpu,    \* kproc.oncpu
          woken,    \* kproc.woken
          frozen,   \* kproc.frozen
          hold,     \* the proc each proc is holding still, or waiting to
          waits,    \* kproc.waiters
          linked,   \* kport.waiters: <<proc, port>>
          msgs,     \* messages queued on each port
          bucket,   \* the cpu waking on a port, inside its bucket
          idle,     \* cpu.idle
          ipi,      \* a reschedule interrupt is pending
          pc, me    \* where each cpu is, and its locals

procVars == <<status, onq, oncpu, woken>>
holdVars == <<frozen, hold>>
ipcVars  == <<waits, linked, msgs, bucket>>
vars     == <<procVars, holdVars, ipcVars, idle, ipi, pc, me>>

Queue(s) == {p \in Proc : onq[p] = s}
Frozen   == {p \in Proc : frozen[p] > 0}
Fresh    == [p |-> NoProc, phase |-> 1, left |-> -1, turn |-> 0, ran |-> FALSE,
             port |-> NoPort, todo |-> {}, wakee |-> NoProc, ipi |-> NoCpu, ret |-> "lap"]

Goto(c, at) == pc' = [pc EXCEPT ![c] = at]

Init ==
    /\ status = [p \in Proc |-> "READY"]
    /\ onq = [p \in Proc |-> "run"]
    /\ oncpu = [p \in Proc |-> NoCpu]
    /\ woken = [p \in Proc |-> FALSE]
    /\ frozen = [p \in Proc |-> 0]
    /\ hold = [p \in Proc |-> NoProc]
    /\ waits = [p \in Proc |-> {}]
    /\ linked = {}
    /\ msgs = [q \in Port |-> 0]
    /\ bucket = [q \in Port |-> NoCpu]
    /\ idle = [c \in CPU |-> FALSE]
    /\ ipi = [c \in CPU |-> FALSE]
    /\ pc = [c \in CPU |-> "lap"]
    /\ me = [c \in CPU |-> Fresh]
----------------------------------------------------------------------------
(* kernel_run and kernel_run_ap, the top of a lap. *)
Lap(c) ==
    /\ pc[c] = "lap"
    /\ Goto(c, "take")
    /\ me' = [me EXCEPT ![c] = Fresh]
    /\ UNCHANGED <<procVars, holdVars, ipcVars, idle, ipi>>

(* dispatch_phase: the budget is read at the first acquisition, and a proc *)
(* is claimed under the lock that took it off its queue.                   *)
Budget(c) ==
    LET n == Cardinality(Queue("run")) IN
    IF me[c].left >= 0 THEN me[c].left
    ELSE IF me[c].phase = 2 /\ n < LAPSPILL THEN LAPSPILL ELSE n

(* A frozen proc is set aside, at the cost of a dispatch: A are the ones    *)
(* met on the way to the proc taken, or to the end of the phase.           *)
Take(c) ==
    /\ pc[c] = "take"
    /\ \E A \in SUBSET (Queue("run") \cap Frozen), p \in Queue("run") \ Frozen :
          /\ Cardinality(A) < Budget(c)
          /\ onq' = [q \in Proc |-> IF q = p THEN "none" ELSE IF q \in A THEN "done" ELSE onq[q]]
          /\ oncpu' = [oncpu EXCEPT ![p] = c]
          /\ me' = [me EXCEPT ![c].p = p, ![c].left = Budget(c) - Cardinality(A) - 1,
                              ![c].turn = 1, ![c].ran = TRUE]
    /\ Goto(c, "reap")
    /\ UNCHANGED <<status, woken, holdVars, ipcVars, idle, ipi>>

Ran(c) == me[c].ran

PhaseEnd(c) ==
    /\ pc[c] = "take"
    /\ \E A \in SUBSET (Queue("run") \cap Frozen) :
          /\ \/ Cardinality(A) = Budget(c)
             \/ A = Queue("run") /\ Cardinality(A) < Budget(c)
          /\ onq' = [q \in Proc |-> IF q \in A THEN "done" ELSE onq[q]]
    /\ me' = [me EXCEPT ![c].phase = 2, ![c].left = -1, ![c].ran = Ran(c)]
    /\ Goto(c, IF me[c].phase = 1 THEN "take" ELSE "lapend")
    /\ UNCHANGED <<status, oncpu, woken, holdVars, ipcVars, idle, ipi>>

(* The end of dispatch_lap: whoever finds the lap empty swaps the queues. *)
Swapped(p) == CASE onq[p] = "run" -> "done" [] onq[p] = "done" -> "run" [] OTHER -> "none"

LapOver(c) == Queue("run") = {}

LapEnd(c) ==
    /\ pc[c] = "lapend"
    /\ onq' = IF LapOver(c) THEN [p \in Proc |-> Swapped(p)] ELSE onq
    /\ Goto(c, IF c = Boot THEN "sweep" ELSE IF me[c].ran THEN "lap" ELSE "introff")
    /\ me' = [me EXCEPT ![c].todo = IF c = Boot THEN Proc ELSE {}]
    /\ UNCHANGED <<status, oncpu, woken, holdVars, ipcVars, idle, ipi>>

(* gc_idle_sweep, the boot cpu's, once per lap: a parked proc is claimed    *)
(* as dispatch claims one, and a wake that came meanwhile is honoured when *)
(* it is let go.                                                           *)
Parked(p) ==
    status[p] = "BLOCKED" /\ oncpu[p] = NoCpu /\ frozen[p] = 0 /\ onq[p] = "none"

Requeued(p) == IF status[p] = "READY" /\ onq[p] = "none"
               THEN [onq EXCEPT ![p] = "done"] ELSE onq

SweepClaim(c) ==
    /\ pc[c] = "sweep" /\ "collect" \in Machine
    /\ \A q \in Port : bucket[q] = NoCpu
    /\ \E p \in me[c].todo :
          /\ Parked(p)
          /\ oncpu' = [oncpu EXCEPT ![p] = c]
          /\ me' = [me EXCEPT ![c].p = p, ![c].todo = @ \ {p}]
    /\ Goto(c, "collect")
    /\ UNCHANGED <<status, onq, woken, holdVars, ipcVars, idle, ipi>>

SweepRelease(c) ==
    LET p == me[c].p IN
    /\ pc[c] = "collect"
    /\ oncpu' = [oncpu EXCEPT ![p] = NoCpu]
    /\ onq' = Requeued(p)
    /\ me' = [me EXCEPT ![c].p = NoProc]
    /\ Goto(c, "sweep")
    /\ UNCHANGED <<status, woken, holdVars, ipcVars, idle, ipi>>

SweepEnd(c) ==
    /\ pc[c] = "sweep"
    /\ Goto(c, IF me[c].ran THEN "lap" ELSE "tick")
    /\ me' = [me EXCEPT ![c] = Fresh]
    /\ UNCHANGED <<procVars, holdVars, ipcVars, idle, ipi>>

(* The boot cpu sleeps until a device or the periodic tick. *)
Tick(c) ==
    /\ pc[c] = "tick"
    /\ Goto(c, "lap")
    /\ UNCHANGED <<procVars, holdVars, ipcVars, idle, ipi, me>>

(* Another cpu turns interrupts off (at "introff"), and only then looks    *)
(* whether there is work; an interrupt sent from here on stays pending.    *)
GoIdle(c) ==
    /\ pc[c] = "introff"
    /\ \/ /\ \E p \in Proc : onq[p] # "none"
          /\ Goto(c, "lap")
          /\ ipi' = [ipi EXCEPT ![c] = FALSE]
          /\ UNCHANGED idle
       \/ /\ \A p \in Proc : onq[p] = "none"
          /\ Goto(c, "idling")
          /\ idle' = [idle EXCEPT ![c] = TRUE]
          /\ UNCHANGED ipi
    /\ UNCHANGED <<procVars, holdVars, ipcVars, me>>

Halt(c) ==
    /\ pc[c] = "idling"
    /\ Goto(c, "asleep")
    /\ UNCHANGED <<procVars, holdVars, ipcVars, idle, ipi, me>>

Awake(c) ==
    /\ pc[c] = "asleep" /\ ipi[c]
    /\ ipi' = [ipi EXCEPT ![c] = FALSE]
    /\ Goto(c, "awake")
    /\ UNCHANGED <<procVars, holdVars, ipcVars, idle, me>>

NotIdle(c) ==
    /\ pc[c] = "awake"
    /\ idle' = [idle EXCEPT ![c] = FALSE]
    /\ Goto(c, "lap")
    /\ UNCHANGED <<procVars, holdVars, ipcVars, ipi, me>>
----------------------------------------------------------------------------
(* run_proc.  wait_reap collects what is left of the last block, one       *)
(* bucket at a time, and clears woken last.                                *)
Unlink(c) ==
    LET p == me[c].p IN
    /\ pc[c] = "reap"
    /\ \E q \in waits[p] :
          /\ <<p, q>> \in linked => bucket[q] = NoCpu
          /\ waits' = [waits EXCEPT ![p] = @ \ {q}]
          /\ linked' = linked \ {<<p, q>>}
    /\ UNCHANGED <<procVars, holdVars, msgs, bucket, idle, ipi, pc, me>>

Rearmed(p) == [woken EXCEPT ![p] = FALSE]

Resume(c) ==
    /\ pc[c] = "reap"
    /\ waits[me[c].p] = {}
    /\ woken' = Rearmed(me[c].p)
    /\ Goto(c, IF hold[me[c].p] = NoProc THEN "lua" ELSE "again")
    /\ UNCHANGED <<status, onq, oncpu, holdVars, ipcVars, idle, ipi, me>>

(* preempt_hook: the proc's quantum is spent.  Mutant: no hook. *)
NoHook(c) == FALSE
Hook(c) == pc[c] = "lua"

Preempt(c) ==
    /\ Hook(c)
    /\ Goto(c, "yield")
    /\ UNCHANGED <<procVars, holdVars, ipcVars, idle, ipi, me>>

Empty(q) == msgs[q] = 0

HasMessage(q) == msgs[q] > 0

(* A blocking call on the ports Q: the test, the waits and proc_block are  *)
(* one region over all their buckets.                                      *)
Block(c, Q) ==
    LET p == me[c].p IN
    /\ pc[c] = "lua" /\ "block" \in Calls[p]
    /\ \A q \in Q : bucket[q] = NoCpu /\ Empty(q)
    /\ waits' = [waits EXCEPT ![p] = Q]
    /\ linked' = linked \cup {<<p, q>> : q \in Q}
    /\ status' = [status EXCEPT ![p] = "BLOCKED"]
    /\ onq' = [onq EXCEPT ![p] = "none"]
    /\ Goto(c, "yield")
    /\ UNCHANGED <<oncpu, woken, holdVars, msgs, bucket, idle, ipi, me>>

Receive(c, q) ==
    /\ pc[c] = "lua" /\ "receive" \in Calls[me[c].p] /\ bucket[q] = NoCpu
    /\ HasMessage(q)
    /\ msgs' = [msgs EXCEPT ![q] = @ - 1]
    /\ UNCHANGED <<procVars, holdVars, waits, linked, bucket, idle, ipi, pc, me>>

(* proc_hold, as sys.stack and its kin use it: freeze the target, and if   *)
(* some cpu has it, yield and ask again; then read it and thaw it.         *)
(* Mutant: frozen is a flag and not a count. *)
ThawedAll(n) == 0
Thawed(n) == IF n > 0 THEN n - 1 ELSE 0

Hold(c, t) ==
    LET p == me[c].p IN
    /\ pc[c] = "lua" /\ "hold" \in Calls[p] /\ t # p
    /\ frozen' = [frozen EXCEPT ![t] = @ + 1]
    /\ hold' = [hold EXCEPT ![p] = t]
    /\ Goto(c, IF oncpu[t] # NoCpu THEN "yield" ELSE "reading")
    /\ UNCHANGED <<procVars, ipcVars, idle, ipi, me>>

HoldAgain(c) ==
    /\ pc[c] = "again"
    /\ Goto(c, IF oncpu[hold[me[c].p]] # NoCpu THEN "yield" ELSE "reading")
    /\ UNCHANGED <<procVars, holdVars, ipcVars, idle, ipi, me>>

proc_thaw(c) ==
    LET p == me[c].p IN
    /\ pc[c] = "reading"
    /\ frozen' = [frozen EXCEPT ![hold[p]] = Thawed(@)]
    /\ hold' = [hold EXCEPT ![p] = NoProc]
    /\ Goto(c, "lua")
    /\ UNCHANGED <<procVars, ipcVars, idle, ipi, me>>

(* After the resume: a proc still (or again) READY spends its weight. *)
SpendWeight(c) ==
    /\ pc[c] = "yield"
    /\ status[me[c].p] = "READY" /\ me[c].turn < Weight
    /\ me' = [me EXCEPT ![c].turn = @ + 1]
    /\ Goto(c, "reap")
    /\ UNCHANGED <<procVars, holdVars, ipcVars, idle, ipi>>

TurnOver(c) ==
    /\ pc[c] = "yield"
    /\ status[me[c].p] # "READY" \/ me[c].turn >= Weight
    /\ Goto(c, "release")
    /\ UNCHANGED <<procVars, holdVars, ipcVars, idle, ipi, me>>

(* release_claim: the claim goes and the proc is requeued in one region. *)
release_claim(c) ==
    LET p == me[c].p IN
    /\ pc[c] = "release"
    /\ oncpu' = [oncpu EXCEPT ![p] = NoCpu]
    /\ onq' = Requeued(p)
    /\ me' = [me EXCEPT ![c].p = NoProc, ![c].turn = 0]
    /\ Goto(c, "take")
    /\ UNCHANGED <<status, woken, holdVars, ipcVars, idle, ipi>>
----------------------------------------------------------------------------
(* port_push and wake_receivers, from a proc or from the boot cpu's pumps. *)
Push(c, q) ==
    /\ \/ pc[c] = "lua" /\ "send" \in Calls[me[c].p]
       \/ pc[c] = "lap" /\ c = Boot /\ "pump" \in Machine
    /\ bucket[q] = NoCpu /\ msgs[q] < MaxMsgs
    /\ msgs' = [msgs EXCEPT ![q] = @ + 1]
    /\ bucket' = [bucket EXCEPT ![q] = c]
    /\ me' = [me EXCEPT ![c].port = q, ![c].ret = pc[c],
                        ![c].todo = {p \in Proc : <<p, q>> \in linked}]
    /\ Goto(c, "wake")
    /\ UNCHANGED <<procVars, holdVars, waits, linked, idle, ipi>>

WakeTest(c) ==
    /\ pc[c] = "wake"
    /\ \E p \in me[c].todo :
          IF status[p] = "BLOCKED"
          THEN me' = [me EXCEPT ![c].todo = @ \ {p}, ![c].wakee = p] /\ Goto(c, "claim")
          ELSE me' = [me EXCEPT ![c].todo = @ \ {p}] /\ UNCHANGED pc
    /\ UNCHANGED <<procVars, holdVars, ipcVars, idle, ipi>>

(* wake_claim: one waker wins, and only it unlinks and readies the proc.   *)
Claimed(p) == woken[p]

wake_claim(c) ==
    LET p == me[c].wakee IN
    /\ pc[c] = "claim"
    /\ IF Claimed(p) THEN Goto(c, "wake") /\ UNCHANGED <<woken, linked>>
       ELSE /\ woken' = [woken EXCEPT ![p] = TRUE]
            /\ linked' = linked \ {<<p, me[c].port>>}
            /\ Goto(c, "ready")
    /\ UNCHANGED <<status, onq, oncpu, holdVars, waits, msgs, bucket, idle, ipi, me>>

(* make_ready: a proc some cpu still holds is left to that cpu's           *)
(* release_claim; otherwise it joins the lap, and one sleeping cpu is      *)
(* chosen to look.                                                         *)
Sleepers(c) == {d \in CPU \ {c} : idle[d]}

(* Mutant: the claim of another cpu is not asked about. *)
InHandNever(p) == FALSE
InHand(p) == oncpu[p] # NoCpu

make_ready(c) ==
    LET p == me[c].wakee IN
    /\ pc[c] = "ready"
    /\ status' = [status EXCEPT ![p] = "READY"]
    /\ \/ /\ InHand(p)
          /\ Goto(c, "wake")
          /\ UNCHANGED <<onq, me>>
       \/ /\ ~InHand(p)
          /\ onq' = [onq EXCEPT ![p] = IF @ = "none" THEN "run" ELSE @]
          /\ \/ Sleepers(c) = {} /\ Goto(c, "wake") /\ UNCHANGED me
             \/ \E d \in Sleepers(c) : Goto(c, "ipi") /\ me' = [me EXCEPT ![c].ipi = d]
    /\ UNCHANGED <<oncpu, woken, holdVars, ipcVars, idle, ipi>>

(* platform_wake_cpu: a cpu with interrupts on takes it and forgets it.    *)
(* Mutant: interrupts stay on until the cpu halts.                         *)
LatchesHalted(d) == pc[d] = "asleep"
Latches(d) == pc[d] \in {"introff", "idling", "asleep"}

WakeCpu(c) ==
    LET d == me[c].ipi IN
    /\ pc[c] = "ipi"
    /\ ipi' = [ipi EXCEPT ![d] = @ \/ Latches(d)]
    /\ me' = [me EXCEPT ![c].ipi = NoCpu]
    /\ Goto(c, "wake")
    /\ UNCHANGED <<procVars, holdVars, ipcVars, idle>>

PushDone(c) ==
    /\ pc[c] = "wake" /\ me[c].todo = {}
    /\ bucket' = [bucket EXCEPT ![me[c].port] = NoCpu]
    /\ me' = [me EXCEPT ![c].port = NoPort, ![c].wakee = NoProc, ![c].ret = "lap"]
    /\ Goto(c, me[c].ret)
    /\ UNCHANGED <<procVars, holdVars, waits, linked, msgs, idle, ipi>>
----------------------------------------------------------------------------
(* What a cpu does of itself, and what the proc it runs may ask for. *)
Kernel(c) ==
    \/ Lap(c) \/ Take(c) \/ PhaseEnd(c) \/ LapEnd(c) \/ Tick(c) \/ GoIdle(c)
    \/ Halt(c) \/ Awake(c) \/ NotIdle(c) \/ Unlink(c) \/ Resume(c) \/ SpendWeight(c) \/ TurnOver(c)
    \/ release_claim(c) \/ WakeTest(c) \/ wake_claim(c) \/ make_ready(c) \/ WakeCpu(c)
    \/ PushDone(c) \/ SweepClaim(c) \/ SweepRelease(c) \/ SweepEnd(c)
    \/ HoldAgain(c) \/ proc_thaw(c)

Stops(c) == Preempt(c) \/ \E Q \in SUBSET Port \ {{}} : Block(c, Q)

Next == \E c \in CPU :
    \/ Kernel(c) \/ Stops(c)
    \/ \E q \in Port : Push(c, q) \/ Receive(c, q)
    \/ \E t \in Proc : Hold(c, t)

Spec == Init /\ [][Next]_vars

(* Every cpu executes; the count hook ends every slice unless the proc     *)
(* blocks first.                                                           *)
FairSpec == Spec /\ \A c \in CPU : WF_vars(Kernel(c)) /\ SF_vars(Stops(c))
----------------------------------------------------------------------------
Running == {"reap", "lua", "again", "reading", "yield", "release", "collect"}
Holds(c, p) == me[c].p = p /\ (pc[c] \in Running \/ me[c].ret = "lua")

(* A proc is in one place.  No two cpus resume it and none is on a run     *)
(* queue while a cpu has it, so the abort of dispatch_phase is not         *)
(* reached; a runnable one is on a queue, or in the hands of a cpu that    *)
(* will requeue it; and one blocked beside a message has a waker at work   *)
(* on it, although a wake may come at any moment of a resume.              *)
OnePlace ==
    \A p \in Proc :
       /\ \A c \in CPU : Holds(c, p) <=> oncpu[p] = c
       /\ oncpu[p] # NoCpu => onq[p] = "none"
       /\ status[p] = "READY" => onq[p] # "none" \/ oncpu[p] # NoCpu
       /\ (status[p] = "BLOCKED" /\ \E q \in waits[p] : msgs[q] > 0) =>
             \E c \in CPU : \/ pc[c] = "ready" /\ me[c].wakee = p
                            \/ \E q \in waits[p] : /\ bucket[q] = c
                                                   /\ \/ p \in me[c].todo
                                                      \/ me[c].wakee = p /\ pc[c] = "claim"

(* A reader finds its target off every cpu from the moment it starts       *)
(* reading until it thaws it: neither dispatch nor the collector's sweep   *)
(* takes a frozen proc.  The freezes are the readers': none is lost to     *)
(* another reader's thaw, and none outlives its reader, which would leave  *)
(* a proc that never runs.                                                 *)
HeldStill ==
    /\ \A c \in CPU : pc[c] = "reading" => oncpu[hold[me[c].p]] = NoCpu
    /\ \A p \in Proc : frozen[p] = Cardinality({r \in Proc : hold[r] = p})

(* Work is reached: a proc blocked on a port with a message is made ready, *)
(* and a sleeping cpu chosen to look at new work wakes up, its interrupt   *)
(* not lost between its look at the queues and its halt.                   *)
WorkReached ==
    /\ \A p \in Proc, q \in Port :
          (status[p] = "BLOCKED" /\ q \in waits[p] /\ msgs[q] > 0) ~> (status[p] = "READY")
    /\ \A c, d \in CPU : (pc[c] = "ipi" /\ me[c].ipi = d) ~> ~idle[d]

(* A proc that asked to hold another gets to read it and go on. *)
HoldEnds == \A p \in Proc : (hold[p] # NoProc) ~> (hold[p] = NoProc)
============================================================================
