----------------------------- MODULE Lifecycle -----------------------------
(***************************************************************************)
(* The life of a proc on several cpus: proc_new and proc_launch, the two   *)
(* deaths (proc_kill frees, proc_break leaves a corpse), proc_reap and the *)
(* corpse cap, the kill or reap left for the cpu that has the proc in      *)
(* hand, sys.kill's hold, monitors, and the reuse of a slot.               *)
(*                                                                         *)
(* A region of ipclock or schedlock is one step; a wake keeps its bucket   *)
(* from the test to make_ready.  What a C function does between regions is *)
(* a list of tasks, run by its cpu.  Each proc has one port, its self      *)
(* port, and queues are one set: order, weights and counts of rights are   *)
(* the business of Sched and Ports.                                        *)
(***************************************************************************)
EXTENDS Integers, Sequences, FiniteSets, FiniteSetsExt

CONSTANTS CPU, Boot,
          MAXPROCS,     \* slots of procv
          MaxPid,       \* bound: pids given out
          MAXBROKE,     \* corpses kept
          MAXWATCH,     \* watchers of one proc
          First,        \* procs at the start: pid -> pids it has rights to
          Expendable,   \* pids spawned expendable
          Menu,         \* which calls each pid makes
          NoCpu

Slot == 1 .. MAXPROCS
Pid  == 1 .. MaxPid

ASSUME LifecycleAssumption ==
    /\ IsFiniteSet(CPU) /\ Boot \in CPU /\ NoCpu \notin CPU
    /\ MAXPROCS \in Nat /\ MaxPid \in Nat /\ MAXBROKE \in Nat /\ MAXWATCH \in Nat
    /\ DOMAIN First \subseteq Pid \cap Slot /\ \A i \in DOMAIN First : First[i] \subseteq Pid
    /\ Expendable \subseteq Pid

VARIABLES proc,      \* procv: the struct kproc in each slot
          nlive, nbroke, brokeseq, nextpid,
          watched,   \* <<watcher, target>> of each sys.monitor that found its target alive
          told,      \* <<watcher, target>> of each exit notice
          pc, cur,   \* where each cpu is, and the slot in its hands
          work       \* what the C functions it is in have left to do

counters == <<nlive, nbroke, brokeseq, nextpid>>
notices  == <<watched, told>>
vars     == <<proc, counters, notices, pc, cur, work>>

Gone == {"DEAD", "BROKE"}

(* What memset leaves of a slot. *)
Blank == [st |-> "DEAD", pid |-> 0, oncpu |-> NoCpu, onq |-> FALSE, kreq |-> "no",
          reapreq |-> FALSE, reaping |-> FALSE, frozen |-> 0, live |-> FALSE,
          attached |-> FALSE, seq |-> 0, waiting |-> FALSE, watch |-> {},
          expendable |-> FALSE, rights |-> {}, asks |-> 0]

Init ==
    /\ proc = [s \in Slot |-> IF s \notin DOMAIN First THEN Blank ELSE
                 [Blank EXCEPT !.st = "READY", !.pid = s, !.onq = TRUE, !.live = TRUE,
                               !.attached = TRUE, !.rights = First[s],
                               !.expendable = s \in Expendable]]
    /\ nlive = Cardinality(DOMAIN First)
    /\ nextpid = nlive + 1
    /\ nbroke = 0 /\ brokeseq = 0
    /\ watched = {} /\ told = {}
    /\ pc = [c \in CPU |-> "take"]
    /\ cur = [c \in CPU |-> 0]
    /\ work = [c \in CPU |-> <<>>]

Goto(c, at) == pc' = [pc EXCEPT ![c] = at]
Set(s, r)   == proc' = [proc EXCEPT ![s] = r]

(* A task names a slot, and the proc its C function took it for. *)
Task(op, s) == [op |-> op, p |-> s, pid |-> proc[s].pid]

At(c, at)  == pc[c] = at /\ work[c] = <<>>
Doing(c, op) == work[c] # <<>> /\ Head(work[c]).op = op
Do(c, tasks) == work' = [work EXCEPT ![c] = tasks]
Then(c, tasks) == work' = [work EXCEPT ![c] = tasks \o Tail(@)]

(* A wide region waits for every waker's bucket. *)
Wide(c) == \A d \in CPU \ {c} : ~Doing(d, "ready")

find_proc(t) == {s \in Slot : proc[s].pid = t /\ proc[s].st # "DEAD"}

InHand(r, c) == r.oncpu \notin {NoCpu, c}
----------------------------------------------------------------------------
(* make_ready turns a corpse away. *)
Ready(r) == IF r.st = "BROKE" THEN r
            ELSE [r EXCEPT !.st = "READY", !.onq = @ \/ r.oncpu = NoCpu]

make_ready(c) ==
    LET s == Head(work[c]).p IN
    /\ Doing(c, "ready")
    /\ Set(s, Ready(proc[s]))
    /\ Then(c, <<>>)
    /\ UNCHANGED <<counters, notices, pc, cur>>

(* proc_freestate: lua_close and the heap. *)
proc_freestate(c) ==
    /\ Doing(c, "free")
    /\ proc' = [proc EXCEPT ![Head(work[c]).p].live = FALSE]
    /\ Then(c, <<>>)
    /\ UNCHANGED <<counters, notices, pc, cur>>

(* proc_detach, and the store of DEAD that ends proc_kill's region.  The   *)
(* notices wake the watchers parked for them.                              *)
(* Mutant: a watcher that is not waiting is passed over.                   *)
HearingParked(s) == {w \in Slot \ {s} : proc[w].pid \in proc[s].watch /\ proc[w].waiting}
Hearing(s) == {w \in Slot \ {s} : proc[w].pid \in proc[s].watch /\ proc[w].st # "DEAD"}

Detached(s, st) == [proc[s] EXCEPT !.st = st, !.waiting = FALSE, !.onq = FALSE,
                                   !.attached = FALSE, !.rights = {}, !.watch = {}]
Notified(r) == IF r.st = "BLOCKED" /\ r.waiting THEN Ready([r EXCEPT !.waiting = FALSE]) ELSE r

proc_detach(c) ==
    LET s == Head(work[c]).p IN
    /\ Doing(c, "leave") \/ Doing(c, "bury")
    /\ Wide(c)
    /\ proc' = [w \in Slot |->
                  IF w = s THEN Detached(s, IF Doing(c, "leave") THEN "DEAD" ELSE proc[s].st)
                  ELSE IF w \in Hearing(s) THEN Notified(proc[w]) ELSE proc[w]]
    /\ told' = told \cup {<<proc[w].pid, proc[s].pid>> : w \in Hearing(s)}
    /\ nlive' = nlive - 1
    /\ Then(c, <<>>)
    /\ UNCHANGED <<nbroke, brokeseq, nextpid, watched, pc, cur>>

(* proc_kill's region: the test, the claim, the queue and the status. *)
proc_kill(c) ==
    LET s == Head(work[c]).p  r == proc[s] IN
    /\ Doing(c, "kill")
    /\ \/ r.st \in Gone /\ Then(c, <<>>) /\ UNCHANGED proc
       \/ /\ r.st \notin Gone /\ InHand(r, c)
          /\ Set(s, [r EXCEPT !.kreq = "free"])
          /\ Then(c, <<>>)
       \/ /\ r.st \notin Gone /\ ~InHand(r, c)
          /\ Set(s, [r EXCEPT !.onq = FALSE, !.st = "DEAD"])
          /\ Then(c, <<Task("free", s), Task("leave", s)>>)
    /\ UNCHANGED <<counters, notices, pc, cur>>

(* proc_break: the unlocked test, then the region, which does not look at  *)
(* the status again.                                                       *)
Breaks(r) == r.st \notin Gone

BreakTest(c) ==
    LET s == Head(work[c]).p IN
    /\ Doing(c, "break")
    /\ Then(c, IF Breaks(proc[s]) THEN <<Task("broke", s)>> ELSE <<>>)
    /\ UNCHANGED <<proc, counters, notices, pc, cur>>

proc_break(c) ==
    LET s == Head(work[c]).p  r == proc[s]  later == InHand(r, c) IN
    /\ Doing(c, "broke")
    /\ Set(s, IF later THEN [r EXCEPT !.kreq = IF @ = "free" THEN @ ELSE "break"]
              ELSE [r EXCEPT !.onq = FALSE, !.st = "BROKE", !.seq = brokeseq + 1])
    /\ brokeseq' = IF later THEN brokeseq ELSE brokeseq + 1
    /\ nbroke' = IF later THEN nbroke ELSE nbroke + 1
    /\ Then(c, IF later THEN <<>> ELSE <<Task("room", s), Task("bury", s)>>)
    /\ UNCHANGED <<nlive, nextpid, notices, pc, cur>>

Oldest(S) == {s \in S : \A q \in S : proc[s].seq <= proc[q].seq}

(* Room for the new corpse is made before its death is announced. *)
MakeRoom(c) ==
    LET s == Head(work[c]).p
        others == {q \in Slot \ {s} : proc[q].st = "BROKE"} IN
    /\ Doing(c, "room") /\ Wide(c)
    /\ \/ (Cardinality(others) + 1 <= MAXBROKE \/ others = {}) /\ Then(c, <<>>)
       \/ /\ Cardinality(others) + 1 > MAXBROKE
          /\ \E o \in Oldest(others) : Then(c, <<Task("reap", o)>>)
    /\ UNCHANGED <<proc, counters, notices, pc, cur>>

(* proc_reap: claimed in one region, freed outside, released in another.   *)
(* Mutant: the claim is not asked about.                                   *)
UnclaimedAny(r) == r.st = "BROKE"
Unclaimed(r) == r.st = "BROKE" /\ ~r.reaping

proc_reap(c) ==
    LET s == Head(work[c]).p  r == proc[s] IN
    /\ Doing(c, "reap") /\ Wide(c)
    /\ \/ ~Unclaimed(r) /\ Then(c, <<>>) /\ UNCHANGED proc
       \/ /\ Unclaimed(r) /\ InHand(r, c)
          /\ Set(s, [r EXCEPT !.reapreq = TRUE])
          /\ Then(c, <<>>)
       \/ /\ Unclaimed(r) /\ ~InHand(r, c)
          /\ Set(s, [r EXCEPT !.reaping = TRUE])
          /\ Then(c, <<Task("free", s), Task("reaped", s)>>)
    /\ UNCHANGED <<counters, notices, pc, cur>>

Reaped(c) ==
    LET s == Head(work[c]).p IN
    /\ Doing(c, "reaped") /\ Wide(c)
    /\ Set(s, [proc[s] EXCEPT !.st = "DEAD", !.reaping = FALSE])
    /\ nbroke' = nbroke - 1
    /\ Then(c, <<>>)
    /\ UNCHANGED <<nlive, brokeseq, nextpid, notices, pc, cur>>
----------------------------------------------------------------------------
(* Dispatch, and run_proc up to the first line of lua. *)
Take(c) ==
    /\ At(c, "take")
    /\ \E s \in Slot :
          /\ proc[s].onq /\ proc[s].frozen = 0
          /\ Set(s, [proc[s] EXCEPT !.onq = FALSE, !.oncpu = c])
          /\ cur' = [cur EXCEPT ![c] = s]
          /\ Goto(c, IF proc[s].asks = 0 THEN "lua" ELSE "again")
    /\ UNCHANGED <<counters, notices, work>>

(* After the resume: a proc that is gone, or that has a kill left for it,  *)
(* is let go before its collector is stepped.                              *)
(* Mutant: only the kill left on the proc is looked for. *)
LetGoKilled(r) == r.kreq # "no"
LetGo(r) == r.st \in Gone \/ r.kreq # "no"

After(c) ==
    /\ At(c, "after")
    /\ Goto(c, IF LetGo(proc[cur[c]]) THEN "release" ELSE "gc")
    /\ UNCHANGED <<proc, counters, notices, cur, work>>

gc_step(c) ==
    /\ At(c, "gc")
    /\ Goto(c, "release")
    /\ UNCHANGED <<proc, counters, notices, cur, work>>

(* release_claim: the claim and the requeue in one region, and then what   *)
(* was left for this cpu to do.                                            *)
(* Mutant: the kill is dropped with the claim. *)
LeftNothing(s, r) == <<>>
Left(s, r) ==
    CASE r.kreq = "free" -> <<Task("kill", s)>> [] r.kreq = "break" -> <<Task("break", s)>>
      [] OTHER -> <<>>

release_claim(c) ==
    LET s == cur[c]  r == proc[s] IN
    /\ At(c, "release")
    /\ Set(s, [r EXCEPT !.kreq = "no", !.reapreq = FALSE, !.oncpu = NoCpu,
                      !.onq = @ \/ (r.kreq = "no" /\ r.st = "READY")])
    /\ Do(c, Left(s, r) \o IF r.reapreq THEN <<Task("reap", s)>> ELSE <<>>)
    /\ cur' = [cur EXCEPT ![c] = 0]
    /\ Goto(c, "take")
    /\ UNCHANGED <<counters, notices>>

(* The end of a lap: proc_reap_excess, on every cpu, and the loop's test.  *)
Excess(c) ==
    LET corpses == {s \in Slot : proc[s].st = "BROKE" /\ ~proc[s].reaping} IN
    IF nbroke > MAXBROKE /\ Cardinality(corpses) > MAXBROKE THEN Oldest(corpses) ELSE {}

LapEnd(c) ==
    /\ At(c, "take") /\ Wide(c)
    /\ \/ Excess(c) = {} /\ UNCHANGED work
       \/ \E o \in Excess(c) : Do(c, <<Task("reap", o)>>)
    /\ Goto(c, IF c = Boot THEN "memory" ELSE IF nlive > 0 THEN "take" ELSE "off")
    /\ UNCHANGED <<proc, counters, notices, cur>>

(* kernel_run: a shortage takes the largest expendable proc. *)
kmem_victim == {s \in Slot : proc[s].expendable /\ proc[s].st \notin Gone}

Memory(c) ==
    /\ At(c, "memory")
    /\ \/ UNCHANGED <<proc, work>>
       \/ /\ Wide(c)
          /\ \E v \in kmem_victim : /\ proc' = [proc EXCEPT ![v].expendable = FALSE]
                                    /\ Do(c, <<Task("kill", v)>>)
    /\ Goto(c, IF nlive > 0 THEN "take" ELSE "off")
    /\ UNCHANGED <<counters, notices, cur>>
----------------------------------------------------------------------------
(* What a running proc does.  Its quantum ends: *)
Preempt(c) ==
    /\ At(c, "lua")
    /\ Goto(c, "after")
    /\ UNCHANGED <<proc, counters, notices, cur, work>>

Calls(c, op) == At(c, "lua") /\ op \in Menu[proc[cur[c]].pid]

(* It parks on its port; sys.exit is read at that yield. *)
Block(c) ==
    LET s == cur[c] IN
    /\ Calls(c, "block")
    /\ Set(s, [proc[s] EXCEPT !.st = "BLOCKED", !.waiting = TRUE])
    /\ \/ UNCHANGED work
       \/ "exit" \in Menu[proc[s].pid] /\ Do(c, <<Task("kill", s)>>)
    /\ Goto(c, "after")
    /\ UNCHANGED <<counters, notices, cur>>

(* It returns, or it faults. *)
Die(c) ==
    /\ \/ Calls(c, "exit") /\ Do(c, <<Task("kill", cur[c])>>)
       \/ Calls(c, "fault") /\ Do(c, <<Task("break", cur[c])>>)
    /\ Goto(c, "after")
    /\ UNCHANGED <<proc, counters, notices, cur>>

(* A message to a parked proc: the test and the claim, with the bucket     *)
(* kept for make_ready.                                                    *)
Send(c, s) ==
    /\ Calls(c, "send") /\ s # cur[c]
    /\ proc[s].waiting /\ proc[s].st = "BLOCKED"
    /\ proc' = [proc EXCEPT ![s].waiting = FALSE]
    /\ Do(c, <<Task("ready", s)>>)
    /\ UNCHANGED <<counters, notices, pc, cur>>

(* sys.kill: find the proc, freeze it, wait until no cpu has it, break it, *)
(* thaw it.                                                                *)
api_kill(c, s) ==
    /\ Calls(c, "kill") /\ Wide(c)
    /\ s \in find_proc(proc[s].pid) /\ s # cur[c]
    /\ proc[s].pid \in proc[cur[c]].rights
    /\ Do(c, <<Task("freeze", s)>>)
    /\ UNCHANGED <<proc, counters, notices, pc, cur>>

proc_freeze(c) ==
    LET t == Head(work[c])  s == t.p IN
    /\ Doing(c, "freeze")
    /\ \/ /\ proc[s].oncpu = NoCpu
          /\ proc' = [proc EXCEPT ![s].frozen = @ + 1]
          /\ Then(c, <<Task("break", s), Task("thaw", s)>>)
          /\ UNCHANGED pc
       \/ /\ proc[s].oncpu # NoCpu
          /\ proc' = [proc EXCEPT ![s].frozen = @ + 1, ![cur[c]].asks = t.pid]
          /\ Then(c, <<>>)
          /\ Goto(c, "after")
    /\ UNCHANGED <<counters, notices, cur>>

(* The continuation after a yield: the pid is looked up again. *)
api_kill_k(c) ==
    LET me == cur[c]  found == find_proc(proc[me].asks) IN
    /\ At(c, "again") /\ Wide(c)
    /\ \/ /\ found = {}
          /\ proc' = [proc EXCEPT ![me].asks = 0]
          /\ Goto(c, "lua")
          /\ UNCHANGED work
       \/ \E s \in found : Do(c, <<Task("held", s)>>) /\ UNCHANGED <<proc, pc>>
    /\ UNCHANGED <<counters, notices, cur>>

proc_still_running(c) ==
    LET s == Head(work[c]).p IN
    /\ Doing(c, "held")
    /\ \/ /\ proc[s].oncpu # NoCpu
          /\ Then(c, <<>>)
          /\ Goto(c, "after")
          /\ UNCHANGED proc
       \/ /\ proc[s].oncpu = NoCpu
          /\ proc' = [proc EXCEPT ![cur[c]].asks = 0]
          /\ Then(c, <<Task("break", s), Task("thaw", s)>>)
          /\ Goto(c, "lua")
    /\ UNCHANGED <<counters, notices, cur>>

proc_thaw(c) ==
    LET s == Head(work[c]).p IN
    /\ Doing(c, "thaw")
    /\ proc' = [proc EXCEPT ![s].frozen = IF @ > 0 THEN @ - 1 ELSE 0]
    /\ Then(c, <<>>)
    /\ UNCHANGED <<counters, notices, pc, cur>>

(* sys.reap, of a corpse the caller has a right to. *)
api_reap(c, s) ==
    /\ Calls(c, "reap") /\ Wide(c)
    /\ proc[s].st = "BROKE" /\ proc[s].pid \in proc[cur[c]].rights
    /\ Do(c, <<Task("reap", s)>>)
    /\ UNCHANGED <<proc, counters, notices, pc, cur>>

(* sys.monitor: a pid that is gone is answered at once; otherwise the      *)
(* caller is appended, with no lock, to the watchers of what was found.    *)
api_monitor(c, t) ==
    LET me == proc[cur[c]].pid
        alive == {s \in find_proc(t) : proc[s].st # "BROKE"} IN
    /\ Calls(c, "monitor") /\ Wide(c)
    /\ t # me /\ t < nextpid /\ <<me, t>> \notin told
    /\ \/ /\ alive = {}
          /\ told' = told \cup {<<me, t>>}
          /\ UNCHANGED work
       \/ \E s \in alive : Do(c, <<Task("watch", s)>>) /\ UNCHANGED told
    /\ UNCHANGED <<proc, counters, watched, pc, cur>>

WatchRoom(r) == Cardinality(r.watch) < MAXWATCH

AddWatcher(c) ==
    LET s == Head(work[c]).p  me == proc[cur[c]].pid IN
    /\ Doing(c, "watch")
    /\ \/ /\ me \in proc[s].watch \/ ~WatchRoom(proc[s])
          /\ UNCHANGED <<proc, watched>>
       \/ /\ me \notin proc[s].watch /\ WatchRoom(proc[s])
          /\ proc' = [proc EXCEPT ![s].watch = @ \cup {me}]
          /\ watched' = IF proc[s].st \in Gone THEN watched
                        ELSE watched \cup {<<me, proc[s].pid>>}
    /\ Then(c, <<>>)
    /\ UNCHANGED <<counters, told, pc, cur>>

(* proc_new takes the first slot that is DEAD and in nobody's hands.       *)
Vacant == {s \in Slot : proc[s].st = "DEAD" /\ proc[s].oncpu = NoCpu}

Hatched(s) == [Blank EXCEPT !.st = "HATCHING", !.pid = nextpid, !.live = TRUE,
                            !.attached = TRUE]

api_spawn(c) ==
    /\ Calls(c, "spawn") /\ Wide(c)
    /\ nextpid \in Pid /\ Vacant # {}
    /\ LET s == Min(Vacant)
           task(op) == [op |-> op, p |-> s, pid |-> nextpid] IN
       /\ Set(s, [Hatched(s) EXCEPT !.expendable = \/ proc[cur[c]].expendable
                                                   \/ nextpid \in Expendable])
       /\ Do(c, <<task("arg"), task("launch"), task("grant")>>)
    /\ nextpid' = nextpid + 1
    /\ nlive' = nlive + 1
    /\ UNCHANGED <<nbroke, brokeseq, notices, pc, cur>>

(* The argument is delivered, or the child is killed before it ran. *)
DeliverArg(c) ==
    /\ Doing(c, "arg")
    /\ Then(c, <<>>) \/ Do(c, <<Task("kill", Head(work[c]).p)>>)
    /\ UNCHANGED <<proc, counters, notices, pc, cur>>

proc_launch(c) ==
    LET s == Head(work[c]).p IN
    /\ Doing(c, "launch") /\ Wide(c)
    /\ Set(s, Ready(proc[s]))
    /\ Then(c, <<>>)
    /\ UNCHANGED <<counters, notices, pc, cur>>

GrantParent(c) ==
    LET s == Head(work[c]).p IN
    /\ Doing(c, "grant") /\ Wide(c)
    /\ proc' = [proc EXCEPT ![cur[c]].rights = @ \cup {proc[s].pid}]
    /\ Then(c, <<>>)
    /\ UNCHANGED <<counters, notices, pc, cur>>
----------------------------------------------------------------------------
Works(c) ==
    \/ make_ready(c) \/ proc_freestate(c) \/ proc_detach(c) \/ proc_kill(c) \/ BreakTest(c)
    \/ proc_break(c) \/ MakeRoom(c) \/ proc_reap(c) \/ Reaped(c) \/ proc_freeze(c)
    \/ proc_still_running(c) \/ proc_thaw(c) \/ AddWatcher(c) \/ DeliverArg(c)
    \/ proc_launch(c) \/ GrantParent(c)

Asks(c) ==
    \/ Block(c) \/ Die(c) \/ api_spawn(c)
    \/ \E s \in Slot : Send(c, s) \/ api_kill(c, s) \/ api_reap(c, s)
    \/ \E t \in Pid : api_monitor(c, t)

Next == \E c \in CPU :
    \/ Works(c) \/ Asks(c) \/ Take(c) \/ After(c) \/ gc_step(c) \/ release_claim(c)
    \/ LapEnd(c) \/ Memory(c) \/ Preempt(c) \/ api_kill_k(c)

Spec == Init /\ [][Next]_vars

(* Every cpu executes, the count hook ends every slice, and the budget of  *)
(* a lap ends every lap.                                                   *)
Runs(c) ==
    \/ Works(c) \/ Take(c) \/ After(c) \/ gc_step(c) \/ release_claim(c)
    \/ Memory(c) \/ api_kill_k(c)

FairSpec == Spec /\ \A c \in CPU : /\ WF_vars(Runs(c))
                                   /\ SF_vars(Preempt(c)) /\ SF_vars(LapEnd(c))
----------------------------------------------------------------------------
(* No cpu runs lua, or steps the collector, in a state that was closed or  *)
(* that its parent is still building: the abort in api_spawn is not        *)
(* reached.                                                                *)
NoFreedRun ==
    /\ \A c \in CPU : pc[c] \in {"lua", "again", "gc"} => proc[cur[c]].live
    /\ \A c \in CPU : Doing(c, "arg") \/ Doing(c, "launch") =>
          proc[Head(work[c]).p].st = "HATCHING"

(* A death is carried out once, by one cpu, on the proc it began with,     *)
(* whether it is a kill, a reap asked for, the cap's reap or the one left  *)
(* for the cpu that had the proc; the slot goes to no new proc before, and *)
(* no message, notice or late release makes the dying one runnable.        *)
(* nlive, on which every cpu's loop ends, is the number of procs not yet   *)
(* detached, and nbroke that of the corpses.                               *)
Frees(c, s) == \E i \in DOMAIN work[c] : work[c][i].op = "free" /\ work[c][i].p = s
Dying(s) == \E c \in CPU : \E i \in DOMAIN work[c] :
               work[c][i].p = s /\ work[c][i].op \in {"free", "leave", "room", "bury"}
OneDeath ==
    /\ nlive = Cardinality({s \in Slot : proc[s].attached})
    /\ nbroke = Cardinality({s \in Slot : proc[s].st = "BROKE"})
    /\ \A s \in Slot : Cardinality({c \in CPU : Frees(c, s)}) <= 1
    /\ \A s \in Slot : proc[s].st \in Gone \/ Dying(s) => ~proc[s].onq
    /\ \A c \in CPU : \A i \in DOMAIN work[c] :
          LET t == work[c][i] IN
          t.op \in {"free", "leave", "room", "bury", "reaped"} => proc[t.p].pid = t.pid

(* A proc whose monitor of another was in place when that one died has the *)
(* notice, unless it is dying itself.                                      *)
Attached(t) == \E s \in Slot : proc[s].attached /\ proc[s].pid = t
Alive(t)    == \E s \in Slot : proc[s].st \notin Gone /\ proc[s].pid = t
WatcherTold ==
    \A x \in watched : Alive(x[1]) => Attached(x[2]) \/ x \in told

(* A death is carried through: a kill left for the cpu that has the proc   *)
(* in hand is done or finds the proc dead by itself, and corpses above the *)
(* cap are reaped, although the reap asked for at a death may be declined  *)
(* and nothing may die again.                                              *)
DeathsFinish ==
    /\ \A s \in Slot : (proc[s].kreq # "no") ~> (proc[s].st \in Gone)
    /\ []<>(Cardinality({s \in Slot : proc[s].st = "BROKE"}) <= MAXBROKE)
============================================================================
