------------------------------- MODULE Debug -------------------------------
(***************************************************************************)
(* los.dbg: a debugger stops a proc, reads it, steps it and lets it go.    *)
(* One target, on whichever cpu takes it, its coroutines and their hooks;  *)
(* a debugger on another cpu; the sweep every cpu makes once per lap; and  *)
(* whoever sends the target messages or kills it.                          *)
(*                                                                         *)
(* A hook event, a schedlock region and an ipc region are one step each.   *)
(* What a reader reports is in Inspect.                                    *)
(***************************************************************************)
EXTENDS Naturals, Sequences, SequencesExt, FiniteSetsExt

CONSTANTS Lines,     \* lines a breakpoint may be on
          MaxLvl,    \* bound: coroutines inside coroutines
          Sessions   \* what may happen: the debugger's calls, how the target nests its
                     \* coroutines, and faults ("dies": the debugger, "kill": the target)

ASSUME DebugAssumption ==
    /\ MaxLvl \in Nat
    /\ \A s \in Sessions :
          /\ s.ops \subseteq {"attach", "detach", "stop", "cont", "step", "setbreak", "clearbreak", "read"}
          /\ s.nests \subseteq {"wrap", "resume", "run", "hard"}
          /\ s.faults \subseteq {"dies", "kill"}

VARIABLES status, queued, run,  \* the target: its status, is it queued, what its cpu does with it
          frozen,               \* kproc.frozen
          waiting, msg,         \* is it inside sys.block, and has a message come
          chain, nny,           \* how each open coroutine was resumed; is the frame unyieldable
          forced, armed, mask,  \* hookforced; coroutines that sample every instruction, or lines
          dbg,                  \* kproc.dbg
          port,                 \* the debugger's port: can it be received on
          call,                 \* the debugger's call and where it is
          kill,                 \* the killer: idle, holding
          session               \* one of Sessions

proc  == <<status, queued, run, frozen, waiting, msg>>
lua   == <<chain, nny, forced, armed, mask>>
outer == <<port, call, kill, session>>
debug_vars  == <<proc, lua, dbg, outer>>

Level  == 0 .. MaxLvl
Depth    == Len(chain)
NoDbg  == [on |-> FALSE]
OnCpu  == run # "off"
Gone   == status \in {"BROKE", "DEAD"}

DebugInit ==
    /\ status = "READY" /\ queued = TRUE /\ run = "off" /\ frozen = 0
    /\ waiting = FALSE /\ msg = FALSE
    /\ chain = <<>> /\ nny = FALSE /\ forced = 0 /\ armed = {} /\ mask = {}
    /\ dbg = NoDbg
    /\ port = "live"
    /\ call = [op |-> "none", at |-> "lua"]
    /\ kill = "idle" /\ session \in Sessions
----------------------------------------------------------------------------
(* dbg_init, and what a kdbg makes of the hooks. *)
dbg_init ==
    [on |-> TRUE, bp |-> {}, pending |-> "run", stopreq |-> FALSE, notify |-> "run",
     detach |-> FALSE, step |-> "none", stepco |-> 0]

dbg_wants_lines(d) == d.on /\ (d.bp # {} \/ d.step # "none")
proc_hookmask(d) == IF dbg_wants_lines(d) THEN Level ELSE {}

(* proc_armall at the sampling rate. *)
(* Mutant: only the proc's own coroutine is armed. *)
rearm_one(d) == IF dbg_wants_lines(d) THEN mask \cup {0} ELSE mask \ {0}
rearm(d) == proc_hookmask(d)
proc_rearm(d) == mask' = rearm(d) /\ armed' = {}

dbg_arm_stop(d, reason) ==
    [d EXCEPT !.pending = reason, !.step = "none", !.stepco = 0, !.stopreq = FALSE]

(* dbg_line: what a line event on the running coroutine decides.  How deep *)
(* the frame is, against the one a step over began in, is a choice.        *)
dbg_line(d, ln) ==
    IF d.pending # "run" THEN {d}
    ELSE IF d.step = "in" THEN {dbg_arm_stop(d, "step")}
    ELSE IF d.step = "over" THEN {d} \cup IF Depth = d.stepco THEN {dbg_arm_stop(d, "step")} ELSE {}
    ELSE IF ln \in d.bp THEN {dbg_arm_stop(d, "breakpoint")}
    ELSE {d}
----------------------------------------------------------------------------
(* The hook.  A yield reaches the resumer of the coroutine it fires in:    *)
(* coroutine.wrap hands a cut outward, or resumes at once when its frame   *)
(* cannot yield; thread.run hands it to the kernel; a plain resume takes   *)
(* it for a yield.                                                         *)
Passes == {i \in DOMAIN chain : chain[i] # "wrap"}
Stops  == IF Passes = {} THEN "run" ELSE chain[Max(Passes)]

Yielded ==
    \/ Stops = "run" /\ run' = "yield" /\ UNCHANGED <<chain, nny>>
    \/ Stops = "hard" /\ UNCHANGED <<run, chain, nny>>
    \/ /\ Stops = "resume"
       /\ chain' = SubSeq(chain, 1, Max(Passes) - 1)
       /\ UNCHANGED <<run, nny>>

preempt_walkout(f, a) ==
    /\ \/ Depth = 0 /\ forced' = f /\ armed' = a
       \/ Depth # 0 /\ f # 0 /\ forced' = 2 /\ armed' = Level
       \/ Depth # 0 /\ f = 0 /\ forced' = 1 /\ armed' = a \cup {0}
    /\ Yielded

(* Mutant: a stop that is pending waits for the quantum like any other. *)
StoppingNot(d) == FALSE
Stopping(d) == d.on /\ (d.pending # "run" \/ d.stopreq)

HookLine(ln) ==
    /\ run = "lua" /\ ~waiting /\ (Depth \notin armed \/ nny) /\ Depth \in mask /\ dbg.on
    /\ \E d \in dbg_line(dbg, ln) :
          /\ dbg' = d
          /\ \/ d.pending # "run" /\ ~nny /\ preempt_walkout(forced, armed)
             \/ (d.pending = "run" \/ nny) /\ UNCHANGED <<run, chain, nny, forced, armed>>
    /\ UNCHANGED <<status, queued, frozen, waiting, msg, mask, outer>>

(* A count event, at every instruction of a coroutine armed at one and now *)
(* and then in the others; the quantum may or may not be over.             *)
HookCount ==
    LET back == Depth = 0 /\ forced # 0
        f == IF back THEN 0 ELSE forced
        a == IF ~back THEN armed ELSE IF forced = 2 THEN {} ELSE armed \ {0} IN
    /\ run = "lua" /\ ~waiting
    /\ dbg' = IF ~nny /\ dbg.on /\ dbg.pending = "run" /\ dbg.stopreq
              THEN dbg_arm_stop(dbg, "request") ELSE dbg
    /\ \/ ~nny /\ preempt_walkout(f, a)
       \/ /\ nny \/ ~Stopping(dbg)
          /\ forced' = f /\ armed' = a
          /\ UNCHANGED <<run, chain, nny>>
    /\ UNCHANGED <<status, queued, frozen, waiting, msg, mask, outer>>
----------------------------------------------------------------------------
(* The target's own steps, between hook events. *)
Instruction == run = "lua" /\ ~waiting /\ (Depth \notin armed \/ nny \/ Stops = "hard")
rest == <<status, queued, run, frozen, waiting, msg, forced, dbg, outer>>

(* lua_newthread copies its maker's hook. *)
Copied(S) == IF Depth \in S THEN S \cup {Depth + 1} ELSE S \ {Depth + 1}

Nest(kind) ==
    /\ Instruction /\ Depth < MaxLvl
    /\ kind = "hard" <=> nny
    /\ kind = "run" => chain = <<>>
    /\ chain' = Append(chain, kind)
    /\ nny' = FALSE
    /\ \/ UNCHANGED <<armed, mask>>                    \* one that exists
       \/ /\ armed' = Copied(armed) /\ mask' = Copied(mask)   \* a new one
    /\ UNCHANGED rest

Unnest ==
    /\ Instruction /\ chain # <<>> /\ ~nny
    /\ nny' = (Last(chain) = "hard")
    /\ chain' = Front(chain)
    /\ UNCHANGED <<armed, mask, rest>>

CallC == Instruction /\ "hard" \in session.nests /\ nny' = ~nny /\ UNCHANGED <<chain, armed, mask, rest>>

(* sys.block, in the proc's own coroutine: what thread.run does when every *)
(* thread is parked.                                                       *)
api_block ==
    /\ Instruction /\ ~nny /\ chain \in {<<>>, <<"run">>}
    /\ chain' = <<>>
    /\ \/ msg /\ msg' = FALSE /\ UNCHANGED <<status, run, waiting>>
       \/ ~msg /\ status' = "BLOCKED" /\ run' = "yield" /\ waiting' = TRUE /\ UNCHANGED msg
    /\ UNCHANGED <<queued, frozen, nny, forced, armed, mask, dbg, outer>>

Ends == Instruction /\ \E how \in {"exit", "error"} : run' = how
        /\ UNCHANGED <<status, queued, frozen, waiting, msg, lua, dbg, outer>>
----------------------------------------------------------------------------
(* run_proc and the claim around it. *)
Take ==
    /\ run = "off" /\ queued /\ frozen = 0
    /\ queued' = FALSE /\ run' = "settle"
    /\ UNCHANGED <<status, frozen, waiting, msg, lua, dbg, outer>>

dbg_settle ==
    /\ run = "settle"
    /\ run' = "lua"
    /\ \/ dbg.on /\ dbg.detach /\ dbg' = NoDbg /\ proc_rearm(NoDbg)
       \/ ~(dbg.on /\ dbg.detach) /\ UNCHANGED <<dbg, mask, armed>>
    /\ UNCHANGED <<status, queued, frozen, waiting, msg, chain, nny, forced, outer>>

(* The block continuation polls again before any lua runs, and parks again *)
(* when there is nothing.                                                  *)
Poll ==
    /\ run = "lua" /\ waiting
    /\ \/ msg /\ waiting' = FALSE /\ msg' = FALSE /\ UNCHANGED <<status, run>>
       \/ ~msg /\ status' = "BLOCKED" /\ run' = "yield" /\ UNCHANGED <<waiting, msg>>
    /\ UNCHANGED <<queued, frozen, lua, dbg, outer>>

(* dbg_commit: the status under schedlock, and then the notice to send. *)
dbg_commit ==
    /\ run = "yield"
    /\ \/ /\ dbg.on /\ dbg.pending # "run"
          /\ status' = "STOPPED"
          /\ run' = "committed"
          /\ dbg' = [dbg EXCEPT !.pending = "run"]
       \/ /\ ~(dbg.on /\ dbg.pending # "run")
          /\ run' = IF status = "READY" THEN "settle" ELSE "release"
          /\ UNCHANGED <<status, dbg>>
       \/ /\ ~(dbg.on /\ dbg.pending # "run")     \* the weight is spent
          /\ run' = "release"
          /\ UNCHANGED <<status, dbg>>
    /\ UNCHANGED <<queued, frozen, waiting, msg, lua, outer>>

Committed ==
    /\ run = "committed"
    /\ dbg' = [dbg EXCEPT !.notify = "stop"]
    /\ run' = "release"
    /\ UNCHANGED <<status, queued, frozen, waiting, msg, lua, outer>>

release_claim ==
    /\ run = "release"
    /\ run' = "off"
    /\ queued' = (status = "READY")
    /\ UNCHANGED <<status, frozen, waiting, msg, lua, dbg, outer>>

(* What dying does to it.  A corpse keeps its kdbg until it is reaped;      *)
(* proc_kill frees it with the state.                                      *)
proc_kill ==
    /\ run = "exit"
    /\ status' = "DEAD" /\ run' = "off" /\ queued' = FALSE
    /\ dbg' = NoDbg
    /\ UNCHANGED <<frozen, waiting, msg, lua, outer>>

Broken ==
    /\ status' = "BROKE" /\ queued' = FALSE

proc_break ==
    /\ run = "error"
    /\ Broken /\ run' = "off"
    /\ UNCHANGED <<frozen, waiting, msg, lua, dbg, outer>>

(* sys.kill by another proc, which holds the target as a debugger does. *)
api_kill ==
    /\ "kill" \in session.faults
    /\ \/ /\ kill = "idle" /\ ~Gone
          /\ frozen' = frozen + 1 /\ kill' = "hold"
          /\ UNCHANGED <<status, queued>>
       \/ /\ kill = "hold" /\ ~OnCpu
          /\ frozen' = frozen - 1 /\ kill' = "idle"
          /\ \/ Gone /\ UNCHANGED <<status, queued>>
             \/ ~Gone /\ Broken
    /\ UNCHANGED <<run, waiting, msg, lua, dbg, port, call, session>>

proc_reap ==
    /\ status = "BROKE" /\ ~OnCpu
    /\ status' = "DEAD" /\ dbg' = NoDbg
    /\ UNCHANGED <<queued, run, frozen, waiting, msg, lua, outer>>
----------------------------------------------------------------------------
(* make_ready, for a target with status s: a stopped proc and a corpse stay    *)
(* so, and a stop asked of a blocked proc is delivered by its wake.        *)
Delivers(s) == dbg.on /\ s = "BLOCKED" /\ dbg.stopreq

make_ready(s) ==
    \/ /\ s \in {"STOPPED", "BROKE"}
       /\ status' = s /\ UNCHANGED <<queued, dbg>>
    \/ /\ Delivers(s)
       /\ status' = "STOPPED"
       /\ dbg' = [dbg EXCEPT !.stopreq = FALSE, !.notify = "stop"]
       /\ UNCHANGED queued
    \/ /\ s \notin {"STOPPED", "BROKE"} /\ ~Delivers(s)
       /\ status' = "READY"
       /\ queued' = (queued \/ ~OnCpu)
       /\ UNCHANGED <<dbg>>

(* A message for the target.  wake_receivers skips a proc that is not      *)
(* blocked; one stopped or killed since is make_ready's to skip.           *)
Message ==
    /\ ~msg /\ ~Gone
    /\ msg' = TRUE
    /\ \/ status \in {"BLOCKED", "STOPPED", "BROKE"} /\ make_ready(status)
       \/ status \notin {"BLOCKED", "STOPPED", "BROKE"} /\ UNCHANGED <<status, queued, dbg>>
    /\ UNCHANGED <<run, frozen, waiting, lua, outer>>

(* dbg_sweep, once per lap of any cpu, under the wide lock: it tells the    *)
(* debugger of a stop and lets go of a target nobody debugs any more.      *)
Orphaned == port = "dead"

(* Mutant: a stopped proc is marked and not woken. *)
OrphanWakesNot == FALSE
OrphanWakes == status = "STOPPED"

dbg_mark_orphan(d) ==
    \/ ~Orphaned /\ dbg' = d /\ UNCHANGED <<status, queued>>
    \/ /\ Orphaned
       /\ dbg' = [d EXCEPT !.detach = TRUE]
       /\ \/ /\ OrphanWakes
             /\ status' = "READY" /\ queued' = (queued \/ ~OnCpu)
          \/ ~OrphanWakes /\ UNCHANGED <<status, queued>>

Sweeps == dbg.on /\ (dbg.notify # "run" \/ (Orphaned /\ (~dbg.detach \/ status = "STOPPED")))
dbg_sweep ==
    /\ Sweeps
    /\ dbg_mark_orphan([dbg EXCEPT !.notify = "run"])
    /\ UNCHANGED <<run, frozen, waiting, msg, lua, outer>>
----------------------------------------------------------------------------
(* The debugger.  proc_hold freezes the target on the first pass and waits *)
(* for it to be off its cpu; the body follows, and proc_thaw ends it.      *)
mine == <<run, waiting, msg, port, kill, session>>
Off(op, at) == call' = [op |-> op, at |-> at]

proc_hold(op) ==
    /\ call.at = "lua" /\ status # "DEAD"
    /\ frozen' = frozen + 1 /\ Off(op, "hold")
    /\ UNCHANGED <<mine, status, queued, lua, dbg>>

HoldGone ==
    /\ call.at = "hold" /\ status = "DEAD"
    /\ Off("none", "lua")
    /\ UNCHANGED <<mine, status, queued, frozen, lua, dbg>>

Held(op) == call = [op |-> op, at |-> "hold"] /\ ~OnCpu /\ status # "DEAD"
proc_thaw(at) == frozen' = frozen - 1 /\ Off("none", at)

(* dbg_acting and the tests after it: refused, with nothing changed. *)
Refused(op) ==
    \/ op \notin {"attach", "detach", "read"} /\ ~dbg.on
    \/ op = "attach" /\ dbg.on
    \/ op \in {"cont", "step"} /\ status # "STOPPED"
    \/ op = "stop" /\ status \in {"BROKE", "STOPPED"}

Refuse ==
    /\ \E op \in session.ops : Held(op) /\ Refused(op)
    /\ proc_thaw("lua")
    /\ UNCHANGED <<mine, status, queued, lua, dbg>>

(* frames, get and locals: of a corpse too, and an error thaws as well. *)
dbg_read ==
    /\ Held("read")
    /\ proc_thaw("lua")
    /\ UNCHANGED <<mine, status, queued, lua, dbg>>

Acts(op) == Held(op) /\ ~Refused(op)
quiet == <<status, queued, chain, nny, forced>>

api_dbg_attach ==
    /\ Acts("attach") /\ dbg' = dbg_init
    /\ proc_thaw("lua") /\ UNCHANGED <<mine, quiet, armed, mask>>

api_dbg_setbreak ==
    /\ Acts("setbreak")
    /\ \E ln \in Lines \ dbg.bp : dbg' = [dbg EXCEPT !.bp = @ \cup {ln}]
    /\ proc_rearm(dbg')
    /\ proc_thaw("lua") /\ UNCHANGED <<mine, quiet>>

api_dbg_clearbreak ==
    /\ Acts("clearbreak")
    /\ \E gone \in SUBSET dbg.bp : dbg' = [dbg EXCEPT !.bp = @ \ gone]
    /\ proc_rearm(dbg')
    /\ proc_thaw("lua") /\ UNCHANGED <<mine, quiet>>

Runs == [dbg EXCEPT !.step = "none", !.stepco = 0, !.pending = "run", !.stopreq = FALSE]

api_dbg_cont ==
    /\ Acts("cont")
    /\ dbg' = Runs /\ proc_rearm(dbg')
    /\ proc_thaw("resume") /\ UNCHANGED <<mine, quiet>>

(* A step over where the stop was, or in when that coroutine is gone. *)
api_dbg_step ==
    /\ Acts("step")
    /\ \/ dbg' = [Runs EXCEPT !.step = "in"]
       \/ \E k \in 0 .. Depth : dbg' = [Runs EXCEPT !.step = "over", !.stepco = k]
    /\ proc_rearm(dbg')
    /\ proc_thaw("resume") /\ UNCHANGED <<mine, quiet>>

api_dbg_detach ==
    /\ Acts("detach")
    /\ dbg' = NoDbg /\ proc_rearm(NoDbg)
    /\ proc_thaw(IF dbg.on /\ status = "STOPPED" THEN "resume" ELSE "lua")
    /\ UNCHANGED <<mine, quiet>>

(* After the thaw, whatever the status has become. *)
dbg_resume ==
    /\ call.at = "resume" /\ Off("none", "lua")
    /\ \/ status = "DEAD" /\ UNCHANGED <<status, queued>>    \* not followed
       \/ status # "DEAD" /\ status' = "READY" /\ queued' = (queued \/ ~OnCpu)
    /\ UNCHANGED <<mine, frozen, lua, dbg>>

(* A running target is asked: every coroutine samples every instruction.    *)
(* A blocked one is parked here; the test and the set are two regions, with *)
(* the target frozen and not running between them.                         *)
api_dbg_stop ==
    /\ Acts("stop")
    /\ \/ /\ status = "BLOCKED"
          /\ dbg' = [dbg EXCEPT !.stopreq = FALSE]
          /\ Off("stop", "park")
          /\ UNCHANGED <<frozen, forced, armed, mask>>
       \/ /\ status # "BLOCKED"
          /\ dbg' = [dbg EXCEPT !.stopreq = TRUE]
          /\ forced' = 2 /\ armed' = Level /\ mask' = proc_hookmask(dbg)
          /\ proc_thaw("lua")
    /\ UNCHANGED <<mine, status, queued, chain, nny>>

StopParks ==
    /\ call.at = "park"
    /\ \/ status = "DEAD" /\ UNCHANGED <<status, dbg>>        \* not followed
       \/ /\ status # "DEAD" /\ status' = "STOPPED"
          /\ dbg' = IF dbg.on THEN [dbg EXCEPT !.notify = "stop"] ELSE dbg
    /\ proc_thaw("lua")
    /\ UNCHANGED <<mine, queued, lua>>

(* The debugger's proc ends while it runs lua or waits for a hold. *)
Dies ==
    /\ "dies" \in session.faults /\ call.at \in {"lua", "hold"}
    /\ port' = "dead" /\ Off("none", "dead")
    /\ UNCHANGED <<status, queued, frozen, run, waiting, msg, kill, session, lua, dbg>>
----------------------------------------------------------------------------
Body ==
    \/ Refuse \/ dbg_read \/ HoldGone \/ api_dbg_attach \/ api_dbg_setbreak \/ api_dbg_clearbreak
    \/ api_dbg_cont \/ api_dbg_step \/ api_dbg_detach \/ dbg_resume
    \/ api_dbg_stop \/ StopParks

TargetLua ==
    \/ HookCount \/ \E ln \in Lines : HookLine(ln)
    \/ \E k \in session.nests : Nest(k)
    \/ Unnest \/ CallC \/ api_block \/ Ends

Kernel == Take \/ dbg_settle \/ Poll \/ dbg_commit \/ Committed \/ release_claim
          \/ proc_kill \/ proc_break

DebugNext ==
    \/ TargetLua \/ Kernel \/ Body \/ (\E op \in session.ops : proc_hold(op))
    \/ dbg_sweep \/ Message \/ api_kill \/ proc_reap \/ Dies

(* A sample falls in a frame that can yield. *)
Sample == ~nny /\ HookCount
----------------------------------------------------------------------------
(* A stop the debugger asked for is committed, unless the target waits for  *)
(* a message, is inside a C frame that cannot yield, or was frozen for good *)
(* by a debugger that died waiting for it (dbg.c api_dbg_stop_k, proc.c     *)
(* preempt_hook).                                                          *)
Asked == dbg.on /\ (dbg.stopreq \/ dbg.pending # "run")
Excused ==
    \/ waiting /\ ~msg
    \/ nny \/ "hard" \in Range(chain)
    \/ call.at = "dead" /\ frozen # 0
StopLands == Asked ~> (~Asked \/ Excused \/ Gone)

(* A proc whose debugger is gone does not stay stopped (dbg.c               *)
(* dbg_mark_orphan: "the stranding this exists to prevent").               *)
NoStranding == (Orphaned /\ status = "STOPPED") ~> (status # "STOPPED")

(* While lines matter every coroutine of the target reports them (proc.c    *)
(* proc_armall), those the target makes later included.                    *)
LinesArmed == dbg_wants_lines(dbg) => mask = Level

============================================================================
