------------------------------- MODULE Ports -------------------------------
(***************************************************************************)
(* Ports, rights and messages: the reference counts that decide when a     *)
(* port dies, the two-phase send and receive that move rights between      *)
(* procs, parking and waking on a port, one-shot timers, and the cascade   *)
(* that dropping a reference can start.                                    *)
(*                                                                         *)
(* A narrow region (one bucket) is one step.  A wide region is a stack of  *)
(* tasks, the C call stack of port_unref and what it recurses into, run    *)
(* one at a time while other procs take the steps that need no lock.       *)
(***************************************************************************)
EXTENDS Integers, Sequences, FiniteSets

CONSTANTS Proc,          \* procs; each runs on one cpu at a time
          MAXPORTS,      \* size of the port table
          MAXRIGHTS,     \* size of a proc's right table
          MAXMSGRIGHTS,  \* rights one message can carry
          MAXQUEUE,      \* messages a queue has room for (bytes in the code)
          MAXTIMERS,     \* size of the timer table
          PortLimit,     \* port_limit: receive rights one proc may hold
          MsgId,         \* bound: messages that exist at once
          Boot,          \* the right tables the procs start with
          Menus,         \* what the actors of a behaviour may do, one of these
          Kernel,        \* the dispatch loop, which expires timers
          NoProc, NoRight, NoPort, NoMsg

Actor  == Proc \cup {Kernel}
Port   == 0 .. (MAXPORTS - 1)
Handle == 0 .. (MAXRIGHTS - 1)
Slot   == 1 .. MAXMSGRIGHTS
Timer  == 1 .. MAXTIMERS
Right  == [port : Port, recv : BOOLEAN]

ASSUME PortsAssumption ==
    /\ IsFiniteSet(Proc) /\ IsFiniteSet(MsgId)
    /\ {MAXPORTS, MAXRIGHTS, MAXMSGRIGHTS, MAXQUEUE, MAXTIMERS, PortLimit} \subseteq Nat
    /\ Boot \in [Proc -> [Handle -> Right \cup {NoRight}]]
    /\ \A a \in Proc, h \in Handle : Boot[a][h] # NoRight =>      \* somebody receives
          \E b \in Proc, g \in Handle : Boot[b][g] = [port |-> Boot[a][h].port, recv |-> TRUE]
    /\ Menus \subseteq [Actor -> SUBSET {"newport", "timer", "sendright", "close", "tryrecv",
                                         "block", "sendblock", "send", "call", "alt", "exit",
                                         "raise", "expire"}]
    /\ Kernel \notin Proc /\ NoProc \notin Actor
    /\ NoRight \notin Right /\ NoPort \notin Port /\ NoMsg \notin MsgId

VARIABLES menu,     \* the syscalls each proc makes, whether lua may run out of memory
                    \* ("raise"), and whether the kernel's timers fall due ("expire")
          used,     \* portv: the slots that hold a port
          nrights,  \* kport.nrights
          nrecv,    \* kport.nrecv
          dead,     \* kport.dead
          queue,    \* kport.head .. tail
          rights,   \* kproc.rights
          rhint,    \* kproc.rhint: where right_new starts its scan
          nports,   \* kproc.nports
          refs,     \* kmsg.refs and refrecv, or wbuf's while it is built
          alloc,    \* messages that exist
          timers,   \* timers[].port
          waits,    \* the ports each proc is parked on, and what for
          pc,       \* where each proc is
          local,    \* locals of the syscall each proc is in
          wide,     \* the proc inside a wide region
          depth,    \* how often it entered
          stack,    \* the tasks that region has still to do, innermost first
          after     \* where its proc goes then

portVars   == <<used, nrights, nrecv, dead, queue>>
tableVars  == <<rights, rhint, nports>>
regionVars == <<wide, depth, stack, after>>
vars == <<portVars, tableVars, regionVars, refs, alloc, timers, waits, pc, local>>

NoHandle == MAXRIGHTS
Idle  == [msg |-> NoMsg, to |-> NoHandle, next |-> 1, minted |-> {},
          reply |-> NoHandle, cases |-> {}, outer |-> FALSE]
Kinds == {"recv", "hup", "send"}    \* "hup" is a receive that also wants the end

Lowest(S) == CHOOSE x \in S : \A y \in S : x <= y

Refs(m)      == {j \in Slot : refs[m][j] # NoRight}
FreeSlots(m) == Slot \ Refs(m)
Held(a)      == {h \in Handle : rights[a][h] # NoRight}
Free(a)      == {h \in Handle : rights[a][h] = NoRight /\ h >= rhint[a]}
Mine(a, p)   == {h \in Handle : rights[a][h] # NoRight /\ rights[a][h].port = p}

sole_holder(a, p) == nrights[p] <= Cardinality(Mine(a, p))

(* wake_receivers and wake_senders: every proc parked on p for one of the  *)
(* kinds K runs again, its other waits collected as it is resumed.         *)
Woken(p, K) == {a \in Proc : pc[a] = "blocked" /\ \E k \in K : <<p, k>> \in waits[a]}
Resumed(a)  == IF local[a].reply # NoHandle THEN "call_k"
               ELSE IF local[a].cases # {} THEN "alt_k" ELSE "run"

Wake(p, K) ==
    /\ pc' = [a \in Actor |-> IF a \in Woken(p, K) THEN Resumed(a) ELSE pc[a]]
    /\ waits' = [a \in Proc |-> IF a \in Woken(p, K) THEN {} ELSE waits[a]]

(* The same when the proc that wakes also moves on itself. *)
WakeAnd(p, K, self, at) ==
    /\ pc' = [a \in Actor |-> IF a = self THEN at
                             ELSE IF a \in Woken(p, K) THEN Resumed(a) ELSE pc[a]]
    /\ waits' = [a \in Proc |-> IF a \in Woken(p, K) THEN {} ELSE waits[a]]

Goto(a, at) == pc' = [pc EXCEPT ![a] = at]
----------------------------------------------------------------------------
(* Regions.  Nobody else is inside any bucket while a region is wide. *)
MayLock(a) == wide \in {NoProc, a}

ipclock_enter(a) == MayLock(a) /\ wide' = a /\ depth' = depth + 1

ipclock_leave(a) ==
    /\ wide' = IF depth = 1 THEN NoProc ELSE a
    /\ depth' = depth - 1

(* The tasks of a wide region. *)
Drop(a, S, hint) == [op |-> "drop", proc |-> a, hs |-> S, hint |-> hint]
                                                       \* right_drop of each
Msg(m)      == [op |-> "msg", msg |-> m]                \* msg_free
Flush(ms)   == [op |-> "flush", msgs |-> ms]            \* rest of a port_flush
FreePort(p) == [op |-> "free", port |-> p]
Hangup(p)   == [op |-> "hangup", port |-> p]            \* port_unref's wakes
Reap(i)     == [op |-> "reap", from |-> i]              \* reap_dead_timers from i on
Expire(S)   == [op |-> "expire", due |-> S]             \* expire_timers' loop
Arm(a, h, try) == [op |-> "arm", proc |-> a, h |-> h, try |-> try]

(* Enter a wide region to run tasks, and go on to at. *)
Region(a, tasks, at) ==
    /\ ipclock_enter(a)
    /\ stack' = tasks
    /\ after' = at
    /\ Goto(a, "region")

(* Where a syscall goes once its region is over: out of the region its     *)
(* caller holds, if it has one.                                            *)
Out(a) == IF local[a].outer THEN "leave" ELSE "run"

RegionDone(a) ==
    /\ wide = a /\ pc[a] = "region" /\ stack = <<>>
    /\ ipclock_leave(a)
    /\ Goto(a, after)
    /\ local' = IF after \in {"run", "dead"} THEN [local EXCEPT ![a] = Idle] ELSE local
    /\ UNCHANGED <<portVars, tableVars, refs, alloc, timers, waits, stack, after>>

(* The caller's region ends: alt with its message taken, call with its     *)
(* request sent.                                                           *)
Leave(a) ==
    /\ pc[a] = "leave"
    /\ ipclock_leave(a)
    /\ Goto(a, Resumed(a))
    /\ local' = [local EXCEPT ![a] = [Idle EXCEPT !.reply = local[a].reply]]
    /\ UNCHANGED <<portVars, tableVars, refs, alloc, timers, waits, stack, after>>

(* The reference of the caller is gone from its table; n is what is left   *)
(* of nrecv, and q what is on the queue.  last: it was the only reference; *)
(* ends: receivers are gone, and were not before.                          *)
Unref(last, ends, p, n, q, rest) ==
    /\ nrights' = [nrights EXCEPT ![p] = @ - 1]
    /\ nrecv' = [nrecv EXCEPT ![p] = n]
    /\ dead' = IF ends /\ ~last THEN [dead EXCEPT ![p] = TRUE] ELSE dead
    /\ queue' = [queue EXCEPT ![p] = IF last \/ ends THEN <<>> ELSE q]
    /\ \/ last /\ stack' = <<Flush(q), FreePort(p)>> \o rest
       \/ ~last /\ ends /\ stack' = <<Flush(q), Hangup(p)>> \o rest
       \/ ~last /\ ~ends /\ stack' = <<Hangup(p)>> \o rest
    /\ UNCHANGED used

port_unref(p, n, q, rest) == Unref(nrights[p] <= 1, n = 0 /\ ~dead[p], p, n, q, rest)

Less(p, recv) == IF recv THEN nrecv[p] - 1 ELSE nrecv[p]

(* A receive right no longer held is no longer charged. *)
Uncharge(a, recv) ==
    IF recv /\ nports[a] > 0 THEN [nports EXCEPT ![a] = @ - 1] ELSE nports

(* right_drop of the lowest handle left in a drop task: api_close, a       *)
(* timer that could not be armed, minted_undo, proc_detach.                *)
right_drop(a) ==
    LET t == Head(stack)
        h == Lowest(t.hs)
        r == rights[t.proc][h]
        rest == IF t.hs = {h} THEN Tail(stack)
                ELSE <<Drop(t.proc, t.hs \ {h}, t.hint)>> \o Tail(stack)
    IN  /\ wide = a /\ stack # <<>> /\ t.op = "drop"
        /\ rights' = [rights EXCEPT ![t.proc][h] = NoRight]
        /\ nports' = Uncharge(t.proc, r.recv)
        /\ rhint' = IF t.hint /\ h < rhint[t.proc] THEN [rhint EXCEPT ![t.proc] = h]
                    ELSE rhint
        /\ port_unref(r.port, Less(r.port, r.recv), queue[r.port], rest)
        /\ UNCHANGED <<refs, alloc, timers, waits, pc, local, wide, depth, after>>

(* One iteration of release_inflight for the message on top. *)
release_inflight(a) ==
    LET m == Head(stack).msg
        j == Lowest(Refs(m))
        r == refs[m][j]
    IN  /\ wide = a /\ stack # <<>> /\ Head(stack).op = "msg"
        /\ Refs(m) # {}
        /\ refs' = [refs EXCEPT ![m][j] = NoRight]
        /\ port_unref(r.port, Less(r.port, r.recv), queue[r.port], stack)
        /\ UNCHANGED <<tableVars, alloc, timers, waits, pc, local, wide, depth, after>>

(* The rest of msg_free. *)
msg_free(a) ==
    LET m == Head(stack).msg IN
    /\ wide = a /\ stack # <<>> /\ Head(stack).op = "msg"
    /\ Refs(m) = {}
    /\ alloc' = alloc \ {m}
    /\ stack' = Tail(stack)
    /\ UNCHANGED <<portVars, tableVars, refs, timers, waits, pc, local, wide, depth, after>>

(* port_flush walks the chain it detached.  Mutant: it does not advance. *)
FlushStuck(ms) == <<Msg(Head(ms)), Flush(ms)>>
FlushNext(ms) == <<Msg(Head(ms)), Flush(Tail(ms))>>

port_flush(a) ==
    LET ms == Head(stack).msgs IN
    /\ wide = a /\ stack # <<>> /\ Head(stack).op = "flush"
    /\ stack' = IF ms = <<>> THEN Tail(stack)
                ELSE FlushNext(ms) \o Tail(stack)
    /\ UNCHANGED <<portVars, tableVars, refs, alloc, timers, waits, pc, local, wide, depth, after>>

(* port_unref with no reference left: the slot is emptied, the port freed. *)
port_free(a) ==
    /\ wide = a /\ stack # <<>> /\ Head(stack).op = "free"
    /\ used' = used \ {Head(stack).port}
    /\ stack' = Tail(stack)
    /\ UNCHANGED <<nrights, nrecv, dead, queue, tableVars, refs, alloc, timers,
                   waits, pc, local, wide, depth, after>>

(* port_unref with references left: whoever is parked on the port looks    *)
(* again.  Mutant: only the writers.                                       *)
WritersLook(p) == Wake(p, {"send"})
EveryoneLooks(p) == Wake(p, Kinds)

port_hangup(a) ==
    /\ wide = a /\ stack # <<>> /\ Head(stack).op = "hangup"
    /\ EveryoneLooks(Head(stack).port)
    /\ stack' = Tail(stack)
    /\ UNCHANGED <<portVars, tableVars, refs, alloc, timers, local, wide, depth, after>>

(* reap_dead_timers: the table's reference to a port that died goes. *)
reap_dead_timers(a) ==
    LET i == Head(stack).from
        D == {t \in Timer : t >= i /\ timers[t] # NoPort /\ dead[timers[t]]}
        t == Lowest(D)
    IN  /\ wide = a /\ stack # <<>> /\ Head(stack).op = "reap"
        /\ \/ /\ D = {}
              /\ stack' = Tail(stack)
              /\ UNCHANGED <<portVars, timers>>
           \/ /\ D # {}
              /\ timers' = [timers EXCEPT ![t] = NoPort]
              /\ port_unref(timers[t], nrecv[timers[t]], queue[timers[t]],
                            <<Reap(t + 1)>> \o Tail(stack))
        /\ UNCHANGED <<tableVars, refs, alloc, waits, pc, local, wide, depth, after>>

(* The table's own reference.  Mutant: it takes none. *)
NoTimerRef(p) == UNCHANGED nrights
TimerRef(p) == nrights' = [nrights EXCEPT ![p] = @ + 1]

(* timer_arm: a full table is reaped once; then the timer is given up, and *)
(* with it the right api_timer minted.                                     *)
timer_arm(a) ==
    LET k == Head(stack)
        p == rights[k.proc][k.h].port
        F == {t \in Timer : timers[t] = NoPort}
    IN  /\ wide = a /\ stack # <<>> /\ k.op = "arm"
        /\ \/ /\ F # {}
              /\ TimerRef(p)
              /\ timers' = [timers EXCEPT ![Lowest(F)] = p]
              /\ stack' = Tail(stack)
           \/ /\ F = {}
              /\ stack' = (IF k.try = 1 THEN <<Reap(1), Arm(k.proc, k.h, 2)>>
                           ELSE <<Drop(k.proc, {k.h}, FALSE)>>) \o Tail(stack)
              /\ UNCHANGED <<nrights, timers>>
        /\ UNCHANGED <<used, nrecv, dead, queue, tableVars, refs, alloc, waits, pc,
                       local, wide, depth, after>>

(* One due timer of expire_timers: its message is pushed, unless the queue *)
(* refuses it, and the table's reference dropped.                          *)
expire(a) ==
    LET S == {t \in Head(stack).due : timers[t] # NoPort}
        t == Lowest(S)
        p == timers[t]
        rest == <<Expire(S \ {t})>> \o Tail(stack)
    IN  /\ wide = a /\ stack # <<>> /\ Head(stack).op = "expire"
        /\ \/ /\ S = {}
              /\ stack' = Tail(stack)
              /\ UNCHANGED <<portVars, alloc, timers, waits, pc>>
           \/ /\ S # {}
              /\ timers' = [timers EXCEPT ![t] = NoPort]
              /\ \/ /\ port_unref(p, nrecv[p], queue[p], rest) \* dead, full, no memory
                    /\ UNCHANGED <<alloc, waits, pc>>
                 \/ /\ ~dead[p] /\ Len(queue[p]) < MAXQUEUE
                    /\ \E m \in MsgId \ alloc :
                          /\ alloc' = alloc \cup {m}
                          /\ port_unref(p, nrecv[p], Append(queue[p], m), rest)
                    /\ Wake(p, {"recv", "hup"})
        /\ UNCHANGED <<tableVars, refs, local, wide, depth, after>>

(* expire_timers, from the dispatch loop; any armed timer may be due. *)
expire_timers ==
    /\ pc[Kernel] = "run" /\ "expire" \in menu[Kernel]
    /\ \E S \in SUBSET {t \in Timer : timers[t] # NoPort} :
          Region(Kernel, <<Reap(1), Expire(S)>>, "run")
    /\ UNCHANGED <<portVars, tableVars, refs, alloc, timers, waits, local>>

Task(a) ==
    \/ right_drop(a) \/ release_inflight(a) \/ msg_free(a) \/ port_flush(a)
    \/ port_free(a) \/ port_hangup(a) \/ reap_dead_timers(a) \/ timer_arm(a)
    \/ expire(a) \/ RegionDone(a)
----------------------------------------------------------------------------
(* Mutant: a receive right in flight counts as a send right. *)
CountSend(p, recv) ==
    /\ nrights' = [nrights EXCEPT ![p] = @ + 1]
    /\ UNCHANGED nrecv

(* Taking references.  right_new and serialize need no lock: the caller    *)
(* holds a reference to the port already.                                  *)
Count(p, recv) ==
    /\ nrights' = [nrights EXCEPT ![p] = @ + 1]
    /\ nrecv' = [nrecv EXCEPT ![p] = IF recv THEN @ + 1 ELSE @]

right_new(a, p, recv) ==
    LET h == Lowest(Free(a)) IN
    /\ rights' = [rights EXCEPT ![a][h] = [port |-> p, recv |-> recv]]
    /\ rhint' = [rhint EXCEPT ![a] = h + 1]
    /\ nports' = IF recv THEN [nports EXCEPT ![a] = @ + 1] ELSE nports

(* port_new gives the lowest free slot, to a proc with budget left. *)
port_new(a, p) ==
    /\ nports[a] < PortLimit
    /\ p \notin used /\ \A q \in Port : q < p => q \in used
    /\ used' = used \cup {p}
    /\ dead' = [dead EXCEPT ![p] = FALSE]
    /\ queue' = [queue EXCEPT ![p] = <<>>]

NewCounts(p, n) ==
    /\ nrights' = [nrights EXCEPT ![p] = n]
    /\ nrecv' = [nrecv EXCEPT ![p] = n]

(* A right table with no room leaves a port nobody holds.  api_timer then  *)
(* does the same, so this action stands for both.                          *)
api_newport(a, p) ==
    /\ pc[a] = "run" /\ MayLock(a)
    /\ port_new(a, p)
    /\ \/ Free(a) # {} /\ right_new(a, p, TRUE) /\ NewCounts(p, 1)
       \/ Free(a) = {} /\ NewCounts(p, 0) /\ UNCHANGED tableVars
    /\ UNCHANGED <<refs, alloc, timers, waits, pc, local, regionVars>>

api_timer(a, p) ==
    /\ pc[a] = "run" /\ Free(a) # {}
    /\ port_new(a, p)
    /\ right_new(a, p, TRUE)
    /\ NewCounts(p, 1)
    /\ Region(a, <<Arm(a, Lowest(Free(a)), 1)>>, "run")
    /\ UNCHANGED <<refs, alloc, timers, waits, local>>

api_sendright(a, h) ==
    /\ pc[a] = "run" /\ MayLock(a)
    /\ rights[a][h] # NoRight /\ Free(a) # {}
    /\ right_new(a, rights[a][h].port, FALSE)
    /\ Count(rights[a][h].port, FALSE)
    /\ UNCHANGED <<used, dead, queue, refs, alloc, timers, waits, pc, local, regionVars>>

(* The self port, handle 0, is never closed. *)
api_close(a, h) ==
    /\ pc[a] = "run" /\ h # 0 /\ rights[a][h] # NoRight
    /\ Region(a, <<Drop(a, {h}, TRUE)>>, "run")
    /\ UNCHANGED <<portVars, tableVars, refs, alloc, timers, waits, local>>

(* A proc that exits, or is killed between syscalls or parked, leaves      *)
(* every wait and drops every right.                                       *)
proc_detach(a) ==
    /\ pc[a] \in {"run", "blocked", "call_k", "alt_k"}
    /\ waits' = [waits EXCEPT ![a] = {}]
    /\ Region(a, IF Held(a) = {} THEN <<>> ELSE <<Drop(a, Held(a), TRUE)>>, "dead")
    /\ UNCHANGED <<portVars, tableVars, refs, alloc, timers, local>>
----------------------------------------------------------------------------
(* Sending.  serialize counts each right the message carries with no lock  *)
(* held; port_push_owned runs under the port's bucket; a refused message   *)
(* is discarded in a wide region, if it carries rights.                    *)
Build(a, m, h, reply, outer) ==
    /\ pc[a] = "run"
    /\ rights[a][h] # NoRight
    /\ m \notin alloc
    /\ alloc' = alloc \cup {m}
    /\ local' = [local EXCEPT ![a] = [Idle EXCEPT !.msg = m, !.to = h, !.reply = reply,
                                                  !.outer = outer]]
    /\ Goto(a, "serialize")
    /\ UNCHANGED <<portVars, tableVars, refs, timers, waits, stack, after>>

api_send(a, m, h) == Build(a, m, h, NoHandle, FALSE) /\ UNCHANGED <<wide, depth>>

(* api_call sends inside a wide region of its own. *)
api_call(a, m, h, rh) ==
    /\ rights[a][rh] # NoRight /\ rights[a][rh].recv
    /\ Build(a, m, h, rh, TRUE)
    /\ ipclock_enter(a)

serialize(a, h) ==
    LET m == local[a].msg
        r == rights[a][h]
    IN  /\ pc[a] = "serialize"
        /\ r # NoRight /\ FreeSlots(m) # {}
        /\ refs' = [refs EXCEPT ![m][Lowest(FreeSlots(m))] = r]
        /\ Count(r.port, r.recv)
        /\ UNCHANGED <<used, dead, queue, tableVars, regionVars, alloc, timers, waits,
                       pc, local>>

(* A value that cannot be sent, found with some rights already counted. *)
Discarding(a) ==
    /\ Goto(a, "discard")
    /\ local' = [local EXCEPT ![a].reply = NoHandle]
    /\ UNCHANGED <<queue, waits>>

serialize_fail(a) ==
    /\ pc[a] = "serialize"
    /\ Discarding(a)
    /\ UNCHANGED <<used, nrights, nrecv, dead, tableVars, regionVars, refs, alloc, timers>>

(* Dead, full and out of memory leave the message with the sender. *)
port_push_owned(a) ==
    LET m == local[a].msg
        p == rights[a][local[a].to].port
    IN  /\ pc[a] = "serialize" /\ MayLock(a)
        /\ \/ Discarding(a)
           \/ /\ ~dead[p] /\ Len(queue[p]) < MAXQUEUE
              /\ queue' = [queue EXCEPT ![p] = Append(@, m)]
              /\ WakeAnd(p, {"recv", "hup"}, a, Out(a))
              /\ local' = [local EXCEPT ![a].msg = NoMsg, ![a].to = NoHandle]
        /\ UNCHANGED <<used, nrights, nrecv, dead, tableVars, regionVars, refs, alloc, timers>>

(* Finish with a message the proc owns: wide only when it carries rights. *)
Release(a) ==
    LET m == local[a].msg IN
    /\ \/ /\ Refs(m) # {}
          /\ Region(a, <<Msg(m)>>, Out(a))
          /\ UNCHANGED alloc
       \/ /\ Refs(m) = {}
          /\ alloc' = alloc \ {m}
          /\ Goto(a, Out(a))
          /\ UNCHANGED regionVars
    /\ local' = [local EXCEPT ![a] = [Idle EXCEPT !.outer = local[a].outer]]
    /\ UNCHANGED <<portVars, tableVars, refs, timers, waits>>

discard(a)     == pc[a] = "discard" /\ Release(a)
msg_dispose(a) == pc[a] = "dispose" /\ Release(a)
----------------------------------------------------------------------------
(* Receiving.  port_pop runs under the bucket, deserialize outside it.     *)
port_pop(a, p, outer) ==
    /\ queue[p] # <<>>
    /\ queue' = [queue EXCEPT ![p] = Tail(@)]
    /\ WakeAnd(p, {"send"}, a, "deserialize")
    /\ local' = [local EXCEPT ![a] = [Idle EXCEPT !.msg = Head(queue[p]), !.outer = outer]]

RecvRight(a, h) == rights[a][h] # NoRight /\ rights[a][h].recv

api_tryrecv(a, h) ==
    /\ pc[a] = "run" /\ MayLock(a)
    /\ RecvRight(a, h)
    /\ port_pop(a, rights[a][h].port, FALSE)
    /\ UNCHANGED <<used, nrights, nrecv, dead, tableVars, regionVars, refs, alloc, timers>>

(* One right of the message is installed in the receiver's table. *)
deserialize(a) ==
    LET m == local[a].msg
        r == refs[m][local[a].next]
    IN  /\ pc[a] = "deserialize" /\ local[a].next \in Refs(m)
        /\ Free(a) # {}
        /\ right_new(a, r.port, r.recv)
        /\ Count(r.port, r.recv)
        /\ local' = [local EXCEPT ![a].next = @ + 1,
                                  ![a].minted = @ \cup {Lowest(Free(a))}]
        /\ UNCHANGED <<used, dead, queue, regionVars, refs, alloc, timers, waits, pc>>

deserialize_done(a) ==
    /\ pc[a] = "deserialize" /\ local[a].next \notin Refs(local[a].msg)
    /\ Goto(a, "dispose")
    /\ local' = [local EXCEPT ![a].minted = {}]
    /\ UNCHANGED <<portVars, tableVars, regionVars, refs, alloc, timers, waits>>

(* The right table is full, or a value of the message could not be built. *)
deserialize_fail(a) ==
    /\ pc[a] = "deserialize"
    /\ Goto(a, "undo")
    /\ UNCHANGED <<portVars, tableVars, regionVars, refs, alloc, timers, waits, local>>

(* lua runs out of memory while a value is built and unwinds to the        *)
(* nearest protected call, past minted_undo, msg_dispose and, for alt, the *)
(* end of the region.                                                      *)
deserialize_raise(a) ==
    /\ "raise" \in menu[a] /\ pc[a] = "deserialize"
    /\ Goto(a, "run")
    /\ local' = [local EXCEPT ![a] = Idle]
    /\ UNCHANGED <<portVars, tableVars, regionVars, refs, alloc, timers, waits>>

minted_undo(a) ==
    /\ pc[a] = "undo"
    /\ \/ local[a].minted = {} /\ Goto(a, "dispose") /\ UNCHANGED regionVars
       \/ /\ local[a].minted # {}
          /\ Region(a, <<Drop(a, local[a].minted, TRUE)>>, "dispose")
    /\ local' = [local EXCEPT ![a].minted = {}]
    /\ UNCHANGED <<portVars, tableVars, refs, alloc, timers, waits>>
----------------------------------------------------------------------------
(* Parking.  The test and the wait are one region. *)
Park(a, W) ==
    /\ waits' = [waits EXCEPT ![a] = W]
    /\ Goto(a, "blocked")
    /\ UNCHANGED <<portVars, tableVars, regionVars, refs, alloc, timers>>

Full(p) == ~dead[p] /\ Len(queue[p]) >= MAXQUEUE

api_block(a, h) ==
    /\ pc[a] = "run" /\ MayLock(a)
    /\ RecvRight(a, h) /\ queue[rights[a][h].port] = <<>>
    /\ Park(a, {<<rights[a][h].port, "recv">>})
    /\ UNCHANGED local

api_sendblock(a, h) ==
    /\ pc[a] = "run" /\ MayLock(a)
    /\ rights[a][h] # NoRight /\ Full(rights[a][h].port)
    /\ Park(a, {<<rights[a][h].port, "send">>})
    /\ UNCHANGED local

(* call_k, after the request is sent and after every wake. *)
call_k(a) ==
    LET h == local[a].reply
        p == rights[a][h].port
    IN  /\ pc[a] = "call_k" /\ MayLock(a)
        /\ \/ /\ queue[p] # <<>>
              /\ port_pop(a, p, FALSE)
              /\ UNCHANGED <<used, nrights, nrecv, dead, tableVars, regionVars, refs, alloc,
                             timers>>
           \/ /\ queue[p] = <<>> /\ sole_holder(a, p)       \* hungup
              /\ Goto(a, "run")
              /\ local' = [local EXCEPT ![a] = Idle]
              /\ UNCHANGED <<portVars, tableVars, regionVars, refs, alloc, timers, waits>>
           \/ /\ queue[p] = <<>> /\ ~sole_holder(a, p)
              /\ Park(a, {<<p, "hup">>})
              /\ UNCHANGED local

(* alt's cases: a handle and what is awaited on it. *)
altready(a, C) ==
    {c \in C : LET p == rights[a][c[1]].port
               IN  IF c[2] = "send" THEN ~Full(p) ELSE queue[p] # <<>>}

alt_hup(a, C) ==
    {c \in C : c[2] = "hup" /\ sole_holder(a, rights[a][c[1]].port)}

(* One ready case is answered: a message is taken and built inside the     *)
(* region, room or (for a caller that only asks to be woken) readiness is  *)
(* reported.                                                               *)
alt_take(a, C) ==
    \E c \in altready(a, C) :
       \/ /\ c[2] # "send"
          /\ port_pop(a, rights[a][c[1]].port, TRUE)
          /\ ipclock_enter(a)
          /\ UNCHANGED <<used, nrights, nrecv, dead, tableVars, refs, alloc, timers, stack, after>>
       \/ /\ Goto(a, "run")
          /\ local' = [local EXCEPT ![a] = Idle]
          /\ UNCHANGED <<portVars, tableVars, regionVars, refs, alloc, timers, waits>>

api_alt(a, C) ==
    /\ pc[a] = "run" /\ MayLock(a)
    /\ \A c \in C : rights[a][c[1]] # NoRight /\ (c[2] # "send" => rights[a][c[1]].recv)
    /\ \/ alt_take(a, C)
       \/ /\ altready(a, C) = {} /\ alt_hup(a, C) = {}
          /\ Park(a, {<<rights[a][c[1]].port, c[2]>> : c \in C})
          /\ local' = [local EXCEPT ![a].cases = C]

alt_k(a) ==
    /\ pc[a] = "alt_k" /\ MayLock(a)
    /\ \/ alt_take(a, local[a].cases)
       \/ /\ altready(a, local[a].cases) = {}
          /\ Goto(a, "run")
          /\ local' = [local EXCEPT ![a] = Idle]
          /\ UNCHANGED <<portVars, tableVars, regionVars, refs, alloc, timers, waits>>
----------------------------------------------------------------------------
(* The references there are to port p: in right tables, in messages, and   *)
(* in the timer table.                                                     *)
InTables(p)   == {x \in Proc \X Handle : rights[x[1]][x[2]] # NoRight
                                         /\ rights[x[1]][x[2]].port = p}
InMessages(p) == {x \in MsgId \X Slot : refs[x[1]][x[2]] # NoRight
                                        /\ refs[x[1]][x[2]].port = p}
InTimers(p)   == {t \in Timer : timers[t] = p}
RecvTables(p)   == {x \in InTables(p) : rights[x[1]][x[2]].recv}
RecvMessages(p) == {x \in InMessages(p) : refs[x[1]][x[2]].recv}
Holders(p) == Cardinality(InTables(p)) + Cardinality(InMessages(p))
              + Cardinality(InTimers(p))
Receivers(p) == Cardinality(RecvTables(p)) + Cardinality(RecvMessages(p))

Init ==
    /\ menu \in Menus
    /\ rights = Boot
    /\ refs = [m \in MsgId |-> [j \in Slot |-> NoRight]]
    /\ timers = [t \in Timer |-> NoPort]
    /\ alloc = {}
    /\ nrights = [p \in Port |-> Holders(p)]
    /\ nrecv = [p \in Port |-> Receivers(p)]
    /\ used = {p \in Port : InTables(p) # {}}
    /\ dead = [p \in Port |-> FALSE]
    /\ queue = [p \in Port |-> <<>>]
    /\ nports = [a \in Proc |-> Cardinality({h \in Held(a) : Boot[a][h].recv})]
    /\ rhint = [a \in Proc |-> 0]
    /\ waits = [a \in Proc |-> {}]
    /\ pc = [a \in Actor |-> "run"]
    /\ local = [a \in Actor |-> Idle]
    /\ wide = NoProc /\ depth = 0 /\ stack = <<>> /\ after = "run"

(* What a proc may ask for; alt with one or two cases. *)
Cases == {{c, d} : c, d \in Handle \X Kinds}

Call(a) ==
    \/ \E p \in Port :
          \/ "newport" \in menu[a] /\ api_newport(a, p)
          \/ "timer" \in menu[a] /\ api_timer(a, p)
    \/ \E h \in Handle :
          \/ "sendright" \in menu[a] /\ api_sendright(a, h)
          \/ "close" \in menu[a] /\ api_close(a, h)
          \/ "tryrecv" \in menu[a] /\ api_tryrecv(a, h)
          \/ "block" \in menu[a] /\ api_block(a, h)
          \/ "sendblock" \in menu[a] /\ api_sendblock(a, h)
          \/ "send" \in menu[a] /\ \E m \in MsgId : api_send(a, m, h)
          \/ "call" \in menu[a] /\ \E m \in MsgId, rh \in Handle : api_call(a, m, h, rh)
    \/ "alt" \in menu[a] /\ \E C \in Cases : api_alt(a, C)
    \/ "exit" \in menu[a] /\ proc_detach(a)

(* What follows of itself once it has. *)
Step(a) ==
    \/ \E h \in Handle : serialize(a, h)
    \/ serialize_fail(a) \/ port_push_owned(a) \/ discard(a)
    \/ deserialize(a) \/ deserialize_done(a) \/ deserialize_fail(a) \/ deserialize_raise(a)
    \/ minted_undo(a) \/ msg_dispose(a)
    \/ call_k(a) \/ alt_k(a) \/ Leave(a)

Next == UNCHANGED menu /\
    \/ \E a \in Proc : Call(a) \/ Step(a)
    \/ \E a \in Actor : Task(a)
    \/ expire_timers

Spec == Init /\ [][Next]_<<menu, vars>>
----------------------------------------------------------------------------
(* The counters kept by serialize, right_new, right_drop, release_inflight *)
(* and the timers, each taken or dropped by a different path and half of   *)
(* them with no lock, are the number of references there are, and a port   *)
(* whose last receive right went is dead and empty at once: nothing is     *)
(* ever queued where nobody can take it.                                   *)
CountsExact ==
    /\ \A p \in Port : nrights[p] = Holders(p) /\ nrecv[p] = Receivers(p)
    /\ \A p \in used : nrecv[p] = 0 /\ nrights[p] > 0 => dead[p] /\ queue[p] = <<>>

Pending(p) == \E i \in DOMAIN stack : stack[i].op = "free" /\ stack[i].port = p

(* No right, message or timer ever names a port that was freed, or that    *)
(* port_unref has decided to free, and a waiter is linked while its proc   *)
(* is parked, on a port that proc has a right to, and no longer: kernel    *)
(* code follows these references with no further check.                    *)
NoDangling ==
    /\ \A p \in Port : Holders(p) > 0 => p \in used /\ ~Pending(p)
    /\ \A a \in Proc :
          /\ waits[a] # {} <=> pc[a] = "blocked"
          /\ \A w \in waits[a] : w[1] \in used /\ Mine(a, w[1]) # {}

(* Between regions nobody sleeps through what it waits for: not through a  *)
(* message, not through room or the death of the port it would send to,    *)
(* and not through the exit of the last proc that could answer.            *)
NoLostWakeup ==
    wide = NoProc =>
       \A a \in Proc : pc[a] = "blocked" => \A w \in waits[a] :
          /\ w[2] = "send" => Full(w[1])
          /\ w[2] # "send" => queue[w[1]] = <<>>
          /\ w[2] = "hup" => ~sole_holder(a, w[1])
============================================================================
