------------------------------ MODULE Thread -------------------------------
(***************************************************************************)
(* los.thread: the coroutines of one proc, the loop that runs them, their  *)
(* channels, and the calls that wait on ports.                             *)
(*                                                                         *)
(* One coroutine runs at a time, so what a C function does between two     *)
(* yields is one step, unless it asks the kernel more than one question:   *)
(* other procs send, close and answer between any two syscalls.  A stack   *)
(* of frames stands for the C functions a thread is inside, with the       *)
(* continuation each resumes at.  lua_next visits a table in any order.    *)
(***************************************************************************)
EXTENDS Integers, Sequences, FiniteSets, SequencesExt

CONSTANTS Thread, Chan, Svc,  \* coroutines, channels, ports other procs send to
          Dest,               \* the port of the service requests go to
          Cap,                \* capacity of each channel
          Value,              \* what is sent on channels
          Programs,           \* calls each thread makes, threads spawned before run, ports in use
          Nobody,
          MAXQUEUE,           \* messages a port holds
          MaxRing,            \* bound: other procs pause while the ring is longer
          MaxRpc              \* bound: rpcs per thread

ASSUME ThreadAssumption ==
    /\ IsFiniteSet(Thread) /\ Nobody \notin Thread
    /\ Cap \in [Chan -> Nat] /\ MAXQUEUE \in Nat \ {0} /\ MaxRing \in Nat /\ MaxRpc \in Nat

Reply(t) == <<"reply", t>>      \* a thread's reply port
Timer(t) == <<"timer", t>>      \* the port of the timer it armed
Port == Svc \cup {Reply(t) : t \in Thread} \cup {Timer(t) : t \in Thread}

VARIABLES
    prog,                   \* the program that runs
    sch,                    \* struct sched: sets parked, wake, woken, nonrecv
    ring, inplace, nthreads,
    rec, mail,              \* park records, and what was handed over in them
    portq, pending,
    loop,                   \* run_loop: where it is, the current thread, its alt set
    stack, ret, life,       \* each thread: frames, last result, unborn / live / dead
    chan, done,             \* channels; is this thread's parked send taken
    queue, far,             \* the kernel: messages of a port, whether others can send to it
    dest, held,             \* the service: its queue, and the requests it works on
    rpcno                   \* requests each thread has made

threads == <<stack, ret, life, rpcno>>
waits   == <<rec, mail, portq, pending>>
sched   == <<sch, ring, inplace, nthreads, loop>>
chans   == <<chan, done>>
kernel  == <<queue, far, dest, held>>
thread_vars    == <<prog, threads, waits, sched, chans, kernel>>

(* What a call answers: which case, and the message; 0 is a failure. *)
Result(i, v) == [i |-> i, v |-> v]
Nil == Result(0, 0)
NoRec == [port |-> Nobody, ports |-> {}, alt |-> FALSE, recv |-> FALSE, send |-> FALSE]
NoChan == [buf |-> <<>>, sendq |-> <<>>, recvq |-> <<>>, closed |-> FALSE, last |-> <<>>]

ThreadInit ==
    /\ prog \in Programs
    /\ sch = [parked |-> {}, wake |-> prog.born, woken |-> {}, nonrecv |-> {}]
    /\ ring = <<>> /\ inplace = Nobody /\ nthreads = Cardinality(prog.born)
    /\ rec = [t \in Thread |-> NoRec] /\ mail = [t \in Thread |-> <<>>]
    /\ portq = [p \in Port |-> <<>>] /\ pending = [p \in Port |-> <<>>]
    /\ loop = [at |-> "lap", cur |-> Nobody, set |-> {}]
    /\ stack = [t \in Thread |-> <<>>] /\ ret = [t \in Thread |-> Nil]
    /\ life = [t \in Thread |-> IF t \in prog.born THEN "live" ELSE "unborn"]
    /\ rpcno = [t \in Thread |-> 0]
    /\ chan = [c \in Chan |-> NoChan] /\ done = [t \in Thread |-> FALSE]
    /\ queue = [p \in Port |-> <<>>] /\ far = [p \in Svc |-> TRUE]
    /\ dest = [q |-> <<>>, dead |-> FALSE] /\ held = {}
----------------------------------------------------------------------------
(* ready: a thread that is not parked gets a token instead.                *)
ready(s, t) ==
    [parked |-> s.parked \ {t}, nonrecv |-> s.nonrecv \ {t}, wake |-> s.wake \cup {t},
     woken |-> IF t \in s.parked THEN s.woken ELSE s.woken \cup {t}]

ReadySet(s, T) == [parked |-> s.parked \ T, nonrecv |-> s.nonrecv \ T,
                   wake |-> s.wake \cup T, woken |-> s.woken \cup (T \ s.parked)]

On(t, p) == rec[t].port = p \/ p \in rec[t].ports
ParkedOn(p) == {t \in sch.parked : On(t, p)}
readyall(s) == ReadySet(s, {t \in s.parked : rec[t].port # Nobody \/ rec[t].alt})

Goto(at) == loop' = [loop EXCEPT !.at = at]
Running(t) == loop.at = "run" /\ loop.cur = t
Leave == loop' = [loop EXCEPT !.at = "lap", !.cur = Nobody]

Top(t) == Head(stack[t])
In(t, fn, pc) == Running(t) /\ stack[t] # <<>> /\ Top(t).fn = fn /\ Top(t).pc = pc
InLua(t) == Running(t) /\ stack[t] = <<>>
Step(t, pc) == stack' = [stack EXCEPT ![t][1].pc = pc]
Push(t, pc, f) == stack' = [stack EXCEPT ![t] = <<f>> \o [@ EXCEPT ![1].pc = pc]]

(* A result is kept for the C function that called, not for lua. *)
Return(t, r) ==
    /\ stack' = [stack EXCEPT ![t] = Tail(@)]
    /\ ret' = [ret EXCEPT ![t] = IF Len(stack[t]) = 1 THEN Nil ELSE r]

(* An error unwinds to lua, which catches it or dies of it next. *)
Raise(t) == stack' = [stack EXCEPT ![t] = <<>>] /\ ret' = [ret EXCEPT ![t] = Nil]

(* parkon_begin, and the body of l_parksend: a token is used up and the    *)
(* caller looks again; otherwise the thread is parked and yields.          *)
(* Mutant: a park that is not a recv is not marked as one.                 *)
MarksNone(s, t, r) == s.nonrecv
Marks(s, t, r) == IF ~r.recv /\ (r.port # Nobody \/ r.alt) THEN s.nonrecv \cup {t}
                  ELSE s.nonrecv

Registered(q, t) == IF t \in ToSet(q) THEN q ELSE Append(q, t)

parkon_begin(s, t, r) ==
    /\ rec' = [rec EXCEPT ![t] = r]
    /\ portq' = IF r.recv THEN [portq EXCEPT ![r.port] = Registered(@, t)] ELSE portq
    /\ \/ /\ t \in s.woken
          /\ sch' = [s EXCEPT !.woken = @ \ {t}, !.nonrecv = Marks(s, t, r) \ {t}]
          /\ UNCHANGED loop
       \/ /\ t \notin s.woken
          /\ sch' = [s EXCEPT !.parked = @ \cup {t}, !.nonrecv = Marks(s, t, r)]
          /\ Leave

parkon_end(t) == sch' = [sch EXCEPT !.parked = @ \ {t}]

OnChan   == NoRec
OnPort(p) == [NoRec EXCEPT !.port = p]
OnRecv(p) == [NoRec EXCEPT !.port = p, !.recv = TRUE]
OnSend(p) == [NoRec EXCEPT !.port = p, !.send = TRUE]
OnAlt(P)  == [NoRec EXCEPT !.ports = P, !.alt = TRUE]
----------------------------------------------------------------------------
(* Channels.  A waiter is <<thread, n>>, n telling an alt's cases apart.   *)
wakercv(s, c) == FoldLeft(LAMBDA x, w : ready(x, w[1]), s, chan[c].recvq)

CanSend(c) == Len(chan[c].buf) < Cap[c] \/ (Cap[c] = 0 /\ chan[c].recvq # <<>>)

(* l_nbsend: a slot, or a value deposited for a parked receiver. *)
Sent(c, v) ==
    IF Len(chan[c].buf) < Cap[c] THEN [chan[c] EXCEPT !.buf = Append(@, v), !.recvq = <<>>]
    ELSE [chan[c] EXCEPT !.sendq = Append(@, [v |-> v, co |-> Nobody]), !.recvq = <<>>]

(* l_nbrecv: the oldest value; a waiting sender's takes its slot.          *)
(* Mutant: the waiting sender's value jumps the buffer.                    *)
OldestSender(c) == IF chan[c].sendq # <<>> THEN Head(chan[c].sendq).v ELSE Head(chan[c].buf)
CanRecv(c) == chan[c].buf # <<>> \/ chan[c].sendq # <<>>
Rest(q) == IF q = <<>> THEN <<>> ELSE Tail(q)
Oldest(c) == IF chan[c].buf # <<>> THEN Head(chan[c].buf) ELSE Head(chan[c].sendq).v
Moved(c) == IF chan[c].buf # <<>> /\ chan[c].sendq # <<>> THEN <<Head(chan[c].sendq).v>> ELSE <<>>
Received(c) ==
    [chan[c] EXCEPT !.buf = Rest(@) \o Moved(c), !.sendq = Rest(@), !.last = <<Oldest(c)>>]

Sender(c) == IF chan[c].sendq = <<>> THEN Nobody ELSE Head(chan[c].sendq).co
ReadySender(s, c) == IF Sender(c) = Nobody THEN s ELSE ready(s, Sender(c))
Told(c) == IF Sender(c) = Nobody THEN done ELSE [done EXCEPT ![Sender(c)] = TRUE]

l_nbsend(t, c, v) ==
    /\ InLua(t) /\ [fn |-> "nbsend", c |-> c, v |-> v] \in prog.calls[t]
    /\ ~chan[c].closed /\ CanSend(c)
    /\ chan' = [chan EXCEPT ![c] = Sent(c, v)]
    /\ sch' = wakercv(sch, c)
    /\ UNCHANGED <<prog, threads, waits, ring, inplace, nthreads, loop, done, kernel>>

l_nbrecv(t, c) ==
    /\ InLua(t) /\ [fn |-> "nbrecv", c |-> c] \in prog.calls[t]
    /\ CanRecv(c)
    /\ chan' = [chan EXCEPT ![c] = Received(c)]
    /\ sch' = ReadySender(sch, c)
    /\ done' = Told(c)
    /\ UNCHANGED <<prog, threads, waits, ring, inplace, nthreads, loop, kernel>>

CloseWakes(c) ==
    wakercv(FoldLeft(LAMBDA x, e : IF e.co = Nobody THEN x ELSE ready(x, e.co),
                     sch, chan[c].sendq), c)

Deposited(e) == e.co = Nobody

l_chanclose(t, c) ==
    /\ InLua(t) /\ [fn |-> "close", c |-> c] \in prog.calls[t]
    /\ ~chan[c].closed
    /\ chan' = [chan EXCEPT ![c].closed = TRUE, ![c].recvq = <<>>,
                            ![c].sendq = SelectSeq(@, Deposited)]
    /\ sch' = CloseWakes(c)
    /\ UNCHANGED <<prog, threads, waits, ring, inplace, nthreads, loop, done, kernel>>

(* chan:send. *)
chansend_body(t) ==
    LET c == Top(t).c  v == Top(t).v IN
    /\ In(t, "chansend", "go")
    /\ \/ /\ chan[c].closed
          /\ Raise(t)
          /\ UNCHANGED <<chan, done, sch, rec, portq, loop>>
       \/ /\ ~chan[c].closed /\ CanSend(c)
          /\ chan' = [chan EXCEPT ![c] = Sent(c, v)]
          /\ sch' = wakercv(sch, c)
          /\ Return(t, Nil)
          /\ UNCHANGED <<done, rec, portq, loop>>
       \/ /\ ~chan[c].closed /\ ~CanSend(c)
          /\ chan' = [chan EXCEPT ![c].sendq = Append(@, [v |-> v, co |-> t]), ![c].recvq = <<>>]
          /\ done' = [done EXCEPT ![t] = FALSE]
          /\ parkon_begin(wakercv(sch, c), t, OnChan)
          /\ Step(t, "k")
          /\ UNCHANGED ret
    /\ UNCHANGED <<prog, life, rpcno, mail, pending, ring, inplace, nthreads, kernel>>

(* Woken: taken, refused by a close, or woken for nothing. *)
chansend_k(t) ==
    /\ In(t, "chansend", "k")
    /\ \/ /\ done[t] /\ Return(t, Nil)
          /\ parkon_end(t) /\ UNCHANGED <<rec, portq, loop>>
       \/ /\ ~done[t] /\ chan[Top(t).c].closed /\ Raise(t)
          /\ parkon_end(t) /\ UNCHANGED <<rec, portq, loop>>
       \/ /\ ~done[t] /\ ~chan[Top(t).c].closed
          /\ parkon_begin([sch EXCEPT !.parked = @ \ {t}], t, OnChan)
          /\ UNCHANGED <<stack, ret>>
    /\ UNCHANGED <<prog, life, rpcno, mail, pending, ring, inplace, nthreads, chans, kernel>>

(* chan:recv.  The look and the registration are one step. *)
Join(c, t) == Append(chan[c].recvq, <<t, 0>>)

chanrecv_body(t) ==
    LET c == Top(t).c IN
    /\ In(t, "chanrecv", "go")
    /\ \/ /\ CanRecv(c)
          /\ chan' = [chan EXCEPT ![c] = Received(c)]
          /\ done' = Told(c)
          /\ sch' = ReadySender(sch, c)
          /\ Return(t, Nil)
          /\ UNCHANGED <<rec, portq, loop>>
       \/ /\ ~CanRecv(c) /\ chan[c].closed
          /\ Return(t, Nil)
          /\ UNCHANGED <<chan, done, sch, rec, portq, loop>>
       \/ /\ ~CanRecv(c) /\ ~chan[c].closed
          /\ chan' = [chan EXCEPT ![c].recvq = Join(c, t)]
          /\ parkon_begin(sch, t, OnChan)
          /\ Step(t, "k")
          /\ UNCHANGED <<done, ret>>
    /\ UNCHANGED <<prog, life, rpcno, mail, pending, ring, inplace, nthreads, kernel>>

Unlinked(c, t) == SelectSeq(chan[c].recvq, LAMBDA w : w[1] # t)

chanrecv_k(t) ==
    LET c == Top(t).c IN
    /\ In(t, "chanrecv", "k")
    /\ parkon_end(t)
    /\ chan' = [chan EXCEPT ![c].recvq = Unlinked(c, t)]
    /\ Step(t, "go")
    /\ UNCHANGED <<prog, ret, life, rpcno, waits, ring, inplace, nthreads, loop, done, kernel>>
----------------------------------------------------------------------------
(* thread.alt.  A case is [port], [c] to receive or [c, v] to send.        *)
IsPort(x) == "port" \in DOMAIN x
IsSend(x) == "v" \in DOMAIN x
Bad(x) == ~IsPort(x) /\ IsSend(x) /\ chan[x.c].closed
CaseReady(x) == IF IsPort(x) THEN queue[x.port] # <<>>
                ELSE IF IsSend(x) THEN CanSend(x.c)
                ELSE CanRecv(x.c) \/ chan[x.c].closed

(* alt_register puts a waiter on every channel it would receive from; a    *)
(* case that sends waits on nothing.                                       *)
Marked(cs, c) == {i \in DOMAIN cs : ~IsPort(cs[i]) /\ ~IsSend(cs[i]) /\ cs[i].c = c}
alt_register(t, cs) ==
    [c \in Chan |->
       [chan[c] EXCEPT !.recvq = @ \o SetToSeq({<<t, i>> : i \in Marked(cs, c)})]]

AltPorts(cs) == {cs[i].port : i \in {j \in DOMAIN cs : IsPort(cs[j])}}

(* alt_poll: the first case that can go does. *)
alt_poll(t, i, x) ==
    \/ /\ Bad(x)
       /\ Raise(t)
       /\ UNCHANGED <<chans, sch, queue>>
    \/ /\ IsPort(x)
       /\ queue' = [queue EXCEPT ![x.port] = Tail(@)]
       /\ Return(t, Result(i, Head(queue[x.port])))
       /\ UNCHANGED <<chans, sch>>
    \/ /\ ~IsPort(x) /\ IsSend(x) /\ ~Bad(x)
       /\ chan' = [chan EXCEPT ![x.c] = Sent(x.c, x.v)]
       /\ sch' = wakercv(sch, x.c)
       /\ Return(t, Result(i, 0))
       /\ UNCHANGED <<done, queue>>
    \/ /\ ~IsPort(x) /\ ~IsSend(x)
       /\ \/ /\ CanRecv(x.c)
             /\ chan' = [chan EXCEPT ![x.c] = Received(x.c)]
             /\ sch' = ReadySender(sch, x.c)
             /\ done' = Told(x.c)
          \/ ~CanRecv(x.c) /\ UNCHANGED <<chans, sch>>
       /\ Return(t, Result(i, 0))
       /\ UNCHANGED queue

alt_body(t) ==
    LET cs == Top(t).cs
        hits == {i \in DOMAIN cs : Bad(cs[i]) \/ CaseReady(cs[i])} IN
    /\ In(t, "alt", "go")
    /\ \/ /\ hits = {}
          /\ chan' = alt_register(t, cs)
          /\ parkon_begin(sch, t, OnAlt(AltPorts(cs)))
          /\ Step(t, "k")
          /\ UNCHANGED <<ret, done, queue>>
       \/ /\ hits # {}
          /\ alt_poll(t, Min(hits), cs[Min(hits)])
          /\ UNCHANGED <<rec, portq, loop>>
    /\ UNCHANGED <<prog, life, rpcno, mail, pending, ring, inplace, nthreads, far, dest, held>>

alt_k(t) ==
    /\ In(t, "alt", "k")
    /\ parkon_end(t)
    /\ chan' = [c \in Chan |-> [chan[c] EXCEPT !.recvq = Unlinked(c, t)]]
    /\ Step(t, "go")
    /\ UNCHANGED <<prog, ret, life, rpcno, waits, ring, inplace, nthreads, loop, done, kernel>>
----------------------------------------------------------------------------
(* thread.recv: what was handed over, what was held back, the port.        *)
recv_body(t) ==
    LET h == Top(t).h
        taken == <<sch, rec, portq, loop>> IN
    /\ In(t, "recv", "go")
    /\ \/ /\ mail[t] # <<>>
          /\ Return(t, Result(1, mail[t][1][2]))
          /\ mail' = [mail EXCEPT ![t] = <<>>]
          /\ UNCHANGED <<taken, pending, queue>>
       \/ /\ mail[t] = <<>> /\ pending[h] # <<>>
          /\ Return(t, Result(1, Head(pending[h])))
          /\ pending' = [pending EXCEPT ![h] = Tail(@)]
          /\ UNCHANGED <<taken, mail, queue>>
       \/ /\ mail[t] = <<>> /\ pending[h] = <<>> /\ queue[h] # <<>>
          /\ Return(t, Result(1, Head(queue[h])))
          /\ queue' = [queue EXCEPT ![h] = Tail(@)]
          /\ UNCHANGED <<taken, mail, pending>>
       \/ /\ mail[t] = <<>> /\ pending[h] = <<>> /\ queue[h] = <<>>
          /\ Step(t, "k")
          /\ parkon_begin(sch, t, OnRecv(h))
          /\ UNCHANGED <<ret, mail, pending, queue>>
    /\ UNCHANGED <<prog, life, rpcno, ring, inplace, nthreads, chans, far, dest, held>>

recv_k(t) ==
    /\ In(t, "recv", "k")
    /\ parkon_end(t)
    /\ Step(t, "go")
    /\ UNCHANGED <<prog, ret, life, rpcno, waits, ring, inplace, nthreads, loop, chans, kernel>>

(* thread.park, and thread.parksend for a queue that was full. *)
ParkCall(t) ==
    LET f == Top(t) IN
    /\ Running(t) /\ stack[t] # <<>> /\ f.fn \in {"park", "parksend"} /\ f.pc = "go"
    /\ Step(t, "k")
    /\ parkon_begin(sch, t, IF f.fn = "park" THEN OnPort(f.h) ELSE OnSend(f.h))
    /\ UNCHANGED <<prog, ret, life, rpcno, mail, pending, ring, inplace, nthreads, chans, kernel>>

(* A send wait is taken out of the record. *)
park_k(t) ==
    LET f == Top(t) IN
    /\ Running(t) /\ stack[t] # <<>> /\ f.fn \in {"park", "parksend"} /\ f.pc = "k"
    /\ parkon_end(t)
    /\ rec' = IF f.fn = "parksend" THEN [rec EXCEPT ![t].send = FALSE, ![t].port = Nobody] ELSE rec
    /\ Return(t, Nil)
    /\ UNCHANGED <<prog, life, rpcno, mail, portq, pending, ring, inplace, nthreads, loop, chans,
                   kernel>>
----------------------------------------------------------------------------
(* sys.send to the service: queued, refused for room, or dead. *)
CanQueue == ~dest.dead /\ Len(dest.q) < MAXQUEUE
Full     == ~dest.dead /\ Len(dest.q) >= MAXQUEUE
Queued(t, n) == dest' = [dest EXCEPT !.q = Append(@, [t |-> t, n |-> n])]

calls == <<prog, life, waits, sched, chans, queue, far, held>>

(* thread.sendwait; its requests want no answer. *)
sendwait_body(t) ==
    /\ In(t, "sendwait", "go")
    /\ \/ CanQueue /\ Queued(t, 0) /\ Return(t, Result(1, 0))
       \/ dest.dead /\ Return(t, Nil) /\ UNCHANGED dest
       \/ /\ Full
          /\ Push(t, "go", [fn |-> "parksend", pc |-> "go", h |-> Dest])
          /\ UNCHANGED <<ret, dest>>
    /\ UNCHANGED <<calls, rpcno>>

(* thread.rpc sends with a reply right and waits with or without a limit;  *)
(* thread.call, in a thread, is the second half of the other.              *)
rpc_send(t) ==
    LET n == rpcno[t] + 1 IN
    /\ In(t, "rpc", "go")
    /\ \/ /\ CanQueue
          /\ Queued(t, n)
          /\ rpcno' = [rpcno EXCEPT ![t] = n]
          /\ Push(t, "k", [fn |-> IF Top(t).limit THEN "recvtimeout" ELSE "await",
                           pc |-> "go", h |-> Reply(t)])
          /\ UNCHANGED ret
       \/ ~CanQueue /\ Return(t, Nil) /\ UNCHANGED <<dest, rpcno>>
    /\ UNCHANGED calls

rpc_k(t) ==
    /\ In(t, "rpc", "k")
    /\ Return(t, ret[t])
    /\ UNCHANGED <<calls, dest, rpcno>>

(* thread.await: three syscalls, with the world moving in between.         *)
Hungup(p) == IF p \in Svc THEN ~far[p]
             ELSE \A t \in Thread : p = Reply(t) =>
                    /\ \A i \in DOMAIN dest.q : dest.q[i].t # t \/ dest.q[i].n = 0
                    /\ \A r \in held : r.t # t

AfterHungup == "last"

await_try(t) ==
    LET h == Top(t).h IN
    /\ In(t, "await", "go") \/ In(t, "await", "last")
    /\ \/ /\ queue[h] # <<>>
          /\ queue' = [queue EXCEPT ![h] = Tail(@)]
          /\ Return(t, Result(1, Head(queue[h])))
       \/ /\ queue[h] = <<>>
          /\ Step(t, IF Top(t).pc = "go" THEN "hup" ELSE "none")
          /\ UNCHANGED <<ret, queue>>
    /\ UNCHANGED <<prog, life, rpcno, waits, sched, chans, far, dest, held>>

await_hungup(t) ==
    LET h == Top(t).h IN
    /\ In(t, "await", "hup")
    /\ \/ Hungup(h) /\ Step(t, AfterHungup)
       \/ ~Hungup(h) /\ Push(t, "go", [fn |-> "park", pc |-> "go", h |-> h])
    /\ UNCHANGED <<calls, ret, dest, rpcno>>

await_none(t) ==
    /\ In(t, "await", "none")
    /\ Return(t, Nil)
    /\ UNCHANGED <<calls, dest, rpcno>>

(* thread.sleep and thread.recvtimeout arm a timer, or find none free, and *)
(* close it again.  Its port is empty until it fires.                      *)
ArmTimer(t) ==
    LET f == Top(t)  tm == Timer(t) IN
    /\ Running(t) /\ stack[t] # <<>> /\ f.fn \in {"sleep", "recvtimeout"} /\ f.pc = "go"
    /\ \/ Return(t, Nil)
       \/ /\ f.fn = "sleep"
          /\ Push(t, "k", [fn |-> "recv", pc |-> "go", h |-> tm])
          /\ UNCHANGED ret
       \/ /\ f.fn = "recvtimeout"
          /\ Push(t, "k", [fn |-> "alt", pc |-> "go",
                           cs |-> <<[port |-> f.h], [port |-> tm]>>])
          /\ UNCHANGED ret
    /\ UNCHANGED <<calls, dest, rpcno>>

CloseTimer(t) ==
    /\ Running(t) /\ stack[t] # <<>> /\ Top(t).fn \in {"sleep", "recvtimeout"} /\ Top(t).pc = "k"
    /\ queue' = [queue EXCEPT ![Timer(t)] = <<>>]
    /\ Return(t, IF Top(t).fn = "recvtimeout" /\ ret[t].i = 2 THEN Nil ELSE ret[t])
    /\ UNCHANGED <<prog, life, rpcno, waits, sched, chans, far, dest, held>>

(* thread.readline: the request waits for room, the line comes back on the *)
(* reply port.                                                             *)
readline(t) ==
    /\ In(t, "readline", "go")
    /\ \/ /\ CanQueue /\ Queued(t, rpcno[t] + 1)
          /\ rpcno' = [rpcno EXCEPT ![t] = @ + 1]
          /\ stack' = [stack EXCEPT ![t] = <<[fn |-> "recv", pc |-> "go", h |-> Reply(t)]>> \o Tail(@)]
          /\ UNCHANGED ret
       \/ dest.dead /\ Return(t, Nil) /\ UNCHANGED <<dest, rpcno>>
       \/ /\ Full
          /\ Push(t, "go", [fn |-> "parksend", pc |-> "go", h |-> Dest])
          /\ UNCHANGED <<ret, dest, rpcno>>
    /\ UNCHANGED calls
----------------------------------------------------------------------------
(* What a thread does in lua: calls that wait, and those that do not. *)
Does(t, fn) == InLua(t) /\ [fn |-> fn] \in prog.calls[t]

Call(t) ==
    /\ InLua(t)
    /\ \E f \in prog.calls[t] :
          /\ "pc" \in DOMAIN f
          /\ f.fn \in {"rpc", "readline"} => rpcno[t] < MaxRpc
          /\ stack' = [stack EXCEPT ![t] = <<f>>]
    /\ UNCHANGED <<prog, ret, life, rpcno, waits, sched, chans, kernel>>

l_spawn(t, u) ==
    /\ Does(t, "spawn") /\ life[u] = "unborn"
    /\ life' = [life EXCEPT ![u] = "live"]
    /\ nthreads' = nthreads + 1
    /\ sch' = [sch EXCEPT !.wake = @ \cup {u}]
    /\ UNCHANGED <<prog, stack, ret, rpcno, waits, ring, inplace, loop, chans, kernel>>

(* resume_one, when the resume comes back: a yield goes to the back of the *)
(* ring, a cut by the count hook is resumed in place, an end is counted.   *)
l_yield(t) ==
    /\ Does(t, "yield")
    /\ ring' = Append(ring, t)
    /\ Leave
    /\ UNCHANGED <<prog, threads, waits, sch, inplace, nthreads, chans, kernel>>

Cut(t) ==
    /\ Does(t, "cut")
    /\ inplace' = t
    /\ Leave
    /\ UNCHANGED <<prog, threads, waits, sch, ring, nthreads, chans, kernel>>

Finish(t) ==
    /\ Does(t, "finish")
    /\ life' = [life EXCEPT ![t] = "dead"]
    /\ nthreads' = nthreads - 1
    /\ sch' = [sch EXCEPT !.parked = @ \ {t}]
    /\ Leave
    /\ UNCHANGED <<prog, stack, ret, rpcno, waits, ring, inplace, chans, kernel>>
----------------------------------------------------------------------------
(* run_loop.  drain_wake moves the staged wakes to the ring; while         *)
(* something is runnable the ports of the parked are polled, and the       *)
(* thread the hook cut goes before the ring.                               *)
CaseOpen(p) == IF p = Dest THEN dest.dead \/ Len(dest.q) < MAXQUEUE ELSE queue[p] # <<>>

(* Mutant: the ports of a thread in alt are left out of the set. *)
WaitPortsOne(t) == {rec[t].port} \ {Nobody}
WaitPorts(t) == IF rec[t].port = Nobody THEN rec[t].ports ELSE {rec[t].port}
Gathered == UNION {WaitPorts(t) : t \in sch.parked}

(* Mutant: nothing is polled while a thread is runnable. *)
PollableNone == {}
Pollable == IF \E p \in Port : queue[p] # <<>> THEN {p \in Gathered : CaseOpen(p)} ELSE {}

poll_ready(s) ==
    \/ Pollable = {} /\ sch' = s
    \/ \E p \in Pollable : sch' = ReadySet(s, ParkedOn(p))

isdead(t) == life[t] = "dead"

Resume(t) ==
    loop' = IF isdead(t) THEN loop ELSE [loop EXCEPT !.at = "run", !.cur = t]

Lap ==
    /\ loop.at = "lap" /\ nthreads > 0
    /\ \E order \in SetToSeqs(sch.wake) :
          LET r == ring \o order
              s == [sch EXCEPT !.wake = {}] IN
          \/ /\ inplace # Nobody
             /\ poll_ready(s)
             /\ ring' = r /\ inplace' = Nobody
             /\ Resume(inplace)
          \/ /\ inplace = Nobody /\ r # <<>>
             /\ poll_ready(s)
             /\ ring' = Tail(r) /\ UNCHANGED inplace
             /\ Resume(Head(r))
          \/ /\ inplace = Nobody /\ r = <<>>
             /\ sch' = s /\ UNCHANGED <<ring, inplace>>
             /\ Goto(IF Gathered = {} THEN "deadlock" ELSE "gather")
    /\ UNCHANGED <<prog, threads, waits, nthreads, chans, kernel>>

Over ==
    /\ loop.at = "lap" /\ nthreads = 0
    /\ Goto("over")
    /\ UNCHANGED <<prog, threads, waits, sch, ring, inplace, nthreads, chans, kernel>>

(* gatherports: one case for each port, which reports a hangup if the      *)
(* first of the threads on it that lua_next met is a bare park.            *)
Bare(t) == rec[t].port # Nobody /\ ~rec[t].recv /\ ~rec[t].send
HupOf(p) == {Bare(t) : t \in {u \in sch.parked : p \in WaitPorts(u)}}

gatherports ==
    /\ loop.at = "gather"
    /\ \E hup \in [Gathered -> BOOLEAN] :
          /\ \A p \in Gathered : hup[p] \in HupOf(p)
          /\ loop' = [loop EXCEPT !.at = "alt",
                                  !.set = {[port |-> p, hup |-> hup[p]] : p \in Gathered}]
    /\ UNCHANGED <<prog, threads, waits, sch, ring, inplace, nthreads, chans, kernel>>

(* deliver: entries of threads that wait for something else are dropped.   *)
Takes(t, h) == t \in sch.parked /\ rec[t].recv /\ rec[t].port = h
Takers(h) == {i \in DOMAIN portq[h] : Takes(portq[h][i], h)}

Deliver(h, m) ==
    IF Takers(h) # {}
    THEN LET i == Min(Takers(h))  t == portq[h][i] IN
         /\ mail' = [mail EXCEPT ![t] = <<<<h, m>>>>]
         /\ portq' = [portq EXCEPT ![h] = SubSeq(@, i + 1, Len(@))]
         /\ sch' = ready(sch, t)
         /\ UNCHANGED pending
    ELSE /\ portq' = [portq EXCEPT ![h] = <<>>]
         /\ pending' = [pending EXCEPT ![h] = Append(@, m)]
         /\ sch' = readyall(sch)
         /\ UNCHANGED mail

(* sys.alt and run_k: a message is taken and delivered when every park is  *)
(* a recv; otherwise the port that has something, room or a hangup is      *)
(* named, and those parked on it look for themselves.                      *)
Open == {x \in loop.set : CaseOpen(x.port)}
Hups == {x \in loop.set : x.hup /\ x.port # Dest /\ Hungup(x.port)}
AltMsg == sch.nonrecv = {}

run_k ==
    /\ loop.at \in {"alt", "woken"}
    /\ \/ \E x \in Open :
             \/ /\ AltMsg
                /\ queue' = [queue EXCEPT ![x.port] = Tail(@)]
                /\ Deliver(x.port, Head(queue[x.port]))
                /\ Goto("lap")
             \/ /\ ~AltMsg
                /\ sch' = ReadySet(sch, ParkedOn(x.port))
                /\ Goto("lap")
                /\ UNCHANGED <<mail, portq, pending, queue>>
       \/ /\ Open = {}
          /\ \E x \in Hups : sch' = ReadySet(sch, ParkedOn(x.port))
          /\ Goto("lap")
          /\ UNCHANGED <<mail, portq, pending, queue>>
       \/ /\ Open = {} /\ Hups = {}
          /\ sch' = IF loop.at = "woken" /\ ~AltMsg THEN readyall(sch) ELSE sch
          /\ Goto(IF loop.at = "woken" THEN "lap" ELSE "asleep")
          /\ UNCHANGED <<mail, portq, pending, queue>>
    /\ UNCHANGED <<prog, threads, rec, ring, inplace, nthreads, chans, far, dest, held>>
----------------------------------------------------------------------------
(* The rest of the machine.  What happens to a port of the set a proc      *)
(* sleeps on wakes it.                                                     *)
Poke(P) == loop' = IF loop.at = "asleep" /\ \E x \in loop.set : x.port \in P
                   THEN [loop EXCEPT !.at = "woken"] ELSE loop
outside == <<prog, threads, waits, sch, ring, inplace, nthreads, chans>>
Calm == Len(ring) < MaxRing

port_push(p) ==
    /\ Calm /\ far[p] /\ Len(queue[p]) < MAXQUEUE
    /\ queue' = [queue EXCEPT ![p] = Append(@, 0)]
    /\ Poke({p})
    /\ UNCHANGED <<outside, far, dest, held>>

LastRightGone(p) ==
    /\ far[p]
    /\ far' = [far EXCEPT ![p] = FALSE]
    /\ Poke({p})
    /\ UNCHANGED <<outside, queue, dest, held>>

TimerFires(t) ==
    /\ Len(stack[t]) > 1 /\ stack[t][2].fn \in {"sleep", "recvtimeout"}
    /\ queue[Timer(t)] = <<>> /\ Top(t).fn \in {"recv", "alt"} /\ mail[t] = <<>>
    /\ queue' = [queue EXCEPT ![Timer(t)] = <<0>>]
    /\ Poke({Timer(t)})
    /\ UNCHANGED <<outside, far, dest, held>>

ServiceTakes ==
    /\ dest.q # <<>>
    /\ dest' = [dest EXCEPT !.q = Tail(@)]
    /\ held' = IF Head(dest.q).n = 0 THEN held ELSE held \cup {Head(dest.q)}
    /\ Poke({Dest})
    /\ UNCHANGED <<outside, queue, far>>

(* It answers, or lets the reply right go. *)
ServiceAnswers(r) ==
    /\ \/ queue' = [queue EXCEPT ![Reply(r.t)] = Append(@, r.n)]
       \/ UNCHANGED queue
    /\ held' = held \ {r}
    /\ Poke({Reply(r.t)})
    /\ UNCHANGED <<outside, far, dest>>

ServiceDies ==
    /\ Dest \in prog.ports /\ ~dest.dead
    /\ dest' = [q |-> <<>>, dead |-> TRUE]
    /\ held' = {}
    /\ Poke({Dest} \cup {Reply(t) : t \in Thread})
    /\ UNCHANGED <<outside, queue, far>>
----------------------------------------------------------------------------
InC(t) ==
    \/ chansend_body(t) \/ chansend_k(t) \/ chanrecv_body(t) \/ chanrecv_k(t)
    \/ alt_body(t) \/ alt_k(t) \/ recv_body(t) \/ recv_k(t) \/ ParkCall(t) \/ park_k(t)
    \/ sendwait_body(t) \/ rpc_send(t) \/ rpc_k(t) \/ await_try(t) \/ await_hungup(t)
    \/ await_none(t) \/ ArmTimer(t) \/ CloseTimer(t) \/ readline(t)

Lua(t) ==
    \/ Call(t) \/ l_yield(t) \/ Cut(t) \/ Finish(t)
    \/ \E u \in Thread : l_spawn(t, u)
    \/ \E c \in Chan : l_nbrecv(t, c) \/ l_chanclose(t, c) \/ \E v \in Value : l_nbsend(t, c, v)

Proc == Lap \/ Over \/ gatherports \/ run_k \/ \E t \in Thread : InC(t) \/ Lua(t)

World ==
    \/ \E p \in prog.ports \ {Dest} : port_push(p) \/ LastRightGone(p)
    \/ \E t \in Thread : TimerFires(t)
    \/ \E r \in held : ServiceAnswers(r)
    \/ ServiceTakes \/ ServiceDies

ThreadNext == Proc \/ World

(* The kernel runs a proc that is ready.  A thread that could yield or     *)
(* park again and again does: one that never does keeps the proc, as       *)
(* docs/scheduling.md says.  Nobody owes the proc a message.               *)
GivesUp == loop.at = "run" /\ Proc /\ loop'.at = "lap" /\ inplace' = Nobody
ThreadFair == WF_thread_vars(Proc) /\ SF_thread_vars(GivesUp)
----------------------------------------------------------------------------
Live(t, fn) == stack[t] # <<>> /\ Top(t).fn = fn

(* Each channel is the abstract channel of module Channel: through wakes   *)
(* that race, tokens, deposits and closes, no value is lost, doubled or    *)
(* overtaken, and a close takes back only what a sender still waits on.    *)
Contents(c) ==
    [i \in DOMAIN chan[c].buf |-> [v |-> chan[c].buf[i], waits |-> FALSE]] \o
    [i \in DOMAIN chan[c].sendq |-> [v |-> chan[c].sendq[i].v,
                                     waits |-> chan[c].sendq[i].co # Nobody]]
Abstract == INSTANCE Channel WITH q <- [c \in Chan |-> Contents(c)],
                                  closed <- [c \in Chan |-> chan[c].closed],
                                  last <- [c \in Chan |-> chan[c].last]
ChannelRefines == Abstract!Spec

(* No thread is parked on a channel that has what it waits for: not a      *)
(* receiver beside a value or a close, nor a sender whose value was taken  *)
(* or refused.  The proc sleeps only while no port one of its threads is   *)
(* parked on has a message, or room for the thread that waits to send      *)
(* (wakercv, l_chanclose, gatherports).                                    *)
Idle(c) == ~CanRecv(c) /\ ~chan[c].closed
SleepersIdle ==
    /\ \A t \in sch.parked :
          /\ Live(t, "chanrecv") => Idle(Top(t).c)
          /\ Live(t, "chansend") => ~done[t] /\ ~chan[Top(t).c].closed
          /\ Live(t, "alt") => \A i \in DOMAIN Top(t).cs :
                LET x == Top(t).cs[i] IN ~IsPort(x) /\ ~IsSend(x) => Idle(x.c)
    /\ loop.at = "asleep" =>
          \A t \in sch.parked : \A p \in ({rec[t].port} \ {Nobody}) \cup rec[t].ports : ~CaseOpen(p)

(* A message the scheduler took goes to a thread in recv on that very      *)
(* port: none is left in another thread's record or in pending, where      *)
(* await and alt would not find it.  And await answers "hungup" only when  *)
(* no reply is left on the port, although a server may answer and close    *)
(* between its two questions (deliver, await_body).                        *)
RepliesFound ==
    /\ \A t \in Thread : mail[t] # <<>> => Live(t, "recv") /\ Top(t).h = mail[t][1][1]
    /\ \A p \in Port : pending[p] = <<>>
    /\ \A t \in Thread : In(t, "await", "none") => queue[Top(t).h] = <<>>

(* A thread in recv on a port with a message takes it, or another thread   *)
(* does, although siblings that yield keep the ring from being empty.      *)
Unserved(t) == Live(t, "recv") /\ queue[Top(t).h] # <<>>
RecvServed == \A t \in Thread : Unserved(t) ~> ~Unserved(t)
============================================================================
