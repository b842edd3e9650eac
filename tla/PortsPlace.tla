----------------------------- MODULE PortsPlace ----------------------------
(***************************************************************************)
(* The invariant of Ports, in three parts, what its parts say of one actor *)
(* and of one task, and that every step keeps the part that counts         *)
(* nothing: what a proc at each place of a syscall has in its hands, who   *)
(* holds the wide region and how deep, what the tasks of that region may   *)
(* name.  The actors move one at a time: what one does to its own place    *)
(* and hands, and that the others keep theirs.                             *)
(***************************************************************************)
EXTENDS Ports, TLAPS

Places == {"run", "blocked", "call_k", "alt_k", "serialize", "discard", "deserialize",
           "undo", "dispose", "leave", "region", "dead"}

Table  == [Handle -> Right \cup {NoRight}]
Locals == [msg : MsgId \cup {NoMsg}, to : Handle \cup {NoHandle}, next : Nat,
           minted : SUBSET Handle, reply : Handle \cup {NoHandle},
           cases : SUBSET (Handle \X Kinds), outer : BOOLEAN]

Tasks ==
    [op : {"drop"}, proc : Proc, hs : SUBSET Handle, hint : BOOLEAN]
    \cup [op : {"msg"}, msg : MsgId] \cup [op : {"flush"}, msgs : Seq(MsgId)]
    \cup [op : {"free"}, port : Port] \cup [op : {"hangup"}, port : Port]
    \cup [op : {"reap"}, from : Nat] \cup [op : {"expire"}, due : SUBSET Timer]
    \cup [op : {"arm"}, proc : Proc, h : Handle, try : {1, 2}]

PortType ==
    /\ used \in SUBSET Port
    /\ nrights \in [Port -> Int] /\ nrecv \in [Port -> Int]
    /\ dead \in [Port -> BOOLEAN]
    /\ queue \in [Port -> Seq(MsgId)]

HolderType ==
    /\ rights \in [Proc -> Table]
    /\ rhint \in [Proc -> Nat] /\ nports \in [Proc -> Int]
    /\ refs \in [MsgId -> [Slot -> Right \cup {NoRight}]]
    /\ timers \in [Timer -> Port \cup {NoPort}]

ProcType ==
    /\ waits \in [Proc -> SUBSET (Port \X Kinds)]
    /\ pc \in [Actor -> Places]
    /\ local \in [Actor -> Locals]

RegionType ==
    /\ wide \in Actor \cup {NoProc}
    /\ depth \in Nat
    /\ stack \in Seq(Tasks)
    /\ after \in Places

(* What a proc at a place of its syscall has in its hands, given its right *)
(* table: the handles and the message it goes on to use are there.         *)
Owns(l, R) ==
    /\ \A c \in l.cases : R[c[1]] # NoRight
    /\ l.reply # NoHandle => R[l.reply] # NoRight
Plain(l) == l.cases = {} /\ l.reply = NoHandle

InHand(at, l, R, then) ==
    /\ at = "run" => Plain(l) /\ ~l.outer
    /\ at \in {"blocked", "call_k", "alt_k"} => Owns(l, R) /\ ~l.outer
    /\ at = "call_k" => l.reply # NoHandle
    /\ at = "serialize" =>
          /\ l.msg # NoMsg /\ l.to # NoHandle /\ R[l.to] # NoRight
          /\ l.cases = {} /\ Owns(l, R)
          /\ l.reply # NoHandle => l.outer
    /\ at \in {"discard", "deserialize", "undo", "dispose"} => Plain(l) /\ l.msg # NoMsg
    /\ at \in {"deserialize", "undo"} => \A h \in l.minted : R[h] # NoRight
    /\ at = "leave" => l.outer /\ l.cases = {} /\ Owns(l, R)
    /\ at = "region" =>
          /\ then \in {"run", "dead", "leave", "dispose"}
          /\ then \in {"leave", "dispose"} => Plain(l)
          /\ then = "leave" => l.outer
          /\ then = "dispose" => l.msg # NoMsg
          /\ then \in {"run", "dead"} => ~l.outer
    /\ at = "dead" => ~l.outer

Hands == \A a \in Proc : InHand(pc[a], local[a], rights[a], after)

(* The dispatch loop is in a region or in none. *)
Loop == pc[Kernel] \in {"run", "region"} /\ ~local[Kernel].outer
        /\ (pc[Kernel] = "region" => after = "run")

(* Who has the wide region, and how deep: once for the syscall around it,  *)
(* once for the tasks.                                                     *)
Regions ==
    /\ wide = NoProc => depth = 0
    /\ wide # NoProc => depth > 0
    /\ \A a \in Actor : pc[a] = "region" \/ local[a].outer => wide = a
    /\ \A a \in Actor : pc[a] = "region" /\ local[a].outer => depth > 1
    /\ stack # <<>> => wide # NoProc /\ pc[wide] = "region"

(* A task that drops or arms the rights of a proc is the last of its       *)
(* region, and that proc's own; the rights are in its table.               *)
Own(t) == t.op \in {"drop", "arm"}

TaskFits(t, w, R) ==
    /\ t.op = "drop" => t.proc = w /\ t.hs # {} /\ \A h \in t.hs : R[t.proc][h] # NoRight
    /\ t.op = "arm" => t.proc = w /\ R[t.proc][t.h] # NoRight

Fits(s, w, R) ==
    /\ \A i \in 1 .. Len(s) : TaskFits(s[i], w, R)
    /\ \A i \in 1 .. (Len(s) - 1) : ~Own(s[i])

(* A waiter is linked while its proc is parked, on ports it has a right to. *)
Linked ==
    \A a \in Proc :
       /\ waits[a] # {} <=> pc[a] = "blocked"
       /\ \A w \in waits[a] : Mine(a, w[1]) # {}

(* Nothing is queued on a dead port. *)
Emptied == \A p \in Port : dead[p] => queue[p] = <<>>

(* The part that counts nothing.                                           *)
PlaceInv ==
    /\ PortType /\ HolderType /\ ProcType /\ RegionType
    /\ Hands /\ Loop /\ Regions /\ Fits(stack, wide, rights) /\ Linked /\ Emptied

(* A port is listed while no task of the region is about to free it, and   *)
(* hung while a task is about to wake its waiters.                         *)
Listed(p) == \A i \in 1 .. Len(stack) : stack[i].op = "free" => stack[i].port # p
Hung(p) == \E i \in 1 .. Len(stack) : stack[i] = Hangup(p)

(* The counts are exact, and a port with a reference left is in use and is *)
(* not about to be freed.                                                  *)
CountInv ==
    /\ CountsExact
    /\ \A p \in Port : nrights[p] > 0 => p \in used /\ Listed(p)

(* Whoever waits has still to wait, or is owed a wake-up by the region.    *)
WakeInv ==
    \A a \in Proc : \A w \in waits[a] :
          /\ w[2] = "send" => Full(w[1]) \/ Hung(w[1])
          /\ w[2] # "send" => queue[w[1]] = <<>>
          /\ w[2] = "hup" => ~sole_holder(a, w[1]) \/ Hung(w[1])
----------------------------------------------------------------------------
(* What the proofs use of the theory of finite sets and of the naturals.   *)
(* PortsProofs derives it from the library; it is a hypothesis up to there *)
(* because every obligation carries the theorems its module extends.       *)
SetFacts ==
    /\ \A S \in SUBSET Nat : S # {} => \E x \in S : \A y \in S : x <= y
    /\ IsFiniteSet(Proc \X Handle) /\ IsFiniteSet(MsgId \X Slot)
    /\ IsFiniteSet(Timer) /\ IsFiniteSet(Handle)
    /\ \A S : IsFiniteSet(S) => /\ Cardinality(S) \in Nat
                                /\ Cardinality(S) = 0 <=> S = {}
                                /\ \A T \in SUBSET S : IsFiniteSet(T)
                                /\ \A x : IsFiniteSet(S \cup {x})
                                /\ \A x : x \notin S => Cardinality(S \cup {x}) = Cardinality(S) + 1

(* The first free slot of a table is one of the free slots. *)
LEMMA LowestIn ==
    ASSUME SetFacts, NEW S \in SUBSET Nat, S # {}
    PROVE  Lowest(S) \in S
BY Zenon DEF SetFacts, Lowest

(* Handles, slots, timers and ports are indices. *)
LEMMA Ranges == Handle \subseteq Nat /\ Slot \subseteq Nat /\ Timer \subseteq Nat /\ Port \subseteq Nat
BY PortsAssumption, SMT DEF Handle, Slot, Timer, Port

(* The fields of a task. *)
LEMMA TaskFields ==
    ASSUME NEW t \in Tasks
    PROVE  /\ t.op \in {"drop", "msg", "flush", "free", "hangup", "reap", "expire", "arm"}
           /\ t.op = "drop" => t.proc \in Proc /\ t.hs \in SUBSET Handle /\ t.hint \in BOOLEAN
           /\ t.op = "msg" => t.msg \in MsgId
           /\ t.op = "flush" => t.msgs \in Seq(MsgId)
           /\ t.op \in {"free", "hangup"} => t.port \in Port
           /\ t.op = "reap" => t.from \in Nat
           /\ t.op = "expire" => t.due \in SUBSET Timer
           /\ t.op = "arm" => t.proc \in Proc /\ t.h \in Handle /\ t.try \in {1, 2}
BY SMT DEF Tasks

(* What the steps push on a region are tasks. *)
LEMMA TaskMakes ==
    /\ \A a \in Proc, S \in SUBSET Handle, b \in BOOLEAN : Drop(a, S, b) \in Tasks
    /\ \A m \in MsgId : Msg(m) \in Tasks
    /\ \A q \in Seq(MsgId) : Flush(q) \in Tasks
    /\ \A p \in Port : FreePort(p) \in Tasks /\ Hangup(p) \in Tasks
    /\ \A i \in Nat : Reap(i) \in Tasks
    /\ \A S \in SUBSET Timer : Expire(S) \in Tasks
    /\ \A a \in Proc, h \in Handle, i \in {1, 2} : Arm(a, h, i) \in Tasks
BY SMT DEF Tasks, Drop, Msg, Flush, FreePort, Hangup, Reap, Expire, Arm

(* Sequences of tasks: what a push and a Tail do to them. *)
LEMMA PushOne ==
    ASSUME NEW s \in Seq(Tasks), NEW x \in Tasks
    PROVE  /\ <<x>> \o s \in Seq(Tasks) /\ <<x>> \o s # <<>>
           /\ Len(<<x>> \o s) = Len(s) + 1
           /\ (<<x>> \o s)[1] = x
           /\ \A i \in 1 .. Len(s) : (<<x>> \o s)[i + 1] = s[i]
BY SMT

(* One task alone. *)
LEMMA PushOnNone ==
    ASSUME NEW x \in Tasks
    PROVE  <<x>> \o <<>> \in Seq(Tasks) /\ Len(<<x>> \o <<>>) = 1 /\ (<<x>> \o <<>>)[1] = x
BY SMT

(* Two tasks pushed at once, as hangup and flush are. *)
LEMMA PushTwo ==
    ASSUME NEW s \in Seq(Tasks), NEW x \in Tasks, NEW y \in Tasks
    PROVE  /\ <<x, y>> \o s \in Seq(Tasks) /\ <<x, y>> \o s # <<>>
           /\ Len(<<x, y>> \o s) = Len(s) + 2
           /\ (<<x, y>> \o s)[1] = x /\ (<<x, y>> \o s)[2] = y
           /\ \A i \in 1 .. Len(s) : (<<x, y>> \o s)[i + 2] = s[i]
BY SMT

(* What is left of a region when its first task is done. *)
LEMMA TailOf ==
    ASSUME NEW s \in Seq(Tasks), s # <<>>
    PROVE  /\ Tail(s) \in Seq(Tasks) /\ Head(s) \in Tasks
           /\ Len(Tail(s)) = Len(s) - 1 /\ Len(s) \in Nat /\ Len(s) > 0
           /\ Head(s) = s[1]
           /\ \A i \in 1 .. (Len(s) - 1) : Tail(s)[i] = s[i + 1]
BY SMT

(* A region with no task left. *)
LEMMA NoneLeft ==
    ASSUME NEW s \in Seq(Tasks), Len(s) = 0
    PROVE  s = <<>>
BY SMT

(* A region of one task fits when the task does. *)
LEMMA FitsOne ==
    ASSUME NEW z \in Seq(Tasks), NEW w, NEW R, Len(z) = 1, TaskFits(z[1], w, R)
    PROVE  Fits(z, w, R)
<1>1. \A i \in 1 .. Len(z) : i = 1
  BY SMT
<1>2. \A i \in 1 .. (Len(z) - 1) : FALSE
  BY SMT
<1> QED BY <1>1, <1>2, Zenon DEF Fits

(* A region with nothing to do fits. *)
LEMMA FitsNone == \A w, R : Fits(<<>>, w, R)
BY SMT DEF Fits

(* A region goes on fitting when its first task is done. *)
LEMMA FitsTail ==
    ASSUME NEW s \in Seq(Tasks), NEW w, NEW R, s # <<>>, Fits(s, w, R)
    PROVE  Fits(Tail(s), w, R) /\ TaskFits(Head(s), w, R) /\ (Own(Head(s)) => Tail(s) = <<>>)
<1> DEFINE z == Tail(s)
<1>0. /\ z \in Seq(Tasks) /\ Head(s) = s[1] /\ Len(s) \in Nat /\ Len(s) > 0
      /\ Len(z) = Len(s) - 1 /\ \A i \in 1 .. (Len(s) - 1) : z[i] = s[i + 1]
  BY TailOf
<1> HIDE DEF z
<1>1. ASSUME NEW i \in 1 .. Len(z) PROVE TaskFits(z[i], w, R)
  <2>1. i + 1 \in 1 .. Len(s) /\ z[i] = s[i + 1]
    BY <1>0, SMT
  <2> QED BY <2>1, Zenon DEF Fits
<1>2. ASSUME NEW i \in 1 .. (Len(z) - 1) PROVE ~Own(z[i])
  <2>1. i + 1 \in 1 .. (Len(s) - 1) /\ z[i] = s[i + 1]
    BY <1>0, SMT
  <2> QED BY <2>1, Zenon DEF Fits
<1>3. TaskFits(Head(s), w, R)
  <2>1. 1 \in 1 .. Len(s)
    BY <1>0, SMT
  <2> QED BY <1>0, <2>1, Zenon DEF Fits
<1>4. Own(Head(s)) => z = <<>>
  <2>1. Len(z) # 0 => 1 \in 1 .. (Len(s) - 1)
    BY <1>0, SMT
  <2>2. Own(Head(s)) => Len(z) = 0
    BY <1>0, <2>1, Zenon DEF Fits
  <2> QED BY <1>0, <2>2, NoneLeft
<1>5. Fits(z, w, R)
  BY <1>1, <1>2, Zenon DEF Fits
<1> QED BY <1>3, <1>4, <1>5 DEF z
----------------------------------------------------------------------------
(* The tasks of a region, one by one. *)

(* A region with a task left is its actor's, who is in it. *)
LEMMA TopTask ==
    ASSUME PlaceInv, NEW a \in Actor, wide = a, stack # <<>>
    PROVE  /\ pc[a] = "region" /\ Head(stack) \in Tasks
           /\ Tail(stack) \in Seq(Tasks) /\ stack \in Seq(Tasks)
           /\ Fits(Tail(stack), a, rights) /\ TaskFits(Head(stack), a, rights)
           /\ Own(Head(stack)) => Tail(stack) = <<>>
<1>1. stack \in Seq(Tasks) /\ pc[a] = "region" /\ Fits(stack, a, rights)
  BY Zenon DEF PlaceInv, RegionType, Regions
<1> QED BY <1>1, TailOf, FitsTail, Zenon

(* right_drop takes one right of the actor's own table. *)
LEMMA DropForm ==
    ASSUME SetFacts, PlaceInv, NEW a \in Actor, right_drop(a)
    PROVE  /\ a \in Proc /\ wide = a /\ pc[a] = "region"
           /\ Head(stack).op = "drop" /\ Tail(stack) = <<>> /\ stack # <<>>
           /\ UNCHANGED <<refs, alloc, timers, waits, pc, local, wide, depth, after>>
           /\ \E h \in Handle, rest \in Seq(Tasks) :
                 /\ rights[a][h] \in Right
                 /\ rights' = [rights EXCEPT ![a][h] = NoRight]
                 /\ nports' = Uncharge(a, rights[a][h].recv)
                 /\ rhint' = rhint \/ rhint' = [rhint EXCEPT ![a] = h]
                 /\ \A i \in 1 .. Len(rest) : rest[i].op = "drop"
                 /\ Fits(rest, a, rights')
                 /\ port_unref(rights[a][h].port, Less(rights[a][h].port, rights[a][h].recv),
                               queue[rights[a][h].port], rest)
<1> DEFINE t == Head(stack)
           h == Lowest(t.hs)
           rest == IF t.hs = {h} THEN Tail(stack)
                   ELSE <<Drop(t.proc, t.hs \ {h}, t.hint)>> \o Tail(stack)
<1>1. /\ wide = a /\ stack # <<>> /\ t.op = "drop"
      /\ rights' = [rights EXCEPT ![t.proc][h] = NoRight]
      /\ nports' = Uncharge(t.proc, rights[t.proc][h].recv)
      /\ rhint' = IF t.hint /\ h < rhint[t.proc] THEN [rhint EXCEPT ![t.proc] = h] ELSE rhint
      /\ port_unref(rights[t.proc][h].port, Less(rights[t.proc][h].port, rights[t.proc][h].recv),
                    queue[rights[t.proc][h].port], rest)
      /\ UNCHANGED <<refs, alloc, timers, waits, pc, local, wide, depth, after>>
  BY Zenon DEF right_drop
<1>2. /\ pc[a] = "region" /\ t \in Tasks /\ TaskFits(t, a, rights) /\ Tail(stack) = <<>>
  BY <1>1, TopTask, Zenon DEF Own
<1>3. /\ t.proc = a /\ a \in Proc /\ t.hs \in SUBSET Handle /\ t.hint \in BOOLEAN
      /\ t.hs # {} /\ \A g \in t.hs : rights[a][g] # NoRight
  BY <1>1, <1>2, TaskFields, Zenon DEF TaskFits
<1>4. h \in t.hs /\ h \in Handle
  <2>1. t.hs \in SUBSET Nat
    BY <1>3, Ranges
  <2> QED BY <1>3, <2>1, LowestIn, Zenon
<1> HIDE DEF t, h
<1>5. rights \in [Proc -> Table] /\ rights[a] \in Table /\ rights[a][h] \in Right
  <2>1. rights \in [Proc -> Table]
    BY DEF PlaceInv, HolderType
  <2>2. rights[a] \in Table
    BY <1>3, <2>1, Zenon
  <2>3. rights[a][h] \in Right \cup {NoRight}
    BY <1>4, <2>2, Zenon DEF Table
  <2> QED BY <1>3, <1>4, <2>1, <2>2, <2>3, Zenon
<1>6. CASE t.hs = {h}
  <2>1. rest = <<>> /\ <<>> \in Seq(Tasks) /\ \A i \in 1 .. Len(<<>>) : FALSE
    BY <1>2, <1>6, SMT
  <2> HIDE DEF rest
  <2> QED BY <1>1, <1>2, <1>3, <1>4, <1>5, <2>1, FitsNone, Zenon DEF t
<1>7. CASE t.hs # {h}
  <2> DEFINE x == Drop(a, t.hs \ {h}, t.hint)
  <2>1. rest = <<x>> \o <<>>
    BY <1>2, <1>3, <1>7, Zenon
  <2>2. x \in Tasks /\ x.op = "drop"
    BY <1>3, TaskMakes, Zenon DEF Drop
  <2>3. \A g \in t.hs \ {h} : rights'[a][g] # NoRight
    BY <1>1, <1>3, <1>5, Zenon DEF Table
  <2>4. TaskFits(x, a, rights')
    BY <1>4, <1>7, <2>3, SMT DEF TaskFits, Drop
  <2> HIDE DEF x, rest
  <2>5. rest \in Seq(Tasks) /\ Len(rest) = 1 /\ rest[1] = x
    BY <2>1, <2>2, PushOnNone, Zenon
  <2>6. Fits(rest, a, rights') /\ \A i \in 1 .. Len(rest) : rest[i].op = "drop"
    <3>1. \A i \in 1 .. Len(rest) : i = 1
      BY <2>5, SMT
    <3> QED BY <2>2, <2>4, <2>5, <3>1, FitsOne, Zenon
  <2> QED BY <1>1, <1>2, <1>3, <1>4, <1>5, <2>5, <2>6, Zenon DEF t
<1> QED BY <1>6, <1>7

(* release_inflight takes one right of the message on top. *)
LEMMA ReleaseForm ==
    ASSUME SetFacts, PlaceInv, NEW a \in Actor, release_inflight(a)
    PROVE  /\ wide = a /\ pc[a] = "region" /\ stack # <<>>
           /\ UNCHANGED <<tableVars, alloc, timers, waits, pc, local, wide, depth, after>>
           /\ \E m \in MsgId, j \in Slot :
                 /\ refs[m][j] \in Right
                 /\ refs' = [refs EXCEPT ![m][j] = NoRight]
                 /\ port_unref(refs[m][j].port, Less(refs[m][j].port, refs[m][j].recv),
                               queue[refs[m][j].port], stack)
<1> DEFINE m == Head(stack).msg
           j == Lowest(Refs(m))
<1>1. /\ wide = a /\ stack # <<>> /\ Head(stack).op = "msg" /\ Refs(m) # {}
      /\ refs' = [refs EXCEPT ![m][j] = NoRight]
      /\ port_unref(refs[m][j].port, Less(refs[m][j].port, refs[m][j].recv),
                    queue[refs[m][j].port], stack)
      /\ UNCHANGED <<tableVars, alloc, timers, waits, pc, local, wide, depth, after>>
  BY Zenon DEF release_inflight
<1>2. pc[a] = "region" /\ m \in MsgId
  BY <1>1, TopTask, TaskFields, Zenon
<1>3. j \in Refs(m)
  <2>1. Refs(m) \in SUBSET Nat
    BY Ranges, Zenon DEF Refs
  <2> QED BY <1>1, <2>1, LowestIn, Zenon
<1> HIDE DEF m, j
<1>4. j \in Slot /\ refs[m][j] \in Right
  <2>1. refs[m] \in [Slot -> Right \cup {NoRight}]
    BY <1>2, Zenon DEF PlaceInv, HolderType
  <2> QED BY <1>3, <2>1, Zenon DEF Refs
<1> QED BY <1>1, <1>2, <1>4, Zenon

(* reap_dead_timers, when it finds one, and expire take one of the table's *)
(* references.                                                             *)
LEMMA ReapForm ==
    ASSUME SetFacts, PlaceInv, NEW a \in Actor, reap_dead_timers(a)
    PROVE  /\ wide = a /\ pc[a] = "region" /\ stack # <<>> /\ Head(stack).op = "reap"
           /\ UNCHANGED <<tableVars, refs, alloc, waits, pc, local, wide, depth, after>>
           /\ \/ stack' = Tail(stack) /\ UNCHANGED <<portVars, timers>>
              \/ \E t \in Timer :
                    /\ timers[t] \in Port
                    /\ timers' = [timers EXCEPT ![t] = NoPort]
                    /\ Reap(t + 1) \in Tasks
                    /\ port_unref(timers[t], nrecv[timers[t]], queue[timers[t]],
                                  <<Reap(t + 1)>> \o Tail(stack))
<1> DEFINE D == {t \in Timer : t >= Head(stack).from /\ timers[t] # NoPort /\ dead[timers[t]]}
           t == Lowest(D)
<1>1. /\ wide = a /\ stack # <<>> /\ Head(stack).op = "reap"
      /\ \/ D = {} /\ stack' = Tail(stack) /\ UNCHANGED <<portVars, timers>>
         \/ /\ D # {} /\ timers' = [timers EXCEPT ![t] = NoPort]
            /\ port_unref(timers[t], nrecv[timers[t]], queue[timers[t]],
                          <<Reap(t + 1)>> \o Tail(stack))
      /\ UNCHANGED <<tableVars, refs, alloc, waits, pc, local, wide, depth, after>>
  BY Zenon DEF reap_dead_timers
<1>2. pc[a] = "region"
  BY <1>1, TopTask, Zenon
<1>3. D # {} => t \in Timer /\ timers[t] # NoPort
  <2>1. D \in SUBSET Nat
    BY Ranges, Zenon
  <2>2. D # {} => t \in D
    BY <2>1, LowestIn, Zenon
  <2> QED BY <2>2, Zenon
<1> HIDE DEF D, t
<1>4. CASE D = {}
  BY <1>1, <1>2, <1>4, Zenon
<1>5. CASE D # {}
  <2>1. timers[t] \in Port
    BY <1>3, <1>5, Zenon DEF PlaceInv, HolderType
  <2>2. t + 1 \in Nat
    <3>1. t \in Nat
      BY <1>3, <1>5, Ranges, Zenon
    <3> QED BY <3>1, SMT
  <2> QED BY <1>1, <1>2, <1>3, <1>5, <2>1, <2>2, TaskMakes, Zenon
<1> QED BY <1>4, <1>5

(* expire_timers posts to the port of one due timer, or has none left. *)
LEMMA ExpireForm ==
    ASSUME SetFacts, PlaceInv, NEW a \in Actor, expire(a)
    PROVE  /\ wide = a /\ pc[a] = "region" /\ stack # <<>> /\ Head(stack).op = "expire"
           /\ UNCHANGED <<tableVars, refs, local, wide, depth, after>>
           /\ \/ stack' = Tail(stack) /\ UNCHANGED <<portVars, alloc, timers, waits, pc>>
              \/ \E t \in Timer, S \in SUBSET Timer, q \in Seq(MsgId) :
                    LET p == timers[t] IN
                    /\ p \in Port
                    /\ timers' = [timers EXCEPT ![t] = NoPort]
                    /\ Expire(S) \in Tasks
                    /\ port_unref(p, nrecv[p], q, <<Expire(S)>> \o Tail(stack))
                    /\ \/ q = queue[p] /\ UNCHANGED <<alloc, waits, pc>>
                       \/ /\ ~dead[p] /\ Wake(p, {"recv", "hup"})
                          /\ Len(queue[p]) < MAXQUEUE
                          /\ \E m \in MsgId : q = Append(queue[p], m)
<1> DEFINE S == {t \in Head(stack).due : timers[t] # NoPort}
           t == Lowest(S)
           p == timers[t]
           rest == <<Expire(S \ {t})>> \o Tail(stack)
           Refused == port_unref(p, nrecv[p], queue[p], rest) /\ UNCHANGED <<alloc, waits, pc>>
           Pushed == /\ ~dead[p] /\ Len(queue[p]) < MAXQUEUE
                     /\ \E m \in MsgId \ alloc :
                           /\ alloc' = alloc \cup {m}
                           /\ port_unref(p, nrecv[p], Append(queue[p], m), rest)
                     /\ Wake(p, {"recv", "hup"})
<1>1. /\ wide = a /\ stack # <<>> /\ Head(stack).op = "expire"
      /\ \/ S = {} /\ stack' = Tail(stack) /\ UNCHANGED <<portVars, alloc, timers, waits, pc>>
         \/ S # {} /\ timers' = [timers EXCEPT ![t] = NoPort] /\ (Refused \/ Pushed)
      /\ UNCHANGED <<tableVars, refs, local, wide, depth, after>>
  BY Zenon DEF expire
<1>2. pc[a] = "region" /\ Head(stack).due \in SUBSET Timer
  BY <1>1, TopTask, TaskFields, Zenon
<1>3. S # {} => t \in Timer /\ timers[t] # NoPort
  <2>1. S \in SUBSET Nat
    BY <1>2, Ranges, Zenon
  <2>2. S # {} => t \in S
    BY <2>1, LowestIn, Zenon
  <2> QED BY <1>2, <2>2, Zenon
<1>4. S \ {t} \in SUBSET Timer
  BY <1>2, Zenon
<1> HIDE DEF S, t
<1>5. CASE S = {}
  BY <1>1, <1>2, <1>5, Zenon
<1>6. CASE S # {} /\ Refused
  <2>1. p \in Port /\ queue[p] \in Seq(MsgId)
    BY <1>3, <1>6, Zenon DEF PlaceInv, HolderType, PortType
  <2> QED BY <1>1, <1>2, <1>3, <1>4, <1>6, <2>1, TaskMakes, Zenon
<1>7. CASE S # {} /\ Pushed
  <2>1. p \in Port /\ queue[p] \in Seq(MsgId)
    BY <1>3, <1>7, Zenon DEF PlaceInv, HolderType, PortType
  <2>2. PICK m \in MsgId : port_unref(p, nrecv[p], Append(queue[p], m), rest)
    BY <1>7, Zenon
  <2>3. Append(queue[p], m) \in Seq(MsgId)
    BY <2>1, SMT
  <2> QED BY <1>1, <1>2, <1>3, <1>4, <1>7, <2>1, <2>2, <2>3, TaskMakes, Zenon
<1> QED BY <1>1, <1>5, <1>6, <1>7, Zenon

(* timer_arm takes a reference for the table, or gives way to the reaper,  *)
(* or to right_drop.                                                       *)
LEMMA ArmForm ==
    ASSUME SetFacts, PlaceInv, NEW a \in Actor, timer_arm(a)
    PROVE  /\ a \in Proc /\ wide = a /\ pc[a] = "region"
           /\ stack # <<>> /\ Head(stack).op = "arm" /\ Tail(stack) = <<>>
           /\ UNCHANGED <<used, nrecv, dead, queue, tableVars, refs, alloc, waits, pc,
                          local, wide, depth, after>>
           /\ stack' \in Seq(Tasks) /\ Fits(stack', a, rights)
           /\ \A i \in 1 .. Len(stack') : stack'[i].op \in {"reap", "arm", "drop"}
           /\ \/ UNCHANGED <<nrights, timers>>
              \/ \E t \in Timer, h \in Handle :
                    LET p == rights[a][h].port IN
                    /\ timers[t] = NoPort /\ p \in Port /\ rights[a][h] \in Right
                    /\ timers' = [timers EXCEPT ![t] = p]
                    /\ nrights' = [nrights EXCEPT ![p] = @ + 1]
<1> DEFINE k == Head(stack)
           p == rights[k.proc][k.h].port
           F == {t \in Timer : timers[t] = NoPort}
           One == F # {} /\ TimerRef(p) /\ timers' = [timers EXCEPT ![Lowest(F)] = p]
                  /\ stack' = Tail(stack)
           None == /\ F = {}
                   /\ stack' = (IF k.try = 1 THEN <<Reap(1), Arm(k.proc, k.h, 2)>>
                                ELSE <<Drop(k.proc, {k.h}, FALSE)>>) \o Tail(stack)
                   /\ UNCHANGED <<nrights, timers>>
<1>1. /\ wide = a /\ stack # <<>> /\ k.op = "arm" /\ (One \/ None)
      /\ UNCHANGED <<used, nrecv, dead, queue, tableVars, refs, alloc, waits, pc,
                     local, wide, depth, after>>
  BY Zenon DEF timer_arm
<1>2. /\ pc[a] = "region" /\ k \in Tasks /\ TaskFits(k, a, rights) /\ Tail(stack) = <<>>
  BY <1>1, TopTask, Zenon DEF Own
<1>3. /\ k.proc = a /\ a \in Proc /\ k.h \in Handle /\ rights[a][k.h] # NoRight
  BY <1>1, <1>2, TaskFields, Zenon DEF TaskFits
<1>4. rights[a][k.h] \in Right /\ p \in Port
  <2>1. rights[a] \in Table
    BY <1>3, Zenon DEF PlaceInv, HolderType
  <2>2. rights[a][k.h] \in Right
    BY <1>3, <2>1, Zenon DEF Table
  <2> QED BY <1>3, <2>2 DEF Right
<1> HIDE DEF k
<1>5. CASE One
  <2>1. F \in SUBSET Nat
    BY Ranges, Zenon
  <2>2. Lowest(F) \in F
    BY <1>5, <2>1, LowestIn, Zenon
  <2>3. \E t \in Timer, h \in Handle :
           LET q == rights[a][h].port IN
           /\ timers[t] = NoPort /\ q \in Port /\ rights[a][h] \in Right
           /\ timers' = [timers EXCEPT ![t] = q]
           /\ nrights' = [nrights EXCEPT ![q] = @ + 1]
    BY <1>3, <1>4, <1>5, <2>2, Zenon DEF TimerRef
  <2>4. stack' = <<>> /\ <<>> \in Seq(Tasks) /\ \A i \in 1 .. Len(<<>>) : FALSE
    BY <1>2, <1>5, SMT
  <2> QED BY <1>1, <1>2, <1>3, <2>3, <2>4, FitsNone, Zenon DEF k
<1>6. CASE None /\ k.try = 1
  <2> DEFINE x == Reap(1)
             y == Arm(a, k.h, 2)
             z == <<x, y>> \o <<>>
  <2>1. x \in Tasks /\ y \in Tasks /\ ~Own(x)
    BY <1>3, TaskMakes, SMT DEF Own, Reap
  <2>2. TaskFits(y, a, rights) /\ x.op = "reap" /\ y.op = "arm"
    BY <1>3, SMT DEF TaskFits, Arm, Reap
  <2>3. stack' = z
    BY <1>2, <1>3, <1>6, Zenon
  <2> HIDE DEF x, y
  <2>4. z \in Seq(Tasks) /\ Len(z) = 2 /\ z[1] = x /\ z[2] = y
    BY <2>1, SMT
  <2>5. /\ \A i \in 1 .. Len(z) : i = 1 \/ i = 2
        /\ \A i \in 1 .. (Len(z) - 1) : i = 1
    BY <2>4, SMT
  <2> HIDE DEF z
  <2>6. Fits(z, a, rights) /\ \A i \in 1 .. Len(z) : z[i].op \in {"reap", "arm", "drop"}
    <3>1. TaskFits(x, a, rights)
      BY <2>2, SMT DEF TaskFits
    <3> QED BY <2>1, <2>2, <2>4, <2>5, <3>1, Zenon DEF Fits
  <2> QED BY <1>1, <1>2, <1>3, <1>6, <2>3, <2>4, <2>6, Zenon DEF k
<1>7. CASE None /\ k.try # 1
  <2> DEFINE x == Drop(a, {k.h}, FALSE)
             z == <<x>> \o <<>>
  <2>1. {k.h} \in SUBSET Handle /\ FALSE \in BOOLEAN
    BY <1>3
  <2>2. x \in Tasks
    BY <1>3, <2>1, TaskMakes, Zenon
  <2>3. TaskFits(x, a, rights) /\ x.op = "drop"
    BY <1>3, SMT DEF TaskFits, Drop
  <2>4. stack' = z
    BY <1>2, <1>3, <1>7, Zenon
  <2> HIDE DEF x
  <2>5. z \in Seq(Tasks) /\ Len(z) = 1 /\ z[1] = x
    BY <2>2, PushOnNone, Zenon
  <2>6. \A i \in 1 .. Len(z) : i = 1
    BY <2>5, SMT
  <2> HIDE DEF z
  <2>7. Fits(z, a, rights) /\ \A i \in 1 .. Len(z) : z[i].op \in {"reap", "arm", "drop"}
    BY <2>3, <2>5, <2>6, FitsOne, Zenon
  <2> QED BY <1>1, <1>2, <1>3, <1>7, <2>4, <2>5, <2>7, Zenon DEF k
<1> QED BY <1>1, <1>5, <1>6, <1>7, Zenon

----------------------------------------------------------------------------
(* A step of one actor. *)
Acts(a) ==
    \/ a \in Proc /\ (Call(a) \/ Step(a))
    \/ Task(a)
    \/ a = Kernel /\ expire_timers

(* What a proc finds in its hands. *)
LEMMA RightOf ==
    ASSUME HolderType, NEW a \in Proc, NEW h \in Handle, rights[a][h] # NoRight
    PROVE  /\ rights[a][h] \in Right
           /\ rights[a][h].port \in Port /\ rights[a][h].recv \in BOOLEAN
<1>1. rights[a][h] \in Right
  <2>1. rights[a] \in Table
    BY Zenon DEF HolderType
  <2> QED BY <2>1, Zenon DEF Table
<1> QED BY <1>1, SMT DEF Right

(* What a right in flight names. *)
LEMMA RefOf ==
    ASSUME HolderType, NEW m \in MsgId, NEW j \in Slot, refs[m][j] # NoRight
    PROVE  /\ refs[m][j] \in Right
           /\ refs[m][j].port \in Port /\ refs[m][j].recv \in BOOLEAN
<1>1. refs[m][j] \in Right
  BY Zenon DEF HolderType
<1> QED BY <1>1, SMT DEF Right

(* The fields of the locals of a syscall. *)
LEMMA LocalOf ==
    ASSUME ProcType, NEW a \in Actor
    PROVE  /\ local[a] \in Locals /\ pc[a] \in Places
           /\ local[a].msg \in MsgId \cup {NoMsg} /\ local[a].to \in Handle \cup {NoHandle}
           /\ local[a].next \in Nat /\ local[a].minted \in SUBSET Handle
           /\ local[a].reply \in Handle \cup {NoHandle}
           /\ local[a].cases \in SUBSET (Handle \X Kinds) /\ local[a].outer \in BOOLEAN
<1>1. local[a] \in Locals /\ pc[a] \in Places
  BY Zenon DEF ProcType
<1> QED BY <1>1, SMT DEF Locals

(* Who acts: the procs and the dispatch loop. *)
LEMMA ProcActor == Proc \subseteq Actor /\ Kernel \in Actor /\ NoProc \notin Actor /\ Kernel \notin Proc
BY PortsAssumption, Zenon DEF Actor

(* The message of a send, and the port it is for. *)
LEMMA SendOf ==
    ASSUME PlaceInv, NEW a \in Proc, pc[a] = "serialize"
    PROVE  /\ local[a].msg \in MsgId /\ local[a].to \in Handle
           /\ rights[a][local[a].to] \in Right /\ rights[a][local[a].to].port \in Port
<1>0. HolderType /\ ProcType /\ a \in Actor
  BY ProcActor, Zenon DEF PlaceInv
<1>1. local[a].msg # NoMsg /\ local[a].to # NoHandle /\ rights[a][local[a].to] # NoRight
  BY Zenon DEF PlaceInv, Hands, InHand
<1>2. local[a].msg \in MsgId /\ local[a].to \in Handle
  BY <1>0, <1>1, LocalOf, Zenon
<1> QED BY <1>0, <1>1, <1>2, RightOf, Zenon

(* The message of a receive. *)
LEMMA MessageOf ==
    ASSUME PlaceInv, NEW a \in Proc, pc[a] \in {"discard", "deserialize", "undo", "dispose"}
    PROVE  local[a].msg \in MsgId
<1>0. ProcType /\ a \in Actor
  BY ProcActor, Zenon DEF PlaceInv
<1>1. local[a].msg # NoMsg
  BY Zenon DEF PlaceInv, Hands, InHand
<1> QED BY <1>0, <1>1, LocalOf, Zenon

(* The reply port of a call. *)
LEMMA ReplyOf ==
    ASSUME PlaceInv, NEW a \in Proc, pc[a] = "call_k"
    PROVE  /\ local[a].reply \in Handle
           /\ rights[a][local[a].reply] \in Right /\ rights[a][local[a].reply].port \in Port
<1>0. HolderType /\ ProcType /\ a \in Actor
  BY ProcActor, Zenon DEF PlaceInv
<1>1. local[a].reply # NoHandle /\ rights[a][local[a].reply] # NoRight
  BY Zenon DEF PlaceInv, Hands, InHand, Owns
<1>2. local[a].reply \in Handle
  BY <1>0, <1>1, LocalOf, Zenon
<1> QED BY <1>0, <1>1, <1>2, RightOf, Zenon

(* The ports of an alt. *)
LEMMA CasesOf ==
    ASSUME PlaceInv, NEW a \in Proc, pc[a] = "alt_k", NEW c \in local[a].cases
    PROVE  /\ c[1] \in Handle /\ c[2] \in Kinds
           /\ rights[a][c[1]] \in Right /\ rights[a][c[1]].port \in Port
<1>0. HolderType /\ ProcType /\ a \in Actor
  BY ProcActor, Zenon DEF PlaceInv
<1>1. rights[a][c[1]] # NoRight
  BY Zenon DEF PlaceInv, Hands, InHand, Owns
<1>2. c[1] \in Handle /\ c[2] \in Kinds
  <2>1. c \in Handle \X Kinds
    BY <1>0, LocalOf, Zenon
  <2> QED BY <2>1, SMT
<1> QED BY <1>0, <1>1, <1>2, RightOf, Zenon

----------------------------------------------------------------------------
(* Where the procs are.  In a step of one actor the others stay where they *)
(* are, with what they have, or are woken.                                 *)
Turn(a) ==
    /\ \A b \in Actor \ {a} : local'[b] = local[b]
    /\ \A b \in Proc \ {a} :
          /\ rights'[b] = rights[b]
          /\ \/ pc'[b] = pc[b] /\ waits'[b] = waits[b]
             \/ pc[b] = "blocked" /\ pc'[b] = Resumed(b) /\ waits'[b] = {}
    /\ a # Kernel => pc'[Kernel] = pc[Kernel]

ResumedAt == {"call_k", "alt_k", "run"}

(* A woken proc goes on at one of three places. *)
LEMMA ResumedIn == \A a : Resumed(a) \in ResumedAt /\ ResumedAt \subseteq Places
BY Zenon DEF Resumed, ResumedAt, Places

(* wake moves only those who waited, to where their syscall goes on. *)
LEMMA WakeTurn ==
    ASSUME ProcType, NEW p, NEW K, NEW a \in Actor, NEW at \in Places,
           Wake(p, K) \/ WakeAnd(p, K, a, at)
    PROVE  /\ pc' \in [Actor -> Places] /\ waits' \in [Proc -> SUBSET (Port \X Kinds)]
           /\ \A b \in Proc : 
                 \/ (pc'[b] = pc[b] \/ (b = a /\ pc'[b] = at)) /\ waits'[b] = waits[b]
                 \/ pc[b] = "blocked" /\ ((b = a /\ pc'[b] = at) \/ pc'[b] = Resumed(b)) /\ waits'[b] = {}
           /\ a # Kernel => pc'[Kernel] = pc[Kernel]
           /\ Wake(p, K) => pc'[Kernel] = pc[Kernel]
           /\ WakeAnd(p, K, a, at) => pc'[a] = at
<1>1. ASSUME NEW b \in Proc PROVE b \in Actor
  BY ProcActor, Zenon
<1>2. pc' \in [Actor -> Places]
  <2>1. CASE Wake(p, K)
    <3>1. pc' = [b \in Actor |-> IF b \in Woken(p, K) THEN Resumed(b) ELSE pc[b]]
      BY <2>1, Zenon DEF Wake
    <3>2. \A b \in Actor : (IF b \in Woken(p, K) THEN Resumed(b) ELSE pc[b]) \in Places
      BY ResumedIn, Zenon DEF ProcType
    <3> QED BY <3>1, <3>2, Zenon
  <2>2. CASE WakeAnd(p, K, a, at)
    <3>1. pc' = [b \in Actor |-> IF b = a THEN at ELSE IF b \in Woken(p, K) THEN Resumed(b) ELSE pc[b]]
      BY <2>2, Zenon DEF WakeAnd
    <3>2. \A b \in Actor : (IF b = a THEN at ELSE IF b \in Woken(p, K) THEN Resumed(b) ELSE pc[b]) \in Places
      BY ResumedIn, Zenon DEF ProcType
    <3> QED BY <3>1, <3>2, Zenon
  <2> QED BY <2>1, <2>2
<1>3. /\ waits' \in [Proc -> SUBSET (Port \X Kinds)]
      /\ \A b \in Proc : waits'[b] = IF b \in Woken(p, K) THEN {} ELSE waits[b]
  <2>1. waits' = [b \in Proc |-> IF b \in Woken(p, K) THEN {} ELSE waits[b]]
    BY Zenon DEF Wake, WakeAnd
  <2>2. \A b \in Proc : (IF b \in Woken(p, K) THEN {} ELSE waits[b]) \in SUBSET (Port \X Kinds)
    BY Zenon DEF ProcType
  <2> QED BY <2>1, <2>2, Zenon
<1>4. ASSUME NEW b \in Proc
      PROVE  \/ (pc'[b] = pc[b] \/ (b = a /\ pc'[b] = at)) /\ waits'[b] = waits[b]
             \/ pc[b] = "blocked" /\ ((b = a /\ pc'[b] = at) \/ pc'[b] = Resumed(b)) /\ waits'[b] = {}
  <2>1. b \in Woken(p, K) => pc[b] = "blocked"
    BY Zenon DEF Woken
  <2>2. CASE Wake(p, K)
    BY <1>1, <1>3, <2>1, <2>2, Zenon DEF Wake
  <2>3. CASE WakeAnd(p, K, a, at)
    BY <1>1, <1>3, <2>1, <2>3, Zenon DEF WakeAnd
  <2> QED BY <2>2, <2>3
<1>5. Kernel \notin Woken(p, K)
  BY ProcActor, Zenon DEF Woken
<1>6. /\ a # Kernel => pc'[Kernel] = pc[Kernel]
      /\ Wake(p, K) => pc'[Kernel] = pc[Kernel]
      /\ WakeAnd(p, K, a, at) => pc'[a] = at
  BY <1>5, ProcActor, Zenon DEF Wake, WakeAnd
<1> QED BY <1>2, <1>3, <1>4, <1>6

(* The actor of a task stays in its region, with fewer tasks or other ones. *)
LEMMA TaskTurn ==
    ASSUME SetFacts, PlaceInv, NEW a \in Actor, Task(a), ~RegionDone(a)
    PROVE  /\ wide = a /\ pc[a] = "region" /\ stack # <<>>
           /\ UNCHANGED <<local, wide, depth, after>>
           /\ pc' \in [Actor -> Places] /\ waits' \in [Proc -> SUBSET (Port \X Kinds)]
           /\ pc'[a] = pc[a] /\ (a \in Proc => waits'[a] = waits[a])
           /\ pc'[Kernel] = pc[Kernel]
           /\ UNCHANGED <<pc, waits>> \/ \E p \in Port : \E K : Wake(p, K)
<1>0. ProcType
  BY DEF PlaceInv
<1>1. /\ wide = a /\ stack # <<>> /\ UNCHANGED <<local, wide, depth, after>>
      /\ UNCHANGED <<pc, waits>> \/ \E p \in Port : \E K : Wake(p, K)
  <2>1. CASE right_drop(a)
    BY <2>1, DropForm, Zenon
  <2>2. CASE release_inflight(a)
    BY <2>2, ReleaseForm, Zenon
  <2>3. CASE reap_dead_timers(a)
    BY <2>3, ReapForm, Zenon
  <2>4. CASE expire(a)
    <3>1. \/ UNCHANGED <<pc, waits>>
          \/ \E t \in Timer : timers[t] \in Port /\ Wake(timers[t], {"recv", "hup"})
      BY <2>4, ExpireForm, Zenon
    <3>2. wide = a /\ stack # <<>> /\ UNCHANGED <<local, wide, depth, after>>
      BY <2>4, ExpireForm, Zenon
    <3> QED BY <3>1, <3>2, Zenon
  <2>5. CASE timer_arm(a)
    BY <2>5, ArmForm, Zenon
  <2>6. CASE port_hangup(a)
    <3>1. Head(stack).port \in Port
      <4>1. wide = a /\ stack # <<>> /\ Head(stack).op = "hangup"
        BY <2>6, Zenon DEF port_hangup
      <4>2. Head(stack) \in Tasks
        BY <4>1, TopTask, Zenon
      <4> QED BY <4>1, <4>2, TaskFields, Zenon
    <3> QED BY <2>6, <3>1, Zenon DEF port_hangup, EveryoneLooks
  <2>7. CASE port_free(a) \/ msg_free(a) \/ port_flush(a)
    BY <2>7, Zenon DEF port_free, msg_free, port_flush
  <2> QED BY <2>1, <2>2, <2>3, <2>4, <2>5, <2>6, <2>7, Zenon DEF Task
<1>2. pc[a] = "region"
  BY <1>1, TopTask, Zenon
<1>3. CASE UNCHANGED <<pc, waits>>
  BY <1>0, <1>1, <1>2, <1>3, Zenon DEF ProcType
<1>4. CASE \E p \in Port : \E K : Wake(p, K)
  <2>a. PICK p \in Port : \E K : Wake(p, K)
    BY <1>4
  <2>1. PICK K : Wake(p, K)
    BY <2>a
  <2>2. "region" \in Places
    BY DEF Places
  <2>3. /\ pc' \in [Actor -> Places] /\ waits' \in [Proc -> SUBSET (Port \X Kinds)]
        /\ pc'[Kernel] = pc[Kernel]
    BY <1>0, <2>1, <2>2, WakeTurn, Zenon
  <2>4. a \in Proc => pc'[a] = pc[a] /\ waits'[a] = waits[a]
    <3>1. a \notin Woken(p, K)
      BY <1>2, Zenon DEF Woken
    <3> QED BY <2>1, <3>1, Zenon DEF Wake
  <2>5. a \in Proc \/ a = Kernel
    BY Zenon DEF Actor
  <2> QED BY <1>1, <1>2, <2>1, <2>3, <2>4, <2>5, Zenon
<1> QED BY <1>1, <1>3, <1>4

(* The locals a syscall starts with. *)
LEMMA IdleLocal == Idle \in Locals /\ Plain(Idle) /\ ~Idle.outer
BY PortsAssumption, SMT DEF Idle, Locals, Plain

(* The handle right_new takes. *)
LEMMA FreeHandle ==
    ASSUME SetFacts, NEW a, Free(a) # {}
    PROVE  Lowest(Free(a)) \in Handle /\ rights[a][Lowest(Free(a))] = NoRight
<1>1. Free(a) \in SUBSET Nat
  BY Ranges, Zenon DEF Free
<1>2. Lowest(Free(a)) \in Free(a)
  BY <1>1, LowestIn, Zenon
<1> QED BY <1>2, Zenon DEF Free

(* Between two syscalls a proc has nothing in its hands. *)
LEMMA HandsAtRun ==
    ASSUME NEW l, Plain(l), ~l.outer, NEW R, NEW t
    PROVE  /\ InHand("run", l, R, t) /\ InHand("blocked", l, R, t)
           /\ InHand("region", l, R, "run") /\ InHand("region", l, R, "dead")
BY Zenon DEF InHand, Plain, Owns

(* A right in the table is one of those its proc has to that port. *)
LEMMA MineOf ==
    ASSUME NEW a, NEW h \in Handle, rights[a][h] # NoRight
    PROVE  Mine(a, rights[a][h].port) # {}
BY Zenon DEF Mine

(* The caller's region ends, and so does its part of the region. *)
LEMMA NoTasks ==
    ASSUME PlaceInv, NEW a \in Actor, wide = a, pc[a] # "region"
    PROVE  stack = <<>>
BY Zenon DEF PlaceInv, Regions
----------------------------------------------------------------------------
(* A count moved by one stays an integer. *)
LEMMA CountPorts ==
    ASSUME PortType, NEW p \in Port, NEW r, Count(p, r)
    PROVE  nrights' \in [Port -> Int] /\ nrecv' \in [Port -> Int]
BY SMT DEF PortType, Count

(* The steps of the tasks keep the ports well. *)
LEMMA PortsTask ==
    ASSUME SetFacts, PlaceInv, NEW self \in Actor, Task(self)
    PROVE  PortType' /\ Emptied'
<1>UnrefPorts. ASSUME PortType, Emptied, NEW p \in Port, NEW n \in Int, NEW q \in Seq(MsgId), NEW rest,
                      port_unref(p, n, q, rest), dead[p] => q = <<>>
               PROVE  PortType' /\ Emptied'
  <2> USE <1>UnrefPorts
  <2>1. nrights' \in [Port -> Int] /\ nrecv' \in [Port -> Int]
    BY SMT DEF PortType, port_unref, Unref
  <2>2. dead' \in [Port -> BOOLEAN] /\ used' \in SUBSET Port
    BY Zenon DEF PortType, port_unref, Unref
  <2>3. queue' \in [Port -> Seq(MsgId)]
    <3>1. <<>> \in Seq(MsgId)
      BY SMT
    <3> QED BY <3>1, Zenon DEF PortType, port_unref, Unref
  <2>4. ASSUME NEW x \in Port, dead'[x] PROVE queue'[x] = <<>>
    <3>1. CASE x # p
      <4>1. dead'[x] = dead[x] /\ queue'[x] = queue[x]
        BY <3>1, Zenon DEF PortType, port_unref, Unref
      <4> QED BY <2>4, <4>1 DEF Emptied
    <3>2. CASE x = p /\ dead[p]
      BY <3>2, Zenon DEF PortType, port_unref, Unref
    <3>3. CASE x = p /\ ~dead[p]
      <4>1. n = 0 /\ ~dead[p]
        BY <2>4, <3>3, Zenon DEF PortType, port_unref, Unref
      <4> QED BY <3>3, <4>1, Zenon DEF PortType, port_unref, Unref
    <3> QED BY <3>1, <3>2, <3>3
  <2> QED BY <2>1, <2>2, <2>3, <2>4, Zenon DEF PortType, Emptied
<1>LessInt. ASSUME PortType, NEW p \in Port, NEW r PROVE Less(p, r) \in Int
  BY <1>LessInt, SMT DEF PortType, Less
<1>PortsTask. ASSUME SetFacts, PlaceInv, NEW a \in Actor, Task(a)
              PROVE  PortType' /\ Emptied'
  <2> USE <1>PortsTask
  <2>0. PortType /\ Emptied /\ HolderType
    BY DEF PlaceInv
  <2>1. \A p \in Port : queue[p] \in Seq(MsgId) /\ (dead[p] => queue[p] = <<>>)
    BY <2>0, Zenon DEF PortType, Emptied
  <2>2. CASE right_drop(a)
    <3>1. PICK h \in Handle, rest \in Seq(Tasks) :
             /\ rights[a][h] \in Right
             /\ port_unref(rights[a][h].port, Less(rights[a][h].port, rights[a][h].recv),
                           queue[rights[a][h].port], rest)
      BY <2>2, DropForm, Zenon
    <3>2. rights[a][h].port \in Port
      BY <3>1 DEF Right
    <3> QED BY <2>0, <2>1, <3>1, <3>2, <1>LessInt, <1>UnrefPorts, Zenon
  <2>3. CASE release_inflight(a)
    <3>1. PICK m \in MsgId, j \in Slot :
             /\ refs[m][j] \in Right
             /\ port_unref(refs[m][j].port, Less(refs[m][j].port, refs[m][j].recv),
                           queue[refs[m][j].port], stack)
      BY <2>3, ReleaseForm, Zenon
    <3>2. refs[m][j].port \in Port
      BY <3>1 DEF Right
    <3> QED BY <2>0, <2>1, <3>1, <3>2, <1>LessInt, <1>UnrefPorts, Zenon
  <2>4. CASE reap_dead_timers(a)
    <3>1. CASE UNCHANGED portVars
      BY <2>0, <3>1, Zenon DEF PortType, Emptied, portVars
    <3>2. CASE ~UNCHANGED portVars
      <4>1. PICK t \in Timer :
               /\ timers[t] \in Port
               /\ port_unref(timers[t], nrecv[timers[t]], queue[timers[t]],
                             <<Reap(t + 1)>> \o Tail(stack))
        BY <2>4, <3>2, ReapForm, Zenon
      <4>2. nrecv[timers[t]] \in Int
        BY <2>0, <4>1, Zenon DEF PortType
      <4> QED BY <2>0, <2>1, <4>1, <4>2, <1>UnrefPorts, Zenon
    <3> QED BY <3>1, <3>2
  <2>5. CASE expire(a)
    <3>1. CASE UNCHANGED portVars
      BY <2>0, <3>1, Zenon DEF PortType, Emptied, portVars
    <3>2. CASE ~UNCHANGED portVars
      <4>1. PICK t \in Timer, S \in SUBSET Timer, q \in Seq(MsgId) :
               /\ timers[t] \in Port
               /\ port_unref(timers[t], nrecv[timers[t]], q, <<Expire(S)>> \o Tail(stack))
               /\ q = queue[timers[t]] \/ ~dead[timers[t]]
        BY <2>5, <3>2, ExpireForm, Zenon
      <4>2. nrecv[timers[t]] \in Int
        BY <2>0, <4>1, Zenon DEF PortType
      <4> QED BY <2>0, <2>1, <4>1, <4>2, <1>UnrefPorts, Zenon
    <3> QED BY <3>1, <3>2
  <2>6. CASE timer_arm(a)
    <3>1. UNCHANGED <<used, nrecv, dead, queue>>
      BY <2>6, ArmForm, Zenon
    <3>2. nrights' \in [Port -> Int]
      <4>1. nrights' = nrights \/ \E p \in Port : nrights' = [nrights EXCEPT ![p] = @ + 1]
        BY <2>6, ArmForm, Zenon
      <4> QED BY <2>0, <4>1, SMT DEF PortType
    <3> QED BY <2>0, <3>1, <3>2, Zenon DEF PortType, Emptied
  <2>7. CASE port_free(a)
    BY <2>0, <2>7, Zenon DEF port_free, PortType, Emptied
  <2>8. CASE msg_free(a) \/ port_flush(a) \/ port_hangup(a) \/ RegionDone(a)
    <3>1. UNCHANGED portVars
      BY <2>8, Zenon DEF msg_free, port_flush, port_hangup, RegionDone
    <3> QED BY <2>0, <3>1, Zenon DEF PortType, Emptied, portVars
  <2> QED BY <2>2, <2>3, <2>4, <2>5, <2>6, <2>7, <2>8, Zenon DEF Task
<1> QED BY <1>PortsTask, Zenon

(* A port loses its first message, or gets one more. *)
LEMMA PopPorts ==
    ASSUME PortType, Emptied, NEW p \in Port, queue[p] # <<>>,
           UNCHANGED <<used, nrights, nrecv, dead>>, queue' = [queue EXCEPT ![p] = Tail(@)]
    PROVE  PortType' /\ Emptied' /\ Head(queue[p]) \in MsgId
<1>1. Tail(queue[p]) \in Seq(MsgId) /\ Head(queue[p]) \in MsgId
  <2>1. queue[p] \in Seq(MsgId)
    BY Zenon DEF PortType
  <2> QED BY <2>1, SMT
<1>2. PortType'
  BY <1>1, Zenon DEF PortType
<1>3. ~dead[p]
  BY Zenon DEF Emptied
<1>4. Emptied'
  BY <1>3, Zenon DEF PortType, Emptied
<1> QED BY <1>1, <1>2, <1>4

(* So do the syscalls. *)
LEMMA PortsCall ==
    ASSUME SetFacts, PlaceInv, NEW self \in Proc, Call(self)
    PROVE  PortType' /\ Emptied'
<1>NewPorts. ASSUME PortType, Emptied, NEW a, NEW p \in Port, NEW n \in Int, port_new(a, p), NewCounts(p, n)
             PROVE  PortType' /\ Emptied'
  <2> USE <1>NewPorts
  <2>1. <<>> \in Seq(MsgId)
    BY SMT
  <2>2. PortType'
    BY <2>1, Zenon DEF PortType, port_new, NewCounts
  <2>3. Emptied'
    BY <2>1, Zenon DEF PortType, Emptied, port_new
  <2> QED BY <2>2, <2>3
<1>PortsCall. ASSUME SetFacts, PlaceInv, NEW a \in Proc, Call(a)
              PROVE  PortType' /\ Emptied'
  <2> USE <1>PortsCall
  <2>0. PortType /\ Emptied /\ HolderType
    BY DEF PlaceInv
  <2>q. ASSUME UNCHANGED portVars PROVE PortType' /\ Emptied'
    BY <2>0, <2>q, Zenon DEF PortType, Emptied, portVars
  <2>1. CASE \E p \in Port : api_newport(a, p) \/ api_timer(a, p)
    <3>1. PICK p \in Port : port_new(a, p) /\ (NewCounts(p, 0) \/ NewCounts(p, 1))
      BY <2>1, Zenon DEF api_newport, api_timer
    <3>2. 0 \in Int /\ 1 \in Int
      BY SMT
    <3> QED BY <2>0, <3>1, <3>2, <1>NewPorts, Zenon
  <2>2. CASE \E h \in Handle : api_sendright(a, h)
    <3>1. PICK h \in Handle : /\ rights[a][h] # NoRight /\ Count(rights[a][h].port, FALSE)
                              /\ UNCHANGED <<used, dead, queue>>
      BY <2>2, Zenon DEF api_sendright
    <3>2. nrights' \in [Port -> Int] /\ nrecv' \in [Port -> Int]
      BY <2>0, <3>1, RightOf, CountPorts, Zenon
    <3> QED BY <2>0, <3>1, <3>2, Zenon DEF PortType, Emptied
  <2>3. CASE \E h \in Handle : \/ api_close(a, h) \/ api_block(a, h) \/ api_sendblock(a, h)
                               \/ \E m \in MsgId : api_send(a, m, h)
                               \/ \E m \in MsgId, rh \in Handle : api_call(a, m, h, rh)
    <3>1. UNCHANGED portVars
      BY <2>3, Zenon DEF api_close, api_block, api_sendblock, Park, api_send, api_call, Build
    <3> QED BY <2>q, <3>1
  <2>4. CASE \E h \in Handle : api_tryrecv(a, h)
    <3>1. PICK h \in Handle : /\ rights[a][h] # NoRight /\ queue[rights[a][h].port] # <<>>
                              /\ queue' = [queue EXCEPT ![rights[a][h].port] = Tail(@)]
                              /\ UNCHANGED <<used, nrights, nrecv, dead>>
      BY <2>4, Zenon DEF api_tryrecv, RecvRight, port_pop
    <3> QED BY <2>0, <3>1, RightOf, PopPorts, Zenon
  <2>5. CASE \E C \in Cases : api_alt(a, C)
    <3>1. PICK C \in Cases : api_alt(a, C)
      BY <2>5
    <3>2. \A c \in C : c[1] \in Handle /\ rights[a][c[1]] # NoRight
      <4>1. \A c \in C : c \in Handle \X Kinds
        BY <3>1, SMT DEF Cases
      <4>2. \A c \in C : rights[a][c[1]] # NoRight
        BY <3>1, Zenon DEF api_alt
      <4> QED BY <4>1, <4>2, SMT
    <3>3. CASE UNCHANGED portVars
      BY <2>q, <3>3
    <3>4. CASE ~UNCHANGED portVars
      <4>1. PICK c \in C : /\ queue[rights[a][c[1]].port] # <<>>
                           /\ queue' = [queue EXCEPT ![rights[a][c[1]].port] = Tail(@)]
                           /\ UNCHANGED <<used, nrights, nrecv, dead>>
        BY <3>1, <3>4, Zenon DEF api_alt, alt_take, altready, port_pop, Park
      <4> QED BY <2>0, <3>2, <4>1, RightOf, PopPorts, Zenon
    <3> QED BY <3>3, <3>4
  <2>6. CASE proc_detach(a)
    <3>1. UNCHANGED portVars
      BY <2>6, Zenon DEF proc_detach
    <3> QED BY <2>q, <3>1
  <2> QED BY <2>1, <2>2, <2>3, <2>4, <2>5, <2>6, Zenon DEF Call
<1> QED BY <1>PortsCall, Zenon

(* So do the steps that follow a syscall. *)
LEMMA PortsOn ==
    ASSUME SetFacts, PlaceInv, NEW self \in Proc, Step(self)
    PROVE  PortType' /\ Emptied'
<1>PushPorts. ASSUME PortType, Emptied, NEW p \in Port, NEW m \in MsgId, ~dead[p],
                     UNCHANGED <<used, nrights, nrecv, dead>>, queue' = [queue EXCEPT ![p] = Append(@, m)]
              PROVE  PortType' /\ Emptied'
  <2> USE <1>PushPorts
  <2>1. Append(queue[p], m) \in Seq(MsgId)
    <3>1. queue[p] \in Seq(MsgId)
      BY Zenon DEF PortType
    <3> QED BY <3>1, SMT
  <2>2. PortType'
    BY <2>1, Zenon DEF PortType
  <2>3. Emptied'
    BY Zenon DEF PortType, Emptied
  <2> QED BY <2>2, <2>3
<1>PortsOn. ASSUME SetFacts, PlaceInv, NEW a \in Proc, Step(a)
            PROVE  PortType' /\ Emptied'
  <2> USE <1>PortsOn
  <2>0. PortType /\ Emptied /\ HolderType
    BY DEF PlaceInv
  <2>q. ASSUME UNCHANGED portVars PROVE PortType' /\ Emptied'
    BY <2>0, <2>q, Zenon DEF PortType, Emptied, portVars
  <2>1. CASE \E h \in Handle : serialize(a, h)
    <3>1. PICK h \in Handle : /\ rights[a][h] # NoRight
                              /\ Count(rights[a][h].port, rights[a][h].recv)
                              /\ UNCHANGED <<used, dead, queue>>
      BY <2>1, Zenon DEF serialize
    <3>2. nrights' \in [Port -> Int] /\ nrecv' \in [Port -> Int]
      BY <2>0, <3>1, RightOf, CountPorts, Zenon
    <3> QED BY <2>0, <3>1, <3>2, Zenon DEF PortType, Emptied
  <2>2. CASE port_push_owned(a)
    <3>1. CASE queue' = queue
      BY <2>q, <2>2, <3>1, Zenon DEF port_push_owned, portVars
    <3>2. CASE queue' # queue
      <4> DEFINE p == rights[a][local[a].to].port
      <4>1. /\ pc[a] = "serialize" /\ ~dead[p] /\ queue' = [queue EXCEPT ![p] = Append(@, local[a].msg)]
            /\ UNCHANGED <<used, nrights, nrecv, dead>>
        BY <2>2, <3>2, Zenon DEF port_push_owned, Discarding
      <4>2. p \in Port /\ local[a].msg \in MsgId
        BY <4>1, SendOf, Zenon
      <4> QED BY <2>0, <4>1, <4>2, <1>PushPorts, Zenon
    <3> QED BY <3>1, <3>2
  <2>3. CASE deserialize(a)
    <3> DEFINE r == refs[local[a].msg][local[a].next]
    <3>1. /\ pc[a] = "deserialize" /\ local[a].next \in Refs(local[a].msg)
          /\ Count(r.port, r.recv) /\ UNCHANGED <<used, dead, queue>>
      BY <2>3, Zenon DEF deserialize
    <3>2. r.port \in Port
      BY <2>0, <3>1, MessageOf, RefOf, Zenon DEF Refs
    <3>3. nrights' \in [Port -> Int] /\ nrecv' \in [Port -> Int]
      BY <2>0, <3>1, <3>2, CountPorts, Zenon
    <3> QED BY <2>0, <3>1, <3>3, Zenon DEF PortType, Emptied
  <2>4. CASE call_k(a)
    <3>1. CASE UNCHANGED portVars
      BY <2>q, <3>1
    <3>2. CASE ~UNCHANGED portVars
      <4> DEFINE p == rights[a][local[a].reply].port
      <4>1. /\ pc[a] = "call_k" /\ queue[p] # <<>> /\ queue' = [queue EXCEPT ![p] = Tail(@)]
            /\ UNCHANGED <<used, nrights, nrecv, dead>>
        BY <2>4, <3>2, Zenon DEF call_k, port_pop, Park
      <4> QED BY <2>0, <4>1, ReplyOf, PopPorts, Zenon
    <3> QED BY <3>1, <3>2
  <2>5. CASE alt_k(a)
    <3>1. CASE UNCHANGED portVars
      BY <2>q, <3>1
    <3>2. CASE ~UNCHANGED portVars
      <4>1. pc[a] = "alt_k" /\ alt_take(a, local[a].cases)
        BY <2>5, <3>2, Zenon DEF alt_k
      <4>2. PICK c \in local[a].cases : /\ queue[rights[a][c[1]].port] # <<>>
                           /\ queue' = [queue EXCEPT ![rights[a][c[1]].port] = Tail(@)]
                           /\ UNCHANGED <<used, nrights, nrecv, dead>>
        BY <3>2, <4>1, Zenon DEF alt_take, altready, port_pop
      <4> QED BY <2>0, <4>1, <4>2, CasesOf, PopPorts, Zenon
    <3> QED BY <3>1, <3>2
  <2>6. CASE serialize_fail(a) \/ deserialize_done(a) \/ deserialize_fail(a) \/ deserialize_raise(a)
    <3>1. UNCHANGED portVars
      BY <2>6, Zenon DEF serialize_fail, Discarding, deserialize_done, deserialize_fail,
                         deserialize_raise, portVars
    <3> QED BY <2>q, <3>1
  <2>7. CASE discard(a) \/ msg_dispose(a) \/ minted_undo(a) \/ Leave(a)
    <3>1. UNCHANGED portVars
      BY <2>7, Zenon DEF discard, msg_dispose, Release, minted_undo, Leave
    <3> QED BY <2>q, <3>1
  <2> QED BY <2>1, <2>2, <2>3, <2>4, <2>5, <2>6, <2>7, Zenon DEF Step
<1> QED BY <1>PortsOn, Zenon

----------------------------------------------------------------------------
(* The tables stay tables. *)
LEMMA HoldersTask ==
    ASSUME SetFacts, PlaceInv, NEW a \in Actor, Task(a)
    PROVE  HolderType'
<1>0. HolderType /\ NoRight \in Right \cup {NoRight} /\ NoPort \in Port \cup {NoPort}
  BY DEF PlaceInv
<1>1. CASE right_drop(a)
  <2>1. PICK h \in Handle : /\ a \in Proc /\ rights' = [rights EXCEPT ![a][h] = NoRight]
                            /\ nports' = Uncharge(a, rights[a][h].recv)
                            /\ rhint' = rhint \/ rhint' = [rhint EXCEPT ![a] = h]
                            /\ UNCHANGED <<refs, timers>>
    BY <1>1, DropForm, Zenon
  <2>2. rights' \in [Proc -> Table]
    BY <1>0, <2>1, Zenon DEF HolderType, Table
  <2>3. rhint' \in [Proc -> Nat]
    BY <1>0, <2>1, Ranges, Zenon DEF HolderType
  <2>4. nports' \in [Proc -> Int]
    BY <1>0, <2>1, SMT DEF HolderType, Uncharge
  <2> QED BY <1>0, <2>1, <2>2, <2>3, <2>4, Zenon DEF HolderType
<1>2. CASE release_inflight(a)
  <2>1. PICK m \in MsgId, j \in Slot : refs' = [refs EXCEPT ![m][j] = NoRight]
                                       /\ UNCHANGED <<tableVars, timers>>
    BY <1>2, ReleaseForm, Zenon
  <2> QED BY <1>0, <2>1, Zenon DEF HolderType, tableVars
<1>3. CASE reap_dead_timers(a)
  <2>1. /\ timers' = timers \/ \E t \in Timer : timers' = [timers EXCEPT ![t] = NoPort]
        /\ UNCHANGED <<tableVars, refs>>
    BY <1>3, ReapForm, Zenon
  <2> QED BY <1>0, <2>1, Zenon DEF HolderType, tableVars
<1>4. CASE expire(a)
  <2>1. /\ timers' = timers \/ \E t \in Timer : timers' = [timers EXCEPT ![t] = NoPort]
        /\ UNCHANGED <<tableVars, refs>>
    BY <1>4, ExpireForm, Zenon
  <2> QED BY <1>0, <2>1, Zenon DEF HolderType, tableVars
<1>5. CASE timer_arm(a)
  <2>1. /\ timers' = timers \/ \E t \in Timer, p \in Port : timers' = [timers EXCEPT ![t] = p]
        /\ UNCHANGED <<tableVars, refs>>
    BY <1>5, ArmForm, Zenon
  <2> QED BY <1>0, <2>1, Zenon DEF HolderType, tableVars
<1>6. CASE port_free(a) \/ msg_free(a) \/ port_flush(a) \/ port_hangup(a) \/ RegionDone(a)
  <2>1. UNCHANGED <<tableVars, refs, timers>>
    BY <1>6, Zenon DEF port_free, msg_free, port_flush, port_hangup, RegionDone
  <2> QED BY <1>0, <2>1, Zenon DEF HolderType, tableVars
<1> QED BY <1>1, <1>2, <1>3, <1>4, <1>5, <1>6, Zenon DEF Task

(* Every syscall and every step after it leaves the tables, or adds one    *)
(* right to the caller's, or one to its message.                           *)
LEMMA HoldersStep ==
    ASSUME SetFacts, PlaceInv, NEW a \in Proc, Call(a) \/ Step(a)
    PROVE  /\ timers' = timers
           /\ \/ UNCHANGED <<tableVars, refs>>
              \/ refs' = refs /\ \E p \in Port, recv \in BOOLEAN : Free(a) # {} /\ right_new(a, p, recv)
              \/ /\ UNCHANGED tableVars
                 /\ \E m \in MsgId, j \in Slot, r \in Right :
                       refs[m][j] = NoRight /\ refs' = [refs EXCEPT ![m][j] = r]
<1>0. HolderType
  BY DEF PlaceInv
<1>1. CASE \E p \in Port : api_newport(a, p) \/ api_timer(a, p)
  BY <1>1, Zenon DEF api_newport, api_timer
<1>2. CASE \E h \in Handle : api_sendright(a, h)
  <2>1. PICK h \in Handle : /\ rights[a][h] # NoRight /\ Free(a) # {}
                            /\ right_new(a, rights[a][h].port, FALSE)
                            /\ UNCHANGED <<refs, timers>>
    BY <1>2, Zenon DEF api_sendright
  <2>2. rights[a][h].port \in Port
    BY <1>0, <2>1, RightOf, Zenon
  <2> QED BY <2>1, <2>2, Zenon
<1>3. CASE \E h \in Handle : \/ api_close(a, h) \/ api_block(a, h) \/ api_sendblock(a, h)
                             \/ \E m \in MsgId : api_send(a, m, h)
                             \/ \E m \in MsgId, rh \in Handle : api_call(a, m, h, rh)
  BY <1>3, Zenon DEF api_close, api_block, api_sendblock, Park, api_send, api_call, Build
<1>4. CASE \E h \in Handle : api_tryrecv(a, h)
  BY <1>4, Zenon DEF api_tryrecv
<1>5. CASE (\E C \in Cases : api_alt(a, C)) \/ proc_detach(a)
  BY <1>5, Zenon DEF api_alt, alt_take, Park, proc_detach
<1>6. CASE \E h \in Handle : serialize(a, h)
  <2> DEFINE m == local[a].msg
             j == Lowest(FreeSlots(m))
  <2>1. PICK h \in Handle : /\ pc[a] = "serialize" /\ rights[a][h] # NoRight /\ FreeSlots(m) # {}
                            /\ refs' = [refs EXCEPT ![m][j] = rights[a][h]]
                            /\ UNCHANGED <<tableVars, timers>>
    BY <1>6, Zenon DEF serialize
  <2>2. rights[a][h] \in Right /\ m \in MsgId
    BY <1>0, <2>1, RightOf, SendOf, Zenon
  <2>3. FreeSlots(m) \in SUBSET Nat
    BY Ranges, Zenon DEF FreeSlots
  <2>4. j \in FreeSlots(m)
    BY <2>1, <2>3, LowestIn, Zenon
  <2>5. j \in Slot /\ refs[m][j] = NoRight
    BY <2>4, Zenon DEF FreeSlots, Refs
  <2> HIDE DEF m, j
  <2> QED BY <2>1, <2>2, <2>5, Zenon
<1>7. CASE deserialize(a)
  <2> DEFINE r == refs[local[a].msg][local[a].next]
  <2>1. /\ pc[a] = "deserialize" /\ local[a].next \in Refs(local[a].msg)
        /\ Free(a) # {} /\ right_new(a, r.port, r.recv) /\ UNCHANGED <<refs, timers>>
    BY <1>7, Zenon DEF deserialize
  <2>2. r.port \in Port /\ r.recv \in BOOLEAN
    BY <1>0, <2>1, MessageOf, RefOf, Zenon DEF Refs
  <2> HIDE DEF r
  <2> QED BY <2>1, <2>2, Zenon
<1>8. CASE serialize_fail(a) \/ port_push_owned(a) \/ call_k(a) \/ alt_k(a)
  BY <1>8, Zenon DEF serialize_fail, port_push_owned, call_k, alt_k, alt_take, Park
<1>9. CASE deserialize_done(a) \/ deserialize_fail(a) \/ deserialize_raise(a)
  BY <1>9, Zenon DEF deserialize_done, deserialize_fail, deserialize_raise
<1>10. CASE discard(a) \/ msg_dispose(a) \/ minted_undo(a) \/ Leave(a)
  BY <1>10, Zenon DEF discard, msg_dispose, Release, minted_undo, Leave
<1> QED BY <1>1, <1>2, <1>3, <1>4, <1>5, <1>6, <1>7, <1>8, <1>9, <1>10, Zenon DEF Call, Step

(* The steps of a syscall keep the tables, the messages and the timers well. *)
LEMMA HoldersOn ==
    ASSUME SetFacts, PlaceInv, NEW self \in Proc, Call(self) \/ Step(self)
    PROVE  HolderType'
(* right_new fills an empty slot of the caller's table. *)
<1>NewForm. ASSUME SetFacts, HolderType, NEW a \in Proc, NEW p \in Port, NEW recv \in BOOLEAN,
                   Free(a) # {}, right_new(a, p, recv)
            PROVE  LET h == Lowest(Free(a)) IN
                   /\ h \in Handle /\ rights[a][h] = NoRight
                   /\ rights' = [rights EXCEPT ![a][h] = [port |-> p, recv |-> recv]]
                   /\ [port |-> p, recv |-> recv] \in Right
                   /\ rights' \in [Proc -> Table]
                   /\ rhint' \in [Proc -> Nat] /\ nports' \in [Proc -> Int]
                   /\ \A b \in Proc \ {a} : rights'[b] = rights[b]
                   /\ \A g \in Handle : rights[a][g] # NoRight => rights'[a][g] # NoRight
                   /\ rights'[a][h] # NoRight
  <2> USE <1>NewForm
  <2> DEFINE h == Lowest(Free(a))
  <2>1. h \in Handle /\ rights[a][h] = NoRight
    <3>1. Free(a) \in SUBSET Nat
      BY Ranges, Zenon DEF Free
    <3>2. h \in Free(a)
      BY <3>1, LowestIn, Zenon
    <3> QED BY <3>2, Zenon DEF Free
  <2>2. [port |-> p, recv |-> recv] \in Right /\ [port |-> p, recv |-> recv] # NoRight
    BY PortsAssumption, SMT DEF Right
  <2>3. /\ rights' = [rights EXCEPT ![a][h] = [port |-> p, recv |-> recv]]
        /\ rhint' = [rhint EXCEPT ![a] = h + 1]
        /\ nports' = IF recv THEN [nports EXCEPT ![a] = @ + 1] ELSE nports
    BY Zenon DEF right_new
  <2> HIDE DEF h
  <2>4. rights \in [Proc -> Table] /\ rights[a] \in Table
    BY Zenon DEF HolderType
  <2>5. rights' \in [Proc -> Table] /\ \A b \in Proc \ {a} : rights'[b] = rights[b]
    BY <2>1, <2>2, <2>3, <2>4, Zenon DEF Table
  <2>6. rhint' \in [Proc -> Nat]
    <3>1. h + 1 \in Nat
      <4>1. h \in Nat
        BY <2>1, Ranges, Zenon
      <4> QED BY <4>1, SMT
    <3> QED BY <2>3, <3>1, Zenon DEF HolderType
  <2>7. nports' \in [Proc -> Int]
    BY <2>3, SMT DEF HolderType
  <2>8. /\ \A g \in Handle : rights[a][g] # NoRight => rights'[a][g] # NoRight
        /\ rights'[a][h] # NoRight
    BY <2>1, <2>2, <2>3, <2>4, Zenon DEF Table
  <2> QED BY <2>1, <2>2, <2>3, <2>5, <2>6, <2>7, <2>8, Zenon DEF h
<1>HoldersOn. ASSUME SetFacts, PlaceInv, NEW a \in Proc, Call(a) \/ Step(a)
              PROVE  HolderType'
  <2> USE <1>HoldersOn
  <2>0. HolderType
    BY DEF PlaceInv
  <2>1. CASE UNCHANGED <<tableVars, refs>>
    BY <2>0, <2>1, HoldersStep, Zenon DEF HolderType, tableVars
  <2>2. CASE refs' = refs /\ \E p \in Port, recv \in BOOLEAN : Free(a) # {} /\ right_new(a, p, recv)
    <3>1. PICK p \in Port, recv \in BOOLEAN : Free(a) # {} /\ right_new(a, p, recv)
      BY <2>2
    <3>2. rights' \in [Proc -> Table] /\ rhint' \in [Proc -> Nat] /\ nports' \in [Proc -> Int]
      BY <2>0, <3>1, <1>NewForm, Zenon
    <3> QED BY <2>0, <2>2, <3>2, HoldersStep, Zenon DEF HolderType
  <2>3. CASE UNCHANGED tableVars /\ \E m \in MsgId, j \in Slot, r \in Right : refs' = [refs EXCEPT ![m][j] = r]
    <3>1. refs' \in [MsgId -> [Slot -> Right \cup {NoRight}]]
      <4>1. PICK m \in MsgId, j \in Slot, r \in Right : refs' = [refs EXCEPT ![m][j] = r]
        BY <2>3, Zenon
      <4>2. r \in Right \cup {NoRight}
        OBVIOUS
      <4> QED BY <2>0, <4>1, <4>2, Zenon DEF HolderType
    <3>2. timers' = timers
      BY HoldersStep, Zenon
    <3> QED BY <2>0, <2>3, <3>1, <3>2, Zenon DEF HolderType, tableVars
  <2> QED BY <2>1, <2>2, <2>3, HoldersStep, Zenon
<1> QED BY <1>HoldersOn, Zenon

----------------------------------------------------------------------------
(* How a step of an actor treats the wide region: not at all, around its   *)
(* syscall, with tasks to do, on the way out, and from task to task.       *)
RegionStep(a) ==
    \/ /\ pc[a] # "region" /\ pc'[a] # "region" /\ UNCHANGED regionVars
       /\ local'[a].outer => local[a].outer
    \/ /\ pc[a] # "region" /\ pc'[a] # "region" /\ ipclock_enter(a) /\ UNCHANGED <<stack, after>>
    \/ /\ pc[a] # "region" /\ pc'[a] = "region" /\ ipclock_enter(a)
       /\ after' \in Places /\ stack' \in Seq(Tasks) /\ Fits(stack', a, rights')
       /\ local'[a].outer => local[a].outer
    \/ /\ wide = a /\ stack = <<>> /\ pc'[a] # "region" /\ ipclock_leave(a)
       /\ UNCHANGED <<stack, after>>
       /\ local'[a].outer => local[a].outer /\ depth > 1
    \/ /\ wide = a /\ pc[a] = "region" /\ pc'[a] = "region" /\ UNCHANGED <<wide, depth, after, local>>
       /\ stack' \in Seq(Tasks) /\ Fits(stack', a, rights')

(* What a step of one actor has to be for the invariant to be kept. *)
Moved(a) ==
    /\ Turn(a) /\ ProcType' /\ RegionStep(a)
    /\ a \in Proc =>
          /\ InHand(pc'[a], local'[a], rights'[a], after')
          /\ waits'[a] # {} <=> pc'[a] = "blocked"
          /\ \A w \in waits'[a] : Mine(a, w[1])' # {}
    /\ a = Kernel => Loop'

(* A step of that shape keeps the whole of PlaceInv. *)
LEMMA MovedKeeps ==
    ASSUME PlaceInv, NEW actor \in Actor, Moved(actor), PortType', HolderType', Emptied'
    PROVE  PlaceInv'
<1>RegionKept. ASSUME PlaceInv, NEW self \in Actor, Turn(self), RegionStep(self)
               PROVE  RegionType' /\ Regions' /\ Fits(stack', wide', rights')
  (* Another actor is in a region before the step exactly when it is after. *)
  <2>OthersInRegion. ASSUME NEW a \in Actor, NEW b \in Actor, b # a, Turn(a)
                     PROVE  /\ pc'[b] = "region" <=> pc[b] = "region"
                            /\ local'[b] = local[b]
    <3> USE <2>OthersInRegion
    <3>1. CASE b \in Proc
      BY <3>1, ResumedIn, Zenon DEF Turn, ResumedAt
    <3>2. CASE b \notin Proc
      BY <3>2, Zenon DEF Turn, Actor
    <3> QED BY <3>1, <3>2
  <2>RegionTypeKept. ASSUME RegionType, Regions, NEW a \in Actor, RegionStep(a)
                     PROVE  RegionType'
    <3> USE <2>RegionTypeKept
    <3>1. depth + 1 \in Nat /\ (depth > 0 => depth - 1 \in Nat)
      BY SMT DEF RegionType
    <3>2. wide = a => depth > 0
      BY ProcActor, Zenon DEF Regions
    <3> QED BY <3>1, <3>2, Zenon DEF RegionType, RegionStep, ipclock_enter, ipclock_leave, regionVars
  (* A region that fits when it is not this actor's goes on fitting. *)
  <2>FitsFrame. ASSUME NEW s \in Seq(Tasks), NEW w, NEW R, NEW R2, Fits(s, w, R),
                       w \in Proc => R2[w] = R[w]
                PROVE  Fits(s, w, R2)
    <3> USE <2>FitsFrame
    <3>1. ASSUME NEW i \in 1 .. Len(s) PROVE TaskFits(s[i], w, R2)
      <4>1. TaskFits(s[i], w, R)
        BY Zenon DEF Fits
      <4>2. s[i] \in Tasks
        BY SMT
      <4>3. s[i].op \in {"drop", "arm"} => s[i].proc \in Proc
        BY <4>2, TaskFields, Zenon
      <4> QED BY <4>1, <4>3, Zenon DEF TaskFits
    <3> QED BY <3>1, Zenon DEF Fits
  <2>RegionKept. ASSUME PlaceInv, NEW a \in Actor, Turn(a), RegionStep(a)
                 PROVE  RegionType' /\ Regions' /\ Fits(stack', wide', rights')
    <3> USE <2>RegionKept
    <3>0. /\ RegionType /\ Regions /\ Fits(stack, wide, rights) /\ NoProc \notin Actor
          /\ stack \in Seq(Tasks) /\ depth \in Nat
      BY ProcActor, Zenon DEF PlaceInv, RegionType
    <3>1. RegionType'
      BY <3>0, <2>RegionTypeKept, Zenon
    <3>2. ASSUME NEW b \in Actor, b # a
          PROVE  (pc'[b] = "region" <=> pc[b] = "region") /\ local'[b] = local[b]
      BY <3>2, <2>OthersInRegion, Zenon
    <3>3. \A b \in Actor : /\ (pc[b] = "region" \/ local[b].outer => wide = b)
                           /\ (pc[b] = "region" /\ local[b].outer => depth > 1)
      BY <3>0, Zenon DEF Regions
    <3>4. /\ wide = NoProc => depth = 0 /\ stack = <<>>
          /\ wide # NoProc => depth > 0
          /\ stack # <<>> => wide \in Actor /\ pc[wide] = "region"
      BY <3>0, Zenon DEF Regions, RegionType
    <3>5. CASE /\ pc[a] # "region" /\ pc'[a] # "region" /\ UNCHANGED regionVars
               /\ local'[a].outer => local[a].outer
      <4>1. UNCHANGED <<wide, depth, stack, after>>
        BY <3>5 DEF regionVars
      <4>2. Regions'
        <5>1. \A b \in Actor : pc'[b] = "region" \/ local'[b].outer => wide = b
          BY <3>2, <3>3, <3>5, Zenon
        <5>2. \A b \in Actor : pc'[b] = "region" /\ local'[b].outer => depth > 1
          BY <3>2, <3>3, <3>5, Zenon
        <5>3. stack # <<>> => wide # NoProc /\ pc'[wide] = "region"
          BY <3>0, <3>2, <3>4, <3>5, Zenon
        <5> QED BY <3>4, <4>1, <5>1, <5>2, <5>3, Zenon DEF Regions
      <4>3. Fits(stack, wide, rights')
        <5>1. CASE stack = <<>>
          BY <5>1, FitsNone, Zenon
        <5>2. CASE stack # <<>>
          <6>1. wide # a /\ wide \in Actor
            BY <3>4, <3>5, <5>2
          <6>2. wide \in Proc => rights'[wide] = rights[wide]
            BY <6>1, Zenon DEF Turn
          <6> QED BY <3>0, <6>2, <2>FitsFrame, Zenon
        <5> QED BY <5>1, <5>2
      <4> QED BY <3>1, <4>1, <4>2, <4>3, Zenon
    <3>6. CASE /\ pc[a] # "region" /\ pc'[a] # "region" /\ ipclock_enter(a) /\ UNCHANGED <<stack, after>>
      <4>1. wide' = a /\ depth' = depth + 1 /\ stack' = <<>> /\ wide \in {NoProc, a}
        BY <3>4, <3>6, Zenon DEF ipclock_enter, MayLock
      <4>2. depth' > 0
        BY <3>0, <4>1, SMT
      <4>3. \A b \in Actor : pc'[b] = "region" \/ local'[b].outer => b = a
        BY <3>0, <3>2, <3>3, <4>1, Zenon
      <4>4. Regions'
        BY <3>0, <3>6, <4>1, <4>2, <4>3, Zenon DEF Regions
      <4> QED BY <3>1, <4>1, <4>4, FitsNone, Zenon
    <3>7. CASE /\ pc[a] # "region" /\ pc'[a] = "region" /\ ipclock_enter(a)
               /\ Fits(stack', a, rights')
               /\ local'[a].outer => local[a].outer
      <4>1. wide' = a /\ depth' = depth + 1 /\ wide \in {NoProc, a}
        BY <3>7, Zenon DEF ipclock_enter, MayLock
      <4>2. depth' > 0 /\ (depth > 0 => depth' > 1)
        BY <3>0, <4>1, SMT
      <4>3. \A b \in Actor : pc'[b] = "region" \/ local'[b].outer => b = a
        BY <3>0, <3>2, <3>3, <4>1, Zenon
      <4>4. local'[a].outer => depth' > 1
        BY <3>0, <3>3, <3>4, <3>7, <4>2, Zenon
      <4>5. Regions'
        BY <3>0, <3>7, <4>1, <4>2, <4>3, <4>4, Zenon DEF Regions
      <4> QED BY <3>1, <3>7, <4>1, <4>5, Zenon
    <3>8. CASE /\ wide = a /\ stack = <<>> /\ pc'[a] # "region" /\ ipclock_leave(a)
               /\ UNCHANGED <<stack, after>>
               /\ local'[a].outer => local[a].outer /\ depth > 1
      <4>1. wide' = (IF depth = 1 THEN NoProc ELSE a) /\ depth' = depth - 1 /\ stack' = <<>>
        BY <3>8, Zenon DEF ipclock_leave
      <4>2. depth > 0
        BY <3>0, <3>4, <3>8, Zenon
      <4>3. (depth = 1 => depth' = 0) /\ (depth # 1 => depth' > 0) /\ (depth > 1 => depth # 1)
        BY <3>0, <4>1, <4>2, SMT
      <4>4. \A b \in Actor : pc'[b] = "region" \/ local'[b].outer => wide' = b
        BY <3>2, <3>3, <3>8, <4>1, <4>3, Zenon
      <4>5. \A b \in Actor : ~(pc'[b] = "region" /\ local'[b].outer)
        BY <3>2, <3>3, <3>8, Zenon
      <4>6. Regions'
        BY <3>0, <4>1, <4>3, <4>4, <4>5, Zenon DEF Regions
      <4> QED BY <3>1, <4>1, <4>6, FitsNone, Zenon
    <3>9. CASE /\ wide = a /\ pc[a] = "region" /\ pc'[a] = "region"
               /\ UNCHANGED <<wide, depth, after, local>> /\ Fits(stack', a, rights')
      <4>1. \A b \in Actor : (pc'[b] = "region" <=> pc[b] = "region")
        BY <3>2, <3>9, Zenon
      <4>2. Regions'
        BY <3>0, <3>9, <4>1, Zenon DEF Regions
      <4> QED BY <3>1, <3>9, <4>2, Zenon
    <3> QED BY <3>5, <3>6, <3>7, <3>8, <3>9, Zenon DEF RegionStep
  <2> QED BY <1>RegionKept, <2>RegionKept, Zenon
(* Who is resumed has in hand what it goes on to use, and who is not in a  *)
(* region does not depend on where the region ends.                        *)
<1>HandsOfResumed. ASSUME NEW a, NEW R, NEW t, NEW u, InHand("blocked", local[a], R, t)
                   PROVE  InHand(Resumed(a), local[a], R, u)
  BY <1>HandsOfResumed, Zenon DEF InHand, Resumed, Plain
<1>HandsOfOther. ASSUME NEW at, NEW l, NEW R, NEW t, NEW u, InHand(at, l, R, t), at # "region"
                 PROVE  InHand(at, l, R, u)
  BY <1>HandsOfOther, Zenon DEF InHand
<1>AfterKept. ASSUME PlaceInv, NEW a \in Actor, NEW b \in Actor, b # a, RegionStep(a), pc[b] = "region"
              PROVE  after' = after
  <2> USE <1>AfterKept
  <2>1. wide = b
    BY Zenon DEF PlaceInv, Regions
  <2>2. ~MayLock(a)
    BY <2>1, ProcActor, Zenon DEF MayLock
  <2> QED BY <2>2, Zenon DEF RegionStep, ipclock_enter, regionVars
<1>MovedKeeps. ASSUME PlaceInv, NEW a \in Actor, Moved(a), PortType', HolderType', Emptied'
               PROVE  PlaceInv'
  <2> USE <1>MovedKeeps
  <2>0. Turn(a) /\ RegionStep(a) /\ ProcType' /\ Proc \subseteq Actor
    BY ProcActor, Zenon DEF Moved
  <2>1. RegionType' /\ Regions' /\ Fits(stack', wide', rights')
    BY <2>0, <1>RegionKept, Zenon
  <2>2. ASSUME NEW b \in Proc \ {a} 
        PROVE  \/ pc'[b] = pc[b] /\ waits'[b] = waits[b]
               \/ pc[b] = "blocked" /\ pc'[b] = Resumed(b) /\ waits'[b] = {}
    BY <2>0, Zenon DEF Turn
  <2>3. ASSUME NEW b \in Proc \ {a} PROVE local'[b] = local[b] /\ rights'[b] = rights[b]
    BY <2>0, Zenon DEF Turn
  <2>4. ASSUME NEW b \in Proc PROVE InHand(pc'[b], local'[b], rights'[b], after')
    <3>1. CASE b = a
      BY <3>1, Zenon DEF Moved
    <3>2. CASE b # a
      <4>1. InHand(pc[b], local[b], rights[b], after)
        BY Zenon DEF PlaceInv, Hands
      <4>2. CASE pc[b] = "blocked" /\ pc'[b] = Resumed(b)
        BY <2>3, <3>2, <4>1, <4>2, <1>HandsOfResumed, Zenon
      <4>3. CASE pc'[b] = pc[b] /\ pc[b] # "region"
        BY <2>3, <3>2, <4>1, <4>3, <1>HandsOfOther, Zenon
      <4>4. CASE pc'[b] = pc[b] /\ pc[b] = "region"
        BY <2>0, <2>3, <3>2, <4>1, <4>4, <1>AfterKept, Zenon
      <4> QED BY <2>2, <3>2, <4>2, <4>3, <4>4
    <3> QED BY <3>1, <3>2
  <2>5. ASSUME NEW b \in Proc
        PROVE  /\ waits'[b] # {} <=> pc'[b] = "blocked"
               /\ \A w \in waits'[b] : Mine(b, w[1])' # {}
    <3>1. CASE b = a
      BY <3>1, Zenon DEF Moved
    <3>2. CASE b # a
      <4>1. /\ waits[b] # {} <=> pc[b] = "blocked"
            /\ \A w \in waits[b] : Mine(b, w[1]) # {}
        BY Zenon DEF PlaceInv, Linked
      <4>2. \A p : Mine(b, p)' = Mine(b, p)
        BY <2>3, <3>2, Zenon DEF Mine
      <4>3. Resumed(b) # "blocked"
        BY ResumedIn, Zenon DEF ResumedAt
      <4> QED BY <2>2, <3>2, <4>1, <4>2, <4>3
    <3> QED BY <3>1, <3>2
  <2>6. Loop'
    <3>1. CASE a = Kernel
      BY <3>1, Zenon DEF Moved
    <3>2. CASE a # Kernel
      <4>1. pc'[Kernel] = pc[Kernel] /\ local'[Kernel] = local[Kernel]
        BY <2>0, <3>2, ProcActor, Zenon DEF Turn
      <4>2. pc[Kernel] = "region" => after' = after
        BY <2>0, <3>2, ProcActor, <1>AfterKept, Zenon
      <4> QED BY <4>1, <4>2, Zenon DEF PlaceInv, Loop
    <3> QED BY <3>1, <3>2
  <2>7. Hands' /\ Linked'
    BY <2>4, <2>5, Zenon DEF Hands, Linked
  <2> QED BY <2>0, <2>1, <2>6, <2>7, Zenon DEF PlaceInv
<1> QED BY <1>MovedKeeps, Zenon

----------------------------------------------------------------------------
(* The pieces of a move: where the actor goes, what becomes of its locals. *)
Paced(a, at) ==
    /\ pc' \in [Actor -> Places] /\ waits' \in [Proc -> SUBSET (Port \X Kinds)]
    /\ pc'[a] = at /\ pc'[Kernel] = pc[Kernel]
    /\ \A b \in Proc \ {a} :
          \/ pc'[b] = pc[b] /\ waits'[b] = waits[b]
          \/ pc[b] = "blocked" /\ pc'[b] = Resumed(b) /\ waits'[b] = {}

LocalsTo(a, l) ==
    /\ local' \in [Actor -> Locals] /\ local'[a] = l
    /\ \A b \in Actor \ {a} : local'[b] = local[b]

(* The dispatch loop enters a region of its own to expire timers. *)
LEMMA ExpireMoved ==
    ASSUME PlaceInv, expire_timers
    PROVE  Moved(Kernel) /\ UNCHANGED <<portVars, tableVars, refs, timers>>
<1>0. ProcType /\ Loop /\ Proc \subseteq Actor /\ Kernel \notin Proc /\ Kernel \in Actor
  BY ProcActor, Zenon DEF PlaceInv
<1>1. PICK S \in SUBSET Timer : /\ pc[Kernel] = "run" /\ Region(Kernel, <<Reap(1), Expire(S)>>, "run")
                                /\ UNCHANGED <<portVars, tableVars, refs, timers, waits, local>>
  BY Zenon DEF expire_timers
<1>2. /\ ipclock_enter(Kernel) /\ stack' = <<Reap(1), Expire(S)>> /\ after' = "run"
      /\ pc' = [pc EXCEPT ![Kernel] = "region"] /\ rights' = rights
      /\ {"run", "region"} \subseteq Places
  BY <1>1, Zenon DEF Region, Goto, tableVars, Places
<1>3. stack' \in Seq(Tasks) /\ Fits(stack', Kernel, rights')
  <2>1. 1 \in Nat
    BY SMT
  <2>2. Reap(1) \in Tasks /\ Expire(S) \in Tasks
    BY <2>1, TaskMakes, Zenon
  <2>3. Reap(1).op = "reap" /\ Expire(S).op = "expire"
    BY SMT DEF Reap, Expire
  <2> DEFINE z == <<Reap(1), Expire(S)>>
  <2>4. z \in Seq(Tasks) /\ Len(z) = 2 /\ z[1] = Reap(1) /\ z[2] = Expire(S)
    BY <2>2, SMT
  <2> HIDE DEF z
  <2>5. \A i \in 1 .. Len(z) : z[i].op \in {"reap", "expire"}
    BY <2>3, <2>4, SMT
  <2>6. Fits(z, Kernel, rights')
    <3>1. \A i \in 1 .. Len(z) : TaskFits(z[i], Kernel, rights')
      BY <2>5, Zenon DEF TaskFits
    <3>2. \A i \in 1 .. (Len(z) - 1) : i \in 1 .. Len(z)
      BY <2>4, SMT
    <3>3. \A i \in 1 .. (Len(z) - 1) : ~Own(z[i])
      BY <2>5, <3>2, Zenon DEF Own
    <3> QED BY <3>1, <3>3, Zenon DEF Fits
  <2> QED BY <1>2, <2>4, <2>6, Zenon DEF z
<1>4. /\ pc' \in [Actor -> Places] /\ pc'[Kernel] = "region"
      /\ \A b \in Actor \ {Kernel} : pc'[b] = pc[b]
  BY <1>0, <1>2, Zenon DEF ProcType
<1>5. ProcType'
  BY <1>0, <1>1, <1>4, Zenon DEF ProcType
<1>6. Turn(Kernel)
  BY <1>0, <1>1, <1>2, <1>4, Zenon DEF Turn
<1>7. RegionStep(Kernel)
  BY <1>1, <1>2, <1>3, <1>4, Zenon DEF RegionStep
<1>8. Loop'
  BY <1>0, <1>1, <1>2, <1>4, Zenon DEF Loop
<1> QED BY <1>0, <1>1, <1>5, <1>6, <1>7, <1>8, Zenon DEF Moved

----------------------------------------------------------------------------
(* Every step is a step of one actor, and every one keeps the invariant. *)
LEMMA ActsMoved ==
    ASSUME SetFacts, PlaceInv, NEW actor \in Actor, Acts(actor)
    PROVE  Moved(actor)
(* The steps of the tasks. *)
<1>TaskMoved. ASSUME SetFacts, PlaceInv, NEW self \in Actor, Task(self), ~RegionDone(self)
              PROVE  Moved(self)
  (* A region that fits goes on fitting when tasks that are nobody's own are *)
  (* put before it, when its first task is done, and as one task alone.      *)
  <2>FitsMore. ASSUME NEW s \in Seq(Tasks), NEW z \in Seq(Tasks), NEW k \in Nat, NEW w, NEW R,
                      Fits(s, w, R), Len(z) = Len(s) + k,
                      \A i \in 1 .. Len(s) : z[i + k] = s[i],
                      \A i \in 1 .. k : ~Own(z[i])
               PROVE  Fits(z, w, R)
    <3> USE <2>FitsMore
    <3>0. Len(s) \in Nat
      BY SMT
    <3>1. ASSUME NEW i \in 1 .. Len(z), i > k PROVE i - k \in 1 .. Len(s) /\ z[i] = s[i - k]
      <4>1. Len(z) = Len(s) + k /\ k \in Nat
        OBVIOUS
      <4>2. i - k \in 1 .. Len(s) /\ (i - k) + k = i
        BY <3>0, <3>1, <4>1, SMT
      <4>3. z[(i - k) + k] = s[i - k]
        BY <4>2, Zenon
      <4> QED BY <4>2, <4>3, Zenon
    <3>2. ASSUME NEW i \in 1 .. Len(z) PROVE TaskFits(z[i], w, R)
      <4>1. CASE i > k
        BY <4>1, <3>1 DEF Fits
      <4>2. CASE ~(i > k)
        BY <3>0, <4>2, SMT DEF TaskFits, Own
      <4> QED BY <4>1, <4>2
    <3>3. ASSUME NEW i \in 1 .. (Len(z) - 1) PROVE ~Own(z[i])
      <4>1. CASE i > k
        <5>1. i - k \in 1 .. (Len(s) - 1) /\ z[i] = s[i - k]
          BY <3>0, <3>1, <4>1, SMT
        <5> QED BY <5>1, Zenon DEF Fits
      <4>2. CASE ~(i > k)
        BY <3>0, <4>2, SMT
      <4> QED BY <4>1, <4>2
    <3> QED BY <3>2, <3>3, Zenon DEF Fits
  <2>PushFits. ASSUME NEW s \in Seq(Tasks), NEW x \in Tasks, ~Own(x), NEW w, NEW R
               PROVE  LET z == <<x>> \o s
                      IN  z \in Seq(Tasks) /\ z # <<>> /\ (Fits(s, w, R) => Fits(z, w, R))
    <3> USE <2>PushFits
    <3> DEFINE z == <<x>> \o s
    <3>1. /\ z \in Seq(Tasks) /\ z # <<>> /\ Len(z) = Len(s) + 1 /\ z[1] = x
          /\ \A i \in 1 .. Len(s) : z[i + 1] = s[i]
      BY PushOne, Zenon
    <3> HIDE DEF z
    <3>2. \A i \in 1 .. 1 : ~Own(z[i])
      BY <3>1, SMT
    <3>3. Fits(s, w, R) => Fits(z, w, R)
      BY <3>1, <3>2, <2>FitsMore
    <3> QED BY <3>1, <3>3, Zenon DEF z
  <2>PushFitsTwo. ASSUME NEW s \in Seq(Tasks), NEW x \in Tasks, NEW y \in Tasks, ~Own(x), ~Own(y), NEW w, NEW R
                  PROVE  LET z == <<x, y>> \o s
                         IN  z \in Seq(Tasks) /\ z # <<>> /\ (Fits(s, w, R) => Fits(z, w, R))
    <3> USE <2>PushFitsTwo
    <3> DEFINE z == <<x, y>> \o s
    <3>1. /\ z \in Seq(Tasks) /\ z # <<>> /\ Len(z) = Len(s) + 2 /\ z[1] = x /\ z[2] = y
          /\ \A i \in 1 .. Len(s) : z[i + 2] = s[i]
      BY PushTwo, SMT
    <3> HIDE DEF z
    <3>2. \A i \in 1 .. 2 : ~Own(z[i])
      BY <3>1, SMT
    <3>3. Fits(s, w, R) => Fits(z, w, R)
      BY <3>1, <3>2, <2>FitsMore, Zenon
    <3> QED BY <3>1, <3>3, Zenon DEF z
  (* What is put on a region's tasks by port_unref. *)
  <2>UnrefStack. ASSUME NEW p \in Port, NEW n, NEW q \in Seq(MsgId), NEW rest \in Seq(Tasks),
                        NEW w, NEW R, port_unref(p, n, q, rest)
                 PROVE  /\ stack' \in Seq(Tasks) /\ stack' # <<>>
                        /\ Fits(rest, w, R) => Fits(stack', w, R)
    <3> USE <2>UnrefStack
    <3>1. /\ Flush(q) \in Tasks /\ FreePort(p) \in Tasks /\ Hangup(p) \in Tasks
          /\ ~Own(Flush(q)) /\ ~Own(FreePort(p)) /\ ~Own(Hangup(p))
      BY TaskMakes, SMT DEF Own, Flush, FreePort, Hangup
    <3>2. \/ stack' = <<Flush(q), FreePort(p)>> \o rest
          \/ stack' = <<Flush(q), Hangup(p)>> \o rest
          \/ stack' = <<Hangup(p)>> \o rest
      BY Zenon DEF port_unref, Unref
    <3> QED BY <3>1, <3>2, <2>PushFits, <2>PushFitsTwo, Zenon
  <2>TaskStack. ASSUME SetFacts, PlaceInv, NEW a \in Actor, Task(a), ~RegionDone(a)
                PROVE  /\ stack' \in Seq(Tasks) /\ Fits(stack', a, rights')
                       /\ \A b \in Proc \ {a} : rights'[b] = rights[b]
    <3> USE <2>TaskStack
    <3>0. PortType /\ HolderType /\ \A p \in Port : queue[p] \in Seq(MsgId)
      BY Zenon DEF PlaceInv, PortType
    <3>1. wide = a /\ stack # <<>>
      BY TaskTurn, Zenon
    <3>2. /\ stack \in Seq(Tasks) /\ Tail(stack) \in Seq(Tasks) /\ Head(stack) \in Tasks
          /\ Fits(stack, a, rights) /\ Fits(Tail(stack), a, rights)
      BY <3>1, TopTask, Zenon DEF PlaceInv
    <3>3. CASE right_drop(a)
      <4>1. PICK h \in Handle, rest \in Seq(Tasks) :
               /\ a \in Proc /\ rights[a][h] \in Right /\ rights' = [rights EXCEPT ![a][h] = NoRight]
               /\ Fits(rest, a, rights')
               /\ port_unref(rights[a][h].port, Less(rights[a][h].port, rights[a][h].recv),
                             queue[rights[a][h].port], rest)
        BY <3>3, DropForm, Zenon
      <4>2. rights[a][h].port \in Port
        BY <4>1 DEF Right
      <4>3. stack' \in Seq(Tasks) /\ Fits(stack', a, rights')
        BY <3>0, <4>1, <4>2, <2>UnrefStack, Zenon
      <4>4. \A b \in Proc \ {a} : rights'[b] = rights[b]
        BY <3>0, <4>1, Zenon DEF HolderType
      <4> QED BY <4>3, <4>4
    <3>4. CASE release_inflight(a)
      <4>1. PICK m \in MsgId, j \in Slot :
               /\ refs[m][j] \in Right
               /\ port_unref(refs[m][j].port, Less(refs[m][j].port, refs[m][j].recv),
                             queue[refs[m][j].port], stack)
        BY <3>4, ReleaseForm, Zenon
      <4>2. refs[m][j].port \in Port
        BY <4>1 DEF Right
      <4>3. rights' = rights
        BY <3>4, ReleaseForm, Zenon DEF tableVars
      <4> QED BY <3>0, <3>2, <4>1, <4>2, <4>3, <2>UnrefStack, Zenon
    <3>5. CASE reap_dead_timers(a)
      <4>1. rights' = rights
        BY <3>5, ReapForm, Zenon DEF tableVars
      <4>2. CASE stack' = Tail(stack)
        BY <3>2, <4>1, <4>2, Zenon
      <4>3. CASE stack' # Tail(stack)
        <5>1. PICK t \in Timer :
                 /\ timers[t] \in Port /\ Reap(t + 1) \in Tasks
                 /\ port_unref(timers[t], nrecv[timers[t]], queue[timers[t]],
                               <<Reap(t + 1)>> \o Tail(stack))
          BY <3>5, <4>3, ReapForm, Zenon
        <5>2. ~Own(Reap(t + 1))
          BY DEF Own, Reap
        <5>3. /\ <<Reap(t + 1)>> \o Tail(stack) \in Seq(Tasks)
              /\ Fits(<<Reap(t + 1)>> \o Tail(stack), a, rights)
          BY <3>2, <5>1, <5>2, <2>PushFits, Zenon
        <5> QED BY <3>0, <4>1, <5>1, <5>3, <2>UnrefStack, Zenon
      <4> QED BY <4>2, <4>3
    <3>6. CASE expire(a)
      <4>1. rights' = rights
        BY <3>6, ExpireForm, Zenon DEF tableVars
      <4>2. CASE stack' = Tail(stack)
        BY <3>2, <4>1, <4>2, Zenon
      <4>3. CASE stack' # Tail(stack)
        <5>1. PICK t \in Timer, S \in SUBSET Timer, q \in Seq(MsgId) :
                 /\ timers[t] \in Port /\ Expire(S) \in Tasks
                 /\ port_unref(timers[t], nrecv[timers[t]], q, <<Expire(S)>> \o Tail(stack))
          BY <3>6, <4>3, ExpireForm, Zenon
        <5>2. ~Own(Expire(S))
          BY DEF Own, Expire
        <5>3. /\ <<Expire(S)>> \o Tail(stack) \in Seq(Tasks)
              /\ Fits(<<Expire(S)>> \o Tail(stack), a, rights)
          BY <3>2, <5>1, <5>2, <2>PushFits, Zenon
        <5> QED BY <3>0, <4>1, <5>1, <5>3, <2>UnrefStack, Zenon
      <4> QED BY <4>2, <4>3
    <3>7. CASE timer_arm(a)
      BY <3>7, ArmForm, Zenon DEF tableVars
    <3>8. CASE port_flush(a)
      <4> DEFINE ms == Head(stack).msgs
      <4>1. /\ Head(stack).op = "flush" /\ rights' = rights
            /\ stack' = IF ms = <<>> THEN Tail(stack) ELSE FlushNext(ms) \o Tail(stack)
        BY <3>8, Zenon DEF port_flush, tableVars
      <4>2. ms \in Seq(MsgId)
        BY <3>2, <4>1, TaskFields, Zenon
      <4>3. CASE ms = <<>>
        BY <3>2, <4>1, <4>3, Zenon
      <4>4. CASE ms # <<>>
        <5>1. Head(ms) \in MsgId /\ Tail(ms) \in Seq(MsgId)
          BY <4>2, <4>4, SMT
        <5>2. /\ Msg(Head(ms)) \in Tasks /\ Flush(Tail(ms)) \in Tasks
              /\ ~Own(Msg(Head(ms))) /\ ~Own(Flush(Tail(ms)))
          <6>1. \A m, q : ~Own(Msg(m)) /\ ~Own(Flush(q))
            BY SMT DEF Own, Msg, Flush
          <6> QED BY <5>1, <6>1, TaskMakes, Zenon
        <5>3. stack' = <<Msg(Head(ms)), Flush(Tail(ms))>> \o Tail(stack)
          BY <4>1, <4>4, Zenon DEF FlushNext
        <5> HIDE DEF ms
        <5> QED BY <3>2, <4>1, <5>2, <5>3, <2>PushFitsTwo, Zenon
      <4> QED BY <4>3, <4>4
    <3>9. CASE port_free(a) \/ msg_free(a) \/ port_hangup(a)
      <4>1. stack' = Tail(stack) /\ rights' = rights
        BY <3>9, Zenon DEF port_free, msg_free, port_hangup, tableVars
      <4> QED BY <3>2, <4>1, Zenon
    <3> QED BY <3>3, <3>4, <3>5, <3>6, <3>7, <3>8, <3>9, Zenon DEF Task
  <2>TaskMoved. ASSUME SetFacts, PlaceInv, NEW a \in Actor, Task(a), ~RegionDone(a)
                PROVE  Moved(a)
    <3> USE <2>TaskMoved
    <3>0. ProcType /\ Hands /\ Loop /\ Linked /\ Regions /\ Proc \subseteq Actor /\ Kernel \notin Proc
      BY ProcActor, Zenon DEF PlaceInv
    <3>1. /\ wide = a /\ pc[a] = "region" /\ stack # <<>>
          /\ UNCHANGED <<local, wide, depth, after>>
          /\ pc'[a] = pc[a] /\ (a \in Proc => waits'[a] = waits[a])
          /\ pc'[Kernel] = pc[Kernel]
          /\ UNCHANGED <<pc, waits>> \/ \E p \in Port : \E K : Wake(p, K)
      BY TaskTurn, Zenon
    <3>2. ProcType'
      BY <3>0, <3>1, TaskTurn, Zenon DEF ProcType
    <3>3. /\ stack' \in Seq(Tasks) /\ Fits(stack', a, rights')
          /\ \A b \in Proc \ {a} : rights'[b] = rights[b]
      BY <2>TaskStack, Zenon
    <3>4. RegionStep(a)
      BY <3>1, <3>3, Zenon DEF RegionStep
    <3>5. ASSUME NEW b \in Proc \ {a}
          PROVE  \/ pc'[b] = pc[b] /\ waits'[b] = waits[b]
                 \/ pc[b] = "blocked" /\ pc'[b] = Resumed(b) /\ waits'[b] = {}
      <4>1. CASE UNCHANGED <<pc, waits>>
        BY <4>1
      <4>2. CASE \E p \in Port : \E K : Wake(p, K)
        <5>a. PICK p \in Port : \E K : Wake(p, K)
          BY <4>2
        <5>1. PICK K : Wake(p, K)
          BY <5>a
        <5>2. b \in Woken(p, K) => pc[b] = "blocked"
          BY Zenon DEF Woken
        <5> QED BY <3>0, <5>1, <5>2, Zenon DEF Wake
      <4> QED BY <3>1, <4>1, <4>2
    <3>6. Turn(a)
      BY <3>1, <3>3, <3>5, Zenon DEF Turn
    <3>7. ASSUME a \in Proc
          PROVE  /\ InHand(pc'[a], local'[a], rights'[a], after')
                 /\ waits'[a] # {} <=> pc'[a] = "blocked"
                 /\ \A w \in waits'[a] : Mine(a, w[1])' # {}
      <4>1. InHand("region", local[a], rights[a], after)
        BY <3>0, <3>1, <3>7, Zenon DEF Hands
      <4>2. InHand("region", local[a], rights'[a], after)
        BY <4>1, Zenon DEF InHand
      <4>3. waits'[a] = {}
        BY <3>0, <3>1, <3>7, Zenon DEF Linked
      <4> QED BY <3>1, <4>2, <4>3, Zenon
    <3>8. a = Kernel => Loop'
      BY <3>0, <3>1, Zenon DEF Loop
    <3> QED BY <3>2, <3>4, <3>6, <3>7, <3>8, Zenon DEF Moved
  <2> QED BY <1>TaskMoved, <2>TaskMoved, Zenon
<1>PacedStill. ASSUME ProcType, NEW a, UNCHANGED <<pc, waits>>
               PROVE  Paced(a, pc[a])
  BY <1>PacedStill, Zenon DEF Paced, ProcType
<1>PacedGoto. ASSUME ProcType, NEW a \in Proc, NEW at \in Places, Goto(a, at),
                     waits' = waits \/ \E W \in SUBSET (Port \X Kinds) : waits' = [waits EXCEPT ![a] = W]
              PROVE  Paced(a, at)
  <2> USE <1>PacedGoto
  <2>0. a \in Actor /\ a # Kernel /\ Proc \subseteq Actor /\ Kernel \in Actor
    BY ProcActor, Zenon
  <2>1. pc' \in [Actor -> Places] /\ pc'[a] = at /\ \A b \in Actor \ {a} : pc'[b] = pc[b]
    BY <2>0, Zenon DEF Goto, ProcType
  <2>2. waits' \in [Proc -> SUBSET (Port \X Kinds)] /\ \A b \in Proc \ {a} : waits'[b] = waits[b]
    BY Zenon DEF ProcType
  <2> QED BY <2>0, <2>1, <2>2, Zenon DEF Paced
<1>PacedWake. ASSUME ProcType, Linked, NEW a \in Proc, NEW at \in Places, NEW p, NEW K,
                     WakeAnd(p, K, a, at), pc[a] # "blocked"
              PROVE  Paced(a, at) /\ waits'[a] = {}
  <2> USE <1>PacedWake
  <2>0. a \in Actor /\ a # Kernel
    BY ProcActor, Zenon
  <2>1. /\ pc' \in [Actor -> Places] /\ waits' \in [Proc -> SUBSET (Port \X Kinds)]
    BY <2>0, WakeTurn, Zenon
  <2>4. pc'[a] = at /\ pc'[Kernel] = pc[Kernel]
    <3>1. Kernel \notin Woken(p, K)
      BY ProcActor, Zenon DEF Woken
    <3> QED BY <2>0, <3>1, ProcActor, Zenon DEF WakeAnd
  <2>2. ASSUME NEW b \in Proc \ {a}
        PROVE  \/ pc'[b] = pc[b] /\ waits'[b] = waits[b]
               \/ pc[b] = "blocked" /\ pc'[b] = Resumed(b) /\ waits'[b] = {}
    <3>1. b \in Woken(p, K) => pc[b] = "blocked"
      BY Zenon DEF Woken
    <3> QED BY <3>1, ProcActor, Zenon DEF WakeAnd
  <2>3. waits'[a] = {}
    <3>1. waits[a] = {}
      BY Zenon DEF Linked
    <3> QED BY <3>1, Zenon DEF WakeAnd
  <2> QED BY <2>1, <2>2, <2>3, <2>4, Zenon DEF Paced
<1>LocalsStill. ASSUME ProcType, NEW a, UNCHANGED local
                PROVE  LocalsTo(a, local[a])
  BY <1>LocalsStill, Zenon DEF LocalsTo, ProcType
<1>LocalsPut. ASSUME ProcType, NEW a \in Proc, NEW l \in Locals, local' = [local EXCEPT ![a] = l]
              PROVE  LocalsTo(a, l)
  BY <1>LocalsPut, ProcActor, Zenon DEF LocalsTo, ProcType
(* And what a step changes of them. *)
<1>UnsentLocal. ASSUME NEW l \in Locals, NEW n, n = [l EXCEPT !.reply = NoHandle]
                PROVE  /\ n \in Locals /\ n.reply = NoHandle
                       /\ n.msg = l.msg /\ n.outer = l.outer /\ n.cases = l.cases
  BY <1>UnsentLocal, SMT DEF Locals
<1>BuiltLocal. ASSUME NEW l \in Locals, NEW n, n = [l EXCEPT !.minted = {}]
               PROVE  /\ n \in Locals /\ n.reply = l.reply /\ n.msg = l.msg
                      /\ n.outer = l.outer /\ n.cases = l.cases
  BY <1>BuiltLocal, SMT DEF Locals
(* The caller's own table only grows in a syscall or in a step of one. *)
<1>TableGrows. ASSUME SetFacts, PlaceInv, NEW a \in Proc, Call(a) \/ Step(a)
               PROVE  /\ \A b \in Proc \ {a} : rights'[b] = rights[b]
                      /\ \A g \in Handle : rights[a][g] # NoRight => rights'[a][g] # NoRight
  <2> USE <1>TableGrows
  <2>0. HolderType
    BY DEF PlaceInv
  <2>1. CASE UNCHANGED tableVars
    BY <2>1, Zenon DEF tableVars
  <2>2. CASE \E p \in Port, recv \in BOOLEAN : Free(a) # {} /\ right_new(a, p, recv)
    <3>1. PICK p \in Port, recv \in BOOLEAN : Free(a) # {} /\ right_new(a, p, recv)
      BY <2>2
    <3>4. Lowest(Free(a)) \in Handle
      BY <3>1, FreeHandle, Zenon
    <3>5. [port |-> p, recv |-> recv] \in Right
      BY Zenon DEF Right
    <3>0. /\ Lowest(Free(a)) \in Handle /\ [port |-> p, recv |-> recv] \in Right
          /\ rights' = [rights EXCEPT ![a][Lowest(Free(a))] = [port |-> p, recv |-> recv]]
      BY <3>1, <3>4, <3>5, Zenon DEF right_new
    <3>a. PICK h \in Handle, r \in Right : rights' = [rights EXCEPT ![a][h] = r]
      BY <3>0, Zenon
    <3>2. \A b \in Proc \ {a} : rights'[b] = rights[b]
      BY <2>0, <3>a, Zenon DEF HolderType
    <3>3. \A g \in Handle : rights[a][g] # NoRight => rights'[a][g] # NoRight
      BY <2>0, <3>a, PortsAssumption, Zenon DEF HolderType, Table
    <3> QED BY <3>2, <3>3
  <2> QED BY <2>1, <2>2, HoldersStep, Zenon
<1>PacedMoved. ASSUME SetFacts, PlaceInv, NEW a \in Proc, Call(a) \/ Step(a), NEW at, NEW l,
                      Paced(a, at), LocalsTo(a, l), RegionStep(a), InHand(at, l, rights'[a], after'),
                      waits'[a] # {} <=> at = "blocked",
                      \A w \in waits'[a] : Mine(a, w[1])' # {}
               PROVE  Moved(a)
  <2> USE <1>PacedMoved
  <2>0. a \in Actor /\ a # Kernel
    BY ProcActor, Zenon
  <2>1. ProcType'
    BY Zenon DEF ProcType, Paced, LocalsTo
  <2>2. Turn(a)
    BY <1>TableGrows, Zenon DEF Turn, Paced, LocalsTo
  <2>3. InHand(pc'[a], local'[a], rights'[a], after') /\ pc'[a] = at
    BY Zenon DEF Paced, LocalsTo
  <2> QED BY <2>0, <2>1, <2>2, <2>3, Zenon DEF Moved
<1>NotParked. ASSUME PlaceInv, NEW a \in Proc, pc[a] # "blocked"
              PROVE  waits[a] = {}
  BY <1>NotParked, Zenon DEF PlaceInv, Linked
(* The shapes of a step: the proc stays or goes on, enters a region with   *)
(* tasks, takes a message, parks.                                          *)
<1>GoneMoved. ASSUME SetFacts, PlaceInv, NEW a \in Proc, Call(a) \/ Step(a), NEW at \in Places, NEW l,
                     (UNCHANGED <<pc, waits>> /\ at = pc[a]) \/ (Goto(a, at) /\ waits' = waits),
                     pc[a] \notin {"region", "blocked"}, at \notin {"region", "blocked"},
                     UNCHANGED regionVars, LocalsTo(a, l), l.outer => local[a].outer,
                     InHand(at, l, rights'[a], after)
              PROVE  Moved(a)
  <2> USE <1>GoneMoved
  <2>0. ProcType /\ after' = after
    BY Zenon DEF PlaceInv, regionVars
  <2>1. Paced(a, at)
    BY <2>0, <1>PacedStill, <1>PacedGoto, Zenon
  <2>2. waits'[a] = {}
    BY <1>NotParked, Zenon
  <2>3. RegionStep(a)
    BY <2>1, Zenon DEF RegionStep, Paced, LocalsTo
  <2> QED BY <2>0, <2>1, <2>2, <2>3, <1>PacedMoved, Zenon
<1>RegionMoved. ASSUME SetFacts, PlaceInv, NEW a \in Proc, Call(a) \/ Step(a), NEW at \in Places, NEW l,
                       NEW tasks \in Seq(Tasks), Region(a, tasks, at), Fits(tasks, a, rights'),
                       pc[a] # "region",
                       (waits' = waits /\ pc[a] # "blocked") \/ waits' = [waits EXCEPT ![a] = {}],
                       LocalsTo(a, l), l.outer => local[a].outer, InHand("region", l, rights'[a], at)
                PROVE  Moved(a)
  <2> USE <1>RegionMoved
  <2>0. /\ ProcType /\ stack' = tasks /\ after' = at /\ ipclock_enter(a) /\ Goto(a, "region")
        /\ "region" \in Places
    BY Zenon DEF PlaceInv, Region, Places
  <2>1. Paced(a, "region")
    <3>1. {} \in SUBSET (Port \X Kinds)
      OBVIOUS
    <3> QED BY <2>0, <3>1, <1>PacedGoto, Zenon
  <2>2. waits'[a] = {}
    <3>1. waits \in [Proc -> SUBSET (Port \X Kinds)]
      BY <2>0 DEF ProcType
    <3> QED BY <3>1, <1>NotParked, Zenon
  <2>3. RegionStep(a)
    BY <2>0, <2>1, Zenon DEF RegionStep, Paced, LocalsTo
  <2> QED BY <2>0, <2>1, <2>2, <2>3, <1>PacedMoved, Zenon
<1>TookMoved. ASSUME SetFacts, PlaceInv, NEW a \in Proc, Call(a) \/ Step(a), NEW p \in Port,
                     NEW outer \in BOOLEAN, port_pop(a, p, outer), pc[a] \notin {"region", "blocked"},
                     \/ UNCHANGED regionVars /\ ~outer
                     \/ ipclock_enter(a) /\ UNCHANGED <<stack, after>>
              PROVE  Moved(a)
  <2> USE <1>TookMoved
  <2> DEFINE l == [Idle EXCEPT !.msg = Head(queue[p]), !.outer = outer]
  <2>0. ProcType /\ Linked /\ PortType /\ "deserialize" \in Places
    BY Zenon DEF PlaceInv, Places
  <2>1. /\ queue[p] # <<>> /\ WakeAnd(p, {"send"}, a, "deserialize")
        /\ local' = [local EXCEPT ![a] = l]
    BY Zenon DEF port_pop
  <2>2. Head(queue[p]) \in MsgId
    <3>1. queue[p] \in Seq(MsgId)
      BY <2>0, Zenon DEF PortType
    <3> QED BY <2>1, <3>1, SMT
  <2>m. PICK m \in MsgId : m = Head(queue[p])
    BY <2>2
  <2>l. l = [Idle EXCEPT !.msg = m, !.outer = outer]
    BY <2>m
  <2> HIDE DEF l
  <2>3. l \in Locals /\ Plain(l) /\ l.msg = m /\ l.outer = outer /\ l.minted = {}
    BY <2>l, Zenon DEF Idle, Locals, Plain
  <2>4. LocalsTo(a, l)
    BY <2>0, <2>1, <2>3, <1>LocalsPut, Zenon
  <2>5. Paced(a, "deserialize") /\ waits'[a] = {}
    BY <2>0, <2>1, <1>PacedWake, Zenon
  <2>6. RegionStep(a)
    BY <2>3, <2>4, <2>5, Zenon DEF RegionStep, Paced, LocalsTo
  <2>7. l.msg # NoMsg
    BY <2>3, PortsAssumption
  <2>8. InHand("deserialize", l, rights'[a], after')
    BY <2>3, <2>7, Zenon DEF InHand
  <2> QED BY <2>4, <2>5, <2>6, <2>8, <1>PacedMoved, Zenon
<1>ParkMoved. ASSUME SetFacts, PlaceInv, NEW a \in Proc, Call(a) \/ Step(a), NEW l,
                     NEW W \in SUBSET (Port \X Kinds), Park(a, W), W # {},
                     \A w \in W : Mine(a, w[1]) # {}, pc[a] # "region",
                     LocalsTo(a, l), l.outer => local[a].outer, InHand("blocked", l, rights[a], after)
              PROVE  Moved(a)
  <2> USE <1>ParkMoved
  <2>0. /\ ProcType /\ "blocked" \in Places /\ waits' = [waits EXCEPT ![a] = W]
        /\ Goto(a, "blocked") /\ UNCHANGED regionVars /\ rights' = rights
    BY Zenon DEF PlaceInv, Places, Park, tableVars
  <2>1. Paced(a, "blocked") /\ after' = after
    BY <2>0, <1>PacedGoto, Zenon DEF regionVars
  <2>2. waits'[a] = W
    BY <2>0, Zenon DEF ProcType
  <2>3. RegionStep(a)
    BY <2>0, <2>1, Zenon DEF RegionStep, Paced, LocalsTo
  <2>4. \A p : Mine(a, p)' = Mine(a, p)
    BY <2>0, Zenon DEF Mine
  <2> QED BY <2>0, <2>1, <2>2, <2>3, <2>4, <1>PacedMoved, Zenon
(* A task alone. *)
<1>OneTask. ASSUME NEW x \in Tasks, NEW w, NEW R, TaskFits(x, w, R)
            PROVE  <<x>> \in Seq(Tasks) /\ Fits(<<x>>, w, R)
  <2> USE <1>OneTask
  <2>1. <<x>> \in Seq(Tasks) /\ Len(<<x>>) = 1 /\ <<x>>[1] = x
    BY SMT
  <2> QED BY <2>1, FitsOne, Zenon
<1>DropFits. ASSUME NEW a \in Proc, NEW S \in SUBSET Handle, NEW R, S # {}, \A h \in S : R[a][h] # NoRight
             PROVE  <<Drop(a, S, TRUE)>> \in Seq(Tasks) /\ Fits(<<Drop(a, S, TRUE)>>, a, R)
  <2> USE <1>DropFits
  <2>1. Drop(a, S, TRUE) \in Tasks
    BY TaskMakes, Zenon
  <2>2. /\ Drop(a, S, TRUE).op = "drop" /\ Drop(a, S, TRUE).proc = a
        /\ Drop(a, S, TRUE).hs = S
    BY SMT DEF Drop
  <2>3. TaskFits(Drop(a, S, TRUE), a, R)
    BY <2>2, Zenon DEF TaskFits
  <2> QED BY <2>1, <2>3, <1>OneTask, Zenon
(* What a proc that makes a syscall has in hand: nothing. *)
<1>AtRun. ASSUME PlaceInv, NEW a \in Proc, pc[a] = "run"
          PROVE  Plain(local[a]) /\ ~local[a].outer
  BY <1>AtRun, Zenon DEF PlaceInv, Hands, InHand
(* The rest of an alt: a case is answered. *)
<1>TakeMoved. ASSUME SetFacts, PlaceInv, NEW a \in Proc, Call(a) \/ Step(a), NEW C, alt_take(a, C),
                     pc[a] \notin {"region", "blocked"},
                     \A c \in C : rights[a][c[1]].port \in Port
              PROVE  Moved(a)
  <2> USE <1>TakeMoved
  <2>0. ProcType /\ "run" \in Places
    BY Zenon DEF PlaceInv, Places
  <2>1. CASE \E c \in C : /\ port_pop(a, rights[a][c[1]].port, TRUE) /\ ipclock_enter(a)
                          /\ UNCHANGED <<stack, after>>
    BY <2>1, <1>TookMoved, Zenon
  <2>2. CASE Goto(a, "run") /\ local' = [local EXCEPT ![a] = Idle] /\ UNCHANGED <<regionVars, waits>>
    <3>1. LocalsTo(a, Idle)
      BY <2>0, <2>2, IdleLocal, <1>LocalsPut, Zenon
    <3>2. InHand("run", Idle, rights'[a], after) /\ ~Idle.outer
      BY IdleLocal, HandsAtRun, Zenon
    <3> QED BY <2>0, <2>2, <3>1, <3>2, <1>GoneMoved, Zenon
  <2> QED BY <2>1, <2>2, Zenon DEF alt_take, altready
<1>CallMoved. ASSUME SetFacts, PlaceInv, NEW self \in Proc, Call(self)
              PROVE  Moved(self)
  (* The syscalls, in groups. *)
  <2>GrowMoved. ASSUME SetFacts, PlaceInv, NEW a \in Proc, Call(a),
                       \/ \E p \in Port : api_newport(a, p) \/ api_timer(a, p)
                       \/ \E h \in Handle : api_sendright(a, h)
                PROVE  Moved(a)
    <3> USE <2>GrowMoved
    <3>0. ProcType /\ HolderType /\ "run" \in Places
      BY Zenon DEF PlaceInv, Places
    <3>1. CASE (\E p \in Port : api_newport(a, p)) \/ \E h \in Handle : api_sendright(a, h)
      <4>1. pc[a] = "run" /\ UNCHANGED <<pc, waits, local, regionVars>>
        BY <3>1, Zenon DEF api_newport, api_sendright
      <4>2. LocalsTo(a, local[a])
        BY <3>0, <4>1, <1>LocalsStill, Zenon
      <4>3. InHand("run", local[a], rights'[a], after)
        BY <4>1, <1>AtRun, HandsAtRun, Zenon
      <4> QED BY <3>0, <4>1, <4>2, <4>3, <1>GoneMoved, Zenon
    <3>2. CASE \E p \in Port : api_timer(a, p)
      <4> DEFINE h == Lowest(Free(a))
                 tasks == <<Arm(a, h, 1)>>
      <4>1. PICK p \in Port : api_timer(a, p)
        BY <3>2
      <4>2. /\ pc[a] = "run" /\ Free(a) # {} /\ right_new(a, p, TRUE)
            /\ Region(a, tasks, "run") /\ UNCHANGED <<waits, local>>
        BY <4>1, Zenon DEF api_timer
      <4>3. h \in Handle /\ rights'[a][h] # NoRight
        <5>1. rights' = [rights EXCEPT ![a][h] = [port |-> p, recv |-> TRUE]]
          BY <4>2, Zenon DEF right_new
        <5>2. [port |-> p, recv |-> TRUE] # NoRight
          <6>1. [port |-> p, recv |-> TRUE] \in Right
            BY SMT DEF Right
          <6> QED BY <6>1, PortsAssumption, Zenon
        <5>3. h \in Handle
          BY <4>2, FreeHandle, Zenon
        <5> HIDE DEF h
        <5> QED BY <3>0, <5>1, <5>2, <5>3, Zenon DEF HolderType, Table
      <4>4. LocalsTo(a, local[a])
        BY <3>0, <4>2, <1>LocalsStill, Zenon
      <4> HIDE DEF h
      <4>5. tasks \in Seq(Tasks) /\ Fits(tasks, a, rights')
        <5>1. Arm(a, h, 1) \in Tasks
          BY <4>3, TaskMakes, Zenon
        <5>2. Arm(a, h, 1).op = "arm" /\ Arm(a, h, 1).proc = a /\ Arm(a, h, 1).h = h
          BY SMT DEF Arm
        <5>3. TaskFits(Arm(a, h, 1), a, rights')
          BY <4>3, <5>2, Zenon DEF TaskFits
        <5> QED BY <5>1, <5>3, <1>OneTask, Zenon
      <4>6. InHand("region", local[a], rights'[a], "run")
        BY <4>2, <1>AtRun, HandsAtRun, Zenon
      <4> HIDE DEF tasks
      <4> QED BY <3>0, <4>2, <4>4, <4>5, <4>6, <1>RegionMoved, Zenon
    <3> QED BY <3>1, <3>2
  <2>DropMoved. ASSUME SetFacts, PlaceInv, NEW a \in Proc, Call(a),
                       (\E h \in Handle : api_close(a, h)) \/ proc_detach(a)
                PROVE  Moved(a)
    <3> USE <2>DropMoved
    <3>0. ProcType /\ "run" \in Places /\ "dead" \in Places
      BY Zenon DEF PlaceInv, Places
    <3>1. CASE \E h \in Handle : api_close(a, h)
      <4>1. PICK h \in Handle : api_close(a, h)
        BY <3>1
      <4>2. /\ pc[a] = "run" /\ rights[a][h] # NoRight /\ Region(a, <<Drop(a, {h}, TRUE)>>, "run")
            /\ UNCHANGED <<tableVars, waits, local>>
        BY <4>1, Zenon DEF api_close
      <4>3. <<Drop(a, {h}, TRUE)>> \in Seq(Tasks) /\ Fits(<<Drop(a, {h}, TRUE)>>, a, rights')
        BY <4>2, <1>DropFits, Zenon DEF tableVars
      <4>4. LocalsTo(a, local[a]) /\ InHand("region", local[a], rights'[a], "run")
        BY <3>0, <4>2, <1>LocalsStill, <1>AtRun, HandsAtRun, Zenon
      <4> QED BY <3>0, <4>2, <4>3, <4>4, <1>RegionMoved, Zenon
    <3>2. CASE proc_detach(a)
      <4> DEFINE tasks == IF Held(a) = {} THEN <<>> ELSE <<Drop(a, Held(a), TRUE)>>
      <4>1. /\ pc[a] \in {"run", "blocked", "call_k", "alt_k"} /\ Region(a, tasks, "dead")
            /\ waits' = [waits EXCEPT ![a] = {}] /\ UNCHANGED <<tableVars, local>>
        BY <3>2, Zenon DEF proc_detach
      <4>2. tasks \in Seq(Tasks) /\ Fits(tasks, a, rights')
        <5>1. CASE Held(a) = {}
          <6>1. <<>> \in Seq(Tasks)
            BY SMT
          <6> QED BY <5>1, <6>1, FitsNone, Zenon
        <5>2. CASE Held(a) # {}
          <6>1. Held(a) \in SUBSET Handle /\ \A h \in Held(a) : rights'[a][h] # NoRight
            BY <4>1, Zenon DEF Held, tableVars
          <6> QED BY <5>2, <6>1, <1>DropFits, Zenon
        <5> QED BY <5>1, <5>2, Zenon
      <4>3. ~local[a].outer
        BY <4>1, Zenon DEF PlaceInv, Hands, InHand
      <4>4. LocalsTo(a, local[a]) /\ InHand("region", local[a], rights'[a], "dead")
        BY <3>0, <4>1, <4>3, <1>LocalsStill, Zenon DEF InHand
      <4> HIDE DEF tasks
      <4> QED BY <3>0, <4>1, <4>2, <4>4, <1>RegionMoved, Zenon
    <3> QED BY <3>1, <3>2
  <2>WaitMoved. ASSUME SetFacts, PlaceInv, NEW a \in Proc, Call(a),
                       \E h \in Handle : api_tryrecv(a, h) \/ api_block(a, h) \/ api_sendblock(a, h)
                PROVE  Moved(a)
    <3> USE <2>WaitMoved
    <3>0. ProcType /\ HolderType
      BY Zenon DEF PlaceInv
    <3>1. PICK h \in Handle : api_tryrecv(a, h) \/ api_block(a, h) \/ api_sendblock(a, h)
      OBVIOUS
    <3>2. pc[a] = "run" /\ rights[a][h] # NoRight
      BY <3>1, Zenon DEF api_tryrecv, api_block, api_sendblock, RecvRight
    <3> DEFINE p == rights[a][h].port
    <3>3. p \in Port
      BY <3>0, <3>2, RightOf, Zenon
    <3>4. CASE api_tryrecv(a, h)
      <4>1. port_pop(a, p, FALSE) /\ UNCHANGED regionVars
        BY <3>4, Zenon DEF api_tryrecv
      <4> HIDE DEF p
      <4> QED BY <3>2, <3>3, <4>1, <1>TookMoved, Zenon
    <3>5. CASE api_block(a, h) \/ api_sendblock(a, h)
      <4>1. PICK k \in Kinds : Park(a, {<<p, k>>}) /\ UNCHANGED local
        BY <3>5, Zenon DEF api_block, api_sendblock, Kinds
      <4>2. Mine(a, p) # {}
        BY <3>2, MineOf, Zenon
      <4>3. LocalsTo(a, local[a]) /\ InHand("blocked", local[a], rights[a], after)
        BY <3>0, <3>2, <4>1, <1>LocalsStill, <1>AtRun, HandsAtRun, Zenon
      <4> HIDE DEF p
      <4>4. {<<p, k>>} \in SUBSET (Port \X Kinds) /\ {<<p, k>>} # {}
            /\ \A w \in {<<p, k>>} : w[1] = p
        BY <3>3, SMT
      <4>5. PICK W : W = {<<p, k>>}
        BY Zenon
      <4> QED BY <3>2, <4>1, <4>2, <4>3, <4>4, <4>5, <1>ParkMoved, Zenon
    <3> QED BY <3>1, <3>4, <3>5
  <2>BuildMoved. ASSUME SetFacts, PlaceInv, NEW a \in Proc, Call(a), NEW m \in MsgId, NEW h \in Handle,
                        NEW g \in Handle \cup {NoHandle}, NEW outer \in BOOLEAN,
                        Build(a, m, h, g, outer),
                        g # NoHandle => rights[a][g] # NoRight /\ outer,
                        \/ UNCHANGED <<wide, depth>> /\ ~outer
                        \/ ipclock_enter(a)
                 PROVE  Moved(a)
    <3> USE <2>BuildMoved
    <3> DEFINE l == [Idle EXCEPT !.msg = m, !.to = h, !.reply = g, !.outer = outer]
    <3>0. ProcType /\ "serialize" \in Places
      BY Zenon DEF PlaceInv, Places
    <3>1. /\ pc[a] = "run" /\ rights[a][h] # NoRight /\ Goto(a, "serialize") /\ waits' = waits
          /\ local' = [local EXCEPT ![a] = l] /\ UNCHANGED <<tableVars, stack, after>>
      BY Zenon DEF Build
    <3>2. l = [Idle EXCEPT !.msg = m, !.to = h, !.reply = g, !.outer = outer]
      OBVIOUS
    <3> HIDE DEF l
    <3>3. l \in Locals /\ l.msg = m /\ l.to = h /\ l.reply = g /\ l.outer = outer /\ l.cases = {}
      BY <3>2, Zenon DEF Idle, Locals
    <3>4. LocalsTo(a, l)
      BY <3>0, <3>1, <3>3, <1>LocalsPut, Zenon
    <3>5. Paced(a, "serialize")
      BY <3>0, <3>1, <1>PacedGoto, Zenon
    <3>6. waits'[a] = {}
      BY <3>1, <1>NotParked, Zenon
    <3>7. RegionStep(a)
      BY <3>1, <3>3, <3>4, <3>5, Zenon DEF RegionStep, Paced, LocalsTo, regionVars
    <3>8. m # NoMsg /\ h # NoHandle
      <4>1. h # NoHandle
        BY PortsAssumption, SMT DEF Handle, NoHandle
      <4> QED BY <4>1, PortsAssumption
    <3>9. InHand("serialize", l, rights'[a], after')
      BY <3>1, <3>3, <3>8, Zenon DEF InHand, Owns, tableVars
    <3> QED BY <3>4, <3>5, <3>6, <3>7, <3>9, <1>PacedMoved, Zenon
  <2>SendMoved. ASSUME SetFacts, PlaceInv, NEW a \in Proc, Call(a),
                       \E h \in Handle : \/ \E m \in MsgId : api_send(a, m, h)
                                         \/ \E m \in MsgId, rh \in Handle : api_call(a, m, h, rh)
                PROVE  Moved(a)
    <3> USE <2>SendMoved
    <3>1. CASE \E h \in Handle, m \in MsgId : api_send(a, m, h)
      <4>1. PICK h \in Handle, m \in MsgId : api_send(a, m, h)
        BY <3>1
      <4>2. Build(a, m, h, NoHandle, FALSE) /\ UNCHANGED <<wide, depth>>
        BY <4>1, Zenon DEF api_send
      <4>3. PICK g \in Handle \cup {NoHandle} : g = NoHandle
        OBVIOUS
      <4>4. Build(a, m, h, g, FALSE)
        BY <4>2, <4>3, Zenon
      <4> QED BY <4>2, <4>3, <4>4, <2>BuildMoved, Zenon
    <3>2. CASE \E h \in Handle, m \in MsgId, rh \in Handle : api_call(a, m, h, rh)
      <4>1. PICK h \in Handle, m \in MsgId, rh \in Handle : api_call(a, m, h, rh)
        BY <3>2
      <4>2. rights[a][rh] # NoRight /\ Build(a, m, h, rh, TRUE) /\ ipclock_enter(a)
        BY <4>1, Zenon DEF api_call
      <4> QED BY <4>2, <2>BuildMoved, Zenon
    <3> QED BY <3>1, <3>2
  <2>AltMoved. ASSUME SetFacts, PlaceInv, NEW a \in Proc, Call(a), \E C \in Cases : api_alt(a, C)
               PROVE  Moved(a)
    <3> USE <2>AltMoved
    <3>0. ProcType /\ HolderType /\ a \in Actor
      BY ProcActor, Zenon DEF PlaceInv
    <3>1. PICK C \in Cases : api_alt(a, C)
      OBVIOUS
    <3>2. C \in SUBSET (Handle \X Kinds) /\ C # {}
      BY SMT DEF Cases
    <3>3. /\ pc[a] = "run" /\ \A c \in C : rights[a][c[1]] # NoRight
      BY <3>1, Zenon DEF api_alt
    <3>4. ASSUME NEW c \in C
          PROVE  c[1] \in Handle /\ c[2] \in Kinds /\ rights[a][c[1]].port \in Port
      <4>1. c[1] \in Handle /\ c[2] \in Kinds
        BY <3>2, SMT
      <4> QED BY <3>0, <3>3, <4>1, RightOf, Zenon
    <3>5. CASE alt_take(a, C)
      BY <3>3, <3>4, <3>5, <1>TakeMoved, Zenon
    <3>6. CASE /\ Park(a, {<<rights[a][c[1]].port, c[2]>> : c \in C})
               /\ local' = [local EXCEPT ![a].cases = C]
      <4> DEFINE W == {<<rights[a][c[1]].port, c[2]>> : c \in C}
                 l == [local[a] EXCEPT !.cases = C]
      <4>1. W \in SUBSET (Port \X Kinds) /\ W # {}
        <5>1. \A c \in C : <<rights[a][c[1]].port, c[2]>> \in Port \X Kinds
          BY <3>4, SMT
        <5> QED BY <3>2, <5>1, Zenon
      <4>2. \A w \in W : Mine(a, w[1]) # {}
        <5>1. ASSUME NEW c \in C PROVE Mine(a, rights[a][c[1]].port) # {}
          BY <3>3, <3>4, MineOf, Zenon
        <5> QED BY <5>1, SMT
      <4>3. local[a] \in Locals
        BY <3>0, LocalOf, Zenon
      <4>4. l = [local[a] EXCEPT !.cases = C] /\ local' = [local EXCEPT ![a] = l]
        BY <3>6, Zenon
      <4> HIDE DEF l
      <4>5. l \in Locals /\ l.reply = local[a].reply /\ l.outer = local[a].outer /\ l.cases = C
        <5>1. C \in SUBSET (Handle \X Kinds) /\ l = [local[a] EXCEPT !.cases = C]
          BY <3>2, <4>4, Zenon
        <5> HIDE DEF W
        <5> QED BY <4>3, <5>1, SMT DEF Locals
      <4>6. LocalsTo(a, l)
        BY <3>0, <4>4, <4>5, <1>LocalsPut, Zenon
      <4>7. InHand("blocked", l, rights[a], after)
        <5>1. Plain(local[a]) /\ ~local[a].outer
          BY <3>3, <1>AtRun, Zenon
        <5> QED BY <3>3, <4>5, <5>1, Zenon DEF InHand, Owns, Plain
      <4>8. Park(a, W)
        BY <3>6
      <4> HIDE DEF W
      <4> QED BY <3>3, <4>1, <4>2, <4>5, <4>6, <4>7, <4>8, <1>ParkMoved, Zenon
    <3> QED BY <3>1, <3>5, <3>6, Zenon DEF api_alt
  <2>CallMoved. ASSUME SetFacts, PlaceInv, NEW a \in Proc, Call(a)
                PROVE  Moved(a)
    <3> USE <2>CallMoved
    <3>1. \/ \E p \in Port : api_newport(a, p) \/ api_timer(a, p)
          \/ \E h \in Handle : api_sendright(a, h)
          \/ \E h \in Handle : api_close(a, h)
          \/ proc_detach(a)
          \/ \E h \in Handle : api_tryrecv(a, h) \/ api_block(a, h) \/ api_sendblock(a, h)
          \/ \E h \in Handle : \/ \E m \in MsgId : api_send(a, m, h)
                               \/ \E m \in MsgId, rh \in Handle : api_call(a, m, h, rh)
          \/ \E C \in Cases : api_alt(a, C)
      BY Zenon DEF Call
    <3> QED BY <3>1, <2>GrowMoved, <2>DropMoved, <2>WaitMoved, <2>SendMoved, <2>AltMoved, Zenon
  <2> QED BY <1>CallMoved, <2>CallMoved, Zenon
<1>StepMoved. ASSUME SetFacts, PlaceInv, NEW self \in Proc, Step(self)
              PROVE  Moved(self)
  (* What follows a syscall. *)
  <2>SendingMoved. ASSUME SetFacts, PlaceInv, NEW a \in Proc, Step(a),
                          (\E h \in Handle : serialize(a, h)) \/ serialize_fail(a) \/ port_push_owned(a)
                   PROVE  Moved(a)
    <3> USE <2>SendingMoved
    <3>0. ProcType /\ Linked /\ a \in Actor /\ {"serialize", "discard", "leave", "run"} \subseteq Places
      BY ProcActor, Zenon DEF PlaceInv, Places
    <3>1. pc[a] = "serialize" /\ UNCHANGED <<tableVars, regionVars>>
      BY Zenon DEF serialize, serialize_fail, port_push_owned
    <3>2. InHand("serialize", local[a], rights'[a], after) /\ rights' = rights /\ after' = after
      BY <3>1, Zenon DEF PlaceInv, Hands, tableVars, regionVars
    <3>3. local[a] \in Locals
      BY <3>0, LocalOf, Zenon
    <3>4. CASE \E h \in Handle : serialize(a, h)
      <4>1. UNCHANGED <<pc, waits, local>>
        BY <3>4, Zenon DEF serialize
      <4>2. LocalsTo(a, local[a])
        BY <3>0, <4>1, <1>LocalsStill, Zenon
      <4> QED BY <3>0, <3>1, <3>2, <4>1, <4>2, <1>GoneMoved, Zenon
    <3>5. CASE Discarding(a)
      <4> DEFINE l == [local[a] EXCEPT !.reply = NoHandle]
      <4>1. Goto(a, "discard") /\ local' = [local EXCEPT ![a] = l] /\ waits' = waits
        BY <3>5, Zenon DEF Discarding
      <4>2. l = [local[a] EXCEPT !.reply = NoHandle]
        OBVIOUS
      <4> HIDE DEF l
      <4>3. /\ l \in Locals /\ l.reply = NoHandle
            /\ l.msg = local[a].msg /\ l.outer = local[a].outer /\ l.cases = local[a].cases
        BY <3>3, <4>2, <1>UnsentLocal, SMT
      <4>4. LocalsTo(a, l)
        BY <3>0, <4>1, <4>3, <1>LocalsPut, Zenon
      <4>5. InHand("discard", l, rights'[a], after)
        BY <3>2, <4>3, Zenon DEF InHand, Plain
      <4> QED BY <3>0, <3>1, <4>1, <4>3, <4>4, <4>5, <1>GoneMoved, Zenon
    <3>6. CASE /\ WakeAnd(rights[a][local[a].to].port, {"recv", "hup"}, a, Out(a))
               /\ local' = [local EXCEPT ![a].msg = NoMsg, ![a].to = NoHandle]
      <4> DEFINE l == [local[a] EXCEPT !.msg = NoMsg, !.to = NoHandle]
      <4>1. local' = [local EXCEPT ![a] = l]
        BY <3>0, <3>6, Zenon DEF ProcType
      <4>2. l = [local[a] EXCEPT !.msg = NoMsg, !.to = NoHandle]
        OBVIOUS
      <4> HIDE DEF l
      <4>3. l \in Locals /\ l.reply = local[a].reply /\ l.outer = local[a].outer /\ l.cases = local[a].cases
        <5> DEFINE k == [local[a] EXCEPT !.msg = NoMsg]
        <5>0. k = [local[a] EXCEPT !.msg = NoMsg]
          OBVIOUS
        <5>1. l = [k EXCEPT !.to = NoHandle]
          BY <4>2, Zenon
        <5> HIDE DEF k
        <5>2. /\ k \in Locals /\ k.reply = local[a].reply /\ k.outer = local[a].outer
              /\ k.cases = local[a].cases
          BY <3>3, <5>0, SMT DEF Locals
        <5>3. l \in Locals /\ l.reply = k.reply /\ l.outer = k.outer /\ l.cases = k.cases
          BY <5>1, <5>2, SMT DEF Locals
        <5> QED BY <5>2, <5>3
      <4>4. LocalsTo(a, l)
        BY <3>0, <4>1, <4>3, <1>LocalsPut, Zenon
      <4>5. InHand(Out(a), l, rights'[a], after')
        BY <3>2, <4>3, Zenon DEF InHand, Plain, Owns, Out
      <4>6. Out(a) \in Places /\ Out(a) \notin {"region", "blocked"}
        BY <3>0, Zenon DEF Out
      <4>7. Paced(a, Out(a)) /\ waits'[a] = {}
        BY <3>0, <3>1, <3>6, <4>6, <1>PacedWake, Zenon
      <4>8. RegionStep(a)
        BY <3>1, <4>3, <4>4, <4>6, <4>7, Zenon DEF RegionStep, Paced, LocalsTo
      <4> QED BY <4>4, <4>5, <4>6, <4>7, <4>8, <1>PacedMoved, Zenon
    <3> QED BY <3>4, <3>5, <3>6, Zenon DEF serialize_fail, port_push_owned
  <2>ReleaseMoved. ASSUME SetFacts, PlaceInv, NEW a \in Proc, Step(a), discard(a) \/ msg_dispose(a)
                   PROVE  Moved(a)
    <3> USE <2>ReleaseMoved
    <3> DEFINE l == [Idle EXCEPT !.outer = local[a].outer]
    <3>0. ProcType /\ a \in Actor /\ {"leave", "run"} \subseteq Places
      BY ProcActor, Zenon DEF PlaceInv, Places
    <3>1. pc[a] \in {"discard", "dispose"} /\ Release(a)
      BY Zenon DEF discard, msg_dispose
    <3>2. local' = [local EXCEPT ![a] = l] /\ UNCHANGED <<tableVars, waits>>
      BY <3>1, Zenon DEF Release
    <3>3. l = [Idle EXCEPT !.outer = local[a].outer] /\ local[a].outer \in BOOLEAN
      BY <3>0, LocalOf, Zenon
    <3> HIDE DEF l
    <3>4. l \in Locals /\ Plain(l) /\ l.outer = local[a].outer
      BY <3>3, Zenon DEF Idle, Locals, Plain
    <3>5. LocalsTo(a, l)
      BY <3>0, <3>2, <3>4, <1>LocalsPut, Zenon
    <3>6. Out(a) \in Places /\ Out(a) \notin {"region", "blocked"}
      BY <3>0, Zenon DEF Out
    <3>7. InHand(Out(a), l, rights'[a], after) /\ InHand("region", l, rights'[a], Out(a))
      BY <3>4, Zenon DEF InHand, Plain, Owns, Out
    <3>8. CASE Region(a, <<Msg(local[a].msg)>>, Out(a))
      <4>1. local[a].msg \in MsgId
        BY <3>1, MessageOf, Zenon
      <4>2. Msg(local[a].msg) \in Tasks
        BY <4>1, TaskMakes, Zenon
      <4>3. TaskFits(Msg(local[a].msg), a, rights')
        BY SMT DEF TaskFits, Msg
      <4>4. <<Msg(local[a].msg)>> \in Seq(Tasks) /\ Fits(<<Msg(local[a].msg)>>, a, rights')
        BY <4>2, <4>3, <1>OneTask, Zenon
      <4> QED BY <3>1, <3>2, <3>4, <3>5, <3>6, <3>7, <3>8, <4>4, <1>RegionMoved, Zenon
    <3>9. CASE Goto(a, Out(a)) /\ UNCHANGED regionVars
      BY <3>1, <3>2, <3>4, <3>5, <3>6, <3>7, <3>9, <1>GoneMoved, Zenon
    <3> QED BY <3>1, <3>8, <3>9, Zenon DEF Release
  <2>TakingMoved. ASSUME SetFacts, PlaceInv, NEW a \in Proc, Step(a),
                         deserialize(a) \/ deserialize_done(a) \/ deserialize_fail(a) \/ deserialize_raise(a)
                  PROVE  Moved(a)
    <3> USE <2>TakingMoved
    <3>0. ProcType /\ HolderType /\ a \in Actor /\ {"deserialize", "dispose", "undo", "run"} \subseteq Places
      BY ProcActor, Zenon DEF PlaceInv, Places
    <3>1. pc[a] = "deserialize" /\ UNCHANGED <<waits, regionVars>>
      BY Zenon DEF deserialize, deserialize_done, deserialize_fail, deserialize_raise
    <3>2. InHand("deserialize", local[a], rights[a], after)
      BY <3>1, Zenon DEF PlaceInv, Hands
    <3>3. local[a] \in Locals /\ local[a].minted \in SUBSET Handle
      BY <3>0, LocalOf, Zenon
    <3>4. CASE deserialize(a)
      <4> DEFINE h == Lowest(Free(a))
                 l == [local[a] EXCEPT !.next = @ + 1, !.minted = @ \cup {h}]
                 r == [port |-> refs[local[a].msg][local[a].next].port,
                       recv |-> refs[local[a].msg][local[a].next].recv]
      <4>1. /\ Free(a) # {} /\ rights' = [rights EXCEPT ![a][h] = r] /\ pc' = pc
            /\ local[a].next \in Refs(local[a].msg)
            /\ local' = [local EXCEPT ![a].next = @ + 1, ![a].minted = @ \cup {h}]
        BY <3>4, Zenon DEF deserialize, right_new
      <4>2. local' = [local EXCEPT ![a] = l]
        BY <3>0, <4>1, Zenon DEF ProcType
      <4>3. l = [local[a] EXCEPT !.next = @ + 1, !.minted = @ \cup {h}]
        OBVIOUS
      <4>4. h \in Handle
        BY <4>1, FreeHandle, Zenon
      <4>5. r # NoRight
        <5>1. local[a].msg \in MsgId
          BY <3>1, MessageOf, Zenon
        <5>2. /\ refs[local[a].msg][local[a].next].port \in Port
              /\ refs[local[a].msg][local[a].next].recv \in BOOLEAN
          BY <3>0, <4>1, <5>1, RefOf, Zenon DEF Refs
        <5>3. r \in Right
          BY <5>2, Zenon DEF Right
        <5> QED BY <5>3, PortsAssumption, Zenon
      <4> HIDE DEF l, h, r
      <4>6. /\ l \in Locals /\ l.reply = local[a].reply /\ l.msg = local[a].msg
            /\ l.outer = local[a].outer /\ l.cases = local[a].cases
            /\ l.minted = local[a].minted \cup {h}
        <5> DEFINE k == [local[a] EXCEPT !.next = @ + 1]
        <5>0. k = [local[a] EXCEPT !.next = @ + 1]
          OBVIOUS
        <5>1. l = [k EXCEPT !.minted = @ \cup {h}]
          BY <4>3, Zenon
        <5> HIDE DEF k
        <5>2. /\ k \in Locals /\ k.reply = local[a].reply /\ k.msg = local[a].msg
              /\ k.outer = local[a].outer /\ k.cases = local[a].cases /\ k.minted = local[a].minted
          BY <3>3, <5>0, SMT DEF Locals
        <5>3. /\ l \in Locals /\ l.reply = k.reply /\ l.msg = k.msg
              /\ l.outer = k.outer /\ l.cases = k.cases /\ l.minted = k.minted \cup {h}
          BY <4>4, <5>1, <5>2, SMT DEF Locals
        <5> QED BY <5>2, <5>3
      <4>7. LocalsTo(a, l)
        BY <3>0, <4>2, <4>6, <1>LocalsPut, Zenon
      <4>8. \A g \in Handle : (rights[a][g] # NoRight => rights'[a][g] # NoRight) /\ rights'[a][h] # NoRight
        BY <3>0, <4>1, <4>4, <4>5, Zenon DEF HolderType, Table
      <4>9. \A g \in l.minted : rights'[a][g] # NoRight
        BY <3>2, <3>3, <4>4, <4>6, <4>8, Zenon DEF InHand
      <4>10. InHand("deserialize", l, rights'[a], after)
        BY <3>2, <4>6, <4>9, Zenon DEF InHand, Plain
      <4> QED BY <3>0, <3>1, <4>1, <4>6, <4>7, <4>10, <1>GoneMoved, Zenon
    <3>5. CASE deserialize_done(a)
      <4> DEFINE l == [local[a] EXCEPT !.minted = {}]
      <4>1. Goto(a, "dispose") /\ local' = [local EXCEPT ![a] = l]
        BY <3>5, Zenon DEF deserialize_done
      <4>2. l = [local[a] EXCEPT !.minted = {}]
        OBVIOUS
      <4> HIDE DEF l
      <4>3. /\ l \in Locals /\ l.reply = local[a].reply /\ l.msg = local[a].msg
            /\ l.outer = local[a].outer /\ l.cases = local[a].cases
        BY <3>3, <4>2, <1>BuiltLocal, SMT
      <4>4. LocalsTo(a, l)
        BY <3>0, <4>1, <4>3, <1>LocalsPut, Zenon
      <4>5. InHand("dispose", l, rights'[a], after)
        BY <3>2, <4>3, Zenon DEF InHand, Plain
      <4> QED BY <3>0, <3>1, <4>1, <4>3, <4>4, <4>5, <1>GoneMoved, Zenon
    <3>6. CASE deserialize_fail(a)
      <4>1. Goto(a, "undo") /\ local' = local /\ rights' = rights
        BY <3>6, Zenon DEF deserialize_fail, tableVars
      <4>2. LocalsTo(a, local[a]) /\ InHand("undo", local[a], rights'[a], after)
        BY <3>0, <3>2, <4>1, <1>LocalsStill, Zenon DEF InHand
      <4> QED BY <3>0, <3>1, <4>1, <4>2, <1>GoneMoved, Zenon
    <3>7. CASE deserialize_raise(a)
      <4>1. Goto(a, "run") /\ local' = [local EXCEPT ![a] = Idle]
        BY <3>7, Zenon DEF deserialize_raise
      <4>2. LocalsTo(a, Idle) /\ InHand("run", Idle, rights'[a], after) /\ ~Idle.outer
        BY <3>0, <4>1, IdleLocal, <1>LocalsPut, HandsAtRun, Zenon
      <4> QED BY <3>0, <3>1, <4>1, <4>2, <1>GoneMoved, Zenon
    <3> QED BY <3>4, <3>5, <3>6, <3>7
  <2>UndoMoved. ASSUME SetFacts, PlaceInv, NEW a \in Proc, Step(a), minted_undo(a)
                PROVE  Moved(a)
    <3> USE <2>UndoMoved
    <3> DEFINE l == [local[a] EXCEPT !.minted = {}]
    <3>0. ProcType /\ a \in Actor /\ "dispose" \in Places
      BY ProcActor, Zenon DEF PlaceInv, Places
    <3>1. /\ pc[a] = "undo" /\ local' = [local EXCEPT ![a] = l] /\ UNCHANGED <<tableVars, waits>>
          /\ \/ Goto(a, "dispose") /\ UNCHANGED regionVars
             \/ /\ local[a].minted # {} /\ Region(a, <<Drop(a, local[a].minted, TRUE)>>, "dispose")
      BY Zenon DEF minted_undo
    <3>2. InHand("undo", local[a], rights[a], after) /\ rights' = rights
      BY <3>1, Zenon DEF PlaceInv, Hands, tableVars
    <3>3. local[a] \in Locals /\ local[a].minted \in SUBSET Handle
      BY <3>0, LocalOf, Zenon
    <3>4. l = [local[a] EXCEPT !.minted = {}]
      OBVIOUS
    <3> HIDE DEF l
    <3>5. /\ l \in Locals /\ l.reply = local[a].reply /\ l.msg = local[a].msg
          /\ l.outer = local[a].outer /\ l.cases = local[a].cases
      BY <3>3, <3>4, <1>BuiltLocal, SMT
    <3>6. LocalsTo(a, l)
      BY <3>0, <3>1, <3>5, <1>LocalsPut, Zenon
    <3>7. InHand("dispose", l, rights'[a], after) /\ InHand("region", l, rights'[a], "dispose")
      BY <3>2, <3>5, Zenon DEF InHand, Plain
    <3>8. CASE Goto(a, "dispose") /\ UNCHANGED regionVars
      BY <3>0, <3>1, <3>5, <3>6, <3>7, <3>8, <1>GoneMoved, Zenon
    <3>9. CASE local[a].minted # {} /\ Region(a, <<Drop(a, local[a].minted, TRUE)>>, "dispose")
      <4> DEFINE tasks == <<Drop(a, local[a].minted, TRUE)>>
      <4>1. \A h \in local[a].minted : rights'[a][h] # NoRight
        BY <3>2, Zenon DEF InHand
      <4>2. tasks \in Seq(Tasks) /\ Fits(tasks, a, rights')
        BY <3>3, <3>9, <4>1, <1>DropFits, Zenon
      <4>3. Region(a, tasks, "dispose")
        BY <3>9
      <4> HIDE DEF tasks
      <4> QED BY <3>0, <3>1, <3>5, <3>6, <3>7, <4>2, <4>3, <1>RegionMoved, Zenon
    <3> QED BY <3>1, <3>8, <3>9
  <2>WokenMoved. ASSUME SetFacts, PlaceInv, NEW a \in Proc, Step(a), call_k(a) \/ alt_k(a)
                 PROVE  Moved(a)
    <3> USE <2>WokenMoved
    <3>0. ProcType /\ "run" \in Places
      BY Zenon DEF PlaceInv, Places
    <3>1. ASSUME Goto(a, "run"), local' = [local EXCEPT ![a] = Idle],
                 UNCHANGED <<regionVars, waits>>, pc[a] \in {"call_k", "alt_k"}
          PROVE  Moved(a)
      <4>1. LocalsTo(a, Idle) /\ InHand("run", Idle, rights'[a], after) /\ ~Idle.outer
        BY <3>0, <3>1, IdleLocal, <1>LocalsPut, HandsAtRun, Zenon
      <4> QED BY <3>0, <3>1, <4>1, <1>GoneMoved, Zenon
    <3>2. CASE call_k(a)
      <4> DEFINE p == rights[a][local[a].reply].port
      <4>1. /\ pc[a] = "call_k"
            /\ \/ port_pop(a, p, FALSE) /\ UNCHANGED regionVars
               \/ /\ Goto(a, "run") /\ local' = [local EXCEPT ![a] = Idle]
                  /\ UNCHANGED <<regionVars, waits>>
               \/ Park(a, {<<p, "hup">>}) /\ UNCHANGED local
        BY <3>2, Zenon DEF call_k
      <4>2. local[a].reply \in Handle /\ rights[a][local[a].reply] # NoRight /\ p \in Port
        BY <4>1, ReplyOf, PortsAssumption, Zenon
      <4>3. Mine(a, p) # {}
        BY <4>2, MineOf, Zenon
      <4> HIDE DEF p
      <4>4. CASE port_pop(a, p, FALSE) /\ UNCHANGED regionVars
        BY <4>1, <4>2, <4>4, <1>TookMoved, Zenon
      <4>5. CASE Park(a, {<<p, "hup">>}) /\ UNCHANGED local
        <5>1. InHand("call_k", local[a], rights[a], after)
          BY <4>1, Zenon DEF PlaceInv, Hands
        <5>2. LocalsTo(a, local[a]) /\ InHand("blocked", local[a], rights[a], after)
          BY <3>0, <4>5, <5>1, <1>LocalsStill, Zenon DEF InHand
        <5>3. /\ {<<p, "hup">>} \in SUBSET (Port \X Kinds) /\ {<<p, "hup">>} # {}
              /\ \A w \in {<<p, "hup">>} : w[1] = p
          BY <4>2, SMT DEF Kinds
        <5>4. PICK W : W = {<<p, "hup">>}
          BY Zenon
        <5> QED BY <4>1, <4>3, <4>5, <5>2, <5>3, <5>4, <1>ParkMoved, Zenon
      <4> QED BY <3>1, <4>1, <4>4, <4>5, Zenon
    <3>3. CASE alt_k(a)
      <4>1. /\ pc[a] = "alt_k"
            /\ \/ alt_take(a, local[a].cases)
               \/ /\ Goto(a, "run") /\ local' = [local EXCEPT ![a] = Idle]
                  /\ UNCHANGED <<regionVars, waits>>
        BY <3>3, Zenon DEF alt_k
      <4>2. \A c \in local[a].cases : rights[a][c[1]].port \in Port
        BY <4>1, CasesOf, Zenon
      <4> QED BY <3>1, <4>1, <4>2, <1>TakeMoved, Zenon
    <3> QED BY <3>2, <3>3
  <2>LeaveMoved. ASSUME SetFacts, PlaceInv, NEW a \in Proc, Step(a), Leave(a)
                 PROVE  Moved(a)
    <3> USE <2>LeaveMoved
    <3> DEFINE l == [Idle EXCEPT !.reply = local[a].reply]
    <3>0. ProcType /\ a \in Actor /\ Resumed(a) \in Places
      BY ProcActor, ResumedIn, Zenon DEF PlaceInv
    <3>1. /\ pc[a] = "leave" /\ ipclock_leave(a) /\ Goto(a, Resumed(a))
          /\ local' = [local EXCEPT ![a] = l] /\ UNCHANGED <<tableVars, waits, stack, after>>
      BY Zenon DEF Leave
    <3>2. InHand("leave", local[a], rights[a], after) /\ rights' = rights
      BY <3>1, Zenon DEF PlaceInv, Hands, tableVars
    <3>3. wide = a /\ stack = <<>>
      <4>1. wide = a
        BY <3>0, <3>2, Zenon DEF PlaceInv, Regions, InHand
      <4> QED BY <3>0, <3>1, <4>1, NoTasks, Zenon
    <3>4. l = [Idle EXCEPT !.reply = local[a].reply] /\ local[a].reply \in Handle \cup {NoHandle}
      BY <3>0, LocalOf, Zenon
    <3> HIDE DEF l
    <3>5. l \in Locals /\ l.reply = local[a].reply /\ ~l.outer /\ l.cases = {}
      BY <3>4, Zenon DEF Idle, Locals
    <3>6. LocalsTo(a, l)
      BY <3>0, <3>1, <3>5, <1>LocalsPut, Zenon
    <3>7. Paced(a, Resumed(a)) /\ waits'[a] = {} /\ Resumed(a) \notin {"region", "blocked"}
      BY <3>0, <3>1, <1>PacedGoto, <1>NotParked, ResumedIn, Zenon DEF ResumedAt
    <3>8. RegionStep(a)
      BY <3>1, <3>3, <3>5, <3>6, <3>7, Zenon DEF RegionStep, Paced, LocalsTo
    <3>9. InHand(Resumed(a), l, rights'[a], after')
      BY <3>1, <3>2, <3>5, Zenon DEF InHand, Resumed, Owns, Plain
    <3> QED BY <3>6, <3>7, <3>8, <3>9, <1>PacedMoved, Zenon
  <2>StepMoved. ASSUME SetFacts, PlaceInv, NEW a \in Proc, Step(a)
                PROVE  Moved(a)
    BY <2>StepMoved, <2>SendingMoved, <2>ReleaseMoved, <2>TakingMoved, <2>UndoMoved,
       <2>WokenMoved, <2>LeaveMoved, Zenon DEF Step
  <2> QED BY <1>StepMoved, <2>StepMoved, Zenon
(* The end of a region. *)
<1>DoneMoved. ASSUME PlaceInv, NEW a \in Actor, RegionDone(a)
              PROVE  Moved(a)
  <2> USE <1>DoneMoved
  <2>0. ProcType /\ RegionType /\ Hands /\ Loop /\ Regions /\ Proc \subseteq Actor /\ Kernel \notin Proc
    BY ProcActor, Zenon DEF PlaceInv
  <2>1. /\ wide = a /\ pc[a] = "region" /\ stack = <<>> /\ ipclock_leave(a)
        /\ pc' = [pc EXCEPT ![a] = after]
        /\ local' = IF after \in {"run", "dead"} THEN [local EXCEPT ![a] = Idle] ELSE local
        /\ UNCHANGED <<tableVars, waits, stack, after>>
    BY Zenon DEF RegionDone, Goto
  <2>2. after \in {"run", "dead", "leave", "dispose"} /\ after \in Places
    <3>1. a \in Proc => after \in {"run", "dead", "leave", "dispose"}
      BY <2>0, <2>1, Zenon DEF Hands, InHand
    <3>2. a = Kernel => after = "run"
      BY <2>0, <2>1, Zenon DEF Loop
    <3> QED BY <3>1, <3>2, Zenon DEF Actor, Places
  <2>3. /\ pc' \in [Actor -> Places] /\ pc'[a] = after /\ \A b \in Actor \ {a} : pc'[b] = pc[b]
    BY <2>0, <2>1, <2>2, Zenon DEF ProcType
  <2>4. /\ local' \in [Actor -> Locals] /\ \A b \in Actor \ {a} : local'[b] = local[b]
        /\ after \in {"run", "dead"} => local'[a] = Idle
        /\ after \notin {"run", "dead"} => local'[a] = local[a]
    BY <2>0, <2>1, IdleLocal, Zenon DEF ProcType
  <2>5. ProcType' /\ rights' = rights
    BY <2>0, <2>1, <2>3, <2>4, Zenon DEF ProcType, tableVars
  <2>6. Turn(a)
    BY <2>0, <2>1, <2>3, <2>4, <2>5, ProcActor, Zenon DEF Turn
  <2>7. RegionStep(a)
    <3>1. local'[a].outer => local[a].outer
      BY <2>4, IdleLocal, Zenon
    <3>2. local[a].outer => depth > 1
      BY <2>0, <2>1, Zenon DEF Regions
    <3> QED BY <2>1, <2>2, <2>3, <3>1, <3>2, Zenon DEF RegionStep
  <2>8. ASSUME a \in Proc
        PROVE  /\ InHand(pc'[a], local'[a], rights'[a], after')
               /\ waits'[a] # {} <=> pc'[a] = "blocked"
               /\ \A w \in waits'[a] : Mine(a, w[1])' # {}
    <3>1. InHand("region", local[a], rights[a], after)
      BY <2>0, <2>1, <2>8, Zenon DEF Hands
    <3>2. InHand(after, local'[a], rights'[a], after)
      <4>1. CASE after \in {"run", "dead"}
        BY <2>4, <4>1, IdleLocal, Zenon DEF InHand
      <4>2. CASE after \in {"leave", "dispose"}
        BY <2>4, <3>1, <4>2, Zenon DEF InHand, Plain, Owns
      <4> QED BY <2>2, <4>1, <4>2
    <3>3. waits'[a] = {}
      BY <2>1, <2>8, <1>NotParked, Zenon
    <3> QED BY <2>1, <2>2, <2>3, <3>2, <3>3, Zenon
  <2>9. a = Kernel => Loop'
    BY <2>0, <2>1, <2>2, <2>3, <2>4, IdleLocal, Zenon DEF Loop
  <2> QED BY <2>5, <2>6, <2>7, <2>8, <2>9, Zenon DEF Moved
<1>ActsMoved. ASSUME SetFacts, PlaceInv, NEW a \in Actor, Acts(a)
              PROVE  Moved(a)
  <2> USE <1>ActsMoved
  <2>1. CASE a \in Proc /\ (Call(a) \/ Step(a))
    BY <2>1, <1>CallMoved, <1>StepMoved, Zenon
  <2>2. CASE Task(a)
    BY <2>2, <1>TaskMoved, <1>DoneMoved, Zenon
  <2>3. CASE a = Kernel /\ expire_timers
    BY <2>3, ExpireMoved, Zenon
  <2> QED BY <2>1, <2>2, <2>3, Zenon DEF Acts
<1> QED BY <1>ActsMoved, Zenon

(* PlaceInv is inductive. *)
LEMMA PlaceActs ==
    ASSUME SetFacts, PlaceInv, NEW a \in Actor, Acts(a)
    PROVE  PlaceInv'
<1>1. PortType' /\ Emptied' /\ HolderType'
  <2>1. CASE a \in Proc /\ (Call(a) \/ Step(a))
    BY <2>1, PortsCall, PortsOn, HoldersOn, Zenon
  <2>2. CASE Task(a)
    BY <2>2, PortsTask, HoldersTask, Zenon
  <2>3. CASE expire_timers
    <3>1. UNCHANGED <<portVars, tableVars, refs, timers>>
      BY <2>3, ExpireMoved, Zenon
    <3> QED BY <3>1, Zenon DEF PlaceInv, PortType, Emptied, HolderType, portVars, tableVars
  <2> QED BY <2>1, <2>2, <2>3, Zenon DEF Acts
<1> QED BY <1>1, ActsMoved, MovedKeeps, Zenon

(* A step of the system is a step of some actor. *)
LEMMA NextActs ==
    ASSUME Next
    PROVE  \E a \in Actor : Acts(a)
BY ProcActor, Zenon DEF Next, Acts
============================================================================
