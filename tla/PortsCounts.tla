---------------------------- MODULE PortsCounts ----------------------------
(***************************************************************************)
(* What is counted in Ports: every step moves nrights and nrecv as it      *)
(* moves the references, and leaves no waiter behind.                      *)
(***************************************************************************)
EXTENDS PortsPlace

(* The references to a port in a table of rights: of procs, or of messages. *)
Cells(A, B) == [A -> [B -> Right \cup {NoRight}]]
Uses(A, B, R, p) == {x \in A \X B : R[x[1]][x[2]] # NoRight /\ R[x[1]][x[2]].port = p}
Takes(A, B, R, p) == {x \in Uses(A, B, R, p) : R[x[1]][x[2]].recv}

Many(S) == Cardinality(S)
Bit(b) == IF b THEN 1 ELSE 0

(* One empty cell of a table filled: the counts go up by one, for its port *)
(* alone.                                                                  *)
Fill(A, B, R, R2, a, b, r) ==
    /\ R[a][b] = NoRight /\ R2[a][b] = r
    /\ \A x \in A, y \in B : x # a \/ y # b => R2[x][y] = R[x][y]

(* The references to a port, before and after a step. *)
LEMMA HoldersAre ==
    ASSUME NEW p
    PROVE  /\ Holders(p) = Many(Uses(Proc, Handle, rights, p)) + Many(Uses(MsgId, Slot, refs, p))
                           + Many(InTimers(p))
           /\ Receivers(p) = Many(Takes(Proc, Handle, rights, p)) + Many(Takes(MsgId, Slot, refs, p))
           /\ Holders(p)' = Many(Uses(Proc, Handle, rights', p)) + Many(Uses(MsgId, Slot, refs', p))
                            + Many(InTimers(p)')
           /\ Receivers(p)' = Many(Takes(Proc, Handle, rights', p))
                              + Many(Takes(MsgId, Slot, refs', p))
BY Zenon DEF Holders, Receivers, Many, Uses, Takes, InTables, InMessages, RecvTables, RecvMessages

(* The references to a port are finitely many. *)
LEMMA ManyNat ==
    ASSUME SetFacts, NEW p
    PROVE  /\ \A R : /\ Many(Uses(Proc, Handle, R, p)) \in Nat
                     /\ Many(Takes(Proc, Handle, R, p)) \in Nat
                     /\ Many(Uses(Proc, Handle, R, p)) = 0 <=> Uses(Proc, Handle, R, p) = {}
                     /\ Many(Takes(Proc, Handle, R, p)) = 0 <=> Takes(Proc, Handle, R, p) = {}
           /\ \A R : /\ Many(Uses(MsgId, Slot, R, p)) \in Nat
                     /\ Many(Takes(MsgId, Slot, R, p)) \in Nat
                     /\ Many(Uses(MsgId, Slot, R, p)) = 0 <=> Uses(MsgId, Slot, R, p) = {}
                     /\ Many(Takes(MsgId, Slot, R, p)) = 0 <=> Takes(MsgId, Slot, R, p) = {}
           /\ Many(InTimers(p)) \in Nat /\ Many(InTimers(p)') \in Nat
<1>0. ASSUME NEW S, NEW U, IsFiniteSet(U), S \in SUBSET U
      PROVE  IsFiniteSet(S) /\ Many(S) \in Nat /\ (Many(S) = 0 <=> S = {})
  BY <1>0, Zenon DEF SetFacts, Many
<1>1. IsFiniteSet(Proc \X Handle) /\ IsFiniteSet(MsgId \X Slot) /\ IsFiniteSet(Timer)
  BY Zenon DEF SetFacts
<1>2. /\ \A R : /\ Uses(Proc, Handle, R, p) \in SUBSET (Proc \X Handle)
                /\ Takes(Proc, Handle, R, p) \in SUBSET (Proc \X Handle)
      /\ \A R : /\ Uses(MsgId, Slot, R, p) \in SUBSET (MsgId \X Slot)
                /\ Takes(MsgId, Slot, R, p) \in SUBSET (MsgId \X Slot)
      /\ InTimers(p) \in SUBSET Timer /\ InTimers(p)' \in SUBSET Timer
  BY Zenon DEF Uses, Takes, InTimers
<1> QED BY <1>0, <1>1, <1>2, Zenon

(* Holders and Receivers are naturals, and who receives holds. *)
LEMMA CountsNat ==
    ASSUME SetFacts, NEW p
    PROVE  /\ Holders(p) \in Nat /\ Receivers(p) \in Nat
           /\ Holders(p)' \in Nat /\ Receivers(p)' \in Nat
           /\ Holders(p) = 0 => Receivers(p) = 0
<1> DEFINE u == Many(Uses(Proc, Handle, rights, p))
           v == Many(Uses(MsgId, Slot, refs, p))
           t == Many(Takes(Proc, Handle, rights, p))
           s == Many(Takes(MsgId, Slot, refs, p))
           n == Many(InTimers(p))
<1>1. u \in Nat /\ v \in Nat /\ t \in Nat /\ s \in Nat /\ n \in Nat
  BY ManyNat, Zenon
<1>2. (u = 0 => t = 0) /\ (v = 0 => s = 0)
  <2>1. Uses(Proc, Handle, rights, p) = {} => Takes(Proc, Handle, rights, p) = {}
    BY Zenon DEF Takes
  <2>2. Uses(MsgId, Slot, refs, p) = {} => Takes(MsgId, Slot, refs, p) = {}
    BY Zenon DEF Takes
  <2> QED BY <2>1, <2>2, ManyNat, Zenon
<1>3. Holders(p) = u + v + n /\ Receivers(p) = t + s
  BY HoldersAre, Zenon
<1> HIDE DEF u, v, t, s, n
<1>4. Holders(p) \in Nat /\ Receivers(p) \in Nat /\ (Holders(p) = 0 => Receivers(p) = 0)
  BY <1>1, <1>2, <1>3, SMT
<1> DEFINE u2 == Many(Uses(Proc, Handle, rights', p))
           v2 == Many(Uses(MsgId, Slot, refs', p))
           t2 == Many(Takes(Proc, Handle, rights', p))
           s2 == Many(Takes(MsgId, Slot, refs', p))
           n2 == Many(InTimers(p)')
<1>5. u2 \in Nat /\ v2 \in Nat /\ t2 \in Nat /\ s2 \in Nat /\ n2 \in Nat
  BY ManyNat, Zenon
<1>6. Holders(p)' = u2 + v2 + n2 /\ Receivers(p)' = t2 + s2
  BY HoldersAre, Zenon
<1> HIDE DEF u2, v2, t2, s2, n2
<1>7. Holders(p)' \in Nat /\ Receivers(p)' \in Nat
  BY <1>5, <1>6, SMT
<1> QED BY <1>4, <1>7

(* A step moves the references of one port, by d, and its receivers by e. *)
Shift(p, d, e) ==
    \A q \in Port : /\ Holders(q)' = Holders(q) + (IF q = p THEN d ELSE 0)
                    /\ Receivers(q)' = Receivers(q) + (IF q = p THEN e ELSE 0)

(* A step that moves no reference moves no count. *)
LEMMA ShiftNone ==
    ASSUME UNCHANGED <<rights, refs, timers>>, NEW p
    PROVE  Holders(p)' = Holders(p) /\ Receivers(p)' = Receivers(p)
BY Zenon DEF Holders, Receivers, InTables, InMessages, InTimers, RecvTables, RecvMessages

----------------------------------------------------------------------------
(* The ports a region's tasks will free, and those it will wake. *)
NoFree(s, p)  == \A i \in 1 .. Len(s) : s[i].op = "free" => s[i].port # p
HangsIn(s, p) == \E i \in 1 .. Len(s) : s[i] = Hangup(p)

(* z frees no port that s does not, and wakes those that s does. *)
Carries(s, z) == \A p \in Port : /\ NoFree(s, p) => NoFree(z, p)
                                 /\ HangsIn(s, p) => HangsIn(z, p)

(* Listed and Hung, of any stack. *)
LEMMA ListedIs == \A p : /\ Listed(p) <=> NoFree(stack, p)
                         /\ Hung(p) <=> HangsIn(stack, p)
                         /\ Listed(p)' <=> NoFree(stack', p)
                         /\ Hung(p)' <=> HangsIn(stack', p)
BY Zenon DEF Listed, Hung, NoFree, HangsIn

(* The task that wakes on hangup. *)
LEMMA HangupOp == \A p : Hangup(p).op = "hangup"
BY SMT DEF Hangup

(* Carries is transitive, *)
LEMMA CarriesOver ==
    ASSUME NEW s, NEW y, NEW z, Carries(s, y), Carries(y, z)
    PROVE  Carries(s, z)
BY Zenon DEF Carries

(* and reflexive. *)
LEMMA CarriesSame == \A s : Carries(s, s)
BY Zenon DEF Carries

(* A stack with tasks pushed on it still wakes all it did. *)
LEMMA CarriesMore ==
    ASSUME NEW s \in Seq(Tasks), NEW z \in Seq(Tasks), NEW k \in Nat, Len(z) = Len(s) + k,
           \A i \in 1 .. Len(s) : z[i + k] = s[i]
    PROVE  /\ \A p : HangsIn(s, p) => HangsIn(z, p)
           /\ \A p : NoFree(s, p) /\ (\A i \in 1 .. k : z[i].op = "free" => z[i].port # p)
                        => NoFree(z, p)
<1>0. Len(s) \in Nat /\ Len(z) \in Nat
  BY SMT
<1>1. \A i \in 1 .. Len(s) : i + k \in 1 .. Len(z)
  BY <1>0, SMT
<1>2. \A i \in 1 .. Len(z) : i \in 1 .. k \/ (i - k \in 1 .. Len(s) /\ z[i] = s[i - k])
  BY <1>0, SMT
<1>3. ASSUME NEW p, HangsIn(s, p) PROVE HangsIn(z, p)
  <2>1. PICK i \in 1 .. Len(s) : s[i] = Hangup(p)
    BY <1>3, Zenon DEF HangsIn
  <2>2. z[i + k] = Hangup(p) /\ i + k \in 1 .. Len(z)
    BY <1>1, <2>1, Zenon
  <2> QED BY <2>2, Zenon DEF HangsIn
<1>4. ASSUME NEW p, NoFree(s, p), \A i \in 1 .. k : z[i].op = "free" => z[i].port # p,
             NEW i \in 1 .. Len(z), z[i].op = "free"
      PROVE  z[i].port # p
  <2>1. CASE i \in 1 .. k
    BY <1>4, <2>1, Zenon
  <2>2. CASE i - k \in 1 .. Len(s) /\ z[i] = s[i - k]
    BY <1>4, <2>2, Zenon DEF NoFree
  <2> QED BY <1>2, <2>1, <2>2, Zenon
<1> QED BY <1>3, <1>4, Zenon DEF NoFree

(* One task pushed, *)
LEMMA CarriesPush ==
    ASSUME NEW s \in Seq(Tasks), NEW x \in Tasks
    PROVE  /\ \A p : HangsIn(s, p) => HangsIn(<<x>> \o s, p)
           /\ \A p : NoFree(s, p) /\ (x.op = "free" => x.port # p) => NoFree(<<x>> \o s, p)
           /\ \A p : x = Hangup(p) => HangsIn(<<x>> \o s, p)
           /\ x.op # "free" => Carries(s, <<x>> \o s)
<1> DEFINE z == <<x>> \o s
<1>1. /\ z \in Seq(Tasks) /\ Len(z) = Len(s) + 1 /\ z[1] = x
      /\ \A i \in 1 .. Len(s) : z[i + 1] = s[i]
  BY PushOne, Zenon
<1>2. Len(s) \in Nat
  BY SMT
<1> HIDE DEF z
<1>3. (\A i \in 1 .. 1 : i = 1) /\ 1 \in 1 .. Len(z)
  BY <1>1, <1>2, SMT
<1>4. /\ \A p : HangsIn(s, p) => HangsIn(z, p)
      /\ \A p : NoFree(s, p) /\ (\A i \in 1 .. 1 : z[i].op = "free" => z[i].port # p) => NoFree(z, p)
  <2>1. 1 \in Nat
    BY SMT
  <2> QED BY <1>1, <2>1, CarriesMore, Zenon
<1>5. \A p : NoFree(s, p) /\ (x.op = "free" => x.port # p) => NoFree(z, p)
  BY <1>1, <1>3, <1>4, Zenon
<1>6. \A p : x = Hangup(p) => HangsIn(z, p)
  BY <1>1, <1>3, Zenon DEF HangsIn
<1> QED BY <1>4, <1>5, <1>6, Zenon DEF z, Carries

(* and two. *)
LEMMA CarriesPushTwo ==
    ASSUME NEW s \in Seq(Tasks), NEW x \in Tasks, NEW y \in Tasks, x.op # "free"
    PROVE  /\ \A p : HangsIn(s, p) => HangsIn(<<x, y>> \o s, p)
           /\ \A p : NoFree(s, p) /\ (y.op = "free" => y.port # p) => NoFree(<<x, y>> \o s, p)
           /\ \A p : y = Hangup(p) => HangsIn(<<x, y>> \o s, p)
           /\ y.op # "free" => Carries(s, <<x, y>> \o s)
<1> DEFINE z == <<x, y>> \o s
<1>1. /\ z \in Seq(Tasks) /\ Len(z) = Len(s) + 2 /\ z[1] = x /\ z[2] = y
      /\ \A i \in 1 .. Len(s) : z[i + 2] = s[i]
  BY PushTwo, SMT
<1>2. Len(s) \in Nat
  BY SMT
<1> HIDE DEF z
<1>3. (\A i \in 1 .. 2 : i = 1 \/ i = 2) /\ 2 \in 1 .. Len(z)
  BY <1>1, <1>2, SMT
<1>4. /\ \A p : HangsIn(s, p) => HangsIn(z, p)
      /\ \A p : NoFree(s, p) /\ (\A i \in 1 .. 2 : z[i].op = "free" => z[i].port # p) => NoFree(z, p)
  BY <1>1, CarriesMore, SMT
<1>5. ASSUME NEW p, NoFree(s, p), y.op = "free" => y.port # p PROVE NoFree(z, p)
  <2>1. \A i \in 1 .. 2 : z[i].op = "free" => z[i].port # p
    BY <1>1, <1>3, <1>5, Zenon
  <2> QED BY <1>4, <1>5, <2>1, Zenon
<1>6. \A p : y = Hangup(p) => HangsIn(z, p)
  BY <1>1, <1>3, Zenon DEF HangsIn
<1> QED BY <1>4, <1>5, <1>6, Zenon DEF z, Carries

(* The first task done. *)
LEMMA CarriesTail ==
    ASSUME NEW s \in Seq(Tasks), s # <<>>
    PROVE  /\ \A p : NoFree(s, p) => NoFree(Tail(s), p)
           /\ \A p : HangsIn(s, p) /\ Head(s) # Hangup(p) => HangsIn(Tail(s), p)
           /\ Head(s).op # "hangup" => Carries(s, Tail(s))
<1> DEFINE z == Tail(s)
<1>0. /\ z \in Seq(Tasks) /\ Head(s) = s[1] /\ Len(s) \in Nat /\ Len(s) > 0
      /\ Len(z) = Len(s) - 1 /\ \A i \in 1 .. (Len(s) - 1) : z[i] = s[i + 1]
  BY TailOf
<1> HIDE DEF z
<1>1. \A i \in 1 .. Len(z) : i + 1 \in 1 .. Len(s) /\ z[i] = s[i + 1]
  BY <1>0, SMT
<1>2. \A i \in 1 .. Len(s) : i = 1 \/ (i - 1 \in 1 .. Len(z) /\ z[i - 1] = s[i])
  BY <1>0, SMT
<1>3. \A p : NoFree(s, p) => NoFree(z, p)
  BY <1>1, Zenon DEF NoFree
<1>4. ASSUME NEW p, HangsIn(s, p), Head(s) # Hangup(p) PROVE HangsIn(z, p)
  <2>1. PICK i \in 1 .. Len(s) : s[i] = Hangup(p)
    BY <1>4, Zenon DEF HangsIn
  <2>2. i # 1
    BY <1>0, <1>4, <2>1, Zenon
  <2>3. i - 1 \in 1 .. Len(z) /\ z[i - 1] = Hangup(p)
    BY <1>2, <2>1, <2>2, Zenon
  <2> QED BY <2>3, Zenon DEF HangsIn
<1>5. Head(s).op # "hangup" => \A p : Head(s) # Hangup(p)
  BY HangupOp, Zenon
<1> QED BY <1>3, <1>4, <1>5, Zenon DEF z, Carries

----------------------------------------------------------------------------
(* What a step can do to counts, queues and waiters: nothing, ... *)
Awake(a) == a \in Proc => pc'[a] # "blocked"

Quiet(a) ==
    /\ Awake(a) /\ UNCHANGED <<portVars, rights, refs, timers>>
    /\ Carries(stack, stack')

(* ... put its proc to sleep, on what is not ready, ... *)
Unready(a, w) ==
    /\ w[2] = "send" => Full(w[1])
    /\ w[2] # "send" => queue[w[1]] = <<>>
    /\ w[2] = "hup" => ~sole_holder(a, w[1])

Parks(a) ==
    /\ UNCHANGED <<portVars, rights, refs, timers, stack>>
    /\ a \in Proc => \A w \in waits'[a] : Unready(a, w)

(* ... put a message on a queue and wake its readers, take one and wake    *)
(* its writers, ...                                                        *)
Pushes(a) ==
    /\ Awake(a) /\ UNCHANGED <<used, nrights, nrecv, dead, rights, refs, timers, stack>>
    /\ \E p \in Port : \E at, m :
          /\ ~dead[p] /\ Len(queue[p]) < MAXQUEUE
          /\ queue' = [queue EXCEPT ![p] = Append(@, m)]
          /\ WakeAnd(p, {"recv", "hup"}, a, at)

Pops(a) ==
    /\ Awake(a) /\ UNCHANGED <<used, nrights, nrecv, dead, rights, refs, timers, stack>>
    /\ \E p \in Port : \E at :
          /\ queue[p] # <<>>
          /\ queue' = [queue EXCEPT ![p] = Tail(@)]
          /\ WakeAnd(p, {"send"}, a, at)

(* ... copy a reference there is, make a port, or drop a reference. *)
Gains(a) ==
    /\ Awake(a) /\ UNCHANGED <<used, dead, queue>> /\ Carries(stack, stack')
    /\ \E p \in Port, e \in {0, 1} :
          /\ Holders(p) > 0 /\ Shift(p, 1, e)
          /\ nrights' = [nrights EXCEPT ![p] = @ + 1]
          /\ nrecv' = [nrecv EXCEPT ![p] = @ + e]

News(a) ==
    /\ Awake(a) /\ stack = <<>> /\ Carries(stack, stack')
    /\ \E p \in Port, e \in {0, 1} :
          /\ p \notin used /\ used' = used \cup {p}
          /\ dead' = [dead EXCEPT ![p] = FALSE] /\ queue' = [queue EXCEPT ![p] = <<>>]
          /\ Shift(p, e, e)
          /\ NewCounts(p, e)

Loses(a) ==
    /\ Awake(a)
    /\ \E p \in Port, e \in {0, 1}, q \in Seq(MsgId), rest \in Seq(Tasks) :
          /\ Shift(p, -1, -e) /\ Carries(stack, rest)
          /\ port_unref(p, nrecv[p] - e, q, rest)
          /\ \/ q = queue[p]
             \/ ~dead[p] /\ Len(queue[p]) < MAXQUEUE /\ Wake(p, {"recv", "hup"})

(* Nobody parks on a task of a region. *)
LEMMA TaskAwake ==
    ASSUME SetFacts, PlaceInv, NEW a \in Actor, Task(a)
    PROVE  Awake(a)
<1>1. CASE RegionDone(a)
  <2>1. pc[a] = "region" /\ pc' = [pc EXCEPT ![a] = after] /\ pc \in [Actor -> Places]
    BY <1>1, Zenon DEF RegionDone, Goto, PlaceInv, ProcType
  <2>2. pc'[a] = after
    BY <2>1, Zenon
  <2>3. a \in Proc => after \in {"run", "dead", "leave", "dispose"}
    BY <2>1, Zenon DEF PlaceInv, Hands, InHand
  <2>4. "blocked" \notin {"run", "dead", "leave", "dispose"}
    BY SMT
  <2> QED BY <2>2, <2>3, <2>4, Zenon DEF Awake
<1>2. CASE ~RegionDone(a)
  BY <1>2, TaskTurn, SMT DEF Awake
<1> QED BY <1>1, <1>2

(* A right of a proc is one of the references to its port. *)
LEMMA MineHeld ==
    ASSUME SetFacts, NEW b \in Proc, NEW p
    PROVE  /\ Mine(b, p) # {} => Holders(p) > 0
           /\ Mine(b, p)' # {} => Holders(p)' > 0
<1>1. /\ Mine(b, p) # {} => Uses(Proc, Handle, rights, p) # {}
      /\ Mine(b, p)' # {} => Uses(Proc, Handle, rights', p) # {}
  <2>1. ASSUME NEW R, NEW h \in Handle, R[b][h] # NoRight, R[b][h].port = p
        PROVE  Uses(Proc, Handle, R, p) # {}
    <3>1. <<b, h>> \in Proc \X Handle /\ <<b, h>>[1] = b /\ <<b, h>>[2] = h
      BY SMT
    <3>2. <<b, h>> \in Uses(Proc, Handle, R, p)
      BY <2>1, <3>1, Zenon DEF Uses
    <3> QED BY <3>2, Zenon
  <2> QED BY <2>1, Zenon DEF Mine
<1> DEFINE u == Many(Uses(Proc, Handle, rights, p))
           u2 == Many(Uses(Proc, Handle, rights', p))
           v == Many(Uses(MsgId, Slot, refs, p)) 
           v2 == Many(Uses(MsgId, Slot, refs', p))
           n == Many(InTimers(p))
           n2 == Many(InTimers(p)')
<1>2. /\ u \in Nat /\ u2 \in Nat /\ v \in Nat /\ v2 \in Nat /\ n \in Nat /\ n2 \in Nat
      /\ Mine(b, p) # {} => u # 0
      /\ Mine(b, p)' # {} => u2 # 0
  BY <1>1, ManyNat, Zenon
<1>3. Holders(p) = u + v + n /\ Holders(p)' = u2 + v2 + n2
  BY HoldersAre, Zenon
<1> HIDE DEF u, u2, v, v2, n, n2
<1> QED BY <1>2, <1>3, SMT

(* Words for the places are different words. *)
LEMMA Words ==
    /\ "run" # "blocked" /\ "region" # "blocked" /\ "serialize" # "blocked" /\ "discard" # "blocked"
    /\ "deserialize" # "blocked" /\ "undo" # "blocked" /\ "dispose" # "blocked"
    /\ "leave" # "blocked" /\ "call_k" # "blocked" /\ "alt_k" # "blocked"
    /\ "run" # "region" /\ "discard" # "region" /\ "dispose" # "region" /\ "undo" # "region"
    /\ "blocked" # "region" /\ "call_k" # "region" /\ "alt_k" # "region"
    /\ "msg" # "free" /\ "drop" # "free" /\ "arm" # "free" /\ "reap" # "free" /\ "expire" # "free"
BY SMT

(* Every step is one of these. *)
LEMMA FormsOf ==
    ASSUME SetFacts, PlaceInv, NEW actor \in Actor, Acts(actor)
    PROVE  \/ Quiet(actor) \/ Parks(actor) \/ Pushes(actor) \/ Pops(actor) \/ Gains(actor)
           \/ News(actor) \/ Loses(actor) \/ port_free(actor) \/ port_hangup(actor)
<1>UsesCount. ASSUME SetFacts, NEW A, NEW B, IsFiniteSet(A \X B), NEW R, NEW R2,
                     NEW a \in A, NEW b \in B, NEW r \in Right, Fill(A, B, R, R2, a, b, r), NEW p
              PROVE  /\ Many(Uses(A, B, R, p)) \in Nat /\ Many(Takes(A, B, R, p)) \in Nat
                     /\ Many(Uses(A, B, R2, p)) = Many(Uses(A, B, R, p)) + Bit(r.port = p)
                     /\ Many(Takes(A, B, R2, p)) = Many(Takes(A, B, R, p)) + Bit(r.port = p /\ r.recv)
  <2> USE <1>UsesCount
  <2> DEFINE S == Uses(A, B, R, p)
             T == Takes(A, B, R, p)
             S2 == Uses(A, B, R2, p)
             T2 == Takes(A, B, R2, p)
             c == <<a, b>>
  <2>1. /\ c \notin S /\ c \notin T
        /\ S2 = IF r.port = p THEN S \cup {c} ELSE S
        /\ T2 = IF r.port = p /\ r.recv THEN T \cup {c} ELSE T
    <3>0. r # NoRight
      BY PortsAssumption
    <3>1. R2[a][b] = r /\ R[a][b] = NoRight
      BY Zenon DEF Fill
    <3>2. ASSUME NEW x \in A \X B, x # <<a, b>> PROVE R2[x[1]][x[2]] = R[x[1]][x[2]]
      <4>1. x[1] \in A /\ x[2] \in B /\ (x[1] # a \/ x[2] # b)
        BY <3>2, SMT
      <4> QED BY <4>1, Zenon DEF Fill
    <3>3. <<a, b>> \in A \X B /\ <<a, b>>[1] = a /\ <<a, b>>[2] = b
      BY SMT
    <3>4. <<a, b>> \notin Uses(A, B, R, p) /\ <<a, b>> \notin Takes(A, B, R, p)
      BY <3>1, <3>3, Zenon DEF Uses, Takes
    <3>5. \A x \in A \X B : x \in Uses(A, B, R2, p) <=>
             IF x = <<a, b>> THEN r.port = p ELSE x \in Uses(A, B, R, p)
      <4>1. \A x \in A \X B : x # <<a, b>> => (x \in Uses(A, B, R2, p) <=> x \in Uses(A, B, R, p))
        BY <3>2, Zenon DEF Uses
      <4>2. <<a, b>> \in Uses(A, B, R2, p) <=> r.port = p
        BY <3>0, <3>1, <3>3, Zenon DEF Uses
      <4> QED BY <4>1, <4>2, Zenon
    <3>6. \A x \in A \X B : x \in Takes(A, B, R2, p) <=>
             IF x = <<a, b>> THEN r.port = p /\ r.recv ELSE x \in Takes(A, B, R, p)
      <4>1. \A x \in A \X B : x # <<a, b>> => (x \in Takes(A, B, R2, p) <=> x \in Takes(A, B, R, p))
        BY <3>2, <3>5, Zenon DEF Takes
      <4>2. <<a, b>> \in Takes(A, B, R2, p) <=> r.port = p /\ r.recv
        BY <3>1, <3>3, <3>5, Zenon DEF Takes
      <4> QED BY <4>1, <4>2, Zenon
    <3>7. /\ Uses(A, B, R, p) \subseteq A \X B /\ Uses(A, B, R2, p) \subseteq A \X B
          /\ Takes(A, B, R, p) \subseteq A \X B /\ Takes(A, B, R2, p) \subseteq A \X B
      BY Zenon DEF Uses, Takes
    <3>8. Uses(A, B, R2, p) = IF r.port = p THEN Uses(A, B, R, p) \cup {<<a, b>>}
                              ELSE Uses(A, B, R, p)
      BY <3>3, <3>4, <3>5, <3>7, Zenon
    <3>9. Takes(A, B, R2, p) = IF r.port = p /\ r.recv THEN Takes(A, B, R, p) \cup {<<a, b>>}
                               ELSE Takes(A, B, R, p)
      BY <3>3, <3>4, <3>6, <3>7, Zenon
    <3> QED BY <3>4, <3>8, <3>9, Zenon
  <2>2. S \in SUBSET (A \X B) /\ T \in SUBSET (A \X B)
    BY Zenon DEF Uses, Takes
  <2> HIDE DEF S, T, S2, T2, c
  <2>3. IsFiniteSet(S) /\ IsFiniteSet(T)
    BY <2>2, Zenon DEF SetFacts
  <2>4. /\ Many(S) \in Nat /\ Many(T) \in Nat
        /\ Many(S \cup {c}) = Many(S) + 1 /\ Many(T \cup {c}) = Many(T) + 1
    BY <2>1, <2>3, Zenon DEF SetFacts, Many
  <2> HIDE DEF Many
  <2>5. Many(S2) = Many(S) + Bit(r.port = p) /\ Many(T2) = Many(T) + Bit(r.port = p /\ r.recv)
    BY <2>1, <2>4, SMT DEF Bit
  <2> QED BY <2>4, <2>5 DEF S, T, S2, T2
<1>ShiftTables. ASSUME SetFacts, NEW a \in Proc, NEW h \in Handle, NEW r \in Right, UNCHANGED <<refs, timers>>
                PROVE  /\ Fill(Proc, Handle, rights, rights', a, h, r) => Shift(r.port, 1, Bit(r.recv))
                       /\ Fill(Proc, Handle, rights', rights, a, h, r) => Shift(r.port, -1, -Bit(r.recv))
  <2> USE <1>ShiftTables
  <2>1. ASSUME NEW q \in Port, NEW R, NEW R2, Fill(Proc, Handle, R, R2, a, h, r)
        PROVE  /\ Many(Uses(Proc, Handle, R2, q)) = Many(Uses(Proc, Handle, R, q)) + Bit(r.port = q)
               /\ Many(Takes(Proc, Handle, R2, q))
                  = Many(Takes(Proc, Handle, R, q)) + Bit(r.port = q /\ r.recv)
    <3>1. IsFiniteSet(Proc \X Handle)
      BY Zenon DEF SetFacts
    <3> QED BY <2>1, <3>1, <1>UsesCount, SMT
  <2>2. ASSUME NEW q \in Port
        PROVE  /\ Fill(Proc, Handle, rights, rights', a, h, r) =>
                     /\ Holders(q)' = Holders(q) + Bit(r.port = q)
                     /\ Receivers(q)' = Receivers(q) + Bit(r.port = q /\ r.recv)
               /\ Fill(Proc, Handle, rights', rights, a, h, r) =>
                     /\ Holders(q)' = Holders(q) - Bit(r.port = q)
                     /\ Receivers(q)' = Receivers(q) - Bit(r.port = q /\ r.recv)
    <3> DEFINE u == Many(Uses(Proc, Handle, rights, q))
               v == Many(Uses(MsgId, Slot, refs, q))
               t == Many(Takes(Proc, Handle, rights, q))
               s == Many(Takes(MsgId, Slot, refs, q))
               n == Many(InTimers(q))
               u2 == Many(Uses(Proc, Handle, rights', q))
               t2 == Many(Takes(Proc, Handle, rights', q))
    <3>1. /\ u \in Nat /\ v \in Nat /\ t \in Nat /\ s \in Nat /\ n \in Nat /\ u2 \in Nat /\ t2 \in Nat
      BY ManyNat, Zenon
    <3>2. InTimers(q)' = InTimers(q) /\ refs' = refs
      BY Zenon DEF InTimers
    <3>3. /\ Holders(q) = u + v + n /\ Receivers(q) = t + s
          /\ Holders(q)' = u2 + v + n /\ Receivers(q)' = t2 + s
      BY <3>2, HoldersAre, Zenon
    <3>4. /\ Fill(Proc, Handle, rights, rights', a, h, r) =>
                u2 = u + Bit(r.port = q) /\ t2 = t + Bit(r.port = q /\ r.recv)
          /\ Fill(Proc, Handle, rights', rights, a, h, r) =>
                u = u2 + Bit(r.port = q) /\ t = t2 + Bit(r.port = q /\ r.recv)
      <4>1. ASSUME Fill(Proc, Handle, rights, rights', a, h, r)
            PROVE  u2 = u + Bit(r.port = q) /\ t2 = t + Bit(r.port = q /\ r.recv)
        BY <2>1, <4>1, SMT
      <4>2. ASSUME Fill(Proc, Handle, rights', rights, a, h, r)
            PROVE  u = u2 + Bit(r.port = q) /\ t = t2 + Bit(r.port = q /\ r.recv)
        BY <2>1, <4>2, SMT
      <4> QED BY <4>1, <4>2
    <3> HIDE DEF u, v, t, s, n, u2, t2
    <3> QED BY <3>1, <3>3, <3>4, SMT DEF Bit
  <2>3. \A x \in Nat : x - 1 = x + (-1) /\ x - 0 = x + 0 /\ \A b \in {0, 1} : x - b = x + (-b)
    BY SMT
  <2>4. ASSUME NEW q \in Port
        PROVE  /\ Holders(q) \in Nat /\ Receivers(q) \in Nat /\ Bit(r.recv) \in {0, 1}
    BY CountsNat, Zenon DEF Bit
  <2>5. ASSUME Fill(Proc, Handle, rights, rights', a, h, r), NEW q \in Port
        PROVE  /\ Holders(q)' = Holders(q) + (IF q = r.port THEN 1 ELSE 0)
               /\ Receivers(q)' = Receivers(q) + (IF q = r.port THEN Bit(r.recv) ELSE 0)
    <3>1. /\ Holders(q)' = Holders(q) + Bit(r.port = q)
          /\ Receivers(q)' = Receivers(q) + Bit(r.port = q /\ r.recv)
      BY <2>2, <2>5, Zenon
    <3>2. CASE q = r.port
      <4>1. Bit(r.port = q) = 1 /\ Bit(r.port = q /\ r.recv) = Bit(r.recv)
        BY <3>2, SMT DEF Bit
      <4> QED BY <3>1, <3>2, <4>1, Zenon
    <3>3. CASE q # r.port
      <4>1. Bit(r.port = q) = 0 /\ Bit(r.port = q /\ r.recv) = 0
        BY <3>3, SMT DEF Bit
      <4> QED BY <3>1, <3>3, <4>1, Zenon
    <3> QED BY <3>2, <3>3, Zenon
  <2>6. ASSUME Fill(Proc, Handle, rights', rights, a, h, r), NEW q \in Port
        PROVE  /\ Holders(q)' = Holders(q) + (IF q = r.port THEN -1 ELSE 0)
               /\ Receivers(q)' = Receivers(q) + (IF q = r.port THEN -Bit(r.recv) ELSE 0)
    <3>1. /\ Holders(q)' = Holders(q) - Bit(r.port = q)
          /\ Receivers(q)' = Receivers(q) - Bit(r.port = q /\ r.recv)
      BY <2>2, <2>6, Zenon
    <3>2. CASE q = r.port
      <4>1. Bit(r.port = q) = 1 /\ Bit(r.port = q /\ r.recv) = Bit(r.recv)
        BY <3>2, SMT DEF Bit
      <4>2. Holders(q) - 1 = Holders(q) + (-1) /\ Receivers(q) - Bit(r.recv) = Receivers(q) + (-Bit(r.recv))
        BY <2>3, <2>4, Zenon
      <4> QED BY <3>1, <3>2, <4>1, <4>2, Zenon
    <3>3. CASE q # r.port
      <4>1. Bit(r.port = q) = 0 /\ Bit(r.port = q /\ r.recv) = 0
        BY <3>3, SMT DEF Bit
      <4>2. Holders(q) - 0 = Holders(q) + 0 /\ Receivers(q) - 0 = Receivers(q) + 0
        BY <2>3, <2>4, Zenon
      <4> QED BY <3>1, <3>3, <4>1, <4>2, Zenon
    <3> QED BY <3>2, <3>3, Zenon
  <2> QED BY <2>5, <2>6, Zenon DEF Shift
<1>ShiftRefs. ASSUME SetFacts, NEW a \in MsgId, NEW h \in Slot, NEW r \in Right, UNCHANGED <<rights, timers>>
              PROVE  /\ Fill(MsgId, Slot, refs, refs', a, h, r) => Shift(r.port, 1, Bit(r.recv))
                     /\ Fill(MsgId, Slot, refs', refs, a, h, r) => Shift(r.port, -1, -Bit(r.recv))
  <2> USE <1>ShiftRefs
  <2>1. ASSUME NEW q \in Port, NEW R, NEW R2, Fill(MsgId, Slot, R, R2, a, h, r)
        PROVE  /\ Many(Uses(MsgId, Slot, R2, q)) = Many(Uses(MsgId, Slot, R, q)) + Bit(r.port = q)
               /\ Many(Takes(MsgId, Slot, R2, q))
                  = Many(Takes(MsgId, Slot, R, q)) + Bit(r.port = q /\ r.recv)
    <3>1. IsFiniteSet(MsgId \X Slot)
      BY Zenon DEF SetFacts
    <3> QED BY <2>1, <3>1, <1>UsesCount, SMT
  <2>2. ASSUME NEW q \in Port
        PROVE  /\ Fill(MsgId, Slot, refs, refs', a, h, r) =>
                     /\ Holders(q)' = Holders(q) + Bit(r.port = q)
                     /\ Receivers(q)' = Receivers(q) + Bit(r.port = q /\ r.recv)
               /\ Fill(MsgId, Slot, refs', refs, a, h, r) =>
                     /\ Holders(q)' = Holders(q) - Bit(r.port = q)
                     /\ Receivers(q)' = Receivers(q) - Bit(r.port = q /\ r.recv)
    <3> DEFINE u == Many(Uses(MsgId, Slot, refs, q))
               v == Many(Uses(Proc, Handle, rights, q))
               t == Many(Takes(MsgId, Slot, refs, q))
               s == Many(Takes(Proc, Handle, rights, q))
               n == Many(InTimers(q))
               u2 == Many(Uses(MsgId, Slot, refs', q))
               t2 == Many(Takes(MsgId, Slot, refs', q))
    <3>1. /\ u \in Nat /\ v \in Nat /\ t \in Nat /\ s \in Nat /\ n \in Nat /\ u2 \in Nat /\ t2 \in Nat
      BY ManyNat, Zenon
    <3>2. InTimers(q)' = InTimers(q) /\ rights' = rights
      BY Zenon DEF InTimers
    <3>3. /\ Holders(q) = v + u + n /\ Receivers(q) = s + t
          /\ Holders(q)' = v + u2 + n /\ Receivers(q)' = s + t2
      BY <3>2, HoldersAre, Zenon
    <3>4. /\ Fill(MsgId, Slot, refs, refs', a, h, r) =>
                u2 = u + Bit(r.port = q) /\ t2 = t + Bit(r.port = q /\ r.recv)
          /\ Fill(MsgId, Slot, refs', refs, a, h, r) =>
                u = u2 + Bit(r.port = q) /\ t = t2 + Bit(r.port = q /\ r.recv)
      <4>1. ASSUME Fill(MsgId, Slot, refs, refs', a, h, r)
            PROVE  u2 = u + Bit(r.port = q) /\ t2 = t + Bit(r.port = q /\ r.recv)
        BY <2>1, <4>1, SMT
      <4>2. ASSUME Fill(MsgId, Slot, refs', refs, a, h, r)
            PROVE  u = u2 + Bit(r.port = q) /\ t = t2 + Bit(r.port = q /\ r.recv)
        BY <2>1, <4>2, SMT
      <4> QED BY <4>1, <4>2
    <3> HIDE DEF u, v, t, s, n, u2, t2
    <3> QED BY <3>1, <3>3, <3>4, SMT DEF Bit
  <2>3. \A x \in Nat : x - 1 = x + (-1) /\ x - 0 = x + 0 /\ \A b \in {0, 1} : x - b = x + (-b)
    BY SMT
  <2>4. ASSUME NEW q \in Port
        PROVE  /\ Holders(q) \in Nat /\ Receivers(q) \in Nat /\ Bit(r.recv) \in {0, 1}
    BY CountsNat, Zenon DEF Bit
  <2>5. ASSUME Fill(MsgId, Slot, refs, refs', a, h, r), NEW q \in Port
        PROVE  /\ Holders(q)' = Holders(q) + (IF q = r.port THEN 1 ELSE 0)
               /\ Receivers(q)' = Receivers(q) + (IF q = r.port THEN Bit(r.recv) ELSE 0)
    <3>1. /\ Holders(q)' = Holders(q) + Bit(r.port = q)
          /\ Receivers(q)' = Receivers(q) + Bit(r.port = q /\ r.recv)
      BY <2>2, <2>5, Zenon
    <3>2. CASE q = r.port
      <4>1. Bit(r.port = q) = 1 /\ Bit(r.port = q /\ r.recv) = Bit(r.recv)
        BY <3>2, SMT DEF Bit
      <4> QED BY <3>1, <3>2, <4>1, Zenon
    <3>3. CASE q # r.port
      <4>1. Bit(r.port = q) = 0 /\ Bit(r.port = q /\ r.recv) = 0
        BY <3>3, SMT DEF Bit
      <4> QED BY <3>1, <3>3, <4>1, Zenon
    <3> QED BY <3>2, <3>3, Zenon
  <2>6. ASSUME Fill(MsgId, Slot, refs', refs, a, h, r), NEW q \in Port
        PROVE  /\ Holders(q)' = Holders(q) + (IF q = r.port THEN -1 ELSE 0)
               /\ Receivers(q)' = Receivers(q) + (IF q = r.port THEN -Bit(r.recv) ELSE 0)
    <3>1. /\ Holders(q)' = Holders(q) - Bit(r.port = q)
          /\ Receivers(q)' = Receivers(q) - Bit(r.port = q /\ r.recv)
      BY <2>2, <2>6, Zenon
    <3>2. CASE q = r.port
      <4>1. Bit(r.port = q) = 1 /\ Bit(r.port = q /\ r.recv) = Bit(r.recv)
        BY <3>2, SMT DEF Bit
      <4>2. Holders(q) - 1 = Holders(q) + (-1) /\ Receivers(q) - Bit(r.recv) = Receivers(q) + (-Bit(r.recv))
        BY <2>3, <2>4, Zenon
      <4> QED BY <3>1, <3>2, <4>1, <4>2, Zenon
    <3>3. CASE q # r.port
      <4>1. Bit(r.port = q) = 0 /\ Bit(r.port = q /\ r.recv) = 0
        BY <3>3, SMT DEF Bit
      <4>2. Holders(q) - 0 = Holders(q) + 0 /\ Receivers(q) - 0 = Receivers(q) + 0
        BY <2>3, <2>4, Zenon
      <4> QED BY <3>1, <3>3, <4>1, <4>2, Zenon
    <3> QED BY <3>2, <3>3, Zenon
  <2> QED BY <2>5, <2>6, Zenon DEF Shift
<1>ShiftTimers. ASSUME SetFacts, HolderType, NEW t \in Timer, NEW p \in Port, UNCHANGED <<rights, refs>>
                PROVE  /\ timers[t] = NoPort /\ timers' = [timers EXCEPT ![t] = p] => Shift(p, 1, 0)
                       /\ timers[t] = p /\ timers' = [timers EXCEPT ![t] = NoPort] => Shift(p, -1, 0)
  <2> USE <1>ShiftTimers
  <2>0. NoPort \notin Port /\ IsFiniteSet(Timer)
    BY PortsAssumption, Zenon DEF SetFacts
  <2>1. ASSUME NEW q \in Port, timers[t] = NoPort, timers' = [timers EXCEPT ![t] = p]
        PROVE  /\ t \notin InTimers(q)
               /\ InTimers(q)' = IF q = p THEN InTimers(q) \cup {t} ELSE InTimers(q)
    BY <2>0, <2>1, Zenon DEF InTimers, HolderType
  <2>2. ASSUME NEW q \in Port, timers[t] = p, timers' = [timers EXCEPT ![t] = NoPort]
        PROVE  /\ t \notin InTimers(q)'
               /\ InTimers(q) = IF q = p THEN InTimers(q)' \cup {t} ELSE InTimers(q)'
    BY <2>0, <2>2, Zenon DEF InTimers, HolderType
  <2>3. ASSUME NEW S \in SUBSET Timer, t \notin S
        PROVE  Many(S) \in Nat /\ Many(S \cup {t}) = Many(S) + 1
    BY <2>0, <2>3, Zenon DEF SetFacts, Many
  <2>4. \A q \in Port : InTimers(q) \in SUBSET Timer /\ InTimers(q)' \in SUBSET Timer
    BY Zenon DEF InTimers
  <2>5. ASSUME NEW q \in Port
        PROVE  /\ timers[t] = NoPort /\ timers' = [timers EXCEPT ![t] = p] =>
                     Many(InTimers(q)') = Many(InTimers(q)) + (IF q = p THEN 1 ELSE 0)
               /\ timers[t] = p /\ timers' = [timers EXCEPT ![t] = NoPort] =>
                     Many(InTimers(q)) = Many(InTimers(q)') + (IF q = p THEN 1 ELSE 0)
    <3>1. Many(InTimers(q)) \in Nat /\ Many(InTimers(q)') \in Nat
      BY ManyNat, Zenon
    <3>2. ASSUME timers[t] = NoPort, timers' = [timers EXCEPT ![t] = p]
          PROVE  Many(InTimers(q)') = Many(InTimers(q)) + (IF q = p THEN 1 ELSE 0)
      <4>1. CASE q = p
        BY <2>1, <2>3, <2>4, <3>2, <4>1, Zenon
      <4>2. CASE q # p
        <5>1. InTimers(q)' = InTimers(q)
          BY <2>1, <3>2, <4>2, Zenon
        <5> QED BY <3>1, <4>2, <5>1, SMT
      <4> QED BY <4>1, <4>2
    <3>3. ASSUME timers[t] = p, timers' = [timers EXCEPT ![t] = NoPort]
          PROVE  Many(InTimers(q)) = Many(InTimers(q)') + (IF q = p THEN 1 ELSE 0)
      <4>1. CASE q = p
        BY <2>2, <2>3, <2>4, <3>3, <4>1, Zenon
      <4>2. CASE q # p
        <5>1. InTimers(q)' = InTimers(q)
          BY <2>2, <3>3, <4>2, Zenon
        <5> QED BY <3>1, <4>2, <5>1, SMT
      <4> QED BY <4>1, <4>2
    <3> QED BY <3>2, <3>3
  <2>6. ASSUME NEW q \in Port
        PROVE  /\ timers[t] = NoPort /\ timers' = [timers EXCEPT ![t] = p] =>
                     Holders(q)' = Holders(q) + (IF q = p THEN 1 ELSE 0)
               /\ timers[t] = p /\ timers' = [timers EXCEPT ![t] = NoPort] =>
                     Holders(q)' = Holders(q) + (IF q = p THEN -1 ELSE 0)
               /\ Receivers(q)' = Receivers(q) + (IF q = p THEN 0 ELSE 0)
    <3> DEFINE u == Many(Uses(Proc, Handle, rights, q))
               v == Many(Uses(MsgId, Slot, refs, q))
               n == Many(InTimers(q))
               n2 == Many(InTimers(q)')
    <3>1. u \in Nat /\ v \in Nat /\ n \in Nat /\ n2 \in Nat
      BY ManyNat, Zenon
    <3>2. Holders(q) = u + v + n /\ Holders(q)' = u + v + n2 /\ Receivers(q)' = Receivers(q)
      BY HoldersAre, Zenon
    <3>3. Receivers(q) \in Nat
      BY CountsNat, Zenon
    <3>4. /\ timers[t] = NoPort /\ timers' = [timers EXCEPT ![t] = p] =>
                n2 = n + (IF q = p THEN 1 ELSE 0)
          /\ timers[t] = p /\ timers' = [timers EXCEPT ![t] = NoPort] =>
                n = n2 + (IF q = p THEN 1 ELSE 0)
      BY <2>5, Zenon
    <3> HIDE DEF u, v, n, n2
    <3>5. ASSUME n2 = n + (IF q = p THEN 1 ELSE 0)
          PROVE  Holders(q)' = Holders(q) + (IF q = p THEN 1 ELSE 0)
      BY <3>1, <3>2, <3>5, SMT
    <3>6. ASSUME n = n2 + (IF q = p THEN 1 ELSE 0)
          PROVE  Holders(q)' = Holders(q) + (IF q = p THEN -1 ELSE 0)
      BY <3>1, <3>2, <3>6, SMT
    <3>7. Receivers(q)' = Receivers(q) + (IF q = p THEN 0 ELSE 0)
      BY <3>2, <3>3, SMT
    <3> QED BY <3>4, <3>5, <3>6, <3>7, Zenon
  <2> QED BY <2>6, Zenon DEF Shift
(* A region with no wake to do, and one that frees nothing. *)
<1>CarriesPlain. ASSUME NEW s, NEW z, \A i \in 1 .. Len(s) : s[i].op # "hangup",
                        \A i \in 1 .. Len(z) : z[i].op # "free"
                 PROVE  Carries(s, z)
  BY <1>CarriesPlain, HangupOp, Zenon DEF Carries, NoFree, HangsIn
<1>CarriesFromNone. ASSUME NEW z, \A i \in 1 .. Len(z) : z[i].op # "free"
                    PROVE  Carries(<<>>, z)
  <2> USE <1>CarriesFromNone
  <2>1. \A i \in 1 .. Len(<<>>) : FALSE
    BY SMT
  <2> QED BY <2>1, <1>CarriesPlain, Zenon
(* A task done that was neither a wake nor the end of a port. *)
<1>TaskQuiet. ASSUME SetFacts, PlaceInv, NEW a \in Actor, Task(a), stack # <<>>, Head(stack).op # "hangup",
                     stack' = Tail(stack), UNCHANGED <<portVars, rights, refs, timers>>
              PROVE  Quiet(a)
  <2> USE <1>TaskQuiet
  <2>1. stack \in Seq(Tasks) /\ Awake(a)
    BY TaskAwake, Zenon DEF PlaceInv, RegionType
  <2> QED BY <2>1, CarriesTail, Zenon DEF Quiet
<1>FormsTask. ASSUME SetFacts, PlaceInv, NEW self \in Actor, Task(self)
              PROVE  \/ Quiet(self) \/ Gains(self) \/ Loses(self) \/ port_free(self) \/ port_hangup(self)
  (* A reference dropped: from a table, from a message, from the timers. *)
  <2>DropLoses. ASSUME SetFacts, PlaceInv, NEW a \in Actor, right_drop(a)
                PROVE  Loses(a)
    <3> USE <2>DropLoses
    <3>0. Awake(a) /\ HolderType /\ PortType /\ stack \in Seq(Tasks)
      BY TaskAwake, Zenon DEF Task, PlaceInv, RegionType
    <3>1. /\ a \in Proc /\ Head(stack).op = "drop" /\ Tail(stack) = <<>> /\ stack # <<>>
          /\ UNCHANGED <<refs, timers>>
      BY DropForm, Zenon
    <3>2. PICK h \in Handle, rest \in Seq(Tasks) :
               /\ rights[a][h] \in Right
               /\ rights' = [rights EXCEPT ![a][h] = NoRight]
               /\ \A i \in 1 .. Len(rest) : rest[i].op = "drop"
               /\ port_unref(rights[a][h].port, Less(rights[a][h].port, rights[a][h].recv),
                             queue[rights[a][h].port], rest)
      BY DropForm, Zenon
    <3> DEFINE r == rights[a][h]
               p == r.port
    <3>3. r \in Right /\ p \in Port /\ r.recv \in BOOLEAN
      BY <3>2, SMT DEF Right
    <3>4. Shift(p, -1, -Bit(r.recv))
      <4>1. rights \in Cells(Proc, Handle)
        BY <3>0, Zenon DEF HolderType, Table, Cells
      <4>2. Fill(Proc, Handle, rights', rights, a, h, r)
        BY <3>1, <3>2, <4>1, Zenon DEF Fill, Cells
      <4> QED BY <3>1, <3>3, <4>2, <1>ShiftTables, SMT
    <3>5. Bit(r.recv) \in {0, 1} /\ Less(p, r.recv) = nrecv[p] - Bit(r.recv)
      BY <3>0, <3>3, SMT DEF Bit, Less, PortType
    <3>6. Carries(stack, rest)
      <4>1. \A i \in 1 .. Len(stack) : stack[i].op # "hangup"
        <5> DEFINE n == Len(stack)
        <5>0. Len(<<>>) = 0
          BY SMT
        <5>1. Head(stack) = stack[1] /\ n \in Nat /\ Len(<<>>) = n - 1
          BY <3>0, <3>1, TailOf, Zenon
        <5> HIDE DEF n
        <5>2. \A i \in 1 .. n : i = 1
          BY <5>0, <5>1, SMT
        <5>3. \A i \in 1 .. Len(stack) : i = 1
          BY <5>2 DEF n
        <5>4. "drop" # "hangup"
          BY SMT
        <5> QED BY <3>1, <5>1, <5>3, <5>4, Zenon
      <4>2. \A i \in 1 .. Len(rest) : rest[i].op # "free"
        BY <3>2, SMT
      <4> QED BY <4>1, <4>2, <1>CarriesPlain, Zenon
    <3>7. queue[p] \in Seq(MsgId)
      BY <3>0, <3>3, Zenon DEF PortType
    <3>8. port_unref(p, nrecv[p] - Bit(r.recv), queue[p], rest)
      BY <3>2, <3>5, Zenon
    <3> HIDE DEF p, r
    <3> QED BY <3>0, <3>3, <3>4, <3>5, <3>6, <3>7, <3>8, Zenon DEF Loses
  <2>ReleaseLoses. ASSUME SetFacts, PlaceInv, NEW a \in Actor, release_inflight(a)
                   PROVE  Loses(a)
    <3> USE <2>ReleaseLoses
    <3>0. Awake(a) /\ HolderType /\ PortType /\ stack \in Seq(Tasks)
      BY TaskAwake, Zenon DEF Task, PlaceInv, RegionType
    <3>1. UNCHANGED <<rights, timers>>
      BY ReleaseForm, Zenon DEF tableVars
    <3>2. PICK m \in MsgId, j \in Slot :
               /\ refs[m][j] \in Right
               /\ refs' = [refs EXCEPT ![m][j] = NoRight]
               /\ port_unref(refs[m][j].port, Less(refs[m][j].port, refs[m][j].recv),
                             queue[refs[m][j].port], stack)
      BY ReleaseForm, Zenon
    <3> DEFINE r == refs[m][j]
               p == r.port
    <3>3. r \in Right /\ p \in Port /\ r.recv \in BOOLEAN
      BY <3>2, SMT DEF Right
    <3>4. Shift(p, -1, -Bit(r.recv))
      <4>1. refs \in Cells(MsgId, Slot)
        BY <3>0, Zenon DEF HolderType, Cells
      <4>2. Fill(MsgId, Slot, refs', refs, m, j, r)
        BY <3>2, <4>1, Zenon DEF Fill, Cells
      <4> QED BY <3>1, <3>3, <4>2, <1>ShiftRefs, SMT
    <3>5. Bit(r.recv) \in {0, 1} /\ Less(p, r.recv) = nrecv[p] - Bit(r.recv)
      BY <3>0, <3>3, SMT DEF Bit, Less, PortType
    <3>6. Carries(stack, stack)
      BY CarriesSame, Zenon
    <3>7. queue[p] \in Seq(MsgId)
      BY <3>0, <3>3, Zenon DEF PortType
    <3>8. port_unref(p, nrecv[p] - Bit(r.recv), queue[p], stack)
      BY <3>2, <3>5, Zenon
    <3> HIDE DEF p, r
    <3> QED BY <3>0, <3>3, <3>4, <3>5, <3>6, <3>7, <3>8, Zenon DEF Loses
  (* A task replaced by one of its kind that frees nothing. *)
  <2>CarriesNext. ASSUME NEW s \in Seq(Tasks), s # <<>>, Head(s).op # "hangup", NEW x \in Tasks, x.op # "free"
                  PROVE  <<x>> \o Tail(s) \in Seq(Tasks) /\ Carries(s, <<x>> \o Tail(s))
    <3> USE <2>CarriesNext
    <3>1. Tail(s) \in Seq(Tasks) /\ Carries(s, Tail(s))
      BY TailOf, CarriesTail, Zenon
    <3>2. <<x>> \o Tail(s) \in Seq(Tasks) /\ Carries(Tail(s), <<x>> \o Tail(s))
      BY <3>1, PushOne, CarriesPush, Zenon
    <3> QED BY <3>1, <3>2, CarriesOver, Zenon
  <2>TimerLoses. ASSUME SetFacts, PlaceInv, NEW a \in Actor, Task(a), NEW t \in Timer, timers[t] \in Port,
                        timers' = [timers EXCEPT ![t] = NoPort], UNCHANGED <<rights, refs>>,
                        stack # <<>>, Head(stack).op # "hangup", NEW x \in Tasks, x.op # "free",
                        NEW q \in Seq(MsgId),
                        port_unref(timers[t], nrecv[timers[t]], q, <<x>> \o Tail(stack)),
                        \/ q = queue[timers[t]]
                        \/ /\ ~dead[timers[t]] /\ Len(queue[timers[t]]) < MAXQUEUE
                           /\ Wake(timers[t], {"recv", "hup"})
                 PROVE  Loses(a)
    <3> USE <2>TimerLoses
    <3> DEFINE p == timers[t]
               rest == <<x>> \o Tail(stack)
    <3>0. Awake(a) /\ HolderType /\ PortType /\ stack \in Seq(Tasks)
      BY TaskAwake, Zenon DEF PlaceInv, RegionType
    <3>1. rest \in Seq(Tasks) /\ Carries(stack, rest)
      BY <3>0, <2>CarriesNext, Zenon
    <3>2. p \in Port /\ Shift(p, -1, 0)
      BY <3>0, <1>ShiftTimers, Zenon
    <3>3. nrecv[p] - 0 = nrecv[p] /\ -0 = 0
      <4>1. nrecv[p] \in Int
        BY <3>0, <3>2, Zenon DEF PortType
      <4>2. 0 \in Int /\ \A i \in Int : i - 0 = i /\ -i = 0 - i
        BY SMT
      <4> QED BY <4>1, <4>2, Zenon
    <3>4. Shift(p, -1, -0) /\ port_unref(p, nrecv[p] - 0, q, rest) /\ 0 \in {0, 1}
      BY <3>2, <3>3, Zenon
    <3>5. q = queue[p] \/ (~dead[p] /\ Len(queue[p]) < MAXQUEUE /\ Wake(p, {"recv", "hup"}))
      BY Zenon
    <3> HIDE DEF p, rest
    <3> QED BY <3>0, <3>1, <3>2, <3>4, <3>5, Zenon DEF Loses
  <2>ReapDoes. ASSUME SetFacts, PlaceInv, NEW a \in Actor, reap_dead_timers(a)
               PROVE  Quiet(a) \/ Loses(a)
    <3> USE <2>ReapDoes
    <3>1. Task(a) /\ UNCHANGED <<rights, refs>> /\ stack # <<>> /\ Head(stack).op = "reap" /\ PortType
      BY ReapForm, Zenon DEF Task, tableVars, PlaceInv
    <3>2. Head(stack).op # "hangup"
      BY <3>1, SMT
    <3>3. CASE stack' = Tail(stack) /\ UNCHANGED <<portVars, timers>>
      BY <3>1, <3>2, <3>3, <1>TaskQuiet, Zenon
    <3>4. CASE \E t \in Timer :
                  /\ timers[t] \in Port
                  /\ timers' = [timers EXCEPT ![t] = NoPort]
                  /\ Reap(t + 1) \in Tasks
                  /\ port_unref(timers[t], nrecv[timers[t]], queue[timers[t]],
                                <<Reap(t + 1)>> \o Tail(stack))
      <4>1. PICK t \in Timer :
                  /\ timers[t] \in Port
                  /\ timers' = [timers EXCEPT ![t] = NoPort]
                  /\ Reap(t + 1) \in Tasks
                  /\ port_unref(timers[t], nrecv[timers[t]], queue[timers[t]],
                                <<Reap(t + 1)>> \o Tail(stack))
        BY <3>4, Zenon
      <4>2. Reap(t + 1).op # "free" /\ queue[timers[t]] \in Seq(MsgId)
        BY <3>1, <4>1, SMT DEF Reap, PortType
      <4> QED BY <3>1, <3>2, <4>1, <4>2, <2>TimerLoses, Zenon
    <3> QED BY <3>3, <3>4, ReapForm, Zenon
  <2>ExpireDoes. ASSUME SetFacts, PlaceInv, NEW a \in Actor, expire(a)
                 PROVE  Quiet(a) \/ Loses(a)
    <3> USE <2>ExpireDoes
    <3>1. Task(a) /\ UNCHANGED <<rights, refs>> /\ stack # <<>> /\ Head(stack).op = "expire" /\ PortType
      BY ExpireForm, Zenon DEF Task, tableVars, PlaceInv
    <3>2. Head(stack).op # "hangup"
      BY <3>1, SMT
    <3>3. CASE stack' = Tail(stack) /\ UNCHANGED <<portVars, alloc, timers, waits, pc>>
      BY <3>1, <3>2, <3>3, <1>TaskQuiet, Zenon
    <3>4. CASE ~(stack' = Tail(stack) /\ UNCHANGED <<portVars, alloc, timers, waits, pc>>)
      <4>1. PICK t \in Timer, S \in SUBSET Timer, q \in Seq(MsgId) :
                  /\ timers[t] \in Port
                  /\ timers' = [timers EXCEPT ![t] = NoPort]
                  /\ Expire(S) \in Tasks
                  /\ port_unref(timers[t], nrecv[timers[t]], q, <<Expire(S)>> \o Tail(stack))
                  /\ \/ q = queue[timers[t]]
                     \/ /\ ~dead[timers[t]] /\ Len(queue[timers[t]]) < MAXQUEUE
                        /\ Wake(timers[t], {"recv", "hup"})
        BY <3>4, ExpireForm, Zenon
      <4>2. Expire(S).op # "free"
        BY SMT DEF Expire
      <4> QED BY <3>1, <3>2, <4>1, <4>2, <2>TimerLoses, Zenon
    <3> QED BY <3>3, <3>4
  <2>ArmDoes. ASSUME SetFacts, PlaceInv, NEW a \in Actor, timer_arm(a)
              PROVE  Quiet(a) \/ Gains(a)
    <3> USE <2>ArmDoes
    <3>0. Awake(a) /\ HolderType /\ PortType /\ stack \in Seq(Tasks)
      BY TaskAwake, Zenon DEF Task, PlaceInv, RegionType
    <3>1. /\ a \in Proc /\ stack # <<>> /\ Head(stack).op = "arm" /\ Tail(stack) = <<>>
          /\ UNCHANGED <<used, nrecv, dead, queue, rights, refs>>
          /\ \A i \in 1 .. Len(stack') : stack'[i].op \in {"reap", "arm", "drop"}
      BY ArmForm, Zenon DEF tableVars
    <3>2. Carries(stack, stack')
      <4>1. Carries(stack, <<>>)
        <5>1. Head(stack).op # "hangup"
          BY <3>1, SMT
        <5> QED BY <3>0, <3>1, <5>1, CarriesTail, Zenon
      <4>2. \A i \in 1 .. Len(stack') : stack'[i].op # "free"
        BY <3>1, SMT
      <4> QED BY <4>1, <4>2, <1>CarriesFromNone, CarriesOver, Zenon
    <3>3. CASE UNCHANGED <<nrights, timers>>
      BY <3>0, <3>1, <3>2, <3>3, Zenon DEF Quiet, portVars
    <3>4. CASE ~UNCHANGED <<nrights, timers>>
      <4>1. PICK t \in Timer, h \in Handle :
                  /\ timers[t] = NoPort /\ rights[a][h].port \in Port /\ rights[a][h] \in Right
                  /\ timers' = [timers EXCEPT ![t] = rights[a][h].port]
                  /\ nrights' = [nrights EXCEPT ![rights[a][h].port] = @ + 1]
        BY <3>4, ArmForm, Zenon
      <4> DEFINE p == rights[a][h].port
      <4>2. p \in Port /\ Shift(p, 1, 0)
        BY <3>0, <3>1, <4>1, <1>ShiftTimers, Zenon
      <4>3. Holders(p) > 0
        <5>1. rights[a][h] # NoRight
          BY <4>1, PortsAssumption, Zenon
        <5> QED BY <3>1, <4>2, <5>1, MineOf, MineHeld, Zenon
      <4>4. nrecv' = [nrecv EXCEPT ![p] = @ + 0] /\ 0 \in {0, 1}
        <5>1. nrecv[p] \in Int /\ nrecv \in [Port -> Int]
          BY <3>0, <4>2, Zenon DEF PortType
        <5>2. \A i \in Int : i + 0 = i
          BY SMT
        <5>3. nrecv[p] + 0 = nrecv[p]
          BY <5>1, <5>2, Zenon
        <5> QED BY <3>1, <5>1, <5>3, Zenon
      <4>5. nrights' = [nrights EXCEPT ![p] = @ + 1]
        BY <4>1, Zenon
      <4> HIDE DEF p
      <4> QED BY <3>0, <3>1, <3>2, <4>2, <4>3, <4>4, <4>5, Zenon DEF Gains
    <3> QED BY <3>3, <3>4
  <2>FormsTask. ASSUME SetFacts, PlaceInv, NEW a \in Actor, Task(a)
                PROVE  \/ Quiet(a) \/ Gains(a) \/ Loses(a) \/ port_free(a) \/ port_hangup(a)
    <3> USE <2>FormsTask
    <3>0. Awake(a) /\ stack \in Seq(Tasks)
      BY TaskAwake, Zenon DEF PlaceInv, RegionType
    <3>1. CASE msg_free(a)
      <4>1. /\ stack # <<>> /\ Head(stack).op = "msg" /\ stack' = Tail(stack)
            /\ UNCHANGED <<portVars, rights, refs, timers>>
        BY <3>1, Zenon DEF msg_free, tableVars
      <4>2. Head(stack).op # "hangup"
        BY <4>1, SMT
      <4> QED BY <4>1, <4>2, <1>TaskQuiet, Zenon
    <3>2. CASE port_flush(a)
      <4> DEFINE ms == Head(stack).msgs
      <4>1. /\ stack # <<>> /\ Head(stack).op = "flush" /\ UNCHANGED <<portVars, rights, refs, timers>>
            /\ \/ stack' = Tail(stack)
               \/ ms # <<>> /\ stack' = <<Msg(Head(ms)), Flush(Tail(ms))>> \o Tail(stack)
        BY <3>2, Zenon DEF port_flush, FlushNext, tableVars
      <4>2. Head(stack).op # "hangup" /\ Head(stack) \in Tasks /\ Tail(stack) \in Seq(Tasks)
        BY <3>0, <4>1, TailOf, SMT
      <4>3. ms \in Seq(MsgId)
        BY <4>1, <4>2, TaskFields, Zenon
      <4> HIDE DEF ms
      <4>4. CASE stack' = Tail(stack)
        BY <4>1, <4>2, <4>4, <1>TaskQuiet, Zenon
      <4>5. CASE ms # <<>> /\ stack' = <<Msg(Head(ms)), Flush(Tail(ms))>> \o Tail(stack)
        <5>1. Head(ms) \in MsgId /\ Tail(ms) \in Seq(MsgId)
          BY <4>3, <4>5, SMT
        <5>2. Msg(Head(ms)) \in Tasks /\ Flush(Tail(ms)) \in Tasks
          BY <5>1, TaskMakes, Zenon
        <5>3. Msg(Head(ms)).op # "free" /\ Flush(Tail(ms)).op # "free"
          BY SMT DEF Msg, Flush
        <5>4. Carries(Tail(stack), stack')
          BY <4>2, <4>5, <5>2, <5>3, CarriesPushTwo, Zenon
        <5>5. Carries(stack, Tail(stack))
          BY <3>0, <4>1, <4>2, CarriesTail, Zenon
        <5> QED BY <3>0, <4>1, <5>4, <5>5, CarriesOver, Zenon DEF Quiet
      <4> QED BY <4>1, <4>4, <4>5, Zenon
    <3>3. CASE RegionDone(a)
      <4>1. stack' = stack /\ UNCHANGED <<portVars, rights, refs, timers>>
        BY <3>3, Zenon DEF RegionDone, tableVars
      <4> QED BY <3>0, <4>1, CarriesSame, Zenon DEF Quiet
    <3> QED BY <3>1, <3>2, <3>3, <2>DropLoses, <2>ReleaseLoses, <2>ReapDoes, <2>ExpireDoes,
              <2>ArmDoes, Zenon DEF Task
  <2> QED BY <1>FormsTask, <2>FormsTask, Zenon
(* The steps of a proc outside a region's tasks. *)
<1>NoStack. ASSUME PlaceInv, NEW a \in Actor, MayLock(a), pc[a] # "region"
            PROVE  stack = <<>>
  <2> USE <1>NoStack
  <2>1. CASE wide = NoProc
    BY <2>1, Zenon DEF PlaceInv, Regions
  <2>2. CASE wide = a
    BY <2>2, NoTasks, Zenon
  <2> QED BY <2>1, <2>2, Zenon DEF MayLock
<1>GoneAwake. ASSUME PlaceInv, NEW a \in Proc, NEW at, at # "blocked", Goto(a, at)
              PROVE  Awake(a)
  <2> USE <1>GoneAwake
  <2>1. pc \in [Actor -> Places] /\ a \in Actor
    BY ProcActor, Zenon DEF PlaceInv, ProcType
  <2> QED BY <2>1, Zenon DEF Goto, Awake
<1>GoneQuiet. ASSUME PlaceInv, NEW a \in Proc, NEW at, at # "blocked", Goto(a, at),
                     UNCHANGED <<portVars, rights, refs, timers, stack>>
              PROVE  Quiet(a)
  <2> USE <1>GoneQuiet
  <2>1. Carries(stack, stack') /\ Awake(a)
    BY CarriesSame, <1>GoneAwake, Zenon
  <2> QED BY <2>1, Zenon DEF Quiet
<1>OneOp. \A x : \A i \in 1 .. Len(<<x>>) : <<x>>[i] = x
  BY SMT
<1>OneCarries. ASSUME NEW x, x.op # "free"
               PROVE  Carries(<<>>, <<x>>)
  <2> USE <1>OneCarries
  <2>1. \A i \in 1 .. Len(<<x>>) : <<x>>[i].op # "free"
    BY <1>OneOp, Zenon
  <2> QED BY <2>1, <1>CarriesFromNone, Zenon
<1>RegionAwake. ASSUME PlaceInv, NEW a \in Actor, pc[a] # "region", NEW tasks, NEW at, Region(a, tasks, at)
                PROVE  Awake(a) /\ stack = <<>> /\ stack' = tasks
  <2> USE <1>RegionAwake
  <2>1. stack = <<>>
    BY <1>NoStack, Zenon DEF Region, ipclock_enter
  <2>2. pc'[a] = "region"
    BY Zenon DEF Region, Goto, PlaceInv, ProcType
  <2>3. "region" # "blocked"
    BY SMT
  <2> QED BY <2>1, <2>2, <2>3, Zenon DEF Awake, Region
<1>PopDoes. ASSUME PlaceInv, NEW a \in Proc, NEW p \in Port, NEW outer, port_pop(a, p, outer),
                   UNCHANGED <<used, nrights, nrecv, dead, rights, refs, timers, stack>>
            PROVE  Pops(a)
  <2> USE <1>PopDoes
  <2>1. pc'[a] = "deserialize"
    BY ProcActor, Zenon DEF port_pop, WakeAnd
  <2>2. "deserialize" # "blocked"
    BY SMT
  <2> QED BY <2>1, <2>2, Zenon DEF Pops, Awake, port_pop
<1>ParkDoes. ASSUME PlaceInv, NEW a \in Proc, NEW W, Park(a, W), \A w \in W : Unready(a, w)
             PROVE  Parks(a)
  <2> USE <1>ParkDoes
  <2>1. waits'[a] = W
    BY Zenon DEF Park, PlaceInv, ProcType
  <2>2. UNCHANGED <<portVars, rights, refs, timers, stack>>
    BY Zenon DEF Park, tableVars, regionVars
  <2> QED BY <2>1, <2>2, Zenon DEF Parks
<1>RefHeld. ASSUME SetFacts, NEW m \in MsgId, NEW j \in Slot, refs[m][j] # NoRight
            PROVE  Holders(refs[m][j].port) > 0
  <2> USE <1>RefHeld
  <2> DEFINE p == refs[m][j].port
  <2>1. Uses(MsgId, Slot, refs, p) # {}
    <3>1. <<m, j>> \in MsgId \X Slot /\ <<m, j>>[1] = m /\ <<m, j>>[2] = j
      BY SMT
    <3>2. <<m, j>> \in Uses(MsgId, Slot, refs, p)
      BY <3>1, Zenon DEF Uses
    <3> QED BY <3>2, Zenon
  <2> DEFINE u == Many(Uses(Proc, Handle, rights, p))
             v == Many(Uses(MsgId, Slot, refs, p))
             n == Many(InTimers(p))
  <2>2. u \in Nat /\ v \in Nat /\ n \in Nat /\ v # 0
    BY <2>1, ManyNat, Zenon
  <2>3. Holders(p) = u + v + n
    BY HoldersAre, Zenon
  <2> HIDE DEF u, v, n
  <2> QED BY <2>2, <2>3, SMT
(* A right installed. *)
<1>NewShift. ASSUME SetFacts, HolderType, NEW a \in Proc, NEW p \in Port, NEW recv \in BOOLEAN,
                    Free(a) # {}, right_new(a, p, recv), UNCHANGED <<refs, timers>>
             PROVE  Shift(p, 1, Bit(recv))
  <2> USE <1>NewShift
  <2> DEFINE h == Lowest(Free(a))
             r == [port |-> p, recv |-> recv]
  <2>1. h \in Handle /\ rights[a][h] = NoRight
    BY FreeHandle, Zenon
  <2>2. r \in Right /\ r.port = p /\ r.recv = recv
    BY SMT DEF Right
  <2>3. rights' = [rights EXCEPT ![a][h] = r] /\ rights \in Cells(Proc, Handle)
    BY Zenon DEF right_new, HolderType, Table, Cells
  <2> HIDE DEF h, r
  <2>4. Fill(Proc, Handle, rights, rights', a, h, r)
    BY <2>1, <2>3, Zenon DEF Fill, Cells
  <2>5. Shift(r.port, 1, Bit(r.recv))
    BY <2>1, <2>2, <2>4, <1>ShiftTables, SMT
  <2> QED BY <2>2, <2>5, Zenon
<1>CountUp. ASSUME PortType, NEW p \in Port, NEW recv \in BOOLEAN, Count(p, recv)
            PROVE  /\ Bit(recv) \in {0, 1} /\ nrights' = [nrights EXCEPT ![p] = @ + 1]
                   /\ nrecv' = [nrecv EXCEPT ![p] = @ + Bit(recv)]
  <2> USE <1>CountUp
  <2>1. (IF recv THEN nrecv[p] + 1 ELSE nrecv[p]) = nrecv[p] + Bit(recv)
    BY SMT DEF PortType, Bit
  <2> QED BY <2>1, Zenon DEF Count, Bit
<1>OpWords. /\ \A a, S, b : Drop(a, S, b).op # "free"
            /\ \A m : Msg(m).op # "free"
            /\ \A a, h, i : Arm(a, h, i).op # "free"
  BY SMT DEF Drop, Msg, Arm
(* A reference copied: sendright and deserialize into a table, serialize   *)
(* into a message.                                                         *)
<1>CopyDoes. ASSUME SetFacts, PlaceInv, NEW a \in Proc, NEW p \in Port, NEW recv \in BOOLEAN,
                    Free(a) # {}, right_new(a, p, recv), Count(p, recv), Holders(p) > 0,
                    UNCHANGED <<used, dead, queue, refs, timers, stack>>, Awake(a)
             PROVE  Gains(a)
  <2> USE <1>CopyDoes
  <2>1. PortType /\ HolderType
    BY Zenon DEF PlaceInv
  <2>2. Shift(p, 1, Bit(recv))
    BY <2>1, <1>NewShift, Zenon
  <2>3. /\ Bit(recv) \in {0, 1} /\ nrights' = [nrights EXCEPT ![p] = @ + 1]
        /\ nrecv' = [nrecv EXCEPT ![p] = @ + Bit(recv)]
    BY <2>1, <1>CountUp, Zenon
  <2>4. Carries(stack, stack')
    BY CarriesSame, Zenon
  <2> QED BY <2>2, <2>3, <2>4, Zenon DEF Gains
<1>TakeDoes. ASSUME SetFacts, PlaceInv, NEW a \in Proc, NEW C, alt_take(a, C),
                    \A c \in C : rights[a][c[1]].port \in Port
             PROVE  Quiet(a) \/ Pops(a)
  <2> USE <1>TakeDoes
  <2>1. PICK c \in altready(a, C) :
          \/ /\ port_pop(a, rights[a][c[1]].port, TRUE)
             /\ UNCHANGED <<used, nrights, nrecv, dead, tableVars, refs, alloc, timers, stack, after>>
          \/ /\ Goto(a, "run")
             /\ UNCHANGED <<portVars, tableVars, regionVars, refs, alloc, timers, waits>>
    BY Zenon DEF alt_take
  <2>2. rights[a][c[1]].port \in Port
    BY Zenon DEF altready
  <2>3. CASE /\ port_pop(a, rights[a][c[1]].port, TRUE)
             /\ UNCHANGED <<used, nrights, nrecv, dead, tableVars, refs, alloc, timers, stack, after>>
    BY <2>2, <2>3, <1>PopDoes, Zenon DEF tableVars
  <2>4. CASE /\ Goto(a, "run")
             /\ UNCHANGED <<portVars, tableVars, regionVars, refs, alloc, timers, waits>>
    <3>1. UNCHANGED <<portVars, rights, refs, timers, stack>>
      BY <2>4, Zenon DEF tableVars, regionVars
    <3> QED BY <2>4, <3>1, Words, <1>GoneQuiet, Zenon
  <2> QED BY <2>1, <2>3, <2>4, Zenon
<1>FormsCall. ASSUME SetFacts, PlaceInv, NEW self \in Proc, Call(self)
              PROVE  Quiet(self) \/ Parks(self) \/ Pops(self) \/ Gains(self) \/ News(self)
  <2>NewportDoes. ASSUME SetFacts, PlaceInv, NEW a \in Proc, NEW p \in Port, api_newport(a, p)
                  PROVE  News(a)
    <3> USE <2>NewportDoes
    <3>0. HolderType
      BY Zenon DEF PlaceInv
    <3>1. /\ pc[a] = "run" /\ MayLock(a) /\ pc' = pc /\ stack' = stack /\ UNCHANGED <<refs, timers>>
          /\ p \notin used /\ used' = used \cup {p}
          /\ dead' = [dead EXCEPT ![p] = FALSE] /\ queue' = [queue EXCEPT ![p] = <<>>]
      BY Zenon DEF api_newport, port_new, regionVars
    <3>2. Awake(a) /\ stack = <<>> /\ Carries(stack, stack')
      BY <3>1, Words, <1>NoStack, ProcActor, CarriesSame, Zenon DEF Awake
    <3>3. CASE Free(a) # {} /\ right_new(a, p, TRUE) /\ NewCounts(p, 1)
      <4>1. Shift(p, 1, Bit(TRUE)) /\ Bit(TRUE) = 1 /\ 1 \in {0, 1}
        BY <3>0, <3>1, <3>3, <1>NewShift, Zenon DEF Bit
      <4> QED BY <3>1, <3>2, <3>3, <4>1, Zenon DEF News
    <3>4. CASE NewCounts(p, 0) /\ UNCHANGED tableVars
      <4>1. UNCHANGED <<rights, refs, timers>>
        BY <3>1, <3>4, Zenon DEF tableVars
      <4>2. ASSUME NEW q \in Port
            PROVE  /\ Holders(q)' = Holders(q) + (IF q = p THEN 0 ELSE 0)
                   /\ Receivers(q)' = Receivers(q) + (IF q = p THEN 0 ELSE 0)
        <5>1. Holders(q)' = Holders(q) /\ Receivers(q)' = Receivers(q)
          BY <4>1, ShiftNone, Zenon
        <5>2. Holders(q) \in Nat /\ Receivers(q) \in Nat
          BY CountsNat, Zenon
        <5> QED BY <5>1, <5>2, SMT
      <4>3. Shift(p, 0, 0) /\ 0 \in {0, 1}
        BY <4>2, Zenon DEF Shift
      <4> QED BY <3>1, <3>2, <3>4, <4>3, Zenon DEF News
    <3> QED BY <3>3, <3>4, Zenon DEF api_newport
  <2>TimerDoes. ASSUME SetFacts, PlaceInv, NEW a \in Proc, NEW p \in Port, api_timer(a, p)
                PROVE  News(a)
    <3> USE <2>TimerDoes
    <3>0. HolderType /\ a \in Actor
      BY ProcActor, Zenon DEF PlaceInv
    <3>1. /\ pc[a] = "run" /\ Free(a) # {} /\ UNCHANGED <<refs, timers>>
          /\ p \notin used /\ used' = used \cup {p}
          /\ dead' = [dead EXCEPT ![p] = FALSE] /\ queue' = [queue EXCEPT ![p] = <<>>]
          /\ right_new(a, p, TRUE) /\ NewCounts(p, 1)
          /\ Region(a, <<Arm(a, Lowest(Free(a)), 1)>>, "run")
      BY Zenon DEF api_timer, port_new
    <3>2. Awake(a) /\ stack = <<>> /\ stack' = <<Arm(a, Lowest(Free(a)), 1)>>
      BY <3>0, <3>1, Words, <1>RegionAwake, Zenon
    <3>3. Carries(stack, stack')
      BY <3>2, <1>OneCarries, <1>OpWords, Zenon
    <3>4. Shift(p, 1, Bit(TRUE)) /\ Bit(TRUE) = 1 /\ 1 \in {0, 1}
      BY <3>0, <3>1, <1>NewShift, Zenon DEF Bit
    <3> QED BY <3>1, <3>2, <3>3, <3>4, Zenon DEF News
  <2>SendrightDoes. ASSUME SetFacts, PlaceInv, NEW a \in Proc, NEW h \in Handle, api_sendright(a, h)
                    PROVE  Gains(a)
    <3> USE <2>SendrightDoes
    <3> DEFINE p == rights[a][h].port
    <3>1. /\ pc[a] = "run" /\ rights[a][h] # NoRight /\ Free(a) # {}
          /\ right_new(a, p, FALSE) /\ Count(p, FALSE) /\ pc' = pc
          /\ UNCHANGED <<used, dead, queue, refs, timers, stack>>
      BY Zenon DEF api_sendright, regionVars
    <3>2. p \in Port /\ Holders(p) > 0
      BY <3>1, RightOf, MineOf, MineHeld, Zenon DEF PlaceInv
    <3>3. Awake(a)
      BY <3>1, Words, Zenon DEF Awake
    <3> HIDE DEF p
    <3> QED BY <3>1, <3>2, <3>3, <1>CopyDoes, Zenon
  <2>CloseDoes. ASSUME SetFacts, PlaceInv, NEW a \in Proc, (\E h \in Handle : api_close(a, h)) \/ proc_detach(a)
                PROVE  Quiet(a)
    <3> USE <2>CloseDoes
    <3>0. a \in Actor
      BY ProcActor, Zenon
    <3>1. CASE \E h \in Handle : api_close(a, h)
      <4>1. PICK h : /\ pc[a] = "run" /\ Region(a, <<Drop(a, {h}, TRUE)>>, "run")
                     /\ UNCHANGED <<portVars, rights, refs, timers>>
        BY <3>1, Zenon DEF api_close, tableVars
      <4>2. Awake(a) /\ stack = <<>> /\ stack' = <<Drop(a, {h}, TRUE)>>
        BY <3>0, <4>1, Words, <1>RegionAwake, Zenon
      <4> QED BY <4>1, <4>2, <1>OneCarries, <1>OpWords, Zenon DEF Quiet
    <3>2. CASE proc_detach(a)
      <4> DEFINE tasks == IF Held(a) = {} THEN <<>> ELSE <<Drop(a, Held(a), TRUE)>>
      <4>1. /\ pc[a] # "region" /\ Region(a, tasks, "dead")
            /\ UNCHANGED <<portVars, rights, refs, timers>>
        BY <3>2, Words, Zenon DEF proc_detach, tableVars
      <4>2. Awake(a) /\ stack = <<>> /\ stack' = tasks
        BY <3>0, <4>1, <1>RegionAwake, Zenon
      <4>3. Carries(<<>>, tasks)
        BY <1>OneCarries, <1>OpWords, CarriesSame, Zenon
      <4> HIDE DEF tasks
      <4> QED BY <4>1, <4>2, <4>3, Zenon DEF Quiet
    <3> QED BY <3>1, <3>2
  <2>BuildDoes. ASSUME SetFacts, PlaceInv, NEW a \in Proc,
                       \E h \in Handle : \/ \E m \in MsgId : api_send(a, m, h)
                                         \/ \E m \in MsgId, rh \in Handle : api_call(a, m, h, rh)
                PROVE  Quiet(a)
    <3> USE <2>BuildDoes
    <3>1. Goto(a, "serialize") /\ UNCHANGED <<portVars, rights, refs, timers, stack>>
      BY Zenon DEF api_send, api_call, Build, tableVars
    <3> QED BY <3>1, Words, <1>GoneQuiet, Zenon
  <2>WaitDoes. ASSUME SetFacts, PlaceInv, NEW a \in Proc, NEW h \in Handle,
                      api_tryrecv(a, h) \/ api_block(a, h) \/ api_sendblock(a, h)
               PROVE  Pops(a) \/ Parks(a)
    <3> USE <2>WaitDoes
    <3> DEFINE p == rights[a][h].port
    <3>0. HolderType
      BY Zenon DEF PlaceInv
    <3>1. CASE api_tryrecv(a, h)
      <4>1. /\ rights[a][h] # NoRight /\ port_pop(a, p, FALSE)
            /\ UNCHANGED <<used, nrights, nrecv, dead, rights, refs, timers, stack>>
        BY <3>1, Zenon DEF api_tryrecv, RecvRight, tableVars, regionVars
      <4>2. p \in Port
        BY <3>0, <4>1, RightOf, Zenon
      <4> QED BY <4>1, <4>2, <1>PopDoes, Zenon
    <3>2. CASE api_block(a, h)
      <4>1. queue[p] = <<>> /\ Park(a, {<<p, "recv">>})
        BY <3>2, Zenon DEF api_block
      <4>2. \A w \in {<<p, "recv">>} : w[1] = p /\ w[2] # "send" /\ w[2] # "hup"
        BY SMT
      <4> DEFINE W == {<<p, "recv">>}
      <4>3. Park(a, W) /\ \A w \in W : Unready(a, w)
        BY <4>1, <4>2, Zenon DEF Unready
      <4> HIDE DEF W
      <4> QED BY <4>3, <1>ParkDoes, Zenon
    <3>3. CASE api_sendblock(a, h)
      <4>1. Full(p) /\ Park(a, {<<p, "send">>})
        BY <3>3, Zenon DEF api_sendblock
      <4>2. \A w \in {<<p, "send">>} : w[1] = p /\ w[2] = "send" /\ w[2] # "hup"
        BY SMT
      <4> DEFINE W == {<<p, "send">>}
      <4>3. Park(a, W) /\ \A w \in W : Unready(a, w)
        BY <4>1, <4>2, Zenon DEF Unready
      <4> HIDE DEF W
      <4> QED BY <4>3, <1>ParkDoes, Zenon
    <3> QED BY <3>1, <3>2, <3>3
  <2>AltDoes. ASSUME SetFacts, PlaceInv, NEW a \in Proc, NEW C \in Cases, api_alt(a, C)
              PROVE  Quiet(a) \/ Pops(a) \/ Parks(a)
    <3> USE <2>AltDoes
    <3>0. HolderType
      BY Zenon DEF PlaceInv
    <3>1. ASSUME NEW c \in C
          PROVE  c[1] \in Handle /\ rights[a][c[1]] # NoRight /\ rights[a][c[1]].port \in Port
      <4>1. c \in Handle \X Kinds
        BY <3>1, SMT DEF Cases
      <4>2. c[1] \in Handle
        BY <4>1, SMT
      <4>3. rights[a][c[1]] # NoRight
        BY Zenon DEF api_alt
      <4> QED BY <3>0, <4>2, <4>3, RightOf, Zenon
    <3>2. CASE alt_take(a, C)
      BY <3>1, <3>2, <1>TakeDoes, Zenon
    <3>3. CASE /\ altready(a, C) = {} /\ alt_hup(a, C) = {}
               /\ Park(a, {<<rights[a][c[1]].port, c[2]>> : c \in C})
      <4> DEFINE W == {<<rights[a][c[1]].port, c[2]>> : c \in C}
      <4>1. ASSUME NEW w \in W
            PROVE  Unready(a, w)
        <5>1. PICK c \in C : w = <<rights[a][c[1]].port, c[2]>>
          BY Zenon
        <5>2. w[1] = rights[a][c[1]].port /\ w[2] = c[2]
          BY <5>1, SMT
        <5>3. c \notin altready(a, C) /\ c \notin alt_hup(a, C)
          BY <3>3, Zenon
        <5>4. (c[2] = "send" => Full(w[1])) /\ (c[2] # "send" => queue[w[1]] = <<>>)
          BY <5>2, <5>3, Zenon DEF altready
        <5>5. c[2] = "hup" => ~sole_holder(a, w[1])
          BY <5>2, <5>3, Zenon DEF alt_hup
        <5> QED BY <5>2, <5>4, <5>5, Zenon DEF Unready
      <4>2. Park(a, W)
        BY <3>3
      <4> HIDE DEF W
      <4> QED BY <4>1, <4>2, <1>ParkDoes, Zenon
    <3> QED BY <3>2, <3>3, Zenon DEF api_alt
  <2>FormsCall. ASSUME SetFacts, PlaceInv, NEW a \in Proc, Call(a)
                PROVE  Quiet(a) \/ Parks(a) \/ Pops(a) \/ Gains(a) \/ News(a)
    BY <2>FormsCall, <2>NewportDoes, <2>TimerDoes, <2>SendrightDoes, <2>CloseDoes, <2>BuildDoes,
       <2>WaitDoes, <2>AltDoes, Zenon DEF Call
  <2> QED BY <1>FormsCall, <2>FormsCall, Zenon
<1>FormsStep. ASSUME SetFacts, PlaceInv, NEW self \in Proc, Step(self)
              PROVE  Quiet(self) \/ Parks(self) \/ Pushes(self) \/ Pops(self) \/ Gains(self)
  <2>DeserializeDoes. ASSUME SetFacts, PlaceInv, NEW a \in Proc, deserialize(a)
                      PROVE  Gains(a)
    <3> USE <2>DeserializeDoes
    <3> DEFINE m == local[a].msg
               j == local[a].next
               r == refs[m][j]
    <3>1. /\ pc[a] = "deserialize" /\ j \in Refs(m) /\ Free(a) # {} /\ right_new(a, r.port, r.recv)
          /\ Count(r.port, r.recv) /\ pc' = pc
          /\ UNCHANGED <<used, dead, queue, refs, timers, stack>>
      BY Zenon DEF deserialize, regionVars
    <3>2. m \in MsgId
      BY <3>1, MessageOf, Zenon
    <3>3. j \in Slot /\ r # NoRight
      BY <3>1, Zenon DEF Refs
    <3>4. r.port \in Port /\ r.recv \in BOOLEAN /\ Holders(r.port) > 0
      BY <3>2, <3>3, RefOf, <1>RefHeld, Zenon DEF PlaceInv
    <3>5. Awake(a)
      BY <3>1, Words, Zenon DEF Awake
    <3> HIDE DEF r
    <3> QED BY <3>1, <3>4, <3>5, <1>CopyDoes, Zenon
  <2>SerializeDoes. ASSUME SetFacts, PlaceInv, NEW a \in Proc, NEW h \in Handle, serialize(a, h)
                    PROVE  Gains(a)
    <3> USE <2>SerializeDoes
    <3> DEFINE m == local[a].msg
               j == Lowest(FreeSlots(m))
               r == rights[a][h]
    <3>0. PortType /\ HolderType
      BY Zenon DEF PlaceInv
    <3>1. /\ pc[a] = "serialize" /\ r # NoRight /\ FreeSlots(m) # {}
          /\ refs' = [refs EXCEPT ![m][j] = r] /\ Count(r.port, r.recv) /\ pc' = pc
          /\ UNCHANGED <<used, dead, queue, rights, timers, stack>>
      BY Zenon DEF serialize, regionVars, tableVars
    <3>2. m \in MsgId
      BY <3>1, SendOf, Zenon
    <3>3. j \in Slot /\ refs[m][j] = NoRight
      <4>1. FreeSlots(m) \in SUBSET Nat
        BY Ranges, Zenon DEF FreeSlots
      <4>2. j \in FreeSlots(m)
        BY <3>1, <4>1, LowestIn, Zenon
      <4> QED BY <4>2, Zenon DEF FreeSlots, Refs
    <3>4. r \in Right /\ r.port \in Port /\ r.recv \in BOOLEAN /\ Holders(r.port) > 0
      BY <3>0, <3>1, RightOf, MineOf, MineHeld, Zenon
    <3>5. Awake(a) /\ Carries(stack, stack')
      BY <3>1, Words, CarriesSame, Zenon DEF Awake
    <3>6. refs \in Cells(MsgId, Slot)
      BY <3>0, Zenon DEF HolderType, Cells
    <3> HIDE DEF m, j, r
    <3>7. Fill(MsgId, Slot, refs, refs', m, j, r)
      BY <3>1, <3>2, <3>3, <3>6, Zenon DEF Fill, Cells
    <3>8. Shift(r.port, 1, Bit(r.recv))
      <4>1. UNCHANGED <<rights, timers>>
        BY <3>1, Zenon
      <4> QED BY <3>2, <3>3, <3>4, <3>7, <4>1, <1>ShiftRefs, Zenon
    <3>9. /\ Bit(r.recv) \in {0, 1} /\ nrights' = [nrights EXCEPT ![r.port] = @ + 1]
          /\ nrecv' = [nrecv EXCEPT ![r.port] = @ + Bit(r.recv)]
      BY <3>0, <3>1, <3>4, <1>CountUp, Zenon
    <3> QED BY <3>1, <3>4, <3>5, <3>8, <3>9, Zenon DEF Gains
  <2>SendDoes. ASSUME SetFacts, PlaceInv, NEW a \in Proc, serialize_fail(a) \/ port_push_owned(a)
               PROVE  Quiet(a) \/ Pushes(a)
    <3> USE <2>SendDoes
    <3> DEFINE m == local[a].msg
               p == rights[a][local[a].to].port
    <3>1. /\ pc[a] = "serialize"
          /\ UNCHANGED <<used, nrights, nrecv, dead, rights, refs, timers, stack>>
      BY Zenon DEF serialize_fail, port_push_owned, tableVars, regionVars
    <3>2. CASE Discarding(a)
      <4>1. Goto(a, "discard") /\ UNCHANGED <<portVars, rights, refs, timers, stack>>
        BY <3>1, <3>2, Zenon DEF Discarding, portVars
      <4> QED BY <4>1, Words, <1>GoneQuiet, Zenon
    <3>3. CASE /\ ~dead[p] /\ Len(queue[p]) < MAXQUEUE
               /\ queue' = [queue EXCEPT ![p] = Append(@, m)]
               /\ WakeAnd(p, {"recv", "hup"}, a, Out(a))
      <4>1. p \in Port
        BY <3>1, SendOf, Zenon
      <4>2. pc'[a] = Out(a)
        BY <3>3, ProcActor, Zenon DEF WakeAnd
      <4>3. Out(a) # "blocked"
        BY Words, Zenon DEF Out
      <4> HIDE DEF p, m
      <4> QED BY <3>1, <3>3, <4>1, <4>2, <4>3, Zenon DEF Pushes, Awake
    <3> QED BY <3>2, <3>3, Zenon DEF serialize_fail, port_push_owned
  <2>ReleaseDoes. ASSUME SetFacts, PlaceInv, NEW a \in Proc, discard(a) \/ msg_dispose(a)
                  PROVE  Quiet(a)
    <3> USE <2>ReleaseDoes
    <3> DEFINE m == local[a].msg
    <3>1. /\ pc[a] # "region" /\ a \in Actor /\ UNCHANGED <<portVars, rights, refs, timers>>
          /\ \/ Region(a, <<Msg(m)>>, Out(a))
             \/ Goto(a, Out(a)) /\ UNCHANGED regionVars
      BY Words, ProcActor, Zenon DEF discard, msg_dispose, Release, tableVars
    <3>2. CASE Region(a, <<Msg(m)>>, Out(a))
      <4>1. Awake(a) /\ stack = <<>> /\ stack' = <<Msg(m)>>
        BY <3>1, <3>2, <1>RegionAwake, Zenon
      <4> QED BY <3>1, <4>1, <1>OneCarries, <1>OpWords, Zenon DEF Quiet
    <3>3. CASE Goto(a, Out(a)) /\ UNCHANGED regionVars
      <4>1. Out(a) # "blocked" /\ UNCHANGED <<portVars, rights, refs, timers, stack>>
        BY <3>1, <3>3, Words, Zenon DEF Out, regionVars
      <4> QED BY <3>3, <4>1, <1>GoneQuiet, Zenon
    <3> QED BY <3>1, <3>2, <3>3
  <2>BuiltDoes. ASSUME SetFacts, PlaceInv, NEW a \in Proc,
                       deserialize_done(a) \/ deserialize_fail(a) \/ deserialize_raise(a) \/ Leave(a)
                PROVE  Quiet(a)
    <3> USE <2>BuiltDoes
    <3>1. /\ Goto(a, "dispose") \/ Goto(a, "undo") \/ Goto(a, "run") \/ Goto(a, Resumed(a))
          /\ UNCHANGED <<portVars, rights, refs, timers, stack>>
      BY Zenon DEF deserialize_done, deserialize_fail, deserialize_raise, Leave, tableVars, regionVars
    <3>2. Resumed(a) # "blocked"
      BY Words, Zenon DEF Resumed
    <3>3. PICK at : at # "blocked" /\ Goto(a, at)
      BY <3>1, <3>2, Words, Zenon
    <3> QED BY <3>1, <3>3, <1>GoneQuiet, Zenon
  <2>UndoDoes. ASSUME SetFacts, PlaceInv, NEW a \in Proc, minted_undo(a)
               PROVE  Quiet(a)
    <3> USE <2>UndoDoes
    <3> DEFINE x == Drop(a, local[a].minted, TRUE)
    <3>1. /\ pc[a] # "region" /\ a \in Actor /\ UNCHANGED <<portVars, rights, refs, timers>>
          /\ \/ Region(a, <<x>>, "dispose")
             \/ Goto(a, "dispose") /\ UNCHANGED regionVars
      BY Words, ProcActor, Zenon DEF minted_undo, tableVars
    <3>2. CASE Region(a, <<x>>, "dispose")
      <4>1. Awake(a) /\ stack = <<>> /\ stack' = <<x>>
        BY <3>1, <3>2, <1>RegionAwake, Zenon
      <4> QED BY <3>1, <4>1, <1>OneCarries, <1>OpWords, Zenon DEF Quiet
    <3>3. CASE Goto(a, "dispose") /\ UNCHANGED regionVars
      <4>1. UNCHANGED <<portVars, rights, refs, timers, stack>>
        BY <3>1, <3>3, Zenon DEF regionVars
      <4> QED BY <3>3, <4>1, Words, <1>GoneQuiet, Zenon
    <3> QED BY <3>1, <3>2, <3>3
  <2>CallkDoes. ASSUME SetFacts, PlaceInv, NEW a \in Proc, call_k(a)
                PROVE  Quiet(a) \/ Pops(a) \/ Parks(a)
    <3> USE <2>CallkDoes
    <3> DEFINE p == rights[a][local[a].reply].port
    <3>1. p \in Port
      BY ReplyOf, Zenon DEF call_k
    <3>2. \/ /\ port_pop(a, p, FALSE)
             /\ UNCHANGED <<used, nrights, nrecv, dead, rights, refs, timers, stack>>
          \/ Goto(a, "run") /\ UNCHANGED <<portVars, rights, refs, timers, stack>>
          \/ queue[p] = <<>> /\ ~sole_holder(a, p) /\ Park(a, {<<p, "hup">>})
      BY Zenon DEF call_k, tableVars, regionVars
    <3> HIDE DEF p
    <3>3. CASE queue[p] = <<>> /\ ~sole_holder(a, p) /\ Park(a, {<<p, "hup">>})
      <4>1. \A w \in {<<p, "hup">>} : w[1] = p /\ w[2] # "send"
        BY SMT
      <4> DEFINE W == {<<p, "hup">>}
      <4>2. Park(a, W) /\ \A w \in W : Unready(a, w)
        BY <3>3, <4>1, Zenon DEF Unready
      <4> HIDE DEF W
      <4> QED BY <4>2, <1>ParkDoes, Zenon
    <3> QED BY <3>1, <3>2, <3>3, Words, <1>PopDoes, <1>GoneQuiet, Zenon
  <2>AltkDoes. ASSUME SetFacts, PlaceInv, NEW a \in Proc, alt_k(a)
               PROVE  Quiet(a) \/ Pops(a)
    <3> USE <2>AltkDoes
    <3>1. pc[a] = "alt_k"
      BY Zenon DEF alt_k
    <3>2. CASE alt_take(a, local[a].cases)
      <4>1. \A c \in local[a].cases : rights[a][c[1]].port \in Port
        BY <3>1, CasesOf, Zenon
      <4> QED BY <3>2, <4>1, <1>TakeDoes, Zenon
    <3>3. CASE ~alt_take(a, local[a].cases)
      <4>1. Goto(a, "run") /\ UNCHANGED <<portVars, rights, refs, timers, stack>>
        BY <3>3, Zenon DEF alt_k, tableVars, regionVars
      <4> QED BY <4>1, Words, <1>GoneQuiet, Zenon
    <3> QED BY <3>2, <3>3
  <2>FormsStep. ASSUME SetFacts, PlaceInv, NEW a \in Proc, Step(a)
                PROVE  Quiet(a) \/ Parks(a) \/ Pushes(a) \/ Pops(a) \/ Gains(a)
    BY <2>FormsStep, <2>SerializeDoes, <2>SendDoes, <2>ReleaseDoes, <2>DeserializeDoes,
       <2>BuiltDoes, <2>UndoDoes, <2>CallkDoes, <2>AltkDoes, Zenon DEF Step
  <2> QED BY <1>FormsStep, <2>FormsStep, Zenon
<1>FormsExpire. ASSUME SetFacts, PlaceInv, expire_timers
                PROVE  Quiet(Kernel)
  <2> USE <1>FormsExpire
  <2>1. PICK S : /\ pc[Kernel] = "run" /\ Region(Kernel, <<Reap(1), Expire(S)>>, "run")
                 /\ UNCHANGED <<portVars, rights, refs, timers>>
    BY Zenon DEF expire_timers, tableVars
  <2>2. Awake(Kernel) /\ stack = <<>> /\ stack' = <<Reap(1), Expire(S)>>
    BY <2>1, Words, ProcActor, <1>RegionAwake, Zenon
  <2>3. \A i \in 1 .. Len(<<Reap(1), Expire(S)>>) : <<Reap(1), Expire(S)>>[i].op # "free"
    BY SMT DEF Reap, Expire
  <2>4. Carries(<<>>, <<Reap(1), Expire(S)>>)
    BY <2>3, <1>CarriesFromNone, Zenon
  <2> QED BY <2>1, <2>2, <2>4, Zenon DEF Quiet
<1>FormsOf. ASSUME SetFacts, PlaceInv, NEW a \in Actor, Acts(a)
            PROVE  \/ Quiet(a) \/ Parks(a) \/ Pushes(a) \/ Pops(a) \/ Gains(a) \/ News(a) \/ Loses(a)
                   \/ port_free(a) \/ port_hangup(a)
  BY <1>FormsOf, <1>FormsCall, <1>FormsStep, <1>FormsTask, <1>FormsExpire, Zenon DEF Acts
<1> QED BY <1>FormsOf, Zenon

----------------------------------------------------------------------------
(* The counts. *)
Counted(p) ==
    /\ nrights[p] = Holders(p) /\ nrecv[p] = Receivers(p)
    /\ p \in used /\ nrecv[p] = 0 /\ nrights[p] > 0 => dead[p]
    /\ nrights[p] > 0 => p \in used /\ NoFree(stack, p)

(* CountInv says the same of every port, *)
LEMMA CountedIs ==
    /\ CountInv => \A p \in Port : Counted(p)
    /\ PortType /\ Emptied /\ (\A p \in Port : Counted(p)) => CountInv
<1>1. ASSUME CountInv, NEW p \in Port PROVE Counted(p)
  BY <1>1, ListedIs, Zenon DEF CountInv, CountsExact, Counted
<1>2. ASSUME PortType, Emptied, \A p \in Port : Counted(p) PROVE CountInv
  <2>1. used \subseteq Port
    BY <1>2, Zenon DEF PortType
  <2> QED BY <1>2, <2>1, ListedIs, Zenon DEF CountInv, CountsExact, Counted, Emptied
<1> QED BY <1>1, <1>2

(* before a step and after it. *)
LEMMA CountedNext ==
    ASSUME PlaceInv', \A p \in Port : Counted(p)'
    PROVE  CountInv'
<1>1. PortType' /\ Emptied'
  BY Zenon DEF PlaceInv
<1>2. used' \subseteq Port
  BY <1>1, Zenon DEF PortType
<1> QED BY <1>1, <1>2, ListedIs, Zenon DEF CountInv, CountsExact, Counted, Emptied

(* A port a step leaves alone. *)
LEMMA CountedStill ==
    ASSUME NEW p \in Port, Counted(p), Holders(p)' = Holders(p), Receivers(p)' = Receivers(p),
           nrights'[p] = nrights[p], nrecv'[p] = nrecv[p], dead'[p] = dead[p],
           p \in used' <=> p \in used, NoFree(stack, p) => NoFree(stack', p)
    PROVE  Counted(p)'
BY Zenon DEF Counted

(* A step that touches neither counts nor references keeps CountInv. *)
LEMMA StillKeeps ==
    ASSUME PlaceInv', CountInv, UNCHANGED <<used, nrights, nrecv, dead, rights, refs, timers>>,
           Carries(stack, stack')
    PROVE  CountInv'
<1>1. ASSUME NEW p \in Port PROVE Counted(p)'
  <2>1. Counted(p) /\ Holders(p)' = Holders(p) /\ Receivers(p)' = Receivers(p)
    BY CountedIs, ShiftNone, Zenon
  <2>2. NoFree(stack, p) => NoFree(stack', p)
    BY Zenon DEF Carries
  <2> QED BY <2>1, <2>2, CountedStill, Zenon
<1> QED BY <1>1, CountedNext, Zenon

(* What port_unref puts on the region: unless the reference was the last,  *)
(* no end of a port, and the wakes of its waiters.                         *)
LEMMA UnrefCarries ==
    ASSUME NEW p \in Port, NEW n, NEW q \in Seq(MsgId), NEW rest \in Seq(Tasks),
           port_unref(p, n, q, rest)
    PROVE  /\ \A x : HangsIn(rest, x) => HangsIn(stack', x)
           /\ \A x : x # p /\ NoFree(rest, x) => NoFree(stack', x)
           /\ ~(nrights[p] <= 1) => /\ NoFree(rest, p) => NoFree(stack', p)
                                    /\ HangsIn(stack', p)
<1>1. Flush(q) \in Tasks /\ FreePort(p) \in Tasks /\ Hangup(p) \in Tasks
  BY TaskMakes, Zenon
<1>2. /\ Flush(q).op # "free" /\ Hangup(p).op # "free" /\ FreePort(p).port = p
  BY SMT DEF Flush, Hangup, FreePort
<1>3. \/ (nrights[p] <= 1) /\ stack' = <<Flush(q), FreePort(p)>> \o rest
      \/ ~(nrights[p] <= 1) /\ stack' = <<Flush(q), Hangup(p)>> \o rest
      \/ ~(nrights[p] <= 1) /\ stack' = <<Hangup(p)>> \o rest
  BY Zenon DEF port_unref, Unref
<1>4. CASE (nrights[p] <= 1) /\ stack' = <<Flush(q), FreePort(p)>> \o rest
  BY <1>1, <1>2, <1>4, CarriesPushTwo, Zenon
<1>5. CASE ~(nrights[p] <= 1) /\ stack' = <<Flush(q), Hangup(p)>> \o rest
  BY <1>1, <1>2, <1>5, CarriesPushTwo, Zenon
<1>6. CASE ~(nrights[p] <= 1) /\ stack' = <<Hangup(p)>> \o rest
  BY <1>1, <1>2, <1>6, CarriesPush, Zenon
<1> QED BY <1>3, <1>4, <1>5, <1>6

(* CountInv is inductive, given PlaceInv. *)
LEMMA CountActs ==
    ASSUME SetFacts, PlaceInv, PlaceInv', CountInv, NEW actor \in Actor, Acts(actor)
    PROVE  CountInv'
(* What Shift says of the other ports, and of the port itself. *)
<1>ShiftOther. ASSUME SetFacts, NEW p, NEW d, NEW e, Shift(p, d, e), NEW q \in Port, q # p
               PROVE  Holders(q)' = Holders(q) /\ Receivers(q)' = Receivers(q)
  <2> USE <1>ShiftOther
  <2>1. Holders(q)' = Holders(q) + 0 /\ Receivers(q)' = Receivers(q) + 0
    BY Zenon DEF Shift
  <2>2. Holders(q) \in Nat /\ Receivers(q) \in Nat
    BY CountsNat, Zenon
  <2> QED BY <2>1, <2>2, SMT
<1>GainsKeeps. ASSUME SetFacts, PlaceInv, PlaceInv', CountInv, NEW a \in Actor, Gains(a)
               PROVE  CountInv'
  <2> USE <1>GainsKeeps
  <2>0. PortType
    BY Zenon DEF PlaceInv
  <2>1. PICK p \in Port, e \in {0, 1} :
            /\ Holders(p) > 0 /\ Shift(p, 1, e)
            /\ nrights' = [nrights EXCEPT ![p] = @ + 1]
            /\ nrecv' = [nrecv EXCEPT ![p] = @ + e]
    BY Zenon DEF Gains
  <2>2. UNCHANGED <<used, dead>> /\ Carries(stack, stack')
    BY Zenon DEF Gains
  <2>3. Counted(p)'
    <3>1. Counted(p) /\ Holders(p) \in Nat /\ Receivers(p) \in Nat
      BY CountedIs, CountsNat, Zenon
    <3>2. Holders(p)' = Holders(p) + 1 /\ Receivers(p)' = Receivers(p) + e
      BY <2>1, Zenon DEF Shift
    <3>3. nrights'[p] = nrights[p] + 1 /\ nrecv'[p] = nrecv[p] + e
      BY <2>0, <2>1, Zenon DEF PortType
    <3>4. nrights'[p] = Holders(p)' /\ nrecv'[p] = Receivers(p)'
      BY <3>1, <3>2, <3>3, Zenon DEF Counted
    <3>5. nrecv'[p] = 0 => nrecv[p] = 0
      <4>1. nrecv[p] \in Nat
        BY <3>1, Zenon DEF Counted
      <4> QED BY <3>3, <4>1, SMT
    <3>6. nrights[p] > 0 /\ p \in used' /\ NoFree(stack', p)
      BY <2>1, <2>2, <3>1, Zenon DEF Counted, Carries
    <3> QED BY <2>2, <3>1, <3>4, <3>5, <3>6, Zenon DEF Counted
  <2>4. ASSUME NEW q \in Port, q # p PROVE Counted(q)'
    <3>1. Counted(q) /\ Holders(q)' = Holders(q) /\ Receivers(q)' = Receivers(q)
      BY <2>1, <2>4, CountedIs, <1>ShiftOther, Zenon
    <3>2. nrights'[q] = nrights[q] /\ nrecv'[q] = nrecv[q]
      BY <2>0, <2>1, <2>4, Zenon DEF PortType
    <3>3. NoFree(stack, q) => NoFree(stack', q)
      BY <2>2, Zenon DEF Carries
    <3> QED BY <2>2, <3>1, <3>2, <3>3, CountedStill, Zenon
  <2> QED BY <2>3, <2>4, CountedNext, Zenon
<1>NewsKeeps. ASSUME SetFacts, PlaceInv, PlaceInv', CountInv, NEW a \in Actor, News(a)
              PROVE  CountInv'
  <2> USE <1>NewsKeeps
  <2>0. PortType
    BY Zenon DEF PlaceInv
  <2>1. PICK p \in Port, e \in {0, 1} :
            /\ p \notin used /\ used' = used \cup {p}
            /\ dead' = [dead EXCEPT ![p] = FALSE]
            /\ Shift(p, e, e)
            /\ nrights' = [nrights EXCEPT ![p] = e]
            /\ nrecv' = [nrecv EXCEPT ![p] = e]
    BY Zenon DEF News, NewCounts
  <2>2. stack = <<>> /\ Carries(stack, stack')
    BY Zenon DEF News
  <2>3. Counted(p)'
    <3>1. Counted(p) /\ Holders(p) \in Nat /\ Receivers(p) \in Nat /\ (Holders(p) = 0 => Receivers(p) = 0)
      BY CountedIs, CountsNat, Zenon
    <3>2. Holders(p) = 0 /\ Receivers(p) = 0
      <4>1. ~(nrights[p] > 0) /\ nrights[p] = Holders(p)
        BY <2>1, <3>1, Zenon DEF Counted
      <4>2. Holders(p) = 0
        BY <3>1, <4>1, SMT
      <4> QED BY <3>1, <4>2
    <3>3. Holders(p)' = Holders(p) + e /\ Receivers(p)' = Receivers(p) + e
      BY <2>1, Zenon DEF Shift
    <3>4. nrights'[p] = e /\ nrecv'[p] = e
      BY <2>0, <2>1, Zenon DEF PortType
    <3>5. Holders(p)' = e /\ Receivers(p)' = e
      BY <3>2, <3>3, SMT
    <3>6. ~(e = 0 /\ e > 0)
      BY SMT
    <3>7. NoFree(stack', p)
      <4>1. NoFree(<<>>, p)
        BY SMT DEF NoFree
      <4> QED BY <2>2, <4>1, Zenon DEF Carries
    <3> QED BY <2>1, <3>4, <3>5, <3>6, <3>7, Zenon DEF Counted
  <2>4. ASSUME NEW q \in Port, q # p PROVE Counted(q)'
    <3>1. Counted(q) /\ Holders(q)' = Holders(q) /\ Receivers(q)' = Receivers(q)
      BY <2>1, <2>4, CountedIs, <1>ShiftOther, Zenon
    <3>2. nrights'[q] = nrights[q] /\ nrecv'[q] = nrecv[q] /\ dead'[q] = dead[q]
      BY <2>0, <2>1, <2>4, Zenon DEF PortType
    <3>3. (NoFree(stack, q) => NoFree(stack', q)) /\ (q \in used' <=> q \in used)
      BY <2>1, <2>2, <2>4, Zenon DEF Carries
    <3> QED BY <3>1, <3>2, <3>3, CountedStill, Zenon
  <2> QED BY <2>3, <2>4, CountedNext, Zenon
<1>LosesKeeps. ASSUME SetFacts, PlaceInv, PlaceInv', CountInv, NEW a \in Actor, Loses(a)
               PROVE  CountInv'
  <2> USE <1>LosesKeeps
  <2>0. PortType
    BY Zenon DEF PlaceInv
  <2>1. PICK p \in Port, e \in {0, 1}, q \in Seq(MsgId), rest \in Seq(Tasks) :
            /\ Shift(p, -1, -e) /\ Carries(stack, rest)
            /\ port_unref(p, nrecv[p] - e, q, rest)
    BY Zenon DEF Loses
  <2>2. /\ \A x : x # p /\ NoFree(rest, x) => NoFree(stack', x)
        /\ ~(nrights[p] <= 1) => (NoFree(rest, p) => NoFree(stack', p))
    BY <2>1, UnrefCarries, Zenon
  <2>3. /\ nrights' = [nrights EXCEPT ![p] = @ - 1]
        /\ nrecv' = [nrecv EXCEPT ![p] = nrecv[p] - e]
        /\ dead' = IF (nrecv[p] - e = 0 /\ ~dead[p]) /\ ~(nrights[p] <= 1)
                   THEN [dead EXCEPT ![p] = TRUE] ELSE dead
        /\ used' = used
    BY <2>1, Zenon DEF port_unref, Unref
  <2>4. Counted(p)'
    <3>1. Counted(p) /\ Holders(p) \in Nat /\ Receivers(p) \in Nat
      BY CountedIs, CountsNat, Zenon
    <3>2. Holders(p)' = Holders(p) + (-1) /\ Receivers(p)' = Receivers(p) + (-e)
      BY <2>1, Zenon DEF Shift
    <3>3. nrights'[p] = nrights[p] - 1 /\ nrecv'[p] = nrecv[p] - e
      BY <2>0, <2>3, Zenon DEF PortType
    <3>4. nrights'[p] = Holders(p)' /\ nrecv'[p] = Receivers(p)'
      <4>1. nrights[p] = Holders(p) /\ nrecv[p] = Receivers(p)
        BY <3>1, Zenon DEF Counted
      <4>2. e \in Int
        BY SMT
      <4> QED BY <3>1, <3>2, <3>3, <4>1, <4>2, SMT
    <3>5. nrights'[p] > 0 => ~(nrights[p] <= 1) /\ nrights[p] > 0
      <4>1. nrights[p] \in Int
        BY <2>0, Zenon DEF PortType
      <4> QED BY <3>3, <4>1, SMT
    <3>6. ASSUME nrights'[p] > 0 PROVE p \in used' /\ NoFree(stack', p)
      BY <2>1, <2>2, <2>3, <3>1, <3>5, <3>6, Zenon DEF Counted, Carries
    <3>7. ASSUME nrights'[p] > 0, nrecv'[p] = 0 PROVE dead'[p]
      <4>1. nrecv[p] - e = 0 /\ ~(nrights[p] <= 1)
        BY <3>3, <3>5, <3>7, Zenon
      <4>2. CASE dead[p]
        BY <2>3, <4>2, Zenon
      <4>3. CASE ~dead[p]
        BY <2>0, <2>3, <4>1, <4>3, Zenon DEF PortType
      <4> QED BY <4>2, <4>3
    <3> QED BY <3>4, <3>6, <3>7, Zenon DEF Counted
  <2>5. ASSUME NEW x \in Port, x # p PROVE Counted(x)'
    <3>1. Counted(x) /\ Holders(x)' = Holders(x) /\ Receivers(x)' = Receivers(x)
      BY <2>1, <2>5, CountedIs, <1>ShiftOther, Zenon
    <3>2. nrights'[x] = nrights[x] /\ nrecv'[x] = nrecv[x] /\ dead'[x] = dead[x]
      BY <2>0, <2>3, <2>5, Zenon DEF PortType
    <3>3. NoFree(stack, x) => NoFree(stack', x)
      BY <2>1, <2>2, <2>5, Zenon DEF Carries
    <3> QED BY <2>3, <3>1, <3>2, <3>3, CountedStill, Zenon
  <2> QED BY <2>4, <2>5, CountedNext, Zenon
(* The port a free task names has no reference left. *)
<1>FreeKeeps. ASSUME SetFacts, PlaceInv, PlaceInv', CountInv, NEW a \in Actor, port_free(a)
              PROVE  CountInv'
  <2> USE <1>FreeKeeps
  <2> DEFINE f == Head(stack).port
  <2>1. /\ stack # <<>> /\ Head(stack).op = "free" /\ used' = used \ {f} /\ stack' = Tail(stack)
        /\ UNCHANGED <<nrights, nrecv, dead, rights, refs, timers>> /\ stack \in Seq(Tasks)
    BY Zenon DEF port_free, tableVars, PlaceInv, RegionType
  <2>2. ~NoFree(stack, f)
    <3>1. Head(stack) = stack[1] /\ Len(stack) \in Nat /\ Len(stack) > 0
      BY <2>1, TailOf, Zenon
    <3>2. 1 \in 1 .. Len(stack)
      BY <3>1, SMT
    <3> QED BY <2>1, <3>1, <3>2, Zenon DEF NoFree
  <2>3. \A p : NoFree(stack, p) => NoFree(stack', p)
    BY <2>1, CarriesTail, Zenon
  <2> HIDE DEF f
  <2>4. ASSUME NEW p \in Port PROVE Counted(p)'
    <3>1. Counted(p) /\ Holders(p)' = Holders(p) /\ Receivers(p)' = Receivers(p)
      BY <2>1, CountedIs, ShiftNone, Zenon
    <3>2. CASE p = f
      <4>1. ~(nrights[p] > 0)
        BY <2>2, <3>1, <3>2, Zenon DEF Counted
      <4> QED BY <2>1, <3>1, <4>1, Zenon DEF Counted
    <3>3. CASE p # f
      BY <2>1, <2>3, <3>1, <3>3, CountedStill, Zenon
    <3> QED BY <3>2, <3>3
  <2> QED BY <2>4, CountedNext, Zenon
<1>HangKeeps. ASSUME PlaceInv, PlaceInv', CountInv, NEW a \in Actor, port_hangup(a)
              PROVE  CountInv'
  <2> USE <1>HangKeeps
  <2>1. /\ stack # <<>> /\ stack' = Tail(stack) /\ stack \in Seq(Tasks)
        /\ UNCHANGED <<used, nrights, nrecv, dead, rights, refs, timers>>
    BY Zenon DEF port_hangup, portVars, tableVars, PlaceInv, RegionType
  <2>2. ASSUME NEW p \in Port PROVE Counted(p)'
    <3>1. Counted(p) /\ Holders(p)' = Holders(p) /\ Receivers(p)' = Receivers(p)
      BY <2>1, CountedIs, ShiftNone, Zenon
    <3>2. NoFree(stack, p) => NoFree(stack', p)
      BY <2>1, CarriesTail, Zenon
    <3> QED BY <2>1, <3>1, <3>2, CountedStill, Zenon
  <2> QED BY <2>2, CountedNext, Zenon
<1>CountActs. ASSUME SetFacts, PlaceInv, PlaceInv', CountInv, NEW a \in Actor, Acts(a)
              PROVE  CountInv'
  <2> USE <1>CountActs
  <2>1. CASE Quiet(a) \/ Parks(a) \/ Pushes(a) \/ Pops(a)
    <3>1. /\ UNCHANGED <<used, nrights, nrecv, dead, rights, refs, timers>>
          /\ Carries(stack, stack')
      BY <2>1, CarriesSame, Zenon DEF Quiet, Parks, Pushes, Pops, portVars
    <3> QED BY <3>1, StillKeeps, Zenon
  <2> QED BY <2>1, FormsOf, <1>GainsKeeps, <1>NewsKeeps, <1>LosesKeeps, <1>FreeKeeps, <1>HangKeeps, Zenon
<1> QED BY <1>CountActs, Zenon

----------------------------------------------------------------------------
(* The waiters. *)
Waits(b, w) ==
    /\ w[2] = "send" => Full(w[1]) \/ HangsIn(stack, w[1])
    /\ w[2] # "send" => queue[w[1]] = <<>>
    /\ w[2] = "hup" => ~sole_holder(b, w[1]) \/ HangsIn(stack, w[1])

(* WakeInv is inductive, given the two others. *)
LEMMA WakeActs ==
    ASSUME SetFacts, PlaceInv, PlaceInv', CountInv, CountInv', WakeInv, NEW actor \in Actor, Acts(actor),
           Turn(actor)
    PROVE  WakeInv'
<1>WaitsIs. /\ WakeInv => \A b \in Proc : \A w \in waits[b] : Waits(b, w)
            /\ (\A b \in Proc : \A w \in waits'[b] : Waits(b, w)') => WakeInv'
  <2>1. WakeInv => \A b \in Proc : \A w \in waits[b] : Waits(b, w)
    BY ListedIs, Zenon DEF WakeInv, Waits
  <2>2. (\A b \in Proc : \A w \in waits'[b] : Waits(b, w)') => WakeInv'
    BY ListedIs, Zenon DEF WakeInv, Waits
  <2> QED BY <2>1, <2>2
(* Who is still parked after a step that parks nobody was before, and on   *)
(* the same ports.                                                         *)
<1>StillParked. ASSUME PlaceInv, PlaceInv', NEW a \in Actor, Turn(a), Awake(a),
                       NEW b \in Proc, NEW w \in waits'[b]
                PROVE  /\ b # a /\ w \in waits[b] /\ rights'[b] = rights[b] /\ pc[b] = "blocked"
                       /\ waits'[b] # {} /\ w[1] \in Port /\ w[2] \in Kinds
                       /\ Mine(b, w[1]) # {} /\ Mine(b, w[1])' # {}
  <2> USE <1>StillParked
  <2>1. waits'[b] # {} /\ pc'[b] = "blocked" /\ Mine(b, w[1])' # {}
    BY Zenon DEF PlaceInv, Linked
  <2>2. b # a
    BY <2>1, Zenon DEF Awake
  <2>3. waits'[b] = waits[b] /\ rights'[b] = rights[b]
    BY <2>1, <2>2, Zenon DEF Turn
  <2>4. w \in waits[b] /\ pc[b] = "blocked" /\ Mine(b, w[1]) # {}
    BY <2>1, <2>3, Zenon DEF PlaceInv, Linked
  <2>5. w \in Port \X Kinds
    BY <2>4, Zenon DEF PlaceInv, ProcType
  <2>6. w[1] \in Port /\ w[2] \in Kinds
    BY <2>5, SMT
  <2> QED BY <2>1, <2>2, <2>3, <2>4, <2>6
(* A wait on a port a step only adds references to. *)
<1>WaitStill. ASSUME NEW b, NEW w, Waits(b, w), rights'[b] = rights[b], nrights[w[1]] \in Int,
                     nrights'[w[1]] \in Int, nrights'[w[1]] >= nrights[w[1]],
                     Cardinality(Mine(b, w[1])) \in Nat,
                     queue'[w[1]] = queue[w[1]], dead'[w[1]] = dead[w[1]],
                     HangsIn(stack, w[1]) => HangsIn(stack', w[1])
              PROVE  Waits(b, w)'
  <2> USE <1>WaitStill
  <2>1. Mine(b, w[1])' = Mine(b, w[1])
    BY Zenon DEF Mine
  <2>2. Full(w[1])' <=> Full(w[1])
    BY Zenon DEF Full
  <2>3. ~sole_holder(b, w[1]) => ~sole_holder(b, w[1])'
    <3> DEFINE k == Cardinality(Mine(b, w[1]))
               i == nrights[w[1]]
               j == nrights'[w[1]]
    <3>1. /\ i \in Int /\ j \in Int /\ j >= i /\ k \in Nat
          /\ sole_holder(b, w[1]) <=> i <= k
          /\ sole_holder(b, w[1])' <=> j <= k
      BY <2>1, Zenon DEF sole_holder
    <3> HIDE DEF i, j, k
    <3> QED BY <3>1, SMT
  <2> QED BY <2>1, <2>2, <2>3, Zenon DEF Waits
<1>MineNat. ASSUME SetFacts, NEW b \in Proc, NEW p
            PROVE  Cardinality(Mine(b, p)) \in Nat
  <2> USE <1>MineNat
  <2>1. IsFiniteSet(Handle) /\ Mine(b, p) \in SUBSET Handle
    BY Zenon DEF SetFacts, Mine
  <2>2. IsFiniteSet(Mine(b, p))
    BY <2>1, Zenon DEF SetFacts
  <2> QED BY <2>2, Zenon DEF SetFacts
(* Steps that change nothing a waiter looks at, or only add references. *)
<1>SameWaits. ASSUME SetFacts, PlaceInv, PlaceInv', WakeInv, NEW a \in Actor, Turn(a), Awake(a),
                     UNCHANGED <<dead, queue>>, Carries(stack, stack'),
                     \A p \in Port : nrights'[p] >= nrights[p]
              PROVE  WakeInv'
  <2> USE <1>SameWaits
  <2>0. nrights \in [Port -> Int] /\ nrights' \in [Port -> Int]
    BY Zenon DEF PlaceInv, PortType
  <2>1. ASSUME NEW b \in Proc, NEW w \in waits'[b] PROVE Waits(b, w)'
    <3>1. w \in waits[b] /\ rights'[b] = rights[b] /\ w[1] \in Port
      BY <1>StillParked, Zenon
    <3>2. Waits(b, w)
      BY <3>1, <1>WaitsIs, Zenon
    <3>3. /\ nrights[w[1]] \in Int /\ nrights'[w[1]] \in Int /\ nrights'[w[1]] >= nrights[w[1]]
          /\ Cardinality(Mine(b, w[1])) \in Nat
      BY <2>0, <3>1, <1>MineNat, Zenon
    <3>4. HangsIn(stack, w[1]) => HangsIn(stack', w[1])
      BY <3>1, Zenon DEF Carries
    <3> QED BY <3>1, <3>2, <3>3, <3>4, <1>WaitStill, Zenon
  <2> QED BY <2>1, <1>WaitsIs, Zenon
<1>QuietWakes. ASSUME SetFacts, PlaceInv, PlaceInv', WakeInv, NEW a \in Actor, Turn(a), Quiet(a)
               PROVE  WakeInv'
  <2> USE <1>QuietWakes
  <2>1. Awake(a) /\ UNCHANGED <<nrights, dead, queue>> /\ Carries(stack, stack')
    BY Zenon DEF Quiet, portVars
  <2>2. ASSUME NEW p \in Port PROVE nrights'[p] >= nrights[p]
    <3>1. nrights[p] \in Int
      BY Zenon DEF PlaceInv, PortType
    <3> QED BY <2>1, <3>1, SMT
  <2> QED BY <2>1, <2>2, <1>SameWaits, Zenon
<1>GainsWakes. ASSUME SetFacts, PlaceInv, PlaceInv', WakeInv, NEW a \in Actor, Turn(a), Gains(a)
               PROVE  WakeInv'
  <2> USE <1>GainsWakes
  <2>1. Awake(a) /\ UNCHANGED <<dead, queue>> /\ Carries(stack, stack')
    BY Zenon DEF Gains
  <2>2. PICK x \in Port : nrights' = [nrights EXCEPT ![x] = @ + 1]
    BY Zenon DEF Gains
  <2>3. ASSUME NEW p \in Port PROVE nrights'[p] >= nrights[p]
    <3>1. nrights \in [Port -> Int]
      BY Zenon DEF PlaceInv, PortType
    <3> QED BY <2>2, <3>1, SMT
  <2> QED BY <2>1, <2>3, <1>SameWaits, Zenon
(* A port made is one nobody waits on: who waits has a right to it. *)
<1>NewsWakes. ASSUME SetFacts, PlaceInv, PlaceInv', CountInv, WakeInv, NEW a \in Actor, Turn(a), News(a)
              PROVE  WakeInv'
  <2> USE <1>NewsWakes
  <2>0. PortType
    BY Zenon DEF PlaceInv
  <2>1. PICK p \in Port, e \in {0, 1} :
            /\ p \notin used /\ dead' = [dead EXCEPT ![p] = FALSE] /\ queue' = [queue EXCEPT ![p] = <<>>]
            /\ nrights' = [nrights EXCEPT ![p] = e]
    BY Zenon DEF News, NewCounts
  <2>2. Awake(a) /\ Carries(stack, stack')
    BY Zenon DEF News
  <2>3. ASSUME NEW b \in Proc, NEW w \in waits'[b] PROVE Waits(b, w)'
    <3>1. w \in waits[b] /\ rights'[b] = rights[b] /\ w[1] \in Port /\ Mine(b, w[1]) # {}
      BY <2>2, <1>StillParked, Zenon
    <3>2. Waits(b, w)
      BY <3>1, <1>WaitsIs, Zenon
    <3>3. w[1] # p
      <4>1. Holders(w[1]) > 0
        BY <3>1, MineHeld, Zenon
      <4>2. w[1] \in used
        BY <3>1, <4>1, CountedIs, Zenon DEF Counted
      <4> QED BY <2>1, <4>2, Zenon
    <3>4. /\ nrights'[w[1]] = nrights[w[1]] /\ dead'[w[1]] = dead[w[1]] /\ queue'[w[1]] = queue[w[1]]
          /\ nrights[w[1]] \in Int
      BY <2>0, <2>1, <3>1, <3>3, Zenon DEF PortType
    <3>5. nrights'[w[1]] >= nrights[w[1]] /\ nrights'[w[1]] \in Int
      BY <3>4, SMT
    <3>6. HangsIn(stack, w[1]) => HangsIn(stack', w[1])
      BY <2>2, <3>1, Zenon DEF Carries
    <3>7. Cardinality(Mine(b, w[1])) \in Nat
      BY <1>MineNat, Zenon
    <3> QED BY <3>1, <3>2, <3>4, <3>5, <3>6, <3>7, <1>WaitStill, Zenon
  <2> QED BY <2>3, <1>WaitsIs, Zenon
(* A proc that parks does so on what is not ready; the others wait on. *)
<1>ParksWakes. ASSUME SetFacts, PlaceInv, PlaceInv', WakeInv, NEW a \in Actor, Turn(a), Parks(a)
               PROVE  WakeInv'
  <2> USE <1>ParksWakes
  <2>1. UNCHANGED <<nrights, dead, queue, rights, stack>>
    BY Zenon DEF Parks, portVars
  <2>2. ASSUME NEW b \in Proc, NEW w \in waits'[b] PROVE Waits(b, w)'
    <3>1. CASE b = a
      <4>1. Unready(b, w)
        BY <3>1, Zenon DEF Parks
      <4> QED BY <2>1, <4>1, Zenon DEF Unready, Waits, Full, sole_holder, Mine
    <3>2. CASE b # a
      <4>1. w \in waits[b]
        BY <3>2, Zenon DEF Turn
      <4>2. Waits(b, w)
        BY <4>1, <1>WaitsIs, Zenon
      <4> QED BY <2>1, <4>2, Zenon DEF Waits, Full, sole_holder, Mine
    <3> QED BY <3>1, <3>2
  <2> QED BY <2>2, <1>WaitsIs, Zenon
(* A wake leaves none of those it is for parked. *)
<1>NotWoken. ASSUME PlaceInv, PlaceInv', NEW a \in Actor, Turn(a), Awake(a), NEW p, NEW K,
                    Wake(p, K) \/ (\E at : WakeAnd(p, K, a, at)),
                    NEW b \in Proc, NEW w \in waits'[b], w[1] = p
             PROVE  w[2] \notin K
  <2> USE <1>NotWoken
  <2>1. w \in waits[b] /\ pc[b] = "blocked" /\ waits'[b] # {}
    BY <1>StillParked, Zenon
  <2>2. w = <<w[1], w[2]>>
    <3>1. w \in Port \X Kinds
      BY <2>1, Zenon DEF PlaceInv, ProcType
    <3> QED BY <3>1, SMT
  <2>3. <<p, w[2]>> \in waits[b]
    BY <2>1, <2>2, Zenon
  <2>4. w[2] \in K => b \in Woken(p, K)
    BY <2>1, <2>3, Zenon DEF Woken
  <2>5. b \in Woken(p, K) => waits'[b] = {}
    BY Zenon DEF Wake, WakeAnd
  <2> QED BY <2>1, <2>4, <2>5, Zenon
<1>PushesWakes. ASSUME SetFacts, PlaceInv, PlaceInv', WakeInv, NEW a \in Actor, Turn(a), Pushes(a)
                PROVE  WakeInv'
  <2> USE <1>PushesWakes
  <2>0. PortType /\ Awake(a) /\ UNCHANGED <<nrights, dead, rights, stack>>
    BY Zenon DEF PlaceInv, Pushes
  <2>a. PICK p \in Port : \E at, m :
            /\ ~dead[p] /\ Len(queue[p]) < MAXQUEUE
            /\ queue' = [queue EXCEPT ![p] = Append(@, m)]
            /\ WakeAnd(p, {"recv", "hup"}, a, at)
    BY Zenon DEF Pushes
  <2>1. PICK at, m :
            /\ ~dead[p] /\ Len(queue[p]) < MAXQUEUE
            /\ queue' = [queue EXCEPT ![p] = Append(@, m)]
            /\ WakeAnd(p, {"recv", "hup"}, a, at)
    BY <2>a, Zenon
  <2>2. ASSUME NEW b \in Proc, NEW w \in waits'[b] PROVE Waits(b, w)'
    <3>1. w \in waits[b] /\ w[1] \in Port /\ w[2] \in Kinds
      BY <2>0, <1>StillParked, Zenon
    <3>2. Waits(b, w)
      BY <3>1, <1>WaitsIs, Zenon
    <3>3. CASE w[1] # p
      <4>1. queue'[w[1]] = queue[w[1]]
        BY <2>0, <2>1, <3>1, <3>3, Zenon DEF PortType
      <4> QED BY <2>0, <3>2, <4>1, Zenon DEF Waits, Full, sole_holder, Mine
    <3>4. CASE w[1] = p
      <4>1. w[2] \notin {"recv", "hup"}
        BY <2>0, <2>1, <3>4, <1>NotWoken, Zenon
      <4>2. w[2] = "send" /\ w[2] # "hup"
        BY <3>1, <4>1, SMT DEF Kinds
      <4>3. ~Full(p)
        <5>1. Len(queue[p]) \in Nat /\ MAXQUEUE \in Nat
          BY <2>0, PortsAssumption, SMT DEF PortType
        <5>2. ~(Len(queue[p]) >= MAXQUEUE)
          BY <2>1, <5>1, SMT
        <5> QED BY <5>2, Zenon DEF Full
      <4>4. HangsIn(stack, w[1])
        BY <3>2, <3>4, <4>2, <4>3, Zenon DEF Waits
      <4> QED BY <2>0, <4>2, <4>4, Zenon DEF Waits
    <3> QED BY <3>3, <3>4
  <2> QED BY <2>2, <1>WaitsIs, Zenon
<1>PopsWakes. ASSUME SetFacts, PlaceInv, PlaceInv', WakeInv, NEW a \in Actor, Turn(a), Pops(a)
              PROVE  WakeInv'
  <2> USE <1>PopsWakes
  <2>0. PortType /\ Awake(a) /\ UNCHANGED <<nrights, dead, rights, stack>>
    BY Zenon DEF PlaceInv, Pops
  <2>a. PICK p \in Port : \E at :
            /\ queue[p] # <<>> /\ queue' = [queue EXCEPT ![p] = Tail(@)]
            /\ WakeAnd(p, {"send"}, a, at)
    BY Zenon DEF Pops
  <2>1. PICK at :
            /\ queue[p] # <<>> /\ queue' = [queue EXCEPT ![p] = Tail(@)]
            /\ WakeAnd(p, {"send"}, a, at)
    BY <2>a, Zenon
  <2>2. ASSUME NEW b \in Proc, NEW w \in waits'[b] PROVE Waits(b, w)'
    <3>1. w \in waits[b] /\ w[1] \in Port
      BY <2>0, <1>StillParked, Zenon
    <3>2. Waits(b, w)
      BY <3>1, <1>WaitsIs, Zenon
    <3>3. w[1] # p
      <4>1. ASSUME w[1] = p PROVE FALSE
        <5>1. w[2] \notin {"send"}
          BY <2>0, <2>1, <4>1, <1>NotWoken, Zenon
        <5> QED BY <2>1, <3>2, <4>1, <5>1, Zenon DEF Waits
      <4> QED BY <4>1
    <3>4. queue'[w[1]] = queue[w[1]]
      BY <2>0, <2>1, <3>1, <3>3, Zenon DEF PortType
    <3> QED BY <2>0, <3>2, <3>4, Zenon DEF Waits, Full, sole_holder, Mine
  <2> QED BY <2>2, <1>WaitsIs, Zenon
(* A waiter holds a reference itself, so what a parked proc waits on does  *)
(* not go with the reference dropped; the wakes are still to come.         *)
<1>LosesWakes. ASSUME SetFacts, PlaceInv, PlaceInv', CountInv', WakeInv, NEW a \in Actor, Turn(a), Loses(a)
               PROVE  WakeInv'
  <2> USE <1>LosesWakes
  <2>0. PortType /\ Awake(a)
    BY Zenon DEF PlaceInv, Loses
  <2>1. PICK p \in Port, e \in {0, 1}, q \in Seq(MsgId), rest \in Seq(Tasks) :
            /\ Carries(stack, rest) /\ port_unref(p, nrecv[p] - e, q, rest)
            /\ q = queue[p] \/ Wake(p, {"recv", "hup"})
    BY Zenon DEF Loses
  <2>2. /\ \A x : HangsIn(rest, x) => HangsIn(stack', x)
        /\ ~(nrights[p] <= 1) => HangsIn(stack', p)
    BY <2>1, UnrefCarries, Zenon
  <2>3. /\ nrights' = [nrights EXCEPT ![p] = @ - 1]
        /\ \A x \in Port : x # p => queue'[x] = queue[x] /\ dead'[x] = dead[x]
        /\ queue'[p] = <<>> \/ queue'[p] = q
    BY <2>0, <2>1, Zenon DEF port_unref, Unref, PortType
  <2>4. ASSUME NEW b \in Proc, NEW w \in waits'[b] PROVE Waits(b, w)'
    <3>1. /\ w \in waits[b] /\ w[1] \in Port /\ w[2] \in Kinds
          /\ rights'[b] = rights[b] /\ Mine(b, w[1])' # {}
      BY <2>0, <1>StillParked, Zenon
    <3>2. Waits(b, w)
      BY <3>1, <1>WaitsIs, Zenon
    <3>3. CASE w[1] # p
      <4>1. queue'[w[1]] = queue[w[1]] /\ dead'[w[1]] = dead[w[1]] /\ nrights'[w[1]] = nrights[w[1]]
        BY <2>0, <2>3, <3>1, <3>3, Zenon DEF PortType
      <4>2. HangsIn(stack, w[1]) => HangsIn(stack', w[1])
        BY <2>1, <2>2, <3>1, Zenon DEF Carries
      <4> QED BY <3>1, <3>2, <4>1, <4>2, Zenon DEF Waits, Full, sole_holder, Mine
    <3>4. CASE w[1] = p
      <4>1. Holders(p)' > 0 /\ nrights'[p] = Holders(p)'
        BY <3>1, <3>4, MineHeld, Zenon DEF CountInv, CountsExact
      <4>2. nrights'[p] = nrights[p] - 1 /\ nrights[p] \in Int
        BY <2>0, <2>3, Zenon DEF PortType
      <4>3. ~(nrights[p] <= 1)
        BY <4>1, <4>2, SMT
      <4>4. HangsIn(stack', w[1])
        BY <2>2, <3>4, <4>3, Zenon
      <4>5. w[2] # "send" => queue'[p] = <<>>
        <5>1. CASE q = queue[p]
          BY <2>3, <3>2, <3>4, <5>1, Zenon DEF Waits
        <5>2. CASE Wake(p, {"recv", "hup"})
          <6>1. w[2] \notin {"recv", "hup"}
            BY <2>0, <3>4, <5>2, <1>NotWoken, Zenon
          <6> QED BY <3>1, <6>1, SMT DEF Kinds
        <5> QED BY <2>1, <5>1, <5>2
      <4> QED BY <3>4, <4>4, <4>5, Zenon DEF Waits
    <3> QED BY <3>3, <3>4
  <2> QED BY <2>4, <1>WaitsIs, Zenon
<1>FreeWakes. ASSUME SetFacts, PlaceInv, PlaceInv', WakeInv, NEW a \in Actor, Turn(a), Awake(a), port_free(a)
              PROVE  WakeInv'
  <2> USE <1>FreeWakes
  <2>1. /\ stack # <<>> /\ Head(stack).op = "free" /\ stack' = Tail(stack) /\ stack \in Seq(Tasks)
        /\ UNCHANGED <<nrights, dead, queue>>
    BY Zenon DEF port_free, PlaceInv, RegionType
  <2>2. Head(stack).op # "hangup"
    BY <2>1, SMT
  <2>3. Carries(stack, stack')
    BY <2>1, <2>2, CarriesTail, Zenon
  <2>4. ASSUME NEW p \in Port PROVE nrights'[p] >= nrights[p]
    <3>1. nrights[p] \in Int
      BY Zenon DEF PlaceInv, PortType
    <3> QED BY <2>1, <3>1, SMT
  <2> QED BY <2>1, <2>3, <2>4, <1>SameWaits, Zenon
<1>HangWakes. ASSUME SetFacts, PlaceInv, PlaceInv', WakeInv, NEW a \in Actor, Turn(a), Awake(a), port_hangup(a)
              PROVE  WakeInv'
  <2> USE <1>HangWakes
  <2> DEFINE p == Head(stack).port
  <2>1. /\ stack # <<>> /\ Wake(p, Kinds) /\ stack' = Tail(stack) /\ stack \in Seq(Tasks)
        /\ UNCHANGED <<nrights, dead, queue, rights>>
    BY Zenon DEF port_hangup, EveryoneLooks, portVars, tableVars, PlaceInv, RegionType
  <2>2. \A x : Hangup(x).port = x
    BY SMT DEF Hangup
  <2>3. ASSUME NEW b \in Proc, NEW w \in waits'[b] PROVE Waits(b, w)'
    <3>1. w \in waits[b] /\ w[2] \in Kinds
      BY <1>StillParked, Zenon
    <3>2. Waits(b, w)
      BY <3>1, <1>WaitsIs, Zenon
    <3>3. w[1] # p
      BY <2>1, <3>1, <1>NotWoken, Zenon
    <3>4. HangsIn(stack, w[1]) => HangsIn(stack', w[1])
      BY <2>1, <2>2, <3>3, CarriesTail, Zenon
    <3> QED BY <2>1, <3>2, <3>4, Zenon DEF Waits, Full, sole_holder, Mine
  <2> QED BY <2>3, <1>WaitsIs, Zenon
<1>WakeActs. ASSUME SetFacts, PlaceInv, PlaceInv', CountInv, CountInv', WakeInv, NEW a \in Actor, Acts(a),
                    Turn(a)
             PROVE  WakeInv'
  <2> USE <1>WakeActs
  <2>1. CASE port_free(a) \/ port_hangup(a)
    <3>1. Awake(a)
      BY <2>1, TaskAwake, Zenon DEF Task
    <3> QED BY <2>1, <3>1, <1>FreeWakes, <1>HangWakes, Zenon
  <2> QED BY <2>1, FormsOf, <1>QuietWakes, <1>ParksWakes, <1>PushesWakes, <1>PopsWakes, <1>GainsWakes,
             <1>NewsWakes, <1>LosesWakes, Zenon
<1> QED BY <1>WakeActs, Zenon

----------------------------------------------------------------------------
(* The first state: the right tables the procs start with, and nothing in  *)
(* flight.                                                                 *)
LEMMA PlaceInit ==
    ASSUME SetFacts, Init
    PROVE  PlaceInv
<1>1. PortType
  <2>1. \A p : Holders(p) \in Int /\ Receivers(p) \in Int
    <3>1. \A p : Holders(p) \in Nat /\ Receivers(p) \in Nat
      BY CountsNat, Zenon
    <3>2. \A i \in Nat : i \in Int
      BY SMT
    <3> QED BY <3>1, <3>2, Zenon
  <2>2. <<>> \in Seq(MsgId) /\ FALSE \in BOOLEAN
    BY SMT
  <2> QED BY <2>1, <2>2, Zenon DEF Init, PortType
<1>2. HolderType
  <2>1. rights \in [Proc -> Table]
    BY PortsAssumption, Zenon DEF Init, Table
  <2>2. refs \in [MsgId -> [Slot -> Right \cup {NoRight}]] /\ timers \in [Timer -> Port \cup {NoPort}]
    BY Zenon DEF Init
  <2>3. ASSUME NEW a \in Proc PROVE Cardinality({h \in Held(a) : Boot[a][h].recv}) \in Int
    <3>1. {h \in Held(a) : Boot[a][h].recv} \in SUBSET Handle /\ IsFiniteSet(Handle)
      BY Zenon DEF Held, SetFacts
    <3>2. IsFiniteSet({h \in Held(a) : Boot[a][h].recv})
      BY <3>1, Zenon DEF SetFacts
    <3>3. Cardinality({h \in Held(a) : Boot[a][h].recv}) \in Nat
      BY <3>2, Zenon DEF SetFacts
    <3> QED BY <3>3, SMT
  <2>4. nports \in [Proc -> Int]
    BY <2>3, Zenon DEF Init
  <2>5. 0 \in Nat
    BY SMT
  <2> QED BY <2>1, <2>2, <2>4, <2>5, Zenon DEF Init, HolderType
<1>3. ProcType
  <2>1. "run" \in Places
    BY SMT DEF Places
  <2> QED BY <2>1, IdleLocal, Zenon DEF Init, ProcType
<1>4. RegionType
  <2>1. <<>> \in Seq(Tasks) /\ 0 \in Nat /\ "run" \in Places
    BY SMT DEF Places
  <2> QED BY <2>1, Zenon DEF Init, RegionType
<1>5. /\ \A a \in Actor : pc[a] = "run" /\ local[a] = Idle
      /\ \A a \in Proc : a \in Actor /\ waits[a] = {}
      /\ wide = NoProc /\ depth = 0 /\ stack = <<>> /\ Kernel \in Actor
  BY ProcActor, Zenon DEF Init
<1>6. Hands
  BY <1>5, IdleLocal, HandsAtRun, Zenon DEF Hands
<1>7. Loop
  <2>1. "run" \in {"run", "region"} /\ "run" # "region"
    BY SMT
  <2> QED BY <1>5, <2>1, IdleLocal, Zenon DEF Loop
<1>8. Regions
  BY <1>5, Words, IdleLocal, Zenon DEF Regions
<1>9. Fits(stack, wide, rights)
  BY <1>5, FitsNone, Zenon
<1>10. Linked /\ Emptied
  <2>1. Linked
    BY <1>5, Words, Zenon DEF Linked
  <2>2. Emptied
    BY Zenon DEF Init, Emptied
  <2> QED BY <2>1, <2>2
<1> QED BY <1>1, <1>2, <1>3, <1>4, <1>6, <1>7, <1>8, <1>9, <1>10, Zenon DEF PlaceInv

(* A port that a proc starts with has a receiver. *)
LEMMA BootReceives ==
    \A a \in Proc, h \in Handle : Boot[a][h] # NoRight =>
       \E b \in Proc, g \in Handle : Boot[b][g] = [port |-> Boot[a][h].port, recv |-> TRUE]
BY PortsAssumption, Zenon

(* CountInv holds at the start, *)
LEMMA CountInit ==
    ASSUME SetFacts, Init
    PROVE  CountInv
<1>1. PortType /\ Emptied
  BY PlaceInit, Zenon DEF PlaceInv
<1>2. ASSUME NEW p \in Port PROVE Counted(p)
  <2>1. nrights[p] = Holders(p) /\ nrecv[p] = Receivers(p) /\ (p \in used <=> InTables(p) # {})
    BY Zenon DEF Init
  <2>2. InTables(p) = Uses(Proc, Handle, rights, p) /\ RecvTables(p) = Takes(Proc, Handle, rights, p)
    BY Zenon DEF InTables, RecvTables, Uses, Takes
  <2>3. Uses(MsgId, Slot, refs, p) = {} /\ Takes(MsgId, Slot, refs, p) = {} /\ InTimers(p) = {}
    <3>1. ASSUME NEW x \in Uses(MsgId, Slot, refs, p) PROVE FALSE
      <4>1. x \in MsgId \X Slot
        BY Zenon DEF Uses
      <4>2. x[1] \in MsgId /\ x[2] \in Slot
        BY <4>1, SMT
      <4> QED BY <4>2, Zenon DEF Init, Uses
    <3>2. InTimers(p) = {}
      BY PortsAssumption, Zenon DEF Init, InTimers
    <3> QED BY <3>1, <3>2, Zenon DEF Takes
  <2> DEFINE u == Many(Uses(Proc, Handle, rights, p))
             t == Many(Takes(Proc, Handle, rights, p))
             v == Many(Uses(MsgId, Slot, refs, p))
             s == Many(Takes(MsgId, Slot, refs, p))
             n == Many(InTimers(p))
  <2>4. Holders(p) = u + v + n /\ Receivers(p) = t + s
    BY HoldersAre, Zenon
  <2>5. /\ u \in Nat /\ t \in Nat /\ v = 0 /\ s = 0 /\ n = 0
        /\ (u = 0 <=> Uses(Proc, Handle, rights, p) = {})
        /\ (t = 0 <=> Takes(Proc, Handle, rights, p) = {})
    <3>1. n = 0
      <4>1. IsFiniteSet(InTimers(p))
        BY Zenon DEF SetFacts, InTimers
      <4> QED BY <2>3, <4>1, Zenon DEF SetFacts, Many
    <3> QED BY <2>3, <3>1, ManyNat, Zenon
  <2>6. ASSUME Uses(Proc, Handle, rights, p) # {} PROVE Takes(Proc, Handle, rights, p) # {}
    <3>1. PICK x \in Proc \X Handle : rights[x[1]][x[2]] # NoRight /\ rights[x[1]][x[2]].port = p
      BY <2>6, Zenon DEF Uses
    <3>2. x[1] \in Proc /\ x[2] \in Handle /\ rights = Boot
      BY SMT DEF Init
    <3>3. PICK b \in Proc, g \in Handle : Boot[b][g] = [port |-> p, recv |-> TRUE]
      <4>1. Boot[x[1]][x[2]] # NoRight /\ Boot[x[1]][x[2]].port = p
        BY <3>1, <3>2, Zenon
      <4>2. \E b \in Proc, g \in Handle :
               Boot[b][g] = [port |-> Boot[x[1]][x[2]].port, recv |-> TRUE]
        BY <3>2, <4>1, BootReceives, Zenon
      <4> QED BY <4>1, <4>2, Zenon
    <3>4. [port |-> p, recv |-> TRUE] \in Right
      BY SMT DEF Right
    <3>5. rights[b][g] # NoRight /\ rights[b][g].port = p /\ rights[b][g].recv
      <4>1. NoRight \notin Right
        BY PortsAssumption, Zenon
      <4>2. [port |-> p, recv |-> TRUE].port = p /\ [port |-> p, recv |-> TRUE].recv
        BY SMT
      <4> QED BY <3>2, <3>3, <3>4, <4>1, <4>2, Zenon
    <3>6. <<b, g>> \in Proc \X Handle /\ <<b, g>>[1] = b /\ <<b, g>>[2] = g
      BY SMT
    <3>7. <<b, g>> \in Takes(Proc, Handle, rights, p)
      BY <3>5, <3>6, Zenon DEF Takes, Uses
    <3> QED BY <3>7, Zenon
  <2> HIDE DEF u, t, v, s, n
  <2>7. p \in used => nrecv[p] # 0
    BY <2>1, <2>2, <2>4, <2>5, <2>6, SMT
  <2>8. nrights[p] > 0 => p \in used
    <3>1. nrights[p] > 0 => u # 0
      BY <2>1, <2>4, <2>5, SMT
    <3> QED BY <2>1, <2>2, <2>5, <3>1, Zenon
  <2>9. NoFree(stack, p)
    <3>1. NoFree(<<>>, p)
      BY SMT DEF NoFree
    <3> QED BY <3>1, Zenon DEF Init
  <2> QED BY <2>1, <2>7, <2>8, <2>9, Zenon DEF Counted
<1> QED BY <1>1, <1>2, CountedIs, Zenon

(* and so does WakeInv. *)
LEMMA WakeInit ==
    ASSUME Init
    PROVE  WakeInv
BY Zenon DEF Init, WakeInv
============================================================================
