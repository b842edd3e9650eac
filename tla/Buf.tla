-------------------------------- MODULE Buf --------------------------------
(***************************************************************************)
(* los.buf: bytes that a proc holds outside its lua heap, views of them,   *)
(* and their way to another proc in a message.  A buffer belongs to one    *)
(* proc at a time, which is charged for it against the cap of its lua      *)
(* memory.  Every call is one step: a proc's objects are its own, and a    *)
(* message is queued or taken whole.                                       *)
(***************************************************************************)
EXTENDS Naturals, Sequences, SequencesExt, FiniteSets, FiniteSetsExt

CONSTANTS Procs, Limit,    \* the procs, and their mem_limit
          Lens,            \* sizes of buffers and steps of lua memory
          Stores,          \* what the chunk source can hand out
          Objs,            \* bound: objects a proc has, in the order they are made
          MaxMsgs          \* bound: messages queued for a proc

VARIABLES obj,      \* each proc's los.buf objects
          store,    \* length of each store handed out
          mail,     \* messages for each proc: the stores they carry
          lua,      \* lua memory of each proc
          buf_used  \* kproc.buf_used

buf_vars == <<obj, store, mail, lua, buf_used>>

Nothing == [made |-> FALSE]
BufInit ==
    /\ obj = [p \in Procs |-> [o \in Objs |-> Nothing]]
    /\ store = [s \in {} |-> 0]
    /\ mail = [p \in Procs |-> <<>>]
    /\ lua = [p \in Procs |-> 0]
    /\ buf_used = [p \in Procs |-> 0]
----------------------------------------------------------------------------
mem_used(p) == lua[p] + buf_used[p]
kbuf_charge(p, n) == mem_used(p) + n <= Limit

Made(p) == {o \in Objs : obj[p][o].made}
Newest(p) == IF Made(p) = {} THEN 0 ELSE Max(Made(p))
Room(p, k) == Newest(p) + k \in Objs
Owner(s) == [made |-> TRUE, s |-> s, owned |-> TRUE, ro |-> FALSE, views |-> 0, parent |-> 0]

Free == Stores \ DOMAIN store
Taken(s, n) == [x \in DOMAIN store \cup {s} |-> IF x = s THEN n ELSE store[x]]
Released(S) == [x \in DOMAIN store \ S |-> store[x]]

(* buf_new, buf_clone and luabuf_push: the cap first or the bytes first, a  *)
(* refusal leaves nothing behind.                                          *)
buf_new(p, n) ==
    /\ Room(p, 1) /\ kbuf_charge(p, n)
    /\ \E s \in Free :
          /\ s = Min(Free)
          /\ store' = Taken(s, n)
          /\ obj' = [obj EXCEPT ![p][Newest(p) + 1] = Owner(s)]
    /\ buf_used' = [buf_used EXCEPT ![p] = @ + n]
    /\ UNCHANGED <<mail, lua>>

(* A view of a buffer or of a view: it holds what it looks at. *)
(* Mutant: a view is not counted. *)
CountsNot(v) == 0
CountsView(v) == v + 1

View(p, o, ro) ==
    /\ Room(p, 1) /\ obj[p][o].made /\ obj[p][o].s # 0
    /\ obj' = [obj EXCEPT ![p][Newest(p) + 1] =
                    [Owner(obj[p][o].s) EXCEPT !.owned = FALSE, !.ro = ro, !.parent = o],
                          ![p][o].views = CountsView(@)]
    /\ UNCHANGED <<store, mail, lua, buf_used>>

buf_view(p, o) == View(p, o, obj[p][o].made /\ obj[p][o].ro)
buf_ro(p, o) == View(p, o, TRUE)

(* The collector finalizes an object nothing else holds. *)
buf_gc(p, o) ==
    LET b == obj[p][o] IN
    /\ b.made /\ \A v \in Made(p) : obj[p][v].parent # o
    /\ \/ /\ b.owned /\ b.s # 0
          /\ store' = Released({b.s})
          /\ buf_used' = [buf_used EXCEPT ![p] = @ - store[b.s]]
          /\ obj' = [obj EXCEPT ![p][o] = Nothing]
       \/ /\ b.owned /\ b.s = 0
          /\ obj' = [obj EXCEPT ![p][o] = Nothing] /\ UNCHANGED <<store, buf_used>>
       \/ /\ ~b.owned
          /\ obj' = [obj EXCEPT ![p][o] = Nothing,
                                ![p][b.parent].views = IF @ > 0 THEN @ - 1 ELSE @]
          /\ UNCHANGED <<store, buf_used>>
    /\ UNCHANGED <<mail, lua>>

(* lua's own memory: growth is refused at the cap, a shrink is not. *)
kalloc(p, n) ==
    /\ \/ mem_used(p) + n <= Limit /\ lua' = [lua EXCEPT ![p] = @ + n]
       \/ n <= lua[p] /\ lua' = [lua EXCEPT ![p] = @ - n]
    /\ UNCHANGED <<obj, store, mail, buf_used>>
----------------------------------------------------------------------------
(* What may travel: bytes its holder alone owns. *)
luabuf_borrow(b) == b.made /\ b.s # 0 /\ b.owned /\ ~b.ro /\ b.views = 0

(* A message with buffers, each named once: the sender lets go of them once *)
(* it is queued.                                                           *)
Send(p, q, S) ==
    LET bytes(o) == store[obj[p][o].s] IN
    /\ S # {} /\ \A o \in S : luabuf_borrow(obj[p][o])
    /\ Len(mail[q]) < MaxMsgs
    /\ mail' = [mail EXCEPT ![q] = Append(@, SetToSortSeq({obj[p][o].s : o \in S}, <))]
    /\ buf_used' = [buf_used EXCEPT ![p] = @ - MapThenSumSet(bytes, S)]
    /\ obj' = [obj EXCEPT ![p] = [o \in Objs |-> IF o \in S THEN [@[o] EXCEPT !.s = 0] ELSE @[o]]]
    /\ UNCHANGED <<store, lua>>

(* deserialize gives them to the receiver one after the other.  One that   *)
(* exceeds the cap refuses the message; the rest of it is freed.           *)
Given(p, m) ==
    LET upto(k) == MapThenSumSet(LAMBDA i : store[m[i]], 1 .. k)
        fits == {k \in 0 .. Len(m) : mem_used(p) + upto(k) <= Limit}
    IN  Max({k \in 0 .. Len(m) : \A j \in 1 .. k : j \in fits})

Rest(m, k) == {m[i] : i \in k + 1 .. Len(m)}

Receive(p) ==
    LET m == Head(mail[p])
        k == Given(p, m) IN
    /\ mail[p] # <<>> /\ Room(p, Len(m))
    /\ mail' = [mail EXCEPT ![p] = Tail(@)]
    /\ obj' = [obj EXCEPT ![p] = [o \in Objs |->
                  IF o - Newest(p) \in 1 .. k THEN Owner(m[o - Newest(p)]) ELSE @[o]]]
    /\ buf_used' = [buf_used EXCEPT ![p] = @ + MapThenSumSet(LAMBDA i : store[m[i]], 1 .. k)]
    /\ store' = Released(Rest(m, k))
    /\ UNCHANGED lua

(* A port ends with what is queued on it. *)
msgbufs_free(p) ==
    /\ mail[p] # <<>>
    /\ store' = Released(ToSet(FlattenSeq(mail[p])))
    /\ mail' = [mail EXCEPT ![p] = <<>>]
    /\ UNCHANGED <<obj, lua, buf_used>>

(* lua_close runs every finalizer, the youngest first. *)
Exit(p) ==
    /\ Made(p) # {}
    /\ store' = Released({obj[p][o].s : o \in {x \in Made(p) : obj[p][x].owned}})
    /\ obj' = [obj EXCEPT ![p] = [o \in Objs |-> Nothing]]
    /\ lua' = [lua EXCEPT ![p] = 0]
    /\ buf_used' = [buf_used EXCEPT ![p] = 0]
    /\ UNCHANGED mail

BufNext == \E p \in Procs :
    \/ \E n \in Lens : buf_new(p, n) \/ kalloc(p, n)
    \/ \E o \in Objs : buf_view(p, o) \/ buf_ro(p, o) \/ buf_gc(p, o)
    \/ \E q \in Procs, S \in SUBSET Made(p) : Send(p, q, S)
    \/ Receive(p) \/ msgbufs_free(p) \/ Exit(p)

BufSpec == BufInit /\ [][BufNext]_buf_vars
----------------------------------------------------------------------------
(* Bytes have one owner: a proc's buffer or a message, never both or two,   *)
(* and none is lost; a view looks at bytes its own proc still owns (buf.c   *)
(* luabuf_borrow: "storage its holder alone owns").                        *)
Holders(s) ==
    {<<p, o>> \in Procs \X Objs : obj[p][o].made /\ obj[p][o].owned /\ obj[p][o].s = s}
InMail(s) == {<<p, i>> \in Procs \X (1 .. MaxMsgs) : i <= Len(mail[p]) /\ s \in ToSet(mail[p][i])}
OneOwner ==
    /\ \A s \in DOMAIN store : Cardinality(Holders(s)) + Cardinality(InMail(s)) = 1
    /\ \A p \in Procs : \A o \in Made(p) :
          obj[p][o].s # 0 => \E <<q, r>> \in Holders(obj[p][o].s) : q = p

(* A proc is charged for the bytes it owns and no others, and stays within  *)
(* its cap (proc.c kbuf_charge: "a proc that can allocate outside its       *)
(* budget has no budget").                                                 *)
ChargeExact == \A p \in Procs :
    /\ buf_used[p] = MapThenSumSet(LAMBDA o : IF obj[p][o].owned /\ obj[p][o].s # 0
                                              THEN store[obj[p][o].s] ELSE 0, Made(p))
    /\ mem_used(p) <= Limit

(* Making, viewing, sending, receiving half a message and finalizing in any  *)
(* order: the bytes have one owner, and it is the one that is charged.      *)
BuffersAccounted == OneOwner /\ ChargeExact
============================================================================
