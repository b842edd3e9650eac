------------------------------ MODULE Inspect ------------------------------
(***************************************************************************)
(* Reading a held proc (src/src/debug.c, src/src/dbg.c): the walk that     *)
(* finds its coroutines, and los.dbg's reads of frames, locals, upvalues   *)
(* and values by path.  They use the target's own stack, which must be     *)
(* left as it was, and stop at fixed bounds whatever the target's shape.   *)
(* A value is a name: of a table, of a coroutine, or of itself.            *)
(***************************************************************************)
EXTENDS Naturals, Sequences, FiniteSets, SequencesExt

CONSTANTS Shapes,     \* heaps: each table's entries [k, v], in lua_next's order
          Coroutines, \* names of coroutines
          IntKeys,    \* keys that are integers; the others are not
          Stacks,     \* the frames of a coroutine: [fn, locals, upvals], each slot [name, v]
          Wanted,     \* paths asked for: [root, name, path]
          MAXCOROS, MAXSEEN, MAXDEPTH, MAXLOCALS, MAXSCAN, READFRAMES, DBGKEYS, DBGPATH

VARIABLES heap,
          coros,      \* p->coros, p->co among them
          frames,     \* each coroutine's
          stopco,     \* where the stop was, or "none"
          stack,      \* each coroutine's lua stack
          report      \* the last answer
inspect_vars == <<heap, coros, frames, stopco, stack, report>>

Nil == "nil"
Main == "main"
Own == <<"own", "top">>
NoReport == [op |-> "none"]
Failed == [op |-> "failed"]

InspectInit ==
    /\ heap \in Shapes
    /\ coros \in {<<Main>>, <<"c1", Main>>}
    /\ frames \in [Range(coros) -> Stacks]
    /\ stopco \in Range(coros) \cup {"none"}
    /\ stack = [c \in Range(coros) |-> Own]
    /\ report = NoReport

IsTable(v) == v \in DOMAIN heap
FirstOf(s, n) == SubSeq(s, 1, IF Len(s) < n THEN Len(s) ELSE n)

(* ---- the walk ---- *)

(* When `seen' is full a table is walked again, as deep as the walk goes. *)
Marked(w, t) == IF Len(w.seen) < MAXSEEN THEN [w EXCEPT !.seen = Append(@, t)] ELSE w

remember(w, c) ==
    IF Contains(w.found, c) \/ Len(w.found) >= MAXCOROS THEN w ELSE [w EXCEPT !.found = Append(@, c)]

(* A parked thread may be nothing but a key. *)
Looked(e) == <<e.v, e.k>>

RECURSIVE walk_table(_, _, _)
walk_table(w, t, deep) ==
    IF deep > MAXDEPTH \/ Len(w.found) >= MAXCOROS \/ Contains(w.seen, t) THEN w
    ELSE LET visit(acc, x) == IF x \in Coroutines THEN remember(acc, x)
                              ELSE IF IsTable(x) THEN walk_table(acc, x, deep + 1) ELSE acc
         IN  FoldLeft(LAMBDA acc, e : FoldLeft(visit, acc, Looked(e)), Marked(w, t), heap[t])

collect == walk_table(walk_table([found |-> <<>>, seen |-> <<>>], "globals", 0), "registry", 0).found

(* The proc's own coroutine first, whether or not the walk came to it. *)
debug_push_stacks ==
    /\ report' = [op |-> "stacks", cs |-> <<Main>> \o SelectSeq(collect, LAMBDA c : c # Main)]
    /\ UNCHANGED <<heap, coros, frames, stopco, stack>>

(* ---- which coroutine ---- *)

(* Places in p->coros, from 1; 0 is none. *)
dbg_coidx(c) == IF Contains(coros, c) THEN CHOOSE i \in DOMAIN coros : coros[i] = c ELSE 0
dbg_costate(i) == IF i \in DOMAIN coros THEN coros[i] ELSE "none"

dbg_push_status ==
    /\ report' = [op |-> "status", i |-> dbg_coidx(stopco)]
    /\ UNCHANGED <<heap, coros, frames, stopco, stack>>

dbg_coros_body ==
    /\ report' = [op |-> "coros", cs |-> [i \in DOMAIN coros |-> [co |-> coros[i], stopped |-> coros[i] = stopco]]]
    /\ UNCHANGED <<heap, coros, frames, stopco, stack>>

(* ---- reads: T is the stack as a read leaves it ---- *)

settop(T, n) == [i \in 1 .. n |-> IF i <= Len(T) THEN T[i] ELSE Nil]

(* A table cut short leaves a key on the stack, and two values are popped:
   that key and the table under it.  The top is put back either way. *)
Cut(T) == Len(heap[Last(T)]) >= DBGKEYS
LeavesTop(T) == IF Cut(T) THEN Front(T) ELSE T

KeptTop(T) == settop(IF Cut(T) THEN Front(T) ELSE T, Len(T))

push_keys(T) ==
    [T |-> KeptTop(T), keys |-> FirstOf([i \in DOMAIN heap[Last(T)] |-> heap[Last(T)][i].k], DBGKEYS)]

(* The value on top as a reader is shown it (push_desc): a table with its
   first keys. *)
Described(T) == IF IsTable(Last(T)) THEN push_keys(T) ELSE [T |-> T, keys |-> <<>>]

(* Locals come from the frame, upvalues from the function on top. *)
Slots(T, f, upvals) == IF ~upvals THEN f.locals ELSE IF Last(T) = f.fn THEN f.upvals ELSE <<>>

push_slots(c, f, upvals, upto) ==
    LET start == IF upvals THEN Append(stack[c], f.fn) ELSE stack[c]
        slot(acc, i) ==
            IF i > Len(Slots(acc.T, f, upvals)) THEN acc
            ELSE LET s == Slots(acc.T, f, upvals)[i]
                     r == Described(Append(acc.T, s.v))
                 IN  [T |-> Front(r.T), out |-> Append(acc.out, [name |-> s.name, v |-> s.v, keys |-> r.keys])]
    IN  FoldLeft(slot, [T |-> start, out |-> <<>>], [i \in 1 .. upto |-> i])

(* One key of the table on top, and its value in the table's place.  A string
   is looked for among so many entries. *)
hop(r, k) ==
    IF ~r.ok \/ ~IsTable(Last(r.T)) THEN [r EXCEPT !.ok = FALSE]
    ELSE LET es == heap[Last(r.T)]
             at == SelectSeq(IF k \in IntKeys THEN es ELSE FirstOf(es, MAXSCAN), LAMBDA e : e.k = k)
         IN  IF at # <<>> THEN [T |-> Append(Front(r.T), at[1].v), ok |-> TRUE]
             ELSE IF k \in IntKeys THEN [T |-> Append(Front(r.T), Nil), ok |-> FALSE]
             ELSE [T |-> Front(r.T), ok |-> FALSE]

push_root(c, f, root, name) ==
    LET named(slots) == SelectSeq(FirstOf(slots, MAXLOCALS), LAMBDA s : s.name = name)
        slots == IF root = "local" THEN f.locals ELSE f.upvals
    IN  IF root = "global" THEN hop([T |-> Append(stack[c], "globals"), ok |-> TRUE], name)
        ELSE IF named(slots) # <<>> THEN [T |-> Append(stack[c], named(slots)[1].v), ok |-> TRUE]
        ELSE [T |-> IF root = "local" THEN stack[c] ELSE Append(stack[c], f.fn), ok |-> FALSE]

dbg_push_path(c, f, want) ==
    IF Len(want.path) > DBGPATH THEN [T |-> stack[c], ok |-> FALSE]
    ELSE FoldLeft(hop, push_root(c, f, want.root, want.name), want.path)

(* The tail every read shares: the top was noted before, and is put back when
   the body is done and when it raised for want of memory. *)
Restores(T, c) == settop(T, Len(stack[c]))
read_tail(c, T, answer) ==
    /\ stack' = [stack EXCEPT ![c] = Restores(T, c)]
    /\ report' \in {answer, Failed}
    /\ UNCHANGED <<heap, coros, frames, stopco>>

dbg_push_frames(c) == Len(FirstOf(frames[c], READFRAMES))

dbg_read_body(i) ==
    IF dbg_costate(i) = "none" THEN report' = Failed /\ UNCHANGED <<heap, coros, frames, stopco, stack>>
    ELSE \E c \in {dbg_costate(i)} :
        \/ read_tail(c, stack[c], [op |-> "frames", co |-> i, n |-> dbg_push_frames(c)])
        \/ \E level \in DOMAIN frames[c] : LET f == frames[c][level] IN
              \/ \E upvals \in BOOLEAN, upto \in 0 .. MAXLOCALS :
                    \E r \in {push_slots(c, f, upvals, upto)} :
                        read_tail(c, r.T, IF upto < MAXLOCALS THEN Failed
                                         ELSE [op |-> "slots", co |-> i, level |-> level, upvals |-> upvals, out |-> r.out])
              \/ \E want \in Wanted : \E r \in {dbg_push_path(c, f, want)} :
                    read_tail(c, IF r.ok THEN Described(r.T).T ELSE r.T,
                             [op |-> "path", co |-> i, level |-> level, want |-> want,
                              v |-> IF r.ok THEN <<Last(r.T), Described(r.T).keys>> ELSE <<>>])

InspectNext ==
    \/ debug_push_stacks \/ dbg_push_status \/ dbg_coros_body
    \/ \E i \in 0 .. Len(coros) + 1 : dbg_read_body(i)

(* ---- properties ---- *)

Within(t) == {e.v : e \in Range(heap[t])} \cup {e.k : e \in Range(heap[t])}
Grown(S) == S \cup UNION {Within(t) : t \in S \cap DOMAIN heap}
Reached(n) == FoldLeft(LAMBDA S, i : Grown(S), {"globals", "registry"}, [i \in 1 .. n |-> i])
Everything == Reached(Cardinality(DOMAIN heap))

(* A stack report names the proc's own coroutine first and each other one
   once; all of them are the proc's, and in a heap no deeper than the walk
   goes, none is missing: cycles, tables met twice and a full list of seen
   tables lose nothing. *)
WalkFinds ==
    report.op = "stacks" =>
        /\ report.cs[1] = Main /\ IsInjective(report.cs)
        /\ Range(report.cs) \subseteq Everything \cup {Main}
        /\ (Cardinality(Everything \cap DOMAIN heap) <= MAXDEPTH + 1 /\ Len(report.cs) < MAXCOROS)
               => Everything \cap Coroutines \subseteq Range(report.cs)

Shown(v) == <<v, IF IsTable(v) THEN FirstOf([i \in DOMAIN heap[v] |-> heap[v][i].k], DBGKEYS) ELSE <<>>>>
Value(t, k) ==
    IF IsTable(t) /\ \E e \in Range(heap[t]) : e.k = k THEN (CHOOSE e \in Range(heap[t]) : e.k = k).v ELSE Nil

(* A read changes nothing in the target, whether it ends or runs out of
   memory half way: every stack is as it was found.  What it answers is what
   the coroutine it was asked about holds: all of a frame's slots in order, up
   to the bound, and for a path the value found by raw lookups. *)
ReadExact ==
    /\ \A c \in DOMAIN stack : stack[c] = Own
    /\ report.op = "status" => (stopco = "none" \/ dbg_costate(report.i) = stopco)
    /\ report.op = "slots" =>
           LET f == frames[coros[report.co]][report.level]
               all == FirstOf(IF report.upvals THEN f.upvals ELSE f.locals, MAXLOCALS)
           IN  report.out = [i \in DOMAIN all |-> [name |-> all[i].name, v |-> all[i].v, keys |-> Shown(all[i].v)[2]]]
    /\ (report.op = "path" /\ report.v # <<>> /\ report.want.root = "global") =>
           report.v = Shown(FoldLeft(Value, "globals", <<report.want.name>> \o report.want.path))

(* What a debugger or sys.stacks reads of a held proc is what is there, and
   reading it leaves no trace (debug.c debug_push_stacks, dbg.c dbg_read). *)
StackRead == WalkFinds /\ ReadExact
=============================================================================
