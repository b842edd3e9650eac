------------------------------- MODULE Trace -------------------------------
(***************************************************************************)
(* A proc's line trace: the ring its hook fills (proc.c), and the calls    *)
(* that arm and read it from another proc (sysapi.c), which hold the       *)
(* target still across a yield.                                            *)
(***************************************************************************)
EXTENDS Integers, Sequences, SequencesExt, FiniteSets, Folds, FiniteSetsExt

CONSTANTS Source,     \* files the target runs lines of
          Line,       \* their lines
          RingSizes,       \* ring sizes asked for, 0 to stop
          TRACESRC,   \* names a ring remembers
          Spent,      \* how long a step may take
          MaxRan      \* lines run at most

ASSUME TraceAssumption == TRACESRC \in Nat \ {0} /\ Spent \subseteq Nat /\ MaxRan \in Nat

VARIABLES target,   \* its state, whether it is on a cpu, how often it is frozen
          trace,    \* the ring, or none
          clock,    \* the wall clock and the cycles the target has run, since the ring was armed
          ran,      \* what ran since the ring was armed, and when
          call,     \* the tracer's call
          answer    \* what the read that has just ended answered

trace_vars == <<target, trace, clock, ran, call, answer>>

NoTrace == [cap |-> 0, ent |-> <<>>, n |-> 0, name |-> <<>>, last |-> [src |-> "", id |-> 0], wall |-> 0, cpu |-> 0]
NoCall == [fn |-> "none", n |-> 0]
NoAnswer == [fn |-> "none", lines |-> <<>>, hist |-> {}, of |-> <<>>, cap |-> 0]

TraceInit ==
    /\ target = [status |-> "ready", oncpu |-> FALSE, frozen |-> 0]
    /\ trace = NoTrace
    /\ clock = [wall |-> 0, cpu |-> 0]
    /\ ran = <<>>
    /\ call = NoCall
    /\ answer = NoAnswer

-----------------------------------------------------------------------------
(* The hook. *)

(* The slot of a name, which may be a new one; the first when there is none. *)
Interned(t, s) ==
    LET at == {i \in DOMAIN t.name : t.name[i] = s} IN
    IF at # {} THEN [t |-> t, id |-> Min(at)]
    ELSE IF Len(t.name) >= TRACESRC THEN [t |-> t, id |-> 1]
    ELSE [t |-> [t EXCEPT !.name = Append(@, s)], id |-> Len(t.name) + 1]

(* An entry.  The time since the entry before is that one's. *)
ChargesNew(t, e, now) ==
    LET f == [t EXCEPT !.ent[(t.n % t.cap) + 1] =
                 [line |-> e.line, src |-> e.src, wall |-> IF t.n > 0 THEN now.wall - t.wall ELSE 0,
                  cpu |-> IF t.n > 0 THEN now.cpu - t.cpu ELSE 0]]
    IN  [f EXCEPT !.wall = now.wall, !.cpu = now.cpu, !.n = @ + 1]

trace_put(t, e, now) ==
    LET prev == ((t.n - 1) % t.cap) + 1
        f == IF t.n = 0 THEN t
             ELSE [t EXCEPT !.ent[prev].wall = now.wall - t.wall, !.ent[prev].cpu = now.cpu - t.cpu]
    IN  [f EXCEPT !.ent[(t.n % t.cap) + 1] = [line |-> e.line, src |-> e.src, wall |-> 0, cpu |-> 0],
                  !.wall = now.wall, !.cpu = now.cpu, !.n = @ + 1]

(* A line: its name by the one-entry cache, or by the table. *)
trace_line(t, s, line, now) ==
    LET r == IF t.last.src = s THEN [t |-> t, id |-> t.last.id] ELSE Interned(t, s)
    IN  trace_put([r.t EXCEPT !.last = [src |-> s, id |-> r.id]], [line |-> line, src |-> r.id], now)

(* A marker, which evicts no file and forgets the cache. *)
trace_mark(t, what, now) ==
    LET r == Interned(t, what) IN
    IF r.t = t /\ t.name[r.id] # what THEN t
    ELSE trace_put([r.t EXCEPT !.last = [src |-> "", id |-> 0]], [line |-> 0, src |-> r.id], now)

Ran(s, line, now) == IF trace.cap = 0 THEN <<>> ELSE Append(ran, [src |-> s, line |-> line, at |-> now])

Later(wall, cpu) ==
    IF trace.cap = 0 THEN clock ELSE [wall |-> clock.wall + wall, cpu |-> clock.cpu + cpu]

Scheduled ==
    /\ target.status = "ready" /\ ~target.oncpu /\ target.frozen = 0
    /\ Len(ran) < MaxRan
    /\ \E d \in Spent : LET now == Later(d, 0) IN
         /\ clock' = now
         /\ trace' = IF trace.cap = 0 THEN trace ELSE trace_mark(trace, "<scheduled>", now)
         /\ ran' = Ran("<scheduled>", 0, now)
    /\ target' = [target EXCEPT !.oncpu = TRUE]
    /\ answer' = NoAnswer
    /\ UNCHANGED call

RunsLine(s, line) ==
    /\ target.oncpu /\ Len(ran) < MaxRan
    /\ \E d \in Spent : LET now == Later(d, d) IN
         /\ clock' = now
         /\ trace' = IF trace.cap = 0 THEN trace ELSE trace_line(trace, s, line, now)
         /\ ran' = Ran(s, line, now)
    /\ answer' = NoAnswer
    /\ UNCHANGED <<target, call>>

(* The slice ends, or the target breaks and keeps its ring. *)
Stops ==
    /\ target.oncpu
    /\ \E s \in {"ready", "broke"} : target' = [target EXCEPT !.oncpu = FALSE, !.status = s]
    /\ answer' = NoAnswer
    /\ UNCHANGED <<trace, clock, ran, call>>

-----------------------------------------------------------------------------
(* The tracer. *)

Freeze == target' = [target EXCEPT !.frozen = @ + 1]
Thaw == target' = [target EXCEPT !.frozen = IF @ > 0 THEN @ - 1 ELSE 0]

Fresh(n) == [NoTrace EXCEPT !.cap = n, !.ent = [i \in 1 .. n |-> [line |-> 0, src |-> 0, wall |-> 0, cpu |-> 0]]]

(* The ring freed and another put in its place, or none. *)
trace_arm(n) ==
    /\ trace' = IF n = 0 THEN NoTrace ELSE Fresh(n)
    /\ ran' = <<>> /\ clock' = [wall |-> 0, cpu |-> 0]

Ends == call' = NoCall

(* What set_trace_k refuses; it asks again after every yield. *)
Refuses(n) == target.status = "broke" /\ n > 0

set_trace(n) ==
    /\ call = NoCall
    /\ ~Refuses(n)
    /\ IF target.oncpu
       THEN Freeze /\ call' = [fn |-> "set", n |-> n] /\ UNCHANGED <<trace, clock, ran>>
       ELSE trace_arm(n) /\ UNCHANGED <<target, call>>
    /\ answer' = NoAnswer

(* The ring is freed under the target's hook unless it is off its cpu. *)
proc_still_running == target.oncpu

set_trace_k ==
    /\ call.fn = "set" /\ (Refuses(call.n) \/ ~proc_still_running)
    /\ IF Refuses(call.n) THEN UNCHANGED <<target, trace, clock, ran>>
       ELSE Thaw /\ trace_arm(call.n)
    /\ Ends
    /\ answer' = NoAnswer

reads(fn) ==
    /\ call = NoCall /\ trace.cap > 0
    /\ Freeze
    /\ call' = [fn |-> fn, n |-> 0]
    /\ answer' = NoAnswer
    /\ UNCHANGED <<trace, clock, ran>>

(* The entries still in the ring, oldest first. *)
Kept(t) == IF t.n < t.cap THEN t.n ELSE t.cap

trace_body(t) ==
    [i \in 1 .. Kept(t) |-> LET e == t.ent[((t.n - Kept(t) + i - 1) % t.cap) + 1]
                            IN  [src |-> t.name[e.src], line |-> e.line, wall |-> e.wall, cpu |-> e.cpu]]

(* One row for each line, with what it cost; a set for the rows the code sorts. *)
tracehist_body(t) ==
    LET es == trace_body(t)
        Of(k) == {i \in DOMAIN es : <<es[i].src, es[i].line>> = k}
    IN  {[src |-> k[1], line |-> k[2], count |-> Cardinality(Of(k)),
          cpu |-> FoldSet(LAMBDA i, a : a + es[i].cpu, 0, Of(k))] : k \in {<<es[i].src, es[i].line>> : i \in DOMAIN es}}

trace_read_k ==
    /\ call.fn \in {"trace", "hist"} /\ ~proc_still_running
    /\ answer' = [fn |-> call.fn, of |-> ran, cap |-> trace.cap,
                  lines |-> IF call.fn = "trace" THEN trace_body(trace) ELSE <<>>,
                  hist |-> IF call.fn = "hist" THEN tracehist_body(trace) ELSE {}]
    /\ Thaw /\ Ends
    /\ UNCHANGED <<trace, clock, ran>>

TraceNext ==
    \/ Scheduled \/ Stops \/ \E s \in Source, l \in Line : RunsLine(s, l)
    \/ \E n \in RingSizes : set_trace(n)
    \/ set_trace_k \/ \E fn \in {"trace", "hist"} : reads(fn)
    \/ trace_read_k

-----------------------------------------------------------------------------
(* Properties. *)

(* A read answers the last lines that ran, in order, each with the time until
   the next: the ring may have wrapped, been armed again, or belong to a proc
   that has since died.  A histogram counts the same lines (trace_put,
   trace_body, tracehist_body). *)
TraceIsTail ==
    LET of == answer.of
        Cost(i, c) == IF i < Len(of) THEN of[i + 1].at[c] - of[i].at[c] ELSE 0
        Entry(i) == [src |-> of[i].src, line |-> of[i].line, wall |-> Cost(i, "wall"), cpu |-> Cost(i, "cpu")]
        first == IF Len(of) > answer.cap THEN Len(of) - answer.cap + 1 ELSE 1
        Same(i) == {k \in first .. Len(of) : of[k].src = of[i].src /\ of[k].line = of[i].line}
    IN  /\ answer.fn = "trace" => answer.lines = SubSeq([i \in DOMAIN of |-> Entry(i)], first, Len(of))
        /\ answer.fn = "hist" => answer.hist =
              {[src |-> of[i].src, line |-> of[i].line, count |-> Cardinality(Same(i)),
                cpu |-> FoldSet(LAMBDA k, a : a + Cost(k, "cpu"), 0, Same(i))] : i \in first .. Len(of)}
=============================================================================
