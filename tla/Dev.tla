-------------------------------- MODULE Dev --------------------------------
(***************************************************************************)
(* Files as lua sees them: a Chan with a position (chan.c) over a backend  *)
(* whose calls park, driven one message at a time (dev.c).  Two threads    *)
(* share the Chan.  A byte's value is the offset it was meant for, so a    *)
(* byte in the wrong place shows.                                          *)
(***************************************************************************)
EXTENDS Integers, Sequences, SequencesExt, FiniteSets, FiniteSetsExt

CONSTANTS Threads,
          IoUnit,        \* what one message to the backend carries
          Counts,        \* the sizes of reads and writes
          Seeks,         \* the offsets seeks are given
          MaxLen,        \* bound: the file's length
          Tree,          \* what each directory holds: names to nodes
          Walks          \* the names walked

VARIABLES file,          \* the bytes
          pos, h,        \* self.pos; self.h: "open", "closing" or "nil"
          call,          \* what each thread is in the middle of
          told,          \* history: positions the calls since the last seek add up to
          gone           \* directories someone removed

dev_vars == <<file, pos, h, call, told, gone>>

Idle == [fn |-> "none"]
Hole == -1

DevInit ==
    /\ file = [i \in 1 .. 2 |-> i] /\ pos = 0 /\ h = "open" /\ told = 0 /\ gone = {}
    /\ call = [t \in Threads |-> Idle]

Goes(t, c) == call' = [call EXCEPT ![t] = c]
Ready(t) == call[t].fn \in {"none", "returned"}
Returns(t, c) == Goes(t, [c EXCEPT !.fn = "returned"])
----------------------------------------------------------------------------
(* A piece stops at an iounit boundary. *)
Want(off, got, n) ==
    LET room == IoUnit - ((off + got) % IoUnit) IN IF n - got > room THEN room ELSE n - got

(* self.pos moves by what the call moved, from where it is now.  Mutant:   *)
(* from where it was when the call began.                                  *)
AdvanceFrom(c, by) == c.off + by
Advance(c, by) == pos + by

Moved(c, by) == pos' = Advance(c, by) /\ told' = told + by

(* Chan:read, into readloop's first request or straight out.  A Chan that  *)
(* was closed has no handle, and the backend raises.                       *)
Began(what, n) == [fn |-> what, off |-> pos, n |-> n, got |-> 0, data |-> <<>>, size |-> 0]
Begin(t, c) ==
    /\ Ready(t)
    /\ \/ h # "nil" /\ Goes(t, c)
       \/ h = "nil" /\ Goes(t, Idle)
    /\ UNCHANGED <<file, pos, h, told, gone>>
l_read(t, n) == Begin(t, Began("read", n))

(* readloop: the backend's answer, read_take and the next request. *)
Piece(c) == SubSeq(file, c.off + c.got + 1, Min({c.off + c.got + Want(c.off, c.got, c.n), Len(file)}))
Took(c, d) == [c EXCEPT !.got = @ + Len(d), !.data = @ \o d, !.size = Len(file)]

read_loop(t) ==
    LET c == call[t]
        d == IF c.got >= c.n THEN <<>> ELSE Piece(c)
        more == Len(d) = Want(c.off, c.got, c.n) /\ c.got + Len(d) < c.n
    IN  /\ c.fn = "read"
        /\ \/ more /\ Goes(t, Took(c, d)) /\ UNCHANGED <<pos, told>>
           \/ ~more /\ Returns(t, Took(c, d)) /\ Moved(c, c.got + Len(d))
        /\ UNCHANGED <<file, h, gone>>

(* Chan:write and writeloop: the backend takes all of a piece or less. *)
l_write(t, n) == pos + n <= MaxLen /\ Begin(t, Began("write", n))

Placed(at, d) == [i \in 1 .. Max({Len(file), at + Len(d)}) |->
                  IF i - at \in DOMAIN d THEN d[i - at]
                  ELSE IF i \in DOMAIN file THEN file[i] ELSE Hole]
Chunk(c, w) == [k \in 1 .. w |-> c.off + c.got + k]

write_loop(t) ==
    LET c == call[t] IN
    /\ c.fn = "write"
    /\ \E w \in 0 .. Want(c.off, c.got, c.n) :
          LET more == w > 0 /\ w = Want(c.off, c.got, c.n) /\ c.got + w < c.n IN
          /\ file' = IF w = 0 THEN file ELSE Placed(c.off + c.got, Chunk(c, w))
          /\ \/ more /\ Goes(t, [c EXCEPT !.got = @ + w]) /\ UNCHANGED <<pos, told>>
             \/ ~more /\ Goes(t, Idle) /\ Moved(c, c.got + w)
    /\ UNCHANGED <<h, gone>>

(* The backend raises: nil and why, and the position stays. *)
Raises(t) ==
    /\ call[t].fn \in {"read", "write", "end", "walk"}
    /\ Goes(t, Idle) /\ UNCHANGED <<file, pos, h, told, gone>>

(* Chan:seek; from the end it asks the backend first. *)
Sets(to) == pos' = to /\ told' = to
l_seek(t, whence, off) ==
    /\ Ready(t)
    /\ \/ whence = "set" /\ Sets(off) /\ Goes(t, Idle)
       \/ whence = "cur" /\ pos + off <= MaxLen /\ Sets(pos + off) /\ Goes(t, Idle)
       \/ whence = "end" /\ h # "nil" /\ Goes(t, [fn |-> "end", off |-> off]) /\ UNCHANGED <<pos, told>>
    /\ UNCHANGED <<file, h, gone>>
seekend_k(t) ==
    /\ call[t].fn = "end" /\ Sets(Len(file) + call[t].off) /\ Goes(t, Idle)
    /\ UNCHANGED <<file, h, gone>>

(* Chan:close, and the handle forgotten once the clunk is over. *)
l_close(t) ==
    /\ Ready(t) /\ h # "nil"
    /\ h' = "closing" /\ Goes(t, [fn |-> "clunk"]) /\ UNCHANGED <<file, pos, told, gone>>
close_k(t) ==
    /\ call[t].fn = "clunk" /\ h' = "nil" /\ Goes(t, Idle) /\ UNCHANGED <<file, pos, told, gone>>
----------------------------------------------------------------------------
(* Walking: names become elements, "." and empty ones dropped, and the     *)
(* backend takes them all at once or one after another.                    *)
push_elements(names) == SelectSeq(names, LAMBDA x : x \notin {".", ""})
Child(n, x) == IF n \in gone \/ n \notin DOMAIN Tree \/ x \notin DOMAIN Tree[n] THEN "none"
               ELSE Tree[n][x]
Step(n, x) == IF n = "none" THEN "none" ELSE Child(n, x)
walkmany(n, es) == FoldLeft(Step, n, es)

l_walk(t, names, many) ==
    /\ Ready(t)
    /\ Goes(t, [fn |-> "walk", names |-> names, es |-> push_elements(names), at |-> "root",
                many |-> many])
    /\ UNCHANGED <<file, pos, h, told, gone>>

Found(n, to) == to

WalksTo(t, c, to, rest) ==
    IF Found(c.at, to) = "none" THEN Goes(t, Idle)
    ELSE IF rest # <<>> THEN Goes(t, [c EXCEPT !.at = Found(c.at, to), !.es = rest])
    ELSE Goes(t, [fn |-> "returned", path |-> c.names, at |-> Found(c.at, to)])
walk_loop(t) ==
    LET c == call[t] IN
    /\ c.fn = "walk"
    /\ IF c.es = <<>> THEN WalksTo(t, c, c.at, <<>>)
       ELSE IF c.many THEN WalksTo(t, c, walkmany(c.at, c.es), <<>>)
       ELSE WalksTo(t, c, Step(c.at, Head(c.es)), Tail(c.es))
    /\ UNCHANGED <<file, pos, h, told, gone>>

Removes(n) == gone = {} /\ gone' = {n} /\ UNCHANGED <<file, pos, h, call, told>>

DevIO == \E t \in Threads :
    \/ \E n \in Counts : l_read(t, n) \/ l_write(t, n)
    \/ \E w \in {"set", "cur", "end"}, off \in Seeks : l_seek(t, w, off)
    \/ read_loop(t) \/ write_loop(t) \/ seekend_k(t) \/ Raises(t) \/ l_close(t) \/ close_k(t)
DevWalk ==
    \/ \E t \in Threads : walk_loop(t) \/ Raises(t)
                          \/ \E names \in Walks, many \in BOOLEAN : l_walk(t, names, many)
    \/ \E n \in DOMAIN Tree : Removes(n)

DevSpec == DevInit /\ [][DevIO \/ DevWalk]_dev_vars
----------------------------------------------------------------------------
(* A read that returned has the bytes from where it began, all it asked    *)
(* for or all there were, and every byte a write put into the file is      *)
(* where it was meant to be; no piece of either crosses an iounit (dev.c:   *)
(* "so a backend never sees a read straddling two of its messages").       *)
Aligned(c) == (c.off + c.got) \div IoUnit
              = (c.off + c.got + Max({1, Want(c.off, c.got, c.n)}) - 1) \div IoUnit
SliceExact ==
    /\ \A i \in DOMAIN file : file[i] \in {i, Hole}
    /\ \A t \in Threads :
          /\ call[t].fn \in {"read", "write"} => Aligned(call[t])
          /\ (call[t].fn = "returned" /\ "data" \in DOMAIN call[t]) =>
                /\ call[t].got = Max({0, Min({call[t].n, call[t].size - call[t].off})})
                /\ \A k \in DOMAIN call[t].data : call[t].data[k] \in {call[t].off + k, Hole}

(* The position is what the calls since the last seek moved it by, however *)
(* they overlapped (chan.c: "the position moves in the continuation").     *)
PosAdds == pos = told

(* A name that was walked is the place walked to (chan.c: the name is "the  *)
(* absolute rooted path it was reached by").                               *)
NameIsPlace == \A t \in Threads :
    (call[t].fn = "returned" /\ "path" \in DOMAIN call[t]) =>
        LET Go(n, x) == IF x = "." THEN n ELSE IF n \in DOMAIN Tree /\ x \in DOMAIN Tree[n] THEN Tree[n][x] ELSE "none"
        IN  call[t].at = FoldLeft(Go, "root", call[t].path)

(* What the calls of several threads on one Chan did is what each would     *)
(* say: the bytes, the position and the place (dev.c read_loop and          *)
(* walk_loop, chan.c read_k).                                              *)
ChanExact == SliceExact /\ PosAdds /\ NameIsPlace
============================================================================
