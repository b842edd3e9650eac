------------------------------- MODULE Ninep -------------------------------
(***************************************************************************)
(* los.ninep: the 9P2000 field codec.  A message is encoded, carried by a  *)
(* transport that may end in the middle of it, and decoded.                *)
(***************************************************************************)
EXTENDS Naturals, Sequences, SequencesExt, FiniteSets, TLC

CONSTANTS Messages    \* what the two sides send: [type, tag, and its fields]

VARIABLES msg, wire, got, stat

np_vars == <<msg, wire, got, stat>>

HDRLEN == 7
Nil == [nil |-> TRUE]
----------------------------------------------------------------------------
(* The fields of every message, in order, and how each is read. *)
TLayout ==
    [Tversion |-> << <<"msize", "u4">>, <<"version", "s">> >>,
     Tauth    |-> << <<"afid", "u4">>, <<"uname", "s">>, <<"aname", "s">> >>,
     Tattach  |-> << <<"fid", "u4">>, <<"afid", "u4">>, <<"uname", "s">>, <<"aname", "s">> >>,
     Tflush   |-> << <<"oldtag", "u2">> >>,
     Twalk    |-> << <<"fid", "u4">>, <<"newfid", "u4">>, <<"wname", "names">> >>,
     Topen    |-> << <<"fid", "u4">>, <<"mode", "u1">> >>,
     Tcreate  |-> << <<"fid", "u4">>, <<"name", "s">>, <<"perm", "u4">>, <<"mode", "u1">> >>,
     Tread    |-> << <<"fid", "u4">>, <<"offset", "u8">>, <<"count", "u4">> >>,
     Twrite   |-> << <<"fid", "u4">>, <<"offset", "u8">>, <<"data", "data">> >>,
     Tclunk   |-> << <<"fid", "u4">> >>,
     Tremove  |-> << <<"fid", "u4">> >>,
     Tstat    |-> << <<"fid", "u4">> >>,
     Twstat   |-> << <<"fid", "u4">>, <<"statbytes", "stat">> >>]

RLayout ==
    [Rversion |-> << <<"msize", "u4">>, <<"version", "s">> >>,
     Rattach  |-> << <<"qid", "qid">> >>,
     Rerror   |-> << <<"ename", "s">> >>,
     Rflush   |-> <<>>,
     Rwalk    |-> << <<"wqid", "qids">> >>,
     Ropen    |-> << <<"qid", "qid">>, <<"iounit", "u4">> >>,
     Rcreate  |-> << <<"qid", "qid">>, <<"iounit", "u4">> >>,
     Rread    |-> << <<"data", "data">> >>,
     Rwrite   |-> << <<"count", "u4">> >>,
     Rclunk   |-> <<>>,
     Rremove  |-> <<>>,
     Rstat    |-> << <<"statbytes", "stat">> >>,
     Rwstat   |-> <<>>]

Layout == TLayout @@ RLayout @@ [other |-> <<>>]    \* a type np_decode does not know

(* The numbers of the types. *)
Code ==
    [Tversion |-> 100, Rversion |-> 101, Tauth |-> 102, Tattach |-> 104, Rattach |-> 105,
     Rerror |-> 107, Tflush |-> 108, Rflush |-> 109, Twalk |-> 110, Rwalk |-> 111,
     Topen |-> 112, Ropen |-> 113, Tcreate |-> 114, Rcreate |-> 115, Tread |-> 116,
     Rread |-> 117, Twrite |-> 118, Rwrite |-> 119, Tclunk |-> 120, Rclunk |-> 121,
     Tremove |-> 122, Rremove |-> 123, Tstat |-> 124, Rstat |-> 125, Twstat |-> 126,
     Rwstat |-> 127, other |-> 99]
----------------------------------------------------------------------------
(* Writing: little-endian integers, counted strings. *)
wrint[v \in Nat, n \in Nat] == IF n = 0 THEN <<>> ELSE <<v % 256>> \o wrint[v \div 256, n - 1]
wrstr(s) == wrint[Len(s), 2] \o s
wrqid(q) == wrint[q.type, 1] \o wrint[q.vers, 4] \o wrint[q.path, 8]
Concat(ss) == FlattenSeq(ss)

(* np_packstat: the record behind its own size, with the kernel's two      *)
(* fields zero.                                                            *)
fieldlen(s) == Len(s) + 2
StatSize(st) == 2 + 4 + 13 + 4 + 4 + 4 + 8
    + fieldlen(st.name) + fieldlen(st.uid) + fieldlen(st.gid) + fieldlen(st.muid)
packstat(st) ==
    wrint[StatSize(st), 2] \o wrint[0, 2] \o wrint[0, 4] \o wrqid(st.qid)
    \o wrint[st.mode, 4] \o wrint[st.atime, 4] \o wrint[st.mtime, 4] \o wrint[st.length, 8]
    \o wrstr(st.name) \o wrstr(st.uid) \o wrstr(st.gid) \o wrstr(st.muid)

(* The messages built in C are sized first and written after. *)
Body(m) ==
    CASE m.type = "Rread"  -> [size |-> 4 + Len(m.data), b |-> wrint[Len(m.data), 4] \o m.data]
      [] m.type = "Twrite" -> [size |-> 16 + Len(m.data),
                               b |-> wrint[m.fid, 4] \o wrint[m.offset, 8]
                                     \o wrint[Len(m.data), 4] \o m.data]
      [] m.type = "Tread"  -> [size |-> 16,
                               b |-> wrint[m.fid, 4] \o wrint[m.offset, 8] \o wrint[m.count, 4]]
      [] m.type = "Twalk"  -> [size |-> FoldSeq(LAMBDA s, n : n + fieldlen(s), 10, m.wname),
                               b |-> wrint[m.fid, 4] \o wrint[m.newfid, 4] \o wrint[Len(m.wname), 2]
                                     \o Concat([i \in DOMAIN m.wname |-> wrstr(m.wname[i])])]

Framed(type, tag, size, body) ==
    wrint[HDRLEN + size, 4] \o wrint[Code[type], 1] \o wrint[tag, 2] \o body
InC == {"Rread", "Twrite", "Tread", "Twalk"}

(* Every other message comes from lib/ninep.lua's frame. *)
Put(kind, v) ==
    CASE kind = "u1" -> wrint[v, 1] [] kind = "u2" -> wrint[v, 2]
      [] kind = "u4" -> wrint[v, 4] [] kind = "u8" -> wrint[v, 8]
      [] kind = "s"  -> wrstr(v) [] kind = "qid" -> wrqid(v)
      [] kind = "qids" -> wrint[Len(v), 2] \o Concat([i \in DOMAIN v |-> wrqid(v[i])])
      [] kind = "stat" -> wrint[Len(packstat(v)), 2] \o packstat(v)
Pieces(m) == [i \in DOMAIN Layout[m.type] |->
                 Put(Layout[m.type][i][2], m[Layout[m.type][i][1]])]
frame(m) == Framed(m.type, m.tag, Len(Concat(Pieces(m))), Concat(Pieces(m)))

Encoded(m) == IF m.type \in InC THEN Framed(m.type, m.tag, Body(m).size, Body(m).b) ELSE frame(m)
----------------------------------------------------------------------------
(* Reading: r is how far the bytes are read, and whether they ran out. *)
From(off) == [off |-> off, bad |-> FALSE, v |-> 0]
Value(b) == FoldRight(LAMBDA x, v : x + 256 * v, b, 0)

Short(b, r, n) == r.bad \/ r.off + n > Len(b)

Bad(r) == [r EXCEPT !.bad = TRUE, !.v = 0]
Bytes(b, r, n) ==
    IF Short(b, r, n) THEN Bad(r)
    ELSE [off |-> r.off + n, bad |-> FALSE, v |-> SubSeq(b, r.off + 1, r.off + n)]
Valued(r) == IF r.bad THEN r ELSE [r EXCEPT !.v = Value(@)]
rdint(b, r, n) == Valued(Bytes(b, r, n))

(* Counted bytes.  Mutant: what is there of them will do. *)
CountedClamps(b, r) ==
    IF r.bad THEN r
    ELSE [off |-> r.off + r.v, bad |-> FALSE,
          v |-> SubSeq(b, r.off + 1, IF r.off + r.v > Len(b) THEN Len(b) ELSE r.off + r.v)]
Counted(b, r) == IF r.v = 0 /\ ~r.bad THEN [r EXCEPT !.v = <<>>] ELSE Bytes(b, r, r.v)
rdstr(b, r) == Counted(b, rdint(b, r, 2))
rddata(b, r) == Counted(b, rdint(b, r, 4))

rdqid(b, r) ==
    LET t == rdint(b, r, 1)
        v == rdint(b, t, 4)
        p == rdint(b, v, 8)
    IN  [p EXCEPT !.v = [type |-> t.v, vers |-> v.v, path |-> p.v]]

(* A list of n things, each read by Rd. *)
Listed(b, r, Rd(_, _)) ==
    FoldSeq(LAMBDA i, x : LET y == Rd(b, x) IN [y EXCEPT !.v = Append(x.v, y.v)],
            [r EXCEPT !.v = <<>>], [i \in 1 .. r.v |-> i])

Read(kind, b, r) ==
    CASE kind = "u1" -> rdint(b, r, 1) [] kind = "u2" -> rdint(b, r, 2)
      [] kind = "u4" -> rdint(b, r, 4) [] kind = "u8" -> rdint(b, r, 8)
      [] kind = "s"  -> rdstr(b, r)    [] kind = "data" -> rddata(b, r)
      [] kind = "qid" -> rdqid(b, r)
      [] kind = "names" -> Listed(b, rdint(b, r, 2), rdstr)
      [] kind = "qids"  -> Listed(b, rdint(b, r, 2), rdqid)
      [] kind = "stat"  -> rdstr(b, rdint(b, r, 2))

(* Fields one after another into a table. *)
Reads(b, off, fields) ==
    FoldLeft(LAMBDA a, f : LET y == Read(f[2], b, a.r) IN [r |-> y, t |-> (f[1] :> y.v) @@ a.t],
             [r |-> From(off), t |-> <<>>], fields)

Typed(c) == CHOOSE t \in DOMAIN Code : Code[t] = c
Answer(a, head) == IF a.r.bad THEN Nil ELSE head @@ a.t
np_decode(b) ==
    IF Short(b, From(0), HDRLEN) THEN Nil
    ELSE LET type == Typed(b[5]) IN
         Answer(Reads(b, HDRLEN, Layout[type]),
                (IF type = "other" THEN [unknown |-> TRUE] ELSE <<>>) @@
                [type |-> type, tag |-> rdint(b, From(5), 2).v, size |-> rdint(b, From(0), 4).v])

StatFields ==
    << <<"qid", "qid">>, <<"mode", "u4">>, <<"atime", "u4">>, <<"mtime", "u4">>, <<"length", "u8">>,
       <<"name", "s">>, <<"uid", "s">>, <<"gid", "s">>, <<"muid", "s">> >>
unpackstat(b) == Answer(Reads(b, 6, StatFields), <<>>)
----------------------------------------------------------------------------
NpInit == msg \in Messages /\ wire = <<>> /\ got = <<>> /\ stat = <<>>

Encode == wire = <<>> /\ got = <<>> /\ wire' = Encoded(msg) /\ UNCHANGED <<msg, got, stat>>

(* The connection ends after k bytes of it. *)
Truncated(k) ==
    /\ got = <<>> /\ k < Len(wire)
    /\ wire' = SubSeq(wire, 1, k) /\ got' = np_decode(SubSeq(wire, 1, k))
    /\ UNCHANGED <<msg, stat>>
Decode == got = <<>> /\ wire # <<>> /\ got' = np_decode(wire) /\ UNCHANGED <<msg, wire, stat>>

(* A stat that came is taken apart, whole or what is left of it. *)
Unpack(k) ==
    /\ "statbytes" \in DOMAIN got /\ stat = <<>> /\ k <= Len(got.statbytes)
    /\ stat' = [cut |-> k < Len(got.statbytes), st |-> unpackstat(SubSeq(got.statbytes, 1, k))]
    /\ UNCHANGED <<msg, wire, got>>

NpNext == Encode \/ Decode \/ (\E k \in 0 .. Len(wire) : Truncated(k))
          \/ \E k \in 0 .. 80 : Unpack(k)
NpSpec == NpInit /\ [][NpNext]_np_vars
----------------------------------------------------------------------------
(* What arrives whole decodes to what was encoded and fills the size it    *)
(* announced; what ran out in the middle decodes to nil, wherever it ended  *)
(* (ninep.c: "A message that runs out mid-field decodes to nil").           *)
Same == \A f \in DOMAIN msg \ {"statbytes"} : got[f] = msg[f]
DecodesWhole ==
    /\ got # <<>> =>
          IF Len(wire) < Len(Encoded(msg)) THEN got = Nil
          ELSE /\ DOMAIN got = DOMAIN msg \cup {"size"}
               /\ got.size = Len(wire) /\ Same
    /\ stat # <<>> => stat.st = IF stat.cut THEN Nil ELSE msg.statbytes
============================================================================
