------------------------------- MODULE HostFs ------------------------------
(***************************************************************************)
(* los.fs over a host directory: dirs.c above, the hosted platform's fs.c  *)
(* below.  A guest path is a sequence of names; a host path begins with    *)
(* the directory it is joined onto.  The tree built into the binary is     *)
(* served instead when no directory is ("embedded").                       *)
(***************************************************************************)
EXTENDS Naturals, Sequences, SequencesExt, FiniteSets

CONSTANTS Paths,        \* the guest paths used
          Built,        \* the paths of the files in the binary
          Roots         \* what the served directory may hold: host paths to "file" or "dir"

VARIABLES root, rw, conf,   \* fs_init and fs_config: "host" or "embedded", -w, a config volume
          host,             \* what exists on the host
          open,             \* handles of fs.c that are open
          objs,             \* los.fs.file objects: their handle, or closed
          listed            \* what the last los.fs.readdir returned

fs_vars == <<root, rw, conf, host, open, objs, listed>>

Closed == [kind |-> "closed"]
None == [kind |-> "none"]
MaxObjs == 2     \* bound: file objects not yet collected

FsInit ==
    /\ root \in {"host", "embedded"} /\ rw \in BOOLEAN /\ conf \in BOOLEAN
    /\ host \in {r \in Roots : (<<"conf">> \in DOMAIN r) = conf}
    /\ open = <<>> /\ objs = <<>> /\ listed = [path |-> <<"none">>, names |-> <<>>]
----------------------------------------------------------------------------
fs_embedded == root = "embedded"
has_parent_step(p) == ".." \in ToSet(p)
in_config(p) == conf /\ p # <<>> /\ p[1] = "config"
fs_writable(p) == in_config(p) \/ rw
find_embed(p) == p \in Built

(* The base is the empty string when nothing is served. *)
rootdir == IF fs_embedded THEN "" ELSE "root"
fs_hostpath(p) == IF in_config(p) THEN <<"conf">> \o Tail(p) ELSE <<rootdir>> \o p
CanPath(p) == ~has_parent_step(p)

Exists(q, kind) == q \in DOMAIN host /\ host[q] = kind
CanMake(q) == Len(q) > 1 /\ (Exists(Front(q), "dir") \/ Front(q) = <<"">>)
WithMade(q, kind) == [x \in DOMAIN host \cup {q} |-> IF x = q THEN kind ELSE host[x]]

(* fs_open: the handle and the host after it. *)
Opened(p, write) ==
    LET q == fs_hostpath(p) IN
    IF write /\ ~fs_writable(p) THEN None
    ELSE IF fs_embedded /\ ~in_config(p)
    THEN IF find_embed(p) /\ ~write THEN [kind |-> "built", path |-> p] ELSE None
    ELSE IF ~CanPath(p) THEN None
    ELSE IF ~write /\ Exists(q, "dir")
    THEN [kind |-> "dir", path |-> q, isroot |-> q = <<rootdir>>]
    ELSE IF Exists(q, "file") \/ (write /\ ~Exists(q, "dir") /\ CanMake(q))
    THEN [kind |-> "file", path |-> q] ELSE None

Creates(f, write) == host' = IF write /\ f.kind = "file" THEN WithMade(f.path, "file") ELSE host

(* fs_readdir until it is over: the config volume first, the host's own    *)
(* directory of that name not.  Mutant: both.                              *)
HidesNone(f, x) == FALSE
Hides(f, x) == f.isroot /\ conf /\ x = "config"

Entries(f) == {q \in DOMAIN host : Len(q) = Len(f.path) + 1 /\ Front(q) = f.path}
fs_readdir(f) ==
    (IF f.isroot /\ conf THEN <<"config">> ELSE <<>>)
    \o SelectSeq(SetToSeq({Last(q) : q \in Entries(f)}), LAMBDA x : ~Hides(f, x))
fs_stat(f) == IF f.kind = "built" THEN "file" ELSE IF f.path \in DOMAIN host THEN host[f.path] ELSE "none"
----------------------------------------------------------------------------
(* los.fs.readdir: a handle opened, asked what it is, listed and closed. *)
l_fs_readdir(p) ==
    LET f == Opened(p, FALSE) IN
    /\ listed' = IF f # None /\ fs_stat(f) = "dir" THEN [path |-> p, names |-> fs_readdir(f)]
                 ELSE [path |-> <<"none">>, names |-> <<>>]
    /\ UNCHANGED <<root, rw, conf, host, open, objs>>

(* los.fs.stat opens and closes, and changes nothing. *)
l_fs_stat(p) == UNCHANGED fs_vars

May(disk) == disk      \* kernel_current_has_disk

l_fs_mkdir(p, disk) ==
    /\ May(disk) /\ fs_writable(p) /\ CanPath(p)
    /\ host' = IF CanMake(fs_hostpath(p)) /\ fs_hostpath(p) \notin DOMAIN host
               THEN WithMade(fs_hostpath(p), "dir") ELSE host
    /\ listed' = [path |-> <<"none">>, names |-> <<>>]
    /\ UNCHANGED <<root, rw, conf, open, objs>>

l_fs_open(p, write, disk) ==
    LET f == Opened(p, write) IN
    /\ Len(objs) < MaxObjs
    /\ write => May(disk)
    /\ f # None /\ Creates(f, write)
    /\ open' = Append(open, f) /\ objs' = Append(objs, f)
    /\ listed' = [path |-> <<"none">>, names |-> <<>>]
    /\ UNCHANGED <<root, rw, conf>>

(* close, which __gc and __close also are: a second one finds no handle.   *)
Forgets(f) == Closed
l_file_close(i) ==
    /\ i \in DOMAIN objs /\ objs[i] # Closed
    /\ open' = RemoveFirst(open, objs[i])
    /\ objs' = [objs EXCEPT ![i] = Forgets(@)]
    /\ UNCHANGED <<root, rw, conf, host, listed>>
Collected(i) ==
    /\ i \in DOMAIN objs
    /\ open' = IF objs[i] = Closed THEN open ELSE RemoveFirst(open, objs[i])
    /\ objs' = RemoveAt(objs, i)
    /\ UNCHANGED <<root, rw, conf, host, listed>>

(* luaL_loadfile's and io.open's fopen. *)
open_rooted(p, mode, disk) ==
    LET q == fs_hostpath(p) IN
    /\ mode = "w" => fs_writable(p) /\ May(disk)
    /\ \/ fs_embedded /\ find_embed(p) /\ mode = "r" /\ host' = host
       \/ /\ ~fs_embedded /\ CanPath(p)
          /\ host' = IF mode = "w" /\ ~Exists(q, "dir") /\ CanMake(q) THEN WithMade(q, "file") ELSE host
    /\ listed' = [path |-> <<"none">>, names |-> <<>>]
    /\ UNCHANGED <<root, rw, conf, open, objs>>

FsNext ==
    \/ \E p \in Paths, disk \in BOOLEAN :
          \/ l_fs_readdir(p) \/ l_fs_stat(p) \/ l_fs_mkdir(p, disk)
          \/ \E write \in BOOLEAN : l_fs_open(p, write, disk)
          \/ \E mode \in {"r", "w"} : open_rooted(p, mode, disk)
    \/ \E i \in 1 .. MaxObjs : l_file_close(i) \/ Collected(i)

FsSpec == FsInit /\ [][FsNext]_fs_vars
----------------------------------------------------------------------------
(* A name in a listing opens, a name that opens is in the listing, and none *)
(* is there twice (fs.c: "a directory a guest can open but not see is      *)
(* worse than one it cannot open").                                        *)
SeenIsOpened ==
    listed.path # <<"none">> =>
        /\ IsInjective(listed.names)
        /\ \A x \in {Last(p) : p \in {q \in Paths : q # <<>>}} \cup ToSet(listed.names) :
              x \in ToSet(listed.names) <=> Opened(Append(listed.path, x), FALSE) # None

(* Every handle fs.c has open belongs to one file object (dirs.c: "__gc     *)
(* closes an abandoned one").                                              *)
HandlesOwned ==
    /\ Len(open) = Len(SelectSeq(objs, LAMBDA f : f # Closed))
    /\ \A i \in DOMAIN objs : objs[i] # Closed => objs[i] \in ToSet(open)

(* A guest sees what it can open and holds what is open (hosted/fs.c        *)
(* fs_readdir, dirs.c l_fs_open), whichever directories are served.         *)
DirectoryExact == SeenIsOpened /\ HandlesOwned
============================================================================
