----------------------------- MODULE MCStorage -----------------------------
(* Memory and files: the heap over its arena, the buffers of two procs, a   *)
(* Chan over a backend whose calls park, the hosted platform's directory,   *)
(* and the 9P codec.  Each behaviour is one of them.                        *)
EXTENDS Heap, Buf, Dev, HostFs, Ninep
VARIABLE part

TwoRegions == <<[at |-> 20, size |-> 9], [at |-> 1, size |-> 12]>>
TwoClasses == <<2, 3>>

(* A directory and a name that leads back up. *)
Nodes == [root |-> [a |-> "a", file |-> "file"], a |-> ("b" :> "b") @@ (".." :> "root")]
Names == {<<"a", ".", "b">>, <<"a", "x", "b">>, <<".">>, <<"a", "..", "file">>}

(* Served directories with and without a config of their own. *)
Own      == (<<"root">> :> "dir") @@ (<<"root", "config">> :> "dir") @@ (<<"root", "f">> :> "file")
Volume   == <<"conf">> :> "dir"
Hosts    == {Own, Own @@ Volume, (<<"root">> :> "dir") @@ Volume @@ (<<"conf", "f">> :> "file")}
Guest    == {<<>>, <<"f">>, <<"config">>, <<"config", "f">>, <<"d">>, <<"..">>}
Embedded == {<<"f">>}

(* Messages of every type with the numbers at the edges of their bytes. *)
Q(t, v, p) == [type |-> t, vers |-> v, path |-> p]
Stat1 == [qid |-> Q(128, 0, 300), mode |-> 511, atime |-> 0, mtime |-> 2147483647, length |-> 65536,
          name |-> <<>>, uid |-> <<7>>, gid |-> <<7, 255>>, muid |-> <<0>>]
Texts == {<<>>, <<65, 0>>}
Nums == {0, 256, 2147483647}
WireMessages ==
    [type : {"Tversion", "Rversion"}, tag : {65535}, msize : {8192}, version : Texts]
    \cup [type : {"Tauth"}, tag : {1}, afid : Nums, uname : Texts, aname : Texts]
    \cup [type : {"Tattach"}, tag : {1}, fid : {1}, afid : Nums, uname : Texts, aname : Texts]
    \cup [type : {"Tflush"}, tag : {1}, oldtag : {0, 65535}]
    \cup [type : {"Twalk"}, tag : {1}, fid : {1}, newfid : {2}, wname : {<<>>, << <<>> >>, << <<1>>, <<2, 3>> >>}]
    \cup [type : {"Topen"}, tag : {1}, fid : Nums, mode : {0, 255}]
    \cup [type : {"Tcreate"}, tag : {1}, fid : {1}, name : Texts, perm : Nums, mode : {1}]
    \cup [type : {"Tread"}, tag : {1}, fid : {1}, offset : Nums, count : Nums]
    \cup [type : {"Twrite"}, tag : {1}, fid : {1}, offset : Nums, data : Texts]
    \cup [type : {"Tclunk", "Tremove", "Tstat"}, tag : {258}, fid : Nums]
    \cup [type : {"Twstat"}, tag : {1}, fid : {3}, statbytes : {Stat1}]
    \cup [type : {"Rattach"}, tag : {1}, qid : {Q(0, 256, 65536)}]
    \cup [type : {"Rerror"}, tag : {1}, ename : Texts]
    \cup [type : {"Rwalk"}, tag : {1}, wqid : {<<>>, <<Q(1, 2, 3)>>, <<Q(1, 2, 3), Q(128, 0, 9)>>}]
    \cup [type : {"Ropen", "Rcreate"}, tag : {1}, qid : {Q(0, 1, 2)}, iounit : Nums]
    \cup [type : {"Rread"}, tag : {1}, data : Texts]
    \cup [type : {"Rwrite"}, tag : {1}, count : Nums]
    \cup [type : {"Rclunk", "Rremove", "Rflush", "Rwstat"}, tag : {1}]
    \cup [type : {"other"}, tag : {1}, unknown : {TRUE}]
    \cup [type : {"Rstat"}, tag : {1}, statbytes : {Stat1}]

Init ==
    /\ part \in {"heap", "buffers", "io", "walk", "host", "ninep"}
    /\ HeapInit /\ BufInit /\ DevInit /\ FsInit /\ NpInit
    /\ part # "ninep" => msg = [type |-> "Rclunk", tag |-> 1]
    /\ part # "host" => host = Own /\ root = "host" /\ ~rw
Next == UNCHANGED part /\
    \/ part = "heap" /\ HeapNext /\ UNCHANGED <<buf_vars, dev_vars, fs_vars, np_vars>>
    \/ part = "buffers" /\ BufNext /\ UNCHANGED <<heap_vars, dev_vars, fs_vars, np_vars>>
    \/ part = "io" /\ DevIO /\ UNCHANGED <<heap_vars, buf_vars, fs_vars, np_vars>>
    \/ part = "walk" /\ DevWalk /\ UNCHANGED <<heap_vars, buf_vars, fs_vars, np_vars>>
    \/ part = "host" /\ FsNext /\ UNCHANGED <<heap_vars, buf_vars, dev_vars, np_vars>>
    \/ part = "ninep" /\ NpNext /\ UNCHANGED <<heap_vars, buf_vars, dev_vars, fs_vars>>
Spec == Init /\ [][Next]_<<part, heap_vars, buf_vars, dev_vars, fs_vars, np_vars>>
============================================================================
