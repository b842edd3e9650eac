------------------------------ MODULE MCPorts ------------------------------
(* Instances of Ports, and the measure by which a wide region ends. *)
EXTENDS Ports, SequencesExt, TLC

CONSTANTS a, b

Recv(p) == [port |-> p, recv |-> TRUE]
Send(p) == [port |-> p, recv |-> FALSE]
None    == [h \in Handle |-> NoRight]

(* Two procs with their self ports; b can also send to a. *)
Parent  == (a :> [None EXCEPT ![0] = Recv(0)]) @@ (b :> [None EXCEPT ![0] = Recv(1), ![1] = Send(0)])

Does(x, y, k) == (a :> x) @@ (b :> y) @@ (Kernel :> k)

(* Rights travel: made, sent, received, closed, and lost with their holder. *)
MoveOps == {"sendright", "close", "tryrecv", "exit"}
Movers  == Does(MoveOps \cup {"newport"}, MoveOps \cup {"send"}, {})

(* A server and a client that park and wake each other, and end. *)
Waiters == Does({"block", "alt", "send", "close", "exit"}, {"call", "sendblock", "exit"}, {})

(* The same while lua runs out of memory. *)
Raisers == Does({"block", "alt", "close", "raise"}, {"call", "send", "raise"}, {})

(* Timers beside messages. *)
Sleepers == Does({"timer", "block", "tryrecv", "send", "close", "exit"},
                 {"timer", "sendright", "close", "exit"}, {"expire"})

Scenes == {Movers, Waiters, Raisers, Sleepers}

Messages == Permutations(MsgId)
----------------------------------------------------------------------------
(* What a region has still to do, most significant first: timers to arm,   *)
(* references it can drop, and the length of its tasks.                    *)
Arming == FoldSeq(LAMBDA t, n : IF t.op = "arm" THEN n + 3 - t.try ELSE n, 0, stack)
AllRefs == FoldSet(LAMBDA p, n : n + Holders(p), 0, Port)
Work == FoldSeq(LAMBDA t, n : n + 1 + (IF t.op = "flush" THEN 2 * Len(t.msgs) ELSE 0), 0, stack)

(* Every region ends, although dropping a reference flushes queues that    *)
(* hold references that flush others, with every bucket of the machine     *)
(* held meanwhile: each task leaves less to do, and so does the region     *)
(* whatever the procs that need no lock add to it.                         *)
RegionShrinks ==
    [][(wide # NoProc /\ pc[wide] = "region" /\ stack # stack') =>
          \/ Arming' < Arming
          \/ Arming' = Arming /\ AllRefs' < AllRefs
          \/ Arming' = Arming /\ AllRefs' = AllRefs /\ Work' < Work]_vars
============================================================================
