------------------------------ MODULE MCFlows ------------------------------
(* What has to come in the end: frames from the card to the task that owns  *)
(* it, answers from the host's sockets, and memory from procs that hold and *)
(* do not use it.  Each behaviour is one of one of the three.              *)
EXTENDS VirtioNet, HostNet, Reclaim

VARIABLE part
all_vars == <<part, net_vars, host_vars, reclaim_vars>>

Traffic == {[frames |-> 3, sends |-> 1], [frames |-> 1, sends |-> 3]}
Together == {{"listen", "accept", "recv"}, {"dial", "send", "reset"}, {"dial", "recv", "close"},
             {"dial", "recv", "open", "urecv"}, {"open", "urecv", "cancel"}, {"open", "usend"}}

(* What a part that is not the one in question is held at. *)
StillNet ==
    /\ NetInit
    /\ wire.load = CHOOSE l \in Loads : TRUE
    /\ card.max = (CHOOSE m \in CardMax : TRUE) /\ card.transport = "mmio"

StillHost == HostInit /\ menu = CHOOSE m \in Menus : TRUE

Init ==
    /\ part \in {"card", "host", "reclaim"}
    /\ IF part = "card" THEN NetInit ELSE StillNet
    /\ IF part = "host" THEN HostInit ELSE StillHost
    /\ ReclaimInit

Next ==
    /\ UNCHANGED part
    /\ \/ part = "card" /\ NetNext /\ UNCHANGED <<host_vars, reclaim_vars>>
       \/ part = "host" /\ HostNetNext /\ UNCHANGED <<net_vars, reclaim_vars>>
       \/ part = "reclaim" /\ ReclaimNext /\ UNCHANGED <<net_vars, host_vars>>

(* Every cpu keeps running; where memory is not in question none of its steps
   is owed. *)
ReclaimFair == \A c \in Cores : WF_reclaim_vars(part = "reclaim" /\ GoesOn(c))

Spec == Init /\ [][Next]_all_vars /\ NetFair /\ HostNetFair /\ ReclaimFair

(* The return of memory alone. *)
ReclaimSpec == Init /\ part = "reclaim" /\ [][Next]_all_vars
============================================================================
