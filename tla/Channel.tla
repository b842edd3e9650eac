------------------------------ MODULE Channel ------------------------------
(***************************************************************************)
(* What the channels of los.thread promise, whatever their size: values   *)
(* come out once, in the order they went in; a close refuses later         *)
(* values, and of those in the channel it takes back only values whose     *)
(* sender still waits.                                                     *)
(***************************************************************************)
EXTENDS Sequences, Naturals

CONSTANTS Chan, Value

VARIABLES q,       \* each channel's values sent and not received, and whether the send still waits
          closed,  \* close was called
          last     \* the value received last

Init ==
    /\ q = [c \in Chan |-> <<>>]
    /\ closed = [c \in Chan |-> FALSE]
    /\ last = [c \in Chan |-> <<>>]

Put(c, v, waits) ==
    /\ ~closed[c]
    /\ q' = [q EXCEPT ![c] = Append(@, [v |-> v, waits |-> waits])]
    /\ UNCHANGED <<closed, last>>

(* The oldest value leaves.  A send that waited for room may return. *)
Released(rest) ==
    {rest} \cup {[rest EXCEPT ![i].waits = FALSE] : i \in DOMAIN rest}

Take(c) ==
    /\ q[c] # <<>>
    /\ last' = [last EXCEPT ![c] = <<Head(q[c]).v>>]
    /\ \E rest \in Released(Tail(q[c])) : q' = [q EXCEPT ![c] = rest]
    /\ UNCHANGED closed

Returned(e) == ~e.waits

Close(c) ==
    /\ ~closed[c]
    /\ closed' = [closed EXCEPT ![c] = TRUE]
    /\ q' = [q EXCEPT ![c] = SelectSeq(@, Returned)]
    /\ UNCHANGED last

Next == \E c \in Chan :
    Take(c) \/ Close(c) \/ \E v \in Value, waits \in BOOLEAN : Put(c, v, waits)

Spec == Init /\ [][Next]_<<q, closed, last>>
============================================================================
