----------------------------- MODULE FifoLock -----------------------------
(***************************************************************************)
(* What a row of locks promises: whoever asks for one is let in alone, and *)
(* after everybody who asked before it.                                    *)
(***************************************************************************)

CONSTANTS CPU, Locks

VARIABLES line,    \* per lock, the cpus that asked and have not left
          before,  \* the pairs of them of which the first asked first
          inside   \* the cpu let in, if any

Init ==
    /\ line   = [l \in Locks |-> {}]
    /\ before = [l \in Locks |-> {}]
    /\ inside = [l \in Locks |-> {}]

Ask(c, l) ==
    /\ c \notin line[l]
    /\ line' = [line EXCEPT ![l] = @ \cup {c}]
    /\ before' = [before EXCEPT ![l] = @ \cup (line[l] \X {c})]
    /\ UNCHANGED inside

LetIn(c, l) ==
    /\ c \in line[l] /\ inside[l] = {}
    /\ \A d \in line[l] : <<d, c>> \notin before[l]
    /\ inside' = [inside EXCEPT ![l] = {c}]
    /\ UNCHANGED <<line, before>>

LetOut(c, l) ==
    /\ inside[l] = {c}
    /\ inside' = [inside EXCEPT ![l] = {}]
    /\ line' = [line EXCEPT ![l] = @ \ {c}]
    /\ before' = [before EXCEPT ![l] = {p \in @ : p[1] # c /\ p[2] # c}]

Next == \E c \in CPU, l \in Locks : Ask(c, l) \/ LetIn(c, l) \/ LetOut(c, l)

Spec == Init /\ [][Next]_<<line, before, inside>>
============================================================================
