-------------------------------- MODULE KLog --------------------------------
(***************************************************************************)
(* The kernel's transcript (kernel.c): a ring of bytes that starts small   *)
(* and is moved once there is an allocator, written by lines from any cpu  *)
(* and read by sys.dmesg with a cursor that counts bytes ever written.     *)
(* Each operation holds loglock from its first look at the ring to its     *)
(* last, so it is one step.  Byte number b is the b-th ever written.       *)
(***************************************************************************)
EXTENDS Integers, Sequences, SequencesExt

CONSTANTS LOGEARLY, LOGRING,  \* the ring's size at first and after
          LOGCHUNK,           \* bytes one sys.dmesg copies
          Lines,              \* lengths of a line
          EarlyMax,           \* bytes logged before the ring is moved
          LogMax              \* bytes logged in all

ASSUME LogAssumption ==
    /\ {LOGEARLY, LOGRING, LOGCHUNK} \subseteq Nat \ {0} /\ LOGEARLY <= LOGRING
    /\ Lines \subseteq Nat /\ EarlyMax \in Nat /\ LogMax \in Nat

VARIABLES logring, logsize,   \* the ring: position to byte
          logseq, loglost,    \* bytes ever written, and bytes written over
          moved,              \* loginit has run
          reader              \* a reader: its cursor, its last answer, and all it was told since it began at base

log_vars == <<logring, logsize, logseq, loglost, moved, reader>>

Unset == 0

LogInit ==
    /\ logring = [i \in 0 .. LOGEARLY - 1 |-> Unset] /\ logsize = LOGEARLY
    /\ logseq = 0 /\ loglost = 0 /\ moved = FALSE
    /\ reader = [from |-> -1, got |-> <<>>, start |-> 0, base |-> 0, told |-> 0]

Oldest(seq, size) == IF seq > size THEN seq - size ELSE 0
logoldest == Oldest(logseq, logsize)

(* The n bytes that end at byte number seq, put at positions from w on. *)
Written(ring, size, seq, n) ==
    [i \in DOMAIN ring |->
        LET k == (i - (seq % size)) % size IN IF k < n THEN seq + k + 1 ELSE ring[i]]

logput(n) ==
    /\ n > 0 /\ n <= logsize
    /\ logseq + n <= IF moved THEN LogMax ELSE EarlyMax
    /\ logring' = Written(logring, logsize, logseq, n)
    /\ logseq' = logseq + n
    /\ loglost' = loglost + Oldest(logseq + n, logsize) - logoldest
    /\ UNCHANGED <<logsize, moved, reader>>

(* Byte by byte: a byte's position is modulo the size. *)
Moved(ring, size, seq) ==
    [i \in 0 .. LOGRING - 1 |->
        LET at == {b \in Oldest(seq, size) .. seq - 1 : b % LOGRING = i}
        IN  IF at = {} THEN Unset ELSE ring[(CHOOSE b \in at : TRUE) % size]]

loginit ==
    /\ ~moved /\ moved' = TRUE
    /\ \/ /\ logring' = Moved(logring, logsize, logseq)
          /\ logsize' = LOGRING
       \/ UNCHANGED <<logring, logsize>>
    /\ UNCHANGED <<logseq, loglost, reader>>

Least(a, b) == IF a < b THEN a ELSE b

(* A reader that fell behind starts at the oldest and is told what it lost. *)
Lost(from, oldest) == IF from < oldest /\ from >= 0 THEN oldest - from ELSE 0

kernel_dmesg(max) ==
    \E start \in {IF reader.from < logoldest THEN logoldest ELSE Least(reader.from, logseq)} :
    \E n \in {Least(logseq - start, Least(max, LOGCHUNK))} :
        /\ reader' = [from |-> start + n, start |-> start,
                      got |-> [k \in 1 .. n |-> logring[(start + k - 1) % logsize]],
                      base |-> IF reader.from < 0 THEN start ELSE reader.base,
                      told |-> reader.told + n + Lost(reader.from, logoldest)]
        /\ reader' # reader
        /\ UNCHANGED <<logring, logsize, logseq, loglost, moved>>

LogNext == (\E n \in Lines : logput(n)) \/ loginit \/ \E max \in {1, LOGCHUNK} : kernel_dmesg(max)

-----------------------------------------------------------------------------
(* Properties. *)

(* What sys.dmesg answers is what was logged there, wherever the ring has
   wrapped and whenever it was moved; what it does not answer it says it
   dropped, so answers and drops together leave no byte out. *)
TranscriptExact ==
    /\ \A k \in DOMAIN reader.got : reader.got[k] = reader.start + k
    /\ loglost = logoldest
    /\ reader.from >= 0 => reader.from = reader.base + reader.told
=============================================================================
