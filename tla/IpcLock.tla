------------------------------ MODULE IpcLock ------------------------------
(***************************************************************************)
(* The locks of the ipc layer: the ticket lock of lock.h, and the array of *)
(* recursive buckets port.c builds on it, with the machine's scheduler     *)
(* lock ordered after them.                                                *)
(*                                                                         *)
(* A region is the set of locks one enter call takes: every bucket for     *)
(* ipclock_enter, the one covering a port for ipclock_enter_port, the      *)
(* scheduler lock for lock(&schedlock).  Every atomic access to a lock     *)
(* word that another cpu can observe is a step of its own.                 *)
(***************************************************************************)
EXTENDS Integers, Sequences, FiniteSets

CONSTANTS CPU,        \* the cpus
          NIPCLOCK,   \* number of ipc buckets, NIPCLOCK in port.c
          TicketMod,  \* tickets are unsigned and wrap here: 2^32 in the code
          MaxNest,    \* bound: how deeply regions nest on one cpu
          NoCpu       \* a bucket nobody owns

ASSUME LockAssumption ==
    /\ IsFiniteSet(CPU)
    /\ NoCpu \notin CPU
    /\ NIPCLOCK \in Nat \ {0}
    /\ TicketMod \in Nat
    /\ Cardinality(CPU) < TicketMod
    /\ MaxNest \in Nat

VARIABLES next,     \* lock.h: the ticket the next arrival takes
          owner,    \* lock.h: the ticket being served
          held,     \* lock.h: what holding() reads
          own,      \* ipcbucket.owner: the cpu inside, or NoCpu
          depth,    \* ipcbucket.depth: how often it entered
          ticket,   \* lock()'s local t, while it spins
          regions,  \* the regions each cpu is inside, oldest first
          todo,     \* locks the enter or leave under way has still to do
          pc        \* where each cpu is

vars == <<next, owner, held, own, depth, ticket, regions, todo, pc>>

Bucket  == 1 .. NIPCLOCK
Sched   == NIPCLOCK + 1
Locks   == Bucket \cup {Sched}
Wide    == Bucket
Regions == {Wide} \cup {{l} : l \in Locks}
Tickets == 0 .. (TicketMod - 1)
PC      == {"run", "enter", "spin", "leave", "unlock"}

(* Unsigned increment, written without % so the provers stay linear. *)
Inc(t) == IF t = TicketMod - 1 THEN 0 ELSE t + 1

(* ipclock_enter takes the buckets ascending, ipclock_leave descending. *)
Lowest(S)  == CHOOSE l \in S : \A k \in S : l <= k
Highest(S) == CHOOSE l \in S : \A k \in S : k <= l

(* The discipline of docs/locking.md that every caller keeps: ipc before   *)
(* sched, a narrow region never widens and names no second port.           *)
MayEnter(c, R) ==
    LET in == {regions[c][i] : i \in DOMAIN regions[c]}
    IN  /\ {Sched} \notin in
        /\ R = {Sched} \/ in = {} \/ Wide \in in \/ in = {R}

Init ==
    /\ next    = [l \in Locks |-> 0]
    /\ owner   = [l \in Locks |-> 0]
    /\ held    = [l \in Locks |-> FALSE]
    /\ own     = [l \in Locks |-> NoCpu]
    /\ depth   = [l \in Locks |-> 0]
    /\ ticket  = [c \in CPU |-> 0]
    /\ regions = [c \in CPU |-> <<>>]
    /\ todo    = [c \in CPU |-> {}]
    /\ pc      = [c \in CPU |-> "run"]

(* A call of ipclock_enter, ipclock_enter_port or lock(&schedlock). *)
Enter(c, R) ==
    /\ pc[c] = "run"
    /\ Len(regions[c]) < MaxNest
    /\ MayEnter(c, R)
    /\ regions' = [regions EXCEPT ![c] = Append(@, R)]
    /\ todo' = [todo EXCEPT ![c] = R]
    /\ pc' = [pc EXCEPT ![c] = "enter"]
    /\ UNCHANGED <<next, owner, held, own, depth, ticket>>

(* One lock of an enter is done; the rest follow in ascending order. *)
Entered(c, l) ==
    /\ todo' = [todo EXCEPT ![c] = @ \ {l}]
    /\ pc' = [pc EXCEPT ![c] = IF todo[c] = {l} THEN "run" ELSE "enter"]

(* Mutant of EnterAgain: any owner will do for the fast path. *)
EnterAgainAnyOwner(c) ==
    LET l == Lowest(todo[c]) IN
    /\ pc[c] = "enter"
    /\ own[l] # NoCpu
    /\ depth' = [depth EXCEPT ![l] = @ + 1]
    /\ Entered(c, l)
    /\ UNCHANGED <<next, owner, held, own, ticket, regions>>

(* ipclock_enter_one's fast path: this cpu owns the bucket already. *)
EnterAgain(c) ==
    LET l == Lowest(todo[c]) IN
    /\ pc[c] = "enter"
    /\ own[l] = c
    /\ depth' = [depth EXCEPT ![l] = @ + 1]
    /\ Entered(c, l)
    /\ UNCHANGED <<next, owner, held, own, ticket, regions>>

(* lock(): the fetch_add that draws a ticket. *)
DrawTicket(c) ==
    LET l == Lowest(todo[c]) IN
    /\ pc[c] = "enter"
    /\ own[l] # c
    /\ ticket' = [ticket EXCEPT ![c] = next[l]]
    /\ next' = [next EXCEPT ![l] = Inc(@)]
    /\ pc' = [pc EXCEPT ![c] = "spin"]
    /\ UNCHANGED <<owner, held, own, depth, regions, todo>>

(* Mutant of Acquire: a test-and-set lock. *)
AcquireTestAndSet(c) ==
    LET l == Lowest(todo[c]) IN
    /\ pc[c] = "spin"
    /\ own[l] = NoCpu
    /\ held' = [held EXCEPT ![l] = TRUE]
    /\ own' = [own EXCEPT ![l] = c]
    /\ depth' = [depth EXCEPT ![l] = 1]
    /\ ticket' = [ticket EXCEPT ![c] = 0]
    /\ Entered(c, l)
    /\ UNCHANGED <<next, owner, regions>>

(* lock(): the acquire load that finds this ticket served, and the stores  *)
(* up to ipclock_enter_one's return, which only the holder makes.          *)
Acquire(c) ==
    LET l == Lowest(todo[c]) IN
    /\ pc[c] = "spin"
    /\ owner[l] = ticket[c]
    /\ held' = [held EXCEPT ![l] = TRUE]
    /\ own' = [own EXCEPT ![l] = c]
    /\ depth' = [depth EXCEPT ![l] = 1]
    /\ ticket' = [ticket EXCEPT ![c] = 0]
    /\ Entered(c, l)
    /\ UNCHANGED <<next, owner, regions>>

(* A call of ipclock_leave, ipclock_leave_port or unlock(&schedlock): the  *)
(* innermost region ends.                                                  *)
Leave(c) ==
    LET n == Len(regions[c]) IN
    /\ pc[c] = "run"
    /\ n > 0
    /\ todo' = [todo EXCEPT ![c] = regions[c][n]]
    /\ regions' = [regions EXCEPT ![c] = SubSeq(@, 1, n - 1)]
    /\ pc' = [pc EXCEPT ![c] = "leave"]
    /\ UNCHANGED <<next, owner, held, own, depth, ticket>>

Left(c, l) ==
    /\ todo' = [todo EXCEPT ![c] = @ \ {l}]
    /\ pc' = [pc EXCEPT ![c] = IF todo[c] = {l} THEN "run" ELSE "leave"]

(* ipclock_leave_one inside an outer region of the same bucket. *)
LeaveInner(c) ==
    LET l == Highest(todo[c]) IN
    /\ pc[c] = "leave"
    /\ depth[l] > 1
    /\ depth' = [depth EXCEPT ![l] = @ - 1]
    /\ Left(c, l)
    /\ UNCHANGED <<next, owner, held, own, ticket, regions>>

(* ipclock_leave_one of the outermost region: the owner is cleared, and    *)
(* unlock() clears held, before the ticket being served moves on.          *)
ClearHeld(c) ==
    LET l == Highest(todo[c]) IN
    /\ pc[c] = "leave"
    /\ depth[l] <= 1
    /\ depth' = [depth EXCEPT ![l] = 0]
    /\ own' = [own EXCEPT ![l] = NoCpu]
    /\ held' = [held EXCEPT ![l] = FALSE]
    /\ pc' = [pc EXCEPT ![c] = "unlock"]
    /\ UNCHANGED <<next, owner, ticket, regions, todo>>

(* unlock(): the release store that serves the next ticket. *)
ServeNext(c) ==
    LET l == Highest(todo[c]) IN
    /\ pc[c] = "unlock"
    /\ owner' = [owner EXCEPT ![l] = Inc(@)]
    /\ Left(c, l)
    /\ UNCHANGED <<next, held, own, depth, ticket, regions>>

Step(c) ==
    \/ EnterAgain(c) \/ DrawTicket(c) \/ Acquire(c)
    \/ Leave(c) \/ LeaveInner(c) \/ ClearHeld(c) \/ ServeNext(c)

Next == \E c \in CPU : (\E R \in Regions : Enter(c, R)) \/ Step(c)

Spec == Init /\ [][Next]_vars

(* A cpu inside an enter or a leave keeps running, and every region ends:  *)
(* nothing in one sleeps or raises, and it nests finitely many others      *)
(* before its own leave.  Entering a region is never owed.                 *)
LeaveOutermost(c) == Len(regions[c]) = 1 /\ Leave(c)

Fairness == \A c \in CPU : WF_vars(Step(c)) /\ SF_vars(LeaveOutermost(c))

FairSpec == Spec /\ Fairness
----------------------------------------------------------------------------
(* c is inside a region that covers l: past the enter, not yet leaving. *)
Inside(c, l) ==
    \E i \in DOMAIN regions[c] :
        /\ l \in regions[c][i]
        /\ ~(i = Len(regions[c]) /\ pc[c] \in {"enter", "spin"} /\ l \in todo[c])

Waits(c, l) == pc[c] = "spin" /\ l = Lowest(todo[c])

(* How many are served before the holder of ticket t, across the wrap. *)
Dist(l, t) == IF t >= owner[l] THEN t - owner[l] ELSE t - owner[l] + TicketMod

(* c was served l and has not yet passed it on. *)
Hold(c, l) == own[l] = c \/ (pc[c] = "unlock" /\ l = Highest(todo[c]))
Holders(l) == {c \in CPU : Hold(c, l)}

(* Who is at a lock, spinning or served, and how far from being served. *)
Users(l) == {c \in CPU : Waits(c, l) \/ Hold(c, l)}
Place(c, l) == IF Hold(c, l) THEN 0 ELSE Dist(l, ticket[c])

(* The types of the lock words: tickets stay below the wrap. *)
TypeOK ==
    /\ next    \in [Locks -> Tickets]
    /\ owner   \in [Locks -> Tickets]
    /\ held    \in [Locks -> BOOLEAN]
    /\ own     \in [Locks -> CPU \cup {NoCpu}]
    /\ depth   \in [Locks -> Nat]
    /\ ticket  \in [CPU -> Tickets]
    /\ regions \in [CPU -> Seq(Regions)]
    /\ todo    \in [CPU -> SUBSET Locks]
    /\ pc      \in [CPU -> PC]

(* No two cpus are ever inside regions that share a lock: two narrow       *)
(* regions of one bucket, a wide region and anything, or two holders of    *)
(* schedlock.  This is what every IPC_ASSERT_LOCKED and IPC_ASSERT_PORT in *)
(* port.c takes for granted, with ticket numbers that wrap.                *)
MutualExclusion ==
    \A c, d \in CPU : \A l \in Locks : Inside(c, l) /\ Inside(d, l) => c = d

(* holding() never answers "free" to a cpu inside its own region, although *)
(* unlock() clears the flag and the next holder sets it with plain stores: *)
(* the clear is before the release of the ticket.                          *)
HoldingSound ==
    \A c \in CPU : \A l \in Locks : Inside(c, l) => held[l]

(* A cpu outside every region owns no bucket, however its regions nested:  *)
(* the assertion of kernel_run, and the pitfall port.c describes over the  *)
(* bucket array (a missed leave makes every later enter take the fast path *)
(* and the kernel run unlocked).                                           *)
NoBucketHeld ==
    \A c \in CPU : pc[c] = "run" /\ regions[c] = <<>> =>
        \A l \in Locks : own[l] # c

(* What the asserts of port.c, IPC_ASSERT_LOCKED and kernel_run take for    *)
(* granted together, however regions nest and interleave and though the     *)
(* owner, the depth and held are plain stores around the ticket.            *)
LockSound == MutualExclusion /\ HoldingSound /\ NoBucketHeld

(* Every enter returns: the ascending order and the rule that a narrow     *)
(* region never widens leave no cycle of cpus waiting on each other, and   *)
(* the tickets leave no cpu passed over for ever.                          *)
EntryCompletes ==
    \A c \in CPU : pc[c] \in {"enter", "spin"} ~> pc[c] = "run"

(* Who is before whom at a lock, and the line FifoLock has of it. *)
Order(l) == {p \in Users(l) \X Users(l) : Place(p[1], l) < Place(p[2], l)}
Fifo == INSTANCE FifoLock WITH line <- [l \in Locks |-> Users(l)],
                               before <- [l \in Locks |-> Order(l)],
                               inside <- [l \in Locks |-> Holders(l)]

(* Every lock is the abstract lock of module FifoLock, which is why lock.h *)
(* is a ticket lock: whoever draws a ticket queues behind all who spin or  *)
(* hold, and is served alone and in that order, though tickets wrap, owner *)
(* and held change at different times, and a nested enter skips the line.  *)
LockRefines == Fifo!Spec

(* Every ipclock_enter and lock() returns, and in the order of arrival.     *)
ServedInTurn == LockRefines /\ EntryCompletes
============================================================================
