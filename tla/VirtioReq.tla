----------------------------- MODULE VirtioReq -----------------------------
(***************************************************************************)
(* The two drivers that keep several requests in one virtqueue:            *)
(* src/platform/microvm/virtio_blk.c and virtio_9p.c, with the calls of    *)
(* los.platform.blk and p9 that wait for them.  The device carries         *)
(* requests out in any order; it reads and writes what the descriptors say *)
(* when it gets to them, not when they were filled.                        *)
(* Callers are threads of the one driver proc, so a call runs to its end   *)
(* or to its yield without interruption.                                   *)
(***************************************************************************)
EXTENDS Virtqueue

CONSTANTS Caller,     \* threads of the driver proc
          SlotsOf,    \* slots of each driver
          QueueMax,   \* queue sizes a device may offer, 0 for no queue
          Lba         \* the sectors callers ask for

ASSUME VirtioAssumption ==
    /\ \A m \in QueueMax : m = 0 \/ IdxMod % m = 0
    /\ 0 \in Lba

VARIABLES driver,  \* which driver this device is for
          q,       \* the queue
          carried, \* chains the device has taken and not finished
          slot,    \* the driver's slot table
          hdr,     \* each slot's request, as the device will read it
          buf,     \* each slot's data
          status,  \* each slot's status byte
          doing     \* what each caller is doing

virtio_vars == <<driver, q, carried, slot, hdr, buf, status, doing>>

(* Descriptors a request holds, and the queue each driver asks for. *)
Depth(d) == IF d = "blk" THEN 3 ELSE 2
QSize(d) == (IF d = "blk" THEN 4 ELSE 2) * SlotsOf[d]
ReqSlots(d) == 1 .. SlotsOf[d]
EndOfDisk == 2
StatusUnset == 255

-----------------------------------------------------------------------------
(* The slots. *)

Idle == [busy |-> FALSE, done |-> FALSE, d |-> <<>>]

VirtioInit ==
    /\ driver \in DOMAIN SlotsOf
    /\ \E max \in QueueMax : max # 0 /\ q = virtio_queue_init(QSize(driver), max)
    /\ carried = {}
    /\ slot = [s \in ReqSlots(driver) |-> Idle]
    /\ hdr = [s \in ReqSlots(driver) |-> [lba |-> 0, write |-> FALSE]]
    /\ buf = [s \in ReqSlots(driver) |-> 0]
    /\ status = [s \in ReqSlots(driver) |-> StatusUnset]
    /\ doing = [t \in Caller |-> [at |-> "idle"]]

(* One entry of the used ring under its own slot. *)
FilesAny(sl, i, id) == sl[i].busy /\ ~sl[i].done

Files(sl, i, id) == sl[i].busy /\ ~sl[i].done /\ sl[i].d[1] = id

Filed(sl, id) ==
    LET own == {i \in DOMAIN sl : Files(sl, i, id)} IN
    IF own = {} THEN sl
    ELSE [sl EXCEPT ![CHOOSE i \in own : \A j \in own : i <= j].done = TRUE]

reap == [slot |-> FoldLeft(Filed, slot, Unread(q)),
         q |-> FoldLeft(LAMBDA queue, id : virtio_poll_used(queue), q, Unread(q))]

(* virtio_blk_start refuses what lies past the end of the disk. *)
Addressable(r) == driver # "blk" \/ r.lba < EndOfDisk

FirstIdle == CHOOSE s \in ReqSlots(driver) : ~slot[s].busy /\ \A t \in ReqSlots(driver) : t < s => slot[t].busy

Rejects(r) == ~Addressable(r) \/ \A s \in ReqSlots(driver) : slot[s].busy

(* The request starts, or its descriptors go back and the caller yields to
   try again. *)
Start(t, r) ==
    IF Rejects(r)
    THEN /\ doing' = [doing EXCEPT ![t] = [at |-> "start", r |-> r]]
         /\ UNCHANGED <<q, slot, hdr, buf, status>>
    ELSE \E a \in {Allocated(q, Depth(driver))} :
         IF Len(a.got) < Depth(driver)
         THEN /\ q' = Freed(a.q, a.got)
              /\ doing' = [doing EXCEPT ![t] = [at |-> "start", r |-> r]]
              /\ UNCHANGED <<slot, hdr, buf, status>>
         ELSE \E s \in {FirstIdle} :
              /\ q' = virtio_submit(Chained(a.q, a.got, s), a.got[1])
              /\ slot' = [slot EXCEPT ![s] = [busy |-> TRUE, done |-> FALSE, d |-> a.got]]
              /\ hdr' = [hdr EXCEPT ![s] = r]
              /\ buf' = [buf EXCEPT ![s] = IF r.write THEN r.lba ELSE @]
              /\ status' = [status EXCEPT ![s] = StatusUnset]
              /\ doing' = [doing EXCEPT ![t] = [at |-> "started", r |-> r, s |-> s]]

(* The slot's descriptors, last first, then the slot. *)

Frees(queue, ds) == Freed(queue, Reverse(ds))

slot_free(queue, sl, s) == [q |-> Frees(queue, sl[s].d), slot |-> [sl EXCEPT ![s] = Idle]]

(* The answer, copied out of the slot's buffer before anything else runs. *)
Told(t, s) ==
    [at |-> "told", r |-> doing[t].r, status |-> IF driver = "blk" THEN status[s] ELSE 0, data |-> buf[s]]

Poll(t) ==
    \E s \in {doing[t].s}, r \in {IF slot[doing[t].s].done THEN [q |-> q, slot |-> slot] ELSE reap} :
        IF ~r.slot[s].done
        THEN /\ q' = r.q /\ slot' = r.slot
             /\ doing' = [doing EXCEPT ![t].at = "poll"]
        ELSE \E f \in {slot_free(r.q, r.slot, s)} :
             /\ q' = f.q /\ slot' = f.slot
             /\ doing' = [doing EXCEPT ![t] = Told(t, s)]

(* A caller of los.platform.blk or p9: the first attempt, another attempt
   after a yield, and a look, which follows a start without a yield. *)
Request == {[lba |-> l, write |-> w] : l \in Lba, w \in {driver = "blk", FALSE}}

Begins(t) ==
    /\ doing[t].at \in {"idle", "told"}
    /\ \E r \in Request : Start(t, r)
    /\ UNCHANGED <<driver, carried>>

Retries(t) ==
    /\ doing[t].at = "start"
    /\ Start(t, doing[t].r)
    /\ UNCHANGED <<driver, carried>>

Polls(t) ==
    /\ doing[t].at \in {"started", "poll"}
    /\ Poll(t)
    /\ UNCHANGED <<driver, carried, hdr, buf, status>>

(* A thread that has just started a request looks at it before it yields. *)
Runs(t) == \A o \in Caller \ {t} : doing[o].at # "started"

-----------------------------------------------------------------------------
(* The device. *)

Takes ==
    /\ Offered(q)
    /\ carried' = carried \cup {NextHead(q)}
    /\ q' = Taken(q)
    /\ UNCHANGED <<driver, slot, hdr, buf, status, doing>>

After(i) == IF q.desc[i].more THEN q.desc[i].next ELSE i
LastOf(i) == After(After(i))

Finishes(h, st) ==
    /\ h \in carried
    /\ carried' = carried \ {h}
    /\ q' = Reported(q, h)
    /\ LET r == hdr[q.desc[h].slot]
           b == q.desc[After(h)].slot
       IN  buf' = IF st = 0 /\ ~r.write THEN [buf EXCEPT ![b] = r.lba] ELSE buf
    /\ status' = IF driver = "blk" THEN [status EXCEPT ![q.desc[LastOf(h)].slot] = st] ELSE status
    /\ UNCHANGED <<driver, slot, hdr, doing>>

Outcome == IF driver = "blk" THEN {0, 1} ELSE {0}

Disk == Takes \/ \E h \in carried, st \in Outcome : Finishes(h, st)

Driver(t) == Runs(t) /\ (Begins(t) \/ Retries(t) \/ Polls(t))

VirtioNext == Disk \/ \E t \in Caller : Driver(t)

VirtioSpec == VirtioInit /\ [][VirtioNext]_virtio_vars


-----------------------------------------------------------------------------
(* Properties. *)

Held == UNION {Range(slot[s].d) : s \in {s \in DOMAIN slot : slot[s].busy}}

(* Every descriptor is free exactly once or held by exactly one busy slot,  *)
(* whatever order requests start, fail for want of descriptors, and come   *)
(* back in; and the device works only on chains a busy slot waits for, so  *)
(* it never writes a buffer that has been given to another request.        *)
DescriptorsConserved ==
    LET free == FreeList(q) IN
    /\ Len(free) = q.nfree
    /\ Cardinality(Range(free)) = q.nfree
    /\ Range(free) \cap Held = {}
    /\ Cardinality(Held) = Depth(driver) * Cardinality({s \in DOMAIN slot : slot[s].busy})
    /\ q.nfree + Cardinality(Held) = q.qsize
    /\ \A h \in carried : \E s \in DOMAIN slot : slot[s].busy /\ ~slot[s].done /\ slot[s].d[1] = h

(* A caller is told what the device answered to its own request: reap files
   each completion under the slot whose chain it names, in whatever order
   the completions came and whichever caller's poll drained them. *)
AnswerIsOwn ==
    \A t \in Caller : doing[t].at = "told" =>
        /\ doing[t].status \in {0, 1}
        /\ doing[t].status = 0 => doing[t].data = doing[t].r.lba

(* Requests share the descriptors and the device and nothing else. *)
RequestsApart == DescriptorsConserved /\ AnswerIsOwn
=============================================================================
