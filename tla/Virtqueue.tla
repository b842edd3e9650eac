----------------------------- MODULE Virtqueue -----------------------------
(***************************************************************************)
(* The split virtqueue of src/platform/microvm/virtio.c, as operations on  *)
(* a record.  A free descriptor is threaded through its own next field.    *)
(* The device's side of the queue is `seen', how far it has read the avail *)
(* ring.                                                                   *)
(***************************************************************************)
EXTENDS Integers, Sequences, SequencesExt, FiniteSets

CONSTANT IdxMod      \* the width of a ring index, 2^16 in the code

NoDesc == -1

Lesser(a, b) == IF a < b THEN a ELSE b

virtio_queue_init(want, max) ==
    LET n == Lesser(want, max) IN
    [qsize |-> n,
     desc |-> [i \in 0 .. n - 1 |->
                  [next |-> IF i = n - 1 THEN NoDesc ELSE i + 1, slot |-> 0, more |-> FALSE]],
     free_head |-> 0, nfree |-> n,
     avail |-> [i \in 0 .. n - 1 |-> NoDesc], avail_idx |-> 0, seen |-> 0,
     used |-> [i \in 0 .. n - 1 |-> NoDesc], used_idx |-> 0, last_used_idx |-> 0]

virtio_desc_alloc(r) ==
    IF r.q.free_head = NoDesc \/ r.q.nfree = 0 THEN r
    ELSE [q |-> [r.q EXCEPT !.free_head = r.q.desc[r.q.free_head].next, !.nfree = @ - 1],
          got |-> Append(r.got, r.q.free_head)]

Allocated(queue, k) ==
    FoldLeft(LAMBDA r, i : virtio_desc_alloc(r), [q |-> queue, got |-> <<>>], [i \in 1 .. k |-> i])

virtio_desc_free(queue, i) ==
    [queue EXCEPT !.desc[i].next = queue.free_head, !.free_head = i, !.nfree = @ + 1]

Freed(queue, ds) == FoldLeft(virtio_desc_free, queue, ds)

(* The chain of a request: each descriptor but the last names the next. *)
Chained(queue, ds, s) ==
    [queue EXCEPT !.desc = [i \in DOMAIN queue.desc |->
        IF \E k \in DOMAIN ds : ds[k] = i
        THEN LET k == CHOOSE k \in DOMAIN ds : ds[k] = i IN
             [next |-> IF k < Len(ds) THEN ds[k + 1] ELSE 0, slot |-> s, more |-> k < Len(ds)]
        ELSE queue.desc[i]]]

virtio_submit(queue, head) ==
    [queue EXCEPT !.avail[queue.avail_idx % queue.qsize] = head,
                  !.avail_idx = (@ + 1) % IdxMod]

(* The heads the device has reported since the driver last looked. *)
Unread(queue) ==
    [k \in 1 .. ((queue.used_idx - queue.last_used_idx) % IdxMod) |->
        queue.used[(queue.last_used_idx + k - 1) % queue.qsize]]

(* An entry of either ring is cleared once it is read: neither side reads
   it again, and the model has fewer states to tell apart. *)
virtio_poll_used(queue) ==
    [queue EXCEPT !.used[queue.last_used_idx % queue.qsize] = NoDesc,
                  !.last_used_idx = (@ + 1) % IdxMod]

(* The device's half: it takes the next chain, and reports one it finished. *)
Offered(queue) == queue.seen # queue.avail_idx

NextHead(queue) == queue.avail[queue.seen % queue.qsize]

Taken(queue) == [queue EXCEPT !.avail[queue.seen % queue.qsize] = NoDesc, !.seen = (@ + 1) % IdxMod]

Reported(queue, h) ==
    [queue EXCEPT !.used[queue.used_idx % queue.qsize] = h, !.used_idx = (@ + 1) % IdxMod]

(* The free list as far as it goes, and no further than a queue's length. *)
FreeList(queue) ==
    FoldLeft(LAMBDA l, k : IF l.at = NoDesc THEN l
                           ELSE [at |-> queue.desc[l.at].next, seq |-> Append(l.seq, l.at)],
             [at |-> queue.free_head, seq |-> <<>>], [k \in 1 .. queue.qsize + 1 |-> k]).seq
=============================================================================
