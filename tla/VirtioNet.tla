----------------------------- MODULE VirtioNet -----------------------------
(***************************************************************************)
(* A network card and everything between a frame on the wire and the proc  *)
(* that owns the card: src/platform/microvm/virtio_net.c over two queues,  *)
(* the interrupt of virtio.c, the eth wakeup of kernel.c's pump_eth, the   *)
(* idle wait of efi_shim.c, and the loop of task/eth.lua.  The card raises *)
(* a level for every completion; the handler lowers it and counts; the     *)
(* boot cpu turns a new count into one message; the task asks the card     *)
(* again.  Nothing else says a frame is waiting.                           *)
(***************************************************************************)
EXTENDS Virtqueue

CONSTANTS NRX, NTX,    \* receive and transmit buffers
          CardMax,     \* queue sizes the card may offer
          Kind,        \* kinds of frame: "fits", or "long" for more than 1514 bytes
          Messages,    \* what a card says of MSI-X: "none", "takes" or "refuses" the vector
          Loads        \* bounds: how many frames arrive and how many are sent

ASSUME NetAssumption == \A m \in CardMax : IdxMod % m = 0

VARIABLES card,      \* the card: its status, its level, whether it takes messages
          boot,      \* how far virtio_net_init has come
          rxq, txq,  \* the queues
          rxbuf,     \* the frame in each receive buffer
          txbuf,     \* the frame in each transmit buffer
          txfree,    \* buffers to send with
          wire,      \* frames that have arrived, and those the card has in flight outwards
          handed,    \* frames handed to the listener
          sent, out, \* frames virtio_net_send took, and those put on the wire
          irq,       \* irq_routed, and whether irq_taken is what pump_eth saw last
          ethport,   \* messages on the wakeup port
          task       \* the eth task: has a listener, draining or not, the buffer in hand

net_vars == <<card, boot, rxq, txq, rxbuf, txbuf, txfree, wire, handed, sent, out, irq, ethport, task>>

RxDesc == 0 .. NRX - 1
TxDesc == 0 .. NTX - 1

NetInit ==
    /\ card \in {c \in [status : {"reset"}, level : {FALSE}, max : CardMax, transport : {"mmio", "pci"},
                         modern : BOOLEAN, msix : Messages] : c.transport = "mmio" => c.msix = "none" /\ ~c.modern}
    /\ boot = [at |-> "begin", posted |-> 0]
    /\ rxq = virtio_queue_init(NRX, card.max) /\ txq = virtio_queue_init(NTX, card.max)
    /\ rxbuf = [i \in RxDesc |-> 0] /\ txbuf = [i \in TxDesc |-> 0]
    /\ txfree = [i \in TxDesc |-> FALSE]
    /\ \E l \in Loads : wire = [load |-> l, arrived |-> 0, lost |-> {}, long |-> {}, busy |-> {}]
    /\ handed = <<>> /\ sent = <<>> /\ out = <<>>
    /\ irq = [routed |-> FALSE, new |-> FALSE]
    /\ ethport = 0
    /\ task = [listening |-> FALSE, at |-> "alt", i |-> 0]

-----------------------------------------------------------------------------
(* virtio_net_init *)

(* Reset, acknowledge and negotiate.  A card on the PCI transport must offer
   version 1 and agree to what was chosen; an older one is not asked. *)
virtio_dev_begin ==
    /\ boot.at = "begin"
    /\ \E agrees \in {TRUE, ~card.modern} :
         LET ok == (card.transport = "pci" => card.modern) /\ agrees IN
         /\ card' = [card EXCEPT !.status = IF ok THEN "driver" ELSE "failed"]
         /\ boot' = [boot EXCEPT !.at = IF ok THEN "queues" ELSE "failed"]
    /\ UNCHANGED <<rxq, txq, rxbuf, txbuf, txfree, wire, handed, sent, out, irq, ethport, task>>

(* Both queues and every buffer's descriptor, or the card is given up. *)
Buffers ==
    /\ boot.at = "queues"
    /\ \E r \in {Allocated(rxq, NRX)}, x \in {Allocated(txq, NTX)} :
         LET ok == Len(r.got) = NRX /\ Len(x.got) = NTX IN
         /\ rxq' = r.q /\ txq' = x.q
         /\ txfree' = [i \in TxDesc |-> ok]
         /\ boot' = [boot EXCEPT !.at = IF ok THEN "ready" ELSE "failed"]
    /\ UNCHANGED <<card, rxbuf, txbuf, wire, handed, sent, out, irq, ethport, task>>

virtio_dev_ready ==
    /\ boot.at = "ready"
    /\ card' = [card EXCEPT !.status = "ok"]
    /\ boot' = [boot EXCEPT !.at = "post"]
    /\ UNCHANGED <<rxq, txq, rxbuf, txbuf, txfree, wire, handed, sent, out, irq, ethport, task>>

rx_post(queue, i) == virtio_submit(queue, i)

Posts ==
    /\ boot.at = "post" /\ boot.posted < NRX
    /\ rxq' = rx_post(rxq, boot.posted)
    /\ boot' = [boot EXCEPT !.posted = @ + 1]
    /\ UNCHANGED <<card, txq, rxbuf, txbuf, txfree, wire, handed, sent, out, irq, ethport, task>>

(* The handler owns the acknowledgement from here.  A line is routed unless
   the card was given a vector, whether or not it took it. *)
virtio_irq_enable ==
    /\ boot.at = "post" /\ boot.posted = NRX
    /\ irq' = [irq EXCEPT !.routed = TRUE]
    /\ boot' = [boot EXCEPT !.at = "up"]
    /\ UNCHANGED <<card, rxq, txq, rxbuf, txbuf, txfree, wire, handed, sent, out, ethport, task>>

-----------------------------------------------------------------------------
(* The card. *)

(* A completion raises the level, or sends a message, which the cpu takes
   at once; a card that refused its vector sends none. *)
Raised(c) == IF c.msix = "none" THEN [c EXCEPT !.level = TRUE] ELSE c
Signalled(r) == IF card.msix = "takes" THEN [r EXCEPT !.new = TRUE] ELSE r

Arrives(k) ==
    /\ card.status = "ok" /\ wire.arrived < wire.load.frames
    /\ LET f == wire.arrived + 1 IN
       IF Offered(rxq)
       THEN /\ rxq' = Reported(Taken(rxq), NextHead(rxq))
            /\ rxbuf' = [rxbuf EXCEPT ![NextHead(rxq)] = f]
            /\ wire' = [wire EXCEPT !.arrived = f, !.long = IF k = "long" THEN @ \cup {f} ELSE @]
            /\ card' = Raised(card) /\ irq' = Signalled(irq)
       ELSE /\ wire' = [wire EXCEPT !.arrived = f, !.lost = @ \cup {f}]
            /\ UNCHANGED <<card, irq, rxq, rxbuf>>
    /\ UNCHANGED <<boot, txq, txbuf, txfree, handed, sent, out, ethport, task>>

TakesOut ==
    /\ card.status = "ok" /\ Offered(txq)
    /\ wire' = [wire EXCEPT !.busy = @ \cup {NextHead(txq)}]
    /\ txq' = Taken(txq)
    /\ UNCHANGED <<card, boot, rxq, rxbuf, txbuf, txfree, handed, sent, out, irq, ethport, task>>

PutsOut(i) ==
    /\ i \in wire.busy
    /\ out' = Append(out, txbuf[i])
    /\ wire' = [wire EXCEPT !.busy = @ \ {i}]
    /\ txq' = Reported(txq, i)
    /\ card' = Raised(card) /\ irq' = Signalled(irq)
    /\ UNCHANGED <<boot, rxq, rxbuf, txbuf, txfree, handed, sent, ethport, task>>

(* The line is up: the handler asks the card, which lowers it. *)
virtio_isr ==
    /\ card.level /\ irq.routed
    /\ card' = [card EXCEPT !.level = FALSE]
    /\ irq' = [irq EXCEPT !.new = TRUE]
    /\ UNCHANGED <<boot, rxq, txq, rxbuf, txbuf, txfree, wire, handed, sent, out, ethport, task>>

-----------------------------------------------------------------------------
(* One message for any number of interrupts since the boot cpu last looked,
   which it does every lap; an idle lap ends at a tick if not before. *)
pump_eth ==
    /\ boot.at = "up" /\ irq.new
    /\ irq' = [irq EXCEPT !.new = FALSE]
    /\ ethport' = 1
    /\ UNCHANGED <<card, boot, rxq, txq, rxbuf, txbuf, txfree, wire, handed, sent, out, task>>

-----------------------------------------------------------------------------
(* The eth task. *)

(* A poll lowers the level itself only while no line is routed. *)
Acks(c) == IF irq.routed THEN c ELSE [c EXCEPT !.level = FALSE]

Wakes ==
    /\ task.at = "alt" /\ ethport = 1
    /\ ethport' = 0
    /\ task' = [task EXCEPT !.at = IF task.listening THEN "drain" ELSE "alt"]
    /\ UNCHANGED <<card, boot, rxq, txq, rxbuf, txbuf, txfree, wire, handed, sent, out, irq>>

(* A proc asks to see frames: what the card already holds is drained too. *)
Listens ==
    /\ boot.at = "up" /\ task.at = "alt" /\ ~task.listening
    /\ task' = [task EXCEPT !.listening = TRUE, !.at = "drain"]
    /\ UNCHANGED <<card, boot, rxq, txq, rxbuf, txbuf, txfree, wire, handed, sent, out, irq, ethport>>

(* The next completion, if there is one: its buffer is the task's now. *)
PollsPosting(queue, i) == rx_post(virtio_poll_used(queue), i)

TakesUsed(queue, i) == virtio_poll_used(queue)

virtio_net_recv ==
    /\ task.at = "drain"
    /\ IF Unread(rxq) = <<>>
       THEN /\ task' = [task EXCEPT !.at = "alt"]
            /\ UNCHANGED <<card, rxq>>
       ELSE /\ rxq' = TakesUsed(rxq, Head(Unread(rxq)))
            /\ card' = Acks(card)
            /\ task' = [task EXCEPT !.at = "got", !.i = Head(Unread(rxq))]
    /\ UNCHANGED <<boot, txq, rxbuf, txbuf, txfree, wire, handed, sent, out, irq, ethport>>

(* The frame is copied out and the buffer goes back, whatever became of the
   frame.  One that does not fit is nil to the task, as no frame is. *)
OneAWakeup(f) == "alt"

DrainsOn(f) == IF f \in wire.long THEN "alt" ELSE "drain"

Copies ==
    /\ task.at = "got"
    /\ rxq' = rx_post(rxq, task.i)
    /\ handed' = IF rxbuf[task.i] \in wire.long THEN handed ELSE Append(handed, rxbuf[task.i])
    /\ task' = [task EXCEPT !.at = DrainsOn(rxbuf[task.i]), !.i = 0]
    /\ UNCHANGED <<card, boot, txq, rxbuf, txbuf, txfree, wire, sent, out, irq, ethport>>

(* Buffers the card has finished with are to send with again. *)
tx_reap == [i \in TxDesc |-> txfree[i] \/ \E k \in DOMAIN Unread(txq) : Unread(txq)[k] = i]

(* The first free buffer, after those the card is done with are taken back;
   the frame is refused when all are in flight. *)
virtio_net_send ==
    /\ boot.at = "up" /\ task.at = "alt" /\ Len(sent) < wire.load.sends
    /\ \E free \in {tx_reap}, polled \in {FoldLeft(LAMBDA queue, i : virtio_poll_used(queue), txq, Unread(txq))} :
         IF \E i \in TxDesc : free[i]
         THEN LET i == CHOOSE i \in TxDesc : free[i] /\ \A j \in TxDesc : j < i => ~free[j]
                  f == Len(sent) + 1
              IN  /\ txfree' = [free EXCEPT ![i] = FALSE]
                  /\ txbuf' = [txbuf EXCEPT ![i] = f]
                  /\ txq' = virtio_submit(polled, i)
                  /\ sent' = Append(sent, f)
         ELSE txq' = polled /\ txfree' = free /\ UNCHANGED <<txbuf, sent>>
    /\ card' = IF Unread(txq) # <<>> THEN Acks(card) ELSE card
    /\ UNCHANGED <<boot, rxq, rxbuf, wire, handed, out, irq, ethport, task>>

-----------------------------------------------------------------------------
Task == Wakes \/ virtio_net_recv \/ Copies
BringUp == virtio_dev_begin \/ Buffers \/ virtio_dev_ready \/ Posts \/ virtio_irq_enable

NetNext ==
    \/ BringUp \/ virtio_isr \/ pump_eth \/ Task \/ Listens \/ virtio_net_send
    \/ \E k \in Kind : Arrives(k)
    \/ TakesOut \/ \E i \in TxDesc : PutsOut(i)

NetFair ==
    /\ WF_net_vars(virtio_isr) /\ WF_net_vars(pump_eth) /\ WF_net_vars(Task)
    /\ WF_net_vars(TakesOut \/ \E i \in TxDesc : PutsOut(i))

NetSpec == NetInit /\ [][NetNext]_net_vars /\ NetFair

-----------------------------------------------------------------------------
(* Properties. *)

(* Frames are handed on in the order they arrived, each as it arrived, and
   none the card took is passed over unless it was too long.  Every frame
   virtio_net_send took goes out once, whatever order the card finishes its
   buffers in: none is filled again while the card has it. *)
FramesInOrder ==
    /\ IsPrefix(handed, SelectSeq([f \in 1 .. wire.arrived |-> f], LAMBDA f : f \notin wire.lost \cup wire.long))
    /\ \A j, k \in DOMAIN out : j # k => out[j] # out[k]
    /\ \A i \in wire.busy : ~txfree[i]

(* A frame in the card's ring is taken out of it once there is a listener,
   if no frame is too long: the one wakeup for a burst of completions never
   comes too early, and nothing but the handler takes the card's level away. *)
FramesHanded ==
    (task.listening /\ Unread(rxq) # <<>>) ~> (Unread(rxq) = <<>> \/ wire.long # {})
=============================================================================
