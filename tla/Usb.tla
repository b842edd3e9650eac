-------------------------------- MODULE Usb --------------------------------
(***************************************************************************)
(* USB audio on the esp32 (src/src/platform/esp32/usb.c).  The usb task    *)
(* runs the host library's callbacks and then the pump, which refills the  *)
(* transfers the callbacks left idle and submits them; the kernel's task   *)
(* starts, feeds and stops the stream.  They share flags, counters and a   *)
(* ring, and no lock.                                                      *)
(***************************************************************************)
EXTENDS Integers, Sequences

CONSTANTS NXFER,
          RingSize,   \* pcmsize: a power of two
          CtrMod,     \* where the ring's counters wrap: 2^32
          Samples,    \* samples written in all
          Sessions,   \* calls of platform_usb_play
          Patience    \* pump turns the fill is waited for: 50

VARIABLES attached,   \* the device: "absent", "known" (device is set), "pulled" (and nobody told yet)
          desclen,
          xfer,       \* each transfer: "none", "ours", "out" (the stack has it)
          idle, inflight, playing, priming, primed,
          pcm,        \* the ring's memory, or <<>> for none
          phead, ptail,
          playitf, playep,
          ktask,      \* the kernel's task: [at, then, n, beats]
          utask,      \* the usb task: [at, i]
          written, drained,   \* what this session's ring was given, and gave
          plays, sampled,
          pulled,     \* the device left at some time
          lost,       \* a transfer was freed while the stack or the pump had it
          broken      \* memory that is not there was used
usb_vars == <<attached, desclen, xfer, idle, inflight, playing, priming, primed, pcm, phead, ptail,
              playitf, playep, ktask, utask, written, drained, plays, sampled, pulled, lost, broken>>

Xfers == 0 .. NXFER - 1
Filled == (phead - ptail) % CtrMod
AtPlace(ctr) == ctr % RingSize
InRing == [k \in 1 .. Filled |-> pcm[AtPlace(ptail + k - 1)]]

UsbInit ==
    /\ attached = "absent" /\ desclen = 0
    /\ xfer = [i \in Xfers |-> "none"] /\ idle = [i \in Xfers |-> FALSE]
    /\ inflight = 0 /\ playing = FALSE /\ priming = FALSE /\ primed = 0
    /\ pcm = <<>> /\ phead = 0 /\ ptail = 0
    /\ playitf = FALSE /\ playep = FALSE
    /\ ktask = [at |-> "idle", then |-> "idle", n |-> 0, beats |-> 0]
    /\ utask = [at |-> "events", i |-> 0]
    /\ written = <<>> /\ drained = <<>> /\ plays = 0 /\ sampled = 0
    /\ pulled = FALSE /\ lost = FALSE /\ broken = FALSE

stream == <<written, drained, sampled, plays>>
flags == <<pulled, lost, broken>>

(* The part of playstop after the wait: everything goes back. *)
Cleanup ==
    /\ inflight' = 0 /\ priming' = FALSE
    /\ playep' = FALSE /\ playitf' = FALSE
    /\ lost' = (lost \/ utask.at = "refill" \/ \E i \in Xfers : xfer[i] = "out")
    /\ xfer' = [i \in Xfers |-> "none"]
    /\ pcm' = <<>> /\ phead' = 0 /\ ptail' = 0

(* ---- the usb task ---- *)

Pumping == utask' = [at |-> "pump", i |-> 0]

(* evcb: a device arrives and is opened, its descriptor kept; or it is gone,
   and the stream is stopped without waiting. *)
opened ==
    /\ utask.at = "events" /\ attached = "absent" /\ ~pulled
    /\ attached' = "known" /\ desclen' = 1
    /\ Pumping
    /\ UNCHANGED <<xfer, idle, inflight, playing, priming, primed, pcm, phead, ptail, playitf, playep, ktask, stream, flags>>

Pull ==
    /\ attached = "known"
    /\ attached' = "pulled" /\ pulled' = TRUE
    /\ UNCHANGED <<desclen, xfer, idle, inflight, playing, priming, primed, pcm, phead, ptail, playitf, playep,
                   ktask, utask, stream, lost, broken>>

DevGone ==
    /\ utask.at = "events" /\ attached = "pulled"
    /\ playing' = FALSE /\ Cleanup
    /\ attached' = "absent" /\ desclen' = 0
    /\ Pumping
    /\ UNCHANGED <<idle, primed, ktask, stream, pulled, broken>>

(* The bus has taken a transfer: it is left for the pump. *)
played(i) ==
    /\ utask.at = "events" /\ xfer[i] = "out"
    /\ xfer' = [xfer EXCEPT ![i] = "ours"]
    /\ inflight' = inflight - 1
    /\ idle' = [idle EXCEPT ![i] = TRUE]
    /\ Pumping
    /\ UNCHANGED <<attached, desclen, playing, priming, primed, pcm, phead, ptail, playitf, playep, ktask, stream, flags>>

(* The control transfer's callback wakes setrate. *)
ctlcb ==
    /\ utask.at = "events" /\ ktask.at = "rate" /\ ktask.n = 0
    /\ ktask' = [ktask EXCEPT !.n = 1]
    /\ Pumping
    /\ UNCHANGED <<attached, desclen, xfer, idle, inflight, playing, priming, primed, pcm, phead, ptail, playitf, playep, stream, flags>>

NoEvent ==
    /\ utask.at = "events"
    /\ Pumping
    /\ UNCHANGED <<attached, desclen, xfer, idle, inflight, playing, priming, primed, pcm, phead, ptail, playitf, playep, ktask, stream, flags>>

(* pump: the wait for the fill is bounded ... *)
PumpPrime ==
    /\ utask.at = "pump"
    /\ primed' = IF priming THEN primed + 1 ELSE primed
    /\ priming' = (priming /\ primed' <= Patience)
    /\ utask' = [utask EXCEPT !.at = "scan"]
    /\ UNCHANGED <<attached, desclen, xfer, idle, inflight, playing, pcm, phead, ptail, playitf, playep, ktask, stream, flags>>

Onward == IF utask.i + 1 < NXFER THEN [at |-> "scan", i |-> utask.i + 1] ELSE [at |-> "beat", i |-> 0]

(* ... then each idle transfer is taken, and refilled if `playing' still holds. *)
PumpScan ==
    /\ utask.at = "scan"
    /\ IF ~idle[utask.i] \/ priming
         THEN utask' = Onward /\ UNCHANGED idle
         ELSE /\ idle' = [idle EXCEPT ![utask.i] = FALSE]
              /\ utask' = IF playing THEN [utask EXCEPT !.at = "refill"] ELSE Onward
    /\ UNCHANGED <<attached, desclen, xfer, inflight, playing, priming, primed, pcm, phead, ptail, playitf, playep, ktask, stream, flags>>

(* A packet with no audio behind it is silence.  A transfer the stack will not
   take ends the stream. *)
ringget == IF Filled > 0 /\ pcm # <<>> THEN <<pcm[AtPlace(ptail)]>> ELSE <<>>

refill ==
    /\ utask.at = "refill"
    /\ drained' = drained \o ringget
    /\ ptail' = (ptail + Len(ringget)) % CtrMod
    /\ IF xfer[utask.i] = "none" THEN broken' = TRUE /\ UNCHANGED <<xfer, inflight, playing>>
       ELSE /\ UNCHANGED broken
            /\ \/ /\ xfer' = [xfer EXCEPT ![utask.i] = "out"]
                  /\ inflight' = inflight + 1
                  /\ UNCHANGED playing
               \/ /\ attached # "known"
                  /\ playing' = FALSE
                  /\ UNCHANGED <<xfer, inflight>>
    /\ utask' = Onward
    /\ UNCHANGED <<attached, desclen, idle, priming, primed, pcm, phead, playitf, playep, ktask, written, sampled, plays, pulled, lost>>

(* A waiting stop counts the turns.  A turn is at least the client's 2 ms
   wait, so no more than one ends between the stop's first two statements. *)
PumpBeat ==
    /\ utask.at = "beat" /\ ~(ktask.at = "stop" /\ ktask.beats = 1)
    /\ utask' = [at |-> "events", i |-> 0]
    /\ ktask' = IF ktask.beats < 2 THEN [ktask EXCEPT !.beats = @ + 1] ELSE ktask
    /\ UNCHANGED <<attached, desclen, xfer, idle, inflight, playing, priming, primed, pcm, phead, ptail, playitf, playep, stream, flags>>

(* ---- the kernel's task ---- *)

KGoes(step, then) == ktask' = [at |-> step, then |-> then, n |-> 0, beats |-> 0]

platform_usb_play ==
    /\ ktask.at = "idle" /\ attached # "absent" /\ plays < Sessions
    /\ plays' = plays + 1
    /\ KGoes("stop", "claim")
    /\ UNCHANGED <<attached, desclen, xfer, idle, inflight, playing, priming, primed, pcm, phead, ptail, playitf, playep,
                   utask, written, drained, sampled, flags>>

platform_usb_stop ==
    /\ ktask.at = "idle" /\ playing
    /\ KGoes("stop", "idle")
    /\ UNCHANGED <<attached, desclen, xfer, idle, inflight, playing, priming, primed, pcm, phead, ptail, playitf, playep,
                   utask, stream, flags>>

(* playstop: `beat' is read, then `playing' cleared ... *)
StopClears ==
    /\ ktask.at = "stop"
    /\ playing' = FALSE
    /\ ktask' = [ktask EXCEPT !.at = "wait"]
    /\ UNCHANGED <<attached, desclen, xfer, idle, inflight, priming, primed, pcm, phead, ptail, playitf, playep,
                   utask, stream, flags>>

(* ... until nothing is in flight and two turns have passed.  The two reads of
   one test are taken as one step: a turn is at least the client's wait.  The
   wait ends by itself after two seconds, which only a device that left makes
   it reach. *)
QuietOneTurn == inflight = 0 /\ ktask.beats > 0
Quiet == inflight = 0 /\ ktask.beats > 1
StopFrees ==
    /\ ktask.at = "wait" /\ (Quiet \/ attached # "known")
    /\ Cleanup
    /\ KGoes(ktask.then, "idle")
    /\ UNCHANGED <<attached, desclen, idle, playing, primed, utask, stream, pulled, broken>>

(* The interface is claimed; the rate is asked for, and waited for when the
   request was accepted. *)
Claim ==
    /\ ktask.at = "claim"
    /\ IF attached = "known" THEN playitf' = TRUE /\ \E step \in {"rate", "ring"} : KGoes(step, "idle")
                             ELSE KGoes("idle", "idle") /\ UNCHANGED playitf
    /\ UNCHANGED <<attached, desclen, xfer, idle, inflight, playing, priming, primed, pcm, phead, ptail, playep,
                   utask, stream, flags>>

setrate ==
    /\ ktask.at = "rate" /\ (ktask.n = 1 \/ attached # "known")
    /\ KGoes("ring", "idle")
    /\ UNCHANGED <<attached, desclen, xfer, idle, inflight, playing, priming, primed, pcm, phead, ptail, playitf, playep,
                   utask, stream, flags>>

(* The ring, or the end of it: there the stop does not wait. *)
PlayRing ==
    /\ ktask.at = "ring"
    /\ \/ /\ pcm' = [k \in 0 .. RingSize - 1 |-> 0]
          /\ playep' = TRUE /\ playing' = TRUE
          /\ written' = <<>> /\ drained' = <<>>
          /\ KGoes("alloc", "idle")
          /\ UNCHANGED <<xfer, inflight, priming, phead, ptail, playitf, lost>>
       \/ /\ playing' = FALSE /\ Cleanup
          /\ KGoes("idle", "idle")
          /\ UNCHANGED <<written, drained>>
    /\ UNCHANGED <<attached, desclen, idle, primed, utask, sampled, plays, pulled, broken>>

(* The transfers one by one; without memory for one, the stream stops. *)
PlayAlloc ==
    /\ ktask.at = "alloc"
    /\ \/ /\ xfer' = [xfer EXCEPT ![ktask.n] = "ours"]
          /\ idle' = [idle EXCEPT ![ktask.n] = TRUE]
          /\ ktask' = [ktask EXCEPT !.n = @ + 1, !.at = IF ktask.n + 1 = NXFER THEN "prime" ELSE "alloc"]
       \/ /\ KGoes("stop", "idle")
          /\ UNCHANGED <<xfer, idle>>
    /\ UNCHANGED <<attached, desclen, inflight, playing, priming, primed, pcm, phead, ptail, playitf, playep,
                   utask, stream, flags>>

PlayPrime ==
    /\ ktask.at = "prime"
    /\ priming' = TRUE /\ primed' = 0
    /\ KGoes("idle", "idle")
    /\ UNCHANGED <<attached, desclen, xfer, idle, inflight, playing, pcm, phead, ptail, playitf, playep,
                   utask, stream, flags>>

(* ringput: what fits is copied, and the counter moved after it. *)
RingRoom == RingSize - Filled
platform_usb_write ==
    /\ ktask.at = "idle" /\ playing /\ pcm # <<>> /\ sampled < Samples
    /\ IF RingRoom > 0 THEN /\ pcm' = [pcm EXCEPT ![AtPlace(phead)] = sampled + 1]
                            /\ ktask' = [ktask EXCEPT !.at = "publish", !.n = (phead + 1) % CtrMod]
                       ELSE UNCHANGED <<pcm, ktask>>
    /\ UNCHANGED <<attached, desclen, xfer, idle, inflight, playing, priming, primed, phead, ptail, playitf, playep,
                   utask, stream, flags>>

(* A ring half full ends the priming. *)
Publish ==
    /\ ktask.at = "publish"
    /\ phead' = ktask.n
    /\ written' = Append(written, sampled + 1) /\ sampled' = sampled + 1
    /\ priming' = (priming /\ (phead' - ptail) % CtrMod < RingSize \div 2)
    /\ KGoes("idle", "idle")
    /\ UNCHANGED <<attached, desclen, xfer, idle, inflight, playing, primed, pcm, ptail, playitf, playep,
                   utask, drained, plays, flags>>

UsbNext ==
    \/ /\ ~broken
       /\ \/ opened \/ Pull \/ DevGone \/ ctlcb \/ NoEvent \/ (\E i \in Xfers : played(i))
          \/ PumpPrime \/ PumpScan \/ refill \/ PumpBeat
          \/ platform_usb_play \/ platform_usb_stop \/ StopClears \/ StopFrees
          \/ Claim \/ setrate \/ PlayRing \/ PlayAlloc \/ PlayPrime
          \/ platform_usb_write \/ Publish

(* ---- properties ---- *)

(* While the device stays, a stream is never taken apart in use: a stop frees
   no transfer that is still out or that the pump is filling, though the pump
   may have read `playing' before the stop cleared it. *)
StopSafe == pulled \/ ~lost

(* While the device stays and a stream plays, what the pump has taken and what
   the ring holds are together what was written, in that order, also where the
   counters wrap. *)
PlayedInOrder == (~pulled /\ ~broken /\ pcm # <<>>) => drained \o InRing = written

(* A stream plays what was written and ends without a use of what is freed
   (ringput, ringget, playstop). *)
AudioSafe == StopSafe /\ PlayedInOrder
=============================================================================
