-------------------------------- MODULE Ps2 --------------------------------
(***************************************************************************)
(* The PS/2 mouse of a machine started by its firmware                    *)
(* (src/src/platform/efi/drivers.c: ps2_init, ps2_read).  The mouse queues *)
(* bytes, three or four to a packet; the kernel's loop drains them into a  *)
(* position, buttons and clicks of the wheel that it owes its reader.      *)
(***************************************************************************)
EXTENDS Integers, Sequences
LOCAL INSTANCE SequencesExt

CONSTANTS MousePackets,  \* the packets a mouse may send: [b, dx, dy, dz]
          MaxPackets,    \* packets sent
          FbW, FbH,      \* the screen
          MaxStray       \* bytes that go astray

VARIABLES ps2wheel,    \* four bytes a packet: the mouse knows the knock
          line,        \* bytes to read: [p, i], the i-th of packet p
          sentp,       \* ghost: the packets sent
          ps2pkt,      \* the bytes of a packet in the making
          ps2at,       \* [x, y]: accumulated
          ps2wq, ps2b,
          reading,     \* "no", "drain" or "out"
          travel,
          buttons,     \* ghost: the buttons of each record handed out
          rolled,      \* ghost: clicks handed out, down less up
          stray        \* bytes gone astray
ps2_vars == <<ps2wheel, line, sentp, ps2pkt, ps2at, ps2wq, ps2b, reading, travel, buttons, rolled, stray>>

Size == IF ps2wheel THEN 4 ELSE 3

(* ps2_init, and the middle of the screen at the first read. *)
Ps2Init ==
    /\ ps2wheel \in BOOLEAN
    /\ line = <<>> /\ sentp = <<>> /\ ps2pkt = <<>> /\ ps2wq = 0 /\ ps2b = 0
    /\ ps2at = [x |-> FbW \div 2, y |-> FbH \div 2]
    /\ reading = "no" /\ travel = FALSE /\ buttons = <<0>> /\ rolled = 0 /\ stray = 0

MouseSends(p) ==
    /\ Len(sentp) < MaxPackets
    /\ sentp' = Append(sentp, p)
    /\ line' = line \o [i \in 1 .. Size |-> [p |-> p, i |-> i]]
    /\ UNCHANGED <<ps2wheel, ps2pkt, ps2at, ps2wq, ps2b, reading, travel, buttons, rolled, stray>>

(* The firmware reads the same data port. *)
Astray ==
    /\ line # <<>> /\ stray < MaxStray
    /\ line' = Tail(line)
    /\ stray' = stray + 1
    /\ UNCHANGED <<ps2wheel, sentp, ps2pkt, ps2at, ps2wq, ps2b, reading, travel, buttons, rolled>>

Ps2Begins ==
    /\ reading = "no"
    /\ reading' = "drain"
    /\ travel' = FALSE
    /\ UNCHANGED <<ps2wheel, line, sentp, ps2pkt, ps2at, ps2wq, ps2b, buttons, rolled, stray>>

(* What a packet says.  One out of step is read as whatever its bytes make. *)
InStep(pkt) == pkt[1].i = 1
Says(pkt) == IF InStep(pkt) THEN {pkt[1].p} ELSE MousePackets
FirstBit(pkt) == IF InStep(pkt) THEN {TRUE} ELSE BOOLEAN

EndsDrain(b) == b # ps2b

TakesByte ==
    /\ reading = "drain" /\ line # <<>>
    /\ line' = Tail(line)
    /\ LET pkt == Append(ps2pkt, Head(line))
       IN  IF Len(pkt) < Size
           THEN ps2pkt' = pkt /\ UNCHANGED <<ps2at, ps2wq, ps2b, reading, travel>>
           ELSE /\ ps2pkt' = <<>>
                /\ \E bit \in FirstBit(pkt), m \in Says(pkt) :
                     IF ~bit THEN UNCHANGED <<ps2at, ps2wq, ps2b, reading, travel>>
                     ELSE /\ ps2at' = [x |-> ps2at.x + m.dx, y |-> ps2at.y - m.dy]
                          /\ ps2wq' = ps2wq + (IF ps2wheel THEN m.dz ELSE 0)
                          /\ travel' = TRUE
                          /\ ps2b' = m.b
                          /\ reading' = IF EndsDrain(m.b) THEN "out" ELSE "drain"
    /\ UNCHANGED <<ps2wheel, sentp, buttons, rolled, stray>>

Onto(v, n) == IF v < 0 THEN 0 ELSE IF v >= n THEN n - 1 ELSE v
Sign(n) == IF n < 0 THEN -1 ELSE IF n > 0 THEN 1 ELSE 0

Owes == ps2wq - Sign(ps2wq)

(* A history of buttons, without repetition. *)
Changed(history, b) == IF Last(history) = b THEN history ELSE Append(history, b)

(* The position is clamped, and one click goes with a record. *)
ps2_read ==
    /\ reading = "out" \/ (reading = "drain" /\ line = <<>>)
    /\ reading' = "no"
    /\ IF ~travel /\ ps2wq = 0 THEN UNCHANGED <<ps2at, ps2wq, buttons, rolled>>
       ELSE /\ ps2at' = [x |-> Onto(ps2at.x, FbW), y |-> Onto(ps2at.y, FbH)]
            /\ buttons' = Changed(buttons, ps2b)
            /\ rolled' = rolled + Sign(ps2wq)
            /\ ps2wq' = Owes
    /\ UNCHANGED <<ps2wheel, line, sentp, ps2pkt, ps2b, travel, stray>>

Ps2Next ==
    \/ (\E p \in MousePackets : MouseSends(p))
    \/ Astray \/ Ps2Begins \/ TakesByte \/ ps2_read

(* ---- properties ---- *)

(* Between reads, and while no byte went astray, the reader has had every change
   of the buttons among the packets read, in order and none merged with the
   next; and the clicks of the wheel it had and those it is owed are the ones
   that were turned (ps2_read). *)
Whole == SubSeq(sentp, 1, Len(sentp) - (Len(line) + Len(ps2pkt)) \div Size)
MouseExact ==
    (reading = "no" /\ stray = 0) =>
        /\ buttons = FoldLeft(LAMBDA h, p : Changed(h, p.b), <<0>>, Whole)
        /\ rolled + ps2wq = FoldLeft(LAMBDA n, p : n + (IF ps2wheel THEN p.dz ELSE 0), 0, Whole)

============================================================================
