------------------------------ MODULE Keyboard ------------------------------
(***************************************************************************)
(* The input pumps of kernel.c, run by the boot cpu every lap: the         *)
(* console's keys as one message a drain, held when the port is full; the  *)
(* panel's keyboard, which is not held; and the pointer, whose driver      *)
(* keeps the latest state.  A key is a byte, a key the firmware names by   *)
(* scan code (three bytes here), or one that stands for nothing.           *)
(***************************************************************************)
EXTENDS Integers, Sequences, SequencesExt

CONSTANTS Key,        \* keys that can be pressed
          KBDBATCH,   \* bytes in one message
          MAXQUEUE,   \* messages a port holds
          Presses     \* keys pressed at most, on each device

ASSUME KeyboardAssumption == KBDBATCH \in Nat \ {0, 1, 2} /\ MAXQUEUE \in Nat \ {0}

VARIABLES device,   \* which of the three is used
          source,   \* keys the firmware or the line holds
          pressed,  \* every key so far
          kbdheld,  \* the batch the console has not taken
          kbdport,  \* messages for the console
          read,     \* what the console has read
          panel,    \* keys of the panel, unread
          devkbd,   \* the panel's port, and what was read there
          ptr       \* the pointer: its state, if it moved, the port, the last record read

kbd_vars == <<device, source, pressed, kbdheld, kbdport, read, panel, devkbd, ptr>>

KbdInit ==
    /\ device \in {"console", "panel", "pointer"}
    /\ source = <<>> /\ pressed = <<>> /\ kbdheld = <<>> /\ kbdport = <<>> /\ read = <<>>
    /\ panel = [n |-> 0, keys |-> <<>>]
    /\ devkbd = [port |-> <<>>, read |-> <<>>]
    /\ ptr = [state |-> 0, moved |-> FALSE, port |-> <<>>, read |-> 0]

-----------------------------------------------------------------------------
(* What a key is to the reader: "a" any byte but NUL, which has the character
   of a key named by scan code.  Backspace, a scan code, is a byte too. *)
IsScan(k) == k \in {"up", "nul", "other"}

scancode_seq(k) == IF k = "up" THEN <<"esc", "[", "A">> ELSE <<>>

ByteOf(k) == IF k = "wide" THEN <<>> ELSE <<k>>

(* port_push, on the queue alone. *)
Full(port) == Len(port) >= MAXQUEUE

(* A drain in progress: what it has put together, what it has sent, whether
   the port turned out full. *)
kbdflush(d) ==
    IF Full(d.port) THEN [d EXCEPT !.held = d.msg, !.msg = <<>>, !.full = TRUE]
    ELSE [d EXCEPT !.port = Append(@, d.msg), !.msg = <<>>]

(* The whole sequence or none of it. *)

Escape(d, seq) ==
    LET f == IF Len(d.msg) + Len(seq) > KBDBATCH THEN kbdflush(d) ELSE d
    IN  IF f.full THEN f ELSE [f EXCEPT !.msg = @ \o seq]

Put(d, k) == IF IsScan(k) THEN (IF scancode_seq(k) = <<>> THEN d ELSE Escape(d, scancode_seq(k)))
             ELSE [d EXCEPT !.msg = @ \o ByteOf(k)]

OneKey(d, k) ==
    IF d.full THEN d
    ELSE LET f == Put([d EXCEPT !.took = @ + 1], k)
         IN  IF Len(f.msg) = KBDBATCH THEN kbdflush(f) ELSE f

Drained(port, ks) ==
    LET d == FoldLeft(OneKey, [msg |-> <<>>, port |-> port, held |-> <<>>, full |-> FALSE, took |-> 0], ks)
    IN  IF d.msg # <<>> THEN kbdflush(d) ELSE d

-----------------------------------------------------------------------------
Press(k) ==
    /\ device = "console" /\ Len(pressed) < Presses
    /\ source' = Append(source, k) /\ pressed' = Append(pressed, k)
    /\ UNCHANGED <<device, kbdheld, kbdport, read, panel, devkbd, ptr>>

(* The held batch first; while it does not fit nothing is read. *)

Holds == kbdheld # <<>> /\ Full(kbdport)

pump_keyboard ==
    /\ ~Holds /\ (kbdheld # <<>> \/ source # <<>>)
    /\ \E d \in {Drained(IF kbdheld = <<>> THEN kbdport ELSE Append(kbdport, kbdheld), source)} :
         /\ kbdport' = d.port /\ kbdheld' = d.held
         /\ source' = SubSeq(source, d.took + 1, Len(source))
    /\ UNCHANGED <<device, pressed, read, panel, devkbd, ptr>>

Console ==
    /\ kbdport # <<>>
    /\ read' = read \o Head(kbdport) /\ kbdport' = Tail(kbdport)
    /\ UNCHANGED <<device, source, pressed, kbdheld, panel, devkbd, ptr>>

(* The panel: all it has, up to a message, and lost if there is no room. *)
Types ==
    /\ device = "panel" /\ panel.n < Presses
    /\ panel' = [n |-> panel.n + 1, keys |-> Append(panel.keys, panel.n + 1)]
    /\ UNCHANGED <<device, source, pressed, kbdheld, kbdport, read, devkbd, ptr>>

pump_devkbd ==
    /\ panel.keys # <<>>
    /\ LET n == IF Len(panel.keys) > KBDBATCH THEN KBDBATCH ELSE Len(panel.keys) IN
       /\ panel' = [panel EXCEPT !.keys = SubSeq(@, n + 1, Len(@))]
       /\ devkbd' = IF Full(devkbd.port) THEN devkbd
                    ELSE [devkbd EXCEPT !.port = Append(@, SubSeq(panel.keys, 1, n))]
    /\ UNCHANGED <<device, source, pressed, kbdheld, kbdport, read, ptr>>

Panel ==
    /\ devkbd.port # <<>>
    /\ devkbd' = [port |-> Tail(devkbd.port), read |-> devkbd.read \o Head(devkbd.port)]
    /\ UNCHANGED <<device, source, pressed, kbdheld, kbdport, read, panel, ptr>>

Moves ==
    /\ device = "pointer" /\ ptr.state < Presses
    /\ ptr' = [ptr EXCEPT !.state = @ + 1, !.moved = TRUE]
    /\ UNCHANGED <<device, source, pressed, kbdheld, kbdport, read, panel, devkbd>>

pump_devptr ==
    /\ ptr.moved
    /\ ptr' = [ptr EXCEPT !.moved = FALSE, !.port = IF Full(@) THEN @ ELSE Append(@, ptr.state)]
    /\ UNCHANGED <<device, source, pressed, kbdheld, kbdport, read, panel, devkbd>>

Points ==
    /\ ptr.port # <<>>
    /\ ptr' = [ptr EXCEPT !.port = Tail(@), !.read = Head(ptr.port)]
    /\ UNCHANGED <<device, source, pressed, kbdheld, kbdport, read, panel, devkbd>>

KbdNext ==
    \/ \E k \in Key : Press(k)
    \/ pump_keyboard \/ Console \/ Types \/ pump_devkbd \/ Panel \/ Moves \/ pump_devptr \/ Points

-----------------------------------------------------------------------------
(* Properties. *)

Sent == read \o FoldLeft(LAMBDA a, b : a \o b, <<>>, kbdport) \o kbdheld

Letters(s) == SelectSeq(s, LAMBDA k : k \in {"a", "nul"})

(* The bytes of the keys taken so far, in order, however often the port was
   full in between: a full port holds the sender up and loses none of them. *)
BytesKept ==
    Letters(Sent) = Letters(SubSeq(pressed, 1, Len(pressed) - Len(source)))

(* An escape is three bytes of one message or none: an arrow is never read
   as Escape and a letter. *)
EscapeWhole ==
    \A m \in {kbdport[i] : i \in DOMAIN kbdport} \cup {kbdheld} :
        \A i \in DOMAIN m :
            /\ m[i] = "esc" => i + 2 <= Len(m) /\ m[i + 1] = "[" /\ m[i + 2] = "A"
            /\ m[i] = "A" => i > 2 /\ m[i - 2] = "esc"
=============================================================================
