------------------------------ MODULE EspInput -----------------------------
(***************************************************************************)
(* The keyboards, touch panel and trackball of the esp32 boards           *)
(* (src/src/platform/esp32/kbd.c, touch.c, ball.c), scanned while the      *)
(* machine waits.  The Cardputer's matrix is read one scan a Turn and debounced in *)
(* time; the T-Deck's keyboard and panel raise a flag from an interrupt    *)
(* and are read over i2c, with a backstop for an edge that never came; its *)
(* ball's edges are counted by an interrupt.                               *)
(***************************************************************************)
EXTENDS Integers, Sequences, FiniteSets

CONSTANTS Cells2,       \* character cells of the matrix, in scan order
          KeySlots,     \* the ring's slots: 16
          ReleaseScans, \* scans within RELEASE_US: 20 ms of 8 ms turns
          Hands,        \* what the hand does, in all: [keys, touches, edges]
          panw, panh,   \* the panel, portrait
          scrw, scrh,   \* the screen, landscape
          Dirs,         \* the ball's directions, in the order they are looked at
          TB_THRESHOLD  \* edges to a click

VARIABLES board,     \* "matrix" or "tdeck"
          hand,      \* what it does
          finger,    \* the cells really held down, SHIFT among them
          open,      \* how long each has read open though held, in scans
          last,      \* last_x, last_y: the latched cell, or "none"
          since,     \* scans since it last read down
          fresh,     \* ghost: cells let go since they were last reported, or that had company
          repeated,  \* ghost: a key held alone was reported twice
          kring,     \* the keys found and not read
          presses,
          c3,        \* the T-Deck keyboard's byte, 0 for none
          kpending, tpending,   \* raised by the pins
          real,      \* the finger on the panel: [down, x, y]
          frame,     \* the panel's frame: [ready, what]
          reported,      \* what the panel reported last
          touch,     \* curx, cury, curdown
          dirty,
          pointer,       \* what the kernel was last given
          missed,    \* a point could not be read
          moves,
          edges,     \* upn, downn, leftn, rightn
          sub,       \* the subtraction under way: direction and value loaded
          struck,   \* the ball is really held down
          held,
          spun,      \* ghost: edges that came, in each direction
          clicks,    \* ghost: clicks handed out
          overrun       \* ghost: edges counted and then overwritten
key_vars == <<finger, open, last, since, fresh, repeated, presses, c3, kpending>>
touch_vars == <<tpending, real, frame, reported, touch, dirty, pointer, missed, moves>>
ball_vars == <<edges, sub, struck, held, spun, clicks, overrun>>
input_vars == <<board, hand, kring, key_vars, touch_vars, ball_vars>>

Matrix == {Cells2[i] : i \in DOMAIN Cells2}
Shift == "shift"
Lifted == [down |-> FALSE, x |-> 0, y |-> 0]

NoEdges == [d \in {Dirs[i] : i \in DOMAIN Dirs} |-> 0]

InputInit ==
    /\ board \in {"matrix", "tdeck"} /\ hand \in Hands
    /\ finger = {} /\ open = [k \in Matrix \cup {Shift} |-> 0]
    /\ last = "none" /\ since = 0 /\ fresh = Matrix /\ repeated = FALSE /\ kring = <<>> /\ presses = 0
    /\ c3 = 0 /\ kpending = FALSE /\ tpending = FALSE
    /\ real = Lifted /\ frame = [ready |-> FALSE, what |-> Lifted] /\ reported = Lifted
    /\ touch = Lifted /\ dirty = FALSE /\ pointer = Lifted /\ missed = FALSE /\ moves = 0
    /\ edges = NoEdges /\ spun = NoEdges /\ clicks = NoEdges /\ overrun = NoEdges
    /\ sub = <<>> /\ struck = FALSE /\ held = FALSE

(* A key found goes in the ring, or is dropped when nobody drains it. *)
Found(c) == kring' = IF Len(kring) < KeySlots - 1 THEN Append(kring, c) ELSE kring

esp_kbd_read ==
    /\ kring # <<>>
    /\ kring' = Tail(kring)
    /\ UNCHANGED <<board, hand, key_vars, touch_vars, ball_vars>>

(* ---- the matrix ---- *)

(* A key that had another beside it may be reported again. *)
Crowded(set) == IF Cardinality(set \cap Matrix) > 1 THEN set ELSE {}

KeyDown(k) ==
    /\ board = "matrix" /\ k \notin finger /\ presses < hand.keys
    /\ presses' = presses + 1
    /\ finger' = finger \cup {k}
    /\ fresh' = fresh \cup Crowded(finger')
    /\ open' = [open EXCEPT ![k] = 0]
    /\ UNCHANGED <<board, hand, last, since, repeated, kring, c3, kpending, touch_vars, ball_vars>>

Release(k) ==
    /\ k \in finger
    /\ finger' = finger \ {k}
    /\ fresh' = fresh \cup {k}
    /\ UNCHANGED <<board, hand, open, last, since, repeated, kring, presses, c3, kpending, touch_vars, ball_vars>>

(* A scan reads the cells held down, but for contacts that bounce: for less
   than the release time at a stretch. *)
Scans == {seen \in SUBSET finger : \A k \in finger \ seen : open[k] + 1 < ReleaseScans}

(* The first cell with a character; a shifted one has another. *)
Visible(seen) == SelectSeq(Cells2, LAMBDA k : k \in seen)

(* The latch opens only when the cell has not been seen for the release time. *)
ReleasedAtOnce(scans) == TRUE
Released(scans) == scans >= ReleaseScans
Latch(seen, age) == IF last \notin seen /\ Released(age) THEN "none" ELSE last

esp_kbd_read_raw ==
    /\ board = "matrix"
    /\ \E seen \in Scans :
         LET still == last \in seen
             age  == IF still THEN 0 ELSE IF since < ReleaseScans THEN since + 1 ELSE since
             key  == IF Visible(seen) = <<>> THEN "none" ELSE Head(Visible(seen))
         IN  /\ open' = [k \in DOMAIN open |-> IF k \in finger \ seen THEN open[k] + 1 ELSE 0]
             /\ IF key = "none"
                  THEN /\ last' = Latch(seen, age) /\ since' = age
                       /\ UNCHANGED <<fresh, repeated, kring>>
                ELSE IF key = last \/ still
                  THEN since' = age /\ UNCHANGED <<last, fresh, repeated, kring>>
                ELSE /\ last' = key /\ since' = 0
                     /\ Found(IF Shift \in seen THEN <<key, "up">> ELSE <<key, "low">>)
                     /\ repeated' = (repeated \/ key \notin fresh)
                     /\ fresh' = (fresh \ {key}) \cup Crowded(finger)
    /\ UNCHANGED <<board, hand, finger, presses, c3, kpending, touch_vars, ball_vars>>

(* ---- the T-Deck's keyboard ---- *)

(* Its controller has a byte and raises the pin; an edge may be missed. *)
Strikes ==
    /\ board = "tdeck" /\ c3 = 0 /\ presses < hand.keys
    /\ presses' = presses + 1
    /\ c3' \in {3, 12}
    /\ kpending' \in BOOLEAN
    /\ UNCHANGED <<board, hand, finger, open, last, since, fresh, repeated, kring, touch_vars, ball_vars>>

(* The flag goes before the read.  Alt+C's form feed becomes the interrupt. *)
esp_kbd_poll ==
    /\ board = "tdeck" /\ (kpending \/ c3 # 0)
    /\ kpending' = FALSE
    /\ \/ UNCHANGED <<c3, kring>>
       \/ c3 # 0 /\ c3' = 0 /\ Found(IF c3 = 12 THEN 3 ELSE c3)
    /\ UNCHANGED <<board, hand, finger, open, last, since, fresh, repeated, presses, touch_vars, ball_vars>>

(* ---- the panel ---- *)

Touches ==
    /\ board = "tdeck" /\ moves < hand.touches
    /\ moves' = moves + 1
    /\ real' \in {Lifted} \cup {[down |-> TRUE, x |-> x, y |-> y] : x \in {0, panw - 1}, y \in {0, panh - 1}}
    /\ UNCHANGED <<board, hand, kring, key_vars, ball_vars, tpending, frame, reported, touch, dirty, pointer, missed>>

(* The controller puts a frame up once the last one was acknowledged. *)
Reports ==
    /\ ~frame.ready /\ reported # real
    /\ frame' = [ready |-> TRUE, what |-> real]
    /\ reported' = real
    /\ tpending' \in {tpending, TRUE}
    /\ UNCHANGED <<board, hand, kring, key_vars, ball_vars, real, touch, dirty, pointer, missed, moves>>

(* The glass is portrait under a landscape screen: the axes trade places and
   one counts backwards. *)
to_screen(p) == [down |-> TRUE, x |-> (p.y * scrw) \div panh, y |-> ((panw - 1 - p.x) * scrh) \div panw]

(* What a frame changes: a finger that came or moved, or one that left.  A
   point that cannot be read is a finger that left. *)
Changes(new) == IF new.down THEN new # touch ELSE touch.down
Noted(new) == IF new.down THEN new ELSE [touch EXCEPT !.down = FALSE]

(* The flag goes before the read, and a frame is acknowledged whatever
   happened; by the pin, or by the backstop. *)
esp_touch_poll ==
    /\ board = "tdeck" /\ (tpending \/ frame.ready)
    /\ tpending' = FALSE
    /\ \/ UNCHANGED <<frame, touch, dirty, missed>>
       \/ /\ frame.ready
          /\ \E read \in BOOLEAN :
                LET new == IF frame.what.down /\ read THEN to_screen(frame.what) ELSE Lifted
                IN  /\ touch' = Noted(new)
                    /\ dirty' = (dirty \/ Changes(new))
                    /\ missed' = (frame.what.down /\ ~read)
          /\ frame' = [frame EXCEPT !.ready = FALSE]
    /\ UNCHANGED <<board, hand, kring, key_vars, ball_vars, real, reported, pointer, moves>>

(* ---- the ball ---- *)

(* A falling edge, which may come at any instruction of the kernel's task. *)
ball_isr(d) ==
    /\ board = "tdeck" /\ spun[d] < hand.edges
    /\ edges' = [edges EXCEPT ![d] = @ + 1]
    /\ spun' = [spun EXCEPT ![d] = @ + 1]
    /\ UNCHANGED <<board, hand, kring, key_vars, touch_vars, sub, struck, held, clicks, overrun>>

BallPressed ==
    /\ board = "tdeck" /\ presses < hand.keys
    /\ presses' = presses + 1
    /\ struck' = ~struck
    /\ UNCHANGED <<board, hand, kring, finger, open, last, since, fresh, repeated, c3, kpending, touch_vars,
                   edges, sub, held, spun, clicks, overrun>>

(* A record of the ball's carries the pointer's place: scrolling happens
   somewhere.  It leaves what the panel has to say. *)
esp_touch_state ==
    /\ pointer' = touch
    /\ UNCHANGED <<tpending, real, frame, reported, touch, dirty, missed, moves>>

Spinning == SelectSeq(Dirs, LAMBDA d : edges[d] >= TB_THRESHOLD)

(* The press first, then a click of the first direction that has one.  The
   count is loaded and stored, and an edge between the two is overwritten. *)
BallPress ==
    /\ sub = <<>> /\ struck # held
    /\ held' = struck
    /\ esp_touch_state
    /\ UNCHANGED <<board, hand, kring, key_vars, edges, sub, struck, spun, clicks, overrun>>

Loads1 ==
    /\ sub = <<>> /\ struck = held /\ Spinning # <<>>
    /\ sub' = <<Head(Spinning), edges[Head(Spinning)]>>
    /\ UNCHANGED <<board, hand, kring, key_vars, touch_vars, edges, struck, held, spun, clicks, overrun>>

AfterClick(loaded) == loaded - TB_THRESHOLD

Keeps ==
    /\ sub # <<>>
    /\ edges' = [edges EXCEPT ![sub[1]] = AfterClick(sub[2])]
    /\ overrun' = [overrun EXCEPT ![sub[1]] = @ + edges[sub[1]] - sub[2]]
    /\ clicks' = [clicks EXCEPT ![sub[1]] = @ + 1]
    /\ sub' = <<>>
    /\ esp_touch_state
    /\ UNCHANGED <<board, hand, kring, key_vars, struck, held, spun>>

(* The panel, when the ball has nothing. *)
esp_touch_take ==
    /\ sub = <<>> /\ struck = held /\ Spinning = <<>>
    /\ dirty
    /\ dirty' = FALSE
    /\ pointer' = touch
    /\ UNCHANGED <<board, hand, kring, key_vars, ball_vars, tpending, real, frame, reported, touch, missed, moves>>

InputNext ==
    \/ esp_kbd_read \/ esp_kbd_read_raw \/ Strikes \/ esp_kbd_poll
    \/ (\E k \in Matrix \cup {Shift} : KeyDown(k) \/ Release(k))
    \/ Touches \/ Reports \/ esp_touch_poll \/ esp_touch_take
    \/ (\E d \in DOMAIN edges : ball_isr(d))
    \/ BallPressed \/ BallPress \/ Loads1 \/ Keeps

(* ---- properties ---- *)

(* A held key does not repeat: a key struck alone is reported once until it is
   let go, however its contacts bounce. *)
NoRepeat == ~repeated

(* The pointer settles where the finger is: once the panel has nothing more to
   say and its last point was read, the kernel has been given, or is about to
   be, the finger's place on the screen. *)
Where(p) == IF p.down THEN to_screen(p) ELSE Lifted
Alike(a, b) == a.down = b.down /\ (a.down => a = b)
PointerSettles ==
    (~frame.ready /\ reported = real /\ ~missed) =>
        /\ Alike(touch, Where(real))
        /\ dirty \/ Alike(pointer, Where(real))

(* A spin is handed out click by click: every edge is in a click, still counted,
   or was overwritten by the subtraction it fell into; no click is made of
   edges that did not come (ball_isr, esp_ball_take). *)
BallExact ==
    \A d \in DOMAIN edges : clicks[d] * TB_THRESHOLD + edges[d] + overrun[d] = spun[d]

=============================================================================
