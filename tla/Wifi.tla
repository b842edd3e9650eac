-------------------------------- MODULE Wifi -------------------------------
(***************************************************************************)
(* The esp32's radio (src/src/platform/esp32/wifi.c).  The kernel's task   *)
(* joins, leaves, scans, sends and receives; the driver answers later, by *)
(* events on a task of its own and by frames on the radio's.  The driver     *)
(* is external, known by what the code asks of it.                         *)
(***************************************************************************)
EXTENDS Integers, Sequences

CONSTANTS NSLOT, MaxFrames,
          MaxCalls,    \* what the kernel asks, in all
          Breaks       \* times the network goes away by itself

VARIABLES up, loop,      \* the radio runs; the event loop exists
          join, rx,     \* "idle", "joining", "joined", "failed"; the receive callback is registered
          scanning, scandone,
          events,        \* events the driver has posted and onwifi has not seen
          radio,        \* external: [link, scan]: the station's link; the scan running
          ring, rhead, rtail, drops, irqs,
          heard, got,  \* frames given to rxframe and not dropped, frames handed to eth
          asked, broke,
          airframes,     \* frames the air brought
          begun, collected,  \* scans started, and the one whose records were read last
          rejoined       \* a join was asked for while linked
wifi_vars == <<up, loop, join, rx, scanning, scandone, events, radio, ring, rhead, rtail, drops, irqs,
               heard, got, asked, broke, airframes, begun, collected, rejoined>>
frame_vars == <<ring, rhead, rtail, drops, irqs, heard, got, airframes>>
scan_vars == <<scanning, scandone, begun, collected>>

WifiInit ==
    /\ up = FALSE /\ loop = FALSE /\ join = "idle" /\ rx = FALSE /\ scanning = FALSE /\ scandone = FALSE
    /\ events = <<>> /\ radio = [link |-> "none", scan |-> FALSE]
    /\ ring = [i \in 0 .. NSLOT - 1 |-> 0] /\ rhead = 0 /\ rtail = 0 /\ drops = 0 /\ irqs = 0
    /\ heard = <<>> /\ got = <<>> /\ asked = 0 /\ broke = 0 /\ airframes = 0
    /\ begun = 0 /\ collected = 0 /\ rejoined = FALSE

MayCall == asked < MaxCalls /\ asked' = asked + 1

(* ---- the driver ---- *)

Post(e) == events' = Append(events, e)

(* A join ends in a link or in a refusal. *)
Associates ==
    /\ radio.link = "trying"
    /\ \E ok \in BOOLEAN :
          /\ radio' = [radio EXCEPT !.link = IF ok THEN "linked" ELSE "none"]
          /\ Post(IF ok THEN "connected" ELSE "disconnected")
    /\ UNCHANGED <<up, loop, join, rx, scan_vars, frame_vars, asked, broke, rejoined>>

(* The network goes away. *)
LinkLost ==
    /\ radio.link = "linked" /\ broke < Breaks
    /\ broke' = broke + 1
    /\ radio' = [radio EXCEPT !.link = "none"]
    /\ Post("disconnected")
    /\ UNCHANGED <<up, loop, join, rx, scan_vars, frame_vars, asked, rejoined>>

ScanEnds ==
    /\ radio.scan
    /\ radio' = [radio EXCEPT !.scan = FALSE]
    /\ Post("scandone")
    /\ UNCHANGED <<up, loop, join, rx, scan_vars, frame_vars, asked, broke, rejoined>>

(* rxframe, on the radio's task: a slot, or a counted drop. *)
Next1(i) == (i + 1) % NSLOT
RingFull == Next1(rhead) = rtail

rxframe ==
    /\ rx /\ radio.link = "linked" /\ airframes < MaxFrames
    /\ airframes' = airframes + 1
    /\ IF RingFull
         THEN drops' = drops + 1 /\ UNCHANGED <<ring, rhead, irqs, heard>>
         ELSE /\ ring' = [ring EXCEPT ![rhead] = airframes + 1]
              /\ rhead' = Next1(rhead)
              /\ irqs' = irqs + 1
              /\ heard' = Append(heard, airframes + 1)
              /\ UNCHANGED drops
    /\ UNCHANGED <<up, loop, join, rx, scan_vars, events, radio, rtail, got, asked, broke, rejoined>>

(* ---- the event task ---- *)

(* A refusal is told from a network that went away by the state it finds. *)
StaysJoined == IF join = "joining" THEN "failed" ELSE join
Disconnected == IF join = "joining" THEN "failed" ELSE "idle"

onwifi ==
    /\ events # <<>>
    /\ events' = Tail(events)
    /\ \/ /\ Head(events) = "connected"
          /\ join' = "joined" /\ rx' = TRUE
          /\ UNCHANGED scandone
       \/ /\ Head(events) = "disconnected"
          /\ join' = Disconnected /\ rx' = FALSE
          /\ UNCHANGED scandone
       \/ /\ Head(events) = "scandone"
          /\ scandone' = TRUE
          /\ UNCHANGED <<join, rx>>
    /\ UNCHANGED <<up, loop, scanning, begun, collected, radio, frame_vars, asked, broke, rejoined>>

(* ---- the kernel's task ---- *)

(* The steps before the event loop may fail and be tried again; once the loop
   exists, creating it again fails, so a later failure is for good. *)
esp_wifi_bringup ==
    /\ ~up /\ MayCall
    /\ \/ UNCHANGED <<up, loop>>
       \/ ~loop /\ loop' = TRUE /\ up' \in BOOLEAN
    /\ UNCHANGED <<join, rx, scan_vars, events, radio, frame_vars, broke, rejoined>>

(* JOINING before the driver is asked: its answer may be the next thing that
   happens. *)
Joins(link) == IF link = "none" THEN "trying" ELSE link

esp_wifi_connect_to ==
    /\ up /\ MayCall
    /\ \/ join' = "joining" /\ radio' = [radio EXCEPT !.link = Joins(@)]
       \/ join' = "failed" /\ UNCHANGED radio
    /\ rejoined' = (rejoined \/ radio.link # "none")
    /\ UNCHANGED <<up, loop, rx, scan_vars, events, frame_vars, broke>>

esp_wifi_disconnect_from ==
    /\ up /\ MayCall
    /\ join' = "idle"
    /\ radio' = [radio EXCEPT !.link = "none"]
    /\ IF radio.link = "none" THEN UNCHANGED events ELSE Post("disconnected")
    /\ UNCHANGED <<up, loop, rx, scan_vars, frame_vars, broke, rejoined>>

(* The flag is cleared and the scan started; the driver may refuse. *)
esp_wifi_scan_begin ==
    /\ up /\ MayCall /\ ~scanning
    /\ scandone' = FALSE
    /\ \/ /\ ~radio.scan /\ radio' = [radio EXCEPT !.scan = TRUE]
          /\ scanning' = TRUE /\ begun' = begun + 1
       \/ UNCHANGED <<radio, scanning, begun>>
    /\ UNCHANGED <<up, loop, join, rx, events, frame_vars, broke, collected, rejoined>>

(* Both flags go before the records are read, so a failure ends this scan. *)
esp_wifi_scan_take ==
    /\ scanning /\ scandone
    /\ scanning' = FALSE /\ scandone' = FALSE
    /\ collected' = begun
    /\ UNCHANGED <<up, loop, join, rx, begun, events, radio, frame_vars, asked, broke, rejoined>>

esp_wifi_recv_frame ==
    /\ rtail # rhead
    /\ got' = Append(got, ring[rtail])
    /\ rtail' = Next1(rtail)
    /\ UNCHANGED <<up, loop, join, rx, scan_vars, events, radio, ring, rhead, drops, irqs, heard, airframes, asked, broke, rejoined>>

WifiNext ==
    \/ Associates \/ LinkLost \/ ScanEnds \/ rxframe \/ onwifi
    \/ esp_wifi_bringup \/ esp_wifi_connect_to \/ esp_wifi_disconnect_from
    \/ esp_wifi_scan_begin \/ esp_wifi_scan_take \/ esp_wifi_recv_frame

(* ---- properties ---- *)

(* Whatever the order in which calls and events meet, once every event has been
   seen the kernel knows what the driver knows: it says joined exactly when
   there is a link (unless it asked for another while linked), frames are taken
   exactly then, and a scan that ended can be collected. *)
RadioTold ==
    events = <<>> =>
        /\ rx = (radio.link = "linked")
        /\ join = "joined" => radio.link = "linked"
        /\ (radio.link = "linked" /\ ~rejoined) => join = "joined"
        /\ (scanning /\ ~radio.scan) => scandone

(* Frames leave the ring in the order they came, and only dropped ones are
   missing. *)
FramesKept ==
    heard = got \o [k \in 1 .. (rhead - rtail) % NSLOT |-> ring[(rtail + k - 1) % NSLOT]]

(* What the kernel is told of the radio, in state and in frames, is what
   happened (onwifi, rxframe). *)
RadioExact == RadioTold /\ FramesKept
=============================================================================
