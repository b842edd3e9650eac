----------------------------- MODULE MCMachine -----------------------------
(* The parts of the kernel and its drivers that share no state with each other:
   the line tracer, the start of the cpus, the serial line, the input pumps, the
   transcript, the boot with what a proc may reach, what is read of a held proc,
   the requests of the block and 9p drivers, and the boards' screen, sound,
   radio and input.  Each behaviour is one of one of them. *)
EXTENDS Trace, Smp, Uart, Keyboard, KLog, Boot, Inspect,
        VirtioReq, Lcd, Usb, Wifi, EspInput, Ps2

CONSTANTS c1, c2

VARIABLE part

Kids == <<"a", "b">>
AskedBudgets == [red : {-1, 2}, mem : {-1, 0, 2}, ports : {0, 2}, expendable : {FALSE}]
                \cup {AsksNothing, [AsksNothing EXCEPT !.red = 9], [AsksNothing EXCEPT !.ports = -1],
                      [AsksNothing EXCEPT !.expendable = TRUE]}

(* Heaps of two tables below the globals and the registry, with cycles, and
   coroutines as keys and as values. *)
Entry(k, v) == [k |-> k, v |-> v]
Under == {<<>>, <<Entry("c1", "t2")>>} \cup {<<Entry("a", v)>> : v \in {"c2", "t1", "t2"}}
SmallHeaps ==
    [globals : {<<Entry("a", "t1"), Entry("b", "t2"), Entry("i", "c1")>>, <<Entry("a", "t2")>>},
     registry : {<<Entry("i", "globals"), Entry("c2", "t1")>>}, t1 : Under, t2 : Under]

Slot(n, v) == [name |-> n, v |-> v]
SmallStacks ==
    {<<[fn |-> "f", locals |-> <<Slot("a", "t1"), Slot("b", "n")>>,
        upvals |-> <<Slot("u", "globals"), Slot("w", "t2"), Slot("z", "n")>>]>>, <<>>}

Ask(root, n, path) == [root |-> root, name |-> n, path |-> path]
Questions == {Ask("global", "a", <<"a">>), Ask("global", "i", <<>>), Ask("local", "a", <<"a", "a">>),
         Ask("upval", "u", <<"i">>), Ask("upval", "q", <<>>), Ask("global", "a", <<"a", "a", "a">>)}

SlotCounts == [blk |-> 1, p9 |-> 2]
(* One on the glass, and one that ends beside it. *)
Drawn == {Rect(1, 0, 1, 3), Rect(1, 1, 2, 1)}
Near == {<<0, 0>>, <<2, 1>>}
TwoCells == <<"a", "b">>
Hand == {[keys |-> 2, touches |-> 2, edges |-> 0], [keys |-> 1, touches |-> 1, edges |-> 3]}
TwoWays == <<"up", "left">>
Mice == {[b |-> 0, dx |-> 1, dy |-> 0, dz |-> 0], [b |-> 1, dx |-> -1, dy |-> 1, dz |-> 2],
         [b |-> 4, dx |-> 0, dy |-> -1, dz |-> -1]}

(* What a part that is not the one in question is held at. *)
StillInspect ==
    /\ InspectInit /\ heap = (CHOOSE h \in Shapes : TRUE)
    /\ coros = <<Main>> /\ frames = (Main :> CHOOSE s \in Stacks : TRUE) /\ stopco = "none"
StillReq == VirtioInit /\ driver = "blk" /\ q.qsize = 2
StillLcd == LcdInit /\ copy = "none"
StillInput == InputInit /\ board = "matrix" /\ hand.edges = 0

Init ==
    /\ part \in {"trace", "smp", "uart", "keys", "log", "boot", "reads",
                "requests", "panel", "sound", "radio", "input", "mouse"}
    /\ TraceInit /\ SmpInit /\ UartInit /\ KbdInit /\ LogInit /\ BootInit
    /\ UsbInit /\ WifiInit /\ Ps2Init
    /\ part # "smp" => ~apic
    /\ part # "keys" => device = "console"
    /\ part # "boot" => topic = "spawn"
    /\ part # "mouse" => ps2wheel
    /\ IF part = "reads" THEN InspectInit ELSE StillInspect
    /\ IF part = "requests" THEN VirtioInit ELSE StillReq
    /\ IF part = "panel" THEN LcdInit ELSE StillLcd
    /\ IF part = "input" THEN InputInit ELSE StillInput

kernel_vars == <<trace_vars, smp_vars, uart_vars, kbd_vars, log_vars, boot_vars, inspect_vars>>
driver_vars == <<virtio_vars, lcd_vars, usb_vars, wifi_vars, input_vars, ps2_vars>>
all_vars == <<part, kernel_vars, driver_vars>>

Kernel ==
    \/ /\ part = "trace" /\ TraceNext
       /\ UNCHANGED <<smp_vars, uart_vars, kbd_vars, log_vars, boot_vars, inspect_vars>>
    \/ /\ part = "smp" /\ SmpNext
       /\ UNCHANGED <<trace_vars, uart_vars, kbd_vars, log_vars, boot_vars, inspect_vars>>
    \/ /\ part = "uart" /\ UartNext
       /\ UNCHANGED <<trace_vars, smp_vars, kbd_vars, log_vars, boot_vars, inspect_vars>>
    \/ /\ part = "keys" /\ KbdNext
       /\ UNCHANGED <<trace_vars, smp_vars, uart_vars, log_vars, boot_vars, inspect_vars>>
    \/ /\ part = "log" /\ LogNext
       /\ UNCHANGED <<trace_vars, smp_vars, uart_vars, kbd_vars, boot_vars, inspect_vars>>
    \/ /\ part = "boot" /\ BootNext
       /\ UNCHANGED <<trace_vars, smp_vars, uart_vars, kbd_vars, log_vars, inspect_vars>>
    \/ /\ part = "reads" /\ InspectNext
       /\ UNCHANGED <<trace_vars, smp_vars, uart_vars, kbd_vars, log_vars, boot_vars>>

Boards ==
    \/ /\ part = "requests" /\ VirtioNext
       /\ UNCHANGED <<lcd_vars, usb_vars, wifi_vars, input_vars, ps2_vars>>
    \/ /\ part = "panel" /\ LcdNext
       /\ UNCHANGED <<virtio_vars, usb_vars, wifi_vars, input_vars, ps2_vars>>
    \/ /\ part = "sound" /\ UsbNext
       /\ UNCHANGED <<virtio_vars, lcd_vars, wifi_vars, input_vars, ps2_vars>>
    \/ /\ part = "radio" /\ WifiNext
       /\ UNCHANGED <<virtio_vars, lcd_vars, usb_vars, input_vars, ps2_vars>>
    \/ /\ part = "input" /\ InputNext
       /\ UNCHANGED <<virtio_vars, lcd_vars, usb_vars, wifi_vars, ps2_vars>>
    \/ /\ part = "mouse" /\ Ps2Next
       /\ UNCHANGED <<virtio_vars, lcd_vars, usb_vars, wifi_vars, input_vars>>

Next ==
    /\ UNCHANGED part
    /\ \/ Kernel /\ UNCHANGED driver_vars
       \/ Boards /\ UNCHANGED kernel_vars

Spec == Init /\ [][Next]_all_vars

(* What the two rings of the kernel answer, the tracer's and the transcript's,
   is the end of what was put into them, though they wrap and move (trace_put,
   logput). *)
RingsExact == TraceIsTail /\ TranscriptExact

(* Input reaches its reader in order, each byte once and an escape whole,
   whoever drains the device and however full the ports are (uart_rx,
   pump_keyboard). *)
InputInOrder == LineInOrder /\ BytesKept /\ EscapeWhole

(* What the hand does reaches the kernel once and in the end: keys however they
   bounce, the finger on the panel, the ball's clicks and the mouse's
   (esp_kbd_read_raw, esp_touch_poll, esp_ball_take, ps2_read). *)
HandFollowed == NoRepeat /\ PointerSettles /\ BallExact /\ MouseExact
=============================================================================
