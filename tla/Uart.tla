-------------------------------- MODULE Uart --------------------------------
(***************************************************************************)
(* The serial line of src/platform/microvm/uart.c: a byte goes from the    *)
(* fifo into the ring, under a lock, by whichever cpu gets there: the boot *)
(* cpu in its interrupt handler, any cpu on run_proc's deadline.  The boot *)
(* cpu takes it out again for the wire (kernel.c's pump_serial) or, once   *)
(* the console has claimed the line, as a key (efi_shim.c).                *)
(***************************************************************************)
EXTENDS Integers, Sequences, SequencesExt

CONSTANTS Cpu, BootCpu,
          RXRING,     \* the ring's size; it holds one less
          Fifo,       \* the length of the hardware fifo
          Bytes       \* how many bytes arrive

ASSUME UartAssumption == BootCpu \in Cpu /\ RXRING \in Nat \ {0, 1} /\ Fifo \in Nat /\ Bytes \in Nat

VARIABLES fifo,      \* the hardware fifo
          arrived,   \* bytes so far: byte number b is the b-th
          rxring,    \* what is in the ring
          rxlk,      \* who holds the lock
          rx_irq_on, \* the interrupt is routed
          console_owns_input,
          ucpu,      \* what each cpu does here, and the byte in its hand
          batch,     \* the message pump_serial is putting together
          serport, keys   \* bytes sent on to the wire, and keys read

uart_vars == <<fifo, arrived, rxring, rxlk, rx_irq_on, console_owns_input, ucpu, batch, serport, keys>>

NoCpu == "none"
None == 0
Away == [at |-> "away", why |-> "", c |-> None]

UartInit ==
    /\ fifo = <<>> /\ arrived = 0 /\ rxring = <<>> /\ rxlk = NoCpu
    /\ rx_irq_on = FALSE /\ console_owns_input = FALSE
    /\ ucpu = [p \in Cpu |-> Away]
    /\ batch = <<>> /\ serport = <<>> /\ keys = <<>>

At(p, at) == ucpu' = [ucpu EXCEPT ![p].at = at]

(* A byte the fifo has no room for is gone. *)
Comes ==
    /\ arrived < Bytes
    /\ arrived' = arrived + 1
    /\ fifo' = IF Len(fifo) < Fifo THEN Append(fifo, arrived + 1) ELSE fifo
    /\ UNCHANGED <<rxring, rxlk, rx_irq_on, console_owns_input, ucpu, batch, serport, keys>>

uart_irq_enable ==
    /\ ~rx_irq_on /\ rx_irq_on' = TRUE
    /\ UNCHANGED <<fifo, arrived, rxring, rxlk, console_owns_input, ucpu, batch, serport, keys>>

(* The second uart_init clears the fifo and leaves the interrupt as it was. *)
uart_init ==
    /\ fifo' = <<>>
    /\ UNCHANGED <<arrived, rxring, rxlk, rx_irq_on, console_owns_input, ucpu, batch, serport, keys>>

cons_claim_input ==
    /\ ~console_owns_input /\ console_owns_input' = TRUE
    /\ UNCHANGED <<fifo, arrived, rxring, rxlk, rx_irq_on, ucpu, batch, serport, keys>>

-----------------------------------------------------------------------------
(* Into the ring and out of it.  From intr_save to intr_restore a cpu takes
   no interrupt, so the handler is never entered by the lock's holder. *)
Enters(p, why) ==
    /\ ucpu[p] = Away
    /\ ucpu' = [ucpu EXCEPT ![p] = [at |-> "lock", why |-> why, c |-> None]]

Same == UNCHANGED <<fifo, arrived, rxring, rxlk, rx_irq_on, console_owns_input, batch, serport, keys>>

uart_isr == fifo # <<>> /\ rx_irq_on /\ Enters(BootCpu, "isr") /\ Same
uart_poll(p) == fifo # <<>> /\ Enters(p, "poll") /\ Same

(* Each lap: for the wire until the console claims the line, as a key after. *)
Pumps == batch = <<>> /\ Enters(BootCpu, IF console_owns_input THEN "key" ELSE "wire") /\ Same

TakesAnyway(p) == TRUE

MayLock(p) == rxlk = NoCpu

Locks(p) ==
    /\ ucpu[p].at = "lock" /\ MayLock(p)
    /\ rxlk' = p
    /\ At(p, IF ucpu[p].why \in {"isr", "poll"} \/ (rxring = <<>> /\ ~rx_irq_on) THEN "drain" ELSE "take")
    /\ UNCHANGED <<fifo, arrived, rxring, rx_irq_on, console_owns_input, batch, serport, keys>>

(* uart_drain_locked: a byte out of the fifo, then into the ring; one that
   finds the ring full is dropped and ends the drain. *)
Reads(p) ==
    /\ ucpu[p].at = "drain"
    /\ IF fifo = <<>>
       THEN /\ At(p, IF ucpu[p].why \in {"isr", "poll"} THEN "unlock" ELSE "take")
            /\ UNCHANGED fifo
       ELSE /\ ucpu' = [ucpu EXCEPT ![p].at = "store", ![p].c = Head(fifo)]
            /\ fifo' = Tail(fifo)
    /\ UNCHANGED <<arrived, rxring, rxlk, rx_irq_on, console_owns_input, batch, serport, keys>>

Stores(p) ==
    /\ ucpu[p].at = "store"
    /\ IF Len(rxring) = RXRING - 1
       THEN /\ ucpu' = [ucpu EXCEPT ![p].at = IF ucpu[p].why \in {"isr", "poll"} THEN "unlock" ELSE "take", ![p].c = None]
            /\ UNCHANGED rxring
       ELSE /\ rxring' = Append(rxring, ucpu[p].c)
            /\ ucpu' = [ucpu EXCEPT ![p].at = "drain", ![p].c = None]
    /\ UNCHANGED <<fifo, arrived, rxlk, rx_irq_on, console_owns_input, batch, serport, keys>>

(* The rest of uart_rx. *)
uart_rx(p) ==
    /\ ucpu[p].at = "take"
    /\ rxring' = IF rxring = <<>> THEN rxring ELSE Tail(rxring)
    /\ ucpu' = [ucpu EXCEPT ![p].at = "unlock", ![p].c = IF rxring = <<>> THEN None ELSE Head(rxring)]
    /\ UNCHANGED <<fifo, arrived, rxlk, rx_irq_on, console_owns_input, batch, serport, keys>>

(* The lock goes; a pump for the wire goes on until there is no byte, then
   sends what it has. *)
Unlocks(p) ==
    /\ ucpu[p].at = "unlock"
    /\ rxlk' = NoCpu
    /\ LET u == ucpu[p] IN
       IF u.why = "wire" /\ u.c # None
       THEN /\ batch' = Append(batch, u.c)
            /\ ucpu' = [ucpu EXCEPT ![p] = [at |-> "lock", why |-> "wire", c |-> None]]
            /\ UNCHANGED <<serport, keys>>
       ELSE /\ serport' = serport \o batch
            /\ batch' = <<>>
            /\ keys' = IF u.why = "key" /\ u.c # None THEN Append(keys, u.c) ELSE keys
            /\ ucpu' = [ucpu EXCEPT ![p] = Away]
    /\ UNCHANGED <<fifo, arrived, rxring, rx_irq_on, console_owns_input>>

UartNext ==
    \/ Comes \/ uart_irq_enable \/ uart_init \/ cons_claim_input
    \/ uart_isr \/ Pumps
    \/ \E p \in Cpu : uart_poll(p) \/ Locks(p) \/ Reads(p) \/ Stores(p) \/ uart_rx(p) \/ Unlocks(p)

-----------------------------------------------------------------------------
(* Properties. *)

Rising(s) == \A j, k \in DOMAIN s : j < k => s[j] < s[k]

(* Whoever drains the fifo, bytes come out in the order they came in and none
   twice, those for the wire all before those read as keys; on one cpu or
   several, before the interrupt is routed and after. *)
LineInOrder == Rising(serport \o batch \o keys \o rxring \o fifo)
=============================================================================
