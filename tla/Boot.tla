-------------------------------- MODULE Boot --------------------------------
(***************************************************************************)
(* What a proc may reach: the boot sequence of kernel.c that starts one    *)
(* task for each device and hands the boot proc a right to each, the       *)
(* modules proc_new gives a proc and the ones it takes away, the budgets   *)
(* sys.spawn passes on, and the handles a proc keeps its rights under.     *)
(* Boot holds the ipc lock throughout and nothing else runs, so it is one  *)
(* action.                                                                 *)
(***************************************************************************)
EXTENDS Integers, Sequences, SequencesExt, FiniteSets

CONSTANTS Asked,       \* budgets a spawn may ask for
          Child,       \* children, in the order they are spawned
          MAXRIGHTS,
          NewPorts     \* ports made, handles closed and rights passed on after boot, at most

ASSUME BootAssumption == MAXRIGHTS \in Nat \ {0} /\ NewPorts \in Nat

VARIABLES have,     \* the devices the probes found
          proc,     \* every proc: its modules, its right table and its budgets
          grants,   \* the boot proc's named handles
          guard,    \* the boot proc's sys.owned value
          closed,   \* handles the boot proc has closed
          did,      \* the gated call carried out last, and by whom
          passed,   \* the bare ports the boot proc has given to a child
          made,     \* ports made so far
          parent,   \* who spawned each child
          topic     \* what is explored after boot

boot_vars == <<have, proc, grants, guard, closed, did, passed, made, parent, topic>>

Nothing == <<"none">>
NoGuard == [h |-> -1, of |-> Nothing]

(* What the probes of each platform may find. *)
efi_have == {{"wire", "esp"} \cup S : S \in SUBSET {"blk", "eth", "fb", "ptr"}}
microvm_have == {{"wire"} \cup S : S \in SUBSET {"p9", "eth", "blk"}}
esp32_have == SUBSET {"eth", "hci", "lora", "flash", "fb", "kbd", "ptr", "gps"}
hosted_have ==
    {{"tcp", "udp"} \cup S \cup w : S \in SUBSET {"esp", "blk", "gps"}, w \in {{}, {"fb", "kbd", "ptr"}}}
wasm_have == {{"ws"} \cup S \cup w : S \in SUBSET {"blk"}, w \in {{}, {"fb", "kbd", "ptr"}}}

Machines == efi_have \cup microvm_have \cup esp32_have \cup hosted_have \cup wasm_have

(* The driver table: the capability's name, the privileges of its task, and
   the port the kernel feeds the task, if any. *)
Row(name, priv, port) == [name |-> name, priv |-> priv, port |-> port]

Device(name) == Row(name, {name}, <<"dev", name>>)
Portless(name, priv) == Row(name, priv, Nothing)

Drivers == <<
    Device("cons"), Device("wire"), Row("esp", {"esp"}, <<"bare", "disk">>),
    Portless("power", {"power"}), Portless("p9", {"p9"}), Portless("blk", {"blk"}),
    Portless("flash", {"flash", "blk"}), Device("eth"), Device("hci"), Device("gps"),
    Device("tcp"), Device("udp"), Portless("ws", {"ws"}), Portless("fb", {"fb"}), Portless("lora", {"lora"})>>

Enabled(d) == d.name \in have \cup {"cons", "power"}

Bare == <<"disk", "sched", "time", "dbg">>

SelfPort(p) == <<"self", p>>

-----------------------------------------------------------------------------
(* A proc. *)

(* right_new: the first free slot from the hint up. *)
FreeFrom(p) == {h \in p.hint .. MAXRIGHTS - 1 : p.right[h] = Nothing}

right_new(p, port) ==
    IF FreeFrom(p) = {} THEN p
    ELSE LET h == CHOOSE h \in FreeFrom(p) : \A g \in FreeFrom(p) : h <= g
         IN  [p EXCEPT !.right[h] = port, !.hint = h + 1]

(* The modules every proc finds in package.preload: they reach nothing that is
   not handed to them, or check a right at each call. *)
Everyone ==
    {"sys", "efi", "dbg", "thread", "dev", "chan", "inet", "ninep", "crc", "rom", "font", "buf",
     "crypto", "gefs", "adpcm", "pcm"}

(* The modules of package.preload that are not for everyone. *)

Modules(priv) ==
    (priv \ {"boot", "esp"})
    \cup (IF priv \cap {"esp", "boot"} # {} THEN {"fs"} ELSE {})
    \cup (IF "eth" \in priv THEN {"wifi"} ELSE {})

(* The file half of io, loadfile, dofile, bytecode: gone but for the boot proc. *)
confine_proc(priv) == IF "boot" \in priv THEN {"files", "bytecode"} ELSE {}

proc_new(name, priv, budget) ==
    right_new([modules |-> Everyone \cup Modules(priv), ambient |-> confine_proc(priv), budget |-> budget,
               right |-> [h \in 0 .. MAXRIGHTS - 1 |-> Nothing], hint |-> 0], SelfPort(name))

(* Nothing is set for a proc the kernel starts: 0 is no limit. *)
NoBudget == [red |-> 3, mem |-> 0, ports |-> 0, expendable |-> FALSE]

-----------------------------------------------------------------------------
(* Boot. *)

spawn_driver(d) ==
    LET p == proc_new(d.name, d.priv, NoBudget)
    IN  IF d.port = Nothing THEN p ELSE right_new(p, d.port)

grant_named(r, g) ==
    LET p == right_new(r.p, g.port)
    IN  IF FreeFrom(r.p) = {} THEN r
        ELSE [p |-> p, grants |-> Append(r.grants, [name |-> g.name, h |-> p.hint - 1])]

(* What init is granted: a right to each task that started, the input ports
   the machine has, and the bare ports. *)
GrantsDense(up) ==
    LET ups == SelectSeq(Drivers, LAMBDA d : d.name \in up)
    IN  [i \in 1 .. Len(ups) |-> [name |-> Drivers[i].name, port |-> SelfPort(ups[i].name)]]

GrantsUp(up) ==
    LET ups == SelectSeq(Drivers, LAMBDA d : d.name \in up)
    IN  [i \in 1 .. Len(ups) |-> [name |-> ups[i].name, port |-> SelfPort(ups[i].name)]]

Granted(up) ==
    GrantsUp(up)
    \o SelectSeq(<<[name |-> "kbd", port |-> <<"dev", "kbd">>], [name |-> "ptr", port |-> <<"dev", "ptr">>]>>,
                 LAMBDA g : g.name \in have)
    \o [i \in DOMAIN Bare |-> [name |-> Bare[i], port |-> <<"bare", Bare[i]>>]]

BootInit ==
    /\ \/ topic = "boot" /\ have \in Machines
       \/ topic \in {"spawn", "gates", "handles"} /\ have = {"esp"}
    /\ proc = <<>> /\ grants = <<>>
    /\ guard = NoGuard /\ closed = {} /\ did = {} /\ passed = {} /\ made = 0 /\ parent = <<>>

(* A task that does not start is warned about and left out. *)
spawn_init ==
    /\ proc = <<>>
    /\ LET on == {d \in Range(Drivers) : Enabled(d)} IN
       \E failed \in SUBSET {d.name : d \in on} :
         /\ Cardinality(failed) <= 1
         /\ \E up \in {{d.name : d \in on} \ failed} :
            \E r \in {FoldLeft(grant_named, [p |-> proc_new("init", {"boot"}, NoBudget), grants |-> <<>>], Granted(up))} :
              /\ grants' = r.grants
              /\ proc' = [n \in up \cup {"init"} |->
                            IF n = "init" THEN r.p
                            ELSE spawn_driver(CHOOSE d \in on : d.name = n)]
    /\ UNCHANGED <<have, guard, closed, did, passed, made, parent, topic>>

Up == proc # <<>>

(* After boot, one of three things is explored, on one machine. *)
Then(t) == proc # <<>> /\ topic = t

-----------------------------------------------------------------------------
(* Spawning. *)

Clamp(limit, ask) == IF limit # 0 /\ (ask = 0 \/ ask > limit) THEN limit ELSE ask

(* A size_t: what is negative is very large. *)
AsSize(n) == IF n < 0 THEN 1000 + n ELSE n

ClampRed(limit, ask) == IF ask <= 0 \/ ask > limit THEN limit ELSE ask

Inherit(b, ask) ==
    [red |-> ClampRed(b.red, ask.red), mem |-> Clamp(b.mem, AsSize(ask.mem)),
     ports |-> Clamp(b.ports, ask.ports), expendable |-> ask.expendable \/ b.expendable]

AsksNothing == [red |-> 0, mem |-> 0, ports |-> 0, expendable |-> FALSE]

(* The child runs whether or not there is room for the parent's right. *)
api_spawn(p, c, ask) ==
    /\ (Then("spawn") \/ (Then("gates") /\ ask = AsksNothing)) /\ p \in DOMAIN proc
    /\ c \in Range(Child) /\ c \notin DOMAIN proc
    /\ \A i \in DOMAIN Child : Child[i] = c => \A j \in 1 .. i - 1 : Child[j] \in DOMAIN proc
    /\ proc' = [n \in DOMAIN proc \cup {c} |->
                  IF n = c THEN proc_new(c, {}, Inherit(proc[p].budget, ask))
                  ELSE IF n = p THEN right_new(proc[p], SelfPort(c)) ELSE proc[n]]
    /\ parent' = [n \in DOMAIN parent \cup {c} |-> IF n = c THEN p ELSE parent[n]]
    /\ UNCHANGED <<have, grants, guard, closed, did, passed, made, topic>>

(* A bare port's right goes to a child, as any right does. *)
Passes(n, c) ==
    /\ Then("gates") /\ c \in DOMAIN proc \cap Range(Child)
    /\ n \notin passed /\ Cardinality(passed) < NewPorts
    /\ proc' = [proc EXCEPT ![c] = right_new(@, <<"bare", n>>)]
    /\ passed' = passed \cup {n}
    /\ UNCHANGED <<have, grants, guard, closed, did, made, parent, topic>>

proc_has_port(p, port) == \E h \in DOMAIN proc[p].right : proc[p].right[h] = port

(* set_priority, settime, a write to the disk, an attach: each asks for a
   right to its own port. *)
Gated(p, n) ==
    /\ Then("gates") /\ p \in DOMAIN proc /\ proc_has_port(p, <<"bare", n>>)
    /\ did' = {<<n, p>>}
    /\ UNCHANGED <<have, proc, grants, guard, closed, passed, made, parent, topic>>

-----------------------------------------------------------------------------
(* Handles. *)

init_right == proc["init"].right

api_newport ==
    /\ Then("handles") /\ made < NewPorts
    /\ proc' = [proc EXCEPT !["init"] = right_new(@, <<"new", made>>)]
    /\ made' = made + 1
    /\ UNCHANGED <<have, grants, guard, closed, did, passed, parent, topic>>

DropAt(h) ==
    proc' = [proc EXCEPT !["init"].right[h] = Nothing, !["init"].hint = IF h < @ THEN h ELSE @]

api_close(h) ==
    /\ Then("handles") /\ Cardinality(closed) < NewPorts /\ h # 0 /\ init_right[h] # Nothing
    /\ DropAt(h)
    /\ closed' = closed \cup {h}
    /\ UNCHANGED <<have, grants, guard, did, passed, made, parent, topic>>

api_owned(h) ==
    /\ Then("handles") /\ guard = NoGuard /\ init_right[h] # Nothing /\ init_right[h][1] = "new"
    /\ guard' = [h |-> h, of |-> init_right[h]]
    /\ UNCHANGED <<have, proc, grants, closed, did, passed, made, parent, topic>>

(* The block ends: whatever the handle names now is dropped. *)
owned_close ==
    /\ guard # NoGuard
    /\ IF init_right[guard.h] # Nothing /\ guard.h # 0
       THEN DropAt(guard.h) /\ closed' = closed \cup {guard.h}
       ELSE UNCHANGED <<proc, closed>>
    /\ guard' = NoGuard
    /\ UNCHANGED <<have, grants, did, passed, made, parent, topic>>

BootNext ==
    \/ spawn_init
    \/ \E p \in {"init"} \cup Range(Child), c \in Range(Child), ask \in Asked : api_spawn(p, c, ask)
    \/ \E n \in Range(Bare), c \in Range(Child) : Passes(n, c)
    \/ \E n \in Range(Bare), p \in {"init", "esp"} \cup Range(Child) : Gated(p, n)
    \/ api_newport \/ owned_close
    \/ \E h \in 0 .. MAXRIGHTS - 1 : api_close(h) \/ api_owned(h)

-----------------------------------------------------------------------------
(* Properties. *)

(* sys.granted names what it says: the task of that name if it is there and
   started, whichever others are missing or failed, and nothing else; every
   module that reaches a device is in one proc at most, raw files only in the
   boot proc and the esp server, and a gated call is made only by a proc the
   boot proc gave the right to, or that was started with it. *)
AuthorityIsGranted ==
    Up =>
    /\ \A i \in DOMAIN grants : grants[i].h \notin closed =>
          init_right[grants[i].h] \in {SelfPort(grants[i].name), <<"bare", grants[i].name>>, <<"dev", grants[i].name>>}
    /\ {grants[i].name : i \in DOMAIN grants} =
          (DOMAIN proc \ ({"init"} \cup Range(Child))) \cup Range(Bare) \cup (have \cap {"kbd", "ptr"})
    /\ \A n, m \in DOMAIN proc : n # m => proc[n].modules \cap proc[m].modules \subseteq Everyone \cup {"fs"}
    /\ \A n \in DOMAIN proc : "fs" \in proc[n].modules \/ proc[n].ambient # {} => n \in {"init", "esp"}
    /\ \A d \in did : d[2] = "init" \/ d[1] \in passed \/ d = <<"disk", "esp">>

Fits(limit, b) == limit = 0 \/ (b # 0 /\ b <= limit)

(* A child is never less contained than whoever spawned it, however many
   generations down and whatever it asks for (api_spawn). *)
ChildContained ==
    \A i \in 1 .. Len(Child), p \in {"init"} \cup Range(Child) :
        p \in DOMAIN proc /\ Child[i] \in DOMAIN proc /\ parent[Child[i]] = p =>
            LET b == proc[Child[i]].budget  o == proc[p].budget IN
            /\ b.red \in 1 .. o.red
            /\ Fits(o.mem, b.mem) /\ Fits(o.ports, b.ports)
            /\ o.expendable => b.expendable

(* What a proc can reach, and how much of it: never more than the boot table,
   a message or its parent gave (spawn_init, proc_new, api_spawn). *)
Confined == AuthorityIsGranted /\ ChildContained
=============================================================================
