------------------------------ MODULE HostNet ------------------------------
(***************************************************************************)
(* Connections from the host's sockets: src/platform/hosted/net.c, with    *)
(* the tasks tcp.lua and udp.lua that call it and the kernel's pump that   *)
(* wakes them.  An operation is a token, polled until it is done.  The two *)
(* tasks are procs and may run on two cpus; they share the table of live   *)
(* tokens, under its lock, and the host's file descriptors.                *)
(***************************************************************************)
EXTENDS Integers, Sequences, SequencesExt, FiniteSets

CONSTANTS Fd,          \* the host's descriptors
          MAXTOKENS,
          MaxTok,      \* operations started, at most
          MaxSock,     \* sockets made, at most
          MaxIn,       \* what arrives on a socket, at most
          Room,        \* how much a socket takes before it is drained
          SendLen,     \* how much a send is for
          CloseBusy,   \* whether a connection may be closed under an operation
          Menus        \* sets of requests that are made together

ASSUME HostNetAssumption == MAXTOKENS \in Nat \ {0} /\ Room \in Nat \ {0} /\ SendLen \in Nat \ {0}

VARIABLES menu,    \* the requests made in this behaviour
          sock,    \* every socket the host has made
          fdt,     \* which socket a descriptor names
          conn,    \* every conn userdata
          tok,     \* every token
          live,    \* the table platform_net_ready reads
          pend,    \* each task's pending list
          port,    \* whether netport or udpport holds a wakeup
          at       \* each task: in its alt, or at an entry of its pending list

host_vars == <<menu, sock, fdt, conn, tok, live, pend, port, at>>

Tasks == {"tcp", "udp"}
InAlt == 0
NoSock == 0
ConnsOf(task) == {c \in DOMAIN conn : conn[c].task = task /\ conn[c].known}
SockOf(c) == fdt[conn[c].fd]

HostInit ==
    /\ menu \in Menus
    /\ sock = <<>> /\ fdt = [f \in Fd |-> NoSock]
    /\ conn = <<>> /\ tok = <<>> /\ live = <<>>
    /\ pend = [t \in Tasks |-> <<>>]
    /\ port = [t \in Tasks |-> FALSE]
    /\ at = [t \in Tasks |-> InAlt]

-----------------------------------------------------------------------------
(* The host. *)

FreeFds == {f \in Fd : fdt[f] = NoSock}
LowestFd == CHOOSE f \in FreeFds : \A g \in FreeFds : f <= g

Socket(kind, state) == [kind |-> kind, state |-> state, arrived |-> 0, read |-> 0, room |-> Room, out |-> <<>>]

CanOpen == FreeFds # {} /\ Len(sock) < MaxSock

Waiting(s) == sock[s].arrived > sock[s].read

(* A byte, a datagram or a connection arrives; a connect is answered; the
   far end stops, or resets; what was sent leaves. *)
Comes(s) ==
    /\ sock[s].state = "up" /\ sock[s].arrived < MaxIn
    /\ sock' = [sock EXCEPT ![s].arrived = @ + 1]

Answers(s) ==
    /\ sock[s].state = "connecting"
    /\ \E st \in {"up", "refused"} : sock' = [sock EXCEPT ![s].state = st]

FarEnd(s) ==
    /\ sock[s].kind = "stream" /\ sock[s].state = "up" /\ "reset" \in menu
    /\ \E st \in {"eof", "reset"} : sock' = [sock EXCEPT ![s].state = st]

Drains(s) == sock[s].room < Room /\ sock' = [sock EXCEPT ![s].room = Room]

Host ==
    /\ \E s \in DOMAIN sock : Comes(s) \/ Answers(s) \/ FarEnd(s) \/ Drains(s)
    /\ UNCHANGED <<menu, fdt, conn, tok, live, pend, port, at>>

(* What poll(2) says of a token's socket. *)
token_events(k) == IF tok[k].kind \in {"dial", "send", "usend"} THEN "out" ELSE "in"

Moves(k) ==
    LET s == SockOf(tok[k].c) IN
    \/ s = NoSock
    \/ sock[s].state \in {"refused", "reset"}
    \/ token_events(k) = "in" /\ (Waiting(s) \/ sock[s].state = "eof")
    \/ token_events(k) = "out" /\ sock[s].state # "connecting" /\ sock[s].room > 0

-----------------------------------------------------------------------------
(* Tokens. *)

live_add(k) == IF Len(live) < MAXTOKENS THEN Append(live, k) ELSE live

Shortened(k) ==
    IF k \in Range(live) THEN SubSeq(live, 1, Len(live) - 1) ELSE live

(* The last entry takes the place of the one that leaves. *)
live_del(k) ==
    LET at_k == {i \in DOMAIN live : live[i] = k} IN
    IF at_k = {} THEN live
    ELSE LET i == CHOOSE i \in at_k : \A j \in at_k : i <= j
         IN  SubSeq([live EXCEPT ![i] = live[Len(live)]], 1, Len(live) - 1)

token_pending(k) == ~tok[k].done /\ ~conn[tok[k].c].closed /\ ~tok[k].cancelled

(* The table is read under its lock and the sockets are asked after it. *)
platform_net_ready ==
    \/ \E i \in DOMAIN live : tok[live[i]].cancelled /\ ~tok[live[i]].done
    \/ \E i \in DOMAIN live : token_pending(live[i]) /\ Moves(live[i])

pump_net ==
    /\ platform_net_ready /\ port # [t \in Tasks |-> TRUE]
    /\ port' = [t \in Tasks |-> TRUE]
    /\ UNCHANGED <<menu, sock, fdt, conn, tok, live, pend, at>>

newtoken(task, kind, c) ==
    /\ tok' = Append(tok, [kind |-> kind, c |-> c, task |-> task, off |-> 0, done |-> FALSE,
                           cancelled |-> FALSE, told |-> "none", data |-> <<>>])
    /\ live' = live_add(Len(tok) + 1)
    /\ pend' = [pend EXCEPT ![task] = Append(@, Len(tok) + 1)]

(* Requests.  Every one is followed by a look at the pending list. *)
Asked(task, op) == op \in menu /\ at[task] = InAlt /\ at' = [at EXCEPT ![task] = 1]

newconn(task, f, s, known) ==
    Append(conn, [task |-> task, fd |-> f, closed |-> FALSE, sock |-> s, known |-> known])

(* listen, dial and udp's open: a socket, and for dial a token. *)
Opens(task, op, kind, state) ==
    /\ Asked(task, op) /\ CanOpen
    /\ sock' = Append(sock, Socket(kind, state))
    /\ fdt' = [fdt EXCEPT ![LowestFd] = Len(sock) + 1]
    /\ conn' = newconn(task, LowestFd, Len(sock) + 1, op # "dial")

l_listen == Opens("tcp", "listen", "listen", "up") /\ UNCHANGED <<menu, tok, live, pend, port>>

l_udp_open == Opens("udp", "open", "dgram", "up") /\ UNCHANGED <<menu, tok, live, pend, port>>

l_dial_start ==
    /\ Len(tok) < MaxTok
    /\ Opens("tcp", "dial", "stream", "connecting")
    /\ newtoken("tcp", "dial", Len(conn) + 1)
    /\ UNCHANGED <<menu, port>>

(* A client makes one call at a time on a connection. *)
Busy(c) == \E k \in DOMAIN tok : tok[k].c = c /\ tok[k].told = "none"

Allowed(kind, c) ==
    LET k == sock[conn[c].sock].kind IN
    CASE kind = "accept" -> k = "listen" [] kind \in {"send", "recv"} -> k = "stream" [] OTHER -> k = "dgram"

(* What the five have in common: an operation on a connection of the task. *)
Starts(task, kind) ==
    \E c \in ConnsOf(task) :
        /\ Asked(task, kind) /\ Len(tok) < MaxTok /\ Allowed(kind, c) /\ ~Busy(c)
        /\ newtoken(task, kind, c)
        /\ UNCHANGED <<menu, sock, fdt, conn, port>>

l_accept_start == Starts("tcp", "accept")
l_send_start == Starts("tcp", "send")
l_recv_start == Starts("tcp", "recv")
l_udp_send_start == Starts("udp", "usend")
l_udp_recv_start == Starts("udp", "urecv")

Closes(c) ==
    /\ conn' = [conn EXCEPT ![c].closed = TRUE, ![c].known = FALSE]
    /\ fdt' = [fdt EXCEPT ![conn[c].fd] = NoSock]

l_close(task) ==
    \E c \in ConnsOf(task) :
        /\ Asked(task, "close") /\ (CloseBusy \/ ~Busy(c))
        /\ Closes(c)
        /\ UNCHANGED <<menu, sock, tok, live, pend, port>>

(* A dial that failed leaves a conn nobody can name. *)
conn_gc ==
    \E c \in DOMAIN conn :
        /\ ~conn[c].known /\ ~conn[c].closed /\ ~Busy(c)
        /\ Closes(c)
        /\ UNCHANGED <<menu, sock, tok, live, pend, port, at>>

l_udp_cancel ==
    \E c \in ConnsOf("udp") :
        /\ Asked("udp", "cancel") /\ Busy(c)
        /\ tok' = [k \in DOMAIN tok |-> IF tok[k].c = c /\ ~tok[k].done /\ k \in Range(live)
                                        THEN [tok[k] EXCEPT !.cancelled = TRUE] ELSE tok[k]]
        /\ UNCHANGED <<menu, sock, fdt, conn, live, pend, port>>

Wakeup(task) ==
    /\ at[task] = InAlt /\ port[task]
    /\ port' = [port EXCEPT ![task] = FALSE]
    /\ at' = [at EXCEPT ![task] = 1]
    /\ UNCHANGED <<menu, sock, fdt, conn, tok, live, pend>>

-----------------------------------------------------------------------------
(* checkpending: each entry is polled once. *)

Leaves(task, k, told, data, off) ==
    /\ tok' = [tok EXCEPT ![k].done = TRUE, ![k].told = told, ![k].data = data, ![k].off = off]
    /\ live' = live_del(k)
    /\ pend' = [pend EXCEPT ![task] = RemoveAt(@, at[task])]
    /\ UNCHANGED at

NotYet(task) == at' = [at EXCEPT ![task] = @ + 1] /\ UNCHANGED <<live, pend>>

Same == UNCHANGED <<sock, fdt, conn>>

l_dial_poll(task, k, s) ==
    IF s # NoSock /\ sock[s].state = "connecting" THEN NotYet(task) /\ Same /\ UNCHANGED tok
    ELSE IF s # NoSock /\ sock[s].state # "refused" /\ sock[s].state # "reset"
    THEN /\ Leaves(task, k, "conn", <<>>, 0)
         /\ conn' = [conn EXCEPT ![tok[k].c].known = TRUE]
         /\ UNCHANGED <<sock, fdt>>
    ELSE Leaves(task, k, "nil", <<>>, 0) /\ Same

l_accept_poll(task, k, s) ==
    IF s = NoSock \/ sock[s].kind # "listen" THEN Leaves(task, k, "nil", <<>>, 0) /\ Same
    ELSE IF ~Waiting(s) THEN NotYet(task) /\ Same /\ UNCHANGED tok
    ELSE IF FreeFds = {} THEN Leaves(task, k, "nil", <<>>, 0) /\ Same
    ELSE /\ Len(sock) < MaxSock
         /\ Leaves(task, k, "conn", <<s, sock[s].read + 1>>, 0)
         /\ sock' = Append([sock EXCEPT ![s].read = @ + 1], Socket("stream", "up"))
         /\ fdt' = [fdt EXCEPT ![LowestFd] = Len(sock) + 1]
         /\ conn' = newconn(task, LowestFd, Len(sock) + 1, TRUE)

(* How much of a send the socket takes. *)
Wrote(k, s) == IF sock[s].room < SendLen - tok[k].off THEN sock[s].room ELSE SendLen - tok[k].off

Advances(k, w) == tok[k].off + w

l_send_poll(task, k, s) ==
    IF s = NoSock \/ (s # NoSock /\ (sock[s].state \in {"reset", "connecting"} \/ sock[s].kind = "listen"))
    THEN Leaves(task, k, "true", <<>>, tok[k].off) /\ Same
    ELSE \E w \in {Wrote(k, s)} :
         /\ sock' = [sock EXCEPT ![s].room = @ - w, ![s].out = @ \o [i \in 1 .. w |-> <<k, tok[k].off + i>>]]
         /\ UNCHANGED <<fdt, conn>>
         /\ IF tok[k].off + w = SendLen THEN Leaves(task, k, "true", <<>>, SendLen)
            ELSE NotYet(task) /\ tok' = [tok EXCEPT ![k].off = Advances(k, w)]

l_recv_poll(task, k, s) ==
    IF s # NoSock /\ sock[s].state # "reset" /\ Waiting(s) /\ sock[s].kind # "listen"
    THEN /\ Leaves(task, k, "data", <<s, sock[s].read + 1>>, 0)
         /\ sock' = [sock EXCEPT ![s].read = @ + 1]
         /\ UNCHANGED <<fdt, conn>>
    ELSE IF s # NoSock /\ sock[s].state = "up" /\ sock[s].kind # "listen"
    THEN NotYet(task) /\ Same /\ UNCHANGED tok
    ELSE Leaves(task, k, "nil", <<>>, 0) /\ Same

l_udp_send_poll(task, k, s) ==
    IF tok[k].cancelled \/ s = NoSock THEN Leaves(task, k, "true", <<>>, 0) /\ Same
    ELSE IF sock[s].room = 0 THEN NotYet(task) /\ Same /\ UNCHANGED tok
    ELSE /\ Leaves(task, k, "true", <<>>, 1)
         /\ sock' = [sock EXCEPT ![s].room = @ - 1, ![s].out = Append(@, <<k, 1>>)]
         /\ UNCHANGED <<fdt, conn>>

l_udp_recv_poll(task, k, s) ==
    IF tok[k].cancelled THEN Leaves(task, k, "nil", <<>>, 0) /\ Same
    ELSE l_recv_poll(task, k, s)

PollsToken(task, k, s) ==
    CASE tok[k].kind = "dial" -> l_dial_poll(task, k, s)
      [] tok[k].kind = "accept" -> l_accept_poll(task, k, s)
      [] tok[k].kind = "send" -> l_send_poll(task, k, s)
      [] tok[k].kind = "recv" -> l_recv_poll(task, k, s)
      [] tok[k].kind = "usend" -> l_udp_send_poll(task, k, s)
      [] tok[k].kind = "urecv" -> l_udp_recv_poll(task, k, s)

checkpending(task) ==
    /\ at[task] # InAlt
    /\ UNCHANGED <<menu, port>>
    /\ IF at[task] > Len(pend[task])
       THEN at' = [at EXCEPT ![task] = InAlt] /\ UNCHANGED <<sock, fdt, conn, tok, live, pend>>
       ELSE \E k \in {pend[task][at[task]]} : PollsToken(task, k, SockOf(tok[k].c))

TaskStep(task) == Wakeup(task) \/ checkpending(task)

Requests ==
    \/ l_listen \/ l_dial_start \/ l_udp_open \/ l_udp_cancel
    \/ l_accept_start \/ l_send_start \/ l_recv_start \/ l_udp_send_start \/ l_udp_recv_start
    \/ \E task \in Tasks : l_close(task)

HostNetNext == Host \/ Requests \/ conn_gc \/ pump_net \/ \E task \in Tasks : TaskStep(task)

HostNetFair == WF_host_vars(pump_net) /\ \A task \in Tasks : WF_host_vars(TaskStep(task))

-----------------------------------------------------------------------------
(* Properties. *)

(* A datagram or byte that reached a socket is given once, to the calls of
   the connection that owns the socket and in the order it came, and what a
   call sends goes out once and in order, whole before the next call's:
   recv_poll and send_poll under any interleaving of the two tasks, partial
   writes included.  It is stated of connections not closed under a call. *)
Got(s) == SelectSeq([k \in DOMAIN tok |-> IF conn[tok[k].c].sock = s THEN tok[k].data ELSE <<>>],
                    LAMBDA d : d # <<>>)

Sent(s) == FlattenSeq([k \in DOMAIN tok |-> IF conn[tok[k].c].sock = s THEN [i \in 1 .. tok[k].off |-> <<k, i>>]
                                             ELSE <<>>])

StreamsKept ==
    \A s \in DOMAIN sock :
        /\ Got(s) = [i \in 1 .. sock[s].read |-> <<s, i>>]
        /\ sock[s].out = Sent(s)

(* An operation that could complete is looked at: when its socket can move,
   or it was cancelled, it is answered, unless the socket stops being able
   to.  platform_net_ready reads the table that live_del compacts while the
   tasks add to it. *)
Open(k) == k \in DOMAIN tok /\ tok[k].told = "none"
Able(k) == Open(k) /\ (tok[k].cancelled \/ Moves(k))
NetAnswered == \A k \in 1 .. MaxTok : Able(k) ~> ~Able(k)

(* What crosses a connection arrives, once and in order, and whoever waits for
   it is told. *)
StreamsServed == []StreamsKept /\ NetAnswered
=============================================================================
