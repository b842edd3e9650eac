----------------------------- MODULE MCThread ------------------------------
(* Programs of three threads for Thread. *)
EXTENDS Thread, TLC
CONSTANTS t1, t2, t3, p, q, rendezvous, buffer

Sizes == (rendezvous :> 0) @@ (buffer :> 1)

Plain(fn)    == [fn |-> fn]
Send(x, v)   == [fn |-> "chansend", pc |-> "go", c |-> x, v |-> v]
Recv(x)      == [fn |-> "chanrecv", pc |-> "go", c |-> x]
On1(fn, h)   == [fn |-> fn, pc |-> "go", h |-> h]
Alt(cs)      == [fn |-> "alt", pc |-> "go", cs |-> cs]
Req(fn)      == [fn |-> fn, pc |-> "go"]
Rpc(limit)   == [fn |-> "rpc", pc |-> "go", limit |-> limit]

Program(x, y, z, born, ports) ==
    [calls |-> (t1 :> x) @@ (t2 :> y) @@ (t3 :> z), born |-> born, ports |-> ports]

(* Values through channels: several senders and receivers, and a close. *)
Senders ==
    Program({Send(rendezvous, 1), Recv(buffer), [fn |-> "nbsend", c |-> rendezvous, v |-> 2]},
            {Send(buffer, 1), Send(buffer, 2), [fn |-> "nbrecv", c |-> rendezvous]},
            {Recv(rendezvous), Recv(buffer), [fn |-> "close", c |-> buffer]}, {t1, t2, t3}, {})

(* One thread alts over a channel and a port while others feed both. *)
Selects ==
    Program({Plain("yield"), Alt(<<[c |-> buffer, v |-> 1], [c |-> rendezvous]>>)},
            {Alt(<<[port |-> p], [c |-> rendezvous], [c |-> buffer]>>)},
            {On1("recv", p), [fn |-> "close", c |-> rendezvous]}, {t1, t2, t3}, {p})

(* Threads that wait on one port in several ways, beside one that yields. *)
Waits ==
    Program({On1("recv", p), Plain("yield"), Plain("spawn")},
            {On1("recv", p), On1("await", p), Plain("finish")},
            {Alt(<<[port |-> q], [port |-> p]>>)}, {t1, t3}, {p})

(* Requests and their answers. *)
Requests ==
    Program({Rpc(FALSE), Plain("yield")}, {Req("sendwait"), Req("readline"), Plain("yield")}, {},
            {t1, t2}, {Dest})

(* A limit on how long a message is waited for. *)
Limits == Program({On1("recvtimeout", p), Req("sleep"), Plain("yield"), Plain("cut")},
                  {On1("recv", p), Plain("yield")}, {}, {t1, t2}, {p})

(* A request that is given up, and the thread's next one. *)
Late == Program({Rpc(TRUE), Plain("finish")}, {Plain("yield"), Plain("finish")}, {}, {t1, t2}, {Dest})

(* Senders that are refused by a close, or woken for nothing. *)
Refused ==
    Program({Send(rendezvous, 1), Alt(<<[c |-> buffer, v |-> 1]>>)},
            {Alt(<<[port |-> p]>>), [fn |-> "close", c |-> buffer]}, {}, {t1, t2}, {p})

All == {Senders, Selects, Waits, Requests, Limits, Late, Refused}

Spec == ThreadInit /\ [][ThreadNext]_thread_vars /\ ThreadFair
============================================================================
