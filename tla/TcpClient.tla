----------------------------- MODULE TcpClient -----------------------------
(***************************************************************************)
(* protocol/tcp_client/tcp_client.c at the grain of its socket: one global *)
(* variable, sock, which the event task and every tcp_client_task read and *)
(* write without a lock.  An action is what a thread does up to the next   *)
(* read or write of sock that another thread can come between; a blocking  *)
(* call keeps the descriptor it was given (fd) while sock moves on.        *)
(*                                                                         *)
(* What the messages say is left out: received data either makes the       *)
(* worker send (keep_alive, sync_request) or it does not.  The callbacks   *)
(* are set; OtaHandler models the boot that sets them.                     *)
(***************************************************************************)
EXTENDS Integers, FiniteSets

CONSTANTS
    Workers,    \* instances of tcp_client_task one boot may create
    Evt,        \* the event task, which runs wifi_event_handler
    MaxFd,      \* descriptors are 0..MaxFd (CONFIG_LWIP_MAX_SOCKETS - 1)
    Faults      \* a subset of {"rejoin", "refuse", "die", "vanish"}

ASSUME TcpAssumption ==
    /\ Evt \notin Workers
    /\ MaxFd \in Nat
    /\ Faults \subseteq {"rejoin", "refuse", "die", "vanish"}

Threads == Workers \union {Evt}
Fds == 0..MaxFd

VARIABLES
    sock,       \* the global descriptor, -1 for none
    conn,       \* what lwip holds under each descriptor
    known,      \* gw_ip_str and gw_port_num have been stored
    pc,         \* what each thread does next
    fd,         \* the descriptor a thread's last socket call was given
    back        \* where a thread goes on after close(sock); sock = -1

vars == <<sock, conn, known, pc, fd, back>>

ConnStates == {"free", "new", "up", "broken", "ghost"}
Pcs == {"none", "noip", "idle", "spawn", "loop", "socket", "connect",
        "connecting", "register", "report", "recv", "answer", "close", "forget"}

Open == {f \in Fds : conn[f] # "free"}

\* Types, and what Loop relies on: a worker exists only when the address of
\* the GW is known.
TypeOK ==
    /\ sock \in Fds \union {-1}
    /\ conn \in [Fds -> ConnStates]
    /\ known \in BOOLEAN
    /\ pc \in [Threads -> Pcs]
    /\ fd \in [Threads -> Fds \union {-1}]
    /\ back \in [Threads -> {"idle", "spawn", "loop", "report"}]
    /\ (\E w \in Workers : pc[w] # "none") => known

Init ==
    /\ sock = -1
    /\ conn = [f \in Fds |-> "free"]
    /\ known = FALSE
    /\ pc = [x \in Threads |-> IF x = Evt THEN "noip" ELSE "none"]
    /\ fd = [x \in Threads |-> -1]
    /\ back = [x \in Threads |-> "loop"]

-----------------------------------------------------------------------------
Goto(x, l) == pc' = [pc EXCEPT ![x] = l]

\* tcp_client_start returns ESP_OK or ESP_FAIL; a worker ignores which.
AfterStart(x) == IF x = Evt THEN "spawn" ELSE "loop"
AfterAnyStart(x) == AfterStart(x)       \* mutant: ESP_OK is not asked for

AfterFailedStart(x) == IF x = Evt THEN "idle" ELSE "loop"

\* A socket call failed: close(sock) and sock = -1 come next, then l.
CloseThen(x, l) ==
    /\ Goto(x, "close")
    /\ back' = [back EXCEPT ![x] = l]

\* lwip hands out the lowest descriptor that is free.
Lowest(S) == CHOOSE f \in S : \A g \in S : f <= g

-----------------------------------------------------------------------------
(* tcp_client_start *)

\* sock = socket(...), whatever sock was; -1 when the table is full.
Socket(x) ==
    /\ pc[x] = "socket"
    /\ IF Open = Fds
          THEN /\ sock' = -1
               /\ UNCHANGED conn
               /\ Goto(x, AfterFailedStart(x))
          ELSE /\ sock' = Lowest(Fds \ Open)
               /\ conn' = [conn EXCEPT ![sock'] = "new"]
               /\ Goto(x, "connect")
    /\ UNCHANGED <<known, fd, back>>

\* if (sock < 0) return; connect(sock, ...): both read the variable anew.
Connect(x) ==
    /\ pc[x] = "connect"
    /\ fd' = [fd EXCEPT ![x] = sock]
    /\ Goto(x, IF sock = -1 THEN AfterFailedStart(x) ELSE "connecting")
    /\ UNCHANGED <<sock, conn, known, back>>

\* connect returns 0: the address is kept for reconnections.
ConnectOk(x) ==
    /\ pc[x] = "connecting"
    /\ fd[x] # -1
    /\ conn[fd[x]] = "new"
    /\ conn' = [conn EXCEPT ![fd[x]] = "up"]
    /\ known' = TRUE
    /\ Goto(x, "register")
    /\ UNCHANGED <<sock, fd, back>>

\* connect fails: refused or timed out, closed under the call, or already
\* connected by another thread.
ConnectFails(x) ==
    /\ pc[x] = "connecting"
    /\ "refuse" \notin Faults /\ fd[x] # -1 => conn[fd[x]] # "new"
    /\ CloseThen(x, AfterFailedStart(x))
    /\ UNCHANGED <<sock, conn, known, fd>>

-----------------------------------------------------------------------------
(* tcp_client_send, called twice by connected_cb ("register", "report") and  *)
(* by receive_cb ("answer").                                                 *)

SendPcs == {"register", "report", "answer"}

\* Where the caller goes on, whatever tcp_client_send returned.
Caller(x) == CASE pc[x] = "register" -> "report"
               [] pc[x] = "report"   -> AfterStart(x)
               [] pc[x] = "answer"   -> "loop"

\* if (sock < 0) return ESP_FAIL
SendNothing(x) ==
    /\ pc[x] \in SendPcs
    /\ sock = -1
    /\ Goto(x, Caller(x))
    /\ UNCHANGED <<sock, conn, known, fd, back>>

SendOk(x) ==
    /\ pc[x] \in SendPcs
    /\ sock # -1
    /\ conn[sock] \in {"up", "broken", "ghost"}
    /\ fd' = [fd EXCEPT ![x] = sock]
    /\ Goto(x, Caller(x))
    /\ UNCHANGED <<sock, conn, known, back>>

SendFails(x) ==
    /\ pc[x] \in SendPcs
    /\ sock # -1
    /\ conn[sock] # "up"
    /\ fd' = [fd EXCEPT ![x] = sock]
    /\ CloseThen(x, Caller(x))
    /\ UNCHANGED <<sock, conn, known>>

-----------------------------------------------------------------------------
(* close(sock); sock = -1 *)

NotClosed(x) == -1                      \* mutant: close is forgotten

ClosedFd(x) == sock

\* The variable is read again: it need not be the descriptor that failed.  A
\* call of another thread that waits on the descriptor ends with an error.
Close(x) ==
    LET c == ClosedFd(x)
    IN  /\ pc[x] = "close"
        /\ conn' = IF c = -1 THEN conn ELSE [conn EXCEPT ![c] = "free"]
        /\ fd' = [y \in Threads |->
                     IF y # x /\ fd[y] = c /\ pc[y] \in {"recv", "connecting"}
                        THEN -1 ELSE fd[y]]
        /\ Goto(x, "forget")
        /\ UNCHANGED <<sock, known, back>>

Kept == sock                            \* mutant: sock is not reset

Forgotten == -1

Forget(x) ==
    /\ pc[x] = "forget"
    /\ sock' = Forgotten
    /\ Goto(x, back[x])
    /\ UNCHANGED <<conn, known, fd, back>>

-----------------------------------------------------------------------------
(* tcp_client_task *)

\* Without a connection the worker reconnects, every two seconds, once the
\* address is known; with one it waits for data.
Loop(w) ==
    /\ pc[w] = "loop"
    /\ IF sock = -1
          THEN /\ known
               /\ Goto(w, "socket")
               /\ UNCHANGED fd
          ELSE /\ Goto(w, "recv")
               /\ fd' = [fd EXCEPT ![w] = sock]
    /\ UNCHANGED <<sock, conn, known, back>>

\* Data arrives, possibly what was buffered before the connection broke, and
\* receive_cb answers it or not.
RecvData(w) ==
    /\ pc[w] = "recv"
    /\ fd[w] # -1
    /\ conn[fd[w]] \in {"up", "broken", "ghost"}
    /\ \E l \in {"answer", "loop"} : Goto(w, l)
    /\ UNCHANGED <<sock, conn, known, fd, back>>

\* recv returns 0 or an error.
RecvFails(w) ==
    /\ pc[w] = "recv"
    /\ fd[w] # -1 => conn[fd[w]] \notin {"up", "ghost"}
    /\ CloseThen(w, "loop")
    /\ UNCHANGED <<sock, conn, known, fd>>

-----------------------------------------------------------------------------
(* The environment: wifi_event_handler and the network. *)

\* GOT_IP calls tcp_client_start, whatever was started before.
GotIp ==
    /\ pc[Evt] = "noip" \/ (pc[Evt] = "idle" /\ "rejoin" \in Faults)
    /\ \E w \in Workers : pc[w] = "none"
    /\ Goto(Evt, "socket")
    /\ UNCHANGED <<sock, conn, known, fd, back>>

\* tcp_client_start returned ESP_OK: xTaskCreate(tcp_client_task).
Spawn ==
    /\ pc[Evt] = "spawn"
    /\ \E w \in Workers :
          /\ pc[w] = "none"
          /\ pc' = [pc EXCEPT ![Evt] = "idle", ![w] = "loop"]
    /\ UNCHANGED <<sock, conn, known, fd, back>>

\* A connection breaks, with a sign of it to the client or without.
Break(f) ==
    /\ conn[f] = "up"
    /\ \/ "die" \in Faults /\ conn' = [conn EXCEPT ![f] = "broken"]
       \/ "vanish" \in Faults /\ conn' = [conn EXCEPT ![f] = "ghost"]
    /\ UNCHANGED <<sock, known, pc, fd, back>>

-----------------------------------------------------------------------------
Call(x) == \/ Socket(x) \/ Connect(x) \/ ConnectOk(x) \/ ConnectFails(x)
           \/ SendNothing(x) \/ SendOk(x) \/ SendFails(x)
           \/ Close(x) \/ Forget(x)

Next ==
    \/ \E x \in Threads : Call(x)
    \/ \E w \in Workers : Loop(w) \/ RecvData(w) \/ RecvFails(w)
    \/ GotIp \/ Spawn
    \/ \E f \in Fds : Break(f)

Spec == Init /\ [][Next]_vars

(* Fairness.  Threads that can run do, socket calls return, the station gets *)
(* its address, a GW that is asked to connect often enough accepts, and a    *)
(* connection that broke has buffered only so much data.                     *)
Fairness ==
    /\ WF_vars(GotIp) /\ WF_vars(Spawn)
    /\ \A x \in Threads : WF_vars(Call(x)) /\ SF_vars(ConnectOk(x))
    /\ \A w \in Workers : WF_vars(Loop(w)) /\ SF_vars(RecvFails(w))

FairSpec == Spec /\ Fairness

-----------------------------------------------------------------------------
(* Properties. *)

\* Every connection lwip holds is the one sock names: with one GOT_IP in a
\* boot nothing leaks, on whichever of the error paths, and no call is left
\* waiting on a descriptor the client has let go of.
OneConnection ==
    "rejoin" \notin Faults => Open \subseteq {sock}

\* sock names a descriptor lwip has given back only while a thread stands
\* between close(sock) and sock = -1.
NoDangling ==
    sock # -1 /\ conn[sock] = "free" => \E x \in Threads : pc[x] = "forget"

\* A connection that breaks is made again, if the network comes to rest: no
\* path leaves the worker blocked on a descriptor that sock no longer names,
\* or with one whose connection it has seen break.  Only a GW that vanished
\* without a sign keeps it waiting.
Reconnects ==
    <>[][~ GotIp /\ \A f \in Fds : ~ Break(f)]_vars =>
        [](known => <>(sock # -1 /\ conn[sock] \in {"up", "ghost"}))

=============================================================================
