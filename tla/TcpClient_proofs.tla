--------------------------- MODULE TcpClient_proofs ---------------------------
(***************************************************************************)
(* Machine-checked proofs about TcpClient, for every set of workers, every *)
(* number of descriptors and every combination of faults.                  *)
(***************************************************************************)
EXTENDS TcpClient, WellFoundedInduction, TLAPS

\* lwip finds the lowest of the descriptors that are free, if there is one.
LEMMA LowestIsFree ==
  ASSUME Open # Fds
  PROVE  Lowest(Fds \ Open) \in Fds \ Open
<1> DEFINE S == Fds \ Open
<1>1. S \subseteq Nat /\ S # {}
  BY TcpAssumption DEF Fds, Open
<1>2. PICK m \in S : \A k \in S : <<k, m>> \notin OpToRel(<, Nat)
  BY <1>1, WFMin, NatLessThanWellFounded, Zenon
<1>3. \A k \in S : ~ (k < m)
  BY <1>1, <1>2, Zenon DEF OpToRel
<1>4. \E f \in S : \A g \in S : f <= g
  BY <1>1, <1>3
<1>5. QED
  BY <1>4 DEF Lowest

-----------------------------------------------------------------------------
(* Types.  That a worker exists only when the address is known needs to know *)
(* where the event task stands on its way from connect() to xTaskCreate.     *)

AddressBeforeWorker ==
    /\ pc[Evt] \in {"register", "report", "spawn"} => known
    /\ pc[Evt] \in {"close", "forget"} /\ back[Evt] \in {"spawn", "report"} =>
          known

\* The initial state has the right types.
LEMMA TypeInit == Init => TypeOK /\ AddressBeforeWorker
<1> SUFFICES ASSUME Init PROVE TypeOK /\ AddressBeforeWorker
  OBVIOUS
<1>1. sock \in Fds \union {-1} /\ conn \in [Fds -> ConnStates]
  BY DEF Init, ConnStates
<1>2. pc \in [Threads -> Pcs] /\ \A w \in Workers : pc[w] = "none"
  BY TcpAssumption DEF Init, Threads, Pcs
<1>3. fd \in [Threads -> Fds \union {-1}]
  BY DEF Init
<1>4. AddressBeforeWorker
  BY DEF Init, AddressBeforeWorker, Threads
<1>5. QED
  BY <1>1, <1>2, <1>3, <1>4 DEF Init, TypeOK

\* Every step keeps the types, and creates a worker only when the address of
\* the GW has been stored.
LEMMA TypeStep ==
  ASSUME TypeOK, AddressBeforeWorker, [Next]_vars
  PROVE  (TypeOK /\ AddressBeforeWorker)'
<1> USE TcpAssumption DEF TypeOK, AddressBeforeWorker, Threads, ConnStates, Pcs
<1>1. ASSUME NEW x \in Threads, Socket(x) PROVE (TypeOK /\ AddressBeforeWorker)'
  BY <1>1, LowestIsFree DEF Socket, Goto, AfterFailedStart
<1>2. ASSUME NEW x \in Threads, Connect(x) PROVE (TypeOK /\ AddressBeforeWorker)'
  BY <1>2 DEF Connect, Goto, AfterFailedStart
<1>3. ASSUME NEW x \in Threads, ConnectOk(x) PROVE (TypeOK /\ AddressBeforeWorker)'
  BY <1>3 DEF ConnectOk, Goto
<1>4. ASSUME NEW x \in Threads, ConnectFails(x) PROVE (TypeOK /\ AddressBeforeWorker)'
  BY <1>4 DEF ConnectFails, CloseThen, Goto, AfterFailedStart
<1>5. ASSUME NEW x \in Threads, SendNothing(x) PROVE (TypeOK /\ AddressBeforeWorker)'
  BY <1>5 DEF SendNothing, SendPcs, Caller, Goto, AfterStart
<1>6. ASSUME NEW x \in Threads, SendOk(x) PROVE (TypeOK /\ AddressBeforeWorker)'
  BY <1>6 DEF SendOk, SendPcs, Caller, Goto, AfterStart
<1>7. ASSUME NEW x \in Threads, SendFails(x) PROVE (TypeOK /\ AddressBeforeWorker)'
  BY <1>7 DEF SendFails, SendPcs, Caller, CloseThen, Goto, AfterStart
<1>8. ASSUME NEW x \in Threads, Close(x) PROVE (TypeOK /\ AddressBeforeWorker)'
  BY <1>8 DEF Close, ClosedFd, Goto
<1>9. ASSUME NEW x \in Threads, Forget(x) PROVE (TypeOK /\ AddressBeforeWorker)'
  BY <1>9 DEF Forget, Forgotten, Goto
<1>10. ASSUME NEW w \in Workers, Loop(w) PROVE (TypeOK /\ AddressBeforeWorker)'
  BY <1>10 DEF Loop, Goto
<1>11. ASSUME NEW w \in Workers, RecvData(w) PROVE (TypeOK /\ AddressBeforeWorker)'
  BY <1>11 DEF RecvData, Goto
<1>12. ASSUME NEW w \in Workers, RecvFails(w) PROVE (TypeOK /\ AddressBeforeWorker)'
  BY <1>12 DEF RecvFails, CloseThen, Goto
<1>13. CASE GotIp
  BY <1>13 DEF GotIp, Goto
<1>14. CASE Spawn
  BY <1>14 DEF Spawn, Goto
<1>15. ASSUME NEW f \in Fds, Break(f) PROVE (TypeOK /\ AddressBeforeWorker)'
  BY <1>15 DEF Break
<1>16. CASE UNCHANGED vars
  BY <1>16 DEF vars
<1>17. QED
  BY <1>1, <1>2, <1>3, <1>4, <1>5, <1>6, <1>7, <1>8, <1>9, <1>10, <1>11,
     <1>12, <1>13, <1>14, <1>15, <1>16 DEF Next, Call

\* Type correctness: sock is -1 or a descriptor, and a worker exists only when
\* the address it would reconnect to is known.
THEOREM TypeCorrect == Spec => [](TypeOK /\ AddressBeforeWorker)
<1>1. TypeOK /\ AddressBeforeWorker /\ [Next]_vars =>
         (TypeOK /\ AddressBeforeWorker)'
  BY TypeStep
<1>2. QED
  BY TypeInit, <1>1, PTL DEF Spec

-----------------------------------------------------------------------------
\* Only Close gives a descriptor back while sock names it, and it leaves its
\* thread at sock = -1.
LEMMA NoDanglingStep ==
  ASSUME TypeOK, NoDangling, [Next]_vars
  PROVE  NoDangling'
<1> USE TcpAssumption DEF TypeOK, NoDangling, Threads
<1>1. ASSUME NEW x \in Threads, Socket(x) PROVE NoDangling'
  BY <1>1, LowestIsFree DEF Socket, Goto, AfterFailedStart
<1>2. ASSUME NEW x \in Threads, Connect(x) PROVE NoDangling'
  BY <1>2 DEF Connect, Goto, AfterFailedStart
<1>3. ASSUME NEW x \in Threads, ConnectOk(x) PROVE NoDangling'
  BY <1>3 DEF ConnectOk, Goto
<1>4. ASSUME NEW x \in Threads, ConnectFails(x) PROVE NoDangling'
  BY <1>4 DEF ConnectFails, CloseThen, Goto, AfterFailedStart
<1>5. ASSUME NEW x \in Threads, SendNothing(x) PROVE NoDangling'
  BY <1>5 DEF SendNothing, SendPcs, Caller, Goto, AfterStart
<1>6. ASSUME NEW x \in Threads, SendOk(x) PROVE NoDangling'
  BY <1>6 DEF SendOk, SendPcs, Caller, Goto, AfterStart
<1>7. ASSUME NEW x \in Threads, SendFails(x) PROVE NoDangling'
  BY <1>7 DEF SendFails, SendPcs, Caller, CloseThen, Goto, AfterStart
<1>8. ASSUME NEW x \in Threads, Close(x) PROVE NoDangling'
  BY <1>8 DEF Close, ClosedFd, Goto
<1>9. ASSUME NEW x \in Threads, Forget(x) PROVE NoDangling'
  BY <1>9 DEF Forget, Forgotten, Goto
<1>10. ASSUME NEW w \in Workers, Loop(w) PROVE NoDangling'
  BY <1>10 DEF Loop, Goto
<1>11. ASSUME NEW w \in Workers, RecvData(w) PROVE NoDangling'
  BY <1>11 DEF RecvData, Goto
<1>12. ASSUME NEW w \in Workers, RecvFails(w) PROVE NoDangling'
  BY <1>12 DEF RecvFails, CloseThen, Goto
<1>13. CASE GotIp
  BY <1>13 DEF GotIp, Goto
<1>14. CASE Spawn
  BY <1>14 DEF Spawn, Goto
<1>15. ASSUME NEW f \in Fds, Break(f) PROVE NoDangling'
  BY <1>15 DEF Break
<1>16. CASE UNCHANGED vars
  BY <1>16 DEF vars
<1>17. QED
  BY <1>1, <1>2, <1>3, <1>4, <1>5, <1>6, <1>7, <1>8, <1>9, <1>10, <1>11,
     <1>12, <1>13, <1>14, <1>15, <1>16 DEF Next, Call

\* A descriptor that was given back stays in sock only inside
\* close(sock); sock = -1, however many threads race over sock.
THEOREM NothingDangles == Spec => []NoDangling
<1>1. Init => NoDangling
  BY DEF Init, NoDangling
<1>2. TypeOK /\ NoDangling /\ [Next]_vars => NoDangling'
  BY NoDanglingStep
<1>3. QED
  BY TypeCorrect, <1>1, <1>2, PTL DEF Spec

-----------------------------------------------------------------------------
(* One GOT_IP in a boot: the event task and the worker it creates take       *)
(* turns, so that sock means the same at both ends of every call.            *)

Active(x) == pc[x] \notin {"none", "noip", "idle"}

\* A worker is created last by the event task, and there is one.
OneThread ==
    \A w \in Workers : pc[w] # "none" =>
        /\ pc[Evt] = "idle"
        /\ \A v \in Workers : v # w => pc[v] = "none"

\* A thread that is about to open a socket has none.
NoneToOpen ==
    /\ pc[Evt] = "noip" => sock = -1
    /\ \A x \in Threads : pc[x] = "socket" => sock = -1

\* After close(sock) nothing is open.
NoneToForget == (\E x \in Threads : pc[x] = "forget") => Open = {}

\* The descriptor a blocked or failed call was given is the one in sock: what
\* close(sock) is about to close is what failed.
SameDescriptor ==
    \A x \in Threads : pc[x] \in {"connecting", "recv", "close"} => fd[x] = sock

OneConnectionInv ==
    "rejoin" \notin Faults =>
        /\ Open \subseteq {sock}
        /\ OneThread
        /\ NoneToOpen
        /\ NoneToForget
        /\ SameDescriptor

\* With one GOT_IP every step keeps the one connection in sock.
LEMMA OneConnectionStep ==
  ASSUME TypeOK, OneConnectionInv, [Next]_vars
  PROVE  OneConnectionInv'
<1> USE TcpAssumption DEF TypeOK, OneConnectionInv, OneThread, NoneToOpen,
      NoneToForget, SameDescriptor, Threads, Open
<1>1. ASSUME NEW x \in Threads, Socket(x) PROVE OneConnectionInv'
  <2> SUFFICES ASSUME "rejoin" \notin Faults PROVE OneConnectionInv'
    BY DEF OneConnectionInv
  <2>1. Open = {} /\ Open # Fds
    BY <1>1 DEF Socket, Fds
  <2>2. PICK f \in Fds : sock' = f /\ conn' = [conn EXCEPT ![f] = "new"]
    BY <1>1, <2>1, LowestIsFree DEF Socket
  <2>3. Open' = {f}
    BY <2>1, <2>2 DEF ConnStates
  <2>4. QED
    BY <1>1, <2>1, <2>2, <2>3 DEF Socket, Goto
<1>2. ASSUME NEW x \in Threads, Connect(x) PROVE OneConnectionInv'
  BY <1>2 DEF Connect, Goto, AfterFailedStart
<1>3. ASSUME NEW x \in Threads, ConnectOk(x) PROVE OneConnectionInv'
  BY <1>3 DEF ConnectOk, Goto
<1>4. ASSUME NEW x \in Threads, ConnectFails(x) PROVE OneConnectionInv'
  BY <1>4 DEF ConnectFails, CloseThen, Goto, AfterFailedStart
<1>5. ASSUME NEW x \in Threads, SendNothing(x) PROVE OneConnectionInv'
  BY <1>5 DEF SendNothing, SendPcs, Caller, Goto, AfterStart
<1>6. ASSUME NEW x \in Threads, SendOk(x) PROVE OneConnectionInv'
  BY <1>6 DEF SendOk, SendPcs, Caller, Goto, AfterStart
<1>7. ASSUME NEW x \in Threads, SendFails(x) PROVE OneConnectionInv'
  BY <1>7 DEF SendFails, SendPcs, Caller, CloseThen, Goto, AfterStart
<1>8. ASSUME NEW x \in Threads, Close(x) PROVE OneConnectionInv'
  <2> SUFFICES ASSUME "rejoin" \notin Faults PROVE OneConnectionInv'
    BY DEF OneConnectionInv
  <2>1. Open' = {}
    BY <1>8 DEF Close, ClosedFd, Fds
  <2>2. \A y \in Threads : pc'[y] \notin {"connecting", "recv", "close", "socket"}
    BY <1>8 DEF Close, Goto
  <2>3. OneThread' /\ pc'[Evt] # "noip"
    BY <1>8 DEF Close, Goto
  <2>4. QED
    BY <2>1, <2>2, <2>3
<1>9. ASSUME NEW x \in Threads, Forget(x) PROVE OneConnectionInv'
  <2> SUFFICES ASSUME "rejoin" \notin Faults PROVE OneConnectionInv'
    BY DEF OneConnectionInv
  <2>1. Open' = {}
    BY <1>9 DEF Forget
  <2>2. \A y \in Threads : pc'[y] \notin {"connecting", "recv", "close", "socket"}
    BY <1>9 DEF Forget, Goto
  <2>3. OneThread'
    BY <1>9 DEF Forget, Goto
  <2>4. pc'[Evt] # "noip"
    BY <1>9 DEF Forget, Goto
  <2>5. QED
    BY <2>1, <2>2, <2>3, <2>4
<1>10. ASSUME NEW w \in Workers, Loop(w) PROVE OneConnectionInv'
  BY <1>10 DEF Loop, Goto
<1>11. ASSUME NEW w \in Workers, RecvData(w) PROVE OneConnectionInv'
  BY <1>11 DEF RecvData, Goto
<1>12. ASSUME NEW w \in Workers, RecvFails(w) PROVE OneConnectionInv'
  BY <1>12 DEF RecvFails, CloseThen, Goto
<1>13. CASE GotIp
  BY <1>13 DEF GotIp, Goto
<1>14. CASE Spawn
  BY <1>14 DEF Spawn, Goto
<1>15. ASSUME NEW f \in Fds, Break(f) PROVE OneConnectionInv'
  BY <1>15 DEF Break
<1>16. CASE UNCHANGED vars
  BY <1>16 DEF vars
<1>17. QED
  BY <1>1, <1>2, <1>3, <1>4, <1>5, <1>6, <1>7, <1>8, <1>9, <1>10, <1>11,
     <1>12, <1>13, <1>14, <1>15, <1>16 DEF Next, Call

\* The inductive invariant holds.
LEMMA OneConnectionHolds == Spec => []OneConnectionInv
<1>1. Init => OneConnectionInv
  BY TcpAssumption DEF Init, OneConnectionInv, OneThread, NoneToOpen,
     NoneToForget, SameDescriptor, Threads, Open
<1>2. TypeOK /\ OneConnectionInv /\ [Next]_vars => OneConnectionInv'
  BY OneConnectionStep
<1>3. QED
  BY TypeCorrect, <1>1, <1>2, PTL DEF Spec

\* With one GOT_IP no error path of send, recv or connect leaks a connection.
THEOREM NothingLeaks == Spec => []OneConnection
<1>1. OneConnectionInv => OneConnection
  BY DEF OneConnectionInv, OneConnection
<1>2. QED
  BY OneConnectionHolds, <1>1, PTL
=============================================================================
