-------------------------- MODULE MsgHandler_proofs --------------------------
(***************************************************************************)
(* MsgHandler for every heap and every length of messages: the heap always  *)
(* holds what the messages of this boot have leaked and what the thread has *)
(* in hand.                                                                 *)
(***************************************************************************)
EXTENDS MsgHandler, TLAPS

Leaked == 2 * answered + 3 * announced + unannounced

Building == {"create", "print", "copy", "send"}

\* What is in hand when a message is begun: nothing on a new connection, the
\* tree of the message that is answered, or three trees of an OTA task.
Base == IF after = "finish" THEN 1 ELSE IF after = "download" THEN 3 ELSE 0

\* What the message itself has taken so far.
Built ==
    IF pc = "create" THEN 0 ELSE IF pc = "print" THEN 1
    ELSE IF pc = "copy" THEN 2 ELSE 3

\* Which message is built, and where the thread goes on after it.
Errand ==
    pc \in Building =>
        \/ after = "report" /\ job = "register"
        \/ after = "recv" /\ job = "report"
        \/ after = "finish" /\ job \in {"ack", "register"}
        \/ after = "download" /\ job = "progress"

Accounts ==
    /\ pc \in {"recv", "down", "parse"} => heap = Leaked
    /\ pc \in {"task", "finish"} => heap = Leaked + 1
    /\ pc = "download" => heap = Leaked + 2
    /\ pc \in Building => heap = Leaked + Base + Built

HeapInv == TypeOK /\ Errand /\ Accounts

-----------------------------------------------------------------------------
\* The heap starts empty, and each step of the client keeps its accounts.
THEOREM HeapInvariant == Spec => []HeapInv
<1>1. Init => HeapInv
  BY MsgAssumption
     DEF Init, HeapInv, TypeOK, Errand, Accounts, Leaked, Building, Pcs, Jobs
<1>2. HeapInv /\ [Next]_vars => HeapInv'
  <2> SUFFICES ASSUME HeapInv, [Next]_vars PROVE HeapInv'
    OBVIOUS
  <2> USE MsgAssumption DEF HeapInv, TypeOK, Errand, Accounts, Leaked, Building,
        Base, Built, Pcs, Jobs, net, counts
  <2>1. CASE Connected
    BY <2>1 DEF Connected
  <2>2. CASE Create
    BY <2>2 DEF Create, Allocate, Excuse
  <2>3. CASE PrintMessage
    BY <2>3 DEF PrintMessage, Allocate, Excuse
  <2>4. CASE Copy
    <3>1. CASE Allocate /\ pc' = "send" /\ UNCHANGED <<after, job, awaited, unannounced>>
      BY <2>4, <3>1 DEF Copy, Allocate
    <3>2. CASE after = "report" /\ Free(2)
      BY <2>4, <3>2 DEF Copy, Allocate, Free, Return
    <3>3. CASE after # "report" /\ Free(2)
      BY <2>4, <3>3 DEF Copy, Allocate, Free, Return
    <3> QED BY <2>4, <3>1, <3>2, <3>3 DEF Copy
  <2>5. CASE SendMessage
    <3>1. CASE after = "report"
      BY <2>5, <3>1 DEF SendMessage, Free, FreedAfterSend, Return
    <3>2. CASE after # "report"
      BY <2>5, <3>2 DEF SendMessage, Free, FreedAfterSend, Return
    <3> QED BY <3>1, <3>2
  <2>6. CASE Recv
    BY <2>6 DEF Recv
  <2>7. CASE Closed
    BY <2>7 DEF Closed
  <2>8. CASE Reject
    BY <2>8 DEF Reject, Excuse
  <2>9. CASE Task
    BY <2>9 DEF Task, Excuse
  <2>10. CASE Download
    BY <2>10 DEF Download, Free, Excuse
  <2>11. CASE Finish
    BY <2>11 DEF Finish, Free, Deleted
  <2>12. CASE Reboot
    BY <2>12 DEF Reboot
  <2>13. ASSUME NEW t \in Types, Dispatch(t) PROVE HeapInv'
    BY <2>13 DEF Dispatch, Allocate, Answer
  <2>14. CASE Breaks
    BY <2>14 DEF Breaks
  <2>15. ASSUME NEW t \in Types, GwSends(t) PROVE HeapInv'
    BY <2>15 DEF GwSends
  <2>16. CASE UNCHANGED vars
    BY <2>16 DEF vars
  <2> QED
    BY <2>1, <2>2, <2>3, <2>4, <2>5, <2>6, <2>7, <2>8, <2>9, <2>10, <2>11,
       <2>12, <2>13, <2>14, <2>15, <2>16 DEF Next, Client
<1> QED BY <1>1, <1>2, PTL DEF Spec

\* Between two messages the client holds what it has leaked and nothing else
\* (msg_handler.c:42), however large the heap.
THEOREM LeaksAreExact == Spec => []EveryMessageLeaks
<1>1. HeapInv => EveryMessageLeaks
  BY DEF HeapInv, Accounts, Leaked, EveryMessageLeaks
<1> QED BY <1>1, HeapInvariant, PTL

\* A boot sends no more messages than half the blocks of its heap.
THEOREM LeaksAreBounded ==
    Spec => [](pc = "recv" => 2 * (answered + announced) <= HeapSize)
<1>1. HeapInv => (pc = "recv" => 2 * (answered + announced) <= HeapSize)
  BY MsgAssumption DEF HeapInv, TypeOK, Accounts, Leaked
<1> QED BY <1>1, HeapInvariant, PTL
=============================================================================
