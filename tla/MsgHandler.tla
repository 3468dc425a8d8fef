----------------------------- MODULE MsgHandler -----------------------------
(***************************************************************************)
(* What the client says and hears (handler/msg_handler, app/client_register *)
(* and the senders of handler/ota_handler), with the heap it uses.  TCP is a *)
(* stream of bytes: a message is a row of parts, recv returns some of those *)
(* that are there, and each recv is parsed once.  One thread at a time is in *)
(* this code, as in a boot with one GOT_IP (see TcpClient).                 *)
(***************************************************************************)
EXTENDS Integers, SequencesExt

CONSTANTS
    HeapSize,   \* blocks: trees of items and texts
    Parts,      \* parts of a message
    RxParts,    \* parts that fit into rx_buffer
    MaxWire     \* bound on the parts under way

ASSUME MsgAssumption ==
    /\ HeapSize \in Nat
    /\ Parts \in Nat \ {0} /\ RxParts \in Nat \ {0} /\ MaxWire \in Nat

Types == {"register_ack", "heartbeat", "sync_request", "ota_task", "keep_alive"}

VARIABLES
    pc,         \* where the thread is
    after,      \* where it goes on when its message is sent
    job,        \* the message it builds
    link,       \* external: the connection: "down", "up" or "broken"
    wire,       \* external: parts the GW has sent and recv has not returned
    chunk,      \* rx_buffer
    heap,       \* blocks the client holds
    answered,   \* history of this boot: messages given to tcp_client_send,
    announced,  \*   ota_progress messages among them not counted but here,
    unannounced,\*   and those for which there was no memory
    awaited     \* history: the GW waits for an answer it must get

vars == <<pc, after, job, link, wire, chunk, heap, answered, announced,
          unannounced, awaited>>

net == <<link, wire, chunk>>
counts == <<answered, announced, unannounced>>

Pcs == {"down", "create", "print", "copy", "send", "recv", "parse",
        "task", "download", "finish", "crash"}
Jobs == {"register", "report", "ack", "progress"}

TypeOK ==
    /\ pc \in Pcs /\ after \in Pcs \cup {"report"} /\ job \in Jobs
    /\ heap \in 0..HeapSize
    /\ answered \in Nat /\ announced \in Nat /\ unannounced \in Nat

Init ==
    /\ pc = "down" /\ after = "recv" /\ job = "register"
    /\ link = "down" /\ wire = <<>> /\ chunk = <<>>
    /\ heap = 0
    /\ answered = 0 /\ announced = 0 /\ unannounced = 0
    /\ awaited = FALSE

-----------------------------------------------------------------------------
(* Memory.  Any malloc may fail: the rest of the firmware uses the heap too. *)

Allocate == heap < HeapSize /\ heap' = heap + 1
Free(n) == heap' = heap - n

\* A message that was to be answered is lost for want of memory.
Excuse == awaited' = FALSE

-----------------------------------------------------------------------------
(* A connection, and the message that is being built.                       *)

\* tcp_client_start has connected: msg_handler_on_connected registers first.
Connected ==
    /\ pc = "down"
    /\ link' = "up" /\ wire' = <<>>
    /\ pc' = "create" /\ job' = "register" /\ after' = "report"
    /\ UNCHANGED <<chunk, heap, counts, awaited>>

\* cJSON_CreateObject and the fields (one that finds no memory is missing in the
\* message); without the object the text is NULL too, and strlen traps.
Create ==
    /\ pc = "create"
    /\ \/ Allocate /\ pc' = "print" /\ UNCHANGED awaited
       \/ pc' = "crash" /\ Excuse /\ UNCHANGED heap
    /\ UNCHANGED <<after, job, net, counts>>

\* cJSON_PrintUnformatted, and strlen of its result
PrintMessage ==
    /\ pc = "print"
    /\ \/ Allocate /\ pc' = "copy" /\ UNCHANGED awaited
       \/ pc' = "crash" /\ Excuse /\ UNCHANGED heap
    /\ UNCHANGED <<after, job, net, counts>>

\* Where the caller goes on: after the registration of a new connection comes
\* the OTA result.
Return ==
    IF after = "report"
    THEN pc' = "create" /\ job' = "report" /\ after' = "recv"
    ELSE pc' = after /\ UNCHANGED <<job, after>>

\* json_with_newline.  Only without memory for it does the sender free what it
\* has built; of send_json_gw's two trees that is the one it has parsed.
Copy ==
    /\ pc = "copy"
    /\ \/ Allocate /\ pc' = "send"
          /\ UNCHANGED <<after, job, awaited, unannounced>>
       \/ /\ Free(2) /\ Return /\ Excuse
          /\ unannounced' = unannounced + (IF job = "progress" THEN 1 ELSE 0)
    /\ UNCHANGED <<net, answered, announced>>

FreedAfterSend == 1

\* tcp_client_send, free(json_with_newline) and the early return
SendMessage ==
    /\ pc = "send"
    /\ Free(FreedAfterSend)
    /\ \/ link = "up" /\ UNCHANGED link
       \/ link # "up" /\ link' \in {link, "down"}
    /\ awaited' = (awaited /\ link = "up" /\ job # "ack")
    /\ answered' = answered + (IF job = "progress" THEN 0 ELSE 1)
    /\ announced' = announced + (IF job = "progress" THEN 1 ELSE 0)
    /\ Return
    /\ UNCHANGED <<wire, chunk, unannounced>>

-----------------------------------------------------------------------------
(* tcp_client_task and msg_handler_process.                                 *)

Message(t) == [i \in 1..Parts |-> <<t, i>>]

\* recv returns the bytes that are there, as many as TCP and the buffer like.
Recv ==
    /\ pc = "recv" /\ link # "down" /\ wire # <<>>
    /\ \E n \in 1..RxParts :
          /\ n <= Len(wire)
          /\ chunk' = SubSeq(wire, 1, n)
          /\ wire' = SubSeq(wire, n + 1, Len(wire))
          /\ awaited' = (awaited /\ n >= Parts)
    /\ pc' = "parse"
    /\ UNCHANGED <<after, job, link, heap, counts>>

\* recv fails or returns 0: the worker closes the socket and reconnects.
Closed ==
    /\ pc = "recv" /\ link # "up"
    /\ pc' = "down"
    /\ link' = "down" /\ wire' = <<>> /\ awaited' = FALSE
    /\ UNCHANGED <<after, job, chunk, heap, counts>>

\* mutant: the whole buffer must be one message
BeginsExactly(t) == chunk = Message(t)

\* cJSON_Parse takes the value the buffer begins with and ignores the rest.
BeginsWith(t) == IsPrefix(Message(t), chunk)

\* What is not a message from its first byte on is "Invalid JSON".
Reject ==
    /\ pc = "parse"
    /\ \/ \A t \in Types : ~ BeginsWith(t)
          /\ UNCHANGED awaited
       \/ Excuse
    /\ pc' = "recv"
    /\ chunk' = <<>>
    /\ UNCHANGED <<after, job, link, wire, heap, counts>>

Answer(kind) == pc' = "create" /\ job' = kind /\ after' = "finish"

\* cJSON_Parse succeeds, and msg_type decides.  The buffer is not needed again
\* but by ota_handler_process, which finds in it what is found here.
Dispatch(t) ==
    /\ pc = "parse" /\ BeginsWith(t)
    /\ Allocate
    /\ \/ t = "keep_alive" /\ Answer("ack")
       \/ t = "sync_request" /\ link # "down" /\ Answer("register")
       \/ t = "ota_task" /\ pc' = "task" /\ UNCHANGED <<job, after>>
       \/ /\ \/ t \in {"register_ack", "heartbeat"}
             \/ t = "sync_request" /\ link = "down"
          /\ pc' = "finish"
          /\ UNCHANGED <<job, after>>
    /\ chunk' = <<>>
    /\ UNCHANGED <<link, wire, counts, awaited>>

\* ota_handler_process parses the text again, records the task, and
\* send_json_gw parses it a third time; if that finds no memory, it looks up
\* task_id in NULL.
Task ==
    /\ pc = "task"
    /\ \/ heap + 2 <= HeapSize /\ heap' = heap + 2
          /\ pc' = "create" /\ job' = "progress" /\ after' = "download"
          /\ UNCHANGED awaited
       \/ pc' = "finish" /\ UNCHANGED <<heap, after, job, awaited>>
       \/ pc' = "crash" /\ Excuse /\ UNCHANGED <<heap, after, job>>
    /\ UNCHANGED <<net, counts>>

\* Five seconds and the download later: a restart, or the task's tree is freed.
Download ==
    /\ pc = "download"
    /\ \/ pc' = "crash" /\ Excuse /\ UNCHANGED heap
       \/ pc' = "finish" /\ Free(1) /\ UNCHANGED awaited
    /\ UNCHANGED <<after, job, net, counts>>

\* mutant: cJSON_Delete is forgotten
DeletedNothing == 0

Deleted == 1

\* cJSON_Delete(root)
Finish ==
    /\ pc = "finish"
    /\ Free(Deleted)
    /\ pc' = "recv"
    /\ UNCHANGED <<after, job, net, counts, awaited>>

\* A trap or esp_restart: the heap starts anew.
Reboot ==
    /\ pc = "crash"
    /\ pc' = "down" /\ after' = "recv" /\ job' = "register"
    /\ link' = "down" /\ wire' = <<>> /\ chunk' = <<>>
    /\ heap' = 0
    /\ answered' = 0 /\ announced' = 0 /\ unannounced' = 0
    /\ awaited' = FALSE

-----------------------------------------------------------------------------
(* The GW, whenever it likes, and the network.                              *)

\* What comes first on a connection that carries nothing else is at the front
\* of a recv; the GW may count on an answer to it.
GwSends(t) ==
    /\ link = "up"
    /\ Len(wire) + Parts <= MaxWire
    /\ wire' = wire \o Message(t)
    /\ awaited' = (awaited \/ (wire = <<>> /\ t = "keep_alive"))
    /\ UNCHANGED <<pc, after, job, link, chunk, heap, counts>>

Breaks ==
    /\ link = "up"
    /\ link' = "broken" /\ Excuse
    /\ UNCHANGED <<pc, after, job, wire, chunk, heap, counts>>

-----------------------------------------------------------------------------
Client ==
    \/ Connected \/ Create \/ PrintMessage \/ Copy \/ SendMessage
    \/ Recv \/ Closed \/ Reject \/ Task \/ Download \/ Finish \/ Reboot
    \/ \E t \in Types : Dispatch(t)

Next == Client \/ Breaks \/ \E t \in Types : GwSends(t)

Spec == Init /\ [][Next]_vars

(* Fairness.  The thread runs; a blocked recv returns what there is.         *)
FairSpec == Spec /\ WF_vars(Client)

-----------------------------------------------------------------------------
(* Properties.                                                              *)

\* Between two messages the client holds what it has leaked and nothing else:
\* two blocks for every message it sent, three for every ota_progress, one for
\* an ota_progress it had no memory to send.  So a boot can send no more than
\* HeapSize \div 2 messages before malloc fails (msg_handler.c:42).
EveryMessageLeaks ==
    pc \in {"recv", "down", "parse"} =>
        heap = 2 * answered + 3 * announced + unannounced

\* A keep_alive the GW sends when nothing else is under way, and that arrives in
\* one piece, is answered, whatever is sent behind it and however long a download
\* keeps the client from reading, unless the connection breaks, memory is
\* short or the client restarts.
KeepAliveAnswered == awaited ~> ~awaited
=============================================================================
