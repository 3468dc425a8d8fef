----------------------------- MODULE OtaHandler -----------------------------
(***************************************************************************)
(* The life of an OTA task: how the client accepts it, records it in NVS,  *)
(* downloads, restarts, and reports it to the gateway (GW).  The module    *)
(* composes what ota_handler.c, tcp_client.c, msg_handler.c, wifi_sta.c    *)
(* and the boot sequence of main.c and init.c do to the shared state, one  *)
(* action per step that another thread, a reset or the network can come    *)
(* between.                                                                *)
(*                                                                         *)
(* Threads: the main task (app_main), the event task that runs             *)
(* wifi_event_handler (Evt), and the tcp_client_task instances (Workers).  *)
(* A thread's pc names the call it will make next.                         *)
(***************************************************************************)
EXTENDS Integers

CONSTANTS
    Tasks,      \* the task ids the GW may send
    LongTasks,  \* those of 64 bytes or more, which ota_task_id cannot hold
    NoTask,     \* the empty task id
    Workers,    \* instances of tcp_client_task one boot may create
    Evt,        \* the event task
    Faults      \* what the environment may do: a subset of FaultKinds

FaultKinds == {
    "reset",    \* the device loses power, panics or aborts, at any moment
    "die",      \* the connection breaks and the client can see that it did
    "vanish",   \* the GW goes away and no FIN or RST ever arrives
    "refuse",   \* the first connect of a GOT_IP may fail
    "rejoin",   \* the station gets an IP address again within one boot
    "early",    \* GOT_IP may come before platform_init has finished
    "nvs",      \* nvs_open, nvs_get_* and nvs_set_* may fail
    "erase",    \* the NVS partition may be erased during boot
    "nomem",    \* malloc may find no memory for a message
    "notask" }  \* xTaskCreate may find no memory for a worker

ASSUME OtaAssumption ==
    /\ NoTask \notin Tasks
    /\ LongTasks \subseteq Tasks
    /\ Evt \notin Workers
    /\ Faults \subseteq FaultKinds

Threads == Workers \union {Evt}

VARIABLES
    nvs_flag,       \* NVS "ota_flag": 0, 1, or -1 while the key is absent
    nvs_task,       \* NVS "task_id": NoTask while the key is absent
    running,        \* the image that runs (NoTask: the one from the factory)
    staged,         \* the image the boot loader will start instead, or NoTask
    ota_flag,       \* the static variables of ota_handler.c
    ota_task_id,
    boot,           \* what app_main does next
    pc,             \* what each thread does next
    job,            \* the task a worker is processing, NoTask if it is not
    link,           \* the connection the global sock stands for
    orphan,         \* workers whose recv waits on a connection sock has left
    spoiled,        \* downloads another download has overlapped
    \* The rest is history, read by no action's guard.
    told,           \* the last OTA result sent since boot
    owed,           \* an installed task the GW has not been told about
    givenUp,        \* this boot has begun to clear the record
    unsettled       \* tasks whose record the code could not keep truthful

flash == <<nvs_flag, nvs_task, running, staged>>
ram   == <<ota_flag, ota_task_id, boot>>
net   == <<link, orphan>>
ghost == <<told, owed, givenUp, unsettled>>
vars  == <<flash, ram, pc, job, net, spoiled, ghost>>

-----------------------------------------------------------------------------
(* What the steps share. *)

Silence == [state |-> "none", task |-> NoTask]
NA      == [state |-> "NA", task |-> NoTask]

Complete(t) == [state |-> "complete", task |-> t]

ResultFromNvs == IF nvs_flag = 1 /\ nvs_task # NoTask  \* mutant: NVS is read
                    THEN Complete(nvs_task)
                    ELSE NA

\* What client_send_ota_result says (ota_handler.c:90).
Result == IF ota_flag /\ ota_task_id # NoTask
             THEN Complete(ota_task_id)
             ELSE NA

BootImage == IF staged # NoTask THEN staged ELSE running

\* msg_handler_init, the last step of boot, sets connected_cb.
CallbackSet == boot = "done"

\* Where a thread goes on when tcp_client_start returns.
AfterStart(x) == IF x = Evt THEN "spawn" ELSE "loop"
AfterFailedStart(x) == IF x = Evt THEN "idle" ELSE "loop"

\* tcp_client_start calls connected_cb if it is set, and then returns.
AfterConnectUnchecked(x) == "register"                  \* mutant: no NULL test

AfterConnectOnce(x) ==                  \* mutant: only reconnections report
    IF x = Evt THEN AfterStart(x) ELSE "register"

AfterConnect(x) == IF CallbackSet THEN "register" ELSE AfterStart(x)

\* client_send_ota_result returns straight after tcp_client_send.
AfterReportClear(x) == "clear1"                         \* mutant: then clears

AfterReport(x) == AfterStart(x)

\* close(sock); sock = -1
StillOpen == link                                       \* mutant: sock is kept

AfterClose == "down"

\* What ota_handler_process does when esp_https_ota fails.
KeepFlag == "loop"                                      \* mutant: returns

AfterFailedOta == "clrFlag"

\* ota_handler_process has accepted a task and has not returned.
BusyPcs == {"setFlag", "setTask", "progress", "wait", "download", "restart",
            "clrFlag", "clrTask"}
Busy(w) == pc[w] \in BusyPcs

Pcs == BusyPcs \union {"none", "noip", "idle", "connect", "register", "report",
                       "clear1", "clear2", "spawn", "loop", "recv"}

\* The flag may be 1 in NVS although this worker's task is not installed.
InFlightPcs == {"setTask", "progress", "wait", "download", "clrFlag"}
InFlight(w) == pc[w] \in InFlightPcs

Goto(x, l) == pc' = [pc EXCEPT ![x] = l]

Mark(ts) == unsettled' = unsettled \union (ts \ {NoTask})

\* tcp_client_send: the bytes go to TCP, which delivers them only if the
\* connection is up; an error, or sock = -1, sends nothing and leaves -1.
SendOk    == link \in {"up", "dead", "ghost"} /\ UNCHANGED link
SendFails == link # "up" /\ link' = "down"
Send      == SendOk \/ SendFails

-----------------------------------------------------------------------------
TypeOK ==
    /\ nvs_flag \in {-1, 0, 1}
    /\ nvs_task \in Tasks \union {NoTask}
    /\ running \in Tasks \union {NoTask}
    /\ staged \in Tasks \union {NoTask}
    /\ ota_flag \in BOOLEAN
    /\ ota_task_id \in (Tasks \ LongTasks) \union {NoTask}
    /\ boot \in {"nvs", "wifi", "flag1", "task1", "flag2", "task2", "msg",
                 "done"}
    /\ pc \in [Threads -> Pcs]
    /\ \A x \in Threads :
          pc[x] \in {"register", "report", "clear1", "clear2"} => CallbackSet
    /\ job \in [Workers -> Tasks \union {NoTask}]
    /\ link \in {"down", "opening", "up", "dead", "ghost"}
    /\ orphan \subseteq Workers
    /\ spoiled \subseteq Workers
    /\ told \in [state : {"none", "NA", "complete"},
                 task : Tasks \union {NoTask}]
    /\ owed \in Tasks \union {NoTask}
    /\ givenUp \in BOOLEAN
    /\ unsettled \subseteq Tasks

\* The state the C runtime gives to RAM at every boot.
NoThreads == [x \in Threads |-> IF x = Evt THEN "noip" ELSE "none"]

Init ==
    /\ nvs_flag = -1
    /\ nvs_task = NoTask
    /\ running = NoTask
    /\ staged = NoTask
    /\ ota_flag = FALSE
    /\ ota_task_id = NoTask
    /\ boot = "nvs"
    /\ pc = NoThreads
    /\ job = [w \in Workers |-> NoTask]
    /\ link = "down"
    /\ orphan = {}
    /\ spoiled = {}
    /\ told = Silence
    /\ owed = NoTask
    /\ givenUp = FALSE
    /\ unsettled = {}

\* Everything in RAM is lost; the boot loader starts the image otadata
\* selects, or the one that ran before if that one does not verify.
Reboot ==
    /\ running' = BootImage
    /\ staged' = NoTask
    /\ ota_flag' = FALSE
    /\ ota_task_id' = NoTask
    /\ boot' = "nvs"
    /\ pc' = NoThreads
    /\ job' = [w \in Workers |-> NoTask]
    /\ link' = "down"
    /\ orphan' = {}
    /\ spoiled' = {}
    /\ told' = Silence
    /\ givenUp' = FALSE
    /\ Mark(IF nvs_flag = 1 /\ \E w \in Workers : InFlight(w)
               THEN {nvs_task} ELSE {})
    /\ UNCHANGED <<nvs_flag, nvs_task, owed>>

\* Power loss, brown-out, the panic of a NULL dereference in
\* ota_handler_process, the abort of an ESP_ERROR_CHECK in the LED task.
Reset == "reset" \in Faults /\ Reboot

-----------------------------------------------------------------------------
(* app_main and platform_init. *)

\* nvs_flash_init, which erases the partition when it finds no free page.
BootNvs ==
    /\ boot = "nvs"
    /\ boot' = "wifi"
    /\ \/ UNCHANGED <<nvs_flag, nvs_task, owed>>
       \/ /\ "erase" \in Faults
          /\ nvs_flag' = -1
          /\ nvs_task' = NoTask
          /\ owed' = NoTask
    /\ UNCHANGED <<running, staged, ota_flag, ota_task_id, pc, job, net,
                   spoiled, told, givenUp, unsettled>>

\* wifi_sta_init: from here on the event task may handle GOT_IP.
BootWifi ==
    /\ boot = "wifi"
    /\ boot' = "flag1"
    /\ UNCHANGED <<flash, ota_flag, ota_task_id, pc, job, net, spoiled, ghost>>

\* ota_handler_init reads the flag and then the task id; platform_init calls
\* it twice.  A key that is absent, or cannot be read, leaves the variable as it
\* was; when nvs_open fails neither is read.
LoadFlag ==
    /\ boot \in {"flag1", "flag2"}
    /\ boot' = IF boot = "flag1" THEN "task1" ELSE "task2"
    /\ \/ ota_flag' = IF nvs_flag = -1 THEN ota_flag ELSE nvs_flag = 1
       \/ "nvs" \in Faults /\ UNCHANGED ota_flag
    /\ UNCHANGED <<flash, ota_task_id, pc, job, net, spoiled, ghost>>

\* What nvs_get_str makes of ota_task_id, which has 64 bytes: a string with its
\* zero that is longer is refused, and the result is not looked at.
Loaded == IF nvs_task \in LongTasks \union {NoTask} THEN ota_task_id
             ELSE nvs_task

LoadTask ==
    /\ boot \in {"task1", "task2"}
    /\ boot' = IF boot = "task1" THEN "flag2" ELSE "msg"
    /\ ota_task_id' = Loaded \/ ("nvs" \in Faults /\ UNCHANGED ota_task_id)
    /\ UNCHANGED <<flash, ota_flag, pc, job, net, spoiled, ghost>>

\* msg_handler_init sets connected_cb.
BootMsg ==
    /\ boot = "msg"
    /\ boot' = "done"
    /\ UNCHANGED <<flash, ota_flag, ota_task_id, pc, job, net, spoiled, ghost>>

Boot == BootNvs \/ BootWifi \/ LoadFlag \/ LoadTask \/ BootMsg

-----------------------------------------------------------------------------
(* The connection: wifi_event_handler, tcp_client_start, tcp_client_task. *)

\* GOT_IP: tcp_client_start opens a socket and overwrites sock with it, also
\* when a worker is blocked in recv on the socket that sock named before.
GotIp ==
    /\ boot \notin {"nvs", "wifi"}
    /\ "early" \in Faults \/ CallbackSet
    /\ pc[Evt] = "noip" \/ (pc[Evt] = "idle" /\ "rejoin" \in Faults)
    /\ \E w \in Workers : pc[w] = "none"
    /\ Goto(Evt, "connect")
    /\ link' = "opening"
    /\ orphan' = {w \in Workers : pc[w] = "recv"}
    /\ UNCHANGED <<flash, ram, job, spoiled, ghost>>

\* connect() succeeds.  If another thread has closed the socket meanwhile,
\* sock is -1.
ConnectOk(x) ==
    /\ pc[x] = "connect"
    /\ link' = IF link = "opening" THEN "up" ELSE link
    /\ Goto(x, AfterConnect(x))
    /\ UNCHANGED <<flash, ram, job, orphan, spoiled, ghost>>

\* connect() fails: the GW refuses it (for a GOT_IP that is the fault refuse),
\* or another thread has closed the socket or connected it before.
ConnectFails(x) ==
    /\ pc[x] = "connect"
    /\ x = Evt /\ link = "opening" => "refuse" \in Faults
    /\ link' = "down"
    /\ Goto(x, AfterFailedStart(x))
    /\ UNCHANGED <<flash, ram, job, orphan, spoiled, ghost>>

\* client_register_send_register, called by msg_handler_on_connected.
Register(x) ==
    /\ pc[x] = "register"
    /\ Send
    /\ Goto(x, "report")
    /\ UNCHANGED <<flash, ram, job, orphan, spoiled, ghost>>

\* client_send_ota_result, called by msg_handler_on_connected.
Report(x) ==
    /\ pc[x] = "report"
    /\ \/ /\ SendOk
          /\ told' = Result
          /\ owed' = IF link = "up" /\ Result = Complete(owed)
                        THEN NoTask ELSE owed
       \/ /\ SendFails
          /\ UNCHANGED <<told, owed>>
    /\ Goto(x, AfterReport(x))
    /\ UNCHANGED <<flash, ram, job, orphan, spoiled, givenUp, unsettled>>

\* Without memory for the message nothing is sent, and only then does the
\* function reach ota_handler_clear_flag: the record is given up.
ReportNoMemory(x) ==
    /\ "nomem" \in Faults
    /\ pc[x] = "report"
    /\ owed' = NoTask
    /\ givenUp' = TRUE
    /\ Goto(x, "clear1")
    /\ UNCHANGED <<flash, ram, job, net, spoiled, told, unsettled>>

\* ota_handler_clear_flag: the flag, then the key and the variables.
ClearFlag(x) ==
    /\ pc[x] = "clear1"
    /\ \/ nvs_flag' = 0 /\ Goto(x, "clear2")
       \/ "nvs" \in Faults /\ UNCHANGED nvs_flag
                           /\ Goto(x, "clear2")
       \/ "nvs" \in Faults /\ UNCHANGED nvs_flag
                           /\ Goto(x, AfterStart(x))
    /\ UNCHANGED <<nvs_task, running, staged, ram, job, net, spoiled, ghost>>

ClearTask(x) ==
    /\ pc[x] = "clear2"
    /\ nvs_task' = NoTask \/ ("nvs" \in Faults /\ UNCHANGED nvs_task)
    /\ ota_flag' = FALSE
    /\ ota_task_id' = NoTask
    /\ Goto(x, AfterStart(x))
    /\ UNCHANGED <<nvs_flag, running, staged, boot, job, net, spoiled, ghost>>

\* tcp_client_start has succeeded: xTaskCreate, whose result is not checked.
Spawn ==
    /\ pc[Evt] = "spawn"
    /\ \/ \E w \in Workers :
             /\ pc[w] = "none"
             /\ pc' = [pc EXCEPT ![Evt] = "idle", ![w] = "loop"]
       \/ "notask" \in Faults /\ Goto(Evt, "idle")
    /\ UNCHANGED <<flash, ram, job, net, spoiled, ghost>>

\* The head of tcp_client_task's loop.  A worker exists only after a
\* tcp_client_start that succeeded, so the address of the GW is known.
Loop(w) ==
    /\ pc[w] = "loop"
    /\ IF link = "down"
          THEN Goto(w, "connect") /\ link' = "opening"
          ELSE Goto(w, "recv") /\ UNCHANGED link
    /\ UNCHANGED <<flash, ram, job, orphan, spoiled, ghost>>

\* recv returns 0 or an error: the worker closes whatever sock names now.
RecvFails(w) ==
    /\ pc[w] = "recv"
    /\ w \in orphan \/ link \in {"down", "opening", "dead"}
    /\ link' = AfterClose
    /\ orphan' = orphan \ {w}
    /\ Goto(w, "loop")
    /\ UNCHANGED <<flash, ram, job, spoiled, ghost>>

\* The connection breaks, visibly to the client or not.
LinkDies ==
    /\ link = "up"
    /\ \/ "die" \in Faults /\ link' = "dead"
       \/ "vanish" \in Faults /\ link' = "ghost"
    /\ UNCHANGED <<flash, ram, pc, job, orphan, spoiled, ghost>>

\* The worker receives another message: keep_alive and sync_request are
\* answered on whatever sock names now, the rest changes nothing.
Answer(w) ==
    /\ pc[w] = "recv"
    /\ w \in orphan \/ link \in {"up", "dead", "ghost"}
    /\ Send \/ UNCHANGED link
    /\ orphan' = orphan \ {w}
    /\ Goto(w, "loop")
    /\ UNCHANGED <<flash, ram, job, spoiled, ghost>>

-----------------------------------------------------------------------------
(* ota_handler_process. *)

\* The worker receives an ota_task, possibly one the connection had buffered
\* before it broke, and msg_handler_process calls ota_handler_process.  A task
\* taken before platform_init has read NVS, or while another worker is at work
\* on one, leaves a record nobody can trust.
Accept(w, t) ==
    /\ pc[w] = "recv"
    /\ w \in orphan \/ link \in {"up", "dead", "ghost"}
    /\ job' = [job EXCEPT ![w] = t]
    /\ orphan' = orphan \ {w}
    /\ owed' = NoTask
    /\ LET others == {v \in Workers \ {w} : Busy(v)}
       IN  Mark((IF others # {} THEN {t} \union {job[v] : v \in others}
                                ELSE {})
                \union (IF CallbackSet THEN {} ELSE {t, nvs_task}))
    /\ Goto(w, "setFlag")
    /\ UNCHANGED <<flash, ram, link, spoiled, told, givenUp>>

\* ota_set_flag_task(1, task_id): nvs_open and nvs_set_u8.  The parameter
\* hides the static ota_flag, so the variables in RAM stay as they are.
SetFlag(w) ==
    /\ pc[w] = "setFlag"
    /\ \/ /\ nvs_flag' = 1
          /\ Goto(w, "setTask")
          /\ UNCHANGED unsettled
       \/ /\ "nvs" \in Faults
          /\ Goto(w, "setTask")
          /\ UNCHANGED <<nvs_flag, unsettled>>
       \/ /\ "nvs" \in Faults
          /\ Goto(w, "progress")
          /\ Mark({nvs_task})
          /\ UNCHANGED nvs_flag
    /\ UNCHANGED <<nvs_task, running, staged, ram, job, net, spoiled, told,
                   owed, givenUp>>

\* ota_set_flag_task(1, task_id): nvs_set_str.
SetTask(w) ==
    /\ pc[w] = "setTask"
    /\ \/ /\ nvs_task' = job[w]
          /\ UNCHANGED unsettled
       \/ /\ "nvs" \in Faults
          /\ Mark({nvs_task})
          /\ UNCHANGED nvs_task
    /\ Goto(w, "progress")
    /\ UNCHANGED <<nvs_flag, running, staged, ram, job, net, spoiled, told,
                   owed, givenUp>>

\* send_json_gw announces DWLD_DONE; its result is ignored.
Progress(w) ==
    /\ pc[w] = "progress"
    /\ Send
    /\ Goto(w, "wait")
    /\ UNCHANGED <<flash, ram, job, orphan, spoiled, ghost>>

\* After five seconds esp_https_ota starts to overwrite the idle partition.
Download(w) ==
    /\ pc[w] = "wait"
    /\ staged' = NoTask
    /\ LET others == {v \in Workers \ {w} : pc[v] = "download"}
       IN  spoiled' = IF others = {} THEN spoiled \ {w}
                                     ELSE spoiled \union others \union {w}
    /\ Goto(w, "download")
    /\ UNCHANGED <<nvs_flag, nvs_task, running, ram, job, net, ghost>>

\* esp_https_ota verifies the image and selects it for the next boot.
OtaOk(w) ==
    /\ pc[w] = "download"
    /\ w \notin spoiled
    /\ staged' = job[w]
    /\ owed' = job[w]
    /\ Goto(w, "restart")
    /\ UNCHANGED <<nvs_flag, nvs_task, running, ram, job, net, spoiled, told,
                   givenUp, unsettled>>

OtaFails(w) ==
    /\ pc[w] = "download"
    /\ Goto(w, AfterFailedOta)
    /\ UNCHANGED <<flash, ram, job, net, spoiled, ghost>>

\* esp_restart
Restart(w) == pc[w] = "restart" /\ Reboot

\* ota_set_flag_task(0, task_id): nvs_open and nvs_set_u8.
UnsetFlag(w) ==
    /\ pc[w] = "clrFlag"
    /\ \/ /\ nvs_flag' = 0
          /\ Goto(w, "clrTask")
          /\ UNCHANGED <<job, unsettled>>
       \/ /\ "nvs" \in Faults
          /\ Goto(w, "clrTask")
          /\ Mark({nvs_task, job[w]})
          /\ UNCHANGED <<nvs_flag, job>>
       \/ /\ "nvs" \in Faults
          /\ Goto(w, "loop")
          /\ Mark({nvs_task})
          /\ job' = [job EXCEPT ![w] = NoTask]
          /\ UNCHANGED nvs_flag
    /\ UNCHANGED <<nvs_task, running, staged, ram, net, spoiled, told, owed,
                   givenUp>>

\* ota_set_flag_task(0, task_id): nvs_set_str, and the worker is free again.
UnsetTask(w) ==
    /\ pc[w] = "clrTask"
    /\ nvs_task' = job[w] \/ ("nvs" \in Faults /\ UNCHANGED nvs_task)
    /\ Goto(w, "loop")
    /\ job' = [job EXCEPT ![w] = NoTask]
    /\ UNCHANGED <<nvs_flag, running, staged, ram, net, spoiled, ghost>>

-----------------------------------------------------------------------------
Start(x) == \/ ConnectOk(x) \/ ConnectFails(x)
            \/ Register(x) \/ Report(x) \/ ReportNoMemory(x)
            \/ ClearFlag(x) \/ ClearTask(x)

Process(w) == \/ SetFlag(w) \/ SetTask(w) \/ Progress(w) \/ Download(w)
              \/ OtaOk(w) \/ OtaFails(w) \/ Restart(w)
              \/ UnsetFlag(w) \/ UnsetTask(w)

Next ==
    \/ Reset
    \/ Boot
    \/ GotIp \/ Spawn
    \/ LinkDies
    \/ \E x \in Threads : Start(x)
    \/ \E w \in Workers :
          \/ Loop(w) \/ RecvFails(w) \/ Answer(w)
          \/ \E t \in Tasks : Accept(w, t)
          \/ Process(w)

Spec == Init /\ [][Next]_vars

(* Fairness.  The scheduler of FreeRTOS runs every task that can run, lwip   *)
(* reports a connection it has seen break, esp_https_ota returns, and the    *)
(* station gets its address.  A GW that listens often enough accepts.        *)
Fairness ==
    /\ WF_vars(Boot) /\ WF_vars(GotIp) /\ WF_vars(Spawn)
    /\ \A x \in Threads : WF_vars(Start(x)) /\ SF_vars(ConnectOk(x))
    /\ \A w \in Workers :
          WF_vars(Loop(w)) /\ SF_vars(RecvFails(w)) /\ WF_vars(Process(w))

FairSpec == Spec /\ Fairness

-----------------------------------------------------------------------------
(* Properties. *)

\* "complete" is said only of the image that runs, or of a task whose record
\* could not be settled: it was cut short by a reset between the write of the
\* flag and the end of ota_handler_process, an NVS write failed under it, or
\* it was taken during boot or while another worker processed a task.  In all
\* other histories the flag that ota_handler.c sets before the download has
\* been taken back, or the image is there, by the time anybody reads it.
TrueComplete ==
    told.state = "complete" => told.task \in {running} \union unsettled

\* Within one boot the GW is told one outcome, repeated on every connection: a
\* task accepted, failed or half done since boot never shows through, and a
\* report that was sent clears nothing.  Only where a report found no memory in
\* this very boot, and the record was given up for it, may "complete" turn into
\* NA; NA never turns into "complete".
OneStoryPerBoot ==
    [][told' # told => \/ told = Silence \/ told' = Silence
                       \/ told' = NA /\ givenUp]_vars

\* From the moment an image is installed until the GW has been told, or has
\* sent another task, the record says so and the boot loader starts it: no
\* reset, reconnection or lost message in between destroys either.
RecordSurvives ==
    \/ owed = NoTask
    \/ nvs_flag = 1 /\ nvs_task = owed /\ BootImage = owed
    \/ owed \in unsettled
    \/ "nvs" \in Faults
    \/ {"nomem", "rejoin"} \subseteq Faults

\* A worker takes a task only after the outcome of the one before has been
\* handed to TCP in this boot, so that a new task never overwrites a record
\* that was not sent: tcp_client_start reports before it returns, and a
\* report that fails leaves no connection to receive on.
ReportBeforeTask ==
    \/ \A w \in Workers : ~ Busy(w)
    \/ told # Silence
    \/ Faults \intersect {"early", "rejoin", "nomem"} # {}

\* A step by which the environment disturbs the client.
Disturbance ==
    \/ LinkDies
    \/ Reset /\ \A w \in Workers : pc[w] # "restart"

\* If resets and broken connections end, the GW learns of an installed image
\* whose id is shorter than 64 bytes (or replaces the task): the report lost in
\* a connection that broke is sent again by the reconnection of tcp_client_task
\* or after the next boot.
ReportedAtLast ==
    <>[][~ Disturbance]_vars =>
        \A t \in Tasks \ LongTasks : (owed = t) ~> (owed # t)

-----------------------------------------------------------------------------
(* The promise to the GW, with the story of a boot read off the variables of *)
(* ota_handler.c from the moment nothing will be loaded into them any more.  *)

Promise == INSTANCE OtaPromise
             WITH image <- running, next <- BootImage,
                  taken <- {job[w] : w \in {v \in Workers : Busy(v)}},
                  story <- IF CallbackSet THEN Result ELSE Silence,
                  doubtful <- unsettled,
                  Unspeakable <- LongTasks,
                  Reliable <- /\ "nvs" \notin Faults
                              /\ ~ ({"nomem", "rejoin"} \subseteq Faults),
                  Orderly <- Faults \intersect {"early", "rejoin", "nomem"} = {},
                  Lasting <- Faults \intersect {"erase", "nomem"} = {}

\* Whatever is reset, lost, broken or processed twice, the GW sees no more
\* than this: tasks are taken, installed or given up, and each boot tells one
\* story; an installed image that is not in doubt is told of, as complete,
\* by the boots that run it, until the GW has heard it; one whose id has 64
\* bytes or more stays on record and runs, and all its boots say NA.
KeepsPromise == Promise!PromiseSpec

-----------------------------------------------------------------------------
(* What the comments of the code say, where the code does otherwise. *)

\* ota_handler.h:7-13 puts COMPLETE after DWLD_DONE and UPGRADING: the state
\* "complete" is for a task whose image has been installed.
CompleteMeansInstalled ==
    told.state = "complete" => told.task = running
=============================================================================
