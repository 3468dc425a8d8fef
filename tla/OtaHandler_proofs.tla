-------------------------- MODULE OtaHandler_proofs --------------------------
(***************************************************************************)
(* Machine-checked proofs about OtaHandler, for every set of tasks and of  *)
(* workers and every combination of faults.                                *)
(***************************************************************************)
EXTENDS OtaHandler, TLAPS

USE DEF flash, ram, net, ghost, vars

\* The initial state has the right types.
LEMMA TypeInit == Init => TypeOK
<1> SUFFICES ASSUME Init PROVE TypeOK
  OBVIOUS
<1>1. told \in [state : {"none", "NA", "complete"}, task : Tasks \union {NoTask}]
  BY DEF Init, Silence
<1>2. pc \in [Threads -> Pcs]
  BY DEF Init, NoThreads, Pcs
<1>3. \A x \in Threads :
         pc[x] \in {"register", "report", "clear1", "clear2"} => CallbackSet
  BY DEF Init, NoThreads
<1>4. QED
  BY <1>1, <1>2, <1>3 DEF Init, TypeOK

\* Every step keeps the types, and keeps the GW from being told anything
\* before msg_handler_init has set the callback.
LEMMA TypeStep == TypeOK /\ [Next]_vars => TypeOK'
<1> SUFFICES ASSUME TypeOK, [Next]_vars PROVE TypeOK'
  OBVIOUS
<1> USE OtaAssumption DEF TypeOK, Threads, Pcs, BusyPcs, CallbackSet
<1>1. CASE Reboot
  <2>1. told' \in [state : {"none", "NA", "complete"}, task : Tasks \union {NoTask}]
    BY <1>1 DEF Reboot, Silence
  <2>2. /\ pc' \in [Threads -> Pcs]
        /\ \A x \in Threads :
              pc'[x] \notin {"register", "report", "clear1", "clear2"}
    BY <1>1 DEF Reboot, NoThreads
  <2>3. unsettled' \subseteq Tasks
    BY <1>1 DEF Reboot, Mark
  <2>4. running' \in Tasks \union {NoTask}
    BY <1>1 DEF Reboot, BootImage
  <2>5. job' \in [Workers -> Tasks \union {NoTask}]
    BY <1>1 DEF Reboot
  <2>6. QED
    BY <1>1, <2>1, <2>2, <2>3, <2>4, <2>5 DEF Reboot
<1>2. CASE BootNvs
  BY <1>2 DEF BootNvs
<1>3. CASE BootWifi
  BY <1>3 DEF BootWifi
<1>4. CASE LoadFlag
  <2>1. ota_flag' \in BOOLEAN
    BY <1>4, Zenon DEF LoadFlag
  <2>2. QED
    BY <1>4, <2>1 DEF LoadFlag
<1>5. CASE LoadTask
  BY <1>5 DEF LoadTask, Loaded
<1>7. CASE BootMsg
  BY <1>7 DEF BootMsg
<1>8. CASE GotIp
  BY <1>8 DEF GotIp, Goto
<1>9. CASE Spawn
  BY <1>9 DEF Spawn, Goto
<1>10. CASE LinkDies
  BY <1>10 DEF LinkDies
<1>11. ASSUME NEW x \in Threads, ConnectOk(x) PROVE TypeOK'
  BY <1>11 DEF ConnectOk, Goto, AfterConnect, AfterStart
<1>12. ASSUME NEW x \in Threads, ConnectFails(x) PROVE TypeOK'
  BY <1>12 DEF ConnectFails, Goto, AfterFailedStart
<1>13. ASSUME NEW x \in Threads, Register(x) PROVE TypeOK'
  BY <1>13 DEF Register, Goto, Send, SendOk, SendFails
<1>14. ASSUME NEW x \in Threads, Report(x) PROVE TypeOK'
  BY <1>14 DEF Report, Goto, SendOk, SendFails, AfterReport, AfterStart, Result, Complete, NA
<1>15. ASSUME NEW x \in Threads, ReportNoMemory(x) PROVE TypeOK'
  BY <1>15 DEF ReportNoMemory, Goto
<1>16. ASSUME NEW x \in Threads, ClearFlag(x) PROVE TypeOK'
  BY <1>16 DEF ClearFlag, Goto, AfterStart
<1>17. ASSUME NEW x \in Threads, ClearTask(x) PROVE TypeOK'
  <2>1. nvs_task' \in Tasks \union {NoTask} /\ ota_flag' \in BOOLEAN
    BY <1>17 DEF ClearTask
  <2>2. pc' \in [Threads -> Pcs] /\ CallbackSet'
    BY <1>17 DEF ClearTask, Goto, AfterStart
  <2>3. QED
    BY <1>17, <2>1, <2>2 DEF ClearTask
<1>18. ASSUME NEW w \in Workers, Loop(w) PROVE TypeOK'
  BY <1>18 DEF Loop, Goto
<1>19. ASSUME NEW w \in Workers, RecvFails(w) PROVE TypeOK'
  BY <1>19 DEF RecvFails, Goto, AfterClose
<1>20. ASSUME NEW w \in Workers, NEW t \in Tasks, Accept(w, t) PROVE TypeOK'
  BY <1>20 DEF Accept, Goto, Mark, Busy
<1>21. ASSUME NEW w \in Workers, SetFlag(w) PROVE TypeOK'
  BY <1>21 DEF SetFlag, Goto, Mark
<1>22. ASSUME NEW w \in Workers, SetTask(w) PROVE TypeOK'
  BY <1>22 DEF SetTask, Goto, Mark
<1>23. ASSUME NEW w \in Workers, Progress(w) PROVE TypeOK'
  BY <1>23 DEF Progress, Goto, Send, SendOk, SendFails
<1>24. ASSUME NEW w \in Workers, Download(w) PROVE TypeOK'
  BY <1>24 DEF Download, Goto
<1>25. ASSUME NEW w \in Workers, OtaOk(w) PROVE TypeOK'
  BY <1>25 DEF OtaOk, Goto
<1>26. ASSUME NEW w \in Workers, OtaFails(w) PROVE TypeOK'
  BY <1>26 DEF OtaFails, Goto, AfterFailedOta
<1>27. ASSUME NEW w \in Workers, Restart(w) PROVE TypeOK'
  BY <1>1, <1>27 DEF Restart
<1>28. ASSUME NEW w \in Workers, UnsetFlag(w) PROVE TypeOK'
  BY <1>28 DEF UnsetFlag, Goto, Mark
<1>29. ASSUME NEW w \in Workers, UnsetTask(w) PROVE TypeOK'
  BY <1>29 DEF UnsetTask, Goto
<1>30. ASSUME NEW w \in Workers, Answer(w) PROVE TypeOK'
  BY <1>30 DEF Answer, Goto, Send, SendOk, SendFails
<1>31. CASE UNCHANGED vars
  BY <1>31
<1>32. QED
  BY <1>1, <1>2, <1>3, <1>4, <1>5, <1>7, <1>8, <1>9, <1>10, <1>11, <1>12, <1>13, <1>14, <1>15, <1>16, <1>17, <1>18, <1>19, <1>20, <1>21, <1>22, <1>23, <1>24, <1>25, <1>26, <1>27, <1>28, <1>29, <1>30, <1>31 DEF Next, Reset, Boot, Start, Process

\* Type correctness: the variables keep their types, and the GW is registered
\* with and told results only after boot has installed the callback.
THEOREM TypeCorrect == Spec => []TypeOK
BY TypeInit, TypeStep, PTL DEF Spec

-----------------------------------------------------------------------------
(* The inductive invariant.  TrueComplete alone is not inductive: what the   *)
(* GW is told comes from RAM, what is in RAM came from NVS at boot, and what *)
(* is in NVS was written by workers that have not finished.  Each conjunct   *)
(* below follows one of those links.                                         *)

Genuine(t) == t \in {NoTask, running} \union unsettled
Marked(t)  == t \in {NoTask} \union unsettled

\* What RAM holds once boot has read NVS may be reported.
RamGenuine == ota_flag => Genuine(ota_task_id)

\* While boot reads NVS, twice and one key at a time, a worker may already
\* write it: what boot has read, and what it will read, stays reportable.
BootReadsGenuine ==
    ~ CallbackSet =>
        /\ nvs_flag = 1 \/ ota_flag => Genuine(nvs_task)
        /\ ota_task_id = nvs_task \/ Marked(ota_task_id)
        /\ boot \in {"nvs", "wifi"} => ota_task_id = NoTask
        /\ \A w \in Workers : Busy(w) => Marked(job[w]) /\ Marked(nvs_task)

\* A record with the flag set names the image of the next boot, unless a
\* worker is on its way to make it so or to take the flag back.
RecordGenuine ==
    nvs_flag = 1 =>
        nvs_task = BootImage \/ Marked(nvs_task) \/ \E w \in Workers : InFlight(w)

\* A worker past ota_set_flag_task(1, ...) finds its own task id in NVS.
OwnRecord ==
    \A w \in Workers :
        pc[w] \in {"progress", "wait", "download"} =>
            nvs_task = job[w] \/ Marked(nvs_task)

\* A worker that has taken its flag back does not meet it set again.
FlagTakenBack ==
    \A w \in Workers : pc[w] = "clrTask" => nvs_flag # 1 \/ Marked(job[w])

\* Workers that process tasks at the same time do so with marked tasks.
OverlapMarked ==
    \A v, w \in Workers : v # w /\ Busy(v) /\ Busy(w) => Marked(job[v])

JobsAreTasks == \A w \in Workers : Busy(w) => job[w] \in Tasks

TrueCompleteInv ==
    /\ TrueComplete
    /\ RamGenuine
    /\ BootReadsGenuine
    /\ RecordGenuine
    /\ OwnRecord
    /\ FlagTakenBack
    /\ OverlapMarked
    /\ JobsAreTasks

\* What will be said next is what was said before, or NA once it is given up.
SameStory ==
    told # Silence =>
        CallbackSet /\ (Result = told \/ (Result = NA /\ givenUp))

\* Nothing runs before wifi_sta_init.
NothingBeforeWifi == boot \in {"nvs", "wifi"} => pc = NoThreads

\* Without a second GOT_IP there is one worker, created once Evt is done.
OneWorker ==
    "rejoin" \notin Faults =>
        /\ orphan = {}
        /\ \A w \in Workers : pc[w] # "none" =>
              /\ pc[Evt] = "idle"
              /\ \A v \in Workers : v # w => pc[v] = "none"

\* Only a failed malloc of this boot leads to ota_handler_clear_flag.
ClearsNeedNoMemory ==
    \A x \in Threads :
        pc[x] \in {"clear1", "clear2"} => givenUp /\ "nomem" \in Faults

\* The conditions under which RecordSurvives promises something.
Dependable(t) ==
    /\ t \notin unsettled
    /\ "nvs" \notin Faults
    /\ ~ ({"nomem", "rejoin"} \subseteq Faults)

\* A worker on its way to an installed image finds its whole record in NVS.
RecordWritten ==
    \A w \in Workers : Dependable(job[w]) =>
        /\ pc[w] \in {"setTask", "progress", "wait", "download"} => nvs_flag = 1
        /\ pc[w] \in {"progress", "wait", "download"} => nvs_task = job[w]

\* An image that is owed to the GW is on record, and nobody is about to
\* overwrite the record or the partition.
OwedOnRecord ==
    (owed # NoTask /\ Dependable(owed)) =>
        /\ nvs_flag = 1 /\ nvs_task = owed /\ BootImage = owed
        /\ \A w \in Workers : Busy(w) => pc[w] = "restart"
        /\ \A x \in Threads : pc[x] \notin {"clear1", "clear2"}

\* Until the first report of a boot no worker is where it could receive.
SilentUntilReport ==
    (told = Silence /\ Faults \intersect {"early", "rejoin", "nomem"} = {}) =>
        /\ \A w \in Workers : ~ Busy(w) /\ pc[w] # "recv"
        /\ \A w \in Workers : pc[w] = "loop" => link = "down"
        /\ pc[Evt] = "spawn" => link = "down"
        /\ ~ CallbackSet => pc = NoThreads

RecordInv ==
    /\ SameStory
    /\ NothingBeforeWifi
    /\ OneWorker
    /\ ClearsNeedNoMemory
    /\ RecordWritten
    /\ OwedOnRecord
    /\ SilentUntilReport
-----------------------------------------------------------------------------
\* Every step keeps TrueCompleteInv: the flag in NVS, what boot reads of it
\* and what is told agree with the images, or the task is marked.
LEMMA TrueCompleteInvStep ==
  ASSUME TypeOK, TypeOK', TrueCompleteInv, [Next]_vars
  PROVE  TrueCompleteInv'
<1> USE OtaAssumption DEF TypeOK, Threads, Busy, BusyPcs, InFlight, InFlightPcs,
      BootImage, Genuine, Marked, CallbackSet, TrueCompleteInv, TrueComplete,
      RamGenuine, BootReadsGenuine, RecordGenuine, OwnRecord, FlagTakenBack,
      OverlapMarked, JobsAreTasks
<1>1. CASE Reboot
  \* The record a worker in flight leaves behind is marked; any other names
  \* the image of the next boot, by RecordGenuine.
  <2>1. RecordGenuine'
    BY <1>1 DEF Reboot, BootImage, Mark, NoThreads, Silence
  <2>2. BootReadsGenuine'
    BY <1>1 DEF Reboot, BootImage, Mark, NoThreads, Silence
  <2>3. TrueComplete' /\ RamGenuine'
    BY <1>1 DEF Reboot, BootImage, Mark, NoThreads, Silence
  <2>4. QED
    BY <1>1, <2>1, <2>2, <2>3 DEF Reboot, BootImage, Mark, NoThreads, Silence
<1>2. CASE BootNvs
  BY <1>2 DEF BootNvs
<1>3. CASE BootWifi
  BY <1>3 DEF BootWifi
<1>4. CASE LoadFlag
  \* The task id read in the first pass is the record's, or a marked one.
  <2>1. RamGenuine'
    BY <1>4 DEF LoadFlag
  <2>2. BootReadsGenuine'
    BY <1>4 DEF LoadFlag
  <2>3. QED
    BY <1>4, <2>1, <2>2 DEF LoadFlag
<1>5. CASE LoadTask
  <2>1. RamGenuine'
    BY <1>5 DEF LoadTask, Loaded
  <2>2. BootReadsGenuine'
    BY <1>5 DEF LoadTask, Loaded
  <2>3. QED
    BY <1>5, <2>1, <2>2 DEF LoadTask, Loaded
<1>7. CASE BootMsg
  BY <1>7 DEF BootMsg
<1>8. CASE GotIp
  BY <1>8 DEF GotIp, Goto
<1>9. CASE Spawn
  BY <1>9 DEF Spawn, Goto
<1>10. CASE LinkDies
  BY <1>10 DEF LinkDies
<1>11. ASSUME NEW x \in Threads, ConnectOk(x) PROVE TrueCompleteInv'
  BY <1>11 DEF ConnectOk, Goto, AfterConnect, AfterStart
<1>12. ASSUME NEW x \in Threads, ConnectFails(x) PROVE TrueCompleteInv'
  BY <1>12 DEF ConnectFails, Goto, AfterFailedStart
<1>13. ASSUME NEW x \in Threads, Register(x) PROVE TrueCompleteInv'
  BY <1>13 DEF Register, Goto, Send, SendOk, SendFails
<1>14. ASSUME NEW x \in Threads, Report(x) PROVE TrueCompleteInv'
  BY <1>14 DEF Report, Goto, SendOk, SendFails, AfterReport, AfterStart, Result, Complete, NA
<1>15. ASSUME NEW x \in Threads, ReportNoMemory(x) PROVE TrueCompleteInv'
  BY <1>15 DEF ReportNoMemory, Goto
<1>16. ASSUME NEW x \in Threads, ClearFlag(x) PROVE TrueCompleteInv'
  BY <1>16 DEF ClearFlag, Goto, AfterStart
<1>17. ASSUME NEW x \in Threads, ClearTask(x) PROVE TrueCompleteInv'
  BY <1>17 DEF ClearTask, Goto, AfterStart
<1>18. ASSUME NEW w \in Workers, Loop(w) PROVE TrueCompleteInv'
  BY <1>18 DEF Loop, Goto
<1>19. ASSUME NEW w \in Workers, RecvFails(w) PROVE TrueCompleteInv'
  BY <1>19 DEF RecvFails, Goto, AfterClose
<1>20. ASSUME NEW w \in Workers, NEW t \in Tasks, Accept(w, t)
     PROVE TrueCompleteInv'
  \* A worker that meets another at work, or boot, marks the tasks concerned.
  <2>1. OverlapMarked'
    BY <1>20 DEF Accept, Goto, Mark
  <2>2. BootReadsGenuine'
    BY <1>20 DEF Accept, Goto, Mark
  <2>3. JobsAreTasks'
    BY <1>20 DEF Accept, Goto, Mark
  <2>4. QED
    BY <1>20, <2>1, <2>2, <2>3 DEF Accept, Goto, Mark
<1>21. ASSUME NEW w \in Workers, SetFlag(w) PROVE TrueCompleteInv'
  BY <1>21 DEF SetFlag, Goto, Mark
<1>22. ASSUME NEW w \in Workers, SetTask(w) PROVE TrueCompleteInv'
  \* The record now names the task in flight; what it named before was marked
  \* at Accept if boot may still read it.
  <2>1. OwnRecord'
    BY <1>22 DEF SetTask, Goto, Mark
  <2>2. RecordGenuine'
    BY <1>22 DEF SetTask, Goto, Mark
  <2>3. BootReadsGenuine'
    BY <1>22 DEF SetTask, Goto, Mark
  <2>4. QED
    BY <1>22, <2>1, <2>2, <2>3 DEF SetTask, Goto, Mark
<1>23. ASSUME NEW w \in Workers, Progress(w) PROVE TrueCompleteInv'
  BY <1>23 DEF Progress, Goto, Send, SendOk, SendFails
<1>24. ASSUME NEW w \in Workers, Download(w) PROVE TrueCompleteInv'
  BY <1>24 DEF Download, Goto
<1>25. ASSUME NEW w \in Workers, OtaOk(w) PROVE TrueCompleteInv'
  \* By OwnRecord the record names the image just staged.
  <2>1. BootImage' = job[w]
    BY <1>25 DEF OtaOk, Goto
  <2>2. RecordGenuine'
    BY <1>25 DEF OtaOk, Goto
  <2>3. QED
    BY <1>25, <2>1, <2>2 DEF OtaOk, Goto
<1>26. ASSUME NEW w \in Workers, OtaFails(w) PROVE TrueCompleteInv'
  BY <1>26 DEF OtaFails, Goto, AfterFailedOta
<1>27. ASSUME NEW w \in Workers, UnsetFlag(w) PROVE TrueCompleteInv'
  \* Either the flag is gone or what it vouches for is marked.
  <2>1. RecordGenuine'
    BY <1>27 DEF UnsetFlag, Goto, Mark
  <2>2. FlagTakenBack'
    BY <1>27 DEF UnsetFlag, Goto, Mark
  <2>3. OwnRecord'
    BY <1>27 DEF UnsetFlag, Goto, Mark
  <2>4. QED
    BY <1>27, <2>1, <2>2, <2>3 DEF UnsetFlag, Goto, Mark
<1>28. ASSUME NEW w \in Workers, UnsetTask(w) PROVE TrueCompleteInv'
  \* By FlagTakenBack the task id is written under a flag that is not set.
  <2>1. RecordGenuine'
    BY <1>28 DEF UnsetTask, Goto
  <2>2. OwnRecord'
    BY <1>28 DEF UnsetTask, Goto
  <2>3. QED
    BY <1>28, <2>1, <2>2 DEF UnsetTask, Goto
<1>29. ASSUME NEW w \in Workers, Restart(w) PROVE TrueCompleteInv'
  BY <1>1, <1>29 DEF Restart
<1>30. ASSUME NEW w \in Workers, Answer(w) PROVE TrueCompleteInv'
  BY <1>30 DEF Answer, Goto, Send, SendOk, SendFails
<1>31. CASE UNCHANGED vars
  BY <1>31
<1>32. QED
  BY <1>1, <1>2, <1>3, <1>4, <1>5, <1>7, <1>8, <1>9, <1>10, <1>11,
     <1>12, <1>13, <1>14, <1>15, <1>16, <1>17, <1>18, <1>19, <1>20, <1>21,
     <1>22, <1>23, <1>24, <1>25, <1>26, <1>27, <1>28, <1>29, <1>30, <1>31 DEF Next,
     Reset, Boot, Start, Process

\* Every step keeps RecordInv: the record of an installed image stays whole
\* until it has been reported, and boot reports before it receives.
LEMMA RecordInvStep ==
  ASSUME TypeOK, TypeOK', TrueCompleteInv, TrueCompleteInv', RecordInv, [Next]_vars
  PROVE  RecordInv'
<1> USE OtaAssumption DEF TypeOK, Threads, Busy, BusyPcs, BootImage, Dependable,
      CallbackSet, Marked, Silence, Result, Complete, NA, NoThreads,
      TrueCompleteInv, OverlapMarked, JobsAreTasks, RecordInv, SameStory,
      NothingBeforeWifi, OneWorker, ClearsNeedNoMemory, RecordWritten,
      OwedOnRecord, SilentUntilReport
<1>1. CASE Reboot
  BY <1>1 DEF Reboot, BootImage, Mark, NoThreads, Silence
<1>2. CASE BootNvs
  BY <1>2 DEF BootNvs
<1>3. CASE BootWifi
  BY <1>3 DEF BootWifi
<1>4. CASE LoadFlag
  BY <1>4 DEF LoadFlag
<1>5. CASE LoadTask
  BY <1>5 DEF LoadTask, Loaded
<1>7. CASE BootMsg
  BY <1>7 DEF BootMsg
<1>8. CASE GotIp
  BY <1>8 DEF GotIp, Goto
<1>9. CASE Spawn
  BY <1>9 DEF Spawn, Goto
<1>10. CASE LinkDies
  BY <1>10 DEF LinkDies
<1>11. ASSUME NEW x \in Threads, ConnectOk(x) PROVE RecordInv'
  BY <1>11 DEF ConnectOk, Goto, AfterConnect, AfterStart
<1>12. ASSUME NEW x \in Threads, ConnectFails(x) PROVE RecordInv'
  BY <1>12 DEF ConnectFails, Goto, AfterFailedStart
<1>13. ASSUME NEW x \in Threads, Register(x) PROVE RecordInv'
  BY <1>13 DEF Register, Goto, Send, SendOk, SendFails
<1>14. ASSUME NEW x \in Threads, Report(x) PROVE RecordInv'
  \* A report that fails leaves sock = -1, so that nobody can receive.
  <2>1. SameStory'
    BY <1>14 DEF Report, Goto, SendOk, SendFails, AfterReport, AfterStart, Result, Complete, NA
  <2>2. OwedOnRecord'
    BY <1>14 DEF Report, Goto, SendOk, SendFails, AfterReport, AfterStart, Result, Complete, NA
  <2>3. SilentUntilReport'
    BY <1>14 DEF Report, Goto, SendOk, SendFails, AfterReport, AfterStart, Result, Complete, NA
  <2>4. QED
    BY <1>14, <2>1, <2>2, <2>3 DEF Report, Goto, SendOk, SendFails, AfterReport, AfterStart, Result, Complete, NA
<1>15. ASSUME NEW x \in Threads, ReportNoMemory(x) PROVE RecordInv'
  BY <1>15 DEF ReportNoMemory, Goto
<1>16. ASSUME NEW x \in Threads, ClearFlag(x) PROVE RecordInv'
  \* With one worker no record is being written while it is cleared.
  <2>1. RecordWritten'
    BY <1>16 DEF ClearFlag, Goto, AfterStart
  <2>2. OwedOnRecord'
    BY <1>16 DEF ClearFlag, Goto, AfterStart
  <2>3. QED
    BY <1>16, <2>1, <2>2 DEF ClearFlag, Goto, AfterStart
<1>17. ASSUME NEW x \in Threads, ClearTask(x) PROVE RecordInv'
  BY <1>17 DEF ClearTask, Goto, AfterStart
<1>18. ASSUME NEW w \in Workers, Loop(w) PROVE RecordInv'
  BY <1>18 DEF Loop, Goto
<1>19. ASSUME NEW w \in Workers, RecvFails(w) PROVE RecordInv'
  BY <1>19 DEF RecvFails, Goto, AfterClose
<1>20. ASSUME NEW w \in Workers, NEW t \in Tasks, Accept(w, t)
     PROVE RecordInv'
  BY <1>20 DEF Accept, Goto, Mark
<1>21. ASSUME NEW w \in Workers, SetFlag(w) PROVE RecordInv'
  BY <1>21 DEF SetFlag, Goto, Mark
<1>22. ASSUME NEW w \in Workers, SetTask(w) PROVE RecordInv'
  BY <1>22 DEF SetTask, Goto, Mark
<1>23. ASSUME NEW w \in Workers, Progress(w) PROVE RecordInv'
  BY <1>23 DEF Progress, Goto, Send, SendOk, SendFails
<1>24. ASSUME NEW w \in Workers, Download(w) PROVE RecordInv'
  BY <1>24 DEF Download, Goto
<1>25. ASSUME NEW w \in Workers, OtaOk(w) PROVE RecordInv'
  \* The record is whole by RecordWritten, and by OverlapMarked no other
  \* worker is at work unless the task is marked.
  <2>1. RecordWritten'
    BY <1>25 DEF OtaOk, Goto
  <2>2. OwedOnRecord'
    BY <1>25 DEF OtaOk, Goto
  <2>3. QED
    BY <1>25, <2>1, <2>2 DEF OtaOk, Goto
<1>26. ASSUME NEW w \in Workers, OtaFails(w) PROVE RecordInv'
  BY <1>26 DEF OtaFails, Goto, AfterFailedOta
<1>27. ASSUME NEW w \in Workers, UnsetFlag(w) PROVE RecordInv'
  BY <1>27 DEF UnsetFlag, Goto, Mark
<1>28. ASSUME NEW w \in Workers, UnsetTask(w) PROVE RecordInv'
  BY <1>28 DEF UnsetTask, Goto
<1>29. ASSUME NEW w \in Workers, Restart(w) PROVE RecordInv'
  BY <1>1, <1>29 DEF Restart
<1>30. ASSUME NEW w \in Workers, Answer(w) PROVE RecordInv'
  BY <1>30 DEF Answer, Goto, Send, SendOk, SendFails
<1>31. CASE UNCHANGED vars
  BY <1>31
<1>32. QED
  BY <1>1, <1>2, <1>3, <1>4, <1>5, <1>7, <1>8, <1>9, <1>10, <1>11,
     <1>12, <1>13, <1>14, <1>15, <1>16, <1>17, <1>18, <1>19, <1>20, <1>21,
     <1>22, <1>23, <1>24, <1>25, <1>26, <1>27, <1>28, <1>29, <1>30, <1>31 DEF Next,
     Reset, Boot, Start, Process

\* All of it holds in the initial state.
LEMMA InvInit == Init => TrueCompleteInv /\ RecordInv
BY OtaAssumption DEF Init, NoThreads, Threads, Busy, BusyPcs, InFlight,
   InFlightPcs, BootImage, Genuine, Marked, CallbackSet, Silence, Dependable,
   TrueCompleteInv, TrueComplete, RamGenuine, BootReadsGenuine, RecordGenuine,
   OwnRecord, FlagTakenBack, OverlapMarked, JobsAreTasks, RecordInv, SameStory,
   NothingBeforeWifi, OneWorker, ClearsNeedNoMemory, RecordWritten,
   OwedOnRecord, SilentUntilReport

\* The inductive invariant of the specification.
THEOREM OtaInvariant == Spec => [](TypeOK /\ TrueCompleteInv /\ RecordInv)
<1>1. TypeOK /\ TrueCompleteInv /\ RecordInv /\ [Next]_vars =>
         (TypeOK /\ TrueCompleteInv /\ RecordInv)'
  BY TypeStep, TrueCompleteInvStep, RecordInvStep
<1>2. QED
  BY TypeInit, InvInit, <1>1, PTL DEF Spec

\* The GW is told "complete" only of the image that runs, or of a task marked
\* as one whose record the code could not settle.
THEOREM CompleteIsTrue == Spec => []TrueComplete
<1>1. TrueCompleteInv => TrueComplete
  BY DEF TrueCompleteInv
<1>2. QED
  BY OtaInvariant, <1>1, PTL

\* Within one boot the GW hears one outcome; it turns into NA only when the
\* record was given up in that boot, for want of memory.
THEOREM StoryIsKept == Spec => OneStoryPerBoot
<1>1. RecordInv /\ [Next]_vars =>
         [told' # told => \/ told = Silence \/ told' = Silence
                          \/ told' = NA /\ givenUp]_vars
  <2> SUFFICES ASSUME RecordInv, Next, told' # told, told # Silence
               PROVE  told' = Silence \/ (told' = NA /\ givenUp)
    BY DEF vars
  <2>1. CASE Reboot
    BY <2>1 DEF Reboot
  <2>2. ASSUME NEW x \in Threads, Report(x) PROVE told' = NA /\ givenUp
    BY <2>2 DEF RecordInv, SameStory, Report
  <2>3. QED
    BY <2>1, <2>2 DEF Next, Reset, Boot, BootNvs, BootWifi, LoadFlag, LoadTask,
       BootMsg, GotIp, Spawn, LinkDies, Start, ConnectOk,
       ConnectFails, Register, ReportNoMemory, ClearFlag, ClearTask, Loop,
       RecvFails, Answer, Send, Accept, Process, SetFlag, SetTask, Progress, Download, OtaOk,
       OtaFails, Restart, UnsetFlag, UnsetTask
<1>2. QED
  BY OtaInvariant, <1>1, PTL DEF Spec, OneStoryPerBoot

\* No reset, reconnection or lost message destroys the record or the image of
\* a task the GW has yet to hear of.
THEOREM RecordIsKept == Spec => []RecordSurvives
<1>1. RecordInv => RecordSurvives
  BY DEF RecordInv, OwedOnRecord, Dependable, RecordSurvives
<1>2. QED
  BY OtaInvariant, <1>1, PTL

\* A task is accepted only after the outcome of the last one has been sent.
THEOREM ReportIsFirst == Spec => []ReportBeforeTask
<1>1. RecordInv => ReportBeforeTask
  BY DEF RecordInv, SilentUntilReport, ReportBeforeTask
<1>2. QED
  BY OtaInvariant, <1>1, PTL

-----------------------------------------------------------------------------
(* The refinement.  What is new is that a boot that has an installed image   *)
(* to report will find it on record: what it has read so far says so.        *)

BootRemembers ==
    (owed # NoTask /\ Dependable(owed) /\ ~ CallbackSet) =>
        /\ running = owed
        /\ ota_task_id \in {NoTask, owed}
        /\ boot \in {"task1", "flag2", "task2", "msg"} => ota_flag
        /\ boot \in {"flag2", "task2", "msg"} /\ owed \notin LongTasks =>
              ota_task_id = owed

\* The flag that boot reads is the one in NVS.
LEMMA FlagIsRead ==
  ASSUME LoadFlag, nvs_flag = 1, "nvs" \notin Faults
  PROVE  ota_flag'
<1>1. nvs_flag # -1
  OBVIOUS
<1>2. ota_flag' = (nvs_flag = 1)
  BY <1>1, Zenon DEF LoadFlag
<1>3. QED
  BY <1>2, Zenon

LEMMA BootRemembersStep ==
  ASSUME TypeOK, TypeOK', TrueCompleteInv, TrueCompleteInv',
         RecordInv, RecordInv', BootRemembers, [Next]_vars
  PROVE  BootRemembers'
<1> USE OtaAssumption DEF TypeOK, Threads, Busy, BusyPcs, BootImage, Dependable,
      CallbackSet, Marked, TrueCompleteInv, BootReadsGenuine, JobsAreTasks,
      RecordInv, OwedOnRecord, BootRemembers
<1>1. CASE Reboot
  BY <1>1 DEF Reboot, BootImage, Mark
<1>2. CASE BootNvs
  BY <1>2 DEF BootNvs
<1>3. CASE BootWifi
  BY <1>3 DEF BootWifi
<1>4. CASE LoadFlag
  <2>1. nvs_flag = 1 /\ "nvs" \notin Faults => ota_flag'
    BY <1>4, FlagIsRead
  <2>2. UNCHANGED <<owed, unsettled, running, nvs_flag, nvs_task, ota_task_id>>
    BY <1>4 DEF LoadFlag
  <2>3. boot' \in {"task1", "task2"} /\ (boot' = "task2" => boot = "flag2")
    BY <1>4 DEF LoadFlag
  <2>4. ~ CallbackSet /\ BootImage' = BootImage
    BY <1>4 DEF LoadFlag
  <2>5. QED
    BY <2>1, <2>2, <2>3, <2>4
<1>5. CASE LoadTask
  BY <1>5 DEF LoadTask, Loaded
<1>7. CASE BootMsg
  BY <1>7 DEF BootMsg
<1>8. CASE GotIp \/ Spawn \/ LinkDies
  BY <1>8 DEF GotIp, Spawn, LinkDies
<1>9. ASSUME NEW x \in Threads, Start(x) PROVE BootRemembers'
  BY <1>9 DEF Start, ConnectOk, ConnectFails, Register, Report, ReportNoMemory,
     ClearFlag, ClearTask
<1>10. ASSUME NEW w \in Workers, Loop(w) \/ RecvFails(w) \/ Answer(w)
      PROVE BootRemembers'
  BY <1>10 DEF Loop, RecvFails, Answer
<1>11. ASSUME NEW w \in Workers, NEW t \in Tasks, Accept(w, t)
      PROVE BootRemembers'
  BY <1>11 DEF Accept
<1>12. ASSUME NEW w \in Workers, Process(w) PROVE BootRemembers'
  <2>1. CASE SetFlag(w) \/ SetTask(w) \/ Progress(w) \/ Download(w)
             \/ OtaFails(w) \/ UnsetFlag(w) \/ UnsetTask(w)
    BY <2>1 DEF SetFlag, SetTask, Progress, Download, OtaFails, UnsetFlag,
       UnsetTask, Mark
  <2>2. CASE OtaOk(w)
    \* A task installed while boot reads NVS was marked when it was taken.
    BY <2>2 DEF OtaOk
  <2>3. QED
    BY <1>1, <1>12, <2>1, <2>2 DEF Process, Restart
<1>13. CASE UNCHANGED vars
  BY <1>13
<1>14. QED
  BY <1>1, <1>2, <1>3, <1>4, <1>5, <1>7, <1>8, <1>9, <1>10, <1>11,
     <1>12, <1>13 DEF Next, Reset, Boot

PromiseInv == TypeOK /\ TrueCompleteInv /\ RecordInv /\ BootRemembers

LEMMA PromiseInvariant == Spec => []PromiseInv
<1>1. Init => BootRemembers
  BY DEF Init, BootRemembers
<1>2. PromiseInv /\ [Next]_vars => PromiseInv'
  BY TypeStep, TrueCompleteInvStep, RecordInvStep, BootRemembersStep
     DEF PromiseInv
<1>3. QED
  BY TypeInit, InvInit, <1>1, <1>2, PTL DEF Spec, PromiseInv

AtWork == {job[w] : w \in {v \in Workers : Busy(v)}}
Story == IF CallbackSet THEN Result ELSE Silence

\* At work is whoever is busy.
LEMMA WorkIs ==
  /\ \A w \in Workers : Busy(w) => job[w] \in AtWork
  /\ \A w \in Workers : Busy(w)' => job'[w] \in AtWork'
BY DEF AtWork

Kept == owed # NoTask /\ Dependable(owed)

LEMMA KeptIs == Promise!Promised <=> Kept
BY DEF Promise!Promised, Kept, Dependable

\* An image that is owed has nobody at work against it.
LEMMA KeptAlone ==
  ASSUME PromiseInv, Kept, NEW w \in Workers, Busy(w)
  PROVE  pc[w] = "restart"
BY DEF PromiseInv, RecordInv, OwedOnRecord, Kept

LEMMA DoubtStep ==
  ASSUME PromiseInv, Next
  PROVE  Promise!Doubts
<1> USE KeptIs DEF Kept
<1> DEFINE Certain == /\ unsettled \subseteq unsettled'
                      /\ unsettled' # unsettled => AtWork \union AtWork' # {}
                      /\ Kept /\ owed' = owed => owed \notin unsettled'
<1>1. SUFFICES Certain
  BY DEF Promise!Doubts, AtWork
<1>2. CASE UNCHANGED unsettled
  BY <1>2 DEF Dependable
<1>3. CASE Reboot
  <2>1. CASE nvs_flag = 1 /\ \E w \in Workers : InFlight(w)
    <3>1. PICK w \in Workers : InFlight(w)
      BY <2>1
    <3>2. Busy(w) /\ pc[w] # "restart"
      BY <3>1 DEF InFlight, InFlightPcs, Busy, BusyPcs
    <3>3. ~ Kept /\ AtWork # {}
      BY <3>2, KeptAlone, WorkIs
    <3>4. QED
      BY <3>3, <1>3 DEF Reboot, Mark
  <2>2. CASE ~ (nvs_flag = 1 /\ \E w \in Workers : InFlight(w))
    BY <1>2, <2>2, <1>3 DEF Reboot, Mark
  <2>3. QED
    BY <2>1, <2>2
<1>4. ASSUME NEW w \in Workers, SetFlag(w) \/ SetTask(w) \/ UnsetFlag(w)
      PROVE  Certain
  <2>1. Busy(w) /\ pc[w] # "restart"
    BY <1>4 DEF SetFlag, SetTask, UnsetFlag, Busy, BusyPcs
  <2>2. ~ Kept /\ AtWork # {}
    BY <2>1, KeptAlone, WorkIs
  <2>3. unsettled \subseteq unsettled'
    BY <1>4 DEF SetFlag, SetTask, UnsetFlag, Mark
  <2>4. QED
    BY <2>2, <2>3
<1>5. ASSUME NEW w \in Workers, NEW t \in Tasks, Accept(w, t)
      PROVE  Certain
  <2>1. Busy(w)'
    BY <1>5 DEF Accept, Goto, Busy, BusyPcs, PromiseInv, TypeOK, Threads
  <2>2. AtWork' # {}
    BY <2>1, WorkIs
  <2>3. unsettled \subseteq unsettled' /\ owed' = NoTask
    BY <1>5 DEF Accept, Mark
  <2>4. QED
    BY <2>2, <2>3
<1>6. QED
  BY <1>1, <1>2, <1>3, <1>4, <1>5 DEF Next, Reset, Boot, BootNvs, BootWifi,
     LoadFlag, LoadTask, BootMsg, GotIp, Spawn, LinkDies, Start,
     ConnectOk, ConnectFails, Register, Report, ReportNoMemory, ClearFlag,
     ClearTask, Loop, RecvFails, Answer, Process, Progress, Download, OtaOk,
     OtaFails, Restart, UnsetTask

-----------------------------------------------------------------------------
\* One lemma for each step of the promise: what it takes to be that step.
PromiseStep == [Promise!PromiseNext]_(Promise!promiseVars)

SameImages == UNCHANGED <<running, staged>>
SameStoryYet == UNCHANGED <<boot, ota_flag, ota_task_id>>
SameWork == \A w \in Workers : /\ Busy(w)' <=> Busy(w)
                               /\ Busy(w) => job'[w] = job[w]
\* Nobody has taken up work.
LessWork == \A w \in Workers : Busy(w)' => Busy(w) /\ job'[w] = job[w]

LEMMA SameFor ==
  /\ SameImages => UNCHANGED <<running, BootImage>>
  /\ SameStoryYet => Story' = Story
  /\ SameWork => AtWork' = AtWork
  /\ LessWork => AtWork' \subseteq AtWork
<1>1. SameImages => UNCHANGED <<running, BootImage>>
  BY DEF SameImages, BootImage
<1>2. SameStoryYet => Story' = Story
  BY DEF SameStoryYet, Story, CallbackSet, Result
<1>3. SameWork => AtWork' = AtWork
  BY DEF SameWork, AtWork
<1>4. LessWork => AtWork' \subseteq AtWork
  BY DEF LessWork, AtWork
<1>5. QED
  BY <1>1, <1>2, <1>3, <1>4

\* What the promise does not see, and a task that is given up.
LEMMA AsGiveUp ==
  ASSUME PromiseInv, Next, LessWork, SameImages, UNCHANGED <<told, owed>>,
         SameStoryYet \/ (~ CallbackSet /\ ~ CallbackSet')
  PROVE  PromiseStep
<1>1. UNCHANGED <<running, BootImage>> /\ Story' = Story
      /\ AtWork' \subseteq AtWork
  BY SameFor DEF Story
<1>2. QED
  BY <1>1, DoubtStep DEF PromiseStep, Promise!PromiseNext, Promise!GiveUp,
     AtWork, Story

LEMMA AsStartAnew ==
  ASSUME PromiseInv, Next, Reboot
  PROVE  PromiseStep
<1>1. running' = BootImage /\ BootImage' = BootImage
      /\ told' = Silence /\ owed' = owed
  BY DEF Reboot, BootImage
<1>2. Story' = Silence
  BY DEF Reboot, Story, CallbackSet
<1>3. AtWork' = {}
  BY OtaAssumption DEF Reboot, AtWork, NoThreads, Busy, BusyPcs, Threads
<1>4. QED
  BY <1>1, <1>2, <1>3, DoubtStep
     DEF PromiseStep, Promise!PromiseNext, Promise!StartAnew, AtWork, Story

\* By BootRemembers boot has read what is owed.
LEMMA AsSettle ==
  ASSUME PromiseInv, Next, BootMsg
  PROVE  PromiseStep
<1>1. UNCHANGED <<running, BootImage, told, owed, unsettled>>
      /\ AtWork' = AtWork
  BY DEF BootMsg, BootImage, AtWork, Busy
<1>2. Story = Silence /\ Story' = Result
  BY DEF BootMsg, Story, CallbackSet, Result
<1>3. Result \in {NA} \union
                 {Complete(t) : t \in Promise!Sayable({running} \union unsettled)}
  BY DEF PromiseInv, TypeOK, TrueCompleteInv, RamGenuine, Genuine, Result,
     Promise!Sayable
<1>4. Kept => owed = running /\ Result = IF owed \in LongTasks THEN NA
                                          ELSE Complete(owed)
  BY DEF PromiseInv, TypeOK, BootRemembers, BootMsg, CallbackSet, Result, Kept
<1>5. QED
  BY <1>1, <1>2, <1>3, <1>4, KeptIs, DoubtStep
     DEF PromiseStep, Promise!PromiseNext, Promise!Settle, AtWork, Story

LEMMA AsTell ==
  ASSUME PromiseInv, Next, NEW x \in Threads, Report(x)
  PROVE  PromiseStep
<1>1. SameWork /\ SameImages /\ SameStoryYet
  BY OtaAssumption DEF Report, AfterReport, AfterStart, Goto, PromiseInv,
     TypeOK, Threads, Busy, BusyPcs, SameWork, SameImages, SameStoryYet
<1>2. CASE UNCHANGED <<told, owed>>
  BY <1>1, <1>2, AsGiveUp DEF SameWork, LessWork
<1>3. CASE told' = Result /\ (owed' = owed \/ (owed' = NoTask
                                             /\ Result = Complete(owed)))
  <2>1. Story = Result /\ Story # Silence
    BY DEF Report, Story, PromiseInv, TypeOK, Result, Silence, NA, Complete
  <2>2. UNCHANGED <<running, BootImage, Story, AtWork>>
    BY <1>1, SameFor
  <2>3. QED
    BY <1>3, <2>1, <2>2, DoubtStep
       DEF PromiseStep, Promise!PromiseNext, Promise!Tell, AtWork, Story
<1>4. QED
  BY <1>2, <1>3 DEF Report

LEMMA AsForget ==
  ASSUME PromiseInv, Next, SameWork, SameImages, owed' = NoTask, told' = told,
         SameStoryYet \/ (~ CallbackSet /\ ~ CallbackSet'),
         Faults \intersect {"erase", "nomem"} # {}
  PROVE  PromiseStep
<1>1. UNCHANGED <<running, BootImage, Story, AtWork>>
  BY SameFor DEF Story
<1>2. QED
  BY <1>1, DoubtStep DEF PromiseStep, Promise!PromiseNext, Promise!Forget,
     AtWork, Story

LEMMA AsForgetStory ==
  ASSUME PromiseInv, Next, NEW x \in Threads, ClearTask(x)
  PROVE  PromiseStep
<1>1. SameWork /\ SameImages /\ UNCHANGED <<told, owed>>
  BY OtaAssumption DEF ClearTask, AfterStart, Goto, PromiseInv,
     TypeOK, Threads, Busy, BusyPcs, SameWork, SameImages
<1>2. Story # Silence /\ Story' = NA
  BY DEF ClearTask, Story, PromiseInv, TypeOK, CallbackSet, Result, Silence,
     NA, Complete
<1>3. ~ Kept /\ "nomem" \in Faults
  BY DEF ClearTask, PromiseInv, RecordInv, OwedOnRecord, ClearsNeedNoMemory, Kept
<1>4. UNCHANGED <<running, BootImage, AtWork>>
  BY <1>1, SameFor
<1>5. QED
  BY <1>1, <1>2, <1>3, <1>4, KeptIs, DoubtStep DEF PromiseStep,
     Promise!PromiseNext, Promise!ForgetStory, AtWork, Story

\* By SilentUntilReport nobody receives before the report.
LEMMA AsTakeOn ==
  ASSUME PromiseInv, Next, NEW w \in Workers, NEW t \in Tasks, Accept(w, t)
  PROVE  PromiseStep
<1>1. SameImages /\ SameStoryYet /\ told' = told /\ owed' = NoTask
  BY DEF Accept, SameImages, SameStoryYet
<1>2. Faults \intersect {"early", "rejoin", "nomem"} = {} => told # Silence
  BY DEF Accept, PromiseInv, RecordInv, SilentUntilReport
<1>3. /\ ~ Busy(w) /\ Busy(w)' /\ job'[w] = t
      /\ \A v \in Workers \ {w} : (Busy(v)' <=> Busy(v)) /\ job'[v] = job[v]
  BY DEF Accept, Goto, PromiseInv, TypeOK, Threads, Busy, BusyPcs
<1>4. AtWork' = AtWork \union {t}
  <2>1. \A a : a \in AtWork <=> \E v \in Workers : Busy(v) /\ a = job[v]
    BY DEF AtWork
  <2>2. \A a : a \in AtWork' <=> \E v \in Workers : Busy(v)' /\ a = job'[v]
    BY DEF AtWork
  <2>3. QED
    BY <2>1, <2>2, <1>3
<1>5. UNCHANGED <<running, BootImage, Story>>
  BY <1>1, SameFor
<1>6. Promise!TakeOn(t) /\ t \in AtWork'
  BY <1>1, <1>2, <1>4, <1>5 DEF Promise!TakeOn, AtWork, Story
<1>7. QED
  BY <1>6, DoubtStep DEF PromiseStep, Promise!PromiseNext, AtWork

LEMMA AsOverwrite ==
  ASSUME PromiseInv, Next, NEW w \in Workers, Download(w)
  PROVE  PromiseStep
<1>1. SameWork /\ SameStoryYet /\ UNCHANGED <<running, told, owed>>
  BY DEF Download, Goto, PromiseInv, TypeOK, Threads, Busy, BusyPcs, SameWork,
     SameStoryYet
<1>2. Busy(w) /\ pc[w] # "restart"
  BY DEF Download, Busy, BusyPcs
<1>3. BootImage' = running /\ ~ Kept
  BY <1>1, <1>2, KeptAlone DEF Download, BootImage
<1>4. QED
  BY <1>1, <1>3, SameFor, KeptIs, DoubtStep
     DEF PromiseStep, Promise!PromiseNext, Promise!Overwrite, AtWork, Story

LEMMA AsInstall ==
  ASSUME PromiseInv, Next, NEW w \in Workers, OtaOk(w)
  PROVE  PromiseStep
<1>1. SameWork /\ SameStoryYet /\ UNCHANGED <<running, told>>
  BY DEF OtaOk, Goto, PromiseInv, TypeOK, Threads, Busy, BusyPcs, SameWork,
     SameStoryYet
<1>2. Busy(w) /\ pc[w] # "restart"
  BY DEF OtaOk, Busy, BusyPcs
<1>3. job[w] \in AtWork /\ job[w] # NoTask /\ ~ Kept
  BY <1>2, WorkIs, KeptAlone, OtaAssumption
     DEF PromiseInv, TrueCompleteInv, JobsAreTasks
<1>4. BootImage' = job[w] /\ owed' = job[w]
  BY <1>3 DEF OtaOk, BootImage
<1>5. Promise!Install(job[w])
  BY <1>1, <1>3, <1>4, SameFor, KeptIs DEF Promise!Install, AtWork, Story
<1>6. QED
  BY <1>3, <1>5, DoubtStep DEF PromiseStep, Promise!PromiseNext, AtWork

\* Every step of the code is a step of the promise, or none.
LEMMA EveryStepIsPromised ==
  ASSUME PromiseInv, [Next]_vars
  PROVE  PromiseStep
<1> USE OtaAssumption DEF Goto, Threads, Busy, BusyPcs, SameWork, LessWork,
      SameImages, SameStoryYet
<1>0. TypeOK
  BY DEF PromiseInv
<1>1. CASE UNCHANGED vars
  BY <1>1 DEF PromiseStep, Promise!promiseVars, BootImage, CallbackSet, Result
<1>2. CASE Next /\ Reboot
  BY <1>2, AsStartAnew
<1>3. CASE Next /\ BootNvs
  <2>1. SameWork /\ SameImages /\ ~ CallbackSet /\ ~ CallbackSet' /\ told' = told
    BY <1>3 DEF BootNvs, CallbackSet
  <2>2. CASE owed' = owed
    BY <1>3, <2>1, <2>2, AsGiveUp
  <2>3. CASE owed' = NoTask /\ "erase" \in Faults
    BY <1>3, <2>1, <2>3, AsForget
  <2>4. QED
    BY <1>3, <2>2, <2>3 DEF BootNvs
<1>4. CASE Next /\ (BootWifi \/ LoadFlag \/ LoadTask)
  BY <1>4, AsGiveUp DEF BootWifi, LoadFlag, LoadTask, CallbackSet
<1>5. CASE Next /\ BootMsg
  BY <1>5, AsSettle
<1>6. CASE Next /\ (GotIp \/ Spawn \/ LinkDies)
  BY <1>0, <1>6, AsGiveUp DEF GotIp, Spawn, LinkDies, TypeOK
<1>7. ASSUME Next, NEW x \in Threads, Start(x) PROVE PromiseStep
  <2>1. CASE ConnectOk(x) \/ ConnectFails(x) \/ Register(x) \/ ClearFlag(x)
    BY <1>0, <1>7, <2>1, AsGiveUp DEF ConnectOk, AfterConnect, AfterStart,
       ConnectFails, AfterFailedStart, Register, ClearFlag, TypeOK
  <2>2. CASE ReportNoMemory(x)
    BY <1>0, <1>7, <2>2, AsForget DEF ReportNoMemory, TypeOK
  <2>3. QED
    BY <1>7, <2>1, <2>2, AsTell, AsForgetStory DEF Start
<1>8. ASSUME Next, NEW w \in Workers, Loop(w) \/ RecvFails(w) \/ Answer(w)
      PROVE  PromiseStep
  BY <1>0, <1>8, AsGiveUp DEF Loop, RecvFails, Answer, TypeOK
<1>9. ASSUME Next, NEW w \in Workers, NEW t \in Tasks, Accept(w, t)
      PROVE  PromiseStep
  BY <1>9, AsTakeOn
<1>10. ASSUME Next, NEW w \in Workers, Process(w) PROVE PromiseStep
  <2>1. CASE SetFlag(w) \/ SetTask(w) \/ Progress(w) \/ OtaFails(w)
    BY <1>0, <1>10, <2>1, AsGiveUp
       DEF SetFlag, SetTask, Progress, OtaFails, AfterFailedOta, TypeOK
  <2>2. CASE UnsetFlag(w) \/ UnsetTask(w)
    BY <1>0, <1>10, <2>2, AsGiveUp DEF UnsetFlag, UnsetTask, TypeOK
  <2>3. QED
    BY <1>2, <1>10, <2>1, <2>2, AsOverwrite, AsInstall DEF Process, Restart
<1>11. QED
  BY <1>1, <1>2, <1>3, <1>4, <1>5, <1>6, <1>7, <1>8, <1>9, <1>10
     DEF Next, Reset, Boot

\* The life of a task, over NVS, threads and sockets, implements the promise
\* to the GW.
THEOREM PromiseIsKept == Spec => KeepsPromise
<1>1. Init => Promise!PromiseInit
  BY DEF Init, Promise!PromiseInit, BootImage, CallbackSet, NoThreads, Busy,
     BusyPcs, Threads, OtaAssumption
<1>2. PromiseInv /\ [Next]_vars => PromiseStep
  BY EveryStepIsPromised
<1>3. QED
  BY PromiseInvariant, <1>1, <1>2, PTL
     DEF Spec, KeepsPromise, Promise!PromiseSpec, PromiseStep
=============================================================================
