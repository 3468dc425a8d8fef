# Verification of the OTA client

The program is the firmware of an ESP32-S3 that joins the access point of a
gateway (GW), registers with it over TCP, takes OTA tasks from it, installs the
image a task names, restarts, and reports what became of the task. This
directory holds TLA+ models of its control logic, the TLC configurations that
check them on small instances, and proofs for every value of the constants.

## The system

| Component | State | Operations | Correct when |
|---|---|---|---|
| Boot: `main/main.c`, `handler/init/init.c` | none of its own | NVS init (may erase), Wi-Fi start, then peripherals, two OTA inits, callbacks | the callbacks and the record are in place when the first connection needs them |
| Wi-Fi: `protocol/wifi_sta` | `s_connected`, `retry_count` | event handler: START, DISCONNECTED, GOT_IP | the retry budget is kept, the status is true, the TCP client gets started |
| TCP: `protocol/tcp_client` | `sock`, address of the GW, two callbacks | start (connect), send, task (reconnect, receive) | one connection, nothing leaked, nothing used after close, reconnection |
| Dispatch: `handler/msg_handler` | the receive buffer, the heap | on_connected (register, report), process (dispatch by `msg_type`), answers | what the GW asks is answered, whatever else is in the buffer; what is taken on the heap is accounted for |
| Registration: `app/client_register` | none | send one message | sent first on every connection |
| OTA: `handler/ota_handler` | NVS keys `ota_flag`, `task_id`; the two static variables of that name | init (load), process (record, announce, download, restart or take back), report, clear | the GW is told the truth, and is told it at last |
| Control: `protocol/control_mgmt` | `current_owner`, `pending_list`, `pending_count` | request, release, is_owner | one controller, served in order of arrival |
| Motors: `handler/motor_handler`, `app/motor_control` | pin levels, PWM duties, one flag | mix angle and distance into four wheels; one switch | direction and duty agree with the speed |
| LED: `app/led_control` on `managed_components/espressif__led_strip` | pixels, state of the encoder | create, set pixel, refresh (enable, transmit, encode), clear | a refresh sends the whole frame and one reset code; a creation that fails leaves nothing allocated |
| cJSON trees: `utility/cJSON` | items linked by `next`, `prev`, `child`; keys and values in blocks of their own | create, add, refer, detach, insert, replace, rename, duplicate, delete | lists stay well formed, each block has one owner, nothing leaks or dangles |
| cJSON text: `utility/cJSON` | `parse_buffer`, `printbuffer`, `global_error` | parse, print (three ways), compare, minify | a text is accepted just when it is JSON, nothing is read or written outside the buffers, what is printed reads back |
| GPIO: `components/common_gpio` | none | configure pins, PWM, I2C at boot | - |
| Web server, SPIFFS | - | not built, nobody calls them | - |

cJSON and the LED strip are copies that live in the tree and are built with it,
and every message of the client goes through cJSON: they are modelled. `build/`,
ESP-IDF and the managed components that nobody calls are left out.

**Interaction.** Three kinds of threads share the state. The main task runs
`app_main` once. The event task runs `wifi_event_handler`; on GOT_IP it calls
`tcp_client_start`, which connects, runs the connected callback (register, then
OTA result) in the event task, and afterwards creates a `tcp_client_task`. Each
such worker reconnects when `sock` is -1 and otherwise blocks in `recv`; it
runs the whole of `ota_handler_process` inside the receive callback. They share
`sock`, the callbacks, the variables of the OTA handler, NVS and the flash
partitions. There is no lock anywhere. A fourth thread blinks the LED and shares
nothing with the others.

**What is hard.** Resets at any moment, between two NVS writes too; NVS and
malloc failures that nobody looks at; a station that connects before boot has
finished; a second GOT_IP that starts a second worker and overwrites `sock`;
connections that die with a message in them, or without a sign; a first connect
that is refused; events that queue while the handler blocks. `recv` returns bytes
and the dispatch takes them for messages; every message the client sends leaks
memory. In cJSON: a list whose tail is kept in the head's `prev`, references
that share what they do not own, an allocation that fails half way through a
tree, and arithmetic at the end of every buffer. `PROJECT.json` lists these
hazards at their lines.

## The modules

* `ControlLock`: the abstract promise of control arbitration: one owner, a set
  of waiting clients, control passes to one that waits.
  `ControlMgmt`: `control_mgmt.c` with its array, which `ControlLock` is
  instantiated over. The array with its count is a sequence; the hand-written
  shift is `Tail`. `control_request` is two actions, `RequestFree` and
  `RequestHeld` (the call of the controller itself changes nothing, and is the
  stutter); `control_release` is `Release`, promotion included. One call is
  one action: no caller exists in the tree, so the model assumes calls do not
  overlap and uuids are non-empty and shorter than `UUID_LEN`.
* `OtaPromise`: the abstract promise to the GW, without NVS, threads or
  sockets. A task is taken, and then installed or given up; each boot settles
  once what it has to say and says only that; an installed image that the GW
  has not heard of (`owed`) and that nothing has put in doubt (`doubtful`) runs
  next, and what the boot that runs it says is that it is complete; or NA, if
  its id is one that cannot be said again (`Unspeakable`).
  `OtaHandler`: the life of a task, over everything it touches. Flash is
  `nvs_flag`, `nvs_task`, `running`, `staged`; RAM is `ota_flag`,
  `ota_task_id`, `boot` (what `app_main` does next); each thread has a `pc`
  that names its next call; `link` says what the connection behind `sock` is
  worth. One action per step that a reset or another thread can come between:
  `ota_set_flag_task` is `SetFlag` then `SetTask` (and `UnsetFlag`, `UnsetTask`
  on the failure path), `ota_handler_init` is `LoadFlag` then `LoadTask`, run
  twice, and each of the two may fail by itself (`nvs_set_*` reaches flash by
  itself, `nvs_commit` adds nothing). `LongTasks` are the tasks whose ids have 64
  bytes or more: `nvs_set_str` stores them, and `nvs_get_str` refuses to read
  them into `ota_task_id[64]`, which then stays as it was (`Loaded`).
  `client_send_ota_result` is `Report`, or, without memory,
  `ReportNoMemory`, `ClearFlag`, `ClearTask`. `Reboot` is `esp_restart` and
  every other reset: RAM is lost, the boot loader starts what is staged. The
  constant `Faults` says what the environment may do, so that a property can be
  stated with the conditions it needs. `KeepsPromise` instantiates `OtaPromise`
  over it: `next` is what the boot loader would start, `taken` the tasks of busy
  workers, `story` what `client_send_ota_result` would say once boot has ended,
  `Unspeakable` are the `LongTasks`.
  Three constants of the promise are conditions on the faults. `Reliable` (NVS
  writes succeed, and memory does not fail while a second worker may be at
  work): the promise of a true report is only made then. `Orderly` (one GOT_IP,
  after boot, memory): no task is taken before the boot has said its story.
  `Lasting` (no erasure, memory): a record is not forgotten.
* `TcpClient`: `tcp_client.c` at the grain of its socket. `sock` is a
  variable that all threads read anew at each call; `fd[x]` is the descriptor
  a call of thread x was given; `conn` is lwip's table. `close(sock)` and
  `sock = -1` are two actions, as are `socket()` and the test that follows it.
* `WifiSta`: `wifi_event_handler`, fed by the queue of the default event loop.
  The radio goes on while the handler is blocked in `tcp_client_start`, whose
  own behaviour is in the two modules above.
* `MsgHandler`: what the client says and hears. A message of the GW is a row of
  parts; `Recv` takes any number of those that are there, `Dispatch` parses the
  value the buffer begins with and drops the rest, `Reject` is "Invalid JSON".
  `Create`, `PrintMessage`, `Copy`, `SendMessage` are the four steps each sender
  of the client takes, with the block each allocates or frees; `job` says which
  message it is and `after` where its caller goes on. `heap` counts blocks (a
  tree of items is one), and malloc may fail at each of them.
* `LedStrip`: `led_control_init` with the error paths of the RMT device and of
  its encoder, then `red_blue_quick_blink`. `Encode` is
  `rmt_encode_led_strip`, asked for the whole channel memory first and half of it
  from then on; the two encoders below it and the channel are external.
* `CJsonHeap`: the memory of cJSON and what the library does to it, as operators
  from heap to heap. `From` and `Visited` are the loops that follow pointers,
  as least closed sets. `home` is history.
  `CJsonTree`: the calls of `cJSON.h` that build and take apart trees,
  compositions of those operators, with `b` the number of allocations that
  succeed before one fails, and the contract of the header as their guards.
  `CJsonCopy` adds `cJSON_Duplicate` and the array constructors. A copy has one
  cell for each way down from its source; `Sons` are the items the loop walks over
  for each of them, by `next` from `child`, and `NextIn` and `PrevIn` what it
  writes into `next` and `prev` on the way and behind the loop. `CJsonLists` is
  the abstract specification: an array is a sequence of its items, and one call
  changes one place; `CJsonCopy` is shown to implement it.
* `CJsonString`: the byte-level functions, on sequences of bytes with offsets
  from 0: literals, escapes and UTF-16, numbers, blanks, Minify.
  `CJsonParse`: `cJSON_ParseWithLengthOpts`, one action per step of
  `parse_value`, `parse_array` and `parse_object`; the recursion is the
  variable `stack`. `PrintBuffer`: `ensure` and `update_offset`.
  `CJsonPrint`: `print_value` as a list of jobs, on top of `PrintBuffer`, with
  the three ways to print. `CJsonText` composes parser and printer.
  `CJsonMeaning` models `cJSON_Compare` on top, and has a definition of JSON of
  its own that the properties compare the code with. It uses none of the
  parser's functions: `TokenAt` says which token begins at a position of a
  text (`Characters`, `StringFrom`, `NumberFrom` for strings and numbers), `Lex`
  splits a text into tokens, `IsValue` reduces brackets from the inside out,
  `Nesting` is their depth, and `Tokens` are those of an item. Where cJSON takes
  more than RFC 8259 on purpose, the definition follows and says so: any byte up
  to 32 is a blank, control characters may stand in strings, numbers may begin
  with zeros, a byte order mark is passed over (if two more bytes follow it).
  `HasBadEscape` is not one of these: there `ParseIsRight` names what the code
  gets wrong. `CJsonText` and `CJsonMeaning` are apart because the second is
  written with RECURSIVE operators, which modules with proofs cannot reach.
* `MCCJson`, `MCText`: symmetry, a bound on the items at the start of a call
  (`FewItems`), texts and documents for TLC.
* `ControlMgmt_proofs`, `OtaHandler_proofs`, `TcpClient_proofs`,
  `WifiSta_proofs`, `MsgHandler_proofs`, `LedStrip_proofs`,
  `CJsonText_proofs`, `CJsonTree_proofs`: the theorems and their inductive
  invariants.

A definition marked `mutant` is not part of a model: it is what the definition
after it would be with a plausible mistake in the code, and the property it is
paired with in `PROJECT.json` must catch it.

**Variables that are not in the code.** `told`, `owed`, `givenUp` and
`unsettled` of `OtaHandler` and `tries` of `WifiSta` are history: no guard reads
them. `told` is the last OTA result handed to TCP since boot. `givenUp` says
that a report of this boot found no memory, and `client_send_ota_result` has gone
on to clear the record. `owed` is an installed task
the GW has not been told of; it ends when a report reaches a live connection,
when another task replaces it, when NVS is erased, or when the code gives the
record up for want of memory. `unsettled` marks the tasks whose record the code
cannot keep truthful: cut short by a reset between the write of the flag and
the end of `ota_handler_process`, hit by a failed NVS write, accepted while boot
still reads NVS, or processed by two workers at once. `TrueComplete` says that
those are the *only* ways to a wrong report, and the run `ota_reset` shows that
the first of them is real. `spoiled` stands for a partition two downloads write
at the same time; esp_https_ota verifies the image, so such a download fails.
`answered`, `announced`, `unannounced` and `awaited` of `MsgHandler`, `home` of
the heap, `reach` of the print buffer and `noMemory` of the parser are history
too. `lost` of `CJsonTree` are items nobody holds any more: what
`cJSON_AddItemReferenceToObject` drops when it cannot copy the key.

## The runs

| Run | Bounds | Shows |
|---|---|---|
| `control_mgmt` | 4 clients, 3 places | types and capacity, nobody waits while control is free, nobody is overtaken, everyone with a place is served, the array implements the lock. More clients than places: the array fills up and requests are dropped |
| `ota_faults` | 1 worker, 3 tasks, one with an id of 64 bytes or more, all faults but a second GOT_IP | what is reported complete runs or is marked; one story per boot, and it becomes NA only where that boot gave the record up |
| `ota_rejoin` | 2 workers, 3 tasks, one with an id of 64 bytes or more, second GOT_IP, resets, broken and refused connections | with two downloads in progress, the code implements the promise to the GW (so what is reported complete runs or is marked), and the record of an installed image survives |
| `ota_record` | 1 worker, 3 tasks, one with an id of 64 bytes or more, resets, broken connections, erased NVS | the last outcome is sent before a task is taken, the GW learns of the image at last, if its id is not too long |
| `ota_reset` (violation) | 1 worker, 3 tasks, one with an id of 64 bytes or more, resets | a reset before the download ends makes the next boot report "complete" |
| `tcp_one` | 2 workers, 3 descriptors, one GOT_IP, connections refused, broken, vanished | nothing leaks, nothing dangles, the client reconnects |
| `wifi_sta` | 5 retries as in the code, 4 queued events, lease may end | the budget, the resting state, the status flag; the station connects or gives up |
| `messages` | heap of 13 blocks, messages of 2 parts, a buffer of 3, 4 parts under way | between two messages the heap holds exactly what they leaked, so that a boot sends a bounded number of them; a keep_alive that comes alone and whole is answered, whatever comes behind it |
| `led_strip` | 2 LEDs, 2 bits a byte, channel memories of 2 to 24 symbols | the frame is whole wherever the memory fills up; creation is all or nothing |
| `cjson_tree` | 4 cells, 2 strings, 1 reference, 1 or 3 allocations before one fails | lists are well formed, strings have one owner, nothing is lost or dangles, the pointers implement the abstract lists |
| `cjson_lists` | 6 cells, of which a call finds at most 3 in use; 2 strings, 1 reference, arrays of up to 3 elements; allocations succeed but for want of cells and strings | a copy, of a list of two and of what is nested or referred to, shows what its source shows, is linked from head to tail and shares nothing; the pointers implement the abstract lists, with copies and array constructors too |
| `cjson_text` | all texts of up to 2 bytes over 12 bytes; 12 documents of up to 17 bytes with each byte cut, removed or replaced by each of the 12; with and without a terminating zero; nesting limit 2, `INT_MAX` 40, a first buffer of 4 bytes, 9 buffer sizes | parser and printer stay inside their buffers, accept just what a grammar of its own does (but for bad digits behind `\u`), free what they took; what is printed reads back; Compare and Minify mean what the header says |

**Why the bounds are enough.** Two tasks with ids that can be read back: one
recorded, one arriving; the properties compare a task with the record, never
three tasks with each other. A third has an id that is too long, and may be
either of the two. Two workers: the first overlap already has all races of flag,
task id and partition; the theorems hold for any number. One worker is what a
boot with one GOT_IP has. In `TcpClient` three descriptors are more than the
threads of the run can open at a time. The number of boots, connections, tasks
and retries is not bounded anywhere. `MaxQueue` bounds the events that wait: the
driver does not post when the queue is full. Thirteen blocks let a boot receive,
send and leak a few messages of every kind before malloc fails for good. The
frame of the LED run has 12 symbols, and the memories end before it, in it, with
it and behind it. Four cells are a list of three in its container, which has a
head, a middle and a tail, or a list in a list. A copy needs a cell for each
item of its source: with three items at the start of a call and three cells
more, what is copied is a list of two in its container (a first and a last item,
so that each of `next` and `prev` leads somewhere), a list in a list, and one
that a reference shares. `MaxLength` lets an array be made with none to three
elements, of which the last ones may fail. The theorems of `CJsonTree_proofs`
hold for any number of cells and any `MaxLength`. The texts of `cjson_text` are
chosen so that each production, each escape and each limit occurs and an edit
breaks it in every place.

**Deadlock.** It is checked except where the program really stops: a refused
first connect leaves the TCP client with nothing to do (`tcp_one`), a station
that has used up its retries does nothing more (`wifi_sta`), and the caller of
the tree functions need not call again, or has no cell left to call with
(`cjson_tree`, `cjson_lists`).

**Fairness.** Weak fairness of each thread's steps: FreeRTOS schedules by
priority with time slices, no task of this program runs without blocking, and
each blocking call but `recv` ends by itself (connect by its timeout,
esp_https_ota by the HTTP client's, `vTaskDelay`). Strong fairness of a
`connect` that succeeds: a GW that is asked again and again listens
sometimes; the first connect of a GOT_IP may fail once, and that is the fault
`refuse`. Strong fairness of a `recv` that fails: a broken connection has
buffered only so much data. No fairness of tasks that arrive, of downloads that
succeed as against fail, of disconnections or of resets. In `ControlMgmt` the
fairness is the caller's obligation: a controller releases control. In
`MsgHandler` the one thread runs (weak fairness of `Client`, whose blocked
`recv` returns as soon as something is there); that memory lasts or that the GW
sends is not assumed: what `KeepAliveAnswered` awaits ends when memory fails.
Liveness
properties have as their premise that disturbances end; a peer that vanishes
without FIN or RST is not covered by any liveness property, since `recv` has no
timeout and keep-alive is off.

## What is proved

TLAPS checks these for every value of the constants, given the named
assumptions of the modules (`NoTask` is no task, `Evt` is no worker, bounds are
naturals). No module relies on anything unproved.

* `ControlMgmt_proofs`. `ControlInvariant`: types, capacity, and nobody waits
  for nobody. The invariant is inductive as it stands. `OrderIsKept`: the
  action property on the order of arrival. `ControlImplementsLock`: the
  refinement; the initial state maps to the initial state and each action to
  an action of the lock or a stutter (a request that is stored twice, or
  dropped).
* `OtaHandler_proofs`. `TypeCorrect`, then `OtaInvariant`, from which follow
  `CompleteIsTrue`, `RecordIsKept`, `ReportIsFirst` and the action property
  `StoryIsKept`. None of them is inductive: what the GW is told comes from
  RAM, RAM from NVS at boot, and NVS from workers that may not be finished.
  `TrueCompleteInv` follows that chain backwards. `RamGenuine` is about RAM,
  `BootReadsGenuine` about the two passes of boot over the two keys while a
  worker may write them, `RecordGenuine` and `OwnRecord` about NVS and the
  worker in flight, `FlagTakenBack` about the failure path, `OverlapMarked` about
  two workers. `RecordInv` has the rest: `SameStory` (what would be said is what
  was told, or NA once the record is given up, for which `StoryIsKept` needs
  `ClearsNeedNoMemory`: nobody is on the way to `ClearFlag` but in a boot that
  gave up), `OneWorker` (one GOT_IP makes one worker), `RecordWritten` (the record
  is whole before the download), `OwedOnRecord` (an installed image is on record
  and nobody is about to overwrite it), `SilentUntilReport` (nobody receives
  before the first report of a boot: a report that fails leaves no connection).

  `PromiseIsKept` is the refinement of `OtaPromise`, under any faults. Because
  RAM decides what is said while flash decides what runs, `BootRemembers` is
  added to the invariants above: while boot loads the record, an owed task that
  nothing has put in doubt runs, and what has been loaded already is its record,
  or no id at all, where that is too long: the story is then NA.
  `EveryStepIsPromised` maps each action: the last step of boot (`BootMsg`) is
  `Settle`, a report is `Tell`, the arrival of a task `TakeOn`, the start of a
  download `Overwrite`, its end `Install`, a reset `StartAnew`, the erasure of
  NVS `Forget`; what a worker does between these is `GiveUp` or a stutter. That
  `Overwrite` and `Install` never go against a promise comes from `OwnRecord`
  and `OwedOnRecord`.
* `TcpClient_proofs`. `NothingDangles` for any number of racing threads: only
  `Close` gives back what `sock` names, and it leaves its thread at
  `sock = -1`. `NothingLeaks` for one GOT_IP, by
  `OneConnectionInv`: event task and worker take turns, so `sock` means the
  same at both ends of a call. `LowestIsFree` uses well-foundedness of the
  naturals.
* `WifiSta_proofs`. `StationInvariant` ties the queue to the radio: a station
  that is not idle has only addresses in its queue, one that became idle has
  said so last. From it `BudgetIsKept`, `RestIsEarned` and `StatusIsTrue`.
* `MsgHandler_proofs`. `EveryMessageLeaks` speaks of the moments between two
  messages; the invariant says at each step what the heap holds: what was leaked,
  the text received that `Finish` will free, and what the message under way
  has built so far. From it `LeaksAreExact` and `LeaksAreBounded`.
* `LedStrip_proofs`. `NothingIsLeft`, and `FramesAreWhole` by an invariant on
  how far the bytes encoder is: the wave is the frame's prefix of that length,
  with the reset code only behind all of it, for any number of LEDs and any even
  size of the memory.
* `CJsonText_proofs`, for any set of texts (whatever their length and bytes),
  any nesting limit, any `INT_MAX`, any sizes of buffers and an allocation that
  fails at any point. `TextInvariant` is the inductive invariant:
  - `Places`: the offset stays in the text, the depth is the number of open lists.
  - `Ledger`: the parser's `blocks` are the sum of what the open lists have taken
    and what the item under way owes; so freeing the lists from the inside out
    (`Unwind`) ends at none.
  - `Grown`: a set of items, closed under their children, holds the value
    and the items of all lists.  It takes the place of an induction over trees,
    which the provers cannot do: what `print_value` visits is in such a set.
  - `BufferInv`: types and the end of the print buffer; `Honestly`: each job that
    is left is a value of such a set, or a chunk that asks for the room it takes;
    `Owned`: the buffers that are allocated are the one held, or none.

  `NothingIsOverread` (`StaysInside`) needs what the functions on bytes return:
  the first pass over a string ends at its closing quote or the end (`ScanEnds`),
  a character gives no more bytes than it takes (`CharacterIs`), and the copy
  fits the block that the first pass measured (`StringIs`, citing
  `cJSON.c:857-858`), also where the second pass comes out of step with the
  first: bad digits behind a `\u` make it skip a quote that the first took for
  escaped, and it may then take the closing quote along. The functions are
  recursive over intervals of numbers; that they exist and what they return
  is by induction over the set of indices where the claim fails (`Downwards`,
  `StrongDown`). `NothingIsLeaked` is `FailureFreesAll`; `PrinterFits` is
  `WritesFit` along every behaviour of parser and printer. By itself, a client of
  the buffer that writes no more than it asked for (`Honest`) never writes past
  the end, at `INT_MAX` too (`NothingIsOverrun`), and a lent buffer stays
  (`LentBufferStays`).
* `CJsonTree_proofs`, given that the allocator has finitely many cells, for
  every sequence of calls that the contract allows (`MayDelete`, `MayLink`: the
  guards of the actions, which a C caller has to keep). `HeapInvariant` is the
  inductive invariant of all four properties, and none of its parts is
  inductive alone:
  - `StringInv`: a string block has one owner, and a free cell owns none (so a
    new item starts with nothing).
  - `Forest`: what `next` or an owner's `child` leads to is alive, is led to by
    one pointer only, is not an item the caller holds, and its `prev` knows whose
    `next` it is. It says where `cJSON_Delete` walks, and that nobody else
    leads there.
  - `ListInv`: a list ends, all its items name one home, and the first item's
    `prev` is the tail, where the next append goes.
  - `Shares`: what a reference shares is still there.
  - `Reached`: no set of live items that holds what the caller holds, and what
    those lead to, leaves one out. This is how "no cycle is cut off from the
    rest" is said without recursion, and what moves an item from one list to
    another has to keep it.

  There is one lemma per operation and part (`ListsDetach`, `ReachedInsert`,
  ...), one per operation for all of them (`HeapAdd`, `HeapReplace`, ...) and one
  per group of calls (`AddHolds`, `PlaceHolds`, ...). `ListsAreChains`,
  `AllIsReached`, `NothingDangles` and `StringsBelong` follow.

  `TreeImplementsLists` is the refinement: the calls of `CJsonTree` implement
  `CJsonLists`, where `kids` is read off the heap by following `next` from
  `child`. `Lined` says what it means that a sequence is the list of a cell: each
  item at home there, once, in the order of `next`. There can be only one such
  sequence (`ChainIs`: the walk of `Chain` gives it), so it is enough to say, per
  operation, which sequence is `Lined` after it (`KidsAdd`, `KidsDetach`,
  `KidsInsert`, `KidsSwap`, `KidsDelete`), and per group of calls, which step of
  `CJsonLists` that is (`AddLists`, `PlaceLists`, ...). That what is deleted is
  just what hangs below one item (`HangTogether`), and never the list it came out
  of (`OwnerApart`), comes from `HeapInvariant`.

  `CopySpec` adds the calls that make many items at once: `cJSON_Duplicate` and
  the array constructors, for any limit of nesting and any length of the
  arrays. `CopyInvariant` is the inductive invariant: that of `CJsonTree`, `Ordered`
  (the rows of the abstract lists are those of the heap) and `Afforded` (no more
  strings than there are blocks; the array constructors count on it when they
  find out how far they get). Both kinds of call put a tree of new items into
  the heap: `IsTree` says what a tree is without recursion (every item but the
  top is in one list, once, and a set with the top that is closed under lists has
  all of them), `Planted` that a heap has a tree that the one before did not have, and
  all parts of the invariant are shown to stand that (`ForestPlanted`,
  `ListsPlanted`, `KidsPlanted`, `StepPlant`).
  - An array grows by one element at a time: `Grown` says what `next`, `prev`,
    `child` and the strings are after i of them (`GrownMore`, `GrownAll`). Closed,
    it is planted (`ArrayMade`). When an element cannot be made, deleting the
    array visits just its elements and gives back just the blocks they took, and
    the heap is what it was (`ArrayUnmade`).
  - A copy has one cell for each way down from its source, so that what a
    reference shares is copied once per way. `WaysAre` and `LevelUp`, `LevelDown`,
    `LevelNext` say which ways there are; `CopyTree` that their copies are a tree,
    `CopyPlanted` that they are planted and linked as the code links them.

  `CopyKeepsHeap` has the four properties of the heap for `CopySpec`, and
  `CopyImplementsLists` the refinement. `CopiesAreEqual` is `CopyIsEqual`, for any
  copy there is memory for. What a copy shows is a recursion on the depth
  (`Views`), and by going down from `CircularLimit` each level of the copy shows
  what that of its source does (`ViewIs`, `CopiesShow`); the order is that of the
  walks (`SonsArePaths`, `InOrder`). `CopyLinks` has what the loop leaves in
  `next` and `prev`; with it the heap keeps its invariant when the copy is
  planted, and the invariant says that lists are linked well (`HeapShape`).

**Only model-checked:** every liveness property (`EveryWaiterServed`,
`ReportedAtLast`, `Reconnects`, `ConnectsOrGivesUp`, `KeepAliveAnswered`):
liveness under fairness is out of the prover's reach. Of text: that the parser
accepts just JSON (`ParseIsRight`), that what is printed reads back
(`PrintIsRight`), that five bytes more suffice for a lent buffer
(`FiveMoreSuffice`), and what Compare and Minify mean (`CompareIsRight`,
`MinifyKeepsTokens`). They compare the code with a recursive definition over all
inputs, and induction over data is out of the prover's reach.

## Where code and comments disagree

One disagreement has a run of its own:

* A reset between the write of the flag (`ota_handler.c:190`) and the end of
  the download is reported as `complete` (`ota_reset`). Recording the version
  expected, and comparing it in `ota_record_check`, would settle it.

The models have the others in their reachable states; the properties are stated
with the conditions that leave them out.

* `ota_handler_clear_flag` is reached only when nothing was sent, though
  `ota_handler.c:79` says "after tx to GW" (`ClearFlag` follows
  `ReportNoMemory` only). The record thus is never cleared in normal operation,
  and every connection repeats the last outcome.
* `ota_task_id` has 64 bytes and should be "save even reset" (`ota_handler.c:26`).
  `nvs_set_str` stores an id of any length, but `nvs_get_str` refuses one of 64
  bytes or more with no regard to the result (`ota_handler.c:49`): the image is
  installed and runs, and each of its boots says NA. `KeepsPromise` promises just
  that (`Unspeakable`), and `ReportedAtLast` leaves such tasks out.
* `wifi_sta_init` comes before `msg_handler_init` (`main.c:33`): a connection
  made in between is never notified, contrary to `msg_handler.h:9` and
  `tcp_client.c:50` (fault `early`).
* A refused first connect is never retried (`wifi_sta.c:60`, fault `refuse`).
* A second GOT_IP overwrites `sock` (`tcp_client.c:30`), leaks the connection
  and starts another worker (fault `rejoin`). `OneConnection` is about one
  GOT_IP. With two workers, `close(sock)` after a call that failed may close the
  connection the other has opened since (`tcp_client.c:63`, `90`): which one is
  closed is not promised, only that the record and the report outlive it.
* Requests for control are stored twice and fill the array
  (`control_mgmt.c:35`); by the same duplicates a controller may be promoted
  again by its own release.
* A lost lease goes unnoticed: `IP_EVENT_STA_LOST_IP` has no handler
  (`wifi_sta.c:87`). `StatusCatchesUp` allows this one exception.
* Every message sent leaks its tree and its text, and `ota_progress` one tree
  more (`msg_handler.c:42`, `client_register.c:68`, `ota_handler.c:109` and
  `133`): `EveryMessageLeaks` counts them.
* A message that arrives behind another in the same `recv` is dropped, one cut in
  two is dropped twice (`msg_handler.c:51`). `KeepAliveAnswered` promises an
  answer only to one at the front of a `recv`, and whole.
* cJSON: `cJSON_AddItemReferenceToObject` leaks the reference when the key
  cannot be copied (`lost`). `replace_item_in_object` renames the replacement
  also when it replaces nothing. The case-sensitive `get_object_item` stops at
  the first element without a key. `cJSON_Compare` calls equal objects with
  duplicate keys different. `parse_hex4` returns 0 for four characters that are
  not hexadecimal, which its comment calls invalid (`cJSON.c:681`), so that an
  escape of `ZZZZ` is accepted: `ParseIsRight` excepts texts that have such an
  escape before the end of their value (`HasBadEscape`), and nothing else. A
  string with an escaped zero is cut there when printed. `cJSON_Minify` takes
  the quote behind an escaped backslash for an escaped quote (`cJSON.c:2901`),
  and then removes blanks of the next string or keeps those between tokens,
  contrary to `cJSON.h:263`; `MinifyKeepsTokens` excludes such texts.

## Not modelled

* The motors. `motor_handler` mixes floating-point speeds into PWM duties, keeps
  no state and is called by nobody (its reverse branch sets the duty of the
  channel on the PWM pin it has just pulled low, where its comment says the
  output goes to the direction pin). `motor_control` writes one pin and one
  flag, and its initialisation is commented out.
* GPIO, PWM and I2C set-up: driver calls in a row, nothing is read back; their
  aborts are resets.
* Of the LED: the tasks nobody starts, the SPI device, RGBW, HSV and deletion,
  which nobody calls. Of cJSON: the digits of floating-point numbers (numbers
  are whole and saturate at `INT_MAX`), `cJSON_SetValuestring` and
  `SetNumberHelper`, user hooks, raw items in the printer, type predicates. The
  sums of `ensure` are of type `size_t` and stay below 2^32 as long as lengths
  are at most `INT_MAX`, which it checks; no width is modelled.
* The wording of messages, the certificates and the download itself.
* Web server and SPIFFS are not built; the JPEG decoders have no caller.

## What could come next

1. A composition of `WifiSta` and `TcpClient` on their shared GOT_IP, so that
   reconnection of the station and of the TCP client meet.
2. `cJSON_SetValuestring` and the hooks, should the program begin to use them.
