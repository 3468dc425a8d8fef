----------------------------- MODULE OtaPromise -----------------------------
(***************************************************************************)
(* What the client promises the gateway (GW) about OTA tasks: a task that  *)
(* was taken is installed or given up; each boot settles once what it has  *)
(* to say, says only that, and says of an installed image that it is       *)
(* complete, once it runs, until the GW has heard it.  No NVS, no threads, *)
(* no sockets: OtaHandler shows that the code implements this.             *)
(***************************************************************************)
CONSTANTS
    NoTask,         \* the image from the factory
    Silence, NA,    \* nothing said; nothing to say
    Complete(_),    \* the task's image has been installed
    Unspeakable,    \* the tasks whose ids are too long to be said again
    Reliable,       \* NVS works, and nobody gives a record up while others use it
    Orderly,        \* a boot ends before the first connection, the only one
    Lasting         \* the record is never erased, nor given up

VARIABLES
    image, next,    \* the image that runs, and the one the next boot starts
    taken,          \* the tasks at work
    story,          \* what this boot has to say, Silence before it knows
    told,           \* what it has said
    owed,           \* an installed task the GW has not heard of, or NoTask
    doubtful        \* tasks that were cut short or got in each other's way

promiseVars == <<image, next, taken, story, told, owed, doubtful>>

Promised == owed # NoTask /\ Reliable /\ owed \notin doubtful

PromiseInit ==
    /\ image = NoTask /\ next = NoTask /\ owed = NoTask
    /\ taken = {} /\ doubtful = {}
    /\ story = Silence /\ told = Silence

Sayable(ts) == ts \ (Unspeakable \union {NoTask})

\* NVS has been read.  What is promised is what runs, and what will be said.
Settle ==
    /\ story = Silence
    /\ story' \in {NA} \union {Complete(t) : t \in Sayable({image} \union doubtful)}
    /\ Promised => owed = image /\ story' = IF owed \in Unspeakable THEN NA
                                                ELSE Complete(owed)
    /\ UNCHANGED <<image, next, taken, told, owed>>

\* The GW may hear it, or the connection loses it.
Tell ==
    /\ story # Silence
    /\ told' = story
    /\ owed' = owed \/ (owed' = NoTask /\ story = Complete(owed))
    /\ UNCHANGED <<image, next, taken, story>>

\* Another task replaces the one the GW has not heard of, but not unheard.
TakeOn(t) ==
    /\ Orderly => told # Silence
    /\ taken' = taken \union {t}
    /\ owed' = NoTask
    /\ UNCHANGED <<image, next, story, told>>

\* The download begins to overwrite what the boot loader would start next.
Overwrite ==
    /\ ~ Promised
    /\ next' = image
    /\ UNCHANGED <<image, taken, story, told, owed>>

Install(t) ==
    /\ ~ Promised
    /\ t \in taken
    /\ next' = t /\ owed' = t
    /\ UNCHANGED <<image, taken, story, told>>

GiveUp ==
    /\ taken' \subseteq taken
    /\ UNCHANGED <<image, next, story, told, owed>>

\* A restart, wanted or not, at any moment.
StartAnew ==
    /\ image' = next
    /\ taken' = {} /\ story' = Silence /\ told' = Silence
    /\ UNCHANGED <<next, owed>>

\* The record is erased during boot, or given up for want of memory.
Forget ==
    /\ ~ Lasting
    /\ owed' = NoTask
    /\ UNCHANGED <<image, next, taken, story, told>>

ForgetStory ==
    /\ ~ Lasting /\ ~ Promised
    /\ story # Silence /\ story' = NA
    /\ UNCHANGED <<image, next, taken, told, owed>>

\* Doubt comes from tasks at work, and never upon what is promised.
Doubts ==
    /\ doubtful \subseteq doubtful'
    /\ doubtful' # doubtful => taken \union taken' # {}
    /\ Promised /\ owed' = owed => owed \notin doubtful'

PromiseNext ==
    /\ Doubts
    /\ \/ Settle \/ Tell \/ Overwrite \/ GiveUp \/ StartAnew
       \/ Forget \/ ForgetStory
       \/ \E t \in taken : Install(t)
       \/ \E t \in taken' : TakeOn(t)

PromiseSpec == PromiseInit /\ [][PromiseNext]_promiseVars
=============================================================================
