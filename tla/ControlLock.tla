---------------------------- MODULE ControlLock ----------------------------
(***************************************************************************)
(* What control_mgmt promises its callers: one controller at a time, and   *)
(* control that is handed from a controller that releases it to somebody   *)
(* who asked for it.  No queue, no order, no capacity: ControlMgmt shows   *)
(* that the array-based code implements this.                              *)
(***************************************************************************)
CONSTANTS
    Clients,    \* the uuids that may ask for control
    NoOwner     \* the empty uuid: nobody is in control

VARIABLES
    owner,      \* who is in control
    waiting     \* who has asked and was not yet served

lockVars == <<owner, waiting>>

LockInit ==
    /\ owner = NoOwner
    /\ waiting = {}

\* Control that nobody holds is given to the one who asks.
Grant(c) ==
    /\ owner = NoOwner
    /\ owner' = c
    /\ UNCHANGED waiting

\* Control that is held is waited for.
Wait(c) ==
    /\ owner \notin {NoOwner, c}
    /\ waiting' = waiting \union {c}
    /\ UNCHANGED owner

\* The controller gives up control: it is free only if nobody waits for it,
\* and otherwise goes to a client that waits, who may have asked twice.
Handover(c) ==
    /\ owner = c
    /\ IF waiting = {}
          THEN /\ owner' = NoOwner
               /\ UNCHANGED waiting
          ELSE /\ owner' \in waiting
               /\ waiting' \in {waiting, waiting \ {owner'}}

LockNext == \E c \in Clients : Grant(c) \/ Wait(c) \/ Handover(c)

LockSpec == LockInit /\ [][LockNext]_lockVars
=============================================================================
