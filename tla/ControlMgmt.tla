---------------------------- MODULE ControlMgmt ----------------------------
(***************************************************************************)
(* protocol/control_mgmt/control_mgmt.c: who is in control of the device   *)
(* and who waits for control.  The two static arrays are one value and one *)
(* sequence: pending_list[0..pending_count-1] is the sequence, so that     *)
(* pending_count is its length.  A uuid is a member of Clients; the empty  *)
(* string, which the code stores for "nobody", is NoOwner.  Callers are    *)
(* assumed to pass a uuid that is not empty and shorter than UUID_LEN.     *)
(***************************************************************************)
EXTENDS Naturals, Sequences

CONSTANTS
    Clients,        \* the uuids a caller may pass
    NoOwner,        \* the empty uuid
    MAX_CLIENTS     \* capacity of pending_list, 8 in control_mgmt.h

ASSUME ControlAssumption ==
    /\ NoOwner \notin Clients
    /\ MAX_CLIENTS \in Nat \ {0}

VARIABLES current_owner, pending_list

vars == <<current_owner, pending_list>>

-----------------------------------------------------------------------------
\* control_manager_init
Init ==
    /\ current_owner = NoOwner
    /\ pending_list = <<>>

control_is_owner(uuid) == current_owner = uuid

RequestFreeUnchecked(uuid) ==           \* mutant: the owner is not looked at
    /\ current_owner' = uuid
    /\ UNCHANGED pending_list

\* control_request when nobody is in control: returns true.
RequestFree(uuid) ==
    /\ current_owner = NoOwner
    /\ current_owner' = uuid
    /\ UNCHANGED pending_list

HasRoomOffByOne == Len(pending_list) <= MAX_CLIENTS             \* mutant

HasRoom == Len(pending_list) < MAX_CLIENTS

\* control_request when another client is in control: returns false, and
\* stores the uuid only while the array has room (and even if it is there).
RequestHeld(uuid) ==
    /\ current_owner # NoOwner
    /\ ~ control_is_owner(uuid)
    /\ pending_list' = IF HasRoom
                          THEN Append(pending_list, uuid)
                          ELSE pending_list
    /\ UNCHANGED current_owner

ClearOnly ==                            \* mutant: nobody is promoted
    /\ current_owner' = NoOwner
    /\ UNCHANGED pending_list

PromoteLast ==                          \* mutant: the array used as a stack
    IF pending_list # <<>>
       THEN /\ current_owner' = pending_list[Len(pending_list)]
            /\ pending_list' = SubSeq(pending_list, 1, Len(pending_list) - 1)
       ELSE ClearOnly

PromoteUnshifted ==                     \* mutant: the others do not move down
    IF pending_list # <<>>
       THEN /\ current_owner' = Head(pending_list)
            /\ pending_list' = SubSeq(pending_list, 1, Len(pending_list) - 1)
       ELSE ClearOnly

\* The promotion at the end of control_release: the first of the array is
\* copied to current_owner and the others move down by one.
Promote ==
    IF pending_list # <<>>
       THEN /\ current_owner' = Head(pending_list)
            /\ pending_list' = Tail(pending_list)
       ELSE /\ current_owner' = NoOwner
            /\ UNCHANGED pending_list

\* control_release by the controller: returns true.  Any other caller gets
\* false and changes nothing.
Release(uuid) ==
    /\ control_is_owner(uuid)
    /\ Promote

Next == \E uuid \in Clients :
            RequestFree(uuid) \/ RequestHeld(uuid) \/ Release(uuid)

Spec == Init /\ [][Next]_vars

\* Every controller releases control at last: the caller's obligation.
OwnersRelease == WF_vars(\E uuid \in Clients : Release(uuid))

FairSpec == Spec /\ OwnersRelease

-----------------------------------------------------------------------------
Waiting == {pending_list[i] : i \in DOMAIN pending_list}

\* current_owner is a uuid or empty, and pending_count stays within the array.
TypeOK ==
    /\ current_owner \in Clients \union {NoOwner}
    /\ pending_list \in Seq(Clients)
    /\ Len(pending_list) <= MAX_CLIENTS

\* Clients wait only while somebody is in control: control_request gives free
\* control to whoever calls, so a client left in the array while current_owner
\* is empty would be overtaken, and promoted only after somebody else's turn.
NobodyWaitsForNobody == current_owner = NoOwner => pending_list = <<>>

\* a stands in the array before the first entry of b.
Ahead(a, b) ==
    \E i \in DOMAIN pending_list :
        /\ pending_list[i] = a
        /\ \A j \in 1..i : pending_list[j] # b

\* Control is never handed to a client while another one has been waiting
\* longer than it: promotion and the shift of the array together keep the
\* order of arrival, whatever calls come between.
NoOvertaking ==
    [][\A a, b \in Clients :
          (current_owner' = b /\ current_owner # b) =>
             /\ ~ Ahead(a, b)
             /\ a \in Waiting => b \in Waiting]_vars

\* A client that got into the array is in control at last, if every controller
\* releases control: requests of others never push it back.
EveryWaiterServed ==
    \A c \in Clients : (c \in Waiting) ~> (current_owner = c)

\* The array and its shifting implement the abstract lock.
Lock == INSTANCE ControlLock WITH owner <- current_owner, waiting <- Waiting

ImplementsLock == Lock!LockSpec

=============================================================================
