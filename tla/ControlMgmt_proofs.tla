------------------------- MODULE ControlMgmt_proofs -------------------------
(***************************************************************************)
(* Machine-checked proofs about ControlMgmt, for every set of clients and  *)
(* every capacity of the array.                                            *)
(***************************************************************************)
EXTENDS ControlMgmt, TLAPS

ControlInv == TypeOK /\ NobodyWaitsForNobody

-----------------------------------------------------------------------------
(* Lemmas about the array: what appending and shifting do to its members. *)

\* Appending adds a member and moves no other.
LEMMA AppendMembers ==
  ASSUME NEW S, NEW s \in Seq(S), NEW e \in S
  PROVE  /\ Append(s, e) \in Seq(S)
         /\ Len(Append(s, e)) = Len(s) + 1
         /\ \A i \in DOMAIN s : Append(s, e)[i] = s[i]
         /\ {Append(s, e)[i] : i \in DOMAIN Append(s, e)}
              = {s[i] : i \in DOMAIN s} \union {e}
<1>1. /\ Append(s, e) \in Seq(S)
      /\ Len(Append(s, e)) = Len(s) + 1
      /\ DOMAIN Append(s, e) = 1..(Len(s) + 1)
      /\ \A i \in 1..Len(s) : Append(s, e)[i] = s[i]
      /\ Append(s, e)[Len(s) + 1] = e
  OBVIOUS
<1>2. DOMAIN s = 1..Len(s) /\ Len(s) \in Nat
  OBVIOUS
<1>3. ASSUME NEW x \in {s[i] : i \in DOMAIN s} \union {e}
      PROVE  x \in {Append(s, e)[i] : i \in DOMAIN Append(s, e)}
  <2>1. CASE x = e
    <3>1. Len(s) + 1 \in DOMAIN Append(s, e)
      BY <1>1, <1>2
    <3>2. QED
      BY <2>1, <3>1, <1>1
  <2>2. CASE x # e
    <3>1. PICK i \in DOMAIN s : x = s[i]
      BY <2>2, <1>3
    <3>2. i \in DOMAIN Append(s, e) /\ Append(s, e)[i] = x
      BY <3>1, <1>1, <1>2
    <3>3. QED
      BY <3>2
  <2>3. QED
    BY <2>1, <2>2
<1>4. ASSUME NEW x \in {Append(s, e)[i] : i \in DOMAIN Append(s, e)}
      PROVE  x \in {s[i] : i \in DOMAIN s} \union {e}
  <2>1. PICK i \in DOMAIN Append(s, e) : x = Append(s, e)[i]
    BY <1>4
  <2>2. i = Len(s) + 1 \/ i \in DOMAIN s
    BY <2>1, <1>1, <1>2
  <2>3. QED
    BY <2>1, <2>2, <1>1, <1>2
<1>5. QED
  BY <1>1, <1>2, <1>3, <1>4

\* Shifting the array down by one takes its head away, once.
LEMMA TailMembers ==
  ASSUME NEW S, NEW s \in Seq(S), s # <<>>
  PROVE  /\ Head(s) \in S /\ Tail(s) \in Seq(S)
         /\ Len(Tail(s)) = Len(s) - 1
         /\ \A i \in 1..(Len(s) - 1) : Tail(s)[i] = s[i + 1]
         /\ {s[i] : i \in DOMAIN s}
              = {Tail(s)[i] : i \in DOMAIN Tail(s)} \union {Head(s)}
<1>1. /\ Head(s) \in S /\ Tail(s) \in Seq(S) /\ Head(s) = s[1]
      /\ Len(s) \in Nat /\ Len(s) >= 1
      /\ DOMAIN s = 1..Len(s)
  OBVIOUS
<1>2. /\ Len(Tail(s)) = Len(s) - 1
      /\ DOMAIN Tail(s) = 1..(Len(s) - 1)
      /\ \A i \in 1..(Len(s) - 1) : Tail(s)[i] = s[i + 1]
  OBVIOUS
<1>3. ASSUME NEW x \in {s[i] : i \in DOMAIN s}
      PROVE  x \in {Tail(s)[i] : i \in DOMAIN Tail(s)} \union {Head(s)}
  <2>1. PICK i \in 1..Len(s) : x = s[i]
    BY <1>1, <1>3
  <2>2. CASE i = 1
    BY <2>1, <2>2, <1>1
  <2>3. CASE i # 1
    <3>1. i - 1 \in DOMAIN Tail(s) /\ Tail(s)[i - 1] = x
      BY <2>1, <2>3, <1>1, <1>2
    <3>2. QED
      BY <3>1
  <2>4. QED
    BY <2>2, <2>3
<1>4. ASSUME NEW x \in {Tail(s)[i] : i \in DOMAIN Tail(s)} \union {Head(s)}
      PROVE  x \in {s[i] : i \in DOMAIN s}
  <2>1. CASE x = Head(s)
    BY <2>1, <1>1
  <2>2. CASE x # Head(s)
    <3>1. PICK i \in DOMAIN Tail(s) : x = Tail(s)[i]
      BY <2>2, <1>4
    <3>2. i + 1 \in DOMAIN s /\ x = s[i + 1]
      BY <3>1, <1>1, <1>2
    <3>3. QED
      BY <3>2
  <2>3. QED
    BY <2>1, <2>2
<1>5. QED
  BY <1>1, <1>2, <1>3, <1>4

-----------------------------------------------------------------------------
\* Initially nobody controls and nobody waits.
LEMMA ControlInit == Init => ControlInv
BY ControlAssumption DEF Init, ControlInv, TypeOK, NobodyWaitsForNobody

\* Every call keeps the array within its bounds and empty while control is
\* free: release frees control only when it finds the array empty.
LEMMA ControlStep == ControlInv /\ [Next]_vars => ControlInv'
<1> SUFFICES ASSUME ControlInv, [Next]_vars PROVE ControlInv'
  OBVIOUS
<1> USE ControlAssumption DEF ControlInv, TypeOK, NobodyWaitsForNobody
<1>1. ASSUME NEW uuid \in Clients, RequestFree(uuid) PROVE ControlInv'
  BY <1>1 DEF RequestFree
<1>2. ASSUME NEW uuid \in Clients, RequestHeld(uuid) PROVE ControlInv'
  <2>1. CASE HasRoom
    BY <1>2, <2>1, AppendMembers DEF RequestHeld, HasRoom
  <2>2. CASE ~ HasRoom
    BY <1>2, <2>2 DEF RequestHeld
  <2>3. QED
    BY <2>1, <2>2
<1>3. ASSUME NEW uuid \in Clients, Release(uuid) PROVE ControlInv'
  <2>1. CASE pending_list # <<>>
    BY <1>3, <2>1, TailMembers DEF Release, Promote
  <2>2. CASE pending_list = <<>>
    BY <1>3, <2>2 DEF Release, Promote
  <2>3. QED
    BY <2>1, <2>2
<1>4. CASE UNCHANGED vars
  BY <1>4 DEF vars
<1>5. QED
  BY <1>1, <1>2, <1>3, <1>4 DEF Next

\* The owner is a client or nobody, pending_count stays within the array, and
\* nobody is left waiting for control that is free.
THEOREM ControlInvariant == Spec => [](TypeOK /\ NobodyWaitsForNobody)
<1>1. QED
  BY ControlInit, ControlStep, PTL DEF Spec, ControlInv

\* The owner and the array keep their types, and the count stays within it.
THEOREM TypeCorrect == Spec => []TypeOK
<1>1. ControlInv => TypeOK
  BY DEF ControlInv
<1>2. QED
  BY <1>1, ControlInvariant, PTL

\* Nobody is left in the array while control is free, whatever order requests
\* and releases come in.
THEOREM NobodyIsLeftWaiting == Spec => []NobodyWaitsForNobody
<1>1. ControlInv => NobodyWaitsForNobody
  BY DEF ControlInv
<1>2. QED
  BY <1>1, ControlInvariant, PTL

-----------------------------------------------------------------------------
\* A call of the code is a step of the lock, or changes nothing the lock sees.
LEMMA LockStep == ControlInv /\ [Next]_vars => [Lock!LockNext]_(Lock!lockVars)
<1> SUFFICES ASSUME ControlInv, [Next]_vars
             PROVE  [Lock!LockNext]_(Lock!lockVars)
  OBVIOUS
<1> USE ControlAssumption DEF ControlInv, TypeOK, NobodyWaitsForNobody,
        Lock!lockVars, Lock!LockNext
<1>1. ASSUME NEW uuid \in Clients, RequestFree(uuid)
      PROVE  Lock!Grant(uuid)
  BY <1>1 DEF RequestFree, Lock!Grant, Waiting
<1>2. ASSUME NEW uuid \in Clients, RequestHeld(uuid)
      PROVE  Lock!Wait(uuid) \/ UNCHANGED Lock!lockVars
  <2>1. CASE HasRoom
    BY <1>2, <2>1, AppendMembers
       DEF RequestHeld, Lock!Wait, Waiting, control_is_owner
  <2>2. CASE ~ HasRoom
    BY <1>2, <2>2 DEF RequestHeld, Waiting
  <2>3. QED
    BY <2>1, <2>2
<1>3. ASSUME NEW uuid \in Clients, Release(uuid)
      PROVE  Lock!Handover(uuid)
  <2>1. CASE pending_list # <<>>
    <3>1. /\ current_owner' = Head(pending_list)
          /\ Waiting = Waiting' \union {Head(pending_list)}
      <4>1. /\ current_owner' = Head(pending_list)
            /\ pending_list' = Tail(pending_list)
        BY <1>3, <2>1 DEF Release, Promote
      <4>2. {pending_list[i] : i \in DOMAIN pending_list}
              = {Tail(pending_list)[i] : i \in DOMAIN Tail(pending_list)}
                  \union {Head(pending_list)}
        BY <2>1, TailMembers
      <4>3. QED
        BY <4>1, <4>2 DEF Waiting
    <3>2. Waiting' \in {Waiting, Waiting \ {current_owner'}}
      BY <3>1
    <3>3. QED
      BY <1>3, <3>1, <3>2 DEF Release, control_is_owner, Lock!Handover
  <2>2. CASE pending_list = <<>>
    BY <1>3, <2>2 DEF Release, Promote, control_is_owner, Waiting,
       Lock!Handover
  <2>3. QED
    BY <2>1, <2>2
<1>4. CASE UNCHANGED vars
  BY <1>4 DEF vars, Waiting
<1>5. QED
  BY <1>1, <1>2, <1>3, <1>4 DEF Next

\* The array-based code implements the abstract lock, whatever its capacity.
THEOREM ControlImplementsLock == Spec => ImplementsLock
<1>1. Init => Lock!LockInit
  BY DEF Init, Lock!LockInit, Waiting
<1>2. QED
  BY ControlInvariant, LockStep, <1>1, PTL
     DEF Spec, ImplementsLock, Lock!LockSpec, ControlInv

\* Control never passes to a client while another waits that came before it.
THEOREM OrderIsKept == Spec => NoOvertaking
<1> DEFINE InOrder == \A a, b \in Clients :
                         (current_owner' = b /\ current_owner # b) =>
                            /\ ~ Ahead(a, b)
                            /\ a \in Waiting => b \in Waiting
<1>1. ControlInv /\ [Next]_vars => [InOrder]_vars
  <2> SUFFICES ASSUME ControlInv, Next,
                      NEW a \in Clients, NEW b \in Clients,
                      current_owner' = b, current_owner # b
               PROVE  ~ Ahead(a, b) /\ (a \in Waiting => b \in Waiting)
    OBVIOUS
  <2> USE ControlAssumption DEF ControlInv, TypeOK, NobodyWaitsForNobody
  <2>1. CASE pending_list = <<>>
    BY <2>1 DEF Ahead, Waiting
  <2>2. CASE pending_list # <<>>
    <3>1. b = Head(pending_list)
      BY <2>2 DEF Next, RequestFree, RequestHeld, Release, Promote
    <3>2. b = pending_list[1] /\ 1 \in DOMAIN pending_list
      BY <2>2, <3>1
    <3>3. \A i \in DOMAIN pending_list : 1 \in 1..i
      OBVIOUS
    <3>4. QED
      BY <3>2, <3>3 DEF Ahead, Waiting
  <2>3. QED
    BY <2>1, <2>2
<1>2. QED
  BY ControlInvariant, <1>1, PTL DEF Spec, NoOvertaking, ControlInv
=============================================================================
