---------------------------- MODULE WifiSta_proofs ----------------------------
(***************************************************************************)
(* Machine-checked proofs about WifiSta, for every retry budget and every  *)
(* length of the event queue.                                              *)
(***************************************************************************)
EXTENDS WifiSta, TLAPS

\* The variables keep their types.
LEMMA TypeInit == Init => TypeOK
<1> SUFFICES ASSUME Init PROVE TypeOK
  OBVIOUS
<1>1. events \in Seq({"STA_START", "STA_DISCONNECTED", "GOT_IP"}) /\ Len(events) = 0
  BY DEF Init
<1>2. retry_count \in 0..MAX_RETRY
  BY WifiAssumption DEF Init
<1>3. s_connected \in BOOLEAN
  BY Zenon DEF Init
<1>4. Len(events) <= MaxQueue
  BY <1>1, WifiAssumption
<1>5. radio = "off" /\ handler = "free" /\ tries = 0
  BY DEF Init
<1>6. QED
  BY <1>1, <1>2, <1>3, <1>4, <1>5 DEF TypeOK

LEMMA TypeStep == TypeOK /\ [Next]_vars => TypeOK'
<1> SUFFICES ASSUME TypeOK, [Next]_vars PROVE TypeOK'
  OBVIOUS
<1> USE WifiAssumption DEF TypeOK
<1>1. CASE StationStarts
  BY <1>1 DEF StationStarts, Post
<1>2. CASE Associates
  BY <1>2 DEF Associates
<1>3. CASE AddressArrives
  BY <1>3 DEF AddressArrives, Post
<1>4. CASE Disconnects
  BY <1>4 DEF Disconnects, Post
<1>5. CASE AddressLost
  BY <1>5 DEF AddressLost
<1>6. CASE OnStart
  BY <1>6 DEF OnStart, Take, Connect
<1>7. CASE OnDisconnected
  <2>1. s_connected' \in BOOLEAN
    BY <1>7, Zenon DEF OnDisconnected, Disconnected
  <2>2. retry_count' \in 0..MAX_RETRY /\ tries' \in Nat
    BY <1>7 DEF OnDisconnected, Connect, MayRetry
  <2>3. radio' \in {"off", "idle", "joining", "joined", "online"}
    BY <1>7 DEF OnDisconnected, Connect
  <2>4. QED
    BY <1>7, <2>1, <2>2, <2>3 DEF OnDisconnected, Take
<1>8. CASE OnGotIp
  BY <1>8 DEF OnGotIp, Take
<1>9. CASE TcpStarted
  BY <1>9 DEF TcpStarted
<1>10. CASE UNCHANGED vars
  BY <1>10 DEF vars
<1>11. QED
  BY <1>1, <1>2, <1>3, <1>4, <1>5, <1>6, <1>7, <1>8, <1>9, <1>10 DEF Next,
     Handler

\* Type correctness: the retry counter stays within its budget and the queue
\* within its length.
THEOREM TypeCorrect == Spec => []TypeOK
BY TypeInit, TypeStep, PTL DEF Spec

-----------------------------------------------------------------------------
(* What the queue says about the radio.  A station that is not idle has only *)
(* addresses in the queue; one that became idle has said so last.            *)

QueueTellsRadio ==
    /\ \A i \in 1..Len(events) : events[i] # "GOT_IP" =>
          i = Len(events) /\ radio = "idle"
    /\ radio = "idle" /\ events # <<>> => events[Len(events)] # "GOT_IP"
    /\ radio \in {"off", "joining"} => events = <<>>

\* The first event starts the station, and nothing was tried before it.
StartIsFirst ==
    /\ radio = "off" => tries = 0
    /\ \A i \in 1..Len(events) : events[i] = "STA_START" =>
          Len(events) = 1 /\ tries = 0

\* Every try but the one of the start was paid for by a disconnection.
TriesArePaid == tries <= retry_count + 1

\* An idle station whose disconnection has been handled has nothing left.
IdleIsSpent == radio = "idle" /\ events = <<>> => retry_count = MAX_RETRY

\* The status flag is what the events handled so far make it.
StatusFollows ==
    /\ radio \in {"off", "joining"} => ~ s_connected
    /\ radio = "idle" /\ events = <<>> => ~ s_connected
    /\ radio = "idle" /\ events = <<"STA_START">> => ~ s_connected
    /\ radio = "online" /\ events = <<>> => s_connected
    /\ radio = "joined" /\ ~ LeaseEnds => ~ s_connected /\ events = <<>>

WifiInv ==
    /\ QueueTellsRadio
    /\ StartIsFirst
    /\ TriesArePaid
    /\ IdleIsSpent
    /\ StatusFollows

\* A queue that is not empty has a first event.
LEMMA NotEmpty ==
  ASSUME NEW S, NEW q \in Seq(S), q # <<>>
  PROVE  Len(q) \in Nat \ {0}
OBVIOUS

\* A disconnection is the last event of the queue: the station is idle, and
\* either tries again and has paid for it, or has spent its budget.
LEMMA DisconnectionKeeps ==
  ASSUME TypeOK, WifiInv, OnDisconnected
  PROVE  WifiInv'
<1>1. /\ events # <<>> /\ events[1] = "STA_DISCONNECTED"
      /\ events' = Tail(events)
  BY DEF OnDisconnected, Take
<1>2. Len(events) \in Nat \ {0}
  BY <1>1, NotEmpty DEF TypeOK
<1>3. Len(events) = 1 /\ radio = "idle"
  <2>1. 1 \in 1..Len(events)
    BY <1>2
  <2>2. \A i \in 1..Len(events) : events[i] # "GOT_IP" =>
           i = Len(events) /\ radio = "idle"
    BY DEF WifiInv, QueueTellsRadio
  <2>3. QED
    BY <1>1, <2>1, <2>2
<1>4. events' = <<>>
  BY <1>1, <1>3 DEF TypeOK
<1>5. \/ retry_count' = retry_count + 1 /\ tries' = tries + 1 /\ radio' = "joining"
      \/ /\ retry_count' = retry_count /\ tries' = tries /\ radio' = "idle"
         /\ ~ (retry_count < MAX_RETRY)
  BY <1>3, Zenon DEF OnDisconnected, Connect, MayRetry
<1>6. TriesArePaid'
  BY <1>5 DEF TypeOK, WifiInv, TriesArePaid
<1>7. IdleIsSpent'
  BY <1>5, WifiAssumption DEF TypeOK, IdleIsSpent
<1>8. QueueTellsRadio' /\ StartIsFirst'
  BY <1>4, <1>5 DEF QueueTellsRadio, StartIsFirst
<1>9. ~ s_connected'
  BY Zenon DEF OnDisconnected, Disconnected
<1>10. StatusFollows'
  BY <1>4, <1>5, <1>9 DEF StatusFollows
<1>11. QED
  BY <1>6, <1>7, <1>8, <1>10 DEF WifiInv

\* Every step keeps it.
LEMMA WifiInvStep ==
  ASSUME TypeOK, TypeOK', WifiInv, [Next]_vars
  PROVE  WifiInv'
<1> USE WifiAssumption DEF TypeOK, WifiInv, QueueTellsRadio, StartIsFirst,
      TriesArePaid, IdleIsSpent, StatusFollows
<1>1. CASE StationStarts
  BY <1>1 DEF StationStarts, Post
<1>2. CASE Associates
  BY <1>2 DEF Associates
<1>3. CASE AddressArrives
  BY <1>3 DEF AddressArrives, Post
<1>4. CASE Disconnects
  <2>1. /\ Len(events') = Len(events) + 1
        /\ events'[Len(events')] = "STA_DISCONNECTED"
        /\ \A i \in 1..Len(events) : events'[i] = events[i]
    BY <1>4 DEF Disconnects, Post
  <2>2. \A i \in 1..Len(events) : events[i] = "GOT_IP"
    BY <1>4 DEF Disconnects
  <2>3. QueueTellsRadio' /\ StartIsFirst'
    BY <1>4, <2>1, <2>2 DEF Disconnects
  <2>4. events' # <<>> /\ events' # <<"STA_START">>
    BY <2>1
  <2>5. QED
    BY <1>4, <2>3, <2>4 DEF Disconnects
<1>5. CASE AddressLost
  BY <1>5 DEF AddressLost
<1>6. CASE OnStart
  BY <1>6 DEF OnStart, Take, Connect
<1>7. CASE OnDisconnected
  BY <1>7, DisconnectionKeeps
<1>8. CASE OnGotIp
  <2>1. /\ Len(events') = Len(events) - 1
        /\ \A i \in 1..Len(events') : events'[i] = events[i + 1]
        /\ events[1] = "GOT_IP"
    BY <1>8 DEF OnGotIp, Take
  <2>2. QueueTellsRadio' /\ StartIsFirst'
    BY <1>8, <2>1 DEF OnGotIp
  <2>3. radio \notin {"off", "joining"} /\ events # <<>>
    BY <1>8 DEF OnGotIp, Take
  <2>4. radio = "joined" => LeaseEnds
    BY <2>3
  <2>5. radio = "idle" => events' # <<>> /\ events' # <<"STA_START">>
    BY <2>1, <2>3
  <2>6. QED
    BY <1>8, <2>2, <2>3, <2>4, <2>5 DEF OnGotIp
<1>9. CASE TcpStarted
  BY <1>9 DEF TcpStarted
<1>10. CASE UNCHANGED vars
  BY <1>10 DEF vars
<1>11. QED
  BY <1>1, <1>2, <1>3, <1>4, <1>5, <1>6, <1>7, <1>8, <1>9, <1>10 DEF Next,
     Handler

\* The inductive invariant of the station.
THEOREM StationInvariant == Spec => [](TypeOK /\ WifiInv)
<1>1. Init => WifiInv
  BY WifiAssumption DEF Init, WifiInv, QueueTellsRadio, StartIsFirst,
     TriesArePaid, IdleIsSpent, StatusFollows
<1>2. TypeOK /\ WifiInv /\ [Next]_vars => (TypeOK /\ WifiInv)'
  BY TypeStep, WifiInvStep
<1>3. QED
  BY TypeInit, <1>1, <1>2, PTL DEF Spec

\* esp_wifi_connect is called at most MAX_RETRY + 1 times between addresses.
THEOREM BudgetIsKept == Spec => []TriesAreBounded
<1>1. TypeOK /\ WifiInv => TriesAreBounded
  BY WifiAssumption DEF TypeOK, WifiInv, TriesArePaid, TriesAreBounded
<1>2. QED
  BY StationInvariant, <1>1, PTL

\* The station rests without a connection only when its budget is spent.
THEOREM RestIsEarned == Spec => []RestsOnlyWhenSpent
<1>1. WifiInv => RestsOnlyWhenSpent
  BY DEF WifiInv, IdleIsSpent, RestsOnlyWhenSpent, AtRest
<1>2. QED
  BY StationInvariant, <1>1, PTL

\* Once the handler has caught up, the status flag tells the truth, but for a
\* lease that ended.
THEOREM StatusIsTrue == Spec => []StatusCatchesUp
<1>1. TypeOK /\ WifiInv => StatusCatchesUp
  BY WifiAssumption DEF TypeOK, WifiInv, StatusFollows, StatusCatchesUp, AtRest
<1>2. QED
  BY StationInvariant, <1>1, PTL
=============================================================================
