------------------------------ MODULE WifiSta ------------------------------
(***************************************************************************)
(* protocol/wifi_sta/wifi_sta.c: the station's event handler, the state it *)
(* keeps, and the queue of the default event loop it is fed from.  The     *)
(* handler is one task: while it is blocked in tcp_client_start, the radio *)
(* goes on and its events wait.                                            *)
(***************************************************************************)
EXTENDS Naturals, Sequences

CONSTANTS
    MAX_RETRY,  \* 5 in wifi_event_handler
    MaxQueue,   \* bound on events that wait (CONFIG_ESP_SYSTEM_EVENT_QUEUE_SIZE)
    LeaseEnds   \* TRUE if the DHCP lease may be lost without a disconnection

ASSUME WifiAssumption ==
    /\ MAX_RETRY \in Nat
    /\ MaxQueue \in Nat \ {0}
    /\ LeaseEnds \in BOOLEAN

VARIABLES
    radio,          \* external: what the Wi-Fi driver and lwip are doing
    events,         \* external: the queue of the default event loop
    s_connected,
    retry_count,
    handler,        \* "free", or "blocked" in tcp_client_start
    tries           \* history: calls of esp_wifi_connect since the last address

vars == <<radio, events, s_connected, retry_count, handler, tries>>

TypeOK ==
    /\ radio \in {"off", "idle", "joining", "joined", "online"}
    /\ events \in Seq({"STA_START", "STA_DISCONNECTED", "GOT_IP"})
    /\ Len(events) <= MaxQueue
    /\ s_connected \in BOOLEAN
    /\ retry_count \in 0..MAX_RETRY
    /\ handler \in {"free", "blocked"}
    /\ tries \in Nat

Init ==
    /\ radio = "off"
    /\ events = <<>>
    /\ s_connected = FALSE
    /\ retry_count = 0
    /\ handler = "free"
    /\ tries = 0

-----------------------------------------------------------------------------
(* The driver. *)

Post(e) == Len(events) < MaxQueue /\ events' = Append(events, e)

\* wifi_sta_init: esp_wifi_start.
StationStarts ==
    /\ radio = "off"
    /\ radio' = "idle"
    /\ Post("STA_START")
    /\ UNCHANGED <<s_connected, retry_count, handler, tries>>

Associates ==
    /\ radio = "joining"
    /\ radio' = "joined"
    /\ UNCHANGED <<events, s_connected, retry_count, handler, tries>>

AddressArrives ==
    /\ radio = "joined"
    /\ radio' = "online"
    /\ Post("GOT_IP")
    /\ UNCHANGED <<s_connected, retry_count, handler, tries>>

\* The access point refuses the station, or is lost.
Disconnects ==
    /\ radio \in {"joining", "joined", "online"}
    /\ radio' = "idle"
    /\ Post("STA_DISCONNECTED")
    /\ UNCHANGED <<s_connected, retry_count, handler, tries>>

\* IP_EVENT_STA_LOST_IP: no handler is registered for it.
AddressLost ==
    /\ LeaseEnds
    /\ radio = "online"
    /\ radio' = "joined"
    /\ UNCHANGED <<events, s_connected, retry_count, handler, tries>>

-----------------------------------------------------------------------------
(* wifi_event_handler. *)

Take(e) ==
    /\ handler = "free"
    /\ events # <<>>
    /\ Head(events) = e
    /\ events' = Tail(events)

\* esp_wifi_connect; its result is ignored, and a station that is not idle
\* stays as it is.
Connect ==
    /\ radio' = IF radio = "idle" THEN "joining" ELSE radio
    /\ tries' = tries + 1

OnStart ==
    /\ Take("STA_START")
    /\ Connect
    /\ UNCHANGED <<s_connected, retry_count, handler>>

MayRetryOnceMore == retry_count <= MAX_RETRY            \* mutant: off by one

RetryWhenOnline ==                      \* mutant: only a lost address counts
    s_connected /\ retry_count < MAX_RETRY

MayRetry == retry_count < MAX_RETRY

StillConnected == s_connected                   \* mutant: the flag is kept

Disconnected == FALSE

\* STA_DISCONNECTED: five times the handler tries again, then it gives up.
OnDisconnected ==
    /\ Take("STA_DISCONNECTED")
    /\ s_connected' = Disconnected
    /\ IF MayRetry
          THEN retry_count' = retry_count + 1 /\ Connect
          ELSE UNCHANGED <<retry_count, radio, tries>>
    /\ UNCHANGED handler

\* GOT_IP: the budget of retries is renewed; tcp_client_start blocks.
OnGotIp ==
    /\ Take("GOT_IP")
    /\ s_connected' = TRUE
    /\ retry_count' = 0
    /\ tries' = 0
    /\ handler' = "blocked"
    /\ UNCHANGED radio

\* tcp_client_start returns, and after ESP_OK a worker is created.
TcpStarted ==
    /\ handler = "blocked"
    /\ handler' = "free"
    /\ UNCHANGED <<radio, events, s_connected, retry_count, tries>>

-----------------------------------------------------------------------------
Handler == OnStart \/ OnDisconnected \/ OnGotIp \/ TcpStarted

Next ==
    \/ StationStarts \/ Associates \/ AddressArrives \/ Disconnects
    \/ AddressLost
    \/ Handler

Spec == Init /\ [][Next]_vars

(* Fairness.  The event task runs, connect() ends by its timeout, and an     *)
(* access point that is there answers.                                       *)
Fairness ==
    /\ WF_vars(StationStarts) /\ WF_vars(Associates) /\ WF_vars(AddressArrives)
    /\ WF_vars(Handler)

FairSpec == Spec /\ Fairness

-----------------------------------------------------------------------------
(* Properties. *)

AtRest == events = <<>> /\ handler = "free"

\* The budget: between two addresses esp_wifi_connect is called at most once
\* for the start and MAX_RETRY times for disconnections, however the events
\* of the radio and the calls of a blocked handler fall.
TriesAreBounded == tries <= MAX_RETRY + 1

\* A station comes to rest without a connection only when its budget is spent:
\* no disconnection is lost, none is taken for another's.
RestsOnlyWhenSpent ==
    AtRest /\ radio = "idle" => retry_count = MAX_RETRY

\* wifi_sta_is_connected tells the truth once the handler has caught up with
\* the radio: a station without access point is not taken for connected, one
\* with an address is, and only a lease that ended may go unnoticed.
StatusCatchesUp ==
    AtRest => /\ radio = "online" => s_connected
              /\ s_connected => \/ radio = "online"
                                \/ LeaseEnds /\ radio = "joined"

\* If the access point stops disconnecting it, the station ends online, or it
\* has used up its retries before.
ConnectsOrGivesUp ==
    <>[][~ Disconnects /\ ~ AddressLost]_vars =>
        <>[](radio = "online" \/ retry_count = MAX_RETRY)
=============================================================================
