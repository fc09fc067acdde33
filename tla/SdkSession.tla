------------------------------ MODULE SdkSession ------------------------------
(* The NET_SDK back end of the management client (platform_sdk/sdk.py): one
   native session per SDKClient and one alarm channel per session, which the
   application holds through a handle of its own.                            *)
EXTENDS SdkLibrary

CONSTANTS Handle,   \* native session handles
          Alarm,    \* native alarm channel handles
          Library   \* what a library may export and how it is to log in

VARIABLES
    lib,       \* the library: its exports and the login mode
    client,    \* the SDKClient: its session handle and its alarm channels
    live,      \* sessions of the device nobody has logged out yet
    lost,      \* history: those of them that close forgot, for their logout failed
    channel,   \* alarm channel -> the session it was set up for, or None
    held       \* alarm subscriptions the application holds and that are active

sdkVars == <<lib, client, live, lost, channel, held>>

Closed == [handle |-> None, alarms |-> {}]

SdkInit ==
    /\ lib \in Library
    /\ client = Closed /\ live = {} /\ lost = {}
    /\ channel = [a \in Alarm |-> None] /\ held = {}

\* login of back end and client: NET_SDK_Init, NET_SDK_SetNat2Addr and NET_SDK_Login may
\* fail, and then there is nothing to give back but the initialised library.
SdkLogin(h) ==
    /\ Ready(lib) /\ h \notin live
    /\ client' = [handle |-> h, alarms |-> {}]
    /\ live' = live \cup {h}
    /\ UNCHANGED <<lib, lost, channel, held>>

\* subscribe_alarms: one at a time.
MaySubscribe == client.handle # None /\ client.alarms = {}

\* list_devices, get_device_statuses and get_server_info: one native call each, whose
\* count must fit the buffer and whose records must name a device.
Query(purpose) == client.handle # None /\ Callable(lib, purpose) /\ UNCHANGED sdkVars

SubscribeAlarms(a) ==
    /\ MaySubscribe /\ Callable(lib, "alarm") /\ "alarm_close" \in lib.exports
    /\ channel[a] = None /\ a \notin held
    /\ client' = [client EXCEPT !.alarms = {a}]
    /\ channel' = [channel EXCEPT ![a] = client.handle]
    /\ held' = held \cup {a}
    /\ UNCHANGED <<lib, live, lost>>

\* Mutant: the subscription is inactive whatever became of the channel.
HeldAfterAny(a, ok) == held \ {a}

\* close of a subscription: it stays active when NET_SDK_CloseAlarmChan fails,
\* also because the session has gone, and may be closed again.
HeldAfter(a, ok) == IF ok THEN held \ {a} ELSE held

CloseAlarm(a) ==
    /\ a \in held
    /\ \E ok \in BOOLEAN :
         /\ ok => channel[a] # None
         /\ held' = HeldAfter(a, ok)
         /\ channel' = IF ok THEN [channel EXCEPT ![a] = None] ELSE channel
         /\ client' = IF ok THEN [client EXCEPT !.alarms = @ \ {a}] ELSE client
    /\ UNCHANGED <<lib, live, lost>>

\* close of the client: every alarm channel, then the session.  A failure is
\* logged and what failed is forgotten, the session too, but for the subscription
\* itself, which the application still holds.  A logout ends the channels of its
\* session.
SdkClose ==
    /\ client' = Closed /\ UNCHANGED lib
    /\ \E closed \in SUBSET {a \in client.alarms : channel[a] # None}, out \in BOOLEAN :
         /\ out => Callable(lib, "logout")
         /\ live' = IF out THEN live \ {client.handle} ELSE live
         /\ lost' = IF out THEN lost ELSE lost \cup {client.handle}
         /\ held' = held \ closed
         /\ channel' = [a \in Alarm |->
                IF a \in closed \/ (out /\ channel[a] = client.handle) THEN None ELSE channel[a]]

(***************************************************************************)
\* Nothing can be alarmed for ever: every alarm channel of the device can still be
\* closed, by the client that set it up or through its subscription.
AlarmsHeld == \A a \in Alarm : channel[a] # None => a \in client.alarms \cup held
=============================================================================
