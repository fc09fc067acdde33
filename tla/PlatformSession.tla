--------------------------- MODULE PlatformSession ---------------------------
(* A session of the PlatformSDK (src/pytvt/platform_sdk/platform_backend.py).

   The application's thread logs in, reads and closes; the SDK's thread calls
   the process-global message callback with what the management server sends:
   the outcome of the login, the list of resources, their later changes, and
   the servers' lists.  Nothing is asked for: every read answers from what the
   callback has put into the _PlatSessionState of the client so far.

   A client object is one login; the backend makes a new one for each.       *)
EXTENDS Naturals, Sequences, FiniteSets, FiniteSetsExt, Functions, Nothing

CONSTANTS Client,        \* PlatformSDKClient objects, one per login
          Node,          \* resources of the management server
          Server,        \* servers with a typed list (AI, storage, alarm host)
          MaxNews        \* changes the server announces after a login

Row == [opt : {"create", "update_state"}, node : Node, on : BOOLEAN]

SessionState == [event : BOOLEAN, ok : BOOLEAN, done : BOOLEAN,
                 rows : Seq(Row), typed : SUBSET Server]

ASSUME PlatformAssumption ==
    /\ MaxNews \in Nat
    /\ IsFiniteSet(Node)
    /\ None \notin Client \cup Node \cup SessionState

VARIABLES
    pc,        \* where the application's thread is
    new,       \* the client whose login is running
    active,    \* _client of the backend
    obj,       \* the client objects
    sdk,       \* is the SDK initialised (process-wide)
    slot,      \* the client whose callback the SDK has (process-wide)
    stuck,     \* history: has Plat_UnInitializeEx ever failed
    left,      \* history: clients that close forgot although their logout failed
    plat,      \* the management server's view of each login
    wire,      \* the messages of each login the SDK's thread has not delivered yet
    real,      \* the resources of the server: absent, off or on
    gone,      \* history: resources that were deleted while a session listened
    news,      \* number of changes announced
    read,      \* the inventory snapshot in progress
    snap       \* the last inventory snapshot

vars == <<pc, new, active, obj, sdk, slot, stuck, left, plat, wire, real, gone, news, read, snap>>
appVars == <<pc, new, active>>
platVars == <<plat, real, gone, news>>
snapVars == <<read, snap>>

FreshState == [event |-> FALSE, ok |-> FALSE, done |-> FALSE, rows |-> <<>>, typed |-> {}]

\* An object before its login: no callback thunk, no login id, no state.
Unborn == [thunk |-> FALSE, handle |-> FALSE, auth |-> FALSE, state |-> None]

Init ==
    /\ pc = "idle" /\ new = None /\ active = None
    /\ obj = [c \in Client |-> Unborn]
    /\ sdk = FALSE /\ slot = None /\ stuck = FALSE /\ left = {}
    /\ plat = [c \in Client |-> "none"]
    /\ wire = [c \in Client |-> <<>>]
    /\ real \in [Node -> {"absent", "off"}]
    /\ gone = {} /\ news = 0
    /\ read = None /\ snap = None

(***************************************************************************)
(* What the callback does with a message.                                  *)
(***************************************************************************)

\* on_connect_ntf: both outcomes set the event; a state in between does not.
OnConnect(s, ok) == [s EXCEPT !.event = TRUE, !.ok = ok]

\* Mutant: a change of state is not kept.
OnReslistCreations(s, m) ==
    [s EXCEPT !.rows = IF m.opt = "create" /\ m.node # None
                         THEN Append(@, [opt |-> m.opt, node |-> m.node, on |-> m.on]) ELSE @,
              !.done = @ \/ m.finish]

\* on_reslist_ntf: creations and changes of state are appended; deletions and
\* changes of name leave no trace.  Any message may carry bFinish.
OnReslist(s, m) ==
    [s EXCEPT !.rows = IF m.opt \in {"create", "update_state"} /\ m.node # None
                         THEN Append(@, [opt |-> m.opt, node |-> m.node, on |-> m.on])
                         ELSE @,
              !.done = @ \/ m.finish]

\* The typed server lists, the alarm zones among them: deletions are honoured.
OnTyped(s, m) ==
    [s EXCEPT !.typed = IF m.opt = "delete" THEN @ \ {m.server} ELSE @ \cup {m.server}]

Heard(s, m) ==
    CASE m.type = "connect" -> OnConnect(s, m.ok)
      [] m.type = "reslist" -> OnReslist(s, m)
      [] m.type = "typed"   -> OnTyped(s, m)

\* The SDK's thread calls the callback that is installed, for whatever login
\* the message is: _message_cb does not look at its login id.
Deliver(c) ==
    /\ sdk /\ wire[c] # <<>>
    /\ wire' = [wire EXCEPT ![c] = Tail(@)]
    /\ obj' = IF slot # None /\ obj[slot].thunk
                THEN [obj EXCEPT ![slot].state = IF @ = None THEN None ELSE Heard(@, Head(wire[c]))]
                ELSE obj
    /\ UNCHANGED <<appVars, sdk, slot, stuck, left, platVars, snapVars>>

(***************************************************************************)
(* The reads.                                                              *)
(***************************************************************************)
Rows(s, opt, n) == {i \in DOMAIN s.rows : s.rows[i].opt = opt /\ s.rows[i].node = n}

Listed(s) == {n \in Node : Rows(s, "create", n) # {}}

\* list_resources_normalized: the latest change of state of a node, if there is
\* one, replaces what any creation of it said, be it older or newer.
Online(s, n) ==
    LET u == Rows(s, "update_state", n)
    IN  s.rows[Max(IF u # {} THEN u ELSE Rows(s, "create", n))].on

\* Every read is refused unless the client is authenticated.
Session == active # None /\ obj[active].auth /\ obj[active].state # None
Held == obj[active].state

\* list_devices and get_device_statuses: one record per creation, with the state
\* that the creation gave.
DeviceStatuses(s) ==
    {[node |-> s.rows[i].node, on |-> s.rows[i].on] : i \in {j \in DOMAIN s.rows : s.rows[j].opt = "create"}}

ReadDevices == Session /\ UNCHANGED vars

(***************************************************************************)
(* login of the client, called by login of the backend.                    *)
(***************************************************************************)
Connect(ok) == [type |-> "connect", ok |-> ok]
Typed(opt, s) == [type |-> "typed", opt |-> opt, server |-> s]
Reslist(opt, n, on, fin) ==
    [type |-> "reslist", opt |-> opt, node |-> n, on |-> on, finish |-> fin]

\* Plat_InitializeEx; on failure login raises and the backend closes the client.
LoginBegin(c) ==
    /\ pc = "idle" /\ read = None
    /\ obj[c] = Unborn /\ plat[c] = "none" /\ c # active
    /\ new' = c
    /\ \E ok \in BOOLEAN :
         /\ pc' = IF ok THEN "callback" ELSE "abandon"
         /\ sdk' = (sdk \/ ok)
    /\ obj' = [obj EXCEPT ![c].state = FreshState]
    /\ UNCHANGED <<active, slot, stuck, left, platVars, wire, snapVars>>

\* The thunk is kept before the SDK is given it.
SetCallback ==
    /\ pc = "callback"
    /\ obj' = [obj EXCEPT ![new].thunk = TRUE]
    /\ \E ok \in BOOLEAN :
         /\ pc' = IF ok THEN "send" ELSE "abandon"
         /\ slot' = IF ok THEN new ELSE slot
    /\ UNCHANGED <<new, active, sdk, stuck, left, platVars, wire, snapVars>>

\* Plat_LoginEx returns a login id at once, or a negative one.
SendLogin ==
    /\ pc = "send"
    /\ \/ /\ pc' = "abandon" /\ UNCHANGED <<obj, plat>>
       \/ /\ pc' = "wait"
          /\ obj' = [obj EXCEPT ![new].handle = TRUE]
          /\ plat' = [plat EXCEPT ![new] = "asked"]
    /\ UNCHANGED <<new, active, sdk, slot, stuck, left, real, gone, news, wire, snapVars>>

\* wait_for_login returns login_success, after the event or after 15 seconds.
LoginOutcome ==
    /\ pc = "wait"
    /\ IF obj[new].state.ok
         THEN /\ pc' = "list"
              /\ obj' = [obj EXCEPT ![new].auth = TRUE]
         ELSE /\ pc' = "abandon"
              /\ UNCHANGED obj
    /\ UNCHANGED <<new, active, sdk, slot, stuck, left, platVars, wire, snapVars>>

\* wait_for_device_list: the end of the list or 10 seconds, and nobody asks
\* which.  The backend then forgets the client it had, without closing it.
LoginEnd ==
    /\ pc = "list"
    /\ pc' = "idle" /\ new' = None /\ active' = new
    /\ obj' = IF active = None THEN obj ELSE [obj EXCEPT ![active].thunk = FALSE]
    /\ UNCHANGED <<sdk, slot, stuck, left, platVars, wire, snapVars>>

(***************************************************************************)
(* close of the client forgets the login id, whether or not the logout worked: *)
(* its errors are logged and change nothing.  The uninitialisation ends the    *)
(* SDK, and every session in it, for the process.                              *)
(***************************************************************************)
\* Plat_LogOutEx, where there is a login, and what is left behind if it fails.
LogOut(c) ==
    IF obj[c].handle
      THEN \/ plat' = [plat EXCEPT ![c] = "none"] /\ wire' = [wire EXCEPT ![c] = <<>>] /\ left' = left
           \/ left' = left \cup {c} /\ UNCHANGED <<plat, wire>>
      ELSE UNCHANGED <<plat, wire, left>>

CloseClient(c) ==
    /\ obj' = [obj EXCEPT ![c] = Unborn]
    /\ \/ /\ sdk' = FALSE /\ slot' = None /\ wire' = [d \in Client |-> <<>>]
          /\ plat' = [d \in Client |-> "none"] /\ left' = {} /\ UNCHANGED stuck
       \/ stuck' = TRUE /\ LogOut(c) /\ UNCHANGED <<sdk, slot>>
    /\ UNCHANGED <<real, gone, news>>

\* A login that failed closes its client and raises; the backend keeps the
\* client it had before.
LoginFails ==
    /\ pc = "abandon"
    /\ pc' = "idle" /\ new' = None
    /\ CloseClient(new)
    /\ UNCHANGED <<active, snapVars>>

CloseBackend ==
    /\ pc = "idle" /\ active # None /\ read = None
    /\ active' = None
    /\ CloseClient(active)
    /\ UNCHANGED <<pc, new, snapVars>>

(***************************************************************************)
(* get_platform_inventory_snapshot: three reads one after the other, each  *)
(* of which the SDK's thread may come in between.                          *)
(***************************************************************************)
SnapResources ==
    /\ pc = "idle" /\ read = None /\ Session
    /\ read' = [nodes |-> Listed(Held), done |-> Held.done, typed |-> Held.typed]
    /\ UNCHANGED <<appVars, obj, sdk, slot, stuck, left, platVars, wire, snap>>

\* Alarm events, logs, users and every write that is no dry run: the native symbols are
\* not bound, and CapabilityNotAvailable makes the section "unavailable".
Unbound == "unavailable"

\* list_servers and list_alarm_zones walk dictionaries the callback changes,
\* without its lock: a change of size in between is a RuntimeError, and the
\* section is "failed".
SnapServers ==
    /\ read # None
    /\ snap' = [resources |-> "ok", nodes |-> read.nodes, done |-> read.done, alarms |-> Unbound,
                servers |-> IF Cardinality(Held.typed) = Cardinality(read.typed)
                              THEN "ok" ELSE "failed"]
    /\ read' = None
    /\ UNCHANGED <<appVars, obj, sdk, slot, stuck, left, platVars, wire>>

(***************************************************************************)
(* The management server.                                                  *)
(***************************************************************************)
Present == {n \in Node : real[n] # "absent"}

\* The server accepts a login and sends the list, in any order, or refuses it.
Creation(order, i) ==
    Reslist("create", order[i], real[order[i]] = "on", i = Cardinality(Present))

Greeting(order) ==
    IF Present = {} THEN <<Connect(TRUE), Reslist("create", None, FALSE, TRUE)>>
    ELSE [i \in 1..Cardinality(Present) + 1 |->
             IF i = 1 THEN Connect(TRUE) ELSE Creation(order, i - 1)]

Answer(c) ==
    /\ sdk /\ plat[c] = "asked"
    /\ \/ /\ plat' = [plat EXCEPT ![c] = "refused"]
          /\ wire' = [wire EXCEPT ![c] = Append(@, Connect(FALSE))]
       \/ /\ plat' = [plat EXCEPT ![c] = "in"]
          /\ \E order \in Bijection(1..Cardinality(Present), Present) :
               wire' = [wire EXCEPT ![c] = @ \o Greeting(order)]
    /\ UNCHANGED <<appVars, obj, sdk, slot, stuck, left, real, gone, news, snapVars>>

In == {c \in Client : plat[c] = "in"}
Announce(m) == [c \in Client |-> IF c \in In THEN Append(wire[c], m) ELSE wire[c]]

\* A resource is added, goes on or off, or is deleted, and everyone logged in
\* is told.
Change(n) ==
    /\ news < MaxNews /\ In # {} /\ news' = news + 1
    /\ \/ /\ real[n] = "absent"
          /\ real' = [real EXCEPT ![n] = "on"]
          /\ wire' = Announce(Reslist("create", n, TRUE, FALSE))
          /\ UNCHANGED gone
       \/ /\ real[n] # "absent"
          /\ real' = [real EXCEPT ![n] = IF @ = "on" THEN "off" ELSE "on"]
          /\ wire' = Announce(Reslist("update_state", n, real[n] = "off", FALSE))
          /\ UNCHANGED gone
       \/ /\ real[n] # "absent"
          /\ real' = [real EXCEPT ![n] = "absent"]
          /\ gone' = gone \cup {n}
          /\ wire' = Announce(Reslist("delete", n, FALSE, FALSE))
    /\ UNCHANGED <<appVars, obj, sdk, slot, stuck, left, plat, snapVars>>

\* The connection of a session is lost and made again, or a typed server
\* appears or disappears.
Notify(c) ==
    /\ news < MaxNews /\ plat[c] = "in" /\ news' = news + 1
    /\ \/ wire' = [wire EXCEPT ![c] = Append(@, Connect(TRUE))]
       \/ \E s \in Server, o \in {"create", "delete"} :
            wire' = [wire EXCEPT ![c] = Append(@, Typed(o, s))]
    /\ UNCHANGED <<appVars, obj, sdk, slot, stuck, left, plat, real, gone, snapVars>>

(***************************************************************************)
Login == (\E c \in Client : LoginBegin(c)) \/ SetCallback \/ SendLogin \/ LoginOutcome
           \/ LoginEnd \/ LoginFails
Inventory == SnapResources \/ SnapServers
World == (\E c \in Client : Deliver(c) \/ Answer(c) \/ Notify(c)) \/ (\E n \in Node : Change(n))

(***************************************************************************)
(* Properties.                                                             *)
(***************************************************************************)
\* The variables have their types.
TypeOK ==
    /\ pc \in {"idle", "callback", "send", "wait", "list", "abandon"}
    /\ new \in Client \cup {None} /\ active \in Client \cup {None}
    /\ (new = None) <=> (pc = "idle")
    /\ obj \in [Client -> [thunk : BOOLEAN, handle : BOOLEAN, auth : BOOLEAN,
                           state : SessionState \cup {None}]]
    /\ sdk \in BOOLEAN /\ stuck \in BOOLEAN /\ left \subseteq Client /\ slot \in Client \cup {None}
    /\ plat \in [Client -> {"none", "asked", "in", "refused"}]
    /\ real \in [Node -> {"absent", "off", "on"}]
    /\ gone \subseteq Node /\ news \in 0..MaxNews

\* "Keep a strong reference so GC doesn't collect while in use": while the SDK is up
\* and has a callback, the thunk it would call exists, unless Plat_UnInitializeEx
\* failed: close drops the thunk all the same.
ThunkAlive == sdk /\ slot # None /\ ~ stuck => obj[slot].thunk

\* Everything the server sent to the session in use was delivered to it, and the process
\* has no session beside it that an earlier client left behind.
Quiet == Session /\ plat[active] = "in" /\ sdk /\ slot = active /\ wire[active] = <<>> /\ left = {}

\* What list_resources_normalized gives, and the lists, trees and the snapshot made of
\* it, is what the server has, up to what is still under way: a resource that was never
\* deleted is in it once its messages are delivered, with the state the server gives
\* it.  list_devices and get_device_statuses give the state of the creation: what they
\* say is so of the resources that have not changed their state since.
ListsCurrent ==
    Quiet => \A n \in Present \ gone :
      /\ n \in Listed(Held) /\ Online(Held, n) = (real[n] = "on")
      /\ Rows(Held, "update_state", n) = {} =>
           \A d \in DeviceStatuses(Held) : d.node = n => d.on = (real[n] = "on")
=============================================================================
