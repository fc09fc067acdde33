-------------------------- MODULE SmartSubscription --------------------------
(***************************************************************************)
(* The process-global smart-event callback of the vendor SDK and the plate *)
(* subscriptions built on it (device_sdk/client.py): NetSdkClient and its  *)
(* subscribe_v2 and cleanup, DeviceSession.subscribe_plate_events and      *)
(* logout, and the closer a plate stream calls.                            *)
(*                                                                         *)
(* The SDK has one callback slot for the whole process.  _PROCESS_SDK_LOCK *)
(* guards who owns it; a condition of the owning client counts the         *)
(* callbacks running in it; a stream has its own lock and closing flag.    *)
(* A step is what a thread does between two points where another thread    *)
(* can come in.  Each client has one session here, so the session's        *)
(* _plate_stream and the client's _active_plate_stream are one variable.   *)
(* A session has no lock of its own: one thread at a time subscribes with  *)
(* it or logs it out, while any thread closes a stream or cleans up a      *)
(* client.                                                                 *)
(*                                                                         *)
(* A definition marked "mutant" is a wrong version of the one below it and *)
(* takes part in nothing.                                                  *)
(***************************************************************************)
EXTENDS Naturals, FiniteSets

CONSTANTS Client,       \* NetSdkClient objects
          Stream,       \* plate streams that may be created
          Home,         \* the client each stream is subscribed with
          Channel,      \* the channels of one subscription
          Thread,       \* application threads
          Native,       \* SDK threads that deliver callbacks
          SdkQuiesces,  \* clearing the slot waits for calls already dispatched
          None

ASSUME SubscriptionAssumption ==
  /\ Home \in [Stream -> Client]
  /\ SdkQuiesces \in BOOLEAN
  /\ None \notin Client \cup Stream \cup Thread

VARIABLES
  phase,     \* is each client constructed, in use or cleaned up (_LIVE_CLIENTS, _lib)
  owner,     \* _PROCESS_SUBSCRIBE_OWNER
  slot,      \* the stream whose thunk the SDK holds
  lock,      \* who holds _PROCESS_SDK_LOCK across steps
  thunk,     \* _subscribe_callback: the stream whose thunk the client retains
  shutting,  \* _subscribe_callback_closing
  handle,    \* the session of each client: "none", "up" or "out"
  subs,      \* the smart subscriptions the device holds for the session
  current,   \* _plate_stream and _active_plate_stream
  status,    \* each stream: "new", "open", "closing" or "closed"
  tokens,    \* the subscription tokens of each stream
  pc, op, who, st, failed, todo,   \* each application thread
  npc, nst                         \* each SDK thread

process == <<phase, owner, slot, lock>>
client  == <<thunk, shutting, handle, subs, current>>
streams == <<status, tokens>>
threads == <<pc, op, who, st, failed, todo>>
natives == <<npc, nst>>
vars    == <<process, client, streams, threads, natives>>

Live == {c \in Client : phase[c] = "live"}

\* _subscribe_callback_inflight: the callbacks that entered the trampoline.
Inflight(c) == {n \in Native : npc[n] \in {"entered", "delivering"} /\ Home[nst[n]] = c}

\* Calls the SDK has dispatched that have not reached the trampoline.
Dispatched(c) == {n \in Native : npc[n] = "loaded" /\ Home[nst[n]] = c}

\* The SDK accepts calls for the session of c.
Usable(c) == phase[c] = "live" /\ handle[c] = "up"

NoStream(c) == current[c] # None => status[current[c]] = "closed"

Init == /\ phase = [c \in Client |-> "new"]
        /\ owner = None /\ slot = None /\ lock = None
        /\ thunk = [c \in Client |-> None]
        /\ shutting = [c \in Client |-> FALSE]
        /\ handle = [c \in Client |-> "none"]
        /\ subs = [c \in Client |-> {}]
        /\ current = [c \in Client |-> None]
        /\ status = [s \in Stream |-> "new"]
        /\ tokens = [s \in Stream |-> {}]
        /\ pc = [t \in Thread |-> "idle"]
        /\ op = [t \in Thread |-> "none"]
        /\ who = [t \in Thread |-> None]
        /\ st = [t \in Thread |-> None]
        /\ failed = [t \in Thread |-> FALSE]
        /\ todo = [t \in Thread |-> {}]
        /\ npc = [n \in Native |-> "out"]
        /\ nst = [n \in Native |-> None]

Goto(t, p) == pc' = [pc EXCEPT ![t] = p]

\* Thread t starts operation o on stream s of client c, at p.
Start(t, o, c, s, p) ==
  /\ pc[t] = "idle"
  /\ Goto(t, p)
  /\ op' = [op EXCEPT ![t] = o]
  /\ who' = [who EXCEPT ![t] = c]
  /\ st' = [st EXCEPT ![t] = s]
  /\ failed' = [failed EXCEPT ![t] = FALSE]
  /\ todo' = [todo EXCEPT ![t] = {}]
  /\ UNCHANGED <<process, client, streams, natives>>

\* The operation is over; its arguments no longer matter.
Return(t) == /\ Goto(t, "idle")
             /\ op' = [op EXCEPT ![t] = "none"]
             /\ who' = [who EXCEPT ![t] = None]
             /\ st' = [st EXCEPT ![t] = None]
             /\ failed' = [failed EXCEPT ![t] = FALSE]
             /\ todo' = [todo EXCEPT ![t] = {}]

OnSession(c) == {t \in Thread : op[t] \in {"subscribe", "logout"} /\ who[t] = c}

-----------------------------------------------------------------------------
(* Constructing a client *)

\* NetSdkClient(): refused while a callback has an owner.  The session is
\* logged in with it.
MayConstruct == owner = None

Construct(t, c) ==
  /\ pc[t] = "idle"
  /\ lock = None
  /\ phase[c] = "new"
  /\ MayConstruct
  /\ phase' = [phase EXCEPT ![c] = "live"]
  /\ handle' = [handle EXCEPT ![c] = "up"]
  /\ UNCHANGED <<owner, slot, lock, thunk, shutting, subs, current,
                 streams, threads, natives>>

-----------------------------------------------------------------------------
(* subscribe_plate_events *)

\* The checks at its head: an active session, no open stream, a free slot.
SubscribeBegin(t, s) ==
  /\ handle[Home[s]] = "up"
  /\ status[s] = "new" /\ \A u \in Thread : st[u] # s
  /\ NoStream(Home[s])
  /\ thunk[Home[s]] = None
  /\ OnSession(Home[s]) = {}
  /\ Start(t, "subscribe", Home[s], s, "install")

\* What subscribe_v2 requires before it installs a callback.
MayInstall(c) == owner = None /\ thunk[c] = None /\ Live = {c}

\* subscribe_v2(stream.ingest): refused, or the SDK rejects the callback ...
InstallFails(t) ==
  /\ pc[t] = "install"
  /\ lock = None
  /\ Return(t)
  /\ UNCHANGED <<process, client, streams, natives>>

\* ... or it is in the slot and the client owns the slot.
Install(t) ==
  LET c == who[t]  s == st[t] IN
  /\ pc[t] = "install"
  /\ lock = None
  /\ MayInstall(c)
  /\ slot' = s
  /\ owner' = c
  /\ thunk' = [thunk EXCEPT ![c] = s]
  /\ shutting' = [shutting EXCEPT ![c] = FALSE]
  /\ status' = [status EXCEPT ![s] = "open"]
  /\ Goto(t, "publish")
  /\ UNCHANGED <<phase, lock, handle, subs, current, tokens,
                 op, who, st, failed, todo, natives>>

\* The session and the client learn of the stream.
Publish(t) ==
  /\ pc[t] = "publish"
  /\ current' = [current EXCEPT ![who[t]] = st[t]]
  /\ todo' = [todo EXCEPT ![t] = Channel]
  /\ Goto(t, "register")
  /\ UNCHANGED <<process, thunk, shutting, handle, subs, streams,
                 op, who, st, failed, natives>>

\* NET_SDK_SmartSubscrib succeeds for one channel, and its token is kept.
Register(t, ch) ==
  /\ pc[t] = "register"
  /\ ch \in todo[t]
  /\ Usable(who[t])
  /\ subs' = [subs EXCEPT ![who[t]] = @ \cup {ch}]
  /\ tokens' = [tokens EXCEPT ![st[t]] = @ \cup {ch}]
  /\ todo' = [todo EXCEPT ![t] = @ \ {ch}]
  /\ UNCHANGED <<process, thunk, shutting, handle, current, status,
                 pc, op, who, st, failed, natives>>

\* A registration fails or the setup deadline has passed: the stream is closed.
SetupFails(t) ==
  /\ pc[t] = "register"
  /\ Goto(t, "close")
  /\ UNCHANGED <<process, client, streams, op, who, st, failed, todo, natives>>

SetupDone(t) ==
  /\ pc[t] = "register"
  /\ todo[t] = {}
  /\ Return(t)
  /\ UNCHANGED <<process, client, streams, natives>>

-----------------------------------------------------------------------------
(* Closing a stream: by the application, by the rollback of a failed setup, *)
(* by logout or by cleanup                                                  *)

\* The application closes a stream it was given, or retries.
StreamClose(t, s) ==
  /\ status[s] # "new"
  /\ \A u \in Thread : ~(op[u] = "subscribe" /\ st[u] = s)
  /\ Start(t, "close", Home[s], s, "close")

\* What follows a close that succeeded, or failed, by what it was part of.
\* A logout whose close fails keeps the session; cleanup logs the failure and
\* goes on.
MayLogout(closeSucceeded) == closeSucceeded

Continue(t, ok) ==
  IF op[t] = "cleanup"
  THEN Goto(t, "cleanup clear") /\ UNCHANGED <<op, who, st, failed, todo>>
  ELSE IF op[t] = "logout" /\ MayLogout(ok)
  THEN Goto(t, "logout") /\ UNCHANGED <<op, who, st, failed, todo>>
  ELSE Return(t)

\* close() of the stream: nothing to do when it is closed, an error when it
\* is closing already, else it calls the closer.
CloseBegin(t) ==
  /\ pc[t] = "close"
  /\ IF status[st[t]] = "open"
     THEN /\ status' = [status EXCEPT ![st[t]] = "closing"]
          /\ Goto(t, "unsubscribe")
          /\ UNCHANGED <<op, who, st, failed, todo>>
     ELSE Continue(t, status[st[t]] = "closed") /\ UNCHANGED status
  /\ UNCHANGED <<process, client, tokens, natives>>

\* The tokens whose NET_SDK_UnSmartSubscrib failed are kept for a retry.
KeptNone(F) == {}  \* mutant
Kept(F) == F

Error(F) == F # {}

\* The closer unsubscribes every token.  Any of the calls may fail; all do
\* when the session or the SDK is gone.
Unsubscribe(t) ==
  LET c == who[t]  s == st[t] IN
  /\ pc[t] = "unsubscribe"
  /\ \E F \in SUBSET tokens[s] :
       /\ Usable(c) \/ F = tokens[s]
       /\ tokens' = [tokens EXCEPT ![s] = Kept(F)]
       /\ subs' = [subs EXCEPT ![c] = @ \ (tokens[s] \ F)]
       /\ failed' = [failed EXCEPT ![t] = Error(F)]
  /\ Goto(t, "close clear")
  /\ UNCHANGED <<process, thunk, shutting, handle, current, status,
                 op, who, st, todo, natives>>

Clearing == {"close clear", "cleanup clear"}
Draining == {"close drain", "cleanup drain"}

\* Where a thread goes once subscribe_v2(None) is over.
Cleared(t) == IF pc[t] \in {"close clear", "close drain"} THEN "settle" ELSE "cleanup"

\* subscribe_v2(None) raises: the SDK of this client is gone, another client
\* owns the slot, or the SDK refuses to clear it.
ClearFails(t) ==
  /\ pc[t] \in Clearing
  /\ lock = None
  /\ pc[t] = "cleanup clear" => thunk[who[t]] # None
  /\ failed' = [failed EXCEPT ![t] = TRUE]
  /\ Goto(t, Cleared(t))
  /\ UNCHANGED <<process, client, streams, op, who, st, todo, natives>>

\* The SDK clears the slot; the lock is held while the callbacks drain.
Clear(t) ==
  LET c == who[t] IN
  /\ pc[t] \in Clearing
  /\ lock = None
  /\ pc[t] = "cleanup clear" => thunk[c] # None
  /\ phase[c] = "live"
  /\ owner \in {None, c}
  /\ SdkQuiesces => Dispatched(c) = {}
  /\ shutting' = [shutting EXCEPT ![c] = TRUE]
  /\ slot' = None
  /\ lock' = t
  /\ Goto(t, IF pc[t] = "close clear" THEN "close drain" ELSE "cleanup drain")
  /\ UNCHANGED <<phase, owner, thunk, handle, subs, current, streams,
                 op, who, st, failed, todo, natives>>

\* cleanup makes no call of subscribe_v2 when no callback is retained.
NothingToClear(t) ==
  /\ pc[t] = "cleanup clear"
  /\ thunk[who[t]] = None
  /\ Goto(t, "cleanup")
  /\ UNCHANGED <<process, client, streams, op, who, st, failed, todo, natives>>

\* No callback is left in the trampoline: the thunk may go.
QuietAlways(c) == TRUE  \* mutant
Quiet(c) == Inflight(c) = {}

OwnerAfterClear(c) == IF owner = c THEN None ELSE owner

Drained(t) ==
  LET c == who[t] IN
  /\ pc[t] \in Draining
  /\ Quiet(c)
  /\ thunk' = [thunk EXCEPT ![c] = None]
  /\ shutting' = [shutting EXCEPT ![c] = FALSE]
  /\ owner' = OwnerAfterClear(c)
  /\ lock' = None
  /\ Goto(t, Cleared(t))
  /\ UNCHANGED <<phase, slot, handle, subs, current, streams,
                 op, who, st, failed, todo, natives>>

\* After five seconds subscribe_v2 gives up; the thunk and the owner stay.
TimesOut(c) == Inflight(c) # {}

DrainTimeout(t) ==
  LET c == who[t] IN
  /\ pc[t] \in Draining
  /\ TimesOut(c)
  /\ shutting' = [shutting EXCEPT ![c] = FALSE]
  /\ lock' = None
  /\ failed' = [failed EXCEPT ![t] = TRUE]
  /\ Goto(t, Cleared(t))
  /\ UNCHANGED <<phase, owner, slot, thunk, handle, subs, current, streams,
                 op, who, st, todo, natives>>

\* The closer failed somewhere: the client takes the slot back, so that
\* nobody else uses the SDK, and the stream is open again.
CloseFails(t) ==
  /\ pc[t] = "settle"
  /\ failed[t]
  /\ lock = None
  /\ owner' = who[t]
  /\ Goto(t, "reopen")
  /\ UNCHANGED <<phase, slot, lock, client, streams, op, who, st, failed, todo, natives>>

Reopen(t) ==
  /\ pc[t] = "reopen"
  /\ status' = [status EXCEPT ![st[t]] = "open"]
  /\ Continue(t, FALSE)
  /\ UNCHANGED <<process, client, tokens, natives>>

\* The closer succeeded: the session and the client forget the stream, which
\* is then closed.
CloseSettles(t) ==
  /\ pc[t] = "settle"
  /\ ~failed[t]
  /\ current' = [current EXCEPT ![who[t]] = IF @ = st[t] THEN None ELSE @]
  /\ Goto(t, "finish")
  /\ UNCHANGED <<process, thunk, shutting, handle, subs, streams,
                 op, who, st, failed, todo, natives>>

Finish(t) ==
  /\ pc[t] = "finish"
  /\ status' = [status EXCEPT ![st[t]] = "closed"]
  /\ Continue(t, TRUE)
  /\ UNCHANGED <<process, client, tokens, natives>>

-----------------------------------------------------------------------------
(* Logout and cleanup *)

\* logout closes the session's stream first.
LogoutBegin(t, c) ==
  /\ handle[c] = "up"
  /\ OnSession(c) = {}
  /\ IF NoStream(c) THEN Start(t, "logout", c, None, "logout")
                    ELSE Start(t, "logout", c, current[c], "close")

\* NET_SDK_Logout: the device forgets the session's subscriptions.
Logout(t) ==
  /\ pc[t] = "logout"
  /\ handle' = [handle EXCEPT ![who[t]] = "out"]
  /\ subs' = [subs EXCEPT ![who[t]] = {}]
  /\ Return(t)
  /\ UNCHANGED <<process, thunk, shutting, current, streams, natives>>

\* cleanup closes the client's stream, then clears the callback it retains.
CleanupBegin(t, c) ==
  /\ phase[c] = "live"
  /\ IF NoStream(c) THEN Start(t, "cleanup", c, None, "cleanup clear")
                    ELSE Start(t, "cleanup", c, current[c], "close")

\* NET_SDK_Cleanup, under the lock; a second cleanup finds no library.
Cleanup(t) ==
  LET c == who[t] IN
  /\ pc[t] = "cleanup"
  /\ lock = None
  /\ IF phase[c] # "live"
     THEN Return(t) /\ UNCHANGED <<phase, slot, lock, subs>>
     ELSE /\ SdkQuiesces => Dispatched(c) = {}
          /\ phase' = [phase EXCEPT ![c] = "gone"]
          /\ slot' = None
          /\ subs' = [d \in Client |-> {}]
          /\ lock' = t
          /\ Goto(t, "cleanup wait")
          /\ UNCHANGED <<op, who, st, failed, todo>>
  /\ UNCHANGED <<owner, thunk, shutting, handle, current, streams, natives>>

\* cleanup waits five seconds for the callbacks, and keeps the thunk when
\* some are still running.
ReleaseThunk(c) == None  \* mutant
ThunkAfterCleanup(c) == IF Inflight(c) = {} THEN None ELSE thunk[c]

CleanupEnd(t) ==
  LET c == who[t] IN
  /\ pc[t] = "cleanup wait"
  /\ thunk' = [thunk EXCEPT ![c] = ThunkAfterCleanup(c)]
  /\ shutting' = [shutting EXCEPT ![c] = FALSE]
  /\ owner' = OwnerAfterClear(c)
  /\ lock' = None
  /\ Return(t)
  /\ UNCHANGED <<phase, slot, handle, subs, current, streams, natives>>

-----------------------------------------------------------------------------
(* SDK threads *)

\* The SDK reads the slot and is about to call the thunk it found.
Dispatch(n) ==
  /\ npc[n] = "out"
  /\ slot # None
  /\ npc' = [npc EXCEPT ![n] = "loaded"]
  /\ nst' = [nst EXCEPT ![n] = slot]
  /\ UNCHANGED <<process, client, streams, threads>>

\* The trampoline counts the callback in flight.
Enter(n) ==
  /\ npc[n] = "loaded"
  /\ npc' = [npc EXCEPT ![n] = "entered"]
  /\ UNCHANGED <<process, client, streams, threads, nst>>

Leave(n) == npc' = [npc EXCEPT ![n] = "out"] /\ nst' = [nst EXCEPT ![n] = None]

\* It leaves at once when the callback is being cleared, else calls ingest.
CheckShutting(n) ==
  /\ npc[n] = "entered"
  /\ IF shutting[Home[nst[n]]]
     THEN Leave(n)
     ELSE npc' = [npc EXCEPT ![n] = "delivering"] /\ UNCHANGED nst
  /\ UNCHANGED <<process, client, streams, threads>>

Delivered(n) ==
  /\ npc[n] = "delivering"
  /\ Leave(n)
  /\ UNCHANGED <<process, client, streams, threads>>

-----------------------------------------------------------------------------
Begin(t) == \/ \E c \in Client : Construct(t, c) \/ LogoutBegin(t, c) \/ CleanupBegin(t, c)
            \/ \E s \in Stream : SubscribeBegin(t, s) \/ StreamClose(t, s)

Proceed(t) == \/ InstallFails(t) \/ Install(t) \/ Publish(t)
              \/ (\E ch \in Channel : Register(t, ch)) \/ SetupFails(t) \/ SetupDone(t)
              \/ CloseBegin(t) \/ Unsubscribe(t)
              \/ ClearFails(t) \/ Clear(t) \/ NothingToClear(t)
              \/ Drained(t) \/ DrainTimeout(t)
              \/ CloseFails(t) \/ Reopen(t) \/ CloseSettles(t) \/ Finish(t)
              \/ Logout(t) \/ Cleanup(t) \/ CleanupEnd(t)

Deliver(n) == Dispatch(n) \/ Enter(n) \/ CheckShutting(n) \/ Delivered(n)

\* Nothing is in progress; the process may end here.
Rest == (\A t \in Thread : pc[t] = "idle") /\ UNCHANGED vars

Next == \/ \E t \in Thread : Begin(t) \/ Proceed(t)
        \/ \E n \in Native : Deliver(n)
        \/ Rest

Spec == Init /\ [][Next]_vars

-----------------------------------------------------------------------------
(* Properties *)

ThreadTypeOK ==
  /\ pc \in [Thread -> {"idle", "install", "publish", "register", "close",
                      "unsubscribe", "close clear", "close drain", "settle", "reopen",
                      "finish", "logout", "cleanup", "cleanup clear", "cleanup drain",
                      "cleanup wait"}]
  /\ op \in [Thread -> {"none", "subscribe", "close", "logout", "cleanup"}]
  /\ who \in [Thread -> Client \cup {None}]
  /\ st \in [Thread -> Stream \cup {None}]
  /\ failed \in [Thread -> BOOLEAN]
  /\ todo \in [Thread -> SUBSET Channel]

TypeOK ==
  /\ phase \in [Client -> {"new", "live", "gone"}]
  /\ owner \in Client \cup {None}
  /\ slot \in Stream \cup {None}
  /\ lock \in Thread \cup {None}
  /\ thunk \in [Client -> Stream \cup {None}]
  /\ shutting \in [Client -> BOOLEAN]
  /\ handle \in [Client -> {"none", "up", "out"}]
  /\ subs \in [Client -> SUBSET Channel]
  /\ current \in [Client -> Stream \cup {None}]
  /\ status \in [Stream -> {"new", "open", "closing", "closed"}]
  /\ tokens \in [Stream -> SUBSET Channel]
  /\ ThreadTypeOK
  /\ npc \in [Native -> {"out", "loaded", "entered", "delivering"}]
  /\ nst \in [Native -> Stream \cup {None}]

\* Python keeps a thunk alive as long as the SDK can call it or a call of it
\* is running: through failed clears, timeouts, and cleanup.
ThunkRetained ==
  /\ slot # None => thunk[Home[slot]] = slot
  /\ \A n \in Native : npc[n] # "out" => thunk[Home[nst[n]]] = nst[n]

\* Once close has returned, no SDK thread is in the stream or can get there.
QuietAfterClose ==
  \A s \in Stream : status[s] = "closed" =>
     /\ slot # s
     /\ \A n \in Native : npc[n] # "out" => nst[n] # s

\* Every subscription the device holds has its token in a stream of the
\* session, so that a retry of close unsubscribes all that is left.  (The
\* token of a subscription that ended with the SDK is harmless.)
TokensTruthful ==
  \A c \in Client : Usable(c) =>
     subs[c] \subseteq UNION {tokens[s] : s \in {r \in Stream : Home[r] = c}}

\* A subscription on the device always has somebody to end it: the stream the
\* session holds, which is not closed, or an operation in progress.  A setup
\* that failed half way leaves nothing else behind.
NoOrphanSubscription ==
  \A s \in Stream : tokens[s] # {} /\ Usable(Home[s]) =>
     \/ current[Home[s]] = s /\ status[s] # "closed"
     \/ \E t \in Thread : who[t] = Home[s]

\* The subscriptions are accounted for: none is forgotten, and each has an owner.
SubscriptionsAccounted == TypeOK /\ TokensTruthful /\ NoOrphanSubscription
=============================================================================
