------------------------ MODULE SmartSubscription_proofs ------------------------
(***************************************************************************)
(* Proofs about SmartSubscription for every number of clients, streams,    *)
(* channels, application threads and SDK threads.                          *)
(*                                                                         *)
(* The four kinds of Moves say what one step of a thread may do to the     *)
(* threads, the streams, the lock and the thunks.  Each is proved once for *)
(* every step; the parts of the inductive invariant then follow from them. *)
(* What is said of thunks and callbacks needs an SDK in which clearing the *)
(* slot waits for the calls it has dispatched.                             *)
(*                                                                         *)
(* The accounts of the subscriptions need no such SDK.  Their proof has    *)
(* the same form: Opens and Flows say what a step does to the operations,  *)
(* the streams and the tokens, and each part of the invariant is kept by   *)
(* every step of either kind.                                              *)
(***************************************************************************)
EXTENDS SmartSubscription, TLAPS

Waiting == Draining \cup {"cleanup wait"}

\* Each operation is on a stream of its client, and each callback in a stream.
Roles ==
  /\ \A t \in Thread : pc[t] # "idle" => who[t] \in Client
  /\ \A t \in Thread : pc[t] = "idle" => st[t] = None
  /\ \A t \in Thread : st[t] # None => Home[st[t]] = who[t]
  /\ \A t \in Thread : pc[t] = "install" => st[t] # None
  /\ \A n \in Native : npc[n] # "out" => nst[n] \in Stream

\* A stream is new until its own subscription installs it, which one thread does.
InstalledOnce ==
  /\ \A t \in Thread : pc[t] = "install" => status[st[t]] = "new"
  /\ \A t \in Thread : st[t] # None /\ pc[t] # "install" => status[st[t]] # "new"
  /\ \A t, u \in Thread : pc[t] = "install" /\ pc[u] = "install" /\ st[t] = st[u] => t = u
  /\ \A c \in Client : current[c] # None =>
       status[current[c]] # "new" /\ Home[current[c]] = c

\* Who waits for callbacks has the lock, and the slot was empty all the time: no further
\* callback can reach the client.
DrainsLocked ==
  \A t \in Thread : pc[t] \in Waiting =>
    /\ lock = t /\ slot = None
    /\ \A n \in Native : npc[n] = "loaded" => Home[nst[n]] # who[t]

\* What a successful close leaves: the thunk of the stream is not the retained one.
ThunkGone ==
  /\ \A s \in Stream : status[s] = "closed" => thunk[Home[s]] # s
  /\ \A t \in Thread :
       st[t] # None /\ (pc[t] = "finish" \/ (pc[t] = "settle" /\ ~failed[t]))
         => thunk[Home[st[t]]] # st[t]

IInv == SdkQuiesces /\ TypeOK /\ Roles /\ InstalledOnce /\ DrainsLocked /\ ThunkRetained /\ ThunkGone

-----------------------------------------------------------------------------
(* What a step may do *)

Others(t) == \A u \in Thread \ {t} :
               pc'[u] = pc[u] /\ who'[u] = who[u] /\ st'[u] = st[u] /\ failed'[u] = failed[u]

\* A thread in an operation keeps its arguments until it returns.
Moves(t) ==
  /\ Others(t)
  /\ pc[t] # "idle" /\ pc'[t] # "install"
  /\ pc'[t] = "idle" => st'[t] = None
  /\ pc'[t] # "idle" => who'[t] = who[t] /\ st'[t] = st[t]
  /\ npc' = npc /\ nst' = nst

Installs(t) == pc[t] = "install" /\ pc'[t] = "publish"

\* A stream is new until it is installed and closed when its close is finished.
MovesStatus(t) ==
  /\ pc[t] = "install" => pc'[t] \in {"publish", "idle"}
  /\ \A s \in Stream : (status'[s] = "new") <=> (status[s] = "new" /\ ~(Installs(t) /\ s = st[t]))
  /\ \A s \in Stream : status'[s] = "closed" =>
       status[s] = "closed" \/ (pc[t] = "finish" /\ s = st[t])
  /\ \A c \in Client : current'[c] \in {current[c], None}
       \/ (pc[t] = "publish" /\ c = who[t] /\ current'[c] = st[t])

\* The slot and the lock change only when nobody else has the lock.
MovesLock(t) ==
  /\ (lock' = lock /\ slot' = slot) \/ lock = None \/ (pc[t] \in Waiting /\ slot' = slot)
  /\ pc'[t] \in Waiting =>
       /\ lock' = t /\ slot' = None
       /\ \A n \in Native : npc[n] = "loaded" => Home[nst[n]] # who[t]

\* A thunk is installed over none, and goes when no callback is left in the client.
MovesThunk(t) ==
  /\ \/ thunk' = thunk /\ slot' \in {slot, None}
     \/ /\ Installs(t) /\ slot' = st[t]
        /\ thunk[who[t]] = None /\ thunk'[who[t]] = st[t]
        /\ \A c \in Client \ {who[t]} : thunk'[c] = thunk[c]
     \/ /\ pc[t] \in Waiting /\ slot' = slot
        /\ thunk'[who[t]] = None
        /\ \A n \in Native : npc[n] \in {"entered", "delivering"} => Home[nst[n]] # who[t]
        /\ \A c \in Client \ {who[t]} : thunk'[c] = thunk[c]
  /\ pc'[t] = "settle" => failed'[t] \/ thunk'[who[t]] = None
  /\ pc'[t] = "finish" => pc[t] = "settle" /\ ~failed[t] /\ thunk' = thunk

\* After a close a thread goes on with its operation or returns.
GoesOn(t) ==
  /\ Others(t)
  /\ pc'[t] \in {"idle", "logout", "cleanup clear"}
  /\ pc'[t] = "idle" => st'[t] = None
  /\ pc'[t] # "idle" => st'[t] = st[t] /\ who'[t] = who[t]
  /\ ThreadTypeOK'

\* A thread that returns goes on in that sense.
LEMMA ReturnGoesOn ==
  ASSUME TypeOK, NEW t \in Thread, Return(t)
  PROVE  GoesOn(t)
<1>0. ThreadTypeOK
  BY DEF TypeOK
<1> USE <1>0 DEF ThreadTypeOK, Return, Goto
<1>1. ThreadTypeOK'
  OBVIOUS
<1>2. Others(t)
  <2>1. ASSUME NEW u \in Thread \ {t} PROVE pc'[u] = pc[u] /\ who'[u] = who[u]
    OBVIOUS
  <2>2. ASSUME NEW u \in Thread \ {t} PROVE st'[u] = st[u] /\ failed'[u] = failed[u]
    OBVIOUS
  <2> QED BY <2>1, <2>2 DEF Others
<1>3. pc'[t] = "idle" /\ st'[t] = None
  OBVIOUS
<1> QED BY <1>1, <1>2, <1>3 DEF GoesOn

\* So does a thread whose close is over.
LEMMA CloseGoesOn ==
  ASSUME TypeOK, NEW t \in Thread,
         (CloseBegin(t) /\ status[st[t]] # "open") \/ Reopen(t) \/ Finish(t)
  PROVE  GoesOn(t)
<1> DEFINE Keep(p) == Goto(t, p) /\ UNCHANGED <<op, who, st, failed, todo>>
<1>1. Keep("cleanup clear") \/ Keep("logout") \/ Return(t)
  BY Zenon DEF CloseBegin, Reopen, Finish, Continue
<1>2. CASE Return(t)
  BY <1>2, ReturnGoesOn
<1>3. CASE Keep("logout")
  BY <1>3 DEF TypeOK, ThreadTypeOK, Goto, GoesOn, Others
<1>4. CASE Keep("cleanup clear")
  BY <1>4 DEF TypeOK, ThreadTypeOK, Goto, GoesOn, Others
<1> QED BY <1>1, <1>2, <1>3, <1>4

\* Closing a stream and opening it again leaves it installed.
LEMMA Reassigned ==
  ASSUME NEW t \in Thread, NEW v \in {"open", "closing", "closed"},
         st[t] # None => status[st[t]] # "new",
         pc[t] # "install", current' = current, v = "closed" => pc[t] = "finish",
         \A s \in Stream : status'[s] = IF s = st[t] THEN v ELSE status[s]
  PROVE  MovesStatus(t)
BY SubscriptionAssumption DEF MovesStatus, Installs

\* A thread keeps its arguments.
LEMMA ThreadMoves ==
  ASSUME TypeOK, Roles, NEW t \in Thread, Proceed(t)
  PROVE  Moves(t)
<1>0. ThreadTypeOK
  BY DEF TypeOK
<1> USE <1>0 DEF ThreadTypeOK, Moves, Others,
        process, client, streams, threads, natives
<1>1. ASSUME InstallFails(t) PROVE Moves(t)
  BY <1>1 DEF InstallFails, Return, Goto
<1>2. ASSUME Install(t) PROVE Moves(t)
  BY <1>2 DEF Install, MayInstall, Goto
<1>3. ASSUME Publish(t) PROVE Moves(t)
  BY <1>3 DEF Publish, Goto
<1>4. ASSUME NEW ch \in Channel, Register(t, ch) PROVE Moves(t)
  BY <1>4 DEF Register
<1>5. ASSUME SetupFails(t) PROVE Moves(t)
  BY <1>5 DEF SetupFails, Goto
<1>6. ASSUME SetupDone(t) PROVE Moves(t)
  BY <1>6 DEF SetupDone, Return, Goto
<1>7. ASSUME CloseBegin(t) PROVE Moves(t)
  <2>1. CASE status[st[t]] = "open"
    <3>1. /\ pc[t] = "close" /\ status' = [status EXCEPT ![st[t]] = "closing"] /\ Goto(t, "unsubscribe")
          /\ UNCHANGED <<op, who, st, failed, todo, process, client, tokens, natives>>
      BY <1>7, <2>1, Zenon DEF CloseBegin
    <3> QED BY <3>1 DEF Goto
  <2>2. CASE status[st[t]] # "open"
    <3>1. GoesOn(t)
      BY <1>7, <2>2, CloseGoesOn
    <3> QED BY <1>7, <2>2, <3>1 DEF CloseBegin, GoesOn
  <2> QED BY <2>1, <2>2
<1>8. ASSUME Unsubscribe(t) PROVE Moves(t)
  <2>1. /\ pc[t] = "unsubscribe" /\ Goto(t, "close clear")
        /\ UNCHANGED <<who, st>> /\ UNCHANGED natives
        /\ \A u \in Thread \ {t} : failed'[u] = failed[u]
    <3>1. PICK F : failed' = [failed EXCEPT ![t] = Error(F)]
      BY <1>8 DEF Unsubscribe
    <3> QED BY <1>8, <3>1 DEF Unsubscribe
  <2> QED BY <2>1 DEF Goto
<1>9. ASSUME ClearFails(t) PROVE Moves(t)
  BY <1>9 DEF ClearFails, Clearing, Cleared, Goto
<1>10. ASSUME Clear(t) PROVE Moves(t)
  BY <1>10 DEF Clear, Clearing, Goto
<1>11. ASSUME NothingToClear(t) PROVE Moves(t)
  BY <1>11 DEF NothingToClear, Goto
<1>12. ASSUME Drained(t) PROVE Moves(t)
  BY <1>12 DEF Drained, Draining, Quiet, OwnerAfterClear, Cleared, Goto
<1>13. ASSUME DrainTimeout(t) PROVE Moves(t)
  BY <1>13 DEF DrainTimeout, Draining, Cleared, Goto
<1>14. ASSUME CloseFails(t) PROVE Moves(t)
  BY <1>14 DEF CloseFails, Goto
<1>15. ASSUME Reopen(t) PROVE Moves(t)
  <2>1. GoesOn(t)
    BY <1>15, CloseGoesOn
  <2>2. /\ pc[t] = "reopen"
        /\ status' = [status EXCEPT ![st[t]] = "open"]
        /\ UNCHANGED <<process, client, tokens, natives>>
    BY <1>15, Zenon DEF Reopen
  <2> QED BY <2>1, <2>2 DEF GoesOn
<1>16. ASSUME CloseSettles(t) PROVE Moves(t)
  BY <1>16 DEF CloseSettles, Goto
<1>17. ASSUME Finish(t) PROVE Moves(t)
  <2>1. GoesOn(t)
    BY <1>17, CloseGoesOn
  <2>2. /\ pc[t] = "finish"
        /\ status' = [status EXCEPT ![st[t]] = "closed"]
        /\ UNCHANGED <<process, client, tokens, natives>>
    BY <1>17, Zenon DEF Finish
  <2> QED BY <2>1, <2>2 DEF GoesOn
<1>18. ASSUME Logout(t) PROVE Moves(t)
  BY <1>18 DEF Logout, Return, Goto
<1>19. ASSUME Cleanup(t) PROVE Moves(t)
  <2>1. CASE phase[who[t]] # "live"
    <3>1. pc[t] = "cleanup" /\ Return(t) /\ UNCHANGED <<slot, lock, owner, thunk, current, streams, natives>>
      BY <1>19, <2>1, Zenon DEF Cleanup
    <3> QED BY <3>1 DEF Return, Goto
  <2>2. CASE phase[who[t]] = "live"
    <3>1. /\ slot' = None /\ lock' = t /\ Goto(t, "cleanup wait")
          /\ UNCHANGED <<owner, thunk, current, who, st, failed, streams, natives>>
      BY <1>19, <2>2, Zenon DEF Cleanup
    <3> QED BY <1>19, <3>1 DEF Cleanup, Goto
  <2> QED BY <2>1, <2>2
<1>20. ASSUME CleanupEnd(t) PROVE Moves(t)
  BY <1>20 DEF CleanupEnd, ThunkAfterCleanup, OwnerAfterClear, Return, Goto
<1> QED BY <1>1, <1>2, <1>3, <1>4, <1>5, <1>6, <1>7, <1>8, <1>9, <1>10, <1>11, <1>12, <1>13, <1>14,
         <1>15, <1>16, <1>17, <1>18, <1>19, <1>20
     DEF Proceed

\* Streams are installed and closed in their order.
LEMMA StatusMoves ==
  ASSUME TypeOK, Roles, InstalledOnce, NEW t \in Thread, Proceed(t)
  PROVE  MovesStatus(t)
<1>0. /\ ThreadTypeOK /\ current \in [Client -> Stream \cup {None}]
      /\ status \in [Stream -> {"new", "open", "closing", "closed"}]
  BY DEF TypeOK
<1> USE <1>0, SubscriptionAssumption DEF ThreadTypeOK, MovesStatus, Installs,
        process, client, streams, threads, natives
<1>1. ASSUME InstallFails(t) PROVE MovesStatus(t)
  BY <1>1 DEF InstallFails, Return, Goto
<1>2. ASSUME Install(t) PROVE MovesStatus(t)
  BY <1>2 DEF Install, MayInstall, Goto
<1>3. ASSUME Publish(t) PROVE MovesStatus(t)
  BY <1>3 DEF Publish, Goto
<1>4. ASSUME NEW ch \in Channel, Register(t, ch) PROVE MovesStatus(t)
  BY <1>4 DEF Register
<1>5. ASSUME SetupFails(t) PROVE MovesStatus(t)
  BY <1>5 DEF SetupFails, Goto
<1>6. ASSUME SetupDone(t) PROVE MovesStatus(t)
  BY <1>6 DEF SetupDone, Return, Goto
<1>7. ASSUME CloseBegin(t) PROVE MovesStatus(t)
  <2>1. CASE status[st[t]] = "open"
    <3>1. /\ pc[t] = "close" /\ status' = [status EXCEPT ![st[t]] = "closing"]
          /\ current' = current
      BY <1>7, <2>1, Zenon DEF CloseBegin
    <3>2. \A s \in Stream : status'[s] = IF s = st[t] THEN "closing" ELSE status[s]
      BY <3>1
    <3> QED BY <2>1, <3>1, <3>2, Reassigned
  <2>2. CASE status[st[t]] # "open"
    <3>1. GoesOn(t)
      BY <1>7, <2>2, CloseGoesOn
    <3> QED BY <1>7, <2>2, <3>1 DEF CloseBegin, GoesOn
  <2> QED BY <2>1, <2>2
<1>8. ASSUME Unsubscribe(t) PROVE MovesStatus(t)
  BY <1>8 DEF Unsubscribe, Kept, Error, Goto
<1>9. ASSUME ClearFails(t) PROVE MovesStatus(t)
  BY <1>9 DEF ClearFails, Clearing, Cleared, Goto
<1>10. ASSUME Clear(t) PROVE MovesStatus(t)
  BY <1>10 DEF Clear, Clearing, Goto
<1>11. ASSUME NothingToClear(t) PROVE MovesStatus(t)
  BY <1>11 DEF NothingToClear, Goto
<1>12. ASSUME Drained(t) PROVE MovesStatus(t)
  BY <1>12 DEF Drained, Draining, Quiet, OwnerAfterClear, Cleared, Goto
<1>13. ASSUME DrainTimeout(t) PROVE MovesStatus(t)
  BY <1>13 DEF DrainTimeout, Draining, Cleared, Goto
<1>14. ASSUME CloseFails(t) PROVE MovesStatus(t)
  BY <1>14 DEF CloseFails, Goto
<1>15. ASSUME Reopen(t) PROVE MovesStatus(t)
  <2>1. /\ pc[t] = "reopen" /\ status' = [status EXCEPT ![st[t]] = "open"]
        /\ current' = current
    BY <1>15, Zenon DEF Reopen
  <2>2. st[t] # None => status[st[t]] # "new"
    BY <2>1 DEF InstalledOnce
  <2>3. \A s \in Stream : status'[s] = IF s = st[t] THEN "open" ELSE status[s]
    BY <2>1
  <2> QED BY <2>1, <2>2, <2>3, Reassigned
<1>16. ASSUME CloseSettles(t) PROVE MovesStatus(t)
  BY <1>16 DEF CloseSettles, Goto
<1>17. ASSUME Finish(t) PROVE MovesStatus(t)
  <2>1. /\ pc[t] = "finish" /\ status' = [status EXCEPT ![st[t]] = "closed"]
        /\ current' = current
    BY <1>17, Zenon DEF Finish
  <2>2. st[t] # None => status[st[t]] # "new"
    BY <2>1 DEF InstalledOnce
  <2>3. \A s \in Stream : status'[s] = IF s = st[t] THEN "closed" ELSE status[s]
    BY <2>1
  <2> QED BY <2>1, <2>2, <2>3, Reassigned
<1>18. ASSUME Logout(t) PROVE MovesStatus(t)
  BY <1>18 DEF Logout, Return, Goto
<1>19. ASSUME Cleanup(t) PROVE MovesStatus(t)
  <2>1. CASE phase[who[t]] # "live"
    <3>1. pc[t] = "cleanup" /\ Return(t) /\ UNCHANGED <<slot, lock, owner, thunk, current, streams, natives>>
      BY <1>19, <2>1, Zenon DEF Cleanup
    <3> QED BY <3>1 DEF Return, Goto
  <2>2. CASE phase[who[t]] = "live"
    <3>1. /\ slot' = None /\ lock' = t /\ Goto(t, "cleanup wait")
          /\ UNCHANGED <<owner, thunk, current, who, st, failed, streams, natives>>
      BY <1>19, <2>2, Zenon DEF Cleanup
    <3> QED BY <1>19, <3>1 DEF Cleanup, Goto
  <2> QED BY <2>1, <2>2
<1>20. ASSUME CleanupEnd(t) PROVE MovesStatus(t)
  BY <1>20 DEF CleanupEnd, ThunkAfterCleanup, OwnerAfterClear, Return, Goto
<1> QED BY <1>1, <1>2, <1>3, <1>4, <1>5, <1>6, <1>7, <1>8, <1>9, <1>10, <1>11, <1>12, <1>13, <1>14,
         <1>15, <1>16, <1>17, <1>18, <1>19, <1>20
     DEF Proceed

\* The lock guards the slot.
LEMMA LockMoves ==
  ASSUME SdkQuiesces, TypeOK, Roles, NEW t \in Thread, Proceed(t)
  PROVE  MovesLock(t)
<1>0. ThreadTypeOK
  BY DEF TypeOK
<1> USE <1>0 DEF ThreadTypeOK, MovesLock, Waiting, Draining, Dispatched,
        process, client, streams, threads, natives
<1>1. ASSUME InstallFails(t) PROVE MovesLock(t)
  BY <1>1 DEF InstallFails, Return, Goto
<1>2. ASSUME Install(t) PROVE MovesLock(t)
  BY <1>2 DEF Install, MayInstall, Goto
<1>3. ASSUME Publish(t) PROVE MovesLock(t)
  BY <1>3 DEF Publish, Goto
<1>4. ASSUME NEW ch \in Channel, Register(t, ch) PROVE MovesLock(t)
  BY <1>4 DEF Register
<1>5. ASSUME SetupFails(t) PROVE MovesLock(t)
  BY <1>5 DEF SetupFails, Goto
<1>6. ASSUME SetupDone(t) PROVE MovesLock(t)
  BY <1>6 DEF SetupDone, Return, Goto
<1>7. ASSUME CloseBegin(t) PROVE MovesLock(t)
  <2>1. CASE status[st[t]] = "open"
    <3>1. /\ pc[t] = "close" /\ status' = [status EXCEPT ![st[t]] = "closing"] /\ Goto(t, "unsubscribe")
          /\ UNCHANGED <<op, who, st, failed, todo, process, client, tokens, natives>>
      BY <1>7, <2>1, Zenon DEF CloseBegin
    <3> QED BY <3>1 DEF Goto
  <2>2. CASE status[st[t]] # "open"
    <3>1. GoesOn(t)
      BY <1>7, <2>2, CloseGoesOn
    <3> QED BY <1>7, <2>2, <3>1 DEF CloseBegin, GoesOn
  <2> QED BY <2>1, <2>2
<1>8. ASSUME Unsubscribe(t) PROVE MovesLock(t)
  BY <1>8 DEF Unsubscribe, Kept, Error, Goto
<1>9. ASSUME ClearFails(t) PROVE MovesLock(t)
  BY <1>9 DEF ClearFails, Clearing, Cleared, Goto
<1>10. ASSUME Clear(t) PROVE MovesLock(t)
  BY <1>10 DEF Clear, Clearing, Goto
<1>11. ASSUME NothingToClear(t) PROVE MovesLock(t)
  BY <1>11 DEF NothingToClear, Goto
<1>12. ASSUME Drained(t) PROVE MovesLock(t)
  BY <1>12 DEF Drained, Draining, Quiet, OwnerAfterClear, Cleared, Goto
<1>13. ASSUME DrainTimeout(t) PROVE MovesLock(t)
  BY <1>13 DEF DrainTimeout, Draining, Cleared, Goto
<1>14. ASSUME CloseFails(t) PROVE MovesLock(t)
  BY <1>14 DEF CloseFails, Goto
<1>15. ASSUME Reopen(t) PROVE MovesLock(t)
  <2>1. GoesOn(t)
    BY <1>15, CloseGoesOn
  <2>2. /\ pc[t] = "reopen"
        /\ status' = [status EXCEPT ![st[t]] = "open"]
        /\ UNCHANGED <<process, client, tokens, natives>>
    BY <1>15, Zenon DEF Reopen
  <2> QED BY <2>1, <2>2 DEF GoesOn
<1>16. ASSUME CloseSettles(t) PROVE MovesLock(t)
  BY <1>16 DEF CloseSettles, Goto
<1>17. ASSUME Finish(t) PROVE MovesLock(t)
  <2>1. GoesOn(t)
    BY <1>17, CloseGoesOn
  <2>2. /\ pc[t] = "finish"
        /\ status' = [status EXCEPT ![st[t]] = "closed"]
        /\ UNCHANGED <<process, client, tokens, natives>>
    BY <1>17, Zenon DEF Finish
  <2> QED BY <2>1, <2>2 DEF GoesOn
<1>18. ASSUME Logout(t) PROVE MovesLock(t)
  BY <1>18 DEF Logout, Return, Goto
<1>19. ASSUME Cleanup(t) PROVE MovesLock(t)
  <2>1. CASE phase[who[t]] # "live"
    <3>1. pc[t] = "cleanup" /\ Return(t) /\ UNCHANGED <<slot, lock, owner, thunk, current, streams, natives>>
      BY <1>19, <2>1, Zenon DEF Cleanup
    <3> QED BY <3>1 DEF Return, Goto
  <2>2. CASE phase[who[t]] = "live"
    <3>1. /\ slot' = None /\ lock' = t /\ Goto(t, "cleanup wait")
          /\ Dispatched(who[t]) = {}
          /\ UNCHANGED <<owner, thunk, current, who, st, failed, streams, natives>>
      BY <1>19, <2>2, Zenon DEF Cleanup
    <3> QED BY <1>19, <3>1 DEF Cleanup, Goto
  <2> QED BY <2>1, <2>2
<1>20. ASSUME CleanupEnd(t) PROVE MovesLock(t)
  BY <1>20 DEF CleanupEnd, ThunkAfterCleanup, OwnerAfterClear, Return, Goto
<1> QED BY <1>1, <1>2, <1>3, <1>4, <1>5, <1>6, <1>7, <1>8, <1>9, <1>10, <1>11, <1>12, <1>13, <1>14,
         <1>15, <1>16, <1>17, <1>18, <1>19, <1>20
     DEF Proceed

\* Thunks come and go when nothing runs in them.
LEMMA ThunkMoves ==
  ASSUME SdkQuiesces, TypeOK, Roles, NEW t \in Thread, Proceed(t)
  PROVE  MovesThunk(t)
<1>0. /\ ThreadTypeOK /\ thunk \in [Client -> Stream \cup {None}]
      /\ pc[t] # "idle" => who[t] \in Client
  BY DEF TypeOK, Roles
<1> USE <1>0 DEF ThreadTypeOK, MovesThunk, Waiting, Draining, Installs, Inflight,
        process, client, streams, threads, natives
<1>1. ASSUME InstallFails(t) PROVE MovesThunk(t)
  BY <1>1 DEF InstallFails, Return, Goto
<1>2. ASSUME Install(t) PROVE MovesThunk(t)
  BY <1>2 DEF Install, MayInstall, Goto
<1>3. ASSUME Publish(t) PROVE MovesThunk(t)
  BY <1>3 DEF Publish, Goto
<1>4. ASSUME NEW ch \in Channel, Register(t, ch) PROVE MovesThunk(t)
  BY <1>4 DEF Register
<1>5. ASSUME SetupFails(t) PROVE MovesThunk(t)
  BY <1>5 DEF SetupFails, Goto
<1>6. ASSUME SetupDone(t) PROVE MovesThunk(t)
  BY <1>6 DEF SetupDone, Return, Goto
<1>7. ASSUME CloseBegin(t) PROVE MovesThunk(t)
  <2>1. CASE status[st[t]] = "open"
    <3>1. /\ pc[t] = "close" /\ status' = [status EXCEPT ![st[t]] = "closing"] /\ Goto(t, "unsubscribe")
          /\ UNCHANGED <<op, who, st, failed, todo, process, client, tokens, natives>>
      BY <1>7, <2>1, Zenon DEF CloseBegin
    <3> QED BY <3>1 DEF Goto
  <2>2. CASE status[st[t]] # "open"
    <3>1. GoesOn(t)
      BY <1>7, <2>2, CloseGoesOn
    <3> QED BY <1>7, <2>2, <3>1 DEF CloseBegin, GoesOn
  <2> QED BY <2>1, <2>2
<1>8. ASSUME Unsubscribe(t) PROVE MovesThunk(t)
  BY <1>8 DEF Unsubscribe, Kept, Error, Goto
<1>9. ASSUME ClearFails(t) PROVE MovesThunk(t)
  BY <1>9 DEF ClearFails, Clearing, Cleared, Goto
<1>10. ASSUME Clear(t) PROVE MovesThunk(t)
  BY <1>10 DEF Clear, Clearing, Goto
<1>11. ASSUME NothingToClear(t) PROVE MovesThunk(t)
  BY <1>11 DEF NothingToClear, Goto
<1>12. ASSUME Drained(t) PROVE MovesThunk(t)
  BY <1>12 DEF Drained, Draining, Quiet, OwnerAfterClear, Cleared, Goto
<1>13. ASSUME DrainTimeout(t) PROVE MovesThunk(t)
  BY <1>13 DEF DrainTimeout, Draining, Cleared, Goto
<1>14. ASSUME CloseFails(t) PROVE MovesThunk(t)
  BY <1>14 DEF CloseFails, Goto
<1>15. ASSUME Reopen(t) PROVE MovesThunk(t)
  <2>1. GoesOn(t)
    BY <1>15, CloseGoesOn
  <2>2. /\ pc[t] = "reopen"
        /\ status' = [status EXCEPT ![st[t]] = "open"]
        /\ UNCHANGED <<process, client, tokens, natives>>
    BY <1>15, Zenon DEF Reopen
  <2> QED BY <2>1, <2>2 DEF GoesOn
<1>16. ASSUME CloseSettles(t) PROVE MovesThunk(t)
  BY <1>16 DEF CloseSettles, Goto
<1>17. ASSUME Finish(t) PROVE MovesThunk(t)
  <2>1. GoesOn(t)
    BY <1>17, CloseGoesOn
  <2>2. /\ pc[t] = "finish"
        /\ status' = [status EXCEPT ![st[t]] = "closed"]
        /\ UNCHANGED <<process, client, tokens, natives>>
    BY <1>17, Zenon DEF Finish
  <2> QED BY <2>1, <2>2 DEF GoesOn
<1>18. ASSUME Logout(t) PROVE MovesThunk(t)
  BY <1>18 DEF Logout, Return, Goto
<1>19. ASSUME Cleanup(t) PROVE MovesThunk(t)
  <2>1. CASE phase[who[t]] # "live"
    <3>1. pc[t] = "cleanup" /\ Return(t) /\ UNCHANGED <<slot, lock, owner, thunk, current, streams, natives>>
      BY <1>19, <2>1, Zenon DEF Cleanup
    <3> QED BY <3>1 DEF Return, Goto
  <2>2. CASE phase[who[t]] = "live"
    <3>1. /\ slot' = None /\ lock' = t /\ Goto(t, "cleanup wait")
          /\ Dispatched(who[t]) = {}
          /\ UNCHANGED <<owner, thunk, current, who, st, failed, streams, natives>>
      BY <1>19, <2>2, Zenon DEF Cleanup
    <3> QED BY <1>19, <3>1 DEF Cleanup, Goto
  <2> QED BY <2>1, <2>2
<1>20. ASSUME CleanupEnd(t) PROVE MovesThunk(t)
  BY <1>20 DEF CleanupEnd, ThunkAfterCleanup, OwnerAfterClear, Return, Goto
<1> QED BY <1>1, <1>2, <1>3, <1>4, <1>5, <1>6, <1>7, <1>8, <1>9, <1>10, <1>11, <1>12, <1>13, <1>14,
         <1>15, <1>16, <1>17, <1>18, <1>19, <1>20
     DEF Proceed

\* The variables keep their types.
LEMMA TypeStep ==
  ASSUME TypeOK, Roles, [Next]_vars
  PROVE  TypeOK'
<1> USE SubscriptionAssumption DEF TypeOK, ThreadTypeOK,
        process, client, streams, threads, natives
<1>1. ASSUME NEW t \in Thread, NEW c \in Client, Construct(t, c) PROVE TypeOK'
  BY <1>1 DEF Construct
<1>2. ASSUME NEW t \in Thread, NEW c \in Client, LogoutBegin(t, c) PROVE TypeOK'
  <2>1. CASE NoStream(c)
    <3>1. Start(t, "logout", c, None, "logout")
      BY <1>2, <2>1, Zenon DEF LogoutBegin
    <3> QED BY <3>1 DEF Start, Goto
  <2>2. CASE ~NoStream(c)
    <3>1. Start(t, "logout", c, current[c], "close")
      BY <1>2, <2>2, Zenon DEF LogoutBegin
    <3> QED BY <3>1 DEF Start, Goto
  <2> QED BY <2>1, <2>2
<1>3. ASSUME NEW t \in Thread, NEW c \in Client, CleanupBegin(t, c) PROVE TypeOK'
  <2>1. CASE NoStream(c)
    <3>1. Start(t, "cleanup", c, None, "cleanup clear")
      BY <1>3, <2>1, Zenon DEF CleanupBegin
    <3> QED BY <3>1 DEF Start, Goto
  <2>2. CASE ~NoStream(c)
    <3>1. Start(t, "cleanup", c, current[c], "close")
      BY <1>3, <2>2, Zenon DEF CleanupBegin
    <3> QED BY <3>1 DEF Start, Goto
  <2> QED BY <2>1, <2>2
<1>4. ASSUME NEW t \in Thread, NEW s \in Stream, SubscribeBegin(t, s) PROVE TypeOK'
  BY <1>4 DEF SubscribeBegin, Start, Goto
<1>5. ASSUME NEW t \in Thread, NEW s \in Stream, StreamClose(t, s) PROVE TypeOK'
  BY <1>5 DEF StreamClose, Start, Goto
<1>6. ASSUME NEW t \in Thread, InstallFails(t) PROVE TypeOK'
  BY <1>6 DEF InstallFails, Return, Goto
<1>7. ASSUME NEW t \in Thread, Install(t) PROVE TypeOK'
  BY <1>7 DEF Install, MayInstall, Goto
<1>8. ASSUME NEW t \in Thread, Publish(t) PROVE TypeOK'
  BY <1>8 DEF Publish, Goto
<1>9. ASSUME NEW t \in Thread, NEW ch \in Channel, Register(t, ch) PROVE TypeOK'
  <2>1. subs' \in [Client -> SUBSET Channel]
    <3>1. subs' = [subs EXCEPT ![who[t]] = subs[who[t]] \cup {ch}]
      BY <1>9 DEF Register
    <3>2. \A x \in Client : subs[x] \cup {ch} \in SUBSET Channel
      BY <1>9
    <3> QED BY <3>1, <3>2
  <2>0. tokens' \in [Stream -> SUBSET Channel]
    <3>1. tokens' = [tokens EXCEPT ![st[t]] = tokens[st[t]] \cup {ch}]
      BY <1>9 DEF Register
    <3>2. \A x \in Stream : tokens[x] \cup {ch} \in SUBSET Channel
      BY <1>9
    <3> QED BY <3>1, <3>2
  <2>2. todo' \in [Thread -> SUBSET Channel]
    BY <1>9 DEF Register
  <2>3. UNCHANGED <<process, thunk, shutting, handle, current, status,
                    pc, op, who, st, failed, natives>>
    BY <1>9 DEF Register
  <2> QED BY <2>0, <2>1, <2>2, <2>3
<1>10. ASSUME NEW t \in Thread, SetupFails(t) PROVE TypeOK'
  BY <1>10 DEF SetupFails, Goto
<1>11. ASSUME NEW t \in Thread, SetupDone(t) PROVE TypeOK'
  BY <1>11 DEF SetupDone, Return, Goto
<1>12. ASSUME NEW t \in Thread, CloseBegin(t) PROVE TypeOK'
  <2>1. CASE status[st[t]] = "open"
    <3>1. /\ status' = [status EXCEPT ![st[t]] = "closing"] /\ Goto(t, "unsubscribe")
          /\ UNCHANGED <<op, who, st, failed, todo>> /\ UNCHANGED <<process, client, tokens, natives>>
      BY <1>12, <2>1, Zenon DEF CloseBegin
    <3> QED BY <3>1 DEF Goto
  <2>2. CASE status[st[t]] # "open"
    <3>1. GoesOn(t) /\ status' = status /\ UNCHANGED <<process, client, tokens, natives>>
      BY <1>12, <2>2, CloseGoesOn, Zenon DEF CloseBegin
    <3> QED BY <3>1 DEF GoesOn
  <2> QED BY <2>1, <2>2
<1>13. ASSUME NEW t \in Thread, Unsubscribe(t) PROVE TypeOK'
  <2>1. PICK F \in SUBSET tokens[st[t]] :
          /\ tokens' = [tokens EXCEPT ![st[t]] = F]
          /\ subs' = [subs EXCEPT ![who[t]] = @ \ (tokens[st[t]] \ F)]
          /\ failed' = [failed EXCEPT ![t] = Error(F)]
    BY <1>13 DEF Unsubscribe, Kept
  <2>2. /\ Goto(t, "close clear")
        /\ UNCHANGED <<process, thunk, shutting, handle, current, status, op, who, st, todo, natives>>
    BY <1>13 DEF Unsubscribe
  <2>3. subs' \in [Client -> SUBSET Channel]
    BY <2>1
  <2>4. tokens' \in [Stream -> SUBSET Channel]
    BY <2>1
  <2>5. failed' \in [Thread -> BOOLEAN]
    BY <2>1 DEF Error
  <2> QED BY <2>2, <2>3, <2>4, <2>5 DEF Goto
<1>14. ASSUME NEW t \in Thread, ClearFails(t) PROVE TypeOK'
  BY <1>14 DEF ClearFails, Clearing, Cleared, Goto
<1>15. ASSUME NEW t \in Thread, Clear(t) PROVE TypeOK'
  BY <1>15 DEF Clear, Clearing, Goto
<1>16. ASSUME NEW t \in Thread, NothingToClear(t) PROVE TypeOK'
  BY <1>16 DEF NothingToClear, Goto
<1>17. ASSUME NEW t \in Thread, Drained(t) PROVE TypeOK'
  BY <1>17 DEF Drained, Draining, Quiet, OwnerAfterClear, Cleared, Goto
<1>18. ASSUME NEW t \in Thread, DrainTimeout(t) PROVE TypeOK'
  BY <1>18 DEF DrainTimeout, Draining, Cleared, Goto
<1>19. ASSUME NEW t \in Thread, CloseFails(t) PROVE TypeOK'
  BY <1>19 DEF CloseFails, Goto
<1>20. ASSUME NEW t \in Thread, Reopen(t) PROVE TypeOK'
  <2>1. GoesOn(t)
    BY <1>20, CloseGoesOn
  <2>2. /\ status' = [status EXCEPT ![st[t]] = "open"]
        /\ UNCHANGED <<process, client, tokens, natives>>
    BY <1>20, Zenon DEF Reopen
  <2> QED BY <2>1, <2>2 DEF GoesOn
<1>21. ASSUME NEW t \in Thread, CloseSettles(t) PROVE TypeOK'
  BY <1>21 DEF CloseSettles, Goto
<1>22. ASSUME NEW t \in Thread, Finish(t) PROVE TypeOK'
  <2>1. GoesOn(t)
    BY <1>22, CloseGoesOn
  <2>2. /\ status' = [status EXCEPT ![st[t]] = "closed"]
        /\ UNCHANGED <<process, client, tokens, natives>>
    BY <1>22, Zenon DEF Finish
  <2> QED BY <2>1, <2>2 DEF GoesOn
<1>23. ASSUME NEW t \in Thread, Logout(t) PROVE TypeOK'
  BY <1>23 DEF Logout, Return, Goto
<1>24. ASSUME NEW t \in Thread, Cleanup(t) PROVE TypeOK'
  <2>1. CASE phase[who[t]] # "live"
    <3>1. /\ Return(t) /\ UNCHANGED <<phase, slot, lock, subs>>
          /\ UNCHANGED <<owner, thunk, shutting, handle, current, streams, natives>>
      BY <1>24, <2>1, Zenon DEF Cleanup
    <3> QED BY <3>1 DEF Return, Goto
  <2>2. CASE phase[who[t]] = "live"
    <3>1. /\ phase' = [phase EXCEPT ![who[t]] = "gone"]
          /\ slot' = None /\ subs' = [d \in Client |-> {}] /\ lock' = t
          /\ Goto(t, "cleanup wait") /\ UNCHANGED <<op, who, st, failed, todo>>
          /\ UNCHANGED <<owner, thunk, shutting, handle, current, streams, natives>>
      BY <1>24, <2>2, Zenon DEF Cleanup
    <3> QED BY <3>1 DEF Goto
  <2> QED BY <2>1, <2>2
<1>25. ASSUME NEW t \in Thread, CleanupEnd(t) PROVE TypeOK'
  BY <1>25 DEF CleanupEnd, ThunkAfterCleanup, OwnerAfterClear, Return, Goto
<1>26. ASSUME NEW n \in Native, Dispatch(n) PROVE TypeOK'
  BY <1>26 DEF Dispatch
<1>27. ASSUME NEW n \in Native, Enter(n) PROVE TypeOK'
  BY <1>27 DEF Enter
<1>28. ASSUME NEW n \in Native, CheckShutting(n) PROVE TypeOK'
  <2>1. CASE shutting[Home[nst[n]]]
    <3>1. npc' = [npc EXCEPT ![n] = "out"] /\ nst' = [nst EXCEPT ![n] = None]
      BY <1>28, <2>1, Zenon DEF CheckShutting, Leave
    <3>2. UNCHANGED <<process, client, streams, threads>>
      BY <1>28 DEF CheckShutting
    <3> QED BY <3>1, <3>2
  <2>2. CASE ~shutting[Home[nst[n]]]
    <3>1. npc' = [npc EXCEPT ![n] = "delivering"] /\ UNCHANGED nst
      BY <1>28, <2>2, Zenon DEF CheckShutting
    <3>2. UNCHANGED <<process, client, streams, threads>>
      BY <1>28 DEF CheckShutting
    <3> QED BY <3>1, <3>2
  <2> QED BY <2>1, <2>2
<1>29. ASSUME NEW n \in Native, Delivered(n) PROVE TypeOK'
  BY <1>29 DEF Delivered, Leave
<1>30. ASSUME UNCHANGED vars PROVE TypeOK'
  BY <1>30 DEF vars
<1> QED BY <1>1, <1>2, <1>3, <1>4, <1>5, <1>6, <1>7, <1>8, <1>9, <1>10, <1>11, <1>12, <1>13, <1>14,
         <1>15, <1>16, <1>17, <1>18, <1>19, <1>20, <1>21, <1>22, <1>23, <1>24, <1>25, <1>26, <1>27, <1>28,
         <1>29, <1>30
     DEF Next, Begin, Proceed, Deliver, Rest

-----------------------------------------------------------------------------
(* Starting an operation, and the SDK threads *)

\* A thread starts on a stream of a client: a new one to subscribe, else an installed one.
Starts(t) ==
  /\ Others(t) /\ pc[t] = "idle"
  /\ pc'[t] \in {"idle", "install", "close", "logout", "cleanup clear"}
  /\ pc'[t] = "idle" => st'[t] = None
  /\ pc'[t] # "idle" => who'[t] \in Client
  /\ st'[t] # None => st'[t] \in Stream /\ Home[st'[t]] = who'[t]
  /\ pc'[t] = "install" =>
       st'[t] # None /\ status[st'[t]] = "new" /\ \A u \in Thread : st[u] # st'[t]
  /\ st'[t] # None /\ pc'[t] # "install" => status[st'[t]] # "new"
  /\ UNCHANGED <<slot, lock, thunk, status, current, npc, nst>>

\* The stream a client holds is an installed one of its own.
LEMMA HeldStream ==
  ASSUME TypeOK, InstalledOnce, NEW c \in Client, ~NoStream(c)
  PROVE  current[c] \in Stream /\ status[current[c]] # "new" /\ Home[current[c]] = c
BY DEF TypeOK, InstalledOnce, NoStream

\* Every operation starts that way.
LEMMA BeginStarts ==
  ASSUME TypeOK, Roles, InstalledOnce, NEW t \in Thread, Begin(t)
  PROVE  Starts(t)
<1>0. \A c \in Client : ~NoStream(c) =>
        current[c] \in Stream /\ status[current[c]] # "new" /\ Home[current[c]] = c
  BY HeldStream
<1>t. ThreadTypeOK
  BY DEF TypeOK
<1> USE <1>t, SubscriptionAssumption DEF ThreadTypeOK, Starts, Others, Start, Goto,
        process, client, streams, threads, natives
<1>1. ASSUME NEW c \in Client, Construct(t, c) PROVE Starts(t)
  BY <1>1 DEF Construct, Roles
<1>2. ASSUME NEW c \in Client, LogoutBegin(t, c) PROVE Starts(t)
  <2>1. CASE NoStream(c)
    <3>1. Start(t, "logout", c, None, "logout")
      BY <1>2, <2>1, Zenon DEF LogoutBegin
    <3> QED BY <3>1
  <2>2. CASE ~NoStream(c)
    <3>1. Start(t, "logout", c, current[c], "close")
      BY <1>2, <2>2, Zenon DEF LogoutBegin
    <3>2. /\ Others(t) /\ pc[t] = "idle"
          /\ pc'[t] = "close" /\ who'[t] = c /\ st'[t] = current[c]
          /\ UNCHANGED <<slot, lock, thunk, status, current, npc, nst>>
      BY <3>1
    <3>3. current[c] \in Stream /\ status[current[c]] # "new" /\ Home[current[c]] = c
      BY <1>0, <2>2
    <3> QED BY <3>2, <3>3
  <2> QED BY <2>1, <2>2
<1>3. ASSUME NEW c \in Client, CleanupBegin(t, c) PROVE Starts(t)
  <2>1. CASE NoStream(c)
    <3>1. Start(t, "cleanup", c, None, "cleanup clear")
      BY <1>3, <2>1, Zenon DEF CleanupBegin
    <3> QED BY <3>1
  <2>2. CASE ~NoStream(c)
    <3>1. Start(t, "cleanup", c, current[c], "close")
      BY <1>3, <2>2, Zenon DEF CleanupBegin
    <3>2. /\ Others(t) /\ pc[t] = "idle"
          /\ pc'[t] = "close" /\ who'[t] = c /\ st'[t] = current[c]
          /\ UNCHANGED <<slot, lock, thunk, status, current, npc, nst>>
      BY <3>1
    <3>3. current[c] \in Stream /\ status[current[c]] # "new" /\ Home[current[c]] = c
      BY <1>0, <2>2
    <3> QED BY <3>2, <3>3
  <2> QED BY <2>1, <2>2
<1>4. ASSUME NEW s \in Stream, SubscribeBegin(t, s) PROVE Starts(t)
  <2>1. /\ Start(t, "subscribe", Home[s], s, "install")
        /\ status[s] = "new" /\ \A u \in Thread : st[u] # s
    BY <1>4, Zenon DEF SubscribeBegin
  <2> QED BY <2>1
<1>5. ASSUME NEW s \in Stream, StreamClose(t, s) PROVE Starts(t)
  BY <1>5 DEF StreamClose
<1> QED BY <1>1, <1>2, <1>3, <1>4, <1>5 DEF Begin

\* An SDK thread gets the stream in the slot and keeps it until it leaves.
Delivers(n) ==
  /\ \A m \in Native \ {n} : npc'[m] = npc[m] /\ nst'[m] = nst[m]
  /\ npc'[n] = "loaded" => slot # None /\ nst'[n] = slot
  /\ npc'[n] \notin {"out", "loaded"} => npc[n] # "out" /\ nst'[n] = nst[n]
  /\ UNCHANGED <<slot, lock, thunk, status, current, threads>>

\* Every step of an SDK thread is of that form.
LEMMA DeliverDelivers ==
  ASSUME TypeOK, NEW n \in Native, Deliver(n)
  PROVE  Delivers(n)
<1> USE DEF TypeOK, Delivers, Leave, process, client, streams, threads
<1>1. ASSUME Dispatch(n) PROVE Delivers(n)
  BY <1>1 DEF Dispatch
<1>2. ASSUME Enter(n) PROVE Delivers(n)
  BY <1>2 DEF Enter
<1>3. ASSUME CheckShutting(n) PROVE Delivers(n)
  <2>1. CASE shutting[Home[nst[n]]]
    BY <1>3, <2>1 DEF CheckShutting
  <2>2. CASE ~shutting[Home[nst[n]]]
    BY <1>3, <2>2 DEF CheckShutting
  <2> QED BY <2>1, <2>2
<1>4. ASSUME Delivered(n) PROVE Delivers(n)
  BY <1>4 DEF Delivered
<1> QED BY <1>1, <1>2, <1>3, <1>4 DEF Deliver

-----------------------------------------------------------------------------
(* The invariant is preserved *)

\* The types that the proofs below use.
Shapes == /\ slot \in Stream \cup {None}
          /\ \A c \in Client : thunk[c] \in Stream \cup {None} /\ current[c] \in Stream \cup {None}
          /\ \A t \in Thread : st[t] \in Stream \cup {None}
          /\ \A t \in Thread : op[t] \in {"none", "subscribe", "close", "logout", "cleanup"}
          /\ \A n \in Native : npc[n] \in {"out", "loaded", "entered", "delivering"}
          /\ \A s \in Stream : Home[s] \in Client /\ status[s] \in {"new", "open", "closing", "closed"}
          /\ \A c \in Client : phase[c] \in {"new", "live", "gone"}

\* They follow from the type invariant.
LEMMA TypeShapes == ASSUME TypeOK PROVE Shapes
BY SubscriptionAssumption DEF TypeOK, ThreadTypeOK, Shapes

\* A step of a thread keeps operations on streams of their clients.
LEMMA RolesKept ==
  ASSUME Roles, Shapes, NEW t \in Thread, Starts(t) \/ Moves(t)
  PROVE  Roles'
<1>1. CASE Starts(t)
  BY <1>1 DEF Roles, Starts, Others
<1>2. CASE Moves(t)
  BY <1>2 DEF Roles, Moves, Others
<1> QED BY <1>1, <1>2

\* A step of a thread installs only new streams, each once.
LEMMA OnceKept ==
  ASSUME Roles, InstalledOnce, Shapes, NEW t \in Thread,
         Starts(t) \/ (Moves(t) /\ MovesStatus(t))
  PROVE  InstalledOnce'
<1> USE SubscriptionAssumption DEF Shapes
<1>1. CASE Starts(t)
  <2>0. \A u \in Thread \ {t} : pc'[u] = pc[u] /\ st'[u] = st[u]
    BY <1>1 DEF Starts, Others
  <2>1. (\A u \in Thread : pc[u] = "install" => status[st[u]] = "new")'
    <3> SUFFICES ASSUME NEW u \in Thread, pc'[u] = "install" PROVE status'[st'[u]] = "new"
      OBVIOUS
    <3>1. CASE u = t
      BY <1>1, <3>1 DEF Starts
    <3>2. CASE u # t
      <4>1. status' = status
        BY <1>1 DEF Starts
      <4> QED BY <2>0, <3>2, <4>1 DEF InstalledOnce
    <3> QED BY <3>1, <3>2
  <2>2. (\A u \in Thread : st[u] # None /\ pc[u] # "install" => status[st[u]] # "new")'
    <3> SUFFICES ASSUME NEW u \in Thread, st'[u] # None, pc'[u] # "install"
                 PROVE  status'[st'[u]] # "new"
      OBVIOUS
    <3>1. CASE u = t
      BY <1>1, <3>1 DEF Starts
    <3>2. CASE u # t
      <4>1. status' = status
        BY <1>1 DEF Starts
      <4> QED BY <2>0, <3>2, <4>1 DEF InstalledOnce
    <3> QED BY <3>1, <3>2
  <2>3. (\A u, v \in Thread : pc[u] = "install" /\ pc[v] = "install" /\ st[u] = st[v] => u = v)'
    <3>1. pc'[t] = "install" => \A u \in Thread : st[u] # st'[t]
      BY <1>1 DEF Starts
    <3> QED BY <2>0, <3>1 DEF InstalledOnce
  <2>4. (\A c \in Client : current[c] # None =>
           status[current[c]] # "new" /\ Home[current[c]] = c)'
    BY <1>1 DEF InstalledOnce, Starts
  <2> QED BY <2>1, <2>2, <2>3, <2>4 DEF InstalledOnce
<1>2. CASE Moves(t) /\ MovesStatus(t)
  <2>1. (\A u \in Thread : pc[u] = "install" => status[st[u]] = "new")'
    BY <1>2 DEF Roles, InstalledOnce, Moves, MovesStatus, Installs, Others
  <2>2. (\A u \in Thread : st[u] # None /\ pc[u] # "install" => status[st[u]] # "new")'
    BY <1>2 DEF Roles, InstalledOnce, Moves, MovesStatus, Installs, Others
  <2>3. (\A u, v \in Thread : pc[u] = "install" /\ pc[v] = "install" /\ st[u] = st[v] => u = v)'
    BY <1>2 DEF InstalledOnce, Moves, Others
  <2>4. (\A c \in Client : current[c] # None =>
           status[current[c]] # "new" /\ Home[current[c]] = c)'
    BY <1>2 DEF Roles, InstalledOnce, MovesStatus
  <2> QED BY <2>1, <2>2, <2>3, <2>4 DEF InstalledOnce
<1> QED BY <1>1, <1>2

\* A step of a thread disturbs nobody who waits for callbacks.
LEMMA LockKept ==
  ASSUME DrainsLocked, NEW t \in Thread, Starts(t) \/ (Moves(t) /\ MovesLock(t))
  PROVE  DrainsLocked'
<1>1. CASE Starts(t)
  <2> SUFFICES ASSUME NEW u \in Thread, pc'[u] \in Waiting
               PROVE  /\ lock' = u /\ slot' = None
                      /\ \A n \in Native : npc'[n] = "loaded" => Home[nst'[n]] # who'[u]
    BY DEF DrainsLocked
  <2>1. u # t
    BY <1>1 DEF Starts, Waiting, Draining
  <2>2. /\ pc'[u] = pc[u] /\ who'[u] = who[u]
        /\ lock' = lock /\ slot' = slot /\ npc' = npc /\ nst' = nst
    BY <1>1, <2>1 DEF Starts, Others
  <2> QED BY <2>2 DEF DrainsLocked
<1>2. CASE Moves(t) /\ MovesLock(t)
  <2>1. ASSUME NEW u \in Thread \ {t}, pc'[u] \in Waiting
        PROVE  /\ lock' = u /\ slot' = None
               /\ \A n \in Native : npc'[n] = "loaded" => Home[nst'[n]] # who'[u]
    <3>1. pc'[u] = pc[u] /\ who'[u] = who[u] /\ npc' = npc /\ nst' = nst
      BY <1>2 DEF Moves, Others
    <3>2. lock = u /\ slot = None /\ lock # None /\ pc[t] \notin Waiting
      BY <2>1, <3>1, SubscriptionAssumption DEF DrainsLocked
    <3>3. lock' = u /\ slot' = None
      BY <1>2, <3>2 DEF MovesLock
    <3> QED BY <2>1, <3>1, <3>3 DEF DrainsLocked
  <2>2. ASSUME pc'[t] \in Waiting
        PROVE  /\ lock' = t /\ slot' = None
               /\ \A n \in Native : npc'[n] = "loaded" => Home[nst'[n]] # who'[t]
    <3>1. who'[t] = who[t] /\ npc' = npc /\ nst' = nst
      BY <1>2, <2>2 DEF Moves, Waiting, Draining
    <3> QED BY <1>2, <2>2, <3>1 DEF MovesLock
  <2> QED BY <2>1, <2>2 DEF DrainsLocked
<1> QED BY <1>1, <1>2

\* A step of a thread releases no thunk that may be called.
LEMMA ThunkKept ==
  ASSUME Roles, Shapes, DrainsLocked, ThunkRetained, NEW t \in Thread,
         Starts(t) \/ (Moves(t) /\ MovesThunk(t))
  PROVE  ThunkRetained'
<1> USE SubscriptionAssumption DEF Shapes, ThunkRetained
<1>1. CASE Starts(t)
  BY <1>1 DEF Starts
<1>2. CASE Moves(t) /\ thunk' = thunk /\ slot' \in {slot, None}
  BY <1>2 DEF Moves
<1>3. CASE /\ Moves(t) /\ Installs(t) /\ slot' = st[t]
           /\ thunk[who[t]] = None /\ thunk'[who[t]] = st[t]
           /\ \A c \in Client \ {who[t]} : thunk'[c] = thunk[c]
  BY <1>3 DEF Moves, Installs, Roles
<1>4. CASE /\ Moves(t) /\ pc[t] \in Waiting /\ slot' = slot
           /\ \A n \in Native : npc[n] \in {"entered", "delivering"} => Home[nst[n]] # who[t]
           /\ \A c \in Client \ {who[t]} : thunk'[c] = thunk[c]
  <2>1. /\ slot = None /\ npc' = npc /\ nst' = nst
        /\ \A n \in Native : npc[n] # "out" => nst[n] \in Stream /\ Home[nst[n]] # who[t]
    BY <1>4 DEF Moves, DrainsLocked, Roles
  <2> QED BY <1>4, <2>1
<1> QED BY <1>1, <1>2, <1>3, <1>4 DEF MovesThunk

\* A step of a thread closes no stream whose thunk is retained.
LEMMA GoneKept ==
  ASSUME Roles, InstalledOnce, Shapes, ThunkGone, NEW t \in Thread,
         Starts(t) \/ (Moves(t) /\ MovesStatus(t) /\ MovesThunk(t))
  PROVE  ThunkGone'
<1> USE SubscriptionAssumption DEF Shapes
<1>1. CASE Starts(t)
  <2>1. (\A s \in Stream : status[s] = "closed" => thunk[Home[s]] # s)'
    BY <1>1 DEF ThunkGone, Starts
  <2>2. pc'[t] \notin {"finish", "settle"}
    BY <1>1 DEF Starts
  <2>3. ASSUME NEW u \in Thread, st'[u] # None,
               pc'[u] = "finish" \/ (pc'[u] = "settle" /\ ~failed'[u])
        PROVE  thunk'[Home[st'[u]]] # st'[u]
    <3>1. pc[u] = pc'[u] /\ st[u] = st'[u] /\ failed[u] = failed'[u] /\ thunk' = thunk
      BY <1>1, <2>2, <2>3 DEF Starts, Others
    <3> QED BY <2>3, <3>1 DEF ThunkGone
  <2> QED BY <2>1, <2>3 DEF ThunkGone
<1>2. CASE Moves(t) /\ MovesStatus(t) /\ MovesThunk(t)
  <2>1. \A c \in Client : \/ thunk'[c] \in {thunk[c], None}
                          \/ Installs(t) /\ c = who[t] /\ thunk'[c] = st[t]
    BY <1>2 DEF MovesThunk
  <2>2. ASSUME NEW s \in Stream, status'[s] = "closed" PROVE thunk'[Home[s]] # s
    <3>1. ~Installs(t) \/ s # st[t]
      BY <1>2, <2>2 DEF MovesStatus, InstalledOnce, Installs
    <3>2. thunk[Home[s]] # s
      BY <1>2, <2>2 DEF MovesStatus, ThunkGone
    <3> QED BY <2>1, <3>1, <3>2
  <2>3. ASSUME NEW u \in Thread \ {t}, st'[u] # None,
               pc'[u] = "finish" \/ (pc'[u] = "settle" /\ ~failed'[u])
        PROVE  thunk'[Home[st'[u]]] # st'[u]
    <3>1. /\ pc[u] = pc'[u] /\ st[u] = st'[u] /\ failed[u] = failed'[u]
          /\ st[u] \in Stream
      BY <1>2, <2>3 DEF Moves, Others
    <3>2. thunk[Home[st[u]]] # st[u] /\ status[st[u]] # "new"
      BY <2>3, <3>1 DEF ThunkGone, InstalledOnce
    <3>3. ~Installs(t) \/ st[u] # st[t]
      BY <3>2 DEF InstalledOnce, Installs
    <3> QED BY <2>1, <3>1, <3>2, <3>3
  <2>4. ASSUME st'[t] # None, pc'[t] = "settle", ~failed'[t]
        PROVE  thunk'[Home[st'[t]]] # st'[t]
    BY <1>2, <2>4 DEF Moves, MovesThunk, Roles
  <2>5. ASSUME st'[t] # None, pc'[t] = "finish"
        PROVE  thunk'[Home[st'[t]]] # st'[t]
    BY <1>2, <2>5 DEF Moves, MovesThunk, ThunkGone
  <2> QED BY <2>2, <2>3, <2>4, <2>5 DEF ThunkGone
<1> QED BY <1>1, <1>2

\* A callback that is delivered changes no stream and no operation.
LEMMA DeliverRoles ==
  ASSUME Roles, InstalledOnce, Shapes, NEW n \in Native, Delivers(n)
  PROVE  Roles' /\ InstalledOnce'
<1> USE SubscriptionAssumption DEF Delivers, Shapes, threads
<1>1. Roles'
  BY DEF Roles
<1>2. InstalledOnce'
  BY DEF InstalledOnce
<1> QED BY <1>1, <1>2

\* It leaves the invariant true.
LEMMA DeliverKeeps ==
  ASSUME IInv, NEW n \in Native, Deliver(n)
  PROVE  Roles' /\ InstalledOnce' /\ DrainsLocked' /\ ThunkRetained' /\ ThunkGone'
<1>1. Delivers(n) /\ Shapes
  BY DeliverDelivers, TypeShapes DEF IInv
<1>2. Roles' /\ InstalledOnce'
  BY <1>1, DeliverRoles DEF IInv
<1> USE <1>1, SubscriptionAssumption DEF IInv, Delivers, Shapes, threads
<1>3. ThunkGone'
  BY DEF ThunkGone
<1>4. DrainsLocked'
  BY DEF DrainsLocked
<1>5. ThunkRetained'
  BY DEF ThunkRetained
<1> QED BY <1>2, <1>3, <1>4, <1>5

\* The inductive invariant.
LEMMA Inductive == SdkQuiesces /\ Spec => []IInv
<1>1. SdkQuiesces /\ Init => IInv
  <2> SUFFICES ASSUME SdkQuiesces, Init PROVE IInv
    OBVIOUS
  <2>1. TypeOK
    BY DEF Init, TypeOK, ThreadTypeOK
  <2>2. Roles /\ InstalledOnce /\ DrainsLocked
    BY SubscriptionAssumption DEF Init, Roles, InstalledOnce, DrainsLocked, Waiting, Draining
  <2>3. ThunkRetained /\ ThunkGone
    BY SubscriptionAssumption DEF Init, ThunkRetained, ThunkGone
  <2> QED BY <2>1, <2>2, <2>3 DEF IInv
<1>2. IInv /\ [Next]_vars => IInv'
  <2> SUFFICES ASSUME IInv, [Next]_vars PROVE IInv'
    OBVIOUS
  <2> USE DEF IInv
  <2>1. TypeOK' /\ SdkQuiesces' /\ Shapes
    BY TypeStep, TypeShapes
  <2>2. ASSUME NEW t \in Thread, Begin(t) PROVE IInv'
    BY <2>1, <2>2, BeginStarts, RolesKept, OnceKept, LockKept, ThunkKept, GoneKept
  <2>3. ASSUME NEW t \in Thread, Proceed(t) PROVE IInv'
    <3>1. Moves(t) /\ MovesStatus(t) /\ MovesLock(t) /\ MovesThunk(t)
      BY <2>3, ThreadMoves, StatusMoves, LockMoves, ThunkMoves
    <3> QED BY <2>1, <3>1, RolesKept, OnceKept, LockKept, ThunkKept, GoneKept
  <2>4. ASSUME NEW n \in Native, Deliver(n) PROVE IInv'
    BY <2>1, <2>4, DeliverKeeps
  <2>5. CASE UNCHANGED vars
    BY <2>1, <2>5 DEF vars, process, client, streams, threads, natives, Roles,
       InstalledOnce, DrainsLocked, ThunkRetained, ThunkGone
  <2> QED BY <2>2, <2>3, <2>4, <2>5 DEF Next, Rest
<1> QED BY <1>1, <1>2, PTL DEF Spec

\* Python keeps the thunk as long as the SDK can call it or a call of it runs, through
\* failed clears, timeouts, concurrent closes and cleanups of any number of clients.
THEOREM ThunkCorrect == SdkQuiesces /\ Spec => []ThunkRetained
<1>1. IInv => ThunkRetained
  BY DEF IInv
<1> QED BY Inductive, <1>1, PTL

\* A closed stream gets no callback, whoever closed it and whatever failed before.
THEOREM QuietCorrect == SdkQuiesces /\ Spec => []QuietAfterClose
<1>1. IInv => QuietAfterClose
  BY SubscriptionAssumption DEF IInv, Roles, ThunkRetained, ThunkGone, QuietAfterClose
<1> QED BY Inductive, <1>1, PTL

-----------------------------------------------------------------------------
(* Accounts of the subscriptions *)

SettingUp == {"install", "publish", "register"}
Settling  == {"close clear", "close drain", "settle", "finish"}
Closing   == Settling \cup {"unsubscribe", "reopen"}
Cleaning  == {"cleanup", "cleanup clear", "cleanup drain", "cleanup wait"}

\* The SDK of the client is gone, or a cleanup is on the way to end it.  Nothing undoes that.
Doomed(c) == phase[c] = "gone" \/ \E t \in Thread : op[t] = "cleanup" /\ who[t] = c

\* What thread t does, and to whom.
OperationOf(t) ==
  /\ pc[t] \in SettingUp => op[t] = "subscribe"
  /\ pc[t] = "logout" => op[t] = "logout"
  /\ pc[t] \in Cleaning => op[t] = "cleanup"
  /\ pc[t] = "idle" <=> op[t] = "none"
  /\ pc[t] \in Closing \cup SettingUp \cup {"close"} => st[t] # None
  /\ pc[t] = "finish" => ~failed[t]

\* A client that is not constructed has nothing.
Constructed ==
  /\ \A c \in Client : phase[c] = "new" => handle[c] = "none"
  /\ \A s \in Stream : status[s] # "new" => phase[Home[s]] # "new"
  /\ \A t \in Thread : pc[t] # "idle" => phase[who[t]] # "new"
  /\ \A t \in Thread : pc[t] = "cleanup wait" => phase[who[t]] = "gone"

Operations == Constructed /\ \A t \in Thread : OperationOf(t)

\* The operations that take the session for themselves.
OnIt(t) == op[t] \in {"subscribe", "logout"}

\* The lock of the session: a subscription, or a logout, is alone on it, and the
\* application closes only streams it was given.
SessionAlone ==
  /\ \A t, u \in Thread : OnIt(t) /\ OnIt(u) /\ who[t] = who[u] => t = u
  /\ \A t, u \in Thread : op[t] = "close" /\ op[u] = "subscribe" => st[t] # st[u]

\* One thread closes a stream.
ClosingOnce ==
  /\ \A t \in Thread : pc[t] \in Closing => status[st[t]] = "closing"
  /\ \A t, u \in Thread : pc[t] \in Closing /\ pc[u] \in Closing /\ st[t] = st[u] => t = u

\* A stream that the client does not hold yet is the subscriber's own, and replaces none.
SetupAlone ==
  \A t \in Thread : pc[t] \in {"install", "publish"} =>
    /\ NoStream(who[t])
    /\ \A c \in Client : current[c] # st[t]
    /\ \A u \in Thread : st[u] = st[t] => u = t

Holds(s) == current[Home[s]] = s /\ status[s] \in {"open", "closing"}

\* The client holds the streams that have tokens, or may still get some.
Held ==
  /\ \A t \in Thread : pc[t] = "publish" => status[st[t]] = "open"
  /\ \A t \in Thread : pc[t] = "register" => Holds(st[t]) \/ Doomed(who[t])
  /\ \A s \in Stream : tokens[s] # {} => Holds(s) \/ handle[Home[s]] = "out" \/ Doomed(Home[s])

\* A close that has not failed has unsubscribed everything.
Settled ==
  \A t \in Thread : pc[t] \in Settling /\ ~failed[t] => tokens[st[t]] = {} \/ Doomed(who[t])

\* TokensTruthful, on any session.
TokensKnown ==
  \A c \in Client, h \in Channel :
     h \in subs[c] => \E s \in Stream : Home[s] = c /\ h \in tokens[s]

Accounts == /\ Operations /\ SessionAlone /\ ClosingOnce /\ SetupAlone
            /\ Held /\ Settled /\ TokensKnown

AInv == TypeOK /\ Roles /\ InstalledOnce /\ Accounts

\* A step of t is no step of another thread.
Apart(t) == \A u \in Thread \ {t} :
  pc'[u] = pc[u] /\ op'[u] = op[u] /\ who'[u] = who[u] /\ st'[u] = st[u] /\ failed'[u] = failed[u]

\* How a thread goes on in its operation.
Flow(t) ==
  /\ Apart(t)
  /\ pc[t] # "idle"
  /\ pc'[t] = "idle" => op'[t] = "none" /\ st'[t] = None
  /\ pc'[t] # "idle" => op'[t] = op[t] /\ who'[t] = who[t] /\ st'[t] = st[t]
  /\ pc'[t] # "install"
  /\ pc'[t] = "publish" => pc[t] = "install"
  /\ pc'[t] = "register" => pc[t] \in {"publish", "register"}
  /\ pc'[t] = "close" => pc[t] = "register"
  /\ pc'[t] \in Closing => \/ pc[t] \in Closing
                           \/ pc[t] = "close" /\ pc'[t] = "unsubscribe" /\ status[st[t]] = "open"
  /\ pc'[t] = "logout" => op[t] = "logout"
  /\ pc'[t] \in Cleaning => op[t] = "cleanup" \/ pc[t] \in Cleaning
  /\ pc'[t] = "cleanup wait" => phase'[who[t]] = "gone"
  /\ pc'[t] = "idle" => \/ op[t] # "cleanup" \/ pc[t] \in SettingUp \cup {"logout", "cleanup wait"}
                        \/ phase[who[t]] # "live"
  /\ pc'[t] = "finish" => ~failed'[t]
  /\ pc'[t] \in Settling /\ ~failed'[t] =>
       (pc[t] \in Settling /\ ~failed[t]) \/ (pc[t] = "unsubscribe" /\ tokens'[st[t]] = {})

\* What it does to its stream and to the client's idea of it.
FlowStream(t) ==
  /\ \A s \in Stream : s # st[t] => status'[s] = status[s]
  /\ pc[t] = "install" /\ pc'[t] = "publish" => status'[st[t]] = "open"
  /\ pc[t] = "close" /\ pc'[t] = "unsubscribe" => status'[st[t]] = "closing"
  /\ status'[st[t]] = status[st[t]] \/ (pc[t] = "install" /\ pc'[t] = "publish")
       \/ (pc[t] = "close" /\ pc'[t] = "unsubscribe" /\ status[st[t]] = "open")
       \/ (pc[t] = "reopen" /\ status'[st[t]] = "open" /\ pc'[t] \notin Closing)
       \/ (pc[t] = "finish" /\ status'[st[t]] = "closed" /\ pc'[t] \notin Closing)
  /\ pc[t] = "publish" => current'[who[t]] = st[t]
  /\ \A c \in Client : \/ current'[c] = current[c]
                       \/ pc[t] = "publish" /\ c = who[t]
                       \/ /\ pc[t] = "settle" /\ ~failed[t] /\ c = who[t]
                          /\ current[c] = st[t] /\ current'[c] = None

\* What it does to the subscriptions and their tokens.
FlowTokens(t) ==
  /\ \A s \in Stream : tokens'[s] \subseteq tokens[s] \/ (pc[t] = "register" /\ s = st[t])
  /\ \A s \in Stream, h \in Channel :
       h \in tokens[s] /\ h \in subs'[Home[s]] => h \in tokens'[s]
  /\ \A c \in Client, h \in Channel :
       h \in subs'[c] => h \in subs[c] \/ (pc[t] = "register" /\ c = who[t] /\ h \in tokens'[st[t]])
  /\ \A c \in Client : phase'[c] = phase[c] \/ (phase[c] = "live" /\ phase'[c] = "gone")
  /\ \A c \in Client : handle'[c] = handle[c] \/ (c = who[t] /\ handle'[c] = "out")

Flows(t) == Flow(t) /\ FlowStream(t) /\ FlowTokens(t)

\* How an operation begins.
Opens(t) ==
  /\ Apart(t)
  /\ pc[t] = "idle" /\ pc'[t] \in {"idle", "install", "close", "logout", "cleanup clear"}
  /\ pc'[t] = "idle" => op'[t] = op[t] /\ st'[t] = None
  /\ pc'[t] # "idle" => who'[t] \in Client /\ phase[who'[t]] # "new"
  /\ pc'[t] \in {"install", "close"} => st'[t] \in Stream /\ Home[st'[t]] = who'[t]
  /\ pc'[t] \in {"logout", "cleanup clear"} => st'[t] = None
  /\ pc'[t] = "install" => /\ op'[t] = "subscribe" /\ status[st'[t]] = "new" /\ NoStream(who'[t])
                           /\ \A u \in Thread : st[u] # st'[t]
  /\ pc'[t] = "close" => /\ op'[t] \in {"close", "logout", "cleanup"} /\ status[st'[t]] # "new"
                         /\ op'[t] = "close" \/ current[who'[t]] = st'[t]
  /\ pc'[t] = "logout" => op'[t] = "logout"
  /\ pc'[t] = "cleanup clear" => op'[t] = "cleanup"
  /\ pc'[t] # "idle" /\ op'[t] \in {"subscribe", "logout"} =>
       \A u \in Thread : op[u] \in {"subscribe", "logout"} => who[u] # who'[t]
  /\ op'[t] = "close" => \A u \in Thread : op[u] = "subscribe" => st[u] # st'[t]
  /\ UNCHANGED <<status, current, tokens, subs>>
  /\ \A c \in Client : \/ phase'[c] = phase[c] /\ handle'[c] = handle[c]
                       \/ phase[c] = "new" /\ phase'[c] = "live" /\ handle'[c] = "up"

\* A step of t leaves the other threads alone.
LEMMA StepsApart ==
  ASSUME NEW t \in Thread, Opens(t) \/ Flows(t)
  PROVE  Apart(t)
BY DEF Opens, Flows, Flow

\* A client goes from new to live to gone.
LEMMA PhaseForward ==
  ASSUME NEW t \in Thread, Opens(t) \/ Flows(t), NEW c \in Client
  PROVE  /\ phase[c] # "new" => phase'[c] # "new"
         /\ phase[c] = "gone" => phase'[c] = "gone"
         /\ phase'[c] = "new" => phase[c] = "new"
<1>1. phase'[c] = phase[c] \/ (phase[c] = "live" /\ phase'[c] = "gone")
        \/ (phase[c] = "new" /\ phase'[c] = "live")
  BY DEF Opens, Flows, FlowTokens
<1> QED BY <1>1

\* The SDK that is doomed stays so.
LEMMA StaysDoomed ==
  ASSUME Operations, Shapes, NEW t \in Thread, Opens(t) \/ Flows(t), NEW c \in Client, Doomed(c)
  PROVE  Doomed(c)'
<1>1. CASE phase[c] = "gone"
  BY <1>1, PhaseForward DEF Doomed
<1>2. ASSUME NEW u \in Thread \ {t}, op[u] = "cleanup", who[u] = c PROVE Doomed(c)'
  BY <1>2, StepsApart DEF Apart, Doomed
<1>3. CASE op[t] = "cleanup" /\ who[t] = c /\ phase[c] # "gone"
  <2>0. OperationOf(t) /\ Constructed
    BY DEF Operations
  <2>1. pc[t] # "idle" /\ phase[c] = "live" /\ pc[t] # "cleanup wait"
    BY <1>3, <2>0 DEF OperationOf, Constructed, Shapes
  <2>2. Flows(t)
    BY <2>1 DEF Opens
  <2>3. pc[t] \notin SettingUp \cup {"logout", "cleanup wait"}
    BY <1>3, <2>0, <2>1 DEF OperationOf
  <2>4. pc'[t] # "idle"
    BY <1>3, <2>1, <2>2, <2>3 DEF Flows, Flow
  <2>5. op'[t] = "cleanup" /\ who'[t] = c
    BY <1>3, <2>2, <2>4 DEF Flows, Flow
  <2> QED BY <2>5 DEF Doomed
<1> QED BY <1>1, <1>2, <1>3 DEF Doomed

\* The parts of the invariant, kept by every step of a thread.
LEMMA OperationsKept ==
  ASSUME Operations, Roles, Shapes, NEW t \in Thread, Opens(t) \/ Flows(t)
  PROVE  Operations'
<1>0. Apart(t)
  BY StepsApart
<1>1. ASSUME NEW u \in Thread PROVE OperationOf(u)'
  <2>0. OperationOf(u)
    BY DEF Operations
  <2>1. CASE u # t
    BY <1>0, <2>0, <2>1 DEF Apart, OperationOf
  <2>2. CASE u = t /\ Opens(t)
    BY <2>0, <2>2, SubscriptionAssumption
       DEF Opens, OperationOf, Closing, Settling, SettingUp, Cleaning
  <2>3. CASE u = t /\ Flow(t)
    BY <2>0, <2>3 DEF Flow, OperationOf, Closing, Settling, SettingUp, Cleaning
  <2> QED BY <2>1, <2>2, <2>3 DEF Flows
<1>2. Constructed
  BY DEF Operations
<1>3. ASSUME NEW u \in Thread
      PROVE  /\ pc'[u] # "idle" => phase'[who'[u]] # "new"
             /\ pc'[u] = "cleanup wait" => phase'[who'[u]] = "gone"
  <2>0. pc[u] # "idle" => who[u] \in Client /\ phase[who[u]] # "new"
    BY <1>2 DEF Constructed, Roles
  <2>1. CASE u # t
    BY <1>0, <1>2, <2>0, <2>1, PhaseForward DEF Apart, Constructed
  <2>2. CASE u = t /\ Opens(t)
    <3>1. pc'[t] # "idle" => who'[t] \in Client /\ phase[who'[t]] # "new" /\ pc'[t] # "cleanup wait"
      BY <2>2 DEF Opens
    <3> QED BY <2>2, <3>1, PhaseForward
  <2>3. CASE u = t /\ Flow(t)
    <3>1. /\ pc[t] # "idle" /\ (pc'[t] # "idle" => who'[t] = who[t])
          /\ pc'[t] = "cleanup wait" => phase'[who[t]] = "gone"
      BY <2>3 DEF Flow
    <3> QED BY <2>0, <2>3, <3>1, PhaseForward
  <2> QED BY <2>1, <2>2, <2>3 DEF Flows
<1>4. ASSUME NEW c \in Client, phase'[c] = "new" PROVE handle'[c] = "none"
  <2>1. phase[c] = "new" /\ handle[c] = "none"
    BY <1>2, <1>4, PhaseForward DEF Constructed
  <2>2. CASE Opens(t)
    BY <1>4, <2>1, <2>2 DEF Opens
  <2>3. CASE Flows(t)
    <3>1. pc[t] # "idle"
      BY <2>3 DEF Flows, Flow
    <3>2. c # who[t]
      BY <1>2, <2>1, <3>1 DEF Constructed
    <3> QED BY <2>1, <2>3, <3>2 DEF Flows, FlowTokens
  <2> QED BY <2>2, <2>3
<1>5. ASSUME NEW s \in Stream, status'[s] # "new" PROVE phase'[Home[s]] # "new"
  <2>0. Home[s] \in Client
    BY DEF Shapes
  <2>1. CASE status[s] # "new"
    BY <1>2, <2>0, <2>1, PhaseForward DEF Constructed
  <2>2. CASE Opens(t)
    BY <1>5, <2>1, <2>2 DEF Opens
  <2>3. CASE status[s] = "new" /\ Flows(t)
    <3>1. s = st[t]
      BY <1>5, <2>3 DEF Flows, FlowStream
    <3>2. pc[t] # "idle"
      BY <2>3 DEF Flows, Flow
    <3>3. who[t] = Home[s]
      BY <3>1, SubscriptionAssumption DEF Roles
    <3> QED BY <1>2, <2>0, <3>2, <3>3, PhaseForward DEF Constructed
  <2> QED BY <2>1, <2>2, <2>3
<1>6. Constructed'
  BY <1>3, <1>4, <1>5 DEF Constructed
<1> QED BY <1>1, <1>6 DEF Operations

\* The session stays one operation's.
LEMMA SessionKept ==
  ASSUME Operations, SessionAlone, NEW t \in Thread, Opens(t) \/ Flows(t)
  PROVE  SessionAlone'
<1>0. Apart(t)
  BY StepsApart
<1>1. CASE Opens(t)
  <2>0. op[t] = "none"
    BY <1>1 DEF Opens, Operations, OperationOf
  <2>1. op'[t] \in {"subscribe", "logout"} =>
          \A u \in Thread : op[u] \in {"subscribe", "logout"} => who[u] # who'[t]
    BY <1>1, <2>0 DEF Opens
  <2>2. ASSUME NEW u \in Thread, NEW v \in Thread, OnIt(u)', OnIt(v)', who'[u] = who'[v]
        PROVE  u = v
    BY <1>0, <2>1, <2>2 DEF Apart, SessionAlone, OnIt
  <2>3. op'[t] = "subscribe" => \A u \in Thread : st[u] # st'[t]
    BY <1>1, <2>0 DEF Opens
  <2>4. op'[t] = "close" => \A u \in Thread : op[u] = "subscribe" => st[u] # st'[t]
    BY <1>1 DEF Opens
  <2>5. ASSUME NEW u \in Thread, NEW v \in Thread, op'[u] = "close", op'[v] = "subscribe"
        PROVE  st'[u] # st'[v]
    <3>0. u # v
      BY <2>5
    <3>1. CASE u = t
      BY <1>0, <2>4, <2>5, <3>0, <3>1 DEF Apart
    <3>2. CASE v = t
      BY <1>0, <2>3, <2>5, <3>0, <3>2 DEF Apart
    <3>3. CASE u # t /\ v # t
      BY <1>0, <2>5, <3>3 DEF Apart, SessionAlone
    <3> QED BY <3>1, <3>2, <3>3
  <2> QED BY <2>2, <2>5 DEF SessionAlone
<1>2. CASE Flow(t)
  <2>1. op'[t] = "none" \/ (op'[t] = op[t] /\ who'[t] = who[t] /\ st'[t] = st[t])
    BY <1>2 DEF Flow
  <2>2. \A u \in Thread : op'[u] = "none" \/ (op'[u] = op[u] /\ who'[u] = who[u] /\ st'[u] = st[u])
    BY <1>0, <2>1 DEF Apart
  <2>3. ASSUME NEW u \in Thread, NEW v \in Thread, OnIt(u)', OnIt(v)', who'[u] = who'[v]
        PROVE  u = v
    BY <2>2, <2>3 DEF SessionAlone, OnIt
  <2>4. ASSUME NEW u \in Thread, NEW v \in Thread, op'[u] = "close", op'[v] = "subscribe"
        PROVE  st'[u] # st'[v]
    BY <2>2, <2>4 DEF SessionAlone
  <2> QED BY <2>3, <2>4 DEF SessionAlone
<1> QED BY <1>1, <1>2 DEF Flows

\* A stream is closed by one thread.
LEMMA ClosingKept ==
  ASSUME Operations, ClosingOnce, InstalledOnce, Roles, Shapes, NEW t \in Thread, Opens(t) \/ Flows(t)
  PROVE  ClosingOnce'
<1>0. \A u \in Thread : pc[u] \in Closing => st[u] # None /\ st[u] \in Stream
  BY DEF Operations, OperationOf, Shapes
<1>a. Apart(t)
  BY StepsApart
<1>1. CASE Opens(t)
  <2>1. pc'[t] \notin Closing /\ status' = status
    BY <1>1 DEF Opens, Closing, Settling
  <2> QED BY <1>a, <2>1 DEF Apart, ClosingOnce
<1>2. CASE Flows(t)
  <2>0. /\ pc'[t] \in Closing => \/ pc[t] \in Closing
                                 \/ pc[t] = "close" /\ pc'[t] = "unsubscribe" /\ status[st[t]] = "open"
        /\ pc'[t] # "idle" => st'[t] = st[t]
    BY <1>2 DEF Flows, Flow
  <2>1. ASSUME NEW u \in Thread, u # t, pc[u] \in Closing
        PROVE  /\ status'[st[u]] = "closing"
               /\ pc'[t] \in Closing => st[t] # st[u]
    <3>0. status[st[u]] = "closing" /\ st[u] \in Stream
      BY <1>0, <2>1 DEF ClosingOnce
    <3>1. CASE st[u] # st[t]
      BY <1>2, <3>0, <3>1 DEF Flows, FlowStream
    <3>2. CASE st[u] = st[t]
      <4>1. pc[t] \notin Closing
        BY <2>1, <3>2 DEF ClosingOnce
      <4>2. pc[t] # "install"
        BY <3>0, <3>2 DEF InstalledOnce
      <4>3. status'[st[t]] = status[st[t]]
        BY <1>2, <3>0, <3>2, <4>1, <4>2 DEF Flows, FlowStream, Closing, Settling
      <4> QED BY <2>0, <3>0, <3>2, <4>1, <4>3
    <3> QED BY <3>1, <3>2
  <2>2. ASSUME pc'[t] \in Closing PROVE status'[st[t]] = "closing"
    <3>1. CASE pc[t] \in Closing
      <4>1. status[st[t]] = "closing"
        BY <3>1 DEF ClosingOnce
      <4>2. status'[st[t]] = status[st[t]]
        BY <1>2, <2>2, <3>1 DEF Flows, FlowStream, Closing, Settling
      <4> QED BY <4>1, <4>2
    <3>2. CASE pc[t] = "close" /\ pc'[t] = "unsubscribe"
      BY <1>2, <3>2 DEF Flows, FlowStream
    <3> QED BY <2>0, <2>2, <3>1, <3>2
  <2>3. \A u \in Thread \ {t} : pc'[u] = pc[u] /\ st'[u] = st[u]
    BY <1>a DEF Apart
  <2>4. pc'[t] \in Closing => st'[t] = st[t]
    BY <2>0 DEF Closing, Settling
  <2>5. \A u \in Thread : pc'[u] \in Closing => status'[st'[u]] = "closing"
    BY <2>1, <2>2, <2>3, <2>4
  <2>6. \A u, v \in Thread : pc'[u] \in Closing /\ pc'[v] \in Closing /\ st'[u] = st'[v] => u = v
    BY <2>1, <2>3, <2>4 DEF ClosingOnce
  <2> QED BY <2>5, <2>6 DEF ClosingOnce
<1> QED BY <1>1, <1>2

\* Whoever else is on the stream of a thread that registers is a cleanup.
LEMMA RivalDooms ==
  ASSUME Operations, Roles, SessionAlone, Shapes, NEW t \in Thread, NEW u \in Thread,
         t # u, pc[u] = "register", pc[t] # "idle", st[t] = st[u]
  PROVE  Doomed(who[u])
<1>1. op[u] = "subscribe" /\ st[u] # None /\ op[t] # "none"
  BY DEF Operations, OperationOf, SettingUp
<1>2. who[t] = who[u]
  BY <1>1 DEF Roles
<1>3. op[t] = "cleanup"
  BY <1>1, <1>2 DEF SessionAlone, OnIt, Shapes
<1> QED BY <1>2, <1>3 DEF Doomed

\* A closed stream stays closed.
LEMMA StaysClosed ==
  ASSUME InstalledOnce, ClosingOnce, Shapes, NEW t \in Thread, Opens(t) \/ Flows(t),
         NEW s \in Stream, status[s] = "closed"
  PROVE  status'[s] = "closed"
<1>1. CASE Opens(t)
  BY <1>1 DEF Opens
<1>2. CASE FlowStream(t) /\ s # st[t]
  BY <1>2 DEF FlowStream
<1>3. CASE FlowStream(t) /\ s = st[t]
  <2>1. pc[t] # "install" /\ pc[t] \notin Closing
    BY <1>3 DEF InstalledOnce, ClosingOnce
  <2> QED BY <1>3, <2>1 DEF FlowStream, Closing, Settling
<1> QED BY <1>1, <1>2, <1>3 DEF Flows

\* A stream in the making is its subscriber's own.
LEMMA SetupKept ==
  ASSUME Operations, Roles, InstalledOnce, SessionAlone, ClosingOnce, SetupAlone, Shapes,
         NEW t \in Thread, Opens(t) \/ Flows(t)
  PROVE  SetupAlone'
<1> SUFFICES ASSUME NEW u \in Thread, pc'[u] \in {"install", "publish"}
             PROVE  /\ NoStream(who[u])'
                    /\ \A c \in Client : current'[c] # st'[u]
                    /\ \A v \in Thread : st'[v] = st'[u] => v = u
  BY DEF SetupAlone
<1>a. Apart(t)
  BY StepsApart
<1>1. CASE Opens(t) /\ u = t
  <2>1. /\ status[st'[t]] = "new" /\ NoStream(who'[t]) /\ \A v \in Thread : st[v] # st'[t]
        /\ status' = status /\ current' = current /\ st'[t] \in Stream
    BY <1>1 DEF Opens
  <2>2. NoStream(who[t])'
    BY <2>1 DEF NoStream
  <2>3. \A c \in Client : current'[c] # st'[t]
    BY <2>1, SubscriptionAssumption DEF InstalledOnce
  <2>4. \A v \in Thread : st'[v] = st'[t] => v = t
    BY <1>a, <2>1 DEF Apart
  <2> QED BY <1>1, <2>2, <2>3, <2>4
<1>b. ASSUME u # t
      PROVE  /\ pc[u] \in {"install", "publish"} /\ st'[u] = st[u] /\ who'[u] = who[u]
             /\ NoStream(who[u])
             /\ \A c \in Client : current[c] # st[u]
             /\ \A v \in Thread : st[v] = st[u] => v = u
             /\ op[u] = "subscribe" /\ st[u] # None /\ who[u] \in Client
  <2>1. pc[u] \in {"install", "publish"} /\ st'[u] = st[u] /\ who'[u] = who[u]
    BY <1>a, <1>b DEF Apart
  <2>2. op[u] = "subscribe" /\ st[u] # None
    BY <2>1 DEF Operations, OperationOf, SettingUp
  <2>3. who[u] \in Client
    BY <2>1 DEF Roles
  <2> QED BY <2>1, <2>2, <2>3 DEF SetupAlone
<1>2. CASE Opens(t) /\ u # t
  <2>1. status' = status /\ current' = current
    BY <1>2 DEF Opens
  <2>2. st'[t] # st[u]
    <3>1. CASE pc'[t] \in {"idle", "logout", "cleanup clear"}
      BY <1>b, <1>2, <3>1 DEF Opens
    <3>2. CASE pc'[t] = "install"
      BY <1>2, <3>2 DEF Opens
    <3>3. CASE pc'[t] = "close"
      <4>1. \/ \A w \in Thread : op[w] = "subscribe" => st[w] # st'[t]
            \/ who'[t] \in Client /\ current[who'[t]] = st'[t]
        BY <1>2, <3>3 DEF Opens
      <4> QED BY <1>b, <1>2, <4>1
    <3> QED BY <1>2, <3>1, <3>2, <3>3 DEF Opens
  <2> QED BY <1>a, <1>b, <1>2, <2>1, <2>2 DEF Apart, NoStream
<1>3. CASE Flows(t) /\ u = t
  <2>1. pc[t] = "install" /\ st'[t] = st[t] /\ who'[t] = who[t]
    BY <1>3 DEF Flows, Flow
  <2>2. /\ NoStream(who[t]) /\ (\A c \in Client : current[c] # st[t])
        /\ (\A v \in Thread : st[v] = st[t] => v = t) /\ who[t] \in Client
    BY <2>1 DEF SetupAlone, Roles
  <2>3. \A c \in Client : current'[c] = current[c]
    BY <1>3, <2>1 DEF Flows, FlowStream
  <2>4. \A s \in Stream : s # st[t] => status'[s] = status[s]
    BY <1>3 DEF Flows, FlowStream
  <2>5. NoStream(who[t])'
    BY <2>1, <2>2, <2>3, <2>4 DEF NoStream, Shapes
  <2> QED BY <1>3, <1>a, <2>1, <2>2, <2>3, <2>5 DEF Apart
<1>4. CASE Flows(t) /\ u # t
  <2>1. ASSUME NEW c \in Client
        PROVE  current'[c] \in {current[c], None} \/ (pc[t] = "publish" /\ c = who[t] /\ current'[c] = st[t])
    BY <1>4 DEF Flows, FlowStream
  <2>2. pc[t] = "publish" => st[t] # st[u] /\ who[t] # who[u]
    <3> SUFFICES ASSUME pc[t] = "publish" PROVE st[t] # st[u] /\ who[t] # who[u]
      OBVIOUS
    <3>1. op[t] = "subscribe"
      BY DEF Operations, OperationOf, SettingUp
    <3> QED BY <1>b, <1>4, <3>1 DEF SessionAlone, OnIt
  <2>3. \A c \in Client : current'[c] # st[u]
    BY <1>b, <1>4, <2>1, <2>2
  <2>4. current'[who[u]] # None => status'[current'[who[u]]] = "closed"
    BY <1>b, <1>4, <2>1, <2>2, StaysClosed DEF NoStream, Shapes
  <2>5. st'[t] \in {st[t], None}
    BY <1>4 DEF Flows, Flow
  <2>6. \A v \in Thread : st'[v] = st[u] => v = u
    BY <1>a, <1>b, <1>4, <2>5 DEF Apart
  <2> QED BY <1>b, <1>4, <2>3, <2>4, <2>6 DEF NoStream
<1> QED BY <1>1, <1>2, <1>3, <1>4

\* The client goes on holding a stream, unless a close of it settles or finishes, or
\* another one replaces it.
LEMMA HoldsOn ==
  ASSUME InstalledOnce, SetupAlone, Roles, Shapes, NEW t \in Thread, Opens(t) \/ Flows(t),
         NEW s \in Stream, Holds(s), s = st[t] => pc[t] \notin {"settle", "finish"}
  PROVE  Holds(s)'
<1>1. CASE Opens(t)
  BY <1>1 DEF Opens, Holds
<1>2. CASE FlowStream(t)
  <2>1. current'[Home[s]] = s
    <3>1. CASE current'[Home[s]] = current[Home[s]]
      BY <3>1 DEF Holds
    <3>2. CASE pc[t] = "publish" /\ Home[s] = who[t]
      BY <3>2, SubscriptionAssumption DEF SetupAlone, NoStream, Holds
    <3> QED BY <1>2, <3>1, <3>2 DEF FlowStream, Holds, Shapes
  <2>2. status'[s] \in {"open", "closing"}
    <3>1. CASE s # st[t]
      BY <1>2, <3>1 DEF FlowStream, Holds
    <3>2. CASE s = st[t]
      BY <1>2, <3>2 DEF FlowStream, Holds
    <3> QED BY <3>1, <3>2
  <2> QED BY <2>1, <2>2 DEF Holds
<1> QED BY <1>1, <1>2 DEF Flows

\* A stream with tokens stays held.
LEMMA HeldKept ==
  ASSUME Operations, Roles, InstalledOnce, SessionAlone, SetupAlone, Held, Settled, Shapes,
         NEW t \in Thread, Opens(t) \/ Flows(t)
  PROVE  Held'
<1>a. Apart(t)
  BY StepsApart
<1>1. ASSUME NEW u \in Thread, pc'[u] = "publish" PROVE status'[st'[u]] = "open"
  <2>1. CASE u = t
    <3>1. Flow(t) /\ FlowStream(t)
      BY <1>1, <2>1 DEF Opens, Flows
    <3>2. pc[t] = "install" /\ st'[t] = st[t]
      BY <1>1, <2>1, <3>1 DEF Flow
    <3> QED BY <1>1, <2>1, <3>1, <3>2 DEF FlowStream
  <2>2. CASE u # t
    <3>1. pc[u] = "publish" /\ st'[u] = st[u]
      BY <1>1, <1>a, <2>2 DEF Apart
    <3>2. /\ status[st[u]] = "open" /\ st[t] # st[u] /\ st[u] \in Stream
      BY <2>2, <3>1 DEF Held, SetupAlone, Operations, OperationOf, SettingUp, Shapes
    <3>3. CASE Opens(t)
      BY <3>1, <3>2, <3>3 DEF Opens
    <3>4. CASE FlowStream(t)
      BY <3>1, <3>2, <3>4 DEF FlowStream
    <3> QED BY <3>3, <3>4 DEF Flows
  <2> QED BY <2>1, <2>2
<1>2. ASSUME NEW u \in Thread, pc'[u] = "register" PROVE Holds(st[u])' \/ Doomed(who[u])'
  <2>1. CASE u = t
    <3>1. Flow(t) /\ FlowStream(t) /\ Flows(t)
      BY <1>2, <2>1 DEF Opens, Flows
    <3>2. st'[t] = st[t] /\ who'[t] = who[t] /\ pc[t] \in {"publish", "register"}
      BY <1>2, <2>1, <3>1 DEF Flow
    <3>3. PICK s \in Stream, c \in Client : s = st[t] /\ c = who[t] /\ Home[s] = c
      BY <3>2 DEF Operations, OperationOf, SettingUp, Shapes, Roles
    <3>4. CASE pc[t] = "publish"
      <4>1. current'[c] = s /\ status'[s] = status[s]
        BY <3>1, <3>3, <3>4 DEF FlowStream
      <4>2. status[s] = "open"
        BY <3>3, <3>4 DEF Held
      <4>3. Holds(s)'
        BY <3>3, <4>1, <4>2 DEF Holds
      <4> QED BY <2>1, <3>2, <3>3, <4>3
    <3>5. CASE pc[t] = "register" /\ Holds(s)
      <4>1. Holds(s)'
        BY <3>5, HoldsOn
      <4> QED BY <2>1, <3>2, <3>3, <4>1
    <3>6. CASE Doomed(c)
      <4>1. Doomed(c)'
        BY <3>6, StaysDoomed
      <4> QED BY <2>1, <3>2, <3>3, <4>1
    <3> QED BY <3>2, <3>3, <3>4, <3>5, <3>6 DEF Held
  <2>2. CASE u # t
    <3>1. pc[u] = "register" /\ st'[u] = st[u] /\ who'[u] = who[u]
      BY <1>2, <1>a, <2>2 DEF Apart
    <3>2. PICK s \in Stream, c \in Client : s = st[u] /\ c = who[u]
      BY <3>1 DEF Operations, OperationOf, SettingUp, Shapes, Roles
    <3>3. CASE Doomed(c)
      <4>1. Doomed(c)'
        BY <3>3, StaysDoomed
      <4> QED BY <3>1, <3>2, <4>1
    <3>4. CASE Holds(s) /\ ~Doomed(c)
      <4>1. s = st[t] => pc[t] = "idle"
        BY <2>2, <3>1, <3>2, <3>4, RivalDooms
      <4>2. Holds(s)'
        BY <3>4, <4>1, HoldsOn
      <4> QED BY <3>1, <3>2, <4>2
    <3> QED BY <3>1, <3>2, <3>3, <3>4 DEF Held
  <2> QED BY <2>1, <2>2
<1>3. ASSUME NEW s \in Stream, tokens'[s] # {}
      PROVE  Holds(s)' \/ handle'[Home[s]] = "out" \/ Doomed(Home[s])'
  <2>0. Home[s] \in Client
    BY DEF Shapes
  <2>1. CASE Doomed(Home[s])
    BY <2>0, <2>1, StaysDoomed
  <2>2. CASE handle[Home[s]] = "out"
    <3>1. phase[Home[s]] # "new"
      BY <2>0, <2>2 DEF Operations, Constructed
    <3> QED BY <2>0, <2>2, <3>1 DEF Opens, Flows, FlowTokens
  <2>3. CASE s = st[t] /\ pc[t] = "register"
    <3>1. who[t] = Home[s]
      BY <2>3, SubscriptionAssumption DEF Roles
    <3>2. Holds(s) \/ Doomed(Home[s])
      BY <2>3, <3>1 DEF Held
    <3>3. Holds(s) => Holds(s)'
      BY <2>3, HoldsOn
    <3> QED BY <2>1, <3>2, <3>3
  <2>4. CASE tokens[s] # {} /\ Holds(s) /\ ~Doomed(Home[s])
    <3>1. s = st[t] => pc[t] \notin {"settle", "finish"} \/ failed[t]
      <4> SUFFICES ASSUME s = st[t], pc[t] \in {"settle", "finish"}, ~failed[t] PROVE FALSE
        OBVIOUS
      <4>1. who[t] = Home[s]
        BY SubscriptionAssumption DEF Roles
      <4> QED BY <2>4, <4>1 DEF Settled, Settling
    <3>2. pc[t] = "finish" => ~failed[t]
      BY DEF Operations, OperationOf
    <3>3. CASE pc[t] # "settle" \/ s # st[t]
      BY <2>4, <3>1, <3>2, <3>3, HoldsOn
    <3>4. CASE pc[t] = "settle" /\ s = st[t]
      <4>1. failed[t] /\ FlowStream(t)
        BY <3>1, <3>4 DEF Opens, Flows
      <4>2. current'[Home[s]] = current[Home[s]] /\ status'[s] = status[s]
        BY <2>0, <3>4, <4>1 DEF FlowStream
      <4> QED BY <2>4, <4>2 DEF Holds
    <3> QED BY <3>3, <3>4
  <2>5. tokens[s] # {} \/ (s = st[t] /\ pc[t] = "register")
    BY <1>3 DEF Opens, Flows, FlowTokens
  <2>6. tokens[s] # {} => Holds(s) \/ handle[Home[s]] = "out" \/ Doomed(Home[s])
    BY DEF Held
  <2> QED BY <2>1, <2>2, <2>3, <2>4, <2>5, <2>6
<1> QED BY <1>1, <1>2, <1>3 DEF Held

\* A close that has not failed leaves no token.
LEMMA SettledKept ==
  ASSUME Operations, Roles, SessionAlone, Settled, Shapes,
         NEW t \in Thread, Opens(t) \/ Flows(t)
  PROVE  Settled'
<1> SUFFICES ASSUME NEW u \in Thread, pc'[u] \in Settling, ~failed'[u]
             PROVE  tokens'[st'[u]] = {} \/ Doomed(who[u])'
  BY DEF Settled
<1>a. Apart(t)
  BY StepsApart
<1>1. CASE u # t
  <2>1. pc[u] \in Settling /\ ~failed[u] /\ st'[u] = st[u] /\ who'[u] = who[u]
    BY <1>1, <1>a DEF Apart
  <2>2. PICK s \in Stream, c \in Client : s = st[u] /\ c = who[u]
    BY <2>1 DEF Operations, OperationOf, Closing, Settling, Shapes, Roles
  <2>3. CASE Doomed(c)
    <3>1. Doomed(c)'
      BY <2>3, StaysDoomed
    <3> QED BY <2>1, <2>2, <3>1
  <2>4. CASE tokens[s] = {} /\ ~Doomed(c)
    <3>1. ~(pc[t] = "register" /\ st[t] = st[u])
      <4> SUFFICES ASSUME pc[t] = "register", st[t] = st[u] PROVE FALSE
        OBVIOUS
      <4>1. who[t] = who[u]
        BY <2>2, SubscriptionAssumption DEF Roles
      <4>2. pc[u] # "idle"
        BY <2>1 DEF Settling
      <4> QED BY <1>1, <2>2, <2>4, <4>1, <4>2, RivalDooms
    <3>2. tokens'[s] = {}
      BY <2>2, <2>4, <3>1 DEF Opens, Flows, FlowTokens
    <3> QED BY <2>1, <2>2, <3>2
  <2> QED BY <2>1, <2>2, <2>3, <2>4 DEF Settled
<1>2. CASE u = t
  <2>1. Flows(t)
    BY <1>2 DEF Opens, Settling
  <2>2. /\ st'[t] = st[t] /\ who'[t] = who[t]
        /\ (pc[t] \in Settling /\ ~failed[t]) \/ tokens'[st[t]] = {}
    BY <1>2, <2>1 DEF Flows, Flow, Settling
  <2>3. CASE pc[t] \in Settling /\ ~failed[t]
    <3>1. PICK s \in Stream, c \in Client : s = st[t] /\ c = who[t] /\ pc[t] # "register"
      BY <2>3 DEF Operations, OperationOf, Closing, Settling, Shapes, Roles
    <3>2. CASE Doomed(c)
      <4>1. Doomed(c)'
        BY <3>2, StaysDoomed
      <4> QED BY <1>2, <2>2, <3>1, <4>1
    <3>3. CASE tokens[s] = {}
      <4>1. tokens'[s] = {}
        BY <2>1, <3>1, <3>3 DEF Flows, FlowTokens
      <4> QED BY <1>2, <2>2, <3>1, <4>1
    <3> QED BY <2>3, <3>1, <3>2, <3>3 DEF Settled
  <2> QED BY <1>2, <2>2, <2>3
<1> QED BY <1>1, <1>2

\* The device has no subscription whose token is lost.
LEMMA KnownKept ==
  ASSUME Operations, Roles, TokensKnown, Shapes, NEW t \in Thread, Opens(t) \/ Flows(t)
  PROVE  TokensKnown'
<1> SUFFICES ASSUME NEW c \in Client, NEW h \in Channel, h \in subs'[c]
             PROVE  \E s \in Stream : Home[s] = c /\ h \in tokens'[s]
  BY DEF TokensKnown
<1>1. CASE Opens(t)
  BY <1>1 DEF Opens, TokensKnown
<1>2. CASE Flows(t) /\ h \in subs[c]
  <2>1. PICK s \in Stream : Home[s] = c /\ h \in tokens[s]
    BY <1>2 DEF TokensKnown
  <2> QED BY <1>2, <2>1 DEF Flows, FlowTokens
<1>3. CASE Flows(t) /\ h \notin subs[c]
  <2>1. pc[t] = "register" /\ c = who[t] /\ h \in tokens'[st[t]]
    BY <1>3 DEF Flows, FlowTokens
  <2>2. st[t] \in Stream /\ Home[st[t]] = c
    BY <2>1 DEF Operations, OperationOf, SettingUp, Shapes, Roles
  <2> QED BY <2>1, <2>2
<1> QED BY <1>1, <1>2, <1>3

\* Every operation begins that way.
LEMMA BeginOpens ==
  ASSUME TypeOK, Roles, InstalledOnce, Operations, NEW t \in Thread, Begin(t)
  PROVE  Opens(t)
<1>0. ThreadTypeOK /\ phase \in [Client -> {"new", "live", "gone"}] /\ handle \in [Client -> {"none", "up", "out"}]
  BY DEF TypeOK
<1>h. \A c \in Client : ~NoStream(c) =>
        current[c] \in Stream /\ status[current[c]] # "new" /\ Home[current[c]] = c
  BY HeldStream
<1>c. /\ \A c \in Client : handle[c] = "up" => phase[c] # "new"
      /\ \A s \in Stream : Home[s] \in Client /\ (status[s] # "new" => phase[Home[s]] # "new")
  BY SubscriptionAssumption DEF Operations, Constructed
<1>i. pc[t] = "idle" => st[t] = None
  BY DEF Roles
<1> DEFINE Begun(o, c, s, p) ==
  /\ Apart(t) /\ pc[t] = "idle" /\ pc'[t] = p /\ op'[t] = o /\ who'[t] = c /\ st'[t] = s
  /\ UNCHANGED <<status, current, tokens, subs, phase, handle>>
<1>s. ASSUME NEW o \in {"subscribe", "close", "logout", "cleanup"}, NEW c \in Client, NEW s \in Stream \cup {None},
             NEW p \in {"install", "close", "logout", "cleanup clear"}, Start(t, o, c, s, p)
      PROVE  Begun(o, c, s, p)
  <2>1. UNCHANGED <<status, current, tokens, subs, phase, handle>>
    BY <1>s DEF Start, process, client, streams
  <2>2. pc[t] = "idle" /\ pc'[t] = p /\ op'[t] = o /\ who'[t] = c /\ st'[t] = s
    BY <1>0, <1>s DEF Start, Goto, ThreadTypeOK
  <2>3. Apart(t)
    BY <1>0, <1>s DEF Start, Goto, ThreadTypeOK, Apart
  <2> QED BY <2>1, <2>2, <2>3
<1>1. ASSUME NEW c \in Client, Construct(t, c) PROVE Opens(t)
  <2>1. /\ phase[c] = "new" /\ phase' = [phase EXCEPT ![c] = "live"] /\ handle' = [handle EXCEPT ![c] = "up"]
        /\ UNCHANGED <<status, current, tokens, subs>> /\ pc[t] = "idle"
        /\ pc' = pc /\ op' = op /\ who' = who /\ st' = st /\ failed' = failed
    BY <1>1 DEF Construct, streams, threads
  <2>2. \A d \in Client : \/ phase'[d] = phase[d] /\ handle'[d] = handle[d]
                          \/ phase[d] = "new" /\ phase'[d] = "live" /\ handle'[d] = "up"
    BY <1>0, <2>1
  <2>3. op'[t] = "none"
    BY <2>1 DEF Operations, OperationOf
  <2> QED BY <1>i, <2>1, <2>2, <2>3 DEF Opens, Apart
<1>2. ASSUME NEW c \in Client, LogoutBegin(t, c) PROVE Opens(t)
  <2>0. phase[c] # "new" /\ \A u \in Thread : op[u] \in {"subscribe", "logout"} => who[u] # c
    BY <1>2, <1>c DEF LogoutBegin, OnSession
  <2>1. CASE NoStream(c)
    <3>1. Start(t, "logout", c, None, "logout")
      BY <1>2, <2>1, Zenon DEF LogoutBegin
    <3>2. Begun("logout", c, None, "logout")
      BY <1>s, <3>1
    <3> QED BY <2>0, <3>2 DEF Opens
  <2>2. CASE ~NoStream(c)
    <3>1. Start(t, "logout", c, current[c], "close")
      BY <1>2, <2>2, Zenon DEF LogoutBegin
    <3>2. Begun("logout", c, current[c], "close")
      BY <1>h, <1>s, <2>2, <3>1
    <3> QED BY <1>h, <2>0, <2>2, <3>2 DEF Opens
  <2> QED BY <2>1, <2>2
<1>3. ASSUME NEW c \in Client, CleanupBegin(t, c) PROVE Opens(t)
  <2>0. phase[c] # "new"
    BY <1>3 DEF CleanupBegin
  <2>1. CASE NoStream(c)
    <3>1. Start(t, "cleanup", c, None, "cleanup clear")
      BY <1>3, <2>1, Zenon DEF CleanupBegin
    <3>2. Begun("cleanup", c, None, "cleanup clear")
      BY <1>s, <3>1
    <3> QED BY <2>0, <3>2 DEF Opens
  <2>2. CASE ~NoStream(c)
    <3>1. Start(t, "cleanup", c, current[c], "close")
      BY <1>3, <2>2, Zenon DEF CleanupBegin
    <3>2. Begun("cleanup", c, current[c], "close")
      BY <1>h, <1>s, <2>2, <3>1
    <3> QED BY <1>h, <2>0, <2>2, <3>2 DEF Opens
  <2> QED BY <2>1, <2>2
<1>4. ASSUME NEW s \in Stream, SubscribeBegin(t, s) PROVE Opens(t)
  <2>1. /\ Start(t, "subscribe", Home[s], s, "install") /\ handle[Home[s]] = "up"
        /\ status[s] = "new" /\ (\A u \in Thread : st[u] # s) /\ NoStream(Home[s])
        /\ OnSession(Home[s]) = {}
    BY <1>4, Zenon DEF SubscribeBegin
  <2>2. Begun("subscribe", Home[s], s, "install")
    BY <1>c, <1>s, <2>1
  <2>3. \A u \in Thread : op[u] \in {"subscribe", "logout"} => who[u] # Home[s]
    BY <2>1 DEF OnSession
  <2>4. NoStream(who'[t])
    BY <2>1, <2>2
  <2> QED BY <1>c, <2>1, <2>2, <2>3, <2>4 DEF Opens
<1>5. ASSUME NEW s \in Stream, StreamClose(t, s) PROVE Opens(t)
  <2>1. /\ Start(t, "close", Home[s], s, "close") /\ status[s] # "new"
        /\ \A u \in Thread : ~(op[u] = "subscribe" /\ st[u] = s)
    BY <1>5 DEF StreamClose
  <2>2. Begun("close", Home[s], s, "close")
    BY <1>c, <1>s, <2>1
  <2> QED BY <1>c, <2>1, <2>2 DEF Opens
<1> QED BY <1>1, <1>2, <1>3, <1>4, <1>5 DEF Begin

-----------------------------------------------------------------------------
(* What the steps of an operation do to the accounts *)

\* Where a thread is after a close, and what it goes on with.
Onward(t) ==
  /\ Apart(t)
  /\ \/ op[t] # "cleanup" /\ pc'[t] = "idle" /\ op'[t] = "none" /\ st'[t] = None
     \/ /\ op'[t] = op[t] /\ who'[t] = who[t] /\ st'[t] = st[t]
        /\ \/ op[t] = "cleanup" /\ pc'[t] = "cleanup clear"
           \/ op[t] = "logout" /\ pc'[t] = "logout"

\* A thread whose close is over goes on with what the close was part of.
LEMMA CloseOnward ==
  ASSUME TypeOK, NEW t \in Thread,
         (CloseBegin(t) /\ status[st[t]] # "open") \/ Reopen(t) \/ Finish(t)
  PROVE  Onward(t)
<1> DEFINE Keep(p) == Goto(t, p) /\ UNCHANGED <<op, who, st, failed, todo>>
<1>0. ThreadTypeOK
  BY DEF TypeOK
<1> USE <1>0 DEF ThreadTypeOK, Goto, Apart, Onward
<1>1. \/ Keep("cleanup clear") /\ op[t] = "cleanup"
      \/ Keep("logout") /\ op[t] = "logout"
      \/ Return(t) /\ op[t] # "cleanup"
  BY Zenon DEF CloseBegin, Reopen, Finish, Continue
<1>2. CASE Return(t) /\ op[t] # "cleanup"
  BY <1>2 DEF Return
<1>3. CASE Keep("logout") /\ op[t] = "logout"
  BY <1>3
<1>4. CASE Keep("cleanup clear") /\ op[t] = "cleanup"
  BY <1>4
<1> QED BY <1>1, <1>2, <1>3, <1>4

\* A token goes with its subscription, and stays when the call fails.
LEMMA Unsubscribes ==
  ASSUME TypeOK, Roles, Operations, NEW t \in Thread, Unsubscribe(t)
  PROVE  /\ pc[t] = "unsubscribe" /\ Goto(t, "close clear")
         /\ UNCHANGED <<phase, handle, current, status, op, who, st>>
         /\ \A u \in Thread \ {t} : failed'[u] = failed[u]
         /\ ~failed'[t] => tokens'[st[t]] = {}
         /\ \A s \in Stream : tokens'[s] \subseteq tokens[s]
         /\ \A c \in Client : subs'[c] \subseteq subs[c]
         /\ \A s \in Stream, h \in Channel :
              h \in tokens[s] /\ h \in subs'[Home[s]] => h \in tokens'[s]
<1>1. /\ pc[t] = "unsubscribe" /\ Goto(t, "close clear")
      /\ UNCHANGED <<phase, handle, current, status, op, who, st>>
  BY DEF Unsubscribe, process
<1>2. PICK F \in SUBSET tokens[st[t]] :
        /\ tokens' = [tokens EXCEPT ![st[t]] = F]
        /\ subs' = [subs EXCEPT ![who[t]] = @ \ (tokens[st[t]] \ F)]
        /\ failed' = [failed EXCEPT ![t] = Error(F)]
  BY Zenon DEF Unsubscribe, Kept
<1>3. st[t] \in Stream /\ who[t] \in Client /\ Home[st[t]] = who[t]
  BY <1>1, SubscriptionAssumption
     DEF Operations, OperationOf, Closing, TypeOK, ThreadTypeOK, Roles
<1>4. (\A u \in Thread \ {t} : failed'[u] = failed[u]) /\ (~failed'[t] => F = {})
  BY <1>2 DEF TypeOK, ThreadTypeOK, Error
<1>5. \A s \in Stream : tokens'[s] = IF s = st[t] THEN F ELSE tokens[s]
  BY <1>2 DEF TypeOK
<1>6. \A c \in Client : subs'[c] = IF c = who[t] THEN subs[c] \ (tokens[st[t]] \ F) ELSE subs[c]
  BY <1>2 DEF TypeOK
<1>7. \A s \in Stream : Home[s] \in Client
  BY SubscriptionAssumption
<1> QED BY <1>1, <1>3, <1>4, <1>5, <1>6, <1>7

\* A thread goes on in the order of its operation.
LEMMA ThreadFlows ==
  ASSUME TypeOK, Roles, InstalledOnce, Operations, NEW t \in Thread, Proceed(t)
  PROVE  Flow(t)
<1>0. /\ ThreadTypeOK /\ tokens \in [Stream -> SUBSET Channel]
      /\ phase \in [Client -> {"new", "live", "gone"}]
  BY DEF TypeOK
<1> USE <1>0 DEF ThreadTypeOK, Flow, Apart, Settling, Closing, Cleaning, SettingUp,
        process, client, streams, threads, natives
<1>1. ASSUME InstallFails(t) PROVE Flow(t)
  BY <1>1 DEF InstallFails, Return, Goto
<1>2. ASSUME Install(t) PROVE Flow(t)
  BY <1>2 DEF Install, Goto
<1>3. ASSUME Publish(t) PROVE Flow(t)
  BY <1>3 DEF Publish, Goto
<1>4. ASSUME NEW ch \in Channel, Register(t, ch) PROVE Flow(t)
  BY <1>4 DEF Register
<1>5. ASSUME SetupFails(t) PROVE Flow(t)
  BY <1>5 DEF SetupFails, Goto
<1>6. ASSUME SetupDone(t) PROVE Flow(t)
  BY <1>6 DEF SetupDone, Return, Goto
<1>7. ASSUME CloseBegin(t) PROVE Flow(t)
  <2>1. CASE status[st[t]] = "open"
    <3>1. /\ pc[t] = "close" /\ status' = [status EXCEPT ![st[t]] = "closing"] /\ Goto(t, "unsubscribe")
          /\ UNCHANGED <<op, who, st, failed, todo, process, client, tokens, natives>>
      BY <1>7, <2>1, Zenon DEF CloseBegin
    <3> QED BY <2>1, <3>1 DEF Goto
  <2>2. CASE status[st[t]] # "open"
    <3>1. Onward(t)
      BY <1>7, <2>2, CloseOnward
    <3>2. pc[t] = "close" /\ UNCHANGED <<status, process, client, tokens, natives>>
      BY <1>7, <2>2, Zenon DEF CloseBegin
    <3> QED BY <3>1, <3>2 DEF Onward
  <2> QED BY <2>1, <2>2
<1>8. ASSUME Unsubscribe(t) PROVE Flow(t)
  <2>1. /\ pc[t] = "unsubscribe" /\ Goto(t, "close clear") /\ UNCHANGED <<phase, op, who, st>>
        /\ \A u \in Thread \ {t} : failed'[u] = failed[u]
        /\ ~failed'[t] => tokens'[st[t]] = {}
    BY <1>8, Unsubscribes
  <2> QED BY <2>1 DEF Goto
<1>9. ASSUME ClearFails(t) PROVE Flow(t)
  BY <1>9 DEF ClearFails, Clearing, Cleared, Goto
<1>10. ASSUME Clear(t) PROVE Flow(t)
  BY <1>10 DEF Clear, Clearing, Goto
<1>11. ASSUME NothingToClear(t) PROVE Flow(t)
  BY <1>11 DEF NothingToClear, Goto
<1>12. ASSUME Drained(t) PROVE Flow(t)
  BY <1>12 DEF Drained, Draining, Cleared, Goto
<1>13. ASSUME DrainTimeout(t) PROVE Flow(t)
  BY <1>13 DEF DrainTimeout, Draining, Cleared, Goto
<1>14. ASSUME CloseFails(t) PROVE Flow(t)
  BY <1>14 DEF CloseFails, Goto
<1>15. ASSUME Reopen(t) PROVE Flow(t)
  <2>1. Onward(t)
    BY <1>15, CloseOnward
  <2>2. /\ pc[t] = "reopen" /\ status' = [status EXCEPT ![st[t]] = "open"]
        /\ UNCHANGED <<process, client, tokens, natives>>
    BY <1>15, Zenon DEF Reopen
  <2> QED BY <2>1, <2>2 DEF Onward
<1>16. ASSUME CloseSettles(t) PROVE Flow(t)
  BY <1>16 DEF CloseSettles, Goto
<1>17. ASSUME Finish(t) PROVE Flow(t)
  <2>1. Onward(t)
    BY <1>17, CloseOnward
  <2>2. /\ pc[t] = "finish" /\ status' = [status EXCEPT ![st[t]] = "closed"]
        /\ UNCHANGED <<process, client, tokens, natives>>
    BY <1>17, Zenon DEF Finish
  <2> QED BY <2>1, <2>2 DEF Onward
<1>18. ASSUME Logout(t) PROVE Flow(t)
  BY <1>18 DEF Logout, Return, Goto
<1>19. ASSUME Cleanup(t) PROVE Flow(t)
  <2>1. CASE phase[who[t]] # "live"
    <3>1. /\ pc[t] = "cleanup" /\ Return(t)
          /\ UNCHANGED <<phase, slot, lock, subs, handle, current, streams>>
      BY <1>19, <2>1, Zenon DEF Cleanup
    <3> QED BY <2>1, <3>1 DEF Return, Goto
  <2>2. CASE phase[who[t]] = "live"
    <3>1. /\ pc[t] = "cleanup" /\ phase' = [phase EXCEPT ![who[t]] = "gone"]
          /\ subs' = [d \in Client |-> {}] /\ Goto(t, "cleanup wait")
          /\ UNCHANGED <<handle, current, streams, op, who, st, failed>>
      BY <1>19, <2>2, Zenon DEF Cleanup
    <3> QED BY <2>2, <3>1 DEF Goto, Roles
  <2> QED BY <2>1, <2>2
<1>20. ASSUME CleanupEnd(t) PROVE Flow(t)
  BY <1>20 DEF CleanupEnd, Return, Goto
<1> QED BY <1>1, <1>2, <1>3, <1>4, <1>5, <1>6, <1>7, <1>8, <1>9, <1>10, <1>11, <1>12, <1>13, <1>14, <1>15, <1>16, <1>17, <1>18, <1>19, <1>20
     DEF Proceed

\* A stream changes its status in the hands of the thread that installs or closes it.
LEMMA StreamFlows ==
  ASSUME TypeOK, Roles, InstalledOnce, Operations, NEW t \in Thread, Proceed(t)
  PROVE  FlowStream(t)
<1>0. /\ ThreadTypeOK /\ current \in [Client -> Stream \cup {None}]
      /\ status \in [Stream -> {"new", "open", "closing", "closed"}]
  BY DEF TypeOK
<1>r. pc[t] # "idle" => who[t] \in Client
  BY DEF Roles
<1>s. pc[t] \in {"install", "publish", "register", "close", "unsubscribe", "reopen", "settle", "finish"} =>
        st[t] \in Stream
  BY <1>0 DEF Operations, OperationOf, Closing, Settling, SettingUp, ThreadTypeOK
<1> USE <1>0, <1>r, <1>s DEF ThreadTypeOK, FlowStream, Settling, Closing,
        process, client, streams, threads, natives
<1>1. ASSUME InstallFails(t) PROVE FlowStream(t)
  BY <1>1 DEF InstallFails, Return, Goto
<1>2. ASSUME Install(t) PROVE FlowStream(t)
  BY <1>2 DEF Install, Goto
<1>3. ASSUME Publish(t) PROVE FlowStream(t)
  BY <1>3 DEF Publish, Goto
<1>4. ASSUME NEW ch \in Channel, Register(t, ch) PROVE FlowStream(t)
  BY <1>4 DEF Register
<1>5. ASSUME SetupFails(t) PROVE FlowStream(t)
  BY <1>5 DEF SetupFails, Goto
<1>6. ASSUME SetupDone(t) PROVE FlowStream(t)
  BY <1>6 DEF SetupDone, Return, Goto
<1>7. ASSUME CloseBegin(t) PROVE FlowStream(t)
  <2>1. CASE status[st[t]] = "open"
    <3>1. /\ pc[t] = "close" /\ status' = [status EXCEPT ![st[t]] = "closing"] /\ Goto(t, "unsubscribe")
          /\ UNCHANGED <<op, who, st, failed, todo, process, client, tokens, natives>>
      BY <1>7, <2>1, Zenon DEF CloseBegin
    <3> QED BY <2>1, <3>1 DEF Goto
  <2>2. CASE status[st[t]] # "open"
    <3>1. Onward(t)
      BY <1>7, <2>2, CloseOnward
    <3>2. pc[t] = "close" /\ UNCHANGED <<status, process, client, tokens, natives>>
      BY <1>7, <2>2, Zenon DEF CloseBegin
    <3> QED BY <3>1, <3>2 DEF Onward
  <2> QED BY <2>1, <2>2
<1>8. ASSUME Unsubscribe(t) PROVE FlowStream(t)
  BY <1>8 DEF Unsubscribe, Goto
<1>9. ASSUME ClearFails(t) PROVE FlowStream(t)
  BY <1>9 DEF ClearFails, Clearing, Cleared, Goto
<1>10. ASSUME Clear(t) PROVE FlowStream(t)
  BY <1>10 DEF Clear, Clearing, Goto
<1>11. ASSUME NothingToClear(t) PROVE FlowStream(t)
  BY <1>11 DEF NothingToClear, Goto
<1>12. ASSUME Drained(t) PROVE FlowStream(t)
  BY <1>12 DEF Drained, Draining, Cleared, Goto
<1>13. ASSUME DrainTimeout(t) PROVE FlowStream(t)
  BY <1>13 DEF DrainTimeout, Draining, Cleared, Goto
<1>14. ASSUME CloseFails(t) PROVE FlowStream(t)
  BY <1>14 DEF CloseFails, Goto
<1>15. ASSUME Reopen(t) PROVE FlowStream(t)
  <2>1. Onward(t)
    BY <1>15, CloseOnward
  <2>2. /\ pc[t] = "reopen" /\ status' = [status EXCEPT ![st[t]] = "open"]
        /\ UNCHANGED <<process, client, tokens, natives>>
    BY <1>15, Zenon DEF Reopen
  <2> QED BY <2>1, <2>2 DEF Onward
<1>16. ASSUME CloseSettles(t) PROVE FlowStream(t)
  BY <1>16 DEF CloseSettles, Goto
<1>17. ASSUME Finish(t) PROVE FlowStream(t)
  <2>1. Onward(t)
    BY <1>17, CloseOnward
  <2>2. /\ pc[t] = "finish" /\ status' = [status EXCEPT ![st[t]] = "closed"]
        /\ UNCHANGED <<process, client, tokens, natives>>
    BY <1>17, Zenon DEF Finish
  <2> QED BY <2>1, <2>2 DEF Onward
<1>18. ASSUME Logout(t) PROVE FlowStream(t)
  BY <1>18 DEF Logout, Return, Goto
<1>19. ASSUME Cleanup(t) PROVE FlowStream(t)
  <2>1. CASE phase[who[t]] # "live"
    <3>1. /\ pc[t] = "cleanup" /\ Return(t)
          /\ UNCHANGED <<phase, slot, lock, subs, handle, current, streams>>
      BY <1>19, <2>1, Zenon DEF Cleanup
    <3> QED BY <2>1, <3>1 DEF Return, Goto
  <2>2. CASE phase[who[t]] = "live"
    <3>1. /\ pc[t] = "cleanup" /\ phase' = [phase EXCEPT ![who[t]] = "gone"]
          /\ subs' = [d \in Client |-> {}] /\ Goto(t, "cleanup wait")
          /\ UNCHANGED <<handle, current, streams, op, who, st, failed>>
      BY <1>19, <2>2, Zenon DEF Cleanup
    <3> QED BY <2>2, <3>1 DEF Goto, Roles
  <2> QED BY <2>1, <2>2
<1>20. ASSUME CleanupEnd(t) PROVE FlowStream(t)
  BY <1>20 DEF CleanupEnd, Return, Goto
<1> QED BY <1>1, <1>2, <1>3, <1>4, <1>5, <1>6, <1>7, <1>8, <1>9, <1>10, <1>11, <1>12, <1>13, <1>14, <1>15, <1>16, <1>17, <1>18, <1>19, <1>20
     DEF Proceed

\* A subscription comes with its token and goes before it.
LEMMA TokenFlows ==
  ASSUME TypeOK, Roles, InstalledOnce, Operations, NEW t \in Thread, Proceed(t)
  PROVE  FlowTokens(t)
<1>0. /\ ThreadTypeOK /\ tokens \in [Stream -> SUBSET Channel] /\ subs \in [Client -> SUBSET Channel]
      /\ phase \in [Client -> {"new", "live", "gone"}] /\ handle \in [Client -> {"none", "up", "out"}]
  BY DEF TypeOK
<1>r. pc[t] # "idle" => who[t] \in Client
  BY DEF Roles
<1>s. pc[t] \in {"register", "unsubscribe"} => st[t] \in Stream /\ Home[st[t]] = who[t]
  BY <1>0, SubscriptionAssumption DEF Operations, OperationOf, Closing, Settling, SettingUp, ThreadTypeOK, Roles
<1> USE <1>0, <1>r, <1>s, SubscriptionAssumption DEF ThreadTypeOK, FlowTokens,
        process, client, streams, threads, natives
<1>1. ASSUME InstallFails(t) PROVE FlowTokens(t)
  BY <1>1 DEF InstallFails, Return, Goto
<1>2. ASSUME Install(t) PROVE FlowTokens(t)
  BY <1>2 DEF Install, Goto
<1>3. ASSUME Publish(t) PROVE FlowTokens(t)
  BY <1>3 DEF Publish, Goto
<1>4. ASSUME NEW ch \in Channel, Register(t, ch) PROVE FlowTokens(t)
  BY <1>4 DEF Register
<1>5. ASSUME SetupFails(t) PROVE FlowTokens(t)
  BY <1>5 DEF SetupFails, Goto
<1>6. ASSUME SetupDone(t) PROVE FlowTokens(t)
  BY <1>6 DEF SetupDone, Return, Goto
<1>7. ASSUME CloseBegin(t) PROVE FlowTokens(t)
  <2>1. CASE status[st[t]] = "open"
    <3>1. /\ pc[t] = "close" /\ status' = [status EXCEPT ![st[t]] = "closing"] /\ Goto(t, "unsubscribe")
          /\ UNCHANGED <<op, who, st, failed, todo, process, client, tokens, natives>>
      BY <1>7, <2>1, Zenon DEF CloseBegin
    <3> QED BY <2>1, <3>1 DEF Goto
  <2>2. CASE status[st[t]] # "open"
    <3>1. Onward(t)
      BY <1>7, <2>2, CloseOnward
    <3>2. pc[t] = "close" /\ UNCHANGED <<status, process, client, tokens, natives>>
      BY <1>7, <2>2, Zenon DEF CloseBegin
    <3> QED BY <3>1, <3>2 DEF Onward
  <2> QED BY <2>1, <2>2
<1>8. ASSUME Unsubscribe(t) PROVE FlowTokens(t)
  BY <1>8, Unsubscribes
<1>9. ASSUME ClearFails(t) PROVE FlowTokens(t)
  BY <1>9 DEF ClearFails, Clearing, Cleared, Goto
<1>10. ASSUME Clear(t) PROVE FlowTokens(t)
  BY <1>10 DEF Clear, Clearing, Goto
<1>11. ASSUME NothingToClear(t) PROVE FlowTokens(t)
  BY <1>11 DEF NothingToClear, Goto
<1>12. ASSUME Drained(t) PROVE FlowTokens(t)
  BY <1>12 DEF Drained, Draining, Cleared, Goto
<1>13. ASSUME DrainTimeout(t) PROVE FlowTokens(t)
  BY <1>13 DEF DrainTimeout, Draining, Cleared, Goto
<1>14. ASSUME CloseFails(t) PROVE FlowTokens(t)
  BY <1>14 DEF CloseFails, Goto
<1>15. ASSUME Reopen(t) PROVE FlowTokens(t)
  <2>1. Onward(t)
    BY <1>15, CloseOnward
  <2>2. /\ pc[t] = "reopen" /\ status' = [status EXCEPT ![st[t]] = "open"]
        /\ UNCHANGED <<process, client, tokens, natives>>
    BY <1>15, Zenon DEF Reopen
  <2> QED BY <2>1, <2>2 DEF Onward
<1>16. ASSUME CloseSettles(t) PROVE FlowTokens(t)
  BY <1>16 DEF CloseSettles, Goto
<1>17. ASSUME Finish(t) PROVE FlowTokens(t)
  <2>1. Onward(t)
    BY <1>17, CloseOnward
  <2>2. /\ pc[t] = "finish" /\ status' = [status EXCEPT ![st[t]] = "closed"]
        /\ UNCHANGED <<process, client, tokens, natives>>
    BY <1>17, Zenon DEF Finish
  <2> QED BY <2>1, <2>2 DEF Onward
<1>18. ASSUME Logout(t) PROVE FlowTokens(t)
  BY <1>18 DEF Logout, Return, Goto
<1>19. ASSUME Cleanup(t) PROVE FlowTokens(t)
  <2>1. CASE phase[who[t]] # "live"
    <3>1. /\ pc[t] = "cleanup" /\ Return(t)
          /\ UNCHANGED <<phase, slot, lock, subs, handle, current, streams>>
      BY <1>19, <2>1, Zenon DEF Cleanup
    <3> QED BY <2>1, <3>1 DEF Return, Goto
  <2>2. CASE phase[who[t]] = "live"
    <3>1. /\ pc[t] = "cleanup" /\ phase' = [phase EXCEPT ![who[t]] = "gone"]
          /\ subs' = [d \in Client |-> {}] /\ Goto(t, "cleanup wait")
          /\ UNCHANGED <<handle, current, streams, op, who, st, failed>>
      BY <1>19, <2>2, Zenon DEF Cleanup
    <3> QED BY <2>2, <3>1 DEF Goto, Roles
  <2> QED BY <2>1, <2>2
<1>20. ASSUME CleanupEnd(t) PROVE FlowTokens(t)
  BY <1>20 DEF CleanupEnd, Return, Goto
<1> QED BY <1>1, <1>2, <1>3, <1>4, <1>5, <1>6, <1>7, <1>8, <1>9, <1>10, <1>11, <1>12, <1>13, <1>14, <1>15, <1>16, <1>17, <1>18, <1>19, <1>20
     DEF Proceed

\* Every step of an operation goes on in that way.
LEMMA ProceedFlows ==
  ASSUME TypeOK, Roles, InstalledOnce, Operations, NEW t \in Thread, Proceed(t)
  PROVE  Flows(t)
BY ThreadFlows, StreamFlows, TokenFlows DEF Flows

-----------------------------------------------------------------------------
(* The accounts are kept *)

\* What the accounts are about.
accounted == <<phase, handle, subs, current, status, tokens, threads>>

\* The accounts are left alone by the SDK threads.
LEMMA DeliverAccounts ==
  ASSUME NEW n \in Native, Deliver(n)
  PROVE  UNCHANGED accounted
BY Zenon DEF Deliver, Dispatch, Enter, CheckShutting, Delivered, accounted, process, client, streams

\* Nothing changes in them.
LEMMA StillAccounted ==
  ASSUME Accounts, UNCHANGED accounted
  PROVE  Accounts'
<1> USE DEF accounted, threads
<1>d. \A c \in Client : Doomed(c)' <=> Doomed(c)
  BY DEF Doomed
<1>h. \A s \in Stream : Holds(s)' <=> Holds(s)
  BY DEF Holds
<1>1. Operations'
  BY DEF Accounts, Operations, Constructed, OperationOf
<1>2. SessionAlone' /\ ClosingOnce'
  BY DEF Accounts, SessionAlone, OnIt, ClosingOnce
<1>3. SetupAlone'
  BY DEF Accounts, SetupAlone, NoStream
<1>4. Held'
  BY DEF Accounts, Held, Holds, Doomed
<1>5. Settled' /\ TokensKnown'
  BY DEF Accounts, Settled, Doomed, TokensKnown
<1> QED BY <1>1, <1>2, <1>3, <1>4, <1>5 DEF Accounts

\* Nothing is promised before the first client is constructed.
LEMMA AccountsBegin == Init => AInv
<1> SUFFICES ASSUME Init PROVE AInv
  OBVIOUS
<1>1. TypeOK
  BY DEF Init, TypeOK, ThreadTypeOK
<1>2. Roles /\ InstalledOnce
  BY SubscriptionAssumption DEF Init, Roles, InstalledOnce
<1>3. Operations /\ SessionAlone
  BY SubscriptionAssumption
     DEF Init, Operations, Constructed, OperationOf, SessionAlone, OnIt, Closing, Settling, SettingUp, Cleaning
<1>4. ClosingOnce /\ SetupAlone /\ Held /\ Settled /\ TokensKnown
  BY DEF Init, ClosingOnce, Closing, Settling, SetupAlone, Held, Settled, TokensKnown
<1> QED BY <1>1, <1>2, <1>3, <1>4 DEF AInv, Accounts

\* The accounts are kept by every step, whether or not the SDK waits for its calls.
LEMMA AccountsStep == AInv /\ [Next]_vars => AInv'
<1> SUFFICES ASSUME AInv, [Next]_vars PROVE AInv'
  OBVIOUS
<1>0. /\ TypeOK /\ Roles /\ InstalledOnce /\ Accounts /\ Operations /\ SessionAlone /\ ClosingOnce
      /\ SetupAlone /\ Held /\ Settled /\ TokensKnown
  BY DEF AInv, Accounts
<1>1. TypeOK' /\ Shapes
  BY <1>0, TypeStep, TypeShapes
<1>2. ASSUME NEW t \in Thread, Opens(t) \/ Flows(t) PROVE Accounts'
  BY <1>0, <1>1, <1>2, OperationsKept, SessionKept, ClosingKept, SetupKept, HeldKept, SettledKept, KnownKept
     DEF Accounts
<1>3. ASSUME NEW t \in Thread, Begin(t) PROVE AInv'
  <2>1. Starts(t) /\ Opens(t)
    BY <1>0, <1>3, BeginStarts, BeginOpens
  <2>2. Roles' /\ InstalledOnce'
    BY <1>0, <1>1, <2>1, RolesKept, OnceKept
  <2> QED BY <1>1, <1>2, <2>1, <2>2 DEF AInv
<1>4. ASSUME NEW t \in Thread, Proceed(t) PROVE AInv'
  <2>1. Moves(t) /\ MovesStatus(t) /\ Flows(t)
    BY <1>0, <1>4, ThreadMoves, StatusMoves, ProceedFlows
  <2>2. Roles' /\ InstalledOnce'
    BY <1>0, <1>1, <2>1, RolesKept, OnceKept
  <2> QED BY <1>1, <1>2, <2>1, <2>2 DEF AInv
<1>5. ASSUME NEW n \in Native, Deliver(n) PROVE AInv'
  <2>1. Accounts'
    BY <1>0, <1>5, DeliverAccounts, StillAccounted
  <2>2. Roles' /\ InstalledOnce'
    BY <1>0, <1>1, <1>5, DeliverDelivers, DeliverRoles
  <2> QED BY <1>1, <2>1, <2>2 DEF AInv
<1>6. CASE UNCHANGED vars
  <2>1. Accounts'
    BY <1>0, <1>6, StillAccounted DEF accounted, vars, process, client, streams
  <2>2. Roles' /\ InstalledOnce'
    BY <1>0, <1>6 DEF vars, process, client, streams, threads, natives, Roles, InstalledOnce
  <2> QED BY <1>1, <2>1, <2>2 DEF AInv
<1> QED BY <1>3, <1>4, <1>5, <1>6 DEF Next, Rest

\* Every subscription on the device has its token in a stream of its session, and a stream
\* with tokens is held by the session or an operation is on the way: for every number of
\* clients, streams and threads, and on an SDK that does not wait for its calls as well.
THEOREM AccountedCorrect == Spec => []SubscriptionsAccounted
<1>1. AInv => SubscriptionsAccounted
  <2> SUFFICES ASSUME AInv PROVE SubscriptionsAccounted
    OBVIOUS
  <2>1. TypeOK /\ Shapes /\ TokensKnown /\ Held
    BY TypeShapes DEF AInv, Accounts
  <2>2. TokensTruthful
    <3> SUFFICES ASSUME NEW c \in Client, NEW h \in subs[c]
                 PROVE  \E s \in Stream : Home[s] = c /\ h \in tokens[s]
      BY DEF TokensTruthful
    <3>1. h \in Channel
      BY <2>1 DEF TypeOK
    <3> QED BY <2>1, <3>1 DEF TokensKnown
  <2>3. NoOrphanSubscription
    BY <2>1 DEF NoOrphanSubscription, Held, Holds, Doomed, Usable
  <2> QED BY <2>1, <2>2, <2>3 DEF SubscriptionsAccounted
<1> QED BY <1>1, AccountsBegin, AccountsStep, PTL DEF Spec
=============================================================================
