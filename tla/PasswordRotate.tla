---------------------------- MODULE PasswordRotate ----------------------------
(***************************************************************************)
(* rotate_nvr_channel_passwords of workflows/password_rotate.py: give the  *)
(* cameras of an NVR a new password and keep the credential the NVR stores *)
(* for each of them in step.                                               *)
(*                                                                         *)
(* A step is one call to the NVR.  A call may fail; with LostReplies it    *)
(* may also have worked and be reported as failed.  The process may stop   *)
(* between two calls, and the operator runs the workflow again.  The       *)
(* cameras, what the NVR stores and the status it shows, which lags behind,*)
(* are the environment.  A dry run calls nothing and is left out.          *)
(*                                                                         *)
(* A definition marked "mutant" is a wrong version of the one below it and *)
(* takes part in nothing.                                                  *)
(***************************************************************************)
EXTENDS Naturals, FiniteSets

CONSTANTS Camera,       \* the cameras registered as channels
          Scopes,       \* the sets of them a run may be asked to rotate
          Modes,        \* values of include_online a run may be given
          LostReplies,  \* a call that worked may be reported as failed
          Outages,      \* cameras may become unreachable and come back
          NoCamera

ASSUME RotateAssumption ==
  /\ Scopes \subseteq SUBSET Camera
  /\ Modes \subseteq BOOLEAN
  /\ {LostReplies, Outages} \subseteq BOOLEAN
  /\ NoCamera \notin Camera

VARIABLES
  cam,       \* the password each camera has: "old" or "new"
  stored,    \* the one the NVR stores for it: "old", "new" or "other"
  up,        \* the NVR reaches the camera
  shown,     \* the NVR shows the channel online
  phase,     \* where the workflow is
  scope,     \* the candidates of this run
  force,     \* include_online of this run
  offline,   \* the candidates shown offline when the run began
  todo,      \* the channels left in the loop it is in
  cur,       \* the channel it is working on
  outcome,   \* what edit_ipc_password_status returned for it
  attempted, \* pass_a_attempted
  status,    \* the status in the results, by channel
  report     \* how the run ended: "none", "done", "error" or "raised"

nvr      == <<cam, stored, up, shown>>
progress == <<phase, scope, force, offline, todo, cur, outcome, attempted>>
results  == <<status, report>>
rotate   == <<nvr, progress, results>>

\* The NVR can talk to the camera.
Auth(c)   == up[c] /\ stored[c] = cam[c]
Online    == [c \in Camera |-> Auth(c)]

Settled == /\ phase = "idle"
           /\ scope = {} /\ offline = {} /\ todo = {} /\ attempted = {}
           /\ force = FALSE /\ cur = NoCamera /\ outcome = "none"
           /\ status = [c \in Camera |-> "none"]
           /\ report = "none"

RotateInit == /\ cam \in [Camera -> {"old", "new"}]
              /\ stored \in [Camera -> {"old", "new", "other"}]
              /\ up = [c \in Camera |-> TRUE]
              /\ shown = Online
              /\ Settled

-----------------------------------------------------------------------------
(* The environment *)

\* The NVR polls its channels.
Refresh(c) ==
  /\ shown' = [shown EXCEPT ![c] = Auth(c)]
  /\ UNCHANGED <<cam, stored, up, progress, results>>

Outage(c) ==
  /\ Outages
  /\ up' = [up EXCEPT ![c] = ~@]
  /\ UNCHANGED <<cam, stored, shown, progress, results>>

\* update_device_credentials: the NVR stores password p for c, or fails, and
\* may have stored it even so.
Stores(c, p)      == stored' = [stored EXCEPT ![c] = p]
StoreFails(c, p)  == UNCHANGED stored \/ (LostReplies /\ Stores(c, p))

\* editIPChlPassword: the NVR changes the password of a camera it can talk to.
Changes(c) == /\ Auth(c)
              /\ cam[c] # "new"
              /\ cam' = [cam EXCEPT ![c] = "new"]
ChangeFails(c) == UNCHANGED cam \/ (LostReplies /\ Changes(c))

\* A camera that has the new password already says so.
SaysAlreadySet(c) == Auth(c) /\ cam[c] = "new" /\ UNCHANGED cam

-----------------------------------------------------------------------------
(* The workflow *)

In(p)       == phase = p
Becomes(p)  == phase' = p
Note(c, s)  == status' = [status EXCEPT ![c] = s]

\* query_channels asks for the channels and then for the list of those online.
\* An NVR that refuses the second shows none online.
Refused == [c \in Camera |-> FALSE]
Listed  == {shown, Refused}

\* The candidates to work on in the passes A and B.
OfflineAll(S, seen) == S  \* mutant
Offline(S, seen) == {c \in S : ~seen[c]}

\* The run begins: query_channels, and the split by the status it shows.
\* (With nothing to do the loops are empty and the run ends.)
Begin(S, f, seen) ==
  /\ In("idle") /\ Becomes("force")
  /\ scope' = S /\ force' = f
  /\ offline' = Offline(S, seen)
  /\ todo' = IF f THEN {c \in S : seen[c]} ELSE {}
  /\ attempted' = {}
  /\ status' = [c \in Camera |-> IF c \in S /\ seen[c] /\ ~f THEN "already-in-sync" ELSE "none"]
  /\ report' = "none"
  /\ UNCHANGED <<nvr, cur, outcome>>

\* query_channels fails: the result carries the error and no channel.
BeginFails ==
  /\ In("idle")
  /\ scope' = {} /\ status' = [c \in Camera |-> "none"]
  /\ report' = "error"
  /\ UNCHANGED <<nvr, phase, force, offline, todo, cur, outcome, attempted>>

End(r) == /\ Becomes("idle") /\ report' = r
          /\ offline' = {} /\ todo' = {} /\ attempted' = {}
          /\ cur' = NoCamera /\ outcome' = "none"

\* What edit_ipc_password_status says of a camera, as the results name it.
Outcome(c) == IF cam[c] = "new" THEN "already-ours" ELSE "rotated-via-force"

\* _force_rotate_online: change the camera ...
ForceEdit(c) ==
  /\ In("force") /\ c \in todo
  /\ todo' = todo \ {c}
  /\ \/ /\ Changes(c) \/ SaysAlreadySet(c)
        /\ outcome' = Outcome(c)
        /\ cur' = c
        /\ Becomes("force sync")
        /\ UNCHANGED status
     \/ /\ ChangeFails(c)
        /\ Note(c, "failed")
        /\ UNCHANGED <<phase, cur, outcome>>
  /\ UNCHANGED <<stored, up, shown, scope, force, offline, attempted, report>>

\* ... then the credential the NVR stores.
ForceSync ==
  /\ In("force sync") /\ Becomes("force")
  /\ \/ Stores(cur, "new") /\ Note(cur, outcome)
     \/ StoreFails(cur, "new") /\ Note(cur, "failed")
  /\ cur' = NoCamera /\ outcome' = "none"
  /\ UNCHANGED <<cam, up, shown, scope, force, offline, todo, attempted, report>>

ForceDone ==
  /\ In("force") /\ todo = {}
  /\ IF offline = {}
     THEN End("done")
     ELSE /\ Becomes("pass A") /\ todo' = offline
          /\ UNCHANGED <<offline, cur, outcome, attempted, report>>
  /\ UNCHANGED <<nvr, scope, force, status>>

\* Pass A: store the new password for an offline channel.
PassA(c) ==
  /\ In("pass A") /\ c \in todo
  /\ todo' = todo \ {c}
  /\ \/ Stores(c, "new") /\ attempted' = attempted \cup {c} /\ UNCHANGED status
     \/ StoreFails(c, "new") /\ Note(c, "failed") /\ UNCHANGED attempted
  /\ UNCHANGED <<cam, up, shown, phase, scope, force, offline, cur, outcome, report>>

\* The wait is taken to be long enough for the NVR to have polled its channels:
\* the status it shows is what the credentials give.  What is still offline
\* goes to pass B.
StragglersForgotten(S, seen) == {}  \* mutant
Stragglers(S, seen) == {c \in S : ~seen[c]}

Settle(seen) ==
  /\ In("pass A") /\ todo = {}
  /\ Becomes("pass B")
  /\ shown' = Online
  /\ todo' = Stragglers(attempted, seen)
  /\ status' = [c \in Camera |-> IF c \in attempted /\ seen[c]
                                 THEN "synced-via-pass-a" ELSE status[c]]
  /\ UNCHANGED <<cam, stored, up, scope, force, offline, cur, outcome, attempted, report>>

\* The second query_channels fails: WorkflowError, and no result.
SettleFails ==
  /\ In("pass A") /\ todo = {}
  /\ End("raised")
  /\ UNCHANGED <<nvr, scope, force, status>>

\* Pass B: store the old password, so that the NVR can log in ...
PassBOld(c) ==
  /\ In("pass B") /\ cur = NoCamera /\ c \in todo
  /\ todo' = todo \ {c}
  /\ \/ Stores(c, "old") /\ cur' = c /\ UNCHANGED status
     \/ StoreFails(c, "old") /\ Note(c, "failed") /\ UNCHANGED cur
  /\ UNCHANGED <<cam, up, shown, phase, scope, force, offline, outcome, attempted, report>>

\* ... change the camera (one that has the new password already is an error) ...
PassBEdit ==
  /\ In("pass B") /\ cur # NoCamera
  /\ \/ Changes(cur) /\ Becomes("pass B new") /\ UNCHANGED <<cur, status>>
     \/ ChangeFails(cur) /\ Note(cur, "failed") /\ cur' = NoCamera /\ UNCHANGED phase
  /\ UNCHANGED <<stored, up, shown, scope, force, offline, todo, outcome, attempted, report>>

\* ... and store the new one.
NewNotStoredIgnored == "rotated-via-pass-b"  \* mutant
NewNotStored == "failed"

PassBNew ==
  /\ In("pass B new") /\ Becomes("pass B")
  /\ \/ Stores(cur, "new") /\ Note(cur, "rotated-via-pass-b")
     \/ StoreFails(cur, "new") /\ Note(cur, NewNotStored)
  /\ cur' = NoCamera
  /\ UNCHANGED <<cam, up, shown, scope, force, offline, todo, outcome, attempted, report>>

PassBDone ==
  /\ In("pass B") /\ cur = NoCamera /\ todo = {}
  /\ End("done")
  /\ UNCHANGED <<nvr, scope, force, status>>

\* The process stops; what it did stays done.
RotateCrash ==
  /\ ~In("idle")
  /\ End("none")
  /\ UNCHANGED <<nvr, scope, force, status>>

-----------------------------------------------------------------------------
Environment == \E c \in Camera : Refresh(c) \/ Outage(c)

RotateStep == \/ (\E c \in Camera : ForceEdit(c) \/ PassA(c) \/ PassBOld(c))
              \/ ForceSync \/ ForceDone \/ SettleFails
              \/ (\E seen \in {Online, Refused} : Settle(seen))
              \/ PassBEdit \/ PassBNew \/ PassBDone

RotateNext == \/ Environment
              \/ \E S \in Scopes, f \in Modes, seen \in Listed : Begin(S, f, seen)
              \/ BeginFails \/ RotateStep \/ RotateCrash

-----------------------------------------------------------------------------
(* Properties *)

Status == {"none", "already-in-sync", "already-ours", "rotated-via-force",
           "synced-via-pass-a", "rotated-via-pass-b", "failed"}

TypeOK ==
  /\ cam \in [Camera -> {"old", "new"}]
  /\ stored \in [Camera -> {"old", "new", "other"}]
  /\ up \in [Camera -> BOOLEAN] /\ shown \in [Camera -> BOOLEAN]
  /\ phase \in {"idle", "force", "force sync", "pass A", "pass B", "pass B new"}
  /\ {scope, offline, todo, attempted} \subseteq SUBSET Camera
  /\ force \in BOOLEAN
  /\ cur \in Camera \cup {NoCamera}
  /\ outcome \in {"none", "already-ours", "rotated-via-force"}
  /\ status \in [Camera -> Status]
  /\ report \in {"none", "done", "error", "raised"}

OnTarget(c) == cam[c] = "new" /\ stored[c] = "new"

\* A channel whose status says that it was rotated, synced or ours already has
\* the new password, on the camera and in the NVR, whatever failed or was lost
\* on the way.
StatusTruthful ==
  \A c \in Camera :
    status[c] \in {"already-ours", "rotated-via-force", "synced-via-pass-a", "rotated-via-pass-b"}
      => OnTarget(c)

\* A run that reports success, "no per-channel failures", has settled every
\* channel in scope: no straggler is left out of the results.
SuccessMeansDone ==
  report = "done" /\ (\A c \in Camera : status[c] # "failed") =>
     \A c \in scope : OnTarget(c) \/ status[c] = "already-in-sync"

\* The results of a run are true, whatever failed, and when the run crashed.
ResultsTruthful == TypeOK /\ StatusTruthful /\ SuccessMeansDone

\* "already-in-sync: we left it untouched": neither the camera nor the stored
\* credential of a channel that was online changes.
OnlineUntouched ==
  [][\A c \in Camera : status[c] = "already-in-sync" /\ status'[c] = "already-in-sync"
       => cam'[c] = cam[c] /\ stored'[c] = stored[c]]_rotate

\* A step in which something breaks: the workflow stops, a call to the NVR
\* fails that could have worked, or a camera becomes unreachable or comes back.
CouldWork(c) == Auth(c) \/ ~(In("force") \/ (In("pass B") /\ cur = c))
ListRefused == \/ \E S \in Scopes, f \in BOOLEAN : Refused # shown /\ Begin(S, f, Refused)
               \/ Refused # Online /\ Settle(Refused)
Fault == \/ ListRefused \/ BeginFails \/ SettleFails \/ RotateCrash
         \/ \E c \in Camera : CouldWork(c) /\ status[c] # "failed" /\ status'[c] = "failed"
         \/ \E c \in Camera : Outage(c)
=============================================================================
