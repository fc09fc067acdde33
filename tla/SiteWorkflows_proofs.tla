------------------------- MODULE SiteWorkflows_proofs -------------------------
(***************************************************************************)
(* Proofs about PasswordRotate and SiteWorkflows for any cameras, scopes   *)
(* and modes, with or without lost replies and outages, and, in the second *)
(* half, about NvrClient, whose requests the workflows are made of.        *)
(*                                                                         *)
(* A rotation works on one camera after the other; the cameras it has not  *)
(* come to yet (Left) have no status, all others of its scope have one, so *)
(* no later loop spoils what an earlier one has reported.  A subnet change *)
(* knows of each camera of its plan that it is done, failed, or still to   *)
(* be moved; nobody else changes an address.                               *)
(***************************************************************************)
EXTENDS SiteWorkflows, NvrClient, FiniteSetTheorems, SequenceTheorems, TLAPS

\* The statuses that say a camera has the new password.
Good == {"already-ours", "rotated-via-force", "synced-via-pass-a", "rotated-via-pass-b"}

\* The cameras a rotation has still to deal with.
Left ==
  todo \cup (IF phase \in {"force", "force sync"} THEN offline ELSE {})
       \cup (IF phase = "pass A" THEN attempted ELSE {})
       \cup ({cur} \ {NoCamera})

\* The loops work on different cameras, one at a time.
Apart ==
  /\ phase = "idle" => todo = {}
  /\ phase \in {"idle", "force", "pass A"} => cur = NoCamera
  /\ phase \in {"force sync", "pass B new"} => cur # NoCamera
  /\ phase \in {"force", "force sync"} => todo \cap offline = {} /\ attempted = {}
  /\ phase = "pass A" => todo \cap attempted = {}
  /\ cur \notin todo /\ (phase = "force sync" => cur \notin offline)

\* Who has no status yet is still to be dealt with, unless the run was cut short.
Accounted ==
  /\ \A c \in Left : status[c] = "none"
  /\ \A c \in scope : status[c] = "none" => c \in Left \/ (phase = "idle" /\ report # "done")
  /\ report = "done" => phase = "idle"

\* What a camera in the middle of its steps has.
Halfway ==
  /\ phase \in {"force sync", "pass B new"} => cam[cur] = "new"
  /\ phase = "force sync" => outcome # "none"
  /\ phase = "pass A" => \A c \in attempted : stored[c] = "new"

\* The inductive invariant of a rotation.
RInv == TypeOK /\ Apart /\ Accounted /\ Halfway /\ StatusTruthful

\* The state between two runs.
LEMMA Resting ==
  ASSUME TypeOK', phase' = "idle", todo' = {}, cur' = NoCamera,
         \A c \in Camera : status'[c] \in Good => OnTarget(c)',
         report' = "done" => \A c \in scope' : status'[c] # "none"
  PROVE  RInv'
<1>1. Left' = {}
  BY DEF Left
<1>2. Apart'
  BY DEF Apart
<1>3. Accounted'
  BY <1>1 DEF Accounted
<1>4. Halfway'
  BY DEF Halfway
<1>5. StatusTruthful'
  BY DEF StatusTruthful, Good
<1> QED BY <1>2, <1>3, <1>4, <1>5 DEF RInv

\* The NVR polls, a camera goes or comes back, or an address changes.
LEMMA WorldStays ==
  ASSUME RInv, up' \in [Camera -> BOOLEAN], shown' \in [Camera -> BOOLEAN],
         UNCHANGED <<cam, stored, progress, results>>
  PROVE  RInv'
<1>1. TypeOK'
  BY DEF RInv, TypeOK, progress, results
<1>2. Left' = Left
  BY DEF Left, progress
<1>3. Apart' /\ Halfway'
  BY DEF RInv, Apart, Halfway, progress
<1>4. Accounted'
  BY <1>2 DEF RInv, Accounted, progress, results
<1>5. StatusTruthful'
  BY DEF RInv, StatusTruthful, OnTarget, results
<1> QED BY <1>1, <1>3, <1>4, <1>5 DEF RInv

\* A run begins, or cannot list the channels.
LEMMA BeginOK ==
  ASSUME RInv, NEW S \in SUBSET Camera, NEW f \in BOOLEAN, NEW seen \in Listed, Begin(S, f, seen)
  PROVE  RInv'
<1>1. /\ phase = "idle" /\ phase' = "force" /\ scope' = S /\ force' = f
      /\ offline' = {c \in S : ~seen[c]} /\ todo' = (IF f THEN {c \in S : seen[c]} ELSE {})
      /\ attempted' = {} /\ report' = "none" /\ cur' = cur /\ outcome' = outcome
      /\ cam' = cam /\ stored' = stored /\ up' = up /\ shown' = shown
  BY DEF Begin, Offline, In, Becomes, nvr
<1>2. status' = [c \in Camera |-> IF c \in S /\ seen[c] /\ ~f THEN "already-in-sync" ELSE "none"]
  BY DEF Begin
<1>3. cur = NoCamera
  BY <1>1 DEF RInv, Apart
<1>4. Left' = todo' \cup offline'
  BY <1>1, <1>3 DEF Left
<1>5. status' \in [Camera -> Status]
  BY <1>2 DEF Status
<1>6. TypeOK'
  <2>1. {scope, offline, todo, attempted}' \subseteq SUBSET Camera
    BY <1>1
  <2> QED BY <1>1, <1>5, <2>1 DEF RInv, TypeOK
<1>7. Apart'
  BY <1>1, <1>3, RotateAssumption DEF Apart, RotateAssumption
<1>8. Accounted'
  BY <1>1, <1>2, <1>4 DEF Accounted
<1>9. Halfway'
  BY <1>1 DEF Halfway
<1>10. StatusTruthful'
  BY <1>2 DEF StatusTruthful
<1> QED BY <1>6, <1>7, <1>8, <1>9, <1>10 DEF RInv

\* A run that cannot list the channels leaves no result but its error.
LEMMA BeginFailsOK ==
  ASSUME RInv, BeginFails
  PROVE  RInv'
<1>1. /\ phase = "idle" /\ scope' = {} /\ status' = [c \in Camera |-> "none"] /\ report' = "error"
      /\ phase' = phase /\ force' = force /\ offline' = offline /\ todo' = todo /\ cur' = cur
      /\ outcome' = outcome /\ attempted' = attempted
      /\ cam' = cam /\ stored' = stored /\ up' = up /\ shown' = shown
  BY DEF BeginFails, In, nvr
<1>2. todo = {} /\ cur = NoCamera
  BY <1>1 DEF RInv, Apart
<1>3. TypeOK'
  BY <1>1 DEF RInv, TypeOK, Status
<1> QED BY <1>1, <1>2, <1>3, Resting DEF Good

\* A run ends.
LEMMA EndOK ==
  ASSUME RInv, NEW r \in {"done", "raised", "none"}, End(r), UNCHANGED nvr,
         scope' \in SUBSET Camera, force' \in BOOLEAN,
         \/ status' = status /\ scope' = scope
         \/ status' = [c \in Camera |-> "none"] /\ scope' = {},
         r = "done" => \A c \in scope : status[c] # "none"
  PROVE  RInv'
<1>1. /\ phase' = "idle" /\ report' = r /\ offline' = {} /\ todo' = {} /\ attempted' = {}
      /\ cur' = NoCamera /\ outcome' = "none"
      /\ cam' = cam /\ stored' = stored /\ up' = up /\ shown' = shown
  BY DEF End, Becomes, nvr
<1>2. TypeOK'
  BY <1>1 DEF RInv, TypeOK, Status
<1>3. \A c \in Camera : status'[c] \in Good => OnTarget(c)'
  BY <1>1 DEF RInv, StatusTruthful, OnTarget, Good
<1> QED BY <1>1, <1>2, <1>3, Resting

-----------------------------------------------------------------------------
(* The loops *)

\* What a step of a loop is to the other cameras: it deals with c and leaves
\* the rest as they are.
Deals(c) ==
  /\ c \in Left /\ UNCHANGED <<scope, report>> /\ phase' # "idle" /\ phase # "idle"
  /\ \A d \in Camera \ {c} :
       cam'[d] = cam[d] /\ stored'[d] = stored[d] /\ status'[d] = status[d] /\ (d \in Left' <=> d \in Left)
  /\ (c \in Left' /\ status'[c] = "none") \/ (c \notin Left' /\ status'[c] \in Status \ {"none"})
  /\ status'[c] \in Good => OnTarget(c)'

\* Such a step keeps the accounts.
LEMMA DealsOK ==
  ASSUME RInv, NEW c \in Camera, Deals(c), Left' \subseteq Camera, TypeOK'
  PROVE  Accounted' /\ StatusTruthful'
<1>1. Accounted'
  <2>1. \A d \in Left' : status'[d] = "none"
    BY DEF RInv, Accounted, Deals
  <2>2. ASSUME NEW d \in scope', status'[d] = "none" PROVE d \in Left'
    <3>1. d \in Camera
      BY DEF RInv, TypeOK, Deals
    <3> QED BY <2>2, <3>1 DEF RInv, Accounted, Deals, TypeOK
  <2>3. report' # "done"
    BY DEF RInv, Accounted, Deals
  <2> QED BY <2>1, <2>2, <2>3 DEF Accounted
<1>2. StatusTruthful'
  BY DEF RInv, StatusTruthful, Deals, OnTarget, Good
<1> QED BY <1>1, <1>2

\* _force_rotate_online changes one camera, or notes its failure.
LEMMA ForceEditOK ==
  ASSUME RInv, NEW c \in Camera, ForceEdit(c)
  PROVE  RInv' /\ Deals(c)
<1>1. /\ phase = "force" /\ c \in todo /\ todo' = todo \ {c}
      /\ stored' = stored /\ up' = up /\ shown' = shown /\ scope' = scope /\ force' = force
      /\ offline' = offline /\ attempted' = attempted /\ report' = report
  BY DEF ForceEdit, In
<1>2. \/ /\ cam' \in {cam, [cam EXCEPT ![c] = "new"]} /\ cam'[c] = "new"
         /\ outcome' \in {"already-ours", "rotated-via-force"}
         /\ cur' = c /\ phase' = "force sync" /\ status' = status
      \/ /\ cam' \in {cam, [cam EXCEPT ![c] = "new"]}
         /\ status' = [status EXCEPT ![c] = "failed"]
         /\ phase' = phase /\ cur' = cur /\ outcome' = outcome
  BY DEF ForceEdit, Changes, SaysAlreadySet, ChangeFails, Note, Becomes, Outcome, RInv, TypeOK
<1>3. TypeOK'
  <2>1. TypeOK
    BY DEF RInv
  <2>2. cam' \in [Camera -> {"old", "new"}]
    BY <1>2, <2>1 DEF TypeOK
  <2>3. status' \in [Camera -> Status]
    BY <1>2, <2>1 DEF TypeOK, Status
  <2>4. {scope, offline, todo, attempted}' \subseteq SUBSET Camera
    BY <1>1, <2>1 DEF TypeOK
  <2>5. /\ phase' \in {"force", "force sync"} /\ cur' \in Camera \cup {NoCamera}
        /\ outcome' \in {"none", "already-ours", "rotated-via-force"}
    BY <1>1, <1>2, <2>1 DEF TypeOK
  <2> QED BY <1>1, <2>1, <2>2, <2>3, <2>4, <2>5 DEF TypeOK
<1>4. /\ cur = NoCamera /\ todo \cap offline = {} /\ attempted = {}
      /\ todo \subseteq Camera /\ offline \subseteq Camera
      /\ Left = todo \cup offline /\ c # NoCamera
  BY <1>1, RotateAssumption DEF RInv, TypeOK, Apart, Left, RotateAssumption
<1>5. /\ c \in Left /\ status[c] = "none" /\ Left' \subseteq Left /\ Left \ {c} \subseteq Left'
      /\ c \in Left' <=> cur' = c
  BY <1>1, <1>2, <1>4 DEF Left, RInv, Accounted
<1>6. Deals(c)
  <2>1. cam \in [Camera -> {"old", "new"}] /\ status \in [Camera -> Status]
    BY DEF RInv, TypeOK
  <2>2. phase' # "idle" /\ \A d \in Camera \ {c} : cam'[d] = cam[d] /\ status'[d] = status[d]
    BY <1>1, <1>2, <2>1
  <2>3. \/ c \in Left' /\ status'[c] = "none"
        \/ c \notin Left' /\ status'[c] = "failed"
    BY <1>2, <1>4, <1>5, <2>1
  <2> QED BY <1>1, <1>5, <2>2, <2>3 DEF Deals, Status, Good
<1>7. Apart'
  BY <1>1, <1>2, <1>4, RotateAssumption DEF Apart, RotateAssumption
<1>8. Halfway'
  BY <1>1, <1>2 DEF Halfway
<1> QED BY <1>3, <1>4, <1>5, <1>6, <1>7, <1>8, DealsOK DEF RInv

\* ... and the NVR stores its password, or not.
LEMMA ForceSyncOK ==
  ASSUME RInv, NEW c \in Camera, c = cur, ForceSync
  PROVE  RInv' /\ Deals(c)
<1>1. /\ phase = "force sync" /\ phase' = "force" /\ cur' = NoCamera /\ outcome' = "none"
      /\ cam' = cam /\ up' = up /\ shown' = shown /\ scope' = scope /\ force' = force
      /\ offline' = offline /\ todo' = todo /\ attempted' = attempted /\ report' = report
  BY DEF ForceSync, In, Becomes
<1>2. \/ stored' = [stored EXCEPT ![c] = "new"] /\ status' = [status EXCEPT ![c] = outcome]
      \/ /\ stored' \in {stored, [stored EXCEPT ![c] = "new"]}
         /\ status' = [status EXCEPT ![c] = "failed"]
  BY DEF ForceSync, Stores, StoreFails, Note
<1>3. /\ cur \in Camera /\ c \in Left /\ todo \cap offline = {} /\ cur \notin todo \cup offline
      /\ todo \subseteq Camera /\ offline \subseteq Camera /\ attempted = {}
      /\ Left = todo \cup offline \cup {cur} /\ status[cur] = "none"
      /\ cam[cur] = "new" /\ outcome \in {"already-ours", "rotated-via-force"}
  <2>1. TypeOK /\ Apart /\ Accounted /\ Halfway
    BY DEF RInv
  <2>2. cur \in Camera /\ todo \subseteq Camera /\ offline \subseteq Camera
    BY <1>1, <2>1 DEF TypeOK, Apart
  <2>3. todo \cap offline = {} /\ cur \notin todo \cup offline /\ attempted = {}
    BY <1>1, <2>1 DEF Apart
  <2>4. Left = todo \cup offline \cup {cur}
    BY <1>1, <2>2, RotateAssumption DEF Left, RotateAssumption
  <2>5. status[cur] = "none"
    BY <2>1, <2>4 DEF Accounted
  <2>6. cam[cur] = "new" /\ outcome \in {"already-ours", "rotated-via-force"}
    BY <1>1, <2>1 DEF Halfway, TypeOK
  <2> QED BY <2>2, <2>3, <2>4, <2>5, <2>6
<1>4. TypeOK'
  <2>1. TypeOK
    BY DEF RInv
  <2>2. stored' \in [Camera -> {"old", "new", "other"}]
    BY <1>2, <2>1 DEF TypeOK
  <2>3. status' \in [Camera -> Status]
    <3>1. outcome \in Status /\ "failed" \in Status
      BY <1>3 DEF Status
    <3>2. status \in [Camera -> Status]
      BY <2>1 DEF TypeOK
    <3> QED BY <1>2, <3>1, <3>2
  <2> QED BY <1>1, <1>3, <2>1, <2>2, <2>3 DEF TypeOK
<1>5. Left' = todo \cup offline
  BY <1>1 DEF Left
<1>6. Deals(c)
  <2>1. stored \in [Camera -> {"old", "new", "other"}] /\ status \in [Camera -> Status]
    BY DEF RInv, TypeOK
  <2>2. \A d \in Camera \ {c} : stored'[d] = stored[d] /\ status'[d] = status[d]
    BY <1>2, <1>3, <2>1
  <2>3. status'[c] = "failed" \/ (status'[c] = outcome /\ stored'[c] = "new")
    BY <1>2, <1>3, <2>1
  <2>4. c \notin Left' /\ \A d \in Camera \ {c} : d \in Left' <=> d \in Left
    BY <1>3, <1>5
  <2> QED BY <1>1, <1>3, <2>2, <2>3, <2>4 DEF Deals, Status, Good, OnTarget
<1>7. Apart'
  BY <1>1, <1>3, RotateAssumption DEF Apart, RotateAssumption
<1>8. Halfway'
  BY <1>1 DEF Halfway
<1> QED BY <1>3, <1>4, <1>5, <1>6, <1>7, <1>8, DealsOK DEF RInv

\* The next loop begins, or the run ends.
LEMMA ForceDoneOK ==
  ASSUME RInv, ForceDone
  PROVE  RInv'
<1>1. /\ phase = "force" /\ todo = {} /\ UNCHANGED <<nvr, scope, force, status>>
  BY DEF ForceDone, In
<1>2. cur = NoCamera /\ offline \subseteq Camera /\ Left = offline
  BY <1>1 DEF RInv, TypeOK, Apart, Left
<1>3. CASE offline = {}
  <2>1. End("done")
    BY <1>3 DEF ForceDone
  <2>2. \A c \in scope : status[c] # "none"
    BY <1>1, <1>2, <1>3 DEF RInv, Accounted
  <2> QED BY <1>1, <2>1, <2>2, EndOK DEF RInv, TypeOK
<1>4. CASE offline # {}
  <2>1. /\ phase' = "pass A" /\ todo' = offline /\ offline' = offline /\ cur' = cur
        /\ outcome' = outcome /\ attempted' = attempted /\ report' = report
    BY <1>4 DEF ForceDone, Becomes
  <2>2. /\ attempted = {} /\ cam' = cam /\ stored' = stored /\ up' = up /\ shown' = shown
        /\ scope' = scope /\ force' = force /\ status' = status
    BY <1>1 DEF RInv, Apart, nvr
  <2>3. TypeOK'
    BY <1>2, <2>1, <2>2 DEF RInv, TypeOK
  <2>4. Left' = Left
    BY <1>1, <1>2, <2>1, <2>2 DEF Left
  <2>5. Accounted'
    BY <1>1, <2>1, <2>2, <2>4 DEF RInv, Accounted
  <2>6. Apart'
    BY <1>2, <2>1, <2>2, RotateAssumption DEF Apart, RotateAssumption
  <2>7. Halfway' /\ StatusTruthful'
    BY <2>1, <2>2 DEF RInv, Halfway, StatusTruthful, OnTarget
  <2> QED BY <2>3, <2>5, <2>6, <2>7 DEF RInv
<1> QED BY <1>3, <1>4

\* Pass A stores the new password for one channel, or notes its failure.
LEMMA PassAOK ==
  ASSUME RInv, NEW c \in Camera, PassA(c)
  PROVE  RInv' /\ Deals(c)
<1>1. /\ phase = "pass A" /\ phase' = phase /\ c \in todo /\ todo' = todo \ {c}
      /\ cam' = cam /\ up' = up /\ shown' = shown /\ scope' = scope /\ force' = force
      /\ offline' = offline /\ cur' = cur /\ outcome' = outcome /\ report' = report
  BY DEF PassA, In
<1>2. \/ /\ stored' = [stored EXCEPT ![c] = "new"] /\ attempted' = attempted \cup {c}
         /\ status' = status
      \/ /\ stored' \in {stored, [stored EXCEPT ![c] = "new"]} /\ attempted' = attempted
         /\ status' = [status EXCEPT ![c] = "failed"]
  BY DEF PassA, Stores, StoreFails, Note
<1>3. /\ cur = NoCamera /\ todo \cap attempted = {} /\ todo \subseteq Camera /\ attempted \subseteq Camera
      /\ Left = todo \cup attempted
  BY <1>1 DEF RInv, TypeOK, Apart, Left
<1>4. c \in Left /\ status[c] = "none" /\ c \notin attempted
  BY <1>1, <1>3 DEF RInv, Accounted
<1>5. Left' = todo' \cup attempted'
  BY <1>1, <1>3 DEF Left
<1>6. stored \in [Camera -> {"old", "new", "other"}] /\ status \in [Camera -> Status]
  BY DEF RInv, TypeOK
<1>7. TypeOK'
  <2>1. stored' \in [Camera -> {"old", "new", "other"}]
    BY <1>2, <1>6
  <2>2. status' \in [Camera -> Status]
    BY <1>2, <1>6 DEF Status
  <2>3. {scope, offline, todo, attempted}' \subseteq SUBSET Camera
    <3>1. scope' \in SUBSET Camera /\ offline' \in SUBSET Camera
      BY <1>1 DEF RInv, TypeOK
    <3>2. todo' \in SUBSET Camera /\ attempted' \in SUBSET Camera
      BY <1>1, <1>2, <1>3
    <3> QED BY <3>1, <3>2
  <2> QED BY <1>1, <2>1, <2>2, <2>3 DEF RInv, TypeOK
<1>8. Deals(c)
  <2>1. \A d \in Camera \ {c} : stored'[d] = stored[d] /\ status'[d] = status[d]
    BY <1>2, <1>6
  <2>2. \A d \in Camera \ {c} : d \in Left' <=> d \in Left
    BY <1>1, <1>2, <1>3, <1>5
  <2>3. \/ c \in Left' /\ status'[c] = "none"
        \/ c \notin Left' /\ status'[c] = "failed"
    BY <1>1, <1>2, <1>4, <1>5, <1>6
  <2> QED BY <1>1, <1>4, <2>1, <2>2, <2>3 DEF Deals, Status, Good
<1>9. Apart'
  BY <1>1, <1>2, <1>3, RotateAssumption DEF Apart, RotateAssumption
<1>10. Halfway'
  BY <1>1, <1>2, <1>3, <1>6 DEF RInv, Halfway
<1>11. Left' \subseteq Camera
  BY <1>1, <1>2, <1>3, <1>5
<1> QED BY <1>7, <1>8, <1>9, <1>10, <1>11, DealsOK DEF RInv

\* What the NVR shows after the wait decides who goes to pass B; the others are in step.
LEMMA SettleOK ==
  ASSUME RInv, NEW seen \in {Online, Refused}, Settle(seen)
  PROVE  RInv'
<1>1. /\ phase = "pass A" /\ todo = {} /\ phase' = "pass B" /\ shown' = Online
      /\ todo' = {c \in attempted : ~seen[c]}
      /\ status' = [c \in Camera |-> IF c \in attempted /\ seen[c] THEN "synced-via-pass-a" ELSE status[c]]
      /\ cam' = cam /\ stored' = stored /\ up' = up /\ scope' = scope /\ force' = force
      /\ offline' = offline /\ cur' = cur /\ outcome' = outcome /\ attempted' = attempted
      /\ report' = report
  BY DEF Settle, In, Becomes, Stragglers
<1>2. cur = NoCamera /\ attempted \subseteq Camera /\ Left = attempted
  BY <1>1 DEF RInv, TypeOK, Apart, Left
<1>3. Left' = todo'
  BY <1>1, <1>2 DEF Left
<1>4. \A c \in attempted : status[c] = "none" /\ stored[c] = "new"
  BY <1>1, <1>2 DEF RInv, Accounted, Halfway
<1>5. \A c \in attempted : seen[c] => OnTarget(c)
  BY <1>2, <1>4 DEF Online, Refused, Auth, OnTarget
<1>6. TypeOK'
  <2>1. shown' \in [Camera -> BOOLEAN]
    BY <1>1 DEF Online, Auth
  <2>2. status' \in [Camera -> Status]
    BY <1>1 DEF RInv, TypeOK, Status
  <2>3. todo' \in SUBSET Camera
    BY <1>1, <1>2
  <2> QED BY <1>1, <2>1, <2>2, <2>3 DEF RInv, TypeOK
<1>7. Accounted'
  <2>1. \A c \in Left' : status'[c] = "none"
    BY <1>1, <1>2, <1>3, <1>4
  <2>2. ASSUME NEW c \in scope', status'[c] = "none" PROVE c \in Left'
    <3>1. c \in Camera /\ c \in scope
      BY <1>1 DEF RInv, TypeOK
    <3>2. status[c] = "none" /\ ~(c \in attempted /\ seen[c])
      BY <1>1, <2>2, <3>1
    <3> QED BY <1>1, <1>2, <1>3, <3>1, <3>2 DEF RInv, Accounted
  <2>3. report' # "done"
    BY <1>1 DEF RInv, Accounted
  <2> QED BY <2>1, <2>2, <2>3 DEF Accounted
<1>8. StatusTruthful'
  BY <1>1, <1>5 DEF RInv, StatusTruthful, OnTarget
<1>9. Apart' /\ Halfway'
  BY <1>1, <1>2, RotateAssumption DEF Apart, Halfway, RotateAssumption
<1> QED BY <1>6, <1>7, <1>8, <1>9 DEF RInv

\* Pass B stores the old password for a camera, or notes its failure ...
LEMMA PassBOldOK ==
  ASSUME RInv, NEW c \in Camera, PassBOld(c)
  PROVE  RInv' /\ Deals(c)
<1>1. /\ phase = "pass B" /\ phase' = phase /\ cur = NoCamera /\ c \in todo /\ todo' = todo \ {c}
      /\ cam' = cam /\ up' = up /\ shown' = shown /\ scope' = scope /\ force' = force
      /\ offline' = offline /\ attempted' = attempted /\ outcome' = outcome /\ report' = report
  BY DEF PassBOld, In
<1>2. \/ stored' = [stored EXCEPT ![c] = "old"] /\ cur' = c /\ status' = status
      \/ /\ stored' \in {stored, [stored EXCEPT ![c] = "old"]} /\ cur' = cur
         /\ status' = [status EXCEPT ![c] = "failed"]
  BY DEF PassBOld, Stores, StoreFails, Note
<1>3. todo \subseteq Camera /\ Left = todo /\ c # NoCamera
  BY <1>1, RotateAssumption DEF RInv, TypeOK, Left, RotateAssumption
<1>4. c \in Left /\ status[c] = "none"
  BY <1>1, <1>3 DEF RInv, Accounted
<1>5. Left' = IF cur' = c THEN todo ELSE todo \ {c}
  <2>1. Left' = todo' \cup ({cur'} \ {NoCamera})
    BY <1>1 DEF Left
  <2>2. cur' = c \/ cur' = NoCamera
    BY <1>1, <1>2
  <2>3. CASE cur' = c
    BY <1>1, <1>3, <2>1, <2>3
  <2>4. CASE cur' = NoCamera
    BY <1>1, <1>3, <2>1, <2>4
  <2> QED BY <2>2, <2>3, <2>4
<1>6. stored \in [Camera -> {"old", "new", "other"}] /\ status \in [Camera -> Status]
  BY DEF RInv, TypeOK
<1>7. TypeOK'
  <2>1. stored' \in [Camera -> {"old", "new", "other"}]
    BY <1>2, <1>6
  <2>2. status' \in [Camera -> Status]
    BY <1>2, <1>6 DEF Status
  <2>3. {scope, offline, todo, attempted}' \subseteq SUBSET Camera
    BY <1>1, <1>3 DEF RInv, TypeOK
  <2>4. cur' \in Camera \cup {NoCamera}
    BY <1>1, <1>2
  <2> QED BY <1>1, <2>1, <2>2, <2>3, <2>4 DEF RInv, TypeOK
<1>8. Deals(c)
  <2>1. \A d \in Camera \ {c} : stored'[d] = stored[d] /\ status'[d] = status[d]
    BY <1>2, <1>6
  <2>2. \A d \in Camera \ {c} : d \in Left' <=> d \in Left
    BY <1>3, <1>5
  <2>3. \/ c \in Left' /\ status'[c] = "none"
        \/ c \notin Left' /\ status'[c] = "failed"
    <3>1. CASE cur' = c
      BY <1>1, <1>2, <1>3, <1>4, <1>5, <3>1
    <3>2. CASE cur' # c
      BY <1>1, <1>2, <1>3, <1>5, <1>6, <3>2
    <3> QED BY <3>1, <3>2
  <2> QED BY <1>1, <1>4, <2>1, <2>2, <2>3 DEF Deals, Status, Good
<1>9. Apart'
  BY <1>1, <1>2, <1>3, RotateAssumption DEF Apart, RotateAssumption
<1>10. Halfway'
  BY <1>1 DEF Halfway
<1> QED BY <1>3, <1>5, <1>7, <1>8, <1>9, <1>10, DealsOK DEF RInv

\* ... changes the camera ...
LEMMA PassBEditOK ==
  ASSUME RInv, NEW c \in Camera, c = cur, PassBEdit
  PROVE  RInv' /\ Deals(c)
<1>1. /\ phase = "pass B" /\ stored' = stored /\ up' = up /\ shown' = shown /\ scope' = scope
      /\ force' = force /\ offline' = offline /\ todo' = todo /\ attempted' = attempted
      /\ outcome' = outcome /\ report' = report
  BY DEF PassBEdit, In
<1>2. \/ /\ cam' = [cam EXCEPT ![c] = "new"] /\ phase' = "pass B new" /\ cur' = c /\ status' = status
      \/ /\ cam' \in {cam, [cam EXCEPT ![c] = "new"]} /\ phase' = phase /\ cur' = NoCamera
         /\ status' = [status EXCEPT ![c] = "failed"]
  BY DEF PassBEdit, Changes, ChangeFails, Note, Becomes
<1>3. todo \subseteq Camera /\ c \notin todo /\ c # NoCamera
  BY RotateAssumption DEF RInv, TypeOK, Apart, RotateAssumption
<1>4. Left = todo \cup {c}
  BY <1>1, <1>3 DEF Left
<1>5. status[c] = "none"
  BY <1>4 DEF RInv, Accounted
<1>6. Left' = IF cur' = c THEN todo \cup {c} ELSE todo
  <2>1. Left' = todo' \cup ({cur'} \ {NoCamera})
    BY <1>1, <1>2 DEF Left
  <2>2. cur' = c \/ cur' = NoCamera
    BY <1>2
  <2>3. CASE cur' = c
    BY <1>1, <1>3, <2>1, <2>3
  <2>4. CASE cur' = NoCamera
    BY <1>1, <1>3, <2>1, <2>4
  <2> QED BY <2>2, <2>3, <2>4
<1>7. cam \in [Camera -> {"old", "new"}] /\ status \in [Camera -> Status]
  BY DEF RInv, TypeOK
<1>8. TypeOK'
  BY <1>1, <1>2, <1>3 DEF RInv, TypeOK, Status
<1>9. Deals(c)
  <2>1. \A d \in Camera \ {c} : cam'[d] = cam[d] /\ status'[d] = status[d]
    BY <1>2, <1>7
  <2>2. \A d \in Camera \ {c} : d \in Left' <=> d \in Left
    BY <1>4, <1>6
  <2>3. \/ c \in Left' /\ status'[c] = "none"
        \/ c \notin Left' /\ status'[c] = "failed"
    <3>1. CASE cur' = c
      BY <1>2, <1>3, <1>5, <1>6, <3>1
    <3>2. CASE cur' # c
      BY <1>2, <1>3, <1>6, <1>7, <3>2
    <3> QED BY <3>1, <3>2
  <2> QED BY <1>1, <1>2, <1>4, <2>1, <2>2, <2>3 DEF Deals, Status, Good
<1>10. Apart'
  BY <1>1, <1>2, <1>3, RotateAssumption DEF Apart, RotateAssumption
<1>11. Halfway'
  BY <1>1, <1>2, <1>7 DEF Halfway
<1> QED BY <1>3, <1>6, <1>8, <1>9, <1>10, <1>11, DealsOK DEF RInv

\* ... and stores the new password for it.
LEMMA PassBNewOK ==
  ASSUME RInv, NEW c \in Camera, c = cur, PassBNew
  PROVE  RInv' /\ Deals(c)
<1>1. /\ phase = "pass B new" /\ phase' = "pass B" /\ cur' = NoCamera
      /\ cam' = cam /\ up' = up /\ shown' = shown /\ scope' = scope
      /\ force' = force /\ offline' = offline /\ todo' = todo /\ attempted' = attempted
      /\ outcome' = outcome /\ report' = report
  BY DEF PassBNew, In, Becomes
<1>2. \/ stored' = [stored EXCEPT ![c] = "new"] /\ status' = [status EXCEPT ![c] = "rotated-via-pass-b"]
      \/ /\ stored' \in {stored, [stored EXCEPT ![c] = "new"]}
         /\ status' = [status EXCEPT ![c] = "failed"]
  BY DEF PassBNew, Stores, StoreFails, Note, NewNotStored
<1>3. todo \subseteq Camera /\ c \notin todo /\ c # NoCamera
  BY RotateAssumption DEF RInv, TypeOK, Apart, RotateAssumption
<1>4. Left = todo \cup {c} /\ cam[c] = "new"
  BY <1>1, <1>3 DEF Left, RInv, Halfway
<1>5. Left' = todo
  BY <1>1 DEF Left
<1>6. stored \in [Camera -> {"old", "new", "other"}] /\ status \in [Camera -> Status]
  BY DEF RInv, TypeOK
<1>7. TypeOK'
  BY <1>1, <1>2, <1>3 DEF RInv, TypeOK, Status
<1>8. Deals(c)
  <2>1. \A d \in Camera \ {c} : stored'[d] = stored[d] /\ status'[d] = status[d]
    BY <1>2, <1>6
  <2>2. \/ status'[c] = "failed"
        \/ status'[c] = "rotated-via-pass-b" /\ stored'[c] = "new" /\ cam'[c] = "new"
    BY <1>1, <1>2, <1>4, <1>6
  <2>3. c \notin Left' /\ \A d \in Camera \ {c} : d \in Left' <=> d \in Left
    BY <1>3, <1>4, <1>5
  <2> QED BY <1>1, <1>4, <2>1, <2>2, <2>3 DEF Deals, Status, Good, OnTarget
<1>9. Apart' /\ Halfway'
  BY <1>1, <1>3, RotateAssumption DEF Apart, Halfway, RotateAssumption
<1> QED BY <1>3, <1>5, <1>7, <1>8, <1>9, DealsOK DEF RInv

\* A step of the workflow deals with one camera, or with none.
LEMMA StepOK ==
  ASSUME RInv, RotateStep
  PROVE  /\ RInv'
         /\ \/ \E c \in Camera : Deals(c)
            \/ cam' = cam /\ stored' = stored
<1>1. ASSUME NEW c \in Camera, ForceEdit(c) \/ PassA(c) \/ PassBOld(c)
      PROVE  RInv' /\ Deals(c)
  BY <1>1, ForceEditOK, PassAOK, PassBOldOK
<1>2. ASSUME ForceSync \/ PassBEdit \/ PassBNew
      PROVE  RInv' /\ \E c \in Camera : Deals(c)
  <2>1. cur \in Camera
    BY <1>2, RotateAssumption DEF RInv, TypeOK, Apart, ForceSync, PassBEdit, PassBNew, In, RotateAssumption
  <2>2. PICK c \in Camera : c = cur
    BY <2>1
  <2> QED BY <1>2, <2>2, ForceSyncOK, PassBEditOK, PassBNewOK
<1>3. ASSUME ForceDone
      PROVE  RInv' /\ cam' = cam /\ stored' = stored
  BY <1>3, ForceDoneOK DEF ForceDone, nvr
<1>4. ASSUME NEW seen \in {Online, Refused}, Settle(seen)
      PROVE  RInv' /\ cam' = cam /\ stored' = stored
  BY <1>4, SettleOK DEF Settle
<1>5. ASSUME SettleFails
      PROVE  RInv' /\ cam' = cam /\ stored' = stored
  <2>1. End("raised") /\ UNCHANGED nvr /\ scope' = scope /\ force' = force /\ status' = status
    BY <1>5 DEF SettleFails
  <2> QED BY <2>1, EndOK DEF RInv, TypeOK, nvr
<1>6. ASSUME PassBDone
      PROVE  RInv' /\ cam' = cam /\ stored' = stored
  <2>1. /\ End("done") /\ UNCHANGED nvr /\ scope' = scope /\ force' = force /\ status' = status
        /\ phase = "pass B" /\ cur = NoCamera /\ todo = {}
    BY <1>6 DEF PassBDone, In
  <2>2. Left = {}
    BY <2>1 DEF Left
  <2>3. \A c \in scope : status[c] # "none"
    BY <2>1, <2>2 DEF RInv, Accounted
  <2> QED BY <2>1, <2>3, EndOK DEF RInv, TypeOK, nvr
<1> QED BY <1>1, <1>2, <1>3, <1>4, <1>5, <1>6 DEF RotateStep

-----------------------------------------------------------------------------
(* The commands *)

\* What a subnet change keeps.
MoveJob == [cmd : {"site-subnet-change"}, at : {"readdress", "channels", "rotate"}, plan : SUBSET Camera,
            todo : SUBSET Camera, done : SUBSET Camera, follow : SUBSET Camera, failed : SUBSET Camera,
            rotate : BOOLEAN]

\* Where each camera of a move is, given the addresses a and the channels ch: to be moved,
\* moved, or failed; then its channel follows it.
MovesOK(j, a, ch) ==
  /\ j.at = "readdress" =>
       /\ \A c \in j.plan : ch[c] = "none" \/ (ch[c] = "old" /\ c \in j.follow)
       /\ \A c \in j.plan \ j.failed : c \in j.todo \/ (c \in j.done /\ a[c] = "new")
  /\ j.at = "channels" =>
       \A c \in j.plan \ j.failed : a[c] = "new" /\ (c \in j.todo \/ ch[c] \in {"new", "none"})
  /\ j.at = "rotate" =>
       \A c \in j.plan \ j.failed : a[c] = "new" /\ ch[c] \in {"new", "none"}

\* The job that runs.
JobOK(j, a, ch) == \/ j = NoJob \/ j \in {[cmd |-> "password-rotate"], [cmd |-> "rotate_nvr_channel_passwords"]}
                   \/ j \in MoveJob /\ MovesOK(j, a, ch)

\* Types of the two addresses.
Places == /\ addr \in [Camera -> {"old", "new"}] /\ chan \in [Camera -> {"old", "new", "none"}]

\* The inductive invariant of the commands.
WInv == RInv /\ Places /\ JobOK(job, addr, chan)

\* The site at the start.
LEMMA WInvInit == Init => WInv
<1> SUFFICES ASSUME Init PROVE WInv
  OBVIOUS
<1>1. TypeOK
  <2>1. shown \in [Camera -> BOOLEAN] /\ up \in [Camera -> BOOLEAN]
    BY DEF Init, RotateInit, Online, Auth
  <2>2. status \in [Camera -> Status]
    BY DEF Init, RotateInit, Settled, Status
  <2> QED BY <2>1, <2>2 DEF Init, RotateInit, Settled, TypeOK
<1>2. Left = {}
  BY DEF Init, RotateInit, Settled, Left
<1>3. Apart /\ Halfway
  BY RotateAssumption DEF Init, RotateInit, Settled, Apart, Halfway, RotateAssumption
<1>4. Accounted
  BY <1>2 DEF Init, RotateInit, Settled, Accounted
<1>5. StatusTruthful
  BY DEF Init, RotateInit, Settled, StatusTruthful
<1>6. Places
  BY DEF Init, Places
<1>7. JobOK(job, addr, chan)
  BY DEF Init, JobOK
<1> QED BY <1>1, <1>3, <1>4, <1>5, <1>6, <1>7 DEF RInv, WInv

\* What a step does to passwords: it deals with one camera, or changes none.
Touches == (\E c \in Camera : Deals(c)) \/ (cam' = cam /\ stored' = stored)

\* What FailuresNamed asks of a step.
Names == Running("site-subnet-change") /\ job' = NoJob /\ exit' # NoExit =>
           /\ \A c \in job.plan \ job.failed : addr[c] = "new" /\ chan[c] \in {"new", "none"}
           /\ exit' = 0 => job.failed = {}

\* What the job is while a subnet change runs.
LEMMA Moving ==
  ASSUME WInv, Running("site-subnet-change")
  PROVE  job \in MoveJob /\ MovesOK(job, addr, chan)
<1>1. job # NoJob /\ job # [cmd |-> "password-rotate"] /\ job # [cmd |-> "rotate_nvr_channel_passwords"]
  BY DEF Running, NoJob
<1> QED BY <1>1 DEF WInv, JobOK

\* A move that goes on names nothing yet.
LEMMA GoesOn ==
  ASSUME job' = NoJob => ~ Running("site-subnet-change")
  PROVE  Names
BY DEF Names

\* A command ends, and its results with it.
LEMMA ExitsOK ==
  ASSUME WInv, NEW e, Exits(e), UNCHANGED site
  PROVE  WInv' /\ Touches
<1>1. /\ job' = NoJob /\ End("none") /\ UNCHANGED nvr /\ scope' = {} /\ force' = FALSE
      /\ status' = [c \in Camera |-> "none"]
  BY DEF Exits
<1>2. RInv'
  BY <1>1, EndOK DEF WInv
<1>3. Places' /\ JobOK(job, addr, chan)'
  BY <1>1 DEF WInv, Places, JobOK, site
<1> QED BY <1>1, <1>2, <1>3 DEF WInv, Touches, nvr

\* The rotation, by itself or at the end of a subnet change.
LEMMA RotateSteps ==
  ASSUME WInv
  PROVE  /\ Commands => WInv' /\ Touches /\ Names
         /\ RotateCommandEnds \/ RotateCallEnds => WInv' /\ Touches /\ Names
         /\ Rotate => WInv' /\ Touches /\ Names
<1>1. ASSUME Commands PROVE WInv' /\ Touches /\ Names
  <2>1. PICK S \in Scopes, f \in BOOLEAN, cmd \in {"password-rotate", "rotate_nvr_channel_passwords"} : Rotation(cmd, S, f)
    <3>1. PICK S \in Scopes : RotateCommand(S) \/ \E f \in Modes : RotateCall(S, f)
      BY <1>1 DEF Commands
    <3>2. CASE RotateCommand(S)
      BY <3>2 DEF RotateCommand
    <3>3. ASSUME NEW f \in Modes, RotateCall(S, f) PROVE f \in BOOLEAN /\ Rotation("rotate_nvr_channel_passwords", S, f)
      BY <3>3, RotateAssumption DEF RotateCall, RotateAssumption
    <3> QED BY <3>1, <3>2, <3>3, Zenon
  <2>2. /\ Running("none") /\ job' = [cmd |-> cmd] /\ UNCHANGED site
        /\ BeginFails \/ \E seen \in Listed : Begin(S, f, seen)
    BY <2>1 DEF Rotation, Advance
  <2>3. S \in SUBSET Camera /\ f \in BOOLEAN
    BY RotateAssumption DEF RotateAssumption
  <2>4. RInv' /\ cam' = cam /\ stored' = stored
    BY <2>2, <2>3, BeginFailsOK, BeginOK DEF WInv, BeginFails, Begin, nvr
  <2>5. Places' /\ JobOK(job, addr, chan)'
    BY <2>1, <2>2 DEF WInv, Places, JobOK, site
  <2>6. Names
    BY <2>2 DEF Names, Running
  <2> QED BY <2>4, <2>5, <2>6 DEF WInv, Touches
<1>2. ASSUME RotateCommandEnds \/ RotateCallEnds PROVE WInv' /\ Touches /\ Names
  <2>1. PICK e \in {0, 1, NoExit} : Exits(e)
    BY <1>2 DEF RotateCommandEnds, RotateCallEnds
  <2>2. UNCHANGED site /\ (Running("password-rotate") \/ Running("rotate_nvr_channel_passwords"))
    BY <1>2 DEF RotateCommandEnds, RotateCallEnds
  <2> QED BY <2>1, <2>2, ExitsOK DEF Names, Running
<1>3. ASSUME Rotate PROVE WInv' /\ Touches /\ Names
  <2>1. RotateStep /\ UNCHANGED <<site, job, exit, moves>> /\ Rotating
    BY <1>3 DEF Rotate
  <2>2. RInv' /\ Touches
    BY <2>1, StepOK DEF WInv, Touches
  <2>3. Places' /\ JobOK(job, addr, chan)'
    BY <2>1 DEF WInv, Places, JobOK, site
  <2>4. Names
    BY <2>1 DEF Names, Running, NoJob
  <2> QED BY <2>2, <2>3, <2>4 DEF WInv
<1> QED BY <1>1, <1>2, <1>3

\* The rotation's own state does not change.
LEMMA RotationRests ==
  ASSUME RInv, UNCHANGED <<cam, stored, shown, progress, results>>, up' \in [Camera -> BOOLEAN]
  PROVE  RInv' /\ Touches
<1>1. shown' \in [Camera -> BOOLEAN]
  BY DEF RInv, TypeOK
<1> QED BY <1>1, WorldStays DEF Touches

\* A subnet change begins.
LEMMA MoveBeginOK ==
  ASSUME WInv, NEW T \in SUBSET Camera, NEW r \in BOOLEAN, MoveBegin(T, r)
  PROVE  WInv' /\ Touches /\ Names
<1> DEFINE plan == Targets \cap T
           j == [cmd |-> "site-subnet-change", at |-> "readdress", plan |-> plan, todo |-> plan,
                 done |-> {}, follow |-> {c \in plan : chan[c] = "old"}, failed |-> {}, rotate |-> r]
<1>1. Running("none") /\ UNCHANGED site
  BY DEF MoveBegin
<1>2. Names
  BY <1>1 DEF Names, Running
<1>3. CASE Exits(0) \/ Exits(1)
  BY <1>1, <1>2, <1>3, ExitsOK
<1>4. CASE job' = j /\ UNCHANGED rotate
  <2>1. j \in MoveJob
    BY DEF MoveJob, Targets
  <2>2. MovesOK(j, addr, chan)
    BY DEF MovesOK, Targets
  <2>3. Places' /\ JobOK(job, addr, chan)'
    BY <1>1, <1>4, <2>1, <2>2 DEF WInv, Places, JobOK, site
  <2>4. RInv' /\ Touches
    BY <1>4, RotationRests DEF WInv, RInv, TypeOK, rotate, nvr
  <2> QED BY <1>2, <2>3, <2>4 DEF WInv
<1>5. Exits(0) \/ Exits(1) \/ (job' = j /\ UNCHANGED rotate)
  BY DEF MoveBegin, Advance
<1> QED BY <1>3, <1>4, <1>5

\* The NVR readdresses one camera, or the step fails, perhaps after it worked.
LEMMA ReaddressOK ==
  ASSUME WInv, NEW c \in Camera, Readdress(c)
  PROVE  WInv' /\ Touches /\ Names
<1>1. /\ Running("site-subnet-change") /\ job.at = "readdress" /\ c \in job.todo
      /\ UNCHANGED <<cam, stored, shown, progress, results, chan>>
  BY DEF Readdress, At
<1>2. job \in MoveJob /\ MovesOK(job, addr, chan)
  BY <1>1, Moving
<1>3. up \in [Camera -> BOOLEAN] /\ Places
  BY DEF WInv, RInv, TypeOK
<1>4. \/ /\ addr' = [addr EXCEPT ![c] = "new"] /\ up' = [up EXCEPT ![c] = chan[c] = "new"]
         /\ job' \in {[job EXCEPT !.todo = @ \ {c}, !.done = @ \cup {c}],
                       [job EXCEPT !.todo = @ \ {c}, !.failed = @ \cup {c}]}
      \/ addr' = addr /\ up' = up /\ job' = [job EXCEPT !.todo = @ \ {c}, !.failed = @ \cup {c}]
  BY DEF Readdress, Readdressed, Advance
<1>5. up' \in [Camera -> BOOLEAN] /\ Places'
  BY <1>1, <1>3, <1>4 DEF Places
<1>6. RInv' /\ Touches
  BY <1>1, <1>5, RotationRests DEF WInv
<1>7. job' \in MoveJob
  <2>1. job.todo \ {c} \in SUBSET Camera /\ job.done \cup {c} \in SUBSET Camera /\ job.failed \cup {c} \in SUBSET Camera
    BY <1>2 DEF MoveJob
  <2>2. CASE job' = [job EXCEPT !.todo = @ \ {c}, !.done = @ \cup {c}]
    BY <1>2, <2>1, <2>2 DEF MoveJob
  <2>3. CASE job' = [job EXCEPT !.todo = @ \ {c}, !.failed = @ \cup {c}]
    BY <1>2, <2>1, <2>3 DEF MoveJob
  <2> QED BY <1>4, <2>2, <2>3
<1>8. /\ job'.at = "readdress" /\ job'.plan = job.plan /\ job'.follow = job.follow
      /\ job'.todo = job.todo \ {c}
      /\ \/ job'.done = job.done \cup {c} /\ job'.failed = job.failed /\ addr'[c] = "new"
         \/ job'.done = job.done /\ job'.failed = job.failed \cup {c}
      /\ \A d \in Camera : addr'[d] \in {addr[d], "new"}
  BY <1>1, <1>2, <1>3, <1>4 DEF MoveJob, Places
<1>9. MovesOK(job, addr, chan)'
  BY <1>1, <1>2, <1>8 DEF MovesOK, MoveJob
<1>10. Names
  BY <1>7, GoesOn DEF MoveJob, NoJob
<1> QED BY <1>5, <1>6, <1>7, <1>9, <1>10 DEF WInv, JobOK

\* The wait; those whose channel has an old address are to follow.
LEMMA MoveSettleOK ==
  ASSUME WInv, MoveSettle
  PROVE  WInv' /\ Touches /\ Names
<1>1. /\ Running("site-subnet-change") /\ job.at = "readdress" /\ job.todo = {}
      /\ UNCHANGED <<cam, stored, up, progress, results, site>>
      /\ shown' \in {Online, shown}
      /\ job' = [job EXCEPT !.at = "channels", !.todo = job.follow \cap job.done]
  BY DEF MoveSettle, At, Advance, ToFollow
<1>2. job \in MoveJob /\ MovesOK(job, addr, chan)
  BY <1>1, Moving
<1>3. shown' \in [Camera -> BOOLEAN] /\ up' \in [Camera -> BOOLEAN]
  BY <1>1 DEF WInv, RInv, TypeOK, Online, Auth
<1>4. RInv' /\ Touches
  BY <1>1, <1>3, WorldStays DEF WInv, Touches
<1>5. /\ job' \in MoveJob /\ job'.at = "channels" /\ job'.plan = job.plan /\ job'.failed = job.failed
      /\ job'.todo = job.follow \cap job.done
  <2>1. job.follow \cap job.done \in SUBSET Camera
    BY <1>2 DEF MoveJob
  <2> QED BY <1>1, <1>2, <2>1 DEF MoveJob
<1>6. addr' = addr /\ chan' = chan
  BY <1>1 DEF site
<1>7. MovesOK(job', addr', chan')
  BY <1>1, <1>2, <1>5, <1>6 DEF MovesOK
<1>8. Names
  BY <1>5, GoesOn DEF MoveJob, NoJob
<1> QED BY <1>4, <1>5, <1>6, <1>7, <1>8 DEF WInv, Places, JobOK

\* A channel follows its camera, or fails to, perhaps after it did.
LEMMA EditChannelOK ==
  ASSUME WInv, NEW c \in Camera, EditChannel(c)
  PROVE  WInv' /\ Touches /\ Names
<1>1. /\ Running("site-subnet-change") /\ job.at = "channels" /\ c \in job.todo
      /\ UNCHANGED <<cam, stored, shown, progress, results, addr>>
  BY DEF EditChannel, At
<1>2. job \in MoveJob /\ MovesOK(job, addr, chan)
  BY <1>1, Moving
<1>3. up \in [Camera -> BOOLEAN] /\ Places
  BY DEF WInv, RInv, TypeOK
<1> DEFINE failed == [job EXCEPT !.todo = @ \ {c}, !.done = @ \ {c}, !.failed = @ \cup {c}]
<1>4. \/ /\ chan' = [chan EXCEPT ![c] = "new"] /\ up' = [up EXCEPT ![c] = addr[c] = "new"]
         /\ job' \in {[job EXCEPT !.todo = @ \ {c}], failed}
      \/ chan' = chan /\ up' = up /\ job' = failed
  BY DEF EditChannel, Follows, FollowFailed, Advance
<1>5. up' \in [Camera -> BOOLEAN] /\ Places'
  BY <1>1, <1>3, <1>4 DEF Places
<1>6. RInv' /\ Touches
  BY <1>1, <1>5, RotationRests DEF WInv
<1>7. /\ job' \in MoveJob /\ job'.at = "channels" /\ job'.plan = job.plan /\ job'.todo = job.todo \ {c}
      /\ (job'.failed = job.failed /\ chan'[c] = "new") \/ job'.failed = job.failed \cup {c}
  <2>1. job.todo \ {c} \in SUBSET Camera /\ job.done \ {c} \in SUBSET Camera /\ job.failed \cup {c} \in SUBSET Camera
    BY <1>2 DEF MoveJob
  <2>2. CASE job' = [job EXCEPT !.todo = @ \ {c}] /\ chan' = [chan EXCEPT ![c] = "new"]
    BY <1>1, <1>2, <1>3, <2>1, <2>2 DEF MoveJob, Places
  <2>3. CASE job' = failed
    BY <1>1, <1>2, <2>1, <2>3 DEF MoveJob
  <2> QED BY <1>4, <2>2, <2>3
<1>8. \A d \in Camera \ {c} : chan'[d] = chan[d]
  BY <1>3, <1>4 DEF Places
<1>9. MovesOK(job', addr', chan')
  BY <1>1, <1>2, <1>7, <1>8 DEF MovesOK, MoveJob
<1>10. Names
  BY <1>7, GoesOn DEF MoveJob, NoJob
<1> QED BY <1>5, <1>6, <1>7, <1>9, <1>10 DEF WInv, JobOK

\* The rotation that a subnet change ends with begins, or the change ends without one.
LEMMA MoveRotatesOK ==
  ASSUME WInv, MoveRotates
  PROVE  WInv' /\ Touches /\ Names
<1>1. Running("site-subnet-change") /\ job.at = "channels" /\ job.todo = {} /\ UNCHANGED site
  BY DEF MoveRotates, At
<1>2. job \in MoveJob /\ MovesOK(job, addr, chan)
  BY <1>1, Moving
<1>3. \A c \in job.plan \ job.failed : addr[c] = "new" /\ chan[c] \in {"new", "none"}
  BY <1>1, <1>2 DEF MovesOK
<1>4. CASE Exits(MoveExit(TRUE))
  <2>1. exit' = 0 => job.failed = {}
    BY <1>4 DEF Exits, MoveExit
  <2> QED BY <1>1, <1>3, <1>4, <2>1, ExitsOK DEF Names
<1>5. CASE /\ BeginFails \/ \E seen \in Listed : Begin(NestedScope, FALSE, seen)
           /\ job' = [job EXCEPT !.at = "rotate", !.todo = {}, !.done = {}, !.follow = {}]
  <2>1. NestedScope \in SUBSET Camera
    BY DEF NestedScope
  <2>2. RInv' /\ cam' = cam /\ stored' = stored
    BY <1>5, <2>1, BeginFailsOK, BeginOK DEF WInv, BeginFails, Begin, nvr
  <2>3. /\ job' \in MoveJob /\ job'.at = "rotate" /\ job'.plan = job.plan /\ job'.failed = job.failed
    BY <1>2, <1>5 DEF MoveJob
  <2>4. addr' = addr /\ chan' = chan
    BY <1>1 DEF site
  <2>5. MovesOK(job', addr', chan')
    BY <1>3, <2>3, <2>4 DEF MovesOK
  <2>6. Names
    BY <2>3, GoesOn DEF MoveJob, NoJob
  <2> QED BY <2>2, <2>3, <2>4, <2>5, <2>6 DEF WInv, Places, JobOK, Touches
<1> QED BY <1>4, <1>5 DEF MoveRotates, Advance

\* A subnet change ends after its rotation.
LEMMA MoveEndsOK ==
  ASSUME WInv, MoveEnds
  PROVE  WInv' /\ Touches /\ Names
<1>1. /\ Running("site-subnet-change") /\ job.at = "rotate" /\ UNCHANGED site
      /\ Exits(MoveExit(report = "raised" \/ RotateSuccess))
  BY DEF MoveEnds, At
<1>2. job \in MoveJob /\ MovesOK(job, addr, chan)
  BY <1>1, Moving
<1>3. \A c \in job.plan \ job.failed : addr[c] = "new" /\ chan[c] \in {"new", "none"}
  BY <1>1, <1>2 DEF MovesOK
<1>4. exit' = 0 => job.failed = {}
  BY <1>1 DEF Exits, MoveExit
<1> QED BY <1>1, <1>3, <1>4, ExitsOK DEF Names

\* What else happens: a login that fails, a validation, a crash, a poll and an outage.
LEMMA RestOK ==
  ASSUME WInv, \/ LoginFails \/ Crash
               \/ \E net \in {"old", "new", "none"}, n \in {Cardinality(Camera), Unasked} : Validate(net, n)
               \/ \E c \in Camera : Poll(c) \/ Goes(c)
  PROVE  WInv' /\ Touches /\ Names
<1>1. CASE LoginFails \/ \E net \in {"old", "new", "none"}, n \in {Cardinality(Camera), Unasked} : Validate(net, n)
  <2>1. UNCHANGED <<rotate, site, job>> /\ Running("none")
    BY <1>1 DEF LoginFails, Validate
  <2>2. RInv' /\ Touches
    BY <2>1, RotationRests DEF WInv, RInv, TypeOK, rotate, nvr
  <2> QED BY <2>1, <2>2 DEF WInv, Places, JobOK, site, Names, Running
<1>2. CASE Crash
  <2>1. Exits(NoExit) /\ UNCHANGED site
    BY <1>2 DEF Crash
  <2> QED BY <2>1, ExitsOK DEF Names, Exits
<1>3. ASSUME NEW c \in Camera, Poll(c) \/ Goes(c)
      PROVE  WInv' /\ Touches /\ Names
  <2>1. /\ UNCHANGED <<cam, stored, progress, results, site, job>>
        /\ shown' \in {shown, [shown EXCEPT ![c] = Auth(c)]} /\ up' \in {up, [up EXCEPT ![c] = ~@]}
    BY <1>3 DEF Poll, Goes, Refresh, Outage
  <2>2. Auth(c) \in BOOLEAN /\ up \in [Camera -> BOOLEAN] /\ shown \in [Camera -> BOOLEAN]
    BY DEF Auth, WInv, RInv, TypeOK
  <2>3. shown' \in [Camera -> BOOLEAN] /\ up' \in [Camera -> BOOLEAN]
    BY <2>1, <2>2
  <2>4. RInv' /\ Touches
    BY <2>1, <2>3, WorldStays DEF WInv, Touches
  <2> QED BY <2>1, <2>4 DEF WInv, Places, JobOK, site, Names, Running, NoJob
<1> QED BY <1>1, <1>2, <1>3

\* Every step keeps the invariant, touches one camera at most and names the failures.
LEMMA NextOK ==
  ASSUME WInv, Next
  PROVE  WInv' /\ Touches /\ Names
<1>1. CASE Steps
  BY <1>1, RotateSteps, MoveSettleOK, MoveRotatesOK, MoveEndsOK, ReaddressOK, EditChannelOK DEF Steps
<1>2. CASE Commands
  BY <1>2, RotateSteps
<1>3. CASE \E T \in SUBSET Camera, r \in BOOLEAN : MoveBegin(T, r)
  BY <1>3, MoveBeginOK
<1>4. CASE \/ LoginFails \/ Crash
           \/ \E net \in {"old", "new", "none"}, n \in {Cardinality(Camera), Unasked} : Validate(net, n)
           \/ \E c \in Camera : Poll(c) \/ Goes(c)
  BY <1>4, RestOK
<1> QED BY <1>1, <1>2, <1>3, <1>4 DEF Next

\* A step that changes nothing.
LEMMA Stutters ==
  ASSUME WInv, UNCHANGED vars
  PROVE  WInv' /\ Touches /\ Names
<1>1. UNCHANGED <<rotate, site, job>>
  BY DEF vars, site
<1>2. RInv' /\ Touches
  BY <1>1, RotationRests DEF WInv, RInv, TypeOK, rotate, nvr
<1> QED BY <1>1, <1>2 DEF WInv, Places, JobOK, site, Names, Running, NoJob

\* The invariant holds.
LEMMA WInvCorrect == Spec => []WInv
<1>1. WInv /\ [Next]_vars => WInv'
  BY NextOK, Stutters
<1> QED BY <1>1, WInvInit, PTL DEF Spec

-----------------------------------------------------------------------------
(* The properties *)

\* The results of a rotation are true, whatever failed, was lost or crashed: a camera that is
\* reported rotated or in step has the new password, and so has the NVR for it; and a run that
\* reports success has settled every channel of its scope.
THEOREM ResultsCorrect == Spec => []ResultsTruthful
<1>1. WInv => ResultsTruthful
  <2> SUFFICES ASSUME WInv PROVE ResultsTruthful
    OBVIOUS
  <2>1. TypeOK /\ StatusTruthful /\ Accounted /\ Apart
    BY DEF WInv, RInv
  <2>2. ASSUME report = "done", \A c \in Camera : status[c] # "failed", NEW c \in scope
        PROVE  OnTarget(c) \/ status[c] = "already-in-sync"
    <3>1. phase = "idle" /\ c \in Camera /\ status[c] \in Status /\ status[c] # "failed"
      BY <2>1, <2>2 DEF Accounted, TypeOK
    <3>2. Left = {}
      BY <2>1, <3>1 DEF Apart, Left
    <3>3. status[c] # "none"
      BY <2>1, <2>2, <3>2 DEF Accounted
    <3> QED BY <2>1, <3>1, <3>3 DEF StatusTruthful, Status
  <2> QED BY <2>1, <2>2 DEF ResultsTruthful, SuccessMeansDone
<1> QED BY <1>1, WInvCorrect, PTL

\* A rotation that leaves online channels alone changes neither such a camera nor the credential
\* the NVR has for it.
THEOREM UntouchedCorrect == Spec => OnlineUntouched
<1> DEFINE A == \A c \in Camera : status[c] = "already-in-sync" /\ status'[c] = "already-in-sync"
                  => cam'[c] = cam[c] /\ stored'[c] = stored[c]
<1>1. WInv /\ [Next]_vars => A
  <2> SUFFICES ASSUME WInv, [Next]_vars, NEW c \in Camera, status[c] = "already-in-sync"
               PROVE  cam'[c] = cam[c] /\ stored'[c] = stored[c]
    OBVIOUS
  <2>1. Touches
    BY NextOK, Stutters
  <2>2. ASSUME NEW d \in Camera, Deals(d) PROVE d # c
    BY <2>2 DEF Deals, WInv, RInv, Accounted
  <2> QED BY <2>1, <2>2 DEF Touches, Deals
<1>2. WInv /\ [Next]_vars => [A]_rotate
  BY <1>1
<1>3. Spec => [][A]_rotate
  BY <1>2, WInvCorrect, PTL DEF Spec
<1> QED BY <1>3 DEF OnlineUntouched

\* A subnet change that comes to its end names every camera it has not moved, and exits with 0
\* only if there is none.
THEOREM FailuresCorrect == Spec => FailuresNamed
<1>1. WInv /\ [Next]_vars => [Names]_vars
  BY NextOK, Stutters
<1>2. Spec => [][Names]_vars
  BY <1>1, WInvCorrect, PTL DEF Spec
<1> QED BY <1>2 DEF FailuresNamed, Names

(***************************************************************************)
(* NvrClient, for any channels, records, limit of a search and number of   *)
(* operations.  What an operation has left to do is always well-formed for *)
(* it (Shape), so the request that is due says how far the operation has   *)
(* come; the invariant relates that to what it has read and what the       *)
(* recorder has.                                                           *)
(***************************************************************************)
Written == {"query", "edit", "verify", "queryScheduleList"}
Plain == {"reqLogin", "doLogin", "queryDevList", "queryOnlineChlList", "editDevList", "editUserPassword",
          "searchSmartTarget", "requestSmartTargetSnapImage", "searchImageByImageV2",
          "editIPChlPassword", "delDevList", "createDevList"}
Verified == {"set_nvr_face_detection", "set_secure_email", "set_user_email"}

\* The requests an operation makes.
Step == (Written \X Setting) \cup (Plain \X {None})

\* The requests it may make.
StepOf(op) ==
  {s \in Step :
     /\ op # "set_alarm_server" => s[1] # "queryScheduleList" /\ (s[1] = "edit" => s[2] # "alarm")
     /\ op = "set_alarm_server" => s[2] = "alarm"
     /\ op \in Verified => s[1] \in {"query", "edit", "verify", "reqLogin", "doLogin"}
     /\ op = "edit_nvr_ipc_passwords" => s[1] = "editIPChlPassword"}

\* The requests of a program that has to be made in one order, the last one first.
InOrder(t, order) == Len(t) <= Len(order) /\ \A k \in 1..Len(t) : t[Len(t) + 1 - k][1] = order[k]
AlarmOrder == <<"edit", "queryScheduleList", "query">>
SyncOrder == <<"doLogin", "reqLogin", "editUserPassword", "editDevList", "queryOnlineChlList", "queryDevList">>

\* The channels are never listed again once it is known which are online.
ListedOnce(t) ==
  \A j, k \in 1..Len(t) : j < k /\ t[k][1] = "queryDevList" => t[j][1] # "queryOnlineChlList"

\* What an operation has left to do.
Shape(op, t) ==
  /\ t \in Seq(StepOf(op))
  /\ op = "set_alarm_server" => InOrder(t, AlarmOrder)
  /\ op = "change_admin_password_and_sync" => InOrder(t, SyncOrder)
  /\ op \in Verified /\ t # <<>> => t[Len(t)][1] = "verify"
  /\ ListedOnce(t)

\* What is left of a program after some of its requests.
Suffix(u, t) ==
  /\ Len(u) \in Nat /\ Len(u) <= Len(t)
  /\ \A k \in 1..Len(u) : u[k] = t[k + (Len(t) - Len(u))]

\* A suffix of a program is as well-formed.
LEMMA SuffixFits ==
  ASSUME NEW op, NEW t, NEW u, Shape(op, t), u \in Seq(Step), Suffix(u, t)
  PROVE  Shape(op, u)
<1>1. t \in Seq(StepOf(op)) /\ Len(t) \in Nat /\ Len(u) \in Nat /\ Len(u) <= Len(t)
  BY LenProperties DEF Shape, Suffix
<1> DEFINE d == Len(t) - Len(u)
<1>2. d \in Nat /\ \A k \in 1..Len(u) : k + d \in 1..Len(t) /\ u[k] = t[k + d]
  BY <1>1 DEF Suffix
<1>3. \A k \in 1..Len(u) : u[k] \in StepOf(op)
  BY <1>1, <1>2, ElementOfSeq
<1>4. u \in Seq(StepOf(op))
  <2>1. SubSeq(u, 1, Len(u)) \in Seq(StepOf(op))
    BY <1>1, <1>3, SubSeqProperties
  <2>2. SubSeq(u, 1, Len(u)) = u
    BY SubSeqFull
  <2> QED BY <2>1, <2>2
<1>5. ASSUME NEW order, InOrder(t, order), Len(order) \in Nat PROVE InOrder(u, order)
  <2>1. \A k \in 1..Len(u) : Len(u) + 1 - k \in 1..Len(u) /\ (Len(u) + 1 - k) + d = Len(t) + 1 - k /\ k \in 1..Len(t)
    BY <1>1
  <2>2. ASSUME NEW k \in 1..Len(u) PROVE u[Len(u) + 1 - k] = t[Len(t) + 1 - k]
    <3>1. u[Len(u) + 1 - k] = t[(Len(u) + 1 - k) + d]
      BY <2>1, <1>2
    <3> QED BY <3>1, <2>1
  <2>3. Len(u) <= Len(order)
    BY <1>1, <1>5 DEF InOrder
  <2>4. ASSUME NEW k \in 1..Len(u) PROVE u[Len(u) + 1 - k][1] = order[k]
    BY <2>1, <2>2, <1>5 DEF InOrder
  <2> QED BY <2>3, <2>4 DEF InOrder
<1>6. Len(AlarmOrder) \in Nat /\ Len(SyncOrder) \in Nat
  BY DEF AlarmOrder, SyncOrder
<1>7. op \in Verified /\ u # <<>> => u[Len(u)][1] = "verify"
  <2> SUFFICES ASSUME op \in Verified, u # <<>> PROVE u[Len(u)][1] = "verify"
    OBVIOUS
  <2>1. Len(u) \in 1..Len(u) /\ Len(u) + d = Len(t) /\ Len(t) > 0
    <3>1. Len(u) \in Nat \ {0}
      BY EmptySeq
    <3> QED BY <3>1, <1>1
  <2>2. t # <<>>
    BY <2>1, EmptySeq
  <2> QED BY <2>1, <2>2, <1>2 DEF Shape
<1>8. ListedOnce(u)
  <2> HIDE DEF d
  <2> SUFFICES ASSUME NEW j \in 1..Len(u), NEW k \in 1..Len(u), j < k, u[k][1] = "queryDevList"
               PROVE  u[j][1] # "queryOnlineChlList"
    BY DEF ListedOnce
  <2>1. j + d < k + d
    BY <1>2, <1>1
  <2> QED BY <2>1, <1>2 DEF Shape, ListedOnce
<1> QED BY <1>4, <1>5, <1>6, <1>7, <1>8 DEF Shape

\* What an operation drops of its program leaves a suffix.
LEMMA Dropped ==
  ASSUME NEW op, NEW t, Shape(op, t)
  PROVE  /\ t \in Seq(Step) /\ Len(t) \in Nat
         /\ Shape(op, <<>>)
         /\ t # <<>> => Head(t) = t[1] /\ Head(t) \in StepOf(op) /\ Len(t) > 0
         /\ t # <<>> => Shape(op, Tail(t)) /\ Suffix(Tail(t), t) /\ Len(Tail(t)) = Len(t) - 1
         /\ Len(t) > 1 => /\ Shape(op, SubSeq(t, 3, Len(t))) /\ Suffix(SubSeq(t, 3, Len(t)), t)
                          /\ Len(SubSeq(t, 3, Len(t))) = Len(t) - 2
<1>1. t \in Seq(Step) /\ Len(t) \in Nat
  BY LenProperties, SeqMonotonic DEF Shape, StepOf
<1>2. Shape(op, <<>>)
  <2>1. Suffix(<<>>, t) /\ <<>> \in Seq(Step)
    BY <1>1 DEF Suffix
  <2> QED BY <2>1, SuffixFits
<1>3. ASSUME t # <<>>
      PROVE  Head(t) = t[1] /\ Head(t) \in StepOf(op) /\ Len(t) > 0
  BY <1>1, <1>3, HeadTailProperties, EmptySeq DEF Shape
<1>4. ASSUME t # <<>>
      PROVE  Shape(op, Tail(t)) /\ Suffix(Tail(t), t) /\ Len(Tail(t)) = Len(t) - 1
  <2>1. Tail(t) \in Seq(Step) /\ Len(Tail(t)) = Len(t) - 1 /\ \A k \in 1..Len(Tail(t)) : Tail(t)[k] = t[k + 1]
    BY <1>1, <1>4, HeadTailProperties
  <2>2. Suffix(Tail(t), t)
    BY <2>1, <1>1, <1>3, <1>4 DEF Suffix
  <2> QED BY <2>1, <2>2, SuffixFits
<1>5. ASSUME Len(t) > 1
      PROVE  /\ Shape(op, SubSeq(t, 3, Len(t))) /\ Suffix(SubSeq(t, 3, Len(t)), t)
             /\ Len(SubSeq(t, 3, Len(t))) = Len(t) - 2
  <2> DEFINE u == SubSeq(t, 3, Len(t))
  <2>1. \A i \in 3..Len(t) : t[i] \in Step
    BY <1>1, ElementOfSeq
  <2>2. u \in Seq(Step) /\ Len(u) = (IF 3 <= Len(t) THEN Len(t) - 3 + 1 ELSE 0)
        /\ \A k \in 1..Len(t) - 3 + 1 : u[k] = t[3 + k - 1]
    BY <2>1, <1>1, SubSeqProperties
  <2> HIDE DEF u
  <2>3. Len(u) = Len(t) - 2
    <3>1. CASE Len(t) = 2
      BY <3>1, <2>2
    <3>2. CASE Len(t) # 2
      <4>1. 3 <= Len(t)
        <5>1. \A n \in Nat : n > 1 /\ n # 2 => 3 <= n
          OBVIOUS
        <5> QED BY <5>1, <3>2, <1>1, <1>5
      <4>2. Len(u) = Len(t) - 3 + 1
        BY <4>1, <2>2
      <4> QED BY <4>2, <1>1
    <3> QED BY <3>1, <3>2
  <2>6. ASSUME NEW k \in 1..Len(u) PROVE u[k] = t[k + 2]
    <3>1. k \in 1..Len(t) - 3 + 1 /\ 3 + k - 1 = k + 2
      BY <2>3, <1>1
    <3> QED BY <3>1, <2>2
  <2>4. Suffix(u, t)
    BY <2>3, <2>6, <1>1, <1>5 DEF Suffix
  <2>5. Shape(op, u)
    BY <2>2, <2>4, SuffixFits
  <2> QED BY <2>3, <2>4, <2>5 DEF u
<1> QED BY <1>1, <1>2, <1>3, <1>4, <1>5

\* A request that neither lists the channels nor touches the alarm server.
Ordinary == {s \in Step : s[1] \notin {"queryScheduleList", "queryDevList"} /\ (s[1] = "edit" => s[2] # "alarm")}

\* The operations with requests in an order of their own.
Special == Verified \cup {"set_alarm_server", "change_admin_password_and_sync", "edit_nvr_ipc_passwords"}

\* The requests of a program.
LEMMA Requests ==
  /\ \A s \in Setting : Q(s) \in Step /\ E(s) \in Step /\ V(s) \in Step /\ <<"queryScheduleList", s>> \in Step
  /\ \A s \in Setting \ {"alarm"} : Q(s) \in Ordinary /\ E(s) \in Ordinary /\ V(s) \in Ordinary
  /\ \A n \in Plain : <<n, None>> \in Step /\ One(n) \in Seq(Step)
  /\ \A n \in Plain \ {"queryDevList"} : <<n, None>> \in Ordinary /\ One(n) \in Seq(Ordinary)
<1>1. \A s \in Setting : Q(s) \in Step /\ E(s) \in Step /\ V(s) \in Step /\ <<"queryScheduleList", s>> \in Step
  BY DEF Q, E, V, Step, Written
<1>2. \A n \in Plain : <<n, None>> \in Step
  BY DEF Step
<1>3. \A s \in Setting \ {"alarm"} : Q(s) \in Ordinary /\ E(s) \in Ordinary /\ V(s) \in Ordinary
  BY <1>1 DEF Ordinary, Q, E, V
<1>4. \A n \in Plain \ {"queryDevList"} : <<n, None>> \in Ordinary
  BY <1>2 DEF Ordinary, Plain
<1>5. \A n \in Plain : One(n) \in Seq(Step)
  BY <1>2 DEF One
<1>6. \A n \in Plain \ {"queryDevList"} : One(n) \in Seq(Ordinary)
  BY <1>4 DEF One
<1> QED BY <1>1, <1>2, <1>3, <1>4, <1>5, <1>6

\* A program of ordinary requests.
LEMMA OrdinaryShape ==
  ASSUME NEW t \in Seq(Ordinary), NEW op, op \notin Special
  PROVE  Shape(op, t)
<1>1. \A k \in 1..Len(t) : t[k] \in Ordinary
  BY ElementOfSeq
<1>2. Ordinary \subseteq StepOf(op)
  BY DEF Ordinary, StepOf, Special
<1>3. t \in Seq(StepOf(op))
  BY <1>2, SeqMonotonic
<1>4. ListedOnce(t)
  BY <1>1 DEF ListedOnce, Ordinary
<1> QED BY <1>3, <1>4 DEF Shape, Special

\* Who is online is asked after the channels are listed.
LEMMA ListShape == List \in Seq(Step) /\ Len(List) = 2 /\ List[1] = <<"queryDevList", None>> /\ List[2] = <<"queryOnlineChlList", None>>
<1> DEFINE a == One("queryDevList")
           b == One("queryOnlineChlList")
<1>1. a \in Seq(Step) /\ b \in Seq(Step)
  BY Requests DEF Plain
<1>2. Len(a) = 1 /\ Len(b) = 1 /\ a[1] = <<"queryDevList", None>> /\ b[1] = <<"queryOnlineChlList", None>>
  BY DEF One
<1>3. List = a \o b
  BY DEF List
<1> HIDE DEF a, b
<1>4. a \o b \in Seq(Step) /\ Len(a \o b) = 2 /\ \A k \in 1..2 : (a \o b)[k] = IF k <= 1 THEN a[k] ELSE b[k - 1]
  BY <1>1, <1>2, ConcatProperties
<1>5. (a \o b)[1] = a[1] /\ (a \o b)[2] = b[1]
  BY <1>4
<1> QED BY <1>2, <1>3, <1>4, <1>5

\* A program that begins with requests that do not ask who is online, lists the
\* channels, and goes on with ordinary requests.
LEMMA ListingShape ==
  ASSUME NEW t \in Seq(Ordinary), NEW s \in Seq(Ordinary), \A k \in 1..Len(s) : s[k][1] # "queryOnlineChlList",
         NEW op, op \notin Special
  PROVE  Shape(op, List \o t) /\ Shape(op, s \o (List \o t)) /\ Shape(op, List)
<1>0. Ordinary \subseteq Step /\ Step \subseteq Step
  BY DEF Ordinary
<1>1. t \in Seq(Step) /\ s \in Seq(Step) /\ Len(t) \in Nat /\ Len(s) \in Nat
  BY <1>0, SeqMonotonic, LenProperties
<1>2. \A k \in 1..Len(t) : t[k][1] # "queryDevList"
  <2>1. \A k \in 1..Len(t) : t[k] \in Ordinary
    BY ElementOfSeq
  <2> QED BY <2>1 DEF Ordinary
<1>3. \A k \in 1..Len(s) : s[k][1] # "queryDevList"
  <2>1. \A k \in 1..Len(s) : s[k] \in Ordinary
    BY ElementOfSeq
  <2> QED BY <2>1 DEF Ordinary
<1> DEFINE u == List \o t
           v == s \o u
<1>4. u \in Seq(Step) /\ Len(u) = 2 + Len(t) /\ \A k \in 1..2 + Len(t) : u[k] = IF k <= 2 THEN List[k] ELSE t[k - 2]
  <2>1. u \in Seq(Step) /\ Len(u) = Len(List) + Len(t)
        /\ \A k \in 1..Len(List) + Len(t) : u[k] = IF k <= Len(List) THEN List[k] ELSE t[k - Len(List)]
    BY <1>1, ListShape, ConcatProperties
  <2> QED BY <2>1, ListShape
<1> HIDE DEF u
<1>5. \A k \in 1..Len(u) : u[k][1] = "queryDevList" => k = 1
  <2> SUFFICES ASSUME NEW k \in 1..Len(u), u[k][1] = "queryDevList", k # 1 PROVE FALSE
    OBVIOUS
  <2>1. CASE k = 2
    <3>1. u[2] = List[2]
      BY <2>1, <1>4, <1>1
    <3> QED BY <3>1, <2>1, ListShape
  <2>2. CASE k # 2
    <3>1. u[k] = t[k - 2] /\ k - 2 \in 1..Len(t)
      BY <2>2, <1>4, <1>1
    <3> QED BY <3>1, <1>2
  <2> QED BY <2>1, <2>2
<1>6. ListedOnce(u)
  <2> SUFFICES ASSUME NEW j \in 1..Len(u), NEW k \in 1..Len(u), j < k, u[k][1] = "queryDevList" PROVE FALSE
    BY DEF ListedOnce
  <2> QED BY <1>5
<1>7. v \in Seq(Step) /\ Len(v) = Len(s) + Len(u) /\ \A k \in 1..Len(s) + Len(u) : v[k] = IF k <= Len(s) THEN s[k] ELSE u[k - Len(s)]
  BY <1>1, <1>4, ConcatProperties
<1> HIDE DEF v
<1>8. \A k \in 1..Len(v) : v[k][1] = "queryDevList" => k = Len(s) + 1
  <2> SUFFICES ASSUME NEW k \in 1..Len(v), v[k][1] = "queryDevList", k # Len(s) + 1 PROVE FALSE
    OBVIOUS
  <2>1. CASE k <= Len(s)
    <3>1. v[k] = s[k] /\ k \in 1..Len(s)
      BY <2>1, <1>7, <1>4, <1>1
    <3> QED BY <3>1, <1>3
  <2>2. CASE ~ k <= Len(s)
    <3>1. v[k] = u[k - Len(s)] /\ k - Len(s) \in 1..Len(u) /\ k - Len(s) # 1
      BY <2>2, <1>7, <1>4, <1>1
    <3> QED BY <3>1, <1>5
  <2> QED BY <2>1, <2>2
<1>9. ListedOnce(v)
  <2> SUFFICES ASSUME NEW j \in 1..Len(v), NEW k \in 1..Len(v), j < k, v[k][1] = "queryDevList"
               PROVE v[j][1] # "queryOnlineChlList"
    BY DEF ListedOnce
  <2>1. j \in 1..Len(s)
    BY <1>8, <1>7, <1>4, <1>1
  <2>2. v[j] = s[j]
    BY <2>1, <1>7, <1>4, <1>1
  <2> QED BY <2>1, <2>2
<1>10. ListedOnce(List)
  <2> SUFFICES ASSUME NEW j \in 1..2, NEW k \in 1..2, j < k PROVE List[k][1] # "queryDevList"
    BY ListShape DEF ListedOnce
  <2>1. k = 2
    OBVIOUS
  <2> QED BY <2>1, ListShape
<1>11. Step \cap {s1 \in Step : s1[1] # "queryScheduleList" /\ (s1[1] = "edit" => s1[2] # "alarm")} \subseteq StepOf(op)
  BY DEF StepOf, Special
<1>12. ASSUME NEW w \in Seq(Step), \A k \in 1..Len(w) : w[k] \in Ordinary \cup {<<"queryDevList", None>>}
       PROVE  w \in Seq(StepOf(op))
  <2>1. <<"queryDevList", None>> \in Step
    BY Requests DEF Plain
  <2>2. \A k \in 1..Len(w) : w[k] \in StepOf(op)
    BY <2>1, <1>11, <1>12 DEF Ordinary
  <2>3. Len(w) \in Nat
    BY LenProperties
  <2>4. SubSeq(w, 1, Len(w)) \in Seq(StepOf(op))
    BY <2>2, <2>3, SubSeqProperties
  <2> QED BY <2>4, SubSeqFull
<1>13. \A k \in 1..2 : List[k] \in Ordinary \cup {<<"queryDevList", None>>}
  <2>1. <<"queryOnlineChlList", None>> \in Ordinary
    BY Requests DEF Plain
  <2>2. List[1] \in {<<"queryDevList", None>>} /\ List[2] \in Ordinary
    BY <2>1, ListShape
  <2>3. \A k \in 1..2 : k = 1 \/ k = 2
    OBVIOUS
  <2> QED BY <2>2, <2>3, Zenon
<1>14. \A k \in 1..Len(u) : u[k] \in Ordinary \cup {<<"queryDevList", None>>}
  <2> SUFFICES ASSUME NEW k \in 1..Len(u) PROVE u[k] \in Ordinary \cup {<<"queryDevList", None>>}
    OBVIOUS
  <2>1. CASE k <= 2
    BY <2>1, <1>4, <1>1, <1>13
  <2>2. CASE ~ k <= 2
    <3>1. u[k] = t[k - 2] /\ k - 2 \in 1..Len(t)
      BY <2>2, <1>4, <1>1
    <3> QED BY <3>1, ElementOfSeq
  <2> QED BY <2>1, <2>2
<1>15. \A k \in 1..Len(v) : v[k] \in Ordinary \cup {<<"queryDevList", None>>}
  <2> SUFFICES ASSUME NEW k \in 1..Len(v) PROVE v[k] \in Ordinary \cup {<<"queryDevList", None>>}
    OBVIOUS
  <2>1. CASE k <= Len(s)
    <3>1. v[k] = s[k] /\ k \in 1..Len(s)
      BY <2>1, <1>7, <1>4, <1>1
    <3> QED BY <3>1, ElementOfSeq
  <2>2. CASE ~ k <= Len(s)
    <3>1. v[k] = u[k - Len(s)] /\ k - Len(s) \in 1..Len(u)
      BY <2>2, <1>7, <1>4, <1>1
    <3> QED BY <3>1, <1>14
  <2> QED BY <2>1, <2>2
<1>16. u \in Seq(StepOf(op)) /\ v \in Seq(StepOf(op)) /\ List \in Seq(StepOf(op))
  BY <1>4, <1>7, <1>12, <1>13, <1>14, <1>15, ListShape
<1>17. op \notin Verified /\ op # "set_alarm_server" /\ op # "change_admin_password_and_sync"
  BY DEF Special
<1> QED BY <1>6, <1>9, <1>10, <1>16, <1>17 DEF Shape, u, v

\* The operations that write back part of what they read.
Reading == {"disable_rtsp", "disable_api_server", "ensure_services_enabled", "snapshot",
            "set_nvr_face_detection", "set_alarm_server", "set_user_email", "set_secure_email"}

\* The programs of ordinary requests.
LEMMA OrdinaryPrograms ==
  /\ \A s \in Setting \ {"alarm"} : /\ Enable(s) \in Seq(Ordinary) /\ Disable(s) \in Seq(Ordinary)
                                    /\ <<Q(s)>> \in Seq(Ordinary) /\ <<E(s)>> \in Seq(Ordinary)
  /\ \A n \in Plain \ {"queryDevList"} : One(n) \in Seq(Ordinary)
  /\ Login \in Seq(Ordinary) /\ Ensure \in Seq(Ordinary) /\ FaceProbe \in Seq(Ordinary)
  /\ ChangePasswordCommand \in Seq(Ordinary)
<1>1. \A s \in Setting \ {"alarm"} : /\ Enable(s) \in Seq(Ordinary) /\ Disable(s) \in Seq(Ordinary)
                                     /\ <<Q(s)>> \in Seq(Ordinary) /\ <<E(s)>> \in Seq(Ordinary)
  BY Requests DEF Enable, Disable
<1>2. \A n \in Plain \ {"queryDevList"} : One(n) \in Seq(Ordinary)
  BY Requests
<1>3. Login \in Seq(Ordinary)
  BY <1>2, ConcatProperties DEF Login, Plain
<1>4. Ensure \in Seq(Ordinary)
  BY Requests DEF Ensure, Setting
<1>5. FaceProbe \in Seq(Ordinary)
  <2>1. <<Q("lan"), Q("rtsp"), Q("api")>> \in Seq(Ordinary)
    BY Requests DEF Setting
  <2>2. One("searchImageByImageV2") \in Seq(Ordinary)
    BY <1>2 DEF Plain
  <2> QED BY <2>1, <2>2, ConcatProperties DEF FaceProbe
<1>6. ChangePasswordCommand \in Seq(Ordinary)
  BY <1>2, <1>3, ConcatProperties DEF ChangePasswordCommand, OwnPassword, Plain
<1> QED BY <1>1, <1>2, <1>3, <1>4, <1>5, <1>6

\* The readbacks end the programs that have them.
LEMMA VerifiedPrograms ==
  /\ Shape("set_user_email", UserEmail) /\ Shape("set_secure_email", SecureEmail)
  /\ Shape("set_nvr_face_detection", FaceDetection)
  /\ Shape("set_user_email", Login \o <<V("mail")>>)
<1> DEFINE T == {s \in Step : s[1] \in {"query", "edit", "verify", "reqLogin", "doLogin"} /\ (s[1] = "edit" => s[2] # "alarm")}
<1>1. \A s \in Setting \ {"alarm"} : Q(s) \in T /\ E(s) \in T /\ V(s) \in T
  BY Requests DEF Q, E, V
<1>2. ASSUME NEW op \in Verified, NEW t \in Seq(T), t[Len(t)][1] = "verify"
      PROVE  Shape(op, t)
  <2>1. T \subseteq StepOf(op)
    BY DEF StepOf, Verified
  <2>2. t \in Seq(StepOf(op))
    BY <2>1, SeqMonotonic
  <2>3. \A k \in 1..Len(t) : t[k] \in T
    BY ElementOfSeq
  <2>4. ListedOnce(t)
    BY <2>3 DEF ListedOnce
  <2> QED BY <1>2, <2>2, <2>4 DEF Shape, Verified
<1>3. UserEmail \in Seq(T)
  BY <1>1 DEF UserEmail, Setting
<1>4. UserEmail[Len(UserEmail)] = V("mail")
  BY DEF UserEmail
<1>5. SecureEmail \in Seq(T) /\ SecureEmail[Len(SecureEmail)] = V("secure")
  BY <1>1 DEF SecureEmail, Setting
<1>6. FaceDetection \in Seq(T) /\ FaceDetection[Len(FaceDetection)] = V("face")
  BY <1>1 DEF FaceDetection, Setting
<1>7. Login \o <<V("mail")>> \in Seq(T) /\ (Login \o <<V("mail")>>)[Len(Login \o <<V("mail")>>)] = V("mail")
  <2>1. One("reqLogin") \in Seq(T) /\ One("doLogin") \in Seq(T)
    BY Requests DEF One, Plain
  <2>2. Login \in Seq(T)
    BY <2>1, ConcatProperties DEF Login
  <2>3. <<V("mail")>> \in Seq(T) /\ Len(<<V("mail")>>) = 1 /\ <<V("mail")>>[1] = V("mail")
    BY <1>1 DEF Setting
  <2> DEFINE t == <<V("mail")>>
  <2> HIDE DEF t, T
  <2>4. Login \o t \in Seq(T) /\ Len(Login \o t) = Len(Login) + Len(t)
        /\ \A k \in 1..Len(Login) + Len(t) : (Login \o t)[k] = IF k <= Len(Login) THEN Login[k] ELSE t[k - Len(Login)]
    BY <2>2, <2>3, ConcatProperties DEF t
  <2>5. Len(Login) \in Nat /\ Len(t) = 1 /\ t[1] = V("mail")
    BY <2>2, <2>3, LenProperties DEF t
  <2>6. Len(Login \o t) = Len(Login) + 1 /\ (Login \o t)[Len(Login) + 1] = t[1]
    <3>1. Len(Login) + 1 \in 1..Len(Login) + Len(t) /\ ~ Len(Login) + 1 <= Len(Login) /\ Len(Login) + 1 - Len(Login) = 1
      BY <2>5
    <3> QED BY <2>4, <2>5, <3>1
  <2> QED BY <2>4, <2>5, <2>6 DEF t
<1>8. V("mail")[1] = "verify" /\ V("secure")[1] = "verify" /\ V("face")[1] = "verify"
  BY DEF V
<1> HIDE DEF T
<1> QED BY <1>2, <1>3, <1>4, <1>5, <1>6, <1>7, <1>8 DEF Verified

\* The configuration of the alarm server is read, its schedule looked up, and written.
LEMMA AlarmProgram == Shape("set_alarm_server", AlarmConfig)
<1>1. AlarmConfig \in Seq(StepOf("set_alarm_server"))
  BY Requests DEF AlarmConfig, StepOf, Setting, Q, E, Verified
<1>2. Len(AlarmConfig) = 3 /\ AlarmConfig[1][1] = "query" /\ AlarmConfig[2][1] = "queryScheduleList" /\ AlarmConfig[3][1] = "edit"
  BY DEF AlarmConfig, Q, E
<1>3. Len(AlarmOrder) = 3 /\ AlarmOrder[3] = "query" /\ AlarmOrder[2] = "queryScheduleList" /\ AlarmOrder[1] = "edit"
  BY DEF AlarmOrder
<1>4. \A k \in 1..3 : k = 1 \/ k = 2 \/ k = 3
  OBVIOUS
<1>5. InOrder(AlarmConfig, AlarmOrder)
  <2>1. \A k \in 1..3 : AlarmConfig[4 - k][1] = AlarmOrder[k]
    BY <1>2, <1>3, <1>4
  <2> QED BY <2>1, <1>2, <1>3 DEF InOrder
<1>6. ListedOnce(AlarmConfig)
  BY <1>2, <1>4 DEF ListedOnce
<1> QED BY <1>1, <1>5, <1>6 DEF Shape, Verified

\* Requests of one kind after the other.
LEMMA OneMore ==
  ASSUME NEW s \in Seq(Step), NEW n \in Plain
  PROVE  /\ s \o One(n) \in Seq(Step) /\ Len(s \o One(n)) = Len(s) + 1
         /\ \A k \in 1..Len(s) : (s \o One(n))[k] = s[k]
         /\ (s \o One(n))[Len(s) + 1] = <<n, None>>
<1> DEFINE u == One(n)
<1>1. u \in Seq(Step) /\ Len(u) = 1 /\ u[1] = <<n, None>>
  BY Requests DEF One
<1>2. Len(s) \in Nat
  BY LenProperties
<1> HIDE DEF u
<1>3. s \o u \in Seq(Step) /\ Len(s \o u) = Len(s) + Len(u)
      /\ \A k \in 1..Len(s) + Len(u) : (s \o u)[k] = IF k <= Len(s) THEN s[k] ELSE u[k - Len(s)]
  BY <1>1, ConcatProperties
<1>4. (s \o u)[Len(s) + 1] = u[1]
  <2>1. Len(s) + 1 \in 1..Len(s) + Len(u) /\ ~ Len(s) + 1 <= Len(s) /\ Len(s) + 1 - Len(s) = 1
    BY <1>1, <1>2
  <2> QED BY <1>3, <2>1
<1>5. \A k \in 1..Len(s) : k \in 1..Len(s) + Len(u) /\ k <= Len(s)
  BY <1>1, <1>2
<1> QED BY <1>1, <1>3, <1>4, <1>5 DEF u

\* The password of every listed channel is stored before the recorder's own changes,
\* and a login follows.
LEMMA SyncProgram == Shape("change_admin_password_and_sync", Sync) /\ Len(Sync) = 6
<1> DEFINE a == List \o One("editDevList")
           b == a \o One("editUserPassword")
           c == b \o One("reqLogin")
           d == c \o One("doLogin")
<1>1. a \in Seq(Step) /\ Len(a) = 3 /\ a[1] = <<"queryDevList", None>> /\ a[2] = <<"queryOnlineChlList", None>>
      /\ a[3] = <<"editDevList", None>>
  <2>1. "editDevList" \in Plain /\ 1 \in 1..2 /\ 2 \in 1..2
    BY DEF Plain
  <2>2. a \in Seq(Step) /\ Len(a) = Len(List) + 1 /\ (\A k \in 1..Len(List) : a[k] = List[k])
        /\ a[Len(List) + 1] = <<"editDevList", None>>
    BY <2>1, ListShape, OneMore
  <2> HIDE DEF a
  <2> QED BY <2>1, <2>2, ListShape
<1> HIDE DEF a
<1>2. b \in Seq(Step) /\ Len(b) = 4 /\ b[1] = a[1] /\ b[2] = a[2] /\ b[3] = a[3] /\ b[4] = <<"editUserPassword", None>>
  <2>1. "editUserPassword" \in Plain /\ 1 \in 1..3 /\ 2 \in 1..3 /\ 3 \in 1..3
    BY DEF Plain
  <2>2. b \in Seq(Step) /\ Len(b) = Len(a) + 1 /\ (\A k \in 1..Len(a) : b[k] = a[k])
        /\ b[Len(a) + 1] = <<"editUserPassword", None>>
    BY <2>1, <1>1, OneMore
  <2> HIDE DEF b
  <2> QED BY <2>1, <2>2, <1>1
<1> HIDE DEF b
<1>3. c \in Seq(Step) /\ Len(c) = 5 /\ c[1] = a[1] /\ c[2] = a[2] /\ c[3] = a[3] /\ c[4] = b[4] /\ c[5] = <<"reqLogin", None>>
  <2>1. "reqLogin" \in Plain /\ 1 \in 1..4 /\ 2 \in 1..4 /\ 3 \in 1..4 /\ 4 \in 1..4
    BY DEF Plain
  <2>2. c \in Seq(Step) /\ Len(c) = Len(b) + 1 /\ (\A k \in 1..Len(b) : c[k] = b[k])
        /\ c[Len(b) + 1] = <<"reqLogin", None>>
    BY <2>1, <1>2, OneMore
  <2> HIDE DEF c
  <2> QED BY <2>1, <2>2, <1>2
<1> HIDE DEF c
<1>4. d \in Seq(Step) /\ Len(d) = 6 /\ d[1] = a[1] /\ d[2] = a[2] /\ d[3] = a[3] /\ d[4] = b[4] /\ d[5] = c[5]
      /\ d[6] = <<"doLogin", None>>
  <2>1. "doLogin" \in Plain /\ 1 \in 1..5 /\ 2 \in 1..5 /\ 3 \in 1..5 /\ 4 \in 1..5 /\ 5 \in 1..5
    BY DEF Plain
  <2>2. d \in Seq(Step) /\ Len(d) = Len(c) + 1 /\ (\A k \in 1..Len(c) : d[k] = c[k])
        /\ d[Len(c) + 1] = <<"doLogin", None>>
    BY <2>1, <1>3, OneMore
  <2> HIDE DEF d
  <2> QED BY <2>1, <2>2, <1>3
<1>5. Sync = d
  <2> DEFINE x == One("reqLogin")
             y == One("doLogin")
  <2>1. x \in Seq(Step) /\ y \in Seq(Step)
    BY Requests DEF Plain
  <2> HIDE DEF x, y
  <2>2. (b \o x) \o y = b \o (x \o y)
    BY <2>1, <1>2, ConcatAssociative
  <2> QED BY <2>2 DEF Sync, StoreCredentials, OwnPassword, Login, a, b, c, d, x, y
<1> HIDE DEF d
<1>6. /\ d[1][1] = "queryDevList" /\ d[2][1] = "queryOnlineChlList" /\ d[3][1] = "editDevList"
      /\ d[4][1] = "editUserPassword" /\ d[5][1] = "reqLogin" /\ d[6][1] = "doLogin"
  BY <1>1, <1>2, <1>3, <1>4
<1>7. \A k \in 1..6 : k = 1 \/ k = 2 \/ k = 3 \/ k = 4 \/ k = 5 \/ k = 6
  OBVIOUS
<1>8. d \in Seq(StepOf("change_admin_password_and_sync"))
  <2>1. \A k \in 1..6 : d[k] \in Step
    BY <1>4, ElementOfSeq
  <2>2. \A k \in 1..6 : d[k][1] \notin {"queryScheduleList", "edit"}
    BY <1>6, <1>7
  <2>3. \A k \in 1..6 : d[k] \in StepOf("change_admin_password_and_sync")
    BY <2>1, <2>2 DEF StepOf, Verified
  <2>4. SubSeq(d, 1, 6) \in Seq(StepOf("change_admin_password_and_sync"))
    BY <2>3, SubSeqProperties
  <2> QED BY <1>4, <2>4, SubSeqFull
<1>9. /\ Len(SyncOrder) = 6 /\ SyncOrder[1] = "doLogin" /\ SyncOrder[2] = "reqLogin" /\ SyncOrder[3] = "editUserPassword"
      /\ SyncOrder[4] = "editDevList" /\ SyncOrder[5] = "queryOnlineChlList" /\ SyncOrder[6] = "queryDevList"
  BY DEF SyncOrder
<1>10. InOrder(d, SyncOrder)
  <2>1. \A k \in 1..6 : d[7 - k][1] = SyncOrder[k]
    BY <1>6, <1>7, <1>9
  <2> QED BY <2>1, <1>4, <1>9 DEF InOrder
<1>11. ListedOnce(d)
  <2>1. \A k \in 1..6 : d[k][1] = "queryDevList" => k = 1
    BY <1>6, <1>7
  <2> SUFFICES ASSUME NEW j \in 1..6, NEW k \in 1..6, j < k, d[k][1] = "queryDevList" PROVE FALSE
    BY <1>4 DEF ListedOnce
  <2> QED BY <2>1
<1> QED BY <1>4, <1>5, <1>8, <1>10, <1>11 DEF Shape, Verified

\* Every channel is edited by the same request.
LEMMA IpcProgram == Shape("edit_nvr_ipc_passwords", One("editIPChlPassword"))
<1>1. <<"editIPChlPassword", None>> \in StepOf("edit_nvr_ipc_passwords")
  BY Requests DEF StepOf, Plain, Verified
<1>2. One("editIPChlPassword") \in Seq(StepOf("edit_nvr_ipc_passwords")) /\ Len(One("editIPChlPassword")) = 1
  BY <1>1 DEF One
<1>3. ListedOnce(One("editIPChlPassword"))
  <2> SUFFICES ASSUME NEW j \in 1..1, NEW k \in 1..1, j < k PROVE FALSE
    BY <1>2 DEF ListedOnce
  <2> QED OBVIOUS
<1> QED BY <1>2, <1>3 DEF Shape, Verified

\* The programs that list the channels.
LEMMA ListingPrograms ==
  ASSUME NEW op, op \notin Special
  PROVE  Shape(op, List) /\ Shape(op, RtspUrl) /\ Shape(op, SnapshotCommand) /\ Shape(op, StoreCredentials)
<1>1. <<Q("rtsp")>> \in Seq(Ordinary) /\ One("editDevList") \in Seq(Ordinary) /\ Ensure \in Seq(Ordinary)
  BY OrdinaryPrograms DEF Setting, Plain
<1>2. \A k \in 1..Len(Ensure) : Ensure[k][1] # "queryOnlineChlList"
  <2>1. Len(Ensure) = 4 /\ Ensure[1] = Q("rtsp") /\ Ensure[2] = E("rtsp") /\ Ensure[3] = Q("api") /\ Ensure[4] = E("api")
    BY DEF Ensure
  <2>2. \A k \in 1..4 : k = 1 \/ k = 2 \/ k = 3 \/ k = 4
    OBVIOUS
  <2> QED BY <2>1, <2>2 DEF Q, E
<1>3. Shape(op, List) /\ Shape(op, RtspUrl) /\ Shape(op, SnapshotCommand)
  BY <1>1, <1>2, ListingShape DEF RtspUrl, SnapshotCommand
<1>4. Shape(op, StoreCredentials)
  BY <1>1, <1>2, ListingShape DEF StoreCredentials
<1> QED BY <1>3, <1>4

\* What an operation has to do when it begins.
LEMMA Programs ==
  ASSUME NEW op \in DOMAIN Program
  PROVE  Shape(op, Program[op])
<1>1. CASE op \in Verified
  BY <1>1, VerifiedPrograms DEF Verified, Program
<1>2. CASE op \in {"set_alarm_server", "change_admin_password_and_sync", "edit_nvr_ipc_passwords"}
  BY <1>2, AlarmProgram, SyncProgram, IpcProgram DEF Program
<1>3. CASE op \in {"query_channels", "get_rtsp_url", "update_device_credentials", "snapshot"}
  <2>1. op \notin Special
    BY <1>3 DEF Special, Verified
  <2> QED BY <1>3, <2>1, ListingPrograms DEF Program
<1>4. CASE op \notin Special \cup {"query_channels", "get_rtsp_url", "update_device_credentials", "snapshot"}
  <2>1. Program[op] \in Seq(Ordinary)
    <3>6. /\ <<Q("rtsp")>> \in Seq(Ordinary) /\ <<Q("lan")>> \in Seq(Ordinary) /\ <<Q("mail")>> \in Seq(Ordinary)
          /\ <<Q("face")>> \in Seq(Ordinary) /\ <<Q("groups")>> \in Seq(Ordinary) /\ <<E("groups")>> \in Seq(Ordinary)
          /\ <<E("platform")>> \in Seq(Ordinary) /\ <<E("lan")>> \in Seq(Ordinary)
      BY OrdinaryPrograms DEF Setting
    <3>1. CASE op \in {"enable_rtsp", "disable_rtsp", "enable_api_server", "disable_api_server"}
      BY <3>1, OrdinaryPrograms DEF Program, Setting
    <3>2. CASE op \in {"login", "ensure_services_enabled", "change_password", "probe_face_search"}
      BY <3>2, OrdinaryPrograms DEF Program
    <3>3. CASE op \in {"query_services", "query_lan", "query_users", "query_ai_resource", "query_face_groups", "search_face_events"}
      <4>1. /\ Program["query_services"] = <<Q("rtsp")>> /\ Program["query_lan"] = <<Q("lan")>>
            /\ Program["query_users"] = <<Q("mail")>> /\ Program["query_ai_resource"] = <<Q("face")>>
            /\ Program["query_face_groups"] = <<Q("groups")>> /\ Program["search_face_events"] = <<Q("groups")>>
        BY DEF Program, ServiceReads, LanReads, UserReads, AiReads, FaceReads, FaceEvents
      <4> QED BY <3>3, <3>6, <4>1, Zenon
    <3>4. CASE op \in {"edit_face_groups", "set_platform_access", "edit_nvr_lan_device_network"}
      <4>1. /\ Program["edit_face_groups"] = <<E("groups")>> /\ Program["set_platform_access"] = <<E("platform")>>
            /\ Program["edit_nvr_lan_device_network"] = <<E("lan")>>
        BY DEF Program, FaceGroups
      <4> QED BY <3>4, <3>6, <4>1, Zenon
    <3>5. CASE op \in {"change_own_password", "delete_nvr_devices", "add_nvr_devices", "search_plate_events"}
      BY <3>5, OrdinaryPrograms DEF Program, Plain, OwnPassword, PlateSearch
    <3> QED BY <1>4, <3>1, <3>2, <3>3, <3>4, <3>5 DEF Program, Special, Verified
  <2> QED BY <1>4, <2>1, OrdinaryShape
<1> QED BY <1>1, <1>2, <1>3, <1>4 DEF Special

\* What writes back part of a setting reads it first.
LEMMA ReadsFirst ==
  ASSUME NEW op \in DOMAIN Program, op \in Reading
  PROVE  Program[op] # <<>> /\ Head(Program[op])[1] = "query"
<1>1. CASE op \notin {"snapshot", "set_user_email", "set_secure_email"}
  BY <1>1 DEF Reading, Program, Disable, Ensure, FaceDetection, AlarmConfig, Q
<1>3. CASE op \in {"set_user_email", "set_secure_email"}
  <2>1. Program["set_user_email"] = UserEmail /\ Program["set_secure_email"] = SecureEmail
    BY DEF Program
  <2>2. Head(UserEmail) = Q("mail") /\ UserEmail # <<>>
    BY DEF UserEmail
  <2>3. Head(SecureEmail) = Q("secure") /\ SecureEmail # <<>>
    BY DEF SecureEmail
  <2>4. Q("mail")[1] = "query" /\ Q("secure")[1] = "query"
    BY DEF Q
  <2> QED BY <1>3, <2>1, <2>2, <2>3, <2>4
<1>2. CASE op = "snapshot"
  <2>1. Ensure \in Seq(Step) /\ List \in Seq(Step) /\ <<Q("rtsp")>> \in Seq(Step)
    <3>1. Ordinary \subseteq Step
      BY DEF Ordinary
    <3>2. <<Q("rtsp")>> \in Seq(Step)
      BY Requests DEF Setting
    <3>3. Ensure \in Seq(Step)
      BY <3>1, OrdinaryPrograms, SeqMonotonic
    <3> QED BY <3>2, <3>3, ListShape
  <2>2. RtspUrl \in Seq(Step)
    BY <2>1, ConcatProperties DEF RtspUrl
  <2>3. Len(Ensure) = 4 /\ Ensure[1][1] = "query"
    BY DEF Ensure, Q
  <2>4. Len(RtspUrl) \in Nat
    BY <2>2, LenProperties
  <2>5. SnapshotCommand \in Seq(Step) /\ Len(SnapshotCommand) = Len(Ensure) + Len(RtspUrl)
        /\ \A k \in 1..Len(Ensure) + Len(RtspUrl) : SnapshotCommand[k] = IF k <= Len(Ensure) THEN Ensure[k] ELSE RtspUrl[k - Len(Ensure)]
    BY <2>1, <2>2, ConcatProperties DEF SnapshotCommand
  <2>6. SnapshotCommand[1] = Ensure[1] /\ Len(SnapshotCommand) > 0
    BY <2>3, <2>4, <2>5
  <2>7. SnapshotCommand # <<>>
    BY <2>6, EmptySeq
  <2> QED BY <1>2, <2>3, <2>5, <2>6, <2>7, HeadTailProperties DEF Program
<1> QED BY <1>1, <1>2, <1>3

\* A value of a setting, and what an edit asks for.
Value == [on : BOOLEAN, detail : Detail]
Wish == [on : BOOLEAN, detail : Detail \cup {"a by name", "b by name"}]

\* The recorder, and an operation of the client.
Recorder ==
  [legacy : BOOLEAN, pw : Pw, session : BOOLEAN, schedules : SUBSET {"a"}, set : [Setting -> Value],
   devs : [Channel -> {"none", "up", "down"}], stored : [Channel -> Pw], cam : [Channel -> Pw], plates : SUBSET Plate]

Client == [pw : Pw, in : BOOLEAN, token : {None, "staged", "live"}, key : BOOLEAN, basic : Pw \cup {None}]

Call ==
  [op : DOMAIN Program, todo : Seq(Step), ok : BOOLEAN, on : BOOLEAN, seen : Value \cup {None}, want : Wish \cup {None},
   all : SUBSET Channel, total : BOOLEAN, devs : SUBSET Channel, off : SUBSET Channel, left : SUBSET (Channel \cup Plate),
   missed : SUBSET (Channel \cup Plate), had : SUBSET Plate, unread : SUBSET (Channel \cup Plate), found : SUBSET Plate]

Types ==
  /\ client \in Client /\ recorder \in Recorder
  /\ calls \in 0..MaxCalls /\ others \in 0..MaxOthers

\* An operation reads what it writes back, and writes names of schedules to the
\* alarm server only.
Values ==
  /\ call.op # "set_alarm_server" => call.want \in Value \cup {None}
  /\ call.op \in Reading /\ call.todo # <<>> /\ call.want = None => Head(call.todo)[1] = "query"

\* The edit of the alarm server names the schedule that was read.
Alarm ==
  call.op = "set_alarm_server" =>
    /\ Due("queryScheduleList") => call.seen \in Value /\ call.want = [on |-> call.on, detail |-> call.seen.detail]
    /\ Due("edit") =>
         /\ call.seen \in Value /\ call.seen.detail \in {"a", "null"}
         /\ call.want = [on |-> call.on, detail |-> IF call.seen.detail = "null" THEN "null" ELSE Named[call.seen.detail]]

\* The channels are those the recorder listed.
Enumerated ==
  /\ call.off \subseteq call.devs /\ (call.total /\ call.devs = {} => call.all = {})
  /\ (\E k \in 1..Len(call.todo) : call.todo[k][1] = "queryDevList") => call.off = {}

\* A record that was there all the time is found or unread, or still to be resolved.
Complete ==
  /\ call.had \subseteq recorder.plates
  /\ call.ok => call.had \subseteq call.found \cup call.unread \cup (IF Due("requestSmartTargetSnapImage") THEN call.left ELSE {})

\* How far the change of the password has come.
Synced ==
  call.op = "change_admin_password_and_sync" /\ call.ok =>
    /\ Len(call.todo) <= 3 => \A c \in call.devs : recorder.stored[c] = "new"
    /\ Len(call.todo) <= 2 => recorder.pw = "new"

\* The cameras that were edited and did not fail.
Passed ==
  call.op = "edit_nvr_ipc_passwords" /\ call.ok =>
    \A c \in Channel \ (call.left \cup call.missed) : recorder.cam[c] = "new"

CallInv == call \in Call /\ Shape(call.op, call.todo) /\ Values /\ Alarm /\ Enumerated /\ Complete /\ Synced /\ Passed

\* The inductive invariant of the client.
NInv == Types /\ (call # None => CallInv)

\* A request of the operation n is made, and the operation goes on or ends.
Moves(n) ==
  /\ Due(n) /\ CallInv
  /\ call' \in Call /\ call'.op = call.op /\ (call'.ok => call.ok)
  /\ \/ call'.todo = Tail(call.todo) \/ call'.todo = <<>>
     \/ Len(call.todo) > 1 /\ call'.todo = SubSeq(call.todo, 3, Len(call.todo))
  /\ call.op = "change_admin_password_and_sync" /\ call'.ok => call'.todo = Tail(call.todo)

\* What the request that is due says of the operation.
LEMMA DueSays ==
  ASSUME NEW n, Due(n), CallInv
  PROVE  /\ call # None /\ call \in Call /\ call.todo # <<>> /\ Len(call.todo) \in Nat \ {0}
         /\ Head(call.todo) = call.todo[1] /\ Head(call.todo) \in StepOf(call.op) /\ Head(call.todo)[1] = n
         /\ n \in Written => On \in Setting
         /\ call.op = "set_alarm_server" =>
              /\ Len(call.todo) \in 1..3 /\ n = AlarmOrder[Len(call.todo)] /\ On = "alarm"
         /\ call.op = "change_admin_password_and_sync" => Len(call.todo) \in 1..6 /\ n = SyncOrder[Len(call.todo)]
         /\ call.op \in Verified => n \in {"query", "edit", "verify", "reqLogin", "doLogin"}
         /\ call.op = "edit_nvr_ipc_passwords" => n = "editIPChlPassword"
         /\ call.op # "set_alarm_server" => n # "queryScheduleList" /\ (n = "edit" => On # "alarm")
         /\ call.op \in Reading /\ n # "query" => call.want # None
<1>1. call # None /\ call \in Call /\ call.todo # <<>> /\ Head(call.todo)[1] = n
  BY DEF Due, Busy, CallInv
<1>2. Len(call.todo) \in Nat /\ Head(call.todo) = call.todo[1] /\ Head(call.todo) \in StepOf(call.op) /\ Len(call.todo) > 0
  BY <1>1, Dropped DEF CallInv
<1>3. n \in Written => On \in Setting
  <2>1. Head(call.todo) \in Step
    BY <1>2 DEF StepOf
  <2> QED BY <2>1, <1>1 DEF On, Step, Written, Plain
<1>4. ASSUME NEW order, InOrder(call.todo, order), Len(order) \in Nat
      PROVE  Len(call.todo) \in 1..Len(order) /\ n = order[Len(call.todo)]
  <2>1. Len(call.todo) \in 1..Len(call.todo) /\ Len(call.todo) + 1 - Len(call.todo) = 1
    BY <1>2
  <2>2. call.todo[1][1] = order[Len(call.todo)]
    BY <2>1, <1>4 DEF InOrder
  <2>3. Len(call.todo) \in 1..Len(order)
    BY <1>2, <1>4 DEF InOrder
  <2> QED BY <2>2, <2>3, <1>1, <1>2
<1>5. Len(AlarmOrder) = 3 /\ Len(SyncOrder) = 6 /\ Len(AlarmOrder) \in Nat /\ Len(SyncOrder) \in Nat
  BY DEF AlarmOrder, SyncOrder
<1>6. call.op = "set_alarm_server" => Len(call.todo) \in 1..3 /\ n = AlarmOrder[Len(call.todo)]
  <2>1. call.op = "set_alarm_server" => InOrder(call.todo, AlarmOrder)
    BY DEF CallInv, Shape
  <2>2. call.op = "set_alarm_server" => Len(call.todo) \in 1..Len(AlarmOrder) /\ n = AlarmOrder[Len(call.todo)]
    BY <1>4, <1>5, <2>1, Zenon
  <2> QED BY <2>2, <1>5
<1>7. call.op = "change_admin_password_and_sync" => Len(call.todo) \in 1..6 /\ n = SyncOrder[Len(call.todo)]
  <2>1. call.op = "change_admin_password_and_sync" => InOrder(call.todo, SyncOrder)
    BY DEF CallInv, Shape
  <2>2. call.op = "change_admin_password_and_sync" => Len(call.todo) \in 1..Len(SyncOrder) /\ n = SyncOrder[Len(call.todo)]
    BY <1>4, <1>5, <2>1, Zenon
  <2> QED BY <2>2, <1>5
<1>8. /\ call.op = "set_alarm_server" => On = "alarm"
      /\ call.op \in Verified => n \in {"query", "edit", "verify", "reqLogin", "doLogin"}
      /\ call.op = "edit_nvr_ipc_passwords" => n = "editIPChlPassword"
      /\ call.op # "set_alarm_server" => n # "queryScheduleList" /\ (n = "edit" => On # "alarm")
  BY <1>1, <1>2 DEF StepOf, On
<1>9. call.op \in Reading /\ n # "query" => call.want # None
  BY <1>1 DEF CallInv, Values
<1> QED BY <1>1, <1>2, <1>3, <1>6, <1>7, <1>8, <1>9

\* What is left after a request.
LEMMA Shorter ==
  ASSUME NEW n, Moves(n)
  PROVE  /\ Shape(call'.op, call'.todo) /\ Suffix(call'.todo, call.todo)
         /\ Len(call'.todo) \in Nat
         /\ call'.todo = Tail(call.todo) => Len(call'.todo) = Len(call.todo) - 1
<1>1. Shape(call.op, call.todo) /\ call.todo # <<>>
  BY DEF Moves, Due, Busy, CallInv
<1>2. Suffix(<<>>, call.todo)
  BY <1>1, Dropped DEF Suffix
<1>3. call'.todo \in Seq(Step)
  BY DEF Moves, Call
<1>4. Len(call'.todo) \in Nat
  BY <1>3, LenProperties
<1>5. CASE call'.todo = Tail(call.todo)
  BY <1>1, <1>4, <1>5, Dropped DEF Moves
<1>6. CASE call'.todo = <<>>
  BY <1>1, <1>2, <1>4, <1>6, Dropped DEF Moves
<1>7. CASE Len(call.todo) > 1 /\ call'.todo = SubSeq(call.todo, 3, Len(call.todo))
  BY <1>1, <1>4, <1>7, Dropped DEF Moves
<1> QED BY <1>5, <1>6, <1>7 DEF Moves

\* What was read and what is asked for fit together after any request but a reading.
LEMMA KeepsValues ==
  ASSUME NEW n, Moves(n), n # "query", call'.want = call.want
  PROVE  Values'
<1>1. call.op \in Reading => call.want # None
  BY DueSays DEF Moves
<1>2. call.op # "set_alarm_server" => call.want \in Value \cup {None}
  BY DEF Moves, CallInv, Values
<1>3. call'.op = call.op
  BY DEF Moves
<1> QED BY <1>1, <1>2, <1>3 DEF Values

\* No request but a reading makes an edit of the alarm server due.
LEMMA KeepsAlarm ==
  ASSUME NEW n, Moves(n), n \notin {"query", "queryScheduleList"}
  PROVE  Alarm'
<1>1. CASE call.op # "set_alarm_server"
  BY <1>1 DEF Moves, Alarm
<1>2. CASE call.op = "set_alarm_server"
  <2>1. Len(call.todo) \in 1..3 /\ n = AlarmOrder[Len(call.todo)] /\ call.todo # <<>>
    BY <1>2, DueSays DEF Moves
  <2>2. AlarmOrder[3] = "query" /\ AlarmOrder[2] = "queryScheduleList"
    BY DEF AlarmOrder
  <2>3. Len(call.todo) = 1
    <3>1. \A m \in 1..3 : m = 1 \/ m = 2 \/ m = 3
      OBVIOUS
    <3>2. Len(call.todo) # 3 /\ Len(call.todo) # 2
      BY <2>1, <2>2
    <3> QED BY <2>1, <3>1, <3>2
  <2>4. call'.todo = Tail(call.todo) \/ call'.todo = <<>>
    BY <2>3 DEF Moves
  <2>5. call.todo \in Seq(Step)
    BY DEF Moves, CallInv, Call
  <2>6. call'.todo = <<>>
    <3>1. Tail(call.todo) \in Seq(Step) /\ Len(Tail(call.todo)) = 0
      BY <2>1, <2>3, <2>5, HeadTailProperties
    <3>2. Tail(call.todo) = <<>>
      BY <3>1, EmptySeq
    <3> QED BY <3>2, <2>4
  <2> QED BY <2>6 DEF Alarm, Due, Busy
<1> QED BY <1>1, <1>2

\* The channels stay those the recorder listed.
LEMMA KeepsListed ==
  ASSUME NEW n, Moves(n), call'.off = call.off, call'.devs = call.devs, call'.all = call.all /\ call'.total = call.total
  PROVE  Enumerated'
<1>1. Suffix(call'.todo, call.todo) /\ Len(call'.todo) \in Nat /\ Len(call.todo) \in Nat
  BY Shorter, DueSays DEF Moves
<1>2. Enumerated
  BY DEF Moves, CallInv
<1>3. ASSUME NEW k \in 1..Len(call'.todo), call'.todo[k][1] = "queryDevList"
      PROVE  call.off = {}
  <2>1. k + (Len(call.todo) - Len(call'.todo)) \in 1..Len(call.todo)
    <3>1. \A a, b, i \in Int : a <= b /\ i \in 1..a => i + (b - a) \in 1..b
      OBVIOUS
    <3>2. Len(call'.todo) <= Len(call.todo)
      BY <1>1 DEF Suffix
    <3>3. k \in Int /\ Len(call'.todo) \in Int /\ Len(call.todo) \in Int
      BY <1>1
    <3> QED BY <3>1, <3>2, <3>3, Zenon
  <2>2. call.todo[k + (Len(call.todo) - Len(call'.todo))] = call'.todo[k]
    BY <1>1 DEF Suffix
  <2> QED BY <1>2, <1>3, <2>1, <2>2 DEF Enumerated
<1> QED BY <1>2, <1>3 DEF Enumerated

\* A record that was there all the time stays accounted for.
LEMMA KeepsComplete ==
  ASSUME NEW n, Moves(n), n # "requestSmartTargetSnapImage", call'.had = call.had, call'.unread = call.unread, call'.found = call.found,
         recorder'.plates = recorder.plates
  PROVE  Complete'
<1>1. Complete /\ ~ Due("requestSmartTargetSnapImage")
  BY DEF Moves, CallInv, Due
<1> QED BY <1>1 DEF Complete, Moves

\* The change of the password goes on from where it was.
LEMMA KeepsSynced ==
  ASSUME NEW n, Moves(n), n \notin {"editDevList", "editUserPassword"}, call'.devs = call.devs,
         call.op = "change_admin_password_and_sync" => recorder'.stored = recorder.stored /\ recorder'.pw = recorder.pw
  PROVE  Synced'
<1> SUFFICES ASSUME call.op = "change_admin_password_and_sync", call'.ok
             PROVE  /\ Len(call'.todo) <= 3 => \A c \in call.devs : recorder.stored[c] = "new"
                    /\ Len(call'.todo) <= 2 => recorder.pw = "new"
  BY DEF Moves, Synced
<1>1. Synced /\ call.ok
  BY DEF Moves, CallInv
<1>2. Len(call.todo) \in 1..6 /\ n = SyncOrder[Len(call.todo)] /\ Len(call'.todo) = Len(call.todo) - 1
  BY DueSays, Shorter DEF Moves
<1>3. SyncOrder[4] = "editDevList" /\ SyncOrder[3] = "editUserPassword"
  BY DEF SyncOrder
<1>4. Len(call.todo) # 4 /\ Len(call.todo) # 3
  BY <1>2, <1>3
<1>5. Len(call'.todo) <= 3 => Len(call.todo) <= 3
  <2>1. \A a, b \in Int : b = a - 1 /\ a # 4 /\ b <= 3 => a <= 3
    OBVIOUS
  <2>2. Len(call.todo) \in Int /\ Len(call'.todo) \in Int
    BY <1>2
  <2> QED BY <2>1, <2>2, <1>2, <1>4, Zenon
<1>6. Len(call'.todo) <= 2 => Len(call.todo) <= 2
  <2>1. \A a, b \in Int : b = a - 1 /\ a # 3 /\ b <= 2 => a <= 2
    OBVIOUS
  <2>2. Len(call.todo) \in Int /\ Len(call'.todo) \in Int
    BY <1>2
  <2> QED BY <2>1, <2>2, <1>2, <1>4, Zenon
<1> QED BY <1>1, <1>5, <1>6 DEF Synced

\* Only an edit of a camera counts for the cameras.
LEMMA KeepsPassed ==
  ASSUME NEW n, Moves(n), n # "editIPChlPassword"
  PROVE  Passed'
<1>1. call.op # "edit_nvr_ipc_passwords"
  BY DueSays DEF Moves
<1> QED BY <1>1 DEF Moves, Passed

\* A request that fails ends the operation.
LEMMA Failing ==
  ASSUME NEW n, Due(n), CallInv, Fail, recorder'.plates = recorder.plates
  PROVE  CallInv'
<1>1. call \in Call
  BY DEF CallInv
<1>2. call' \in Call /\ call'.op = call.op /\ call'.ok = FALSE /\ call'.todo = <<>>
      /\ call'.want = call.want /\ call'.off = call.off /\ call'.devs = call.devs /\ call'.all = call.all /\ call'.total = call.total
      /\ call'.had = call.had /\ call'.unread = call.unread
  <2>1. call' = [call EXCEPT !.todo = <<>>, !.ok = FALSE] /\ <<>> \in Seq(Step) /\ FALSE \in BOOLEAN
    BY DEF Fail
  <2>2. call' \in Call
    BY <1>1, <2>1 DEF Call
  <2>3. call'.op = call.op /\ call'.ok = FALSE /\ call'.todo = <<>>
    BY <1>1, <2>1 DEF Call
  <2>4. /\ call'.want = call.want /\ call'.off = call.off /\ call'.devs = call.devs /\ call'.all = call.all /\ call'.total = call.total
        /\ call'.had = call.had /\ call'.unread = call.unread
    BY <1>1, <2>1 DEF Call
  <2> QED BY <2>2, <2>3, <2>4
<1>3. Moves(n)
  BY <1>2 DEF Moves
<1>4. Shape(call'.op, call'.todo)
  BY <1>3, Shorter
<1>5. Values' /\ Alarm'
  BY <1>2 DEF Values, Alarm, Due, Busy, CallInv
<1>6. Enumerated'
  BY <1>2, <1>3, KeepsListed
<1>7. Complete' /\ Synced' /\ Passed'
  BY <1>2 DEF Complete, Synced, Passed, CallInv
<1> QED BY <1>2, <1>4, <1>5, <1>6, <1>7 DEF CallInv

\* A request that reads nothing and changes nothing an operation relies on.
LEMMA Onward ==
  ASSUME NEW n, Moves(n),
         n \notin {"query", "queryScheduleList", "editDevList", "editUserPassword", "requestSmartTargetSnapImage", "editIPChlPassword"},
         call'.want = call.want, call'.off = call.off, call'.devs = call.devs, call'.all = call.all, call'.total = call.total,
         call'.had = call.had, call'.unread = call.unread, call'.found = call.found, recorder'.plates = recorder.plates,
         call.op = "change_admin_password_and_sync" => recorder'.stored = recorder.stored /\ recorder'.pw = recorder.pw
  PROVE  CallInv'
<1>1. Shape(call'.op, call'.todo)
  BY Shorter
<1>2. Values' /\ Alarm' /\ Enumerated' /\ Complete' /\ Synced' /\ Passed'
  BY KeepsValues, KeepsAlarm, KeepsListed, KeepsComplete, KeepsSynced, KeepsPassed
<1> QED BY <1>1, <1>2 DEF CallInv, Moves

\* The first request of a program that is made in one order.
LEMMA HeadInOrder ==
  ASSUME NEW t, t # <<>>
  PROVE  /\ Shape("set_alarm_server", t) => Head(t)[1] = AlarmOrder[Len(t)]
         /\ Shape("change_admin_password_and_sync", t) => Head(t)[1] = SyncOrder[Len(t)]
<1>1. ASSUME NEW order, NEW op, Shape(op, t), InOrder(t, order) PROVE Head(t)[1] = order[Len(t)]
  <2>1. Len(t) \in Nat /\ Head(t) = t[1] /\ Len(t) > 0
    BY <1>1, Dropped
  <2>2. Len(t) \in 1..Len(t) /\ Len(t) + 1 - Len(t) = 1
    BY <2>1
  <2> QED BY <2>1, <2>2, <1>1 DEF InOrder
<1>2. Shape("set_alarm_server", t) => InOrder(t, AlarmOrder)
  BY DEF Shape
<1>3. Shape("change_admin_password_and_sync", t) => InOrder(t, SyncOrder)
  BY DEF Shape
<1> QED BY <1>1, <1>2, <1>3, Zenon

\* What comes of a request.
LEMMA Answered ==
  ASSUME NEW effect, NEW c, Checked(effect, c)
  PROVE  /\ client' = client
         /\ \/ recorder' = effect /\ call' = c
            \/ recorder' \in {recorder, effect} /\ Fail
<1>1. CASE Valid
  BY <1>1 DEF Checked, Ask, Go
<1>2. CASE ~ Valid
  BY <1>2 DEF Checked, Ask, Go
<1> QED BY <1>1, <1>2

\* The operation goes on to its next request.
LEMMA NextMoves ==
  ASSUME NEW n, Due(n), CallInv, call' = Next1(call)
  PROVE  /\ Moves(n) /\ call'.want = call.want /\ call'.off = call.off /\ call'.devs = call.devs /\ call'.all = call.all
         /\ call'.total = call.total
         /\ call'.had = call.had /\ call'.unread = call.unread /\ call'.found = call.found /\ call'.seen = call.seen /\ call'.on = call.on
         /\ call'.todo = Tail(call.todo) /\ call'.ok = call.ok /\ call'.left = call.left /\ call'.missed = call.missed
<1>1. call \in Call /\ call.todo # <<>> /\ call.todo \in Seq(Step)
  BY DEF Due, Busy, CallInv, Call
<1>2. Tail(call.todo) \in Seq(Step)
  BY <1>1, HeadTailProperties
<1>3. call' = [call EXCEPT !.todo = Tail(call.todo)]
  BY DEF Next1
<1>4. call' \in Call
  BY <1>1, <1>2, <1>3 DEF Call
<1>5. /\ call'.op = call.op /\ call'.want = call.want /\ call'.off = call.off /\ call'.devs = call.devs /\ call'.all = call.all
      /\ call'.total = call.total
      /\ call'.had = call.had /\ call'.unread = call.unread /\ call'.found = call.found /\ call'.seen = call.seen /\ call'.on = call.on
      /\ call'.todo = Tail(call.todo) /\ call'.ok = call.ok /\ call'.left = call.left /\ call'.missed = call.missed
  BY <1>1, <1>3 DEF Call
<1> QED BY <1>4, <1>5 DEF Moves

\* An operation begins with nothing read, asked for or found.
LEMMA StartKeeps ==
  ASSUME NInv, NEW op \in DOMAIN Program, NEW on \in BOOLEAN, Start(op, on)
  PROVE  NInv'
<1>1. /\ call' = [op |-> op, todo |-> Program[op], ok |-> TRUE, on |-> on,
                  seen |-> None, want |-> None, all |-> {}, total |-> FALSE, devs |-> {}, off |-> {},
                  left |-> Channel, missed |-> {}, had |-> {}, unread |-> {}, found |-> {}]
      /\ UNCHANGED <<client, recorder, others>> /\ calls < MaxCalls /\ calls' = calls + 1
  BY DEF Start
<1>2. Shape(op, Program[op])
  BY Programs
<1>3. Program[op] \in Seq(Step)
  BY <1>2, Dropped
<1>4. call' \in Call
  BY <1>1, <1>3 DEF Call
<1>5. Types'
  <2>1. calls \in 0..MaxCalls /\ MaxCalls \in Nat
    BY NvrAssumption DEF NInv, Types
  <2>2. calls' \in 0..MaxCalls
    BY <2>1, <1>1
  <2> QED BY <1>1, <2>2 DEF NInv, Types
<1>6. call'.op = op /\ call'.todo = Program[op] /\ call'.want = None /\ call'.off = {} /\ call'.devs = {} /\ call'.all = {}
      /\ call'.total = FALSE /\ call'.had = {} /\ call'.left = Channel
  BY <1>1
<1>7. op \in Reading => Program[op] # <<>> /\ Head(Program[op])[1] = "query"
  BY ReadsFirst
<1>8. Values' /\ Alarm'
  <2>1. Values'
    BY <1>6, <1>7 DEF Values
  <2>2. Alarm'
    BY <1>6, <1>7 DEF Alarm, Due, Reading
  <2> QED BY <2>1, <2>2
<1>9. Enumerated' /\ Complete'
  BY <1>6 DEF Enumerated, Complete
<1>10. Synced'
  <2>1. op = "change_admin_password_and_sync" => Len(Program[op]) = 6
    BY SyncProgram DEF Program
  <2>2. ~ 6 <= 3 /\ ~ 6 <= 2
    OBVIOUS
  <2> QED BY <1>6, <2>1, <2>2 DEF Synced
<1>11. Passed'
  BY <1>6 DEF Passed
<1> QED BY <1>2, <1>4, <1>5, <1>6, <1>8, <1>9, <1>10, <1>11 DEF NInv, CallInv

\* The challenge of a login.
LEMMA ReqLoginKeeps ==
  ASSUME NInv, ReqLogin
  PROVE  NInv'
<1>1. Due("reqLogin") /\ UNCHANGED <<recorder, calls, others>>
  BY DEF ReqLogin
<1>2. CallInv
  BY <1>1 DEF NInv, Due, Busy
<1>3. client' \in Client
  BY DEF ReqLogin, NInv, Types, Client
<1>4. Types'
  BY <1>1, <1>3 DEF NInv, Types
<1>5. CASE Fail
  BY <1>1, <1>2, <1>4, <1>5, Failing DEF NInv
<1>6. CASE call' = Next1(call)
  <2>1. CallInv'
    BY <1>1, <1>2, <1>6, NextMoves, Onward
  <2> QED BY <2>1, <1>4 DEF NInv
<1> QED BY <1>5, <1>6 DEF ReqLogin, Go

\* The password of a login.
LEMMA DoLoginKeeps ==
  ASSUME NInv, DoLogin
  PROVE  NInv'
<1>1. Due("doLogin") /\ UNCHANGED <<calls, others>>
  BY DEF DoLogin
<1>2. CallInv
  BY <1>1 DEF NInv, Due, Busy
<1>3. client' \in Client
  <2>1. \A key \in BOOLEAN : LoggedIn(key) \in Client
    BY DEF LoggedIn, NInv, Types, Client
  <2> QED BY <2>1 DEF DoLogin, NInv, Types
<1>4. recorder' \in Recorder /\ recorder'.plates = recorder.plates /\ recorder'.stored = recorder.stored
      /\ recorder'.pw = recorder.pw
  BY DEF DoLogin, NInv, Types, Recorder
<1>5. Types'
  BY <1>1, <1>3, <1>4 DEF NInv, Types
<1>6. CASE Fail
  BY <1>1, <1>2, <1>4, <1>5, <1>6, Failing DEF NInv
<1>7. CASE call' = Next1(call)
  <2>1. CallInv'
    BY <1>1, <1>2, <1>4, <1>7, NextMoves, Onward
  <2> QED BY <2>1, <1>5 DEF NInv
<1> QED BY <1>6, <1>7 DEF DoLogin, Go

\* What an operation writes, given what it read.
LEMMA WantedFits ==
  ASSUME CallInv, Busy, NEW seen, seen \in Value \/ call.op \notin Reading
  PROVE  /\ Wanted(seen) \in Value
         /\ call.op = "set_alarm_server" => Wanted(seen) = [on |-> call.on, detail |-> seen.detail]
<1>1. call.on \in BOOLEAN
  BY DEF CallInv, Call
<1>2. seen \in Value => seen.detail \in Detail /\ seen.on \in BOOLEAN
  BY DEF Value
<1>3. CASE call.op \in {"enable_rtsp", "enable_api_server"}
  BY <1>3 DEF Wanted, Value, Detail
<1>4. CASE call.op \in {"disable_rtsp", "disable_api_server"}
  BY <1>2, <1>4 DEF Wanted, Value, Reading
<1>5. CASE call.op \in {"ensure_services_enabled", "snapshot"}
  BY <1>2, <1>5 DEF Wanted, Value, Reading, Detail
<1>6. CASE call.op \in {"set_nvr_face_detection", "set_alarm_server"}
  BY <1>1, <1>2, <1>6 DEF Wanted, Value, Reading
<1>7. CASE call.op = "set_user_email"
  BY <1>2, <1>7 DEF Wanted, Value, Reading, Detail
<1>8. CASE call.op \notin {"enable_rtsp", "enable_api_server", "disable_rtsp", "disable_api_server", "ensure_services_enabled",
                           "snapshot", "set_nvr_face_detection", "set_alarm_server", "set_user_email"}
  BY <1>1, <1>8 DEF Wanted, Value, Detail
<1> QED BY <1>3, <1>4, <1>5, <1>6, <1>7, <1>8

\* A setting is read.
LEMMA QueryKeeps ==
  ASSUME NInv, Query
  PROVE  NInv'
<1> DEFINE seen == recorder.set[On]
           rest == IF Skips(seen) THEN SubSeq(call.todo, 3, Len(call.todo)) ELSE Tail(call.todo)
           c == [call EXCEPT !.todo = rest, !.seen = seen, !.want = Wanted(seen)]
<1>1. Due("query") /\ UNCHANGED <<calls, others>> /\ Checked(recorder, c)
  BY DEF Query
<1>2. CallInv /\ Busy
  BY <1>1 DEF NInv, Due, Busy
<1> HIDE DEF c
<1>3. client' = client /\ recorder' = recorder /\ (call' = c \/ Fail)
  BY <1>1, Answered, Zenon
<1>4. Types'
  BY <1>1, <1>3 DEF NInv, Types
<1>5. CASE Fail
  BY <1>1, <1>2, <1>3, <1>4, <1>5, Failing DEF NInv
<1>6. CASE call' = c
  <2>1. On \in Setting /\ call \in Call
    BY <1>1, <1>2, DueSays DEF Written
  <2>2. seen \in Value
    BY <2>1 DEF NInv, Types, Recorder
  <2>3. Wanted(seen) \in Value /\ (call.op = "set_alarm_server" => Wanted(seen) = [on |-> call.on, detail |-> seen.detail])
    BY <1>2, <2>2, WantedFits
  <2>4. rest \in Seq(Step)
    <3>1. Skips(seen) => Len(call.todo) > 1
      BY DEF Skips
    <3>2. call.todo # <<>>
      BY <1>2 DEF Busy
    <3>3. Skips(seen) => SubSeq(call.todo, 3, Len(call.todo)) \in Seq(Step)
      BY <3>1, <1>2, Dropped DEF CallInv
    <3>4. Tail(call.todo) \in Seq(Step)
      BY <3>2, <1>2, Dropped DEF CallInv
    <3> QED BY <3>3, <3>4
  <2> HIDE DEF rest, seen
  <2>5. Value \subseteq Wish
    BY DEF Value, Wish
  <2>6. call' \in Call
    BY <1>6, <2>1, <2>2, <2>3, <2>4, <2>5 DEF c, Call
  <2>7. /\ call'.op = call.op /\ call'.todo = rest /\ call'.ok = call.ok /\ call'.on = call.on /\ call'.seen = seen
        /\ call'.want = Wanted(seen) /\ call'.off = call.off /\ call'.devs = call.devs /\ call'.all = call.all /\ call'.total = call.total
        /\ call'.had = call.had /\ call'.unread = call.unread /\ call'.found = call.found
    BY <1>6, <2>1 DEF c, Call
  <2>8. call.op # "change_admin_password_and_sync"
    <3>1. \A k \in 1..6 : SyncOrder[k] # "query"
      <4>1. \A k \in 1..6 : k = 1 \/ k = 2 \/ k = 3 \/ k = 4 \/ k = 5 \/ k = 6
        OBVIOUS
      <4> QED BY <4>1 DEF SyncOrder
    <3> QED BY <3>1, <1>1, <1>2, DueSays
  <2>9. Moves("query")
    BY <1>1, <1>2, <2>6, <2>7, <2>8 DEF Moves, rest, Skips
  <2>10. Shape(call'.op, call'.todo)
    BY <2>9, Shorter
  <2>11. Values'
    <3>1. None \notin Value
      BY NvrAssumption DEF Value, Detail
    <3> QED BY <3>1, <2>3, <2>7 DEF Values
  <2>12. Alarm'
    <3> SUFFICES ASSUME call.op = "set_alarm_server"
                 PROVE  /\ call'.seen \in Value /\ call'.want = [on |-> call'.on, detail |-> call'.seen.detail]
                        /\ ~ Due("edit")'
      BY <2>7 DEF Alarm
    <3>1. call'.seen \in Value /\ call'.want = [on |-> call'.on, detail |-> call'.seen.detail]
      BY <2>2, <2>3, <2>7
    <3>2. Len(call.todo) \in 1..3 /\ AlarmOrder[Len(call.todo)] = "query"
      BY <1>1, <1>2, DueSays
    <3>3. call'.todo = Tail(call.todo)
      BY <2>7 DEF rest, Skips
    <3>4. Len(call.todo) = 3
      <4>1. \A k \in 1..3 : k = 1 \/ k = 2 \/ k = 3
        OBVIOUS
      <4>2. AlarmOrder[1] # "query" /\ AlarmOrder[2] # "query"
        BY DEF AlarmOrder
      <4> QED BY <3>2, <4>1, <4>2
    <3>5. Len(call'.todo) = 2
      BY <3>3, <3>4, <2>9, Shorter
    <3>6. ASSUME Due("edit")' PROVE FALSE
      <4>1. call'.todo # <<>> /\ Head(call'.todo)[1] = "edit"
        BY <3>6 DEF Due, Busy
      <4>2. Head(call'.todo)[1] = AlarmOrder[2]
        BY <4>1, <3>5, <2>7, <2>10, HeadInOrder
      <4> QED BY <4>1, <4>2 DEF AlarmOrder
    <3> QED BY <3>1, <3>6
  <2>13. Enumerated' /\ Complete' /\ Synced' /\ Passed'
    BY <1>3, <2>7, <2>9, KeepsListed, KeepsComplete, KeepsSynced, KeepsPassed
  <2> QED BY <1>4, <2>6, <2>10, <2>11, <2>12, <2>13 DEF NInv, CallInv
<1> QED BY <1>3, <1>5, <1>6

\* The schedule of the alarm server is looked up by its name.
LEMMA FindScheduleKeeps ==
  ASSUME NInv, FindSchedule
  PROVE  NInv'
<1> DEFINE d == call.seen.detail
           c == [Next1(call) EXCEPT !.want.detail = ScheduleName(d)]
<1>1. Due("queryScheduleList") /\ UNCHANGED <<calls, others>>
  BY DEF FindSchedule
<1>2. CallInv /\ Busy
  BY <1>1 DEF NInv, Due, Busy
<1>3. \/ d = "null" /\ call' = Next1(call) /\ UNCHANGED <<recorder, client>>
      \/ d # "null" /\ d \in recorder.schedules /\ Checked(recorder, c)
      \/ Fail /\ UNCHANGED <<recorder, client>>
  BY DEF FindSchedule, Go
<1>4. call.op = "set_alarm_server" /\ Len(call.todo) = 2 /\ call \in Call
  <2>1. call.op = "set_alarm_server" /\ call \in Call
    BY <1>1, <1>2, DueSays
  <2>2. Len(call.todo) \in 1..3 /\ AlarmOrder[Len(call.todo)] = "queryScheduleList"
    BY <1>1, <1>2, <2>1, DueSays
  <2>3. \A k \in 1..3 : k = 1 \/ k = 2 \/ k = 3
    OBVIOUS
  <2>4. AlarmOrder[1] # "queryScheduleList" /\ AlarmOrder[3] # "queryScheduleList"
    BY DEF AlarmOrder
  <2> QED BY <2>1, <2>2, <2>3, <2>4
<1>5. call.seen \in Value /\ call.want = [on |-> call.on, detail |-> call.seen.detail] /\ call.on \in BOOLEAN
  BY <1>1, <1>2, <1>4 DEF CallInv, Alarm, Call
<1> HIDE DEF c
<1>6. /\ client' = client /\ recorder' = recorder
      /\ \/ call' = c /\ d # "null" /\ d \in recorder.schedules
         \/ call' = Next1(call) /\ d = "null"
         \/ Fail
  <2>1. CASE Checked(recorder, c) /\ d # "null" /\ d \in recorder.schedules
    <3>1. client' = client /\ ((recorder' = recorder /\ call' = c) \/ (recorder' \in {recorder, recorder} /\ Fail))
      <4>1. Checked(recorder, c)
        BY <2>1
      <4> QED BY <4>1, Answered, Zenon
    <3> QED BY <3>1, <2>1
  <2> QED BY <1>3, <2>1
<1>7. Types'
  BY <1>1, <1>6 DEF NInv, Types
<1>8. CASE Fail
  BY <1>1, <1>2, <1>6, <1>7, <1>8, Failing DEF NInv
<1> DEFINE want == [on |-> call.on, detail |-> IF d = "null" THEN "null" ELSE Named[d]]
<1>9. CASE ~ Fail
  <2>1. recorder.schedules \subseteq {"a"}
    BY DEF NInv, Types, Recorder
  <2>2. d = "null" \/ d = "a"
    BY <1>6, <1>9, <2>1
  <2>3. want \in Wish /\ Named["a"] = "a by name"
    <3>1. Named["a"] = "a by name"
      BY DEF Named
    <3>2. (IF d = "null" THEN "null" ELSE Named[d]) \in Detail \cup {"a by name", "b by name"}
      BY <2>2, <3>1 DEF Detail
    <3> QED BY <3>1, <3>2, <1>5 DEF Wish
  <2>4. Tail(call.todo) \in Seq(Step) /\ call.todo # <<>>
    BY <1>2, Dropped DEF CallInv, Busy
  <2>5. call' = [call EXCEPT !.todo = Tail(call.todo), !.want = want]
    <3>1. CASE d = "null"
      <4>1. call' = [call EXCEPT !.todo = Tail(call.todo)] /\ call.want = want
        BY <3>1, <1>5, <1>6, <1>9 DEF Next1
      <4> HIDE DEF want
      <4> QED BY <4>1, <1>4 DEF Call
    <3>2. CASE d # "null"
      <4>1. call' = [Next1(call) EXCEPT !.want = [@ EXCEPT !.detail = Named[d]]]
        BY <3>2, <1>6, <1>9 DEF c, ScheduleName
      <4>2. Next1(call) = [call EXCEPT !.todo = Tail(call.todo)] /\ Next1(call).want = call.want
        BY <1>4 DEF Next1, Call
      <4>3. [call.want EXCEPT !.detail = Named[d]] = want
        BY <3>2, <1>5
      <4> HIDE DEF want
      <4>4. call' = [Next1(call) EXCEPT !.want = want]
        BY <4>1, <4>2, <4>3
      <4> QED BY <4>4, <4>2
    <3> QED BY <3>1, <3>2
  <2> HIDE DEF want
  <2>6. call' \in Call
    BY <1>4, <2>3, <2>4, <2>5 DEF Call
  <2>7. /\ call'.op = call.op /\ call'.todo = Tail(call.todo) /\ call'.ok = call.ok /\ call'.on = call.on /\ call'.seen = call.seen
        /\ call'.want = want /\ call'.off = call.off /\ call'.devs = call.devs /\ call'.all = call.all /\ call'.total = call.total
        /\ call'.had = call.had /\ call'.unread = call.unread /\ call'.found = call.found
    BY <1>4, <2>5 DEF Call
  <2>8. Moves("queryScheduleList")
    BY <1>1, <1>2, <2>6, <2>7 DEF Moves
  <2>9. Shape(call'.op, call'.todo)
    BY <2>8, Shorter
  <2>10. Len(call'.todo) = 1
    BY <2>7, <2>8, <1>4, Shorter
  <2>11. Values'
    <3>1. None \notin Wish
      BY NvrAssumption DEF Wish, Detail
    <3> QED BY <1>4, <2>3, <2>7, <3>1 DEF Values
  <2>12. Alarm'
    <3>1. ASSUME Due("queryScheduleList")' PROVE FALSE
      <4>1. call'.todo # <<>> /\ Head(call'.todo)[1] = "queryScheduleList"
        BY <3>1 DEF Due, Busy
      <4>2. Head(call'.todo)[1] = AlarmOrder[1]
        BY <4>1, <2>10, <2>7, <2>9, <1>4, HeadInOrder
      <4> QED BY <4>1, <4>2 DEF AlarmOrder
    <3>2. call'.seen \in Value /\ call'.seen.detail \in {"a", "null"}
      BY <1>5, <2>2, <2>7
    <3>3. call'.want = [on |-> call'.on, detail |-> IF call'.seen.detail = "null" THEN "null" ELSE Named[call'.seen.detail]]
      BY <2>7 DEF want
    <3> QED BY <3>1, <3>2, <3>3 DEF Alarm
  <2>13. Enumerated' /\ Complete' /\ Synced' /\ Passed'
    BY <1>6, <2>7, <2>8, KeepsListed, KeepsComplete, KeepsSynced, KeepsPassed
  <2> QED BY <1>7, <2>6, <2>9, <2>11, <2>12, <2>13 DEF NInv, CallInv
<1> QED BY <1>8, <1>9

\* What the recorder keeps of what an edit asks for.
LEMMA KeptFits ==
  ASSUME NInv, CallInv, Due("edit"), NEW w,
         call.op # "set_alarm_server" => w \in Value,
         call.op = "set_alarm_server" => w = call.want,
         NEW kept \in Kept(On, w)
  PROVE  /\ kept \in Value /\ On \in Setting
         /\ On = "alarm" /\ kept.detail = "null" => call.seen.detail = "null" \/ call.seen.detail \notin recorder.schedules
<1>1. On \in Setting /\ (call.op = "set_alarm_server" <=> On = "alarm")
  BY DueSays DEF Written
<1>2. CASE On # "alarm"
  <2>1. w \in Value /\ recorder.set[On] \in Value
    BY <1>1, <1>2 DEF NInv, Types, Recorder
  <2> DEFINE all == Lands(On, w)
  <2>2. all \in Value
    <3>1. all = w \/ all = [w EXCEPT !.on = recorder.set[On].on]
      BY <1>2 DEF Lands
    <3> QED BY <2>1, <3>1 DEF Value
  <2>3. kept \in {all, recorder.set[On], [all EXCEPT !.detail = recorder.set[On].detail]}
    BY DEF Kept
  <2> HIDE DEF all
  <2>4. [all EXCEPT !.detail = recorder.set[On].detail] \in Value
    BY <2>1, <2>2 DEF Value
  <2> QED BY <1>1, <1>2, <2>1, <2>2, <2>3, <2>4
<1>3. CASE On = "alarm"
  <2>1. /\ call.seen \in Value /\ call.seen.detail \in {"a", "null"} /\ call.on \in BOOLEAN
        /\ w = [on |-> call.on, detail |-> IF call.seen.detail = "null" THEN "null" ELSE Named[call.seen.detail]]
    BY <1>1, <1>3 DEF CallInv, Alarm, Call
  <2>2. kept = Lands("alarm", w)
    BY <1>3 DEF Kept
  <2>3. recorder.schedules \subseteq {"a"} /\ Named["a"] = "a by name"
    BY DEF NInv, Types, Recorder, Named
  <2> DEFINE known == \E d \in recorder.schedules : w.detail = Named[d]
             name == CHOOSE d \in recorder.schedules : w.detail = Named[d]
  <2>4. known => name = "a"
    BY <2>3
  <2>5. w.on \in BOOLEAN /\ kept = [w EXCEPT !.detail = IF known THEN name ELSE "null"]
    BY <2>1, <2>2 DEF Lands
  <2>6. call.seen.detail = "a" /\ "a" \in recorder.schedules => known
    BY <2>1, <2>3
  <2> HIDE DEF known, name
  <2>7. kept = [on |-> call.on, detail |-> IF known THEN name ELSE "null"]
    BY <2>1, <2>5
  <2>8. kept \in Value
    BY <2>1, <2>4, <2>7 DEF Value, Detail
  <2>9. kept.detail = "null" => call.seen.detail = "null" \/ call.seen.detail \notin recorder.schedules
    BY <2>1, <2>4, <2>6, <2>7
  <2> QED BY <1>1, <2>8, <2>9
<1> QED BY <1>2, <1>3

\* What comes of an edit.
LEMMA EditSays ==
  ASSUME NInv, Edit
  PROVE  /\ Due("edit") /\ CallInv /\ Busy /\ call \in Call /\ UNCHANGED <<client, calls, others>>
         /\ \E w \in Wish :
              /\ call.op # "set_alarm_server" => w \in Value
              /\ call.op = "set_alarm_server" => w = call.want
              /\ \E kept \in Kept(On, w) : recorder' \in {recorder, [recorder EXCEPT !.set[On] = kept]}
              /\ \/ call' = [Next1(call) EXCEPT !.want = w]
                 \/ call.op = "set_user_email" /\ Len(call.todo) > 2 /\ call' = NextShape
                 \/ Fail
<1> DEFINE w == IF call.want = None THEN Wanted(None) ELSE call.want
           c == [Next1(call) EXCEPT !.want = w]
           Then(ok) == IF ok THEN Go(c)
                       ELSE IF call.op = "set_user_email" /\ Len(call.todo) > 2 THEN Go(NextShape)
                       ELSE Fail
<1>1. Due("edit") /\ UNCHANGED <<client, calls, others>> /\ \E kept \in Kept(On, w) : Ask([recorder EXCEPT !.set[On] = kept], Then)
  BY DEF Edit
<1>2. CallInv /\ Busy /\ call \in Call
  BY <1>1 DEF NInv, Due, Busy, CallInv
<1>3. call.want \in Wish \cup {None} /\ (call.op # "set_alarm_server" => call.want \in Value \cup {None})
  BY <1>2 DEF Call, CallInv, Values
<1>4. call.op \in Reading => call.want # None
  BY <1>1, <1>2, DueSays
<1>5. Value \subseteq Wish
  BY DEF Value, Wish
<1>6. w \in Wish /\ (call.op # "set_alarm_server" => w \in Value) /\ (call.op = "set_alarm_server" => w = call.want)
  <2>1. CASE call.want = None
    <3>1. call.op \notin Reading
      BY <2>1, <1>4
    <3>2. Wanted(None) \in Value
      BY <3>1, <1>2, WantedFits
    <3> QED BY <2>1, <3>1, <3>2, <1>5 DEF Reading
  <2>2. CASE call.want # None
    BY <2>2, <1>3
  <2> QED BY <2>1, <2>2
<1>7. PICK kept \in Kept(On, w) : Ask([recorder EXCEPT !.set[On] = kept], Then)
  BY <1>1
<1> DEFINE r == [recorder EXCEPT !.set[On] = kept]
<1> HIDE DEF w, c, r
<1>8. /\ recorder' \in {recorder, r}
      /\ \/ call' = c
         \/ call.op = "set_user_email" /\ Len(call.todo) > 2 /\ call' = NextShape
         \/ Fail
  <2>1. Ask(r, Then)
    BY <1>7 DEF r
  <2> QED BY <2>1 DEF Ask, Go
<1>9. /\ \E k \in Kept(On, w) : recorder' \in {recorder, [recorder EXCEPT !.set[On] = k]}
      /\ \/ call' = [Next1(call) EXCEPT !.want = w]
         \/ call.op = "set_user_email" /\ Len(call.todo) > 2 /\ call' = NextShape
         \/ Fail
  BY <1>8 DEF r, c
<1> QED BY <1>1, <1>2, <1>6, <1>9

\* A setting is written.
LEMMA EditKeeps ==
  ASSUME NInv, Edit
  PROVE  NInv'
<1>1. Due("edit") /\ CallInv /\ Busy /\ call \in Call /\ UNCHANGED <<client, calls, others>>
  BY EditSays
<1>2. PICK w \in Wish :
        /\ call.op # "set_alarm_server" => w \in Value
        /\ call.op = "set_alarm_server" => w = call.want
        /\ \E kept \in Kept(On, w) : recorder' \in {recorder, [recorder EXCEPT !.set[On] = kept]}
        /\ \/ call' = [Next1(call) EXCEPT !.want = w]
           \/ call.op = "set_user_email" /\ Len(call.todo) > 2 /\ call' = NextShape
           \/ Fail
  BY EditSays
<1>3. PICK kept \in Kept(On, w) : recorder' \in {recorder, [recorder EXCEPT !.set[On] = kept]}
  BY <1>2
<1>4. kept \in Value /\ On \in Setting
  BY <1>1, <1>2, KeptFits
<1>5. /\ recorder' \in Recorder /\ recorder'.plates = recorder.plates /\ recorder'.stored = recorder.stored
      /\ recorder'.pw = recorder.pw
  BY <1>3, <1>4 DEF NInv, Types, Recorder
<1>6. Types'
  BY <1>1, <1>5 DEF NInv, Types
<1>7. call.op # "change_admin_password_and_sync"
  <2>1. \A k \in 1..6 : SyncOrder[k] # "edit"
    <3>1. \A k \in 1..6 : k = 1 \/ k = 2 \/ k = 3 \/ k = 4 \/ k = 5 \/ k = 6
      OBVIOUS
    <3> QED BY <3>1 DEF SyncOrder
  <2> QED BY <2>1, <1>1, DueSays
<1>8. CASE Fail
  BY <1>1, <1>5, <1>6, <1>8, Failing DEF NInv
<1>9. CASE call' = [Next1(call) EXCEPT !.want = w]
  <2>1. Tail(call.todo) \in Seq(Step)
    BY <1>1, Dropped DEF CallInv, Busy
  <2>2. call' = [call EXCEPT !.todo = Tail(call.todo), !.want = w]
    BY <1>9 DEF Next1
  <2>3. call' \in Call
    BY <1>1, <2>1, <2>2 DEF Call
  <2>4. /\ call'.op = call.op /\ call'.todo = Tail(call.todo) /\ call'.ok = call.ok
        /\ call'.want = w /\ call'.off = call.off /\ call'.devs = call.devs /\ call'.all = call.all /\ call'.total = call.total
        /\ call'.had = call.had /\ call'.unread = call.unread /\ call'.found = call.found
    BY <1>1, <2>2 DEF Call
  <2>5. Moves("edit")
    BY <1>1, <2>3, <2>4 DEF Moves
  <2>6. Shape(call'.op, call'.todo)
    BY <2>5, Shorter
  <2>7. Values'
    <3>1. None \notin Wish
      BY NvrAssumption DEF Wish, Detail
    <3> QED BY <3>1, <1>2, <2>4 DEF Values
  <2>8. Alarm' /\ Enumerated' /\ Complete' /\ Synced' /\ Passed'
    BY <1>5, <1>7, <2>4, <2>5, KeepsAlarm, KeepsListed, KeepsComplete, KeepsSynced, KeepsPassed
  <2> QED BY <1>6, <2>3, <2>6, <2>7, <2>8 DEF NInv, CallInv
<1>10. CASE call.op = "set_user_email" /\ Len(call.todo) > 2 /\ call' = NextShape
  <2>1. Len(call.todo) > 1 /\ SubSeq(call.todo, 3, Len(call.todo)) \in Seq(Step)
    <3>1. Len(call.todo) \in Nat
      BY <1>1, Dropped DEF CallInv
    <3>2. Len(call.todo) > 1
      BY <3>1, <1>10
    <3> QED BY <3>2, <1>1, Dropped DEF CallInv
  <2>2. call' = [call EXCEPT !.todo = SubSeq(call.todo, 3, Len(call.todo))]
    BY <1>10 DEF NextShape
  <2> DEFINE t == SubSeq(call.todo, 3, Len(call.todo))
  <2> HIDE DEF t
  <2>3. call' = [call EXCEPT !.todo = t] /\ t \in Seq(Step)
    BY <2>1, <2>2 DEF t
  <2>4. call' \in Call
    BY <1>1, <2>3 DEF Call
  <2>5. /\ call'.op = call.op /\ call'.todo = t /\ call'.ok = call.ok
        /\ call'.want = call.want /\ call'.off = call.off /\ call'.devs = call.devs /\ call'.all = call.all /\ call'.total = call.total
        /\ call'.had = call.had /\ call'.unread = call.unread /\ call'.found = call.found
    BY <1>1, <2>3 DEF Call
  <2>6. Moves("edit")
    BY <1>1, <1>7, <2>1, <2>4, <2>5 DEF Moves, t
  <2>7. CallInv'
    BY <1>5, <1>7, <2>5, <2>6, Onward
  <2> QED BY <1>6, <2>7 DEF NInv
<1> QED BY <1>2, <1>8, <1>9, <1>10

\* What comes of a readback.
LEMMA VerifySays ==
  ASSUME NInv, Verify
  PROVE  /\ Due("verify") /\ CallInv /\ Busy /\ call \in Call /\ UNCHANGED <<client, recorder, calls, others>>
         /\ \/ Fail
            \/ Matches(recorder.set[On]) /\ call' = [call EXCEPT !.todo = <<>>]
            \/ call.op = "set_user_email" /\ Len(call.todo) > 4 /\ call' = Next1(call)
            \/ call.op = "set_user_email" /\ call' = [call EXCEPT !.todo = Login \o <<V("mail")>>, !.left = {}]
<1> DEFINE Then(ok) ==
             IF ok
               THEN IF Matches(recorder.set[On]) THEN Go([call EXCEPT !.todo = <<>>])
                    ELSE IF call.op = "set_user_email" /\ Len(call.todo) > 4 THEN Go(Next1(call)) ELSE Fail
               ELSE \/ Fail
                    \/ /\ call.op = "set_user_email" /\ Len(call.todo) < 4 /\ call.left # {}
                       /\ Go([call EXCEPT !.todo = Login \o <<V("mail")>>, !.left = {}])
<1>1. Due("verify") /\ UNCHANGED <<client, calls, others>> /\ Ask(recorder, Then)
  BY DEF Verify
<1>2. CallInv /\ Busy /\ call \in Call
  BY <1>1 DEF NInv, Due, Busy, CallInv
<1>3. recorder' = recorder /\ (Then(TRUE) \/ Then(FALSE) \/ Fail)
  <2>1. CASE Valid
    BY <1>1, <2>1 DEF Ask
  <2>2. CASE ~ Valid
    BY <1>1, <2>2 DEF Ask
  <2> QED BY <2>1, <2>2
<1> QED BY <1>1, <1>2, <1>3 DEF Go

\* A setting is read back.
LEMMA VerifyKeeps ==
  ASSUME NInv, Verify
  PROVE  NInv'
<1>1. Due("verify") /\ CallInv /\ Busy /\ call \in Call /\ UNCHANGED <<client, recorder, calls, others>>
  BY VerifySays
<1>2. Types'
  BY <1>1 DEF NInv, Types
<1>3. CASE Fail
  BY <1>1, <1>2, <1>3, Failing DEF NInv
<1>4. CASE call' = [call EXCEPT !.todo = <<>>]
  <2>1. call' \in Call
    <3>1. <<>> \in Seq(Step)
      OBVIOUS
    <3> QED BY <3>1, <1>1, <1>4 DEF Call
  <2>2. /\ call'.op = call.op /\ call'.todo = <<>> /\ call'.ok = call.ok
        /\ call'.want = call.want /\ call'.off = call.off /\ call'.devs = call.devs /\ call'.all = call.all /\ call'.total = call.total
        /\ call'.had = call.had /\ call'.unread = call.unread /\ call'.found = call.found
    BY <1>1, <1>4 DEF Call
  <2>3. call.op # "change_admin_password_and_sync"
    <3>1. \A k \in 1..6 : SyncOrder[k] # "verify"
      <4>1. \A k \in 1..6 : k = 1 \/ k = 2 \/ k = 3 \/ k = 4 \/ k = 5 \/ k = 6
        OBVIOUS
      <4> QED BY <4>1 DEF SyncOrder
    <3> QED BY <3>1, <1>1, DueSays
  <2>4. Moves("verify")
    BY <1>1, <2>1, <2>2, <2>3 DEF Moves
  <2>5. CallInv'
    BY <1>1, <2>2, <2>4, Onward
  <2> QED BY <1>2, <2>5 DEF NInv
<1>5. CASE call' = Next1(call)
  <2>1. CallInv'
    BY <1>1, <1>5, NextMoves, Onward
  <2> QED BY <1>2, <2>1 DEF NInv
<1>6. CASE call.op = "set_user_email" /\ call' = [call EXCEPT !.todo = Login \o <<V("mail")>>, !.left = {}]
  <2> DEFINE t == Login \o <<V("mail")>>
  <2>1. Shape("set_user_email", t)
    BY VerifiedPrograms
  <2> HIDE DEF t
  <2>2. t \in Seq(Step)
    BY <2>1, Dropped
  <2>3. call' = [call EXCEPT !.todo = t, !.left = {}]
    BY <1>6 DEF t
  <2>4. call' \in Call
    BY <1>1, <2>2, <2>3 DEF Call
  <2>5. /\ call'.op = "set_user_email" /\ call'.todo = t /\ call'.ok = call.ok
        /\ call'.want = call.want /\ call'.off = call.off /\ call'.devs = call.devs /\ call'.all = call.all /\ call'.total = call.total
        /\ call'.had = call.had /\ call'.unread = call.unread /\ call'.found = call.found
    BY <1>1, <1>6, <2>3 DEF Call
  <2>6. Values' /\ Alarm' /\ Synced' /\ Passed'
    <3>1. call.want # None
      BY <1>1, <1>6, DueSays DEF Reading
    <3> QED BY <1>6, <2>5, <1>1, <3>1 DEF Values, Alarm, Synced, Passed, CallInv
  <2>7. Enumerated'
    <3>1. \A k \in 1..Len(t) : t[k] \in StepOf("set_user_email")
      BY <2>1, ElementOfSeq DEF Shape
    <3>2. \A k \in 1..Len(t) : t[k][1] # "queryDevList"
      BY <3>1 DEF StepOf, Verified
    <3> QED BY <1>1, <2>5, <3>2 DEF Enumerated, CallInv
  <2>8. Complete'
    <3>1. ~ Due("requestSmartTargetSnapImage")
      BY <1>1 DEF Due
    <3> QED BY <1>1, <2>5, <3>1 DEF Complete, CallInv
  <2> QED BY <1>2, <2>1, <2>4, <2>5, <2>6, <2>7, <2>8 DEF NInv, CallInv
<1> QED BY <1>3, <1>4, <1>5, <1>6, VerifySays

\* Where the change of the password is when a request of its is due.
LEMMA SyncAt ==
  ASSUME NEW n, Due(n), CallInv, call.op = "change_admin_password_and_sync"
  PROVE  \/ Len(call.todo) = 6 /\ n = "queryDevList"
         \/ Len(call.todo) = 5 /\ n = "queryOnlineChlList"
         \/ Len(call.todo) = 4 /\ n = "editDevList"
         \/ Len(call.todo) = 3 /\ n = "editUserPassword"
         \/ Len(call.todo) = 2 /\ n = "reqLogin"
         \/ Len(call.todo) = 1 /\ n = "doLogin"
<1>1. Len(call.todo) \in 1..6 /\ n = SyncOrder[Len(call.todo)]
  BY DueSays
<1>2. \A k \in 1..6 : k = 1 \/ k = 2 \/ k = 3 \/ k = 4 \/ k = 5 \/ k = 6
  OBVIOUS
<1>3. /\ SyncOrder[6] = "queryDevList" /\ SyncOrder[5] = "queryOnlineChlList" /\ SyncOrder[4] = "editDevList"
      /\ SyncOrder[3] = "editUserPassword" /\ SyncOrder[2] = "reqLogin" /\ SyncOrder[1] = "doLogin"
  BY DEF SyncOrder
<1> DEFINE l == Len(call.todo)
<1>4. l = 1 \/ l = 2 \/ l = 3 \/ l = 4 \/ l = 5 \/ l = 6
  BY <1>1, <1>2
<1>5. n = SyncOrder[l]
  BY <1>1
<1> HIDE DEF l
<1>6. \/ l = 6 /\ n = "queryDevList"
      \/ l = 5 /\ n = "queryOnlineChlList"
      \/ l = 4 /\ n = "editDevList"
      \/ l = 3 /\ n = "editUserPassword"
      \/ l = 2 /\ n = "reqLogin"
      \/ l = 1 /\ n = "doLogin"
  BY <1>3, <1>4, <1>5
<1> QED BY <1>6 DEF l

\* The channels are listed.
LEMMA QueryDevListKeeps ==
  ASSUME NInv, QueryDevList
  PROVE  NInv'
<1>1. Due("queryDevList") /\ UNCHANGED <<client, calls, others>>
  BY DEF QueryDevList
<1>2. CallInv /\ Busy /\ call \in Call
  BY <1>1 DEF NInv, Due, Busy, CallInv
<1>3. PICK parsed \in SUBSET Present, total \in BOOLEAN :
        /\ recorder' = recorder
        /\ \/ /\ ShapeKnown(parsed, total)
              /\ call' = [Next1(call) EXCEPT !.all = Present, !.total = total, !.devs = parsed]
           \/ Fail
  <2>1. CASE Valid
    BY <2>1 DEF QueryDevList, Ask, Go
  <2>2. CASE ~ Valid
    BY <2>2 DEF QueryDevList, Ask, Go
  <2> QED BY <2>1, <2>2
<1>4. Types'
  BY <1>1, <1>3 DEF NInv, Types
<1>5. CASE Fail
  BY <1>1, <1>2, <1>3, <1>4, <1>5, Failing DEF NInv
<1>6. CASE ShapeKnown(parsed, total) /\ call' = [Next1(call) EXCEPT !.all = Present, !.total = total, !.devs = parsed]
  <2>1. Present \subseteq Channel /\ parsed \subseteq Present
    BY DEF Present
  <2>2. Tail(call.todo) \in Seq(Step)
    BY <1>2, Dropped DEF CallInv, Busy
  <2>3. call' = [call EXCEPT !.todo = Tail(call.todo), !.all = Present, !.total = total, !.devs = parsed]
    BY <1>6 DEF Next1
  <2>4. parsed = {} /\ total => Present = {}
    BY <1>6 DEF ShapeKnown
  <2> DEFINE there == Present
  <2> HIDE DEF there
  <2>5. there \subseteq Channel /\ parsed \subseteq there /\ (parsed = {} /\ total => there = {}) /\ total \in BOOLEAN
        /\ call' = [call EXCEPT !.todo = Tail(call.todo), !.all = there, !.total = total, !.devs = parsed]
    BY <2>1, <2>3, <2>4 DEF there
  <2>6. call' \in Call
    BY <1>2, <2>2, <2>5 DEF Call
  <2>7. /\ call'.op = call.op /\ call'.todo = Tail(call.todo) /\ call'.ok = call.ok
        /\ call'.want = call.want /\ call'.off = call.off /\ call'.devs = parsed /\ call'.all = there /\ call'.total = total
        /\ call'.had = call.had /\ call'.unread = call.unread /\ call'.found = call.found
    BY <1>2, <2>5 DEF Call
  <2>8. Moves("queryDevList")
    BY <1>1, <1>2, <2>6, <2>7 DEF Moves
  <2>9. call.off = {}
    <3>1. Len(call.todo) \in Nat \ {0} /\ call.todo[1][1] = "queryDevList"
      BY <1>1, <1>2, DueSays
    <3>2. 1 \in 1..Len(call.todo)
      BY <3>1
    <3> QED BY <1>2, <3>1, <3>2 DEF CallInv, Enumerated
  <2>10. Enumerated'
    BY <2>5, <2>7, <2>9 DEF Enumerated
  <2>11. Synced'
    <3>1. ASSUME call.op = "change_admin_password_and_sync" PROVE Len(call'.todo) = 5
      <4>1. Len(call.todo) = 6
        BY <1>1, <1>2, <3>1, SyncAt
      <4> QED BY <4>1, <2>7, <2>8, Shorter
    <3>2. ~ 5 <= 3 /\ ~ 5 <= 2
      OBVIOUS
    <3> QED BY <3>1, <3>2, <2>7 DEF Synced
  <2>12. Shape(call'.op, call'.todo) /\ Values' /\ Alarm' /\ Complete' /\ Passed'
    BY <1>3, <2>7, <2>8, Shorter, KeepsValues, KeepsAlarm, KeepsComplete, KeepsPassed
  <2> QED BY <1>4, <2>6, <2>10, <2>11, <2>12 DEF NInv, CallInv
<1> QED BY <1>3, <1>5, <1>6

\* The channels online are listed.
LEMMA QueryOnlineKeeps ==
  ASSUME NInv, QueryOnline
  PROVE  NInv'
<1>1. Due("queryOnlineChlList") /\ UNCHANGED <<client, calls, others>>
  BY DEF QueryOnline
<1>2. CallInv /\ Busy /\ call \in Call
  BY <1>1 DEF NInv, Due, Busy, CallInv
<1>3. /\ recorder' = recorder
      /\ \/ Fail
         \/ \E u \in {Up, {}} :
              \/ call' = [Next1(call) EXCEPT !.off = call.devs \ u]
              \/ call.op \in {"get_rtsp_url", "snapshot"} /\ call' = [[Next1(call) EXCEPT !.off = call.devs \ u] EXCEPT !.todo = <<>>]
  <2> DEFINE Then(ok) ==
             LET c == [Next1(call) EXCEPT !.off = call.devs \ (IF ok THEN Up ELSE {})]
             IN  IF call.op \in {"get_rtsp_url", "snapshot"} /\ call.devs # {}
                   THEN Go([c EXCEPT !.todo = <<>>]) ELSE Go(c)
  <2>1. Ask(recorder, Then)
    BY DEF QueryOnline
  <2>2. recorder' = recorder /\ (Then(TRUE) \/ Then(FALSE) \/ Fail)
    <3>1. CASE Valid
      BY <2>1, <3>1 DEF Ask
    <3>2. CASE ~ Valid
      BY <2>1, <3>2 DEF Ask
    <3> QED BY <3>1, <3>2
  <2>3. CASE Then(TRUE)
    BY <2>2, <2>3 DEF Go
  <2>4. CASE Then(FALSE)
    BY <2>2, <2>4 DEF Go
  <2> QED BY <2>2, <2>3, <2>4
<1>4. Types'
  BY <1>1, <1>3 DEF NInv, Types
<1>5. CASE Fail
  BY <1>1, <1>2, <1>3, <1>4, <1>5, Failing DEF NInv
<1>6. ASSUME NEW u \in {Up, {}}, NEW t \in {Tail(call.todo), <<>>},
             t = Tail(call.todo) \/ call.op \in {"get_rtsp_url", "snapshot"},
             call' = [call EXCEPT !.todo = t, !.off = call.devs \ u]
      PROVE  NInv'
  <2>1. t \in Seq(Step)
    <3>1. Tail(call.todo) \in Seq(Step)
      BY <1>2, Dropped DEF CallInv, Busy
    <3> QED BY <1>6, <3>1, EmptySeq
  <2> DEFINE off == call.devs \ u
  <2>2. off \subseteq call.devs
    OBVIOUS
  <2> HIDE DEF off
  <2>3. call' = [call EXCEPT !.todo = t, !.off = off] /\ off \subseteq Channel
    BY <1>2, <1>6, <2>2 DEF off, Call
  <2>4. call' \in Call
    BY <1>2, <2>1, <2>3 DEF Call
  <2>5. /\ call'.op = call.op /\ call'.todo = t /\ call'.ok = call.ok
        /\ call'.want = call.want /\ call'.off = off /\ call'.devs = call.devs /\ call'.all = call.all /\ call'.total = call.total
        /\ call'.had = call.had /\ call'.unread = call.unread /\ call'.found = call.found
    BY <1>2, <2>3 DEF Call
  <2>6. Moves("queryOnlineChlList")
    BY <1>1, <1>2, <1>6, <2>4, <2>5 DEF Moves
  <2>7. \A k \in 1..Len(call'.todo) : call'.todo[k][1] # "queryDevList"
    <3> SUFFICES ASSUME NEW k \in 1..Len(call'.todo), call'.todo[k][1] = "queryDevList" PROVE FALSE
      OBVIOUS
    <3>1. Len(call.todo) \in Nat \ {0} /\ call.todo[1][1] = "queryOnlineChlList" /\ ListedOnce(call.todo) /\ call.todo # <<>>
      BY <1>1, <1>2, DueSays DEF CallInv, Shape
    <3>2. Suffix(call'.todo, call.todo) /\ Len(call'.todo) \in Nat
      BY <2>6, Shorter
    <3>3. Len(call'.todo) < Len(call.todo)
      <4>1. CASE t = Tail(call.todo)
        <5>1. Len(call'.todo) = Len(call.todo) - 1
          BY <4>1, <2>5, <2>6, Shorter
        <5> QED BY <5>1, <3>1
      <4>2. CASE t = <<>>
        <5>1. Len(call'.todo) = 0
          BY <4>2, <2>5
        <5> QED BY <5>1, <3>1
      <4> QED BY <4>1, <4>2
    <3> DEFINE a == Len(call'.todo)
               b == Len(call.todo)
    <3>4. call'.todo[k] = call.todo[k + (b - a)] /\ call'.todo[k][1] = "queryDevList"
      BY <3>2 DEF Suffix
    <3> HIDE DEF a, b
    <3>5. a \in Int /\ b \in Int /\ a < b /\ k \in 1..a /\ k \in Int /\ b > 0
      BY <3>1, <3>2, <3>3 DEF a, b
    <3>6. k + (b - a) \in 1..b /\ 1 < k + (b - a) /\ 1 \in 1..b
      BY <3>5
    <3>7. call.todo[k + (b - a)][1] = "queryDevList"
      BY <3>4
    <3>8. \A i \in 1..b : 1 < i /\ call.todo[i][1] = "queryDevList" => call.todo[1][1] # "queryOnlineChlList"
      BY <3>1, <3>6 DEF ListedOnce, b
    <3> QED BY <3>1, <3>6, <3>7, <3>8
  <2>8. Enumerated'
    BY <1>2, <2>2, <2>5, <2>7 DEF Enumerated, CallInv
  <2>9. Shape(call'.op, call'.todo) /\ Values' /\ Alarm' /\ Complete' /\ Synced' /\ Passed'
    BY <1>3, <2>5, <2>6, Shorter, KeepsValues, KeepsAlarm, KeepsComplete, KeepsSynced, KeepsPassed
  <2> QED BY <1>4, <2>4, <2>8, <2>9 DEF NInv, CallInv
<1>7. ASSUME NEW u \in {Up, {}}, call' = [Next1(call) EXCEPT !.off = call.devs \ u] PROVE NInv'
  <2>1. call' = [call EXCEPT !.todo = Tail(call.todo), !.off = call.devs \ u]
    BY <1>7 DEF Next1
  <2> QED BY <2>1, <1>6
<1>8. ASSUME NEW u \in {Up, {}}, call.op \in {"get_rtsp_url", "snapshot"},
             call' = [[Next1(call) EXCEPT !.off = call.devs \ u] EXCEPT !.todo = <<>>]
      PROVE  NInv'
  <2>1. call' = [call EXCEPT !.todo = <<>>, !.off = call.devs \ u]
    BY <1>8 DEF Next1
  <2> QED BY <2>1, <1>6, <1>8
<1> QED BY <1>3, <1>5, <1>7, <1>8

\* The password of every listed channel is stored.
LEMMA EditDevListKeeps ==
  ASSUME NInv, EditDevList
  PROVE  NInv'
<1> DEFINE kept == [c \in Channel |-> IF c \in call.devs THEN Credential ELSE recorder.stored[c]]
           effect == [recorder EXCEPT !.stored = kept]
<1>1. Due("editDevList") /\ UNCHANGED <<calls, others>> /\ Checked(effect, Next1(call))
  BY DEF EditDevList
<1>2. CallInv /\ call \in Call
  BY <1>1 DEF NInv, Due, Busy, CallInv
<1>3. recorder \in Recorder /\ kept \in [Channel -> Pw]
  BY DEF NInv, Types, Recorder, Client, Credential, Pw
<1> HIDE DEF kept
<1>4. effect \in Recorder /\ effect.stored = kept /\ effect.pw = recorder.pw /\ effect.plates = recorder.plates
  BY <1>3 DEF Recorder
<1> HIDE DEF effect
<1>5. /\ client' = client
      /\ \/ recorder' = effect /\ call' = Next1(call)
         \/ recorder' \in {recorder, effect} /\ Fail
  BY <1>1, Answered
<1>6. Types' /\ recorder'.plates = recorder.plates
  BY <1>1, <1>3, <1>4, <1>5 DEF NInv, Types
<1>7. CASE Fail
  BY <1>1, <1>2, <1>6, <1>7, Failing DEF NInv
<1>8. CASE recorder' = effect /\ call' = Next1(call)
  <2>1. /\ Moves("editDevList") /\ call'.want = call.want /\ call'.off = call.off /\ call'.devs = call.devs /\ call'.all = call.all
        /\ call'.total = call.total
        /\ call'.had = call.had /\ call'.unread = call.unread /\ call'.found = call.found /\ call'.todo = Tail(call.todo) /\ call'.op = call.op
    BY <1>1, <1>2, <1>8, NextMoves DEF Moves
  <2>2. Synced'
    <3> SUFFICES ASSUME call.op = "change_admin_password_and_sync"
                 PROVE  /\ \A c \in call.devs : kept[c] = "new"
                        /\ ~ Len(call'.todo) <= 2
      BY <1>4, <1>8, <2>1 DEF Synced
    <3>1. Len(call.todo) = 4
      BY <1>1, <1>2, SyncAt
    <3>2. Len(call'.todo) = 3
      BY <2>1, <3>1, Shorter
    <3>3. Credential = "new" /\ call.devs \subseteq Channel
      BY <1>2 DEF Credential, Call
    <3>4. \A c \in call.devs : kept[c] = "new"
      BY <3>3 DEF kept
    <3>5. ~ 3 <= 2
      OBVIOUS
    <3> QED BY <3>2, <3>4, <3>5
  <2>3. call' \in Call /\ Shape(call'.op, call'.todo) /\ Values' /\ Alarm' /\ Enumerated' /\ Complete' /\ Passed'
    BY <1>6, <2>1, Shorter, KeepsValues, KeepsAlarm, KeepsListed, KeepsComplete, KeepsPassed DEF Moves
  <2> QED BY <1>6, <2>2, <2>3 DEF NInv, CallInv
<1> QED BY <1>5, <1>7, <1>8

\* A channel is deleted.
LEMMA DeleteDevicesKeeps ==
  ASSUME NInv, DeleteDevices
  PROVE  NInv'
<1>1. PICK c \in Channel : Due("delDevList") /\ UNCHANGED <<calls, others>> /\ Checked([recorder EXCEPT !.devs[c] = "none"], Next1(call))
  BY DEF DeleteDevices
<1> DEFINE effect == [recorder EXCEPT !.devs[c] = "none"]
<1>2. CallInv
  BY <1>1 DEF NInv, Due, Busy
<1>3. recorder \in Recorder
  BY DEF NInv, Types
<1>4. effect \in Recorder /\ effect.stored = recorder.stored /\ effect.pw = recorder.pw /\ effect.plates = recorder.plates
  BY <1>3 DEF Recorder
<1>5. Checked(effect, Next1(call))
  BY <1>1
<1> HIDE DEF effect
<1>6. /\ client' = client
      /\ \/ recorder' = effect /\ call' = Next1(call)
         \/ recorder' \in {recorder, effect} /\ Fail
  BY <1>5, Answered
<1>7. Types' /\ recorder'.plates = recorder.plates
  BY <1>1, <1>3, <1>4, <1>6 DEF NInv, Types
<1>8. CASE Fail
  BY <1>1, <1>2, <1>7, <1>8, Failing DEF NInv
<1>9. CASE recorder' = effect /\ call' = Next1(call)
  <2>1. CallInv'
    BY <1>1, <1>2, <1>4, <1>9, NextMoves, Onward
  <2> QED BY <1>7, <2>1 DEF NInv
<1> QED BY <1>6, <1>8, <1>9

\* A channel is added.
LEMMA CreateDeviceKeeps ==
  ASSUME NInv, CreateDevice
  PROVE  NInv'
<1>1. PICK c \in Channel, p \in Pw :
        /\ Due("createDevList") /\ UNCHANGED <<calls, others>>
        /\ Checked([recorder EXCEPT !.devs[c] = IF p = recorder.cam[c] THEN "up" ELSE "down", !.stored[c] = p], Next1(call))
  BY DEF CreateDevice
<1> DEFINE effect == [recorder EXCEPT !.devs[c] = IF p = recorder.cam[c] THEN "up" ELSE "down", !.stored[c] = p]
<1>2. CallInv
  BY <1>1 DEF NInv, Due, Busy
<1>3. recorder \in Recorder
  BY DEF NInv, Types
<1>4. effect \in Recorder /\ effect.plates = recorder.plates
  BY <1>3 DEF Recorder
<1>5. Checked(effect, Next1(call))
  BY <1>1
<1> HIDE DEF effect
<1>6. /\ client' = client
      /\ \/ recorder' = effect /\ call' = Next1(call)
         \/ recorder' \in {recorder, effect} /\ Fail
  BY <1>5, Answered
<1>7. Types' /\ recorder'.plates = recorder.plates
  BY <1>1, <1>3, <1>4, <1>6 DEF NInv, Types
<1>8. CASE Fail
  BY <1>1, <1>2, <1>7, <1>8, Failing DEF NInv
<1>9. CASE recorder' = effect /\ call' = Next1(call)
  <2>1. call.op # "change_admin_password_and_sync"
    BY <1>1, <1>2, SyncAt
  <2>2. CallInv'
    BY <1>1, <1>2, <1>4, <1>9, <2>1, NextMoves, Onward
  <2> QED BY <1>7, <2>2 DEF NInv
<1> QED BY <1>6, <1>8, <1>9

\* The recorder is asked whether it searches for faces.
LEMMA ProbeFacesKeeps ==
  ASSUME NInv, ProbeFaces
  PROVE  NInv'
<1>1. Due("searchImageByImageV2") /\ UNCHANGED <<client, calls, others>>
  BY DEF ProbeFaces
<1>2. CallInv /\ Busy /\ call \in Call
  BY <1>1 DEF NInv, Due, Busy, CallInv
<1>3. /\ recorder' = recorder
      /\ Fail \/ \E ok \in BOOLEAN : call' = [Next1(call) EXCEPT !.on = ok]
  <2>1. CASE Valid
    BY <2>1 DEF ProbeFaces, Ask, Go
  <2>2. CASE ~ Valid
    BY <2>2 DEF ProbeFaces, Ask, Go
  <2> QED BY <2>1, <2>2
<1>4. Types'
  BY <1>1, <1>3 DEF NInv, Types
<1>5. CASE Fail
  BY <1>1, <1>2, <1>3, <1>4, <1>5, Failing DEF NInv
<1>6. ASSUME NEW ok \in BOOLEAN, call' = [Next1(call) EXCEPT !.on = ok] PROVE NInv'
  <2>1. Tail(call.todo) \in Seq(Step)
    BY <1>2, Dropped DEF CallInv, Busy
  <2>2. call' = [call EXCEPT !.todo = Tail(call.todo), !.on = ok]
    BY <1>6 DEF Next1
  <2>3. call' \in Call
    BY <1>2, <2>1, <2>2 DEF Call
  <2>4. /\ call'.op = call.op /\ call'.todo = Tail(call.todo) /\ call'.ok = call.ok
        /\ call'.want = call.want /\ call'.off = call.off /\ call'.devs = call.devs /\ call'.all = call.all /\ call'.total = call.total
        /\ call'.had = call.had /\ call'.unread = call.unread /\ call'.found = call.found
    BY <1>2, <2>2 DEF Call
  <2>5. Moves("searchImageByImageV2")
    BY <1>1, <1>2, <2>3, <2>4 DEF Moves
  <2>6. CallInv'
    BY <1>3, <2>4, <2>5, Onward
  <2> QED BY <1>4, <2>6 DEF NInv
<1> QED BY <1>3, <1>5, <1>6

\* The recorder's own password is changed.
LEMMA EditUserPasswordKeeps ==
  ASSUME NInv, EditUserPassword
  PROVE  NInv'
<1> DEFINE changed == [recorder EXCEPT !.pw = "new", !.session = FALSE]
           out == [client EXCEPT !.in = FALSE, !.token = None, !.pw = IF LogsInAgain THEN "new" ELSE @]
<1>1. Due("editUserPassword") /\ UNCHANGED <<calls, others>>
  BY DEF EditUserPassword
<1>2. CallInv /\ Busy
  BY <1>1 DEF NInv, Due, Busy
<1>3. \/ recorder' = changed /\ client' = out /\ call' = Next1(call)
      \/ recorder' \in {recorder, changed} /\ client' = client /\ Fail
  BY DEF EditUserPassword, Go
<1>4. recorder \in Recorder /\ client \in Client
  BY DEF NInv, Types
<1>5. /\ changed \in Recorder /\ changed.plates = recorder.plates /\ changed.stored = recorder.stored /\ changed.pw = "new"
      /\ out \in Client
  BY <1>4 DEF Recorder, Client, Pw
<1> HIDE DEF changed, out
<1>6. Types' /\ recorder'.plates = recorder.plates
  BY <1>1, <1>3, <1>4, <1>5 DEF NInv, Types
<1>7. CASE Fail
  BY <1>1, <1>2, <1>6, <1>7, Failing DEF NInv
<1>8. CASE recorder' = changed /\ call' = Next1(call)
  <2>1. /\ Moves("editUserPassword") /\ call'.want = call.want /\ call'.off = call.off /\ call'.devs = call.devs /\ call'.all = call.all
        /\ call'.total = call.total
        /\ call'.had = call.had /\ call'.unread = call.unread /\ call'.found = call.found
        /\ call'.todo = Tail(call.todo) /\ call'.op = call.op /\ call'.ok = call.ok
    BY <1>1, <1>2, <1>8, NextMoves DEF Moves
  <2>2. Synced'
    <3> SUFFICES ASSUME call.op = "change_admin_password_and_sync", call.ok
                 PROVE  \A c \in call.devs : recorder.stored[c] = "new"
      BY <1>5, <1>8, <2>1 DEF Synced
    <3>1. Len(call.todo) = 3
      BY <1>1, <1>2, SyncAt
    <3>2. 3 <= 3
      OBVIOUS
    <3> QED BY <1>2, <3>1, <3>2 DEF CallInv, Synced
  <2>3. call' \in Call /\ Shape(call'.op, call'.todo) /\ Values' /\ Alarm' /\ Enumerated' /\ Complete' /\ Passed'
    BY <1>6, <2>1, Shorter, KeepsValues, KeepsAlarm, KeepsListed, KeepsComplete, KeepsPassed DEF Moves
  <2> QED BY <1>6, <2>2, <2>3 DEF NInv, CallInv
<1> QED BY <1>3, <1>7, <1>8

\* What holds of an operation whose program stays where it is.
LEMMA Staying ==
  ASSUME CallInv, Busy, call'.op = call.op, call'.todo = call.todo, call'.on = call.on, call'.seen = call.seen,
         call'.want = call.want, call'.all = call.all,
         call'.total = call.total, call'.devs = call.devs, call'.off = call.off, call'.ok = call.ok,
         recorder'.stored = recorder.stored, recorder'.pw = recorder.pw
  PROVE  Shape(call'.op, call'.todo) /\ Values' /\ Alarm' /\ Enumerated' /\ Synced'
<1>1. Shape(call'.op, call'.todo)
  BY DEF CallInv
<1>2. Values' /\ Enumerated' /\ Synced'
  BY DEF CallInv, Values, Enumerated, Synced
<1>3. \A n \in {"queryScheduleList", "edit"} : Due(n)' => Due(n)
  BY DEF Due, Busy
<1>4. Alarm'
  BY <1>3 DEF CallInv, Alarm
<1> QED BY <1>1, <1>2, <1>4

\* The password of one camera after the other is edited; who returns has none left and none missed.
LEMMA EditIpcPasswordKeeps ==
  ASSUME NInv, EditIpcPassword
  PROVE  NInv' /\ CallInv' /\ call'.op = call.op /\ (call'.todo = <<>> /\ call'.ok => call'.left = {} /\ call'.missed = {})
<1>1. Due("editIPChlPassword") /\ UNCHANGED <<client, calls, others>>
  BY DEF EditIpcPassword
<1>2. CallInv /\ Busy /\ call \in Call
  BY <1>1 DEF NInv, Due, Busy, CallInv
<1>3. PICK c \in call.left :
        LET reached == recorder.devs[c] # "none" /\ recorder.stored[c] = recorder.cam[c]
            rest == [call EXCEPT !.left = @ \ {c}]
            Then(ok) == LET next == [rest EXCEPT !.missed = Missed(ok /\ reached, c)]
                        IN  IF next.left # {} THEN Go(next)
                            ELSE IF next.missed # {} THEN Fail ELSE Go([next EXCEPT !.todo = <<>>])
        IN  Ask(IF reached THEN [recorder EXCEPT !.cam[c] = "new"] ELSE recorder, Then)
  BY DEF EditIpcPassword
<1> DEFINE reached == recorder.devs[c] # "none" /\ recorder.stored[c] = recorder.cam[c]
           rest == [call EXCEPT !.left = @ \ {c}]
           next(ok) == [rest EXCEPT !.missed = Missed(ok /\ reached, c)]
           Then(ok) == IF next(ok).left # {} THEN Go(next(ok))
                       ELSE IF next(ok).missed # {} THEN Fail ELSE Go([next(ok) EXCEPT !.todo = <<>>])
           effect == IF reached THEN [recorder EXCEPT !.cam[c] = "new"] ELSE recorder
<1>4. Ask(effect, Then)
  BY <1>3
<1>5. \/ recorder' = effect /\ Then(TRUE)
      \/ recorder' = recorder /\ Then(FALSE)
      \/ recorder' \in {recorder, effect} /\ Fail
  <2> HIDE DEF effect, Then
  <2>1. CASE Valid
    BY <1>4, <2>1 DEF Ask
  <2>2. CASE ~ Valid
    BY <1>4, <2>2 DEF Ask
  <2> QED BY <2>1, <2>2
<1>6. recorder \in Recorder
  BY DEF NInv, Types
<1>7. /\ effect \in Recorder /\ effect.plates = recorder.plates /\ effect.stored = recorder.stored /\ effect.pw = recorder.pw
      /\ \A d \in Channel : recorder.cam[d] = "new" => effect.cam[d] = "new"
      /\ reached /\ c \in Channel => effect.cam[c] = "new"
  BY <1>6 DEF Recorder, Pw
<1>8. \A ok \in BOOLEAN : next(ok) = [call EXCEPT !.left = call.left \ {c}, !.missed = Missed(ok /\ reached, c)]
  OBVIOUS
<1> HIDE DEF effect, reached
<1>9. \A ok \in BOOLEAN : Missed(ok /\ reached, c) \in SUBSET (Channel \cup Plate) /\ (c \in Missed(ok /\ reached, c) \/ (ok /\ reached))
        /\ call.missed \subseteq Missed(ok /\ reached, c)
  BY <1>2 DEF Missed, Call
<1>10. /\ recorder' \in Recorder /\ recorder'.plates = recorder.plates /\ recorder'.stored = recorder.stored /\ recorder'.pw = recorder.pw
       /\ \A d \in Channel : recorder.cam[d] = "new" => recorder'.cam[d] = "new"
  BY <1>5, <1>6, <1>7
<1>11. Types'
  BY <1>1, <1>10 DEF NInv, Types
<1>12. CASE Fail
  <2>1. CallInv'
    BY <1>1, <1>2, <1>10, <1>12, Failing
  <2>2. call'.op = call.op /\ ~ call'.ok
    BY <1>2, <1>12 DEF Fail, Call
  <2> QED BY <1>11, <2>1, <2>2 DEF NInv
<1>13. ASSUME NEW ok \in BOOLEAN, Then(ok), recorder' = (IF ok THEN effect ELSE recorder), ~ Fail
       PROVE  NInv' /\ CallInv' /\ call'.op = call.op /\ (call'.todo = <<>> /\ call'.ok => call'.left = {} /\ call'.missed = {})
  <2> DEFINE left == call.left \ {c}
             missed == Missed(ok /\ reached, c)
  <2>1. \/ call' = [call EXCEPT !.left = left, !.missed = missed]
        \/ /\ call' = [[call EXCEPT !.left = left, !.missed = missed] EXCEPT !.todo = <<>>]
           /\ left = {} /\ missed = {}
    <3>1. next(ok) = [call EXCEPT !.left = left, !.missed = missed]
      BY <1>8
    <3>2. next(ok).left = left /\ next(ok).missed = missed
      BY <1>2, <3>1 DEF Call
    <3>3. next(ok).left # {} => call' = next(ok)
      BY <1>13 DEF Go
    <3>4. next(ok).left = {} => next(ok).missed = {} /\ call' = [next(ok) EXCEPT !.todo = <<>>]
      BY <1>13 DEF Go
    <3> HIDE DEF next, left, missed
    <3> QED BY <3>1, <3>2, <3>3, <3>4
  <2>2. left \in SUBSET (Channel \cup Plate) /\ missed \in SUBSET (Channel \cup Plate)
    BY <1>2, <1>9 DEF Call
  <2>3. (c \in missed \/ (ok /\ reached)) /\ call.missed \subseteq missed /\ \A d \in Channel : d # c /\ d \notin left => d \notin call.left
    BY <1>9
  <2> HIDE DEF left, missed
  <2>4. PICK t \in {call.todo, <<>>} :
          /\ call' = [call EXCEPT !.todo = t, !.left = left, !.missed = missed]
          /\ t = <<>> => left = {} /\ missed = {}
    <3>1. CASE call' = [call EXCEPT !.left = left, !.missed = missed]
      <4>1. call' = [call EXCEPT !.todo = call.todo, !.left = left, !.missed = missed]
        BY <1>2, <3>1 DEF Call
      <4> QED BY <1>2, <4>1 DEF Busy
    <3>2. CASE /\ call' = [[call EXCEPT !.left = left, !.missed = missed] EXCEPT !.todo = <<>>]
               /\ left = {} /\ missed = {}
      <4>1. call' = [call EXCEPT !.todo = <<>>, !.left = left, !.missed = missed]
        BY <3>2
      <4> QED BY <3>2, <4>1
    <3> QED BY <2>1, <3>1, <3>2
  <2>5. t \in Seq(Step)
    BY <1>2, EmptySeq DEF Call
  <2>6. call' \in Call
    BY <1>2, <2>2, <2>4, <2>5 DEF Call
  <2>7. /\ call'.op = call.op /\ call'.todo = t /\ call'.on = call.on /\ call'.seen = call.seen
        /\ call'.want = call.want /\ call'.all = call.all
        /\ call'.total = call.total /\ call'.devs = call.devs /\ call'.off = call.off /\ call'.ok = call.ok
        /\ call'.had = call.had /\ call'.unread = call.unread /\ call'.found = call.found /\ call'.left = left /\ call'.missed = missed
    BY <1>2, <2>4 DEF Call
  <2>8. Passed'
    <3> SUFFICES ASSUME call.op = "edit_nvr_ipc_passwords", call.ok, NEW d \in Channel, d \notin left, d \notin missed
                 PROVE  recorder'.cam[d] = "new"
      BY <2>7 DEF Passed
    <3>1. CASE d = c
      <4>1. ok /\ reached
        BY <2>3, <3>1
      <4> QED BY <4>1, <1>7, <1>13, <3>1
    <3>2. CASE d # c
      <4>1. d \notin call.left /\ d \notin call.missed
        BY <2>3, <3>2
      <4>2. recorder.cam[d] = "new"
        BY <1>2, <4>1 DEF CallInv, Passed
      <4> QED BY <4>2, <1>10
    <3> QED BY <3>1, <3>2
  <2>9. Complete'
    <3>1. ~ Due("requestSmartTargetSnapImage")
      BY <1>1 DEF Due
    <3> QED BY <1>2, <1>10, <2>7, <3>1 DEF Complete, CallInv
  <2>10. CASE t = call.todo
    <3>1. Shape(call'.op, call'.todo) /\ Values' /\ Alarm' /\ Enumerated' /\ Synced'
      BY <1>2, <1>10, <2>7, <2>10, Staying
    <3> QED BY <1>2, <1>11, <2>6, <2>7, <2>8, <2>9, <2>10, <3>1 DEF NInv, CallInv, Busy
  <2>11. CASE t = <<>>
    <3>1. call.op # "change_admin_password_and_sync"
      BY <1>1, <1>2, SyncAt
    <3>2. Moves("editIPChlPassword")
      BY <1>1, <1>2, <2>6, <2>7, <2>11, <3>1 DEF Moves
    <3>3. Shape(call'.op, call'.todo) /\ Values' /\ Alarm' /\ Enumerated' /\ Synced'
      BY <2>7, <3>1, <3>2, Shorter, KeepsValues, KeepsAlarm, KeepsListed, KeepsSynced
    <3> QED BY <1>11, <2>4, <2>6, <2>7, <2>8, <2>9, <2>11, <3>3 DEF NInv, CallInv
  <2> QED BY <2>10, <2>11
<1> HIDE DEF Then
<1> QED BY <1>5, <1>12, <1>13

\* A page that is not full holds every record.
LEMMA SearchPlatesKeeps ==
  ASSUME NInv, SearchPlates
  PROVE  NInv'
<1>1. Due("searchSmartTarget") /\ UNCHANGED <<client, calls, others>>
  BY DEF SearchPlates
<1>2. CallInv /\ Busy /\ call \in Call
  BY <1>1 DEF NInv, Due, Busy, CallInv
<1>3. PICK page \in SUBSET recorder.plates :
        /\ Cardinality(page) = IF Cardinality(recorder.plates) < Limit THEN Cardinality(recorder.plates) ELSE Limit
        /\ recorder' = recorder
        /\ \/ Fail
           \/ /\ ~ PageFull(Cardinality(page))
              /\ call' = [call EXCEPT !.todo = IF page = {} THEN <<>> ELSE One("requestSmartTargetSnapImage"),
                                      !.left = page, !.had = recorder.plates]
  <2>1. CASE Valid
    BY <2>1 DEF SearchPlates, Ask, Go
  <2>2. CASE ~ Valid
    BY <2>2 DEF SearchPlates, Ask, Go
  <2> QED BY <2>1, <2>2
<1>4. Types'
  BY <1>1, <1>3 DEF NInv, Types
<1>5. CASE Fail
  BY <1>1, <1>2, <1>3, <1>4, <1>5, Failing DEF NInv
<1>6. CASE ~ Fail
  <2>1. recorder.plates \in SUBSET Plate
    BY DEF NInv, Types, Recorder
  <2>2. page = recorder.plates
    <3>1. IsFiniteSet(recorder.plates)
      BY <2>1, NvrAssumption, FS_Subset
    <3>2. IsFiniteSet(page) /\ (Cardinality(page) = Cardinality(recorder.plates) => page = recorder.plates)
      BY <3>1, FS_Subset
    <3>3. Cardinality(page) \in Nat /\ Cardinality(recorder.plates) \in Nat /\ Limit \in Nat
      <4>1. Cardinality(page) \in Nat /\ Cardinality(recorder.plates) \in Nat
        BY <3>1, <3>2, FS_CardinalityType
      <4>2. Limit \in Nat
        <5>1. Limit \in 1..100
          BY NvrAssumption
        <5> QED BY <5>1
      <4> QED BY <4>1, <4>2
    <3>4. ~ Cardinality(page) >= Limit
      BY <1>3, <1>6 DEF PageFull
    <3>5. Cardinality(page) = Cardinality(recorder.plates)
      BY <1>3, <3>3, <3>4
    <3> QED BY <3>2, <3>5
  <2> DEFINE t == IF page = {} THEN <<>> ELSE One("requestSmartTargetSnapImage")
  <2>3. call' = [call EXCEPT !.todo = t, !.left = page, !.had = page]
    BY <1>3, <1>6, <2>2
  <2>4. call.op \notin Special
    <3>1. call.op \notin Verified /\ call.op # "edit_nvr_ipc_passwords"
      BY <1>1, <1>2, DueSays
    <3>2. call.op # "change_admin_password_and_sync"
      BY <1>1, <1>2, SyncAt
    <3>3. call.op # "set_alarm_server"
      <4>1. \A k \in 1..3 : k = 1 \/ k = 2 \/ k = 3
        OBVIOUS
      <4>2. AlarmOrder[1] # "searchSmartTarget" /\ AlarmOrder[2] # "searchSmartTarget" /\ AlarmOrder[3] # "searchSmartTarget"
        BY DEF AlarmOrder
      <4>3. \A k \in 1..3 : AlarmOrder[k] # "searchSmartTarget"
        BY <4>1, <4>2
      <4> QED BY <4>3, <1>1, <1>2, DueSays
    <3> QED BY <3>1, <3>2, <3>3 DEF Special
  <2>5. One("requestSmartTargetSnapImage") \in Seq(Ordinary)
    BY Requests DEF Plain
  <2>6. t \in Seq(Ordinary)
    BY <2>5, EmptySeq
  <2>7. t # <<>> <=> page # {}
    BY DEF One
  <2>8. t # <<>> => Head(t)[1] = "requestSmartTargetSnapImage"
    BY DEF One
  <2> HIDE DEF t
  <2>9. Shape(call.op, t)
    BY <2>4, <2>6, OrdinaryShape
  <2>10. t \in Seq(Step)
    BY <2>9, Dropped
  <2>11. page \in SUBSET (Channel \cup Plate) /\ page \in SUBSET Plate
    BY <2>1
  <2>12. call' \in Call
    BY <1>2, <2>3, <2>10, <2>11 DEF Call
  <2>13. /\ call'.op = call.op /\ call'.todo = t /\ call'.on = call.on /\ call'.seen = call.seen
         /\ call'.want = call.want /\ call'.all = call.all
         /\ call'.total = call.total /\ call'.devs = call.devs /\ call'.off = call.off /\ call'.ok = call.ok
         /\ call'.had = page /\ call'.found = call.found /\ call'.left = page
    BY <1>2, <2>3 DEF Call
  <2>14. Values'
    <3>1. call.op \in Reading => call.want # None
      BY <1>1, <1>2, DueSays
    <3> QED BY <3>1, <1>2, <2>13 DEF Values, CallInv
  <2>15. Alarm' /\ Synced' /\ Passed'
    BY <2>4, <2>13 DEF Special, Alarm, Synced, Passed
  <2>16. Enumerated'
    <3>1. \A k \in 1..Len(t) : t[k] \in Ordinary
      BY <2>6, ElementOfSeq
    <3>2. \A k \in 1..Len(t) : t[k][1] # "queryDevList"
      BY <3>1 DEF Ordinary
    <3> QED BY <1>2, <2>13, <3>2 DEF Enumerated, CallInv
  <2> SUFFICES ASSUME call' # None PROVE CallInv'
    BY <1>4 DEF NInv
  <2>17. Complete'
    <3>1. page # {} => Due("requestSmartTargetSnapImage")'
      BY <2>7, <2>8, <2>13 DEF Due, Busy
    <3>2. page \subseteq recorder'.plates
      BY <1>3
    <3> QED BY <3>1, <3>2, <2>13 DEF Complete
  <2> QED BY <2>9, <2>12, <2>13, <2>14, <2>15, <2>16, <2>17 DEF CallInv
<1> QED BY <1>5, <1>6

\* A record is resolved or left unread, or it is gone.
LEMMA ResolvePlateKeeps ==
  ASSUME NInv, ResolvePlate
  PROVE  NInv'
<1>1. Due("requestSmartTargetSnapImage") /\ UNCHANGED <<calls, others>>
  BY DEF ResolvePlate
<1>2. CallInv /\ Busy /\ call \in Call
  BY <1>1 DEF NInv, Due, Busy, CallInv
<1>3. PICK p \in call.left :
        LET rest == [call EXCEPT !.left = @ \ {p}, !.todo = IF call.left = {p} THEN <<>> ELSE @]
            blind == [rest EXCEPT !.unread = @ \cup {p}]
            seen == [rest EXCEPT !.found = @ \cup ({p} \cap recorder.plates)]
        IN  client' = client /\ recorder' = recorder /\ (call' = blind \/ call' = seen \/ Fail)
  <2>1. PICK p \in call.left :
          LET rest == [call EXCEPT !.left = @ \ {p}, !.todo = IF call.left = {p} THEN <<>> ELSE @]
              blind == [rest EXCEPT !.unread = @ \cup {p}]
              seen == [rest EXCEPT !.found = @ \cup ({p} \cap recorder.plates)]
          IN  \/ call' = blind /\ UNCHANGED <<client, recorder>>
              \/ \E c \in {blind, seen} : Checked(recorder, c)
    BY DEF ResolvePlate, Go
  <2> DEFINE rest == [call EXCEPT !.left = @ \ {p}, !.todo = IF call.left = {p} THEN <<>> ELSE @]
             blind == [rest EXCEPT !.unread = @ \cup {p}]
             seen == [rest EXCEPT !.found = @ \cup ({p} \cap recorder.plates)]
  <2>2. (call' = blind /\ UNCHANGED <<client, recorder>>) \/ Checked(recorder, blind) \/ Checked(recorder, seen)
    BY <2>1
  <2> HIDE DEF blind, seen
  <2>3. client' = client /\ recorder' = recorder /\ (call' = blind \/ call' = seen \/ Fail)
    BY <2>2, Answered
  <2> QED BY <2>3 DEF blind, seen
<1> DEFINE left == call.left \ {p}
           t == IF call.left = {p} THEN <<>> ELSE call.todo
<1>4. PICK unread \in {call.unread, call.unread \cup {p}}, found \in {call.found, call.found \cup ({p} \cap recorder.plates)} :
        /\ client' = client /\ recorder' = recorder
        /\ Fail \/ call' = [call EXCEPT !.left = left, !.unread = unread, !.found = found, !.todo = t]
        /\ unread = call.unread \cup {p} \/ found = call.found \cup ({p} \cap recorder.plates)
  <2>1. /\ [[call EXCEPT !.left = left, !.todo = t] EXCEPT !.unread = @ \cup {p}]
             = [call EXCEPT !.left = left, !.unread = call.unread \cup {p}, !.found = call.found, !.todo = t]
        /\ [[call EXCEPT !.left = left, !.todo = t] EXCEPT !.found = @ \cup ({p} \cap recorder.plates)]
             = [call EXCEPT !.left = left, !.unread = call.unread, !.found = call.found \cup ({p} \cap recorder.plates), !.todo = t]
    BY <1>2 DEF Call
  <2> QED BY <1>3, <2>1
<1> DEFINE c == [call EXCEPT !.left = left, !.unread = unread, !.found = found, !.todo = t]
<1> HIDE DEF c
<1>5. Types'
  BY <1>1, <1>4 DEF NInv, Types
<1>6. CASE Fail
  BY <1>1, <1>2, <1>4, <1>5, <1>6, Failing DEF NInv
<1>7. CASE call' = c
  <2>1. recorder.plates \in SUBSET Plate
    BY DEF NInv, Types, Recorder
  <2>2. left \in SUBSET (Channel \cup Plate) /\ found \in SUBSET Plate /\ unread \in SUBSET (Channel \cup Plate)
    BY <1>2, <2>1, <1>4 DEF Call
  <2>3. t \in Seq(Step)
    BY <1>2, EmptySeq DEF Call
  <2>4. call.had \subseteq recorder.plates /\ (call.ok => call.had \subseteq call.found \cup call.unread \cup call.left)
    BY <1>1, <1>2 DEF CallInv, Complete
  <2>5. call.ok => call.had \subseteq found \cup unread \cup left
    BY <2>4, <1>4
  <2>6. t # call.todo => t = <<>> /\ left = {}
    OBVIOUS
  <2> HIDE DEF left, t
  <2>7. call' \in Call
    BY <1>2, <1>7, <2>2, <2>3 DEF Call, c
  <2>8. /\ call'.op = call.op /\ call'.todo = t /\ call'.on = call.on /\ call'.seen = call.seen
        /\ call'.want = call.want /\ call'.all = call.all
        /\ call'.total = call.total /\ call'.devs = call.devs /\ call'.off = call.off /\ call'.ok = call.ok
        /\ call'.had = call.had /\ call'.unread = unread /\ call'.found = found /\ call'.left = left
    BY <1>2, <1>7 DEF Call, c
  <2>9. call.op \notin {"change_admin_password_and_sync", "edit_nvr_ipc_passwords"}
    BY <1>1, <1>2, SyncAt, DueSays
  <2>10. Passed'
    BY <2>8, <2>9 DEF Passed
  <2> SUFFICES ASSUME call' # None PROVE CallInv'
    BY <1>5 DEF NInv
  <2>11. CASE t = call.todo
    <3>1. Shape(call'.op, call'.todo) /\ Values' /\ Alarm' /\ Enumerated' /\ Synced'
      BY <1>2, <1>4, <2>8, <2>11, Staying
    <3>2. Due("requestSmartTargetSnapImage")'
      BY <1>1, <2>8, <2>11 DEF Due, Busy
    <3>3. Complete'
      BY <1>4, <2>4, <2>5, <2>8, <3>2 DEF Complete
    <3> QED BY <2>7, <2>10, <3>1, <3>3 DEF CallInv
  <2>12. CASE t # call.todo
    <3>1. t = <<>> /\ left = {}
      BY <2>6, <2>12
    <3>2. Moves("requestSmartTargetSnapImage")
      BY <1>1, <1>2, <2>7, <2>8, <2>9, <3>1 DEF Moves
    <3>3. Shape(call'.op, call'.todo) /\ Values' /\ Alarm' /\ Enumerated' /\ Synced'
      BY <2>8, <2>9, <3>2, Shorter, KeepsValues, KeepsAlarm, KeepsListed, KeepsSynced
    <3>4. Complete'
      BY <1>4, <2>4, <2>5, <2>8, <3>1 DEF Complete
    <3> QED BY <2>7, <2>10, <3>3, <3>4 DEF CallInv
  <2> QED BY <2>11, <2>12
<1> QED BY <1>4, <1>6, <1>7 DEF c

\* Other users change the recorder under an operation.
LEMMA ElsewhereKeeps ==
  ASSUME NInv, Elsewhere
  PROVE  NInv'
<1>1. Busy /\ others < MaxOthers /\ others' = others + 1 /\ UNCHANGED <<client, calls>>
  BY DEF Elsewhere
<1>2. CallInv /\ call \in Call /\ recorder \in Recorder
  BY <1>1 DEF NInv, Busy, CallInv, Types
<1>3. others' \in 0..MaxOthers
  <2>1. others \in 0..MaxOthers /\ MaxOthers \in Nat
    BY NvrAssumption DEF NInv, Types
  <2> QED BY <2>1, <1>1
<1>4. CASE call' = call /\ \E s \in Setting, on \in BOOLEAN : recorder' = [recorder EXCEPT !.set[s] = [on |-> on, detail |-> "b"]]
  <2>1. PICK s \in Setting, on \in BOOLEAN : recorder' = [recorder EXCEPT !.set[s] = [on |-> on, detail |-> "b"]]
    BY <1>4
  <2>2. [on |-> on, detail |-> "b"] \in Value
    BY DEF Value, Detail
  <2>3. recorder' \in Recorder
    BY <1>2, <2>1, <2>2 DEF Recorder
  <2>4. /\ recorder'.stored = recorder.stored /\ recorder'.pw = recorder.pw
        /\ recorder'.plates = recorder.plates /\ recorder'.cam = recorder.cam
    BY <1>2, <2>1 DEF Recorder
  <2>5. CallInv'
    BY <1>1, <1>2, <1>4, <2>4, Staying DEF CallInv, Complete, Passed, Due, Busy
  <2> QED BY <1>1, <1>3, <2>3, <2>5 DEF NInv, Types
<1>5. CASE call' = call /\ \E c \in Channel, d \in {"none", "up", "down"} : recorder' = [recorder EXCEPT !.devs[c] = d]
  <2>1. PICK c \in Channel, d \in {"none", "up", "down"} : recorder' = [recorder EXCEPT !.devs[c] = d]
    BY <1>5
  <2>3. recorder' \in Recorder
    BY <1>2, <2>1 DEF Recorder
  <2>4. /\ recorder'.stored = recorder.stored /\ recorder'.pw = recorder.pw
        /\ recorder'.plates = recorder.plates /\ recorder'.cam = recorder.cam
    BY <1>2, <2>1 DEF Recorder
  <2>5. CallInv'
    BY <1>1, <1>2, <1>5, <2>4, Staying DEF CallInv, Complete, Passed, Due, Busy
  <2> QED BY <1>1, <1>3, <2>3, <2>5 DEF NInv, Types
<1>6. CASE call' = call /\ (recorder' = [recorder EXCEPT !.schedules = {}] \/ recorder' = [recorder EXCEPT !.session = FALSE])
  <2>3. recorder' \in Recorder
    BY <1>2, <1>6 DEF Recorder
  <2>4. /\ recorder'.stored = recorder.stored /\ recorder'.pw = recorder.pw
        /\ recorder'.plates = recorder.plates /\ recorder'.cam = recorder.cam
    BY <1>2, <1>6 DEF Recorder
  <2>5. CallInv'
    BY <1>1, <1>2, <1>6, <2>4, Staying DEF CallInv, Complete, Passed, Due, Busy
  <2> QED BY <1>1, <1>3, <2>3, <2>5 DEF NInv, Types
<1>7. ASSUME NEW p \in Plate, recorder' = [recorder EXCEPT !.plates = IF p \in @ THEN @ \ {p} ELSE @ \cup {p}],
             call' = [call EXCEPT !.had = @ \ {p}]
      PROVE  NInv'
  <2> DEFINE plates == IF p \in recorder.plates THEN recorder.plates \ {p} ELSE recorder.plates \cup {p}
             had == call.had \ {p}
  <2>1. recorder.plates \in SUBSET Plate /\ call.had \in SUBSET Plate /\ call.had \subseteq recorder.plates
    BY <1>2 DEF Recorder, Call, CallInv, Complete
  <2>2. plates \in SUBSET Plate /\ had \in SUBSET Plate /\ had \subseteq plates /\ had \subseteq call.had
    BY <2>1
  <2> HIDE DEF plates
  <2>3. recorder' = [recorder EXCEPT !.plates = plates]
    BY <1>7 DEF plates
  <2> HIDE DEF had
  <2>4. call' = [call EXCEPT !.had = had]
    BY <1>7 DEF had
  <2>5. recorder' \in Recorder
    BY <1>2, <2>2, <2>3 DEF Recorder
  <2>6. /\ recorder'.stored = recorder.stored /\ recorder'.pw = recorder.pw
        /\ recorder'.plates = plates /\ recorder'.cam = recorder.cam
    BY <1>2, <2>3 DEF Recorder
  <2>7. call' \in Call
    BY <1>2, <2>2, <2>4 DEF Call
  <2>8. /\ call'.op = call.op /\ call'.todo = call.todo /\ call'.on = call.on /\ call'.seen = call.seen
        /\ call'.want = call.want /\ call'.all = call.all
        /\ call'.total = call.total /\ call'.devs = call.devs /\ call'.off = call.off /\ call'.ok = call.ok
        /\ call'.had = had /\ call'.unread = call.unread /\ call'.found = call.found /\ call'.left = call.left /\ call'.missed = call.missed
    BY <1>2, <2>4 DEF Call
  <2> SUFFICES ASSUME call' # None PROVE CallInv'
    BY <1>1, <1>3, <2>5 DEF NInv, Types
  <2>9. Shape(call'.op, call'.todo) /\ Values' /\ Alarm' /\ Enumerated' /\ Synced'
    BY <1>1, <1>2, <2>6, <2>8, Staying
  <2>10. Passed'
    BY <1>2, <2>6, <2>8 DEF Passed, CallInv
  <2>11. Complete'
    <3>1. Due("requestSmartTargetSnapImage") => Due("requestSmartTargetSnapImage")'
      BY <2>8 DEF Due, Busy
    <3>2. Complete
      BY <1>2 DEF CallInv
    <3> QED BY <2>2, <2>6, <2>8, <3>1, <3>2 DEF Complete
  <2> QED BY <2>7, <2>9, <2>10, <2>11 DEF CallInv
<1> QED BY <1>4, <1>5, <1>6, <1>7 DEF Elsewhere

\* The invariant holds of a client that has asked for nothing.
LEMMA NInvInit == NvrInit => NInv
<1> SUFFICES ASSUME NvrInit PROVE NInv
  OBVIOUS
<1>1. PICK legacy \in BOOLEAN, on \in BOOLEAN, d \in {"a", "null"}, have \in SUBSET Plate, devs0 \in [Channel -> {"none", "up", "down"}] :
        recorder = [legacy |-> legacy, pw |-> "old", session |-> FALSE, schedules |-> {"a"},
                    set |-> [s \in Setting |-> [on |-> on, detail |-> d]],
                    devs |-> devs0, stored |-> [c \in Channel |-> "old"],
                    cam |-> [c \in Channel |-> "old"], plates |-> have]
  BY DEF NvrInit
<1>2. [s \in Setting |-> [on |-> on, detail |-> d]] \in [Setting -> Value]
  BY DEF Value, Detail
<1>3. [c \in Channel |-> "old"] \in [Channel -> Pw]
  BY DEF Pw
<1>4. recorder \in Recorder
  BY <1>1, <1>2, <1>3 DEF Recorder, Pw
<1>5. client \in Client
  BY DEF NvrInit, Client, Pw
<1>6. calls \in 0..MaxCalls /\ others \in 0..MaxOthers
  <2>1. MaxCalls \in Nat /\ MaxOthers \in Nat
    BY NvrAssumption
  <2>2. calls = 0 /\ others = 0
    BY DEF NvrInit
  <2> QED BY <2>1, <2>2
<1> QED BY <1>4, <1>5, <1>6 DEF NInv, Types, NvrInit

\* Every step keeps the invariant.
LEMMA NInvNext ==
  ASSUME NInv, [NvrNext]_nvrVars
  PROVE  NInv'
<1>1. CASE UNCHANGED nvrVars
  BY <1>1 DEF nvrVars, NInv, Types, CallInv, Values, Alarm, Enumerated, Complete, Synced, Passed, Due, Busy
<1>2. CASE BeginCall
  BY <1>2, StartKeeps DEF BeginCall
<1>3. CASE Accounts
  BY <1>3, ReqLoginKeeps, DoLoginKeeps, EditUserPasswordKeeps DEF Accounts
<1>4. CASE Settings
  BY <1>4, QueryKeeps, FindScheduleKeeps, EditKeeps, VerifyKeeps DEF Settings
<1>5. CASE Channels
  BY <1>5, QueryDevListKeeps, QueryOnlineKeeps, EditDevListKeeps, EditIpcPasswordKeeps, DeleteDevicesKeeps, CreateDeviceKeeps DEF Channels
<1>6. CASE Searches
  BY <1>6, SearchPlatesKeeps, ResolvePlateKeeps, ProbeFacesKeeps DEF Searches
<1>7. CASE Elsewhere
  BY <1>7, ElsewhereKeeps
<1> QED BY <1>1, <1>2, <1>3, <1>4, <1>5, <1>6, <1>7 DEF NvrNext

\* The invariant holds of every state the client reaches.
THEOREM NvrInvCorrect == NvrSpec => []NInv
<1>1. NvrInit => NInv
  BY NInvInit
<1>2. NInv /\ [NvrNext]_nvrVars => NInv'
  BY NInvNext
<1> QED BY <1>1, <1>2, PTL DEF NvrSpec

\* What is read is complete as far as the client can tell.
THEOREM ReadsCorrect == NvrSpec => []ReadsTruthful
<1>1. ASSUME NInv PROVE ReadsTruthful
  <2>1. NvrTypeOK
    <3>1. client \in [pw : Pw, in : BOOLEAN, token : {None, "staged", "live"}, key : BOOLEAN, basic : Pw \cup {None}]
      BY <1>1 DEF NInv, Types, Client
    <3>2. \A s \in Setting : recorder.set[s].on \in BOOLEAN /\ recorder.set[s].detail \in Detail
      BY <1>1 DEF NInv, Types, Recorder, Value
    <3>3. call # None => call.off \subseteq call.devs /\ call.found \subseteq Plate
      BY <1>1 DEF NInv, CallInv, Enumerated, Call
    <3> QED BY <1>1, <3>1, <3>2, <3>3 DEF NvrTypeOK, NInv, Types
  <2>2. Returned => call.had \ call.unread \subseteq call.found /\ (call.total /\ call.devs = {} => call.all = {})
    BY <1>1 DEF Returned, Busy, Due, NInv, CallInv, Complete, Enumerated
  <2> QED BY <2>1, <2>2 DEF ReadsTruthful
<1> QED BY <1>1, NvrInvCorrect, PTL

\* Only an edit writes the configuration of the alarm server that arms nothing.
LEMMA ArmedUntilEdited ==
  ASSUME NInv, NvrNext, recorder'.set["alarm"].detail = "null", recorder.set["alarm"].detail # "null"
  PROVE  Edit /\ On = "alarm"
<1>1. recorder \in Recorder /\ "alarm" \in Setting
  BY DEF NInv, Types, Setting
<1>2. CASE Edit
  <2>1. Due("edit") /\ CallInv
    BY <1>2, EditSays
  <2>2. On \in Setting
    BY <2>1, DueSays DEF Written
  <2>3. ASSUME On # "alarm" PROVE FALSE
    <3>1. \E kept : recorder' \in {recorder, [recorder EXCEPT !.set[On] = kept]}
      BY <1>2, EditSays
    <3>2. recorder'.set["alarm"] = recorder.set["alarm"]
      BY <1>1, <2>2, <2>3, <3>1 DEF Recorder
    <3> QED BY <3>2
  <2> QED BY <1>2, <2>3
<1>3. ASSUME recorder'.set = recorder.set PROVE FALSE
  BY <1>3
<1>4. CASE BeginCall \/ Verify \/ ReqLogin \/ QueryDevList \/ QueryOnline \/ SearchPlates \/ ProbeFaces
  <2>1. recorder' = recorder
    <3>1. CASE BeginCall
      BY <3>1 DEF BeginCall, Start
    <3>2. CASE Verify \/ ReqLogin
      BY <3>2, VerifySays DEF ReqLogin
    <3>3. CASE QueryDevList
      BY <3>3 DEF QueryDevList, Ask
    <3>4. CASE QueryOnline
      BY <3>4 DEF QueryOnline, Ask
    <3>5. CASE SearchPlates
      BY <3>5 DEF SearchPlates, Ask
    <3>6. CASE ProbeFaces
      BY <3>6 DEF ProbeFaces, Ask
    <3> QED BY <1>4, <3>1, <3>2, <3>3, <3>4, <3>5, <3>6
  <2> QED BY <1>3, <2>1
<1>5. CASE Query \/ FindSchedule \/ ResolvePlate
  <2>1. recorder' = recorder
    <3>1. \A c : Checked(recorder, c) => recorder' = recorder
      BY Answered
    <3>2. CASE Query
      BY <3>1, <3>2 DEF Query
    <3>3. CASE FindSchedule
      BY <3>1, <3>3 DEF FindSchedule
    <3>4. CASE ResolvePlate
      BY <3>1, <3>4 DEF ResolvePlate
    <3> QED BY <1>5, <3>2, <3>3, <3>4
  <2> QED BY <1>3, <2>1
<1>6. CASE DoLogin \/ EditUserPassword
  BY <1>1, <1>3, <1>6 DEF DoLogin, EditUserPassword, Recorder
<1>7. CASE EditDevList \/ DeleteDevices \/ CreateDevice
  <2>1. PICK effect : recorder' \in {recorder, effect} /\ effect.set = recorder.set
    <3>1. CASE EditDevList
      <4>1. PICK kept : Checked([recorder EXCEPT !.stored = kept], Next1(call))
        BY <3>1 DEF EditDevList
      <4>2. recorder' \in {recorder, [recorder EXCEPT !.stored = kept]}
        BY <4>1, Answered
      <4> QED BY <1>1, <4>2 DEF Recorder
    <3>2. CASE DeleteDevices
      <4>1. PICK c \in Channel : Checked([recorder EXCEPT !.devs[c] = "none"], Next1(call))
        BY <3>2 DEF DeleteDevices
      <4>2. recorder' \in {recorder, [recorder EXCEPT !.devs[c] = "none"]}
        BY <4>1, Answered
      <4> QED BY <1>1, <4>2 DEF Recorder
    <3>3. CASE CreateDevice
      <4>1. PICK c \in Channel, p \in Pw :
              Checked([recorder EXCEPT !.devs[c] = IF p = recorder.cam[c] THEN "up" ELSE "down", !.stored[c] = p], Next1(call))
        BY <3>3 DEF CreateDevice
      <4>2. recorder' \in {recorder, [recorder EXCEPT !.devs[c] = IF p = recorder.cam[c] THEN "up" ELSE "down", !.stored[c] = p]}
        BY <4>1, Answered
      <4> QED BY <1>1, <4>2 DEF Recorder
    <3> QED BY <1>7, <3>1, <3>2, <3>3
  <2> QED BY <1>3, <2>1
<1>8. CASE EditIpcPassword
  <2>1. \E c : recorder' \in {recorder, [recorder EXCEPT !.cam[c] = "new"]}
    BY <1>8 DEF EditIpcPassword, Ask
  <2> QED BY <1>1, <1>3, <2>1 DEF Recorder
<1>9. CASE Elsewhere
  <2>1. CASE \E s \in Setting, on \in BOOLEAN : recorder' = [recorder EXCEPT !.set[s] = [on |-> on, detail |-> "b"]]
    BY <1>1, <2>1 DEF Recorder
  <2>2. CASE \E c \in Channel, d \in {"none", "up", "down"} : recorder' = [recorder EXCEPT !.devs[c] = d]
    BY <1>1, <1>3, <2>2 DEF Recorder
  <2>3. CASE recorder' = [recorder EXCEPT !.schedules = {}] \/ recorder' = [recorder EXCEPT !.session = FALSE]
    BY <1>1, <1>3, <2>3 DEF Recorder
  <2>4. CASE \E plates : recorder' = [recorder EXCEPT !.plates = plates]
    BY <1>1, <1>3, <2>4 DEF Recorder
  <2> QED BY <1>9, <2>1, <2>2, <2>3, <2>4 DEF Elsewhere
<1> QED BY <1>2, <1>4, <1>5, <1>6, <1>7, <1>8, <1>9 DEF NvrNext, Accounts, Settings, Channels, Searches

\* No edit of the alarm server disarms it.
THEOREM ArmedCorrect == NvrSpec => AlarmsStayArmed
<1>1. ASSUME NInv, [NvrNext]_nvrVars
      PROVE  [recorder'.set["alarm"].detail = "null" /\ recorder.set["alarm"].detail # "null"
                => call.seen.detail = "null" \/ call.seen.detail \notin recorder.schedules]_nvrVars
  <2> SUFFICES ASSUME NvrNext, recorder'.set["alarm"].detail = "null", recorder.set["alarm"].detail # "null"
               PROVE  call.seen.detail = "null" \/ call.seen.detail \notin recorder.schedules
    BY <1>1
  <2>1. Edit /\ On = "alarm"
    BY <1>1, ArmedUntilEdited
  <2>2. Due("edit") /\ CallInv
    BY <1>1, <2>1, EditSays
  <2>3. PICK w \in Wish :
          /\ call.op # "set_alarm_server" => w \in Value
          /\ call.op = "set_alarm_server" => w = call.want
          /\ \E kept \in Kept(On, w) : recorder' \in {recorder, [recorder EXCEPT !.set[On] = kept]}
    BY <1>1, <2>1, EditSays
  <2>4. PICK kept \in Kept(On, w) : recorder' \in {recorder, [recorder EXCEPT !.set[On] = kept]}
    BY <2>3
  <2>5. recorder \in Recorder /\ "alarm" \in Setting
    BY <1>1 DEF NInv, Types, Setting
  <2>6. recorder'.set["alarm"] \in {recorder.set["alarm"], kept}
    BY <2>1, <2>4, <2>5 DEF Recorder
  <2>7. kept.detail = "null"
    BY <2>6
  <2> QED BY <1>1, <2>1, <2>2, <2>3, <2>7, KeptFits
<1> QED BY <1>1, NvrInvCorrect, PTL DEF NvrSpec, AlarmsStayArmed

\* Each answer is to the request that is due.
LEMMA AnswerTo ==
  ASSUME NvrNext, ~ BeginCall, ~ Elsewhere
  PROVE  \/ ReqLogin /\ Due("reqLogin")
         \/ DoLogin /\ Due("doLogin")
         \/ EditUserPassword /\ Due("editUserPassword")
         \/ Query /\ Due("query")
         \/ FindSchedule /\ Due("queryScheduleList")
         \/ Edit /\ Due("edit")
         \/ Verify /\ Due("verify")
         \/ QueryDevList /\ Due("queryDevList")
         \/ QueryOnline /\ Due("queryOnlineChlList")
         \/ EditDevList /\ Due("editDevList")
         \/ EditIpcPassword /\ Due("editIPChlPassword")
         \/ DeleteDevices /\ Due("delDevList")
         \/ CreateDevice /\ Due("createDevList")
         \/ SearchPlates /\ Due("searchSmartTarget")
         \/ ResolvePlate /\ Due("requestSmartTargetSnapImage")
         \/ ProbeFaces /\ Due("searchImageByImageV2")
<1>1. ReqLogin => Due("reqLogin")
  BY DEF ReqLogin
<1>2. DoLogin => Due("doLogin")
  BY DEF DoLogin
<1>3. EditUserPassword => Due("editUserPassword")
  BY DEF EditUserPassword
<1>4. Query => Due("query")
  BY DEF Query
<1>5. FindSchedule => Due("queryScheduleList")
  BY DEF FindSchedule
<1>6. Edit => Due("edit")
  BY DEF Edit
<1>7. Verify => Due("verify")
  BY DEF Verify
<1>8. QueryDevList => Due("queryDevList")
  BY DEF QueryDevList
<1>9. QueryOnline => Due("queryOnlineChlList")
  BY DEF QueryOnline
<1>10. EditDevList => Due("editDevList")
  BY DEF EditDevList
<1>11. EditIpcPassword => Due("editIPChlPassword")
  BY DEF EditIpcPassword
<1>12. DeleteDevices => Due("delDevList")
  BY DEF DeleteDevices
<1>13. CreateDevice => Due("createDevList")
  BY DEF CreateDevice
<1>14. SearchPlates => Due("searchSmartTarget")
  BY DEF SearchPlates
<1>15. ResolvePlate => Due("requestSmartTargetSnapImage")
  BY DEF ResolvePlate
<1>16. ProbeFaces => Due("searchImageByImageV2")
  BY DEF ProbeFaces
<1> QED BY <1>1, <1>2, <1>3, <1>4, <1>5, <1>6, <1>7, <1>8, <1>9, <1>10, <1>11, <1>12, <1>13, <1>14, <1>15, <1>16 DEF NvrNext, Accounts, Settings, Channels, Searches

\* Which requests end an operation that verifies, or changes a password.
LEMMA ReturnedBy ==
  ASSUME NInv, NvrNext, Returns
  PROVE  /\ CallInv /\ call \in Call /\ call # None
         /\ call.op \in Verified => Verify
         /\ call.op = "change_admin_password_and_sync" => DoLogin
         /\ call.op = "edit_nvr_ipc_passwords" => EditIpcPassword
<1>1. CallInv /\ call \in Call /\ call # None /\ Busy /\ call'.todo = <<>> /\ call'.ok
  BY DEF Returns, Busy, NInv, CallInv
<1>2. ~ BeginCall
  BY <1>1 DEF BeginCall, Start
<1>3. ~ Elsewhere
  <2> SUFFICES ASSUME Elsewhere PROVE FALSE
    OBVIOUS
  <2>1. call' = call \/ \E p \in Plate : call' = [call EXCEPT !.had = @ \ {p}]
    BY DEF Elsewhere
  <2>2. call'.todo = call.todo
    BY <1>1, <2>1 DEF Call
  <2> QED BY <1>1, <2>2 DEF Busy
<1>4. call.todo # <<>> /\ Len(call.todo) \in Nat \ {0} /\ call.todo \in Seq(Step)
  <2>1. call.todo # <<>> /\ Shape(call.op, call.todo)
    BY <1>1 DEF Busy, CallInv
  <2>2. Len(call.todo) \in Nat /\ Len(call.todo) > 0 /\ call.todo \in Seq(Step)
    BY <2>1, Dropped
  <2> QED BY <2>1, <2>2
<1>5. Tail(call.todo) = <<>> => Len(call.todo) = 1
  <2>1. Len(Tail(call.todo)) = Len(call.todo) - 1
    BY <1>4, HeadTailProperties
  <2>2. Tail(call.todo) = <<>> => Len(Tail(call.todo)) = 0
    BY EmptySeq
  <2>3. Tail(call.todo) = <<>> => Len(call.todo) - 1 = 0
    BY <2>1, <2>2
  <2> QED BY <1>4, <2>3
<1>6. call.op = "edit_nvr_ipc_passwords" => EditIpcPassword
  <2> SUFFICES ASSUME call.op = "edit_nvr_ipc_passwords" PROVE EditIpcPassword
    OBVIOUS
  <2>1. \A n : Due(n) => n = "editIPChlPassword"
    BY <1>1, DueSays
  <2> QED BY <1>2, <1>3, <2>1, AnswerTo
<1>7. call.op \in Verified => Verify
  <2> SUFFICES ASSUME call.op \in Verified, ~ Verify PROVE FALSE
    OBVIOUS
  <2>1. \A n : Due(n) => n \in {"query", "edit", "verify", "reqLogin", "doLogin"}
    BY <1>1, DueSays
  <2>2. call.todo[Len(call.todo)][1] = "verify"
    BY <1>1, <1>4 DEF CallInv, Shape
  <2>3. Tail(call.todo) = <<>> => Due("verify")
    BY <1>1, <1>4, <1>5, <2>2, HeadTailProperties DEF Due
  <2>4. \A m, n : Due(m) /\ Due(n) => m = n
    BY DEF Due
  <2>5. CASE ReqLogin /\ Due("reqLogin")
    <3>1. call' = Next1(call) \/ Fail
      BY <2>5 DEF ReqLogin, Go
    <3>2. call'.ok => call'.todo = Tail(call.todo)
      BY <1>1, <3>1 DEF Fail, Next1, Call
    <3> QED BY <1>1, <2>3, <2>4, <2>5, <3>2
  <2>6. CASE DoLogin /\ Due("doLogin")
    <3>1. call' = Next1(call) \/ Fail
      BY <2>6 DEF DoLogin, Go
    <3>2. call'.ok => call'.todo = Tail(call.todo)
      BY <1>1, <3>1 DEF Fail, Next1, Call
    <3> QED BY <1>1, <2>3, <2>4, <2>6, <3>2
  <2>7. CASE Query /\ Due("query")
    <3> DEFINE c == [call EXCEPT !.todo = Tail(@), !.seen = recorder.set[On], !.want = Wanted(recorder.set[On])]
    <3>1. ~ Skips(recorder.set[On])
      BY DEF Skips, Verified
    <3>2. Checked(recorder, c)
      BY <2>7, <3>1 DEF Query
    <3> HIDE DEF c
    <3>3. call' = c \/ Fail
      BY <3>2, Answered
    <3>4. call'.ok => call'.todo = Tail(call.todo)
      BY <1>1, <3>3 DEF Fail, Call, c
    <3> QED BY <1>1, <2>3, <2>4, <2>7, <3>4
  <2>8. CASE Edit /\ Due("edit")
    <3>1. \/ \E w : call' = [Next1(call) EXCEPT !.want = w]
          \/ Len(call.todo) > 2 /\ call' = NextShape
          \/ Fail
      BY <2>8, EditSays
    <3>2. CASE Len(call.todo) > 2 /\ call' = NextShape
      <4>1. call'.todo = SubSeq(call.todo, 3, Len(call.todo))
        BY <1>1, <3>2 DEF NextShape, Call
      <4>2. Len(call.todo) > 1 /\ Len(call.todo) - 2 > 0
        BY <1>4, <3>2
      <4>3. Len(call'.todo) = Len(call.todo) - 2
        BY <1>1, <4>1, <4>2, Dropped DEF CallInv
      <4>4. Len(call'.todo) = 0
        BY <1>1, EmptySeq
      <4> QED BY <4>2, <4>3, <4>4
    <3>3. CASE \E w : call' = [Next1(call) EXCEPT !.want = w]
      <4>1. call'.todo = Tail(call.todo)
        BY <1>1, <3>3 DEF Next1, Call
      <4> QED BY <1>1, <2>3, <2>4, <2>8, <4>1
    <3>4. CASE Fail
      BY <1>1, <3>4 DEF Fail, Call
    <3> QED BY <3>1, <3>2, <3>3, <3>4
  <2> QED BY <1>2, <1>3, <2>1, <2>5, <2>6, <2>7, <2>8, AnswerTo
<1>8. call.op = "change_admin_password_and_sync" => DoLogin
  <2> SUFFICES ASSUME call.op = "change_admin_password_and_sync", ~ DoLogin PROVE FALSE
    OBVIOUS
  <2>1. \A n : Due(n) => n \in {"queryDevList", "queryOnlineChlList", "editDevList", "editUserPassword", "reqLogin", "doLogin"}
                          /\ (n # "doLogin" => Len(call.todo) # 1)
    BY <1>1, SyncAt
  <2>2. ASSUME NEW n, Due(n), n # "doLogin", call'.todo = Tail(call.todo) PROVE FALSE
    BY <1>1, <1>5, <2>1, <2>2
  <2>3. CASE ReqLogin /\ Due("reqLogin")
    <3>1. call' = Next1(call) \/ Fail
      BY <2>3 DEF ReqLogin, Go
    <3>2. call'.ok => call'.todo = Tail(call.todo)
      BY <1>1, <3>1 DEF Fail, Next1, Call
    <3> QED BY <1>1, <2>2, <2>3, <3>2
  <2>4. CASE EditUserPassword /\ Due("editUserPassword")
    <3>1. call' = Next1(call) \/ Fail
      BY <2>4 DEF EditUserPassword, Go
    <3>2. call'.ok => call'.todo = Tail(call.todo)
      BY <1>1, <3>1 DEF Fail, Next1, Call
    <3> QED BY <1>1, <2>2, <2>4, <3>2
  <2>5. CASE EditDevList /\ Due("editDevList")
    <3>1. PICK effect : Checked(effect, Next1(call))
      BY <2>5 DEF EditDevList
    <3>2. call' = Next1(call) \/ Fail
      BY <3>1, Answered
    <3>3. call'.ok => call'.todo = Tail(call.todo)
      BY <1>1, <3>2 DEF Fail, Next1, Call
    <3> QED BY <1>1, <2>2, <2>5, <3>3
  <2>6. CASE QueryDevList /\ Due("queryDevList")
    <3>1. (\E a, b, d : call' = [Next1(call) EXCEPT !.all = a, !.total = b, !.devs = d]) \/ Fail
      <4>1. PICK d \in SUBSET Present, b \in BOOLEAN :
              (ShapeKnown(d, b) /\ call' = [Next1(call) EXCEPT !.all = Present, !.total = b, !.devs = d]) \/ Fail
        BY <2>6 DEF QueryDevList, Ask, Go
      <4> QED BY <4>1
    <3>2. call'.ok => call'.todo = Tail(call.todo)
      BY <1>1, <3>1 DEF Fail, Next1, Call
    <3> QED BY <1>1, <2>2, <2>6, <3>2
  <2>7. CASE QueryOnline /\ Due("queryOnlineChlList")
    <3>1. (\E o : call' = [Next1(call) EXCEPT !.off = o]) \/ Fail
      BY <2>7 DEF QueryOnline, Ask, Go
    <3>2. call'.ok => call'.todo = Tail(call.todo)
      BY <1>1, <3>1 DEF Fail, Next1, Call
    <3> QED BY <1>1, <2>2, <2>7, <3>2
  <2> QED BY <1>2, <1>3, <2>1, <2>3, <2>4, <2>5, <2>6, <2>7, AnswerTo
<1> QED BY <1>1, <1>6, <1>7, <1>8

\* The login that precedes a second readback is not empty.
LEMMA LoginThenRead == Login \o <<V("mail")>> # <<>>
<1> DEFINE t == <<V("mail")>>
<1>1. Login \in Seq(Step) /\ t \in Seq(Step) /\ t # <<>>
  <2>1. Ordinary \subseteq Step
    BY DEF Ordinary
  <2>2. Login \in Seq(Step)
    BY <2>1, OrdinaryPrograms, SeqMonotonic
  <2>3. t \in Seq(Step)
    BY Requests DEF Setting
  <2> QED BY <2>2, <2>3
<1> HIDE DEF t
<1>2. Login \o t # <<>>
  BY <1>1, ConcatEqualIffEmpty
<1> QED BY <1>2 DEF t

\* What an operation reports by returning is so.
THEOREM VerifiedCorrect == NvrSpec => VerifiedMeansWritten
<1>1. ASSUME NInv, [NvrNext]_nvrVars
      PROVE  [Returns =>
                /\ call.op \in {"set_nvr_face_detection", "set_secure_email"} => recorder'.set[On] = call.want
                /\ call.op = "set_user_email" => recorder'.set[On].detail = call.want.detail
                /\ call.op = "change_admin_password_and_sync"
                     => recorder'.pw = client'.pw /\ \A c \in call.devs : recorder'.stored[c] = recorder'.pw
                /\ call.op = "edit_nvr_ipc_passwords" => \A c \in Channel : recorder'.cam[c] = "new"]_nvrVars
  <2> SUFFICES ASSUME NvrNext, Returns
               PROVE  /\ call.op \in {"set_nvr_face_detection", "set_secure_email"} => recorder'.set[On] = call.want
                      /\ call.op = "set_user_email" => recorder'.set[On].detail = call.want.detail
                      /\ call.op = "change_admin_password_and_sync"
                           => recorder'.pw = client'.pw /\ \A c \in call.devs : recorder'.stored[c] = recorder'.pw
                      /\ call.op = "edit_nvr_ipc_passwords" => \A c \in Channel : recorder'.cam[c] = "new"
    BY <1>1
  <2>1. /\ CallInv /\ call \in Call /\ call # None
        /\ call.op \in Verified => Verify
        /\ call.op = "change_admin_password_and_sync" => DoLogin
        /\ call.op = "edit_nvr_ipc_passwords" => EditIpcPassword
    BY <1>1, ReturnedBy
  <2>2. call'.todo = <<>> /\ call'.ok
    BY DEF Returns
  <2>3. ASSUME call.op \in {"set_nvr_face_detection", "set_secure_email", "set_user_email"}
        PROVE  /\ call.op # "set_user_email" => recorder'.set[On] = call.want
               /\ recorder'.set[On].detail = call.want.detail
    <3>1. Verify
      BY <2>1, <2>3 DEF Verified
    <3>2. /\ recorder' = recorder /\ Due("verify")
          /\ \/ Fail
             \/ Matches(recorder.set[On])
             \/ call.op = "set_user_email" /\ Len(call.todo) > 4 /\ call' = Next1(call)
             \/ call.op = "set_user_email" /\ call' = [call EXCEPT !.todo = Login \o <<V("mail")>>, !.left = {}]
      BY <1>1, <3>1, VerifySays
    <3>3. ~ Fail
      BY <2>1, <2>2 DEF Fail, Call
    <3>4. ASSUME Len(call.todo) > 4, call' = Next1(call) PROVE FALSE
      <4>1. call'.todo = Tail(call.todo) /\ call.todo # <<>> /\ call.todo \in Seq(Step)
        BY <2>1, <3>2, <3>4 DEF Next1, Call, Due, Busy
      <4>2. Len(call.todo) \in Nat /\ Len(Tail(call.todo)) = Len(call.todo) - 1
        BY <4>1, HeadTailProperties, LenProperties
      <4>3. Len(Tail(call.todo)) = 0
        BY <2>2, <4>1, EmptySeq
      <4>4. \A n \in Nat : n > 4 => n - 1 # 0
        OBVIOUS
      <4> QED BY <3>4, <4>2, <4>3, <4>4
    <3>5. ASSUME call' = [call EXCEPT !.todo = Login \o <<V("mail")>>, !.left = {}] PROVE FALSE
      <4> DEFINE t == Login \o <<V("mail")>>
      <4>1. t # <<>>
        BY LoginThenRead
      <4> HIDE DEF t
      <4>2. call' = [call EXCEPT !.todo = t, !.left = {}]
        BY <3>5 DEF t
      <4>3. call'.todo = t
        BY <2>1, <4>2 DEF Call
      <4> QED BY <2>2, <4>1, <4>3
    <3>6. Matches(recorder.set[On])
      BY <3>2, <3>3, <3>4, <3>5
    <3>7. recorder.set[On] \in Value /\ call.want \in Value
      <4>1. On \in Setting /\ (call.op \in Reading => call.want # None)
        BY <2>1, <3>2, DueSays DEF Written
      <4>2. call.want \in Value \cup {None} /\ call.op \in Reading
        BY <2>1, <2>3 DEF CallInv, Values, Reading
      <4> QED BY <1>1, <4>1, <4>2 DEF NInv, Types, Recorder
    <3>8. recorder.set[On].detail = call.want.detail /\ (call.op # "set_user_email" => recorder.set[On].on = call.want.on)
      BY <3>6 DEF Matches
    <3>9. \A v, w \in Value : v.on = w.on /\ v.detail = w.detail => v = w
      BY DEF Value
    <3> QED BY <3>2, <3>7, <3>8, <3>9
  <2>4. ASSUME call.op = "change_admin_password_and_sync"
        PROVE  recorder'.pw = client'.pw /\ \A c \in call.devs : recorder'.stored[c] = recorder'.pw
    <3>1. DoLogin /\ Due("doLogin") /\ ~ Fail /\ call.ok
      <4>1. DoLogin /\ ~ Fail
        BY <2>1, <2>2, <2>4 DEF Fail, Call
      <4>2. call' = Next1(call)
        BY <4>1 DEF DoLogin, Go
      <4> QED BY <2>1, <2>2, <4>1, <4>2 DEF DoLogin, Next1, Call
    <3>2. client.pw = recorder.pw /\ recorder' = [recorder EXCEPT !.session = TRUE] /\ \E key \in BOOLEAN : client' = LoggedIn(key)
      BY <3>1 DEF DoLogin
    <3>3. client'.pw = client.pw /\ recorder'.pw = recorder.pw /\ recorder'.stored = recorder.stored
      BY <1>1, <3>2 DEF NInv, Types, Client, Recorder, LoggedIn
    <3>4. Len(call.todo) = 1
      BY <2>1, <2>4, <3>1, SyncAt
    <3>5. 1 <= 3 /\ 1 <= 2
      OBVIOUS
    <3>6. recorder.pw = "new" /\ \A c \in call.devs : recorder.stored[c] = "new"
      BY <2>1, <2>4, <3>1, <3>4, <3>5 DEF CallInv, Synced
    <3> QED BY <3>2, <3>3, <3>6
  <2>5. ASSUME call.op = "edit_nvr_ipc_passwords", NEW c \in Channel
        PROVE  recorder'.cam[c] = "new"
    <3>1. EditIpcPassword
      BY <2>1, <2>5
    <3>2. CallInv' /\ call'.op = call.op /\ call'.left = {} /\ call'.missed = {}
      BY <1>1, <2>2, <3>1, EditIpcPasswordKeeps
    <3> QED BY <2>2, <2>5, <3>2 DEF CallInv, Passed
  <2> QED BY <2>3, <2>4, <2>5
<1> QED BY <1>1, NvrInvCorrect, PTL DEF NvrSpec, VerifiedMeansWritten
===============================================================================
