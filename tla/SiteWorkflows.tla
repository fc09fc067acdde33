---------------------------- MODULE SiteWorkflows ----------------------------
(* The commands of `pytvt workflow` (tools/workflow_cli.py) on one NVR: password-rotate,
   which is PasswordRotate; site-subnet-change (workflows/site_subnet_change.py), which
   moves cameras to new addresses, has the NVR follow them, and may end with a rotation
   on the new subnet; and validate (workflows/validate.py), which only reads.

   Each camera has one address in the old subnet and one, with the same host part, in
   the new.  The NVR reaches a channel's camera where its stored address is the
   camera's.  A dry run calls nothing and is left out.                               *)
EXTENDS PasswordRotate

CONSTANTS MaxMoves        \* how often site-subnet-change may be run

ASSUME SiteAssumption == MaxMoves \in Nat

VARIABLES
  addr,    \* camera -> the subnet it is in
  chan,    \* camera -> the subnet of the address its channel has; none: no channel
  job,     \* the command that runs
  exit,    \* the exit status of the last command
  moves

site == <<addr, chan>>
vars == <<rotate, addr, chan, job, exit, moves>>

NoJob  == [cmd |-> "none"]
NoExit == 3                 \* interrupted, or none yet
Registered == {c \in Camera : chan[c] # "none"}

Init ==
  /\ RotateInit
  /\ addr \in [Camera -> {"old", "new"}]
  /\ chan \in [Camera -> {"old", "new", "none"}]
  /\ \A c \in Camera : chan[c] = addr[c] \/ (chan[c] = "none" /\ addr[c] = "old")
  /\ Registered # {}
  /\ job = NoJob /\ exit = NoExit /\ moves = 0

Running(cmd) == job.cmd = cmd
At(p)        == Running("site-subnet-change") /\ job.at = p
Advance(j)   == job' = j /\ exit' = NoExit

\* The process ends, and its results with it; what it did stays done.
Exits(e) ==
  /\ job' = NoJob /\ exit' = e
  /\ End("none") /\ scope' = {} /\ force' = FALSE /\ status' = [c \in Camera |-> "none"]
  /\ UNCHANGED nvr

(***************************************************************************)
(* password-rotate, and the rotation site-subnet-change ends with.         *)
(***************************************************************************)
LoginFails ==
  /\ Running("none") /\ exit' = 2
  /\ UNCHANGED <<rotate, site, job, moves>>

Rotation(cmd, S, f) ==
  /\ Running("none")
  /\ BeginFails \/ \E seen \in Listed : Begin(S, f, seen)
  /\ Advance([cmd |-> cmd])
  /\ UNCHANGED <<site, moves>>

\* The command has no option for include_online; a program that calls the workflow has.
RotateCommand(S) == Rotation("password-rotate", S, FALSE)
RotateCall(S, f) == Rotation("rotate_nvr_channel_passwords", S, f)

\* PasswordRotateResult.success
RotateSuccess == report = "done" /\ \A c \in Camera : status[c] # "failed"

RotateCommandEnds ==
  /\ Running("password-rotate") /\ In("idle")
  /\ Exits(IF RotateSuccess THEN 0 ELSE 1)
  /\ UNCHANGED <<site, moves>>

\* The call returns its result; there is no exit status.
RotateCallEnds ==
  /\ Running("rotate_nvr_channel_passwords") /\ In("idle")
  /\ Exits(NoExit)
  /\ UNCHANGED <<site, moves>>

Rotating == (job.cmd \in {"password-rotate", "rotate_nvr_channel_passwords"} \/ At("rotate")) /\ ~In("idle")
Rotate   == Rotating /\ RotateStep /\ UNCHANGED <<site, job, exit, moves>>

(***************************************************************************)
(* site-subnet-change.                                                     *)
(***************************************************************************)
\* The targets: channels with an address in the old subnet, and devices seen there
\* that are not channels.
Targets == {c \in Camera : chan[c] = "old" \/ (chan[c] = "none" /\ addr[c] = "old")}

MoveBegin(T, r) ==
  /\ Running("none") /\ moves < MaxMoves /\ moves' = moves + 1
  /\ LET plan == Targets \cap T IN
     \/ /\ plan # {}
        /\ Advance([cmd |-> "site-subnet-change", at |-> "readdress", plan |-> plan, todo |-> plan,
                    done |-> {}, follow |-> {c \in plan : chan[c] = "old"}, failed |-> {}, rotate |-> r])
        /\ UNCHANGED rotate
     \/ plan = {} /\ Exits(0)
     \/ Exits(1)                             \* a query fails
  /\ UNCHANGED site

\* editDevNetworkList: the NVR finds the camera at its old address and logs in to it.
Readdressed(c) ==
  /\ addr[c] = "old" /\ cam[c] = "old"
  /\ addr' = [addr EXCEPT ![c] = "new"]
  /\ up' = [up EXCEPT ![c] = chan[c] = "new"]

Readdress(c) ==
  /\ At("readdress") /\ c \in job.todo
  /\ \/ /\ Readdressed(c)
        /\ Advance([job EXCEPT !.todo = @ \ {c}, !.done = @ \cup {c}])
     \/ /\ (UNCHANGED <<addr, up>> \/ (LostReplies /\ Readdressed(c)))
        /\ Advance([job EXCEPT !.todo = @ \ {c}, !.failed = @ \cup {c}])
  /\ UNCHANGED <<cam, stored, shown, progress, results, chan, moves>>

\* The wait, long enough for the NVR to poll; then the channels of the cameras moved.
ToFollow == job.follow \cap job.done
MoveSettle ==
  /\ At("readdress") /\ job.todo = {}
  /\ shown' = IF job.done # {} THEN Online ELSE shown
  /\ Advance([job EXCEPT !.at = "channels", !.todo = ToFollow])
  /\ UNCHANGED <<cam, stored, up, progress, results, site, moves>>

Follows(c) ==
  /\ chan' = [chan EXCEPT ![c] = "new"]
  /\ up' = [up EXCEPT ![c] = addr[c] = "new"]

FollowFailedForgotten(c) == [job EXCEPT !.todo = @ \ {c}]
FollowFailed(c) == [job EXCEPT !.todo = @ \ {c}, !.done = @ \ {c}, !.failed = @ \cup {c}]

EditChannel(c) ==
  /\ At("channels") /\ c \in job.todo
  /\ \/ Follows(c) /\ Advance([job EXCEPT !.todo = @ \ {c}])
     \/ /\ (UNCHANGED <<chan, up>> \/ (LostReplies /\ Follows(c)))
        /\ Advance(FollowFailed(c))
  /\ UNCHANGED <<cam, stored, shown, progress, results, addr, moves>>

\* SiteSubnetChangeResult.success: a rotation that raised leaves no result.
MoveExit(nested) == IF job.failed = {} /\ nested THEN 0 ELSE 1

NestedScope == {c \in Camera : chan[c] = "new"}
MoveRotates ==
  /\ At("channels") /\ job.todo = {}
  /\ \/ /\ job.rotate
        /\ BeginFails \/ \E seen \in Listed : Begin(NestedScope, FALSE, seen)
        /\ Advance([job EXCEPT !.at = "rotate", !.todo = {}, !.done = {}, !.follow = {}])
     \/ ~job.rotate /\ Exits(MoveExit(TRUE))
  /\ UNCHANGED <<site, moves>>

MoveEnds ==
  /\ At("rotate") /\ In("idle")
  /\ Exits(MoveExit(report = "raised" \/ RotateSuccess))
  /\ UNCHANGED <<site, moves>>

(***************************************************************************)
(* validate: every channel online, in the expected subnet, and as many as  *)
(* expected.                                                               *)
(***************************************************************************)
Unasked == 0
Issues(seen, net, n) ==
  {i \in {"offline", "stray", "count"} :
     \/ i = "offline" /\ \E c \in Registered : ~seen[c]
     \/ i = "stray"   /\ net # "none" /\ \E c \in Registered : chan[c] # net
     \/ i = "count"   /\ n # Unasked /\ Cardinality(Registered) # n}

Validate(net, n) ==
  /\ Running("none")
  /\ \/ exit' = 1
     \/ \E seen \in Listed : exit' = IF Issues(seen, net, n) = {} THEN 0 ELSE 1
  /\ UNCHANGED <<rotate, site, job, moves>>

Crash ==            \* the command is interrupted
  /\ ~Running("none")
  /\ Exits(NoExit)
  /\ UNCHANGED <<site, moves>>

\* The NVR polls; a camera that it has the address of goes and comes back.
Poll(c)  == Refresh(c) /\ UNCHANGED <<site, job, exit, moves>>
Goes(c)  == chan[c] = addr[c] /\ Outage(c) /\ UNCHANGED <<site, job, exit, moves>>

Commands == \E S \in Scopes : S \subseteq Registered /\ (RotateCommand(S) \/ \E f \in Modes : RotateCall(S, f))
Steps    == Rotate \/ RotateCommandEnds \/ RotateCallEnds \/ MoveSettle \/ MoveRotates \/ MoveEnds
            \/ \E c \in Camera : Readdress(c) \/ EditChannel(c)

Next ==
  \/ (\E c \in Camera : Poll(c) \/ Goes(c)) \/ LoginFails \/ Crash \/ Commands \/ Steps
  \/ \E T \in SUBSET Camera, r \in BOOLEAN : MoveBegin(T, r)
  \/ \E net \in {"old", "new", "none"}, n \in {Cardinality(Camera), Unasked} : Validate(net, n)

Spec == Init /\ [][Next]_vars

\* An operator who rotates again and again, by the command or by the call.
OperatorSpec ==
  /\ Spec /\ WF_vars(Steps) /\ WF_vars(Commands)
  /\ \A c \in Camera : WF_vars(Poll(c))

-----------------------------------------------------------------------------
(* Properties *)

\* A run of site-subnet-change that comes to its end names every camera it set out to
\* move and that the NVR does not have at its new address now; and it exits with 0 only
\* if there is none, whatever failed, or was done and reported as failed.
FailuresNamed ==
  [][Running("site-subnet-change") /\ job' = NoJob /\ exit' # NoExit =>
       /\ \A c \in job.plan \ job.failed : addr[c] = "new" /\ chan[c] \in {"new", "none"}
       /\ exit' = 0 => job.failed = {}]_vars

\* Once faults stop, cameras no longer move, and the workflow is called again and again
\* on all channels with include_online, the NVR and every camera it reaches come to the
\* new password, from whatever state failed and interrupted commands left.  (The command
\* cannot do that: see DriftHandled.)  A crash after the end of a call changes nothing.
SiteFault   == Fault \/ (Crash /\ ~RotateCallEnds)
Begun(P(_, _)) == \E S \in Scopes, f \in BOOLEAN, seen \in Listed : Begin(S, f, seen) /\ P(S, f)
NotAllForced   == LET P(S, f) == S # Registered \/ ~f IN Begun(P)
NotAllUnforced == LET P(S, f) == S # Registered \/ f IN Begun(P)
SiteConverges ==
  <>[][~SiteFault /\ ~NotAllForced]_vars => <>[](\A c \in Registered : up[c] => OnTarget(c))

\* Of password-rotate: "Handles both directions of drift (NVR stored cred ahead of camera,
\* or camera ahead of NVR) automatically".  A channel the rotation was working on comes
\* to the new password, or out of reach, if from then on nothing fails and the command
\* is run again and again on all channels.
DriftHandled ==
  <>[][~SiteFault /\ ~NotAllUnforced]_vars => \A c \in Camera : (cur = c) ~> (OnTarget(c) \/ ~up[c])
=============================================================================
