------------------------------ MODULE NvrClient ------------------------------
(* NvrClient (xml_api.py): one client of the web CGI of a recorder.  An
   operation is a short program of requests; between two of them the recorder
   changes under other users, refuses, loses an answer, or accepts a setting and
   does not keep it.  Settings are pairs of a switch and of the detail (port,
   schedule, address) that goes with it.                                      *)
EXTENDS Integers, Sequences, FiniteSets, Nothing

CONSTANTS Channel,     \* the channels the recorder may have
          Plate,       \* the plate records it may have
          Limit,       \* result_limit of a plate search
          MaxCalls,    \* operations called during the run
          MaxOthers    \* changes other users make during the run

ASSUME NvrAssumption ==
    /\ IsFiniteSet(Channel) /\ IsFiniteSet(Plate)
    /\ Limit \in 1..100 /\ MaxCalls \in Nat /\ MaxOthers \in Nat
    /\ None \notin [on : BOOLEAN, detail : {"a", "b", "null", "a by name", "b by name"}]

VARIABLES
    client,    \* password, _logged_in, _token, _session_key, _legacy_auth
    recorder,  \* the recorder
    call,      \* the last operation: what it has left to do, and whether it raised
    calls, others

nvrVars == <<client, recorder, call, calls, others>>

Setting == {"rtsp", "api", "platform", "face", "alarm", "secure", "mail", "lan", "groups"}
Detail == {"a", "b", "null"}      \* "null" is the schedule that arms nothing
Pw == {"old", "new"}

NvrInit ==
    /\ client = [pw |-> "old", in |-> FALSE, token |-> None, key |-> FALSE, basic |-> None]
    /\ \E legacy, on \in BOOLEAN, d \in {"a", "null"}, have \in SUBSET Plate,
          up \in [Channel -> {"none", "up", "down"}] :
         recorder = [legacy |-> legacy, pw |-> "old", session |-> FALSE, schedules |-> {"a"},
                     set |-> [s \in Setting |-> [on |-> on, detail |-> d]],
                     devs |-> up, stored |-> [c \in Channel |-> "old"],
                     cam |-> [c \in Channel |-> "old"], plates |-> have]
    /\ call = None /\ calls = 0 /\ others = 0

(***************************************************************************)
(* Programs: what each operation asks of the recorder, in order.           *)
(***************************************************************************)
Q(s) == <<"query", s>>
E(s) == <<"edit", s>>
V(s) == <<"verify", s>>
One(name) == <<<<name, None>>>>

Login == One("reqLogin") \o One("doLogin")
List == One("queryDevList") \o One("queryOnlineChlList")

\* disable reads the rest of the setting and writes it back; enable writes
\* defaults; ensure reads both services and enables the ones that are off.
Enable(s) == <<E(s)>>
Disable(s) == <<Q(s), E(s)>>
Ensure == <<Q("rtsp"), E("rtsp"), Q("api"), E("api")>>

\* Four payload shapes are tried, each verified by reading the users again.
UserEmail == <<Q("mail"), E("mail"), V("mail"), E("mail"), V("mail"),
               E("mail"), V("mail"), E("mail"), V("mail")>>

SecureEmail == <<Q("secure"), E("secure"), V("secure")>>
FaceDetection == <<Q("face"), E("face"), V("face")>>

\* The caller reads the configuration, changes it and hands it over; then its
\* schedule is looked up by name.
AlarmConfig == <<Q("alarm"), <<"queryScheduleList", "alarm">>, E("alarm")>>

StoreCredentials == List \o One("editDevList")
OwnPassword == One("editUserPassword")
Sync == StoreCredentials \o OwnPassword \o Login
RtspUrl == List \o <<Q("rtsp")>>
PlateSearch == One("searchSmartTarget")
FaceProbe == <<Q("lan"), Q("rtsp"), Q("api")>> \o One("searchImageByImageV2")

\* The reads of a single request: services, ports and platform access; devices
\* of the recorder's own network; users and password security; AI resource; faces
\* and their groups, which are also created and deleted; recorded faces.
ServiceReads == <<Q("rtsp")>>
LanReads == <<Q("lan")>>
UserReads == <<Q("mail")>>
AiReads == <<Q("face")>>
FaceReads == <<Q("groups")>>
FaceGroups == <<E("groups")>>
FaceEvents == <<Q("groups")>>

\* Commands of the module's own command line: log in, then an operation.
ChangePasswordCommand == OwnPassword \o Login
SnapshotCommand == Ensure \o RtspUrl

Program ==
    [enable_rtsp |-> Enable("rtsp"), disable_rtsp |-> Disable("rtsp"),
     enable_api_server |-> Enable("api"), disable_api_server |-> Disable("api"),
     login |-> Login, query_services |-> ServiceReads, query_lan |-> LanReads, query_users |-> UserReads,
     query_ai_resource |-> AiReads, query_face_groups |-> FaceReads,
     edit_face_groups |-> FaceGroups, search_face_events |-> FaceEvents,
     query_channels |-> List, ensure_services_enabled |-> Ensure, get_rtsp_url |-> RtspUrl,
     set_user_email |-> UserEmail, set_secure_email |-> SecureEmail,
     set_nvr_face_detection |-> FaceDetection, set_alarm_server |-> AlarmConfig,
     set_platform_access |-> <<E("platform")>>, edit_nvr_lan_device_network |-> <<E("lan")>>,
     update_device_credentials |-> StoreCredentials, change_own_password |-> OwnPassword,
     change_admin_password_and_sync |-> Sync, change_password |-> ChangePasswordCommand,
     snapshot |-> SnapshotCommand, edit_nvr_ipc_passwords |-> One("editIPChlPassword"),
     delete_nvr_devices |-> One("delDevList"), add_nvr_devices |-> One("createDevList"),
     search_plate_events |-> PlateSearch, probe_face_search |-> FaceProbe]

\* The operations that send a password encrypted for the session.
NeedsKey == {"edit_nvr_lan_device_network", "edit_nvr_ipc_passwords"}

(***************************************************************************)
(* Requests.  The recorder answers ok, refuses, or no answer arrives, with *)
(* or without the effect; a client whose session is gone is refused.       *)
(***************************************************************************)
\* _post sends the cookie and, to legacy firmware, the basic credentials.
Valid == IF recorder.legacy THEN client.basic = recorder.pw ELSE client.token = "live" /\ recorder.session

Busy == call # None /\ call.todo # <<>>
Fail == call' = [call EXCEPT !.todo = <<>>, !.ok = FALSE]
Go(c) == call' = c

Next1(c) == [c EXCEPT !.todo = Tail(@)]

Ask(effect, Then(_)) ==
    \/ Valid /\ recorder' = effect /\ Then(TRUE)
    \/ recorder' = recorder /\ Then(FALSE)
    \/ recorder' \in (IF Valid THEN {recorder, effect} ELSE {recorder}) /\ Fail

\* _check_response: what is no success raises.
Checked(effect, c) ==
    LET Then(ok) == IF ok THEN Go(c) ELSE Fail
    IN  Ask(effect, Then) /\ UNCHANGED client

Due(name) == Busy /\ Head(call.todo)[1] = name
On == Head(call.todo)[2]

\* _require_login, and the session key for what is sent encrypted.
Start(op, on) ==
    /\ ~ Busy /\ calls < MaxCalls /\ calls' = calls + 1
    /\ op = "login" \/ client.in
    /\ op \in NeedsKey => client.key
    /\ call' = [op |-> op, todo |-> Program[op], ok |-> TRUE, on |-> on,
                seen |-> None, want |-> None, all |-> {}, total |-> FALSE, devs |-> {}, off |-> {},
                left |-> Channel, missed |-> {}, had |-> {}, unread |-> {}, found |-> {}]
    /\ UNCHANGED <<client, recorder, others>>

(***************************************************************************)
(* login.  A challenge, then the hashed password; legacy firmware answers  *)
(* the challenge with an error and takes the password as it is.            *)
(***************************************************************************)
ReqLogin ==
    /\ Due("reqLogin")
    /\ \/ /\ client' = IF recorder.legacy THEN client ELSE [client EXCEPT !.token = "staged"]
          /\ Go(Next1(call))
       \/ Fail /\ UNCHANGED client
    /\ UNCHANGED <<recorder, calls, others>>

LoggedIn(key) ==
    IF recorder.legacy THEN [client EXCEPT !.in = TRUE, !.basic = client.pw]
    ELSE [client EXCEPT !.in = TRUE, !.token = "live", !.key = key]

DoLogin ==
    /\ Due("doLogin")
    /\ \/ /\ client.pw = recorder.pw
          /\ \E key \in BOOLEAN : client' = LoggedIn(key)
          /\ recorder' = [recorder EXCEPT !.session = TRUE]
          /\ Go(Next1(call))
       \/ Fail /\ UNCHANGED <<client, recorder>>
    /\ UNCHANGED <<calls, others>>

(***************************************************************************)
(* Settings.                                                               *)
(***************************************************************************)
\* The value an operation writes, given what it read.
Wanted(seen) ==
    CASE call.op \in {"enable_rtsp", "enable_api_server"} -> [on |-> TRUE, detail |-> "a"]
      [] call.op \in {"disable_rtsp", "disable_api_server"} -> [on |-> FALSE, detail |-> seen.detail]
      [] call.op \in {"ensure_services_enabled", "snapshot"} ->
           [on |-> TRUE, detail |-> IF On = "rtsp" THEN "a" ELSE seen.detail]
      [] call.op \in {"set_nvr_face_detection", "set_alarm_server"} ->
           [on |-> call.on, detail |-> seen.detail]
      [] call.op = "set_user_email" -> [on |-> seen.on, detail |-> "b"]
      [] OTHER -> [on |-> call.on, detail |-> "b"]

\* ensure_services_enabled leaves alone what is on.
Skips(seen) == call.op \in {"ensure_services_enabled", "snapshot"} /\ seen.on /\ Len(call.todo) > 1

Query ==
    /\ Due("query")
    /\ LET seen == recorder.set[On]
           c == [call EXCEPT !.todo = IF Skips(seen) THEN SubSeq(@, 3, Len(@)) ELSE Tail(@),
                             !.seen = seen, !.want = Wanted(seen)]
       IN  Checked(recorder, c)
    /\ UNCHANGED <<calls, others>>

\* _alarm_server_schedule_name: the edit takes a schedule by its name, and takes
\* anything else as the schedule that arms nothing.
Named == [a |-> "a by name", b |-> "b by name"]

\* Mutant: the identifier goes back as it was read.
ScheduleVerbatim(d) == d

ScheduleName(d) == Named[d]

FindSchedule ==
    /\ Due("queryScheduleList")
    /\ IF call.seen.detail = "null"
         THEN Go(Next1(call)) /\ UNCHANGED <<recorder, client>>
         ELSE IF call.seen.detail \in recorder.schedules
         THEN Checked(recorder, [Next1(call) EXCEPT !.want.detail = ScheduleName(call.seen.detail)])
         ELSE Fail /\ UNCHANGED <<recorder, client>>
    /\ UNCHANGED <<calls, others>>

\* The last payload shape of set_user_email carries the address and no switch.
AddressAlone == call.op = "set_user_email" /\ Len(call.todo) = 2

Lands(s, w) ==
    IF s = "alarm"
      THEN [w EXCEPT !.detail = IF \E d \in recorder.schedules : w.detail = Named[d]
                                THEN CHOOSE d \in recorder.schedules : w.detail = Named[d] ELSE "null"]
      ELSE IF AddressAlone THEN [w EXCEPT !.on = recorder.set[s].on] ELSE w

\* Firmware that says success to an edit of these and keeps what it had, or
\* keeps the switch and not the detail.
Kept(s, w) ==
    LET all == Lands(s, w)
    IN  {all} \cup (IF s \in {"face", "mail", "secure"}
                      THEN {recorder.set[s], [all EXCEPT !.detail = recorder.set[s].detail]} ELSE {})

\* What follows a refused edit: the next payload shape of set_user_email that the
\* operation has, or an error.
NextShape == [call EXCEPT !.todo = SubSeq(@, 3, Len(@))]

Edit ==
    /\ Due("edit")
    /\ LET s == On
           w == IF call.want = None THEN Wanted(None) ELSE call.want
           c == [Next1(call) EXCEPT !.want = w]
           Then(ok) == IF ok THEN Go(c)
                       ELSE IF call.op = "set_user_email" /\ Len(call.todo) > 2 THEN Go(NextShape)
                       ELSE Fail
       IN  \E kept \in Kept(s, w) : Ask([recorder EXCEPT !.set[s] = kept], Then)
    /\ UNCHANGED <<client, calls, others>>

\* Mutant: the readback looks at the switch only.
MatchesSwitch(seen) == seen.on = call.want.on

\* That of set_user_email looks at the address alone.
Matches(seen) == seen.detail = call.want.detail /\ (call.op = "set_user_email" \/ seen.on = call.want.on)

\* The readback.  The two payload shapes of the web UI end the attempts when they
\* are accepted; its readback may be refused and then logs in again, once.
Verify ==
    /\ Due("verify")
    /\ LET c == Next1(call)
           Then(ok) ==
             IF ok
               THEN IF Matches(recorder.set[On]) THEN Go([call EXCEPT !.todo = <<>>])
                    ELSE IF call.op = "set_user_email" /\ Len(call.todo) > 4 THEN Go(c) ELSE Fail
               ELSE \/ Fail
                    \/ /\ call.op = "set_user_email" /\ Len(call.todo) < 4 /\ call.left # {}
                       /\ Go([call EXCEPT !.todo = Login \o <<V("mail")>>, !.left = {}])
       IN  Ask(recorder, Then)
    /\ UNCHANGED <<client, calls, others>>

(***************************************************************************)
(* Channels, their stored credentials and the cameras behind them.         *)
(***************************************************************************)
Present == {c \in Channel : recorder.devs[c] # "none"}
Up == {c \in Channel : recorder.devs[c] = "up"}

\* query_channels does not believe that there is none where the total says that
\* there are some; an answer without a total it believes.
ShapeKnown(parsed, total) == parsed = {} /\ total => Present = {}

\* Of a shape that has drifted some channels parse, or none does.
QueryDevList ==
    /\ Due("queryDevList")
    /\ \E parsed \in SUBSET Present, total \in BOOLEAN :
         LET c == [Next1(call) EXCEPT !.all = Present, !.total = total, !.devs = parsed]
             Then(ok) == IF ok /\ ShapeKnown(parsed, total) THEN Go(c) ELSE Fail
         IN  Ask(recorder, Then)
    /\ UNCHANGED <<client, calls, others>>

\* A refused list of the channels online is an empty one.
QueryOnline ==
    /\ Due("queryOnlineChlList")
    /\ LET Then(ok) ==
             LET c == [Next1(call) EXCEPT !.off = call.devs \ (IF ok THEN Up ELSE {})]
             IN  \* get_rtsp_url asks for the port of the recorder only without a camera's address
                 IF call.op \in {"get_rtsp_url", "snapshot"} /\ call.devs # {}
                   THEN Go([c EXCEPT !.todo = <<>>]) ELSE Go(c)
       IN  Ask(recorder, Then)
    /\ UNCHANGED <<client, calls, others>>

\* change_admin_password_and_sync stores the new password, the command the client's.
Credential == IF call.op = "change_admin_password_and_sync" THEN "new" ELSE client.pw

EditDevList ==
    /\ Due("editDevList")
    /\ Checked([recorder EXCEPT !.stored = [c \in Channel |-> IF c \in call.devs THEN Credential ELSE @[c]]],
               Next1(call))
    /\ UNCHANGED <<calls, others>>

Missed(ok, c) == IF ok THEN call.missed ELSE call.missed \cup {c}

\* editIPChlPassword, one channel after the other; the failures raise at the end.
\* The recorder changes a camera it reaches and answers already-set for one that
\* has the password, which edit_ipc_password_status alone takes for a success.
EditIpcPassword ==
    /\ Due("editIPChlPassword")
    /\ \E c \in call.left :
         LET reached == recorder.devs[c] # "none" /\ recorder.stored[c] = recorder.cam[c]
             rest == [call EXCEPT !.left = @ \ {c}]
             Then(ok) == LET next == [rest EXCEPT !.missed = Missed(ok /\ reached, c)]
                         IN  IF next.left # {} THEN Go(next)
                             ELSE IF next.missed # {} THEN Fail ELSE Go([next EXCEPT !.todo = <<>>])
         IN  Ask(IF reached THEN [recorder EXCEPT !.cam[c] = "new"] ELSE recorder, Then)
    /\ UNCHANGED <<client, calls, others>>

DeleteDevices ==
    /\ Due("delDevList")
    /\ \E c \in Channel : Checked([recorder EXCEPT !.devs[c] = "none"], Next1(call))
    /\ UNCHANGED <<calls, others>>

\* With a password, which needs the session key, or as a discovered device, which
\* the recorder joins with its default.
CreateDevice ==
    /\ Due("createDevList")
    /\ \E c \in Channel, p \in Pw :
         /\ p = "new" => client.key
         /\ Checked([recorder EXCEPT !.devs[c] = IF p = recorder.cam[c] THEN "up" ELSE "down", !.stored[c] = p],
                    Next1(call))
    /\ UNCHANGED <<calls, others>>

(***************************************************************************)
(* The password.  It ends the session; the commands and the sync then take *)
(* the new one and log in.                                                 *)
(***************************************************************************)
LogsInAgain == Len(call.todo) > 1

EditUserPassword ==
    /\ Due("editUserPassword")
    /\ LET changed == [recorder EXCEPT !.pw = "new", !.session = FALSE]
           Then(ok) ==
             IF ok /\ client.pw = recorder.pw
               THEN /\ client' = [client EXCEPT !.in = FALSE, !.token = None,
                                                !.pw = IF LogsInAgain THEN "new" ELSE @]
                    /\ Go(Next1(call))
               ELSE Fail /\ UNCHANGED client
       IN  \/ Valid /\ client.pw = recorder.pw /\ recorder' = changed /\ Then(TRUE)
           \/ recorder' = recorder /\ Then(FALSE)
           \/ /\ recorder' \in (IF Valid /\ client.pw = recorder.pw THEN {recorder, changed} ELSE {recorder})
              /\ Fail /\ UNCHANGED client
    /\ UNCHANGED <<calls, others>>

(***************************************************************************)
(* Searches.                                                               *)
(***************************************************************************)
\* Mutant: a full page passes for a complete one.
PageFullBeyond(n) == n > Limit

PageFull(n) == n >= Limit

\* searchSmartTarget: references to the records, Limit at most.
SearchPlates ==
    /\ Due("searchSmartTarget")
    /\ \E page \in SUBSET recorder.plates :
         /\ Cardinality(page) = IF Cardinality(recorder.plates) < Limit THEN Cardinality(recorder.plates) ELSE Limit
         /\ LET Then(ok) ==
                  IF ~ ok \/ PageFull(Cardinality(page)) THEN Fail
                  ELSE Go([call EXCEPT !.todo = IF page = {} THEN <<>> ELSE One("requestSmartTargetSnapImage"),
                                       !.left = page, !.had = recorder.plates])
            IN  Ask(recorder, Then)
    /\ UNCHANGED <<client, calls, others>>

\* One record in detail: gone, recognised, or the deadline of the loop has passed.
\* A reference that is malformed or of another channel is skipped without a request,
\* and so is, after it, a snapshot that is unavailable or shows no plate: these are
\* left unread, and nothing says so to the caller.
ResolvePlate ==
    /\ Due("requestSmartTargetSnapImage")
    /\ \E p \in call.left :
         LET rest == [call EXCEPT !.left = @ \ {p}, !.todo = IF call.left = {p} THEN <<>> ELSE @]
             unread == [rest EXCEPT !.unread = @ \cup {p}]
             found == [rest EXCEPT !.found = @ \cup ({p} \cap recorder.plates)]
         IN  \/ Go(unread) /\ UNCHANGED <<client, recorder>>
             \/ \E c \in {unread, found} : Checked(recorder, c)
    /\ UNCHANGED <<calls, others>>

\* probe_face_search: only the codes of a recorder that lacks the command say so.
ProbeFaces ==
    /\ Due("searchImageByImageV2")
    /\ \E lacks \in BOOLEAN :
         LET Then(ok) == IF ok \/ lacks THEN Go([Next1(call) EXCEPT !.on = ok]) ELSE Fail
         IN  Ask(recorder, Then)
    /\ UNCHANGED <<client, calls, others>>

(***************************************************************************)
(* Other users of the recorder, and the recorder itself.                   *)
(***************************************************************************)
Elsewhere ==
    /\ Busy /\ others < MaxOthers /\ others' = others + 1
    /\ \/ /\ \E s \in Setting, on \in BOOLEAN : recorder' = [recorder EXCEPT !.set[s] = [on |-> on, detail |-> "b"]]
          /\ UNCHANGED call
       \/ /\ \E c \in Channel, d \in {"none", "up", "down"} : recorder' = [recorder EXCEPT !.devs[c] = d]
          /\ UNCHANGED call
       \/ recorder' = [recorder EXCEPT !.schedules = {}] /\ UNCHANGED call
       \/ recorder' = [recorder EXCEPT !.session = FALSE] /\ UNCHANGED call
       \/ \E p \in Plate :
            /\ recorder' = [recorder EXCEPT !.plates = IF p \in @ THEN @ \ {p} ELSE @ \cup {p}]
            /\ call' = [call EXCEPT !.had = @ \ {p}]
    /\ UNCHANGED <<client, calls>>

Switched == {"set_nvr_face_detection", "set_alarm_server", "set_secure_email", "set_platform_access"}
BeginCall == \E op \in DOMAIN Program, on \in BOOLEAN : (on \/ op \in Switched) /\ Start(op, on)
Accounts == ReqLogin \/ DoLogin \/ EditUserPassword
Settings == Query \/ FindSchedule \/ Edit \/ Verify
Channels == QueryDevList \/ QueryOnline \/ EditDevList \/ EditIpcPassword \/ DeleteDevices \/ CreateDevice
Searches == SearchPlates \/ ResolvePlate \/ ProbeFaces
NvrNext == BeginCall \/ Accounts \/ Settings \/ Channels \/ Searches \/ Elsewhere

NvrSpec == NvrInit /\ [][NvrNext]_nvrVars

(***************************************************************************)
(* Properties.                                                             *)
(***************************************************************************)
NvrTypeOK ==
    /\ client \in [pw : Pw, in : BOOLEAN, token : {None, "staged", "live"}, key : BOOLEAN, basic : Pw \cup {None}]
    /\ \A s \in Setting : recorder.set[s].on \in BOOLEAN /\ recorder.set[s].detail \in Detail
    /\ call # None => call.off \subseteq call.devs /\ call.found \subseteq Plate
    /\ calls \in 0..MaxCalls /\ others \in 0..MaxOthers

Returns == Busy /\ call'.todo = <<>> /\ call'.ok

\* What an operation reports by returning is so, with verify left at its default:
\* "accepted but ignored write raises", so that the recorder holds what was asked,
\* the detail included, at the readback; of a user set_user_email promises the address
\* alone; "update all stored IPC credentials to match": every channel that was listed
\* is stored with the password of the recorder; and every camera of the list was edited.
VerifiedMeansWritten ==
    [][Returns =>
         /\ call.op \in {"set_nvr_face_detection", "set_secure_email"} => recorder'.set[On] = call.want
         /\ call.op = "set_user_email" => recorder'.set[On].detail = call.want.detail
         /\ call.op = "change_admin_password_and_sync"
              => recorder'.pw = client'.pw /\ \A c \in call.devs : recorder'.stored[c] = recorder'.pw
         /\ call.op = "edit_nvr_ipc_passwords" => \A c \in Channel : recorder'.cam[c] = "new"]_nvrVars

\* No edit of the alarm server disarms it: the schedule that arms nothing is
\* written only where it was read, or the schedule was deleted meanwhile.
AlarmsStayArmed ==
    [][recorder'.set["alarm"].detail = "null" /\ recorder.set["alarm"].detail # "null"
         => call.seen.detail = "null" \/ call.seen.detail \notin recorder.schedules]_nvrVars

Returned == call # None /\ ~ Busy /\ call.ok

\* What is read is complete as far as the client can tell: a plate search returns every
\* record that was there all the time, but those it skipped as unreadable, whatever
\* others remove and whatever page the recorder cut; and where the recorder tells the
\* total, an empty list of channels is returned only where there were none.
ReadsTruthful ==
    /\ NvrTypeOK
    /\ Returned => /\ call.had \ call.unread \subseteq call.found
                   /\ call.total /\ call.devs = {} => call.all = {}
=============================================================================
