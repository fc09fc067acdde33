---------------------------- MODULE DeviceSession ----------------------------
(* DeviceSession (device_sdk/client.py): the calls of an authenticated session,
   made by several callers, over a native library that delivers stream data on
   threads of its own, and over a device whose configuration others edit too.
   Plate subscriptions and the logout that waits for them are in
   SmartSubscription.                                                         *)
EXTENDS Integers, Sequences, FiniteSets, SequencesExt, Nothing

CONSTANTS Caller, Channel,
          Lacks,              \* exports that the loaded library does not have
          MaxCalls, MaxEdits

ASSUME SessionAssumption ==
    /\ IsFiniteSet(Caller) /\ MaxCalls \in Nat /\ MaxEdits \in Nat
    /\ None # "uncoded"

VARIABLES
    live,      \* the handle has not been logged out
    call,      \* caller -> the call it makes, or made last
    grab,      \* the captures begun: what the callback of each has collected
    request,   \* _live_requests: id -> capture
    preview,   \* previews the library ever started, by handle
    finds,     \* enumerations open in the library
    backup,    \* the destination of exports, and the temporary files beside it
    encode,    \* the encode profiles of the device
    kept,      \* what it serves to this session: its answer to the first query
    motion,    \* the motion settings of the device
    since,     \* history: what encode has been since an update read it, or wrote it
    calls, edits

vars == <<live, call, grab, request, preview, finds, backup, encode, kept, motion,
          since, calls, edits>>
stream == <<grab, request, preview>>
device == <<encode, kept, motion>>

Profile == {"continuous", "event"}
Setting == 0 .. 1

ASSUME ServedAssumption == None \notin [Profile -> Setting]

(***************************************************************************)
(* Errors.  A coded one tells whether the session may be used again; those *)
(* without a code, a missing export among them, tell it may not.           *)
(***************************************************************************)
Codes == {"CHANNEL_ERROR", "NETWORK"}
Invalidates(e) == e \notin {None, "CHANNEL_ERROR", "ValueError"}

Refusals(symbol) == IF symbol \in Lacks THEN {"uncoded"} ELSE Codes

NoCall == [op |-> None, at |-> "done", result |-> None]
Free(c) == call[c].at = "done" /\ calls < MaxCalls /\ live
Begin(c, r) == call' = [call EXCEPT ![c] = r] /\ calls' = calls + 1
At(c, o, l) == call[c].op = o /\ call[c].at = l
Move(c, l) == call' = [call EXCEPT ![c].at = l]
Finish(c, e) == call' = [call EXCEPT ![c].at = "done", ![c].result = e]
Single(o, e) == [op |-> o, at |-> "done", result |-> e]

Init ==
    /\ live = TRUE
    /\ call = [c \in Caller |-> NoCall]
    /\ grab = << >> /\ request = << >> /\ preview = << >>
    /\ finds = {}
    /\ backup = [at |-> "old", temporary |-> [c \in Caller |-> None]]
    /\ encode = [p \in Profile |-> 0] /\ kept = None /\ motion = 0
    /\ since = [c \in Caller |-> {}]
    /\ calls = 0 /\ edits = 0

(***************************************************************************)
(* Calls of one native function each.                                      *)
(***************************************************************************)
\* What the device serves a session: what it served it first.
Served(k) == IF k = None THEN encode ELSE k

Queries == {"device_info", "api_call", "query_platform_access", "device_time"}
Flags == {"device_support", "smart_support", "rtsp_url"}
Trusting == {"channel_status", "ipc_info"}     \* take the count of the device
TrustingToo == {"alarm_out_status", "recording_days"}
Controls == {"ptz", "ptz_preset", "ptz_cruise", "alarm_subscribe", "alarm_unsubscribe"}
Recording == {"start_recording", "stop_recording"}
Commands == {"reboot", "shutdown", "sync_time", "restore_defaults"}
Transfers == {"import_config", "upgrade", "unlock_door"}
Encodings == {"node_encode_info", "record_schedule"}
\* Exports of the 1.3.2 library, each looked for first.
Doors == {"unlock_door_ex", "rolling_gate_control", "call_log"}
Nodes == {"device_users", "modify_integrate_user", "online_channels", "nvr_channel_info"}
Records == {"record_status", "record_status_ex", "playback_sync_handle"}
Cloud == {"capture_thermal_jpeg", "cloud_upgrade", "cloud_upgrade_node", "cloud_upgrade_info"}
Smart == {"get_smart_event_config", "edit_smart_event_config", "edit_smart_event_point",
          "show_rule", "show_rule_boxes"}
Talk == {"start_voice_talk"}

Old == Queries \cup Flags \cup Controls \cup Recording \cup Commands \cup Transfers \cup Encodings
Lists == Trusting \cup TrustingToo
Newer == Doors \cup Nodes \cup Records \cup Cloud \cup Smart \cup Talk

\* A list call fills a buffer of fixed size: where the count is the device's, a longer
\* list ends the call; elsewhere it is cut.
Outcomes(o) ==
    IF o \in Lists THEN Codes \cup {None, "IndexError"}
    ELSE IF o \in Newer THEN {None} \cup Refusals(o)
    ELSE Codes \cup {None}

\* record_devices takes the count of a failure, which is negative, for an empty list.
Devices == {None} \cup (IF "record_devices" \in Lacks THEN {"uncoded"} ELSE {})

Ask(c) ==
    /\ Free(c)
    /\ \E o \in Old \cup Lists \cup Newer \cup {"record_devices"} :
          /\ \E e \in IF o = "record_devices" THEN Devices ELSE Outcomes(o) :
                Begin(c, Single("ask", e))
          /\ kept' = IF o = "node_encode_info" THEN Served(kept) ELSE kept
    /\ UNCHANGED <<live, stream, finds, backup, encode, motion, edits>>

\* The answers about stored faces carry sizes, counts and pointers of the device: only
\* an answer that is consistent is read.
Answer == {"whole", "oversized", "truncated", "toomany", "null"}
FaceError(a) == IF a = "whole" THEN None ELSE "uncoded"
AskFaces(c) ==
    /\ Free(c)
    /\ \E o \in {"search_face_captures", "get_face_capture_image"} :
          \E e \in Refusals("NET_SDK_FaceMatchOperate") \cup {FaceError(a) : a \in Answer} \cup {"ValueError"} :
             Begin(c, Single(o, e))
    /\ UNCHANGED <<live, stream, finds, backup, device, edits>>

Logout == /\ live /\ live' = FALSE
          /\ UNCHANGED <<call, stream, finds, backup, device, calls, edits>>

(***************************************************************************)
(* capture_jpeg: the capture in memory and the capture in a file, either   *)
(* first; the second is tried when the first fails.                        *)
(***************************************************************************)
JpegErrors(form) ==
    IF form = "data" THEN Codes
    ELSE Refusals("NET_SDK_CaptureJPEGFile_V2") \cup {"uncoded"}    \* unreadable, or too large

Jpeg(c) ==
    /\ Free(c)
    /\ \E form \in {"data", "file"} :
          \/ Begin(c, Single("capture_jpeg", None))
          \/ \E e \in JpegErrors(form) :
                Begin(c, [op |-> "capture_jpeg", at |-> "second", result |-> e, form |-> form])
    /\ UNCHANGED <<live, stream, finds, backup, device, edits>>

JpegAgain(c) ==
    /\ At(c, "capture_jpeg", "second")
    /\ \E e \in {None} \cup JpegErrors(IF call[c].form = "data" THEN "file" ELSE "data") : Finish(c, e)
    /\ UNCHANGED <<live, stream, finds, backup, device, calls, edits>>

(***************************************************************************)
(* capture_keyframe.  The library calls one thunk with the id of a         *)
(* request; the thunk looks the request up, and its callback collects the  *)
(* format and the first key frame, unless the capture is over.             *)
(***************************************************************************)
NewGrab(ch) == [channel |-> ch, over |-> FALSE, codec |-> None, frame |-> None, error |-> FALSE]
\* Mutant: an identifier is given again.
LowestFreeId == CHOOSE i \in 1 .. Len(grab) + 1 :
    i \notin DOMAIN request /\ \A j \in 1 .. i - 1 : j \in DOMAIN request

FreshId == Len(grab) + 1

KeyframeBegin(c) ==
    /\ Free(c)
    /\ \/ /\ "NET_SDK_LivePlayEx" \in Lacks
          /\ Begin(c, Single("capture_keyframe", "uncoded"))
          /\ UNCHANGED stream
       \/ /\ "NET_SDK_LivePlayEx" \notin Lacks
          /\ \E ch \in Channel :
                LET k == Len(grab) + 1 IN
                /\ grab' = Append(grab, NewGrab(ch))
                /\ request' = [i \in DOMAIN request \cup {FreshId} |->
                                  IF i = FreshId THEN k ELSE request[i]]
                /\ Begin(c, [op |-> "capture_keyframe", at |-> "play", result |-> None,
                             k |-> k, id |-> FreshId, handle |-> 0, arrived |-> FALSE])
          /\ UNCHANGED preview
    /\ UNCHANGED <<live, finds, backup, device, edits>>

Over(k) == grab' = [grab EXCEPT ![k].over = TRUE]

KeyframePlay(c) ==
    LET g == call[c] IN
    /\ At(c, "capture_keyframe", "play")
    /\ \/ /\ live
          /\ preview' = Append(preview, [user |-> g.id, channel |-> grab[g.k].channel, caller |-> c,
                                         open |-> TRUE, thread |-> "idle", k |-> 0])
          /\ call' = [call EXCEPT ![c].at = "wait", ![c].handle = Len(preview) + 1]
          /\ UNCHANGED grab
       \/ /\ \E e \in Codes : call' = [call EXCEPT ![c].at = "remove", ![c].result = e]
          /\ Over(g.k) /\ UNCHANGED preview
    /\ UNCHANGED <<live, request, finds, backup, device, calls, edits>>

\* The wait ends with the event or with the time limit, and the capture is over.
KeyframeWake(c) ==
    LET g == call[c] IN
    /\ At(c, "capture_keyframe", "wait")
    /\ call' = [call EXCEPT ![c].at = "stop", ![c].arrived = grab[g.k].over]
    /\ Over(g.k)
    /\ UNCHANGED <<live, request, preview, finds, backup, device, calls, edits>>

CodedStopError == "CHANNEL_ERROR"  \* mutant
StopError == "uncoded"      \* "recorder session is unsafe to reuse"
KeyframeStop(c) ==
    LET g == call[c] IN
    /\ At(c, "capture_keyframe", "stop")
    /\ \/ preview' = [preview EXCEPT ![g.handle].open = FALSE] /\ Move(c, "remove")
       \/ /\ call' = [call EXCEPT ![c].at = "remove", ![c].result = StopError]
          /\ UNCHANGED preview
    /\ UNCHANGED <<live, grab, request, finds, backup, device, calls, edits>>

RemovedNone(id) == request  \* mutant
Removed(id) == [i \in DOMAIN request \ {id} |-> request[i]]
KeyframeEnd(c) ==
    LET g == call[c]  b == grab[g.k] IN
    /\ At(c, "capture_keyframe", "remove")
    /\ request' = Removed(g.id)
    /\ LET e == IF g.result # None THEN g.result
                ELSE IF b.error \/ ~g.arrived \/ b.frame = None THEN "uncoded" ELSE None
       IN  call' = [call EXCEPT ![c] =
              [op |-> "capture_keyframe", at |-> "done", result |-> e,
               asked |-> b.channel, frame |-> IF e = None THEN b.frame ELSE None]]
    /\ UNCHANGED <<live, grab, preview, finds, backup, device, calls, edits>>

\* One thread of the library serves a preview; a call it began before the stop goes on.
Thread(h, l) == h \in DOMAIN preview /\ preview[h].thread = l
NativeEnter(h) ==
    /\ Thread(h, "idle") /\ preview[h].open
    /\ preview' = [preview EXCEPT ![h].thread = "called"]
    /\ UNCHANGED <<live, call, grab, request, finds, backup, device, calls, edits>>

Dispatch(h) ==      \* _dispatch_live_data, up to the look at the event
    /\ Thread(h, "called")
    /\ LET u == preview[h].user
           k == IF u \in DOMAIN request THEN request[u] ELSE 0
       IN  preview' = [preview EXCEPT
              ![h].k = k,
              ![h].thread = IF k = 0 \/ (k # 0 /\ grab[k].over) THEN "idle" ELSE "data"]
    /\ UNCHANGED <<live, call, grab, request, finds, backup, device, calls, edits>>

OnData(h) ==        \* _on_data: a format, a key frame, or data beyond the limit
    LET v == preview[h] IN
    /\ Thread(h, "data")
    /\ \/ grab' = [grab EXCEPT ![v.k].codec = v.channel]
       \/ grab' = [grab EXCEPT ![v.k].frame = v.channel, ![v.k].over = TRUE]
       \/ grab' = [grab EXCEPT ![v.k].error = TRUE, ![v.k].over = TRUE]
    /\ preview' = [preview EXCEPT ![h].thread = "idle", ![h].k = 0]
    /\ UNCHANGED <<live, call, request, finds, backup, device, calls, edits>>

(***************************************************************************)
(* Enumerations by a handle of the library: recordings, disks, logs.  The  *)
(* conversion of an entry may raise; the handle is closed all the same.    *)
(***************************************************************************)
FindBegin(c) ==
    /\ Free(c)
    /\ \E o \in {"find_recordings", "disk_info", "find_logs"} :
          \/ /\ finds' = finds \cup {c}
             /\ Begin(c, [op |-> o, at |-> "next", result |-> None])
          \/ /\ \E e \in Codes : Begin(c, Single(o, e))
             /\ UNCHANGED finds
    /\ UNCHANGED <<live, stream, backup, device, edits>>

FindNext(c) ==      \* an entry, the end or a failure of the library, or a bad entry
    /\ call[c].at = "next"
    /\ \/ UNCHANGED call
       \/ Move(c, "close")
       \/ call' = [call EXCEPT ![c].at = "close", ![c].result = "ValueError"]
    /\ UNCHANGED <<live, stream, finds, backup, device, calls, edits>>

FindClose(c) ==
    /\ call[c].at = "close"
    /\ finds' = finds \ {c}
    /\ Finish(c, call[c].result)
    /\ UNCHANGED <<live, stream, backup, device, calls, edits>>

(***************************************************************************)
(* export_config: into a temporary sibling, then over the destination.     *)
(***************************************************************************)
ExportBegin(c) ==
    /\ Free(c)
    /\ Begin(c, [op |-> "export_config", at |-> "fetch", result |-> None])
    /\ backup' = [backup EXCEPT !.temporary[c] = "empty"]
    /\ UNCHANGED <<live, stream, finds, device, edits>>

\* NET_SDK_GetConfigFile writes the file, or nothing; one that fails may have written
\* a part of it.  (That what it reports as a success is whole is taken on trust.)
Fetch(c) ==
    /\ At(c, "export_config", "fetch")
    /\ \/ /\ \E f \in {"whole", "empty"} : backup' = [backup EXCEPT !.temporary[c] = f]
          /\ Move(c, "check")
       \/ /\ \E f \in {"empty", "partial"} : backup' = [backup EXCEPT !.temporary[c] = f]
          /\ \E e \in Codes : call' = [call EXCEPT ![c].at = "unlink", ![c].result = e]
    /\ UNCHANGED <<live, stream, finds, device, calls, edits>>

Publishable(f) == f # "empty"
Publish(c) ==
    LET f == backup.temporary[c] IN
    /\ At(c, "export_config", "check")
    /\ \/ /\ Publishable(f)
          /\ backup' = [backup EXCEPT !.at = f, !.temporary[c] = None]
          /\ Move(c, "unlink")
       \/ /\ ~Publishable(f)
          /\ call' = [call EXCEPT ![c].at = "unlink", ![c].result = "uncoded"]
          /\ UNCHANGED backup
    /\ UNCHANGED <<live, stream, finds, device, calls, edits>>

Unlink(c) ==
    /\ At(c, "export_config", "unlink")
    /\ backup' = [backup EXCEPT !.temporary[c] = None]
    /\ Finish(c, call[c].result)
    /\ UNCHANGED <<live, stream, finds, device, calls, edits>>

(***************************************************************************)
(* Encode profiles.  The device takes both in one write; set_node_encode   *)
(* fills the profile it is not asked about from what it read.              *)
(***************************************************************************)
Patched(k, p, v) == [Served(k) EXCEPT ![p] = v]

SetNode(c) ==
    /\ Free(c)
    /\ \E p \in Profile, v \in Setting :
          \/ Begin(c, [op |-> "set_node_encode", at |-> "write", result |-> None,
                       write |-> Patched(kept, p, v)])
          \/ \E e \in Codes \cup {"uncoded"} : Begin(c, Single("set_node_encode", e))
    /\ kept' = Served(kept)
    /\ UNCHANGED <<live, stream, finds, backup, encode, motion, edits>>

SetNodeWrite(c) ==
    /\ At(c, "set_node_encode", "write")
    /\ \/ encode' = call[c].write /\ Finish(c, None)
       \/ /\ \E e \in Codes \cup {"uncoded"} : Finish(c, e)
          /\ encode' \in {encode, call[c].write}
    /\ UNCHANGED <<live, stream, finds, backup, kept, motion, calls, edits>>

\* update_node_encode_verified guards in one session of its own and verifies in another.
Update(c) ==
    /\ Free(c)
    /\ \E p \in Profile, v, baseline \in Setting :
          \/ IF encode[p] = baseline
             THEN Begin(c, [op |-> "update", at |-> "write", result |-> None, profile |-> p,
                            value |-> v, baseline |-> baseline, session |-> encode])
             ELSE Begin(c, Single("update", "conflict"))
          \/ \E e \in Codes : Begin(c, Single("update", e))
    /\ UNCHANGED <<live, stream, finds, backup, device, edits>>

UpdateWrite(c) ==
    LET u == call[c]  w == Patched(u.session, u.profile, u.value) IN
    /\ At(c, "update", "write")
    /\ \/ encode' = w /\ Move(c, "verify")
       \/ encode' \in {encode, w} /\ Finish(c, "write_unconfirmed")
    /\ UNCHANGED <<live, stream, finds, backup, kept, motion, calls, edits>>

VerifiedInSession(u) == u.session  \* mutant
Verified(u) == encode     \* what a new session is served
UpdateVerify(c) ==
    LET u == call[c] IN
    /\ At(c, "update", "verify")
    /\ \/ call' = [call EXCEPT ![c].at = "return",
                 ![c].result = IF Verified(u)[u.profile] = u.value THEN "updated" ELSE "verification_mismatch"]
       \/ Finish(c, "verification_unavailable")
    /\ UNCHANGED <<live, stream, finds, backup, device, calls, edits>>

\* The verifying session is logged out before the verdict is returned.
UpdateReturn(c) ==
    /\ At(c, "update", "return")
    /\ Finish(c, call[c].result)
    /\ UNCHANGED <<live, stream, finds, backup, device, calls, edits>>

(***************************************************************************)
(* set_motion_config: read, change what is asked, write, read again.       *)
(***************************************************************************)
MotionRead(c) ==
    /\ Free(c)
    /\ \E v \in Setting :
          \/ IF motion = v THEN Begin(c, Single("set_motion_config", None))
             ELSE Begin(c, [op |-> "set_motion_config", at |-> "edit", result |-> None, value |-> v])
          \/ \E e \in Codes \cup {"uncoded", "ValueError"} : Begin(c, Single("set_motion_config", e))
    /\ UNCHANGED <<live, stream, finds, backup, device, edits>>

MotionEdit(c) ==
    /\ At(c, "set_motion_config", "edit")
    /\ \/ motion' = call[c].value /\ Move(c, "reread")
       \/ /\ motion' \in {motion, call[c].value}
          /\ \E e \in Codes \cup {"uncoded"} : Finish(c, e)
    /\ UNCHANGED <<live, stream, finds, backup, encode, kept, calls, edits>>

Mismatch(v) == motion # v
MotionReread(c) ==
    /\ At(c, "set_motion_config", "reread")
    /\ \/ Finish(c, IF Mismatch(call[c].value) THEN "uncoded" ELSE None)
       \/ \E e \in Codes \cup {"uncoded"} : Finish(c, e)
    /\ UNCHANGED <<live, stream, finds, backup, device, calls, edits>>

\* Someone else edits the device.
OtherEdit ==
    /\ edits < MaxEdits /\ edits' = edits + 1
    /\ \/ \E p \in Profile : encode' = [encode EXCEPT ![p] = 1 - @] /\ UNCHANGED motion
       \/ motion' = 1 - motion /\ UNCHANGED encode
    /\ UNCHANGED <<live, call, stream, finds, backup, kept, calls>>

Step ==
    \/ Logout \/ OtherEdit
    \/ \E c \in Caller :
          \/ Ask(c) \/ AskFaces(c) \/ Jpeg(c) \/ JpegAgain(c)
          \/ KeyframeBegin(c) \/ KeyframePlay(c) \/ KeyframeWake(c) \/ KeyframeStop(c) \/ KeyframeEnd(c)
          \/ FindBegin(c) \/ FindNext(c) \/ FindClose(c)
          \/ ExportBegin(c) \/ Fetch(c) \/ Publish(c) \/ Unlink(c)
          \/ SetNode(c) \/ SetNodeWrite(c) \/ Update(c) \/ UpdateWrite(c)
          \/ UpdateVerify(c) \/ UpdateReturn(c)
          \/ MotionRead(c) \/ MotionEdit(c) \/ MotionReread(c)
    \/ \E h \in DOMAIN preview : NativeEnter(h) \/ Dispatch(h) \/ OnData(h)

\* The history starts again when an update has read the profiles and when it has written
\* them.
Updating(r) == r.op = "update" /\ r.at # "done"
Remember ==
    since' = [c \in Caller |->
        IF ~Updating(call'[c]) THEN {}
        ELSE IF call'[c].at # call[c].at /\ call'[c].at \in {"write", "verify"} THEN {encode'}
        ELSE since[c] \cup {encode'}]

Next == Step /\ Remember

Spec == Init /\ [][Next]_vars

-----------------------------------------------------------------------------
(***************************************************************************)
(* Properties.                                                             *)
(***************************************************************************)
\* A key frame that is returned shows the channel asked for: data that the library
\* delivers late, for a preview that is over or could not be stopped, reaches no other
\* request.
FrameIsOwn ==
    \A c \in Caller : (At(c, "capture_keyframe", "done") /\ call[c].result = None) =>
        ("frame" \in DOMAIN call[c] => call[c].frame = call[c].asked)

\* Nothing stays behind a call: requests, enumerations and temporary files belong to
\* calls in progress, however these end; and the destination of an export is the
\* old file or a whole one, never what a failed or partial export left.
NothingLeftBehind ==
    /\ \A i \in DOMAIN request : \E c \in Caller :
          call[c].op = "capture_keyframe" /\ call[c].at # "done" /\ call[c].id = i
    /\ \A c \in finds : call[c].at \in {"next", "close"}
    /\ \A c \in Caller : backup.temporary[c] # None =>
          call[c].op = "export_config" /\ call[c].at # "done"
    /\ backup.at \in {"old", "whole"}

\* A preview that its capture leaves open is reported with an error that makes the
\* owner of the session give the session up.
OrphanInvalidates ==
    [][\A c \in Caller : (call[c].op = "capture_keyframe" /\ call[c].at # "done" /\ call'[c].at = "done") =>
          \A h \in DOMAIN preview : (preview[h].caller = c /\ preview[h].open /\ h = call[c].handle) =>
             Invalidates(call'[c].result)]_vars

\* An update of an encode profile writes what it says and says what it wrote, although others
\* edit the profiles between its three looks at them and the device serves a session
\* what it served it first.  The write changes the profile asked for, and nothing else, of a
\* state that had the baseline after the call began; an update was on the device after
\* the write; and when a mismatch is reported, someone has indeed changed the profile
\* since the write.
UpdatesHonest ==
    [][\A c \in Caller : Updating(call[c]) /\ call'[c] # call[c] =>
          LET u == call[c]
              Had(v) == \E m \in since[c] : m[u.profile] = v
          IN  /\ u.at = "write" /\ encode' # encode =>
                    \E m \in since[c] : /\ m[u.profile] = u.baseline
                                       /\ encode' = [m EXCEPT ![u.profile] = u.value]
              /\ call'[c].at = "done" /\ call'[c].result = "updated" => Had(u.value)
              /\ call'[c].at = "done" /\ call'[c].result = "verification_mismatch" =>
                    \E v \in Setting \ {u.value} : Had(v)]_vars
=============================================================================
