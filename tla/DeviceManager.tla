---------------------------- MODULE DeviceManager ----------------------------
(* DeviceManager (device_sdk/manager.py): one façade over the ways to a device:
   the NetSDK with its sessions (client.py), the bridge service
   (http_client.py), the web API, and RTSP streams whose URLs are kept in a cache
   of the process.  Managers run concurrently; each does one thing at a time.
   Where the camera behind a channel is replaced, a kept URL still shows the old
   one.                                                                       *)
EXTENDS Integers, Sequences, FiniteSets, SequencesExt, Nothing

CONSTANTS Manager,
          Camera,       \* cameras that may be behind the channel
          Ttl,          \* rtsp_url_cache_ttl
          MaxEntries,   \* entries of the URL cache
          MaxTime, MaxOps

ASSUME ManagerAssumption ==
    /\ IsFiniteSet(Manager) /\ Ttl \in Nat /\ MaxEntries \in Nat \ {0}
    /\ MaxTime \in Nat /\ MaxOps \in Nat
    /\ {"own", "relay"} \cap Camera = {}
    /\ None \notin {"nat", "direct", "small", "full", "netsdk", "bridge"}

VARIABLES
    mgr,       \* manager -> its settings, its session and its native client
    op,        \* manager -> what it does
    cache,     \* _RTSP_URL_CACHE, least recently used first
    sdk,       \* process-wide connection timeout, initialised clients
    camera,    \* the camera behind the channel now
    last,      \* camera -> when it was last behind the channel
    now, ops

vars == <<mgr, op, cache, sdk, camera, last, now, ops>>

Stream == {"main", "sub"}
Default == "default"

(***************************************************************************)
(* The managers.  The back end is detected: the SDK where it loads, for NAT *)
(* with its NAT library, else the bridge, which has no NAT.                *)
(***************************************************************************)
Detected(nat, found) ==
    IF nat THEN IF "natsdk" \in found THEN "netsdk" ELSE None
    ELSE IF "netsdk" \in found THEN "netsdk"
    ELSE IF "bridge" \in found THEN "bridge" ELSE None

Idle == [kind |-> None, legs |-> <<>>, phase |-> "leg", main |-> FALSE, rtsp |-> FALSE, timed |-> FALSE,
         late |-> FALSE, fallback |-> TRUE, tried |-> {}, held |-> FALSE,
         url |-> None, got |-> None]

Init ==
    /\ \E found \in SUBSET {"netsdk", "natsdk", "bridge"} :
         mgr \in [Manager -> {r \in [nat : BOOLEAN, ip : BOOLEAN, backend : {Detected(TRUE, found), Detected(FALSE, found)},
                                     direct : BOOLEAN, session : {None}, pw : Manager] :
                                /\ r.backend # None /\ r.backend = Detected(r.nat, found)
                                /\ (r.nat \/ r.ip) /\ (r.direct => r.ip /\ ~ r.nat)}]
    /\ \A m \in Manager : mgr[m].pw = m
    /\ op = [m \in Manager |-> Idle]
    /\ cache = <<>> /\ sdk = [timeout |-> Default, clients |-> {}]
    /\ camera \in Camera /\ last = [c \in Camera |-> IF c = camera THEN 0 ELSE -1]
    /\ now = 0 /\ ops = 0

(***************************************************************************)
(* The URL cache: a time to live, and the least recently used goes first.  *)
(***************************************************************************)
Key(m, stream) == <<mgr[m].pw, stream>>

\* A key has one entry at most.
Without(key) ==
    LET at == {i \in DOMAIN cache : cache[i].key = key}
    IN  IF at = {} THEN cache ELSE RemoveAt(cache, CHOOSE i \in at : TRUE)
EntryOf(key) == {e \in Range(cache) : e.key = key}

\* Mutant: an expired entry is used.
FreshAlways(e) == TRUE

Fresh(e) == e.expires > now

Touched(e) == Append(Without(e.key), e)

Kept(e) ==
    LET all == Touched(e)
    IN  IF Len(all) > MaxEntries THEN Tail(all) ELSE all

(***************************************************************************)
(* snapshot_attempt: the legs and their order.                             *)
(***************************************************************************)
Leg(name, if) == IF if THEN <<name>> ELSE <<>>

\* Mutant: a login under a deadline.
MayUseSessionAlways(m, timed) == TRUE

\* Under a deadline only a session the manager already holds.
MayUseSession(m, timed) == ~ timed \/ mgr[m].session # None

\* Mutant: the cheapest leg first, whatever stream is wanted.
CheapestFirst(m, main, rtsp, fallback, timed) ==
    Leg("webapi", ~ mgr[m].nat) \o Leg("rtsp", rtsp) \o
    (IF ~ fallback THEN <<>>
     ELSE IF mgr[m].backend = "netsdk"
     THEN Leg("keyframe", main /\ MayUseSession(m, timed)) \o Leg("netsdk", ~ timed)
     ELSE <<"http">>)

Legs(m, main, rtsp, fallback, timed) ==
    Leg("webapi", ~ main /\ ~ mgr[m].nat) \o Leg("rtsp", rtsp) \o
    (IF ~ fallback THEN <<>>
     ELSE IF mgr[m].backend = "netsdk"
     THEN Leg("keyframe", main /\ MayUseSession(m, timed)) \o
          Leg("webapi", main /\ ~ mgr[m].nat) \o Leg("netsdk", ~ timed)
     ELSE Leg("webapi", main /\ ~ mgr[m].nat) \o <<"http">>)

Snapshot(m) ==
    /\ op[m].legs = <<>> /\ ops < MaxOps /\ ops' = ops + 1
    /\ \E main, rtsp, fallback, timed \in BOOLEAN :
         op' = [op EXCEPT ![m] = [Idle EXCEPT !.kind = "snapshot", !.main = main, !.rtsp = rtsp, !.timed = timed,
                                              !.fallback = fallback, !.held = mgr[m].session # None,
                                              !.legs = Legs(m, main, rtsp, fallback, timed)]]
    /\ UNCHANGED <<mgr, cache, sdk, camera, last, now>>

\* The other operations are one call, of the session or of the bridge.
Command(m) ==
    /\ op[m].legs = <<>> /\ ops < MaxOps /\ ops' = ops + 1
    /\ op' = [op EXCEPT ![m] = [Idle EXCEPT !.kind = "command", !.legs = <<"command">>]]
    /\ UNCHANGED <<mgr, cache, sdk, camera, last, now>>

On(m, leg) == op[m].legs # <<>> /\ Head(op[m].legs) = leg
NextLeg(o) ==
    IF Len(o.legs) = 1 THEN Idle
    ELSE [o EXCEPT !.legs = Tail(@), !.phase = "leg", !.url = None, !.tried = @ \cup {Head(o.legs)}]
Failed(m) == op' = [op EXCEPT ![m] = NextLeg(@)]
Shown(m, image) ==
    op' = [op EXCEPT ![m] = [Idle EXCEPT !.kind = op[m].kind, !.main = op[m].main, !.rtsp = op[m].rtsp,
                                         !.timed = op[m].timed, !.held = op[m].held, !.tried = op[m].tried, !.got = image]]

\* The deadline passes: only the RTSP leg begins after it, or, when it passed the
\* last look at it, what is left but the web API.
Expire(m) ==
    /\ op[m].legs # <<>> /\ op[m].timed /\ ~ op[m].late
    /\ LET rest == op[m].legs
           untimed == Leg("keyframe", "keyframe" \in Range(rest)) \o Leg("http", "http" \in Range(rest))
       IN  \E legs \in (IF "rtsp" \in Range(rest) THEN {<<"rtsp">>} ELSE {<<>>, untimed}) :
             op' = [op EXCEPT ![m].late = TRUE, ![m].legs = legs,
                                ![m].phase = IF Len(legs) > 0 /\ Head(legs) = Head(rest) THEN @ ELSE "leg"]
    /\ UNCHANGED <<mgr, cache, sdk, camera, last, now, ops>>

\* One GET of the device's own web API: the stream configured for snapshots.
WebApi(m) ==
    /\ On(m, "webapi")
    /\ Shown(m, "small") \/ Failed(m)
    /\ UNCHANGED <<mgr, cache, sdk, camera, last, now, ops>>

\* The bridge answers with success or failure, or with nothing the client can
\* read; whoever asks takes all but the first for a failure.
Answers == {"success", "failure", "raises"}

Bridge(m) ==
    /\ On(m, "http")
    /\ \E a \in Answers : IF a = "success" THEN Shown(m, "small") ELSE Failed(m)
    /\ UNCHANGED <<mgr, cache, sdk, camera, last, now, ops>>

BridgeCommand(m) ==
    /\ On(m, "command") /\ mgr[m].backend = "bridge"
    /\ \E a \in Answers : IF a = "success" THEN Shown(m, "small") ELSE Failed(m)
    /\ UNCHANGED <<mgr, cache, sdk, camera, last, now, ops>>

(***************************************************************************)
(* The RTSP leg: a URL, from the cache, the recorder or the back end, then a *)
(* frame.                                                                   *)
(***************************************************************************)
Resolve(m) ==
    /\ On(m, "rtsp") /\ op[m].phase = "leg"
    /\ LET key == Key(m, IF op[m].main THEN "main" ELSE "sub")
           hits == {e \in EntryOf(key) : Fresh(e)}
           Use(url) == op' = [op EXCEPT ![m].url = url, ![m].phase = "grab"]
           e(cam) == [key |-> key, cam |-> cam, pw |-> mgr[m].pw, expires |-> now + Ttl]
       IN  \/ /\ mgr[m].ip /\ mgr[m].direct
              /\ Use([cam |-> "own", pw |-> mgr[m].pw]) /\ UNCHANGED cache
           \/ /\ mgr[m].ip /\ ~ mgr[m].direct /\ hits # {}
              /\ \E h \in hits : Use([cam |-> h.cam, pw |-> h.pw]) /\ cache' = Touched(h)
           \/ /\ mgr[m].ip /\ ~ mgr[m].direct /\ hits = {}
              /\ \E cam \in {camera, "relay"} :
                   Use([cam |-> cam, pw |-> mgr[m].pw]) /\ cache' = IF Ttl > 0 THEN Kept(e(cam)) ELSE cache
           \/ \* not resolved: the back end is asked, but not under a deadline
              /\ ~ (mgr[m].ip /\ mgr[m].direct)
              /\ (mgr[m].ip => hits = {})
              /\ IF op[m].timed \/ ~ op[m].fallback THEN Failed(m)
                 ELSE op' = [op EXCEPT ![m].phase = "ask"]
              /\ cache' = IF mgr[m].ip THEN Without(key) ELSE cache
    /\ UNCHANGED <<mgr, sdk, camera, last, now, ops>>

\* rtsp_url of the back end: NET_SDK_GetRtspUrl in a session, or the bridge.
AskBackend(m) ==
    /\ On(m, "rtsp") /\ op[m].phase = "ask"
    /\ mgr[m].backend = "netsdk" => mgr[m].session # None
    /\ \/ op' = [op EXCEPT ![m].url = [cam |-> "relay", pw |-> mgr[m].pw], ![m].phase = "grab"]
       \/ Failed(m)
    /\ UNCHANGED <<mgr, cache, sdk, camera, last, now, ops>>

\* One frame by ffmpeg; a URL that shows none leaves the cache.
Grab(m) ==
    /\ On(m, "rtsp") /\ op[m].phase = "grab"
    /\ LET key == Key(m, IF op[m].main THEN "main" ELSE "sub")
       IN  IF op[m].late THEN Failed(m) /\ UNCHANGED cache
           ELSE \/ Shown(m, "full") /\ UNCHANGED cache
                \/ /\ Failed(m)
                   /\ cache' = Without(key)
    /\ UNCHANGED <<mgr, sdk, camera, last, now, ops>>

(***************************************************************************)
(* Sessions.  The first leg that needs one makes a client and logs in; a NAT *)
(* login has its own timeout, set for the process and set back, and falls    *)
(* back to a direct login.                                                   *)
(***************************************************************************)
NeedsSession(m) ==
    /\ mgr[m].backend = "netsdk" /\ mgr[m].session = None
    /\ \/ op[m].legs # <<>> /\ Head(op[m].legs) \in {"keyframe", "netsdk", "command"}
       \/ On(m, "rtsp") /\ op[m].phase = "ask"

LoginBegin(m) ==
    /\ NeedsSession(m) /\ op[m].phase \in {"leg", "ask"}
    /\ sdk' = [clients |-> sdk.clients \cup {m}, timeout |-> IF mgr[m].nat THEN m ELSE sdk.timeout]
    /\ op' = [op EXCEPT ![m].phase = IF mgr[m].nat THEN "nat" ELSE "direct"]
    /\ UNCHANGED <<mgr, cache, camera, last, now, ops>>

\* Mutant: the timeout is set back after a login that worked.
RestoredIfOk(ok, timeout) == IF ok THEN Default ELSE timeout

Restored(ok, timeout) == Default

Resume(m) == IF On(m, "rtsp") THEN "ask" ELSE "leg"

\* NET_SDK_Login or NET_SDK_LoginEx gave a handle.
LoggedIn(m) ==
    /\ mgr' = [mgr EXCEPT ![m].session = op[m].phase]
    /\ op' = [op EXCEPT ![m].phase = Resume(m)]

LoginEnd(m) ==
    /\ op[m].phase \in {"nat", "direct"}
    /\ \E ok \in BOOLEAN :
         /\ sdk' = [sdk EXCEPT !.timeout = IF op[m].phase = "nat" THEN Restored(ok, @) ELSE @]
         /\ IF ok THEN LoggedIn(m)
            ELSE /\ UNCHANGED mgr
                 /\ IF op[m].phase = "nat" /\ mgr[m].ip THEN op' = [op EXCEPT ![m].phase = "direct"]
                    ELSE Failed(m)
    /\ UNCHANGED <<cache, camera, last, now, ops>>

\* The single shot of the SDK, the keyframe of a preview, or another call.
InSession(m) ==
    /\ mgr[m].session # None /\ op[m].phase = "leg"
    /\ \/ /\ op[m].legs # <<>> /\ Head(op[m].legs) \in {"netsdk", "command"}
          /\ \/ Shown(m, "small")
             \/ Failed(m)
       \/ /\ On(m, "keyframe")
          /\ \/ Shown(m, "full")
             \/ Failed(m)
    /\ UNCHANGED <<mgr, cache, sdk, camera, last, now, ops>>

\* close: log out, and only if that did not raise clean up the client.
Close(m) ==
    /\ op[m].legs = <<>> /\ mgr[m].session # None
    /\ mgr' = [mgr EXCEPT ![m].session = None]
    /\ \E ok \in BOOLEAN : sdk' = IF ok THEN [sdk EXCEPT !.clients = @ \ {m}] ELSE sdk
    /\ UNCHANGED <<op, cache, camera, last, now, ops>>

(***************************************************************************)
(* The world: time, and the camera behind the channel.                     *)
(***************************************************************************)
Tick ==
    /\ now < MaxTime /\ now' = now + 1
    /\ last' = [last EXCEPT ![camera] = now + 1]
    /\ UNCHANGED <<mgr, op, cache, sdk, camera, ops>>

Replace ==
    /\ \E c \in Camera : camera' = c /\ c # camera /\ last' = [last EXCEPT ![c] = now]
    /\ UNCHANGED <<mgr, op, cache, sdk, now, ops>>

Begin(m) == Snapshot(m) \/ Command(m) \/ Close(m) \/ Expire(m)
Rtsp(m) == Resolve(m) \/ AskBackend(m) \/ Grab(m)
Native(m) == LoginBegin(m) \/ LoginEnd(m) \/ InSession(m)
Next == \/ \E m \in Manager : Begin(m) \/ Rtsp(m) \/ Native(m) \/ WebApi(m) \/ Bridge(m) \/ BridgeCommand(m)
        \/ Tick \/ Replace

Spec == Init /\ [][Next]_vars

(***************************************************************************)
(* Properties.                                                             *)
(***************************************************************************)
TypeOK ==
    /\ \A m \in Manager : mgr[m].session \in {None, "nat", "direct"} /\ op[m].phase \in {"leg", "grab", "ask", "nat", "direct"}
    /\ Len(cache) <= MaxEntries /\ sdk.clients \subseteq Manager

\* "Main-stream intent is a resolution contract, not a hint": a small picture of
\* the main stream is shown only after the full ones were tried: RTSP wherever the
\* caller asks for it, whatever the back end and the deadline, and the key frame of
\* the SDK, under a deadline on the session that the manager held when it began.
\* The bridge has no key frame.
FullResolutionFirst ==
    \A m \in Manager :
      LET o == op[m]
      IN  o.kind = "snapshot" /\ o.main /\ o.got = "small" =>
            /\ o.rtsp => "rtsp" \in o.tried
            /\ mgr[m].backend = "netsdk" /\ (~ o.timed \/ o.held) => "keyframe" \in o.tried

\* A fresh login of the SDK takes unbounded time: none begins under a deadline.
NoLoginUnderDeadline ==
    [][\A m \in Manager : op[m].legs # <<>> /\ op[m].timed =>
         mgr'[m].session = mgr[m].session /\ op'[m].phase \notin {"nat", "direct"}]_vars

\* A URL shows a camera that is behind the channel or was within the time to live,
\* and carries the password of the manager that uses it.
UrlsAreCurrent ==
    [][\A m \in Manager : op[m].url = None /\ op'[m].url # None =>
         LET url == op'[m].url
         IN  /\ url.pw = mgr[m].pw
             /\ url.cam \in Camera => url.cam = camera \/ now - last[url.cam] < Ttl]_vars

\* The timeout of the process is its default whenever nobody logs in through NAT.
TimeoutRestored ==
    TypeOK /\ ((\A m \in Manager : op[m].phase # "nat") => sdk.timeout = Default)
=============================================================================
