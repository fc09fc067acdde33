--------------------------- MODULE ManagementClient ---------------------------
(* ManagementClient (platform_sdk/client.py): the façade over the back ends of
   the management server.  The back end is chosen by backend_mode, logged in,
   and frozen until close; here it is one of the PlatformSDK (PlatformSession), the
   web API (WebPlatform), NET_SDK (SdkSession), the bridge command of a sidecar
   or the native protocol, which implements nothing.                          *)
EXTENDS PlatformSession, WebPlatform, SdkSession

CONSTANTS Modes    \* the values of backend_mode that are tried

BackendMode == {"platform_sdk", "web", "native_linux_sdk", "sidecar", "native_protocol", "auto"}

ASSUME ModesAssumption == Modes \subseteq BackendMode /\ None \notin BackendMode

VARIABLES
    mode,       \* backend_mode
    backend,    \* _backend: the back end in use, or None
    bridge      \* the sidecar: is its session open, and does the client know

facadeVars == <<mode, backend, bridge>>
allVars == <<vars, webVars, sdkVars, facadeVars>>

\* _select_backend: auto takes the SDK if its library is ready, else the native
\* protocol.
Selected ==
    IF mode = "auto" THEN IF Ready(lib) THEN "native_linux_sdk" ELSE "native_protocol" ELSE mode

MInit ==
    /\ mode \in Modes /\ SdkInit
    /\ mode # "auto" => lib = CHOOSE l \in Library : TRUE
    /\ backend = None /\ bridge = [open |-> FALSE, known |-> FALSE]
    /\ IF Selected = "platform_sdk" THEN Init
       ELSE Init /\ real = [n \in Node |-> "absent"]
    /\ IF Selected = "web" THEN WebInit
       ELSE /\ WebInit /\ members = [a \in Area |-> {}] /\ channels = [c \in Channel |-> "absent"]

(***************************************************************************)
(* login and close.  login closes the session there is before it selects a *)
(* back end, and keeps the back end only if its login returned true.       *)
(***************************************************************************)
\* Mutant: the session there is stays open.
MayLogInAnyway == TRUE

MayLogIn == backend = None

Platform == Selected = "platform_sdk" /\ UNCHANGED <<webVars, sdkVars, mode, bridge>>
Web == Selected = "web" /\ UNCHANGED <<vars, sdkVars, mode, bridge>>
NetSdk == Selected = "native_linux_sdk" /\ UNCHANGED <<vars, webVars, mode, bridge>>
Sidecar == Selected = "sidecar" /\ UNCHANGED <<vars, webVars, sdkVars, mode>>

LoginPlatform ==
    /\ Platform
    /\ \/ MayLogIn /\ (\E c \in Client : LoginBegin(c)) /\ UNCHANGED backend
       \/ (SetCallback \/ SendLogin \/ LoginOutcome \/ LoginFails) /\ UNCHANGED backend
       \/ LoginEnd /\ backend' = Selected

LoginWeb ==
    /\ Web /\ MayLogIn /\ WebLogin
    /\ backend' = IF session' = "live" THEN Selected ELSE None

LoginSdk == NetSdk /\ MayLogIn /\ (\E h \in Handle : SdkLogin(h)) /\ backend' = Selected

\* The bridge is a command run once per call: its session may be open although
\* its answer was none, or no JSON, and then login raises.
LoginSidecar ==
    /\ Sidecar /\ MayLogIn
    /\ \E open, answer \in BOOLEAN :
         /\ answer => open
         /\ bridge' = [open |-> bridge.open \/ open, known |-> answer]
         /\ backend' = IF answer THEN Selected ELSE None

Close ==
    /\ backend # None /\ backend' = None
    /\ \/ Platform /\ CloseBackend
       \/ Web /\ WebClose
       \/ NetSdk /\ SdkClose
       \/ /\ Sidecar
          /\ \E out \in BOOLEAN : bridge' = [open |-> bridge.open /\ ~ out, known |-> FALSE]

(***************************************************************************)
(* Operations: _require_backend, then the method of the back end, or        *)
(* CapabilityNotAvailable when it has none.  What does not reach the back   *)
(* end changes nothing.                                                     *)
(***************************************************************************)
\* The operations every back end has, though most raise for most of them.
CommonCall ==
    \/ Platform /\ ReadDevices
    \/ Web /\ WebRead
    \/ NetSdk /\ \E a \in Alarm : SubscribeAlarms(a)
    \/ NetSdk /\ \E p \in {"enumerate", "status"} : Query(p)

\* The operations of some back ends only, passed through by _platform_call.
PlatformCall ==
    \/ Platform /\ Inventory
    \/ Web /\ WebRows

Operate ==
    /\ backend # None /\ UNCHANGED backend
    /\ CommonCall \/ PlatformCall

\* What goes on without the client: the SDK's thread and the servers, and alarm
\* subscriptions the application closes when it likes.
Elsewhere ==
    /\ UNCHANGED backend
    /\ \/ Platform /\ World
       \/ Web /\ (EditDevices \/ EditChannels)
       \/ NetSdk /\ \E a \in Alarm : CloseAlarm(a)

MNext == LoginPlatform \/ LoginWeb \/ LoginSdk \/ LoginSidecar \/ Close \/ Operate \/ Elsewhere

MSpec == MInit /\ [][MNext]_allVars

(***************************************************************************)
(* Properties.                                                             *)
(***************************************************************************)
\* A client is authenticated only by the answer to its own login, although the
\* callback is one for the process and looks at no login id.  Of a process in which an
\* earlier client left a session behind this is not so: the answer to that one's login
\* may come late, and is then taken for the answer to the login that is running.
AuthIsOwn == left = {} => \A c \in Client : obj[c].auth => plat[c] = "in"

\* Every session that was opened and not closed is one the client would close, that of
\* the back end in use or of the login that is running, or one that it tried to log out
\* and could not; in the PlatformSDK also the uninitialisation failed then.
SessionsHeld ==
    /\ TypeOK /\ AuthIsOwn /\ ThunkAlive
    /\ \A c \in Client : plat[c] = "in" => c \in {active, new} \cup left
    /\ left # {} => stuck
    /\ live \subseteq {client.handle} \cup lost
=============================================================================
