------------------------------- MODULE IpModify -------------------------------
(* The readdressing of a device on the LAN (device_sdk/ip_modify.py) as the
   command pytvt sdk runs it: scan-match, modify-ip, dry or not, and verify-ip,
   and modify_device_ip_by_ip of the API.  Each command is a process of its own.

   Native calls of the NET_CLIENT library can hang.  A call runs in a thread that
   a watchdog abandons; until the process ends the abandoned call may still
   return, and take effect.  The NET_SDK path has no watchdog.

   A library is the set of what it exports.  External is what the library, the
   LAN and the devices do: whether a request that is accepted moves the device, or
   one that is not (it may fail for want of the device's answer, after the device
   took it), which devices a scan hears, and in which order.                  *)
EXTENDS Integers

CONSTANTS Libraries,  \* the libraries a process may find; {} is no library
          Systems     \* "linux", "darwin", and "enabled": darwin with the opt-in

\* The device the commands name, by its mac or its old address, and another one.
Device  == {"target", "other"}
Address == {"old", "new", "else"}

VARIABLES commands,  \* how many commands are still to come: a bound
          lib, os,   \* the library and the system
          address,   \* of each device
          cmd,       \* the command, or modify_device_ip_by_ip
          at,        \* the step it is at
          client,    \* the runtime of NET_CLIENT: "down", "initialised", "started"
          lifecycle, \* lifecycle_ok
          abandoned, \* native calls a watchdog gave up
          accepted,  \* a request of this command has been accepted
          stops,     \* the calls that stop the runtime it has made
          report     \* what the command says

modifyVars == <<commands, lib, os, address, cmd, at, client, lifecycle, abandoned,
                accepted, stops, report>>
place == <<commands, lib, os, cmd>>

NoReport == [success |-> FALSE, match |-> "none", verified |-> FALSE, exit |-> 1]
Requests == {"buffer", "observer"}

ModifyInit(n) ==
    /\ commands = n
    /\ lib \in Libraries /\ os \in Systems
    /\ address \in [Device -> Address] /\ address["target"] # "new"
    /\ cmd = "none" /\ at = "end"
    /\ client = "down" /\ lifecycle = FALSE /\ abandoned = {} /\ accepted = FALSE
    /\ stops = {} /\ report = NoReport

\* A new process has nothing of the one before it.
Command ==
    /\ at = "end" /\ commands > 0
    /\ commands' = commands - 1
    /\ cmd' \in {"scan-match", "modify-ip", "dry-run", "verify-ip", "modify-by-ip"}
    /\ at' = IF cmd' \in {"modify-ip", "modify-by-ip"} THEN "load" ELSE "scan"
    /\ client' = "down" /\ lifecycle' = FALSE /\ abandoned' = {} /\ accepted' = FALSE
    /\ stops' = {} /\ report' = NoReport
    /\ UNCHANGED <<lib, os, address>>

Goes(step) == at' = step /\ UNCHANGED place
Quiet      == UNCHANGED <<address, client, lifecycle, abandoned, accepted, stops>>
Ends(r)    == report' = r /\ Goes("end")
Fails      == Ends(NoReport)
Goes2(step) == Goes(step) /\ UNCHANGED report

(***************************************************************************)
(* Loading: _load_modify_capability, bind_device_ip_modify                  *)
(***************************************************************************)
CanModify == lib \cap ({"set_ip", "modify_info"} \cup Requests) # {}
UsesSdk   == cmd = "modify-ip" /\ "sdk_init" \in lib
UsesRuntime == "start" \in lib

\* The library cannot be loaded or exports no way to modify: an exception.
\* Otherwise the NET_SDK path, or that of NET_CLIENT with its runtime, which is
\* refused on macOS unless it was opted into.
Load ==
    /\ at = "load"
    /\ Quiet
    /\ \/ ~ CanModify /\ Fails
       \/ CanModify /\ UsesSdk /\ Goes2("sdk")
       \/ CanModify /\ ~ UsesSdk /\ UsesRuntime /\ os = "darwin" /\ Fails
       \/ CanModify /\ ~ UsesSdk /\ UsesRuntime /\ os # "darwin"
            /\ (IF "initial" \in lib THEN Goes2("initial") ELSE Fails)
       \/ CanModify /\ ~ UsesSdk /\ ~ UsesRuntime /\ Goes2("buffer")

\* What the library does with a request: it names the device by its mac, or by the
\* address, and may move the device or not whatever it returns.
Named(d) == IF cmd = "modify-by-ip" THEN address[d] = "old" ELSE d = "target"
Moves == \/ UNCHANGED address
         \/ address' = [d \in Device |-> IF Named(d) THEN "new" ELSE address[d]]

\* NetSdkClient and set_device_ip_by_mac: init, the request, cleanup.  A library that
\* has only the requests of NET_CLIENT besides refuses here.
Sdk ==
    /\ at = "sdk"
    /\ UNCHANGED <<client, lifecycle, abandoned, stops>>
    /\ \/ Fails /\ UNCHANGED <<address, accepted>>
       \/ /\ lib \cap {"set_ip", "modify_info"} # {}
          /\ Moves
          /\ \/ Fails /\ UNCHANGED accepted
             \/ /\ accepted' = TRUE
                /\ report' = [report EXCEPT !.success = TRUE]
                /\ Goes("scan")

(***************************************************************************)
(* The NET_CLIENT path: _sdk_call_with_watchdog around each call            *)
(***************************************************************************)
\* What a call does to the runtime when it succeeds.
RuntimeAfter(native) ==
    CASE native = "initial" -> "initialised" [] native = "start" -> "started"
      [] native = "stop" -> "initialised" [] native = "quit" -> "down" [] OTHER -> client

Takes(native) == /\ client' = RuntimeAfter(native)
                 /\ IF native \in Requests THEN Moves ELSE UNCHANGED address
Abandon(native) == abandoned' = abandoned \cup {native}

\* _netclient_lifecycle_start: false, an OSError and a hang end the command; what was
\* initialised is not quit.
Initial ==
    /\ at = "initial"
    /\ UNCHANGED <<lifecycle, accepted, stops>>
    /\ \/ Takes("initial") /\ Goes2("start") /\ UNCHANGED abandoned
       \/ Fails /\ UNCHANGED <<address, client, abandoned>>
       \/ Fails /\ Abandon("initial") /\ UNCHANGED <<address, client>>

Start ==
    /\ at = "start"
    /\ UNCHANGED <<accepted, stops>>
    /\ \/ Takes("start") /\ lifecycle' = TRUE /\ Goes2("buffer") /\ UNCHANGED abandoned
       \/ Fails /\ UNCHANGED <<address, client, lifecycle, abandoned>>
       \/ Fails /\ Abandon("start") /\ UNCHANGED <<address, client, lifecycle>>

\* The finally of _invoke_netclient_modify.
Finally == IF lifecycle THEN "stop" ELSE "result"

\* A request that hangs may have been carried out, so there is no second one.
TriesObserver == "observer"  \* mutant
AfterHang == Finally

\* One of the two overloads, if it is exported: accepted, refused, an OSError, which
\* leaves through the finally as well, or hung.  One that was refused is followed by
\* the other overload, although the device may have moved.
Request(native, next) ==
    /\ UNCHANGED <<lifecycle, stops>>
    /\ \/ native \notin lib /\ Goes2(next) /\ UNCHANGED <<address, client, abandoned, accepted>>
       \/ /\ native \in lib
          /\ Takes(native) /\ UNCHANGED abandoned
          /\ \/ accepted' = TRUE /\ report' = [report EXCEPT !.success = TRUE] /\ Goes(Finally)
             \/ accepted' = accepted /\ \E step \in {next, Finally} : Goes2(step)
       \/ native \in lib /\ Abandon(native) /\ Goes2(AfterHang) /\ UNCHANGED <<address, client, accepted>>

Buffer   == at = "buffer" /\ Request("buffer", "observer")
Observer == at = "observer" /\ Request("observer", Finally)

\* _netclient_lifecycle_stop: stop, then quit, as far as they are exported; what fails
\* or hangs is ignored.
StopRuntime(native, next) ==
    /\ at = native
    /\ UNCHANGED <<lifecycle, accepted>>
    /\ Goes2(next)
    /\ \/ native \notin lib /\ UNCHANGED <<address, client, abandoned, stops>>
       \/ /\ native \in lib /\ stops' = stops \cup {native}
          /\ \/ Takes(native) /\ UNCHANGED abandoned
             \/ UNCHANGED <<address, client, abandoned>>
             \/ Abandon(native) /\ UNCHANGED <<address, client>>

Stop == StopRuntime("stop", "quit")
Quit == StopRuntime("quit", "result")

\* An abandoned call returns after all.
Returns(native) ==
    /\ native \in abandoned
    /\ abandoned' = abandoned \ {native}
    /\ Takes(native)
    /\ UNCHANGED <<place, at, lifecycle, accepted, stops, report>>

\* modify-ip that did not succeed is not verified.
Result ==
    /\ at = "result"
    /\ Quiet
    /\ IF report.success /\ cmd = "modify-ip" THEN Goes2("scan")
       ELSE Ends([report EXCEPT !.exit = IF report.success THEN 0 ELSE 1])

(***************************************************************************)
(* Scanning: _scan_match_by_mac_or_ip and its callers                       *)
(***************************************************************************)
\* The address looked for besides the mac; scan-match may be given none.
Looked == CASE cmd \in {"modify-ip", "verify-ip"} -> {"new"}
            [] cmd = "dry-run" -> {"old"} [] OTHER -> {"old", "nowhere"}

Matches(d, ip) == d = "target" \/ address[d] = ip

\* verify_device_ip_after_modify: the match has the mac and the new address.
ConfirmsAddress(d) == d # "none" /\ address[d] = "new"  \* mutant
Confirms(d) == d # "none" /\ d = "target" /\ address[d] = "new"

\* The exit status of sdk_cli.
ReportOf(d) ==
    LET ok == CASE cmd = "scan-match" -> d # "none"
                [] cmd = "dry-run" -> d # "none"
                [] OTHER -> Confirms(d)
    IN  [report EXCEPT !.match = d, !.verified = cmd \in {"modify-ip", "verify-ip"} /\ Confirms(d),
                       !.exit = IF ok THEN 0 ELSE 1]

\* The first device of the answer that has the mac or the address; without discovery,
\* and when it fails, there is none.
Scan ==
    /\ at = "scan"
    /\ Quiet
    /\ \E d \in Device \cup {"none"} :
          /\ d # "none" => "discover" \in lib /\ \E ip \in Looked : Matches(d, ip)
          /\ Ends(ReportOf(d))

ModifyNext == \/ Command \/ Load \/ Sdk \/ Initial \/ Start \/ Buffer \/ Observer \/ Stop \/ Quit
              \/ (\E native \in abandoned : Returns(native)) \/ Result \/ Scan

(***************************************************************************)
(* Properties                                                               *)
(***************************************************************************)
\* While a request that was given up may still be carried out no second one is made.
\* (One that returned false may have been carried out, and is followed by a second.)
OneRequest ==
    /\ Requests \cap abandoned # {} => at \notin Requests
    /\ \A c, d \in Requests \cap abandoned : c = d

\* "Must run exactly once before any NET_CLIENT_* request call": where the library has
\* a runtime, a request is made while it is up, and nothing has stopped it.
RuntimeUp == at \in Requests /\ "start" \in lib => client = "started" /\ stops = {}

\* A runtime whose start returned is let go by whatever the library exports for that,
\* quit after stop, however the request ends.  (A start that was given up and takes
\* effect later is not: it ends with the process.)
RuntimeLetGo ==
    /\ at = "end" /\ lifecycle => {"stop", "quit"} \cap lib \subseteq stops
    /\ "quit" \in stops /\ "stop" \in lib => "stop" \in stops

\* The native calls of _invoke_netclient_modify come in their order, although any of
\* them may be abandoned and return later.
NativeCallsOrdered == OneRequest /\ RuntimeUp /\ RuntimeLetGo

\* A command that says it has moved the device had its request accepted, and one that
\* verified it has seen the device of that mac, not another one, at the address.
ModifiedTruly ==
    at = "end" =>
      /\ report.success => accepted
      /\ report.verified => address["target"] = "new"
      /\ cmd = "modify-ip" /\ report.exit = 0 => report.success /\ report.verified
=============================================================================
