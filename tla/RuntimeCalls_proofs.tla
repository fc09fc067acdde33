---------------------------- MODULE RuntimeCalls_proofs ------------------------
(* The native calls of a readdressing, the exchange with the runtime and the delivery
   of a stream through it keep their promises for every library, system, set of calls,
   limit and number of commands, and for every number of events.

   Readdressing.  No call is given up before the last request, and one request at most
   (OneAtMost); what was started is stopped on every way to the result (Stopping), no
   request is made before the start or after a stop (Ordered); the report is true of
   the device even while calls that were given up return (Told).

   The exchange.  The client's deadline stays Grace behind that of the operation, and
   reaping takes less (Timely), so the typed answer is always first; what is received
   stays within the line and the limit (Within).

   Inventories.  A walk up a tree of resources ends after as many steps as there are
   nodes, at its goal or where there is none above (WalkSays); so a device has one
   site, and an inventory that reaches the caller is that of a list (InventoryInv).

   Delivery.  Acknowledgements, awaited or late, are of events that were stored, and
   what the application holds is what the proxy has pending (AcksAreOfStored,
   HeldIsPending).  Beside a calm runtime a careful application knows what is retained
   (KnowsRetained), so its close never throws a delivery away.                 *)
EXTENDS BoundedCalls, RuntimePlateStream, FiniteSetTheorems, TLAPS

(***************************************************************************)
(* Readdressing                                                             *)
(***************************************************************************)

Commands == {"none", "scan-match", "modify-ip", "dry-run", "verify-ip", "modify-by-ip"}
Before   == {"load", "sdk", "initial", "start", "buffer", "observer"}
After    == {"result", "scan", "end"}

Reported == [success : BOOLEAN, match : Device \cup {"none"}, verified : BOOLEAN, exit : 0..1]

Typed == /\ cmd \in Commands /\ at \in Before \cup {"stop", "quit"} \cup After
         /\ address \in [Device -> Address] /\ report \in Reported /\ lifecycle \in BOOLEAN

\* No call is abandoned before the last request was made.
OneAtMost == /\ at \in Before => abandoned = {}
             /\ Requests \cap abandoned \in {{}, {"buffer"}, {"observer"}}

\* What was started is stopped on the way to the result.
Stopping == lifecycle => \/ at \in {"buffer", "observer", "stop", "quit"}
                         \/ at \in After /\ {"stop", "quit"} \cap lib \subseteq stops

\* The start comes before the requests and these before the stop.
Ordered == /\ at \in Before \cup {"stop"} => stops = {}
           /\ at = "quit" \/ "quit" \in stops => {"stop"} \cap lib \subseteq stops
           /\ at \in Requests /\ "start" \in lib => client = "started"

\* The report is true; a device that was moved stays where it is.
Told == /\ report.success => accepted
        /\ report.verified => address["target"] = "new"
        /\ cmd = "modify-ip" /\ at = "scan" => report.success
        /\ cmd = "modify-ip" /\ report.exit = 0 => report.success /\ report.verified

IInv == Typed /\ OneAtMost /\ Stopping /\ Ordered /\ Told

\* A request that is carried out takes no device from its new address.
LEMMA NewStays ==
  ASSUME address \in [Device -> Address], Moves
  PROVE  /\ address' \in [Device -> Address]
         /\ address["target"] = "new" => address'["target"] = "new"
<1>1. CASE address' = address
  BY <1>1
<1>2. CASE address' = [d \in Device |-> IF Named(d) THEN "new" ELSE address[d]]
  BY <1>2 DEF Device, Address
<1> QED BY <1>1, <1>2 DEF Moves

\* Whatever the call, it takes no device from its new address.
LEMMA TakesStays ==
  ASSUME address \in [Device -> Address], NEW native, Takes(native)
  PROVE  /\ address' \in [Device -> Address]
         /\ address["target"] = "new" => address'["target"] = "new"
<1>1. Moves \/ address' = address
  BY DEF Takes
<1> QED BY <1>1, NewStays

\* A step that keeps the report and the command.
LEMMA ToldKeeps ==
  ASSUME Told, UNCHANGED <<cmd, report>>, accepted => accepted',
         address["target"] = "new" => address'["target"] = "new",
         at' = "scan" => cmd # "modify-ip" \/ report.success
  PROVE  Told'
BY DEF Told

\* A command starts with nothing to report.
LEMMA NothingReported == NoReport \in Reported
BY DEF NoReport, Reported

\* The invariant holds before the first command.
LEMMA ModifyStarts ==
  ASSUME NEW n, ModifyInit(n)
  PROVE  IInv
<1> USE DEF ModifyInit
<1>1. Typed
  BY NothingReported DEF Typed, Commands, Before, After
<1>2. OneAtMost
  BY DEF OneAtMost, Before, Requests
<1>3. Stopping /\ Told
  BY DEF Stopping, Told, NoReport
<1>4. Ordered
  BY DEF Ordered, Before, Requests
<1> QED BY <1>1, <1>2, <1>3, <1>4 DEF IInv

\* A new process has nothing of the one before it.
LEMMA CommandStep ==
  ASSUME IInv, Command
  PROVE  IInv'
<1> USE DEF Command
<1>1. Typed'
  BY NothingReported DEF IInv, Typed, Commands, Before, After
<1>2. OneAtMost'
  BY DEF OneAtMost, Before, Requests
<1>3. Stopping' /\ Told'
  BY DEF Stopping, Told, NoReport
<1>4. Ordered'
  BY DEF Ordered, Requests
<1> QED BY <1>1, <1>2, <1>3, <1>4 DEF IInv

\* A step that leaves the abandoned calls alone and goes on, or gives up for good.
LEMMA Failing ==
  ASSUME IInv, Fails, ~ lifecycle', lifecycle' \in BOOLEAN, stops' = stops,
         address' \in [Device -> Address], Requests \cap abandoned' = {}
  PROVE  IInv'
<1> USE DEF Fails, Ends, Goes, place
<1>0. cmd' = cmd /\ at' = "end" /\ report' = NoReport
  OBVIOUS
<1>1. Typed'
  BY <1>0, NothingReported DEF IInv, Typed, After
<1>2. OneAtMost'
  BY DEF OneAtMost, Before
<1>3. Stopping' /\ Told'
  BY DEF Stopping, Told, NoReport, After
<1>4. Ordered'
  BY DEF IInv, Ordered, Before, Requests
<1> QED BY <1>1, <1>2, <1>3, <1>4 DEF IInv

\* Before the runtime is started there is nothing to stop, and no request was made.
LEMMA Early ==
  ASSUME IInv
  PROVE  /\ at \in Before => abandoned = {} /\ stops = {} /\ Requests \cap abandoned = {}
         /\ at \in {"load", "sdk", "initial", "start"} => ~ lifecycle
         /\ lifecycle \in BOOLEAN /\ address \in [Device -> Address]
BY DEF IInv, OneAtMost, Stopping, Ordered, After, Typed

\* The library is loaded, or the command ends.
LEMMA LoadStep ==
  ASSUME IInv, Load
  PROVE  IInv'
<1>0. at = "load" /\ Quiet
  BY DEF Load
<1>1. Fails \/ Goes2("sdk") \/ Goes2("initial") \/ ("start" \notin lib /\ Goes2("buffer"))
  BY Zenon DEF Load, UsesRuntime
<1>2. abandoned = {} /\ stops = {} /\ ~ lifecycle
  BY Early, <1>0 DEF Before
<1>3. CASE Fails
  BY <1>0, <1>2, <1>3, Early, Failing DEF Quiet
<1>4. CASE Goes2("sdk") \/ Goes2("initial") \/ ("start" \notin lib /\ Goes2("buffer"))
  <2>0. /\ UNCHANGED <<cmd, address, lifecycle, abandoned, accepted, stops, report>> /\ at' \in Before
        /\ lib' = lib /\ at' \in {"sdk", "initial", "buffer"} /\ (at' = "buffer" => "start" \notin lib)
    BY <1>0, <1>4 DEF Quiet, Goes2, Goes, place, Before
  <2>1. Typed'
    BY <2>0 DEF IInv, Typed
  <2>2. OneAtMost'
    BY <2>0, <1>2 DEF OneAtMost
  <2>3. Stopping'
    BY <2>0, <1>2 DEF Stopping
  <2>4. Told'
    BY <2>0, ToldKeeps DEF IInv, Before
  <2>5. Ordered'
    BY <2>0, <1>2 DEF Ordered, Requests
  <2> QED BY <2>1, <2>2, <2>3, <2>4, <2>5 DEF IInv
<1> QED BY <1>1, <1>3, <1>4

\* The NET_SDK path.
LEMMA SdkStep ==
  ASSUME IInv, Sdk
  PROVE  IInv'
<1>0. at = "sdk" /\ UNCHANGED <<client, lifecycle, abandoned, stops>>
  BY DEF Sdk
<1>1. (Fails /\ (address' = address \/ Moves))
      \/ (Moves /\ accepted' = TRUE /\ report' = [report EXCEPT !.success = TRUE] /\ Goes("scan"))
  BY DEF Sdk
<1>2. abandoned = {} /\ stops = {} /\ ~ lifecycle
  BY Early, <1>0 DEF Before
<1>3. CASE Fails /\ (address' = address \/ Moves)
  <2>1. address' \in [Device -> Address]
    BY <1>3, Early, NewStays
  <2> QED BY <1>0, <1>2, <1>3, <2>1, Early, Failing
<1>4. CASE Moves /\ accepted' = TRUE /\ report' = [report EXCEPT !.success = TRUE] /\ Goes("scan")
  <2>0. /\ cmd' = cmd /\ lib' = lib /\ at' = "scan" /\ address' \in [Device -> Address]
        /\ address["target"] = "new" => address'["target"] = "new"
    BY <1>4, Early, NewStays DEF Goes, place
  <2>9. /\ report' \in Reported /\ report'.success /\ report'.verified = report.verified
        /\ report'.exit = report.exit
    BY <1>4 DEF IInv, Typed, Reported
  <2>1. Typed'
    BY <2>0, <2>9, <1>0 DEF IInv, Typed, After
  <2>2. OneAtMost'
    BY <2>0, <1>0, <1>2 DEF OneAtMost, Before
  <2>3. Stopping'
    BY <1>0, <1>2 DEF Stopping
  <2>4. Told'
    BY <2>0, <2>9, <1>0, <1>4 DEF IInv, Told
  <2>5. Ordered'
    BY <2>0, <1>0, <1>2 DEF Ordered, Requests, Before
  <2> QED BY <2>1, <2>2, <2>3, <2>4, <2>5 DEF IInv
<1> QED BY <1>1, <1>3, <1>4

\* A step that goes on with the command as it stands: what it still has to show.
LEMMA Continues ==
  ASSUME IInv, UNCHANGED <<cmd, report>>, accepted' = accepted, lifecycle' \in BOOLEAN,
         address' \in [Device -> Address],
         address["target"] = "new" => address'["target"] = "new",
         at' \in Before \cup {"stop", "quit", "result"}, OneAtMost', Stopping', Ordered'
  PROVE  IInv'
<1>1. Typed'
  BY DEF IInv, Typed, After
<1>2. Told'
  BY DEF IInv, Told, Before
<1> QED BY <1>1, <1>2 DEF IInv

\* The runtime is initialised, fails or hangs.
LEMMA InitialStep ==
  ASSUME IInv, Initial
  PROVE  IInv'
<1>0. at = "initial" /\ UNCHANGED <<lifecycle, accepted, stops>>
  BY DEF Initial
<1>1. \/ Takes("initial") /\ Goes2("start") /\ UNCHANGED abandoned
      \/ Fails /\ UNCHANGED <<address, client, abandoned>>
      \/ Fails /\ Abandon("initial") /\ UNCHANGED <<address, client>>
  BY Zenon DEF Initial
<1>2. abandoned = {} /\ stops = {} /\ ~ lifecycle
  BY Early, <1>0 DEF Before
<1>3. CASE Takes("initial") /\ Goes2("start") /\ UNCHANGED abandoned
  <2>0. UNCHANGED <<cmd, report, abandoned, lifecycle, accepted>> /\ at' = "start"
    BY <1>0, <1>3 DEF Goes2, Goes, place
  <2>1. address' \in [Device -> Address] /\ (address["target"] = "new" => address'["target"] = "new")
    BY <1>3, Early, TakesStays
  <2>2. OneAtMost' /\ Stopping'
    BY <2>0, <1>2 DEF OneAtMost, Stopping
  <2>3. Ordered'
    BY <2>0, <1>0, <1>2 DEF Ordered, Requests
  <2> QED BY <2>0, <2>1, <2>2, <2>3, Early, Continues DEF Before
<1>4. CASE Fails /\ UNCHANGED <<address, client, abandoned>>
  BY <1>0, <1>2, <1>4, Early, Failing
<1>5. CASE Fails /\ Abandon("initial") /\ UNCHANGED <<address, client>>
  <2>1. Requests \cap abandoned' = {}
    BY <1>2, <1>5 DEF Abandon, Requests
  <2> QED BY <1>0, <1>2, <1>5, <2>1, Early, Failing
<1> QED BY <1>1, <1>3, <1>4, <1>5

\* From here there is something to stop.
LEMMA StartStep ==
  ASSUME IInv, Start
  PROVE  IInv'
<1>0. at = "start" /\ UNCHANGED <<accepted, stops>>
  BY DEF Start
<1>1. \/ Takes("start") /\ lifecycle' = TRUE /\ Goes2("buffer") /\ UNCHANGED abandoned
      \/ Fails /\ UNCHANGED <<address, client, lifecycle, abandoned>>
      \/ Fails /\ Abandon("start") /\ UNCHANGED <<address, client, lifecycle>>
  BY Zenon DEF Start
<1>2. abandoned = {} /\ stops = {} /\ ~ lifecycle
  BY Early, <1>0 DEF Before
<1>3. CASE Takes("start") /\ lifecycle' = TRUE /\ Goes2("buffer") /\ UNCHANGED abandoned
  <2>0. UNCHANGED <<cmd, report, abandoned, accepted>> /\ at' = "buffer" /\ lifecycle' = TRUE
    BY <1>0, <1>3 DEF Goes2, Goes, place
  <2>1. address' \in [Device -> Address] /\ (address["target"] = "new" => address'["target"] = "new")
    BY <1>3, Early, TakesStays
  <2>2. OneAtMost' /\ Stopping'
    BY <2>0, <1>2 DEF OneAtMost, Stopping
  <2>4. client' = "started"
    BY <1>3 DEF Takes, RuntimeAfter
  <2>3. Ordered'
    BY <2>0, <2>4, <1>0, <1>2 DEF Ordered, Requests
  <2> QED BY <2>0, <2>1, <2>2, <2>3, Early, Continues DEF Before
<1>4. CASE Fails /\ UNCHANGED <<address, client, lifecycle, abandoned>>
  BY <1>0, <1>2, <1>4, Early, Failing
<1>5. CASE Fails /\ Abandon("start") /\ UNCHANGED <<address, client, lifecycle>>
  <2>1. Requests \cap abandoned' = {}
    BY <1>2, <1>5 DEF Abandon, Requests
  <2> QED BY <1>0, <1>2, <1>5, <2>1, Early, Failing
<1> QED BY <1>1, <1>3, <1>4, <1>5

\* A request that hangs is the last one; whatever it does, what was started is stopped.
LEMMA RequestStep ==
  ASSUME IInv, NEW native \in Requests, at = native, NEW next, next \in {"observer", Finally},
         Request(native, next)
  PROVE  IInv'
<1>0. UNCHANGED <<lifecycle, stops>> /\ lifecycle \in BOOLEAN
  BY Early DEF Request
<1>1. \/ (/\ Takes(native) /\ accepted' = TRUE /\ report' = [report EXCEPT !.success = TRUE]
          /\ Goes(Finally) /\ UNCHANGED abandoned)
      \/ Takes(native) /\ Goes2(next) /\ UNCHANGED <<abandoned, accepted>>
      \/ Takes(native) /\ Goes2(Finally) /\ UNCHANGED <<abandoned, accepted>>
      \/ Goes2(next) /\ UNCHANGED <<address, client, abandoned, accepted>>
      \/ Abandon(native) /\ Goes2(AfterHang) /\ UNCHANGED <<address, client, accepted>>
  BY Zenon DEF Request
<1>2. abandoned = {} /\ stops = {} /\ at \in {"buffer", "observer"}
  BY Early DEF Before, Requests
<1>3. Finally \in {"stop", "result"} /\ (lifecycle => Finally = "stop")
  BY <1>0 DEF Finally
<1>9. Takes(native) => client' = client
  BY DEF Takes, RuntimeAfter, Requests
<1>10. "start" \in lib => client = "started"
  BY DEF IInv, Ordered
<1>4. CASE /\ Takes(native) /\ accepted' = TRUE /\ report' = [report EXCEPT !.success = TRUE]
           /\ Goes(Finally) /\ UNCHANGED abandoned
  <2>0. /\ cmd' = cmd /\ lib' = lib /\ at' = Finally /\ address' \in [Device -> Address]
        /\ address["target"] = "new" => address'["target"] = "new"
    BY <1>4, Early, TakesStays DEF Goes, place
  <2>9. /\ report' \in Reported /\ report'.success /\ report'.verified = report.verified
        /\ report'.exit = report.exit
    BY <1>4 DEF IInv, Typed, Reported
  <2>1. Typed'
    BY <2>0, <2>9, <1>0, <1>3 DEF IInv, Typed, After
  <2>2. OneAtMost'
    BY <2>0, <1>2, <1>4 DEF OneAtMost
  <2>3. Stopping'
    BY <2>0, <1>0, <1>3 DEF Stopping
  <2>4. Told'
    BY <2>0, <2>9, <1>4 DEF IInv, Told
  <2>5. Ordered'
    BY <2>0, <1>0, <1>2, <1>3 DEF Ordered, Requests
  <2> QED BY <2>1, <2>2, <2>3, <2>4, <2>5 DEF IInv
<1>5. ASSUME NEW t, t \in {"observer", "stop", "result"}, lifecycle => t \in {"observer", "stop"},
             Goes2(t), accepted' = accepted,
             Takes(native) \/ UNCHANGED <<address, client>>,
             (abandoned' = abandoned) \/ (t # "observer" /\ abandoned' = abandoned \cup {native})
      PROVE  IInv'
  <2>0. UNCHANGED <<cmd, lib, report>> /\ at' = t
    BY <1>5 DEF Goes2, Goes, place
  <2>2. OneAtMost'
    <3>1. CASE abandoned' = abandoned
      BY <3>1, <1>2 DEF OneAtMost
    <3>2. CASE t # "observer" /\ abandoned' = abandoned \cup {native}
      <4>1. Requests \cap abandoned' = {native} /\ native \in {"buffer", "observer"}
        BY <3>2, <1>2 DEF Requests
      <4>2. at' \notin Before
        BY <3>2, <2>0, <1>5 DEF Before
      <4> QED BY <4>1, <4>2 DEF OneAtMost
    <3> QED BY <1>5, <3>1, <3>2
  <2>3. Stopping'
    BY <2>0, <1>0, <1>5 DEF Stopping
  <2>4. address' \in [Device -> Address] /\ (address["target"] = "new" => address'["target"] = "new")
    BY <1>5, Early, TakesStays
  <2>5. at' \in Before \cup {"stop", "quit", "result"}
    BY <2>0, <1>5 DEF Before
  <2>6. Ordered'
    BY <2>0, <1>0, <1>2, <1>5, <1>9, <1>10 DEF Ordered
  <2> QED BY <1>0, <1>5, <2>0, <2>2, <2>3, <2>4, <2>5, <2>6, Continues
<1>6. CASE (Takes(native) \/ UNCHANGED <<address, client>>) /\ Goes2(next) /\ UNCHANGED <<abandoned, accepted>>
  <2>1. next \in {"observer", "stop", "result"} /\ (lifecycle => next \in {"observer", "stop"})
    BY <1>3
  <2> QED BY <1>5, <1>6, <2>1
<1>7. CASE Takes(native) /\ Goes2(Finally) /\ UNCHANGED <<abandoned, accepted>>
  BY <1>3, <1>5, <1>7
<1>8. CASE Abandon(native) /\ Goes2(AfterHang) /\ UNCHANGED <<address, client, accepted>>
  BY <1>3, <1>5, <1>8 DEF Abandon, AfterHang
<1> QED BY <1>1, <1>4, <1>6, <1>7, <1>8

\* The first overload.
LEMMA BufferStep ==
  ASSUME IInv, Buffer
  PROVE  IInv'
BY RequestStep DEF Buffer, Requests

\* The second, which only a refusal of the first leads to.
LEMMA ObserverStep ==
  ASSUME IInv, Observer
  PROVE  IInv'
BY RequestStep DEF Observer, Requests

\* Stop and quit, whatever they do, are tried one after the other.
LEMMA StopRuntimeStep ==
  ASSUME IInv, NEW native, NEW next, <<native, next>> \in {<<"stop", "quit">>, <<"quit", "result">>},
         StopRuntime(native, next)
  PROVE  IInv'
<1>0. /\ at = native /\ UNCHANGED <<lifecycle, accepted>>
      /\ UNCHANGED <<cmd, lib, report>> /\ at' = next
  BY DEF StopRuntime, Goes2, Goes, place
<1>1. \/ native \notin lib /\ UNCHANGED <<address, client, abandoned, stops>>
      \/ /\ native \in lib /\ stops' = stops \cup {native}
         /\ \/ Takes(native) /\ UNCHANGED abandoned
            \/ UNCHANGED <<address, client, abandoned>>
            \/ Abandon(native) /\ UNCHANGED <<address, client>>
  BY Zenon DEF StopRuntime
<1>2. address' \in [Device -> Address] /\ (address["target"] = "new" => address'["target"] = "new")
  BY <1>1, Early, TakesStays
<1>3. native \in {"stop", "quit"} /\ next \in {"quit", "result"} /\ (native = "stop" <=> next = "quit")
  OBVIOUS
<1>4. Requests \cap abandoned' = Requests \cap abandoned
  BY <1>1, <1>3 DEF Abandon, Requests
<1>5. OneAtMost'
  BY <1>0, <1>3, <1>4 DEF IInv, OneAtMost, Before
<1>7. stops \subseteq stops' /\ {native} \cap lib \subseteq stops' /\ stops' \subseteq stops \cup {native}
  BY <1>1
<1>8. native = "stop" => stops = {}
  BY <1>0 DEF IInv, Ordered
<1>9. native = "quit" => {"stop"} \cap lib \subseteq stops
  BY <1>0 DEF IInv, Ordered
<1>6. Stopping'
  BY <1>0, <1>3, <1>7, <1>9 DEF Stopping, After
<1>10. Ordered'
  <2>1. {"stop"} \cap lib \subseteq stops'
    BY <1>3, <1>7, <1>9
  <2>2. at' \in {"quit", "result"}
    BY <1>0, <1>3
  <2> QED BY <1>0, <2>1, <2>2 DEF Ordered, Before, Requests
<1> QED BY <1>0, <1>2, <1>3, <1>5, <1>6, <1>10, Early, Continues

\* An abandoned call may still move the device, to the new address.
LEMMA ReturnsStep ==
  ASSUME IInv, NEW native \in abandoned, Returns(native)
  PROVE  IInv'
<1>0. UNCHANGED <<cmd, lib, at, lifecycle, accepted, stops, report>> /\ abandoned' = abandoned \ {native}
  BY DEF Returns, place
<1>2. address' \in [Device -> Address] /\ (address["target"] = "new" => address'["target"] = "new")
  BY Early, TakesStays DEF Returns
<1>3. OneAtMost'
  BY <1>0 DEF IInv, OneAtMost, Requests
<1>4. Typed' /\ Stopping'
  BY <1>0, <1>2 DEF IInv, Typed, Stopping
<1>5. Told'
  BY <1>0, <1>2, ToldKeeps DEF IInv, Told
<1>6. at \notin Before
  BY Early
<1>7. Ordered'
  BY <1>0, <1>6 DEF IInv, Ordered, Before, Requests
<1> QED BY <1>3, <1>4, <1>5, <1>7 DEF IInv

\* What was not accepted is not verified.
LEMMA ResultStep ==
  ASSUME IInv, Result
  PROVE  IInv'
<1>0. /\ at = "result" /\ UNCHANGED <<address, lifecycle, abandoned, accepted, stops, lib>> /\ cmd' = cmd
      /\ at' \in {"scan", "end"}
      /\ at' = "scan" => report.success /\ report' = report
      /\ at' = "end" => /\ report' = [report EXCEPT !.exit = IF report.success THEN 0 ELSE 1]
                        /\ cmd = "modify-ip" => ~ report.success
  BY DEF Result, Quiet, Goes2, Goes, Ends, place
<1>1. /\ report' \in Reported /\ report'.success = report.success /\ report'.verified = report.verified
      /\ at' = "scan" => report'.exit = report.exit
      /\ at' = "end" /\ cmd = "modify-ip" => report'.exit = 1
  BY <1>0 DEF IInv, Typed, Reported
<1>2. Typed' /\ OneAtMost'
  BY <1>0, <1>1 DEF IInv, Typed, OneAtMost, Before, After
<1>3. Stopping'
  BY <1>0 DEF IInv, Stopping, After
<1>4. Told'
  BY <1>0, <1>1 DEF IInv, Told
<1>5. Ordered'
  BY <1>0 DEF IInv, Ordered, Before, Requests
<1> QED BY <1>2, <1>3, <1>4, <1>5 DEF IInv

\* What the report of a scan says.
LEMMA Scanned ==
  ASSUME report \in Reported, NEW d \in Device \cup {"none"}
  PROVE  /\ ReportOf(d) \in Reported /\ ReportOf(d).success = report.success
         /\ ReportOf(d).verified => address["target"] = "new"
         /\ cmd = "modify-ip" /\ ReportOf(d).exit = 0 => ReportOf(d).verified
<1>1. Confirms(d) \in BOOLEAN /\ (Confirms(d) => address["target"] = "new")
  BY DEF Confirms
<1> DEFINE ok == CASE cmd = "scan-match" -> d # "none" [] cmd = "dry-run" -> d # "none" [] OTHER -> Confirms(d)
           v == cmd \in {"modify-ip", "verify-ip"} /\ Confirms(d)
           e == IF ok THEN 0 ELSE 1
<1>2. ReportOf(d) = [report EXCEPT !.match = d, !.verified = v, !.exit = e]
  BY Zenon DEF ReportOf
<1>3. cmd = "modify-ip" => (ok <=> Confirms(d))
  OBVIOUS
<1>4. v \in BOOLEAN /\ (v => Confirms(d)) /\ (cmd = "modify-ip" => (v <=> Confirms(d)))
  OBVIOUS
<1>5. e \in 0..1 /\ (e = 0 => ok)
  OBVIOUS
<1> HIDE DEF v, e, ok
<1>6. /\ ReportOf(d) \in Reported /\ ReportOf(d).success = report.success
      /\ ReportOf(d).verified = v /\ ReportOf(d).exit = e
  BY <1>2, <1>4, <1>5 DEF Reported
<1> QED BY <1>1, <1>3, <1>4, <1>5, <1>6

\* The scan only adds what it has seen.
LEMMA ScanStep ==
  ASSUME IInv, Scan
  PROVE  IInv'
<1>1. PICK d \in Device \cup {"none"} : Ends(ReportOf(d))
  BY DEF Scan
<1>0. /\ at = "scan" /\ UNCHANGED <<address, lifecycle, abandoned, accepted, stops, lib>> /\ cmd' = cmd
      /\ at' = "end" /\ report' = ReportOf(d)
  BY <1>1 DEF Scan, Quiet, Ends, Goes, place
<1>2. /\ report' \in Reported /\ report'.success = report.success
      /\ report'.verified => address["target"] = "new"
      /\ cmd = "modify-ip" /\ report'.exit = 0 => report'.verified
  BY <1>0, Scanned DEF IInv, Typed
<1>3. Typed' /\ OneAtMost'
  BY <1>0, <1>2 DEF IInv, Typed, OneAtMost, Before, After
<1>4. Stopping'
  BY <1>0 DEF IInv, Stopping, After
<1>5. Told'
  BY <1>0, <1>2 DEF IInv, Told
<1>6. Ordered'
  BY <1>0 DEF IInv, Ordered, Before, Requests
<1> QED BY <1>3, <1>4, <1>5, <1>6 DEF IInv

\* Every step of a readdressing.
LEMMA ModifyStep ==
  ASSUME IInv, ModifyNext \/ UNCHANGED modifyVars
  PROVE  IInv'
<1>1. CASE UNCHANGED modifyVars
  BY <1>1 DEF IInv, modifyVars, Typed, OneAtMost, Stopping, Ordered, Told
<1>2. CASE Stop \/ Quit
  <2>1. StopRuntime("stop", "quit") \/ StopRuntime("quit", "result")
    BY <1>2 DEF Stop, Quit
  <2> QED BY <2>1, StopRuntimeStep
<1> QED BY <1>1, <1>2, CommandStep, LoadStep, SdkStep, InitialStep, StartStep, BufferStep, ObserverStep,
           ReturnsStep, ResultStep, ScanStep DEF ModifyNext

\* What the invariant says of the properties.
LEMMA OrderedIfI ==
  ASSUME IInv
  PROVE  NativeCallsOrdered
<1>1. Requests \cap abandoned # {} => at \notin Requests
  BY DEF IInv, OneAtMost, Before, Requests
<1>2. \A c, d \in Requests \cap abandoned : c = d
  BY DEF IInv, OneAtMost
<1>3. RuntimeLetGo
  BY DEF IInv, Stopping, Ordered, RuntimeLetGo, After
<1>4. RuntimeUp
  BY DEF IInv, Ordered, RuntimeUp, Before, Requests
<1> QED BY <1>1, <1>2, <1>3, <1>4 DEF NativeCallsOrdered, OneRequest

\* And of the report.
LEMMA TrulyIfI ==
  ASSUME IInv
  PROVE  ModifiedTruly
BY DEF IInv, Told, ModifiedTruly

(***************************************************************************)
(* The exchange with the runtime                                            *)
(***************************************************************************)

Asked == /\ request \in Calls \cup {NoRequest}
         /\ left \in Int /\ budget \in Nat /\ received \in Nat /\ hung \in BOOLEAN /\ answer.size \in Nat

\* Before the request is in the runtime nothing has happened to it.
Fresh == step = "connect" =>
           /\ worker = "none" /\ received = 0
           /\ left = ExchangeTimeout(OperationTimeout(request.timeout, request.total), request.total)

\* The client's deadline is later than the last moment the runtime may answer at.
Timely == step = "read" /\ hung /\ Roomy =>
            /\ worker = "native" => left >= budget + Grace
            /\ worker = "reaping" => left >= budget + 2

\* What was received fits the line and the limit.
Within == step = "read" =>
            /\ worker \in {"native", "reaping", "answered"} /\ received <= MaxLine
            /\ worker # "answered" => received = 0
            /\ worker = "answered" => received <= answer.size /\ answer.size >= 1

\* An operation that hangs is answered by the deadline, or was never admitted.
TypedAnswer == worker = "answered" /\ hung => answer.kind \in {"operation_timeout", "busy"} /\ answer.size = 1

XInv == Asked /\ Fresh /\ Timely /\ Within /\ TypedAnswer /\ AnswerReachesCaller

\* The deadlines of a request.
LEMMA Deadlines ==
  ASSUME Asked
  PROVE  /\ request.timeout \in Nat /\ request.total \in Nat
         /\ Roomy => request.timeout + request.total # 0
<1>1. request.timeout \in Nat /\ request.total \in Nat
  <2>1. CASE request \in Calls
    <3>1. {request.timeout, request.total} \subseteq {0} \cup MinTimeout..MaxTimeout
      BY <2>1, ExchangeAssumption
    <3> QED BY <3>1 DEF MinTimeout, MaxTimeout
  <2>2. CASE request = NoRequest
    BY <2>2 DEF NoRequest
  <2> QED BY <2>1, <2>2 DEF Asked
<1>2. ASSUME Roomy PROVE request.timeout # 0 \/ request.total # 0
  BY <1>2 DEF Roomy, MinTimeout, Grace
<1> QED BY <1>1, <1>2

\* A call that leaves room gives the runtime Grace more than its operation.
LEMMA GraceIsLeft ==
  ASSUME Asked
  PROVE  /\ OperationTimeout(request.timeout, request.total) \in Nat
         /\ ExchangeTimeout(OperationTimeout(request.timeout, request.total), request.total) \in Int
         /\ Roomy => ExchangeTimeout(OperationTimeout(request.timeout, request.total), request.total)
                       >= OperationTimeout(request.timeout, request.total) + Grace
<1> DEFINE t == request.timeout
           l == request.total
           o == OperationTimeout(t, l)
<1>1. t \in Nat /\ l \in Nat /\ Fallback \in Nat
  BY Deadlines, ExchangeAssumption
<1>2. CASE l = 0
  <2>1. o = t
    BY <1>2 DEF OperationTimeout
  <2>2. ExchangeTimeout(t, l) = IF t = 0 THEN Fallback ELSE t + Grace
    BY <1>1, <1>2 DEF ExchangeTimeout
  <2>3. Roomy => t # 0
    BY <1>2 DEF Roomy, MinTimeout, Grace
  <2> QED BY <1>1, <2>1, <2>2, <2>3 DEF Grace
<1>3. CASE l # 0
  <2>1. ExchangeTimeout(o, l) = l
    BY <1>3 DEF ExchangeTimeout
  <2>2. o \in Nat /\ (o <= MinTimeout \/ o <= l - Grace)
    BY <1>1, <1>3 DEF OperationTimeout, Greatest, Least, MinTimeout, Grace
  <2>3. Roomy => l >= MinTimeout + Grace
    BY <1>3 DEF Roomy
  <2> HIDE DEF o
  <2> QED BY <1>1, <2>1, <2>2, <2>3 DEF Grace, MinTimeout, o
<1> QED BY <1>2, <1>3

\* What the parser makes of an answer.
LEMMA EnvelopeKind ==
  ASSUME NEW op, NEW a
  PROVE  /\ Envelope(op, a).kind \notin {"incomplete", "too_large", "socket_error"}
         /\ a.kind \in {"operation_timeout", "busy"} => Envelope(op, a).kind = a.kind
<1>1. CASE a.kind = "ok"
  <2>1. \/ Envelope(op, a) = [kind |-> "value", value |-> Returned(op, a.body)]
        \/ Envelope(op, a) = [kind |-> "client_error", value |-> <<>>]
    BY <1>1 DEF Envelope
  <2> QED BY <1>1, <2>1
<1>2. CASE a.kind \in {"operation_timeout", "protocol_mismatch", "busy"}
  BY <1>2 DEF Envelope
<1>3. CASE a.kind = "unsupported"
  BY <1>3 DEF Envelope
<1>4. CASE a.kind \notin {"ok", "operation_timeout", "protocol_mismatch", "busy", "unsupported"}
  BY <1>4 DEF Envelope
<1> QED BY <1>1, <1>2, <1>3, <1>4

\* The invariant holds before the first call.
LEMMA ExchangeStarts ==
  ASSUME NEW n, ExchangeInit(n)
  PROVE  XInv
<1>0. /\ request = NoRequest /\ step = "idle" /\ left = 0 /\ worker = "none" /\ budget = 0
      /\ hung = FALSE /\ received = 0 /\ answer = NoAnswer
  BY DEF ExchangeInit
<1>1. Asked
  <2>1. answer.size \in Nat
    BY <1>0 DEF NoAnswer
  <2>2. left \in Int
    BY <1>0
  <2>3. budget \in Nat /\ received \in Nat
    BY <1>0
  <2>4. hung \in BOOLEAN
    BY <1>0
  <2> QED BY <1>0, <2>1, <2>2, <2>3, <2>4 DEF Asked
<1>2. Fresh /\ Timely /\ Within /\ TypedAnswer
  BY <1>0 DEF Fresh, Timely, Within, TypedAnswer
<1>3. AnswerReachesCaller
  BY <1>0 DEF AnswerReachesCaller, DeadlineIsTyped, LineLimit
<1> QED BY <1>1, <1>2, <1>3 DEF XInv

\* A call starts with the whole of its deadline.
LEMMA CallStep ==
  ASSUME XInv, Call
  PROVE  XInv'
<1>1. /\ request' \in Calls /\ worker' = "none" /\ budget' = 0 /\ answer' = NoAnswer /\ received' = 0
      /\ hung' \in BOOLEAN /\ broken' = FALSE
      /\ left' = ExchangeTimeout(OperationTimeout(request'.timeout, request'.total), request'.total)
  BY DEF Call
<1>2. (request'.valid /\ step' = "connect") \/ (~ request'.valid /\ step' = "done")
  BY DEF Call, Raises, Finish
<1>3. Asked'
  <2>1. request'.timeout \in Nat /\ request'.total \in Nat
    BY <1>1, ExchangeAssumption DEF MinTimeout, MaxTimeout
  <2>2. left' \in Int
    BY <1>1, <2>1, ExchangeAssumption DEF ExchangeTimeout, OperationTimeout, Greatest, Least, MinTimeout, Grace
  <2> QED BY <1>1, <2>2 DEF Asked, NoAnswer
<1>4. (Fresh /\ Timely /\ Within /\ TypedAnswer)'
  BY <1>1, <1>2 DEF Fresh, Timely, Within, TypedAnswer
<1>5. AnswerReachesCaller'
  BY <1>1, <1>2 DEF AnswerReachesCaller, DeadlineIsTyped, LineLimit
<1> QED BY <1>3, <1>4, <1>5 DEF XInv

\* The operation gets its deadline, Grace before that of the client.
LEMMA AdmitStep ==
  ASSUME XInv, Admit
  PROVE  XInv'
<1>1. /\ step = "connect" /\ step' = "read"
      /\ UNCHANGED <<request, left, hung, received, broken, outcome>>
      /\ \/ /\ worker' = "native" /\ answer' = answer
            /\ budget' = OperationTimeout(request.timeout, request.total)
         \/ worker' = "answered" /\ budget' = 0 /\ answer' = [kind |-> "busy", size |-> 1, body |-> <<>>]
  BY DEF Admit
<1>2. /\ Asked /\ received = 0
      /\ left = ExchangeTimeout(OperationTimeout(request.timeout, request.total), request.total)
  BY <1>1 DEF XInv, Fresh
<1>3. Asked'
  BY <1>1, <1>2, GraceIsLeft DEF Asked
<1>4. Timely'
  <2>1. Roomy' <=> Roomy
    BY <1>1 DEF Roomy
  <2>2. CASE worker' = "native"
    <3>1. Roomy => left' >= budget' + Grace
      BY <1>1, <1>2, <2>2, GraceIsLeft
    <3> QED BY <2>1, <2>2, <3>1 DEF Timely
  <2>3. CASE worker' = "answered"
    BY <2>3 DEF Timely
  <2> QED BY <1>1, <2>2, <2>3
<1>5. (Fresh /\ Within /\ TypedAnswer)'
  BY <1>1, <1>2, ExchangeAssumption DEF Fresh, Within, TypedAnswer
<1>6. AnswerReachesCaller'
  BY <1>1 DEF AnswerReachesCaller, DeadlineIsTyped, LineLimit
<1> QED BY <1>3, <1>4, <1>5, <1>6 DEF XInv

\* A step that only answers, with what a hanging operation may say.
LEMMA Answered ==
  ASSUME XInv, NEW k, NEW n \in Nat \ {0}, NEW b, Answers(k, n, b), step = "read", worker # "answered",
         hung => k = "operation_timeout" /\ n = 1
  PROVE  XInv'
<1>1. /\ worker' = "answered" /\ budget' = 0
      /\ UNCHANGED <<requests, request, step, left, hung, received, outcome>>
      /\ answer'.kind = k /\ answer'.size = n
  BY DEF Answers
<1>2. Asked'
  BY <1>1 DEF XInv, Asked
<1>3. (Fresh /\ Timely)'
  BY <1>1 DEF Fresh, Timely
<1>4. Within'
  BY <1>1 DEF XInv, Within
<1>5. TypedAnswer'
  BY <1>1 DEF TypedAnswer
<1>6. AnswerReachesCaller'
  BY <1>1 DEF AnswerReachesCaller, DeadlineIsTyped, LineLimit
<1> QED BY <1>2, <1>3, <1>4, <1>5, <1>6 DEF XInv

\* An operation that ends by itself does not hang.
LEMMA OperateStep ==
  ASSUME XInv, Operate
  PROVE  XInv'
<1>1. step = "read" /\ worker = "native" /\ ~ hung
  BY DEF Operate
<1>2. \E k, b : \E n \in {1} \cup 2..(MaxLine + 1) : Answers(k, n, b)
  BY DEF Operate
<1>3. {1} \cup 2..(MaxLine + 1) \subseteq Nat \ {0}
  BY ExchangeAssumption
<1> QED BY <1>1, <1>2, <1>3, Answered

\* The worker is ended: the typed deadline outcome.
LEMMA ReapedStep ==
  ASSUME XInv, Reaped
  PROVE  XInv'
BY Answered DEF Reaped

\* Reaping is shorter than Grace.
LEMMA GraceCoversReap ==
  ASSUME NEW l \in Int, NEW b \in 0..Reap, l >= Grace
  PROVE  l >= b + 2
BY DEF Reap, Grace

\* Reaping takes from Grace.
LEMMA ExpireStep ==
  ASSUME XInv, Expire
  PROVE  XInv'
<1>1. /\ step = "read" /\ worker = "native" /\ hung /\ budget = 0 /\ worker' = "reaping" /\ budget' \in 0..Reap
      /\ UNCHANGED <<request, step, left, hung, answer, received, broken, outcome>>
  BY DEF Expire
<1>2. Asked'
  BY <1>1 DEF XInv, Asked
<1>3. Fresh' /\ TypedAnswer'
  BY <1>1 DEF Fresh, TypedAnswer
<1>4. Within'
  BY <1>1 DEF XInv, Within
<1>5. Timely'
  <2>1. Roomy' <=> Roomy
    BY <1>1 DEF Roomy
  <2>2. Roomy => left >= Grace
    <3>1. Roomy => left >= budget + Grace
      BY <1>1 DEF XInv, Timely
    <3>2. budget = 0 /\ left \in Int
      BY <1>1 DEF XInv, Asked
    <3> QED BY <3>1, <3>2 DEF Grace
  <2>3. ASSUME Roomy PROVE left' >= budget' + 2
    <3>1. left' \in Int /\ left' >= Grace
      BY <1>1, <2>2, <2>3 DEF XInv, Asked
    <3> QED BY <1>1, <3>1, GraceCoversReap
  <2> QED BY <1>1, <2>1, <2>3 DEF Timely
<1>6. AnswerReachesCaller'
  BY <1>1 DEF AnswerReachesCaller, DeadlineIsTyped, LineLimit
<1> QED BY <1>2, <1>3, <1>4, <1>5, <1>6 DEF XInv

\* The end of an exchange: the invariant asks nothing more than that the property holds.
LEMMA Ended ==
  ASSUME XInv, step' = "done", UNCHANGED <<request, worker, hung, answer>>, left' \in Int, budget' \in Nat, received' \in Nat,
         AnswerReachesCaller'
  PROVE  XInv'
<1>1. Asked'
  BY DEF XInv, Asked
<1>2. (Fresh /\ Timely /\ Within)'
  BY DEF Fresh, Timely, Within
<1>3. TypedAnswer'
  BY DEF XInv, TypedAnswer
<1> QED BY <1>1, <1>2, <1>3 DEF XInv

\* A fault of the socket is not about the deadline.
LEMMA BreaksStep ==
  ASSUME XInv, Breaks
  PROVE  XInv'
<1>1. /\ step' = "done" /\ broken' = TRUE
      /\ UNCHANGED <<request, left, worker, budget, hung, answer, received>>
  BY DEF Breaks, Raises, Finish
<1>2. AnswerReachesCaller'
  BY <1>1 DEF AnswerReachesCaller, DeadlineIsTyped, LineLimit
<1> QED BY <1>1, <1>2, Ended DEF XInv, Asked

\* Time passes for both deadlines alike, so that of the client is never first.
LEMMA TickStep ==
  ASSUME XInv, Tick
  PROVE  XInv'
<1> DEFINE b == IF budget = 0 THEN 0 ELSE budget - 1
<1>1. /\ step = "read" /\ ~ Due /\ left' = left - 1 /\ budget' = b
      /\ UNCHANGED <<request, worker, hung, answer, received, broken>>
      /\ \/ left' = 0 /\ step' = "done"
         \/ left' # 0 /\ UNCHANGED <<step, outcome>>
  BY DEF Tick, Raises, Finish
<1>2. left \in Int /\ budget \in Nat /\ b \in Nat /\ (budget # 0 => b = budget - 1) /\ (Roomy' <=> Roomy)
  BY <1>1 DEF XInv, Asked, Roomy
<1>3. worker \in {"native", "reaping"} /\ received = 0
  BY <1>1 DEF XInv, Within, Due
<1>4. ASSUME hung, Roomy
      PROVE  /\ worker = "native" => left' >= budget' + Grace
             /\ worker = "reaping" => left' >= budget' + 2
             /\ left' # 0
  <2>1. budget # 0
    BY <1>1, <1>3, <1>4, Deadlines DEF XInv, Due
  <2>2. /\ worker = "native" => left >= budget + Grace
        /\ worker = "reaping" => left >= budget + 2
    BY <1>1, <1>4 DEF XInv, Timely
  <2> HIDE DEF b
  <2> QED BY <1>1, <1>2, <1>3, <2>1, <2>2 DEF Grace
<1> HIDE DEF b
<1>5. CASE left' = 0 /\ step' = "done"
  <2>1. AnswerReachesCaller'
    BY <1>1, <1>2, <1>3, <1>4, <1>5 DEF AnswerReachesCaller, DeadlineIsTyped, LineLimit
  <2> QED BY <1>1, <1>2, <1>3, <1>5, <2>1, Ended
<1>6. CASE left' # 0 /\ UNCHANGED <<step, outcome>>
  <2>1. Asked'
    BY <1>1, <1>2, <1>3 DEF XInv, Asked
  <2>2. (Fresh /\ TypedAnswer)'
    BY <1>1, <1>3, <1>6 DEF Fresh, TypedAnswer
  <2>3. Within'
    BY <1>1, <1>6 DEF XInv, Within
  <2>4. Timely'
    BY <1>1, <1>2, <1>4 DEF Timely
  <2>5. AnswerReachesCaller'
    BY <1>1, <1>6 DEF AnswerReachesCaller, DeadlineIsTyped, LineLimit
  <2> QED BY <2>1, <2>2, <2>3, <2>4, <2>5 DEF XInv
<1> QED BY <1>1, <1>5, <1>6

\* The asynchronous client compares the whole line with the limit.
LEMMA ReadUntilStep ==
  ASSUME XInv, ReadUntil
  PROVE  XInv'
<1> DEFINE e == Envelope(request.op, answer)
<1>1. /\ step = "read" /\ worker = "answered" /\ step' = "done" /\ received' = answer.size + 1
      /\ UNCHANGED <<request, left, worker, budget, hung, answer, broken>>
      /\ \/ answer.size <= MaxLine /\ outcome' = e
         \/ ~ (answer.size <= MaxLine) /\ outcome'.kind = "socket_error"
  BY DEF ReadUntil, Raises, Finish
<1>2. /\ e.kind \notin {"incomplete", "too_large", "socket_error"}
      /\ answer.kind \in {"operation_timeout", "busy"} => e.kind = answer.kind
  BY EnvelopeKind
<1> HIDE DEF e
<1>3. hung => answer.kind \in {"operation_timeout", "busy"} /\ answer.size <= MaxLine
  BY <1>1, ExchangeAssumption DEF XInv, TypedAnswer
<1>4. LineLimit'
  BY <1>1, <1>2 DEF LineLimit
<1>5. DeadlineIsTyped'
  BY <1>1, <1>2, <1>3 DEF DeadlineIsTyped
<1>6. received' \in Nat
  BY <1>1 DEF XInv, Asked
<1> QED BY <1>1, <1>4, <1>5, <1>6, Ended DEF XInv, Asked, AnswerReachesCaller

\* The client asks for at least a piece, and never for more than one beyond the limit.
LEMMA Asks ==
  ASSUME received \in Nat, received <= MaxLine
  PROVE  Wants \in Nat \ {0} /\ received + Wants <= MaxLine + 1
BY ExchangeAssumption DEF Wants, Least

\* The synchronous client counts: the end of the line, one piece too many, or more to come.
LEMMA ReceiveStep ==
  ASSUME XInv, Receive
  PROVE  XInv'
<1> DEFINE e == Envelope(request.op, answer)
           end(n) == n > 0 /\ received' = answer.size + 1
           big(n) == n > 0 /\ received' <= answer.size /\ received' > MaxLine
<1>0. /\ step = "read" /\ worker = "answered"
      /\ UNCHANGED <<request, left, worker, budget, hung, answer, broken>>
  BY DEF Receive
<1>1. /\ received \in Nat /\ answer.size \in Nat \ {0} /\ received <= MaxLine /\ received <= answer.size
      /\ MaxLine \in Nat
  BY <1>0, ExchangeAssumption DEF XInv, Asked, Within
<1>2. Wants \in Nat \ {0} /\ received + Wants <= MaxLine + 1
  BY <1>1, Asks
<1>3. PICK n \in 0..Wants :
         /\ n <= answer.size + 1 - received /\ (n = 0 => Wants = 0) /\ received' = received + n
         /\ CASE n = 0 -> Raises("incomplete")
              [] end(n) -> Finish(e) [] big(n) -> Raises("too_large") [] OTHER -> UNCHANGED <<step, outcome>>
  BY Zenon DEF Receive
<1>4. n # 0 /\ n \in Nat /\ received' \in Nat /\ received' <= MaxLine + 1 /\ received' <= answer.size + 1
  BY <1>1, <1>2, <1>3
<1>5. /\ e.kind \notin {"incomplete", "too_large", "socket_error"}
      /\ answer.kind \in {"operation_timeout", "busy"} => e.kind = answer.kind
  BY EnvelopeKind
<1>6. hung => answer.kind \in {"operation_timeout", "busy"} /\ answer.size = 1
  BY <1>0 DEF XInv, TypedAnswer
<1>7. \/ end(n) /\ Finish(e)
      \/ big(n) /\ Raises("too_large")
      \/ ~ end(n) /\ ~ big(n) /\ UNCHANGED <<step, outcome>>
  <2> HIDE DEF e, end, big
  <2> QED BY Zenon, <1>3, <1>4
<1> HIDE DEF e
<1>8. CASE end(n) /\ Finish(e)
  <2>1. step' = "done" /\ outcome' = e /\ answer.size <= MaxLine
    BY <1>1, <1>4, <1>8 DEF Finish
  <2>2. LineLimit'
    BY <1>0, <1>5, <2>1 DEF LineLimit
  <2>3. DeadlineIsTyped'
    BY <1>0, <1>5, <1>6, <2>1 DEF DeadlineIsTyped
  <2> QED BY <1>0, <1>4, <2>1, <2>2, <2>3, Ended DEF XInv, Asked, AnswerReachesCaller
<1>9. CASE big(n) /\ Raises("too_large")
  <2>1. step' = "done" /\ outcome'.kind = "too_large" /\ ~ (answer.size <= MaxLine)
    BY <1>1, <1>4, <1>9 DEF Finish, Raises
  <2>2. LineLimit'
    BY <1>0, <2>1 DEF LineLimit
  <2>3. DeadlineIsTyped'
    BY <1>0, <1>1, <1>6, <2>1, ExchangeAssumption DEF DeadlineIsTyped
  <2> QED BY <1>0, <1>4, <2>1, <2>2, <2>3, Ended DEF XInv, Asked, AnswerReachesCaller
<1>10. CASE ~ end(n) /\ ~ big(n) /\ UNCHANGED <<step, outcome>>
  <2>1. received' <= answer.size /\ received' <= MaxLine
    BY <1>1, <1>4, <1>10
  <2>2. Asked'
    BY <1>0, <1>4 DEF XInv, Asked
  <2>3. (Fresh /\ Timely)'
    BY <1>0, <1>10 DEF Fresh, Timely
  <2>4. TypedAnswer' /\ AnswerReachesCaller'
    BY <1>0, <1>10 DEF XInv, TypedAnswer, AnswerReachesCaller, DeadlineIsTyped, LineLimit
  <2>5. Within'
    BY <1>0, <1>1, <1>10, <2>1 DEF Within
  <2> QED BY <2>2, <2>3, <2>4, <2>5 DEF XInv
<1> QED BY <1>7, <1>8, <1>9, <1>10

\* Every step of the exchange.
LEMMA ExchangeStep ==
  ASSUME XInv, ExchangeNext \/ UNCHANGED exchangeVars
  PROVE  XInv'
<1>1. CASE UNCHANGED exchangeVars
  <2>1. UNCHANGED <<request, step, left, worker, budget, hung, answer, received, broken, outcome>>
    BY <1>1 DEF exchangeVars
  <2>2. (Roomy' <=> Roomy) /\ (AnswerReachesCaller' <=> AnswerReachesCaller)
    BY <2>1 DEF Roomy, AnswerReachesCaller, DeadlineIsTyped, LineLimit
  <2>3. Asked' /\ Fresh'
    BY <2>1 DEF XInv, Asked, Fresh
  <2>4. Timely' /\ Within' /\ TypedAnswer'
    BY <2>1, <2>2 DEF XInv, Timely, Within, TypedAnswer
  <2> QED BY <2>2, <2>3, <2>4 DEF XInv
<1> QED BY <1>1, CallStep, AdmitStep, OperateStep, ExpireStep, ReapedStep, ReceiveStep, ReadUntilStep,
           BreaksStep, TickStep DEF ExchangeNext
(***************************************************************************)
(* The two together                                                         *)
(***************************************************************************)

\* Both invariants hold of the process, whichever calls it makes.
THEOREM BothInvariant == Spec => [](IInv /\ XInv)
<1>1. Init => IInv /\ XInv
  BY ModifyStarts, ExchangeStarts DEF Init
<1>2. IInv /\ XInv /\ [Next]_<<modifyVars, exchangeVars>> => (IInv /\ XInv)'
  <2> SUFFICES ASSUME IInv, XInv, [Next]_<<modifyVars, exchangeVars>> PROVE IInv' /\ XInv'
    OBVIOUS
  <2>1. ModifyNext \/ UNCHANGED modifyVars
    BY DEF Next
  <2>2. ExchangeNext \/ UNCHANGED exchangeVars
    BY DEF Next
  <2> QED BY <2>1, <2>2, ModifyStep, ExchangeStep
<1> QED BY <1>1, <1>2, PTL DEF Spec

\* _invoke_netclient_modify: no second request is made while one that was given up may still
\* be carried out, and a runtime that was started is stopped.
THEOREM OrderCorrect == Spec => []NativeCallsOrdered
BY BothInvariant, OrderedIfI, PTL

\* sdk_cli and modify_device_ip_by_ip: what a command says it has moved and verified it has.
THEOREM ModifiedCorrect == Spec => []ModifiedTruly
BY BothInvariant, TrulyIfI, PTL

\* RuntimeClient and SyncRuntimeClient: a call whose operation hangs ends with the typed
\* deadline outcome, and exactly the answers within the limit of a line are taken.
THEOREM AnswerCorrect == Spec => []AnswerReachesCaller
<1>1. XInv => AnswerReachesCaller
  BY DEF XInv
<1> QED BY BothInvariant, <1>1, PTL

(***************************************************************************)
(* The sites of an inventory                                                *)
(***************************************************************************)

\* A set of numbers has a least one.
LEMMA LeastNumber ==
  ASSUME NEW X \in SUBSET Nat, X # {}
  PROVE  \E m \in X : \A k \in X : m <= k
<1> DEFINE R == OpToRel(<, Nat)
<1>1. IsWellFoundedOn(R, Nat)
  BY NatLessThanWellFounded DEF OpToRel
<1>2. \A j, k \in Nat : j < k => <<j, k>> \in R
  BY DEF OpToRel
<1> HIDE DEF R
<1>3. PICK m \in X : \A k \in X : <<k, m>> \notin R
  BY <1>1, WFMin
<1>4. \A k \in X : ~ k < m
  BY <1>2, <1>3
<1> QED BY <1>4

\* One step of a walk, and the walk.
Stops(s, goal) == s.at = 0 \/ s.at \in s.seen \/ s.at \in goal
Climb(s, goal, up) ==
  IF Stops(s, goal) THEN s
  ELSE [at |-> IF s.at \in DOMAIN up THEN up[s.at] ELSE 0, seen |-> s.seen \cup {s.at}]
IsWalk(w, n, start, goal, up) ==
  w = [k \in 0..n |-> IF k = 0 THEN [at |-> start, seen |-> {}] ELSE Climb(w[k - 1], goal, up)]

\* A walk of any length exists.
LEMMA WalkExists ==
  ASSUME NEW n \in Nat, NEW start, NEW goal, NEW up
  PROVE  \E w : IsWalk(w, n, start, goal, up)
<1> SUFFICES ASSUME ~ \E w : IsWalk(w, n, start, goal, up) PROVE FALSE
  OBVIOUS
<1> DEFINE X == {k \in Nat : ~ \E w : IsWalk(w, k, start, goal, up)}
<1>1. PICK m \in X : \A k \in X : m <= k
  <2>1. X \in SUBSET Nat /\ X # {}
    OBVIOUS
  <2> HIDE DEF X
  <2> QED BY <2>1, LeastNumber
<1>2. m \in Nat /\ ~ \E w : IsWalk(w, m, start, goal, up)
  BY <1>1
<1>3. \A k \in Nat : k < m => \E w : IsWalk(w, k, start, goal, up)
  BY <1>1
<1>4. CASE m = 0
  <2> DEFINE w == [k \in 0..0 |-> [at |-> start, seen |-> {}]]
  <2>1. w = [k \in 0..0 |-> IF k = 0 THEN [at |-> start, seen |-> {}] ELSE Climb(w[k - 1], goal, up)]
    OBVIOUS
  <2>2. IsWalk(w, 0, start, goal, up)
    BY <2>1 DEF IsWalk
  <2> QED BY <1>2, <1>4, <2>2
<1>5. CASE m # 0
  <2>1. m - 1 \in Nat /\ m - 1 < m
    BY <1>2, <1>5
  <2>2. PICK w : IsWalk(w, m - 1, start, goal, up)
    BY <1>3, <2>1
  <2>3. \A k \in 0..(m - 1) : w[k] = IF k = 0 THEN [at |-> start, seen |-> {}] ELSE Climb(w[k - 1], goal, up)
    BY <2>2 DEF IsWalk
  <2> DEFINE v == [k \in 0..m |-> IF k = m THEN Climb(w[m - 1], goal, up) ELSE w[k]]
  <2>4. ASSUME NEW k \in 0..m
        PROVE  v[k] = IF k = 0 THEN [at |-> start, seen |-> {}] ELSE Climb(v[k - 1], goal, up)
    <3>1. CASE k = m
      <4>1. k # 0 /\ m - 1 \in 0..m /\ m - 1 # m
        BY <1>2, <1>5, <3>1
      <4>2. v[m] = Climb(w[m - 1], goal, up) /\ v[m - 1] = w[m - 1]
        BY <1>2, <4>1
      <4> QED BY <3>1, <4>1, <4>2
    <3>2. CASE k # m
      <4>1. k \in 0..(m - 1) /\ v[k] = w[k]
        BY <1>2, <2>4, <3>2
      <4>2. k # 0 => k - 1 \in 0..m /\ k - 1 # m
        BY <1>2, <4>1
      <4>3. k # 0 => v[k - 1] = w[k - 1]
        BY <4>2
      <4> HIDE DEF v
      <4> QED BY <2>3, <4>1, <4>3
    <3> QED BY <3>1, <3>2
  <2>5. v = [k \in 0..m |-> v[k]]
    OBVIOUS
  <2> HIDE DEF v
  <2>6. IsWalk(v, m, start, goal, up)
    BY <2>4, <2>5 DEF IsWalk
  <2> QED BY <1>2, <2>6
<1> QED BY <1>4, <1>5

\* What Walk returns is read off a walk of its length.
LEMMA WalkIs ==
  ASSUME NEW start, NEW goal, NEW up, Cardinality(DOMAIN up) \in Nat
  PROVE  \E w : /\ IsWalk(w, Cardinality(DOMAIN up) + 1, start, goal, up)
                /\ Walk(start, goal, up) = IF w[Cardinality(DOMAIN up) + 1].at \in goal
                                           THEN w[Cardinality(DOMAIN up) + 1].at ELSE 0
<1> DEFINE n == Cardinality(DOMAIN up) + 1
           w == CHOOSE w : IsWalk(w, n, start, goal, up)
<1>1. n \in Nat
  OBVIOUS
<1>2. IsWalk(w, n, start, goal, up)
  <2> HIDE DEF n
  <2> QED BY <1>1, WalkExists
<1>3. Walk(start, goal, up) = IF w[n].at \in goal THEN w[n].at ELSE 0
  BY DEF Walk, IsWalk, Climb, Stops
<1> QED BY <1>2, <1>3

\* A set of nodes that a walk from start does not leave.
Keeps(Z, start, up) ==
  /\ start \in DOMAIN up => start \in Z
  /\ \A m \in Z : up[m] \in DOMAIN up => up[m] \in Z

\* What a walk has seen after k steps: no goal, and nothing but what is above its start;
\* above what it has seen it has seen all but where it is.  As long as it goes on,
\* each step has seen one more node.
WalkInv(s, k, start, goal, up) ==
  /\ s.at \in Nat /\ s.seen \subseteq Nat \ {0} /\ IsFiniteSet(s.seen)
  /\ s.seen \cap goal = {}
  /\ start \in s.seen \cup {s.at}
  /\ \A m \in s.seen \cap DOMAIN up : up[m] \in s.seen \cup {s.at}
  /\ \A Z \in SUBSET DOMAIN up : Keeps(Z, start, up) => s.at \in Z \/ s.at \notin DOMAIN up
  /\ ~ Stops(s, goal) => s.seen \subseteq DOMAIN up /\ Cardinality(s.seen) = k

\* The first node.
LEMMA WalkBegins ==
  ASSUME NEW start \in Nat, NEW goal, NEW up
  PROVE  WalkInv([at |-> start, seen |-> {}], 0, start, goal, up)
<1> DEFINE s == [at |-> start, seen |-> {}]
<1>1. s.at = start /\ s.seen = {}
  OBVIOUS
<1> HIDE DEF s
<1>2. WalkInv(s, 0, start, goal, up)
  BY <1>1, FS_EmptySet DEF WalkInv, Keeps
<1> QED BY <1>2 DEF s

\* A step.
LEMMA WalkSteps ==
  ASSUME NEW start \in Nat, NEW goal, NEW up, up \in [DOMAIN up -> Nat], DOMAIN up \subseteq Nat \ {0},
         goal \subseteq DOMAIN up, NEW s, NEW k \in Nat, WalkInv(s, k, start, goal, up)
  PROVE  WalkInv(Climb(s, goal, up), k + 1, start, goal, up)
<1>1. CASE Stops(s, goal)
  BY <1>1 DEF Climb, WalkInv
<1>2. CASE ~ Stops(s, goal)
  <2> DEFINE t == Climb(s, goal, up)
             a == s.at
  <2>1. /\ t.at = IF a \in DOMAIN up THEN up[a] ELSE 0
        /\ t.seen = s.seen \cup {a}
    BY <1>2 DEF Climb
  <2>2. a \in Nat /\ a # 0 /\ a \notin s.seen /\ a \notin goal
    BY <1>2 DEF Stops, WalkInv
  <2>3. s.seen \subseteq DOMAIN up /\ Cardinality(s.seen) = k /\ IsFiniteSet(s.seen)
    BY <1>2 DEF WalkInv
  <2> HIDE DEF t
  <2>4. t.at \in Nat /\ t.seen \subseteq Nat \ {0} /\ IsFiniteSet(t.seen)
    <3>1. t.at \in Nat
      BY <2>1
    <3>2. t.seen \subseteq Nat \ {0}
      BY <2>1, <2>2 DEF WalkInv
    <3>3. IsFiniteSet(t.seen)
      BY <2>1, <2>3, FS_AddElement
    <3> QED BY <3>1, <3>2, <3>3
  <2>5. t.seen \cap goal = {} /\ start \in t.seen \cup {t.at}
    BY <2>1, <2>2 DEF WalkInv
  <2>6. ASSUME NEW m \in t.seen \cap DOMAIN up PROVE up[m] \in t.seen \cup {t.at}
    <3>1. CASE m = a
      BY <2>1, <2>6, <3>1
    <3>2. CASE m # a
      <4>1. up[m] \in s.seen \cup {s.at}
        BY <2>1, <2>6, <3>2 DEF WalkInv
      <4> QED BY <2>1, <4>1
    <3> QED BY <3>1, <3>2
  <2>7. ASSUME NEW Z \in SUBSET DOMAIN up, Keeps(Z, start, up) PROVE t.at \in Z \/ t.at \notin DOMAIN up
    <3>1. a \in Z \/ a \notin DOMAIN up
      BY <2>7 DEF WalkInv
    <3>2. CASE a \in Z
      BY <2>1, <2>7, <3>2 DEF Keeps
    <3>3. CASE a \notin DOMAIN up
      BY <2>1, <3>3
    <3> QED BY <3>1, <3>2, <3>3
  <2>8. ASSUME ~ Stops(t, goal) PROVE t.seen \subseteq DOMAIN up /\ Cardinality(t.seen) = k + 1
    <3>1. a \in DOMAIN up
      BY <2>1, <2>8 DEF Stops
    <3>2. Cardinality(s.seen \cup {a}) = Cardinality(s.seen) + 1
      BY <2>2, <2>3, FS_AddElement
    <3> QED BY <2>1, <2>3, <3>1, <3>2
  <2>9. WalkInv(t, k + 1, start, goal, up)
    BY <2>4, <2>5, <2>6, <2>7, <2>8 DEF WalkInv
  <2> QED BY <2>9 DEF t
<1> QED BY <1>1, <1>2

\* Every state of a walk.
LEMMA WalkAlways ==
  ASSUME NEW start \in Nat, NEW goal, NEW up, up \in [DOMAIN up -> Nat], DOMAIN up \subseteq Nat \ {0},
         goal \subseteq DOMAIN up, NEW n \in Nat, NEW w, IsWalk(w, n, start, goal, up)
  PROVE  \A k \in 0..n : WalkInv(w[k], k, start, goal, up)
<1> SUFFICES ASSUME ~ \A k \in 0..n : WalkInv(w[k], k, start, goal, up) PROVE FALSE
  OBVIOUS
<1> DEFINE X == {k \in 0..n : ~ WalkInv(w[k], k, start, goal, up)}
<1>1. PICK m \in X : \A k \in X : m <= k
  <2>1. X \in SUBSET Nat /\ X # {}
    OBVIOUS
  <2> HIDE DEF X
  <2> QED BY <2>1, LeastNumber
<1>2. m \in 0..n /\ ~ WalkInv(w[m], m, start, goal, up)
  BY <1>1
<1>3. \A k \in 0..n : k < m => WalkInv(w[k], k, start, goal, up)
  BY <1>1
<1>4. \A k \in 0..n : w[k] = IF k = 0 THEN [at |-> start, seen |-> {}] ELSE Climb(w[k - 1], goal, up)
  BY DEF IsWalk
<1> HIDE DEF X
<1>5. CASE m = 0
  BY <1>2, <1>4, <1>5, WalkBegins
<1>6. CASE m # 0
  <2>1. m - 1 \in Nat /\ m - 1 \in 0..n /\ m - 1 < m /\ m - 1 + 1 = m
    BY <1>2, <1>6
  <2>2. WalkInv(w[m - 1], m - 1, start, goal, up)
    BY <1>3, <2>1
  <2>3. WalkInv(Climb(w[m - 1], goal, up), m - 1 + 1, start, goal, up)
    BY <2>1, <2>2, WalkSteps
  <2>4. w[m] = Climb(w[m - 1], goal, up)
    BY <1>2, <1>4, <1>6
  <2> QED BY <1>2, <2>1, <2>3, <2>4
<1> QED BY <1>5, <1>6

\* Where a walk ends: at its goal, which is in every set the walk does not leave, or
\* nowhere, if above its start there is no goal.
WalkEnd(r, start, goal, up) ==
  /\ r \in goal \cup {0}
  /\ \E seen \in SUBSET (Nat \ {0}) :
       /\ seen \cap goal = {} /\ start \in seen \cup {r}
       /\ \A m \in seen \cap DOMAIN up : up[m] \in seen \cup {r, 0}
  /\ r # 0 => \A Z \in SUBSET DOMAIN up : Keeps(Z, start, up) => r \in Z

\* It ends there, for as many steps as there are nodes are enough.
LEMMA WalkSays ==
  ASSUME NEW start \in Nat, NEW goal, NEW up, up \in [DOMAIN up -> Nat], DOMAIN up \subseteq Nat \ {0},
         IsFiniteSet(DOMAIN up), goal \subseteq DOMAIN up
  PROVE  WalkEnd(Walk(start, goal, up), start, goal, up)
<1> DEFINE c == Cardinality(DOMAIN up)
           r == Walk(start, goal, up)
<1>1. c \in Nat
  BY FS_CardinalityType
<1>2. PICK w : IsWalk(w, c + 1, start, goal, up) /\ r = IF w[c + 1].at \in goal THEN w[c + 1].at ELSE 0
  BY <1>1, WalkIs
<1> DEFINE e == w[c + 1]
<1> HIDE DEF r
<1>3. WalkInv(e, c + 1, start, goal, up)
  <2>1. c + 1 \in Nat /\ c + 1 \in 0..(c + 1)
    BY <1>1
  <2> HIDE DEF c
  <2> QED BY <1>2, <2>1, WalkAlways
<1>4. Stops(e, goal)
  <2> SUFFICES ASSUME ~ Stops(e, goal) PROVE FALSE
    OBVIOUS
  <2>1. e.seen \subseteq DOMAIN up /\ Cardinality(e.seen) = c + 1
    BY <1>3 DEF WalkInv
  <2>2. Cardinality(e.seen) <= c
    BY <2>1, FS_Subset
  <2> QED BY <1>1, <2>1, <2>2
<1> HIDE DEF e
<1>5. r = IF e.at \in goal THEN e.at ELSE 0
  BY <1>2 DEF e
<1>6. r \in goal \cup {0}
  BY <1>5
<1>7. e.at = r \/ (r = 0 /\ e.at \in e.seen)
  BY <1>4, <1>5 DEF Stops
<1>8. e.seen \in SUBSET (Nat \ {0}) /\ e.seen \cap goal = {} /\ start \in e.seen \cup {r}
  BY <1>3, <1>7 DEF WalkInv
<1>9. \A m \in e.seen \cap DOMAIN up : up[m] \in e.seen \cup {r, 0}
  BY <1>3, <1>7 DEF WalkInv
<1>10. ASSUME r # 0, NEW Z \in SUBSET DOMAIN up, Keeps(Z, start, up) PROVE r \in Z
  <2>1. r = e.at /\ e.at \in goal
    BY <1>5, <1>10
  <2> QED BY <1>3, <1>10, <2>1 DEF WalkInv
<1>11. WalkEnd(r, start, goal, up)
  BY <1>6, <1>8, <1>9, <1>10 DEF WalkEnd
<1> QED BY <1>11 DEF r

\* A walk up a resource list.
LEMMA UpSays ==
  ASSUME NEW res, ResourceList(res), NEW S \in SUBSET DOMAIN res, NEW goal \in SUBSET S, NEW start \in Nat
  PROVE  WalkEnd(Walk(start, goal, Up(res, S)), start, goal, Up(res, S)) /\ DOMAIN Up(res, S) = S
<1> DEFINE up == Up(res, S)
<1>1. up \in [S -> Nat] /\ DOMAIN up = S
  BY DEF Up, ResourceList
<1>2. IsFiniteSet(S) /\ S \subseteq Nat \ {0}
  BY FS_Subset DEF ResourceList
<1> HIDE DEF up
<1>3. WalkEnd(Walk(start, goal, up), start, goal, up)
  BY <1>1, <1>2, WalkSays
<1> QED BY <1>1, <1>3 DEF up

\* What is above a node, seen from the sets that the walks do not leave.
LEMMA AboveInClosed ==
  ASSUME NEW res, NEW n, NEW Y \in SUBSET DOMAIN res, UpwardClosed(res, n, Y)
  PROVE  Ancestors(res, n) \subseteq Y
BY DEF Ancestors

\* The area found by way of the nodes between is above the node, and so is the site root
\* found from it; if none is found, there is none.
LEMMA ViaAreaSays ==
  ASSUME NEW res, ResourceList(res), NEW n \in DOMAIN res
  PROVE  /\ ViaArea(res, n) \in SiteRoots(res) \cup {0}
         /\ ViaArea(res, n) # 0 => ViaArea(res, n) \in Ancestors(res, n)
         /\ ViaArea(res, n) = 0 => Ancestors(res, n) \cap SiteRoots(res) = {}
<1> DEFINE p == res[n].parent
           D == DOMAIN res
           a == NearestArea(res, n)
           r == FindSiteRoot(res, a)
           up1 == Up(res, D)
           up2 == Up(res, Areas(res))
<1>1. /\ D \subseteq Nat \ {0} /\ p \in Nat /\ Areas(res) \subseteq D
      /\ SiteRoots(res) = {m \in Areas(res) : res[m].parent \notin Areas(res)}
  BY DEF ResourceList, Areas, OfType, SiteRoots
<1>2. ViaArea(res, n) = IF a = 0 THEN 0 ELSE r
  BY DEF ViaArea
<1>3. WalkEnd(a, p, Areas(res), up1) /\ DOMAIN up1 = D
  <2>1. Areas(res) \in SUBSET D /\ D \in SUBSET DOMAIN res
    BY <1>1
  <2> QED BY <1>1, <2>1, UpSays DEF NearestArea
<1>4. a \in Areas(res) \cup {0}
  BY <1>3 DEF WalkEnd
<1>5. a # 0 => WalkEnd(r, a, SiteRoots(res), up2) /\ DOMAIN up2 = Areas(res)
  <2>1. SiteRoots(res) \in SUBSET Areas(res) /\ Areas(res) \in SUBSET DOMAIN res
    BY <1>1
  <2>2. a \in Nat
    BY <1>1, <1>4
  <2> HIDE DEF a
  <2> QED BY <2>1, <2>2, UpSays DEF FindSiteRoot
<1>6. \A m \in D : up1[m] = IF res[m].parent = m THEN 0 ELSE res[m].parent
  BY DEF Up
<1>7. \A m \in Areas(res) : up2[m] = IF res[m].parent = m THEN 0 ELSE res[m].parent
  BY DEF Up
<1> HIDE DEF a, r, up1, up2
<1>8. 0 \notin D
  BY <1>1
<1>9. a # 0 => r \in SiteRoots(res) \cup {0}
  BY <1>5 DEF WalkEnd
<1>10. ASSUME a # 0, r # 0 PROVE r \in Ancestors(res, n)
  <2>1. SUFFICES ASSUME NEW S \in SUBSET D, UpwardClosed(res, n, S) PROVE r \in S
    BY <1>1, <1>9, <1>10 DEF Ancestors
  <2>2. p \in D => p \in S
    BY <2>1 DEF UpwardClosed
  <2>3. \A m \in S : res[m].parent \in D => res[m].parent \in S
    BY <2>1 DEF UpwardClosed
  <2>4. Keeps(S, p, up1)
    BY <1>3, <1>6, <1>8, <2>2, <2>3 DEF Keeps
  <2>5. a \in S
    BY <1>3, <1>10, <2>4 DEF WalkEnd
  <2>6. Keeps(S \cap Areas(res), a, up2)
    BY <1>1, <1>5, <1>7, <1>8, <1>10, <2>3, <2>5 DEF Keeps
  <2>7. S \cap Areas(res) \in SUBSET DOMAIN up2
    BY <1>5, <1>10
  <2>8. r \in S \cap Areas(res)
    BY <1>5, <1>10, <2>6, <2>7 DEF WalkEnd
  <2> QED BY <2>8
<1>11. PICK seen \in SUBSET (Nat \ {0}) :
         /\ seen \cap Areas(res) = {} /\ p \in seen \cup {a}
         /\ \A m \in seen \cap D : up1[m] \in seen \cup {a, 0}
  BY <1>3 DEF WalkEnd
<1>12. ASSUME a = 0 PROVE Ancestors(res, n) \cap SiteRoots(res) = {}
  <2> DEFINE Y == seen \cap D
  <2>1. p \in D => p \in Y
    BY <1>8, <1>11, <1>12
  <2>2. ASSUME NEW m \in Y, res[m].parent \in D PROVE res[m].parent \in Y
    BY <1>6, <1>8, <1>11, <1>12, <2>2
  <2>3. UpwardClosed(res, n, Y)
    BY <2>1, <2>2 DEF UpwardClosed
  <2>4. Ancestors(res, n) \subseteq Y
    BY <2>3, AboveInClosed
  <2> QED BY <1>1, <1>11, <2>4
<1>13. ASSUME a # 0, r = 0 PROVE Ancestors(res, n) \cap SiteRoots(res) = {}
  <2>1. PICK more \in SUBSET (Nat \ {0}) :
          /\ more \cap SiteRoots(res) = {} /\ a \in more \cup {r}
          /\ \A m \in more \cap Areas(res) : up2[m] \in more \cup {r, 0}
    BY <1>5, <1>13 DEF WalkEnd
  <2> DEFINE Y == (seen \cap D) \cup (more \cap Areas(res))
  <2>2. a \in more \cap Areas(res)
    BY <1>4, <1>13, <2>1
  <2>3. p \in D => p \in Y
    BY <1>11, <2>2
  <2>4. ASSUME NEW m \in seen \cap D, res[m].parent \in D PROVE res[m].parent \in Y
    BY <1>6, <1>8, <1>11, <2>2, <2>4
  <2>5. ASSUME NEW m \in more \cap Areas(res) PROVE res[m].parent \in Y
    <3>1. res[m].parent \in Areas(res)
      BY <1>1, <2>1, <2>5
    <3> QED BY <1>1, <1>7, <1>8, <1>13, <2>1, <2>5, <3>1
  <2>6. UpwardClosed(res, n, Y)
    BY <2>3, <2>4, <2>5 DEF UpwardClosed
  <2>7. Ancestors(res, n) \subseteq Y
    <3>1. Y \in SUBSET D
      BY <1>1
    <3> HIDE DEF Y
    <3> QED BY <2>6, <3>1, AboveInClosed
  <2> QED BY <1>1, <1>11, <2>1, <2>7
<1> QED BY <1>2, <1>9, <1>10, <1>12, <1>13

\* What is above the device of a channel is above the channel.
LEMMA AboveParent ==
  ASSUME NEW res, NEW n \in DOMAIN res, res[n].parent \in DOMAIN res
  PROVE  Ancestors(res, res[n].parent) \subseteq Ancestors(res, n)
<1> DEFINE p == res[n].parent
<1>1. ASSUME NEW S \in SUBSET DOMAIN res, UpwardClosed(res, n, S) PROVE UpwardClosed(res, p, S)
  BY <1>1 DEF UpwardClosed
<1> QED BY <1>1 DEF Ancestors

\* The site of a device or channel is a root above it, or the synthetic one.
LEMMA SiteOfSays ==
  ASSUME NEW res, ResourceList(res), NEW n \in DOMAIN res
  PROVE  /\ SiteOf(res, n) \in SiteRoots(res) \cup {0}
         /\ SiteOf(res, n) # 0 => SiteOf(res, n) \in Ancestors(res, n)
         /\ SiteOf(res, n) = 0 => Ancestors(res, n) \cap SiteRoots(res) = {}
<1> DEFINE p == res[n].parent
<1>1. CASE n \in Channels(res) /\ p \in Devices(res) /\ ViaArea(res, p) # 0
  <2>1. p \in DOMAIN res /\ SiteOf(res, n) = ViaArea(res, p)
    BY <1>1 DEF SiteOf, Devices, OfType
  <2>2. ViaArea(res, p) \in SiteRoots(res) \cup {0} /\ ViaArea(res, p) \in Ancestors(res, p)
    BY <1>1, <2>1, ViaAreaSays
  <2> QED BY <1>1, <2>1, <2>2, AboveParent
<1>2. CASE ~ (n \in Channels(res) /\ p \in Devices(res) /\ ViaArea(res, p) # 0)
  <2>1. SiteOf(res, n) = ViaArea(res, n)
    BY <1>2 DEF SiteOf
  <2> QED BY <2>1, ViaAreaSays
<1> QED BY <1>1, <1>2

\* The device or channel is in one site, which is above it unless it is the synthetic one.
LEMMA PlacedOnce ==
  ASSUME NEW res, ResourceList(res), NEW n \in Devices(res) \cup Channels(res)
  PROVE  {s \in DOMAIN Sites(res) : n \in Sites(res)[s]} = {SiteOf(res, n)}
<1>1. n \in DOMAIN res
  BY DEF Devices, Channels, OfType
<1>2. DOMAIN Sites(res) = SiteRoots(res) \cup {0} /\ SiteOf(res, n) \in SiteRoots(res) \cup {0}
  BY <1>1, SiteOfSays DEF Sites
<1>3. \A s \in SiteRoots(res) \cup {0} : n \in Sites(res)[s] <=> SiteOf(res, n) = s
  BY DEF Sites
<1> QED BY <1>2, <1>3

\* Every device has one health.
LEMMA HealthIs ==
  ASSUME NEW res, NEW d, NEW events
  PROVE  Health(res, d, events) \in {"ONLINE", "DEGRADED", "OFFLINE"}
BY DEF Health

\* The summary counts every device once.
LEMMA SummaryCounts ==
  ASSUME NEW res, ResourceList(res), NEW events
  PROVE  Summary(res, events)["ONLINE"] + Summary(res, events)["DEGRADED"] + Summary(res, events)["OFFLINE"]
           = Cardinality(Devices(res))
<1> DEFINE In(status) == {d \in Devices(res) : Health(res, d, events) = status}
<1>1. IsFiniteSet(Devices(res))
  <2>1. Devices(res) \in SUBSET DOMAIN res
    BY DEF Devices, OfType
  <2> QED BY <2>1, FS_Subset DEF ResourceList
<1>2. \A status : IsFiniteSet(In(status))
  BY <1>1, FS_Subset
<1>3. \A status : Cardinality(In(status)) \in Nat
  BY <1>2, FS_CardinalityType
<1>4. In("ONLINE") \cap In("DEGRADED") = {} /\ (In("ONLINE") \cup In("DEGRADED")) \cap In("OFFLINE") = {}
  OBVIOUS
<1>5. Devices(res) = (In("ONLINE") \cup In("DEGRADED")) \cup In("OFFLINE")
  BY HealthIs
<1>6. /\ Summary(res, events)["ONLINE"] = Cardinality(In("ONLINE"))
      /\ Summary(res, events)["DEGRADED"] = Cardinality(In("DEGRADED"))
      /\ Summary(res, events)["OFFLINE"] = Cardinality(In("OFFLINE"))
  BY DEF Summary
<1> HIDE DEF In
<1>7. IsFiniteSet(In("ONLINE") \cup In("DEGRADED"))
      /\ Cardinality(In("ONLINE") \cup In("DEGRADED")) = Cardinality(In("ONLINE")) + Cardinality(In("DEGRADED"))
  <2>1. Cardinality(In("ONLINE") \cup In("DEGRADED"))
          = Cardinality(In("ONLINE")) + Cardinality(In("DEGRADED")) - Cardinality({})
    BY <1>2, <1>4, FS_Union
  <2>2. IsFiniteSet(In("ONLINE") \cup In("DEGRADED"))
    BY <1>2, FS_Union
  <2> QED BY <1>3, <2>1, <2>2, FS_EmptySet
<1>8. Cardinality(Devices(res)) = Cardinality(In("ONLINE") \cup In("DEGRADED")) + Cardinality(In("OFFLINE")) - Cardinality({})
  BY <1>2, <1>4, <1>5, <1>7, FS_Union
<1> QED BY <1>3, <1>6, <1>7, <1>8, FS_EmptySet

\* A device is healthy exactly if it has no issue of its own.
LEMMA HealthyHasNoIssue ==
  ASSUME NEW res, ResourceList(res), NEW d \in Devices(res), NEW events
  PROVE  Health(res, d, events) = "ONLINE" <=> Issues(res, d, events, {}) = {}
<1> DEFINE all == ChannelsOf(res, d)
           up == {c \in all : res[c].online}
           I == Issues(res, d, events, {})
<1>1. Health(res, d, events) = "ONLINE" <=> res[d].online /\ ~ (all # {} /\ up = {}) /\ up = all /\ d \notin events
  BY DEF Health
<1>2. up = all <=> ~ \E c \in all : ~ res[c].online
  OBVIOUS
<1>3. /\ "device_offline" \in I <=> ~ res[d].online
      /\ "channels_offline" \in I <=> \E c \in all : ~ res[c].online
      /\ "alarm_events" \in I <=> d \in events
      /\ "server_offline" \notin I
  BY DEF Issues
<1>4. I \subseteq {"device_offline", "channels_offline", "alarm_events", "server_offline"}
  BY DEF Issues
<1> HIDE DEF I
<1>5. I = {} <=> res[d].online /\ (~ \E c \in all : ~ res[c].online) /\ d \notin events
  BY <1>3, <1>4
<1> QED BY <1>1, <1>2, <1>5 DEF I

\* The inventory of a list is truthful.
LEMMA InventoryTruthful ==
  ASSUME NEW l \in Lists, request.op = "inventorySnapshot", outcome.value = InventoryOf(l)
  PROVE  SitesTruthful
<1> DEFINE v == outcome.value
           held(n) == {s \in DOMAIN v.sites : n \in v.sites[s]}
           roots(n) == {a \in Areas(v.list) : a \in Ancestors(v.list, n) /\ v.list[a].parent \notin Areas(v.list)}
<1>1. v.list = l /\ v.sites = Sites(l) /\ v.summary = Summary(l, {}) /\ ResourceList(l)
  BY ListsAssumption DEF InventoryOf
<1> HIDE DEF v
<1>2. ASSUME NEW n \in Devices(l) \cup Channels(l)
      PROVE  /\ Cardinality(held(n)) = 1
             /\ held(n) # {0} => held(n) \subseteq roots(n)
             /\ held(n) = {0} => roots(n) = {}
  <2>1. held(n) = {SiteOf(l, n)}
    BY <1>1, <1>2, PlacedOnce
  <2>2. n \in DOMAIN l
    BY DEF Devices, Channels, OfType
  <2>3. roots(n) = Ancestors(l, n) \cap SiteRoots(l)
    BY <1>1 DEF SiteRoots
  <2> HIDE DEF held, roots
  <2>4. Cardinality(held(n)) = 1
    BY <2>1, FS_Singleton
  <2>5. held(n) # {0} => held(n) \subseteq roots(n)
    BY <1>1, <2>1, <2>2, <2>3, SiteOfSays
  <2>6. held(n) = {0} => roots(n) = {}
    BY <1>1, <2>1, <2>2, <2>3, SiteOfSays
  <2> QED BY <2>4, <2>5, <2>6
<1>3. v.summary["ONLINE"] + v.summary["DEGRADED"] + v.summary["OFFLINE"] = Cardinality(Devices(v.list))
  BY <1>1, SummaryCounts
<1>4. \A events \in SUBSET Devices(l), d \in Devices(l) : Health(l, d, events) = "ONLINE" <=> Issues(l, d, events, {}) = {}
  BY <1>1, HealthyHasNoIssue
<1>5. \A n \in Devices(v.list) \cup Channels(v.list) :
        /\ Cardinality(held(n)) = 1
        /\ held(n) # {0} => held(n) \subseteq roots(n)
        /\ held(n) = {0} => roots(n) = {}
  BY <1>1, <1>2
<1> QED BY <1>1, <1>3, <1>4, <1>5 DEF SitesTruthful, v

\* The inventories of the lists.
Inventories == {InventoryOf(l) : l \in Lists}

\* What the runtime answers to an inventory is a body it may have, and what the caller
\* gets is the inventory of a list.
InventoryInv ==
  request.op = "inventorySnapshot" =>
    /\ answer.kind = "ok" => answer.body \in Bodies("inventorySnapshot")
    /\ outcome.kind = "value" => outcome.value \in Inventories

\* The parser takes no other body.
LEMMA InventoryParsed ==
  ASSUME NEW a, a.kind = "ok" => a.body \in Bodies("inventorySnapshot"),
         Envelope("inventorySnapshot", a).kind = "value"
  PROVE  Envelope("inventorySnapshot", a).value \in Inventories
<1>1. a.kind = "ok" /\ InventoryOk(a.body)
      /\ Envelope("inventorySnapshot", a) = [kind |-> "value", value |-> Returned("inventorySnapshot", a.body)]
  <2>1. a.kind = "ok"
    BY DEF Envelope
  <2>2. Parsed("inventorySnapshot", a.body) /\ Envelope("inventorySnapshot", a) = [kind |-> "value", value |-> Returned("inventorySnapshot", a.body)]
    BY <2>1 DEF Envelope
  <2>3. Parsed("inventorySnapshot", a.body) <=> InventoryOk(a.body)
    BY DEF Parsed
  <2> QED BY <2>1, <2>2, <2>3
<1>2. Returned("inventorySnapshot", a.body) = a.body
  BY DEF Returned
<1>3. \/ a.body \in Inventories
      \/ a.body.fetch = [s \in Sections \ {"areas"} |-> "ok"]
  <2>1. a.body \in Inventories \cup
           [GoodFields : {TRUE}, fetch : {[s \in Sections \ {"areas"} |-> "ok"]}, list : {<<>>}, sites : {<<>>}, summary : {<<>>}]
    BY <1>1 DEF Bodies, Inventories
  <2> QED BY <2>1
<1>4. "areas" \in Sections /\ DOMAIN [s \in Sections \ {"areas"} |-> "ok"] # Sections
  BY DEF Sections
<1>5. DOMAIN a.body.fetch = Sections
  BY <1>1 DEF InventoryOk
<1>6. a.body \in Inventories
  BY <1>3, <1>4, <1>5
<1> QED BY <1>1, <1>2, <1>6

\* A runtime has something to answer.
LEMMA SomeBody ==
  (CHOOSE b \in Bodies("inventorySnapshot") : TRUE) \in Bodies("inventorySnapshot")
<1> DEFINE b == [GoodFields |-> TRUE, fetch |-> [s \in Sections \ {"areas"} |-> "ok"], list |-> <<>>, sites |-> <<>>, summary |-> <<>>]
<1>1. b \in [GoodFields : {TRUE}, fetch : {[s \in Sections \ {"areas"} |-> "ok"]}, list : {<<>>}, sites : {<<>>}, summary : {<<>>}]
  OBVIOUS
<1> HIDE DEF b
<1>2. b \in Bodies("inventorySnapshot")
  BY <1>1 DEF Bodies
<1> QED BY <1>2

\* What a step of the exchange does to an answer and an outcome.
LEMMA AnswersAndOutcomes ==
  ASSUME ExchangeNext \/ UNCHANGED exchangeVars
  PROVE  \/ answer'.kind # "ok" /\ outcome'.kind # "value"
         \/ /\ request' = request
            /\ \/ answer' = answer \/ answer'.kind # "ok" \/ answer'.body \in Bodies(request.op)
               \/ answer'.body = CHOOSE b \in Bodies(request.op) : TRUE
            /\ outcome' = outcome \/ outcome'.kind # "value" \/ outcome' = Envelope(request.op, answer)
<1>1. CASE Call
  <2>1. answer' = NoAnswer /\ (outcome' = NoOutcome \/ outcome' = [kind |-> "value_error", value |-> <<>>])
    BY <1>1 DEF Call, Raises, Finish
  <2> QED BY <2>1 DEF NoAnswer, NoOutcome
<1>2. CASE Admit
  BY <1>2 DEF Admit
<1>3. CASE Operate
  <2>1. request' = request /\ outcome' = outcome
    BY <1>3 DEF Operate, Answers
  <2>2. PICK k, n, b : /\ Answers(k, n, b)
                       /\ k = "ok" => b \in Bodies(request.op) \/ b = CHOOSE e \in Bodies(request.op) : TRUE
    BY <1>3 DEF Operate
  <2>3. answer' = [kind |-> k, size |-> n, body |-> b]
    BY <2>2 DEF Answers
  <2> QED BY <2>1, <2>2, <2>3
<1>4. CASE Expire
  BY <1>4 DEF Expire
<1>5. CASE Reaped
  <2>1. Answers("operation_timeout", 1, <<>>)
    BY <1>5 DEF Reaped
  <2> QED BY <2>1 DEF Answers
<1>6. CASE Receive
  <2>1. request' = request /\ answer' = answer
    BY <1>6 DEF Receive
  <2>2. \/ outcome' = outcome \/ outcome' = Envelope(request.op, answer)
        \/ outcome' = [kind |-> "incomplete", value |-> <<>>] \/ outcome' = [kind |-> "too_large", value |-> <<>>]
    BY <1>6 DEF Receive, Raises, Finish
  <2> QED BY <2>1, <2>2
<1>7. CASE ReadUntil
  BY <1>7 DEF ReadUntil, Raises, Finish
<1>8. CASE Breaks
  BY <1>8 DEF Breaks, Raises, Finish
<1>9. CASE Tick
  BY <1>9 DEF Tick, Raises, Finish
<1>10. CASE UNCHANGED exchangeVars
  BY <1>10 DEF exchangeVars
<1> QED BY <1>1, <1>2, <1>3, <1>4, <1>5, <1>6, <1>7, <1>8, <1>9, <1>10 DEF ExchangeNext

\* Every step keeps the invariant.
LEMMA InventoryStep ==
  ASSUME InventoryInv, ExchangeNext \/ UNCHANGED exchangeVars
  PROVE  InventoryInv'
<1> SUFFICES ASSUME request'.op = "inventorySnapshot"
             PROVE  /\ answer'.kind = "ok" => answer'.body \in Bodies("inventorySnapshot")
                    /\ outcome'.kind = "value" => outcome'.value \in Inventories
  BY DEF InventoryInv, Inventories
<1>1. CASE answer'.kind # "ok" /\ outcome'.kind # "value"
  BY <1>1
<1>2. CASE /\ request' = request
           /\ \/ answer' = answer \/ answer'.kind # "ok" \/ answer'.body \in Bodies(request.op)
              \/ answer'.body = CHOOSE b \in Bodies(request.op) : TRUE
           /\ outcome' = outcome \/ outcome'.kind # "value" \/ outcome' = Envelope(request.op, answer)
  <2>1. request.op = "inventorySnapshot"
    BY <1>2
  <2>2. answer'.kind = "ok" => answer'.body \in Bodies("inventorySnapshot")
    BY <1>2, <2>1, SomeBody DEF InventoryInv
  <2>3. outcome'.kind = "value" => outcome'.value \in Inventories
    BY <1>2, <2>1, InventoryParsed DEF InventoryInv
  <2> QED BY <2>2, <2>3
<1> QED BY <1>1, <1>2, AnswersAndOutcomes

\* RuntimeClient.platform_inventory_snapshot, build_site_topology and compute_device_health:
\* whatever tree of resources the server lists, cycles and parents that are not in it
\* included, the caller finds every device and channel in one site.
THEOREM SitesCorrect == Spec => []SitesTruthful
<1>1. Init => InventoryInv
  <2>1. ASSUME NEW n, ExchangeInit(n) PROVE InventoryInv
    BY <2>1 DEF ExchangeInit, InventoryInv, NoRequest
  <2> QED BY <2>1 DEF Init
<1>2. InventoryInv /\ [Next]_<<modifyVars, exchangeVars>> => InventoryInv'
  <2> SUFFICES ASSUME InventoryInv, [Next]_<<modifyVars, exchangeVars>> PROVE InventoryInv'
    OBVIOUS
  <2>1. ExchangeNext \/ UNCHANGED exchangeVars
    BY DEF Next
  <2> QED BY <2>1, InventoryStep
<1>3. InventoryInv => SitesTruthful
  <2> SUFFICES ASSUME InventoryInv, request.op = "inventorySnapshot", outcome.kind = "value" PROVE SitesTruthful
    BY DEF SitesTruthful
  <2>1. PICK l \in Lists : outcome.value = InventoryOf(l)
    BY DEF InventoryInv, Inventories
  <2> QED BY <2>1, InventoryTruthful
<1> QED BY <1>1, <1>2, <1>3, PTL DEF Spec


(***************************************************************************)
(* Delivery                                                                 *)
(***************************************************************************)

\* The type invariant in three parts.
FlagsFit ==
  /\ on \in BOOLEAN /\ uncertain \in BOOLEAN
  /\ unsettled \in BOOLEAN /\ polled \in BOOLEAN
  /\ calm \in BOOLEAN /\ careful \in BOOLEAN
  /\ proxy \in {"none", "attached", "closed"}

NumbersFit ==
  /\ arrived \in 0 .. Events /\ sent \in 0 .. arrived
  /\ retained \in 0 .. sent /\ pending \in 0 .. sent /\ got \in 0 .. sent
  /\ acked \in SUBSET Event /\ persisted \in SUBSET Event

MessagesFit == call \in AnyCall /\ late \in SUBSET AnyCall

\* What is in the application's hands is what the proxy has pending.
HeldIsPending == proxy = "attached" /\ got # 0 => pending = got

\* Every acknowledgement on its way, awaited or late, is of a stored event.
AcksAreOfStored ==
  /\ call.op = "ack" => call.seq \in persisted
  /\ \A r \in late : r.op = "ack" => r.seq \in persisted

\* The proxy polls and acknowledges while it is attached, and an answered poll
\* carries a delivery the runtime has made.
CallsFit ==
  /\ call.op \in {"poll", "ack", "stop", "discard"} => proxy = "attached"
  /\ call.seq <= sent

DInv == /\ FlagsFit /\ NumbersFit /\ MessagesFit
        /\ acked \subseteq persisted /\ HeldIsPending /\ AcksAreOfStored /\ CallsFit

\* Initially nothing has arrived.
LEMMA InitHolds == StreamInit => DInv
<1> SUFFICES ASSUME StreamInit PROVE DInv
  OBVIOUS
<1>1. FlagsFit
  BY DEF StreamInit, FlagsFit
<1>2. NumbersFit
  BY StreamAssumption DEF StreamInit, NumbersFit, Event
<1>3. MessagesFit
  BY StreamAssumption DEF StreamInit, MessagesFit, NoCall, AnyCall
<1>4. HeldIsPending /\ AcksAreOfStored /\ CallsFit /\ acked \subseteq persisted
  BY DEF StreamInit, HeldIsPending, AcksAreOfStored, CallsFit, NoCall
<1> QED BY <1>1, <1>2, <1>3, <1>4 DEF DInv

\* What a request does in the runtime, whoever waits for it: it acknowledges only a
\* stored event and keeps the numbers in order.
LEMMA EffectKeeps ==
  ASSUME NumbersFit, acked \subseteq persisted,
         NEW r \in AnyCall, r.op = "ack" => r.seq \in persisted, Effect(r)
  PROVE  /\ sent' \in 0 .. arrived /\ sent <= sent'
         /\ retained' \in 0 .. sent'
         /\ acked' \subseteq persisted
         /\ r.op = "poll" => Delivery \in 0 .. sent'
<1> USE StreamAssumption DEF NumbersFit
<1>1. Delivery \in 0 .. arrived
  BY DEF Delivery
<1>2. CASE StartStream(r)
  BY <1>2 DEF StartStream
<1>3. CASE Poll(r)
  BY <1>1, <1>3 DEF Poll
<1>4. CASE Acknowledge(r)
  <2>1. sent' = sent /\ acked' = acked \cup {r.seq} /\ retained' \in {retained, 0} /\ r.op = "ack"
    BY <1>4 DEF Acknowledge
  <2> QED BY <2>1
<1>5. CASE StopStream(r)
  <2>1. sent' = arrived /\ retained' = 0 /\ acked' = acked /\ r.op # "poll"
    BY <1>5 DEF StopStream
  <2> QED BY <2>1
<1> QED BY <1>2, <1>3, <1>4, <1>5 DEF Effect

\* A request leaves the stream there or not.
LEMMA EffectOn ==
  ASSUME FlagsFit, NEW r \in AnyCall, Effect(r) PROVE on' \in BOOLEAN
BY DEF FlagsFit, Effect, StartStream, Poll, Acknowledge, StopStream

\* The steps of the runtime.
LEMMA RuntimeStep ==
  ASSUME DInv, Arrive \/ Serve \/ \E r \in late : ServeLate(r)
  PROVE  DInv'
<1> USE DEF DInv
<1>1. CASE Arrive
  <2>1. FlagsFit' /\ MessagesFit'
    BY <1>1 DEF Arrive, FlagsFit, MessagesFit, proxyState, app, habits
  <2>2. NumbersFit'
    BY <1>1, StreamAssumption DEF Arrive, NumbersFit, proxyState, app, habits
  <2>3. (acked \subseteq persisted /\ HeldIsPending /\ AcksAreOfStored /\ CallsFit)'
    BY <1>1 DEF Arrive, HeldIsPending, AcksAreOfStored, CallsFit, proxyState, app
  <2> QED BY <2>1, <2>2, <2>3
<1>2. CASE Serve
  <2> DEFINE n == IF call.op = "poll" THEN Delivery ELSE call.seq
  <2>1. call \in AnyCall /\ (call.op = "ack" => call.seq \in persisted)
    BY DEF MessagesFit, AcksAreOfStored
  <2>2. /\ call' = [call EXCEPT !.seq = n, !.answered = TRUE]
        /\ Effect(call)
        /\ UNCHANGED <<arrived, proxy, pending, uncertain, late, app>>
    BY <1>2 DEF Serve, Answer
  <2>3. /\ sent' \in 0 .. arrived /\ sent <= sent'
        /\ retained' \in 0 .. sent'
        /\ acked' \subseteq persisted
        /\ call.op = "poll" => Delivery \in 0 .. sent'
    BY <2>1, <2>2, EffectKeeps
  <2>4. call.seq \in 0 .. sent'
    BY <2>1, <2>3, StreamAssumption DEF CallsFit, NumbersFit, AnyCall
  <2>5. n \in 0 .. sent' /\ (call.op # "poll" => n = call.seq)
    BY <2>3, <2>4
  <2>6. n \in 0 .. Events
    BY <2>3, <2>5, StreamAssumption DEF NumbersFit
  <2>7. call' \in AnyCall /\ call'.op = call.op /\ call'.seq = n
    BY <2>1, <2>2, <2>6 DEF AnyCall
  <2>8. on' \in BOOLEAN
    BY <2>1, <2>2, EffectOn
  <2>9. FlagsFit' /\ MessagesFit'
    BY <2>2, <2>7, <2>8 DEF FlagsFit, MessagesFit, app, habits
  <2>10. NumbersFit'
    BY <2>2, <2>3, StreamAssumption DEF NumbersFit, app
  <2>11. (HeldIsPending /\ AcksAreOfStored)'
    BY <2>2, <2>5, <2>7 DEF HeldIsPending, AcksAreOfStored, app
  <2>12. CallsFit'
    BY <2>2, <2>5, <2>7 DEF CallsFit
  <2> QED BY <2>3, <2>9, <2>10, <2>11, <2>12, <2>2 DEF app
<1>3. ASSUME NEW r \in late, ServeLate(r) PROVE DInv'
  <2>1. r \in AnyCall /\ (r.op = "ack" => r.seq \in persisted)
    BY DEF MessagesFit, AcksAreOfStored
  <2>2. /\ sent' \in 0 .. arrived /\ sent <= sent'
        /\ retained' \in 0 .. sent'
        /\ acked' \subseteq persisted
        /\ on' \in BOOLEAN
    <3>1. CASE Effect(r)
      BY <2>1, <3>1, EffectKeeps, EffectOn
    <3>2. CASE UNCHANGED <<on, sent, retained, acked>>
      <4>1. on' \in BOOLEAN
        BY <3>2 DEF FlagsFit
      <4> QED BY <3>2, <4>1, StreamAssumption DEF NumbersFit
    <3> QED BY <1>3, <3>1, <3>2 DEF ServeLate
  <2>3. late' \subseteq late /\ UNCHANGED <<arrived, proxy, pending, uncertain, call, app>>
    BY <1>3 DEF ServeLate
  <2>4. FlagsFit' /\ MessagesFit'
    BY <2>2, <2>3 DEF FlagsFit, MessagesFit, app, habits
  <2>5. NumbersFit'
    BY <2>2, <2>3, StreamAssumption DEF NumbersFit, app
  <2>6. (HeldIsPending /\ AcksAreOfStored)'
    BY <2>3 DEF HeldIsPending, AcksAreOfStored, app
  <2>7. CallsFit'
    BY <2>2, <2>3, StreamAssumption DEF CallsFit, NumbersFit, MessagesFit, AnyCall
  <2> QED BY <2>2, <2>3, <2>4, <2>5, <2>6, <2>7 DEF app
<1> QED BY <1>1, <1>2, <1>3

\* The steps that send a call.
LEMMA SendStep ==
  ASSUME DInv, Subscribe \/ Get \/ Ack \/ Close \/ Discard
  PROVE  DInv'
<1> USE DEF DInv, runtime, proxyState, app, habits, CallOf, Idle, NoCall, EmptyHanded
<1>1. CASE Subscribe
  <2>1. FlagsFit'
    BY <1>1 DEF Subscribe, FlagsFit
  <2>2. NumbersFit'
    BY <1>1, StreamAssumption DEF Subscribe, NumbersFit, CallsFit, MessagesFit, AnyCall, Event
  <2>3. MessagesFit'
    BY <1>1, StreamAssumption DEF Subscribe, MessagesFit, NumbersFit, AnyCall
  <2>4. (acked \subseteq persisted /\ HeldIsPending /\ AcksAreOfStored /\ CallsFit)'
    BY <1>1, StreamAssumption
       DEF Subscribe, HeldIsPending, AcksAreOfStored, CallsFit, NumbersFit, MessagesFit, AnyCall
  <2> QED BY <2>1, <2>2, <2>3, <2>4
<1>2. CASE Get
  <2>1. FlagsFit'
    BY <1>2 DEF Get, FlagsFit
  <2>2. NumbersFit'
    BY <1>2, StreamAssumption DEF Get, NumbersFit, CallsFit, MessagesFit, AnyCall, Event
  <2>3. MessagesFit'
    BY <1>2, StreamAssumption DEF Get, MessagesFit, NumbersFit, AnyCall
  <2>4. (acked \subseteq persisted /\ HeldIsPending /\ AcksAreOfStored /\ CallsFit)'
    BY <1>2, StreamAssumption
       DEF Get, HeldIsPending, AcksAreOfStored, CallsFit, NumbersFit, MessagesFit, AnyCall
  <2> QED BY <2>1, <2>2, <2>3, <2>4
<1>3. CASE Ack
  <2>1. FlagsFit'
    BY <1>3 DEF Ack, FlagsFit
  <2>2. NumbersFit'
    BY <1>3, StreamAssumption DEF Ack, NumbersFit, CallsFit, MessagesFit, AnyCall, Event
  <2>3. MessagesFit'
    BY <1>3, StreamAssumption DEF Ack, MessagesFit, NumbersFit, AnyCall
  <2>4. (acked \subseteq persisted /\ HeldIsPending /\ AcksAreOfStored /\ CallsFit)'
    BY <1>3, StreamAssumption
       DEF Ack, HeldIsPending, AcksAreOfStored, CallsFit, NumbersFit, MessagesFit, AnyCall, Event
  <2> QED BY <2>1, <2>2, <2>3, <2>4
<1>4. CASE Close
  <2>1. FlagsFit'
    BY <1>4 DEF Close, FlagsFit
  <2>2. NumbersFit'
    BY <1>4, StreamAssumption DEF Close, NumbersFit, CallsFit, MessagesFit, AnyCall, Event
  <2>3. MessagesFit'
    BY <1>4, StreamAssumption DEF Close, MessagesFit, NumbersFit, AnyCall
  <2>4. (acked \subseteq persisted /\ HeldIsPending /\ AcksAreOfStored /\ CallsFit)'
    BY <1>4, StreamAssumption
       DEF Close, HeldIsPending, AcksAreOfStored, CallsFit, NumbersFit, MessagesFit, AnyCall
  <2> QED BY <2>1, <2>2, <2>3, <2>4
<1>5. CASE Discard
  <2>1. FlagsFit'
    BY <1>5 DEF Discard, FlagsFit
  <2>2. NumbersFit'
    BY <1>5, StreamAssumption DEF Discard, NumbersFit, CallsFit, MessagesFit, AnyCall, Event
  <2>3. MessagesFit'
    BY <1>5, StreamAssumption DEF Discard, MessagesFit, NumbersFit, AnyCall
  <2>4. (acked \subseteq persisted /\ HeldIsPending /\ AcksAreOfStored /\ CallsFit)'
    BY <1>5, StreamAssumption
       DEF Discard, HeldIsPending, AcksAreOfStored, CallsFit, NumbersFit, MessagesFit, AnyCall
  <2> QED BY <2>1, <2>2, <2>3, <2>4
<1> QED BY <1>1, <1>2, <1>3, <1>4, <1>5

\* The steps that take an answer.
LEMMA AnswerStep ==
  ASSUME DInv, TakesAnswer
  PROVE  DInv'
<1> USE DEF DInv, runtime, proxyState, app, habits, CallOf, Idle, NoCall, EmptyHanded
<1>1. CASE Subscribed
  <2>1. FlagsFit'
    BY <1>1 DEF Subscribed, FlagsFit
  <2>2. NumbersFit'
    BY <1>1, StreamAssumption DEF Subscribed, NumbersFit, CallsFit, MessagesFit, AnyCall, Event
  <2>3. MessagesFit'
    BY <1>1, StreamAssumption DEF Subscribed, MessagesFit, NumbersFit, AnyCall
  <2>4. (acked \subseteq persisted /\ HeldIsPending /\ AcksAreOfStored /\ CallsFit)'
    BY <1>1, StreamAssumption
       DEF Subscribed, HeldIsPending, AcksAreOfStored, CallsFit, NumbersFit, MessagesFit, AnyCall
  <2> QED BY <2>1, <2>2, <2>3, <2>4
<1>2. CASE Compensate
  <2>1. FlagsFit'
    BY <1>2 DEF Compensate, FlagsFit
  <2>2. NumbersFit'
    BY <1>2, StreamAssumption DEF Compensate, NumbersFit, CallsFit, MessagesFit, AnyCall, Event
  <2>3. MessagesFit'
    BY <1>2, StreamAssumption DEF Compensate, MessagesFit, NumbersFit, AnyCall
  <2>4. (acked \subseteq persisted /\ HeldIsPending /\ AcksAreOfStored /\ CallsFit)'
    BY <1>2, StreamAssumption
       DEF Compensate, HeldIsPending, AcksAreOfStored, CallsFit, NumbersFit, MessagesFit, AnyCall
  <2> QED BY <2>1, <2>2, <2>3, <2>4
<1>3. CASE Got
  <2>1. FlagsFit'
    BY <1>3 DEF Got, Replaced, FlagsFit
  <2>2. NumbersFit'
    BY <1>3, StreamAssumption DEF Got, Replaced, NumbersFit, CallsFit, MessagesFit, AnyCall, Event
  <2>3. MessagesFit'
    BY <1>3, StreamAssumption DEF Got, Replaced, MessagesFit, NumbersFit, AnyCall
  <2>4. (acked \subseteq persisted /\ HeldIsPending /\ AcksAreOfStored /\ CallsFit)'
    BY <1>3, StreamAssumption
       DEF Got, Replaced, HeldIsPending, AcksAreOfStored, CallsFit, NumbersFit, MessagesFit, AnyCall
  <2> QED BY <2>1, <2>2, <2>3, <2>4
<1>4. CASE GotReplacement
  <2>1. FlagsFit'
    BY <1>4 DEF GotReplacement, Replaced, PendingAfterReplacement, FlagsFit
  <2>2. NumbersFit'
    BY <1>4, StreamAssumption DEF GotReplacement, Replaced, PendingAfterReplacement, NumbersFit, CallsFit, MessagesFit, AnyCall, Event
  <2>3. MessagesFit'
    BY <1>4, StreamAssumption DEF GotReplacement, Replaced, PendingAfterReplacement, MessagesFit, NumbersFit, AnyCall
  <2>4. (acked \subseteq persisted /\ HeldIsPending /\ AcksAreOfStored /\ CallsFit)'
    BY <1>4, StreamAssumption
       DEF GotReplacement, Replaced, PendingAfterReplacement, HeldIsPending, AcksAreOfStored, CallsFit, NumbersFit, MessagesFit, AnyCall
  <2> QED BY <2>1, <2>2, <2>3, <2>4
<1>5. CASE Acked
  <2>1. FlagsFit'
    BY <1>5 DEF Acked, PendingAfterAck, FlagsFit
  <2>2. NumbersFit'
    BY <1>5, StreamAssumption DEF Acked, PendingAfterAck, NumbersFit, CallsFit, MessagesFit, AnyCall, Event
  <2>3. MessagesFit'
    BY <1>5, StreamAssumption DEF Acked, PendingAfterAck, MessagesFit, NumbersFit, AnyCall
  <2>4. (acked \subseteq persisted /\ HeldIsPending /\ AcksAreOfStored /\ CallsFit)'
    BY <1>5, StreamAssumption
       DEF Acked, PendingAfterAck, HeldIsPending, AcksAreOfStored, CallsFit, NumbersFit, MessagesFit, AnyCall
  <2> QED BY <2>1, <2>2, <2>3, <2>4
<1>6. CASE Stopped
  <2>1. FlagsFit'
    BY <1>6 DEF Stopped, FlagsFit
  <2>2. NumbersFit'
    BY <1>6, StreamAssumption DEF Stopped, NumbersFit, CallsFit, MessagesFit, AnyCall, Event
  <2>3. MessagesFit'
    BY <1>6, StreamAssumption DEF Stopped, MessagesFit, NumbersFit, AnyCall
  <2>4. (acked \subseteq persisted /\ HeldIsPending /\ AcksAreOfStored /\ CallsFit)'
    BY <1>6, StreamAssumption
       DEF Stopped, HeldIsPending, AcksAreOfStored, CallsFit, NumbersFit, MessagesFit, AnyCall
  <2> QED BY <2>1, <2>2, <2>3, <2>4
<1> QED BY <1>1, <1>2, <1>3, <1>4, <1>5, <1>6 DEF TakesAnswer

\* What the application does by itself, and a call that fails.
LEMMA OtherStep ==
  ASSUME DInv, Persist \/ Detach \/ CallFails \/ Crash \/ UNCHANGED vars
  PROVE  DInv'
<1> USE DEF DInv, runtime, proxyState, app, habits, CallOf, Idle, NoCall, EmptyHanded
<1>1. CASE Persist
  <2>1. FlagsFit'
    BY <1>1 DEF Persist, FlagsFit
  <2>2. NumbersFit'
    BY <1>1, StreamAssumption DEF Persist, NumbersFit, CallsFit, MessagesFit, AnyCall, Event
  <2>3. MessagesFit'
    BY <1>1, StreamAssumption DEF Persist, MessagesFit, NumbersFit, AnyCall
  <2>4. (acked \subseteq persisted /\ HeldIsPending /\ AcksAreOfStored /\ CallsFit)'
    BY <1>1, StreamAssumption
       DEF Persist, HeldIsPending, AcksAreOfStored, CallsFit, NumbersFit, MessagesFit, AnyCall
  <2> QED BY <2>1, <2>2, <2>3, <2>4
<1>2. CASE Detach
  <2>1. FlagsFit'
    BY <1>2 DEF Detach, FlagsFit
  <2>2. NumbersFit'
    BY <1>2, StreamAssumption DEF Detach, NumbersFit, CallsFit, MessagesFit, AnyCall, Event
  <2>3. MessagesFit'
    BY <1>2, StreamAssumption DEF Detach, MessagesFit, NumbersFit, AnyCall
  <2>4. (acked \subseteq persisted /\ HeldIsPending /\ AcksAreOfStored /\ CallsFit)'
    BY <1>2, StreamAssumption
       DEF Detach, HeldIsPending, AcksAreOfStored, CallsFit, NumbersFit, MessagesFit, AnyCall
  <2> QED BY <2>1, <2>2, <2>3, <2>4
<1>3. CASE CallFails
  <2>1. FlagsFit'
    BY <1>3 DEF CallFails, FlagsFit
  <2>2. NumbersFit'
    BY <1>3, StreamAssumption DEF CallFails, NumbersFit, CallsFit, MessagesFit, AnyCall, Event
  <2>3. MessagesFit'
    BY <1>3, StreamAssumption DEF CallFails, MessagesFit, NumbersFit, AnyCall
  <2>4. (acked \subseteq persisted /\ HeldIsPending /\ AcksAreOfStored /\ CallsFit)'
    BY <1>3, StreamAssumption
       DEF CallFails, HeldIsPending, AcksAreOfStored, CallsFit, NumbersFit, MessagesFit, AnyCall
  <2> QED BY <2>1, <2>2, <2>3, <2>4
<1>4. CASE Crash
  <2>1. FlagsFit'
    BY <1>4 DEF Crash, FlagsFit
  <2>2. NumbersFit'
    BY <1>4, StreamAssumption DEF Crash, NumbersFit, CallsFit, MessagesFit, AnyCall, Event
  <2>3. MessagesFit'
    BY <1>4, StreamAssumption DEF Crash, MessagesFit, NumbersFit, AnyCall
  <2>4. (acked \subseteq persisted /\ HeldIsPending /\ AcksAreOfStored /\ CallsFit)'
    BY <1>4, StreamAssumption
       DEF Crash, HeldIsPending, AcksAreOfStored, CallsFit, NumbersFit, MessagesFit, AnyCall
  <2> QED BY <2>1, <2>2, <2>3, <2>4
<1>5. CASE UNCHANGED vars
  <2>1. FlagsFit'
    BY <1>5 DEF vars, FlagsFit
  <2>2. NumbersFit'
    BY <1>5, StreamAssumption DEF vars, NumbersFit, CallsFit, MessagesFit, AnyCall, Event
  <2>3. MessagesFit'
    BY <1>5, StreamAssumption DEF vars, MessagesFit, NumbersFit, AnyCall
  <2>4. (acked \subseteq persisted /\ HeldIsPending /\ AcksAreOfStored /\ CallsFit)'
    BY <1>5, StreamAssumption
       DEF vars, HeldIsPending, AcksAreOfStored, CallsFit, NumbersFit, MessagesFit, AnyCall
  <2> QED BY <2>1, <2>2, <2>3, <2>4
<1> QED BY <1>1, <1>2, <1>3, <1>4, <1>5

\* The inductive invariant.
LEMMA Inductive == StreamSpec => []DInv
<1>1. DInv /\ [StreamNext]_vars => DInv'
  BY RuntimeStep, SendStep, AnswerStep, OtherStep DEF StreamNext
<1> QED BY InitHolds, <1>1, PTL DEF StreamSpec

\* With any number of events, and of calls that are served when nobody waits for
\* them, only what the application has stored is acknowledged, and its next
\* acknowledgement is of what it holds.
THEOREM AcksCorrect == StreamSpec => []AckedWasPersisted
<1>1. DInv => AckedWasPersisted
  <2> SUFFICES ASSUME DInv PROVE AckedWasPersisted
    OBVIOUS
  <2>1. TypeOK
    BY DEF DInv, FlagsFit, NumbersFit, MessagesFit, TypeOK
  <2> QED BY <2>1 DEF DInv, HeldIsPending, AckedWasPersisted
<1> QED BY Inductive, <1>1, PTL
(***************************************************************************)
(* A careful application beside a calm runtime                              *)
(***************************************************************************)

\* Nothing is served that nobody waits for; a stop is sent when nothing is pending.
CallsInOrder ==
  /\ late = {} /\ call.op # "undo"
  /\ call.op = "start" => proxy # "attached"
  /\ call.op \in {"poll", "ack", "stop", "discard"} => proxy = "attached"
  /\ call.op = "poll" => uncertain /\ ~unsettled
  /\ call.op = "ack" => pending # 0 /\ (call.answered \/ call.seq = pending)
  /\ call.op = "stop" => pending = 0 /\ ~uncertain /\ polled

\* What a careful client knows of the runtime: the delivery retained is the pending one,
\* but for one whose acknowledgement was served and not answered yet; with nothing
\* pending and nothing uncertain there is none.
KnowsRetained ==
  proxy = "attached" /\ on =>
    /\ pending # 0 => retained = pending
                      \/ (retained = 0 /\ (unsettled \/ (call.op = "ack" /\ call.answered)))
    /\ pending = 0 /\ ~uncertain /\ polled => retained = 0
    /\ call.op = "poll" /\ call.answered => call.seq = retained
    /\ call.op = "ack" /\ call.answered => retained = 0

KInv == calm /\ careful => CallsInOrder /\ KnowsRetained

\* Initially there is no proxy.
LEMMA KInvInit == StreamInit => KInv
BY DEF StreamInit, KInv, CallsInOrder, KnowsRetained, NoCall

\* The call in progress is served: only a poll finds a delivery, and only a stop or an
\* acknowledgement ends one.
LEMMA KServe ==
  ASSUME DInv, CallsInOrder, KnowsRetained, Serve
  PROVE  /\ CallsInOrder' /\ KnowsRetained'
         /\ on /\ ~on' /\ retained # 0 => call.op = "discard"
<1>1. /\ call \in AnyCall /\ call.op # "none" /\ ~call.answered
      /\ call' = [call EXCEPT !.seq = IF call.op = "poll" THEN Delivery ELSE call.seq, !.answered = TRUE]
      /\ UNCHANGED <<proxy, pending, uncertain, late, unsettled, polled>>
  BY DEF DInv, MessagesFit, Serve, Answer, app
<1>2. call'.op = call.op /\ call'.answered /\ (call.op = "poll" => call'.seq = Delivery)
  BY <1>1 DEF AnyCall
<1>3. CallsInOrder'
  BY <1>1, <1>2 DEF CallsInOrder
<1>4. Effect(call)
  BY DEF Serve
<1>5. CASE StartStream(call)
  BY <1>1, <1>2, <1>3, <1>5 DEF StartStream, CallsInOrder, KnowsRetained
<1>6. CASE Poll(call)
  <2>1. call.op = "poll" /\ on /\ on' = on /\ retained' = Delivery
    BY <1>6 DEF Poll
  <2>2. proxy = "attached" /\ uncertain /\ ~unsettled
    BY <2>1 DEF CallsInOrder
  <2>3. pending # 0 => retained = pending
    BY <2>1, <2>2 DEF KnowsRetained
  <2>4. pending # 0 => Delivery = pending
    BY <2>3 DEF Delivery
  <2> QED BY <1>1, <1>2, <1>3, <2>1, <2>2, <2>4 DEF KnowsRetained
<1>7. CASE Acknowledge(call)
  <2>1. /\ call.op = "ack" /\ on /\ on' = on
        /\ retained' = IF call.seq = retained THEN 0 ELSE retained
    BY <1>7 DEF Acknowledge
  <2>2. proxy = "attached" /\ pending # 0 /\ call.seq = pending
    BY <1>1, <2>1 DEF CallsInOrder
  <2>3. retained' = 0
    BY <2>1, <2>2 DEF KnowsRetained
  <2> QED BY <1>1, <1>2, <1>3, <2>1, <2>2, <2>3 DEF KnowsRetained
<1>8. CASE StopStream(call)
  <2>1. call.op \in {"stop", "discard"} /\ ~on'
    BY <1>8 DEF StopStream, CallsInOrder
  <2>2. on /\ call.op = "stop" => retained = 0
    BY DEF CallsInOrder, KnowsRetained
  <2> QED BY <1>3, <2>1, <2>2 DEF KnowsRetained
<1> QED BY <1>4, <1>5, <1>6, <1>7, <1>8 DEF Effect

\* The other steps change nothing in the runtime but the events that have arrived.
LEMMA KOther ==
  ASSUME DInv, calm, careful, CallsInOrder, KnowsRetained,
         \/ Arrive \/ Subscribe \/ Get \/ Persist \/ Ack \/ Detach \/ Close \/ Discard
         \/ TakesAnswer \/ CallFails \/ Crash \/ UNCHANGED vars
  PROVE  CallsInOrder' /\ KnowsRetained' /\ on' = on
<1> USE DEF CallsInOrder, KnowsRetained, runtime, proxyState, app, habits, CallOf, NoCall, Idle, EmptyHanded
<1>1. CASE Arrive \/ Persist \/ UNCHANGED vars
  <2>1. UNCHANGED <<on, retained, proxyState, unsettled, polled>>
    BY <1>1 DEF Arrive, Persist, vars
  <2> QED BY <2>1
<1>2. CASE Subscribe
  BY <1>2 DEF Subscribe
<1>3. CASE Get
  BY <1>3 DEF Get
<1>4. CASE Ack
  BY <1>4 DEF Ack
<1>5. CASE Detach \/ Crash
  <2>1. call' = NoCall /\ late' = late /\ on' = on /\ proxy' # "attached"
    BY <1>5 DEF Detach, Crash
  <2> QED BY <2>1
<1>6. CASE Close
  BY <1>6 DEF Close, Detaches, DInv, FlagsFit
<1>7. CASE Discard
  BY <1>7 DEF Discard
<1>8. CASE Subscribed
  BY <1>8 DEF Subscribed
<1>9. CASE Compensate
  BY <1>9 DEF Compensate
<1>10. CASE Got
  BY <1>10 DEF Got, Replaced
<1>11. CASE GotReplacement
  BY <1>11 DEF GotReplacement, Replaced, PendingAfterReplacement
<1>12. CASE Acked
  BY <1>12 DEF Acked, PendingAfterAck
<1>13. CASE Stopped
  BY <1>13 DEF Stopped
<1>14. CASE CallFails
  BY <1>14 DEF CallFails
<1> QED BY <1>1, <1>2, <1>3, <1>4, <1>5, <1>6, <1>7, <1>8, <1>9, <1>10, <1>11, <1>12, <1>13, <1>14
     DEF TakesAnswer

\* Every step keeps what a careful client knows, and only a served discard ends a stream
\* that retains a delivery.
LEMMA KStep ==
  ASSUME DInv, KInv, [StreamNext]_vars
  PROVE  KInv' /\ (calm /\ careful /\ on /\ ~on' /\ retained # 0 => call.op = "discard")
<1>1. calm' = calm /\ careful' = careful
  BY DEF StreamNext, TakesAnswer, vars, app, habits, Arrive, Serve, ServeLate, Subscribe, Get, Persist, Ack,
     Detach, Close, Discard, CallFails, Crash, Subscribed, Compensate, Got, GotReplacement, Acked,
     Stopped
<1>2. SUFFICES ASSUME calm, careful
      PROVE  /\ CallsInOrder' /\ KnowsRetained'
             /\ on /\ ~on' /\ retained # 0 => call.op = "discard"
  BY <1>1 DEF KInv
<1>3. CallsInOrder /\ KnowsRetained
  BY <1>2 DEF KInv
<1>4. CASE Serve
  BY <1>3, <1>4, KServe
<1>5. CASE \/ Arrive \/ Subscribe \/ Get \/ Persist \/ Ack \/ Detach \/ Close \/ Discard
           \/ TakesAnswer \/ CallFails \/ Crash \/ UNCHANGED vars
  BY <1>2, <1>3, <1>5, KOther
<1>6. ~ \E r \in late : ServeLate(r)
  BY <1>3 DEF CallsInOrder
<1> QED BY <1>4, <1>5, <1>6 DEF StreamNext

\* An ordinary close of a careful application throws no delivery away, whatever calls
\* failed before it, with any number of events.
THEOREM CloseCorrect == StreamSpec => DeliverySurvivesClose
<1> DEFINE Survives == calm /\ careful /\ on /\ ~on' /\ retained # 0 => call.op = "discard"
<1>1. DInv /\ KInv /\ [StreamNext]_vars => KInv'
  BY KStep
<1>2. DInv /\ KInv /\ [StreamNext]_vars => [Survives]_vars
  BY KStep
<1>3. StreamSpec => [][Survives]_vars
  BY Inductive, KInvInit, <1>1, <1>2, PTL DEF StreamSpec
<1> QED BY <1>3 DEF DeliverySurvivesClose
=============================================================================
