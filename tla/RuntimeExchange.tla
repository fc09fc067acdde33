---------------------------- MODULE RuntimeExchange ----------------------------
(* One exchange with the runtime process (runtime_client.py): RuntimeClient, which
   is asynchronous, and SyncRuntimeClient, which blocks, send one request over a
   socket of its own and read one line, under one deadline.  The runtime is another
   program: it is what runtime_client.py says of it (lines 38-45, 1195-1201): it stops an
   operation at the deadline of the request, takes up to Reap to end the worker,
   and then answers "operation_timeout".

   The unit of time is half a second.  A line is counted in pieces, of which the
   client takes MaxLine.  What an answer contains is kept as far as the parsers
   look at it; GoodFields stands for the types and ranges of its plain fields. *)
EXTENDS PlatformInventory

CONSTANTS Calls,      \* the calls made: an operation, the client, its deadlines, of which 0 is
                      \* None, immediate admission, and whether its arguments are valid
          Fallback,   \* timeout_seconds of the client
          MaxLine,    \* MAX_RUNTIME_RESPONSE_BYTES
          Chunk,      \* what one recv takes
          Lists       \* resource lists of the server

MinTimeout == 2
MaxTimeout == 120
Grace == 12          \* RUNTIME_RESPONSE_GRACE_MS
Reap  == 10          \* the runtime's own ceiling

ASSUME ExchangeAssumption ==
    /\ \A c \in Calls : {c.timeout, c.total} \subseteq {0} \cup MinTimeout..MaxTimeout
    /\ Fallback \in Nat \ {0} /\ MaxLine \in Nat \ {0} /\ Chunk \in Nat \ {0}

ASSUME ListsAssumption == \A l \in Lists : ResourceList(l)

VARIABLES requests,  \* how many are still to come: a bound
          request,   \* what is asked, with its deadlines
          step,      \* of the client: "idle", "connect", "send", "read", "done"
          left,      \* of the client's deadline
          worker,    \* of the runtime: "none", "native", "reaping", "answered"
          budget,    \* what is left of the worker's time at its step
          hung,      \* the native operation does not end by itself
          answer,    \* the answer on its way
          received,  \* how much of it
          broken,    \* the exchange met a fault of the socket or of the runtime
          outcome    \* what the call returns or raises

exchangeVars == <<requests, request, step, left, worker, budget, hung, answer, received, broken, outcome>>

NoAnswer  == [kind |-> "none", size |-> 0, body |-> <<>>]
NoOutcome == [kind |-> "none", value |-> <<>>]
NoRequest == [op |-> "none", client |-> "sync", timeout |-> 0, total |-> 0, immediate |-> FALSE, valid |-> FALSE]

(***************************************************************************)
(* Deadlines: _operation_timeout_ms and _exchange_timeout_seconds           *)
(***************************************************************************)
Least(a, b)    == IF a <= b THEN a ELSE b
Greatest(a, b) == IF a >= b THEN a ELSE b

\* The operation leaves the runtime Grace of the total, but gets a second at least.
OperationTimeoutWhole(timeout, total) ==
    IF total = 0 THEN timeout ELSE Least(IF timeout = 0 THEN total ELSE timeout, total)  \* mutant
OperationTimeout(timeout, total) ==
    IF total = 0 THEN timeout
    ELSE Greatest(MinTimeout, Least(IF timeout = 0 THEN total ELSE timeout, Greatest(0, total - Grace)))

ExchangeTimeout(timeout, total) ==
    CASE total # 0 -> total
      [] total = 0 /\ timeout = 0 -> Fallback
      [] OTHER -> timeout + Grace

(***************************************************************************)
(* The parsers                                                              *)
(***************************************************************************)
\* What the operations are asked for: the channels of a scan, the entries of a page, the
\* bytes of a picture.
MaxChannels == 2
PageSize    == 2
MaxImage    == 3

\* _parse_channel_scan.  Each channel is [channel, status].
ScanOk(b) ==
    /\ b.GoodFields
    /\ Len(b.channels) <= MaxChannels /\ b.total = Len(b.channels)
    /\ \A i \in DOMAIN b.channels :
          /\ b.channels[i].status \in {"Online", "Offline"}
          /\ \A j \in 1..(i - 1) : b.channels[j].channel # b.channels[i].channel

\* _parse_snapshot over markers, as NormalizeJpeg: padding goes where it follows a
\* complete picture; then it must be one, and no longer than was asked.
Unpadded(image) == IF NormalizeJpeg(image) # <<>> THEN NormalizeJpeg(image) ELSE image
SnapshotOk(image) ==
    LET s == Unpadded(image)
    IN  s # <<>> /\ Head(s) = "soi" /\ Last(s) = "eoi" /\ Len(s) <= MaxImage

\* _parse_keyframe: the times are 0 when a runtime does not say.
KeyframeOk(b) == b.GoodFields /\ b.size \in 1..MaxImage /\ (b.received = 0 \/ b.received >= b.first)

\* _parse_plate_start, of the stream and mode that were asked for, and _parse_plate_poll: an
\* acknowledged delivery is one event with its sequence number, 0 standing for None.
PlateStartOk(b) == b.GoodFields /\ b.stream = "asked" /\ b.mode = "acked" /\ b.subscriptions \in 1..MaxChannels
PlatePollOk(b) ==
    /\ b.GoodFields
    /\ b.events <= 1 /\ (b.events # 0 <=> b.sequence # 0)
PlateAckOk(b) == b.GoodFields /\ b.acked = "asked"

\* _parse_face_batch and _parse_face_item, of the page asked for; an item is the size of
\* its picture, in tenths of MAX_FACE_BATCH_BYTES.
FacesOk(b) ==
    /\ b.GoodFields
    /\ b.page = 1 /\ Len(b.items) <= PageSize
    /\ FoldSeq(LAMBDA x, y : x + y, 0, b.items) <= 10

\* _parse_platform_inventory, of the sections that a snapshot has; each is ok,
\* unavailable or failed.
Sections == {"resources", "devices", "channels", "areas", "servers", "alarm_zones", "alarm_events"}
InventoryOk(b) == b.GoodFields /\ DOMAIN b.fetch = Sections

\* Of the others, _parse_device_info, _parse_device_time, _parse_rtsp_url and
\* _parse_platform_authority, the fields decide.
Parsed(op, b) ==
    CASE op = "scan" -> ScanOk(b)
      [] op \in {"snapshot", "captureJpeg"} -> SnapshotOk(b)
      [] op = "keyframe" -> KeyframeOk(b)
      [] op = "faceCaptureBatch" -> FacesOk(b)
      [] op = "inventorySnapshot" -> InventoryOk(b)
      [] op = "plateStreamStart" -> PlateStartOk(b)
      [] op = "plateStreamPoll" -> PlatePollOk(b)
      [] op = "plateStreamAck" -> PlateAckOk(b)
      [] OTHER -> b.GoodFields

\* The picture without its padding is what snapshots return.
Returned(op, b) == IF op \in {"snapshot", "captureJpeg"} THEN Unpadded(b) ELSE b

\* _parse_response.  An answer with another id or without the envelope is none; a runtime
\* of another version may say so.  capture_keyframe names the operation error of a
\* runtime that does not know it.
Envelope(op, a) ==
    CASE a.kind = "ok" -> IF Parsed(op, a.body) THEN [kind |-> "value", value |-> Returned(op, a.body)]
                          ELSE [kind |-> "client_error", value |-> <<>>]
      [] a.kind \in {"operation_timeout", "protocol_mismatch", "busy"} -> [kind |-> a.kind, value |-> <<>>]
      [] a.kind = "unsupported" ->
           [kind |-> IF op = "keyframe" THEN "unsupported_operation" ELSE "operation_error", value |-> <<>>]
      [] OTHER -> [kind |-> "client_error", value |-> <<>>]

(***************************************************************************)
(* What the runtime answers                                                 *)
(***************************************************************************)
\* The inventory of a server: the sites of its resource list with what is in them.
InventoryOf(list) == [GoodFields |-> TRUE, fetch |-> [s \in Sections |-> "ok"], list |-> list,
                      sites |-> Sites(list), summary |-> Summary(list, {})]

Channel == [channel : 0..1, status : {"Online", "Offline", "Unknown"}]
SeqsUpTo(S, n) == UNION {[1..k -> S] : k \in 0..n}

Bodies(op) ==
    CASE op = "scan" -> [GoodFields : {TRUE}, channels : SeqsUpTo(Channel, MaxChannels), total : 0..MaxChannels]
      [] op \in {"snapshot", "captureJpeg"} -> SeqsUpTo({"soi", "data", "eoi", "nul"}, MaxImage + 1)
      [] op = "keyframe" -> [GoodFields : BOOLEAN, size : {0, MaxImage, MaxImage + 1}, first : 0..2, received : 0..2]
      [] op = "faceCaptureBatch" ->
           [GoodFields : BOOLEAN, page : 1..2, items : SeqsUpTo({0, 5, 6}, PageSize + 1)]
      [] op = "inventorySnapshot" ->
           {InventoryOf(l) : l \in Lists} \cup
           [GoodFields : {TRUE}, fetch : {[s \in Sections \ {"areas"} |-> "ok"]}, list : {<<>>}, sites : {<<>>}, summary : {<<>>}]
      [] op = "plateStreamStart" ->
           [GoodFields : BOOLEAN, stream : {"asked", "other"}, mode : {"acked", "none"}, subscriptions : 0..3]
      [] op = "plateStreamPoll" -> [GoodFields : BOOLEAN, events : 0..2, sequence : 0..1]
      [] op = "plateStreamAck" -> [GoodFields : BOOLEAN, acked : {"asked", "other"}]
      [] OTHER -> [GoodFields : BOOLEAN]

\* The methods of the two clients.
DeviceReads        == {"deviceInfo", "deviceTime", "scan"}
DeviceCaptures     == {"snapshot", "keyframe", "rtspUrl"}
PlateOperations    == {"plateStreamStart", "plateStreamPoll", "plateStreamAck"}
PlatformOperations == {"inventorySnapshot", "authoritySnapshot", "captureJpeg"}
Asynchronous == {"health"} \cup PlatformOperations
Operations   == Asynchronous \cup DeviceReads \cup DeviceCaptures \cup PlateOperations \cup {"faceCaptureBatch"}

ExchangeInit(n) ==
    /\ requests = n /\ request = NoRequest
    /\ step = "idle" /\ left = 0
    /\ worker = "none" /\ budget = 0 /\ hung = FALSE
    /\ answer = NoAnswer /\ received = 0 /\ broken = FALSE /\ outcome = NoOutcome

Finish(o) == step' = "done" /\ outcome' = o
Raises(k) == Finish([kind |-> k, value |-> <<>>])

\* A public method: _request with the deadlines of the call.  Credentials, channels,
\* bounds, deadlines or a size that are not valid raise before anything is sent.
Call ==
    /\ step \in {"idle", "done"} /\ requests > 0
    /\ requests' = requests - 1
    /\ request' \in {c \in Calls : c.op \in IF c.client = "async" THEN Asynchronous ELSE Operations}
    /\ IF request'.valid THEN step' = "connect" /\ outcome' = NoOutcome ELSE Raises("value_error")
    /\ left' = ExchangeTimeout(OperationTimeout(request'.timeout, request'.total), request'.total)
    /\ worker' = "none" /\ budget' = 0 /\ answer' = NoAnswer /\ received' = 0
    /\ hung' \in BOOLEAN /\ broken' = FALSE

\* The request, once connected, is in the runtime before the next unit of time; a busy
\* runtime refuses one that asks for immediate admission.
Admit ==
    /\ step = "connect"
    /\ step' = "read"
    /\ \/ /\ worker' = "native"
          /\ budget' = OperationTimeout(request.timeout, request.total)
          /\ UNCHANGED answer
       \/ /\ request.immediate
          /\ worker' = "answered" /\ budget' = 0
          /\ answer' = [kind |-> "busy", size |-> 1, body |-> <<>>]
    /\ UNCHANGED <<requests, request, left, hung, received, broken, outcome>>

\* The operation ends and the runtime answers; a size stands for the line without its
\* newline.  A faulty runtime answers with something else.
Answers(k, n, b) ==
    /\ worker' = "answered" /\ budget' = 0
    /\ answer' = [kind |-> k, size |-> n, body |-> b]
    /\ UNCHANGED <<requests, request, step, left, hung, received, outcome>>

Operate ==
    /\ step = "read" /\ worker = "native" /\ ~ hung
    /\ \/ /\ UNCHANGED broken
          /\ \/ \E b \in Bodies(request.op) : Answers("ok", 1, b)
             \/ \E n \in 2..(MaxLine + 1) : Answers("ok", n, CHOOSE b \in Bodies(request.op) : TRUE)
             \/ \E k \in {"unsupported", "error"} : Answers(k, 1, <<>>)
       \/ /\ broken' = TRUE
          /\ \E k \in {"other_id", "no_envelope", "protocol_mismatch"} : Answers(k, 1, <<>>)

\* The deadline of the operation, if it has one, is over; the worker is ended.
Expire ==
    /\ step = "read" /\ worker = "native" /\ hung
    /\ request.timeout + request.total # 0 /\ budget = 0
    /\ worker' = "reaping"
    /\ budget' \in 0..Reap
    /\ UNCHANGED <<requests, request, step, left, hung, answer, received, broken, outcome>>

Reaped == /\ step = "read" /\ worker = "reaping" /\ budget = 0
          /\ Answers("operation_timeout", 1, <<>>)
          /\ UNCHANGED broken

\* recv, up to the newline: the synchronous client counts what it has, and asks for one
\* piece more than it takes.
Wants == Least(Chunk, MaxLine + 1 - received)

Receive ==
    /\ step = "read" /\ worker = "answered" /\ request.client = "sync"
    /\ \E n \in 0..Wants :
          /\ n <= answer.size + 1 - received
          /\ n = 0 => Wants = 0
          /\ received' = received + n
          /\ CASE n = 0 -> Raises("incomplete")
               [] n > 0 /\ received' = answer.size + 1 -> Finish(Envelope(request.op, answer))
               [] n > 0 /\ received' <= answer.size /\ received' > MaxLine -> Raises("too_large")
               [] OTHER -> UNCHANGED <<step, outcome>>
    /\ UNCHANGED <<requests, request, left, worker, budget, hung, answer, broken>>

\* readuntil with a limit, which the newline is not counted against.
ReadUntil ==
    /\ step = "read" /\ worker = "answered" /\ request.client = "async"
    /\ IF answer.size <= MaxLine THEN Finish(Envelope(request.op, answer)) ELSE Raises("socket_error")
    /\ received' = answer.size + 1
    /\ UNCHANGED <<requests, request, left, worker, budget, hung, answer, broken>>

\* A refused connection, or one that ends before the line does.
Breaks ==
    /\ step \in {"connect", "read"}
    /\ Raises(IF step = "read" /\ request.client = "sync" THEN "incomplete" ELSE "socket_error")
    /\ broken' = TRUE
    /\ UNCHANGED <<requests, request, left, worker, budget, hung, answer, received>>

\* Half a second.  What is due is done first, and the deadline raises.
Due == \/ step = "connect"
       \/ worker = "native" /\ hung /\ request.timeout + request.total # 0 /\ budget = 0
       \/ worker = "reaping" /\ budget = 0
       \/ worker = "answered"

Tick ==
    /\ step = "read" /\ ~ Due
    /\ left' = left - 1
    /\ budget' = IF budget = 0 THEN 0 ELSE budget - 1
    /\ IF left' = 0 THEN Raises("socket_timeout") ELSE UNCHANGED <<step, outcome>>
    /\ UNCHANGED <<requests, request, worker, hung, answer, received, broken>>

ExchangeNext == \/ Call \/ Admit \/ Operate \/ Expire \/ Reaped \/ Receive \/ ReadUntil \/ Breaks \/ Tick

(***************************************************************************)
(* Properties                                                               *)
(***************************************************************************)
\* "Leave the local runtime time to serialize a typed deadline outcome": a call with a
\* deadline whose operation hangs says so, and never just that its socket did.  A total of
\* less than a second and Grace leaves no room for it.
Roomy == (request.total = 0 /\ request.timeout # 0) \/ request.total >= MinTimeout + Grace
DeadlineIsTyped ==
    step = "done" /\ request.valid /\ ~ broken /\ hung /\ Roomy => outcome.kind \in {"operation_timeout", "busy"}

\* An answer of up to MaxLine is taken, whole, by both clients, in however many pieces it
\* comes, and no longer one is.
LineLimit ==
    step = "done" /\ ~ broken /\ worker = "answered" =>
        (answer.size <= MaxLine <=> outcome.kind \notin {"incomplete", "too_large", "socket_error"})

\* What the runtime answers reaches the caller, between the client's own limits of time
\* and size.
AnswerReachesCaller == DeadlineIsTyped /\ LineLimit

\* The caller who gets an inventory finds every device and channel in one site, and that
\* is the synthetic one exactly if no site root is above it; the summary counts every
\* device once; and whatever events there are, a device passes for healthy exactly if it
\* has no issue of its own, though status and issues are derived apart.
SitesTruthful ==
    LET v == outcome.value
        held(n) == {s \in DOMAIN v.sites : n \in v.sites[s]}
        roots(n) == {a \in Areas(v.list) : a \in Ancestors(v.list, n) /\ v.list[a].parent \notin Areas(v.list)}
    IN  request.op = "inventorySnapshot" /\ outcome.kind = "value" =>
          /\ \A n \in Devices(v.list) \cup Channels(v.list) :
               /\ Cardinality(held(n)) = 1
               /\ held(n) # {0} => held(n) \subseteq roots(n)
               /\ held(n) = {0} => roots(n) = {}
          /\ v.summary["ONLINE"] + v.summary["DEGRADED"] + v.summary["OFFLINE"] = Cardinality(Devices(v.list))
          /\ \A events \in SUBSET Devices(v.list), d \in Devices(v.list) :
               Health(v.list, d, events) = "ONLINE" <=> Issues(v.list, d, events, {}) = {}
=============================================================================
