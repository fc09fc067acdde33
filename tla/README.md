# Formal models of pytvt

`pytvt` talks to network video recorders (NVRs) and cameras: over the vendor's
native SDK (through ctypes), over their web APIs, and, for a platform of many
devices, over more SDKs and a web back end.  What is hard to get right in it is
concentrated: native threads that call into Python, pools and servers with
threads of their own, calls that hang or whose answers are lost, and workflows
and read-backs of many calls that may fail half way.  That is what the
specifications here are about.

Source paths are relative to `src/src/pytvt/`.

## 1. The system

### 1.1 Components

Each paragraph names the state a component keeps, its operations, what is hard
about it, and when it is correct.

**Plate event stream** (`device_sdk/plate_events.py`).  A bounded queue of
licence-plate events: a `queue.Queue`, the image bytes it buffers, counters,
`_closed`, `_closing`, `_close_signal_queued`.  `ingest` and `reject_callback`
(native threads), `get`, `get_nowait`, `drain` (readers), `close` (anyone).  The
stream's lock and the queue's own lock are two locks, and readers hold only the
second; one eviction loop enforces limits by entries and by bytes; the close
signal travels through the queue; a close whose closer fails opens the stream
again.  *Correct when* every event is buffered, delivered once, or counted as
dropped, the byte account is exact, and readers learn that the stream is closed,
but only after its last event.

**Smart-event subscription lifecycle** (`device_sdk/client.py`).  The
process-global callback slot of the SDK with its lock and owner; per client the
retained ctypes thunk, the callbacks in flight and a shutting flag; per stream
its subscription tokens.  Constructing a client, `subscribe_plate_events`, the
stream's closer, `subscribe_v2`, `logout`, `cleanup`, and the trampoline SDK
threads enter.  Native calls fail one by one, and drains time out while handlers
run on.  *Correct when* thunks outlive every native use, a closed stream is
quiet, and every subscription on a device has a token from which a retry can end
it.

**Device session** (`device_sdk/client.py`).  Every other call of an
authenticated session: key frames collected from previews by native threads,
enumerations, exports of the configuration, edits and `update_node_encode`.
*Correct when* late stream data reaches no other request, nothing is left behind
however a call ends, and an edit changes and reports only what the device has had
while it ran.

**Device manager** (`device_sdk/manager.py`).  The choice among NetSDK, bridge,
web API and RTSP, snapshots with fall-backs under one deadline, and a
process-wide cache of RTSP URLs.  *Correct when* the fall-backs keep their
order, no unbounded login runs under a deadline, the timeout of the process is
put back, and a kept URL is current.

**Device IP modification** (`device_sdk/ip_modify.py`).  A readdressing over
native calls that may hang, each under a watchdog that abandons its thread; a
scan confirms the result.  *Correct when* no second request follows one that was
given up, requests are made while the runtime is up, a runtime that was started is
let go by what the library has for that, and a success is one.

**Connection pool** (`connection_pool.py`).  An entry per user and target, and a
keepalive thread.  `acquire`, `release`, `remove`, `reconnect`, `keepalive`,
eviction, `close`.  Connections are made and probes sent with the lock released,
so what was checked is stale when it is used.  *Correct when* every logged-in
session is in the pool or in the hands of the thread connecting it, has one
user, their number is bounded, and upkeep never logs out one in use.

**Alarm server** (`alarm_server.py`).  A socket without a lock, a semaphore of
slots, a set of threads under a lock, a stop flag.  `start`, `serve_forever`, a
handler per connection, `close`.  *Correct when* slots and threads are exact and
everything ends after `close`.

**Runtime client** (`runtime_client.py`).  A client of a persistent process that
owns subscriptions: a plate proxy with its pending sequence number, and one
exchange per call, blocking or asynchronous, with limits of time and of size on
both ends.  *Correct when* nothing is acknowledged that the application has not
stored, an ordinary close throws nothing away, and what the runtime answers
within its limits reaches the caller.

**NVR XML client** (`xml_api.py`).  A login with session and legacy modes, and
operations that are short programs of requests with read-backs.  *Correct when*
returning normally means that the recorder holds what was asked and read back, and
a failed or unknown answer is not taken for an empty one.

**Workflows** (`workflows/`, `tools/workflow_cli.py`).  `password-rotate`
changes cameras' passwords and the credentials the NVR stores for them;
`site-subnet-change` moves cameras and their channels and may end with a
rotation; `validate` reads.  They keep no state: a crash or a failure between
any two calls leaves it in the devices.  *Correct when* results and exit codes
tell the truth and running again converges.

**Management client** (`platform_sdk/`).  A façade over the PlatformSDK, whose
callback delivers logins and lists on a thread of its own; over a web session
that expires, read page by page while the server changes; over NET_SDK sessions
with alarm channels; over a bridge command.  Pure functions turn resource lists
into sites, health and alarms.  *Correct when* only a failed logout can leave a session
behind, no failure forgets an alarm subscription, lists are current once their messages
are in, a walk does not miss what was there all the time, and every device is in one
site.

### 1.2 How they interact

SDK threads call the trampoline of `NetSdkClient`, which calls
`PlateEventStream.ingest`; the stream's `close` calls back into the client
through its closer.  The two models meet there: `PlateEventStream` takes the
closer as a step that may fail, `SmartSubscription` takes `ingest` as a delivery
of any length.  `ConnectionPool` and `DeviceManager` create clients and
sessions; `DeviceSession` is one of them.  The runtime proxy has the interface
of the stream but lives across a socket.  The workflows use the NVR XML client;
the subnet workflow ends with a rotation, and `SiteWorkflows` composes the two
by extending `PasswordRotate`.  `ManagementClient` composes its back ends.  The
connection timeout of the SDK, its callback slot, the platform's callback and
the URL cache are shared by the whole process, and are so in the models.

## 2. Modules

| module | models | composed in |
|---|---|---|
| `LossyBuffer` | abstract: what a plate stream promises its application | refined by the next |
| `PlateEventStream` | the stream with its two locks | |
| `SmartSubscription` | callback slot, thunks, subscriptions, logout, cleanup | |
| `ConnectionPool` | the pool, its threads, keepalive | |
| `AlarmServer` | listener, handlers, close | |
| `RuntimePlateStream` | acknowledged delivery over a lossy exchange | |
| `PasswordRotate` | the rotation and its NVR | `SiteWorkflows` |
| `SiteWorkflows` | rotation, subnet change, validation, exit codes | |
| `NvrClient` | the recorder's XML client | |
| `DeviceSession` | calls of one device session | |
| `DeviceManager` | choice of way, deadlines, URL cache | |
| `PlatformSession` | PlatformSDK login, callback, resources | `ManagementClient` |
| `WebPlatform` | web session, requests and walks | `ManagementClient` |
| `SdkLibrary`, `SdkSession` | NET_SDK: what a library offers, its sessions and alarms | `ManagementClient` |
| `ManagementClient` | the façade | |
| `PlatformInventory` | sites, health, summaries, as functions | `RuntimeExchange` |
| `RuntimeExchange` | one exchange with the runtime, deadlines and sizes | `BoundedCalls` |
| `IpModify` | readdressing under watchdogs | `BoundedCalls` |
| `BoundedCalls` | a process that makes one or the other kind of call | |
| `Nothing` | the value None | |

`MC…` modules give TLC its instances; `…_proofs` modules hold the proofs.
`PROJECT.json` maps every definition to its lines.

**`PlateEventStream`.**  `queue`, `bufBytes`, `closed`, `closing`, `signalled`
and `count` are fields of the class; `dropped` is what `_events_dropped` counts
and `taken` what readers took; `cb`/`pending`, `rd`/`hand` and `cl` say where
each native call, reader and closer is.  A step is one critical section, except
in `_enqueue`, where test (`EnqueueTest`), eviction (`EnqueueEvict`) and put
(`EnqueuePut`) are steps, because a reader with the queue's lock alone can come
between them.  The branch of `_enqueue` that meets the close signal is not an
action: `SignalLast`, proved, says it cannot run.  Payloads are usable or not.

**`SmartSubscription`.**  `phase` stands for `_LIVE_CLIENTS` and `_lib`, `owner`
and `lock` for the process globals, `slot` for what the SDK holds, `subs` for
what the device holds.  A close is `CloseBegin`, `Unsubscribe`, `Clear` or
`ClearFails`, `Drained` or `DrainTimeout`, then `CloseSettles`, `Finish` or
`CloseFails`, `Reopen`; `op` says what it is part of, so that `Continue` goes on
with a logout or cleanup.  SDK threads go through `Dispatch` (the slot is read,
nothing called yet), `Enter`, `CheckShutting`, `Delivered`.  One assumption about
the vendor's library is a constant: with `SdkQuiesces`, clearing the slot waits
for calls already dispatched.  Python cannot count calls before they reach it,
so without this no code of this shape can keep `ThunkRetained`.

**`ConnectionPool`.**  `pool`, `inUse`, `failed`, `misses`, `aged` are the
entries, `life` the session, `held` what each thread was given.  `acquire` is a
section (`AcquireReuse`, `AcquireRefused` or `AcquireConnect`), a connection
without the lock (`Connect`, `ConnectFails`) and a second section (`Insert`).
An entry that keepalive has given up (`GivenUp`) stays, logged in, until its key is
used again, and does not count against the limit.
An application that has called `close` makes no new call; calls in progress go
on.

**`AlarmServer`.**  Each use of a shared object is a step; `serve_forever` holds
`_threads_lock` from `Publish` to `StartHandler`, as in the code.  An `OSError` of
`accept` ends it whether or not the socket is still open.

**`RuntimePlateStream`.**  A call is sent, served and answered; `CallFails` is
every way to miss the answer, before or after the runtime has acted.  Unless the
behaviour is `calm`, the runtime may serve a call whose caller gave up, and a
start may be compensated.  A `careful` application (only beside a calm runtime) polls before it closes, and
retries a failed ack before it polls again.  Both are chosen at the start, so
that one run covers all of them.  The runtime (external) is what the client and
`docs/LPR_EVENT_INGESTION.md` rely on: one retained delivery, idempotent acks,
attachment by a stable stream id.

**`PasswordRotate`, `SiteWorkflows`.**  Each call to the NVR is an action that
succeeds or fails; with `LostReplies` a failed one may have worked.  A command
may crash anywhere and be run again with any scope.  `RotateCommand` is the command,
which has no option for `include_online`; `RotateCall` is a program that calls
`rotate_nvr_channel_passwords`, with it or without.  Addresses are the
subnet a camera, and its channel, is in; the NVR reaches the camera where they
agree.

**`NvrClient`.**  An operation is a sequence of requests (`call.todo`).  Between
two of them the recorder changes under another user, refuses, loses an answer,
ends the session, or accepts a write and does not keep it.  Settings are a
switch and a detail; the read-back of `set_user_email` compares the address alone, and
the last of its payloads writes the address alone.  A list of channels may lack its
total and any of its items may not parse; a record of a plate search that cannot be
resolved is skipped (`unread`), which the result does not tell.

**`DeviceSession`, `DeviceManager`.**  Operations that read or send and keep
nothing are grouped by how they can end; those with several native calls,
callbacks, files or read-backs are programs of steps.  A preview goes on
delivering after its capture timed out; the device serves a session what it
answered first; cameras are replaced behind a cached URL.  `since` is a history: what
the profiles have been since an update read them or wrote them.  The verdict of an
update is made with the verifying read and returned in a later step (`UpdateReturn`),
after others may have edited.

**`ManagementClient` and its back ends.**  The SDK's thread delivers the messages of
each login (`wire`) one at a time, in their order, those of different logins in any
order, into the state of the client that set the callback, before, during and after
the login that waits for it.  The server lists resources, and the web API areas, in
any order.  The web session is re-established once per request; walks read pages
while the server is edited.  A close forgets its session whether or not the logout
worked: `left` (PlatformSDK) and `lost` (NET_SDK) are histories of the sessions whose
logout failed, and that nothing ends any more.  `list_resources_normalized` gives the
state told last (`Online`); `list_devices` and `get_device_statuses` give that of the
creation (`DeviceStatuses`), which is the server's only until the state changes.

**`BoundedCalls`.**  Native calls under a watchdog may return after they were
abandoned, until the process ends.  An exchange counts time in half seconds and
a line in pieces, so that the limits of the two ends, and the chunks at the
boundary of the largest line, meet exactly as in the code.  A native request may be
carried out although it returned false, and a call that is not exported is passed over:
`stops` holds the calls that were made.

## 3. What the runs check

| run | instance | shows |
|---|---|---|
| `PlateStream` | 2 callbacks with 3 and 2 events, 2 readers (one polls), 2 closers, capacity 2, budget 4, both drop policies | accounts, close signal, wake-ups, refinement of `LossyBuffer`, blocked calls return |
| `Subscription` | 2 clients, 2 streams, 2 channels, 2 threads, 1 SDK thread | no dangling thunk, quiet after close, no forgotten subscription |
| `Pool` | 2 keys, 3 sessions, 2 threads, 1 keeper, limit 1, 2 attempts | no leak, one user per session, overshoot bounded by threads and given-up entries |
| `AlarmServing` | 3 connections, 2 slots | slots and threads exact, everything ends |
| `Delivery` | 2 events, 1 late call, all habits | acks settle what was stored; no careful close loses a delivery; what the runtime has is stored in the end |
| `Site` | 2 cameras, every initial state of passwords and subnets, 2 moves, all scopes and modes | results true, online channels untouched, failures named, convergence of the call with `include_online` |
| `Management` | 2 logins, 2 resources, 1 server, 2 areas, 3 devices, 2 edits, 2 handles, 2 alarm channels | sessions and alarms held, lists current (device statuses until they change), walks complete |
| `Nvr` | 2 channels, 3 plates, 2 calls, 1 change by another user | what was verified is so, searches are complete but for what was skipped, alarms stay armed |
| `Manager` | 2 managers, 2 cameras, 2 cached URLs, 2 operations | order of the fall-backs, deadlines, current URLs |
| `Session` | 2 callers, 2 channels, 2 calls, 1 edit by another user | frames, leftovers, honest updates |
| `Calls` | 9 libraries, 3 systems, 2 commands; every operation and kind of deadline; all lists of 3 resources | order of native calls, truth of reports, answers, sites |
| `SiteDrift` | as `Site`, without moves, outages and lost replies, full rotations by the command | refutes the help of the command, see 4 |

**Why the bounds are enough.**  The stream's hazards need a callback inside
`_enqueue`, a second that waits, a reader at each of two stages and a close that
another closer retries; the sizes make an eviction due to entries alone, to
bytes alone, to both, twice for one event, or useless.  The subscription needs a
second stream (the slot is reused), a second client (it is shared), two channels
(partial failure) and two threads (a close against a cleanup).  A session that
displaces another while a third connects takes three sessions.  The third
connection is the one refused for lack of a slot.  Two events show a delivery
before and after a lost ack, with a late call between.  A second camera shows
one failing while another goes on, and a second move is the re-run.  Two logins
show the message of one in the callback of the other; three devices on pages of
one area and an edit between them show a shift; three plates exceed the limit of
a search.  Two managers share timeout and cache.  The library sets cover one
overload, both, none, and families without each other; three resources contain
every cycle, every missing parent and every nesting the rules tell apart.

**Fairness.**  `PlateStream`: a native thread inside `ingest` and a reader
inside `get` keep running; nothing makes an application read or close.
`AlarmServing`: threads keep running, as `accept`, `recv` and `join` have
timeouts; callbacks need not return.  `Delivery`: exchanges end by their timeout
(weak), and an application that keeps trying sometimes succeeds (strong), the
assumption under which any retry protocol delivers.  `Site`: the NVR keeps
polling, commands go on, and the operator runs another; `SiteConverges` speaks
of behaviours in which faults stop at some point and from then on every rotation is
of all channels with `include_online`, and says so in its antecedent.  `DriftHandled`
says the same of rotations without it, which is all the command can do.  The other
runs check safety only.

**Deadlock.**  Runs with `CHECK_DEADLOCK FALSE` end when their bounds of calls,
commands or edits are used up.  The others have an explicit resting step where
the system may stop (`Rest`, `Terminated`), or never stop.

**Mutants.**  Every property of a passing run is broken by a plausible mistake in
one definition; those wrong versions stand above the right ones, marked
*mutant*, and take no part in the specifications.

## 4. Where code and documentation disagree

`SiteDrift`: the help of `password-rotate` says that it rotates the password of every
registered channel and "handles both directions of drift" (`workflow_cli.py:40-43`).
It stores the old credential of a camera before it changes its password
(`password_rotate.py:522`); when it stops there, the camera is online with the old
password, and since the command passes no `include_online` (line 166) every later run
reports it as in sync.  A program that passes it converges (`SiteConverges`).

Further observations from reading the code, which no run states.

*Docstrings and comments.*  `max_active_sessions` is a "hard limit on concurrent
sessions" (`connection_pool.py:127`), but `_active_count` (line 452) leaves out the
entries that keepalive has marked as failed, which stay logged in: one thread alone
exceeds a limit of 1.  An unrecognised payload "must NOT silently look like a
genuine-empty channel list" (`xml_api.py:489-491`), but does so when the answer has no
total (line 501).  `snapshot_attempt` says that the web API leg comes first
(`manager.py:513-516`); for the main stream it comes last (line 547), as a comment in the
body says and `FullResolutionFirst` relies on.  `get_device_statuses` of the PlatformSDK
reports "online/offline status from accumulated node state"
(`platform_backend.py:837`), and gives the state of the creation, which the docstring of
`list_resources_normalized` (lines 923-929) calls stale.  `site-subnet-change`, asked to
rotate, swallows the error of the nested run (`site_subnet_change.py:544`) or, with
nothing left to move, returns before it (line 357): either way its result has no
rotation, which by lines 93-94 means that none was asked for, and it may exit with 0.

*Pool.*  `acquire` checks the capacity, connects without the lock and inserts
without checking again, so the "hard limit" is exceeded by concurrent acquires
(by how much is part of `PoolAccounts`).  An acquire of a key in use closes the
session of the first caller.  A session being connected while the pool is closed
is inserted afterwards and stays logged in.

*Alarm server.*  `close` may set `_sock` to `None` between the test of the stop
flag and `accept`, or before the assertion.  `serve_forever` after `close` binds
again.  Any `OSError` of `accept` ends `serve_forever`, not only that of a close.

*Subscriptions.*  A failed unsubscribe takes the slot back after
`subscribe_v2(None)` has released it, when another client may exist.

*Runtime client.*  A proxy that reattached and is closed before its first poll
stops a stream with a retained delivery; a compensating stop hits the stream it
only attached to; a stop served late leaves a proxy whose ack is refused for
ever (why `EveryEventPersisted` asks for a calm runtime).  A total deadline under
seven seconds leaves no room for the typed answer.

*Workflows.*  A refused channel list makes all channels look offline, so a
rotation touches online ones; a camera whose password changed but whose
credential could not be stored is reported failed; a nested rotation covers the
whole new subnet; a camera stranded between the networks is not in the plan of
the next run.

*Devices.*  A failed connect leaves the native client initialised
(`manager.py:1160`); an abandoned readdressing may still move the device after a
failure was reported, with Stop and Quit beside it, and a failed Start leaves
Initial without its Quit; a dry run is "ready" while another device holds the
old address; a request that returned false is followed by the other overload although
the device may have taken it (`ip_modify.py:357`); a library that reports success for a
part of a configuration file is believed; an edit by another user between the comparison
and the write of `update_node_encode_verified` is overwritten and reported as updated;
`set_node_encode` writes back the other profile as it was read;
`ensure_services_enabled` drops `anonymous_access` (`xml_api.py:889`).  A login of one
manager may run under the connection timeout that another has set for its own.  A plate
search leaves out the records it cannot resolve (`xml_api.py:1801-1847`) and calls its
result complete.

*Platform.*  A failed logout is logged and its session forgotten
(`platform_backend.py:1304-1322`, `sdk.py:1884-1900`); while such a session exists, the
late answer to its login can authenticate the next client.  The failure to decrypt an
authId leaves the token of the web session set (`web_session.py:248-251`).

## 5. What is proved

Each theorem is `Spec => []Inv`, `Spec => [][A]_vars` or `Spec => abstract Spec` for
**every** value of the constants, under the named assumption of the module
(`ServerSpec` is the alarm server's, `StreamSpec` the runtime proxy's and `NvrSpec` the
XML client's; their names differ from those of the module they share a module of
proofs with); only
`ThunkCorrect` and `QuietCorrect` assume more (`SdkQuiesces /\ Spec`).

| module | theorems (and the property of a run each states) |
|---|---|
| `PlateEventStream_proofs` | `TypeCorrect`, `SignalCorrect` (`SignalLast`), `WakeupCorrect` (`NoLostWakeup`), `RoomCorrect` (`RoomForPut`), `Refines` (`IsLossyBuffer`), `BooksCorrect` (`AccountsKept`) |
| `PoolAndServer_proofs` (the pool) | `AccountsCorrect` (`PoolAccounts`), `ExclusionCorrect` (`HeldExclusively`), `KeepaliveCorrect` (`KeepaliveSparesUsers`) |
| `PoolAndServer_proofs` (the alarm server) | `BooksCorrect` (`BooksKept`), `JoinsCorrect` (`JoinsStartedThreads`) |
| `SmartSubscription_proofs` | `ThunkCorrect` (`ThunkRetained`), `QuietCorrect` (`QuietAfterClose`), `AccountedCorrect` (`SubscriptionsAccounted`) |
| `RuntimeCalls_proofs` (delivery) | `AcksCorrect` (`AckedWasPersisted`), `CloseCorrect` (`DeliverySurvivesClose`) |
| `DeviceManager_proofs` | `TimeoutCorrect` (`TimeoutRestored`), `ResolutionCorrect` (`FullResolutionFirst`), `DeadlineCorrect` (`NoLoginUnderDeadline`), `UrlsCorrect` (`UrlsAreCurrent`) |
| `DeviceSession_proofs` | `FrameCorrect` (`FrameIsOwn`), `NothingLeftCorrect` (`NothingLeftBehind`), `OrphanCorrect` (`OrphanInvalidates`), `UpdatesCorrect` (`UpdatesHonest`) |
| `RuntimeCalls_proofs` (readdressing, exchange) | `OrderCorrect` (`NativeCallsOrdered`), `ModifiedCorrect` (`ModifiedTruly`), `AnswerCorrect` (`AnswerReachesCaller`), `SitesCorrect` (`SitesTruthful`) |
| `SiteWorkflows_proofs` (the workflows) | `ResultsCorrect` (`ResultsTruthful`), `UntouchedCorrect` (`OnlineUntouched`), `FailuresCorrect` (`FailuresNamed`) |
| `SiteWorkflows_proofs` (the recorder's client) | `ReadsCorrect` (`ReadsTruthful`), `VerifiedCorrect` (`VerifiedMeansWritten`), `ArmedCorrect` (`AlarmsStayArmed`) |
| `ManagementClient_proofs` | `ListsCorrect` (`ListsCurrent`), `SessionsCorrect` (`SessionsHeld`), `AlarmsCorrect` (`AlarmsHeld`), `CoverageCorrect` (`SteadyCoverage`) |

*Stream.*  `TypeOK` is not inductive: the event an eviction counts must not be
the close signal.  `TInv` adds that whoever is inside `_enqueue` is alone and
finds the stream open (`LockDiscipline`), that a recording reader has an event
(`HandDiscipline`), that no signal precedes the close (`NoEarlySignal`), and that
one closer at a time calls its closer (`CloseDiscipline`).  `SInv` joins
`SignalLast`, `NoLostWakeup` and `RoomForPut` to it; they need each other: a reader
may put the signal back only because there is room, there is room because it
holds the only signal, and a wake-up exists because the flag is exact.

*Stream, refinement.*  `RInv` adds to `SInv` what the steps of the abstract buffer
ask for: what a callback has yet to enqueue is the rest of its payload, and none of
its later events is in the stream before its turn (`FInv`), and only a stream that
drops the oldest is ever evicting (`PolicyKept`).  Under it each action maps to
`Accept`, `Refuse`, `Evict`, `Take` or a step of the close of `LossyBuffer`, or to a
stutter.

*Stream, accounts.*  The sum of the image bytes over a set of events is a recursive
function on sets, so its laws (`SumExists`, `SumWithout`, `SumWith`, `SumOfPart`)
are proved first, by a least counterexample among the finite sets (`LeastSubset`).
`BInv` says where an event can be: once in the queue, or in one hand
(`Places`), and that neither a waiting put nor the work in progress exceeds what
the eviction loop made room for (`Limits`); the byte count then changes with the
set it sums.  `AInv` adds what each callback still has of the events it parsed
(`CInv`), so that at the end of all callbacks the count of the parsed is the sum of
the three cardinalities.

*Pool.*  What the properties leave out is what is true of a session before it is
pooled: it belongs to the one thread that connected it (`CallersFit`) and nobody
has it or has marked it (`FreshUntouched`); a pooled one is in one entry
(`OneEntry`).  With the pointwise forms of the two properties (`Accounted`,
`Exclusive`) this is inductive.  The bound on the overshoot is a counting
argument: a step adds a healthy entry only for a thread that was `Connecting`,
and a thread begins to connect only below the limit (`CapacityCases`,
`CapacityStep`); what is logged in beside these was given up.  The keepalive theorem needs exclusiveness: what is evicted is
unused under the lock, so no caller has it.

*Subscriptions.*  The first two theorems assume `SdkQuiesces`: clearing the slot of the
SDK returns after the calls the SDK has dispatched have begun.  The thunk is released only
by a thread that holds the lock and has seen no callback in the client
(`DrainsLocked`: since it cleared the slot nothing could be dispatched to that
client), and a thunk that was released does not come back, because a stream is
installed once (`InstalledOnce`, `ThunkGone`).  What a step of a thread may do is
stated once, in `Moves`, `MovesStatus`, `MovesLock` and `MovesThunk`, and proved for
each of the twenty steps; the parts of the invariant follow from these alone.
`AccountedCorrect` needs no assumption about the SDK: `Accounts` says what each
thread is in the middle of (`Operations`), that one thread at a time sets a session
up, closes a stream or works on a client's sessions (`SetupAlone`, `ClosingOnce`,
`SessionAlone`), that the client holds every stream with tokens (`Held`), that a close
that has not failed has ended all its subscriptions (`Settled`), and that every
subscription of a device is a token of one of its streams (`TokensKnown`).

*Alarm server.*  `CurIsOwn`: the connection `serve_forever` works on has no
handler until it starts one, and only then is a handler `new`.  `ThreadsListed`
says what `_threads` is while the lock is taken.  The slots follow by showing
that each step changes slots and holders together (`SlotsStep`).

*Runtime client.*  Every acknowledgement on its way, awaited or late, is of a
stored event (`AcksAreOfStored`), since `ack` sends the pending number, and that is
what the application holds (`HeldIsPending`); an answered poll carries a delivery
that was made (`CallsFit`).  Of a careful application beside a calm runtime `KInv`
says what it knows without asking: the delivery retained is the pending one, unless
its acknowledgement was served and the answer was lost or is on its way
(`KnowsRetained`); since no call is late and a close sends a stop only with nothing
pending and nothing uncertain (`CallsInOrder`), that stop finds nothing retained.

*Manager.*  `MInv` has one part for each thing managers share or keep: `Operations`
(an operation in progress has tried what its phase says, and a session belongs to
the manager that has it), `Timeouts` (the timeout is someone's own only while
someone logs in through NAT), `Cached` (every cached URL was made from the password
of its key, for a camera that was there at its time) and `World` (each camera has a
time at which it was last behind the channel, and for the one there it is now).  The four theorems are consequences of `MInv` and of
what one step does with the entry or the result it returns.

*Session.*  `SInv`: a preview delivers to the request it was started with, of its own
channel, whatever happens to the caller (`Streams`), and a request in
`_live_requests` is that of a capture in progress (`Captures`, `Requests`); so a
late frame reaches its own channel's request or none.  `Finds` and `Backup` tie
enumerations and temporary files to the calls that close or remove them.  Of an update
`Told` says what its history has: while it is to write, the state it read, with the
baseline, is one the profiles have had since; when it has a verdict to return, one of
them is what the verdict was made from.  Steps of others only add to the history
(`OnlyUpdates` gives the calls that end it).

*Bounded calls.*  `IInv`: requests are abandoned only once the last was made
(`OneAtMost`), a request is made only after a start that returned and before any call
that stops the runtime, and what stops it and is exported has been called on every way
to a result, quit after stop (`Stopping`), and the
report is true, since no abandoned call takes a device from its new address
(`Told`, `NewStays`).  `XInv`: what the client has left of its deadline exceeds what
the runtime may still use by the grace period (`Timely`), because it does so when
the exchange begins, in every way the two timeouts are derived (`GraceIsLeft`); and
what it has received fits the line (`Within`).

*Inventories.*  `Walk` is a recursive function of the number of steps; that it exists,
and every fact about its states, is proved by a least counterexample among the numbers
(`LeastNumber`, `WalkExists`, `WalkAlways`).  `WalkInv`: a walk sees no goal on its way,
stays in every set that is closed upwards and holds its start, has seen what is above
all it has seen, and sees a new node with each step until it stops.  So it has stopped
after as many steps as there are nodes and one more, and what it has seen is then
closed, or leads to its goal (`WalkSays`).  Joined for the walk to the nearest area and
the one from there to a site root, these sets decide whether a root is above a node
(`ViaAreaSays`), whatever cycles there are.  `InventoryInv` carries this through
the exchange: the parser takes no body but the inventory of a list.

*Workflows.*  A rotation's `RInv` says which cameras are still to be dealt with
(`Left`, over the loops that are to come): they have no status and all others of the
scope have one (`Accounted`), and no two loops share a camera (`Apart`).  Every step of
a loop `Deals` with one camera of `Left`, leaves all others as they are, and gives a
good status only on target; that keeps earlier results true, and is also why an
online camera is never touched.  `Halfway` is what a camera between two calls has.
`WInv` adds for a subnet change that each camera of the plan is failed, done or
still to be moved, in the order of the passes (`MovesOK`).

*Recorder client.*  An operation is a program of requests, so first every program and
every rest of one is shown to be a sequence of requests (`Programs`, `Shape`), and
well-formed for its operation: which requests it may make, in which order, that a
write to be verified ends with its read-back, that a list is not begun again.  Every
rest of such a program is as well-formed (`SuffixFits`), so this is an invariant and needs
no induction over programs.  `NInv` adds what an operation knows by
then: the wish was made from what was read (`Values`, `Alarm`), the channels it lists are
those the recorder listed (`Enumerated`), a record that was there all the time is found
or still to be resolved (`Complete`), the recorder and every listed channel have the new password once the
requests for them are gone from the program (`Synced`), and every camera that is neither
left nor missed was edited (`Passed`).  Another user may change settings, schedules and
channels between any two requests; what the properties say is about the step that returns,
or the recorder at the time it was asked.  `NInv` was checked by TLC on the instance of
`Nvr` before it was proved.

*Management client.*  `Sessions`, which is inductive, has two parts.  `Base` holds always:
what the server has of a client is a login or session in use, or was left behind by a
logout that failed (`Accounted`), and then the uninitialisation failed as well.  The rest
holds as long as nothing was left behind: `PInv` says of the PlatformSDK that one login is in progress or
one session in use (`Single`), that what the server knows of is in the hands of the
client and is what the process-wide callback is for (`Owned`), and that an outcome is
that of the login that waits (`Phases`).  So every message reaches the session it is
meant for, and the rows a session keeps say, with the messages still under way, what
the server has (`Current`, by `Informed` and `Unheard` for each resource): a message
that is delivered moves what it says from one side to the other (`DeliveryInforms`),
a change adds a message that says it (`NewsOfState`, `NewsOfNode`).  Nothing under
way is then the premise of `ListsCurrent`.  `Natives` is the corresponding fact for
NET_SDK: what is live is the handle in use, or `lost`.  `Steady` adds to `SteadyCoverage` what a walk knows half-way (`Covers`): a
device that stayed was found or is in an area still to come, and what was seen of
the present area is of it unless its total has changed; one device that comes or
goes does change it (`TotalsChange`), and the walk fails.  The last page of an
area then has all of it, since what was seen is a part of it with as many members
(`PageCovers`).

**Assumptions.**  The `ASSUME` of each module: positive bounds, distinct values
for none, the close signal and the literals used beside them, payloads that are
sequences of events, deadlines within the range the runtime accepts, and finite
sets of connections, sessions, callers, threads, resources and areas where something
is counted; that `None` is no value of a recorder's setting; that a resource list is
finite and its ids are positive, since 0 stands for no parent (which parents it names,
in the list or not, is free).  A cache with a time to live of 0 is not used, as in
`manager.py`.  A set of profiles the device has served differs from none
(`ServedAssumption`).

**Only model-checked.**  Liveness under fairness and `ENABLED`, which are out of the
prover's reach: `CallsReturn`, `EverythingEnds`, `EveryEventPersisted` and
`SiteConverges`.  `DriftHandled` the code violates.  Every other property of a run
is stated by a theorem.

## 6. Not modelled

* `platform_sdk/sdk_namespace.py`: tables of symbols and signatures; the calls it wraps
  are steps of `PlatformSession` that may fail.
* ctypes declarations, types, loader, registry, data models, output, strategy and
  capability tables, command lines other than those above: no behaviour over time.
* The SDK HTTP service client, the camera web API and maintenance calls: one
  stateless request per method.
* Discovery and scanning: one-shot reads; `IpModify` takes a scan as what it finds.
* Parsers of alarm, vehicle and plate payloads, log parsers, key-frame extraction
  and the configuration diff: their content is the layout of the data.
* Cryptography is taken to work; message texts, logging and layout are left out.
* Time is abstract (a timeout may happen or not) except in `RuntimeExchange` and in
  the cache of `DeviceManager`.
