--------------------------- MODULE PlateEventStream ---------------------------
(***************************************************************************)
(* PlateEventStream of device_sdk/plate_events.py: the bounded queue that  *)
(* native SDK threads fill (ingest), application threads read (get,        *)
(* get_nowait, drain) and any thread may close.                            *)
(*                                                                         *)
(* Two locks meet in it.  The stream's _lock guards the counters, the byte *)
(* budget and the close flags; the queue.Queue has a lock of its own, and  *)
(* readers take from the queue holding only that one.  A reader can        *)
(* therefore take an event between any two queue operations of _enqueue,   *)
(* and between taking an event and accounting for it.  A step here is      *)
(* either one critical section of _lock or, where the section makes        *)
(* several queue operations a reader can come between, one of those        *)
(* operations.                                                             *)
(*                                                                         *)
(* A definition marked "mutant" is a wrong version of the one below it: it *)
(* takes part in nothing, and shows which property notices the mistake.    *)
(***************************************************************************)
EXTENDS Integers, Sequences, FiniteSets

CONSTANTS Event,        \* the plate events that payloads can carry
          Callback,     \* the calls of ingest made by native threads
          Reader,       \* application threads that read the stream
          Poller,       \* those of them that also use get_nowait or drain
          Closer,       \* threads that call close
          EventsOf,     \* the events in the payload of each callback
          Bytes,        \* the image bytes of each event
          MaxEvents,    \* max_events, the capacity of the queue
          MaxBytes,     \* max_buffer_bytes
          CloseSignal   \* the None that close puts in the queue

ASSUME StreamAssumption ==
  /\ MaxEvents \in Nat \ {0}
  /\ MaxBytes \in Nat \ {0}
  /\ Bytes \in [Event -> Nat]
  /\ EventsOf \in [Callback -> Seq(Event)]
  /\ CloseSignal \notin Event
  /\ Poller \subseteq Reader

\* Events are distinct objects: no payload repeats one, no two share one.
ASSUME DistinctEvents ==
  \A c, d \in Callback : \A i \in DOMAIN EventsOf[c], j \in DOMAIN EventsOf[d] :
     EventsOf[c][i] = EventsOf[d][j] => c = d /\ i = j

VARIABLES
  dropOldest, \* _drop_policy is DROP_OLDEST (else DROP_NEWEST)
  queue,      \* _queue: events, and CloseSignal
  bufBytes,   \* _buffered_image_bytes
  dropped,    \* the events _events_dropped counts
  taken,      \* history: the events readers have taken from the queue
  count,      \* the other counters of PlateStreamStats
  closed,     \* _closed
  closing,    \* _closing
  signalled,  \* _close_signal_queued
  cb,         \* where each callback is in ingest and _enqueue
  pending,    \* the events it has yet to enqueue
  rd,         \* where each reader is
  hand,       \* the event a reader has taken and not yet accounted for
  cl          \* where each closer is

stream  == <<dropOldest, queue, bufBytes, dropped, count, closed, closing, signalled>>
callers == <<cb, pending, rd, hand, cl>>
vars    == <<stream, taken, callers>>

Counter == {"received", "parsed", "malformed", "ignored", "rejected"}
CbPC    == {"new", "parse", "enqueue", "test", "evict", "put", "done"}
RdPC    == {"idle", "waiting", "recording", "stopping", "polled", "ended"}
ClPC    == {"idle", "calling", "done"}

Elems(s) == {s[i] : i \in DOMAIN s}

\* _enqueue is the one section of _lock that spans several steps.
InEnqueue(c) == cb[c] \in {"test", "evict", "put"}
LockFree     == \A c \in Callback : ~InEnqueue(c)

RefusingUnlessClosing == closed  \* mutant
Refusing == closed \/ closing

Full == Len(queue) >= MaxEvents

OverLimit(e) == Full \/ bufBytes + Bytes[e] > MaxBytes

\* An entry taken from the queue is the close signal, not an event.
IsSignal(x) == x = CloseSignal

\* There is nothing left for a reader of a closed stream.
Exhausted == closed /\ queue = <<>>

Tick(k) == count' = [count EXCEPT ![k] = @ + 1]

Init == /\ dropOldest \in BOOLEAN
        /\ queue = <<>>
        /\ bufBytes = 0
        /\ dropped = {}
        /\ taken = {}
        /\ count = [k \in Counter |-> 0]
        /\ closed = FALSE
        /\ closing = FALSE
        /\ signalled = FALSE
        /\ cb = [c \in Callback |-> "new"]
        /\ pending = [c \in Callback |-> <<>>]
        /\ rd = [r \in Reader |-> "idle"]
        /\ hand = [r \in Reader |-> CloseSignal]
        /\ cl = [k \in Closer |-> "idle"]

-----------------------------------------------------------------------------
(* Native threads *)

\* reject_callback: the trampoline found the payload too long.
RejectCallback(c) ==
  /\ LockFree
  /\ cb[c] = "new"
  /\ cb' = [cb EXCEPT ![c] = "done"]
  /\ Tick("rejected")
  /\ UNCHANGED <<dropOldest, queue, bufBytes, dropped, closed, closing, signalled,
                 taken, pending, rd, hand, cl>>

\* The first section of ingest: a closed or closing stream ignores the call.
IngestBegin(c) ==
  /\ LockFree
  /\ cb[c] = "new"
  /\ IF Refusing
     THEN cb' = [cb EXCEPT ![c] = "done"] /\ UNCHANGED count
     ELSE cb' = [cb EXCEPT ![c] = "parse"] /\ Tick("received")
  /\ UNCHANGED <<dropOldest, queue, bufBytes, dropped, closed, closing, signalled,
                 taken, pending, rd, hand, cl>>

\* The payload is parsed outside the lock ...
IngestParsed(c) ==
  /\ cb[c] = "parse"
  /\ cb' = [cb EXCEPT ![c] = "enqueue"]
  /\ pending' = [pending EXCEPT ![c] = EventsOf[c]]
  /\ UNCHANGED <<stream, taken, rd, hand, cl>>

\* ... unless it is malformed or of a command the stream does not handle.
IngestUnusable(c) ==
  /\ LockFree
  /\ cb[c] = "parse"
  /\ cb' = [cb EXCEPT ![c] = "done"]
  /\ \E k \in {"malformed", "ignored"} : Tick(k)
  /\ UNCHANGED <<dropOldest, queue, bufBytes, dropped, closed, closing, signalled,
                 taken, pending, rd, hand, cl>>

\* The last section of ingest, once every event went through _enqueue.
IngestEnd(c) ==
  /\ LockFree
  /\ cb[c] = "enqueue"
  /\ pending[c] = <<>>
  /\ cb' = [cb EXCEPT ![c] = "done"]
  /\ count' = [count EXCEPT !["parsed"] = @ + Len(EventsOf[c])]
  /\ UNCHANGED <<dropOldest, queue, bufBytes, dropped, closed, closing, signalled,
                 taken, pending, rd, hand, cl>>

\* Callback c leaves _enqueue and goes on to its next event.
Leave(c) == /\ cb' = [cb EXCEPT ![c] = "enqueue"]
            /\ pending' = [pending EXCEPT ![c] = Tail(@)]

\* The event is counted in _events_dropped.
Drop(e) == dropped' = dropped \cup {e}

\* The early returns of _enqueue: the stream is refusing, the event can never
\* fit, or DROP_NEWEST finds no room.
ReturnsEarly(e) == \/ Refusing
                   \/ Bytes[e] > MaxBytes
                   \/ OverLimit(e) /\ ~dropOldest

\* _enqueue takes the lock and drops the event at once, or goes on.
EnqueueBegin(c) ==
  /\ LockFree
  /\ cb[c] = "enqueue"
  /\ pending[c] # <<>>
  /\ LET e == Head(pending[c]) IN
       IF ReturnsEarly(e)
       THEN Leave(c) /\ Drop(e)
       ELSE cb' = [cb EXCEPT ![c] = "test"] /\ UNCHANGED <<pending, dropped>>
  /\ UNCHANGED <<dropOldest, queue, bufBytes, count, closed, closing, signalled,
                 taken, rd, hand, cl>>

\* The condition of the eviction loop.
EnqueueTest(c) ==
  /\ cb[c] = "test"
  /\ cb' = [cb EXCEPT ![c] = IF OverLimit(Head(pending[c])) THEN "evict" ELSE "put"]
  /\ UNCHANGED <<stream, taken, pending, rd, hand, cl>>

\* The accounts of an eviction made for callback c.
EvictionKeepsBytes(c) == Drop(Head(queue)) /\ UNCHANGED bufBytes  \* mutant
Eviction(c) == Drop(Head(queue)) /\ bufBytes' = bufBytes - Bytes[Head(queue)]

\* get_nowait in the loop.  A reader may have emptied the queue since the
\* test: queue.Empty breaks the loop.  (The oldest entry is never CloseSignal
\* here, so the branch of the code that puts it back cannot run: SignalLast.)
AfterEmpty == "put"
EnqueueEvict(c) ==
  /\ cb[c] = "evict"
  /\ IF queue = <<>>
     THEN cb' = [cb EXCEPT ![c] = AfterEmpty] /\ UNCHANGED <<queue, bufBytes, dropped>>
     ELSE /\ cb' = [cb EXCEPT ![c] = "test"]
          /\ queue' = Tail(queue)
          /\ Eviction(c)
  /\ UNCHANGED <<dropOldest, count, closed, closing, signalled, taken, pending, rd, hand, cl>>

\* put_nowait and the byte count.  Others only take from the queue while the
\* lock is held, so put_nowait cannot find it full (RoomForPut).
EnqueuePut(c) ==
  /\ cb[c] = "put"
  /\ Leave(c)
  /\ queue' = Append(queue, Head(pending[c]))
  /\ bufBytes' = bufBytes + Bytes[Head(pending[c])]
  /\ UNCHANGED <<dropOldest, dropped, count, closed, closing, signalled, taken, rd, hand, cl>>

-----------------------------------------------------------------------------
(* Readers *)

\* The test at the head of get: a closed and empty stream raises.
GetBegin(r) ==
  /\ LockFree
  /\ rd[r] = "idle"
  /\ rd' = [rd EXCEPT ![r] = IF Exhausted THEN "ended" ELSE "waiting"]
  /\ UNCHANGED <<stream, taken, cb, pending, hand, cl>>

\* queue.get returns the oldest entry; only the queue's own lock is held.
\* The caller goes on to account for an event, or to put the signal back.
TakeOldest(r, onSignal) ==
  /\ queue # <<>>
  /\ queue' = Tail(queue)
  /\ IF IsSignal(Head(queue))
     THEN rd' = [rd EXCEPT ![r] = onSignal] /\ UNCHANGED <<taken, hand>>
     ELSE /\ rd' = [rd EXCEPT ![r] = "recording"]
          /\ hand' = [hand EXCEPT ![r] = Head(queue)]
          /\ taken' = taken \cup {Head(queue)}
  /\ UNCHANGED <<dropOldest, bufBytes, dropped, count, closed, closing, signalled, cb, pending, cl>>

GetTake(r) == rd[r] = "waiting" /\ TakeOldest(r, "stopping")

\* get(timeout=...) gives up with queue.Empty.
GetTimeout(r) ==
  /\ rd[r] = "waiting"
  /\ queue = <<>>
  /\ rd' = [rd EXCEPT ![r] = "idle"]
  /\ UNCHANGED <<stream, taken, cb, pending, hand, cl>>

\* get_nowait; drain is a series of these.  An empty queue changes nothing.
PollTake(r) == r \in Poller /\ rd[r] = "idle" /\ TakeOldest(r, "polled")

\* close found no room for the signal, and the last event is gone.
OwesSignalAlways == closed /\ queue = <<>>  \* mutant
OwesSignalNever  == FALSE  \* mutant
OwesSignal == closed /\ ~signalled /\ queue = <<>>

\* max(0, _buffered_image_bytes - event_bytes).
BytesReleased(e) == IF bufBytes >= Bytes[e] THEN bufBytes - Bytes[e] ELSE 0

\* _record_dequeue: release the bytes, and queue the signal close owes.
RecordDequeue(r) ==
  /\ LockFree
  /\ rd[r] = "recording"
  /\ rd' = [rd EXCEPT ![r] = "idle"]
  /\ hand' = [hand EXCEPT ![r] = CloseSignal]
  /\ bufBytes' = BytesReleased(hand[r])
  /\ queue' = IF OwesSignal THEN <<CloseSignal>> ELSE queue
  /\ signalled' = (signalled \/ OwesSignal)
  /\ UNCHANGED <<dropOldest, dropped, count, closed, closing, taken, cb, pending, cl>>

\* put_nowait(None), when there is room.
PutSignal == queue' = IF Full THEN queue ELSE Append(queue, CloseSignal)

\* _requeue_close_signal: the signal goes back for the other readers, if it
\* fits.  get then raises RuntimeError; get_nowait raises queue.Empty.
PutBackNothing == UNCHANGED queue /\ signalled' = FALSE  \* mutant
PutBack == PutSignal /\ signalled' = ~Full
RequeueSignal(r) ==
  /\ LockFree
  /\ rd[r] \in {"stopping", "polled"}
  /\ rd' = [rd EXCEPT ![r] = IF @ = "stopping" THEN "ended" ELSE "idle"]
  /\ PutBack
  /\ UNCHANGED <<dropOldest, bufBytes, dropped, count, closed, closing, taken,
                 cb, pending, hand, cl>>

-----------------------------------------------------------------------------
(* Closers *)

\* close on a closed stream returns.  (While another close is running it
\* raises and changes nothing.)
CloseAgain(k) ==
  /\ LockFree
  /\ cl[k] = "idle"
  /\ closed
  /\ cl' = [cl EXCEPT ![k] = "done"]
  /\ UNCHANGED <<stream, taken, cb, pending, rd, hand>>

CloseBegin(k) ==
  /\ LockFree
  /\ cl[k] = "idle"
  /\ ~closed /\ ~closing
  /\ closing' = TRUE
  /\ cl' = [cl EXCEPT ![k] = "calling"]
  /\ UNCHANGED <<dropOldest, queue, bufBytes, dropped, count, closed, signalled,
                 taken, cb, pending, rd, hand>>

\* closer() raised: the stream is open again and close can be retried.
CloserFails(k) ==
  /\ LockFree
  /\ cl[k] = "calling"
  /\ closing' = FALSE
  /\ cl' = [cl EXCEPT ![k] = "idle"]
  /\ UNCHANGED <<dropOldest, queue, bufBytes, dropped, count, closed, signalled,
                 taken, cb, pending, rd, hand>>

\* _close_signal_queued is set unless put_nowait raised queue.Full.
Announce == signalled' = (signalled \/ ~Full)

\* closer() returned: put_nowait(None), or leave the signal to the reader
\* that empties the queue when it is full.
CloseEnd(k) ==
  /\ LockFree
  /\ cl[k] = "calling"
  /\ closing' = FALSE
  /\ closed' = TRUE
  /\ cl' = [cl EXCEPT ![k] = "done"]
  /\ PutSignal
  /\ Announce
  /\ UNCHANGED <<dropOldest, bufBytes, dropped, count, taken, cb, pending, rd, hand>>

-----------------------------------------------------------------------------
Ingest(c) == \/ RejectCallback(c) \/ IngestBegin(c)
             \/ IngestParsed(c) \/ IngestUnusable(c) \/ IngestEnd(c)
             \/ EnqueueBegin(c) \/ EnqueueTest(c) \/ EnqueueEvict(c) \/ EnqueuePut(c)

Read(r) == \/ GetBegin(r) \/ GetTake(r) \/ GetTimeout(r) \/ PollTake(r)
           \/ RecordDequeue(r) \/ RequeueSignal(r)

Close(k) == CloseAgain(k) \/ CloseBegin(k) \/ CloserFails(k) \/ CloseEnd(k)

\* Every reader has been told the stream is closed and every call is over.
Terminated == /\ \A c \in Callback : cb[c] = "done"
              /\ \A r \in Reader : rd[r] = "ended"
              /\ \A k \in Closer : cl[k] = "done"
              /\ UNCHANGED vars

Next == \/ \E c \in Callback : Ingest(c)
        \/ \E r \in Reader : Read(r)
        \/ \E k \in Closer : Close(k)
        \/ Terminated

Spec == Init /\ [][Next]_vars

\* A native thread inside ingest keeps running, and so does a reader inside a
\* call of get.  Nothing obliges an application to read, or anyone to close.
Fairness == /\ \A c \in Callback : WF_vars(cb[c] # "new" /\ Ingest(c))
            /\ \A r \in Reader : WF_vars(GetTake(r) \/ RecordDequeue(r) \/ RequeueSignal(r))

FairSpec == Spec /\ Fairness

-----------------------------------------------------------------------------
(* Properties *)

TypeOK ==
  /\ dropOldest \in BOOLEAN
  /\ queue \in Seq(Event \cup {CloseSignal})
  /\ bufBytes \in Int
  /\ dropped \in SUBSET Event
  /\ taken \in SUBSET Event
  /\ count \in [Counter -> Nat]
  /\ closed \in BOOLEAN
  /\ closing \in BOOLEAN
  /\ signalled \in BOOLEAN
  /\ cb \in [Callback -> CbPC]
  /\ pending \in [Callback -> Seq(Event)]
  /\ rd \in [Reader -> RdPC]
  /\ hand \in [Reader -> Event \cup {CloseSignal}]
  /\ cl \in [Closer -> ClPC]

SignalHolder == {r \in Reader : rd[r] \in {"stopping", "polled"}}
Recording    == {r \in Reader : rd[r] = "recording"}
SignalAt(q)  == {i \in DOMAIN q : q[i] = CloseSignal}

\* The close signal exists only once the stream is closed, there is at most
\* one of it, in the queue behind every event or in the hand of one reader,
\* and _close_signal_queued says exactly whether it exists.  (Two readers
\* could each put one back, or close and the last reader each queue one.)
SignalLast ==
  /\ SignalAt(queue) \subseteq {Len(queue)}
  /\ \A r, s \in SignalHolder : r = s
  /\ SignalHolder # {} => queue = <<>>
  /\ signalled <=> (SignalAt(queue) # {} \/ SignalHolder # {})
  /\ signalled => closed

\* A closed stream always has something that will wake the next reader: an
\* entry in the queue, or a reader about to put the signal there.  close may
\* have found the queue full and left the signal to _record_dequeue.
NoLostWakeup ==
  closed => queue # <<>> \/ Recording # {} \/ SignalHolder # {}

\* put_nowait of _enqueue finds room, although the test that found it ran
\* earlier and others use the queue without the stream's lock.
RoomForPut ==
  /\ Len(queue) <= MaxEvents
  /\ \A c \in Callback : cb[c] = "put" => ~Full
  /\ SignalHolder # {} => ~Full

Queued      == Elems(queue) \ {CloseSignal}

\* The sum of Bytes over a set of events.
ImageBytes(S) == LET sum[T \in SUBSET S] ==
                       IF T = {} THEN 0
                       ELSE LET e == CHOOSE e \in T : TRUE IN Bytes[e] + sum[T \ {e}]
                 IN sum[S]

\* _buffered_image_bytes is what the queue holds plus what readers have taken
\* and not yet accounted for, whatever the order the two locks are taken in;
\* the max(0, ...) of _record_dequeue never has to correct it.
ByteAccounting == bufBytes = ImageBytes(Queued \cup {hand[r] : r \in Recording})

\* The images in the queue never exceed max_buffer_bytes, even when the
\* eviction loop stopped because a reader emptied the queue under it.
QueuedBytesBounded == ImageBytes(Queued) <= MaxBytes

\* When every callback is over, the parsed events are all buffered, delivered
\* or counted as dropped.
Conservation ==
  (\A c \in Callback : cb[c] \in {"new", "done"}) =>
     count["parsed"] = Cardinality(Queued) + Cardinality(taken) + Cardinality(dropped)

\* The accounts of the stream: bytes, limits and events.
AccountsKept == ByteAccounting /\ QueuedBytesBounded /\ Conservation

\* Every reader blocked in get leaves it once the stream is closed, unless one that polls
\* the closed stream again and again keeps taking the signal in front of it.
ReadersWake ==
  \A r \in Reader : closed /\ rd[r] = "waiting" ~> rd[r] # "waiting" \/ \E s \in Reader : rd[s] = "polled"

\* The eviction loop and the waits for the lock end: ingest always returns to
\* the native thread.
IngestReturns == \A c \in Callback : cb[c] # "new" ~> cb[c] = "done"

\* Neither a native thread nor a reader of a closed stream waits for ever.
CallsReturn == ReadersWake /\ IngestReturns

\* What the stream promises: a lossy first-in first-out buffer.
Buffer == INSTANCE LossyBuffer
            WITH Capacity <- MaxEvents,
                 Oversize <- {e \in Event : Bytes[e] > MaxBytes},
                 policy   <- IF dropOldest THEN "oldest" ELSE "newest",
                 buf      <- IF SignalAt(queue) = {} THEN queue ELSE SubSeq(queue, 1, Len(queue) - 1),
                 lost     <- dropped,
                 phase    <- IF closed THEN "shut" ELSE IF closing THEN "shutting" ELSE "open"

IsLossyBuffer == Buffer!Spec
=============================================================================
