-------------------------- MODULE RuntimePlateStream --------------------------
(***************************************************************************)
(* RuntimePlateEventStream of runtime_client.py with acknowledged delivery:*)
(* a proxy for a plate subscription that a persistent runtime process owns.*)
(* Each call is one exchange over a socket.  The runtime keeps a delivery  *)
(* until it is acknowledged; the application acknowledges what it has      *)
(* persisted.                                                              *)
(*                                                                         *)
(* A call is sent, served by the runtime, and answered; the answer may be  *)
(* lost, or come too late, or not parse, which are the same to the caller: *)
(* RuntimeClientError.  A call whose caller gave up may still be served,   *)
(* unless the runtime is calm.  The runtime is another program: its steps  *)
(* are what runtime_client.py and docs/LPR_EVENT_INGESTION.md rely on.     *)
(*                                                                         *)
(* Events are numbered in the order they arrive, which is also the         *)
(* sequence number of their delivery; 0 stands for none.                   *)
(*                                                                         *)
(* A definition marked "mutant" is a wrong version of the one below it and *)
(* takes part in nothing.                                                  *)
(***************************************************************************)
EXTENDS Naturals, FiniteSets

CONSTANTS Events,  \* how many events arrive: a bound
          MaxLate  \* calls that may be late at one time: a bound

ASSUME StreamAssumption == {Events, MaxLate} \subseteq Nat

VARIABLES
  calm,       \* the runtime serves no call that its caller gave up, and no
              \* answer to a start is refused: chosen once
  careful,    \* the application polls a proxy before it closes it, and retries
              \* an ack that failed before it polls again: chosen once
  on,         \* runtime: the stream exists
  arrived,    \* runtime: events so far
  sent,       \* runtime: the last event that became a delivery, or is gone
  retained,   \* runtime: the delivery it keeps until it is acknowledged
  acked,      \* runtime: the deliveries that were acknowledged
  proxy,      \* the application's proxy: "none", "attached" or "closed"
  pending,    \* _pending_sequence
  uncertain,  \* _delivery_state_uncertain
  call,       \* the call in progress
  late,       \* calls nobody waits for that the runtime may still serve
  got,        \* the event get has returned last and ack has not settled
  unsettled,  \* an ack of it has failed
  polled,     \* the application has polled this proxy
  persisted   \* the events the application has stored

runtime == <<on, arrived, sent, retained, acked>>
proxyState == <<proxy, pending, uncertain, call, late>>
habits  == <<calm, careful>>
app     == <<got, unsettled, polled, persisted, habits>>
vars    == <<runtime, proxyState, app>>

Event   == 1 .. Events
NoCall  == [op |-> "none", seq |-> 0, answered |-> FALSE]
CallOf(o, n) == [op |-> o, seq |-> n, answered |-> FALSE]
Answer(n)     == [call EXCEPT !.seq = n, !.answered = TRUE]

StreamInit ==
  /\ on = FALSE /\ arrived = 0 /\ sent = 0 /\ retained = 0 /\ acked = {}
  /\ proxy = "none" /\ pending = 0 /\ uncertain = FALSE
  /\ call = NoCall /\ late = {}
  /\ got = 0 /\ unsettled = FALSE /\ polled = FALSE /\ persisted = {}
  /\ calm \in BOOLEAN /\ careful \in {calm, FALSE}

Idle == call = NoCall

-----------------------------------------------------------------------------
(* The runtime *)

Arrive ==
  /\ on
  /\ arrived < Events
  /\ arrived' = arrived + 1
  /\ UNCHANGED <<on, sent, retained, acked, proxyState, app>>

\* A poll returns the retained delivery, or makes one of the next event.
Delivery == IF retained # 0 THEN retained
            ELSE IF sent < arrived THEN sent + 1 ELSE 0

\* What each call does to the runtime, r being the request.
StartStream(r) == r.op = "start" /\ on' = TRUE /\ UNCHANGED <<sent, retained, acked>>

Poll(r) == /\ r.op = "poll"
           /\ on
           /\ retained' = Delivery
           /\ sent' = IF Delivery > sent THEN Delivery ELSE sent
           /\ UNCHANGED <<on, acked>>

\* An acknowledgement is idempotent.
Acknowledge(r) == /\ r.op = "ack"
                  /\ on
                  /\ r.seq = retained \/ r.seq \in acked
                  /\ acked' = acked \cup {r.seq}
                  /\ retained' = IF r.seq = retained THEN 0 ELSE retained
                  /\ UNCHANGED <<on, sent>>

\* A stopped stream forgets its events.
StopStream(r) == /\ r.op \in {"stop", "discard", "undo"}
                 /\ on' = FALSE
                 /\ sent' = arrived
                 /\ retained' = 0
                 /\ UNCHANGED acked

Effect(r) == StartStream(r) \/ Poll(r) \/ Acknowledge(r) \/ StopStream(r)

\* It refuses a poll of no stream, and the acknowledgement of another event.
Refused(r) == \/ r.op \in {"poll", "ack"} /\ ~on
              \/ r.op = "ack" /\ r.seq # retained /\ r.seq \notin acked

Serve ==
  /\ call.op # "none" /\ ~call.answered
  /\ Effect(call)
  /\ call' = Answer(IF call.op = "poll" THEN Delivery ELSE call.seq)
  /\ UNCHANGED <<arrived, proxy, pending, uncertain, late, app>>

ServeLate(r) ==
  /\ r \in late
  /\ late' = late \ {r}
  /\ \/ Effect(r)
     \/ Refused(r) /\ UNCHANGED <<on, sent, retained, acked>>
  /\ UNCHANGED <<arrived, proxy, pending, uncertain, call, app>>

-----------------------------------------------------------------------------
(* The application and its proxy *)

\* The application has nothing of the stream in its hands.
EmptyHanded == got' = 0 /\ unsettled' = FALSE /\ polled' = FALSE

\* subscribe_plate_events: with the stable stream id it creates the stream or
\* attaches to the one there is.
Subscribe ==
  /\ Idle
  /\ proxy # "attached"
  /\ call' = CallOf("start", 0)
  /\ UNCHANGED <<runtime, proxy, pending, uncertain, late, app>>

Subscribed ==
  /\ call.op = "start" /\ call.answered
  /\ call' = NoCall
  /\ proxy' = "attached"
  /\ pending' = 0 /\ uncertain' = FALSE
  /\ EmptyHanded
  /\ UNCHANGED <<runtime, late, persisted, habits>>

\* The answer to the start is not what it negotiated: a stop compensates for
\* it, on the stream it may only have attached to, and whatever becomes of the
\* stop subscribe raises (CallFails).
Compensate ==
  /\ ~calm
  /\ call.op = "start" /\ call.answered
  /\ call' = CallOf("undo", 0)
  /\ UNCHANGED <<runtime, proxy, pending, uncertain, late, app>>

\* get, get_nowait and drain: one delivery at most.  The state is uncertain
\* until the answer is known.
Get ==
  /\ Idle
  /\ proxy = "attached"
  /\ careful => ~unsettled
  /\ uncertain' = TRUE
  /\ call' = CallOf("poll", 0)
  /\ polled' = TRUE
  /\ UNCHANGED <<runtime, proxy, pending, late, got, unsettled, persisted, habits>>

\* The delivery is the pending one again, or there was none pending.
Replaced(n) == pending # 0 /\ n # pending

Got ==
  /\ call.op = "poll" /\ call.answered
  /\ ~Replaced(call.seq)
  /\ call' = NoCall
  /\ pending' = call.seq
  /\ uncertain' = (call.seq # 0)
  /\ got' = call.seq
  /\ UNCHANGED <<runtime, proxy, late, unsettled, polled, persisted, habits>>

\* "runtime replaced an unacknowledged plate delivery": get raises, and the
\* event in the answer is not returned.
PendingReplacement(n) == n  \* mutant
PendingAfterReplacement(n) == pending

GotReplacement ==
  /\ call.op = "poll" /\ call.answered
  /\ Replaced(call.seq)
  /\ call' = NoCall
  /\ pending' = PendingAfterReplacement(call.seq)
  /\ UNCHANGED <<runtime, proxy, uncertain, late, app>>

Persist ==
  /\ Idle
  /\ got # 0
  /\ persisted' = persisted \cup {got}
  /\ UNCHANGED <<runtime, proxyState, got, unsettled, polled, habits>>

\* The application acknowledges an event when it has stored it.
Ack ==
  /\ Idle
  /\ proxy = "attached"
  /\ got \in persisted
  /\ pending # 0
  /\ call' = CallOf("ack", pending)
  /\ UNCHANGED <<runtime, proxy, pending, uncertain, late, app>>

PendingKept == pending  \* mutant
PendingAfterAck == 0

Acked ==
  /\ call.op = "ack" /\ call.answered
  /\ call' = NoCall
  /\ pending' = PendingAfterAck
  /\ uncertain' = FALSE
  /\ got' = 0 /\ unsettled' = FALSE
  /\ UNCHANGED <<runtime, proxy, late, polled, persisted, habits>>

\* close: a delivery that is or may be pending is kept by leaving the stream
\* alone, unless the application discards it.
DetachesIfPending == pending # 0  \* mutant
Detaches == pending # 0 \/ uncertain

Detach ==
  /\ Idle
  /\ proxy = "attached"
  /\ Detaches
  /\ proxy' = "closed"
  /\ EmptyHanded
  /\ UNCHANGED <<runtime, pending, uncertain, call, late, persisted, habits>>

Close ==
  /\ Idle
  /\ proxy = "attached"
  /\ ~Detaches
  /\ careful => polled
  /\ call' = CallOf("stop", 0)
  /\ UNCHANGED <<runtime, proxy, pending, uncertain, late, app>>

Discard ==
  /\ Idle
  /\ proxy = "attached"
  /\ call' = CallOf("discard", 0)
  /\ UNCHANGED <<runtime, proxy, pending, uncertain, late, app>>

Stopped ==
  /\ call.op \in {"stop", "discard"} /\ call.answered
  /\ call' = NoCall
  /\ proxy' = "closed"
  /\ EmptyHanded
  /\ UNCHANGED <<runtime, pending, uncertain, late, persisted, habits>>

\* The exchange fails: it was refused, or its answer is lost, late or does not
\* parse.  The proxy keeps the state it had when the call was sent.
CallFails ==
  /\ ~Idle
  /\ call' = NoCall
  /\ unsettled' = (unsettled \/ call.op = "ack")
  /\ late' = IF ~calm /\ ~call.answered /\ Cardinality(late) < MaxLate
           THEN late \cup {call} ELSE late
  /\ UNCHANGED <<runtime, proxy, pending, uncertain, got, polled, persisted, habits>>

\* The application ends without closing, and is started again.
Crash ==
  /\ Idle
  /\ proxy = "attached"
  /\ proxy' = "none"
  /\ EmptyHanded
  /\ UNCHANGED <<runtime, pending, uncertain, call, late, persisted, habits>>

-----------------------------------------------------------------------------
TakesAnswer == Subscribed \/ Compensate \/ Got \/ GotReplacement \/ Acked \/ Stopped

StreamNext ==
  \/ Arrive \/ Serve \/ (\E r \in late : ServeLate(r))
  \/ Subscribe \/ Get \/ Persist \/ Ack \/ Detach \/ Close \/ Discard
  \/ TakesAnswer \/ CallFails \/ Crash

StreamSpec == StreamInit /\ [][StreamNext]_vars

\* The application that consumes the stream: it attaches, polls, stores and
\* acknowledges again and again, whatever fails; it may also close and crash.
\* Every exchange ends, by its timeout if not otherwise, and exchanges may
\* fail, but not always: strong fairness.
ConsumerSpec == /\ StreamSpec
                /\ WF_vars(TakesAnswer \/ CallFails)
                /\ SF_vars(Subscribe) /\ SF_vars(Subscribed)
                /\ SF_vars(Get) /\ SF_vars(Got)
                /\ SF_vars(Persist)
                /\ SF_vars(Ack) /\ SF_vars(Acked)
                /\ \A o \in {"start", "poll", "ack"} : SF_vars(call.op = o /\ Serve)

-----------------------------------------------------------------------------
(* Properties *)

AnyCall == [op : {"none", "start", "poll", "ack", "stop", "discard", "undo"},
            seq : 0 .. Events, answered : BOOLEAN]

TypeOK ==
  /\ on \in BOOLEAN
  /\ arrived \in 0 .. Events /\ sent \in 0 .. arrived
  /\ retained \in 0 .. sent
  /\ acked \in SUBSET Event
  /\ proxy \in {"none", "attached", "closed"}
  /\ pending \in 0 .. sent
  /\ uncertain \in BOOLEAN
  /\ call \in AnyCall
  /\ late \in SUBSET AnyCall
  /\ got \in 0 .. sent
  /\ unsettled \in BOOLEAN /\ polled \in BOOLEAN
  /\ calm \in BOOLEAN /\ careful \in BOOLEAN
  /\ persisted \in SUBSET Event

\* The runtime gives up only what the application has stored, and what ack
\* settles next is what the application holds: no lost, late or repeated answer
\* makes an ack settle an event that get did not return.
AckedWasPersisted ==
  /\ TypeOK
  /\ acked \subseteq persisted
  /\ proxy = "attached" /\ Idle /\ got # 0 => pending = got

\* "Closing a proxy with an unacknowledged delivery detaches without stopping
\* the remote stream": for a careful application and a calm runtime only a close
\* that discards stops a stream that retains a delivery.
DeliverySurvivesClose ==
  [][calm /\ careful /\ on /\ ~on' /\ retained # 0 => call.op = "discard"]_vars

\* An event the runtime has, retained or still to be delivered, is stored in
\* the end, unless the stream is stopped: whether or not the application is
\* careful, if the runtime is calm.  (When it is not, a late stop may leave the
\* proxy with an ack the runtime refuses for ever.)
Has(e) == on /\ (retained = e \/ (sent < e /\ e <= arrived))
EveryEventPersisted == \A e \in Event : calm /\ Has(e) ~> e \in persisted \/ ~on
=============================================================================
