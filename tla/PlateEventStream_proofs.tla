------------------------ MODULE PlateEventStream_proofs ------------------------
(***************************************************************************)
(* Proofs about PlateEventStream for every number of callbacks, readers    *)
(* and closers, every payload, every capacity and both drop policies.      *)
(*                                                                         *)
(* SInv (types, the lock discipline, the close signal) is inductive by     *)
(* itself.  RInv adds where every event is: a callback holds the rest of   *)
(* its payload (Rest), no event of it is in the stream before its turn     *)
(* (Ahead), and the eviction loop runs only where the policy evicts        *)
(* (PolicyKept).  Under RInv every step is a step of LossyBuffer or none.  *)
(*                                                                         *)
(* The accounts need the sum ImageBytes, a recursive function, for every   *)
(* finite set of events.  Its facts (SumExists, SumWithout, SumWith,       *)
(* SumOfPart) are proved by taking a least set that refutes them           *)
(* (LeastSubset).  BInv adds to RInv that every event has one place        *)
(* (Places) and what the images there come to (Limits); AInv adds which    *)
(* of them ingest has counted as parsed (CInv).                            *)
(***************************************************************************)
EXTENDS PlateEventStream, FiniteSetTheorems, SequenceTheorems, TLAPS

\* What the lock gives: whoever is inside _enqueue has an event in work, is
\* alone there, and finds the stream open.
LockDiscipline ==
  /\ \A c \in Callback : InEnqueue(c) => pending[c] # <<>>
  /\ \A c, d \in Callback : InEnqueue(c) /\ InEnqueue(d) => c = d
  /\ \A c \in Callback : InEnqueue(c) => ~closed /\ ~closing

\* A reader that has an event to account for has an event.
HandDiscipline == \A r \in Reader : rd[r] = "recording" => hand[r] \in Event

\* There is no close signal before the stream is closed.
NoEarlySignal ==
  ~closed => /\ queue \in Seq(Event)
             /\ \A r \in Reader : rd[r] \notin {"stopping", "polled"}

\* One close at a time is calling its closer, and none after the stream closed.
CloseDiscipline ==
  /\ \A k \in Closer : cl[k] = "calling" => closing /\ ~closed
  /\ \A k, l \in Closer : cl[k] = "calling" /\ cl[l] = "calling" => k = l

TInv == TypeOK /\ LockDiscipline /\ HandDiscipline /\ NoEarlySignal /\ CloseDiscipline

-----------------------------------------------------------------------------
(* Sequences *)

\* The head and the tail of a sequence that is not empty.
LEMMA HeadTail ==
  ASSUME NEW S, NEW s \in Seq(S), s # <<>>
  PROVE  /\ Head(s) = s[1] /\ Head(s) \in S
         /\ Len(s) \in Nat \ {0}
         /\ Tail(s) \in Seq(S)
         /\ Len(Tail(s)) = Len(s) - 1
         /\ \A i \in 1..Len(s) - 1 : Tail(s)[i] = s[i + 1]
  BY HeadTailProperties, EmptySeq, LenProperties, ElementOfSeq

\* The sequence with one more element.
LEMMA Appended ==
  ASSUME NEW S, NEW s \in Seq(S), NEW e \in S
  PROVE  /\ Append(s, e) \in Seq(S)
         /\ Len(s) \in Nat
         /\ Len(Append(s, e)) = Len(s) + 1
         /\ \A i \in 1..Len(s) : Append(s, e)[i] = s[i]
         /\ Append(s, e)[Len(s) + 1] = e
         /\ Append(s, e) # <<>>
  BY AppendProperties, LenProperties

-----------------------------------------------------------------------------
(* Type correctness *)

\* Initially the state has its type and the lock is free.
LEMMA TInvInit == Init => TInv
<1> SUFFICES ASSUME Init PROVE TInv
  OBVIOUS
<1>1. <<>> \in Seq(Event) /\ <<>> \in Seq(Event \cup {CloseSignal})
  BY EmptySeq
<1>2. TypeOK
  <2>1. closed \in BOOLEAN /\ closing \in BOOLEAN /\ signalled \in BOOLEAN
    BY DEF Init
  <2>2. dropped \in SUBSET Event /\ taken \in SUBSET Event /\ bufBytes \in Int
    BY DEF Init
  <2>3. count \in [Counter -> Nat] /\ pending \in [Callback -> Seq(Event)]
    BY <1>1 DEF Init
  <2>4. /\ cb \in [Callback -> CbPC] /\ rd \in [Reader -> RdPC]
        /\ cl \in [Closer -> ClPC] /\ hand \in [Reader -> Event \cup {CloseSignal}]
    BY DEF Init, CbPC, RdPC, ClPC
  <2> QED BY <1>1, <2>1, <2>2, <2>3, <2>4 DEF Init, TypeOK
<1>3. LockDiscipline /\ HandDiscipline /\ NoEarlySignal /\ CloseDiscipline
  BY <1>1 DEF Init, LockDiscipline, HandDiscipline, NoEarlySignal, CloseDiscipline, InEnqueue
<1> QED BY <1>2, <1>3 DEF TInv

\* A step of a native thread keeps the type and the lock discipline.
LEMMA TInvIngest ==
  ASSUME TInv, NEW c \in Callback, Ingest(c)
  PROVE  TInv'
<1> USE StreamAssumption DEF StreamAssumption, TInv, TypeOK, LockDiscipline,
        HandDiscipline, NoEarlySignal, CloseDiscipline, InEnqueue, Counter, CbPC, RdPC, ClPC
<1>0. CASE RejectCallback(c) \/ IngestUnusable(c) \/ IngestBegin(c) \/ IngestEnd(c)
  <2>1. count' \in [Counter -> Nat] /\ cb' \in [Callback -> CbPC]
    <3>1. CASE RejectCallback(c) BY <3>1 DEF RejectCallback, Tick
    <3>2. CASE IngestUnusable(c)
      <4>1. PICK k \in {"malformed", "ignored"} : count' = [count EXCEPT ![k] = @ + 1]
        BY <3>2 DEF IngestUnusable, Tick
      <4> QED BY <3>2, <4>1 DEF IngestUnusable
    <3>3. CASE IngestBegin(c)
      <4>1. CASE Refusing  BY <3>3, <4>1 DEF IngestBegin
      <4>2. CASE ~Refusing
        <5>1. count' = [count EXCEPT !["received"] = @ + 1]
          BY <3>3, <4>2 DEF IngestBegin, Tick
        <5>2. cb' = [cb EXCEPT ![c] = "parse"]
          BY <3>3, <4>2 DEF IngestBegin
        <5> QED BY <5>1, <5>2
      <4> QED BY <4>1, <4>2
    <3>4. CASE IngestEnd(c)
      <4>1. Len(EventsOf[c]) \in Nat
        BY LenProperties
      <4>2. count' \in [Counter -> Nat]
        BY <3>4, <4>1 DEF IngestEnd
      <4> QED BY <3>4, <4>2 DEF IngestEnd
    <3> QED BY <1>0, <3>1, <3>2, <3>3, <3>4
  <2>2. /\ UNCHANGED <<dropOldest, queue, bufBytes, dropped, closed, closing, signalled,
                      taken, pending, rd, hand, cl>>
        /\ \A d \in Callback : InEnqueue(d)' => InEnqueue(d)
    BY <1>0 DEF RejectCallback, IngestUnusable, IngestBegin, IngestEnd, Tick
  <2> QED BY <2>1, <2>2
<1>1. CASE IngestParsed(c)
  BY <1>1 DEF IngestParsed, stream
<1>2. CASE EnqueueBegin(c)
  <2>1. Head(pending[c]) \in Event /\ Tail(pending[c]) \in Seq(Event)
    BY <1>2, HeadTail DEF EnqueueBegin
  <2>2. TypeOK' /\ HandDiscipline' /\ NoEarlySignal' /\ CloseDiscipline'
    <3>1. UNCHANGED <<dropOldest, queue, bufBytes, count, closed, closing, signalled, taken, rd, hand, cl>>
      BY <1>2 DEF EnqueueBegin
    <3>2. cb' \in [Callback -> CbPC] /\ pending' \in [Callback -> Seq(Event)] /\ dropped' \in SUBSET Event
      <4>1. CASE ReturnsEarly(Head(pending[c]))
        <5>1. /\ cb' = [cb EXCEPT ![c] = "enqueue"]
              /\ pending' = [pending EXCEPT ![c] = Tail(pending[c])]
              /\ dropped' = dropped \cup {Head(pending[c])}
          BY <1>2, <4>1, Zenon DEF EnqueueBegin, Leave, Drop
        <5> QED BY <2>1, <5>1
      <4>2. CASE ~ReturnsEarly(Head(pending[c]))
        <5>1. cb' = [cb EXCEPT ![c] = "test"] /\ pending' = pending /\ dropped' = dropped
          BY <1>2, <4>2, Zenon DEF EnqueueBegin
        <5> QED BY <5>1
      <4> QED BY <4>1, <4>2
    <3> QED BY <3>1, <3>2
  <2>3. LockDiscipline'
    <3>1. /\ UNCHANGED <<closed, closing>>
          /\ \A d \in Callback : ~InEnqueue(d)
      BY <1>2 DEF EnqueueBegin, LockFree
    <3>2. CASE ReturnsEarly(Head(pending[c]))
      <4>1. cb' = [cb EXCEPT ![c] = "enqueue"]
        BY <1>2, <3>2, Zenon DEF EnqueueBegin, Leave
      <4>2. \A d \in Callback : ~InEnqueue(d)'
        BY <3>1, <4>1
      <4> QED BY <4>2
    <3>3. CASE ~ReturnsEarly(Head(pending[c]))
      <4>1. cb' = [cb EXCEPT ![c] = "test"] /\ pending' = pending
        BY <1>2, <3>3, Zenon DEF EnqueueBegin
      <4>2. ~closed /\ ~closing
        BY <3>3, Zenon DEF ReturnsEarly, Refusing
      <4>3. pending[c] # <<>>
        BY <1>2 DEF EnqueueBegin
      <4>4. \A d \in Callback : InEnqueue(d)' => d = c
        BY <3>1, <4>1
      <4> QED BY <3>1, <4>1, <4>2, <4>3, <4>4
    <3> QED BY <3>2, <3>3
  <2> QED BY <2>2, <2>3
<1>3. CASE EnqueueTest(c)
  BY <1>3 DEF EnqueueTest, stream
<1>4. CASE EnqueueEvict(c)
  <2>1. CASE queue = <<>>
    BY <1>4, <2>1 DEF EnqueueEvict, Eviction, Drop, AfterEmpty
  <2>2. CASE queue # <<>>
    <3>1. queue \in Seq(Event)
      BY <1>4 DEF EnqueueEvict, Eviction, Drop, AfterEmpty
    <3>2. Head(queue) \in Event /\ Tail(queue) \in Seq(Event)
      BY <2>2, <3>1, HeadTail
    <3>3. Tail(queue) \in Seq(Event \cup {CloseSignal})
      BY <2>2, HeadTail
    <3>4. TypeOK'
      <4>1. bufBytes' = bufBytes - Bytes[Head(queue)] /\ dropped' = dropped \cup {Head(queue)}
        BY <1>4, <2>2, Zenon DEF EnqueueEvict, Eviction, Drop
      <4>2. Bytes[Head(queue)] \in Nat
        BY <3>2
      <4>3. bufBytes' \in Int /\ dropped' \in SUBSET Event
        BY <3>2, <4>1, <4>2
      <4> QED BY <1>4, <2>2, <3>3, <4>3 DEF EnqueueEvict
    <3>5. LockDiscipline' /\ HandDiscipline' /\ NoEarlySignal' /\ CloseDiscipline'
      BY <1>4, <2>2, <3>2 DEF EnqueueEvict, Eviction, Drop, AfterEmpty
    <3> QED BY <3>4, <3>5
  <2> QED BY <2>1, <2>2
<1>5. CASE EnqueuePut(c)
  <2>1. Head(pending[c]) \in Event /\ Tail(pending[c]) \in Seq(Event)
    BY <1>5, HeadTail DEF EnqueuePut
  <2>2. queue' \in Seq(Event \cup {CloseSignal}) /\ queue' \in Seq(Event)
    <3>1. queue \in Seq(Event)
      BY <1>5 DEF EnqueuePut
    <3> QED BY <1>5, <2>1, <3>1, Appended DEF EnqueuePut
  <2>3. TypeOK'
    <3>1. bufBytes' \in Int
      BY <1>5, <2>1 DEF EnqueuePut
    <3> QED BY <1>5, <2>1, <2>2, <3>1 DEF EnqueuePut, Leave
  <2>4. LockDiscipline' /\ HandDiscipline' /\ NoEarlySignal' /\ CloseDiscipline'
    BY <1>5, <2>2 DEF EnqueuePut, Leave
  <2> QED BY <2>3, <2>4
<1> QED BY <1>0, <1>1, <1>2, <1>3, <1>4, <1>5 DEF Ingest

\* A step of a reader keeps them too: it takes no part in the lock's section,
\* and finds a signal to put back only in a closed stream.
LEMMA TInvRead ==
  ASSUME TInv, NEW r \in Reader, Read(r)
  PROVE  TInv'
<1> USE StreamAssumption DEF StreamAssumption, TInv, TypeOK, LockDiscipline,
        HandDiscipline, NoEarlySignal, CloseDiscipline, InEnqueue, RdPC
<1>1. CASE GetBegin(r) \/ GetTimeout(r)
  <2>1. \E p \in {"ended", "waiting", "idle"} : rd' = [rd EXCEPT ![r] = p]
    BY <1>1 DEF GetBegin, GetTimeout
  <2>2. UNCHANGED <<stream, taken, cb, pending, hand, cl>>
    BY <1>1 DEF GetBegin, GetTimeout
  <2> QED BY <2>1, <2>2 DEF stream
<1>2. CASE GetTake(r) \/ PollTake(r)
  <2>0. queue # <<>> /\ queue' = Tail(queue)
    BY <1>2 DEF GetTake, PollTake, TakeOldest, IsSignal
  <2>1. /\ Head(queue) \in Event \cup {CloseSignal}
        /\ queue' \in Seq(Event \cup {CloseSignal})
        /\ ~closed => Head(queue) \in Event /\ queue' \in Seq(Event)
    BY <2>0, HeadTail
  <2>2. UNCHANGED <<dropOldest, bufBytes, dropped, count, closed, closing, signalled, cb, pending, cl>>
    BY <1>2 DEF GetTake, PollTake, TakeOldest, IsSignal
  <2>3. CASE Head(queue) = CloseSignal
    <3>1. /\ UNCHANGED <<taken, hand>>
          /\ \E p \in {"stopping", "polled"} : rd' = [rd EXCEPT ![r] = p]
      BY <1>2, <2>3 DEF GetTake, PollTake, TakeOldest, IsSignal
    <3> QED BY <2>1, <2>2, <2>3, <3>1
  <2>4. CASE Head(queue) # CloseSignal
    <3>1. /\ rd' = [rd EXCEPT ![r] = "recording"]
          /\ hand' = [hand EXCEPT ![r] = Head(queue)]
          /\ taken' = taken \cup {Head(queue)}
      BY <1>2, <2>4 DEF GetTake, PollTake, TakeOldest, IsSignal
    <3> QED BY <2>1, <2>2, <2>4, <3>1
  <2> QED BY <2>3, <2>4
<1>3. CASE RecordDequeue(r)
  <2>1. hand[r] \in Event /\ Bytes[hand[r]] \in Nat
    BY <1>3 DEF RecordDequeue, OwesSignal, BytesReleased
  <2>2. <<CloseSignal>> \in Seq(Event \cup {CloseSignal})
    OBVIOUS
  <2>3. bufBytes' \in Int /\ signalled' \in BOOLEAN
    BY <1>3, <2>1 DEF RecordDequeue, OwesSignal, BytesReleased
  <2>4. queue' \in Seq(Event \cup {CloseSignal}) /\ (~closed => queue' = queue)
    BY <1>3, <2>2 DEF RecordDequeue, OwesSignal, BytesReleased
  <2>5. TypeOK'
    BY <1>3, <2>3, <2>4 DEF RecordDequeue, OwesSignal, BytesReleased
  <2>6. LockDiscipline' /\ HandDiscipline' /\ NoEarlySignal' /\ CloseDiscipline'
    BY <1>3, <2>4 DEF RecordDequeue, OwesSignal, BytesReleased
  <2> QED BY <2>5, <2>6
<1>4. CASE RequeueSignal(r)
  <2>1. closed
    BY <1>4 DEF RequeueSignal, PutBack, PutSignal
  <2>2. Append(queue, CloseSignal) \in Seq(Event \cup {CloseSignal})
    BY Appended
  <2> QED BY <1>4, <2>1, <2>2 DEF RequeueSignal, PutBack, PutSignal
<1> QED BY <1>1, <1>2, <1>3, <1>4 DEF Read

\* Nobody starts or ends a close while _enqueue holds the lock.
LEMMA TInvClose ==
  ASSUME TInv, NEW k \in Closer, Close(k)
  PROVE  TInv'
<1> USE StreamAssumption DEF StreamAssumption, TInv, TypeOK, LockDiscipline,
        HandDiscipline, NoEarlySignal, CloseDiscipline, InEnqueue, ClPC
<1>1. CASE CloseAgain(k)
  BY <1>1 DEF CloseAgain, stream
<1>2. CASE CloseBegin(k)
  BY <1>2 DEF CloseBegin, LockFree
<1>3. CASE CloserFails(k)
  BY <1>3 DEF CloserFails, LockFree
<1>4. CASE CloseEnd(k)
  <2>1. Append(queue, CloseSignal) \in Seq(Event \cup {CloseSignal})
    BY Appended
  <2> QED BY <1>4, <2>1 DEF CloseEnd, PutSignal, Announce, LockFree
<1> QED BY <1>1, <1>2, <1>3, <1>4 DEF Close

\* Every step keeps them.
LEMMA TInvStep == TInv /\ [Next]_vars => TInv'
<1> SUFFICES ASSUME TInv, [Next]_vars PROVE TInv'
  OBVIOUS
<1>1. CASE UNCHANGED vars
  BY <1>1 DEF TInv, TypeOK, LockDiscipline, HandDiscipline, NoEarlySignal, CloseDiscipline, InEnqueue,
              vars, stream, callers
<1>2. CASE Terminated
  BY <1>1, <1>2 DEF Terminated
<1> QED BY <1>1, <1>2, TInvIngest, TInvRead, TInvClose DEF Next

\* The state of the stream and of its callers always has its type; the part
\* that is not obvious is that only events, never the close signal, are
\* evicted, dropped or handed to a reader.
THEOREM TypeCorrect == Spec => []TypeOK
<1>1. Spec => []TInv
  BY TInvInit, TInvStep, PTL DEF Spec
<1>2. TInv => TypeOK
  BY DEF TInv
<1> QED BY <1>1, <1>2, PTL

-----------------------------------------------------------------------------
(* The close signal *)

Entry == Event \cup {CloseSignal}

\* Taking the oldest entry of a queue that holds the signal last.
LEMMA SignalTail ==
  ASSUME NEW q \in Seq(Entry), q # <<>>, SignalAt(q) \subseteq {Len(q)}
  PROVE  /\ Head(q) = CloseSignal => SignalAt(q) # {} /\ Tail(q) = <<>> /\ SignalAt(Tail(q)) = {}
         /\ Head(q) # CloseSignal =>
              /\ SignalAt(Tail(q)) \subseteq {Len(Tail(q))}
              /\ SignalAt(Tail(q)) # {} <=> SignalAt(q) # {}
<1>1. /\ Head(q) = q[1] /\ Len(q) \in Nat \ {0} /\ DOMAIN q = 1..Len(q)
      /\ Tail(q) \in Seq(Entry) /\ Len(Tail(q)) = Len(q) - 1
      /\ DOMAIN Tail(q) = 1..Len(q) - 1
      /\ \A i \in 1..Len(q) - 1 : Tail(q)[i] = q[i + 1]
  BY HeadTail, LenProperties
<1>2. ASSUME Head(q) = CloseSignal
      PROVE  SignalAt(q) # {} /\ Tail(q) = <<>> /\ SignalAt(Tail(q)) = {}
  <2>1. 1 \in SignalAt(q)
    BY <1>1, <1>2 DEF SignalAt
  <2>2. Len(q) = 1
    BY <2>1
  <2>3. Tail(q) = <<>>
    BY <1>1, <2>2, EmptySeq
  <2> QED BY <2>1, <2>3, <1>1, <2>2 DEF SignalAt
<1>3. ASSUME Head(q) # CloseSignal
      PROVE  /\ SignalAt(Tail(q)) \subseteq {Len(Tail(q))}
             /\ SignalAt(Tail(q)) # {} <=> SignalAt(q) # {}
  <2>1. \A i \in SignalAt(Tail(q)) : i + 1 \in SignalAt(q)
    BY <1>1 DEF SignalAt
  <2>2. \A i \in SignalAt(q) : i \in Nat /\ i # 1 /\ i - 1 \in SignalAt(Tail(q))
    BY <1>1, <1>3 DEF SignalAt
  <2>3. SignalAt(Tail(q)) \subseteq Nat
    BY <1>1 DEF SignalAt
  <2> QED BY <1>1, <2>1, <2>2, <2>3
<1> QED BY <1>2, <1>3

\* Putting an event, or the signal, into a queue that holds no signal.
LEMMA SignalAppend ==
  ASSUME NEW q \in Seq(Entry), NEW x \in Entry, SignalAt(q) = {}
  PROVE  /\ x \in Event => SignalAt(Append(q, x)) = {}
         /\ x = CloseSignal => SignalAt(Append(q, x)) = {Len(Append(q, x))}
<1>1. /\ DOMAIN q = 1..Len(q) /\ Len(q) \in Nat
      /\ DOMAIN Append(q, x) = 1..Len(q) + 1 /\ Len(Append(q, x)) = Len(q) + 1
      /\ \A i \in 1..Len(q) : Append(q, x)[i] = q[i]
      /\ Append(q, x)[Len(q) + 1] = x
  BY Appended, LenProperties
<1> QED BY <1>1, StreamAssumption DEF SignalAt, StreamAssumption

\* The inductive invariant: the signal discipline, the wake-up of readers and
\* the room for the entries that the code puts without waiting.
SInv == TInv /\ SignalLast /\ NoLostWakeup /\ RoomForPut

\* The stream starts open and empty.
LEMMA SInvInit == Init => SInv
<1> SUFFICES ASSUME Init PROVE SInv
  OBVIOUS
<1>1. TInv
  BY TInvInit
<1>2. SignalAt(queue) = {} /\ Len(queue) = 0
  BY DEF Init, SignalAt
<1> QED BY <1>1, <1>2, StreamAssumption
        DEF SInv, SignalLast, NoLostWakeup, RoomForPut, Init, SignalHolder, Recording, Full,
            StreamAssumption

\* A native thread takes events out of an open queue and puts events in, where
\* there is no signal yet.
LEMMA SInvIngest ==
  ASSUME SInv, NEW c \in Callback, Ingest(c)
  PROVE  SInv'
<1> USE StreamAssumption DEF StreamAssumption, SInv, SignalLast, NoLostWakeup, RoomForPut,
        SignalHolder, Recording
<1>t. TInv'
  BY TInvIngest
<1>u. TypeOK /\ LockDiscipline
  BY DEF TInv
<1>q. queue \in Seq(Entry) /\ Len(queue) \in Nat
  BY <1>u, LenProperties DEF TypeOK, Entry
<1>1. CASE UNCHANGED <<queue, signalled, closed, rd>> /\ \A d \in Callback : cb'[d] = "put" => cb[d] = "put"
  BY <1>1, <1>t DEF Full
<1>2. CASE EnqueueTest(c)
  <2>1. cb'[c] = "put" => ~Full
    BY <1>2, <1>u DEF EnqueueTest, OverLimit, TypeOK
  <2>2. UNCHANGED <<queue, signalled, closed, rd>>
    BY <1>2 DEF EnqueueTest, stream
  <2>3. \A d \in Callback : d # c => cb'[d] = cb[d]
    BY <1>2, <1>u DEF EnqueueTest, TypeOK
  <2> QED BY <1>t, <2>1, <2>2, <2>3 DEF Full
<1>3. CASE EnqueueEvict(c)
  <2>0. ~closed /\ ~signalled /\ SignalAt(queue) = {} /\ SignalHolder = {}
    BY <1>3, <1>u DEF EnqueueEvict, Eviction, Drop, AfterEmpty, LockDiscipline, InEnqueue
  <2>1. UNCHANGED <<signalled, closed, rd>>
    BY <1>3 DEF EnqueueEvict, Eviction, Drop, AfterEmpty
  <2>2. CASE queue = <<>>
    <3>1. queue' = queue /\ ~Full
      BY <1>3, <2>2, EmptySeq DEF EnqueueEvict, Eviction, Drop, AfterEmpty, Full
    <3> QED BY <1>t, <2>0, <2>1, <3>1 DEF Full
  <2>3. CASE queue # <<>>
    <3>1. queue' = Tail(queue) /\ Len(queue') = Len(queue) - 1
      BY <1>3, <2>3, <1>q, HeadTail DEF EnqueueEvict, Eviction, Drop, AfterEmpty
    <3>2. SignalAt(Tail(queue)) = {}
      BY <2>0, <2>3, <1>q, SignalTail
    <3>3. \A d \in Callback : cb'[d] = "put" => cb[d] = "put"
      BY <1>3, <2>3, <1>u DEF EnqueueEvict, Eviction, Drop, AfterEmpty, TypeOK
    <3> QED BY <1>t, <1>q, <2>0, <2>1, <3>1, <3>2, <3>3 DEF Full
  <2> QED BY <2>2, <2>3
<1>4. CASE EnqueuePut(c)
  <2>0. ~closed /\ ~signalled /\ SignalAt(queue) = {} /\ SignalHolder = {} /\ ~Full
    BY <1>4, <1>u DEF EnqueuePut, LockDiscipline, InEnqueue
  <2>1. UNCHANGED <<signalled, closed, rd>>
    BY <1>4 DEF EnqueuePut
  <2>2. Head(pending[c]) \in Event
    BY <1>4, <1>u, HeadTail DEF EnqueuePut, LockDiscipline, InEnqueue, TypeOK
  <2>3. /\ SignalAt(queue') = {} /\ Len(queue') = Len(queue) + 1
    <3>1. queue' = Append(queue, Head(pending[c])) /\ Head(pending[c]) \in Entry
      BY <1>4, <2>2 DEF EnqueuePut, Entry
    <3>2. /\ SignalAt(Append(queue, Head(pending[c]))) = {}
          /\ Len(Append(queue, Head(pending[c]))) = Len(queue) + 1
      BY <1>q, <2>0, <2>2, <3>1, SignalAppend, Appended
    <3> QED BY <3>1, <3>2
  <2>4. \A d \in Callback : cb'[d] # "put"
    BY <1>4, <1>u DEF EnqueuePut, Leave, LockDiscipline, InEnqueue, TypeOK
  <2> QED BY <1>t, <1>q, <2>0, <2>1, <2>3, <2>4 DEF Full
<1>5. CASE \/ RejectCallback(c) \/ IngestBegin(c) \/ IngestParsed(c)
           \/ IngestUnusable(c) \/ IngestEnd(c) \/ EnqueueBegin(c)
  <2>1. UNCHANGED <<queue, signalled, closed, rd>>
    BY <1>5 DEF RejectCallback, IngestBegin, IngestParsed, IngestUnusable, IngestEnd,
                EnqueueBegin, stream
  <2>2. \A d \in Callback : cb'[d] = "put" => cb[d] = "put"
    BY <1>5, <1>u DEF RejectCallback, IngestBegin, IngestParsed, IngestUnusable, IngestEnd,
                EnqueueBegin, Leave, Drop, TypeOK
  <2> QED BY <1>1, <2>1, <2>2
<1> QED BY <1>2, <1>3, <1>4, <1>5 DEF Ingest

\* A reader moves the signal from the queue to its hand and back, or queues
\* the one that close left to it.
LEMMA SInvRead ==
  ASSUME SInv, NEW r \in Reader, Read(r)
  PROVE  SInv'
<1> USE StreamAssumption DEF StreamAssumption, SInv, SignalLast, NoLostWakeup, RoomForPut,
        SignalHolder, Recording
<1>t. TInv'
  BY TInvRead
<1>u. TypeOK /\ LockDiscipline
  BY DEF TInv
<1>q. queue \in Seq(Entry) /\ Len(queue) \in Nat /\ (queue # <<>> => Len(queue) > 0)
  BY <1>u, LenProperties, EmptySeq DEF TypeOK, Entry
<1>1. CASE GetBegin(r) \/ GetTimeout(r)
  <2>1. UNCHANGED <<queue, signalled, closed, cb>>
    BY <1>1 DEF GetBegin, GetTimeout, stream
  <2>2. \A s \in Reader :
          /\ rd'[s] \in {"stopping", "polled"} <=> rd[s] \in {"stopping", "polled"}
          /\ rd'[s] = "recording" <=> rd[s] = "recording"
    BY <1>1, <1>u DEF GetBegin, GetTimeout, TypeOK
  <2> QED BY <1>t, <2>1, <2>2 DEF Full
<1>2. CASE GetTake(r) \/ PollTake(r)
  <2>1. /\ queue # <<>> /\ queue' = Tail(queue) /\ UNCHANGED <<signalled, closed, cb>>
        /\ rd[r] \in {"idle", "waiting"} /\ Len(queue') = Len(queue) - 1
        /\ SignalHolder = {}
    BY <1>2, <1>q, HeadTail DEF GetTake, PollTake, TakeOldest, IsSignal
  <2>2. CASE Head(queue) = CloseSignal
    <3>1. queue' = <<>> /\ SignalAt(queue') = {} /\ SignalAt(queue) # {}
      BY <2>1, <2>2, <1>q, SignalTail
    <3>2. SignalHolder' = {r}
      BY <1>2, <2>1, <2>2, <1>u DEF GetTake, PollTake, TakeOldest, IsSignal, TypeOK
    <3> QED BY <1>t, <1>q, <2>1, <3>1, <3>2 DEF Full
  <2>3. CASE Head(queue) # CloseSignal
    <3>1. /\ SignalAt(Tail(queue)) \subseteq {Len(Tail(queue))}
          /\ SignalAt(Tail(queue)) # {} <=> SignalAt(queue) # {}
      BY <2>1, <2>3, <1>q, SignalTail
    <3>2. SignalHolder' = {} /\ r \in Recording'
      BY <1>2, <2>1, <2>3, <1>u DEF GetTake, PollTake, TakeOldest, IsSignal, TypeOK
    <3> QED BY <1>t, <1>q, <2>1, <3>1, <3>2 DEF Full
  <2> QED BY <2>2, <2>3
<1>3. CASE RecordDequeue(r)
  <2>1. /\ UNCHANGED <<closed, cb>> /\ LockFree
        /\ SignalHolder' = SignalHolder
        /\ Recording \ {r} \subseteq Recording'
    BY <1>3, <1>u DEF RecordDequeue, OwesSignal, BytesReleased, TypeOK
  <2>2. CASE closed /\ ~signalled /\ queue = <<>>
    <3>1. queue' = <<CloseSignal>> /\ signalled'
      BY <1>3, <2>2 DEF RecordDequeue, OwesSignal, BytesReleased
    <3>2. SignalAt(queue') = {1} /\ Len(queue') = 1 /\ queue' # <<>>
      BY <3>1 DEF SignalAt
    <3>3. SignalHolder' = {}
      BY <2>1, <2>2
    <3>4. SignalLast' /\ NoLostWakeup'
      BY <2>1, <2>2, <3>1, <3>2, <3>3
    <3>5. RoomForPut'
      BY <2>1, <3>2, <3>3 DEF LockFree, InEnqueue
    <3> QED BY <1>t, <3>4, <3>5
  <2>3. CASE ~(closed /\ ~signalled /\ queue = <<>>)
    <3>1. UNCHANGED <<queue, signalled>>
      BY <1>3, <2>3, <1>u DEF RecordDequeue, OwesSignal, BytesReleased, TypeOK
    <3>2. SignalLast' /\ RoomForPut'
      BY <2>1, <3>1 DEF Full
    <3>3. NoLostWakeup'
      <4>1. CASE signalled
        BY <2>1, <3>1, <4>1 DEF SignalAt
      <4>2. CASE ~signalled
        BY <2>1, <2>3, <3>1, <4>2
      <4> QED BY <4>1, <4>2
    <3> QED BY <1>t, <3>2, <3>3
  <2> QED BY <2>2, <2>3
<1>4. CASE RequeueSignal(r)
  <2>1. /\ UNCHANGED <<closed, cb>> /\ LockFree /\ r \in SignalHolder /\ closed /\ queue = <<>>
        /\ SignalAt(queue) = {} /\ ~Full
    BY <1>4 DEF RequeueSignal, PutBack, PutSignal, SignalAt
  <2>2. queue' = Append(queue, CloseSignal) /\ signalled'
    BY <1>4, <2>1 DEF RequeueSignal, PutBack, PutSignal
  <2>3. /\ SignalAt(queue') = {Len(queue')} /\ Len(queue') = 1 /\ queue' # <<>>
    <3>1. CloseSignal \in Entry
      BY DEF Entry
    <3>2. SignalAt(Append(queue, CloseSignal)) = {Len(Append(queue, CloseSignal))}
      BY <1>q, <2>1, <3>1, SignalAppend
    <3>3. /\ Len(Append(queue, CloseSignal)) = Len(queue) + 1
          /\ Append(queue, CloseSignal) # <<>>
      BY <1>q, <3>1, Appended
    <3>4. Len(queue) = 0
      BY <2>1, EmptySeq
    <3> QED BY <2>2, <3>2, <3>3, <3>4
  <2>4. SignalHolder' = {}
    BY <1>4, <1>u, <2>1 DEF RequeueSignal, PutBack, PutSignal, TypeOK
  <2>5. SignalLast' /\ NoLostWakeup'
    BY <2>1, <2>2, <2>3, <2>4
  <2>6. RoomForPut'
    BY <2>1, <2>3, <2>4 DEF LockFree, InEnqueue
  <2> QED BY <1>t, <2>5, <2>6
<1> QED BY <1>1, <1>2, <1>3, <1>4 DEF Read

\* close queues the signal, or finds the queue full and so not empty.
LEMMA SInvClose ==
  ASSUME SInv, NEW k \in Closer, Close(k)
  PROVE  SInv'
<1> USE StreamAssumption DEF StreamAssumption, SInv, SignalLast, NoLostWakeup, RoomForPut,
        SignalHolder, Recording
<1>t. TInv'
  BY TInvClose
<1>u. TypeOK
  BY DEF TInv
<1>q. queue \in Seq(Entry) /\ Len(queue) \in Nat
  BY <1>u, LenProperties DEF TypeOK, Entry
<1>1. CASE CloseAgain(k) \/ CloseBegin(k) \/ CloserFails(k)
  <2>1. UNCHANGED <<queue, signalled, closed, cb, rd>>
    BY <1>1 DEF CloseAgain, CloseBegin, CloserFails, stream
  <2> QED BY <1>t, <2>1 DEF Full
<1>2. CASE CloseEnd(k)
  <2>1. ~closed /\ ~signalled /\ SignalAt(queue) = {} /\ SignalHolder = {}
    <3>1. ~closed
      BY <1>2 DEF CloseEnd, PutSignal, Announce, TInv, CloseDiscipline
    <3> QED BY <3>1
  <2>2. UNCHANGED <<cb, rd>> /\ closed' /\ LockFree /\ SignalHolder' = {}
    BY <1>2, <2>1 DEF CloseEnd, PutSignal, Announce
  <2>3. CASE Full
    <3>1. UNCHANGED <<queue, signalled>> /\ queue # <<>>
      <4>1. queue # <<>>
        BY <2>3, EmptySeq DEF Full
      <4>2. queue' = queue /\ signalled' = signalled
        BY <1>2, <1>u, <2>3 DEF CloseEnd, PutSignal, Announce, TypeOK
      <4> QED BY <4>1, <4>2
    <3> QED BY <1>t, <2>1, <2>2, <3>1 DEF Full
  <2>4. CASE ~Full
    <3>1. queue' = Append(queue, CloseSignal) /\ signalled' /\ CloseSignal \in Entry
      BY <1>2, <2>4 DEF CloseEnd, PutSignal, Announce, Entry
    <3>2. SignalAt(Append(queue, CloseSignal)) = {Len(Append(queue, CloseSignal))}
      BY <1>q, <2>1, <3>1, SignalAppend
    <3>3. /\ Len(Append(queue, CloseSignal)) = Len(queue) + 1
          /\ Append(queue, CloseSignal) # <<>>
      BY <1>q, <3>1, Appended
    <3>4. SignalLast' /\ NoLostWakeup'
      BY <1>q, <2>2, <3>1, <3>2, <3>3
    <3>5. RoomForPut'
      BY <1>q, <2>2, <2>4, <3>1, <3>3 DEF Full, LockFree, InEnqueue
    <3> QED BY <1>t, <3>4, <3>5
  <2> QED BY <2>3, <2>4
<1> QED BY <1>1, <1>2 DEF Close

\* Every step keeps the invariant.
LEMMA SInvStep == SInv /\ [Next]_vars => SInv'
<1> SUFFICES ASSUME SInv, [Next]_vars PROVE SInv'
  OBVIOUS
<1>1. CASE UNCHANGED vars
  <2>1. TInv'
    BY <1>1, TInvStep DEF SInv
  <2> QED BY <1>1, <2>1 DEF SInv, SignalLast, NoLostWakeup, RoomForPut, SignalHolder, Recording,
                            Full, SignalAt, vars, stream, callers
<1>2. CASE Terminated
  BY <1>1, <1>2 DEF Terminated
<1> QED BY <1>1, <1>2, SInvIngest, SInvRead, SInvClose DEF Next

\* The invariant holds in every reachable state.
LEMMA SInvAlways == Spec => []SInv
  BY SInvInit, SInvStep, PTL DEF Spec

\* There is one close signal at most, behind every event or in one reader's
\* hand, whatever the number of readers and closers.
THEOREM SignalCorrect == Spec => []SignalLast
<1>1. SInv => SignalLast
  BY DEF SInv
<1> QED BY <1>1, SInvAlways, PTL

\* No reader of a closed stream waits for an entry nobody will put.
THEOREM WakeupCorrect == Spec => []NoLostWakeup
<1>1. SInv => NoLostWakeup
  BY DEF SInv
<1> QED BY <1>1, SInvAlways, PTL

\* The queue never exceeds max_events, and no put_nowait whose failure the
\* code treats as a drop ever fails.
THEOREM RoomCorrect == Spec => []RoomForPut
<1>1. SInv => RoomForPut
  BY DEF SInv
<1> QED BY <1>1, SInvAlways, PTL

-----------------------------------------------------------------------------
(* The events of the stream *)

\* What a queue without its close signal is to the reader.
Strip(q) == IF SignalAt(q) = {} THEN q ELSE SubSeq(q, 1, Len(q) - 1)

\* Where a callback is with its events.
Working == {"enqueue", "test", "evict", "put"}

\* How many of its events a callback has behind it.
Behind(c) == IF cb[c] \in {"new", "parse"} THEN 0 ELSE Len(EventsOf[c]) - Len(pending[c])

\* What it has yet to enqueue is the rest of its payload.
Rest(c) ==
  /\ cb[c] \notin Working => pending[c] = <<>>
  /\ Len(pending[c]) <= Len(EventsOf[c])
  /\ \A i \in 1..Len(pending[c]) : pending[c][i] = EventsOf[c][i + (Len(EventsOf[c]) - Len(pending[c]))]

\* The events that have reached the stream.
Seen == Queued \cup taken \cup dropped

\* No event of a callback is there before its turn.
Ahead(c) == \A i \in Behind(c) + 1 .. Len(EventsOf[c]) : EventsOf[c][i] \notin Seen

\* The eviction loop runs in a DROP_OLDEST stream only.
PolicyKept == \A c \in Callback :
  /\ cb[c] = "evict" => dropOldest
  /\ cb[c] = "test" /\ ~dropOldest => ~OverLimit(Head(pending[c]))

FInv == \A c \in Callback : Rest(c) /\ Ahead(c)

\* The elements of a sequence, one by one.
LEMMA ElemsTail ==
  ASSUME NEW S, NEW q \in Seq(S), q # <<>>
  PROVE  Elems(q) = {Head(q)} \cup Elems(Tail(q))
<1>1. /\ Head(q) = q[1] /\ Len(q) \in Nat \ {0} /\ DOMAIN q = 1..Len(q)
      /\ DOMAIN Tail(q) = 1..Len(q) - 1
      /\ \A i \in 1..Len(q) - 1 : Tail(q)[i] = q[i + 1]
  BY HeadTail, LenProperties
<1>2. ASSUME NEW i \in 1..Len(q) PROVE q[i] \in {Head(q)} \cup Elems(Tail(q))
  <2>1. CASE i = 1
    BY <1>1, <2>1
  <2>2. CASE i # 1
    <3>1. i - 1 \in 1..Len(q) - 1 /\ q[i] = Tail(q)[i - 1]
      BY <1>1, <1>2, <2>2
    <3> QED BY <1>1, <3>1 DEF Elems
  <2> QED BY <2>1, <2>2
<1>3. 1 \in 1..Len(q) /\ \A i \in 1..Len(q) - 1 : i + 1 \in 1..Len(q)
  BY <1>1
<1> QED BY <1>1, <1>2, <1>3 DEF Elems

\* ... and with one more.
LEMMA ElemsAppend ==
  ASSUME NEW S, NEW q \in Seq(S), NEW x \in S
  PROVE  Elems(Append(q, x)) = Elems(q) \cup {x}
<1>1. /\ DOMAIN q = 1..Len(q) /\ Len(q) \in Nat
      /\ DOMAIN Append(q, x) = 1..Len(q) + 1
      /\ \A i \in 1..Len(q) : Append(q, x)[i] = q[i]
      /\ Append(q, x)[Len(q) + 1] = x
  BY Appended, LenProperties
<1> QED BY <1>1 DEF Elems

\* A queue with the signal at its end, without it.
LEMMA StripLast ==
  ASSUME NEW q \in Seq(Entry), SignalAt(q) # {}, SignalAt(q) \subseteq {Len(q)}
  PROVE  /\ Len(q) \in Nat \ {0} /\ Strip(q) = SubSeq(q, 1, Len(q) - 1)
         /\ Strip(q) \in Seq(Event) /\ Len(Strip(q)) = Len(q) - 1
         /\ \A i \in 1..Len(q) - 1 : Strip(q)[i] = q[i]
<1>1. Len(q) \in Nat /\ DOMAIN q = 1..Len(q)
  BY LenProperties
<1>2. Len(q) \in Nat \ {0}
  BY <1>1 DEF SignalAt
<1>3. \A i \in 1..Len(q) - 1 : q[i] \in Event
  <2> SUFFICES ASSUME NEW i \in 1..Len(q) - 1 PROVE q[i] \in Event
    OBVIOUS
  <2>1. i \in 1..Len(q) /\ i # Len(q)
    BY <1>2
  <2>2. q[i] \in Entry
    BY <2>1, ElementOfSeq
  <2> QED BY <1>1, <2>1, <2>2 DEF SignalAt, Entry
<1>4. Strip(q) = SubSeq(q, 1, Len(q) - 1)
  BY DEF Strip
<1> DEFINE n == Len(q) - 1
<1>5. n \in Nat
  BY <1>2
<1> HIDE DEF n
<1>6. /\ SubSeq(q, 1, n) \in Seq(Event)
      /\ Len(SubSeq(q, 1, n)) = IF 1 <= n THEN n - 1 + 1 ELSE 0
      /\ \A i \in 1..n - 1 + 1 : SubSeq(q, 1, n)[i] = q[1 + i - 1]
  <2>1. \A i \in 1..n : q[i] \in Event
    BY <1>3 DEF n
  <2>2. 1 \in Int /\ n \in Int
    BY <1>5
  <2> QED BY <2>1, <2>2, SubSeqProperties
<1>7. Len(SubSeq(q, 1, n)) = n /\ \A i \in 1..n : SubSeq(q, 1, n)[i] = q[i]
  BY <1>5, <1>6
<1> QED BY <1>2, <1>4, <1>6, <1>7 DEF n

\* A queue of events is what it is.
LEMMA StripNone ==
  ASSUME NEW q \in Seq(Entry), SignalAt(q) = {}
  PROVE  Strip(q) = q /\ q \in Seq(Event)
<1>1. Len(q) \in Nat /\ DOMAIN q = 1..Len(q) /\ q \in [1..Len(q) -> Entry]
  BY LenProperties
<1>2. \A i \in 1..Len(q) : q[i] \in Event
  BY <1>1 DEF SignalAt, Entry
<1> QED BY <1>1, <1>2 DEF Strip

\* The events of a queue, signal or not.
LEMMA StripElems ==
  ASSUME NEW q \in Seq(Entry), SignalAt(q) \subseteq {Len(q)}
  PROVE  Elems(Strip(q)) \subseteq Elems(q) \ {CloseSignal} /\ Strip(q) \in Seq(Event)
<1>1. Strip(q) \in Seq(Event)
  BY StripLast, StripNone
<1>2. /\ DOMAIN Strip(q) = 1..Len(Strip(q)) /\ DOMAIN q = 1..Len(q) /\ Len(q) \in Nat
      /\ \A i \in 1..Len(Strip(q)) : Strip(q)[i] \in Event
  BY <1>1, LenProperties, ElementOfSeq
<1>3. \A i \in DOMAIN Strip(q) : i \in DOMAIN q /\ Strip(q)[i] = q[i]
  <2>1. CASE SignalAt(q) = {}
    BY <2>1, StripNone
  <2>2. CASE SignalAt(q) # {}
    BY <1>2, <2>2, StripLast
  <2> QED BY <2>1, <2>2
<1> QED BY <1>1, <1>2, <1>3, StreamAssumption DEF Elems, StreamAssumption

\* Taking the oldest entry: the oldest event, or the signal, which is none.
LEMMA StripTail ==
  ASSUME NEW q \in Seq(Entry), q # <<>>, SignalAt(q) \subseteq {Len(q)}
  PROVE  /\ Head(q) = CloseSignal => Strip(q) = <<>> /\ Strip(Tail(q)) = <<>>
         /\ Head(q) # CloseSignal =>
              Strip(q) # <<>> /\ Head(Strip(q)) = Head(q) /\ Strip(Tail(q)) = Tail(Strip(q))
<1>1. /\ Head(q) = q[1] /\ Len(q) \in Nat \ {0} /\ DOMAIN q = 1..Len(q)
      /\ Tail(q) \in Seq(Entry) /\ Len(Tail(q)) = Len(q) - 1
      /\ \A i \in 1..Len(q) - 1 : Tail(q)[i] = q[i + 1]
  BY HeadTail, LenProperties
<1>2. ASSUME Head(q) = CloseSignal PROVE Strip(q) = <<>> /\ Strip(Tail(q)) = <<>>
  <2>1. SignalAt(q) # {} /\ Tail(q) = <<>> /\ SignalAt(Tail(q)) = {}
    BY <1>2, SignalTail
  <2>2. Len(q) - 1 = 0
    BY <1>1, <2>1, EmptySeq
  <2>3. Strip(q) \in Seq(Event) /\ Len(Strip(q)) = 0
    BY <2>1, <2>2, StripLast
  <2> QED BY <2>1, <2>3, EmptySeq DEF Strip
<1>3. ASSUME Head(q) # CloseSignal
      PROVE  Strip(q) # <<>> /\ Head(Strip(q)) = Head(q) /\ Strip(Tail(q)) = Tail(Strip(q))
  <2>0. /\ SignalAt(Tail(q)) \subseteq {Len(Tail(q))}
        /\ SignalAt(Tail(q)) # {} <=> SignalAt(q) # {}
    BY <1>3, SignalTail
  <2>1. CASE SignalAt(q) = {}
    BY <2>0, <2>1 DEF Strip
  <2>2. CASE SignalAt(q) # {}
    <3>1. /\ Strip(q) \in Seq(Event) /\ Len(Strip(q)) = Len(q) - 1
          /\ \A i \in 1..Len(q) - 1 : Strip(q)[i] = q[i]
      BY <2>2, StripLast
    <3>t. /\ Len(Tail(q)) \in Nat \ {0}
          /\ Strip(Tail(q)) \in Seq(Event) /\ Len(Strip(Tail(q))) = Len(Tail(q)) - 1
          /\ \A i \in 1..Len(Tail(q)) - 1 : Strip(Tail(q))[i] = Tail(q)[i]
      BY <1>1, <2>0, <2>2, StripLast
    <3>n. /\ Len(q) - 1 \in Nat \ {0} /\ Len(Strip(Tail(q))) = Len(q) - 2
          /\ \A i \in 1..Len(q) - 2 : Strip(Tail(q))[i] = Tail(q)[i]
      <4>1. Len(Tail(q)) - 1 = Len(q) - 2 /\ Len(q) - 1 \in Nat \ {0}
        BY <1>1, <3>t
      <4> QED BY <3>t, <4>1
    <3>2. Strip(q) # <<>>
      BY <3>1, <3>n, EmptySeq
    <3>3. /\ Head(Strip(q)) = Strip(q)[1] /\ Tail(Strip(q)) \in Seq(Event)
          /\ Len(Tail(Strip(q))) = Len(q) - 2
          /\ \A i \in 1..Len(q) - 2 : Tail(Strip(q))[i] = Strip(q)[i + 1]
      <4>1. /\ Head(Strip(q)) = Strip(q)[1] /\ Tail(Strip(q)) \in Seq(Event)
            /\ Len(Tail(Strip(q))) = Len(Strip(q)) - 1
            /\ \A i \in 1..Len(Strip(q)) - 1 : Tail(Strip(q))[i] = Strip(q)[i + 1]
        BY <3>1, <3>2, HeadTail
      <4> QED BY <3>1, <3>n, <4>1
    <3>4. \A i \in 1..Len(q) - 2 : Tail(Strip(q))[i] = Strip(Tail(q))[i]
      <4> SUFFICES ASSUME NEW i \in 1..Len(q) - 2 PROVE Tail(Strip(q))[i] = Strip(Tail(q))[i]
        OBVIOUS
      <4>1. i + 1 \in 1..Len(q) - 1 /\ i \in 1..Len(q) - 1
        BY <1>1
      <4> QED BY <1>1, <3>1, <3>n, <3>3, <4>1
    <3>5. Strip(Tail(q)) = Tail(Strip(q))
      <4>1. /\ Len(Strip(Tail(q))) = Len(Tail(Strip(q)))
            /\ \A i \in 1..Len(Strip(Tail(q))) : Strip(Tail(q))[i] = Tail(Strip(q))[i]
        BY <3>n, <3>3, <3>4
      <4> QED BY <3>t, <3>3, <4>1, SeqEqual
    <3>6. 1 \in 1..Len(q) - 1
      BY <3>n
    <3> QED BY <1>1, <3>1, <3>2, <3>3, <3>5, <3>6
  <2> QED BY <2>1, <2>2
<1> QED BY <1>2, <1>3

\* Putting the signal behind the events adds no event; an event goes to the end.
LEMMA StripAppend ==
  ASSUME NEW q \in Seq(Entry), NEW x \in Entry, SignalAt(q) = {}
  PROVE  /\ x = CloseSignal => Strip(Append(q, x)) = Strip(q)
         /\ x \in Event => Strip(Append(q, x)) = Append(Strip(q), x)
<1>1. /\ Append(q, x) \in Seq(Entry) /\ Len(Append(q, x)) = Len(q) + 1 /\ Len(q) \in Nat
      /\ \A i \in 1..Len(q) : Append(q, x)[i] = q[i]
  BY Appended
<1>2. Strip(q) = q /\ q \in Seq(Event)
  BY StripNone
<1>3. ASSUME x \in Event PROVE Strip(Append(q, x)) = Append(Strip(q), x)
  BY <1>2, <1>3, SignalAppend DEF Strip
<1>4. ASSUME x = CloseSignal PROVE Strip(Append(q, x)) = Strip(q)
  <2>1. SignalAt(Append(q, x)) = {Len(Append(q, x))}
    BY <1>4, SignalAppend
  <2>2. /\ Strip(Append(q, x)) \in Seq(Event) /\ Len(Strip(Append(q, x))) = Len(q)
        /\ \A i \in 1..Len(q) : Strip(Append(q, x))[i] = Append(q, x)[i]
    <3>1. SignalAt(Append(q, x)) # {} /\ SignalAt(Append(q, x)) \subseteq {Len(Append(q, x))}
      BY <2>1
    <3>2. /\ Strip(Append(q, x)) \in Seq(Event) /\ Len(Strip(Append(q, x))) = Len(Append(q, x)) - 1
          /\ \A i \in 1..Len(Append(q, x)) - 1 : Strip(Append(q, x))[i] = Append(q, x)[i]
      BY <1>1, <3>1, StripLast
    <3>3. Len(Append(q, x)) - 1 = Len(q)
      BY <1>1
    <3> QED BY <3>2, <3>3
  <2> QED BY <1>1, <1>2, <2>2, SeqEqual
<1> QED BY <1>3, <1>4

-----------------------------------------------------------------------------
(* How events reach the stream *)

\* The other callbacks stay where they are.
Elsewhere(c) == \A d \in Callback \ {c} : cb'[d] = cb[d] /\ pending'[d] = pending[d]

\* The next event of a callback reaches the stream ...
Passes(c) ==
  /\ cb[c] \in Working /\ pending[c] # <<>>
  /\ cb'[c] \in Working /\ pending'[c] = Tail(pending[c])
  /\ Seen' = Seen \cup {Head(pending[c])}
  /\ Elsewhere(c)

\* ... or none does, and the callback goes on.
Advances(c) ==
  /\ Seen' = Seen
  /\ \/ cb'[c] = "done" /\ pending'[c] = <<>>
     \/ cb[c] = "new" /\ cb'[c] = "parse" /\ pending'[c] = pending[c]
     \/ cb[c] = "parse" /\ cb'[c] = "enqueue" /\ pending'[c] = EventsOf[c]
     \/ cb[c] \in Working /\ cb'[c] \in Working /\ pending'[c] = pending[c]
  /\ Elsewhere(c)

\* No callback moves and no event appears or is forgotten.
KeepsEvents == Seen' = Seen /\ cb' = cb /\ pending' = pending

\* A native thread brings one event at most.
LEMMA IngestPasses ==
  ASSUME SInv, NEW c \in Callback, Rest(c), Ingest(c)
  PROVE  Passes(c) \/ Advances(c)
<1>u. TypeOK /\ LockDiscipline /\ NoEarlySignal
  BY DEF SInv, TInv
<1>0. /\ cb \in [Callback -> CbPC] /\ pending \in [Callback -> Seq(Event)]
      /\ queue \in Seq(Entry) /\ taken \subseteq Event /\ dropped \subseteq Event
  BY <1>u DEF TypeOK, Entry
<1>1. CASE RejectCallback(c) \/ IngestBegin(c) \/ IngestUnusable(c) \/ IngestEnd(c)
  <2>1. Seen' = Seen /\ pending' = pending
    BY <1>1 DEF RejectCallback, IngestBegin, IngestUnusable, IngestEnd, Seen, Queued, Elems
  <2>2. Elsewhere(c)
    BY <1>0, <1>1 DEF RejectCallback, IngestBegin, IngestUnusable, IngestEnd, Elsewhere
  <2>3. pending[c] = <<>> \/ cb[c] \in Working
    BY DEF Rest
  <2>4. cb'[c] = "done" \/ (cb[c] = "new" /\ cb'[c] = "parse")
    <3>1. CASE IngestBegin(c)
      <4>1. cb[c] = "new" /\ (cb' = [cb EXCEPT ![c] = "done"] \/ cb' = [cb EXCEPT ![c] = "parse"])
        BY <3>1, Zenon DEF IngestBegin
      <4> QED BY <1>0, <4>1
    <3>2. CASE RejectCallback(c) \/ IngestUnusable(c) \/ IngestEnd(c)
      BY <1>0, <3>2 DEF RejectCallback, IngestUnusable, IngestEnd
    <3> QED BY <1>1, <3>1, <3>2
  <2>5. cb[c] \in Working => pending[c] = <<>>
    BY <1>1 DEF RejectCallback, IngestBegin, IngestUnusable, IngestEnd, Working
  <2> QED BY <2>1, <2>2, <2>3, <2>4, <2>5 DEF Advances
<1>2. CASE IngestParsed(c)
  <2>1. Seen' = Seen
    BY <1>2 DEF IngestParsed, stream, Seen, Queued, Elems
  <2>2. cb[c] = "parse" /\ cb'[c] = "enqueue" /\ pending'[c] = EventsOf[c] /\ Elsewhere(c)
    BY <1>0, <1>2 DEF IngestParsed, Elsewhere
  <2> QED BY <2>1, <2>2 DEF Advances
<1>3. CASE EnqueueBegin(c)
  <2>0. cb[c] = "enqueue" /\ pending[c] # <<>> /\ queue' = queue /\ taken' = taken
    BY <1>3 DEF EnqueueBegin
  <2>1. CASE ReturnsEarly(Head(pending[c]))
    <3>1. Leave(c) /\ Drop(Head(pending[c]))
      BY <1>3, <2>1, Zenon DEF EnqueueBegin
    <3>2. /\ cb'[c] = "enqueue" /\ pending'[c] = Tail(pending[c]) /\ Elsewhere(c)
      BY <1>0, <3>1 DEF Leave, Elsewhere
    <3>3. Seen' = Seen \cup {Head(pending[c])}
      BY <2>0, <3>1 DEF Drop, Seen, Queued, Elems
    <3> QED BY <2>0, <3>2, <3>3 DEF Passes, Working
  <2>2. CASE ~ReturnsEarly(Head(pending[c]))
    <3>1. cb' = [cb EXCEPT ![c] = "test"] /\ pending' = pending /\ dropped' = dropped
      BY <1>3, <2>2, Zenon DEF EnqueueBegin
    <3>2. Seen' = Seen
      BY <2>0, <3>1 DEF Seen, Queued, Elems
    <3> QED BY <1>0, <2>0, <3>1, <3>2 DEF Advances, Elsewhere, Working
  <2> QED BY <2>1, <2>2
<1>4. CASE EnqueueTest(c)
  <2>1. Seen' = Seen
    BY <1>4 DEF EnqueueTest, stream, Seen, Queued, Elems
  <2> QED BY <1>0, <1>4, <2>1 DEF EnqueueTest, Advances, Elsewhere, Working
<1>5. CASE EnqueueEvict(c)
  <2>0. cb[c] = "evict" /\ cb' \in {[cb EXCEPT ![c] = "test"], [cb EXCEPT ![c] = "put"]}
        /\ pending' = pending /\ taken' = taken
    BY <1>5, Zenon DEF EnqueueEvict, AfterEmpty
  <2>1. Seen' = Seen
    <3>1. CASE queue = <<>>
      BY <1>5, <3>1 DEF EnqueueEvict, Seen, Queued, Elems
    <3>2. CASE queue # <<>>
      <4>1. queue' = Tail(queue) /\ dropped' = dropped \cup {Head(queue)}
        BY <1>5, <3>2 DEF EnqueueEvict, Eviction, Drop
      <4>2. Elems(queue) = {Head(queue)} \cup Elems(Tail(queue))
        BY <1>0, <3>2, ElemsTail
      <4>3. queue \in Seq(Event)
        BY <1>u, <2>0 DEF LockDiscipline, InEnqueue, NoEarlySignal
      <4>4. Head(queue) \in Event
        BY <3>2, <4>3, HeadTail
      <4>5. Head(queue) # CloseSignal
        BY <4>4, StreamAssumption DEF StreamAssumption
      <4> QED BY <2>0, <4>1, <4>2, <4>5 DEF Seen, Queued, Elems
    <3> QED BY <3>1, <3>2
  <2> QED BY <1>0, <2>0, <2>1 DEF Advances, Elsewhere, Working
<1>6. CASE EnqueuePut(c)
  <2>0. /\ cb[c] = "put" /\ Leave(c) /\ queue' = Append(queue, Head(pending[c]))
        /\ taken' = taken /\ dropped' = dropped
    BY <1>6 DEF EnqueuePut
  <2>1. pending[c] # <<>>
    BY <1>u, <2>0 DEF LockDiscipline, InEnqueue
  <2>2. Head(pending[c]) \in Event
    BY <1>0, <2>1, HeadTail
  <2>3. Elems(queue') = Elems(queue) \cup {Head(pending[c])}
    BY <1>0, <2>0, <2>2, ElemsAppend DEF Entry
  <2>4. Head(pending[c]) # CloseSignal
    BY <2>2, StreamAssumption DEF StreamAssumption
  <2>5. Seen' = Seen \cup {Head(pending[c])}
    BY <2>0, <2>3, <2>4 DEF Seen, Queued, Elems
  <2> QED BY <1>0, <2>0, <2>1, <2>5 DEF Leave, Passes, Elsewhere, Working
<1> QED BY <1>1, <1>2, <1>3, <1>4, <1>5, <1>6 DEF Ingest

\* A reader moves an event from the queue to the taken ones, and the signal about.
LEMMA ReadKeepsEvents ==
  ASSUME SInv, NEW r \in Reader, Read(r)
  PROVE  KeepsEvents
<1>0. queue \in Seq(Entry)
  BY DEF SInv, TInv, TypeOK, Entry
<1>1. CASE GetBegin(r) \/ GetTimeout(r)
  BY <1>1 DEF GetBegin, GetTimeout, stream, KeepsEvents, Seen, Queued, Elems
<1>2. CASE GetTake(r) \/ PollTake(r)
  <2>1. /\ queue # <<>> /\ queue' = Tail(queue) /\ dropped' = dropped /\ cb' = cb /\ pending' = pending
        /\ taken' = IF Head(queue) = CloseSignal THEN taken ELSE taken \cup {Head(queue)}
    BY <1>2 DEF GetTake, PollTake, TakeOldest, IsSignal
  <2>2. Elems(queue) = {Head(queue)} \cup Elems(Tail(queue))
    BY <1>0, <2>1, ElemsTail
  <2>3. Elems(queue)' = Elems(Tail(queue))
    BY <2>1 DEF Elems
  <2>4. Seen' = Seen
    BY <2>1, <2>2, <2>3 DEF Seen, Queued
  <2> QED BY <2>1, <2>4 DEF KeepsEvents
<1>3. CASE RecordDequeue(r)
  <2>1. /\ queue' = queue \/ (queue = <<>> /\ queue' = <<CloseSignal>>)
        /\ UNCHANGED <<cb, pending, taken, dropped>>
    BY <1>3 DEF RecordDequeue, OwesSignal
  <2>2. Queued' = Queued
    BY <2>1 DEF Queued, Elems
  <2> QED BY <2>1, <2>2 DEF KeepsEvents, Seen
<1>4. CASE RequeueSignal(r)
  <2>1. /\ queue' = queue \/ queue' = Append(queue, CloseSignal)
        /\ UNCHANGED <<cb, pending, taken, dropped>>
    BY <1>4 DEF RequeueSignal, PutBack, PutSignal
  <2>2. Elems(Append(queue, CloseSignal)) = Elems(queue) \cup {CloseSignal}
    BY <1>0, ElemsAppend DEF Entry
  <2>3. Queued' = Queued
    BY <2>1, <2>2 DEF Queued, Elems
  <2> QED BY <2>1, <2>3 DEF KeepsEvents, Seen
<1> QED BY <1>1, <1>2, <1>3, <1>4 DEF Read

\* So does a closer.
LEMMA CloseKeepsEvents ==
  ASSUME SInv, NEW k \in Closer, Close(k)
  PROVE  KeepsEvents
<1>0. queue \in Seq(Entry)
  BY DEF SInv, TInv, TypeOK, Entry
<1>1. /\ queue' = queue \/ queue' = Append(queue, CloseSignal)
      /\ UNCHANGED <<cb, pending, taken, dropped>>
  BY DEF Close, CloseAgain, CloseBegin, CloserFails, CloseEnd, PutSignal, stream
<1>2. Elems(Append(queue, CloseSignal)) = Elems(queue) \cup {CloseSignal}
  BY <1>0, ElemsAppend DEF Entry
<1>3. Queued' = Queued
  BY <1>1, <1>2 DEF Queued, Elems
<1> QED BY <1>1, <1>3 DEF KeepsEvents, Seen

\* What a part leaves of a whole.
LEMMA Remainder ==
  ASSUME NEW m \in Nat, NEW n \in Nat, n <= m
  PROVE  m - n \in Nat /\ m - n <= m /\ (n # 0 => (m - n) + 1 \in 1..m)
OBVIOUS

\* The next event of a callback, and what is left behind it.
LEMMA NextEvent ==
  ASSUME NEW c \in Callback, Rest(c), pending[c] \in Seq(Event), pending[c] # <<>>, cb[c] \in Working
  PROVE  /\ Behind(c) \in Nat /\ Behind(c) + 1 \in 1..Len(EventsOf[c])
         /\ Head(pending[c]) = EventsOf[c][Behind(c) + 1]
         /\ Len(Tail(pending[c])) = Len(pending[c]) - 1 /\ Len(pending[c]) \in Nat \ {0}
         /\ Len(EventsOf[c]) \in Nat
         /\ \A i \in 1..Len(pending[c]) - 1 :
              Tail(pending[c])[i] = EventsOf[c][i + (Len(EventsOf[c]) - (Len(pending[c]) - 1))]
<1>1. EventsOf[c] \in Seq(Event) /\ Len(EventsOf[c]) \in Nat
  BY StreamAssumption, LenProperties DEF StreamAssumption
<1>2. /\ Head(pending[c]) = pending[c][1] /\ Len(pending[c]) \in Nat \ {0}
      /\ Len(Tail(pending[c])) = Len(pending[c]) - 1
      /\ \A i \in 1..Len(pending[c]) - 1 : Tail(pending[c])[i] = pending[c][i + 1]
  BY HeadTail
<1>3. Behind(c) = Len(EventsOf[c]) - Len(pending[c])
  BY DEF Behind, Working
<1>4. /\ Len(pending[c]) <= Len(EventsOf[c])
      /\ \A i \in 1..Len(pending[c]) : pending[c][i] = EventsOf[c][i + (Len(EventsOf[c]) - Len(pending[c]))]
  BY DEF Rest
<1>5. Head(pending[c]) = EventsOf[c][Behind(c) + 1]
  <2>1. 1 \in 1..Len(pending[c]) /\ 1 + Len(EventsOf[c]) - Len(pending[c]) = Behind(c) + 1
    BY <1>1, <1>2, <1>3
  <2> QED BY <1>2, <1>4, <2>1
<1>6. ASSUME NEW i \in 1..Len(pending[c]) - 1
      PROVE  Tail(pending[c])[i] = EventsOf[c][i + (Len(EventsOf[c]) - (Len(pending[c]) - 1))]
  <2> DEFINE m == Len(EventsOf[c])
             n == Len(pending[c])
  <2>0. m \in Nat /\ n \in Nat /\ i \in 1..n - 1
    BY <1>1, <1>2
  <2>1. Tail(pending[c])[i] = pending[c][i + 1]
    BY <1>2
  <2>2. i + 1 \in 1..n
    <3> HIDE DEF n
    <3> QED BY <2>0
  <2>3. pending[c][i + 1] = EventsOf[c][i + 1 + (m - n)]
    BY <1>4, <2>2
  <2>4. i + 1 + (m - n) = i + (m - (n - 1))
    <3> HIDE DEF m, n
    <3> QED BY <2>0
  <2> QED BY <2>1, <2>3, <2>4
<1>7. Behind(c) \in Nat /\ Behind(c) + 1 \in 1..Len(EventsOf[c])
  <2>1. Len(EventsOf[c]) \in Nat /\ Len(pending[c]) \in Nat \ {0} /\ Len(pending[c]) <= Len(EventsOf[c])
    BY <1>1, <1>2, <1>4
  <2>2. /\ Len(EventsOf[c]) - Len(pending[c]) \in Nat
        /\ (Len(EventsOf[c]) - Len(pending[c])) + 1 \in 1..Len(EventsOf[c])
    <3>1. Len(EventsOf[c]) \in Nat /\ Len(pending[c]) \in Nat /\ Len(pending[c]) # 0
      BY <2>1
    <3> QED BY <2>1, <3>1, Remainder, Zenon
  <2> QED BY <1>3, <2>2, Zenon
<1> QED BY <1>1, <1>2, <1>5, <1>6, <1>7

\* Every callback keeps the rest of its payload, and its events keep their turn.
LEMMA FInvKept ==
  ASSUME FInv, TypeOK, NEW c \in Callback, Passes(c) \/ Advances(c)
  PROVE  FInv'
<1>0. ASSUME NEW d \in Callback
      PROVE  /\ pending[d] \in Seq(Event) /\ Len(pending[d]) \in Nat
             /\ EventsOf[d] \in Seq(Event) /\ Len(EventsOf[d]) \in Nat /\ DOMAIN EventsOf[d] = 1..Len(EventsOf[d])
             /\ Rest(d) /\ Ahead(d) /\ Behind(d) \in Nat /\ Behind(d) <= Len(EventsOf[d])
             /\ cb[d] \in CbPC /\ Len(pending[d]) <= Len(EventsOf[d])
             /\ cb[d] \notin Working => pending[d] = <<>>
  <2>1. pending[d] \in Seq(Event) /\ EventsOf[d] \in Seq(Event)
    BY StreamAssumption DEF StreamAssumption, TypeOK
  <2>2. /\ Len(pending[d]) \in Nat /\ Len(EventsOf[d]) \in Nat /\ DOMAIN EventsOf[d] = 1..Len(EventsOf[d])
    BY <2>1, LenProperties
  <2>3. /\ Rest(d) /\ Ahead(d) /\ cb[d] \in CbPC
        /\ Len(pending[d]) <= Len(EventsOf[d]) /\ (cb[d] \notin Working => pending[d] = <<>>)
    BY DEF FInv, TypeOK, Rest
  <2>4. Behind(d) \in Nat /\ Behind(d) <= Len(EventsOf[d])
    <3>1. CASE cb[d] \in {"new", "parse"}
      BY <2>2, <3>1 DEF Behind
    <3>2. CASE cb[d] \notin {"new", "parse"}
      <4>1. Behind(d) = Len(EventsOf[d]) - Len(pending[d])
        BY <3>2 DEF Behind
      <4>2. Len(pending[d]) <= Len(EventsOf[d])
        BY <2>3
      <4>3. Len(EventsOf[d]) - Len(pending[d]) \in Nat /\ Len(EventsOf[d]) - Len(pending[d]) <= Len(EventsOf[d])
        BY <2>2, <4>2, Remainder, Zenon
      <4> QED BY <4>1, <4>3, Zenon
    <3> QED BY <3>1, <3>2
  <2> QED BY <2>1, <2>2, <2>3, <2>4
<1>1. ASSUME NEW d \in Callback \ {c} PROVE Rest(d)' /\ Behind(d)' = Behind(d)
  <2>1. cb'[d] = cb[d] /\ pending'[d] = pending[d]
    BY DEF Passes, Advances, Elsewhere
  <2>2. Rest(d)
    BY <1>0
  <2> QED BY <2>1, <2>2 DEF Rest, Behind
<1>2. CASE Advances(c)
  <2>1. Rest(c)'
    <3>1. CASE pending'[c] = <<>>
      BY <1>0, <3>1, EmptySeq DEF Rest
    <3>2. CASE pending'[c] = EventsOf[c] /\ cb'[c] = "enqueue"
      BY <1>0, <3>2 DEF Rest, Working
    <3>3. CASE pending'[c] = pending[c] /\ (cb[c] \in Working => cb'[c] \in Working)
      <4>1. Rest(c) /\ (cb'[c] \notin Working => cb[c] \notin Working)
        BY <1>0, <3>3
      <4> QED BY <3>3, <4>1 DEF Rest
    <3> QED BY <1>2, <3>1, <3>2, <3>3 DEF Advances, Working
  <2>2. Behind(c)' \in Nat /\ Behind(c)' >= Behind(c)
    <3>1. CASE cb'[c] = "done" /\ pending'[c] = <<>>
      <4>1. Behind(c)' = Len(EventsOf[c])
        BY <1>0, <3>1, EmptySeq DEF Behind
      <4> QED BY <1>0, <4>1
    <3>2. CASE cb[c] = "new" /\ cb'[c] = "parse" /\ pending'[c] = pending[c]
      BY <3>2 DEF Behind
    <3>3. CASE cb[c] = "parse" /\ cb'[c] = "enqueue" /\ pending'[c] = EventsOf[c]
      BY <1>0, <3>3 DEF Behind
    <3>4. CASE cb[c] \in Working /\ cb'[c] \in Working /\ pending'[c] = pending[c]
      <4>1. Behind(c)' = Behind(c)
        BY <3>4 DEF Behind, Working
      <4> QED BY <1>0, <4>1
    <3> QED BY <1>2, <3>1, <3>2, <3>3, <3>4 DEF Advances
  <2>3. Behind(c) \in Nat
    BY <1>0
  <2>4. Ahead(c)'
    <3>1. \A i \in Behind(c)' + 1 .. Len(EventsOf[c]) : i \in Behind(c) + 1 .. Len(EventsOf[c])
      BY <1>0, <2>2, <2>3
    <3>2. Seen' = Seen
      BY <1>2 DEF Advances
    <3> QED BY <1>0, <3>1, <3>2 DEF Ahead
  <2>5. \A d \in Callback \ {c} : Ahead(d)'
    <3>1. Seen' = Seen
      BY <1>2 DEF Advances
    <3> QED BY <1>0, <1>1, <3>1 DEF Ahead
  <2> QED BY <1>1, <2>1, <2>4, <2>5 DEF FInv
<1>3. CASE Passes(c)
  <2>0. /\ cb[c] \in Working /\ cb'[c] \in Working /\ pending[c] # <<>> /\ pending'[c] = Tail(pending[c])
        /\ Seen' = Seen \cup {Head(pending[c])}
    BY <1>3 DEF Passes
  <2>1. /\ Behind(c) \in Nat /\ Behind(c) + 1 \in 1..Len(EventsOf[c])
        /\ Head(pending[c]) = EventsOf[c][Behind(c) + 1]
        /\ Len(Tail(pending[c])) = Len(pending[c]) - 1 /\ Len(pending[c]) \in Nat \ {0}
        /\ \A i \in 1..Len(pending[c]) - 1 :
             Tail(pending[c])[i] = EventsOf[c][i + (Len(EventsOf[c]) - (Len(pending[c]) - 1))]
    BY <1>0, <2>0, NextEvent
  <2>2. Rest(c)'
    <3>1. Len(pending'[c]) = Len(pending[c]) - 1 /\ Len(pending'[c]) <= Len(EventsOf[c])
      BY <1>0, <2>0, <2>1
    <3>2. \A i \in 1..Len(pending'[c]) :
            pending'[c][i] = EventsOf[c][i + (Len(EventsOf[c]) - Len(pending'[c]))]
      BY <2>0, <2>1, <3>1
    <3> QED BY <2>0, <3>1, <3>2 DEF Rest
  <2>3. Behind(c)' = Behind(c) + 1
    <3>1. Behind(c) = Len(EventsOf[c]) - Len(pending[c])
      BY <2>0 DEF Behind, Working
    <3>2. Behind(c)' = Len(EventsOf[c]) - Len(pending'[c])
      BY <2>0 DEF Behind, Working
    <3>3. Len(pending'[c]) = Len(pending[c]) - 1
      BY <2>0, <2>1
    <3>4. Len(pending[c]) \in Nat /\ Len(EventsOf[c]) \in Nat
      BY <1>0
    <3> QED BY <3>1, <3>2, <3>3, <3>4
  <2>4. ASSUME NEW d \in Callback, NEW i \in Behind(d)' + 1 .. Len(EventsOf[d])
        PROVE  EventsOf[d][i] \notin Seen'
    <3>1. Behind(d) \in Nat /\ i \in Behind(d) + 1 .. Len(EventsOf[d]) /\ (d = c => i # Behind(c) + 1)
      <4>1. Behind(d) \in Nat
        BY <1>0
      <4>2. CASE d = c
        BY <1>0, <2>1, <2>3, <2>4, <4>2
      <4>3. CASE d # c
        BY <1>0, <1>1, <2>4, <4>1, <4>3
      <4> QED BY <4>1, <4>2, <4>3
    <3>2. EventsOf[d][i] \notin Seen
      BY <1>0, <3>1 DEF Ahead
    <3>3. EventsOf[d][i] # EventsOf[c][Behind(c) + 1]
      <4>1. i \in DOMAIN EventsOf[d] /\ Behind(c) + 1 \in DOMAIN EventsOf[c]
        BY <1>0, <2>1, <3>1
      <4> QED BY <3>1, <4>1, DistinctEvents
    <3> QED BY <2>0, <2>1, <3>2, <3>3
  <2>5. \A d \in Callback : Ahead(d)'
    BY <2>4 DEF Ahead
  <2> QED BY <1>1, <2>2, <2>5 DEF FInv
<1> QED BY <1>2, <1>3

\* Where no event moves, nothing is to show.
LEMMA FInvStays ==
  ASSUME FInv, KeepsEvents
  PROVE  FInv'
BY DEF FInv, KeepsEvents, Rest, Ahead, Behind

-----------------------------------------------------------------------------
(* The stream is a lossy buffer *)

\* The next event of a callback has not reached the stream yet.
LEMMA NextIsFresh ==
  ASSUME SInv, FInv, NEW c \in Callback, pending[c] # <<>>
  PROVE  /\ Head(pending[c]) \in Event
         /\ Head(pending[c]) \notin Elems(Strip(queue)) \cup taken \cup dropped
         /\ Head(pending[c]) \notin Seen
<1>1. TypeOK /\ SignalAt(queue) \subseteq {Len(queue)}
  BY DEF SInv, TInv, SignalLast
<1>2. pending[c] \in Seq(Event) /\ queue \in Seq(Entry)
  BY <1>1 DEF TypeOK, Entry
<1>3. Rest(c) /\ Ahead(c)
  BY DEF FInv
<1>4. cb[c] \in Working
  BY <1>3 DEF Rest
<1>5. /\ Behind(c) \in Nat /\ Behind(c) + 1 \in 1..Len(EventsOf[c]) /\ Len(EventsOf[c]) \in Nat
      /\ Head(pending[c]) = EventsOf[c][Behind(c) + 1]
  BY <1>2, <1>3, <1>4, NextEvent
<1>6. Behind(c) + 1 \in Behind(c) + 1 .. Len(EventsOf[c])
  BY <1>5
<1>7. Head(pending[c]) \notin Seen
  BY <1>3, <1>5, <1>6 DEF Ahead
<1>8. Elems(Strip(queue)) \subseteq Queued
  BY <1>1, <1>2, StripElems DEF Queued
<1>9. Head(pending[c]) \in Event
  BY <1>2, HeadTail
<1> QED BY <1>7, <1>8, <1>9 DEF Seen

\* Who is in the eviction loop of a stream that may not evict.
LEMMA PolicyStays ==
  ASSUME PolicyKept, cb' = cb, pending' = pending, bufBytes' = bufBytes, dropOldest' = dropOldest,
         queue' = queue \/ (Len(queue) \in Nat /\ Len(queue') = Len(queue) - 1)
  PROVE  PolicyKept'
<1>1. MaxEvents \in Nat
  BY StreamAssumption DEF StreamAssumption
<1>2. Full' => Full
  <2>1. CASE queue' = queue
    BY <2>1 DEF Full
  <2>2. CASE Len(queue) \in Nat /\ Len(queue') = Len(queue) - 1
    BY <1>1, <2>2 DEF Full
  <2> QED BY <2>1, <2>2
<1>3. ASSUME NEW e PROVE OverLimit(e)' => OverLimit(e)
  BY <1>2 DEF OverLimit
<1>4. ASSUME NEW c \in Callback
      PROVE  /\ cb'[c] = "evict" => dropOldest'
             /\ cb'[c] = "test" /\ ~dropOldest' => ~OverLimit(Head(pending[c]))'
  BY <1>3 DEF PolicyKept
<1> QED BY <1>4 DEF PolicyKept, OverLimit, Full

\* With the lock free nobody is in the loop.
LEMMA PolicyFree ==
  ASSUME LockFree, cb' = cb
  PROVE  PolicyKept'
BY DEF LockFree, InEnqueue, PolicyKept

\* A native thread enters the loop only where the policy lets it.
LEMMA PolicyIngest ==
  ASSUME SInv, PolicyKept, NEW c \in Callback, Ingest(c)
  PROVE  PolicyKept'
<1>u. TypeOK /\ LockDiscipline
  BY DEF SInv, TInv
<1>0. cb \in [Callback -> CbPC]
  BY <1>u DEF TypeOK
<1>1. CASE RejectCallback(c) \/ IngestBegin(c) \/ IngestUnusable(c) \/ IngestEnd(c)
  <2>1. LockFree /\ cb' \in {[cb EXCEPT ![c] = "done"], [cb EXCEPT ![c] = "parse"]}
    BY <1>1, Zenon DEF RejectCallback, IngestBegin, IngestUnusable, IngestEnd
  <2>2. \A d \in Callback : cb'[d] # "test" /\ cb'[d] # "evict"
    BY <1>0, <2>1 DEF LockFree, InEnqueue
  <2> QED BY <2>2 DEF PolicyKept
<1>2. CASE IngestParsed(c)
  <2>1. /\ cb' = [cb EXCEPT ![c] = "enqueue"] /\ pending' = [pending EXCEPT ![c] = EventsOf[c]]
        /\ queue' = queue /\ bufBytes' = bufBytes /\ dropOldest' = dropOldest
    BY <1>2 DEF IngestParsed, stream
  <2>2. cb'[c] = "enqueue" /\ \A d \in Callback \ {c} : cb'[d] = cb[d] /\ pending'[d] = pending[d]
    BY <1>0, <1>u, <2>1 DEF TypeOK
  <2> QED BY <2>1, <2>2 DEF PolicyKept, OverLimit, Full
<1>3. CASE EnqueueBegin(c)
  <2>1. LockFree /\ dropOldest' = dropOldest /\ queue' = queue /\ bufBytes' = bufBytes
    BY <1>3 DEF EnqueueBegin
  <2>2. CASE ReturnsEarly(Head(pending[c]))
    <3>1. cb' = [cb EXCEPT ![c] = "enqueue"]
      BY <1>3, <2>2, Zenon DEF EnqueueBegin, Leave
    <3>2. \A d \in Callback : cb'[d] # "test" /\ cb'[d] # "evict"
      BY <1>0, <2>1, <3>1 DEF LockFree, InEnqueue
    <3> QED BY <3>2 DEF PolicyKept
  <2>3. CASE ~ReturnsEarly(Head(pending[c]))
    <3>1. cb' = [cb EXCEPT ![c] = "test"] /\ pending' = pending
      BY <1>3, <2>3, Zenon DEF EnqueueBegin
    <3>2. \A d \in Callback : cb'[d] # "evict" /\ (cb'[d] = "test" => d = c)
      BY <1>0, <2>1, <3>1 DEF LockFree, InEnqueue
    <3>3. ~dropOldest => ~OverLimit(Head(pending[c]))
      BY <2>3 DEF ReturnsEarly
    <3>4. OverLimit(Head(pending[c]))' <=> OverLimit(Head(pending[c]))
      BY <2>1, <3>1 DEF OverLimit, Full
    <3> QED BY <2>1, <3>2, <3>3, <3>4 DEF PolicyKept
  <2> QED BY <2>2, <2>3
<1>4. CASE EnqueueTest(c) \/ EnqueueEvict(c) \/ EnqueuePut(c)
  <2>1. InEnqueue(c) /\ \A d \in Callback : InEnqueue(d) => d = c
    BY <1>4, <1>u DEF EnqueueTest, EnqueueEvict, EnqueuePut, InEnqueue, LockDiscipline
  <2>2. \A d \in Callback \ {c} : cb[d] # "test" /\ cb[d] # "evict"
    BY <2>1 DEF InEnqueue
  <2>3. dropOldest' = dropOldest
    BY <1>4 DEF EnqueueTest, EnqueueEvict, EnqueuePut, stream
  <2>4. /\ \A d \in Callback \ {c} : cb'[d] = cb[d]
        /\ cb'[c] = "evict" => dropOldest
        /\ cb'[c] = "test" => dropOldest
    <3>1. CASE EnqueueTest(c)
      <4>1. /\ cb[c] = "test"
            /\ cb' = [cb EXCEPT ![c] = IF OverLimit(Head(pending[c])) THEN "evict" ELSE "put"]
        BY <3>1 DEF EnqueueTest
      <4>2. OverLimit(Head(pending[c])) => dropOldest
        BY <4>1 DEF PolicyKept
      <4> QED BY <1>0, <4>1, <4>2
    <3>2. CASE EnqueueEvict(c)
      <4>1. cb[c] = "evict" /\ cb' \in {[cb EXCEPT ![c] = "test"], [cb EXCEPT ![c] = "put"]}
        BY <3>2, Zenon DEF EnqueueEvict, AfterEmpty
      <4>2. dropOldest
        BY <4>1 DEF PolicyKept
      <4> QED BY <1>0, <4>1, <4>2
    <3>3. CASE EnqueuePut(c)
      <4>1. cb' = [cb EXCEPT ![c] = "enqueue"]
        BY <3>3 DEF EnqueuePut, Leave
      <4> QED BY <1>0, <4>1
    <3> QED BY <1>4, <3>1, <3>2, <3>3
  <2> QED BY <2>2, <2>3, <2>4 DEF PolicyKept
<1> QED BY <1>1, <1>2, <1>3, <1>4 DEF Ingest

\* Nobody else touches the loop, except to make room in it.
LEMMA PolicyRead ==
  ASSUME SInv, PolicyKept, NEW r \in Reader, Read(r)
  PROVE  PolicyKept'
<1>0. queue \in Seq(Entry)
  BY DEF SInv, TInv, TypeOK, Entry
<1>1. CASE GetBegin(r) \/ GetTimeout(r)
  <2>1. UNCHANGED <<cb, pending, bufBytes, dropOldest, queue>>
    BY <1>1 DEF GetBegin, GetTimeout, stream
  <2> QED BY <2>1, PolicyStays
<1>2. CASE GetTake(r) \/ PollTake(r)
  <2>1. queue # <<>> /\ queue' = Tail(queue) /\ UNCHANGED <<cb, pending, bufBytes, dropOldest>>
    BY <1>2 DEF GetTake, PollTake, TakeOldest, IsSignal
  <2>2. Len(queue) \in Nat /\ Len(Tail(queue)) = Len(queue) - 1
    BY <1>0, <2>1, HeadTail
  <2> QED BY <2>1, <2>2, PolicyStays
<1>3. CASE RecordDequeue(r) \/ RequeueSignal(r)
  <2>1. LockFree /\ cb' = cb
    BY <1>3 DEF RecordDequeue, RequeueSignal
  <2> QED BY <2>1, PolicyFree
<1> QED BY <1>1, <1>2, <1>3 DEF Read

\* A closer waits until nobody is in the loop.
LEMMA PolicyClose ==
  ASSUME NEW k \in Closer, Close(k)
  PROVE  PolicyKept'
<1>1. LockFree /\ cb' = cb
  BY DEF Close, CloseAgain, CloseBegin, CloserFails, CloseEnd
<1> QED BY <1>1, PolicyFree


\* The inductive invariant of the refinement.
RInv == SInv /\ FInv /\ PolicyKept

\* No event has reached the stream of the initial state.
LEMMA RInvInit == Init => RInv
<1> SUFFICES ASSUME Init PROVE RInv
  OBVIOUS
<1>1. SInv
  BY SInvInit
<1>2. \A c \in Callback : cb[c] = "new" /\ pending[c] = <<>>
  BY DEF Init
<1>3. Seen = {}
  BY DEF Init, Seen, Queued, Elems
<1>4. ASSUME NEW c \in Callback PROVE Rest(c) /\ Ahead(c)
  <2>1. Len(EventsOf[c]) \in Nat /\ Len(pending[c]) = 0
    BY <1>2, StreamAssumption, LenProperties DEF StreamAssumption
  <2> QED BY <1>2, <1>3, <2>1 DEF Rest, Ahead
<1>5. PolicyKept
  BY <1>2 DEF PolicyKept
<1> QED BY <1>1, <1>4, <1>5 DEF RInv, FInv

\* Every step keeps it.
LEMMA RInvStep == RInv /\ [Next]_vars => RInv'
<1> SUFFICES ASSUME RInv, [Next]_vars PROVE RInv'
  OBVIOUS
<1>0. SInv /\ FInv /\ PolicyKept /\ SInv'
  BY SInvStep DEF RInv
<1>t. TypeOK
  BY <1>0 DEF SInv, TInv
<1>1. CASE UNCHANGED vars
  <2>1. UNCHANGED <<queue, taken, dropped, cb, pending, bufBytes, dropOldest>>
    BY <1>1 DEF vars, stream, callers
  <2>2. KeepsEvents
    BY <2>1 DEF KeepsEvents, Seen, Queued, Elems
  <2>3. FInv'
    BY <1>0, <2>2, FInvStays
  <2>4. PolicyKept'
    BY <1>0, <2>1, PolicyStays
  <2> QED BY <1>0, <2>3, <2>4 DEF RInv
<1>2. CASE Terminated
  BY <1>1, <1>2 DEF Terminated
<1>3. ASSUME NEW c \in Callback, Ingest(c) PROVE RInv'
  <2>1. Rest(c)
    BY <1>0 DEF FInv
  <2>2. Passes(c) \/ Advances(c)
    BY <1>0, <1>3, <2>1, IngestPasses
  <2>3. FInv'
    BY <1>0, <1>t, <2>2, FInvKept
  <2>4. PolicyKept'
    BY <1>0, <1>3, PolicyIngest
  <2> QED BY <1>0, <2>3, <2>4 DEF RInv
<1>4. ASSUME NEW r \in Reader, Read(r) PROVE RInv'
  <2>1. FInv'
    BY <1>0, <1>4, ReadKeepsEvents, FInvStays
  <2>2. PolicyKept'
    BY <1>0, <1>4, PolicyRead
  <2> QED BY <1>0, <2>1, <2>2 DEF RInv
<1>5. ASSUME NEW k \in Closer, Close(k) PROVE RInv'
  <2>1. FInv'
    BY <1>0, <1>5, CloseKeepsEvents, FInvStays
  <2>2. PolicyKept'
    BY <1>5, PolicyClose
  <2> QED BY <1>0, <2>1, <2>2 DEF RInv
<1> QED BY <1>1, <1>2, <1>3, <1>4, <1>5 DEF Next

\* What the buffer keeps when a step only moves the signal or a thread.
Same == Strip(queue)' = Strip(queue) /\ UNCHANGED <<dropOldest, taken, dropped, closed, closing>>

\* Nothing the buffer sees has changed.
LEMMA SameStutters == ASSUME Same PROVE UNCHANGED Buffer!vars
BY DEF Same, Strip, Buffer!vars

\* A new event at the end of an open stream with room, as the buffer accepts it.
LEMMA AsAccept ==
  ASSUME NEW e \in Event, ~closed, ~closing,
         e \notin Elems(Strip(queue)) \cup taken \cup dropped,
         Len(Strip(queue)) < MaxEvents, Strip(queue)' = Append(Strip(queue), e),
         UNCHANGED <<dropOldest, taken, dropped, closed, closing>>
  PROVE  Buffer!Accept(e)
BY DEF Buffer!Accept, Buffer!Fresh, Buffer!Elems, Elems, Strip

\* A new event counted as dropped, as the buffer refuses it.
LEMMA AsRefuse ==
  ASSUME NEW e \in Event, e \notin Elems(Strip(queue)) \cup taken \cup dropped,
         ~closed /\ ~closing => ~dropOldest \/ Bytes[e] > MaxBytes,
         dropped' = dropped \cup {e}, Strip(queue)' = Strip(queue),
         UNCHANGED <<dropOldest, taken, closed, closing>>
  PROVE  Buffer!Refuse(e)
<1>1. Buffer!Fresh = Event \ (Elems(Strip(queue)) \cup taken \cup dropped)
  BY DEF Buffer!Fresh, Buffer!Elems, Elems, Strip
<1> QED BY <1>1 DEF Buffer!Refuse, Strip

\* The oldest event dropped by a DROP_OLDEST stream, as the buffer evicts it.
LEMMA AsEvict ==
  ASSUME dropOldest, ~closed, ~closing, Strip(queue) # <<>>,
         dropped' = dropped \cup {Head(Strip(queue))}, Strip(queue)' = Tail(Strip(queue)),
         UNCHANGED <<dropOldest, taken, closed, closing>>
  PROVE  Buffer!Evict
BY DEF Buffer!Evict, Strip

\* The oldest event in the hands of a reader, as the buffer gives it.
LEMMA AsTake ==
  ASSUME Strip(queue) # <<>>, taken' = taken \cup {Head(Strip(queue))},
         Strip(queue)' = Tail(Strip(queue)), UNCHANGED <<dropOldest, dropped, closed, closing>>
  PROVE  Buffer!Take
BY DEF Buffer!Take, Strip

\* The close flags, as the phases of the buffer.
LEMMA AsShut ==
  ASSUME ~closed,
         \/ ~closing /\ closing' /\ ~closed'
         \/ closing /\ ~closing' /\ closed' \in BOOLEAN,
         Strip(queue)' = Strip(queue), UNCHANGED <<dropOldest, taken, dropped>>
  PROVE  Buffer!Shut
BY DEF Buffer!Shut, Strip


\* A native thread's step is a loss, an arrival or nothing.
LEMMA IngestMaps ==
  ASSUME RInv, NEW c \in Callback, Ingest(c)
  PROVE  [Buffer!Next]_(Buffer!vars)
<1>u. SInv /\ FInv /\ PolicyKept /\ TypeOK /\ LockDiscipline /\ NoEarlySignal /\ SignalLast
  BY DEF RInv, SInv, TInv
<1>0. cb \in [Callback -> CbPC] /\ queue \in Seq(Entry)
  BY <1>u DEF TypeOK, Entry
<1>1. CASE \/ RejectCallback(c) \/ IngestBegin(c) \/ IngestParsed(c)
           \/ IngestUnusable(c) \/ IngestEnd(c) \/ EnqueueTest(c)
  <2>1. Same
    BY <1>1 DEF RejectCallback, IngestBegin, IngestParsed, IngestUnusable, IngestEnd, EnqueueTest,
                stream, Same, Strip, SignalAt
  <2> QED BY <2>1, SameStutters
<1>2. CASE EnqueueBegin(c)
  <2>1. /\ pending[c] # <<>> /\ queue' = queue
        /\ UNCHANGED <<dropOldest, taken, closed, closing>>
    BY <1>2 DEF EnqueueBegin
  <2>2. Strip(queue)' = Strip(queue)
    BY <2>1 DEF Strip, SignalAt
  <2>3. /\ Head(pending[c]) \in Event
        /\ Head(pending[c]) \notin Elems(Strip(queue)) \cup taken \cup dropped
    BY <1>u, <2>1, NextIsFresh
  <2>4. CASE ReturnsEarly(Head(pending[c]))
    <3>1. dropped' = dropped \cup {Head(pending[c])}
      BY <1>2, <2>4, Zenon DEF EnqueueBegin, Drop
    <3>2. ~closed /\ ~closing => ~dropOldest \/ Bytes[Head(pending[c])] > MaxBytes
      BY <2>4 DEF ReturnsEarly, Refusing
    <3>3. Buffer!Refuse(Head(pending[c]))
      BY <2>1, <2>2, <2>3, <3>1, <3>2, AsRefuse
    <3> QED BY <2>3, <3>3 DEF Buffer!Next
  <2>5. CASE ~ReturnsEarly(Head(pending[c]))
    <3>1. dropped' = dropped
      BY <1>2, <2>5, Zenon DEF EnqueueBegin
    <3> QED BY <2>1, <2>2, <3>1, SameStutters DEF Same
  <2> QED BY <2>4, <2>5
<1>3. CASE EnqueueEvict(c)
  <2>1. cb[c] = "evict" /\ UNCHANGED <<dropOldest, taken, closed, closing>>
    BY <1>3 DEF EnqueueEvict
  <2>2. dropOldest /\ ~closed /\ ~closing /\ queue \in Seq(Event)
    BY <1>u, <2>1 DEF PolicyKept, LockDiscipline, NoEarlySignal, InEnqueue
  <2>3. CASE queue = <<>>
    <3>1. queue' = queue /\ dropped' = dropped
      BY <1>3, <2>3 DEF EnqueueEvict
    <3>2. Strip(queue)' = Strip(queue)
      BY <3>1 DEF Strip, SignalAt
    <3> QED BY <2>1, <3>1, <3>2, SameStutters DEF Same
  <2>4. CASE queue # <<>>
    <3>1. queue' = Tail(queue) /\ dropped' = dropped \cup {Head(queue)}
      BY <1>3, <2>4 DEF EnqueueEvict, Eviction, Drop
    <3>2. Head(queue) \in Event /\ Head(queue) # CloseSignal
      BY <2>2, <2>4, HeadTail, StreamAssumption DEF StreamAssumption
    <3>3. Strip(queue) # <<>> /\ Head(Strip(queue)) = Head(queue) /\ Strip(Tail(queue)) = Tail(Strip(queue))
      BY <1>0, <1>u, <2>4, <3>2, StripTail DEF SignalLast
    <3>4. Strip(queue)' = Strip(Tail(queue))
      BY <3>1 DEF Strip, SignalAt
    <3>5. Buffer!Evict
      BY <2>1, <2>2, <3>1, <3>3, <3>4, AsEvict
    <3> QED BY <3>5 DEF Buffer!Next
  <2> QED BY <2>3, <2>4
<1>4. CASE EnqueuePut(c)
  <2>1. /\ cb[c] = "put" /\ queue' = Append(queue, Head(pending[c]))
        /\ UNCHANGED <<dropOldest, taken, dropped, closed, closing>>
    BY <1>4 DEF EnqueuePut
  <2>2. pending[c] # <<>> /\ ~closed /\ ~closing /\ queue \in Seq(Event) /\ ~Full
    BY <1>u, <2>1 DEF SInv, RoomForPut, LockDiscipline, NoEarlySignal, InEnqueue
  <2>3. /\ Head(pending[c]) \in Event
        /\ Head(pending[c]) \notin Elems(Strip(queue)) \cup taken \cup dropped
    BY <1>u, <2>2, NextIsFresh
  <2>4. SignalAt(queue) = {}
    <3>1. ~signalled
      BY <1>u, <2>2 DEF SignalLast
    <3> QED BY <1>u, <3>1 DEF SignalLast
  <2>5. Strip(queue) = queue
    BY <2>4 DEF Strip
  <2>6. Strip(Append(queue, Head(pending[c]))) = Append(Strip(queue), Head(pending[c]))
    BY <1>0, <2>3, <2>4, StripAppend DEF Entry
  <2>7. Strip(queue)' = Strip(Append(queue, Head(pending[c])))
    BY <2>1 DEF Strip, SignalAt
  <2>8. Len(Strip(queue)) < MaxEvents
    <3>1. Len(queue) \in Nat /\ MaxEvents \in Nat
      BY <1>0, LenProperties, StreamAssumption DEF StreamAssumption
    <3> QED BY <2>2, <2>5, <3>1 DEF Full
  <2>9. Buffer!Accept(Head(pending[c]))
    BY <2>1, <2>2, <2>3, <2>6, <2>7, <2>8, AsAccept
  <2> QED BY <2>3, <2>9 DEF Buffer!Next
<1> QED BY <1>1, <1>2, <1>3, <1>4 DEF Ingest

\* A reader's step takes the oldest event, or moves only the signal.
LEMMA ReadMaps ==
  ASSUME RInv, NEW r \in Reader, Read(r)
  PROVE  [Buffer!Next]_(Buffer!vars)
<1>u. TypeOK /\ SignalLast
  BY DEF RInv, SInv, TInv
<1>0. queue \in Seq(Entry) /\ CloseSignal \in Entry
  BY <1>u DEF TypeOK, Entry
<1>1. CASE GetBegin(r) \/ GetTimeout(r)
  <2>1. Same
    BY <1>1 DEF GetBegin, GetTimeout, stream, Same, Strip, SignalAt
  <2> QED BY <2>1, SameStutters
<1>2. CASE GetTake(r) \/ PollTake(r)
  <2>1. /\ queue # <<>> /\ queue' = Tail(queue) /\ UNCHANGED <<dropOldest, dropped, closed, closing>>
        /\ Head(queue) = CloseSignal => taken' = taken
        /\ Head(queue) # CloseSignal => taken' = taken \cup {Head(queue)}
    BY <1>2 DEF GetTake, PollTake, TakeOldest, IsSignal
  <2>2. Strip(queue)' = Strip(Tail(queue))
    BY <2>1 DEF Strip, SignalAt
  <2>3. CASE Head(queue) = CloseSignal
    <3>1. Strip(queue) = <<>> /\ Strip(Tail(queue)) = <<>>
      BY <1>0, <1>u, <2>1, <2>3, StripTail DEF SignalLast
    <3> QED BY <2>1, <2>2, <2>3, <3>1, SameStutters DEF Same
  <2>4. CASE Head(queue) # CloseSignal
    <3>1. Strip(queue) # <<>> /\ Head(Strip(queue)) = Head(queue) /\ Strip(Tail(queue)) = Tail(Strip(queue))
      BY <1>0, <1>u, <2>1, <2>4, StripTail DEF SignalLast
    <3>2. Buffer!Take
      BY <2>1, <2>2, <2>4, <3>1, AsTake
    <3> QED BY <3>2 DEF Buffer!Next
  <2> QED BY <2>3, <2>4
<1>3. CASE RecordDequeue(r)
  <2>1. /\ UNCHANGED <<dropOldest, taken, dropped, closed, closing>>
        /\ queue' = queue \/ (queue = <<>> /\ queue' = <<CloseSignal>>)
    BY <1>3 DEF RecordDequeue, OwesSignal
  <2>2. CASE queue' = queue
    <3>1. Strip(queue)' = Strip(queue)
      BY <2>2 DEF Strip, SignalAt
    <3> QED BY <2>1, <3>1, SameStutters DEF Same
  <2>3. CASE queue = <<>> /\ queue' = <<CloseSignal>>
    <3>1. queue' = Append(queue, CloseSignal) /\ SignalAt(queue) = {}
      BY <2>3 DEF SignalAt
    <3>2. Strip(Append(queue, CloseSignal)) = Strip(queue)
      BY <1>0, <3>1, StripAppend
    <3>3. Strip(queue)' = Strip(Append(queue, CloseSignal))
      BY <3>1 DEF Strip, SignalAt
    <3> QED BY <2>1, <3>2, <3>3, SameStutters DEF Same
  <2> QED BY <2>1, <2>2, <2>3
<1>4. CASE RequeueSignal(r)
  <2>1. /\ UNCHANGED <<dropOldest, taken, dropped, closed, closing>> /\ r \in SignalHolder
        /\ queue' = queue \/ queue' = Append(queue, CloseSignal)
    BY <1>4 DEF RequeueSignal, PutBack, PutSignal, SignalHolder
  <2>2. SignalAt(queue) = {}
    BY <1>u, <2>1 DEF SignalLast, SignalAt
  <2>3. Strip(Append(queue, CloseSignal)) = Strip(queue)
    BY <1>0, <2>2, StripAppend
  <2>4. Strip(queue)' = Strip(queue)
    <3>1. CASE queue' = queue
      BY <3>1 DEF Strip, SignalAt
    <3>2. CASE queue' = Append(queue, CloseSignal)
      <4>1. Strip(queue)' = Strip(Append(queue, CloseSignal))
        BY <3>2 DEF Strip, SignalAt
      <4> QED BY <2>3, <4>1
    <3> QED BY <2>1, <3>1, <3>2
  <2> QED BY <2>1, <2>4, SameStutters DEF Same
<1> QED BY <1>1, <1>2, <1>3, <1>4 DEF Read

\* A closer's step shuts the buffer or opens it again.
LEMMA CloseMaps ==
  ASSUME RInv, NEW k \in Closer, Close(k)
  PROVE  [Buffer!Next]_(Buffer!vars)
<1>u. TypeOK /\ SignalLast /\ CloseDiscipline
  BY DEF RInv, SInv, TInv
<1>0. queue \in Seq(Entry) /\ CloseSignal \in Entry
  BY <1>u DEF TypeOK, Entry
<1>1. CASE CloseAgain(k)
  <2>1. Same
    BY <1>1 DEF CloseAgain, stream, Same, Strip, SignalAt
  <2> QED BY <2>1, SameStutters
<1>2. CASE CloseBegin(k) \/ CloserFails(k)
  <2>1. UNCHANGED <<dropOldest, taken, dropped, queue, closed>>
    BY <1>2 DEF CloseBegin, CloserFails
  <2>2. ~closed /\ ((~closing /\ closing') \/ (closing /\ ~closing'))
    BY <1>2, <1>u DEF CloseBegin, CloserFails, CloseDiscipline
  <2>3. Strip(queue)' = Strip(queue)
    BY <2>1 DEF Strip, SignalAt
  <2>4. ~closed' /\ closed' \in BOOLEAN
    BY <1>u, <2>1, <2>2 DEF TypeOK
  <2>5. Buffer!Shut
    BY <2>1, <2>2, <2>3, <2>4, AsShut
  <2> QED BY <2>5 DEF Buffer!Next
<1>3. CASE CloseEnd(k)
  <2>1. /\ UNCHANGED <<dropOldest, taken, dropped>> /\ closing' = FALSE /\ closed' = TRUE
        /\ queue' = queue \/ queue' = Append(queue, CloseSignal)
    BY <1>3 DEF CloseEnd, PutSignal
  <2>2. ~closed /\ closing
    BY <1>3, <1>u DEF CloseEnd, CloseDiscipline
  <2>3. SignalAt(queue) = {}
    <3>1. ~signalled
      BY <1>u, <2>2 DEF SignalLast
    <3> QED BY <1>u, <3>1 DEF SignalLast
  <2>4. Strip(Append(queue, CloseSignal)) = Strip(queue)
    BY <1>0, <2>3, StripAppend
  <2>5. Strip(queue)' = Strip(queue)
    <3>1. CASE queue' = queue
      BY <3>1 DEF Strip, SignalAt
    <3>2. CASE queue' = Append(queue, CloseSignal)
      <4>1. Strip(queue)' = Strip(Append(queue, CloseSignal))
        BY <3>2 DEF Strip, SignalAt
      <4> QED BY <2>4, <4>1
    <3> QED BY <2>1, <3>1, <3>2
  <2>6. Buffer!Shut
    BY <2>1, <2>2, <2>5, AsShut
  <2> QED BY <2>6 DEF Buffer!Next
<1> QED BY <1>1, <1>2, <1>3 DEF Close

\* The initial state is an empty open buffer.
LEMMA InitMaps == Init => Buffer!Init
<1> SUFFICES ASSUME Init PROVE Buffer!Init
  OBVIOUS
<1>1. queue = <<>> /\ dropped = {} /\ taken = {} /\ ~closed /\ ~closing
  BY DEF Init
<1>2. SignalAt(queue) = {}
  BY <1>1 DEF SignalAt
<1> QED BY <1>1, <1>2 DEF Buffer!Init

\* The stream implements the lossy first-in first-out buffer: every step of a
\* native thread, a reader or a closer is one of its steps or none.
THEOREM Refines == Spec => IsLossyBuffer
<1>1. RInv /\ [Next]_vars => [Buffer!Next]_(Buffer!vars)
  <2> SUFFICES ASSUME RInv, [Next]_vars PROVE [Buffer!Next]_(Buffer!vars)
    OBVIOUS
  <2>1. CASE UNCHANGED vars
    <3>1. Same
      BY <2>1 DEF vars, stream, Same, Strip, SignalAt
    <3> QED BY <3>1, SameStutters
  <2>2. CASE Terminated
    BY <2>1, <2>2 DEF Terminated
  <2> QED BY <2>1, <2>2, IngestMaps, ReadMaps, CloseMaps DEF Next
<1> QED BY <1>1, InitMaps, RInvInit, RInvStep, PTL DEF Spec, IsLossyBuffer, Buffer!Spec

-----------------------------------------------------------------------------
(* Sums over finite sets *)

\* Of any collection of subsets of a finite set some are least.
LEMMA LeastSubset ==
  ASSUME NEW S, IsFiniteSet(S), NEW X \in SUBSET (SUBSET S), X # {}
  PROVE  \E T \in X : \A U \in X : U \subseteq T => U = T
<1> DEFINE R == StrictSubsetOrdering(S)
<1>1. IsWellFoundedOn(R, SUBSET S)
  BY FS_StrictSubsetOrderingWellFounded, FS_FiniteSubsetsOfFinite
<1>2. \E T \in X : \A U \in X : <<U, T>> \notin R
  <2> HIDE DEF R
  <2> QED BY <1>1, WFMin
<1>3. \A U, T \in SUBSET S : U \subseteq T /\ U # T => <<U, T>> \in R
  BY DEF StrictSubsetOrdering
<1> QED BY <1>2, <1>3

\* The sum of Bytes over a set, from the sums f of its subsets: the body of the
\* recursive function of ImageBytes.
Body(f, T) == IF T = {} THEN 0
              ELSE LET e == CHOOSE e \in T : TRUE IN Bytes[e] + f[T \ {e}]

\* A function that satisfies the recursive equation on the subsets of S.
IsSum(f, S) == f = [T \in SUBSET S |-> Body(f, T)]

\* One element of a set that is not empty: the one the definition takes first.
Pick(T) == CHOOSE e \in T : TRUE

\* A set that is not empty has the element picked from it.
LEMMA Picked ==
  ASSUME NEW T, T # {}
  PROVE  Pick(T) \in T
BY DEF Pick

\* The body of the sum, with the pick by name.
LEMMA BodyIs ==
  ASSUME NEW f, NEW T
  PROVE  Body(f, T) = IF T = {} THEN 0 ELSE Bytes[Pick(T)] + f[T \ {Pick(T)}]
BY DEF Body, Pick

\* ImageBytes is a function that is a sum, applied to the whole set.
LEMMA ImageBytesIs ==
  ASSUME NEW S
  PROVE  ImageBytes(S) = (CHOOSE f : IsSum(f, S))[S]
BY DEF ImageBytes, IsSum, Body


\* One step of a sum: the element picked, and the sum of the others.
LEMMA SumIs ==
  ASSUME NEW f, NEW S, IsSum(f, S), NEW T, T \subseteq S
  PROVE  /\ f[T] = IF T = {} THEN 0 ELSE Bytes[Pick(T)] + f[T \ {Pick(T)}]
         /\ T # {} => T \ {Pick(T)} \subseteq T /\ T \ {Pick(T)} # T
<1>1. f = [U \in SUBSET S |-> Body(f, U)]
  BY DEF IsSum
<1>2. T \in SUBSET S
  OBVIOUS
<1>3. f[T] = Body(f, T)
  BY <1>1, <1>2, Zenon
<1> QED BY <1>3, BodyIs, Picked

\* Two sums agree where both are defined.
LEMMA SumsAgree ==
  ASSUME NEW S, NEW R, NEW f, NEW g, IsSum(f, S), IsSum(g, R), NEW T, T \subseteq S, T \subseteq R, IsFiniteSet(T)
  PROVE  f[T] = g[T]
<1> SUFFICES ASSUME f[T] # g[T] PROVE FALSE
  OBVIOUS
<1> DEFINE X == {U \in SUBSET T : f[U] # g[U]}
<1>1. PICK U \in X : \A V \in X : V \subseteq U => V = U
  <2>1. T \in X
    OBVIOUS
  <2>2. X \in SUBSET (SUBSET T) /\ X # {}
    BY <2>1
  <2> HIDE DEF X
  <2> QED BY <2>2, LeastSubset
<1>2. U \subseteq T /\ f[U] # g[U] /\ U \subseteq S /\ U \subseteq R
  BY <1>1
<1>3. /\ f[U] = IF U = {} THEN 0 ELSE Bytes[Pick(U)] + f[U \ {Pick(U)}]
      /\ g[U] = IF U = {} THEN 0 ELSE Bytes[Pick(U)] + g[U \ {Pick(U)}]
      /\ U # {} => U \ {Pick(U)} \subseteq U /\ U \ {Pick(U)} # U
  BY <1>2, SumIs
<1>4. U # {}
  BY <1>2, <1>3
<1>5. U \ {Pick(U)} \notin X
  BY <1>1, <1>3, <1>4
<1>6. f[U \ {Pick(U)}] = g[U \ {Pick(U)}]
  BY <1>2, <1>3, <1>4, <1>5
<1> QED BY <1>2, <1>3, <1>4, <1>6

\* Every finite set has a sum.
LEMMA SumExists ==
  ASSUME NEW S, IsFiniteSet(S)
  PROVE  \E f : IsSum(f, S)
<1> SUFFICES ASSUME ~ \E f : IsSum(f, S) PROVE FALSE
  OBVIOUS
<1> DEFINE X == {U \in SUBSET S : ~ \E f : IsSum(f, U)}
<1>1. PICK T \in X : \A V \in X : V \subseteq T => V = T
  <2>1. S \in X
    OBVIOUS
  <2>2. X \in SUBSET (SUBSET S) /\ X # {}
    BY <2>1
  <2> HIDE DEF X
  <2> QED BY <2>2, LeastSubset
<1>2. T \subseteq S /\ ~ \E f : IsSum(f, T)
  BY <1>1
<1>3. ASSUME NEW U, U \subseteq T, U # T PROVE \E f : IsSum(f, U)
  <2>1. U \notin X
    BY <1>1, <1>3
  <2> QED BY <1>2, <1>3, <2>1
<1> HIDE DEF X
<1> DEFINE v(U) == IF U = {} THEN 0 ELSE Bytes[Pick(U)] + ImageBytes(U \ {Pick(U)})
           h == [U \in SUBSET T |-> v(U)]
<1>4. ASSUME NEW U, U \subseteq T, U # T PROVE h[U] = ImageBytes(U)
  <2>1. IsSum(CHOOSE f : IsSum(f, U), U)
    BY <1>3, <1>4
  <2> DEFINE f == CHOOSE f : IsSum(f, U)
  <2>2. IsSum(f, U) /\ ImageBytes(U) = f[U]
    BY <2>1, ImageBytesIs
  <2> HIDE DEF f
  <2>3. f[U] = IF U = {} THEN 0 ELSE Bytes[Pick(U)] + f[U \ {Pick(U)}]
    BY <2>2, SumIs
  <2>4. U # {} => f[U \ {Pick(U)}] = ImageBytes(U \ {Pick(U)})
    <3>1. SUFFICES ASSUME U # {} PROVE f[U \ {Pick(U)}] = ImageBytes(U \ {Pick(U)})
      OBVIOUS
    <3> DEFINE W == U \ {Pick(U)}
               g == CHOOSE g : IsSum(g, W)
    <3>2. W \subseteq U /\ W \subseteq T /\ W # T
      BY <1>4, <3>1, Picked
    <3>3. IsFiniteSet(W)
      BY <1>2, <3>2, FS_Subset
    <3>4. IsSum(g, W) /\ ImageBytes(W) = g[W]
      BY <1>3, <3>2, ImageBytesIs
    <3> HIDE DEF g, W
    <3>5. W \subseteq W
      OBVIOUS
    <3>6. f[W] = g[W]
      BY <2>2, <3>2, <3>3, <3>4, <3>5, SumsAgree
    <3> QED BY <3>4, <3>6 DEF W
  <2>5. h[U] = v(U)
    BY <1>4
  <2> QED BY <2>2, <2>3, <2>4, <2>5
<1>5. ASSUME NEW U \in SUBSET T PROVE v(U) = Body(h, U)
  <2>1. Body(h, U) = IF U = {} THEN 0 ELSE Bytes[Pick(U)] + h[U \ {Pick(U)}]
    <3> HIDE DEF h
    <3> QED BY BodyIs
  <2>2. U # {} => h[U \ {Pick(U)}] = ImageBytes(U \ {Pick(U)})
    <3> HIDE DEF h
    <3> QED BY <1>4, <1>5, Picked
  <2> HIDE DEF h
  <2> QED BY <2>1, <2>2
<1>6. IsSum(h, T)
  <2>1. h = [U \in SUBSET T |-> Body(h, U)]
    <3>1. h = [U \in SUBSET T |-> v(U)]
      OBVIOUS
    <3> HIDE DEF h, v
    <3> QED BY <1>5, <3>1, Zenon
  <2> QED BY <2>1 DEF IsSum
<1> QED BY <1>2, <1>6


\* The sum of a finite set, from that of the set without one element.
LEMMA SumStep ==
  ASSUME NEW S, IsFiniteSet(S)
  PROVE  ImageBytes(S) = IF S = {} THEN 0 ELSE Bytes[Pick(S)] + ImageBytes(S \ {Pick(S)})
<1> DEFINE f == CHOOSE f : IsSum(f, S)
           W == S \ {Pick(S)}
           g == CHOOSE g : IsSum(g, W)
<1>1. IsFiniteSet(W) /\ W \subseteq S /\ W \subseteq W
  BY FS_RemoveElement
<1>2. IsSum(f, S) /\ ImageBytes(S) = f[S]
  BY SumExists, ImageBytesIs
<1>3. IsSum(g, W) /\ ImageBytes(W) = g[W]
  BY <1>1, SumExists, ImageBytesIs
<1> HIDE DEF f, g
<1>4. f[S] = IF S = {} THEN 0 ELSE Bytes[Pick(S)] + f[S \ {Pick(S)}]
  BY <1>2, SumIs
<1>5. f[W] = g[W]
  <2> HIDE DEF W
  <2> QED BY <1>1, <1>2, <1>3, SumsAgree
<1> QED BY <1>2, <1>3, <1>4, <1>5

\* A sum of image bytes is a natural number.
LEMMA SumType ==
  ASSUME NEW S \in SUBSET Event, IsFiniteSet(S)
  PROVE  ImageBytes(S) \in Nat
<1> SUFFICES ASSUME ImageBytes(S) \notin Nat PROVE FALSE
  OBVIOUS
<1> DEFINE X == {U \in SUBSET S : ImageBytes(U) \notin Nat}
<1>1. PICK U \in X : \A V \in X : V \subseteq U => V = U
  <2>1. S \in X
    OBVIOUS
  <2>2. X \in SUBSET (SUBSET S) /\ X # {}
    BY <2>1
  <2> HIDE DEF X
  <2> QED BY <2>2, LeastSubset
<1>2. U \subseteq S /\ ImageBytes(U) \notin Nat /\ IsFiniteSet(U)
  BY <1>1, FS_Subset
<1>3. ImageBytes(U) = IF U = {} THEN 0 ELSE Bytes[Pick(U)] + ImageBytes(U \ {Pick(U)})
  BY <1>2, SumStep
<1>4. U # {}
  BY <1>2, <1>3
<1>5. Pick(U) \in U /\ U \ {Pick(U)} # U
  BY <1>4, Picked
<1>6. ImageBytes(U \ {Pick(U)}) \in Nat
  BY <1>1, <1>2, <1>5
<1>7. Bytes[Pick(U)] \in Nat
  BY <1>2, <1>5, StreamAssumption DEF StreamAssumption
<1>8. ImageBytes(U) = Bytes[Pick(U)] + ImageBytes(U \ {Pick(U)})
  BY <1>3, <1>4
<1> QED BY <1>2, <1>6, <1>7, <1>8

\* It does not matter which element is taken first.
LEMMA SumWithout ==
  ASSUME NEW S \in SUBSET Event, IsFiniteSet(S), NEW e \in S
  PROVE  ImageBytes(S) = Bytes[e] + ImageBytes(S \ {e})
<1> SUFFICES ASSUME ImageBytes(S) # Bytes[e] + ImageBytes(S \ {e}) PROVE FALSE
  OBVIOUS
<1> DEFINE X == {U \in SUBSET S : \E x \in U : ImageBytes(U) # Bytes[x] + ImageBytes(U \ {x})}
<1>1. PICK U \in X : \A V \in X : V \subseteq U => V = U
  <2>1. S \in X
    OBVIOUS
  <2>2. X \in SUBSET (SUBSET S) /\ X # {}
    BY <2>1
  <2> HIDE DEF X
  <2> QED BY <2>2, LeastSubset
<1>2. U \subseteq S /\ IsFiniteSet(U) /\ \E x \in U : ImageBytes(U) # Bytes[x] + ImageBytes(U \ {x})
  BY <1>1, FS_Subset
<1>3. PICK x \in U : ImageBytes(U) # Bytes[x] + ImageBytes(U \ {x})
  BY <1>2
<1>4. ASSUME NEW V, V \subseteq U, V # U, NEW y \in V
      PROVE  ImageBytes(V) = Bytes[y] + ImageBytes(V \ {y})
  BY <1>1, <1>2, <1>4
<1> HIDE DEF X
<1>5. PICK p \in U : ImageBytes(U) = Bytes[p] + ImageBytes(U \ {p})
  BY <1>2, Picked, SumStep
<1>6. p # x
  BY <1>3, <1>5
<1>7. ImageBytes(U \ {p}) = Bytes[x] + ImageBytes((U \ {p}) \ {x})
  BY <1>4, <1>6
<1>8. ImageBytes(U \ {x}) = Bytes[p] + ImageBytes((U \ {p}) \ {x})
  <2>1. ImageBytes(U \ {x}) = Bytes[p] + ImageBytes((U \ {x}) \ {p})
    BY <1>4, <1>6
  <2>2. (U \ {x}) \ {p} = (U \ {p}) \ {x}
    OBVIOUS
  <2> QED BY <2>1, <2>2
<1>9. Bytes[x] \in Nat /\ Bytes[p] \in Nat /\ ImageBytes((U \ {p}) \ {x}) \in Nat
  <2>1. (U \ {p}) \ {x} \in SUBSET Event /\ IsFiniteSet((U \ {p}) \ {x})
    BY <1>2, FS_RemoveElement
  <2>2. x \in Event /\ p \in Event
    BY <1>2
  <2> QED BY <2>1, <2>2, SumType, StreamAssumption DEF StreamAssumption
<1> QED BY <1>3, <1>5, <1>7, <1>8, <1>9

\* The sum of a finite set with one more element.
LEMMA SumWith ==
  ASSUME NEW S \in SUBSET Event, IsFiniteSet(S), NEW e \in Event, e \notin S
  PROVE  ImageBytes(S \cup {e}) = ImageBytes(S) + Bytes[e] /\ IsFiniteSet(S \cup {e})
<1>1. S \cup {e} \in SUBSET Event /\ IsFiniteSet(S \cup {e}) /\ (S \cup {e}) \ {e} = S
  BY FS_AddElement
<1>2. ImageBytes(S \cup {e}) = Bytes[e] + ImageBytes((S \cup {e}) \ {e})
  BY <1>1, SumWithout
<1>3. Bytes[e] \in Nat /\ ImageBytes(S) \in Nat
  BY SumType, StreamAssumption DEF StreamAssumption
<1>4. ImageBytes(S \cup {e}) = Bytes[e] + ImageBytes(S)
  BY <1>1, <1>2
<1> QED BY <1>1, <1>3, <1>4

\* The sum of a part is no greater.
LEMMA SumOfPart ==
  ASSUME NEW S \in SUBSET Event, IsFiniteSet(S), NEW T \in SUBSET S
  PROVE  ImageBytes(T) <= ImageBytes(S)
<1> SUFFICES ASSUME ~ (ImageBytes(T) <= ImageBytes(S)) PROVE FALSE
  OBVIOUS
<1> DEFINE X == {U \in SUBSET S : T \subseteq U /\ ~ (ImageBytes(T) <= ImageBytes(U))}
<1>1. PICK U \in X : \A V \in X : V \subseteq U => V = U
  <2>1. S \in X
    OBVIOUS
  <2>2. X \in SUBSET (SUBSET S) /\ X # {}
    BY <2>1
  <2> HIDE DEF X
  <2> QED BY <2>2, LeastSubset
<1>2. U \subseteq S /\ IsFiniteSet(U) /\ T \subseteq U /\ ~ (ImageBytes(T) <= ImageBytes(U))
  BY <1>1, FS_Subset
<1>3. ImageBytes(T) \in Nat
  BY FS_Subset, SumType
<1>4. PICK e \in U : e \notin T
  BY <1>2, <1>3
<1>5. ImageBytes(T) <= ImageBytes(U \ {e})
  <2>1. U \ {e} \notin X
    BY <1>1, <1>4
  <2> QED BY <1>2, <1>4, <2>1
<1> HIDE DEF X
<1>6. ImageBytes(U) = Bytes[e] + ImageBytes(U \ {e})
  BY <1>2, SumWithout
<1>7. Bytes[e] \in Nat /\ ImageBytes(U \ {e}) \in Nat
  <2>1. U \ {e} \in SUBSET Event /\ IsFiniteSet(U \ {e}) /\ e \in Event
    BY <1>2, FS_RemoveElement
  <2> QED BY <2>1, SumType, StreamAssumption DEF StreamAssumption
<1> QED BY <1>2, <1>3, <1>5, <1>6, <1>7


\* The events readers have taken and not yet accounted for.
Held == {hand[r] : r \in Recording}

\* No event is in a queue twice.
NoRepeat(q) == \A i, j \in DOMAIN q : q[i] = q[j] /\ q[i] # CloseSignal => i = j

\* An event is in the queue, taken or dropped, and only one of them.
Apart == Queued \cap taken = {} /\ Queued \cap dropped = {} /\ taken \cap dropped = {}

\* Every reader accounts for an event of its own.
Hands == \A r \in Recording : hand[r] \in taken /\ \A s \in Recording : hand[r] = hand[s] => r = s

\* The event _enqueue works on fits the buffer, and what it puts fits what is left.
WorkFits == \A c \in Callback : InEnqueue(c) => Bytes[Head(pending[c])] <= MaxBytes
PutFits  == \A c \in Callback : cb[c] = "put" => ImageBytes(Queued) + Bytes[Head(pending[c])] <= MaxBytes

\* One place per event, and the bytes of each place.
Places == NoRepeat(queue) /\ Apart /\ Hands /\ IsFiniteSet(Seen)
Limits == ByteAccounting /\ QueuedBytesBounded /\ WorkFits /\ PutFits

\* The oldest entry leaves the queue.
LEMMA LeavesQueue ==
  ASSUME NEW q \in Seq(Entry), q # <<>>, NoRepeat(q)
  PROVE  /\ NoRepeat(Tail(q)) /\ Head(q) \in Entry
         /\ Head(q) = CloseSignal => Elems(Tail(q)) \ {CloseSignal} = Elems(q) \ {CloseSignal}
         /\ Head(q) # CloseSignal =>
              /\ Head(q) \in Elems(q) \ {CloseSignal}
              /\ Elems(Tail(q)) \ {CloseSignal} = (Elems(q) \ {CloseSignal}) \ {Head(q)}
<1>1. /\ Head(q) = q[1] /\ Head(q) \in Entry /\ Len(q) \in Nat \ {0} /\ DOMAIN q = 1..Len(q)
      /\ Tail(q) \in Seq(Entry) /\ Len(Tail(q)) = Len(q) - 1
      /\ DOMAIN Tail(q) = 1..Len(q) - 1
      /\ \A i \in 1..Len(q) - 1 : Tail(q)[i] = q[i + 1]
  BY HeadTail, LenProperties
<1>2. Elems(q) = {Head(q)} \cup Elems(Tail(q))
  BY ElemsTail
<1>3. NoRepeat(Tail(q))
  <2>1. SUFFICES ASSUME NEW i \in 1..Len(q) - 1, NEW j \in 1..Len(q) - 1,
                        Tail(q)[i] = Tail(q)[j], Tail(q)[i] # CloseSignal
                 PROVE  i = j
    BY <1>1 DEF NoRepeat
  <2>2. q[i + 1] = q[j + 1] /\ q[i + 1] # CloseSignal /\ i + 1 \in DOMAIN q /\ j + 1 \in DOMAIN q
    BY <1>1, <2>1
  <2>3. i + 1 = j + 1
    BY <2>2 DEF NoRepeat
  <2> QED BY <1>1, <2>3
<1>4. ASSUME Head(q) # CloseSignal PROVE Head(q) \notin Elems(Tail(q))
  <2>1. SUFFICES ASSUME NEW i \in 1..Len(q) - 1, Tail(q)[i] = Head(q) PROVE FALSE
    BY <1>1 DEF Elems
  <2>2. q[i + 1] = q[1] /\ q[1] # CloseSignal /\ i + 1 \in DOMAIN q /\ 1 \in DOMAIN q
    BY <1>1, <1>4, <2>1
  <2>3. i + 1 = 1
    BY <2>2 DEF NoRepeat
  <2> QED BY <1>1, <2>3
<1> QED BY <1>1, <1>2, <1>3, <1>4

\* A new entry joins the queue.
LEMMA JoinsQueue ==
  ASSUME NEW q \in Seq(Entry), NEW x \in Entry, NoRepeat(q), x \notin Elems(q) \ {CloseSignal}
  PROVE  /\ NoRepeat(Append(q, x))
         /\ Elems(Append(q, x)) \ {CloseSignal} = (Elems(q) \ {CloseSignal}) \cup ({x} \ {CloseSignal})
<1>1. /\ Len(q) \in Nat /\ DOMAIN q = 1..Len(q) /\ Append(q, x) \in Seq(Entry)
      /\ DOMAIN Append(q, x) = 1..Len(q) + 1
      /\ \A i \in 1..Len(q) : Append(q, x)[i] = q[i]
      /\ Append(q, x)[Len(q) + 1] = x
  BY Appended, LenProperties
<1>2. Elems(Append(q, x)) = Elems(q) \cup {x}
  BY ElemsAppend
<1>3. NoRepeat(Append(q, x))
  <2>1. SUFFICES ASSUME NEW i \in 1..Len(q) + 1, NEW j \in 1..Len(q) + 1,
                        Append(q, x)[i] = Append(q, x)[j], Append(q, x)[i] # CloseSignal
                 PROVE  i = j
    BY <1>1 DEF NoRepeat
  <2>2. \A k \in 1..Len(q) : q[k] # CloseSignal => q[k] # x
    BY <1>1 DEF Elems
  <2>3. CASE i \in 1..Len(q) /\ j \in 1..Len(q)
    BY <1>1, <2>1, <2>3 DEF NoRepeat
  <2>4. CASE i \notin 1..Len(q) \/ j \notin 1..Len(q)
    <3>1. (i \in 1..Len(q) \/ i = Len(q) + 1) /\ (j \in 1..Len(q) \/ j = Len(q) + 1)
      BY <1>1
    <3> QED BY <1>1, <2>1, <2>2, <2>4, <3>1
  <2> QED BY <2>3, <2>4
<1> QED BY <1>2, <1>3

-----------------------------------------------------------------------------
(* What a step does to the books *)

\* Nobody's hand changes.
HandsStay == Recording' = Recording /\ \A r \in Recording : hand'[r] = hand[r]

\* No event moves; one comes; one is lost on arrival; one is evicted; a reader
\* takes one; a reader accounts for one.
Stays     == /\ Queued' = Queued /\ taken' = taken /\ dropped' = dropped /\ bufBytes' = bufBytes /\ HandsStay
Comes(e)  == /\ e \in Event \ Seen /\ Queued' = Queued \cup {e} /\ taken' = taken /\ dropped' = dropped
             /\ bufBytes' = bufBytes + Bytes[e] /\ HandsStay
IsLost(e) == /\ e \in Event \ Seen /\ Queued' = Queued /\ taken' = taken /\ dropped' = dropped \cup {e}
             /\ bufBytes' = bufBytes /\ HandsStay
IsOut(e)  == /\ e \in Queued /\ Queued' = Queued \ {e} /\ taken' = taken /\ dropped' = dropped \cup {e}
             /\ bufBytes' = bufBytes - Bytes[e] /\ HandsStay
IsTaken(e, r) ==
  /\ e \in Queued /\ Queued' = Queued \ {e} /\ taken' = taken \cup {e} /\ dropped' = dropped
  /\ bufBytes' = bufBytes /\ r \notin Recording /\ Recording' = Recording \cup {r}
  /\ hand'[r] = e /\ \A s \in Recording : hand'[s] = hand[s]
Recorded(r) ==
  /\ Queued' = Queued /\ taken' = taken /\ dropped' = dropped
  /\ r \in Recording /\ Recording' = Recording \ {r} /\ \A s \in Recording \ {r} : hand'[s] = hand[s]
  /\ bufBytes' = BytesReleased(hand[r])

\* A step that changes no hand leaves what readers hold.
LEMMA HeldStays == ASSUME HandsStay PROVE Held' = Held
BY DEF HandsStay, Held

\* A reader that takes an event holds it.
LEMMA HeldTaken ==
  ASSUME NEW e, NEW r, IsTaken(e, r) PROVE Held' = Held \cup {e}
<1>1. Held' = {hand'[s] : s \in Recording'}
  BY DEF Held
<1>2. Recording' = Recording \cup {r} /\ hand'[r] = e /\ \A s \in Recording : hand'[s] = hand[s]
  BY DEF IsTaken
<1> QED BY <1>1, <1>2 DEF Held

\* A reader that accounts for its event no longer holds it.
LEMMA HeldRecorded ==
  ASSUME Hands, NEW r, Recorded(r) PROVE Held' = Held \ {hand[r]} /\ hand[r] \in Held
<1>1. Held' = {hand'[s] : s \in Recording'}
  BY DEF Held
<1>2. Recording' = Recording \ {r} /\ r \in Recording /\ \A s \in Recording \ {r} : hand'[s] = hand[s]
  BY DEF Recorded
<1>3. \A s \in Recording \ {r} : hand[s] # hand[r]
  BY <1>2 DEF Hands
<1> QED BY <1>1, <1>2, <1>3 DEF Held

\* The types the books need.
LEMMA Sets ==
  ASSUME TypeOK, Places
  PROVE  /\ Queued \in SUBSET Event /\ taken \in SUBSET Event /\ dropped \in SUBSET Event
         /\ Held \subseteq taken /\ Queued \cap Held = {}
         /\ IsFiniteSet(Queued) /\ IsFiniteSet(taken) /\ IsFiniteSet(dropped)
         /\ IsFiniteSet(Queued \cup Held) /\ Queued \cup Held \in SUBSET Event
         /\ bufBytes \in Int /\ MaxBytes \in Nat /\ Bytes \in [Event -> Nat]
<1>1. queue \in Seq(Entry) /\ taken \in SUBSET Event /\ dropped \in SUBSET Event /\ bufBytes \in Int
  BY DEF TypeOK, Entry
<1>2. Queued \in SUBSET Event
  <2>1. \A i \in DOMAIN queue : queue[i] \in Entry
    BY <1>1, LenProperties, ElementOfSeq
  <2> QED BY <2>1 DEF Queued, Elems, Entry
<1>3. Held \subseteq taken
  BY DEF Places, Hands, Held
<1>4. Queued \cap Held = {}
  BY <1>3 DEF Places, Apart
<1>5. IsFiniteSet(Seen) /\ Queued \subseteq Seen /\ taken \subseteq Seen /\ dropped \subseteq Seen
  BY DEF Places, Seen
<1>6. Queued \cup Held \subseteq Seen
  BY <1>3 DEF Seen
<1>7. IsFiniteSet(Queued) /\ IsFiniteSet(taken) /\ IsFiniteSet(dropped)
  BY <1>5, FS_Subset
<1>8. IsFiniteSet(Queued \cup Held)
  BY <1>5, <1>6, FS_Subset
<1>9. Queued \cup Held \in SUBSET Event
  BY <1>1, <1>2, <1>3
<1> QED BY <1>1, <1>2, <1>3, <1>4, <1>7, <1>8, <1>9, StreamAssumption DEF StreamAssumption

\* The kinds of step keep one place per event.
LEMMA PlacesKept ==
  ASSUME TypeOK, Places, NoRepeat(queue'),
         \/ Stays
         \/ \E e \in Event : Comes(e) \/ IsLost(e)
         \/ \E e \in Queued : IsOut(e) \/ \E r \in Reader : IsTaken(e, r)
         \/ \E r \in Reader : Recorded(r)
  PROVE  Places'
<1>0. NoRepeat(queue)' 
  BY DEF NoRepeat
<1>1. Apart /\ Hands /\ IsFiniteSet(Seen) /\ Held \subseteq taken
  BY Sets DEF Places
<1>a. Queued \cap taken = {} /\ Queued \cap dropped = {} /\ taken \cap dropped = {}
  BY <1>1 DEF Apart
<1>2. CASE Stays
  <2>1. UNCHANGED <<Queued, taken, dropped>> /\ HandsStay
    BY <1>2 DEF Stays
  <2>2. Apart'
    BY <1>a, <2>1 DEF Apart
  <2>3. Hands'
    BY <1>1, <2>1 DEF Hands, HandsStay
  <2>4. Seen' = Seen
    BY <2>1 DEF Seen
  <2> QED BY <1>0, <1>1, <2>2, <2>3, <2>4 DEF Places
<1>3. ASSUME NEW e \in Event, Comes(e) \/ IsLost(e) PROVE Places'
  <2>1. /\ e \notin Seen /\ taken' = taken /\ HandsStay
        /\ \/ Queued' = Queued \cup {e} /\ dropped' = dropped
           \/ Queued' = Queued /\ dropped' = dropped \cup {e}
    BY <1>3 DEF Comes, IsLost
  <2>2. Apart'
    BY <1>a, <2>1 DEF Apart, Seen
  <2>3. Hands'
    BY <1>1, <2>1 DEF Hands, HandsStay
  <2>4. Seen' = Seen \cup {e}
    BY <2>1 DEF Seen
  <2>5. IsFiniteSet(Seen \cup {e})
    BY <1>1, FS_AddElement
  <2> QED BY <1>0, <2>2, <2>3, <2>4, <2>5 DEF Places
<1>4. ASSUME NEW e \in Queued, IsOut(e) PROVE Places'
  <2>1. /\ taken' = taken /\ HandsStay /\ Queued' = Queued \ {e} /\ dropped' = dropped \cup {e}
    BY <1>4 DEF IsOut
  <2>2. Apart'
    BY <1>a, <2>1 DEF Apart
  <2>3. Hands'
    BY <1>1, <2>1 DEF Hands, HandsStay
  <2>4. Seen' = Seen
    BY <2>1 DEF Seen
  <2> QED BY <1>0, <1>1, <2>2, <2>3, <2>4 DEF Places
<1>5. ASSUME NEW e \in Queued, NEW r \in Reader, IsTaken(e, r) PROVE Places'
  <2>1. /\ taken' = taken \cup {e} /\ Queued' = Queued \ {e} /\ dropped' = dropped
        /\ Recording' = Recording \cup {r} /\ hand'[r] = e /\ \A s \in Recording : hand'[s] = hand[s]
    BY <1>5 DEF IsTaken
  <2>2. Apart'
    BY <1>a, <2>1 DEF Apart
  <2>3. Hands'
    <3>1. \A s \in Recording : hand[s] # e /\ hand[s] \in taken
      BY <1>a, <1>1 DEF Hands
    <3>2. \A s \in Recording' : hand'[s] \in taken'
      BY <2>1, <3>1
    <3>3. ASSUME NEW s \in Recording', NEW t \in Recording', hand'[s] = hand'[t] PROVE s = t
      BY <1>1, <2>1, <3>1, <3>3 DEF Hands
    <3> QED BY <3>2, <3>3 DEF Hands
  <2>4. Seen' = Seen
    BY <2>1 DEF Seen
  <2> QED BY <1>0, <1>1, <2>2, <2>3, <2>4 DEF Places
<1>6. ASSUME NEW r \in Reader, Recorded(r) PROVE Places'
  <2>1. /\ Queued' = Queued /\ taken' = taken /\ dropped' = dropped
        /\ Recording' = Recording \ {r} /\ \A s \in Recording \ {r} : hand'[s] = hand[s]
    BY <1>6 DEF Recorded
  <2>2. Apart'
    BY <1>a, <2>1 DEF Apart
  <2>3. Hands'
    BY <1>1, <2>1 DEF Hands
  <2>4. Seen' = Seen
    BY <2>1 DEF Seen
  <2> QED BY <1>0, <1>1, <2>2, <2>3, <2>4 DEF Places
<1> QED BY <1>2, <1>3, <1>4, <1>5, <1>6


\* The empty sum.
LEMMA SumOfNone == ImageBytes({}) = 0
<1>1. IsFiniteSet({})
  BY FS_EmptySet
<1>2. ImageBytes({}) = IF {} = {} THEN 0 ELSE Bytes[Pick({})] + ImageBytes({} \ {Pick({})})
  BY <1>1, SumStep
<1> QED BY <1>2

\* What the kinds of step do to the byte count.
LEMMA BytesKept ==
  ASSUME TypeOK, Places, ByteAccounting,
         \/ Stays
         \/ \E e \in Event : Comes(e) \/ IsLost(e)
         \/ \E e \in Queued : IsOut(e) \/ \E r \in Reader : IsTaken(e, r)
         \/ \E r \in Reader : Recorded(r)
  PROVE  bufBytes' = ImageBytes(Queued' \cup Held')
<1>0. /\ Queued \in SUBSET Event /\ taken \in SUBSET Event /\ dropped \in SUBSET Event
      /\ Held \subseteq taken /\ Queued \cap Held = {}
      /\ IsFiniteSet(Queued \cup Held) /\ Queued \cup Held \in SUBSET Event
      /\ bufBytes \in Int /\ Bytes \in [Event -> Nat]
  BY Sets
<1>b. bufBytes = ImageBytes(Queued \cup Held)
  BY DEF ByteAccounting, Held
<1>h. Hands
  BY DEF Places
<1>2. CASE Stays \/ \E e \in Event : IsLost(e)
  <2>1. Queued' = Queued /\ bufBytes' = bufBytes /\ HandsStay
    BY <1>2 DEF Stays, IsLost
  <2>2. Queued' \cup Held' = Queued \cup Held
    BY <2>1, HeldStays
  <2> QED BY <1>b, <2>1, <2>2
<1>3. ASSUME NEW e \in Event, Comes(e) PROVE bufBytes' = ImageBytes(Queued' \cup Held')
  <2>1. Queued' = Queued \cup {e} /\ bufBytes' = bufBytes + Bytes[e] /\ HandsStay /\ e \notin Seen
    BY <1>3 DEF Comes
  <2>2. e \notin Queued \cup Held
    BY <1>0, <2>1 DEF Seen
  <2>3. Queued' \cup Held' = (Queued \cup Held) \cup {e}
    BY <2>1, HeldStays
  <2>4. ImageBytes((Queued \cup Held) \cup {e}) = ImageBytes(Queued \cup Held) + Bytes[e]
    BY <1>0, <2>2, SumWith
  <2> QED BY <1>b, <2>1, <2>3, <2>4
<1>4. ASSUME NEW e \in Queued, IsOut(e) PROVE bufBytes' = ImageBytes(Queued' \cup Held')
  <2>1. Queued' = Queued \ {e} /\ bufBytes' = bufBytes - Bytes[e] /\ HandsStay
    BY <1>4 DEF IsOut
  <2>2. Queued' \cup Held' = (Queued \cup Held) \ {e}
    <3>1. e \notin Held
      BY <1>0
    <3> QED BY <2>1, <3>1, HeldStays
  <2>3. ImageBytes(Queued \cup Held) = Bytes[e] + ImageBytes((Queued \cup Held) \ {e})
    <3>1. e \in Queued \cup Held
      OBVIOUS
    <3> QED BY <1>0, <3>1, SumWithout
  <2>4. ImageBytes((Queued \cup Held) \ {e}) \in Nat /\ Bytes[e] \in Nat
    <3>1. IsFiniteSet((Queued \cup Held) \ {e}) /\ (Queued \cup Held) \ {e} \in SUBSET Event /\ e \in Event
      BY <1>0, FS_RemoveElement
    <3> QED BY <1>0, <3>1, SumType
  <2>5. bufBytes' = ImageBytes((Queued \cup Held) \ {e})
    BY <1>b, <2>1, <2>3, <2>4
  <2> QED BY <2>2, <2>5
<1>5. ASSUME NEW e \in Queued, NEW r \in Reader, IsTaken(e, r)
      PROVE  bufBytes' = ImageBytes(Queued' \cup Held')
  <2>1. Queued' = Queued \ {e} /\ bufBytes' = bufBytes /\ Held' = Held \cup {e}
    BY <1>5, HeldTaken DEF IsTaken
  <2>2. Queued' \cup Held' = Queued \cup Held
    BY <2>1
  <2> QED BY <1>b, <2>1, <2>2
<1>6. ASSUME NEW r \in Reader, Recorded(r)
      PROVE  bufBytes' = ImageBytes(Queued' \cup Held')
  <2>1. /\ Queued' = Queued /\ bufBytes' = BytesReleased(hand[r])
        /\ Held' = Held \ {hand[r]} /\ hand[r] \in Held
    BY <1>6, <1>h, HeldRecorded DEF Recorded
  <2>2. Queued' \cup Held' = (Queued \cup Held) \ {hand[r]}
    BY <1>0, <2>1
  <2>3. ImageBytes(Queued \cup Held) = Bytes[hand[r]] + ImageBytes((Queued \cup Held) \ {hand[r]})
    <3>1. hand[r] \in Queued \cup Held
      BY <2>1
    <3> QED BY <1>0, <3>1, SumWithout
  <2>4. ImageBytes((Queued \cup Held) \ {hand[r]}) \in Nat /\ Bytes[hand[r]] \in Nat
    <3>1. /\ IsFiniteSet((Queued \cup Held) \ {hand[r]}) /\ hand[r] \in Event
          /\ (Queued \cup Held) \ {hand[r]} \in SUBSET Event
      BY <1>0, <2>1, FS_RemoveElement
    <3> QED BY <1>0, <3>1, SumType
  <2>5. BytesReleased(hand[r]) = ImageBytes((Queued \cup Held) \ {hand[r]})
    BY <1>b, <2>3, <2>4 DEF BytesReleased
  <2> QED BY <2>1, <2>2, <2>5
<1> QED BY <1>2, <1>3, <1>4, <1>5, <1>6

\* The same, as the property says it.
LEMMA BytesAccounted ==
  ASSUME bufBytes' = ImageBytes(Queued' \cup Held')
  PROVE  ByteAccounting'
BY DEF ByteAccounting, Held, ImageBytes

-----------------------------------------------------------------------------
(* Every step is of one of these kinds *)

\* A native thread's step.
LEMMA IngestKind ==
  ASSUME RInv, Places, NEW c \in Callback, Ingest(c)
  PROVE  /\ NoRepeat(queue')
         /\ \/ Stays
            \/ \E e \in Event : Comes(e) \/ IsLost(e)
            \/ \E e \in Queued : IsOut(e)
<1>u. SInv /\ FInv /\ TypeOK /\ LockDiscipline /\ NoEarlySignal /\ SignalLast
  BY DEF RInv, SInv, TInv
<1>0. /\ queue \in Seq(Entry) /\ NoRepeat(queue) /\ CloseSignal \in Entry
      /\ cb \in [Callback -> CbPC] /\ Event \subseteq Entry /\ CloseSignal \notin Event
  BY <1>u, StreamAssumption DEF TypeOK, Entry, Places, StreamAssumption
<1>h. HandsStay
  <2>1. rd' = rd /\ hand' = hand
    BY DEF Ingest, RejectCallback, IngestBegin, IngestParsed, IngestUnusable, IngestEnd,
           EnqueueBegin, EnqueueTest, EnqueueEvict, EnqueuePut
  <2> QED BY <2>1 DEF HandsStay, Recording
<1>1. CASE \/ RejectCallback(c) \/ IngestBegin(c) \/ IngestParsed(c)
           \/ IngestUnusable(c) \/ IngestEnd(c) \/ EnqueueTest(c)
  <2>1. UNCHANGED <<queue, taken, dropped, bufBytes>>
    BY <1>1 DEF RejectCallback, IngestBegin, IngestParsed, IngestUnusable, IngestEnd, EnqueueTest, stream
  <2>2. Queued' = Queued
    BY <2>1 DEF Queued, Elems
  <2> QED BY <1>0, <1>h, <2>1, <2>2 DEF Stays
<1>n. ASSUME pending[c] # <<>>
      PROVE  Head(pending[c]) \in Event \ Seen /\ Head(pending[c]) \notin Queued
  BY <1>u, <1>n, NextIsFresh DEF Seen
<1>2. CASE EnqueueBegin(c)
  <2>1. /\ pending[c] # <<>> /\ queue' = queue /\ taken' = taken /\ bufBytes' = bufBytes
    BY <1>2 DEF EnqueueBegin
  <2>2. Queued' = Queued
    BY <2>1 DEF Queued, Elems
  <2>3. CASE ReturnsEarly(Head(pending[c]))
    <3>1. dropped' = dropped \cup {Head(pending[c])}
      BY <1>2, <2>3, Zenon DEF EnqueueBegin, Drop
    <3>2. IsLost(Head(pending[c])) /\ Head(pending[c]) \in Event
      BY <1>h, <1>n, <2>1, <2>2, <3>1 DEF IsLost
    <3> QED BY <1>0, <2>1, <3>2
  <2>4. CASE ~ReturnsEarly(Head(pending[c]))
    <3>1. dropped' = dropped
      BY <1>2, <2>4, Zenon DEF EnqueueBegin
    <3> QED BY <1>0, <1>h, <2>1, <2>2, <3>1 DEF Stays
  <2> QED BY <2>3, <2>4
<1>3. CASE EnqueueEvict(c)
  <2>1. cb[c] = "evict" /\ taken' = taken
    BY <1>3 DEF EnqueueEvict
  <2>2. CASE queue = <<>>
    <3>1. queue' = queue /\ dropped' = dropped /\ bufBytes' = bufBytes
      BY <1>3, <2>2 DEF EnqueueEvict
    <3>2. Queued' = Queued
      BY <3>1 DEF Queued, Elems
    <3> QED BY <1>0, <1>h, <2>1, <3>1, <3>2 DEF Stays
  <2>3. CASE queue # <<>>
    <3>1. /\ queue' = Tail(queue) /\ dropped' = dropped \cup {Head(queue)}
          /\ bufBytes' = bufBytes - Bytes[Head(queue)]
      BY <1>3, <2>3 DEF EnqueueEvict, Eviction, Drop
    <3>2. queue \in Seq(Event)
      BY <1>u, <2>1 DEF LockDiscipline, InEnqueue, NoEarlySignal
    <3>3. Head(queue) \in Event /\ Head(queue) # CloseSignal
      BY <1>0, <2>3, <3>2, HeadTail
    <3>4. /\ NoRepeat(Tail(queue)) /\ Head(queue) \in Queued
          /\ Elems(Tail(queue)) \ {CloseSignal} = Queued \ {Head(queue)}
      BY <1>0, <2>3, <3>3, LeavesQueue DEF Queued
    <3>5. Queued' = Queued \ {Head(queue)}
      BY <3>1, <3>4 DEF Queued, Elems
    <3>6. IsOut(Head(queue))
      BY <1>h, <2>1, <3>1, <3>4, <3>5 DEF IsOut
    <3> QED BY <3>1, <3>4, <3>6
  <2> QED BY <2>2, <2>3
<1>4. CASE EnqueuePut(c)
  <2>1. /\ cb[c] = "put" /\ queue' = Append(queue, Head(pending[c])) /\ dropped' = dropped
        /\ taken' = taken /\ bufBytes' = bufBytes + Bytes[Head(pending[c])]
    BY <1>4 DEF EnqueuePut
  <2>2. pending[c] # <<>>
    BY <1>u, <2>1 DEF LockDiscipline, InEnqueue
  <2>3. /\ Head(pending[c]) \in Event \ Seen /\ Head(pending[c]) \notin Queued
        /\ Head(pending[c]) \in Entry /\ Head(pending[c]) # CloseSignal
    BY <1>0, <1>n, <2>2
  <2>4. /\ NoRepeat(Append(queue, Head(pending[c])))
        /\ Elems(Append(queue, Head(pending[c]))) \ {CloseSignal} = Queued \cup ({Head(pending[c])} \ {CloseSignal})
    BY <1>0, <2>3, JoinsQueue DEF Queued
  <2>5. Queued' = Queued \cup {Head(pending[c])}
    BY <2>1, <2>3, <2>4 DEF Queued, Elems
  <2>6. Comes(Head(pending[c]))
    BY <1>h, <2>1, <2>3, <2>5 DEF Comes
  <2> QED BY <2>1, <2>3, <2>4, <2>6
<1> QED BY <1>1, <1>2, <1>3, <1>4 DEF Ingest

\* A reader's step.
LEMMA ReadKind ==
  ASSUME RInv, Places, NEW r \in Reader, Read(r)
  PROVE  /\ NoRepeat(queue')
         /\ \/ Stays
            \/ \E e \in Queued : IsTaken(e, r)
            \/ Recorded(r)
<1>u. TypeOK /\ SignalLast
  BY DEF RInv, SInv, TInv
<1>0. /\ queue \in Seq(Entry) /\ NoRepeat(queue) /\ CloseSignal \in Entry
      /\ rd \in [Reader -> RdPC] /\ hand \in [Reader -> Event \cup {CloseSignal}]
      /\ NoRepeat(<<>>) /\ <<>> \in Seq(Entry)
  BY <1>u, EmptySeq DEF TypeOK, Entry, Places, NoRepeat
<1>a. /\ NoRepeat(Append(queue, CloseSignal))
      /\ Elems(Append(queue, CloseSignal)) \ {CloseSignal} = Queued
  <2>1. CloseSignal \notin Elems(queue) \ {CloseSignal}
    OBVIOUS
  <2>2. /\ NoRepeat(Append(queue, CloseSignal))
        /\ Elems(Append(queue, CloseSignal)) \ {CloseSignal} = (Elems(queue) \ {CloseSignal}) \cup ({CloseSignal} \ {CloseSignal})
    BY <1>0, <2>1, JoinsQueue
  <2> QED BY <2>2 DEF Queued
<1>1. CASE GetBegin(r) \/ GetTimeout(r)
  <2>1. UNCHANGED <<queue, taken, dropped, bufBytes, hand>>
    BY <1>1 DEF GetBegin, GetTimeout, stream
  <2>2. Queued' = Queued
    BY <2>1 DEF Queued, Elems
  <2>3. rd[r] # "recording" /\ rd'[r] # "recording" /\ \A s \in Reader \ {r} : rd'[s] = rd[s]
    BY <1>0, <1>1 DEF GetBegin, GetTimeout
  <2>4. HandsStay
    BY <2>1, <2>3 DEF HandsStay, Recording
  <2> QED BY <1>0, <2>1, <2>2, <2>4 DEF Stays
<1>2. CASE GetTake(r) \/ PollTake(r)
  <2>1. /\ queue # <<>> /\ queue' = Tail(queue) /\ dropped' = dropped /\ bufBytes' = bufBytes
        /\ rd[r] # "recording"
    BY <1>2 DEF GetTake, PollTake, TakeOldest
  <2>2. /\ NoRepeat(Tail(queue)) /\ Head(queue) \in Entry
        /\ Head(queue) = CloseSignal => Elems(Tail(queue)) \ {CloseSignal} = Queued
        /\ Head(queue) # CloseSignal =>
              Head(queue) \in Queued /\ Elems(Tail(queue)) \ {CloseSignal} = Queued \ {Head(queue)}
    BY <1>0, <2>1, LeavesQueue DEF Queued
  <2>3. CASE Head(queue) = CloseSignal
    <3>1. /\ UNCHANGED <<taken, hand>>
          /\ \E p \in {"stopping", "polled"} : rd' = [rd EXCEPT ![r] = p]
      BY <1>2, <2>3 DEF GetTake, PollTake, TakeOldest, IsSignal
    <3>2. Queued' = Queued
      BY <2>1, <2>2, <2>3 DEF Queued, Elems
    <3>3. HandsStay
      BY <1>0, <2>1, <3>1 DEF HandsStay, Recording
    <3> QED BY <2>1, <2>2, <3>1, <3>2, <3>3 DEF Stays
  <2>4. CASE Head(queue) # CloseSignal
    <3>1. /\ rd' = [rd EXCEPT ![r] = "recording"]
          /\ hand' = [hand EXCEPT ![r] = Head(queue)]
          /\ taken' = taken \cup {Head(queue)}
      BY <1>2, <2>4 DEF GetTake, PollTake, TakeOldest, IsSignal
    <3>2. Queued' = Queued \ {Head(queue)}
      BY <2>1, <2>2, <2>4 DEF Queued, Elems
    <3>3. r \notin Recording /\ Recording' = Recording \cup {r}
      BY <1>0, <2>1, <3>1 DEF Recording
    <3>4. hand'[r] = Head(queue) /\ \A s \in Recording : hand'[s] = hand[s]
      BY <1>0, <3>1, <3>3 DEF Recording
    <3>5. IsTaken(Head(queue), r) /\ Head(queue) \in Queued
      BY <2>1, <2>2, <2>4, <3>1, <3>2, <3>3, <3>4 DEF IsTaken
    <3> QED BY <2>1, <2>2, <3>5
  <2> QED BY <2>3, <2>4
<1>3. CASE RecordDequeue(r)
  <2>1. /\ queue' = queue \/ (queue = <<>> /\ queue' = <<CloseSignal>>)
        /\ UNCHANGED <<taken, dropped>>
        /\ rd[r] = "recording" /\ rd' = [rd EXCEPT ![r] = "idle"]
        /\ hand' = [hand EXCEPT ![r] = CloseSignal] /\ bufBytes' = BytesReleased(hand[r])
    BY <1>3 DEF RecordDequeue, OwesSignal
  <2>2. queue' = queue \/ queue' = Append(queue, CloseSignal)
    <3>1. CASE queue = <<>> /\ queue' = <<CloseSignal>>
      BY <3>1
    <3> QED BY <2>1, <3>1
  <2>3. NoRepeat(queue') /\ Queued' = Queued
    <3>1. CASE queue' = queue
      BY <1>0, <3>1 DEF Queued, Elems
    <3>2. CASE queue' = Append(queue, CloseSignal)
      BY <1>a, <3>2 DEF Queued, Elems
    <3> QED BY <2>2, <3>1, <3>2
  <2>4. r \in Recording /\ Recording' = Recording \ {r} /\ \A s \in Recording \ {r} : hand'[s] = hand[s]
    BY <1>0, <2>1 DEF Recording
  <2> QED BY <2>1, <2>3, <2>4 DEF Recorded
<1>4. CASE RequeueSignal(r)
  <2>1. /\ queue' = queue \/ queue' = Append(queue, CloseSignal)
        /\ UNCHANGED <<taken, dropped, bufBytes, hand>>
        /\ rd[r] # "recording" /\ \E p \in {"ended", "idle"} : rd' = [rd EXCEPT ![r] = p]
    BY <1>4 DEF RequeueSignal, PutBack, PutSignal
  <2>3. NoRepeat(queue') /\ Queued' = Queued
    <3>1. CASE queue' = queue
      BY <1>0, <3>1 DEF Queued, Elems
    <3>2. CASE queue' = Append(queue, CloseSignal)
      BY <1>a, <3>2 DEF Queued, Elems
    <3> QED BY <2>1, <3>1, <3>2
  <2>4. HandsStay
    BY <1>0, <2>1 DEF HandsStay, Recording
  <2> QED BY <2>1, <2>3, <2>4 DEF Stays
<1> QED BY <1>1, <1>2, <1>3, <1>4 DEF Read

\* A closer's step.
LEMMA CloseKind ==
  ASSUME RInv, Places, NEW k \in Closer, Close(k)
  PROVE  NoRepeat(queue') /\ Stays
<1>u. TypeOK
  BY DEF RInv, SInv, TInv
<1>0. queue \in Seq(Entry) /\ NoRepeat(queue) /\ CloseSignal \in Entry
  BY <1>u DEF TypeOK, Entry, Places
<1>1. /\ queue' = queue \/ queue' = Append(queue, CloseSignal)
      /\ UNCHANGED <<taken, dropped, bufBytes, hand, rd>>
  BY DEF Close, CloseAgain, CloseBegin, CloserFails, CloseEnd, PutSignal, stream
<1>2. CloseSignal \notin Elems(queue) \ {CloseSignal}
  OBVIOUS
<1>3. /\ NoRepeat(Append(queue, CloseSignal))
      /\ Elems(Append(queue, CloseSignal)) \ {CloseSignal} = (Elems(queue) \ {CloseSignal}) \cup ({CloseSignal} \ {CloseSignal})
  BY <1>0, <1>2, JoinsQueue
<1>4. NoRepeat(queue') /\ Queued' = Queued
  <2>1. CASE queue' = queue
    BY <1>0, <2>1 DEF Queued, Elems
  <2>2. CASE queue' = Append(queue, CloseSignal)
    BY <1>3, <2>2 DEF Queued, Elems
  <2> QED BY <1>1, <2>1, <2>2
<1>5. HandsStay
  BY <1>1 DEF HandsStay, Recording
<1> QED BY <1>1, <1>4, <1>5 DEF Stays


\* A step that lets the queue's images be, or lessens them, keeps what fits.
LEMMA FitsStays ==
  ASSUME WorkFits, PutFits, ImageBytes(Queued') <= ImageBytes(Queued), ImageBytes(Queued') \in Nat,
         ImageBytes(Queued) \in Nat, TypeOK, LockDiscipline, cb' = cb, pending' = pending
  PROVE  WorkFits' /\ PutFits'
<1>1. WorkFits'
  BY DEF WorkFits, InEnqueue
<1>2. ASSUME NEW c \in Callback, cb'[c] = "put" PROVE ImageBytes(Queued') + Bytes[Head(pending'[c])] <= MaxBytes
  <2>1. cb[c] = "put" /\ pending'[c] = pending[c] /\ pending[c] # <<>>
    BY <1>2 DEF LockDiscipline, InEnqueue
  <2>2. ImageBytes(Queued) + Bytes[Head(pending[c])] <= MaxBytes
    BY <2>1 DEF PutFits
  <2>3. pending[c] \in Seq(Event)
    BY DEF TypeOK
  <2>4. Bytes[Head(pending[c])] \in Nat /\ MaxBytes \in Nat
    BY <2>1, <2>3, HeadTail, StreamAssumption DEF StreamAssumption
  <2> QED BY <2>1, <2>2, <2>4
<1>3. PutFits'
  BY <1>2 DEF PutFits, ImageBytes
<1> QED BY <1>1, <1>3

\* With the lock free nothing is about to be put.
LEMMA FitsFree ==
  ASSUME \A d \in Callback : ~InEnqueue(d)'
  PROVE  WorkFits' /\ PutFits'
BY DEF WorkFits, PutFits, InEnqueue

\* The images in the queue, before and after.
LEMMA SumsOfQueue ==
  ASSUME TypeOK, Places, TypeOK', Places'
  PROVE  /\ ImageBytes(Queued) \in Nat /\ ImageBytes(Queued') \in Nat
         /\ Queued' \subseteq Queued => ImageBytes(Queued') <= ImageBytes(Queued)
<1>1. Queued \in SUBSET Event /\ IsFiniteSet(Queued)
  BY Sets
<1>2. Queued' \in SUBSET Event /\ IsFiniteSet(Queued')
  <2>1. (Queued \in SUBSET Event /\ IsFiniteSet(Queued))'
    BY Sets, PTL
  <2> QED BY <2>1
<1> QED BY <1>1, <1>2, SumType, SumOfPart

\* A native thread puts only what fits.
LEMMA IngestFits ==
  ASSUME RInv, Places, Limits, RInv', Places', NEW c \in Callback, Ingest(c)
  PROVE  WorkFits' /\ PutFits'
<1>u. SInv /\ TypeOK /\ LockDiscipline /\ TypeOK' /\ WorkFits /\ PutFits /\ ByteAccounting
  BY DEF RInv, SInv, TInv, Limits
<1>0. /\ cb \in [Callback -> CbPC] /\ pending \in [Callback -> Seq(Event)]
      /\ ImageBytes(Queued) \in Nat /\ ImageBytes(Queued') \in Nat /\ MaxBytes \in Nat
  BY <1>u, SumsOfQueue, StreamAssumption DEF TypeOK, StreamAssumption
<1>a. ASSUME NEW d \in Callback, pending[d] # <<>> PROVE Bytes[Head(pending[d])] \in Nat
  <2>1. pending[d] \in Seq(Event)
    BY <1>0
  <2> QED BY <1>a, <2>1, HeadTail, StreamAssumption DEF StreamAssumption
<1>1. CASE RejectCallback(c) \/ IngestBegin(c) \/ IngestUnusable(c) \/ IngestEnd(c)
  <2>1. LockFree /\ cb' \in {[cb EXCEPT ![c] = "done"], [cb EXCEPT ![c] = "parse"]}
    BY <1>1, Zenon DEF RejectCallback, IngestBegin, IngestUnusable, IngestEnd
  <2>2. \A d \in Callback : ~InEnqueue(d)'
    BY <1>0, <2>1 DEF LockFree, InEnqueue
  <2> QED BY <2>2, FitsFree
<1>2. CASE IngestParsed(c)
  <2>1. /\ cb' = [cb EXCEPT ![c] = "enqueue"] /\ queue' = queue
        /\ pending' = [pending EXCEPT ![c] = EventsOf[c]]
    BY <1>2 DEF IngestParsed, stream
  <2>2. cb'[c] = "enqueue" /\ \A d \in Callback \ {c} : cb'[d] = cb[d] /\ pending'[d] = pending[d]
    BY <1>0, <2>1
  <2>3. Queued' = Queued
    BY <2>1 DEF Queued, Elems
  <2>4. WorkFits'
    BY <1>u, <2>2 DEF WorkFits, InEnqueue
  <2>5. \A d \in Callback : cb'[d] = "put" => ImageBytes(Queued') + Bytes[Head(pending'[d])] <= MaxBytes
    BY <1>u, <2>2, <2>3 DEF PutFits
  <2>6. PutFits'
    BY <2>5 DEF PutFits, ImageBytes
  <2> QED BY <2>4, <2>6
<1>3. CASE EnqueueBegin(c)
  <2>1. LockFree
    BY <1>3 DEF EnqueueBegin
  <2>2. CASE ReturnsEarly(Head(pending[c]))
    <3>1. cb' = [cb EXCEPT ![c] = "enqueue"]
      BY <1>3, <2>2, Zenon DEF EnqueueBegin, Leave
    <3>2. \A d \in Callback : ~InEnqueue(d)'
      BY <1>0, <2>1, <3>1 DEF LockFree, InEnqueue
    <3> QED BY <3>2, FitsFree
  <2>3. CASE ~ReturnsEarly(Head(pending[c]))
    <3>1. cb' = [cb EXCEPT ![c] = "test"] /\ pending' = pending /\ pending[c] # <<>>
      BY <1>3, <2>3, Zenon DEF EnqueueBegin
    <3>2. \A d \in Callback : cb'[d] # "put" /\ (InEnqueue(d)' => d = c)
      BY <1>0, <2>1, <3>1 DEF LockFree, InEnqueue
    <3>3. Bytes[Head(pending[c])] <= MaxBytes
      <4>1. ~(Bytes[Head(pending[c])] > MaxBytes)
        BY <2>3 DEF ReturnsEarly
      <4> QED BY <1>0, <1>a, <3>1, <4>1
    <3> QED BY <3>1, <3>2, <3>3 DEF WorkFits, PutFits
  <2> QED BY <2>2, <2>3
<1>4. CASE EnqueueTest(c) \/ EnqueueEvict(c) \/ EnqueuePut(c)
  <2>1. InEnqueue(c) /\ pending[c] # <<>> /\ \A d \in Callback \ {c} : ~InEnqueue(d)
    BY <1>4, <1>u DEF EnqueueTest, EnqueueEvict, EnqueuePut, InEnqueue, LockDiscipline
  <2>2. Bytes[Head(pending[c])] \in Nat /\ Bytes[Head(pending[c])] <= MaxBytes
    BY <1>u, <1>a, <2>1 DEF WorkFits
  <2>3. CASE EnqueuePut(c)
    <3>1. cb' = [cb EXCEPT ![c] = "enqueue"]
      BY <2>3 DEF EnqueuePut, Leave
    <3>2. \A d \in Callback : ~InEnqueue(d)'
      BY <1>0, <2>1, <3>1 DEF InEnqueue
    <3> QED BY <3>2, FitsFree
  <2>4. ASSUME pending' = pending, \A d \in Callback \ {c} : ~InEnqueue(d)',
               cb'[c] = "put" => ImageBytes(Queued') + Bytes[Head(pending[c])] <= MaxBytes
        PROVE  WorkFits' /\ PutFits'
    <3>1. WorkFits'
      BY <2>2, <2>4 DEF WorkFits, InEnqueue
    <3>2. \A d \in Callback : cb'[d] = "put" => ImageBytes(Queued') + Bytes[Head(pending'[d])] <= MaxBytes
      BY <2>4 DEF InEnqueue
    <3>3. PutFits'
      BY <3>2 DEF PutFits, ImageBytes
    <3> QED BY <3>1, <3>3
  <2>5. CASE EnqueueTest(c)
    <3>1. /\ cb' = [cb EXCEPT ![c] = IF OverLimit(Head(pending[c])) THEN "evict" ELSE "put"]
          /\ pending' = pending /\ queue' = queue
      BY <2>5 DEF EnqueueTest, stream
    <3>2. \A d \in Callback \ {c} : ~InEnqueue(d)'
      BY <1>0, <2>1, <3>1 DEF InEnqueue
    <3>3. Queued' = Queued
      BY <3>1 DEF Queued, Elems
    <3>4. ASSUME cb'[c] = "put" PROVE ImageBytes(Queued') + Bytes[Head(pending[c])] <= MaxBytes
      <4>1. ~OverLimit(Head(pending[c]))
        BY <1>0, <3>1, <3>4
      <4>2. ~(bufBytes + Bytes[Head(pending[c])] > MaxBytes)
        BY <4>1 DEF OverLimit
      <4>3. bufBytes = ImageBytes(Queued \cup Held) /\ bufBytes \in Int
        BY <1>u DEF ByteAccounting, Held, TypeOK
      <4>4. ImageBytes(Queued) <= ImageBytes(Queued \cup Held)
        <5>1. IsFiniteSet(Queued \cup Held) /\ Queued \cup Held \in SUBSET Event
          BY <1>u, Sets
        <5>2. Queued \in SUBSET (Queued \cup Held)
          OBVIOUS
        <5> QED BY <5>1, <5>2, SumOfPart
      <4>5. ImageBytes(Queued) <= bufBytes
        BY <4>3, <4>4
      <4>6. ImageBytes(Queued) + Bytes[Head(pending[c])] <= MaxBytes
        BY <1>0, <2>2, <4>2, <4>3, <4>5
      <4> QED BY <3>3, <4>6
    <3> QED BY <2>4, <3>1, <3>2, <3>4
  <2>6. CASE EnqueueEvict(c)
    <3>1. cb' \in {[cb EXCEPT ![c] = "test"], [cb EXCEPT ![c] = "put"]} /\ pending' = pending
      BY <2>6, Zenon DEF EnqueueEvict, AfterEmpty
    <3>2. \A d \in Callback \ {c} : ~InEnqueue(d)'
      BY <1>0, <2>1, <3>1 DEF InEnqueue
    <3>3. ASSUME cb'[c] = "put" PROVE ImageBytes(Queued') + Bytes[Head(pending[c])] <= MaxBytes
      <4>1. CASE queue = <<>>
        <5>1. queue' = <<>>
          BY <2>6, <4>1 DEF EnqueueEvict
        <5>2. Queued' = {}
          BY <5>1 DEF Queued, Elems
        <5>3. ImageBytes(Queued') = 0
          BY <5>2, SumOfNone
        <5> QED BY <1>0, <2>2, <5>3
      <4>2. CASE queue # <<>>
        <5>1. cb' = [cb EXCEPT ![c] = "test"]
          BY <2>6, <4>2 DEF EnqueueEvict
        <5> QED BY <1>0, <3>3, <5>1
      <4> QED BY <4>1, <4>2
    <3> QED BY <2>4, <3>1, <3>2, <3>3
  <2> QED BY <1>4, <2>3, <2>5, <2>6
<1> QED BY <1>1, <1>2, <1>3, <1>4 DEF Ingest

\* A native thread never overfills the queue.
LEMMA IngestBounded ==
  ASSUME RInv, Places, Limits, RInv', Places', NEW c \in Callback, Ingest(c)
  PROVE  QueuedBytesBounded'
<1>u. TypeOK /\ LockDiscipline /\ TypeOK' /\ PutFits /\ QueuedBytesBounded
  BY DEF RInv, SInv, TInv, Limits
<1>0. /\ ImageBytes(Queued) \in Nat /\ ImageBytes(Queued') \in Nat /\ MaxBytes \in Nat
      /\ ImageBytes(Queued) <= MaxBytes
      /\ Queued' \subseteq Queued => ImageBytes(Queued') <= ImageBytes(Queued)
  BY <1>u, SumsOfQueue, StreamAssumption DEF StreamAssumption, QueuedBytesBounded
<1>1. ImageBytes(Queued') <= MaxBytes
  <2>1. CASE Queued' \subseteq Queued
    BY <1>0, <2>1
  <2>2. CASE EnqueuePut(c)
    <3>1. /\ cb[c] = "put" /\ queue' = Append(queue, Head(pending[c]))
      BY <2>2 DEF EnqueuePut
    <3>2. pending[c] # <<>> /\ pending[c] \in Seq(Event)
      BY <1>u, <3>1 DEF LockDiscipline, InEnqueue, TypeOK
    <3>3. Head(pending[c]) \in Event /\ Head(pending[c]) # CloseSignal
      BY <3>2, HeadTail, StreamAssumption DEF StreamAssumption
    <3>4. Elems(queue') = Elems(queue) \cup {Head(pending[c])}
      <4>1. queue \in Seq(Entry) /\ Head(pending[c]) \in Entry
        BY <1>u, <3>3 DEF TypeOK, Entry
      <4> QED BY <3>1, <4>1, ElemsAppend
    <3>5. Queued' = Queued \cup {Head(pending[c])}
      BY <3>3, <3>4 DEF Queued, Elems
    <3>6. ImageBytes(Queued) + Bytes[Head(pending[c])] <= MaxBytes
      BY <1>u, <3>1 DEF PutFits
    <3>7. Head(pending[c]) \in Queued => Queued' \subseteq Queued
      BY <3>5
    <3>8. ASSUME Head(pending[c]) \notin Queued
          PROVE  ImageBytes(Queued') = ImageBytes(Queued) + Bytes[Head(pending[c])]
      <4>1. Queued \in SUBSET Event /\ IsFiniteSet(Queued)
        BY <1>u, Sets
      <4>2. ImageBytes(Queued \cup {Head(pending[c])}) = ImageBytes(Queued) + Bytes[Head(pending[c])]
        BY <3>3, <3>8, <4>1, SumWith
      <4> QED BY <3>5, <4>2
    <3> QED BY <2>1, <3>6, <3>7, <3>8
  <2>3. CASE ~EnqueuePut(c)
    <3>1. queue' = queue \/ (queue # <<>> /\ queue' = Tail(queue))
      BY <2>3 DEF Ingest, RejectCallback, IngestBegin, IngestParsed, IngestUnusable, IngestEnd, EnqueueBegin,
                  EnqueueTest, EnqueueEvict, stream
    <3>2. queue # <<>> => Elems(queue) = {Head(queue)} \cup Elems(Tail(queue))
      BY <1>u, ElemsTail DEF TypeOK
    <3>3. Queued' \subseteq Queued
      BY <3>1, <3>2 DEF Queued, Elems
    <3> QED BY <2>1, <3>3
  <2> QED BY <2>2, <2>3
<1> QED BY <1>1 DEF QueuedBytesBounded, ImageBytes

\* A reader or a closer leaves the images in the queue or lessens them.
LEMMA OthersFit ==
  ASSUME RInv, Places, Limits, RInv', Places', pending' = pending, cb' = cb, Queued' \subseteq Queued
  PROVE  WorkFits' /\ PutFits' /\ QueuedBytesBounded'
<1>u. TypeOK /\ LockDiscipline /\ TypeOK' /\ WorkFits /\ PutFits /\ QueuedBytesBounded
  BY DEF RInv, SInv, TInv, Limits
<1>0. /\ ImageBytes(Queued) \in Nat /\ ImageBytes(Queued') \in Nat /\ MaxBytes \in Nat
      /\ ImageBytes(Queued) <= MaxBytes /\ ImageBytes(Queued') <= ImageBytes(Queued)
  BY <1>u, SumsOfQueue, StreamAssumption DEF StreamAssumption, QueuedBytesBounded
<1>1. WorkFits' /\ PutFits'
  BY <1>0, <1>u, FitsStays
<1>2. ImageBytes(Queued') <= MaxBytes
  BY <1>0
<1> QED BY <1>1, <1>2 DEF QueuedBytesBounded, ImageBytes

\* The bytes of the stream: its inductive invariant.
BInv == RInv /\ Places /\ Limits

\* The books of the initial state are empty.
LEMMA BInvInit == Init => BInv
<1> SUFFICES ASSUME Init PROVE BInv
  OBVIOUS
<1>1. RInv
  BY RInvInit
<1>2. /\ queue = <<>> /\ taken = {} /\ dropped = {} /\ bufBytes = 0
      /\ \A r \in Reader : rd[r] = "idle"
      /\ \A c \in Callback : cb[c] = "new"
  BY DEF Init
<1>3. Queued = {} /\ Recording = {} /\ Seen = {}
  BY <1>2 DEF Queued, Elems, Recording, Seen
<1>4. Places
  <2>1. NoRepeat(queue) /\ Apart /\ Hands
    BY <1>2, <1>3 DEF NoRepeat, Apart, Hands
  <2>2. IsFiniteSet(Seen)
    BY <1>3, FS_EmptySet
  <2> QED BY <2>1, <2>2 DEF Places
<1>5. Limits
  <2>1. Queued \cup {hand[r] : r \in Recording} = {}
    BY <1>3
  <2>2. ByteAccounting
    BY <1>2, <2>1, SumOfNone DEF ByteAccounting
  <2>3. QueuedBytesBounded
    BY <1>3, SumOfNone, StreamAssumption DEF QueuedBytesBounded, StreamAssumption
  <2>4. WorkFits /\ PutFits
    BY <1>2 DEF WorkFits, PutFits, InEnqueue
  <2> QED BY <2>2, <2>3, <2>4 DEF Limits
<1> QED BY <1>1, <1>4, <1>5 DEF BInv

\* Every step keeps the places and the bytes.
LEMMA BInvStep == BInv /\ [Next]_vars => BInv'
<1> SUFFICES ASSUME BInv, [Next]_vars PROVE BInv'
  OBVIOUS
<1>0. RInv /\ RInv' /\ Places /\ Limits /\ ByteAccounting /\ TypeOK
  BY RInvStep DEF BInv, RInv, SInv, TInv, Limits
<1>1. CASE UNCHANGED vars
  <2>1. NoRepeat(queue') /\ Stays /\ cb' = cb /\ pending' = pending
    BY <1>0, <1>1 DEF Stays, HandsStay, Queued, Elems, Recording, Places, vars, stream, callers
  <2>2. Places'
    BY <1>0, <2>1, PlacesKept
  <2>3. ByteAccounting'
    BY <1>0, <2>1, BytesKept, BytesAccounted
  <2>4. WorkFits' /\ PutFits' /\ QueuedBytesBounded'
    BY <1>0, <2>1, <2>2, OthersFit DEF Stays
  <2> QED BY <1>0, <2>2, <2>3, <2>4 DEF BInv, Limits
<1>2. CASE Terminated
  BY <1>1, <1>2 DEF Terminated
<1>3. ASSUME NEW c \in Callback, Ingest(c) PROVE BInv'
  <2>1. /\ NoRepeat(queue')
        /\ Stays \/ (\E e \in Event : Comes(e) \/ IsLost(e)) \/ \E e \in Queued : IsOut(e)
    BY <1>0, <1>3, IngestKind
  <2>2. Places'
    BY <1>0, <2>1, PlacesKept
  <2>3. ByteAccounting'
    BY <1>0, <2>1, BytesKept, BytesAccounted
  <2>4. WorkFits' /\ PutFits'
    BY <1>0, <1>3, <2>2, IngestFits
  <2>5. QueuedBytesBounded'
    BY <1>0, <1>3, <2>2, IngestBounded
  <2> QED BY <1>0, <2>2, <2>3, <2>4, <2>5 DEF BInv, Limits
<1>4. ASSUME NEW r \in Reader, Read(r) PROVE BInv'
  <2>1. NoRepeat(queue') /\ (Stays \/ (\E e \in Queued : IsTaken(e, r)) \/ Recorded(r))
    BY <1>0, <1>4, ReadKind
  <2>2. Places'
    BY <1>0, <2>1, PlacesKept
  <2>3. ByteAccounting'
    BY <1>0, <2>1, BytesKept, BytesAccounted
  <2>4. cb' = cb /\ pending' = pending
    BY <1>0, <1>4, ReadKeepsEvents DEF RInv, KeepsEvents
  <2>5. Queued' \subseteq Queued
    BY <2>1 DEF Stays, IsTaken, Recorded
  <2>6. WorkFits' /\ PutFits' /\ QueuedBytesBounded'
    BY <1>0, <2>2, <2>4, <2>5, OthersFit
  <2> QED BY <1>0, <2>2, <2>3, <2>6 DEF BInv, Limits
<1>5. ASSUME NEW k \in Closer, Close(k) PROVE BInv'
  <2>1. NoRepeat(queue') /\ Stays
    BY <1>0, <1>5, CloseKind
  <2>2. Places'
    BY <1>0, <2>1, PlacesKept
  <2>3. ByteAccounting'
    BY <1>0, <2>1, BytesKept, BytesAccounted
  <2>4. cb' = cb /\ pending' = pending
    BY <1>0, <1>5, CloseKeepsEvents DEF RInv, KeepsEvents
  <2>5. WorkFits' /\ PutFits' /\ QueuedBytesBounded'
    BY <1>0, <2>1, <2>2, <2>4, OthersFit DEF Stays
  <2> QED BY <1>0, <2>2, <2>3, <2>5 DEF BInv, Limits
<1> QED BY <1>1, <1>2, <1>3, <1>4, <1>5 DEF Next


-----------------------------------------------------------------------------
(* The events that were parsed *)

\* The seen events of the callbacks that are over.
Finished == {e \in Seen : \E c \in Callback : cb[c] = "done" /\ e \in Elems(EventsOf[c])}

\* A seen event is of a callback that enqueues or is over.
Origin == \A e \in Seen : \E c \in Callback : cb[c] \in Working \cup {"done"} /\ e \in Elems(EventsOf[c])

\* What a callback has behind it has reached the stream.
AllBehind == \A c \in Callback : cb[c] \in Working => \A i \in 1..Behind(c) : EventsOf[c][i] \in Seen

\* The parsed events are the seen ones of the callbacks that are over.
ParsedCount == count["parsed"] = Cardinality(Finished)

\* The counts of the stream.
CInv == Origin /\ AllBehind /\ ParsedCount

\* A payload of distinct events has as many as it is long.
LEMMA PayloadSize ==
  ASSUME NEW c \in Callback
  PROVE  /\ IsFiniteSet(Elems(EventsOf[c])) /\ Cardinality(Elems(EventsOf[c])) = Len(EventsOf[c])
         /\ Len(EventsOf[c]) \in Nat /\ DOMAIN EventsOf[c] = 1..Len(EventsOf[c])
<1> DEFINE s == EventsOf[c]
           n == Len(EventsOf[c])
<1>1. s \in Seq(Event) /\ n \in Nat /\ DOMAIN s = 1..n /\ s \in [1..n -> Event]
  BY StreamAssumption, LenProperties DEF StreamAssumption
<1>2. s \in Bijection(1..n, Elems(s))
  <2>1. \A i, j \in 1..n : s[i] = s[j] => i = j
    BY <1>1, DistinctEvents
  <2>2. Elems(s) = {s[i] : i \in 1..n}
    BY <1>1 DEF Elems
  <2>3. s \in [1..n -> Elems(s)]
    <3> HIDE DEF s, n
    <3> QED BY <1>1, <2>2
  <2> HIDE DEF s, n
  <2> QED BY <2>1, <2>2, <2>3 DEF Bijection, Injection, Surjection, IsInjective
<1>3. ExistsBijection(1..n, Elems(s))
  <2> HIDE DEF s, n
  <2> QED BY <1>2 DEF ExistsBijection
<1>4. Cardinality(Elems(s)) = n
  <2> HIDE DEF s, n
  <2> QED BY <1>1, <1>3, FS_CountingElements
<1>5. IsFiniteSet(Elems(s))
  <2> HIDE DEF s, n
  <2>1. IsFiniteSet(1..n)
    BY <1>1, FS_Interval
  <2> QED BY <1>3, <2>1, FS_Bijection
<1> QED BY <1>1, <1>4, <1>5

\* No event is of two payloads.
LEMMA OnePayload ==
  ASSUME NEW c \in Callback, NEW d \in Callback, NEW e \in Elems(EventsOf[c]), e \in Elems(EventsOf[d])
  PROVE  c = d
<1>1. PICK i \in DOMAIN EventsOf[c] : EventsOf[c][i] = e
  BY DEF Elems
<1>2. PICK j \in DOMAIN EventsOf[d] : EventsOf[d][j] = e
  BY DEF Elems
<1> QED BY <1>1, <1>2, DistinctEvents

\* Only the last section of ingest counts parsed events.
LEMMA IngestCounts ==
  ASSUME TypeOK, NEW c \in Callback, Ingest(c)
  PROVE  /\ cb[c] # "done"
         /\ \/ /\ cb[c] = "enqueue" /\ pending[c] = <<>> /\ cb'[c] = "done"
               /\ count'["parsed"] = count["parsed"] + Len(EventsOf[c])
            \/ /\ count'["parsed"] = count["parsed"]
               /\ cb'[c] = "done" => cb[c] \in {"new", "parse"}
<1>0. cb \in [Callback -> CbPC] /\ count \in [Counter -> Nat] /\ "parsed" \in Counter
  BY DEF TypeOK, Counter
<1>1. CASE RejectCallback(c)
  BY <1>0, <1>1 DEF RejectCallback, Tick
<1>2. CASE IngestBegin(c)
  <2>1. cb[c] = "new" /\ (count' = count \/ count' = [count EXCEPT !["received"] = @ + 1])
    BY <1>2, Zenon DEF IngestBegin, Tick
  <2> QED BY <1>0, <2>1
<1>3. CASE IngestUnusable(c)
  <2>1. cb[c] = "parse" /\ cb' = [cb EXCEPT ![c] = "done"]
    BY <1>3 DEF IngestUnusable
  <2>2. PICK k \in {"malformed", "ignored"} : count' = [count EXCEPT ![k] = @ + 1]
    BY <1>3 DEF IngestUnusable, Tick
  <2> QED BY <1>0, <2>1, <2>2
<1>4. CASE IngestEnd(c)
  BY <1>0, <1>4 DEF IngestEnd
<1>5. CASE IngestParsed(c) \/ EnqueueTest(c)
  <2>1. /\ cb[c] \in {"parse", "test"} /\ count' = count
        /\ \E p \in {"enqueue", "evict", "put"} : cb' = [cb EXCEPT ![c] = p]
    BY <1>5 DEF IngestParsed, EnqueueTest, stream
  <2> QED BY <1>0, <2>1
<1>6. CASE EnqueueBegin(c)
  <2>1. cb[c] = "enqueue" /\ count' = count
    BY <1>6 DEF EnqueueBegin
  <2>2. cb' = [cb EXCEPT ![c] = "enqueue"] \/ cb' = [cb EXCEPT ![c] = "test"]
    BY <1>6, Zenon DEF EnqueueBegin, Leave
  <2> QED BY <1>0, <2>1, <2>2
<1>7. CASE EnqueueEvict(c)
  <2>1. cb[c] = "evict" /\ count' = count
    BY <1>7 DEF EnqueueEvict
  <2>2. cb' = [cb EXCEPT ![c] = "put"] \/ cb' = [cb EXCEPT ![c] = "test"]
    BY <1>7, Zenon DEF EnqueueEvict, AfterEmpty
  <2> QED BY <1>0, <2>1, <2>2
<1>8. CASE EnqueuePut(c)
  BY <1>0, <1>8 DEF EnqueuePut, Leave
<1> QED BY <1>1, <1>2, <1>3, <1>4, <1>5, <1>6, <1>7, <1>8 DEF Ingest

\* The same set of finished events, the same count.
LEMMA CountStays ==
  ASSUME ParsedCount, count'["parsed"] = count["parsed"], Finished' = Finished
  PROVE  ParsedCount'
BY DEF ParsedCount

\* A step of a native thread keeps the count.
LEMMA CInvIngest ==
  ASSUME RInv, Places, CInv, NEW c \in Callback, Ingest(c)
  PROVE  CInv'
<1>0. /\ SInv /\ TypeOK /\ Rest(c) /\ Ahead(c) /\ Origin /\ AllBehind /\ ParsedCount
      /\ pending[c] \in Seq(Event) /\ IsFiniteSet(Seen)
      /\ \A d \in Callback : DOMAIN EventsOf[d] = 1..Len(EventsOf[d])
  BY PayloadSize DEF RInv, FInv, SInv, TInv, CInv, TypeOK, Places
<1>1. Passes(c) \/ Advances(c)
  BY <1>0, IngestPasses
<1>2. cb[c] # "done"
  BY <1>0, IngestCounts
<1>3. \A d \in Callback \ {c} : cb'[d] = cb[d] /\ pending'[d] = pending[d]
  BY <1>1 DEF Passes, Advances, Elsewhere
<1>4. \A d \in Callback \ {c} : Behind(d)' = Behind(d)
  BY <1>3 DEF Behind
<1>5. Finished' = {e \in Seen' : \E d \in Callback : cb'[d] = "done" /\ e \in Elems(EventsOf[d])}
  BY DEF Finished, Elems
<1>6. CASE Passes(c)
  <2>1. /\ cb[c] \in Working /\ cb'[c] \in Working /\ pending[c] # <<>> /\ pending'[c] = Tail(pending[c])
        /\ Seen' = Seen \cup {Head(pending[c])}
    BY <1>6 DEF Passes
  <2>2. /\ Behind(c) \in Nat /\ Behind(c) + 1 \in 1..Len(EventsOf[c])
        /\ Head(pending[c]) = EventsOf[c][Behind(c) + 1]
        /\ Len(Tail(pending[c])) = Len(pending[c]) - 1
        /\ Len(pending[c]) \in Nat \ {0} /\ Len(EventsOf[c]) \in Nat
    BY <1>0, <2>1, NextEvent
  <2>3. Head(pending[c]) \in Elems(EventsOf[c])
    BY <1>0, <2>2 DEF Elems
  <2>4. Behind(c)' = Behind(c) + 1
    <3>1. Behind(c) = Len(EventsOf[c]) - Len(pending[c])
      BY <2>1 DEF Behind, Working
    <3>2. Behind(c)' = Len(EventsOf[c]) - Len(pending'[c])
      BY <2>1 DEF Behind, Working
    <3>3. Len(pending'[c]) = Len(pending[c]) - 1
      BY <2>1, <2>2
    <3>4. Len(pending[c]) \in Nat /\ Len(EventsOf[c]) \in Nat
      BY <2>2
    <3> QED BY <3>1, <3>2, <3>3, <3>4
  <2>5. Origin'
    <3>1. \A e \in Seen : \E d \in Callback : cb'[d] \in Working \cup {"done"} /\ e \in Elems(EventsOf[d])
      BY <1>0, <1>2, <1>3, <2>1 DEF Origin
    <3>2. \A e \in Seen' : \E d \in Callback : cb'[d] \in Working \cup {"done"} /\ e \in Elems(EventsOf[d])
      BY <2>1, <2>3, <3>1
    <3> QED BY <3>2 DEF Origin, Elems
  <2>6. AllBehind'
    <3>1. ASSUME NEW d \in Callback, cb'[d] \in Working, NEW i \in 1..Behind(d)' PROVE EventsOf[d][i] \in Seen'
      <4>1. CASE d = c
        <5>1. i \in 1..Behind(c) \/ i = Behind(c) + 1
          BY <2>2, <2>4, <3>1, <4>1
        <5> QED BY <1>0, <2>1, <2>2, <4>1, <5>1 DEF AllBehind
      <4>2. CASE d # c
        BY <1>0, <1>3, <1>4, <2>1, <3>1, <4>2 DEF AllBehind
      <4> QED BY <4>1, <4>2
    <3> QED BY <3>1 DEF AllBehind
  <2>7. Finished' = Finished
    <3>1. \A d \in Callback : cb'[d] = "done" <=> cb[d] = "done" /\ d # c
      BY <1>2, <1>3, <2>1 DEF Working
    <3>2. \A d \in Callback \ {c} : Head(pending[c]) \notin Elems(EventsOf[d])
      BY <2>3, OnePayload
    <3>3. \A d \in Callback : cb[d] = "done" => d # c
      BY <1>2
    <3> QED BY <1>5, <2>1, <3>1, <3>2, <3>3 DEF Finished
  <2>8. count'["parsed"] = count["parsed"]
    <3>1. cb'[c] # "done"
      BY <2>1 DEF Working
    <3> QED BY <1>0, <3>1, IngestCounts
  <2> QED BY <1>0, <2>5, <2>6, <2>7, <2>8, CountStays DEF CInv
<1>7. CASE Advances(c)
  <2>1. Seen' = Seen
    BY <1>7 DEF Advances
  <2>2. cb[c] \in Working => cb'[c] \in Working \cup {"done"}
    BY <1>7 DEF Advances, Working
  <2>3. Origin'
    <3>1. \A e \in Seen' : \E d \in Callback : cb'[d] \in Working \cup {"done"} /\ e \in Elems(EventsOf[d])
      BY <1>0, <1>2, <1>3, <2>1, <2>2 DEF Origin
    <3> QED BY <3>1 DEF Origin, Elems
  <2>4. AllBehind'
    <3>1. ASSUME NEW d \in Callback, cb'[d] \in Working, NEW i \in 1..Behind(d)' PROVE EventsOf[d][i] \in Seen'
      <4>1. CASE d # c
        BY <1>0, <1>3, <1>4, <2>1, <3>1, <4>1 DEF AllBehind
      <4>2. CASE d = c /\ pending'[c] = EventsOf[c]
        <5>1. Behind(c)' = Len(EventsOf[c]) - Len(EventsOf[c]) /\ Len(EventsOf[c]) \in Nat
          BY <3>1, <4>2, PayloadSize DEF Behind, Working
        <5> QED BY <3>1, <4>2, <5>1
      <4>3. CASE d = c /\ cb[c] \in Working /\ pending'[c] = pending[c]
        <5>1. Behind(c)' = Behind(c)
          BY <3>1, <4>3 DEF Behind, Working
        <5> QED BY <1>0, <2>1, <3>1, <4>3, <5>1 DEF AllBehind
      <4> QED BY <1>7, <3>1, <4>1, <4>2, <4>3 DEF Advances, Working
    <3> QED BY <3>1 DEF AllBehind
  <2>5. CASE count'["parsed"] = count["parsed"] /\ (cb'[c] = "done" => cb[c] \in {"new", "parse"})
    <3>1. cb'[c] = "done" => Elems(EventsOf[c]) \cap Seen = {}
      <4>1. SUFFICES ASSUME cb'[c] = "done" PROVE \A i \in 1..Len(EventsOf[c]) : EventsOf[c][i] \notin Seen
        BY <1>0 DEF Elems
      <4>2. Behind(c) = 0
        BY <2>5, <4>1 DEF Behind
      <4> QED BY <1>0, <4>2 DEF Ahead
    <3>2. Finished' = Finished
      BY <1>2, <1>3, <1>5, <2>1, <3>1 DEF Finished
    <3>3. ParsedCount'
      BY <1>0, <2>5, <3>2, CountStays
    <3> QED BY <2>3, <2>4, <3>3 DEF CInv
  <2>6. CASE /\ cb[c] = "enqueue" /\ pending[c] = <<>> /\ cb'[c] = "done"
             /\ count'["parsed"] = count["parsed"] + Len(EventsOf[c])
    <3>1. /\ IsFiniteSet(Elems(EventsOf[c])) /\ Cardinality(Elems(EventsOf[c])) = Len(EventsOf[c])
          /\ Len(EventsOf[c]) \in Nat
      BY PayloadSize
    <3>2. Elems(EventsOf[c]) \subseteq Seen
      <4>1. Behind(c) = Len(EventsOf[c])
        BY <2>6, <3>1, EmptySeq DEF Behind
      <4> QED BY <1>0, <2>6, <4>1 DEF AllBehind, Elems, Working
    <3>3. Finished' = Finished \cup Elems(EventsOf[c])
      BY <1>2, <1>3, <1>5, <2>1, <2>6, <3>2 DEF Finished
    <3>4. Finished \cap Elems(EventsOf[c]) = {}
      BY <1>2, OnePayload DEF Finished
    <3>5. IsFiniteSet(Finished)
      <4>1. Finished \subseteq Seen
        BY DEF Finished
      <4> QED BY <1>0, <4>1, FS_Subset
    <3>6. Cardinality(Finished) \in Nat /\ Cardinality({}) = 0
      BY <3>5, FS_CardinalityType, FS_EmptySet
    <3>7. /\ Cardinality(Finished \cup Elems(EventsOf[c]))
               = Cardinality(Finished) + Cardinality(Elems(EventsOf[c]))
                   - Cardinality(Finished \cap Elems(EventsOf[c]))
      BY <3>1, <3>5, FS_Union
    <3>8. Cardinality(Finished \cap Elems(EventsOf[c])) = 0
      BY <3>4, <3>6
    <3>9. Cardinality(Finished') = Cardinality(Finished) + Len(EventsOf[c])
      BY <3>1, <3>3, <3>6, <3>7, <3>8
    <3>10. ParsedCount'
      BY <1>0, <2>6, <3>9 DEF ParsedCount
    <3> QED BY <2>3, <2>4, <3>10 DEF CInv
  <2> QED BY <1>0, <2>5, <2>6, IngestCounts
<1> QED BY <1>1, <1>6, <1>7

\* A step of anybody else does not count.
LEMMA CInvOthers ==
  ASSUME CInv, KeepsEvents, count' = count
  PROVE  CInv'
<1>1. Seen' = Seen /\ cb' = cb /\ pending' = pending
  BY DEF KeepsEvents
<1>2. Origin'
  BY <1>1 DEF CInv, Origin, Elems
<1>3. AllBehind'
  BY <1>1 DEF CInv, AllBehind, Behind
<1>4. Finished' = Finished
  BY <1>1 DEF Finished, Elems
<1>5. ParsedCount'
  BY <1>4, CountStays DEF CInv
<1> QED BY <1>2, <1>3, <1>5 DEF CInv

\* The books of the stream: its bytes and its events.
AInv == BInv /\ CInv

\* No event has been parsed in the initial state.
LEMMA AInvInit == Init => AInv
<1> SUFFICES ASSUME Init PROVE AInv
  OBVIOUS
<1>1. /\ queue = <<>> /\ taken = {} /\ dropped = {} /\ count["parsed"] = 0
      /\ \A c \in Callback : cb[c] = "new"
  BY DEF Init, Counter
<1>2. Seen = {}
  BY <1>1 DEF Queued, Elems, Seen
<1>3. Finished = {}
  BY <1>2 DEF Finished
<1>4. ParsedCount
  BY <1>1, <1>3, FS_EmptySet DEF ParsedCount
<1>5. Origin /\ AllBehind
  BY <1>1, <1>2 DEF Origin, AllBehind, Working
<1> QED BY <1>4, <1>5, BInvInit DEF AInv, CInv

\* Every step keeps the books.
LEMMA AInvStep == AInv /\ [Next]_vars => AInv'
<1> SUFFICES ASSUME AInv, [Next]_vars PROVE AInv'
  OBVIOUS
<1>0. BInv /\ BInv' /\ CInv /\ RInv /\ SInv /\ Places
  BY BInvStep DEF AInv, BInv, RInv
<1>1. CASE UNCHANGED vars
  <2>1. KeepsEvents /\ count' = count
    BY <1>1 DEF KeepsEvents, Seen, Queued, Elems, vars, stream, callers
  <2> QED BY <1>0, <2>1, CInvOthers DEF AInv
<1>2. CASE Terminated
  BY <1>1, <1>2 DEF Terminated
<1>3. ASSUME NEW c \in Callback, Ingest(c) PROVE AInv'
  BY <1>0, <1>3, CInvIngest DEF AInv
<1>4. ASSUME NEW r \in Reader, Read(r) PROVE AInv'
  <2>1. KeepsEvents
    BY <1>0, <1>4, ReadKeepsEvents
  <2>2. count' = count
    BY <1>4 DEF Read, GetBegin, GetTake, GetTimeout, PollTake, TakeOldest, RecordDequeue, RequeueSignal, stream
  <2> QED BY <1>0, <2>1, <2>2, CInvOthers DEF AInv
<1>5. ASSUME NEW k \in Closer, Close(k) PROVE AInv'
  <2>1. KeepsEvents
    BY <1>0, <1>5, CloseKeepsEvents
  <2>2. count' = count
    BY <1>5 DEF Close, CloseAgain, CloseBegin, CloserFails, CloseEnd, stream
  <2> QED BY <1>0, <2>1, <2>2, CInvOthers DEF AInv
<1> QED BY <1>1, <1>2, <1>3, <1>4, <1>5 DEF Next

\* The stream's accounts add up in every state: the byte count is what the
\* queue and the readers hold, the images in the queue stay within
\* max_buffer_bytes, and with no callback under way every parsed event is
\* buffered, delivered or counted as dropped.
THEOREM BooksCorrect == Spec => []AccountsKept
<1>1. AInv => AccountsKept
  <2> SUFFICES ASSUME AInv PROVE AccountsKept
    OBVIOUS
  <2>0. /\ ByteAccounting /\ QueuedBytesBounded /\ Origin /\ ParsedCount
        /\ TypeOK /\ Places /\ Apart
    BY DEF AInv, BInv, CInv, Limits, Places, RInv, SInv, TInv
  <2>1. ASSUME \A c \in Callback : cb[c] \in {"new", "done"}
        PROVE  count["parsed"] = Cardinality(Queued) + Cardinality(taken) + Cardinality(dropped)
    <3>1. Finished = Seen
      BY <2>0, <2>1 DEF Finished, Origin, Working
    <3>2. IsFiniteSet(Queued) /\ IsFiniteSet(taken) /\ IsFiniteSet(dropped)
      BY <2>0, Sets
    <3>3. Queued \cap taken = {} /\ (Queued \cup taken) \cap dropped = {}
      BY <2>0 DEF Apart
    <3>4. Cardinality({}) = 0
      BY FS_EmptySet
    <3>5. /\ IsFiniteSet(Queued \cup taken)
          /\ Cardinality(Queued \cup taken) = Cardinality(Queued) + Cardinality(taken) - Cardinality(Queued \cap taken)
      BY <3>2, FS_Union
    <3>6. Cardinality((Queued \cup taken) \cup dropped)
            = Cardinality(Queued \cup taken) + Cardinality(dropped) - Cardinality((Queued \cup taken) \cap dropped)
      BY <3>2, <3>5, FS_Union
    <3>7. Cardinality(Queued) \in Nat /\ Cardinality(taken) \in Nat /\ Cardinality(dropped) \in Nat
      BY <3>2, FS_CardinalityType
    <3>8. Cardinality(Queued \cap taken) = 0 /\ Cardinality((Queued \cup taken) \cap dropped) = 0
      BY <3>3, <3>4
    <3>9. Cardinality(Seen) = Cardinality(Queued) + Cardinality(taken) + Cardinality(dropped)
      BY <3>5, <3>6, <3>7, <3>8 DEF Seen
    <3> QED BY <2>0, <3>1, <3>9 DEF ParsedCount
  <2> QED BY <2>0, <2>1 DEF AccountsKept, Conservation
<1> QED BY <1>1, AInvInit, AInvStep, PTL DEF Spec
=============================================================================
