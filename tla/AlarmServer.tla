----------------------------- MODULE AlarmServer -----------------------------
(***************************************************************************)
(* AlarmServer of alarm_server.py: a listener that gives each connection a *)
(* thread of its own, within a number of slots, and that another thread    *)
(* closes.                                                                 *)
(*                                                                         *)
(* Three kinds of thread meet: the one in serve_forever, a handler for     *)
(* each connection, and the one that calls close.  They share _sock, which *)
(* no lock guards, the slots (a semaphore) and _threads under              *)
(* _threads_lock.  A step reads or writes one of these.  What a connection *)
(* carries is left out: a handler ends with or without a callback.         *)
(*                                                                         *)
(* A definition marked "mutant" is a wrong version of the one below it and *)
(* takes part in nothing.                                                  *)
(***************************************************************************)
EXTENDS Naturals, FiniteSets

CONSTANTS Conn,            \* connections that peers may open: a bound
          MaxConnections,  \* max_connections
          NoConn

ASSUME ServerAssumption ==
  MaxConnections \in Nat \ {0} /\ NoConn \notin Conn /\ IsFiniteSet(Conn)

VARIABLES
  sock,     \* _sock: "none", "open", or "closed" but not yet forgotten
  stop,     \* _stop
  conn,     \* each connection: "none", "backlog", "accepted" or "closed"
  slots,    \* free slots of _connection_slots
  threads,  \* _threads: the connections whose handler is in it
  locked,   \* serve_forever holds _threads_lock
  spc,      \* where serve_forever is
  cur,      \* the connection it has accepted last
  hpc,      \* where the handler of each connection is
  cpc,      \* where close is
  waiting   \* the threads close found in _threads

server     == <<spc, cur, locked>>
closer     == <<cpc, waiting>>
serverVars == <<sock, stop, conn, slots, threads, server, hpc, closer>>

ServePC  == {"idle", "begin", "assert", "check", "load", "blocked", "admit",
             "publish", "start", "giveback", "ended", "crashed"}
HandlePC == {"none", "new", "reading", "callback", "finish", "unlist", "release", "gone"}
ClosePC  == {"idle", "socket", "forget", "snapshot", "join", "closed"}

ServerInit ==
  /\ sock = "none"
  /\ stop = FALSE
  /\ conn = [c \in Conn |-> "none"]
  /\ slots = MaxConnections
  /\ threads = {}
  /\ locked = FALSE
  /\ spc = "idle"
  /\ cur = NoConn
  /\ hpc = [c \in Conn |-> "none"]
  /\ cpc = "idle"
  /\ waiting = {}

\* A peer connects while the socket listens.
Dial(c) ==
  /\ sock = "open"
  /\ conn[c] = "none"
  /\ conn' = [conn EXCEPT ![c] = "backlog"]
  /\ UNCHANGED <<sock, stop, slots, threads, server, hpc, closer>>

\* start() by the application, before it calls close.
Start ==
  /\ sock = "none"
  /\ ~stop
  /\ sock' = "open"
  /\ UNCHANGED <<stop, conn, slots, threads, server, hpc, closer>>

-----------------------------------------------------------------------------
(* serve_forever *)

Serve(from, to) == spc = from /\ spc' = to

ServeCall ==
  /\ spc \in {"idle", "ended"}
  /\ spc' = "begin"
  /\ UNCHANGED <<sock, stop, conn, slots, threads, cur, locked, hpc, closer>>

\* It starts the listener if nobody has; binding may fail.
ServeBegin ==
  /\ Serve("begin", "assert")
  /\ sock' = IF sock = "none" THEN "open" ELSE sock
  /\ UNCHANGED <<stop, conn, slots, threads, cur, locked, hpc, closer>>

ServeBindFails ==
  /\ sock = "none"
  /\ Serve("begin", "ended")
  /\ UNCHANGED <<sock, stop, conn, slots, threads, cur, locked, hpc, closer>>

\* assert self._sock is not None
ServeAssert ==
  /\ Serve("assert", IF sock = "none" THEN "crashed" ELSE "check")
  /\ UNCHANGED <<sock, stop, conn, slots, threads, cur, locked, hpc, closer>>

ServeCheck ==
  /\ Serve("check", IF stop THEN "ended" ELSE "load")
  /\ UNCHANGED <<sock, stop, conn, slots, threads, cur, locked, hpc, closer>>

\* self._sock.accept: None has no such method.
ServeLoad ==
  /\ Serve("load", IF sock = "none" THEN "crashed" ELSE "blocked")
  /\ UNCHANGED <<sock, stop, conn, slots, threads, cur, locked, hpc, closer>>

Accept(c) ==
  /\ Serve("blocked", "admit")
  /\ sock = "open"
  /\ conn[c] = "backlog"
  /\ conn' = [conn EXCEPT ![c] = "accepted"]
  /\ cur' = c
  /\ UNCHANGED <<sock, stop, slots, threads, locked, hpc, closer>>

\* settimeout(0.5) lets accept return and the loop look at the stop flag.
NeverTimesOut == FALSE  \* mutant
TimesOut == TRUE

AcceptTimeout ==
  /\ TimesOut
  /\ Serve("blocked", "check")
  /\ UNCHANGED <<sock, stop, conn, slots, threads, cur, locked, hpc, closer>>

\* accept raises an OSError, for a socket closed under it or an error of the
\* kernel: the loop ends, and the socket stays as it is.
AcceptError ==
  /\ Serve("blocked", "ended")
  /\ UNCHANGED <<sock, stop, conn, slots, threads, cur, locked, hpc, closer>>

\* A slot is taken, without waiting, or the connection is closed at once.
Admit ==
  /\ spc = "admit"
  /\ IF slots > 0
     THEN spc' = "publish" /\ slots' = slots - 1 /\ UNCHANGED conn
     ELSE spc' = "check" /\ conn' = [conn EXCEPT ![cur] = "closed"] /\ UNCHANGED slots
  /\ UNCHANGED <<sock, stop, threads, cur, locked, hpc, closer>>

\* The handler is put in _threads and started in one section of the lock, so
\* that close never joins a thread that is not started.
PublishUnlocked == FALSE  \* mutant
PublishLocked == TRUE

Publish ==
  /\ Serve("publish", "start")
  /\ locked' = PublishLocked
  /\ threads' = threads \cup {cur}
  /\ hpc' = [hpc EXCEPT ![cur] = "new"]
  /\ UNCHANGED <<sock, stop, conn, slots, cur, closer>>

StartHandler ==
  /\ Serve("start", "check")
  /\ locked' = FALSE
  /\ hpc' = [hpc EXCEPT ![cur] = "reading"]
  /\ UNCHANGED <<sock, stop, conn, slots, threads, cur, closer>>

\* No thread can be started: it leaves _threads, and the slot is given back.
StartFails ==
  /\ Serve("start", "giveback")
  /\ locked' = FALSE
  /\ threads' = threads \ {cur}
  /\ hpc' = [hpc EXCEPT ![cur] = "none"]
  /\ UNCHANGED <<sock, stop, conn, slots, cur, closer>>

SlotsKept == slots  \* mutant
SlotsGivenBack == slots + 1

GiveBack ==
  /\ Serve("giveback", "check")
  /\ slots' = SlotsGivenBack
  /\ conn' = [conn EXCEPT ![cur] = "closed"]
  /\ UNCHANGED <<sock, stop, threads, cur, locked, hpc, closer>>

-----------------------------------------------------------------------------
(* _handle *)

Handle(c, from, to) == hpc[c] = from /\ hpc' = [hpc EXCEPT ![c] = to]

\* recv ends at the end of the data, at its timeout or at the cap; then there
\* is a frame for the callback, or nothing that parses.
Read(c) ==
  /\ \E next \in {"callback", "finish"} : Handle(c, "reading", next)
  /\ UNCHANGED <<sock, stop, conn, slots, threads, server, closer>>

\* The callback returned or raised.
Callback(c) ==
  /\ Handle(c, "callback", "finish")
  /\ UNCHANGED <<sock, stop, conn, slots, threads, server, closer>>

\* The finally clause: close the connection, leave _threads, free the slot.
CloseConn(c) ==
  /\ Handle(c, "finish", "unlist")
  /\ conn' = [conn EXCEPT ![c] = "closed"]
  /\ UNCHANGED <<sock, stop, slots, threads, server, closer>>

Unlist(c) ==
  /\ ~locked
  /\ Handle(c, "unlist", "release")
  /\ threads' = threads \ {c}
  /\ UNCHANGED <<sock, stop, conn, slots, server, closer>>

ReleaseSlot(c) ==
  /\ Handle(c, "release", "gone")
  /\ slots' = slots + 1
  /\ UNCHANGED <<sock, stop, conn, threads, server, closer>>

-----------------------------------------------------------------------------
(* close *)

Step(from, to) == cpc = from /\ cpc' = to

\* close may be called at any time, and again.
CloseCall ==
  /\ cpc \in {"idle", "closed"}
  /\ cpc' = IF sock = "none" THEN "snapshot" ELSE "socket"
  /\ stop' = TRUE
  /\ UNCHANGED <<sock, conn, slots, threads, server, hpc, waiting>>

\* The kernel resets what it had not handed to accept.
CloseSocket ==
  /\ Step("socket", "forget")
  /\ sock' = "closed"
  /\ conn' = [c \in Conn |-> IF conn[c] = "backlog" THEN "closed" ELSE conn[c]]
  /\ UNCHANGED <<stop, slots, threads, server, hpc, waiting>>

ForgetSocket ==
  /\ Step("forget", "snapshot")
  /\ sock' = "none"
  /\ UNCHANGED <<stop, conn, slots, threads, server, hpc, waiting>>

Snapshot ==
  /\ ~locked
  /\ Step("snapshot", "join")
  /\ waiting' = threads
  /\ UNCHANGED <<sock, stop, conn, slots, threads, server, hpc>>

\* Every thread was joined, or the deadline of one second has passed.
Joined ==
  /\ Step("join", "closed")
  /\ waiting' = {}
  /\ UNCHANGED <<sock, stop, conn, slots, threads, server, hpc>>

-----------------------------------------------------------------------------
\* What serve_forever does by itself; AcceptError is up to the kernel.
ServeStep == \/ ServeBegin \/ ServeBindFails \/ ServeAssert \/ ServeCheck \/ ServeLoad
             \/ (\E c \in Conn : Accept(c)) \/ AcceptTimeout
             \/ Admit \/ Publish \/ StartHandler \/ StartFails \/ GiveBack

HandleStep(c) == Read(c) \/ CloseConn(c) \/ Unlist(c) \/ ReleaseSlot(c)

CloseStep == CloseSocket \/ ForgetSocket \/ Snapshot \/ Joined

ServerNext ==
  \/ Start \/ ServeCall \/ ServeStep \/ AcceptError
  \/ \E c \in Conn : Dial(c) \/ HandleStep(c) \/ Callback(c)
  \/ CloseCall \/ CloseStep

ServerSpec == ServerInit /\ [][ServerNext]_serverVars

\* Threads keep running; recv has a timeout, accept has one and join has a
\* deadline.  A callback need never return, and nobody need connect or close.
FairSpec == /\ ServerSpec
            /\ WF_serverVars(ServeStep)
            /\ \A c \in Conn : WF_serverVars(HandleStep(c))
            /\ WF_serverVars(CloseStep)

-----------------------------------------------------------------------------
(* Properties *)

ServerTypeOK ==
  /\ sock \in {"none", "open", "closed"}
  /\ stop \in BOOLEAN
  /\ conn \in [Conn -> {"none", "backlog", "accepted", "closed"}]
  /\ slots \in 0 .. MaxConnections
  /\ threads \in SUBSET Conn
  /\ locked \in BOOLEAN
  /\ spc \in ServePC
  /\ cur \in Conn \cup {NoConn}
  /\ hpc \in [Conn -> HandlePC]
  /\ cpc \in ClosePC
  /\ waiting \in SUBSET Conn

SlotHolders == {c \in Conn : hpc[c] \in {"reading", "callback", "finish", "unlist", "release"}}
               \cup (IF spc \in {"publish", "start", "giveback"} THEN {cur} ELSE {})

\* A slot is free or belongs to one connection: to a running handler, or to
\* the connection serve_forever is about to start one for.  No failure path
\* gives a slot back twice or not at all, so at most max_connections handlers
\* run.
SlotsConserved == slots + Cardinality(SlotHolders) = MaxConnections

Running == {c \in Conn : hpc[c] \in {"reading", "callback", "finish", "unlist"}}

\* Whoever takes _threads_lock finds exactly the running handlers in _threads,
\* although a handler may end before serve_forever is done starting it.
ThreadsTruthful == ~locked => threads = Running

\* The books of the server: its slots and its set of threads are exact at every
\* step of the three kinds of thread.
BooksKept == ServerTypeOK /\ SlotsConserved /\ ThreadsTruthful

\* "joining a registered-but-not-yet-started Thread raises RuntimeError":
\* close never does.
JoinsStartedThreads == \A c \in waiting : hpc[c] \notin {"none", "new"}

Serving == spc \notin {"idle", "ended", "crashed"}

\* An accepted connection is closed, unless its callback never returns, whatever
\* fails and whether or not the server is closed meanwhile; serve_forever ends
\* once close has been called; and close returns, even if a callback never does.
EverythingEnds ==
  /\ \A c \in Conn : conn[c] = "accepted" ~> conn[c] = "closed" \/ hpc[c] = "callback"
  /\ stop /\ Serving ~> ~Serving
  /\ cpc \notin {"idle", "closed"} ~> cpc = "closed"
=============================================================================
