--------------------------- MODULE ConnectionPool ---------------------------
(***************************************************************************)
(* ConnectionPool of connection_pool.py: sessions to devices kept for      *)
(* reuse, one entry per user and target (a key), shared by application     *)
(* threads, a background keepalive thread and callers of keepalive().      *)
(*                                                                         *)
(* _lock guards the entries, but a new session is connected, and an idle   *)
(* one probed, with the lock released.  A step is one critical section, or *)
(* one of those waits.  Time is abstracted: an idle entry may have gone    *)
(* beyond idle_timeout or not.  Counters that only stats() shows are left  *)
(* out.                                                                    *)
(*                                                                         *)
(* A definition marked "mutant" is a wrong version of the one below it and *)
(* takes part in nothing.                                                  *)
(***************************************************************************)
EXTENDS Integers, FiniteSets

CONSTANTS Key,          \* user and target of an entry
          Session,      \* sessions that may be connected: a bound
          Thread,       \* application threads
          Keeper,       \* threads that run keepalive()
          Background,   \* those of them that run _keepalive_loop
          MaxActive,    \* max_active_sessions
          MaxAttempts,  \* max_reconnect_attempts
          None

ASSUME PoolAssumption ==
  /\ Background \subseteq Keeper
  /\ MaxActive \in Nat
  /\ MaxAttempts \in Nat \ {0}
  /\ None \notin Key \cup Session
  /\ IsFiniteSet(Session) /\ IsFiniteSet(Thread)

VARIABLES
  pool,      \* _sessions: the session in the entry of each key
  inUse,     \* in_use of the entry each session is in
  failed,    \* failed of it
  misses,    \* metrics.keepalive_failures of it
  aged,      \* idle for longer than idle_timeout
  life,      \* each session: "new", "open" or "closed" (logged out)
  pc, want, made, tries,   \* each application thread
  held,      \* the sessions each thread has been given and not handed back
  ktodo, kpc,    \* each keeper: its snapshot, and where it is
  stopped    \* _keepalive_stop: close has been called

entries == <<pool, inUse, failed, misses, aged>>
callers == <<pc, want, made, tries, held>>
keepers == <<kpc, ktodo>>
vars    == <<entries, life, callers, keepers, stopped>>

Pooled == {s \in Session : \E k \in Key : pool[k] = s}
Open   == {s \in Session : life[s] = "open"}

\* _active_count()
Active == {s \in Pooled : ~failed[s]}

AtCapacity == MaxActive # 0 /\ Cardinality(Active) >= MaxActive

ReusableIfHealthy(s) == s # None /\ ~failed[s]  \* mutant
Reusable(s) == s # None => ~inUse[s] /\ ~failed[s]

Init == /\ pool = [k \in Key |-> None]
        /\ inUse = [s \in Session |-> FALSE]
        /\ failed = [s \in Session |-> FALSE]
        /\ misses = [s \in Session |-> 0]
        /\ aged = [s \in Session |-> FALSE]
        /\ life = [s \in Session |-> "new"]
        /\ pc = [t \in Thread |-> "idle"]
        /\ want = [t \in Thread |-> None]
        /\ made = [t \in Thread |-> None]
        /\ tries = [t \in Thread |-> 0]
        /\ held = [t \in Thread |-> {}]
        /\ kpc = [k \in Keeper |-> "idle"]
        /\ ktodo = [k \in Keeper |-> {}]
        /\ stopped = FALSE

\* _close_entry of the sessions S: logout and cleanup, errors ignored.
Closed(S) == [s \in Session |-> IF s \in S THEN "closed" ELSE life[s]]

Goto(t, p) == pc' = [pc EXCEPT ![t] = p]

\* The connected session may be used at once; t has it in its hands.
Give(t, s) == held' = [held EXCEPT ![t] = @ \cup {s}]

Return(t) == /\ Goto(t, "idle")
             /\ want' = [want EXCEPT ![t] = None]
             /\ made' = [made EXCEPT ![t] = None]
             /\ tries' = [tries EXCEPT ![t] = 0]

-----------------------------------------------------------------------------
(* acquire and reconnect *)

\* An application that has called close makes no new call.
MayCall(t) == pc[t] = "idle" /\ ~stopped

\* acquire(k): a single attempt.
AcquireBegin(t, k) ==
  /\ MayCall(t)
  /\ Goto(t, "acquire")
  /\ want' = [want EXCEPT ![t] = k]
  /\ UNCHANGED <<entries, life, made, tries, held, keepers, stopped>>

\* reconnect(k) drops the entry, whoever uses it, and then tries acquire up to
\* max_reconnect_attempts times.  A caller that held the old session gives it
\* up by calling this.
ReconnectBegin(t, k) ==
  /\ MayCall(t)
  /\ Goto(t, "acquire")
  /\ want' = [want EXCEPT ![t] = k]
  /\ tries' = [tries EXCEPT ![t] = MaxAttempts]
  /\ life' = Closed({pool[k]})
  /\ pool' = [pool EXCEPT ![k] = None]
  /\ held' = [held EXCEPT ![t] = @ \ {pool[k]}]
  /\ UNCHANGED <<inUse, failed, misses, aged, made, keepers, stopped>>

\* The first section of acquire: an idle entry is reused ...
AcquireReuse(t) ==
  LET s == pool[want[t]] IN
  /\ pc[t] = "acquire"
  /\ s # None /\ Reusable(s)
  /\ inUse' = [inUse EXCEPT ![s] = TRUE]
  /\ aged' = [aged EXCEPT ![s] = FALSE]
  /\ Give(t, s)
  /\ Return(t)
  /\ UNCHANGED <<pool, failed, misses, life, keepers, stopped>>

\* ... else a session has to be connected.
MustConnect(t) == pool[want[t]] # None => ~Reusable(pool[want[t]])

\* The attempts reconnect has left when one fails; acquire makes only one.
TriesLeft(t) == IF tries[t] > 0 THEN tries[t] - 1 ELSE 0

\* The attempt failed: acquire raises, reconnect tries again or returns None.
AttemptFails(t) ==
  /\ made' = [made EXCEPT ![t] = None]
  /\ tries' = [tries EXCEPT ![t] = TriesLeft(t)]
  /\ IF TriesLeft(t) > 0
     THEN Goto(t, "acquire") /\ UNCHANGED want
     ELSE Goto(t, "idle") /\ want' = [want EXCEPT ![t] = None]

\* The pool is full ...
AcquireRefused(t) ==
  /\ pc[t] = "acquire"
  /\ MustConnect(t)
  /\ AtCapacity
  /\ AttemptFails(t)
  /\ UNCHANGED <<entries, life, held, keepers, stopped>>

\* ... or it is not, and the lock is released for the connection.
AcquireConnect(t) ==
  /\ pc[t] = "acquire"
  /\ MustConnect(t)
  /\ ~AtCapacity
  /\ Goto(t, "connect")
  /\ UNCHANGED <<entries, life, want, made, tries, held, keepers, stopped>>

\* _create_session: the device answers ...
Connect(t) ==
  LET s == CHOOSE r \in Session : life[r] = "new" IN
  /\ pc[t] = "connect"
  /\ \E r \in Session : life[r] = "new"
  /\ life' = [life EXCEPT ![s] = "open"]
  /\ made' = [made EXCEPT ![t] = s]
  /\ Goto(t, "insert")
  /\ UNCHANGED <<entries, want, tries, held, keepers, stopped>>

\* ... or does not, and the client is cleaned up again.
ConnectFails(t) ==
  /\ pc[t] = "connect"
  /\ AttemptFails(t)
  /\ UNCHANGED <<entries, life, held, keepers, stopped>>

\* The second section: the new entry takes the place of whatever entry the
\* key has by now, which is closed, in use or not.
DisplacedKept(t) == {}  \* mutant
Displaced(t) == {pool[want[t]]}

Insert(t) ==
  LET s == made[t] IN
  /\ pc[t] = "insert"
  /\ life' = Closed(Displaced(t))
  /\ pool' = [pool EXCEPT ![want[t]] = s]
  /\ inUse' = [inUse EXCEPT ![s] = TRUE]
  /\ Give(t, s)
  /\ Return(t)
  /\ UNCHANGED <<failed, misses, aged, keepers, stopped>>

-----------------------------------------------------------------------------
(* release and remove *)

\* A session that is no longer in the pool is released with a warning.
Release(t, s) ==
  /\ MayCall(t)
  /\ s \in held[t]
  /\ held' = [held EXCEPT ![t] = @ \ {s}]
  /\ inUse' = [inUse EXCEPT ![s] = @ /\ s \notin Pooled]
  /\ aged' = [aged EXCEPT ![s] = @ /\ s \notin Pooled]
  /\ UNCHANGED <<pool, failed, misses, life, pc, want, made, tries, keepers, stopped>>

Remove(t, s) ==
  /\ MayCall(t)
  /\ s \in held[t]
  /\ held' = [held EXCEPT ![t] = @ \ {s}]
  /\ pool' = [k \in Key |-> IF pool[k] = s THEN None ELSE pool[k]]
  /\ life' = Closed({s} \cap Pooled)
  /\ UNCHANGED <<inUse, failed, misses, aged, pc, want, made, tries, keepers, stopped>>

-----------------------------------------------------------------------------
(* Keepalive *)

\* keepalive takes a snapshot of the idle entries.
KeepaliveBegin(k) ==
  /\ kpc[k] = "idle"
  /\ k \in Background => ~stopped
  /\ kpc' = [kpc EXCEPT ![k] = "probe"]
  /\ ktodo' = [ktodo EXCEPT ![k] = {s \in Pooled : ~inUse[s] /\ ~failed[s]}]
  /\ UNCHANGED <<entries, life, callers, stopped>>

\* One of them was probed, with the lock released, and the entry is updated
\* whatever became of it meanwhile.  (The probe itself may have been made
\* before the session was closed, so its outcome is free.)  Misses beyond
\* max_reconnect_attempts change nothing more.
Probe(k, s) ==
  /\ s \in ktodo[k]
  /\ ktodo' = [ktodo EXCEPT ![k] = @ \ {s}]
  /\ \/ /\ misses' = [misses EXCEPT ![s] = 0]
        /\ aged' = [aged EXCEPT ![s] = FALSE]
        /\ UNCHANGED failed
     \/ /\ misses' = [misses EXCEPT ![s] = IF @ < MaxAttempts THEN @ + 1 ELSE @]
        /\ failed' = [failed EXCEPT ![s] = @ \/ misses'[s] >= MaxAttempts]
        /\ UNCHANGED aged
  /\ UNCHANGED <<pool, inUse, life, callers, kpc, stopped>>

\* The background thread goes on to evict what has been idle for too long.
StaleEvenInUse == {s \in Pooled : aged[s] \/ failed[s]}  \* mutant
Stale == {s \in Pooled : ~inUse[s] /\ aged[s]}

KeepaliveEnd(k) ==
  /\ kpc[k] = "probe"
  /\ ktodo[k] = {}
  /\ kpc' = [kpc EXCEPT ![k] = "idle"]
  /\ IF k \in Background
     THEN /\ life' = Closed(Stale)
          /\ pool' = [i \in Key |-> IF pool[i] \in Stale THEN None ELSE pool[i]]
     ELSE UNCHANGED <<life, pool>>
  /\ UNCHANGED <<inUse, failed, misses, aged, callers, ktodo, stopped>>

\* An entry has been idle beyond idle_timeout.
Age(s) ==
  /\ s \in Pooled
  /\ ~inUse[s] /\ ~aged[s]
  /\ aged' = [aged EXCEPT ![s] = TRUE]
  /\ UNCHANGED <<pool, inUse, failed, misses, life, callers, keepers, stopped>>

-----------------------------------------------------------------------------
(* Closing the pool *)

\* close tells the keepalive thread to stop and waits for it, five seconds at
\* most: a longer probe is not waited for.
CloseBegin(t) ==
  /\ MayCall(t)
  /\ stopped' = TRUE
  /\ Goto(t, "close")
  /\ UNCHANGED <<entries, life, want, made, tries, held, keepers>>

\* Every entry is closed and forgotten.
CloseEnd(t) ==
  /\ pc[t] = "close"
  /\ life' = Closed(Pooled)
  /\ pool' = [k \in Key |-> None]
  /\ Return(t)
  /\ UNCHANGED <<inUse, failed, misses, aged, held, keepers, stopped>>

-----------------------------------------------------------------------------
Call(t) == \/ \E k \in Key : AcquireBegin(t, k) \/ ReconnectBegin(t, k)
           \/ \E s \in Session : Release(t, s) \/ Remove(t, s)
           \/ CloseBegin(t)

Proceed(t) == \/ AcquireReuse(t) \/ AcquireRefused(t) \/ AcquireConnect(t)
              \/ Connect(t) \/ ConnectFails(t) \/ Insert(t) \/ CloseEnd(t)

Keep(k) == KeepaliveBegin(k) \/ (\E s \in Session : Probe(k, s)) \/ KeepaliveEnd(k)

\* The application may stop calling.
Rest == (\A t \in Thread : pc[t] = "idle") /\ UNCHANGED vars

Next == \/ \E t \in Thread : Call(t) \/ Proceed(t)
        \/ \E k \in Keeper : Keep(k)
        \/ \E s \in Session : Age(s)
        \/ Rest

Spec == Init /\ [][Next]_vars

-----------------------------------------------------------------------------
(* Properties *)

TypeOK ==
  /\ pool \in [Key -> Session \cup {None}]
  /\ inUse \in [Session -> BOOLEAN]
  /\ failed \in [Session -> BOOLEAN]
  /\ misses \in [Session -> 0 .. MaxAttempts]
  /\ aged \in [Session -> BOOLEAN]
  /\ life \in [Session -> {"new", "open", "closed"}]
  /\ pc \in [Thread -> {"idle", "acquire", "connect", "insert", "close"}]
  /\ want \in [Thread -> Key \cup {None}]
  /\ made \in [Thread -> Session \cup {None}]
  /\ tries \in [Thread -> 0 .. MaxAttempts]
  /\ held \in [Thread -> SUBSET Session]
  /\ kpc \in [Keeper -> {"idle", "probe"}]
  /\ ktodo \in [Keeper -> SUBSET Session]

Making == {made[t] : t \in Thread} \ {None}

\* No session is lost: what is logged in is in the pool, or about to be put
\* there by the thread that connected it; and the pool holds nothing that was
\* logged out.  Every path that drops an entry closes it, and only those do.
NothingLeaks == Open = Pooled \cup Making

\* The entries keepalive has given up: they stay, logged in, until their key is
\* acquired, reconnected or removed or the pool is closed.
GivenUp == {s \in Pooled : failed[s]}

\* What max_active_sessions really bounds: of the sessions that are logged in, and
\* those being connected, the ones that were not given up exceed it by at most one
\* per other thread.
CapacityOvershoot ==
  MaxActive # 0 =>
    Cardinality(Open) + Cardinality({t \in Thread : pc[t] = "connect"})
      <= MaxActive + (Cardinality(Thread) - 1) + Cardinality(GivenUp)

\* The pool keeps its accounts: no failure, eviction or concurrent acquire loses a
\* session, and their number grows by what was given up and no further.
PoolAccounts == TypeOK /\ NothingLeaks /\ CapacityOvershoot

\* A session in the pool serves one caller at a time, and is marked in use as
\* long as that caller has it.
HeldExclusively ==
  \A s \in Pooled : LET callersOf == {t \in Thread : s \in held[t]} IN
     /\ \A t, u \in callersOf : t = u
     /\ inUse[s] <=> callersOf # {}

\* The keepalive thread never logs out a session a caller has, although it
\* works from an old snapshot and marks sessions in use as failed.
KeepaliveSparesUsers ==
  [][\A k \in Keeper, s \in Session :
       kpc[k] = "probe" /\ kpc'[k] = "idle" /\ (\E t \in Thread : s \in held[t])
         => life'[s] = life[s]]_vars
=============================================================================
