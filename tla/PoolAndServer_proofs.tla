-------------------------- MODULE PoolAndServer_proofs --------------------------
(***************************************************************************)
(* Proofs about the two components whose threads share a limited number of *)
(* things under a lock: ConnectionPool, for every number of keys,          *)
(* sessions, threads and keepers and every limit, and AlarmServer, for     *)
(* every number of connections and of slots.                               *)
(***************************************************************************)
EXTENDS ConnectionPool, AlarmServer, FiniteSetTheorems, TLAPS

-----------------------------------------------------------------------------
(* The connection pool *)

\* A thread that has left the lock knows its key, and the session it connected is
\* its own until it is put in the pool.
CallersFit ==
  /\ \A t \in Thread : pc[t] \in {"acquire", "connect", "insert"} => want[t] \in Key
  /\ \A t \in Thread : pc[t] = "insert" <=> made[t] # None
  /\ \A t, u \in Thread : made[t] = made[u] /\ made[t] # None => t = u
  /\ \A t \in Thread, k \in Key : made[t] # None => pool[k] # made[t]

\* A session is in one entry.
OneEntry == \A j, k \in Key : pool[j] = pool[k] /\ pool[j] # None => j = k

\* NothingLeaks, session by session.
Accounted ==
  \A s \in Session : life[s] = "open" <=> \/ \E k \in Key : pool[k] = s
                                          \/ \E t \in Thread : made[t] = s

\* Nobody has a session before it was put in the pool.
FreshUntouched ==
  \A s \in Session :
    life[s] = "new" \/ (\E t \in Thread : made[t] = s)
      => ~inUse[s] /\ \A t \in Thread : s \notin held[t]

\* HeldExclusively, entry by entry.
Exclusive ==
  \A k \in Key : pool[k] # None =>
    /\ \A t, u \in Thread : pool[k] \in held[t] /\ pool[k] \in held[u] => t = u
    /\ inUse[pool[k]] <=> \E t \in Thread : pool[k] \in held[t]

Books == CallersFit /\ OneEntry /\ Accounted /\ FreshUntouched /\ Exclusive

IInv == TypeOK /\ Books

\* Types.
LEMMA TypeStep ==
  ASSUME TypeOK, CallersFit, [Next]_vars
  PROVE  TypeOK'
<1> USE PoolAssumption DEF TypeOK, CallersFit, entries, callers, keepers, Pooled
<1>1. ASSUME NEW t \in Thread, NEW k \in Key, AcquireBegin(t, k) PROVE TypeOK'
  BY <1>1 DEF AcquireBegin, MayCall, Goto
<1>2. ASSUME NEW t \in Thread, NEW k \in Key, ReconnectBegin(t, k) PROVE TypeOK'
  BY <1>2 DEF ReconnectBegin, MayCall, Goto, Closed
<1>3. ASSUME NEW t \in Thread, NEW s \in Session, Release(t, s) PROVE TypeOK'
  BY <1>3 DEF Release, MayCall
<1>4. ASSUME NEW t \in Thread, NEW s \in Session, Remove(t, s) PROVE TypeOK'
  BY <1>4 DEF Remove, MayCall, Closed
<1>5. ASSUME NEW t \in Thread, CloseBegin(t) PROVE TypeOK'
  BY <1>5 DEF CloseBegin, MayCall, Goto
<1>6. ASSUME NEW t \in Thread, AcquireReuse(t) PROVE TypeOK'
  BY <1>6 DEF AcquireReuse, Reusable, Give, Return, Goto
<1>7. ASSUME NEW t \in Thread, AcquireRefused(t) PROVE TypeOK'
  BY <1>7 DEF AcquireRefused, AttemptFails, TriesLeft, Goto
<1>8. ASSUME NEW t \in Thread, AcquireConnect(t) PROVE TypeOK'
  BY <1>8 DEF AcquireConnect, Goto
<1>9. ASSUME NEW t \in Thread, Connect(t) PROVE TypeOK'
  BY <1>9 DEF Connect, Goto
<1>10. ASSUME NEW t \in Thread, ConnectFails(t) PROVE TypeOK'
  BY <1>10 DEF ConnectFails, AttemptFails, TriesLeft, Goto
<1>11. ASSUME NEW t \in Thread, Insert(t) PROVE TypeOK'
  BY <1>11 DEF Insert, Displaced, Closed, Give, Return, Goto
<1>12. ASSUME NEW t \in Thread, CloseEnd(t) PROVE TypeOK'
  BY <1>12 DEF CloseEnd, Closed, Return, Goto
<1>13. ASSUME NEW g \in Keeper, KeepaliveBegin(g) PROVE TypeOK'
  BY <1>13 DEF KeepaliveBegin
<1>14. ASSUME NEW g \in Keeper, NEW s \in Session, Probe(g, s) PROVE TypeOK'
  <2>1. misses' \in [Session -> 0 .. MaxAttempts]
    BY <1>14 DEF Probe
  <2>2. failed' \in [Session -> BOOLEAN]
    BY <1>14 DEF Probe
  <2>4. aged' \in [Session -> BOOLEAN]
    BY <1>14 DEF Probe
  <2>3. ktodo' \in [Keeper -> SUBSET Session]
    BY <1>14 DEF Probe
  <2> QED BY <1>14, <2>1, <2>2, <2>3, <2>4 DEF Probe
<1>15. ASSUME NEW g \in Keeper, KeepaliveEnd(g) PROVE TypeOK'
  BY <1>15 DEF KeepaliveEnd, Closed, Stale
<1>16. ASSUME NEW s \in Session, Age(s) PROVE TypeOK'
  BY <1>16 DEF Age
<1>17. ASSUME UNCHANGED vars PROVE TypeOK'
  BY <1>17 DEF vars
<1> QED BY <1>1, <1>2, <1>3, <1>4, <1>5, <1>6, <1>7, <1>8, <1>9, <1>10, <1>11, <1>12, <1>13, <1>14, <1>15, <1>16, <1>17
     DEF Next, Call, Proceed, Keep, Rest

\* The books.
LEMMA BooksStep ==
  ASSUME IInv, [Next]_vars
  PROVE  Books'
<1> USE PoolAssumption DEF IInv, TypeOK, Books, CallersFit, OneEntry, Accounted, FreshUntouched,
        Exclusive, entries, callers, keepers, Pooled
<1>1. ASSUME NEW t \in Thread, NEW k \in Key, AcquireBegin(t, k) PROVE Books'
  BY <1>1 DEF AcquireBegin, MayCall, Goto
<1>2. ASSUME NEW t \in Thread, NEW k \in Key, ReconnectBegin(t, k) PROVE Books'
  BY <1>2 DEF ReconnectBegin, MayCall, Goto, Closed
<1>3. ASSUME NEW t \in Thread, NEW s \in Session, Release(t, s) PROVE Books'
  <2>1. CallersFit'
    BY <1>3 DEF Release, MayCall
  <2>2. OneEntry'
    BY <1>3 DEF Release, MayCall
  <2>3. Accounted'
    BY <1>3 DEF Release, MayCall
  <2>4. FreshUntouched'
    BY <1>3 DEF Release, MayCall
  <2>5. Exclusive'
    <3>1. SUFFICES ASSUME NEW k \in Key, pool[k] # None
          PROVE  /\ \A u, v \in Thread : pool[k] \in held'[u] /\ pool[k] \in held'[v] => u = v
                 /\ inUse'[pool[k]] <=> \E u \in Thread : pool[k] \in held'[u]
      BY <1>3 DEF Release
    <3>2. \A u \in Thread : held'[u] \subseteq held[u]
      BY <1>3 DEF Release
    <3>3. CASE pool[k] = s
      <4>1. ~inUse'[s]
        BY <1>3, <3>3 DEF Release
      <4>2. \A u \in Thread : s \notin held'[u]
        BY <1>3, <3>1, <3>3 DEF Release
      <4> QED BY <3>3, <4>1, <4>2
    <3>4. CASE pool[k] # s
      <4>1. inUse'[pool[k]] = inUse[pool[k]]
        BY <1>3, <3>1, <3>4 DEF Release
      <4>2. \A u \in Thread : pool[k] \in held'[u] <=> pool[k] \in held[u]
        BY <1>3, <3>4 DEF Release
      <4> QED BY <3>1, <3>2, <4>1, <4>2
    <3> QED BY <3>3, <3>4
  <2> QED BY <2>1, <2>2, <2>3, <2>4, <2>5
<1>4. ASSUME NEW t \in Thread, NEW s \in Session, Remove(t, s) PROVE Books'
  <2>1. CallersFit'
    BY <1>4 DEF Remove, MayCall, Closed
  <2>2. OneEntry'
    BY <1>4 DEF Remove, MayCall, Closed
  <2>3. Accounted'
    <3>1. SUFFICES ASSUME NEW r \in Session
          PROVE  life'[r] = "open" <=> \/ \E k \in Key : pool'[k] = r
                                       \/ \E u \in Thread : made'[u] = r
      BY DEF Accounted
    <3>2. made' = made /\ \A k \in Key : pool'[k] = IF pool[k] = s THEN None ELSE pool[k]
      BY <1>4 DEF Remove
    <3>3. life'[r] = IF r = s /\ s \in Pooled THEN "closed" ELSE life[r]
      BY <1>4 DEF Remove, Closed
    <3>4. CASE r = s /\ s \in Pooled
      <4>1. life'[r] # "open" /\ \A k \in Key : pool'[k] # r
        BY <3>2, <3>3, <3>4
      <4>2. \A u \in Thread : made'[u] # r
        BY <3>2, <3>4
      <4> QED BY <4>1, <4>2
    <3>5. CASE ~(r = s /\ s \in Pooled)
      <4>1. life'[r] = life[r]
        BY <3>3, <3>5
      <4>2. \A k \in Key : pool'[k] = r <=> pool[k] = r
        BY <3>2, <3>5
      <4> QED BY <3>2, <4>1, <4>2
    <3> QED BY <3>4, <3>5
  <2>4. FreshUntouched'
    BY <1>4 DEF Remove, MayCall, Closed
  <2>5. Exclusive'
    BY <1>4 DEF Remove, MayCall, Closed
  <2> QED BY <2>1, <2>2, <2>3, <2>4, <2>5
<1>5. ASSUME NEW t \in Thread, CloseBegin(t) PROVE Books'
  <2>1. UNCHANGED <<pool, inUse, life, want, made, held>>
        /\ pc[t] = "idle" /\ pc' = [pc EXCEPT ![t] = "close"]
    BY <1>5 DEF CloseBegin, MayCall, Goto
  <2>2. \A u \in Thread : pc'[u] = IF u = t THEN "close" ELSE pc[u]
    BY <2>1
  <2>3. CallersFit'
    BY <2>1, <2>2
  <2>4. OneEntry' /\ Accounted'
    BY <2>1
  <2>5. FreshUntouched' /\ Exclusive'
    BY <2>1
  <2> QED BY <2>3, <2>4, <2>5
<1>6. ASSUME NEW t \in Thread, AcquireReuse(t) PROVE Books'
  BY <1>6 DEF AcquireReuse, Reusable, Give, Return, Goto
<1>7. ASSUME NEW t \in Thread, AcquireRefused(t) PROVE Books'
  BY <1>7 DEF AcquireRefused, AttemptFails, TriesLeft, Goto
<1>8. ASSUME NEW t \in Thread, AcquireConnect(t) PROVE Books'
  BY <1>8 DEF AcquireConnect, Goto
<1>9. ASSUME NEW t \in Thread, Connect(t) PROVE Books'
  BY <1>9 DEF Connect, Goto
<1>10. ASSUME NEW t \in Thread, ConnectFails(t) PROVE Books'
  <2>1. CallersFit'
    BY <1>10 DEF ConnectFails, AttemptFails, TriesLeft, Goto
  <2>2. OneEntry'
    BY <1>10 DEF ConnectFails, AttemptFails, TriesLeft, Goto
  <2>3. Accounted'
    BY <1>10 DEF ConnectFails, AttemptFails, TriesLeft, Goto
  <2>4. FreshUntouched'
    BY <1>10 DEF ConnectFails, AttemptFails, TriesLeft, Goto
  <2>5. Exclusive'
    BY <1>10 DEF ConnectFails, AttemptFails, TriesLeft, Goto
  <2> QED BY <2>1, <2>2, <2>3, <2>4, <2>5
<1>11. ASSUME NEW t \in Thread, Insert(t) PROVE Books'
  <2>1. CallersFit'
    BY <1>11 DEF Insert, Displaced, Closed, Give, Return, Goto
  <2>2. OneEntry'
    BY <1>11 DEF Insert, Displaced, Closed, Give, Return, Goto
  <2>3. Accounted'
    BY <1>11 DEF Insert, Displaced, Closed, Give, Return, Goto
  <2>4. FreshUntouched'
    BY <1>11 DEF Insert, Displaced, Closed, Give, Return, Goto
  <2>5. Exclusive'
    <3> DEFINE m == made[t]
    <3>1. /\ t \in Thread /\ m \in Session /\ want[t] \in Key
          /\ \A k \in Key : pool[k] # m
          /\ \A u \in Thread : m \notin held[u]
      BY <1>11 DEF Insert
    <3>2. /\ pool' = [pool EXCEPT ![want[t]] = m]
          /\ inUse' = [inUse EXCEPT ![m] = TRUE]
          /\ held' = [held EXCEPT ![t] = @ \cup {m}]
      BY <1>11 DEF Insert, Give
    <3>3. SUFFICES ASSUME NEW k \in Key, pool'[k] # None
          PROVE  /\ \A u, v \in Thread : pool'[k] \in held'[u] /\ pool'[k] \in held'[v] => u = v
                 /\ inUse'[pool'[k]] <=> \E u \in Thread : pool'[k] \in held'[u]
      OBVIOUS
    <3>4. CASE k = want[t]
      <4>1. pool'[k] = m /\ inUse'[m] /\ \A u \in Thread : m \in held'[u] <=> u = t
        BY <3>1, <3>2, <3>4
      <4> QED BY <4>1
    <3>5. CASE k # want[t]
      <4>1. pool'[k] = pool[k] /\ pool[k] \in Session /\ pool[k] # m
        BY <3>1, <3>2, <3>3, <3>5
      <4>2. inUse'[pool[k]] = inUse[pool[k]]
        BY <3>2, <4>1
      <4>3. \A u \in Thread : pool[k] \in held'[u] <=> pool[k] \in held[u]
        BY <3>2, <4>1
      <4> QED BY <4>1, <4>2, <4>3
    <3> QED BY <3>4, <3>5
  <2> QED BY <2>1, <2>2, <2>3, <2>4, <2>5
<1>12. ASSUME NEW t \in Thread, CloseEnd(t) PROVE Books'
  BY <1>12 DEF CloseEnd, Closed, Return, Goto
<1>13. ASSUME NEW g \in Keeper, KeepaliveBegin(g) PROVE Books'
  BY <1>13 DEF KeepaliveBegin
<1>14. ASSUME NEW g \in Keeper, NEW s \in Session, Probe(g, s) PROVE Books'
  BY <1>14 DEF Probe
<1>15. ASSUME NEW g \in Keeper, KeepaliveEnd(g) PROVE Books'
  <2>1. CallersFit'
    BY <1>15 DEF KeepaliveEnd, Closed, Stale
  <2>2. OneEntry'
    BY <1>15 DEF KeepaliveEnd, Closed, Stale
  <2>3. Accounted'
    <3>1. SUFFICES ASSUME NEW r \in Session
          PROVE  life'[r] = "open" <=> \/ \E k \in Key : pool'[k] = r
                                       \/ \E u \in Thread : made'[u] = r
      BY DEF Accounted
    <3>2. made' = made
      BY <1>15 DEF KeepaliveEnd
    <3>3. CASE g \in Background
      <4>1. \A k \in Key : pool'[k] = IF pool[k] \in Stale THEN None ELSE pool[k]
        BY <1>15, <3>3 DEF KeepaliveEnd
      <4>2. life'[r] = IF r \in Stale THEN "closed" ELSE life[r]
        BY <1>15, <3>3 DEF KeepaliveEnd, Closed
      <4> QED BY <3>2, <4>1, <4>2 DEF Stale
    <3>4. CASE g \notin Background
      <4>1. life' = life /\ pool' = pool
        BY <1>15, <3>4 DEF KeepaliveEnd
      <4> QED BY <3>2, <4>1
    <3> QED BY <3>3, <3>4
  <2>4. FreshUntouched'
    BY <1>15 DEF KeepaliveEnd, Closed, Stale
  <2>5. Exclusive'
    BY <1>15 DEF KeepaliveEnd, Closed, Stale
  <2> QED BY <2>1, <2>2, <2>3, <2>4, <2>5
<1>16. ASSUME NEW s \in Session, Age(s) PROVE Books'
  <2>1. UNCHANGED <<pool, inUse, life, want, made, held, pc>>
    BY <1>16 DEF Age
  <2> QED BY <2>1
<1>17. ASSUME UNCHANGED vars PROVE Books'
  BY <1>17 DEF vars
<1> QED BY <1>1, <1>2, <1>3, <1>4, <1>5, <1>6, <1>7, <1>8, <1>9, <1>10, <1>11, <1>12, <1>13, <1>14, <1>15, <1>16, <1>17
     DEF Next, Call, Proceed, Keep, Rest

\* The inductive invariant.
LEMMA Inductive == Spec => []IInv
<1>1. Init => IInv
  <2> SUFFICES ASSUME Init PROVE IInv
    OBVIOUS
  <2>1. TypeOK
    <3>1. /\ pool \in [Key -> Session \cup {None}]
          /\ inUse \in [Session -> BOOLEAN] /\ failed \in [Session -> BOOLEAN]
          /\ misses \in [Session -> 0 .. MaxAttempts] /\ aged \in [Session -> BOOLEAN]
      BY PoolAssumption DEF Init
    <3>2. /\ life \in [Session -> {"new", "open", "closed"}]
          /\ pc \in [Thread -> {"idle", "acquire", "connect", "insert", "close"}]
          /\ want \in [Thread -> Key \cup {None}]
          /\ made \in [Thread -> Session \cup {None}]
      BY DEF Init
    <3>3. /\ tries \in [Thread -> 0 .. MaxAttempts] /\ held \in [Thread -> SUBSET Session]
          /\ kpc \in [Keeper -> {"idle", "probe"}] /\ ktodo \in [Keeper -> SUBSET Session]
      BY PoolAssumption DEF Init
    <3> QED BY <3>1, <3>2, <3>3 DEF TypeOK
  <2>2. Books
    BY PoolAssumption
       DEF Init, Books, CallersFit, OneEntry, Accounted, FreshUntouched, Exclusive
  <2> QED BY <2>1, <2>2 DEF IInv
<1>2. IInv /\ [Next]_vars => IInv'
  BY TypeStep, BooksStep DEF IInv, Books
<1> QED BY <1>1, <1>2, PTL DEF Spec

-----------------------------------------------------------------------------
\* Those who have passed the check of the limit and not yet added their entry.
Connecting == {t \in Thread : pc[t] \in {"connect", "insert"}}

\* All the sets the limit is about are finite.
LEMMA CountsFinite ==
  /\ IsFiniteSet(Active) /\ Cardinality(Active) \in Nat
  /\ IsFiniteSet(Connecting) /\ Cardinality(Connecting) \in Nat
  /\ Cardinality(Connecting) <= Cardinality(Thread)
  /\ Cardinality(Thread) \in Nat
<1>1. Active \subseteq Session /\ Connecting \subseteq Thread
  BY DEF Active, Pooled, Connecting
<1> QED BY <1>1, PoolAssumption, FS_Subset, FS_CardinalityType

\* A step adds a healthy entry only for a thread that was connecting, and lets a
\* thread connect only below the limit.
LEMMA CapacityCases ==
  ASSUME IInv, [Next]_vars
  PROVE  \/ Active' \subseteq Active /\ Connecting' \subseteq Connecting
         \/ ~AtCapacity /\ Active' = Active
         \/ \E t \in Connecting, s \in Session : Connecting' = Connecting \ {t} /\ Active' \subseteq Active \cup {s}
<1> DEFINE Goal == \/ Active' \subseteq Active /\ Connecting' \subseteq Connecting
                   \/ ~AtCapacity /\ Active' = Active
                   \/ \E t \in Connecting, s \in Session : Connecting' = Connecting \ {t} /\ Active' \subseteq Active \cup {s}
<1> USE PoolAssumption DEF IInv, TypeOK, Books, CallersFit, Active, Pooled, Connecting,
        entries, callers, keepers
<1>1. ASSUME NEW t \in Thread, NEW k \in Key, AcquireBegin(t, k) PROVE Goal
  <2>1. Active' \subseteq Active
    BY <1>1 DEF AcquireBegin, MayCall, Goto
  <2>2. Connecting' \subseteq Connecting
    BY <1>1 DEF AcquireBegin, MayCall, Goto
  <2> QED BY <2>1, <2>2
<1>2. ASSUME NEW t \in Thread, NEW k \in Key, ReconnectBegin(t, k) PROVE Goal
  <2>1. Active' \subseteq Active
    BY <1>2 DEF ReconnectBegin, MayCall, Goto, Closed
  <2>2. Connecting' \subseteq Connecting
    BY <1>2 DEF ReconnectBegin, MayCall, Goto, Closed
  <2> QED BY <2>1, <2>2
<1>3. ASSUME NEW t \in Thread, NEW s \in Session, Release(t, s) PROVE Goal
  <2>1. Active' \subseteq Active
    BY <1>3 DEF Release, MayCall
  <2>2. Connecting' \subseteq Connecting
    BY <1>3 DEF Release, MayCall
  <2> QED BY <2>1, <2>2
<1>4. ASSUME NEW t \in Thread, NEW s \in Session, Remove(t, s) PROVE Goal
  <2>1. Active' \subseteq Active
    BY <1>4 DEF Remove, MayCall, Closed
  <2>2. Connecting' \subseteq Connecting
    BY <1>4 DEF Remove, MayCall, Closed
  <2> QED BY <2>1, <2>2
<1>5. ASSUME NEW t \in Thread, CloseBegin(t) PROVE Goal
  <2>1. Active' \subseteq Active
    BY <1>5 DEF CloseBegin, MayCall, Goto
  <2>2. Connecting' \subseteq Connecting
    BY <1>5 DEF CloseBegin, MayCall, Goto
  <2> QED BY <2>1, <2>2
<1>6. ASSUME NEW t \in Thread, AcquireReuse(t) PROVE Goal
  <2>1. Active' \subseteq Active
    BY <1>6 DEF AcquireReuse, Reusable, Give, Return, Goto
  <2>2. Connecting' \subseteq Connecting
    BY <1>6 DEF AcquireReuse, Reusable, Give, Return, Goto
  <2> QED BY <2>1, <2>2
<1>7. ASSUME NEW t \in Thread, AcquireRefused(t) PROVE Goal
  <2>1. Active' \subseteq Active
    BY <1>7 DEF AcquireRefused, AttemptFails, TriesLeft, Goto
  <2>2. Connecting' \subseteq Connecting
    BY <1>7 DEF AcquireRefused, AttemptFails, TriesLeft, Goto
  <2> QED BY <2>1, <2>2
<1>8. ASSUME NEW t \in Thread, AcquireConnect(t) PROVE Goal
  BY <1>8 DEF AcquireConnect, Goto
<1>9. ASSUME NEW t \in Thread, Connect(t) PROVE Goal
  <2>1. Active' \subseteq Active
    BY <1>9 DEF Connect, Goto
  <2>2. Connecting' \subseteq Connecting
    BY <1>9 DEF Connect, Goto
  <2> QED BY <2>1, <2>2
<1>10. ASSUME NEW t \in Thread, ConnectFails(t) PROVE Goal
  <2>1. Active' \subseteq Active
    BY <1>10 DEF ConnectFails, AttemptFails, TriesLeft, Goto
  <2>2. Connecting' \subseteq Connecting
    BY <1>10 DEF ConnectFails, AttemptFails, TriesLeft, Goto
  <2> QED BY <2>1, <2>2
<1>11. ASSUME NEW t \in Thread, Insert(t) PROVE Goal
  <2>1. t \in Connecting /\ Connecting' = Connecting \ {t}
    BY <1>11 DEF Insert, Return, Goto
  <2>2. Active' \subseteq Active \cup {made[t]}
    BY <1>11 DEF Insert
  <2>3. made[t] \in Session
    BY <1>11 DEF Insert
  <2> QED BY <2>1, <2>2, <2>3
<1>12. ASSUME NEW t \in Thread, CloseEnd(t) PROVE Goal
  <2>1. Active' \subseteq Active
    BY <1>12 DEF CloseEnd, Closed, Return, Goto
  <2>2. Connecting' \subseteq Connecting
    BY <1>12 DEF CloseEnd, Closed, Return, Goto
  <2> QED BY <2>1, <2>2
<1>13. ASSUME NEW g \in Keeper, KeepaliveBegin(g) PROVE Goal
  <2>1. Active' \subseteq Active
    BY <1>13 DEF KeepaliveBegin
  <2>2. Connecting' \subseteq Connecting
    BY <1>13 DEF KeepaliveBegin
  <2> QED BY <2>1, <2>2
<1>14. ASSUME NEW g \in Keeper, NEW s \in Session, Probe(g, s) PROVE Goal
  <2>1. Active' \subseteq Active
    BY <1>14 DEF Probe
  <2>2. Connecting' \subseteq Connecting
    BY <1>14 DEF Probe
  <2> QED BY <2>1, <2>2
<1>15. ASSUME NEW g \in Keeper, KeepaliveEnd(g) PROVE Goal
  <2>1. Active' \subseteq Active
    BY <1>15 DEF KeepaliveEnd, Closed, Stale
  <2>2. Connecting' \subseteq Connecting
    BY <1>15 DEF KeepaliveEnd, Closed, Stale
  <2> QED BY <2>1, <2>2
<1>16. ASSUME NEW s \in Session, Age(s) PROVE Goal
  <2>1. Active' \subseteq Active
    BY <1>16 DEF Age
  <2>2. Connecting' \subseteq Connecting
    BY <1>16 DEF Age
  <2> QED BY <2>1, <2>2
<1>17. ASSUME UNCHANGED vars PROVE Goal
  <2>1. Active' \subseteq Active
    BY <1>17 DEF vars
  <2>2. Connecting' \subseteq Connecting
    BY <1>17 DEF vars
  <2> QED BY <2>1, <2>2
<1> HIDE DEF Goal
<1>100. Goal
  BY <1>1, <1>2, <1>3, <1>4, <1>5, <1>6, <1>7, <1>8, <1>9, <1>10, <1>11, <1>12, <1>13, <1>14, <1>15, <1>16, <1>17
     DEF Next, Call, Proceed, Keep, Rest
<1> QED BY <1>100 DEF Goal

\* The healthy entries and the connections that may become some.
HealthyOvershoot ==
  MaxActive # 0 => Cardinality(Active) + Cardinality(Connecting) <= MaxActive + Cardinality(Thread) - 1

\* So the limit is exceeded by no more than the other threads.
LEMMA CapacityStep ==
  ASSUME IInv, [Next]_vars, HealthyOvershoot
  PROVE  HealthyOvershoot'
<1> DEFINE a == Cardinality(Active)
           c == Cardinality(Connecting)
           n == Cardinality(Thread)
<1>1. SUFFICES ASSUME MaxActive # 0 PROVE a' + c' <= MaxActive + n - 1
  BY DEF HealthyOvershoot
<1>2. /\ IsFiniteSet(Active) /\ a \in Nat /\ IsFiniteSet(Connecting) /\ c \in Nat /\ n \in Nat
      /\ a' \in Nat /\ c' \in Nat /\ c' <= n
  <2>1. Active' \subseteq Session /\ Connecting' \subseteq Thread
    BY DEF Active, Pooled, Connecting
  <2>2. a' \in Nat /\ c' \in Nat /\ c' <= n
    BY <2>1, PoolAssumption, FS_Subset, FS_CardinalityType
  <2> QED BY <2>2, CountsFinite
<1>3. a + c <= MaxActive + n - 1
  BY <1>1 DEF HealthyOvershoot
<1>4. CASE Active' \subseteq Active /\ Connecting' \subseteq Connecting
  <2>1. a' <= a /\ c' <= c
    BY <1>2, <1>4, FS_Subset
  <2> QED BY <2>1, <1>2, <1>3, PoolAssumption
<1>5. CASE ~AtCapacity /\ Active' = Active
  <2>1. a < MaxActive /\ a' = a
    BY <1>1, <1>2, <1>5, PoolAssumption DEF AtCapacity
  <2> QED BY <2>1, <1>2, PoolAssumption
<1>6. ASSUME NEW t \in Connecting, NEW s \in Session,
             Connecting' = Connecting \ {t}, Active' \subseteq Active \cup {s}
      PROVE  a' + c' <= MaxActive + n - 1
  <2>1. c' = c - 1
    BY <1>2, <1>6, FS_RemoveElement
  <2>2. IsFiniteSet(Active \cup {s}) /\ Cardinality(Active \cup {s}) <= a + 1
        /\ Cardinality(Active \cup {s}) \in Nat
    <3>1. IsFiniteSet(Active \cup {s})
          /\ Cardinality(Active \cup {s}) = IF s \in Active THEN a ELSE a + 1
      BY <1>2, FS_AddElement
    <3> QED BY <1>2, <3>1
  <2>3. a' <= Cardinality(Active \cup {s})
    BY <1>6, <2>2, FS_Subset
  <2>4. a' <= a + 1
    BY <2>2, <2>3, <1>2
  <2>5. MaxActive \in Nat /\ n \in Nat
    BY <1>2, PoolAssumption
  <2> QED BY <2>1, <2>4, <2>5, <1>2, <1>3
<1> QED BY <1>4, <1>5, <1>6, CapacityCases

\* What is logged in is healthy, given up, or in the hands of a thread that has left
\* the lock to connect it.
LEMMA OpenCounted ==
  ASSUME IInv, HealthyOvershoot
  PROVE  CapacityOvershoot
<1> DEFINE C == {t \in Thread : pc[t] = "connect"}
           I == {t \in Thread : pc[t] = "insert"}
           Limit == MaxActive + (Cardinality(Thread) - 1)
<1> SUFFICES ASSUME MaxActive # 0
             PROVE  Cardinality(Open) + Cardinality(C) <= Limit + Cardinality(GivenUp)
  BY DEF CapacityOvershoot
<1>1. /\ IsFiniteSet(Active) /\ IsFiniteSet(GivenUp) /\ IsFiniteSet(Making)
      /\ IsFiniteSet(C) /\ IsFiniteSet(I)
  <2>1. Active \subseteq Session /\ GivenUp \subseteq Session /\ C \subseteq Thread /\ I \subseteq Thread
    BY DEF Active, GivenUp, Pooled
  <2>2. Making \subseteq Session
    BY DEF Making, IInv, TypeOK
  <2> QED BY <2>1, <2>2, PoolAssumption, FS_Subset
<1>2. Open = Active \cup GivenUp \cup Making
  <2>1. Open = Pooled \cup Making
    BY PoolAssumption DEF IInv, TypeOK, Books, Accounted, Open, Pooled, Making
  <2> QED BY <2>1 DEF Active, GivenUp
<1>3. Cardinality(Making) <= Cardinality(I)
  <2> DEFINE f == [t \in I |-> made[t]]
  <2>1. f \in Surjection(I, Making)
    <3>1. Making = {made[t] : t \in I}
      BY DEF Making, IInv, Books, CallersFit
    <3> QED BY <3>1 DEF Surjection
  <2> QED BY <2>1, <1>1, FS_Surjection
<1>4. Cardinality(Connecting) = Cardinality(C) + Cardinality(I)
  <2>1. Connecting = C \cup I /\ C \cap I = {}
    BY DEF Connecting
  <2>2. Cardinality(C \cup I) = Cardinality(C) + Cardinality(I) - Cardinality(C \cap I)
    BY <1>1, FS_Union
  <2>3. Cardinality(C \cap I) = 0 /\ Cardinality(C) \in Nat /\ Cardinality(I) \in Nat
    BY <2>1, <1>1, FS_EmptySet, FS_CardinalityType
  <2> HIDE DEF C, I
  <2> QED BY <2>1, <2>2, <2>3
<1>5. Cardinality(Open) <= Cardinality(Active) + Cardinality(GivenUp) + Cardinality(Making)
  <2> DEFINE P == Active \cup GivenUp
  <2>1. IsFiniteSet(P) /\ Cardinality(P) = Cardinality(Active) + Cardinality(GivenUp) - Cardinality(Active \cap GivenUp)
    BY <1>1, FS_Union
  <2>2. Cardinality(P \cup Making) = Cardinality(P) + Cardinality(Making) - Cardinality(P \cap Making)
    BY <2>1, <1>1, FS_Union
  <2>3. Cardinality(Active \cap GivenUp) \in Nat /\ Cardinality(P \cap Making) \in Nat
    BY <2>1, <1>1, FS_Intersection, FS_CardinalityType
  <2>4. Open = P \cup Making
    BY <1>2
  <2>5. Cardinality(Active) \in Nat /\ Cardinality(GivenUp) \in Nat /\ Cardinality(Making) \in Nat
    BY <1>1, FS_CardinalityType
  <2> HIDE DEF P
  <2> QED BY <2>1, <2>2, <2>3, <2>4, <2>5
<1>6. Cardinality(Active) + Cardinality(Connecting) <= Limit
  <2>1. MaxActive \in Nat /\ Cardinality(Thread) \in Nat /\ Cardinality(Active) \in Nat /\ Cardinality(Connecting) \in Nat
    BY CountsFinite, PoolAssumption
  <2> QED BY <2>1 DEF HealthyOvershoot
<1>7. /\ Cardinality(Active) \in Nat /\ Cardinality(GivenUp) \in Nat /\ Cardinality(Making) \in Nat
      /\ Cardinality(C) \in Nat /\ Cardinality(I) \in Nat /\ Limit \in Int /\ Cardinality(Open) \in Nat
  <2>1. IsFiniteSet(Open)
    BY <1>2, <1>1, FS_Union
  <2> QED BY <2>1, <1>1, CountsFinite, PoolAssumption, FS_CardinalityType
<1> HIDE DEF C, I, Limit
<1> QED BY <1>3, <1>4, <1>5, <1>6, <1>7

\* The sessions that are logged in are those in the pool and those about to be; the
\* ones keepalive has not given up exceed max_active_sessions by at most one for each
\* thread but one: for every number of keys, threads and keepalive callers.
THEOREM AccountsCorrect == Spec => []PoolAccounts
<1>1. IInv => TypeOK /\ NothingLeaks
  BY PoolAssumption DEF IInv, TypeOK, Books, Accounted, NothingLeaks, Open, Pooled, Making
<1>2. Init => HealthyOvershoot
  <2> SUFFICES ASSUME Init, MaxActive # 0
      PROVE  Cardinality(Active) + Cardinality(Connecting) <= MaxActive + Cardinality(Thread) - 1
    BY DEF HealthyOvershoot
  <2>1. Active = {} /\ Connecting = {}
    BY PoolAssumption DEF Init, Active, Pooled, Connecting
  <2> QED BY <2>1, FS_EmptySet, CountsFinite, PoolAssumption
<1>3. IInv /\ [Next]_vars /\ HealthyOvershoot => HealthyOvershoot'
  BY CapacityStep
<1>4. IInv /\ HealthyOvershoot => CapacityOvershoot
  BY OpenCounted
<1>5. TypeOK /\ NothingLeaks /\ CapacityOvershoot => PoolAccounts
  BY DEF PoolAccounts
<1> QED BY Inductive, <1>1, <1>2, <1>3, <1>4, <1>5, PTL DEF Spec

\* Whatever acquires, evicts, displaces or closes entries meanwhile, an entry has at
\* most one caller, and is in use just as long as it has one.
THEOREM ExclusionCorrect == Spec => []HeldExclusively
<1>1. IInv => HeldExclusively
  BY PoolAssumption DEF IInv, TypeOK, Books, Exclusive, HeldExclusively, Pooled
<1> QED BY Inductive, <1>1, PTL

\* The keepalive thread closes no session that a caller has, because what it evicts
\* it finds unused under the lock, not in its snapshot.
THEOREM KeepaliveCorrect == Spec => KeepaliveSparesUsers
<1>1. ASSUME IInv, [Next]_vars,
             NEW k \in Keeper, NEW s \in Session, kpc[k] = "probe", kpc'[k] = "idle",
             NEW u \in Thread, s \in held[u]
      PROVE  life'[s] = life[s]
  <2>1. KeepaliveEnd(k)
    <3>1. kpc \in [Keeper -> {"idle", "probe"}] /\ kpc' # kpc
      BY <1>1 DEF IInv, TypeOK
    <3>2. \A t \in Thread : ~Call(t) /\ ~Proceed(t)
      BY <3>1 DEF Call, Proceed, keepers, AcquireBegin, ReconnectBegin, Release, Remove,
         CloseBegin, AcquireReuse, AcquireRefused, AcquireConnect, Connect, ConnectFails, Insert,
         CloseEnd
    <3>3. (\A r \in Session : ~Age(r)) /\ ~Rest /\ ~UNCHANGED vars
      BY <3>1 DEF Age, Rest, vars, keepers
    <3>4. PICK g \in Keeper : Keep(g)
      BY <1>1, <3>2, <3>3 DEF Next
    <3>5. CASE g = k
      BY <1>1, <3>1, <3>4, <3>5 DEF Keep, KeepaliveBegin, Probe
    <3>6. CASE g # k
      BY <1>1, <3>1, <3>4, <3>6 DEF Keep, KeepaliveBegin, KeepaliveEnd, Probe
    <3> QED BY <3>5, <3>6
  <2>2. s \notin Stale
    BY <1>1, PoolAssumption DEF IInv, TypeOK, Books, Exclusive, Stale, Pooled
  <2> QED BY <2>1, <2>2, <1>1 DEF KeepaliveEnd, Closed, IInv, TypeOK
<1>2. IInv /\ [Next]_vars =>
        [\A k \in Keeper, s \in Session :
           kpc[k] = "probe" /\ kpc'[k] = "idle" /\ (\E t \in Thread : s \in held[t])
             => life'[s] = life[s]]_vars
  BY <1>1
<1> QED BY Inductive, <1>2, PTL DEF Spec, KeepaliveSparesUsers

-----------------------------------------------------------------------------
(* The alarm server *)

\* The variables have their types, but for the upper bound on slots.
Typed ==
  /\ sock \in {"none", "open", "closed"}
  /\ stop \in BOOLEAN
  /\ conn \in [Conn -> {"none", "backlog", "accepted", "closed"}]
  /\ slots \in Nat
  /\ threads \in SUBSET Conn
  /\ locked \in BOOLEAN
  /\ spc \in ServePC
  /\ cur \in Conn \cup {NoConn}
  /\ hpc \in [Conn -> HandlePC]
  /\ cpc \in ClosePC
  /\ waiting \in SUBSET Conn

\* The connection serve_forever works on is its own until it starts the handler:
\* only connections that were accepted have had one.
CurIsOwn ==
  /\ spc \in {"admit", "publish", "start", "giveback"} => cur \in Conn /\ conn[cur] = "accepted"
  /\ spc \in {"admit", "publish", "giveback"} => hpc[cur] = "none"
  /\ \A c \in Conn : hpc[c] = "new" <=> spc = "start" /\ c = cur
  /\ \A c \in Conn : hpc[c] # "none" => conn[c] \in {"accepted", "closed"}

\* What _threads_lock protects: besides the running handlers, _threads holds the one
\* being started, and that only while the lock is taken.
ThreadsListed ==
  /\ locked <=> spc = "start"
  /\ threads = Running \cup (IF spc = "start" THEN {cur} ELSE {})

ServerInv == Typed /\ CurIsOwn /\ ThreadsListed /\ SlotsConserved /\ JoinsStartedThreads

\* Initially every slot is free and no handler exists.
LEMMA ServerInvInit == ServerInit => ServerInv
<1> SUFFICES ASSUME ServerInit PROVE ServerInv
  OBVIOUS
<1>1. Typed
  <2>1. conn \in [Conn -> {"none", "backlog", "accepted", "closed"}] /\ hpc \in [Conn -> HandlePC]
    BY DEF ServerInit, HandlePC
  <2>2. slots \in Nat
    BY ServerAssumption DEF ServerInit
  <2>3. spc \in ServePC /\ cpc \in ClosePC /\ cur \in Conn \cup {NoConn}
    BY DEF ServerInit, ServePC, ClosePC
  <2>4. sock \in {"none", "open", "closed"} /\ stop \in BOOLEAN /\ locked \in BOOLEAN
    BY DEF ServerInit
  <2>5. threads \in SUBSET Conn /\ waiting \in SUBSET Conn
    BY DEF ServerInit
  <2> QED BY <2>1, <2>2, <2>3, <2>4, <2>5 DEF Typed
<1>2. CurIsOwn
  BY DEF ServerInit, CurIsOwn
<1>3. ThreadsListed /\ JoinsStartedThreads
  BY DEF ServerInit, ThreadsListed, JoinsStartedThreads, Running
<1>4. SlotHolders = {}
  BY DEF ServerInit, SlotHolders
<1>5. SlotsConserved
  BY <1>4, FS_EmptySet, ServerAssumption DEF ServerInit, SlotsConserved
<1> QED BY <1>1, <1>2, <1>3, <1>5 DEF ServerInv

\* The set of those who hold a slot is finite.
LEMMA HoldersFinite ==
  ASSUME CurIsOwn PROVE IsFiniteSet(SlotHolders) /\ Cardinality(SlotHolders) \in Nat
<1>1. SlotHolders \subseteq Conn
  BY DEF CurIsOwn, SlotHolders
<1> QED BY <1>1, FS_Subset, FS_CardinalityType, ServerAssumption

\* Slots change with their holders: each step that takes one adds a holder, each that
\* gives one back removes one, and every other step leaves both alone.
LEMMA SlotsStep ==
  ASSUME ServerInv, [ServerNext]_serverVars
  PROVE  SlotsConserved'
<1> USE DEF ServerInv
<1>0. IsFiniteSet(SlotHolders) /\ Cardinality(SlotHolders) \in Nat
  BY HoldersFinite
<1>1. SUFFICES \/ SlotHolders' = SlotHolders /\ slots' = slots
               \/ \E c : c \notin SlotHolders /\ SlotHolders' = SlotHolders \cup {c} /\ slots' = slots - 1
               \/ \E c : c \in SlotHolders /\ SlotHolders' = SlotHolders \ {c} /\ slots' = slots + 1
  <2>1. CASE SlotHolders' = SlotHolders /\ slots' = slots
    BY <2>1 DEF SlotsConserved
  <2>2. ASSUME NEW c, c \notin SlotHolders, SlotHolders' = SlotHolders \cup {c}, slots' = slots - 1
        PROVE  SlotsConserved'
    <3>1. Cardinality(SlotHolders \cup {c}) = Cardinality(SlotHolders) + 1
      BY <2>2, <1>0, FS_AddElement
    <3> QED BY <2>2, <3>1, <1>0, ServerAssumption DEF SlotsConserved, Typed
  <2>3. ASSUME NEW c, c \in SlotHolders, SlotHolders' = SlotHolders \ {c}, slots' = slots + 1
        PROVE  SlotsConserved'
    <3>1. Cardinality(SlotHolders \ {c}) = Cardinality(SlotHolders) - 1
      BY <2>3, <1>0, FS_RemoveElement
    <3> QED BY <2>3, <3>1, <1>0, ServerAssumption DEF SlotsConserved, Typed
  <2> QED BY <1>1, <2>1, <2>2, <2>3
<1> USE DEF Typed, CurIsOwn, SlotHolders, server, closer
<1>2. CASE Start \/ ServeCall \/ ServeBegin \/ ServeBindFails \/ ServeAssert \/ ServeCheck \/ ServeLoad
  BY <1>2 DEF Start, ServeCall, ServeBegin, ServeBindFails, ServeAssert, ServeCheck, ServeLoad, Serve
<1>3. CASE (\E c \in Conn : Accept(c) \/ Dial(c)) \/ AcceptTimeout \/ AcceptError
  BY <1>3 DEF Accept, Dial, AcceptTimeout, AcceptError, Serve
<1>4. CASE Admit
  <2>1. CASE slots > 0
    <3>1. cur \notin SlotHolders /\ SlotHolders' = SlotHolders \cup {cur} /\ slots' = slots - 1
      BY <1>4, <2>1 DEF Admit
    <3> QED BY <3>1
  <2>2. CASE ~(slots > 0)
    BY <1>4, <2>2 DEF Admit
  <2> QED BY <2>1, <2>2
<1>5. CASE Publish \/ StartHandler \/ StartFails
  BY <1>5 DEF Publish, StartHandler, StartFails, Serve, HandlePC
<1>6. CASE GiveBack
  <2>1. cur \in SlotHolders /\ SlotHolders' = SlotHolders \ {cur} /\ slots' = slots + 1
    BY <1>6 DEF GiveBack, Serve, SlotsGivenBack
  <2> QED BY <2>1
<1>7. ASSUME NEW c \in Conn, Read(c) \/ Callback(c) \/ CloseConn(c) \/ Unlist(c)
      PROVE  SlotHolders' = SlotHolders /\ slots' = slots
  BY <1>7 DEF Read, Callback, CloseConn, Unlist, Handle, HandlePC
<1>8. ASSUME NEW c \in Conn, ReleaseSlot(c)
      PROVE  c \in SlotHolders /\ SlotHolders' = SlotHolders \ {c} /\ slots' = slots + 1
  BY <1>8 DEF ReleaseSlot, Handle, HandlePC
<1>9. CASE CloseCall \/ CloseStep
  BY <1>9 DEF CloseCall, CloseStep, CloseSocket, ForgetSocket, Snapshot, Joined, Step, server
<1>10. CASE UNCHANGED serverVars
  BY <1>10 DEF serverVars, server, closer
<1> QED
  BY <1>2, <1>3, <1>4, <1>5, <1>6, <1>7, <1>8, <1>9, <1>10 DEF ServerNext, ServeStep, HandleStep

\* The types, the connection of serve_forever, _threads and what close waits for.
LEMMA RestStep ==
  ASSUME ServerInv, [ServerNext]_serverVars
  PROVE  (Typed /\ CurIsOwn /\ ThreadsListed /\ JoinsStartedThreads)'
<1> USE DEF ServerInv, Typed, CurIsOwn, ThreadsListed, Running, JoinsStartedThreads,
            ServePC, HandlePC, ClosePC, server, closer
<1>2. CASE Start \/ ServeCall \/ ServeBegin \/ ServeBindFails \/ ServeAssert \/ ServeCheck \/ ServeLoad
  BY <1>2 DEF Start, ServeCall, ServeBegin, ServeBindFails, ServeAssert, ServeCheck, ServeLoad, Serve
<1>3. ASSUME NEW c \in Conn, Accept(c)
      PROVE  (Typed /\ CurIsOwn /\ ThreadsListed /\ JoinsStartedThreads)'
  BY <1>3 DEF Accept, Serve
<1>4. ASSUME NEW c \in Conn, Dial(c)
      PROVE  (Typed /\ CurIsOwn /\ ThreadsListed /\ JoinsStartedThreads)'
  BY <1>4 DEF Dial
<1>5. CASE AcceptTimeout \/ AcceptError
  BY <1>5 DEF AcceptTimeout, AcceptError, Serve
<1>6. CASE Admit
  BY <1>6 DEF Admit
<1>7. CASE Publish
  BY <1>7 DEF Publish, Serve, PublishLocked
<1>8. CASE StartHandler
  BY <1>8 DEF StartHandler, Serve
<1>9. CASE StartFails
  BY <1>9 DEF StartFails, Serve
<1>10. CASE GiveBack
  BY <1>10 DEF GiveBack, Serve, SlotsGivenBack
<1>11. ASSUME NEW c \in Conn, Read(c) \/ Callback(c) \/ CloseConn(c)
       PROVE  (Typed /\ CurIsOwn /\ ThreadsListed /\ JoinsStartedThreads)'
  BY <1>11 DEF Read, Callback, CloseConn, Handle
<1>12. ASSUME NEW c \in Conn, Unlist(c) \/ ReleaseSlot(c)
       PROVE  (Typed /\ CurIsOwn /\ ThreadsListed /\ JoinsStartedThreads)'
  BY <1>12 DEF Unlist, ReleaseSlot, Handle
<1>13. CASE CloseCall
  BY <1>13 DEF CloseCall
<1>17. CASE ForgetSocket
  BY <1>17 DEF ForgetSocket, Step
<1>18. CASE Joined
  BY <1>18 DEF Joined, Step
<1>15. CASE CloseSocket
  BY <1>15 DEF CloseSocket, Step
<1>16. CASE Snapshot
  BY <1>16 DEF Snapshot, Step
<1>14. CASE UNCHANGED serverVars
  BY <1>14 DEF serverVars
<1> QED
  BY <1>2, <1>3, <1>4, <1>5, <1>6, <1>7, <1>8, <1>9, <1>10, <1>11, <1>12, <1>13, <1>14, <1>15, <1>16,
     <1>17, <1>18
     DEF ServerNext, ServeStep, HandleStep, CloseStep

\* The inductive invariant.
LEMMA ServerInvCorrect == ServerSpec => []ServerInv
<1>1. ServerInv /\ [ServerNext]_serverVars => ServerInv'
  BY SlotsStep, RestStep DEF ServerInv
<1> QED BY ServerInvInit, <1>1, PTL DEF ServerSpec

\* The slots are exact and _threads lists the running handlers, at every step of the
\* accepting thread, the handlers and close, with any number of connections.
THEOREM BooksCorrect == ServerSpec => []BooksKept
<1>1. ServerInv => BooksKept
  <2> SUFFICES ASSUME ServerInv PROVE BooksKept
    OBVIOUS
  <2>1. slots \in 0 .. MaxConnections
    <3>1. Cardinality(SlotHolders) \in Nat
      BY HoldersFinite DEF ServerInv
    <3>2. slots \in Nat /\ slots + Cardinality(SlotHolders) = MaxConnections
      BY DEF ServerInv, SlotsConserved, Typed
    <3> QED BY <3>1, <3>2, ServerAssumption
  <2>2. ServerTypeOK
    BY <2>1 DEF ServerInv, Typed, ServerTypeOK
  <2>3. ThreadsTruthful
    BY DEF ServerInv, ThreadsListed, ThreadsTruthful
  <2> QED BY <2>2, <2>3 DEF ServerInv, BooksKept
<1> QED BY ServerInvCorrect, <1>1, PTL

\* close never joins a thread that was registered but not started.
THEOREM JoinsCorrect == ServerSpec => []JoinsStartedThreads
<1>1. ServerInv => JoinsStartedThreads
  BY DEF ServerInv
<1> QED BY ServerInvCorrect, <1>1, PTL
=============================================================================
