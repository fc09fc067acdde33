------------------------ MODULE DeviceManager_proofs ------------------------
(***************************************************************************)
(* Proofs about the device managers (DeviceManager): the timeout of the    *)
(* process is set back, the full picture of the main stream is tried before *)
(* a small one, nothing logs in under a deadline, and a URL shows a camera  *)
(* that is, or was within the time to live, behind the channel.             *)
(*                                                                         *)
(* The invariant MInv says what every manager does (OpOK relates its legs,  *)
(* tried and to come, to its settings), what every entry of the cache       *)
(* promises (Honest), and when the timeout is the default.  A step of a     *)
(* manager is shown to satisfy Works, which keeps all three.                *)
(***************************************************************************)
EXTENDS DeviceManager, SequenceTheorems, TLAPS

-----------------------------------------------------------------------------
(* Sequences *)

\* The head and the tail of a sequence that is not empty.
LEMMA HeadTail ==
  ASSUME NEW S, NEW s \in Seq(S), s # <<>>
  PROVE  /\ Head(s) = s[1] /\ Head(s) \in S /\ 1 \in DOMAIN s
         /\ Len(s) \in Nat \ {0} /\ DOMAIN s = 1..Len(s)
         /\ Tail(s) \in Seq(S) /\ Len(Tail(s)) = Len(s) - 1 /\ DOMAIN Tail(s) = 1..Len(s) - 1
         /\ \A i \in 1..Len(s) - 1 : Tail(s)[i] = s[i + 1]
<1>1. /\ Head(s) \in S /\ Tail(s) \in Seq(S) /\ Len(Tail(s)) = Len(s) - 1
      /\ \A i \in 1..Len(Tail(s)) : Tail(s)[i] = s[i + 1]
  BY HeadTailProperties
<1>2. Len(s) \in Nat \ {0} /\ DOMAIN s = 1..Len(s) /\ DOMAIN Tail(s) = 1..Len(Tail(s))
  BY <1>1, EmptySeq, LenProperties
<1>3. Head(s) = s[1] /\ 1 \in DOMAIN s
  BY <1>2
<1> QED BY <1>1, <1>2, <1>3

\* A sequence without one of its elements.
LEMMA Removed ==
  ASSUME NEW S, NEW s \in Seq(S), NEW i \in DOMAIN s
  PROVE  RemoveAt(s, i) \in Seq(S) /\ Len(RemoveAt(s, i)) = Len(s) - 1 /\ Len(s) \in Nat
<1>1. Len(s) \in Nat /\ i \in 1..Len(s) /\ \A j \in 1..Len(s) : s[j] \in S
  BY LenProperties, ElementOfSeq
<1> DEFINE n == Len(s)
<1>2. n \in Nat /\ i \in 1..n /\ \A j \in 1..n : s[j] \in S
  BY <1>1
<1> HIDE DEF n
<1>3. SubSeq(s, 1, i - 1) \in Seq(S) /\ Len(SubSeq(s, 1, i - 1)) = i - 1
  <2>1. 1 \in Int /\ i - 1 \in Int /\ \A j \in 1..i - 1 : s[j] \in S
    BY <1>2
  <2>2. /\ SubSeq(s, 1, i - 1) \in Seq(S)
        /\ Len(SubSeq(s, 1, i - 1)) = IF 1 <= i - 1 THEN (i - 1) - 1 + 1 ELSE 0
    BY <2>1, SubSeqProperties
  <2> QED BY <1>2, <2>2
<1>4. SubSeq(s, i + 1, n) \in Seq(S) /\ Len(SubSeq(s, i + 1, n)) = n - i
  <2>1. i + 1 \in Int /\ n \in Int /\ \A j \in i + 1..n : s[j] \in S
    BY <1>2
  <2>2. /\ SubSeq(s, i + 1, n) \in Seq(S)
        /\ Len(SubSeq(s, i + 1, n)) = IF i + 1 <= n THEN n - (i + 1) + 1 ELSE 0
    BY <2>1, SubSeqProperties
  <2> QED BY <1>2, <2>2
<1>5. RemoveAt(s, i) = SubSeq(s, 1, i - 1) \o SubSeq(s, i + 1, n)
  BY DEF RemoveAt, n
<1>6. /\ SubSeq(s, 1, i - 1) \o SubSeq(s, i + 1, n) \in Seq(S)
      /\ Len(SubSeq(s, 1, i - 1) \o SubSeq(s, i + 1, n)) = Len(SubSeq(s, 1, i - 1)) + Len(SubSeq(s, i + 1, n))
  BY <1>3, <1>4, ConcatProperties
<1>7. (i - 1) + (n - i) = n - 1
  BY <1>2
<1>8. Len(RemoveAt(s, i)) = n - 1
  BY <1>3, <1>4, <1>5, <1>6, <1>7
<1> QED BY <1>1, <1>5, <1>6, <1>8 DEF n

\* Two sequences, one after the other.
LEMMA Joined ==
  ASSUME NEW S, NEW s \in Seq(S), NEW t \in Seq(S)
  PROVE  /\ s \o t \in Seq(S) /\ DOMAIN s = 1..Len(s) /\ DOMAIN t = 1..Len(t)
         /\ Len(s) \in Nat /\ Len(t) \in Nat /\ DOMAIN (s \o t) = 1..Len(s) + Len(t)
         /\ \A i \in 1..Len(s) : (s \o t)[i] = s[i]
         /\ \A i \in 1..Len(t) : (s \o t)[Len(s) + i] = t[i]
         /\ \A i \in 1..Len(s) + Len(t) : i \notin 1..Len(s) =>
              i - Len(s) \in 1..Len(t) /\ (s \o t)[i] = t[i - Len(s)]
<1>1. /\ s \o t \in Seq(S) /\ Len(s \o t) = Len(s) + Len(t)
      /\ \A i \in 1 .. Len(s) + Len(t) : (s \o t)[i] = IF i <= Len(s) THEN s[i] ELSE t[i - Len(s)]
  BY ConcatProperties
<1>2. /\ DOMAIN s = 1..Len(s) /\ DOMAIN t = 1..Len(t) /\ Len(s) \in Nat /\ Len(t) \in Nat
      /\ DOMAIN (s \o t) = 1..Len(s \o t)
  BY <1>1, LenProperties
<1> DEFINE m == Len(s)
           n == Len(t)
<1>3. m \in Nat /\ n \in Nat /\ \A i \in 1..m + n : (s \o t)[i] = IF i <= m THEN s[i] ELSE t[i - m]
  BY <1>1, <1>2
<1>4. /\ \A i \in 1..m : (s \o t)[i] = s[i]
      /\ \A i \in 1..n : (s \o t)[m + i] = t[i]
      /\ \A i \in 1..m + n : i \notin 1..m => i - m \in 1..n /\ (s \o t)[i] = t[i - m]
  <2> HIDE DEF m, n
  <2>1. \A i \in 1..m : i \in 1..m + n /\ i <= m
    BY <1>3
  <2>2. \A i \in 1..n : m + i \in 1..m + n /\ ~(m + i <= m) /\ (m + i) - m = i
    BY <1>3
  <2>3. \A i \in 1..m + n : i \notin 1..m => ~(i <= m) /\ i - m \in 1..n
    BY <1>3
  <2> QED BY <1>3, <2>1, <2>2, <2>3
<1> QED BY <1>1, <1>2, <1>4 DEF m, n

-----------------------------------------------------------------------------
(* The cache of URLs *)

Pair  == Manager \X Stream
Entry == [key : Pair, cam : Camera \cup {"relay"}, pw : Manager, expires : Nat]

\* An entry carries the password of its key, and shows a camera that was behind
\* the channel when its time to live began, or later.
Sound(e) == e.pw = e.key[1] /\ (e.cam \in Camera => e.expires <= last[e.cam] + Ttl)

Honest == {e \in Entry : Sound(e)}

\* A cache without one key.
LEMMA CacheWithout ==
  ASSUME NEW S, cache \in Seq(S), NEW key
  PROVE  /\ Without(key) \in Seq(S) /\ Len(Without(key)) \in Nat /\ Len(Without(key)) <= Len(cache)
         /\ (\E i \in DOMAIN cache : cache[i].key = key) => Len(Without(key)) + 1 = Len(cache)
         /\ Len(cache) \in Nat
<1> DEFINE at == {i \in DOMAIN cache : cache[i].key = key}
           p  == CHOOSE i \in at : TRUE
<1>1. Without(key) = IF at = {} THEN cache ELSE RemoveAt(cache, p)
  BY DEF Without
<1>2. Len(cache) \in Nat
  BY LenProperties
<1>3. CASE at = {}
  BY <1>1, <1>2, <1>3
<1>4. CASE at # {}
  <2>1. p \in DOMAIN cache
    BY <1>4
  <2>2. Without(key) = RemoveAt(cache, p)
    BY <1>1, <1>4
  <2> HIDE DEF p, at
  <2>3. RemoveAt(cache, p) \in Seq(S) /\ Len(RemoveAt(cache, p)) = Len(cache) - 1
    BY <2>1, Removed
  <2>4. Without(key) \in Seq(S) /\ Len(Without(key)) = Len(cache) - 1 /\ Len(Without(key)) \in Nat
    BY <2>2, <2>3, LenProperties
  <2> QED BY <1>2, <2>4
<1> QED BY <1>3, <1>4

\* A cache with an entry of one of its keys renewed is as long as before.
LEMMA CacheTouched ==
  ASSUME NEW S, cache \in Seq(S), NEW e \in S
  PROVE  /\ Touched(e) \in Seq(S) /\ Len(Touched(e)) \in Nat /\ Len(Touched(e)) <= Len(cache) + 1
         /\ Touched(e) # <<>>
         /\ e \in Range(cache) => Len(Touched(e)) = Len(cache)
<1>1. /\ Without(e.key) \in Seq(S) /\ Len(Without(e.key)) \in Nat /\ Len(Without(e.key)) <= Len(cache)
      /\ (\E i \in DOMAIN cache : cache[i].key = e.key) => Len(Without(e.key)) + 1 = Len(cache)
      /\ Len(cache) \in Nat
  BY CacheWithout
<1>2. /\ Append(Without(e.key), e) \in Seq(S) /\ Append(Without(e.key), e) # <<>>
      /\ Len(Append(Without(e.key), e)) = Len(Without(e.key)) + 1
  BY <1>1, AppendProperties
<1>3. e \in Range(cache) => \E i \in DOMAIN cache : cache[i].key = e.key
  BY DEF Range
<1>4. Touched(e) = Append(Without(e.key), e)
  BY DEF Touched
<1> HIDE DEF Touched
<1> QED BY <1>1, <1>2, <1>3, <1>4

\* A new entry, with the oldest one gone where there is no room for both.
LEMMA CacheKept ==
  ASSUME NEW S, cache \in Seq(S), NEW e \in S, Len(cache) <= MaxEntries
  PROVE  Kept(e) \in Seq(S) /\ Len(Kept(e)) <= MaxEntries
<1>1. /\ Touched(e) \in Seq(S) /\ Len(Touched(e)) \in Nat /\ Len(Touched(e)) <= Len(cache) + 1
      /\ Touched(e) # <<>>
  BY CacheTouched
<1>2. Tail(Touched(e)) \in Seq(S) /\ Len(Tail(Touched(e))) = Len(Touched(e)) - 1
  BY <1>1, HeadTail
<1>3. Kept(e) = IF Len(Touched(e)) > MaxEntries THEN Tail(Touched(e)) ELSE Touched(e)
  BY DEF Kept
<1>4. Len(cache) \in Nat /\ MaxEntries \in Nat
  BY LenProperties, ManagerAssumption DEF ManagerAssumption
<1>5. CASE Len(Touched(e)) > MaxEntries
  BY <1>1, <1>2, <1>3, <1>4, <1>5
<1>6. CASE ~(Len(Touched(e)) > MaxEntries)
  BY <1>1, <1>3, <1>4, <1>6
<1> QED BY <1>5, <1>6

-----------------------------------------------------------------------------
(* What a manager does *)

LegName == {"webapi", "rtsp", "keyframe", "netsdk", "http", "command"}
Phase   == {"leg", "grab", "ask", "nat", "direct"}
Small   == {"webapi", "netsdk", "http", "command"}   \* a command shows no more
Image   == {"small", "full"}
Url     == [cam : Camera \cup {"own", "relay"}, pw : Manager]

Op == [kind : {None, "snapshot", "command"}, legs : Seq(LegName), phase : Phase, main : BOOLEAN, rtsp : BOOLEAN,
       timed : BOOLEAN, late : BOOLEAN, fallback : BOOLEAN, tried : SUBSET LegName, held : BOOLEAN,
       url : Url \cup {None}, got : Image \cup {None}]

Setting == [nat : BOOLEAN, ip : BOOLEAN, backend : {"netsdk", "bridge"}, direct : BOOLEAN,
            session : {None, "nat", "direct"}, pw : Manager]

Full == {"rtsp", "keyframe"}

\* A leg comes before every small picture, or was tried already.
First(full, legs, tried) ==
  \A i \in DOMAIN legs : legs[i] \in Small =>
     full \in tried \/ \E j \in DOMAIN legs : j < i /\ legs[j] = full

\* A full picture is due before a small one.
Due(full, o, g) ==
  o.main /\ (full = "rtsp" => o.rtsp) /\ (full = "keyframe" => g.backend = "netsdk" /\ (~o.timed \/ o.held))

\* No leg needs a login.
NoLogin(legs, g) ==
  \A i \in DOMAIN legs : legs[i] \notin {"netsdk", "command"} /\ (legs[i] = "keyframe" => g.session # None)

\* The operation o of a manager with settings g.
OpOK(o, g) ==
  /\ o \in Op
  /\ o.legs = <<>> => o.phase = "leg"
  /\ o.phase \in {"nat", "direct"} =>
       g.backend = "netsdk" /\ o.legs[1] \in {"keyframe", "netsdk", "command", "rtsp"}
  /\ o.timed => o.phase \in {"leg", "grab"} /\ NoLogin(o.legs, g)
  /\ \A full \in Full : Due(full, o, g) => First(full, o.legs, o.tried) /\ (o.got = "small" => full \in o.tried)

\* Only the SDK has sessions.
OwnSession(g) == g \in Setting /\ (g.session # None => g.backend = "netsdk")

\* An optional leg.
LEMMA LegOK ==
  ASSUME NEW name \in LegName, NEW if \in BOOLEAN
  PROVE  /\ Leg(name, if) \in Seq(LegName)
         /\ \A i \in DOMAIN Leg(name, if) : Leg(name, if)[i] = name
         /\ if => Leg(name, if) = <<name>>
         /\ ~if => Leg(name, if) = <<>>
<1>1. CASE if
  <2>1. Leg(name, if) = <<name>>
    BY <1>1 DEF Leg
  <2>2. <<name>> \in Seq(LegName) /\ DOMAIN <<name>> = {1} /\ <<name>>[1] = name
    OBVIOUS
  <2> QED BY <1>1, <2>1, <2>2
<1>2. CASE ~if
  <2>1. Leg(name, if) = <<>>
    BY <1>2 DEF Leg
  <2> QED BY <1>2, <2>1
<1> QED BY <1>1, <1>2

\* Legs without a login stay so one after the other ...
LEMMA NoLoginJoined ==
  ASSUME NEW g, NEW s \in Seq(LegName), NEW t \in Seq(LegName), NoLogin(s, g), NoLogin(t, g)
  PROVE  NoLogin(s \o t, g)
<1>1. /\ DOMAIN s = 1..Len(s) /\ DOMAIN t = 1..Len(t) /\ DOMAIN (s \o t) = 1..Len(s) + Len(t)
      /\ \A i \in 1..Len(s) : (s \o t)[i] = s[i]
      /\ \A i \in 1..Len(s) + Len(t) : i \notin 1..Len(s) =>
           i - Len(s) \in 1..Len(t) /\ (s \o t)[i] = t[i - Len(s)]
  BY Joined
<1>2. ASSUME NEW i \in DOMAIN (s \o t)
      PROVE  (\E j \in DOMAIN s : (s \o t)[i] = s[j]) \/ (\E j \in DOMAIN t : (s \o t)[i] = t[j])
  BY <1>1
<1> QED BY <1>2 DEF NoLogin

\* ... and legs that take no small picture, or the full one alone, may come
\* before others.
LEMMA FirstJoined ==
  ASSUME NEW full \in Full, NEW tried, NEW s \in Seq(LegName), NEW t \in Seq(LegName),
         \/ (\A i \in DOMAIN s : s[i] \notin Small) /\ First(full, t, tried)
         \/ s = <<full>>
  PROVE  First(full, s \o t, tried)
<1>1. /\ DOMAIN s = 1..Len(s) /\ DOMAIN t = 1..Len(t) /\ DOMAIN (s \o t) = 1..Len(s) + Len(t)
      /\ Len(s) \in Nat /\ Len(t) \in Nat
      /\ \A i \in 1..Len(s) : (s \o t)[i] = s[i]
      /\ \A i \in 1..Len(t) : (s \o t)[Len(s) + i] = t[i]
      /\ \A i \in 1..Len(s) + Len(t) : i \notin 1..Len(s) =>
           i - Len(s) \in 1..Len(t) /\ (s \o t)[i] = t[i - Len(s)]
  BY Joined
<1>2. CASE (\A i \in DOMAIN s : s[i] \notin Small) /\ First(full, t, tried)
  <2> SUFFICES ASSUME NEW i \in DOMAIN (s \o t), (s \o t)[i] \in Small, full \notin tried
               PROVE  \E j \in DOMAIN (s \o t) : j < i /\ (s \o t)[j] = full
    BY DEF First
  <2>1. i \notin 1..Len(s)
    BY <1>1, <1>2
  <2>2. i - Len(s) \in DOMAIN t /\ t[i - Len(s)] \in Small
    BY <1>1, <2>1
  <2>3. PICK j \in DOMAIN t : j < i - Len(s) /\ t[j] = full
    BY <1>2, <2>2 DEF First
  <2>4. Len(s) + j \in DOMAIN (s \o t) /\ Len(s) + j < i /\ (s \o t)[Len(s) + j] = full
    BY <1>1, <2>3
  <2> QED BY <2>4
<1>3. CASE s = <<full>>
  <2>1. Len(s) = 1 /\ s[1] = full
    BY <1>3
  <2>2. 1 \in DOMAIN (s \o t) /\ (s \o t)[1] = full
    BY <1>1, <2>1
  <2>3. ASSUME NEW i \in DOMAIN (s \o t), (s \o t)[i] \in Small PROVE 1 < i
    <3>1. i # 1
      BY <2>2, <2>3 DEF Small, Full
    <3> QED BY <1>1, <2>3, <3>1
  <2> QED BY <2>2, <2>3 DEF First
<1> QED BY <1>2, <1>3

\* The legs of a snapshot: under a deadline none needs a login, and a snapshot of the
\* main stream tries the full ones that it may use before a small picture.
LEMMA LegsOK ==
  ASSUME NEW m \in Manager, mgr[m] \in Setting,
         NEW main \in BOOLEAN, NEW rtsp \in BOOLEAN, NEW fallback \in BOOLEAN, NEW timed \in BOOLEAN
  PROVE  /\ Legs(m, main, rtsp, fallback, timed) \in Seq(LegName)
         /\ timed => NoLogin(Legs(m, main, rtsp, fallback, timed), mgr[m])
         /\ main /\ rtsp => First("rtsp", Legs(m, main, rtsp, fallback, timed), {})
         /\ main /\ mgr[m].backend = "netsdk" /\ (timed => mgr[m].session # None) =>
              First("keyframe", Legs(m, main, rtsp, fallback, timed), {})
<1> DEFINE A == Leg("webapi", ~main /\ ~mgr[m].nat)
           B == Leg("rtsp", rtsp)
           K == Leg("keyframe", main /\ MayUseSession(m, timed))
           W == Leg("webapi", main /\ ~mgr[m].nat)
           N == Leg("netsdk", ~timed)
           C == IF ~fallback THEN <<>>
                ELSE IF mgr[m].backend = "netsdk" THEN K \o W \o N ELSE W \o <<"http">>
<1>0. mgr[m].nat \in BOOLEAN /\ MayUseSession(m, timed) \in BOOLEAN
  BY DEF Setting, MayUseSession
<1>1. /\ A \in Seq(LegName) /\ \A i \in DOMAIN A : A[i] = "webapi"
      /\ main => A = <<>>
  <2>1. "webapi" \in LegName /\ (~main /\ ~mgr[m].nat) \in BOOLEAN
    BY <1>0 DEF LegName
  <2> QED BY <2>1, LegOK
<1>2. B \in Seq(LegName) /\ \A i \in DOMAIN B : B[i] = "rtsp"
  BY LegOK DEF LegName
<1>3. /\ K \in Seq(LegName) /\ \A i \in DOMAIN K : K[i] = "keyframe"
      /\ main /\ MayUseSession(m, timed) => K = <<"keyframe">>
      /\ ~MayUseSession(m, timed) => K = <<>>
  <2>1. "keyframe" \in LegName /\ (main /\ MayUseSession(m, timed)) \in BOOLEAN
    BY <1>0 DEF LegName
  <2> QED BY <2>1, LegOK
<1>4. W \in Seq(LegName) /\ \A i \in DOMAIN W : W[i] = "webapi"
  <2>1. "webapi" \in LegName /\ (main /\ ~mgr[m].nat) \in BOOLEAN
    BY <1>0 DEF LegName
  <2> QED BY <2>1, LegOK
<1>5. /\ N \in Seq(LegName) /\ \A i \in DOMAIN N : N[i] = "netsdk"
      /\ timed => N = <<>>
  <2>1. "netsdk" \in LegName /\ (~timed) \in BOOLEAN
    BY DEF LegName
  <2> QED BY <2>1, LegOK
<1>6. <<"http">> \in Seq(LegName) /\ <<>> \in Seq(LegName)
  BY DEF LegName
<1>7. Legs(m, main, rtsp, fallback, timed) = A \o B \o C
  BY DEF Legs
<1>k. MayUseSession(m, timed) <=> (~timed \/ mgr[m].session # None)
  BY DEF MayUseSession
<1>p. \A i \in DOMAIN <<>> : <<>>[i] \in {}
  OBVIOUS
<1> HIDE DEF A, B, K, W, N
<1>8. /\ K \o W \in Seq(LegName) /\ K \o W \o N \in Seq(LegName) /\ W \o <<"http">> \in Seq(LegName)
      /\ C \in Seq(LegName) /\ A \o B \in Seq(LegName) /\ A \o B \o C \in Seq(LegName)
  <2>1. K \o W \in Seq(LegName) /\ W \o <<"http">> \in Seq(LegName) /\ A \o B \in Seq(LegName)
    BY <1>1, <1>2, <1>3, <1>4, <1>6, ConcatProperties
  <2>2. K \o W \o N \in Seq(LegName)
    BY <1>5, <2>1, ConcatProperties
  <2>3. C \in Seq(LegName)
    BY <1>6, <2>1, <2>2
  <2> HIDE DEF C
  <2> QED BY <2>1, <2>2, <2>3, ConcatProperties
<1>9. ASSUME timed PROVE NoLogin(A \o B \o C, mgr[m])
  <2>1. /\ NoLogin(A, mgr[m]) /\ NoLogin(B, mgr[m]) /\ NoLogin(W, mgr[m]) /\ NoLogin(<<"http">>, mgr[m])
        /\ NoLogin(<<>>, mgr[m])
    BY <1>1, <1>2, <1>4 DEF NoLogin
  <2>2. NoLogin(K, mgr[m])
    <3>1. CASE mgr[m].session # None
      BY <1>3, <3>1 DEF NoLogin
    <3>2. CASE mgr[m].session = None
      <4>1. K = <<>>
        BY <1>3, <1>9, <1>k, <3>2
      <4> QED BY <2>1, <4>1
    <3> QED BY <3>1, <3>2
  <2>3. NoLogin(N, mgr[m])
    BY <1>5, <1>9, <2>1
  <2>4. NoLogin(K \o W, mgr[m]) /\ NoLogin(W \o <<"http">>, mgr[m]) /\ NoLogin(A \o B, mgr[m])
    BY <1>1, <1>2, <1>3, <1>4, <1>6, <2>1, <2>2, NoLoginJoined
  <2>5. NoLogin(K \o W \o N, mgr[m])
    BY <1>5, <1>8, <2>3, <2>4, NoLoginJoined
  <2>6. NoLogin(C, mgr[m])
    BY <2>1, <2>4, <2>5
  <2> HIDE DEF C
  <2> QED BY <1>8, <2>4, <2>6, NoLoginJoined
<1>10. ASSUME main, mgr[m].backend = "netsdk", timed => mgr[m].session # None
       PROVE  First("keyframe", A \o B \o C, {})
  <2>1. A = <<>> /\ K = <<"keyframe">>
    BY <1>1, <1>3, <1>k, <1>10
  <2>2. A \o B = B
    BY <1>2, <2>1, ConcatEmptySeq
  <2>3. First("keyframe", C, {})
    <3>1. CASE ~fallback
      <4>1. C = <<>>
        BY <3>1
      <4> QED BY <4>1 DEF First
    <3>2. CASE fallback
      <4>1. C = K \o W \o N
        BY <1>10, <3>2
      <4>2. K \o W \o N = K \o (W \o N)
        BY <1>3, <1>4, <1>5, ConcatAssociative
      <4>3. W \o N \in Seq(LegName)
        BY <1>4, <1>5, ConcatProperties
      <4>4. First("keyframe", K \o (W \o N), {})
        BY <1>3, <2>1, <4>3, FirstJoined DEF Full
      <4> QED BY <4>1, <4>2, <4>4
    <3> QED BY <3>1, <3>2
  <2> HIDE DEF C
  <2>4. \A i \in DOMAIN B : B[i] \notin Small
    BY <1>2 DEF Small
  <2>5. First("keyframe", B \o C, {})
    BY <1>2, <1>8, <2>3, <2>4, FirstJoined DEF Full
  <2> QED BY <2>2, <2>5
<1> HIDE DEF C
<1>11. ASSUME main, rtsp
       PROVE  First("rtsp", A \o B \o C, {})
  <2>1. A = <<>> /\ B = <<"rtsp">>
    BY <1>1, <1>11, LegOK DEF B, LegName
  <2>2. A \o B = B
    BY <1>2, <2>1, ConcatEmptySeq
  <2>3. First("rtsp", B \o C, {})
    BY <1>2, <1>8, <2>1, FirstJoined DEF Full
  <2> QED BY <2>2, <2>3
<1> QED BY <1>7, <1>8, <1>9, <1>10, <1>11

\* A manager that does nothing.
LEMMA IdleOK ==
  ASSUME NEW g
  PROVE  OpOK(Idle, g)
<1>1. Idle \in Op
  <2>1. <<>> \in Seq(LegName)
    OBVIOUS
  <2> QED BY <2>1 DEF Idle, Op, Phase
<1>2. Idle.legs = <<>> /\ Idle.phase = "leg" /\ Idle.timed = FALSE /\ Idle.main = FALSE
  BY DEF Idle
<1> QED BY <1>1, <1>2 DEF OpOK, Due

\* The fields of an operation.
LEMMA OpFields ==
  ASSUME NEW o \in Op
  PROVE  /\ o.legs \in Seq(LegName) /\ o.phase \in Phase /\ o.main \in BOOLEAN /\ o.timed \in BOOLEAN
         /\ o.late \in BOOLEAN /\ o.fallback \in BOOLEAN /\ o.tried \in SUBSET LegName /\ o.held \in BOOLEAN
         /\ o.url \in Url \cup {None} /\ o.got \in Image \cup {None} /\ o.kind \in {None, "snapshot", "command"}
BY DEF Op

\* A small picture may be shown where the next leg takes one.
LEMMA HeadSmall ==
  ASSUME NEW o, NEW g, OpOK(o, g), o.legs # <<>>, Head(o.legs) \in Small, NEW full \in Full, Due(full, o, g)
  PROVE  full \in o.tried
<1>1. o.legs \in Seq(LegName)
  BY OpFields DEF OpOK
<1>2. Head(o.legs) = o.legs[1] /\ 1 \in DOMAIN o.legs /\ DOMAIN o.legs = 1..Len(o.legs) /\ Len(o.legs) \in Nat
  BY <1>1, HeadTail
<1>3. First(full, o.legs, o.tried)
  BY DEF OpOK
<1>4. \A j \in DOMAIN o.legs : ~(j < 1)
  BY <1>2
<1> QED BY <1>2, <1>3, <1>4 DEF First

\* The leg failed and the next one is due.
LEMMA NextLegOK ==
  ASSUME NEW o, NEW g, OpOK(o, g), o.legs # <<>>
  PROVE  OpOK(NextLeg(o), g)
<1>0. o \in Op /\ o.legs \in Seq(LegName) /\ o.tried \in SUBSET LegName
  BY OpFields DEF OpOK
<1>1. /\ Head(o.legs) = o.legs[1] /\ Head(o.legs) \in LegName
      /\ Len(o.legs) \in Nat \ {0} /\ DOMAIN o.legs = 1..Len(o.legs)
      /\ Tail(o.legs) \in Seq(LegName) /\ DOMAIN Tail(o.legs) = 1..Len(o.legs) - 1
      /\ \A i \in 1..Len(o.legs) - 1 : Tail(o.legs)[i] = o.legs[i + 1]
  BY <1>0, HeadTail
<1>2. CASE Len(o.legs) = 1
  BY <1>2, IdleOK DEF NextLeg
<1>3. CASE Len(o.legs) # 1
  <2> DEFINE p == [o EXCEPT !.legs = Tail(@), !.phase = "leg", !.url = None, !.tried = @ \cup {Head(o.legs)}]
  <2>1. NextLeg(o) = p
    BY <1>3 DEF NextLeg
  <2>2. p \in Op
    BY <1>0, <1>1 DEF Op, Phase
  <2>3. /\ p.legs = Tail(o.legs) /\ p.phase = "leg" /\ p.main = o.main /\ p.rtsp = o.rtsp
        /\ p.timed = o.timed /\ p.held = o.held /\ p.got = o.got /\ p.tried = o.tried \cup {Head(o.legs)}
    BY <1>0 DEF Op
  <2> HIDE DEF p
  <2>4. o.timed => NoLogin(Tail(o.legs), g)
    <3>1. \A i \in 1..Len(o.legs) - 1 : i + 1 \in 1..Len(o.legs)
      BY <1>1
    <3> QED BY <1>1, <3>1 DEF OpOK, NoLogin
  <2>5. ASSUME NEW full \in Full, Due(full, o, g) PROVE First(full, Tail(o.legs), p.tried)
    <3>1. First(full, o.legs, o.tried)
      BY <2>5 DEF OpOK
    <3> SUFFICES ASSUME NEW i \in DOMAIN Tail(o.legs), Tail(o.legs)[i] \in Small, full \notin p.tried
                 PROVE  \E j \in DOMAIN Tail(o.legs) : j < i /\ Tail(o.legs)[j] = full
      BY DEF First
    <3>2. i \in 1..Len(o.legs) - 1 /\ i + 1 \in 1..Len(o.legs) /\ o.legs[i + 1] \in Small
      BY <1>1
    <3>3. PICK j \in 1..Len(o.legs) : j < i + 1 /\ o.legs[j] = full
      BY <1>1, <2>3, <3>1, <3>2 DEF First
    <3>4. j # 1
      BY <1>1, <2>3, <3>3
    <3>5. j - 1 \in 1..Len(o.legs) - 1 /\ j - 1 < i /\ (j - 1) + 1 = j
      BY <1>1, <3>2, <3>3, <3>4
    <3> QED BY <1>1, <3>3, <3>5
  <2>6. \A full \in Full : Due(full, p, g) => Due(full, o, g)
    BY <2>3 DEF Due
  <2>7. \A full \in Full : Due(full, p, g) =>
          First(full, p.legs, p.tried) /\ (p.got = "small" => full \in p.tried)
    BY <2>3, <2>5, <2>6 DEF OpOK
  <2> QED BY <2>1, <2>2, <2>3, <2>4, <2>7 DEF OpOK
<1> QED BY <1>2, <1>3

\* A picture ends the operation.
ShownOf(o, image) ==
  [Idle EXCEPT !.kind = o.kind, !.main = o.main, !.rtsp = o.rtsp, !.timed = o.timed,
               !.held = o.held, !.tried = o.tried, !.got = image]

\* An operation that shows a picture shows it after what its settings ask for.
LEMMA ShownOK ==
  ASSUME NEW o, NEW g, OpOK(o, g), NEW image \in Image,
         image = "small" => \A full \in Full : Due(full, o, g) => full \in o.tried
  PROVE  OpOK(ShownOf(o, image), g)
<1>0. o \in Op
  BY DEF OpOK
<1> DEFINE p == ShownOf(o, image)
<1>1. /\ p.legs = <<>> /\ p.phase = "leg" /\ p.main = o.main /\ p.rtsp = o.rtsp /\ p.timed = o.timed /\ p.held = o.held
      /\ p.got = image /\ p.tried = o.tried
  BY DEF ShownOf, Idle
<1>2. p \in Op
  <2>1. <<>> \in Seq(LegName)
    OBVIOUS
  <2> QED BY <1>0, <2>1, OpFields DEF ShownOf, Idle, Op, Phase
<1>3. NoLogin(<<>>, g) /\ \A full \in Full : First(full, <<>>, o.tried)
  BY DEF NoLogin, First
<1>4. \A full \in Full : Due(full, p, g) => Due(full, o, g)
  BY <1>1 DEF Due
<1> HIDE DEF p
<1> QED BY <1>1, <1>2, <1>3, <1>4 DEF OpOK, p

\* The operation goes on in another phase of its leg.
LEMMA PhaseOK ==
  ASSUME NEW o, NEW g, OpOK(o, g), o.legs # <<>>, NEW p, p \in Op,
         \/ p = [o EXCEPT !.phase = p.phase]
         \/ p = [o EXCEPT !.phase = p.phase, !.url = p.url],
         p.phase \in {"nat", "direct"} =>
            g.backend = "netsdk" /\ o.legs[1] \in {"keyframe", "netsdk", "command", "rtsp"},
         o.timed => p.phase \in {"leg", "grab"}
  PROVE  OpOK(p, g)
<1>0. o \in Op
  BY DEF OpOK
<1>1. /\ p.legs = o.legs /\ p.main = o.main /\ p.rtsp = o.rtsp /\ p.timed = o.timed /\ p.held = o.held
      /\ p.got = o.got /\ p.tried = o.tried
  BY <1>0 DEF Op
<1>2. \A full \in Full : Due(full, p, g) => Due(full, o, g)
  BY <1>1 DEF Due
<1> QED BY <1>1, <1>2 DEF OpOK

\* The deadline passed.
Untimed(rest) == Leg("keyframe", "keyframe" \in Range(rest)) \o Leg("http", "http" \in Range(rest))

\* What the deadline leaves of an operation needs no login and no session.
LEMMA ExpireOK ==
  ASSUME NEW o, NEW g, OpOK(o, g), o.legs # <<>>, o.timed,
         NEW legs \in {<<"rtsp">>, <<>>, Untimed(o.legs)}, legs # <<"rtsp">> => "rtsp" \notin Range(o.legs),
         NEW p, p = [o EXCEPT !.late = TRUE, !.legs = legs, !.phase = p.phase],
         p.phase = o.phase \/ p.phase = "leg", legs = <<>> => p.phase = "leg"
  PROVE  OpOK(p, g)
<1>0. o \in Op /\ o.legs \in Seq(LegName) /\ o.phase \in {"leg", "grab"}
  BY OpFields DEF OpOK
<1>r. Range(o.legs) = {o.legs[i] : i \in DOMAIN o.legs}
  BY DEF Range
<1> DEFINE K == Leg("keyframe", "keyframe" \in Range(o.legs))
           H == Leg("http", "http" \in Range(o.legs))
<1>1. /\ K \in Seq(LegName) /\ (\A i \in DOMAIN K : K[i] = "keyframe")
      /\ "keyframe" \in Range(o.legs) => K = <<"keyframe">>
      /\ "keyframe" \notin Range(o.legs) => K = <<>>
  <2>1. "keyframe" \in LegName /\ ("keyframe" \in Range(o.legs)) \in BOOLEAN
    BY DEF LegName
  <2> QED BY <2>1, LegOK
<1>2. /\ H \in Seq(LegName) /\ (\A i \in DOMAIN H : H[i] = "http")
      /\ "http" \notin Range(o.legs) => H = <<>>
  <2>1. "http" \in LegName /\ ("http" \in Range(o.legs)) \in BOOLEAN
    BY DEF LegName
  <2> QED BY <2>1, LegOK
<1>3. Untimed(o.legs) = K \o H
  BY DEF Untimed
<1> HIDE DEF K, H
<1>4. K \o H \in Seq(LegName)
  BY <1>1, <1>2, ConcatProperties
<1>5. NoLogin(K \o H, g)
  <2>1. NoLogin(o.legs, g)
    BY DEF OpOK
  <2>2. NoLogin(H, g)
    BY <1>2 DEF NoLogin
  <2>3. NoLogin(K, g)
    <3>1. CASE "keyframe" \in Range(o.legs)
      <4>1. g.session # None
        BY <1>r, <2>1, <3>1 DEF NoLogin
      <4> QED BY <1>1, <4>1 DEF NoLogin
    <3>2. CASE "keyframe" \notin Range(o.legs)
      BY <1>1, <3>2 DEF NoLogin
    <3> QED BY <3>1, <3>2
  <2> QED BY <1>1, <1>2, <2>2, <2>3, NoLoginJoined
<1>6. ASSUME NEW full \in Full, Due(full, o, g), "rtsp" \notin Range(o.legs)
      PROVE  First(full, K \o H, o.tried)
  <2>1. First(full, o.legs, o.tried)
    BY <1>6 DEF OpOK
  <2>2. CASE full = "keyframe" /\ "keyframe" \in Range(o.legs)
    BY <1>1, <1>2, <2>2, FirstJoined
  <2>3. CASE full \notin Range(o.legs)
    <3>1. "http" \in Range(o.legs) => full \in o.tried
      BY <1>r, <2>1, <2>3 DEF First, Small
    <3>2. First(full, H, o.tried)
      BY <1>2, <3>1 DEF First
    <3>3. \A i \in DOMAIN K : K[i] \notin Small
      BY <1>1 DEF Small
    <3> QED BY <1>1, <1>2, <3>2, <3>3, FirstJoined
  <2> QED BY <1>6, <2>2, <2>3 DEF Full
<1>7. legs \in Seq(LegName) /\ NoLogin(legs, g) /\ \A full \in Full : Due(full, o, g) => First(full, legs, o.tried)
  <2>1. CASE legs = <<"rtsp">>
    <3>1. legs \in Seq(LegName) /\ DOMAIN legs = {1} /\ legs[1] = "rtsp"
      BY <2>1 DEF LegName
    <3> QED BY <3>1 DEF NoLogin, First, Small
  <2>2. CASE legs = <<>>
    <3>1. legs \in Seq(LegName) /\ DOMAIN legs = {}
      BY <2>2
    <3> QED BY <3>1 DEF NoLogin, First
  <2>3. CASE legs = Untimed(o.legs) /\ legs # <<"rtsp">>
    BY <1>3, <1>4, <1>5, <1>6, <2>3
  <2> QED BY <2>1, <2>2, <2>3
<1>8. /\ p.legs = legs /\ p.main = o.main /\ p.rtsp = o.rtsp /\ p.timed = o.timed /\ p.held = o.held
      /\ p.got = o.got /\ p.tried = o.tried /\ p.phase \in {"leg", "grab"}
  BY <1>0 DEF Op
<1>9. p \in Op
  <2>1. p.phase \in Phase
    BY <1>8 DEF Phase
  <2> QED BY <1>0, <1>7, <2>1 DEF Op
<1>10. \A full \in Full : Due(full, p, g) => Due(full, o, g) /\ (o.got = "small" => full \in o.tried)
  BY <1>8 DEF Due, OpOK
<1> QED BY <1>7, <1>8, <1>9, <1>10 DEF OpOK

\* A snapshot as it begins.
Asked(m, main, rtsp, fallback, timed) ==
  [Idle EXCEPT !.kind = "snapshot", !.main = main, !.rtsp = rtsp, !.timed = timed,
               !.fallback = fallback, !.held = mgr[m].session # None,
               !.legs = Legs(m, main, rtsp, fallback, timed)]

\* A snapshot begins.
LEMMA SnapshotOK ==
  ASSUME NEW m \in Manager, OwnSession(mgr[m]), NEW main \in BOOLEAN, NEW rtsp \in BOOLEAN,
         NEW fallback \in BOOLEAN, NEW timed \in BOOLEAN
  PROVE  OpOK(Asked(m, main, rtsp, fallback, timed), mgr[m])
<1> DEFINE L == Legs(m, main, rtsp, fallback, timed)
           p == [Idle EXCEPT !.kind = "snapshot", !.main = main, !.rtsp = rtsp, !.timed = timed,
                             !.fallback = fallback, !.held = mgr[m].session # None, !.legs = L]
<1>1. /\ L \in Seq(LegName)
      /\ timed => NoLogin(L, mgr[m])
      /\ main /\ rtsp => First("rtsp", L, {})
      /\ main /\ mgr[m].backend = "netsdk" /\ (timed => mgr[m].session # None) => First("keyframe", L, {})
  BY LegsOK DEF OwnSession
<1> HIDE DEF L
<1>2. /\ p.legs = L /\ p.main = main /\ p.rtsp = rtsp /\ p.timed = timed /\ p.held = (mgr[m].session # None)
      /\ p.got = None /\ p.tried = {} /\ p.phase = "leg"
  BY DEF Idle
<1>3. p \in Op
  BY <1>1 DEF Idle, Op, Phase
<1> HIDE DEF p
<1>4. \A full \in Full : Due(full, p, mgr[m]) => First(full, L, {})
  BY <1>1, <1>2 DEF Due, Full
<1>5. None # "small"
  BY ManagerAssumption DEF ManagerAssumption
<1>6. OpOK(p, mgr[m])
  BY <1>1, <1>2, <1>3, <1>4, <1>5 DEF OpOK
<1> QED BY <1>6 DEF p, L, Asked

\* Another command begins.
LEMMA CommandOK ==
  ASSUME NEW g
  PROVE  OpOK([Idle EXCEPT !.kind = "command", !.legs = <<"command">>], g)
<1> DEFINE p == [Idle EXCEPT !.kind = "command", !.legs = <<"command">>]
<1>1. p.legs # <<>> /\ p.main = FALSE /\ p.timed = FALSE /\ p.phase = "leg"
  BY DEF Idle
<1>2. p \in Op
  <2>1. <<"command">> \in Seq(LegName)
    BY DEF LegName
  <2> QED BY <2>1 DEF Idle, Op, Phase
<1> HIDE DEF p
<1>3. OpOK(p, g)
  BY <1>1, <1>2 DEF OpOK, Due
<1> QED BY <1>3 DEF p

-----------------------------------------------------------------------------
(* The inductive invariant *)

Operations ==
  /\ mgr \in [Manager -> Setting] /\ op \in [Manager -> Op]
  /\ \A m \in Manager : OwnSession(mgr[m]) /\ OpOK(op[m], mgr[m])

Timeouts ==
  /\ sdk \in [timeout : Manager \cup {Default}, clients : SUBSET Manager]
  /\ (\A m \in Manager : op[m].phase # "nat") => sdk.timeout = Default

Cached == cache \in Seq(Honest) /\ Len(cache) <= MaxEntries

World ==
  /\ camera \in Camera /\ last \in [Camera -> Int] /\ now \in Nat
  /\ last[camera] = now /\ \A c \in Camera : last[c] <= now

MInv == Operations /\ Timeouts /\ Cached /\ World

\* The invariant holds at the start.
LEMMA MInvInit == Init => MInv
<1> SUFFICES ASSUME Init PROVE MInv
  OBVIOUS
<1>1. Operations
  <2>1. mgr \in [Manager -> Setting] /\ \A m \in Manager : mgr[m].session = None
    <3>1. PICK found \in SUBSET {"netsdk", "natsdk", "bridge"} :
             mgr \in [Manager -> {r \in [nat : BOOLEAN, ip : BOOLEAN, backend : {Detected(TRUE, found), Detected(FALSE, found)},
                                         direct : BOOLEAN, session : {None}, pw : Manager] :
                                    /\ r.backend # None /\ r.backend = Detected(r.nat, found)
                                    /\ (r.nat \/ r.ip) /\ (r.direct => r.ip /\ ~ r.nat)}]
      BY DEF Init
    <3>2. Detected(TRUE, found) \in {"netsdk", "bridge", None} /\ Detected(FALSE, found) \in {"netsdk", "bridge", None}
      BY DEF Detected
    <3>3. ASSUME NEW m \in Manager PROVE mgr[m] \in Setting /\ mgr[m].session = None
      <4>1. /\ mgr[m] \in [nat : BOOLEAN, ip : BOOLEAN, backend : {Detected(TRUE, found), Detected(FALSE, found)},
                           direct : BOOLEAN, session : {None}, pw : Manager]
            /\ mgr[m].backend # None
        BY <3>1
      <4> QED BY <3>2, <4>1 DEF Setting
    <3> QED BY <3>1, <3>3
  <2>2. op = [m \in Manager |-> Idle] /\ Idle \in Op
    BY IdleOK DEF Init, OpOK
  <2>3. \A m \in Manager : OpOK(Idle, mgr[m])
    BY IdleOK
  <2> QED BY <2>1, <2>2, <2>3 DEF Operations, OwnSession
<1>2. Timeouts
  BY DEF Init, Timeouts
<1>3. Cached
  BY ManagerAssumption DEF Init, Cached, ManagerAssumption
<1>4. World
  BY DEF Init, World
<1> QED BY <1>1, <1>2, <1>3, <1>4 DEF MInv

\* A step of manager m alone.
Works(m) ==
  /\ op' = [op EXCEPT ![m] = op'[m]] /\ OpOK(op'[m], mgr'[m])
  /\ mgr' = [mgr EXCEPT ![m] = mgr'[m]] /\ OwnSession(mgr'[m])
  /\ sdk' \in [timeout : Manager \cup {Default}, clients : SUBSET Manager]
  /\ \/ op'[m].phase = "nat"
     \/ sdk'.timeout = Default
     \/ sdk'.timeout = sdk.timeout /\ op[m].phase # "nat"

\* It keeps the operations and the timeout.
LEMMA WorksKeeps ==
  ASSUME Operations, Timeouts, NEW m \in Manager, Works(m)
  PROVE  Operations' /\ Timeouts'
<1>1. /\ mgr \in [Manager -> Setting] /\ op \in [Manager -> Op]
      /\ op' = [op EXCEPT ![m] = op'[m]] /\ mgr' = [mgr EXCEPT ![m] = mgr'[m]]
  BY DEF Operations, Works
<1>2. op'[m] \in Op /\ mgr'[m] \in Setting /\ OpOK(op'[m], mgr'[m]) /\ OwnSession(mgr'[m])
  BY DEF Works, OpOK, OwnSession
<1>3. \A k \in Manager \ {m} : op'[k] = op[k] /\ mgr'[k] = mgr[k]
  BY <1>1
<1>4. mgr' \in [Manager -> Setting] /\ op' \in [Manager -> Op]
  BY <1>1, <1>2
<1>5. \A k \in Manager : OwnSession(mgr'[k]) /\ OpOK(op'[k], mgr'[k])
  BY <1>2, <1>3 DEF Operations
<1>6. Operations'
  BY <1>4, <1>5 DEF Operations
<1>7. ASSUME \A k \in Manager : op'[k].phase # "nat" PROVE sdk'.timeout = Default
  <2>1. sdk'.timeout = Default \/ (sdk'.timeout = sdk.timeout /\ op[m].phase # "nat")
    BY <1>7 DEF Works
  <2>2. CASE sdk'.timeout = sdk.timeout /\ op[m].phase # "nat"
    <3>1. \A k \in Manager : op[k].phase # "nat"
      BY <1>3, <1>7, <2>2
    <3> QED BY <2>2, <3>1 DEF Timeouts
  <2> QED BY <2>1, <2>2
<1>8. Timeouts'
  BY <1>7 DEF Timeouts, Works
<1> QED BY <1>6, <1>8

\* What a manager is doing.
LEMMA Doing ==
  ASSUME Operations, NEW m \in Manager
  PROVE  /\ OpOK(op[m], mgr[m]) /\ OwnSession(mgr[m]) /\ op[m] \in Op /\ mgr[m] \in Setting
         /\ op[m].legs \in Seq(LegName)
         /\ op[m].legs # <<>> => Head(op[m].legs) = op[m].legs[1]
         /\ mgr = [mgr EXCEPT ![m] = mgr[m]]
         /\ \A o : [op EXCEPT ![m] = o][m] = o
<1>1. /\ mgr \in [Manager -> Setting] /\ op \in [Manager -> Op]
      /\ OwnSession(mgr[m]) /\ OpOK(op[m], mgr[m])
  BY DEF Operations
<1>2. op[m].legs \in Seq(LegName)
  BY <1>1, OpFields
<1> QED BY <1>1, <1>2, HeadTail

\* A step that ends the leg of m without a picture ...
LEMMA FailedWorks ==
  ASSUME Operations, Timeouts, NEW m \in Manager, op[m].legs # <<>>, Failed(m), mgr' = mgr,
         sdk' = sdk, op[m].phase # "nat"
  PROVE  Works(m) /\ op'[m] = NextLeg(op[m])
<1>1. op' = [op EXCEPT ![m] = NextLeg(op[m])] /\ op'[m] = NextLeg(op[m])
  BY Doing DEF Failed
<1>2. OpOK(NextLeg(op[m]), mgr[m])
  BY Doing, NextLegOK
<1>3. mgr' = [mgr EXCEPT ![m] = mgr'[m]] /\ OwnSession(mgr'[m])
  BY Doing
<1> QED BY <1>1, <1>2, <1>3 DEF Works, Timeouts

\* ... or with one.
LEMMA ShownWorks ==
  ASSUME Operations, Timeouts, NEW m \in Manager, NEW image \in Image, op[m].legs # <<>>, Shown(m, image),
         mgr' = mgr, sdk' = sdk, op[m].phase # "nat",
         image = "full" \/ Head(op[m].legs) \in Small
  PROVE  Works(m) /\ op'[m] = ShownOf(op[m], image)
<1>1. op' = [op EXCEPT ![m] = ShownOf(op[m], image)] /\ op'[m] = ShownOf(op[m], image)
  BY Doing DEF Shown, ShownOf
<1>2. image = "small" => \A full \in Full : Due(full, op[m], mgr[m]) => full \in op[m].tried
  BY Doing, HeadSmall
<1>3. OpOK(ShownOf(op[m], image), mgr[m])
  BY <1>2, Doing, ShownOK
<1>4. mgr' = [mgr EXCEPT ![m] = mgr'[m]] /\ OwnSession(mgr'[m])
  BY Doing
<1> QED BY <1>1, <1>3, <1>4 DEF Works, Timeouts

\* Under a deadline a session is neither got nor given up, ...
Discreet(m) ==
  /\ op'[m].timed = op[m].timed \/ op'[m].phase = "leg"
  /\ mgr'[m].session = mgr[m].session \/ op[m].legs = <<>> \/ op[m].phase \in {"nat", "direct"}

\* ... and a URL that an operation gets is of its manager, and current.
Current(url, m) ==
  /\ url.pw = mgr[m].pw
  /\ url.cam \in Camera => url.cam = camera \/ now - last[url.cam] < Ttl

GetsUrl(m) == op[m].url = None /\ op'[m].url # None => Current(op'[m].url, m)

\* A leg that ends leaves no URL and no login behind.
LEMMA EndedFields ==
  ASSUME NEW o \in Op, NEW image
  PROVE  /\ NextLeg(o).phase = "leg" /\ NextLeg(o).url = None
         /\ ShownOf(o, image).phase = "leg" /\ ShownOf(o, image).url = None
<1>1. Idle.phase = "leg" /\ Idle.url = None
  BY DEF Idle
<1>2. ShownOf(o, image).phase = "leg" /\ ShownOf(o, image).url = None
  BY DEF ShownOf, Idle
<1>3. NextLeg(o).phase = "leg" /\ NextLeg(o).url = None
  <2>1. CASE Len(o.legs) = 1
    BY <1>1, <2>1 DEF NextLeg
  <2>2. CASE Len(o.legs) # 1
    BY <2>2 DEF NextLeg, Op
  <2> QED BY <2>1, <2>2
<1> QED BY <1>2, <1>3

\* What a failed leg and a picture do, in one.
LEMMA EndedWorks ==
  ASSUME Operations, Timeouts, NEW m \in Manager, op[m].legs # <<>>, mgr' = mgr, sdk' = sdk,
         op[m].phase # "nat",
         \/ Failed(m)
         \/ \E image \in Image : /\ Shown(m, image)
                                 /\ image = "full" \/ Head(op[m].legs) \in Small
  PROVE  Works(m) /\ Discreet(m) /\ GetsUrl(m)
<1>0. op[m] \in Op
  BY Doing
<1>1. CASE Failed(m)
  <2>1. Works(m) /\ op'[m] = NextLeg(op[m])
    BY <1>1, FailedWorks
  <2> QED BY <1>0, <2>1, EndedFields DEF Discreet, GetsUrl
<1>2. CASE \E image \in Image : /\ Shown(m, image)
                                /\ image = "full" \/ Head(op[m].legs) \in Small
  <2>1. PICK image \in Image : /\ Shown(m, image)
                               /\ image = "full" \/ Head(op[m].legs) \in Small
    BY <1>2
  <2>2. Works(m) /\ op'[m] = ShownOf(op[m], image)
    BY <2>1, ShownWorks
  <2> QED BY <1>0, <2>2, EndedFields DEF Discreet, GetsUrl
<1> QED BY <1>1, <1>2

\* An operation that goes on in another phase, or with another record of the same
\* session.
LEMMA MovesOn ==
  ASSUME Operations, Timeouts, NEW m \in Manager, NEW o, OpOK(o, mgr[m]), op' = [op EXCEPT ![m] = o],
         mgr' = mgr, sdk' = sdk, op[m].phase # "nat",
         o.timed = op[m].timed \/ o.phase = "leg", o.url \in {op[m].url, None}
  PROVE  Works(m) /\ Discreet(m) /\ GetsUrl(m)
<1>1. op'[m] = o
  BY Doing
<1>2. mgr' = [mgr EXCEPT ![m] = mgr'[m]] /\ OwnSession(mgr'[m])
  BY Doing
<1> QED BY <1>1, <1>2 DEF Works, Discreet, GetsUrl, Timeouts

\* Operations begin, and run out of time.
LEMMA BeginWorks ==
  ASSUME Operations, Timeouts, NEW m \in Manager, Begin(m)
  PROVE  Works(m) /\ Discreet(m) /\ GetsUrl(m)
<1>0. /\ OpOK(op[m], mgr[m]) /\ OwnSession(mgr[m]) /\ op[m] \in Op /\ op \in [Manager -> Op]
      /\ mgr \in [Manager -> Setting] /\ op[m].legs \in Seq(LegName)
  BY Doing DEF Operations
<1>p. op[m].legs = <<>> => op[m].phase = "leg"
  BY <1>0 DEF OpOK
<1>1. CASE Snapshot(m)
  <2>1. op[m].legs = <<>> /\ mgr' = mgr /\ sdk' = sdk
    BY <1>1 DEF Snapshot
  <2>2. PICK main, rtsp, fallback, timed \in BOOLEAN :
          op' = [op EXCEPT ![m] = Asked(m, main, rtsp, fallback, timed)]
    BY <1>1, Zenon DEF Snapshot, Asked
  <2> DEFINE o == Asked(m, main, rtsp, fallback, timed)
  <2>3. OpOK(o, mgr[m])
    BY <1>0, SnapshotOK
  <2>4. o.phase = "leg" /\ o.url = None
    BY DEF Idle, Asked
  <2>5. op' = [op EXCEPT ![m] = o]
    BY <2>2
  <2> HIDE DEF o
  <2> QED BY <1>p, <2>1, <2>3, <2>4, <2>5, MovesOn
<1>2. CASE Command(m)
  <2> DEFINE o == [Idle EXCEPT !.kind = "command", !.legs = <<"command">>]
  <2>1. op[m].legs = <<>> /\ mgr' = mgr /\ sdk' = sdk /\ op' = [op EXCEPT ![m] = o]
    BY <1>2 DEF Command
  <2>2. OpOK(o, mgr[m])
    BY CommandOK
  <2>3. o.phase = "leg" /\ o.url = None
    BY DEF Idle
  <2> HIDE DEF o
  <2> QED BY <1>p, <2>1, <2>2, <2>3, MovesOn
<1>3. CASE Close(m)
  <2>1. /\ op[m].legs = <<>> /\ op' = op /\ mgr' = [mgr EXCEPT ![m].session = None]
        /\ sdk' \in {[sdk EXCEPT !.clients = @ \ {m}], sdk}
    BY <1>3 DEF Close
  <2>2. mgr'[m] = [mgr[m] EXCEPT !.session = None] /\ mgr' = [mgr EXCEPT ![m] = mgr'[m]]
    BY <1>0, <2>1
  <2>3. mgr'[m] \in Setting /\ mgr'[m].session = None /\ mgr'[m].backend = mgr[m].backend
    BY <1>0, <2>2 DEF Setting
  <2>4. OwnSession(mgr'[m])
    BY <2>3 DEF OwnSession
  <2>5. OpOK(op'[m], mgr'[m])
    <3>1. \A full \in Full : Due(full, op[m], mgr'[m]) => Due(full, op[m], mgr[m])
      BY <2>3 DEF Due
    <3>2. NoLogin(op[m].legs, mgr'[m])
      BY <2>1 DEF NoLogin
    <3> QED BY <1>0, <2>1, <2>3, <3>1, <3>2 DEF OpOK
  <2>6. /\ sdk' \in [timeout : Manager \cup {Default}, clients : SUBSET Manager]
        /\ sdk'.timeout = sdk.timeout
    BY <2>1 DEF Timeouts
  <2>7. op' = [op EXCEPT ![m] = op'[m]]
    BY <1>0, <2>1
  <2> QED BY <1>p, <2>1, <2>2, <2>4, <2>5, <2>6, <2>7 DEF Works, Discreet, GetsUrl
<1>4. CASE Expire(m)
  <2>1. op[m].legs # <<>> /\ op[m].timed /\ mgr' = mgr /\ sdk' = sdk
    BY <1>4 DEF Expire
  <2>2. PICK legs \in {<<"rtsp">>, <<>>, Untimed(op[m].legs)} :
          (legs # <<"rtsp">> => "rtsp" \notin Range(op[m].legs)) /\
          op' = [op EXCEPT ![m] = [op[m] EXCEPT !.late = TRUE, !.legs = legs,
                   !.phase = IF Len(legs) > 0 /\ Head(legs) = Head(op[m].legs) THEN op[m].phase ELSE "leg"]]
    <3>1. PICK legs \in (IF "rtsp" \in Range(op[m].legs) THEN {<<"rtsp">>} ELSE {<<>>, Untimed(op[m].legs)}) :
            op' = [op EXCEPT ![m].late = TRUE, ![m].legs = legs,
                     ![m].phase = IF Len(legs) > 0 /\ Head(legs) = Head(op[m].legs) THEN @ ELSE "leg"]
      BY <1>4, Zenon DEF Expire, Untimed
    <3>2. legs \in {<<"rtsp">>, <<>>, Untimed(op[m].legs)} /\ (legs # <<"rtsp">> => "rtsp" \notin Range(op[m].legs))
      BY <3>1
    <3>3. op' = [op EXCEPT ![m] = [op[m] EXCEPT !.late = TRUE, !.legs = legs,
                   !.phase = IF Len(legs) > 0 /\ Head(legs) = Head(op[m].legs) THEN op[m].phase ELSE "leg"]]
      BY <1>0, <3>1 DEF Op
    <3> QED BY <3>2, <3>3
  <2> DEFINE o == [op[m] EXCEPT !.late = TRUE, !.legs = legs,
                   !.phase = IF Len(legs) > 0 /\ Head(legs) = Head(op[m].legs) THEN op[m].phase ELSE "leg"]
  <2>3. /\ o = [op[m] EXCEPT !.late = TRUE, !.legs = legs, !.phase = o.phase]
        /\ o.phase = op[m].phase \/ o.phase = "leg"
        /\ legs = <<>> => o.phase = "leg"
        /\ o.timed = op[m].timed /\ o.url = op[m].url
    <3>1. legs = <<>> => ~(Len(legs) > 0)
      OBVIOUS
    <3> QED BY <1>0, <3>1 DEF Op
  <2>5. op' = [op EXCEPT ![m] = o]
    BY <2>2
  <2> HIDE DEF o
  <2>6. OpOK(o, mgr[m])
    BY <1>0, <2>1, <2>2, <2>3, ExpireOK
  <2>7. op[m].phase # "nat"
    BY <1>0, <2>1 DEF OpOK
  <2> QED BY <2>1, <2>3, <2>5, <2>6, <2>7, MovesOn
<1> QED BY <1>1, <1>2, <1>3, <1>4 DEF Begin

\* The web API and the bridge give a small picture or none.
LEMMA ServerWorks ==
  ASSUME Operations, Timeouts, NEW m \in Manager, WebApi(m) \/ Bridge(m) \/ BridgeCommand(m)
  PROVE  Works(m) /\ Discreet(m) /\ GetsUrl(m)
<1>0. OpOK(op[m], mgr[m]) /\ op[m].legs # <<>> => Head(op[m].legs) = op[m].legs[1]
  BY Doing
<1>1. /\ op[m].legs # <<>> /\ mgr' = mgr /\ sdk' = sdk
      /\ Failed(m) \/ Shown(m, "small")
  BY DEF WebApi, Bridge, BridgeCommand, On
<1>2. OpOK(op[m], mgr[m])
  BY Doing
<1>3. Head(op[m].legs) \in {"webapi", "http"} \/ (Head(op[m].legs) = "command" /\ mgr[m].backend = "bridge")
  BY DEF WebApi, Bridge, BridgeCommand, On
<1>4. op[m].phase # "nat"
  BY <1>0, <1>1, <1>2, <1>3 DEF OpOK
<1>5. Head(op[m].legs) \in Small
  BY <1>3 DEF Small
<1>6. "small" \in Image
  BY DEF Image
<1> QED BY <1>1, <1>4, <1>5, <1>6, EndedWorks

\* Sessions are made by the legs that need one, and only outside a deadline.
LEMMA NativeWorks ==
  ASSUME Operations, Timeouts, NEW m \in Manager, Native(m)
  PROVE  Works(m) /\ Discreet(m) /\ GetsUrl(m)
<1>0. /\ OpOK(op[m], mgr[m]) /\ OwnSession(mgr[m]) /\ op[m] \in Op /\ op \in [Manager -> Op]
      /\ mgr \in [Manager -> Setting] /\ mgr[m] \in Setting /\ op[m].legs \in Seq(LegName)
      /\ op[m].legs # <<>> => Head(op[m].legs) = op[m].legs[1]
  BY Doing DEF Operations
<1>1. CASE LoginBegin(m)
  <2>1. /\ NeedsSession(m) /\ op[m].phase \in {"leg", "ask"} /\ mgr' = mgr
        /\ sdk' = [clients |-> sdk.clients \cup {m}, timeout |-> IF mgr[m].nat THEN m ELSE sdk.timeout]
        /\ op' = [op EXCEPT ![m].phase = IF mgr[m].nat THEN "nat" ELSE "direct"]
    BY <1>1 DEF LoginBegin
  <2> DEFINE o == [op[m] EXCEPT !.phase = IF mgr[m].nat THEN "nat" ELSE "direct"]
  <2>2. op' = [op EXCEPT ![m] = o]
    BY <1>0, <2>1
  <2>3. /\ o \in Op /\ o = [op[m] EXCEPT !.phase = o.phase] /\ o.timed = op[m].timed /\ o.url = op[m].url
        /\ o.phase = IF mgr[m].nat THEN "nat" ELSE "direct"
    BY <1>0 DEF Op, Phase
  <2> HIDE DEF o
  <2>4. /\ op[m].legs # <<>> /\ mgr[m].backend = "netsdk" /\ mgr[m].session = None
        /\ op[m].legs[1] \in {"keyframe", "netsdk", "command", "rtsp"}
        /\ op[m].legs[1] \in {"keyframe", "netsdk", "command"} \/ op[m].phase = "ask"
    BY <1>0, <2>1 DEF NeedsSession, On
  <2>5. ~op[m].timed
    <3>1. 1 \in DOMAIN op[m].legs
      BY <1>0, <2>4, HeadTail
    <3> QED BY <1>0, <2>4, <3>1 DEF OpOK, NoLogin
  <2>6. OpOK(o, mgr[m])
    BY <1>0, <2>3, <2>4, <2>5, PhaseOK
  <2>7. op'[m] = o /\ op' = [op EXCEPT ![m] = op'[m]]
    BY <1>0, <2>2
  <2>8. /\ sdk' \in [timeout : Manager \cup {Default}, clients : SUBSET Manager]
        /\ o.phase = "nat" \/ sdk'.timeout = sdk.timeout
    BY <2>1, <2>3 DEF Timeouts
  <2>9. op[m].phase # "nat" /\ mgr' = [mgr EXCEPT ![m] = mgr'[m]]
    BY <1>0, <2>1
  <2> QED BY <1>0, <2>1, <2>3, <2>6, <2>7, <2>8, <2>9 DEF Works, Discreet, GetsUrl
<1>2. CASE LoginEnd(m)
  <2>1. PICK ok \in BOOLEAN :
         /\ sdk' = [sdk EXCEPT !.timeout = IF op[m].phase = "nat" THEN Restored(ok, @) ELSE @]
         /\ IF ok THEN LoggedIn(m)
            ELSE /\ UNCHANGED mgr
                 /\ IF op[m].phase = "nat" /\ mgr[m].ip THEN op' = [op EXCEPT ![m].phase = "direct"]
                    ELSE Failed(m)
    BY <1>2, Zenon DEF LoginEnd
  <2>2. op[m].phase \in {"nat", "direct"}
    BY <1>2 DEF LoginEnd
  <2>3. /\ op[m].legs # <<>> /\ mgr[m].backend = "netsdk" /\ ~op[m].timed
        /\ op[m].legs[1] \in {"keyframe", "netsdk", "command", "rtsp"}
    BY <1>0, <2>2 DEF OpOK
  <2>4. /\ sdk' \in [timeout : Manager \cup {Default}, clients : SUBSET Manager]
        /\ op[m].phase = "nat" => sdk'.timeout = Default
        /\ op[m].phase # "nat" => sdk'.timeout = sdk.timeout
    BY <2>1 DEF Timeouts, Restored
  <2>5. /\ op' = [op EXCEPT ![m] = op'[m]] /\ OpOK(op'[m], mgr'[m])
        /\ op'[m].timed = op[m].timed \/ op'[m].phase = "leg"
        /\ mgr' = [mgr EXCEPT ![m] = mgr'[m]] /\ OwnSession(mgr'[m])
        /\ op'[m].url \in {op[m].url, None}
    <3>1. CASE ok
      <4>1. mgr' = [mgr EXCEPT ![m].session = op[m].phase] /\ op' = [op EXCEPT ![m].phase = Resume(m)]
        BY <2>1, <3>1 DEF LoggedIn
      <4>2. Resume(m) \in {"ask", "leg"}
        BY DEF Resume
      <4> DEFINE o == [op[m] EXCEPT !.phase = Resume(m)]
                 g == [mgr[m] EXCEPT !.session = op[m].phase]
      <4>3. op' = [op EXCEPT ![m] = o] /\ mgr' = [mgr EXCEPT ![m] = g]
        BY <1>0, <4>1
      <4>4. /\ o \in Op /\ o = [op[m] EXCEPT !.phase = o.phase] /\ o.timed = op[m].timed /\ o.url = op[m].url
            /\ o.phase \in {"ask", "leg"} /\ o.legs = op[m].legs /\ o.main = op[m].main /\ o.rtsp = op[m].rtsp /\ o.held = op[m].held
            /\ o.got = op[m].got /\ o.tried = op[m].tried
        BY <1>0, <4>2 DEF Op, Phase
      <4>5. g \in Setting /\ g.backend = mgr[m].backend /\ g.session # None
        <5>1. None \notin {"nat", "direct"}
          BY ManagerAssumption DEF ManagerAssumption
        <5> QED BY <1>0, <2>2, <5>1 DEF Setting
      <4> HIDE DEF o, g
      <4>6. op'[m] = o /\ mgr'[m] = g
        BY <1>0, <4>3
      <4>7. \A full \in Full : Due(full, o, g) => Due(full, op[m], mgr[m])
        BY <4>4, <4>5 DEF Due
      <4>8. OpOK(o, g)
        BY <1>0, <2>3, <4>4, <4>7 DEF OpOK
      <4>9. OwnSession(g)
        BY <2>3, <4>5 DEF OwnSession
      <4> QED BY <1>0, <4>3, <4>4, <4>6, <4>8, <4>9
    <3>2. CASE ~ok /\ op[m].phase = "nat" /\ mgr[m].ip
      <4> DEFINE o == [op[m] EXCEPT !.phase = "direct"]
      <4>1. mgr' = mgr /\ op' = [op EXCEPT ![m] = o]
        BY <1>0, <2>1, <3>2
      <4>2. o \in Op /\ o = [op[m] EXCEPT !.phase = o.phase] /\ o.timed = op[m].timed /\ o.url = op[m].url /\ o.phase = "direct"
        BY <1>0 DEF Op, Phase
      <4> HIDE DEF o
      <4>3. OpOK(o, mgr[m])
        BY <1>0, <2>3, <4>2, PhaseOK
      <4> QED BY <1>0, <4>1, <4>2, <4>3
    <3>3. CASE ~ok /\ ~(op[m].phase = "nat" /\ mgr[m].ip)
      <4>1. mgr' = mgr /\ Failed(m)
        BY <2>1, <3>3
      <4>2. op' = [op EXCEPT ![m] = NextLeg(op[m])] /\ op'[m] = NextLeg(op[m])
        BY <4>1, Doing DEF Failed
      <4>3. OpOK(NextLeg(op[m]), mgr[m])
        BY <1>0, <2>3, NextLegOK
      <4>4. mgr' = [mgr EXCEPT ![m] = mgr'[m]]
        BY <1>0, <4>1
      <4> QED BY <1>0, <4>1, <4>2, <4>3, <4>4, EndedFields
    <3> QED BY <3>1, <3>2, <3>3
  <2> QED BY <2>2, <2>4, <2>5 DEF Works, Discreet, GetsUrl
<1>3. CASE InSession(m)
  <2>1. /\ op[m].legs # <<>> /\ mgr' = mgr /\ sdk' = sdk /\ op[m].phase = "leg" /\ mgr[m].session # None
        /\ \/ Failed(m)
           \/ Shown(m, "full")
           \/ Shown(m, "small") /\ Head(op[m].legs) \in {"netsdk", "command"}
    BY <1>3 DEF InSession, On
  <2>2. Head(op[m].legs) \in {"netsdk", "command"} => Head(op[m].legs) \in Small
    BY DEF Small
  <2> QED BY <2>1, <2>2, EndedWorks DEF Image
<1> QED BY <1>1, <1>2, <1>3 DEF Native

-----------------------------------------------------------------------------
(* URLs *)

KeyOf(m) == Key(m, IF op[m].main THEN "main" ELSE "sub")
Hits(m)  == {e \in EntryOf(KeyOf(m)) : Fresh(e)}
New(m, cam) == [key |-> KeyOf(m), cam |-> cam, pw |-> mgr[m].pw, expires |-> now + Ttl]
Uses(m, url) == op' = [op EXCEPT ![m].url = url, ![m].phase = "grab"]

\* A resolution is one of four, each with its URL and its cache.
LEMMA ResolveCases ==
  ASSUME NEW m \in Manager, Resolve(m)
  PROVE  /\ op[m].legs # <<>> /\ Head(op[m].legs) = "rtsp" /\ op[m].phase = "leg"
         /\ UNCHANGED <<mgr, sdk, camera, last, now>>
         /\ \/ Uses(m, [cam |-> "own", pw |-> mgr[m].pw]) /\ cache' = cache
            \/ \E h \in Hits(m) : Uses(m, [cam |-> h.cam, pw |-> h.pw]) /\ cache' = Touched(h)
            \/ \E cam \in {camera, "relay"} :
                 /\ Uses(m, [cam |-> cam, pw |-> mgr[m].pw])
                 /\ cache' = IF Ttl > 0 THEN Kept(New(m, cam)) ELSE cache
            \/ /\ Failed(m) \/ (~op[m].timed /\ op' = [op EXCEPT ![m].phase = "ask"])
               /\ cache' = cache \/ cache' = Without(KeyOf(m))
<1>1. /\ op[m].legs # <<>> /\ Head(op[m].legs) = "rtsp" /\ op[m].phase = "leg"
      /\ UNCHANGED <<mgr, sdk, camera, last, now>>
  BY DEF Resolve, On
<1>2. \/ Uses(m, [cam |-> "own", pw |-> mgr[m].pw]) /\ cache' = cache
      \/ \E h \in Hits(m) : Uses(m, [cam |-> h.cam, pw |-> h.pw]) /\ cache' = Touched(h)
      \/ \E cam \in {camera, "relay"} :
           /\ Uses(m, [cam |-> cam, pw |-> mgr[m].pw])
           /\ cache' = IF Ttl > 0 THEN Kept(New(m, cam)) ELSE cache
      \/ /\ IF op[m].timed \/ ~ op[m].fallback THEN Failed(m)
            ELSE op' = [op EXCEPT ![m].phase = "ask"]
         /\ cache' = IF mgr[m].ip THEN Without(KeyOf(m)) ELSE cache
  BY Zenon DEF Resolve, KeyOf, Hits, New, Uses
<1>3. ASSUME IF op[m].timed \/ ~ op[m].fallback THEN Failed(m) ELSE op' = [op EXCEPT ![m].phase = "ask"]
      PROVE  Failed(m) \/ (~op[m].timed /\ op' = [op EXCEPT ![m].phase = "ask"])
  BY <1>3, Zenon
<1>4. ASSUME cache' = IF mgr[m].ip THEN Without(KeyOf(m)) ELSE cache
      PROVE  cache' = cache \/ cache' = Without(KeyOf(m))
  BY <1>4, Zenon
<1> QED BY <1>1, <1>2, <1>3, <1>4, Zenon

\* What the cache holds for a manager is of it, and current.
LEMMA HitsCurrent ==
  ASSUME Operations, Cached, World, NEW m \in Manager, NEW h \in Hits(m)
  PROVE  /\ h \in Honest /\ h \in Range(cache)
         /\ [cam |-> h.cam, pw |-> h.pw] \in Url /\ Current([cam |-> h.cam, pw |-> h.pw], m)
<1>1. h \in Range(cache) /\ h.key = KeyOf(m) /\ h.expires > now
  BY DEF Hits, EntryOf, Fresh
<1>2. cache \in Seq(Honest)
  BY DEF Cached
<1>3. h \in Honest
  BY <1>1, <1>2, RangeOfSeq
<1>4. h \in Entry /\ Sound(h)
  BY <1>3 DEF Honest
<1>5. h.pw = mgr[m].pw
  BY <1>1, <1>4 DEF Sound, KeyOf, Key
<1>6. h.cam \in Camera \cup {"relay"} /\ h.pw \in Manager /\ h.expires \in Nat
  BY <1>4 DEF Entry
<1>7. ASSUME h.cam \in Camera PROVE now - last[h.cam] < Ttl
  <2>1. h.expires <= last[h.cam] + Ttl
    BY <1>4, <1>7 DEF Sound
  <2>2. last[h.cam] \in Int /\ now \in Nat /\ Ttl \in Nat
    BY <1>7, ManagerAssumption DEF World, ManagerAssumption
  <2> QED BY <1>1, <1>6, <2>1, <2>2
<1>8. [cam |-> h.cam, pw |-> h.pw] \in Url
  BY <1>6 DEF Url
<1> QED BY <1>1, <1>3, <1>5, <1>7, <1>8 DEF Current

\* A URL just resolved is honest.
LEMMA NewHonest ==
  ASSUME Operations, World, NEW m \in Manager, NEW cam \in {camera, "relay"}
  PROVE  New(m, cam) \in Honest
<1>1. mgr[m] \in Setting /\ op[m] \in Op
  BY Doing
<1>2. KeyOf(m) \in Pair /\ KeyOf(m)[1] = mgr[m].pw
  BY <1>1 DEF KeyOf, Key, Pair, Stream, Setting
<1>3. now + Ttl \in Nat
  BY ManagerAssumption DEF World, ManagerAssumption
<1>4. New(m, cam) \in Entry
  BY <1>1, <1>2, <1>3 DEF New, Entry, World, Setting
<1>5. cam \in Camera => last[cam] = now
  BY ManagerAssumption DEF World, ManagerAssumption
<1>6. Sound(New(m, cam))
  BY <1>2, <1>3, <1>5 DEF Sound, New
<1> QED BY <1>4, <1>6 DEF Honest

\* A URL is there for a frame to be taken.
LEMMA UsesWorks ==
  ASSUME Operations, Timeouts, NEW m \in Manager, op[m].legs # <<>>, op[m].phase \in {"leg", "ask"},
         mgr' = mgr, sdk' = sdk, NEW url \in Url, Uses(m, url), Current(url, m)
  PROVE  Works(m) /\ Discreet(m) /\ GetsUrl(m)
<1>0. OpOK(op[m], mgr[m]) /\ op[m] \in Op /\ op \in [Manager -> Op] /\ OwnSession(mgr[m])
      /\ mgr = [mgr EXCEPT ![m] = mgr[m]]
  BY Doing DEF Operations
<1> DEFINE o == [op[m] EXCEPT !.url = url, !.phase = "grab"]
<1>1. op' = [op EXCEPT ![m] = o]
  BY <1>0 DEF Uses
<1>2. /\ o \in Op /\ o = [op[m] EXCEPT !.phase = o.phase, !.url = o.url]
      /\ o.phase = "grab" /\ o.timed = op[m].timed /\ o.url = url
  BY <1>0 DEF Op, Phase
<1> HIDE DEF o
<1>3. OpOK(o, mgr[m])
  BY <1>0, <1>2, PhaseOK
<1>4. op'[m] = o
  BY <1>0, <1>1
<1>5. Works(m) /\ Discreet(m)
  BY <1>0, <1>1, <1>2, <1>3, <1>4 DEF Works, Discreet, Timeouts
<1>6. GetsUrl(m)
  BY <1>2, <1>4 DEF GetsUrl
<1> QED BY <1>5, <1>6

\* A step of the RTSP leg.
LEMMA RtspWorks ==
  ASSUME Operations, Timeouts, Cached, World, NEW m \in Manager, Rtsp(m)
  PROVE  Works(m) /\ Discreet(m) /\ GetsUrl(m)
<1>0. /\ OpOK(op[m], mgr[m]) /\ op[m] \in Op /\ op \in [Manager -> Op] /\ mgr[m] \in Setting
      /\ op[m].legs # <<>> => Head(op[m].legs) = op[m].legs[1]
  BY Doing DEF Operations
<1>o. "own" \notin Camera /\ "relay" \notin Camera /\ mgr[m].pw \in Manager
  BY <1>0, ManagerAssumption DEF ManagerAssumption, Setting
<1>1. CASE Resolve(m)
  <2>1. /\ op[m].legs # <<>> /\ op[m].phase = "leg" /\ mgr' = mgr /\ sdk' = sdk
        /\ Head(op[m].legs) = "rtsp"
    BY <1>1, ResolveCases
  <2>2. CASE Uses(m, [cam |-> "own", pw |-> mgr[m].pw])
    <3>1. [cam |-> "own", pw |-> mgr[m].pw] \in Url
      BY <1>o DEF Url
    <3>2. Current([cam |-> "own", pw |-> mgr[m].pw], m)
      BY <1>o DEF Current
    <3> QED BY <2>1, <2>2, <3>1, <3>2, UsesWorks
  <2>3. ASSUME NEW h \in Hits(m), Uses(m, [cam |-> h.cam, pw |-> h.pw])
        PROVE  Works(m) /\ Discreet(m) /\ GetsUrl(m)
    BY <2>1, <2>3, HitsCurrent, UsesWorks
  <2>4. ASSUME NEW cam \in {camera, "relay"}, Uses(m, [cam |-> cam, pw |-> mgr[m].pw])
        PROVE  Works(m) /\ Discreet(m) /\ GetsUrl(m)
    <3>1. [cam |-> cam, pw |-> mgr[m].pw] \in Url
      BY <1>o DEF Url, World
    <3>2. Current([cam |-> cam, pw |-> mgr[m].pw], m)
      BY <1>o DEF Current
    <3> QED BY <2>1, <2>4, <3>1, <3>2, UsesWorks
  <2>5. CASE Failed(m)
    BY <2>1, <2>5, EndedWorks
  <2>6. CASE ~op[m].timed /\ op' = [op EXCEPT ![m].phase = "ask"]
    <3> DEFINE o == [op[m] EXCEPT !.phase = "ask"]
    <3>1. op' = [op EXCEPT ![m] = o]
      BY <1>0, <2>6
    <3>2. /\ o \in Op /\ o = [op[m] EXCEPT !.phase = o.phase]
          /\ o.phase = "ask" /\ o.timed = op[m].timed /\ o.url = op[m].url
      BY <1>0 DEF Op, Phase
    <3> HIDE DEF o
    <3>3. OpOK(o, mgr[m])
      BY <1>0, <2>1, <2>6, <3>2, PhaseOK
    <3> QED BY <2>1, <3>1, <3>2, <3>3, MovesOn
  <2> QED BY <1>1, <2>2, <2>3, <2>4, <2>5, <2>6, ResolveCases
<1>2. CASE AskBackend(m)
  <2>1. /\ op[m].legs # <<>> /\ op[m].phase = "ask" /\ mgr' = mgr /\ sdk' = sdk
        /\ Failed(m) \/ Uses(m, [cam |-> "relay", pw |-> mgr[m].pw])
    BY <1>2 DEF AskBackend, On, Uses
  <2>2. [cam |-> "relay", pw |-> mgr[m].pw] \in Url /\ Current([cam |-> "relay", pw |-> mgr[m].pw], m)
    BY <1>o DEF Url, Current
  <2>3. CASE Failed(m)
    BY <2>1, <2>3, EndedWorks
  <2>4. CASE Uses(m, [cam |-> "relay", pw |-> mgr[m].pw])
    BY <2>1, <2>2, <2>4, UsesWorks
  <2> QED BY <2>1, <2>3, <2>4
<1>3. CASE Grab(m)
  <2>1. /\ op[m].legs # <<>> /\ op[m].phase = "grab" /\ mgr' = mgr /\ sdk' = sdk
        /\ Failed(m) \/ Shown(m, "full")
    BY <1>3 DEF Grab, On
  <2> QED BY <2>1, EndedWorks DEF Image
<1> QED BY <1>1, <1>2, <1>3 DEF Rtsp

\* ... and what it leaves in the cache.
LEMMA RtspCaches ==
  ASSUME Operations, Cached, World, NEW m \in Manager, Rtsp(m)
  PROVE  cache' \in Seq(Honest) /\ Len(cache') <= MaxEntries /\ UNCHANGED <<camera, last, now>>
<1>0. cache \in Seq(Honest) /\ Len(cache) <= MaxEntries /\ Len(cache) \in Nat /\ MaxEntries \in Nat
  BY LenProperties, ManagerAssumption DEF Cached, ManagerAssumption
<1>1. UNCHANGED <<camera, last, now>>
  BY DEF Rtsp, Resolve, AskBackend, Grab
<1>2. \A key : Without(key) \in Seq(Honest) /\ Len(Without(key)) <= MaxEntries
  <2> SUFFICES ASSUME NEW key PROVE Without(key) \in Seq(Honest) /\ Len(Without(key)) <= MaxEntries
    OBVIOUS
  <2>1. Without(key) \in Seq(Honest) /\ Len(Without(key)) \in Nat /\ Len(Without(key)) <= Len(cache)
    BY <1>0, CacheWithout
  <2> QED BY <1>0, <2>1
<1>3. CASE cache' = cache \/ \E key : cache' = Without(key)
  BY <1>0, <1>1, <1>2, <1>3
<1>4. ASSUME NEW h \in Hits(m), cache' = Touched(h)
      PROVE  cache' \in Seq(Honest) /\ Len(cache') <= MaxEntries
  <2>1. h \in Honest /\ h \in Range(cache)
    BY HitsCurrent
  <2>2. Touched(h) \in Seq(Honest) /\ Len(Touched(h)) = Len(cache)
    BY <1>0, <2>1, CacheTouched
  <2> QED BY <1>0, <1>4, <2>2
<1>5. ASSUME NEW cam \in {camera, "relay"}, cache' = Kept(New(m, cam))
      PROVE  cache' \in Seq(Honest) /\ Len(cache') <= MaxEntries
  <2>1. Kept(New(m, cam)) \in Seq(Honest) /\ Len(Kept(New(m, cam))) <= MaxEntries
    BY <1>0, NewHonest, CacheKept
  <2> QED BY <1>5, <2>1
<1>6. CASE Resolve(m)
  <2>1. \/ cache' = cache \/ (\E key : cache' = Without(key))
        \/ (\E h \in Hits(m) : cache' = Touched(h))
        \/ (\E cam \in {camera, "relay"} : cache' = IF Ttl > 0 THEN Kept(New(m, cam)) ELSE cache)
    BY <1>6, ResolveCases
  <2>2. ASSUME NEW cam \in {camera, "relay"}, cache' = IF Ttl > 0 THEN Kept(New(m, cam)) ELSE cache
        PROVE  cache' = Kept(New(m, cam)) \/ cache' = cache
    BY <2>2, Zenon
  <2> QED BY <1>1, <1>3, <1>4, <1>5, <2>1, <2>2
<1>7. CASE AskBackend(m)
  BY <1>3, <1>7 DEF AskBackend
<1>8. CASE Grab(m)
  <2>1. cache' = cache \/ \E key : cache' = Without(key)
    BY <1>8, Zenon DEF Grab
  <2> QED BY <1>3, <2>1
<1> QED BY <1>6, <1>7, <1>8 DEF Rtsp

-----------------------------------------------------------------------------
(* The steps *)

\* A step of m keeps its operation in order, its session and its URL, and leaves
\* the other managers alone.
LEMMA ManagerWorks ==
  ASSUME MInv, NEW m \in Manager,
         Begin(m) \/ Rtsp(m) \/ Native(m) \/ WebApi(m) \/ Bridge(m) \/ BridgeCommand(m)
  PROVE  /\ Works(m) /\ Discreet(m) /\ GetsUrl(m)
         /\ cache' \in Seq(Honest) /\ Len(cache') <= MaxEntries /\ UNCHANGED <<camera, last, now>>
<1>0. Operations /\ Timeouts /\ Cached /\ World
  BY DEF MInv
<1>1. CASE Begin(m)
  <2>1. UNCHANGED <<cache, camera, last, now>>
    BY <1>1 DEF Begin, Snapshot, Command, Close, Expire
  <2> QED BY <1>0, <1>1, <2>1, BeginWorks DEF Cached
<1>2. CASE Rtsp(m)
  BY <1>0, <1>2, RtspWorks, RtspCaches
<1>3. CASE Native(m)
  <2>1. UNCHANGED <<cache, camera, last, now>>
    BY <1>3 DEF Native, LoginBegin, LoginEnd, InSession
  <2> QED BY <1>0, <1>3, <2>1, NativeWorks DEF Cached
<1>4. CASE WebApi(m) \/ Bridge(m) \/ BridgeCommand(m)
  <2>1. UNCHANGED <<cache, camera, last, now>>
    BY <1>4 DEF WebApi, Bridge, BridgeCommand
  <2> QED BY <1>0, <1>4, <2>1, ServerWorks DEF Cached
<1> QED BY <1>1, <1>2, <1>3, <1>4

\* What was honest stays so: the time at which a camera was last behind the
\* channel never decreases.
LEMMA HonestStays ==
  ASSUME World, last' \in [Camera -> Int], \A c \in Camera : last[c] <= last'[c]
  PROVE  Honest \subseteq Honest'
<1> SUFFICES ASSUME NEW e \in Honest PROVE e \in Honest'
  OBVIOUS
<1>1. e \in Entry /\ Sound(e)
  BY DEF Honest
<1>2. ASSUME e.cam \in Camera PROVE e.expires <= last'[e.cam] + Ttl
  <2>1. e.expires \in Nat /\ last[e.cam] \in Int /\ last'[e.cam] \in Int /\ Ttl \in Nat
    BY <1>1, <1>2, ManagerAssumption DEF Entry, World, ManagerAssumption
  <2>2. e.expires <= last[e.cam] + Ttl /\ last[e.cam] <= last'[e.cam]
    BY <1>1, <1>2 DEF Sound
  <2> QED BY <2>1, <2>2
<1> QED BY <1>1, <1>2 DEF Honest, Sound

\* Time passes, or the camera is replaced.
LEMMA WorldMoves ==
  ASSUME World, Tick \/ Replace
  PROVE  /\ UNCHANGED <<mgr, op, cache, sdk>> /\ World'
         /\ last' \in [Camera -> Int] /\ \A c \in Camera : last[c] <= last'[c]
<1>0. /\ camera \in Camera /\ last \in [Camera -> Int] /\ now \in Nat
      /\ last[camera] = now /\ \A c \in Camera : last[c] <= now
  BY DEF World
<1>1. CASE Tick
  <2>1. now' = now + 1 /\ last' = [last EXCEPT ![camera] = now + 1] /\ UNCHANGED <<mgr, op, cache, sdk, camera>>
    BY <1>1 DEF Tick
  <2>2. last' \in [Camera -> Int] /\ last'[camera] = now + 1 /\ \A c \in Camera : c # camera => last'[c] = last[c]
    BY <1>0, <2>1
  <2>3. \A c \in Camera : last[c] \in Int
    BY <1>0
  <2> QED BY <1>0, <2>1, <2>2, <2>3 DEF World
<1>2. CASE Replace
  <2>1. PICK c \in Camera : camera' = c /\ c # camera /\ last' = [last EXCEPT ![c] = now]
    BY <1>2 DEF Replace
  <2>2. UNCHANGED <<mgr, op, cache, sdk, now>>
    BY <1>2 DEF Replace
  <2>3. last' \in [Camera -> Int] /\ last'[c] = now /\ \A d \in Camera : d # c => last'[d] = last[d]
    BY <1>0, <2>1
  <2>4. \A d \in Camera : last[d] \in Int
    BY <1>0
  <2> QED BY <1>0, <2>1, <2>2, <2>3, <2>4 DEF World
<1> QED BY <1>1, <1>2

\* The invariant is inductive.
LEMMA MInvStep == MInv /\ [Next]_vars => MInv'
<1> SUFFICES ASSUME MInv, [Next]_vars PROVE MInv'
  OBVIOUS
<1>0. Operations /\ Timeouts /\ Cached /\ World
  BY DEF MInv
<1>1. ASSUME NEW m \in Manager,
             Begin(m) \/ Rtsp(m) \/ Native(m) \/ WebApi(m) \/ Bridge(m) \/ BridgeCommand(m)
      PROVE  MInv'
  <2>1. Works(m) /\ cache' \in Seq(Honest) /\ Len(cache') <= MaxEntries /\ UNCHANGED <<camera, last, now>>
    BY <1>1, ManagerWorks
  <2>2. Operations' /\ Timeouts'
    BY <1>0, <2>1, WorksKeeps
  <2>3. World'
    BY <1>0, <2>1 DEF World
  <2>4. Honest \subseteq Honest'
    <3>1. last' \in [Camera -> Int] /\ \A c \in Camera : last[c] <= last'[c]
      BY <1>0, <2>1 DEF World
    <3> QED BY <1>0, <3>1, HonestStays
  <2>5. cache' \in Seq(Honest')
    BY <2>1, <2>4, SeqMonotonic
  <2>6. Cached'
    BY <2>1, <2>5 DEF Cached
  <2> QED BY <2>2, <2>3, <2>6 DEF MInv
<1>2. CASE Tick \/ Replace
  <2>1. /\ UNCHANGED <<mgr, op, cache, sdk>> /\ World'
        /\ last' \in [Camera -> Int] /\ \A c \in Camera : last[c] <= last'[c]
    BY <1>0, <1>2, WorldMoves
  <2>2. Honest \subseteq Honest'
    BY <1>0, <2>1, HonestStays
  <2>3. cache' \in Seq(Honest') /\ Len(cache') <= MaxEntries
    BY <1>0, <2>1, <2>2, SeqMonotonic DEF Cached
  <2>4. Cached'
    BY <2>3 DEF Cached
  <2>5. Operations' /\ Timeouts'
    BY <1>0, <2>1 DEF Operations, Timeouts
  <2> QED BY <2>1, <2>4, <2>5 DEF MInv
<1>3. CASE UNCHANGED vars
  <2>1. UNCHANGED <<mgr, op, cache, sdk, camera, last, now>>
    BY <1>3 DEF vars
  <2>2. Honest' = Honest
    BY <2>1 DEF Honest, Sound
  <2>3. Cached'
    BY <1>0, <2>1, <2>2 DEF Cached
  <2>4. Operations' /\ Timeouts' /\ World'
    BY <1>0, <2>1 DEF Operations, Timeouts, World
  <2> QED BY <2>3, <2>4 DEF MInv
<1> QED BY <1>1, <1>2, <1>3 DEF Next

\* The invariant holds.
LEMMA MInvCorrect == Spec => []MInv
<1> QED BY MInvInit, MInvStep, PTL DEF Spec

\* What a step does to any one manager.
LEMMA StepOf ==
  ASSUME MInv, [Next]_vars, NEW m \in Manager
  PROVE  (Discreet(m) /\ GetsUrl(m)) \/ (op'[m] = op[m] /\ mgr'[m] = mgr[m])
<1>0. mgr \in [Manager -> Setting] /\ op \in [Manager -> Op] /\ World
  BY DEF MInv, Operations
<1>1. ASSUME NEW k \in Manager,
             Begin(k) \/ Rtsp(k) \/ Native(k) \/ WebApi(k) \/ Bridge(k) \/ BridgeCommand(k)
      PROVE  (Discreet(m) /\ GetsUrl(m)) \/ (op'[m] = op[m] /\ mgr'[m] = mgr[m])
  <2>1. Works(k) /\ Discreet(k) /\ GetsUrl(k)
    BY <1>1, ManagerWorks
  <2>2. op' = [op EXCEPT ![k] = op'[k]] /\ mgr' = [mgr EXCEPT ![k] = mgr'[k]]
    BY <2>1 DEF Works
  <2>3. m # k => op'[m] = op[m] /\ mgr'[m] = mgr[m]
    BY <1>0, <2>2
  <2> QED BY <2>1, <2>3
<1>2. CASE Tick \/ Replace
  BY <1>0, <1>2, WorldMoves
<1>3. CASE UNCHANGED vars
  BY <1>3 DEF vars
<1> QED BY <1>1, <1>2, <1>3 DEF Next

-----------------------------------------------------------------------------
(* The properties *)

\* The timeout of the process is its default whenever nobody logs in through NAT;
\* the cache never grows over its limit, and a session and a phase are of their kind.
THEOREM TimeoutCorrect == Spec => []TimeoutRestored
<1>1. MInv => TimeoutRestored
  <2> SUFFICES ASSUME MInv PROVE TimeoutRestored
    OBVIOUS
  <2>1. Operations /\ Timeouts /\ Cached
    BY DEF MInv
  <2>2. ASSUME NEW m \in Manager
        PROVE  mgr[m].session \in {None, "nat", "direct"} /\ op[m].phase \in {"leg", "grab", "ask", "nat", "direct"}
    BY <2>1 DEF Operations, Setting, Op, Phase
  <2>3. Len(cache) <= MaxEntries /\ sdk.clients \subseteq Manager
    BY <2>1 DEF Cached, Timeouts
  <2>4. (\A m \in Manager : op[m].phase # "nat") => sdk.timeout = Default
    BY <2>1 DEF Timeouts
  <2> QED BY <2>2, <2>3, <2>4 DEF TimeoutRestored, TypeOK
<1> QED BY <1>1, MInvCorrect, PTL

\* A small picture of the main stream is shown only after RTSP was tried, if the caller
\* asked for it, and the key frame of the SDK, if the back end has one and the manager
\* may log in for it or held a session.
THEOREM ResolutionCorrect == Spec => []FullResolutionFirst
<1>1. MInv => FullResolutionFirst
  <2> SUFFICES ASSUME MInv, NEW m \in Manager, op[m].main, op[m].got = "small"
               PROVE  /\ op[m].rtsp => "rtsp" \in op[m].tried
                      /\ mgr[m].backend = "netsdk" /\ (~op[m].timed \/ op[m].held) => "keyframe" \in op[m].tried
    BY DEF FullResolutionFirst
  <2>1. OpOK(op[m], mgr[m])
    BY DEF MInv, Operations
  <2>2. /\ Due("rtsp", op[m], mgr[m]) => "rtsp" \in op[m].tried
        /\ Due("keyframe", op[m], mgr[m]) => "keyframe" \in op[m].tried
    BY <2>1 DEF OpOK, Full
  <2> QED BY <2>2 DEF Due
<1> QED BY <1>1, MInvCorrect, PTL

\* No login of the SDK begins, and no session is given up, under a deadline.
THEOREM DeadlineCorrect == Spec => NoLoginUnderDeadline
<1> DEFINE A == \A m \in Manager : op[m].legs # <<>> /\ op[m].timed =>
                  mgr'[m].session = mgr[m].session /\ op'[m].phase \notin {"nat", "direct"}
<1>1. MInv /\ MInv' /\ [Next]_vars => A
  <2> SUFFICES ASSUME MInv, MInv', [Next]_vars, NEW m \in Manager, op[m].legs # <<>>, op[m].timed
               PROVE  mgr'[m].session = mgr[m].session /\ op'[m].phase \notin {"nat", "direct"}
    OBVIOUS
  <2>1. OpOK(op[m], mgr[m])
    BY DEF MInv, Operations
  <2>2. OpOK(op'[m], mgr'[m])
    BY DEF MInv, Operations
  <2>3. op[m].phase \notin {"nat", "direct"}
    BY <2>1 DEF OpOK
  <2>4. CASE Discreet(m)
    BY <2>2, <2>3, <2>4 DEF Discreet, OpOK
  <2>5. CASE op'[m] = op[m] /\ mgr'[m] = mgr[m]
    BY <2>3, <2>5
  <2> QED BY <2>4, <2>5, StepOf
<1>2. MInv /\ MInv' /\ [Next]_vars => [A]_vars
  BY <1>1
<1>3. Spec => [][A]_vars
  BY <1>2, MInvCorrect, PTL DEF Spec
<1> QED BY <1>3 DEF NoLoginUnderDeadline

\* A URL that a manager gets carries its password, and shows a camera that is behind
\* the channel or was so within the time to live.
THEOREM UrlsCorrect == Spec => UrlsAreCurrent
<1> DEFINE A == \A m \in Manager : op[m].url = None /\ op'[m].url # None =>
                  LET url == op'[m].url
                  IN  /\ url.pw = mgr[m].pw
                      /\ url.cam \in Camera => url.cam = camera \/ now - last[url.cam] < Ttl
<1>1. MInv /\ [Next]_vars => A
  <2> SUFFICES ASSUME MInv, [Next]_vars, NEW m \in Manager, op[m].url = None, op'[m].url # None
               PROVE  LET url == op'[m].url
                      IN  /\ url.pw = mgr[m].pw
                          /\ url.cam \in Camera => url.cam = camera \/ now - last[url.cam] < Ttl
    OBVIOUS
  <2>1. GetsUrl(m)
    BY StepOf
  <2> QED BY <2>1 DEF GetsUrl, Current
<1>2. MInv /\ [Next]_vars => [A]_vars
  BY <1>1
<1>3. Spec => [][A]_vars
  BY <1>2, MInvCorrect, PTL DEF Spec
<1> QED BY <1>3 DEF UrlsAreCurrent
=============================================================================
