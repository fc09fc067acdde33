------------------------ MODULE ManagementClient_proofs ------------------------
(* The management client holds the sessions and alarm channels it opens, lists what the
   server has and walks all of it, for every set of modes, clients, resources, servers,
   handles, areas and devices, of which those that are counted are finite.

   PlatformSDK.  One login is in progress or one session in use, never both (Single).
   What the server knows of is held by the client and is the one the process-wide
   callback is for (Owned), so what the SDK's thread delivers reaches the session it is
   meant for, and an outcome is that of the login that waits (Phases).  The rows a
   session keeps and the messages still under way say together what the server has
   (Current): whoever lists when nothing is under way lists that.

   NET_SDK.  Every native session is the client's and every channel is that of a
   subscription not yet closed (Natives).

   Web.  A walk sees areas page by page while devices come and go.  What it has seen of
   the area it walks is in that area unless the total of the area has changed (Covers):
   one device that comes or goes does change it, and the walk then fails.      *)
EXTENDS ManagementClient, FiniteSetTheorems, TLAPS

(***************************************************************************)
(* What a session was told of a resource                                   *)
(***************************************************************************)

Message == [type : {"connect"}, ok : BOOLEAN]
           \cup [type : {"typed"}, opt : {"create", "delete"}, server : Server]
           \cup [type : {"reslist"}, opt : {"create", "update_state", "delete"},
                 node : Node \cup {None}, on : BOOLEAN, finish : BOOLEAN]

\* The messages of w about n that the callback will keep.
Said(w, opt, n) ==
    {i \in DOMAIN w : w[i].type = "reslist" /\ w[i].opt = opt /\ w[i].node = n}

Unheard(s, w, n) == \A opt \in {"create", "update_state"} : Said(w, opt, n) = {} /\ Rows(s, opt, n) = {}

Latest(S, i) == i \in S /\ \A j \in S : j <= i

\* A session with state s and w still under way comes to list n, and the last word
\* about its state is b.
Informed(s, w, n, b) ==
    /\ Said(w, "create", n) # {} \/ Rows(s, "create", n) # {}
    /\ Rows(s, "create", n) # {} => \E i \in DOMAIN s.rows : Latest(Rows(s, "create", n), i)
    /\ Said(w, "update_state", n) # {} =>
         \E i \in DOMAIN w : Latest(Said(w, "update_state", n), i) /\ w[i].on = b
    /\ Said(w, "update_state", n) = {} /\ Rows(s, "update_state", n) # {} =>
         \E i \in DOMAIN s.rows : Latest(Rows(s, "update_state", n), i) /\ s.rows[i].on = b
    /\ Said(w, "update_state", n) = {} /\ Rows(s, "update_state", n) = {} =>
         /\ \A i \in Said(w, "create", n) : w[i].on = b
         /\ \A i \in Rows(s, "create", n) : s.rows[i].on = b

\* What the callback makes of a message.
LEMMA HeardOf ==
    ASSUME NEW s \in SessionState, NEW m \in Message
    PROVE  /\ Heard(s, m) \in SessionState
           /\ Heard(s, m).ok = IF m.type = "connect" THEN m.ok ELSE s.ok
           /\ Heard(s, m).rows =
                IF m.type = "reslist" /\ m.opt \in {"create", "update_state"} /\ m.node # None
                  THEN Append(s.rows, [opt |-> m.opt, node |-> m.node, on |-> m.on]) ELSE s.rows
<1>1. CASE m.type = "connect"
  <2>1. m.ok \in BOOLEAN
    BY <1>1 DEF Message
  <2>2. Heard(s, m) = [s EXCEPT !.event = TRUE, !.ok = m.ok]
    BY <1>1 DEF Heard, OnConnect
  <2> QED BY <1>1, <2>1, <2>2 DEF SessionState
<1>2. CASE m.type = "typed"
  <2>1. m.server \in Server
    BY <1>2 DEF Message
  <2>2. Heard(s, m) = OnTyped(s, m)
    BY <1>2 DEF Heard
  <2> QED BY <1>2, <2>1, <2>2 DEF SessionState, OnTyped
<1>3. CASE m.type = "reslist"
  <2>1. m.finish \in BOOLEAN /\ m.on \in BOOLEAN /\ m.node \in Node \cup {None}
    BY <1>3 DEF Message
  <2>2. Heard(s, m) = OnReslist(s, m)
    BY <1>3 DEF Heard
  <2>3. m.opt \in {"create", "update_state"} /\ m.node # None =>
          [opt |-> m.opt, node |-> m.node, on |-> m.on] \in Row
    BY <2>1 DEF Row
  <2>4. (IF m.opt \in {"create", "update_state"} /\ m.node # None
          THEN Append(s.rows, [opt |-> m.opt, node |-> m.node, on |-> m.on]) ELSE s.rows) \in Seq(Row)
    BY <2>3 DEF SessionState
  <2>5. s.done \/ m.finish \in BOOLEAN
    BY <2>1 DEF SessionState
  <2> QED BY <1>3, <2>2, <2>4, <2>5 DEF SessionState, OnReslist
<1> QED BY <1>1, <1>2, <1>3 DEF Message

\* What a message sent after the others adds to them.
LEMMA SaidOf ==
    ASSUME NEW w \in Seq(Message), NEW m \in Message, NEW opt, NEW n
    PROVE  /\ Said(Append(w, m), opt, n) = Said(w, opt, n) \cup
                (IF m.type = "reslist" /\ m.opt = opt /\ m.node = n THEN {Len(w) + 1} ELSE {})
           /\ \A i \in DOMAIN w : Append(w, m)[i] = w[i]
           /\ Append(w, m)[Len(w) + 1] = m
           /\ DOMAIN w = 1..Len(w) /\ DOMAIN Append(w, m) = 1..Len(w) + 1
           /\ Len(w) \in Nat /\ Append(w, m) \in Seq(Message)
BY DEF Said

\* What is left under way when the first message is taken off.
LEMMA SaidTail ==
    ASSUME NEW w \in Seq(Message), w # <<>>, NEW opt, NEW n
    PROVE  /\ \A i \in DOMAIN Tail(w) : i \in Nat /\ i + 1 \in DOMAIN w /\ Tail(w)[i] = w[i + 1]
           /\ \A i \in Said(Tail(w), opt, n) : i \in Nat /\ i + 1 \in Said(w, opt, n)
           /\ \A i \in Said(w, opt, n) : i # 1 => i \in Nat /\ i - 1 \in Said(Tail(w), opt, n)
           /\ 1 \in Said(w, opt, n) <=>
                Head(w).type = "reslist" /\ Head(w).opt = opt /\ Head(w).node = n
           /\ Head(w) = w[1] /\ Head(w) \in Message /\ Tail(w) \in Seq(Message)
           /\ 1 \in DOMAIN w
<1>1. /\ Len(w) \in Nat \ {0} /\ DOMAIN w = 1..Len(w) /\ Len(Tail(w)) = Len(w) - 1
      /\ Tail(w) \in Seq(Message) /\ Head(w) = w[1] /\ Head(w) \in Message
  OBVIOUS
<1>2. DOMAIN Tail(w) = 1..Len(w) - 1
  BY <1>1
<1>3. \A i \in 1..Len(w) - 1 : Tail(w)[i] = w[i + 1]
  BY <1>1
<1> QED BY <1>1, <1>2, <1>3 DEF Said

\* The message m is one of kind opt about resource n.
About(m, opt, n) == m.type = "reslist" /\ m.opt = opt /\ m.node = n

\* The rows of a session after a message, by what the message is about.
LEMMA RowsHeard ==
    ASSUME NEW s \in SessionState, NEW m \in Message, NEW n \in Node,
           NEW opt \in {"create", "update_state"}
    PROVE  /\ About(m, opt, n) =>
                /\ Latest(Rows(Heard(s, m), opt, n), Len(s.rows) + 1)
                /\ Len(s.rows) + 1 \in DOMAIN Heard(s, m).rows
                /\ Heard(s, m).rows[Len(s.rows) + 1].on = m.on
                /\ \A i \in Rows(Heard(s, m), opt, n) : i = Len(s.rows) + 1 \/ i \in Rows(s, opt, n)
           /\ ~ About(m, opt, n) => Rows(Heard(s, m), opt, n) = Rows(s, opt, n)
           /\ \A i \in DOMAIN s.rows : i \in DOMAIN Heard(s, m).rows /\ Heard(s, m).rows[i] = s.rows[i]
<1> DEFINE t == Heard(s, m)
<1> DEFINE r == [opt |-> m.opt, node |-> m.node, on |-> m.on]
<1> DEFINE Kept == m.type = "reslist" /\ m.opt \in {"create", "update_state"} /\ m.node # None
<1>1. t.rows = IF Kept THEN Append(s.rows, r) ELSE s.rows
  BY HeardOf
<1>2. s.rows \in Seq(Row)
  BY DEF SessionState
<1>3. CASE ~ Kept
  <2>1. ~ About(m, opt, n)
    BY <1>3, PlatformAssumption DEF About
  <2>2. t.rows = s.rows
    BY <1>1, <1>3
  <2> QED BY <2>1, <2>2 DEF Rows
<1>4. CASE Kept
  <2>1. r \in Row
    BY <1>4 DEF Message, Row
  <2>2. t.rows = Append(s.rows, r)
    BY <1>1, <1>4
  <2> HIDE DEF t, r
  <2>3. /\ Rows(t, opt, n) = Rows(s, opt, n) \cup
                (IF r.opt = opt /\ r.node = n THEN {Len(s.rows) + 1} ELSE {})
        /\ \A i \in DOMAIN s.rows : t.rows[i] = s.rows[i]
        /\ t.rows[Len(s.rows) + 1] = r
        /\ DOMAIN s.rows = 1..Len(s.rows) /\ DOMAIN t.rows = 1..Len(s.rows) + 1
        /\ Len(s.rows) \in Nat
    BY <1>2, <2>1, <2>2 DEF Rows
  <2>4. r.opt = opt /\ r.node = n <=> About(m, opt, n)
    BY <1>4 DEF About, r
  <2>5. r.on = m.on
    BY DEF r
  <2>6. Rows(s, opt, n) \subseteq 1..Len(s.rows)
    BY <2>3 DEF Rows
  <2> HIDE DEF Kept
  <2>7. About(m, opt, n) => Latest(Rows(t, opt, n), Len(s.rows) + 1)
    BY <2>3, <2>4, <2>6 DEF Latest
  <2> QED BY <2>3, <2>4, <2>5, <2>7 DEF t
<1> QED BY <1>3, <1>4

\* Delivering a message loses nothing of what it says.
LEMMA DeliveryInforms ==
    ASSUME NEW s \in SessionState, NEW w \in Seq(Message), w # <<>>, NEW n \in Node, NEW b,
           Informed(s, w, n, b)
    PROVE  Informed(Heard(s, Head(w)), Tail(w), n, b)
<1> DEFINE t == Heard(s, Head(w))
           m == Head(w)
           KC == Rows(s, "create", n)
           KU == Rows(s, "update_state", n)
           SC == Said(w, "create", n)
           SU == Said(w, "update_state", n)
           LC == Rows(t, "create", n)
           LU == Rows(t, "update_state", n)
           TC == Said(Tail(w), "create", n)
           TU == Said(Tail(w), "update_state", n)
           L == Len(s.rows) + 1
<1>1. m \in Message /\ m = w[1]
  BY SaidTail
<1>2. /\ About(m, "create", n) => Latest(LC, L) /\ L \in DOMAIN t.rows /\ t.rows[L].on = m.on
                                    /\ \A i \in LC : i = L \/ i \in KC
      /\ ~ About(m, "create", n) => LC = KC
      /\ About(m, "update_state", n) => Latest(LU, L) /\ L \in DOMAIN t.rows /\ t.rows[L].on = m.on
                                    /\ \A i \in LU : i = L \/ i \in KU
      /\ ~ About(m, "update_state", n) => LU = KU
      /\ \A i \in DOMAIN s.rows : i \in DOMAIN t.rows /\ t.rows[i] = s.rows[i]
  BY <1>1, RowsHeard
<1>3. /\ 1 \in SC <=> About(m, "create", n)
      /\ 1 \in SU <=> About(m, "update_state", n)
      /\ \A i \in DOMAIN Tail(w) : i \in Nat /\ i + 1 \in DOMAIN w /\ Tail(w)[i] = w[i + 1]
      /\ \A i \in TC : i \in Nat /\ i + 1 \in SC
      /\ \A i \in TU : i \in Nat /\ i + 1 \in SU
      /\ \A i \in SC : i # 1 => i \in Nat /\ i - 1 \in TC
      /\ \A i \in SU : i # 1 => i \in Nat /\ i - 1 \in TU
  BY SaidTail DEF About
<1>4. /\ TC \subseteq DOMAIN Tail(w) /\ TU \subseteq DOMAIN Tail(w)
      /\ KC \subseteq DOMAIN s.rows /\ KU \subseteq DOMAIN s.rows
  BY DEF Said, Rows
<1>5. /\ SC # {} \/ KC # {}
      /\ KC # {} => \E i \in DOMAIN s.rows : Latest(KC, i)
      /\ SU # {} => \E i \in DOMAIN w : Latest(SU, i) /\ w[i].on = b
      /\ SU = {} /\ KU # {} => \E i \in DOMAIN s.rows : Latest(KU, i) /\ s.rows[i].on = b
      /\ SU = {} /\ KU = {} =>
           /\ \A i \in SC : w[i].on = b
           /\ \A i \in KC : s.rows[i].on = b
  BY DEF Informed
<1> HIDE DEF t, m, KC, KU, SC, SU, LC, LU, TC, TU, L
<1>6. TC # {} \/ LC # {}
  <2>1. CASE About(m, "create", n)
    BY <1>2, <2>1 DEF Latest
  <2>2. CASE ~ About(m, "create", n)
    BY <1>2, <1>3, <1>5, <2>2
  <2> QED BY <2>1, <2>2
<1>7. LC # {} => \E i \in DOMAIN t.rows : Latest(LC, i)
  BY <1>2, <1>5
<1>8. TU # {} => \E i \in DOMAIN Tail(w) : Latest(TU, i) /\ Tail(w)[i].on = b
  <2> SUFFICES ASSUME TU # {} PROVE \E i \in DOMAIN Tail(w) : Latest(TU, i) /\ Tail(w)[i].on = b
    OBVIOUS
  <2>1. PICK i \in DOMAIN w : Latest(SU, i) /\ w[i].on = b
    BY <1>3, <1>5
  <2>2. \A j \in TU : j \in Nat /\ j + 1 <= i
    BY <1>3, <2>1 DEF Latest
  <2>3. i # 1
    BY <1>3, <1>4, <2>2
  <2>4. i \in Nat /\ i - 1 \in TU
    BY <1>3, <2>1, <2>3 DEF Latest
  <2>5. Latest(TU, i - 1)
    BY <2>2, <2>4 DEF Latest
  <2>6. Tail(w)[i - 1] = w[i]
    BY <1>3, <1>4, <2>4
  <2> QED BY <1>4, <2>1, <2>4, <2>5, <2>6
<1>9. TU = {} => \A i \in SU : i = 1
  BY <1>3
<1>10. TU = {} /\ LU # {} => \E i \in DOMAIN t.rows : Latest(LU, i) /\ t.rows[i].on = b
  <2> SUFFICES ASSUME TU = {}, LU # {}
               PROVE  \E i \in DOMAIN t.rows : Latest(LU, i) /\ t.rows[i].on = b
    OBVIOUS
  <2>1. CASE About(m, "update_state", n)
    <3>1. w[1].on = b
      BY <1>3, <1>5, <1>9, <2>1 DEF Latest
    <3> QED BY <1>1, <1>2, <2>1, <3>1
  <2>2. CASE ~ About(m, "update_state", n)
    <3>1. SU = {} /\ KU # {} /\ LU = KU
      BY <1>2, <1>3, <1>9, <2>2
    <3> QED BY <1>2, <1>5, <3>1
  <2> QED BY <2>1, <2>2
<1>11. TU = {} /\ LU = {} =>
           /\ \A i \in TC : Tail(w)[i].on = b
           /\ \A i \in LC : t.rows[i].on = b
  <2> SUFFICES ASSUME TU = {}, LU = {}
               PROVE  /\ \A i \in TC : Tail(w)[i].on = b
                      /\ \A i \in LC : t.rows[i].on = b
    OBVIOUS
  <2>1. ~ About(m, "update_state", n)
    BY <1>2 DEF Latest
  <2>2. SU = {} /\ KU = {}
    BY <1>2, <1>3, <1>9, <2>1
  <2>3. (\A i \in SC : w[i].on = b) /\ (\A i \in KC : s.rows[i].on = b)
    BY <1>5, <2>2
  <2>4. \A i \in TC : Tail(w)[i].on = b
    BY <1>3, <1>4, <2>3
  <2>5. \A i \in LC : t.rows[i].on = b
    BY <1>1, <1>2, <1>3, <1>4, <2>3
  <2> QED BY <2>4, <2>5
<1>12. Informed(t, Tail(w), n, b) <=>
          /\ TC # {} \/ LC # {}
          /\ LC # {} => \E i \in DOMAIN t.rows : Latest(LC, i)
          /\ TU # {} => \E i \in DOMAIN Tail(w) : Latest(TU, i) /\ Tail(w)[i].on = b
          /\ TU = {} /\ LU # {} => \E i \in DOMAIN t.rows : Latest(LU, i) /\ t.rows[i].on = b
          /\ TU = {} /\ LU = {} =>
               /\ \A i \in TC : Tail(w)[i].on = b
               /\ \A i \in LC : t.rows[i].on = b
  BY DEF Informed, TC, TU, LC, LU
<1>13. Informed(t, Tail(w), n, b)
  BY <1>6, <1>7, <1>8, <1>10, <1>11, <1>12
<1> QED BY <1>13 DEF t

\* A session that has not heard of a resource does not hear of it when no message names it.
LEMMA DeliveryInventsNothing ==
    ASSUME NEW s \in SessionState, NEW w \in Seq(Message), w # <<>>, NEW n \in Node,
           Unheard(s, w, n)
    PROVE  Unheard(Heard(s, Head(w)), Tail(w), n)
<1> SUFFICES ASSUME NEW opt \in {"create", "update_state"}
             PROVE  Said(Tail(w), opt, n) = {} /\ Rows(Heard(s, Head(w)), opt, n) = {}
  BY DEF Unheard
<1>1. Said(w, opt, n) = {} /\ Rows(s, opt, n) = {}
  BY DEF Unheard
<1>2. Said(Tail(w), opt, n) = {} /\ ~ About(Head(w), opt, n) /\ Head(w) \in Message
  BY <1>1, SaidTail DEF About
<1> QED BY <1>1, <1>2, RowsHeard

\* A new message says what it says and takes back nothing else.
LEMMA NewsOfOthers ==
    ASSUME NEW s \in SessionState, NEW w \in Seq(Message), NEW m \in Message, NEW n \in Node, NEW b,
           ~ About(m, "create", n), ~ About(m, "update_state", n)
    PROVE  /\ Informed(s, w, n, b) => Informed(s, Append(w, m), n, b)
           /\ Unheard(s, w, n) => Unheard(s, Append(w, m), n)
<1>1. \A opt \in {"create", "update_state"} : Said(Append(w, m), opt, n) = Said(w, opt, n)
  <2> TAKE opt \in {"create", "update_state"}
  <2>1. Said(Append(w, m), opt, n) = Said(w, opt, n) \cup
                (IF m.type = "reslist" /\ m.opt = opt /\ m.node = n THEN {Len(w) + 1} ELSE {})
    BY SaidOf
  <2>2. ~ (m.type = "reslist" /\ m.opt = opt /\ m.node = n)
    BY DEF About
  <2> QED BY <2>1, <2>2
<1>2. /\ \A i \in DOMAIN w : i \in DOMAIN Append(w, m) /\ Append(w, m)[i] = w[i]
  BY SaidOf
<1>3. \A opt : Said(w, opt, n) \subseteq DOMAIN w
  BY DEF Said
<1>4. Unheard(s, w, n) => Unheard(s, Append(w, m), n)
  BY <1>1 DEF Unheard
<1> HIDE DEF Latest
<1>5. Informed(s, w, n, b) => Informed(s, Append(w, m), n, b)
  <2> SUFFICES ASSUME Informed(s, w, n, b) PROVE Informed(s, Append(w, m), n, b)
    OBVIOUS
  <2>1. \A i \in Said(Append(w, m), "create", n) : Append(w, m)[i] = w[i]
    BY <1>1, <1>2, <1>3
  <2>2. ASSUME NEW i \in DOMAIN w
        PROVE  i \in DOMAIN Append(w, m) /\ Append(w, m)[i].on = w[i].on
    BY <1>2
  <2> QED BY <1>1, <2>1, <2>2 DEF Informed
<1> QED BY <1>4, <1>5

\* The last message about the state of a resource is the last word about it.
LEMMA NewsOfState ==
    ASSUME NEW s \in SessionState, NEW w \in Seq(Message), NEW m \in Message, NEW n \in Node, NEW b,
           About(m, "update_state", n), Informed(s, w, n, b)
    PROVE  Informed(s, Append(w, m), n, m.on)
<1>1. m.type = "reslist" /\ m.opt = "update_state" /\ m.node = n
  BY DEF About
<1>2. Said(Append(w, m), "create", n) = Said(w, "create", n)
  <2>1. Said(Append(w, m), "create", n) = Said(w, "create", n) \cup
                (IF m.type = "reslist" /\ m.opt = "create" /\ m.node = n THEN {Len(w) + 1} ELSE {})
    BY SaidOf
  <2> QED BY <1>1, <2>1
<1>3. Said(Append(w, m), "update_state", n) = Said(w, "update_state", n) \cup {Len(w) + 1}
  <2>1. Said(Append(w, m), "update_state", n) = Said(w, "update_state", n) \cup
                (IF m.type = "reslist" /\ m.opt = "update_state" /\ m.node = n THEN {Len(w) + 1} ELSE {})
    BY SaidOf
  <2> QED BY <1>1, <2>1
<1>4. /\ Append(w, m)[Len(w) + 1].on = m.on
      /\ DOMAIN w = 1..Len(w) /\ Len(w) \in Nat
      /\ Len(w) + 1 \in DOMAIN Append(w, m)
  OBVIOUS
<1>5. Said(w, "update_state", n) \subseteq DOMAIN w
  BY DEF Said
<1>6. Latest(Said(Append(w, m), "update_state", n), Len(w) + 1)
  BY <1>3, <1>4, <1>5 DEF Latest
<1>7. Said(Append(w, m), "update_state", n) # {}
  BY <1>3
<1>8. /\ Said(w, "create", n) # {} \/ Rows(s, "create", n) # {}
      /\ Rows(s, "create", n) # {} => \E i \in DOMAIN s.rows : Latest(Rows(s, "create", n), i)
  BY DEF Informed
<1> HIDE DEF Said, Rows, Latest
<1> QED BY <1>2, <1>4, <1>6, <1>7, <1>8 DEF Informed

\* A resource that is announced is known with the state it is announced with.
LEMMA NewsOfNode ==
    ASSUME NEW s \in SessionState, NEW w \in Seq(Message), NEW m \in Message, NEW n \in Node,
           About(m, "create", n), Unheard(s, w, n)
    PROVE  Informed(s, Append(w, m), n, m.on)
<1>1. /\ Said(Append(w, m), "create", n) = {Len(w) + 1}
      /\ Said(Append(w, m), "update_state", n) = {}
      /\ Append(w, m)[Len(w) + 1] = m
      /\ Rows(s, "create", n) = {} /\ Rows(s, "update_state", n) = {}
  BY SaidOf DEF About, Unheard
<1> QED BY <1>1 DEF Informed

\* The list a session is sent first names every resource, with its state.
LEMMA GreetingInforms ==
    ASSUME real \in [Node -> {"absent", "off", "on"}],
           NEW order \in Bijection(1..Cardinality(Present), Present)
    PROVE  /\ Greeting(order) \in Seq(Message)
           /\ \A n \in Present : Informed(FreshState, Greeting(order), n, real[n] = "on")
           /\ \A n \in Node \ Present : Unheard(FreshState, Greeting(order), n)
<1> DEFINE N == Cardinality(Present)
           g == Greeting(order)
<1>1. Present \subseteq Node
  BY DEF Present
<1>2. N \in Nat
  BY <1>1, PlatformAssumption, FS_Subset, FS_CardinalityType
<1>3. \A opt, n : Rows(FreshState, opt, n) = {}
  BY DEF Rows, FreshState
<1>4. CASE Present = {}
  <2>1. g = <<Connect(TRUE), Reslist("create", None, FALSE, TRUE)>>
    BY <1>4 DEF Greeting
  <2>2. Connect(TRUE) \in Message /\ Reslist("create", None, FALSE, TRUE) \in Message
    BY DEF Message, Connect, Reslist
  <2>3. g \in Seq(Message) /\ Len(g) = 2
    <3>1. \A a, b \in Message : <<a, b>> \in Seq(Message) /\ Len(<<a, b>>) = 2
      OBVIOUS
    <3> QED BY <2>1, <2>2, <3>1
  <2>4. \A opt : \A n \in Node : Said(g, opt, n) = {}
    <3>1. g[1].type = "connect" /\ g[2].node = None
      BY <2>1 DEF Connect, Reslist
    <3>2. DOMAIN g = 1..2
      BY <2>3
    <3> HIDE DEF g
    <3> QED BY <3>2, <3>1, PlatformAssumption DEF Said
  <2> HIDE DEF g
  <2>5. \A n \in Node : Unheard(FreshState, g, n)
    BY <1>3, <2>4 DEF Unheard
  <2> QED BY <1>4, <2>3, <2>5 DEF g
<1>5. CASE Present # {}
  <2>1. g = [i \in 1..N + 1 |-> IF i = 1 THEN Connect(TRUE) ELSE Creation(order, i - 1)]
    BY <1>5 DEF Greeting
  <2>2. order \in [1..N -> Present] /\ \A n \in Present : \E k \in 1..N : order[k] = n
    BY DEF Bijection, Surjection, Injection
  <2> HIDE DEF g, N
  <2>3. Connect(TRUE) \in Message /\ Connect(TRUE).type = "connect"
    BY DEF Message, Connect
  <2>4. \A k \in 1..N : /\ Creation(order, k) \in Message
                        /\ Creation(order, k).type = "reslist"
                        /\ Creation(order, k).opt = "create"
                        /\ Creation(order, k).node = order[k]
                        /\ Creation(order, k).on = (real[order[k]] = "on")
    BY <1>1, <2>2 DEF Message, Creation, Reslist, N
  <2>5. DOMAIN g = 1..N + 1 /\ g[1] = Connect(TRUE)
    <3>1. 1 \in 1..N + 1
      BY <1>2
    <3> QED BY <2>1, <3>1
  <2>6. \A i \in 1..N + 1 : i # 1 => i - 1 \in 1..N /\ g[i] = Creation(order, i - 1)
    BY <1>2, <2>1
  <2>7. \A i \in 1..N + 1 : g[i] \in Message
    BY <2>3, <2>4, <2>5, <2>6
  <2>8. g \in Seq(Message)
    <3>1. g \in [1..N + 1 -> Message]
      BY <2>1, <2>7
    <3> QED BY <1>2, <3>1
  <2>9. \A opt : \A n \in Node : \A i \in Said(g, opt, n) :
           i \in 1..N + 1 /\ opt = "create" /\ order[i - 1] = n /\ g[i].on = (real[n] = "on")
    <3> TAKE opt
    <3> TAKE n \in Node
    <3> TAKE i \in Said(g, opt, n)
    <3>1. i \in 1..N + 1 /\ g[i].type = "reslist" /\ g[i].opt = opt /\ g[i].node = n
      BY <2>5 DEF Said
    <3>2. i - 1 \in 1..N /\ g[i] = Creation(order, i - 1)
      BY <2>3, <2>5, <2>6, <3>1
    <3>3. /\ g[i].opt = "create" /\ g[i].node = order[i - 1]
          /\ g[i].on = (real[order[i - 1]] = "on")
      BY <2>4, <3>2
    <3>4. n = order[i - 1] /\ opt = "create"
      BY <3>1, <3>3
    <3> QED BY <3>1, <3>3, <3>4
  <2>10. ASSUME NEW n \in Present PROVE Informed(FreshState, g, n, real[n] = "on")
    <3>1. PICK k \in 1..N : order[k] = n
      BY <2>2
    <3>2. k + 1 \in 1..N + 1 /\ k + 1 # 1 /\ (k + 1) - 1 = k
      BY <1>2
    <3>3. g[k + 1] = Creation(order, k)
      BY <2>6, <3>2
    <3>4. k + 1 \in Said(g, "create", n)
      BY <2>4, <2>5, <3>1, <3>2, <3>3 DEF Said
    <3>5. Said(g, "update_state", n) = {}
      BY <1>1, <2>9
    <3>6. \A i \in Said(g, "create", n) : g[i].on = (real[n] = "on")
      BY <1>1, <2>9
    <3> QED BY <1>3, <3>4, <3>5, <3>6 DEF Informed
  <2>11. ASSUME NEW n \in Node \ Present PROVE Unheard(FreshState, g, n)
    <3>1. \A opt : Said(g, opt, n) = {}
      <4> SUFFICES ASSUME NEW opt, NEW i \in Said(g, opt, n) PROVE FALSE
        OBVIOUS
      <4>1. i \in 1..N + 1 /\ order[i - 1] = n /\ g[i].type = "reslist"
        BY <2>5, <2>9 DEF Said
      <4>2. i - 1 \in 1..N
        BY <2>3, <2>5, <2>6, <4>1
      <4> QED BY <2>2, <4>1, <4>2
    <3> QED BY <1>3, <3>1 DEF Unheard
  <2> QED BY <2>8, <2>10, <2>11 DEF g
<1> QED BY <1>4, <1>5

(***************************************************************************)
(* The sessions of the PlatformSDK                                         *)
(***************************************************************************)

Objects == [Client -> [thunk : BOOLEAN, handle : BOOLEAN, auth : BOOLEAN,
                       state : SessionState \cup {None}]]

Fits == TypeOK /\ wire \in [Client -> Seq(Message)]

\* One login at a time: none while a session is in use, and none of another back end.
Single ==
    /\ backend = None => active = None
    /\ pc # "idle" => active = None /\ backend = None
    /\ Selected # "platform_sdk" => active = None /\ pc = "idle"

\* How far the login has come, and whether its outcome is its own.
Phases ==
    /\ pc # "idle" => obj[new].state \in SessionState
    /\ pc \in {"callback", "send", "wait", "list"} \/ slot # None => sdk
    /\ pc \in {"callback", "send"} => plat[new] = "none"
    /\ pc \in {"send", "wait", "list"} => slot = new /\ obj[new].thunk
    /\ pc # "idle" /\ obj[new].state.ok => plat[new] = "in"

\* What the management server knows of is held, and it is the one the callback is for.
Owned(c) ==
    /\ plat[c] # "none" =>
         /\ c \in {active, new} /\ obj[c].handle /\ obj[c].thunk /\ sdk /\ slot = c
         /\ obj[c].state \in SessionState
    /\ obj[c].auth => plat[c] = "in"
    /\ plat[c] \in {"none", "asked"} => obj[c].state \in {None, FreshState} /\ wire[c] = <<>>
    /\ \A i \in DOMAIN wire[c] : wire[c][i].type = "connect" /\ wire[c][i].ok => plat[c] = "in"

\* What it lists, with what is under way, is what the server has.
Current(c) ==
    plat[c] = "in" => \A n \in Node \ gone :
        IF real[n] = "absent" THEN Unheard(obj[c].state, wire[c], n)
        ELSE Informed(obj[c].state, wire[c], n, real[n] = "on")

\* Which login is whose: one the server knows of is that of the client in use, of the login
\* that is running, or of a client that was closed and could not be logged out; and a
\* client that is none of the first two has nothing left of a login.
Accounted(c) ==
    /\ plat[c] # "none" => c \in {active, new} \cup left
    /\ plat[c] # "none" /\ c \in {active, new} => obj[c].handle
    /\ c \notin {active, new} => obj[c] = Unborn

\* What is true of every process, also of one with sessions that were left behind.
Base == Fits /\ Single /\ (left # {} => stuck) /\ \A c \in Client : Accounted(c)

\* What is true besides of a process in which none was.
PInv == Fits /\ Single /\ Phases /\ ThunkAlive /\ (\A c \in Client : Owned(c) /\ Current(c))

\* The inductive invariant.
Sessions == Base /\ (left = {} => PInv)

\* The state a login starts from has heard nothing.
LEMMA FreshFits == FreshState \in SessionState /\ FreshState.ok = FALSE /\ FreshState # None
<1>1. <<>> \in Seq(Row)
  OBVIOUS
<1>2. FreshState \in SessionState
  BY <1>1 DEF FreshState, SessionState
<1> QED BY <1>2, PlatformAssumption DEF FreshState

\* Before the first login nothing is known anywhere.
LEMMA PInit == MInit => Base /\ PInv
<1> SUFFICES ASSUME MInit PROVE Base /\ PInv
  OBVIOUS
<1>1. Init /\ backend = None
  BY DEF MInit
<1>2. Fits
  <2>1. <<>> \in Seq(Message)
    OBVIOUS
  <2>2. real \in [Node -> {"absent", "off", "on"}]
    BY <1>1 DEF Init
  <2>3. obj \in Objects
    BY <1>1 DEF Init, Unborn, Objects
  <2>4. wire \in [Client -> Seq(Message)] /\ plat \in [Client -> {"none", "asked", "in", "refused"}]
    BY <1>1, <2>1 DEF Init
  <2>5. 0 \in 0..MaxNews
    BY PlatformAssumption
  <2> QED BY <1>1, <2>2, <2>3, <2>4, <2>5, PlatformAssumption DEF Init, Fits, TypeOK, Objects
<1>3. Single /\ Phases /\ ThunkAlive
  BY <1>1 DEF Init, Single, Phases, ThunkAlive
<1>4. ASSUME NEW c \in Client PROVE Owned(c) /\ Current(c)
  BY <1>1 DEF Init, Owned, Current, Unborn
<1>5. left = {} /\ \A c \in Client : Accounted(c)
  BY <1>1 DEF Init, Accounted
<1> QED BY <1>2, <1>3, <1>4, <1>5 DEF PInv, Base

\* The objects f after client c gets state s, or is taken to be logged in.
WithState(f, c, s) == [f EXCEPT ![c].state = s]
WithAuth(f, c) == [f EXCEPT ![c].auth = TRUE]

\* Only the state of that client changes.
LEMMA StateSet ==
    ASSUME NEW f \in Objects, NEW c \in Client, NEW s \in SessionState \cup {None}
    PROVE  /\ WithState(f, c, s) \in Objects
           /\ WithState(f, c, s)[c].state = s
           /\ WithState(f, c, s)[c].thunk = f[c].thunk
           /\ WithState(f, c, s)[c].handle = f[c].handle
           /\ WithState(f, c, s)[c].auth = f[c].auth
           /\ \A d \in Client : d # c => WithState(f, c, s)[d] = f[d]
BY DEF Objects, WithState

\* Only the login of that client changes.
LEMMA AuthSet ==
    ASSUME NEW f \in Objects, NEW c \in Client
    PROVE  /\ WithAuth(f, c) \in Objects
           /\ WithAuth(f, c)[c].thunk = f[c].thunk
           /\ WithAuth(f, c)[c].handle = f[c].handle
           /\ WithAuth(f, c)[c].state = f[c].state
           /\ \A d \in Client : d # c => WithAuth(f, c)[d] = f[d]
BY DEF Objects, WithAuth

\* The types of the session state survive the steps of a login, its closing, what the SDK's
\* thread delivers and what the server sends, whoever holds what.
LEMMA LoginBeginFits == ASSUME Fits, NEW c \in Client, LoginBegin(c) PROVE Fits'
<1>1. /\ new' = c /\ pc' \in {"callback", "abandon"} /\ sdk' \in BOOLEAN
      /\ obj' = WithState(obj, c, FreshState)
      /\ UNCHANGED <<active, slot, stuck, left, plat, real, gone, news, wire>>
  BY DEF LoginBegin, platVars, Fits, TypeOK, WithState
<1>2. obj \in Objects
  BY DEF Fits, TypeOK, Objects
<1>3. obj' \in Objects
  BY <1>1, <1>2, FreshFits, StateSet
<1> QED BY <1>1, <1>3, PlatformAssumption DEF Fits, TypeOK, Objects

\* See LoginBeginFits.
LEMMA SetCallbackFits == ASSUME Fits, SetCallback PROVE Fits'
<1>1. new \in Client /\ obj \in Objects
  BY DEF Fits, TypeOK, Objects, SetCallback
<1>2. /\ pc' \in {"send", "abandon"} /\ slot' \in {new, slot}
      /\ obj' = [obj EXCEPT ![new].thunk = TRUE] /\ pc # "idle"
      /\ UNCHANGED <<new, active, sdk, stuck, left, plat, real, gone, news, wire>>
  BY DEF SetCallback, platVars
<1>3. obj' \in Objects
  BY <1>1, <1>2 DEF Objects
<1> QED BY <1>1, <1>2, <1>3 DEF Fits, TypeOK, Objects

\* See LoginBeginFits.
LEMMA SendLoginFits == ASSUME Fits, SendLogin PROVE Fits'
<1>0. ASSUME NEW f \in Objects, NEW c \in Client PROVE [f EXCEPT ![c].handle = TRUE] \in Objects
  BY DEF Objects
<1>1. new \in Client /\ obj \in Objects /\ plat \in [Client -> {"none", "asked", "in", "refused"}]
  BY DEF Fits, TypeOK, Objects, SendLogin
<1>2. /\ pc' \in {"wait", "abandon"} /\ pc # "idle"
      /\ UNCHANGED <<new, active, sdk, slot, stuck, left, real, gone, news, wire>>
      /\ \/ obj' = obj /\ plat' = plat
         \/ obj' = [obj EXCEPT ![new].handle = TRUE] /\ plat' = [plat EXCEPT ![new] = "asked"]
  BY DEF SendLogin
<1>3. obj' \in Objects
  BY <1>0, <1>1, <1>2
<1>4. plat' \in [Client -> {"none", "asked", "in", "refused"}]
  BY <1>1, <1>2
<1> QED BY <1>1, <1>2, <1>3, <1>4 DEF Fits, TypeOK, Objects

\* See LoginBeginFits.
LEMMA LoginOutcomeFits == ASSUME Fits, LoginOutcome PROVE Fits'
<1>1. new \in Client /\ obj \in Objects
  BY DEF Fits, TypeOK, Objects, LoginOutcome
<1>2. /\ pc' \in {"list", "abandon"} /\ pc # "idle"
      /\ UNCHANGED <<new, active, sdk, slot, stuck, left, plat, real, gone, news, wire>>
      /\ obj' = obj \/ obj' = WithAuth(obj, new)
  BY DEF LoginOutcome, platVars, WithAuth
<1>3. obj' \in Objects
  BY <1>1, <1>2, AuthSet
<1> QED BY <1>1, <1>2, <1>3 DEF Fits, TypeOK, Objects

\* See LoginBeginFits.
LEMMA LoginEndFits == ASSUME Fits, LoginEnd PROVE Fits'
<1>1. new \in Client /\ obj \in Objects
  BY DEF Fits, TypeOK, Objects, LoginEnd
<1>2. /\ pc' = "idle" /\ new' = None /\ active' = new
      /\ UNCHANGED <<sdk, slot, stuck, left, plat, real, gone, news, wire>>
      /\ obj' = obj \/ (active \in Client /\ obj' = [obj EXCEPT ![active].thunk = FALSE])
  BY DEF LoginEnd, platVars, Fits, TypeOK
<1>3. obj' \in Objects
  BY <1>1, <1>2 DEF Objects
<1> QED BY <1>1, <1>2, <1>3 DEF Fits, TypeOK, Objects

\* What closing a client does, in one of four ways.
LEMMA Closings ==
    ASSUME Fits, NEW c \in Client, CloseClient(c)
    PROVE  /\ \A d \in Client : obj'[d] = IF d = c THEN Unborn ELSE obj[d]
           /\ obj' \in Objects /\ UNCHANGED <<real, gone, news>>
           /\ \/ /\ sdk' = FALSE /\ slot' = None /\ stuck' = stuck /\ left' = {}
                 /\ wire' = [d \in Client |-> <<>>] /\ plat' = [d \in Client |-> "none"]
              \/ /\ stuck' = TRUE /\ UNCHANGED <<sdk, slot>>
                 /\ \/ /\ obj[c].handle /\ left' = left
                       /\ plat' = [plat EXCEPT ![c] = "none"] /\ wire' = [wire EXCEPT ![c] = <<>>]
                    \/ obj[c].handle /\ left' = left \cup {c} /\ UNCHANGED <<plat, wire>>
                    \/ ~ obj[c].handle /\ UNCHANGED <<plat, wire, left>>
<1>1. obj' = [obj EXCEPT ![c] = Unborn] /\ UNCHANGED <<real, gone, news>>
  BY DEF CloseClient
<1>2. (\A d \in Client : obj'[d] = IF d = c THEN Unborn ELSE obj[d]) /\ obj' \in Objects
  BY <1>1 DEF Fits, TypeOK, Objects, Unborn
<1> QED BY <1>1, <1>2 DEF CloseClient, LogOut

\* See LoginBeginFits.
LEMMA ClosingFits ==
    ASSUME Fits, NEW c \in Client, CloseClient(c),
           pc' = "idle", new' = None, active' \in Client \cup {None}
    PROVE  Fits'
<1>1. <<>> \in Seq(Message)
  OBVIOUS
<1>2. /\ plat \in [Client -> {"none", "asked", "in", "refused"}]
      /\ wire \in [Client -> Seq(Message)] /\ left \subseteq Client
  BY DEF Fits, TypeOK
<1>3. /\ obj' \in Objects /\ UNCHANGED <<real, gone, news>>
      /\ plat' \in [Client -> {"none", "asked", "in", "refused"}]
      /\ wire' \in [Client -> Seq(Message)] /\ left' \subseteq Client
      /\ sdk' \in {sdk, FALSE} /\ slot' \in {slot, None} /\ stuck' \in {stuck, TRUE}
  <2>1. /\ obj' \in Objects /\ UNCHANGED <<real, gone, news>>
        /\ sdk' \in {sdk, FALSE} /\ slot' \in {slot, None} /\ stuck' \in {stuck, TRUE}
        /\ \/ left' = {} /\ wire' = [d \in Client |-> <<>>] /\ plat' = [d \in Client |-> "none"]
           \/ /\ left' = left /\ plat' = [plat EXCEPT ![c] = "none"]
              /\ wire' = [wire EXCEPT ![c] = <<>>]
           \/ left' \in {left, left \cup {c}} /\ UNCHANGED <<plat, wire>>
    BY Closings
  <2>2. plat' \in [Client -> {"none", "asked", "in", "refused"}]
    BY <1>2, <2>1
  <2>3. wire' \in [Client -> Seq(Message)]
    BY <1>1, <1>2, <2>1
  <2>4. left' \subseteq Client
    BY <1>2, <2>1
  <2> QED BY <2>1, <2>2, <2>3, <2>4
<1> QED BY <1>3 DEF Fits, TypeOK, Objects

\* See LoginBeginFits.
LEMMA DeliverFits == ASSUME Fits, NEW c \in Client, Deliver(c) PROVE Fits'
<1>1. /\ wire \in [Client -> Seq(Message)] /\ obj \in Objects /\ slot \in Client \cup {None}
  BY DEF Fits, TypeOK, Objects
<1>2. /\ wire' = [wire EXCEPT ![c] = Tail(@)]
      /\ UNCHANGED <<pc, new, active, sdk, slot, stuck, left, plat, real, gone, news>>
      /\ obj' = obj \/ (slot # None /\ obj' = WithState(obj, slot,
               IF obj[slot].state = None THEN None ELSE Heard(obj[slot].state, Head(wire[c]))))
  BY DEF Deliver, appVars, platVars, WithState
<1>3. Head(wire[c]) \in Message /\ Tail(wire[c]) \in Seq(Message)
  BY <1>1, SaidTail DEF Deliver
<1>4. obj' \in Objects
  <2>1. CASE obj' = obj
    BY <1>1, <2>1
  <2>2. CASE slot # None /\ obj' = WithState(obj, slot,
               IF obj[slot].state = None THEN None ELSE Heard(obj[slot].state, Head(wire[c])))
    <3>1. obj[slot].state \in SessionState \cup {None} /\ slot \in Client
      BY <1>1, <2>2 DEF Objects
    <3>2. \A s \in SessionState : Heard(s, Head(wire[c])) \in SessionState
      BY <1>3, HeardOf
    <3>3. (IF obj[slot].state = None THEN None ELSE Heard(obj[slot].state, Head(wire[c])))
             \in SessionState \cup {None}
      BY <3>1, <3>2
    <3> QED BY <1>1, <2>2, <3>1, <3>3, StateSet
  <2> QED BY <1>2, <2>1, <2>2
<1>5. wire' \in [Client -> Seq(Message)]
  BY <1>1, <1>2, <1>3
<1> QED BY <1>2, <1>4, <1>5 DEF Fits, TypeOK, Objects

\* See LoginBeginFits.
LEMMA AnswerFits == ASSUME Fits, NEW c \in Client, Answer(c) PROVE Fits'
<1>1. /\ plat \in [Client -> {"none", "asked", "in", "refused"}]
      /\ wire \in [Client -> Seq(Message)] /\ real \in [Node -> {"absent", "off", "on"}]
  BY DEF Fits, TypeOK
<1>2. /\ UNCHANGED <<pc, new, active, obj, sdk, slot, stuck, left, real, gone, news>>
      /\ \E v \in {"in", "refused"} : plat' = [plat EXCEPT ![c] = v]
      /\ \/ wire' = [wire EXCEPT ![c] = Append(@, Connect(FALSE))]
         \/ \E order \in Bijection(1..Cardinality(Present), Present) :
               wire' = [wire EXCEPT ![c] = @ \o Greeting(order)]
  BY DEF Answer, appVars
<1>3. plat' \in [Client -> {"none", "asked", "in", "refused"}]
  BY <1>1, <1>2
<1>4. Append(wire[c], Connect(FALSE)) \in Seq(Message)
  <2>1. Connect(FALSE) \in Message
    BY DEF Connect, Message
  <2>2. wire[c] \in Seq(Message)
    BY <1>1
  <2>3. \A w \in Seq(Message), m \in Message : Append(w, m) \in Seq(Message)
    OBVIOUS
  <2> QED BY <2>1, <2>2, <2>3
<1>5. ASSUME NEW order \in Bijection(1..Cardinality(Present), Present)
      PROVE  wire[c] \o Greeting(order) \in Seq(Message)
  <2>1. Greeting(order) \in Seq(Message)
    BY <1>1, GreetingInforms
  <2>2. wire[c] \in Seq(Message)
    BY <1>1
  <2>3. \A u, v \in Seq(Message) : u \o v \in Seq(Message)
    OBVIOUS
  <2> QED BY <2>1, <2>2, <2>3
<1>6. wire' \in [Client -> Seq(Message)]
  BY <1>1, <1>2, <1>4, <1>5
<1> QED BY <1>2, <1>3, <1>6 DEF Fits, TypeOK, Objects

\* See LoginBeginFits.
LEMMA NotifyFits == ASSUME Fits, NEW c \in Client, Notify(c) PROVE Fits'
<1>1. /\ UNCHANGED <<pc, new, active, obj, sdk, slot, stuck, left, plat, real, gone>>
      /\ news < MaxNews /\ news' = news + 1 /\ news \in 0..MaxNews
      /\ wire \in [Client -> Seq(Message)]
  BY DEF Notify, appVars, Fits, TypeOK
<1>2. news' \in 0..MaxNews
  BY <1>1, PlatformAssumption
<1>3. \E m \in Message : wire' = [wire EXCEPT ![c] = Append(@, m)]
  <2>1. Connect(TRUE) \in Message
    BY DEF Connect, Message
  <2>2. \A s \in Server, o \in {"create", "delete"} : Typed(o, s) \in Message
    BY DEF Typed, Message
  <2> QED BY <2>1, <2>2 DEF Notify
<1>4. wire' \in [Client -> Seq(Message)]
  BY <1>1, <1>3
<1> QED BY <1>1, <1>2, <1>4 DEF Fits, TypeOK, Objects

\* The message m says what has become of resource n.
Says(n, m) ==
    /\ m.type = "reslist" /\ m.node = n /\ wire' = Announce(m)
    /\ \E v \in {"absent", "off", "on"} : real' = [real EXCEPT ![n] = v]
    /\ \/ m.opt = "create" /\ real[n] = "absent" /\ real'[n] = "on" /\ m.on = TRUE /\ gone' = gone
       \/ /\ m.opt = "update_state" /\ real[n] # "absent" /\ real'[n] # "absent"
          /\ m.on = (real'[n] = "on") /\ gone' = gone
       \/ n \in gone'

\* A resource that comes, changes or goes is announced as what it does.
LEMMA ChangeSays ==
    ASSUME Fits, NEW n \in Node, Change(n)
    PROVE  /\ UNCHANGED <<pc, new, active, obj, sdk, slot, stuck, left, plat>>
           /\ gone' \subseteq Node /\ gone \subseteq gone' /\ Fits'
           /\ \E m \in Message : Says(n, m)
<1>0. Fits /\ real \in [Node -> {"absent", "off", "on"}] /\ wire \in [Client -> Seq(Message)]
  BY DEF Fits, TypeOK
<1>1. /\ UNCHANGED <<pc, new, active, obj, sdk, slot, stuck, left, plat>> /\ news' \in 0..MaxNews
      /\ gone' \subseteq Node /\ gone \subseteq gone'
  <2>1. gone' = gone \/ gone' = gone \cup {n}
    BY DEF Change
  <2>2. news \in 0..MaxNews /\ news < MaxNews /\ news' = news + 1
    BY <1>0 DEF Change, Fits, TypeOK
  <2>3. news' \in 0..MaxNews
    BY <2>2, PlatformAssumption
  <2>4. UNCHANGED <<pc, new, active, obj, sdk, slot, stuck, left, plat>>
    BY DEF Change, appVars
  <2> QED BY <1>0, <2>1, <2>3, <2>4 DEF Fits, TypeOK, Objects
<1>2. PICK m \in Message : Says(n, m)
  <2>1. ASSUME real[n] = "absent", real' = [real EXCEPT ![n] = "on"], gone' = gone,
               wire' = Announce(Reslist("create", n, TRUE, FALSE))
        PROVE  \E m \in Message :
        /\ m.type = "reslist" /\ m.node = n /\ wire' = Announce(m)
        /\ \E v \in {"absent", "off", "on"} : real' = [real EXCEPT ![n] = v]
        /\ m.opt = "create" /\ real[n] = "absent" /\ real'[n] = "on" /\ m.on = TRUE /\ gone' = gone
    <3>1. Reslist("create", n, TRUE, FALSE) \in Message
      BY DEF Reslist, Message
    <3>2. real'[n] = "on"
      BY <1>0, <2>1
    <3> WITNESS Reslist("create", n, TRUE, FALSE) \in Message
    <3> QED BY <2>1, <3>2 DEF Reslist
  <2>2. ASSUME real[n] # "absent", real' = [real EXCEPT ![n] = IF @ = "on" THEN "off" ELSE "on"], gone' = gone,
               wire' = Announce(Reslist("update_state", n, real[n] = "off", FALSE))
        PROVE  \E m \in Message :
        /\ m.type = "reslist" /\ m.node = n /\ wire' = Announce(m)
        /\ \E v \in {"absent", "off", "on"} : real' = [real EXCEPT ![n] = v]
        /\ m.opt = "update_state" /\ real[n] # "absent" /\ real'[n] # "absent"
        /\ m.on = (real'[n] = "on") /\ gone' = gone
    <3>1. Reslist("update_state", n, real[n] = "off", FALSE) \in Message
      BY DEF Reslist, Message
    <3>2. /\ real'[n] = IF real[n] = "on" THEN "off" ELSE "on"
          /\ real' = [real EXCEPT ![n] = IF real[n] = "on" THEN "off" ELSE "on"]
      BY <1>0, <2>2
    <3>3. (real[n] = "off") = (real'[n] = "on") /\ real'[n] # "absent"
      BY <1>0, <2>2, <3>2
    <3> WITNESS Reslist("update_state", n, real[n] = "off", FALSE) \in Message
    <3>4. Reslist("update_state", n, real[n] = "off", FALSE).on = (real[n] = "off")
      BY DEF Reslist
    <3> QED BY <2>2, <3>2, <3>3, <3>4 DEF Reslist
  <2>3. ASSUME real' = [real EXCEPT ![n] = "absent"], gone' = gone \cup {n},
               wire' = Announce(Reslist("delete", n, FALSE, FALSE))
        PROVE  \E m \in Message :
        /\ m.type = "reslist" /\ m.node = n /\ wire' = Announce(m)
        /\ \E v \in {"absent", "off", "on"} : real' = [real EXCEPT ![n] = v]
        /\ n \in gone'
    <3>1. Reslist("delete", n, FALSE, FALSE) \in Message
      BY DEF Reslist, Message
    <3> WITNESS Reslist("delete", n, FALSE, FALSE) \in Message
    <3> QED BY <2>3 DEF Reslist
  <2> QED BY <2>1, <2>2, <2>3 DEF Change, Says
<1>3. real' \in [Node -> {"absent", "off", "on"}]
  BY <1>0, <1>2 DEF Says
<1>5. wire' \in [Client -> Seq(Message)]
  <2>1. \A d \in Client : wire'[d] = IF plat[d] = "in" THEN Append(wire[d], m) ELSE wire[d]
    BY <1>2 DEF Announce, In, Says
  <2>2. \A w \in Seq(Message) : Append(w, m) \in Seq(Message)
    OBVIOUS
  <2>3. \A d \in Client : wire'[d] \in Seq(Message)
    BY <1>0, <2>1, <2>2
  <2> QED BY <1>2, <2>3 DEF Announce, Says
<1>6. Fits'
  BY <1>0, <1>1, <1>3, <1>5 DEF Fits, TypeOK, Objects
<1> QED BY <1>1, <1>2, <1>6

\* A step that leaves the logins and their state alone.
LEMMA SameSessions ==
    ASSUME PInv, UNCHANGED <<pc, new, active, obj, sdk, slot, stuck, left, plat, wire, real, gone, news>>,
           Selected' = Selected, backend' = backend \/ Selected # "platform_sdk"
    PROVE  PInv'
<1>1. Fits'
  BY DEF PInv, Fits, TypeOK
<1>2. Single'
  BY DEF PInv, Single
<1>3. Phases' /\ ThunkAlive'
  BY DEF PInv, Phases, ThunkAlive
<1>4. ASSUME NEW c \in Client PROVE Owned(c)' /\ Current(c)'
  <2>1. Owned(c) /\ Current(c)
    BY DEF PInv
  <2>2. Owned(c)'
    BY <2>1 DEF Owned
  <2>3. Current(c)'
    BY <2>1 DEF Current
  <2> QED BY <2>2, <2>3
<1> QED BY <1>1, <1>2, <1>3, <1>4 DEF PInv

\* What is known of a login that a step leaves alone stays true of it.
LEMMA SameLogin ==
    ASSUME NEW c \in Client, PInv, plat'[c] = plat[c], wire'[c] = wire[c], obj'[c] = obj[c],
           real' = real, gone' = gone
    PROVE  Current(c)'
<1>1. Current(c)
  BY DEF PInv
<1> QED BY <1>1 DEF Current

\* A login begins with a state of its own, and nothing under way for it.
LEMMA LoginBeginKeeps ==
    ASSUME PInv, NEW c \in Client, LoginBegin(c), MayLogIn, backend' = backend, Selected' = Selected,
           Selected = "platform_sdk"
    PROVE  PInv'
<1>0. active = None /\ backend = None
  BY DEF PInv, Single, MayLogIn
<1>1. /\ pc = "idle" /\ new' = c /\ pc' \in {"callback", "abandon"} /\ (pc' = "callback" => sdk')
      /\ sdk' \in BOOLEAN /\ (sdk => sdk') /\ obj' = [obj EXCEPT ![c].state = FreshState]
      /\ obj[c] = Unborn /\ plat[c] = "none"
      /\ UNCHANGED <<active, slot, stuck, plat, real, gone, news, wire>>
  BY DEF LoginBegin, platVars, PInv, Fits, TypeOK
<1>2. Fits
  BY DEF PInv
<1>3. /\ \A d \in Client : d # c => obj'[d] = obj[d]
      /\ obj'[c].thunk = obj[c].thunk /\ obj'[c].handle = obj[c].handle
      /\ obj'[c].auth = obj[c].auth /\ obj'[c].state = FreshState
      /\ obj' \in Objects
  <2>1. obj \in Objects
    BY <1>2 DEF Fits, TypeOK, Objects
  <2>2. obj' = WithState(obj, c, FreshState)
    BY <1>1 DEF WithState
  <2> QED BY <2>1, <2>2, FreshFits, StateSet
<1>4. Fits'
  BY <1>2, LoginBeginFits
<1>5. Single'
  BY <1>0, <1>1 DEF Single
<1>6. Phases'
  BY <1>1, <1>3, FreshFits DEF Phases, PInv
<1>7. ThunkAlive'
  <2>1. sdk /\ slot # None /\ ~ stuck => obj[slot].thunk
    BY DEF PInv, ThunkAlive
  <2>2. \A d \in Client : obj'[d].thunk = obj[d].thunk
    BY <1>3
  <2>3. slot # None => sdk
    BY DEF PInv, Phases
  <2> QED BY <1>1, <1>2, <2>1, <2>2, <2>3 DEF ThunkAlive, Fits, TypeOK
<1>8. ASSUME NEW d \in Client PROVE Owned(d)' /\ Current(d)'
  <2>1. Owned(d) /\ Owned(c)
    BY DEF PInv
  <2>2. CASE d = c
    BY <1>1, <1>3, <2>1, <2>2 DEF Owned, Unborn, Current
  <2>3. CASE d # c
    <3>1. Current(d)'
      BY <1>1, <1>3, <2>3, SameLogin
    <3>2. plat[d] = "none" \/ d \in {active', new'}
      BY <1>0, <1>1, <1>2, <2>1 DEF Owned, Fits, TypeOK
    <3> QED BY <1>1, <1>3, <2>1, <2>3, <3>1, <3>2 DEF Owned
  <2> QED BY <2>2, <2>3
<1> QED BY <1>4, <1>5, <1>6, <1>7, <1>8 DEF PInv

\* The callback is taken over while the server knows of nobody.
LEMMA SetCallbackKeeps ==
    ASSUME PInv, SetCallback, backend' = backend, Selected' = Selected
    PROVE  PInv'
<1>0. Fits /\ Single /\ Phases /\ ThunkAlive /\ new \in Client /\ new # None
  BY PlatformAssumption DEF PInv, Fits, TypeOK, SetCallback
<1>1. /\ pc = "callback" /\ pc' \in {"send", "abandon"}
      /\ (slot' = new \/ slot' = slot) /\ (pc' = "send" => slot' = new)
      /\ obj' = [obj EXCEPT ![new].thunk = TRUE]
      /\ UNCHANGED <<new, active, sdk, stuck, plat, real, gone, news, wire>>
  BY DEF SetCallback, platVars
<1>2. /\ \A d \in Client : /\ obj'[d].handle = obj[d].handle /\ obj'[d].auth = obj[d].auth
                           /\ obj'[d].state = obj[d].state
                           /\ obj[d].thunk \/ d = new => obj'[d].thunk
      /\ obj' \in Objects
  <2>1. obj \in Objects
    BY <1>0 DEF Fits, TypeOK, Objects
  <2> QED BY <1>0, <1>1, <2>1 DEF Objects
<1>3. Fits'
  BY <1>0, SetCallbackFits
<1>4. Single'
  BY <1>0, <1>1 DEF Single
<1>5. Phases'
  BY <1>0, <1>1, <1>2 DEF Phases
<1>6. ThunkAlive'
  BY <1>0, <1>1, <1>2 DEF ThunkAlive, Fits, TypeOK
<1>7. ASSUME NEW d \in Client PROVE Owned(d)' /\ Current(d)'
  <2>1. Owned(d) /\ Current(d)
    BY DEF PInv
  <2>2. plat[d] # "none" => d = new
    BY <1>0, <1>1, <2>1, PlatformAssumption DEF Owned, Single
  <2>3. Owned(d)'
    BY <1>0, <1>1, <1>2, <2>1, <2>2 DEF Owned
  <2>4. Current(d)'
    BY <1>1, <1>2, <2>1 DEF Current
  <2> QED BY <2>3, <2>4
<1> QED BY <1>3, <1>4, <1>5, <1>6, <1>7 DEF PInv

\* The login is sent once its callback is set; one that cannot be sent is known to nobody.
LEMMA SendLoginKeeps ==
    ASSUME PInv, SendLogin, backend' = backend, Selected' = Selected
    PROVE  PInv'
<1>0. Fits /\ Single /\ Phases /\ ThunkAlive /\ new \in Client /\ new # None /\ plat[new] = "none"
  BY PlatformAssumption DEF PInv, Fits, TypeOK, SendLogin, Phases
<1>1. /\ pc = "send" /\ pc' \in {"wait", "abandon"}
      /\ UNCHANGED <<new, active, sdk, slot, stuck, real, gone, news, wire>>
      /\ \/ obj' = obj /\ plat' = plat
         \/ obj' = [obj EXCEPT ![new].handle = TRUE] /\ plat' = [plat EXCEPT ![new] = "asked"]
  BY DEF SendLogin
<1>2. /\ \A d \in Client : /\ obj'[d].thunk = obj[d].thunk /\ obj'[d].auth = obj[d].auth
                           /\ obj'[d].state = obj[d].state
                           /\ obj[d].handle => obj'[d].handle
                           /\ plat'[d] = plat[d] \/ (d = new /\ plat'[d] = "asked" /\ obj'[d].handle)
      /\ obj' \in Objects
      /\ plat' \in [Client -> {"none", "asked", "in", "refused"}]
  <2>1. CASE obj' = obj /\ plat' = plat
    BY <1>0, <2>1 DEF Fits, TypeOK, Objects
  <2>2. CASE obj' = [obj EXCEPT ![new].handle = TRUE] /\ plat' = [plat EXCEPT ![new] = "asked"]
    BY <1>0, <2>2 DEF Fits, TypeOK, Objects
  <2> QED BY <1>1, <2>1, <2>2
<1>3. Fits'
  BY <1>0, SendLoginFits
<1>4. Single'
  BY <1>0, <1>1 DEF Single
<1>5. Phases'
  BY <1>0, <1>1, <1>2 DEF Phases
<1>6. ThunkAlive'
  BY <1>0, <1>1, <1>2 DEF ThunkAlive, Fits, TypeOK
<1>7. ASSUME NEW d \in Client PROVE Owned(d)' /\ Current(d)'
  <2>1. Owned(d) /\ Current(d)
    BY DEF PInv
  <2>2. obj[new].state \in SessionState /\ slot = new /\ obj[new].thunk /\ sdk
    BY <1>0, <1>1 DEF Phases
  <2>3. CASE plat'[d] = plat[d]
    BY <1>1, <1>2, <2>1, <2>3 DEF Owned, Current
  <2>4. CASE d = new /\ plat'[d] = "asked" /\ obj'[d].handle
    BY <1>0, <1>1, <1>2, <2>1, <2>2, <2>4 DEF Owned, Current
  <2> QED BY <1>2, <2>3, <2>4
<1> QED BY <1>3, <1>4, <1>5, <1>6, <1>7 DEF PInv

\* The outcome a login reads is that of its own state.
LEMMA LoginOutcomeKeeps ==
    ASSUME PInv, LoginOutcome, backend' = backend, Selected' = Selected
    PROVE  PInv'
<1>0. Fits /\ Single /\ Phases /\ ThunkAlive /\ new \in Client /\ new # None
  BY PlatformAssumption DEF PInv, Fits, TypeOK, LoginOutcome
<1>1. /\ pc = "wait" /\ pc' \in {"list", "abandon"}
      /\ UNCHANGED <<new, active, sdk, slot, stuck, plat, real, gone, news, wire>>
      /\ \/ obj' = obj
         \/ obj[new].state.ok /\ obj' = [obj EXCEPT ![new].auth = TRUE]
  BY DEF LoginOutcome, platVars
<1>2. /\ \A d \in Client : /\ obj'[d].thunk = obj[d].thunk /\ obj'[d].handle = obj[d].handle
                           /\ obj'[d].state = obj[d].state
                           /\ obj'[d].auth = obj[d].auth \/ (d = new /\ obj[new].state.ok)
      /\ obj' \in Objects
  <2>1. CASE obj' = obj
    BY <1>0, <2>1 DEF Fits, TypeOK, Objects
  <2>2. CASE obj[new].state.ok /\ obj' = [obj EXCEPT ![new].auth = TRUE]
    <3>1. obj \in Objects
      BY <1>0 DEF Fits, TypeOK, Objects
    <3>2. /\ obj' \in Objects /\ \A d \in Client : d # new => obj'[d] = obj[d]
          /\ obj'[new].thunk = obj[new].thunk /\ obj'[new].handle = obj[new].handle
          /\ obj'[new].state = obj[new].state
      <4>1. obj' = WithAuth(obj, new)
        BY <2>2 DEF WithAuth
      <4> QED BY <1>0, <3>1, <4>1, AuthSet
    <3> QED BY <2>2, <3>2
  <2> QED BY <1>1, <2>1, <2>2
<1>3. Fits'
  BY <1>0, LoginOutcomeFits
<1>4. Single'
  BY <1>0, <1>1 DEF Single
<1>5. Phases'
  BY <1>0, <1>1, <1>2 DEF Phases
<1>6. ThunkAlive'
  BY <1>0, <1>1, <1>2 DEF ThunkAlive, Fits, TypeOK
<1>7. ASSUME NEW d \in Client PROVE Owned(d)' /\ Current(d)'
  <2>1. Owned(d) /\ Current(d)
    BY DEF PInv
  <2>2. obj'[d].auth => plat[d] = "in"
    BY <1>0, <1>1, <1>2, <2>1 DEF Owned, Phases
  <2> QED BY <1>1, <1>2, <2>1, <2>2 DEF Owned, Current
<1> QED BY <1>3, <1>4, <1>5, <1>6, <1>7 DEF PInv

\* A login that ended is the session in use.
LEMMA LoginEndKeeps ==
    ASSUME PInv, LoginEnd, backend' = Selected, Selected' = Selected, Selected = "platform_sdk"
    PROVE  PInv'
<1>0. Fits /\ Single /\ Phases /\ ThunkAlive /\ active = None
  BY DEF PInv, LoginEnd, Single
<1>1. /\ pc' = "idle" /\ new' = None /\ active' = new
      /\ UNCHANGED <<obj, sdk, slot, stuck, plat, real, gone, news, wire>>
  BY <1>0 DEF LoginEnd, platVars
<1>3. Fits'
  BY <1>0, LoginEndFits
<1>4. Single'
  BY <1>0, <1>1, ModesAssumption DEF Single, BackendMode
<1>5. Phases'
  BY <1>0, <1>1 DEF Phases
<1>6. ThunkAlive'
  BY <1>0, <1>1 DEF ThunkAlive
<1>7. ASSUME NEW d \in Client PROVE Owned(d)' /\ Current(d)'
  <2>1. Owned(d) /\ Current(d)
    BY DEF PInv
  <2>2. d \in {active, new} => d \in {active', new'}
    BY <1>0, <1>1, PlatformAssumption
  <2> QED BY <1>1, <2>1, <2>2 DEF Owned, Current
<1> QED BY <1>3, <1>4, <1>5, <1>6, <1>7 DEF PInv

\* When the client that was in use or logged in is closed and no session is left behind, the
\* management server knows of nobody: it was the only one, or the SDK has ended.
LEMMA ClosingKeeps ==
    ASSUME Base, Base', left = {} => PInv, left' = {}, NEW c \in Client, CloseClient(c),
           pc' = "idle", new' = None, active' = None, \A d \in Client : d \in {active, new} => d = c
    PROVE  PInv'
<1>0. Fits /\ Fits' /\ Single'
  BY DEF Base
<1>1. \A d \in Client : plat'[d] = "none" /\ wire'[d] = <<>>
  <2>1. CASE wire' = [d \in Client |-> <<>>] /\ plat' = [d \in Client |-> "none"]
    BY <2>1
  <2>2. ASSUME left = {} PROVE \A d \in Client : Owned(d)
    BY <2>2 DEF PInv
  <2>3. ASSUME left = {}, NEW d \in Client, d # c PROVE plat[d] = "none" /\ wire[d] = <<>>
    BY <2>2, <2>3 DEF Owned
  <2>4. CASE /\ obj[c].handle /\ left' = left
             /\ plat' = [plat EXCEPT ![c] = "none"] /\ wire' = [wire EXCEPT ![c] = <<>>]
    <3>1. /\ plat \in [Client -> {"none", "asked", "in", "refused"}]
          /\ wire \in [Client -> Seq(Message)]
      BY <1>0 DEF Fits, TypeOK
    <3> QED BY <2>3, <2>4, <3>1
  <2>5. CASE ~ obj[c].handle /\ UNCHANGED <<plat, wire, left>>
    <3>1. plat[c] = "none" /\ wire[c] = <<>>
      BY <2>2, <2>5 DEF Owned
    <3> QED BY <2>3, <2>5, <3>1
  <2>6. c \notin left'
    OBVIOUS
  <2> QED BY <1>0, <2>1, <2>4, <2>5, <2>6, Closings
<1>2. \A d \in Client : obj'[d] = Unborn
  BY PlatformAssumption DEF Base, Accounted
<1>3. slot' = None \/ (slot' = slot /\ sdk' = sdk /\ stuck' = TRUE /\ left = {})
  BY <1>0, Closings
<1>4. Phases' /\ ThunkAlive'
  BY <1>3 DEF Phases, ThunkAlive, PInv
<1>5. ASSUME NEW d \in Client PROVE Owned(d)' /\ Current(d)'
  BY <1>1, <1>2 DEF Owned, Current, Unborn
<1> QED BY <1>0, <1>4, <1>5 DEF PInv


\* A message goes to the session it is for, since that one has the callback.
LEMMA DeliverKeeps ==
    ASSUME PInv, NEW c \in Client, Deliver(c), backend' = backend, Selected' = Selected
    PROVE  PInv'
<1>0. Fits /\ Single /\ Phases /\ ThunkAlive /\ Owned(c) /\ Current(c)
  BY DEF PInv
<1>1. /\ wire[c] # <<>> /\ wire' = [wire EXCEPT ![c] = Tail(@)]
      /\ UNCHANGED <<pc, new, active, sdk, slot, stuck, plat, real, gone, news>>
  BY DEF Deliver, appVars, platVars
<1>2. /\ plat[c] \in {"in", "refused"} /\ slot = c /\ obj[c].thunk
      /\ obj[c].state \in SessionState /\ c \in {active, new}
      /\ wire[c] \in Seq(Message) /\ c # None
  BY <1>0, <1>1, PlatformAssumption DEF Owned, Fits, TypeOK
<1> DEFINE t == Heard(obj[c].state, Head(wire[c]))
<1>3. obj' = [obj EXCEPT ![c].state = t]
  <2>1. obj[c].state # None
    BY <1>2, PlatformAssumption
  <2> QED BY <1>2, <2>1 DEF Deliver
<1>4. Head(wire[c]) \in Message /\ Tail(wire[c]) \in Seq(Message)
  BY <1>1, <1>2, SaidTail
<1>5. /\ t \in SessionState
      /\ t.ok = IF Head(wire[c]).type = "connect" THEN Head(wire[c]).ok ELSE obj[c].state.ok
  BY <1>2, <1>4, HeardOf
<1>6. Head(wire[c]).type = "connect" /\ Head(wire[c]).ok => plat[c] = "in"
  <2>1. 1 \in DOMAIN wire[c] /\ Head(wire[c]) = wire[c][1]
    BY <1>1, <1>2, SaidTail
  <2> QED BY <1>0, <2>1 DEF Owned
<1> HIDE DEF t
<1>7. /\ \A d \in Client : /\ obj'[d].thunk = obj[d].thunk /\ obj'[d].handle = obj[d].handle
                           /\ obj'[d].auth = obj[d].auth
                           /\ d # c => obj'[d] = obj[d] /\ wire'[d] = wire[d]
      /\ obj'[c].state = t /\ wire'[c] = Tail(wire[c])
      /\ obj' \in Objects
      /\ wire' \in [Client -> Seq(Message)]
  <2>1. obj \in Objects /\ wire \in [Client -> Seq(Message)]
    BY <1>0 DEF Fits, TypeOK, Objects
  <2>2. obj' = WithState(obj, c, t)
    BY <1>3 DEF WithState
  <2>3. /\ obj' \in Objects /\ \A d \in Client : d # c => obj'[d] = obj[d]
        /\ obj'[c].thunk = obj[c].thunk /\ obj'[c].handle = obj[c].handle
        /\ obj'[c].auth = obj[c].auth /\ obj'[c].state = t
    BY <1>5, <2>1, <2>2, StateSet
  <2>4. /\ wire' \in [Client -> Seq(Message)] /\ wire'[c] = Tail(wire[c])
        /\ \A d \in Client : d # c => wire'[d] = wire[d]
    BY <1>1, <1>4, <2>1
  <2> QED BY <2>3, <2>4
<1>8. Fits'
  BY <1>0, DeliverFits
<1>9. Single'
  BY <1>0, <1>1 DEF Single
<1>10. Phases'
  <2>1. pc # "idle" => new = c
    BY <1>0, <1>2 DEF Single
  <2>2. obj[c].state.ok /\ pc # "idle" => plat[c] = "in"
    BY <1>0, <2>1 DEF Phases
  <2>3. pc # "idle" /\ t.ok => plat[c] = "in"
    BY <1>5, <1>6, <2>2
  <2> QED BY <1>0, <1>1, <1>5, <1>7, <2>1, <2>3 DEF Phases
<1>11. ThunkAlive'
  BY <1>0, <1>1, <1>7 DEF ThunkAlive, Fits, TypeOK
<1>12. ASSUME NEW d \in Client PROVE Owned(d)' /\ Current(d)'
  <2>1. Owned(d) /\ Current(d)
    BY DEF PInv
  <2>2. CASE d # c
    BY <1>1, <1>7, <2>1, <2>2 DEF Owned, Current
  <2>3. CASE d = c
    <3>1. \A i \in DOMAIN Tail(wire[c]) : i + 1 \in DOMAIN wire[c] /\ Tail(wire[c])[i] = wire[c][i + 1]
      BY <1>1, <1>2, SaidTail
    <3>2. Owned(c)'
      BY <1>0, <1>1, <1>2, <1>5, <1>7, <3>1 DEF Owned
    <3>3. ASSUME plat[c] = "in", NEW n \in Node \ gone
          PROVE  IF real[n] = "absent" THEN Unheard(t, Tail(wire[c]), n)
                 ELSE Informed(t, Tail(wire[c]), n, real[n] = "on")
      <4>1. IF real[n] = "absent" THEN Unheard(obj[c].state, wire[c], n)
            ELSE Informed(obj[c].state, wire[c], n, real[n] = "on")
        BY <1>0, <3>3 DEF Current
      <4>2. CASE real[n] = "absent"
        BY <1>1, <1>2, <4>1, <4>2, DeliveryInventsNothing DEF t
      <4>3. CASE real[n] # "absent"
        BY <1>1, <1>2, <4>1, <4>3, DeliveryInforms DEF t
      <4> QED BY <4>2, <4>3
    <3>4. Current(c)'
      BY <1>1, <1>7, <3>3 DEF Current
    <3> QED BY <2>3, <3>2, <3>4
  <2> QED BY <2>2, <2>3
<1> QED BY <1>8, <1>9, <1>10, <1>11, <1>12 DEF PInv

\* A step of the server that sends messages to one login.
LEMMA ServerKeeps ==
    ASSUME PInv, backend' = backend, Selected' = Selected,
           UNCHANGED <<pc, new, active, obj, sdk, slot, stuck>>,
           Fits',
           \A d \in Client : /\ plat'[d] = plat[d] \/ (plat[d] = "asked" /\ plat'[d] \in {"in", "refused"})
                             /\ plat'[d] = "asked" \/ plat'[d] = "none" => wire'[d] = wire[d]
                             /\ \A i \in DOMAIN wire'[d] :
                                  wire'[d][i].type = "connect" /\ wire'[d][i].ok => plat'[d] = "in"
                             /\ Current(d)'
    PROVE  PInv'
<1>1. Fits /\ Single /\ Phases /\ ThunkAlive
  BY DEF PInv
<1>2. Single' /\ ThunkAlive'
  BY <1>1 DEF Single, ThunkAlive
<1>3. Phases'
  <2>1. pc \in {"callback", "send"} => new \in Client
    BY <1>1 DEF Fits, TypeOK, Objects
  <2>2. pc # "idle" => new \in Client
    BY <1>1 DEF Fits, TypeOK, Objects
  <2> QED BY <1>1, <2>2 DEF Phases
<1>4. ASSUME NEW d \in Client PROVE Owned(d)'
  <2>1. Owned(d)
    BY DEF PInv
  <2> QED BY <2>1 DEF Owned
<1> QED BY <1>2, <1>3, <1>4 DEF PInv

\* A message at the end of what is under way.
LEMMA ConnectAppended ==
    ASSUME NEW w \in Seq(Message), NEW m \in Message, NEW b \in BOOLEAN,
           \A i \in DOMAIN w : w[i].type = "connect" /\ w[i].ok => b,
           m.type = "connect" /\ m.ok => b
    PROVE  /\ Append(w, m) \in Seq(Message)
           /\ \A i \in DOMAIN Append(w, m) :
                Append(w, m)[i].type = "connect" /\ Append(w, m)[i].ok => b
<1>1. /\ \A i \in DOMAIN w : Append(w, m)[i] = w[i]
      /\ Append(w, m)[Len(w) + 1] = m
      /\ DOMAIN w = 1..Len(w) /\ DOMAIN Append(w, m) = 1..Len(w) + 1
      /\ Len(w) \in Nat /\ Append(w, m) \in Seq(Message)
  OBVIOUS
<1>2. ASSUME NEW i \in DOMAIN Append(w, m) PROVE i = Len(w) + 1 \/ i \in DOMAIN w
  BY <1>1
<1> QED BY <1>1, <1>2

\* The server accepts a login and sends the list, or refuses it.
LEMMA AnswerKeeps ==
    ASSUME PInv, NEW c \in Client, Answer(c), backend' = backend, Selected' = Selected
    PROVE  PInv'
<1>0. Fits /\ Owned(c)
  BY DEF PInv
<1>1. /\ plat[c] = "asked" /\ wire[c] = <<>> /\ wire[c] \in Seq(Message)
      /\ UNCHANGED <<pc, new, active, obj, sdk, slot, stuck, real, gone, news>>
      /\ obj[c].state = FreshState
  BY <1>0, PlatformAssumption DEF Answer, appVars, Owned, Fits, TypeOK
<1>2. \A d \in Client : Owned(d) /\ Current(d)
  BY DEF PInv
<1>3. CASE plat' = [plat EXCEPT ![c] = "refused"] /\ wire' = [wire EXCEPT ![c] = Append(@, Connect(FALSE))]
  <2>1. Connect(FALSE) \in Message /\ ~ Connect(FALSE).ok
    BY DEF Connect, Message
  <2>2. /\ Append(wire[c], Connect(FALSE)) \in Seq(Message)
        /\ \A i \in DOMAIN Append(wire[c], Connect(FALSE)) :
             ~ (Append(wire[c], Connect(FALSE))[i].type = "connect" /\ Append(wire[c], Connect(FALSE))[i].ok)
    <3>1. \A i \in DOMAIN wire[c] : wire[c][i].type = "connect" /\ wire[c][i].ok => FALSE
      BY <1>1
    <3> QED BY <1>1, <2>1, <3>1, ConnectAppended
  <2>3. Fits'
    BY <1>0, AnswerFits
  <2>4. /\ plat'[c] = "refused" /\ wire'[c] = Append(wire[c], Connect(FALSE))
        /\ \A d \in Client : d # c => plat'[d] = plat[d] /\ wire'[d] = wire[d]
    BY <1>0, <1>3 DEF Fits, TypeOK, Objects
  <2>5. ASSUME NEW d \in Client
        PROVE  /\ plat'[d] = plat[d] \/ (plat[d] = "asked" /\ plat'[d] \in {"in", "refused"})
               /\ plat'[d] = "asked" \/ plat'[d] = "none" => wire'[d] = wire[d]
               /\ \A i \in DOMAIN wire'[d] :
                    wire'[d][i].type = "connect" /\ wire'[d][i].ok => plat'[d] = "in"
               /\ Current(d)'
    <3>1. Owned(d) /\ Current(d)
      BY <1>2
    <3>2. CASE d = c
      BY <1>1, <2>2, <2>4, <3>2 DEF Current
    <3>3. CASE d # c
      BY <1>1, <2>4, <3>1, <3>3 DEF Owned, Current
    <3> QED BY <3>2, <3>3
  <2> QED BY <1>1, <2>3, <2>5, ServerKeeps
<1>4. ASSUME NEW order \in Bijection(1..Cardinality(Present), Present),
             plat' = [plat EXCEPT ![c] = "in"], wire' = [wire EXCEPT ![c] = @ \o Greeting(order)]
      PROVE  PInv'
  <2>1. /\ Greeting(order) \in Seq(Message)
        /\ \A n \in Present : Informed(FreshState, Greeting(order), n, real[n] = "on")
        /\ \A n \in Node \ Present : Unheard(FreshState, Greeting(order), n)
    BY <1>0, GreetingInforms DEF Fits, TypeOK, Objects
  <2>2. wire[c] \o Greeting(order) = Greeting(order)
    BY <1>1, <2>1
  <2>3. /\ plat'[c] = "in" /\ wire'[c] = Greeting(order)
        /\ \A d \in Client : d # c => plat'[d] = plat[d] /\ wire'[d] = wire[d]
    BY <1>0, <1>4, <2>2 DEF Fits, TypeOK, Objects
  <2>4. Fits'
    BY <1>0, AnswerFits
  <2>5. Current(c)'
    BY <1>1, <2>1, <2>3 DEF Current, Present
  <2>6. ASSUME NEW d \in Client
        PROVE  /\ plat'[d] = plat[d] \/ (plat[d] = "asked" /\ plat'[d] \in {"in", "refused"})
               /\ plat'[d] = "asked" \/ plat'[d] = "none" => wire'[d] = wire[d]
               /\ \A i \in DOMAIN wire'[d] :
                    wire'[d][i].type = "connect" /\ wire'[d][i].ok => plat'[d] = "in"
               /\ Current(d)'
    BY <1>1, <1>2, <2>3, <2>5 DEF Owned, Current
  <2> QED BY <1>1, <2>4, <2>6, ServerKeeps
<1> QED BY <1>3, <1>4 DEF Answer

\* A message that says nothing the callback appends.
LEMMA NotifyKeeps ==
    ASSUME PInv, NEW c \in Client, Notify(c), backend' = backend, Selected' = Selected
    PROVE  PInv'
<1>0. Fits /\ Owned(c) /\ Current(c)
  BY DEF PInv
<1>1. /\ plat[c] = "in" /\ wire[c] \in Seq(Message)
      /\ obj[c].state \in SessionState
      /\ UNCHANGED <<pc, new, active, obj, sdk, slot, stuck, plat, real, gone>>
      /\ news' \in 0..MaxNews
  BY <1>0, PlatformAssumption DEF Notify, appVars, Owned, Fits, TypeOK
<1>2. PICK m \in Message : m.type # "reslist" /\ wire' = [wire EXCEPT ![c] = Append(@, m)]
  <2>1. Connect(TRUE) \in Message /\ Connect(TRUE).type # "reslist"
    BY DEF Connect, Message
  <2>2. \A s \in Server, o \in {"create", "delete"} :
           Typed(o, s) \in Message /\ Typed(o, s).type # "reslist"
    BY DEF Typed, Message
  <2> QED BY <2>1, <2>2 DEF Notify
<1>3. /\ wire'[c] = Append(wire[c], m) /\ \A d \in Client : d # c => wire'[d] = wire[d]
      /\ ~ About(m, "create", m.node) /\ \A opt, n : ~ About(m, opt, n)
  BY <1>0, <1>2 DEF Fits, TypeOK, Objects, About
<1>5. Fits'
  BY <1>0, NotifyFits
<1>6. Current(c)'
  <2> SUFFICES ASSUME NEW n \in Node \ gone
               PROVE  IF real[n] = "absent" THEN Unheard(obj[c].state, Append(wire[c], m), n)
                      ELSE Informed(obj[c].state, Append(wire[c], m), n, real[n] = "on")
    BY <1>1, <1>3 DEF Current
  <2>1. IF real[n] = "absent" THEN Unheard(obj[c].state, wire[c], n)
        ELSE Informed(obj[c].state, wire[c], n, real[n] = "on")
    BY <1>0, <1>1 DEF Current
  <2>2. ~ About(m, "create", n) /\ ~ About(m, "update_state", n)
    BY <1>3
  <2>3. CASE real[n] = "absent"
    BY <1>1, <2>1, <2>2, <2>3, NewsOfOthers
  <2>4. CASE real[n] # "absent"
    BY <1>1, <2>1, <2>2, <2>4, NewsOfOthers
  <2> QED BY <2>3, <2>4
<1>7. \A i \in DOMAIN wire'[c] : wire'[c][i].type = "connect" /\ wire'[c][i].ok => plat'[c] = "in"
  BY <1>1, <1>3
<1>8. ASSUME NEW d \in Client
      PROVE  /\ plat'[d] = plat[d] \/ (plat[d] = "asked" /\ plat'[d] \in {"in", "refused"})
             /\ plat'[d] = "asked" \/ plat'[d] = "none" => wire'[d] = wire[d]
             /\ \A i \in DOMAIN wire'[d] :
                  wire'[d][i].type = "connect" /\ wire'[d][i].ok => plat'[d] = "in"
             /\ Current(d)'
  <2>1. Owned(d) /\ Current(d)
    BY DEF PInv
  <2>2. CASE d # c
    BY <1>1, <1>3, <2>1, <2>2 DEF Owned, Current
  <2> QED BY <1>1, <1>6, <1>7, <2>2
<1> QED BY <1>1, <1>5, <1>8, ServerKeeps

\* Every session in is told of a resource that comes, changes or goes.
LEMMA ChangeKeeps ==
    ASSUME PInv, NEW n \in Node, Change(n), backend' = backend, Selected' = Selected
    PROVE  PInv'
<1>0. Fits /\ real \in [Node -> {"absent", "off", "on"}] /\ wire \in [Client -> Seq(Message)]
  BY DEF PInv, Fits, TypeOK
<1>1. /\ UNCHANGED <<pc, new, active, obj, sdk, slot, stuck, left, plat>>
      /\ gone' \subseteq Node /\ gone \subseteq gone' /\ Fits'
  BY <1>0, ChangeSays
<1>2. PICK m \in Message : Says(n, m)
  BY <1>0, ChangeSays
<1>3. \A k \in Node : k # n => real'[k] = real[k]
  BY <1>0, <1>2 DEF Says
<1>4. \A d \in Client : wire'[d] = IF plat[d] = "in" THEN Append(wire[d], m) ELSE wire[d]
  BY <1>2 DEF Announce, In, Says
<1>7. ASSUME NEW d \in Client, plat[d] = "in", NEW k \in Node \ gone'
      PROVE  IF real'[k] = "absent" THEN Unheard(obj[d].state, Append(wire[d], m), k)
             ELSE Informed(obj[d].state, Append(wire[d], m), k, real'[k] = "on")
  <2>1. /\ IF real[k] = "absent" THEN Unheard(obj[d].state, wire[d], k)
           ELSE Informed(obj[d].state, wire[d], k, real[k] = "on")
        /\ obj[d].state \in SessionState /\ wire[d] \in Seq(Message)
    BY <1>0, <1>1, <1>7 DEF PInv, Current, Owned
  <2>2. CASE k # n
    <3>1. ~ About(m, "create", k) /\ ~ About(m, "update_state", k) /\ real'[k] = real[k]
      BY <1>2, <1>3, <2>2 DEF About, Says
    <3>2. CASE real[k] = "absent"
      BY <2>1, <3>1, <3>2, NewsOfOthers
    <3>3. CASE real[k] # "absent"
      BY <2>1, <3>1, <3>3, NewsOfOthers
    <3> QED BY <3>2, <3>3
  <2>3. CASE k = n /\ About(m, "create", n) /\ real[n] = "absent" /\ real'[n] = "on" /\ m.on = TRUE
    <3>1. Informed(obj[d].state, Append(wire[d], m), n, m.on)
      BY <2>1, <2>3, NewsOfNode
    <3>2. (real'[n] = "on") = m.on
      BY <2>3
    <3> QED BY <2>3, <3>1, <3>2
  <2>4. CASE k = n /\ About(m, "update_state", n) /\ real[n] # "absent" /\ real'[n] # "absent"
             /\ m.on = (real'[n] = "on")
    <3>1. Informed(obj[d].state, wire[d], n, real[n] = "on")
      BY <2>1, <2>4
    <3>2. Informed(obj[d].state, Append(wire[d], m), n, m.on)
      BY <2>1, <2>4, <3>1, NewsOfState
    <3> QED BY <2>4, <3>2
  <2> QED BY <1>2, <2>2, <2>3, <2>4 DEF About, Says
<1>8. ASSUME NEW d \in Client
      PROVE  /\ plat'[d] = plat[d] \/ (plat[d] = "asked" /\ plat'[d] \in {"in", "refused"})
             /\ plat'[d] = "asked" \/ plat'[d] = "none" => wire'[d] = wire[d]
             /\ \A i \in DOMAIN wire'[d] :
                  wire'[d][i].type = "connect" /\ wire'[d][i].ok => plat'[d] = "in"
             /\ Current(d)'
  <2>1. Owned(d)
    BY DEF PInv
  <2>2. Current(d)'
    BY <1>1, <1>4, <1>7 DEF Current
  <2> QED BY <1>1, <1>4, <2>1, <2>2 DEF Owned
<1> QED BY <1>1, <1>8, ServerKeeps

\* Which client it is that is closed, by a login that failed or with the back end.
LEMMA ClosedClient ==
    ASSUME Base, LoginFails \/ CloseBackend
    PROVE  \E c \in Client :
             /\ CloseClient(c) /\ pc' = "idle" /\ new' = None /\ active' = None
             /\ \A d \in Client : d \in {active, new} => d = c
<1>1. CASE LoginFails
  <2>1. new \in Client /\ active = None
    BY <1>1 DEF Base, Fits, TypeOK, Single, LoginFails
  <2> QED BY <1>1, <2>1, PlatformAssumption DEF LoginFails
<1>2. CASE CloseBackend
  <2>1. new = None /\ active \in Client
    BY <1>2 DEF Base, Fits, TypeOK, CloseBackend
  <2> QED BY <1>2, <2>1, PlatformAssumption DEF CloseBackend
<1> QED BY <1>1, <1>2


\* The back end is never changed under a client.
LEMMA SelectedStays == [MNext]_allVars => Selected' = Selected
<1> SUFFICES ASSUME [MNext]_allVars PROVE mode' = mode /\ lib' = lib
  BY DEF Selected
<1>1. CASE UNCHANGED allVars
  BY <1>1 DEF allVars, facadeVars, sdkVars
<1>2. CASE LoginPlatform
  BY <1>2 DEF LoginPlatform, Platform, sdkVars
<1>3. CASE LoginWeb
  BY <1>3 DEF LoginWeb, Web, sdkVars
<1>4. CASE LoginSdk
  BY <1>4 DEF LoginSdk, NetSdk, SdkLogin
<1>5. CASE LoginSidecar
  BY <1>5 DEF LoginSidecar, Sidecar, sdkVars
<1>6. CASE Close
  BY <1>6 DEF Close, Platform, Web, NetSdk, Sidecar, SdkClose, sdkVars
<1>7. CASE Operate
  BY <1>7 DEF Operate, CommonCall, PlatformCall, Platform, Web, NetSdk, SubscribeAlarms, Query, sdkVars
<1>8. CASE Elsewhere
  BY <1>8 DEF Elsewhere, Platform, Web, NetSdk, CloseAlarm, sdkVars
<1> QED BY <1>1, <1>2, <1>3, <1>4, <1>5, <1>6, <1>7, <1>8 DEF MNext

\* Whoever is logged in, closed or left behind, every login stays accounted for.
LEMMA BaseStep == Base /\ [MNext]_allVars => Base'
<1> SUFFICES ASSUME Base, [MNext]_allVars PROVE Base'
  OBVIOUS
<1>0. Selected' = Selected /\ Fits /\ Single
  BY SelectedStays DEF Base
<1>1. \A c \in Client : Accounted(c)
  BY DEF Base
<1>2. obj \in Objects /\ plat \in [Client -> {"none", "asked", "in", "refused"}]
  BY <1>0 DEF Fits, TypeOK, Objects
<1>3. ASSUME UNCHANGED <<pc, new, active, obj, sdk, slot, stuck, left, plat, wire, real, gone, news>>,
             backend' = backend \/ Selected # "platform_sdk"
      PROVE  Base'
  <2>1. Fits'
    BY <1>0, <1>3 DEF Fits, TypeOK
  <2>2. Single'
    BY <1>0, <1>3 DEF Single
  <2> QED BY <1>3, <2>1, <2>2 DEF Base, Accounted
<1>4. ASSUME NEW c \in Client, LoginBegin(c), MayLogIn, backend' = backend, Selected = "platform_sdk"
      PROVE  Base'
  <2>1. Fits'
    BY <1>0, <1>4, LoginBeginFits
  <2>2. /\ active = None /\ backend = None /\ pc = "idle" /\ new' = c /\ plat[c] = "none"
        /\ new = None /\ obj' = WithState(obj, c, FreshState)
        /\ UNCHANGED <<active, stuck, left, plat>>
    BY <1>0, <1>4 DEF LoginBegin, Single, MayLogIn, Fits, TypeOK, platVars, WithState
  <2>3. \A d \in Client : d # c => obj'[d] = obj[d]
    BY <1>2, <2>2, FreshFits, StateSet
  <2>4. Single'
    BY <1>0, <1>4, <2>2 DEF Single
  <2>5. ASSUME NEW d \in Client PROVE Accounted(d)'
    BY <1>1, <2>2, <2>3, PlatformAssumption DEF Accounted
  <2> QED BY <2>1, <2>2, <2>4, <2>5 DEF Base
<1>5. ASSUME SetCallback, backend' = backend PROVE Base'
  <2>1. Fits' /\ new \in Client
    BY <1>0, <1>5, SetCallbackFits DEF Fits, TypeOK, SetCallback
  <2>2. /\ pc = "callback" /\ obj' = [obj EXCEPT ![new].thunk = TRUE]
        /\ UNCHANGED <<new, active, stuck, left, plat>>
    BY <1>5 DEF SetCallback, platVars
  <2>3. ASSUME NEW d \in Client
        PROVE  obj'[d].handle = obj[d].handle /\ (d # new => obj'[d] = obj[d])
    BY <1>2, <2>1, <2>2 DEF Objects
  <2>4. Single'
    BY <1>0, <1>5, <2>2 DEF Single
  <2>5. ASSUME NEW d \in Client PROVE Accounted(d)'
    BY <1>1, <2>2, <2>3 DEF Accounted
  <2> QED BY <2>1, <2>2, <2>4, <2>5 DEF Base
<1>6. ASSUME SendLogin, backend' = backend PROVE Base'
  <2>1. Fits' /\ new \in Client
    BY <1>0, <1>6, SendLoginFits DEF Fits, TypeOK, SendLogin
  <2>2. /\ pc = "send" /\ UNCHANGED <<new, active, stuck, left>>
        /\ \/ obj' = obj /\ plat' = plat
           \/ obj' = [obj EXCEPT ![new].handle = TRUE] /\ plat' = [plat EXCEPT ![new] = "asked"]
    BY <1>6 DEF SendLogin
  <2>3. ASSUME NEW d \in Client
        PROVE  \/ obj'[d] = obj[d] /\ plat'[d] = plat[d]
               \/ d = new /\ obj'[d].handle
    BY <1>2, <2>1, <2>2 DEF Objects
  <2>4. Single'
    BY <1>0, <1>6, <2>2 DEF Single
  <2>5. ASSUME NEW d \in Client PROVE Accounted(d)'
    BY <1>1, <2>2, <2>3 DEF Accounted
  <2> QED BY <2>1, <2>2, <2>4, <2>5 DEF Base
<1>7. ASSUME LoginOutcome, backend' = backend PROVE Base'
  <2>1. Fits' /\ new \in Client
    BY <1>0, <1>7, LoginOutcomeFits DEF Fits, TypeOK, LoginOutcome
  <2>2. /\ pc = "wait" /\ UNCHANGED <<new, active, stuck, left, plat>>
        /\ obj' = obj \/ obj' = WithAuth(obj, new)
    BY <1>7 DEF LoginOutcome, platVars, WithAuth
  <2>3. ASSUME NEW d \in Client
        PROVE  obj'[d].handle = obj[d].handle /\ (d # new => obj'[d] = obj[d])
    BY <1>2, <2>1, <2>2, AuthSet
  <2>4. Single'
    BY <1>0, <1>7, <2>2 DEF Single
  <2>5. ASSUME NEW d \in Client PROVE Accounted(d)'
    BY <1>1, <2>2, <2>3 DEF Accounted
  <2> QED BY <2>1, <2>2, <2>4, <2>5 DEF Base
<1>8. ASSUME LoginEnd, backend' = Selected, Selected = "platform_sdk" PROVE Base'
  <2>1. Fits' /\ active = None
    BY <1>0, <1>8, LoginEndFits DEF LoginEnd, Single
  <2>2. pc' = "idle" /\ new' = None /\ active' = new /\ UNCHANGED <<obj, stuck, left, plat>>
    BY <1>8, <2>1 DEF LoginEnd, platVars
  <2>3. Single'
    BY <1>0, <1>8, <2>2, ModesAssumption DEF Single, BackendMode
  <2>4. ASSUME NEW d \in Client PROVE Accounted(d)'
    BY <1>1, <2>1, <2>2, PlatformAssumption DEF Accounted
  <2> QED BY <2>1, <2>2, <2>3, <2>4 DEF Base
<1>9. ASSUME LoginFails \/ CloseBackend PROVE Base'
  <2>1. PICK c \in Client :
           /\ CloseClient(c) /\ pc' = "idle" /\ new' = None /\ active' = None
           /\ \A d \in Client : d \in {active, new} => d = c
    BY <1>9, ClosedClient
  <2>2. Fits'
    BY <1>0, <2>1, ClosingFits
  <2>3. Single'
    BY <2>1 DEF Single
  <2>4. left' # {} => stuck'
    BY <1>0, <2>1, Closings DEF Base
  <2>5. ASSUME NEW d \in Client PROVE Accounted(d)'
    <3>1. obj'[d] = Unborn
      BY <1>0, <1>1, <2>1, Closings DEF Accounted
    <3>2. plat[d] # "none" => d \in {c} \cup left
      BY <1>1, <2>1 DEF Accounted
    <3>3. plat'[d] # "none" => d \in left'
      <4>1. CASE plat' = [e \in Client |-> "none"]
        BY <4>1
      <4>2. CASE plat' = [plat EXCEPT ![c] = "none"] /\ left' = left
        BY <1>2, <3>2, <4>2
      <4>3. CASE UNCHANGED plat /\ left' = left \cup {c}
        BY <3>2, <4>3
      <4>4. CASE ~ obj[c].handle /\ UNCHANGED <<plat, left>>
        <5>1. d = c /\ plat[d] # "none" => d \in left
          BY <1>1, <4>4 DEF Accounted
        <5> QED BY <3>2, <4>4, <5>1
      <4> QED BY <1>0, <2>1, <4>1, <4>2, <4>3, <4>4, Closings
    <3>4. d \notin {active', new'}
      BY <2>1, PlatformAssumption
    <3> QED BY <3>1, <3>3, <3>4 DEF Accounted
  <2> QED BY <2>2, <2>3, <2>4, <2>5 DEF Base
<1>10. ASSUME World, backend' = backend PROVE Base'
  <2>1. ASSUME Fits', UNCHANGED <<pc, new, active, stuck, left>>,
               \A d \in Client : /\ plat'[d] # "none" => plat[d] # "none"
                                 /\ obj'[d].handle = obj[d].handle
                                 /\ obj[d] = Unborn => obj'[d] = Unborn
        PROVE  Base'
    <3>1. Single'
      BY <1>0, <1>10, <2>1 DEF Single
    <3> QED BY <1>1, <2>1, <3>1 DEF Base, Accounted
  <2>2. ASSUME NEW c \in Client, Deliver(c) PROVE Base'
    <3>1. Fits' /\ slot \in Client \cup {None}
      BY <1>0, <2>2, DeliverFits DEF Fits, TypeOK
    <3>2. UNCHANGED <<pc, new, active, stuck, left, plat>>
      BY <2>2 DEF Deliver, appVars, platVars
    <3>3. ASSUME NEW d \in Client
          PROVE  obj'[d].handle = obj[d].handle /\ (obj[d] = Unborn => obj'[d] = Unborn)
      <4>1. CASE ~ (slot # None /\ obj[slot].thunk)
        BY <2>2, <4>1 DEF Deliver
      <4>2. CASE slot # None /\ obj[slot].thunk
        <5>1. slot \in Client /\ obj[slot] # Unborn
          BY <3>1, <4>2 DEF Unborn
        <5>2. obj' = [obj EXCEPT ![slot].state = IF @ = None THEN None ELSE Heard(@, Head(wire[c]))]
          BY <2>2, <4>2 DEF Deliver
        <5>3. obj'[d] = IF d = slot THEN [obj[d] EXCEPT !.state = IF @ = None THEN None ELSE Heard(@, Head(wire[c]))]
                        ELSE obj[d]
          BY <1>2, <5>1, <5>2 DEF Objects
        <5>4. obj[d] \in [thunk : BOOLEAN, handle : BOOLEAN, auth : BOOLEAN,
                           state : SessionState \cup {None}]
          BY <1>2 DEF Objects
        <5>5. obj'[d].handle = obj[d].handle
          BY <5>3, <5>4
        <5> QED BY <5>1, <5>3, <5>5
      <4> QED BY <4>1, <4>2
    <3> QED BY <2>1, <3>1, <3>2, <3>3
  <2>3. ASSUME NEW c \in Client, Answer(c) PROVE Base'
    <3>1. Fits'
      BY <1>0, <2>3, AnswerFits
    <3>2. /\ UNCHANGED <<pc, new, active, stuck, left, obj>> /\ plat[c] = "asked"
          /\ \E v : plat' = [plat EXCEPT ![c] = v]
      BY <2>3 DEF Answer, appVars
    <3>3. ASSUME NEW d \in Client PROVE plat'[d] # "none" => plat[d] # "none"
      BY <1>2, <3>2
    <3> QED BY <2>1, <3>1, <3>2, <3>3
  <2>4. ASSUME NEW c \in Client, Notify(c) PROVE Base'
    <3>1. Fits' /\ UNCHANGED <<pc, new, active, stuck, left, obj, plat>>
      BY <1>0, <2>4, NotifyFits DEF Notify, appVars
    <3> QED BY <2>1, <3>1
  <2>5. ASSUME NEW n \in Node, Change(n) PROVE Base'
    BY <1>0, <2>1, <2>5, ChangeSays
  <2> QED BY <1>10, <2>2, <2>3, <2>4, <2>5 DEF World
<1>11. ASSUME LoginPlatform PROVE Base'
  BY <1>4, <1>5, <1>6, <1>7, <1>8, <1>9, <1>11 DEF LoginPlatform, Platform
<1>12. ASSUME UNCHANGED vars, backend' = backend \/ Selected # "platform_sdk" PROVE Base'
  BY <1>3, <1>12 DEF vars
<1>13. ASSUME Inventory, backend' = backend PROVE Base'
  BY <1>3, <1>13 DEF Inventory, SnapResources, SnapServers, appVars, platVars
<1>14. CASE UNCHANGED allVars
  BY <1>12, <1>14 DEF allVars, facadeVars
<1>15. CASE LoginWeb \/ LoginSdk \/ LoginSidecar
  BY <1>12, <1>15 DEF LoginWeb, Web, LoginSdk, NetSdk, LoginSidecar, Sidecar
<1>16. CASE Close
  BY <1>9, <1>12, <1>16 DEF Close, Web, NetSdk, Sidecar
<1>17. CASE Operate
  BY <1>12, <1>13, <1>17 DEF Operate, CommonCall, PlatformCall, Web, NetSdk, ReadDevices
<1>18. CASE Elsewhere
  BY <1>10, <1>12, <1>18 DEF Elsewhere, Web, NetSdk
<1> QED BY <1>11, <1>14, <1>15, <1>16, <1>17, <1>18 DEF MNext

\* Every step of the management client after which no session is left behind keeps what is
\* true of a process without one.
LEMMA PStep == Base /\ (left = {} => PInv) /\ [MNext]_allVars => (left' = {} => PInv')
<1> SUFFICES ASSUME Base, left = {} => PInv, [MNext]_allVars, left' = {} PROVE PInv'
  OBVIOUS
<1>1. Selected' = Selected /\ Base'
  BY SelectedStays, BaseStep
<1>2. ASSUME left' = left PROVE PInv
  BY <1>2
<1>3. ASSUME UNCHANGED vars, backend' = backend \/ Selected # "platform_sdk" PROVE PInv'
  BY <1>1, <1>2, <1>3, SameSessions DEF vars
<1>4. ASSUME LoginFails \/ CloseBackend PROVE PInv'
  <2>1. PICK c \in Client :
           /\ CloseClient(c) /\ pc' = "idle" /\ new' = None /\ active' = None
           /\ \A d \in Client : d \in {active, new} => d = c
    BY <1>4, ClosedClient
  <2> QED BY <1>1, <2>1, ClosingKeeps
<1>5. ASSUME Selected = "platform_sdk", LoginPlatform PROVE PInv'
  <2>1. ASSUME NEW c \in Client, LoginBegin(c), MayLogIn, backend' = backend PROVE PInv'
    <3>1. PInv
      BY <1>2, <2>1 DEF LoginBegin
    <3> QED BY <1>1, <1>5, <2>1, <3>1, LoginBeginKeeps
  <2>2. ASSUME SetCallback, backend' = backend PROVE PInv'
    <3>1. PInv
      BY <1>2, <2>2 DEF SetCallback
    <3> QED BY <1>1, <2>2, <3>1, SetCallbackKeeps
  <2>3. ASSUME SendLogin, backend' = backend PROVE PInv'
    <3>1. PInv
      BY <1>2, <2>3 DEF SendLogin
    <3> QED BY <1>1, <2>3, <3>1, SendLoginKeeps
  <2>4. ASSUME LoginOutcome, backend' = backend PROVE PInv'
    <3>1. PInv
      BY <1>2, <2>4 DEF LoginOutcome
    <3> QED BY <1>1, <2>4, <3>1, LoginOutcomeKeeps
  <2>5. ASSUME LoginEnd, backend' = Selected PROVE PInv'
    <3>1. PInv
      BY <1>2, <2>5 DEF LoginEnd
    <3> QED BY <1>1, <1>5, <2>5, <3>1, LoginEndKeeps
  <2> QED BY <1>4, <1>5, <2>1, <2>2, <2>3, <2>4, <2>5 DEF LoginPlatform
<1>6. ASSUME World, backend' = backend PROVE PInv'
  <2>1. PInv
    BY <1>2, <1>6 DEF World, Deliver, Answer, Notify, Change
  <2>2. ASSUME NEW c \in Client, Deliver(c) PROVE PInv'
    BY <1>1, <1>6, <2>1, <2>2, DeliverKeeps
  <2>3. ASSUME NEW c \in Client, Answer(c) PROVE PInv'
    BY <1>1, <1>6, <2>1, <2>3, AnswerKeeps
  <2>4. ASSUME NEW c \in Client, Notify(c) PROVE PInv'
    BY <1>1, <1>6, <2>1, <2>4, NotifyKeeps
  <2>5. ASSUME NEW n \in Node, Change(n) PROVE PInv'
    BY <1>1, <1>6, <2>1, <2>5, ChangeKeeps
  <2> QED BY <1>6, <2>2, <2>3, <2>4, <2>5 DEF World
<1>7. ASSUME Inventory, backend' = backend PROVE PInv'
  <2>1. UNCHANGED <<pc, new, active, obj, sdk, slot, stuck, left, plat, wire, real, gone, news>>
    BY <1>7 DEF Inventory, SnapResources, SnapServers, appVars, platVars
  <2> QED BY <1>1, <1>2, <1>7, <2>1, SameSessions
<1>8. CASE UNCHANGED allVars
  BY <1>3, <1>8 DEF allVars, facadeVars
<1>9. CASE LoginPlatform
  BY <1>5, <1>9 DEF LoginPlatform, Platform
<1>10. CASE LoginWeb \/ LoginSdk \/ LoginSidecar
  BY <1>3, <1>10 DEF LoginWeb, Web, LoginSdk, NetSdk, LoginSidecar, Sidecar
<1>11. CASE Close
  BY <1>3, <1>4, <1>11 DEF Close, Web, NetSdk, Sidecar
<1>12. CASE Operate
  BY <1>3, <1>7, <1>12 DEF Operate, CommonCall, PlatformCall, Web, NetSdk, ReadDevices
<1>13. CASE Elsewhere
  BY <1>3, <1>6, <1>13 DEF Elsewhere, Web, NetSdk
<1> QED BY <1>8, <1>9, <1>10, <1>11, <1>12, <1>13 DEF MNext

\* PlatformSDKClient: one login at a time, and every login the server knows of is held by the
\* client or was left behind by a close; in a process where none was left behind, it has the
\* callback, and its rows with the messages under way say what the server has.
THEOREM PlatformCorrect == MSpec => []Sessions
<1>1. MInit => Sessions
  BY PInit DEF Sessions
<1>2. Sessions /\ [MNext]_allVars => Sessions'
  BY BaseStep, PStep DEF Sessions
<1> QED BY <1>1, <1>2, PTL DEF MSpec

\* The normalised list of a client, and what is made of it, is what the server has once the
\* client has heard everything it was sent, in a process where no session was left behind; its
\* device list and statuses are so of the resources whose state has not changed.
THEOREM ListsCorrect == MSpec => []ListsCurrent
<1>1. Sessions => ListsCurrent
  <2> SUFFICES ASSUME PInv, Session, plat[active] = "in", wire[active] = <<>>,
                      NEW n \in Present \ gone
               PROVE  /\ n \in Listed(Held) /\ Online(Held, n) = (real[n] = "on")
                      /\ Rows(Held, "update_state", n) = {} =>
                           \A d \in DeviceStatuses(Held) : d.node = n => d.on = (real[n] = "on")
    BY DEF ListsCurrent, Quiet, Sessions
  <2>1. active \in Client /\ n \in Node /\ real[n] # "absent"
    BY DEF PInv, Fits, TypeOK, Session, Present
  <2>2. Informed(Held, <<>>, n, real[n] = "on")
    BY <2>1 DEF PInv, Current, Held
  <2>3. \A opt : Said(<<>>, opt, n) = {}
    BY DEF Said
  <2>4. obj[active].state \in SessionState
    BY <2>1 DEF PInv, Owned
  <2>5. Held \in SessionState
    BY <2>4 DEF Held
  <2> DEFINE C == Rows(Held, "create", n)
             U == Rows(Held, "update_state", n)
  <2>6. C \subseteq Nat /\ U \subseteq Nat
    BY <2>5 DEF Rows, SessionState
  <2>7. /\ C # {} /\ \E i \in DOMAIN Held.rows : Latest(C, i)
        /\ U # {} => \E i \in DOMAIN Held.rows : Latest(U, i) /\ Held.rows[i].on = (real[n] = "on")
        /\ U = {} => \A i \in C : Held.rows[i].on = (real[n] = "on")
    BY <2>2, <2>3 DEF Informed
  <2>8. Online(Held, n) = Held.rows[Max(IF U # {} THEN U ELSE C)].on
    BY DEF Online
  <2>9. n \in Listed(Held)
    BY <2>1, <2>7 DEF Listed
  <2>13. U = {} => \A d \in DeviceStatuses(Held) : d.node = n => d.on = (real[n] = "on")
    BY <2>7 DEF DeviceStatuses, Rows
  <2> HIDE DEF C, U
  <2>10. ASSUME NEW S \in SUBSET Nat, NEW i, Latest(S, i) PROVE Max(S) = i
    <3>1. \A j \in S : i >= j
      BY <2>10 DEF Latest
    <3>2. Max(S) \in S /\ \A j \in S : Max(S) >= j
      BY <2>10, <3>1 DEF Max, Latest
    <3>3. i \in Nat /\ Max(S) \in Nat /\ i >= Max(S) /\ Max(S) >= i
      BY <2>10, <3>1, <3>2 DEF Latest
    <3> HIDE DEF Max
    <3> QED BY <3>3
  <2>11. CASE U # {}
    <3>1. PICK i \in DOMAIN Held.rows : Latest(U, i) /\ Held.rows[i].on = (real[n] = "on")
      BY <2>7, <2>11
    <3>2. Max(U) = i
      BY <2>6, <2>10, <3>1
    <3>3. Online(Held, n) = Held.rows[i].on
      BY <2>8, <2>11, <3>2
    <3> QED BY <2>9, <2>11, <3>1, <3>3 DEF U
  <2>12. CASE U = {}
    <3>1. PICK i \in DOMAIN Held.rows : Latest(C, i)
      BY <2>7
    <3>2. Max(C) = i /\ i \in C
      BY <2>6, <2>10, <3>1 DEF Latest
    <3>3. Online(Held, n) = Held.rows[i].on
      BY <2>8, <2>12, <3>2
    <3> QED BY <2>7, <2>9, <2>12, <2>13, <3>2, <3>3
  <2> QED BY <2>11, <2>12
<1> QED BY <1>1, PlatformCorrect, PTL

(***************************************************************************)
(* The sessions of NET_SDK                                                 *)
(***************************************************************************)

\* Every native session is the client's or one whose logout failed, and every alarm channel an
\* active subscription's.
Natives ==
    /\ live \subseteq {client.handle} \cup lost
    /\ backend = None \/ Selected # "native_linux_sdk" => live \subseteq lost
    /\ channel \in [Alarm -> Handle \cup {None}]
    /\ \A a \in Alarm : channel[a] # None => a \in held
    /\ client.handle \in Handle \cup {None}

\* Every step keeps native sessions and alarm channels in hand.
LEMMA NativesStep == Natives /\ [MNext]_allVars => Natives'
<1> SUFFICES ASSUME Natives, [MNext]_allVars PROVE Natives'
  OBVIOUS
<1>1. Selected' = Selected
  BY SelectedStays
<1>2. ASSUME UNCHANGED sdkVars, backend' = backend \/ backend = None \/ Selected # "native_linux_sdk"
      PROVE  Natives'
  BY <1>1, <1>2 DEF Natives, sdkVars
<1>3. ASSUME NEW h \in Handle, SdkLogin(h), Selected = "native_linux_sdk", MayLogIn, backend' = Selected
      PROVE  Natives'
  <2>1. live \subseteq lost /\ live' = live \cup {h} /\ client' = [handle |-> h, alarms |-> {}]
        /\ UNCHANGED <<lost, channel, held>>
    BY <1>3 DEF Natives, SdkLogin, MayLogIn
  <2>2. backend' # None
    BY <1>3, ModesAssumption DEF BackendMode
  <2> QED BY <1>1, <1>3, <2>1, <2>2 DEF Natives
<1>4. ASSUME NEW a \in Alarm, SubscribeAlarms(a), backend' = backend PROVE Natives'
  <2>1. client' = [client EXCEPT !.alarms = {a}] /\ channel' = [channel EXCEPT ![a] = client.handle]
        /\ held' = held \cup {a} /\ UNCHANGED <<live, lost>>
    BY <1>4 DEF SubscribeAlarms
  <2>2. client'.handle = client.handle
    BY <2>1
  <2> QED BY <1>1, <1>4, <2>1, <2>2 DEF Natives
<1>5. ASSUME NEW a \in Alarm, CloseAlarm(a), backend' = backend PROVE Natives'
  <2>1. PICK ok \in BOOLEAN :
           /\ held' = HeldAfter(a, ok)
           /\ channel' = IF ok THEN [channel EXCEPT ![a] = None] ELSE channel
           /\ client' = IF ok THEN [client EXCEPT !.alarms = @ \ {a}] ELSE client
    BY <1>5 DEF CloseAlarm
  <2>2. client'.handle = client.handle /\ live' = live /\ lost' = lost
    BY <1>5, <2>1 DEF CloseAlarm
  <2> QED BY <1>1, <1>5, <2>1, <2>2 DEF Natives, HeldAfter
<1>6. ASSUME SdkClose, backend' = None PROVE Natives'
  <2>1. PICK closed \in SUBSET {a \in client.alarms : channel[a] # None}, out \in BOOLEAN :
           /\ live' = IF out THEN live \ {client.handle} ELSE live
           /\ lost' = IF out THEN lost ELSE lost \cup {client.handle}
           /\ held' = held \ closed
           /\ channel' = [a \in Alarm |->
                IF a \in closed \/ (out /\ channel[a] = client.handle) THEN None ELSE channel[a]]
    BY <1>6 DEF SdkClose
  <2>2. live' \subseteq lost' /\ client' = Closed
    BY <1>6, <2>1 DEF SdkClose, Natives
  <2> QED BY <1>1, <2>1, <2>2 DEF Natives, Closed
<1>7. CASE UNCHANGED allVars
  BY <1>2, <1>7 DEF allVars, facadeVars
<1>8. CASE LoginPlatform
  BY <1>2, <1>8 DEF LoginPlatform, Platform
<1>9. CASE LoginWeb
  BY <1>2, <1>9 DEF LoginWeb, Web
<1>10. CASE LoginSdk
  BY <1>3, <1>10 DEF LoginSdk, NetSdk
<1>11. CASE LoginSidecar
  BY <1>2, <1>11 DEF LoginSidecar, Sidecar
<1>12. CASE Close
  BY <1>2, <1>6, <1>12 DEF Close, Platform, Web, NetSdk, Sidecar
<1>13. CASE Operate
  BY <1>2, <1>4, <1>13 DEF Operate, CommonCall, PlatformCall, Platform, Web, Query
<1>14. CASE Elsewhere
  BY <1>2, <1>5, <1>14 DEF Elsewhere, Platform, Web
<1> QED BY <1>7, <1>8, <1>9, <1>10, <1>11, <1>12, <1>13, <1>14 DEF MNext

\* SdkManagementBackend: every native session but those whose logout failed, and every alarm
\* channel, is in the hands of the client that opened it.
THEOREM NativesCorrect == MSpec => []Natives
<1>1. MInit => Natives
  BY DEF MInit, SdkInit, Natives, Closed
<1> QED BY <1>1, NativesStep, PTL DEF MSpec

\* No session is open that no close would end, but those whose logout was tried and failed.
THEOREM SessionsCorrect == MSpec => []SessionsHeld
<1>1. Sessions /\ Natives => SessionsHeld
  <2> SUFFICES ASSUME Base, left = {} => PInv, Natives PROVE SessionsHeld
    BY DEF Sessions
  <2>1. TypeOK /\ (left # {} => stuck)
    BY DEF Base, Fits
  <2>2. AuthIsOwn
    BY DEF AuthIsOwn, PInv, Owned
  <2>3. ThunkAlive
    BY <2>1 DEF ThunkAlive, PInv
  <2>4. \A c \in Client : plat[c] = "in" => c \in {active, new} \cup left
    BY DEF Base, Accounted
  <2> QED BY <2>1, <2>2, <2>3, <2>4 DEF SessionsHeld, Natives
<1> QED BY <1>1, PlatformCorrect, NativesCorrect, PTL

\* No alarm channel is open that nobody can close.
THEOREM AlarmsCorrect == MSpec => []AlarmsHeld
<1>1. Natives => AlarmsHeld
  BY DEF Natives, AlarmsHeld
<1> QED BY <1>1, NativesCorrect, PTL

(***************************************************************************)
(* The walk over the areas of the web API                                  *)
(***************************************************************************)

WalkRead == [kind : {"walk"}, areas : Seq(Area), page : Nat, seen : SUBSET Device,
             total : Nat \cup {None}, found : SUBSET Device, stayed : SUBSET Device,
             edits : Nat, moved : BOOLEAN]

\* A device that stayed was found or is in an area still to be walked; what was seen of
\* the area that is walked is of it, unless its total has changed.
Covers(w) ==
    w.edits <= 1 /\ ~ w.moved =>
      /\ \A d \in w.stayed : d \in w.found \/ \E i \in DOMAIN w.areas : d \in members[w.areas[i]]
      /\ w.areas # <<>> =>
           /\ w.total = None => w.seen = {}
           /\ w.total = Total(Head(w.areas)) => w.seen \subseteq members[Head(w.areas)]
           /\ w.edits = 0 => w.total \in {None, Total(Head(w.areas))}

\* A walk over the areas is in progress.
Walking(w) == w # None /\ w.kind = "walk"

\* The inductive invariant.
Steady ==
    /\ SteadyCoverage
    /\ members \in [Area -> SUBSET Device]
    /\ Walking(op) => op \in WalkRead /\ Covers(op)

\* An area has finitely many devices.
LEMMA TotalOf ==
    ASSUME members \in [Area -> SUBSET Device], NEW a \in Area
    PROVE  IsFiniteSet(members[a]) /\ Total(a) \in Nat
BY WebAssumption, FS_Subset, FS_CardinalityType DEF Total

\* A page that is not the last, or the last of its area.
LEMMA PageCovers ==
    ASSUME members \in [Area -> SUBSET Device], NEW w \in WalkRead, Covers(w), w.areas # <<>>,
           ~ PageFails(w, Head(w.areas))
    PROVE  AfterPage(w, Head(w.areas)) \in WalkRead /\ Covers(AfterPage(w, Head(w.areas)))
<1> DEFINE a == Head(w.areas)
           p == Page(a, w.page)
           seen == w.seen \cup p
           v == AfterPage(w, a)
<1>1. /\ a \in Area /\ Tail(w.areas) \in Seq(Area) /\ w.areas \in Seq(Area)
      /\ \A i \in DOMAIN w.areas : i = 1 \/ (i - 1 \in DOMAIN Tail(w.areas)
                                             /\ Tail(w.areas)[i - 1] = w.areas[i])
      /\ a = w.areas[1]
  BY DEF WalkRead
<1>2. p \subseteq members[a] /\ members[a] \subseteq Device
  BY <1>1 DEF Page
<1>3. IsFiniteSet(members[a]) /\ Total(a) \in Nat
  BY <1>1, TotalOf
<1>4. w.total \in {None, Total(a)}
  BY DEF PageFails
<1>5. w.edits <= 1 /\ ~ w.moved => w.seen \subseteq members[a]
  BY <1>4 DEF Covers
<1>6. v = IF AreaDone(w, a)
          THEN [w EXCEPT !.areas = Tail(@), !.page = 1, !.seen = {}, !.total = None,
                         !.found = @ \cup seen]
          ELSE [w EXCEPT !.page = @ + 1, !.seen = seen, !.total = Total(a)]
  BY DEF AfterPage
<1>7. AreaDone(w, a) <=> Cardinality(seen) = Total(a)
  BY DEF AreaDone
<1> HIDE DEF a, p, v
<1>8. CASE AreaDone(w, a)
  <2>1. v = [w EXCEPT !.areas = Tail(w.areas), !.page = 1, !.seen = {}, !.total = None,
                      !.found = w.found \cup seen]
    BY <1>6, <1>8
  <2>2. v \in WalkRead
    BY <1>1, <1>2, <2>1 DEF WalkRead
  <2>3. /\ v.areas = Tail(w.areas) /\ v.seen = {} /\ v.total = None /\ v.found = w.found \cup seen
        /\ v.stayed = w.stayed /\ v.edits = w.edits /\ v.moved = w.moved
    BY <2>1 DEF WalkRead
  <2>4. ASSUME w.edits <= 1, ~ w.moved PROVE members[a] \subseteq seen
    <3>1. seen \subseteq members[a]
      BY <1>2, <1>5, <2>4
    <3>2. Cardinality(seen) = Cardinality(members[a])
      BY <1>7, <1>8 DEF Total
    <3>3. seen = members[a]
      BY <1>3, <3>1, <3>2, FS_Subset
    <3> QED BY <3>3
  <2>5. ASSUME w.edits <= 1, ~ w.moved, NEW d \in w.stayed
        PROVE  d \in v.found \/ \E i \in DOMAIN v.areas : d \in members[v.areas[i]]
    <3>1. d \in w.found \/ \E i \in DOMAIN w.areas : d \in members[w.areas[i]]
      BY <2>5 DEF Covers
    <3>2. CASE d \in w.found
      BY <2>3, <3>2
    <3>3. ASSUME NEW i \in DOMAIN w.areas, d \in members[w.areas[i]]
          PROVE  d \in v.found \/ \E k \in DOMAIN v.areas : d \in members[v.areas[k]]
      <4>1. CASE i = 1
        BY <1>1, <2>3, <2>4, <2>5, <3>3, <4>1
      <4>2. CASE i # 1
        <5>1. i - 1 \in DOMAIN v.areas /\ v.areas[i - 1] = w.areas[i]
          BY <1>1, <2>3, <4>2
        <5> QED BY <3>3, <5>1
      <4> QED BY <4>1, <4>2
    <3> QED BY <3>1, <3>2, <3>3
  <2>6. v.total # Total(Head(v.areas)) \/ v.seen \subseteq members[Head(v.areas)]
    BY <2>3
  <2>7. Covers(v)
    BY <2>3, <2>5 DEF Covers
  <2> QED BY <2>2, <2>7 DEF v, a
<1>9. CASE ~ AreaDone(w, a)
  <2>1. v = [w EXCEPT !.page = w.page + 1, !.seen = seen, !.total = Total(a)]
    BY <1>6, <1>9
  <2>2. v \in WalkRead
    <3>1. seen \in SUBSET Device /\ w.page + 1 \in Nat
      BY <1>2 DEF WalkRead
    <3> HIDE DEF seen
    <3> QED BY <1>3, <2>1, <3>1 DEF WalkRead
  <2>3. /\ v.areas = w.areas /\ v.seen = seen /\ v.total = Total(a) /\ v.found = w.found
        /\ v.stayed = w.stayed /\ v.edits = w.edits /\ v.moved = w.moved
    BY <2>1 DEF WalkRead
  <2>4. v.total # None
    BY <1>3, <2>3, WebAssumption
  <2>5. Covers(v)
    BY <1>2, <1>5, <2>3, <2>4 DEF Covers, a
  <2> QED BY <2>2, <2>5 DEF v, a
<1> QED BY <1>8, <1>9

\* A walk begins with all areas before it.
LEMMA WalkCovers ==
    ASSUME members \in [Area -> SUBSET Device], NEW order \in Bijection(1..Cardinality(Area), Area)
    PROVE  Walk(order) \in WalkRead /\ Covers(Walk(order))
<1>1. Cardinality(Area) \in Nat
  BY WebAssumption, FS_CardinalityType
<1>2. order \in [1..Cardinality(Area) -> Area] /\ \A a \in Area : \E i \in 1..Cardinality(Area) : order[i] = a
  BY DEF Bijection, Surjection, Injection
<1>3. order \in Seq(Area) /\ DOMAIN order = 1..Cardinality(Area)
  BY <1>1, <1>2
<1>4. UNION {members[a] : a \in Area} \subseteq Device
  OBVIOUS
<1> DEFINE w == Walk(order)
<1>5. w \in WalkRead
  BY <1>3, <1>4 DEF Walk, WalkRead
<1>6. w.areas = order /\ w.seen = {} /\ w.total = None /\ w.stayed = UNION {members[a] : a \in Area}
  BY DEF Walk
<1> HIDE DEF w
<1>7. \A d \in w.stayed : \E i \in DOMAIN w.areas : d \in members[w.areas[i]]
  BY <1>2, <1>3, <1>6
<1>8. Covers(w)
  BY <1>6, <1>7 DEF Covers
<1> QED BY <1>5, <1>8 DEF w

\* A walk during which a device moved.
LEMMA MoveOf ==
    ASSUME NEW w \in WalkRead, NEW v, Walking(w), v = Meanwhile(w, {}, TRUE)
    PROVE  v \in WalkRead /\ v.moved
<1>1. v = [w EXCEPT !.stayed = w.stayed \ {}, !.edits = w.edits + 1, !.moved = w.moved \/ TRUE]
  BY DEF Meanwhile, Walking
<1>2. w.stayed \ {} \in SUBSET Device /\ w.edits + 1 \in Nat /\ (w.moved \/ TRUE) = TRUE
  BY DEF WalkRead
<1>3. v = [w EXCEPT !.stayed = w.stayed \ {}, !.edits = w.edits + 1, !.moved = TRUE]
  BY <1>1, <1>2
<1> QED BY <1>2, <1>3 DEF WalkRead

\* A device that comes or goes changes the total of its area.
LEMMA TotalsChange ==
    ASSUME members \in [Area -> SUBSET Device], NEW a \in Area, NEW d \in Device,
           \/ d \notin members[a] /\ members' = [members EXCEPT ![a] = @ \cup {d}]
           \/ d \in members[a] /\ members' = [members EXCEPT ![a] = @ \ {d}]
    PROVE  /\ Total(a)' # Total(a) /\ Total(a)' \in Nat
           /\ \A b \in Area : b # a => members'[b] = members[b] /\ Total(b)' = Total(b)
<1>1. IsFiniteSet(members[a]) /\ Cardinality(members[a]) \in Nat
  BY TotalOf DEF Total
<1>2. CASE d \notin members[a] /\ members' = [members EXCEPT ![a] = @ \cup {d}]
  <2>1. members'[a] = members[a] \cup {d}
    BY <1>2
  <2>2. Cardinality(members[a] \cup {d}) = Cardinality(members[a]) + 1
    BY <1>1, <1>2, FS_AddElement
  <2> QED BY <1>1, <1>2, <2>1, <2>2 DEF Total
<1>3. CASE d \in members[a] /\ members' = [members EXCEPT ![a] = @ \ {d}]
  <2>1. members'[a] = members[a] \ {d}
    BY <1>3
  <2>2. Cardinality(members[a] \ {d}) = Cardinality(members[a]) - 1 /\ IsFiniteSet(members[a] \ {d})
    BY <1>1, <1>3, FS_RemoveElement
  <2>3. Cardinality(members[a] \ {d}) \in Nat
    BY <2>2, FS_CardinalityType
  <2> QED BY <1>1, <1>3, <2>1, <2>2, <2>3 DEF Total
<1> QED BY <1>2, <1>3

\* Devices come, go and move while a walk is in progress.
LEMMA EditKeeps ==
    ASSUME Steady, EditDevices
    PROVE  Steady'
<1>1. members \in [Area -> SUBSET Device] /\ (Walking(op) => op \in WalkRead /\ Covers(op))
      /\ result' = result
  BY DEF Steady, EditDevices
<1>2. SteadyCoverage'
  BY <1>1 DEF Steady, SteadyCoverage, Walked
<1>3. ASSUME NEW a \in Area, NEW d \in Device, NEW removed,
             \/ /\ d \notin members[a] /\ removed = {}
                /\ members' = [members EXCEPT ![a] = @ \cup {d}]
             \/ /\ d \in members[a] /\ removed = {d}
                /\ members' = [members EXCEPT ![a] = @ \ {d}],
             op' = Meanwhile(op, removed, FALSE)
      PROVE  Steady'
  <2>1. members' \in [Area -> SUBSET Device]
    BY <1>1, <1>3
  <2>2. \A b \in Area : members[b] \ removed \subseteq members'[b]
    BY <1>1, <1>3
  <2>3. /\ Cardinality(members'[a]) # Total(a) /\ Cardinality(members'[a]) \in Nat
        /\ \A b \in Area : b # a => members'[b] = members[b] /\ Cardinality(members'[b]) = Total(b)
    BY <1>1, <1>3, TotalsChange DEF Total
  <2>4. CASE ~ Walking(op)
    <3>1. op' = op
      BY <1>3, <2>4 DEF Meanwhile, Walking
    <3> QED BY <1>2, <2>1, <2>4, <3>1 DEF Steady, Walking
  <2>5. CASE Walking(op)
    <3>1. op \in WalkRead /\ Covers(op)
      BY <1>1, <2>5
    <3>2. /\ op' \in WalkRead /\ op'.areas = op.areas /\ op'.seen = op.seen /\ op'.total = op.total
          /\ op'.found = op.found /\ op'.stayed = op.stayed \ removed /\ op'.edits = op.edits + 1
          /\ op'.moved = op.moved
      <4>1. op' = Meanwhile(op, removed, FALSE) /\ op \in WalkRead
        BY <1>3, <3>1
      <4>2. op' = [op EXCEPT !.stayed = op.stayed \ removed, !.edits = op.edits + 1,
                             !.moved = op.moved \/ FALSE]
        BY <2>5, <4>1 DEF Meanwhile, Walking
      <4>3. /\ op.stayed \ removed \in SUBSET Device /\ op.edits + 1 \in Nat
            /\ (op.moved \/ FALSE) = op.moved
        BY <4>1 DEF WalkRead
      <4>4. op' = [op EXCEPT !.stayed = op.stayed \ removed, !.edits = op.edits + 1,
                             !.moved = op.moved]
        BY <4>2, <4>3
      <4> QED BY <4>1, <4>3, <4>4 DEF WalkRead
    <3>3. /\ op.edits \in Nat /\ op.areas \in Seq(Area) /\ op.stayed \subseteq Device
          /\ op.areas # <<>> => Head(op.areas) \in Area
          /\ \A i \in DOMAIN op.areas : op.areas[i] \in Area
      BY <3>1 DEF WalkRead
    <3>4. ASSUME op'.edits <= 1, ~ op'.moved
          PROVE  /\ \A e \in op'.stayed : e \in op'.found
                                           \/ \E i \in DOMAIN op'.areas : e \in members'[op'.areas[i]]
                 /\ op'.areas # <<>> =>
                      /\ op'.total = None => op'.seen = {}
                      /\ op'.total = Cardinality(members'[Head(op'.areas)]) => op'.seen \subseteq members'[Head(op'.areas)]
                      /\ op'.edits # 0
      <4>1. op.edits = 0 /\ ~ op.moved
        BY <3>2, <3>3, <3>4
      <4>2. \A e \in op'.stayed : e \in op'.found \/ \E i \in DOMAIN op'.areas : e \in members'[op'.areas[i]]
        <5> SUFFICES ASSUME NEW e \in op'.stayed
                     PROVE  e \in op'.found \/ \E i \in DOMAIN op'.areas : e \in members'[op'.areas[i]]
          OBVIOUS
        <5>1. e \in op.stayed /\ e \notin removed
          BY <3>2
        <5>2. e \in op.found \/ \E i \in DOMAIN op.areas : e \in members[op.areas[i]]
          BY <3>1, <4>1, <5>1 DEF Covers
        <5> QED BY <2>2, <3>2, <3>3, <5>1, <5>2
      <4>3. ASSUME op.areas # <<>>
            PROVE  /\ op.total = None => op.seen = {}
                   /\ op.total = Total(Head(op.areas)) => op.seen \subseteq members[Head(op.areas)]
                   /\ op.total \in {None, Total(Head(op.areas))}
        BY <3>1, <4>1, <4>3 DEF Covers
      <4>4. ASSUME op.areas # <<>>, op.total = Cardinality(members'[Head(op.areas)])
            PROVE  op.seen \subseteq members'[Head(op.areas)]
        <5>1. CASE Head(op.areas) = a
          BY <2>3, <3>3, <4>3, <4>4, <5>1, WebAssumption
        <5>2. CASE Head(op.areas) # a
          <6>1. members'[Head(op.areas)] = members[Head(op.areas)]
                /\ Cardinality(members'[Head(op.areas)]) = Total(Head(op.areas))
            BY <2>3, <3>3, <4>4, <5>2
          <6> QED BY <4>3, <4>4, <6>1
        <5> QED BY <5>1, <5>2
      <4> QED BY <3>2, <3>3, <4>1, <4>2, <4>3, <4>4
    <3>5. Covers(op)'
      BY <3>2, <3>4 DEF Covers, Total
    <3> QED BY <1>2, <2>1, <3>2, <3>5 DEF Steady
  <2> QED BY <2>4, <2>5
<1>4. ASSUME NEW a \in Area, NEW b \in Area, NEW d \in Device,
             members' = [members EXCEPT ![a] = @ \ {d}, ![b] = @ \cup {d}],
             op' = Meanwhile(op, {}, TRUE)
      PROVE  Steady'
  <2>1. members' \in [Area -> SUBSET Device]
    BY <1>1, <1>4
  <2>2. CASE ~ Walking(op)
    <3>1. op' = op
      BY <1>4, <2>2 DEF Meanwhile, Walking
    <3> QED BY <1>2, <2>1, <2>2, <3>1 DEF Steady, Walking
  <2>3. CASE Walking(op)
    <3>1. op' \in WalkRead /\ op'.moved
      BY <1>1, <1>4, <2>3, MoveOf
    <3>2. Covers(op)'
      BY <3>1 DEF Covers
    <3> QED BY <1>2, <2>1, <3>1, <3>2 DEF Steady
  <2> QED BY <2>2, <2>3
<1> QED BY <1>3, <1>4 DEF EditDevices

\* A read of the web API.
LEMMA ReadKeeps ==
    ASSUME Steady, WebRead \/ WebRows \/ WebLogin \/ WebClose \/ EditChannels
    PROVE  Steady'
<1>1. members' = members
  BY DEF WebRead, StatusesBegin, StatusesPage, StatusesEnd, ChannelsBegin, ChannelsEnd, WebRows,
         ReadRows, ListLogs, WebLogin, WebClose, EditChannels, serverVars
<1>2. members \in [Area -> SUBSET Device] /\ SteadyCoverage /\ (Walking(op) => op \in WalkRead /\ Covers(op))
  BY DEF Steady
<1>3. ASSUME result' = result \/ ~ Walking(result)',
             op' = op \/ ~ Walking(op)'
      PROVE  Steady'
  <2>1. SteadyCoverage'
    BY <1>2, <1>3 DEF SteadyCoverage, Walked, Walking
  <2>2. CASE op' = op
    <3>1. Covers(op) => Covers(op)'
      BY <1>1, <2>2 DEF Covers, Total
    <3> QED BY <1>1, <1>2, <2>1, <2>2, <3>1 DEF Steady, Walking
  <2>3. CASE ~ Walking(op)'
    BY <1>1, <1>2, <2>1, <2>3 DEF Steady
  <2> QED BY <1>3, <2>2, <2>3
<1>4. ASSUME Walking(op)', result' = result, op' \in WalkRead, Covers(op')
      PROVE  Steady'
  <2>1. Covers(op)'
    BY <1>1, <1>4 DEF Covers, Total
  <2>2. SteadyCoverage'
    BY <1>2, <1>4 DEF SteadyCoverage, Walked
  <2> QED BY <1>1, <1>2, <1>4, <2>1, <2>2 DEF Steady
<1>5. Raise => ~ Walking(op)' /\ ~ Walking(result)'
  BY DEF Raise, Walking
<1>6. CASE StatusesBegin
  <2>1. CASE Raise
    BY <1>3, <1>5, <2>1
  <2>2. ASSUME NEW order \in Bijection(1..Cardinality(Area), Area), op' = Walk(order), result' = result
        PROVE  Steady'
    <3>1. Walk(order).kind = "walk"
      BY DEF Walk
    <3>2. Walk(order) \in WalkRead /\ Covers(Walk(order))
      BY <1>2, WalkCovers
    <3> QED BY <1>3, <1>4, <2>2, <3>2
  <2> QED BY <1>6, <2>1, <2>2 DEF StatusesBegin
<1>7. CASE StatusesPage
  <2>1. CASE Raise
    BY <1>3, <1>5, <2>1
  <2>2. ASSUME ~ PageFails(op, Head(op.areas)), op' = AfterPage(op, Head(op.areas)), result' = result
        PROVE  Steady'
    <3>1. Walking(op) /\ op.areas # <<>>
      BY <1>7 DEF StatusesPage, Walking
    <3>2. op' \in WalkRead /\ Covers(op')
      BY <1>2, <2>2, <3>1, PageCovers
    <3> QED BY <1>3, <1>4, <2>2, <3>2
  <2> QED BY <1>7, <2>1, <2>2 DEF StatusesPage
<1>8. CASE StatusesEnd
  <2>1. Walking(op) /\ op.areas = <<>> /\ op' = None /\ result' = op
    BY <1>8 DEF StatusesEnd, Walking, Return
  <2>2. op.edits <= 1 /\ ~ op.moved => op.stayed \subseteq op.found
    BY <1>2, <2>1 DEF Covers
  <2>3. SteadyCoverage'
    BY <2>1, <2>2 DEF SteadyCoverage
  <2> QED BY <1>1, <1>2, <2>1, <2>3 DEF Steady, Walking
<1>9. CASE ChannelsBegin
  <2>1. Raise \/ (op' = [kind |-> "channels", known |-> Known] /\ result' = result)
    BY <1>9 DEF ChannelsBegin
  <2>2. [kind |-> "channels", known |-> Known].kind # "walk"
    OBVIOUS
  <2> QED BY <1>3, <1>5, <2>1, <2>2 DEF Walking
<1>10. CASE ChannelsEnd
  <2>1. Raise \/ (op' = None /\ result'.kind = "channels")
    BY <1>10 DEF ChannelsEnd, Return
  <2> QED BY <1>3, <1>5, <2>1 DEF Walking
<1>11. CASE WebRows
  <2>1. op' = op /\ (result' = None \/ result'.kind = "rows")
    BY <1>11 DEF WebRows, ReadRows, ListLogs
  <2> QED BY <1>3, <2>1 DEF Walking
<1>12. CASE WebLogin \/ WebClose \/ EditChannels
  <2>1. op' = op /\ (result' = None \/ result' = result)
    BY <1>12 DEF WebLogin, WebClose, EditChannels
  <2> QED BY <1>3, <2>1 DEF Walking
<1> QED BY <1>6, <1>7, <1>8, <1>9, <1>10, <1>11, <1>12 DEF WebRead

\* Every step of the management client keeps what a walk has covered.
LEMMA SteadyStep == Steady /\ [MNext]_allVars => Steady'
<1> SUFFICES ASSUME Steady, [MNext]_allVars PROVE Steady'
  OBVIOUS
<1>1. ASSUME UNCHANGED webVars PROVE Steady'
  <2>1. result' = result /\ members' = members /\ op' = op
    BY <1>1 DEF webVars
  <2>2. Covers(op) => Covers(op)'
    BY <2>1 DEF Covers, Total
  <2> QED BY <2>1, <2>2 DEF Steady, SteadyCoverage, Walked, Walking
<1>2. ASSUME WebRead \/ WebRows \/ WebLogin \/ WebClose \/ EditChannels PROVE Steady'
  BY <1>2, ReadKeeps
<1>3. CASE UNCHANGED allVars
  BY <1>1, <1>3 DEF allVars
<1>4. CASE LoginPlatform
  BY <1>1, <1>4 DEF LoginPlatform, Platform
<1>5. CASE LoginWeb
  BY <1>2, <1>5 DEF LoginWeb
<1>6. CASE LoginSdk
  BY <1>1, <1>6 DEF LoginSdk, NetSdk
<1>7. CASE LoginSidecar
  BY <1>1, <1>7 DEF LoginSidecar, Sidecar
<1>8. CASE Close
  BY <1>1, <1>2, <1>8 DEF Close, Platform, NetSdk, Sidecar
<1>9. CASE Operate
  BY <1>1, <1>2, <1>9 DEF Operate, CommonCall, PlatformCall, Platform, NetSdk
<1>10. CASE Elsewhere
  BY <1>1, <1>2, <1>10, EditKeeps DEF Elsewhere, Platform, NetSdk
<1> QED BY <1>3, <1>4, <1>5, <1>6, <1>7, <1>8, <1>9, <1>10 DEF MNext

\* A walk of the web API that returns while at most one device came or went reports
\* every device that stayed.
THEOREM CoverageCorrect == MSpec => []SteadyCoverage
<1>1. MInit => Steady
  <2> SUFFICES ASSUME MInit PROVE Steady
    OBVIOUS
  <2>1. op = None /\ result = None
    BY DEF MInit, WebInit
  <2>2. members \in [Area -> SUBSET Device]
    BY DEF MInit, WebInit
  <2> QED BY <2>1, <2>2 DEF Steady, SteadyCoverage, Walked, Walking
<1>2. Steady => SteadyCoverage
  BY DEF Steady
<1> QED BY <1>1, <1>2, SteadyStep, PTL DEF MSpec
=============================================================================
