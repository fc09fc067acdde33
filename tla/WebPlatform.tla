----------------------------- MODULE WebPlatform -----------------------------
(* The web back end of the management server: WebSession (web_session.py), one
   authenticated HTTP session, and WebManagementBackend (web_backend.py), which
   reads through it.  A session ends without notice (HTTP 408); the next request
   runs the handshake again, once, and is retried once.  Reads that take several
   requests see the server change between them.                              *)
EXTENDS Integers, Sequences, FiniteSets, Functions, Nothing

CONSTANTS Area,      \* root areas
          Device,    \* devices, listed in the order of the integers
          Channel,
          MaxPages,  \* pages read per area at most (100 in the code)
          MaxEdits   \* changes of the server during the run

ASSUME WebAssumption ==
    /\ Device \subseteq Nat /\ None \notin Nat
    /\ IsFiniteSet(Area) /\ IsFiniteSet(Device)
    /\ MaxPages \in Nat \ {0} /\ MaxEdits \in Nat

VARIABLES
    session,   \* token of _session: None or live; "absent" without one
    caches,    \* the log dictionaries held: subset of {sections, names}
    members,   \* area -> its devices, on the server
    channels,  \* channel -> absent, off or on, on the server
    edits,     \* number of changes so far
    op,        \* the read in progress, or None
    result     \* what the last read returned, or None

webVars == <<session, caches, members, channels, edits, op, result>>
serverVars == <<members, channels, edits>>

WebInit ==
    /\ session = "absent" /\ caches = {}
    /\ members \in [Area -> SUBSET Device]
    /\ \A a, b \in Area : a # b => members[a] \cap members[b] = {}
    /\ channels \in [Channel -> {"absent", "off", "on"}]
    /\ edits = 0 /\ op = None /\ result = None

(***************************************************************************)
(* The session.                                                            *)
(***************************************************************************)

\* login: reqLogin, which changes nothing when it fails; then doLogin with the
\* staged token, which a failure takes back, but not that of the decryption of
\* the authId of a session the server has let in.
Handshakes(token) ==
    {[ok |-> FALSE, token |-> token], [ok |-> FALSE, token |-> None],
     [ok |-> FALSE, token |-> "live"], [ok |-> TRUE, token |-> "live"]}

\* _reset.
Forgotten == None

\* _post and _parse_http with parse_envelope: a status other than 200 and 408, a
\* body that is no envelope and a failed connection raise and leave the token.
Posted(token) == {[ok |-> TRUE, token |-> token], [ok |-> FALSE, token |-> token]}

\* request and request_xml: what they may return and the token they leave.
Requests(token) ==
    IF token \in {None, "absent"} THEN {[ok |-> FALSE, token |-> token]}
    ELSE Posted(token) \cup
         UNION {IF h.ok THEN Posted(h.token) ELSE {h} : h \in Handshakes(Forgotten)}

\* login of the back end: the caches are dropped first; the session it had stays
\* if the new one cannot log in.
WebLogin ==
    /\ op = None
    /\ caches' = {}
    /\ \E h \in Handshakes(None) : session' = IF h.ok THEN h.token ELSE session
    /\ result' = None
    /\ UNCHANGED <<serverVars, op>>

WebClose ==
    /\ op = None /\ session # "absent"
    /\ session' = "absent"
    /\ UNCHANGED <<caches, serverVars, op, result>>

(***************************************************************************)
(* get_device_statuses: the organisation tree, then each root area page by *)
(* page until as many devices were seen as the pages say there are.        *)
(***************************************************************************)
Page(a, i) == {d \in members[a] : Cardinality({e \in members[a] : e <= d}) = i}

Total(a) == Cardinality(members[a])

Walk(areas) == [kind |-> "walk", areas |-> areas, page |-> 1, seen |-> {}, total |-> None,
                found |-> {}, stayed |-> UNION {members[a] : a \in Area}, edits |-> 0, moved |-> FALSE]

\* Mutant: a changed total is not noticed.
PageFailsAnyTotal(w, a) ==
    \/ Page(a, w.page) \cap w.seen # {}
    \/ Page(a, w.page) = {} /\ Cardinality(w.seen) < Total(a)

\* The checks of a page: the total did not change, no device twice, no page
\* empty before the total is reached, not more than the total.
PageFails(w, a) ==
    \/ w.total \notin {None, Total(a)}
    \/ Page(a, w.page) \cap w.seen # {}
    \/ LET n == Cardinality(w.seen \cup Page(a, w.page))
       IN  n > Total(a) \/ (Page(a, w.page) = {} /\ n < Total(a))

AreaDone(w, a) == Cardinality(w.seen \cup Page(a, w.page)) = Total(a)

AfterPage(w, a) ==
    LET seen == w.seen \cup Page(a, w.page)
    IN  IF AreaDone(w, a)
          THEN [w EXCEPT !.areas = Tail(@), !.page = 1, !.seen = {}, !.total = None,
                         !.found = @ \cup seen]
          ELSE [w EXCEPT !.page = @ + 1, !.seen = seen, !.total = Total(a)]

Raise == op' = None /\ result' = None
Return(r) == op' = None /\ result' = r

StatusesBegin ==
    /\ op = None
    /\ \E r \in Requests(session) :
         /\ session' = r.token
         /\ IF r.ok
              THEN /\ \E order \in Bijection(1..Cardinality(Area), Area) : op' = Walk(order)
                   /\ UNCHANGED result
              ELSE Raise
    /\ UNCHANGED <<caches, serverVars>>

StatusesPage ==
    /\ op # None /\ op.kind = "walk" /\ op.areas # <<>>
    /\ LET a == Head(op.areas)
       IN  \E r \in Requests(session) :
             /\ session' = r.token
             /\ IF ~ r.ok \/ op.page > MaxPages \/ PageFails(op, a) THEN Raise
                ELSE op' = AfterPage(op, a) /\ UNCHANGED result
    /\ UNCHANGED <<caches, serverVars>>

StatusesEnd ==
    /\ op # None /\ op.kind = "walk" /\ op.areas = <<>>
    /\ Return(op)
    /\ UNCHANGED <<session, caches, serverVars>>

(***************************************************************************)
(* list_channels: the tree of channels, then the set of those offline,     *)
(* which must be a part of it.                                             *)
(***************************************************************************)
Known == {c \in Channel : channels[c] # "absent"}
Offline == {c \in Channel : channels[c] = "off"}

ChannelsBegin ==
    /\ op = None
    /\ \E r \in Requests(session) :
         /\ session' = r.token
         /\ IF r.ok /\ Known # {}
              THEN op' = [kind |-> "channels", known |-> Known] /\ UNCHANGED result
              ELSE Raise
    /\ UNCHANGED <<caches, serverVars>>

ChannelsEnd ==
    /\ op # None /\ op.kind = "channels"
    /\ \E r \in Requests(session) :
         /\ session' = r.token
         /\ IF r.ok /\ Offline \subseteq op.known
              THEN Return([kind |-> "channels", known |-> op.known, off |-> Offline, gone |-> op.known \ Known])
              ELSE Raise
    /\ UNCHANGED <<caches, serverVars>>

(***************************************************************************)
(* _list_logs: the types of the log dictionary, kept until the next login; *)
(* the logs; and the names of the dictionary, whose failure is no failure. *)
(***************************************************************************)
LogsTypes(ok) == IF "sections" \in caches \/ ok THEN caches \cup {"sections"} ELSE caches

ListLogs(status) ==
    /\ op = None
    /\ \E r1 \in (IF status \/ "sections" \in caches
                    THEN {[ok |-> session # "absent", token |-> session]} ELSE Requests(session)) :
         LET types == IF status THEN caches ELSE LogsTypes(r1.ok)
         IN  \E r2 \in (IF r1.ok THEN Requests(r1.token) ELSE {r1}) :
             \E r3 \in (IF r2.ok /\ "names" \notin caches THEN Requests(r2.token) ELSE {r2}) :
               /\ session' = r3.token
               /\ caches' = types \cup (IF r2.ok /\ r3.ok THEN {"names"} ELSE {})
               /\ result' = IF r2.ok THEN [kind |-> "rows"] ELSE None
    /\ UNCHANGED <<serverVars, op>>

\* The reads of one request: alarms, alarm configuration (checked against its
\* total), the statuses of servers and access control, users, roles, heartbeat.
ReadRows ==
    /\ op = None
    /\ \E r \in Requests(session) :
         /\ session' = r.token
         /\ result' = IF r.ok THEN [kind |-> "rows"] ELSE None
    /\ UNCHANGED <<caches, serverVars, op>>

(***************************************************************************)
(* The server: devices come and go and move, channels change.              *)
(***************************************************************************)
Meanwhile(w, removed, moved) ==
    IF w # None /\ w.kind = "walk"
      THEN [w EXCEPT !.stayed = @ \ removed, !.edits = @ + 1, !.moved = @ \/ moved]
      ELSE w

EditDevices ==
    /\ edits < MaxEdits /\ edits' = edits + 1
    /\ \E d \in Device :
         \/ /\ \A a \in Area : d \notin members[a]
            /\ \E a \in Area : members' = [members EXCEPT ![a] = @ \cup {d}]
            /\ op' = Meanwhile(op, {}, FALSE)
         \/ \E a \in Area :
              /\ d \in members[a]
              /\ members' = [members EXCEPT ![a] = @ \ {d}]
              /\ op' = Meanwhile(op, {d}, FALSE)
         \/ \E a, b \in Area :
              /\ d \in members[a] /\ a # b
              /\ members' = [members EXCEPT ![a] = @ \ {d}, ![b] = @ \cup {d}]
              /\ op' = Meanwhile(op, {}, TRUE)
    /\ UNCHANGED <<session, caches, channels, result>>

EditChannels ==
    /\ edits < MaxEdits /\ edits' = edits + 1
    /\ \E c \in Channel, s \in {"absent", "off", "on"} : channels' = [channels EXCEPT ![c] = s]
    /\ UNCHANGED <<session, caches, members, op, result>>

WebRead == StatusesBegin \/ StatusesPage \/ StatusesEnd \/ ChannelsBegin \/ ChannelsEnd
WebRows == ReadRows \/ ListLogs(TRUE) \/ ListLogs(FALSE)

(***************************************************************************)
(* Properties.                                                             *)
(***************************************************************************)
Walked == result # None /\ result.kind = "walk"

\* A walk that returns while at most one device came or went reports every
\* device that was there all the time.
SteadyCoverage ==
    Walked /\ result.edits <= 1 /\ ~ result.moved => result.stayed \subseteq result.found
=============================================================================
