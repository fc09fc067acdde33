----------------------------- MODULE LossyBuffer -----------------------------
(***************************************************************************)
(* What a plate-event stream promises the application that reads it: a     *)
(* bounded first-in first-out buffer that may lose events, but loses them  *)
(* only in the ways its drop policy allows, and gives each event to one    *)
(* reader at most.                                                         *)
(***************************************************************************)
EXTENDS Naturals, Sequences, FiniteSets

CONSTANTS Event,       \* the events native callbacks may bring
          Capacity,    \* max_events
          Oversize     \* events whose images exceed the whole byte budget

VARIABLES policy,  \* "oldest" or "newest": what a full buffer loses
          buf,     \* the buffered events, oldest first
          taken,   \* the events readers have taken
          lost,    \* the events counted as dropped
          phase    \* "open", "shutting" or "shut"

vars == <<policy, buf, taken, lost, phase>>

Elems(s) == {s[i] : i \in DOMAIN s}

Fresh == Event \ (Elems(buf) \cup taken \cup lost)

Init == /\ policy \in {"oldest", "newest"}
        /\ buf = <<>>
        /\ taken = {}
        /\ lost = {}
        /\ phase = "open"

\* A new event enters at the tail, while the stream is open and has room.
Accept(e) == /\ phase = "open"
             /\ e \in Fresh
             /\ Len(buf) < Capacity
             /\ buf' = Append(buf, e)
             /\ UNCHANGED <<policy, taken, lost, phase>>

\* A new event is lost.  An open DROP_OLDEST stream loses only an event that
\* could never fit.
Refuse(e) == /\ e \in Fresh
             /\ phase = "open" => (policy = "newest" \/ e \in Oversize)
             /\ lost' = lost \cup {e}
             /\ UNCHANGED <<policy, buf, taken, phase>>

\* The oldest buffered event makes room: DROP_OLDEST only, and never once the
\* stream is being closed.
Evict == /\ policy = "oldest"
         /\ phase = "open"
         /\ buf # <<>>
         /\ lost' = lost \cup {Head(buf)}
         /\ buf' = Tail(buf)
         /\ UNCHANGED <<policy, taken, phase>>

Take == /\ buf # <<>>
        /\ taken' = taken \cup {Head(buf)}
        /\ buf' = Tail(buf)
        /\ UNCHANGED <<policy, lost, phase>>

\* Closing may fail, which opens the stream again; once shut it stays shut.
Shut == /\ \/ phase = "open" /\ phase' = "shutting"
           \/ phase = "shutting" /\ phase' \in {"open", "shut"}
        /\ UNCHANGED <<policy, buf, taken, lost>>

Next == \/ \E e \in Event : Accept(e) \/ Refuse(e)
        \/ Evict
        \/ Take
        \/ Shut

Spec == Init /\ [][Next]_vars
=============================================================================
