-------------------------- MODULE PlatformInventory --------------------------
(* The pure functions behind the platform's inventory: sites (topology.py), the
   health of devices (health.py) and the framing of a captured picture
   (platform_backend.py).

   A resource list is a function from node ids, positive integers, to records
   [type, parent, online]; parent 0 is none, and a parent need not be in the
   list, nor be above its child: what the server sends is not checked.       *)
EXTENDS Integers, Sequences, FiniteSets, SequencesExt

ResourceList(res) ==
    /\ IsFiniteSet(DOMAIN res) /\ DOMAIN res \subseteq Nat \ {0}
    /\ \A n \in DOMAIN res : res[n].parent \in Nat /\ res[n].online \in BOOLEAN

OfType(res, t) == {n \in DOMAIN res : res[n].type = t}
Areas(res) == OfType(res, "area")
Devices(res) == OfType(res, "device")
Channels(res) == OfType(res, "channel")

\* A site root is an area whose parent is no area.
SiteRootsAtTop(res) == {a \in Areas(res) : res[a].parent = 0}  \* mutant
SiteRoots(res) == {a \in Areas(res) : res[a].parent \notin Areas(res)}

\* The walks up from a node stop at 0, at a node seen before and at their goal; what
\* is above a node is a function up, and 0 is above a node outside of it.
Walk(start, goal, up) ==
    LET bound == Cardinality(DOMAIN up) + 1
        walk[k \in 0..bound] ==
            IF k = 0 THEN [at |-> start, seen |-> {}]
            ELSE LET s == walk[k - 1]
                 IN  IF s.at = 0 \/ s.at \in s.seen \/ s.at \in goal THEN s
                     ELSE [at   |-> IF s.at \in DOMAIN up THEN up[s.at] ELSE 0,
                           seen |-> s.seen \cup {s.at}]
    IN  IF walk[bound].at \in goal THEN walk[bound].at ELSE 0

\* Walks go through the nodes of S; one that is its own parent ends them.
Up(res, S) == [n \in S |-> IF res[n].parent = n THEN 0 ELSE res[n].parent]

\* _nearest_area, from the parent of a node.
NearestArea(res, n) == Walk(res[n].parent, Areas(res), Up(res, DOMAIN res))

\* _find_site_root, through areas only.
FindSiteRoot(res, a) == Walk(a, SiteRoots(res), Up(res, Areas(res)))

ViaArea(res, n) ==
    LET a == NearestArea(res, n) IN IF a = 0 THEN 0 ELSE FindSiteRoot(res, a)

\* build_site_topology: site 0 is the synthetic one of the orphans.  A channel
\* is where its device is, and else where its own areas are.
SiteOf(res, n) ==
    IF n \in Channels(res) /\ res[n].parent \in Devices(res) /\ ViaArea(res, res[n].parent) # 0
      THEN ViaArea(res, res[n].parent)
      ELSE ViaArea(res, n)

Sites(res) ==
    [s \in SiteRoots(res) \cup {0} |-> {n \in Devices(res) \cup Channels(res) : SiteOf(res, n) = s}]

(***************************************************************************)
\* compute_device_health: the channels are those the device is the parent of.
ChannelsOf(res, d) == {c \in Channels(res) : res[c].parent = d}

Health(res, d, events) ==
    LET all == ChannelsOf(res, d)
        up  == {c \in all : res[c].online}
    IN  IF ~ res[d].online \/ (all # {} /\ up = {}) THEN "OFFLINE"
        ELSE IF up # all \/ d \in events THEN "DEGRADED"
        ELSE "ONLINE"

\* What is reported with it, also when it does not decide the health.
Issues(res, d, events, servers) ==
    {i \in {"device_offline", "channels_offline", "alarm_events", "server_offline"} :
       CASE i = "device_offline"   -> ~ res[d].online
         [] i = "channels_offline" -> \E c \in ChannelsOf(res, d) : ~ res[c].online
         [] i = "alarm_events"     -> d \in events
         [] i = "server_offline"   -> d \in servers}

\* The summary of get_platform_inventory_snapshot.
Summary(res, events) ==
    [status \in {"ONLINE", "DEGRADED", "OFFLINE"} |->
        Cardinality({d \in Devices(res) : Health(res, d, events) = status})]

(***************************************************************************)
\* _normalize_captured_jpeg over a picture given as a sequence of markers "soi" and
\* "eoi", padding "nul" and other data: the picture without the padding of its
\* buffer, or <<>> for one that is refused.
StripNul(img) ==
    LET kept == {i \in DOMAIN img : img[i] # "nul"}
    IN  IF kept = {} THEN <<>> ELSE SubSeq(img, 1, CHOOSE i \in kept : \A j \in kept : j <= i)

NormalizeJpeg(img) ==
    LET s == StripNul(img)
    IN  IF s # <<>> /\ Head(s) = "soi" /\ Last(s) = "eoi" THEN s ELSE <<>>

(***************************************************************************)
(* Reference definitions.                                                  *)
(***************************************************************************)
\* What is above a node: the least set that has its parent and the parents of its
\* members, as far as they are in the list.
UpwardClosed(res, n, S) == \A m \in {n} \cup S : res[m].parent \in DOMAIN res => res[m].parent \in S
Ancestors(res, n) == {a \in DOMAIN res : \A S \in SUBSET DOMAIN res : UpwardClosed(res, n, S) => a \in S}
=============================================================================
