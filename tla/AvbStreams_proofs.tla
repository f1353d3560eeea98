--------------------------- MODULE AvbStreams_proofs ---------------------------
(***************************************************************************)
(* For any number of sources, sinks, inputs and VLANs, and any choice of   *)
(* the application and the network: every handler leaves the tables of     *)
(* avb.c, the units, the VLANs and the router in agreement.                *)
(*                                                                         *)
(* An operation maps a device to a device, so the invariant is a predicate *)
(* of one, and it is the operations that are shown to keep it.             *)
(***************************************************************************)
EXTENDS AvbStreams, FiniteSetTheorems, WellFoundedInduction, TLAPS

\* What is switched off is off in every unit.
IsOff(d) ==
  /\ \A s \in Source : ~SourceOn(d, s) => d.talker[s].active # 2 /\ s \notin d.advertised
  /\ \A k \in Sink : ~SinkOn(d, k) => k \notin d.unit /\ k \notin d.listening

\* An input is mapped only to a source that is on and has it in its map.
MappedIsOn(d) ==
  \A i \in Input : d.mapped[i] # Unmapped =>
    SourceOn(d, d.mapped[i]) /\ i \in d.source[d.mapped[i]].map

\* A source that sends is in the shaper's bandwidth.
IsShaped(d) == \A s \in Source : d.talker[s].active = 2 => s \in d.shaped

\* A source that was configured and not robbed has the inputs of its map, and these
\* are what it sends.
HoldsItsMap(d) ==
  /\ \A s \in d.robbed : SourceOn(d, s)
  /\ \A s \in Source : Holds(d, s) =>
       /\ d.talker[s].inputs = d.source[s].map
       /\ \A i \in d.source[s].map : d.mapped[i] = s

\* A stream that is configured is on, and a source's talker has its address.
LiveIsOn(d) ==
  /\ \A s \in Source : <<"source", s>> \in d.live =>
       SourceOn(d, s) /\ d.talker[s].dest = d.source[s].dest
  /\ \A k \in Sink : <<"sink", k>> \in d.live => SinkOn(d, k)

\* The VLANs of the streams that have not lost theirs are joined.
VlanIsJoined(d) ==
  \A x \in d.live \ d.stranded : VlanOf(d, x) # 0 => Joined(d, VlanOf(d, x))

\* A VLAN has one entry.
OneEntry(d) ==
  \A e, f \in Entry : d.vlan[e].active /\ d.vlan[f].active /\ d.vlan[e].vlan = d.vlan[f].vlan
    => e = f

\* The route of a sink that receives is the one of its stream.
IsRouted(d) == \A k \in d.unit : d.route[k] = d.sink[k].id

\* A device the handlers leave behind.
Sound(d) ==
  /\ d \in Device /\ d.stranded \subseteq d.live /\ d.advertised \subseteq d.begun
  /\ d.live \subseteq Stream
  /\ IsOff(d) /\ MappedIsOn(d) /\ IsShaped(d) /\ HoldsItsMap(d)
  /\ LiveIsOn(d) /\ VlanIsJoined(d) /\ OneEntry(d) /\ IsRouted(d)

\* In the demo, the address ACMP was told last is the source's unless it was refused.
Tells(d) == \A s \in Source \ d.moved : d.source[s].dest = d.told[s]

IInv ==
  /\ Sound(dev)
  /\ chosen \in Scenario /\ link \in BOOLEAN
  /\ chosen.demo => Tells(dev)

-----------------------------------------------------------------------------
(***************************************************************************)
(* Runs of a handler over the streams in turn, and the least and greatest  *)
(* of a finite range.                                                      *)
(***************************************************************************)
LEMMA Least ==
  ASSUME NEW T \in SUBSET Nat, T # {}
  PROVE  \E x \in T : \A y \in T : x <= y
<1>1. \E x \in T : \A y \in T : ~ (<<y, x>> \in OpToRel(<, Nat))
  BY NatLessThanWellFounded, WFMin
<1>2. PICK x \in T : \A y \in T : ~ (<<y, x>> \in OpToRel(<, Nat))
  BY <1>1
<1>3. \A y \in T : ~(y < x)
  BY <1>2 DEF OpToRel
<1> QED
  BY <1>3

LEMMA MinIsIn ==
  ASSUME NEW n \in Nat, NEW T \in SUBSET (1 .. n), T # {}
  PROVE  Min(T) \in T /\ \A y \in T : Min(T) <= y
<1>1. \E x \in T : \A y \in T : x <= y
  <2>1. T \in SUBSET Nat
    OBVIOUS
  <2> QED
    BY <2>1, Least
<1> QED
  BY <1>1 DEF Min

LEMMA MaxIsIn ==
  ASSUME NEW n \in Nat, NEW T \in SUBSET (1 .. n), T # {}
  PROVE  Max(T) \in T
<1> DEFINE U == {n - x : x \in T}
<1>1. U \in SUBSET Nat /\ U # {}
  <2>1. \A x \in T : n - x \in Nat
    OBVIOUS
  <2>2. PICK x \in T : TRUE
    OBVIOUS
  <2>3. n - x \in U
    BY <2>2
  <2> QED
    BY <2>1, <2>3
<1> HIDE DEF U
<1>2. PICK u \in U : \A v \in U : u <= v
  BY <1>1, Least
<1>3. PICK x \in T : u = n - x
  BY <1>2 DEF U
<1>4. \A y \in T : x >= y
  <2> TAKE y \in T
  <2>1. n - y \in U /\ x \in 1 .. n /\ y \in 1 .. n
    BY DEF U
  <2> QED
    BY <1>2, <1>3, <2>1
<1> QED
  BY <1>4 DEF Max

LEMMA SetInduction ==
  ASSUME NEW S, 0 \in S, \A n \in Nat : n \in S => n + 1 \in S
  PROVE  Nat \subseteq S
<1> SUFFICES ASSUME Nat \ S # {} PROVE FALSE
  OBVIOUS
<1>1. PICK x \in Nat \ S : \A y \in Nat \ S : x <= y
  <2> DEFINE T == Nat \ S
  <2>1. T \in SUBSET Nat /\ T # {}
    OBVIOUS
  <2> HIDE DEF T
  <2>2. \E x \in T : \A y \in T : x <= y
    BY <2>1, Least
  <2> QED
    BY <2>2 DEF T
<1>2. x - 1 \in Nat /\ x - 1 \in S
  BY <1>1
<1>3. x - 1 + 1 \in S
  BY <1>2
<1> QED
  BY <1>1, <1>3

\* There is a run of the steps G from d, and it stays in D.
IsRun(f, N, d, G) == f[0] = d /\ \A s \in 1 .. N : f[s] = G[<<s, f[s - 1]>>]

LEMMA RunExists ==
  ASSUME NEW N \in Nat, NEW D, NEW d \in D, NEW G,
         \A s \in 1 .. N, x \in D : G[<<s, x>>] \in D
  PROVE  \E f \in [0 .. N -> D] : IsRun(f, N, d, G)
<1> DEFINE S == {n \in Nat : n <= N => \E f \in [0 .. N -> D] : IsRun(f, n, d, G)}
<1>1. 0 \in S
  <2>1. [s \in 0 .. N |-> d] \in [0 .. N -> D] /\ IsRun([s \in 0 .. N |-> d], 0, d, G)
    BY DEF IsRun
  <2> QED
    BY <2>1
<1>2. ASSUME NEW n \in Nat, n \in S, n + 1 <= N
      PROVE  \E f \in [0 .. N -> D] : IsRun(f, n + 1, d, G)
  <2>1. PICK f \in [0 .. N -> D] : IsRun(f, n, d, G)
    BY <1>2
  <2> DEFINE g == [f EXCEPT ![n + 1] = G[<<n + 1, f[n]>>]]
  <2>2. G[<<n + 1, f[n]>>] \in D
    BY <1>2, <2>1
  <2>3. g \in [0 .. N -> D] /\ g[n + 1] = G[<<n + 1, f[n]>>] /\ \A s \in 0 .. n : g[s] = f[s]
    BY <1>2, <2>1, <2>2
  <2> HIDE DEF g
  <2>4. \A s \in 1 .. n : g[s] = G[<<s, g[s - 1]>>]
    BY <2>1, <2>3 DEF IsRun
  <2>5. g[n + 1] = G[<<n + 1, g[n + 1 - 1]>>]
    BY <2>3
  <2>6. g[0] = d
    BY <2>1, <2>3 DEF IsRun
  <2>7. \A s \in 1 .. n + 1 : g[s] = G[<<s, g[s - 1]>>]
    <3>1. \A s \in 1 .. n + 1 : s \in 1 .. n \/ s = n + 1
      OBVIOUS
    <3> QED
      BY <2>4, <2>5, <3>1
  <2>8. IsRun(g, n + 1, d, G)
    BY <2>6, <2>7 DEF IsRun
  <2> QED
    BY <2>3, <2>8
<1>3. \A n \in Nat : n \in S => n + 1 \in S
  <2> SUFFICES ASSUME NEW n \in Nat, n \in S PROVE n + 1 \in S
    OBVIOUS
  <2>1. n + 1 <= N => \E f \in [0 .. N -> D] : IsRun(f, n + 1, d, G)
    BY <1>2
  <2> QED
    BY <2>1
<1> HIDE DEF S
<1>4. N \in S
  BY <1>1, <1>3, SetInduction
<1>5. N <= N => \E f \in [0 .. N -> D] : IsRun(f, N, d, G)
  BY <1>4 DEF S
<1> QED
  BY <1>5

\* What every step keeps holds at the end of the run.
LEMMA RunStays ==
  ASSUME NEW N \in Nat, NEW D, NEW f, f[0] \in D,
         \A s \in 1 .. N : f[s - 1] \in D => f[s] \in D
  PROVE  f[N] \in D
<1> DEFINE S == {n \in Nat : n <= N => f[n] \in D}
<1>1. 0 \in S
  OBVIOUS
<1>2. \A n \in Nat : n \in S => n + 1 \in S
  <2> SUFFICES ASSUME NEW n \in Nat, n \in S, n + 1 <= N PROVE f[n + 1] \in D
    OBVIOUS
  <2>1. f[n + 1 - 1] \in D
    OBVIOUS
  <2> QED
    BY <2>1
<1> HIDE DEF S
<1>3. N \in S
  BY <1>1, <1>2, SetInduction
<1> QED
  BY <1>3 DEF S

LEMMA StreamNumbers ==
  /\ Cardinality(Source) \in Nat /\ Source = 1 .. Cardinality(Source)
  /\ Cardinality(Sink) \in Nat /\ Sink = 1 .. Cardinality(Sink)
BY StreamsAssumption, FS_CardinalityType

-----------------------------------------------------------------------------
(***************************************************************************)
(* The VLAN entries.                                                       *)
(***************************************************************************)
\* The two devices differ at most in their VLANs and in what is live.
SameUnits(c, d) ==
  /\ c.source = d.source /\ c.mapped = d.mapped /\ c.talker = d.talker
  /\ c.sink = d.sink /\ c.unit = d.unit /\ c.route = d.route
  /\ c.begun = d.begun /\ c.advertised = d.advertised /\ c.listening = d.listening
  /\ c.shaped = d.shaped /\ c.told = d.told /\ c.answering = d.answering
  /\ c.moved = d.moved /\ c.robbed = d.robbed

EntryType == [active : BOOLEAN, vlan : Vlan, member : {"out", "in", "leaving"}]

LEMMA EntryForIsEntry ==
  ASSUME NEW d \in Device, NEW v
  PROVE  /\ EntryFor(d, v) \in Entry \union {0}
         /\ EntryFor(d, v) # 0 =>
              LET e == EntryFor(d, v) IN
              \/ e \in EntriesOf(d, v)
              \/ EntriesOf(d, v) = {} /\ (~d.vlan[e].active \/ d.vlan[e].member = "out")
<1> DEFINE spare == {e \in Entry : ~d.vlan[e].active}
           idle == {e \in Entry : d.vlan[e].member = "out"}
           own == EntriesOf(d, v)
<1>1. MaxVlan \in Nat /\ own \in SUBSET (1 .. MaxVlan) /\ spare \in SUBSET (1 .. MaxVlan)
      /\ idle \in SUBSET (1 .. MaxVlan) /\ Entry = 1 .. MaxVlan
  BY StreamsAssumption DEF Entry, EntriesOf
<1>2. EntryFor(d, v) = IF own # {} THEN Max(own)
                       ELSE IF spare # {} THEN Min(spare)
                       ELSE IF idle # {} THEN Min(idle)
                       ELSE 0
  BY DEF EntryFor
<1>3. CASE own # {}
  <2>1. Max(own) \in own
    BY <1>1, <1>3, MaxIsIn
  <2> QED
    BY <1>1, <1>2, <1>3, <2>1
<1>4. CASE own = {} /\ spare # {}
  <2>1. Min(spare) \in spare
    BY <1>1, <1>4, MinIsIn
  <2> QED
    BY <1>1, <1>2, <1>4, <2>1
<1>5. CASE own = {} /\ spare = {} /\ idle # {}
  <2>1. Min(idle) \in idle
    BY <1>1, <1>5, MinIsIn
  <2> QED
    BY <1>1, <1>2, <1>5, <2>1
<1>6. CASE own = {} /\ spare = {} /\ idle = {}
  BY <1>2, <1>6
<1> QED
  BY <1>3, <1>4, <1>5, <1>6

LEMMA DeviceVlan ==
  ASSUME NEW d \in Device
  PROVE  /\ d.vlan \in [Entry -> EntryType]
         /\ \A V \in [Entry -> EntryType] :
              /\ [d EXCEPT !.vlan = V] \in Device /\ SameUnits([d EXCEPT !.vlan = V], d)
              /\ [d EXCEPT !.vlan = V].vlan = V
              /\ [d EXCEPT !.vlan = V].live = d.live
              /\ [d EXCEPT !.vlan = V].stranded = d.stranded
BY DEF Device, SameUnits, EntryType

\* Joining a VLAN takes no other VLAN's entry that is in use.
LEMMA JoinVlanIs ==
  ASSUME NEW d \in Device, NEW v \in Vlan, OneEntry(d)
  PROVE  LET c == JoinVlan(d, v)
         IN  /\ c \in Device /\ SameUnits(c, d) /\ OneEntry(c)
             /\ c.live = d.live /\ c.stranded = d.stranded
             /\ \A w : Joined(d, w) => Joined(c, w)
<1> DEFINE c == JoinVlan(d, v)
           e == EntryFor(d, v)
<1>1. CASE e = 0
  <2>1. c = d
    BY <1>1 DEF JoinVlan
  <2> QED
    BY <2>1 DEF SameUnits
<1>2. CASE e # 0
  <2> DEFINE new == [active |-> TRUE, vlan |-> v, member |-> "in"]
             V == [d.vlan EXCEPT ![e] = new]
  <2>1. e \in Entry /\ \/ e \in EntriesOf(d, v)
                       \/ EntriesOf(d, v) = {} /\ (~d.vlan[e].active \/ d.vlan[e].member = "out")
    BY <1>2, EntryForIsEntry
  <2>2. c = [d EXCEPT !.vlan = V]
    BY <1>2 DEF JoinVlan
  <2>3. new \in EntryType /\ new.active /\ new.vlan = v /\ new.member = "in"
    BY DEF EntryType
  <2> HIDE DEF e, new
  <2>4. V \in [Entry -> EntryType] /\ V[e] = new /\ \A f \in Entry \ {e} : V[f] = d.vlan[f]
    BY <2>1, <2>3, DeviceVlan
  <2> HIDE DEF V
  <2>5. /\ c \in Device /\ SameUnits(c, d) /\ c.vlan = V
        /\ c.live = d.live /\ c.stranded = d.stranded
    BY <2>2, <2>4, DeviceVlan
  <2> HIDE DEF c
  <2>6. \A f \in Entry \ {e} : d.vlan[f].active => d.vlan[f].vlan # v
    BY <2>1 DEF EntriesOf, OneEntry
  <2>7. OneEntry(c)
    BY <2>3, <2>4, <2>5, <2>6 DEF OneEntry
  <2>8. ASSUME NEW w, Joined(d, w) PROVE Joined(c, w)
    <3>1. PICK f \in EntriesOf(d, w) : d.vlan[f].member = "in"
      BY <2>8 DEF Joined
    <3>2. f \in Entry /\ d.vlan[f].active /\ d.vlan[f].vlan = w
      BY <3>1 DEF EntriesOf
    <3>3. CASE f = e
      BY <2>1, <2>3, <2>4, <2>5, <3>1, <3>2, <3>3 DEF Joined, EntriesOf
    <3>4. CASE f # e
      BY <2>4, <2>5, <3>1, <3>2, <3>4 DEF Joined, EntriesOf
    <3> QED
      BY <3>3, <3>4
  <2> QED
    BY <2>5, <2>7, <2>8 DEF c
<1> QED
  BY <1>1, <1>2

\* Leaving a VLAN leaves the others joined.
LEMMA LeaveVlanIs ==
  ASSUME NEW d \in Device, NEW v, OneEntry(d)
  PROVE  LET c == LeaveVlan(d, v)
         IN  /\ c \in Device /\ SameUnits(c, d) /\ OneEntry(c)
             /\ c.live = d.live /\ c.stranded = d.stranded
             /\ \A w : w # v /\ Joined(d, w) => Joined(c, w)
<1> DEFINE c == LeaveVlan(d, v)
           e == Max(EntriesOf(d, v))
<1>1. CASE EntriesOf(d, v) = {}
  <2>1. c = d
    BY <1>1 DEF LeaveVlan
  <2> QED
    BY <2>1 DEF SameUnits
<1>2. CASE EntriesOf(d, v) # {}
  <2> DEFINE new == [d.vlan[e] EXCEPT !.member = "leaving"]
             V == [d.vlan EXCEPT ![e] = new]
  <2>1. e \in Entry /\ d.vlan[e].active /\ d.vlan[e].vlan = v
    <3>1. MaxVlan \in Nat /\ EntriesOf(d, v) \in SUBSET (1 .. MaxVlan)
      BY StreamsAssumption DEF Entry, EntriesOf
    <3>2. e \in EntriesOf(d, v)
      BY <1>2, <3>1, MaxIsIn
    <3> QED
      BY <3>2 DEF EntriesOf
  <2>2. c = [d EXCEPT !.vlan = V]
    BY <1>2 DEF LeaveVlan
  <2>3. new \in EntryType /\ new.active = d.vlan[e].active /\ new.vlan = d.vlan[e].vlan
    <3>1. d.vlan[e] \in EntryType
      BY <2>1, DeviceVlan
    <3> QED
      BY <3>1 DEF EntryType
  <2> HIDE DEF e, new
  <2>4. V \in [Entry -> EntryType] /\ V[e] = new /\ \A f \in Entry \ {e} : V[f] = d.vlan[f]
    BY <2>1, <2>3, DeviceVlan
  <2> HIDE DEF V
  <2>5. /\ c \in Device /\ SameUnits(c, d) /\ c.vlan = V
        /\ c.live = d.live /\ c.stranded = d.stranded
    BY <2>2, <2>4, DeviceVlan
  <2> HIDE DEF c
  <2>6. OneEntry(c)
    BY <2>3, <2>4, <2>5 DEF OneEntry
  <2>7. \A w : w # v /\ Joined(d, w) => Joined(c, w)
    BY <2>1, <2>4, <2>5 DEF Joined, EntriesOf
  <2> QED
    BY <2>5, <2>6, <2>7 DEF c
<1> QED
  BY <1>1, <1>2

LEMMA JoiningIs ==
  ASSUME NEW d \in Device, NEW x \in Stream, NEW v \in Vlan, OneEntry(d)
  PROVE  LET c == Joining(d, x, v)
         IN  /\ c \in Device /\ SameUnits(c, d) /\ OneEntry(c)
             /\ c.live = d.live \union {x}
             /\ c.stranded \subseteq d.stranded \union {x}
             /\ d.stranded \ {x} \subseteq c.stranded
             /\ \A w : Joined(d, w) => Joined(c, w)
             /\ x \in c.stranded \/ v = 0 \/ Joined(c, v)
<1> DEFINE j == IF v = 0 THEN d ELSE JoinVlan(d, v)
           L == j.live \union {x}
           S == IF v = 0 \/ Joined(j, v) THEN j.stranded \ {x} ELSE j.stranded \union {x}
           c == Joining(d, x, v)
<1>1. /\ j \in Device /\ SameUnits(j, d) /\ OneEntry(j)
      /\ j.live = d.live /\ j.stranded = d.stranded
      /\ \A w : Joined(d, w) => Joined(j, w)
  BY JoinVlanIs DEF SameUnits
<1>2. c = [j EXCEPT !.live = L, !.stranded = S]
  BY DEF Joining
<1> HIDE DEF j
<1>3. L \in SUBSET Stream /\ S \in SUBSET Stream
  <2>1. j.live \in SUBSET Stream /\ j.stranded \in SUBSET Stream
    BY <1>1 DEF Device
  <2> QED
    BY <2>1
<1> HIDE DEF L, S
<1>4. /\ c \in Device /\ SameUnits(c, j) /\ c.vlan = j.vlan /\ c.live = L /\ c.stranded = S
  <2>1. LET e == [j EXCEPT !.live = L, !.stranded = S]
        IN  /\ e \in Device /\ SameUnits(e, j) /\ e.vlan = j.vlan /\ e.live = L /\ e.stranded = S
    BY <1>1, <1>3 DEF Device, SameUnits
  <2> QED
    BY <1>2, <2>1, Zenon
<1> HIDE DEF c
<1>5. OneEntry(c) /\ \A w : Joined(j, w) <=> Joined(c, w)
  BY <1>1, <1>4 DEF OneEntry, Joined, EntriesOf
<1>6. SameUnits(c, d)
  BY <1>1, <1>4 DEF SameUnits
<1>7. /\ c.live = d.live \union {x}
      /\ c.stranded \subseteq d.stranded \union {x}
      /\ d.stranded \ {x} \subseteq c.stranded
      /\ x \in c.stranded \/ v = 0 \/ Joined(c, v)
  BY <1>1, <1>4, <1>5 DEF L, S
<1> QED
  BY <1>1, <1>4, <1>5, <1>6, <1>7 DEF c

LEMMA LeavingIs ==
  ASSUME NEW d \in Device, NEW x \in Stream, NEW v, NEW last \in BOOLEAN, OneEntry(d),
         d.stranded \subseteq d.live
  PROVE  LET c == Leaving(d, x, v, last)
         IN  /\ c \in Device /\ SameUnits(c, d) /\ OneEntry(c)
             /\ c.live = d.live \ {x}
             /\ c.stranded \subseteq c.live /\ d.stranded \ {x} \subseteq c.stranded
             /\ \A y \in c.live \ c.stranded :
                  /\ Joined(d, VlanOf(d, y))
                  /\ last => y[1] # x[1]
                  => Joined(c, VlanOf(d, y))
<1> DEFINE L == d.live \ {x}
           S == d.stranded \ {x}
           o == [d EXCEPT !.live = L, !.stranded = S]
           left == {y \in o.live : y[1] # x[1] /\ VlanOf(d, y) = v}
           l == LeaveVlan(o, v)
           T == l.stranded \union left
           c == Leaving(d, x, v, last)
<1>1. L \in SUBSET Stream /\ S \in SUBSET Stream
  <2>1. d.live \in SUBSET Stream /\ d.stranded \in SUBSET Stream
    BY DEF Device
  <2> QED
    BY <2>1
<1>2. c = IF v # 0 /\ last THEN [l EXCEPT !.stranded = T] ELSE o
  BY DEF Leaving
<1>3. /\ o \in Device /\ SameUnits(o, d) /\ o.vlan = d.vlan /\ o.live = L /\ o.stranded = S
  <2> HIDE DEF L, S
  <2> QED
    BY <1>1 DEF Device, SameUnits
<1> HIDE DEF o
<1>4. /\ OneEntry(o) /\ \A w : Joined(o, w) <=> Joined(d, w)
      /\ \A y : VlanOf(o, y) = VlanOf(d, y)
  BY <1>3 DEF OneEntry, Joined, EntriesOf, SameUnits, VlanOf
<1>5. CASE ~(v # 0 /\ last)
  BY <1>2, <1>3, <1>4, <1>5
<1>6. CASE v # 0 /\ last
  <2>1. /\ l \in Device /\ SameUnits(l, o) /\ OneEntry(l)
        /\ l.live = o.live /\ l.stranded = o.stranded
        /\ \A w : w # v /\ Joined(o, w) => Joined(l, w)
    BY <1>3, <1>4, LeaveVlanIs
  <2> HIDE DEF l
  <2>2. T \in SUBSET Stream
    BY <1>1, <1>3, <2>1
  <2>3. c = [l EXCEPT !.stranded = T]
    BY <1>2, <1>6
  <2>4. T \subseteq o.live /\ \A y \in o.live \ T : y[1] # x[1] => VlanOf(d, y) # v
    BY <1>3, <1>4, <2>1
  <2>9. S \subseteq T
    BY <1>3, <2>1
  <2> HIDE DEF T
  <2>5. /\ c \in Device /\ SameUnits(c, l) /\ c.vlan = l.vlan /\ c.live = l.live
        /\ c.stranded = T
    BY <2>1, <2>2, <2>3 DEF Device, SameUnits
  <2> HIDE DEF c
  <2>6. OneEntry(c) /\ \A w : Joined(l, w) <=> Joined(c, w)
    BY <2>1, <2>5 DEF OneEntry, Joined, EntriesOf
  <2>7. SameUnits(c, d)
    BY <1>3, <2>1, <2>5 DEF SameUnits
  <2>8. \A y \in c.live \ c.stranded :
          Joined(d, VlanOf(d, y)) /\ y[1] # x[1] => Joined(c, VlanOf(d, y))
    BY <1>4, <2>1, <2>4, <2>5, <2>6
  <2> QED
    BY <1>3, <1>6, <2>1, <2>4, <2>5, <2>6, <2>7, <2>8, <2>9 DEF c
<1> QED
  BY <1>5, <1>6

-----------------------------------------------------------------------------
(***************************************************************************)
(* The states of the sources.                                              *)
(***************************************************************************)
LEMMA StreamNames ==
  /\ \A s \in Source : <<"source", s>> \in Stream /\ s # Unmapped
  /\ \A k \in Sink : <<"sink", k>> \in Stream
  /\ \A x \in Stream : \/ \E s \in Source : x = <<"source", s>>
                       \/ \E k \in Sink : x = <<"sink", k>>
  /\ \A s, t : <<"source", s>> = <<"source", t>> <=> s = t
  /\ \A s, t : <<"sink", s>> = <<"sink", t>> <=> s = t
  /\ \A s, t : <<"source", s>> # <<"sink", t>>
BY StreamNumbers DEF Stream, Unmapped

LEMMA SameVlans ==
  ASSUME NEW c, NEW d,
         \A s \in Source : c.source[s].vlan = d.source[s].vlan,
         \A k \in Sink : c.sink[k].vlan = d.sink[k].vlan
  PROVE  \A y \in Stream : VlanOf(c, y) = VlanOf(d, y)
<1> SUFFICES ASSUME NEW y \in Stream PROVE VlanOf(c, y) = VlanOf(d, y)
  OBVIOUS
<1>1. CASE \E s \in Source : y = <<"source", s>>
  BY <1>1 DEF VlanOf
<1>2. CASE \E k \in Sink : y = <<"sink", k>>
  BY <1>2 DEF VlanOf
<1> QED
  BY <1>1, <1>2, StreamNames

\* The last thing every change of a source's state does.
Turned(c, d, s, new) == [c EXCEPT !.shaped = Counted(d), !.source[s].state = new]

LEMMA TurnedIs ==
  ASSUME NEW c \in Device, NEW d \in Device, NEW s \in Source, NEW new \in State
  PROVE  LET r == Turned(c, d, s, new)
         IN  /\ r \in Device /\ r.shaped = Counted(d) /\ r.source[s].state = new
             /\ \A t \in Source : /\ r.source[t].map = c.source[t].map
                                  /\ r.source[t].dest = c.source[t].dest
                                  /\ r.source[t].vlan = c.source[t].vlan
                                  /\ t # s => r.source[t] = c.source[t]
             /\ r.mapped = c.mapped /\ r.talker = c.talker /\ r.sink = c.sink
             /\ r.unit = c.unit /\ r.route = c.route /\ r.vlan = c.vlan
             /\ r.begun = c.begun /\ r.advertised = c.advertised
             /\ r.listening = c.listening /\ r.told = c.told /\ r.answering = c.answering
             /\ r.live = c.live /\ r.stranded = c.stranded
             /\ r.moved = c.moved /\ r.robbed = c.robbed
<1> DEFINE src == [c.source[s] EXCEPT !.state = new]
           sources == [c.source EXCEPT ![s] = src]
           counted == Counted(d)
<1>1. src \in [state : State, map : SUBSET Input, dest : Address, vlan : Vlan]
      /\ src.state = new /\ src.map = c.source[s].map /\ src.dest = c.source[s].dest
      /\ src.vlan = c.source[s].vlan
  <2>1. c.source[s] \in [state : State, map : SUBSET Input, dest : Address, vlan : Vlan]
    BY DEF Device
  <2> QED
    BY <2>1
<1>2. counted \in SUBSET Source
  BY DEF Counted
<1>3. Turned(c, d, s, new) = [c EXCEPT !.shaped = counted, !.source = sources]
  BY DEF Turned, Device
<1> HIDE DEF src
<1>4. sources \in [Source -> [state : State, map : SUBSET Input, dest : Address, vlan : Vlan]]
      /\ sources[s] = src /\ \A t \in Source \ {s} : sources[t] = c.source[t]
  BY <1>1 DEF Device
<1>5. \A t \in Source : /\ sources[t].map = c.source[t].map
                        /\ sources[t].dest = c.source[t].dest
                        /\ sources[t].vlan = c.source[t].vlan
  BY <1>1, <1>4
<1> HIDE DEF sources, counted
<1> DEFINE r == Turned(c, d, s, new)
<1>6. r \in Device /\ r.shaped = counted /\ r.source = sources
  BY <1>2, <1>3, <1>4 DEF Device
<1>7. /\ r.mapped = c.mapped /\ r.talker = c.talker /\ r.sink = c.sink
      /\ r.unit = c.unit /\ r.route = c.route /\ r.vlan = c.vlan
      /\ r.begun = c.begun /\ r.advertised = c.advertised
      /\ r.listening = c.listening /\ r.told = c.told /\ r.answering = c.answering
      /\ r.live = c.live /\ r.stranded = c.stranded
      /\ r.moved = c.moved /\ r.robbed = c.robbed
  BY <1>3 DEF Device
<1> HIDE DEF r
<1> QED
  BY <1>1, <1>4, <1>5, <1>6, <1>7 DEF r, counted

\* What ACMP and the application know of a source is left alone.
Agrees(r, d) ==
  /\ r.told = d.told /\ r.moved = d.moved
  /\ \A t \in Source : r.source[t].dest = d.source[t].dest

\* Who is counted is on, and so is who sends.
LEMMA CountedIsOn ==
  ASSUME NEW d \in Device, Sound(d), NEW t \in Source
  PROVE  /\ t \in Counted(d) <=> SourceOn(d, t)
         /\ d.talker[t].active = 2 => t \in Counted(d)
BY DEF Counted, Sound, IsOff

LEMMA ConfigureSourceIs ==
  ASSUME NEW d \in Device, Sound(d), NEW s \in Source
  PROVE  LET c == ConfigureSource(d, s)
             x == <<"source", s>>
             map == d.source[s].map
         IN  /\ c \in Device /\ OneEntry(c)
             /\ c.source = d.source /\ c.sink = d.sink /\ c.unit = d.unit /\ c.route = d.route
             /\ c.listening = d.listening /\ c.told = d.told /\ c.moved = d.moved
             /\ c.robbed = d.robbed
             /\ c.begun = d.begun \union {s} /\ c.advertised = d.advertised \union {s}
             /\ \A i \in Input : c.mapped[i] = IF i \in map THEN s ELSE d.mapped[i]
             /\ c.talker[s] = [active |-> 1, inputs |-> map, dest |-> d.source[s].dest]
             /\ \A t \in Source \ {s} : c.talker[t] = d.talker[t]
             /\ c.live = d.live \union {x}
             /\ c.stranded \subseteq d.stranded \union {x}
             /\ d.stranded \ {x} \subseteq c.stranded
             /\ \A w : Joined(d, w) => Joined(c, w)
             /\ x \in c.stranded \/ d.source[s].vlan = 0 \/ Joined(c, d.source[s].vlan)
<1> DEFINE x == <<"source", s>>
           src == d.source[s]
           mapped == [i \in Input |-> IF i \in src.map THEN s ELSE d.mapped[i]]
           unit == [active |-> 1, inputs |-> src.map, dest |-> src.dest]
           talker == [d.talker EXCEPT ![s] = unit]
           begun == d.begun \union {s}
           advertised == d.advertised \union {s}
           c0 == [d EXCEPT !.mapped = mapped, !.talker = talker, !.begun = begun,
                           !.advertised = advertised]
           c == ConfigureSource(d, s)
<1>1. src.map \in SUBSET Input /\ src.dest \in Address /\ src.vlan \in Vlan
  BY DEF Device
<1>2. /\ mapped \in [Input -> Source \union {Unmapped}]
      /\ begun \in SUBSET Source /\ advertised \in SUBSET Source
      /\ unit \in [active : 0 .. 2, inputs : SUBSET Input, dest : Address]
  BY <1>1 DEF Device
<1>3. c = Joining(c0, x, src.vlan)
  BY DEF ConfigureSource, Device
<1> HIDE DEF unit
<1>4. /\ talker \in [Source -> [active : 0 .. 2, inputs : SUBSET Input, dest : Address]]
      /\ talker[s] = unit /\ \A t \in Source \ {s} : talker[t] = d.talker[t]
  BY <1>2 DEF Device
<1> HIDE DEF mapped, talker, begun, advertised, c
<1>5. c0 \in Device
  BY <1>2, <1>4 DEF Device
<1>6. /\ c0.mapped = mapped /\ c0.talker = talker /\ c0.begun = begun
      /\ c0.advertised = advertised /\ c0.source = d.source /\ c0.sink = d.sink
      /\ c0.unit = d.unit /\ c0.route = d.route /\ c0.listening = d.listening
      /\ c0.told = d.told /\ c0.moved = d.moved /\ c0.robbed = d.robbed
      /\ c0.vlan = d.vlan /\ c0.live = d.live /\ c0.stranded = d.stranded
  BY DEF Device
<1> HIDE DEF c0
<1>7. OneEntry(c0) /\ \A w : Joined(c0, w) <=> Joined(d, w)
  BY <1>6 DEF Sound, OneEntry, Joined, EntriesOf
<1>8. x \in Stream
  BY StreamNames
<1> HIDE DEF x
<1>9. /\ c \in Device /\ SameUnits(c, c0) /\ OneEntry(c)
      /\ c.live = c0.live \union {x}
      /\ c.stranded \subseteq c0.stranded \union {x}
      /\ c0.stranded \ {x} \subseteq c.stranded
      /\ \A w : Joined(c0, w) => Joined(c, w)
      /\ x \in c.stranded \/ src.vlan = 0 \/ Joined(c, src.vlan)
  BY <1>1, <1>3, <1>5, <1>7, <1>8, JoiningIs
<1>10. /\ c.source = d.source /\ c.sink = d.sink /\ c.unit = d.unit /\ c.route = d.route
       /\ c.listening = d.listening /\ c.told = d.told /\ c.moved = d.moved
       /\ c.robbed = d.robbed /\ c.begun = begun /\ c.advertised = advertised
       /\ c.mapped = mapped /\ c.talker = talker
  BY <1>6, <1>9 DEF SameUnits
<1>11. \A i \in Input : mapped[i] = IF i \in src.map THEN s ELSE d.mapped[i]
  BY DEF mapped
<1> QED
  BY <1>4, <1>6, <1>7, <1>9, <1>10, <1>11 DEF begun, advertised, unit, x, c

\* A source is configured: its inputs were free, and it joins its VLAN.
LEMMA ConfigureSourceKeeps ==
  ASSUME NEW d \in Device, Sound(d), NEW s \in Source, ~SourceOn(d, s), MapIsFree(d, s)
  PROVE  LET r == Turned(ConfigureSource(d, s), d, s, "POTENTIAL")
         IN  Sound(r) /\ Agrees(r, d)
<1> DEFINE c == ConfigureSource(d, s)
           r == Turned(c, d, s, "POTENTIAL")
           x == <<"source", s>>
           map == d.source[s].map
<1>1. /\ c \in Device /\ OneEntry(c)
      /\ c.source = d.source /\ c.sink = d.sink /\ c.unit = d.unit /\ c.route = d.route
      /\ c.listening = d.listening /\ c.told = d.told /\ c.moved = d.moved
      /\ c.robbed = d.robbed
      /\ c.begun = d.begun \union {s} /\ c.advertised = d.advertised \union {s}
      /\ \A i \in Input : c.mapped[i] = IF i \in map THEN s ELSE d.mapped[i]
      /\ c.talker[s] = [active |-> 1, inputs |-> map, dest |-> d.source[s].dest]
      /\ \A t \in Source \ {s} : c.talker[t] = d.talker[t]
      /\ c.live = d.live \union {x}
      /\ c.stranded \subseteq d.stranded \union {x}
      /\ d.stranded \ {x} \subseteq c.stranded
      /\ \A w : Joined(d, w) => Joined(c, w)
      /\ x \in c.stranded \/ d.source[s].vlan = 0 \/ Joined(c, d.source[s].vlan)
  BY ConfigureSourceIs
<1> HIDE DEF c
<1>2. /\ r \in Device /\ r.shaped = Counted(d) /\ r.source[s].state = "POTENTIAL"
      /\ \A t \in Source : /\ r.source[t].map = c.source[t].map
                           /\ r.source[t].dest = c.source[t].dest
                           /\ r.source[t].vlan = c.source[t].vlan
                           /\ t # s => r.source[t] = c.source[t]
      /\ r.mapped = c.mapped /\ r.talker = c.talker /\ r.sink = c.sink
      /\ r.unit = c.unit /\ r.route = c.route /\ r.vlan = c.vlan
      /\ r.begun = c.begun /\ r.advertised = c.advertised
      /\ r.listening = c.listening /\ r.told = c.told
      /\ r.live = c.live /\ r.stranded = c.stranded
      /\ r.moved = c.moved /\ r.robbed = c.robbed
  <2>1. c \in Device /\ "POTENTIAL" \in State
    BY <1>1 DEF State
  <2> QED
    BY <2>1, TurnedIs
<1> HIDE DEF r
<1>3. /\ d.stranded \subseteq d.live /\ d.advertised \subseteq d.begun /\ d.live \subseteq Stream
      /\ IsOff(d) /\ MappedIsOn(d) /\ IsShaped(d) /\ HoldsItsMap(d)
      /\ LiveIsOn(d) /\ VlanIsJoined(d) /\ OneEntry(d) /\ IsRouted(d)
  BY DEF Sound
<1>4. /\ SourceOn(r, s) /\ \A t \in Source \ {s} : SourceOn(r, t) <=> SourceOn(d, t)
      /\ \A k \in Sink : SinkOn(r, k) <=> SinkOn(d, k)
  BY <1>1, <1>2 DEF SourceOn, SinkOn
<1>5. \A i \in Input : d.mapped[i] \in Source \union {Unmapped}
  BY DEF Device
<1>6. /\ x \in Stream /\ \A t \in Source \ {s} : <<"source", t>> # x
      /\ \A k \in Sink : <<"sink", k>> # x
  BY StreamNames
<1>7. IsOff(r)
  BY <1>1, <1>2, <1>3, <1>4 DEF IsOff
<1>8. MappedIsOn(r)
  <2> SUFFICES ASSUME NEW i \in Input, r.mapped[i] # Unmapped
               PROVE  SourceOn(r, r.mapped[i]) /\ i \in r.source[r.mapped[i]].map
    BY DEF MappedIsOn
  <2>1. CASE i \in map
    BY <1>1, <1>2, <1>4, <2>1
  <2>2. CASE i \notin map
    <3>1. r.mapped[i] = d.mapped[i] /\ d.mapped[i] \in Source /\ SourceOn(d, d.mapped[i])
          /\ i \in d.source[d.mapped[i]].map
      BY <1>1, <1>2, <1>3, <1>5, <2>2 DEF MappedIsOn
    <3> QED
      BY <1>1, <1>2, <1>4, <3>1
  <2> QED
    BY <2>1, <2>2
<1>9. IsShaped(r)
  BY <1>1, <1>2, CountedIsOn DEF IsShaped
<1>10. HoldsItsMap(r)
  <2>1. \A t \in r.robbed : SourceOn(r, t)
    BY <1>1, <1>2, <1>3, <1>4 DEF HoldsItsMap, Device
  <2>2. ASSUME NEW t \in Source, Holds(r, t)
        PROVE  /\ r.talker[t].inputs = r.source[t].map
               /\ \A i \in r.source[t].map : r.mapped[i] = t
    <3>1. r.source[t].map = d.source[t].map /\ d.source[t].map \subseteq Input
      BY <1>1, <1>2 DEF Device
    <3>2. CASE t = s
      BY <1>1, <1>2, <3>1, <3>2
    <3>3. CASE t # s
      <4>1. Holds(d, t)
        BY <1>1, <1>2, <1>6, <2>2, <3>3 DEF Holds
      <4>2. /\ d.talker[t].inputs = d.source[t].map
            /\ \A i \in d.source[t].map : d.mapped[i] = t
        BY <1>3, <4>1 DEF HoldsItsMap
      <4>3. t # Unmapped /\ \A i \in map : d.mapped[i] = Unmapped
        BY StreamNames DEF MapIsFree
      <4>4. \A i \in d.source[t].map : i \notin map
        BY <4>2, <4>3
      <4> QED
        BY <1>1, <1>2, <3>1, <3>3, <4>2, <4>4
    <3> QED
      BY <3>2, <3>3
  <2> QED
    BY <2>1, <2>2 DEF HoldsItsMap
<1>11. LiveIsOn(r)
  <2>1. ASSUME NEW t \in Source, <<"source", t>> \in r.live
        PROVE  SourceOn(r, t) /\ r.talker[t].dest = r.source[t].dest
    <3>1. CASE t = s
      BY <1>1, <1>2, <1>4, <3>1
    <3>2. CASE t # s
      BY <1>1, <1>2, <1>3, <1>4, <1>6, <2>1, <3>2 DEF LiveIsOn
    <3> QED
      BY <3>1, <3>2
  <2>2. \A k \in Sink : <<"sink", k>> \in r.live => SinkOn(r, k)
    BY <1>1, <1>2, <1>3, <1>4, <1>6 DEF LiveIsOn
  <2> QED
    BY <2>1, <2>2 DEF LiveIsOn
<1>12. VlanIsJoined(r)
  <2>1. /\ \A y \in Stream : VlanOf(r, y) = VlanOf(d, y)
        /\ VlanOf(d, x) = d.source[s].vlan
    BY SMTT(30), <1>1, <1>2, SameVlans DEF VlanOf
  <2>2. \A w : Joined(c, w) <=> Joined(r, w)
    BY <1>2 DEF Joined, EntriesOf
  <2> SUFFICES ASSUME NEW y \in r.live \ r.stranded, VlanOf(r, y) # 0
               PROVE  Joined(r, VlanOf(r, y))
    BY DEF VlanIsJoined
  <2>3. CASE y = x
    BY <1>1, <1>2, <1>6, <2>1, <2>2, <2>3
  <2>4. CASE y # x
    <3>1. y \in d.live \ d.stranded /\ y \in Stream
      BY <1>1, <1>2, <1>3, <2>4
    <3> QED
      BY <1>1, <1>3, <2>1, <2>2, <3>1 DEF VlanIsJoined
  <2> QED
    BY <2>3, <2>4
<1>13. OneEntry(r)
  BY <1>1, <1>2 DEF OneEntry
<1>14. IsRouted(r)
  BY <1>1, <1>2, <1>3 DEF IsRouted
<1>15. r.stranded \subseteq r.live /\ r.advertised \subseteq r.begun /\ r.live \subseteq Stream
  BY <1>1, <1>2, <1>3, <1>6
<1>16. Agrees(r, d)
  BY <1>1, <1>2 DEF Agrees
<1> QED
  BY <1>2, <1>7, <1>8, <1>9, <1>10, <1>11, <1>12, <1>13, <1>14, <1>15, <1>16 DEF Sound, r, c

LEMMA ReleaseSourceIs ==
  ASSUME NEW d \in Device, Sound(d), NEW s \in Source
  PROVE  LET c == ReleaseSource(d, s)
             x == <<"source", s>>
             map == d.source[s].map
         IN  /\ c \in Device /\ OneEntry(c)
             /\ c.source = d.source /\ c.sink = d.sink /\ c.unit = d.unit /\ c.route = d.route
             /\ c.listening = d.listening /\ c.told = d.told /\ c.moved = d.moved
             /\ c.robbed = (d.robbed \union RobbedBy(d, s)) \ {s}
             /\ c.begun = d.begun /\ c.advertised = d.advertised \ {s}
             /\ \A i \in Input : c.mapped[i] = IF i \in map THEN Unmapped ELSE d.mapped[i]
             /\ c.talker[s].active = 1
             /\ \A t \in Source \ {s} : c.talker[t] = d.talker[t]
             /\ c.live = d.live \ {x}
             /\ c.stranded \subseteq c.live /\ d.stranded \ {x} \subseteq c.stranded
             /\ \A y \in c.live \ c.stranded :
                  /\ Joined(d, VlanOf(d, y))
                  /\ NoOtherSource(d, s) => y[1] # "source"
                  => Joined(c, VlanOf(d, y))
<1> DEFINE x == <<"source", s>>
           src == d.source[s]
           mapped == [i \in Input |-> IF i \in src.map THEN Unmapped ELSE d.mapped[i]]
           unit == [d.talker[s] EXCEPT !.active = 1]
           talker == [d.talker EXCEPT ![s] = unit]
           advertised == d.advertised \ {s}
           robbed == (d.robbed \union RobbedBy(d, s)) \ {s}
           last == NoOtherSource(d, s)
           c0 == [d EXCEPT !.talker = talker, !.mapped = mapped, !.advertised = advertised,
                           !.robbed = robbed]
           c == ReleaseSource(d, s)
<1>1. d.talker[s] \in [active : 0 .. 2, inputs : SUBSET Input, dest : Address]
  BY DEF Device
<1>2. /\ mapped \in [Input -> Source \union {Unmapped}] /\ advertised \in SUBSET Source
      /\ unit \in [active : 0 .. 2, inputs : SUBSET Input, dest : Address] /\ unit.active = 1
      /\ last \in BOOLEAN /\ robbed \in SUBSET Source
  <2>1. mapped \in [Input -> Source \union {Unmapped}] /\ advertised \in SUBSET Source
    BY DEF Device
  <2>2. unit \in [active : 0 .. 2, inputs : SUBSET Input, dest : Address] /\ unit.active = 1
    BY <1>1
  <2>3. last \in BOOLEAN
    BY DEF NoOtherSource
  <2>4. robbed \in SUBSET Source
    BY DEF Device, RobbedBy
  <2> QED
    BY <2>1, <2>2, <2>3, <2>4
<1>3. c = Leaving(c0, x, src.vlan, last)
  BY DEF ReleaseSource, StopSending, Device
<1> HIDE DEF unit
<1>4. /\ talker \in [Source -> [active : 0 .. 2, inputs : SUBSET Input, dest : Address]]
      /\ talker[s] = unit /\ \A t \in Source \ {s} : talker[t] = d.talker[t]
  BY <1>2 DEF Device
<1> HIDE DEF mapped, talker, advertised, robbed, c, last
<1>5. c0 \in Device
  BY <1>2, <1>4 DEF Device
<1>6. /\ c0.mapped = mapped /\ c0.talker = talker /\ c0.begun = d.begun
      /\ c0.advertised = advertised /\ c0.source = d.source /\ c0.sink = d.sink
      /\ c0.unit = d.unit /\ c0.route = d.route /\ c0.listening = d.listening
      /\ c0.told = d.told /\ c0.moved = d.moved /\ c0.robbed = robbed
      /\ c0.vlan = d.vlan /\ c0.live = d.live /\ c0.stranded = d.stranded
  BY DEF Device
<1> HIDE DEF c0
<1>7. /\ OneEntry(c0) /\ \A w : Joined(c0, w) <=> Joined(d, w)
      /\ c0.stranded \subseteq c0.live /\ \A y : VlanOf(c0, y) = VlanOf(d, y)
  BY <1>6 DEF Sound, OneEntry, Joined, EntriesOf, VlanOf
<1>8. x \in Stream /\ x[1] = "source"
  BY StreamNames
<1> HIDE DEF x
<1>9. /\ c \in Device /\ SameUnits(c, c0) /\ OneEntry(c)
      /\ c.live = c0.live \ {x}
      /\ c.stranded \subseteq c.live /\ c0.stranded \ {x} \subseteq c.stranded
      /\ \A y \in c.live \ c.stranded :
           Joined(c0, VlanOf(c0, y)) /\ (last => y[1] # x[1]) => Joined(c, VlanOf(c0, y))
  BY <1>2, <1>3, <1>5, <1>7, <1>8, LeavingIs
<1>10. /\ c.source = d.source /\ c.sink = d.sink /\ c.unit = d.unit /\ c.route = d.route
       /\ c.listening = d.listening /\ c.told = d.told /\ c.moved = d.moved
       /\ c.robbed = robbed /\ c.begun = d.begun /\ c.advertised = advertised
       /\ c.mapped = mapped /\ c.talker = talker
  BY <1>6, <1>9 DEF SameUnits
<1>11. \A i \in Input : mapped[i] = IF i \in src.map THEN Unmapped ELSE d.mapped[i]
  BY DEF mapped
<1>12. \A y \in c.live \ c.stranded :
         Joined(d, VlanOf(d, y)) /\ (last => y[1] # "source") => Joined(c, VlanOf(d, y))
  BY <1>7, <1>8, <1>9
<1> QED
  BY <1>2, <1>4, <1>6, <1>9, <1>10, <1>11, <1>12 DEF advertised, robbed, last, x, c

\* A source is turned off: its inputs are free and it leaves its VLAN.
LEMMA ReleaseSourceKeeps ==
  ASSUME NEW d \in Device, Sound(d), NEW s \in Source, SourceOn(d, s)
  PROVE  LET r == Turned(ReleaseSource(d, s), d, s, "DISABLED")
         IN  Sound(r) /\ Agrees(r, d)
<1> DEFINE c == ReleaseSource(d, s)
           r == Turned(c, d, s, "DISABLED")
           x == <<"source", s>>
           map == d.source[s].map
<1>1. /\ c \in Device /\ OneEntry(c)
      /\ c.source = d.source /\ c.sink = d.sink /\ c.unit = d.unit /\ c.route = d.route
      /\ c.listening = d.listening /\ c.told = d.told /\ c.moved = d.moved
      /\ c.robbed = (d.robbed \union RobbedBy(d, s)) \ {s}
      /\ c.begun = d.begun /\ c.advertised = d.advertised \ {s}
      /\ \A i \in Input : c.mapped[i] = IF i \in map THEN Unmapped ELSE d.mapped[i]
      /\ c.talker[s].active = 1
      /\ \A t \in Source \ {s} : c.talker[t] = d.talker[t]
      /\ c.live = d.live \ {x}
      /\ c.stranded \subseteq c.live /\ d.stranded \ {x} \subseteq c.stranded
      /\ \A y \in c.live \ c.stranded :
           Joined(d, VlanOf(d, y)) /\ (NoOtherSource(d, s) => y[1] # "source")
             => Joined(c, VlanOf(d, y))
  BY ReleaseSourceIs
<1> HIDE DEF c
<1>2. /\ r \in Device /\ r.shaped = Counted(d) /\ r.source[s].state = "DISABLED"
      /\ \A t \in Source : /\ r.source[t].map = c.source[t].map
                           /\ r.source[t].dest = c.source[t].dest
                           /\ r.source[t].vlan = c.source[t].vlan
                           /\ t # s => r.source[t] = c.source[t]
      /\ r.mapped = c.mapped /\ r.talker = c.talker /\ r.sink = c.sink
      /\ r.unit = c.unit /\ r.route = c.route /\ r.vlan = c.vlan
      /\ r.begun = c.begun /\ r.advertised = c.advertised
      /\ r.listening = c.listening /\ r.told = c.told
      /\ r.live = c.live /\ r.stranded = c.stranded
      /\ r.moved = c.moved /\ r.robbed = c.robbed
  <2>1. c \in Device /\ "DISABLED" \in State
    BY <1>1 DEF State
  <2> QED
    BY <2>1, TurnedIs
<1> HIDE DEF r
<1>3. /\ d.stranded \subseteq d.live /\ d.advertised \subseteq d.begun /\ d.live \subseteq Stream
      /\ IsOff(d) /\ MappedIsOn(d) /\ IsShaped(d) /\ HoldsItsMap(d)
      /\ LiveIsOn(d) /\ VlanIsJoined(d) /\ OneEntry(d) /\ IsRouted(d)
  BY DEF Sound
<1>4. /\ ~SourceOn(r, s) /\ \A t \in Source \ {s} : SourceOn(r, t) <=> SourceOn(d, t)
      /\ \A k \in Sink : SinkOn(r, k) <=> SinkOn(d, k)
  BY <1>1, <1>2 DEF SourceOn, SinkOn
<1>5. \A i \in Input : d.mapped[i] \in Source \union {Unmapped}
  BY DEF Device
<1>6. /\ x \in Stream /\ \A t \in Source \ {s} : <<"source", t>> # x
      /\ \A k \in Sink : <<"sink", k>> # x
  BY StreamNames
<1>7. IsOff(r)
  BY <1>1, <1>2, <1>3, <1>4 DEF IsOff
<1>8. MappedIsOn(r)
  <2> SUFFICES ASSUME NEW i \in Input, r.mapped[i] # Unmapped
               PROVE  SourceOn(r, r.mapped[i]) /\ i \in r.source[r.mapped[i]].map
    BY DEF MappedIsOn
  <2>1. /\ i \notin map /\ r.mapped[i] = d.mapped[i] /\ d.mapped[i] \in Source
        /\ SourceOn(d, d.mapped[i]) /\ i \in d.source[d.mapped[i]].map
    BY <1>1, <1>2, <1>3, <1>5 DEF MappedIsOn
  <2> QED
    BY <1>1, <1>2, <1>4, <2>1
<1>9. IsShaped(r)
  BY <1>1, <1>2, CountedIsOn DEF IsShaped
<1>10. HoldsItsMap(r)
  <2>1. ASSUME NEW t \in r.robbed PROVE SourceOn(r, t)
    <3>1. t \in Source /\ t # s /\ (t \in d.robbed \/ <<"source", t>> \in d.live)
      BY <1>1, <1>2 DEF RobbedBy, Holds, Device
    <3> QED
      BY <1>3, <1>4, <3>1 DEF HoldsItsMap, LiveIsOn
  <2>2. ASSUME NEW t \in Source, Holds(r, t)
        PROVE  /\ r.talker[t].inputs = r.source[t].map
               /\ \A i \in r.source[t].map : r.mapped[i] = t
    <3>1. r.source[t].map = d.source[t].map /\ d.source[t].map \subseteq Input
          /\ map \subseteq Input
      BY <1>1, <1>2 DEF Device
    <3>2. t # s /\ Holds(d, t) /\ t \notin RobbedBy(d, s)
      BY <1>1, <1>2, <2>2 DEF Holds
    <3>3. /\ d.talker[t].inputs = d.source[t].map
          /\ \A i \in d.source[t].map : d.mapped[i] = t
      BY <1>3, <3>2 DEF HoldsItsMap
    <3>4. \A i \in d.source[t].map : i \notin map
      <4>1. CASE Holds(d, s)
        BY <1>3, <3>2, <3>3, <4>1 DEF HoldsItsMap
      <4>2. CASE ~Holds(d, s)
        BY <3>2, <4>2 DEF RobbedBy
      <4> QED
        BY <4>1, <4>2
    <3> QED
      BY <1>1, <1>2, <3>1, <3>2, <3>3, <3>4
  <2> QED
    BY <2>1, <2>2 DEF HoldsItsMap
<1>11. LiveIsOn(r)
  <2>1. \A t \in Source : <<"source", t>> \in r.live =>
          SourceOn(r, t) /\ r.talker[t].dest = r.source[t].dest
    BY <1>1, <1>2, <1>3, <1>4, <1>6 DEF LiveIsOn
  <2>2. \A k \in Sink : <<"sink", k>> \in r.live => SinkOn(r, k)
    BY <1>1, <1>2, <1>3, <1>4, <1>6 DEF LiveIsOn
  <2> QED
    BY <2>1, <2>2 DEF LiveIsOn
<1>12. VlanIsJoined(r)
  <2>1. \A y \in Stream : VlanOf(r, y) = VlanOf(d, y)
    <3>1. /\ \A t \in Source : r.source[t].vlan = d.source[t].vlan
          /\ \A k \in Sink : r.sink[k].vlan = d.sink[k].vlan
      BY <1>1, <1>2
    <3> QED
      BY <3>1, SameVlans
  <2>2. \A w : Joined(c, w) <=> Joined(r, w)
    BY <1>2 DEF Joined, EntriesOf
  <2> SUFFICES ASSUME NEW y \in r.live \ r.stranded, VlanOf(r, y) # 0
               PROVE  Joined(r, VlanOf(r, y))
    BY DEF VlanIsJoined
  <2>3. y \in d.live \ d.stranded /\ y \in Stream /\ y # x
    BY <1>1, <1>2, <1>3
  <2>4. NoOtherSource(d, s) => y[1] # "source"
    <3>1. CASE \E t \in Source : y = <<"source", t>>
      BY <1>3, <2>3, <3>1 DEF NoOtherSource, LiveIsOn
    <3>2. CASE \E k \in Sink : y = <<"sink", k>>
      BY <3>2
    <3> QED
      BY <2>3, <3>1, <3>2, StreamNames
  <2>5. Joined(d, VlanOf(d, y))
    BY <1>3, <2>1, <2>3 DEF VlanIsJoined
  <2> QED
    BY <1>1, <1>2, <2>1, <2>2, <2>3, <2>4, <2>5
<1>13. OneEntry(r)
  BY <1>1, <1>2 DEF OneEntry
<1>14. IsRouted(r)
  BY <1>1, <1>2, <1>3 DEF IsRouted
<1>15. r.stranded \subseteq r.live /\ r.advertised \subseteq r.begun /\ r.live \subseteq Stream
  BY <1>1, <1>2, <1>3, <1>6
<1>16. Agrees(r, d)
  BY <1>1, <1>2 DEF Agrees
<1> QED
  BY <1>2, <1>7, <1>8, <1>9, <1>10, <1>11, <1>12, <1>13, <1>14, <1>15, <1>16 DEF Sound, r, c

\* The two devices differ at most in whether the talker of the source s sends.
OnlySends(c, d, s) ==
  /\ c.source = d.source /\ c.mapped = d.mapped /\ c.sink = d.sink /\ c.unit = d.unit
  /\ c.route = d.route /\ c.vlan = d.vlan /\ c.begun = d.begun
  /\ c.advertised = d.advertised /\ c.listening = d.listening /\ c.told = d.told
  /\ c.live = d.live /\ c.stranded = d.stranded /\ c.moved = d.moved /\ c.robbed = d.robbed
  /\ c.talker[s].inputs = d.talker[s].inputs /\ c.talker[s].dest = d.talker[s].dest
  /\ \A t \in Source \ {s} : c.talker[t] = d.talker[t]

LEMMA SwitchKeeps ==
  ASSUME NEW d \in Device, Sound(d), NEW s \in Source, NEW new \in State,
         NEW c \in Device, OnlySends(c, d, s),
         c.talker[s].active = 2 => d.talker[s].active = 2 \/ SourceOn(d, s),
         new = "DISABLED" => ~SourceOn(d, s) /\ c.talker[s].active # 2
  PROVE  LET r == Turned(c, d, s, new)
         IN  Sound(r) /\ Agrees(r, d)
<1> DEFINE r == Turned(c, d, s, new)
<1>4. OnlySends(c, d, s)
  OBVIOUS
<1>6. /\ r \in Device /\ r.shaped = Counted(d) /\ r.source[s].state = new
      /\ \A t \in Source : /\ r.source[t].map = d.source[t].map
                           /\ r.source[t].dest = d.source[t].dest
                           /\ r.source[t].vlan = d.source[t].vlan
                           /\ t # s => r.source[t] = d.source[t]
      /\ r.mapped = d.mapped /\ r.talker = c.talker /\ r.sink = d.sink
      /\ r.unit = d.unit /\ r.route = d.route /\ r.vlan = d.vlan
      /\ r.begun = d.begun /\ r.advertised = d.advertised
      /\ r.listening = d.listening /\ r.told = d.told
      /\ r.live = d.live /\ r.stranded = d.stranded
      /\ r.moved = d.moved /\ r.robbed = d.robbed
  <2>1. LET q == Turned(c, d, s, new)
        IN  /\ q \in Device /\ q.shaped = Counted(d) /\ q.source[s].state = new
            /\ \A t \in Source : /\ q.source[t].map = c.source[t].map
                                 /\ q.source[t].dest = c.source[t].dest
                                 /\ q.source[t].vlan = c.source[t].vlan
                                 /\ t # s => q.source[t] = c.source[t]
            /\ q.mapped = c.mapped /\ q.talker = c.talker /\ q.sink = c.sink
            /\ q.unit = c.unit /\ q.route = c.route /\ q.vlan = c.vlan
            /\ q.begun = c.begun /\ q.advertised = c.advertised
            /\ q.listening = c.listening /\ q.told = c.told
            /\ q.live = c.live /\ q.stranded = c.stranded
            /\ q.moved = c.moved /\ q.robbed = c.robbed
    BY TurnedIs
  <2> QED
    BY <1>4, <2>1 DEF OnlySends
<1> HIDE DEF r
<1>7. /\ d.stranded \subseteq d.live /\ d.advertised \subseteq d.begun /\ d.live \subseteq Stream
      /\ IsOff(d) /\ MappedIsOn(d) /\ IsShaped(d) /\ HoldsItsMap(d)
      /\ LiveIsOn(d) /\ VlanIsJoined(d) /\ OneEntry(d) /\ IsRouted(d)
  BY DEF Sound
<1>8. /\ SourceOn(r, s) <=> new # "DISABLED"
      /\ \A t \in Source \ {s} : SourceOn(r, t) <=> SourceOn(d, t)
      /\ \A k \in Sink : SinkOn(r, k) <=> SinkOn(d, k)
      /\ \A t \in Source : SourceOn(d, t) => SourceOn(r, t)
  BY <1>6 DEF SourceOn, SinkOn
<1>9. IsOff(r)
  <2>1. \A t \in Source : ~SourceOn(r, t) => r.talker[t].active # 2 /\ t \notin r.advertised
    BY <1>4, <1>6, <1>7, <1>8 DEF IsOff, OnlySends
  <2> QED
    BY <1>6, <1>7, <1>8, <2>1 DEF IsOff
<1>10. MappedIsOn(r)
  <2> SUFFICES ASSUME NEW i \in Input, r.mapped[i] # Unmapped
               PROVE  SourceOn(r, r.mapped[i]) /\ i \in r.source[r.mapped[i]].map
    BY DEF MappedIsOn
  <2>1. d.mapped[i] \in Source /\ SourceOn(d, d.mapped[i]) /\ i \in d.source[d.mapped[i]].map
    BY <1>6, <1>7 DEF MappedIsOn, Device
  <2> QED
    BY <1>6, <1>8, <2>1
<1>11. IsShaped(r)
  <2> SUFFICES ASSUME NEW t \in Source, r.talker[t].active = 2 PROVE t \in r.shaped
    BY DEF IsShaped
  <2>1. d.talker[t].active = 2 \/ SourceOn(d, t)
    BY <1>4, <1>6 DEF OnlySends
  <2> QED
    BY <1>6, <2>1, CountedIsOn
<1>12. HoldsItsMap(r)
  <2>1. \A t \in r.robbed : SourceOn(r, t)
    BY <1>6, <1>7, <1>8 DEF HoldsItsMap, Device
  <2>2. \A t \in Source : r.talker[t].inputs = d.talker[t].inputs
    BY <1>4, <1>6 DEF OnlySends
  <2>3. \A t \in Source : Holds(r, t) <=> Holds(d, t)
    BY <1>6 DEF Holds
  <2> QED
    BY <1>6, <1>7, <2>1, <2>2, <2>3 DEF HoldsItsMap
<1>13. LiveIsOn(r)
  <2>1. \A t \in Source : r.talker[t].dest = d.talker[t].dest
    BY <1>4, <1>6 DEF OnlySends
  <2> QED
    BY <1>6, <1>7, <1>8, <2>1 DEF LiveIsOn
<1>14. VlanIsJoined(r) /\ OneEntry(r)
  <2>1. \A y \in Stream : VlanOf(r, y) = VlanOf(d, y)
    <3>1. /\ \A t \in Source : r.source[t].vlan = d.source[t].vlan
          /\ \A k \in Sink : r.sink[k].vlan = d.sink[k].vlan
      BY <1>6
    <3> QED
      BY <3>1, SameVlans
  <2>2. \A w : Joined(d, w) <=> Joined(r, w)
    BY <1>6 DEF Joined, EntriesOf
  <2> QED
    BY <1>6, <1>7, <2>1, <2>2 DEF VlanIsJoined, OneEntry
<1>15. IsRouted(r) /\ Agrees(r, d)
  BY <1>6, <1>7 DEF IsRouted, Agrees
<1> QED
  BY <1>6, <1>7, <1>9, <1>10, <1>11, <1>12, <1>13, <1>14, <1>15 DEF Sound, r

\* Whatever the handlers make of a source's state, the device stays sound.
LEMMA SetSourceStateKeeps ==
  ASSUME NEW d \in Device, Sound(d), NEW s \in Source, NEW new \in State
  PROVE  Sound(SetSourceState(d, s, new)) /\ Agrees(SetSourceState(d, s, new), d)
<1> DEFINE old == d.source[s].state
<1>1. old \in State
      /\ d.talker \in [Source -> [active : 0 .. 2, inputs : SUBSET Input, dest : Address]]
      /\ d.talker[s] \in [active : 0 .. 2, inputs : SUBSET Input, dest : Address]
  BY DEF Device
<1>2. (SourceOn(d, s) <=> old # "DISABLED") /\ (d.talker[s].active = 2 => SourceOn(d, s))
  BY DEF SourceOn, Sound, IsOff
<1>3. OnlySends(d, d, s)
  BY DEF OnlySends
<1>5. \A n \in 0 .. 2 :
        LET c == [d EXCEPT !.talker[s].active = n]
        IN  c \in Device /\ OnlySends(c, d, s)
            /\ c.talker[s].active = n
  <2> TAKE n \in 0 .. 2
  <2> DEFINE unit == [d.talker[s] EXCEPT !.active = n]
             talker == [d.talker EXCEPT ![s] = unit]
             c == [d EXCEPT !.talker = talker]
  <2>1. /\ unit \in [active : 0 .. 2, inputs : SUBSET Input, dest : Address]
        /\ unit.active = n /\ unit.inputs = d.talker[s].inputs /\ unit.dest = d.talker[s].dest
    BY <1>1
  <2>2. c = [d EXCEPT !.talker[s].active = n]
    BY DEF Device
  <2> HIDE DEF unit
  <2>3. /\ talker \in [Source -> [active : 0 .. 2, inputs : SUBSET Input, dest : Address]]
        /\ talker[s] = unit /\ \A t \in Source \ {s} : talker[t] = d.talker[t]
    BY <1>1, <2>1
  <2> HIDE DEF talker
  <2>4. c \in Device /\ c.talker = talker /\ c.robbed = d.robbed
        /\ c.source = d.source /\ c.mapped = d.mapped /\ c.sink = d.sink /\ c.unit = d.unit
        /\ c.route = d.route /\ c.vlan = d.vlan /\ c.begun = d.begun
        /\ c.advertised = d.advertised /\ c.listening = d.listening /\ c.told = d.told
        /\ c.live = d.live /\ c.stranded = d.stranded /\ c.moved = d.moved
    BY <2>3 DEF Device
  <2> HIDE DEF c
  <2>5. OnlySends(c, d, s) /\ c.talker[s].active = n
    BY <2>1, <2>3, <2>4 DEF OnlySends
  <2> QED
    BY <2>2, <2>4, <2>5
<1>6. CASE old = "DISABLED" /\ new = "POTENTIAL" /\ MapIsFree(d, s)
  <2>1. SetSourceState(d, s, new) = Turned(ConfigureSource(d, s), d, s, new)
    BY <1>6 DEF SetSourceState, Turned
  <2> QED
    BY <1>2, <1>6, <2>1, ConfigureSourceKeeps
<1>7. CASE old = "DISABLED" /\ (new = "ENABLED" \/ (new = "POTENTIAL" /\ ~MapIsFree(d, s)))
  <2>1. SetSourceState(d, s, new) = Turned(d, d, s, new)
    BY <1>7 DEF SetSourceState, Turned
  <2>2. d.talker[s].active # 2 /\ new # "DISABLED"
    BY <1>2, <1>7
  <2> QED
    BY <1>3, <2>1, <2>2, SwitchKeeps
<1>8. CASE old = "ENABLED" /\ new = "POTENTIAL"
  <2> DEFINE c == StopSending(d, s)
  <2>1. SetSourceState(d, s, new) = Turned(c, d, s, new)
    BY <1>8 DEF SetSourceState, Turned
  <2>2. c \in Device /\ OnlySends(c, d, s)
    BY <1>5 DEF StopSending
  <2> HIDE DEF c
  <2> QED
    BY <1>2, <1>8, <2>1, <2>2, SwitchKeeps
<1>9. CASE old = "POTENTIAL" /\ new = "ENABLED"
  <2> DEFINE c == StartSending(d, s)
  <2>1. SetSourceState(d, s, new) = Turned(c, d, s, new)
    BY <1>9 DEF SetSourceState, Turned
  <2>2. c \in Device /\ OnlySends(c, d, s)
    BY <1>5 DEF StartSending
  <2> HIDE DEF c
  <2> QED
    BY <1>2, <1>9, <2>1, <2>2, SwitchKeeps
<1>10. CASE old # "DISABLED" /\ new = "DISABLED"
  <2>1. SetSourceState(d, s, new) = Turned(ReleaseSource(d, s), d, s, new)
    BY <1>10 DEF SetSourceState, Turned
  <2> QED
    BY <1>2, <1>10, <2>1, ReleaseSourceKeeps
<1>11. CASE old = new
  <2>1. SetSourceState(d, s, new) = Turned(d, d, s, new)
    BY <1>11 DEF SetSourceState, Turned
  <2>2. new = "DISABLED" => ~SourceOn(d, s) /\ d.talker[s].active # 2
    BY <1>2, <1>11
  <2>3. new # "DISABLED" => SourceOn(d, s)
    BY <1>2, <1>11
  <2> QED
    BY <1>2, <1>3, <2>1, <2>2, <2>3, SwitchKeeps
<1>12. \/ old = "DISABLED" /\ new = "POTENTIAL" /\ MapIsFree(d, s)
       \/ old = "DISABLED" /\ (new = "ENABLED" \/ (new = "POTENTIAL" /\ ~MapIsFree(d, s)))
       \/ old = "ENABLED" /\ new = "POTENTIAL"
       \/ old = "POTENTIAL" /\ new = "ENABLED"
       \/ old # "DISABLED" /\ new = "DISABLED"
       \/ old = new
  <2> HIDE DEF old
  <2> QED
    BY <1>1 DEF State
<1> QED
  BY <1>6, <1>7, <1>8, <1>9, <1>10, <1>11, <1>12


-----------------------------------------------------------------------------
(***************************************************************************)
(* The states of the sinks.                                                *)
(***************************************************************************)
\* The two devices differ at most in the sink k, the VLANs and what is live; what
\* the units, the router and the VLANs hold fits the sinks, whatever the state of k.
OnlySink(c, d, k) ==
  /\ c.source = d.source /\ c.mapped = d.mapped /\ c.talker = d.talker /\ c.sink = d.sink
  /\ c.begun = d.begun /\ c.advertised = d.advertised /\ c.shaped = d.shaped
  /\ c.told = d.told /\ c.moved = d.moved /\ c.robbed = d.robbed
  /\ OneEntry(c) /\ c.stranded \subseteq c.live /\ c.live \subseteq d.live \union {<<"sink", k>>}
  /\ \A j \in Sink \ {k} : /\ j \in c.unit => j \in d.unit
                           /\ j \in c.listening => j \in d.listening
                           /\ c.route[j] = d.route[j]
  /\ k \in c.unit => c.route[k] = d.sink[k].id
  /\ \A y \in c.live \ c.stranded : VlanOf(d, y) # 0 => Joined(c, VlanOf(d, y))

SinkTurned(c, k, new) == [c EXCEPT !.sink[k].state = new]

LEMMA SinkTurnedIs ==
  ASSUME NEW c \in Device, NEW k \in Sink, NEW new \in State
  PROVE  LET r == SinkTurned(c, k, new)
         IN  /\ r \in Device /\ r.sink[k].state = new
             /\ \A j \in Sink : /\ r.sink[j].id = c.sink[j].id
                                /\ r.sink[j].vlan = c.sink[j].vlan
                                /\ j # k => r.sink[j] = c.sink[j]
             /\ r.source = c.source /\ r.mapped = c.mapped /\ r.talker = c.talker
             /\ r.unit = c.unit /\ r.route = c.route /\ r.vlan = c.vlan
             /\ r.begun = c.begun /\ r.advertised = c.advertised /\ r.shaped = c.shaped
             /\ r.listening = c.listening /\ r.told = c.told
             /\ r.live = c.live /\ r.stranded = c.stranded
             /\ r.moved = c.moved /\ r.robbed = c.robbed
<1> DEFINE snk == [c.sink[k] EXCEPT !.state = new]
           sinks == [c.sink EXCEPT ![k] = snk]
           r == SinkTurned(c, k, new)
<1>1. snk \in [state : State, id : StreamId, vlan : Vlan]
      /\ snk.state = new /\ snk.id = c.sink[k].id /\ snk.vlan = c.sink[k].vlan
  <2>1. c.sink[k] \in [state : State, id : StreamId, vlan : Vlan]
    BY DEF Device
  <2> QED
    BY <2>1
<1>2. r = [c EXCEPT !.sink = sinks]
  BY DEF SinkTurned, Device
<1> HIDE DEF snk
<1>3. sinks \in [Sink -> [state : State, id : StreamId, vlan : Vlan]]
      /\ sinks[k] = snk /\ \A j \in Sink \ {k} : sinks[j] = c.sink[j]
  BY <1>1 DEF Device
<1> HIDE DEF sinks, r
<1>4. r \in Device /\ r.sink = sinks
  BY <1>2, <1>3 DEF Device
<1>5. /\ r.source = c.source /\ r.mapped = c.mapped /\ r.talker = c.talker
      /\ r.unit = c.unit /\ r.route = c.route /\ r.vlan = c.vlan
      /\ r.begun = c.begun /\ r.advertised = c.advertised /\ r.shaped = c.shaped
      /\ r.listening = c.listening /\ r.told = c.told
      /\ r.live = c.live /\ r.stranded = c.stranded
      /\ r.moved = c.moved /\ r.robbed = c.robbed
  BY <1>2 DEF Device
<1> QED
  BY <1>1, <1>3, <1>4, <1>5 DEF r

LEMMA SinkTurnedKeeps ==
  ASSUME NEW d \in Device, Sound(d), NEW k \in Sink, NEW new \in State,
         NEW c \in Device, OnlySink(c, d, k),
         new = "DISABLED" =>
           k \notin c.unit /\ k \notin c.listening /\ <<"sink", k>> \notin c.live
  PROVE  LET r == SinkTurned(c, k, new)
         IN  Sound(r) /\ Agrees(r, d)
<1> DEFINE r == SinkTurned(c, k, new)
           x == <<"sink", k>>
<1>1. /\ r \in Device /\ r.sink[k].state = new
      /\ \A j \in Sink : /\ r.sink[j].id = d.sink[j].id
                         /\ r.sink[j].vlan = d.sink[j].vlan
                         /\ j # k => r.sink[j] = d.sink[j]
      /\ r.source = d.source /\ r.mapped = d.mapped /\ r.talker = d.talker
      /\ r.unit = c.unit /\ r.route = c.route /\ r.vlan = c.vlan
      /\ r.begun = d.begun /\ r.advertised = d.advertised /\ r.shaped = d.shaped
      /\ r.listening = c.listening /\ r.told = d.told
      /\ r.live = c.live /\ r.stranded = c.stranded
      /\ r.moved = d.moved /\ r.robbed = d.robbed
  BY SinkTurnedIs DEF OnlySink
<1> HIDE DEF r
<1>2. /\ d.stranded \subseteq d.live /\ d.advertised \subseteq d.begun /\ d.live \subseteq Stream
      /\ IsOff(d) /\ MappedIsOn(d) /\ IsShaped(d) /\ HoldsItsMap(d)
      /\ LiveIsOn(d) /\ VlanIsJoined(d) /\ OneEntry(d) /\ IsRouted(d)
  BY DEF Sound
<1>3. /\ \A s \in Source : SourceOn(r, s) <=> SourceOn(d, s)
      /\ SinkOn(r, k) <=> new # "DISABLED"
      /\ \A j \in Sink \ {k} : SinkOn(r, j) <=> SinkOn(d, j)
  BY <1>1 DEF SourceOn, SinkOn
<1>4. x \in Stream /\ \A s \in Source : <<"source", s>> # x
      /\ \A j \in Sink \ {k} : <<"sink", j>> # x
  BY StreamNames
<1>5. IsOff(r)
  <2>1. \A s \in Source : ~SourceOn(r, s) => r.talker[s].active # 2 /\ s \notin r.advertised
    BY <1>1, <1>2, <1>3 DEF IsOff
  <2>2. \A j \in Sink : ~SinkOn(r, j) => j \notin r.unit /\ j \notin r.listening
    BY <1>1, <1>2, <1>3 DEF IsOff, OnlySink
  <2> QED
    BY <2>1, <2>2 DEF IsOff
<1>6. MappedIsOn(r) /\ IsShaped(r) /\ HoldsItsMap(r)
  <2>1. MappedIsOn(r) /\ IsShaped(r)
    BY <1>1, <1>2, <1>3 DEF MappedIsOn, IsShaped, SourceOn
  <2>2. \A s \in Source : Holds(r, s) => Holds(d, s)
    BY <1>1, <1>4 DEF Holds, OnlySink
  <2>3. HoldsItsMap(r)
    BY <1>1, <1>2, <2>2 DEF HoldsItsMap, SourceOn
  <2> QED
    BY <2>1, <2>3
<1>7. LiveIsOn(r)
  <2>1. \A s \in Source : <<"source", s>> \in r.live =>
          SourceOn(r, s) /\ r.talker[s].dest = r.source[s].dest
    BY <1>1, <1>2, <1>3, <1>4 DEF LiveIsOn, OnlySink
  <2>2. \A j \in Sink : <<"sink", j>> \in r.live => SinkOn(r, j)
    BY <1>1, <1>2, <1>3, <1>4 DEF LiveIsOn, OnlySink
  <2> QED
    BY <2>1, <2>2 DEF LiveIsOn
<1>8. VlanIsJoined(r) /\ OneEntry(r)
  <2>1. \A y \in Stream : VlanOf(r, y) = VlanOf(d, y)
    <3>1. /\ \A t \in Source : r.source[t].vlan = d.source[t].vlan
          /\ \A j \in Sink : r.sink[j].vlan = d.sink[j].vlan
      BY <1>1
    <3> QED
      BY <3>1, SameVlans
  <2>2. (\A w : Joined(c, w) <=> Joined(r, w)) /\ (OneEntry(c) <=> OneEntry(r))
    BY <1>1 DEF Joined, EntriesOf, OneEntry
  <2>3. \A y \in r.live : y \in Stream
    BY <1>1, <1>2, <1>4 DEF OnlySink
  <2> QED
    BY <1>1, <2>1, <2>2, <2>3 DEF VlanIsJoined, OnlySink
<1>9. IsRouted(r)
  <2> SUFFICES ASSUME NEW j \in r.unit PROVE r.route[j] = r.sink[j].id
    BY DEF IsRouted
  <2>1. j \in Sink
    BY <1>1 DEF Device
  <2> QED
    BY <1>1, <1>2, <2>1 DEF IsRouted, OnlySink
<1>10. r.stranded \subseteq r.live /\ r.advertised \subseteq r.begun /\ r.live \subseteq Stream
  BY <1>1, <1>2, <1>4 DEF OnlySink
<1>11. Agrees(r, d)
  BY <1>1 DEF Agrees
<1> QED
  BY <1>1, <1>5, <1>6, <1>7, <1>8, <1>9, <1>10, <1>11 DEF Sound, r


\* A sink is configured: the router leads its stream to it, and it joins its VLAN.
LEMMA ConfigureSinkKeeps ==
  ASSUME NEW d \in Device, Sound(d), NEW k \in Sink
  PROVE  LET c == ConfigureSink(d, k)
         IN  c \in Device /\ OnlySink(c, d, k)
<1> DEFINE x == <<"sink", k>>
           v == d.sink[k].vlan
           unit == d.unit \union {k}
           route == [d.route EXCEPT ![k] = d.sink[k].id]
           listening == d.listening \union {k}
           c0 == [d EXCEPT !.unit = unit, !.route = route, !.listening = listening]
           c == ConfigureSink(d, k)
<1>1. /\ unit \in SUBSET Sink /\ listening \in SUBSET Sink /\ route \in [Sink -> StreamId]
      /\ route[k] = d.sink[k].id /\ \A j \in Sink \ {k} : route[j] = d.route[j]
      /\ v \in Vlan
  BY DEF Device
<1>2. c = Joining(c0, x, v)
  BY DEF ConfigureSink, Device
<1> HIDE DEF unit, route, listening
<1>3. c0 \in Device
  BY <1>1 DEF Device
<1>4. /\ c0.unit = unit /\ c0.route = route /\ c0.listening = listening
      /\ c0.source = d.source /\ c0.mapped = d.mapped /\ c0.talker = d.talker
      /\ c0.sink = d.sink /\ c0.vlan = d.vlan /\ c0.begun = d.begun
      /\ c0.advertised = d.advertised /\ c0.shaped = d.shaped /\ c0.told = d.told
      /\ c0.live = d.live /\ c0.stranded = d.stranded
      /\ c0.moved = d.moved /\ c0.robbed = d.robbed
  BY DEF Device
<1> HIDE DEF c0, c
<1>5. OneEntry(c0) /\ \A w : Joined(c0, w) <=> Joined(d, w)
  BY <1>4 DEF Sound, OneEntry, Joined, EntriesOf
<1>6. x \in Stream /\ VlanOf(d, x) = v
  BY StreamNames DEF VlanOf
<1> HIDE DEF x, v
<1>7. /\ c \in Device /\ SameUnits(c, c0) /\ OneEntry(c)
      /\ c.live = c0.live \union {x}
      /\ c.stranded \subseteq c0.stranded \union {x}
      /\ c0.stranded \ {x} \subseteq c.stranded
      /\ \A w : Joined(c0, w) => Joined(c, w)
      /\ x \in c.stranded \/ v = 0 \/ Joined(c, v)
  BY <1>1, <1>2, <1>3, <1>5, <1>6, JoiningIs
<1>8. /\ c.source = d.source /\ c.mapped = d.mapped /\ c.talker = d.talker /\ c.sink = d.sink
      /\ c.begun = d.begun /\ c.advertised = d.advertised /\ c.shaped = d.shaped
      /\ c.told = d.told /\ c.moved = d.moved /\ c.robbed = d.robbed
      /\ c.unit = unit /\ c.route = route /\ c.listening = listening
  BY <1>4, <1>7 DEF SameUnits
<1>9. \A y \in c.live \ c.stranded : VlanOf(d, y) # 0 => Joined(c, VlanOf(d, y))
  <2> SUFFICES ASSUME NEW y \in c.live \ c.stranded, VlanOf(d, y) # 0
               PROVE  Joined(c, VlanOf(d, y))
    OBVIOUS
  <2>1. CASE y = x
    BY <1>6, <1>7, <2>1
  <2>2. CASE y # x
    <3>1. y \in d.live \ d.stranded
      BY <1>4, <1>7, <2>2
    <3>2. Joined(d, VlanOf(d, y))
      BY <3>1 DEF Sound, VlanIsJoined
    <3> QED
      BY <1>5, <1>7, <3>2
  <2> QED
    BY <2>1, <2>2
<1>10. c.stranded \subseteq c.live /\ c.live \subseteq d.live \union {x}
  BY <1>4, <1>7 DEF Sound
<1>11. \A j \in Sink \ {k} : /\ j \in c.unit => j \in d.unit
                             /\ j \in c.listening => j \in d.listening
                             /\ c.route[j] = d.route[j]
  BY <1>1, <1>8 DEF unit, listening
<1>12. c.route[k] = d.sink[k].id
  BY <1>1, <1>8
<1> QED
  BY <1>7, <1>8, <1>9, <1>10, <1>11, <1>12 DEF OnlySink, c, x

\* A sink is turned off: its stream stays in the router, and it leaves its VLAN.
LEMMA ReleaseSinkKeeps ==
  ASSUME NEW d \in Device, Sound(d), NEW k \in Sink
  PROVE  LET c == ReleaseSink(d, k)
         IN  /\ c \in Device /\ OnlySink(c, d, k)
             /\ k \notin c.unit /\ k \notin c.listening /\ <<"sink", k>> \notin c.live
<1> DEFINE x == <<"sink", k>>
           v == d.sink[k].vlan
           unit == d.unit \ {k}
           listening == d.listening \ {k}
           last == NoOtherSink(d, k)
           c0 == [d EXCEPT !.unit = unit, !.listening = listening]
           c == ReleaseSink(d, k)
<1>1. /\ unit \in SUBSET Sink /\ listening \in SUBSET Sink
      /\ last \in BOOLEAN
  BY DEF Device, NoOtherSink
<1>2. c = Leaving(c0, x, v, last)
  BY DEF ReleaseSink, Device
<1> HIDE DEF unit, listening
<1>3. c0 \in Device
  <2> HIDE DEF last, v, x
  <2> QED
    BY <1>1 DEF Device
<1>4. /\ c0.unit = unit /\ c0.listening = listening /\ c0.route = d.route
      /\ c0.source = d.source /\ c0.mapped = d.mapped /\ c0.talker = d.talker
      /\ c0.sink = d.sink /\ c0.vlan = d.vlan /\ c0.begun = d.begun
      /\ c0.advertised = d.advertised /\ c0.shaped = d.shaped /\ c0.told = d.told
      /\ c0.live = d.live /\ c0.stranded = d.stranded
      /\ c0.moved = d.moved /\ c0.robbed = d.robbed
  BY DEF Device
<1> HIDE DEF c0, c, last, v
<1>5. /\ OneEntry(c0) /\ \A w : Joined(c0, w) <=> Joined(d, w)
      /\ c0.stranded \subseteq c0.live /\ \A y : VlanOf(c0, y) = VlanOf(d, y)
  BY <1>4 DEF Sound, OneEntry, Joined, EntriesOf, VlanOf
<1>6. x \in Stream /\ x[1] = "sink"
  BY StreamNames
<1> HIDE DEF x
<1>7. /\ c \in Device /\ SameUnits(c, c0) /\ OneEntry(c)
      /\ c.live = c0.live \ {x}
      /\ c.stranded \subseteq c.live /\ c0.stranded \ {x} \subseteq c.stranded
      /\ \A y \in c.live \ c.stranded :
           Joined(c0, VlanOf(c0, y)) /\ (last => y[1] # x[1]) => Joined(c, VlanOf(c0, y))
  BY <1>1, <1>2, <1>3, <1>5, <1>6, LeavingIs
<1>8. /\ c.source = d.source /\ c.mapped = d.mapped /\ c.talker = d.talker /\ c.sink = d.sink
      /\ c.begun = d.begun /\ c.advertised = d.advertised /\ c.shaped = d.shaped
      /\ c.told = d.told /\ c.moved = d.moved /\ c.robbed = d.robbed
      /\ c.unit = unit /\ c.route = d.route /\ c.listening = listening
  BY <1>4, <1>7 DEF SameUnits
<1>9. \A y \in c.live \ c.stranded : VlanOf(d, y) # 0 => Joined(c, VlanOf(d, y))
  <2> SUFFICES ASSUME NEW y \in c.live \ c.stranded, VlanOf(d, y) # 0
               PROVE  Joined(c, VlanOf(d, y))
    OBVIOUS
  <2>1. y \in d.live \ d.stranded /\ y # x /\ y \in Stream
    BY <1>4, <1>7 DEF Sound
  <2>2. Joined(d, VlanOf(d, y))
    BY <2>1 DEF Sound, VlanIsJoined
  <2>3. last => y[1] # "sink"
    <3>1. CASE \E j \in Sink : y = <<"sink", j>>
      BY <2>1, <3>1 DEF last, NoOtherSink, Sound, LiveIsOn, x
    <3>2. CASE \E s \in Source : y = <<"source", s>>
      BY <3>2
    <3> QED
      BY <2>1, <3>1, <3>2, StreamNames
  <2> QED
    BY <1>5, <1>6, <1>7, <2>2, <2>3
<1>10. c.stranded \subseteq c.live /\ c.live \subseteq d.live /\ x \notin c.live
  BY <1>4, <1>7
<1>11. /\ k \notin c.unit /\ k \notin c.listening
       /\ \A j \in Sink : /\ j \in c.unit => j \in d.unit
                          /\ j \in c.listening => j \in d.listening
  BY <1>8 DEF unit, listening
<1> QED
  BY <1>7, <1>8, <1>9, <1>10, <1>11 DEF OnlySink, c, x

\* Whatever the handlers make of a sink's state, the device stays sound.
LEMMA SetSinkStateKeeps ==
  ASSUME NEW d \in Device, Sound(d), NEW k \in Sink, NEW new \in State
  PROVE  Sound(SetSinkState(d, k, new)) /\ Agrees(SetSinkState(d, k, new), d)
<1> DEFINE old == d.sink[k].state
<1>1. old \in State /\ (SinkOn(d, k) <=> old # "DISABLED")
  BY DEF Device, SinkOn
<1>2. CASE old = "DISABLED" /\ new = "POTENTIAL"
  <2> DEFINE c == ConfigureSink(d, k)
  <2>1. SetSinkState(d, k, new) = SinkTurned(c, k, new)
    BY <1>2 DEF SetSinkState, SinkTurned
  <2>2. c \in Device /\ OnlySink(c, d, k)
    BY ConfigureSinkKeeps
  <2> HIDE DEF c
  <2> QED
    BY <1>2, <2>1, <2>2, SinkTurnedKeeps
<1>3. CASE old # "DISABLED" /\ new = "DISABLED"
  <2> DEFINE c == ReleaseSink(d, k)
  <2>1. SetSinkState(d, k, new) = SinkTurned(c, k, new)
    BY <1>3 DEF SetSinkState, SinkTurned
  <2>2. /\ c \in Device /\ OnlySink(c, d, k)
        /\ k \notin c.unit /\ k \notin c.listening /\ <<"sink", k>> \notin c.live
    BY ReleaseSinkKeeps
  <2> HIDE DEF c
  <2> QED
    BY <1>3, <2>1, <2>2, SinkTurnedKeeps
<1>4. CASE ~(old = "DISABLED" /\ new = "POTENTIAL") /\ ~(old # "DISABLED" /\ new = "DISABLED")
  <2>1. SetSinkState(d, k, new) = SinkTurned(d, k, new)
    BY <1>4 DEF SetSinkState, SinkTurned
  <2>2. OnlySink(d, d, k)
    BY DEF OnlySink, Sound, IsRouted, VlanIsJoined
  <2>3. new = "DISABLED" => k \notin d.unit /\ k \notin d.listening /\ <<"sink", k>> \notin d.live
    BY <1>1, <1>4 DEF Sound, IsOff, LiveIsOn
  <2> QED
    BY <2>1, <2>2, <2>3, SinkTurnedKeeps
<1> QED
  BY <1>2, <1>3, <1>4


-----------------------------------------------------------------------------
(***************************************************************************)
(* The setters, which only a stream that is off takes.                     *)
(***************************************************************************)
LEMMA SetSourceKeeps ==
  ASSUME NEW d \in Device, Sound(d), NEW s \in Source,
         NEW src \in [state : State, map : SUBSET Input, dest : Address, vlan : Vlan],
         src.state = d.source[s].state
  PROVE  LET r == SetSource(d, s, src)
         IN  /\ Sound(r) /\ r.told = d.told /\ r.moved = d.moved
             /\ r.source[s] = IF SourceOn(d, s) THEN d.source[s] ELSE src
             /\ \A t \in Source \ {s} : r.source[t] = d.source[t]
<1>1. CASE SourceOn(d, s)
  BY <1>1 DEF SetSource
<1>2. CASE ~SourceOn(d, s)
  <2> DEFINE sources == [d.source EXCEPT ![s] = src]
             r == SetSource(d, s, src)
  <2>1. r = [d EXCEPT !.source = sources]
    BY <1>2 DEF SetSource, Device
  <2>2. sources \in [Source -> [state : State, map : SUBSET Input, dest : Address, vlan : Vlan]]
        /\ sources[s] = src /\ \A t \in Source \ {s} : sources[t] = d.source[t]
    BY DEF Device
  <2> HIDE DEF sources, r
  <2>3. r \in Device /\ r.source = sources
    BY <2>1, <2>2 DEF Device
  <2>4. /\ r.mapped = d.mapped /\ r.talker = d.talker /\ r.sink = d.sink
        /\ r.unit = d.unit /\ r.route = d.route /\ r.vlan = d.vlan
        /\ r.begun = d.begun /\ r.advertised = d.advertised /\ r.shaped = d.shaped
        /\ r.listening = d.listening /\ r.told = d.told
        /\ r.live = d.live /\ r.stranded = d.stranded
        /\ r.moved = d.moved /\ r.robbed = d.robbed
    BY <2>1 DEF Device
  <2>5. /\ d.stranded \subseteq d.live /\ d.advertised \subseteq d.begun /\ d.live \subseteq Stream
        /\ IsOff(d) /\ MappedIsOn(d) /\ IsShaped(d) /\ HoldsItsMap(d)
        /\ LiveIsOn(d) /\ VlanIsJoined(d) /\ OneEntry(d) /\ IsRouted(d)
    BY DEF Sound
  <2>6. /\ \A t \in Source : SourceOn(r, t) <=> SourceOn(d, t)
        /\ \A t \in Source : SourceOn(d, t) => r.source[t] = d.source[t]
        /\ \A k \in Sink : SinkOn(r, k) <=> SinkOn(d, k)
    BY <1>2, <2>2, <2>3, <2>4 DEF SourceOn, SinkOn
  <2>7. IsOff(r) /\ IsShaped(r) /\ IsRouted(r) /\ OneEntry(r)
    BY <2>4, <2>5, <2>6 DEF IsOff, IsShaped, IsRouted, OneEntry
  <2>8. MappedIsOn(r)
    <3> SUFFICES ASSUME NEW i \in Input, r.mapped[i] # Unmapped
                 PROVE  SourceOn(r, r.mapped[i]) /\ i \in r.source[r.mapped[i]].map
      BY DEF MappedIsOn
    <3>1. d.mapped[i] \in Source /\ SourceOn(d, d.mapped[i]) /\ i \in d.source[d.mapped[i]].map
      BY <2>4, <2>5 DEF MappedIsOn, Device
    <3> QED
      BY <2>4, <2>6, <3>1
  <2>9. HoldsItsMap(r)
    <3>1. \A t \in Source : Holds(r, t) => Holds(d, t) /\ SourceOn(d, t)
      BY <2>4, <2>5 DEF Holds, LiveIsOn
    <3>2. \A t \in r.robbed : SourceOn(r, t)
      BY <2>4, <2>5, <2>6 DEF HoldsItsMap, Device
    <3>3. \A t \in Source : Holds(r, t) =>
            /\ r.talker[t].inputs = r.source[t].map
            /\ \A i \in r.source[t].map : r.mapped[i] = t
      BY <2>4, <2>5, <2>6, <3>1 DEF HoldsItsMap
    <3> QED
      BY <3>2, <3>3 DEF HoldsItsMap
  <2>10. LiveIsOn(r)
    BY <2>4, <2>5, <2>6 DEF LiveIsOn
  <2>11. VlanIsJoined(r)
    <3> SUFFICES ASSUME NEW y \in r.live \ r.stranded, VlanOf(r, y) # 0
                 PROVE  Joined(r, VlanOf(r, y))
      BY DEF VlanIsJoined
    <3>1. y \in d.live \ d.stranded /\ y \in Stream
      BY <2>4, <2>5
    <3>2. VlanOf(r, y) = VlanOf(d, y)
      <4>1. CASE \E t \in Source : y = <<"source", t>>
        BY <2>5, <2>6, <3>1, <4>1 DEF VlanOf, LiveIsOn
      <4>2. CASE \E k \in Sink : y = <<"sink", k>>
        BY <2>4, <4>2 DEF VlanOf
      <4> QED
        BY <3>1, <4>1, <4>2, StreamNames
    <3>3. Joined(d, VlanOf(d, y)) => Joined(r, VlanOf(d, y))
      BY <2>4 DEF Joined, EntriesOf
    <3> QED
      BY <2>5, <3>1, <3>2, <3>3 DEF VlanIsJoined
  <2>12. Sound(r)
    BY <2>3, <2>4, <2>5, <2>7, <2>8, <2>9, <2>10, <2>11 DEF Sound
  <2> QED
    BY <1>2, <2>2, <2>3, <2>4, <2>12 DEF r
<1> QED
  BY <1>1, <1>2

LEMMA SetSinkKeeps ==
  ASSUME NEW d \in Device, Sound(d), NEW k \in Sink,
         NEW snk \in [state : State, id : StreamId, vlan : Vlan],
         snk.state = d.sink[k].state
  PROVE  LET r == SetSink(d, k, snk)
         IN  Sound(r) /\ Agrees(r, d)
<1>1. CASE SinkOn(d, k)
  BY <1>1 DEF SetSink, Agrees
<1>2. CASE ~SinkOn(d, k)
  <2> DEFINE sinks == [d.sink EXCEPT ![k] = snk]
             r == SetSink(d, k, snk)
  <2>1. r = [d EXCEPT !.sink = sinks]
    BY <1>2 DEF SetSink, Device
  <2>2. sinks \in [Sink -> [state : State, id : StreamId, vlan : Vlan]]
        /\ sinks[k] = snk /\ \A j \in Sink \ {k} : sinks[j] = d.sink[j]
    BY DEF Device
  <2> HIDE DEF sinks, r
  <2>3. r \in Device /\ r.sink = sinks
    BY <2>1, <2>2 DEF Device
  <2>4. /\ r.mapped = d.mapped /\ r.talker = d.talker /\ r.source = d.source
        /\ r.unit = d.unit /\ r.route = d.route /\ r.vlan = d.vlan
        /\ r.begun = d.begun /\ r.advertised = d.advertised /\ r.shaped = d.shaped
        /\ r.listening = d.listening /\ r.told = d.told
        /\ r.live = d.live /\ r.stranded = d.stranded
        /\ r.moved = d.moved /\ r.robbed = d.robbed
    BY <2>1 DEF Device
  <2>5. /\ d.stranded \subseteq d.live /\ d.advertised \subseteq d.begun /\ d.live \subseteq Stream
        /\ IsOff(d) /\ MappedIsOn(d) /\ IsShaped(d) /\ HoldsItsMap(d)
        /\ LiveIsOn(d) /\ VlanIsJoined(d) /\ OneEntry(d) /\ IsRouted(d)
    BY DEF Sound
  <2>6. /\ \A t \in Source : SourceOn(r, t) <=> SourceOn(d, t)
        /\ \A j \in Sink : SinkOn(r, j) <=> SinkOn(d, j)
        /\ \A j \in Sink : SinkOn(d, j) => r.sink[j] = d.sink[j]
    BY <1>2, <2>2, <2>3, <2>4 DEF SourceOn, SinkOn
  <2>7. IsOff(r) /\ MappedIsOn(r) /\ IsShaped(r) /\ HoldsItsMap(r) /\ LiveIsOn(r) /\ OneEntry(r)
    BY <2>4, <2>5, <2>6
       DEF IsOff, MappedIsOn, IsShaped, HoldsItsMap, Holds, LiveIsOn, OneEntry, SourceOn
  <2>8. IsRouted(r)
    <3> SUFFICES ASSUME NEW j \in r.unit PROVE r.route[j] = r.sink[j].id
      BY DEF IsRouted
    <3>1. j \in Sink /\ j \in d.unit
      BY <2>4 DEF Device
    <3> QED
      BY <2>4, <2>5, <2>6, <3>1 DEF IsRouted, IsOff
  <2>9. VlanIsJoined(r)
    <3> SUFFICES ASSUME NEW y \in r.live \ r.stranded, VlanOf(r, y) # 0
                 PROVE  Joined(r, VlanOf(r, y))
      BY DEF VlanIsJoined
    <3>1. y \in d.live \ d.stranded /\ y \in Stream
      BY <2>4, <2>5
    <3>2. VlanOf(r, y) = VlanOf(d, y)
      <4>1. CASE \E t \in Source : y = <<"source", t>>
        BY <2>4, <4>1 DEF VlanOf
      <4>2. CASE \E j \in Sink : y = <<"sink", j>>
        BY <2>5, <2>6, <3>1, <4>2 DEF VlanOf, LiveIsOn
      <4> QED
        BY <3>1, <4>1, <4>2, StreamNames
    <3>3. Joined(d, VlanOf(d, y)) => Joined(r, VlanOf(d, y))
      BY <2>4 DEF Joined, EntriesOf
    <3> QED
      BY <2>5, <3>1, <3>2, <3>3 DEF VlanIsJoined
  <2>10. Sound(r) /\ Agrees(r, d)
    BY <2>3, <2>4, <2>5, <2>7, <2>8, <2>9 DEF Sound, Agrees
  <2> QED
    BY <2>10 DEF r
<1> QED
  BY <1>1, <1>2

\* The addresses MAAP reserves are told, whether a source takes them or not.
LEMMA ReservedKeeps ==
  ASSUME NEW d \in Device, Sound(d), NEW s \in Source, NEW a \in Address
  PROVE  /\ Sound(Reserved(d, s, a))
         /\ Tells(d) => Tells(Reserved(d, s, a))
<1> DEFINE src == [d.source[s] EXCEPT !.dest = a]
           c == SetSource(d, s, src)
           told == [c.told EXCEPT ![s] = a]
           answering == (c.answering \/ s = Max(Source))
           moved == IF SourceOn(d, s) THEN c.moved \union {s} ELSE c.moved \ {s}
           r == Reserved(d, s, a)
<1>1. src \in [state : State, map : SUBSET Input, dest : Address, vlan : Vlan]
      /\ src.state = d.source[s].state /\ src.dest = a
  <2>1. d.source[s] \in [state : State, map : SUBSET Input, dest : Address, vlan : Vlan]
    BY DEF Device
  <2> QED
    BY <2>1
<1> HIDE DEF src
<1>2. /\ Sound(c) /\ c.told = d.told /\ c.moved = d.moved
      /\ c.source[s] = IF SourceOn(d, s) THEN d.source[s] ELSE src
      /\ \A t \in Source \ {s} : c.source[t] = d.source[t]
  BY <1>1, SetSourceKeeps
<1>3. r = [c EXCEPT !.told = told, !.answering = answering, !.moved = moved]
  <2>1. c \in Device
    BY <1>2 DEF Sound
  <2> QED
    BY <2>1 DEF Reserved, Device, src
<1> HIDE DEF c
<1>4. c \in Device
  BY <1>2 DEF Sound
<1>5. /\ told \in [Source -> Address] /\ answering \in BOOLEAN /\ moved \in SUBSET Source
      /\ told[s] = a /\ \A t \in Source \ {s} : told[t] = c.told[t]
  <2>1. told \in [Source -> Address] /\ told[s] = a /\ \A t \in Source \ {s} : told[t] = c.told[t]
    BY <1>4 DEF Device
  <2>2. c.moved \in SUBSET Source /\ c.answering \in BOOLEAN
    BY <1>4 DEF Device
  <2>3. moved \in SUBSET Source
    BY <2>2
  <2>4. answering \in BOOLEAN
    BY <2>2, Zenon
  <2> QED
    BY <2>1, <2>3, <2>4
<1>6. moved = IF SourceOn(d, s) THEN d.moved \union {s} ELSE d.moved \ {s}
  BY <1>2
<1> HIDE DEF told, answering, moved, r
<1>7. r \in Device /\ r.told = told /\ r.moved = moved
  BY <1>3, <1>4, <1>5 DEF Device
<1>8. /\ r.mapped = c.mapped /\ r.talker = c.talker /\ r.source = c.source /\ r.sink = c.sink
      /\ r.unit = c.unit /\ r.route = c.route /\ r.vlan = c.vlan
      /\ r.begun = c.begun /\ r.advertised = c.advertised /\ r.shaped = c.shaped
      /\ r.listening = c.listening /\ r.live = c.live /\ r.stranded = c.stranded
      /\ r.robbed = c.robbed
  BY <1>3, <1>4 DEF Device
<1>9. Sound(r)
  <2>1. /\ IsOff(r) /\ MappedIsOn(r) /\ IsShaped(r) /\ HoldsItsMap(r)
    BY <1>2, <1>8 DEF Sound, IsOff, MappedIsOn, IsShaped, HoldsItsMap, Holds, SourceOn, SinkOn
  <2>2. LiveIsOn(r) /\ VlanIsJoined(r)
    BY <1>2, <1>8 DEF Sound, LiveIsOn, VlanIsJoined, SourceOn, SinkOn, VlanOf, Joined, EntriesOf
  <2>3. OneEntry(r) /\ IsRouted(r)
    BY <1>2, <1>8 DEF Sound, OneEntry, IsRouted, SourceOn, SinkOn, EntriesOf
  <2> QED
    BY <1>2, <1>7, <1>8, <2>1, <2>2, <2>3 DEF Sound
<1>10. ASSUME Tells(d) PROVE Tells(r)
  <2> SUFFICES ASSUME NEW t \in Source, t \notin r.moved PROVE r.source[t].dest = r.told[t]
    BY DEF Tells
  <2>1. CASE t = s
    BY <1>1, <1>2, <1>5, <1>6, <1>7, <1>8, <2>1
  <2>2. CASE t # s
    <3>1. t \notin d.moved
      BY <1>6, <1>7, <2>2
    <3>2. d.source[t].dest = d.told[t]
      BY <1>10, <3>1 DEF Tells
    <3> QED
      BY <1>2, <1>5, <1>7, <1>8, <2>2, <3>2
  <2> QED
    BY <2>1, <2>2
<1> QED
  BY <1>9, <1>10 DEF r

\* The other hook starts every source again.
LEMMA ReservedRestartsKeeps ==
  ASSUME NEW d \in Device, Sound(d), NEW s \in Source, NEW a \in Address
  PROVE  Sound(ReservedRestarts(d, s, a))
<1> DEFINE src == [d.source[s] EXCEPT !.dest = a]
           c == SetSource(d, s, src)
           off == IF SourceOn(c, s) THEN SetSourceState(c, s, "DISABLED") ELSE c
<1>1. src \in [state : State, map : SUBSET Input, dest : Address, vlan : Vlan]
      /\ src.state = d.source[s].state
  <2>1. d.source[s] \in [state : State, map : SUBSET Input, dest : Address, vlan : Vlan]
    BY DEF Device
  <2> QED
    BY <2>1
<1>2. ReservedRestarts(d, s, a) = SetSourceState(off, s, "POTENTIAL")
  BY DEF ReservedRestarts
<1> HIDE DEF src
<1>3. Sound(c)
  BY <1>1, SetSourceKeeps
<1> HIDE DEF c
<1>4. "DISABLED" \in State /\ "POTENTIAL" \in State /\ c \in Device
  BY <1>3 DEF State, Sound
<1>5. Sound(off)
  BY <1>3, <1>4, SetSourceStateKeeps
<1> HIDE DEF off
<1>6. off \in Device
  BY <1>5 DEF Sound
<1>7. Sound(SetSourceState(off, s, "POTENTIAL"))
  BY <1>4, <1>5, <1>6, SetSourceStateKeeps
<1> QED
  BY <1>2, <1>7


-----------------------------------------------------------------------------
(***************************************************************************)
(* The VLAN messages, and the handlers that take every stream in turn.     *)
(***************************************************************************)
\* An entry that is not "in" may change its state with MVRP.
LEMMA VlanChangeKeeps ==
  ASSUME NEW d \in Device, Sound(d), NEW entries \in [Entry -> EntryType],
         \A e \in Entry : /\ entries[e].active = d.vlan[e].active
                          /\ entries[e].vlan = d.vlan[e].vlan
                          /\ d.vlan[e].member = "in" => entries[e].member = "in"
  PROVE  LET r == [d EXCEPT !.vlan = entries]
         IN  Sound(r) /\ Agrees(r, d)
<1> DEFINE r == [d EXCEPT !.vlan = entries]
<1>1. r \in Device /\ r.vlan = entries
  BY DEF Device, EntryType
<1>2. /\ r.mapped = d.mapped /\ r.talker = d.talker /\ r.source = d.source /\ r.sink = d.sink
      /\ r.unit = d.unit /\ r.route = d.route
      /\ r.begun = d.begun /\ r.advertised = d.advertised /\ r.shaped = d.shaped
      /\ r.listening = d.listening /\ r.told = d.told
      /\ r.live = d.live /\ r.stranded = d.stranded
      /\ r.moved = d.moved /\ r.robbed = d.robbed
  BY DEF Device
<1> HIDE DEF r
<1>3. OneEntry(r) /\ \A w : Joined(d, w) => Joined(r, w)
  BY <1>1 DEF Sound, OneEntry, Joined, EntriesOf
<1>4. VlanIsJoined(r)
  BY <1>2, <1>3 DEF Sound, VlanIsJoined, VlanOf
<1>5. Sound(r)
  BY <1>1, <1>2, <1>3, <1>4 DEF Sound, IsOff, MappedIsOn, IsShaped, HoldsItsMap, Holds, LiveIsOn,
     IsRouted, SourceOn, SinkOn
<1> QED
  BY <1>2, <1>5 DEF Agrees, r

LEMMA AgreesTells ==
  ASSUME NEW d, NEW r, Agrees(r, d), Tells(d)
  PROVE  Tells(r)
BY DEF Agrees, Tells

\* The devices that are sound and, in the demo, tell the addresses.
Good(demo) == {d \in Device : Sound(d) /\ (demo => Tells(d))}

LEMMA StatesKeepGood ==
  ASSUME NEW demo \in BOOLEAN, NEW d \in Good(demo), NEW new \in State
  PROVE  /\ \A s \in Source : SetSourceState(d, s, new) \in Good(demo)
         /\ \A k \in Sink : SetSinkState(d, k, new) \in Good(demo)
<1>1. d \in Device /\ Sound(d) /\ (demo => Tells(d))
  BY DEF Good
<1>2. ASSUME NEW s \in Source PROVE SetSourceState(d, s, new) \in Good(demo)
  <2> DEFINE r == SetSourceState(d, s, new)
  <2>1. Sound(r) /\ Agrees(r, d)
    BY <1>1, SetSourceStateKeeps
  <2> HIDE DEF r
  <2>2. demo => Tells(r)
    BY <1>1, <2>1, AgreesTells
  <2> QED
    BY <2>1, <2>2 DEF Good, Sound, r
<1>3. ASSUME NEW k \in Sink PROVE SetSinkState(d, k, new) \in Good(demo)
  <2> DEFINE r == SetSinkState(d, k, new)
  <2>1. Sound(r) /\ Agrees(r, d)
    BY <1>1, SetSinkStateKeeps
  <2> HIDE DEF r
  <2>2. demo => Tells(r)
    BY <1>1, <2>1, AgreesTells
  <2> QED
    BY <2>1, <2>2 DEF Good, Sound, r
<1> QED
  BY <1>2, <1>3

LEMMA ReservedKeepsGood ==
  ASSUME NEW demo \in BOOLEAN, NEW d \in Good(demo), NEW s \in Source, NEW a \in Address
  PROVE  IF demo THEN Reserved(d, s, a) \in Good(demo)
         ELSE ReservedRestarts(d, s, a) \in Good(demo)
<1>1. d \in Device /\ Sound(d) /\ (demo => Tells(d))
  BY DEF Good
<1>2. CASE demo
  BY <1>1, <1>2, ReservedKeeps DEF Good, Sound
<1>3. CASE ~demo
  <2> DEFINE r == ReservedRestarts(d, s, a)
  <2>1. Sound(r)
    BY <1>1, ReservedRestartsKeeps
  <2> HIDE DEF r
  <2>2. r \in Good(demo)
    BY <1>3, <2>1 DEF Good, Sound
  <2> QED
    BY <1>3, <2>2 DEF r
<1> QED
  BY <1>2, <1>3

\* The whole link goes down: every source, then every sink.
LEMMA LinkDownKeeps ==
  ASSUME NEW demo \in BOOLEAN, dev \in Good(demo), LinkDown
  PROVE  dev' \in Good(demo)
<1> DEFINE N == Cardinality(Source)
           M == Cardinality(Sink)
           D == Good(demo)
           sources[s \in {0} \union Source] ==
             IF s = 0 THEN dev ELSE SetSourceState(sources[s - 1], s, "DISABLED")
           sinks[k \in {0} \union Sink] ==
             IF k = 0 THEN sources[Cardinality(Source)]
             ELSE SetSinkState(sinks[k - 1], k, "DISABLED")
           G == [p \in (1 .. N) \X D |-> SetSourceState(p[2], p[1], "DISABLED")]
           H == [p \in (1 .. M) \X D |-> SetSinkState(p[2], p[1], "DISABLED")]
<1>1. N \in Nat /\ Source = 1 .. N /\ M \in Nat /\ Sink = 1 .. M /\ "DISABLED" \in State
  BY StreamNumbers DEF State
<1>2. dev' = sinks[M]
  BY DEF LinkDown
<1> HIDE DEF N, M
<1>3. /\ \A s \in 1 .. N, x \in D : SetSourceState(x, s, "DISABLED") \in D
      /\ \A k \in 1 .. M, x \in D : SetSinkState(x, k, "DISABLED") \in D
  BY <1>1, StatesKeepGood
<1> HIDE DEF D
<1>4. dev \in D
  BY DEF D
<1>5. sources[N] \in D
  <2>1. \A s \in 1 .. N, x \in D :
          G[<<s, x>>] \in D /\ G[<<s, x>>] = SetSourceState(x, s, "DISABLED")
    BY <1>3
  <2> HIDE DEF G
  <2>2. PICK f \in [0 .. N -> D] : IsRun(f, N, dev, G)
    BY <1>1, <1>4, <2>1, RunExists
  <2>3. f[0] = dev /\ \A s \in 1 .. N : f[s] = SetSourceState(f[s - 1], s, "DISABLED")
    <3>1. \A s \in 1 .. N : s - 1 \in 0 .. N
      BY <1>1
    <3>2. \A s \in 1 .. N : f[s - 1] \in D
      BY <2>2, <3>1
    <3> QED
      BY <2>1, <2>2, <3>2 DEF IsRun
  <2>4. f = [s \in {0} \union Source |->
               IF s = 0 THEN dev ELSE SetSourceState(f[s - 1], s, "DISABLED")]
    <3>1. {0} \union Source = 0 .. N
      BY <1>1
    <3>2. \A s \in 0 .. N : f[s] = IF s = 0 THEN dev ELSE SetSourceState(f[s - 1], s, "DISABLED")
      BY <1>1, <2>3
    <3> QED
      BY <2>2, <3>1, <3>2
  <2>5. sources = [s \in {0} \union Source |->
               IF s = 0 THEN dev ELSE SetSourceState(sources[s - 1], s, "DISABLED")]
    BY <2>4
  <2> HIDE DEF sources
  <2>6. sources[0] = dev /\ \A s \in 1 .. N : sources[s - 1] \in D => sources[s] \in D
    BY <1>1, <1>3, <2>5
  <2> QED
    BY <1>1, <1>4, <2>6, RunStays
<1> DEFINE start == sources[Cardinality(Source)]
<1>6. start \in D
  BY <1>5 DEF N
<1>7. sinks = CHOOSE f : f = [k \in {0} \union Sink |->
                IF k = 0 THEN start ELSE SetSinkState(f[k - 1], k, "DISABLED")]
  OBVIOUS
<1> HIDE DEF sources
<1>8. sinks[M] \in D
  <2> HIDE DEF start
  <2>1. \A k \in 1 .. M, x \in D :
          H[<<k, x>>] \in D /\ H[<<k, x>>] = SetSinkState(x, k, "DISABLED")
    BY <1>3
  <2> HIDE DEF H
  <2>2. PICK f \in [0 .. M -> D] : IsRun(f, M, start, H)
    BY <1>1, <1>6, <2>1, RunExists
  <2>3. f[0] = start /\ \A k \in 1 .. M : f[k] = SetSinkState(f[k - 1], k, "DISABLED")
    <3>1. \A k \in 1 .. M : k - 1 \in 0 .. M
      BY <1>1
    <3>2. \A k \in 1 .. M : f[k - 1] \in D
      BY <2>2, <3>1
    <3> QED
      BY <2>1, <2>2, <3>2 DEF IsRun
  <2>4. f = [k \in {0} \union Sink |->
               IF k = 0 THEN start ELSE SetSinkState(f[k - 1], k, "DISABLED")]
    <3>1. {0} \union Sink = 0 .. M
      BY <1>1
    <3>2. \A k \in 0 .. M : f[k] = IF k = 0 THEN start ELSE SetSinkState(f[k - 1], k, "DISABLED")
      BY <1>1, <2>3
    <3> QED
      BY <2>2, <3>1, <3>2
  <2>5. sinks = [k \in {0} \union Sink |->
               IF k = 0 THEN start ELSE SetSinkState(sinks[k - 1], k, "DISABLED")]
    BY <2>4, <1>7
  <2> HIDE DEF sinks
  <2>6. sinks[0] = start /\ \A k \in 1 .. M : sinks[k - 1] \in D => sinks[k] \in D
    BY <1>1, <1>3, <2>5
  <2> QED
    BY <1>1, <1>6, <2>6, RunStays
<1> QED
  BY <1>2, <1>8 DEF D


\* The channel button: the sinks that are on go off, and come on again.
LEMMA SelectChannelKeeps ==
  ASSUME NEW demo \in BOOLEAN, dev \in Good(demo), SelectChannel
  PROVE  dev' \in Good(demo)
<1> DEFINE M == Cardinality(Sink)
           D == Good(demo)
           off[k \in {0} \union Sink] ==
             IF k = 0 THEN dev
             ELSE IF SinkOn(dev, k) THEN SetSinkState(off[k - 1], k, "DISABLED") ELSE off[k - 1]
           on[k \in {0} \union Sink] ==
             IF k = 0 THEN off[Cardinality(Sink)]
             ELSE IF SinkOn(dev, k) THEN SetSinkState(on[k - 1], k, "POTENTIAL") ELSE on[k - 1]
           G == [p \in (1 .. M) \X D |->
                  IF SinkOn(dev, p[1]) THEN SetSinkState(p[2], p[1], "DISABLED") ELSE p[2]]
           H == [p \in (1 .. M) \X D |->
                  IF SinkOn(dev, p[1]) THEN SetSinkState(p[2], p[1], "POTENTIAL") ELSE p[2]]
<1>1. M \in Nat /\ Sink = 1 .. M /\ "DISABLED" \in State /\ "POTENTIAL" \in State
  BY StreamNumbers DEF State
<1>2. dev' = on[M]
  BY DEF SelectChannel, Step
<1> HIDE DEF M
<1>3. \A k \in 1 .. M, x \in D : /\ SetSinkState(x, k, "DISABLED") \in D
                                /\ SetSinkState(x, k, "POTENTIAL") \in D
  BY <1>1, StatesKeepGood
<1> HIDE DEF D
<1>4. dev \in D
  BY DEF D
<1>5. off[M] \in D
  <2>1. \A k \in 1 .. M, x \in D : G[<<k, x>>] \in D
    BY <1>3
  <2>2. \A k \in 1 .. M, x \in D :
          G[<<k, x>>] = IF SinkOn(dev, k) THEN SetSinkState(x, k, "DISABLED") ELSE x
    OBVIOUS
  <2> HIDE DEF G
  <2>3. PICK f \in [0 .. M -> D] : IsRun(f, M, dev, G)
    BY <1>1, <1>4, <2>1, RunExists
  <2>4. /\ f[0] = dev
        /\ \A k \in 1 .. M :
             f[k] = IF SinkOn(dev, k) THEN SetSinkState(f[k - 1], k, "DISABLED") ELSE f[k - 1]
    <3>1. \A k \in 1 .. M : k - 1 \in 0 .. M
      BY <1>1
    <3>2. \A k \in 1 .. M : f[k - 1] \in D
      BY <2>3, <3>1
    <3> QED
      BY <2>2, <2>3, <3>2 DEF IsRun
  <2>5. f = [k \in {0} \union Sink |->
               IF k = 0 THEN dev
               ELSE IF SinkOn(dev, k) THEN SetSinkState(f[k - 1], k, "DISABLED") ELSE f[k - 1]]
    <3>1. {0} \union Sink = 0 .. M
      BY <1>1
    <3>2. \A k \in 0 .. M :
            f[k] = IF k = 0 THEN dev
                   ELSE IF SinkOn(dev, k) THEN SetSinkState(f[k - 1], k, "DISABLED") ELSE f[k - 1]
      BY <1>1, <2>4
    <3> QED
      BY <2>3, <3>1, <3>2
  <2>6. off = [k \in {0} \union Sink |->
               IF k = 0 THEN dev
               ELSE IF SinkOn(dev, k) THEN SetSinkState(off[k - 1], k, "DISABLED") ELSE off[k - 1]]
    BY <2>5
  <2> HIDE DEF off
  <2>7. /\ off[0] = dev
        /\ \A k \in 1 .. M : off[k - 1] \in D => off[k] \in D
    BY <1>1, <1>3, <2>6
  <2> QED
    BY <1>1, <1>4, <2>7, RunStays
<1> DEFINE start == off[Cardinality(Sink)]
<1>6. start \in D
  BY <1>5 DEF M
<1>7. on = CHOOSE f : f = [k \in {0} \union Sink |->
             IF k = 0 THEN start
             ELSE IF SinkOn(dev, k) THEN SetSinkState(f[k - 1], k, "POTENTIAL") ELSE f[k - 1]]
  OBVIOUS
<1> HIDE DEF off
<1>8. on[M] \in D
  <2> HIDE DEF start
  <2>1. \A k \in 1 .. M, x \in D : H[<<k, x>>] \in D
    BY <1>3
  <2>2. \A k \in 1 .. M, x \in D :
          H[<<k, x>>] = IF SinkOn(dev, k) THEN SetSinkState(x, k, "POTENTIAL") ELSE x
    OBVIOUS
  <2> HIDE DEF H
  <2>3. PICK f \in [0 .. M -> D] : IsRun(f, M, start, H)
    BY <1>1, <1>6, <2>1, RunExists
  <2>4. /\ f[0] = start
        /\ \A k \in 1 .. M :
             f[k] = IF SinkOn(dev, k) THEN SetSinkState(f[k - 1], k, "POTENTIAL") ELSE f[k - 1]
    <3>1. \A k \in 1 .. M : k - 1 \in 0 .. M
      BY <1>1
    <3>2. \A k \in 1 .. M : f[k - 1] \in D
      BY <2>3, <3>1
    <3> QED
      BY <2>2, <2>3, <3>2 DEF IsRun
  <2>5. f = [k \in {0} \union Sink |->
               IF k = 0 THEN start
               ELSE IF SinkOn(dev, k) THEN SetSinkState(f[k - 1], k, "POTENTIAL") ELSE f[k - 1]]
    <3>1. {0} \union Sink = 0 .. M
      BY <1>1
    <3>2. \A k \in 0 .. M :
            f[k] = IF k = 0 THEN start
                   ELSE IF SinkOn(dev, k) THEN SetSinkState(f[k - 1], k, "POTENTIAL") ELSE f[k - 1]
      BY <1>1, <2>4
    <3> QED
      BY <2>3, <3>1, <3>2
  <2>6. on = [k \in {0} \union Sink |->
               IF k = 0 THEN start
               ELSE IF SinkOn(dev, k) THEN SetSinkState(on[k - 1], k, "POTENTIAL") ELSE on[k - 1]]
    BY <2>5, <1>7
  <2> HIDE DEF on
  <2>7. /\ on[0] = start
        /\ \A k \in 1 .. M : on[k - 1] \in D => on[k] \in D
    BY <1>1, <1>3, <2>6
  <2> QED
    BY <1>1, <1>6, <2>7, RunStays
<1> QED
  BY <1>2, <1>8 DEF D

\* An address is reserved for every source in turn.
LEMMA AddressesReservedKeeps ==
  ASSUME chosen \in Scenario, dev \in Good(chosen.demo), AddressesReserved
  PROVE  dev' \in Good(chosen.demo)
<1> DEFINE N == Cardinality(Source)
           D == Good(chosen.demo)
<1>1. N \in Nat /\ Source = 1 .. N /\ chosen.demo \in BOOLEAN
  BY StreamNumbers, StreamsAssumption
<1>2. PICK a \in chosen.addresses :
        LET upto[s \in {0} \union Source] ==
              IF s = 0 THEN dev
              ELSE IF chosen.demo THEN Reserved(upto[s - 1], s, a)
              ELSE ReservedRestarts(upto[s - 1], s, a)
        IN  Step(upto[Cardinality(Source)])
  BY DEF AddressesReserved
<1> DEFINE upto[s \in {0} \union Source] ==
             IF s = 0 THEN dev
             ELSE IF chosen.demo THEN Reserved(upto[s - 1], s, a)
             ELSE ReservedRestarts(upto[s - 1], s, a)
           G == [p \in (1 .. N) \X D |->
                  IF chosen.demo THEN Reserved(p[2], p[1], a)
                  ELSE ReservedRestarts(p[2], p[1], a)]
<1>6. dev' = upto[N]
  BY <1>2 DEF Step
<1>7. a \in Address
  BY DEF Address
<1> HIDE DEF N
<1>3. \A s \in 1 .. N, x \in D : IF chosen.demo THEN Reserved(x, s, a) \in D
                                ELSE ReservedRestarts(x, s, a) \in D
  BY <1>1, <1>7, ReservedKeepsGood
<1> HIDE DEF D
<1>4. dev \in D
  BY DEF D
<1>5. upto[N] \in D
  <2>1. \A s \in 1 .. N, x \in D : G[<<s, x>>] \in D
    BY <1>3
  <2>2. \A s \in 1 .. N, x \in D :
          G[<<s, x>>] = IF chosen.demo THEN Reserved(x, s, a)
          ELSE ReservedRestarts(x, s, a)
    OBVIOUS
  <2> HIDE DEF G
  <2>3. PICK f \in [0 .. N -> D] : IsRun(f, N, dev, G)
    BY <1>1, <1>4, <2>1, RunExists
  <2>4. /\ f[0] = dev
        /\ \A s \in 1 .. N :
             f[s] = IF chosen.demo THEN Reserved(f[s - 1], s, a)
             ELSE ReservedRestarts(f[s - 1], s, a)
    <3>1. \A s \in 1 .. N : s - 1 \in 0 .. N
      BY <1>1
    <3>2. \A s \in 1 .. N : f[s - 1] \in D
      BY <2>3, <3>1
    <3> QED
      BY <2>2, <2>3, <3>2 DEF IsRun
  <2>5. f = [s \in {0} \union Source |->
               IF s = 0 THEN dev
               ELSE IF chosen.demo THEN Reserved(f[s - 1], s, a)
               ELSE ReservedRestarts(f[s - 1], s, a)]
    <3>1. {0} \union Source = 0 .. N
      BY <1>1
    <3>2. \A s \in 0 .. N :
            f[s] = IF s = 0 THEN dev
                   ELSE IF chosen.demo THEN Reserved(f[s - 1], s, a)
                   ELSE ReservedRestarts(f[s - 1], s, a)
      BY <1>1, <2>4
    <3> QED
      BY <2>3, <3>1, <3>2
  <2>6. upto = [s \in {0} \union Source |->
               IF s = 0 THEN dev
               ELSE IF chosen.demo THEN Reserved(upto[s - 1], s, a)
               ELSE ReservedRestarts(upto[s - 1], s, a)]
    BY <2>5
  <2> HIDE DEF upto
  <2>7. /\ upto[0] = dev
        /\ \A s \in 1 .. N : upto[s - 1] \in D => upto[s] \in D
    BY <1>1, <1>3, <2>6
  <2> QED
    BY <1>1, <1>4, <2>7, RunStays
<1> QED
  BY <1>5, <1>6 DEF D


-----------------------------------------------------------------------------
(***************************************************************************)
(* The invariant.                                                          *)
(***************************************************************************)
LEMMA InvIsGood ==
  IInv <=> chosen \in Scenario /\ link \in BOOLEAN /\ dev \in Good(chosen.demo)
BY DEF IInv, Good, Sound

LEMMA SettersKeepGood ==
  ASSUME NEW demo \in BOOLEAN, NEW d \in Good(demo)
  PROVE  /\ \A s \in Source, m \in SUBSET Input :
              SetSource(d, s, [d.source[s] EXCEPT !.map = m]) \in Good(demo)
         /\ \A s \in Source, v \in Vlan :
              SetSource(d, s, [d.source[s] EXCEPT !.vlan = v]) \in Good(demo)
         /\ \A k \in Sink, v \in Vlan :
              SetSink(d, k, [d.sink[k] EXCEPT !.vlan = v]) \in Good(demo)
         /\ \A k \in Sink, id \in StreamId :
              SetSink(d, k, [d.sink[k] EXCEPT !.id = id]) \in Good(demo)
<1>1. d \in Device /\ Sound(d) /\ (demo => Tells(d))
  BY DEF Good
<1>2. ASSUME NEW s \in Source,
             NEW src \in [state : State, map : SUBSET Input, dest : Address, vlan : Vlan],
             src.state = d.source[s].state, src.dest = d.source[s].dest
      PROVE  SetSource(d, s, src) \in Good(demo)
  <2> DEFINE r == SetSource(d, s, src)
  <2>1. /\ Sound(r) /\ r.told = d.told /\ r.moved = d.moved
        /\ r.source[s] = IF SourceOn(d, s) THEN d.source[s] ELSE src
        /\ \A t \in Source \ {s} : r.source[t] = d.source[t]
    BY <1>1, <1>2, SetSourceKeeps
  <2> HIDE DEF r
  <2>2. Agrees(r, d)
    BY <1>2, <2>1 DEF Agrees
  <2>3. demo => Tells(r)
    BY <1>1, <2>2, AgreesTells
  <2> QED
    BY <2>1, <2>3 DEF Good, Sound, r
<1>3. ASSUME NEW k \in Sink, NEW snk \in [state : State, id : StreamId, vlan : Vlan],
             snk.state = d.sink[k].state
      PROVE  SetSink(d, k, snk) \in Good(demo)
  <2> DEFINE r == SetSink(d, k, snk)
  <2>1. Sound(r) /\ Agrees(r, d)
    BY <1>1, <1>3, SetSinkKeeps
  <2> HIDE DEF r
  <2>2. demo => Tells(r)
    BY <1>1, <2>1, AgreesTells
  <2> QED
    BY <2>1, <2>2 DEF Good, Sound, r
<1>4. ASSUME NEW s \in Source
      PROVE  /\ \A m \in SUBSET Input :
                  SetSource(d, s, [d.source[s] EXCEPT !.map = m]) \in Good(demo)
             /\ \A v \in Vlan : SetSource(d, s, [d.source[s] EXCEPT !.vlan = v]) \in Good(demo)
  <2>1. d.source[s] \in [state : State, map : SUBSET Input, dest : Address, vlan : Vlan]
    BY <1>1 DEF Device
  <2>2. ASSUME NEW m \in SUBSET Input
        PROVE  SetSource(d, s, [d.source[s] EXCEPT !.map = m]) \in Good(demo)
    <3> DEFINE src == [d.source[s] EXCEPT !.map = m]
    <3>1. src \in [state : State, map : SUBSET Input, dest : Address, vlan : Vlan]
          /\ src.state = d.source[s].state /\ src.dest = d.source[s].dest
      BY <2>1
    <3> HIDE DEF src
    <3>2. SetSource(d, s, src) \in Good(demo)
      BY <1>2, <3>1
    <3> QED
      BY <3>2 DEF src
  <2>3. ASSUME NEW v \in Vlan
        PROVE  SetSource(d, s, [d.source[s] EXCEPT !.vlan = v]) \in Good(demo)
    <3> DEFINE src == [d.source[s] EXCEPT !.vlan = v]
    <3>1. src \in [state : State, map : SUBSET Input, dest : Address, vlan : Vlan]
          /\ src.state = d.source[s].state /\ src.dest = d.source[s].dest
      BY <2>1
    <3> HIDE DEF src
    <3>2. SetSource(d, s, src) \in Good(demo)
      BY <1>2, <3>1
    <3> QED
      BY <3>2 DEF src
  <2> QED
    BY <2>2, <2>3
<1>5. ASSUME NEW k \in Sink
      PROVE  /\ \A v \in Vlan : SetSink(d, k, [d.sink[k] EXCEPT !.vlan = v]) \in Good(demo)
             /\ \A id \in StreamId : SetSink(d, k, [d.sink[k] EXCEPT !.id = id]) \in Good(demo)
  <2>1. d.sink[k] \in [state : State, id : StreamId, vlan : Vlan]
    BY <1>1 DEF Device
  <2>2. ASSUME NEW v \in Vlan
        PROVE  SetSink(d, k, [d.sink[k] EXCEPT !.vlan = v]) \in Good(demo)
    <3> DEFINE snk == [d.sink[k] EXCEPT !.vlan = v]
    <3>1. snk \in [state : State, id : StreamId, vlan : Vlan] /\ snk.state = d.sink[k].state
      BY <2>1
    <3> HIDE DEF snk
    <3>2. SetSink(d, k, snk) \in Good(demo)
      BY <1>3, <3>1
    <3> QED
      BY <3>2 DEF snk
  <2>3. ASSUME NEW id \in StreamId
        PROVE  SetSink(d, k, [d.sink[k] EXCEPT !.id = id]) \in Good(demo)
    <3> DEFINE snk == [d.sink[k] EXCEPT !.id = id]
    <3>1. snk \in [state : State, id : StreamId, vlan : Vlan] /\ snk.state = d.sink[k].state
      BY <2>1
    <3> HIDE DEF snk
    <3>2. SetSink(d, k, snk) \in Good(demo)
      BY <1>3, <3>1
    <3> QED
      BY <3>2 DEF snk
  <2> QED
    BY <2>2, <2>3
<1> QED
  BY <1>4, <1>5

LEMMA VlanMessagesKeepGood ==
  ASSUME NEW demo \in BOOLEAN, NEW d \in Good(demo)
  PROVE  /\ \A e \in Entry : d.vlan[e].member = "leaving" =>
              [d EXCEPT !.vlan[e].member = "out"] \in Good(demo)
         /\ [d EXCEPT !.vlan = [e \in Entry |->
               IF @[e].active /\ @[e].member = "out" THEN [@[e] EXCEPT !.member = "leaving"]
               ELSE @[e]]] \in Good(demo)
<1>1. d \in Device /\ Sound(d) /\ (demo => Tells(d)) /\ d.vlan \in [Entry -> EntryType]
  BY DEF Good, Device, EntryType
<1>2. ASSUME NEW entries \in [Entry -> EntryType],
             \A e \in Entry : /\ entries[e].active = d.vlan[e].active
                              /\ entries[e].vlan = d.vlan[e].vlan
                              /\ d.vlan[e].member = "in" => entries[e].member = "in"
      PROVE  [d EXCEPT !.vlan = entries] \in Good(demo)
  <2> DEFINE r == [d EXCEPT !.vlan = entries]
  <2>1. Sound(r) /\ Agrees(r, d)
    BY <1>1, <1>2, VlanChangeKeeps
  <2> HIDE DEF r
  <2>2. demo => Tells(r)
    BY <1>1, <2>1, AgreesTells
  <2> QED
    BY <2>1, <2>2 DEF Good, Sound, r
<1>3. ASSUME NEW e \in Entry, d.vlan[e].member = "leaving"
      PROVE  [d EXCEPT !.vlan[e].member = "out"] \in Good(demo)
  <2> DEFINE entry == [d.vlan[e] EXCEPT !.member = "out"]
             entries == [d.vlan EXCEPT ![e] = entry]
  <2>1. entry \in EntryType /\ entry.active = d.vlan[e].active /\ entry.vlan = d.vlan[e].vlan
    <3>1. d.vlan[e] \in EntryType
      BY <1>1
    <3> QED
      BY <3>1 DEF EntryType
  <2>2. [d EXCEPT !.vlan[e].member = "out"] = [d EXCEPT !.vlan = entries]
    BY <1>1 DEF Device
  <2> HIDE DEF entry
  <2>3. entries \in [Entry -> EntryType] /\ entries[e] = entry
        /\ \A f \in Entry \ {e} : entries[f] = d.vlan[f]
    BY <1>1, <2>1
  <2> HIDE DEF entries
  <2>4. \A f \in Entry : /\ entries[f].active = d.vlan[f].active
                         /\ entries[f].vlan = d.vlan[f].vlan
                         /\ d.vlan[f].member = "in" => entries[f].member = "in"
    BY <1>3, <2>1, <2>3
  <2> QED
    BY <1>2, <2>2, <2>3, <2>4
<1>4. [d EXCEPT !.vlan = [e \in Entry |->
         IF @[e].active /\ @[e].member = "out" THEN [@[e] EXCEPT !.member = "leaving"]
         ELSE @[e]]] \in Good(demo)
  <2> DEFINE leaving(e) == [d.vlan[e] EXCEPT !.member = "leaving"]
             entries == [e \in Entry |->
               IF d.vlan[e].active /\ d.vlan[e].member = "out" THEN leaving(e) ELSE d.vlan[e]]
  <2>1. \A e \in Entry : /\ leaving(e) \in EntryType /\ leaving(e).active = d.vlan[e].active
                         /\ leaving(e).vlan = d.vlan[e].vlan
    <3> TAKE e \in Entry
    <3>1. d.vlan[e] \in EntryType
      BY <1>1
    <3> QED
      BY <3>1 DEF EntryType
  <2>2. [d EXCEPT !.vlan = [e \in Entry |->
           IF @[e].active /\ @[e].member = "out" THEN [@[e] EXCEPT !.member = "leaving"]
           ELSE @[e]]] = [d EXCEPT !.vlan = entries]
    BY <1>1 DEF Device
  <2> HIDE DEF leaving
  <2>3. entries \in [Entry -> EntryType]
    BY <1>1, <2>1
  <2>4. \A f \in Entry : /\ entries[f].active = d.vlan[f].active
                         /\ entries[f].vlan = d.vlan[f].vlan
                         /\ d.vlan[f].member = "in" => entries[f].member = "in"
    BY <2>1
  <2> HIDE DEF entries
  <2> QED
    BY <1>2, <2>2, <2>3, <2>4
<1> QED
  BY <1>3, <1>4

LEMMA InitInv ==
  ASSUME Init
  PROVE  IInv
<1>1. chosen \in Scenario /\ link \in BOOLEAN /\ chosen.maps \subseteq SUBSET Input
  BY StreamsAssumption DEF Init
<1>2. PICK map \in [Source -> chosen.maps] :
       dev = [source |-> [s \in Source |-> [state |-> "DISABLED", map |-> map[s],
                                           dest |-> NoAddress, vlan |-> DefaultVlan]],
              mapped |-> [i \in Input |-> Unmapped],
              talker |-> [s \in Source |-> [active |-> 0, inputs |-> {}, dest |-> NoAddress]],
              sink |-> [k \in Sink |-> [state |-> "DISABLED", id |-> NoStream,
                                       vlan |-> DefaultVlan]],
              unit |-> {}, route |-> [k \in Sink |-> NoStream],
              vlan |-> [e \in Entry |-> [active |-> FALSE, vlan |-> 0, member |-> "out"]],
              begun |-> {}, advertised |-> {}, listening |-> {}, shaped |-> {},
              told |-> [s \in Source |-> NoAddress], answering |-> FALSE,
              live |-> {}, stranded |-> {}, moved |-> {}, robbed |-> {}]
  BY DEF Init
<1>13. /\ dev.source = [s \in Source |-> [state |-> "DISABLED", map |-> map[s],
                                           dest |-> NoAddress, vlan |-> DefaultVlan]]
       /\ dev.talker = [s \in Source |-> [active |-> 0, inputs |-> {}, dest |-> NoAddress]]
       /\ dev.sink = [k \in Sink |-> [state |-> "DISABLED", id |-> NoStream,
                                      vlan |-> DefaultVlan]]
  BY <1>2
<1>14. /\ dev.mapped = [i \in Input |-> Unmapped]
       /\ dev.route = [k \in Sink |-> NoStream]
       /\ dev.vlan = [e \in Entry |-> [active |-> FALSE, vlan |-> 0, member |-> "out"]]
       /\ dev.told = [s \in Source |-> NoAddress]
  BY <1>2
<1>3. /\ dev.source \in [Source -> [state : State, map : SUBSET Input, dest : Address, vlan : Vlan]]
      /\ \A s \in Source : dev.source[s].state = "DISABLED" /\ dev.source[s].dest = NoAddress
  <2>1. "DISABLED" \in State /\ NoAddress \in Address /\ DefaultVlan \in Vlan
    BY DEF State, Address, Vlan
  <2>2. \A s \in Source : map[s] \in SUBSET Input
    BY <1>1
  <2> QED
    BY <1>13, <2>1, <2>2
<1>4. /\ dev.talker \in [Source -> [active : 0 .. 2, inputs : SUBSET Input, dest : Address]]
      /\ \A s \in Source : dev.talker[s].active = 0
  <2>1. NoAddress \in Address
    BY DEF Address
  <2> QED
    BY <1>13, <2>1
<1>5. /\ dev.sink \in [Sink -> [state : State, id : StreamId, vlan : Vlan]]
      /\ dev.route \in [Sink -> StreamId]
  <2>1. "DISABLED" \in State /\ NoStream \in StreamId /\ DefaultVlan \in Vlan
    BY DEF State, StreamId, Vlan
  <2> QED
    BY <1>13, <1>14, <2>1
<1>6. /\ dev.vlan \in [Entry -> [active : BOOLEAN, vlan : Vlan, member : {"out", "in", "leaving"}]]
      /\ \A e \in Entry : ~dev.vlan[e].active
  <2>1. 0 \in Vlan
    BY DEF Vlan
  <2> QED
    BY <1>14, <2>1
<1>7. /\ dev.mapped \in [Input -> Source \union {Unmapped}]
      /\ \A i \in Input : dev.mapped[i] = Unmapped
      /\ dev.told \in [Source -> Address] /\ \A s \in Source : dev.told[s] = NoAddress
  <2>1. NoAddress \in Address
    BY DEF Address
  <2> QED
    BY <1>14, <2>1
<1>8. /\ dev.unit = {} /\ dev.begun = {} /\ dev.advertised = {} /\ dev.listening = {}
      /\ dev.shaped = {} /\ dev.answering = FALSE /\ dev.live = {} /\ dev.stranded = {}
      /\ dev.moved = {} /\ dev.robbed = {}
  BY <1>2
<1>9. dev \in Device
  <2>1. dev = [source |-> dev.source, mapped |-> dev.mapped, talker |-> dev.talker,
               sink |-> dev.sink, unit |-> dev.unit, route |-> dev.route, vlan |-> dev.vlan,
               begun |-> dev.begun, advertised |-> dev.advertised,
               listening |-> dev.listening, shaped |-> dev.shaped, told |-> dev.told,
               answering |-> dev.answering, live |-> dev.live, stranded |-> dev.stranded,
               moved |-> dev.moved, robbed |-> dev.robbed]
    BY <1>2
  <2> QED
    BY <1>3, <1>4, <1>5, <1>6, <1>7, <1>8, <2>1 DEF Device
<1>10. \A s \in Source : ~SourceOn(dev, s)
  BY <1>3 DEF SourceOn
<1>11. Sound(dev)
  BY <1>4, <1>6, <1>7, <1>8, <1>9, <1>10 DEF Sound, IsOff, MappedIsOn, IsShaped, HoldsItsMap, Holds,
     LiveIsOn, VlanIsJoined, OneEntry, IsRouted
<1>12. Tells(dev)
  BY <1>3, <1>7 DEF Tells
<1> QED
  BY <1>1, <1>11, <1>12 DEF IInv


LEMMA NextInv ==
  ASSUME IInv, Next
  PROVE  IInv'
<1> DEFINE D == Good(chosen.demo)
<1>1. chosen \in Scenario /\ link \in BOOLEAN /\ dev \in D /\ chosen.demo \in BOOLEAN
  BY InvIsGood, StreamsAssumption
<1>2. chosen' = chosen /\ link' \in BOOLEAN /\ dev' \in D => IInv'
  <2> SUFFICES ASSUME chosen' = chosen, link' \in BOOLEAN, dev' \in D PROVE IInv'
    OBVIOUS
  <2> QED
    BY <1>1 DEF IInv, Good, Sound
<1>3. /\ chosen.sources \subseteq Source /\ chosen.sinks \subseteq Sink
      /\ chosen.maps \subseteq SUBSET Input /\ chosen.vlans \subseteq Vlan
      /\ chosen.ids \subseteq StreamId
  BY <1>1, StreamsAssumption DEF Vlan, StreamId
<1>4. "DISABLED" \in State /\ "POTENTIAL" \in State /\ "ENABLED" \in State
  BY DEF State
<1>5. \A d \in D : Step(d) => IInv'
  BY <1>1, <1>2 DEF Step
<1>6. ASSUME NEW s \in chosen.sources,
             \/ SetSourceMap(s) \/ SetSourceVlan(s)
             \/ TalkerConnect(s) \/ TalkerDisconnect(s)
             \/ ListenerReady(s) \/ ListenerLeft(s)
             \/ StartSource(s) \/ StopSource(s)
      PROVE  IInv'
  <2>1. s \in Source
    BY <1>3
  <2>2. \A new \in State : Step(SetSourceState(dev, s, new)) => IInv'
    BY <1>1, <1>5, <2>1, StatesKeepGood
  <2>3. /\ \A m \in SUBSET Input : Step(SetSource(dev, s, [dev.source[s] EXCEPT !.map = m])) => IInv'
        /\ \A v \in Vlan : Step(SetSource(dev, s, [dev.source[s] EXCEPT !.vlan = v])) => IInv'
    BY <1>1, <1>5, <2>1, SettersKeepGood
  <2>4. CASE SetSourceMap(s)
    BY <1>3, <2>3, <2>4 DEF SetSourceMap
  <2>5. CASE SetSourceVlan(s)
    BY <1>3, <2>3, <2>5 DEF SetSourceVlan
  <2>6. CASE TalkerConnect(s)
    BY <1>4, <2>2, <2>6 DEF TalkerConnect
  <2>7. CASE TalkerDisconnect(s)
    BY <1>4, <2>2, <2>7 DEF TalkerDisconnect
  <2>8. CASE ListenerReady(s)
    BY <1>4, <2>2, <2>8 DEF ListenerReady
  <2>9. CASE ListenerLeft(s)
    BY <1>4, <2>2, <2>9 DEF ListenerLeft
  <2>10. CASE StartSource(s)
    BY <1>4, <2>2, <2>10 DEF StartSource
  <2>11. CASE StopSource(s)
    BY <1>4, <2>2, <2>11 DEF StopSource
  <2> QED
    BY <1>6, <2>4, <2>5, <2>6, <2>7, <2>8, <2>9, <2>10, <2>11
<1>7. ASSUME NEW k \in chosen.sinks,
             \/ SetSinkVlan(k) \/ ListenerConnect(k) \/ ListenerDisconnect(k)
             \/ StartSink(k) \/ StopSink(k)
      PROVE  IInv'
  <2>1. k \in Sink
    BY <1>3
  <2>2. \A d \in D, new \in State : Step(SetSinkState(d, k, new)) => IInv'
    BY <1>1, <1>5, <2>1, StatesKeepGood
  <2>3. /\ \A v \in Vlan : SetSink(dev, k, [dev.sink[k] EXCEPT !.vlan = v]) \in D
        /\ \A id \in StreamId : SetSink(dev, k, [dev.sink[k] EXCEPT !.id = id]) \in D
    BY <1>1, <2>1, SettersKeepGood
  <2>4. CASE SetSinkVlan(k)
    BY <1>3, <1>5, <2>3, <2>4 DEF SetSinkVlan
  <2>5. CASE ListenerConnect(k)
    BY <1>3, <1>4, <2>2, <2>3, <2>5 DEF ListenerConnect
  <2>6. CASE ListenerDisconnect(k)
    BY <1>1, <1>4, <2>2, <2>6 DEF ListenerDisconnect
  <2>7. CASE StartSink(k)
    BY <1>1, <1>4, <2>2, <2>7 DEF StartSink
  <2>8. CASE StopSink(k)
    BY <1>1, <1>4, <2>2, <2>8 DEF StopSink
  <2> QED
    BY <1>7, <2>4, <2>5, <2>6, <2>7, <2>8
<1>8. CASE AddressesReserved
  <2>1. chosen' = chosen /\ link' = link
    BY <1>8 DEF AddressesReserved, Step
  <2> QED
    BY <1>1, <1>2, <1>8, <2>1, AddressesReservedKeeps
<1>9. CASE SelectChannel
  <2>1. chosen' = chosen /\ link' = link
    BY <1>9 DEF SelectChannel, Step
  <2> QED
    BY <1>1, <1>2, <1>9, <2>1, SelectChannelKeeps
<1>10. CASE LinkUp
  BY <1>1, <1>2, <1>10 DEF LinkUp
<1>11. CASE LinkDown
  <2>1. chosen' = chosen /\ link' = FALSE
    BY <1>11 DEF LinkDown
  <2> QED
    BY <1>1, <1>2, <1>11, <2>1, LinkDownKeeps
<1>12. ASSUME NEW e \in Entry, VlanMessageSent(e)
       PROVE  IInv'
  <2>1. dev.vlan[e].member = "leaving" => [dev EXCEPT !.vlan[e].member = "out"] \in D
    BY <1>1, VlanMessagesKeepGood
  <2> QED
    BY <1>5, <1>12, <2>1 DEF VlanMessageSent
<1>13. CASE LeaveAllReceived
  <2>1. [dev EXCEPT !.vlan = [e \in Entry |->
           IF @[e].active /\ @[e].member = "out" THEN [@[e] EXCEPT !.member = "leaving"]
           ELSE @[e]]] \in D
    BY <1>1, VlanMessagesKeepGood
  <2> QED
    BY <1>5, <1>13, <2>1 DEF LeaveAllReceived
<1> QED
  BY <1>6, <1>7, <1>8, <1>9, <1>10, <1>11, <1>12, <1>13 DEF Next

\* Whatever the hooks, commands, indications and buttons do, and in whatever order,
\* the device stays sound; in the demo the addresses stay told (avb.c, and the
\* handlers of simple_demo_controller.c).
THEOREM Invariance == Spec => []IInv
<1>1. Init => IInv
  BY InitInv
<1>2. IInv /\ [Next]_vars => IInv'
  <2> SUFFICES ASSUME IInv, [Next]_vars PROVE IInv'
    OBVIOUS
  <2>1. CASE Next
    BY <2>1, NextInv
  <2>2. CASE UNCHANGED vars
    BY <2>2 DEF vars, IInv, Tells
  <2> QED
    BY <2>1, <2>2
<1> QED
  BY <1>1, <1>2, PTL DEF Spec

\* For every device: what a handler switched off is off in the talker and listener
\* units and in MSRP, and what sends is in the shaper's bandwidth (avb.c 253-273,
\* 375-560).
THEOREM UnitsAlwaysAgree == Spec => []UnitsAgree
<1>1. IInv => UnitsAgree
  <2> SUFFICES ASSUME IInv PROVE UnitsAgree
    OBVIOUS
  <2>1. TypeOK
    BY DEF IInv, Sound, TypeOK
  <2>2. OffMeansOff
    <3>1. \A s \in Source : s # Unmapped
      BY StreamNames
    <3> QED
      BY <3>1 DEF IInv, Sound, IsOff, MappedIsOn, OffMeansOff, Sending
  <2>3. ShaperCountsSenders
    BY DEF IInv, Sound, IsShaped, ShaperCountsSenders, Sending
  <2> QED
    BY <2>1, <2>2, <2>3 DEF UnitsAgree
<1> QED
  BY <1>1, Invariance, PTL

\* However the maps overlap and whatever else is switched on and off: no two sources
\* that hold their inputs send the same one.  A source turned on without being
\* configured does not hold its, nor does one whose inputs such a source has freed
\* (avb.c 387-403, 480-485).
THEOREM InputAlwaysFeedsOneStream == Spec => []InputFeedsOneStream
<1>1. IInv => InputFeedsOneStream
  <2> SUFFICES ASSUME IInv, NEW s \in Source, NEW t \in Source, s # t,
                      Holds(dev, s), Holds(dev, t)
               PROVE  dev.talker[s].inputs \intersect dev.talker[t].inputs = {}
    BY DEF InputFeedsOneStream
  <2>1. \A u \in {s, t} : /\ dev.talker[u].inputs = dev.source[u].map
                          /\ \A i \in dev.source[u].map : dev.mapped[i] = u
    BY DEF IInv, Sound, HoldsItsMap
  <2> QED
    BY <2>1
<1> QED
  BY <1>1, Invariance, PTL

\* Whatever table of VLANs the streams share: the VLAN of a running stream is joined,
\* unless there was no entry for it or the other side left it (avb.c 473-490,
\* 760-779, avb_mvrp.c 31-74).
THEOREM VlanOfStreamIsAlwaysJoined == Spec => []VlanOfStreamIsJoined
<1>1. IInv => VlanOfStreamIsJoined
  BY DEF IInv, Sound, VlanIsJoined, VlanOfStreamIsJoined
<1> QED
  BY <1>1, Invariance, PTL

\* Whenever MAAP reserves addresses, and for how many sources: in the demo a source
\* sends to the address ACMP tells, unless it has refused one
\* (simple_demo_controller.c 127-145).
THEOREM AddressIsAlwaysTold == Spec => []AddressIsTold
<1>1. IInv => AddressIsTold
  BY DEF IInv, Sound, LiveIsOn, Tells, AddressIsTold
<1> QED
  BY <1>1, Invariance, PTL

\* Though a sink that goes off stays in the router table: what is delivered to a sink
\* is of the stream the sink is set to, and a sink that receives is delivered its
\* stream unless one before it is still in the table with the same stream
\* (avb_1722_router_table_simple.c 36-73).
THEOREM SinkAlwaysHearsItsStream == Spec => []SinkHearsItsStream
<1>1. ASSUME IInv, NEW id \in StreamId, RouteOf(dev, id) # {}
      PROVE  LET m == Min(RouteOf(dev, id)) IN
             /\ Delivered(dev, id) = {m} \intersect dev.unit
             /\ m \in Sink /\ dev.route[m] = id
             /\ \A k \in RouteOf(dev, id) : k = m \/ m < k
  <2> DEFINE T == RouteOf(dev, id)
             m == Min(T)
  <2>1. T # {} /\ Delivered(dev, id) = {m} \intersect dev.unit
    BY <1>1 DEF Delivered
  <2>2. T \in SUBSET (1 .. Cardinality(Sink)) /\ Cardinality(Sink) \in Nat /\ T \subseteq Sink
    BY StreamNumbers DEF RouteOf
  <2>3. \A j \in T : dev.route[j] = id
    BY DEF RouteOf
  <2> HIDE DEF T
  <2>4. m \in T /\ \A k \in T : m <= k
    BY <2>1, <2>2, MinIsIn
  <2> HIDE DEF m
  <2>5. \A k \in T : k \in Nat
    BY <2>2
  <2>6. \A k \in T : k = m \/ m < k
    BY <2>4, <2>5
  <2>7. m \in Sink /\ dev.route[m] = id
    BY <2>2, <2>3, <2>4
  <2> QED
    BY <2>1, <2>6, <2>7 DEF m, T
<1>2. ASSUME IInv, NEW id \in StreamId, NEW k \in Delivered(dev, id)
      PROVE  dev.sink[k].id = id
  <2>1. RouteOf(dev, id) # {}
    BY <1>2 DEF Delivered
  <2> QED
    BY <1>1, <1>2, <2>1 DEF IInv, Sound, IsRouted
<1>3. ASSUME IInv, NEW k \in dev.unit, dev.sink[k].id # NoStream
      PROVE  \/ k \in Delivered(dev, dev.sink[k].id)
             \/ \E j \in Sink : j < k /\ dev.route[j] = dev.sink[k].id
  <2> DEFINE id == dev.sink[k].id
  <2>1. k \in Sink /\ id \in StreamId
    BY <1>3 DEF IInv, Sound, Device
  <2>2. k \in RouteOf(dev, id)
    BY <1>3, <2>1 DEF IInv, Sound, IsRouted, RouteOf
  <2> HIDE DEF id
  <2> QED
    BY <1>1, <1>3, <2>1, <2>2 DEF id
<1>4. IInv => SinkHearsItsStream
  BY <1>2, <1>3 DEF SinkHearsItsStream
<1> QED
  BY <1>4, Invariance, PTL

=============================================================================
