---------------------------- MODULE Acmp_proofs ----------------------------
(***************************************************************************)
(* Connections for any talkers, listeners, table sizes, commands and       *)
(* faults: what is kept twice agrees, and no listener plays the stream of  *)
(* a talker that has forgotten it.  The first part is about each table and *)
(* state machine by itself, the second about the commands the controller   *)
(* has in flight, the third about the exchange of each listener.           *)
(***************************************************************************)
EXTENDS Acmp, FiniteSetTheorems, SequenceTheorems, WellFoundedInduction, TLAPS

Parties == Listeners \union {Controller}
TalkerState == [slots : [Slot -> Listeners \union {None}], count : 0 .. MaxSlots,
                source : {"DISABLED", "POTENTIAL"}, rcvd : Seq(Packet)]
InflightList == [Index -> Inflight \union {None}]

Entry(n, i) == party[n].inflight[i]

\* connection_count and the source go with the table.
SlotsFit(st) ==
  LET taken == {i \in Slot : st.slots[i] # None} IN
  /\ st.count = Cardinality(taken)
  /\ st.source = "POTENTIAL" <=> taken # {}

\* A timeout is dealt with before the next packet is taken.
LateFits(st) ==
  st.late # 0 => /\ st.rcvd = <<>>
                 /\ st.inflight[st.late] # None
                 /\ st.inflight[st.late].timer = 0

TalkersOK ==
  /\ talker \in [Talkers -> TalkerState]
  /\ \A t \in Talkers : Len(talker[t].rcvd) <= 1 /\ SlotsFit(talker[t])
PartiesOK ==
  /\ party \in [Parties -> Party]
  /\ \A n \in Parties : Len(party[n].rcvd) <= 1 /\ LateFits(party[n])
NetOK == net \in [Nodes -> Seq(Packet)]
SinksOK ==
  /\ info \in [Listeners -> Talkers \union {None}]
  /\ sink \in [Listeners -> Talkers \union {None}]
HistoryOK ==
  /\ want \in [Listeners -> Talkers \union {None}]
  /\ answered \subseteq Nat /\ hurried \subseteq Listeners /\ twice \in BOOLEAN
  /\ commands \in 0 .. MaxCommands /\ faults \in 0 .. MaxFaults
TwiceOK == ~twice => NoListenerTwice

TablesInv == TalkersOK /\ PartiesOK /\ NetOK /\ SinksOK /\ HistoryOK /\ TwiceOK

LEMMA TablesAreTyped == TablesInv => TypeOK /\ SourceRunsForListeners
BY DEF TablesInv, TypeOK, TalkersOK, PartiesOK, NetOK, SinksOK, HistoryOK, TalkerState, Parties,
       SlotsFit, SourceRunsForListeners

-----------------------------------------------------------------------------
(***************************************************************************)
(* The first of a set of places, and the lists of commands in flight.      *)
(***************************************************************************)
LEMMA FirstIsIn ==
  ASSUME NEW T \in SUBSET Nat, T # {}
  PROVE  First(T) \in T
<1>1. \E x \in T : \A y \in T : ~ (<<y, x>> \in OpToRel(<, Nat))
  BY NatLessThanWellFounded, WFMin
<1>2. PICK x \in T : \A y \in T : ~ (<<y, x>> \in OpToRel(<, Nat))
  BY <1>1
<1>3. \A y \in T : ~(y < x)
  BY <1>2 DEF OpToRel
<1>4. \A y \in T : x <= y
  BY <1>3
<1> QED
  BY <1>4 DEF First

LEMMA NodesAre ==
  /\ Nodes = Talkers \union Parties /\ Talkers \intersect Parties = {}
  /\ Controller \in Parties /\ Listeners \subseteq Parties /\ Controller \notin Listeners
  /\ Parties \subseteq Nodes /\ Talkers \subseteq Nodes /\ Controller \in Nodes
  /\ Talkers \intersect Listeners = {}
  /\ None \notin Inflight /\ None \notin Talkers /\ None \notin Listeners
BY AcmpAssumption DEF Nodes, Parties

LEMMA PlacesAre ==
  /\ Index \subseteq Nat /\ 0 \notin Index /\ Slot \subseteq Nat
  /\ IsFiniteSet(Slot) /\ Cardinality(Slot) = MaxSlots
<1>1. MaxSlots \in Nat /\ MaxSlots >= 1 /\ MaxInflight \in Nat
  BY AcmpAssumption
<1>2. IsFiniteSet(1 .. MaxSlots) /\ Cardinality(1 .. MaxSlots) = MaxSlots
  BY <1>1, FS_Interval
<1> QED
  BY <1>1, <1>2 DEF Index, Slot

\* One place of the list holds the new entry, if there was a free one.
LEMMA AddInflightIs ==
  ASSUME NEW list \in InflightList, NEW entry \in Inflight
  PROVE  /\ AddInflight(list, entry) \in InflightList
         /\ \A i \in Index : AddInflight(list, entry)[i] # list[i] =>
              list[i] = None /\ AddInflight(list, entry)[i] = entry
         /\ (\A i \in Index : list[i] = None) =>
              \E i \in Index : /\ AddInflight(list, entry)[i] = entry
                               /\ \A j \in Index \ {i} : AddInflight(list, entry)[j] = None
         /\ \/ AddInflight(list, entry) = list
            \/ \E i \in Index : /\ AddInflight(list, entry)[i] = entry
                                /\ \A j \in Index \ {i} : AddInflight(list, entry)[j] = list[j]
<1> DEFINE free == {i \in Index : list[i] = None}
<1>1. CASE free = {}
  <2>1. 1 \in Index
    BY AcmpAssumption DEF Index
  <2> QED
    BY <1>1, <2>1 DEF AddInflight
<1>2. CASE free # {}
  <2>1. First(free) \in free
    BY <1>2, FirstIsIn, PlacesAre
  <2>2. AddInflight(list, entry) = [list EXCEPT ![First(free)] = entry]
    BY <1>2 DEF AddInflight
  <2> HIDE DEF free
  <2>3. First(free) \in Index /\ list[First(free)] = None
    BY <2>1 DEF free
  <2> QED
    BY <2>2, <2>3 DEF InflightList
<1> QED
  BY <1>1, <1>2

LEMMA RemoveInflightIs ==
  ASSUME NEW list \in InflightList, NEW seq
  PROVE  /\ RemoveInflight(list, seq) \in InflightList
         /\ \A i \in Index : RemoveInflight(list, seq)[i] # list[i] =>
              RemoveInflight(list, seq)[i] = None /\ list[i].seq = seq
         /\ Matching(list, seq) = {} => RemoveInflight(list, seq) = list
         /\ Matching(list, seq) # {} =>
              /\ First(Matching(list, seq)) \in Index
              /\ list[First(Matching(list, seq))] \in Inflight
              /\ list[First(Matching(list, seq))].seq = seq
              /\ RemoveInflight(list, seq)[First(Matching(list, seq))] = None
<1> DEFINE found == Matching(list, seq)
<1>1. CASE found = {}
  BY <1>1 DEF RemoveInflight
<1>2. CASE found # {}
  <2>1. found \subseteq Index
    BY DEF Matching
  <2>2. First(found) \in found
    BY <1>2, <2>1, FirstIsIn, PlacesAre
  <2>3. RemoveInflight(list, seq) = [list EXCEPT ![First(found)] = None]
    BY <1>2 DEF RemoveInflight
  <2>4. First(found) \in Index /\ list[First(found)] # None /\ list[First(found)].seq = seq
    BY <2>2 DEF Matching
  <2> HIDE DEF found
  <2>5. list[First(found)] \in Inflight
    BY <2>4 DEF InflightList
  <2>6. /\ RemoveInflight(list, seq) \in InflightList
        /\ \A i \in Index : RemoveInflight(list, seq)[i] =
             IF i = First(found) THEN None ELSE list[i]
    BY <2>3, <2>4 DEF InflightList
  <2> QED
    BY <1>2, <2>4, <2>5, <2>6 DEF found
<1> QED
  BY <1>1, <1>2

LEMMA DueIs ==
  ASSUME NEW list \in InflightList, Due(list) # {}
  PROVE  /\ First(Due(list)) \in Index /\ list[First(Due(list))] # None
         /\ list[First(Due(list))].timer = 0
<1>1. Due(list) \subseteq Index
  BY DEF Due
<1>2. First(Due(list)) \in Due(list)
  BY <1>1, FirstIsIn, PlacesAre
<1> QED
  BY <1>2 DEF Due

LEMMA PartyIs ==
  ASSUME NEW st \in Party
  PROVE  /\ st.rcvd \in Seq(Packet) /\ st.late \in {0} \union Index /\ st.seq \in Nat
         /\ st.inflight \in InflightList
         /\ st = [rcvd |-> st.rcvd, late |-> st.late, seq |-> st.seq, inflight |-> st.inflight]
BY DEF Party, InflightList

LEMMA PartyOf ==
  ASSUME NEW rcvd \in Seq(Packet), NEW late \in {0} \union Index, NEW seq \in Nat,
         NEW list \in InflightList
  PROVE  [rcvd |-> rcvd, late |-> late, seq |-> seq, inflight |-> list] \in Party
BY DEF Party, InflightList

\* The command a party adds.
NewEntry(n, st, op, t, l, original) ==
  [op |-> op, talker |-> t, listener |-> l, seq |-> st.seq, original |-> original,
   retried |-> FALSE, timer |-> Timeout(n, op)]

LEMMA TimeoutIs ==
  ASSUME NEW n, NEW op \in Operation
  PROVE  Timeout(n, op) \in Nat /\ Timeout(n, op) >= 1
BY AcmpAssumption DEF Timeout

LEMMA AfterCommandIs ==
  ASSUME NEW n, NEW st \in Party, NEW op \in Operation, NEW t \in Talkers,
         NEW l \in Listeners, NEW original \in Nat
  PROVE  LET next == AfterCommand(n, st, op, t, l, original)
             e == NewEntry(n, st, op, t, l, original)
         IN
         /\ next \in Party /\ e \in Inflight
         /\ next.rcvd = st.rcvd /\ next.late = st.late /\ next.seq = st.seq + 1
         /\ next.inflight = AddInflight(st.inflight, e)
<1> DEFINE e == NewEntry(n, st, op, t, l, original)
<1>1. st.seq \in Nat /\ st.inflight \in InflightList
  BY DEF Party, InflightList
<1>2. e \in Inflight
  BY <1>1, TimeoutIs DEF NewEntry, Inflight
<1>3. AfterCommand(n, st, op, t, l, original)
        = [rcvd |-> st.rcvd, late |-> st.late, seq |-> st.seq + 1,
           inflight |-> AddInflight(st.inflight, e)]
  <2>1. AfterCommand(n, st, op, t, l, original)
          = [st EXCEPT !.seq = st.seq + 1, !.inflight = AddInflight(st.inflight, e)]
    BY DEF AfterCommand, NewEntry, Party
  <2> HIDE DEF e
  <2> QED
    BY <2>1 DEF Party
<1> HIDE DEF e
<1>4. AddInflight(st.inflight, e) \in InflightList
  BY <1>1, <1>2, AddInflightIs
<1>5. LET next == AfterCommand(n, st, op, t, l, original) IN
      /\ next \in Party
      /\ next.rcvd = st.rcvd /\ next.late = st.late /\ next.seq = st.seq + 1
      /\ next.inflight = AddInflight(st.inflight, e)
  <2>1. st.seq + 1 \in Nat
    BY <1>1
  <2> QED
    BY <1>3, <1>4, <2>1, PartyIs, PartyOf
<1> QED
  BY <1>2, <1>5 DEF e

\* The command that goes out again, under a sequence id of its own.
Renewed(n, seq, e) == [e EXCEPT !.seq = seq, !.retried = TRUE, !.timer = Timeout(n, e.op)]

LEMMA RenewedIs ==
  ASSUME NEW n, NEW seq \in Nat, NEW e \in Inflight
  PROVE  LET new == Renewed(n, seq, e) IN
         /\ new \in Inflight /\ new.op = e.op /\ new.talker = e.talker
         /\ new.listener = e.listener /\ new.seq = seq /\ new.original = e.original
         /\ new.retried = TRUE /\ new.timer = Timeout(n, e.op)
<1>1. Timeout(n, e.op) \in Nat
  BY TimeoutIs DEF Inflight
<1> QED
  BY <1>1 DEF Renewed, Inflight

LEMMA AfterRetryIs ==
  ASSUME NEW n, NEW st \in Party, NEW i \in Index, st.inflight[i] # None
  PROVE  LET next == AfterRetry(n, st, i) IN
         /\ next \in Party
         /\ next.rcvd = st.rcvd /\ next.late = 0 /\ next.seq = st.seq + 1
         /\ \A j \in Index \ {i} : next.inflight[j] = st.inflight[j]
         /\ st.inflight[i] \in Inflight
         /\ next.inflight[i] = Renewed(n, st.seq, st.inflight[i])
<1> DEFINE old == st.inflight[i]
           new == Renewed(n, st.seq, old)
<1>1. st.seq \in Nat /\ st.inflight \in InflightList
  BY DEF Party, InflightList
<1>2. old \in Inflight
  BY <1>1 DEF InflightList
<1>3. new \in Inflight
  BY <1>1, <1>2, RenewedIs
<1>4. AfterRetry(n, st, i) = [rcvd |-> st.rcvd, late |-> 0, seq |-> st.seq + 1,
                              inflight |-> [st.inflight EXCEPT ![i] = new]]
  <2>1. AfterRetry(n, st, i) = [st EXCEPT !.seq = st.seq + 1, !.late = 0,
                                          !.inflight = [st.inflight EXCEPT ![i] = new]]
    BY DEF AfterRetry, Party, Renewed
  <2> HIDE DEF new
  <2> QED
    BY <2>1 DEF Party
<1> HIDE DEF old, new
<1>5. /\ [st.inflight EXCEPT ![i] = new] \in InflightList
      /\ \A j \in Index \ {i} : [st.inflight EXCEPT ![i] = new][j] = st.inflight[j]
      /\ [st.inflight EXCEPT ![i] = new][i] = new
  BY <1>1, <1>3 DEF InflightList
<1>6. AfterRetry(n, st, i) \in Party
  <2>1. st.seq + 1 \in Nat
    BY <1>1
  <2> QED
    BY SMTT(30), <1>4, <1>5, <2>1, PartyIs, PartyOf
<1>7. /\ AfterRetry(n, st, i).rcvd = st.rcvd /\ AfterRetry(n, st, i).late = 0
      /\ AfterRetry(n, st, i).seq = st.seq + 1
      /\ AfterRetry(n, st, i).inflight = [st.inflight EXCEPT ![i] = new]
  BY <1>4 DEF Party
<1> QED
  BY <1>2, <1>5, <1>6, <1>7 DEF old, new

LEMMA AfterDropIs ==
  ASSUME NEW st \in Party, NEW i \in Index
  PROVE  LET next == AfterDrop(st, i) IN
         /\ next \in Party
         /\ next.rcvd = st.rcvd /\ next.late = 0 /\ next.seq = st.seq
         /\ \A j \in Index \ {i} : next.inflight[j] = st.inflight[j]
         /\ next.inflight[i] = None
BY PlacesAre DEF AfterDrop, Party

LEMMA TickedIs ==
  ASSUME NEW e \in Inflight
  PROVE  /\ Ticked(e) \in Inflight /\ Ticked(e) # None
         /\ Ticked(e).op = e.op /\ Ticked(e).seq = e.seq /\ Ticked(e).retried = e.retried
         /\ Ticked(e).timer = IF e.timer = 0 THEN 0 ELSE e.timer - 1
BY NodesAre DEF Ticked, Inflight

-----------------------------------------------------------------------------
(***************************************************************************)
(* The table of a talker.                                                  *)
(***************************************************************************)
Taken(slots) == {i \in Slot : slots[i] # None}

LEMMA TakenIs ==
  ASSUME NEW slots
  PROVE  IsFiniteSet(Taken(slots)) /\ Cardinality(Taken(slots)) \in 0 .. MaxSlots
<1>1. Taken(slots) \in SUBSET Slot
  BY DEF Taken
<1>2. MaxSlots \in Nat
  BY AcmpAssumption
<1>3. IsFiniteSet(Taken(slots)) /\ Cardinality(Taken(slots)) <= MaxSlots
  BY <1>1, PlacesAre, FS_Subset
<1>4. Cardinality(Taken(slots)) \in Nat
  BY <1>3, FS_CardinalityType
<1> QED
  BY <1>2, <1>3, <1>4

LEMMA SlotTaken ==
  ASSUME NEW slots, NEW l \in Listeners, NEW i \in Slot,
         slots \in [Slot -> Listeners \union {None}]
  PROVE  LET next == [slots EXCEPT ![i] = l] IN
         Cardinality(Taken(next)) = IF slots[i] = None THEN Cardinality(Taken(slots)) + 1
                                    ELSE Cardinality(Taken(slots))
<1>1. Taken([slots EXCEPT ![i] = l]) = Taken(slots) \union {i}
  BY NodesAre DEF Taken
<1>2. i \in Taken(slots) <=> slots[i] # None
  BY DEF Taken
<1> QED
  BY <1>1, <1>2, TakenIs, FS_AddElement

LEMMA SlotFreed ==
  ASSUME NEW slots, NEW i \in Slot, slots \in [Slot -> Listeners \union {None}],
         slots[i] # None
  PROVE  Cardinality(Taken([slots EXCEPT ![i] = None])) = Cardinality(Taken(slots)) - 1
<1>1. Taken([slots EXCEPT ![i] = None]) = Taken(slots) \ {i}
  BY DEF Taken
<1>2. i \in Taken(slots)
  BY DEF Taken
<1> QED
  BY <1>1, <1>2, TakenIs, FS_RemoveElement

LEMMA FitsIs ==
  ASSUME NEW st
  PROVE  SlotsFit(st) <=> /\ st.count = Cardinality(Taken(st.slots))
                          /\ st.source = "POTENTIAL" <=> Taken(st.slots) # {}
BY DEF SlotsFit, Taken

LEMMA NoneTaken ==
  ASSUME NEW slots
  PROVE  Cardinality(Taken(slots)) = 0 <=> Taken(slots) = {}
BY TakenIs, FS_EmptySet

LEMMA TalkerMade ==
  ASSUME NEW st \in TalkerState, NEW slots \in [Slot -> Listeners \union {None}],
         NEW count, NEW source \in {"DISABLED", "POTENTIAL"},
         count = Cardinality(Taken(slots)), source = "POTENTIAL" <=> Taken(slots) # {}
  PROVE  LET next == [st EXCEPT !.slots = slots, !.count = count, !.source = source] IN
         next \in TalkerState /\ SlotsFit(next) /\ next.slots = slots
<1> DEFINE next == [st EXCEPT !.slots = slots, !.count = count, !.source = source]
<1>1. count \in 0 .. MaxSlots
  BY TakenIs
<1>2. next \in TalkerState /\ next.slots = slots /\ next.count = count /\ next.source = source
  BY <1>1 DEF TalkerState
<1> HIDE DEF next
<1>3. SlotsFit(next)
  BY <1>2, FitsIs
<1> QED
  BY <1>2, <1>3 DEF next

LEMMA ConnectedIs ==
  ASSUME NEW st \in TalkerState, SlotsFit(st), NEW l \in Listeners
  PROVE  /\ Connected(st, l) \in TalkerState /\ SlotsFit(Connected(st, l))
         /\ \A i \in Slot : Connected(st, l).slots[i] # st.slots[i] =>
              st.slots[i] = None /\ Connected(st, l).slots[i] = l
         /\ (\E i \in Slot : st.slots[i] \in {l, None}) =>
              \E i \in Slot : Connected(st, l).slots[i] = l
<1> DEFINE usable == {i \in Slot : st.slots[i] \in {l, None}}
           next == Connected(st, l)
           i == First(usable)
<1>0. /\ st.slots \in [Slot -> Listeners \union {None}] /\ st.rcvd \in Seq(Packet)
      /\ st.count = Cardinality(Taken(st.slots))
      /\ Cardinality(Taken(st.slots)) \in Nat
  BY FitsIs, TakenIs DEF TalkerState
<1>1. CASE usable = {}
  <2> DEFINE slots == st.slots
             count == st.count
  <2>1. next = [st EXCEPT !.slots = slots, !.count = count, !.source = "POTENTIAL"]
    BY <1>1 DEF Connected
  <2>2. 1 \in Slot /\ st.slots[1] # None
    BY <1>1, AcmpAssumption DEF Slot
  <2>3. Taken(st.slots) # {}
    BY <2>2 DEF Taken
  <2>4. /\ slots \in [Slot -> Listeners \union {None}] /\ count = Cardinality(Taken(slots))
        /\ Taken(slots) # {}
    BY <1>0, <2>3
  <2>5. ~ \E j \in Slot : st.slots[j] \in {l, None}
    BY <1>1
  <2> HIDE DEF next, slots, count
  <2>6. next \in TalkerState /\ SlotsFit(next) /\ next.slots = slots
    <3>1. next \in TalkerState /\ SlotsFit(next)
      BY <2>1, <2>4, TalkerMade
    <3>2. next.slots = slots
      BY <2>1, <2>4 DEF TalkerState
    <3> QED
      BY <3>1, <3>2
  <2> QED
    BY <2>5, <2>6 DEF next, slots
<1>2. CASE usable # {}
  <2>1. i \in usable
    BY <1>2, FirstIsIn, PlacesAre
  <2>2. i \in Slot /\ st.slots[i] \in {l, None}
    BY <2>1
  <2> DEFINE slots == [st.slots EXCEPT ![i] = l]
             count == IF st.slots[i] = None THEN st.count + 1 ELSE st.count
  <2>3. next = [st EXCEPT !.slots = slots, !.count = count, !.source = "POTENTIAL"]
    BY <1>2 DEF Connected
  <2> HIDE DEF i, next
  <2>4. /\ slots \in [Slot -> Listeners \union {None}] /\ slots[i] = l
        /\ \A j \in Slot : slots[j] = IF j = i THEN l ELSE st.slots[j]
    BY <1>0, <2>2
  <2>5. count = Cardinality(Taken(slots))
    BY <1>0, <2>2, SlotTaken
  <2>6. Taken(slots) # {}
    BY <2>2, <2>4, NodesAre DEF Taken
  <2> HIDE DEF slots, count
  <2>7. next \in TalkerState /\ SlotsFit(next) /\ next.slots = slots
    <3>1. next \in TalkerState /\ SlotsFit(next)
      BY <1>0, <2>3, <2>4, <2>5, <2>6, TalkerMade
    <3>2. next.slots = slots
      BY <1>0, <2>3, <2>4, <2>5, <2>6 DEF TalkerState
    <3> QED
      BY <3>1, <3>2
  <2> QED
    BY <2>2, <2>4, <2>7 DEF next
<1> QED
  BY <1>1, <1>2

LEMMA DisconnectedIs ==
  ASSUME NEW st \in TalkerState, SlotsFit(st), NEW l \in Listeners
  PROVE  /\ Disconnected(st, l) \in TalkerState /\ SlotsFit(Disconnected(st, l))
         /\ \A i \in Slot : Disconnected(st, l).slots[i] # st.slots[i] =>
              st.slots[i] = l /\ Disconnected(st, l).slots[i] = None
<1> DEFINE mine == {i \in Slot : st.slots[i] = l}
           next == Disconnected(st, l)
           i == First(mine)
<1>0. /\ st.slots \in [Slot -> Listeners \union {None}] /\ st.rcvd \in Seq(Packet)
      /\ st.source \in {"DISABLED", "POTENTIAL"}
      /\ st.source = "POTENTIAL" <=> Taken(st.slots) # {}
      /\ st.count = Cardinality(Taken(st.slots))
      /\ Cardinality(Taken(st.slots)) \in Nat
  <2>1. /\ st.slots \in [Slot -> Listeners \union {None}] /\ st.rcvd \in Seq(Packet)
        /\ st.source \in {"DISABLED", "POTENTIAL"}
    BY DEF TalkerState
  <2>2. Cardinality(Taken(st.slots)) \in Nat
    BY TakenIs
  <2> QED
    BY <2>1, <2>2, FitsIs
<1>1. CASE mine = {}
  <2> DEFINE slots == st.slots
             count == st.count
             source == IF st.count = 0 THEN "DISABLED" ELSE st.source
  <2>1. next = [st EXCEPT !.slots = slots, !.count = count, !.source = source]
    BY <1>1 DEF Disconnected
  <2>2. source = st.source
    BY <1>0, NoneTaken
  <2>3. /\ slots \in [Slot -> Listeners \union {None}] /\ count = Cardinality(Taken(slots))
        /\ source \in {"DISABLED", "POTENTIAL"} /\ (source = "POTENTIAL" <=> Taken(slots) # {})
    BY <1>0, <2>2
  <2> HIDE DEF next, slots, count, source
  <2>4. next \in TalkerState /\ SlotsFit(next) /\ next.slots = slots
    <3>1. next \in TalkerState /\ SlotsFit(next)
      BY <2>1, <2>3, TalkerMade
    <3>2. next.slots = slots
      BY <2>1, <2>3 DEF TalkerState
    <3> QED
      BY <3>1, <3>2
  <2> QED
    BY <2>4 DEF next, slots
<1>2. CASE mine # {}
  <2>1. i \in mine
    BY <1>2, FirstIsIn, PlacesAre
  <2>2. i \in Slot /\ st.slots[i] = l /\ l # None
    BY <2>1, NodesAre
  <2> DEFINE slots == [st.slots EXCEPT ![i] = None]
             source == IF st.count - 1 = 0 THEN "DISABLED" ELSE st.source
  <2>3. next = [st EXCEPT !.slots = slots, !.count = st.count - 1, !.source = source]
    BY <1>2 DEF Disconnected
  <2> HIDE DEF i, next
  <2>4. /\ slots \in [Slot -> Listeners \union {None}]
        /\ \A j \in Slot : slots[j] = IF j = i THEN None ELSE st.slots[j]
    BY <1>0, <2>2
  <2>5. st.count - 1 = Cardinality(Taken(slots))
    BY <1>0, <2>2, SlotFreed
  <2>6. Taken(st.slots) # {}
    BY <2>2 DEF Taken
  <2>7. source \in {"DISABLED", "POTENTIAL"} /\ (source = "POTENTIAL" <=> Taken(slots) # {})
    <3>1. st.count - 1 = 0 <=> Taken(slots) = {}
      BY <2>5, NoneTaken
    <3> QED
      BY <1>0, <2>6, <3>1
  <2> HIDE DEF slots, source
  <2>8. next \in TalkerState /\ SlotsFit(next) /\ next.slots = slots
    <3>1. next \in TalkerState /\ SlotsFit(next)
      BY <1>0, <2>3, <2>4, <2>5, <2>7, TalkerMade
    <3>2. next.slots = slots
      BY <1>0, <2>3, <2>4, <2>5, <2>7 DEF TalkerState
    <3> QED
      BY <3>1, <3>2
  <2> QED
    BY <2>2, <2>4, <2>8 DEF next
<1> QED
  BY <1>1, <1>2

-----------------------------------------------------------------------------
(***************************************************************************)
(* What every step leaves behind.                                          *)
(***************************************************************************)
LEMMA TalkersStay ==
  ASSUME TablesInv, UNCHANGED <<talker, twice>>
  PROVE  TalkersOK' /\ TwiceOK'
BY DEF TablesInv, TalkersOK, TwiceOK, NoListenerTwice

LEMMA SinksStay ==
  ASSUME TablesInv, UNCHANGED <<info, sink>>
  PROVE  SinksOK'
BY DEF TablesInv, SinksOK

LEMMA HistoryStays ==
  ASSUME TablesInv, UNCHANGED history
  PROVE  HistoryOK'
BY DEF TablesInv, HistoryOK, history

LEMMA StreamsStay ==
  ASSUME TablesInv, UNCHANGED <<streams, twice>>
  PROVE  TalkersOK' /\ TwiceOK' /\ SinksOK'
BY TalkersStay, SinksStay DEF streams

LEMMA PartiesStay ==
  ASSUME TablesInv, UNCHANGED party
  PROVE  PartiesOK'
BY DEF TablesInv, PartiesOK

LEMMA NetStays ==
  ASSUME TablesInv, UNCHANGED net
  PROVE  NetOK'
BY DEF TablesInv, NetOK

LEMMA PartyAt ==
  ASSUME TablesInv, NEW n \in Parties
  PROVE  /\ party[n] \in Party /\ party[n].rcvd \in Seq(Packet) /\ party[n].seq \in Nat
         /\ party[n].late \in {0} \union Index /\ party[n].inflight \in InflightList
         /\ Len(party[n].rcvd) <= 1 /\ LateFits(party[n])
         /\ \A i \in Index : Entry(n, i) \in Inflight \union {None}
BY PartyIs DEF TablesInv, PartiesOK, Entry, InflightList

LEMMA PartyStep ==
  ASSUME TablesInv, NEW n \in Parties, NEW st \in Party, Len(st.rcvd) <= 1, LateFits(st),
         party' = [party EXCEPT ![n] = st]
  PROVE  PartiesOK' /\ party'[n] = st /\ \A m \in Parties \ {n} : party'[m] = party[m]
BY DEF TablesInv, PartiesOK

\* A buffer for one packet is empty or holds one.
LEMMA RcvdIs ==
  ASSUME NEW rcvd \in Seq(Packet), Len(rcvd) <= 1, rcvd # <<>>
  PROVE  Len(rcvd) = 1 /\ rcvd[1] \in Packet
<1>1. Len(rcvd) \in Nat /\ Len(rcvd) # 0
  BY EmptySeq, LenProperties
<1>2. Len(rcvd) = 1
  <2> DEFINE k == Len(rcvd)
  <2>1. k \in Nat /\ k # 0 /\ k <= 1
    BY <1>1
  <2> HIDE DEF k
  <2>2. k = 1
    BY <2>1
  <2> QED
    BY <2>2 DEF k
<1> QED
  BY <1>2, ElementOfSeq

LEMMA OneRcvd ==
  ASSUME NEW p \in Packet
  PROVE  <<p>> \in Seq(Packet) /\ Len(<<p>>) = 1 /\ <<p>>[1] = p /\ <<p>> # <<>>
OBVIOUS

LEMMA NoRcvd == <<>> \in Seq(Packet) /\ Len(<<>>) = 0
OBVIOUS

PacketOf(op, kind, t, l, seq, status) ==
  [op |-> op, kind |-> kind, talker |-> t, listener |-> l, seq |-> seq, status |-> status]

Kind == {"RX_COMMAND", "TX_COMMAND", "TX_RESPONSE", "RX_RESPONSE"}

LEMMA PacketIs ==
  ASSUME NEW op \in Operation \union {"GET"}, NEW kind \in Kind, NEW t \in Talkers,
         NEW l \in Listeners, NEW seq \in Nat, NEW status \in Status
  PROVE  LET p == PacketOf(op, kind, t, l, seq, status) IN
         /\ p \in Packet /\ p.op = op /\ p.kind = kind /\ p.talker = t /\ p.listener = l
         /\ p.seq = seq /\ p.status = status
BY DEF PacketOf, Packet, Kind

LEMMA SentIs ==
  ASSUME TablesInv, NEW to \in Nodes, NEW op, NEW kind, NEW t, NEW l, NEW seq, NEW status,
         PacketOf(op, kind, t, l, seq, status) \in Packet,
         net' = Sent(to, op, kind, t, l, seq, status)
  PROVE  /\ NetOK'
         /\ net' = [net EXCEPT ![to] = Append(net[to],
                                              PacketOf(op, kind, t, l, seq, status))]
<1> DEFINE p == PacketOf(op, kind, t, l, seq, status)
<1>1. net' = [net EXCEPT ![to] = Append(net[to], p)]
  BY DEF Sent, PacketOf
<1> HIDE DEF p
<1>2. net[to] \in Seq(Packet) /\ p \in Packet
  BY DEF TablesInv, NetOK, p
<1>3. Append(net[to], p) \in Seq(Packet)
  BY <1>2
<1>4. NetOK'
  BY <1>1, <1>3 DEF TablesInv, NetOK
<1> QED
  BY <1>1, <1>4 DEF p

LEMMA TailIs ==
  ASSUME TablesInv, NEW n \in Nodes, net[n] # <<>>, net' = [net EXCEPT ![n] = Tail(@)]
  PROVE  NetOK' /\ net'[n] = Tail(net[n]) /\ Head(net[n]) \in Packet
<1>1. net[n] \in Seq(Packet)
  BY DEF TablesInv, NetOK
<1>2. Tail(net[n]) \in Seq(Packet) /\ Head(net[n]) \in Packet
  BY <1>1, HeadTailProperties
<1> QED
  BY <1>2 DEF TablesInv, NetOK

LEMMA TalkerAt ==
  ASSUME TablesInv, NEW t \in Talkers
  PROVE  /\ talker[t] \in TalkerState /\ talker[t].rcvd \in Seq(Packet)
         /\ Len(talker[t].rcvd) <= 1 /\ SlotsFit(talker[t])
         /\ talker[t].slots \in [Slot -> Listeners \union {None}]
BY DEF TablesInv, TalkersOK, TalkerState

\* A talker's packet changes, but not its table.
LEMMA TalkerRcvd ==
  ASSUME TablesInv, NEW t \in Talkers, NEW st \in TalkerState, SlotsFit(st),
         NEW rcvd \in Seq(Packet), Len(rcvd) <= 1,
         talker' = [talker EXCEPT ![t] = [st EXCEPT !.rcvd = rcvd]]
  PROVE  /\ TalkersOK' /\ talker'[t].rcvd = rcvd /\ talker'[t].slots = st.slots
         /\ \A s \in Talkers \ {t} : talker'[s] = talker[s]
<1> DEFINE next == [st EXCEPT !.rcvd = rcvd]
<1>1. /\ next \in TalkerState /\ next.rcvd = rcvd /\ next.slots = st.slots
      /\ next.count = st.count /\ next.source = st.source
  BY DEF TalkerState
<1> HIDE DEF next
<1>2. SlotsFit(next)
  BY <1>1 DEF SlotsFit
<1>3. /\ talker' \in [Talkers -> TalkerState] /\ talker'[t] = next
      /\ \A s \in Talkers \ {t} : talker'[s] = talker[s]
  BY <1>1 DEF TablesInv, TalkersOK, next
<1>4. \A s \in Talkers : Len(talker'[s].rcvd) <= 1 /\ SlotsFit(talker'[s])
  BY <1>1, <1>2, <1>3 DEF TablesInv, TalkersOK
<1> QED
  BY <1>1, <1>3, <1>4 DEF TalkersOK

-----------------------------------------------------------------------------
(***************************************************************************)
(* The controller and a listener, action by action.                        *)
(***************************************************************************)
LEMMA PartyRcvd ==
  ASSUME TablesInv, NEW n \in Parties, NEW rcvd \in Seq(Packet), Len(rcvd) <= 1,
         party[n].late = 0 \/ rcvd = <<>>,
         party' = [party EXCEPT ![n].rcvd = rcvd]
  PROVE  /\ PartiesOK' /\ party'[n].rcvd = rcvd
         /\ \A m \in Parties : /\ party'[m].inflight = party[m].inflight
                               /\ party'[m].seq = party[m].seq
         /\ \A m \in Parties \ {n} : party'[m] = party[m]
<1> DEFINE next == [party[n] EXCEPT !.rcvd = rcvd]
<1>1. party' = [party EXCEPT ![n] = next]
  OBVIOUS
<1>2. /\ next \in Party /\ next.rcvd = rcvd /\ next.late = party[n].late
      /\ next.inflight = party[n].inflight /\ next.seq = party[n].seq
  BY PartyAt DEF Party
<1> HIDE DEF next
<1>3. LateFits(next)
  <2>1. LateFits(party[n])
    BY PartyAt
  <2> QED
    BY <1>2, <2>1 DEF LateFits
<1>4. PartiesOK' /\ party'[n] = next /\ \A m \in Parties \ {n} : party'[m] = party[m]
  BY <1>1, <1>2, <1>3, PartyStep
<1> QED
  BY <1>2, <1>4

\* The party has dealt with an answer and takes its command off the list.
LEMMA AnswerTaken ==
  ASSUME TablesInv, NEW n \in Parties, party[n].rcvd # <<>>, NEW seq,
         party' = [party EXCEPT ![n] = [party[n] EXCEPT !.rcvd = <<>>,
                                          !.inflight = RemoveInflight(@, seq)]]
  PROVE  /\ PartiesOK' /\ party'[n].rcvd = <<>> /\ party'[n].seq = party[n].seq
         /\ party'[n].inflight = RemoveInflight(party[n].inflight, seq)
         /\ \A m \in Parties \ {n} : party'[m] = party[m]
<1> DEFINE st == party[n]
           list == RemoveInflight(st.inflight, seq)
           next == [st EXCEPT !.rcvd = <<>>, !.inflight = list]
<1>0. st \in Party /\ st.inflight \in InflightList /\ LateFits(st)
  BY PartyAt
<1>1. party' = [party EXCEPT ![n] = next]
  OBVIOUS
<1>2. list \in InflightList
  BY <1>0, RemoveInflightIs
<1> HIDE DEF list
<1>3. /\ next \in Party /\ next.rcvd = <<>> /\ next.late = st.late /\ next.seq = st.seq
      /\ next.inflight = list
  BY <1>0, <1>2, NoRcvd DEF Party, InflightList
<1>4. LateFits(next) /\ Len(next.rcvd) <= 1
  BY <1>0, <1>3, NoRcvd DEF LateFits
<1> HIDE DEF next
<1>5. PartiesOK' /\ party'[n] = next /\ \A m \in Parties \ {n} : party'[m] = party[m]
  BY <1>0, <1>1, <1>3, <1>4, PartyStep
<1> QED
  BY <1>3, <1>5 DEF list

LEMMA CheckTimeoutsKeeps ==
  ASSUME TablesInv, NEW n \in Parties, CheckTimeouts(n)
  PROVE  /\ TablesInv'
         /\ party[n].rcvd = <<>> /\ party'[n].rcvd = <<>>
         /\ party'[n].inflight = party[n].inflight /\ party'[n].seq = party[n].seq
         /\ \A m \in Parties \ {n} : party'[m] = party[m]
         /\ UNCHANGED <<streams, net, history>>
<1> DEFINE late == First(Due(party[n].inflight))
           st == [party[n] EXCEPT !.late = late]
<1>1. /\ party[n].rcvd = <<>> /\ Due(party[n].inflight) # {}
      /\ party' = [party EXCEPT ![n] = st] /\ UNCHANGED <<streams, net, history>>
  BY DEF CheckTimeouts, Waiting
<1>2. late \in Index /\ party[n].inflight[late] # None /\ party[n].inflight[late].timer = 0
  BY <1>1, PartyAt, DueIs
<1> HIDE DEF late
<1>3. /\ st \in Party /\ st.rcvd = party[n].rcvd /\ st.late = late
      /\ st.inflight = party[n].inflight /\ st.seq = party[n].seq
  BY <1>2, PartyAt DEF Party
<1> HIDE DEF st
<1>4. LateFits(st) /\ Len(st.rcvd) <= 1
  BY <1>1, <1>2, <1>3, NoRcvd DEF LateFits
<1>5. PartiesOK' /\ party'[n] = st /\ \A m \in Parties \ {n} : party'[m] = party[m]
  BY <1>1, <1>3, <1>4, PartyStep
<1> QED
  BY <1>1, <1>3, <1>5, StreamsStay, HistoryStays, NetStays DEF TablesInv, history

LEMMA CommandKeeps ==
  ASSUME TablesInv, NEW op \in Operation, NEW t \in Talkers, NEW l \in Listeners,
         Command(op, t, l)
  PROVE  LET st == party[Controller]
             p == PacketOf(op, "RX_COMMAND", t, l, st.seq, "SUCCESS")
             e == NewEntry(Controller, st, op, t, l, 0)
         IN
         /\ TablesInv'
         /\ e \in Inflight /\ p \in Packet
         /\ party'[Controller].rcvd = <<>> \/ st.rcvd # <<>>
         /\ party'[Controller].inflight = AddInflight(st.inflight, e)
         /\ party'[Controller].seq = st.seq + 1
         /\ \A m \in Parties \ {Controller} : party'[m] = party[m]
         /\ net' = [net EXCEPT ![l] = Append(net[l], p)]
         /\ answered' = IF st.rcvd = <<>> THEN answered ELSE answered \ {st.rcvd[1].seq}
         /\ hurried' = IF Underway(l) THEN hurried \union {l} ELSE hurried
         /\ UNCHANGED <<streams, twice>>
<1> DEFINE st == party[Controller]
           e == NewEntry(Controller, st, op, t, l, 0)
           p == PacketOf(op, "RX_COMMAND", t, l, st.seq, "SUCCESS")
           after == AfterCommand(Controller, st, op, t, l, 0)
           q == [st.rcvd[1] EXCEPT !.talker = t, !.listener = l, !.seq = st.seq]
           over == IF st.rcvd = <<>> THEN <<>> ELSE <<q>>
           next == [after EXCEPT !.rcvd = over]
<1>0. /\ st \in Party /\ st.rcvd \in Seq(Packet) /\ st.seq \in Nat /\ Len(st.rcvd) <= 1
      /\ LateFits(st) /\ st.inflight \in InflightList
  BY PartyAt, NodesAre
<1>1. /\ commands < MaxCommands /\ party' = [party EXCEPT ![Controller] = next]
      /\ net' = Sent(l, op, "RX_COMMAND", t, l, st.seq, "SUCCESS")
      /\ want' = [want EXCEPT ![l] = IF op = "CONNECT" THEN IF want[l] = None THEN t ELSE want[l]
                                     ELSE IF want[l] = t THEN None ELSE want[l]]
      /\ answered' = IF st.rcvd = <<>> THEN answered ELSE answered \ {st.rcvd[1].seq}
      /\ hurried' = IF Underway(l) THEN hurried \union {l} ELSE hurried
      /\ commands' = commands + 1
      /\ UNCHANGED <<streams, twice, faults>>
  BY DEF Command
<1>2. /\ after \in Party /\ e \in Inflight /\ after.late = st.late /\ after.seq = st.seq + 1
      /\ after.inflight = AddInflight(st.inflight, e)
  BY <1>0, AfterCommandIs
<1>3. over \in Seq(Packet) /\ Len(over) <= 1 /\ (st.rcvd = <<>> => over = <<>>)
  <2>1. CASE st.rcvd = <<>>
    BY <2>1, NoRcvd
  <2>2. CASE st.rcvd # <<>>
    <3>1. st.rcvd[1] \in Packet
      BY <1>0, <2>2, RcvdIs
    <3>2. q \in Packet
      BY <1>0, <3>1 DEF Packet
    <3> HIDE DEF q
    <3> QED
      BY <2>2, <3>2
  <2> QED
    BY <2>1, <2>2
<1> HIDE DEF after, over
<1>4. /\ next \in Party /\ next.rcvd = over /\ next.late = st.late /\ next.seq = st.seq + 1
      /\ next.inflight = AddInflight(st.inflight, e)
  BY <1>2, <1>3 DEF Party
<1>5. LateFits(next)
  <2> SUFFICES ASSUME st.late # 0
               PROVE  /\ over = <<>> /\ next.inflight[st.late] # None
                      /\ next.inflight[st.late].timer = 0
    BY <1>4 DEF LateFits
  <2>1. /\ st.rcvd = <<>> /\ st.inflight[st.late] # None /\ st.inflight[st.late].timer = 0
        /\ st.late \in Index
    BY <1>0 DEF LateFits, Party
  <2>2. AddInflight(st.inflight, e)[st.late] = st.inflight[st.late]
    BY <1>0, <1>2, <2>1, AddInflightIs
  <2> QED
    BY <1>3, <1>4, <2>1, <2>2
<1> HIDE DEF next, e
<1>6. /\ PartiesOK' /\ party'[Controller] = next
      /\ \A m \in Parties \ {Controller} : party'[m] = party[m]
  BY <1>1, <1>3, <1>4, <1>5, PartyStep, NodesAre
<1>7. p \in Packet
  BY <1>0, PacketIs DEF Kind, Status
<1>8. NetOK' /\ net' = [net EXCEPT ![l] = Append(net[l], p)]
  BY <1>1, <1>7, SentIs, NodesAre
<1>9. HistoryOK'
  <2>1. commands' \in 0 .. MaxCommands
    BY <1>1, AcmpAssumption DEF TablesInv, HistoryOK
  <2>2. want' \in [Listeners -> Talkers \union {None}]
    BY <1>1 DEF TablesInv, HistoryOK
  <2>3. answered' \subseteq Nat
    BY <1>1 DEF TablesInv, HistoryOK
  <2>4. hurried' \subseteq Listeners
    BY <1>1 DEF TablesInv, HistoryOK
  <2> QED
    BY <1>1, <2>1, <2>2, <2>3, <2>4 DEF TablesInv, HistoryOK
<1>10. TablesInv'
  BY <1>1, <1>6, <1>8, <1>9, StreamsStay DEF TablesInv
<1> HIDE DEF p
<1> QED
  BY <1>1, <1>2, <1>3, <1>4, <1>6, <1>7, <1>8, <1>10 DEF e, p

LEMMA ReceiveResponseKeeps ==
  ASSUME TablesInv, ReceiveResponse
  PROVE  /\ TablesInv'
         /\ net[Controller] # <<>> /\ net' = [net EXCEPT ![Controller] = Tail(@)]
         /\ \A m \in Parties : /\ party'[m].inflight = party[m].inflight
                               /\ party'[m].seq = party[m].seq
         /\ \A m \in Parties \ {Controller} : party'[m] = party[m]
         /\ \/ party'[Controller].rcvd = party[Controller].rcvd /\ UNCHANGED answered
            \/ LET p == Head(net[Controller]) IN
               /\ party[Controller].rcvd = <<>> /\ party'[Controller].rcvd = <<p>>
               /\ p.op \in Operation
               /\ answered' = answered \union {p.seq}
               /\ \E i \in Index : Entry(Controller, i) # None /\ Entry(Controller, i).seq = p.seq
         /\ UNCHANGED <<streams, want, hurried, twice, commands, faults>>
<1> DEFINE st == party[Controller]
           p == Head(net[Controller])
           found == Matching(st.inflight, p.seq)
           next == [st EXCEPT !.rcvd = <<p>>]
           taken == Waiting(Controller) /\ found # {} /\ st.inflight[First(found)].op = p.op
<1>0. /\ st \in Party /\ st.inflight \in InflightList /\ Controller \in Nodes
      /\ Controller \in Parties
  BY PartyAt, NodesAre
<1>1. /\ net[Controller] # <<>> /\ net' = [net EXCEPT ![Controller] = Tail(@)]
      /\ IF taken THEN /\ party' = [party EXCEPT ![Controller].rcvd = <<p>>]
                       /\ answered' = answered \union {p.seq}
                  ELSE UNCHANGED <<party, answered>>
      /\ UNCHANGED <<streams, want, hurried, twice, commands, faults>>
  BY DEF ReceiveResponse
<1>2. NetOK' /\ p \in Packet
  BY <1>0, <1>1, TailIs
<1> HIDE DEF p
<1>3. CASE ~taken
  <2>1. UNCHANGED <<party, answered>>
    BY <1>1, <1>3
  <2>2. HistoryOK' /\ PartiesOK'
    BY <1>1, <2>1, HistoryStays, PartiesStay DEF history
  <2> QED
    BY <1>1, <1>2, <2>1, <2>2, StreamsStay DEF TablesInv
<1>4. CASE taken
  <2>1. /\ party' = [party EXCEPT ![Controller] = next] /\ answered' = answered \union {p.seq}
        /\ st.rcvd = <<>> /\ st.late = 0
    BY <1>1, <1>4 DEF Waiting
  <2>2. /\ next \in Party /\ next.rcvd = <<p>> /\ next.late = 0
        /\ next.inflight = st.inflight /\ next.seq = st.seq
    BY <1>0, <1>2, <2>1, OneRcvd DEF Party
  <2>3. /\ First(found) \in Index /\ st.inflight[First(found)] \in Inflight
        /\ st.inflight[First(found)].seq = p.seq /\ st.inflight[First(found)].op = p.op
    BY <1>0, <1>4, RemoveInflightIs
  <2>4. p.op \in Operation
    BY <2>3 DEF Inflight
  <2> HIDE DEF next, found
  <2>10. LateFits(next) /\ Len(next.rcvd) <= 1
    BY <1>2, <2>2, OneRcvd DEF LateFits
  <2>5. /\ PartiesOK' /\ party'[Controller] = next
        /\ \A m \in Parties \ {Controller} : party'[m] = party[m]
    BY <1>0, <2>1, <2>2, <2>10, PartyStep
  <2>6. p.seq \in Nat
    BY <1>2 DEF Packet
  <2>7. HistoryOK'
    BY <1>1, <2>1, <2>6 DEF TablesInv, HistoryOK
  <2>8. TablesInv'
    BY <1>1, <1>2, <2>5, <2>7, StreamsStay DEF TablesInv
  <2>9. Entry(Controller, First(found)) # None /\ Entry(Controller, First(found)).seq = p.seq
    BY <2>3, NodesAre DEF Entry
  <2> QED
    BY <1>1, <2>1, <2>2, <2>3, <2>4, <2>5, <2>8, <2>9 DEF p
<1> QED
  BY <1>3, <1>4

LEMMA AnsweredKeeps ==
  ASSUME TablesInv, Answered
  PROVE  LET st == party[Controller] IN
         /\ TablesInv'
         /\ st.rcvd # <<>> /\ party'[Controller].rcvd = <<>>
         /\ party'[Controller].inflight = RemoveInflight(st.inflight, st.rcvd[1].seq)
         /\ party'[Controller].seq = st.seq
         /\ \A m \in Parties \ {Controller} : party'[m] = party[m]
         /\ UNCHANGED <<streams, net, history>>
<1> DEFINE st == party[Controller]
           seq == st.rcvd[1].seq
<1>1. /\ st.rcvd # <<>> /\ UNCHANGED <<streams, net, history>>
      /\ party' = [party EXCEPT ![Controller] = [st EXCEPT !.rcvd = <<>>,
                                                  !.inflight = RemoveInflight(@, seq)]]
  BY DEF Answered
<1> HIDE DEF seq
<1>2. /\ PartiesOK' /\ party'[Controller].rcvd = <<>> /\ party'[Controller].seq = st.seq
      /\ party'[Controller].inflight = RemoveInflight(st.inflight, seq)
      /\ \A m \in Parties \ {Controller} : party'[m] = party[m]
  BY <1>1, AnswerTaken, NodesAre
<1>3. TablesInv'
  BY <1>1, <1>2, StreamsStay, NetStays, HistoryStays DEF TablesInv, history
<1> QED
  BY <1>1, <1>2, <1>3 DEF seq

\* A timeout: the entry is dropped, or goes out again.
Dropped(n) ==
  LET i == party[n].late IN
  /\ Entry(n, i).retried
  /\ party'[n].seq = party[n].seq
  /\ party'[n].inflight[i] = None
  /\ \A j \in Index \ {i} : party'[n].inflight[j] = Entry(n, j)
Retried(n) ==
  LET i == party[n].late IN
  /\ ~Entry(n, i).retried
  /\ party'[n].seq = party[n].seq + 1
  /\ party'[n].inflight[i] = Renewed(n, party[n].seq, Entry(n, i))
  /\ \A j \in Index \ {i} : party'[n].inflight[j] = Entry(n, j)

LEMMA LateIs ==
  ASSUME TablesInv, NEW n \in Parties, party[n].late # 0
  PROVE  /\ party[n].late \in Index /\ Entry(n, party[n].late) \in Inflight
         /\ Entry(n, party[n].late).timer = 0 /\ party[n].rcvd = <<>>
<1>1. /\ LateFits(party[n]) /\ party[n].late \in Index
      /\ \A i \in Index : Entry(n, i) \in Inflight \union {None}
  BY PartyAt
<1> QED
  BY <1>1 DEF LateFits, Entry

LEMMA DropKeeps ==
  ASSUME TablesInv, NEW n \in Parties, party[n].late # 0, Entry(n, party[n].late).retried,
         party' = [party EXCEPT ![n] = AfterDrop(party[n], party[n].late)]
  PROVE  /\ PartiesOK' /\ Dropped(n) /\ party'[n].rcvd = <<>>
         /\ \A m \in Parties \ {n} : party'[m] = party[m]
<1> DEFINE i == party[n].late
           next == AfterDrop(party[n], i)
<1>1. i \in Index /\ party[n].rcvd = <<>> /\ party[n] \in Party
  BY LateIs, PartyAt
<1>2. /\ next \in Party /\ next.rcvd = <<>> /\ next.late = 0 /\ next.seq = party[n].seq
      /\ \A j \in Index \ {i} : next.inflight[j] = party[n].inflight[j]
      /\ next.inflight[i] = None
  BY <1>1, AfterDropIs
<1> HIDE DEF next
<1>3. LateFits(next) /\ Len(next.rcvd) <= 1
  BY <1>2, NoRcvd DEF LateFits
<1>4. party' = [party EXCEPT ![n] = next]
  BY DEF next
<1>5. PartiesOK' /\ party'[n] = next /\ \A m \in Parties \ {n} : party'[m] = party[m]
  BY <1>2, <1>3, <1>4, PartyStep
<1>6. Dropped(n)
  BY <1>2, <1>5 DEF Dropped, Entry
<1> QED
  BY <1>2, <1>5, <1>6

LEMMA RetryKeeps ==
  ASSUME TablesInv, NEW n \in Parties, party[n].late # 0, ~Entry(n, party[n].late).retried,
         party' = [party EXCEPT ![n] = AfterRetry(n, party[n], party[n].late)]
  PROVE  /\ PartiesOK' /\ Retried(n) /\ party'[n].rcvd = <<>>
         /\ \A m \in Parties \ {n} : party'[m] = party[m]
<1> DEFINE i == party[n].late
           next == AfterRetry(n, party[n], i)
<1>1. /\ i \in Index /\ party[n].rcvd = <<>> /\ party[n] \in Party
      /\ party[n].inflight[i] # None
  BY LateIs, PartyAt, NodesAre DEF Entry
<1>2. /\ next \in Party /\ next.rcvd = <<>> /\ next.late = 0 /\ next.seq = party[n].seq + 1
      /\ \A j \in Index \ {i} : next.inflight[j] = party[n].inflight[j]
      /\ next.inflight[i] = Renewed(n, party[n].seq, party[n].inflight[i])
  <2> DEFINE st == party[n]
             after == AfterRetry(n, st, i)
  <2>1. st \in Party /\ i \in Index /\ st.inflight[i] # None /\ st.rcvd = <<>>
    BY <1>1
  <2> HIDE DEF i, st
  <2>2. /\ after \in Party
        /\ after.rcvd = st.rcvd /\ after.late = 0 /\ after.seq = st.seq + 1
        /\ \A j \in Index \ {i} : after.inflight[j] = st.inflight[j]
        /\ after.inflight[i] = Renewed(n, st.seq, st.inflight[i])
    <3>1. after \in Party
      BY <2>1, AfterRetryIs
    <3>2. after.rcvd = st.rcvd /\ after.late = 0
      BY <2>1, AfterRetryIs
    <3>3. after.seq = st.seq + 1
      BY <2>1, AfterRetryIs
    <3>4. \A j \in Index \ {i} : after.inflight[j] = st.inflight[j]
      BY <2>1, AfterRetryIs
    <3>5. after.inflight[i] = Renewed(n, st.seq, st.inflight[i])
      BY <2>1, AfterRetryIs
    <3> QED
      BY <3>1, <3>2, <3>3, <3>4, <3>5
  <2> QED
    BY <2>1, <2>2 DEF st
<1> HIDE DEF next
<1>3. LateFits(next) /\ Len(next.rcvd) <= 1
  BY <1>2, NoRcvd DEF LateFits
<1>4. party' = [party EXCEPT ![n] = next]
  BY DEF next
<1>5. PartiesOK' /\ party'[n] = next /\ \A m \in Parties \ {n} : party'[m] = party[m]
  BY <1>2, <1>3, <1>4, PartyStep
<1>6. Retried(n)
  BY <1>2, <1>5 DEF Retried, Entry
<1> QED
  BY <1>2, <1>5, <1>6

LEMMA ControllerTimeoutKeeps ==
  ASSUME TablesInv, ControllerTimeout
  PROVE  LET e == Entry(Controller, party[Controller].late)
             p == PacketOf(e.op, "RX_COMMAND", e.talker, e.listener, party[Controller].seq,
                           "SUCCESS")
         IN
         /\ TablesInv' /\ party[Controller].late # 0 /\ party'[Controller].rcvd = <<>>
         /\ \/ Dropped(Controller) /\ UNCHANGED net
            \/ /\ Retried(Controller) /\ p \in Packet
               /\ net' = [net EXCEPT ![e.listener] = Append(net[e.listener], p)]
         /\ \A m \in Parties \ {Controller} : party'[m] = party[m]
         /\ UNCHANGED <<streams, history>>
<1> DEFINE st == party[Controller]
           e == Entry(Controller, st.late)
           p == PacketOf(e.op, "RX_COMMAND", e.talker, e.listener, st.seq, "SUCCESS")
<1>0. Controller \in Parties
  BY NodesAre
<1>1. /\ st.late # 0 /\ UNCHANGED <<streams, history>>
      /\ \/ /\ e.retried /\ party' = [party EXCEPT ![Controller] = AfterDrop(st, st.late)]
            /\ UNCHANGED net
         \/ /\ ~e.retried
            /\ party' = [party EXCEPT ![Controller] = AfterRetry(Controller, st, st.late)]
            /\ net' = Sent(e.listener, e.op, "RX_COMMAND", e.talker, e.listener, st.seq, "SUCCESS")
  BY DEF ControllerTimeout, Entry
<1>2. e \in Inflight /\ st.seq \in Nat
  BY <1>0, <1>1, LateIs, PartyAt
<1>3. TalkersOK' /\ TwiceOK' /\ SinksOK' /\ HistoryOK'
  BY <1>1, StreamsStay, HistoryStays DEF history
<1> HIDE DEF e
<1>4. p \in Packet /\ e.listener \in Nodes
  BY <1>2, PacketIs, NodesAre DEF Kind, Status, Inflight
<1>5. CASE /\ e.retried /\ party' = [party EXCEPT ![Controller] = AfterDrop(st, st.late)]
           /\ UNCHANGED net
  BY <1>0, <1>1, <1>3, <1>5, DropKeeps, NetStays DEF TablesInv, e
<1>6. CASE /\ ~e.retried
           /\ party' = [party EXCEPT ![Controller] = AfterRetry(Controller, st, st.late)]
           /\ net' = Sent(e.listener, e.op, "RX_COMMAND", e.talker, e.listener, st.seq, "SUCCESS")
  <2>1. NetOK' /\ net' = [net EXCEPT ![e.listener] = Append(net[e.listener], p)]
    BY <1>4, <1>6, SentIs
  <2>2. /\ PartiesOK' /\ Retried(Controller) /\ party'[Controller].rcvd = <<>>
        /\ \A m \in Parties \ {Controller} : party'[m] = party[m]
    BY <1>0, <1>1, <1>6, RetryKeeps DEF e
  <2>3. TablesInv'
    BY <1>3, <2>1, <2>2 DEF TablesInv
  <2> HIDE DEF p
  <2> QED
    BY <1>1, <1>4, <2>1, <2>2, <2>3 DEF e, p
<1> QED
  BY <1>1, <1>5, <1>6

\* What a listener holds.
LEMMA HasIs ==
  ASSUME TablesInv, NEW l \in Listeners, NEW op, NEW kind, Has(l, op, kind)
  PROVE  LET p == party[l].rcvd[1] IN
         party[l].rcvd # <<>> /\ p \in Packet /\ p.op = op /\ p.kind = kind
<1>1. party[l].rcvd # <<>> /\ party[l].rcvd[1].op = op /\ party[l].rcvd[1].kind = kind
  BY DEF Has
<1> QED
  BY <1>1, PartyAt, NodesAre, RcvdIs

LEMMA ReceiveAtListenerKeeps ==
  ASSUME TablesInv, NEW l \in Listeners, ReceiveAtListener(l)
  PROVE  /\ TablesInv'
         /\ net[l] # <<>> /\ net' = [net EXCEPT ![l] = Tail(@)]
         /\ \A m \in Parties : /\ party'[m].inflight = party[m].inflight
                               /\ party'[m].seq = party[m].seq
         /\ \A m \in Parties \ {l} : party'[m] = party[m]
         /\ \/ party'[l].rcvd = party[l].rcvd
            \/ party[l].rcvd = <<>> /\ party'[l].rcvd = <<Head(net[l])>>
         /\ UNCHANGED <<streams, history>>
<1> DEFINE p == Head(net[l])
<1>0. l \in Parties /\ l \in Nodes
  BY NodesAre
<1>1. /\ net[l] # <<>> /\ net' = [net EXCEPT ![l] = Tail(@)]
      /\ party' = IF Waiting(l) THEN [party EXCEPT ![l].rcvd = <<p>>] ELSE party
      /\ UNCHANGED <<streams, history>>
  BY DEF ReceiveAtListener
<1>2. NetOK' /\ p \in Packet
  BY <1>0, <1>1, TailIs
<1>3. TalkersOK' /\ TwiceOK' /\ SinksOK' /\ HistoryOK'
  BY <1>1, StreamsStay, HistoryStays DEF history
<1> HIDE DEF p
<1>4. CASE Waiting(l)
  <2>1. party[l].late = 0 /\ party[l].rcvd = <<>> /\ <<p>> \in Seq(Packet) /\ Len(<<p>>) = 1
    BY <1>2, <1>4 DEF Waiting
  <2>2. /\ PartiesOK' /\ party'[l].rcvd = <<p>>
        /\ \A m \in Parties : party'[m].inflight = party[m].inflight /\ party'[m].seq = party[m].seq
        /\ \A m \in Parties \ {l} : party'[m] = party[m]
    <3> DEFINE rcvd == <<p>>
    <3>1. rcvd \in Seq(Packet) /\ Len(rcvd) <= 1
      BY <2>1
    <3>2. party' = [party EXCEPT ![l].rcvd = rcvd]
      BY <1>1, <1>4
    <3> HIDE DEF rcvd
    <3>3. /\ PartiesOK' /\ party'[l].rcvd = rcvd
          /\ \A m \in Parties : /\ party'[m].inflight = party[m].inflight
                                /\ party'[m].seq = party[m].seq
          /\ \A m \in Parties \ {l} : party'[m] = party[m]
      BY <1>0, <2>1, <3>1, <3>2, PartyRcvd
    <3> QED
      BY <3>3 DEF rcvd
  <2> QED
    BY <1>1, <1>2, <1>3, <2>1, <2>2 DEF TablesInv, p
<1>5. CASE ~Waiting(l)
  BY <1>1, <1>2, <1>3, <1>5, PartiesStay DEF TablesInv
<1> QED
  BY <1>4, <1>5

LEMMA AskKeeps ==
  ASSUME TablesInv, NEW l \in Listeners, NEW p \in Packet, p.op \in Operation, Ask(l, p)
  PROVE  LET e == NewEntry(l, party[l], p.op, p.talker, l, p.seq)
             q == PacketOf(p.op, "TX_COMMAND", p.talker, l, party[l].seq, "SUCCESS")
         IN
         /\ PartiesOK' /\ NetOK' /\ e \in Inflight /\ q \in Packet
         /\ party'[l].rcvd = <<>> /\ party'[l].seq = party[l].seq + 1
         /\ party'[l].inflight = AddInflight(party[l].inflight, e)
         /\ \A m \in Parties \ {l} : party'[m] = party[m]
         /\ net' = [net EXCEPT ![p.talker] = Append(net[p.talker], q)]
<1> DEFINE st == party[l]
           e == NewEntry(l, st, p.op, p.talker, l, p.seq)
           q == PacketOf(p.op, "TX_COMMAND", p.talker, l, st.seq, "SUCCESS")
           after == AfterCommand(l, st, p.op, p.talker, l, p.seq)
           next == [after EXCEPT !.rcvd = <<>>]
<1>0. /\ st \in Party /\ st.seq \in Nat /\ LateFits(st) /\ st.inflight \in InflightList
      /\ l \in Parties /\ p.talker \in Talkers /\ p.talker \in Nodes /\ p.seq \in Nat
  BY PartyAt, NodesAre DEF Packet
<1>1. /\ party' = [party EXCEPT ![l] = next]
      /\ net' = Sent(p.talker, p.op, "TX_COMMAND", p.talker, l, st.seq, "SUCCESS")
  BY DEF Ask
<1>2. /\ after \in Party /\ e \in Inflight /\ after.late = st.late /\ after.seq = st.seq + 1
      /\ after.inflight = AddInflight(st.inflight, e)
  BY <1>0, AfterCommandIs
<1> HIDE DEF after
<1>3. /\ next \in Party /\ next.rcvd = <<>> /\ next.late = st.late /\ next.seq = st.seq + 1
      /\ next.inflight = AddInflight(st.inflight, e)
  BY <1>2, NoRcvd DEF Party
<1>4. LateFits(next) /\ Len(next.rcvd) <= 1
  <2> SUFFICES ASSUME st.late # 0
               PROVE  next.inflight[st.late] # None /\ next.inflight[st.late].timer = 0
    BY <1>3, NoRcvd DEF LateFits
  <2>1. /\ st.inflight[st.late] # None /\ st.inflight[st.late].timer = 0 /\ st.late \in Index
    BY <1>0 DEF LateFits, Party
  <2>2. AddInflight(st.inflight, e)[st.late] = st.inflight[st.late]
    BY <1>0, <1>2, <2>1, AddInflightIs
  <2> QED
    BY <1>3, <2>1, <2>2
<1> HIDE DEF next, e
<1>5. PartiesOK' /\ party'[l] = next /\ \A m \in Parties \ {l} : party'[m] = party[m]
  BY <1>0, <1>1, <1>3, <1>4, PartyStep
<1>6. q \in Packet
  BY <1>0, PacketIs DEF Kind, Status
<1>7. NetOK' /\ net' = [net EXCEPT ![p.talker] = Append(net[p.talker], q)]
  BY <1>0, <1>1, <1>6, SentIs
<1> HIDE DEF q
<1> QED
  BY <1>2, <1>3, <1>5, <1>6, <1>7 DEF e, q

LEMMA RespondIs ==
  ASSUME TablesInv, NEW p \in Packet, NEW seq \in Nat, NEW status \in Status,
         net' = Sent(Controller, p.op, "RX_RESPONSE", p.talker, p.listener, seq, status)
  PROVE  LET q == PacketOf(p.op, "RX_RESPONSE", p.talker, p.listener, seq, status) IN
         NetOK' /\ q \in Packet /\ net' = [net EXCEPT ![Controller] = Append(net[Controller], q)]
<1> DEFINE q == PacketOf(p.op, "RX_RESPONSE", p.talker, p.listener, seq, status)
<1>1. p.op \in Operation \union {"GET"} /\ p.talker \in Talkers /\ p.listener \in Listeners
  BY DEF Packet
<1>2. q \in Packet
  BY <1>1, PacketIs DEF Kind
<1> QED
  BY <1>2, SentIs, NodesAre

LEMMA RefuseKeeps ==
  ASSUME TablesInv, NEW l \in Listeners, NEW p \in Packet, NEW status \in Status,
         Refuse(l, p, status)
  PROVE  LET q == PacketOf(p.op, "RX_RESPONSE", p.talker, p.listener, p.seq, status) IN
         /\ PartiesOK' /\ NetOK' /\ q \in Packet /\ party'[l].rcvd = <<>>
         /\ \A m \in Parties : /\ party'[m].inflight = party[m].inflight
                               /\ party'[m].seq = party[m].seq
         /\ \A m \in Parties \ {l} : party'[m] = party[m]
         /\ net' = [net EXCEPT ![Controller] = Append(net[Controller], q)]
<1>1. /\ party' = [party EXCEPT ![l].rcvd = <<>>]
      /\ net' = Sent(Controller, p.op, "RX_RESPONSE", p.talker, p.listener, p.seq, status)
  BY DEF Refuse, Respond
<1>2. p.seq \in Nat /\ l \in Parties
  BY NodesAre DEF Packet
<1>3. /\ PartiesOK' /\ party'[l].rcvd = <<>>
      /\ \A m \in Parties : party'[m].inflight = party[m].inflight /\ party'[m].seq = party[m].seq
      /\ \A m \in Parties \ {l} : party'[m] = party[m]
  <2> DEFINE rcvd == <<>>
  <2>1. rcvd \in Seq(Packet) /\ Len(rcvd) <= 1 /\ (party[l].late = 0 \/ rcvd = <<>>)
    BY NoRcvd
  <2>2. party' = [party EXCEPT ![l].rcvd = rcvd]
    BY <1>1
  <2> HIDE DEF rcvd
  <2>3. /\ PartiesOK' /\ party'[l].rcvd = rcvd
        /\ \A m \in Parties : party'[m].inflight = party[m].inflight /\ party'[m].seq = party[m].seq
        /\ \A m \in Parties \ {l} : party'[m] = party[m]
    BY <1>2, <2>1, <2>2, PartyRcvd
  <2> QED
    BY <2>3 DEF rcvd
<1>4. LET q == PacketOf(p.op, "RX_RESPONSE", p.talker, p.listener, p.seq, status) IN
      /\ NetOK' /\ q \in Packet
      /\ net' = [net EXCEPT ![Controller] = Append(net[Controller], q)]
  BY <1>1, <1>2, RespondIs
<1> QED
  BY <1>3, <1>4

LEMMA ConnectRxKeeps ==
  ASSUME TablesInv, NEW l \in Listeners, ConnectRx(l)
  PROVE  LET p == party[l].rcvd[1] IN
         /\ TablesInv' /\ Has(l, "CONNECT", "RX_COMMAND")
         /\ Ask(l, p) \/ Refuse(l, p, "LISTENER_EXCLUSIVE")
         /\ UNCHANGED <<streams, history>>
<1> DEFINE p == party[l].rcvd[1]
<1>1. /\ Has(l, "CONNECT", "RX_COMMAND") /\ UNCHANGED <<streams, history>>
      /\ Ask(l, p) \/ Refuse(l, p, "LISTENER_EXCLUSIVE")
  BY DEF ConnectRx
<1>2. p \in Packet /\ p.op \in Operation
  BY <1>1, HasIs DEF Operation
<1> HIDE DEF p
<1>3. PartiesOK' /\ NetOK'
  BY <1>1, <1>2, AskKeeps, RefuseKeeps DEF Status
<1>4. TablesInv'
  BY <1>1, <1>3, StreamsStay, HistoryStays DEF TablesInv, history
<1> QED
  BY <1>1, <1>4 DEF p

LEMMA DisconnectRxKeeps ==
  ASSUME TablesInv, NEW l \in Listeners, DisconnectRx(l)
  PROVE  LET p == party[l].rcvd[1] IN
         /\ TablesInv' /\ Has(l, "DISCONNECT", "RX_COMMAND")
         /\ \/ Ask(l, p) /\ sink' = [sink EXCEPT ![l] = None]
            \/ Refuse(l, p, "NOT_CONNECTED") /\ UNCHANGED sink
         /\ UNCHANGED <<talker, info, history>>
<1> DEFINE p == party[l].rcvd[1]
<1>1. /\ Has(l, "DISCONNECT", "RX_COMMAND") /\ UNCHANGED <<talker, info, history>>
      /\ \/ Ask(l, p) /\ sink' = [sink EXCEPT ![l] = None]
         \/ Refuse(l, p, "NOT_CONNECTED") /\ UNCHANGED sink
  BY DEF DisconnectRx
<1>2. p \in Packet /\ p.op \in Operation
  BY <1>1, HasIs DEF Operation
<1> HIDE DEF p
<1>3. PartiesOK' /\ NetOK'
  BY <1>1, <1>2, AskKeeps, RefuseKeeps DEF Status
<1>4. SinksOK'
  BY <1>1 DEF TablesInv, SinksOK
<1>5. TablesInv'
  BY <1>1, <1>3, <1>4, TalkersStay, HistoryStays DEF TablesInv, history
<1> QED
  BY <1>1, <1>5 DEF p


LEMMA ConnectTxResponseKeeps ==
  ASSUME TablesInv, NEW l \in Listeners, ConnectTxResponse(l)
  PROVE  LET p == party[l].rcvd[1]
             list == party[l].inflight
             found == Matching(list, p.seq)
             q == PacketOf(p.op, "RX_RESPONSE", p.talker, p.listener,
                           list[First(found)].original, "SUCCESS")
         IN
         /\ TablesInv' /\ Has(l, "CONNECT", "TX_RESPONSE")
         /\ party'[l].rcvd = <<>> /\ party'[l].inflight = RemoveInflight(list, p.seq)
         /\ party'[l].seq = party[l].seq
         /\ \A m \in Parties \ {l} : party'[m] = party[m]
         /\ UNCHANGED <<talker, history>>
         /\ \/ found = {} /\ UNCHANGED <<sink, net>>
            \/ /\ found # {} /\ q \in Packet
               /\ sink' = [sink EXCEPT ![l] = p.talker]
               /\ net' = [net EXCEPT ![Controller] = Append(net[Controller], q)]
<1> DEFINE p == party[l].rcvd[1]
           list == party[l].inflight
           found == Matching(list, p.seq)
           original == list[First(found)].original
           q == PacketOf(p.op, "RX_RESPONSE", p.talker, p.listener, original, "SUCCESS")
<1>1. /\ Has(l, "CONNECT", "TX_RESPONSE") /\ UNCHANGED <<talker, history>>
      /\ party' = [party EXCEPT ![l] = [party[l] EXCEPT !.rcvd = <<>>,
                                          !.inflight = RemoveInflight(@, p.seq)]]
      /\ IF found = {}
           THEN UNCHANGED <<info, sink, net>>
           ELSE /\ info' = [info EXCEPT ![l] = p.talker]
                /\ sink' = [sink EXCEPT ![l] = p.talker]
                /\ net' = Respond([p EXCEPT !.seq = original], "SUCCESS")
  BY DEF ConnectTxResponse
<1>2. /\ p \in Packet /\ l \in Parties /\ party[l].rcvd # <<>> /\ list \in InflightList
      /\ p.talker \in Talkers
  BY <1>1, HasIs, NodesAre, PartyAt DEF Packet
<1> HIDE DEF p
<1>3. /\ PartiesOK' /\ party'[l].rcvd = <<>> /\ party'[l].seq = party[l].seq
      /\ party'[l].inflight = RemoveInflight(list, p.seq)
      /\ \A m \in Parties \ {l} : party'[m] = party[m]
  BY <1>1, <1>2, AnswerTaken
<1>4. TalkersOK' /\ TwiceOK' /\ HistoryOK'
  BY <1>1, TalkersStay, HistoryStays DEF history
<1>5. CASE found = {}
  BY <1>1, <1>3, <1>4, <1>5, SinksStay, NetStays DEF TablesInv, p
<1>6. CASE found # {}
  <2>1. original \in Nat
    BY <1>2, <1>6, RemoveInflightIs DEF Inflight
  <2> HIDE DEF original
  <2>2. net' = Sent(Controller, p.op, "RX_RESPONSE", p.talker, p.listener, original, "SUCCESS")
    BY <1>1, <1>2, <1>6, <2>1 DEF Respond, Packet
  <2>3. NetOK' /\ q \in Packet /\ net' = [net EXCEPT ![Controller] = Append(net[Controller], q)]
    BY <1>2, <2>1, <2>2, RespondIs DEF Status
  <2>4. SinksOK' /\ sink' = [sink EXCEPT ![l] = p.talker]
    BY <1>1, <1>2, <1>6 DEF TablesInv, SinksOK
  <2> QED
    BY <1>1, <1>3, <1>4, <1>6, <2>3, <2>4 DEF TablesInv, p, original
<1> QED
  BY <1>5, <1>6

LEMMA DisconnectTxResponseKeeps ==
  ASSUME TablesInv, NEW l \in Listeners, DisconnectTxResponse(l)
  PROVE  LET p == party[l].rcvd[1]
             list == party[l].inflight
             found == Matching(list, p.seq)
             q == PacketOf(p.op, "RX_RESPONSE", p.talker, p.listener,
                           list[First(found)].original, p.status)
         IN
         /\ TablesInv' /\ Has(l, "DISCONNECT", "TX_RESPONSE")
         /\ party'[l].rcvd = <<>> /\ party'[l].inflight = RemoveInflight(list, p.seq)
         /\ party'[l].seq = party[l].seq
         /\ \A m \in Parties \ {l} : party'[m] = party[m]
         /\ UNCHANGED <<talker, sink, history>>
         /\ \/ found = {} /\ UNCHANGED net
            \/ /\ found # {} /\ q \in Packet
               /\ net' = [net EXCEPT ![Controller] = Append(net[Controller], q)]
<1> DEFINE p == party[l].rcvd[1]
           list == party[l].inflight
           found == Matching(list, p.seq)
           original == list[First(found)].original
           q == PacketOf(p.op, "RX_RESPONSE", p.talker, p.listener, original, p.status)
<1>1. /\ Has(l, "DISCONNECT", "TX_RESPONSE") /\ UNCHANGED <<talker, sink, history>>
      /\ party' = [party EXCEPT ![l] = [party[l] EXCEPT !.rcvd = <<>>,
                                          !.inflight = RemoveInflight(@, p.seq)]]
      /\ IF found = {}
           THEN UNCHANGED <<info, net>>
           ELSE /\ info' = [info EXCEPT ![l] = None]
                /\ net' = Respond([p EXCEPT !.seq = original], p.status)
  BY DEF DisconnectTxResponse
<1>2. /\ p \in Packet /\ l \in Parties /\ party[l].rcvd # <<>> /\ list \in InflightList
      /\ p.status \in Status
  BY <1>1, HasIs, NodesAre, PartyAt DEF Packet
<1> HIDE DEF p
<1>3. /\ PartiesOK' /\ party'[l].rcvd = <<>> /\ party'[l].seq = party[l].seq
      /\ party'[l].inflight = RemoveInflight(list, p.seq)
      /\ \A m \in Parties \ {l} : party'[m] = party[m]
  BY <1>1, <1>2, AnswerTaken
<1>4. TalkersOK' /\ TwiceOK' /\ HistoryOK'
  BY <1>1, TalkersStay, HistoryStays DEF history
<1>5. CASE found = {}
  BY <1>1, <1>3, <1>4, <1>5, SinksStay, NetStays DEF TablesInv, p
<1>6. CASE found # {}
  <2>1. original \in Nat
    BY <1>2, <1>6, RemoveInflightIs DEF Inflight
  <2> HIDE DEF original
  <2>2. net' = Sent(Controller, p.op, "RX_RESPONSE", p.talker, p.listener, original, p.status)
    BY <1>1, <1>2, <1>6, <2>1 DEF Respond, Packet
  <2>3. NetOK' /\ q \in Packet /\ net' = [net EXCEPT ![Controller] = Append(net[Controller], q)]
    BY <1>2, <2>1, <2>2, RespondIs
  <2>4. SinksOK'
    BY <1>1, <1>6 DEF TablesInv, SinksOK
  <2> QED
    BY <1>1, <1>3, <1>4, <1>6, <2>3, <2>4 DEF TablesInv, p, original
<1> QED
  BY <1>5, <1>6

LEMMA ListenerTimeoutKeeps ==
  ASSUME TablesInv, NEW l \in Listeners, ListenerTimeout(l)
  PROVE  LET e == Entry(l, party[l].late)
             p == PacketOf(e.op, "RX_RESPONSE", e.talker, l, e.original, "LISTENER_TALKER_TIMEOUT")
             q == PacketOf(e.op, "TX_COMMAND", e.talker, l, party[l].seq, "SUCCESS")
         IN
         /\ TablesInv' /\ party[l].late # 0 /\ party'[l].rcvd = <<>>
         /\ \/ /\ Dropped(l) /\ p \in Packet
               /\ net' = [net EXCEPT ![Controller] = Append(net[Controller], p)]
            \/ /\ Retried(l) /\ q \in Packet
               /\ net' = [net EXCEPT ![e.talker] = Append(net[e.talker], q)]
         /\ \A m \in Parties \ {l} : party'[m] = party[m]
         /\ UNCHANGED <<streams, history>>
<1> DEFINE st == party[l]
           e == Entry(l, st.late)
           p == PacketOf(e.op, "RX_RESPONSE", e.talker, l, e.original, "LISTENER_TALKER_TIMEOUT")
           q == PacketOf(e.op, "TX_COMMAND", e.talker, l, st.seq, "SUCCESS")
<1>0. l \in Parties
  BY NodesAre
<1>1. /\ st.late # 0 /\ UNCHANGED <<streams, history>>
      /\ \/ /\ e.retried /\ party' = [party EXCEPT ![l] = AfterDrop(st, st.late)]
            /\ net' = Sent(Controller, e.op, "RX_RESPONSE", e.talker, l, e.original,
                           "LISTENER_TALKER_TIMEOUT")
         \/ /\ ~e.retried /\ party' = [party EXCEPT ![l] = AfterRetry(l, st, st.late)]
            /\ net' = Sent(e.talker, e.op, "TX_COMMAND", e.talker, l, st.seq, "SUCCESS")
  BY DEF ListenerTimeout, Entry
<1>2. e \in Inflight /\ st.seq \in Nat
  BY <1>0, <1>1, LateIs, PartyAt
<1>3. TalkersOK' /\ TwiceOK' /\ SinksOK' /\ HistoryOK'
  BY <1>1, StreamsStay, HistoryStays DEF history
<1> HIDE DEF e
<1>4. p \in Packet /\ q \in Packet /\ e.talker \in Nodes
  BY <1>2, PacketIs, NodesAre DEF Kind, Status, Inflight
<1>5. CASE /\ e.retried /\ party' = [party EXCEPT ![l] = AfterDrop(st, st.late)]
           /\ net' = Sent(Controller, e.op, "RX_RESPONSE", e.talker, l, e.original,
                          "LISTENER_TALKER_TIMEOUT")
  <2>1. NetOK' /\ net' = [net EXCEPT ![Controller] = Append(net[Controller], p)]
    BY <1>4, <1>5, SentIs, NodesAre
  <2>2. /\ PartiesOK' /\ Dropped(l) /\ party'[l].rcvd = <<>>
        /\ \A m \in Parties \ {l} : party'[m] = party[m]
    BY <1>0, <1>1, <1>5, DropKeeps DEF e
  <2>3. TablesInv'
    BY <1>3, <2>1, <2>2 DEF TablesInv
  <2> HIDE DEF p
  <2> QED
    BY <1>1, <1>4, <2>1, <2>2, <2>3 DEF e, p
<1>6. CASE /\ ~e.retried /\ party' = [party EXCEPT ![l] = AfterRetry(l, st, st.late)]
           /\ net' = Sent(e.talker, e.op, "TX_COMMAND", e.talker, l, st.seq, "SUCCESS")
  <2>1. NetOK' /\ net' = [net EXCEPT ![e.talker] = Append(net[e.talker], q)]
    BY <1>4, <1>6, SentIs
  <2>2. /\ PartiesOK' /\ Retried(l) /\ party'[l].rcvd = <<>>
        /\ \A m \in Parties \ {l} : party'[m] = party[m]
    BY <1>0, <1>1, <1>6, RetryKeeps DEF e
  <2>3. TablesInv'
    BY <1>3, <2>1, <2>2 DEF TablesInv
  <2> HIDE DEF q
  <2> QED
    BY <1>1, <1>4, <2>1, <2>2, <2>3 DEF e, q
<1> QED
  BY <1>1, <1>5, <1>6

-----------------------------------------------------------------------------
(***************************************************************************)
(* A talker, the network and the clock.                                    *)
(***************************************************************************)
LEMMA ReceiveAtTalkerKeeps ==
  ASSUME TablesInv, NEW t \in Talkers, ReceiveAtTalker(t)
  PROVE  /\ TablesInv'
         /\ net[t] # <<>> /\ net' = [net EXCEPT ![t] = Tail(@)]
         /\ \A s \in Talkers : talker'[s].slots = talker[s].slots
         /\ \A s \in Talkers \ {t} : talker'[s] = talker[s]
         /\ \/ talker'[t].rcvd = talker[t].rcvd
            \/ talker[t].rcvd = <<>> /\ talker'[t].rcvd = <<Head(net[t])>>
         /\ UNCHANGED <<party, info, sink, history>>
<1> DEFINE p == Head(net[t])
<1>1. /\ net[t] # <<>> /\ net' = [net EXCEPT ![t] = Tail(@)]
      /\ talker' = IF talker[t].rcvd = <<>> THEN [talker EXCEPT ![t].rcvd = <<p>>] ELSE talker
      /\ UNCHANGED <<party, info, sink, history>>
  BY DEF ReceiveAtTalker
<1>2. NetOK' /\ p \in Packet
  BY <1>1, TailIs, NodesAre
<1>3. PartiesOK' /\ SinksOK' /\ HistoryOK'
  BY <1>1, PartiesStay, SinksStay, HistoryStays
<1> HIDE DEF p
<1>4. CASE talker[t].rcvd = <<>>
  <2> DEFINE rcvd == <<p>>
             st == talker[t]
  <2>1. rcvd \in Seq(Packet) /\ Len(rcvd) <= 1 /\ st \in TalkerState /\ SlotsFit(st)
    BY <1>2, TalkerAt
  <2>2. talker' = [talker EXCEPT ![t] = [st EXCEPT !.rcvd = rcvd]]
    BY <1>1, <1>4
  <2> HIDE DEF rcvd, st
  <2>3. /\ TalkersOK' /\ talker'[t].rcvd = rcvd /\ talker'[t].slots = st.slots
        /\ \A s \in Talkers \ {t} : talker'[s] = talker[s]
    BY <2>1, <2>2, TalkerRcvd
  <2>4. TwiceOK'
    BY <1>1, <2>3 DEF TablesInv, TwiceOK, NoListenerTwice, OneSlotEach, history, st
  <2> QED
    BY <1>1, <1>2, <1>3, <1>4, <2>3, <2>4 DEF TablesInv, rcvd, st, p
<1>5. CASE talker[t].rcvd # <<>>
  BY <1>1, <1>2, <1>3, <1>5, TalkersStay DEF TablesInv, history
<1> QED
  BY <1>4, <1>5

\* What a served command does to the table of its talker.
SlotsServed(t, p) ==
  /\ t \in Unknown => talker'[t].slots = talker[t].slots
  /\ t \notin Unknown /\ p.op = "CONNECT" =>
       /\ \A i \in Slot : talker'[t].slots[i] # talker[t].slots[i] =>
            talker[t].slots[i] = None /\ talker'[t].slots[i] = p.listener
       /\ (\E i \in Slot : talker[t].slots[i] \in {p.listener, None}) =>
            \E i \in Slot : talker'[t].slots[i] = p.listener
  /\ t \notin Unknown /\ p.op = "DISCONNECT" =>
       \A i \in Slot : talker'[t].slots[i] # talker[t].slots[i] =>
         talker[t].slots[i] = p.listener /\ talker'[t].slots[i] = None

LEMMA ServeKeeps ==
  ASSUME TablesInv, NEW t \in Talkers, Serve(t)
  PROVE  LET p == talker[t].rcvd[1]
             status == IF t \in Unknown THEN "TALKER_UNKNOWN_ID" ELSE "SUCCESS"
             q == PacketOf(p.op, "TX_RESPONSE", t, p.listener, p.seq, status)
         IN
         /\ TablesInv' /\ talker[t].rcvd # <<>> /\ talker'[t].rcvd = <<>>
         /\ p \in Packet /\ p.op \in Operation /\ q \in Packet
         /\ SlotsServed(t, p)
         /\ \A s \in Talkers \ {t} : talker'[s] = talker[s]
         /\ net' = [net EXCEPT ![p.listener] = Append(net[p.listener], q)]
         /\ twice => twice'
         /\ UNCHANGED <<party, info, sink, want, answered, hurried, commands, faults>>
<1> DEFINE st == talker[t]
           p == st.rcvd[1]
           status == IF t \in Unknown THEN "TALKER_UNKNOWN_ID" ELSE "SUCCESS"
           q == PacketOf(p.op, "TX_RESPONSE", t, p.listener, p.seq, status)
           after == IF t \in Unknown THEN st
                    ELSE IF p.op = "CONNECT" THEN Connected(st, p.listener)
                    ELSE Disconnected(st, p.listener)
<1>1. /\ st.rcvd # <<>> /\ p.op # "GET"
      /\ talker' = [talker EXCEPT ![t] = [after EXCEPT !.rcvd = <<>>]]
      /\ net' = Sent(p.listener, p.op, "TX_RESPONSE", t, p.listener, p.seq, status)
      /\ twice' = (twice \/ ~OneSlotEach(talker'[t].slots))
      /\ UNCHANGED <<party, info, sink, want, answered, hurried, commands, faults>>
  BY DEF Serve
<1>2. p \in Packet /\ st \in TalkerState /\ SlotsFit(st)
  BY <1>1, TalkerAt, RcvdIs
<1> HIDE DEF p
<1>3. /\ p.op \in Operation /\ p.listener \in Listeners /\ p.listener \in Nodes
      /\ p.seq \in Nat /\ status \in Status
  BY <1>1, <1>2, NodesAre DEF Packet, Operation, Status
<1>4. q \in Packet
  BY <1>3, PacketIs DEF Kind
<1>5. NetOK' /\ net' = [net EXCEPT ![p.listener] = Append(net[p.listener], q)]
  BY <1>1, <1>3, <1>4, SentIs
<1> HIDE DEF status
<1>6. after \in TalkerState /\ SlotsFit(after)
  BY <1>2, <1>3, ConnectedIs, DisconnectedIs
<1>7. /\ t \in Unknown => after.slots = st.slots
      /\ t \notin Unknown /\ p.op = "CONNECT" => after.slots = Connected(st, p.listener).slots
      /\ t \notin Unknown /\ p.op = "DISCONNECT" => after.slots = Disconnected(st, p.listener).slots
  OBVIOUS
<1> HIDE DEF after
<1>8. /\ TalkersOK' /\ talker'[t].rcvd = <<>> /\ talker'[t].slots = after.slots
      /\ \A s \in Talkers \ {t} : talker'[s] = talker[s]
  <2> DEFINE rcvd == <<>>
  <2>1. rcvd \in Seq(Packet) /\ Len(rcvd) <= 1
    BY NoRcvd
  <2>2. talker' = [talker EXCEPT ![t] = [after EXCEPT !.rcvd = rcvd]]
    BY <1>1
  <2> HIDE DEF rcvd
  <2>3. /\ TalkersOK' /\ talker'[t].rcvd = rcvd /\ talker'[t].slots = after.slots
        /\ \A s \in Talkers \ {t} : talker'[s] = talker[s]
    BY <1>6, <2>1, <2>2, TalkerRcvd
  <2> QED
    BY <2>3 DEF rcvd
<1>9. SlotsServed(t, p)
  <2>1. CASE t \in Unknown
    BY <1>7, <1>8, <2>1 DEF SlotsServed
  <2>2. CASE t \notin Unknown /\ p.op = "CONNECT"
    BY <1>2, <1>3, <1>7, <1>8, <2>2, ConnectedIs DEF SlotsServed
  <2>3. CASE t \notin Unknown /\ p.op = "DISCONNECT"
    BY <1>2, <1>3, <1>7, <1>8, <2>3, DisconnectedIs DEF SlotsServed
  <2> QED
    BY <1>3, <2>1, <2>2, <2>3 DEF Operation
<1>10. TwiceOK' /\ twice' \in BOOLEAN /\ (twice => twice')
  <2>1. twice \in BOOLEAN /\ OneSlotEach(talker'[t].slots) \in BOOLEAN
    BY DEF TablesInv, HistoryOK, OneSlotEach
  <2>2. ASSUME ~twice' PROVE NoListenerTwice'
    <3>1. ~twice /\ OneSlotEach(talker'[t].slots)
      BY <1>1, <2>1, <2>2
    <3> QED
      BY <1>8, <3>1 DEF TablesInv, TwiceOK, NoListenerTwice
  <2>3. twice' \in BOOLEAN /\ (twice => twice')
    BY <1>1, <2>1
  <2> QED
    BY <2>2, <2>3 DEF TwiceOK
<1>11. HistoryOK'
  BY <1>1, <1>10 DEF TablesInv, HistoryOK
<1>12. PartiesOK' /\ SinksOK'
  BY <1>1, PartiesStay, SinksStay
<1>13. TablesInv'
  BY <1>5, <1>8, <1>10, <1>11, <1>12 DEF TablesInv
<1> HIDE DEF q
<1> QED
  BY <1>1, <1>2, <1>3, <1>4, <1>5, <1>8, <1>9, <1>10, <1>13 DEF p, status, q

LEMMA QueryKeeps ==
  ASSUME TablesInv, NEW n \in Nodes, Query(n)
  PROVE  /\ TablesInv'
         /\ \E q \in Packet : /\ q.op = "GET"
                              /\ net' = [net EXCEPT ![n] = Append(net[n], q)]
         /\ n # Controller
         /\ UNCHANGED <<streams, party, want, answered, hurried, twice, commands>>
<1> DEFINE t == IF n \in Talkers THEN n ELSE CHOOSE x \in Talkers : TRUE
           l == IF n \in Listeners THEN n ELSE CHOOSE x \in Listeners : TRUE
           kind == IF n = t THEN "TX_COMMAND" ELSE "RX_COMMAND"
           q == PacketOf("GET", kind, t, l, 0, "SUCCESS")
<1>1. /\ faults < MaxFaults /\ n # Controller /\ net' = Sent(n, "GET", kind, t, l, 0, "SUCCESS")
      /\ faults' = faults + 1
      /\ UNCHANGED <<streams, party, want, answered, hurried, twice, commands>>
  BY DEF Query
<1>2. t \in Talkers /\ l \in Listeners /\ kind \in Kind
  BY AcmpAssumption DEF Kind
<1> HIDE DEF t, l, kind
<1>3. q \in Packet /\ q.op = "GET"
  BY <1>2, PacketIs DEF Status
<1>4. NetOK' /\ net' = [net EXCEPT ![n] = Append(net[n], q)]
  BY <1>1, <1>3, SentIs
<1>5. faults' \in 0 .. MaxFaults
  BY <1>1, AcmpAssumption DEF TablesInv, HistoryOK
<1>6. HistoryOK'
  BY <1>1, <1>5 DEF TablesInv, HistoryOK
<1>7. TablesInv'
  BY <1>1, <1>4, <1>6, StreamsStay, PartiesStay DEF TablesInv
<1> QED
  BY <1>1, <1>3, <1>4, <1>7

LEMMA LoseKeeps ==
  ASSUME TablesInv, NEW n \in Nodes, Lose(n)
  PROVE  /\ TablesInv' /\ net[n] # <<>> /\ net' = [net EXCEPT ![n] = Tail(@)]
         /\ UNCHANGED <<streams, party, want, answered, hurried, twice, commands>>
<1>1. /\ net[n] # <<>> /\ faults < MaxFaults /\ net' = [net EXCEPT ![n] = Tail(@)]
      /\ faults' = faults + 1
      /\ UNCHANGED <<streams, party, want, answered, hurried, twice, commands>>
  BY DEF Lose
<1>2. NetOK'
  BY <1>1, TailIs
<1>3. faults' \in 0 .. MaxFaults
  BY <1>1, AcmpAssumption DEF TablesInv, HistoryOK
<1>4. HistoryOK'
  BY <1>1, <1>3 DEF TablesInv, HistoryOK
<1> QED
  BY <1>1, <1>2, <1>4, StreamsStay, PartiesStay DEF TablesInv

LEMMA TalkerGetsState ==
  ASSUME TablesInv, NEW t \in Talkers, talker' = [talker EXCEPT ![t].rcvd = <<>>],
         UNCHANGED <<party, info, sink, net, history>>
  PROVE  /\ TablesInv' /\ talker'[t].rcvd = <<>>
         /\ \A s \in Talkers : talker'[s].slots = talker[s].slots
         /\ \A s \in Talkers \ {t} : talker'[s] = talker[s]
<1> DEFINE rcvd == <<>>
           st == talker[t]
<1>1. rcvd \in Seq(Packet) /\ Len(rcvd) <= 1 /\ st \in TalkerState /\ SlotsFit(st)
  BY NoRcvd, TalkerAt
<1>2. talker' = [talker EXCEPT ![t] = [st EXCEPT !.rcvd = rcvd]]
  OBVIOUS
<1> HIDE DEF rcvd, st
<1>3. /\ TalkersOK' /\ talker'[t].rcvd = rcvd /\ talker'[t].slots = st.slots
      /\ \A s \in Talkers \ {t} : talker'[s] = talker[s]
  BY <1>1, <1>2, TalkerRcvd
<1>4. TwiceOK'
  BY <1>3 DEF TablesInv, TwiceOK, NoListenerTwice, OneSlotEach, history, st
<1>5. TablesInv'
  BY <1>3, <1>4, PartiesStay, SinksStay, NetStays, HistoryStays DEF TablesInv
<1> QED
  BY <1>3, <1>5 DEF rcvd, st

LEMMA GetStateKeeps ==
  ASSUME TablesInv, NEW n \in Nodes, GetState(n)
  PROVE  /\ TablesInv'
         /\ \A t \in Talkers : /\ talker'[t].slots = talker[t].slots
                               /\ talker'[t].rcvd \in {talker[t].rcvd, <<>>}
         /\ \A m \in Parties : /\ party'[m].inflight = party[m].inflight
                               /\ party'[m].seq = party[m].seq
                               /\ party'[m].rcvd \in {party[m].rcvd, <<>>}
         /\ party'[Controller] = party[Controller]
         /\ UNCHANGED <<info, sink, net, history>>
<1>1. CASE /\ n \in Talkers /\ talker' = [talker EXCEPT ![n].rcvd = <<>>]
           /\ UNCHANGED <<party, info, sink, net, history>>
  <2>1. /\ TablesInv' /\ talker'[n].rcvd = <<>>
        /\ \A s \in Talkers : talker'[s].slots = talker[s].slots
        /\ \A s \in Talkers \ {n} : talker'[s] = talker[s]
    BY <1>1, TalkerGetsState
  <2> QED
    BY <1>1, <2>1
<1>2. CASE /\ n \in Listeners /\ party' = [party EXCEPT ![n].rcvd = <<>>]
           /\ UNCHANGED <<streams, net, history>>
  <2> DEFINE rcvd == <<>>
  <2>1. rcvd \in Seq(Packet) /\ Len(rcvd) <= 1 /\ (party[n].late = 0 \/ rcvd = <<>>)
    BY NoRcvd
  <2>2. n \in Parties /\ n # Controller /\ Controller \in Parties
    BY <1>2, NodesAre
  <2>3. party' = [party EXCEPT ![n].rcvd = rcvd]
    BY <1>2
  <2> HIDE DEF rcvd
  <2>4. /\ PartiesOK' /\ party'[n].rcvd = rcvd
        /\ \A m \in Parties : party'[m].inflight = party[m].inflight /\ party'[m].seq = party[m].seq
        /\ \A m \in Parties \ {n} : party'[m] = party[m]
    BY <2>1, <2>2, <2>3, PartyRcvd
  <2>5. TablesInv'
    BY <1>2, <2>4, StreamsStay, NetStays, HistoryStays DEF TablesInv, history
  <2> QED
    BY <1>2, <2>2, <2>4, <2>5 DEF rcvd, streams
<1> QED
  BY <1>1, <1>2 DEF GetState

LEMMA TickKeeps ==
  ASSUME TablesInv, Tick
  PROVE  /\ TablesInv' /\ Settled
         /\ \A n \in Parties : /\ party'[n].rcvd = party[n].rcvd /\ party'[n].seq = party[n].seq
                               /\ \A i \in Index : party'[n].inflight[i] = Ticked(Entry(n, i))
         /\ UNCHANGED <<streams, net, history>>
<1>1. /\ Settled /\ UNCHANGED <<streams, net, history>>
      /\ party' = [n \in DOMAIN party |->
           [party[n] EXCEPT !.inflight = [i \in Index |-> Ticked(party[n].inflight[i])]]]
  BY DEF Tick
<1>2. DOMAIN party = Parties
  BY DEF TablesInv, PartiesOK
<1>3. ASSUME NEW n \in Parties
      PROVE  /\ party'[n] \in Party /\ party'[n].rcvd = party[n].rcvd
             /\ party'[n].late = party[n].late /\ party'[n].seq = party[n].seq
             /\ \A i \in Index : party'[n].inflight[i] = Ticked(Entry(n, i))
  <2> DEFINE list == [i \in Index |-> Ticked(party[n].inflight[i])]
  <2>1. ASSUME NEW i \in Index PROVE list[i] \in Inflight \union {None}
    <3>1. Entry(n, i) \in Inflight \union {None}
      BY PartyAt
    <3>2. CASE Entry(n, i) = None
      BY <3>2 DEF Ticked, Entry
    <3>3. CASE Entry(n, i) \in Inflight
      BY <3>3, TickedIs DEF Entry
    <3> QED
      BY <3>1, <3>2, <3>3
  <2>2. list \in InflightList
    BY <2>1 DEF InflightList
  <2>3. \A i \in Index : list[i] = Ticked(Entry(n, i))
    BY DEF Entry
  <2>4. party'[n] = [party[n] EXCEPT !.inflight = list]
    BY <1>1, <1>2
  <2> HIDE DEF list
  <2> QED
    BY <2>2, <2>3, <2>4, PartyAt DEF Party, InflightList
<1>4. \A n \in Parties : party[n].late = 0
  BY <1>1, <1>2 DEF Settled, Waiting
<1>5. \A n \in Parties : Len(party'[n].rcvd) <= 1 /\ LateFits(party'[n])
  BY <1>3, <1>4, PartyAt DEF LateFits
<1>6. party' \in [Parties -> Party]
  BY <1>1, <1>2, <1>3
<1>7. PartiesOK'
  BY <1>5, <1>6 DEF PartiesOK
<1>8. TablesInv'
  BY <1>1, <1>7, StreamsStay, NetStays, HistoryStays DEF TablesInv, history
<1> QED
  BY <1>1, <1>3, <1>8

-----------------------------------------------------------------------------
LEMMA TablesInit == Init => TablesInv
<1> SUFFICES ASSUME Init PROVE TablesInv
  OBVIOUS
<1>1. TalkersOK
  <2> DEFINE slots == [i \in Slot |-> None]
             st == [slots |-> slots, count |-> 0, source |-> "DISABLED", rcvd |-> <<>>]
  <2>1. slots \in [Slot -> Listeners \union {None}] /\ Taken(slots) = {}
    BY DEF Taken
  <2> HIDE DEF slots
  <2>2. st \in TalkerState /\ st.rcvd = <<>>
    BY <2>1, NoRcvd, AcmpAssumption DEF TalkerState
  <2>3. SlotsFit(st)
    BY <2>1, FitsIs, FS_EmptySet
  <2>4. talker = [t \in Talkers |-> st]
    BY DEF Init, slots
  <2> HIDE DEF st
  <2> QED
    BY <2>2, <2>3, <2>4, NoRcvd DEF TalkersOK
<1>2. PartiesOK
  <2> DEFINE list == [i \in Index |-> None]
             st == [rcvd |-> <<>>, late |-> 0, seq |-> 0, inflight |-> list]
  <2>1. list \in InflightList
    BY DEF InflightList
  <2> HIDE DEF list
  <2>2. st \in Party /\ st.late = 0 /\ st.rcvd = <<>>
    BY <2>1, NoRcvd, PartyOf
  <2>3. party = [n \in Parties |-> st]
    BY DEF Init, list, Parties
  <2> HIDE DEF st
  <2> QED
    BY <2>2, <2>3, NoRcvd DEF PartiesOK, LateFits
<1>3. NetOK
  BY NoRcvd DEF Init, NetOK
<1>4. SinksOK /\ HistoryOK
  <2>1. MaxCommands \in Nat /\ MaxFaults \in Nat
    BY AcmpAssumption
  <2>2. commands \in 0 .. MaxCommands /\ faults \in 0 .. MaxFaults
    BY <2>1 DEF Init
  <2>3. /\ info \in [Listeners -> Talkers \union {None}]
        /\ sink \in [Listeners -> Talkers \union {None}]
        /\ want \in [Listeners -> Talkers \union {None}]
    BY DEF Init
  <2>4. answered \subseteq Nat /\ hurried \subseteq Listeners /\ twice \in BOOLEAN
    BY DEF Init
  <2> QED
    BY <2>2, <2>3, <2>4 DEF SinksOK, HistoryOK
<1>5. TwiceOK
  BY DEF Init, TwiceOK, NoListenerTwice, OneSlotEach
<1> QED
  BY <1>1, <1>2, <1>3, <1>4, <1>5 DEF TablesInv

LEMMA TablesStep == TablesInv /\ [Next]_vars => TablesInv'
<1> SUFFICES ASSUME TablesInv, [Next]_vars PROVE TablesInv'
  OBVIOUS
<1>0. Controller \in Parties /\ Listeners \subseteq Parties /\ Parties \subseteq Nodes
      /\ Talkers \subseteq Nodes
  BY NodesAre
<1>1. CASE \E op \in Operation, t \in Talkers, l \in Listeners : Command(op, t, l)
  BY <1>1, CommandKeeps
<1>2. CASE ReceiveResponse
  BY <1>2, ReceiveResponseKeeps
<1>3. CASE ControllerPeriodic
  BY <1>0, <1>3, CheckTimeoutsKeeps, ControllerTimeoutKeeps, AnsweredKeeps DEF ControllerPeriodic
<1>4. CASE \E l \in Listeners : ReceiveAtListener(l)
  BY <1>4, ReceiveAtListenerKeeps
<1>5. CASE \E l \in Listeners : ListenerPeriodic(l)
  <2> PICK l \in Listeners : ListenerPeriodic(l)
    BY <1>5
  <2> QED
    BY <1>0, CheckTimeoutsKeeps, ListenerTimeoutKeeps, ConnectRxKeeps, DisconnectRxKeeps,
       ConnectTxResponseKeeps, DisconnectTxResponseKeeps, GetStateKeeps DEF ListenerPeriodic
<1>6. CASE \E t \in Talkers : ReceiveAtTalker(t) \/ Serve(t) \/ GetState(t)
  BY <1>0, <1>6, ReceiveAtTalkerKeeps, ServeKeeps, GetStateKeeps
<1>7. CASE \E n \in Nodes : Query(n) \/ Lose(n)
  BY <1>7, QueryKeeps, LoseKeeps
<1>8. CASE Tick
  BY <1>8, TickKeeps
<1>9. CASE UNCHANGED vars
  BY <1>9, StreamsStay, PartiesStay, NetStays, HistoryStays
     DEF vars, streams, history, TablesInv
<1> QED
  BY <1>1, <1>2, <1>3, <1>4, <1>5, <1>6, <1>7, <1>8, <1>9 DEF Next

\* Whatever the application, the other controllers and the network do, the table
\* of a talker, the count next to it and the source state agree: the source runs
\* exactly while a listener has a slot (acmp_add_talker_stream_info,
\* acmp_remove_talker_stream_info, avb_talker_on_listener_connect, _disconnect).
THEOREM SourceAlwaysRunsForListeners == Spec => [](TypeOK /\ SourceRunsForListeners)
<1>1. TablesInv => TypeOK /\ SourceRunsForListeners
  BY TablesAreTyped
<1> QED
  BY <1>1, TablesInit, TablesStep, PTL DEF Spec

-----------------------------------------------------------------------------
(***************************************************************************)
(* The commands the controller has in flight bear sequence ids of their    *)
(* own, and of those it has accepted an answer for only the one it is      *)
(* about to take off is still among them.                                  *)
(***************************************************************************)
IdsDiffer ==
  \A i, j \in Index :
    /\ Entry(Controller, i) # None /\ Entry(Controller, j) # None
    /\ Entry(Controller, i).seq = Entry(Controller, j).seq
    => i = j

AnswersFit ==
  /\ \A seq \in answered : seq < party[Controller].seq
  /\ \A i \in Index : Entry(Controller, i) # None =>
       Entry(Controller, i).seq < party[Controller].seq
  /\ \A i \in Index : Entry(Controller, i) # None /\ Entry(Controller, i).seq \in answered =>
       /\ party[Controller].rcvd # <<>>
       /\ party[Controller].rcvd[1].seq = Entry(Controller, i).seq

AgreesInv == TablesInv /\ IdsDiffer /\ AnswersFit

\* The controller's state machine, and what it accepted, are as before.
ControllerStays ==
  /\ party'[Controller].rcvd = party[Controller].rcvd
  /\ party'[Controller].seq = party[Controller].seq
  /\ party'[Controller].inflight = party[Controller].inflight
  /\ UNCHANGED answered

LEMMA ControllerAt ==
  ASSUME TablesInv
  PROVE  /\ Controller \in Parties /\ party[Controller] \in Party
         /\ party[Controller].seq \in Nat /\ party[Controller].inflight \in InflightList
         /\ \A i \in Index : Entry(Controller, i) \in Inflight \union {None}
         /\ answered \subseteq Nat
BY PartyAt, NodesAre DEF TablesInv, HistoryOK

LEMMA StaysFits ==
  ASSUME IdsDiffer, AnswersFit, ControllerStays
  PROVE  IdsDiffer' /\ AnswersFit'
BY DEF IdsDiffer, AnswersFit, ControllerStays, Entry

\* One entry has got a new sequence id, the others are as they were.
LEMMA NewIdFits ==
  ASSUME AgreesInv, NEW i \in Index, NEW e \in Inflight, Entry(Controller, i)' = e,
         e.seq = party[Controller].seq, party'[Controller].seq = party[Controller].seq + 1,
         \A j \in Index \ {i} : Entry(Controller, j)' = Entry(Controller, j),
         answered' \subseteq answered,
         \A j \in Index : Entry(Controller, j) # None => Entry(Controller, j).seq \notin answered'
  PROVE  IdsDiffer' /\ AnswersFit'
<1> DEFINE seq == party[Controller].seq
<1>0. seq \in Nat /\ answered \subseteq Nat
  BY ControllerAt DEF AgreesInv
<1>1. /\ \A x \in answered : x < seq
      /\ \A j \in Index : Entry(Controller, j) # None => Entry(Controller, j).seq < seq
  BY DEF AgreesInv, AnswersFit
<1>2. \A j \in Index : Entry(Controller, j) # None => Entry(Controller, j).seq \in Nat
  BY ControllerAt DEF AgreesInv, Inflight
<1>3. \A j \in Index \ {i} : Entry(Controller, j)' # None => Entry(Controller, j)'.seq # seq
  BY <1>0, <1>1, <1>2
<1>4. IdsDiffer'
  <2> SUFFICES ASSUME NEW j \in Index, NEW k \in Index,
                      Entry(Controller, j)' # None, Entry(Controller, k)' # None,
                      Entry(Controller, j)'.seq = Entry(Controller, k)'.seq
               PROVE  j = k
    BY DEF IdsDiffer
  <2>1. CASE j = i \/ k = i
    BY <1>3, <2>1
  <2>2. CASE j # i /\ k # i
    <3>1. /\ Entry(Controller, j)' = Entry(Controller, j)
          /\ Entry(Controller, k)' = Entry(Controller, k)
      BY <2>2
    <3> QED
      BY <3>1 DEF AgreesInv, IdsDiffer
  <2> QED
    BY <2>1, <2>2
<1>5. seq \notin answered'
  BY <1>0, <1>1
<1>6. \A j \in Index : Entry(Controller, j)' # None => Entry(Controller, j)'.seq \notin answered'
  BY <1>5
<1>7. \A j \in Index : Entry(Controller, j)' # None => Entry(Controller, j)'.seq < seq + 1
  <2> SUFFICES ASSUME NEW j \in Index, Entry(Controller, j)' # None
               PROVE  Entry(Controller, j)'.seq < seq + 1
    OBVIOUS
  <2>1. CASE j = i
    BY <1>0, <2>1
  <2>2. CASE j # i
    <3>1. Entry(Controller, j)' = Entry(Controller, j)
      BY <2>2
    <3>2. Entry(Controller, j).seq < seq /\ Entry(Controller, j).seq \in Nat
      BY <1>1, <1>2, <3>1
    <3> QED
      BY <1>0, <3>1, <3>2
  <2> QED
    BY <2>1, <2>2
<1>8. \A x \in answered' : x < seq + 1
  BY <1>0, <1>1
<1> QED
  BY <1>4, <1>6, <1>7, <1>8 DEF AnswersFit

LEMMA CommandFits ==
  ASSUME AgreesInv, NEW op \in Operation, NEW t \in Talkers, NEW l \in Listeners,
         Command(op, t, l)
  PROVE  IdsDiffer' /\ AnswersFit'
<1> DEFINE st == party[Controller]
           new == NewEntry(Controller, st, op, t, l, 0)
<1>1. /\ party'[Controller].inflight = AddInflight(st.inflight, new)
      /\ party'[Controller].seq = st.seq + 1
      /\ answered' = IF st.rcvd = <<>> THEN answered ELSE answered \ {st.rcvd[1].seq}
      /\ new \in Inflight
  BY CommandKeeps DEF AgreesInv
<1>2. st.seq \in Nat /\ st.inflight \in InflightList /\ answered \subseteq Nat
  BY ControllerAt DEF AgreesInv
<1>3. new.seq = st.seq
  BY DEF NewEntry
<1> HIDE DEF new
<1> PICK e \in Inflight : e = new
  BY <1>1
<1>4. \A i \in Index : Entry(Controller, i) # None => Entry(Controller, i).seq \notin answered'
  BY <1>1 DEF AgreesInv, AnswersFit
<1>5. answered' \subseteq answered
  BY <1>1
<1>6. CASE \E i \in Index : /\ AddInflight(st.inflight, e)[i] = e
                            /\ \A j \in Index \ {i} :
                                 AddInflight(st.inflight, e)[j] = st.inflight[j]
  <2> PICK i \in Index : /\ AddInflight(st.inflight, e)[i] = e
                         /\ \A j \in Index \ {i} :
                              AddInflight(st.inflight, e)[j] = st.inflight[j]
    BY <1>6
  <2>1. /\ Entry(Controller, i)' = e
        /\ \A j \in Index \ {i} : Entry(Controller, j)' = Entry(Controller, j)
    BY <1>1 DEF Entry
  <2> QED
    BY <1>1, <1>3, <1>4, <1>5, <2>1, NewIdFits
<1>7. CASE AddInflight(st.inflight, e) = st.inflight
  <2>1. \A i \in Index : Entry(Controller, i)' = Entry(Controller, i)
    BY <1>1, <1>7 DEF Entry
  <2>2. IdsDiffer'
    BY <2>1 DEF AgreesInv, IdsDiffer
  <2>3. \A i \in Index : Entry(Controller, i) # None => Entry(Controller, i).seq \in Nat
    BY ControllerAt DEF AgreesInv, Inflight
  <2>4. \A i \in Index : Entry(Controller, i)' # None => Entry(Controller, i)'.seq < st.seq + 1
    BY <1>2, <2>1, <2>3 DEF AgreesInv, AnswersFit
  <2>5. \A x \in answered' : x < st.seq + 1
    <3>1. \A x \in answered : x < st.seq /\ x \in Nat
      BY <1>2 DEF AgreesInv, AnswersFit
    <3> QED
      BY <1>2, <1>5, <3>1
  <2> QED
    BY <1>1, <1>4, <2>1, <2>2, <2>4, <2>5 DEF AnswersFit
<1>8. \/ AddInflight(st.inflight, e) = st.inflight
      \/ \E i \in Index : /\ AddInflight(st.inflight, e)[i] = e
                          /\ \A j \in Index \ {i} :
                               AddInflight(st.inflight, e)[j] = st.inflight[j]
  BY <1>2, AddInflightIs
<1> QED
  BY <1>6, <1>7, <1>8

LEMMA ResponseFits ==
  ASSUME AgreesInv, ReceiveResponse
  PROVE  IdsDiffer' /\ AnswersFit'
<1> DEFINE p == Head(net[Controller])
           st == party[Controller]
<1>1. /\ party'[Controller].inflight = st.inflight /\ party'[Controller].seq = st.seq
      /\ \/ party'[Controller].rcvd = st.rcvd /\ UNCHANGED answered
         \/ /\ st.rcvd = <<>> /\ party'[Controller].rcvd = <<p>>
            /\ answered' = answered \union {p.seq}
            /\ \E i \in Index : Entry(Controller, i) # None /\ Entry(Controller, i).seq = p.seq
  BY ReceiveResponseKeeps, NodesAre DEF AgreesInv
<1>2. CASE party'[Controller].rcvd = st.rcvd /\ UNCHANGED answered
  BY <1>1, <1>2, StaysFits DEF AgreesInv, ControllerStays
<1>3. CASE /\ st.rcvd = <<>> /\ party'[Controller].rcvd = <<p>>
           /\ answered' = answered \union {p.seq}
           /\ \E i \in Index : Entry(Controller, i) # None /\ Entry(Controller, i).seq = p.seq
  <2> HIDE DEF p
  <2>1. \A i \in Index : Entry(Controller, i)' = Entry(Controller, i)
    BY <1>1 DEF Entry
  <2>2. party'[Controller].rcvd # <<>> /\ party'[Controller].rcvd[1] = p
    BY <1>3
  <2>3. IdsDiffer'
    BY <2>1 DEF AgreesInv, IdsDiffer
  <2>4. \A seq \in answered' : seq < party'[Controller].seq
    BY <1>1, <1>3 DEF AgreesInv, AnswersFit
  <2>5. \A i \in Index : Entry(Controller, i) # None => Entry(Controller, i).seq \notin answered
    BY <1>3 DEF AgreesInv, AnswersFit
  <2> QED
    BY <1>1, <1>3, <2>1, <2>2, <2>3, <2>4, <2>5 DEF AgreesInv, AnswersFit
<1> QED
  BY <1>1, <1>2, <1>3

LEMMA AnsweredFits ==
  ASSUME AgreesInv, Answered
  PROVE  IdsDiffer' /\ AnswersFit'
<1> DEFINE st == party[Controller]
           seq == st.rcvd[1].seq
           list == RemoveInflight(st.inflight, seq)
<1>1. /\ st.rcvd # <<>> /\ party'[Controller].rcvd = <<>>
      /\ party'[Controller].inflight = list
      /\ party'[Controller].seq = st.seq /\ UNCHANGED history
  BY AnsweredKeeps DEF AgreesInv
<1>2. st.inflight \in InflightList
  BY ControllerAt DEF AgreesInv
<1> HIDE DEF seq
<1>3. \A i \in Index : list[i] # st.inflight[i] => list[i] = None
  BY <1>2, RemoveInflightIs
<1>4. ASSUME NEW i \in Index, st.inflight[i] # None, st.inflight[i].seq = seq
      PROVE  list[i] = None
  <2>1. Matching(st.inflight, seq) # {}
    BY <1>4 DEF Matching
  <2> DEFINE j == First(Matching(st.inflight, seq))
  <2>2. j \in Index /\ st.inflight[j] \in Inflight /\ st.inflight[j].seq = seq /\ list[j] = None
    BY <1>2, <2>1, RemoveInflightIs
  <2> HIDE DEF j
  <2>3. i = j
    BY <1>4, <2>2, NodesAre DEF AgreesInv, IdsDiffer, Entry
  <2> QED
    BY <2>2, <2>3
<1> HIDE DEF list
<1>5. \A i \in Index : Entry(Controller, i)' \in {Entry(Controller, i), None}
  BY <1>1, <1>3 DEF Entry
<1>6. \A i \in Index : Entry(Controller, i)' # None => Entry(Controller, i).seq \notin answered
  BY <1>1, <1>3, <1>4 DEF AgreesInv, AnswersFit, Entry, seq
<1>7. IdsDiffer'
  BY <1>5 DEF AgreesInv, IdsDiffer
<1>8. AnswersFit'
  BY <1>1, <1>5, <1>6 DEF AgreesInv, AnswersFit, history
<1> QED
  BY <1>7, <1>8

\* While a timeout is dealt with nothing is left to take off.
LEMMA TimeoutFits ==
  ASSUME AgreesInv, ControllerTimeout
  PROVE  IdsDiffer' /\ AnswersFit'
<1> DEFINE st == party[Controller]
<1>1. /\ st.late # 0 /\ party'[Controller].rcvd = <<>> /\ UNCHANGED history
      /\ Dropped(Controller) \/ Retried(Controller)
  BY ControllerTimeoutKeeps DEF AgreesInv
<1>2. /\ st.late \in Index /\ Entry(Controller, st.late) \in Inflight /\ st.rcvd = <<>>
      /\ st.seq \in Nat /\ answered \subseteq Nat
  BY <1>1, LateIs, ControllerAt DEF AgreesInv
<1> PICK i \in Index : i = st.late
  BY <1>2
<1>3. \A j \in Index : Entry(Controller, j) # None => Entry(Controller, j).seq \notin answered
  BY <1>2 DEF AgreesInv, AnswersFit
<1>4. CASE Dropped(Controller)
  <2>1. /\ party'[Controller].seq = st.seq /\ Entry(Controller, i)' = None
        /\ \A j \in Index \ {i} : Entry(Controller, j)' = Entry(Controller, j)
    BY <1>4 DEF Dropped, Entry
  <2> QED
    BY <1>1, <1>2, <1>3, <2>1 DEF AgreesInv, IdsDiffer, AnswersFit, history
<1>5. CASE Retried(Controller)
  <2> DEFINE new == Renewed(Controller, st.seq, Entry(Controller, i))
  <2>1. /\ party'[Controller].seq = st.seq + 1 /\ Entry(Controller, i)' = new
        /\ \A j \in Index \ {i} : Entry(Controller, j)' = Entry(Controller, j)
    BY <1>5 DEF Retried, Entry
  <2>2. new \in Inflight /\ new.seq = st.seq
    BY ZenonT(60), <1>2, RenewedIs
  <2> HIDE DEF new
  <2> PICK e \in Inflight : e = new
    BY <2>2
  <2>3. answered' = answered
    BY <1>1 DEF history
  <2> QED
    BY <1>3, <2>1, <2>2, <2>3, NewIdFits
<1> QED
  BY <1>1, <1>4, <1>5

LEMMA TickFits ==
  ASSUME AgreesInv, Tick
  PROVE  IdsDiffer' /\ AnswersFit'
<1>1. /\ party'[Controller].rcvd = party[Controller].rcvd
      /\ party'[Controller].seq = party[Controller].seq
      /\ \A i \in Index : Entry(Controller, i)' = Ticked(Entry(Controller, i))
      /\ UNCHANGED history
  BY TickKeeps, NodesAre DEF AgreesInv, Entry
<1>2. ASSUME NEW i \in Index
      PROVE  /\ Entry(Controller, i)' # None => Entry(Controller, i) # None
             /\ Entry(Controller, i)' # None => Entry(Controller, i)'.seq = Entry(Controller, i).seq
  <2>1. CASE Entry(Controller, i) = None
    BY <1>1, <2>1 DEF Ticked
  <2>2. CASE Entry(Controller, i) \in Inflight
    BY <1>1, <2>2, TickedIs, NodesAre
  <2> QED
    BY <2>1, <2>2, ControllerAt DEF AgreesInv
<1>3. IdsDiffer'
  BY <1>2 DEF AgreesInv, IdsDiffer
<1>4. AnswersFit'
  BY <1>1, <1>2 DEF AgreesInv, AnswersFit, history
<1> QED
  BY <1>3, <1>4

LEMMA AgreesInit == Init => AgreesInv
BY TablesInit DEF Init, AgreesInv, IdsDiffer, AnswersFit, Entry

LEMMA AgreesStep == AgreesInv /\ [Next]_vars => AgreesInv'
<1> SUFFICES ASSUME AgreesInv, [Next]_vars PROVE IdsDiffer' /\ AnswersFit'
  BY TablesStep DEF AgreesInv
<1>0. TablesInv /\ IdsDiffer /\ AnswersFit
  BY DEF AgreesInv
<1>1. CASE \E op \in Operation, t \in Talkers, l \in Listeners : Command(op, t, l)
  BY <1>1, CommandFits
<1>2. CASE ReceiveResponse
  BY <1>2, ResponseFits
<1>3. CASE ControllerPeriodic
  <2>1. CASE CheckTimeouts(Controller)
    BY <1>0, <2>1, CheckTimeoutsKeeps, NodesAre, StaysFits DEF ControllerStays, history
  <2> QED
    BY <1>3, <2>1, TimeoutFits, AnsweredFits DEF ControllerPeriodic
<1>4. CASE UNCHANGED <<party[Controller], answered>>
  BY <1>0, <1>4, StaysFits DEF ControllerStays
<1>5. CASE \E l \in Listeners : ReceiveAtListener(l) \/ ListenerPeriodic(l)
  <2> PICK l \in Listeners : ReceiveAtListener(l) \/ ListenerPeriodic(l)
    BY <1>5
  <2>1. l # Controller /\ Controller \in Parties /\ l \in Parties /\ l \in Nodes
    BY NodesAre
  <2>2. CASE ReceiveAtListener(l)
    BY <1>0, <1>4, <2>1, <2>2, ReceiveAtListenerKeeps DEF history
  <2>3. CASE CheckTimeouts(l) \/ ListenerTimeout(l) \/ GetState(l)
    BY <1>0, <1>4, <2>1, <2>3, CheckTimeoutsKeeps, ListenerTimeoutKeeps, GetStateKeeps DEF history
  <2>4. CASE ConnectRx(l) \/ DisconnectRx(l)
    <3> DEFINE p == party[l].rcvd[1]
    <3>1. p \in Packet /\ p.op \in Operation
      BY <1>0, <2>4, ConnectRxKeeps, DisconnectRxKeeps, HasIs DEF Operation
    <3>2. /\ UNCHANGED history
          /\ \E status \in Status : Ask(l, p) \/ Refuse(l, p, status)
      BY <1>0, <2>4, ConnectRxKeeps, DisconnectRxKeeps DEF Status
    <3> HIDE DEF p
    <3>3. UNCHANGED party[Controller]
      BY <1>0, <2>1, <3>1, <3>2, AskKeeps, RefuseKeeps
    <3> QED
      BY <1>4, <3>2, <3>3 DEF history
  <2>5. CASE ConnectTxResponse(l) \/ DisconnectTxResponse(l)
    BY <1>0, <1>4, <2>1, <2>5, ConnectTxResponseKeeps, DisconnectTxResponseKeeps DEF history
  <2> QED
    BY <2>2, <2>3, <2>4, <2>5 DEF ListenerPeriodic
<1>6. CASE \E t \in Talkers : ReceiveAtTalker(t) \/ Serve(t) \/ GetState(t)
  BY <1>0, <1>4, <1>6, NodesAre, ReceiveAtTalkerKeeps, ServeKeeps, GetStateKeeps DEF history
<1>7. CASE \E n \in Nodes : Query(n) \/ Lose(n)
  BY <1>0, <1>4, <1>7, QueryKeeps, LoseKeeps
<1>8. CASE Tick
  BY <1>8, TickFits
<1>9. CASE UNCHANGED vars
  BY <1>4, <1>9 DEF vars, history
<1> QED
  BY <1>1, <1>2, <1>3, <1>5, <1>6, <1>7, <1>8, <1>9 DEF Next

\* A command whose answer process_avb_1722_1_acmp_controller_packet accepted is
\* off the list of those in flight as soon as the answer is dealt with, whatever
\* else the application gives and whatever is lost, besides what the first
\* theorem says of the tables.  The exception is that of the property: an answer
\* that acmp_controller_connect_disconnect overwrote in acmp_controller_cmd_resp.
THEOREM TablesAlwaysAgree == Spec => []TablesAgree
<1>1. AgreesInv => TablesAgree
  BY TablesAreTyped DEF AgreesInv, AnswersFit, TablesAgree, AnsweredIsRemoved, Waiting, Entry
<1>2. AgreesInv /\ [Next]_vars => AgreesInv'
  BY AgreesStep
<1> QED
  BY <1>1, <1>2, AgreesInit, PTL DEF Spec

-----------------------------------------------------------------------------
(***************************************************************************)
(* The exchange of a listener.  Unless it was hurried, one packet at most  *)
(* is about it, of those that talkers and listeners have, wherever it is,  *)
(* and it stands for what the listener has asked and the controller waits  *)
(* for, if that has not forgotten the command.                             *)
(***************************************************************************)
Ends == Talkers \union Listeners
Rcvd(n) == IF n \in Talkers THEN talker[n].rcvd ELSE party[n].rcvd

\* The packets of an end: at 0 the one to be dealt with, then those on the way.
There(n, j) == IF j = 0 THEN Rcvd(n) # <<>> ELSE j \in 1 .. Len(net[n])
At(n, j) == IF j = 0 THEN Rcvd(n)[1] ELSE net[n][j]
About(l, n, j) == There(n, j) /\ At(n, j).op # "GET" /\ At(n, j).listener = l

Calm(l) == \A n \in Ends, j \in Nat : ~About(l, n, j)
Lone(l) == \A n, m \in Ends, j, k \in Nat : About(l, n, j) /\ About(l, m, k) => n = m /\ j = k

\* What a listener has is about itself.
Addressed ==
  \A n \in Listeners, j \in Nat : There(n, j) /\ At(n, j).op # "GET" => At(n, j).listener = n

\* The controller's commands to a listener, and how long they have to go.
Commanded(l, i) == Entry(Controller, i) # None /\ Entry(Controller, i).listener = l
OneCommanded(l) == \A i, j \in Index : Commanded(l, i) /\ Commanded(l, j) => i = j
WaitsFor(l, least) == \A i \in Index : Commanded(l, i) => Entry(Controller, i).timer >= least

NoneAsked(l) == \A i \in Index : Entry(l, i) = None
OneAsked(l) == \A i, j \in Index : Entry(l, i) # None /\ Entry(l, j) # None => i = j
Asked(l, op) ==
  \E i \in Index : Entry(l, i) # None /\ Entry(l, i).op = op /\ Entry(l, i).timer >= 1

HasSlot(t, l) == \E i \in Slot : talker[t].slots[i] = l

\* What a packet stands for, and where it can be.
Fits(l, n, p) ==
  /\ p.kind = "RX_COMMAND" => n = l /\ NoneAsked(l) /\ WaitsFor(l, RxTimeout[p.op])
  /\ p.kind = "TX_COMMAND" => n = p.talker /\ Asked(l, p.op)
  /\ p.kind = "TX_RESPONSE" =>
       /\ n = l /\ Asked(l, p.op)
       /\ p.op = "CONNECT" /\ p.talker \notin Unknown /\ ~twice => HasSlot(p.talker, l)
  /\ p.kind # "RX_RESPONSE"

AllFit(l) == \A n \in Ends, j \in Nat : About(l, n, j) => Fits(l, n, At(n, j))

\* How long a listener has to go, the second try included.
Remaining(e) == IF e.retried THEN e.timer ELSE e.timer + TxTimeout[e.op]

\* The controller waits longer than the listener it waits for, and a listener
\* that has asked to be forgotten plays nothing.
AskedFits(l) ==
  \A i \in Index :
    LET e == Entry(l, i) IN
    e # None => /\ WaitsFor(l, Remaining(e) + 1)
                /\ e.op = "DISCONNECT" => sink[l] = None

Exchange(l) == OneCommanded(l) /\ OneAsked(l) /\ AskedFits(l) /\ Lone(l) /\ AllFit(l)
Served(l) == ~twice /\ sink[l] \in Talkers \ Unknown => HasSlot(sink[l], l)

ServedInv == TablesInv /\ Addressed /\ \A l \in Listeners \ hurried : Exchange(l) /\ Served(l)

\* Both tries of a listener end before the first of the controller.
InTime == \A op \in Operation : 2 * TxTimeout[op] < RxTimeout[op]

\* A talker has a slot for every listener.
RoomForAll == Cardinality(Listeners) <= MaxSlots

-----------------------------------------------------------------------------
(***************************************************************************)
(* Packets: an end has what it had before, perhaps one place further to    *)
(* the front, and what was sent to it now.                                 *)
(***************************************************************************)
Moved(n, new) ==
  \E from \in [Nat -> Nat] :
    /\ \A j, k \in Nat : from[j] = from[k] => j = k
    /\ \A j \in Nat : There(n, j)' =>
         \/ There(n, from[j]) /\ At(n, j)' = At(n, from[j])
         \/ At(n, j)' \in new

\* What a step sends to each end: nothing, or one packet to one of them.
Nothing == [n \in Ends |-> {}]
Only(to, q) == [n \in Ends |-> IF n = to THEN {q} ELSE {}]
Moving(sent) == \A n \in Ends : Moved(n, sent[n])

LEMMA EndsAre ==
  /\ Ends \subseteq Nodes /\ Talkers \subseteq Ends /\ Listeners \subseteq Ends
  /\ Controller \notin Ends
  /\ \A n \in Ends : n \in Talkers \/ (n \in Listeners /\ n \notin Talkers /\ n \in Parties)
BY NodesAre DEF Ends, Parties

LEMMA PacketsAre ==
  ASSUME TablesInv, NEW n \in Ends
  PROVE  /\ net[n] \in Seq(Packet) /\ Rcvd(n) \in Seq(Packet) /\ Len(Rcvd(n)) <= 1
         /\ \A j \in Nat : There(n, j) => At(n, j) \in Packet
<1>1. net[n] \in Seq(Packet)
  BY EndsAre DEF TablesInv, NetOK
<1>2. Rcvd(n) \in Seq(Packet) /\ Len(Rcvd(n)) <= 1
  BY EndsAre, TalkerAt, PartyAt DEF Rcvd
<1>3. Rcvd(n) # <<>> => Rcvd(n)[1] \in Packet
  BY <1>2, RcvdIs
<1>4. \A j \in Nat : There(n, j) => At(n, j) \in Packet
  BY <1>1, <1>3, ElementOfSeq DEF There, At
<1> QED
  BY <1>1, <1>2, <1>4

LEMMA Stayed ==
  ASSUME NEW n \in Ends, net'[n] = net[n], Rcvd(n)' \in {Rcvd(n), <<>>}
  PROVE  Moved(n, {})
<1> DEFINE from == [j \in Nat |-> j]
<1>1. from \in [Nat -> Nat] /\ \A j, k \in Nat : from[j] = from[k] => j = k
  OBVIOUS
<1>2. \A j \in Nat : There(n, j)' => There(n, from[j]) /\ At(n, j)' = At(n, from[j])
  BY DEF There, At
<1> HIDE DEF from
<1> QED
  BY <1>1, <1>2 DEF Moved

LEMMA Appended ==
  ASSUME TablesInv, NEW n \in Ends, NEW q \in Packet, net'[n] = Append(net[n], q),
         Rcvd(n)' \in {Rcvd(n), <<>>}
  PROVE  Moved(n, {q})
<1> DEFINE from == [j \in Nat |-> j]
<1>1. from \in [Nat -> Nat] /\ \A j, k \in Nat : from[j] = from[k] => j = k
  OBVIOUS
<1>2. /\ net[n] \in Seq(Packet) /\ Len(net[n]) \in Nat
      /\ Len(Append(net[n], q)) = Len(net[n]) + 1
      /\ \A j \in 1 .. Len(net[n]) : Append(net[n], q)[j] = net[n][j]
      /\ Append(net[n], q)[Len(net[n]) + 1] = q
  BY PacketsAre, AppendProperties, LenProperties
<1>3. ASSUME NEW j \in Nat, There(n, j)'
      PROVE  (There(n, j) /\ At(n, j)' = At(n, j)) \/ At(n, j)' = q
  <2>1. CASE j = 0
    BY <1>3, <2>1 DEF There, At
  <2>2. CASE j # 0
    <3>1. j \in 1 .. Len(net[n]) + 1 /\ At(n, j)' = Append(net[n], q)[j]
      BY <1>2, <1>3, <2>2 DEF There, At
    <3>2. CASE j \in 1 .. Len(net[n])
      BY <1>2, <2>2, <3>1, <3>2 DEF There, At
    <3>3. CASE j = Len(net[n]) + 1
      BY <1>2, <3>1, <3>3
    <3> QED
      BY <1>2, <3>1, <3>2, <3>3
  <2> QED
    BY <2>1, <2>2
<1>4. \A j \in Nat : There(n, j)' => \/ There(n, from[j]) /\ At(n, j)' = At(n, from[j])
                                     \/ At(n, j)' \in {q}
  BY <1>3
<1> HIDE DEF from
<1> QED
  BY <1>1, <1>4 DEF Moved

LEMMA Received ==
  ASSUME TablesInv, NEW n \in Ends, net[n] # <<>>, net'[n] = Tail(net[n]),
         Rcvd(n)' = Rcvd(n) \/ (Rcvd(n) = <<>> /\ Rcvd(n)' = <<Head(net[n])>>)
  PROVE  Moved(n, {})
<1>1. /\ net[n] \in Seq(Packet) /\ Len(net[n]) \in Nat /\ Len(net[n]) >= 1
      /\ Len(Tail(net[n])) = Len(net[n]) - 1 /\ Head(net[n]) = net[n][1]
      /\ \A j \in 1 .. Len(Tail(net[n])) : Tail(net[n])[j] = net[n][j + 1]
  <2>1. net[n] \in Seq(Packet)
    BY PacketsAre
  <2>2. Len(net[n]) \in Nat /\ Len(net[n]) # 0
    BY <2>1, EmptySeq, LenProperties
  <2> QED
    BY <2>1, <2>2, HeadTailProperties
<1>2. ASSUME NEW j \in Nat, j # 0, There(n, j)'
      PROVE  There(n, j + 1) /\ At(n, j)' = At(n, j + 1)
  <2>1. j \in 1 .. Len(Tail(net[n])) /\ At(n, j)' = Tail(net[n])[j]
    BY <1>2 DEF There, At
  <2> DEFINE k == j + 1
             rest == Tail(net[n])
  <2>2. rest[j] = net[n][k] /\ k \in 1 .. Len(net[n]) /\ k # 0
    BY <1>1, <2>1
  <2> HIDE DEF k, rest
  <2>3. There(n, k) /\ At(n, k) = net[n][k]
    BY <2>2 DEF There, At
  <2>4. At(n, j)' = At(n, k)
    BY <2>1, <2>2, <2>3 DEF rest
  <2> QED
    BY <2>3, <2>4 DEF k
<1>3. CASE Rcvd(n)' = Rcvd(n)
  <2> DEFINE from == [j \in Nat |-> IF j = 0 THEN 0 ELSE j + 1]
  <2>1. from \in [Nat -> Nat] /\ \A j, k \in Nat : from[j] = from[k] => j = k
    OBVIOUS
  <2>2. There(n, 0)' => There(n, 0) /\ At(n, 0)' = At(n, 0)
    BY <1>3 DEF There, At
  <2>3. \A j \in Nat : from[j] = IF j = 0 THEN 0 ELSE j + 1
    OBVIOUS
  <2> HIDE DEF from
  <2>4. \A j \in Nat : There(n, j)' => There(n, from[j]) /\ At(n, j)' = At(n, from[j])
    BY <1>2, <2>2, <2>3
  <2> QED
    BY <2>1, <2>4 DEF Moved
<1>4. CASE Rcvd(n) = <<>> /\ Rcvd(n)' = <<Head(net[n])>>
  <2> DEFINE from == [j \in Nat |-> j + 1]
  <2>1. from \in [Nat -> Nat] /\ \A j, k \in Nat : from[j] = from[k] => j = k
    OBVIOUS
  <2>2. There(n, 1) /\ At(n, 0)' = At(n, 1)
    <3>1. Rcvd(n)'[1] = net[n][1]
      BY <1>1, <1>4
    <3> QED
      BY <1>1, <3>1 DEF There, At
  <2>3. \A j \in Nat : from[j] = j + 1
    OBVIOUS
  <2>5. from[0] = 1 /\ 0 \in Nat
    OBVIOUS
  <2> HIDE DEF from
  <2>4. ASSUME NEW j \in Nat, There(n, j)'
        PROVE  There(n, from[j]) /\ At(n, j)' = At(n, from[j])
    <3>1. CASE j = 0
      BY <2>2, <2>5, <3>1
    <3>2. CASE j # 0
      BY <1>2, <2>3, <2>4, <3>2
    <3> QED
      BY <3>1, <3>2
  <2> QED
    BY <2>1, <2>4 DEF Moved
<1> QED
  BY <1>3, <1>4

\* What the other ends have stays where it is, and an end whose packet was dealt
\* with has one less.
LEMMA NothingSent ==
  ASSUME \A n \in Ends : net'[n] = net[n], \A n \in Ends : Rcvd(n)' \in {Rcvd(n), <<>>}
  PROVE  Moving(Nothing)
BY Stayed DEF Moving, Nothing

LEMMA OneSent ==
  ASSUME TablesInv, NEW to \in Nodes, NEW q \in Packet,
         net' = [net EXCEPT ![to] = Append(net[to], q)],
         \A n \in Ends : Rcvd(n)' \in {Rcvd(n), <<>>}
  PROVE  Moving(Only(to, q))
<1> SUFFICES ASSUME NEW n \in Ends PROVE Moved(n, IF n = to THEN {q} ELSE {})
  BY DEF Moving, Only
<1>1. net'[to] = Append(net[to], q) /\ \A m \in Nodes \ {to} : net'[m] = net[m]
  BY DEF TablesInv, NetOK
<1>2. CASE n = to
  BY <1>1, <1>2, Appended
<1>3. CASE n # to
  BY <1>1, <1>3, EndsAre, Stayed
<1> QED
  BY <1>2, <1>3

LEMMA OneReceived ==
  ASSUME TablesInv, NEW n \in Ends, net[n] # <<>>, net' = [net EXCEPT ![n] = Tail(@)],
         \A m \in Ends \ {n} : Rcvd(m)' = Rcvd(m),
         Rcvd(n)' = Rcvd(n) \/ (Rcvd(n) = <<>> /\ Rcvd(n)' = <<Head(net[n])>>)
  PROVE  Moving(Nothing)
<1> SUFFICES ASSUME NEW m \in Ends PROVE Moved(m, {})
  BY DEF Moving, Nothing
<1>1. net'[n] = Tail(net[n]) /\ \A k \in Nodes \ {n} : net'[k] = net[k]
  BY EndsAre DEF TablesInv, NetOK
<1>2. CASE m = n
  BY <1>1, <1>2, Received
<1>3. CASE m # n
  BY <1>1, <1>3, EndsAre, Stayed
<1> QED
  BY <1>2, <1>3

LEMMA StillAddressed ==
  ASSUME Addressed, NEW sent, Moving(sent),
         \A n \in Listeners : \A q \in sent[n] : q.op # "GET" => q.listener = n
  PROVE  Addressed'
<1> SUFFICES ASSUME NEW n \in Listeners, NEW j \in Nat, There(n, j)', At(n, j)'.op # "GET"
             PROVE  At(n, j)'.listener = n
  BY DEF Addressed
<1>1. Moved(n, sent[n])
  BY EndsAre DEF Moving
<1>2. PICK k \in Nat : (There(n, k) /\ At(n, j)' = At(n, k)) \/ At(n, j)' \in sent[n]
  BY <1>1 DEF Moved
<1> QED
  BY <1>2 DEF Addressed

\* Nothing is about a listener that was not before.
Carried(l) ==
  /\ Lone(l)'
  /\ \A n \in Ends, j \in Nat : About(l, n, j)' =>
       \E k \in Nat : About(l, n, k) /\ At(n, j)' = At(n, k)

LEMMA OthersCarry ==
  ASSUME NEW l \in Listeners, Lone(l), NEW sent, Moving(sent),
         \A n \in Ends : \A q \in sent[n] : q.op = "GET" \/ q.listener # l
  PROVE  Carried(l)
<1>1. ASSUME NEW n \in Ends
      PROVE  \E from \in [Nat -> Nat] :
               /\ \A j, k \in Nat : from[j] = from[k] => j = k
               /\ \A j \in Nat : About(l, n, j)' =>
                    About(l, n, from[j]) /\ At(n, j)' = At(n, from[j])
  <2>1. Moved(n, sent[n])
    BY DEF Moving
  <2>2. PICK from \in [Nat -> Nat] :
          /\ \A j, k \in Nat : from[j] = from[k] => j = k
          /\ \A j \in Nat : There(n, j)' =>
               \/ There(n, from[j]) /\ At(n, j)' = At(n, from[j])
               \/ At(n, j)' \in sent[n]
    BY <2>1 DEF Moved
  <2>3. \A j \in Nat : About(l, n, j)' => About(l, n, from[j]) /\ At(n, j)' = At(n, from[j])
    <3> SUFFICES ASSUME NEW j \in Nat, About(l, n, j)'
                 PROVE  About(l, n, from[j]) /\ At(n, j)' = At(n, from[j])
      OBVIOUS
    <3>1. There(n, j)' /\ At(n, j)'.op # "GET" /\ At(n, j)'.listener = l
      BY DEF About
    <3>2. There(n, from[j]) /\ At(n, j)' = At(n, from[j])
      BY <2>2, <3>1
    <3> QED
      BY <3>1, <3>2 DEF About
  <2> QED
    BY <2>2, <2>3
<1>2. Lone(l)'
  <2> SUFFICES ASSUME NEW n \in Ends, NEW m \in Ends, NEW j \in Nat, NEW k \in Nat,
                      About(l, n, j)', About(l, m, k)'
               PROVE  n = m /\ j = k
    BY DEF Lone
  <2>1. PICK f \in [Nat -> Nat] : /\ \A x, y \in Nat : f[x] = f[y] => x = y
                                  /\ \A x \in Nat : About(l, n, x)' => About(l, n, f[x])
    BY <1>1
  <2>2. PICK g \in [Nat -> Nat] : \A x \in Nat : About(l, m, x)' => About(l, m, g[x])
    BY <1>1
  <2>3. f[j] \in Nat /\ g[k] \in Nat /\ About(l, n, f[j]) /\ About(l, m, g[k])
    BY <2>1, <2>2
  <2>4. n = m
    BY <2>3 DEF Lone
  <2>5. About(l, n, k)' /\ About(l, n, f[k]) /\ f[k] \in Nat
    BY <2>1, <2>4
  <2>6. f[j] = f[k]
    BY <2>3, <2>5 DEF Lone
  <2> QED
    BY <2>1, <2>4, <2>6
<1>3. \A n \in Ends, j \in Nat : About(l, n, j)' =>
        \E k \in Nat : About(l, n, k) /\ At(n, j)' = At(n, k)
  <2> SUFFICES ASSUME NEW n \in Ends, NEW j \in Nat, About(l, n, j)'
               PROVE  \E k \in Nat : About(l, n, k) /\ At(n, j)' = At(n, k)
    OBVIOUS
  <2> PICK f \in [Nat -> Nat] :
        \A x \in Nat : About(l, n, x)' => About(l, n, f[x]) /\ At(n, x)' = At(n, f[x])
    BY <1>1
  <2> QED
    OBVIOUS
<1> QED
  BY <1>2, <1>3 DEF Carried

\* All that was about a listener is dealt with now.
Spent(l) ==
  /\ \A n \in Ends : Rcvd(n)' \in {Rcvd(n), <<>>}
  /\ \A n \in Ends, j \in Nat : About(l, n, j) => j = 0 /\ Rcvd(n)' = <<>>

LEMMA CalmAfter ==
  ASSUME NEW l \in Listeners, Spent(l), \A n \in Ends : net'[n] = net[n]
  PROVE  Calm(l)'
<1> SUFFICES ASSUME NEW n \in Ends, NEW j \in Nat, About(l, n, j)' PROVE FALSE
  BY DEF Calm
<1>1. There(n, j) /\ At(n, j)' = At(n, j)
  BY DEF Spent, About, There, At
<1>2. About(l, n, j)
  BY <1>1 DEF About
<1> QED
  BY <1>2 DEF Spent, About, There

LEMMA Replaced ==
  ASSUME TablesInv, NEW l \in Listeners, Spent(l), NEW to \in Nodes, NEW q \in Packet,
         net' = [net EXCEPT ![to] = Append(net[to], q)]
  PROVE  Lone(l)' /\ \A n \in Ends, j \in Nat : About(l, n, j)' => n = to /\ At(n, j)' = q
<1>1. net'[to] = Append(net[to], q) /\ \A m \in Nodes \ {to} : net'[m] = net[m]
  BY DEF TablesInv, NetOK
<1>2. ASSUME NEW n \in Ends, NEW j \in Nat, About(l, n, j)'
      PROVE  n = to /\ j = Len(net[to]) + 1 /\ At(n, j)' = q
  <2>1. /\ net[n] \in Seq(Packet) /\ Len(net[n]) \in Nat
        /\ Len(Append(net[n], q)) = Len(net[n]) + 1
        /\ \A k \in 1 .. Len(net[n]) : Append(net[n], q)[k] = net[n][k]
        /\ Append(net[n], q)[Len(net[n]) + 1] = q
    BY PacketsAre, AppendProperties, LenProperties
  <2>2. j # 0
    <3> SUFFICES ASSUME j = 0 PROVE FALSE
      OBVIOUS
    <3>1. Rcvd(n)' # <<>> /\ Rcvd(n)' = Rcvd(n) /\ At(n, 0)' = At(n, 0) /\ There(n, 0)
      BY <1>2 DEF About, There, At, Spent
    <3>2. About(l, n, 0)
      BY <1>2, <3>1 DEF About
    <3> QED
      BY <3>1, <3>2 DEF Spent
  <2>3. ASSUME There(n, j), At(n, j)' = At(n, j) PROVE FALSE
    <3>1. About(l, n, j)
      BY <1>2, <2>3 DEF About
    <3> QED
      BY <2>2, <3>1 DEF Spent
  <2>4. j \in 1 .. Len(net'[n]) /\ At(n, j)' = net'[n][j]
    BY <1>2, <2>2 DEF About, There, At
  <2>5. n = to
    <3> SUFFICES ASSUME n # to PROVE FALSE
      OBVIOUS
    <3>1. net'[n] = net[n]
      BY <1>1, EndsAre
    <3> QED
      BY <2>2, <2>3, <2>4, <3>1 DEF There, At
  <2>6. j \notin 1 .. Len(net[n])
    BY <1>1, <2>1, <2>2, <2>3, <2>4, <2>5 DEF There, At
  <2> QED
    BY <1>1, <2>1, <2>4, <2>5, <2>6
<1>3. Lone(l)'
  BY <1>2 DEF Lone
<1> QED
  BY <1>2, <1>3

LEMMA RcvdOfParties ==
  ASSUME TablesInv, UNCHANGED talker, NEW n \in Parties,
         \A m \in Parties \ {n} : party'[m] = party[m]
  PROVE  /\ \A m \in Ends \ {n} : Rcvd(m)' = Rcvd(m)
         /\ n # Controller => Rcvd(n) = party[n].rcvd /\ Rcvd(n)' = party'[n].rcvd
BY NodesAre, EndsAre DEF Rcvd

LEMMA RcvdOfTalkers ==
  ASSUME TablesInv, UNCHANGED party, NEW n \in Talkers,
         \A m \in Talkers \ {n} : talker'[m] = talker[m]
  PROVE  /\ \A m \in Ends \ {n} : Rcvd(m)' = Rcvd(m)
         /\ Rcvd(n) = talker[n].rcvd /\ Rcvd(n)' = talker'[n].rcvd
BY NodesAre, EndsAre DEF Rcvd

-----------------------------------------------------------------------------
(***************************************************************************)
(* What packets and commands in flight stand for.                          *)
(***************************************************************************)
LEMMA TimeoutsAre ==
  ASSUME NEW op \in Operation
  PROVE  /\ TxTimeout[op] \in Nat /\ TxTimeout[op] >= 1
         /\ RxTimeout[op] \in Nat /\ RxTimeout[op] >= 1
         /\ Timeout(Controller, op) = RxTimeout[op]
         /\ \A l \in Listeners : Timeout(l, op) = TxTimeout[op]
BY AcmpAssumption DEF Timeout

LEMMA RemainingIs ==
  ASSUME NEW e \in Inflight
  PROVE  Remaining(e) \in Nat /\ e.op \in Operation
<1>1. e.op \in Operation /\ e.timer \in Nat /\ e.retried \in BOOLEAN
  BY DEF Inflight
<1> QED
  BY <1>1, TimeoutsAre DEF Remaining

LEMMA EntryIs ==
  ASSUME TablesInv, NEW n \in Parties, NEW i \in Index
  PROVE  Entry(n, i) # None <=> Entry(n, i) \in Inflight
BY PartyAt, NodesAre

LEMMA WaitsLess ==
  ASSUME TablesInv, NEW l \in Listeners, NEW a \in Nat, NEW b \in Nat, b <= a, WaitsFor(l, a)
  PROVE  WaitsFor(l, b)
<1> SUFFICES ASSUME NEW i \in Index, Commanded(l, i)
             PROVE  Entry(Controller, i).timer >= b
  BY DEF WaitsFor
<1>1. Entry(Controller, i).timer \in Nat
  BY EntryIs, NodesAre DEF Inflight, Commanded
<1>2. Entry(Controller, i).timer >= a
  BY DEF WaitsFor
<1> QED
  BY <1>1, <1>2

\* A packet about a listener that was not hurried.
LEMMA AboutIs ==
  ASSUME TablesInv, NEW l \in Listeners, AllFit(l), NEW n \in Ends, NEW j \in Nat,
         About(l, n, j)
  PROVE  LET p == At(n, j) IN
         /\ Fits(l, n, p) /\ p \in Packet /\ p.op \in Operation /\ p.listener = l
         /\ p.talker \in Talkers /\ p.kind \in {"RX_COMMAND", "TX_COMMAND", "TX_RESPONSE"}
<1>1. There(n, j) /\ At(n, j).op # "GET" /\ At(n, j).listener = l
  BY DEF About
<1>2. At(n, j) \in Packet
  BY <1>1, PacketsAre
<1>3. Fits(l, n, At(n, j))
  BY DEF AllFit
<1> QED
  BY <1>1, <1>2, <1>3 DEF Packet, Fits

\* Nothing is asked and nothing is about a listener when it is time to send its
\* command again.
LEMMA NothingWaited ==
  ASSUME TablesInv, NEW l \in Listeners, Exchange(l), NEW i \in Index, Commanded(l, i),
         Entry(Controller, i).timer = 0
  PROVE  Calm(l) /\ NoneAsked(l)
<1>0. \A least \in Nat : WaitsFor(l, least) => least < 1
  BY DEF WaitsFor
<1>1. NoneAsked(l)
  <2> SUFFICES ASSUME NEW k \in Index, Entry(l, k) # None PROVE FALSE
    BY DEF NoneAsked
  <2> PICK e \in Inflight : e = Entry(l, k)
    BY EntryIs, NodesAre
  <2>1. WaitsFor(l, Remaining(e) + 1)
    BY DEF Exchange, AskedFits
  <2>2. Remaining(e) \in Nat
    BY RemainingIs
  <2> QED
    BY <1>0, <2>1, <2>2
<1>2. ASSUME NEW n \in Ends, NEW j \in Nat, About(l, n, j) PROVE FALSE
  <2> DEFINE p == At(n, j)
  <2>1. /\ Fits(l, n, p) /\ p.op \in Operation
        /\ p.kind \in {"RX_COMMAND", "TX_COMMAND", "TX_RESPONSE"}
    BY <1>2, AboutIs DEF Exchange
  <2> HIDE DEF p
  <2>2. ~Asked(l, p.op)
    BY <1>1 DEF Asked, NoneAsked
  <2>3. WaitsFor(l, RxTimeout[p.op])
    BY <2>1, <2>2 DEF Fits
  <2> QED
    BY <1>0, <2>1, <2>3, TimeoutsAre
<1> QED
  BY <1>1, <1>2 DEF Calm

LEMMA CalmIsSpent ==
  ASSUME NEW l \in Listeners, Calm(l), \A n \in Ends : Rcvd(n)' \in {Rcvd(n), <<>>}
  PROVE  Spent(l)
BY DEF Calm, Spent

\* The one packet about a listener, dealt with now, was all.
LEMMA LoneIsSpent ==
  ASSUME NEW l \in Listeners, Lone(l), NEW n \in Ends, About(l, n, 0), Rcvd(n)' = <<>>,
         \A m \in Ends \ {n} : Rcvd(m)' = Rcvd(m)
  PROVE  Spent(l)
<1>1. \A m \in Ends, j \in Nat : About(l, m, j) => m = n /\ j = 0
  BY DEF Lone
<1> QED
  BY <1>1 DEF Spent

LEMMA CalmFits ==
  ASSUME NEW l \in Listeners, Calm(l)'
  PROVE  Lone(l)' /\ AllFit(l)'
BY DEF Calm, Lone, AllFit

LEMMA NoneAskedFits ==
  ASSUME NEW l \in Listeners, NoneAsked(l)'
  PROVE  OneAsked(l)' /\ AskedFits(l)'
BY DEF NoneAsked, OneAsked, AskedFits

LEMMA ReplacedFits ==
  ASSUME NEW l \in Listeners, NEW to, NEW q,
         \A n \in Ends, j \in Nat : About(l, n, j)' => n = to /\ At(n, j)' = q,
         to \in Ends => Fits(l, to, q)'
  PROVE  AllFit(l)'
BY DEF AllFit

\* The only entry of a listener is the one that asks.
LEMMA AskedNow ==
  ASSUME NEW l \in Listeners, NEW i \in Index, NEW e \in Inflight, Entry(l, i)' = e,
         \A j \in Index \ {i} : Entry(l, j)' = None,
         WaitsFor(l, Remaining(e) + 1)', e.op = "DISCONNECT" => sink'[l] = None
  PROVE  OneAsked(l)' /\ AskedFits(l)' /\ (e.timer >= 1 => Asked(l, e.op)')
<1>1. e # None
  BY NodesAre
<1>2. OneAsked(l)'
  BY <1>1 DEF OneAsked
<1>3. AskedFits(l)'
  BY DEF AskedFits
<1>4. e.timer >= 1 => Asked(l, e.op)'
  BY <1>1 DEF Asked
<1> QED
  BY <1>2, <1>3, <1>4

\* The controller has nothing new for a listener.
Forgets(l) ==
  \A i \in Index : Commanded(l, i)' =>
    Commanded(l, i) /\ Entry(Controller, i)' = Entry(Controller, i)

LEMMA ForgetsFits ==
  ASSUME NEW l \in Listeners, Forgets(l)
  PROVE  /\ OneCommanded(l) => OneCommanded(l)'
         /\ \A least : WaitsFor(l, least) => WaitsFor(l, least)'
BY DEF Forgets, OneCommanded, WaitsFor

LEMMA ForgetsOthers ==
  ASSUME TablesInv, NEW l \in Listeners,
         \A i \in Index : Entry(Controller, i)' \in {Entry(Controller, i), None}
  PROVE  Forgets(l)
BY NodesAre DEF Forgets, Commanded

\* A slot of a listener stays unless the talker was asked to give it up.
LEMMA ServedStays ==
  ASSUME NEW l \in Listeners, Served(l), sink'[l] = sink[l], twice => twice',
         \A t \in Talkers : ~twice' /\ HasSlot(t, l) => HasSlot(t, l)'
  PROVE  Served(l)'
BY DEF Served

\* Steps that are not about a listener leave its exchange as it is.
LEMMA CarriedFits ==
  ASSUME TablesInv, NEW l \in Listeners, Exchange(l), Served(l), Carried(l), Forgets(l),
         \A i \in Index : Entry(l, i)' = Entry(l, i),
         \A t \in Talkers : ~twice' /\ HasSlot(t, l) => HasSlot(t, l)',
         sink'[l] = sink[l], twice => twice'
  PROVE  Exchange(l)' /\ Served(l)'
<1>1. NoneAsked(l) => NoneAsked(l)'
  BY DEF NoneAsked
<1>2. \A op : Asked(l, op) => Asked(l, op)'
  BY DEF Asked
<1>3. OneAsked(l)'
  BY DEF Exchange, OneAsked
<1>4. AskedFits(l)'
  <2> SUFFICES ASSUME NEW i \in Index, Entry(l, i)' # None
               PROVE  /\ WaitsFor(l, Remaining(Entry(l, i)) + 1)'
                      /\ Entry(l, i)'.op = "DISCONNECT" => sink'[l] = None
    BY DEF AskedFits
  <2> PICK e : e = Entry(l, i)
    OBVIOUS
  <2>1. Entry(l, i)' = e /\ e # None
    OBVIOUS
  <2>2. WaitsFor(l, Remaining(e) + 1) /\ (e.op = "DISCONNECT" => sink[l] = None)
    BY <2>1 DEF Exchange, AskedFits
  <2>3. WaitsFor(l, Remaining(e) + 1)'
    BY <2>2, ForgetsFits
  <2> QED
    BY <2>1, <2>2, <2>3
<1>5. AllFit(l)'
  <2> SUFFICES ASSUME NEW n \in Ends, NEW j \in Nat, About(l, n, j)' PROVE Fits(l, n, At(n, j))'
    BY DEF AllFit
  <2> PICK k \in Nat : About(l, n, k) /\ At(n, j)' = At(n, k)
    BY DEF Carried
  <2> PICK p : p = At(n, k)
    OBVIOUS
  <2>1. Fits(l, n, p) /\ p.talker \in Talkers /\ At(n, j)' = p
    BY AboutIs DEF Exchange
  <2>2. /\ p.kind = "RX_COMMAND" => n = l /\ NoneAsked(l)' /\ WaitsFor(l, RxTimeout[p.op])'
        /\ p.kind = "TX_COMMAND" => n = p.talker /\ Asked(l, p.op)'
    BY <1>1, <1>2, <2>1, ForgetsFits DEF Fits
  <2>3. p.kind = "TX_RESPONSE" =>
          /\ n = l /\ Asked(l, p.op)'
          /\ p.op = "CONNECT" /\ p.talker \notin Unknown /\ ~twice' => HasSlot(p.talker, l)'
    BY <1>2, <2>1 DEF Fits
  <2>4. p.kind # "RX_RESPONSE"
    BY <2>1 DEF Fits
  <2> QED
    BY <2>1, <2>2, <2>3, <2>4 DEF Fits
<1>6. OneCommanded(l)' /\ Lone(l)'
  BY ForgetsFits DEF Exchange, Carried
<1>7. Served(l)'
  BY ServedStays
<1> QED
  BY <1>3, <1>4, <1>5, <1>6, <1>7 DEF Exchange

-----------------------------------------------------------------------------
(***************************************************************************)
(* Steps that are about no listener.                                       *)
(***************************************************************************)
ServedNext == Addressed' /\ \A l \in Listeners \ hurried' : Exchange(l)' /\ Served(l)'

LEMMA ServedIs ==
  ASSUME ServedInv
  PROVE  /\ TablesInv /\ Addressed
         /\ \A l \in Listeners \ hurried :
              /\ Exchange(l) /\ Served(l) /\ OneCommanded(l) /\ OneAsked(l)
              /\ AskedFits(l) /\ Lone(l) /\ AllFit(l)
BY DEF ServedInv, Exchange

LEMMA ElsewhereServes ==
  ASSUME ServedInv, NEW l \in Listeners \ hurried, NEW sent, Moving(sent),
         \A n \in Ends : \A q \in sent[n] : q.op = "GET" \/ q.listener # l,
         Forgets(l), \A i \in Index : Entry(l, i)' = Entry(l, i),
         \A t \in Talkers : ~twice' /\ HasSlot(t, l) => HasSlot(t, l)',
         sink'[l] = sink[l], twice => twice'
  PROVE  Exchange(l)' /\ Served(l)'
<1>1. TablesInv /\ Exchange(l) /\ Served(l) /\ Lone(l)
  BY ServedIs
<1>2. Carried(l)
  BY <1>1, OthersCarry
<1> QED
  BY <1>1, <1>2, CarriedFits

LEMMA NobodyServes ==
  ASSUME ServedInv, NEW sent, Moving(sent),
         \A n \in Ends : \A q \in sent[n] : q.op = "GET",
         \A i \in Index : Entry(Controller, i)' \in {Entry(Controller, i), None},
         \A l \in Listeners : party'[l].inflight = party[l].inflight,
         \A t \in Talkers : talker'[t].slots = talker[t].slots,
         UNCHANGED <<sink, twice, hurried>>
  PROVE  ServedNext
<1>0. TablesInv /\ Addressed
  BY ServedIs
<1>1. Addressed'
  BY <1>0, EndsAre, StillAddressed
<1>2. ASSUME NEW l \in Listeners \ hurried PROVE Exchange(l)' /\ Served(l)'
  <2>1. Forgets(l)
    BY <1>0, ForgetsOthers
  <2>2. \A i \in Index : Entry(l, i)' = Entry(l, i)
    BY DEF Entry
  <2>3. \A t \in Talkers : HasSlot(t, l) => HasSlot(t, l)'
    BY DEF HasSlot
  <2> QED
    BY <2>1, <2>2, <2>3, ElsewhereServes
<1> QED
  BY <1>1, <1>2 DEF ServedNext

\* The ends keep or lose the packet to be dealt with and send nothing.
LEMMA FewerServes ==
  ASSUME ServedInv, UNCHANGED <<sink, twice, hurried>>, \A n \in Ends : net'[n] = net[n],
         \A t \in Talkers : /\ talker'[t].slots = talker[t].slots
                            /\ talker'[t].rcvd \in {talker[t].rcvd, <<>>},
         \A l \in Listeners : /\ party'[l].inflight = party[l].inflight
                              /\ party'[l].rcvd \in {party[l].rcvd, <<>>},
         \A i \in Index : Entry(Controller, i)' \in {Entry(Controller, i), None}
  PROVE  ServedNext
<1>1. \A n \in Ends : Rcvd(n)' \in {Rcvd(n), <<>>}
  BY EndsAre DEF Rcvd
<1>2. Moving(Nothing)
  BY <1>1, NothingSent
<1>3. \A n \in Ends : \A q \in Nothing[n] : q.op = "GET"
  BY DEF Nothing
<1> QED
  BY <1>2, <1>3, NobodyServes

\* An end takes a packet, or drops it.
LEMMA ReceivedServes ==
  ASSUME ServedInv, UNCHANGED <<sink, twice, hurried>>, NEW n \in Ends,
         net[n] # <<>>, net' = [net EXCEPT ![n] = Tail(@)],
         \A m \in Ends \ {n} : Rcvd(m)' = Rcvd(m),
         Rcvd(n)' = Rcvd(n) \/ (Rcvd(n) = <<>> /\ Rcvd(n)' = <<Head(net[n])>>),
         \A m \in Parties : party'[m].inflight = party[m].inflight,
         \A t \in Talkers : talker'[t].slots = talker[t].slots
  PROVE  ServedNext
<1>1. Moving(Nothing)
  BY ServedIs, OneReceived
<1>2. \A m \in Ends : \A q \in Nothing[m] : q.op = "GET"
  BY DEF Nothing
<1>3. \A i \in Index : Entry(Controller, i)' = Entry(Controller, i)
  BY NodesAre DEF Entry
<1>4. \A l \in Listeners : party'[l].inflight = party[l].inflight
  BY NodesAre
<1> QED
  BY <1>1, <1>2, <1>3, <1>4, NobodyServes

LEMMA CheckTimeoutsServes ==
  ASSUME ServedInv, NEW n \in Parties, CheckTimeouts(n)
  PROVE  ServedNext
<1>1. /\ party[n].rcvd = <<>> /\ party'[n].rcvd = <<>>
      /\ party'[n].inflight = party[n].inflight
      /\ \A m \in Parties \ {n} : party'[m] = party[m]
      /\ UNCHANGED <<talker, sink, net, twice, hurried>>
  BY ServedIs, CheckTimeoutsKeeps DEF streams, history
<1>2. \A m \in Parties : /\ party'[m].inflight = party[m].inflight
                         /\ party'[m].rcvd \in {party[m].rcvd, <<>>}
  BY <1>1
<1>3. \A i \in Index : Entry(Controller, i)' = Entry(Controller, i)
  BY <1>2, NodesAre DEF Entry
<1> QED
  BY <1>1, <1>2, <1>3, NodesAre, FewerServes

LEMMA GetStateServes ==
  ASSUME ServedInv, NEW n \in Nodes, GetState(n)
  PROVE  ServedNext
<1>1. /\ \A t \in Talkers : /\ talker'[t].slots = talker[t].slots
                            /\ talker'[t].rcvd \in {talker[t].rcvd, <<>>}
      /\ \A m \in Parties : /\ party'[m].inflight = party[m].inflight
                            /\ party'[m].rcvd \in {party[m].rcvd, <<>>}
      /\ UNCHANGED <<sink, net, twice, hurried>>
  BY ServedIs, GetStateKeeps DEF history
<1>2. \A i \in Index : Entry(Controller, i)' = Entry(Controller, i)
  BY <1>1, NodesAre DEF Entry
<1> QED
  BY <1>1, <1>2, NodesAre, FewerServes

LEMMA AnsweredServes ==
  ASSUME ServedInv, Answered
  PROVE  ServedNext
<1> DEFINE st == party[Controller]
           seq == st.rcvd[1].seq
<1>1. /\ party'[Controller].inflight = RemoveInflight(st.inflight, seq)
      /\ \A m \in Parties \ {Controller} : party'[m] = party[m]
      /\ UNCHANGED <<talker, sink, net, twice, hurried>>
  BY ServedIs, AnsweredKeeps DEF streams, history
<1> HIDE DEF seq
<1>2. \A i \in Index : Entry(Controller, i)' \in {Entry(Controller, i), None}
  <2>1. st.inflight \in InflightList
    BY ServedIs, ControllerAt
  <2> QED
    BY <1>1, <2>1, RemoveInflightIs DEF Entry
<1>3. \A l \in Listeners : party'[l] = party[l]
  BY <1>1, NodesAre
<1> QED
  BY <1>1, <1>2, <1>3, FewerServes

LEMMA ReceiveResponseServes ==
  ASSUME ServedInv, ReceiveResponse
  PROVE  ServedNext
<1>0. TablesInv
  BY ServedIs
<1>1. /\ net' = [net EXCEPT ![Controller] = Tail(@)]
      /\ \A m \in Parties : party'[m].inflight = party[m].inflight
      /\ \A m \in Parties \ {Controller} : party'[m] = party[m]
      /\ UNCHANGED <<talker, sink, twice, hurried>>
  BY <1>0, ReceiveResponseKeeps DEF streams
<1>2. \A n \in Ends : net'[n] = net[n]
  BY <1>0, <1>1, EndsAre DEF TablesInv, NetOK
<1>3. \A i \in Index : Entry(Controller, i)' = Entry(Controller, i)
  BY <1>1, NodesAre DEF Entry
<1>4. \A l \in Listeners : party'[l] = party[l]
  BY <1>1, NodesAre
<1> QED
  BY <1>1, <1>2, <1>3, <1>4, FewerServes

LEMMA ReceiveAtListenerServes ==
  ASSUME ServedInv, NEW l \in Listeners, ReceiveAtListener(l)
  PROVE  ServedNext
<1>0. TablesInv
  BY ServedIs
<1>1. /\ net[l] # <<>> /\ net' = [net EXCEPT ![l] = Tail(@)]
      /\ \A m \in Parties : party'[m].inflight = party[m].inflight
      /\ \A m \in Parties \ {l} : party'[m] = party[m]
      /\ \/ party'[l].rcvd = party[l].rcvd
         \/ party[l].rcvd = <<>> /\ party'[l].rcvd = <<Head(net[l])>>
      /\ UNCHANGED <<talker, sink, twice, hurried>>
  BY <1>0, ReceiveAtListenerKeeps DEF streams, history
<1>2. l \in Parties /\ l \in Ends /\ l # Controller
  BY NodesAre, EndsAre
<1>3. /\ \A m \in Ends \ {l} : Rcvd(m)' = Rcvd(m)
      /\ Rcvd(l) = party[l].rcvd /\ Rcvd(l)' = party'[l].rcvd
  BY <1>0, <1>1, <1>2, RcvdOfParties
<1> QED
  BY <1>1, <1>2, <1>3, ReceivedServes

LEMMA ReceiveAtTalkerServes ==
  ASSUME ServedInv, NEW t \in Talkers, ReceiveAtTalker(t)
  PROVE  ServedNext
<1>0. TablesInv
  BY ServedIs
<1>1. /\ net[t] # <<>> /\ net' = [net EXCEPT ![t] = Tail(@)]
      /\ \A s \in Talkers : talker'[s].slots = talker[s].slots
      /\ \A s \in Talkers \ {t} : talker'[s] = talker[s]
      /\ \/ talker'[t].rcvd = talker[t].rcvd
         \/ talker[t].rcvd = <<>> /\ talker'[t].rcvd = <<Head(net[t])>>
      /\ UNCHANGED <<party, sink, twice, hurried>>
  BY <1>0, ReceiveAtTalkerKeeps DEF history
<1>2. /\ \A m \in Ends \ {t} : Rcvd(m)' = Rcvd(m)
      /\ Rcvd(t) = talker[t].rcvd /\ Rcvd(t)' = talker'[t].rcvd /\ t \in Ends
  BY <1>0, <1>1, RcvdOfTalkers, EndsAre
<1> QED
  BY <1>1, <1>2, ReceivedServes

LEMMA NetworkServes ==
  ASSUME ServedInv, NEW n \in Nodes, Query(n) \/ Lose(n)
  PROVE  ServedNext
<1>0. TablesInv
  BY ServedIs
<1>1. UNCHANGED <<talker, party, sink, twice, hurried>>
  BY <1>0, QueryKeeps, LoseKeeps DEF streams
<1>2. \A m \in Ends : Rcvd(m)' = Rcvd(m)
  BY <1>1 DEF Rcvd
<1>3. \A i \in Index : Entry(Controller, i)' = Entry(Controller, i)
  BY <1>1 DEF Entry
<1>4. CASE Query(n)
  <2> PICK q \in Packet : q.op = "GET" /\ net' = [net EXCEPT ![n] = Append(net[n], q)]
    BY <1>0, <1>4, QueryKeeps
  <2>1. Moving(Only(n, q))
    BY <1>0, <1>2, OneSent
  <2>2. \A m \in Ends : \A x \in Only(n, q)[m] : x.op = "GET"
    BY DEF Only
  <2> HIDE DEF Only
  <2> QED
    BY <1>1, <1>3, <2>1, <2>2, NobodyServes
<1>5. CASE Lose(n)
  <2>1. net[n] # <<>> /\ net' = [net EXCEPT ![n] = Tail(@)]
    BY <1>0, <1>5, LoseKeeps
  <2>2. CASE n \in Ends
    BY <1>1, <1>2, <2>1, <2>2, ReceivedServes
  <2>3. CASE n \notin Ends
    <3>1. \A m \in Ends : net'[m] = net[m]
      BY <1>0, <2>1, <2>3, EndsAre DEF TablesInv, NetOK
    <3> QED
      BY <1>1, <1>3, <3>1, FewerServes
  <2> QED
    BY <2>2, <2>3
<1> QED
  BY <1>4, <1>5


-----------------------------------------------------------------------------
(***************************************************************************)
(* The controller's part of an exchange.                                   *)
(***************************************************************************)
LEMMA UnderwayIs ==
  ASSUME TablesInv, Addressed, NEW l \in Listeners, ~Underway(l)
  PROVE  Calm(l) /\ NoneAsked(l) /\ \A i \in Index : ~Commanded(l, i)
<1>1. ASSUME NEW n \in Ends, NEW j \in Nat, About(l, n, j) PROVE FALSE
  <2>1. There(n, j) /\ At(n, j).op # "GET" /\ At(n, j).listener = l
    BY <1>1 DEF About
  <2>2. n \in Listeners => n = l
    BY <2>1 DEF Addressed
  <2>3. /\ net[n] \in Seq(Packet) /\ Rcvd(n) \in Seq(Packet)
        /\ (Rcvd(n) # <<>> => 1 \in DOMAIN Rcvd(n))
    <3>1. Rcvd(n) \in Seq(Packet) /\ net[n] \in Seq(Packet)
      BY PacketsAre
    <3>2. Rcvd(n) # <<>> => 1 \in DOMAIN Rcvd(n)
      BY <3>1, EmptySeq, LenProperties
    <3> QED
      BY <3>1, <3>2
  <2>4. Carries(net[n], l) \/ Carries(Rcvd(n), l)
    <3>1. CASE j = 0
      BY <2>1, <2>3, <3>1 DEF There, At, Carries
    <3>2. CASE j # 0
      BY <2>1, <2>3, <3>2, LenProperties DEF There, At, Carries
    <3> QED
      BY <3>1, <3>2
  <2>5. CASE n \in Talkers
    BY <2>4, <2>5 DEF Underway, Rcvd
  <2>6. CASE n = l
    BY <2>4, <2>6, NodesAre DEF Underway, Rcvd
  <2> QED
    BY <2>2, <2>5, <2>6, EndsAre
<1>2. NoneAsked(l)
  BY DEF Underway, NoneAsked, Entry
<1>3. \A i \in Index : ~Commanded(l, i)
  BY DEF Underway, Commanded, Entry
<1> QED
  BY <1>1, <1>2, <1>3 DEF Calm

\* A step that sends a packet about one listener leaves the others theirs.
LEMMA OthersServe ==
  ASSUME ServedInv, NEW l \in Listeners, NEW to \in Nodes, NEW q \in Packet, q.listener = l,
         to \in Listeners => to = l,
         net' = [net EXCEPT ![to] = Append(net[to], q)],
         \A n \in Ends : Rcvd(n)' \in {Rcvd(n), <<>>},
         \A m \in Listeners \ {l} : /\ Forgets(m) /\ sink'[m] = sink[m]
                                    /\ party'[m].inflight = party[m].inflight,
         \A m \in Listeners \ {l}, t \in Talkers : ~twice' /\ HasSlot(t, m) => HasSlot(t, m)',
         twice => twice'
  PROVE  Addressed' /\ \A m \in Listeners \ hurried : m # l => Exchange(m)' /\ Served(m)'
<1>0. TablesInv /\ Addressed
  BY ServedIs
<1>1. Moving(Only(to, q))
  BY <1>0, OneSent
<1>2. \A n \in Ends : \A x \in Only(to, q)[n] : n = to /\ x = q
  BY DEF Only
<1> HIDE DEF Only
<1>3. Addressed'
  <2>1. \A n \in Listeners : \A x \in Only(to, q)[n] : x.op # "GET" => x.listener = n
    BY <1>2, EndsAre
  <2> QED
    BY <1>0, <1>1, <2>1, StillAddressed
<1>4. ASSUME NEW m \in Listeners \ hurried, m # l PROVE Exchange(m)' /\ Served(m)'
  <2>1. \A n \in Ends : \A x \in Only(to, q)[n] : x.op = "GET" \/ x.listener # m
    BY <1>2, <1>4
  <2>2. \A i \in Index : Entry(m, i)' = Entry(m, i)
    BY <1>4 DEF Entry
  <2>3. /\ Forgets(m) /\ sink'[m] = sink[m]
        /\ \A t \in Talkers : ~twice' /\ HasSlot(t, m) => HasSlot(t, m)'
    BY <1>4
  <2> QED
    BY <1>1, <2>1, <2>2, <2>3, ElsewhereServes
<1> QED
  BY <1>3, <1>4

LEMMA OwnServes ==
  ASSUME NEW l \in Listeners, hurried \subseteq hurried', Addressed',
         \A m \in Listeners \ hurried : m # l => Exchange(m)' /\ Served(m)',
         l \notin hurried' => Exchange(l)' /\ Served(l)'
  PROVE  ServedNext
BY DEF ServedNext

LEMMA CommandServes ==
  ASSUME ServedInv, NEW op \in Operation, NEW t \in Talkers, NEW l \in Listeners,
         Command(op, t, l)
  PROVE  ServedNext
<1>0. TablesInv /\ Addressed
  BY ServedIs
<1> DEFINE made == NewEntry(Controller, party[Controller], op, t, l, 0)
           list == party[Controller].inflight
<1>1. /\ made \in Inflight /\ party'[Controller].inflight = AddInflight(list, made)
      /\ \A m \in Parties \ {Controller} : party'[m] = party[m]
      /\ hurried' = IF Underway(l) THEN hurried \union {l} ELSE hurried
      /\ UNCHANGED <<talker, sink, twice>>
  BY <1>0, CommandKeeps DEF streams
<1>2. PICK q \in Packet : /\ q.op = op /\ q.kind = "RX_COMMAND" /\ q.listener = l
                          /\ net' = [net EXCEPT ![l] = Append(net[l], q)]
  <2> DEFINE sent == PacketOf(op, "RX_COMMAND", t, l, party[Controller].seq, "SUCCESS")
  <2>1. sent \in Packet /\ net' = [net EXCEPT ![l] = Append(net[l], sent)]
    BY <1>0, CommandKeeps
  <2>2. sent.op = op /\ sent.kind = "RX_COMMAND" /\ sent.listener = l
    BY DEF PacketOf
  <2> QED
    BY <2>1, <2>2
<1>3. PICK e \in Inflight : /\ e = made /\ e.listener = l /\ e.timer = RxTimeout[op]
  <2>1. made.listener = l /\ made.timer = RxTimeout[op]
    BY TimeoutsAre DEF NewEntry
  <2> QED
    BY <1>1, <2>1
<1> HIDE DEF made
<1>4. /\ Controller \in Parties /\ l \in Nodes /\ l \in Ends /\ None \notin Inflight
      /\ Controller \notin Listeners
  BY NodesAre, EndsAre
<1>5. /\ \A i \in Index : Entry(Controller, i)' # Entry(Controller, i) =>
                            Entry(Controller, i)' = e
      /\ \/ \A i \in Index : Entry(Controller, i)' = Entry(Controller, i)
         \/ \E i \in Index : /\ Entry(Controller, i)' = e
                             /\ \A j \in Index \ {i} :
                                  Entry(Controller, j)' = Entry(Controller, j)
  <2>1. list \in InflightList
    BY <1>0, <1>4, PartyAt
  <2>2. \A i \in Index : Entry(Controller, i)' = AddInflight(list, e)[i]
    BY <1>1, <1>3 DEF Entry
  <2>3. \A i \in Index : Entry(Controller, i) = list[i]
    BY DEF Entry
  <2> HIDE DEF list
  <2> QED
    BY <2>1, <2>2, <2>3, AddInflightIs
<1>6. \A n \in Ends : Rcvd(n)' = Rcvd(n)
  BY <1>0, <1>1, <1>4, EndsAre, RcvdOfParties
<1>7. \A m \in Listeners : party'[m] = party[m] /\ sink'[m] = sink[m]
  BY <1>1, NodesAre
<1>8. \A m \in Listeners \ {l} : Forgets(m)
  BY <1>3, <1>5 DEF Forgets, Commanded
<1>9. \A m \in Listeners, s \in Talkers : HasSlot(s, m) => HasSlot(s, m)'
  BY <1>1 DEF HasSlot
<1>10. Addressed' /\ \A m \in Listeners \ hurried : m # l => Exchange(m)' /\ Served(m)'
  BY <1>1, <1>2, <1>4, <1>6, <1>7, <1>8, <1>9, OthersServe
<1>11. ASSUME l \notin hurried' PROVE Exchange(l)' /\ Served(l)'
  <2>1. ~Underway(l) /\ l \notin hurried
    BY <1>1, <1>11
  <2>2. Calm(l) /\ NoneAsked(l) /\ \A i \in Index : ~Commanded(l, i)
    BY <1>0, <2>1, UnderwayIs
  <2>3. Spent(l)
    BY <1>6, <2>2, CalmIsSpent
  <2>4. Lone(l)' /\ \A n \in Ends, j \in Nat : About(l, n, j)' => n = l /\ At(n, j)' = q
    BY ZenonT(60), <1>0, <1>2, <1>4, <2>3, Replaced
  <2>5. NoneAsked(l)'
    BY <1>7, <2>2 DEF NoneAsked, Entry
  <2>6. OneCommanded(l)'
    BY <1>5, <2>2 DEF OneCommanded, Commanded
  <2>7. WaitsFor(l, RxTimeout[op])'
    <3> SUFFICES ASSUME NEW i \in Index, Commanded(l, i)'
                 PROVE  Entry(Controller, i)'.timer >= RxTimeout[op]
      BY DEF WaitsFor
    <3>1. Entry(Controller, i)' = e
      BY <1>5, <2>2 DEF Commanded
    <3> QED
      BY <1>3, <3>1, TimeoutsAre
  <2>8. Fits(l, l, q)'
    BY <1>2, <2>5, <2>7 DEF Fits
  <2>9. AllFit(l)'
    BY <2>4, <2>8, ReplacedFits
  <2>10. OneAsked(l)' /\ AskedFits(l)'
    BY <2>5, NoneAskedFits
  <2>11. Served(l)'
    BY <1>1, <1>7, <1>9, <2>1, ServedIs, ServedStays
  <2> QED
    BY <2>4, <2>6, <2>9, <2>10, <2>11 DEF Exchange
<1> QED
  BY <1>1, <1>10, <1>11, OwnServes

LEMMA ControllerTimeoutServes ==
  ASSUME ServedInv, ControllerTimeout
  PROVE  ServedNext
<1>0. TablesInv
  BY ServedIs
<1>1. /\ party[Controller].late # 0 /\ party'[Controller].rcvd = <<>>
      /\ \A m \in Parties \ {Controller} : party'[m] = party[m]
      /\ UNCHANGED <<talker, sink, twice, hurried>>
  BY <1>0, ControllerTimeoutKeeps DEF streams, history
<1>2. Controller \in Parties /\ Controller \notin Listeners /\ None \notin Inflight
  BY NodesAre
<1> PICK i \in Index : i = party[Controller].late
  BY <1>0, <1>1, <1>2, LateIs
<1> PICK e \in Inflight : e = Entry(Controller, i)
  BY <1>0, <1>1, <1>2, LateIs
<1>3. e.timer = 0 /\ e.op \in Operation /\ e.listener \in Listeners
  BY <1>0, <1>1, <1>2, LateIs DEF Inflight
<1> PICK l \in Listeners : l = e.listener
  BY <1>3
<1>4. \A m \in Listeners : party'[m] = party[m] /\ sink'[m] = sink[m]
  BY <1>1, NodesAre
<1>5. \A n \in Ends : Rcvd(n)' = Rcvd(n)
  BY <1>0, <1>1, <1>2, EndsAre, RcvdOfParties
<1>6. \A m \in Listeners, s \in Talkers : HasSlot(s, m) => HasSlot(s, m)'
  BY <1>1 DEF HasSlot
<1>7. CASE Dropped(Controller) /\ UNCHANGED net
  <2>1. \A j \in Index : Entry(Controller, j)' \in {Entry(Controller, j), None}
    BY <1>7 DEF Dropped, Entry
  <2> QED
    BY <1>1, <1>4, <1>7, <2>1, FewerServes
<1>8. CASE Retried(Controller)
  <2> DEFINE again == PacketOf(e.op, "RX_COMMAND", e.talker, e.listener,
                               party[Controller].seq, "SUCCESS")
  <2>0. ~Dropped(Controller)
    BY <1>8 DEF Dropped, Retried
  <2>1. again \in Packet /\ net' = [net EXCEPT ![l] = Append(net[l], again)]
    BY <1>0, <2>0, ControllerTimeoutKeeps
  <2>2. again.op = e.op /\ again.kind = "RX_COMMAND" /\ again.listener = l
    BY DEF PacketOf
  <2> HIDE DEF again
  <2> PICK q \in Packet : q = again
    BY <2>1
  <2>9. net' = [net EXCEPT ![l] = Append(net[l], q)]
    BY <2>1
  <2> PICK new \in Inflight : /\ new = Renewed(Controller, party[Controller].seq, e)
                              /\ new.listener = l /\ new.timer = RxTimeout[e.op]
    <3>1. party[Controller].seq \in Nat
      BY <1>0, <1>2, PartyAt
    <3>2. Renewed(Controller, party[Controller].seq, e) \in Inflight
      BY <3>1, RenewedIs
    <3>3. LET n == Renewed(Controller, party[Controller].seq, e) IN
          n.listener = e.listener /\ n.timer = Timeout(Controller, e.op)
      BY DEF Renewed, Inflight
    <3> QED
      BY <1>3, <3>2, <3>3, TimeoutsAre
  <2>3. /\ Entry(Controller, i)' = new
        /\ \A j \in Index \ {i} : Entry(Controller, j)' = Entry(Controller, j)
    BY <1>8 DEF Retried, Entry
  <2>4. Commanded(l, i)
    BY <1>2 DEF Commanded
  <2>5. \A m \in Listeners \ {l} : Forgets(m)
    BY <2>3 DEF Forgets, Commanded
  <2>6. l \in Nodes /\ l \in Ends
    BY NodesAre, EndsAre
  <2>7. Addressed' /\ \A m \in Listeners \ hurried : m # l => Exchange(m)' /\ Served(m)'
    BY <1>1, <1>4, <1>5, <1>6, <2>2, <2>5, <2>6, <2>9, OthersServe
  <2>8. ASSUME l \notin hurried PROVE Exchange(l)' /\ Served(l)'
    <3>0. Exchange(l) /\ Served(l) /\ OneCommanded(l)
      BY <2>8, ServedIs
    <3>1. Calm(l) /\ NoneAsked(l)
      BY <1>0, <1>3, <2>4, <3>0, NothingWaited
    <3>2. Spent(l)
      BY <1>5, <3>1, CalmIsSpent
    <3>3. Lone(l)' /\ \A n \in Ends, j \in Nat : About(l, n, j)' => n = l /\ At(n, j)' = q
      BY ZenonT(60), <1>0, <2>6, <2>9, <3>2, Replaced
    <3>4. NoneAsked(l)'
      BY <1>4, <3>1 DEF NoneAsked, Entry
    <3>5. \A j \in Index : Commanded(l, j)' => j = i
      BY <2>3, <2>4, <3>0 DEF OneCommanded, Commanded
    <3>6. OneCommanded(l)'
      BY <3>5 DEF OneCommanded
    <3>7. WaitsFor(l, RxTimeout[e.op])'
      <4> SUFFICES ASSUME NEW j \in Index, Commanded(l, j)'
                   PROVE  Entry(Controller, j)'.timer >= RxTimeout[e.op]
        BY DEF WaitsFor
      <4>1. Entry(Controller, j)' = new
        BY <2>3, <3>5
      <4> QED
        BY <1>3, <4>1, TimeoutsAre
    <3>8. Fits(l, l, q)'
      BY <2>2, <3>4, <3>7 DEF Fits
    <3>9. AllFit(l)'
      BY <3>3, <3>8, ReplacedFits
    <3>10. OneAsked(l)' /\ AskedFits(l)'
      BY <3>4, NoneAskedFits
    <3>11. Served(l)'
      BY <1>1, <1>4, <1>6, <3>0, ServedStays
    <3> QED
      BY <3>3, <3>6, <3>9, <3>10, <3>11 DEF Exchange
  <2> QED
    BY <1>1, <2>7, <2>8, OwnServes
<1> QED
  BY <1>0, <1>7, <1>8, ControllerTimeoutKeeps

-----------------------------------------------------------------------------
(***************************************************************************)
(* The listener's part of an exchange.                                     *)
(***************************************************************************)
\* A listener deals with the one packet about it.
LEMMA DealtWith ==
  ASSUME ServedInv, NEW l \in Listeners, NEW p \in Packet, NEW kind,
         Has(l, p.op, kind), p = party[l].rcvd[1], p.op \in Operation, UNCHANGED talker,
         party'[l].rcvd = <<>>, \A m \in Parties \ {l} : party'[m] = party[m]
  PROVE  /\ p.kind = kind /\ p.listener = l /\ p.talker \in Talkers
         /\ \A n \in Ends : Rcvd(n)' \in {Rcvd(n), <<>>}
         /\ \A m \in Listeners : Forgets(m)
         /\ \A i \in Index : Entry(Controller, i)' = Entry(Controller, i)
         /\ l \notin hurried => Spent(l) /\ Fits(l, l, p)
<1>0. TablesInv /\ Addressed
  BY ServedIs
<1>1. /\ l \in Parties /\ l # Controller /\ l \in Ends /\ l \notin Talkers
      /\ Controller \in Parties /\ p.op # "GET" /\ p.talker \in Talkers
  BY NodesAre, EndsAre DEF Operation, Packet
<1>2. /\ \A m \in Ends \ {l} : Rcvd(m)' = Rcvd(m)
      /\ Rcvd(l) = party[l].rcvd /\ Rcvd(l)' = <<>>
  BY <1>0, <1>1, RcvdOfParties
<1>3. There(l, 0) /\ At(l, 0) = p
  BY <1>2 DEF Has, There, At
<1>4. p.listener = l /\ About(l, l, 0) /\ p.kind = kind
  BY <1>0, <1>1, <1>3 DEF Addressed, About, Has
<1>5. \A i \in Index : Entry(Controller, i)' = Entry(Controller, i)
  BY <1>1 DEF Entry
<1>6. \A m \in Listeners : Forgets(m)
  BY <1>5 DEF Forgets, Commanded
<1>7. ASSUME l \notin hurried PROVE Spent(l) /\ Fits(l, l, p)
  <2>1. Lone(l) /\ AllFit(l)
    BY <1>7, ServedIs
  <2>2. Spent(l)
    BY <1>1, <1>2, <1>4, <2>1, LoneIsSpent
  <2>3. Fits(l, l, p)
    BY <1>1, <1>3, <1>4, <2>1 DEF AllFit
  <2> QED
    BY <2>2, <2>3
<1> QED
  BY <1>1, <1>2, <1>4, <1>5, <1>6, <1>7

LEMMA AskServes ==
  ASSUME ServedInv, InTime, NEW l \in Listeners, NEW p \in Packet,
         Has(l, p.op, "RX_COMMAND"), p = party[l].rcvd[1], p.op \in Operation, Ask(l, p),
         UNCHANGED <<talker, twice, hurried>>, sink'[l] \in {sink[l], None},
         \A m \in Listeners \ {l} : sink'[m] = sink[m],
         p.op = "DISCONNECT" => sink'[l] = None
  PROVE  ServedNext
<1>0. TablesInv
  BY ServedIs
<1>1. PICK e \in Inflight : /\ e = NewEntry(l, party[l], p.op, p.talker, l, p.seq)
                            /\ party'[l].inflight = AddInflight(party[l].inflight, e)
  BY <1>0, AskKeeps
<1>2. PICK q \in Packet : /\ q.op = p.op /\ q.kind = "TX_COMMAND" /\ q.talker = p.talker
                          /\ q.listener = l
                          /\ net' = [net EXCEPT ![p.talker] = Append(net[p.talker], q)]
  <2> DEFINE q == PacketOf(p.op, "TX_COMMAND", p.talker, l, party[l].seq, "SUCCESS")
  <2>1. q \in Packet /\ net' = [net EXCEPT ![p.talker] = Append(net[p.talker], q)]
    BY <1>0, AskKeeps
  <2>2. q.op = p.op /\ q.kind = "TX_COMMAND" /\ q.talker = p.talker /\ q.listener = l
    BY DEF PacketOf
  <2> QED
    BY <2>1, <2>2
<1>3. party'[l].rcvd = <<>> /\ \A m \in Parties \ {l} : party'[m] = party[m]
  BY <1>0, AskKeeps
<1>4. /\ p.kind = "RX_COMMAND" /\ p.talker \in Talkers
      /\ \A n \in Ends : Rcvd(n)' \in {Rcvd(n), <<>>}
      /\ \A m \in Listeners : Forgets(m)
      /\ l \notin hurried => Spent(l) /\ Fits(l, l, p)
  <2>1. UNCHANGED talker /\ Has(l, p.op, "RX_COMMAND") /\ p.op \in Operation
    OBVIOUS
  <2>2. p.kind = "RX_COMMAND" /\ p.talker \in Talkers
    BY DEF Has, Packet
  <2>3. \A n \in Ends : Rcvd(n)' \in {Rcvd(n), <<>>}
    BY <1>3, <2>1, DealtWith
  <2>4. /\ \A m \in Listeners : Forgets(m)
        /\ l \notin hurried => Spent(l) /\ Fits(l, l, p)
    BY <1>3, <2>1, DealtWith
  <2> QED
    BY <2>2, <2>3, <2>4
<1>5. /\ l \in Parties /\ p.talker \in Nodes /\ p.talker \notin Listeners
      /\ None \notin Talkers
  BY <1>4, NodesAre
<1>6. \A m \in Listeners \ {l} : party'[m].inflight = party[m].inflight
  BY <1>3, NodesAre
<1>7. \A m \in Listeners, t \in Talkers : HasSlot(t, m) => HasSlot(t, m)'
  BY DEF HasSlot
<1>8. Addressed' /\ \A m \in Listeners \ hurried : m # l => Exchange(m)' /\ Served(m)'
  BY <1>2, <1>4, <1>5, <1>6, <1>7, OthersServe
<1>9. ASSUME l \notin hurried PROVE Exchange(l)' /\ Served(l)'
  <2>0. OneCommanded(l) /\ Served(l)
    BY <1>9, ServedIs
  <2>1. Spent(l) /\ NoneAsked(l) /\ WaitsFor(l, RxTimeout[p.op])
    BY <1>4, <1>9 DEF Fits
  <2>2. PICK i \in Index : Entry(l, i)' = e /\ \A j \in Index \ {i} : Entry(l, j)' = None
    <3>1. party[l].inflight \in InflightList /\ \A j \in Index : party[l].inflight[j] = None
      BY <1>0, <1>5, <2>1, PartyAt DEF NoneAsked, Entry
    <3>2. \E i \in Index : /\ AddInflight(party[l].inflight, e)[i] = e
                         /\ \A j \in Index \ {i} : AddInflight(party[l].inflight, e)[j] = None
      BY <3>1, AddInflightIs
    <3> QED
      BY <1>1, <3>2 DEF Entry
  <2>3. e.op = p.op /\ e.timer = TxTimeout[p.op] /\ e.retried = FALSE
    BY <1>1, TimeoutsAre DEF NewEntry
  <2>4. WaitsFor(l, Remaining(e) + 1)'
    <3>1. /\ Remaining(e) + 1 \in Nat /\ Remaining(e) + 1 <= RxTimeout[p.op]
          /\ RxTimeout[p.op] \in Nat
      BY <2>3, TimeoutsAre DEF Remaining, InTime
    <3>2. WaitsFor(l, Remaining(e) + 1)
      BY <1>0, <2>1, <3>1, WaitsLess
    <3> QED
      BY <1>4, <3>2, ForgetsFits
  <2>5. OneAsked(l)' /\ AskedFits(l)' /\ Asked(l, p.op)'
    BY <2>2, <2>3, <2>4, TimeoutsAre, AskedNow
  <2>6. /\ Lone(l)'
        /\ \A n \in Ends, j \in Nat : About(l, n, j)' => n = p.talker /\ At(n, j)' = q
    BY <1>0, <1>2, <1>5, <2>1, Replaced
  <2>7. Fits(l, p.talker, q)'
    BY <1>2, <2>5 DEF Fits
  <2>8. AllFit(l)'
    BY <2>6, <2>7, ReplacedFits
  <2>9. OneCommanded(l)'
    BY <1>4, <2>0, ForgetsFits
  <2>10. Served(l)'
    BY <1>5, <1>7, <2>0 DEF Served
  <2> QED
    BY <2>5, <2>6, <2>8, <2>9, <2>10 DEF Exchange
<1> QED
  BY <1>8, <1>9, OwnServes

\* What is sent to the controller is not kept by an end.
LEMMA ToController ==
  ASSUME TablesInv, NEW q, net' = [net EXCEPT ![Controller] = Append(net[Controller], q)]
  PROVE  \A n \in Ends : net'[n] = net[n]
BY EndsAre DEF TablesInv, NetOK

LEMMA RefuseServes ==
  ASSUME ServedInv, NEW l \in Listeners, NEW p \in Packet, NEW status \in Status,
         Refuse(l, p, status), UNCHANGED <<talker, twice, hurried, sink>>
  PROVE  ServedNext
<1>0. TablesInv
  BY ServedIs
<1>1. /\ party'[l].rcvd = <<>> /\ \A m \in Parties \ {l} : party'[m] = party[m]
      /\ \A m \in Parties : party'[m].inflight = party[m].inflight
      /\ \A n \in Ends : net'[n] = net[n]
  BY <1>0, RefuseKeeps, ToController
<1>2. \A m \in Listeners : /\ party'[m].inflight = party[m].inflight
                           /\ party'[m].rcvd \in {party[m].rcvd, <<>>}
  BY <1>1, NodesAre
<1>3. \A i \in Index : Entry(Controller, i)' = Entry(Controller, i)
  BY <1>1, NodesAre DEF Entry
<1> QED
  BY <1>1, <1>2, <1>3, FewerServes

LEMMA CommandAtListenerServes ==
  ASSUME ServedInv, InTime, NEW l \in Listeners, ConnectRx(l) \/ DisconnectRx(l)
  PROVE  ServedNext
<1>0. TablesInv
  BY ServedIs
<1>1. CASE ConnectRx(l)
  <2>1. /\ Has(l, "CONNECT", "RX_COMMAND") /\ UNCHANGED <<talker, sink, twice, hurried>>
        /\ Ask(l, party[l].rcvd[1]) \/ Refuse(l, party[l].rcvd[1], "LISTENER_EXCLUSIVE")
    BY <1>0, <1>1, ConnectRxKeeps DEF streams, history
  <2>2. PICK p \in Packet : p = party[l].rcvd[1] /\ p.op = "CONNECT"
    BY <1>0, <2>1, HasIs
  <2>3. CASE Ask(l, p)
    BY <2>1, <2>2, <2>3, AskServes DEF Operation
  <2>4. CASE Refuse(l, p, "LISTENER_EXCLUSIVE")
    BY <2>1, <2>4, RefuseServes DEF Status
  <2> QED
    BY <2>1, <2>2, <2>3, <2>4
<1>2. CASE DisconnectRx(l)
  <2>1. /\ Has(l, "DISCONNECT", "RX_COMMAND") /\ UNCHANGED <<talker, twice, hurried>>
        /\ \/ Ask(l, party[l].rcvd[1]) /\ sink' = [sink EXCEPT ![l] = None]
           \/ Refuse(l, party[l].rcvd[1], "NOT_CONNECTED") /\ UNCHANGED sink
    BY <1>0, <1>2, DisconnectRxKeeps DEF history
  <2>2. PICK p \in Packet : p = party[l].rcvd[1] /\ p.op = "DISCONNECT"
    BY <1>0, <2>1, HasIs
  <2>3. CASE Ask(l, p) /\ sink' = [sink EXCEPT ![l] = None]
    <3>1. sink'[l] = None /\ \A m \in Listeners \ {l} : sink'[m] = sink[m]
      BY <1>0, <2>3 DEF TablesInv, SinksOK
    <3> QED
      BY <2>1, <2>2, <2>3, <3>1, AskServes DEF Operation
  <2>4. CASE Refuse(l, p, "NOT_CONNECTED") /\ UNCHANGED sink
    BY <2>1, <2>4, RefuseServes DEF Status
  <2> QED
    BY <2>1, <2>2, <2>3, <2>4
<1> QED
  BY <1>1, <1>2

\* A talker's answer to a command that is still in flight.
LEMMA ResponseServes ==
  ASSUME ServedInv, NEW l \in Listeners, NEW p \in Packet,
         Has(l, p.op, "TX_RESPONSE"), p = party[l].rcvd[1], p.op \in Operation,
         party'[l].rcvd = <<>>, party'[l].inflight = RemoveInflight(party[l].inflight, p.seq),
         \A m \in Parties \ {l} : party'[m] = party[m], UNCHANGED <<talker, twice, hurried>>,
         Matching(party[l].inflight, p.seq) # {},
         NEW q \in Packet, q.listener = l,
         net' = [net EXCEPT ![Controller] = Append(net[Controller], q)],
         \A m \in Listeners \ {l} : sink'[m] = sink[m],
         sink'[l] = IF p.op = "CONNECT" THEN p.talker ELSE sink[l]
  PROVE  ServedNext
<1> DEFINE list == party[l].inflight
           found == Matching(list, p.seq)
           i == First(found)
<1>0. TablesInv
  BY ServedIs
<1>1. /\ l \in Parties /\ Controller \in Nodes /\ Controller \notin Listeners
      /\ Controller \notin Ends /\ list \in InflightList /\ None \notin Inflight
  BY <1>0, NodesAre, EndsAre, PartyAt
<1>2. /\ p.kind = "TX_RESPONSE" /\ p.talker \in Talkers
      /\ \A n \in Ends : Rcvd(n)' \in {Rcvd(n), <<>>}
      /\ \A m \in Listeners : Forgets(m)
      /\ l \notin hurried => Spent(l) /\ Fits(l, l, p)
  BY DealtWith
<1>3. \A m \in Listeners \ {l} : party'[m].inflight = party[m].inflight
  BY NodesAre
<1>4. \A m \in Listeners, t \in Talkers : HasSlot(t, m) => HasSlot(t, m)'
  BY DEF HasSlot
<1>5. Addressed' /\ \A m \in Listeners \ hurried : m # l => Exchange(m)' /\ Served(m)'
  BY <1>1, <1>2, <1>3, <1>4, OthersServe
<1>6. ASSUME l \notin hurried PROVE Exchange(l)' /\ Served(l)'
  <2>0. OneCommanded(l) /\ OneAsked(l) /\ Served(l)
    BY <1>6, ServedIs
  <2>1. Spent(l) /\ Fits(l, l, p)
    BY <1>2, <1>6
  <2>2. NoneAsked(l)'
    <3>1. i \in Index /\ list[i] \in Inflight /\ party'[l].inflight[i] = None
      BY <1>1, RemoveInflightIs
    <3>2. \A j \in Index : party'[l].inflight[j] # list[j] => party'[l].inflight[j] = None
      BY <1>1, RemoveInflightIs
    <3> HIDE DEF i
    <3>3. \A j \in Index : Entry(l, j) # None => j = i
      BY <1>1, <2>0, <3>1 DEF OneAsked, Entry
    <3> QED
      BY <3>1, <3>2, <3>3 DEF NoneAsked, Entry
  <2>3. OneAsked(l)' /\ AskedFits(l)'
    BY <2>2, NoneAskedFits
  <2>4. /\ Lone(l)'
        /\ \A n \in Ends, j \in Nat : About(l, n, j)' => n = Controller /\ At(n, j)' = q
    BY <1>0, <1>1, <2>1, Replaced
  <2>5. AllFit(l)'
    BY <1>1, <2>4, ReplacedFits
  <2>6. OneCommanded(l)'
    BY <1>2, <2>0, ForgetsFits
  <2>7. Served(l)'
    <3>1. CASE p.op = "CONNECT"
      <4>1. p.talker \notin Unknown /\ ~twice => HasSlot(p.talker, l)
        BY <1>2, <2>1, <3>1 DEF Fits
      <4> QED
        BY <1>2, <1>4, <3>1, <4>1 DEF Served
    <3>2. CASE p.op # "CONNECT"
      BY <1>4, <2>0, <3>2, ServedStays
    <3> QED
      BY <3>1, <3>2
  <2> QED
    BY <2>3, <2>4, <2>5, <2>6, <2>7 DEF Exchange
<1> QED
  BY <1>5, <1>6, OwnServes

\* One to a command that is not in flight any more.
LEMMA StrayServes ==
  ASSUME ServedInv, NEW l \in Listeners, NEW seq, party'[l].rcvd = <<>>,
         Matching(party[l].inflight, seq) = {},
         party'[l].inflight = RemoveInflight(party[l].inflight, seq),
         \A m \in Parties \ {l} : party'[m] = party[m],
         UNCHANGED <<talker, sink, net, twice, hurried>>
  PROVE  ServedNext
<1>1. l \in Parties /\ l # Controller /\ Controller \in Parties /\ Listeners \subseteq Parties
  BY NodesAre
<1>2. party'[l].inflight = party[l].inflight
  BY <1>1, ServedIs, PartyAt, RemoveInflightIs
<1>3. \A m \in Listeners : /\ party'[m].inflight = party[m].inflight
                           /\ party'[m].rcvd \in {party[m].rcvd, <<>>}
  BY <1>1, <1>2
<1>4. \A i \in Index : Entry(Controller, i)' = Entry(Controller, i)
  BY <1>1 DEF Entry
<1> QED
  BY <1>3, <1>4, FewerServes

LEMMA ConnectTxResponseServes ==
  ASSUME ServedInv, NEW l \in Listeners, ConnectTxResponse(l)
  PROVE  ServedNext
<1>0. TablesInv
  BY ServedIs
<1>1. Has(l, "CONNECT", "TX_RESPONSE")
  BY <1>0, ConnectTxResponseKeeps
<1> PICK p \in Packet : p = party[l].rcvd[1] /\ p.op = "CONNECT"
  BY <1>0, <1>1, HasIs
<1> DEFINE list == party[l].inflight
           found == Matching(list, p.seq)
           sent == PacketOf(p.op, "RX_RESPONSE", p.talker, p.listener,
                            list[First(found)].original, "SUCCESS")
<1>2. /\ party'[l].rcvd = <<>> /\ party'[l].inflight = RemoveInflight(list, p.seq)
      /\ \A m \in Parties \ {l} : party'[m] = party[m]
      /\ \/ found = {} /\ UNCHANGED <<sink, net>>
         \/ /\ found # {} /\ sent \in Packet
            /\ sink' = [sink EXCEPT ![l] = p.talker]
            /\ net' = [net EXCEPT ![Controller] = Append(net[Controller], sent)]
  BY <1>0, ConnectTxResponseKeeps
<1>3. UNCHANGED <<talker, twice, hurried>>
  <2>1. UNCHANGED history => UNCHANGED <<twice, hurried>>
    BY DEF history
  <2> QED
    BY <1>0, <2>1, ConnectTxResponseKeeps
<1>4. CASE found = {} /\ UNCHANGED <<sink, net>>
  BY <1>2, <1>3, <1>4, StrayServes
<1>5. CASE /\ found # {} /\ sent \in Packet
           /\ sink' = [sink EXCEPT ![l] = p.talker]
           /\ net' = [net EXCEPT ![Controller] = Append(net[Controller], sent)]
  <2>0. p.op \in Operation /\ Has(l, p.op, "TX_RESPONSE") /\ UNCHANGED talker
    BY <1>1, <1>3 DEF Operation
  <2>1. p.listener = l
    BY ZenonT(60), <1>2, <2>0, DealtWith
  <2>2. sent.listener = l
    BY <2>1 DEF PacketOf
  <2> HIDE DEF sent
  <2> PICK q \in Packet : q = sent
    BY <1>5
  <2>3. q.listener = l /\ net' = [net EXCEPT ![Controller] = Append(net[Controller], q)]
    BY <1>5, <2>2
  <2>4. /\ \A m \in Listeners \ {l} : sink'[m] = sink[m]
        /\ sink'[l] = IF p.op = "CONNECT" THEN p.talker ELSE sink[l]
    BY <1>0, <1>5 DEF TablesInv, SinksOK
  <2> QED
    BY ZenonT(60), <1>2, <1>3, <1>5, <2>0, <2>3, <2>4, ResponseServes
<1> QED
  BY <1>2, <1>4, <1>5

LEMMA DisconnectTxResponseServes ==
  ASSUME ServedInv, NEW l \in Listeners, DisconnectTxResponse(l)
  PROVE  ServedNext
<1>0. TablesInv
  BY ServedIs
<1>1. Has(l, "DISCONNECT", "TX_RESPONSE")
  BY <1>0, DisconnectTxResponseKeeps
<1> PICK p \in Packet : p = party[l].rcvd[1] /\ p.op = "DISCONNECT"
  BY <1>0, <1>1, HasIs
<1> DEFINE list == party[l].inflight
           found == Matching(list, p.seq)
           sent == PacketOf(p.op, "RX_RESPONSE", p.talker, p.listener,
                            list[First(found)].original, p.status)
<1>2. /\ party'[l].rcvd = <<>> /\ party'[l].inflight = RemoveInflight(list, p.seq)
      /\ \A m \in Parties \ {l} : party'[m] = party[m]
      /\ \/ found = {} /\ UNCHANGED net
         \/ /\ found # {} /\ sent \in Packet
            /\ net' = [net EXCEPT ![Controller] = Append(net[Controller], sent)]
  BY <1>0, DisconnectTxResponseKeeps
<1>3. UNCHANGED <<talker, sink, twice, hurried>>
  <2>1. UNCHANGED history => UNCHANGED <<twice, hurried>>
    BY DEF history
  <2> QED
    BY <1>0, <2>1, DisconnectTxResponseKeeps
<1>4. CASE found = {} /\ UNCHANGED net
  BY <1>2, <1>3, <1>4, StrayServes
<1>5. CASE /\ found # {} /\ sent \in Packet
           /\ net' = [net EXCEPT ![Controller] = Append(net[Controller], sent)]
  <2>0. p.op \in Operation /\ Has(l, p.op, "TX_RESPONSE") /\ UNCHANGED talker
    BY <1>1, <1>3 DEF Operation
  <2>1. p.listener = l
    BY ZenonT(60), <1>2, <2>0, DealtWith
  <2>2. sent.listener = l
    BY <2>1 DEF PacketOf
  <2> HIDE DEF sent
  <2> PICK q \in Packet : q = sent
    BY <1>5
  <2>3. q.listener = l /\ net' = [net EXCEPT ![Controller] = Append(net[Controller], q)]
    BY <1>5, <2>2
  <2>4. /\ \A m \in Listeners \ {l} : sink'[m] = sink[m]
        /\ sink'[l] = IF p.op = "CONNECT" THEN p.talker ELSE sink[l]
    BY <1>3
  <2> QED
    BY ZenonT(60), <1>2, <1>3, <1>5, <2>0, <2>3, <2>4, ResponseServes
<1> QED
  BY <1>2, <1>4, <1>5

\* While its command is due no packet is about a listener: one that stands for it
\* is dealt with before the clock ticks.
LEMMA DueIsCalm ==
  ASSUME TablesInv, NEW l \in Listeners, Exchange(l), NEW i \in Index, Entry(l, i) # None,
         Entry(l, i).timer = 0
  PROVE  Calm(l)
<1> SUFFICES ASSUME NEW n \in Ends, NEW j \in Nat, About(l, n, j) PROVE FALSE
  BY DEF Calm
<1> PICK p \in Packet : p = At(n, j)
  BY AboutIs DEF Exchange
<1>1. Fits(l, n, p) /\ p.kind \in {"RX_COMMAND", "TX_COMMAND", "TX_RESPONSE"}
  BY AboutIs DEF Exchange
<1>2. ~NoneAsked(l) /\ ~Asked(l, p.op)
  <2>1. \A k \in Index : Entry(l, k) # None => k = i
    BY DEF Exchange, OneAsked
  <2> QED
    BY <2>1 DEF NoneAsked, Asked
<1> QED
  BY <1>1, <1>2 DEF Fits

LEMMA ListenerTimeoutServes ==
  ASSUME ServedInv, NEW l \in Listeners, ListenerTimeout(l)
  PROVE  ServedNext
<1>0. TablesInv
  BY ServedIs
<1>1. /\ party[l].late # 0 /\ party'[l].rcvd = <<>>
      /\ \A m \in Parties \ {l} : party'[m] = party[m]
      /\ UNCHANGED <<talker, sink, twice, hurried>>
  BY <1>0, ListenerTimeoutKeeps DEF streams, history
<1>2. /\ l \in Parties /\ Controller \in Parties /\ l # Controller /\ Controller \in Nodes
      /\ Controller \notin Ends /\ Controller \notin Listeners /\ None \notin Inflight
  BY NodesAre, EndsAre
<1> PICK i \in Index : i = party[l].late
  BY <1>0, <1>1, <1>2, LateIs
<1> PICK e \in Inflight : e = Entry(l, i)
  BY <1>0, <1>1, <1>2, LateIs
<1>3. e.timer = 0 /\ e # None /\ e.op \in Operation /\ e.talker \in Talkers
  BY <1>0, <1>1, <1>2, LateIs DEF Inflight
<1>4. \A n \in Ends : Rcvd(n)' \in {Rcvd(n), <<>>}
  BY <1>0, <1>1, <1>2, RcvdOfParties
<1>5. /\ \A j \in Index : Entry(Controller, j)' = Entry(Controller, j)
      /\ \A m \in Listeners \ {l} : party'[m].inflight = party[m].inflight
  BY <1>1, <1>2, NodesAre DEF Entry
<1>6. \A m \in Listeners : Forgets(m) /\ sink'[m] = sink[m]
  BY <1>1, <1>5 DEF Forgets, Commanded
<1>7. \A m \in Listeners, t \in Talkers : HasSlot(t, m) => HasSlot(t, m)'
  BY <1>1 DEF HasSlot
<1>8. ASSUME l \notin hurried
      PROVE  /\ OneCommanded(l)' /\ Served(l)' /\ Spent(l)
             /\ \A j \in Index \ {i} : Entry(l, j) = None
             /\ WaitsFor(l, Remaining(e) + 1)'
             /\ e.op = "DISCONNECT" => sink'[l] = None
  <2>1. Exchange(l) /\ Served(l) /\ OneCommanded(l) /\ OneAsked(l) /\ AskedFits(l)
    BY <1>8, ServedIs
  <2>2. Calm(l)
    BY <1>0, <1>3, <2>1, DueIsCalm
  <2>3. Spent(l)
    BY <1>4, <2>2, CalmIsSpent
  <2>4. OneCommanded(l)'
    BY <1>6, <2>1, ForgetsFits
  <2>5. Served(l)'
    BY <1>1, <1>6, <1>7, <2>1, ServedStays
  <2>6. \A j \in Index \ {i} : Entry(l, j) = None
    BY <1>3, <2>1 DEF OneAsked
  <2>7. WaitsFor(l, Remaining(e) + 1) /\ (e.op = "DISCONNECT" => sink[l] = None)
    BY <1>3, <2>1 DEF AskedFits
  <2>8. WaitsFor(l, Remaining(e) + 1)'
    BY <1>6, <2>7, ForgetsFits
  <2> QED
    BY <1>6, <2>3, <2>4, <2>5, <2>6, <2>7, <2>8
<1> DEFINE given == PacketOf(e.op, "RX_RESPONSE", e.talker, l, e.original,
                             "LISTENER_TALKER_TIMEOUT")
           again == PacketOf(e.op, "TX_COMMAND", e.talker, l, party[l].seq, "SUCCESS")
<1>9. \/ /\ Dropped(l) /\ given \in Packet
         /\ net' = [net EXCEPT ![Controller] = Append(net[Controller], given)]
      \/ /\ Retried(l) /\ again \in Packet
         /\ net' = [net EXCEPT ![e.talker] = Append(net[e.talker], again)]
  BY <1>0, ListenerTimeoutKeeps
<1>10. CASE /\ Dropped(l) /\ given \in Packet
            /\ net' = [net EXCEPT ![Controller] = Append(net[Controller], given)]
  <2>1. given.listener = l
    BY DEF PacketOf
  <2> HIDE DEF given
  <2> PICK q \in Packet : q = given
    BY <1>10
  <2>2. q.listener = l /\ net' = [net EXCEPT ![Controller] = Append(net[Controller], q)]
    BY <1>10, <2>1
  <2>3. Addressed' /\ \A m \in Listeners \ hurried : m # l => Exchange(m)' /\ Served(m)'
    BY <1>1, <1>2, <1>4, <1>5, <1>6, <1>7, <2>2, OthersServe
  <2>4. ASSUME l \notin hurried PROVE Exchange(l)' /\ Served(l)'
    <3>1. /\ Lone(l)'
          /\ \A n \in Ends, j \in Nat : About(l, n, j)' => n = Controller /\ At(n, j)' = q
      BY ZenonT(60), <1>0, <1>2, <1>8, <2>2, <2>4, Replaced
    <3>2. AllFit(l)'
      BY <1>2, <3>1, ReplacedFits
    <3>3. NoneAsked(l)'
      <4>1. Entry(l, i)' = None /\ \A j \in Index \ {i} : Entry(l, j)' = Entry(l, j)
        BY <1>10 DEF Dropped, Entry
      <4> QED
        BY <1>8, <2>4, <4>1 DEF NoneAsked
    <3>4. OneAsked(l)' /\ AskedFits(l)'
      BY <3>3, NoneAskedFits
    <3> QED
      BY <1>8, <2>4, <3>1, <3>2, <3>4 DEF Exchange
  <2> QED
    BY <1>1, <2>3, <2>4, OwnServes
<1>11. CASE /\ Retried(l) /\ again \in Packet
            /\ net' = [net EXCEPT ![e.talker] = Append(net[e.talker], again)]
  <2>1. /\ again.op = e.op /\ again.kind = "TX_COMMAND" /\ again.talker = e.talker
        /\ again.listener = l
    BY DEF PacketOf
  <2> HIDE DEF again
  <2> PICK q \in Packet : q = again
    BY <1>11
  <2>2. /\ q.op = e.op /\ q.kind = "TX_COMMAND" /\ q.talker = e.talker /\ q.listener = l
        /\ net' = [net EXCEPT ![e.talker] = Append(net[e.talker], q)]
    BY <1>11, <2>1
  <2>3. e.talker \in Nodes /\ e.talker \notin Listeners
    BY <1>3, NodesAre
  <2>4. Addressed' /\ \A m \in Listeners \ hurried : m # l => Exchange(m)' /\ Served(m)'
    BY <1>1, <1>4, <1>5, <1>6, <1>7, <2>2, <2>3, OthersServe
  <2>5. ASSUME l \notin hurried PROVE Exchange(l)' /\ Served(l)'
    <3>1. PICK new \in Inflight : /\ new = Renewed(l, party[l].seq, e) /\ new.op = e.op
                                  /\ new.timer = TxTimeout[e.op] /\ new.retried = TRUE
      <4>1. party[l].seq \in Nat
        BY <1>0, <1>2, PartyAt
      <4>2. Renewed(l, party[l].seq, e) \in Inflight
        BY <4>1, RenewedIs
      <4>3. LET n == Renewed(l, party[l].seq, e) IN
            n.op = e.op /\ n.timer = Timeout(l, e.op) /\ n.retried = TRUE
        BY DEF Renewed, Inflight
      <4> QED
        BY <1>3, <4>2, <4>3, TimeoutsAre
    <3>2. /\ ~e.retried /\ Entry(l, i)' = new
          /\ \A j \in Index \ {i} : Entry(l, j)' = None
      BY <1>8, <1>11, <2>5, <3>1 DEF Retried, Entry
    <3>3. Remaining(new) = Remaining(e)
      BY <1>3, <3>1, <3>2, TimeoutsAre DEF Remaining
    <3>4. OneAsked(l)' /\ AskedFits(l)' /\ Asked(l, e.op)'
      <4>1. WaitsFor(l, Remaining(new) + 1)'
        BY <1>8, <2>5, <3>3
      <4>2. new.op = "DISCONNECT" => sink'[l] = None
        BY <1>8, <2>5, <3>1
      <4>3. new.timer >= 1
        BY <1>3, <3>1, TimeoutsAre
      <4> QED
        BY <3>1, <3>2, <4>1, <4>2, <4>3, AskedNow
    <3>5. /\ Lone(l)'
          /\ \A n \in Ends, j \in Nat : About(l, n, j)' => n = e.talker /\ At(n, j)' = q
      BY ZenonT(60), <1>0, <1>8, <2>2, <2>3, <2>5, Replaced
    <3>6. Fits(l, e.talker, q)'
      BY <2>2, <3>4 DEF Fits
    <3>7. AllFit(l)'
      BY <3>5, <3>6, ReplacedFits
    <3> QED
      BY <1>8, <2>5, <3>4, <3>5, <3>7 DEF Exchange
  <2> QED
    BY <1>1, <2>4, <2>5, OwnServes
<1> QED
  BY <1>9, <1>10, <1>11

-----------------------------------------------------------------------------
(***************************************************************************)
(* The talker's part of an exchange, and the clock.                        *)
(***************************************************************************)
LEMMA FreeSlot ==
  ASSUME TablesInv, RoomForAll, ~twice, NEW t \in Talkers, NEW l \in Listeners
  PROVE  \E i \in Slot : talker[t].slots[i] \in {l, None}
<1> SUFFICES ASSUME \A i \in Slot : talker[t].slots[i] \notin {l, None}
             PROVE  FALSE
  OBVIOUS
<1> DEFINE slots == talker[t].slots
           others == Listeners \ {l}
<1>1. slots \in [Slot -> others]
  BY TalkerAt
<1>2. /\ IsFiniteSet(others) /\ Cardinality(others) = Cardinality(Listeners) - 1
      /\ Cardinality(Listeners) \in Nat
  BY AcmpAssumption, FS_RemoveElement, FS_CardinalityType
<1>3. IsFiniteSet(Slot) /\ Cardinality(Slot) = MaxSlots /\ MaxSlots \in Nat
  BY PlacesAre, AcmpAssumption
<1>4. Cardinality(others) < Cardinality(Slot)
  BY <1>2, <1>3 DEF RoomForAll
<1> HIDE DEF slots, others
<1>5. PICK i, j \in Slot : i # j /\ slots[i] = slots[j]
  BY <1>1, <1>2, <1>3, <1>4, FS_PigeonHole
<1>6. OneSlotEach(slots) /\ slots[i] # None
  BY DEF TablesInv, TwiceOK, NoListenerTwice, slots
<1> QED
  BY <1>5, <1>6 DEF OneSlotEach

\* A command takes a slot from nobody but the listener that gives it up.
LEMMA SlotsStay ==
  ASSUME NEW t \in Talkers, NEW p \in Packet, p.op \in Operation, SlotsServed(t, p),
         \A s \in Talkers \ {t} : talker'[s] = talker[s],
         NEW m \in Listeners, m = p.listener => p.op = "CONNECT",
         NEW s \in Talkers, HasSlot(s, m)
  PROVE  HasSlot(s, m)'
<1> PICK i \in Slot : talker[s].slots[i] = m
  BY DEF HasSlot
<1>1. talker'[s].slots[i] = m
  <2>1. CASE s # t
    BY <2>1
  <2>2. CASE s = t
    <3>1. m # None
      BY NodesAre
    <3>2. p.op = "CONNECT" \/ p.op = "DISCONNECT"
      BY DEF Operation
    <3> QED
      BY <2>2, <3>1, <3>2 DEF SlotsServed
  <2> QED
    BY <2>1, <2>2
<1> QED
  BY <1>1 DEF HasSlot

LEMMA ServeServes ==
  ASSUME ServedInv, RoomForAll, NEW t \in Talkers, Serve(t)
  PROVE  ServedNext
<1>0. TablesInv
  BY ServedIs
<1>1. PICK p \in Packet : p = talker[t].rcvd[1] /\ p.op \in Operation
  BY <1>0, ServeKeeps
<1>2. /\ talker[t].rcvd # <<>> /\ talker'[t].rcvd = <<>> /\ SlotsServed(t, p)
      /\ \A s \in Talkers \ {t} : talker'[s] = talker[s]
      /\ twice => twice'
      /\ UNCHANGED <<party, sink, hurried>>
  BY <1>0, <1>1, ServeKeeps
<1> PICK l \in Listeners : l = p.listener
  BY DEF Packet
<1>3. PICK q \in Packet : /\ q.op = p.op /\ q.kind = "TX_RESPONSE" /\ q.talker = t
                          /\ q.listener = l
                          /\ net' = [net EXCEPT ![l] = Append(net[l], q)]
  <2> DEFINE status == IF t \in Unknown THEN "TALKER_UNKNOWN_ID" ELSE "SUCCESS"
             q == PacketOf(p.op, "TX_RESPONSE", t, p.listener, p.seq, status)
  <2>1. q \in Packet /\ net' = [net EXCEPT ![p.listener] = Append(net[p.listener], q)]
    BY <1>0, <1>1, ServeKeeps
  <2>2. q.op = p.op /\ q.kind = "TX_RESPONSE" /\ q.talker = t /\ q.listener = p.listener
    BY DEF PacketOf
  <2> QED
    BY <2>1, <2>2
<1>4. t \in Ends /\ l \in Ends /\ l \in Nodes /\ t # l /\ None \notin Talkers
  BY NodesAre, EndsAre
<1>5. /\ \A m \in Ends \ {t} : Rcvd(m)' = Rcvd(m)
      /\ Rcvd(t) = talker[t].rcvd /\ Rcvd(t)' = <<>>
  BY <1>0, <1>2, RcvdOfTalkers
<1>6. About(l, t, 0) /\ At(t, 0) = p
  BY <1>1, <1>2, <1>5 DEF About, There, At, Operation
<1>7. /\ \A n \in Parties, j \in Index : Entry(n, j)' = Entry(n, j)
      /\ \A m \in Listeners : /\ party'[m].inflight = party[m].inflight
                              /\ sink'[m] = sink[m] /\ Forgets(m)
  BY <1>2, NodesAre DEF Entry, Forgets, Commanded
<1>8. \A m \in Listeners \ {l}, s \in Talkers : HasSlot(s, m) => HasSlot(s, m)'
  BY <1>1, <1>2, SlotsStay
<1>9. Addressed' /\ \A m \in Listeners \ hurried : m # l => Exchange(m)' /\ Served(m)'
  <2>1. \A n \in Ends : Rcvd(n)' \in {Rcvd(n), <<>>}
    BY <1>5
  <2>2. q.listener = l /\ net' = [net EXCEPT ![l] = Append(net[l], q)]
    BY <1>3
  <2> QED
    BY <1>2, <1>4, <1>7, <1>8, <2>1, <2>2, OthersServe
<1>10. ASSUME l \notin hurried PROVE Exchange(l)' /\ Served(l)'
  <2>0. /\ Exchange(l) /\ Served(l) /\ OneCommanded(l) /\ OneAsked(l) /\ AskedFits(l)
        /\ Lone(l) /\ AllFit(l)
    BY <1>10, ServedIs
  <2>1. Spent(l)
    BY <1>4, <1>5, <1>6, <2>0, LoneIsSpent
  <2>2. p.kind = "TX_COMMAND" /\ Asked(l, p.op)
    <3>1. Fits(l, t, p) /\ p.kind \in {"RX_COMMAND", "TX_COMMAND", "TX_RESPONSE"}
      BY <1>0, <1>4, <1>6, <2>0, AboutIs
    <3> QED
      BY <1>4, <3>1 DEF Fits
  <2>3. Asked(l, p.op)' /\ OneAsked(l)' /\ AskedFits(l)' /\ OneCommanded(l)'
    <3>1. l \in Parties
      BY NodesAre
    <3>2. Asked(l, p.op)' /\ OneAsked(l)'
      BY <1>7, <2>0, <2>2, <3>1 DEF Asked, OneAsked
    <3>3. OneCommanded(l)'
      BY <1>7, <2>0, ForgetsFits
    <3>4. AskedFits(l)'
      BY <1>2, <2>0 DEF AskedFits, WaitsFor, Commanded, Entry
    <3> QED
      BY <3>2, <3>3, <3>4
  <2>4. p.op = "CONNECT" /\ t \notin Unknown /\ ~twice' => HasSlot(t, l)'
    BY <1>0, <1>2, FreeSlot DEF SlotsServed, HasSlot
  <2>5. Fits(l, l, q)'
    BY <1>3, <2>3, <2>4 DEF Fits
  <2>6. Lone(l)' /\ \A n \in Ends, j \in Nat : About(l, n, j)' => n = l /\ At(n, j)' = q
    BY <1>0, <1>3, <1>4, <2>1, Replaced
  <2>7. AllFit(l)'
    BY <2>5, <2>6, ReplacedFits
  <2>8. Served(l)'
    <3>1. CASE p.op = "CONNECT"
      <4>1. \A s \in Talkers : HasSlot(s, l) => HasSlot(s, l)'
        BY <1>1, <1>2, <3>1, SlotsStay
      <4> QED
        BY <1>2, <1>7, <2>0, <4>1, ServedStays
    <3>2. CASE p.op # "CONNECT"
      <4>1. p.op = "DISCONNECT"
        BY <1>1, <3>2 DEF Operation
      <4>2. sink[l] = None
        BY <2>0, <2>2, <4>1 DEF Asked, AskedFits
      <4> QED
        BY <1>4, <1>7, <4>2 DEF Served
    <3> QED
      BY <3>1, <3>2
  <2> QED
    BY <2>3, <2>6, <2>7, <2>8 DEF Exchange
<1> QED
  BY <1>2, <1>9, <1>10, OwnServes

\* A tick takes as much from the controller's time as from the listener's.
LEMMA TickServes ==
  ASSUME ServedInv, Tick
  PROVE  ServedNext
<1>0. TablesInv
  BY ServedIs
<1>1. /\ Settled /\ UNCHANGED <<talker, sink, net, twice, hurried>>
      /\ \A n \in Parties : party'[n].rcvd = party[n].rcvd
      /\ \A n \in Parties, i \in Index : Entry(n, i)' = Ticked(Entry(n, i))
  BY <1>0, TickKeeps DEF streams, history, Entry
<1>2. Controller \in Parties /\ Listeners \subseteq Parties /\ DOMAIN party = Parties
  BY <1>0, NodesAre DEF TablesInv, PartiesOK
<1>3. \A n \in Ends, j \in Nat : ~There(n, j)'
  <2>1. \A n \in Ends : net'[n] = <<>>
    BY <1>1, EndsAre DEF Settled
  <2>2. \A n \in Ends : Rcvd(n)' = <<>>
    BY <1>1, <1>2, EndsAre DEF Settled, Waiting, Rcvd
  <2> QED
    BY <2>1, <2>2 DEF There
<1>4. Addressed'
  BY <1>3, EndsAre DEF Addressed
<1>6. ASSUME NEW n \in Parties, NEW i \in Index
      PROVE  /\ Entry(n, i) = None <=> Entry(n, i)' = None
             /\ Entry(n, i) # None =>
                  /\ Entry(n, i) \in Inflight /\ Entry(n, i)' \in Inflight
                  /\ Entry(n, i)'.op = Entry(n, i).op
                  /\ Entry(n, i)'.listener = Entry(n, i).listener
                  /\ Entry(n, i)'.retried = Entry(n, i).retried
                  /\ Entry(n, i)'.timer = Entry(n, i).timer - 1
                  /\ Entry(n, i).timer \in Nat \ {0}
  <2> PICK e : e = Entry(n, i)
    OBVIOUS
  <2>1. CASE e = None
    BY <1>1, <2>1 DEF Ticked
  <2>2. CASE e # None
    <3>1. e \in Inflight
      BY <1>0, <2>2, EntryIs
    <3>2. e.timer # 0
      BY <1>1, <1>2, <2>2 DEF Settled, Due, Entry
    <3>3. e.timer \in Nat
      BY <3>1 DEF Inflight
    <3>4. Entry(n, i)' = Ticked(e)
      BY <1>1
    <3>5. /\ Ticked(e) \in Inflight /\ Ticked(e) # None /\ Ticked(e).op = e.op
          /\ Ticked(e).retried = e.retried
          /\ Ticked(e).timer = IF e.timer = 0 THEN 0 ELSE e.timer - 1
      BY <3>1, TickedIs
    <3>6. Ticked(e).listener = e.listener
      BY <2>2, <3>1 DEF Ticked, Inflight
    <3> QED
      BY <2>2, <3>1, <3>2, <3>3, <3>4, <3>5, <3>6
  <2> QED
    BY <2>1, <2>2
<1>7. ASSUME NEW l \in Listeners \ hurried PROVE Exchange(l)' /\ Served(l)'
  <2>0. Exchange(l) /\ Served(l) /\ OneCommanded(l) /\ OneAsked(l) /\ AskedFits(l)
    BY ServedIs
  <2>1. Lone(l)' /\ AllFit(l)'
    BY <1>3 DEF Lone, AllFit, About
  <2>2. \A i \in Index : Commanded(l, i)' <=> Commanded(l, i)
    BY <1>2, <1>6 DEF Commanded
  <2>3. OneCommanded(l)'
    BY <2>0, <2>2 DEF OneCommanded
  <2>4. OneAsked(l)'
    BY <1>2, <1>6, <2>0 DEF OneAsked
  <2>5. AskedFits(l)'
    <3> SUFFICES ASSUME NEW i \in Index, Entry(l, i)' # None
                 PROVE  /\ WaitsFor(l, Remaining(Entry(l, i)) + 1)'
                        /\ Entry(l, i)'.op = "DISCONNECT" => sink'[l] = None
      BY DEF AskedFits
    <3> PICK e \in Inflight : e = Entry(l, i)
      BY <1>2, <1>6
    <3> PICK new \in Inflight : new = Entry(l, i)'
      BY <1>2, <1>6
    <3>1. /\ new.op = e.op /\ new.retried = e.retried /\ new.timer = e.timer - 1
          /\ e.timer \in Nat \ {0} /\ e # None
      BY <1>2, <1>6
    <3>2. Remaining(new) = Remaining(e) - 1 /\ Remaining(e) \in Nat
      <4>1. e.op \in Operation /\ TxTimeout[e.op] \in Nat
        BY RemainingIs, TimeoutsAre
      <4>2. Remaining(new) = Remaining(e) - 1
        BY <3>1, <4>1 DEF Remaining
      <4> QED
        BY <4>2, RemainingIs
    <3>3. WaitsFor(l, Remaining(e) + 1) /\ (e.op = "DISCONNECT" => sink[l] = None)
      BY <2>0, <3>1 DEF AskedFits
    <3>4. WaitsFor(l, Remaining(new) + 1)'
      <4> SUFFICES ASSUME NEW j \in Index, Commanded(l, j)'
                   PROVE  Entry(Controller, j)'.timer >= Remaining(new) + 1
        BY DEF WaitsFor
      <4>1. Commanded(l, j)
        BY <2>2
      <4>2. Entry(Controller, j).timer >= Remaining(e) + 1
        BY <3>3, <4>1 DEF WaitsFor
      <4>3. /\ Entry(Controller, j)'.timer = Entry(Controller, j).timer - 1
            /\ Entry(Controller, j).timer \in Nat
        BY <1>2, <1>6, <4>1 DEF Commanded
      <4> QED
        BY <3>2, <4>2, <4>3
    <3> QED
      BY <1>1, <3>1, <3>3, <3>4
  <2>6. \A t \in Talkers : HasSlot(t, l) => HasSlot(t, l)'
    BY <1>1 DEF HasSlot
  <2>7. Served(l)'
    BY <1>1, <2>0, <2>6, ServedStays
  <2> QED
    BY <2>1, <2>3, <2>4, <2>5, <2>7 DEF Exchange
<1> QED
  BY <1>1, <1>4, <1>7 DEF ServedNext

-----------------------------------------------------------------------------
LEMMA ServedInit == Init => ServedInv
<1> SUFFICES ASSUME Init PROVE ServedInv
  OBVIOUS
<1>1. TablesInv
  BY TablesInit
<1>2. \A n \in Parties : /\ party[n].rcvd = <<>>
                         /\ \A i \in Index : Entry(n, i) = None
  BY DEF Init, Entry, Parties
<1>3. \A n \in Ends, j \in Nat : ~There(n, j)
  <2>1. \A n \in Ends : Rcvd(n) = <<>>
    BY <1>2, EndsAre DEF Init, Rcvd
  <2>2. \A n \in Ends : net[n] = <<>>
    BY EndsAre DEF Init
  <2> QED
    BY <2>1, <2>2 DEF There
<1>4. Addressed
  BY <1>3, EndsAre DEF Addressed
<1>5. ASSUME NEW l \in Listeners PROVE Exchange(l) /\ Served(l)
  <2>1. Lone(l) /\ AllFit(l)
    BY <1>3 DEF Lone, AllFit, About
  <2>2. OneCommanded(l) /\ OneAsked(l) /\ AskedFits(l)
    BY <1>2, NodesAre DEF OneCommanded, Commanded, OneAsked, AskedFits
  <2>3. Served(l)
    BY NodesAre DEF Init, Served
  <2> QED
    BY <2>1, <2>2, <2>3 DEF Exchange
<1> QED
  BY <1>1, <1>4, <1>5 DEF ServedInv

LEMMA ServedStep ==
  ASSUME InTime, RoomForAll
  PROVE  ServedInv /\ [Next]_vars => ServedInv'
<1> SUFFICES ASSUME ServedInv, [Next]_vars PROVE ServedNext
  BY TablesStep DEF ServedInv, ServedNext
<1>0. /\ Controller \in Parties /\ Listeners \subseteq Parties /\ Parties \subseteq Nodes
      /\ Talkers \subseteq Nodes
  BY NodesAre
<1>1. CASE \E op \in Operation, t \in Talkers, l \in Listeners : Command(op, t, l)
  BY <1>1, CommandServes
<1>2. CASE ReceiveResponse
  BY <1>2, ReceiveResponseServes
<1>3. CASE ControllerPeriodic
  BY <1>0, <1>3, CheckTimeoutsServes, ControllerTimeoutServes, AnsweredServes
     DEF ControllerPeriodic
<1>4. CASE \E l \in Listeners : ReceiveAtListener(l) \/ ListenerPeriodic(l)
  <2> PICK l \in Listeners : ReceiveAtListener(l) \/ ListenerPeriodic(l)
    BY <1>4
  <2> QED
    BY <1>0, ReceiveAtListenerServes, CheckTimeoutsServes, ListenerTimeoutServes,
       CommandAtListenerServes, ConnectTxResponseServes, DisconnectTxResponseServes,
       GetStateServes DEF ListenerPeriodic
<1>5. CASE \E t \in Talkers : ReceiveAtTalker(t) \/ Serve(t) \/ GetState(t)
  BY <1>0, <1>5, ReceiveAtTalkerServes, ServeServes, GetStateServes
<1>6. CASE \E n \in Nodes : Query(n) \/ Lose(n)
  BY <1>6, NetworkServes
<1>7. CASE Tick
  BY <1>7, TickServes
<1>8. CASE UNCHANGED vars
  <2>1. UNCHANGED <<talker, party, sink, net, twice, hurried>>
    BY <1>8 DEF vars, streams, history
  <2>2. \A i \in Index : Entry(Controller, i)' = Entry(Controller, i)
    BY <2>1 DEF Entry
  <2> QED
    BY <2>1, <2>2, FewerServes
<1> QED
  BY <1>1, <1>2, <1>3, <1>4, <1>5, <1>6, <1>7, <1>8 DEF Next

\* No listener plays the stream of a talker that has no slot for it, whatever is
\* lost and sent again and whatever the application asks of the others: the
\* talker notes a listener before its sink starts, and the sink stops before the
\* talker is asked to forget it.  The exceptions are those of the property: a
\* listener that was given a command while one to it was underway, a talker that
\* refused, and double slots.  It takes a slot for every listener
\* (AVB_1722_1_MAX_LISTENERS_PER_TALKER) and timeouts in their order: those of
\* avb_1722_1_acmp_inflight_timeouts are, two tries of 20 units against 45 to
\* connect and two of 2 against 5 to disconnect.
THEOREM SinksAreAlwaysServed ==
  ASSUME InTime, RoomForAll
  PROVE  Spec => []SinksAreServed
<1>1. ServedInv => SinksAreServed
  BY DEF ServedInv, Served, SinksAreServed, HasSlot
<1>2. ServedInv /\ [Next]_vars => ServedInv'
  BY ServedStep
<1> QED
  BY <1>1, <1>2, ServedInit, PTL DEF Spec
=============================================================================
