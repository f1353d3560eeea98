------------------------------ MODULE Adp_proofs ------------------------------
(***************************************************************************)
(* For any number of entities, records and valid times: the database is    *)
(* sound.  An entity that advertises itself in time never loses its record *)
(* to the timeout, and the hook is never given the record of a departed    *)
(* entity.                                                                 *)
(***************************************************************************)
EXTENDS Adp, WellFoundedInduction, TLAPS

\* The valid time that is left of a record covers what is left until its entity
\* has to advertise itself again; a unit that has begun is not yet counted.
RecordLasts(e) ==
  /\ age[e] <= ValidTime
  /\ \A i \in SlotsOf(e) :
       records[i].valid + age[e] >= ValidTime + (IF counted THEN 0 ELSE 1)

\* The entity to be reported still has its record.
AddedIsRecorded ==
  discovery = "ADDED" => latest \in Slot /\ (flushed \/ records[latest].guid # Nobody)

IInv ==
  /\ DatabaseIsSound
  /\ \A e \in present : RecordLasts(e)
  /\ AddedIsRecorded

-----------------------------------------------------------------------------
(***************************************************************************)
(* The least and the greatest slot of a set.                               *)
(***************************************************************************)
LEMMA Least ==
  ASSUME NEW T \in SUBSET Nat, T # {}
  PROVE  \E x \in T : \A y \in T : x <= y
<1>1. \E x \in T : \A y \in T : ~ (<<y, x>> \in OpToRel(<, Nat))
  BY NatLessThanWellFounded, WFMin
<1>2. PICK x \in T : \A y \in T : ~ (<<y, x>> \in OpToRel(<, Nat))
  BY <1>1
<1>3. \A y \in T : ~(y < x)
  BY <1>2 DEF OpToRel
<1> QED
  BY <1>3

LEMMA MinOfSlots ==
  ASSUME NEW T \in SUBSET Slot, T # {}
  PROVE  Min(T) \in T
<1>1. T \in SUBSET Nat
  BY AdpAssumption DEF Slot
<1>2. \E x \in T : \A y \in T : x <= y
  BY <1>1, Least
<1> QED
  BY <1>2 DEF Min

LEMMA MaxOfSlots ==
  ASSUME NEW T \in SUBSET Slot, T # {}
  PROVE  Max(T) \in T
<1> DEFINE U == {MaxEntities - x : x \in T}
<1>1. T \subseteq Nat /\ (\A x \in T : x <= MaxEntities) /\ MaxEntities \in Nat
  BY AdpAssumption DEF Slot
<1>2. U \in SUBSET Nat /\ U # {}
  <2>1. \A x \in T : MaxEntities - x \in Nat
    BY <1>1
  <2>2. PICK x \in T : TRUE
    OBVIOUS
  <2>3. MaxEntities - x \in U
    BY <2>2
  <2> QED
    BY <2>1, <2>3
<1> HIDE DEF U
<1>3. PICK u \in U : \A v \in U : u <= v
  BY <1>2, Least
<1>4. PICK x \in T : u = MaxEntities - x
  BY <1>3 DEF U
<1>5. \A y \in T : x >= y
  BY <1>1, <1>3, <1>4 DEF U
<1> QED
  BY <1>5 DEF Max

-----------------------------------------------------------------------------
(***************************************************************************)
(* The database.                                                           *)
(***************************************************************************)
Record == [guid : Entity \union {Nobody}, valid : -1 .. ValidTime]

LEMMA FreeIsRecord == Free \in Record /\ Free.guid = Nobody /\ Empty \in [Slot -> Record]
BY AdpAssumption DEF Free, Record, Empty

\* A slot is found for an entity, its own or a free one.
LEMMA SlotForIsSlot ==
  ASSUME NEW e \in Entity, SlotFor(e) # NoSlot
  PROVE  /\ SlotFor(e) \in Slot
         /\ IF Recorded(e) THEN SlotFor(e) \in SlotsOf(e) ELSE SlotFor(e) \in SlotsOf(Nobody)
<1>1. \A g : SlotsOf(g) \subseteq Slot
  BY DEF SlotsOf
<1>2. CASE Recorded(e)
  BY <1>1, <1>2, MinOfSlots DEF SlotFor, Recorded
<1>3. CASE ~Recorded(e)
  <2>1. SlotsOf(Nobody) # {} /\ SlotFor(e) = Max(SlotsOf(Nobody))
    BY <1>3 DEF SlotFor
  <2> QED
    BY <1>1, <1>3, <2>1, MaxOfSlots
<1> QED
  BY <1>2, <1>3

\* A search for timeouts frees at most a record that has expired.
LEMMA CheckTimeoutFrees ==
  ASSUME NEW db \in [Slot -> Record]
  PROVE  /\ CheckTimeout(db) \in [Slot -> Record]
         /\ \A i \in Slot : \/ CheckTimeout(db)[i] = db[i]
                            \/ CheckTimeout(db)[i] = Free /\ db[i].valid < 0
<1>1. CASE Expired(db) = {}
  BY <1>1 DEF CheckTimeout
<1>2. CASE Expired(db) # {}
  <2>1. Expired(db) \in SUBSET Slot
    BY DEF Expired
  <2>2. Min(Expired(db)) \in Expired(db)
    BY <1>2, <2>1, MinOfSlots
  <2> DEFINE x == Min(Expired(db))
  <2>3. CheckTimeout(db) = [i \in Slot |-> IF i \in {x} THEN Free ELSE db[i]]
    BY <1>2 DEF CheckTimeout, Without
  <2>4. db[x].valid < 0
    BY <2>2 DEF Expired
  <2> HIDE DEF x
  <2> QED
    BY <2>3, <2>4, FreeIsRecord
<1> QED
  BY <1>1, <1>2

-----------------------------------------------------------------------------
(***************************************************************************)
(* Every step keeps the invariant.                                         *)
(***************************************************************************)
\* No entity has two records.
UniqueRecords ==
  \A i, j \in Slot : records[i].guid = records[j].guid /\ i # j => records[i].guid = Nobody

LEMMA DatabaseType ==
  ASSUME IInv
  PROVE  /\ records \in [Slot -> Record] /\ UniqueRecords /\ latest \in Slot \union {NoSlot}
         /\ present \subseteq Entity /\ age \in [Entity -> 0 .. ValidTime + 1]
         /\ missed \subseteq Entity /\ PresentEntityIsKept /\ HookSeesAnEntity
BY DEF IInv, DatabaseIsSound, TypeOK, Record, UniqueRecords

LEMMA InitInv == Init => IInv
<1> SUFFICES ASSUME Init PROVE IInv
  OBVIOUS
<1>1. TypeOK
  <2>1. adv \in Advertiser
    BY DEF Init, Advertiser
  <2>2. records \in [Slot -> Record]
    BY FreeIsRecord DEF Init
  <2>3. \A i \in Slot : records[i].guid = Nobody
    BY FreeIsRecord DEF Init, Empty
  <2>4. age \in [Entity -> 0 .. ValidTime + 1] /\ requests \in 0 .. Requests
    BY AdpAssumption DEF Init
  <2>5. sent \in Message /\ hooked \in Entity \union {Nobody, Uncalled}
    BY DEF Init, Message
  <2> QED
    BY <2>1, <2>2, <2>3, <2>4, <2>5 DEF Init, TypeOK, Record
<1>2. PresentEntityIsKept /\ HookSeesAnEntity /\ AddedIsRecorded
  BY AdpAssumption DEF Init, PresentEntityIsKept, HookSeesAnEntity, AddedIsRecorded
<1>3. present = {}
  BY DEF Init
<1> QED
  BY <1>1, <1>2, <1>3 DEF IInv, DatabaseIsSound

\* A step of the advertiser alone.
LEMMA AdvertiserStep ==
  ASSUME IInv, UNCHANGED <<databaseVars, othersVars>>, adv' \in Advertiser,
         current' \in Grandmaster, requests' \in 0 .. Requests,
         sent' \in Message, rejoin' \in {"DUE", "DEPARTED", "DONE"}
  PROVE  IInv'
<1>1. TypeOK'
  BY DEF IInv, DatabaseIsSound, TypeOK, databaseVars, othersVars
<1>2. \A e : SlotsOf(e)' = SlotsOf(e)
  BY DEF SlotsOf, databaseVars
<1>3. PresentEntityIsKept' /\ HookSeesAnEntity' /\ AddedIsRecorded'
  BY <1>2 DEF IInv, DatabaseIsSound, PresentEntityIsKept, Recorded, HookSeesAnEntity,
              AddedIsRecorded, databaseVars, othersVars
<1>4. \A e \in present' : RecordLasts(e)'
  BY <1>2 DEF IInv, RecordLasts, databaseVars, othersVars
<1> QED
  BY <1>1, <1>3, <1>4 DEF IInv, DatabaseIsSound

LEMMA AdvertiserType ==
  ASSUME IInv
  PROVE  /\ adv \in Advertiser /\ current \in Grandmaster /\ requests \in 0 .. Requests
         /\ sent \in Message /\ rejoin \in {"DUE", "DEPARTED", "DONE"}
         /\ \A s \in {"IDLE", "WAITING", "ADVERTISE_0", "ADVERTISE_1", "DEPARTING",
                      "DEPART_THEN_ADVERTISE"} : [adv EXCEPT !.state = s] \in Advertiser
         /\ Request => requests' \in 0 .. Requests
<1>1. adv \in Advertiser /\ current \in Grandmaster /\ requests \in 0 .. Requests
      /\ sent \in Message /\ rejoin \in {"DUE", "DEPARTED", "DONE"}
  BY DEF IInv, DatabaseIsSound, TypeOK
<1>2. Request => requests' \in 0 .. Requests
  BY <1>1, AdpAssumption DEF Request
<1> QED
  BY <1>1, <1>2 DEF Advertiser

LEMMA AdvertisingPollType ==
  ASSUME IInv, AdvertisingPoll
  PROVE  adv' \in Advertiser /\ sent' \in Message /\ rejoin' \in {"DUE", "DEPARTED", "DONE"}
<1>1. adv \in Advertiser /\ current \in Grandmaster
  BY AdvertiserType
<1>2. PICK r \in Switched :
        /\ adv' \in {r[1]} \union
             (IF r[1].state # "IDLE" /\ adv.monitor THEN {Monitored(r[1])} ELSE {})
        /\ sent' = IF r[2] = None THEN sent ELSE r[2]
        /\ rejoin' = CASE rejoin = "DUE" /\ r[2] = Departing -> "DEPARTED"
                       [] rejoin = "DEPARTED" /\ r[2].type = "AVAILABLE" -> "DONE"
                       [] OTHER -> rejoin
  BY DEF AdvertisingPoll
<1>3. r[1] \in Advertiser /\ r[2] \in Message
  <2>1. CASE adv.state = "IDLE"
    BY <1>1, <1>2, <2>1 DEF Switched, Message
  <2>2. CASE adv.state = "WAITING"
    <3>1. r \in {<<adv, None>>, <<[adv EXCEPT !.state = "ADVERTISE_1"], None>>}
      BY <1>2, <2>2 DEF Switched
    <3>2. [adv EXCEPT !.state = "ADVERTISE_1"] \in Advertiser
      BY AdvertiserType
    <3> QED
      BY <1>1, <3>1, <3>2 DEF Message
  <2>3. CASE adv.state = "ADVERTISE_0"
    <3>1. PICK gm \in Grandmaster \union {Unread} :
            r = <<[adv EXCEPT !.gm = gm, !.monitor = TRUE, !.state = "WAITING"], Available(gm)>>
      BY <1>2, <2>3 DEF Switched
    <3>2. [adv EXCEPT !.gm = gm, !.monitor = TRUE, !.state = "WAITING"] \in Advertiser
      BY <1>1 DEF Advertiser
    <3> QED
      BY <3>1, <3>2 DEF Message
  <2>4. CASE adv.state = "ADVERTISE_1"
    <3>1. r = <<[adv EXCEPT !.state = "WAITING"], Available(adv.gm)>>
      BY <1>2, <2>4 DEF Switched
    <3>2. [adv EXCEPT !.state = "WAITING"] \in Advertiser /\ adv.gm \in Grandmaster \union {Unread}
      BY <1>1 DEF Advertiser
    <3> QED
      BY <3>1, <3>2 DEF Message
  <2>5. CASE adv.state \in {"DEPARTING", "DEPART_THEN_ADVERTISE"}
    <3>1. r = <<[adv EXCEPT !.state = AfterDeparting], Departing>>
      BY <1>2, <2>5 DEF Switched
    <3>2. [adv EXCEPT !.state = AfterDeparting] \in Advertiser
      BY <1>1 DEF Advertiser, AfterDeparting
    <3> QED
      BY <3>1, <3>2 DEF Message
  <2> QED
    BY <1>1, <2>1, <2>2, <2>3, <2>4, <2>5 DEF Advertiser
<1>4. Monitored(r[1]) \in Advertiser
  BY <1>1, <1>3 DEF Monitored, Advertiser
<1>5. rejoin \in {"DUE", "DEPARTED", "DONE"} /\ sent \in Message
  BY AdvertiserType
<1> QED
  BY <1>2, <1>3, <1>4, <1>5

\* The type of the rest, with the records.
LEMMA DatabaseStepType ==
  ASSUME IInv, adv' \in Advertiser, current' \in Grandmaster, requests' \in 0 .. Requests,
         sent' \in Message, rejoin' \in {"DUE", "DEPARTED", "DONE"},
         records' \in [Slot -> Record], UniqueRecords',
         discovery' \in {"WAITING", "DISCOVER", "ADDED", "REMOVED"},
         latest' \in Slot \union {NoSlot}, counted' \in BOOLEAN,
         present' \subseteq Entity, age' \in [Entity -> 0 .. ValidTime + 1],
         hooked' \in Entity \union {Nobody, Uncalled}, flushed' \in BOOLEAN,
         missed' \subseteq Entity
  PROVE  TypeOK'
BY DEF TypeOK, Record, UniqueRecords

LEMMA DiscoveryType ==
  ASSUME IInv
  PROVE  /\ discovery \in {"WAITING", "DISCOVER", "ADDED", "REMOVED"}
         /\ counted \in BOOLEAN /\ flushed \in BOOLEAN
         /\ hooked \in Entity \union {Nobody, Uncalled}
BY DEF IInv, DatabaseIsSound, TypeOK

\* Records that are freed leave no entity with two, and none with another.
LEMMA FewerRecords ==
  ASSUME IInv, \A i \in Slot : records'[i].guid \in {records[i].guid, Nobody}
  PROVE  /\ UniqueRecords'
         /\ \A e \in Entity : SlotsOf(e)' \subseteq SlotsOf(e)
<1>1. UniqueRecords'
  BY DatabaseType DEF UniqueRecords
<1>2. ASSUME NEW e \in Entity PROVE SlotsOf(e)' \subseteq SlotsOf(e)
  BY AdpAssumption DEF SlotsOf
<1> QED
  BY <1>1, <1>2

\* A unit is counted: the record of an entity that is present does not expire.
LEMMA CountingKeeps ==
  ASSUME IInv, ~counted, counted', UNCHANGED <<present, age>>,
         records' = CheckTimeout([i \in Slot |->
           [records[i] EXCEPT !.valid = IF @ = -1 THEN @ ELSE @ - 1]])
  PROVE  /\ records' \in [Slot -> Record]
         /\ \A i \in Slot : records'[i].guid \in {records[i].guid, Nobody}
         /\ \A e \in present : SlotsOf(e)' = SlotsOf(e) /\ RecordLasts(e)'
<1> DEFINE db == [i \in Slot |-> [records[i] EXCEPT !.valid = IF @ = -1 THEN @ ELSE @ - 1]]
<1>1. ASSUME NEW i \in Slot
      PROVE  /\ db[i] \in Record /\ db[i].guid = records[i].guid
             /\ db[i].valid = IF records[i].valid = -1 THEN -1 ELSE records[i].valid - 1
  <2>1. records[i] \in Record
    BY DatabaseType
  <2> DEFINE v == IF records[i].valid = -1 THEN records[i].valid ELSE records[i].valid - 1
  <2>2. db[i] = [records[i] EXCEPT !.valid = v]
    OBVIOUS
  <2>3. v \in -1 .. ValidTime
    BY <2>1, AdpAssumption DEF Record
  <2> HIDE DEF db
  <2> QED
    BY <2>1, <2>2, <2>3 DEF Record
<1>2. db \in [Slot -> Record]
  <2>1. DOMAIN db = Slot /\ db = [i \in Slot |-> db[i]]
    OBVIOUS
  <2> HIDE DEF db
  <2> QED
    BY <1>1, <2>1
<1>3. records' = CheckTimeout(db)
  OBVIOUS
<1> HIDE DEF db
<1>4. /\ records' \in [Slot -> Record]
      /\ \A i \in Slot : records'[i] = db[i] \/ (records'[i] = Free /\ db[i].valid < 0)
  BY <1>2, <1>3, CheckTimeoutFrees
<1>5. \A i \in Slot : records'[i].guid \in {records[i].guid, Nobody}
  BY <1>1, <1>4, FreeIsRecord
<1>6. ASSUME NEW e \in present PROVE SlotsOf(e)' = SlotsOf(e) /\ RecordLasts(e)'
  <2>1. /\ e \in Entity /\ age[e] \in Nat /\ age[e] <= ValidTime
        /\ \A i \in SlotsOf(e) : records[i].valid + age[e] >= ValidTime + 1
    BY DatabaseType, AdpAssumption DEF IInv, RecordLasts
  <2>2. ASSUME NEW i \in SlotsOf(e)
        PROVE  records'[i] = db[i] /\ db[i].valid = records[i].valid - 1
    <3>1. i \in Slot /\ records[i] \in Record
      BY DatabaseType DEF SlotsOf
    <3>2. records[i].valid \in Int /\ records[i].valid >= 1
      BY <2>1, <3>1, AdpAssumption DEF Record
    <3> QED
      BY <1>1, <1>4, <3>1, <3>2
  <2>3. SlotsOf(e)' \subseteq SlotsOf(e)
    BY <1>5, <2>1, FewerRecords
  <2>4. SlotsOf(e) \subseteq SlotsOf(e)'
    BY <1>1, <2>2 DEF SlotsOf
  <2>5. \A i \in SlotsOf(e)' : records'[i].valid + age'[e] >= ValidTime
    <3> TAKE i \in SlotsOf(e)'
    <3>1. i \in SlotsOf(e) /\ records[i].valid \in Int
      BY <2>3, DatabaseType DEF SlotsOf, Record
    <3> QED
      BY <2>1, <2>2, <3>1, AdpAssumption
  <2>6. age' = age /\ ValidTime + (IF counted' THEN 0 ELSE 1) = ValidTime
    BY AdpAssumption
  <2>7. RecordLasts(e)'
    BY <2>1, <2>5, <2>6 DEF RecordLasts
  <2> QED
    BY <2>3, <2>4, <2>7
<1> QED
  BY <1>4, <1>5, <1>6

LEMMA PeriodicInv == IInv /\ Periodic => IInv'
<1> SUFFICES ASSUME IInv, Periodic PROVE IInv'
  OBVIOUS
<1>1. /\ AdvertisingPoll /\ DiscoveryPoll
      /\ UNCHANGED <<present, age, current, requests, latest, flushed, missed>>
  BY DEF Periodic, DiscoveryPoll, othersVars
<1>2. /\ adv' \in Advertiser /\ sent' \in Message /\ rejoin' \in {"DUE", "DEPARTED", "DONE"}
      /\ current' \in Grandmaster /\ requests' \in 0 .. Requests
  BY <1>1, AdvertisingPollType, AdvertiserType
<1>3. /\ latest' \in Slot \union {NoSlot} /\ flushed' \in BOOLEAN /\ missed' \subseteq Entity
      /\ present' \subseteq Entity /\ age' \in [Entity -> 0 .. ValidTime + 1]
  BY <1>1, DatabaseType, DiscoveryType
<1>4. CASE /\ discovery = "WAITING" /\ ~counted /\ counted' = TRUE
           /\ records' = CheckTimeout([i \in Slot |->
                [records[i] EXCEPT !.valid = IF @ = -1 THEN @ ELSE @ - 1]])
           /\ UNCHANGED <<discovery, hooked>>
  <2>1. /\ records' \in [Slot -> Record]
        /\ \A i \in Slot : records'[i].guid \in {records[i].guid, Nobody}
        /\ \A e \in present : SlotsOf(e)' = SlotsOf(e) /\ RecordLasts(e)'
    BY <1>1, <1>4, CountingKeeps
  <2>2. UniqueRecords'
    BY <2>1, FewerRecords
  <2>3. TypeOK'
    BY <1>2, <1>3, <1>4, <2>1, <2>2, DiscoveryType, DatabaseStepType
  <2>4. PresentEntityIsKept'
    BY <1>1, <2>1, DatabaseType DEF PresentEntityIsKept, Recorded
  <2>5. HookSeesAnEntity' /\ AddedIsRecorded'
    BY <1>1, <1>4, DatabaseType DEF HookSeesAnEntity, AddedIsRecorded
  <2> QED
    BY <1>1, <2>1, <2>3, <2>4, <2>5 DEF IInv, DatabaseIsSound
<1>5. CASE /\ UNCHANGED <<records, counted>> /\ discovery' \in {"WAITING"}
           /\ hooked' \in IF discovery = "ADDED" THEN {records[latest].guid} ELSE {hooked}
  <2>1. records' \in [Slot -> Record] /\ UniqueRecords'
    BY <1>5, DatabaseType DEF UniqueRecords
  <2>2. discovery = "ADDED" => latest \in Slot /\ (flushed \/ records[latest].guid # Nobody)
    BY DEF IInv, AddedIsRecorded
  <2>3. hooked' \in Entity \union {Nobody, Uncalled} /\ HookSeesAnEntity'
    <3>1. CASE discovery = "ADDED"
      BY <1>1, <1>5, <2>2, <3>1, DatabaseType DEF HookSeesAnEntity, Record
    <3>2. CASE discovery # "ADDED"
      BY <1>1, <1>5, <3>2, DatabaseType, DiscoveryType DEF HookSeesAnEntity
    <3> QED
      BY <3>1, <3>2
  <2>4. TypeOK'
    <3>1. discovery' \in {"WAITING", "DISCOVER", "ADDED", "REMOVED"} /\ counted' \in BOOLEAN
      BY <1>5, DiscoveryType
    <3> QED
      BY <1>2, <1>3, <2>1, <2>3, <3>1, DatabaseStepType
  <2>5. \A e : SlotsOf(e)' = SlotsOf(e)
    BY <1>5 DEF SlotsOf
  <2>6. PresentEntityIsKept' /\ AddedIsRecorded'
    BY <1>1, <1>5, <2>5, DatabaseType DEF PresentEntityIsKept, Recorded, AddedIsRecorded
  <2>7. \A e \in present' : RecordLasts(e)'
    BY <1>1, <1>5, <2>5 DEF IInv, RecordLasts
  <2> QED
    BY <2>3, <2>4, <2>6, <2>7 DEF IInv, DatabaseIsSound
<1> QED
  BY <1>1, <1>4, <1>5 DEF DiscoveryPoll

\* An emptied database has nothing to keep: who was in it counts as missed.
LEMMA FlushKeeps ==
  ASSUME IInv, Flush, UNCHANGED <<latest, hooked, present, age, current, sent>>,
         discovery' \in {"WAITING", "DISCOVER", "ADDED", "REMOVED"}, counted' \in BOOLEAN,
         discovery' = "ADDED" => discovery = "ADDED" /\ flushed',
         flushed => flushed', flushed' \in BOOLEAN,
         adv' \in Advertiser, requests' \in 0 .. Requests,
         rejoin' \in {"DUE", "DEPARTED", "DONE"}
  PROVE  IInv'
<1>1. records' \in [Slot -> Record] /\ \A i \in Slot : records'[i].guid = Nobody
  BY FreeIsRecord DEF Flush, Empty
<1>2. \A e \in Entity : SlotsOf(e)' = {}
  BY <1>1, AdpAssumption DEF SlotsOf
<1>3. missed' = missed \union {e \in Entity : Recorded(e)}
  BY DEF Flush
<1>4. TypeOK'
  BY <1>1, <1>3, DatabaseType, DiscoveryType, AdvertiserType, DatabaseStepType DEF UniqueRecords
<1>5. PresentEntityIsKept'
  BY <1>3, DatabaseType DEF PresentEntityIsKept
<1>6. HookSeesAnEntity' /\ AddedIsRecorded'
  BY DatabaseType DEF IInv, HookSeesAnEntity, AddedIsRecorded
<1>7. \A e \in present' : RecordLasts(e)'
  <2> SUFFICES ASSUME NEW e \in present PROVE RecordLasts(e)'
    OBVIOUS
  <2>1. age[e] <= ValidTime /\ e \in Entity
    BY DatabaseType DEF IInv, RecordLasts
  <2> QED
    BY <1>2, <2>1 DEF RecordLasts
<1> QED
  BY <1>4, <1>5, <1>6, <1>7 DEF IInv, DatabaseIsSound

LEMMA FlushDatabaseInv == IInv /\ FlushDatabase => IInv'
<1> SUFFICES ASSUME IInv, FlushDatabase PROVE IInv'
  OBVIOUS
<1>1. /\ Request /\ Flush /\ flushed' = (flushed \/ discovery = "ADDED")
      /\ discovery' = IF discovery = "WAITING" THEN "DISCOVER" ELSE discovery
      /\ UNCHANGED <<adv, sent, rejoin, latest, counted, hooked, present, age, current>>
  BY DEF FlushDatabase, advertiseVars, othersVars
<1>2. flushed' \in BOOLEAN /\ flushed \in BOOLEAN /\ counted' \in BOOLEAN
  BY <1>1, DiscoveryType
<1>3. discovery' \in {"WAITING", "DISCOVER", "ADDED", "REMOVED"}
  BY <1>1, DiscoveryType
<1>4. adv' \in Advertiser /\ rejoin' \in {"DUE", "DEPARTED", "DONE"} /\ requests' \in 0 .. Requests
  BY <1>1, AdvertiserType
<1> QED
  BY <1>1, <1>2, <1>3, <1>4, FlushKeeps

LEMMA LinkUpInv == IInv /\ LinkUp => IInv'
<1> SUFFICES ASSUME IInv, LinkUp PROVE IInv'
  OBVIOUS
<1>1. /\ Request /\ Flush /\ discovery' = "DISCOVER" /\ counted' = FALSE /\ rejoin' = "DUE"
      /\ adv' = [adv EXCEPT !.state = Restarted, !.monitor = FALSE]
      /\ UNCHANGED <<sent, latest, hooked, flushed, present, age, current>>
  BY DEF LinkUp, othersVars
<1>2. adv' \in Advertiser /\ requests' \in 0 .. Requests
  BY <1>1, AdvertiserType DEF Advertiser, Restarted
<1> QED
  BY <1>1, <1>2, DiscoveryType, FlushKeeps

LEMMA ReceiveAvailableInv ==
  ASSUME IInv, NEW e \in Entity, ReceiveAvailable(e) PROVE IInv'
<1>1. /\ counted /\ age[e] > 0 /\ present' = present \union {e}
      /\ age' = [age EXCEPT ![e] = 0]
      /\ UNCHANGED <<counted, hooked, flushed, adv, sent, rejoin, current, requests>>
  BY DEF ReceiveAvailable, DatabaseAdd, advertiseVars
<1>2. /\ present' \subseteq Entity /\ age' \in [Entity -> 0 .. ValidTime + 1]
      /\ \A x \in present' : age'[x] <= ValidTime
      /\ age'[e] = 0 /\ \A x \in Entity \ {e} : age'[x] = age[x]
  BY <1>1, DatabaseType, AdpAssumption DEF IInv, RecordLasts
<1>3. /\ adv' \in Advertiser /\ current' \in Grandmaster /\ requests' \in 0 .. Requests
      /\ sent' \in Message /\ rejoin' \in {"DUE", "DEPARTED", "DONE"}
      /\ counted' \in BOOLEAN /\ flushed' \in BOOLEAN
      /\ hooked' \in Entity \union {Nobody, Uncalled}
  BY <1>1, AdvertiserType, DiscoveryType
<1>4. HookSeesAnEntity'
  BY <1>1, DatabaseType DEF HookSeesAnEntity
<1>5. CASE SlotFor(e) = NoSlot
  <2>1. missed' = missed \union {e} /\ UNCHANGED <<records, latest, discovery>>
    BY <1>5 DEF ReceiveAvailable, DatabaseAdd
  <2>2. \A x : SlotsOf(x)' = SlotsOf(x)
    BY <2>1 DEF SlotsOf
  <2>3. TypeOK'
    BY <1>2, <1>3, <2>1, DatabaseType, DiscoveryType, DatabaseStepType DEF UniqueRecords
  <2>4. PresentEntityIsKept' /\ AddedIsRecorded'
    BY <1>1, <2>1, <2>2, DatabaseType DEF IInv, PresentEntityIsKept, Recorded, AddedIsRecorded
  <2>5. ~Recorded(e)
    <3>1. \A T \in SUBSET Slot : T # {} => Min(T) # NoSlot
      BY MinOfSlots, AdpAssumption DEF Slot, NoSlot
    <3>2. SlotsOf(e) \subseteq Slot
      BY DEF SlotsOf
    <3> QED
      BY <1>5, <3>1, <3>2 DEF SlotFor, Recorded
  <2>6. \A x \in present' : RecordLasts(x)'
    BY <1>1, <1>2, <2>1, <2>2, <2>5, DatabaseType DEF IInv, RecordLasts, Recorded
  <2> QED
    BY <1>4, <2>3, <2>4, <2>6 DEF IInv, DatabaseIsSound
<1>6. CASE SlotFor(e) # NoSlot
  <2> DEFINE s == SlotFor(e)
             new == [guid |-> e, valid |-> ValidTime]
  <2>1. /\ records' = [records EXCEPT ![s] = new]
        /\ missed' = missed \ {e}
        /\ IF Recorded(e) THEN UNCHANGED <<latest, discovery>>
           ELSE latest' = s /\ discovery' = "ADDED"
    BY <1>6 DEF ReceiveAvailable, DatabaseAdd
  <2>2. s \in Slot /\ IF Recorded(e) THEN s \in SlotsOf(e) ELSE s \in SlotsOf(Nobody)
    BY <1>6, SlotForIsSlot
  <2> HIDE DEF s
  <2>3. new \in Record /\ new.guid = e /\ new.valid = ValidTime
    BY AdpAssumption DEF Record
  <2> HIDE DEF new
  <2>4. /\ records' \in [Slot -> Record] /\ records'[s] = new
        /\ \A i \in Slot \ {s} : records'[i] = records[i]
    BY <2>1, <2>2, <2>3, DatabaseType
  <2>5. /\ \A i \in Slot \ {s} : records[i].guid # e
        /\ records[s].guid \in {e, Nobody}
    BY <2>2, DatabaseType, AdpAssumption DEF SlotsOf, Recorded, UniqueRecords
  <2>6. UniqueRecords'
    BY <2>3, <2>4, <2>5, DatabaseType DEF UniqueRecords
  <2>7. SlotsOf(e)' = {s} /\ \A x \in Entity \ {e} : SlotsOf(x)' = SlotsOf(x)
    BY <2>2, <2>3, <2>4, <2>5, AdpAssumption DEF SlotsOf
  <2>8. TypeOK'
    <3>1. latest' \in Slot \union {NoSlot} /\ discovery' \in {"WAITING", "DISCOVER", "ADDED", "REMOVED"}
          /\ missed' \subseteq Entity
      BY <2>1, <2>2, DatabaseType, DiscoveryType
    <3> QED
      BY <1>2, <1>3, <2>4, <2>6, <3>1, DatabaseStepType
  <2>9. PresentEntityIsKept'
    BY <1>1, <2>1, <2>7, DatabaseType DEF PresentEntityIsKept, Recorded
  <2>10. AddedIsRecorded'
    <3>1. records'[s].guid # Nobody
      BY <2>3, <2>4, AdpAssumption
    <3>2. latest' \in Slot => records'[latest'].guid = records[latest'].guid \/ latest' = s
      BY <2>4
    <3> QED
      BY <1>1, <2>1, <2>2, <3>1, <3>2 DEF IInv, AddedIsRecorded
  <2>11. \A x \in present' : RecordLasts(x)'
    <3> SUFFICES ASSUME NEW x \in present' PROVE RecordLasts(x)'
      OBVIOUS
    <3>1. ValidTime + (IF counted' THEN 0 ELSE 1) = ValidTime /\ x \in Entity
      BY <1>1, <1>2, AdpAssumption
    <3>2. CASE x = e
      <4>1. \A i \in SlotsOf(e)' : records'[i].valid + age'[e] >= ValidTime
        BY <1>2, <2>3, <2>4, <2>7, AdpAssumption
      <4> QED
        BY <1>2, <3>1, <3>2, <4>1 DEF RecordLasts
    <3>3. CASE x # e
      <4>1. /\ x \in present /\ age'[x] = age[x] /\ SlotsOf(x)' = SlotsOf(x) /\ s \notin SlotsOf(x)
        BY <1>1, <1>2, <2>5, <2>7, <3>1, <3>3, AdpAssumption DEF SlotsOf
      <4>2. ValidTime + (IF counted THEN 0 ELSE 1) = ValidTime
        BY <1>1, AdpAssumption
      <4>3. \A i \in SlotsOf(x) : records'[i] = records[i]
        BY <2>4, <4>1 DEF SlotsOf
      <4> QED
        BY <3>1, <4>1, <4>2, <4>3 DEF IInv, RecordLasts
    <3> QED
      BY <3>2, <3>3
  <2> QED
    BY <1>4, <2>8, <2>9, <2>10, <2>11 DEF IInv, DatabaseIsSound
<1> QED
  BY <1>5, <1>6

LEMMA ReceiveDepartingInv ==
  ASSUME IInv, NEW e \in Entity, ReceiveDeparting(e) PROVE IInv'
<1>1. /\ present' = present \ {e} /\ records' = Without(records, SlotsOf(e))
      /\ discovery' = "REMOVED"
      /\ UNCHANGED <<adv, sent, rejoin, latest, counted, hooked, flushed, missed, age,
                     current, requests>>
  BY DEF ReceiveDeparting, advertiseVars, Removal
<1>2. /\ records' \in [Slot -> Record]
      /\ \A i \in Slot : records'[i] = IF i \in SlotsOf(e) THEN Free ELSE records[i]
  BY <1>1, DatabaseType, FreeIsRecord DEF Without
<1>3. \A i \in Slot : records'[i].guid \in {records[i].guid, Nobody}
  BY <1>2, FreeIsRecord
<1>4. UniqueRecords' /\ \A x \in Entity : SlotsOf(x)' \subseteq SlotsOf(x)
  BY <1>3, FewerRecords
<1>5. ASSUME NEW x \in Entity \ {e}
      PROVE  SlotsOf(x)' = SlotsOf(x) /\ \A i \in SlotsOf(x) : records'[i] = records[i]
  BY <1>2, <1>4 DEF SlotsOf
<1>6. TypeOK'
  BY <1>1, <1>2, <1>4, DatabaseType, DiscoveryType, AdvertiserType, DatabaseStepType
<1>7. PresentEntityIsKept' /\ HookSeesAnEntity' /\ AddedIsRecorded'
  BY <1>1, <1>5, DatabaseType
     DEF PresentEntityIsKept, Recorded, HookSeesAnEntity, AddedIsRecorded
<1>8. \A x \in present' : RecordLasts(x)'
  <2> SUFFICES ASSUME NEW x \in present' PROVE RecordLasts(x)'
    OBVIOUS
  <2>1. x \in Entity \ {e} /\ x \in present
    BY <1>1, DatabaseType
  <2> QED
    BY <1>1, <1>5, <2>1 DEF IInv, RecordLasts
<1> QED
  BY <1>6, <1>7, <1>8 DEF IInv, DatabaseIsSound

\* A unit begins only if every entity that is present has time left.
LEMMA TickInv == IInv /\ Tick => IInv'
<1> SUFFICES ASSUME IInv, Tick PROVE IInv'
  OBVIOUS
<1>1. /\ counted /\ counted' = FALSE /\ discovery = "WAITING"
      /\ \A e \in present : age[e] < ValidTime
      /\ age' = [e \in Entity |-> IF age[e] > ValidTime THEN age[e] ELSE age[e] + 1]
      /\ UNCHANGED <<adv, sent, rejoin, discovery, records, latest, hooked, flushed, missed,
                     present, current, requests>>
  BY DEF Tick, advertiseVars
<1>2. age' \in [Entity -> 0 .. ValidTime + 1]
  BY <1>1, DatabaseType, AdpAssumption
<1>3. \A e : SlotsOf(e)' = SlotsOf(e)
  BY <1>1 DEF SlotsOf
<1>4. TypeOK'
  BY <1>1, <1>2, DatabaseType, DiscoveryType, AdvertiserType, DatabaseStepType DEF UniqueRecords
<1>5. PresentEntityIsKept' /\ HookSeesAnEntity' /\ AddedIsRecorded'
  BY <1>1, <1>3, DatabaseType
     DEF PresentEntityIsKept, Recorded, HookSeesAnEntity, AddedIsRecorded
<1>6. ASSUME NEW e \in present PROVE RecordLasts(e)'
  <2>1. /\ e \in Entity /\ age[e] \in Nat /\ age'[e] = age[e] + 1 /\ age'[e] <= ValidTime
    BY <1>1, DatabaseType, AdpAssumption
  <2>2. /\ ValidTime + (IF counted THEN 0 ELSE 1) = ValidTime
        /\ ValidTime + (IF counted' THEN 0 ELSE 1) = ValidTime + 1
    BY <1>1, AdpAssumption
  <2>3. \A i \in SlotsOf(e) : records[i].valid \in Int /\ records[i].valid + age[e] >= ValidTime
    BY <2>2, DatabaseType DEF IInv, RecordLasts, SlotsOf, Record
  <2>4. \A i \in SlotsOf(e)' : records'[i].valid + age'[e] >= ValidTime + 1
    BY <1>1, <1>3, <2>1, <2>3, AdpAssumption
  <2> QED
    BY <2>1, <2>2, <2>4 DEF RecordLasts
<1> QED
  BY <1>1, <1>4, <1>5, <1>6 DEF IInv, DatabaseIsSound

\* The steps that leave the records and the entities' ages alone.
LEMMA QuietInv ==
  ASSUME IInv,
         UNCHANGED <<adv, sent, rejoin, records, latest, counted, hooked, flushed, missed, age,
                     current>>,
         requests' \in 0 .. Requests, present' \subseteq present,
         discovery' \in {discovery, "DISCOVER"}
  PROVE  IInv'
<1>1. \A e : SlotsOf(e)' = SlotsOf(e)
  BY DEF SlotsOf
<1>2. TypeOK'
  <2>1. present' \subseteq Entity /\ discovery' \in {"WAITING", "DISCOVER", "ADDED", "REMOVED"}
    BY DatabaseType, DiscoveryType
  <2> QED
    BY <2>1, DatabaseType, DiscoveryType, AdvertiserType, DatabaseStepType DEF UniqueRecords
<1>3. PresentEntityIsKept' /\ HookSeesAnEntity' /\ AddedIsRecorded'
  BY <1>1, DatabaseType
     DEF IInv, PresentEntityIsKept, Recorded, HookSeesAnEntity, AddedIsRecorded
<1>4. \A e \in present' : RecordLasts(e)'
  BY <1>1 DEF IInv, RecordLasts
<1> QED
  BY <1>2, <1>3, <1>4 DEF IInv, DatabaseIsSound

LEMMA NextInv == IInv /\ [Next]_vars => IInv'
<1> SUFFICES ASSUME IInv, [Next]_vars PROVE IInv'
  OBVIOUS
<1>1. CASE Announce
  <2>1. adv' \in Advertiser /\ requests' \in 0 .. Requests
    BY <1>1, AdvertiserType DEF Announce
  <2> QED
    BY <1>1, <2>1, AdvertiserType, AdvertiserStep DEF Announce
<1>2. CASE Discover
  BY <1>2, AdvertiserType, QuietInv DEF Discover, advertiseVars, othersVars
<1>3. CASE FlushDatabase
  BY <1>3, FlushDatabaseInv
<1>4. CASE Periodic
  BY <1>4, PeriodicInv
<1>5. CASE ReceiveDiscover
  <2>1. adv' \in Advertiser /\ requests' \in 0 .. Requests
    BY <1>5, AdvertiserType DEF ReceiveDiscover
  <2> QED
    BY <1>5, <2>1, AdvertiserType, AdvertiserStep DEF ReceiveDiscover
<1>6. ASSUME NEW e \in Entity, ReceiveAvailable(e) PROVE IInv'
  BY <1>6, ReceiveAvailableInv
<1>7. ASSUME NEW e \in Entity, ReceiveDeparting(e) PROVE IInv'
  BY <1>7, ReceiveDepartingInv
<1>8. ASSUME NEW e \in Entity, Vanish(e) PROVE IInv'
  BY <1>8, AdvertiserType, QuietInv DEF Vanish, advertiseVars, databaseVars
<1>9. CASE LinkUp
  BY <1>9, LinkUpInv
<1>10. CASE GrandmasterChanges
  BY <1>10, AdvertiserType, AdvertiserStep DEF GrandmasterChanges, advertiseVars
<1>11. CASE Tick
  BY <1>11, TickInv
<1>12. CASE UNCHANGED vars
  BY <1>12, AdvertiserType, QuietInv DEF vars, advertiseVars, databaseVars, othersVars
<1> QED
  BY <1>1, <1>2, <1>3, <1>4, <1>5, <1>6, <1>7, <1>8, <1>9, <1>10, <1>11, <1>12 DEF Next

-----------------------------------------------------------------------------
(***************************************************************************)
(* The theorems.                                                           *)
(***************************************************************************)
\* The invariant holds in every reachable state.
THEOREM Invariance == Spec => []IInv
<1> QED
  BY InitInv, NextInv, PTL DEF Spec

\* The database is always sound: one record for an entity, which outlasts the valid
\* time of one that is present (adp_check_timeout and its two second timer), and an
\* entity to show for every call of avb_entity_on_new_entity_available.
THEOREM DatabaseIsAlwaysSound == Spec => []DatabaseIsSound
<1>1. IInv => DatabaseIsSound
  BY DEF IInv
<1> QED
  BY <1>1, Invariance, PTL

NonePresentExpired == \A e \in present : SlotsOf(e) \intersect Expired(records) = {}

\* The record of an entity that is present is never one that has expired, so that
\* it cannot be the record the next search removes (avb_1722_1_adp.c 215-233).
THEOREM PresentEntityNeverExpires == Spec => []NonePresentExpired
<1>1. ASSUME IInv, NEW e \in present PROVE SlotsOf(e) \intersect Expired(records) = {}
  <2>1. e \in Entity /\ age[e] \in Nat /\ age[e] <= ValidTime
    BY <1>1, DatabaseType DEF IInv, RecordLasts
  <2>2. \A i \in SlotsOf(e) : records[i].valid \in Int
    BY <1>1, DatabaseType DEF SlotsOf, Record
  <2>3. ValidTime + (IF counted THEN 0 ELSE 1) >= ValidTime
    BY AdpAssumption
  <2>4. \A i \in SlotsOf(e) : records[i].valid + age[e] >= ValidTime
    <3> TAKE i \in SlotsOf(e)
    <3>1. records[i].valid + age[e] >= ValidTime + (IF counted THEN 0 ELSE 1)
      BY <1>1 DEF IInv, RecordLasts
    <3> QED
      BY <2>1, <2>2, <2>3, <3>1, AdpAssumption
  <2> QED
    BY <2>1, <2>2, <2>4, AdpAssumption DEF Expired
<1>2. IInv => NonePresentExpired
  BY <1>1 DEF NonePresentExpired
<1> QED
  BY <1>2, Invariance, PTL

=============================================================================
