---------------------------------- MODULE Adp ----------------------------------
(***************************************************************************)
(* AVDECC entity discovery (module_avb_1722_1/src/avb_1722_1_adp.c): the   *)
(* advertising and the discovery state machine of this entity and its      *)
(* database of the others, polled by avb_1722_1_periodic, driven by the    *)
(* application, the link status and the messages of the other entities.    *)
(*                                                                         *)
(* Time is counted in the two second units of the valid time.  The polls   *)
(* come far more often, so a Tick waits for the machines to settle; when   *)
(* the one second timers of the advertiser expire is left open.            *)
(***************************************************************************)
EXTENDS Integers, FiniteSetsExt

CONSTANTS Entity,      \* the other entities: their guids
          Nobody,      \* guid 0, a free record of the database
          MaxEntities, \* AVB_1722_1_MAX_ENTITIES
          ValidTime,   \* the valid time of their messages, in two second units
          Grandmaster, \* bound: the grandmasters gPTP reports
          Unread,      \* what the variable of ADVERTISE_0 holds
          Requests     \* bound on the calls, link changes and commands

\* What the hook has got before its first call.
Uncalled == "uncalled"

ASSUME AdpAssumption ==
  /\ MaxEntities \in Nat \ {0}
  /\ ValidTime \in Nat \ {0}
  /\ Requests \in Nat
  /\ Nobody \notin Entity /\ Nobody # Uncalled
  /\ Unread \notin Grandmaster

Slot == 1 .. MaxEntities
NoSlot == 0            \* -1 in the code

VARIABLES
  adv,        \* adp_advertise_state, its timers and as_grandmaster_id
  current,    \* the grandmaster gPTP knows
  discovery,  \* adp_discovery_state
  records,    \* entities: guid and units still valid, -1 when it is over
  latest,     \* adp_latest_entity_added_index
  counted,    \* the discovery timer of this unit has expired and was handled
  present,    \* the other entities that advertise themselves
  age,        \* units since an entity was last heard, up to ValidTime + 1
  requests,   \* calls, link changes and commands so far
  sent,       \* history: the advertisement sent last
  rejoin,     \* history: what has been sent of the link coming up
  hooked,     \* history: what avb_entity_on_new_entity_available got last
  flushed,    \* history: the database was emptied with an entity to report
  missed      \* history: entities whose message found no room, or was flushed

advertiseVars == <<adv, sent, rejoin>>
databaseVars == <<discovery, records, latest, counted, hooked, flushed, missed>>
othersVars == <<present, age>>
vars == <<advertiseVars, databaseVars, othersVars, current, requests>>

Advertiser ==
  [state : {"IDLE", "WAITING", "ADVERTISE_0", "ADVERTISE_1", "DEPARTING",
            "DEPART_THEN_ADVERTISE"},
   monitor : BOOLEAN,      \* ptp_monitor_timer is running
   gm : Grandmaster \union {Unread}]

None == [type |-> "NONE"]
Departing == [type |-> "DEPARTING"]
Available(gm) == [type |-> "AVAILABLE", gm |-> gm]
Message == {None, Departing} \union {Available(gm) : gm \in Grandmaster \union {Unread}}

TypeOK ==
  /\ adv \in Advertiser /\ current \in Grandmaster
  /\ discovery \in {"WAITING", "DISCOVER", "ADDED", "REMOVED"}
  /\ records \in [Slot -> [guid : Entity \union {Nobody}, valid : -1 .. ValidTime]]
  /\ latest \in Slot \union {NoSlot}
  /\ counted \in BOOLEAN
  /\ present \subseteq Entity /\ age \in [Entity -> 0 .. ValidTime + 1]
  /\ requests \in 0 .. Requests
  /\ sent \in Message /\ rejoin \in {"DUE", "DEPARTED", "DONE"}
  /\ hooked \in Entity \union {Nobody, Uncalled}
  /\ flushed \in BOOLEAN /\ missed \subseteq Entity
  \* No entity has two records.
  /\ \A i, j \in Slot : records[i].guid = records[j].guid /\ i # j
       => records[i].guid = Nobody

-----------------------------------------------------------------------------
(***************************************************************************)
(* The database.                                                           *)
(***************************************************************************)

Free == [guid |-> Nobody, valid |-> -1]
Empty == [i \in Slot |-> Free]
SlotsOf(g) == {i \in Slot : records[i].guid = g}
Recorded(e) == SlotsOf(e) # {}

\* The entity's record, else the last free one.
SlotFor(e) ==
  IF Recorded(e) THEN Min(SlotsOf(e))
  ELSE IF SlotsOf(Nobody) # {} THEN Max(SlotsOf(Nobody)) ELSE NoSlot

\* An entity without a record is new, and reported.
DatabaseAdd(e) ==
  /\ UNCHANGED <<counted, hooked, flushed>>
  /\ IF SlotFor(e) = NoSlot
     THEN missed' = missed \union {e} /\ UNCHANGED <<records, latest, discovery>>
     ELSE /\ records' = [records EXCEPT ![SlotFor(e)] = [guid |-> e, valid |-> ValidTime]]
          /\ missed' = missed \ {e}
          /\ IF Recorded(e) THEN UNCHANGED <<latest, discovery>>
             ELSE latest' = SlotFor(e) /\ discovery' = "ADDED"

Without(db, S) == [i \in Slot |-> IF i \in S THEN Free ELSE db[i]]

\* Mutant: an entity has gone when its valid time is reached.
ExpiredEarly(db) == {i \in Slot : db[i].guid # Nobody /\ db[i].valid <= 0}

\* Records whose timeout is below the counter.
Expired(db) == {i \in Slot : db[i].guid # Nobody /\ db[i].valid < 0}

\* Mutant: the search ends at the first entity.
FirstIfExpired(db) ==
  LET used == {i \in Slot : db[i].guid # Nobody}
  IN  IF used = {} THEN db ELSE Without(db, {Min(used)} \intersect Expired(db))

\* One entity is removed at a time.
CheckTimeout(db) ==
  IF Expired(db) = {} THEN db ELSE Without(db, {Min(Expired(db))})

Flush ==
  /\ records' = Empty
  /\ missed' = missed \union {e \in Entity : Recorded(e)}

-----------------------------------------------------------------------------
(***************************************************************************)
(* Advertising.                                                            *)
(***************************************************************************)

Init ==
  /\ adv \in [state : {"IDLE"}, monitor : {FALSE}, gm : {Unread}]
  /\ current \in Grandmaster
  /\ discovery = "WAITING" /\ records = Empty /\ latest = NoSlot /\ counted = FALSE
  /\ present = {} /\ age = [e \in Entity |-> ValidTime + 1]
  /\ requests = 0
  /\ sent = None /\ rejoin = "DONE" /\ hooked = Uncalled /\ flushed = FALSE /\ missed = {}

Request == requests < Requests /\ requests' = requests + 1

\* avb_1722_1_adp_announce, _depart and _depart_then_announce: ignored while a
\* message is due.
Announce ==
  /\ Request
  /\ adv.state \in {"IDLE", "WAITING"}
  /\ \E new \in {"ADVERTISE_0", "DEPARTING", "DEPART_THEN_ADVERTISE"} :
       adv' = [adv EXCEPT !.state = new]
  /\ UNCHANGED <<sent, rejoin, databaseVars, othersVars, current>>

\* Mutant: the state of a departed device is tested, and it waits.
AfterDepartingIdle == IF adv.state = "DEPART_THEN_ADVERTISE" THEN "WAITING" ELSE "IDLE"

\* The constant ADP_ADVERTISE_DEPART_THEN_ADVERTISE is tested, not the state.
AfterDeparting == "ADVERTISE_0"

\* What the switch of advertising_periodic does: the advertiser and the message.
\* ADVERTISE_0 takes the grandmaster from a variable that is not initialised.
Switched ==
  CASE adv.state = "IDLE" -> {<<adv, None>>}
    [] adv.state = "WAITING" ->
         {<<adv, None>>, <<[adv EXCEPT !.state = "ADVERTISE_1"], None>>}
    [] adv.state = "ADVERTISE_0" ->
         {<<[adv EXCEPT !.gm = gm, !.monitor = TRUE, !.state = "WAITING"],
            Available(gm)>> : gm \in Grandmaster \union {Unread}}
    [] adv.state = "ADVERTISE_1" ->
         {<<[adv EXCEPT !.state = "WAITING"],
            Available(adv.gm)>>}
    [] OTHER ->
         {<<[adv EXCEPT !.state = AfterDeparting], Departing>>}

\* Mutant: the timer is started again only when the grandmaster has changed.
MonitoredOnce(a) ==
  IF a.gm # current THEN [a EXCEPT !.gm = current, !.state = "ADVERTISE_1"]
  ELSE [a EXCEPT !.monitor = FALSE]

\* The monitor timer has expired, and is started again.
Monitored(a) ==
  IF a.gm # current THEN [a EXCEPT !.gm = current, !.state = "ADVERTISE_1"] ELSE a

\* avb_1722_1_adp_advertising_periodic
AdvertisingPoll ==
  \E r \in Switched :
    /\ adv' \in {r[1]} \union
         (IF r[1].state # "IDLE" /\ adv.monitor THEN {Monitored(r[1])} ELSE {})
    /\ sent' = IF r[2] = None THEN sent ELSE r[2]
    /\ rejoin' = CASE rejoin = "DUE" /\ r[2] = Departing -> "DEPARTED"
                   [] rejoin = "DEPARTED" /\ r[2].type = "AVAILABLE" -> "DONE"
                   [] OTHER -> rejoin

-----------------------------------------------------------------------------
(***************************************************************************)
(* Discovery.                                                              *)
(***************************************************************************)

\* avb_1722_1_adp_discover and _discover_all: ignored unless WAITING.
Discover ==
  /\ Request
  /\ discovery = "WAITING" /\ discovery' = "DISCOVER"
  /\ UNCHANGED <<advertiseVars, records, latest, counted, hooked, flushed, missed,
                 othersVars, current>>

\* The demo empties the database when its REMOTE_SEL button is pressed, and asks
\* for all entities again.
FlushDatabase ==
  /\ Request
  /\ Flush
  /\ flushed' = (flushed \/ discovery = "ADDED")
  /\ discovery' = IF discovery = "WAITING" THEN "DISCOVER" ELSE discovery
  /\ UNCHANGED <<advertiseVars, latest, counted, hooked, othersVars, current>>

\* avb_1722_1_adp_discovery_periodic
DiscoveryPoll ==
  /\ \/ /\ discovery = "WAITING" /\ ~counted
        /\ records' = CheckTimeout([i \in Slot |->
             [records[i] EXCEPT !.valid = IF @ = -1 THEN @ ELSE @ - 1]])
        /\ counted' = TRUE
        /\ UNCHANGED <<discovery, hooked>>
     \/ /\ discovery = "WAITING" /\ counted
        /\ UNCHANGED <<discovery, hooked, records, counted>>
     \/ /\ discovery = "ADDED"
        /\ hooked' = records[latest].guid
        /\ discovery' = "WAITING" /\ UNCHANGED <<records, counted>>
     \/ /\ discovery \in {"DISCOVER", "REMOVED"}
        /\ discovery' = "WAITING" /\ UNCHANGED <<records, counted, hooked>>
  /\ UNCHANGED <<latest, flushed, missed>>

\* avb_1722_1_periodic
Periodic ==
  /\ AdvertisingPoll /\ DiscoveryPoll
  /\ UNCHANGED <<othersVars, current, requests>>

-----------------------------------------------------------------------------
(***************************************************************************)
(* The network.                                                            *)
(***************************************************************************)

\* process_avb_1722_1_adp_packet, ENTITY_DISCOVER for this entity or for all.
ReceiveDiscover ==
  /\ adv.state = "WAITING"
  /\ Request
  /\ adv' = [adv EXCEPT !.state = "ADVERTISE_1"]
  /\ UNCHANGED <<sent, rejoin, databaseVars, othersVars, current>>

\* ENTITY_AVAILABLE.  Bound: an entity sends one in a unit, and not in the
\* instant between the end of the last unit and the poll that counts it.
ReceiveAvailable(e) ==
  /\ counted /\ age[e] > 0
  /\ present' = present \union {e}
  /\ age' = [age EXCEPT ![e] = 0]
  /\ DatabaseAdd(e)
  /\ UNCHANGED <<advertiseVars, current, requests>>

\* What the state becomes when any entity departs.
Removal == "REMOVED"

\* ENTITY_DEPARTING
ReceiveDeparting(e) ==
  /\ e \in present
  /\ present' = present \ {e}
  /\ records' = Without(records, SlotsOf(e))
  /\ discovery' = Removal
  /\ UNCHANGED <<advertiseVars, latest, counted, hooked, flushed, missed, age,
                 current, requests>>

\* An entity is switched off or cut from the network.
Vanish(e) ==
  /\ e \in present
  /\ present' = present \ {e}
  /\ UNCHANGED <<advertiseVars, databaseVars, age, current, requests>>

\* Mutant: adp_init leaves an advertiser that has something to send alone.
RestartedUnlessDue == IF adv.state \in {"IDLE", "WAITING"} THEN "DEPART_THEN_ADVERTISE" ELSE adv.state

\* adp_init makes the advertiser idle, which takes depart_then_announce.
Restarted == "DEPART_THEN_ADVERTISE"

\* avb_start when the link comes up: adp_init, depart_then_announce and
\* discover_all.  The timers are new.
LinkUp ==
  /\ Request
  /\ adv' = [adv EXCEPT !.state = Restarted, !.monitor = FALSE]
  /\ Flush
  /\ discovery' = "DISCOVER" /\ counted' = FALSE
  /\ rejoin' = "DUE"
  /\ UNCHANGED <<sent, latest, hooked, flushed, othersVars, current>>

GrandmasterChanges ==
  /\ Request
  /\ \E gm \in Grandmaster \ {current} : current' = gm
  /\ UNCHANGED <<advertiseVars, databaseVars, othersVars>>

\* An entity that is present has advertised itself before its valid time is over.
Tick ==
  /\ counted /\ discovery = "WAITING" /\ adv.state \in {"IDLE", "WAITING"}
  /\ \A e \in present : age[e] < ValidTime
  /\ counted' = FALSE
  /\ age' = [e \in Entity |-> IF age[e] > ValidTime THEN age[e] ELSE age[e] + 1]
  /\ UNCHANGED <<advertiseVars, discovery, records, latest, hooked, flushed, missed,
                 present, current, requests>>

Next ==
  \/ Announce \/ Discover \/ FlushDatabase
  \/ Periodic
  \/ ReceiveDiscover
  \/ \E e \in Entity : ReceiveAvailable(e) \/ ReceiveDeparting(e) \/ Vanish(e)
  \/ LinkUp \/ GrandmasterChanges \/ Tick

Spec == Init /\ [][Next]_vars

(***************************************************************************)
(* avb_periodic polls both machines for ever, the timer of the grandmaster *)
(* expires, and the time goes on: an entity that is present sends in time. *)
(***************************************************************************)
FairSpec ==
  /\ Spec
  /\ WF_vars(Periodic)
  /\ WF_vars(Periodic /\ discovery = "WAITING" /\ ~counted)
  /\ SF_vars(Periodic /\ adv.gm # current /\ adv'.gm = current)
  /\ SF_vars(Tick)
  /\ \A e \in Entity : WF_vars(ReceiveAvailable(e) /\ e \in present)

-----------------------------------------------------------------------------
(***************************************************************************)
(* Properties.                                                             *)
(***************************************************************************)

\* An entity that advertises itself within its own valid time keeps its record,
\* unless the database was full or flushed: the timeout is not early
\* (avb_1722_1_adp.c 170, 215-233).
PresentEntityIsKept == \A e \in present \ missed : Recorded(e)

\* The application is told of an entity that is in the database, not of the
\* record of one that has departed since, unless it has flushed the database
\* itself (avb_1722_1_adp.c 254-269, 340-345).
HookSeesAnEntity == flushed \/ hooked # Nobody

\* The database and its counters are well formed, it keeps who is present, and
\* hooks are given what is in it.
DatabaseIsSound == TypeOK /\ PresentEntityIsKept /\ HookSeesAnEntity

\* An entity that has gone without a word is forgotten, though only one record
\* is removed in two seconds (avb_1722_1_adp.c 215-233).
GoneIsForgotten ==
  \A e \in Entity : (e \notin present /\ Recorded(e)) ~> (e \in present \/ ~Recorded(e))

\* A device whose link comes up says that it departs and then that it is
\* available, whatever it was sending (avb.c 241-251).
RejoinIsAnnounced == []<>(rejoin = "DONE")

\* The grandmaster advertised is in the end the one gPTP has, though the first
\* message carries one nobody set (avb_1722_1_adp.c 359-360, 388-400).
GrandmasterIsAnnounced ==
  <>[](adv.state # "IDLE" => sent = Available(current))

=============================================================================
