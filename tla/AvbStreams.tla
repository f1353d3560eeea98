------------------------------ MODULE AvbStreams ------------------------------
(***************************************************************************)
(* Stream control (module_avb/src/avb.c): the sources and sinks of one     *)
(* device and everything that starts, stops and sets them: ACMP and MAAP   *)
(* application hooks, AECP's START and STOP STREAMING, the MSRP listener   *)
(* indications, the link status and the application itself.  All of them   *)
(* run in the control thread, one at a time, so each is one step; what a   *)
(* step leaves behind in the talker and listener units, the router table,  *)
(* the VLAN entries, the MSRP attributes and the traffic shaper is what    *)
(* the next one of another kind meets.                                     *)
(*                                                                         *)
(* The device is one record and every operation maps it to the record it   *)
(* leaves, so that a handler which sets several streams composes them.     *)
(***************************************************************************)
EXTENDS Naturals, FiniteSetsExt

CONSTANTS Source, Sink,  \* source_num and sink_num
          Input,         \* the media inputs
          MaxVlan,       \* AVB_MAX_NUM_VLAN
          NoAddress,     \* the all-zero destination a source starts with
          NoStream,      \* the all-zero stream id
          Scenario       \* bound: the streams in use, and what the application and
                         \* the network choose from

ASSUME StreamsAssumption ==
  /\ IsFiniteSet(Source) /\ Source = 1 .. Cardinality(Source)
  /\ IsFiniteSet(Sink) /\ Sink = 1 .. Cardinality(Sink)
  /\ MaxVlan \in Nat
  /\ \A c \in Scenario :
       /\ c.sources \subseteq Source /\ c.sinks \subseteq Sink
       /\ c.maps \subseteq SUBSET Input /\ c.demo \in BOOLEAN

DefaultVlan == 2        \* AVB_DEFAULT_VLAN
State == {"DISABLED", "POTENTIAL", "ENABLED"}
Entry == 1 .. MaxVlan
Unmapped == 0

Vlan == (UNION {c.vlans : c \in Scenario}) \union {0, DefaultVlan}
Address == (UNION {c.addresses : c \in Scenario}) \union {NoAddress}
StreamId == (UNION {c.ids : c \in Scenario}) \union {NoStream}

\* A stream of either side.
Stream == ({"source"} \X Source) \union ({"sink"} \X Sink)

Device ==
  [source : [Source -> [state : State, map : SUBSET Input, dest : Address, vlan : Vlan]],
   mapped : [Input -> Source \union {Unmapped}],
   \* The talker unit: active 0 is unset, 1 configured or stopped, 2 sending.
   talker : [Source -> [active : 0 .. 2, inputs : SUBSET Input, dest : Address]],
   sink : [Sink -> [state : State, id : StreamId, vlan : Vlan]],
   unit : SUBSET Sink,                   \* active streams of the listener unit
   route : [Sink -> StreamId],           \* the simple router table
   vlan : [Entry -> [active : BOOLEAN, vlan : Vlan, member : {"out", "in", "leaving"}]],
   begun : SUBSET Source,                \* srp_listener_attr takes part in MSRP
   advertised : SUBSET Source,           \* srp_talker_attr is declared
   listening : SUBSET Sink,              \* srp_listener_attr is declared
   shaped : SUBSET Source,               \* sources the shaper's bandwidth counts
   told : [Source -> Address],           \* what ACMP answers to a listener
   answering : BOOLEAN,                  \* acmp_talker_state is WAITING
   \* History: the streams configured since they last were DISABLED; of these
   \* the ones that could not join their VLAN or whose VLAN the other side
   \* left; the sources whose last address was refused; the sources whose inputs
   \* another one freed that did not hold them.
   live : SUBSET Stream, stranded : SUBSET Stream, moved : SUBSET Source,
   robbed : SUBSET Source]

VARIABLES
  dev,    \* the device
  link,   \* the link status last reported
  chosen  \* which of the Scenario this is

vars == <<dev, link, chosen>>

TypeOK ==
  /\ dev \in Device
  /\ dev.stranded \subseteq dev.live
  /\ dev.advertised \subseteq dev.begun
  /\ link \in BOOLEAN
  /\ chosen \in Scenario

-----------------------------------------------------------------------------
(***************************************************************************)
(* The VLAN entries (module_avb_srp/src/avb_mvrp.c).  An entry that is     *)
(* "out" is an observer; "leaving" has a Leave, or the answer to a         *)
(* LeaveAll, still to send.                                                *)
(***************************************************************************)

EntriesOf(d, v) == {e \in Entry : d.vlan[e].active /\ d.vlan[e].vlan = v}

\* The entry avb_join_vlan takes, 0 when there is none.
EntryFor(d, v) ==
  LET spare == {e \in Entry : ~d.vlan[e].active}
      idle == {e \in Entry : d.vlan[e].member = "out"}
  IN  IF EntriesOf(d, v) # {} THEN Max(EntriesOf(d, v))
      ELSE IF spare # {} THEN Min(spare)
      ELSE IF idle # {} THEN Min(idle)
      ELSE 0

\* The result is not looked at by the callers.
JoinVlan(d, v) ==
  IF EntryFor(d, v) = 0 THEN d
  ELSE [d EXCEPT !.vlan[EntryFor(d, v)] = [active |-> TRUE, vlan |-> v, member |-> "in"]]

LeaveVlan(d, v) ==
  IF EntriesOf(d, v) = {} THEN d
  ELSE [d EXCEPT !.vlan[Max(EntriesOf(d, v))].member = "leaving"]

Joined(d, v) == \E e \in EntriesOf(d, v) : d.vlan[e].member = "in"

VlanOf(d, x) == IF x[1] = "source" THEN d.source[x[2]].vlan ELSE d.sink[x[2]].vlan

\* The stream x is configured and joins its VLAN, when it has one.
Joining(d, x, v) ==
  LET c == IF v = 0 THEN d ELSE JoinVlan(d, v)
  IN  [c EXCEPT !.live = @ \union {x},
                !.stranded = IF v = 0 \/ Joined(c, v) THEN @ \ {x} ELSE @ \union {x}]

\* The stream x stops and leaves its VLAN when it is the last of its side.
Leaving(d, x, v, last) ==
  LET c == [d EXCEPT !.live = @ \ {x}, !.stranded = @ \ {x}]
      left == {y \in c.live : y[1] # x[1] /\ VlanOf(d, y) = v}
  IN  IF v # 0 /\ last
      THEN [LeaveVlan(c, v) EXCEPT !.stranded = @ \union left] ELSE c

-----------------------------------------------------------------------------
(***************************************************************************)
(* Sources.  The bandwidth is computed before the state is assigned, with  *)
(* the state the source comes from.                                        *)
(***************************************************************************)

SourceOn(d, s) == d.source[s].state # "DISABLED"
SinkOn(d, k) == d.sink[k].state # "DISABLED"

\* Mutant: a map is free when one of its inputs is.
MapHasFreeInput(d, s) == \E i \in d.source[s].map : d.mapped[i] = Unmapped

MapIsFree(d, s) ==
  /\ d.source[s].map # {}
  /\ \A i \in d.source[s].map : d.mapped[i] = Unmapped

\* Mutant: the talker unit keeps the address it was configured with first.
ConfigureSourceOnce(d, s) ==
  LET src == d.source[s]
      c == [d EXCEPT
             !.mapped = [i \in Input |-> IF i \in src.map THEN s ELSE @[i]],
             !.talker[s] = [active |-> 1, inputs |-> src.map,
                            dest |-> IF @.active = 0 THEN src.dest ELSE @.dest],
             !.begun = @ \union {s},
             !.advertised = @ \union {s}]
  IN  Joining(c, <<"source", s>>, src.vlan)

ConfigureSource(d, s) ==
  LET src == d.source[s]
      c == [d EXCEPT
             !.mapped = [i \in Input |-> IF i \in src.map THEN s ELSE @[i]],
             !.talker[s] = [active |-> 1, inputs |-> src.map, dest |-> src.dest],
             !.begun = @ \union {s},
             !.advertised = @ \union {s}]
  IN  Joining(c, <<"source", s>>, src.vlan)

\* Mutant: the last source on any VLAN is not looked for.
NoOtherSourceAsked(d, s) == TRUE

NoOtherSource(d, s) == \A t \in Source \ {s} : ~SourceOn(d, t)

NoOtherSink(d, k) == \A j \in Sink \ {k} : ~SinkOn(d, j)

StopSending(d, s) == [d EXCEPT !.talker[s].active = 1]
StartSending(d, s) == [d EXCEPT !.talker[s].active = 2]

\* The source s was configured since it was DISABLED, and its inputs are still its own.
Holds(d, s) == <<"source", s>> \in d.live /\ s \notin d.robbed

\* The sources that lose an input when s frees those of its map.
RobbedBy(d, s) ==
  {t \in Source : /\ ~Holds(d, s) /\ Holds(d, t)
                  /\ d.source[t].map \intersect d.source[s].map # {}}

\* Its inputs become free whichever source they were mapped to.
ReleaseSource(d, s) ==
  LET v == d.source[s].vlan
      c == [StopSending(d, s) EXCEPT
             !.mapped = [i \in Input |-> IF i \in d.source[s].map THEN Unmapped ELSE @[i]],
             !.advertised = @ \ {s},
             !.robbed = (@ \union RobbedBy(d, s)) \ {s}]
  IN  Leaving(c, <<"source", s>>, v, NoOtherSource(d, s))

\* Mutant: only sources that are sending already are counted.
CountedSending(d) == {s \in Source : d.source[s].state = "ENABLED"}

\* avb_set_talker_bandwidth
Counted(d) == {s \in Source : SourceOn(d, s)}

SetSourceState(d, s, new) ==
  LET old == d.source[s].state
      c == CASE old = "DISABLED" /\ new = "POTENTIAL" /\ MapIsFree(d, s) ->
                  ConfigureSource(d, s)
             [] old = "ENABLED" /\ new = "POTENTIAL" -> StopSending(d, s)
             [] old = "POTENTIAL" /\ new = "ENABLED" -> StartSending(d, s)
             [] old # "DISABLED" /\ new = "DISABLED" -> ReleaseSource(d, s)
             [] OTHER -> d
  IN  [c EXCEPT !.shaped = Counted(d), !.source[s].state = new]

\* The setters: map, VLAN and destination, each refused unless DISABLED.
SetSource(d, s, src) ==
  IF SourceOn(d, s) THEN d ELSE [d EXCEPT !.source[s] = src]

-----------------------------------------------------------------------------
\* Sinks.  Nothing of a disabled sink is taken out of the router table.

ConfigureSink(d, k) ==
  LET v == d.sink[k].vlan
      c == [d EXCEPT !.unit = @ \union {k}, !.route[k] = d.sink[k].id,
                     !.listening = @ \union {k}]
  IN  Joining(c, <<"sink", k>>, v)

ReleaseSink(d, k) ==
  LET v == d.sink[k].vlan
      c == [d EXCEPT !.unit = @ \ {k}, !.listening = @ \ {k}]
  IN  Leaving(c, <<"sink", k>>, v, NoOtherSink(d, k))

SetSinkState(d, k, new) ==
  LET old == d.sink[k].state
      c == CASE old = "DISABLED" /\ new = "POTENTIAL" -> ConfigureSink(d, k)
             [] old # "DISABLED" /\ new = "DISABLED" -> ReleaseSink(d, k)
             [] OTHER -> d
  IN  [c EXCEPT !.sink[k].state = new]

\* Mutant: only a sink that receives refuses.
SetSinkUnlessEnabled(d, k, snk) ==
  IF d.sink[k].state = "ENABLED" THEN d ELSE [d EXCEPT !.sink[k] = snk]

SetSink(d, k, snk) == IF SinkOn(d, k) THEN d ELSE [d EXCEPT !.sink[k] = snk]

\* avb_1722_router_table_lookup_simple: the sinks a packet's stream id leads to.
RouteOf(d, id) == {k \in Sink : d.route[k] = id /\ id # NoStream}
Delivered(d, id) ==
  IF RouteOf(d, id) = {} THEN {} ELSE {Min(RouteOf(d, id))} \intersect d.unit

-----------------------------------------------------------------------------
(***************************************************************************)
(* Actions.                                                                *)
(***************************************************************************)

Init ==
  /\ chosen \in Scenario
  /\ link = FALSE
  /\ \E map \in [Source -> chosen.maps] :
       dev = [source |-> [s \in Source |-> [state |-> "DISABLED", map |-> map[s],
                                           dest |-> NoAddress, vlan |-> DefaultVlan]],
              mapped |-> [i \in Input |-> Unmapped],
              talker |-> [s \in Source |-> [active |-> 0, inputs |-> {}, dest |-> NoAddress]],
              sink |-> [k \in Sink |-> [state |-> "DISABLED", id |-> NoStream,
                                       vlan |-> DefaultVlan]],
              unit |-> {}, route |-> [k \in Sink |-> NoStream],
              vlan |-> [e \in Entry |-> [active |-> FALSE, vlan |-> 0, member |-> "out"]],
              begun |-> {}, advertised |-> {}, listening |-> {}, shaped |-> {},
              told |-> [s \in Source |-> NoAddress], answering |-> FALSE,
              live |-> {}, stranded |-> {}, moved |-> {}, robbed |-> {}]

Step(d) == dev' = d /\ UNCHANGED <<link, chosen>>

SetSourceMap(s) == \E m \in chosen.maps :
  Step(SetSource(dev, s, [dev.source[s] EXCEPT !.map = m]))
SetSourceVlan(s) == \E v \in chosen.vlans :
  Step(SetSource(dev, s, [dev.source[s] EXCEPT !.vlan = v]))
SetSinkVlan(k) == \E v \in chosen.vlans :
  Step(SetSink(dev, k, [dev.sink[k] EXCEPT !.vlan = v]))

\* avb_talker_on_source_address_reserved of the demo: the source refuses an
\* address while it is on, ACMP is told in either case, and answers from the
\* last source's address on.
Reserved(d, s, a) ==
  [SetSource(d, s, [d.source[s] EXCEPT !.dest = a]) EXCEPT
    !.told[s] = a,
    !.answering = @ \/ s = Max(Source),
    !.moved = IF SourceOn(d, s) THEN @ \union {s} ELSE @ \ {s}]

\* The weak hook of module_avb_1722_maap: the source is started again.
ReservedRestarts(d, s, a) ==
  LET c == SetSource(d, s, [d.source[s] EXCEPT !.dest = a])
      off == IF SourceOn(c, s) THEN SetSourceState(c, s, "DISABLED") ELSE c
  IN  SetSourceState(off, s, "POTENTIAL")

\* A probed range is kept (avb_1722_maap_periodic): the hook is called for every
\* source in turn, the address of each named for the range it is of.
AddressesReserved == \E a \in chosen.addresses :
  LET upto[s \in {0} \union Source] ==
        IF s = 0 THEN dev
        ELSE IF chosen.demo THEN Reserved(upto[s - 1], s, a)
        ELSE ReservedRestarts(upto[s - 1], s, a)
  IN  Step(upto[Cardinality(Source)])

\* avb_talker_on_listener_connect, _disconnect: the last listener has gone.
TalkerConnect(s) ==
  /\ link /\ dev.answering
  /\ dev.source[s].state = "DISABLED"
  /\ Step(SetSourceState(dev, s, "POTENTIAL"))
TalkerDisconnect(s) ==
  /\ link /\ dev.answering
  /\ SourceOn(dev, s)
  /\ Step(SetSourceState(dev, s, "DISABLED"))

\* avb_listener_on_talker_connect, _disconnect.
ListenerConnect(k) == \E id \in chosen.ids :
  /\ link
  /\ Step(SetSinkState(SetSink(dev, k, [dev.sink[k] EXCEPT !.id = id]), k, "POTENTIAL"))
ListenerDisconnect(k) ==
  /\ link
  /\ Step(SetSinkState(dev, k, "DISABLED"))

\* process_aem_cmd_startstop_streaming: whatever the state, and back from ENABLED.
StartSource(s) == link /\ Step(SetSourceState(dev, s, "ENABLED"))
StartSink(k) == link /\ Step(SetSinkState(dev, k, "ENABLED"))
StopSource(s) ==
  /\ link /\ dev.source[s].state = "ENABLED"
  /\ Step(SetSourceState(dev, s, "POTENTIAL"))
StopSink(k) ==
  /\ link /\ dev.sink[k].state = "ENABLED"
  /\ Step(SetSinkState(dev, k, "POTENTIAL"))

\* avb_srp_listener_join_ind with a ready event, avb_srp_listener_leave_ind.
ListenerReady(s) ==
  /\ s \in dev.begun /\ dev.source[s].state = "POTENTIAL"
  /\ Step(SetSourceState(dev, s, "ENABLED"))
ListenerLeft(s) ==
  /\ s \in dev.begun /\ dev.source[s].state = "ENABLED"
  /\ Step(SetSourceState(dev, s, "POTENTIAL"))

\* The CHAN_SEL button of the demo: the sinks that are on are started again.
SelectChannel ==
  LET off[k \in {0} \union Sink] ==
        IF k = 0 THEN dev
        ELSE IF SinkOn(dev, k) THEN SetSinkState(off[k - 1], k, "DISABLED") ELSE off[k - 1]
      on[k \in {0} \union Sink] ==
        IF k = 0 THEN off[Cardinality(Sink)]
        ELSE IF SinkOn(dev, k) THEN SetSinkState(on[k - 1], k, "POTENTIAL") ELSE on[k - 1]
  IN  Step(on[Cardinality(Sink)])

LinkUp == ~link /\ link' = TRUE /\ UNCHANGED <<dev, chosen>>

\* avb_process_control_packet: every source, then every sink.
LinkDown ==
  LET sources[s \in {0} \union Source] ==
        IF s = 0 THEN dev ELSE SetSourceState(sources[s - 1], s, "DISABLED")
      sinks[k \in {0} \union Sink] ==
        IF k = 0 THEN sources[Cardinality(Source)]
        ELSE SetSinkState(sinks[k - 1], k, "DISABLED")
  IN  /\ link /\ link' = FALSE
      /\ dev' = sinks[Cardinality(Sink)]
      /\ UNCHANGED chosen

\* The pending message of an entry is sent; a LeaveAll makes an observer answer.
VlanMessageSent(e) ==
  /\ dev.vlan[e].member = "leaving"
  /\ Step([dev EXCEPT !.vlan[e].member = "out"])
LeaveAllReceived ==
  Step([dev EXCEPT !.vlan = [e \in Entry |->
         IF @[e].active /\ @[e].member = "out" THEN [@[e] EXCEPT !.member = "leaving"]
         ELSE @[e]]])

Next ==
  \/ \E s \in chosen.sources :
       \/ SetSourceMap(s) \/ SetSourceVlan(s)
       \/ TalkerConnect(s) \/ TalkerDisconnect(s)
       \/ ListenerReady(s) \/ ListenerLeft(s)
       \/ StartSource(s) \/ StopSource(s)
  \/ \E k \in chosen.sinks :
       \/ SetSinkVlan(k) \/ ListenerConnect(k) \/ ListenerDisconnect(k)
       \/ StartSink(k) \/ StopSink(k)
  \/ AddressesReserved \/ SelectChannel \/ LinkUp \/ LinkDown
  \/ \E e \in Entry : VlanMessageSent(e)
  \/ LeaveAllReceived

Spec == Init /\ [][Next]_vars

-----------------------------------------------------------------------------
(***************************************************************************)
(* Properties.                                                             *)
(***************************************************************************)

Sending(s) == dev.talker[s].active = 2

\* What a handler switched off stays off in every unit: a DISABLED source is
\* not sent, not advertised and holds no input, a DISABLED sink does not
\* receive and declares nothing.  The states are kept in avb.c, the streams
\* in the talker and listener units, and seven handlers change them.
OffMeansOff ==
  /\ \A s \in Source : ~SourceOn(dev, s) =>
       /\ ~Sending(s) /\ s \notin dev.advertised
       /\ \A i \in Input : dev.mapped[i] # s
  /\ \A k \in Sink : ~SinkOn(dev, k) => k \notin dev.unit \union dev.listening


\* No two sources send the same input, whatever else is switched on and off
\* (avb.c 387-403).  Excepted are the two ways the code has to share one: a
\* source turned on without being configured, by START STREAMING or although
\* its map was taken, sends what it sent before; and it frees the inputs of
\* its map when it is turned off, whoever holds them (avb.c 480-485).
InputFeedsOneStream ==
  \A s, t \in Source :
    s # t /\ Sending(s) /\ Sending(t) /\ Holds(dev, s) /\ Holds(dev, t)
      => dev.talker[s].inputs \intersect dev.talker[t].inputs = {}

\* The VLAN of a running stream is joined, but for the two ways the code has
\* to lose it: no entry was left, or the last stream of the other side on
\* the device left it (avb.c 473-490, 760-779).
VlanOfStreamIsJoined ==
  \A x \in dev.live \ dev.stranded :
    VlanOf(dev, x) # 0 => Joined(dev, VlanOf(dev, x))

\* A source that sends is counted in the bandwidth the traffic shaper was last
\* given, though the count is made before the state changes (avb.c 253-273).
ShaperCountsSenders == \A s \in Source : Sending(s) => s \in dev.shaped

\* The tables of avb.c and of the units are well formed and agree on what is off
\* and, with the traffic shaper, on what sends.
UnitsAgree == TypeOK /\ OffMeansOff /\ ShaperCountsSenders

\* A source sends to the address ACMP tells its listeners, unless MAAP has
\* reserved another one while it was on, which the source refuses and ACMP
\* does not (simple_demo_controller.c 127-145).
AddressIsTold ==
  chosen.demo => \A s \in Source \ dev.moved :
    Sending(s) /\ <<"source", s>> \in dev.live => dev.talker[s].dest = dev.told[s]

\* Packets the router delivers are of the stream the sink is set to, and they
\* miss a sink that receives only for an earlier route of the same stream, which
\* a sink that was turned off has left behind (avb_1722_router_table_simple.c 61-73).
SinkHearsItsStream ==
  /\ \A id \in StreamId : \A k \in Delivered(dev, id) : dev.sink[k].id = id
  /\ \A k \in dev.unit : LET id == dev.sink[k].id IN
       id = NoStream \/ k \in Delivered(dev, id) \/ \E j \in Sink : j < k /\ dev.route[j] = id

\* The stream of a sink that receives is delivered to some sink.
PacketsAreRouted ==
  \A k \in dev.unit : dev.sink[k].id # NoStream => Delivered(dev, dev.sink[k].id) # {}

==============================================================================
