# TLA+ model of the AVB endpoint (sw_avb)

`sw_avb` is the firmware of an Ethernet AVB endpoint on XMOS processors, in C
and XC.  This directory holds TLA+ modules of the parts of it whose correctness
depends on the order of events, the TLC configurations that check them, and
TLAPS proofs.  Paths below are relative to the repository; `avb_mrp.c` and the
like stand for the one file of that name.

    tlc -workers 2 -config MCMaap.cfg MCMaap        # a run
    tlapm MsrpReservation_proofs.tla                # proofs

## 1. The system

One *control thread* runs everything above the wire that is not audio.  It polls
`avb_periodic` (MAAP, MRP, then ADP, ACMP and AECP) and hands each received
control packet to `avb_process_control_packet`; the demo does both at least
every 50 microseconds (`app_simple_avb_demo/src/main.xc`).  Within that thread
nothing is interrupted: a handler or a periodic function runs to its end.  The
talker, listener, audio, media clock and PTP parts are threads of their own,
reached over channels and through FIFOs in shared memory.

| Component | State | Operations | Interacts with | What is hard | What makes it correct |
|---|---|---|---|---|---|
| MRP attributes (`avb_mrp.c`) | per attribute: applicant, registrar, leaveTimer, pending indications; the list of attributes; join and LeaveAll timers | `mrp_mad_begin/join/leave`, `mrp_periodic`, `avb_mrp_process_packet` | MSRP, MVRP; the LAN | lost and crossing PDUs, timers of any phase, indications delivered later than they arise, a list sorted in place and packed into vectors | who declares is registered, who stops is timed out, indications follow the registration, what is packed is what was declared |
| MSRP (`avb_srp.c`) | reservations, domain attributes | join and leave of talker and listener attributes, matching, comparing, packing | MRP below, `avb.c` above | several attributes merged in a PDU; the four-packed event travels beside the attribute | the source streams exactly for registered listeners |
| MVRP, MMRP | VLAN and MAC attributes | join, leave | MRP, `avb.c` | VLANs shared by streams | joined exactly while a stream needs it |
| MAAP (`avb_1722_maap.c`) | one range, its state and timer | request, re-request, relinquish, periodic, packet | the LAN, `avb.c` through a hook | two nodes probe at once, lost probes and defends | no two nodes hold overlapping ranges for long |
| ACMP (`avb_1722_1_acmp.c`) | talker stream tables, listener stream info, inflight lists, three state machines of one packet each | controller commands, periodic functions, received packets | `avb.c` through hooks, ADP, the LAN | retries meet late answers, packets dropped while busy, three parties | connections end up as commanded; tables, sinks and sources agree |
| ADP (`avb_1722_1_adp.c`) | advertise and discovery state, entity database | advertise, discover, timeouts | ACMP, gPTP, the application | one pending slot each way, a full database | entities present are known, those gone are forgotten |
| AECP (`avb_1722_1_aecp.c`) | descriptors, one command | read, set, start and stop streaming | `avb.c` | commands in stream states they do not fit | answers reflect the state |
| Stream control (`avb.c`) | sources, sinks, media, maps, link | state setters, attribute setters, link up and down | every part above, talker and listener units | setters refused while streaming, shared VLANs, link loss | stream state, units and reservations agree |
| gPTP (`gptp.c`) | role, best announce, sync pairing, peer delay, servo | periodic, packets | media clock, talker, listener, audio | master changes between paired messages, timeouts | one master, synchronised slaves |
| Media clock (`media_clock_server.xc`) | clocks, buffer notifications | buffer control, stream info, PLL words | output FIFOs, audio, PTP | requests overlap with FIFO use | fill stays in its window |
| Input FIFO, talker | ring of packets, enable request and indication; stream configuration | push, get, release, enable, configure, go, stop | audio thread and talker thread | two threads without a lock | packets read are the packets written |
| Output FIFO, listener | ring of samples, state, markers, counters | push, pull, maintain, buffer control | listener, audio, media clock | three threads, requests about a FIFO that has changed since | samples play once and in order, at their time |
| Router (`avb_1722_router*.c`) | stream tables | add, remove, look up | ethernet filter | entries never removed; displacement in the hash | a stream is found where it was added |

## 2. The modules

| Module | Models | Kind |
|---|---|---|
| `MrpAttribute` | the two state machines of an attribute: every event of `mrp_update_state`, what is sent and when | operators on an attribute record |
| `MsrpReservation` | one stream: the Listener attribute at a talker and at listener endpoints, `mrp_periodic`, PDUs, and the source and sink states that drive it or are driven | state machine |
| `MsrpReservation_proofs` | its inductive invariants and theorems, that a steady listener is never dropped among them | proofs |
| `MrpPdu` | the attributes of a whole endpoint: their list and its sorting, merging into vectors, three- and four-packed values, splitting into PDUs, and the reader's way back | algorithms driven by a state machine |
| `Maap` | address allocation by several nodes: requests, probes, defends, announces, timers | state machine |
| `Maap_proofs` | what `maap_conflict` computes; types, and that reservations are disjoint and stable | proofs |
| `Acmp` | controller, listeners and talkers with their inflight lists, timeouts and tables | state machine |
| `Acmp_proofs` | that tables, sources, sinks and commands in flight agree, whenever commands are issued | proofs |
| `AvbStreams` | all sources and sinks of a device with units, inputs, VLANs, MSRP attributes, shaper, router and link, and every caller that starts and stops them | state machine |
| `AvbStreams_proofs` | that every handler keeps units, inputs, VLANs, addresses and routes in agreement with the stream states | proofs |
| `Adp` | advertiser, discovery, entity database | state machine |
| `Adp_proofs` | that who is present has one record, which does not expire | proofs |
| `Gptp` | two stations on a link: roles, sync, peer delay | state machine |
| `Gptp_proofs` | roles, of which master the times of a rate are, and that no path delay mixes exchanges | proofs |
| `MediaInputFifo` | the ring of packets between the audio and the talker thread | operators on a FIFO record |
| `TalkerStream` | one talker stream from samples to 1722 packets: audio thread, talker thread, control thread | state machine |
| `TalkerStream_proofs` | that its pointers stay in the buffer and no sample is refused; that the packet being read is whole, packets are consecutive and the talker never waits | proofs |
| `MediaOutputFifo` | the ring of samples between listener and audio thread, its states, markers and requests | operators on a FIFO record |
| `ListenerStream` | one listener stream from packets to played samples: listener, audio thread, media clock | state machine |
| `ListenerStream_proofs` | that reported timestamps are of the sample they were for, if the ring had room for it, and the refinement of `SampleQueue` | proofs |
| `SampleQueue` | the bounded queue an output FIFO promises to be | abstract specification |
| `MC...` | model values and bounds for TLC | |

`MrpAttribute` is used by `MsrpReservation`, `MediaInputFifo` by
`TalkerStream`, `MediaOutputFifo` by `ListenerStream`; `ListenerStream`
implements `SampleQueue`.

### MsrpReservation

`attr[n]` is the `mrp_attribute_state` of endpoint n for the Listener attribute
of the stream: applicant and registrar state, the leaveTimer, pending
indications, and `ready`, the one thing `four_vector_parameter` is compared
with.  `source` and `sink` are the stream states of `avb.c`.  `SourcePotential`,
`SourceDisabled`, `SinkPotential` and `SinkDisabled` are the branches of
`getset_avb_source_state` and `getset_avb_sink_state` as far as they reach the
attribute: note that setting a source to DISABLED leaves the *Talker* attribute
only, so the registration of the listener runs on.  `ReceivePdu` is
`avb_mrp_process_packet`: the LeaveAll of the vector header, then the value.
`Periodic` is one call of `mrp_periodic`, in its order: the LeaveAll timer, the
join timer with its transmission, the indications (Join before Leave, whatever
order they arose in), the leaveTimer, whose indication therefore waits for the
next call.  A call that would change nothing is not a step.

`Tick` advances the clock when every delivery and poll that is due has
happened: polling and the wire take microseconds, ticks stand for 10 ms and
more.  The order of what happens within a tick is free.

Attributes start *Allocated*: registrar IN, the zero of its enum, and not begun,
which is how `mrp_get_attr` leaves the static array.

### MrpPdu

What `MsrpReservation` leaves out: how the attributes of all streams share the
PDUs.  `list` is the linked list of attributes in its order; `SortAttrs` is one
pass of `sort_attrs`, which takes an attribute that is out of place out of the
list and puts it back at the first place that fits, and `Before` is
`attribute_compare` with the compare functions of MSRP and MVRP behind it.  One
pass does not sort every list (2 3 1 becomes 2 1 3); every join period makes
another.  `Wire(events, leaveAll)` is the sequence of PDUs a join period sends if
`events` are the three-packed events the attributes have: one PDU after another
with its messages, vectors started or extended by `encode_...` and merged by
`merge_...`, bytes of three values in base six and four in base four, a new PDU
when the buffer is full.  `Heard` is `avb_mrp_process_packet` on the other side.
The invariants quantify over `events` and `leaveAll`, so the state is the list
and what its order depends on: who has begun, and the streams the ends are set
to.

Two attributes may have no order: two sinks set to the same stream, or the
Talker attributes of a source and a sink with the same number
(`avb_srp.c:499-505` compares the `local_id`, which counts sources and sinks
each from zero, `avb.c:74`, `103`).  Then the list is taken apart and put back at
every join period for ever, and neighbours (`avb_mrp.c:46-48`) are not merged;
what is declared arrives all the same, which `DeclarationsArrive` shows.

### Maap

`addr[n]` is `maap_addr` with its timer.  The addresses of the pool are offsets;
`Mac` keeps the bytes `maap_compare_mac` compares.  Two details of the code
matter and are kept.  The multiplier that `init_avb_timer` sets at the end of
the probing is never reset, so a node that had a reservation probes ten times
more slowly when it asks again (`slow` remembers).  And the first random base is
drawn before the count is stored, from the whole pool, so a range may reach past
its end.  And `Keeps` is `maap_compare_mac` (`avb_1722_maap.c:256-263`) as it is: it
answers 1 as soon as any byte is smaller, so of two addresses such as ..:01:02 and
..:02:01 (`Crossed`) each node takes its own for the lower one.  Such a pair does not
give way to each other's probes; what keeps their ranges apart is the announce that
follows a reservation at once and finds the other one still probing.  `fresh` and
`tied` are history: which nodes reserved since the clock last ticked, and which pairs
did so in one tick and so passed each other's announce.

### Acmp

`party[n]` is the state machine of the controller or of a listener: the packet
waiting for the next poll, the timeout being dealt with, the next sequence id and
the inflight list.  `talker[t]` has the table of listeners, `connection_count`
and the state of the source the hooks drive; `info` and `sink` are the listener's
stream info and the talker its sink is set up for.  Receiving is one action per
role (a packet that finds the state machine busy is dropped, as in the code),
and each state of the periodic functions is one action.  `Query` stands for other
controllers whose GET commands take up a state machine.  The application may issue a
command at any time (the demo's controller does, whenever it discovers a listener);
with `Patient` it waits until nothing is in flight.  Two history variables note what
that leads to: `answered` has the sequence ids of the answers the controller accepted
and no later command overwrote before the poll, `hurried` the listeners that were given
a command while one to them was underway.  The clock counts down
instead of comparing deadlines; the code's counter is 32 bits of 100 ms, its
wrap is out of reach of any run.

Each entity has one role, so a command a party sends is not looped back to
itself, and each talker and listener one stream, as the demo has.  The hooks are
the default ones of `avb_1722_1_app_hooks.c`.

### AvbStreams

`dev` is one record: what `avb.c` keeps of each source and sink (`source`,
`sink`, `mapped`), and what its handlers leave behind in the parts they call:
the talker unit's streams (`talker`), the listener unit's (`unit`), the router
table (`route`), the VLAN entries with their MVRP membership (`vlan`), the MSRP
attributes (`begun`, `advertised`, `listening`), the shaper (`shaped`) and the
address ACMP tells listeners (`told`).  An operation maps the record to the one
it leaves, so handlers that set several streams compose them, in the code's
order.  `SetSourceState` and `SetSinkState` are the whole setters; the actions
are their callers: the ACMP hooks (`TalkerConnect`, `ListenerConnect`, ...), the
MAAP hook (`AddressesReserved`), AECP's START and STOP STREAMING, the MSRP
listener indications, the channel button, the link, and the application's
setters.  Everything runs in the control thread, so each is one step; the
interleaving that matters is that of the callers.  `live`, `stranded`, `moved` and
`robbed` in the record are history, for the properties only (section 3).

What the code does and the model keeps: the shaper's bandwidth is counted before
the new state is assigned (`avb.c:513`); START STREAMING on a DISABLED source
turns it on without configuring its unit; a source or a sink leaves its VLAN
after looking at its own side only; an entry of the router is overwritten and
never removed; the MAAP hook sets the destination before it turns sources off,
so a running one refuses it.

### Adp

`adv` is the advertiser with its state, the grandmaster it knows and its monitor
timer; `discovery`, `records` and `latest` are the discovery state machine, the
`entities` array and the one slot for an entity not reported yet.  One `Periodic`
is one call of both periodic functions.  A message is received whole:
available (known or new entity, or no room), departing, discover.  What is lost
in the single slots is part of the actions: an announce or depart is ignored
unless the advertiser is idle or waiting (`71-94`), a discover unless the other
machine waits (`98-102`), a second new entity overwrites the first (`258`, `265`),
one record is removed in two seconds (`215-233`), a change of grandmaster
overwrites the pending advertise state (`388-400`).  `Unread` is the value of the
variable that is read before it is set (`345`, `358`).

### Gptp

`port[e]` is the server at either end of a link: role, best announce, master,
pending timers, the pairing of Sync and Follow Up (`sync`), of the three
messages of a peer delay (`requested`, `response`), and whose rate has gone into
`g_ptp_adjust` (`adjust`, `prev`).  `Receive` is `ptp_recv` for one message,
`Periodic` one call of `ptp_periodic` that has something to do, in its order.
`BecomeSlave` and its like are `set_new_role`.  A station may be replaced by
another one on the same link, which is how a slave comes to hear two masters.
`set_new_role` clears `adjust` and `prev`, and neither `received_sync` nor its id
(`gptp.c:232-252`, `982-984`): `sync` survives, with the station it came from, and so
`adjust` gets both the sender of the Follow Up and that of the Sync it was paired
with.  History: `missed` notes that a Sync of the master followed was lost since it was
elected; `asked` counts the requests sent since the response that is kept, so that
`delay` tells a Follow Up of the same exchange from one whose wrapped id is the same.

### MediaInputFifo and TalkerStream

`fifo` is an `ififo_t` whose pointers are offsets into `buf`; of each word the
model keeps the data block count of the packet it was written for, which tells
packets apart and old words from new ones.  All FIFOs of a stream are pushed,
read and flushed alike, so one stands for all.  Three threads share it without a
lock:

- the audio thread (`ReadRequest`, `Sample`, `Indicate`: the start, the middle
  and the end of one pass of the loop in `audio_i2s.h`, one pass a *frame*)
  reads the enable request, pushes a sample or empties the FIFO, and indicates;
- the talker thread (`Send`: one `avb1722_create_packet` that returns a packet;
  calls that return 0 change nothing the model keeps);
- the control thread (`Configure`, `Go`, `Stop`: the commands the branches of
  `getset_avb_source_state` send to the talker unit, which serves them between
  two packets).

`wait` counts the frames of `AVB1722_PACKET_PERIOD_TIMER_TICKS` down; as a packet
leaves between two frames, the last of them counts or not.  A packet of the FIFO
is pushed one sample a step, so the talker runs at every point of it; within one
`media_input_fifo_push_sample` the packet becomes visible with the one write of
`startIndex`.  `late` counts the frames in which the talker could have sent and
did not, because other streams, commands or the Ethernet held it up; the code
gives no bound for it, `MaxLate` is one.

### MediaOutputFifo, ListenerStream and SampleQueue

`fifo` is an `ofifo_data_t`: buffer, read and write pointer, state, zero flag and
zero marker, marker with its two timestamps, counters and `media_clock`'s
bookkeeping.  The listener thread unpacks a packet (`Unpack`, then one
`PushSample` a step and `EndPush`, which publishes the write pointer and
maintains the FIFO), learns the channel count (and learns it anew when a packet has
another), obeys `Configure` and
`Deconfigure`, and serves the media clock's requests between two packets.  The
audio thread runs beside it: a pull is two steps, `BeginPull` that reads the
pointer and `EndPull` that writes it back, and anything the listener does can
come between, an enable or an adjustment of the fill included.  `talk` is the one
conversation with the media clock that `notified_buf_ctl` allows: new stream,
info, and the answer to adjust, reset or leave the FIFO alone.  What the clock
decides on a difference inside its window depends on counters of its own
(`stable`, `ripe`): left open.

A packet's timestamp is for a sample k from its first one on, k less than
`syt_interval` (`avb_1722_listener_support_audio.c:151-173`), so it may be one of the
next packet's; nothing is compared with the length of this one or with the room in the
ring.  `SytInterval` bounds it.  `time_since_last_notification` is `unsigned`
(`media_output_fifo.c:162`), as `IsDue` has it: a count that starts again below the
time of the last report makes the difference large and the report due at once.
A packet whose data block counter has not moved, or that has no predecessor to compare
with, is ignored by the code and no step.  `stamp` is history: which sample the
timestamp was for, whether the ring had room for it, and which one was timed.

`SampleQueue` says what a user may rely on, without pointers: a bounded queue of
samples that arrive in packets, is cut or filled only while muted, and plays
silence when empty.  The refinement mapping

    Queue == INSTANCE SampleQueue WITH mode <- Mode, queue <- ..., held <- ..., input <- ...
    PlaysInOrder == Queue!Spec

takes `queue` to be the ring from `dptr` to `wrptr`, `held` what of a packet is
written and not yet published, `input` what is left of it, and `mode` "live" when
the zero flag is off, "settling" while a pull that began before an enable or an
adjustment is still to write its old pointer back.

## 3. The runs

| Run | Instance | Shows |
|---|---|---|
| `msrp` | 1 listener, LeavePeriod 4, JoinPeriod 1, LeaveAllPeriod 6 ticks, 1 lost PDU | 204 021 states: the stream state follows the registration, a steady listener is kept, streams start (nothing lost) and stop (whatever was lost) |
| `msrp_crossed` | the same | *violation*: after a loss a stream may wait in POTENTIAL for ever |
| `mrp_pdu` | 1 source, 4 sinks, the domain and a VLAN, two assignments of streams, one sink set to another stream | 4 077 states, and in each every pattern of events, with and without LeaveAll: the list is never damaged, what is packed is read as it was declared, neighbours share vectors, the list gets sorted |
| `maap` | 2 nodes, one with the lower MAC address, pool of 4, ranges of 2, 1 repeated call, 1 loss | 148 795 states: ranges disjoint and stable unless a packet was lost, duplicates given up |
| `acmp` | 2 talkers (one refuses), 2 listeners, 4 commands, 2 faults, a controller that waits for its answers | 543 196 states: tables, sinks, sources and commands in flight agree; commands take effect; every command ends |
| `acmp_twice` | 1 talker, 2 listeners, no faults | *violation*: a listener takes two slots |
| `streams` | 2 sources, 2 sinks, 2 inputs, 2 VLAN entries; six scenarios of use | 1 095 246 states: what is off is off in every unit; inputs, VLANs, addresses, shaper and router agree with the stream states |
| `adp` | 2 other entities, database of 2, valid time of one unit, 2 calls, link changes or commands | 257 196 states: who is present is recorded, who has gone is forgotten, what the entity says of itself becomes true |
| `gptp` | 2 of 3 stations, one replaced, any message lost; announce with sync, or with the peer delay exchange | 1 000 704 states: roles are sound, path delays do not mix exchanges, rates mix masters only after a loss, stations agree in the end |
| `talker` | 48 kHz: buffer of 64 words, 8 samples a FIFO packet, 6 on the wire, talker up to 7 frames late | 897 381 states: packets read are whole, consecutive and fresh; the talker never blocks; an enabled stream sends |
| `output` | ring of 4 samples, packets of 2, timestamps up to 3 samples ahead, differences of -1 and 3 | 4 844 756 states: while it plays, the FIFO implements `SampleQueue`; reported timestamps are of the sample they were for, if it had room |
| `output_live` | ring of 3 samples, packets of 1, counters modulo 4 | 826 017 states: zeroing ends, and a FIFO that waits to be locked is reported |

**Bounds.**  `msrp`: the repository's periods are 20 (join), 60 (leave) and 1000
(LeaveAll) hundredths of a second.  The instance keeps their order and leaves
room for several join periods in a leave period; the initial phases of all timers
are free.  One lost PDU is enough for a Leave, a New or a LeaveAll to go missing;
what a second loss could add is covered by the proofs, which put no bound on
losses or listeners.  One listener is also what a link has: AVB links are
point-to-point, so what the talker hears on the Listener attribute comes from
the one bridge port at the other end.

`mrp_pdu`: five Listener attributes of consecutive streams cross the boundary of
three in a three-packed byte and of four in a four-packed one.  `BufferSize` is
200 instead of 500, so that PDUs split with twelve attributes.  The ends of
`Early` begin before the first join period, the others at any time; a change of
one stream id makes a tie.  The three `Patterns` give every attribute every event.

`maap`: a pool of twice the range makes conflicts the normal case and leaves a
free range to move to.  One repeated call makes a node a slow prober, which another may
overtake; with two (`MaxCalls = 2` under `Spec`, 718 764 states), after which a slow
prober can cost another node what that has reserved, and with `Mac <- CrossedMacs` the
safety properties hold as well, but the liveness property takes too long to be checked
there every time.

`acmp`: a table of two slots for two listeners can be exactly full; four commands are
connect and disconnect of both; two faults defeat one command's two tries; the inflight
list of one is the default configuration.  The timeouts keep the one relation that
matters: both tries of a listener end within the first timeout of a controller.  With
`Patient = FALSE`, three commands and one fault `TablesAgree` and `SinksAreServed` hold too (4 255 768 states, under `Spec`); as the
theorems about them leave `Patient` open, the run has the instance in which
`CommandsTakeEffect` is true.

`streams`: a `Scenario` names the streams in use and the maps, VLANs, ids and
addresses chosen from, so that each run of the device combines some kinds of
conflict: maps that overlap or are empty; more VLANs than entries; a source and
a sink on one VLAN; two sinks on one stream or on two; the demo's MAAP hook or
the default one.  Two of everything is what a conflict takes.

`adp`: two other entities fill a database of two; with a valid time of one unit
both can expire in one unit and only one can be removed.  `MaxEntities` below the number of
entities leads to `missed`, which the property excludes.  `gptp`: three stations of which two have the same
priority; one replacement is what brings a second master; sequence ids modulo 2
instead of 2^16 make old and new messages look alike far more easily than in
the code.  The link carries either the messages of the master or those of the
peer delay besides announces, since the two exchanges share no state but the
role.

`talker`: sizes and rate are those of the code at 48 kHz.  Seven frames (146
microseconds, summed over the life of a stream) is the most lateness the ring of
64 words absorbs: with `MaxLate = 8`, `HeldPacketIsWhole` fails, because nothing
but the timing keeps the audio thread off the packet being read (the guard of
`media_input_fifo_push_sample` never holds, `PushesAreAlwaysStored`).  It is also
the most the theorems allow (`KeepsUp`, section 5).  A hasty
stream (below) is not held up at all, `Bound`.  Rates whose wire packets differ
in size (44.1 kHz) are not run: the sizes average out only over time, which the
model has no bound for.  `DbcMod` is larger than what the ring holds, so counts
do not recur in it.

`output`: a ring of four holds one packet and a half, so it fills, empties and
wraps within two packets; a `SytInterval` of three lets a timestamp be for either
sample of its packet or the first of the next.  The differences are one that moves the write pointer
forward and one that moves it back past the reader.  Both runs report at every
chance (`Period = 0`); with `CountMod = 4` the count of samples soon falls below the
time of the last report, by itself or because the FIFO was enabled again, which is what
`UnlockedIsReported` is about.  `output_live` is as small as liveness allows: two samples
in the ring, one in a packet.  `Packet` is one number, though at 44.1 kHz packets of
five and six samples alternate.

**Fairness.**  `FairSpec` assumes that the clock runs, that every control loop
keeps polling, and that a packet that is not lost arrives (the number of losses
is bounded).  The first two are the demo's control loop, which never blocks.
`TalkerStream` assumes that the audio clock runs and that the talker polls its
streams, which is the default case of its select.  `ListenerStream` assumes that
the audio thread pulls, that the listener finishes a packet, that requests of the
media clock are served although packets keep it busy (its select is ordered, and
the requests come before packets: strong fairness), that packets with
timestamps keep coming, and that a talker that keeps its number of channels for a while
has it learnt (`SF` of each step of `Learn`: the packets that would start it anew do not
come for ever).  `Adp` assumes that both machines are polled, that its
timers expire (strong fairness, since an expiry can be overtaken by another
change), and that an entity that is present advertises itself within its valid
time, which is what the valid time means.  `Gptp` assumes that its server serves
packets and its timer, and that time goes on; `StationsAgree` claims nothing
unless losses and replacements stop.  `MrpPdu` assumes that `mrp_periodic` is
polled.  Nothing is assumed of the application: it may never call, or stop
calling.

**Exceptions in the properties** are behaviours of the code, each with a history
variable that marks it:

- `staleJoin`: `mrp_mad_begin` does not clear pending indications, so a Join
  pending while a source is restarted makes it ENABLED with no registration left.
- `crossed`: a Leave was delivered together with a later Join
  (finding `msrp_crossed`).
- `Tied` (`MrpPdu`): two attributes without an order, see above.
- `slow`: see Maap above.  A slow prober can be overtaken by a later fast one, so
  both reserve; the announces repair it, and take the range from one of the two.
  So a node is made to give up what it has reserved only where it or the node it
  yields to is slow.
- `Crossed` (`Maap`): two nodes that both take their address for the lower one and
  that reserve in one tick (`tied`) keep what they share, for ever
  (`DuplicatesAreResolved` excepts them whether tied or not).
- `hurried` (`Acmp`): a listener given a command while one to it was underway.  Two
  exchanges then share its one buffer and its talkers', and sink and slot may disagree.
  `answered` leaves out an answer
  that a later command overwrote before the poll (`avb_1722_1_acmp.c:305-311`): that
  command is sent again.
- `twice`: the table gave a listener two slots (finding `acmp_twice`).
- `Unknown`: a listener sets its sink up whatever status the talker's answer has
  (`avb_1722_1_acmp.c:992-999`), so it may listen to a talker that refused.
- `robbed` (`AvbStreams`): a source that does not hold the inputs it sends.  Either it
  was turned on without being configured, by a map that is not free (`avb.c:387-403`)
  or by START STREAMING, or its inputs were freed by such a source going off.
  `InputFeedsOneStream` says that nobody else is harmed.
- `stranded`: a stream found no VLAN entry, or the last stream of the other side
  left its VLAN (`avb.c:473-490`, `760-779`).
- `moved`: MAAP reserved another address while a source was on; the source refuses
  it and ACMP tells it to listeners all the same.
- `missed` (`Adp`): the database had no room for the entity, or was emptied since.
  `flushed`: it was emptied between finding an entity and reporting it.
- `hasty`: a stream was configured or started while the audio thread had not yet
  indicated that it stopped.  `media_input_fifo.h:146-149` asks the talker to
  check; `start_stream` does not, and only the pace of the control loop (two
  frames are 42 microseconds at 48 kHz, a poll is 50) makes it rare.
- "settling" and "muted" (`SampleQueue`): the sample fetched while the FIFO is
  changed under the audio thread may be any; a muted FIFO promises silence only.
  `Idle` is the one assumption on speed: while one pull is under way, a dozen
  instructions, the listener does no more than one thing.
- `room` (`ListenerStream`): a timestamp that comes when the ring has no room for its
  sample marks another one, see section 4.
- an earlier route (`AvbStreams`): a sink is not given its stream if a sink of a lower
  number is in the table with the same stream id, see section 4.
- `missed` (`Gptp`): a Sync of the master followed was lost since it was elected; the
  one kept from the master before may then be taken for it, see section 4.
  Unless that happens the new master's own Sync replaces it before a Follow Up comes.
- "wrapped" (`Gptp`): a response is kept while as many requests as there are sequence
  ids (2^16 in the code) go out and no response to any of them comes; the next Follow Up
  then has its id by chance.

## 4. Findings

Two runs show that the code does not do what a comment or document of the
repository says.

1. **`msrp_crossed`** (`avb_mrp.c:1018-1038`).  A lost New lets the leaveTimer of
   the talker expire; the re-sent declaration arrives before the next poll; that
   poll delivers the Join, which `avb_srp_listener_join_ind` ignores because the
   source is still ENABLED, and then the Leave, which sets it to POTENTIAL.  The
   registrar is IN and stays there, so no later declaration is indicated.
   `avb_api.h:188-190` promises that the source "will automatically change to
   ENABLED when connected to a listener".
2. **`acmp_twice`** (`avb_1722_1_acmp.c:533-549`).  The search for the listener
   stops at the first empty slot.  The listener then holds two slots, one
   DISCONNECT frees one, and the talker streams on to nobody.
Further divergences the models show with another constant or invariant:

- `media_output_fifo_set_ptp_timestamp` (`media_output_fifo.c:82-108`) marks the place
  the sample is to be written to without asking whether the ring has room;
  `media_output_fifo_strided_push` (`260-270`) drops what does not fit.  The mark is then
  on a sample that is in the ring already, and the time that one is played is reported
  with the presentation time of the dropped one, though `ptp_ts` "Contains the PTP
  timestamp of the marked sample." (`media_output_fifo.h:38`).  As an invariant of
  `MCListenerStream.cfg`, `MarkIsForItsSample` fails.
- A change of master is to "Reset synotization variables" (`gptp.c:240`), and
  `received_sync` (`gptp.c:982-984`) is not among them.  A Sync of the old master whose
  Follow Up was lost is paired with the Follow Up of the new one (`1019-1045`), if the
  new one's Sync was lost and the sequence ids are equal.  As an invariant of
  `MCGptp.cfg`, `RateIsNeverMixed` fails.
- A sink that is turned off keeps its entry in the router
  (`avb_1722_router_table_simple.c:61-73`), and the first entry with a stream id gets its
  packets.  A sink of a higher number that is set to the same stream afterwards is on,
  listens and receives nothing, though packets are to be routed "to the listener
  components in the system" (`doc/mac.rst:45`).  As an invariant of `MCAvbStreams.cfg`,
  `PacketsAreRouted` fails.
- Of two nodes whose addresses `maap_compare_mac` both calls the lower one, both keep
  what they reserved in the same tick: with
  `Mac <- CrossedMacs` in `MCMaap.cfg`, `ReservationsAreDisjoint` fails without its
  exception `Crossed`, and so does `DuplicatesAreResolved`.
- A controller command issued before a response was polled overwrites the sequence
  id the answered command is to be found by (`avb_1722_1_acmp.c:305-311`,
  `347-356`); it stays in flight, is sent again and ends in a timeout.  With
  `Patient = FALSE` in `MCAcmp.cfg`, `CommandsTakeEffect` fails.
- `acmp_add_talker_stream_info` adds nothing when the table is full and has no way
  to say so (`avb_1722_1_acmp.c:527-550`); the talker answers SUCCESS all the same.
  With `MaxSlots = 1` in `MCAcmpHasty.cfg`, `SinksAreServed` fails: the second listener
  plays a stream that stops when the first one leaves.
- A talker stream starts when the FIFO holds `MEDIA_INPUT_FIFO_SAMPLE_FIFO_SIZE/2`
  (`avb_1722_talker_support_audio.c:163-167`), which compares samples with words.
  At 8 kHz a packet has one sample in three words, so a buffer of 128 words holds
  41 samples and the level of 64 is never reached: with `Size = 128`,
  `Samples = 1`, `WireSamples = {1}`, `StreamTransmits` fails.
- `media_input_fifo_enable` serves 192 kHz (`media_input_fifo.c:79`) with packets of
  34 words, of which a buffer of 128 words (`media_input_fifo.h:16`) holds three.  The
  stream starts with two, and when the third is complete the start pointer is at the
  read pointer: the ring counts as empty, and the audio thread goes on into the packet
  the talker reads.  With `Size = 128`, `Samples = 32`, `WireSamples = {24}`,
  `Period = 24`, `DbcMod = 256`, `HeldPacketIsWhole` fails for a talker that is never
  late (`MaxLate = 0`).

And divergences met in the reading, outside what a property states:

- A slave-only gPTP server (`PTP_SLAVE_ONLY`, `doc/ptp.rst:24`) becomes MASTER all
  the same: role changes do not look at the capability (`gptp.c:1095-1130`).
- The VLAN setter (`avb_api.h:165`) changes `avb.c`'s record and never the talker
  unit's: no code sends `AVB1722_SET_VLAN` (`avb_1722_talker.xc:195-198`,
  `avb.c:356-371`).
- `getset_avb_sink_format` checks its argument against `AVB_NUM_SOURCES`
  (`avb.c:603`), and `getset_avb_source_map` indexes twice (`avb.c:534`).
- `avb_1722_1_adp_depart` is to "stop advertising" (`adp.h:30`); the test at
  `avb_1722_1_adp.c:379` looks at a constant, so the entity always advertises
  again.
- ADJUST on a FIFO that was disabled meanwhile makes it LOCKED, with sound
  (`media_output_fifo.c:313-330`); RESET on one leaves it ZEROING.
- AECP's CONTROLLER_AVAILABLE exchange cannot complete: the answer of the
  acquiring controller is compared with the challenger's guid and addressed to a
  guid that is not this entity's (`avb_1722_1_aecp.c:85-95`, `730-731`, `752`).

## 5. The proofs

The `..._proofs` modules hold for every value of the constants that the `ASSUME`s
of the models allow; TLC evaluates these on every run.  What a theorem needs
besides is a hypothesis of its own, named below.  Hardly any property is inductive
as it stands; each proof states the invariant that is, shows that it holds at
first and that every action keeps it, and derives the properties from it.  The
proof that a step keeps it has one lemma per action, resting on lemmas about the
operators the action is built from.

**`MsrpReservation_proofs`**, for every set of listeners, all timer periods and any
number of losses.  The invariant is

    IInv == TypeOK /\ AttrsInv /\ SourceInv

`AttrsInv` says of each attribute that its leaveTimer runs exactly in LV
(`LeaveTimerRunsInLv`), that a pending Join comes with READY, and that a pending
Leave is what an empty registrar can have left: without that, the LEAVETIMER
event could overwrite the four-packed event of a Join still pending.  It is
proved per attribute, from lemmas that say what each operator of `MrpAttribute`
keeps (`RegisterJoinKeeps`, `StartLeavingKeeps`, ...), and lifted to the actions
in `AttrsStep`.  `SourceInv` relates `source` to the talker's attribute and is
proved on top (`SourceStep`); its heart is `IndicationsKeep`, one call of
`mrp_periodic` with Join and Leave pending in any combination.  From `IInv`
follow `AttributesAreAlwaysSound` (types, leaveTimers and pending Joins),
`StreamingIsAlwaysRegistered` and `RegisteredIsAlwaysStreaming`.

`SteadyListenersAreNeverDropped` is about time: on a network that loses nothing no
listener that subscribed more than a leave and a join period ago is still asking
when the talker's leaveTimer expires, whoever sent the LeaveAll.  Its invariant, `RolesInv /\ AllServed`, adds to the above
the states in which a listener that asks sends by itself at its next
transmit opportunity (`Prompt`), and an account of how far the talker's
leaveTimer can have run: the declaration is due within a join period, or already
under way (`Served`, `InTime`).  The number of listeners does not matter.
Another's JoinIn makes an endpoint that only listens passive, and two of them
together could have silenced a third; but in `mrp_update_state` the case of
MRP_EVENT_RECEIVE_JOININ runs on into that of RECEIVE_IN and RECEIVE_MT, by which
AP stays AP, and so a listener that asks does not become quiet before it has sent.
The hypothesis `TimersApart` is that the leave period is longer than three join
periods and the LeaveAll period longer than two; the code's are 80, 20 and 1000
centiseconds (`avb_mrp.h:152-156`).  It is close to the least: with a leave
period of two and a half join periods TLC finds a listener dropped.

**`Maap_proofs`**, for any nodes, pool, intervals, calls and losses.
`ConflictIsOverlap` and `ConflictRangeIsIntersection` say what `maap_conflict`
computes.  The invariant is `Phases /\ (losses = 0 => Lossless)`.  `Phases` are the
types and the counters of each node (a prober's timer never exceeds its interval,
who has sent no probe is about to); `TypeIsInvariant` needs no more.  `Lossless`
says what is true while nothing was lost:

- `ProbersWait`: nobody sends the next probe before the last one has arrived;
- `ToldWait`: nobody reserves what somebody else said to have;
- `PairsFit`: of two nodes whose ranges overlap, with n the one that keeps its
  range, not both have reserved; and in each combination of their states either
  the probe or the answer that will settle it is on its way, or one of them has
  sent none yet, or m's last probe is further away than n's next one.

- `TiesFit`: the same of two nodes each of which keeps its range.  Nobody gives way
  to a probe, so what has to be on its way is the announce or the answer of the one
  that has reserved; the other can only come to its last probe before it arrives if the
  first reserved since the clock last ticked (`fresh`), which makes them `tied`.

The last alternative of `PairsFit` is where time matters: m must not come to its last
probe in the interval in which n has drawn its base and not sent anything.  That is the
one hypothesis, `ProbingOutlasts`: all probes but one take longer than one interval with
its variation; the code's take 2 x 500 ms against 600 ms.  Of the MAC addresses nothing
is assumed but that they differ.  `ReservationsAreAlwaysDisjoint`, with the exceptions
`slow` and `Crossed` with `tied`, and the action property `ReservationsAreAlwaysStable`,
with the exception `slow`, follow.

**`Acmp_proofs`**, for any number of talkers and listeners, of commands and of faults.
The proof has three layers, and none assumes anything of the application: commands are
issued at any time, to any listener.

- `TablesInv`: types, the agreement of each talker's slots, count and source, that a
  timeout is dealt with before the next packet, and that `twice` notes every double
  slot.  It gives `SourceAlwaysRunsForListeners`.
- `AgreesInv`: the commands in flight have ids of their own, smaller than the next one
  (`IdsDiffer`, `AnswersFit`), and of those whose answer was accepted only the one the
  buffer holds is still among them.  This gives `TablesAlwaysAgree`.
- `ServedInv`: what a listener has is about itself (`Addressed`), and for each listener
  that is not `hurried`, `Exchange(l)` and `Served(l)`.  `Exchange(l)` says that one
  command to l is in flight at most, that one packet about l is under way or being dealt
  with anywhere (`Lone`), and that it stands for what controller and listener have in
  flight, a talker's answer to a CONNECT for a slot it has given (`AllFit`); that the
  controller waits longer than the listener, second try included, and that a listener
  which asked a talker to forget it plays nothing (`AskedFits`).  It is kept listener by
  listener: a step about another one carries the packets about l along (`Carried`),
  whatever else it sends, and a step about l puts one packet in the place of the last
  (`Replaced`).  A command to l makes it hurried unless nothing about l is underway.

`SinksAreAlwaysServed` follows from the third under two hypotheses.  `InTime`:
both tries of a listener end before the first of the controller, in the code 2 x 20
units against 45 to connect and 2 x 2 against 5 to disconnect
(`avb_1722_1_acmp_inflight_timeouts`).  `RoomForAll`: a talker has a slot for every
listener (`AVB_1722_1_MAX_LISTENERS_PER_TALKER`, 4 unless configured), so that a
listener that has none finds a free one (`FreeSlot`, a pigeonhole argument); with a
full table the property fails (section 4).

That commands take effect (`CommandsTakeEffect`) is model-checked only, and only for a
controller that waits for each command to end: the code's own controller does not wait,
and then it fails (section 4), so there is no theorem about it.

**`AvbStreams_proofs`**, for any number of sources, sinks, media, VLANs and
addresses.  An operation maps the record `dev` to the one it leaves, so the
invariant is a predicate on such a record, `Sound(d)`: what is off is off in
every unit; an input is mapped to a source that is on and has it in its map; a
source that sends is in the shaper's sum; a source that is configured and not robbed
has the inputs of its map, and they are what it sends; the VLAN of a configured stream
is joined, unless stranded; a VLAN has one entry; a sink that receives has its route.
Each setter takes a sound device to a sound
one, and handlers that set several streams in turn keep it by induction over the
streams (a least stream at which it were lost).  All five properties of the run
follow.

**`Adp_proofs`**.  To the property itself the invariant adds that the record of an
entity that is present outlasts the time the entity has left to advertise itself
(`RecordLasts`), and that the entity to be reported still has its record.  So the
expiry search never takes away somebody present (`PresentEntityNeverExpires`),
which `DatabaseIsAlwaysSound` rests on.

**`Gptp_proofs`**, without further hypotheses.  The invariant says per end that a
slave follows a better clock whose announce was heard within the timeout
(`RoleInv`), that a message is of the clock it announces, and that all messages of
a peer delay under way belong to the exchange last begun (`ExchangeInv`), for answers
come within the period of the requests: nothing of an earlier one is on the link to be
taken for it.  A response may be *kept* from an earlier one, and `AskedInv` says how
many requests ago that was, modulo the ids, as long as they have not wrapped; that is
why a Follow Up with its id is of the same exchange unless `delay` is "wrapped".
`SyncInv` is what `RateIsAlwaysOfOneMaster` rests on: every Follow Up on the link comes
right behind a Sync of its sender (`Paired`), so when one of the master followed is
next, the Sync that is kept is of that master too, unless one of its Syncs was lost
(`missed`).  `Better` is asymmetric (`BetterIsAsymmetric`), which is why no two slaves
follow each other.

**`TalkerStream_proofs`**, for every size of buffer and packet.  The first invariant adds
to the types that `rd` and `start` are places where a whole packet fits before
the end of the buffer, at multiples of the packet size (`Slot`, `OnGrid`), and
that nothing is pushed or sent before the FIFO is configured.  Writes through
`wr` then stay in the buffer (`RingIsAlwaysSound`); and since two places of a grid
are a packet apart (`GridGap`), the guard against a full ring is never true
(`PushesAreAlwaysStored`).

The rest rests on timing.  `KeepsUp` is the hypothesis: a packet on the wire takes at
least the samples that come in `AVB1722_PACKET_PERIOD_TIMER_TICKS`; the level at which
a stream starts is two packets or more; and that level, in whole packets, and the
lateness together are less than all places of the ring but one hold.  It is met at
48 kHz with 64 words and `MaxLate` up to 7 frames (32 + 7 < 40), and at 88.2 and 96 kHz
with 128 words and up to 31 (64 + 31 < 96); not at 44.1 kHz, where a packet of five
samples takes less than a period of six frames, and not at 192 kHz, where the property
fails (section 4).  The second invariant, `TimelyInv`, has three parts:

- `Ring`: from the read pointer to the packet being written there are whole packets,
  each with one data block count in all its words and the next one's larger by
  the samples of a packet.  `PushFills` and `ReleaseMoves` say what a sample and a
  release make of it, `FillLevelCounts` that the loop of
  `media_input_fifo_fill_level` ends and returns the samples between the two
  pointers: that it ends from wherever it begins takes a closed form for words off
  the grid too (`LevelRecurs`), and its value an induction over the packets that
  remain, as a least counterexample (`SetInduction`).
- `ThreadsInv`: what the control, audio and talker threads may believe of one
  another; a stop that was noticed has left the FIFO clean.
- `Starting` and `Flowing`: the account of samples.  What is left of the packet
  being read, what was pushed behind it, and what will come before the talker may
  send again, is never more than the stream started with and the talker was late for.

So a push never completes the packet before the one being read
(`HeldPacketIsAlwaysWhole`), a packet is there whenever the talker has checked for
it (`TalkerNeverHasToWait`), the next one is the successor of the last
(`PacketsAreAlwaysConsecutive`), and a stream begins at word 0 with count 0
(`StreamsStartAfresh`).  All four leave out streams that are `hasty`.

**`ListenerStream_proofs`**, for every ring with room for two packets.  The invariant
is that a pull nothing has disturbed is at the head of a ring that is not empty,
that what is written and not yet published fits behind what is published, that
the FIFO is heard only when locked, and where a sample whose timestamp is awaited
can be, if the ring had room for it: in the ring, or among those still to be written, of
this packet or of the next (`MarkIsAwaited`).  `InfoIsAlwaysOfOneSample` follows, for
a `SytInterval` of at most two packets (`ListenerAssumption`; the code's are 1 or 2
for packets of as many samples, 8 for packets of 4 to 6, 16 for 11 and 12).  `AlwaysPlaysInOrder` is
the refinement: the initial states map to initial states of `SampleQueue`, and
each step to a step or a stutter, one lemma per action (`BeginPullMaps`,
`PushSampleMaps`, ...), on lemmas about the part of a ring between two places
(`PartJoin`, `AheadAdds`).  The steps a mode change hides are stutters of a
muted queue.  `Idle` (section 3) is part of the guards.

**What the assumptions say.**  Parameters have their types; sizes and periods are
not zero; a ring holds two packets (`MediaOutputFifo`) or a packet and its header
(`MediaInputFifo`); MAC addresses have one length and differ; a pool is larger
than a range; stations have their own identities; there is a talker and a
listener; the values that stand for "none" are not among those they are to be
told from.

**Only model-checked**:

- that commands take effect (`CommandsTakeEffect`), see above;
- everything temporal (`StreamStartsUnlessLost`, `StreamStops`,
  `ListIsSortedInTheEnd`, `DuplicatesAreResolved`, `CommandsEnd`, `GoneIsForgotten`,
  `RejoinIsAnnounced`, `GrandmasterIsAnnounced`, `StationsAgree`,
  `StreamTransmits`, `UnlockedIsReported`): liveness under fairness is outside the prover;
- the algorithms of `MrpPdu`: what a fold or a recursive function computes for
  every input needs induction over data, which is outside it as well.

## 6. Not modelled

- MMRP: no application compiles it in.
- AECP: descriptor read-out, packet layout, address access and ACQUIRE_ENTITY,
  whose exchange cannot complete (section 4).  START and STOP STREAMING are part of
  `AvbStreams`.
- Drivers: I2S, TDM, codec and clock chip I/O, whose timing is the hardware's.
- Arithmetic of filters: gPTP rate and offset on timestamps and the clients'
  conversions (`local_to_epoch_ts` is off by one where the counter wraps,
  `gptp.c:887`, which no module sees), the media clock's recovery of the word clock.
- `MrpPdu`: Talker Failed attributes, unused slots, the bytes of headers and
  values wider than the model's, forwarding between two ports.  A `char` is
  unsigned, as the XMOS compilers have it.
- `AvbStreams`: setters of format, rate, synchronisation and channels, which only
  record their value while a stream is off; the marshalling of `avb_api.c`.  That
  `stream id`s use a source's number within its unit, so that two talker units
  would send the same ids (`avb.c:74-75`), needs a second unit.  ACMP's tables
  outlive the link (`avb.c:917-1000` disables streams and tells ACMP nothing): the
  module lets ACMP call in any state and states no property about its tables.
- `Acmp`: `disconnect_all` calls, invalid ids at a listener, several streams per
  entity.
- `Gptp`: more than two stations; the identity of a clock keeps its priority.
  A response's Follow Up that is more than a second late, after the next request
  was sent, is not delivered (messages cross before the clock ticks).
- Talker and listener units: several streams of one unit, several channels of a
  stream, video.  In `ListenerStream` samples of a packet are told apart from each
  other and from those played already, and volume is left out.  A rate the table of
  `avb_1722_listener_support_audio.c` does not name (24, 176.4 and 192 kHz) leaves
  `syt_interval` uninitialised when it is read (line 171): the model has the rates the
  table names.
- The hash router, which no application selects.

## 7. Plan

In this order:

1. `TalkerStream`: several streams taking turns in one talker unit.
2. `Acmp`: refinement of a set of connections; several streams per entity, and
   its composition with `AvbStreams` over a link that goes down.
3. `RouterTable`: the hash against a plain set.

Runs stay below five minutes each; bounds grow until a case a property names
happens, and not further.
