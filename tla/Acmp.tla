-------------------------------- MODULE Acmp --------------------------------
(***************************************************************************)
(* Connection management, IEEE 1722.1 ACMP (avb_1722_1_acmp.c).  A         *)
(* controller asks a listener to connect to a talker (RX command), the     *)
(* listener asks the talker (TX command) and answers the controller when   *)
(* the talker has answered.  Controller and listener keep the commands     *)
(* they sent in a short list and send each once more if no answer came.    *)
(*                                                                         *)
(* Every role is a state machine with room for one packet: one that        *)
(* arrives while the packet before it waits for the next poll is dropped.  *)
(* The roles belong to different entities here, so the copy of a command   *)
(* that acmp_send_command hands to its own entity finds nobody.  Talker    *)
(* and listener have one stream each, as in the demo.  Polling and         *)
(* delivery take microseconds, the timeouts 200 ms and more: the clock     *)
(* ticks when nothing is left to do.                                       *)
(***************************************************************************)
EXTENDS Integers, Sequences, FiniteSets

CONSTANTS Talkers, Listeners, Controller,
          Unknown,      \* talkers whose commands name a source they do not have
          None,         \* no talker, no listener, no command
          MaxSlots,     \* AVB_1722_1_MAX_LISTENERS_PER_TALKER
          MaxInflight,  \* AVB_1722_1_MAX_INFLIGHT_COMMANDS
          TxTimeout, RxTimeout,  \* avb_1722_1_acmp_inflight_timeouts, in ticks
          Patient,      \* whether the application waits for a command to end
          MaxCommands,  \* bound on the calls of the application
          MaxFaults     \* bound on packets lost and GET commands of others

Operation == {"CONNECT", "DISCONNECT"}

\* avb_1722_1_acmp_inflight_command.  original: original_sequence_id.
Inflight == [op : Operation, talker : Talkers, listener : Listeners, seq : Nat,
             original : Nat, retried : BOOLEAN, timer : Nat]

ASSUME AcmpAssumption ==
  /\ Talkers # {} /\ Listeners # {}
  /\ IsFiniteSet(Talkers) /\ IsFiniteSet(Listeners) /\ Unknown \subseteq Talkers
  /\ Talkers \intersect Listeners = {} /\ Controller \notin Talkers \union Listeners
  /\ None \notin Talkers \union Listeners \union Inflight
  /\ MaxSlots \in Nat \ {0} /\ MaxInflight \in Nat \ {0}
  /\ TxTimeout \in [Operation -> Nat \ {0}] /\ RxTimeout \in [Operation -> Nat \ {0}]
  /\ Patient \in BOOLEAN
  /\ MaxCommands \in Nat /\ MaxFaults \in Nat

Nodes == Talkers \union Listeners \union {Controller}
Slot == 1 .. MaxSlots
Index == 1 .. MaxInflight

Status == {"SUCCESS", "TALKER_UNKNOWN_ID", "LISTENER_EXCLUSIVE", "NOT_CONNECTED",
           "LISTENER_TALKER_TIMEOUT"}

Packet == [op : Operation \union {"GET"},
           kind : {"RX_COMMAND", "TX_COMMAND", "TX_RESPONSE", "RX_RESPONSE"},
           talker : Talkers, listener : Listeners, seq : Nat, status : Status]

\* rcvd: acmp_*_rcvd_cmd_resp until it is dealt with, a sequence of at most one.
\* late: acmp_inflight_timeout_idx in the TIMEOUT state, 0 in the others.
Party == [rcvd : Seq(Packet), late : {0} \union Index, seq : Nat,
          inflight : [Index -> Inflight \union {None}]]

VARIABLES
  talker,    \* acmp_talker_streams, the packet received, and the source
  party,     \* the state machine of each listener and of the controller
  info,      \* acmp_listener_streams: the talker each listener connected to
  sink,      \* the talker whose stream the sink of a listener is set up for
  net,       \* packets on the way to each entity, in order
  want,      \* history: the talker each listener was told to be connected to
  answered,  \* history: sequence ids of the answers the controller accepted and no
             \* later command overwrote before the next poll
  hurried,   \* history: listeners given a command while one to them was underway
  twice,     \* history: a listener has taken two slots
  commands, faults  \* history: what the bounds count

streams == <<talker, info, sink>>
history == <<want, answered, hurried, twice, commands, faults>>
vars == <<streams, party, net, history>>

TypeOK ==
  /\ talker \in [Talkers -> [slots : [Slot -> Listeners \union {None}], count : 0 .. MaxSlots,
                             source : {"DISABLED", "POTENTIAL"}, rcvd : Seq(Packet)]]
  /\ party \in [Listeners \union {Controller} -> Party]
  /\ \A t \in Talkers : Len(talker[t].rcvd) <= 1
  /\ \A n \in Listeners \union {Controller} : Len(party[n].rcvd) <= 1
  /\ info \in [Listeners -> Talkers \union {None}]
  /\ sink \in [Listeners -> Talkers \union {None}]
  /\ net \in [Nodes -> Seq(Packet)]
  /\ want \in [Listeners -> Talkers \union {None}]
  /\ answered \subseteq Nat /\ hurried \subseteq Listeners /\ twice \in BOOLEAN
  /\ commands \in 0 .. MaxCommands /\ faults \in 0 .. MaxFaults

\* avb_1722_1_acmp_controller_init, _talker_init and _listener_init.
Init ==
  /\ talker = [t \in Talkers |-> [slots |-> [i \in Slot |-> None], count |-> 0,
                                  source |-> "DISABLED", rcvd |-> <<>>]]
  /\ party = [n \in Listeners \union {Controller} |->
                [rcvd |-> <<>>, late |-> 0, seq |-> 0, inflight |-> [i \in Index |-> None]]]
  /\ info = [l \in Listeners |-> None]
  /\ sink = [l \in Listeners |-> None]
  /\ net = [n \in Nodes |-> <<>>]
  /\ want = [l \in Listeners |-> None]
  /\ answered = {} /\ hurried = {} /\ twice = FALSE
  /\ commands = 0 /\ faults = 0

-----------------------------------------------------------------------------
(***************************************************************************)
(* The commands in flight of a listener or of the controller.              *)
(***************************************************************************)
First(S) == CHOOSE i \in S : \A j \in S : i <= j

Timeout(n, op) == IF n = Controller THEN RxTimeout[op] ELSE TxTimeout[op]

\* acmp_add_inflight forgets the command if the list is full.
AddInflight(inflight, entry) ==
  LET free == {i \in Index : inflight[i] = None} IN
  IF free = {} THEN inflight ELSE [inflight EXCEPT ![First(free)] = entry]

Matching(inflight, seq) == {i \in Index : inflight[i] # None /\ inflight[i].seq = seq}

RemoveInflight(inflight, seq) ==
  LET found == Matching(inflight, seq) IN
  IF found = {} THEN inflight ELSE [inflight EXCEPT ![First(found)] = None]

\* Mutant: only what was sent twice times out.
DueRetried(inflight) ==
  {i \in Index : inflight[i] # None /\ inflight[i].timer = 0 /\ inflight[i].retried}

Due(inflight) == {i \in Index : inflight[i] # None /\ inflight[i].timer = 0}

\* acmp_send_command for a command that is not a retry.
AfterCommand(n, st, op, t, l, original) ==
  [st EXCEPT !.seq = @ + 1,
             !.inflight = AddInflight(@, [op |-> op, talker |-> t, listener |-> l,
                                          seq |-> st.seq, original |-> original,
                                          retried |-> FALSE, timer |-> Timeout(n, op)])]

\* acmp_send_command for a retry: the command gets a new sequence id.
AfterRetry(n, st, i) ==
  [st EXCEPT !.seq = @ + 1, !.late = 0,
             !.inflight[i] = [@ EXCEPT !.seq = st.seq, !.retried = TRUE,
                                       !.timer = Timeout(n, st.inflight[i].op)]]

AfterDrop(st, i) == [st EXCEPT !.late = 0, !.inflight[i] = None]

Sent(to, op, kind, t, l, seq, status) ==
  [net EXCEPT ![to] = Append(@, [op |-> op, kind |-> kind, talker |-> t, listener |-> l,
                                 seq |-> seq, status |-> status])]

Waiting(n) == party[n].rcvd = <<>> /\ party[n].late = 0

\* The WAITING state of the controller and of a listener.
CheckTimeouts(n) ==
  /\ Waiting(n) /\ Due(party[n].inflight) # {}
  /\ party' = [party EXCEPT ![n].late = First(Due(party[n].inflight))]
  /\ UNCHANGED <<streams, net, history>>

-----------------------------------------------------------------------------
(***************************************************************************)
(* The controller.                                                         *)
(***************************************************************************)
\* A packet about the connection of a listener.
Carries(packets, l) ==
  \E j \in DOMAIN packets : packets[j].op # "GET" /\ packets[j].listener = l

\* A command to a listener has not ended: the controller has it in flight, the
\* listener has asked its talker, or a packet of the exchange is on its way.
Underway(l) ==
  \/ \E i \in Index : /\ party[Controller].inflight[i] # None
                      /\ party[Controller].inflight[i].listener = l
  \/ \E i \in Index : party[l].inflight[i] # None
  \/ Carries(net[l], l) \/ Carries(party[l].rcvd, l)
  \/ \E t \in Talkers : Carries(net[t], l) \/ Carries(talker[t].rcvd, l)

Idle == Waiting(Controller) /\ \A i \in Index : party[Controller].inflight[i] = None

\* avb_1722_1_controller_connect and _disconnect.  The command is put together
\* in acmp_controller_cmd_resp, over a response that was not polled yet.
Command(op, t, l) ==
  LET st == party[Controller]
      over == IF st.rcvd = <<>> THEN <<>>
              ELSE <<[st.rcvd[1] EXCEPT !.talker = t, !.listener = l, !.seq = st.seq]>>
  IN
  /\ commands < MaxCommands /\ (Patient => Idle)
  /\ party' = [party EXCEPT ![Controller] =
                 [AfterCommand(Controller, st, op, t, l, 0) EXCEPT !.rcvd = over]]
  /\ net' = Sent(l, op, "RX_COMMAND", t, l, st.seq, "SUCCESS")
  /\ want' = [want EXCEPT ![l] = IF op = "CONNECT" THEN IF @ = None THEN t ELSE @
                                 ELSE IF @ = t THEN None ELSE @]
  /\ answered' = IF st.rcvd = <<>> THEN answered ELSE answered \ {st.rcvd[1].seq}
  /\ hurried' = IF Underway(l) THEN hurried \union {l} ELSE hurried
  /\ commands' = commands + 1
  /\ UNCHANGED <<streams, twice, faults>>

\* process_avb_1722_1_acmp_controller_packet.
ReceiveResponse ==
  LET st == party[Controller]
      p == Head(net[Controller])
      found == Matching(st.inflight, p.seq)
  IN
  /\ net[Controller] # <<>>
  /\ net' = [net EXCEPT ![Controller] = Tail(@)]
  /\ IF Waiting(Controller) /\ found # {} /\ st.inflight[First(found)].op = p.op
       THEN /\ party' = [party EXCEPT ![Controller].rcvd = <<p>>]
            /\ answered' = answered \union {p.seq}
       ELSE UNCHANGED <<party, answered>>
  /\ UNCHANGED <<streams, want, hurried, twice, commands, faults>>

\* The RX_RESPONSE states: the sequence id in the buffer says what was answered.
Answered ==
  LET st == party[Controller] IN
  /\ st.rcvd # <<>>
  /\ party' = [party EXCEPT ![Controller] =
                 [st EXCEPT !.rcvd = <<>>, !.inflight = RemoveInflight(@, st.rcvd[1].seq)]]
  /\ UNCHANGED <<streams, net, history>>

ControllerTimeout ==
  LET st == party[Controller]
      entry == st.inflight[st.late]
  IN
  /\ st.late # 0
  /\ \/ /\ entry.retried
        /\ party' = [party EXCEPT ![Controller] = AfterDrop(st, st.late)]
        /\ UNCHANGED net
     \/ /\ ~entry.retried
        /\ party' = [party EXCEPT ![Controller] = AfterRetry(Controller, st, st.late)]
        /\ net' = Sent(entry.listener, entry.op, "RX_COMMAND", entry.talker, entry.listener,
                       st.seq, "SUCCESS")
  /\ UNCHANGED <<streams, history>>

-----------------------------------------------------------------------------
(***************************************************************************)
(* A listener.                                                             *)
(***************************************************************************)
ReceiveAtListener(l) ==
  /\ net[l] # <<>>
  /\ net' = [net EXCEPT ![l] = Tail(@)]
  /\ party' = IF Waiting(l) THEN [party EXCEPT ![l].rcvd = <<Head(net[l])>>] ELSE party
  /\ UNCHANGED <<streams, history>>

Has(l, op, kind) ==
  party[l].rcvd # <<>> /\ party[l].rcvd[1].op = op /\ party[l].rcvd[1].kind = kind

\* The controller gets its answer with the sequence id it sent.
Respond(p, status) == Sent(Controller, p.op, "RX_RESPONSE", p.talker, p.listener, p.seq, status)

\* Mutant: any talker is taken for the one the sink is connected to.
ConnectedAnywhere(l, t) == sink[l] # None

\* acmp_listener_is_connected: the sink says whether, the stream info to whom.
ConnectedTo(l, t) == sink[l] # None /\ info[l] = t
ConnectedElsewhere(l, t) == sink[l] # None /\ info[l] # t

Ask(l, p) ==
  /\ party' = [party EXCEPT ![l] =
                 [AfterCommand(l, @, p.op, p.talker, l, p.seq) EXCEPT !.rcvd = <<>>]]
  /\ net' = Sent(p.talker, p.op, "TX_COMMAND", p.talker, l, party[l].seq, "SUCCESS")

Refuse(l, p, status) ==
  /\ party' = [party EXCEPT ![l].rcvd = <<>>]
  /\ net' = Respond(p, status)

ConnectRx(l) ==
  LET p == party[l].rcvd[1] IN
  /\ Has(l, "CONNECT", "RX_COMMAND")
  /\ IF ConnectedElsewhere(l, p.talker) THEN Refuse(l, p, "LISTENER_EXCLUSIVE") ELSE Ask(l, p)
  /\ UNCHANGED <<streams, history>>

\* Mutant: the sink is left running until the talker answers.
DisconnectRxLate(l) ==
  LET p == party[l].rcvd[1] IN
  /\ Has(l, "DISCONNECT", "RX_COMMAND")
  /\ IF ConnectedTo(l, p.talker) THEN Ask(l, p) ELSE Refuse(l, p, "NOT_CONNECTED")
  /\ UNCHANGED <<streams, history>>

\* The sink stops at once; the talker is asked to forget the listener.
DisconnectRx(l) ==
  LET p == party[l].rcvd[1] IN
  /\ Has(l, "DISCONNECT", "RX_COMMAND")
  /\ IF ConnectedTo(l, p.talker)
       THEN Ask(l, p) /\ sink' = [sink EXCEPT ![l] = None]
       ELSE Refuse(l, p, "NOT_CONNECTED") /\ UNCHANGED sink
  /\ UNCHANGED <<talker, info, history>>

\* The sink is stopped and set up again whatever the talker answered.
ConnectTxResponse(l) ==
  LET st == party[l]
      p == st.rcvd[1]
      found == Matching(st.inflight, p.seq)
  IN
  /\ Has(l, "CONNECT", "TX_RESPONSE")
  /\ party' = [party EXCEPT ![l] =
                 [st EXCEPT !.rcvd = <<>>, !.inflight = RemoveInflight(@, p.seq)]]
  /\ IF found = {}
       THEN UNCHANGED <<info, sink, net>>
       ELSE /\ info' = [info EXCEPT ![l] = p.talker]
            /\ sink' = [sink EXCEPT ![l] = p.talker]
            /\ net' = Respond([p EXCEPT !.seq = st.inflight[First(found)].original], "SUCCESS")
  /\ UNCHANGED <<talker, history>>

DisconnectTxResponse(l) ==
  LET st == party[l]
      p == st.rcvd[1]
      found == Matching(st.inflight, p.seq)
  IN
  /\ Has(l, "DISCONNECT", "TX_RESPONSE")
  /\ party' = [party EXCEPT ![l] =
                 [st EXCEPT !.rcvd = <<>>, !.inflight = RemoveInflight(@, p.seq)]]
  /\ IF found = {}
       THEN UNCHANGED <<info, net>>
       ELSE /\ info' = [info EXCEPT ![l] = None]
            /\ net' = Respond([p EXCEPT !.seq = st.inflight[First(found)].original], p.status)
  /\ UNCHANGED <<talker, sink, history>>

ListenerTimeout(l) ==
  LET st == party[l]
      entry == st.inflight[st.late]
  IN
  /\ st.late # 0
  /\ \/ /\ entry.retried
        /\ party' = [party EXCEPT ![l] = AfterDrop(st, st.late)]
        /\ net' = Sent(Controller, entry.op, "RX_RESPONSE", entry.talker, l, entry.original,
                       "LISTENER_TALKER_TIMEOUT")
     \/ /\ ~entry.retried
        /\ party' = [party EXCEPT ![l] = AfterRetry(l, st, st.late)]
        /\ net' = Sent(entry.talker, entry.op, "TX_COMMAND", entry.talker, l, st.seq, "SUCCESS")
  /\ UNCHANGED <<streams, history>>

-----------------------------------------------------------------------------
(***************************************************************************)
(* A talker.                                                               *)
(***************************************************************************)
ReceiveAtTalker(t) ==
  /\ net[t] # <<>>
  /\ net' = [net EXCEPT ![t] = Tail(@)]
  /\ talker' = IF talker[t].rcvd = <<>> THEN [talker EXCEPT ![t].rcvd = <<Head(net[t])>>]
               ELSE talker
  /\ UNCHANGED <<party, info, sink, history>>

\* acmp_add_talker_stream_info stops at the listener or at the first empty
\* slot; avb_talker_on_listener_connect starts a source that is not running.
Connected(st, l) ==
  LET usable == {i \in Slot : st.slots[i] \in {l, None}}
      i == First(usable)
  IN
  [st EXCEPT !.slots = IF usable = {} THEN @ ELSE [@ EXCEPT ![i] = l],
             !.count = IF usable # {} /\ st.slots[i] = None THEN @ + 1 ELSE @,
             !.source = "POTENTIAL"]

\* Mutant: the slot of the listener is not looked for.
DisconnectedByCount(st, l) ==
  [st EXCEPT !.count = st.count - 1, !.source = IF st.count = 1 THEN "DISABLED" ELSE @]

\* acmp_remove_talker_stream_info and avb_talker_on_listener_disconnect.
Disconnected(st, l) ==
  LET mine == {i \in Slot : st.slots[i] = l}
      left == IF mine = {} THEN st.count ELSE st.count - 1
  IN
  [st EXCEPT !.slots = IF mine = {} THEN @ ELSE [@ EXCEPT ![First(mine)] = None],
             !.count = left,
             !.source = IF left = 0 THEN "DISABLED" ELSE @]

OneSlotEach(slots) == \A i, j \in Slot : slots[i] = slots[j] /\ slots[i] # None => i = j

Serve(t) ==
  LET p == talker[t].rcvd[1] IN
  /\ talker[t].rcvd # <<>> /\ p.op # "GET"
  /\ talker' = [talker EXCEPT ![t] =
       [(IF t \in Unknown THEN @
         ELSE IF p.op = "CONNECT" THEN Connected(@, p.listener) ELSE Disconnected(@, p.listener))
        EXCEPT !.rcvd = <<>>]]
  /\ net' = Sent(p.listener, p.op, "TX_RESPONSE", t, p.listener, p.seq,
                 IF t \in Unknown THEN "TALKER_UNKNOWN_ID" ELSE "SUCCESS")
  /\ twice' = (twice \/ ~OneSlotEach(talker'[t].slots))
  /\ UNCHANGED <<party, info, sink, want, answered, hurried, commands, faults>>

-----------------------------------------------------------------------------
(***************************************************************************)
(* GET commands of other controllers, which only take up the state machine *)
(* they reach, and the network.                                            *)
(***************************************************************************)
Query(n) ==
  LET t == IF n \in Talkers THEN n ELSE CHOOSE x \in Talkers : TRUE
      l == IF n \in Listeners THEN n ELSE CHOOSE x \in Listeners : TRUE
  IN
  /\ faults < MaxFaults /\ n # Controller
  /\ net' = Sent(n, "GET", IF n = t THEN "TX_COMMAND" ELSE "RX_COMMAND", t, l, 0, "SUCCESS")
  /\ faults' = faults + 1
  /\ UNCHANGED <<streams, party, want, answered, hurried, twice, commands>>

GetState(n) ==
  \/ /\ n \in Talkers /\ talker[n].rcvd # <<>> /\ talker[n].rcvd[1].op = "GET"
     /\ talker' = [talker EXCEPT ![n].rcvd = <<>>]
     /\ UNCHANGED <<party, info, sink, net, history>>
  \/ /\ n \in Listeners /\ Has(n, "GET", "RX_COMMAND")
     /\ party' = [party EXCEPT ![n].rcvd = <<>>]
     /\ UNCHANGED <<streams, net, history>>

Lose(n) ==
  /\ net[n] # <<>> /\ faults < MaxFaults
  /\ net' = [net EXCEPT ![n] = Tail(@)]
  /\ faults' = faults + 1
  /\ UNCHANGED <<streams, party, want, answered, hurried, twice, commands>>

\* Nothing on the way, nothing to be polled.
Settled ==
  /\ \A n \in Nodes : net[n] = <<>>
  /\ \A t \in Talkers : talker[t].rcvd = <<>>
  /\ \A n \in DOMAIN party : Waiting(n) /\ Due(party[n].inflight) = {}

Ticked(entry) ==
  IF entry = None THEN None ELSE [entry EXCEPT !.timer = IF @ = 0 THEN 0 ELSE @ - 1]

Tick ==
  /\ Settled
  /\ \E n \in DOMAIN party, i \in Index : party[n].inflight[i] # None
  /\ party' = [n \in DOMAIN party |->
       [party[n] EXCEPT !.inflight = [i \in Index |-> Ticked(party[n].inflight[i])]]]
  /\ UNCHANGED <<streams, net, history>>

ListenerPeriodic(l) ==
  \/ CheckTimeouts(l) \/ ListenerTimeout(l)
  \/ ConnectRx(l) \/ DisconnectRx(l)
  \/ ConnectTxResponse(l) \/ DisconnectTxResponse(l)
  \/ GetState(l)

ControllerPeriodic == CheckTimeouts(Controller) \/ ControllerTimeout \/ Answered

Next ==
  \/ \E op \in Operation, t \in Talkers, l \in Listeners : Command(op, t, l)
  \/ ReceiveResponse
  \/ ControllerPeriodic
  \/ \E l \in Listeners : ReceiveAtListener(l) \/ ListenerPeriodic(l)
  \/ \E t \in Talkers : ReceiveAtTalker(t) \/ Serve(t) \/ GetState(t)
  \/ \E n \in Nodes : Query(n) \/ Lose(n)
  \/ Tick

Spec == Init /\ [][Next]_vars

\* Everybody polls and the network delivers what it does not lose.
Fairness ==
  /\ WF_vars(Tick) /\ WF_vars(ReceiveResponse) /\ WF_vars(ControllerPeriodic)
  /\ \A l \in Listeners : WF_vars(ReceiveAtListener(l)) /\ WF_vars(ListenerPeriodic(l))
  /\ \A t \in Talkers : WF_vars(ReceiveAtTalker(t)) /\ WF_vars(Serve(t) \/ GetState(t))

FairSpec == Spec /\ Fairness

-----------------------------------------------------------------------------
(***************************************************************************)
(* Properties.                                                             *)
(***************************************************************************)
Quiet == Settled /\ \A n \in DOMAIN party, i \in Index : party[n].inflight[i] = None

\* connection_count is kept next to the slots it counts, the source state next
\* to the count: the source runs exactly while a slot is taken.
SourceRunsForListeners ==
  \A t \in Talkers :
    LET taken == {i \in Slot : talker[t].slots[i] # None} IN
    /\ talker[t].count = Cardinality(taken)
    /\ talker[t].source = "POTENTIAL" <=> taken # {}

\* One packet lost, or dropped because somebody else had taken up the state
\* machine, is repaired by the retries: once all is quiet, every listener is
\* connected as the commands asked, and no talker keeps a slot, and its source
\* running, for a listener that has gone, unless that had taken two.
CommandsTakeEffect ==
  Quiet /\ faults <= 1 =>
    /\ sink = want
    /\ ~twice => \A t \in Talkers, i \in Slot :
                   talker[t].slots[i] # None => sink[talker[t].slots[i]] = t

\* A listener never listens to a talker that has forgotten it, whatever was
\* lost: the talker notes a listener before its sink starts, and the sink stops
\* before the talker is asked to forget it.  The exceptions are a talker that
\* refused, whose answer starts the sink all the same, and what follows from
\* acmp_add_talker_stream_info having given somebody two slots.
SinksAreServed ==
  ~twice => \A l \in Listeners \ hurried :
              sink[l] \in Talkers \ Unknown => \E i \in Slot : talker[sink[l]].slots[i] = l

\* A command whose answer the controller accepted has left the list of those in
\* flight once the answer is dealt with ("Remove inflight command"): it is not
\* sent again, over the commands that came after it.
AnsweredIsRemoved ==
  Waiting(Controller) =>
    \A i \in Index : LET entry == party[Controller].inflight[i] IN
                     entry # None => entry.seq \notin answered

\* What is kept twice agrees: the slots, their count and the state of the source;
\* and the commands in flight with those that still want an answer.
TablesAgree ==
  /\ TypeOK
  /\ SourceRunsForListeners
  /\ AnsweredIsRemoved

\* acmp_add_talker_stream_info means to "check listener_guid and
\* listener_unique_id are not in connected_listeners": no listener takes two slots.
NoListenerTwice == \A t \in Talkers : OneSlotEach(talker[t].slots)

\* No command stays in flight for ever: it is answered, or given up after one
\* retry, whatever was lost.
CommandsEnd ==
  \A n \in Listeners \union {Controller}, i \in Index :
    party[n].inflight[i] # None ~> party[n].inflight[i] = None
=============================================================================
