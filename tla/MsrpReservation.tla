--------------------------- MODULE MsrpReservation ---------------------------
(***************************************************************************)
(* The reservation of one stream: the MSRP Listener attribute of a talker  *)
(* endpoint, which registers it, and of the listener endpoints, which      *)
(* declare it, together with the source state the registration drives.     *)
(* Every endpoint runs the same avb_mrp.c: mrp_periodic polled by the      *)
(* control loop, avb_mrp_process_packet for each received PDU.             *)
(*                                                                         *)
(* Time is counted in ticks of one or more timer periods' common divisor.  *)
(* The control loop polls every 50 microseconds, so all polling and        *)
(* delivery that is due happens between two ticks; its order is free.      *)
(***************************************************************************)
EXTENDS MrpAttribute, Sequences, FiniteSets

CONSTANTS Talker,          \* the endpoint that owns the source
          Listeners,       \* the endpoints whose sinks subscribe to it
          JoinPeriod,      \* MRP_JOINTIMER_PERIOD_CENTISECONDS in ticks
          LeaveAllPeriod,  \* MRP_LEAVEALL_TIMER_PERIOD_CENTISECONDS in ticks
          MaxLosses        \* bound on the PDUs the network loses

ASSUME ReservationAssumption ==
  /\ Talker \notin Listeners
  /\ IsFiniteSet(Listeners)
  /\ JoinPeriod \in Nat \ {0}
  /\ LeaveAllPeriod \in Nat \ {0}
  /\ MaxLosses \in Nat

Nodes == Listeners \union {Talker}
StreamState == {"DISABLED", "POTENTIAL", "ENABLED"}
Pdu == [leaveAll : BOOLEAN, value : AttributeEvent \union {"none"}]

VARIABLES
  attr,           \* the Listener attribute of each endpoint
  source,         \* sources[].stream.state at the talker
  sink,           \* sinks[].stream.state of each listener
  joinTimer,      \* ticks until joinTimer is due
  leaveAllTimer,  \* ticks until leaveall_timer is due
  leaveAll,       \* the static leave_all of mrp_periodic
  net,            \* PDUs on the way to each endpoint, in order
  losses,         \* history: PDUs lost so far
  settled,        \* history: ticks since the sink subscribed, up to SettledMax
  staleJoin,      \* history: the source was started over an undelivered Join
  crossed         \* history: a Leave was delivered together with a later Join

mrpVars == <<attr, joinTimer, leaveAllTimer, leaveAll, net>>
vars == <<attr, source, sink, joinTimer, leaveAllTimer, leaveAll, net,
          losses, settled, staleJoin, crossed>>

SettledMax == LeavePeriod + JoinPeriod

TypeOK ==
  /\ attr \in [Nodes -> Attribute]
  /\ source \in StreamState
  /\ sink \in [Listeners -> {"DISABLED", "POTENTIAL"}]
  /\ joinTimer \in [Nodes -> 0 .. JoinPeriod]
  /\ leaveAllTimer \in [Nodes -> 0 .. LeaveAllPeriod]
  /\ leaveAll \in [Nodes -> BOOLEAN]
  /\ net \in [Nodes -> Seq(Pdu)]
  /\ losses \in 0 .. MaxLosses
  /\ settled \in [Listeners -> 0 .. SettledMax]
  /\ staleJoin \in BOOLEAN
  /\ crossed \in BOOLEAN

\* The endpoints were started at different moments, so their timers have any phase.
Init ==
  /\ attr = [n \in Nodes |-> Allocated]
  /\ source = "DISABLED"
  /\ sink = [l \in Listeners |-> "DISABLED"]
  /\ joinTimer \in [Nodes -> 1 .. JoinPeriod]
  /\ leaveAllTimer \in [Nodes -> 1 .. LeaveAllPeriod]
  /\ leaveAll = [n \in Nodes |-> FALSE]
  /\ net = [n \in Nodes |-> <<>>]
  /\ losses = 0
  /\ settled = [l \in Listeners |-> 0]
  /\ staleJoin = FALSE
  /\ crossed = FALSE

Joins == {"JOIN_NEW", "JOIN"}

-----------------------------------------------------------------------------
(***************************************************************************)
(* set_avb_source_state and set_avb_sink_state, as the application and the *)
(* connection management call them between two polls.                      *)
(***************************************************************************)
SourcePotential ==
  /\ source = "DISABLED"
  /\ source' = "POTENTIAL"
  /\ attr' = [attr EXCEPT ![Talker] = MadBegin(@)]
  /\ staleJoin' = (attr[Talker].pend \intersect Joins # {})
  /\ crossed' = FALSE
  /\ UNCHANGED <<sink, joinTimer, leaveAllTimer, leaveAll, net, losses, settled>>

\* mad_leave is called on the Talker attribute only; this attribute runs on.
SourceDisabled ==
  /\ source # "DISABLED"
  /\ source' = "DISABLED"
  /\ staleJoin' = FALSE
  /\ UNCHANGED <<mrpVars, sink, losses, settled, crossed>>

SinkPotential(l) ==
  /\ sink[l] = "DISABLED"
  /\ sink' = [sink EXCEPT ![l] = "POTENTIAL"]
  /\ attr' = [attr EXCEPT ![l] = MadJoinNew(MadBegin(@))]
  /\ settled' = [settled EXCEPT ![l] = 0]
  /\ UNCHANGED <<source, joinTimer, leaveAllTimer, leaveAll, net, losses, staleJoin, crossed>>

SinkDisabled(l) ==
  /\ sink[l] = "POTENTIAL"
  /\ sink' = [sink EXCEPT ![l] = "DISABLED"]
  /\ attr' = [attr EXCEPT ![l] = MadLeave(@)]
  /\ settled' = [settled EXCEPT ![l] = 0]
  /\ UNCHANGED <<source, joinTimer, leaveAllTimer, leaveAll, net, losses, staleJoin, crossed>>

-----------------------------------------------------------------------------
(***************************************************************************)
(* avb_mrp_process_packet: the LeaveAll of the vector header first, then   *)
(* the value.  An attribute that has not begun takes no part.  Everybody   *)
(* sends the four-packed event READY, which is all match_listener accepts. *)
(***************************************************************************)
Process(st, pdu) ==
  LET left == IF pdu.leaveAll THEN ReceiveLeaveAll(st) ELSE st IN
  IF Begun(st) THEN MrpIn(left, pdu.value, TRUE) ELSE st

ReceivePdu(n) ==
  /\ net[n] # <<>>
  /\ attr' = [attr EXCEPT ![n] = Process(@, Head(net[n]))]
  /\ net' = [net EXCEPT ![n] = Tail(@)]
  /\ staleJoin' = (staleJoin /\ attr'[Talker].reg = "MT")
  /\ UNCHANGED <<source, sink, joinTimer, leaveAllTimer, leaveAll, losses, settled, crossed>>

LosePdu(n) ==
  /\ net[n] # <<>>
  /\ losses < MaxLosses
  /\ losses' = losses + 1
  /\ net' = [net EXCEPT ![n] = Tail(@)]
  /\ UNCHANGED <<attr, source, sink, joinTimer, leaveAllTimer, leaveAll,
                 settled, staleJoin, crossed>>

-----------------------------------------------------------------------------
(***************************************************************************)
(* mrp_periodic, in the order of the code: leaveall_timer, joinTimer, the  *)
(* indications (Join before Leave whatever order they arose in), and only  *)
(* then the leaveTimer, whose Leave waits for the next poll.               *)
(***************************************************************************)
LeaveAllDue(n) == leaveAllTimer[n] = 0
JoinDue(n) == joinTimer[n] = 0

AfterLeaveAllTimer(n) ==
  IF LeaveAllDue(n) /\ Begun(attr[n]) THEN ReceiveLeaveAll(attr[n]) ELSE attr[n]

AfterJoinTimer(n, leaving) ==
  LET st == AfterLeaveAllTimer(n) IN
  IF JoinDue(n) /\ Begun(st) THEN AfterTx(st, leaving) ELSE st

Sent(n, leaving) ==
  LET st == AfterLeaveAllTimer(n) IN
  [leaveAll |-> leaving, value |-> IF Begun(st) THEN TxValue(st, leaving) ELSE "none"]

Delivered(st) == IF st.pend = {} THEN st ELSE [st EXCEPT !.pend = {}, !.ready = FALSE]

AfterLeaveTimer(st) == IF st.leaveTimer = 0 THEN Deregister(st) ELSE st

\* avb_srp_listener_join_ind, then avb_srp_listener_leave_ind.
JoinInd(state, st) ==
  IF st.pend \intersect Joins # {} /\ st.ready /\ state = "POTENTIAL" THEN "ENABLED" ELSE state
LeaveInd(state, st) ==
  IF "LEAVE" \in st.pend /\ state = "ENABLED" THEN "POTENTIAL" ELSE state

Crosses(st) == "LEAVE" \in st.pend /\ st.pend \intersect Joins # {}

Periodic(n) ==
  LET leaving == leaveAll[n] \/ LeaveAllDue(n)
      st == AfterJoinTimer(n, leaving)
      pdu == Sent(n, leaving)
  IN
  /\ \/ LeaveAllDue(n) \/ JoinDue(n)
     \/ attr[n].pend # {} \/ attr[n].leaveTimer = 0
  /\ leaveAllTimer' = [leaveAllTimer EXCEPT ![n] = IF LeaveAllDue(n) THEN LeaveAllPeriod ELSE @]
  /\ joinTimer' = [joinTimer EXCEPT ![n] = IF JoinDue(n) THEN JoinPeriod ELSE @]
  /\ leaveAll' = [leaveAll EXCEPT ![n] = leaving /\ ~JoinDue(n)]
  /\ net' = IF JoinDue(n) /\ (pdu.leaveAll \/ pdu.value # "none")
              THEN [m \in Nodes |-> IF m = n THEN net[m] ELSE Append(net[m], pdu)]
              ELSE net
  /\ attr' = [attr EXCEPT ![n] = AfterLeaveTimer(Delivered(st))]
  /\ IF n = Talker
       THEN /\ source' = LeaveInd(JoinInd(source, st), st)
            /\ crossed' = (Crosses(st) \/ (crossed /\ source' # "ENABLED"))
            /\ staleJoin' = (staleJoin /\ source' # "POTENTIAL")
       ELSE UNCHANGED <<source, crossed, staleJoin>>
  /\ UNCHANGED <<sink, losses, settled>>

-----------------------------------------------------------------------------
\* Nothing that is due is left when a tick ends, and what was sent has arrived.
Tick ==
  /\ \A n \in Nodes : /\ net[n] = <<>>
                      /\ ~LeaveAllDue(n) /\ ~JoinDue(n)
                      /\ attr[n].pend = {} /\ attr[n].leaveTimer # 0
  /\ joinTimer' = [n \in Nodes |-> joinTimer[n] - 1]
  /\ leaveAllTimer' = [n \in Nodes |-> leaveAllTimer[n] - 1]
  /\ attr' = [n \in Nodes |->
                [attr[n] EXCEPT !.leaveTimer = IF @ = TimerOff THEN TimerOff ELSE @ - 1]]
  /\ settled' = [l \in Listeners |->
                   IF sink[l] = "DISABLED" \/ settled[l] = SettledMax
                     THEN settled[l] ELSE settled[l] + 1]
  /\ UNCHANGED <<source, sink, leaveAll, net, losses, staleJoin, crossed>>

Next ==
  \/ SourcePotential
  \/ SourceDisabled
  \/ \E l \in Listeners : SinkPotential(l)
  \/ \E l \in Listeners : SinkDisabled(l)
  \/ \E n \in Nodes : ReceivePdu(n)
  \/ \E n \in Nodes : LosePdu(n)
  \/ \E n \in Nodes : Periodic(n)
  \/ Tick

Spec == Init /\ [][Next]_vars

\* The clock runs, the loop polls and the network delivers what it does not lose.
Fairness ==
  /\ WF_vars(Tick)
  /\ \A n \in Nodes : WF_vars(ReceivePdu(n)) /\ WF_vars(Periodic(n))

FairSpec == Spec /\ Fairness

-----------------------------------------------------------------------------
(***************************************************************************)
(* Properties.                                                             *)
(***************************************************************************)
\* The leaveTimer of an attribute runs exactly while its registrar is LV
\* (mrp_update_state starts and stops it next to the state changes).  A timer
\* left running would deregister a live declaration, one left stopped would
\* keep a dead one.
LeaveTimerRunsInLv ==
  \A n \in Nodes : Begun(attr[n]) => (attr[n].leaveTimer # TimerOff <=> attr[n].reg = "LV")

\* The talker transmits (ENABLED) only while the listener attribute is
\* registered or its Leave is on the way to leave_ind; the one way round it is
\* a Join that mrp_mad_begin left pending over a restart of the source.
StreamingIsRegistered ==
  source = "ENABLED" => \/ attr[Talker].reg \in {"IN", "LV"}
                        \/ "LEAVE" \in attr[Talker].pend
                        \/ staleJoin

\* A source waiting in POTENTIAL has no registered listener whose join_ind has
\* already been consumed, unless a Leave overtook a later Join in mrp_periodic.
RegisteredIsStreaming ==
  source = "POTENTIAL" /\ attr[Talker].reg = "IN" =>
    attr[Talker].pend \intersect Joins # {} \/ crossed

\* LeaveAll asks everybody to declare again before the leaveTimer runs out.  On
\* a network that loses nothing a listener that has been subscribed for longer
\* than that is never timed out by the registrar of the talker, whoever started
\* the LeaveAll and when.
SteadyListenerIsNeverDropped ==
  losses = 0 /\ "LEAVE" \in attr[Talker].pend => \A l \in Listeners : settled[l] < SettledMax

\* A Join indication is only ever pending with the four-packed READY it came
\* with, or avb_srp_listener_join_ind would drop it: the LEAVETIMER event, which
\* overwrites four_vector_parameter with 0, never finds a Join still pending.
PendingJoinIsReady ==
  \A n \in Nodes : attr[n].pend \intersect Joins # {} => attr[n].ready

\* What mrp_update_state keeps of every attribute: its types, the leaveTimer in
\* step with the registrar and the READY of a pending Join.
AttributesAreSound ==
  /\ TypeOK
  /\ LeaveTimerRunsInLv
  /\ PendingJoinIsReady

\* avb_api.h promises that a source set POTENTIAL "will automatically change to
\* ENABLED when connected to a listener": it does not sit in POTENTIAL for ever
\* while a listener stays subscribed.
StreamStarts ==
  \A l \in Listeners : []<>(sink[l] = "DISABLED" \/ source # "POTENTIAL")

\* The same on a network that loses nothing.
StreamStartsUnlessLost ==
  \A l \in Listeners : []<>(sink[l] = "DISABLED" \/ source # "POTENTIAL" \/ losses > 0)

\* When every listener has gone and none comes back the stream stops, however
\* the Leave was lost: the LeaveAll of any endpoint times the registration out.
StreamStops ==
  []<>(source # "ENABLED" \/ staleJoin \/ \E l \in Listeners : sink[l] = "POTENTIAL")
=============================================================================
