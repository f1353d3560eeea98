----------------------- MODULE MsrpReservation_proofs -----------------------
(***************************************************************************)
(* Proofs about MsrpReservation.  The invariants of one attribute are kept *)
(* by each operator of MrpAttribute (the lemmas); the ones that relate the *)
(* talker's attribute to the state of its source follow action by action.  *)
(* The last part is the account of time that a listener which stays is     *)
(* never timed out.                                                        *)
(***************************************************************************)
EXTENDS MsrpReservation, TLAPS

\* What holds of a single attribute between any two steps.
TimerInv(st) == Begun(st) => (st.leaveTimer # TimerOff <=> st.reg = "LV")
ReadyInv(st) == st.pend \intersect Joins # {} => st.ready
LeaveInv(st) == "LEAVE" \in st.pend /\ st.pend \intersect Joins = {} => st.reg = "MT"
AttrInv(st) == TimerInv(st) /\ ReadyInv(st) /\ LeaveInv(st)

\* How far one step on an attribute may move the registrar: it deregisters
\* nothing, and what it registers has a Join pending.
Holds(st) == st.reg \in {"IN", "LV"}
Keeps(st, r) ==
  /\ Begun(st) => Begun(r)
  /\ st.pend \subseteq r.pend
  /\ Holds(st) => Holds(r)
  /\ ~Holds(st) /\ Holds(r) => r.pend \intersect Joins # {}
  /\ ~Holds(r) => r.pend = st.pend

-----------------------------------------------------------------------------
LEMMA ApplicantMoves ==
  ASSUME NEW a \in Applicant
  PROVE  /\ OnMt(a) \in Applicant /\ OnIn(a) \in Applicant /\ OnJoinIn(a) \in Applicant
         /\ OnLeave(a) \in Applicant /\ OnTx(a) \in Applicant
         /\ OnTxLeaveAll(a) \in Applicant /\ OnLv(a) \in Applicant
         /\ a # "DISABLED" => /\ OnMt(a) # "DISABLED" /\ OnIn(a) # "DISABLED"
                              /\ OnJoinIn(a) # "DISABLED" /\ OnLeave(a) # "DISABLED"
                              /\ OnTx(a) # "DISABLED" /\ OnTxLeaveAll(a) # "DISABLED"
                              /\ OnLv(a) # "DISABLED"
<1>1. OnMt(a) \in Applicant /\ (a # "DISABLED" => OnMt(a) # "DISABLED")
  BY DEF OnMt, Applicant, Declaring, Observing
<1>2. OnIn(a) \in Applicant /\ (a # "DISABLED" => OnIn(a) # "DISABLED")
  BY DEF OnMt, OnIn, Applicant, Declaring, Observing
<1>3. OnJoinIn(a) \in Applicant /\ (a # "DISABLED" => OnJoinIn(a) # "DISABLED")
  BY DEF OnMt, OnIn, OnJoinIn, Applicant, Declaring, Observing
<1>4. OnLeave(a) \in Applicant /\ (a # "DISABLED" => OnLeave(a) # "DISABLED")
  BY DEF OnLeave, Applicant, Declaring, Observing
<1>5. OnTx(a) \in Applicant /\ (a # "DISABLED" => OnTx(a) # "DISABLED")
  BY DEF OnTx, Applicant, Declaring, Observing
<1>6. OnTxLeaveAll(a) \in Applicant /\ (a # "DISABLED" => OnTxLeaveAll(a) # "DISABLED")
  BY DEF OnTxLeaveAll, Applicant, Declaring, Observing
<1>7. OnLv(a) \in Applicant /\ (a # "DISABLED" => OnLv(a) # "DISABLED")
  BY DEF OnLv, Applicant, Declaring, Observing
<1>8. QED  BY <1>1, <1>2, <1>3, <1>4, <1>5, <1>6, <1>7

LEMMA LeaveTimerRange ==
  /\ TimerOff \in TimerOff .. LeavePeriod
  /\ LeavePeriod \in TimerOff .. LeavePeriod
  /\ LeavePeriod # TimerOff
BY LeavePeriodAssumption DEF TimerOff

LEMMA StartLeavingKeeps ==
  ASSUME NEW st \in Attribute, AttrInv(st)
  PROVE  /\ StartLeaving(st) \in Attribute
         /\ AttrInv(StartLeaving(st))
         /\ Keeps(st, StartLeaving(st))
         /\ StartLeaving(st).pend = st.pend
         /\ StartLeaving(st).app = st.app
<1> DEFINE r == StartLeaving(st)
<1>1. CASE st.reg = "IN"
  <2>1. r = [st EXCEPT !.reg = "LV", !.leaveTimer = LeavePeriod]
    BY <1>1 DEF StartLeaving
  <2>2. /\ r \in Attribute /\ r.pend = st.pend /\ r.app = st.app /\ r.ready = st.ready
        /\ r.reg = "LV" /\ r.leaveTimer = LeavePeriod
    BY <2>1, LeaveTimerRange DEF Attribute, Registrar
  <2> QED
    BY <1>1, <2>2, LeaveTimerRange DEF AttrInv, TimerInv, ReadyInv, LeaveInv, Keeps, Holds, Begun
<1>2. CASE st.reg # "IN"
  BY <1>2 DEF StartLeaving, Keeps
<1> QED  BY <1>1, <1>2

LEMMA RegisterNewKeeps ==
  ASSUME NEW st \in Attribute, AttrInv(st)
  PROVE  /\ RegisterNew(st, TRUE) \in Attribute
         /\ AttrInv(RegisterNew(st, TRUE))
         /\ Keeps(st, RegisterNew(st, TRUE))
         /\ RegisterNew(st, TRUE).app = st.app
<1> DEFINE r == RegisterNew(st, TRUE)
<1>1. /\ r \in Attribute /\ r.app = st.app /\ r.reg = "IN" /\ r.ready = TRUE
      /\ r.pend = st.pend \union {"JOIN_NEW"}
      /\ r.leaveTimer = IF st.reg = "LV" THEN TimerOff ELSE st.leaveTimer
  BY LeaveTimerRange DEF RegisterNew, Attribute, Registrar, Indication
<1>2. r.pend \intersect Joins # {}
  BY <1>1 DEF Joins
<1>3. TimerInv(r)
  BY <1>1 DEF AttrInv, TimerInv, Begun
<1> QED  BY <1>1, <1>2, <1>3 DEF AttrInv, ReadyInv, LeaveInv, Keeps, Holds, Begun

LEMMA RegisterJoinKeeps ==
  ASSUME NEW st \in Attribute, AttrInv(st)
  PROVE  /\ RegisterJoin(st, TRUE) \in Attribute
         /\ AttrInv(RegisterJoin(st, TRUE))
         /\ Keeps(st, RegisterJoin(st, TRUE))
         /\ RegisterJoin(st, TRUE).app = st.app
<1> DEFINE r == RegisterJoin(st, TRUE)
<1>1. /\ r \in Attribute /\ r.app = st.app /\ r.reg = "IN"
      /\ r.pend = IF st.reg = "MT" THEN st.pend \union {"JOIN"} ELSE st.pend
      /\ r.ready = IF st.reg = "MT" THEN TRUE ELSE st.ready
      /\ r.leaveTimer = IF st.reg = "LV" THEN TimerOff ELSE st.leaveTimer
  BY LeaveTimerRange DEF RegisterJoin, Attribute, Registrar, Indication
<1>2. TimerInv(r)
  BY <1>1 DEF AttrInv, TimerInv, Begun
<1>3. CASE st.reg = "MT"
  <2>1. r.pend \intersect Joins # {}
    BY <1>1, <1>3 DEF Joins
  <2> QED  BY <1>1, <1>2, <1>3, <2>1 DEF AttrInv, ReadyInv, LeaveInv, Keeps, Holds, Begun
<1>4. CASE st.reg # "MT"
  <2>1. Holds(st)
    BY <1>4 DEF Attribute, Registrar, Holds
  <2> QED  BY <1>1, <1>2, <1>4, <2>1 DEF AttrInv, ReadyInv, LeaveInv, Keeps, Holds, Begun
<1> QED  BY <1>3, <1>4

\* An applicant move leaves everything the invariants speak of alone.
LEMMA ApplicantMoveKeeps ==
  ASSUME NEW st \in Attribute, NEW r \in Attribute, AttrInv(r), Keeps(st, r),
         NEW a \in Applicant, r.app # "DISABLED" => a # "DISABLED", r.app = "DISABLED" => a = "DISABLED"
  PROVE  /\ [r EXCEPT !.app = a] \in Attribute
         /\ AttrInv([r EXCEPT !.app = a])
         /\ Keeps(st, [r EXCEPT !.app = a])
BY DEF Attribute, AttrInv, TimerInv, ReadyInv, LeaveInv, Keeps, Holds, Begun
-----------------------------------------------------------------------------
(***************************************************************************)
(* The handlers of one attribute keep its invariants.                      *)
(***************************************************************************)
\* Chained steps: what both keep, their composition keeps.
LEMMA KeepsTrans ==
  ASSUME NEW st \in Attribute, NEW r \in Attribute, NEW q \in Attribute,
         Keeps(st, r), Keeps(r, q)
  PROVE  Keeps(st, q)
BY DEF Keeps, Holds, Begun

LEMMA KeepsItself == ASSUME NEW st \in Attribute PROVE Keeps(st, st)
BY DEF Keeps

LEMMA ReceiveLeaveAllKeeps ==
  ASSUME NEW st \in Attribute, AttrInv(st)
  PROVE  /\ ReceiveLeaveAll(st) \in Attribute
         /\ AttrInv(ReceiveLeaveAll(st))
         /\ Keeps(st, ReceiveLeaveAll(st))
<1> DEFINE r == StartLeaving(st)
<1>1. r \in Attribute /\ AttrInv(r) /\ Keeps(st, r) /\ r.app = st.app
  BY StartLeavingKeeps
<1>2. r.app \in Applicant
  BY <1>1 DEF Attribute
<1>3. /\ OnLeave(r.app) \in Applicant
      /\ r.app # "DISABLED" => OnLeave(r.app) # "DISABLED"
      /\ r.app = "DISABLED" => OnLeave(r.app) = "DISABLED"
  BY <1>2, ApplicantMoves DEF OnLeave
<1>4. ReceiveLeaveAll(st) = [r EXCEPT !.app = OnLeave(r.app)]
  BY DEF ReceiveLeaveAll
<1> QED  BY <1>1, <1>3, <1>4, ApplicantMoveKeeps

LEMMA MrpInKeeps ==
  ASSUME NEW st \in Attribute, AttrInv(st), NEW event \in AttributeEvent \union {"none"}
  PROVE  /\ MrpIn(st, event, TRUE) \in Attribute
         /\ AttrInv(MrpIn(st, event, TRUE))
         /\ Keeps(st, MrpIn(st, event, TRUE))
<1> DEFINE j == RegisterJoin(st, TRUE)
<1>1. st.app \in Applicant /\ Keeps(st, st)
  BY KeepsItself DEF Attribute
<1>2. CASE event = "New"
  BY <1>2, RegisterNewKeeps DEF MrpIn
<1>3. CASE event = "JoinIn"
  <2>1. j \in Attribute /\ AttrInv(j) /\ Keeps(st, j) /\ j.app = st.app
    BY RegisterJoinKeeps
  <2>2. /\ OnJoinIn(j.app) \in Applicant
        /\ j.app # "DISABLED" => OnJoinIn(j.app) # "DISABLED"
        /\ j.app = "DISABLED" => OnJoinIn(j.app) = "DISABLED"
    BY <1>1, <2>1, ApplicantMoves DEF OnJoinIn, OnIn, OnMt
  <2>3. MrpIn(st, event, TRUE) = [j EXCEPT !.app = OnJoinIn(j.app)]
    BY <1>3 DEF MrpIn
  <2> QED  BY <2>1, <2>2, <2>3, ApplicantMoveKeeps
<1>4. CASE event = "JoinMt"
  <2>1. j \in Attribute /\ AttrInv(j) /\ Keeps(st, j) /\ j.app = st.app
    BY RegisterJoinKeeps
  <2>2. /\ OnMt(j.app) \in Applicant
        /\ j.app # "DISABLED" => OnMt(j.app) # "DISABLED"
        /\ j.app = "DISABLED" => OnMt(j.app) = "DISABLED"
    BY <1>1, <2>1, ApplicantMoves DEF OnMt
  <2>3. MrpIn(st, event, TRUE) = [j EXCEPT !.app = OnMt(j.app)]
    BY <1>4 DEF MrpIn
  <2> QED  BY <2>1, <2>2, <2>3, ApplicantMoveKeeps
<1>5. CASE event = "In"
  <2>1. /\ OnIn(st.app) \in Applicant
        /\ st.app # "DISABLED" => OnIn(st.app) # "DISABLED"
        /\ st.app = "DISABLED" => OnIn(st.app) = "DISABLED"
    BY <1>1, ApplicantMoves DEF OnIn, OnMt
  <2>2. MrpIn(st, event, TRUE) = [st EXCEPT !.app = OnIn(st.app)]
    BY <1>5 DEF MrpIn
  <2> QED  BY <1>1, <2>1, <2>2, ApplicantMoveKeeps
<1>6. CASE event = "Mt"
  <2>1. /\ OnMt(st.app) \in Applicant
        /\ st.app # "DISABLED" => OnMt(st.app) # "DISABLED"
        /\ st.app = "DISABLED" => OnMt(st.app) = "DISABLED"
    BY <1>1, ApplicantMoves DEF OnMt
  <2>2. MrpIn(st, event, TRUE) = [st EXCEPT !.app = OnMt(st.app)]
    BY <1>6 DEF MrpIn
  <2> QED  BY <1>1, <2>1, <2>2, ApplicantMoveKeeps
<1>7. CASE event = "Lv"
  <2>1. MrpIn(st, event, TRUE) = ReceiveLeaveAll(st)
    BY <1>7 DEF MrpIn, ReceiveLeaveAll
  <2> QED  BY <2>1, ReceiveLeaveAllKeeps
<1>8. CASE event = "none"
  BY <1>1, <1>8 DEF MrpIn
<1> QED  BY <1>2, <1>3, <1>4, <1>5, <1>6, <1>7, <1>8 DEF AttributeEvent

\* A received PDU deregisters nothing, and what it registers has a Join pending.
LEMMA ProcessKeeps ==
  ASSUME NEW st \in Attribute, AttrInv(st), NEW pdu \in Pdu
  PROVE  /\ Process(st, pdu) \in Attribute
         /\ AttrInv(Process(st, pdu))
         /\ Keeps(st, Process(st, pdu))
<1> DEFINE left == IF pdu.leaveAll THEN ReceiveLeaveAll(st) ELSE st
<1>1. left \in Attribute /\ AttrInv(left) /\ Keeps(st, left)
  BY ReceiveLeaveAllKeeps, KeepsItself
<1>2. /\ MrpIn(left, pdu.value, TRUE) \in Attribute
      /\ AttrInv(MrpIn(left, pdu.value, TRUE))
      /\ Keeps(left, MrpIn(left, pdu.value, TRUE))
  BY <1>1, MrpInKeeps DEF Pdu
<1>3. CASE Begun(st)
  <2>1. Process(st, pdu) = MrpIn(left, pdu.value, TRUE)
    BY <1>3 DEF Process
  <2> HIDE DEF left
  <2> QED  BY <1>1, <1>2, <2>1, KeepsTrans
<1>4. CASE ~Begun(st)
  BY <1>4, KeepsItself DEF Process
<1> QED  BY <1>3, <1>4

LEMMA AfterTxKeeps ==
  ASSUME NEW st \in Attribute, AttrInv(st), NEW leaving \in BOOLEAN
  PROVE  /\ AfterTx(st, leaving) \in Attribute
         /\ AttrInv(AfterTx(st, leaving))
         /\ Keeps(st, AfterTx(st, leaving))
<1> DEFINE r == BeforeTx(st, leaving)
           a == IF leaving THEN OnTxLeaveAll(r.app) ELSE OnTx(r.app)
<1>1. r \in Attribute /\ AttrInv(r) /\ Keeps(st, r)
  BY StartLeavingKeeps, KeepsItself DEF BeforeTx
<1>2. r.app \in Applicant
  BY <1>1 DEF Attribute
<1>3. /\ a \in Applicant
      /\ r.app # "DISABLED" => a # "DISABLED"
      /\ r.app = "DISABLED" => a = "DISABLED"
  BY <1>2, ApplicantMoves DEF OnTx, OnTxLeaveAll
<1>4. AfterTx(st, leaving) = [r EXCEPT !.app = a]
  BY DEF AfterTx
<1> HIDE DEF r, a
<1> QED  BY <1>1, <1>3, <1>4, ApplicantMoveKeeps
-----------------------------------------------------------------------------
(***************************************************************************)
(* mrp_periodic on one attribute.                                          *)
(***************************************************************************)
LEMMA AfterJoinTimerKeeps ==
  ASSUME NEW n \in Nodes, attr[n] \in Attribute, AttrInv(attr[n]), NEW leaving \in BOOLEAN
  PROVE  /\ AfterJoinTimer(n, leaving) \in Attribute
         /\ AttrInv(AfterJoinTimer(n, leaving))
         /\ Keeps(attr[n], AfterJoinTimer(n, leaving))
<1> DEFINE st == AfterLeaveAllTimer(n)
<1>1. st \in Attribute /\ AttrInv(st) /\ Keeps(attr[n], st)
  BY ReceiveLeaveAllKeeps, KeepsItself DEF AfterLeaveAllTimer
<1>2. /\ AfterTx(st, leaving) \in Attribute
      /\ AttrInv(AfterTx(st, leaving))
      /\ Keeps(st, AfterTx(st, leaving))
  BY <1>1, AfterTxKeeps
<1>3. Keeps(attr[n], AfterTx(st, leaving))
  BY <1>1, <1>2, KeepsTrans
<1> QED  BY <1>1, <1>2, <1>3 DEF AfterJoinTimer

LEMMA SentIsPdu ==
  ASSUME NEW n, NEW leaving \in BOOLEAN
  PROVE  Sent(n, leaving) \in Pdu
<1>1. \A st : TxValue(st, leaving) \in AttributeEvent \union {"none"}
  BY DEF TxValue, MakeTxEvent, AttributeEvent
<1> QED  BY <1>1 DEF Sent, Pdu, AttributeEvent

\* After the indications and the leaveTimer an attribute has no Join pending,
\* and one it deregistered has its Leave pending.
LEMMA LeaveTimerKeeps ==
  ASSUME NEW st \in Attribute, AttrInv(st)
  PROVE  LET r == AfterLeaveTimer(Delivered(st)) IN
         /\ r \in Attribute
         /\ AttrInv(r)
         /\ r.app = st.app
         /\ r.pend \intersect Joins = {}
         /\ Holds(r) => Holds(st)
         /\ Begun(st) /\ Holds(st) => Holds(r) \/ "LEAVE" \in r.pend
<1> DEFINE d == Delivered(st)
           r == AfterLeaveTimer(d)
<1>1. /\ d \in Attribute /\ d.app = st.app /\ d.reg = st.reg
      /\ d.leaveTimer = st.leaveTimer /\ d.pend = {}
  BY DEF Delivered, Attribute
<1>2. AttrInv(d)
  BY <1>1 DEF AttrInv, TimerInv, ReadyInv, LeaveInv, Begun
<1>3. CASE d.leaveTimer = 0
  <2>1. r = Deregister(d)
    BY <1>3 DEF AfterLeaveTimer
  <2>2. /\ r \in Attribute /\ r.app = d.app /\ r.reg = "MT" /\ r.leaveTimer = TimerOff
        /\ r.pend = IF d.reg = "LV" THEN {"LEAVE"} ELSE {}
    <3>1. r = [d EXCEPT !.leaveTimer = TimerOff, !.reg = "MT",
                        !.pend = IF d.reg = "LV" THEN {"LEAVE"} ELSE {},
                        !.ready = IF d.reg = "LV" THEN FALSE ELSE d.ready]
      BY <1>1, <2>1 DEF Deregister
    <3> HIDE DEF d, r
    <3> QED  BY <1>1, <3>1, LeaveTimerRange DEF Attribute, Registrar, Indication
  <2>3. Begun(st) => d.reg = "LV"
    BY <1>1, <1>2, <1>3 DEF AttrInv, TimerInv, Begun, TimerOff
  <2>4. r.pend \intersect Joins = {}
    BY <2>2 DEF Joins
  <2> HIDE DEF d, r
  <2> QED  BY <1>1, <2>2, <2>3, <2>4
           DEF AttrInv, TimerInv, ReadyInv, LeaveInv, Holds, Begun, d, r
<1>4. CASE d.leaveTimer # 0
  <2>1. r = d
    BY <1>4 DEF AfterLeaveTimer
  <2> QED  BY <1>1, <1>2, <2>1 DEF Holds
<1> QED  BY <1>3, <1>4

-----------------------------------------------------------------------------
(***************************************************************************)
(* Every attribute, in every reachable state.                              *)
(***************************************************************************)
AttrsInv == \A n \in Nodes : AttrInv(attr[n])

LEMMA MadBeginKeeps ==
  ASSUME NEW st \in Attribute, AttrInv(st)
  PROVE  /\ MadBegin(st) \in Attribute /\ AttrInv(MadBegin(st))
         /\ MadJoinNew(MadBegin(st)) \in Attribute /\ AttrInv(MadJoinNew(MadBegin(st)))
         /\ MadBegin(st).reg = "MT" /\ Begun(MadBegin(st)) /\ MadBegin(st).pend = st.pend
<1> DEFINE b == MadBegin(st)
<1>1. /\ b \in Attribute /\ b.reg = "MT" /\ b.leaveTimer = TimerOff /\ b.app = "VO"
      /\ b.pend = st.pend /\ b.ready = st.ready
  BY LeaveTimerRange DEF MadBegin, Attribute, Registrar, Applicant, Observing
<1> HIDE DEF b
<1>2. AttrInv(b)
  BY <1>1 DEF AttrInv, TimerInv, ReadyInv, LeaveInv, Begun
<1>3. MadJoinNew(b) = [b EXCEPT !.app = "VN"]
  BY DEF MadJoinNew
<1>4. /\ MadJoinNew(b) \in Attribute /\ AttrInv(MadJoinNew(b))
  BY <1>1, <1>2, <1>3, KeepsItself, ApplicantMoveKeeps DEF Applicant, Declaring
<1> QED  BY <1>1, <1>2, <1>4 DEF b, Begun

LEMMA MadLeaveKeeps ==
  ASSUME NEW st \in Attribute, AttrInv(st)
  PROVE  MadLeave(st) \in Attribute /\ AttrInv(MadLeave(st))
<1>1. st.app \in Applicant
  BY DEF Attribute
<1>2. /\ OnLv(st.app) \in Applicant
      /\ st.app # "DISABLED" => OnLv(st.app) # "DISABLED"
      /\ st.app = "DISABLED" => OnLv(st.app) = "DISABLED"
  BY <1>1, ApplicantMoves DEF OnLv
<1> QED  BY <1>2, KeepsItself, ApplicantMoveKeeps DEF MadLeave

LEMMA TickKeeps ==
  ASSUME NEW st \in Attribute, AttrInv(st), st.leaveTimer # 0,
         NEW r, r = [st EXCEPT !.leaveTimer = IF @ = TimerOff THEN TimerOff ELSE @ - 1]
  PROVE  /\ r \in Attribute /\ AttrInv(r)
         /\ r.app = st.app /\ r.reg = st.reg /\ r.pend = st.pend
<1> DEFINE t == IF st.leaveTimer = TimerOff THEN TimerOff ELSE st.leaveTimer - 1
<1>1. st.leaveTimer \in TimerOff .. LeavePeriod
  BY DEF Attribute
<1>2. t \in TimerOff .. LeavePeriod /\ (t = TimerOff <=> st.leaveTimer = TimerOff)
  BY <1>1, LeavePeriodAssumption DEF TimerOff
<1>3. r = [st EXCEPT !.leaveTimer = t]
  OBVIOUS
<1> HIDE DEF t
<1>4. /\ r \in Attribute /\ r.app = st.app /\ r.reg = st.reg /\ r.pend = st.pend
      /\ r.ready = st.ready /\ r.leaveTimer = t
  BY <1>2, <1>3 DEF Attribute
<1> QED  BY <1>2, <1>4 DEF AttrInv, TimerInv, ReadyInv, LeaveInv, Begun
LEMMA AttrsStep ==
  ASSUME TypeOK, AttrsInv, [Next]_vars
  PROVE  TypeOK' /\ AttrsInv'
<1> USE DEF TypeOK, AttrsInv
<1>1. CASE SourcePotential
  <2>1. MadBegin(attr[Talker]) \in Attribute /\ AttrInv(MadBegin(attr[Talker]))
    BY MadBeginKeeps DEF Nodes
  <2> QED  BY <1>1, <2>1 DEF SourcePotential, StreamState, Nodes
<1>2. CASE SourceDisabled
  BY <1>2 DEF SourceDisabled, mrpVars, StreamState
<1>3. ASSUME NEW l \in Listeners, SinkPotential(l) PROVE TypeOK' /\ AttrsInv'
  <2>1. /\ MadJoinNew(MadBegin(attr[l])) \in Attribute
        /\ AttrInv(MadJoinNew(MadBegin(attr[l])))
    BY MadBeginKeeps DEF Nodes
  <2>2. 0 \in 0 .. SettledMax
    BY LeavePeriodAssumption, ReservationAssumption DEF SettledMax
  <2> QED  BY <1>3, <2>1, <2>2 DEF SinkPotential, Nodes
<1>4. ASSUME NEW l \in Listeners, SinkDisabled(l) PROVE TypeOK' /\ AttrsInv'
  <2>1. MadLeave(attr[l]) \in Attribute /\ AttrInv(MadLeave(attr[l]))
    BY MadLeaveKeeps DEF Nodes
  <2>2. 0 \in 0 .. SettledMax
    BY LeavePeriodAssumption, ReservationAssumption DEF SettledMax
  <2> QED  BY <1>4, <2>1, <2>2 DEF SinkDisabled, Nodes
<1>5. ASSUME NEW n \in Nodes, ReceivePdu(n) PROVE TypeOK' /\ AttrsInv'
  <2>1. net[n] \in Seq(Pdu) /\ net[n] # <<>>
    BY <1>5 DEF ReceivePdu
  <2>2. Head(net[n]) \in Pdu /\ Tail(net[n]) \in Seq(Pdu)
    BY <2>1
  <2>3. Process(attr[n], Head(net[n])) \in Attribute /\ AttrInv(Process(attr[n], Head(net[n])))
    BY <2>2, ProcessKeeps
  <2>4. staleJoin' \in BOOLEAN
    BY <1>5 DEF ReceivePdu
  <2> QED  BY <1>5, <2>2, <2>3, <2>4 DEF ReceivePdu
<1>6. ASSUME NEW n \in Nodes, LosePdu(n) PROVE TypeOK' /\ AttrsInv'
  <2>1. net[n] \in Seq(Pdu) /\ net[n] # <<>>
    BY <1>6 DEF LosePdu
  <2>2. Tail(net[n]) \in Seq(Pdu)
    BY <2>1
  <2>3. losses + 1 \in 0 .. MaxLosses
    BY <1>6, ReservationAssumption DEF LosePdu
  <2> QED  BY <1>6, <2>2, <2>3 DEF LosePdu
<1>7. ASSUME NEW n \in Nodes, Periodic(n) PROVE TypeOK' /\ AttrsInv'
  <2> DEFINE leaving == leaveAll[n] \/ LeaveAllDue(n)
             st == AfterJoinTimer(n, leaving)
             pdu == Sent(n, leaving)
             r == AfterLeaveTimer(Delivered(st))
  <2>1. leaving \in BOOLEAN
    OBVIOUS
  <2>2. st \in Attribute /\ AttrInv(st)
    BY <2>1, AfterJoinTimerKeeps
  <2>3. r \in Attribute /\ AttrInv(r)
    BY <2>2, LeaveTimerKeeps
  <2>4. attr' = [attr EXCEPT ![n] = r]
    BY <1>7 DEF Periodic
  <2>5. attr' \in [Nodes -> Attribute] /\ AttrsInv'
    BY <2>3, <2>4
  <2>6. net' \in [Nodes -> Seq(Pdu)]
    <3>1. pdu \in Pdu
      BY <2>1, SentIsPdu
    <3>2. \A m \in Nodes : Append(net[m], pdu) \in Seq(Pdu)
      BY <3>1
    <3>3. \/ net' = net
          \/ net' = [m \in Nodes |-> IF m = n THEN net[m] ELSE Append(net[m], pdu)]
      BY <1>7 DEF Periodic
    <3> HIDE DEF pdu
    <3> QED  BY <3>2, <3>3
  <2>7. joinTimer' \in [Nodes -> 0 .. JoinPeriod] /\ leaveAllTimer' \in [Nodes -> 0 .. LeaveAllPeriod]
    <3>1. JoinPeriod \in 0 .. JoinPeriod /\ LeaveAllPeriod \in 0 .. LeaveAllPeriod
      BY ReservationAssumption
    <3> QED  BY <1>7, <3>1 DEF Periodic
  <2>8. leaveAll' \in [Nodes -> BOOLEAN]
    <3>1. leaveAll' = [leaveAll EXCEPT ![n] = leaving /\ ~JoinDue(n)]
      BY <1>7 DEF Periodic
    <3> QED  BY <3>1
  <2>9. source' \in StreamState /\ crossed' \in BOOLEAN /\ staleJoin' \in BOOLEAN
    <3>1. CASE n = Talker
      <4>1. /\ source' = LeaveInd(JoinInd(source, st), st)
            /\ crossed' = (Crosses(st) \/ (crossed /\ source' # "ENABLED"))
            /\ staleJoin' = (staleJoin /\ source' # "POTENTIAL")
        BY <1>7, <3>1 DEF Periodic
      <4> HIDE DEF st
      <4>2. crossed' \in BOOLEAN /\ staleJoin' \in BOOLEAN
        BY <4>1
      <4>3. source' \in StreamState
        BY <4>1 DEF JoinInd, LeaveInd, StreamState
      <4> QED  BY <4>2, <4>3
    <3>2. CASE n # Talker
      BY <1>7, <3>2 DEF Periodic
    <3> QED  BY <3>1, <3>2
  <2>10. UNCHANGED <<sink, losses, settled>>
    BY <1>7 DEF Periodic
  <2> HIDE DEF leaving, st, pdu, r
  <2> QED  BY <2>5, <2>6, <2>7, <2>8, <2>9, <2>10
<1>8. CASE Tick
  <2>1. \A n \in Nodes : attr'[n] \in Attribute /\ AttrInv(attr'[n])
    <3> SUFFICES ASSUME NEW n \in Nodes
                 PROVE  attr'[n] \in Attribute /\ AttrInv(attr'[n])
      OBVIOUS
    <3>1. /\ attr[n].leaveTimer # 0
          /\ attr'[n] = [attr[n] EXCEPT !.leaveTimer = IF @ = TimerOff THEN TimerOff ELSE @ - 1]
      BY <1>8 DEF Tick
    <3> QED  BY <3>1, TickKeeps
  <2>2. attr' \in [Nodes -> Attribute]
    <3>1. attr' = [n \in Nodes |-> attr'[n]]
      BY <1>8 DEF Tick
    <3> QED  BY <2>1, <3>1
  <2>3. joinTimer' \in [Nodes -> 0 .. JoinPeriod] /\ leaveAllTimer' \in [Nodes -> 0 .. LeaveAllPeriod]
    <3>1. \A n \in Nodes : joinTimer[n] - 1 \in 0 .. JoinPeriod
      BY <1>8, ReservationAssumption DEF Tick, JoinDue
    <3>2. \A n \in Nodes : leaveAllTimer[n] - 1 \in 0 .. LeaveAllPeriod
      BY <1>8, ReservationAssumption DEF Tick, LeaveAllDue
    <3> QED  BY <1>8, <3>1, <3>2 DEF Tick
  <2>4. settled' \in [Listeners -> 0 .. SettledMax]
    <3>1. SettledMax \in Nat
      BY LeavePeriodAssumption, ReservationAssumption DEF SettledMax
    <3>2. \A k \in 0 .. SettledMax : k # SettledMax => k + 1 \in 0 .. SettledMax
      BY <3>1
    <3>3. \A l \in Listeners : settled[l] # SettledMax => settled[l] + 1 \in 0 .. SettledMax
      BY <3>2
    <3> QED  BY <1>8, <3>3 DEF Tick
  <2> QED  BY <1>8, <2>1, <2>2, <2>3, <2>4 DEF Tick
<1>9. CASE UNCHANGED vars
  BY <1>9 DEF vars
<1> QED  BY <1>1, <1>2, <1>3, <1>4, <1>5, <1>6, <1>7, <1>8, <1>9 DEF Next

LEMMA AttrsInit == Init => TypeOK /\ AttrsInv
<1> SUFFICES ASSUME Init PROVE TypeOK /\ AttrsInv
  OBVIOUS
<1>1. Allocated \in Attribute
  BY LeaveTimerRange DEF Allocated, Attribute, Applicant, Registrar
<1>2. AttrInv(Allocated)
  BY DEF AttrInv, TimerInv, ReadyInv, LeaveInv, Begun, Allocated, Joins
<1>3. /\ joinTimer \in [Nodes -> 0 .. JoinPeriod]
      /\ leaveAllTimer \in [Nodes -> 0 .. LeaveAllPeriod]
  BY ReservationAssumption DEF Init
<1>4. 0 \in 0 .. MaxLosses /\ 0 \in 0 .. SettledMax
  BY ReservationAssumption, LeavePeriodAssumption DEF SettledMax
<1>5. attr \in [Nodes -> Attribute] /\ AttrsInv
  BY <1>1, <1>2 DEF Init, AttrsInv
<1>6. net \in [Nodes -> Seq(Pdu)] /\ settled \in [Listeners -> 0 .. SettledMax]
  BY <1>4 DEF Init
<1> QED  BY <1>3, <1>4, <1>5, <1>6 DEF Init, TypeOK, StreamState
-----------------------------------------------------------------------------
(***************************************************************************)
(* The source and its attribute.  A registration that is still leaving may *)
(* come back without an indication, so what the invariants say of IN has   *)
(* to be said of LV as well.                                               *)
(***************************************************************************)
SourceInv(state, st, stale, cross) ==
  /\ state # "DISABLED" => Begun(st)
  /\ state # "DISABLED" /\ st.pend \intersect Joins # {} => Holds(st) \/ stale
  /\ state = "ENABLED" => Holds(st) \/ "LEAVE" \in st.pend \/ stale
  /\ state = "POTENTIAL" /\ Holds(st) => st.pend \intersect Joins # {} \/ cross

IInv == TypeOK /\ AttrsInv /\ SourceInv(source, attr[Talker], staleJoin, crossed)

\* A step that only registers keeps it, as long as the restart is forgotten no
\* earlier than the registrar moves.
LEMMA SourceKeeps ==
  ASSUME NEW st \in Attribute, NEW r \in Attribute, Keeps(st, r),
         NEW state, NEW stale, NEW stale2, NEW cross,
         SourceInv(state, st, stale, cross), ~Holds(r) /\ stale => stale2
  PROVE  SourceInv(state, r, stale2, cross)
<1>1. st.pend \intersect Joins # {} => r.pend \intersect Joins # {}
  BY DEF Keeps
<1> QED  BY <1>1 DEF SourceInv, Keeps

\* The indications mrp_periodic delivers move the source with the registrar.
LEMMA IndicationsKeep ==
  ASSUME NEW st \in Attribute, AttrInv(st), NEW state \in StreamState,
         NEW stale \in BOOLEAN, NEW cross \in BOOLEAN, SourceInv(state, st, stale, cross),
         NEW state2, state2 = LeaveInd(JoinInd(state, st), st),
         NEW stale2, stale2 = (stale /\ state2 # "POTENTIAL"),
         NEW cross2, cross2 = (Crosses(st) \/ (cross /\ state2 # "ENABLED"))
  PROVE  SourceInv(state2, AfterLeaveTimer(Delivered(st)), stale2, cross2)
<1> DEFINE r == AfterLeaveTimer(Delivered(st))
<1>1. /\ r.app = st.app /\ r.pend \intersect Joins = {}
      /\ Holds(r) => Holds(st)
      /\ Begun(st) /\ Holds(st) => Holds(r) \/ "LEAVE" \in r.pend
  BY LeaveTimerKeeps
<1> HIDE DEF r
<1>2. state2 # "DISABLED" => state # "DISABLED" /\ Begun(st)
  BY DEF LeaveInd, JoinInd, SourceInv
<1>3. state2 = "ENABLED" => Holds(r) \/ "LEAVE" \in r.pend \/ stale2
  <2> SUFFICES ASSUME state2 = "ENABLED" PROVE Holds(r) \/ "LEAVE" \in r.pend \/ stale2
    OBVIOUS
  <2>1. "LEAVE" \notin st.pend
    BY DEF LeaveInd
  <2>2. \/ state = "ENABLED"
        \/ state # "DISABLED" /\ st.pend \intersect Joins # {}
    BY DEF LeaveInd, JoinInd
  <2>3. Holds(st) \/ stale
    BY <2>1, <2>2 DEF SourceInv
  <2> QED  BY <1>1, <1>2, <2>3
<1>4. state2 = "POTENTIAL" /\ Holds(r) => cross2
  <2> SUFFICES ASSUME state2 = "POTENTIAL", Holds(r) PROVE cross2
    OBVIOUS
  <2>1. Holds(st)
    BY <1>1
  <2>2. CASE state = "POTENTIAL"
    <3>1. st.pend \intersect Joins # {} \/ cross
      BY <2>1, <2>2 DEF SourceInv
    <3>2. st.pend \intersect Joins # {} => "LEAVE" \in st.pend
      BY <2>2 DEF LeaveInd, JoinInd, AttrInv, ReadyInv
    <3> QED  BY <3>1, <3>2 DEF Crosses
  <2>3. CASE state = "ENABLED"
    <3>1. "LEAVE" \in st.pend
      BY <2>3 DEF LeaveInd, JoinInd
    <3>2. st.pend \intersect Joins # {}
      BY <2>1, <3>1 DEF AttrInv, LeaveInv, Holds
    <3> QED  BY <3>1, <3>2 DEF Crosses
  <2> QED  BY <1>2, <2>2, <2>3 DEF StreamState
<1> QED  BY <1>1, <1>2, <1>3, <1>4 DEF SourceInv, Begun, r

LEMMA SourceStep ==
  ASSUME IInv, [Next]_vars
  PROVE  SourceInv(source, attr[Talker], staleJoin, crossed)'
<1> DEFINE st == attr[Talker]
<1> USE DEF IInv
<1>1. /\ st \in Attribute /\ AttrInv(st) /\ Talker \in Nodes
      /\ source \in StreamState /\ staleJoin \in BOOLEAN /\ crossed \in BOOLEAN
  BY DEF TypeOK, AttrsInv, Nodes
<1>2. CASE SourcePotential
  <2>1. attr'[Talker] = MadBegin(st)
    BY <1>1, <1>2 DEF SourcePotential, TypeOK
  <2>2. /\ MadBegin(st).reg = "MT" /\ Begun(MadBegin(st)) /\ MadBegin(st).pend = st.pend
    BY <1>1, MadBeginKeeps
  <2> QED  BY <1>2, <2>1, <2>2 DEF SourcePotential, SourceInv, Holds
<1>3. CASE SourceDisabled
  BY <1>3 DEF SourceDisabled, mrpVars, SourceInv
<1>4. ASSUME NEW l \in Listeners, SinkPotential(l) \/ SinkDisabled(l)
      PROVE  SourceInv(source, attr[Talker], staleJoin, crossed)'
  <2>1. attr'[Talker] = st
    BY <1>1, <1>4, ReservationAssumption DEF SinkPotential, SinkDisabled, TypeOK
  <2> QED  BY <1>4, <2>1 DEF SinkPotential, SinkDisabled
<1>5. ASSUME NEW n \in Nodes, ReceivePdu(n)
      PROVE  SourceInv(source, attr[Talker], staleJoin, crossed)'
  <2>1. CASE n = Talker
    <3> DEFINE r == Process(st, Head(net[Talker]))
    <3>1. net[Talker] \in Seq(Pdu) /\ net[Talker] # <<>>
      BY <1>1, <1>5, <2>1 DEF ReceivePdu, TypeOK
    <3>2. Head(net[Talker]) \in Pdu
      BY <3>1
    <3>3. r \in Attribute /\ Keeps(st, r)
      BY <1>1, <3>2, ProcessKeeps
    <3>4. /\ attr'[Talker] = r
          /\ UNCHANGED <<source, crossed>>
          /\ staleJoin' = (staleJoin /\ r.reg = "MT")
      BY <1>1, <1>5, <2>1 DEF ReceivePdu, TypeOK
    <3> HIDE DEF r, st
    <3>5. ~Holds(r) /\ staleJoin => staleJoin'
      BY <3>3, <3>4 DEF Holds, Attribute, Registrar
    <3>6. SourceInv(source, r, staleJoin', crossed)
      BY <1>1, <3>3, <3>5, SourceKeeps DEF st
    <3> QED  BY <3>4, <3>6
  <2>2. CASE n # Talker
    <3>1. attr'[Talker] = st /\ UNCHANGED <<source, crossed>>
          /\ staleJoin' = (staleJoin /\ st.reg = "MT")
      BY <1>1, <1>5, <2>2 DEF ReceivePdu, TypeOK
    <3>2. ~Holds(st) /\ staleJoin => staleJoin'
      BY <1>1, <3>1 DEF Holds, Attribute, Registrar
    <3>3. SourceInv(source, st, staleJoin', crossed)
      BY <1>1, <3>2, KeepsItself, SourceKeeps
    <3> QED  BY <3>1, <3>3
  <2> QED  BY <2>1, <2>2
<1>6. ASSUME NEW n \in Nodes, LosePdu(n)
      PROVE  SourceInv(source, attr[Talker], staleJoin, crossed)'
  BY <1>6 DEF LosePdu
<1>7. ASSUME NEW n \in Nodes, Periodic(n)
      PROVE  SourceInv(source, attr[Talker], staleJoin, crossed)'
  <2>1. CASE n = Talker
    <3> DEFINE leaving == leaveAll[n] \/ LeaveAllDue(n)
               tx == AfterJoinTimer(n, leaving)
               r == AfterLeaveTimer(Delivered(tx))
    <3>1. leaving \in BOOLEAN
      BY DEF TypeOK
    <3>2. tx \in Attribute /\ AttrInv(tx) /\ Keeps(st, tx)
      BY <1>1, <2>1, <3>1, AfterJoinTimerKeeps
    <3>3. /\ attr'[Talker] = r
          /\ source' = LeaveInd(JoinInd(source, tx), tx)
          /\ crossed' = (Crosses(tx) \/ (crossed /\ source' # "ENABLED"))
          /\ staleJoin' = (staleJoin /\ source' # "POTENTIAL")
      BY <1>1, <1>7, <2>1 DEF Periodic, TypeOK
    <3> HIDE DEF leaving, tx, st
    <3>4. SourceInv(source, tx, staleJoin, crossed)
      BY <1>1, <3>2, SourceKeeps DEF st
    <3>5. SourceInv(source', r, staleJoin', crossed')
      BY <1>1, <3>2, <3>3, <3>4, IndicationsKeep
    <3> QED  BY <3>3, <3>5
  <2>2. CASE n # Talker
    BY <1>1, <1>7, <2>2 DEF Periodic, TypeOK
  <2> QED  BY <2>1, <2>2
<1>8. CASE Tick
  <2>1. /\ st.leaveTimer # 0
        /\ attr'[Talker] = [st EXCEPT !.leaveTimer = IF @ = TimerOff THEN TimerOff ELSE @ - 1]
    BY <1>1, <1>8 DEF Tick
  <2>2. /\ attr'[Talker].app = st.app /\ attr'[Talker].reg = st.reg
        /\ attr'[Talker].pend = st.pend
    BY <1>1, <2>1, TickKeeps
  <2> QED  BY <1>8, <2>2 DEF Tick, SourceInv, Begun, Holds
<1>9. CASE UNCHANGED vars
  BY <1>9 DEF vars
<1> QED  BY <1>2, <1>3, <1>4, <1>5, <1>6, <1>7, <1>8, <1>9 DEF Next

LEMMA IInvInit == Init => IInv
<1>1. Init => SourceInv(source, attr[Talker], staleJoin, crossed)
  BY DEF Init, SourceInv, Allocated, Joins, Nodes
<1> QED  BY <1>1, AttrsInit DEF IInv

LEMMA IInvStep == IInv /\ [Next]_vars => IInv'
BY AttrsStep, SourceStep DEF IInv

LEMMA IInvAlways == Spec => []IInv
BY IInvInit, IInvStep, PTL DEF Spec

-----------------------------------------------------------------------------
(***************************************************************************)
(* A listener that stays is heard in time.  A LeaveAll, or another         *)
(* listener's Leave, leaves the registrar of the talker LV with its        *)
(* leaveTimer running.  From there the question is who holds the token:    *)
(* the Join that saves the registration is on the way, or a listener is in *)
(* a state that sends it at its next joinTimer, or the talker still has to *)
(* send the LeaveAll that puts it in one; and whether what is left of the  *)
(* leaveTimer is more than each of them may still take.                    *)
(***************************************************************************)
Declares(pdu) == pdu.value \in {"New", "JoinIn", "JoinMt"}
Leaves(pdu) == pdu.leaveAll \/ pdu.value = "Lv"

HasJoin(s) == \E i \in DOMAIN s : Declares(s[i])
HasLeave(s) == \E i \in DOMAIN s : Leaves(s[i])

\* Some PDU starts a leaving that none after it ends.
LeavesLast(s) ==
  \E i \in DOMAIN s : Leaves(s[i]) /\ \A j \in DOMAIN s : j >= i => ~Declares(s[j])

\* The states a declaring applicant moves between while it has to declare again.
Prompt == {"VN", "VP", "AP"}

Passive(st) == st.app \in {"DISABLED"} \union Observing

\* The registration at the talker is or will be leaving, with no Join on its way.
Expiring == \/ LeavesLast(net[Talker])
            \/ attr[Talker].reg = "LV" /\ ~HasJoin(net[Talker])

Eager(l) == attr[l].app \in Prompt \/ HasLeave(net[l])

\* The ticks a prompt listener takes to declare: to its joinTimer, and one more
\* period if its own LeaveAll takes the place of the Join.
LeavesNext(l) == leaveAll[l] \/ leaveAllTimer[l] <= joinTimer[l]
Delay(l) == joinTimer[l] + IF LeavesNext(l) THEN JoinPeriod ELSE 0

Asked(l) == Expiring => Eager(l) \/ leaveAll[Talker]

InTime(l) ==
  attr[Talker].reg = "LV" /\ Begun(attr[Talker]) =>
    LET left == attr[Talker].leaveTimer IN
    \/ HasJoin(net[Talker]) /\ (left >= 1 \/ settled[l] <= JoinPeriod)
    \/ Eager(l) /\ (left > 2 * JoinPeriod \/ (attr[l].app \in Prompt /\ left > Delay(l)))
    \/ leaveAll[Talker] /\ left > joinTimer[Talker] + 2 * JoinPeriod
    \/ attr[l].app = "VN" /\ settled[l] + joinTimer[l] <= JoinPeriod

Served(l) ==
  /\ "LEAVE" \in attr[Talker].pend => settled[l] <= JoinPeriod
  /\ sink[l] = "POTENTIAL" => Asked(l) /\ InTime(l)

\* What holds however many PDUs are lost.
RolesInv ==
  /\ Passive(attr[Talker])
  /\ ~Begun(attr[Talker]) => attr[Talker].reg # "LV"
  /\ \A n \in Nodes :
       leaveAll[n] => leaveAllTimer[n] - joinTimer[n] >= LeaveAllPeriod - JoinPeriod
  /\ \A l \in Listeners : sink[l] = "DISABLED" => settled[l] = 0
  /\ \A l \in Listeners : sink[l] = "POTENTIAL" => attr[l].app \in Declaring

\* What holds on a network that loses nothing.
AllServed == losses = 0 => \A l \in Listeners : Served(l)

\* The worst case: the talker's LeaveAll waits for its joinTimer, the Join for
\* the listener's, and once more behind the listener's own LeaveAll.
TimersApart == LeavePeriod > 3 * JoinPeriod /\ LeaveAllPeriod > 2 * JoinPeriod

-----------------------------------------------------------------------------
\* What a PDU at the end of a queue changes.
LEMMA AppendedPdu ==
  ASSUME NEW s \in Seq(Pdu), NEW p \in Pdu
  PROVE  LET t == Append(s, p) IN
         /\ HasJoin(t) <=> HasJoin(s) \/ Declares(p)
         /\ HasLeave(t) <=> HasLeave(s) \/ Leaves(p)
         /\ LeavesLast(t) <=> ~Declares(p) /\ (LeavesLast(s) \/ Leaves(p))
<1> DEFINE t == Append(s, p)
<1>1. /\ DOMAIN s = 1 .. Len(s) /\ DOMAIN t = 1 .. Len(s) + 1 /\ Len(s) \in Nat
      /\ \A i \in 1 .. Len(s) : t[i] = s[i]
      /\ t[Len(s) + 1] = p
  OBVIOUS
<1>2. DOMAIN t = DOMAIN s \union {Len(s) + 1} /\ \A i \in DOMAIN s : i < Len(s) + 1
  BY <1>1
<1> HIDE DEF t
<1>3. HasJoin(t) <=> HasJoin(s) \/ Declares(p)
  BY <1>1, <1>2 DEF HasJoin
<1>4. HasLeave(t) <=> HasLeave(s) \/ Leaves(p)
  BY <1>1, <1>2 DEF HasLeave
<1>5. ASSUME LeavesLast(t) PROVE ~Declares(p) /\ (LeavesLast(s) \/ Leaves(p))
  <2>1. PICK i \in DOMAIN t : Leaves(t[i]) /\ \A j \in DOMAIN t : j >= i => ~Declares(t[j])
    BY <1>5 DEF LeavesLast
  <2>2. Len(s) + 1 >= i
    BY <1>1
  <2>3. ~Declares(p)
    BY <1>1, <1>2, <2>1, <2>2
  <2>4. CASE i = Len(s) + 1
    BY <1>1, <2>1, <2>3, <2>4
  <2>5. CASE i \in DOMAIN s
    <3>1. Leaves(s[i]) /\ \A j \in DOMAIN s : j >= i => ~Declares(s[j])
      BY <1>1, <1>2, <2>1, <2>5
    <3> QED  BY <2>3, <2>5, <3>1 DEF LeavesLast
  <2> QED  BY <1>2, <2>1, <2>4, <2>5
<1>6. ASSUME ~Declares(p), LeavesLast(s) PROVE LeavesLast(t)
  <2>1. PICK i \in DOMAIN s : Leaves(s[i]) /\ \A j \in DOMAIN s : j >= i => ~Declares(s[j])
    BY <1>6 DEF LeavesLast
  <2>2. i \in DOMAIN t /\ Leaves(t[i]) /\ \A j \in DOMAIN t : j >= i => ~Declares(t[j])
    BY <1>1, <1>2, <1>6, <2>1
  <2> QED  BY <2>2 DEF LeavesLast
<1>7. ASSUME ~Declares(p), Leaves(p) PROVE LeavesLast(t)
  <2> DEFINE e == Len(s) + 1
  <2>1. e \in DOMAIN t /\ Leaves(t[e]) /\ \A j \in DOMAIN t : j >= e => j = e
    BY <1>1, <1>7
  <2> HIDE DEF e
  <2>2. t[e] = p
    BY <1>1 DEF e
  <2> QED  BY <1>7, <2>1, <2>2 DEF LeavesLast
<1> QED  BY <1>3, <1>4, <1>5, <1>6, <1>7 DEF t

\* What a PDU taken from the front of a queue changes.
LEMMA TakenPdu ==
  ASSUME NEW s \in Seq(Pdu), s # <<>>
  PROVE  LET h == Head(s)
             t == Tail(s)
         IN  /\ HasJoin(s) <=> Declares(h) \/ HasJoin(t)
             /\ HasLeave(s) <=> Leaves(h) \/ HasLeave(t)
             /\ LeavesLast(t) => LeavesLast(s)
             /\ Leaves(h) /\ ~Declares(h) /\ ~HasJoin(t) => LeavesLast(s)
<1> DEFINE h == Head(s)
           t == Tail(s)
<1>1. /\ DOMAIN s = 1 .. Len(s) /\ DOMAIN t = 1 .. Len(s) - 1 /\ Len(s) \in Nat \ {0}
      /\ \A i \in 1 .. Len(s) - 1 : t[i] = s[i + 1]
      /\ s[1] = h
  OBVIOUS
<1>2. /\ 1 \in DOMAIN s
      /\ \A i \in DOMAIN t : i + 1 \in DOMAIN s /\ t[i] = s[i + 1]
      /\ \A i \in DOMAIN s : i = 1 \/ (i - 1 \in DOMAIN t /\ s[i] = t[i - 1])
  <2>1. \A i \in DOMAIN s : i = 1 \/ (i - 1 \in 1 .. Len(s) - 1 /\ (i - 1) + 1 = i)
    BY <1>1
  <2> QED  BY <1>1, <2>1
<1> HIDE DEF h, t
<1>3. HasJoin(s) <=> Declares(h) \/ HasJoin(t)
  BY <1>1, <1>2 DEF HasJoin
<1>4. HasLeave(s) <=> Leaves(h) \/ HasLeave(t)
  BY <1>1, <1>2 DEF HasLeave
<1>5. ASSUME LeavesLast(t) PROVE LeavesLast(s)
  <2>1. PICK i \in DOMAIN t : Leaves(t[i]) /\ \A j \in DOMAIN t : j >= i => ~Declares(t[j])
    BY <1>5 DEF LeavesLast
  <2>2. \A j \in DOMAIN s : j >= i + 1 => j - 1 \in DOMAIN t /\ j - 1 >= i
    BY <1>1
  <2>3. \A j \in DOMAIN s : j >= i + 1 => ~Declares(s[j])
    <3> SUFFICES ASSUME NEW j \in DOMAIN s, j >= i + 1 PROVE ~Declares(s[j])
      OBVIOUS
    <3>1. j # 1
      BY <1>1
    <3> QED  BY <1>2, <2>1, <2>2, <3>1
  <2> QED  BY <1>2, <2>1, <2>3 DEF LeavesLast
<1>6. ASSUME Leaves(h), ~Declares(h), ~HasJoin(t) PROVE LeavesLast(s)
  <2>1. \A j \in DOMAIN s : ~Declares(s[j])
    BY <1>3, <1>6 DEF HasJoin
  <2> QED  BY <1>1, <1>2, <1>6, <2>1 DEF LeavesLast
<1> QED  BY <1>3, <1>4, <1>5, <1>6 DEF h, t

LEMMA EmptyQueue == ~HasJoin(<<>>) /\ ~HasLeave(<<>>) /\ ~LeavesLast(<<>>)
BY DEF HasJoin, HasLeave, LeavesLast

-----------------------------------------------------------------------------
(***************************************************************************)
(* What one value, a whole PDU and a transmission do to an attribute.      *)
(***************************************************************************)
LEMMA ObserverMoves ==
  ASSUME NEW a \in Observing
  PROVE  /\ OnMt(a) \in Observing /\ OnIn(a) \in Observing /\ OnJoinIn(a) \in Observing
         /\ OnLeave(a) \in Observing /\ OnTx(a) \in Observing /\ OnTxLeaveAll(a) \in Observing
<1>1. OnMt(a) \in Observing /\ OnIn(a) \in Observing /\ OnJoinIn(a) \in Observing
  BY DEF OnMt, OnIn, OnJoinIn, Observing
<1>2. OnLeave(a) \in Observing /\ OnTx(a) \in Observing /\ OnTxLeaveAll(a) \in Observing
  BY DEF OnLeave, OnTx, OnTxLeaveAll, Observing
<1> QED  BY <1>1, <1>2

LEMMA DeclarerMoves ==
  ASSUME NEW a \in Declaring
  PROVE  /\ \A b \in {OnMt(a), OnIn(a), OnJoinIn(a), OnLeave(a)} :
              /\ b \in Declaring
              /\ a \in Prompt => b \in Prompt
              /\ a = "VN" => b = "VN"
         /\ OnLeave(a) \in Prompt
         /\ OnTx(a) \in Declaring /\ OnTxLeaveAll(a) \in Declaring
<1>1. ASSUME NEW b \in {OnMt(a), OnIn(a), OnJoinIn(a), OnLeave(a)}
      PROVE  b \in Declaring /\ (a \in Prompt => b \in Prompt) /\ (a = "VN" => b = "VN")
  BY DEF OnMt, OnIn, OnJoinIn, OnLeave, Declaring, Prompt
<1>2. OnLeave(a) \in Prompt /\ OnTx(a) \in Declaring /\ OnTxLeaveAll(a) \in Declaring
  BY DEF OnLeave, OnTx, OnTxLeaveAll, Declaring, Prompt
<1> QED  BY <1>1, <1>2

\* mrp_in on the parts of an attribute the argument is about.
LEMMA MrpInApplicant ==
  ASSUME NEW st \in Attribute, NEW event \in AttributeEvent \union {"none"}
  PROVE  /\ MrpIn(st, event, TRUE).app \in
              {st.app, OnMt(st.app), OnIn(st.app), OnJoinIn(st.app), OnLeave(st.app)}
         /\ event = "Lv" => MrpIn(st, event, TRUE).app = OnLeave(st.app)
<1>1. CASE event \in {"New", "none"}
  BY <1>1 DEF MrpIn, RegisterNew, Attribute
<1>2. CASE event \in {"JoinIn", "JoinMt"}
  <2> DEFINE j == RegisterJoin(st, TRUE)
             a == IF event = "JoinIn" THEN OnJoinIn(j.app) ELSE OnMt(j.app)
  <2>1. j \in Attribute /\ j.app = st.app
    BY LeaveTimerRange DEF RegisterJoin, Attribute, Registrar, Indication
  <2>2. MrpIn(st, event, TRUE) = [j EXCEPT !.app = a]
    BY <1>2 DEF MrpIn
  <2>3. a \in {OnJoinIn(st.app), OnMt(st.app)}
    BY <2>1
  <2> HIDE DEF j, a
  <2>4. MrpIn(st, event, TRUE).app = a
    BY <2>1, <2>2 DEF Attribute
  <2> QED  BY <1>2, <2>3, <2>4
<1>3. CASE event \in {"In", "Mt"}
  <2> DEFINE a == IF event = "In" THEN OnIn(st.app) ELSE OnMt(st.app)
  <2>1. MrpIn(st, event, TRUE) = [st EXCEPT !.app = a]
    BY <1>3 DEF MrpIn
  <2>2. a \in {OnIn(st.app), OnMt(st.app)}
    OBVIOUS
  <2> HIDE DEF a
  <2>3. MrpIn(st, event, TRUE).app = a
    BY <2>1 DEF Attribute
  <2> QED  BY <1>3, <2>2, <2>3
<1>4. CASE event = "Lv"
  <2> DEFINE w == StartLeaving(st)
  <2>1. w \in Attribute /\ w.app = st.app
    BY LeaveTimerRange DEF StartLeaving, Attribute, Registrar
  <2>2. MrpIn(st, event, TRUE) = [w EXCEPT !.app = OnLeave(w.app)]
    BY <1>4 DEF MrpIn
  <2> HIDE DEF w
  <2>3. MrpIn(st, event, TRUE).app = OnLeave(st.app)
    BY <2>1, <2>2 DEF Attribute
  <2> QED  BY <2>3
<1> QED  BY <1>1, <1>2, <1>3, <1>4 DEF AttributeEvent

LEMMA MrpInRegistrar ==
  ASSUME NEW st \in Attribute, NEW event \in AttributeEvent \union {"none"}
  PROVE  /\ "LEAVE" \in MrpIn(st, event, TRUE).pend <=> "LEAVE" \in st.pend
         /\ event \in {"New", "JoinIn", "JoinMt"} => MrpIn(st, event, TRUE).reg = "IN"
         /\ MrpIn(st, event, TRUE).reg = "LV" =>
              \/ st.reg = "LV" /\ MrpIn(st, event, TRUE).leaveTimer = st.leaveTimer
              \/ event = "Lv" /\ MrpIn(st, event, TRUE).leaveTimer = LeavePeriod
<1>1. CASE event = "New"
  BY <1>1 DEF MrpIn, RegisterNew, Attribute
<1>2. CASE event \in {"JoinIn", "JoinMt"}
  <2> DEFINE j == RegisterJoin(st, TRUE)
  <2>1. j \in Attribute /\ j.reg = "IN" /\ ("LEAVE" \in j.pend <=> "LEAVE" \in st.pend)
    BY LeaveTimerRange DEF RegisterJoin, Attribute, Registrar, Indication
  <2>2. MrpIn(st, event, TRUE)
          = [j EXCEPT !.app = IF event = "JoinIn" THEN OnJoinIn(j.app) ELSE OnMt(j.app)]
    BY <1>2 DEF MrpIn
  <2> HIDE DEF j
  <2>3. MrpIn(st, event, TRUE).reg = j.reg /\ MrpIn(st, event, TRUE).pend = j.pend
    BY <2>1, <2>2 DEF Attribute
  <2> QED  BY <1>2, <2>1, <2>3
<1>3. CASE event \in {"In", "Mt"}
  <2>1. MrpIn(st, event, TRUE)
          = [st EXCEPT !.app = IF event = "In" THEN OnIn(st.app) ELSE OnMt(st.app)]
    BY <1>3 DEF MrpIn
  <2>2. /\ MrpIn(st, event, TRUE).reg = st.reg /\ MrpIn(st, event, TRUE).pend = st.pend
        /\ MrpIn(st, event, TRUE).leaveTimer = st.leaveTimer
    BY <2>1 DEF Attribute
  <2> QED  BY <1>3, <2>2
<1>4. CASE event = "Lv"
  <2> DEFINE w == StartLeaving(st)
  <2>1. /\ w \in Attribute /\ w.pend = st.pend
        /\ w.reg = "LV" => \/ st.reg = "LV" /\ w.leaveTimer = st.leaveTimer
                           \/ w.leaveTimer = LeavePeriod
    BY LeaveTimerRange DEF StartLeaving, Attribute, Registrar
  <2>2. MrpIn(st, event, TRUE) = [w EXCEPT !.app = OnLeave(w.app)]
    BY <1>4 DEF MrpIn
  <2> HIDE DEF w
  <2>3. /\ MrpIn(st, event, TRUE).reg = w.reg /\ MrpIn(st, event, TRUE).pend = w.pend
        /\ MrpIn(st, event, TRUE).leaveTimer = w.leaveTimer
    BY <2>1, <2>2 DEF Attribute
  <2> QED  BY <1>4, <2>1, <2>3
<1>5. CASE event = "none"
  BY <1>5 DEF MrpIn
<1> QED  BY <1>1, <1>2, <1>3, <1>4, <1>5 DEF AttributeEvent

LEMMA LeaveAllMoves ==
  ASSUME NEW st \in Attribute, NEW r, r = ReceiveLeaveAll(st)
  PROVE  /\ r \in Attribute
         /\ r.app = OnLeave(st.app) /\ r.pend = st.pend
         /\ r.reg = "LV" => \/ st.reg = "LV" /\ r.leaveTimer = st.leaveTimer
                            \/ r.leaveTimer = LeavePeriod
<1> DEFINE w == StartLeaving(st)
<1>1. /\ w \in Attribute /\ w.app = st.app /\ w.pend = st.pend
      /\ w.reg = "LV" => \/ st.reg = "LV" /\ w.leaveTimer = st.leaveTimer
                         \/ w.leaveTimer = LeavePeriod
  BY LeaveTimerRange DEF StartLeaving, Attribute, Registrar
<1>2. OnLeave(st.app) \in Applicant
  BY ApplicantMoves DEF Attribute
<1>3. r = [w EXCEPT !.app = OnLeave(st.app)]
  BY <1>1 DEF ReceiveLeaveAll
<1> HIDE DEF w
<1>4. /\ r \in Attribute /\ r.app = OnLeave(st.app) /\ r.pend = w.pend /\ r.reg = w.reg
      /\ r.leaveTimer = w.leaveTimer
  BY <1>1, <1>2, <1>3 DEF Attribute
<1> QED  BY <1>1, <1>4

\* The talker, which never declares the attribute, receives a PDU.
LEMMA TalkerReceives ==
  ASSUME NEW st \in Attribute, Passive(st), NEW pdu \in Pdu,
         NEW r, r = Process(st, pdu)
  PROVE  /\ Passive(r) /\ (Begun(r) <=> Begun(st))
         /\ "LEAVE" \in r.pend <=> "LEAVE" \in st.pend
         /\ ~Begun(st) => r = st
         /\ Begun(st) /\ Declares(pdu) => r.reg = "IN"
         /\ Begun(st) /\ r.reg = "LV" =>
              \/ st.reg = "LV" /\ r.leaveTimer = st.leaveTimer
              \/ Leaves(pdu) /\ r.leaveTimer = LeavePeriod
<1> DEFINE left == IF pdu.leaveAll THEN ReceiveLeaveAll(st) ELSE st
<1>1. CASE ~Begun(st)
  BY <1>1 DEF Process
<1>2. CASE Begun(st)
  <2>1. st.app \in Observing
    BY <1>2 DEF Passive, Begun
  <2>2. /\ left \in Attribute /\ left.app \in Observing /\ left.pend = st.pend
        /\ left.reg = "LV" => \/ st.reg = "LV" /\ left.leaveTimer = st.leaveTimer
                              \/ pdu.leaveAll /\ left.leaveTimer = LeavePeriod
    BY <2>1, LeaveAllMoves, ObserverMoves
  <2>3. r = MrpIn(left, pdu.value, TRUE) /\ pdu.value \in AttributeEvent \union {"none"}
    BY <1>2 DEF Process, Pdu
  <2> HIDE DEF left
  <2>4. /\ r.app \in Observing
        /\ "LEAVE" \in r.pend <=> "LEAVE" \in left.pend
        /\ Declares(pdu) => r.reg = "IN"
        /\ r.reg = "LV" => \/ left.reg = "LV" /\ r.leaveTimer = left.leaveTimer
                           \/ pdu.value = "Lv" /\ r.leaveTimer = LeavePeriod
    <3>1. /\ r.app \in {left.app, OnMt(left.app), OnIn(left.app), OnJoinIn(left.app),
                        OnLeave(left.app)}
      BY <2>2, <2>3, MrpInApplicant
    <3>2. /\ "LEAVE" \in r.pend <=> "LEAVE" \in left.pend
          /\ pdu.value \in {"New", "JoinIn", "JoinMt"} => r.reg = "IN"
          /\ r.reg = "LV" => \/ left.reg = "LV" /\ r.leaveTimer = left.leaveTimer
                             \/ pdu.value = "Lv" /\ r.leaveTimer = LeavePeriod
      <4> DEFINE q == MrpIn(left, pdu.value, TRUE)
      <4>1. "LEAVE" \in q.pend <=> "LEAVE" \in left.pend
        BY <2>2, <2>3, MrpInRegistrar
      <4>2. pdu.value \in {"New", "JoinIn", "JoinMt"} => q.reg = "IN"
        BY <2>2, <2>3, MrpInRegistrar
      <4>3. q.reg = "LV" => \/ left.reg = "LV" /\ q.leaveTimer = left.leaveTimer
                            \/ pdu.value = "Lv" /\ q.leaveTimer = LeavePeriod
        BY <2>2, <2>3, MrpInRegistrar
      <4> HIDE DEF q
      <4>4. r = q
        BY <2>3 DEF q
      <4> QED  BY <4>1, <4>2, <4>3, <4>4
    <3> DEFINE a == left.app
    <3> HIDE DEF a
    <3>3. /\ a \in Observing /\ OnMt(a) \in Observing /\ OnIn(a) \in Observing
          /\ OnJoinIn(a) \in Observing /\ OnLeave(a) \in Observing
      BY <2>2, ObserverMoves DEF a
    <3> QED  BY <3>1, <3>2, <3>3 DEF Declares, a
  <2>5. r.app # "DISABLED"
    BY <2>4 DEF Observing
  <2>6. r.reg = "LV" => \/ st.reg = "LV" /\ r.leaveTimer = st.leaveTimer
                        \/ Leaves(pdu) /\ r.leaveTimer = LeavePeriod
    BY <2>2, <2>4 DEF Leaves
  <2> QED  BY <1>2, <2>2, <2>4, <2>5, <2>6 DEF Passive, Begun
<1> QED  BY <1>1, <1>2

\* A listener that has subscribed receives a PDU: a Leave makes it prompt, and
\* nothing it hears makes it less so.
LEMMA ListenerReceives ==
  ASSUME NEW st \in Attribute, st.app \in Declaring, NEW pdu \in Pdu,
         NEW r, r = Process(st, pdu)
  PROVE  /\ r.app \in Declaring
         /\ st.app \in Prompt \/ Leaves(pdu) => r.app \in Prompt
         /\ st.app = "VN" => r.app = "VN"
<1> DEFINE left == IF pdu.leaveAll THEN ReceiveLeaveAll(st) ELSE st
<1>1. /\ left \in Attribute /\ left.app \in Declaring
      /\ st.app \in Prompt \/ pdu.leaveAll => left.app \in Prompt
      /\ st.app = "VN" => left.app = "VN"
  BY LeaveAllMoves, DeclarerMoves
<1>2. Begun(st)
  BY DEF Begun, Declaring
<1>3. r = MrpIn(left, pdu.value, TRUE) /\ pdu.value \in AttributeEvent \union {"none"}
  BY <1>2 DEF Process, Pdu
<1> HIDE DEF left
<1>4. /\ r.app \in Declaring
      /\ left.app \in Prompt \/ pdu.value = "Lv" => r.app \in Prompt
      /\ left.app = "VN" => r.app = "VN"
  <2>1. /\ r.app \in {left.app, OnMt(left.app), OnIn(left.app), OnJoinIn(left.app),
                      OnLeave(left.app)}
        /\ pdu.value = "Lv" => r.app = OnLeave(left.app)
    BY <1>1, <1>3, MrpInApplicant
  <2> DEFINE a == left.app
  <2> HIDE DEF a
  <2>2. /\ a \in Declaring /\ OnLeave(a) \in Prompt
        /\ \A b \in {OnMt(a), OnIn(a), OnJoinIn(a), OnLeave(a)} :
             b \in Declaring /\ (a \in Prompt => b \in Prompt) /\ (a = "VN" => b = "VN")
    BY <1>1, DeclarerMoves DEF a
  <2> QED  BY <2>1, <2>2 DEF a
<1> QED  BY <1>1, <1>4 DEF Leaves
LEMMA TxMoves ==
  ASSUME NEW st \in Attribute, NEW leaving \in BOOLEAN
  PROVE  /\ AfterTx(st, leaving) \in Attribute
         /\ AfterTx(st, leaving).app = IF leaving THEN OnTxLeaveAll(st.app) ELSE OnTx(st.app)
         /\ AfterTx(st, leaving).pend = st.pend
         /\ AfterTx(st, leaving).reg = "LV" =>
              \/ st.reg = "LV" /\ AfterTx(st, leaving).leaveTimer = st.leaveTimer
              \/ leaving /\ AfterTx(st, leaving).leaveTimer = LeavePeriod
<1> DEFINE w == BeforeTx(st, leaving)
           a == IF leaving THEN OnTxLeaveAll(st.app) ELSE OnTx(st.app)
<1>1. /\ w \in Attribute /\ w.app = st.app /\ w.pend = st.pend
      /\ w.reg = "LV" => \/ st.reg = "LV" /\ w.leaveTimer = st.leaveTimer
                         \/ leaving /\ w.leaveTimer = LeavePeriod
  BY LeaveTimerRange DEF BeforeTx, StartLeaving, Attribute, Registrar
<1>2. a \in Applicant
  BY ApplicantMoves DEF Attribute
<1>3. AfterTx(st, leaving) = [w EXCEPT !.app = a]
  BY <1>1 DEF AfterTx
<1> HIDE DEF w, a
<1>4. /\ AfterTx(st, leaving) \in Attribute
      /\ AfterTx(st, leaving).app = a /\ AfterTx(st, leaving).pend = w.pend
      /\ AfterTx(st, leaving).reg = w.reg /\ AfterTx(st, leaving).leaveTimer = w.leaveTimer
  BY <1>1, <1>2, <1>3 DEF Attribute
<1>5. AfterTx(st, leaving).reg = "LV" =>
        \/ st.reg = "LV" /\ AfterTx(st, leaving).leaveTimer = st.leaveTimer
        \/ leaving /\ AfterTx(st, leaving).leaveTimer = LeavePeriod
  BY <1>1, <1>4
<1>6. AfterTx(st, leaving).app = IF leaving THEN OnTxLeaveAll(st.app) ELSE OnTx(st.app)
  BY <1>4 DEF a
<1> QED  BY <1>1, <1>4, <1>5, <1>6

\* The talker never declares; a listener declares unless it is quiet, or all it
\* may say with its LeaveAll is that it is very anxious and passive.
LEMMA TxOfObserver ==
  ASSUME NEW st \in Attribute, st.app \in Observing, NEW leaving \in BOOLEAN
  PROVE  TxValue(st, leaving) \in {"In", "Mt", "none"}
<1>1. CASE leaving
  BY <1>1 DEF TxValue, Sends, TxStates, Observing
<1>2. CASE ~leaving
  BY <1>2 DEF TxValue, Sends, TxStates, MakeTxEvent, BeforeTx, Observing
<1> QED  BY <1>1, <1>2

LEMMA TxOfDeclarer ==
  ASSUME NEW st \in Attribute, st.app \in Declaring, NEW leaving \in BOOLEAN,
         TxValue(st, leaving) \notin {"New", "JoinIn", "JoinMt"}
  PROVE  \/ leaving /\ st.app = "VP"
         \/ ~leaving /\ st.app \in {"QA", "QP"} /\ TxValue(st, leaving) = "none"
<1>1. CASE leaving
  <2> DEFINE w == BeforeTx(st, leaving)
  <2>1. w.app = st.app
    BY DEF BeforeTx, StartLeaving, Attribute
  <2>2. TxValue(st, leaving) = MakeTxEvent(w, TRUE)
    BY <1>1 DEF TxValue, Sends, TxStates, Declaring
  <2> HIDE DEF w
  <2>3. SUFFICES ASSUME st.app # "VP" PROVE FALSE
    BY <1>1
  <2>4. MakeTxEvent(w, TRUE) \in {"New", "JoinIn", "JoinMt"}
    BY <2>1, <2>3 DEF MakeTxEvent, Declaring
  <2> QED  BY <2>2, <2>4
<1>2. CASE ~leaving
  <2>1. CASE st.app \in {"QA", "QP"}
    BY <1>2, <2>1 DEF TxValue, Sends, TxStates
  <2>2. CASE st.app \in {"VP", "VN", "AN", "AA", "AP"}
    <3>1. TxValue(st, leaving) = MakeTxEvent(st, FALSE)
      BY <1>2, <2>2 DEF TxValue, Sends, TxStates, BeforeTx
    <3>2. MakeTxEvent(st, FALSE) \in {"New", "JoinIn", "JoinMt"}
      BY <2>2 DEF MakeTxEvent
    <3> QED  BY <3>1, <3>2
  <2> QED  BY <2>1, <2>2 DEF Declaring
<1> QED  BY <1>1, <1>2

\* The indications and the leaveTimer at the end of mrp_periodic.
LEMMA ExpiryMoves ==
  ASSUME NEW st \in Attribute
  PROVE  LET r == AfterLeaveTimer(Delivered(st)) IN
         /\ r.app = st.app
         /\ r.reg = "LV" => st.reg = "LV" /\ r.leaveTimer = st.leaveTimer
         /\ "LEAVE" \in r.pend => st.reg = "LV" /\ st.leaveTimer = 0
<1> DEFINE d == Delivered(st)
<1>1. /\ d \in Attribute /\ d.app = st.app /\ d.reg = st.reg
      /\ d.leaveTimer = st.leaveTimer /\ d.pend = {}
  BY DEF Delivered, Attribute
<1> HIDE DEF d
<1>2. AfterLeaveTimer(d) = IF d.leaveTimer = 0 THEN Deregister(d) ELSE d
  BY DEF AfterLeaveTimer
<1>3. /\ Deregister(d).app = d.app /\ Deregister(d).reg = "MT"
      /\ Deregister(d).pend = IF d.reg = "LV" THEN {"LEAVE"} ELSE {}
  BY <1>1 DEF Deregister, Attribute
<1>4. /\ AfterLeaveTimer(d).app = st.app
      /\ AfterLeaveTimer(d).reg = "LV" => st.reg = "LV" /\ AfterLeaveTimer(d).leaveTimer = st.leaveTimer
      /\ "LEAVE" \in AfterLeaveTimer(d).pend => st.reg = "LV" /\ st.leaveTimer = 0
  BY <1>1, <1>2, <1>3
<1> QED  BY <1>4 DEF d

\* One turn of mrp_periodic at the talker.
LEMMA TalkerTurn ==
  ASSUME attr[Talker] \in Attribute, Passive(attr[Talker]),
         ~Begun(attr[Talker]) => attr[Talker].reg # "LV", LeavePeriod > 0,
         NEW leaving \in BOOLEAN, LeaveAllDue(Talker) => leaving,
         NEW r, r = AfterLeaveTimer(Delivered(AfterJoinTimer(Talker, leaving)))
  PROVE  /\ Passive(r) /\ (Begun(r) <=> Begun(attr[Talker]))
         /\ r.reg = "LV" =>
              /\ Begun(attr[Talker])
              /\ \/ attr[Talker].reg = "LV" /\ r.leaveTimer = attr[Talker].leaveTimer
                 \/ leaving /\ r.leaveTimer = LeavePeriod
         /\ "LEAVE" \in r.pend => attr[Talker].reg = "LV" /\ attr[Talker].leaveTimer = 0
         /\ ~Declares(Sent(Talker, leaving))
         /\ Sent(Talker, leaving).leaveAll = leaving
<1> DEFINE st == attr[Talker]
           a == AfterLeaveAllTimer(Talker)
           x == AfterJoinTimer(Talker, leaving)
<1>1. /\ r.app = x.app
      /\ r.reg = "LV" => x.reg = "LV" /\ r.leaveTimer = x.leaveTimer
      /\ "LEAVE" \in r.pend => x.reg = "LV" /\ x.leaveTimer = 0
  <2>1. x \in Attribute
    <3>1. a \in Attribute
      BY LeaveAllMoves DEF AfterLeaveAllTimer
    <3> QED  BY <3>1, TxMoves DEF AfterJoinTimer
  <2> HIDE DEF x
  <2>2. r = AfterLeaveTimer(Delivered(x))
    BY DEF x
  <2> QED  BY <2>1, <2>2, ExpiryMoves
<1>2. CASE ~Begun(st)
  <2>1. a = st
    BY <1>2 DEF AfterLeaveAllTimer
  <2>2. x = st
    BY <1>2, <2>1 DEF AfterJoinTimer
  <2>3. Sent(Talker, leaving) = [leaveAll |-> leaving, value |-> "none"]
    BY <1>2, <2>1 DEF Sent
  <2> HIDE DEF x, a
  <2> QED  BY <1>1, <1>2, <2>2, <2>3 DEF Declares, Passive, Begun
<1>3. CASE Begun(st)
  <2>0. st.app \in Observing
    BY <1>3 DEF Passive, Begun
  <2>1. /\ a \in Attribute /\ a.app \in Observing
        /\ a.reg = "LV" => \/ st.reg = "LV" /\ a.leaveTimer = st.leaveTimer
                           \/ leaving /\ a.leaveTimer = LeavePeriod
    <3>1. CASE LeaveAllDue(Talker)
      <4>1. a = ReceiveLeaveAll(st)
        BY <1>3, <3>1 DEF AfterLeaveAllTimer
      <4> HIDE DEF a, st
      <4> QED  BY <2>0, <3>1, <4>1, LeaveAllMoves, ObserverMoves DEF st
    <3>2. CASE ~LeaveAllDue(Talker)
      BY <2>0, <3>2 DEF AfterLeaveAllTimer
    <3> QED  BY <3>1, <3>2
  <2>2. Begun(a)
    BY <2>1 DEF Begun, Observing
  <2>3. x = IF JoinDue(Talker) THEN AfterTx(a, leaving) ELSE a
    BY <2>2 DEF AfterJoinTimer
  <2>4. /\ Sent(Talker, leaving).leaveAll = leaving
        /\ Sent(Talker, leaving).value = TxValue(a, leaving)
    BY <2>2 DEF Sent
  <2> HIDE DEF a, x, st
  <2>5. /\ x.app \in Observing
        /\ x.reg = "LV" => \/ a.reg = "LV" /\ x.leaveTimer = a.leaveTimer
                           \/ leaving /\ x.leaveTimer = LeavePeriod
    <3>1. CASE JoinDue(Talker)
      <4>1. x = AfterTx(a, leaving)
        BY <2>3, <3>1
      <4>2. x.app \in Observing
        <5>1. x.app = IF leaving THEN OnTxLeaveAll(a.app) ELSE OnTx(a.app)
          BY <2>1, <4>1, TxMoves
        <5>2. OnTxLeaveAll(a.app) \in Observing /\ OnTx(a.app) \in Observing
          BY <2>1, ObserverMoves
        <5> QED  BY <5>1, <5>2
      <4> QED  BY <2>1, <4>1, <4>2, TxMoves
    <3>2. CASE ~JoinDue(Talker)
      BY <2>1, <2>3, <3>2
    <3> QED  BY <3>1, <3>2
  <2>6. x.reg = "LV" => \/ st.reg = "LV" /\ x.leaveTimer = st.leaveTimer
                        \/ leaving /\ x.leaveTimer = LeavePeriod
    BY <2>1, <2>5
  <2>7. TxValue(a, leaving) \in {"In", "Mt", "none"}
    BY <2>1, TxOfObserver
  <2>8. "LEAVE" \in r.pend => st.reg = "LV" /\ st.leaveTimer = 0
    BY <1>1, <2>6
  <2>9. Passive(r) /\ Begun(r)
    BY <1>1, <2>5 DEF Passive, Begun, Observing
  <2> QED  BY <1>1, <1>3, <2>4, <2>6, <2>7, <2>8, <2>9 DEF Declares, st
<1> QED  BY <1>2, <1>3

\* One turn of mrp_periodic at a listener that has subscribed.
LEMMA ListenerTurn ==
  ASSUME NEW l \in Listeners, attr[l] \in Attribute, attr[l].app \in Declaring,
         NEW leaving \in BOOLEAN, LeaveAllDue(l) => leaving,
         NEW r, r = AfterLeaveTimer(Delivered(AfterJoinTimer(l, leaving)))
  PROVE  /\ r.app \in Declaring
         /\ ~JoinDue(l) => /\ attr[l].app \in Prompt => r.app \in Prompt
                           /\ attr[l].app = "VN" => r.app = "VN"
         /\ JoinDue(l) /\ ~Declares(Sent(l, leaving)) =>
              \/ leaving /\ r.app = "VP" /\ attr[l].app # "VN"
              \/ /\ ~leaving /\ r.app = attr[l].app /\ attr[l].app \notin Prompt
                 /\ Sent(l, leaving).value = "none"
         /\ Sent(l, leaving).leaveAll = leaving
<1> DEFINE st == attr[l]
           a == AfterLeaveAllTimer(l)
           x == AfterJoinTimer(l, leaving)
<1>1. Begun(st)
  BY DEF Begun, Declaring
<1>2. /\ a \in Attribute /\ a.app \in Declaring
      /\ a.app = IF LeaveAllDue(l) THEN OnLeave(st.app) ELSE st.app
      /\ st.app \in Prompt => a.app \in Prompt
      /\ st.app = "VN" => a.app = "VN"
  <2>1. CASE LeaveAllDue(l)
    <3>1. a = ReceiveLeaveAll(st)
      BY <1>1, <2>1 DEF AfterLeaveAllTimer
    <3> HIDE DEF a, st
    <3>2. a \in Attribute /\ a.app = OnLeave(st.app)
      BY <3>1, LeaveAllMoves DEF st
    <3>3. /\ OnLeave(st.app) \in Declaring
          /\ st.app \in Prompt => OnLeave(st.app) \in Prompt
          /\ st.app = "VN" => OnLeave(st.app) = "VN"
      BY DeclarerMoves DEF st
    <3> QED  BY <2>1, <3>2, <3>3
  <2>2. CASE ~LeaveAllDue(l)
    BY <2>2 DEF AfterLeaveAllTimer
  <2> QED  BY <2>1, <2>2
<1>3. Begun(a)
  BY <1>2 DEF Begun, Declaring
<1>4. x = IF JoinDue(l) THEN AfterTx(a, leaving) ELSE a
  BY <1>3 DEF AfterJoinTimer
<1>5. /\ Sent(l, leaving).leaveAll = leaving
      /\ Sent(l, leaving).value = TxValue(a, leaving)
  BY <1>3 DEF Sent
<1> HIDE DEF a, x, st
<1>6. /\ x \in Attribute /\ x.app \in Declaring
      /\ JoinDue(l) => x.app = IF leaving THEN OnTxLeaveAll(a.app) ELSE OnTx(a.app)
      /\ ~JoinDue(l) => x = a
  <2>1. CASE JoinDue(l)
    <3>1. /\ x \in Attribute
          /\ x.app = IF leaving THEN OnTxLeaveAll(a.app) ELSE OnTx(a.app)
      BY <1>2, <1>4, <2>1, TxMoves
    <3>2. OnTxLeaveAll(a.app) \in Declaring /\ OnTx(a.app) \in Declaring
      BY <1>2, DeclarerMoves
    <3> QED  BY <2>1, <3>1, <3>2
  <2>2. CASE ~JoinDue(l)
    BY <1>2, <1>4, <2>2
  <2> QED  BY <2>1, <2>2
<1>7. r.app = x.app
  <2>1. r = AfterLeaveTimer(Delivered(x))
    BY DEF x
  <2> QED  BY <1>6, <2>1, ExpiryMoves
<1>8. ASSUME JoinDue(l), ~Declares(Sent(l, leaving))
      PROVE  \/ leaving /\ r.app = "VP" /\ st.app # "VN"
             \/ /\ ~leaving /\ r.app = st.app /\ st.app \notin Prompt
                /\ Sent(l, leaving).value = "none"
  <2>1. \/ leaving /\ a.app = "VP"
        \/ ~leaving /\ a.app \in {"QA", "QP"} /\ TxValue(a, leaving) = "none"
    <3>1. TxValue(a, leaving) \notin {"New", "JoinIn", "JoinMt"}
      BY <1>5, <1>8 DEF Declares
    <3> QED  BY <1>2, <3>1, TxOfDeclarer
  <2>2. CASE leaving /\ a.app = "VP"
    BY <1>2, <1>6, <1>7, <1>8, <2>2 DEF OnTxLeaveAll
  <2>3. CASE ~leaving /\ a.app \in {"QA", "QP"} /\ TxValue(a, leaving) = "none"
    BY <1>2, <1>5, <1>6, <1>7, <1>8, <2>3 DEF OnTx, Prompt
  <2> QED  BY <2>1, <2>2, <2>3
<1> QED  BY <1>2, <1>5, <1>6, <1>7, <1>8 DEF st
-----------------------------------------------------------------------------
(***************************************************************************)
(* The steps of the system.                                                *)
(***************************************************************************)
\* A turn of any endpoint, as the queues and timers see it.
LEMMA TurnFrame ==
  ASSUME IInv, NEW n \in Nodes, Periodic(n),
         NEW leaving, leaving = (leaveAll[n] \/ LeaveAllDue(n)),
         NEW pdu, pdu = Sent(n, leaving)
  PROVE  /\ leaving \in BOOLEAN /\ pdu \in Pdu
         /\ attr'[n] = AfterLeaveTimer(Delivered(AfterJoinTimer(n, leaving)))
         /\ joinTimer'[n] = IF JoinDue(n) THEN JoinPeriod ELSE joinTimer[n]
         /\ leaveAllTimer'[n] = IF LeaveAllDue(n) THEN LeaveAllPeriod ELSE leaveAllTimer[n]
         /\ leaveAll'[n] = (leaving /\ ~JoinDue(n))
         /\ net'[n] = net[n]
         /\ \A m \in Nodes \ {n} :
              /\ attr'[m] = attr[m] /\ joinTimer'[m] = joinTimer[m]
              /\ leaveAllTimer'[m] = leaveAllTimer[m] /\ leaveAll'[m] = leaveAll[m]
              /\ net'[m] = IF JoinDue(n) /\ (pdu.leaveAll \/ pdu.value # "none")
                             THEN Append(net[m], pdu) ELSE net[m]
         /\ UNCHANGED <<sink, losses, settled>>
<1> USE DEF IInv, TypeOK
<1>1. leaving \in BOOLEAN
  OBVIOUS
<1>2. pdu \in Pdu
  BY <1>1, SentIsPdu
<1>3. attr' = [attr EXCEPT ![n] = AfterLeaveTimer(Delivered(AfterJoinTimer(n, leaving)))]
  BY DEF Periodic
<1>4. /\ joinTimer' = [joinTimer EXCEPT ![n] = IF JoinDue(n) THEN JoinPeriod ELSE @]
      /\ leaveAllTimer' = [leaveAllTimer EXCEPT ![n] = IF LeaveAllDue(n) THEN LeaveAllPeriod ELSE @]
      /\ leaveAll' = [leaveAll EXCEPT ![n] = leaving /\ ~JoinDue(n)]
      /\ net' = IF JoinDue(n) /\ (pdu.leaveAll \/ pdu.value # "none")
                  THEN [m \in Nodes |-> IF m = n THEN net[m] ELSE Append(net[m], pdu)]
                  ELSE net
      /\ UNCHANGED <<sink, losses, settled>>
  BY DEF Periodic
<1>5. leaveAll'[n] = (leaving /\ ~JoinDue(n))
  BY <1>4
<1>6. /\ joinTimer'[n] = IF JoinDue(n) THEN JoinPeriod ELSE joinTimer[n]
      /\ leaveAllTimer'[n] = IF LeaveAllDue(n) THEN LeaveAllPeriod ELSE leaveAllTimer[n]
      /\ net'[n] = net[n]
  BY <1>4
<1>7. ASSUME NEW m \in Nodes \ {n}
      PROVE  /\ attr'[m] = attr[m] /\ joinTimer'[m] = joinTimer[m]
             /\ leaveAllTimer'[m] = leaveAllTimer[m] /\ leaveAll'[m] = leaveAll[m]
             /\ net'[m] = IF JoinDue(n) /\ (pdu.leaveAll \/ pdu.value # "none")
                            THEN Append(net[m], pdu) ELSE net[m]
  BY <1>3, <1>4
<1> QED  BY <1>1, <1>2, <1>3, <1>4, <1>5, <1>6, <1>7

LEMMA RolesStep ==
  ASSUME IInv, RolesInv, LeavePeriod > 0, [Next]_vars PROVE RolesInv'
<1>0. /\ Talker \in Nodes /\ Talker \notin Listeners /\ Listeners \subseteq Nodes
      /\ attr \in [Nodes -> Attribute]
      /\ joinTimer \in [Nodes -> 0 .. JoinPeriod] /\ JoinPeriod \in Nat \ {0}
      /\ leaveAllTimer \in [Nodes -> 0 .. LeaveAllPeriod] /\ LeaveAllPeriod \in Nat \ {0}
      /\ leaveAll \in [Nodes -> BOOLEAN]
      /\ settled \in [Listeners -> 0 .. SettledMax]
      /\ sink \in [Listeners -> {"DISABLED", "POTENTIAL"}]
      /\ net \in [Nodes -> Seq(Pdu)]
  BY ReservationAssumption DEF IInv, TypeOK, Nodes
<1>1. CASE SourcePotential
  <2>1. attr'[Talker].app = "VO" /\ attr'[Talker].reg = "MT"
    BY <1>0, <1>1 DEF SourcePotential, MadBegin, Attribute
  <2>2. \A l \in Listeners : attr'[l] = attr[l]
    BY <1>0, <1>1 DEF SourcePotential
  <2> QED  BY <1>1, <2>1, <2>2 DEF SourcePotential, RolesInv, Passive, Begun, Observing
<1>2. CASE SourceDisabled
  BY <1>2 DEF SourceDisabled, mrpVars, RolesInv
<1>3. ASSUME NEW l \in Listeners, SinkPotential(l) PROVE RolesInv'
  <2>1. /\ attr'[Talker] = attr[Talker] /\ \A m \in Listeners \ {l} : attr'[m] = attr[m]
        /\ sink'[l] = "POTENTIAL" /\ \A m \in Listeners \ {l} : sink'[m] = sink[m]
        /\ \A m \in Listeners \ {l} : settled'[m] = settled[m]
        /\ UNCHANGED <<joinTimer, leaveAllTimer, leaveAll>>
    BY <1>0, <1>3 DEF SinkPotential
  <2>2. attr'[l].app = "VN"
    BY <1>0, <1>3 DEF SinkPotential, MadJoinNew, MadBegin, Attribute
  <2> QED  BY <2>1, <2>2 DEF RolesInv, Declaring
<1>4. ASSUME NEW l \in Listeners, SinkDisabled(l) PROVE RolesInv'
  <2>1. /\ attr'[Talker] = attr[Talker] /\ \A m \in Listeners \ {l} : attr'[m] = attr[m]
        /\ sink'[l] = "DISABLED" /\ \A m \in Listeners \ {l} : sink'[m] = sink[m]
        /\ settled'[l] = 0 /\ \A m \in Listeners \ {l} : settled'[m] = settled[m]
        /\ UNCHANGED <<joinTimer, leaveAllTimer, leaveAll>>
    BY <1>0, <1>4 DEF SinkDisabled
  <2> QED  BY <2>1 DEF RolesInv
<1>5. ASSUME NEW n \in Nodes, ReceivePdu(n) PROVE RolesInv'
  <2> DEFINE r == Process(attr[n], Head(net[n]))
  <2>1. /\ attr'[n] = r /\ \A m \in Nodes \ {n} : attr'[m] = attr[m]
        /\ UNCHANGED <<joinTimer, leaveAllTimer, leaveAll, sink, settled>>
    BY <1>0, <1>5 DEF ReceivePdu
  <2>2. attr[n] \in Attribute /\ Head(net[n]) \in Pdu
    BY <1>0, <1>5 DEF ReceivePdu
  <2> HIDE DEF r
  <2>3. CASE n = Talker
    <3>1. Passive(r) /\ (Begun(r) <=> Begun(attr[n])) /\ (~Begun(attr[n]) => r = attr[n])
      BY <2>2, <2>3, TalkerReceives DEF RolesInv, r
    <3> QED  BY <1>0, <2>1, <2>3, <3>1 DEF RolesInv
  <2>4. CASE n \in Listeners
    <3>1. attr[n].app \in Declaring => r.app \in Declaring
      BY <2>2, ListenerReceives DEF r
    <3> QED  BY <1>0, <2>1, <2>4, <3>1 DEF RolesInv
  <2> QED  BY <2>3, <2>4 DEF Nodes
<1>6. ASSUME NEW n \in Nodes, LosePdu(n) PROVE RolesInv'
  BY <1>6 DEF LosePdu, RolesInv
<1>7. ASSUME NEW n \in Nodes, Periodic(n) PROVE RolesInv'
  <2> DEFINE leaving == leaveAll[n] \/ LeaveAllDue(n)
             r == AfterLeaveTimer(Delivered(AfterJoinTimer(n, leaving)))
  <2>1. /\ leaving \in BOOLEAN /\ attr'[n] = r
        /\ joinTimer'[n] = IF JoinDue(n) THEN JoinPeriod ELSE joinTimer[n]
        /\ leaveAllTimer'[n] = IF LeaveAllDue(n) THEN LeaveAllPeriod ELSE leaveAllTimer[n]
        /\ leaveAll'[n] = (leaving /\ ~JoinDue(n))
        /\ \A m \in Nodes \ {n} :
             /\ attr'[m] = attr[m] /\ joinTimer'[m] = joinTimer[m]
             /\ leaveAllTimer'[m] = leaveAllTimer[m] /\ leaveAll'[m] = leaveAll[m]
        /\ UNCHANGED <<sink, settled>>
    BY <1>7, TurnFrame
  <2>2. leaveAll'[n] => leaveAllTimer'[n] - joinTimer'[n] >= LeaveAllPeriod - JoinPeriod
    <3> SUFFICES ASSUME leaveAll'[n]
                 PROVE  leaveAllTimer'[n] - joinTimer'[n] >= LeaveAllPeriod - JoinPeriod
      OBVIOUS
    <3>1. ~JoinDue(n) /\ joinTimer'[n] = joinTimer[n] /\ leaving
      BY <2>1
    <3>2. CASE LeaveAllDue(n)
      BY <1>0, <2>1, <3>1, <3>2
    <3>3. CASE ~LeaveAllDue(n)
      BY <1>0, <2>1, <3>1, <3>3 DEF RolesInv
    <3> QED  BY <3>2, <3>3
  <2>3. \A m \in Nodes :
          leaveAll'[m] => leaveAllTimer'[m] - joinTimer'[m] >= LeaveAllPeriod - JoinPeriod
    BY <2>1, <2>2 DEF RolesInv
  <2>4. LeaveAllDue(n) => leaving
    OBVIOUS
  <2> HIDE DEF leaving
  <2>5. CASE n = Talker
    <3>1. Passive(r) /\ (Begun(r) <=> Begun(attr[n])) /\ (r.reg = "LV" => Begun(attr[n]))
      BY <1>0, <2>1, <2>4, <2>5, TalkerTurn DEF RolesInv
    <3> HIDE DEF r
    <3> QED  BY <1>0, <2>1, <2>3, <2>5, <3>1 DEF RolesInv
  <2>6. CASE n \in Listeners
    <3>1. attr[n].app \in Declaring => r.app \in Declaring
      BY <1>0, <2>1, <2>4, <2>6, ListenerTurn
    <3> HIDE DEF r
    <3> QED  BY <1>0, <2>1, <2>3, <2>6, <3>1 DEF RolesInv
  <2> QED  BY <2>5, <2>6 DEF Nodes
<1>8. CASE Tick
  <2>1. \A n \in Nodes : /\ attr'[n].app = attr[n].app /\ attr'[n].reg = attr[n].reg
                         /\ joinTimer'[n] = joinTimer[n] - 1
                         /\ leaveAllTimer'[n] = leaveAllTimer[n] - 1
    BY <1>0, <1>8 DEF Tick, Attribute
  <2>2. \A l \in Listeners : sink[l] = "DISABLED" => settled'[l] = settled[l]
    BY <1>0, <1>8 DEF Tick
  <2>3. UNCHANGED <<sink, leaveAll>>
    BY <1>8 DEF Tick
  <2>4. \A n \in Nodes : leaveAll[n] =>
          leaveAllTimer'[n] - joinTimer'[n] >= LeaveAllPeriod - JoinPeriod
    BY <1>0, <2>1 DEF RolesInv
  <2> QED  BY <1>0, <2>1, <2>2, <2>3, <2>4 DEF RolesInv, Passive, Begun
<1>9. CASE UNCHANGED vars
  BY <1>9 DEF vars, RolesInv
<1> QED  BY <1>1, <1>2, <1>3, <1>4, <1>5, <1>6, <1>7, <1>8, <1>9 DEF Next
\* The types of what the account of a listener is about.
StateTypes ==
  /\ Talker \in Nodes /\ Talker \notin Listeners /\ Listeners \subseteq Nodes
  /\ attr \in [Nodes -> Attribute]
  /\ joinTimer \in [Nodes -> 0 .. JoinPeriod] /\ JoinPeriod \in Nat \ {0}
  /\ leaveAllTimer \in [Nodes -> 0 .. LeaveAllPeriod] /\ LeaveAllPeriod \in Nat \ {0}
  /\ leaveAll \in [Nodes -> BOOLEAN]
  /\ settled \in [Listeners -> 0 .. SettledMax]
  /\ sink \in [Listeners -> {"DISABLED", "POTENTIAL"}]
  /\ net \in [Nodes -> Seq(Pdu)]
  /\ LeavePeriod \in Nat
  /\ \A n \in Nodes : attr[n].leaveTimer \in TimerOff .. LeavePeriod
  /\ \A n \in Nodes : Begun(attr[n]) => (attr[n].leaveTimer # TimerOff <=> attr[n].reg = "LV")

LEMMA StateTypesHold == IInv => StateTypes
<1> SUFFICES ASSUME IInv PROVE StateTypes
  OBVIOUS
<1>1. \A n \in Nodes : attr[n].leaveTimer \in TimerOff .. LeavePeriod
  BY DEF IInv, TypeOK, Attribute
<1>2. \A n \in Nodes : Begun(attr[n]) => (attr[n].leaveTimer # TimerOff <=> attr[n].reg = "LV")
  BY DEF IInv, AttrsInv, AttrInv, TimerInv
<1> QED  BY <1>1, <1>2, ReservationAssumption, LeavePeriodAssumption
         DEF IInv, TypeOK, StateTypes, Nodes

\* The talker receives: if its registration starts to expire, it was expiring.
LEMMA ServedTalkerReceives ==
  ASSUME IInv, RolesInv, TimersApart, AllServed, ReceivePdu(Talker) PROVE AllServed'
<1>0. StateTypes
  BY StateTypesHold
<1> SUFFICES ASSUME losses = 0, NEW l \in Listeners PROVE Served(l)'
  BY DEF AllServed, ReceivePdu
<1> DEFINE st == attr[Talker]
           r == attr'[Talker]
           q == net[Talker]
           h == Head(q)
           t == Tail(q)
<1>1. /\ r = Process(st, h) /\ net'[Talker] = t
      /\ attr'[l] = attr[l] /\ net'[l] = net[l]
      /\ UNCHANGED <<sink, settled, joinTimer, leaveAllTimer, leaveAll>>
      /\ st \in Attribute /\ Passive(st) /\ q \in Seq(Pdu) /\ q # <<>> /\ h \in Pdu
  BY <1>0 DEF ReceivePdu, StateTypes, RolesInv
<1>2. /\ Begun(r) <=> Begun(st)
      /\ "LEAVE" \in r.pend <=> "LEAVE" \in st.pend
      /\ ~Begun(st) => r = st
      /\ Begun(st) /\ Declares(h) => r.reg = "IN"
      /\ Begun(st) /\ r.reg = "LV" => \/ st.reg = "LV" /\ r.leaveTimer = st.leaveTimer
                                      \/ Leaves(h) /\ r.leaveTimer = LeavePeriod
  <2> HIDE DEF r, st, h
  <2> QED  BY <1>1, TalkerReceives
<1>3. /\ HasJoin(q) <=> Declares(h) \/ HasJoin(t)
      /\ LeavesLast(t) => LeavesLast(q)
      /\ Leaves(h) /\ ~Declares(h) /\ ~HasJoin(t) => LeavesLast(q)
  BY <1>1, TakenPdu
<1>4. ~Begun(st) => st.reg # "LV"
  BY DEF RolesInv
<1>5. Served(l)
  BY DEF AllServed
<1>6. /\ Delay(l)' = Delay(l) /\ Eager(l)' = Eager(l)
  BY <1>1 DEF Delay, LeavesNext, Eager
<1>7. Expiring' => Expiring
  <2> HIDE DEF r, st, q, t, h
  <2>1. Expiring' = (LeavesLast(t) \/ (r.reg = "LV" /\ ~HasJoin(t)))
    BY <1>1 DEF Expiring, r
  <2>2. Expiring = (LeavesLast(q) \/ (st.reg = "LV" /\ ~HasJoin(q)))
    BY DEF Expiring, st, q
  <2> QED  BY <1>2, <1>3, <1>4, <2>1, <2>2
<1>8. sink[l] = "POTENTIAL" => Asked(l)'
  BY <1>1, <1>5, <1>6, <1>7 DEF Served, Asked
<1>9. ASSUME sink[l] = "POTENTIAL", r.reg = "LV", Begun(r) PROVE InTime(l)'
  <2> DEFINE left == st.leaveTimer
             left2 == r.leaveTimer
             J == JoinPeriod
  <2>1. InTime(l)' = (\/ HasJoin(t) /\ (left2 >= 1 \/ settled[l] <= J)
                      \/ Eager(l) /\ (left2 > 2 * J \/ (attr[l].app \in Prompt /\ left2 > Delay(l)))
                      \/ leaveAll[Talker] /\ left2 > joinTimer[Talker] + 2 * J
                      \/ attr[l].app = "VN" /\ settled[l] + joinTimer[l] <= J)
    BY <1>1, <1>6, <1>9 DEF InTime
  <2>2. ~Declares(h)
    BY <1>2, <1>9
  <2>3. CASE st.reg = "LV" /\ left2 = left
    <3>1. \/ HasJoin(q) /\ (left >= 1 \/ settled[l] <= J)
          \/ Eager(l) /\ (left > 2 * J \/ (attr[l].app \in Prompt /\ left > Delay(l)))
          \/ leaveAll[Talker] /\ left > joinTimer[Talker] + 2 * J
          \/ attr[l].app = "VN" /\ settled[l] + joinTimer[l] <= J
      BY <1>2, <1>5, <1>9, <2>3 DEF Served, InTime
    <3> QED  BY <1>3, <2>1, <2>2, <2>3, <3>1
  <2>4. CASE Leaves(h) /\ left2 = LeavePeriod
    <3>1. CASE HasJoin(t)
      BY <1>0, <2>1, <2>4, <3>1 DEF StateTypes, TimersApart
    <3>2. CASE ~HasJoin(t)
      <4>1. Eager(l) \/ leaveAll[Talker]
        BY <1>3, <1>5, <1>9, <2>2, <2>4, <3>2 DEF Served, Asked, Expiring
      <4>2. /\ LeavePeriod > 2 * J
            /\ LeavePeriod > joinTimer[Talker] + 2 * J
        BY <1>0 DEF StateTypes, TimersApart
      <4> QED  BY <2>1, <2>4, <4>1, <4>2
    <3> QED  BY <3>1, <3>2
  <2> QED  BY <1>2, <1>9, <2>3, <2>4
<1>10. sink[l] = "POTENTIAL" => InTime(l)'
  BY <1>9 DEF InTime
<1>11. "LEAVE" \in r.pend => settled[l] <= JoinPeriod
  BY <1>2, <1>5 DEF Served
<1> QED  BY <1>1, <1>8, <1>10, <1>11 DEF Served

\* A listener receives: what it hears does not keep it from declaring.
LEMMA ServedListenerReceives ==
  ASSUME IInv, RolesInv, AllServed, NEW k \in Listeners, ReceivePdu(k) PROVE AllServed'
<1>0. StateTypes
  BY StateTypesHold
<1> SUFFICES ASSUME losses = 0, NEW l \in Listeners PROVE Served(l)'
  BY DEF AllServed, ReceivePdu
<1>1. /\ attr'[Talker] = attr[Talker] /\ net'[Talker] = net[Talker]
      /\ UNCHANGED <<sink, settled, joinTimer, leaveAllTimer, leaveAll>>
      /\ l # k => attr'[l] = attr[l] /\ net'[l] = net[l]
  BY <1>0 DEF ReceivePdu, StateTypes
<1>2. Served(l)
  BY DEF AllServed
<1>3. Delay(l)' = Delay(l) /\ Expiring' = Expiring
  BY <1>1 DEF Delay, LeavesNext, Expiring
<1>4. sink[l] = "POTENTIAL" =>
        /\ Eager(l) => Eager(l)'
        /\ attr[l].app \in Prompt => attr'[l].app \in Prompt
        /\ attr[l].app = "VN" => attr'[l].app = "VN"
  <2>1. CASE l # k
    BY <1>1, <2>1 DEF Eager
  <2>2. CASE l = k
    <3> SUFFICES ASSUME sink[l] = "POTENTIAL"
                 PROVE  /\ Eager(l) => Eager(l)'
                        /\ attr[l].app \in Prompt => attr'[l].app \in Prompt
                        /\ attr[l].app = "VN" => attr'[l].app = "VN"
      OBVIOUS
    <3> DEFINE q == net[l]
               h == Head(q)
               t == Tail(q)
    <3>1. /\ attr'[l] = Process(attr[l], h) /\ net'[l] = t
          /\ attr[l] \in Attribute /\ attr[l].app \in Declaring
          /\ q \in Seq(Pdu) /\ q # <<>> /\ h \in Pdu
      BY <1>0, <2>2 DEF ReceivePdu, StateTypes, RolesInv
    <3>2. HasLeave(q) <=> Leaves(h) \/ HasLeave(t)
      BY <3>1, TakenPdu
    <3>3. /\ attr[l].app \in Prompt \/ Leaves(h) => attr'[l].app \in Prompt
          /\ attr[l].app = "VN" => attr'[l].app = "VN"
      <4> HIDE DEF h
      <4> QED  BY <3>1, ListenerReceives
    <3> QED  BY <3>1, <3>2, <3>3 DEF Eager
  <2> QED  BY <2>1, <2>2
<1> QED  BY <1>1, <1>2, <1>3, <1>4 DEF Served, Asked, InTime
\* The talker's turn: what it starts with a LeaveAll it either keeps to send or
\* has just sent to every listener.
LEMMA ServedTalkerTurn ==
  ASSUME IInv, RolesInv, TimersApart, AllServed, Periodic(Talker) PROVE AllServed'
<1>0. StateTypes
  BY StateTypesHold
<1> DEFINE leaving == leaveAll[Talker] \/ LeaveAllDue(Talker)
           pdu == Sent(Talker, leaving)
           st == attr[Talker]
           r == attr'[Talker]
           J == JoinPeriod
<1>1. /\ leaving \in BOOLEAN /\ pdu \in Pdu
      /\ r = AfterLeaveTimer(Delivered(AfterJoinTimer(Talker, leaving)))
      /\ ~JoinDue(Talker) => joinTimer'[Talker] = joinTimer[Talker]
      /\ leaveAll'[Talker] = (leaving /\ ~JoinDue(Talker))
      /\ net'[Talker] = net[Talker]
      /\ \A m \in Nodes \ {Talker} :
           /\ attr'[m] = attr[m] /\ joinTimer'[m] = joinTimer[m]
           /\ leaveAllTimer'[m] = leaveAllTimer[m] /\ leaveAll'[m] = leaveAll[m]
           /\ net'[m] = IF JoinDue(Talker) /\ (pdu.leaveAll \/ pdu.value # "none")
                          THEN Append(net[m], pdu) ELSE net[m]
      /\ UNCHANGED <<sink, losses, settled>>
  BY <1>0, TurnFrame DEF StateTypes
<1>2. LeaveAllDue(Talker) => leaving
  OBVIOUS
<1>3. leaveAll[Talker] => leaving
  OBVIOUS
<1> HIDE DEF leaving
<1>4. /\ Begun(r) <=> Begun(st)
      /\ r.reg = "LV" => /\ Begun(st)
                         /\ \/ st.reg = "LV" /\ r.leaveTimer = st.leaveTimer
                            \/ leaving /\ r.leaveTimer = LeavePeriod
      /\ "LEAVE" \in r.pend => st.reg = "LV" /\ st.leaveTimer = 0
      /\ ~Declares(pdu) /\ pdu.leaveAll = leaving
  <2>1. /\ st \in Attribute /\ Passive(st) /\ (~Begun(st) => st.reg # "LV")
        /\ LeavePeriod > 0
    BY <1>0 DEF StateTypes, RolesInv, TimersApart
  <2> QED  BY <1>1, <1>2, <2>1, TalkerTurn
<1> HIDE DEF pdu, r, st
<1> SUFFICES ASSUME losses = 0, NEW l \in Listeners PROVE Served(l)'
  BY <1>1 DEF AllServed
<1>5. /\ attr'[l] = attr[l] /\ Delay(l)' = Delay(l)
      /\ net'[l] = IF JoinDue(Talker) /\ (leaving \/ pdu.value # "none")
                     THEN Append(net[l], pdu) ELSE net[l]
  BY <1>0, <1>1, <1>4 DEF StateTypes, Delay, LeavesNext
<1>6. /\ Eager(l) => Eager(l)'
      /\ leaving /\ JoinDue(Talker) => Eager(l)'
      /\ leaving /\ ~JoinDue(Talker) => leaveAll'[Talker] /\ joinTimer'[Talker] = joinTimer[Talker]
  <2>1. net[l] \in Seq(Pdu)
    BY <1>0 DEF StateTypes
  <2>2. HasLeave(net[l]) \/ leaving => HasLeave(Append(net[l], pdu))
    BY <1>1, <1>4, <2>1, AppendedPdu DEF Leaves
  <2> QED  BY <1>1, <1>5, <2>2 DEF Eager
<1>7. Served(l)
  BY DEF AllServed
<1>8. sink[l] = "POTENTIAL" => Asked(l)'
  <2> SUFFICES ASSUME sink[l] = "POTENTIAL", Expiring' PROVE Eager(l)' \/ leaveAll'[Talker]
    BY DEF Asked
  <2>1. CASE leaving
    BY <1>6, <2>1
  <2>2. CASE ~leaving
    <3>1. LeavesLast(net[Talker]) \/ (r.reg = "LV" /\ ~HasJoin(net[Talker]))
      BY <1>1 DEF Expiring, r
    <3>2. Expiring
      BY <1>4, <2>2, <3>1 DEF Expiring, st
    <3> QED  BY <1>3, <1>6, <1>7, <2>2, <3>2 DEF Served, Asked
  <2> QED  BY <2>1, <2>2
<1>9. ASSUME sink[l] = "POTENTIAL", r.reg = "LV" PROVE InTime(l)'
  <2> DEFINE left == st.leaveTimer
             left2 == r.leaveTimer
  <2>1. /\ LeavePeriod > 3 * J /\ joinTimer[Talker] <= J /\ J \in Nat
        /\ joinTimer[Talker] \in Nat /\ LeavePeriod \in Nat
    BY <1>0 DEF StateTypes, TimersApart
  <2>2. SUFFICES \/ HasJoin(net[Talker]) /\ (left2 >= 1 \/ settled[l] <= J)
                 \/ Eager(l)' /\ (left2 > 2 * J \/ (attr[l].app \in Prompt /\ left2 > Delay(l)))
                 \/ leaveAll'[Talker] /\ left2 > joinTimer'[Talker] + 2 * J
                 \/ attr[l].app = "VN" /\ settled[l] + joinTimer[l] <= J
    <3>1. joinTimer'[l] = joinTimer[l]
      BY <1>0, <1>1 DEF StateTypes
    <3> QED  BY <1>1, <1>5, <3>1 DEF InTime, r
  <2>3. CASE st.reg = "LV" /\ left2 = left
    <3>1. \/ HasJoin(net[Talker]) /\ (left >= 1 \/ settled[l] <= J)
          \/ Eager(l) /\ (left > 2 * J \/ (attr[l].app \in Prompt /\ left > Delay(l)))
          \/ leaveAll[Talker] /\ left > joinTimer[Talker] + 2 * J
          \/ attr[l].app = "VN" /\ settled[l] + joinTimer[l] <= J
      BY <1>4, <1>7, <1>9, <2>3 DEF Served, InTime, st
    <3>2. CASE leaveAll[Talker] /\ left > joinTimer[Talker] + 2 * J
      <4>1. left \in Int
        BY <1>0 DEF StateTypes, TimerOff, st
      <4>2. left > 2 * J
        BY <2>1, <3>2, <4>1
      <4> QED  BY <1>3, <1>6, <2>3, <3>2, <4>2
    <3> QED  BY <1>6, <2>3, <3>1, <3>2
  <2>4. CASE leaving /\ left2 = LeavePeriod
    <3>1. LeavePeriod > 2 * J /\ LeavePeriod > joinTimer[Talker] + 2 * J
      BY <2>1
    <3> QED  BY <1>6, <2>4, <3>1
  <2> QED  BY <1>4, <1>9, <2>3, <2>4
<1>10. sink[l] = "POTENTIAL" => InTime(l)'
  BY <1>9 DEF InTime, r
<1>11. ASSUME "LEAVE" \in r.pend PROVE settled[l] <= JoinPeriod
  <2>1. st.reg = "LV" /\ st.leaveTimer = 0 /\ Begun(st)
    BY <1>4, <1>11 DEF RolesInv, st
  <2>2. /\ J \in Nat /\ joinTimer[l] \in Nat /\ joinTimer[Talker] \in Nat /\ settled[l] \in Nat
    BY <1>0 DEF StateTypes, SettledMax
  <2>3. CASE sink[l] = "DISABLED"
    BY <2>2, <2>3 DEF RolesInv
  <2>4. CASE sink[l] = "POTENTIAL"
    <3>1. Delay(l) \in Nat
      BY <2>2 DEF Delay
    <3> QED  BY <1>7, <2>1, <2>2, <2>4, <3>1 DEF Served, InTime, st
  <2> QED  BY <1>0, <2>3, <2>4 DEF StateTypes
<1> QED  BY <1>1, <1>8, <1>10, <1>11 DEF Served, r
\* A listener's turn: a Join it sends is on its way to the talker, a LeaveAll
\* without one reaches the other listeners too and leaves it one more period.
LEMMA ServedListenerTurn ==
  ASSUME IInv, RolesInv, TimersApart, AllServed, NEW k \in Listeners, Periodic(k)
  PROVE  AllServed'
<1>0. StateTypes
  BY StateTypesHold
<1> DEFINE leaving == leaveAll[k] \/ LeaveAllDue(k)
           pdu == Sent(k, leaving)
           sent == JoinDue(k) /\ (pdu.leaveAll \/ pdu.value # "none")
           left == attr[Talker].leaveTimer
           J == JoinPeriod
<1>1. /\ leaving \in BOOLEAN /\ pdu \in Pdu
      /\ attr'[k] = AfterLeaveTimer(Delivered(AfterJoinTimer(k, leaving)))
      /\ joinTimer'[k] = IF JoinDue(k) THEN J ELSE joinTimer[k]
      /\ leaveAllTimer'[k] = IF LeaveAllDue(k) THEN LeaveAllPeriod ELSE leaveAllTimer[k]
      /\ leaveAll'[k] = (leaving /\ ~JoinDue(k))
      /\ net'[k] = net[k]
      /\ \A m \in Nodes \ {k} :
           /\ attr'[m] = attr[m] /\ joinTimer'[m] = joinTimer[m]
           /\ leaveAllTimer'[m] = leaveAllTimer[m] /\ leaveAll'[m] = leaveAll[m]
           /\ net'[m] = IF sent THEN Append(net[m], pdu) ELSE net[m]
      /\ UNCHANGED <<sink, losses, settled>>
  BY <1>0, TurnFrame DEF StateTypes
<1>2. /\ attr'[Talker] = attr[Talker] /\ joinTimer'[Talker] = joinTimer[Talker]
      /\ leaveAll'[Talker] = leaveAll[Talker]
      /\ net'[Talker] = IF sent THEN Append(net[Talker], pdu) ELSE net[Talker]
  BY <1>0, <1>1 DEF StateTypes
<1>3. LeaveAllDue(k) => leaving
  OBVIOUS
<1>4. leaving => leaveAll[k] \/ LeaveAllDue(k)
  OBVIOUS
<1> HIDE DEF leaving, pdu
<1> SUFFICES ASSUME losses = 0, NEW l \in Listeners PROVE Served(l)'
  BY <1>1 DEF AllServed
<1>5. Served(l)
  BY DEF AllServed
<1>6. /\ l # k => /\ attr'[l] = attr[l] /\ Delay(l)' = Delay(l) /\ joinTimer'[l] = joinTimer[l]
                  /\ net'[l] = IF sent THEN Append(net[l], pdu) ELSE net[l]
      /\ sink'[l] = sink[l] /\ settled'[l] = settled[l]
  BY <1>0, <1>1 DEF StateTypes, Delay, LeavesNext
<1>7. "LEAVE" \in attr'[Talker].pend => settled'[l] <= J
  BY <1>2, <1>5, <1>6 DEF Served
<1>8. /\ left \in Int /\ J \in Nat /\ joinTimer[Talker] \in Nat /\ joinTimer[l] \in Nat
      /\ Delay(l) \in Nat /\ settled[l] \in Nat
  BY SMTT(30), <1>0 DEF StateTypes, TimerOff, Delay, SettledMax
<1>9. InTime(l) /\ attr[Talker].reg = "LV" /\ Begun(attr[Talker]) =>
        \/ HasJoin(net[Talker]) /\ (left >= 1 \/ settled[l] <= J)
        \/ Eager(l) /\ (left > 2 * J \/ (attr[l].app \in Prompt /\ left > Delay(l)))
        \/ leaveAll[Talker] /\ left > joinTimer[Talker] + 2 * J
        \/ attr[l].app = "VN" /\ settled[l] + joinTimer[l] <= J
  BY DEF InTime
<1>10. InTime(l)' =
        (attr[Talker].reg = "LV" /\ Begun(attr[Talker]) =>
           \/ HasJoin(net'[Talker]) /\ (left >= 1 \/ settled[l] <= J)
           \/ Eager(l)' /\ (left > 2 * J \/ (attr'[l].app \in Prompt /\ left > Delay(l)'))
           \/ leaveAll[Talker] /\ left > joinTimer[Talker] + 2 * J
           \/ attr'[l].app = "VN" /\ settled[l] + joinTimer'[l] <= J)
  BY <1>2, <1>6 DEF InTime
<1>11. SUFFICES ASSUME sink[l] = "POTENTIAL" PROVE Asked(l)' /\ InTime(l)'
  BY <1>6, <1>7 DEF Served
<1>12. Asked(l) /\ InTime(l)
  BY <1>5, <1>11 DEF Served
<1>13. CASE sent /\ Declares(pdu)
  <2>1. HasJoin(net'[Talker]) /\ ~LeavesLast(net'[Talker])
    BY <1>0, <1>1, <1>2, <1>13, AppendedPdu DEF StateTypes
  <2>2. ~Expiring'
    BY <1>2, <2>1 DEF Expiring
  <2>3. ASSUME attr[Talker].reg = "LV", Begun(attr[Talker]) PROVE left >= 1 \/ settled[l] <= J
    <3>1. CASE left > 2 * J \/ left > Delay(l) \/ left > joinTimer[Talker] + 2 * J
      BY <1>8, <3>1
    <3>2. CASE settled[l] + joinTimer[l] <= J
      BY <1>8, <3>2
    <3> QED  BY <1>9, <1>12, <2>3, <3>1, <3>2
  <2>4. InTime(l)'
    BY <1>10, <2>1, <2>3
  <2> QED  BY <2>2, <2>4 DEF Asked
<1>14. CASE sent /\ ~Declares(pdu)
  <2>1. /\ HasJoin(net'[Talker]) <=> HasJoin(net[Talker])
        /\ LeavesLast(net'[Talker]) => LeavesLast(net[Talker]) \/ Leaves(pdu)
    BY <1>0, <1>1, <1>2, <1>14, AppendedPdu DEF StateTypes
  <2>2. Expiring' => Expiring \/ Leaves(pdu)
    BY <1>2, <2>1 DEF Expiring
  <2>3. CASE l # k
    <3>1. HasLeave(net[l]) \/ Leaves(pdu) => HasLeave(net'[l])
      BY <1>0, <1>1, <1>6, <1>14, <2>3, AppendedPdu DEF StateTypes
    <3>2. (Eager(l) => Eager(l)') /\ (Leaves(pdu) => Eager(l)')
      BY <1>6, <2>3, <3>1 DEF Eager
    <3>3. Asked(l)'
      BY <1>2, <1>12, <2>2, <3>2 DEF Asked
    <3>4. InTime(l)'
      BY <1>6, <1>9, <1>10, <1>12, <2>1, <2>3, <3>2
    <3> QED  BY <3>3, <3>4
  <2>4. CASE l = k
    <3>1. leaving /\ attr'[l].app = "VP" /\ attr[l].app # "VN"
      <4>1. /\ attr[l] \in Attribute /\ attr[l].app \in Declaring
        BY <1>0, <1>11, <2>4 DEF StateTypes, RolesInv
      <4>2. /\ \/ leaving /\ attr'[l].app = "VP" /\ attr[l].app # "VN"
               \/ ~leaving /\ pdu.value = "none"
            /\ pdu.leaveAll = leaving
        BY <1>1, <1>3, <1>14, <2>4, <4>1, ListenerTurn DEF pdu
      <4> QED  BY <1>14, <4>2
    <3>2. Eager(l)' /\ attr'[l].app \in Prompt
      BY <3>1 DEF Eager, Prompt
    <3>3. joinTimer[l] = 0 /\ joinTimer'[l] = J
      BY <1>1, <1>14, <2>4 DEF JoinDue
    <3>4. LeavesNext(l)
      BY <1>4, <2>4, <3>1, <3>3 DEF LeavesNext, LeaveAllDue
    <3>5. Delay(l) = J
      BY <1>8, <3>3, <3>4 DEF Delay
    <3>6. ~LeavesNext(l)'
      <4>1. leaveAll'[l] = FALSE
        BY <1>1, <1>14, <2>4
      <4>2. leaveAllTimer'[l] > J
        <5>1. LeaveAllPeriod \in Nat /\ LeaveAllPeriod > 2 * J /\ leaveAllTimer[l] \in Nat
          BY <1>0 DEF StateTypes, TimersApart
        <5>2. CASE LeaveAllDue(k)
          BY <1>1, <1>8, <2>4, <5>1, <5>2
        <5>3. CASE ~LeaveAllDue(k)
          <6>1. leaveAllTimer[l] - 0 >= LeaveAllPeriod - J
            BY <1>0, <1>4, <2>4, <3>1, <3>3, <5>3 DEF RolesInv, StateTypes
          <6>2. leaveAllTimer'[l] = leaveAllTimer[l]
            BY <1>1, <2>4, <5>3
          <6> QED  BY <1>8, <5>1, <6>1, <6>2
        <5> QED  BY <5>2, <5>3
      <4>3. leaveAllTimer'[l] \in Int
        BY <1>0, <1>1, <2>4 DEF StateTypes
      <4> QED  BY <1>8, <3>3, <4>1, <4>2, <4>3 DEF LeavesNext
    <3>7. Delay(l)' = J
      BY <1>8, <3>3, <3>6 DEF Delay
    <3>8. InTime(l)'
      BY <1>9, <1>10, <1>12, <2>1, <3>1, <3>2, <3>5, <3>7
    <3> QED  BY <3>2, <3>8 DEF Asked
  <2> QED  BY <2>3, <2>4
<1>15. CASE ~sent
  <2>1. net'[Talker] = net[Talker] /\ net'[l] = net[l]
    BY <1>1, <1>2, <1>6, <1>15
  <2>2. Expiring' = Expiring
    BY <1>2, <2>1 DEF Expiring
  <2>3. CASE l # k
    <3>1. Eager(l)' = Eager(l)
      BY <1>6, <2>1, <2>3 DEF Eager
    <3>2. Asked(l)'
      BY <1>2, <1>12, <2>2, <3>1 DEF Asked
    <3>3. InTime(l)'
      BY <1>6, <1>9, <1>10, <1>12, <2>1, <2>3, <3>1
    <3> QED  BY <3>2, <3>3
  <2>4. CASE l = k
    <3>1. attr[l] \in Attribute /\ attr[l].app \in Declaring
      BY <1>0, <1>11, <2>4 DEF StateTypes, RolesInv
    <3>2. CASE JoinDue(k)
      <4>1. /\ ~leaving /\ attr'[l].app = attr[l].app /\ attr[l].app \notin Prompt
        <5>1. pdu.value = "none" /\ pdu.leaveAll = FALSE
          BY <1>1, <1>15, <3>2 DEF Pdu
        <5>2. ~Declares(pdu)
          BY <5>1 DEF Declares
        <5>3. /\ \/ leaving /\ attr'[l].app = "VP" /\ attr[l].app # "VN"
                 \/ ~leaving /\ attr'[l].app = attr[l].app /\ attr[l].app \notin Prompt
              /\ pdu.leaveAll = leaving
          BY <1>1, <1>3, <2>4, <3>1, <3>2, <5>2, ListenerTurn DEF pdu
        <5> QED  BY <5>1, <5>3
      <4>2. Eager(l)' = Eager(l)
        BY <2>1, <4>1 DEF Eager
      <4>3. attr[l].app # "VN"
        BY <4>1 DEF Prompt
      <4>4. InTime(l)'
        BY <1>9, <1>10, <1>12, <2>1, <4>1, <4>2, <4>3
      <4>5. Asked(l)'
        BY <1>2, <1>12, <2>2, <4>2 DEF Asked
      <4> QED  BY <4>4, <4>5
    <3>3. CASE ~JoinDue(k)
      <4>1. /\ attr[l].app \in Prompt => attr'[l].app \in Prompt
            /\ attr[l].app = "VN" => attr'[l].app = "VN"
        BY <1>1, <1>3, <2>4, <3>1, <3>3, ListenerTurn
      <4>2. joinTimer'[l] = joinTimer[l] /\ leaveAll'[l] = leaving
        BY <1>1, <2>4, <3>3
      <4>3. Delay(l)' = Delay(l)
        <5>1. CASE leaving
          <6>1. LeavesNext(l)'
            BY <4>2, <5>1 DEF LeavesNext
          <6>2. LeavesNext(l)
            BY <1>4, <1>8, <2>4, <5>1 DEF LeavesNext, LeaveAllDue
          <6> QED  BY <4>2, <6>1, <6>2 DEF Delay
        <5>2. CASE ~leaving
          <6>1. leaveAllTimer'[l] = leaveAllTimer[l]
            BY <1>1, <1>3, <2>4, <5>2
          <6>2. leaveAll'[l] = FALSE /\ leaveAll[l] = FALSE
            <7>1. ~leaveAll[k]
              BY <5>2 DEF leaving
            <7> QED  BY <1>0, <1>1, <2>4, <4>2, <5>2, <7>1 DEF StateTypes
          <6>3. LeavesNext(l)' = LeavesNext(l)
            BY <4>2, <6>1, <6>2 DEF LeavesNext
          <6> QED  BY <4>2, <6>3 DEF Delay
        <5> QED  BY <1>1, <5>1, <5>2
      <4>4. Eager(l) => Eager(l)'
        BY <2>1, <4>1 DEF Eager
      <4>5. InTime(l)'
        BY <1>9, <1>10, <1>12, <2>1, <4>1, <4>2, <4>3, <4>4
      <4>6. Asked(l)'
        BY <1>2, <1>12, <2>2, <4>4 DEF Asked
      <4> QED  BY <4>5, <4>6
    <3> QED  BY <3>2, <3>3
  <2> QED  BY <2>3, <2>4
<1> QED  BY <1>13, <1>14, <1>15
\* A tick takes as much from the leaveTimer as from every timer it waits for.
LEMMA ServedTick ==
  ASSUME IInv, RolesInv, AllServed, Tick PROVE AllServed'
<1>0. StateTypes
  BY StateTypesHold
<1> SUFFICES ASSUME losses = 0, NEW l \in Listeners PROVE Served(l)'
  BY DEF AllServed, Tick
<1> DEFINE left == attr[Talker].leaveTimer
           J == JoinPeriod
<1>1. /\ \A n \in Nodes : /\ net[n] = <<>> /\ net'[n] = <<>>
                          /\ joinTimer'[n] = joinTimer[n] - 1
                          /\ leaveAllTimer'[n] = leaveAllTimer[n] - 1
                          /\ leaveAll'[n] = leaveAll[n]
                          /\ attr[n].pend = {} /\ attr[n].leaveTimer # 0
      /\ UNCHANGED sink
  BY <1>0 DEF Tick, StateTypes
<1>2. \A n \in Nodes :
        /\ attr'[n].app = attr[n].app /\ attr'[n].reg = attr[n].reg
        /\ attr'[n].pend = attr[n].pend
        /\ attr'[n].leaveTimer = IF attr[n].leaveTimer = TimerOff THEN TimerOff
                                                                  ELSE attr[n].leaveTimer - 1
  BY SMTT(30), <1>0 DEF Tick, StateTypes, Attribute
<1>3. settled[l] \in Nat /\ settled'[l] \in Nat /\ settled'[l] <= settled[l] + 1
  <2>1. settled[l] \in Nat
    BY <1>0 DEF StateTypes, SettledMax
  <2>2. settled'[l] = IF sink[l] = "DISABLED" \/ settled[l] = SettledMax
                        THEN settled[l] ELSE settled[l] + 1
    BY DEF Tick
  <2> QED  BY <2>1, <2>2
<1>4. Served(l)
  BY DEF AllServed
<1>5. /\ Talker \in Nodes /\ l \in Nodes /\ left \in Int /\ J \in Nat
      /\ joinTimer[l] \in Nat /\ joinTimer[Talker] \in Nat /\ leaveAllTimer[l] \in Int
  BY <1>0 DEF StateTypes, TimerOff
<1>6. /\ Eager(l) <=> attr[l].app \in Prompt
      /\ Eager(l)' <=> attr[l].app \in Prompt
      /\ ~HasJoin(net[Talker])
  BY <1>1, <1>2, <1>5, EmptyQueue DEF Eager
<1>7. Expiring' = Expiring
  BY <1>1, <1>2, <1>5 DEF Expiring
<1>8. /\ LeavesNext(l)' = LeavesNext(l)
      /\ Delay(l) \in Nat /\ Delay(l) <= joinTimer[l] + J
      /\ Delay(l)' = Delay(l) - 1
  <2>1. LeavesNext(l)' = LeavesNext(l)
    <3>1. leaveAllTimer[l] - 1 <= joinTimer[l] - 1 <=> leaveAllTimer[l] <= joinTimer[l]
      BY <1>5
    <3> QED  BY <1>1, <1>5, <3>1 DEF LeavesNext
  <2>2. joinTimer'[l] = joinTimer[l] - 1
    BY <1>1, <1>5
  <2>3. CASE LeavesNext(l)
    BY <1>5, <2>1, <2>2, <2>3 DEF Delay
  <2>4. CASE ~LeavesNext(l)
    BY <1>5, <2>1, <2>2, <2>4 DEF Delay
  <2> QED  BY <2>1, <2>3, <2>4
<1>9. sink[l] = "POTENTIAL" => Asked(l)'
  BY <1>1, <1>4, <1>5, <1>6, <1>7 DEF Served, Asked
<1>10. ASSUME sink[l] = "POTENTIAL", attr[Talker].reg = "LV", Begun(attr[Talker])
       PROVE  InTime(l)'
  <2>1. /\ left \in Nat /\ left # 0 /\ attr'[Talker].leaveTimer = left - 1
    BY SMTT(30), <1>0, <1>1, <1>2, <1>5, <1>10 DEF StateTypes, TimerOff
  <2>2. \/ Eager(l) /\ (left > 2 * J \/ (attr[l].app \in Prompt /\ left > Delay(l)))
        \/ leaveAll[Talker] /\ left > joinTimer[Talker] + 2 * J
        \/ attr[l].app = "VN" /\ settled[l] + joinTimer[l] <= J
    BY <1>4, <1>6, <1>10 DEF Served, InTime
  <2>3. joinTimer[l] <= J
    BY <1>0, <1>5 DEF StateTypes
  <2>4. CASE Eager(l) /\ (left > 2 * J \/ (attr[l].app \in Prompt /\ left > Delay(l)))
    <3>1. left - 1 > Delay(l)'
      BY <1>5, <1>8, <2>1, <2>3, <2>4
    <3> QED  BY <1>2, <1>5, <1>6, <2>1, <2>4, <3>1 DEF InTime
  <2>5. CASE leaveAll[Talker] /\ left > joinTimer[Talker] + 2 * J
    <3>1. left - 1 > (joinTimer[Talker] - 1) + 2 * J
      BY <1>5, <2>1, <2>5
    <3> QED  BY <1>1, <1>5, <2>1, <2>5, <3>1 DEF InTime
  <2>6. CASE attr[l].app = "VN" /\ settled[l] + joinTimer[l] <= J
    <3>1. settled'[l] + (joinTimer[l] - 1) <= J
      BY <1>3, <1>5, <2>6
    <3> QED  BY <1>1, <1>2, <1>5, <2>6, <3>1 DEF InTime
  <2> QED  BY <2>2, <2>4, <2>5, <2>6
<1>11. sink[l] = "POTENTIAL" => InTime(l)'
  <2>1. Begun(attr'[Talker]) <=> Begun(attr[Talker])
    BY <1>2, <1>5 DEF Begun
  <2> QED  BY <1>2, <1>5, <1>10, <2>1 DEF InTime
<1>12. "LEAVE" \notin attr'[Talker].pend
  BY <1>1, <1>2, <1>5
<1> QED  BY <1>1, <1>9, <1>11, <1>12 DEF Served

LEMMA ServedStep ==
  ASSUME IInv, RolesInv, TimersApart, AllServed, [Next]_vars PROVE AllServed'
<1>0. StateTypes
  BY StateTypesHold
<1>1. CASE SourcePotential
  <2> SUFFICES ASSUME losses = 0, NEW l \in Listeners PROVE Served(l)'
    BY <1>1 DEF AllServed, SourcePotential
  <2>1. /\ attr'[Talker].reg = "MT" /\ attr'[Talker].pend = attr[Talker].pend
        /\ attr'[l] = attr[l]
        /\ UNCHANGED <<sink, joinTimer, leaveAllTimer, leaveAll, net, settled>>
    BY <1>0, <1>1 DEF SourcePotential, MadBegin, Attribute, StateTypes
  <2>2. Expiring' => Expiring
    BY <2>1 DEF Expiring
  <2>3. Served(l)
    BY DEF AllServed
  <2>4. Eager(l)' = Eager(l)
    BY <2>1 DEF Eager
  <2> QED  BY <2>1, <2>2, <2>3, <2>4 DEF Served, Asked, InTime
<1>2. CASE SourceDisabled
  BY <1>2 DEF SourceDisabled, mrpVars, AllServed, Served, Asked, Eager, Expiring, InTime, Delay,
     LeavesNext
<1>3. ASSUME NEW k \in Listeners, SinkPotential(k) \/ SinkDisabled(k) PROVE AllServed'
  <2> SUFFICES ASSUME losses = 0, NEW l \in Listeners PROVE Served(l)'
    BY <1>3 DEF AllServed, SinkPotential, SinkDisabled
  <2>1. /\ attr'[Talker] = attr[Talker] /\ settled'[k] = 0
        /\ l # k => attr'[l] = attr[l] /\ settled'[l] = settled[l] /\ sink'[l] = sink[l]
        /\ UNCHANGED <<joinTimer, leaveAllTimer, leaveAll, net>>
    BY <1>0, <1>3 DEF SinkPotential, SinkDisabled, StateTypes
  <2>2. Served(l) /\ Expiring' = Expiring /\ JoinPeriod \in Nat /\ joinTimer[l] \in 0 .. JoinPeriod
    BY <1>0, <2>1 DEF AllServed, Expiring, StateTypes
  <2>3. CASE l # k
    <3>1. Eager(l)' = Eager(l) /\ Delay(l)' = Delay(l)
      BY <2>1, <2>3 DEF Eager, Delay, LeavesNext
    <3> QED  BY <2>1, <2>2, <2>3, <3>1 DEF Served, Asked, InTime
  <2>4. CASE l = k /\ SinkPotential(k)
    <3>1. attr'[l].app = "VN"
      BY <1>0, <2>4 DEF SinkPotential, MadJoinNew, MadBegin, Attribute, StateTypes
    <3>2. Eager(l)'
      BY <3>1 DEF Eager, Prompt
    <3>3. settled'[l] + joinTimer'[l] <= JoinPeriod /\ settled'[l] <= JoinPeriod
      BY <2>1, <2>2, <2>4
    <3> QED  BY <3>1, <3>2, <3>3 DEF Served, Asked, InTime
  <2>5. CASE l = k /\ SinkDisabled(k)
    <3>1. sink'[l] = "DISABLED"
      BY <1>0, <2>5 DEF SinkDisabled, StateTypes
    <3> QED  BY <2>1, <2>2, <2>5, <3>1 DEF Served
  <2> QED  BY <1>3, <2>3, <2>4, <2>5
<1>4. ASSUME NEW n \in Nodes, ReceivePdu(n) PROVE AllServed'
  BY <1>4, ServedTalkerReceives, ServedListenerReceives DEF Nodes
<1>5. ASSUME NEW n \in Nodes, LosePdu(n) PROVE AllServed'
  <2>1. losses \in Nat /\ losses' = losses + 1
    BY <1>5, ReservationAssumption DEF LosePdu, IInv, TypeOK
  <2> QED  BY <2>1 DEF AllServed
<1>6. ASSUME NEW n \in Nodes, Periodic(n) PROVE AllServed'
  BY <1>6, ServedTalkerTurn, ServedListenerTurn DEF Nodes
<1>7. CASE Tick
  BY <1>7, ServedTick
<1>8. CASE UNCHANGED vars
  BY <1>8 DEF vars, AllServed, Served, Asked, Eager, Expiring, InTime, Delay, LeavesNext
<1> QED  BY <1>1, <1>2, <1>3, <1>4, <1>5, <1>6, <1>7, <1>8 DEF Next

LEMMA SteadyInit == Init => RolesInv /\ AllServed
<1> SUFFICES ASSUME Init PROVE RolesInv /\ AllServed
  OBVIOUS
<1>1. /\ Talker \in Nodes /\ attr[Talker] = Allocated
      /\ \A n \in Nodes : leaveAll[n] = FALSE
      /\ \A l \in Listeners : sink[l] = "DISABLED" /\ settled[l] = 0
  BY DEF Init, Nodes
<1>2. RolesInv
  BY <1>1 DEF RolesInv, Passive, Allocated
<1>3. \A l \in Listeners : Served(l)
  BY <1>1 DEF Served, Allocated
<1> QED  BY <1>2, <1>3 DEF AllServed

LEMMA SteadyAlways ==
  ASSUME TimersApart PROVE Spec => [](IInv /\ RolesInv /\ AllServed)
<1>1. LeavePeriod > 0
  BY ReservationAssumption, LeavePeriodAssumption DEF TimersApart
<1>2. Init => IInv /\ RolesInv /\ AllServed
  BY IInvInit, SteadyInit
<1>3. IInv /\ RolesInv /\ AllServed /\ [Next]_vars => (IInv /\ RolesInv /\ AllServed)'
  BY <1>1, IInvStep, RolesStep, ServedStep
<1> QED  BY <1>2, <1>3, PTL DEF Spec

-----------------------------------------------------------------------------
(***************************************************************************)
(* The theorems, for any listeners, timer periods and number of losses.    *)
(***************************************************************************)
\* Every variable keeps its type: the timers stay in their ranges, the network
\* holds PDUs only, and sinks are never ENABLED.
THEOREM TypeCorrect == Spec => []TypeOK
BY IInvAlways, PTL DEF IInv

\* mrp_update_state stops and starts leaveTimer in step with the registrar.
THEOREM LeaveTimerRunsExactlyInLv == Spec => []LeaveTimerRunsInLv
<1>1. IInv => LeaveTimerRunsInLv
  BY DEF IInv, AttrsInv, AttrInv, TimerInv, LeaveTimerRunsInLv
<1> QED  BY <1>1, IInvAlways, PTL

\* avb_srp_listener_join_ind is never called without the READY it asks for.
THEOREM PendingJoinsAreReady == Spec => []PendingJoinIsReady
<1>1. IInv => PendingJoinIsReady
  BY DEF IInv, AttrsInv, AttrInv, ReadyInv, PendingJoinIsReady
<1> QED  BY <1>1, IInvAlways, PTL

\* All that mrp_update_state keeps of an attribute, for any listeners, timers
\* and losses.
THEOREM AttributesAreAlwaysSound == Spec => []AttributesAreSound
<1>1. TypeOK /\ LeaveTimerRunsInLv /\ PendingJoinIsReady => AttributesAreSound
  BY DEF AttributesAreSound
<1> QED  BY <1>1, TypeCorrect, LeaveTimerRunsExactlyInLv, PendingJoinsAreReady, PTL

\* A source streams only to a registered listener, or to one whose Leave is on
\* its way, unless it was restarted over an undelivered Join.
THEOREM StreamingIsAlwaysRegistered == Spec => []StreamingIsRegistered
<1>1. IInv => StreamingIsRegistered
  BY DEF IInv, SourceInv, Holds, StreamingIsRegistered
<1> QED  BY <1>1, IInvAlways, PTL

\* A registered listener whose Join has been indicated has the stream, unless
\* a Leave and a Join crossed in one poll.
THEOREM RegisteredIsAlwaysStreaming == Spec => []RegisteredIsStreaming
<1>1. IInv => RegisteredIsStreaming
  BY DEF IInv, SourceInv, Holds, RegisteredIsStreaming
<1> QED  BY <1>1, IInvAlways, PTL

\* On a network that loses nothing a listener that has been subscribed for
\* longer than a joinTimer period is never timed out by the registrar of the
\* talker, whatever the other listeners do and whoever starts a LeaveAll when,
\* if the leaveTimer outlasts three joinTimer periods and a LeaveAll period two:
\* MRP_LEAVETIMER_PERIOD_CENTISECONDS is 80, four of them.
THEOREM SteadyListenersAreNeverDropped ==
  ASSUME TimersApart PROVE Spec => []SteadyListenerIsNeverDropped
<1>1. IInv /\ AllServed => SteadyListenerIsNeverDropped
  <2> SUFFICES ASSUME IInv, AllServed, losses = 0, "LEAVE" \in attr[Talker].pend,
                      NEW l \in Listeners
               PROVE  settled[l] < SettledMax
    BY DEF SteadyListenerIsNeverDropped
  <2>1. settled[l] <= JoinPeriod
    BY DEF AllServed, Served
  <2>2. settled[l] \in Nat /\ JoinPeriod \in Nat \ {0} /\ LeavePeriod \in Nat
    BY StateTypesHold DEF StateTypes, SettledMax
  <2> QED  BY <2>1, <2>2 DEF TimersApart, SettledMax
<1> QED  BY <1>1, SteadyAlways, PTL
=============================================================================
