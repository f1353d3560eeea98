---------------------------- MODULE MrpAttribute ----------------------------
(***************************************************************************)
(* The two state machines an MRP attribute carries (avb_mrp.c): the        *)
(* applicant, which declares the attribute to the LAN, and the registrar,  *)
(* which remembers that somebody else declares it.  Pure operators: every  *)
(* one maps an attribute record to the record the C function leaves in     *)
(* *st.  The modules that own attributes apply them.                       *)
(***************************************************************************)
EXTENDS Integers

CONSTANT LeavePeriod  \* MRP_LEAVETIMER_PERIOD_CENTISECONDS, in clock ticks

ASSUME LeavePeriodAssumption == LeavePeriod \in Nat

\* mrp_applicant_state without MRP_UNUSED: an attribute of a model is one
\* mrp_get_attr has handed out, so it starts in MRP_DISABLED.
Declaring == {"VP", "VN", "AN", "AA", "QA", "AP", "QP"}
Observing == {"VO", "AO", "QO", "LO"}
Applicant == {"DISABLED", "LA"} \union Declaring \union Observing
Registrar == {"IN", "LV", "MT"}
Indication == {"JOIN_NEW", "JOIN", "LEAVE"}

\* mrp_attribute_event: what one attribute value of a PDU says.
AttributeEvent == {"New", "JoinIn", "In", "JoinMt", "Mt", "Lv"}

\* leaveTimer: TimerOff is inactive, k > 0 has k ticks to go, 0 is due.
TimerOff == -1

Attribute == [app : Applicant, reg : Registrar, leaveTimer : TimerOff .. LeavePeriod,
              pend : SUBSET Indication, ready : BOOLEAN]

\* An attribute that mrp_get_attr allocated and mrp_mad_begin has not begun:
\* the statics are zero, and MRP_IN is the zero of mrp_registrar_state.
Allocated == [app |-> "DISABLED", reg |-> "IN", leaveTimer |-> TimerOff,
              pend |-> {}, ready |-> FALSE]

-----------------------------------------------------------------------------
(***************************************************************************)
(* The registrar half of mrp_update_state.  "ready" is the only thing the  *)
(* four_vector_parameter is ever tested for.                               *)
(***************************************************************************)
RegisterNew(st, ready) ==
  [st EXCEPT !.leaveTimer = IF st.reg = "LV" THEN TimerOff ELSE @,
             !.reg = "IN",
             !.pend = @ \union {"JOIN_NEW"},
             !.ready = ready]

\* Mutant: a Join leaves the leaveTimer running.
RegisterJoinKeepsTimer(st, ready) ==
  [st EXCEPT !.reg = "IN",
             !.pend = IF st.reg = "MT" THEN @ \union {"JOIN"} ELSE @,
             !.ready = IF st.reg = "MT" THEN ready ELSE @]

\* Mutant: a Join does not rescue a registration that is leaving.
RegisterJoinIfEmpty(st, ready) ==
  IF st.reg = "MT" THEN [st EXCEPT !.reg = "IN", !.pend = @ \union {"JOIN"}, !.ready = ready]
  ELSE st

\* Mutant: only a New is indicated.
RegisterJoinSilently(st, ready) ==
  [st EXCEPT !.leaveTimer = IF st.reg = "LV" THEN TimerOff ELSE @, !.reg = "IN"]

RegisterJoin(st, ready) ==
  [st EXCEPT !.leaveTimer = IF st.reg = "LV" THEN TimerOff ELSE @,
             !.reg = "IN",
             !.pend = IF st.reg = "MT" THEN @ \union {"JOIN"} ELSE @,
             !.ready = IF st.reg = "MT" THEN ready ELSE @]

StartLeaving(st) ==
  IF st.reg = "IN" THEN [st EXCEPT !.reg = "LV", !.leaveTimer = LeavePeriod] ELSE st

\* Mutant: the registrar is emptied without an indication.
DeregisterSilently(st) == [st EXCEPT !.leaveTimer = TimerOff, !.reg = "MT"]

\* MRP_EVENT_LEAVETIMER: the timer that expired is inactive from here on.
Deregister(st) ==
  [st EXCEPT !.leaveTimer = TimerOff,
             !.reg = "MT",
             !.pend = IF st.reg = "LV" THEN @ \union {"LEAVE"} ELSE @,
             !.ready = IF st.reg = "LV" THEN FALSE ELSE @]

-----------------------------------------------------------------------------
(***************************************************************************)
(* The applicant half of mrp_update_state, one operator per event.  The    *)
(* cases of RECEIVE_JOININ and RECEIVE_IN have no break and run on into    *)
(* the ones below them, so a JoinIn also makes the moves of In and of Mt.  *)
(***************************************************************************)
OnMt(a) == CASE a = "QA" -> "AA" [] a = "QO" -> "AO" [] a = "QP" -> "AP"
             [] a = "LO" -> "VO" [] OTHER -> a

OnIn(a) == OnMt(IF a = "AA" THEN "QA" ELSE a)

OnJoinIn(a) == OnIn(CASE a = "VO" -> "AO" [] a = "VP" -> "AP" [] a = "AA" -> "QA"
                      [] a = "AO" -> "QO" [] a = "AP" -> "QP" [] OTHER -> a)

OnLeave(a) == CASE a \in {"VO", "AO", "QO"} -> "LO"
                [] a = "AN" -> "VN"
                [] a \in {"AA", "QA", "AP", "QP"} -> "VP"
                [] OTHER -> a

OnTx(a) == CASE a = "VP" -> "AA" [] a = "VN" -> "AN"
             [] a \in {"AN", "AA", "AP"} -> "QA"
             [] a \in {"LA", "LO"} -> "VO"
             [] OTHER -> a

OnTxLeaveAll(a) == CASE a \in {"VO", "LA", "AO", "QO"} -> "LO"
                     [] a = "VN" -> "AN"
                     [] a \in {"AN", "AA", "AP", "QP"} -> "QA"
                     [] OTHER -> a

\* mrp_mad_leave.
OnLv(a) == CASE a = "QP" -> "QO" [] a = "AP" -> "AO" [] a = "VP" -> "VO"
             [] a \in {"VN", "AN", "AA", "QA"} -> "LA"
             [] OTHER -> a

-----------------------------------------------------------------------------
(***************************************************************************)
(* The calls the rest of the stack makes on an attribute.                  *)
(***************************************************************************)
\* mrp_mad_begin: pending_indications and four_vector_parameter are left alone.
MadBegin(st) == [st EXCEPT !.leaveTimer = TimerOff, !.reg = "MT", !.app = "VO"]

\* mrp_mad_join; every caller passes new = 1.
MadJoinNew(st) == [st EXCEPT !.app = "VN"]
MadLeave(st) == [st EXCEPT !.app = OnLv(@)]

\* mrp_in for a value of the PDU that msg_match matched to the attribute.
MrpIn(st, event, ready) ==
  CASE event = "New"    -> RegisterNew(st, ready)
    [] event = "JoinIn" -> [RegisterJoin(st, ready) EXCEPT !.app = OnJoinIn(@)]
    [] event = "JoinMt" -> [RegisterJoin(st, ready) EXCEPT !.app = OnMt(@)]
    [] event = "In"     -> [st EXCEPT !.app = OnIn(@)]
    [] event = "Mt"     -> [st EXCEPT !.app = OnMt(@)]
    [] event = "Lv"     -> [StartLeaving(st) EXCEPT !.app = OnLeave(@)]
    [] OTHER            -> st

\* MRP_EVENT_RECEIVE_LEAVE_ALL, from a PDU or from the own leaveall_timer.
ReceiveLeaveAll(st) == [StartLeaving(st) EXCEPT !.app = OnLeave(@)]

Begun(st) == st.app # "DISABLED"

-----------------------------------------------------------------------------
(***************************************************************************)
(* Transmission: which states put a value in the PDU, and which one.       *)
(***************************************************************************)
TxStates(leaveAll) ==
  IF leaveAll THEN {"VP", "VN", "AN", "AA", "LA", "QA", "AP", "QP"}
              ELSE {"VP", "VN", "AN", "AA", "LA", "AP", "LO"}

Sends(st, leaveAll) == st.app \in TxStates(leaveAll)

MakeTxEvent(st, leaveAll) ==
  CASE (st.app = "VP" /\ leaveAll) \/ st.app = "LO"
         -> IF st.reg = "IN" THEN "In" ELSE "Mt"
    [] st.app \in {"VP", "AA", "AP", "QA", "QP"}
         -> IF st.reg = "IN" THEN "JoinIn" ELSE "JoinMt"
    [] st.app = "LA" -> "Lv"
    [] OTHER -> "New"

\* MRP_EVENT_TX and MRP_EVENT_TX_LEAVE_ALL: the registrar moves first, so the
\* value sent with a LeaveAll is chosen after IN has become LV.
BeforeTx(st, leaveAll) == IF leaveAll THEN StartLeaving(st) ELSE st
TxValue(st, leaveAll) ==
  IF Sends(st, leaveAll) THEN MakeTxEvent(BeforeTx(st, leaveAll), leaveAll) ELSE "none"
AfterTx(st, leaveAll) ==
  [BeforeTx(st, leaveAll) EXCEPT !.app = IF leaveAll THEN OnTxLeaveAll(@) ELSE OnTx(@)]
=============================================================================
