-------------------------------- MODULE Gptp --------------------------------
(***************************************************************************)
(* Time synchronisation (module_gptp/src/gptp.c): two end stations on the  *)
(* two ends of a link elect a grandmaster by their announce messages, the  *)
(* slave takes rate and time from the master's sync and follow-up          *)
(* messages, and each measures the path delay by a request and response.   *)
(* A station may be replaced by another one while the link stays up.       *)
(*                                                                         *)
(* Time is counted in announce periods.  The server runs ptp_periodic every *)
(* 0.1 ms and messages cross in less, so a Tick waits for both.            *)
(***************************************************************************)
EXTENDS Naturals, Sequences, FiniteSets

CONSTANTS Station,    \* what the announces of the stations say of their clocks
          NoPort,     \* the all-zero port identity master_port_id starts with
          SeqMod,     \* sequence ids wrap here instead of at 2^16
          Traffic,    \* bound: the messages the link to each end may carry (a
                      \* behaviour loses all others), and the mode of the ends
          MaxReplaced \* bound on the replacements of a station

\* PTP_DEFAULT_GM_CAPABLE_PRIORITY1 and PTP_DEFAULT_NON_GM_CAPABLE_PRIORITY1
Priority1 == {250, 255}
AnnounceTimeout == 3  \* PTP_ANNOUNCE_RECEIPT_TIMEOUT_MULTIPLE

\* Mutant: the identity does not break a tie.
BetterOrEqual(q, r) == q[1] <= r[1]

(***************************************************************************)
(* What an announce says of a clock, in the order bmca_update_roles        *)
(* compares it: <<grandmasterPriority1, grandmasterIdentity>>.  Class,     *)
(* accuracy, variance and priority2 are constants of the firmware and      *)
(* never decide; identities are numbers for their bytes.  A smaller one is *)
(* better.                                                                 *)
(***************************************************************************)
Better(q, r) == q[1] < r[1] \/ (q[1] = r[1] /\ q[2] < r[2])

Identity == {s[2] : s \in Station}

MessageType == {"announce", "sync", "followup", "request", "response", "responsefu"}

End == 1 .. 2
Peer(e) == 3 - e

ASSUME GptpAssumption ==
  /\ Station \subseteq Priority1 \X Nat
  /\ \A s, t \in Station : s[2] = t[2] => s = t
  /\ NoPort \notin Identity
  /\ SeqMod \in Nat \ {0, 1}
  /\ MaxReplaced \in Nat
  /\ Traffic \subseteq [to : [End -> SUBSET MessageType], legacy : BOOLEAN]

\* A value and its valid flag: the empty set when the flag is off.
Maybe(S) == {{}} \union {{x} : x \in S}

\* A sync received, and whose it was, which the server does not keep.
Sync == [seq : 0 .. SeqMod - 1, from : Identity]

Port == [clock : Station, legacy : BOOLEAN,
         state : {"MASTER", "UNCERTAIN", "SLAVE"},
         best : Station, master : Identity \union {NoPort},
         heard : Maybe(0 .. AnnounceTimeout),
         announceDue : BOOLEAN, syncDue : BOOLEAN, pdelayDue : BOOLEAN,
         syncSeq : 0 .. SeqMod - 1, reqSeq : 0 .. SeqMod - 1,
         sync : Maybe(Sync), requested : BOOLEAN,
         response : Maybe(0 .. SeqMod - 1),
         prev : SUBSET Identity, adjust : SUBSET Identity]

VARIABLES
  port,      \* the state of the server at each end
  inbox,     \* messages on their way to it, in order
  carried,   \* which of the Traffic this is
  calm,      \* no message is lost and no station replaced from now on
  replaced,  \* replacements so far
  delay,     \* history: whether the last path delay came of one exchange
  silent,    \* history: announce periods since the best clock was heard
  asked,     \* history: requests sent since the response kept, SeqMod if more
  missed     \* history: a sync of the master followed was lost

vars == <<port, inbox, carried, calm, replaced, delay, silent, asked, missed>>

Message == [type : MessageType, from : Identity, seq : 0 .. SeqMod - 1,
            clock : Station]

TypeOK ==
  /\ port \in [End -> Port]
  /\ inbox \in [End -> Seq(Message)]
  /\ carried \in Traffic
  /\ calm \in BOOLEAN
  /\ replaced \in 0 .. MaxReplaced
  /\ delay \in [End -> {"none", "one", "wrapped", "mixed"}]
  /\ silent \in [End -> 0 .. AnnounceTimeout + 1]
  /\ asked \in [End -> 0 .. SeqMod]
  /\ missed \in [End -> BOOLEAN]

\* create_my_announce_msg and the headers of the send functions
Msg(p, type, seq) == [type |-> type, from |-> p.clock[2], seq |-> seq, clock |-> p.clock]

\* What arrives of a message of p to the end e: nothing if it is not carried.
Post(e, p, type, seq) ==
  IF type \in carried.to[e] THEN <<Msg(p, type, seq)>> ELSE << >>

\* Mutant: the previous sync stays valid.
BecomeSlaveKeepingSync(p) == [p EXCEPT !.state = "SLAVE", !.adjust = {}, !.pdelayDue = FALSE]

(***************************************************************************)
(* set_new_role.  g_ptp_adjust is the set of the masters whose rate it     *)
(* averages: none is a rate of one.  prev holds the masters of the         *)
(* previous sync and follow-up, if prev_adjust_valid.                      *)
(***************************************************************************)
BecomeSlave(p) == [p EXCEPT !.state = "SLAVE", !.adjust = {}, !.prev = {},
                            !.pdelayDue = FALSE]

BecomeMaster(p) == [p EXCEPT !.state = "MASTER", !.adjust = {}, !.syncDue = FALSE,
                             !.announceDue = FALSE, !.best = p.clock]

BecomeUncertain(p) == [p EXCEPT !.state = "UNCERTAIN", !.best = p.clock]

\* ptp_init and the initial values of the static variables; a client sets the
\* legacy mode (ptp_server_set_legacy_mode), if at all, when it starts.
Started(clock, legacy) ==
  [clock |-> clock, legacy |-> legacy, state |-> "MASTER", best |-> clock, master |-> NoPort,
   heard |-> {},
   announceDue |-> FALSE, syncDue |-> FALSE, pdelayDue |-> FALSE,
   syncSeq |-> 0, reqSeq |-> 0, sync |-> {},
   requested |-> FALSE, response |-> {},
   prev |-> {}, adjust |-> {}]

Init ==
  /\ carried \in Traffic
  /\ \E s, t \in Station :
       s # t /\ port = <<Started(s, carried.legacy), Started(t, carried.legacy)>>
  /\ inbox = [e \in End |-> << >>]
  /\ calm = FALSE
  /\ replaced = 0
  /\ delay = [e \in End |-> "none"]
  /\ silent = [e \in End |-> 0]
  /\ asked = [e \in End |-> 0]
  /\ missed = [e \in End |-> FALSE]

-----------------------------------------------------------------------------
(***************************************************************************)
(* ptp_recv: what one message does.                                        *)
(***************************************************************************)

\* bmca_update_roles: a clock better than the best so far is the new best.
Elects(p, m) ==
  m.type = "announce" /\ m.clock[2] # p.clock[2] /\ Better(m.clock, p.best)

Elected(p, m) ==
  IF Elects(p, m)
  THEN [BecomeSlave([p EXCEPT !.best = m.clock]) EXCEPT !.heard = {},
                                                        !.master = m.from]
  ELSE p

\* The announce of the clock followed restarts the timeout.
OfMaster(p, m) == p.state = "SLAVE" /\ p.master = m.from /\ p.best[2] = m.clock[2]

AfterAnnounce(p, m) ==
  LET q == Elected(p, m)
  IN IF OfMaster(q, m) THEN [q EXCEPT !.heard = {0}] ELSE q

\* received_sync, which a change of role does not clear.
AfterSync(p, m) ==
  IF p.master = m.from THEN [p EXCEPT !.sync = {[seq |-> m.seq, from |-> m.from]}] ELSE p

\* update_adjust: two syncs give a rate, averaged with the rate so far.  A time is
\* that of a sync and that of its follow-up.
UpdateAdjust(p, m) ==
  LET now == {m.from} \union {x.from : x \in p.sync}
  IN  [p EXCEPT !.adjust = IF p.prev = {} THEN @ ELSE @ \union p.prev \union now,
                !.prev = now]

AfterFollowUp(p, m) ==
  LET paired == m.seq \in {x.seq : x \in p.sync} /\ p.master = m.from
  IN [(IF paired THEN UpdateAdjust(p, m) ELSE p) EXCEPT !.sync = {}]

\* In legacy mode only the master's responses count.
Heeds(p, m) == p.legacy => p.master = m.from

Answers(p, m) == m.type = "response" /\ Heeds(p, m) /\ p.requested /\ p.reqSeq = m.seq

AfterResponse(p, m) ==
  IF ~Heeds(p, m) THEN p
  ELSE [p EXCEPT !.response = IF Answers(p, m) THEN {m.seq} ELSE @, !.requested = FALSE]

\* update_path_delay is due: it uses the times of the request sent last, of
\* the response kept and of this message.
\* Mutant: the sequence id of the follow-up is not looked at.
CompletesAny(p, m) == Heeds(p, m) /\ p.response # {}

Completes(p, m) == Heeds(p, m) /\ m.seq \in p.response

AfterResponseFollowUp(p, m) ==
  IF Heeds(p, m) THEN [p EXCEPT !.response = {}] ELSE p

Received(p, m) ==
  CASE m.type = "announce"   -> AfterAnnounce(p, m)
    [] m.type = "sync"       -> AfterSync(p, m)
    [] m.type = "followup"   -> AfterFollowUp(p, m)
    [] m.type = "request"    -> p
    [] m.type = "response"   -> AfterResponse(p, m)
    [] m.type = "responsefu" -> AfterResponseFollowUp(p, m)

\* send_ptp_pdelay_resp_msg, its follow-up at once behind it
Reply(e, p, m) ==
  IF m.type = "request" /\ (p.legacy => p.state = "MASTER")
  THEN Post(e, p, "response", m.seq) \o Post(e, p, "responsefu", m.seq)
  ELSE << >>

\* The time of the request is that of the last one sent.
Measured(requests) ==
  CASE requests = 0                -> "one"
    [] requests \in 1 .. SeqMod - 1 -> "mixed"
    [] requests = SeqMod           -> "wrapped"

Receive(e) ==
  /\ inbox[e] # << >>
  /\ LET p == port[e]
         m == Head(inbox[e])
     IN /\ port' = [port EXCEPT ![e] = Received(p, m)]
        /\ inbox' = [inbox EXCEPT ![e] = Tail(@), ![Peer(e)] = @ \o Reply(Peer(e), p, m)]
        /\ delay' = IF m.type = "responsefu" /\ Completes(p, m)
                    THEN [delay EXCEPT ![e] = Measured(asked[e])] ELSE delay
        /\ asked' = IF Answers(p, m) THEN [asked EXCEPT ![e] = 0] ELSE asked
        /\ missed' = IF Elects(p, m) THEN [missed EXCEPT ![e] = FALSE] ELSE missed
        /\ silent' = IF m.type = "announce" /\ OfMaster(port'[e], m)
                     THEN [silent EXCEPT ![e] = 0] ELSE silent
  /\ UNCHANGED <<carried, calm, replaced>>

-----------------------------------------------------------------------------
(***************************************************************************)
(* ptp_periodic: the announce timeout, then whatever is due is sent.       *)
(***************************************************************************)
\* Mutant: an uncertain station waits for an announce for ever.
TimedOutSlave(p) == AnnounceTimeout \in p.heard /\ p.state = "SLAVE"

TimedOut(p) == AnnounceTimeout \in p.heard /\ p.state # "MASTER"

Timeout(p) ==
  IF ~TimedOut(p) THEN p
  ELSE IF p.state = "SLAVE"
       THEN [BecomeUncertain(p) EXCEPT !.heard = {0}, !.announceDue = TRUE]
       ELSE BecomeMaster(p)

SyncIsDue(p) == p.state = "MASTER" /\ p.syncDue
PdelayIsDue(p) == (p.legacy => p.state # "MASTER") /\ p.pdelayDue

\* A sequence id no message of the behaviour carries is left at 0.
NextId(e, type, seq) == IF type \in carried.to[Peer(e)] THEN (seq + 1) % SeqMod ELSE seq

AfterSending(e, p) ==
  [p EXCEPT !.announceDue = FALSE,
            !.syncDue = @ /\ ~SyncIsDue(p),
            !.syncSeq = IF SyncIsDue(p) THEN NextId(e, "sync", @) ELSE @,
            !.pdelayDue = @ /\ ~PdelayIsDue(p),
            !.reqSeq = IF PdelayIsDue(p) THEN NextId(e, "request", @) ELSE @,
            !.requested = @ \/ PdelayIsDue(p)]

\* What the server sends to the end e, in this order; p is its state after sending.
Announcement(e, old, p) ==
  IF old.announceDue THEN Post(e, p, "announce", 0) ELSE << >>

SyncAndFollowUp(e, old, p) ==
  IF SyncIsDue(old)
  THEN Post(e, p, "sync", p.syncSeq) \o Post(e, p, "followup", p.syncSeq)
  ELSE << >>

PdelayRequest(e, old, p) ==
  IF PdelayIsDue(old) THEN Post(e, p, "request", p.reqSeq) ELSE << >>

Sent(e, old, p) ==
  Announcement(e, old, p) \o SyncAndFollowUp(e, old, p) \o PdelayRequest(e, old, p)

Due(p) == TimedOut(p) \/ p.announceDue \/ SyncIsDue(p) \/ PdelayIsDue(p)

MoreAsked(requests) == IF requests < SeqMod THEN requests + 1 ELSE requests

Periodic(e) ==
  /\ Due(port[e])
  /\ LET p == Timeout(port[e])
         q == AfterSending(e, p)
     IN /\ port' = [port EXCEPT ![e] = q]
        /\ inbox' = [inbox EXCEPT ![Peer(e)] = @ \o Sent(Peer(e), p, q)]
        /\ asked' = [asked EXCEPT ![e] = IF q.reqSeq = p.reqSeq \/ q.response = {}
                                         THEN @ ELSE MoreAsked(@)]
  /\ UNCHANGED <<carried, calm, replaced, delay, silent, missed>>

-----------------------------------------------------------------------------
(* The environment: time, losses, and stations that are replaced.           *)

Older(p) == [p EXCEPT !.heard = {IF age < AnnounceTimeout THEN age + 1 ELSE age : age \in @},
                      !.announceDue = TRUE, !.syncDue = TRUE, !.pdelayDue = TRUE]

Tick ==
  /\ \A e \in End : inbox[e] = << >> /\ ~Due(port[e])
  /\ port' = [e \in End |-> Older(port[e])]
  /\ silent' = [e \in End |-> IF silent[e] <= AnnounceTimeout THEN silent[e] + 1 ELSE silent[e]]
  /\ UNCHANGED <<inbox, carried, calm, replaced, delay, asked, missed>>

Lose(e) ==
  /\ ~calm
  /\ inbox[e] # << >>
  /\ inbox' = [inbox EXCEPT ![e] = Tail(@)]
  /\ LET m == Head(inbox[e])
     IN  missed' = [missed EXCEPT ![e] = @ \/ (m.type = "sync" /\ m.from = port[e].master)]
  /\ UNCHANGED <<port, carried, calm, replaced, delay, silent, asked>>

Replace(e) ==
  /\ ~calm
  /\ replaced < MaxReplaced
  /\ \E s \in Station \ {port[Peer(e)].clock} :
       port' = [port EXCEPT ![e] = Started(s, carried.legacy)]
  /\ inbox' = [inbox EXCEPT ![e] = << >>]
  /\ replaced' = replaced + 1
  /\ delay' = [delay EXCEPT ![e] = "none"]
  /\ silent' = [silent EXCEPT ![e] = 0]
  /\ asked' = [asked EXCEPT ![e] = 0]
  /\ missed' = [missed EXCEPT ![e] = FALSE]
  /\ UNCHANGED <<carried, calm>>

Settle ==
  /\ ~calm /\ calm' = TRUE
  /\ UNCHANGED <<port, inbox, carried, replaced, delay, silent, asked, missed>>

Next ==
  \/ \E e \in End : Receive(e) \/ Periodic(e) \/ Lose(e) \/ Replace(e)
  \/ Tick
  \/ Settle

Spec == Init /\ [][Next]_vars

\* The server's select loop serves packets and its timer; time goes on.
Fairness ==
  /\ \A e \in End : WF_vars(Receive(e)) /\ WF_vars(Periodic(e))
  /\ WF_vars(Tick)

FairSpec == Spec /\ Fairness

-----------------------------------------------------------------------------
(* PROPERTIES                                                              *)

SlaveOf(e) == port[e].state = "SLAVE" /\ port[e].master = port[Peer(e)].clock[2]

\* Two stations never follow each other: then nobody's clock would lead.
NobodyFollowsInCircles == ~(SlaveOf(1) /\ SlaveOf(2))

\* A slave never waits for ever on a master that fell silent: bmca_update_roles
\* invalidates the announce time and only the rest of ptp_recv validates it.
SlaveHasHeardItsMaster ==
  \A e \in End : port[e].state = "SLAVE" => silent[e] <= AnnounceTimeout

\* The roles are well formed: no two slaves follow each other, and no slave
\* outlives its master's announcements.
RolesAreSound == TypeOK /\ NobodyFollowsInCircles /\ SlaveHasHeardItsMaster

\* All the times a rate is measured from are of the master followed: set_new_role
\* resets the "synotization variables" (gptp.c:240) when another one is.
OfOneMaster(e) == port[e].adjust \union port[e].prev \subseteq {port[e].master}
RateIsNeverMixed == \A e \in End : OfOneMaster(e)

\* received_sync is not among them.  The sync kept of an old master is never taken for
\* one of the new master, though their sequence ids may be the same, as long as no
\* sync of the new one was lost: it replaces the one kept before its follow-up comes.
RateIsOfOneMaster == \A e \in End : missed[e] \/ OfOneMaster(e)

\* The four times of a path delay belong to one exchange, whatever is lost: a response
\* and the follow-up of another request are never put together.  The exception is a
\* response kept while as many requests are sent as there are sequence ids, and none of
\* them is answered by one.  No message is later than the period of the requests.
DelayIsOfOneExchange == \A e \in End : delay[e] # "mixed"

\* Once no more messages are lost, the better clock leads and the other
\* station follows it for good.
Agreed ==
  \E e \in End : /\ port[e].state = "MASTER"
                 /\ SlaveOf(Peer(e))
                 /\ port[Peer(e)].best = port[e].clock
                 /\ Better(port[e].clock, port[Peer(e)].clock)
StationsAgree == <>[]calm => <>[]Agreed
=============================================================================
