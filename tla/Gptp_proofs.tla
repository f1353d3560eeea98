----------------------------- MODULE Gptp_proofs -----------------------------
(***************************************************************************)
(* For any stations, any losses and any number of replacements: the roles  *)
(* are sound, a rate is measured between two syncs of one master unless one *)
(* of its syncs was lost, and the path delay is computed from one exchange. *)
(***************************************************************************)
EXTENDS Gptp, SequenceTheorems, TLAPS

\* The messages on their way to an end.
Elems(s) == {s[i] : i \in DOMAIN s}
Inbox(e) == Elems(inbox[e])

\* A message is of the clock it announces.
OfItsClock(m) == m.from = m.clock[2]

\* A slave follows a better clock than its own, whose last announce, age periods
\* ago, started its timeout; nobody else knows a better clock.
SoundRole(p, age) ==
  IF p.state = "SLAVE"
  THEN /\ p.master = p.best[2] /\ Better(p.best, p.clock)
       /\ age <= AnnounceTimeout /\ p.heard = {age}
  ELSE p.best = p.clock

RoleInv(e) == SoundRole(port[e], silent[e])

OneMaster(p) == p.adjust \union p.prev \subseteq {p.master}

\* A message of the exchange the end e has begun: its request on the way to the
\* peer, or the peer's answers on their way back.
Exchange(e) == {m \in Inbox(e) : m.type \in {"response", "responsefu"}}
                 \union {m \in Inbox(Peer(e)) : m.type = "request"}

\* When an end is about to send a request, nothing is left of an earlier exchange;
\* once it has sent one, all that is under way belongs to it.
ExchangeInv(e) ==
  LET p == port[e]
  IN  /\ p.pdelayDue => Exchange(e) = {}
      /\ p.requested \/ p.response # {} => \A m \in Exchange(e) : m.seq = p.reqSeq

\* The response kept is as many requests old as are counted, if ids do not wrap.
AskedInv(e) ==
  asked[e] = SeqMod
    \/ \A r \in port[e].response : port[e].reqSeq = (r + asked[e]) % SeqMod

IsFollowUp(m) == m.type = "followup"
Precedes(m, n) == m.type = "sync" /\ m.from = n.from

\* Every follow-up but the first message comes right behind a sync of its sender ...
Paired(s) ==
  \A i \in DOMAIN s : IsFollowUp(s[i]) => i = 1 \/ Precedes(s[i - 1], s[i])

\* ... or even the first one does.
Whole(s) == \A i \in DOMAIN s : IsFollowUp(s[i]) => i # 1 /\ Precedes(s[i - 1], s[i])

\* A follow-up of the master followed that is next to be taken finds no sync of
\* another one: it is behind the sync that replaced it.  Where the link carries no
\* syncs there is none.
SyncInv(e) ==
  /\ "sync" \in carried.to[e] => Paired(inbox[e])
  /\ "sync" \notin carried.to[e] =>
       port[e].sync = {} /\ \A m \in Inbox(e) : m.type # "sync"
  /\ inbox[e] # << >> /\ IsFollowUp(Head(inbox[e])) /\ ~missed[e]
       /\ Head(inbox[e]).from = port[e].master =>
       \A x \in port[e].sync : x.from = port[e].master

RateInv(e) == missed[e] \/ OneMaster(port[e])

IInv ==
  /\ TypeOK
  /\ \A e \in End : \A m \in Inbox(e) : OfItsClock(m)
  /\ \A e \in End : RoleInv(e)
  /\ \A e \in End : RateInv(e) /\ SyncInv(e)
  /\ \A e \in End : ExchangeInv(e) /\ AskedInv(e)
  /\ DelayIsOfOneExchange

-----------------------------------------------------------------------------
(***************************************************************************)
(* Sequences of messages, seen as sets.                                    *)
(***************************************************************************)
LEMMA ElemsOfConcat ==
  ASSUME NEW S, NEW s \in Seq(S), NEW t \in Seq(S)
  PROVE  s \o t \in Seq(S) /\ Elems(s \o t) = Elems(s) \union Elems(t)
<1>1. /\ s \o t \in Seq(S) /\ Len(s \o t) = Len(s) + Len(t)
      /\ \A i \in 1 .. Len(s) + Len(t) :
           (s \o t)[i] = IF i <= Len(s) THEN s[i] ELSE t[i - Len(s)]
  BY ConcatProperties
<1>2. DOMAIN s = 1 .. Len(s) /\ DOMAIN t = 1 .. Len(t)
      /\ DOMAIN (s \o t) = 1 .. Len(s) + Len(t)
  BY <1>1, LenProperties
<1>3. Len(s) \in Nat /\ Len(t) \in Nat
  BY LenProperties
<1>4. Elems(s \o t) \subseteq Elems(s) \union Elems(t)
  <2>1. ASSUME NEW i \in 1 .. Len(s) + Len(t)
        PROVE  (s \o t)[i] \in Elems(s) \union Elems(t)
    <3>1. CASE i <= Len(s)
      BY <1>1, <1>2, <1>3, <3>1 DEF Elems
    <3>2. CASE ~(i <= Len(s))
      <4>1. i - Len(s) \in 1 .. Len(t) /\ (s \o t)[i] = t[i - Len(s)]
        BY <1>1, <1>3, <3>2
      <4> QED
        BY <4>1, <1>2 DEF Elems
    <3> QED
      BY <3>1, <3>2
  <2> QED
    BY <2>1, <1>2 DEF Elems
<1>5. Elems(s) \subseteq Elems(s \o t)
  <2>1. ASSUME NEW i \in 1 .. Len(s) PROVE s[i] \in Elems(s \o t)
    BY <1>1, <1>2, <1>3 DEF Elems
  <2> QED
    BY <2>1, <1>2 DEF Elems
<1>6. Elems(t) \subseteq Elems(s \o t)
  <2>1. ASSUME NEW i \in 1 .. Len(t) PROVE t[i] \in Elems(s \o t)
    <3>1. /\ i + Len(s) \in 1 .. Len(s) + Len(t) /\ ~(i + Len(s) <= Len(s))
          /\ i + Len(s) - Len(s) = i
      BY <1>3
    <3>2. (s \o t)[i + Len(s)] = t[i]
      BY <1>1, <3>1
    <3> QED
      BY <1>2, <3>1, <3>2 DEF Elems
  <2> QED
    BY <2>1, <1>2 DEF Elems
<1> QED
  BY <1>1, <1>4, <1>5, <1>6

LEMMA ElemsOfTail ==
  ASSUME NEW S, NEW s \in Seq(S), s # << >>
  PROVE  /\ Head(s) \in S /\ Head(s) \in Elems(s)
         /\ Tail(s) \in Seq(S) /\ Elems(Tail(s)) \subseteq Elems(s)
<1>1. /\ Len(s) \in Nat \ {0} /\ DOMAIN s = 1 .. Len(s)
      /\ Tail(s) \in Seq(S) /\ Len(Tail(s)) = Len(s) - 1
      /\ \A i \in 1 .. Len(s) - 1 : Tail(s)[i] = s[i + 1]
      /\ Head(s) = s[1]
  BY HeadTailProperties, LenProperties, EmptySeq
<1>2. DOMAIN Tail(s) = 1 .. Len(s) - 1
  BY <1>1, LenProperties
<1>3. s[1] \in S
  BY <1>1, ElementOfSeq
<1>4. ASSUME NEW i \in 1 .. Len(s) - 1 PROVE Tail(s)[i] \in Elems(s)
  BY <1>1 DEF Elems
<1> QED
  BY <1>1, <1>2, <1>3, <1>4 DEF Elems

LEMMA ElemsInSet ==
  ASSUME NEW S, NEW s \in Seq(S) PROVE Elems(s) \subseteq S
BY LenProperties, ElementOfSeq DEF Elems

LEMMA ElemsOfEmpty == Elems(<< >>) = {}
BY DEF Elems

LEMMA EmptyIsSeq == ASSUME NEW S PROVE << >> \in Seq(S)
OBVIOUS

LEMMA PairedTail ==
  ASSUME NEW S, NEW s \in Seq(S), s # << >>, Paired(s)
  PROVE  /\ Paired(Tail(s))
         /\ Tail(s) # << >> /\ IsFollowUp(Head(Tail(s))) => Precedes(Head(s), Head(Tail(s)))
<1>1. /\ Len(s) \in Nat \ {0} /\ DOMAIN s = 1 .. Len(s)
      /\ Tail(s) \in Seq(S) /\ Len(Tail(s)) = Len(s) - 1
      /\ \A i \in 1 .. Len(s) - 1 : Tail(s)[i] = s[i + 1]
      /\ Head(s) = s[1]
  BY HeadTailProperties, LenProperties, EmptySeq
<1>2. DOMAIN Tail(s) = 1 .. Len(s) - 1
  BY <1>1, LenProperties
<1>3. ASSUME NEW i \in 1 .. Len(s) - 1, IsFollowUp(Tail(s)[i])
      PROVE  Precedes(s[i], Tail(s)[i])
  <2>1. i + 1 \in DOMAIN s /\ i + 1 # 1 /\ i + 1 - 1 = i /\ Tail(s)[i] = s[i + 1]
    BY <1>1
  <2>2. Precedes(s[i + 1 - 1], s[i + 1])
    BY <1>3, <2>1 DEF Paired
  <2> QED
    BY <2>1, <2>2
<1>4. Paired(Tail(s))
  <2> SUFFICES ASSUME NEW i \in 1 .. Len(s) - 1, IsFollowUp(Tail(s)[i]), i # 1
               PROVE  Precedes(Tail(s)[i - 1], Tail(s)[i])
    BY <1>2 DEF Paired
  <2>1. i - 1 \in 1 .. Len(s) - 1 /\ i - 1 + 1 = i
    BY <1>1
  <2>2. Tail(s)[i - 1] = s[i]
    BY <1>1, <2>1
  <2> QED
    BY <1>3, <2>2
<1>5. ASSUME Tail(s) # << >>, IsFollowUp(Head(Tail(s)))
      PROVE  Precedes(Head(s), Head(Tail(s)))
  <2>1. Head(Tail(s)) = Tail(s)[1] /\ Len(Tail(s)) # 0
    BY <1>1, <1>5, HeadTailProperties, EmptySeq
  <2>2. 1 \in 1 .. Len(s) - 1
    BY <1>1, <2>1
  <2> QED
    BY <1>1, <1>3, <1>5, <2>1, <2>2
<1> QED
  BY <1>4, <1>5

LEMMA PairedConcat ==
  ASSUME NEW S, NEW s \in Seq(S), NEW t \in Seq(S), Whole(t)
  PROVE  /\ Paired(s) => Paired(s \o t)
         /\ Whole(s) => Whole(s \o t)
<1>1. /\ Len(s \o t) = Len(s) + Len(t)
      /\ \A i \in 1 .. Len(s) + Len(t) :
           (s \o t)[i] = IF i <= Len(s) THEN s[i] ELSE t[i - Len(s)]
      /\ s \o t \in Seq(S)
  BY ConcatProperties
<1>2. /\ DOMAIN s = 1 .. Len(s) /\ DOMAIN t = 1 .. Len(t)
      /\ DOMAIN (s \o t) = 1 .. Len(s) + Len(t)
      /\ Len(s) \in Nat /\ Len(t) \in Nat
  BY <1>1, LenProperties
<1> DEFINE st == s \o t
<1>3. ASSUME NEW i \in 1 .. Len(s) + Len(t), ~(i <= Len(s)), IsFollowUp(st[i])
      PROVE  i # 1 /\ Precedes(st[i - 1], st[i])
  <2>1. /\ i - Len(s) \in DOMAIN t /\ st[i] = t[i - Len(s)]
    BY <1>1, <1>2, <1>3
  <2>2. i - Len(s) # 1 /\ Precedes(t[i - Len(s) - 1], t[i - Len(s)])
    BY <1>3, <2>1 DEF Whole
  <2>3. /\ i - 1 \in 1 .. Len(s) + Len(t) /\ ~(i - 1 <= Len(s))
        /\ i - 1 - Len(s) = i - Len(s) - 1 /\ i # 1
    BY <1>2, <1>3, <2>1, <2>2
  <2>4. st[i - 1] = t[i - Len(s) - 1]
    BY <1>1, <2>3
  <2> QED
    BY <2>1, <2>2, <2>3, <2>4
<1>4. ASSUME NEW i \in 1 .. Len(s) + Len(t), i <= Len(s)
      PROVE  i \in DOMAIN s /\ st[i] = s[i] /\ (i # 1 => st[i - 1] = s[i - 1])
  <2>1. i # 1 => i - 1 \in 1 .. Len(s) + Len(t) /\ i - 1 <= Len(s)
    BY <1>2, <1>4
  <2> QED
    BY <1>1, <1>2, <1>4, <2>1
<1> HIDE DEF st
<1>5. DOMAIN st = 1 .. Len(s) + Len(t)
  BY <1>2 DEF st
<1>6. Paired(s) => Paired(st)
  BY <1>3, <1>4, <1>5 DEF Paired
<1>7. Whole(s) => Whole(st)
  BY <1>3, <1>4, <1>5 DEF Whole
<1> QED
  BY <1>6, <1>7 DEF st

LEMMA WithoutFollowUp ==
  ASSUME NEW s, \A m \in Elems(s) : ~IsFollowUp(m) PROVE Whole(s)
BY DEF Whole, Elems

-----------------------------------------------------------------------------
(***************************************************************************)
(* The order of the clocks, and of the sequence ids.                       *)
(***************************************************************************)
LEMMA StationPair ==
  ASSUME NEW s \in Station
  PROVE  s[1] \in Nat /\ s[2] \in Nat /\ s[2] \in Identity
BY GptpAssumption DEF Priority1, Identity

LEMMA BetterIsTransitive ==
  ASSUME NEW q \in Station, NEW r \in Station, NEW s \in Station,
         Better(q, r), Better(r, s)
  PROVE  Better(q, s)
BY StationPair DEF Better

LEMMA BetterIsAsymmetric ==
  ASSUME NEW q \in Station, NEW r \in Station, Better(q, r), Better(r, q)
  PROVE  FALSE
BY StationPair DEF Better

LEMMA WrapsOnce ==
  ASSUME NEW i \in Nat, i < 2 * SeqMod
  PROVE  i % SeqMod = IF i < SeqMod THEN i ELSE i - SeqMod
<1>1. SeqMod \in Nat /\ SeqMod > 1
  BY GptpAssumption
<1>2. CASE i < SeqMod
  BY <1>1, <1>2, SMTT(30)
<1>3. CASE ~(i < SeqMod)
  <2>1. i = SeqMod * 1 + (i - SeqMod) /\ i - SeqMod \in 0 .. SeqMod - 1
    BY <1>1, <1>3
  <2> QED
    BY <1>1, <1>3, <2>1, SMTT(30)
<1> QED
  BY <1>2, <1>3

\* One more request makes the response kept one request older.
LEMMA OneMoreAsked ==
  ASSUME NEW r \in 0 .. SeqMod - 1, NEW k \in 0 .. SeqMod - 1, NEW i,
         i = (r + k) % SeqMod
  PROVE  (i + 1) % SeqMod = (r + (k + 1)) % SeqMod
<1>1. SeqMod \in Nat /\ SeqMod > 1 /\ r + k \in Nat /\ r + k < 2 * SeqMod
      /\ r + (k + 1) \in Nat /\ r + (k + 1) < 2 * SeqMod
  BY GptpAssumption
<1>2. i = IF r + k < SeqMod THEN r + k ELSE r + k - SeqMod
  BY <1>1, WrapsOnce
<1>3. (r + (k + 1)) % SeqMod
        = IF r + (k + 1) < SeqMod THEN r + (k + 1) ELSE r + (k + 1) - SeqMod
  BY <1>1, WrapsOnce
<1> DEFINE j == i + 1
<1>4. i \in Nat /\ j = i + 1 /\ j \in Nat /\ j < 2 * SeqMod
  BY <1>1, <1>2
<1> HIDE DEF j
<1>5. j % SeqMod = IF j < SeqMod THEN j ELSE j - SeqMod
  BY <1>4, WrapsOnce
<1>6. j % SeqMod = (r + (k + 1)) % SeqMod
  BY <1>1, <1>2, <1>3, <1>4, <1>5
<1> QED
  BY <1>6 DEF j

\* A response as old as no request, or as all the ids, is the one with the id of now.
LEMMA AskedAround ==
  ASSUME NEW r \in 0 .. SeqMod - 1, NEW k \in 0 .. SeqMod,
         k = SeqMod \/ r = (r + k) % SeqMod
  PROVE  k = 0 \/ k = SeqMod
<1>1. SeqMod \in Nat /\ SeqMod > 1 /\ r + k \in Nat /\ r + k < 2 * SeqMod
  BY GptpAssumption
<1>2. (r + k) % SeqMod = IF r + k < SeqMod THEN r + k ELSE r + k - SeqMod
  BY <1>1, WrapsOnce
<1> QED
  BY <1>1, <1>2

LEMMA AskedNothing == ASSUME NEW r \in 0 .. SeqMod - 1 PROVE r = (r + 0) % SeqMod
<1>1. SeqMod \in Nat /\ SeqMod > 1 /\ r + 0 = r /\ r \in Nat /\ r < 2 * SeqMod
  BY GptpAssumption
<1> QED
  BY <1>1, WrapsOnce

-----------------------------------------------------------------------------
(***************************************************************************)
(* What a message or a poll does to the state of a server.                 *)
(***************************************************************************)
LEMMA StartedIsPort ==
  ASSUME NEW s \in Station, NEW legacy \in BOOLEAN
  PROVE  Started(s, legacy) \in Port
BY GptpAssumption DEF Port, Started, Maybe

LEMMA MaybeSingleton == ASSUME NEW S, NEW x \in S PROVE {x} \in Maybe(S) /\ {} \in Maybe(S)
BY DEF Maybe

LEMMA BecomeKeeps ==
  ASSUME NEW p \in Port
  PROVE  BecomeSlave(p) \in Port /\ BecomeMaster(p) \in Port /\ BecomeUncertain(p) \in Port
BY ZenonT(60) DEF BecomeSlave, BecomeMaster, BecomeUncertain, Port, Maybe

LEMMA AnnounceKeeps ==
  ASSUME NEW p \in Port, NEW m \in Message
  PROVE  Elected(p, m) \in Port /\ AfterAnnounce(p, m) \in Port
<1>1. m.clock \in Station /\ m.from \in Identity
  BY DEF Message
<1>2. [p EXCEPT !.best = m.clock] \in Port
  BY <1>1 DEF Port
<1>3. ASSUME NEW q \in Port, NEW h \in Maybe(0 .. AnnounceTimeout), NEW i \in Identity
      PROVE  [q EXCEPT !.heard = h] \in Port /\ [q EXCEPT !.heard = h, !.master = i] \in Port
  BY DEF Port
<1>4. {} \in Maybe(0 .. AnnounceTimeout) /\ {0} \in Maybe(0 .. AnnounceTimeout)
  BY DEF Maybe, AnnounceTimeout
<1>5. Elected(p, m) \in Port
  <2> DEFINE q == BecomeSlave([p EXCEPT !.best = m.clock])
  <2>1. q \in Port
    BY <1>2, BecomeKeeps
  <2>2. Elected(p, m) \in {p, [q EXCEPT !.heard = {}, !.master = m.from]}
    BY Zenon DEF Elected
  <2> HIDE DEF q
  <2>3. [q EXCEPT !.heard = {}, !.master = m.from] \in Port
    BY <1>1, <1>3, <1>4, <2>1
  <2> QED
    BY <2>2, <2>3
<1> QED
  BY <1>1, <1>3, <1>4, <1>5 DEF AfterAnnounce

LEMMA UpdateAdjustIsPort ==
  ASSUME NEW p \in Port, NEW m \in Message
  PROVE  UpdateAdjust(p, m) \in Port
<1> DEFINE now == {m.from} \union {x.from : x \in p.sync}
           adjust == IF p.prev = {} THEN p.adjust ELSE p.adjust \union p.prev \union now
<1>1. now \in SUBSET Identity
  BY DEF Port, Maybe, Sync, Message
<1>2. UpdateAdjust(p, m) = [p EXCEPT !.adjust = adjust, !.prev = now]
  BY DEF UpdateAdjust
<1> HIDE DEF now
<1>3. adjust \in SUBSET Identity
  BY <1>1 DEF Port
<1> HIDE DEF adjust
<1> QED
  BY <1>1, <1>2, <1>3 DEF Port

LEMMA SyncKeeps ==
  ASSUME NEW p \in Port, NEW m \in Message
  PROVE  AfterSync(p, m) \in Port /\ AfterFollowUp(p, m) \in Port
<1>1. m.seq \in 0 .. SeqMod - 1 /\ m.from \in Identity
  BY DEF Message
<1>2. ASSUME NEW q \in Port, NEW x \in Maybe(Sync)
      PROVE  [q EXCEPT !.sync = x] \in Port
  BY DEF Port
<1>3. UpdateAdjust(p, m) \in Port
  BY UpdateAdjustIsPort
<1>4. {[seq |-> m.seq, from |-> m.from]} \in Maybe(Sync) /\ {} \in Maybe(Sync)
  <2>1. [seq |-> m.seq, from |-> m.from] \in Sync
    BY <1>1 DEF Sync
  <2> QED
    BY <2>1, MaybeSingleton
<1> QED
  BY <1>2, <1>3, <1>4 DEF AfterSync, AfterFollowUp

LEMMA ResponseKeeps ==
  ASSUME NEW p \in Port, NEW m \in Message
  PROVE  AfterResponse(p, m) \in Port /\ AfterResponseFollowUp(p, m) \in Port
<1>1. ASSUME NEW x \in Maybe(0 .. SeqMod - 1)
      PROVE  /\ [p EXCEPT !.response = x] \in Port
             /\ [p EXCEPT !.response = x, !.requested = FALSE] \in Port
  BY DEF Port
<1>2. /\ {m.seq} \in Maybe(0 .. SeqMod - 1) /\ {} \in Maybe(0 .. SeqMod - 1)
      /\ p.response \in Maybe(0 .. SeqMod - 1)
  BY DEF Message, Port, Maybe
<1> QED
  BY <1>1, <1>2 DEF AfterResponse, AfterResponseFollowUp

LEMMA ReceivedIsPort ==
  ASSUME NEW p \in Port, NEW m \in Message
  PROVE  Received(p, m) \in Port
BY AnnounceKeeps, SyncKeeps, ResponseKeeps DEF Received, Message, MessageType

LEMMA SeqIds == ASSUME NEW i \in 0 .. SeqMod - 1 PROVE (i + 1) % SeqMod \in 0 .. SeqMod - 1
BY GptpAssumption

LEMMA PollKeeps ==
  ASSUME NEW e \in End, NEW p \in Port
  PROVE  Timeout(p) \in Port /\ AfterSending(e, p) \in Port
<1>1. Timeout(p) \in Port
  <2>1. ASSUME NEW q \in Port, NEW h \in Maybe(0 .. AnnounceTimeout)
        PROVE  [q EXCEPT !.heard = h, !.announceDue = TRUE] \in Port
    BY DEF Port
  <2>2. {0} \in Maybe(0 .. AnnounceTimeout)
    BY DEF Maybe, AnnounceTimeout
  <2> QED
    BY <2>1, <2>2, BecomeKeeps DEF Timeout
<1>2. ASSUME NEW type, NEW i \in 0 .. SeqMod - 1
      PROVE  NextId(e, type, i) \in 0 .. SeqMod - 1
  BY <1>2, SeqIds DEF NextId
<1>3. AfterSending(e, p) \in Port
  <2> DEFINE sync == p.syncDue /\ ~SyncIsDue(p)
             pdelay == p.pdelayDue /\ ~PdelayIsDue(p)
             requested == p.requested \/ PdelayIsDue(p)
             syncSeq == IF SyncIsDue(p) THEN NextId(e, "sync", p.syncSeq) ELSE p.syncSeq
             reqSeq == IF PdelayIsDue(p) THEN NextId(e, "request", p.reqSeq) ELSE p.reqSeq
  <2>1. AfterSending(e, p) =
          [p EXCEPT !.announceDue = FALSE, !.syncDue = sync, !.syncSeq = syncSeq,
                    !.pdelayDue = pdelay, !.reqSeq = reqSeq, !.requested = requested]
    BY DEF AfterSending
  <2>2. /\ sync \in BOOLEAN /\ pdelay \in BOOLEAN /\ requested \in BOOLEAN
        /\ syncSeq \in 0 .. SeqMod - 1 /\ reqSeq \in 0 .. SeqMod - 1
    BY <1>2 DEF Port
  <2> HIDE DEF sync, pdelay, requested, syncSeq, reqSeq
  <2> QED
    BY ZenonT(60), <2>1, <2>2 DEF Port
<1> QED
  BY <1>1, <1>3

LEMMA OlderIsPort == ASSUME NEW p \in Port PROVE Older(p) \in Port
<1>1. {IF age < AnnounceTimeout THEN age + 1 ELSE age : age \in p.heard} \in Maybe(0 .. AnnounceTimeout)
  BY DEF Port, Maybe, AnnounceTimeout
<1> QED
  BY <1>1 DEF Older, Port

-----------------------------------------------------------------------------
(***************************************************************************)
(* The invariant.                                                          *)
(***************************************************************************)

LEMMA InitInv == Init => IInv
<1> SUFFICES ASSUME Init PROVE IInv
  OBVIOUS
<1>1. PICK s \in Station, t \in Station :
        s # t /\ port = <<Started(s, carried.legacy), Started(t, carried.legacy)>>
  BY DEF Init
<1>2. carried.legacy \in BOOLEAN
  BY GptpAssumption DEF Init
<1>3. \A e \in End : \E c \in Station : port[e] = Started(c, carried.legacy)
  BY <1>1 DEF End
<1>4. port \in [End -> Port]
  <2>1. port \in [1 .. 2 -> Port]
    BY <1>1, <1>2, StartedIsPort
  <2> QED
    BY <2>1 DEF End
<1>5. \A e \in End : Inbox(e) = {}
  BY ElemsOfEmpty DEF Init, Inbox
<1>6. TypeOK
  <2>1. inbox \in [End -> Seq(Message)]
    BY EmptyIsSeq DEF Init
  <2>2. carried \in Traffic /\ calm \in BOOLEAN /\ replaced \in 0 .. MaxReplaced
    <3>1. carried \in Traffic /\ calm = FALSE /\ replaced = 0
      BY DEF Init
    <3>2. 0 \in 0 .. MaxReplaced
      BY GptpAssumption
    <3> QED
      BY <3>1, <3>2
  <2>3. delay \in [End -> {"none", "one", "wrapped", "mixed"}]
    BY DEF Init
  <2>4. /\ silent \in [End -> 0 .. AnnounceTimeout + 1] /\ asked \in [End -> 0 .. SeqMod]
        /\ missed \in [End -> BOOLEAN]
    BY GptpAssumption DEF Init, AnnounceTimeout
  <2> QED
    BY <1>4, <2>1, <2>2, <2>3, <2>4 DEF TypeOK
<1>7. \A e \in End : /\ port[e].state = "MASTER" /\ port[e].best = port[e].clock
                     /\ port[e].adjust = {} /\ port[e].prev = {}
                     /\ port[e].sync = {} /\ port[e].response = {}
  <2> TAKE e \in End
  <2>1. PICK c \in Station : port[e] = Started(c, carried.legacy)
    BY <1>3
  <2> QED
    BY <2>1 DEF Started
<1>8. \A e \in End : RoleInv(e) /\ RateInv(e) /\ SyncInv(e)
  <2> TAKE e \in End
  <2>1. RoleInv(e) /\ RateInv(e)
    BY <1>7 DEF RoleInv, SoundRole, RateInv, OneMaster
  <2>2. inbox[e] = << >> /\ Paired(inbox[e])
    BY DEF Init, Paired
  <2>3. SyncInv(e)
    BY <1>5, <1>7, <2>2 DEF SyncInv
  <2> QED
    BY <2>1, <2>3
<1>9. \A e \in End : Peer(e) \in End
  BY DEF End, Peer
<1>10. \A e \in End : ExchangeInv(e) /\ AskedInv(e)
  BY <1>5, <1>7, <1>9 DEF ExchangeInv, Exchange, AskedInv
<1>11. DelayIsOfOneExchange
  BY DEF Init, DelayIsOfOneExchange
<1> QED
  BY <1>5, <1>6, <1>8, <1>10, <1>11 DEF IInv

LEMMA PeerIsOther ==
  ASSUME NEW e \in End
  PROVE  Peer(e) \in End /\ Peer(e) # e /\ Peer(Peer(e)) = e
         /\ \A f \in End : f = e \/ f = Peer(e)
BY DEF End, Peer

\* What is posted is at most the one message, of its clock.
LEMMA PostedIsMsg ==
  ASSUME NEW e \in End, NEW p \in Port, NEW type \in MessageType,
         NEW i \in 0 .. SeqMod - 1
  PROVE  /\ Post(e, p, type, i) \in Seq(Message)
         /\ Elems(Post(e, p, type, i)) \subseteq {Msg(p, type, i)}
         /\ OfItsClock(Msg(p, type, i))
         /\ Elems(Post(e, p, type, i)) # {} => type \in carried.to[e]
<1>1. Msg(p, type, i) \in Message /\ OfItsClock(Msg(p, type, i))
  BY StationPair DEF Msg, Message, OfItsClock, Port
<1>2. /\ << >> \in Seq(Message) /\ <<Msg(p, type, i)>> \in Seq(Message)
      /\ Elems(<<Msg(p, type, i)>>) = {Msg(p, type, i)}
  BY <1>1 DEF Elems
<1> QED
  BY <1>1, <1>2, ElemsOfEmpty DEF Post

LEMMA ReplyIsOfExchange ==
  ASSUME NEW e \in End, NEW p \in Port, NEW m \in Message
  PROVE  /\ Reply(e, p, m) \in Seq(Message)
         /\ \A r \in Elems(Reply(e, p, m)) :
              /\ OfItsClock(r) /\ m.type = "request" /\ r.seq = m.seq
              /\ r.type \in {"response", "responsefu"}
<1>1. m.seq \in 0 .. SeqMod - 1
  BY DEF Message
<1>2. /\ "response" \in MessageType /\ "responsefu" \in MessageType
  BY DEF MessageType
<1> DEFINE s == Post(e, p, "response", m.seq)
           t == Post(e, p, "responsefu", m.seq)
<1>3. /\ s \in Seq(Message) /\ Elems(s) \subseteq {Msg(p, "response", m.seq)}
      /\ t \in Seq(Message) /\ Elems(t) \subseteq {Msg(p, "responsefu", m.seq)}
      /\ OfItsClock(Msg(p, "response", m.seq)) /\ OfItsClock(Msg(p, "responsefu", m.seq))
  BY <1>1, <1>2, PostedIsMsg
<1>4. Reply(e, p, m) = IF m.type = "request" /\ (p.legacy => p.state = "MASTER")
                       THEN s \o t ELSE << >>
  BY DEF Reply
<1> HIDE DEF s, t
<1>5. s \o t \in Seq(Message) /\ Elems(s \o t) = Elems(s) \union Elems(t)
  BY <1>3, ElemsOfConcat
<1>6. \A r \in {Msg(p, "response", m.seq), Msg(p, "responsefu", m.seq)} :
        r.seq = m.seq /\ r.type \in {"response", "responsefu"}
  BY DEF Msg
<1> QED
  BY <1>3, <1>4, <1>5, <1>6, ElemsOfEmpty, EmptyIsSeq

\* A follow-up goes right behind its sync.
LEMMA SyncThenFollowUp ==
  ASSUME NEW e \in End, NEW p \in Port, NEW i \in 0 .. SeqMod - 1,
         "sync" \in carried.to[e]
  PROVE  Whole(Post(e, p, "sync", i) \o Post(e, p, "followup", i))
<1> DEFINE y == Msg(p, "sync", i)
           u == Msg(p, "followup", i)
           s == Post(e, p, "sync", i)
           t == Post(e, p, "followup", i)
<1>1. /\ s = <<y>> /\ (t = <<u>> \/ t = << >>)
  BY DEF Post
<1>2. Precedes(y, u) /\ ~IsFollowUp(y)
  BY DEF Precedes, IsFollowUp, Msg
<1> HIDE DEF y, u, s, t
<1>3. CASE t = <<u>>
  <2>1. s \in Seq({y, u}) /\ t \in Seq({y, u}) /\ Len(s) = 1 /\ Len(t) = 1
    BY <1>1, <1>3
  <2>2. /\ s \o t \in Seq({y, u}) /\ Len(s \o t) = 2
        /\ (s \o t)[1] = y /\ (s \o t)[2] = u
    BY <1>1, <1>3, <2>1, ConcatProperties
  <2>3. DOMAIN (s \o t) = 1 .. 2
    BY <2>2, LenProperties
  <2>4. Whole(s \o t)
    BY <1>2, <2>2, <2>3 DEF Whole
  <2> QED
    BY <2>4 DEF s, t
<1>4. CASE t = << >>
  <2>1. s \o t = <<y>>
    BY <1>1, <1>4
  <2>2. Whole(<<y>>)
    BY <1>2 DEF Whole
  <2> QED
    BY <2>1, <2>2 DEF s, t
<1> QED
  BY <1>1, <1>3, <1>4

\* A request is sent only if it is due, with the sequence id it got; syncs only where
\* they are carried, and followed up.
LEMMA SentIsOfExchange ==
  ASSUME NEW e \in End, NEW old \in Port, NEW p \in Port
  PROVE  /\ Sent(e, old, p) \in Seq(Message)
         /\ \A r \in Elems(Sent(e, old, p)) :
              /\ OfItsClock(r) /\ r.type \notin {"response", "responsefu"}
              /\ r.type = "request" => PdelayIsDue(old) /\ r.seq = p.reqSeq
              /\ r.type = "sync" => "sync" \in carried.to[e]
         /\ "sync" \in carried.to[e] => Whole(Sent(e, old, p))
<1>1. /\ p.syncSeq \in 0 .. SeqMod - 1 /\ p.reqSeq \in 0 .. SeqMod - 1
      /\ 0 \in 0 .. SeqMod - 1
  BY GptpAssumption DEF Port
<1>2. {"announce", "sync", "followup", "request"} \subseteq MessageType
  BY DEF MessageType
<1> DEFINE a == Post(e, p, "announce", 0)
           s == Post(e, p, "sync", p.syncSeq)
           f == Post(e, p, "followup", p.syncSeq)
           r == Post(e, p, "request", p.reqSeq)
<1>3. /\ a \in Seq(Message) /\ Elems(a) \subseteq {Msg(p, "announce", 0)}
      /\ s \in Seq(Message) /\ Elems(s) \subseteq {Msg(p, "sync", p.syncSeq)}
      /\ f \in Seq(Message) /\ Elems(f) \subseteq {Msg(p, "followup", p.syncSeq)}
      /\ r \in Seq(Message) /\ Elems(r) \subseteq {Msg(p, "request", p.reqSeq)}
      /\ Elems(s) # {} => "sync" \in carried.to[e]
  BY <1>1, <1>2, PostedIsMsg
<1>14. "sync" \in carried.to[e] => Whole(s \o f)
  BY <1>1, SyncThenFollowUp
<1>4. OfItsClock(Msg(p, "announce", 0)) /\ OfItsClock(Msg(p, "sync", p.syncSeq))
      /\ OfItsClock(Msg(p, "followup", p.syncSeq)) /\ OfItsClock(Msg(p, "request", p.reqSeq))
  BY <1>1, <1>2, PostedIsMsg
<1>5. /\ Announcement(e, old, p) \in {a, << >>}
      /\ SyncAndFollowUp(e, old, p) \in {s \o f, << >>}
      /\ PdelayRequest(e, old, p) = IF PdelayIsDue(old) THEN r ELSE << >>
  BY DEF Announcement, SyncAndFollowUp, PdelayRequest
<1> HIDE DEF a, s, f, r
<1> DEFINE A == Announcement(e, old, p)
           S == SyncAndFollowUp(e, old, p)
           R == PdelayRequest(e, old, p)
<1>6. s \o f \in Seq(Message) /\ Elems(s \o f) = Elems(s) \union Elems(f)
  BY <1>3, ElemsOfConcat
<1>7. /\ A \in Seq(Message) /\ S \in Seq(Message) /\ R \in Seq(Message)
      /\ Elems(A) \subseteq Elems(a) /\ Elems(S) \subseteq Elems(s) \union Elems(f)
      /\ Elems(R) \subseteq IF PdelayIsDue(old) THEN Elems(r) ELSE {}
  BY <1>3, <1>5, <1>6, ElemsOfEmpty, EmptyIsSeq
<1>8. Sent(e, old, p) = A \o S \o R
  BY DEF Sent
<1> HIDE DEF A, S, R
<1>9. A \o S \in Seq(Message) /\ Elems(A \o S) = Elems(A) \union Elems(S)
  BY <1>7, ElemsOfConcat
<1>15. Whole(<< >>)
  BY DEF Whole
<1>16. "sync" \in carried.to[e] => Whole(S)
  BY <1>5, <1>14, <1>15 DEF S
<1> DEFINE AS == A \o S
<1>10. /\ Sent(e, old, p) \in Seq(Message)
       /\ Elems(Sent(e, old, p)) = Elems(A \o S) \union Elems(R)
  <2>1. AS \in Seq(Message) /\ Sent(e, old, p) = AS \o R
    BY <1>8, <1>9
  <2> HIDE DEF AS
  <2>2. /\ Sent(e, old, p) \in Seq(Message)
        /\ Elems(Sent(e, old, p)) = Elems(AS) \union Elems(R)
    BY <1>7, <2>1, ElemsOfConcat
  <2> QED
    BY <2>2 DEF AS
<1>11. /\ Msg(p, "announce", 0).type = "announce"
       /\ Msg(p, "sync", p.syncSeq).type = "sync"
       /\ Msg(p, "followup", p.syncSeq).type = "followup"
       /\ Msg(p, "request", p.reqSeq).type = "request"
       /\ Msg(p, "request", p.reqSeq).seq = p.reqSeq
  BY DEF Msg
<1>12. \A x \in Elems(A) \union Elems(S) :
         /\ OfItsClock(x) /\ x.type \in {"announce", "sync", "followup"}
         /\ x.type = "sync" => "sync" \in carried.to[e]
  BY <1>3, <1>4, <1>7, <1>11
<1>13. \A x \in Elems(R) :
         OfItsClock(x) /\ x.type = "request" /\ x.seq = p.reqSeq /\ PdelayIsDue(old)
  BY <1>3, <1>4, <1>7, <1>11
<1>17. ASSUME "sync" \in carried.to[e] PROVE Whole(Sent(e, old, p))
  <2>1. Whole(A)
    <3>1. \A x \in Elems(A) : ~IsFollowUp(x)
      BY <1>3, <1>7, <1>11 DEF IsFollowUp
    <3> QED
      BY <3>1, WithoutFollowUp
  <2>2. Whole(R)
    <3>1. \A x \in Elems(R) : ~IsFollowUp(x)
      BY <1>13 DEF IsFollowUp
    <3> QED
      BY <3>1, WithoutFollowUp
  <2>3. Whole(AS)
    BY <1>7, <1>16, <1>17, <2>1, PairedConcat
  <2>4. AS \in Seq(Message) /\ Sent(e, old, p) = AS \o R
    BY <1>8, <1>9
  <2> HIDE DEF AS
  <2> QED
    BY <1>7, <2>2, <2>3, <2>4, PairedConcat
<1> QED
  BY <1>9, <1>10, <1>12, <1>13, <1>17

-----------------------------------------------------------------------------
\* A message keeps the role of a server sound.
LEMMA ReceivedKeepsRole ==
  ASSUME NEW p \in Port, NEW m \in Message, OfItsClock(m),
         NEW age \in 0 .. AnnounceTimeout + 1, SoundRole(p, age)
  PROVE  SoundRole(Received(p, m),
                   IF m.type = "announce" /\ OfMaster(Received(p, m), m) THEN 0 ELSE age)
<1>1. CASE m.type = "announce"
  <2> DEFINE q == Elected(p, m)
  <2>1. Received(p, m) = IF OfMaster(q, m) THEN [q EXCEPT !.heard = {0}] ELSE q
    BY <1>1 DEF Received, AfterAnnounce
  <2>2. q \in Port /\ m.clock \in Station /\ p.best \in Station /\ p.clock \in Station
    BY AnnounceKeeps DEF Message, Port
  <2>3. CASE Elects(p, m)
    <3> DEFINE q0 == [p EXCEPT !.best = m.clock]
    <3>1. q0 \in Port /\ q0.best = m.clock /\ q0.clock = p.clock
      BY <2>2 DEF Port
    <3>2. q = [BecomeSlave(q0) EXCEPT !.heard = {}, !.master = m.from]
      BY <2>3, Zenon DEF Elected
    <3> HIDE DEF q0
    <3>3. /\ q.state = "SLAVE" /\ q.master = m.from /\ q.best = m.clock
          /\ q.clock = p.clock
      BY <3>1, <3>2 DEF BecomeSlave, Port
    <3>4. Better(m.clock, p.clock)
      BY <2>2, <2>3, BetterIsTransitive DEF SoundRole, Elects
    <3>5. OfMaster(q, m)
      BY <3>3 DEF OfMaster
    <3> HIDE DEF q
    <3> DEFINE r == [q EXCEPT !.heard = {0}]
    <3>6. /\ r.state = "SLAVE" /\ r.master = m.from /\ r.best = m.clock
          /\ r.clock = p.clock /\ r.heard = {0}
      BY <2>2, <3>3 DEF Port
    <3>7. Received(p, m) = r
      BY <2>1, <3>5
    <3> HIDE DEF r
    <3>8. OfMaster(r, m)
      BY <3>6 DEF OfMaster
    <3> QED
      BY <1>1, <3>4, <3>6, <3>7, <3>8 DEF SoundRole, OfItsClock, AnnounceTimeout
  <2>4. CASE ~Elects(p, m)
    <3>1. q = p
      BY <2>4 DEF Elected
    <3>2. CASE OfMaster(p, m)
      <4>1. Received(p, m) = [p EXCEPT !.heard = {0}]
        BY <2>1, <3>1, <3>2
      <4>2. /\ OfMaster(Received(p, m), m) /\ Received(p, m).heard = {0}
            /\ Received(p, m).state = p.state /\ Received(p, m).best = p.best
            /\ Received(p, m).master = p.master /\ Received(p, m).clock = p.clock
        BY <3>2, <4>1 DEF Port, OfMaster
      <4> QED
        BY <1>1, <4>2 DEF SoundRole, AnnounceTimeout, OfMaster
    <3>3. CASE ~OfMaster(p, m)
      BY <2>1, <3>1, <3>3
    <3> QED
      BY <3>2, <3>3
  <2> QED
    BY <2>3, <2>4
<1>2. CASE m.type # "announce"
  <2> DEFINE q == Received(p, m)
  <2>1. /\ q.state = p.state /\ q.best = p.best /\ q.heard = p.heard
        /\ q.master = p.master /\ q.clock = p.clock
    <3>1. q \in {p, AfterSync(p, m), AfterFollowUp(p, m), AfterResponse(p, m),
                 AfterResponseFollowUp(p, m)}
      BY <1>2 DEF Received, Message, MessageType
    <3> QED
      BY ZenonT(60), <3>1 DEF AfterSync, AfterFollowUp, UpdateAdjust, AfterResponse,
                  AfterResponseFollowUp, Port
  <2> QED
    BY <1>2, <2>1 DEF SoundRole
<1> QED
  BY <1>1, <1>2

\* A message keeps the rate that of one master, if the sync a follow-up finds is of
\* the master followed: a new master starts anew.
LEMMA ReceivedKeepsMaster ==
  ASSUME NEW p \in Port, NEW m \in Message, Elects(p, m) \/ OneMaster(p),
         IsFollowUp(m) /\ m.from = p.master => \A x \in p.sync : x.from = p.master
  PROVE  OneMaster(Received(p, m))
<1>1. CASE m.type = "announce"
  <2> DEFINE q == Elected(p, m)
  <2>1. Received(p, m) = IF OfMaster(q, m) THEN [q EXCEPT !.heard = {0}] ELSE q
    BY <1>1 DEF Received, AfterAnnounce
  <2>2. q \in Port
    BY AnnounceKeeps
  <2>3. OneMaster(q)
    <3>1. CASE ~Elects(p, m)
      BY <3>1 DEF Elected
    <3>2. CASE Elects(p, m)
      <4> DEFINE q0 == BecomeSlave([p EXCEPT !.best = m.clock])
      <4>1. q = [q0 EXCEPT !.heard = {}, !.master = m.from]
        BY <3>2, Zenon DEF Elected
      <4>2. q0.adjust = {} /\ q0.prev = {}
        BY DEF BecomeSlave, Port
      <4> HIDE DEF q0
      <4>3. q.adjust = {} /\ q.prev = {}
        BY <4>1, <4>2
      <4> QED
        BY <4>3 DEF OneMaster
    <3> QED
      BY <3>1, <3>2
  <2> HIDE DEF q
  <2> QED
    BY <2>1, <2>2, <2>3 DEF OneMaster, Port
<1>2. CASE m.type = "followup"
  <2> DEFINE paired == m.seq \in {x.seq : x \in p.sync} /\ p.master = m.from
             u == IF paired THEN UpdateAdjust(p, m) ELSE p
  <2>1. Received(p, m) = [u EXCEPT !.sync = {}]
    BY <1>2 DEF Received, AfterFollowUp
  <2>2. OneMaster(p)
    BY <1>2 DEF Elects
  <2>3. u.adjust \union u.prev \subseteq {u.master}
    <3>1. CASE paired
      <4> DEFINE now == {m.from} \union {x.from : x \in p.sync}
      <4>1. now \subseteq {p.master}
        BY <1>2, <3>1 DEF IsFollowUp
      <4>2. u = [p EXCEPT !.adjust = IF p.prev = {} THEN @ ELSE @ \union p.prev \union now,
                          !.prev = now]
        BY <3>1 DEF UpdateAdjust
      <4> HIDE DEF now, u
      <4>3. u.master = p.master /\ u.prev = now /\ u.adjust \subseteq p.adjust \union p.prev \union now
        BY <4>2 DEF Port
      <4> QED
        BY <2>2, <4>1, <4>3 DEF OneMaster
    <3>2. CASE ~paired
      BY <2>2, <3>2 DEF OneMaster
    <3> QED
      BY <3>1, <3>2
  <2>4. u \in Port
    BY UpdateAdjustIsPort
  <2> HIDE DEF u
  <2> QED
    BY <2>1, <2>3, <2>4 DEF OneMaster, Port
<1>3. CASE m.type \notin {"announce", "followup"}
  <2> DEFINE q == Received(p, m)
  <2>1. q \in {p, AfterSync(p, m), AfterResponse(p, m), AfterResponseFollowUp(p, m)}
    BY <1>3 DEF Received, Message, MessageType
  <2>2. q.adjust = p.adjust /\ q.prev = p.prev /\ q.master = p.master
    BY <2>1 DEF AfterSync, AfterResponse, AfterResponseFollowUp, Port
  <2> QED
    BY <1>3, <2>2 DEF OneMaster, Elects
<1> QED
  BY <1>1, <1>2, <1>3

\* The sync kept is of the master, or was kept before and still is.
LEMMA ReceivedKeepsSync ==
  ASSUME NEW p \in Port, NEW m \in Message
  PROVE  LET q == Received(p, m)
         IN  /\ ~Elects(p, m) => q.master = p.master
             /\ q.sync \subseteq p.sync \/ m.type = "sync"
             /\ m.type = "sync" /\ m.from = p.master =>
                  \A x \in q.sync : x.from = p.master
             /\ m.type = "sync" /\ m.from # p.master => q.sync = p.sync
<1> DEFINE q == Received(p, m)
<1>1. CASE m.type = "announce"
  <2> DEFINE r == Elected(p, m)
             s == BecomeSlave([p EXCEPT !.best = m.clock])
  <2>1. s.sync = p.sync /\ s \in Port
    <3>1. [p EXCEPT !.best = m.clock] \in Port
      BY DEF Port, Message
    <3>2. s \in Port
      BY <3>1, BecomeKeeps
    <3> QED
      BY <3>2 DEF BecomeSlave, Port
  <2>2. r = IF Elects(p, m) THEN [s EXCEPT !.heard = {}, !.master = m.from] ELSE p
    BY DEF Elected
  <2> HIDE DEF s
  <2>3. r.sync = p.sync /\ (~Elects(p, m) => r.master = p.master)
    BY <2>1, <2>2 DEF Port
  <2>4. q \in {r, [r EXCEPT !.heard = {0}]} /\ r \in Port
    BY <1>1, AnnounceKeeps DEF Received, AfterAnnounce
  <2> HIDE DEF r, q
  <2>5. q.sync = r.sync /\ q.master = r.master
    BY <2>4 DEF Port
  <2> QED
    BY <1>1, <2>3, <2>5 DEF q
<1>2. CASE m.type = "sync"
  <2>1. q = AfterSync(p, m)
    BY <1>2 DEF Received
  <2> HIDE DEF q
  <2>2. CASE p.master = m.from
    <3>1. q = [p EXCEPT !.sync = {[seq |-> m.seq, from |-> m.from]}]
      BY <2>1, <2>2 DEF AfterSync
    <3>2. q.master = p.master /\ q.sync = {[seq |-> m.seq, from |-> m.from]}
      BY <3>1 DEF Port
    <3> QED
      BY <1>2, <2>2, <3>2 DEF q
  <2>3. CASE p.master # m.from
    BY <1>2, <2>1, <2>3 DEF AfterSync, q
  <2> QED
    BY <2>2, <2>3
<1>3. CASE m.type \notin {"announce", "sync"}
  <2>1. q \in {p, AfterFollowUp(p, m), AfterResponse(p, m), AfterResponseFollowUp(p, m)}
    BY <1>3 DEF Received, Message, MessageType
  <2> HIDE DEF q
  <2>2. q.sync \in {p.sync, {}} /\ q.master = p.master
    BY <2>1 DEF AfterFollowUp, UpdateAdjust, AfterResponse, AfterResponseFollowUp, Port
  <2> QED
    BY <1>3, <2>2 DEF q
<1> QED
  BY <1>1, <1>2, <1>3

\* A response is kept only if it answers the request sent last.
LEMMA ReceivedKeepsResponse ==
  ASSUME NEW p \in Port, NEW m \in Message
  PROVE  Received(p, m).response \subseteq IF Answers(p, m) THEN {p.reqSeq} ELSE p.response
<1> DEFINE q == Received(p, m)
<1>1. CASE m.type = "announce"
  <2> DEFINE r == Elected(p, m)
             s == BecomeSlave([p EXCEPT !.best = m.clock])
  <2>1. s.response = p.response /\ s \in Port
    <3>1. [p EXCEPT !.best = m.clock] \in Port
      BY DEF Port, Message
    <3>2. s \in Port
      BY <3>1, BecomeKeeps
    <3> QED
      BY <3>2 DEF BecomeSlave, Port
  <2>2. r = IF Elects(p, m) THEN [s EXCEPT !.heard = {}, !.master = m.from] ELSE p
    BY DEF Elected
  <2> HIDE DEF s
  <2>3. r.response = p.response
    BY <2>1, <2>2 DEF Port
  <2>4. q \in {r, [r EXCEPT !.heard = {0}]} /\ r \in Port
    BY <1>1, AnnounceKeeps DEF Received, AfterAnnounce
  <2> HIDE DEF r, q
  <2>5. q.response = r.response
    BY <2>4 DEF Port
  <2> QED
    BY <1>1, <2>3, <2>5 DEF q, Answers
<1>2. CASE m.type = "response"
  <2>1. q = AfterResponse(p, m)
    BY <1>2 DEF Received
  <2> HIDE DEF q
  <2>2. q.response = IF Answers(p, m) THEN {m.seq} ELSE p.response
    BY <2>1 DEF AfterResponse, Answers, Port
  <2> QED
    BY <2>2 DEF q, Answers
<1>3. CASE m.type \notin {"announce", "response"}
  <2>1. q \in {p, AfterSync(p, m), AfterFollowUp(p, m), AfterResponseFollowUp(p, m)}
    BY <1>3 DEF Received, Message, MessageType
  <2> HIDE DEF q
  <2>2. q.response \in {p.response, {}}
    BY <2>1 DEF AfterSync, AfterFollowUp, UpdateAdjust, AfterResponseFollowUp, Port
  <2> QED
    BY <1>3, <2>2 DEF q, Answers
<1> QED
  BY <1>1, <1>2, <1>3

\* A message begins no exchange and asks for none.
LEMMA ReceivedKeepsExchange ==
  ASSUME NEW p \in Port, NEW m \in Message
  PROVE  LET q == Received(p, m)
         IN  /\ q.reqSeq = p.reqSeq /\ (q.pdelayDue => p.pdelayDue)
             /\ q.requested \/ q.response # {} => p.requested \/ p.response # {}
<1> DEFINE q == Received(p, m)
<1>1. CASE m.type = "announce"
  <2> DEFINE r == Elected(p, m)
             s == BecomeSlave([p EXCEPT !.best = m.clock])
  <2>1. r \in {p, [s EXCEPT !.heard = {}, !.master = m.from]}
    BY Zenon DEF Elected
  <2>2. /\ s.reqSeq = p.reqSeq /\ s.pdelayDue = FALSE
        /\ s.requested = p.requested /\ s.response = p.response /\ s \in Port
    <3>1. [p EXCEPT !.best = m.clock] \in Port
      BY DEF Port, Message
    <3>2. s \in Port
      BY <3>1, BecomeKeeps
    <3> QED
      BY <3>2 DEF BecomeSlave, Port
  <2> HIDE DEF s
  <2>3. /\ r.reqSeq = p.reqSeq /\ (r.pdelayDue => p.pdelayDue)
        /\ r.requested = p.requested /\ r.response = p.response
    <3>1. LET t == [s EXCEPT !.heard = {}, !.master = m.from]
          IN  /\ t.reqSeq = s.reqSeq /\ t.pdelayDue = s.pdelayDue
              /\ t.requested = s.requested /\ t.response = s.response
      BY <2>2 DEF Port
    <3> HIDE DEF r
    <3> QED
      BY <2>1, <2>2, <3>1
  <2>4. q \in {r, [r EXCEPT !.heard = {0}]} /\ r \in Port
    BY <1>1, AnnounceKeeps DEF Received, AfterAnnounce
  <2> HIDE DEF r, q
  <2>5. /\ q.reqSeq = r.reqSeq /\ q.pdelayDue = r.pdelayDue
        /\ q.requested = r.requested /\ q.response = r.response
    BY <2>4 DEF Port
  <2> QED
    BY <2>3, <2>5 DEF q
<1>2. CASE m.type # "announce"
  <2>1. q \in {p, AfterSync(p, m), AfterFollowUp(p, m), AfterResponse(p, m),
               AfterResponseFollowUp(p, m)}
    BY <1>2 DEF Received, Message, MessageType
  <2> HIDE DEF q
  <2>2. q.reqSeq = p.reqSeq /\ q.pdelayDue = p.pdelayDue
    BY <2>1 DEF AfterSync, AfterFollowUp, UpdateAdjust, AfterResponse,
                AfterResponseFollowUp, Port
  <2>3. q.requested \/ q.response # {} => p.requested \/ p.response # {}
    BY <2>1 DEF AfterSync, AfterFollowUp, UpdateAdjust, AfterResponse, Answers,
                AfterResponseFollowUp, Port
  <2> QED
    BY <2>2, <2>3 DEF q
<1> QED
  BY <1>1, <1>2

-----------------------------------------------------------------------------
(***************************************************************************)
(* What a poll does to the parts of the invariant.                         *)
(***************************************************************************)
LEMMA TimeoutKeeps ==
  ASSUME NEW p \in Port, NEW age \in 0 .. AnnounceTimeout + 1, SoundRole(p, age)
  PROVE  LET t == Timeout(p)
         IN  /\ SoundRole(t, age) /\ (OneMaster(p) => OneMaster(t))
             /\ t.master = p.master /\ t.sync = p.sync
             /\ t.reqSeq = p.reqSeq /\ t.pdelayDue = p.pdelayDue
             /\ t.requested = p.requested /\ t.response = p.response /\ t.sync = p.sync
<1> DEFINE t == Timeout(p)
<1>1. CASE ~TimedOut(p)
  BY <1>1 DEF Timeout
<1>2. CASE TimedOut(p) /\ p.state = "SLAVE"
  <2> DEFINE u == BecomeUncertain(p)
  <2>1. t = [u EXCEPT !.heard = {0}, !.announceDue = TRUE]
    BY <1>2 DEF Timeout
  <2>2. /\ u.state = "UNCERTAIN" /\ u.best = u.clock /\ u.adjust = p.adjust /\ u.prev = p.prev
        /\ u.master = p.master /\ u.reqSeq = p.reqSeq /\ u.pdelayDue = p.pdelayDue
        /\ u.requested = p.requested /\ u.response = p.response /\ u.sync = p.sync
    BY DEF BecomeUncertain, Port
  <2>3. u \in Port
    BY BecomeKeeps
  <2> HIDE DEF u
  <2>4. /\ t.state = "UNCERTAIN" /\ t.best = t.clock /\ t.adjust = p.adjust /\ t.prev = p.prev
        /\ t.master = p.master /\ t.reqSeq = p.reqSeq /\ t.pdelayDue = p.pdelayDue
        /\ t.requested = p.requested /\ t.response = p.response /\ t.sync = p.sync
    BY <2>1, <2>2, <2>3 DEF Port
  <2> HIDE DEF t
  <2>5. SoundRole(t, age) /\ (OneMaster(p) => OneMaster(t))
    BY <2>4 DEF SoundRole, OneMaster
  <2> QED
    BY <2>4, <2>5 DEF t
<1>3. CASE TimedOut(p) /\ p.state # "SLAVE"
  <2>1. t = BecomeMaster(p)
    BY <1>3 DEF Timeout
  <2>2. /\ t.state = "MASTER" /\ t.best = t.clock /\ t.adjust = {} /\ t.prev = p.prev
        /\ t.master = p.master /\ t.reqSeq = p.reqSeq /\ t.pdelayDue = p.pdelayDue
        /\ t.requested = p.requested /\ t.response = p.response /\ t.sync = p.sync
    BY <2>1 DEF BecomeMaster, Port
  <2> HIDE DEF t
  <2>3. SoundRole(t, age) /\ (OneMaster(p) => OneMaster(t))
    BY <2>2 DEF SoundRole, OneMaster
  <2> QED
    BY <2>2, <2>3 DEF t
<1> QED
  BY <1>1, <1>2, <1>3

LEMMA SendingKeeps ==
  ASSUME NEW e \in End, NEW p \in Port, NEW age \in 0 .. AnnounceTimeout + 1,
         SoundRole(p, age)
  PROVE  LET q == AfterSending(e, p)
         IN  /\ SoundRole(q, age) /\ (OneMaster(p) => OneMaster(q))
             /\ q.response = p.response /\ q.master = p.master /\ q.sync = p.sync
             /\ q.reqSeq \in {p.reqSeq, (p.reqSeq + 1) % SeqMod}
             /\ PdelayIsDue(p) => p.pdelayDue /\ ~q.pdelayDue
             /\ ~PdelayIsDue(p) => /\ q.reqSeq = p.reqSeq /\ q.requested = p.requested
                                   /\ q.pdelayDue = p.pdelayDue
<1> DEFINE q == AfterSending(e, p)
           sync == p.syncDue /\ ~SyncIsDue(p)
           pdelay == p.pdelayDue /\ ~PdelayIsDue(p)
           requested == p.requested \/ PdelayIsDue(p)
           syncSeq == IF SyncIsDue(p) THEN NextId(e, "sync", p.syncSeq) ELSE p.syncSeq
           reqSeq == IF PdelayIsDue(p) THEN NextId(e, "request", p.reqSeq) ELSE p.reqSeq
<1>1. q = [p EXCEPT !.announceDue = FALSE, !.syncDue = sync, !.syncSeq = syncSeq,
                    !.pdelayDue = pdelay, !.reqSeq = reqSeq, !.requested = requested]
  BY DEF AfterSending
<1>2. /\ PdelayIsDue(p) => p.pdelayDue /\ ~pdelay
      /\ ~PdelayIsDue(p) => /\ reqSeq = p.reqSeq /\ requested = p.requested
                            /\ pdelay = p.pdelayDue
  BY DEF PdelayIsDue, Port
<1>5. reqSeq \in {p.reqSeq, (p.reqSeq + 1) % SeqMod}
  BY DEF NextId
<1> HIDE DEF sync, pdelay, requested, syncSeq, reqSeq
<1>3. /\ q.state = p.state /\ q.best = p.best /\ q.clock = p.clock /\ q.master = p.master
      /\ q.heard = p.heard /\ q.adjust = p.adjust /\ q.prev = p.prev
      /\ q.response = p.response /\ q.reqSeq = reqSeq /\ q.requested = requested
      /\ q.pdelayDue = pdelay /\ q.sync = p.sync
  BY <1>1 DEF Port
<1> HIDE DEF q
<1>4. SoundRole(q, age) /\ (OneMaster(p) => OneMaster(q))
  BY <1>3 DEF SoundRole, OneMaster
<1> QED
  BY <1>2, <1>3, <1>4, <1>5 DEF q

LEMMA OlderKeeps ==
  ASSUME NEW p \in Port, NEW age \in 0 .. AnnounceTimeout + 1, SoundRole(p, age),
         ~TimedOut(p)
  PROVE  /\ SoundRole(Older(p), IF age <= AnnounceTimeout THEN age + 1 ELSE age)
         /\ (OneMaster(p) => OneMaster(Older(p)))
         /\ Older(p).master = p.master /\ Older(p).sync = p.sync /\ Older(p).reqSeq = p.reqSeq
         /\ Older(p).requested = p.requested /\ Older(p).response = p.response
<1> DEFINE q == Older(p)
           heard == {IF a < AnnounceTimeout THEN a + 1 ELSE a : a \in p.heard}
<1>1. p.state = "SLAVE" => age < AnnounceTimeout /\ heard = {age + 1}
  BY DEF SoundRole, TimedOut, AnnounceTimeout
<1>2. q = [p EXCEPT !.heard = heard, !.announceDue = TRUE, !.syncDue = TRUE, !.pdelayDue = TRUE]
  BY DEF Older
<1> HIDE DEF heard
<1>3. /\ q.state = p.state /\ q.best = p.best /\ q.clock = p.clock /\ q.master = p.master
      /\ q.heard = heard /\ q.adjust = p.adjust /\ q.prev = p.prev
      /\ q.reqSeq = p.reqSeq /\ q.requested = p.requested /\ q.response = p.response
      /\ q.sync = p.sync
  BY <1>2 DEF Port
<1> HIDE DEF q
<1>4. SoundRole(q, IF age <= AnnounceTimeout THEN age + 1 ELSE age)
  BY <1>1, <1>3 DEF SoundRole, AnnounceTimeout
<1>5. OneMaster(p) => OneMaster(q)
  BY <1>3 DEF OneMaster
<1> QED
  BY <1>3, <1>4, <1>5 DEF q

-----------------------------------------------------------------------------
(***************************************************************************)
(* Every step keeps the invariant.                                         *)
(***************************************************************************)
\* What the invariant says of one end.
LEMMA IInvAt ==
  ASSUME IInv, NEW e \in End
  PROVE  /\ Peer(e) \in End /\ Peer(e) # e /\ port[e] \in Port
         /\ inbox[e] \in Seq(Message) /\ Inbox(e) \subseteq Message
         /\ \A m \in Inbox(e) : OfItsClock(m)
         /\ silent[e] \in 0 .. AnnounceTimeout + 1
         /\ SoundRole(port[e], silent[e]) /\ RateInv(e) /\ SyncInv(e)
         /\ ExchangeInv(e) /\ AskedInv(e)
         /\ asked[e] \in 0 .. SeqMod /\ missed[e] \in BOOLEAN
<1>1. /\ port[e] \in Port /\ inbox[e] \in Seq(Message) /\ silent[e] \in 0 .. AnnounceTimeout + 1
      /\ asked[e] \in 0 .. SeqMod /\ missed[e] \in BOOLEAN
  BY DEF IInv, TypeOK
<1>2. Inbox(e) \subseteq Message
  BY <1>1, ElemsInSet DEF Inbox
<1> QED
  BY <1>1, <1>2, PeerIsOther DEF IInv, RoleInv

\* An end that keeps its state, its count and what it missed keeps what the invariant
\* says of its syncs, if nothing but whole messages are appended to what is on its way.
LEMMA MoreOnItsWay ==
  ASSUME IInv, NEW e \in End, NEW t \in Seq(Message), inbox'[e] = inbox[e] \o t,
         carried' = carried, missed'[e] = missed[e], port'[e].master = port[e].master,
         port'[e].sync = port[e].sync, "sync" \in carried.to[e] => Whole(t),
         \A m \in Elems(t) : m.type = "sync" => "sync" \in carried.to[e]
  PROVE  SyncInv(e)'
<1>1. inbox[e] \in Seq(Message) /\ SyncInv(e)
  BY IInvAt
<1>2. Elems(inbox[e] \o t) = Inbox(e) \union Elems(t)
  BY <1>1, ElemsOfConcat DEF Inbox
<1>3. "sync" \in carried.to[e] => Paired(inbox[e] \o t)
  BY <1>1, PairedConcat DEF SyncInv
<1>4. CASE "sync" \notin carried.to[e]
  <2>1. port[e].sync = {} /\ \A m \in Inbox(e)' : m.type # "sync"
    BY <1>1, <1>2, <1>4 DEF SyncInv, Inbox
  <2> QED
    BY <1>4, <2>1 DEF SyncInv
<1>5. CASE "sync" \in carried.to[e]
  <2>1. CASE inbox[e] # << >>
    <3>1. Head(inbox[e] \o t) = Head(inbox[e])
      BY <1>1, <2>1, ConcatProperties, HeadTailProperties, LenProperties, EmptySeq
    <3> QED
      BY <1>1, <1>3, <1>5, <2>1, <3>1 DEF SyncInv
  <2>2. CASE inbox[e] = << >>
    <3>1. inbox[e] \o t = t
      BY <2>2
    <3>2. t # << >> => ~IsFollowUp(Head(t))
      <4>1. ASSUME t # << >> PROVE 1 \in DOMAIN t /\ Head(t) = t[1]
        BY <4>1, HeadTailProperties, LenProperties, EmptySeq
      <4> QED
        BY <1>5, <4>1 DEF Whole
    <3> QED
      BY <1>3, <1>5, <3>1, <3>2 DEF SyncInv
  <2> QED
    BY <2>1, <2>2
<1> QED
  BY <1>4, <1>5

\* The first message on its way was taken, and made its sync that of the master if it
\* was one of the master's, or was lost.
LEMMA LessOnItsWay ==
  ASSUME IInv, NEW e \in End, inbox[e] # << >>, inbox'[e] = Tail(inbox[e]),
         carried' = carried, port'[e].sync \subseteq port[e].sync \/ Head(inbox[e]).type = "sync",
         Head(inbox[e]).type = "sync" =>
           /\ port'[e].master = port[e].master
           /\ Head(inbox[e]).from = port[e].master =>
                missed'[e] \/ \A x \in port'[e].sync : x.from = port[e].master
  PROVE  SyncInv(e)'
<1> DEFINE s == inbox[e]
<1>1. s \in Seq(Message) /\ SyncInv(e)
  BY IInvAt
<1>2. Elems(Tail(s)) \subseteq Inbox(e) /\ Head(s) \in Inbox(e)
  BY <1>1, ElemsOfTail DEF Inbox
<1>3. CASE "sync" \notin carried.to[e]
  <2>1. port'[e].sync = {} /\ \A m \in Inbox(e)' : m.type # "sync"
    BY <1>1, <1>2, <1>3 DEF SyncInv, Inbox
  <2> QED
    BY <1>3, <2>1 DEF SyncInv
<1>4. CASE "sync" \in carried.to[e]
  <2>1. Paired(s)
    BY <1>1, <1>4 DEF SyncInv
  <2>2. /\ Paired(Tail(s))
        /\ Tail(s) # << >> /\ IsFollowUp(Head(Tail(s))) => Precedes(Head(s), Head(Tail(s)))
    BY <1>1, <2>1, PairedTail
  <2>3. ASSUME Tail(s) # << >>, IsFollowUp(Head(Tail(s))), ~missed'[e],
               Head(Tail(s)).from = port'[e].master
        PROVE  \A x \in port'[e].sync : x.from = port'[e].master
    BY <2>2, <2>3 DEF Precedes
  <2> HIDE DEF s
  <2> QED
    BY <1>4, <2>2, <2>3 DEF SyncInv, s
<1> QED
  BY <1>3, <1>4

\* A step after which less of an exchange is under way, and that begins none, keeps
\* the invariant of the exchange.
LEMMA LessOfExchange ==
  ASSUME IInv, NEW e \in End, Exchange(e)' \subseteq Exchange(e),
         port'[e].reqSeq = port[e].reqSeq, port'[e].pdelayDue => port[e].pdelayDue,
         port'[e].requested \/ port'[e].response # {}
           => port[e].requested \/ port[e].response # {}
  PROVE  ExchangeInv(e)'
BY IInvAt DEF ExchangeInv

LEMMA ReceiveInv ==
  ASSUME IInv, NEW e \in End, Receive(e) PROVE IInv'
<1> DEFINE p == port[e]
           m == Head(inbox[e])
           f == Peer(e)
           q == Received(p, m)
           reply == Reply(f, p, m)
<1>1. /\ inbox[e] # << >>
      /\ port' = [port EXCEPT ![e] = q]
      /\ inbox' = [inbox EXCEPT ![e] = Tail(@), ![f] = @ \o reply]
      /\ delay' = IF m.type = "responsefu" /\ Completes(p, m)
                  THEN [delay EXCEPT ![e] = Measured(asked[e])] ELSE delay
      /\ asked' = IF Answers(p, m) THEN [asked EXCEPT ![e] = 0] ELSE asked
      /\ missed' = IF Elects(p, m) THEN [missed EXCEPT ![e] = FALSE] ELSE missed
      /\ silent' = IF m.type = "announce" /\ OfMaster(port'[e], m)
                   THEN [silent EXCEPT ![e] = 0] ELSE silent
      /\ UNCHANGED <<carried, calm, replaced>>
  BY DEF Receive
<1>2. /\ f \in End /\ f # e /\ Peer(f) = e /\ \A x \in End : x = e \/ x = f
  BY PeerIsOther
<1>3. TypeOK
  BY DEF IInv
<1>4. /\ p \in Port /\ inbox[e] \in Seq(Message) /\ Inbox(e) \subseteq Message
      /\ SoundRole(p, silent[e]) /\ silent[e] \in 0 .. AnnounceTimeout + 1
      /\ RateInv(e) /\ SyncInv(e) /\ ExchangeInv(e) /\ AskedInv(e)
      /\ \A x \in Inbox(e) : OfItsClock(x)
      /\ asked[e] \in 0 .. SeqMod /\ missed[e] \in BOOLEAN
  BY IInvAt
<1>5. /\ inbox[f] \in Seq(Message) /\ ExchangeInv(f) /\ AskedInv(f)
      /\ \A x \in Inbox(f) : OfItsClock(x)
      /\ SoundRole(port[f], silent[f]) /\ RateInv(f)
  BY <1>2, IInvAt
<1>6. /\ m \in Message /\ m \in Inbox(e)
      /\ Tail(inbox[e]) \in Seq(Message) /\ Elems(Tail(inbox[e])) \subseteq Inbox(e)
  BY <1>1, <1>4, ElemsOfTail DEF Inbox
<1>7. q \in Port
  BY <1>4, <1>6, ReceivedIsPort
<1>8. /\ reply \in Seq(Message)
      /\ \A r \in Elems(reply) : /\ OfItsClock(r) /\ m.type = "request" /\ r.seq = m.seq
                                 /\ r.type \in {"response", "responsefu"}
  BY <1>2, <1>4, <1>6, ReplyIsOfExchange
<1> HIDE DEF reply, q
<1>9. inbox[f] \o reply \in Seq(Message) /\ Elems(inbox[f] \o reply) = Inbox(f) \union Elems(reply)
  BY <1>5, <1>8, ElemsOfConcat DEF Inbox
<1>10. /\ port'[e] = q /\ port'[f] = port[f]
       /\ inbox'[e] = Tail(inbox[e]) /\ inbox'[f] = inbox[f] \o reply
       /\ asked'[e] = (IF Answers(p, m) THEN 0 ELSE asked[e]) /\ asked'[f] = asked[f]
       /\ missed'[e] = (IF Elects(p, m) THEN FALSE ELSE missed[e]) /\ missed'[f] = missed[f]
  BY <1>1, <1>2, <1>3 DEF TypeOK
<1>11. Inbox(e)' \subseteq Inbox(e) /\ Inbox(f)' = Inbox(f) \union Elems(reply)
  BY <1>6, <1>9, <1>10 DEF Inbox
<1>12. TypeOK'
  <2>1. port' \in [End -> Port]
    BY <1>1, <1>3, <1>7 DEF TypeOK
  <2>2. inbox' \in [End -> Seq(Message)]
    BY <1>1, <1>2, <1>3, <1>6, <1>9 DEF TypeOK
  <2>3. delay' \in [End -> {"none", "one", "wrapped", "mixed"}]
    <3>1. Measured(asked[e]) \in {"none", "one", "wrapped", "mixed"}
      BY <1>4, GptpAssumption DEF Measured
    <3> QED
      BY <1>1, <1>3, <3>1 DEF TypeOK
  <2>5. asked' \in [End -> 0 .. SeqMod] /\ missed' \in [End -> BOOLEAN]
    BY <1>1, <1>3, GptpAssumption DEF TypeOK
  <2>4. silent' \in [End -> 0 .. AnnounceTimeout + 1]
    BY <1>1, <1>3 DEF TypeOK, AnnounceTimeout
  <2> QED
    BY <1>1, <1>3, <2>1, <2>2, <2>3, <2>4, <2>5 DEF TypeOK
<1>13. \A x \in End : \A y \in Inbox(x)' : OfItsClock(y)
  BY <1>2, <1>4, <1>5, <1>8, <1>11
<1>14. \A x \in End : SoundRole(port'[x], silent'[x])
  <2>1. silent'[f] = silent[f]
    BY <1>1, <1>2, <1>3 DEF TypeOK
  <2>2. silent'[e] = IF m.type = "announce" /\ OfMaster(q, m) THEN 0 ELSE silent[e]
    BY <1>1, <1>3, <1>10 DEF TypeOK
  <2>3. SoundRole(q, silent'[e])
    BY <1>4, <1>6, <2>2, ReceivedKeepsRole DEF q
  <2> QED
    BY <1>2, <1>5, <1>10, <2>1, <2>3
<1>15. \A x \in End : RateInv(x)'
  <2>1. ASSUME Elects(p, m) \/ ~missed[e] PROVE OneMaster(q)
    <3>1. Elects(p, m) \/ OneMaster(p)
      BY <1>4, <2>1 DEF RateInv
    <3>2. IsFollowUp(m) /\ m.from = p.master => \A x \in p.sync : x.from = p.master
      <4>1. Elects(p, m) => ~IsFollowUp(m)
        BY DEF Elects, IsFollowUp
      <4> QED
        BY <1>1, <1>4, <2>1, <4>1 DEF SyncInv
    <3> QED
      BY <1>4, <1>6, <3>1, <3>2, ReceivedKeepsMaster DEF q
  <2>2. missed'[e] \/ OneMaster(q)
    BY <1>10, <2>1
  <2> QED
    BY <1>2, <1>5, <1>10, <2>2 DEF RateInv
<1>16. ExchangeInv(e)'
  <2>1. Exchange(e)' \subseteq Exchange(e)
    BY <1>8, <1>11 DEF Exchange
  <2>2. /\ q.reqSeq = p.reqSeq /\ (q.pdelayDue => p.pdelayDue)
        /\ q.requested \/ q.response # {} => p.requested \/ p.response # {}
    BY <1>4, <1>6, ReceivedKeepsExchange DEF q
  <2> QED
    BY <1>10, <2>1, <2>2, LessOfExchange
<1>17. ExchangeInv(f)'
  <2>1. ASSUME NEW x \in Exchange(f)' PROVE \E y \in Exchange(f) : x.seq = y.seq
    <3>1. CASE x \in Elems(reply)
      BY <1>2, <1>6, <1>8, <3>1 DEF Exchange
    <3>2. CASE x \notin Elems(reply)
      BY <1>2, <1>11, <3>2 DEF Exchange
    <3> QED
      BY <3>1, <3>2
  <2> QED
    BY <1>5, <1>10, <2>1 DEF ExchangeInv
<1>18. DelayIsOfOneExchange'
  <2>1. ASSUME m.type = "responsefu", Completes(p, m)
        PROVE  Measured(asked[e]) \in {"one", "wrapped"}
    <3>1. m \in Exchange(e)
      BY <1>6, <2>1 DEF Exchange
    <3>2. m.seq \in p.response /\ m.seq \in 0 .. SeqMod - 1
      BY <1>6, <2>1 DEF Completes, Message
    <3>3. m.seq = p.reqSeq
      BY <1>4, <3>1, <3>2 DEF ExchangeInv
    <3>4. asked[e] = SeqMod \/ m.seq = (m.seq + asked[e]) % SeqMod
      BY <1>4, <3>2, <3>3 DEF AskedInv
    <3>5. asked[e] = 0 \/ asked[e] = SeqMod
      BY <1>4, <3>2, <3>4, AskedAround
    <3>6. SeqMod # 0 /\ SeqMod \notin 1 .. SeqMod - 1 /\ 0 \notin 1 .. SeqMod - 1
      BY GptpAssumption
    <3> QED
      BY <3>5, <3>6 DEF Measured
  <2>2. delay' \in {delay, [delay EXCEPT ![e] = "one"], [delay EXCEPT ![e] = "wrapped"]}
    BY <1>1, <2>1
  <2> QED
    BY <1>3, <2>2 DEF IInv, TypeOK, DelayIsOfOneExchange
<1>19. \A x \in End : SyncInv(x)'
  <2>1. SyncInv(e)'
    <3>1. /\ ~Elects(p, m) => q.master = p.master
          /\ q.sync \subseteq p.sync \/ m.type = "sync"
          /\ m.type = "sync" /\ m.from = p.master => \A x \in q.sync : x.from = p.master
      BY <1>4, <1>6, ReceivedKeepsSync DEF q
    <3>2. m.type = "sync" => ~Elects(p, m)
      BY DEF Elects
    <3> QED
      BY <1>1, <1>10, <3>1, <3>2, LessOnItsWay
  <2>2. SyncInv(f)'
    <3>1. Whole(reply)
      BY <1>8, WithoutFollowUp DEF IsFollowUp
    <3> QED
      BY <1>1, <1>2, <1>8, <1>10, <3>1, MoreOnItsWay
  <2> QED
    BY <1>2, <2>1, <2>2
<1>20. AskedInv(e)'
  <2>1. CASE Answers(p, m)
    <3>1. q.response \subseteq {p.reqSeq} /\ q.reqSeq = p.reqSeq
      BY <1>4, <1>6, <2>1, ReceivedKeepsResponse, ReceivedKeepsExchange DEF q
    <3>2. p.reqSeq = (p.reqSeq + 0) % SeqMod
      BY <1>4, AskedNothing DEF Port
    <3> QED
      BY <1>10, <2>1, <3>1, <3>2 DEF AskedInv
  <2>2. CASE ~Answers(p, m)
    <3>1. q.response \subseteq p.response /\ q.reqSeq = p.reqSeq
      BY <1>4, <1>6, <2>2, ReceivedKeepsResponse, ReceivedKeepsExchange DEF q
    <3> QED
      BY <1>4, <1>10, <2>2, <3>1 DEF AskedInv
  <2> QED
    BY <2>1, <2>2
<1>21. AskedInv(f)'
  BY <1>5, <1>10 DEF AskedInv
<1> QED
  BY <1>2, <1>12, <1>13, <1>14, <1>15, <1>16, <1>17, <1>18, <1>19, <1>20, <1>21
     DEF IInv, RoleInv

LEMMA PeriodicInv ==
  ASSUME IInv, NEW e \in End, Periodic(e) PROVE IInv'
<1> DEFINE f == Peer(e)
           p == Timeout(port[e])
           q == AfterSending(e, p)
           sent == Sent(f, p, q)
<1>1. /\ port' = [port EXCEPT ![e] = q]
      /\ inbox' = [inbox EXCEPT ![f] = @ \o sent]
      /\ asked' = [asked EXCEPT ![e] = IF q.reqSeq = p.reqSeq \/ q.response = {}
                                       THEN @ ELSE MoreAsked(@)]
      /\ UNCHANGED <<carried, calm, replaced, delay, silent, missed>>
  BY DEF Periodic
<1>2. /\ f \in End /\ f # e /\ Peer(f) = e /\ \A x \in End : x = e \/ x = f
  BY PeerIsOther
<1>3. TypeOK
  BY DEF IInv
<1>4. /\ port[e] \in Port /\ inbox[e] \in Seq(Message)
      /\ SoundRole(port[e], silent[e]) /\ silent[e] \in 0 .. AnnounceTimeout + 1
      /\ RateInv(e) /\ ExchangeInv(e) /\ AskedInv(e) /\ asked[e] \in 0 .. SeqMod
      /\ \A x \in Inbox(e) : OfItsClock(x)
  BY IInvAt
<1>5. /\ inbox[f] \in Seq(Message) /\ ExchangeInv(f) /\ AskedInv(f)
      /\ \A x \in Inbox(f) : OfItsClock(x)
      /\ SoundRole(port[f], silent[f]) /\ RateInv(f)
  BY <1>2, IInvAt
<1>6. /\ p \in Port /\ SoundRole(p, silent[e]) /\ (OneMaster(port[e]) => OneMaster(p))
      /\ p.master = port[e].master /\ p.sync = port[e].sync
      /\ p.reqSeq = port[e].reqSeq /\ p.pdelayDue = port[e].pdelayDue
      /\ p.requested = port[e].requested /\ p.response = port[e].response
  BY <1>4, PollKeeps, TimeoutKeeps
<1> HIDE DEF p
<1>7. /\ q \in Port /\ SoundRole(q, silent[e]) /\ (OneMaster(p) => OneMaster(q))
      /\ q.response = p.response /\ q.master = p.master /\ q.sync = p.sync
      /\ q.reqSeq \in {p.reqSeq, (p.reqSeq + 1) % SeqMod}
      /\ PdelayIsDue(p) => p.pdelayDue /\ ~q.pdelayDue
      /\ ~PdelayIsDue(p) => /\ q.reqSeq = p.reqSeq /\ q.requested = p.requested
                            /\ q.pdelayDue = p.pdelayDue
  BY <1>4, <1>6, PollKeeps, SendingKeeps
<1> HIDE DEF q
<1>8. /\ sent \in Seq(Message)
      /\ \A r \in Elems(sent) : /\ OfItsClock(r) /\ r.type \notin {"response", "responsefu"}
                                /\ r.type = "request" => PdelayIsDue(p) /\ r.seq = q.reqSeq
                                /\ r.type = "sync" => "sync" \in carried.to[f]
      /\ "sync" \in carried.to[f] => Whole(sent)
  BY <1>2, <1>6, <1>7, SentIsOfExchange
<1> HIDE DEF sent
<1>9. inbox[f] \o sent \in Seq(Message) /\ Elems(inbox[f] \o sent) = Inbox(f) \union Elems(sent)
  BY <1>5, <1>8, ElemsOfConcat DEF Inbox
<1>10. /\ port'[e] = q /\ port'[f] = port[f]
       /\ inbox'[e] = inbox[e] /\ inbox'[f] = inbox[f] \o sent
       /\ asked'[f] = asked[f]
       /\ asked'[e] = IF q.reqSeq = p.reqSeq \/ q.response = {}
                      THEN asked[e] ELSE MoreAsked(asked[e])
  BY <1>1, <1>2, <1>3 DEF TypeOK
<1>11. Inbox(e)' = Inbox(e) /\ Inbox(f)' = Inbox(f) \union Elems(sent)
  BY <1>9, <1>10 DEF Inbox
<1>12. TypeOK'
  <2>1. port' \in [End -> Port]
    BY <1>1, <1>3, <1>7 DEF TypeOK
  <2>2. inbox' \in [End -> Seq(Message)]
    BY <1>1, <1>2, <1>3, <1>9 DEF TypeOK
  <2>3. asked' \in [End -> 0 .. SeqMod]
    <3>1. MoreAsked(asked[e]) \in 0 .. SeqMod
      BY <1>4, GptpAssumption DEF MoreAsked
    <3> QED
      BY <1>1, <1>3, <3>1 DEF TypeOK
  <2> QED
    BY <1>1, <1>3, <2>1, <2>2, <2>3 DEF TypeOK
<1>13. \A x \in End : \A y \in Inbox(x)' : OfItsClock(y)
  BY <1>2, <1>4, <1>5, <1>8, <1>11
<1>14. \A x \in End : SoundRole(port'[x], silent'[x])
  BY <1>1, <1>2, <1>5, <1>7, <1>10
<1>15. \A x \in End : RateInv(x)'
  BY <1>1, <1>2, <1>4, <1>5, <1>6, <1>7, <1>10 DEF RateInv
<1>16. ExchangeInv(e)'
  <2>1. CASE PdelayIsDue(p)
    <3>1. Exchange(e) = {} /\ ~q.pdelayDue
      BY <1>4, <1>6, <1>7, <2>1 DEF ExchangeInv
    <3>2. \A x \in Exchange(e)' : x.seq = q.reqSeq
      BY <1>8, <1>11, <3>1 DEF Exchange
    <3> QED
      BY <1>10, <3>1, <3>2 DEF ExchangeInv
  <2>2. CASE ~PdelayIsDue(p)
    <3>1. Exchange(e)' \subseteq Exchange(e)
      BY <1>8, <1>11, <2>2 DEF Exchange
    <3> QED
      BY <1>6, <1>7, <1>10, <2>2, <3>1, LessOfExchange
  <2> QED
    BY <2>1, <2>2
<1>17. ExchangeInv(f)'
  <2>1. Exchange(f)' \subseteq Exchange(f)
    BY <1>2, <1>8, <1>11 DEF Exchange
  <2> QED
    BY <1>2, <1>10, <2>1, LessOfExchange
<1>18. DelayIsOfOneExchange'
  BY <1>1 DEF IInv, DelayIsOfOneExchange
<1>19. \A x \in End : SyncInv(x)'
  <2>1. SyncInv(e)'
    <3>1. SyncInv(e)
      BY DEF IInv
    <3> QED
      BY <1>1, <1>6, <1>7, <1>10, <1>11, <3>1 DEF SyncInv
  <2>2. SyncInv(f)'
    BY <1>1, <1>2, <1>8, <1>10, MoreOnItsWay
  <2> QED
    BY <1>2, <2>1, <2>2
<1>20. AskedInv(e)'
  <2>1. CASE q.reqSeq = p.reqSeq \/ q.response = {}
    BY <1>4, <1>6, <1>7, <1>10, <2>1 DEF AskedInv
  <2>2. CASE ~(q.reqSeq = p.reqSeq \/ q.response = {})
    <3>1. asked'[e] = MoreAsked(asked[e]) /\ q.reqSeq = (p.reqSeq + 1) % SeqMod
      BY <1>7, <1>10, <2>2
    <3>2. CASE asked[e] = SeqMod
      BY <3>1, <3>2, GptpAssumption DEF AskedInv, MoreAsked
    <3>3. CASE asked[e] # SeqMod
      <4>1. asked[e] \in 0 .. SeqMod - 1 /\ MoreAsked(asked[e]) = asked[e] + 1
        BY <1>4, <3>3, GptpAssumption DEF MoreAsked
      <4>2. ASSUME NEW r \in q.response PROVE q.reqSeq = (r + (asked[e] + 1)) % SeqMod
        <5>1. r \in 0 .. SeqMod - 1
          BY <1>7 DEF Port, Maybe
        <5>2. p.reqSeq = (r + asked[e]) % SeqMod
          BY <1>4, <1>6, <1>7, <3>3 DEF AskedInv
        <5> QED
          BY <3>1, <4>1, <5>1, <5>2, OneMoreAsked
      <4> QED
        BY <1>10, <3>1, <4>1, <4>2 DEF AskedInv
    <3> QED
      BY <3>2, <3>3
  <2> QED
    BY <2>1, <2>2
<1>21. AskedInv(f)'
  BY <1>5, <1>10 DEF AskedInv
<1> QED
  BY <1>2, <1>12, <1>13, <1>14, <1>15, <1>16, <1>17, <1>18, <1>19, <1>20, <1>21
     DEF IInv, RoleInv

LEMMA TickInv == IInv /\ Tick => IInv'
<1> SUFFICES ASSUME IInv, Tick PROVE IInv'
  OBVIOUS
<1>1. /\ \A e \in End : inbox[e] = << >> /\ ~Due(port[e])
      /\ port' = [e \in End |-> Older(port[e])]
      /\ silent' = [e \in End |-> IF silent[e] <= AnnounceTimeout THEN silent[e] + 1 ELSE silent[e]]
      /\ UNCHANGED <<inbox, carried, calm, replaced, delay, asked, missed>>
  BY DEF Tick
<1>2. TypeOK
  BY DEF IInv
<1>3. TypeOK'
  <2>1. port' \in [End -> Port]
    BY <1>1, <1>2, OlderIsPort DEF TypeOK
  <2>2. silent' \in [End -> 0 .. AnnounceTimeout + 1]
    BY <1>1, <1>2 DEF TypeOK, AnnounceTimeout
  <2> QED
    BY <1>1, <1>2, <2>1, <2>2 DEF TypeOK
<1>4. \A e \in End : Inbox(e)' = {}
  BY <1>1, ElemsOfEmpty DEF Inbox
<1>5. ASSUME NEW e \in End
      PROVE  /\ SoundRole(port'[e], silent'[e]) /\ (OneMaster(port[e]) => OneMaster(port'[e]))
             /\ port'[e].master = port[e].master /\ port'[e].sync = port[e].sync
             /\ port'[e].reqSeq = port[e].reqSeq /\ port'[e].response = port[e].response
  <2>1. ~TimedOut(port[e])
    BY <1>1 DEF Due
  <2> QED
    BY <1>1, <2>1, IInvAt, OlderKeeps
<1>6. \A e \in End : ExchangeInv(e)'
  BY <1>4, PeerIsOther DEF ExchangeInv, Exchange
<1>7. ASSUME NEW e \in End PROVE RateInv(e)' /\ SyncInv(e)' /\ AskedInv(e)'
  <2>1. RateInv(e) /\ SyncInv(e) /\ AskedInv(e)
    BY DEF IInv
  <2>2. RateInv(e)'
    BY <1>1, <1>5, <2>1 DEF RateInv
  <2>3. SyncInv(e)'
    BY <1>1, <1>5, <2>1 DEF SyncInv, Inbox
  <2>4. AskedInv(e)'
    BY <1>1, <1>5, <2>1 DEF AskedInv
  <2> QED
    BY <2>2, <2>3, <2>4
<1>8. DelayIsOfOneExchange'
  BY <1>1 DEF IInv, DelayIsOfOneExchange
<1> QED
  BY <1>3, <1>4, <1>5, <1>6, <1>7, <1>8 DEF IInv, RoleInv

LEMMA LoseInv ==
  ASSUME IInv, NEW e \in End, Lose(e) PROVE IInv'
<1>1. /\ inbox[e] # << >>
      /\ inbox' = [inbox EXCEPT ![e] = Tail(@)]
      /\ missed' = [missed EXCEPT ![e] = @ \/ (Head(inbox[e]).type = "sync"
                                                /\ Head(inbox[e]).from = port[e].master)]
      /\ UNCHANGED <<port, carried, calm, replaced, delay, silent, asked>>
  BY DEF Lose
<1>2. TypeOK
  BY DEF IInv
<1>3. inbox[e] \in Seq(Message)
  BY IInvAt
<1>4. Tail(inbox[e]) \in Seq(Message) /\ Elems(Tail(inbox[e])) \subseteq Inbox(e)
  BY <1>1, <1>3, ElemsOfTail DEF Inbox
<1>5. \A x \in End : Inbox(x)' \subseteq Inbox(x)
  BY <1>1, <1>2, <1>4 DEF TypeOK, Inbox
<1>6. TypeOK'
  <2>1. inbox' \in [End -> Seq(Message)]
    BY <1>1, <1>2, <1>4 DEF TypeOK
  <2>2. missed' \in [End -> BOOLEAN]
    BY <1>1, <1>2 DEF TypeOK
  <2> QED
    BY <1>1, <1>2, <2>1, <2>2 DEF TypeOK
<1>7. \A x \in End : ExchangeInv(x)'
  <2> TAKE x \in End
  <2>1. Exchange(x)' \subseteq Exchange(x)
    BY <1>5, PeerIsOther DEF Exchange
  <2> QED
    BY <1>1, <2>1, LessOfExchange
<1>8. ASSUME NEW x \in End PROVE RateInv(x)' /\ SyncInv(x)' /\ AskedInv(x)'
  <2>1. RateInv(x) /\ SyncInv(x) /\ AskedInv(x)
    BY DEF IInv
  <2>2. missed[x] => missed'[x]
    BY <1>1, <1>2 DEF TypeOK
  <2>3. RateInv(x)' /\ AskedInv(x)'
    BY <1>1, <2>1, <2>2 DEF RateInv, AskedInv
  <2>4. SyncInv(x)'
    <3>1. CASE x = e
      <4>1. inbox'[e] = Tail(inbox[e])
        BY <1>1, <1>2 DEF TypeOK
      <4>2. Head(inbox[e]).type = "sync" /\ Head(inbox[e]).from = port[e].master => missed'[e]
        BY <1>1, <1>2 DEF TypeOK
      <4> QED
        BY <1>1, <3>1, <4>1, <4>2, LessOnItsWay
    <3>2. CASE x # e
      <4>1. inbox'[x] = inbox[x] /\ missed'[x] = missed[x]
        BY <1>1, <1>2, <3>2 DEF TypeOK
      <4> QED
        BY <1>1, <2>1, <4>1 DEF SyncInv, Inbox
    <3> QED
      BY <3>1, <3>2
  <2> QED
    BY <2>3, <2>4
<1> QED
  BY <1>1, <1>5, <1>6, <1>7, <1>8 DEF IInv, RoleInv, DelayIsOfOneExchange

LEMMA ReplaceInv ==
  ASSUME IInv, NEW e \in End, Replace(e) PROVE IInv'
<1>1. PICK s \in Station : port' = [port EXCEPT ![e] = Started(s, carried.legacy)]
  BY DEF Replace
<1>2. /\ replaced < MaxReplaced
      /\ inbox' = [inbox EXCEPT ![e] = << >>]
      /\ replaced' = replaced + 1
      /\ delay' = [delay EXCEPT ![e] = "none"]
      /\ silent' = [silent EXCEPT ![e] = 0]
      /\ asked' = [asked EXCEPT ![e] = 0]
      /\ missed' = [missed EXCEPT ![e] = FALSE]
      /\ UNCHANGED <<carried, calm>>
  BY DEF Replace
<1>3. TypeOK
  BY DEF IInv
<1> DEFINE f == Peer(e)
           q == Started(s, carried.legacy)
<1>4. /\ f \in End /\ f # e /\ Peer(f) = e /\ \A x \in End : x = e \/ x = f
  BY PeerIsOther
<1>5. carried.legacy \in BOOLEAN
  BY <1>3, GptpAssumption DEF TypeOK
<1>6. q \in Port /\ SoundRole(q, 0) /\ OneMaster(q) /\ q.pdelayDue = FALSE
      /\ q.requested = FALSE /\ q.response = {} /\ q.sync = {}
  <2>1. q \in Port
    BY <1>5, StartedIsPort
  <2> QED
    BY <2>1 DEF Started, SoundRole, OneMaster
<1> HIDE DEF q
<1>7. /\ port'[e] = q /\ port'[f] = port[f] /\ silent'[e] = 0 /\ silent'[f] = silent[f]
      /\ inbox'[e] = << >> /\ inbox'[f] = inbox[f] /\ delay'[e] = "none" /\ delay'[f] = delay[f]
      /\ asked'[f] = asked[f] /\ missed'[f] = missed[f]
  BY <1>1, <1>2, <1>3, <1>4 DEF TypeOK, q
<1>8. Inbox(e)' = {} /\ Inbox(f)' = Inbox(f)
  BY <1>7, ElemsOfEmpty DEF Inbox
<1>9. TypeOK'
  <2>1. port' \in [End -> Port]
    BY <1>1, <1>3, <1>6 DEF TypeOK, q
  <2>2. inbox' \in [End -> Seq(Message)]
    BY <1>2, <1>3, EmptyIsSeq DEF TypeOK
  <2>3. replaced' \in 0 .. MaxReplaced
    BY <1>2, <1>3, GptpAssumption DEF TypeOK
  <2>4. delay' \in [End -> {"none", "one", "wrapped", "mixed"}]
    BY <1>2, <1>3 DEF TypeOK
  <2>5. silent' \in [End -> 0 .. AnnounceTimeout + 1]
    BY <1>2, <1>3 DEF TypeOK, AnnounceTimeout
  <2>6. asked' \in [End -> 0 .. SeqMod] /\ missed' \in [End -> BOOLEAN]
    BY <1>2, <1>3, GptpAssumption DEF TypeOK
  <2> QED
    BY <1>2, <1>3, <2>1, <2>2, <2>3, <2>4, <2>5, <2>6 DEF TypeOK
<1>10. \A x \in End : SoundRole(port'[x], silent'[x])
  BY <1>4, <1>6, <1>7, IInvAt
<1>11. ExchangeInv(e)'
  BY <1>6, <1>7 DEF ExchangeInv
<1>12. ExchangeInv(f)'
  <2>1. Exchange(f)' \subseteq Exchange(f)
    BY <1>4, <1>8 DEF Exchange
  <2> QED
    BY <1>4, <1>7, <2>1, LessOfExchange
<1>13. \A x \in End : \A y \in Inbox(x)' : OfItsClock(y)
  BY <1>4, <1>8, IInvAt
<1>14. DelayIsOfOneExchange'
  BY <1>4, <1>7 DEF IInv, DelayIsOfOneExchange
<1>15. RateInv(e)' /\ SyncInv(e)' /\ AskedInv(e)'
  <2>1. RateInv(e)' /\ AskedInv(e)'
    BY <1>6, <1>7 DEF RateInv, AskedInv
  <2>2. Paired(inbox'[e])
    BY <1>7 DEF Paired
  <2>3. SyncInv(e)'
    BY <1>6, <1>7, <1>8, <2>2 DEF SyncInv
  <2> QED
    BY <2>1, <2>3
<1>16. RateInv(f)' /\ SyncInv(f)' /\ AskedInv(f)'
  <2>1. RateInv(f) /\ SyncInv(f) /\ AskedInv(f)
    BY <1>4 DEF IInv
  <2> QED
    BY <1>2, <1>7, <1>8, <2>1 DEF RateInv, SyncInv, AskedInv
<1> QED
  BY <1>4, <1>9, <1>10, <1>11, <1>12, <1>13, <1>14, <1>15, <1>16 DEF IInv, RoleInv

LEMMA SameInv ==
  ASSUME IInv, UNCHANGED <<port, inbox, carried, replaced, delay, silent, asked, missed>>,
         calm' \in BOOLEAN
  PROVE  IInv'
<1>1. TypeOK'
  BY DEF IInv, TypeOK
<1>2. \A e \in End : Inbox(e)' = Inbox(e) /\ Exchange(e)' = Exchange(e)
  BY PeerIsOther DEF Inbox, Exchange
<1>3. \A e \in End : ExchangeInv(e)' /\ AskedInv(e)'
  BY <1>2 DEF IInv, ExchangeInv, AskedInv
<1>4. \A e \in End : RateInv(e)' /\ SyncInv(e)'
  BY <1>2 DEF IInv, RateInv, SyncInv
<1> QED
  BY <1>1, <1>2, <1>3, <1>4 DEF IInv, RoleInv, DelayIsOfOneExchange

LEMMA NextInv == IInv /\ [Next]_vars => IInv'
<1> SUFFICES ASSUME IInv, [Next]_vars PROVE IInv'
  OBVIOUS
<1>1. ASSUME NEW e \in End, Receive(e) PROVE IInv'
  BY <1>1, ReceiveInv
<1>2. ASSUME NEW e \in End, Periodic(e) PROVE IInv'
  BY <1>2, PeriodicInv
<1>3. ASSUME NEW e \in End, Lose(e) PROVE IInv'
  BY <1>3, LoseInv
<1>4. ASSUME NEW e \in End, Replace(e) PROVE IInv'
  BY <1>4, ReplaceInv
<1>5. CASE Tick
  BY <1>5, TickInv
<1>6. CASE Settle
  BY <1>6, SameInv DEF Settle
<1>7. CASE UNCHANGED vars
  <2>1. calm \in BOOLEAN
    BY DEF IInv, TypeOK
  <2> QED
    BY <1>7, <2>1, SameInv DEF vars
<1> QED
  BY <1>1, <1>2, <1>3, <1>4, <1>5, <1>6, <1>7 DEF Next

-----------------------------------------------------------------------------
(***************************************************************************)
(* The theorems.                                                           *)
(***************************************************************************)
\* The invariant holds in every reachable state.
THEOREM Invariance == Spec => []IInv
<1> QED
  BY InitInv, NextInv, PTL DEF Spec

\* Two slaves would each follow the clock of the other, and know a better one than
\* their own: the order has no circle.
LEMMA InvImpliesRoles == IInv => RolesAreSound
<1> SUFFICES ASSUME IInv PROVE RolesAreSound
  OBVIOUS
<1>1. /\ 1 \in End /\ 2 \in End /\ Peer(1) = 2 /\ Peer(2) = 1
  BY DEF End, Peer
<1>2. ASSUME NEW e \in End, SlaveOf(e)
      PROVE  port[e].best = port[Peer(e)].clock /\ Better(port[e].best, port[e].clock)
             /\ port[e].best \in Station /\ port[e].clock \in Station
  <2>1. /\ port[e] \in Port /\ SoundRole(port[e], silent[e]) /\ port[Peer(e)] \in Port
    BY IInvAt
  <2>2. port[e].best[2] = port[Peer(e)].clock[2]
    BY <1>2, <2>1 DEF SlaveOf, SoundRole
  <2>3. port[e].best \in Station /\ port[e].clock \in Station /\ port[Peer(e)].clock \in Station
    BY <2>1 DEF Port
  <2>4. port[e].best = port[Peer(e)].clock
    BY <2>2, <2>3, GptpAssumption
  <2> QED
    BY <1>2, <2>1, <2>3, <2>4 DEF SlaveOf, SoundRole
<1>3. NobodyFollowsInCircles
  <2> SUFFICES ASSUME SlaveOf(1), SlaveOf(2) PROVE FALSE
    BY DEF NobodyFollowsInCircles
  <2>1. /\ Better(port[2].clock, port[1].clock) /\ Better(port[1].clock, port[2].clock)
        /\ port[1].clock \in Station /\ port[2].clock \in Station
    BY <1>1, <1>2
  <2> QED
    BY <2>1, BetterIsAsymmetric
<1>4. SlaveHasHeardItsMaster
  BY IInvAt DEF SlaveHasHeardItsMaster, SoundRole
<1> QED
  BY <1>3, <1>4 DEF RolesAreSound, IInv

\* The roles are always sound: whatever messages are lost and whoever replaces a
\* station, no two stations follow each other and no slave outlives the announces
\* of its master (bmca_update_roles, set_new_role and the timeout of ptp_periodic).
THEOREM RolesAreAlwaysSound == Spec => []RolesAreSound
<1> QED
  BY Invariance, InvImpliesRoles, PTL

\* The rate is always measured between two syncs of the master followed, because a
\* new role starts it anew (set_new_role, update_adjust); only a sync of this master
\* lost since it was elected leaves that of an old one to be taken for it
\* (received_sync, see RateIsNeverMixed).
THEOREM RateIsAlwaysOfOneMaster == Spec => []RateIsOfOneMaster
<1>1. IInv => RateIsOfOneMaster
  BY DEF IInv, RateInv, RateIsOfOneMaster, OfOneMaster, OneMaster
<1> QED
  BY <1>1, Invariance, PTL

\* Whatever is lost and whoever replaces a station, a path delay is computed of a
\* request, its response and its follow-up, or of a response as many requests old as
\* there are sequence ids (received_pdelay_id, update_path_delay), if the answers come
\* within the period of the requests.
THEOREM DelayIsAlwaysOfOneExchange == Spec => []DelayIsOfOneExchange
<1>1. IInv => DelayIsOfOneExchange
  BY DEF IInv
<1> QED
  BY <1>1, Invariance, PTL

=============================================================================
