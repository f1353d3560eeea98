------------------------------- MODULE MrpPdu --------------------------------
(***************************************************************************)
(* What one end of a link declares and the other end reads: the list of    *)
(* attributes that is sorted at every join period, their merging into      *)
(* vectors of packed events, and the way back (avb_mrp.c, avb_srp.c,       *)
(* avb_mvrp.c).                                                            *)
(*                                                                         *)
(* A message has one vector: its first value, the number of values and the *)
(* packed bytes, three events in a byte and then, for Listener attributes, *)
(* four.  Stream ids, addresses and VLANs are numbers; spec stands for the *)
(* VLAN and the frame size of a talker.  Which attributes send, and which  *)
(* event, is the business of MrpAttribute and left open here (Patterns).   *)
(* Talker Failed attributes, never sent and sorted by address, and unused  *)
(* slots of the array are left out.                                        *)
(***************************************************************************)
EXTENDS Integers, Sequences, FiniteSets, SequencesExt

CONSTANTS
  Attrs,       \* the array attrs: of each attribute its type and its stream end
  LocalId,     \* local_id of each stream end
  Early,       \* the ends begun before the first join period
  Starts,      \* stream information the ends may begin with
  Ids,         \* stream ids a sink may be set to
  Renamable,   \* the sinks
  Patterns,    \* events the attributes may have to send
  BufferSize,  \* MRP_SEND_BUFFER_SIZE
  MaxChanges   \* bound on the times a sink is set to another stream

Attr == DOMAIN Attrs
End == {Attrs[a].end : a \in Attr}
Type == <<"TALKER", "FAILED", "LISTENER", "DOMAIN", "VID">>
RankOf(type) == CHOOSE r \in DOMAIN Type : Type[r] = type
Rank(a) == RankOf(Attrs[a].type)
Quiet == 6
Event == 0 .. 5

ASSUME PduAssumption ==
  /\ \A a \in Attr : Attrs[a].type \in ToSet(Type)
  /\ Patterns \subseteq [Attr -> Event \union {Quiet}]
  /\ BufferSize \in Nat /\ MaxChanges \in Nat

VARIABLES
  begun,    \* ends whose attributes mrp_mad_begin has reached
  info,     \* their avb_stream_info_t: id, dest, spec
  list,     \* the list from first_attr on
  changes

vars == <<begun, info, list, changes>>

InfoOf(a) == info[Attrs[a].end]
On(a) == Attrs[a].end \in begun

Init ==
  /\ begun = Early /\ info \in Starts
  /\ list = [a \in Attr |-> a]
  /\ changes = 0

-----------------------------------------------------------------------------
(***************************************************************************)
(* sort_attrs.  Attributes of one type are ordered by their streams; two   *)
(* of the same stream, or with the same local_id, are not ordered at all.  *)
(***************************************************************************)
TalkerBefore(a, b) == LocalId[Attrs[a].end] < LocalId[Attrs[b].end]
ListenerBefore(a, b) == InfoOf(a).id < InfoOf(b).id

Before(a, b) ==
  IF ~On(a) \/ ~On(b) THEN On(a) \/ (~On(b) /\ a < b)
  ELSE IF Rank(a) # Rank(b) THEN Rank(a) < Rank(b)
  ELSE CASE Attrs[a].type = "TALKER"   -> TalkerBefore(a, b)
         [] Attrs[a].type = "LISTENER" -> ListenerBefore(a, b)
         [] OTHER -> a < b

\* The attributes that do not come before their successor are taken out, and
\* the last one taken out is put back first.
InPlace(l) == {i \in DOMAIN l : i = Len(l) \/ Before(l[i], l[i + 1])}

At(l, places) ==
  LET p == SelectSeq([i \in DOMAIN l |-> i], LAMBDA i : i \in places)
  IN  [j \in DOMAIN p |-> l[p[j]]]

Insertion(l, a) == {i \in DOMAIN l : i = Len(l) \/ (Before(l[i], a) /\ Before(a, l[i + 1]))}

First(S) == CHOOSE i \in S : \A j \in S : i <= j

\* Mutant: an attribute is put in front of the one it comes after.
InsertInFront(l, a) ==
  IF Before(a, l[1]) THEN <<a>> \o l ELSE InsertAt(l, First(Insertion(l, a)), a)

Insert(l, a) ==
  IF Before(a, l[1]) THEN <<a>> \o l ELSE InsertAt(l, First(Insertion(l, a)) + 1, a)

Reinserted[l \in Seq(Attr), out \in Seq(Attr)] ==
  IF out = <<>> THEN l ELSE Reinserted[Insert(l, Last(out)), Front(out)]

\* Mutant: the head of the list is lost when it is taken out.
SortAttrsBehindHead(l) ==
  Reinserted[At(l, InPlace(l)), At(l, {i \in DOMAIN l \ InPlace(l) : i > 1})]

SortAttrs(l) == Reinserted[At(l, InPlace(l)), At(l, DOMAIN l \ InPlace(l))]

-----------------------------------------------------------------------------
(***************************************************************************)
(* Encoding: an event is added to the byte at its place, which is inserted *)
(* when it is the first event in it (mrp_encode_three_packed_event, ...).  *)
(***************************************************************************)
\* 6 ^ (2 - i) and 4 ^ (3 - i).
Six(i) == <<36, 6, 1>>[i + 1]
Four(i) == <<64, 16, 4, 1>>[i + 1]
Ready == 2

Packed(bytes, place, fresh, value) ==
  LET b == IF fresh THEN InsertAt(bytes, place + 1, 0) ELSE bytes
  IN  [b EXCEPT ![place + 1] = @ + value]

EncodeThree(msg, event) ==
  [msg EXCEPT !.bytes = Packed(@, msg.n \div 3, msg.n % 3 = 0, event * Six(msg.n % 3))]

\* Mutant: the bytes of three events are not rounded up.
EncodeFourShort(msg) ==
  [msg EXCEPT !.bytes = Packed(@, (msg.n + 2) \div 3 + msg.n \div 4, msg.n % 4 = 0,
                               Ready * Four(msg.n % 4))]

\* The value being added is counted, the three-packed byte is there already.
EncodeFour(msg) ==
  [msg EXCEPT !.bytes = Packed(@, (msg.n + 3) \div 3 + msg.n \div 4, msg.n % 4 = 0,
                               Ready * Four(msg.n % 4))]

NoValue == [id |-> 0, dest |-> 0, spec |-> 0]

CreateEmptyMsg(type, leaveAll) ==
  [type |-> type, leaveAll |-> leaveAll, n |-> 0, first |-> NoValue, bytes |-> <<>>]

\* check_talker_merge and check_listener_merge; domains and VLANs do not merge.
ContinuesTalker(msg, a) ==
  /\ InfoOf(a).dest = msg.first.dest + msg.n
  /\ InfoOf(a).id = msg.first.id + msg.n
  /\ InfoOf(a).spec = msg.first.spec

\* Mutant: a listener attribute never joins another one.
ContinuesListenerNever(msg, a) == FALSE

ContinuesListener(msg, a) == InfoOf(a).id = msg.first.id + msg.n

Takes(msg, a) ==
  /\ msg.type = Attrs[a].type
  /\ \/ msg.n = 0
     \/ msg.type = "TALKER" /\ ContinuesTalker(msg, a)
     \/ msg.type = "LISTENER" /\ ContinuesListener(msg, a)

Merge(msg, a, event) ==
  LET m == EncodeThree([msg EXCEPT !.first = IF msg.n = 0 THEN InfoOf(a) ELSE @], event)
  IN  [(IF msg.type = "LISTENER" THEN EncodeFour(m) ELSE m) EXCEPT !.n = @ + 1]

-----------------------------------------------------------------------------
(***************************************************************************)
(* The PDU under construction (open) and those sent before it.  Sizes are  *)
(* those of the headers and first values.                                  *)
(***************************************************************************)
FirstLength == <<25, 34, 8, 4, 2>>
MsgSize(msg) == 4 + 2 + FirstLength[RankOf(msg.type)] + Len(msg.bytes) + 2
PduSize(pdu) == FoldLeft(LAMBDA s, msg : s + MsgSize(msg), 15, pdu)
MaxMsgSize == 4 + 25 + 1 + 2

Msg == [type : ToSet(Type), leaveAll : BOOLEAN, n : Nat,
        first : [id : Nat, dest : Nat, spec : Nat], bytes : Seq(0 .. 255)]
Buffer == [sent : Seq(Seq(Msg)), open : Seq(Msg)]
NothingToSend == [sent |-> <<>>, open |-> <<>>]

ForceSend(buf) ==
  [sent |-> IF buf.open = <<>> THEN buf.sent ELSE Append(buf.sent, buf.open), open |-> <<>>]

SendIfFull(buf) ==
  IF BufferSize < PduSize(buf.open) + MaxMsgSize + 2 THEN ForceSend(buf) ELSE buf

DoTx(buf, a, event) ==
  LET takers == {i \in DOMAIN buf.open : Takes(buf.open[i], a)}
  IN  SendIfFull([buf EXCEPT !.open =
        IF takers = {}
        THEN Append(@, Merge(CreateEmptyMsg(Attrs[a].type, FALSE), a, event))
        ELSE [@ EXCEPT ![First(takers)] = Merge(@, a, event)]])

TxLeaveAll(buf, type) == SendIfFull([buf EXCEPT !.open = Append(@, CreateEmptyMsg(type, TRUE))])

WithLeaveAlls[buf \in Buffer, types \in Seq(ToSet(Type))] ==
  IF types = <<>> THEN buf ELSE WithLeaveAlls[TxLeaveAll(buf, Head(types)), Tail(types)]

WithValues[buf \in Buffer, l \in Seq(Attr), events \in Patterns] ==
  IF l = <<>> THEN buf
  ELSE WithValues[DoTx(buf, Head(l), events[Head(l)]), Tail(l), events]

\* What the join timer has mrp_periodic send for one application: its LeaveAlls,
\* then its attributes in the order of the list, type by type.
TxApplication(events, leaveAll, leaving, types) ==
  LET Of(type) == SelectSeq(list, LAMBDA a : On(a) /\ Attrs[a].type = type /\ events[a] # Quiet)
  IN  ForceSend(WithValues[WithLeaveAlls[NothingToSend, IF leaveAll THEN leaving ELSE <<>>],
                           FlattenSeq([t \in DOMAIN types |-> Of(types[t])]), events]).sent

TxSrp(events, leaveAll) ==
  TxApplication(events, leaveAll, <<"TALKER", "FAILED", "LISTENER", "DOMAIN">>,
                <<"TALKER", "LISTENER", "DOMAIN">>)

TxMvrp(events, leaveAll) == TxApplication(events, leaveAll, <<"VID">>, <<"VID">>)

Wire(events, leaveAll) == TxSrp(events, leaveAll) \o TxMvrp(events, leaveAll)

-----------------------------------------------------------------------------
\* avb_mrp_process_packet: value i of a vector.
DecodeThree(msg, i) == (msg.bytes[i \div 3 + 1] \div Six(i % 3)) % 6
DecodeFour(msg, i) == (msg.bytes[(msg.n + 2) \div 3 + i \div 4 + 1] \div Four(i % 4)) % 4

Value(msg, i) ==
  [type |-> msg.type, id |-> msg.first.id + i, event |-> DecodeThree(msg, i),
   ready |-> msg.type = "LISTENER" => DecodeFour(msg, i) = Ready]

\* A LeaveAll makes the receiver forget what it was told of the type before.
ReadMsg(heard, msg) ==
  LET kept == IF msg.leaveAll THEN SelectSeq(heard, LAMBDA v : v.type # msg.type) ELSE heard
  IN  kept \o [j \in 1 .. msg.n |-> Value(msg, j - 1)]

Heard(wire) == FoldLeft(ReadMsg, <<>>, FlattenSeq(wire))

-----------------------------------------------------------------------------
\* A source or sink is turned on, the link comes up, a VLAN is joined.
Begin(e) ==
  /\ e \notin begun
  /\ begun' = begun \union {e}
  /\ UNCHANGED <<info, list, changes>>

\* set_avb_sink_id.
SetId(e, id) ==
  /\ changes < MaxChanges /\ id # info[e].id
  /\ info' = [info EXCEPT ![e].id = id]
  /\ changes' = changes + 1
  /\ UNCHANGED <<begun, list>>

\* The joinTimer has expired: the list is sorted, and Wire of the new list sent.
Transmit ==
  /\ list' = SortAttrs(list)
  /\ UNCHANGED <<begun, info, changes>>

Next ==
  \/ \E e \in End : Begin(e)
  \/ \E e \in Renamable, id \in Ids : SetId(e, id)
  \/ Transmit

Spec == Init /\ [][Next]_vars

\* mrp_periodic is polled for ever, and the joinTimer restarted when it expires.
FairSpec == Spec /\ WF_vars(Transmit)

-----------------------------------------------------------------------------
Occurrences(s, x) == Cardinality({i \in DOMAIN s : s[i] = x})

\* The list is relinked in place at every join period, also when attributes
\* have no order: none is lost, or it would never be declared or deregistered
\* again, and none comes twice.
EveryAttributeIsListed ==
  /\ begun \subseteq End
  /\ info \in [End -> [id : Nat, dest : Nat, spec : Nat]]
  /\ Len(list) = Cardinality(Attr) /\ ToSet(list) = Attr

Told(events) ==
  LET sent == SelectSeq([a \in Attr |-> a], LAMBDA a : On(a) /\ events[a] # Quiet)
  IN  [i \in DOMAIN sent |->
         [type |-> Attrs[sent[i]].type, id |-> InfoOf(sent[i]).id,
          event |-> events[sent[i]], ready |-> TRUE]]

\* What is read from the packed vectors is what was declared, each declaration
\* once and after the LeaveAll it answers: in whatever order the list is, however
\* the values are merged, split over PDUs and packed next to each other.
DeclarationsArrive ==
  \A events \in Patterns, leaveAll \in BOOLEAN :
    LET heard == Heard(Wire(events, leaveAll))
        told == Told(events)
    IN  \A v \in ToSet(heard) \union ToSet(told) : Occurrences(heard, v) = Occurrences(told, v)

Tied == \E a, b \in Attr : a # b /\ ~Before(a, b) /\ ~Before(b, a)

Sorted == \A i \in 1 .. Len(list) - 1 : Before(list[i], list[i + 1])

Vectors(pdu) == {i \in DOMAIN pdu : pdu[i].type = "LISTENER" /\ pdu[i].n > 0}

\* "attributes need to be sorted so that they can be merged into vectors": from
\* a sorted list, listeners of consecutive streams share a vector in every PDU.
NeighboursShareAVector ==
  Sorted /\ ~Tied =>
    \A events \in Patterns, leaveAll \in BOOLEAN :
      \A pdu \in ToSet(Wire(events, leaveAll)) : \A i, j \in Vectors(pdu) :
        pdu[j].first.id # pdu[i].first.id + pdu[i].n

\* One pass does not sort every list, repeated passes do, unless two attributes
\* have no order: then they are taken out and put back for ever.
ListIsSortedInTheEnd == <>[](Sorted \/ Tied)
=============================================================================
