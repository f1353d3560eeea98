-------------------------------- MODULE Maap --------------------------------
(***************************************************************************)
(* The MAAP protocol by which talkers allocate the multicast addresses of  *)
(* their streams (avb_1722_maap.c).  Each node probes a random range three *)
(* times, keeps it if nobody defends it, and announces it from then on.    *)
(*                                                                         *)
(* The code's addresses differ in their last two bytes only; here they are *)
(* offsets into the pool.  The control loop polls avb_1722_maap_periodic   *)
(* every 50 microseconds, so what is due and what was sent is dealt with   *)
(* before the clock ticks, in any order.                                   *)
(***************************************************************************)
EXTENDS Integers, Sequences, FiniteSets

CONSTANTS Node,
          Mac,                 \* the MAC address of a node: a tuple of bytes
          PoolSize,            \* MAAP_ALLOCATION_POOL_SIZE
          NumAddr,             \* AVB_NUM_SOURCES, the range every node asks for
          ProbeRetransmits,    \* MAAP_PROBE_RETRANSMITS
          ProbeBase,           \* MAAP_PROBE_INTERVAL_BASE_CS, in ticks
          ProbeVariation,      \* the interval grows by base % ProbeVariation
          AnnounceBase,        \* MAAP_ANNOUNCE_INTERVAL_BASE_CS, in ticks
          AnnounceVariation,
          AnnounceMultiplier,  \* MAAP_ANNOUNCE_INTERVAL_MULTIPLIER
          MaxCalls,            \* bound on the application's calls
          MaxLosses            \* bound on the PDUs the network loses

ASSUME MaapAssumption ==
  /\ IsFiniteSet(Node) /\ Mac \in [Node -> Seq(0 .. 255)]
  /\ \A n, m \in Node : DOMAIN Mac[n] = DOMAIN Mac[m] /\ (Mac[n] = Mac[m] => n = m)
  /\ NumAddr \in Nat \ {0} /\ PoolSize \in Nat /\ NumAddr < PoolSize
  /\ ProbeRetransmits \in Nat \ {0}
  /\ ProbeBase \in Nat \ {0} /\ ProbeVariation \in Nat \ {0}
  /\ AnnounceBase \in Nat \ {0} /\ AnnounceVariation \in Nat \ {0}
  /\ AnnounceMultiplier \in Nat \ {0}
  /\ MaxCalls \in Nat /\ MaxLosses \in Nat

Offset == 0 .. PoolSize - 1
ProbeInterval(base) == ProbeBase + (base % ProbeVariation)
AnnounceInterval(base) == AnnounceBase + (base % AnnounceVariation)
MaxTimer == AnnounceMultiplier * (ProbeBase + ProbeVariation + AnnounceBase + AnnounceVariation)

\* maap_addr with its timer: "immediately" and the multiplier that
\* init_avb_timer left in maap_timer included.
Allocation == [state : {"DISABLED", "PROBING", "RESERVED"}, base : Offset, range : {0, NumAddr},
               probes : 0 .. ProbeRetransmits, immediately : BOOLEAN,
               timer : 0 .. MaxTimer, mult : {1, AnnounceMultiplier}]

\* The fields of a PDU a receiver reads: the range is the requested one of a
\* probe and an announce, and the conflicting one of a defend.
Pdu == [type : {"PROBE", "DEFEND", "ANNOUNCE"}, src : Node, base : Nat, count : Nat]

VARIABLES
  addr,    \* maap_addr and maap_timer of each node
  net,     \* PDUs on the way to each node, in order
  slow,    \* history: the range was asked for after an earlier reservation
  fresh,   \* history: the nodes that reserved since the clock last ticked
  tied,    \* history: the pairs of nodes that reserved between two ticks
  calls,   \* history: calls of the application so far
  losses   \* history: PDUs lost so far

vars == <<addr, net, slow, fresh, tied, calls, losses>>

TypeOK ==
  /\ addr \in [Node -> Allocation]
  /\ net \in [Node -> Seq(Pdu)]
  /\ slow \in [Node -> BOOLEAN]
  /\ fresh \subseteq Node /\ tied \subseteq SUBSET Node
  /\ calls \in 0 .. MaxCalls
  /\ losses \in 0 .. MaxLosses

\* avb_1722_maap_init; the statics of maap_addr are zero.
Init ==
  /\ addr = [n \in Node |-> [state |-> "DISABLED", base |-> 0, range |-> 0, probes |-> 0,
                             immediately |-> FALSE, timer |-> 0, mult |-> 1]]
  /\ net = [n \in Node |-> <<>>]
  /\ slow = [n \in Node |-> FALSE]
  /\ fresh = {} /\ tied = {}
  /\ calls = 0
  /\ losses = 0

-----------------------------------------------------------------------------
\* Mutant: the timer is started past its longest interval.
RequestedSlowly(a, range, base) ==
  [a EXCEPT !.base = base, !.range = range, !.state = "PROBING",
            !.probes = ProbeRetransmits, !.immediately = TRUE, !.timer = MaxTimer + 1]

\* avb_1722_maap_request_addresses without a start address.
Requested(a, range, base) ==
  [a EXCEPT !.base = base, !.range = range, !.state = "PROBING",
            !.probes = ProbeRetransmits, !.immediately = TRUE,
            !.timer = a.mult * ProbeInterval(base)]

\* The random offset is drawn before num_addr is stored: from what the range
\* of the request before, none for the first, leaves of the pool.
Drawable(a) == 0 .. PoolSize - a.range - 1

Request(n, range) ==
  /\ \E base \in Drawable(addr[n]) : addr' = [addr EXCEPT ![n] = Requested(@, range, base)]
  /\ slow' = [slow EXCEPT ![n] = addr[n].mult # 1]

Overlap(lo1, count1, lo2, count2) == lo1 < lo2 + count2 /\ lo2 < lo1 + count1

\* Mutant: a remote range that begins above the own base is no conflict.
ConflictBelow(a, base, count) == a.base >= base /\ a.base < base + count

\* maap_conflict, what it answers and the range it leaves in conflicted_addr
\* and conflicted_count.
Conflict(a, base, count) ==
  \/ a.base >= base /\ a.base < base + count
  \/ base > a.base /\ base < a.base + a.range

ConflictRange(a, base, count) ==
  LET top == a.base + a.range
      remoteTop == base + count
  IN IF a.base >= base
       THEN [base |-> a.base,
             count |-> IF top < remoteTop THEN top - a.base ELSE remoteTop - a.base]
       ELSE [base |-> base,
             count |-> IF remoteTop <= top THEN count ELSE top - base]

\* maap_compare_mac: any byte of the own address is below that of the other.
Keeps(n, src) == \E i \in DOMAIN Mac[n] : Mac[n][i] < Mac[src][i]

\* create_maap_packet: a defend goes to the prober, the others to everybody.
Broadcast(n, type) ==
  LET pdu == [type |-> type, src |-> n, base |-> addr[n].base, count |-> addr[n].range]
  IN  net' = [m \in Node |-> IF m = n THEN net[m] ELSE Append(net[m], pdu)]

-----------------------------------------------------------------------------
(***************************************************************************)
(* The calls of the application and of avb_periodic.                       *)
(***************************************************************************)
\* avb_periodic asks once, the application may ask again.
RequestAddresses(n) ==
  /\ addr[n].state = "DISABLED"
  /\ Request(n, NumAddr)
  /\ UNCHANGED <<net, fresh, tied, calls, losses>>

RerequestAddresses(n) ==
  /\ addr[n].state # "DISABLED" /\ calls < MaxCalls
  /\ Request(n, addr[n].range)
  /\ calls' = calls + 1
  /\ UNCHANGED <<net, fresh, tied, losses>>

RelinquishAddresses(n) ==
  /\ addr[n].state # "DISABLED" /\ calls < MaxCalls
  /\ addr' = [addr EXCEPT ![n].state = "DISABLED"]
  /\ calls' = calls + 1
  /\ UNCHANGED <<net, slow, fresh, tied, losses>>

-----------------------------------------------------------------------------
(***************************************************************************)
(* avb_1722_maap_periodic.                                                 *)
(***************************************************************************)
Due(a) == a.immediately \/ a.timer = 0

Probe(n) ==
  /\ addr[n].state = "PROBING" /\ Due(addr[n]) /\ addr[n].probes > 1
  /\ addr' = [addr EXCEPT ![n].immediately = FALSE, ![n].probes = @ - 1,
                          ![n].timer = addr[n].mult * ProbeInterval(addr[n].base)]
  /\ Broadcast(n, "PROBE")
  /\ UNCHANGED <<slow, fresh, tied, calls, losses>>

\* The last probe: init_avb_timer changes the multiplier for good.
Reserve(n) ==
  /\ addr[n].state = "PROBING" /\ Due(addr[n]) /\ addr[n].probes = 1
  /\ addr' = [addr EXCEPT ![n].immediately = TRUE, ![n].probes = 0,
                          ![n].state = "RESERVED", ![n].mult = AnnounceMultiplier,
                          ![n].timer = AnnounceMultiplier * AnnounceInterval(addr[n].base)]
  /\ Broadcast(n, "PROBE")
  /\ fresh' = fresh \union {n}
  /\ tied' = tied \union {{n, m} : m \in fresh}
  /\ UNCHANGED <<slow, calls, losses>>

\* Mutant: an announce restarts the timer and is not sent.
AnnounceUnsent(n) ==
  /\ addr[n].state = "RESERVED" /\ Due(addr[n])
  /\ addr' = [addr EXCEPT ![n].immediately = FALSE,
                          ![n].timer = IF addr[n].immediately THEN @
                                       ELSE addr[n].mult * AnnounceInterval(addr[n].base)]
  /\ UNCHANGED <<net, slow, fresh, tied, calls, losses>>

Announce(n) ==
  /\ addr[n].state = "RESERVED" /\ Due(addr[n])
  /\ addr' = [addr EXCEPT ![n].immediately = FALSE,
                          ![n].timer = IF addr[n].immediately THEN @
                                       ELSE addr[n].mult * AnnounceInterval(addr[n].base)]
  /\ Broadcast(n, "ANNOUNCE")
  /\ UNCHANGED <<slow, fresh, tied, calls, losses>>

-----------------------------------------------------------------------------
(***************************************************************************)
(* avb_1722_maap_process_packet.                                           *)
(***************************************************************************)
\* Mutant: a reserved range is given up to a prober with a lower address.
YieldsToProbes(n, pdu) ==
  /\ addr[n].state # "DISABLED" /\ Conflict(addr[n], pdu.base, pdu.count)
  /\ ~Keeps(n, pdu.src)

Yields(n, pdu) ==
  /\ addr[n].state # "DISABLED" /\ Conflict(addr[n], pdu.base, pdu.count)
  /\ IF pdu.type = "PROBE"
       THEN addr[n].state = "PROBING" /\ ~Keeps(n, pdu.src)
       ELSE addr[n].state = "PROBING" \/ ~Keeps(n, pdu.src)

Defends(n, pdu) ==
  /\ addr[n].state = "RESERVED" /\ pdu.type = "PROBE"
  /\ Conflict(addr[n], pdu.base, pdu.count)

Receive(n) ==
  /\ net[n] # <<>>
  /\ LET pdu == Head(net[n])
         rest == [net EXCEPT ![n] = Tail(@)]
         conflict == ConflictRange(addr[n], pdu.base, pdu.count)
     IN
     \/ /\ Yields(n, pdu)
        /\ Request(n, addr[n].range)
        /\ net' = rest
     \/ /\ Defends(n, pdu)
        /\ net' = [rest EXCEPT ![pdu.src] =
                     Append(@, [type |-> "DEFEND", src |-> n, base |-> conflict.base,
                                count |-> conflict.count])]
        /\ UNCHANGED <<addr, slow>>
     \/ /\ ~Yields(n, pdu) /\ ~Defends(n, pdu)
        /\ net' = rest
        /\ UNCHANGED <<addr, slow>>
  /\ UNCHANGED <<fresh, tied, calls, losses>>

Lose(n) ==
  /\ net[n] # <<>> /\ losses < MaxLosses
  /\ net' = [net EXCEPT ![n] = Tail(@)]
  /\ losses' = losses + 1
  /\ UNCHANGED <<addr, slow, fresh, tied, calls>>

\* Nobody polls the timer of a DISABLED node.
Tick ==
  /\ \A n \in Node : net[n] = <<>> /\ (addr[n].state = "DISABLED" \/ ~Due(addr[n]))
  /\ addr' = [n \in Node |-> IF addr[n].state = "DISABLED" THEN addr[n]
                             ELSE [addr[n] EXCEPT !.timer = @ - 1]]
  /\ fresh' = {}
  /\ UNCHANGED <<net, slow, tied, calls, losses>>

Next ==
  \/ \E n \in Node : \/ RequestAddresses(n) \/ RerequestAddresses(n) \/ RelinquishAddresses(n)
                     \/ Probe(n) \/ Reserve(n) \/ Announce(n)
                     \/ Receive(n) \/ Lose(n)
  \/ Tick

Spec == Init /\ [][Next]_vars

Fairness ==
  /\ WF_vars(Tick)
  /\ \A n \in Node : WF_vars(Probe(n) \/ Reserve(n) \/ Announce(n)) /\ WF_vars(Receive(n))

FairSpec == Spec /\ Fairness

-----------------------------------------------------------------------------
(***************************************************************************)
(* Properties.                                                             *)
(***************************************************************************)
Duplicates(n, m) ==
  /\ n # m /\ addr[n].state = "RESERVED" /\ addr[m].state = "RESERVED"
  /\ Overlap(addr[n].base, addr[n].range, addr[m].base, addr[m].range)

\* maap_compare_mac tells each of the two that its own address is the lower one.
Crossed(n, m) == Keeps(n, m) /\ Keeps(m, n)

\* On a network that loses nothing the probes find every conflict before a
\* range is handed to avb_talker_on_source_address_reserved: two nodes never
\* hold overlapping ranges, whichever of them probed first or at the same time.
\* The exceptions are a node that had a reservation before: it probes with the
\* multiplier of the announces, so a later prober may catch up with it; and two
\* nodes that both take their MAC address for the lower one and sent their last
\* probes at the same time.
ReservationsAreDisjoint ==
  losses = 0 => \A n, m \in Node :
    Duplicates(n, m) => slow[n] \/ slow[m] \/ (Crossed(n, m) /\ {n, m} \in tied)

\* A range once reserved is not taken away by a node that comes later: probes
\* are answered with a defend, and nobody announces what somebody else holds.
\* Unless its owner calls, a node gives its range up only where one of the two
\* sides of the conflict had a reservation before.
ReservationsAreStable ==
  [][losses' = 0 /\ calls' = calls => \A n \in Node :
       addr[n].state = "RESERVED" /\ addr'[n].state = "PROBING" =>
         slow[n] \/ slow[Head(net[n]).src]]_vars

\* What lost probes and defends leave behind the periodic announces repair: one
\* of two nodes with overlapping ranges gives its own up, unless each takes its
\* MAC address for the lower one.
DuplicatesAreResolved ==
  \A n, m \in Node : Duplicates(n, m) /\ ~Crossed(n, m) ~> ~Duplicates(n, m)
=============================================================================
