----------------------------- MODULE Maap_proofs -----------------------------
(***************************************************************************)
(* What maap_conflict computes, for every range of the pool; and for any   *)
(* number of nodes, that the probes find every conflict.                   *)
(*                                                                         *)
(* The second part is about time.  Of two nodes that want the same         *)
(* addresses one has the lower MAC address and keeps them.  Before it      *)
(* reserves them it has probed, and the other has either seen a probe or   *)
(* chosen its range since: then it has all its own probes before it, which *)
(* take longer than the next interval of the first.                        *)
(*                                                                         *)
(* Where maap_compare_mac lets both keep them (Crossed), none gives way to *)
(* a probe, but both give way to the announce that follows a reservation   *)
(* at once: only a node whose last probe is due in the same tick gets past *)
(* it (TieFits).                                                           *)
(***************************************************************************)
EXTENDS Maap, SequenceTheorems, TLAPS

Addresses(base, count) == {x \in Nat : base <= x /\ x < base + count}

\* maap_conflict answers whether the own range, once it is not empty, and the
\* remote one have an address in common.
THEOREM ConflictIsOverlap ==
  ASSUME NEW a \in Allocation, a.range > 0, NEW base \in Nat, NEW count \in Nat \ {0}
  PROVE  /\ Conflict(a, base, count) <=> Overlap(a.base, a.range, base, count)
         /\ Conflict(a, base, count)
              <=> Addresses(a.base, a.range) \intersect Addresses(base, count) # {}
<1>1. a.base \in Nat /\ a.range \in Nat
  BY MaapAssumption DEF Allocation, Offset
<1>2. Conflict(a, base, count) <=> Overlap(a.base, a.range, base, count)
  BY <1>1 DEF Conflict, Overlap
<1>3. Overlap(a.base, a.range, base, count)
        => Addresses(a.base, a.range) \intersect Addresses(base, count) # {}
  <2> SUFFICES ASSUME Overlap(a.base, a.range, base, count)
               PROVE  Addresses(a.base, a.range) \intersect Addresses(base, count) # {}
    OBVIOUS
  <2>1. CASE a.base >= base
    <3>1. a.base \in Addresses(a.base, a.range) \intersect Addresses(base, count)
      BY <1>1, <2>1 DEF Overlap, Addresses
    <3> QED  BY <3>1
  <2>2. CASE a.base < base
    <3>1. base \in Addresses(a.base, a.range) \intersect Addresses(base, count)
      BY <1>1, <2>2 DEF Overlap, Addresses
    <3> QED  BY <3>1
  <2> QED  BY <1>1, <2>1, <2>2
<1>4. Addresses(a.base, a.range) \intersect Addresses(base, count) # {}
        => Overlap(a.base, a.range, base, count)
  BY <1>1 DEF Overlap, Addresses
<1> QED  BY <1>2, <1>3, <1>4

\* The range a defend reports is exactly the addresses both nodes claim, so the
\* prober that reads it finds the conflict again, and never an empty one.
THEOREM ConflictRangeIsIntersection ==
  ASSUME NEW a \in Allocation, a.range > 0, NEW base \in Nat, NEW count \in Nat \ {0},
         Conflict(a, base, count)
  PROVE  LET c == ConflictRange(a, base, count) IN
         /\ c.base \in Nat /\ c.count \in Nat \ {0}
         /\ Addresses(c.base, c.count) = Addresses(a.base, a.range) \intersect Addresses(base, count)
<1> DEFINE c == ConflictRange(a, base, count)
<1>1. a.base \in Nat /\ a.range \in Nat
  BY MaapAssumption DEF Allocation, Offset
<1>2. CASE a.base >= base
  <2>1. /\ c.base = a.base
        /\ c.count = IF a.base + a.range < base + count
                       THEN (a.base + a.range) - a.base ELSE (base + count) - a.base
    BY <1>2 DEF ConflictRange
  <2> HIDE DEF c
  <2>2. c.base \in Nat /\ c.count \in Nat \ {0}
    BY <1>1, <1>2, <2>1 DEF Conflict
  <2>3. \A x \in Nat : c.base <= x /\ x < c.base + c.count <=>
          (a.base <= x /\ x < a.base + a.range) /\ (base <= x /\ x < base + count)
    BY <1>1, <1>2, <2>1
  <2>4. Addresses(c.base, c.count) = Addresses(a.base, a.range) \intersect Addresses(base, count)
    BY <2>3 DEF Addresses
  <2> QED  BY <2>2, <2>4 DEF c
<1>3. CASE a.base < base
  <2>1. /\ c.base = base
        /\ c.count = IF base + count <= a.base + a.range
                       THEN count ELSE (a.base + a.range) - base
    BY <1>1, <1>3 DEF ConflictRange
  <2> HIDE DEF c
  <2>2. c.base \in Nat /\ c.count \in Nat \ {0}
    BY <1>1, <1>3, <2>1 DEF Conflict
  <2>3. \A x \in Nat : c.base <= x /\ x < c.base + c.count <=>
          (a.base <= x /\ x < a.base + a.range) /\ (base <= x /\ x < base + count)
    BY <1>1, <1>3, <2>1
  <2>4. Addresses(c.base, c.count) = Addresses(a.base, a.range) \intersect Addresses(base, count)
    BY <2>3 DEF Addresses
  <2> QED  BY <2>2, <2>4 DEF c
<1> QED  BY <1>1, <1>2, <1>3


-----------------------------------------------------------------------------
(***************************************************************************)
(* The PDUs on the way to a node, and what they mean to it.                *)
(***************************************************************************)
Elements(s) == {s[i] : i \in 1 .. Len(s)}

Way(m) == Elements(net[m])

\* A probe of n's range is on its way to m.
Probed(n, m) ==
  \E p \in Way(m) : p.type = "PROBE" /\ p.src = n /\ p.base = addr[n].base
                    /\ p.count = addr[n].range

\* n tells m that m's range is taken.
Told(n, m) ==
  \E p \in Way(m) : p.type # "PROBE" /\ p.src = n /\ Conflict(addr[m], p.base, p.count)

CanReserve(x) == x.probes = 1 /\ Due(x)

Interval(x) == x.mult * ProbeInterval(x.base)

\* Ticks from now to the last probe.
TimeToReserve(x) == (x.probes - 1) * Interval(x) + (IF x.immediately THEN 0 ELSE x.timer)

Fits(x, isSlow) ==
  /\ x.state # "DISABLED" => x.range = NumAddr
  /\ x.state = "PROBING" => /\ x.probes >= 1 /\ (x.immediately <=> x.probes = ProbeRetransmits)
                            /\ x.timer <= Interval(x)
                            /\ ~isSlow => x.mult = 1
  /\ isSlow => x.mult # 1

PhasesFit ==
  /\ \A n \in Node : Fits(addr[n], slow[n])
  /\ \A n \in Node : \A p \in Way(n) : p.src # n

\* Nobody sends the next probe before the one sent last has arrived.
ProbersWait ==
  \A n, m \in Node :
    addr[n].state = "PROBING" /\ addr[n].probes < ProbeRetransmits /\ Probed(n, m)
      => ~Due(addr[n])

Steady(n) == addr[n].state # "DISABLED" /\ ~slow[n]

\* Nobody reserves what somebody else said to have, where one of the two has
\* the lower MAC address.
ToldWait ==
  \A n, m \in Node : ~slow[n] /\ Steady(m) /\ ~Crossed(n, m) /\ Told(n, m)
    => addr[m].state = "PROBING" /\ ~CanReserve(addr[m])

Overlapping(n, m) == Overlap(addr[n].base, addr[n].range, addr[m].base, addr[m].range)

\* n keeps what it shares with m.
Meet(n, m) ==
  n # m /\ Steady(n) /\ Steady(m) /\ Keeps(n, m) /\ ~Keeps(m, n) /\ Overlapping(n, m)

PairFits(n, m) ==
  LET x == addr[n]
      y == addr[m]
  IN
  /\ ~(x.state = "RESERVED" /\ y.state = "RESERVED")
  /\ x.state = "PROBING" /\ y.state = "PROBING" =>
       x.probes = ProbeRetransmits \/ Probed(n, m) \/ TimeToReserve(y) > x.timer
  /\ x.state = "PROBING" /\ y.state = "RESERVED" =>
       x.probes = ProbeRetransmits \/ Probed(n, m) \/ Told(m, n)
  /\ x.state = "RESERVED" /\ y.state = "PROBING" =>
       \/ y.probes = ProbeRetransmits
       \/ (Probed(m, n) \/ Probed(n, m) \/ Told(n, m)) /\ ~CanReserve(y)

PairsFit == \A n, m \in Node : Meet(n, m) => PairFits(n, m)

\* Both keep what they share.
CrossMeet(n, m) == n # m /\ Steady(n) /\ Steady(m) /\ Crossed(n, m) /\ Overlapping(n, m)

TieFits(n, m) ==
  LET x == addr[n]
      y == addr[m]
  IN
  /\ x.state = "RESERVED" /\ y.state = "RESERVED" => {n, m} \in tied
  /\ x.state = "RESERVED" /\ y.state = "PROBING" =>
       /\ \/ y.probes = ProbeRetransmits \/ Probed(m, n)
          \/ Told(n, m) \/ x.immediately = TRUE
       /\ CanReserve(y) => n \in fresh

TiesFit == \A n, m \in Node : CrossMeet(n, m) => TieFits(n, m)

Phases == TypeOK /\ PhasesFit

Lossless == ProbersWait /\ ToldWait /\ PairsFit /\ TiesFit

IInv == Phases /\ (losses = 0 => Lossless)

\* Three intervals of 500 ms are longer than one, with its variation of 100 ms.
ProbingOutlasts == (ProbeRetransmits - 1) * ProbeBase >= ProbeBase + ProbeVariation

-----------------------------------------------------------------------------
LEMMA AppendElements ==
  ASSUME NEW s \in Seq(Pdu), NEW p \in Pdu
  PROVE  Append(s, p) \in Seq(Pdu) /\ Elements(Append(s, p)) = Elements(s) \union {p}
<1>1. /\ Append(s, p) \in Seq(Pdu) /\ Len(Append(s, p)) = Len(s) + 1 /\ Len(s) \in Nat
      /\ \A i \in 1 .. Len(s) : Append(s, p)[i] = s[i]
      /\ Append(s, p)[Len(s) + 1] = p
  BY AppendProperties, LenProperties
<1>2. 1 .. Len(s) + 1 = (1 .. Len(s)) \union {Len(s) + 1}
  BY <1>1
<1> QED
  BY <1>1, <1>2 DEF Elements

LEMMA TailElements ==
  ASSUME NEW s \in Seq(Pdu), s # <<>>
  PROVE  /\ Head(s) \in Pdu /\ Tail(s) \in Seq(Pdu)
         /\ Elements(s) = Elements(Tail(s)) \union {Head(s)}
<1>1. /\ Head(s) \in Pdu /\ Tail(s) \in Seq(Pdu) /\ Len(Tail(s)) = Len(s) - 1
      /\ \A i \in 1 .. Len(Tail(s)) : Tail(s)[i] = s[i + 1]
  BY HeadTailProperties
<1>2. Len(s) \in Nat /\ Len(s) > 0 /\ Head(s) = s[1]
  BY EmptySeq
<1>3. Elements(s) \subseteq Elements(Tail(s)) \union {Head(s)}
  <2> SUFFICES ASSUME NEW i \in 1 .. Len(s) PROVE s[i] \in Elements(Tail(s)) \union {Head(s)}
    BY DEF Elements
  <2>1. CASE i = 1
    BY <1>2, <2>1
  <2>2. CASE i # 1
    <3>1. i - 1 \in 1 .. Len(Tail(s)) /\ (i - 1) + 1 = i
      BY <1>1, <1>2, <2>2
    <3>2. Tail(s)[i - 1] = s[i]
      BY <1>1, <3>1
    <3> QED
      BY <3>1, <3>2 DEF Elements
  <2> QED
    BY <2>1, <2>2
<1>4. Elements(Tail(s)) \subseteq Elements(s)
  <2> SUFFICES ASSUME NEW i \in 1 .. Len(Tail(s)) PROVE Tail(s)[i] \in Elements(s)
    BY DEF Elements
  <2>1. i + 1 \in 1 .. Len(s) /\ Tail(s)[i] = s[i + 1]
    BY <1>1, <1>2
  <2> QED
    BY <2>1 DEF Elements
<1>5. Head(s) \in Elements(s)
  BY <1>2 DEF Elements
<1> QED
  BY <1>1, <1>3, <1>4, <1>5

LEMMA EmptyElements == Elements(<<>>) = {}
BY DEF Elements

LEMMA Sizes ==
  /\ NumAddr \in Nat /\ NumAddr > 0 /\ PoolSize \in Nat /\ NumAddr < PoolSize
  /\ ProbeRetransmits \in Nat /\ ProbeRetransmits > 0
  /\ ProbeBase \in Nat /\ ProbeBase > 0 /\ ProbeVariation \in Nat /\ ProbeVariation > 0
  /\ AnnounceBase \in Nat /\ AnnounceBase > 0
  /\ AnnounceVariation \in Nat /\ AnnounceVariation > 0
  /\ AnnounceMultiplier \in Nat /\ AnnounceMultiplier > 0
  /\ MaxCalls \in Nat /\ MaxLosses \in Nat
BY MaapAssumption

LEMMA IntervalsAre ==
  ASSUME NEW k \in Offset
  PROVE  /\ ProbeInterval(k) \in ProbeBase .. ProbeBase + ProbeVariation - 1
         /\ AnnounceInterval(k) \in AnnounceBase .. AnnounceBase + AnnounceVariation - 1
<1>1. k \in Nat
  BY DEF Offset
<1>2. k % ProbeVariation \in 0 .. ProbeVariation - 1
  BY <1>1, Sizes
<1>3. k % AnnounceVariation \in 0 .. AnnounceVariation - 1
  BY <1>1, Sizes
<1> QED
  BY <1>2, <1>3, Sizes DEF ProbeInterval, AnnounceInterval

LEMMA ProductsAre ==
  ASSUME NEW f \in Nat, NEW x \in Nat, NEW y \in Nat, f > 0, x <= y
  PROVE  f * x \in Nat /\ f * x <= f * y /\ x <= f * x /\ (x > 0 => f * x > 0)
<1>1. f * (y - x) >= 0 /\ (f - 1) * x >= 0
  <2>1. \A a \in Nat, b \in Nat : a * b >= 0
    OBVIOUS
  <2>2. y - x \in Nat /\ f - 1 \in Nat
    OBVIOUS
  <2> QED
    BY <2>1, <2>2
<1>2. f * (y - x) = f * y - f * x /\ (f - 1) * x = f * x - x
  OBVIOUS
<1> QED
  BY <1>1, <1>2

LEMMA MaxTimerIs == MaxTimer \in Nat
<1> DEFINE total == ProbeBase + ProbeVariation + AnnounceBase + AnnounceVariation
<1>1. total \in Nat
  BY Sizes
<1> HIDE DEF total
<1>2. AnnounceMultiplier * total \in Nat
  BY <1>1, Sizes
<1> QED
  BY <1>2 DEF MaxTimer, total

LEMMA TimersFit ==
  ASSUME NEW k \in Offset, NEW f \in {1, AnnounceMultiplier}
  PROVE  /\ f * ProbeInterval(k) \in 1 .. MaxTimer
         /\ f * AnnounceInterval(k) \in 1 .. MaxTimer
         /\ ProbeInterval(k) <= f * ProbeInterval(k)
<1> DEFINE total == ProbeBase + ProbeVariation + AnnounceBase + AnnounceVariation
           a == ProbeInterval(k)
           b == AnnounceInterval(k)
<1>1. /\ a \in Nat /\ b \in Nat /\ a > 0 /\ b > 0 /\ a <= total /\ b <= total /\ total \in Nat
  BY IntervalsAre, Sizes
<1>2. MaxTimer = AnnounceMultiplier * total
  BY DEF MaxTimer
<1> HIDE DEF total, a, b
<1>3. CASE f = 1
  <2>1. 1 * a = a /\ 1 * b = b
    BY <1>1
  <2>2. total <= AnnounceMultiplier * total /\ AnnounceMultiplier * total \in Nat
    BY <1>1, Sizes, ProductsAre
  <2> QED
    BY <1>1, <1>2, <1>3, <2>1, <2>2 DEF a, b
<1>4. CASE f = AnnounceMultiplier
  <2>1. f \in Nat /\ f > 0
    BY <1>4, Sizes
  <2>2. f * a \in Nat /\ f * a <= f * total /\ a <= f * a /\ f * a > 0
    BY <1>1, <2>1, ProductsAre
  <2>3. f * b \in Nat /\ f * b <= f * total /\ f * b > 0
    BY <1>1, <2>1, ProductsAre
  <2>4. f * total \in Nat
    BY <1>1, <2>1, ProductsAre
  <2> QED
    BY <1>2, <1>4, <2>2, <2>3, <2>4 DEF a, b
<1> QED
  BY <1>3, <1>4


-----------------------------------------------------------------------------
(***************************************************************************)
(* The steps: what becomes of the node that takes it, and of the PDUs.     *)
(***************************************************************************)
LEMMA AllocationIs ==
  ASSUME NEW x \in Allocation
  PROVE  /\ x.state \in {"DISABLED", "PROBING", "RESERVED"} /\ x.base \in Offset
         /\ x.range \in {0, NumAddr} /\ x.probes \in 0 .. ProbeRetransmits
         /\ x.immediately \in BOOLEAN /\ x.timer \in 0 .. MaxTimer
         /\ x.mult \in {1, AnnounceMultiplier}
         /\ x.base \in Nat /\ x.range \in Nat /\ x.probes \in Nat /\ x.timer \in Nat
         /\ x.mult \in Nat /\ x.mult > 0
<1>1. /\ x.state \in {"DISABLED", "PROBING", "RESERVED"} /\ x.base \in Offset
      /\ x.range \in {0, NumAddr} /\ x.probes \in 0 .. ProbeRetransmits
      /\ x.immediately \in BOOLEAN /\ x.timer \in 0 .. MaxTimer
      /\ x.mult \in {1, AnnounceMultiplier}
  BY DEF Allocation
<1> QED
  BY <1>1, Sizes DEF Offset

\* Only the node k changes.
OnlyAt(k) ==
  /\ addr' \in [Node -> Allocation] /\ \A j \in Node \ {k} : addr'[j] = addr[j]

LEMMA SetAddr ==
  ASSUME addr \in [Node -> Allocation], NEW k \in Node, NEW r \in Allocation,
         addr' = [addr EXCEPT ![k] = r]
  PROVE  OnlyAt(k) /\ addr'[k] = r
BY DEF OnlyAt

LEMMA RequestIs ==
  ASSUME TypeOK, NEW k \in Node, Request(k, NumAddr)
  PROVE  /\ OnlyAt(k) /\ slow' \in [Node -> BOOLEAN]
         /\ (slow'[k] <=> addr[k].mult # 1) /\ (\A j \in Node \ {k} : slow'[j] = slow[j])
         /\ addr'[k].state = "PROBING" /\ addr'[k].probes = ProbeRetransmits
         /\ addr'[k].immediately = TRUE /\ addr'[k].range = NumAddr
         /\ addr'[k].mult = addr[k].mult /\ addr'[k].timer = Interval(addr'[k])
<1> DEFINE x == addr[k]
<1>1. x \in Allocation /\ addr \in [Node -> Allocation] /\ slow \in [Node -> BOOLEAN]
  BY DEF TypeOK
<1>2. PICK base \in Drawable(x) : addr' = [addr EXCEPT ![k] = Requested(@, NumAddr, base)]
  BY DEF Request
<1>3. base \in Offset
  <2>1. x.range \in Nat /\ PoolSize \in Nat
    BY <1>1, AllocationIs, Sizes
  <2> QED
    BY <1>2, <2>1 DEF Drawable, Offset
<1> DEFINE r == Requested(x, NumAddr, base)
           t == x.mult * ProbeInterval(base)
<1>4. addr' = [addr EXCEPT ![k] = r]
  BY <1>1, <1>2
<1>5. t \in 0 .. MaxTimer
  <2>1. x.mult \in {1, AnnounceMultiplier}
    BY <1>1, AllocationIs
  <2>2. t \in 1 .. MaxTimer
    BY <1>3, <2>1, TimersFit
  <2> QED
    BY <2>2
<1> HIDE DEF t
<1>6. /\ r \in Allocation /\ r.state = "PROBING" /\ r.probes = ProbeRetransmits
      /\ r.immediately = TRUE /\ r.range = NumAddr /\ r.mult = x.mult /\ r.timer = t
      /\ r.base = base
  <2>1. ProbeRetransmits \in 0 .. ProbeRetransmits
    BY Sizes
  <2>2. r = [x EXCEPT !.base = base, !.range = NumAddr, !.state = "PROBING",
                      !.probes = ProbeRetransmits, !.immediately = TRUE, !.timer = t]
    BY DEF Requested, t
  <2> HIDE DEF r
  <2> QED
    BY <1>1, <1>3, <1>5, <2>1, <2>2 DEF Allocation
<1> HIDE DEF r
<1>7. OnlyAt(k) /\ addr'[k] = r
  BY <1>1, <1>4, <1>6, SetAddr
<1>8. /\ slow' \in [Node -> BOOLEAN] /\ (slow'[k] <=> x.mult # 1)
      /\ \A j \in Node \ {k} : slow'[j] = slow[j]
  <2>1. slow' = [slow EXCEPT ![k] = x.mult # 1]
    BY DEF Request
  <2>2. (x.mult # 1) \in BOOLEAN
    OBVIOUS
  <2> DEFINE v == x.mult # 1
  <2>3. slow' = [slow EXCEPT ![k] = v] /\ v \in BOOLEAN
    BY <2>1, <2>2
  <2> HIDE DEF v
  <2>4. slow' \in [Node -> BOOLEAN] /\ slow'[k] = v /\ \A j \in Node \ {k} : slow'[j] = slow[j]
    BY <1>1, <2>3
  <2> QED
    BY <2>4 DEF v
<1> QED
  BY <1>6, <1>7, <1>8 DEF Interval, t

\* create_maap_packet: a PDU of k's range to everybody else.
LEMMA BroadcastIs ==
  ASSUME TypeOK, NEW k \in Node, NEW type \in {"PROBE", "DEFEND", "ANNOUNCE"}, Broadcast(k, type)
  PROVE  LET p == [type |-> type, src |-> k, base |-> addr[k].base, count |-> addr[k].range]
         IN  /\ net' \in [Node -> Seq(Pdu)] /\ Way(k)' = Way(k)
             /\ \A m \in Node \ {k} : Way(m)' = Way(m) \union {p}
<1> DEFINE p == [type |-> type, src |-> k, base |-> addr[k].base, count |-> addr[k].range]
<1>1. net \in [Node -> Seq(Pdu)] /\ addr[k].base \in Nat /\ addr[k].range \in Nat
  BY AllocationIs DEF TypeOK
<1>2. p \in Pdu
  BY <1>1 DEF Pdu
<1>3. net' = [m \in Node |-> IF m = k THEN net[m] ELSE Append(net[m], p)]
  BY DEF Broadcast
<1> HIDE DEF p
<1>4. \A m \in Node : Append(net[m], p) \in Seq(Pdu)
                      /\ Elements(Append(net[m], p)) = Elements(net[m]) \union {p}
  BY <1>1, <1>2, AppendElements
<1> QED
  BY <1>1, <1>3, <1>4 DEF Way, p

LEMMA ProbeIs ==
  ASSUME TypeOK, NEW k \in Node, addr[k].probes >= 1, Probe(k)
  PROVE  /\ OnlyAt(k) /\ Broadcast(k, "PROBE")
         /\ UNCHANGED <<slow, fresh, tied, calls, losses>>
         /\ addr[k].state = "PROBING" /\ Due(addr[k]) /\ addr[k].probes > 1
         /\ addr'[k].state = "PROBING" /\ addr'[k].probes = addr[k].probes - 1
         /\ addr'[k].base = addr[k].base /\ addr'[k].range = addr[k].range
         /\ addr'[k].immediately = FALSE /\ addr'[k].mult = addr[k].mult
         /\ addr'[k].timer = Interval(addr[k]) /\ addr'[k].timer > 0
<1> DEFINE x == addr[k]
           t == x.mult * ProbeInterval(x.base)
           n == x.probes - 1
           r == [x EXCEPT !.immediately = FALSE, !.probes = n, !.timer = t]
<1>1. x \in Allocation /\ addr \in [Node -> Allocation]
  BY DEF TypeOK
<1>2. /\ x.state = "PROBING" /\ Due(x) /\ x.probes > 1 /\ Broadcast(k, "PROBE")
      /\ UNCHANGED <<slow, fresh, tied, calls, losses>> /\ addr' = [addr EXCEPT ![k] = r]
  BY <1>1 DEF Probe
<1>3. t \in 0 .. MaxTimer /\ t > 0 /\ n \in 0 .. ProbeRetransmits
  <2>1. /\ x.mult \in {1, AnnounceMultiplier} /\ x.base \in Offset
        /\ x.probes \in 0 .. ProbeRetransmits
    BY <1>1, AllocationIs
  <2>2. t \in 1 .. MaxTimer
    BY <2>1, TimersFit
  <2> QED
    BY <1>2, <2>1, <2>2, Sizes, MaxTimerIs
<1> HIDE DEF t, n
<1>4. /\ r \in Allocation /\ r.state = x.state /\ r.probes = n /\ r.base = x.base
      /\ r.range = x.range /\ r.immediately = FALSE /\ r.mult = x.mult /\ r.timer = t
  BY <1>1, <1>3 DEF Allocation
<1> HIDE DEF r
<1>5. OnlyAt(k) /\ addr'[k] = r
  BY <1>1, <1>2, <1>4, SetAddr
<1> QED
  BY <1>2, <1>3, <1>4, <1>5 DEF Interval, t, n

LEMMA ReserveIs ==
  ASSUME TypeOK, NEW k \in Node, Reserve(k)
  PROVE  /\ OnlyAt(k) /\ Broadcast(k, "PROBE") /\ UNCHANGED <<slow, calls, losses>>
         /\ fresh' = fresh \union {k} /\ tied' = tied \union {{k, m} : m \in fresh}
         /\ addr[k].state = "PROBING" /\ Due(addr[k]) /\ addr[k].probes = 1
         /\ addr'[k].state = "RESERVED" /\ addr'[k].mult = AnnounceMultiplier
         /\ addr'[k].immediately = TRUE
         /\ addr'[k].base = addr[k].base /\ addr'[k].range = addr[k].range
<1> DEFINE x == addr[k]
           t == AnnounceMultiplier * AnnounceInterval(x.base)
           r == [x EXCEPT !.immediately = TRUE, !.probes = 0, !.state = "RESERVED",
                          !.mult = AnnounceMultiplier, !.timer = t]
<1>1. x \in Allocation /\ addr \in [Node -> Allocation]
  BY DEF TypeOK
<1>2. /\ x.state = "PROBING" /\ Due(x) /\ x.probes = 1 /\ Broadcast(k, "PROBE")
      /\ UNCHANGED <<slow, calls, losses>> /\ addr' = [addr EXCEPT ![k] = r]
      /\ fresh' = fresh \union {k} /\ tied' = tied \union {{k, m} : m \in fresh}
  BY <1>1 DEF Reserve
<1>3. t \in 0 .. MaxTimer /\ 0 \in 0 .. ProbeRetransmits
  <2>1. x.base \in Offset
    BY <1>1, AllocationIs
  <2>2. t \in 1 .. MaxTimer
    BY <2>1, TimersFit
  <2> QED
    BY <2>2, Sizes
<1> HIDE DEF t
<1>4. /\ r \in Allocation /\ r.state = "RESERVED" /\ r.mult = AnnounceMultiplier
      /\ r.immediately = TRUE /\ r.base = x.base /\ r.range = x.range
  BY <1>1, <1>3 DEF Allocation
<1> HIDE DEF r
<1>5. OnlyAt(k) /\ addr'[k] = r
  BY <1>1, <1>2, <1>4, SetAddr
<1> QED
  BY <1>2, <1>4, <1>5

LEMMA AnnounceIs ==
  ASSUME TypeOK, NEW k \in Node, Announce(k)
  PROVE  /\ OnlyAt(k) /\ Broadcast(k, "ANNOUNCE")
         /\ UNCHANGED <<slow, fresh, tied, calls, losses>>
         /\ addr[k].state = "RESERVED" /\ addr'[k].state = "RESERVED"
         /\ addr'[k].mult = addr[k].mult
         /\ addr'[k].base = addr[k].base /\ addr'[k].range = addr[k].range
<1> DEFINE x == addr[k]
           t == IF x.immediately THEN x.timer ELSE x.mult * AnnounceInterval(x.base)
           r == [x EXCEPT !.immediately = FALSE, !.timer = t]
<1>1. x \in Allocation /\ addr \in [Node -> Allocation]
  BY DEF TypeOK
<1>2. /\ x.state = "RESERVED" /\ Broadcast(k, "ANNOUNCE")
      /\ UNCHANGED <<slow, fresh, tied, calls, losses>> /\ addr' = [addr EXCEPT ![k] = r]
  BY <1>1 DEF Announce
<1>3. t \in 0 .. MaxTimer
  <2>1. x.mult \in {1, AnnounceMultiplier} /\ x.base \in Offset /\ x.timer \in 0 .. MaxTimer
    BY <1>1, AllocationIs
  <2>2. x.mult * AnnounceInterval(x.base) \in 1 .. MaxTimer
    BY <2>1, TimersFit
  <2> QED
    BY <2>1, <2>2
<1> HIDE DEF t
<1>4. /\ r \in Allocation /\ r.state = x.state /\ r.mult = x.mult
      /\ r.base = x.base /\ r.range = x.range
  BY <1>1, <1>3 DEF Allocation
<1> HIDE DEF r
<1>5. OnlyAt(k) /\ addr'[k] = r
  BY <1>1, <1>2, <1>4, SetAddr
<1> QED
  BY <1>2, <1>4, <1>5

LEMMA RelinquishIs ==
  ASSUME TypeOK, NEW k \in Node, RelinquishAddresses(k)
  PROVE  /\ OnlyAt(k) /\ UNCHANGED <<net, slow, fresh, tied, losses>>
         /\ calls' \in 0 .. MaxCalls
         /\ addr'[k].state = "DISABLED" /\ addr'[k].mult = addr[k].mult
         /\ addr'[k].base = addr[k].base /\ addr'[k].range = addr[k].range
<1> DEFINE x == addr[k]
           r == [x EXCEPT !.state = "DISABLED"]
<1>1. x \in Allocation /\ addr \in [Node -> Allocation] /\ calls \in 0 .. MaxCalls
  BY DEF TypeOK
<1>2. /\ UNCHANGED <<net, slow, fresh, tied, losses>> /\ calls' \in 0 .. MaxCalls
      /\ addr' = [addr EXCEPT ![k] = r]
  BY <1>1, Sizes DEF RelinquishAddresses
<1>3. /\ r \in Allocation /\ r.state = "DISABLED" /\ r.mult = x.mult
      /\ r.base = x.base /\ r.range = x.range
  BY <1>1 DEF Allocation
<1> HIDE DEF r
<1>4. OnlyAt(k) /\ addr'[k] = r
  BY <1>1, <1>2, <1>3, SetAddr
<1> QED
  BY <1>2, <1>3, <1>4

LEMMA TickIs ==
  ASSUME TypeOK, Tick
  PROVE  /\ addr' \in [Node -> Allocation] /\ UNCHANGED <<net, slow, tied, calls, losses>>
         /\ fresh' = {}
         /\ \A m \in Node : Way(m) = {}
         /\ \A j \in Node :
              LET x == addr[j]
                  y == addr'[j]
              IN  /\ y.state = x.state /\ y.base = x.base /\ y.range = x.range
                  /\ y.probes = x.probes /\ y.immediately = x.immediately /\ y.mult = x.mult
                  /\ x.state # "DISABLED" => /\ ~x.immediately /\ x.timer > 0
                                             /\ y.timer = x.timer - 1
<1>1. addr \in [Node -> Allocation]
  BY DEF TypeOK
<1>2. /\ UNCHANGED <<net, slow, tied, calls, losses>> /\ fresh' = {}
      /\ \A n \in Node : net[n] = <<>> /\ (addr[n].state = "DISABLED" \/ ~Due(addr[n]))
      /\ addr' = [n \in Node |-> IF addr[n].state = "DISABLED" THEN addr[n]
                                 ELSE [addr[n] EXCEPT !.timer = @ - 1]]
  BY DEF Tick
<1>3. ASSUME NEW j \in Node
      PROVE  LET x == addr[j]
                 y == addr'[j]
             IN  /\ y \in Allocation
                 /\ y.state = x.state /\ y.base = x.base /\ y.range = x.range
                 /\ y.probes = x.probes /\ y.immediately = x.immediately /\ y.mult = x.mult
                 /\ x.state # "DISABLED" => /\ ~x.immediately /\ x.timer > 0
                                            /\ y.timer = x.timer - 1
  <2> DEFINE x == addr[j]
             t == x.timer - 1
             r == [x EXCEPT !.timer = t]
  <2>1. x \in Allocation /\ x.timer \in 0 .. MaxTimer
    BY <1>1, AllocationIs
  <2>2. CASE x.state = "DISABLED"
    BY <1>2, <2>1, <2>2
  <2>3. CASE x.state # "DISABLED"
    <3>1. addr'[j] = r /\ ~x.immediately /\ x.timer > 0
      BY <1>2, <2>1, <2>3 DEF Due
    <3>2. t \in 0 .. MaxTimer
      BY <2>1, <3>1, MaxTimerIs
    <3> HIDE DEF t
    <3>3. /\ r \in Allocation /\ r.state = x.state /\ r.base = x.base /\ r.range = x.range
          /\ r.probes = x.probes /\ r.immediately = x.immediately /\ r.mult = x.mult
          /\ r.timer = t
      BY <2>1, <3>2 DEF Allocation
    <3> HIDE DEF r
    <3> QED
      BY <3>1, <3>3 DEF t
  <2> QED
    BY <2>2, <2>3
<1>4. \A m \in Node : Way(m) = {}
  BY <1>2, EmptyElements DEF Way
<1>5. addr' \in [Node -> Allocation]
  BY <1>2, <1>3
<1> QED
  BY <1>2, <1>3, <1>4, <1>5


\* What the receiver of the first PDU on its way does with it.
LEMMA ReceiveIs ==
  ASSUME TypeOK, PhasesFit, NEW k \in Node, Receive(k)
  PROVE  LET p == Head(net[k])
             c == ConflictRange(addr[k], p.base, p.count)
             d == [type |-> "DEFEND", src |-> k, base |-> c.base, count |-> c.count]
         IN
         /\ p \in Pdu /\ p.src \in Node \ {k} /\ Way(k) = Way(k)' \union {p}
         /\ net' \in [Node -> Seq(Pdu)] /\ UNCHANGED <<fresh, tied, calls, losses>>
         /\ \/ /\ Yields(k, p) /\ Request(k, NumAddr)
               /\ \A m \in Node \ {k} : Way(m)' = Way(m)
            \/ /\ Defends(k, p) /\ UNCHANGED <<addr, slow>>
               /\ \A m \in Node \ {k} :
                    Way(m)' = IF m = p.src THEN Way(m) \union {d} ELSE Way(m)
            \/ /\ ~Yields(k, p) /\ ~Defends(k, p) /\ UNCHANGED <<addr, slow>>
               /\ \A m \in Node \ {k} : Way(m)' = Way(m)
<1> DEFINE p == Head(net[k])
           rest == [net EXCEPT ![k] = Tail(@)]
           c == ConflictRange(addr[k], p.base, p.count)
           d == [type |-> "DEFEND", src |-> k, base |-> c.base, count |-> c.count]
<1>1. net \in [Node -> Seq(Pdu)] /\ addr[k] \in Allocation /\ net[k] # <<>>
  BY DEF TypeOK, Receive
<1>2. p \in Pdu /\ Tail(net[k]) \in Seq(Pdu) /\ Way(k) = Elements(Tail(net[k])) \union {p}
  BY <1>1, TailElements DEF Way
<1>3. p.src \in Node \ {k} /\ p.base \in Nat /\ p.count \in Nat
  BY <1>2 DEF Pdu, PhasesFit
<1>4. /\ rest \in [Node -> Seq(Pdu)] /\ rest[k] = Tail(net[k])
      /\ \A m \in Node \ {k} : rest[m] = net[m]
  BY <1>1, <1>2
<1>5. /\ UNCHANGED <<fresh, tied, calls, losses>>
      /\ \/ Yields(k, p) /\ Request(k, addr[k].range) /\ net' = rest
         \/ /\ Defends(k, p) /\ net' = [rest EXCEPT ![p.src] = Append(@, d)]
            /\ UNCHANGED <<addr, slow>>
         \/ ~Yields(k, p) /\ ~Defends(k, p) /\ net' = rest /\ UNCHANGED <<addr, slow>>
  BY DEF Receive
<1> HIDE DEF rest
<1>6. net' = rest => /\ net' \in [Node -> Seq(Pdu)] /\ Way(k) = Way(k)' \union {p}
                     /\ \A m \in Node \ {k} : Way(m)' = Way(m)
  BY <1>2, <1>4 DEF Way
<1>7. CASE Yields(k, p) /\ Request(k, addr[k].range) /\ net' = rest
  <2>1. addr[k].range = NumAddr
    BY <1>7 DEF Yields, PhasesFit, Fits
  <2> QED
    BY <1>2, <1>3, <1>5, <1>6, <1>7, <2>1
<1>8. CASE /\ Defends(k, p) /\ net' = [rest EXCEPT ![p.src] = Append(@, d)]
           /\ UNCHANGED <<addr, slow>>
  <2>1. /\ addr[k].base \in Nat /\ addr[k].range \in Nat
        /\ Conflict(addr[k], p.base, p.count)
    BY <1>1, <1>8, AllocationIs DEF Defends
  <2>2. c.base \in Nat /\ c.count \in Nat
    <3>1. CASE addr[k].base >= p.base
      <4>1. /\ c.base = addr[k].base
            /\ c.count = IF addr[k].base + addr[k].range < p.base + p.count
                           THEN (addr[k].base + addr[k].range) - addr[k].base
                           ELSE (p.base + p.count) - addr[k].base
        BY <3>1 DEF ConflictRange
      <4> HIDE DEF c
      <4> QED
        BY <1>3, <2>1, <3>1, <4>1 DEF Conflict
    <3>2. CASE ~(addr[k].base >= p.base)
      <4>1. /\ c.base = p.base
            /\ c.count = IF p.base + p.count <= addr[k].base + addr[k].range
                           THEN p.count ELSE (addr[k].base + addr[k].range) - p.base
        BY <3>2 DEF ConflictRange
      <4> HIDE DEF c
      <4> QED
        BY <1>3, <2>1, <3>2, <4>1 DEF Conflict
    <3> QED
      BY <3>1, <3>2
  <2> HIDE DEF c
  <2>3. d \in Pdu
    BY <2>2 DEF Pdu
  <2> HIDE DEF d
  <2>4. /\ net' \in [Node -> Seq(Pdu)] /\ net'[k] = rest[k]
        /\ net'[p.src] = Append(net[p.src], d)
        /\ \A m \in Node \ {k, p.src} : net'[m] = net[m]
        /\ Elements(Append(net[p.src], d)) = Elements(net[p.src]) \union {d}
    <3>1. /\ Append(net[p.src], d) \in Seq(Pdu)
          /\ Elements(Append(net[p.src], d)) = Elements(net[p.src]) \union {d}
      BY <1>1, <1>3, <2>3, AppendElements
    <3> HIDE DEF p
    <3> QED
      BY <1>3, <1>4, <1>8, <3>1
  <2>5. /\ Way(k) = Way(k)' \union {p}
        /\ \A m \in Node \ {k} :
             Way(m)' = IF m = p.src THEN Way(m) \union {d} ELSE Way(m)
    <3> HIDE DEF p
    <3>1. Way(k) = Way(k)' \union {p}
      BY <1>2, <1>4, <2>4 DEF Way
    <3>2. ASSUME NEW m \in Node \ {k}, m = p.src PROVE Way(m)' = Way(m) \union {d}
      BY <2>4, <3>2 DEF Way
    <3>3. ASSUME NEW m \in Node \ {k}, m # p.src PROVE Way(m)' = Way(m)
      BY <2>4, <3>3 DEF Way
    <3> QED
      BY <3>1, <3>2, <3>3
  <2> QED
    BY <1>2, <1>3, <1>5, <1>8, <2>4, <2>5 DEF c, d
<1>9. CASE ~Yields(k, p) /\ ~Defends(k, p) /\ net' = rest /\ UNCHANGED <<addr, slow>>
  BY <1>2, <1>3, <1>5, <1>6, <1>9
<1> QED
  BY <1>5, <1>7, <1>8, <1>9

LEMMA LoseIs ==
  ASSUME TypeOK, NEW k \in Node, Lose(k)
  PROVE  /\ UNCHANGED <<addr, slow, fresh, tied, calls>> /\ losses' \in 0 .. MaxLosses /\ losses' # 0
         /\ net' \in [Node -> Seq(Pdu)] /\ \A m \in Node : Way(m)' \subseteq Way(m)
<1>1. /\ net \in [Node -> Seq(Pdu)] /\ losses \in 0 .. MaxLosses /\ net[k] # <<>>
      /\ net' = [net EXCEPT ![k] = Tail(@)] /\ losses < MaxLosses /\ losses' = losses + 1
      /\ UNCHANGED <<addr, slow, fresh, tied, calls>>
  BY DEF TypeOK, Lose
<1>2. Tail(net[k]) \in Seq(Pdu) /\ Elements(Tail(net[k])) \subseteq Elements(net[k])
  BY <1>1, TailElements
<1>3. net' \in [Node -> Seq(Pdu)] /\ \A m \in Node : Way(m)' \subseteq Way(m)
  BY <1>1, <1>2 DEF Way
<1> QED
  BY <1>1, <1>3, Sizes

-----------------------------------------------------------------------------
(***************************************************************************)
(* Types and phases.                                                       *)
(***************************************************************************)
LEMMA InitFits == Init => Phases
<1> SUFFICES ASSUME Init PROVE Phases
  OBVIOUS
<1> DEFINE r == [state |-> "DISABLED", base |-> 0, range |-> 0, probes |-> 0,
                 immediately |-> FALSE, timer |-> 0, mult |-> 1]
<1>1. 0 \in Offset /\ 0 \in 0 .. ProbeRetransmits /\ 0 \in 0 .. MaxTimer
  BY Sizes, MaxTimerIs DEF Offset
<1>2. r \in Allocation /\ r.state = "DISABLED"
  BY <1>1 DEF Allocation
<1>3. /\ addr = [n \in Node |-> r] /\ net = [n \in Node |-> <<>>]
      /\ slow = [n \in Node |-> FALSE] /\ fresh = {} /\ tied = {} /\ calls = 0 /\ losses = 0
  BY DEF Init
<1> HIDE DEF r
<1>4. TypeOK
  BY <1>2, <1>3, Sizes DEF TypeOK
<1>5. PhasesFit
  BY <1>2, <1>3, EmptyElements DEF PhasesFit, Fits, Way
<1> QED
  BY <1>4, <1>5 DEF Phases

\* Only k's phase is new.
LEMMA OnlyPhaseOf ==
  ASSUME Phases, NEW k \in Node, OnlyAt(k), Fits(addr'[k], slow'[k]),
         \A j \in Node \ {k} : slow'[j] = slow[j]
  PROVE  \A n \in Node : Fits(addr'[n], slow'[n])
BY DEF Phases, PhasesFit, OnlyAt

LEMMA FreshFits ==
  ASSUME Phases, NEW k \in Node, Request(k, NumAddr)
  PROVE  Fits(addr'[k], slow'[k])
<1>1. TypeOK /\ addr[k].mult \in {1, AnnounceMultiplier}
  BY AllocationIs DEF Phases, TypeOK
<1>2. addr'[k].probes = ProbeRetransmits /\ ProbeRetransmits >= 1
  <2>1. addr'[k].probes = ProbeRetransmits
    BY <1>1, RequestIs
  <2>2. ProbeRetransmits >= 1
    BY Sizes
  <2> QED
    BY <2>1, <2>2
<1>3. /\ addr'[k].state = "PROBING" /\ addr'[k].range = NumAddr /\ addr'[k].immediately = TRUE
      /\ addr'[k].mult = addr[k].mult /\ (slow'[k] <=> addr[k].mult # 1)
      /\ addr'[k].timer = Interval(addr'[k]) /\ addr'[k] \in Allocation
  BY <1>1, RequestIs DEF OnlyAt
<1>4. addr'[k].timer \in Nat
  BY <1>3, AllocationIs
<1>5. addr'[k].timer <= Interval(addr'[k])
  BY <1>3, <1>4
<1> QED
  BY <1>2, <1>3, <1>5 DEF Fits

LEMMA NoPduToSelf ==
  ASSUME Phases, NEW k \in Node, NEW type \in {"PROBE", "DEFEND", "ANNOUNCE"}, Broadcast(k, type)
  PROVE  \A n \in Node : \A p \in Way(n)' : p.src # n
<1> DEFINE p == [type |-> type, src |-> k, base |-> addr[k].base, count |-> addr[k].range]
<1>1. Way(k)' = Way(k) /\ \A m \in Node \ {k} : Way(m)' = Way(m) \union {p}
  BY BroadcastIs DEF Phases
<1>2. p.src = k
  OBVIOUS
<1> HIDE DEF p
<1> QED
  BY <1>1, <1>2 DEF Phases, PhasesFit

LEMMA RequestPhases ==
  ASSUME Phases, NEW k \in Node, Request(k, NumAddr), net' \in [Node -> Seq(Pdu)],
         \A m \in Node : Way(m)' \subseteq Way(m), UNCHANGED <<fresh, tied>>,
         calls' \in 0 .. MaxCalls, losses' \in 0 .. MaxLosses
  PROVE  Phases'
<1>1. /\ OnlyAt(k) /\ slow' \in [Node -> BOOLEAN] /\ \A j \in Node \ {k} : slow'[j] = slow[j]
  BY RequestIs DEF Phases
<1>2. TypeOK'
  BY <1>1 DEF Phases, TypeOK, OnlyAt
<1>3. \A n \in Node : Fits(addr'[n], slow'[n])
  BY <1>1, FreshFits, OnlyPhaseOf
<1>4. PhasesFit'
  BY <1>3 DEF Phases, PhasesFit
<1> QED
  BY <1>2, <1>4 DEF Phases

\* Every step keeps the types and the phases, with losses and calls.
LEMMA PhasesStep == Phases /\ [Next]_vars => Phases'
<1> SUFFICES ASSUME Phases, [Next]_vars PROVE Phases'
  OBVIOUS
<1> USE DEF Phases
<1>1. /\ net \in [Node -> Seq(Pdu)] /\ slow \in [Node -> BOOLEAN]
      /\ fresh \subseteq Node /\ tied \subseteq SUBSET Node
      /\ calls \in 0 .. MaxCalls /\ losses \in 0 .. MaxLosses
  BY DEF TypeOK
<1>2. ASSUME NEW k \in Node, RequestAddresses(k) PROVE Phases'
  BY <1>1, <1>2, RequestPhases DEF RequestAddresses, Way
<1>3. ASSUME NEW k \in Node, RerequestAddresses(k) PROVE Phases'
  <2>1. addr[k].range = NumAddr
    BY <1>3 DEF RerequestAddresses, PhasesFit, Fits
  <2>2. /\ Request(k, NumAddr) /\ UNCHANGED <<net, fresh, tied, losses>>
        /\ calls' \in 0 .. MaxCalls
    BY <1>1, <1>3, <2>1, Sizes DEF RerequestAddresses
  <2> QED
    BY <1>1, <2>2, RequestPhases DEF Way
<1>4. ASSUME NEW k \in Node, RelinquishAddresses(k) PROVE Phases'
  <2>1. /\ OnlyAt(k) /\ UNCHANGED <<net, slow, fresh, tied, losses>>
        /\ calls' \in 0 .. MaxCalls
        /\ addr'[k].state = "DISABLED" /\ addr'[k].mult = addr[k].mult
    BY <1>4, RelinquishIs
  <2>2. Fits(addr'[k], slow'[k])
    BY <2>1 DEF Fits, PhasesFit
  <2>3. \A n \in Node : Fits(addr'[n], slow'[n])
    BY <2>1, <2>2, OnlyPhaseOf
  <2> QED
    BY <1>1, <2>1, <2>3 DEF TypeOK, OnlyAt, PhasesFit, Way
<1>5. ASSUME NEW k \in Node, Probe(k) PROVE Phases'
  <2>0. /\ addr[k] \in Allocation /\ addr[k].state = "PROBING" /\ Fits(addr[k], slow[k])
    BY <1>5 DEF Probe, PhasesFit, TypeOK
  <2>1. /\ addr[k].probes \in 1 .. ProbeRetransmits /\ ProbeRetransmits \in Nat
        /\ addr[k].probes \in Nat /\ addr[k].probes >= 1
        /\ addr[k].range = NumAddr /\ (~slow[k] => addr[k].mult = 1)
        /\ (slow[k] => addr[k].mult # 1)
    BY <2>0, AllocationIs, Sizes DEF Fits
  <2>2. /\ OnlyAt(k) /\ Broadcast(k, "PROBE")
        /\ UNCHANGED <<slow, fresh, tied, calls, losses>> /\ addr[k].probes > 1
        /\ addr'[k].state = "PROBING" /\ addr'[k].probes = addr[k].probes - 1
        /\ addr'[k].base = addr[k].base /\ addr'[k].range = addr[k].range
        /\ addr'[k].immediately = FALSE /\ addr'[k].mult = addr[k].mult
        /\ addr'[k].timer = Interval(addr[k]) /\ addr'[k].timer > 0
    BY <1>5, <2>1, ProbeIs
  <2>3. Fits(addr'[k], slow'[k])
    <3>1. addr'[k].timer \in Nat /\ Interval(addr'[k]) = Interval(addr[k])
      BY <2>2, AllocationIs DEF OnlyAt, Interval
    <3>2. addr'[k].timer <= Interval(addr'[k])
      BY <2>2, <3>1
    <3>3. addr'[k].probes >= 1 /\ addr'[k].probes # ProbeRetransmits
      BY <2>1, <2>2
    <3> QED
      BY <2>1, <2>2, <3>2, <3>3 DEF Fits
  <2>4. \A n \in Node : Fits(addr'[n], slow'[n])
    BY <2>2, <2>3, OnlyPhaseOf
  <2> QED
    BY <1>1, <2>2, <2>4, BroadcastIs, NoPduToSelf DEF TypeOK, OnlyAt, PhasesFit
<1>6. ASSUME NEW k \in Node, Reserve(k) PROVE Phases'
  <2>1. /\ OnlyAt(k) /\ Broadcast(k, "PROBE") /\ UNCHANGED <<slow, calls, losses>>
        /\ fresh' = fresh \union {k} /\ tied' = tied \union {{k, m} : m \in fresh}
        /\ addr[k].state = "PROBING" /\ addr'[k].state = "RESERVED"
        /\ addr'[k].mult = AnnounceMultiplier /\ addr'[k].range = addr[k].range
    BY <1>6, ReserveIs
  <2>2. /\ addr[k].range = NumAddr /\ (slow[k] => addr[k].mult # 1)
        /\ addr[k].mult \in {1, AnnounceMultiplier}
    BY <2>1, AllocationIs DEF PhasesFit, Fits, TypeOK
  <2>3. Fits(addr'[k], slow'[k])
    BY <2>1, <2>2 DEF Fits
  <2>4. \A n \in Node : Fits(addr'[n], slow'[n])
    BY <2>1, <2>3, OnlyPhaseOf
  <2>5. fresh' \subseteq Node /\ tied' \subseteq SUBSET Node
    <3>1. ASSUME NEW t \in tied' PROVE t \subseteq Node
      <4>1. CASE t \in tied
        BY <1>1, <4>1
      <4>2. CASE \E m \in fresh : t = {k, m}
        BY <1>1, <4>2
      <4> QED
        BY <2>1, <4>1, <4>2
    <3>2. fresh' \subseteq Node
      BY <1>1, <2>1
    <3> QED
      BY <3>1, <3>2
  <2> QED
    BY <1>1, <2>1, <2>4, <2>5, BroadcastIs, NoPduToSelf DEF TypeOK, OnlyAt, PhasesFit
<1>7. ASSUME NEW k \in Node, Announce(k) PROVE Phases'
  <2>1. /\ OnlyAt(k) /\ Broadcast(k, "ANNOUNCE")
        /\ UNCHANGED <<slow, fresh, tied, calls, losses>>
        /\ addr[k].state = "RESERVED" /\ addr'[k].state = "RESERVED"
        /\ addr'[k].mult = addr[k].mult /\ addr'[k].range = addr[k].range
    BY <1>7, AnnounceIs
  <2>3. Fits(addr'[k], slow'[k])
    BY <2>1 DEF Fits, PhasesFit
  <2>4. \A n \in Node : Fits(addr'[n], slow'[n])
    BY <2>1, <2>3, OnlyPhaseOf
  <2> QED
    BY <1>1, <2>1, <2>4, BroadcastIs, NoPduToSelf DEF TypeOK, OnlyAt, PhasesFit
<1>8. ASSUME NEW k \in Node, Receive(k) PROVE Phases'
  <2> DEFINE p == Head(net[k])
             c == ConflictRange(addr[k], p.base, p.count)
             d == [type |-> "DEFEND", src |-> k, base |-> c.base, count |-> c.count]
  <2>1. /\ p.src \in Node \ {k} /\ Way(k) = Way(k)' \union {p}
        /\ net' \in [Node -> Seq(Pdu)] /\ UNCHANGED <<fresh, tied, calls, losses>>
        /\ \/ /\ Request(k, NumAddr)
              /\ \A m \in Node \ {k} : Way(m)' = Way(m)
           \/ /\ UNCHANGED <<addr, slow>>
              /\ \A m \in Node \ {k} :
                   Way(m)' = IF m = p.src THEN Way(m) \union {d} ELSE Way(m)
           \/ /\ UNCHANGED <<addr, slow>>
              /\ \A m \in Node \ {k} : Way(m)' = Way(m)
    BY <1>8, ReceiveIs
  <2>2. d.src = k
    OBVIOUS
  <2> HIDE DEF d, p
  <2>3. CASE Request(k, NumAddr) /\ \A m \in Node \ {k} : Way(m)' = Way(m)
    <3>1. \A m \in Node : Way(m)' \subseteq Way(m)
      BY <2>1, <2>3
    <3> QED
      BY <1>1, <2>1, <2>3, <3>1, RequestPhases
  <2>4. CASE /\ UNCHANGED <<addr, slow>>
             /\ \A m \in Node \ {k} : Way(m)' \subseteq Way(m) \union {d}
    <3> HIDE DEF c
    <3>1. \A m \in Node : \A q \in Way(m)' : q.src # m
      BY <2>1, <2>2, <2>4 DEF PhasesFit
    <3> QED
      BY <1>1, <2>1, <2>4, <3>1 DEF TypeOK, PhasesFit
  <2> QED
    BY <2>1, <2>3, <2>4
<1>9. ASSUME NEW k \in Node, Lose(k) PROVE Phases'
  BY <1>1, <1>9, LoseIs DEF TypeOK, PhasesFit
<1>10. ASSUME Tick PROVE Phases'
  <2>1. /\ addr' \in [Node -> Allocation] /\ UNCHANGED <<net, slow, tied, calls, losses>>
        /\ fresh' = {}
    BY <1>10, TickIs
  <2>2. ASSUME NEW j \in Node PROVE Fits(addr'[j], slow'[j])
    <3> DEFINE x == addr[j]
               y == addr'[j]
    <3>1. /\ y.state = x.state /\ y.base = x.base /\ y.range = x.range
          /\ y.probes = x.probes /\ y.immediately = x.immediately /\ y.mult = x.mult
          /\ x.state # "DISABLED" => y.timer = x.timer - 1
      BY <1>10, TickIs
    <3>2. Fits(x, slow[j]) /\ x \in Allocation
      BY DEF PhasesFit, TypeOK
    <3>3. x.timer \in Nat /\ Interval(y) = Interval(x) /\ Interval(x) \in Nat
      <4>1. x.mult * ProbeInterval(x.base) \in Nat
        <5>1. x.mult \in {1, AnnounceMultiplier} /\ x.base \in Offset
          BY <3>2, AllocationIs
        <5>2. x.mult * ProbeInterval(x.base) \in 1 .. MaxTimer
          BY <5>1, TimersFit
        <5> QED
          BY <5>2
      <4> QED
        BY <3>1, <3>2, <4>1, AllocationIs DEF Interval
    <3>4. x.state = "PROBING" => y.timer <= Interval(y)
      BY <3>1, <3>2, <3>3 DEF Fits
    <3> QED
      BY <2>1, <3>1, <3>2, <3>4 DEF Fits
  <2> QED
    BY <1>1, <2>1, <2>2 DEF TypeOK, PhasesFit, Way
<1>11. CASE UNCHANGED vars
  BY <1>11 DEF vars, TypeOK, PhasesFit, Way
<1> QED
  BY <1>2, <1>3, <1>4, <1>5, <1>6, <1>7, <1>8, <1>9, <1>10, <1>11 DEF Next

-----------------------------------------------------------------------------
(***************************************************************************)
(* Two nodes.                                                              *)
(***************************************************************************)
\* Of two different MAC addresses of one length, one has the byte that counts.
LEMMA KeepsOne ==
  ASSUME NEW n \in Node, NEW m \in Node, n # m
  PROVE  Keeps(n, m) \/ Keeps(m, n)
<1>1. /\ Mac[n] \in Seq(0 .. 255) /\ Mac[m] \in Seq(0 .. 255) /\ Mac[n] # Mac[m]
      /\ DOMAIN Mac[n] = DOMAIN Mac[m]
  BY MaapAssumption
<1>2. /\ Len(Mac[n]) \in Nat /\ DOMAIN Mac[n] = 1 .. Len(Mac[n])
      /\ Len(Mac[m]) \in Nat /\ DOMAIN Mac[m] = 1 .. Len(Mac[m])
      /\ \A i \in 1 .. Len(Mac[n]) : Mac[n][i] \in 0 .. 255
      /\ \A i \in 1 .. Len(Mac[m]) : Mac[m][i] \in 0 .. 255
  BY ZenonT(60), <1>1, LenProperties, ElementOfSeq
<1>3. Len(Mac[n]) = Len(Mac[m])
  <2>1. 1 .. Len(Mac[n]) = 1 .. Len(Mac[m])
    BY <1>1, <1>2
  <2> DEFINE a == Len(Mac[n])
             b == Len(Mac[m])
  <2>2. a \in Nat /\ b \in Nat /\ 1 .. a = 1 .. b
    BY <1>2, <2>1
  <2> HIDE DEF a, b
  <2>3. (a > 0 => a \in 1 .. b) /\ (b > 0 => b \in 1 .. a)
    BY <2>2
  <2>4. a = b
    BY <2>2, <2>3
  <2> QED
    BY <2>4 DEF a, b
<1>4. PICK i \in 1 .. Len(Mac[n]) : Mac[n][i] # Mac[m][i]
  <2> DEFINE s == Mac[n]
             t == Mac[m]
  <2>1. s \in Seq(0 .. 255) /\ t \in Seq(0 .. 255) /\ Len(s) = Len(t) /\ s # t
    BY <1>1, <1>3
  <2> HIDE DEF s, t
  <2>2. ASSUME \A i \in 1 .. Len(s) : s[i] = t[i] PROVE FALSE
    <3>1. s = t
      BY <2>1, <2>2, SeqEqual, Zenon
    <3> QED
      BY <2>1, <3>1
  <2>3. \E i \in 1 .. Len(s) : s[i] # t[i]
    BY <2>2
  <2> QED
    BY <2>3 DEF s, t
<1>5. Mac[n][i] < Mac[m][i] \/ Mac[m][i] < Mac[n][i]
  <2> DEFINE v == Mac[n][i]
             w == Mac[m][i]
  <2>1. v \in 0 .. 255
    BY <1>2, Zenon
  <2>2. i \in 1 .. Len(Mac[m])
    BY <1>3
  <2>3. w \in 0 .. 255
    BY <1>2, <2>2, Zenon
  <2>4. v # w
    BY <1>4
  <2> HIDE DEF v, w
  <2>5. v < w \/ w < v
    BY <2>1, <2>3, <2>4
  <2> QED
    BY <2>5 DEF v, w
<1> QED
  BY <1>1, <1>2, <1>3, <1>4, <1>5 DEF Keeps

LEMMA ProbesTwice ==
  ASSUME ProbingOutlasts
  PROVE  ProbeRetransmits \in Nat /\ ProbeRetransmits >= 2
<1>1. /\ ProbeRetransmits \in Nat /\ ProbeRetransmits >= 1 /\ ProbeBase \in Nat
      /\ ProbeBase > 0 /\ ProbeVariation \in Nat
  BY Sizes
<1>2. ProbeRetransmits # 1
  <2> SUFFICES ASSUME ProbeRetransmits = 1 PROVE FALSE
    OBVIOUS
  <2>1. ProbeRetransmits - 1 = 0
    OBVIOUS
  <2>2. 0 * ProbeBase = 0
    BY <1>1
  <2> QED
    BY <1>1, <2>1, <2>2 DEF ProbingOutlasts
<1> QED
  BY <1>1, <1>2

\* Who has all probes before it reserves later than who has sent one.
LEMMA FreshOutlasts ==
  ASSUME ProbingOutlasts, NEW x \in Allocation, NEW y \in Allocation,
         Fits(x, FALSE), Fits(y, FALSE), x.state = "PROBING", y.state = "PROBING",
         y.probes = ProbeRetransmits, y.immediately = TRUE
  PROVE  TimeToReserve(y) > x.timer
<1> DEFINE a == ProbeInterval(x.base)
           b == ProbeInterval(y.base)
           r == ProbeRetransmits - 1
<1>1. /\ a \in Nat /\ b \in Nat /\ b >= ProbeBase /\ a < ProbeBase + ProbeVariation
      /\ r \in Nat /\ r > 0
  BY AllocationIs, IntervalsAre, ProbesTwice, Sizes
<1>2. x.mult = 1 /\ y.mult = 1 /\ x.timer <= Interval(x) /\ x.timer \in Nat
  BY AllocationIs DEF Fits
<1>3. x.timer <= a
  <2>1. Interval(x) = 1 * a
    BY <1>2 DEF Interval
  <2> HIDE DEF a
  <2> QED
    BY <1>1, <1>2, <2>1
<1>4. TimeToReserve(y) = r * b
  <2>1. TimeToReserve(y) = r * (1 * b) + 0
    BY <1>2 DEF TimeToReserve, Interval
  <2> HIDE DEF r, b
  <2>2. r * b \in Nat /\ 1 * b = b
    BY <1>1
  <2> QED
    BY <2>1, <2>2
<1>5. r * ProbeBase >= ProbeBase + ProbeVariation
  BY DEF ProbingOutlasts
<1> HIDE DEF a, b, r
<1>6. r * b >= r * ProbeBase /\ r * b \in Nat /\ r * ProbeBase \in Nat
  BY <1>1, Sizes, ProductsAre
<1> QED
  BY <1>1, <1>2, <1>3, <1>4, <1>5, <1>6, Sizes

\* A conflict with what two ranges have in common is one with either.
LEMMA DefendTells ==
  ASSUME NEW a \in Allocation, NEW b \in Allocation, a.range = NumAddr, b.range = NumAddr,
         NEW base \in Nat, NEW count \in Nat, Conflict(a, base, count)
  PROVE  LET c == ConflictRange(a, base, count) IN
         /\ Conflict(b, c.base, c.count) => Overlap(a.base, a.range, b.base, b.range)
         /\ base = b.base /\ count = b.range => Conflict(b, c.base, c.count)
<1> DEFINE c == ConflictRange(a, base, count)
<1>1. /\ a.base \in Nat /\ a.range \in Nat /\ b.base \in Nat /\ b.range \in Nat
      /\ a.range > 0 /\ b.range > 0
  BY AllocationIs, Sizes
<1>2. CASE a.base >= base
  <2>1. /\ c.base = a.base
        /\ c.count = IF a.base + a.range < base + count
                       THEN (a.base + a.range) - a.base ELSE (base + count) - a.base
    BY <1>2 DEF ConflictRange
  <2> HIDE DEF c
  <2> QED
    BY <1>1, <1>2, <2>1 DEF c, Conflict, Overlap
<1>3. CASE a.base < base
  <2>1. /\ c.base = base
        /\ c.count = IF base + count <= a.base + a.range
                       THEN count ELSE (a.base + a.range) - base
    BY <1>1, <1>3 DEF ConflictRange
  <2> HIDE DEF c
  <2> QED
    BY <1>1, <1>3, <2>1 DEF c, Conflict, Overlap
<1> QED
  BY <1>1, <1>2, <1>3

LEMMA OverlapConflicts ==
  ASSUME Phases, NEW n \in Node, NEW m \in Node, Overlapping(n, m),
         addr[n].state # "DISABLED", addr[m].state # "DISABLED"
  PROVE  /\ Conflict(addr[m], addr[n].base, addr[n].range) /\ Overlapping(m, n)
         /\ addr[n].range = NumAddr /\ addr[m].range = NumAddr
         /\ addr[n] \in Allocation /\ addr[m] \in Allocation
<1>1. /\ addr[n] \in Allocation /\ addr[m] \in Allocation
      /\ addr[n].range = NumAddr /\ addr[m].range = NumAddr
  BY DEF Phases, TypeOK, PhasesFit, Fits
<1>2. /\ addr[n].base \in Nat /\ addr[m].base \in Nat /\ addr[n].range \in Nat
      /\ addr[m].range \in Nat /\ addr[n].range > 0 /\ addr[m].range > 0
  BY <1>1, AllocationIs, Sizes
<1> QED
  BY <1>1, <1>2 DEF Overlapping, Overlap, Conflict

-----------------------------------------------------------------------------
(***************************************************************************)
(* What a step leaves.                                                     *)
(***************************************************************************)
SameRange(n) == addr'[n].base = addr[n].base /\ addr'[n].range = addr[n].range

LEMMA ProbedStays ==
  ASSUME NEW n \in Node, NEW m \in Node, SameRange(n), Way(m) \subseteq Way(m)', Probed(n, m)
  PROVE  Probed(n, m)'
BY DEF SameRange, Probed

LEMMA ToldStays ==
  ASSUME NEW n \in Node, NEW m \in Node, SameRange(m), Way(m) \subseteq Way(m)', Told(n, m)
  PROVE  Told(n, m)'
BY DEF SameRange, Told, Conflict

LEMMA ProbedBefore ==
  ASSUME NEW n \in Node, NEW m \in Node, SameRange(n), Probed(n, m)',
         \A q \in Way(m)' : q \in Way(m) \/ q.type # "PROBE" \/ q.src # n
  PROVE  Probed(n, m)
BY DEF SameRange, Probed

LEMMA ToldBefore ==
  ASSUME NEW n \in Node, NEW m \in Node, SameRange(m), Told(n, m)',
         \A q \in Way(m)' : q \in Way(m) \/ q.type = "PROBE" \/ q.src # n
  PROVE  Told(n, m)
BY DEF SameRange, Told, Conflict

LEMMA MeetBefore ==
  ASSUME NEW n \in Node, NEW m \in Node, SameRange(n), SameRange(m), slow' = slow, Meet(n, m)',
         addr[n].state # "DISABLED", addr[m].state # "DISABLED"
  PROVE  Meet(n, m)
BY DEF SameRange, Meet, Steady, Overlapping, Keeps

\* Two nodes that no step touched but for more PDUs on the way to them.
LEMMA PairStays ==
  ASSUME NEW n \in Node, NEW m \in Node, addr'[n] = addr[n], addr'[m] = addr[m],
         slow'[n] = slow[n], slow'[m] = slow[m],
         Way(n) \subseteq Way(n)', Way(m) \subseteq Way(m)', PairsFit, Meet(n, m)'
  PROVE  PairFits(n, m)'
<1>1. Meet(n, m)
  BY DEF Meet, Steady, Overlapping, Keeps
<1>2. PairFits(n, m)
  BY <1>1 DEF PairsFit
<1>3. SameRange(n) /\ SameRange(m)
  BY DEF SameRange
<1>4. /\ (Probed(n, m) => Probed(n, m)') /\ (Probed(m, n) => Probed(m, n)')
      /\ (Told(n, m) => Told(n, m)') /\ (Told(m, n) => Told(m, n)')
  BY <1>3, ProbedStays, ToldStays
<1> QED
  BY <1>2, <1>4 DEF PairFits

LEMMA CrossMeetBefore ==
  ASSUME NEW n \in Node, NEW m \in Node, SameRange(n), SameRange(m), slow' = slow,
         CrossMeet(n, m)', addr[n].state # "DISABLED", addr[m].state # "DISABLED"
  PROVE  CrossMeet(n, m)
BY DEF SameRange, CrossMeet, Steady, Overlapping, Crossed, Keeps

\* So of two that both keep what they share.
LEMMA TieStays ==
  ASSUME NEW n \in Node, NEW m \in Node, addr'[n] = addr[n], addr'[m] = addr[m],
         slow'[n] = slow[n], slow'[m] = slow[m], fresh \subseteq fresh', tied \subseteq tied',
         Way(n) \subseteq Way(n)', Way(m) \subseteq Way(m)', TiesFit, CrossMeet(n, m)'
  PROVE  TieFits(n, m)'
<1>1. CrossMeet(n, m)
  BY DEF CrossMeet, Steady, Overlapping, Crossed, Keeps
<1>2. TieFits(n, m)
  BY <1>1 DEF TiesFit
<1>3. SameRange(n) /\ SameRange(m)
  BY DEF SameRange
<1>4. (Probed(m, n) => Probed(m, n)') /\ (Told(n, m) => Told(n, m)')
  BY <1>3, ProbedStays, ToldStays
<1>5. CanReserve(addr[m])' <=> CanReserve(addr[m])
  BY DEF CanReserve, Due
<1> QED
  BY <1>2, <1>4, <1>5 DEF TieFits

-----------------------------------------------------------------------------
(***************************************************************************)
(* The actions, on a network that loses nothing.                           *)
(***************************************************************************)
\* A node that starts to probe, having read at most a PDU.
LEMMA RequestLossless ==
  ASSUME Phases, Lossless, Phases', ProbingOutlasts, NEW k \in Node, Request(k, NumAddr),
         UNCHANGED <<fresh, tied>>,
         Way(k)' \subseteq Way(k), \A m \in Node \ {k} : Way(m)' = Way(m)
  PROVE  Lossless'
<1>1. /\ OnlyAt(k) /\ (slow'[k] <=> addr[k].mult # 1) /\ (\A j \in Node \ {k} : slow'[j] = slow[j])
      /\ addr'[k].state = "PROBING" /\ addr'[k].probes = ProbeRetransmits
      /\ addr'[k].immediately = TRUE
  BY RequestIs DEF Phases
<1>2. \A j \in Node \ {k} : addr'[j] = addr[j] /\ SameRange(j)
  BY <1>1 DEF OnlyAt, SameRange
<1>3. ProbeRetransmits \in Nat /\ ProbeRetransmits >= 2
  BY ProbesTwice
<1>4. ProbersWait'
  <2> SUFFICES ASSUME NEW n \in Node, NEW m \in Node, addr'[n].state = "PROBING",
                      addr'[n].probes < ProbeRetransmits, Probed(n, m)'
               PROVE  ~Due(addr'[n])
    BY DEF ProbersWait, Due
  <2>1. n # k
    BY <1>1, <1>3
  <2>2. Probed(n, m)
    BY <1>2, <2>1, ProbedBefore
  <2> QED
    BY <1>2, <2>1, <2>2 DEF Lossless, ProbersWait
<1>5. ToldWait'
  <2> SUFFICES ASSUME NEW n \in Node, NEW m \in Node, ~slow'[n], Steady(m)', ~Crossed(n, m),
                      Told(n, m)'
               PROVE  addr'[m].state = "PROBING" /\ ~CanReserve(addr'[m])
    BY DEF ToldWait, CanReserve, Due, Crossed, Keeps
  <2>1. CASE m = k
    BY <1>1, <1>3, <2>1 DEF CanReserve
  <2>2. CASE m # k
    <3>1. Told(n, m)
      BY <1>2, <2>2, ToldBefore
    <3>2. ~slow[n]
      BY <1>1 DEF Phases, PhasesFit, Fits
    <3>3. Steady(m)
      BY <1>1, <1>2, <2>2 DEF Steady
    <3> QED
      BY <1>2, <2>2, <3>1, <3>2, <3>3 DEF Lossless, ToldWait
  <2> QED
    BY <2>1, <2>2
<1>6. PairsFit'
  <2> SUFFICES ASSUME NEW n \in Node, NEW m \in Node, Meet(n, m)' PROVE PairFits(n, m)'
    BY DEF PairsFit
  <2>1. n # m
    BY DEF Meet
  <2>2. CASE n = k
    BY <1>1, <2>2 DEF PairFits
  <2>3. CASE m = k
    <3>1. addr'[n].state = "PROBING" => TimeToReserve(addr'[m]) > addr'[n].timer
      <4> SUFFICES ASSUME addr'[n].state = "PROBING"
                   PROVE  TimeToReserve(addr'[m]) > addr'[n].timer
        OBVIOUS
      <4>1. /\ addr'[n] \in Allocation /\ addr'[m] \in Allocation
            /\ Fits(addr'[n], slow'[n]) /\ Fits(addr'[m], slow'[m])
        BY DEF Phases, TypeOK, PhasesFit
      <4>2. Fits(addr'[n], FALSE) /\ Fits(addr'[m], FALSE)
        BY <4>1 DEF Meet, Steady, Fits
      <4> QED
        BY <1>1, <2>3, <4>1, <4>2, FreshOutlasts
    <3>2. TimeToReserve(addr[m])' = TimeToReserve(addr'[m])
      BY DEF TimeToReserve, Interval
    <3> QED
      BY <1>1, <2>3, <3>1, <3>2 DEF PairFits
  <2>4. CASE n # k /\ m # k
    BY <1>1, <1>2, <2>4, PairStays DEF Lossless
  <2> QED
    BY <2>2, <2>3, <2>4
<1>7. TiesFit'
  <2> SUFFICES ASSUME NEW n \in Node, NEW m \in Node, CrossMeet(n, m)' PROVE TieFits(n, m)'
    BY DEF TiesFit
  <2>1. CASE n = k
    BY <1>1, <2>1 DEF TieFits
  <2>2. CASE m = k
    <3>1. CanReserve(addr[m])' <=> CanReserve(addr'[m])
      BY DEF CanReserve, Due
    <3> QED
      BY <1>1, <1>3, <2>2, <3>1 DEF TieFits, CanReserve
  <2>3. CASE n # k /\ m # k
    BY <1>1, <1>2, <2>3, TieStays DEF Lossless
  <2> QED
    BY <2>1, <2>2, <2>3
<1> QED
  BY <1>4, <1>5, <1>6, <1>7 DEF Lossless

\* What a probe of k that is not the last and the last one have in common.
LEMMA ProbeOnTheWay ==
  ASSUME Phases, NEW k \in Node, Broadcast(k, "PROBE"), OnlyAt(k), SameRange(k)
  PROVE  /\ \A n \in Node : SameRange(n) /\ Way(n) \subseteq Way(n)'
         /\ Way(k)' = Way(k)
         /\ \A m \in Node \ {k} : Probed(k, m)'
         /\ \A n \in Node \ {k}, m \in Node : Probed(n, m)' => Probed(n, m)
         /\ \A n, m \in Node : Told(n, m)' => Told(n, m)
<1> DEFINE p == [type |-> "PROBE", src |-> k, base |-> addr[k].base, count |-> addr[k].range]
<1>1. Way(k)' = Way(k) /\ \A m \in Node \ {k} : Way(m)' = Way(m) \union {p}
  BY BroadcastIs DEF Phases
<1>2. p.src = k /\ p.type = "PROBE" /\ p.base = addr[k].base /\ p.count = addr[k].range
  OBVIOUS
<1> HIDE DEF p
<1>3. \A n \in Node : SameRange(n) /\ Way(n) \subseteq Way(n)'
  BY <1>1 DEF OnlyAt, SameRange
<1>4. \A m \in Node \ {k} : Probed(k, m)'
  BY <1>1, <1>2 DEF SameRange, Probed
<1>5. ASSUME NEW n \in Node \ {k}, NEW m \in Node, Probed(n, m)' PROVE Probed(n, m)
  <2>1. \A q \in Way(m)' : q \in Way(m) \/ q.type # "PROBE" \/ q.src # n
    BY <1>1, <1>2
  <2> QED
    BY <1>3, <1>5, <2>1, ProbedBefore
<1>6. ASSUME NEW n \in Node, NEW m \in Node, Told(n, m)' PROVE Told(n, m)
  <2>1. \A q \in Way(m)' : q \in Way(m) \/ q.type = "PROBE" \/ q.src # n
    BY <1>1, <1>2
  <2> QED
    BY <1>3, <1>6, <2>1, ToldBefore
<1> QED
  BY <1>1, <1>3, <1>4, <1>5, <1>6

LEMMA ProbeLossless ==
  ASSUME Phases, Lossless, NEW k \in Node, Probe(k)
  PROVE  Lossless'
<1>1. addr[k] \in Allocation /\ addr[k].probes >= 1 /\ addr[k].probes \in Nat
  BY AllocationIs DEF Probe, Phases, TypeOK, PhasesFit, Fits
<1>2. /\ OnlyAt(k) /\ Broadcast(k, "PROBE") /\ UNCHANGED <<slow, fresh, tied>>
      /\ addr[k].state = "PROBING" /\ Due(addr[k]) /\ addr[k].probes > 1
      /\ addr'[k].state = "PROBING" /\ addr'[k].probes = addr[k].probes - 1
      /\ addr'[k].base = addr[k].base /\ addr'[k].range = addr[k].range
      /\ addr'[k].immediately = FALSE /\ addr'[k].mult = addr[k].mult
      /\ addr'[k].timer = Interval(addr[k]) /\ addr'[k].timer > 0
  BY <1>1, ProbeIs DEF Phases
<1>3. SameRange(k) /\ ~Due(addr'[k])
  BY <1>2 DEF SameRange, Due
<1>4. /\ \A n \in Node : SameRange(n) /\ Way(n) \subseteq Way(n)'
      /\ Way(k)' = Way(k)
      /\ \A m \in Node \ {k} : Probed(k, m)'
      /\ \A n \in Node \ {k}, m \in Node : Probed(n, m)' => Probed(n, m)
      /\ \A n, m \in Node : Told(n, m)' => Told(n, m)
  BY <1>2, <1>3, ProbeOnTheWay
<1>5. \A j \in Node \ {k} : addr'[j] = addr[j]
  BY <1>2 DEF OnlyAt
<1>6. ProbersWait'
  <2> SUFFICES ASSUME NEW n \in Node, NEW m \in Node, addr'[n].state = "PROBING",
                      addr'[n].probes < ProbeRetransmits, Probed(n, m)'
               PROVE  ~Due(addr'[n])
    BY DEF ProbersWait, Due
  <2>1. CASE n # k
    BY <1>4, <1>5, <2>1 DEF Lossless, ProbersWait
  <2> QED
    BY <1>3, <2>1
<1>7. ToldWait'
  <2> SUFFICES ASSUME NEW n \in Node, NEW m \in Node, ~slow'[n], Steady(m)', ~Crossed(n, m),
                      Told(n, m)'
               PROVE  addr'[m].state = "PROBING" /\ ~CanReserve(addr'[m])
    BY DEF ToldWait, CanReserve, Due, Crossed, Keeps
  <2>1. CASE m # k
    BY <1>2, <1>4, <1>5, <2>1 DEF Lossless, ToldWait, Steady
  <2>2. CASE m = k
    BY <1>2, <1>3, <2>2 DEF CanReserve
  <2> QED
    BY <2>1, <2>2
<1>8. PairsFit'
  <2> SUFFICES ASSUME NEW n \in Node, NEW m \in Node, Meet(n, m)' PROVE PairFits(n, m)'
    BY DEF PairsFit
  <2>1. n # m /\ addr'[n].state # "DISABLED" /\ addr'[m].state # "DISABLED"
    BY DEF Meet, Steady
  <2>2. Meet(n, m) /\ PairFits(n, m)
    <3>1. addr[n].state # "DISABLED" /\ addr[m].state # "DISABLED"
      BY <1>2, <1>5, <2>1
    <3>2. Meet(n, m)
      BY <1>2, <1>4, <3>1, MeetBefore
    <3> QED
      BY <3>2 DEF Lossless, PairsFit
  <2>3. CASE n = k
    BY <1>2, <1>4, <2>1, <2>3 DEF PairFits
  <2>4. CASE m = k
    <3>1. n # k /\ addr'[n] = addr[n] /\ n \in Node \ {k}
      BY <1>5, <2>1, <2>4
    <3>2. Probed(k, n)' /\ (Probed(n, k) => Probed(n, k)')
      BY <1>4, <3>1, ProbedStays
    <3>3. TimeToReserve(addr'[k]) = TimeToReserve(addr[k])
      <4> DEFINE i == Interval(addr[k])
                 r == addr[k].probes - 1
      <4>1. i \in Int /\ r \in Int /\ addr[k].timer \in Nat
        BY <1>1, <1>2, AllocationIs DEF OnlyAt
      <4>2. Interval(addr'[k]) = i /\ addr'[k].probes - 1 = r - 1
        BY <1>1, <1>2 DEF Interval
      <4>3. TimeToReserve(addr'[k]) = (r - 1) * i + i
        BY <1>2, <4>2 DEF TimeToReserve
      <4>4. TimeToReserve(addr[k]) = r * i + 0
        BY <1>2, <4>1 DEF TimeToReserve, Due
      <4> HIDE DEF i, r
      <4>5. (r - 1) * i = r * i - i /\ r * i \in Int
        BY <4>1
      <4> QED
        BY <4>1, <4>3, <4>4, <4>5
    <3>4. TimeToReserve(addr[m])' = TimeToReserve(addr'[m])
      BY DEF TimeToReserve, Interval
    <3>5. CanReserve(addr[m])' = CanReserve(addr'[m])
      BY DEF CanReserve, Due
    <3> QED
      BY <1>2, <1>3, <2>2, <2>4, <3>1, <3>2, <3>3, <3>4, <3>5 DEF PairFits, CanReserve
  <2>5. CASE n # k /\ m # k
    BY <1>2, <1>4, <1>5, <2>5, PairStays DEF Lossless
  <2> QED
    BY <2>3, <2>4, <2>5
<1>9. TiesFit'
  <2> SUFFICES ASSUME NEW n \in Node, NEW m \in Node, CrossMeet(n, m)' PROVE TieFits(n, m)'
    BY DEF TiesFit
  <2>1. n # m
    BY DEF CrossMeet
  <2>2. CASE n = k
    BY <1>2, <2>2 DEF TieFits
  <2>3. CASE m = k
    <3>1. n \in Node \ {k}
      BY <2>1, <2>3
    <3>2. Probed(m, n)'
      BY <1>4, <2>3, <3>1
    <3>3. ~CanReserve(addr[m])'
      BY <1>3, <2>3 DEF CanReserve, Due
    <3> QED
      BY <1>2, <2>3, <3>2, <3>3 DEF TieFits
  <2>4. CASE n # k /\ m # k
    BY <1>2, <1>4, <1>5, <2>4, TieStays DEF Lossless
  <2> QED
    BY <2>2, <2>3, <2>4
<1> QED
  BY <1>6, <1>7, <1>8, <1>9 DEF Lossless

LEMMA ReserveLossless ==
  ASSUME Phases, Lossless, ProbingOutlasts, NEW k \in Node, Reserve(k)
  PROVE  Lossless'
<1>1. /\ OnlyAt(k) /\ Broadcast(k, "PROBE") /\ slow' = slow
      /\ fresh' = fresh \union {k} /\ tied' = tied \union {{k, m} : m \in fresh}
      /\ addr[k].state = "PROBING" /\ Due(addr[k]) /\ addr[k].probes = 1
      /\ addr'[k].state = "RESERVED" /\ addr'[k].immediately = TRUE
      /\ addr'[k].base = addr[k].base /\ addr'[k].range = addr[k].range
  BY ReserveIs DEF Phases
<1>2. SameRange(k) /\ CanReserve(addr[k])
  BY <1>1 DEF SameRange, CanReserve
<1>3. /\ \A n \in Node : SameRange(n) /\ Way(n) \subseteq Way(n)'
      /\ Way(k)' = Way(k)
      /\ \A m \in Node \ {k} : Probed(k, m)'
      /\ \A n \in Node \ {k}, m \in Node : Probed(n, m)' => Probed(n, m)
      /\ \A n, m \in Node : Told(n, m)' => Told(n, m)
  BY <1>1, <1>2, ProbeOnTheWay
<1>4. \A j \in Node \ {k} : addr'[j] = addr[j]
  BY <1>1 DEF OnlyAt
<1>5. ProbeRetransmits \in Nat /\ ProbeRetransmits >= 2
  BY ProbesTwice
<1>6. \A m \in Node : ~Probed(k, m)
  BY <1>1, <1>5 DEF Lossless, ProbersWait
<1>7. ProbersWait'
  <2> SUFFICES ASSUME NEW n \in Node, NEW m \in Node, addr'[n].state = "PROBING",
                      addr'[n].probes < ProbeRetransmits, Probed(n, m)'
               PROVE  ~Due(addr'[n])
    BY DEF ProbersWait, Due
  <2>1. n # k
    BY <1>1
  <2> QED
    BY <1>3, <1>4, <2>1 DEF Lossless, ProbersWait
<1>8. ToldWait'
  <2> SUFFICES ASSUME NEW n \in Node, NEW m \in Node, ~slow'[n], Steady(m)', ~Crossed(n, m),
                      Told(n, m)'
               PROVE  addr'[m].state = "PROBING" /\ ~CanReserve(addr'[m])
    BY DEF ToldWait, CanReserve, Due, Crossed, Keeps
  <2>1. Told(n, m) /\ ~slow[n]
    BY <1>1, <1>3
  <2>2. Steady(m)
    BY <1>1, <1>4 DEF Steady
  <2>3. addr[m].state = "PROBING" /\ ~CanReserve(addr[m])
    BY <2>1, <2>2 DEF Lossless, ToldWait
  <2>4. m # k
    BY <1>2, <2>3
  <2> QED
    BY <1>4, <2>3, <2>4
<1>9. PairsFit'
  <2> SUFFICES ASSUME NEW n \in Node, NEW m \in Node, Meet(n, m)' PROVE PairFits(n, m)'
    BY DEF PairsFit
  <2>1. n # m /\ addr'[n].state # "DISABLED" /\ addr'[m].state # "DISABLED"
    BY DEF Meet, Steady
  <2>2. Meet(n, m) /\ PairFits(n, m)
    <3>1. addr[n].state # "DISABLED" /\ addr[m].state # "DISABLED"
      BY <1>1, <1>4, <2>1
    <3>2. Meet(n, m)
      BY <1>1, <1>3, <3>1, MeetBefore
    <3> QED
      BY <3>2 DEF Lossless, PairsFit
  <2>3. (n = k => ~Told(m, k)) /\ (m = k => ~Told(n, k))
    BY <1>2, <2>2 DEF Lossless, ToldWait, Meet, Steady, Crossed
  <2>4. /\ TimeToReserve(addr[m])' = TimeToReserve(addr'[m])
        /\ CanReserve(addr[m])' = CanReserve(addr'[m])
    BY DEF TimeToReserve, Interval, CanReserve, Due
  <2>5. \A y \in Allocation : CanReserve(y) => TimeToReserve(y) = 0
    <3> SUFFICES ASSUME NEW y \in Allocation, CanReserve(y) PROVE TimeToReserve(y) = 0
      OBVIOUS
    <3>1. Interval(y) \in Int
      <4>1. y.mult \in {1, AnnounceMultiplier} /\ y.base \in Offset
        BY AllocationIs
      <4>2. y.mult * ProbeInterval(y.base) \in 1 .. MaxTimer
        BY <4>1, TimersFit
      <4> QED
        BY <4>2, MaxTimerIs DEF Interval
    <3>2. y.probes = 1 /\ (IF y.immediately THEN 0 ELSE y.timer) = 0
      BY DEF CanReserve, Due
    <3>3. TimeToReserve(y) = (1 - 1) * Interval(y) + 0
      BY <3>2 DEF TimeToReserve
    <3> DEFINE i == Interval(y)
    <3>4. (1 - 1) * i + 0 = 0
      <4>1. i \in Int
        BY <3>1
      <4> HIDE DEF i
      <4> QED
        BY <4>1
    <3> QED
      BY <3>3, <3>4
  <2>6. \A j \in Node : addr[j] \in Allocation /\ addr[j].timer \in Nat
    BY AllocationIs DEF Phases, TypeOK
  <2>7. CASE n = k
    <3>1. addr'[m] = addr[m] /\ m \in Node \ {k}
      BY <1>4, <2>1, <2>7
    <3>2. addr[n].probes # ProbeRetransmits /\ ~Probed(n, m)
      BY <1>1, <1>5, <1>6, <2>7
    <3>3. addr[m].state # "RESERVED"
      BY <1>1, <2>2, <2>3, <2>7, <3>2 DEF PairFits
    <3>4. addr[m].state = "PROBING" => ~CanReserve(addr[m])
      <4>1. addr[m].state = "PROBING" => TimeToReserve(addr[m]) > addr[n].timer
        BY <1>1, <2>2, <2>7, <3>2 DEF PairFits
      <4> QED
        BY <2>5, <2>6, <4>1
    <3> QED
      BY <1>1, <1>3, <2>4, <2>7, <3>1, <3>3, <3>4 DEF PairFits
  <2>8. CASE m = k
    <3>1. n # k /\ addr'[n] = addr[n] /\ n \in Node \ {k}
      BY <1>4, <2>1, <2>8
    <3>2. Probed(n, k) => Probed(n, k)'
      BY <1>3, <3>1, ProbedStays
    <3>3. addr[n].state # "RESERVED"
      BY <1>1, <1>2, <1>5, <2>2, <2>8 DEF PairFits
    <3>4. addr[n].state = "PROBING" => addr[n].probes = ProbeRetransmits \/ Probed(n, k)
      <4>1. TimeToReserve(addr[k]) = 0
        BY <1>2, <2>5, <2>6
      <4> QED
        BY <1>1, <2>2, <2>6, <2>8, <4>1 DEF PairFits
    <3> QED
      BY <1>1, <2>8, <3>1, <3>2, <3>3, <3>4 DEF PairFits
  <2>9. CASE n # k /\ m # k
    BY <1>1, <1>3, <1>4, <2>9, PairStays DEF Lossless
  <2> QED
    BY <2>7, <2>8, <2>9
<1>10. TiesFit'
  <2> SUFFICES ASSUME NEW n \in Node, NEW m \in Node, CrossMeet(n, m)' PROVE TieFits(n, m)'
    BY DEF TiesFit
  <2>1. n # m /\ addr'[n].state # "DISABLED" /\ addr'[m].state # "DISABLED"
    BY DEF CrossMeet, Steady
  <2>2. /\ CrossMeet(n, m) /\ TieFits(n, m) /\ CrossMeet(m, n) /\ TieFits(m, n)
    <3>1. addr[n].state # "DISABLED" /\ addr[m].state # "DISABLED"
      BY <1>1, <1>4, <2>1
    <3>2. CrossMeet(n, m)
      BY <1>1, <1>3, <3>1, CrossMeetBefore
    <3>3. CrossMeet(m, n)
      BY <3>2 DEF CrossMeet, Crossed, Overlapping, Overlap
    <3> QED
      BY <3>2, <3>3 DEF Lossless, TiesFit
  <2>3. fresh \subseteq fresh' /\ tied \subseteq tied' /\ k \in fresh'
    BY <1>1
  <2>4. CASE n = k
    <3>1. addr'[m] = addr[m] /\ addr'[n].immediately = TRUE
      BY <1>1, <1>4, <2>1, <2>4
    <3>2. addr[m].state = "RESERVED" => {n, m} \in tied'
      <4> SUFFICES ASSUME addr[m].state = "RESERVED" PROVE {n, m} \in tied'
        OBVIOUS
      <4>1. m \in fresh
        BY <1>1, <1>2, <2>2, <2>4 DEF TieFits
      <4> QED
        BY <1>1, <2>4, <4>1
    <3> QED
      BY <2>3, <2>4, <3>1, <3>2 DEF TieFits
  <2>5. CASE m = k
    <3>1. addr'[n] = addr[n] /\ addr'[m].state = "RESERVED"
      BY <1>1, <1>4, <2>1, <2>5
    <3>2. addr[n].state = "RESERVED" => {n, m} \in tied'
      <4> SUFFICES ASSUME addr[n].state = "RESERVED" PROVE {n, m} \in tied'
        OBVIOUS
      <4>1. n \in fresh
        BY <1>1, <1>2, <2>2, <2>5 DEF TieFits
      <4>2. {k, n} = {n, m}
        BY <2>5
      <4> QED
        BY <1>1, <4>1, <4>2
    <3> QED
      BY <3>1, <3>2 DEF TieFits
  <2>6. CASE n # k /\ m # k
    BY <1>1, <1>3, <1>4, <2>3, <2>6, TieStays DEF Lossless
  <2> QED
    BY <2>4, <2>5, <2>6
<1> QED
  BY <1>7, <1>8, <1>9, <1>10 DEF Lossless

\* Who has reserved may say so to whoever wants the same: it is still probing.
LEMMA MayTell ==
  ASSUME Phases, Lossless, ProbingOutlasts, NEW k \in Node, NEW m \in Node, k # m,
         addr[k].state = "RESERVED", ~slow[k], Steady(m), Overlapping(k, m), ~Crossed(k, m)
  PROVE  addr[m].state = "PROBING" /\ ~CanReserve(addr[m])
<1>1. /\ addr[k] \in Allocation /\ addr[m] \in Allocation
      /\ addr[m].state \in {"DISABLED", "PROBING", "RESERVED"}
      /\ addr[m].probes \in 0 .. ProbeRetransmits
  BY AllocationIs DEF Phases, TypeOK
<1>2. ProbeRetransmits \in Nat /\ ProbeRetransmits >= 2
  BY ProbesTwice
<1>3. addr[m].probes = ProbeRetransmits => ~CanReserve(addr[m])
  BY <1>2 DEF CanReserve
<1>4. Overlapping(m, k) /\ Steady(k)
  BY DEF Overlapping, Overlap, Steady
<1>5. CASE Keeps(k, m)
  <2>1. PairFits(k, m)
    BY <1>4, <1>5 DEF Lossless, PairsFit, Meet, Crossed
  <2> QED
    BY <1>1, <1>3, <2>1 DEF PairFits, Steady
<1>6. CASE Keeps(m, k)
  <2>1. PairFits(m, k)
    BY <1>4, <1>6 DEF Lossless, PairsFit, Meet, Crossed
  <2>2. addr[m].state = "PROBING"
    BY <1>1, <2>1 DEF PairFits, Steady
  <2>3. addr[m].probes = ProbeRetransmits \/ Probed(m, k) \/ Told(k, m)
    BY <2>1, <2>2 DEF PairFits
  <2>4. CASE addr[m].probes # ProbeRetransmits /\ Probed(m, k)
    <3>1. ~Due(addr[m])
      BY <1>1, <1>2, <2>2, <2>4 DEF Lossless, ProbersWait
    <3> QED
      BY <2>2, <3>1 DEF CanReserve
  <2>5. CASE Told(k, m)
    BY <2>5 DEF Lossless, ToldWait
  <2> QED
    BY <1>3, <2>2, <2>3, <2>4, <2>5
<1> QED
  BY <1>5, <1>6, KeepsOne

LEMMA AnnounceLossless ==
  ASSUME Phases, Lossless, ProbingOutlasts, NEW k \in Node, Announce(k)
  PROVE  Lossless'
<1> DEFINE p == [type |-> "ANNOUNCE", src |-> k, base |-> addr[k].base, count |-> addr[k].range]
<1>1. /\ OnlyAt(k) /\ Broadcast(k, "ANNOUNCE") /\ UNCHANGED <<slow, fresh, tied>>
      /\ addr[k].state = "RESERVED" /\ addr'[k].state = "RESERVED"
      /\ addr'[k].base = addr[k].base /\ addr'[k].range = addr[k].range
  BY AnnounceIs DEF Phases
<1>2. Way(k)' = Way(k) /\ \A m \in Node \ {k} : Way(m)' = Way(m) \union {p}
  BY <1>1, BroadcastIs DEF Phases
<1>3. p.src = k /\ p.type = "ANNOUNCE" /\ p.base = addr[k].base /\ p.count = addr[k].range
  OBVIOUS
<1> HIDE DEF p
<1>4. \A j \in Node \ {k} : addr'[j] = addr[j]
  BY <1>1 DEF OnlyAt
<1>5. \A n \in Node : SameRange(n) /\ Way(n) \subseteq Way(n)'
  BY <1>1, <1>2, <1>4 DEF SameRange
<1>6. \A n, m \in Node : Probed(n, m)' => Probed(n, m)
  <2> SUFFICES ASSUME NEW n \in Node, NEW m \in Node, Probed(n, m)' PROVE Probed(n, m)
    OBVIOUS
  <2>1. \A q \in Way(m)' : q \in Way(m) \/ q.type # "PROBE" \/ q.src # n
    BY <1>2, <1>3
  <2> QED
    BY <1>5, <2>1, ProbedBefore
<1>7. ProbersWait'
  <2> SUFFICES ASSUME NEW n \in Node, NEW m \in Node, addr'[n].state = "PROBING",
                      addr'[n].probes < ProbeRetransmits, Probed(n, m)'
               PROVE  ~Due(addr'[n])
    BY DEF ProbersWait, Due
  <2>1. n # k
    BY <1>1
  <2> QED
    BY <1>4, <1>6, <2>1 DEF Lossless, ProbersWait
<1>8. ToldWait'
  <2> SUFFICES ASSUME NEW n \in Node, NEW m \in Node, ~slow'[n], Steady(m)', ~Crossed(n, m),
                      Told(n, m)'
               PROVE  addr'[m].state = "PROBING" /\ ~CanReserve(addr'[m])
    BY DEF ToldWait, CanReserve, Due, Crossed, Keeps
  <2>1. Steady(m) /\ ~slow[n]
    BY <1>1, <1>4 DEF Steady
  <2>2. addr[m].state = "PROBING" /\ ~CanReserve(addr[m])
    <3>1. CASE Told(n, m)
      BY <2>1, <3>1 DEF Lossless, ToldWait
    <3>2. CASE ~Told(n, m)
      <4>1. PICK q \in Way(m)' : q \notin Way(m) /\ q.type # "PROBE" /\ q.src = n
                                 /\ Conflict(addr'[m], q.base, q.count)
        BY <1>5, <3>2 DEF Told, SameRange, Conflict
      <4>2. q = p /\ n = k /\ m # k
        BY <1>2, <1>3, <4>1
      <4>3. Conflict(addr[m], addr[k].base, addr[k].range)
        BY <1>3, <1>5, <4>1, <4>2 DEF SameRange, Conflict
      <4>4. Overlapping(k, m)
        <5>1. /\ addr[k].base \in Nat /\ addr[k].range \in Nat
              /\ addr[m].base \in Nat /\ addr[m].range \in Nat
          BY AllocationIs DEF Phases, TypeOK
        <5>2. addr[k].range > 0 /\ addr[m].range > 0
          BY <1>1, <2>1, Sizes DEF Phases, PhasesFit, Fits, Steady
        <5> QED
          BY <4>3, <5>1, <5>2 DEF Overlapping, Overlap, Conflict
      <4> QED
        BY <1>1, <2>1, <4>2, <4>4, MayTell
    <3> QED
      BY <3>1, <3>2
  <2>3. m # k
    BY <1>1, <2>2
  <2> QED
    BY <1>4, <2>2, <2>3
<1>9. PairsFit'
  <2> SUFFICES ASSUME NEW n \in Node, NEW m \in Node, Meet(n, m)' PROVE PairFits(n, m)'
    BY DEF PairsFit
  <2>1. n # m /\ addr'[n].state # "DISABLED" /\ addr'[m].state # "DISABLED"
    BY DEF Meet, Steady
  <2>2. Meet(n, m) /\ PairFits(n, m)
    <3>1. addr[n].state # "DISABLED" /\ addr[m].state # "DISABLED"
      BY <1>1, <1>4, <2>1
    <3>2. Meet(n, m)
      BY <1>1, <1>5, <3>1, MeetBefore
    <3> QED
      BY <3>2 DEF Lossless, PairsFit
  <2>3. /\ (Probed(n, m) => Probed(n, m)') /\ (Probed(m, n) => Probed(m, n)')
        /\ (Told(n, m) => Told(n, m)') /\ (Told(m, n) => Told(m, n)')
    BY <1>5, ProbedStays, ToldStays
  <2>4. CanReserve(addr[m])' = CanReserve(addr'[m])
    BY DEF CanReserve, Due
  <2>5. CASE n = k
    <3>1. addr'[m] = addr[m]
      BY <1>4, <2>1, <2>5
    <3> QED
      BY <1>1, <2>2, <2>3, <2>4, <2>5, <3>1 DEF PairFits
  <2>6. CASE m = k
    <3>1. addr'[n] = addr[n]
      BY <1>4, <2>1, <2>6
    <3> QED
      BY <1>1, <2>2, <2>3, <2>6, <3>1 DEF PairFits
  <2>7. CASE n # k /\ m # k
    BY <1>1, <1>4, <1>5, <2>7, PairStays DEF Lossless
  <2> QED
    BY <2>5, <2>6, <2>7
<1>10. TiesFit'
  <2> SUFFICES ASSUME NEW n \in Node, NEW m \in Node, CrossMeet(n, m)' PROVE TieFits(n, m)'
    BY DEF TiesFit
  <2>1. n # m /\ addr'[n].state # "DISABLED" /\ addr'[m].state # "DISABLED"
    BY DEF CrossMeet, Steady
  <2>2. CrossMeet(n, m) /\ TieFits(n, m)
    <3>1. addr[n].state # "DISABLED" /\ addr[m].state # "DISABLED"
      BY <1>1, <1>4, <2>1
    <3>2. CrossMeet(n, m)
      BY <1>1, <1>5, <3>1, CrossMeetBefore
    <3> QED
      BY <3>2 DEF Lossless, TiesFit
  <2>3. CASE n = k
    <3>1. addr'[m] = addr[m] /\ m \in Node \ {k}
      BY <1>4, <2>1, <2>3
    <3>2. Told(n, m)'
      <4>1. Conflict(addr[m], addr[k].base, addr[k].range)
        BY <1>1, <2>2, <2>3, OverlapConflicts DEF CrossMeet, Steady
      <4>2. p \in Way(m)'
        BY <1>2, <3>1
      <4> QED
        BY <1>3, <2>3, <3>1, <4>1, <4>2 DEF Told
    <3>3. CanReserve(addr[m])' <=> CanReserve(addr[m])
      BY <3>1 DEF CanReserve, Due
    <3> QED
      BY <1>1, <2>2, <2>3, <3>1, <3>2, <3>3 DEF TieFits
  <2>4. CASE m = k
    <3>1. addr'[n] = addr[n]
      BY <1>4, <2>1, <2>4
    <3> QED
      BY <1>1, <2>2, <2>4, <3>1 DEF TieFits
  <2>5. CASE n # k /\ m # k
    BY <1>1, <1>4, <1>5, <2>5, TieStays DEF Lossless
  <2> QED
    BY <2>3, <2>4, <2>5
<1> QED
  BY <1>7, <1>8, <1>9, <1>10 DEF Lossless

LEMMA RelinquishLossless ==
  ASSUME Phases, Lossless, NEW k \in Node, RelinquishAddresses(k)
  PROVE  Lossless'
<1>1. OnlyAt(k) /\ UNCHANGED <<slow, net, fresh, tied>> /\ addr'[k].state = "DISABLED"
  BY RelinquishIs DEF Phases
<1>2. \A j \in Node \ {k} : addr'[j] = addr[j] /\ SameRange(j)
  BY <1>1 DEF OnlyAt, SameRange
<1>3. \A j \in Node : Way(j)' = Way(j)
  BY <1>1 DEF Way
<1>4. ProbersWait'
  <2> SUFFICES ASSUME NEW n \in Node, NEW m \in Node, addr'[n].state = "PROBING",
                      addr'[n].probes < ProbeRetransmits, Probed(n, m)'
               PROVE  ~Due(addr'[n])
    BY DEF ProbersWait, Due
  <2>1. n # k
    BY <1>1
  <2>2. Probed(n, m)
    BY <1>2, <1>3, <2>1, ProbedBefore
  <2> QED
    BY <1>2, <2>1, <2>2 DEF Lossless, ProbersWait
<1>5. ToldWait'
  <2> SUFFICES ASSUME NEW n \in Node, NEW m \in Node, ~slow'[n], Steady(m)', ~Crossed(n, m),
                      Told(n, m)'
               PROVE  addr'[m].state = "PROBING" /\ ~CanReserve(addr'[m])
    BY DEF ToldWait, CanReserve, Due, Crossed, Keeps
  <2>1. m # k
    BY <1>1 DEF Steady
  <2>2. Told(n, m)
    BY <1>2, <1>3, <2>1, ToldBefore
  <2> QED
    BY <1>1, <1>2, <2>1, <2>2 DEF Lossless, ToldWait, Steady
<1>6. PairsFit'
  <2> SUFFICES ASSUME NEW n \in Node, NEW m \in Node, Meet(n, m)' PROVE PairFits(n, m)'
    BY DEF PairsFit
  <2>1. n # k /\ m # k
    BY <1>1 DEF Meet, Steady
  <2> QED
    BY <1>1, <1>2, <1>3, <2>1, PairStays DEF Lossless
<1>7. TiesFit'
  <2> SUFFICES ASSUME NEW n \in Node, NEW m \in Node, CrossMeet(n, m)' PROVE TieFits(n, m)'
    BY DEF TiesFit
  <2>1. n # k /\ m # k
    BY <1>1 DEF CrossMeet, Steady
  <2> QED
    BY <1>1, <1>2, <1>3, <2>1, TieStays DEF Lossless
<1> QED
  BY <1>4, <1>5, <1>6, <1>7 DEF Lossless

\* A node that answers a probe of what it has reserved.
LEMMA DefendLossless ==
  ASSUME Phases, Lossless, ProbingOutlasts, NEW k \in Node, NEW p \in Pdu, NEW d \in Pdu,
         UNCHANGED <<addr, slow, fresh, tied>>, p.src \in Node \ {k}, Defends(k, p),
         d.type = "DEFEND", d.src = k,
         d.base = ConflictRange(addr[k], p.base, p.count).base,
         d.count = ConflictRange(addr[k], p.base, p.count).count,
         Way(k) = Way(k)' \union {p},
         \A m \in Node \ {k} : Way(m)' = IF m = p.src THEN Way(m) \union {d} ELSE Way(m)
  PROVE  Lossless'
<1>1. \A n \in Node : SameRange(n) /\ addr'[n] = addr[n]
  BY DEF SameRange
<1>2. addr[k].state = "RESERVED" /\ p.type = "PROBE" /\ Conflict(addr[k], p.base, p.count)
  BY DEF Defends
<1>3. /\ \A n \in Node : addr[n] \in Allocation
      /\ \A n \in Node : addr[n].state # "DISABLED" => addr[n].range = NumAddr
      /\ p.base \in Nat /\ p.count \in Nat
  BY DEF Phases, TypeOK, PhasesFit, Fits, Pdu
<1>4. ASSUME NEW n \in Node, NEW m \in Node, Probed(n, m)' PROVE Probed(n, m)
  <2>1. \A q \in Way(m)' : q \in Way(m) \/ q.type # "PROBE" \/ q.src # n
    OBVIOUS
  <2> QED
    BY <1>1, <1>4, <2>1, ProbedBefore
<1>5. ProbersWait'
  BY <1>1, <1>4 DEF Lossless, ProbersWait, Due
<1>6. ToldWait'
  <2> SUFFICES ASSUME NEW n \in Node, NEW m \in Node, ~slow[n], Steady(m), ~Crossed(n, m),
                      Told(n, m)'
               PROVE  addr[m].state = "PROBING" /\ ~CanReserve(addr[m])
    BY DEF ToldWait, CanReserve, Due, Steady, Crossed, Keeps
  <2>1. CASE Told(n, m)
    BY <2>1 DEF Lossless, ToldWait
  <2>2. CASE ~Told(n, m)
    <3>1. PICK q \in Way(m)' : q \notin Way(m) /\ q.src = n /\ Conflict(addr'[m], q.base, q.count)
      BY <1>1, <2>2 DEF Told, SameRange, Conflict
    <3>2. q = d /\ m = p.src /\ n = k /\ m # k
      BY <3>1
    <3>3. Conflict(addr[m], d.base, d.count)
      BY <1>1, <3>1, <3>2
    <3>4. addr[m].range = NumAddr /\ addr[k].range = NumAddr
      BY <1>2, <1>3 DEF Steady
    <3>5. Overlapping(k, m)
      BY <1>2, <1>3, <3>3, <3>4, DefendTells DEF Overlapping
    <3> QED
      BY <1>2, <3>2, <3>5, MayTell
  <2> QED
    BY <2>1, <2>2
<1>7. ASSUME NEW i \in Node, NEW j \in Node, Told(i, j) PROVE Told(i, j)'
  <2>1. PICK q \in Way(j) : q.type # "PROBE" /\ q.src = i /\ Conflict(addr[j], q.base, q.count)
    BY <1>7 DEF Told
  <2>2. q \in Way(j)'
    BY <1>2, <2>1
  <2> QED
    BY <1>1, <2>1, <2>2 DEF Told
<1>8. ASSUME NEW i \in Node, NEW j \in Node, Probed(i, j), addr[i].state # "DISABLED"
      PROVE  Probed(i, j)' \/ (j = k /\ Told(k, i)')
  <2>1. PICK q \in Way(j) : /\ q.type = "PROBE" /\ q.src = i /\ q.base = addr[i].base
                            /\ q.count = addr[i].range
    BY <1>8 DEF Probed
  <2>2. CASE q \in Way(j)'
    BY <1>1, <2>1, <2>2 DEF Probed
  <2>3. CASE q \notin Way(j)'
    <3>1. q = p /\ j = k /\ i = p.src /\ i # k
      BY <2>1, <2>3
    <3>2. addr[i].range = NumAddr /\ addr[k].range = NumAddr
      BY <1>2, <1>3, <1>8
    <3>3. Conflict(addr[i], d.base, d.count)
      BY <1>2, <1>3, <2>1, <3>1, <3>2, DefendTells
    <3>4. d \in Way(i)'
      BY <3>1
    <3> QED
      BY <1>1, <3>1, <3>3, <3>4 DEF Told
  <2> QED
    BY <2>2, <2>3
<1>9. PairsFit'
  <2> SUFFICES ASSUME NEW n \in Node, NEW m \in Node, Meet(n, m) PROVE PairFits(n, m)'
    BY DEF PairsFit, Meet, Steady, Overlapping, Keeps
  <2>1. PairFits(n, m) /\ n # m /\ addr[n].state # "DISABLED" /\ addr[m].state # "DISABLED"
    BY DEF Lossless, PairsFit, Meet, Steady
  <2>4. CASE addr[n].state = "PROBING" /\ addr[m].state = "PROBING"
    <3>1. m # k
      BY <1>2, <2>4
    <3>2. Probed(n, m) => Probed(n, m)'
      BY <2>1, <1>8, <3>1
    <3> QED
      BY <2>1, <2>4, <3>2 DEF PairFits, TimeToReserve, Interval
  <2>5. CASE addr[n].state = "PROBING" /\ addr[m].state = "RESERVED"
    <3>1. Probed(n, m) => Probed(n, m)' \/ Told(m, n)'
      BY <2>1, <1>8
    <3>2. Told(m, n) => Told(m, n)'
      BY <1>7
    <3> QED
      BY <2>1, <2>5, <3>1, <3>2 DEF PairFits
  <2>6. CASE addr[n].state = "RESERVED" /\ addr[m].state = "PROBING"
    <3>1. Probed(m, n) => Probed(m, n)' \/ Told(n, m)'
      BY <2>1, <1>8
    <3>2. (Told(n, m) => Told(n, m)') /\ (Probed(n, m) => Probed(n, m)')
      BY <1>2, <2>1, <1>7, <1>8, <2>6
    <3> QED
      BY <2>1, <2>6, <3>1, <3>2 DEF PairFits, CanReserve, Due
  <2>7. ~(addr[n].state = "RESERVED" /\ addr[m].state = "RESERVED")
    BY <2>1 DEF PairFits
  <2>8. /\ addr[n].state \in {"DISABLED", "PROBING", "RESERVED"}
        /\ addr[m].state \in {"DISABLED", "PROBING", "RESERVED"}
    BY <1>3, AllocationIs
  <2> QED
    BY <2>1, <2>4, <2>5, <2>6, <2>7, <2>8
<1>10. TiesFit'
  <2> SUFFICES ASSUME NEW n \in Node, NEW m \in Node, CrossMeet(n, m) PROVE TieFits(n, m)'
    BY DEF TiesFit, CrossMeet, Steady, Overlapping, Crossed, Keeps
  <2>1. TieFits(n, m) /\ addr[m].state # "DISABLED"
    BY DEF Lossless, TiesFit, CrossMeet, Steady
  <2>2. Probed(m, n) => Probed(m, n)' \/ Told(n, m)'
    BY <2>1, <1>8
  <2>3. Told(n, m) => Told(n, m)'
    BY <1>7
  <2>4. CanReserve(addr[m])' <=> CanReserve(addr[m])
    BY DEF CanReserve, Due
  <2> QED
    BY <2>1, <2>2, <2>3, <2>4 DEF TieFits
<1> QED
  BY <1>5, <1>6, <1>9, <1>10 DEF Lossless

\* A node that reads what does not concern it, or what it need not answer.
LEMMA IgnoreLossless ==
  ASSUME Phases, Lossless, NEW k \in Node, NEW p \in Pdu,
         UNCHANGED <<addr, slow, fresh, tied>>, ~Yields(k, p), ~Defends(k, p),
         Way(k) = Way(k)' \union {p}, \A m \in Node \ {k} : Way(m)' = Way(m)
  PROVE  Lossless'
<1>1. \A n \in Node : SameRange(n) /\ addr'[n] = addr[n]
  BY DEF SameRange
<1>2. \A n \in Node : Way(n)' \subseteq Way(n)
  OBVIOUS
<1>3. \A n, m \in Node : (Probed(n, m)' => Probed(n, m)) /\ (Told(n, m)' => Told(n, m))
  BY <1>1, <1>2, ProbedBefore, ToldBefore
<1>4. ProbersWait'
  BY <1>1, <1>3 DEF Lossless, ProbersWait, Due
<1>5. ToldWait'
  BY <1>1, <1>3 DEF Lossless, ToldWait, CanReserve, Due, Steady, Crossed, Keeps
<1>6. ASSUME NEW m \in Node, NEW n \in Node, Probed(m, n), addr[n].state = "RESERVED",
             Conflict(addr[n], addr[m].base, addr[m].range)
      PROVE  Probed(m, n)'
  <2>1. PICK q \in Way(n) : /\ q.type = "PROBE" /\ q.src = m /\ q.base = addr[m].base
                            /\ q.count = addr[m].range
    BY <1>6 DEF Probed
  <2>2. q \in Way(n)'
    <3> SUFFICES ASSUME q \notin Way(n)' PROVE FALSE
      OBVIOUS
    <3>1. q = p /\ n = k
      BY <2>1
    <3> QED
      BY <1>6, <2>1, <3>1 DEF Defends
  <2> QED
    BY <1>1, <2>1, <2>2 DEF Probed
<1>7. ASSUME NEW i \in Node, NEW j \in Node, Told(i, j), addr[j].state = "PROBING"
      PROVE  Told(i, j)'
  <2>1. PICK q \in Way(j) : q.type # "PROBE" /\ q.src = i /\ Conflict(addr[j], q.base, q.count)
    BY <1>7 DEF Told
  <2>2. q \in Way(j)'
    <3> SUFFICES ASSUME q \notin Way(j)' PROVE FALSE
      OBVIOUS
    <3>1. q = p /\ j = k
      BY <2>1
    <3> QED
      BY <1>7, <2>1, <3>1 DEF Yields
  <2> QED
    BY <1>1, <2>1, <2>2 DEF Told
<1>8. PairsFit'
  <2> SUFFICES ASSUME NEW n \in Node, NEW m \in Node, Meet(n, m) PROVE PairFits(n, m)'
    BY DEF PairsFit, Meet, Steady, Overlapping, Keeps
  <2>1. /\ PairFits(n, m) /\ n # m /\ addr[n].state # "DISABLED" /\ addr[m].state # "DISABLED"
        /\ Keeps(n, m) /\ ~Keeps(m, n) /\ Overlapping(n, m)
    BY DEF Lossless, PairsFit, Meet, Steady
  <2>2. /\ Conflict(addr[m], addr[n].base, addr[n].range)
        /\ Conflict(addr[n], addr[m].base, addr[m].range)
    <3>1. Overlapping(m, n)
      BY <2>1, OverlapConflicts
    <3> QED
      BY <2>1, <3>1, OverlapConflicts
  <2>3. ASSUME Probed(n, m) PROVE Probed(n, m)'
    <3>1. PICK q \in Way(m) : /\ q.type = "PROBE" /\ q.src = n /\ q.base = addr[n].base
                              /\ q.count = addr[n].range
      BY <2>3 DEF Probed
    <3>2. q \in Way(m)'
      <4> SUFFICES ASSUME q \notin Way(m)' PROVE FALSE
        OBVIOUS
      <4>1. q = p /\ m = k
        BY <3>1
      <4>2. Conflict(addr[k], p.base, p.count) /\ p.type = "PROBE" /\ ~Keeps(k, p.src)
        BY <2>1, <2>2, <3>1, <4>1
      <4>3. addr[k].state \in {"PROBING", "RESERVED"}
        BY <2>1, <4>1, AllocationIs DEF Phases, TypeOK
      <4> QED
        BY <4>2, <4>3 DEF Yields, Defends
    <3> QED
      BY <1>1, <3>1, <3>2 DEF Probed
  <2>4. addr[n].state = "RESERVED" /\ Probed(m, n) => Probed(m, n)'
    BY <1>6, <2>2
  <2>5. /\ addr[m].state = "PROBING" /\ Told(n, m) => Told(n, m)'
        /\ addr[n].state = "PROBING" /\ Told(m, n) => Told(m, n)'
    BY <1>7
  <2>6. Told(m, n) => Told(m, n)' \/ addr[n].state # "PROBING"
    BY <2>5
  <2> QED
    BY <2>1, <2>3, <2>4, <2>5, <2>6 DEF PairFits, TimeToReserve, Interval, CanReserve, Due
<1>9. TiesFit'
  <2> SUFFICES ASSUME NEW n \in Node, NEW m \in Node, CrossMeet(n, m) PROVE TieFits(n, m)'
    BY DEF TiesFit, CrossMeet, Steady, Overlapping, Crossed, Keeps
  <2>1. /\ TieFits(n, m) /\ addr[n].state # "DISABLED" /\ addr[m].state # "DISABLED"
        /\ Overlapping(n, m)
    BY DEF Lossless, TiesFit, CrossMeet, Steady
  <2>2. Conflict(addr[n], addr[m].base, addr[m].range)
    <3>1. Overlapping(m, n)
      BY <2>1, OverlapConflicts
    <3> QED
      BY <2>1, <3>1, OverlapConflicts
  <2>3. addr[n].state = "RESERVED" /\ Probed(m, n) => Probed(m, n)'
    BY <1>6, <2>2
  <2>4. addr[m].state = "PROBING" /\ Told(n, m) => Told(n, m)'
    BY <1>7
  <2>5. CanReserve(addr[m])' <=> CanReserve(addr[m])
    BY DEF CanReserve, Due
  <2> QED
    BY <2>1, <2>3, <2>4, <2>5 DEF TieFits
<1> QED
  BY <1>4, <1>5, <1>8, <1>9 DEF Lossless

LEMMA TickLossless ==
  ASSUME Phases, Lossless, Tick
  PROVE  Lossless'
<1>1. /\ UNCHANGED <<slow, net, tied>> /\ \A m \in Node : Way(m) = {}
      /\ \A j \in Node :
           LET x == addr[j]
               y == addr'[j]
           IN  /\ y.state = x.state /\ y.base = x.base /\ y.range = x.range
               /\ y.probes = x.probes /\ y.immediately = x.immediately /\ y.mult = x.mult
               /\ x.state # "DISABLED" => /\ ~x.immediately /\ x.timer > 0
                                          /\ y.timer = x.timer - 1
  BY TickIs DEF Phases
<1>2. \A m \in Node : Way(m)' = {}
  BY <1>1 DEF Way
<1>3. \A n, m \in Node : ~Probed(n, m)' /\ ~Told(n, m)' /\ ~Probed(n, m) /\ ~Told(n, m)
  BY <1>1, <1>2 DEF Probed, Told
<1>4. ProbersWait' /\ ToldWait'
  BY <1>3 DEF ProbersWait, ToldWait
<1>5. PairsFit'
  <2> SUFFICES ASSUME NEW n \in Node, NEW m \in Node, Meet(n, m)' PROVE PairFits(n, m)'
    BY DEF PairsFit
  <2>1. SameRange(n) /\ SameRange(m) /\ addr[n].state # "DISABLED" /\ addr[m].state # "DISABLED"
    BY <1>1 DEF SameRange, Meet, Steady
  <2>2. Meet(n, m) /\ PairFits(n, m)
    <3>1. Meet(n, m)
      BY <1>1, <2>1, MeetBefore
    <3> QED
      BY <3>1 DEF Lossless, PairsFit
  <2> DEFINE x == addr[n]
             y == addr[m]
  <2>3. /\ x \in Allocation /\ y \in Allocation /\ x.timer \in Nat /\ y.timer \in Nat
        /\ Fits(x, slow[n]) /\ Fits(y, slow[m]) /\ ~x.immediately /\ ~y.immediately
        /\ addr'[n].state = x.state /\ addr'[m].state = y.state
        /\ addr'[n].timer = x.timer - 1 /\ addr'[m].timer = y.timer - 1
        /\ addr'[m].probes = y.probes /\ addr'[m].base = y.base /\ addr'[m].mult = y.mult
        /\ ~addr'[m].immediately
    BY <1>1, <2>1, AllocationIs DEF Phases, TypeOK, PhasesFit
  <2>4. /\ x.state = "PROBING" => x.probes # ProbeRetransmits
        /\ y.state = "PROBING" => y.probes # ProbeRetransmits
    BY <2>3 DEF Fits
  <2>5. x.state = "PROBING" /\ y.state = "PROBING" => TimeToReserve(y) > x.timer
    BY <1>3, <2>2, <2>4 DEF PairFits
  <2>6. TimeToReserve(addr'[m]) = TimeToReserve(y) - 1 /\ TimeToReserve(y) \in Int
    <3> DEFINE i == (y.probes - 1) * Interval(y)
    <3>1. Interval(y) \in Int /\ y.probes \in Int
      <4>1. y.mult \in {1, AnnounceMultiplier} /\ y.base \in Offset /\ y.probes \in Int
        BY <2>3, AllocationIs
      <4>2. y.mult * ProbeInterval(y.base) \in 1 .. MaxTimer
        BY <4>1, TimersFit
      <4> QED
        BY <4>1, <4>2, MaxTimerIs DEF Interval
    <3>2. i \in Int
      <4> DEFINE a == y.probes - 1
                 b == Interval(y)
      <4>1. a \in Int /\ b \in Int
        BY <3>1
      <4> HIDE DEF a, b
      <4>2. a * b \in Int
        BY <4>1
      <4> QED
        BY <4>2 DEF a, b
    <3>3. TimeToReserve(y) = i + y.timer
      BY <2>3 DEF TimeToReserve
    <3>4. TimeToReserve(addr'[m]) = i + (y.timer - 1)
      BY <2>3 DEF TimeToReserve, Interval
    <3> HIDE DEF i
    <3> QED
      BY <2>3, <3>2, <3>3, <3>4
  <2>7. TimeToReserve(addr[m])' = TimeToReserve(addr'[m])
    BY DEF TimeToReserve, Interval
  <2>8. x.state = "PROBING" /\ y.state = "PROBING" => TimeToReserve(addr[m])' > addr'[n].timer
    BY <2>3, <2>5, <2>6, <2>7
  <2>9. /\ ~(x.state = "RESERVED" /\ y.state = "RESERVED")
        /\ ~(x.state = "PROBING" /\ y.state = "RESERVED")
        /\ ~(x.state = "RESERVED" /\ y.state = "PROBING")
    BY <1>3, <2>2, <2>4 DEF PairFits
  <2> QED
    BY <2>3, <2>8, <2>9 DEF PairFits
<1>6. TiesFit'
  <2> SUFFICES ASSUME NEW n \in Node, NEW m \in Node, CrossMeet(n, m)' PROVE TieFits(n, m)'
    BY DEF TiesFit
  <2>1. SameRange(n) /\ SameRange(m) /\ addr[n].state # "DISABLED" /\ addr[m].state # "DISABLED"
    BY <1>1 DEF SameRange, CrossMeet, Steady
  <2>2. CrossMeet(n, m) /\ TieFits(n, m)
    <3>1. CrossMeet(n, m)
      BY <1>1, <2>1, CrossMeetBefore
    <3> QED
      BY <3>1 DEF Lossless, TiesFit
  <2>3. addr[m].state = "PROBING" => addr[m].probes # ProbeRetransmits
    BY <1>1, <2>1 DEF Phases, PhasesFit, Fits
  <2>4. ~addr[n].immediately
    BY <1>1, <2>1
  <2>5. ~(addr[n].state = "RESERVED" /\ addr[m].state = "PROBING")
    BY <1>3, <2>2, <2>3, <2>4 DEF TieFits
  <2> QED
    BY <1>1, <2>2, <2>5 DEF TieFits
<1> QED
  BY <1>4, <1>5, <1>6 DEF Lossless

-----------------------------------------------------------------------------
LEMMA ReceiveLossless ==
  ASSUME Phases, Lossless, Phases', ProbingOutlasts, NEW k \in Node, Receive(k)
  PROVE  Lossless'
<1> DEFINE p == Head(net[k])
           c == ConflictRange(addr[k], p.base, p.count)
           d == [type |-> "DEFEND", src |-> k, base |-> c.base, count |-> c.count]
<1>1. /\ p \in Pdu /\ p.src \in Node \ {k} /\ Way(k) = Way(k)' \union {p}
      /\ net' \in [Node -> Seq(Pdu)] /\ UNCHANGED <<fresh, tied>>
      /\ \/ /\ Yields(k, p) /\ Request(k, NumAddr)
            /\ \A m \in Node \ {k} : Way(m)' = Way(m)
         \/ /\ Defends(k, p) /\ UNCHANGED <<addr, slow>>
            /\ \A m \in Node \ {k} :
                 Way(m)' = IF m = p.src THEN Way(m) \union {d} ELSE Way(m)
         \/ /\ ~Yields(k, p) /\ ~Defends(k, p) /\ UNCHANGED <<addr, slow>>
            /\ \A m \in Node \ {k} : Way(m)' = Way(m)
  BY ReceiveIs DEF Phases
<1>2. CASE Request(k, NumAddr) /\ \A m \in Node \ {k} : Way(m)' = Way(m)
  <2>1. Way(k)' \subseteq Way(k)
    BY <1>1
  <2> QED
    BY <1>1, <1>2, <2>1, RequestLossless
<1>3. CASE /\ Defends(k, p) /\ UNCHANGED <<addr, slow>>
           /\ \A m \in Node \ {k} :
                Way(m)' = IF m = p.src THEN Way(m) \union {d} ELSE Way(m)
  <2>1. d.type = "DEFEND" /\ d.src = k /\ d.base = c.base /\ d.count = c.count
    OBVIOUS
  <2>2. d \in Pdu
    <3>1. p.src \in Node \ {k}
      BY <1>1
    <3>2. \A m \in Node : \A i \in 1 .. Len(net'[m]) : net'[m][i] \in Pdu
      BY <1>1, ElementOfSeq
    <3>3. \A m \in Node : \A q \in Way(m)' : q \in Pdu
      BY <3>2 DEF Way, Elements
    <3>4. \A m \in Node \ {k} : m = p.src => d \in Way(m)'
      <4> HIDE DEF d
      <4> QED
        BY <1>3
    <3> HIDE DEF d, p
    <3> QED
      BY <3>1, <3>3, <3>4
  <2> HIDE DEF d, c
  <2>3. /\ d.base = ConflictRange(addr[k], p.base, p.count).base
        /\ d.count = ConflictRange(addr[k], p.base, p.count).count
    BY <2>1 DEF c
  <2> QED
    BY <1>1, <1>3, <2>1, <2>2, <2>3, DefendLossless
<1>4. CASE /\ ~Yields(k, p) /\ ~Defends(k, p) /\ UNCHANGED <<addr, slow>>
           /\ \A m \in Node \ {k} : Way(m)' = Way(m)
  BY <1>1, <1>4, IgnoreLossless
<1> QED
  BY <1>1, <1>2, <1>3, <1>4

LEMMA LosslessStep ==
  ASSUME Phases, Phases', losses = 0 => Lossless, ProbingOutlasts, [Next]_vars
  PROVE  losses' = 0 => Lossless'
<1> SUFFICES ASSUME losses' = 0 PROVE Lossless'
  OBVIOUS
<1>1. ASSUME NEW k \in Node, RequestAddresses(k) PROVE Lossless'
  <2>1. Lossless /\ Request(k, NumAddr) /\ UNCHANGED <<net, fresh, tied>>
    BY <1>1 DEF RequestAddresses
  <2> QED
    BY <2>1, RequestLossless DEF Way
<1>2. ASSUME NEW k \in Node, RerequestAddresses(k) PROVE Lossless'
  <2>1. addr[k].range = NumAddr
    BY <1>2 DEF RerequestAddresses, Phases, PhasesFit, Fits
  <2>2. Lossless /\ Request(k, NumAddr) /\ UNCHANGED <<net, fresh, tied>>
    BY <1>2, <2>1 DEF RerequestAddresses
  <2> QED
    BY <2>2, RequestLossless DEF Way
<1>3. ASSUME NEW k \in Node, RelinquishAddresses(k) PROVE Lossless'
  <2>1. Lossless
    BY <1>3 DEF RelinquishAddresses
  <2> QED
    BY <1>3, <2>1, RelinquishLossless
<1>4. ASSUME NEW k \in Node, Probe(k) PROVE Lossless'
  <2>1. Lossless
    BY <1>4 DEF Probe
  <2> QED
    BY <1>4, <2>1, ProbeLossless
<1>5. ASSUME NEW k \in Node, Reserve(k) PROVE Lossless'
  <2>1. Lossless
    BY <1>5 DEF Reserve
  <2> QED
    BY <1>5, <2>1, ReserveLossless
<1>6. ASSUME NEW k \in Node, Announce(k) PROVE Lossless'
  <2>1. Lossless
    BY <1>6 DEF Announce
  <2> QED
    BY <1>6, <2>1, AnnounceLossless
<1>7. ASSUME NEW k \in Node, Receive(k) PROVE Lossless'
  <2>1. Lossless
    BY <1>7 DEF Receive
  <2> QED
    BY <1>7, <2>1, ReceiveLossless
<1>8. ASSUME NEW k \in Node, Lose(k) PROVE Lossless'
  BY <1>8, LoseIs DEF Phases
<1>9. ASSUME Tick PROVE Lossless'
  <2>1. Lossless
    BY <1>9 DEF Tick
  <2> QED
    BY <1>9, <2>1, TickLossless
<1>10. CASE UNCHANGED vars
  <2>1. Lossless /\ UNCHANGED <<addr, net, slow, fresh, tied>>
    BY <1>10 DEF vars
  <2>2. ProbersWait'
    BY <2>1 DEF Lossless, ProbersWait, Probed, Way, Due
  <2>3. ToldWait'
    BY <2>1 DEF Lossless, ToldWait, Told, Way, Steady, Crossed, Keeps, CanReserve, Due
  <2>4. PairsFit'
    <3> SUFFICES ASSUME NEW n \in Node, NEW m \in Node, Meet(n, m)' PROVE PairFits(n, m)'
      BY DEF PairsFit
    <3> QED
      BY <2>1, PairStays DEF Lossless, Way
  <2>5. TiesFit'
    <3> SUFFICES ASSUME NEW n \in Node, NEW m \in Node, CrossMeet(n, m)' PROVE TieFits(n, m)'
      BY DEF TiesFit
    <3> QED
      BY <2>1, TieStays DEF Lossless, Way
  <2> QED
    BY <2>2, <2>3, <2>4, <2>5 DEF Lossless
<1> QED
  BY <1>1, <1>2, <1>3, <1>4, <1>5, <1>6, <1>7, <1>8, <1>9, <1>10 DEF Next

LEMMA InitLossless == Init => Lossless
<1> SUFFICES ASSUME Init PROVE Lossless
  OBVIOUS
<1>1. \A n \in Node : addr[n].state = "DISABLED"
  BY DEF Init
<1>2. \A n \in Node : Way(n) = {}
  BY EmptyElements DEF Init, Way
<1> QED
  BY <1>1, <1>2 DEF Lossless, ProbersWait, ToldWait, PairsFit, TiesFit, Meet, CrossMeet, Steady,
                    Probed, Told

\* Whatever the network does, and whatever the MAC addresses, a timer never
\* runs past its longest interval and a range stays one of the pool's
\* (avb_1722_maap_periodic, start_timer).
THEOREM TypeIsInvariant == Spec => []TypeOK
<1>1. Init => Phases
  BY InitFits
<1>2. Phases /\ [Next]_vars => Phases'
  BY PhasesStep
<1>3. Phases => TypeOK
  BY DEF Phases
<1> QED
  BY <1>1, <1>2, <1>3, PTL DEF Spec

\* The invariant about phases, probes and pairs, where the probes take long
\* enough: maap_compare_mac may answer what it likes.
THEOREM Invariance ==
  ASSUME ProbingOutlasts
  PROVE  Spec => []IInv
<1>1. Init => IInv
  BY InitFits, InitLossless DEF IInv
<1>2. IInv /\ [Next]_vars => IInv'
  BY PhasesStep, LosslessStep DEF IInv
<1> QED
  BY <1>1, <1>2, PTL DEF Spec

LEMMA DisjointNow == IInv => ReservationsAreDisjoint
<1> SUFFICES ASSUME IInv, losses = 0, NEW n \in Node, NEW m \in Node, Duplicates(n, m),
                    ~slow[n], ~slow[m], ~(Crossed(n, m) /\ {n, m} \in tied)
             PROVE  FALSE
  BY DEF ReservationsAreDisjoint
<1>1. /\ n # m /\ Steady(n) /\ Steady(m) /\ Overlapping(n, m) /\ Overlapping(m, n)
      /\ addr[n].state = "RESERVED" /\ addr[m].state = "RESERVED"
  BY DEF Duplicates, Steady, Overlapping, Overlap
<1>2. PairsFit /\ TiesFit
  BY DEF IInv, Lossless
<1>3. CASE Crossed(n, m)
  BY <1>1, <1>2, <1>3 DEF TiesFit, CrossMeet, TieFits
<1>4. CASE Keeps(n, m) /\ ~Keeps(m, n)
  BY <1>1, <1>2, <1>4 DEF PairsFit, Meet, PairFits
<1>5. CASE Keeps(m, n) /\ ~Keeps(n, m)
  BY <1>1, <1>2, <1>5 DEF PairsFit, Meet, PairFits
<1> QED
  BY <1>1, <1>3, <1>4, <1>5, KeepsOne DEF Crossed

\* On a network that loses nothing, with any number of nodes, any MAC addresses,
\* any pool and any intervals of which the probes outlast one: no two nodes hold
\* overlapping ranges, but for a node that probes again with the announces'
\* interval, and for two that maap_compare_mac both calls the lower one and that
\* sent their last probes in one tick of the clock.
THEOREM ReservationsAreAlwaysDisjoint ==
  ASSUME ProbingOutlasts
  PROVE  Spec => []ReservationsAreDisjoint
<1>1. Spec => []IInv
  BY Invariance
<1>2. IInv => ReservationsAreDisjoint
  BY DisjointNow
<1> QED
  BY <1>1, <1>2, PTL

\* A node that gives up what it reserved read an announce or a defend of the
\* same addresses, which nobody sends who has not had a reservation before.
LEMMA StableStep ==
  ASSUME IInv, [Next]_vars, losses' = 0, calls' = calls, NEW n \in Node,
         addr[n].state = "RESERVED", addr'[n].state = "PROBING"
  PROVE  slow[n] \/ slow[Head(net[n]).src]
<1>1. Phases /\ TypeOK /\ PhasesFit /\ calls \in Nat
  BY Sizes DEF IInv, Phases, TypeOK
<1>2. ASSUME NEW k \in Node, RequestAddresses(k) PROVE FALSE
  <2>1. OnlyAt(k) /\ addr[k].state = "DISABLED"
    BY <1>1, <1>2, RequestIs DEF RequestAddresses
  <2> QED
    BY <2>1 DEF OnlyAt
<1>3. ASSUME NEW k \in Node, RerequestAddresses(k) \/ RelinquishAddresses(k) PROVE FALSE
  BY <1>1, <1>3 DEF RerequestAddresses, RelinquishAddresses
<1>4. ASSUME NEW k \in Node, Probe(k) PROVE FALSE
  <2>1. addr[k].state = "PROBING" /\ addr[k].probes >= 1
    BY <1>1, <1>4 DEF Probe, PhasesFit, Fits
  <2>2. OnlyAt(k)
    BY <1>1, <1>4, <2>1, ProbeIs
  <2> QED
    BY <2>1, <2>2 DEF OnlyAt
<1>5. ASSUME NEW k \in Node, Reserve(k) \/ Announce(k) PROVE FALSE
  <2>1. OnlyAt(k) /\ addr'[k].state = "RESERVED"
    BY <1>1, <1>5, ReserveIs, AnnounceIs
  <2> QED
    BY <2>1 DEF OnlyAt
<1>6. ASSUME NEW k \in Node, Receive(k) PROVE slow[n] \/ slow[Head(net[n]).src]
  <2> DEFINE p == Head(net[k])
  <2>1. /\ p.src \in Node /\ p \in Way(k) /\ losses' = losses
        /\ addr' = addr \/ (Yields(k, p) /\ Request(k, NumAddr))
    BY <1>1, <1>6, ReceiveIs
  <2>2. Yields(k, p) /\ Request(k, NumAddr)
    BY <2>1
  <2>3. n = k
    <3>1. OnlyAt(k)
      BY <1>1, <2>2, RequestIs
    <3> QED
      BY <3>1 DEF OnlyAt
  <2>4. p.type # "PROBE" /\ Conflict(addr[k], p.base, p.count) /\ ~Crossed(p.src, k)
    BY <2>2, <2>3 DEF Yields, Crossed
  <2>5. Told(p.src, k)
    BY <2>1, <2>4 DEF Told
  <2>6. ToldWait
    BY <2>1 DEF IInv, Lossless
  <2> HIDE DEF p
  <2>7. slow[k] \/ slow[p.src]
    BY <2>1, <2>3, <2>4, <2>5, <2>6 DEF ToldWait, Steady
  <2> QED
    BY <2>3, <2>7 DEF p
<1>7. ASSUME NEW k \in Node, Lose(k) PROVE FALSE
  BY <1>1, <1>7, LoseIs
<1>8. ASSUME Tick PROVE FALSE
  BY <1>1, <1>8, TickIs
<1>9. CASE UNCHANGED vars
  BY <1>9 DEF vars
<1> QED
  BY <1>2, <1>3, <1>4, <1>5, <1>6, <1>7, <1>8, <1>9 DEF Next

\* A reservation is not taken away by whoever comes later (process_maap_packet),
\* whatever the MAC addresses.
THEOREM ReservationsAreAlwaysStable ==
  ASSUME ProbingOutlasts
  PROVE  Spec => ReservationsAreStable
<1>1. Spec => []IInv
  BY Invariance
<1>2. IInv /\ [Next]_vars =>
        [losses' = 0 /\ calls' = calls => \A n \in Node :
           addr[n].state = "RESERVED" /\ addr'[n].state = "PROBING" =>
             slow[n] \/ slow[Head(net[n]).src]]_vars
  BY StableStep
<1> QED
  BY <1>1, <1>2, PTL DEF Spec, ReservationsAreStable

=============================================================================
