------------------------------ MODULE MCMrpPdu -------------------------------
EXTENDS MrpPdu

\* One source, four sinks, the domain and one VLAN.
Ends == <<"s0", "k0", "k1", "k2", "k3">>
MCAttrs ==
  FlattenSeq([i \in DOMAIN Ends |-> <<[type |-> "TALKER", end |-> Ends[i]],
                                      [type |-> "LISTENER", end |-> Ends[i]]>>])
    \o <<[type |-> "DOMAIN", end |-> "port"], [type |-> "VID", end |-> "vlan"]>>
MCLocalId == [s0 |-> 7, k0 |-> 0, k1 |-> 1, k2 |-> 2, k3 |-> 3]

Info(id, dest, spec) == [id |-> id, dest |-> dest, spec |-> spec]
Stream(ids) ==
  [s0 |-> Info(ids[1], ids[1] + 10, 1), k0 |-> Info(ids[2], ids[2] + 10, 1),
   k1 |-> Info(ids[3], ids[3] + 10, 1), k2 |-> Info(ids[4], ids[4] + 10, 1),
   k3 |-> Info(ids[5], ids[5] + 10, 2), port |-> Info(0, 0, 0), vlan |-> Info(2, 0, 0)]

MCStarts == {Stream(ids) : ids \in {<<1, 2, 3, 4, 5>>, <<3, 5, 1, 4, 2>>}}
MCPatterns == {[a \in 1 .. 12 |-> (k[1] * a + k[2]) % 7] :
                 k \in {<<0, 5>>, <<1, 0>>, <<3, 2>>}}
=============================================================================
