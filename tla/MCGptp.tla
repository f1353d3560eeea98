------------------------------- MODULE MCGptp -------------------------------
EXTENDS Gptp
MCStation == {<<250, 2>>, <<250, 3>>, <<255, 1>>}
MCSync == <<{"announce", "sync", "followup"}, {"announce"}>>
MCPdelay == <<{"announce", "response", "responsefu"}, {"announce", "request"}>>
MCTraffic == {[to |-> MCSync, legacy |-> FALSE]} \union
             [to : {MCPdelay}, legacy : BOOLEAN]
=============================================================================
