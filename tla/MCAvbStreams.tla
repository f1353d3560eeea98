----------------------------- MODULE MCAvbStreams -----------------------------
EXTENDS AvbStreams
MCBase == [sources |-> {1, 2}, sinks |-> {}, maps |-> {{1}, {2}}, vlans |-> {2},
           ids |-> {"x"}, addresses |-> {"a"}, demo |-> TRUE]
MCScenario ==
  {[MCBase EXCEPT !.maps = {{}, {1}, {1, 2}}, !.demo = FALSE],
   [MCBase EXCEPT !.maps = {{1, 2}}, !.vlans = {2, 3}, !.sources = {1}],
   [MCBase EXCEPT !.maps = {{1}, {2}}],
   [MCBase EXCEPT !.sources = {1}, !.sinks = {1}, !.vlans = {2, 3}, !.addresses = {"a", "b"}],
   [MCBase EXCEPT !.sources = {}, !.sinks = {1, 2}, !.vlans = {3, 4}],
   [MCBase EXCEPT !.sources = {}, !.sinks = {1, 2}, !.ids = {"x", "y"}]}
==============================================================================
