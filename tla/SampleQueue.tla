----------------------------- MODULE SampleQueue -----------------------------
(***************************************************************************)
(* What a media output FIFO promises between the 1722 listener and the     *)
(* audio output: while it plays it is a bounded queue.  Every sample that  *)
(* arrives is played once and in order, unless the queue was full when it  *)
(* came; a packet becomes audible as a whole; an empty queue plays         *)
(* silence.  While it is muted it plays silence and promises nothing about *)
(* what it keeps, and with what it begins to play is up to the media       *)
(* clock, which may cut samples off its end or repeat old ones.            *)
(*                                                                         *)
(* Settling is the time of the one sample the audio thread is fetching     *)
(* while the FIFO is changed under it.                                     *)
(***************************************************************************)
EXTENDS Naturals, Sequences

CONSTANTS Sample, Silence, Capacity, PacketSize

VARIABLES mode,    \* "muted", "settling" or "live"
          queue,   \* the samples to be played
          held,    \* those of the packet being unpacked that were taken
          input,   \* those of it not looked at yet
          out      \* the sample played last, silence while the next is fetched

vars == <<mode, queue, held, input, out>>

Holds(s, max) == Len(s) <= max /\ \A i \in DOMAIN s : s[i] \in Sample

Empty == queue = <<>> /\ held = <<>> /\ input = <<>>

Init == mode \in {"muted", "live"} /\ Empty /\ out = Silence

\* An unmuted FIFO may start with anything in it.
Begin ==
  /\ mode' = "live"
  /\ Holds(queue', Capacity) /\ held' = <<>> /\ input' = <<>>

End(m) == mode' = m /\ queue' = <<>> /\ held' = <<>> /\ input' = <<>>

Start == mode = "muted" /\ Begin /\ out' = out

Stop ==
  /\ mode # "settling" /\ out' = out
  /\ \E m \in {"muted", "settling"} : End(m)

Settle ==
  /\ mode = "settling"
  /\ Begin \/ End("muted")
  /\ out' \in Sample \union {Silence}

Fetch ==
  /\ mode # "settling" /\ out' = Silence
  /\ UNCHANGED <<mode, queue, held, input>>

PlaySilence ==
  /\ mode = "muted" \/ (mode = "live" /\ queue = <<>>)
  /\ out' = Silence
  /\ UNCHANGED <<mode, queue, held, input>>

Play ==
  /\ mode = "live" /\ queue # <<>>
  /\ out' = Head(queue)
  /\ queue' = Tail(queue)
  /\ UNCHANGED <<mode, held, input>>

Arrive ==
  /\ mode = "live" /\ held = <<>> /\ input = <<>>
  /\ Holds(input', PacketSize)
  /\ UNCHANGED <<mode, queue, held, out>>

Take ==
  /\ mode = "live" /\ input # <<>>
  /\ Len(queue) + Len(held) < Capacity
  /\ held' = Append(held, Head(input))
  /\ input' = Tail(input)
  /\ UNCHANGED <<mode, queue, out>>

Drop ==
  /\ mode = "live" /\ input # <<>>
  /\ Len(queue) + Len(held) = Capacity
  /\ input' = Tail(input)
  /\ UNCHANGED <<mode, queue, held, out>>

Publish ==
  /\ mode = "live" /\ input = <<>> 
  /\ queue' = queue \o held
  /\ held' = <<>>
  /\ UNCHANGED <<mode, input, out>>

Next ==
  \/ Start \/ Stop \/ Settle
  \/ Fetch \/ PlaySilence \/ Play
  \/ Arrive \/ Take \/ Drop \/ Publish

Spec == Init /\ [][Next]_vars

=============================================================================
