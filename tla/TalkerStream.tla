---------------------------- MODULE TalkerStream ----------------------------
(***************************************************************************)
(* One talker stream from samples to packets on the wire: the audio thread *)
(* pushes samples into the input FIFOs the stream is made of, the talker   *)
(* thread packs them into 1722 packets (avb_1722_talker.xc,                *)
(* avb_1722_talker_support_audio.c), and the control thread configures,    *)
(* starts and stops the stream (avb.c).  The FIFOs of a stream are filled  *)
(* and read alike, so one of them stands for all.                          *)
(*                                                                         *)
(* A frame is one sample period, the pass of the audio thread's loop.  The *)
(* talker polls the stream many times in a frame, so it sends within the   *)
(* frame in which it may, unless something else of its holds it up.        *)
(***************************************************************************)
EXTENDS MediaInputFifo

CONSTANTS WireSamples,  \* samples a 1722 packet may have: one or two numbers
          Period,       \* AVB1722_PACKET_PERIOD_TIMER_TICKS in frames, rounded up
          MaxLate       \* bound on the frames the talker is held up

ASSUME StreamAssumption ==
  /\ WireSamples \subseteq 1 .. Samples /\ WireSamples # {}
  /\ Period \in Nat \ {0} /\ MaxLate \in Nat

\* avb1722_Talker_StreamConfig_t.  left: samples_left_in_fifo_packet;
\* dbc: dbc_at_start_of_last_fifo_packet.
Stream == [active : 0 .. 2, initial : BOOLEAN, left : 0 .. Samples,
           dbc : Dbc \union {Stale}]

VARIABLES
  source,   \* sources[].stream.state
  fifo,     \* the ififo_t
  req,      \* enable_request_state
  ind,      \* enable_indication_state
  audio,    \* the audio thread: where it is, and its copy of enable_request_state
  stream,   \* the stream of the talker unit
  wait,     \* frames until transmit_ok is set again
  late,     \* history: frames the talker was held up since the stream started
  hasty     \* history: it was started before the audio thread knew it stopped

vars == <<source, fifo, req, ind, audio, stream, wait, late, hasty>>

TypeOK ==
  /\ source \in {"DISABLED", "POTENTIAL", "ENABLED"}
  /\ fifo \in Fifo
  /\ req \in BOOLEAN /\ ind \in BOOLEAN
  /\ audio \in [at : {"read", "sample", "indicate"}, active : BOOLEAN]
  /\ stream \in Stream
  /\ wait \in 0 .. Period
  /\ late \in 0 .. MaxLate
  /\ hasty \in BOOLEAN

Init ==
  /\ source = "DISABLED"
  /\ fifo = Flushed
  /\ req = FALSE /\ ind = FALSE
  /\ audio = [at |-> "read", active |-> FALSE]
  /\ stream = [active |-> 0, initial |-> FALSE, left |-> 0, dbc |-> 0]
  /\ wait = 0
  /\ late = 0
  /\ hasty = FALSE

-----------------------------------------------------------------------------
(***************************************************************************)
(* The control thread.  media_input_fifo.h asks the talker to wait, before *)
(* it enables a FIFO, until the indication says that it is not enabled any *)
(* more.  The talker does not: it is the pace of the control loop, a poll  *)
(* in 50 microseconds, that gives the audio thread time to notice a stop,  *)
(* unless the loop is catching up.                                         *)
(***************************************************************************)
Noticed == ~audio.active /\ ~ind

\* DISABLED to POTENTIAL: AVB1722_CONFIGURE_TALKER_STREAM.
Configure ==
  /\ source = "DISABLED"
  /\ source' = "POTENTIAL"
  /\ fifo' = Enable(fifo)
  /\ stream' = [active |-> 1, initial |-> TRUE, left |-> 0, dbc |-> 0]
  /\ wait' = 0
  /\ hasty' = ~Noticed
  /\ UNCHANGED <<req, ind, audio, late>>

\* POTENTIAL to ENABLED: AVB1722_TALKER_GO.
Go ==
  /\ source = "POTENTIAL"
  /\ source' = "ENABLED"
  /\ req' = TRUE
  /\ stream' = [stream EXCEPT !.active = 2, !.initial = TRUE, !.left = 0]
  /\ late' = 0
  /\ hasty' = (hasty \/ ~Noticed)
  /\ UNCHANGED <<fifo, ind, audio, wait>>

\* ENABLED to POTENTIAL, or either of them to DISABLED: AVB1722_TALKER_STOP.
Stop(to) ==
  /\ source = "ENABLED" \/ (source = "POTENTIAL" /\ to = "DISABLED")
  /\ source' = to
  /\ req' = FALSE
  /\ stream' = [stream EXCEPT !.active = 1]
  /\ UNCHANGED <<fifo, ind, audio, wait, late, hasty>>

-----------------------------------------------------------------------------
(***************************************************************************)
(* The talker thread.                                                      *)
(***************************************************************************)
\* Mutant: the talker waits for a fuller FIFO before it starts.
StartLevelFuller == Size \div 2 + Samples

\* media_input_fifo_fill_level counts samples, half the buffer is words.
StartLevel == Size \div 2

\* Mutant: the packet being read is taken for one that is yet to come.
EnoughDataForOne(n) ==
  stream.initial \/ stream.left < n => FillLevel(fifo) >= Samples

\* Up to two packets of the FIFO go into one on the wire.
EnoughData(n) ==
  stream.initial \/ stream.left < n => FillLevel(fifo) >= 2 * Samples

CanSend(n) ==
  /\ stream.active = 2
  /\ stream.initial => FillLevel(fifo) >= StartLevel
  /\ EnoughData(n)
  /\ ind
  /\ stream.initial \/ wait = 0

\* avb1722_create_packet, with n samples: from the packet it reads, or what is
\* left of it and the beginning of the next.
Send(n) ==
  /\ CanSend(n)
  /\ \/ /\ stream.initial
        /\ stream' = [stream EXCEPT !.initial = FALSE, !.left = Samples - n,
                                    !.dbc = PacketDbc(fifo)]
        /\ UNCHANGED fifo
     \/ /\ ~stream.initial /\ stream.left >= n
        /\ stream' = [stream EXCEPT !.left = @ - n]
        /\ UNCHANGED fifo
     \/ /\ ~stream.initial /\ stream.left < n
        /\ fifo' = ReleasePacket(fifo)
        /\ stream' = [stream EXCEPT !.left = Samples - (n - @), !.dbc = PacketDbc(fifo')]
  \* The last frame of the period counts or not: it ends between two frames.
  /\ wait' \in {Period - 1, Period}
  /\ UNCHANGED <<source, req, ind, audio, late, hasty>>

-----------------------------------------------------------------------------
(***************************************************************************)
(* The audio thread: one pass of its loop is one frame.                    *)
(***************************************************************************)
\* Mutant: the indication is read where the request should be.
RequestedAsIndicated == ind

Requested == req

Held == \E n \in WireSamples : CanSend(n)

\* A hasty stream, of which nothing is asked, is not held up for long.
Bound == IF hasty THEN 0 ELSE MaxLate

ReadRequest ==
  /\ audio.at = "read" /\ (Held => late < Bound)
  /\ audio' = [at |-> "sample", active |-> Requested]
  /\ wait' = IF wait = 0 THEN 0 ELSE wait - 1
  /\ late' = IF Held THEN late + 1 ELSE late
  /\ UNCHANGED <<source, fifo, req, ind, stream, hasty>>

Sample ==
  /\ audio.at = "sample"
  /\ audio' = [audio EXCEPT !.at = "indicate"]
  /\ fifo' = IF audio.active THEN PushSample(fifo) ELSE Flush(fifo)
  /\ UNCHANGED <<source, req, ind, stream, wait, late, hasty>>

Indicate ==
  /\ audio.at = "indicate"
  /\ audio' = [audio EXCEPT !.at = "read"]
  /\ ind' = audio.active
  /\ UNCHANGED <<source, fifo, req, stream, wait, late, hasty>>

Next ==
  \/ Configure \/ Go
  \/ Stop("POTENTIAL") \/ Stop("DISABLED")
  \/ \E n \in WireSamples : Send(n)
  \/ ReadRequest \/ Sample \/ Indicate

Spec == Init /\ [][Next]_vars

\* The audio clock runs and the talker polls its stream.
Fairness ==
  /\ WF_vars(ReadRequest \/ Sample \/ Indicate)
  /\ WF_vars(\E n \in WireSamples : Send(n))

FairSpec == Spec /\ Fairness

-----------------------------------------------------------------------------
(***************************************************************************)
(* Properties.                                                             *)
(***************************************************************************)
Reading == stream.active = 2 /\ ~stream.initial /\ ~hasty

\* media_input_fifo_release_packet comes "after consuming the samples within":
\* until then every word of the packet the talker reads is still the one that
\* was written for it, wherever the audio thread has got to in the ring.
HeldPacketIsWhole ==
  Reading => \A w \in HeldWords(fifo) : fifo.buf[w] = stream.dbc

\* "Push a sample into the FIFO": every sample finds room.  The guard against a
\* full ring never holds, so what protects the packet the talker reads is only
\* that it is read in time (HeldPacketIsWhole).
PushesAreStored ==
  audio.active => ~Refused(fifo)

\* The ring stays inside its buffer, every pointer of it where a whole packet
\* fits, and takes every sample.
RingIsSound == TypeOK /\ PushesAreStored

\* create_packet checks the fill level "so that this thread won't wait for
\* data": the busy wait of media_input_fifo_get_packet never finds the FIFO empty.
TalkerNeverWaits ==
  [][\A n \in WireSamples : Send(n) => ~Empty(fifo') \/ hasty]_vars

\* Packets leave in the order they came, none left out and none twice: the data
\* block count of a packet is that of the one before it and its samples.
PacketsAreConsecutive ==
  [][Reading /\ Reading' /\ fifo'.rd # fifo.rd =>
       stream'.dbc = (stream.dbc + Samples) % DbcMod]_vars

\* A stream that starts, starts with its first sample: nothing that was pushed
\* before the last stop is sent.
StreamStartsAfresh ==
  [][stream.initial /\ Reading' => stream'.dbc = 0 /\ fifo'.rd = 0]_vars

\* "The source is enabled and transmitting": an ENABLED source sends packets as
\* long as nobody stops it.
StreamTransmits ==
  <>[](source = "ENABLED" /\ ~hasty) => []<><<\E n \in WireSamples : Send(n)>>_vars
=============================================================================
