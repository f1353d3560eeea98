--------------------------- MODULE ListenerStream ----------------------------
(***************************************************************************)
(* One stream from 1722 packets to played samples: the listener thread     *)
(* (avb_1722_listener.xc, avb_1722_listener_support_audio.c) unpacks the   *)
(* packets into a media output FIFO, serves the commands of the control    *)
(* thread and the requests of the media clock server                       *)
(* (media_clock_server.xc); the audio thread pulls a sample at every word  *)
(* clock.  The listener is interrupted by nobody but the audio thread,     *)
(* which runs beside it: a pull and the unpacking of a packet are steps    *)
(* that interleave.                                                        *)
(*                                                                         *)
(* The media clock server compares the time a marked sample was played at  *)
(* with the time it was due.  The difference comes from the clocks of two  *)
(* devices: it is any of Diffs.                                            *)
(***************************************************************************)
EXTENDS MediaOutputFifo

CONSTANTS ChanLock,     \* packets from which the number of channels is learnt
          Diffs,        \* sample_diff, those within ACCEPTABLE_FILL_ADJUST
          SytInterval,  \* syt_interval: the timestamp of a packet is for a sample
                        \* before this one, in the packet or the one after it
          MaxSamples,   \* MAX_SAMPLES_PER_1722_PACKET
          LostLock,     \* LOST_LOCK_THRESHOLD
          MinFill       \* MIN_FILL_LEVEL

ASSUME ListenerAssumption ==
  /\ ChanLock \in Nat /\ Diffs \subseteq Int
  /\ SytInterval \in Nat \ {0} /\ SytInterval <= 2 * Packet
  /\ MaxSamples \in Nat /\ LostLock \in Nat /\ MinFill \in Nat

VARIABLES
  fifo,
  stream,   \* avb_1722_stream_info_t: active, chan_lock
  push,     \* the packet being unpacked: samples left, local write pointer
  pull,     \* the sample being fetched: its place and value
  talk,     \* the one conversation notified_buf_ctl allows
  out,      \* the sample played last, silence while the next is fetched
  stamp     \* history: the sample a timestamp was for, whether the ring had room
            \* for it, and the sample that was timed

vars == <<fifo, stream, push, pull, talk, out, stamp>>

Values == [i \in 1 .. Packet |-> Volume(fifo, i)]
NoSample == Played + 1
NotStamped == [marked |-> NoSample, timed |-> NoSample, room |-> TRUE]

TypeOK ==
  /\ fifo \in Fifo
  /\ stream \in [active : BOOLEAN, chan : 0 .. ChanLock]
  /\ push \in [left : 0 .. Packet, wrptr : Offset, open : BOOLEAN]
  /\ pull \in [busy : BOOLEAN, at : Offset, sample : Sample, stale : BOOLEAN]
  /\ talk \in [at : {"none", "new", "info", "adjust", "reset", "ack"},
               diff : Diffs \union {0}]
  /\ out \in Sample
  /\ stamp \in [marked : Sample \union {NoSample}, timed : Sample \union {NoSample},
                room : BOOLEAN]

NoPush == [left |-> 0, wrptr |-> 0, open |-> FALSE]
NoPull == [busy |-> FALSE, at |-> 0, sample |-> 0, stale |-> FALSE]
NoTalk == [at |-> "none", diff |-> 0]

Init ==
  /\ \E flag \in BOOLEAN : fifo = Initial(flag)
  /\ stream = [active |-> FALSE, chan |-> 0]
  /\ push = NoPush /\ pull = NoPull /\ talk = NoTalk
  /\ out = Silence
  /\ stamp = NotStamped

-----------------------------------------------------------------------------
(***************************************************************************)
(* The audio thread: media_output_fifo_pull_sample.  It reads the pointers *)
(* first and writes its own back at the end; what the listener thread did  *)
(* to the FIFO in between makes the sample stale.                          *)
(***************************************************************************)
Underflow ==
  /\ ~pull.busy /\ fifo.dptr = fifo.wrptr
  /\ out' = Silence
  /\ UNCHANGED <<fifo, stream, push, pull, talk, stamp>>

BeginPull ==
  /\ ~pull.busy /\ fifo.dptr # fifo.wrptr
  /\ pull' = [busy |-> TRUE, at |-> fifo.dptr, sample |-> fifo.buf[fifo.dptr], stale |-> FALSE]
  /\ out' = Silence
  /\ LET hit == fifo.dptr = fifo.marker /\ ~fifo.localTs
     IN  /\ fifo' = [fifo EXCEPT !.localTs = @ \/ hit]
         /\ stamp' = IF hit THEN [stamp EXCEPT !.timed = fifo.buf[fifo.dptr]] ELSE stamp
  /\ UNCHANGED <<stream, push, talk>>

EndPull ==
  /\ pull.busy
  /\ fifo' = Consume(fifo, pull.at)
  /\ out' = IF fifo.zeroFlag THEN Silence ELSE pull.sample
  /\ pull' = NoPull
  /\ UNCHANGED <<stream, push, talk, stamp>>

\* A pull is a dozen instructions and the threads take turns at every one: the
\* listener thread does no more than one thing in that time.
Idle == ~push.open /\ ~pull.stale

\* What the listener thread does to the FIFO meets a pull that is under way.
Disturb == pull' = [pull EXCEPT !.stale = pull.busy]

-----------------------------------------------------------------------------
\* Commands of the control thread: configure_stream and disable_stream, sent
\* when a sink leaves and enters DISABLED.
Configure ==
  /\ Idle /\ ~stream.active
  /\ stream' = [active |-> TRUE, chan |-> 0]
  /\ fifo' = Enable(fifo)
  /\ stamp' = NotStamped
  /\ Disturb
  /\ UNCHANGED <<push, talk, out>>

Deconfigure ==
  /\ Idle /\ stream.active
  /\ stream' = [stream EXCEPT !.active = FALSE]
  /\ fifo' = Disable(fifo)
  /\ Disturb
  /\ UNCHANGED <<push, talk, out, stamp>>

-----------------------------------------------------------------------------
\* avb_1722_listener_process_packet: the first packets only tell the number of
\* channels, and have to agree on it: one that does not is the first again.
Learned(chan) ==
  /\ Idle /\ stream.active /\ stream.chan < ChanLock
  /\ stream' = [stream EXCEPT !.chan = chan]
  /\ UNCHANGED <<fifo, push, pull, talk, out, stamp>>

Learn == Learned(stream.chan + 1)
LearnAnew == Learned(1)

\* The sample a timestamp is for, in this packet or in the next, and whether the ring
\* has room for it and those before it: one that has not will drop some of them.
Meant(i) == IF i > Packet THEN i - Packet ELSE i
HasRoomFor(k) == FillOf(fifo) + k + 1 < Size

\* A packet whose number of channels is known: its timestamp (if it has one, for
\* the sample k from here on), then maintenance, then the samples.
Unpack(t, k) ==
  /\ Idle /\ stream.active /\ stream.chan = ChanLock
  /\ LET timed == IF t THEN SetTimestamp(fifo, k) ELSE fifo
         f == Maintain(timed, talk.at # "none")
         sent == Notification(timed, talk.at # "none")
     IN  /\ fifo' = f
         /\ push' = [left |-> Packet, wrptr |-> f.wrptr, open |-> TRUE]
         /\ talk' = IF sent = "none" THEN talk ELSE [talk EXCEPT !.at = sent]
         /\ stamp' = IF f.marker = NoMark THEN NotStamped
                     ELSE IF fifo.marker = NoMark
                       THEN [marked |-> Values[Meant(k + 1)], timed |-> NoSample,
                             room |-> HasRoomFor(k)]
                     ELSE stamp
  /\ UNCHANGED <<stream, pull, out>>

\* A sample that finds the ring full is dropped.
PushSample ==
  /\ push.open /\ push.left > 0
  /\ IF HasRoom(fifo, push.wrptr)
     THEN /\ fifo' = [fifo EXCEPT !.buf[push.wrptr] = Values[Packet - push.left + 1]]
          /\ push' = [push EXCEPT !.left = @ - 1, !.wrptr = Wrapped(@ + 1)]
     ELSE /\ fifo' = fifo
          /\ push' = [push EXCEPT !.left = @ - 1]
  /\ UNCHANGED <<stream, pull, talk, out, stamp>>

EndPush ==
  /\ push.open /\ push.left = 0
  /\ fifo' = Publish(fifo, push.wrptr)
  /\ push' = NoPush
  /\ UNCHANGED <<stream, pull, talk, out, stamp>>

-----------------------------------------------------------------------------
(***************************************************************************)
(* The conversation with the media clock server, opened by a notification. *)
(* The server answers one request at a time; the listener serves it when   *)
(* it is not busy with a packet.                                           *)
(***************************************************************************)
TellClock ==
  /\ talk.at = "new" /\ Idle
  /\ talk' = NoTalk
  /\ UNCHANGED <<fifo, stream, push, pull, out, stamp>>

\* manage_buffer for a stream without a media clock; which streams have one is
\* left open.
LeaveAlone ==
  /\ talk.at = "info"
  /\ talk' = [talk EXCEPT !.at = "ack"]
  /\ UNCHANGED <<fifo, stream, push, pull, out, stamp>>

\* What manage_buffer decides of a FIFO with this fill level.
TooFar(fill, diff) == fill - diff > Size - MaxSamples \/ fill - diff < -(Size - MaxSamples)

IsLost(fill, diff) == diff > LostLock \/ diff < -LostLock \/ fill < MinFill

\* stable: the difference was steady for STABLE_THRESHOLD reports; ripe: the FIFO
\* was locked for LOCK_COUNT_THRESHOLD of them.
Decision(fill, diff, stable, ripe) ==
  IF fifo.state # "LOCKED" /\ stable
  THEN IF TooFar(fill, diff) THEN "reset" ELSE "adjust"
  ELSE IF fifo.state = "LOCKED" /\ ripe /\ IsLost(fill, diff) THEN "reset" ELSE "ack"

\* BUF_CTL_REQUEST_INFO, which clears the timestamps, and the decision.
ManageBuffer(diff, stable, ripe) ==
  /\ talk.at = "info" /\ Idle
  /\ LET d == Decision(FillOf(fifo), diff, stable, ripe)
     IN  talk' = [at |-> d, diff |-> IF d = "adjust" THEN diff ELSE 0]
  /\ fifo' = Unmarked(fifo)
  /\ stamp' = NotStamped
  /\ UNCHANGED <<stream, push, pull, out>>

ServeAdjust ==
  /\ talk.at = "adjust" /\ Idle
  /\ fifo' = AdjustFill(fifo, talk.diff)
  /\ stamp' = NotStamped
  /\ talk' = NoTalk
  /\ Disturb
  /\ UNCHANGED <<stream, push, out>>

ServeReset ==
  /\ talk.at = "reset" /\ Idle
  /\ fifo' = Reset(fifo)
  /\ talk' = NoTalk
  /\ Disturb
  /\ UNCHANGED <<stream, push, out, stamp>>

ServeAck ==
  /\ talk.at = "ack" /\ Idle
  /\ talk' = NoTalk
  /\ UNCHANGED <<fifo, stream, push, pull, out, stamp>>

-----------------------------------------------------------------------------
SampleNum == 0 .. SytInterval - 1

Receive == Learn \/ LearnAnew \/ \E t \in BOOLEAN, k \in SampleNum : Unpack(t, k)

Serve ==
  \/ TellClock \/ LeaveAlone \/ ServeAdjust \/ ServeReset \/ ServeAck
  \/ \E diff \in Diffs, stable \in BOOLEAN, ripe \in BOOLEAN : ManageBuffer(diff, stable, ripe)

Pull == Underflow \/ BeginPull \/ EndPull

Next == Pull \/ Configure \/ Deconfigure \/ Receive \/ PushSample \/ EndPush \/ Serve

Spec == Init /\ [][Next]_vars

\* The word clock never stops; the listener finishes a packet and looks at the
\* requests of the server first (its select is ordered); the talker keeps sending,
\* timestamps included, and does not change its number of channels every time.
Fairness ==
  /\ WF_vars(Pull) /\ WF_vars(PushSample \/ EndPush) /\ SF_vars(Serve)
  /\ \A c \in 0 .. ChanLock - 1 : SF_vars(stream.chan = c /\ Learn)
  /\ SF_vars(\E k \in SampleNum : Unpack(TRUE, k))

FairSpec == Spec /\ Fairness

-----------------------------------------------------------------------------
\* The two timestamps of the FIFO, when the media clock is told of them, are those of
\* one sample: the one the packet gave a presentation time
\* (media_output_fifo_set_ptp_timestamp) and the one whose playing was timed
\* (media_output_fifo_pull_sample), as media_output_fifo.h:36-38 says.
MarkIsForItsSample ==
  fifo.state \in {"LOCKING", "LOCKED"} /\ fifo.ptpTs /\ fifo.localTs
    => stamp.marked = stamp.timed

\* The FIFO and its users' copies of its pointers are well formed, and the two
\* timestamps are those of one sample, whatever the two threads and the media clock do
\* to the marker in between.  The exception is a timestamp that came when the ring had
\* no room for its sample: it marks another one (MarkIsForItsSample).
InfoIsOfOneSample == TypeOK /\ (stamp.room => MarkIsForItsSample)

\* A FIFO that is not locked is filled with zeros to the end and then reported to the
\* media clock, again and again, wherever the zero marker, the pointers and the media
\* clock's requests find each other.  Its count of samples starts again and the time of
\* the last report does not, which media_output_fifo_maintain compares.
UnlockedIsReported ==
  stream.active /\ fifo.state \in {"ZEROING", "LOCKING"}
    ~> ~stream.active \/ fifo.state = "LOCKED" \/ talk.at = "info"

(***************************************************************************)
(* The queue a user of the FIFO sees: the ring between the two pointers,   *)
(* and behind it what the listener has written of a packet but not         *)
(* published.                                                              *)
(***************************************************************************)
Slice(from, len) == [i \in 1 .. len |-> fifo.buf[Wrapped(from + i - 1)]]

Mode == IF pull.stale THEN "settling" ELSE IF fifo.zeroFlag THEN "muted" ELSE "live"

Live == Mode = "live"

Queue == INSTANCE SampleQueue WITH
  Capacity <- Size - 1, PacketSize <- Packet, mode <- Mode,
  queue <- IF Live THEN Slice(fifo.dptr, FillOf(fifo)) ELSE <<>>,
  held <- IF Live /\ push.open
          THEN Slice(fifo.wrptr, Wrapped(push.wrptr - fifo.wrptr)) ELSE <<>>,
  input <- IF Live /\ push.open
           THEN SubSeq(Values, Packet - push.left + 1, Packet) ELSE <<>>

\* While it plays, the FIFO implements a bounded queue: the audio thread and the
\* listener, who share pointers and no lock, lose, repeat or reorder no sample.
PlaysInOrder == Queue!Spec

=============================================================================
