------------------------------ MODULE TsWrite ------------------------------
(***************************************************************************)
(* The writers of src/bin/ts_write.hh as a state machine: write_video and  *)
(* write_audio cut a payload into packets, one packet per step, and        *)
(* write_ts_start puts a PAT and a PMT between two calls.  The bytes of a  *)
(* payload are abstracted to the interval of offsets a packet carries.     *)
(***************************************************************************)
EXTENDS TsPacket, Sequences, FiniteSets

CONSTANTS
  PayloadSizes,   \* the payload sizes a caller hands over
  CounterMod,     \* the modulus of an unsigned int: 2^32 in the code
  Start,          \* tw_state before the first call: a counter per stream
  MaxCalls,       \* bound: calls of write_video and write_audio
  MaxTables       \* bound: calls of write_ts_start

ASSUME PayloadSizesAssumption == PayloadSizes \subseteq Nat
ASSUME CounterModAssumption ==
  CounterMod \in Nat /\ CounterMod > 0 /\ CounterMod % 16 = 0
ASSUME StartAssumption == Start \in [Streams -> UInt(16)]
ASSUME BoundsAssumption == MaxCalls \in Nat /\ MaxTables \in Nat

VARIABLES
  counter,              \* tw_state: video_counter and audio_counter
  g_output_ts_count,    \* packets written by the process
  calls,                \* history: each call's stream, size and first packet
  phase,                \* "idle", in write_*_first or in the loop of write_*
  stuffing_byte_size,   \* the argument of write_*_first
  data_offset,          \* bytes of the current payload already written
  out                   \* the packets in the output stream

vars == <<counter, g_output_ts_count, calls, phase, stuffing_byte_size,
          data_offset, out>>

\* Seeded error: the recursion of write_*_first without the counter-- before it.
Decr_forgotten(x) == x

\* x++ and x-- on an unsigned int.
Incr(x) == IF x + 1 = CounterMod THEN 0 ELSE x + 1
Decr(x) == IF x = 0 THEN CounterMod - 1 ELSE x - 1

\* Seeded error: the counter written without its % 16.
ContinuityCounter_unmasked(x) == x

\* The 4-bit field of the packet header.
ContinuityCounter(x) == x % 16

\* The call being served, and how much of its payload is not written yet.
Call == calls[Len(calls)]
Left == Call.size - data_offset

\* Seeded errors: payload.data() without + data_offset; a loop that goes on at
\* the end of the payload; a stuffing one byte short; an off-by-one comparison.
RestFrom_start == 0
More_inclusive == data_offset <= Call.size
Delta_short(room) == room - Call.size - 1
RestAfExist_late(left) == IF left < SIZE - 3 THEN 3 ELSE 1

\* Where the next packet takes its bytes from, and the condition of the loop.
RestFrom == data_offset
More == data_offset < Call.size

\* What write_*_first stuffs when the payload leaves some of the room empty.
Delta(room) == room - Call.size

\* Adaptation_field_exist of a further packet: set before the header is
\* dumped, from another expression than the one that decides on the field.
RestAfExist(left) == IF left < SIZE - 1 - 3 THEN 3 ELSE 1

----------------------------------------------------------------------------
\* The packets.  af is the number of bytes of the adaptation field, pes that
\* of the PES header; the payload bytes from..to-1 of call `unit` follow.

TablePacket(pid) ==
  [pid |-> pid, pusi |-> TRUE, afe |-> 1, cc |-> 0, af_length |-> 0, af |-> 0,
   pes |-> 0, pes_packet_length |-> 0, unit |-> 0, from |-> 0,
   to |-> SIZE - HEADER_SIZE]

FirstPacket(s) ==
  LET af_length == FirstAfLength(stuffing_byte_size) IN
  [pid |-> Pid(s), pusi |-> TRUE, afe |-> 3, cc |-> ContinuityCounter(counter[s]),
   af_length |-> af_length, af |-> AfDump(af_length, s = "video"),
   pes |-> PES_HEADER_SIZE, pes_packet_length |-> PesPacketLength(Call.size),
   unit |-> Len(calls), from |-> 0,
   to |-> FirstRoom(stuffing_byte_size, s = "video")]

RestPacket(s) ==
  [pid |-> Pid(s), pusi |-> FALSE, afe |-> RestAfExist(Left),
   cc |-> ContinuityCounter(counter[s]),
   af_length |-> IF RestAf(Left) > 0 THEN RestAfLength(Left) ELSE 0,
   af |-> RestAf(Left), pes |-> 0, pes_packet_length |-> 0,
   unit |-> Len(calls), from |-> RestFrom,
   to |-> RestFrom + (RestRoom - RestAf(Left))]

----------------------------------------------------------------------------
Init ==
  /\ counter = Start
  /\ g_output_ts_count = 0
  /\ calls = <<>>
  /\ phase = "idle"
  /\ stuffing_byte_size = 0
  /\ data_offset = 0
  /\ out = <<>>

\* write_ts_start: a PAT and a PMT, each counted.
WriteTsStart ==
  /\ phase = "idle"
  /\ Cardinality({i \in 1..Len(out) : out[i].pid = PAT_PID}) < MaxTables
  /\ out' = out \o <<TablePacket(PAT_PID), TablePacket(PMT_PID)>>
  /\ g_output_ts_count' = Incr(Incr(g_output_ts_count))
  /\ UNCHANGED <<counter, calls, phase, stuffing_byte_size, data_offset>>

\* The caller calls write_video or write_audio with a payload of n bytes.
Enter(s, n) ==
  /\ phase = "idle"
  /\ Len(calls) < MaxCalls
  /\ calls' = Append(calls, [stream |-> s, size |-> n, start |-> Len(out)])
  /\ phase' = "first"
  /\ data_offset' = 0
  /\ stuffing_byte_size' = 0
  /\ UNCHANGED <<counter, g_output_ts_count, out>>

\* write_*_first finds that the payload does not fill the packet: it takes its
\* counter back and calls itself with the stuffing that is missing.
Retry(s) ==
  /\ phase = "first" /\ Call.stream = s
  /\ LET room == FirstRoom(stuffing_byte_size, s = "video") IN
       /\ Call.size < room
       /\ stuffing_byte_size' = Delta(room)
  /\ data_offset' = 0
  /\ counter' = [counter EXCEPT ![s] = Decr(Incr(@))]
  /\ UNCHANGED <<g_output_ts_count, calls, phase, out>>

\* write_*_first writes its packet.
WriteFirst(s) ==
  /\ phase = "first" /\ Call.stream = s
  /\ Call.size >= FirstRoom(stuffing_byte_size, s = "video")
  /\ out' = Append(out, FirstPacket(s))
  /\ counter' = [counter EXCEPT ![s] = Incr(@)]
  /\ g_output_ts_count' = Incr(g_output_ts_count)
  /\ data_offset' = data_offset + FirstRoom(stuffing_byte_size, s = "video")
  /\ phase' = "rest"
  /\ UNCHANGED <<calls, stuffing_byte_size>>

\* One turn of the loop: write_*_rest.
WriteRest(s) ==
  /\ phase = "rest" /\ Call.stream = s
  /\ More
  /\ out' = Append(out, RestPacket(s))
  /\ counter' = [counter EXCEPT ![s] = Incr(@)]
  /\ g_output_ts_count' = Incr(g_output_ts_count)
  /\ data_offset' = data_offset + (RestRoom - RestAf(Left))
  /\ UNCHANGED <<calls, phase, stuffing_byte_size>>

\* The loop ends and the call returns.
Return ==
  /\ phase = "rest" /\ ~More
  /\ phase' = "idle"
  /\ UNCHANGED <<counter, g_output_ts_count, calls, stuffing_byte_size,
                 data_offset, out>>

RetryVideo      == Retry("video")
WriteVideoFirst == WriteFirst("video")
WriteVideoRest  == WriteRest("video")
RetryAudio      == Retry("audio")
WriteAudioFirst == WriteFirst("audio")
WriteAudioRest  == WriteRest("audio")

\* The steps of a call that has begun.
Serve == \/ RetryVideo \/ WriteVideoFirst \/ WriteVideoRest
         \/ RetryAudio \/ WriteAudioFirst \/ WriteAudioRest
         \/ Return

Next == \/ WriteTsStart
        \/ \E s \in Streams, n \in PayloadSizes : Enter(s, n)
        \/ Serve

\* A call runs on without waiting for anything: it never stops on its own.
Fairness == WF_vars(Serve)

Spec == Init /\ [][Next]_vars /\ Fairness

----------------------------------------------------------------------------
Packet ==
  [pid: EsPids \cup {PAT_PID, PMT_PID}, pusi: BOOLEAN, afe: {1, 3}, cc: UInt(16),
   af_length: UInt(256), af: Nat, pes: {0, PES_HEADER_SIZE},
   pes_packet_length: UInt(65536), unit: Nat, from: Nat, to: Nat]

\* Counters stay below the modulus of an unsigned int, the header fields within
\* their bits, and a call is being served whenever the writers are not idle.
TypeOK ==
  /\ counter \in [Streams -> UInt(CounterMod)]
  /\ g_output_ts_count \in UInt(CounterMod)
  /\ calls \in Seq([stream: Streams, size: PayloadSizes, start: Nat])
  /\ phase \in {"idle", "first", "rest"}
  /\ stuffing_byte_size \in Nat
  /\ data_offset \in Nat
  /\ out \in Seq(Packet)
  /\ phase # "idle" => Len(calls) > 0

\* The packet's length on the wire.
Length(p) == HEADER_SIZE + p.af + p.pes + (p.to - p.from)

\* Every packet is 188 bytes long, its header announces an adaptation field
\* exactly when one is there, the field has the length it states, and no
\* packet reads past the payload it was given (the two comparisons of
\* write_*_rest agree, the stuffing of write_*_first fits its uint8_t).
PacketsWellFormed ==
  \A i \in 1..Len(out) :
    LET p == out[i] IN
    /\ Length(p) = SIZE
    /\ (p.afe = 3) <=> (p.af > 0)
    /\ p.af > 0 => p.af = p.af_length + 1
    /\ p.unit # 0 => p.from <= p.to /\ p.to <= calls[p.unit].size

\* No packet of stream s after packet i; packet j the next one on i's PID.
IsLatest(i, s) == \A k \in i+1..Len(out) : out[k].pid # Pid(s)
IsNext(i, j)   == /\ out[j].pid = out[i].pid
                  /\ \A k \in i+1..j-1 : out[k].pid # out[i].pid

\* Two packets of one stream with no other of that stream between them have
\* continuity counters that differ by one modulo 16, and the counter that is
\* kept is the one that continues the stream: retries of a short payload and
\* the wrap-around of the unsigned counter leave no gap and no repetition.
CounterContinuity ==
  \A s \in Streams : \A i \in 1..Len(out) : out[i].pid = Pid(s) =>
    /\ IsLatest(i, s) => (out[i].cc + 1) % 16 = counter[s] % 16
    /\ \A j \in i+1..Len(out) :
         IsNext(i, j) => out[j].cc = (out[i].cc + 1) % 16

\* The call being served has nothing left to write.
Served == phase = "rest" /\ Left <= 0

\* A call writes the number of packets that NumPackets computes from the size
\* alone, and the global packet counter moves with the packets: the indexer,
\* which throws the packets away, and getts agree on the counters only so.
PacketCount ==
  /\ Served => Len(out) - Call.start = NumPackets(Call.size)
  /\ \E n \in 0..Len(out) : Len(out) = g_output_ts_count + n * CounterMod

\* A call of write_video or write_audio returns, whatever the payload: every
\* turn of the loop makes progress, also with 183 bytes left, and the retry
\* of a short payload is not retried.
EveryCallReturns == (phase # "idle") ~> (phase = "idle")

\* The PES header states the length of what follows it, or 0 for a video
\* payload, which alone may leave it open.
PesLengthStated ==
  \A i \in 1..Len(out) :
    out[i].pusi /\ out[i].unit # 0 =>
      \/ out[i].pes_packet_length = 13 + calls[out[i].unit].size
      \/ out[i].pes_packet_length = 0 /\ out[i].pid = ES_VIDEO_PID

\* A packet as TsStream sees it.
Wire(p) == [pid |-> p.pid, pusi |-> p.pusi, cc |-> p.cc, unit |-> p.unit,
            from |-> p.from, to |-> p.to, length |-> Length(p)]

Stream == INSTANCE TsStream WITH out <- [i \in 1..Len(out) |-> Wire(out[i])]

\* The writers append to the stream the payloads of the calls, complete, in
\* order and cut into conforming packets.
Delivers == Stream!Spec
=============================================================================
