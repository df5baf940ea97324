--------------------------- MODULE TsWriteProofs ---------------------------
(***************************************************************************)
(* Theorems about TsWrite, for every set of payload sizes, every modulus   *)
(* of the counters and any number of calls: the packets, the counters, and *)
(* that the writers implement TsStream.                                    *)
(***************************************************************************)
EXTENDS TsWrite, SequenceTheorems, TLAPS

----------------------------------------------------------------------------
(* The arithmetic of the packet layout.                                    *)

\* An unsigned integer, by its two bounds.
LEMMA UIntType ==
  ASSUME NEW m \in Nat, NEW x \in Int
  PROVE  x \in UInt(m) <=> 0 <= x /\ x < m
BY DEF UInt

\* A first packet with at most 157 bytes of stuffing has a field of 8 bytes
\* and the stuffing, with or without a PCR, and room for the rest of 157.
LEMMA FirstLayout ==
  ASSUME NEW st \in Nat, st <= 157, NEW pcr \in BOOLEAN
  PROVE  /\ FirstAfLength(st) = 7 + st
         /\ AfDump(FirstAfLength(st), pcr) = 8 + st
         /\ FirstRoom(st, pcr) = 157 - st
<1>1. FirstAfLength(st) = 7 + st
  BY DEF FirstAfLength
<1>2. AfDump(7 + st, pcr) = 8 + st
  BY DEF AfDump
<1> QED
  BY <1>1, <1>2 DEF FirstRoom, SIZE, HEADER_SIZE, PES_HEADER_SIZE

\* The adaptation field of a further packet: none if the payload fills it, two
\* bytes for the two sizes that leave less room than a field takes, and what
\* is missing otherwise.  At least one byte of payload is written, and never
\* more than there are.
LEMMA RestLayout ==
  ASSUME NEW left \in Nat, left > 0
  PROVE  /\ RestAf(left) = IF left >= 184 THEN 0
                           ELSE IF left >= 182 THEN 2 ELSE 184 - left
         /\ left < 184 => RestAf(left) = RestAfLength(left) + 1
         /\ RestRoom - RestAf(left) \in 1..left
         /\ RestAf(left) \in Nat /\ RestAf(left) < 184
         /\ RestAfLength(left) \in Nat /\ RestAfLength(left) <= 182
<1>1. /\ RestAfLength(left) = 1 + (IF left < 182 THEN 182 - left ELSE 0)
      /\ RestAfLength(left) \in Nat /\ RestAfLength(left) <= 182
  BY DEF RestAfLength, RestRoom, SIZE, HEADER_SIZE
<1>2. RestRoom = 184
  BY DEF RestRoom, SIZE, HEADER_SIZE
<1>3. CASE left >= 184
  <2>1. ~(left < RestRoom)
    BY <1>2, <1>3
  <2>2. RestAf(left) = 0
    BY <2>1, Zenon DEF RestAf
  <2> QED
    BY <1>1, <1>2, <1>3, <2>2
<1>4. CASE left < 184
  <2>1. left < RestRoom
    BY <1>2, <1>4
  <2>2. RestAf(left) = AfDump(RestAfLength(left), FALSE)
    BY <2>1, Zenon DEF RestAf
  <2>3. AfDump(RestAfLength(left), FALSE) = IF left >= 182 THEN 2 ELSE 184 - left
    BY <1>1, <1>4 DEF AfDump
  <2>4. RestAf(left) = IF left >= 182 THEN 2 ELSE 184 - left
    BY <2>2, <2>3
  <2>5. RestAf(left) = RestAfLength(left) + 1
    BY <1>1, <1>4, <2>4
  <2> QED
    BY <1>1, <1>2, <1>4, <2>4, <2>5
<1> QED
  BY <1>3, <1>4

\* One packet of the loop is one less to write.
LEMMA RestPacketsStep ==
  ASSUME NEW left \in Nat, left > 0
  PROVE  /\ RestPackets(left) \in Nat
         /\ RestPackets(left) = 1 + RestPackets(left - (RestRoom - RestAf(left)))
<1>1. RestRoom = 184 /\ RestRoom - 1 = 183
  BY DEF RestRoom, SIZE, HEADER_SIZE
<1>2. RestPackets(0) = 0 /\ RestPackets(1) = 1
  BY <1>1 DEF RestPackets
<1>3. CASE left >= 184
  <2>1. left - (RestRoom - RestAf(left)) = left - 184
    BY <1>1, <1>3, RestLayout
  <2>2. (left - 184) % 184 = left % 184 /\ (left - 184) \div 184 = (left \div 184) - 1
    BY <1>3
  <2> QED
    BY <1>1, <1>3, <2>1, <2>2 DEF RestPackets
<1>4. CASE left < 184
  <2>1. left \div 184 = 0 /\ left % 184 = left
    BY <1>4
  <2>2. left - (RestRoom - RestAf(left)) = IF left = 183 THEN 1 ELSE 0
    <3>1. RestAf(left) = IF left >= 182 THEN 2 ELSE 184 - left
      BY <1>4, RestLayout
    <3> QED
      BY <1>1, <1>4, <3>1
  <2>3. RestPackets(left) = IF left = 183 THEN 2 ELSE 1
    BY <1>1, <1>4, <2>1 DEF RestPackets
  <2> QED
    BY <1>2, <2>2, <2>3
<1> QED
  BY <1>3, <1>4

\* The length field of the PES header is 16 bits wide.
LEMMA PesLengthType ==
  ASSUME NEW n \in Nat
  PROVE  PesPacketLength(n) \in UInt(65536)
BY DEF PesPacketLength, UInt

----------------------------------------------------------------------------
(* The counters.                                                           *)

\* The counter stays an unsigned int, the retry gives it back unchanged, and
\* the wrap-around is not seen modulo 16.
LEMMA Counters ==
  ASSUME NEW x \in UInt(CounterMod)
  PROVE  /\ Incr(x) \in UInt(CounterMod)
         /\ Decr(Incr(x)) = x
         /\ Incr(x) % 16 = (x + 1) % 16
         /\ (x % 16) \in UInt(16)
         /\ ((x % 16) + 1) % 16 = (x + 1) % 16
<1>1. CounterMod \in Nat /\ CounterMod > 0 /\ CounterMod % 16 = 0
  BY CounterModAssumption
<1>2. x \in Nat /\ x < CounterMod
  BY <1>1, UIntType DEF UInt
<1>3. Incr(x) \in Nat /\ Incr(x) < CounterMod /\ Decr(Incr(x)) = x
  BY <1>1, <1>2 DEF Incr, Decr
<1>4. Incr(x) % 16 = (x + 1) % 16
  BY <1>1, <1>2 DEF Incr
<1> QED
  BY <1>1, <1>2, <1>3, <1>4 DEF UInt

----------------------------------------------------------------------------
(* Types.                                                                  *)

\* What a call has written and stuffed, by phase: a first packet is built with
\* no stuffing or with exactly what the payload leaves.
PhaseInv ==
  /\ stuffing_byte_size <= 157
  /\ phase = "first" =>
       /\ data_offset = 0
       /\ stuffing_byte_size = 0 \/ stuffing_byte_size = 157 - Call.size
  /\ phase = "rest" => data_offset <= Call.size

TypeInv == TypeOK /\ PhaseInv

\* The call being served is a call.
LEMMA CallType ==
  ASSUME TypeOK, phase # "idle"
  PROVE  /\ Call \in [stream: Streams, size: PayloadSizes, start: Nat]
         /\ Call.size \in Nat
         /\ Len(calls) \in Nat \ {0}
<1> DEFINE C == [stream: Streams, size: PayloadSizes, start: Nat]
<1>1. calls \in Seq(C) /\ Len(calls) > 0
  BY DEF TypeOK
<1> HIDE DEF C
<1>2. Len(calls) \in Nat \ {0} /\ calls[Len(calls)] \in C
  BY <1>1
<1>3. Call \in C
  BY <1>2 DEF Call
<1>4. Call.size \in PayloadSizes
  BY <1>3 DEF C
<1> QED
  BY <1>2, <1>3, <1>4, PayloadSizesAssumption DEF C

\* The counter of a stream, and what a packet of it carries.
LEMMA StreamType ==
  ASSUME TypeOK, NEW s \in Streams
  PROVE  /\ counter[s] \in UInt(CounterMod)
         /\ ContinuityCounter(counter[s]) = counter[s] % 16
         /\ counter[s] % 16 \in UInt(16)
         /\ Pid(s) \in EsPids
         /\ (s = "video") \in BOOLEAN
<1>1. counter[s] \in UInt(CounterMod)
  BY DEF TypeOK
<1>2. counter[s] % 16 \in UInt(16)
  BY <1>1, Counters
<1>3. Pid(s) \in EsPids
  BY Zenon DEF Pid, EsPids
<1> QED
  BY <1>1, <1>2, <1>3 DEF ContinuityCounter

\* What the first packet of a call is.
LEMMA FirstStep ==
  ASSUME TypeInv, NEW s \in Streams, phase = "first",
         Call.size >= FirstRoom(stuffing_byte_size, s = "video")
  PROVE  LET p == FirstPacket(s)
             room == 157 - stuffing_byte_size
         IN  /\ p \in Packet
             /\ FirstRoom(stuffing_byte_size, s = "video") = room
             /\ room \in Nat /\ room <= Call.size
             /\ p.pid = Pid(s) /\ p.pusi = TRUE /\ p.afe = 3
             /\ p.cc = counter[s] % 16
             /\ p.af = 8 + stuffing_byte_size /\ p.af_length = 7 + stuffing_byte_size
             /\ p.pes = 19 /\ p.unit = Len(calls)
             /\ p.from = 0 /\ p.to = room
<1> DEFINE pcr == s = "video"
           st  == stuffing_byte_size
           len == PesPacketLength(Call.size)
           cc  == counter[s] % 16
<1>1. st \in Nat /\ st <= 157 /\ pcr \in BOOLEAN
  BY StreamType DEF TypeInv, PhaseInv, TypeOK
<1>2. /\ FirstAfLength(st) = 7 + st
      /\ AfDump(FirstAfLength(st), pcr) = 8 + st
      /\ FirstRoom(st, pcr) = 157 - st
  BY <1>1, FirstLayout
<1>3. Call.size \in Nat /\ Len(calls) \in Nat
  BY CallType DEF TypeInv
<1>4. cc \in UInt(16) /\ ContinuityCounter(counter[s]) = cc /\ Pid(s) \in EsPids
  BY StreamType DEF TypeInv
<1>5. len \in UInt(65536)
  BY <1>3, PesLengthType
<1>6. FirstPacket(s) =
        [pid |-> Pid(s), pusi |-> TRUE, afe |-> 3, cc |-> cc,
         af_length |-> 7 + st, af |-> 8 + st, pes |-> 19,
         pes_packet_length |-> len, unit |-> Len(calls), from |-> 0,
         to |-> 157 - st]
  <2>1. AfDump(7 + st, pcr) = 8 + st
    BY <1>2
  <2>2. PES_HEADER_SIZE = 19
    BY DEF PES_HEADER_SIZE
  <2> QED
    BY <1>2, <1>4, <2>1, <2>2, Zenon DEF FirstPacket
<1>7. 7 + st \in UInt(256)
  BY <1>1 DEF UInt
<1> HIDE DEF cc, len
<1>8. FirstPacket(s) \in Packet
  BY <1>1, <1>3, <1>4, <1>5, <1>6, <1>7 DEF Packet, PES_HEADER_SIZE
<1> QED
  BY <1>1, <1>2, <1>3, <1>6, <1>8 DEF cc

\* What a further packet is.
LEMMA RestStep ==
  ASSUME TypeInv, NEW s \in Streams, phase = "rest", More
  PROVE  LET p == RestPacket(s)
             n == RestRoom - RestAf(Left)
         IN  /\ p \in Packet
             /\ Left \in Nat /\ Left > 0 /\ Left = Call.size - data_offset
             /\ n \in 1..Left /\ data_offset + n \in 1..Call.size
             /\ p.pid = Pid(s) /\ p.pusi = FALSE
             /\ p.cc = counter[s] % 16
             /\ p.afe = (IF Left < 184 THEN 3 ELSE 1)
             /\ p.af = 184 - n
             /\ Left < 184 => p.af = p.af_length + 1 /\ p.af > 0
             /\ Left >= 184 => p.af = 0
             /\ p.pes = 0 /\ p.unit = Len(calls)
             /\ p.from = data_offset /\ p.to = data_offset + n
<1> DEFINE n  == RestRoom - RestAf(Left)
           cc == counter[s] % 16
           l  == IF RestAf(Left) > 0 THEN RestAfLength(Left) ELSE 0
           e  == IF Left < 184 THEN 3 ELSE 1
<1>1. /\ Call.size \in Nat /\ Len(calls) \in Nat /\ data_offset \in Nat
  BY CallType DEF TypeInv, TypeOK
<1>2. Left \in Nat /\ Left > 0 /\ Left = Call.size - data_offset
  BY <1>1 DEF Left, More
<1>3. cc \in UInt(16) /\ ContinuityCounter(counter[s]) = cc /\ Pid(s) \in EsPids
  BY StreamType DEF TypeInv
<1>4. RestRoom = 184
  BY DEF RestRoom, SIZE, HEADER_SIZE
<1>5. RestAfExist(Left) = e
  BY <1>2 DEF RestAfExist, SIZE
<1>6. /\ RestAf(Left) \in Nat /\ RestAf(Left) < 184 /\ n \in 1..Left
      /\ RestAfLength(Left) \in Nat /\ RestAfLength(Left) <= 182
      /\ Left >= 184 => RestAf(Left) = 0
      /\ Left < 184 => RestAf(Left) = RestAfLength(Left) + 1 /\ RestAf(Left) > 0
  BY <1>2, RestLayout
<1>7. /\ l \in UInt(256)
      /\ Left < 184 => RestAf(Left) = l + 1
  BY <1>2, <1>6 DEF UInt
<1>8. RestPacket(s) =
        [pid |-> Pid(s), pusi |-> FALSE, afe |-> e, cc |-> cc,
         af_length |-> l, af |-> RestAf(Left), pes |-> 0,
         pes_packet_length |-> 0, unit |-> Len(calls), from |-> data_offset,
         to |-> data_offset + n]
  BY <1>3, <1>5, Zenon DEF RestPacket, RestFrom
<1>9. e \in {1, 3} /\ 0 \in UInt(65536)
  BY <1>2 DEF UInt
<1> HIDE DEF cc, l, e, n
<1>10. data_offset + n \in 1..Call.size
  BY <1>1, <1>2, <1>6
<1>11. RestPacket(s) \in Packet
  BY <1>1, <1>3, <1>6, <1>7, <1>8, <1>9, <1>10 DEF Packet
<1>12. RestAf(Left) = 184 - n
  BY <1>4, <1>6 DEF n
<1> QED
  BY <1>2, <1>6, <1>7, <1>8, <1>10, <1>11, <1>12 DEF cc, e, n

\* Every step keeps the types and what the phases promise.
LEMMA TypeInvStep ==
  ASSUME TypeInv, [Next]_vars
  PROVE  TypeInv'
<1> DEFINE C == [stream: Streams, size: PayloadSizes, start: Nat]
<1> USE DEF TypeInv
<1>0. CounterMod \in Nat /\ CounterMod > 0
  BY CounterModAssumption
<1>1. CASE WriteTsStart
  <2>1. TablePacket(PAT_PID) \in Packet /\ TablePacket(PMT_PID) \in Packet
    BY DEF TablePacket, Packet, SIZE, HEADER_SIZE, UInt
  <2>2. out' \in Seq(Packet)
    BY <1>1, <2>1 DEF WriteTsStart, TypeOK
  <2>3. g_output_ts_count' \in UInt(CounterMod)
    BY <1>1, Counters DEF WriteTsStart, TypeOK
  <2>4. Call' = Call
    BY <1>1 DEF WriteTsStart, Call
  <2> QED
    BY <1>1, <2>2, <2>3, <2>4 DEF WriteTsStart, TypeOK, PhaseInv
<1>2. ASSUME NEW s \in Streams, NEW n \in PayloadSizes, Enter(s, n)
      PROVE  TypeInv'
  <2> DEFINE c == [stream |-> s, size |-> n, start |-> Len(out)]
  <2>1. c \in C
    BY DEF TypeOK
  <2>2. calls \in Seq(C) /\ calls' = Append(calls, c)
    BY <1>2 DEF Enter, TypeOK
  <2> HIDE DEF C, c
  <2>3. calls' \in Seq(C) /\ Len(calls') > 0
    BY <2>1, <2>2
  <2> QED
    BY <1>2, <2>3 DEF C, Enter, TypeOK, PhaseInv
<1>3. ASSUME NEW s \in Streams, Retry(s)
      PROVE  TypeInv'
  <2>1. Call.size \in Nat /\ stuffing_byte_size \in Nat
    BY <1>3, CallType DEF Retry, TypeOK
  <2>2. FirstRoom(stuffing_byte_size, s = "video") = 157 - stuffing_byte_size
    BY <1>3, <2>1, FirstLayout, StreamType DEF PhaseInv
  <2>3. Call.size < 157 - stuffing_byte_size
        /\ stuffing_byte_size' = 157 - stuffing_byte_size - Call.size
    BY <1>3, <2>2 DEF Retry, Delta
  <2>4. stuffing_byte_size = 0
    BY <1>3, <2>1, <2>3 DEF Retry, PhaseInv
  <2>5. stuffing_byte_size' \in Nat /\ stuffing_byte_size' <= 157
        /\ stuffing_byte_size' = 157 - Call.size
    BY <2>1, <2>3, <2>4
  <2>6. Decr(Incr(counter[s])) \in UInt(CounterMod)
    BY Counters, StreamType
  <2>7. counter' \in [Streams -> UInt(CounterMod)]
    BY <1>3, <2>6 DEF Retry, TypeOK
  <2>8. Call' = Call
    BY <1>3 DEF Retry, Call
  <2> QED
    BY <1>3, <2>5, <2>7, <2>8 DEF Retry, TypeOK, PhaseInv
<1>4. ASSUME NEW s \in Streams, WriteFirst(s)
      PROVE  TypeInv'
  <2> DEFINE room == FirstRoom(stuffing_byte_size, s = "video")
  <2>1. /\ FirstPacket(s) \in Packet
        /\ room \in Nat /\ room <= Call.size
    BY <1>4, FirstStep DEF WriteFirst
  <2>2. data_offset = 0 /\ data_offset' = data_offset + room
    BY <1>4 DEF WriteFirst, PhaseInv
  <2> HIDE DEF room
  <2>3. data_offset' \in Nat /\ data_offset' <= Call.size
    BY <2>1, <2>2
  <2>4. out' \in Seq(Packet)
    BY <1>4, <2>1 DEF WriteFirst, TypeOK
  <2>5. /\ counter' \in [Streams -> UInt(CounterMod)]
        /\ g_output_ts_count' \in UInt(CounterMod)
    BY <1>4, Counters DEF WriteFirst, TypeOK
  <2>6. Call' = Call
    BY <1>4 DEF WriteFirst, Call
  <2> QED
    BY <1>4, <2>3, <2>4, <2>5, <2>6 DEF WriteFirst, TypeOK, PhaseInv
<1>5. ASSUME NEW s \in Streams, WriteRest(s)
      PROVE  TypeInv'
  <2> DEFINE n == RestRoom - RestAf(Left)
  <2>1. /\ RestPacket(s) \in Packet
        /\ data_offset + n \in 1..Call.size
    BY <1>5, RestStep DEF WriteRest
  <2>2. Call.size \in Nat /\ data_offset' = data_offset + n
    BY <1>5, CallType DEF WriteRest
  <2> HIDE DEF n
  <2>3. data_offset' \in Nat /\ data_offset' <= Call.size
    BY <2>1, <2>2
  <2>4. out' \in Seq(Packet)
    BY <1>5, <2>1 DEF WriteRest, TypeOK
  <2>5. /\ counter' \in [Streams -> UInt(CounterMod)]
        /\ g_output_ts_count' \in UInt(CounterMod)
    BY <1>5, Counters DEF WriteRest, TypeOK
  <2>6. Call' = Call
    BY <1>5 DEF WriteRest, Call
  <2> QED
    BY <1>5, <2>3, <2>4, <2>5, <2>6 DEF WriteRest, TypeOK, PhaseInv
<1>6. CASE Return
  BY <1>6 DEF Return, TypeOK, PhaseInv
<1>7. CASE UNCHANGED vars
  <2>1. Call' = Call
    BY <1>7 DEF vars, Call
  <2> QED
    BY <1>7, <2>1 DEF vars, TypeOK, PhaseInv
<1> QED
  BY <1>1, <1>2, <1>3, <1>4, <1>5, <1>6, <1>7
     DEF Next, Serve, RetryVideo, WriteVideoFirst, WriteVideoRest, RetryAudio,
         WriteAudioFirst, WriteAudioRest, Streams

LEMMA TypeInvInit == Init => TypeInv
<1> SUFFICES ASSUME Init PROVE TypeInv
  OBVIOUS
<1>1. CounterMod \in Nat /\ CounterMod >= 16
  BY CounterModAssumption
<1>2. Start \in [Streams -> UInt(CounterMod)]
  BY <1>1, StartAssumption DEF UInt
<1> QED
  BY <1>1, <1>2 DEF Init, TypeInv, TypeOK, PhaseInv, UInt

\* What the writers keep has its types: the counters stay unsigned integers
\* through every retry and wrap-around, every packet's fields fit their widths.
THEOREM TypeCorrect == Spec => []TypeOK
<1>1. TypeInv /\ [Next]_vars => TypeInv'
  BY TypeInvStep
<1>2. TypeInv => TypeOK
  BY DEF TypeInv
<1> QED
  BY <1>1, <1>2, TypeInvInit, PTL DEF Spec

----------------------------------------------------------------------------
(* What is written.                                                        *)

\* What a step appends to the output.
LEMMA Appended ==
  ASSUME TypeInv, NEW p \in Packet, out' = Append(out, p)
  PROVE  /\ Len(out) \in Nat
         /\ Len(out') = Len(out) + 1
         /\ out'[Len(out)+1] = p
         /\ \A i \in 1..Len(out) : out'[i] = out[i]
<1>1. out \in Seq(Packet)
  BY DEF TypeInv, TypeOK
<1> QED
  BY <1>1

\* The tables are packets, and none of a stream.
LEMMA TablesAppended ==
  ASSUME TypeInv, WriteTsStart
  PROVE  /\ Len(out) \in Nat
         /\ Len(out') = Len(out) + 2
         /\ out'[Len(out)+1] = TablePacket(PAT_PID)
         /\ out'[Len(out)+2] = TablePacket(PMT_PID)
         /\ \A i \in 1..Len(out) : out'[i] = out[i]
<1>1. out \in Seq(Packet) /\ out' = out \o <<TablePacket(PAT_PID), TablePacket(PMT_PID)>>
  BY DEF WriteTsStart, TypeInv, TypeOK
<1> DEFINE a == TablePacket(PAT_PID)
           b == TablePacket(PMT_PID)
<1> HIDE DEF a, b
<1>2. out' = out \o <<a, b>>
  BY <1>1 DEF a, b
<1> QED
  BY <1>1, <1>2 DEF a, b

\* A packet as PacketsWellFormed wants it, of a call that has been made.
WellFormed(p) ==
  /\ Length(p) = SIZE
  /\ (p.afe = 3) <=> (p.af > 0)
  /\ p.af > 0 => p.af = p.af_length + 1
  /\ p.unit # 0 => /\ p.unit \in 1..Len(calls)
                   /\ p.from <= p.to /\ p.to <= calls[p.unit].size

WellFormedInv == \A i \in 1..Len(out) : WellFormed(out[i])

\* What is well formed stays so when a call is made.
LEMMA WellFormedKept ==
  ASSUME TypeInv, WellFormedInv,
         \/ UNCHANGED calls
         \/ \E c \in [stream: Streams, size: PayloadSizes, start: Nat] :
              calls' = Append(calls, c)
  PROVE  \A i \in 1..Len(out) : WellFormed(out[i])'
                                \/ out'[i] # out[i]
<1> SUFFICES ASSUME NEW i \in 1..Len(out), out'[i] = out[i]
             PROVE  WellFormed(out[i])'
  OBVIOUS
<1>1. WellFormed(out[i])
  BY DEF WellFormedInv
<1> DEFINE C == [stream: Streams, size: PayloadSizes, start: Nat]
<1>2. calls \in Seq(C)
  BY DEF TypeInv, TypeOK
<1>3. \A u \in 1..Len(calls) : u \in 1..Len(calls') /\ calls'[u] = calls[u]
  <2> HIDE DEF C
  <2>1. calls' = calls \/ \E c \in C : calls' = Append(calls, c)
    BY DEF C
  <2> QED
    BY <1>2, <2>1
<1> QED
  BY <1>1, <1>3 DEF WellFormed, Length

LEMMA WellFormedStep ==
  ASSUME TypeInv, WellFormedInv, [Next]_vars
  PROVE  WellFormedInv'
<1> USE DEF WellFormedInv
<1>1. CASE WriteTsStart
  <2>1. WellFormed(TablePacket(PAT_PID))' /\ WellFormed(TablePacket(PMT_PID))'
    BY DEF WellFormed, TablePacket, Length, SIZE, HEADER_SIZE
  <2>2. \A i \in 1..Len(out) : WellFormed(out[i])'
    BY <1>1, WellFormedKept, TablesAppended DEF WriteTsStart
  <2>3. \A i \in 1..Len(out') : i \in 1..Len(out) \/ i = Len(out)+1 \/ i = Len(out)+2
    BY <1>1, TablesAppended
  <2> QED
    BY <1>1, <2>1, <2>2, <2>3, TablesAppended
<1>2. ASSUME NEW s \in Streams, NEW n \in PayloadSizes, Enter(s, n)
      PROVE  WellFormedInv'
  <2>1. [stream |-> s, size |-> n, start |-> Len(out)]
           \in [stream: Streams, size: PayloadSizes, start: Nat]
    BY DEF TypeInv, TypeOK
  <2>2. out' = out
    BY <1>2 DEF Enter
  <2>3. \A i \in 1..Len(out) : WellFormed(out[i])'
    BY <1>2, <2>1, <2>2, WellFormedKept DEF Enter
  <2> QED
    BY <2>2, <2>3
<1>3. ASSUME NEW s \in Streams, Retry(s)
      PROVE  WellFormedInv'
  BY <1>3, WellFormedKept DEF Retry
<1>4. ASSUME NEW s \in Streams, WriteFirst(s)
      PROVE  WellFormedInv'
  <2>0. PICK p : p = FirstPacket(s)
    OBVIOUS
  <2>1. /\ p \in Packet
        /\ Length(p) = SIZE
        /\ p.afe = 3 /\ p.af > 0 /\ p.af = p.af_length + 1
        /\ p.from <= p.to /\ p.to <= Call.size
        /\ p.unit = Len(calls) /\ Len(calls) \in 1..Len(calls)
    <3>1. phase = "first" /\ Call.size >= FirstRoom(stuffing_byte_size, s = "video")
      BY <1>4 DEF WriteFirst
    <3>2. /\ p \in Packet
          /\ 157 - stuffing_byte_size \in Nat /\ 157 - stuffing_byte_size <= Call.size
          /\ p.afe = 3
          /\ p.af = 8 + stuffing_byte_size /\ p.af_length = 7 + stuffing_byte_size
          /\ p.pes = 19 /\ p.unit = Len(calls)
          /\ p.from = 0 /\ p.to = 157 - stuffing_byte_size
      BY <2>0, <3>1, FirstStep
    <3>3. Len(calls) \in Nat \ {0} /\ stuffing_byte_size \in Nat
      BY <3>1, CallType DEF TypeInv, TypeOK
    <3> QED
      BY <3>2, <3>3 DEF Length, SIZE, HEADER_SIZE
  <2>2. calls' = calls /\ out' = Append(out, p)
    BY <2>0, <1>4 DEF WriteFirst
  <2>3. WellFormed(p)'
    BY <2>1, <2>2 DEF WellFormed, Call, Length
  <2>4. /\ Len(out') = Len(out) + 1 /\ Len(out) \in Nat
        /\ out'[Len(out)+1] = p /\ \A i \in 1..Len(out) : out'[i] = out[i]
    BY <2>1, <2>2, Appended
  <2>5. \A i \in 1..Len(out) : WellFormed(out[i])'
    BY <2>2, <2>4, WellFormedKept
  <2>6. \A i \in 1..Len(out') : i \in 1..Len(out) \/ i = Len(out)+1
    BY <2>4
  <2> QED
    BY <2>3, <2>4, <2>5, <2>6
<1>5. ASSUME NEW s \in Streams, WriteRest(s)
      PROVE  WellFormedInv'
  <2> DEFINE n == RestRoom - RestAf(Left)
  <2>0. PICK p : p = RestPacket(s)
    OBVIOUS
  <2>1. /\ p \in Packet
        /\ Length(p) = SIZE
        /\ (p.afe = 3) <=> (p.af > 0)
        /\ p.af > 0 => p.af = p.af_length + 1
        /\ p.from <= p.to /\ p.to <= Call.size
        /\ p.unit = Len(calls) /\ Len(calls) \in 1..Len(calls)
    <3>1. phase = "rest" /\ More
      BY <1>5 DEF WriteRest
    <3>2. /\ p \in Packet
          /\ Left \in Nat
          /\ n \in 1..Left /\ data_offset + n \in 1..Call.size
          /\ p.afe = (IF Left < 184 THEN 3 ELSE 1)
          /\ p.af = 184 - n
          /\ Left < 184 => p.af = p.af_length + 1 /\ p.af > 0
          /\ Left >= 184 => p.af = 0
          /\ p.pes = 0 /\ p.unit = Len(calls)
          /\ p.from = data_offset /\ p.to = data_offset + n
      BY <2>0, <3>1, RestStep
    <3>3. Len(calls) \in Nat \ {0} /\ data_offset \in Nat /\ Call.size \in Nat
      BY <3>1, CallType DEF TypeInv, TypeOK
    <3> HIDE DEF n
    <3> QED
      BY <3>2, <3>3 DEF Length, SIZE, HEADER_SIZE
  <2>2. calls' = calls /\ out' = Append(out, p)
    BY <2>0, <1>5 DEF WriteRest
  <2>3. WellFormed(p)'
    BY <2>1, <2>2 DEF WellFormed, Call, Length
  <2>4. /\ Len(out') = Len(out) + 1 /\ Len(out) \in Nat
        /\ out'[Len(out)+1] = p /\ \A i \in 1..Len(out) : out'[i] = out[i]
    BY <2>1, <2>2, Appended
  <2>5. \A i \in 1..Len(out) : WellFormed(out[i])'
    BY <2>2, <2>4, WellFormedKept
  <2>6. \A i \in 1..Len(out') : i \in 1..Len(out) \/ i = Len(out)+1
    BY <2>4
  <2> QED
    BY <2>3, <2>4, <2>5, <2>6
<1>6. CASE Return
  BY <1>6, WellFormedKept DEF Return
<1>7. CASE UNCHANGED vars
  BY <1>7, WellFormedKept DEF vars
<1> QED
  BY <1>1, <1>2, <1>3, <1>4, <1>5, <1>6, <1>7
     DEF Next, Serve, RetryVideo, WriteVideoFirst, WriteVideoRest, RetryAudio,
         WriteAudioFirst, WriteAudioRest, Streams

\* Whatever the size of a payload, the writers produce packets of 188 bytes
\* whose header and adaptation field agree, cut from within the payload.
THEOREM WellFormedPackets == Spec => []PacketsWellFormed
<1>1. Init => WellFormedInv
  BY DEF Init, WellFormedInv
<1>2. TypeInv /\ WellFormedInv /\ [Next]_vars => TypeInv' /\ WellFormedInv'
  BY TypeInvStep, WellFormedStep
<1>3. WellFormedInv => PacketsWellFormed
  BY DEF WellFormedInv, WellFormed, PacketsWellFormed
<1> QED
  BY <1>1, <1>2, <1>3, TypeInvInit, PTL DEF Spec

----------------------------------------------------------------------------
(* Continuity.                                                             *)

\* The PIDs of the streams and of the tables are different.
LEMMA PidsDiffer ==
  /\ \A s, t \in Streams : Pid(s) = Pid(t) => s = t
  /\ \A s \in Streams : Pid(s) # PAT_PID /\ Pid(s) # PMT_PID
<1>1. Pid("video") = 256 /\ Pid("audio") = 257
  BY DEF Pid, ES_VIDEO_PID, ES_AUDIO_PID
<1> QED
  BY <1>1 DEF Streams, PAT_PID, PMT_PID

\* What is appended to a stream continues it and becomes its latest packet;
\* the other stream is left alone.
LEMMA ContinuityAppend ==
  ASSUME TypeInv, CounterContinuity, NEW s \in Streams, NEW p \in Packet,
         p.pid = Pid(s), p.cc = counter[s] % 16,
         out' = Append(out, p), counter' = [counter EXCEPT ![s] = Incr(@)]
  PROVE  CounterContinuity'
<1> DEFINE L == Len(out)
<1>1. /\ L \in Nat /\ Len(out') = L + 1 /\ out'[L+1] = p
      /\ \A i \in 1..L : out'[i] = out[i]
  BY Appended
<1>2. /\ counter'[s] % 16 = (p.cc + 1) % 16
      /\ \A t \in Streams : t # s => counter'[t] = counter[t]
  <2>1. counter'[s] = Incr(counter[s])
    BY DEF TypeInv, TypeOK
  <2>2. /\ Incr(counter[s]) % 16 = (counter[s] + 1) % 16
        /\ ((counter[s] % 16) + 1) % 16 = (counter[s] + 1) % 16
    BY Counters, StreamType DEF TypeInv
  <2> QED
    BY <2>1, <2>2 DEF TypeInv, TypeOK
<1> HIDE DEF L
<1> SUFFICES ASSUME NEW t \in Streams, NEW i \in 1..Len(out'), out'[i].pid = Pid(t)
             PROVE  /\ IsLatest(i, t)' => (out'[i].cc + 1) % 16 = counter'[t] % 16
                    /\ \A j \in i+1..Len(out') :
                         IsNext(i, j)' => out'[j].cc = (out'[i].cc + 1) % 16
  BY DEF CounterContinuity, IsLatest, IsNext
<1>3. CASE i = L + 1
  <2>1. t = s /\ out'[i] = p
    BY <1>1, <1>3, PidsDiffer
  <2>2. i+1..Len(out') = {}
    BY <1>1, <1>3
  <2> QED
    BY <1>2, <2>1, <2>2
<1>4. CASE i \in 1..L
  <2>1. /\ out'[i] = out[i]
        /\ IsLatest(i, t) => (out[i].cc + 1) % 16 = counter[t] % 16
        /\ \A j \in i+1..L : IsNext(i, j) => out[j].cc = (out[i].cc + 1) % 16
    BY <1>1, <1>4 DEF CounterContinuity, L
  <2>2. ASSUME IsLatest(i, t)'
        PROVE  t # s /\ IsLatest(i, t)
    <3>1. \A k \in i+1..L+1 : out'[k].pid # Pid(t)
      BY <1>1, <2>2 DEF IsLatest
    <3>2. L + 1 \in i+1..L+1 /\ \A k \in i+1..L : k \in i+1..L+1 /\ out'[k] = out[k]
      BY <1>1, <1>4
    <3>3. t # s
      BY <1>1, <3>1, <3>2
    <3>4. \A k \in i+1..L : out[k].pid # Pid(t)
      BY <3>1, <3>2
    <3> QED
      BY <3>3, <3>4 DEF IsLatest, L
  <2>3. ASSUME NEW j \in i+1..Len(out'), IsNext(i, j)'
        PROVE  out'[j].cc = (out'[i].cc + 1) % 16
    <3>1. /\ out'[j].pid = out'[i].pid
          /\ \A k \in i+1..j-1 : out'[k].pid # out'[i].pid
      BY <2>3 DEF IsNext
    <3>2. \A k \in i+1..j-1 : k \in 1..L /\ out'[k] = out[k]
      BY <1>1, <1>4
    <3>3. CASE j = L + 1
      <4>1. t = s /\ out'[j] = p
        BY <1>1, <2>1, <3>1, <3>3, PidsDiffer
      <4>2. j - 1 = L
        BY <1>1, <3>3
      <4>3. IsLatest(i, t)
        BY <2>1, <3>1, <3>2, <4>2 DEF IsLatest, L
      <4> QED
        BY <2>1, <4>1, <4>3
    <3>4. CASE j \in i+1..L
      <4>1. out'[j] = out[j]
        BY <1>1, <1>4, <3>4
      <4>2. IsNext(i, j)
        BY <2>1, <3>1, <3>2, <4>1 DEF IsNext
      <4> QED
        BY <2>1, <3>4, <4>1, <4>2
    <3>5. j = L + 1 \/ j \in i+1..L
      BY <1>1, <1>4
    <3> QED
      BY <3>3, <3>4, <3>5
  <2> QED
    BY <1>2, <2>1, <2>2, <2>3
<1> QED
  BY <1>1, <1>3, <1>4

\* The tables belong to no stream.
LEMMA ContinuityTables ==
  ASSUME TypeInv, CounterContinuity, WriteTsStart
  PROVE  CounterContinuity'
<1> DEFINE L == Len(out)
<1>1. /\ L \in Nat /\ Len(out') = L + 2
      /\ out'[L+1].pid = PAT_PID /\ out'[L+2].pid = PMT_PID
      /\ \A i \in 1..L : out'[i] = out[i]
      /\ counter' = counter
  BY TablesAppended DEF TablePacket, WriteTsStart
<1> HIDE DEF L
<1> SUFFICES ASSUME NEW t \in Streams, NEW i \in 1..Len(out'), out'[i].pid = Pid(t)
             PROVE  /\ IsLatest(i, t)' => (out'[i].cc + 1) % 16 = counter'[t] % 16
                    /\ \A j \in i+1..Len(out') :
                         IsNext(i, j)' => out'[j].cc = (out'[i].cc + 1) % 16
  BY DEF CounterContinuity, IsLatest, IsNext
<1>2. i \in 1..L
  BY <1>1, PidsDiffer
<1>3. /\ out'[i] = out[i]
      /\ IsLatest(i, t) => (out[i].cc + 1) % 16 = counter[t] % 16
      /\ \A j \in i+1..L : IsNext(i, j) => out[j].cc = (out[i].cc + 1) % 16
  BY <1>1, <1>2 DEF CounterContinuity, L
<1>4. ASSUME IsLatest(i, t)'
      PROVE  IsLatest(i, t)
  <2>1. \A k \in i+1..L : k \in i+1..Len(out') /\ out'[k] = out[k]
    BY <1>1, <1>2
  <2> QED
    BY <1>4, <2>1 DEF IsLatest, L
<1>5. ASSUME NEW j \in i+1..Len(out'), IsNext(i, j)'
      PROVE  j \in 1..L /\ IsNext(i, j)
  <2>1. /\ out'[j].pid = out'[i].pid
        /\ \A k \in i+1..j-1 : out'[k].pid # out'[i].pid
    BY <1>5 DEF IsNext
  <2>2. j \in 1..L
    BY <1>1, <1>2, <2>1, PidsDiffer
  <2>3. \A k \in i+1..j : out'[k] = out[k]
    BY <1>1, <1>2, <2>2
  <2> QED
    BY <1>2, <1>3, <2>1, <2>2, <2>3 DEF IsNext
<1> QED
  BY <1>1, <1>2, <1>3, <1>4, <1>5

LEMMA ContinuityStep ==
  ASSUME TypeInv, CounterContinuity, [Next]_vars
  PROVE  CounterContinuity'
<1>1. CASE WriteTsStart
  BY <1>1, ContinuityTables
<1>2. ASSUME NEW s \in Streams, WriteFirst(s)
      PROVE  CounterContinuity'
  <2>1. FirstPacket(s) \in Packet /\ FirstPacket(s).pid = Pid(s)
        /\ FirstPacket(s).cc = counter[s] % 16
    BY <1>2, FirstStep DEF WriteFirst
  <2> QED
    BY <1>2, <2>1, ContinuityAppend DEF WriteFirst
<1>3. ASSUME NEW s \in Streams, WriteRest(s)
      PROVE  CounterContinuity'
  <2>1. RestPacket(s) \in Packet /\ RestPacket(s).pid = Pid(s)
        /\ RestPacket(s).cc = counter[s] % 16
    BY <1>3, RestStep DEF WriteRest
  <2> QED
    BY <1>3, <2>1, ContinuityAppend DEF WriteRest
<1>4. ASSUME UNCHANGED <<out, counter>>
      PROVE  CounterContinuity'
  BY <1>4 DEF CounterContinuity, IsLatest, IsNext
<1>5. ASSUME NEW s \in Streams, Retry(s)
      PROVE  UNCHANGED <<out, counter>>
  <2>1. Decr(Incr(counter[s])) = counter[s]
    BY Counters, StreamType DEF TypeInv
  <2> QED
    BY <1>5, <2>1 DEF Retry, TypeInv, TypeOK
<1>6. ASSUME NEW s \in Streams, NEW n \in PayloadSizes, Enter(s, n)
      PROVE  UNCHANGED <<out, counter>>
  BY <1>6 DEF Enter
<1>7. Return \/ UNCHANGED vars => UNCHANGED <<out, counter>>
  BY DEF Return, vars
<1> QED
  BY <1>1, <1>2, <1>3, <1>4, <1>5, <1>6, <1>7
     DEF Next, Serve, RetryVideo, WriteVideoFirst, WriteVideoRest, RetryAudio,
         WriteAudioFirst, WriteAudioRest, Streams

\* The counter of a stream never skips nor repeats, through retries, tables
\* between the packets and any number of wrap-arounds of the 32-bit counter.
THEOREM ContinuityHolds == Spec => []CounterContinuity
<1>1. Init => CounterContinuity
  BY DEF Init, CounterContinuity
<1>2. TypeInv /\ CounterContinuity /\ [Next]_vars => TypeInv' /\ CounterContinuity'
  BY TypeInvStep, ContinuityStep
<1> QED
  BY <1>1, <1>2, TypeInvInit, PTL DEF Spec

----------------------------------------------------------------------------
(* The number of packets.                                                  *)

\* What a call has written and what it has still to write make up what
\* NumPackets computes from its size.
CallCount ==
  /\ phase = "first" => Len(out) = Call.start
  /\ phase = "rest"  => Len(out) - Call.start + RestPackets(Left) = NumPackets(Call.size)

\* g_output_ts_count is the number of packets, up to its wrap-around.
GlobalCount == \E n \in 0..Len(out) : Len(out) = g_output_ts_count + n * CounterMod

LEMMA RestPacketsType ==
  ASSUME NEW left \in Nat
  PROVE  RestPackets(left) \in Nat /\ RestPackets(0) = 0
<1>1. RestRoom = 184 /\ RestRoom - 1 = 183
  BY DEF RestRoom, SIZE, HEADER_SIZE
<1>2. left \div 184 \in Nat
  OBVIOUS
<1> QED
  BY <1>1, <1>2 DEF RestPackets

\* A first packet, stuffed or not, and the packets that follow it.
LEMMA FirstCount ==
  ASSUME NEW size \in Nat, NEW st \in Nat, st <= 157,
         st = 0 \/ st = 157 - size, size >= 157 - st
  PROVE  NumPackets(size) = 1 + RestPackets(size - (157 - st))
<1> DEFINE room == FirstRoom(0, TRUE)
<1>1. room = 157
  <2>1. \A pcr \in BOOLEAN : FirstRoom(0, pcr) = 157 - 0
    BY FirstLayout
  <2>2. room = 157 - 0
    BY <2>1, Zenon
  <2> HIDE DEF room
  <2> QED
    BY <2>2
<1>2. NumPackets(size) = IF size < room THEN 1 ELSE 1 + RestPackets(size - room)
  BY Zenon DEF NumPackets
<1> HIDE DEF room
<1>3. CASE size < 157
  <2>1. size - (157 - st) = 0
    BY <1>3
  <2>2. NumPackets(size) = 1
    BY <1>1, <1>2, <1>3
  <2> QED
    BY <2>1, <2>2, RestPacketsType
<1>4. CASE size >= 157
  <2>1. size - (157 - st) = size - room
    BY <1>1, <1>4
  <2>2. NumPackets(size) = 1 + RestPackets(size - room)
    BY <1>1, <1>2, <1>4
  <2> QED
    BY <2>1, <2>2
<1> QED
  BY <1>3, <1>4

LEMMA CallCountStep ==
  ASSUME TypeInv, CallCount, [Next]_vars
  PROVE  CallCount'
<1> DEFINE C == [stream: Streams, size: PayloadSizes, start: Nat]
<1>1. CASE WriteTsStart
  BY <1>1 DEF WriteTsStart, CallCount
<1>2. ASSUME NEW s \in Streams, NEW n \in PayloadSizes, Enter(s, n)
      PROVE  CallCount'
  <2> DEFINE c == [stream |-> s, size |-> n, start |-> Len(out)]
  <2>1. c \in C /\ calls \in Seq(C) /\ calls' = Append(calls, c)
    BY <1>2 DEF Enter, TypeInv, TypeOK
  <2>2. c.start = Len(out)
    OBVIOUS
  <2> HIDE DEF C, c
  <2>3. calls'[Len(calls')] = c
    BY <2>1
  <2>4. Call'.start = Len(out)
    BY <2>2, <2>3 DEF Call
  <2> QED
    BY <1>2, <2>4 DEF Enter, CallCount
<1>3. ASSUME NEW s \in Streams, Retry(s)
      PROVE  CallCount'
  BY <1>3 DEF Retry, CallCount, Call
<1>4. ASSUME NEW s \in Streams, WriteFirst(s)
      PROVE  CallCount'
  <2> DEFINE room == 157 - stuffing_byte_size
  <2>1. phase = "first" /\ Call.size >= FirstRoom(stuffing_byte_size, s = "video")
    BY <1>4 DEF WriteFirst
  <2>2. /\ FirstPacket(s) \in Packet
        /\ FirstRoom(stuffing_byte_size, s = "video") = room
        /\ room \in Nat /\ room <= Call.size
    BY <2>1, FirstStep
  <2>3. Call.size \in Nat /\ Call.start \in Nat
        /\ stuffing_byte_size \in Nat /\ stuffing_byte_size <= 157
    BY <2>1, CallType DEF TypeInv, TypeOK, PhaseInv
  <2>4. /\ data_offset = 0
        /\ stuffing_byte_size = 0 \/ stuffing_byte_size = 157 - Call.size
        /\ Len(out) = Call.start
    BY <2>1 DEF TypeInv, PhaseInv, CallCount
  <2>5. NumPackets(Call.size) = 1 + RestPackets(Call.size - room)
    BY <2>2, <2>3, <2>4, FirstCount
  <2>6. Len(out') = Len(out) + 1 /\ Len(out) \in Nat
    BY <1>4, <2>2, Appended DEF WriteFirst
  <2>7. Call' = Call /\ data_offset' = room /\ phase' = "rest"
    BY <1>4, <2>2, <2>4 DEF WriteFirst, Call
  <2>8. Left' = Call.size - room
    BY <2>7 DEF Left
  <2>9. RestPackets(Call.size - room) \in Nat
    BY <2>2, <2>3, RestPacketsType
  <2> HIDE DEF room
  <2>10. Len(out') - Call.start + RestPackets(Call.size - room) = NumPackets(Call.size)
    BY <2>3, <2>4, <2>5, <2>6, <2>9
  <2> QED
    BY <2>7, <2>8, <2>10 DEF CallCount
<1>5. ASSUME NEW s \in Streams, WriteRest(s)
      PROVE  CallCount'
  <2> DEFINE n == RestRoom - RestAf(Left)
  <2>1. phase = "rest" /\ More
    BY <1>5 DEF WriteRest
  <2>2. /\ RestPacket(s) \in Packet
        /\ Left \in Nat /\ Left > 0 /\ Left = Call.size - data_offset
        /\ n \in 1..Left
    BY <2>1, RestStep
  <2>3. RestPackets(Left) = 1 + RestPackets(Left - n)
    BY <2>2, RestPacketsStep
  <2>4. Len(out') = Len(out) + 1 /\ Len(out) \in Nat
    BY <1>5, <2>2, Appended DEF WriteRest
  <2>5. Call.size \in Nat /\ Call.start \in Nat /\ data_offset \in Nat
    BY <2>1, CallType DEF TypeInv, TypeOK
  <2>6. Call' = Call /\ data_offset' = data_offset + n /\ phase' = "rest"
    BY <1>5, <2>1 DEF WriteRest, Call
  <2>7. Left' = Call.size - (data_offset + n)
    BY <2>6 DEF Left
  <2> HIDE DEF n
  <2>8. Left - n \in Nat /\ Left' = Left - n
    BY <2>2, <2>5, <2>7
  <2>9. RestPackets(Left - n) \in Nat
    BY <2>8, RestPacketsType
  <2>10. Len(out) - Call.start + RestPackets(Left) = NumPackets(Call.size)
    BY <2>1 DEF CallCount
  <2>11. Len(out') - Call.start + RestPackets(Left - n) = NumPackets(Call.size)
    BY <2>3, <2>4, <2>5, <2>9, <2>10
  <2> QED
    BY <2>6, <2>8, <2>11 DEF CallCount
<1>6. CASE Return
  BY <1>6 DEF Return, CallCount
<1>7. CASE UNCHANGED vars
  BY <1>7 DEF vars, CallCount, Call, Left
<1> QED
  BY <1>1, <1>2, <1>3, <1>4, <1>5, <1>6, <1>7
     DEF Next, Serve, RetryVideo, WriteVideoFirst, WriteVideoRest, RetryAudio,
         WriteAudioFirst, WriteAudioRest, Streams

\* One more packet is one more on the counter, or a wrap-around.
LEMMA CountOne ==
  ASSUME NEW len \in Nat, NEW g \in UInt(CounterMod), NEW n \in 0..len,
         len = g + n * CounterMod
  PROVE  \E m \in 0..len+1 : len + 1 = Incr(g) + m * CounterMod
<1>1. CounterMod \in Nat /\ g \in Nat /\ n \in Nat
  BY CounterModAssumption DEF UInt
<1>2. CASE g + 1 = CounterMod
  <2>1. Incr(g) = 0
    BY <1>2 DEF Incr
  <2>2. (n + 1) * CounterMod = n * CounterMod + CounterMod
    BY <1>1
  <2>3. n * CounterMod \in Nat
    BY <1>1
  <2>4. len + 1 = Incr(g) + (n + 1) * CounterMod
    BY <1>1, <1>2, <2>1, <2>2, <2>3
  <2>5. n + 1 \in 0..len+1
    BY <1>1
  <2> QED
    BY <2>4, <2>5
<1>3. CASE g + 1 # CounterMod
  <2>1. Incr(g) = g + 1
    BY <1>3 DEF Incr
  <2>2. n * CounterMod \in Nat
    BY <1>1
  <2>3. len + 1 = Incr(g) + n * CounterMod
    BY <1>1, <2>1, <2>2
  <2> QED
    BY <1>1, <2>3
<1> QED
  BY <1>2, <1>3

LEMMA GlobalCountStep ==
  ASSUME TypeInv, GlobalCount, [Next]_vars
  PROVE  GlobalCount'
<1>1. Len(out) \in Nat /\ g_output_ts_count \in UInt(CounterMod)
  BY DEF TypeInv, TypeOK
<1>2. PICK n \in 0..Len(out) : Len(out) = g_output_ts_count + n * CounterMod
  BY DEF GlobalCount
<1>3. PICK m \in 0..Len(out)+1 :
        Len(out) + 1 = Incr(g_output_ts_count) + m * CounterMod
  BY <1>1, <1>2, CountOne
<1>4. ASSUME Len(out') = Len(out) + 1, g_output_ts_count' = Incr(g_output_ts_count)
      PROVE  GlobalCount'
  BY <1>3, <1>4 DEF GlobalCount
<1>5. CASE WriteTsStart
  <2>1. Incr(g_output_ts_count) \in UInt(CounterMod)
    BY <1>1, Counters
  <2>2. m \in 0..Len(out)+1 /\ Len(out) + 1 \in Nat
    BY <1>1, <1>3
  <2>3. \E k \in 0..(Len(out)+1)+1 :
          (Len(out) + 1) + 1 = Incr(Incr(g_output_ts_count)) + k * CounterMod
    BY <1>3, <2>1, <2>2, CountOne
  <2>4. Len(out') = (Len(out) + 1) + 1
    BY <1>1, <1>5, TablesAppended
  <2> QED
    BY <1>5, <2>3, <2>4 DEF WriteTsStart, GlobalCount
<1>6. ASSUME NEW s \in Streams, WriteFirst(s)
      PROVE  GlobalCount'
  <2>1. FirstPacket(s) \in Packet
    BY <1>6, FirstStep DEF WriteFirst
  <2> QED
    BY <1>4, <1>6, <2>1, Appended DEF WriteFirst
<1>7. ASSUME NEW s \in Streams, WriteRest(s)
      PROVE  GlobalCount'
  <2>1. RestPacket(s) \in Packet
    BY <1>7, RestStep DEF WriteRest
  <2> QED
    BY <1>4, <1>7, <2>1, Appended DEF WriteRest
<1>8. ASSUME UNCHANGED <<out, g_output_ts_count>>
      PROVE  GlobalCount'
  BY <1>8 DEF GlobalCount
<1>9. ASSUME NEW s \in Streams, Retry(s)
      PROVE  UNCHANGED <<out, g_output_ts_count>>
  BY <1>9 DEF Retry
<1>10. ASSUME NEW s \in Streams, NEW k \in PayloadSizes, Enter(s, k)
       PROVE  UNCHANGED <<out, g_output_ts_count>>
  BY <1>10 DEF Enter
<1>11. Return \/ UNCHANGED vars => UNCHANGED <<out, g_output_ts_count>>
  BY DEF Return, vars
<1> QED
  BY <1>5, <1>6, <1>7, <1>8, <1>9, <1>10, <1>11
     DEF Next, Serve, RetryVideo, WriteVideoFirst, WriteVideoRest, RetryAudio,
         WriteAudioFirst, WriteAudioRest, Streams

\* A call writes as many packets as NumPackets computes from the size alone,
\* and the global counter counts them: the indexer, which discards the
\* packets, and getts, which writes them, move their counters alike.
THEOREM PacketCountHolds == Spec => []PacketCount
<1>1. Init => CallCount /\ GlobalCount
  <2>1. 0 * CounterMod = 0
    BY CounterModAssumption
  <2>2. Init => /\ phase = "idle" /\ Len(out) = 0
                /\ 0 \in 0..Len(out) /\ g_output_ts_count = 0
    BY DEF Init
  <2> QED
    BY <2>1, <2>2 DEF CallCount, GlobalCount
<1>2. /\ TypeInv /\ CallCount /\ GlobalCount /\ [Next]_vars
      => TypeInv' /\ CallCount' /\ GlobalCount'
  BY TypeInvStep, CallCountStep, GlobalCountStep
<1>3. TypeInv /\ CallCount /\ GlobalCount => PacketCount
  <2> SUFFICES ASSUME TypeInv, CallCount, GlobalCount, Served
               PROVE  Len(out) - Call.start = NumPackets(Call.size)
    BY DEF PacketCount, GlobalCount
  <2>1. phase = "rest" /\ Left <= 0
    BY DEF Served
  <2>2. /\ Call.size \in Nat /\ Call.start \in Nat /\ data_offset \in Nat
        /\ Len(out) \in Nat
    BY <2>1, CallType DEF TypeInv, TypeOK
  <2>3. Left = 0
    BY <2>1, <2>2 DEF Left, TypeInv, PhaseInv
  <2>4. Len(out) - Call.start + 0 = NumPackets(Call.size)
    BY <2>1, <2>3, RestPacketsType DEF CallCount
  <2> QED
    BY <2>2, <2>4
<1> QED
  BY <1>1, <1>2, <1>3, TypeInvInit, PTL DEF Spec

----------------------------------------------------------------------------
(* The refinement of TsStream.  What the writers append to the output is,  *)
(* for every payload size and any number of calls, the payloads of the     *)
(* calls, complete and in order, each PID with its own continuous counter. *)

\* A sequence of packets, and the output, as TsStream sees it.
Wires(o) == [i \in 1..Len(o) |-> Wire(o[i])]
WireOut  == Wires(out)
WirePacket == {Wire(p) : p \in Packet}

----------------------------------------------------------------------------
(* The invariant that links the phases with what has been written.         *)

\* Call u is written to its end.
Done(u) == \E i \in 1..Len(out) : out[i].unit = u /\ out[i].to = calls[u].size

\* All calls are done but the one being served: none of its packets is
\* written in phase "first", and in phase "rest" the last packet of the output
\* is its latest and ends at data_offset.
CallsInv ==
  /\ \A u \in 1..Len(calls) : u < Len(calls) \/ phase = "idle" => Done(u)
  /\ phase = "first" => \A i \in 1..Len(out) : out[i].unit # Len(calls)
  /\ phase = "rest" =>
       /\ Len(out) > 0
       /\ out[Len(out)].unit = Len(calls) /\ out[Len(out)].to = data_offset
       /\ \A i \in 1..Len(out) : out[i].unit = Len(calls) => out[i].to <= data_offset

\* A stream has a latest packet, or none yet and its first counter.
LatestInv ==
  \A s \in Streams :
    \/ counter[s] = Start[s] /\ \A i \in 1..Len(out) : out[i].pid # Pid(s)
    \/ \E i \in 1..Len(out) : out[i].pid = Pid(s) /\ IsLatest(i, s)

\* One more packet of the call being served.
LEMMA CallsAppend ==
  ASSUME TypeInv, CallsInv, NEW p \in Packet,
         phase # "idle", p.unit = Len(calls), p.to = data_offset',
         phase = "rest" => data_offset <= data_offset', data_offset \in Nat,
         out' = Append(out, p), UNCHANGED calls, phase' = "rest"
  PROVE  CallsInv'
<1> DEFINE L == Len(out)
<1>1. /\ L \in Nat /\ Len(out') = L + 1 /\ out'[L+1] = p
      /\ \A i \in 1..L : out'[i] = out[i]
  BY Appended
<1>2. \A i \in 1..L : i \in 1..L+1
  BY <1>1
<1>3. \A i \in 1..L : out[i].to \in Nat
  <2>1. \A i \in 1..L : out[i] \in Packet
    BY DEF TypeInv, TypeOK
  <2>2. \A q \in Packet : q.to \in Nat
    BY DEF Packet
  <2> QED
    BY <2>1, <2>2
<1>4. p.to \in Nat
  BY DEF Packet
<1> HIDE DEF L
<1>5. \A u \in 1..Len(calls) : u < Len(calls) => Done(u)'
  <2> SUFFICES ASSUME NEW u \in 1..Len(calls), u < Len(calls)
               PROVE  Done(u)'
    OBVIOUS
  <2>1. PICK i \in 1..L : out[i].unit = u /\ out[i].to = calls[u].size
    BY DEF CallsInv, Done, L
  <2> QED
    BY <1>1, <1>2, <2>1 DEF Done
<1>6. \A i \in 1..Len(out') : out'[i].unit = Len(calls) => out'[i].to <= data_offset'
  <2> SUFFICES ASSUME NEW i \in 1..L+1, out'[i].unit = Len(calls)
               PROVE  out'[i].to <= data_offset'
    BY <1>1
  <2>1. CASE i = L + 1
    BY <1>1, <1>4, <2>1
  <2>2. CASE i \in 1..L
    <3>1. out[i].unit = Len(calls)
      BY <1>1, <2>2
    <3>2. phase = "rest"
      BY <2>2, <3>1 DEF CallsInv, TypeInv, TypeOK, L
    <3>3. out[i].to <= data_offset
      BY <2>2, <3>1, <3>2 DEF CallsInv, L
    <3> QED
      BY <1>1, <1>3, <1>4, <2>2, <3>2, <3>3
  <2> QED
    BY <1>1, <2>1, <2>2
<1>7. L + 1 > 0
  BY <1>1
<1> QED
  BY <1>1, <1>5, <1>6, <1>7 DEF CallsInv

LEMMA CallsStep ==
  ASSUME TypeInv, WellFormedInv, CallsInv, [Next]_vars
  PROVE  CallsInv'
<1> DEFINE C == [stream: Streams, size: PayloadSizes, start: Nat]
<1>0. Len(calls) \in Nat /\ calls \in Seq(C)
  BY DEF TypeInv, TypeOK
<1>1. CASE WriteTsStart
  <2>1. /\ Len(out') = Len(out) + 2 /\ Len(out) \in Nat
        /\ \A i \in 1..Len(out) : out'[i] = out[i]
    BY <1>1, TablesAppended
  <2>2. \A i \in 1..Len(out) : i \in 1..Len(out')
    BY <2>1
  <2>3. phase = "idle" /\ phase' = "idle" /\ calls' = calls
    BY <1>1 DEF WriteTsStart
  <2>4. \A u \in 1..Len(calls) : Done(u)'
    <3> SUFFICES ASSUME NEW u \in 1..Len(calls)
                 PROVE  Done(u)'
      OBVIOUS
    <3>1. PICK i \in 1..Len(out) : out[i].unit = u /\ out[i].to = calls[u].size
      BY <2>3 DEF CallsInv, Done
    <3> QED
      BY <2>1, <2>2, <2>3, <3>1 DEF Done
  <2> QED
    BY <2>3, <2>4 DEF CallsInv
<1>2. ASSUME NEW s \in Streams, NEW n \in PayloadSizes, Enter(s, n)
      PROVE  CallsInv'
  <2>1. PICK c \in C : calls' = Append(calls, c)
    <3>1. [stream |-> s, size |-> n, start |-> Len(out)] \in C
      BY DEF TypeInv, TypeOK
    <3> QED
      BY <1>2, <3>1 DEF Enter
  <2>2. phase = "idle" /\ phase' = "first" /\ out' = out
    BY <1>2 DEF Enter
  <2> HIDE DEF C
  <2>3. /\ Len(calls') = Len(calls) + 1
        /\ \A u \in 1..Len(calls) : calls'[u] = calls[u]
    BY <1>0, <2>1
  <2>4. \A u \in 1..Len(calls) : Done(u)'
    BY <2>2, <2>3 DEF CallsInv, Done
  <2>5. \A u \in 1..Len(calls') : u < Len(calls') => u \in 1..Len(calls)
    BY <1>0, <2>3
  <2>6. \A i \in 1..Len(out) : out[i].unit # Len(calls) + 1
    <3>1. \A i \in 1..Len(out) : out[i].unit = 0 \/ out[i].unit \in 1..Len(calls)
      BY DEF WellFormedInv, WellFormed
    <3> QED
      BY <1>0, <3>1
  <2> QED
    BY <2>2, <2>3, <2>4, <2>5, <2>6 DEF CallsInv
<1>3. ASSUME NEW s \in Streams, Retry(s)
      PROVE  CallsInv'
  BY <1>3 DEF Retry, CallsInv, Done
<1>4. ASSUME NEW s \in Streams, WriteFirst(s)
      PROVE  CallsInv'
  <2>1. phase = "first" /\ Call.size >= FirstRoom(stuffing_byte_size, s = "video")
    BY <1>4 DEF WriteFirst
  <2>2. /\ FirstPacket(s) \in Packet /\ FirstPacket(s).unit = Len(calls)
        /\ FirstPacket(s).to = 157 - stuffing_byte_size
        /\ 157 - stuffing_byte_size \in Nat
        /\ FirstRoom(stuffing_byte_size, s = "video") = 157 - stuffing_byte_size
    BY <2>1, FirstStep
  <2>3. data_offset = 0
    BY <2>1 DEF TypeInv, PhaseInv
  <2>4. /\ data_offset' = 157 - stuffing_byte_size
        /\ phase' = "rest" /\ calls' = calls /\ out' = Append(out, FirstPacket(s))
    BY <1>4, <2>2, <2>3 DEF WriteFirst
  <2> QED
    BY <2>1, <2>2, <2>3, <2>4, CallsAppend
<1>5. ASSUME NEW s \in Streams, WriteRest(s)
      PROVE  CallsInv'
  <2> DEFINE n == RestRoom - RestAf(Left)
  <2>1. phase = "rest" /\ More
    BY <1>5 DEF WriteRest
  <2>2. /\ RestPacket(s) \in Packet /\ RestPacket(s).unit = Len(calls)
        /\ RestPacket(s).to = data_offset + n
        /\ n \in 1..Left /\ Left \in Nat
    BY <2>1, RestStep
  <2>3. /\ data_offset' = data_offset + n
        /\ phase' = "rest" /\ calls' = calls /\ out' = Append(out, RestPacket(s))
    BY <1>5 DEF WriteRest
  <2>4. data_offset \in Nat
    BY DEF TypeInv, TypeOK
  <2> HIDE DEF n
  <2>5. data_offset <= data_offset'
    BY <2>2, <2>3, <2>4
  <2> QED
    BY <2>1, <2>2, <2>3, <2>4, <2>5, CallsAppend
<1>6. CASE Return
  <2>1. phase = "rest" /\ ~More /\ phase' = "idle" /\ UNCHANGED <<calls, out>>
    BY <1>6 DEF Return
  <2>2. data_offset = Call.size
    BY <2>1, CallType DEF More, TypeInv, TypeOK, PhaseInv
  <2>3. Len(out) \in Nat /\ Len(out) > 0 /\ Len(calls) \in Nat
    BY <2>1 DEF CallsInv, TypeInv, TypeOK
  <2>4. Done(Len(calls))
    BY <2>1, <2>2, <2>3 DEF CallsInv, Done, Call
  <2>5. \A u \in 1..Len(calls) : u < Len(calls) \/ u = Len(calls)
    BY <2>3
  <2>6. \A u \in 1..Len(calls) : Done(u)
    BY <2>4, <2>5 DEF CallsInv
  <2> QED
    BY <2>1, <2>6 DEF CallsInv, Done
<1>7. CASE UNCHANGED vars
  BY <1>7 DEF vars, CallsInv, Done
<1> QED
  BY <1>1, <1>2, <1>3, <1>4, <1>5, <1>6, <1>7
     DEF Next, Serve, RetryVideo, WriteVideoFirst, WriteVideoRest, RetryAudio,
         WriteAudioFirst, WriteAudioRest, Streams

\* One more packet of stream s.
LEMMA LatestAppend ==
  ASSUME TypeInv, LatestInv, NEW s \in Streams, NEW p \in Packet,
         p.pid = Pid(s), out' = Append(out, p),
         \A t \in Streams : t # s => counter'[t] = counter[t]
  PROVE  LatestInv'
<1> DEFINE L == Len(out)
<1>1. /\ L \in Nat /\ Len(out') = L + 1 /\ out'[L+1] = p
      /\ \A i \in 1..L : out'[i] = out[i]
  BY Appended
<1> HIDE DEF L
<1> SUFFICES ASSUME NEW t \in Streams
             PROVE  \/ /\ counter'[t] = Start[t]
                       /\ \A i \in 1..Len(out') : out'[i].pid # Pid(t)
                    \/ \E i \in 1..Len(out') : out'[i].pid = Pid(t) /\ IsLatest(i, t)'
  BY DEF LatestInv, IsLatest
<1>2. CASE t = s
  <2>1. L + 1 \in 1..Len(out') /\ (L+1)+1..Len(out') = {}
    BY <1>1
  <2> QED
    BY <1>1, <1>2, <2>1 DEF IsLatest
<1>3. CASE t # s
  <2>1. p.pid # Pid(t)
    BY <1>3, PidsDiffer
  <2>2. CASE counter[t] = Start[t] /\ \A i \in 1..L : out[i].pid # Pid(t)
    BY <1>1, <1>3, <2>1, <2>2
  <2>3. CASE \E i \in 1..L : out[i].pid = Pid(t) /\ IsLatest(i, t)
    <3>1. PICK i \in 1..L : out[i].pid = Pid(t) /\ IsLatest(i, t)
      BY <2>3
    <3>2. i \in 1..Len(out') /\ out'[i].pid = Pid(t)
      BY <1>1, <3>1
    <3>3. \A k \in i+1..Len(out') : k = L + 1 \/ (k \in i+1..L /\ out'[k] = out[k])
      BY <1>1
    <3>4. IsLatest(i, t)'
      BY <1>1, <2>1, <3>1, <3>3 DEF IsLatest, L
    <3> QED
      BY <3>2, <3>4
  <2> QED
    BY <2>2, <2>3 DEF LatestInv, L
<1> QED
  BY <1>2, <1>3

LEMMA LatestStep ==
  ASSUME TypeInv, LatestInv, [Next]_vars
  PROVE  LatestInv'
<1>1. CASE WriteTsStart
  <2> DEFINE L == Len(out)
  <2>1. /\ L \in Nat /\ Len(out') = L + 2
        /\ out'[L+1].pid = PAT_PID /\ out'[L+2].pid = PMT_PID
        /\ \A i \in 1..L : out'[i] = out[i]
        /\ counter' = counter
    BY <1>1, TablesAppended DEF TablePacket, WriteTsStart
  <2> HIDE DEF L
  <2> SUFFICES ASSUME NEW t \in Streams
               PROVE  \/ /\ counter'[t] = Start[t]
                         /\ \A i \in 1..Len(out') : out'[i].pid # Pid(t)
                      \/ \E i \in 1..Len(out') : out'[i].pid = Pid(t) /\ IsLatest(i, t)'
    BY DEF LatestInv, IsLatest
  <2>2. /\ \A k \in 1..Len(out') : k = L + 1 \/ k = L + 2 \/ k \in 1..L
        /\ out'[L+1].pid # Pid(t) /\ out'[L+2].pid # Pid(t)
    BY <2>1, PidsDiffer
  <2>3. CASE counter[t] = Start[t] /\ \A i \in 1..L : out[i].pid # Pid(t)
    BY <2>1, <2>2, <2>3
  <2>4. CASE \E i \in 1..L : out[i].pid = Pid(t) /\ IsLatest(i, t)
    <3>1. PICK i \in 1..L : out[i].pid = Pid(t) /\ IsLatest(i, t)
      BY <2>4
    <3>2. i \in 1..Len(out') /\ out'[i].pid = Pid(t)
      BY <2>1, <3>1
    <3>3. \A k \in i+1..Len(out') :
            k = L + 1 \/ k = L + 2 \/ (k \in i+1..L /\ out'[k] = out[k])
      BY <2>1
    <3>4. IsLatest(i, t)'
      BY <2>1, <2>2, <3>1, <3>3 DEF IsLatest, L
    <3> QED
      BY <3>2, <3>4
  <2> QED
    BY <2>3, <2>4 DEF LatestInv, L
<1>2. ASSUME NEW s \in Streams, WriteFirst(s)
      PROVE  LatestInv'
  <2>1. FirstPacket(s) \in Packet /\ FirstPacket(s).pid = Pid(s)
    BY <1>2, FirstStep DEF WriteFirst
  <2>2. /\ out' = Append(out, FirstPacket(s))
        /\ \A t \in Streams : t # s => counter'[t] = counter[t]
    BY <1>2 DEF WriteFirst, TypeInv, TypeOK
  <2> QED
    BY <2>1, <2>2, LatestAppend
<1>3. ASSUME NEW s \in Streams, WriteRest(s)
      PROVE  LatestInv'
  <2>1. RestPacket(s) \in Packet /\ RestPacket(s).pid = Pid(s)
    BY <1>3, RestStep DEF WriteRest
  <2>2. /\ out' = Append(out, RestPacket(s))
        /\ \A t \in Streams : t # s => counter'[t] = counter[t]
    BY <1>3 DEF WriteRest, TypeInv, TypeOK
  <2> QED
    BY <2>1, <2>2, LatestAppend
<1>4. ASSUME UNCHANGED <<out, counter>>
      PROVE  LatestInv'
  BY <1>4 DEF LatestInv, IsLatest
<1>5. ASSUME NEW s \in Streams, Retry(s)
      PROVE  UNCHANGED <<out, counter>>
  <2>1. Decr(Incr(counter[s])) = counter[s]
    BY Counters, StreamType DEF TypeInv
  <2> QED
    BY <1>5, <2>1 DEF Retry, TypeInv, TypeOK
<1>6. ASSUME NEW s \in Streams, NEW n \in PayloadSizes, Enter(s, n)
      PROVE  UNCHANGED <<out, counter>>
  BY <1>6 DEF Enter
<1>7. Return \/ UNCHANGED vars => UNCHANGED <<out, counter>>
  BY DEF Return, vars
<1> QED
  BY <1>1, <1>2, <1>3, <1>4, <1>5, <1>6, <1>7
     DEF Next, Serve, RetryVideo, WriteVideoFirst, WriteVideoRest, RetryAudio,
         WriteAudioFirst, WriteAudioRest, Streams

IInv == /\ TypeInv
        /\ WellFormedInv
        /\ CounterContinuity
        /\ CallsInv
        /\ LatestInv

LEMMA IInvInit == Init => IInv
<1> SUFFICES ASSUME Init PROVE IInv
  OBVIOUS
<1>1. TypeInv
  BY TypeInvInit
<1>2. calls = <<>> /\ out = <<>> /\ phase = "idle" /\ counter = Start
  BY DEF Init
<1> QED
  BY <1>1, <1>2 DEF IInv, WellFormedInv, CounterContinuity, CallsInv, LatestInv

LEMMA IInvStep ==
  ASSUME IInv, [Next]_vars
  PROVE  IInv'
BY TypeInvStep, WellFormedStep, ContinuityStep, CallsStep, LatestStep DEF IInv

----------------------------------------------------------------------------
(* The steps of the writers as steps of TsStream.                          *)

\* The fields of a packet of the stream.
LEMMA WireFields ==
  ASSUME NEW p
  PROVE  /\ Wire(p).pid = p.pid /\ Wire(p).pusi = p.pusi /\ Wire(p).cc = p.cc
         /\ Wire(p).unit = p.unit /\ Wire(p).from = p.from /\ Wire(p).to = p.to
         /\ Wire(p).length = Length(p)
BY DEF Wire

\* The packets of the stream are those of the output.
LEMMA WiresType ==
  ASSUME NEW o \in Seq(Packet)
  PROVE  /\ Len(o) \in Nat
         /\ Wires(o) \in Seq(WirePacket)
         /\ Len(Wires(o)) = Len(o)
         /\ \A i \in 1..Len(o) : o[i] \in Packet /\ Wires(o)[i] = Wire(o[i])
<1>1. Len(o) \in Nat /\ \A i \in 1..Len(o) : o[i] \in Packet
  OBVIOUS
<1>2. \A i \in 1..Len(o) : Wire(o[i]) \in WirePacket
  BY <1>1 DEF WirePacket
<1>3. Wires(o) \in [1..Len(o) -> WirePacket]
  BY <1>2 DEF Wires
<1>4. Wires(o) \in Seq(WirePacket)
  BY <1>1, <1>3, SeqDef
<1>5. DOMAIN Wires(o) = 1..Len(o) /\ Len(Wires(o)) \in Nat
      /\ DOMAIN Wires(o) = 1..Len(Wires(o))
  BY <1>3, <1>4, LenProperties
<1>6. Len(Wires(o)) = Len(o)
  BY <1>1, <1>5
<1> QED
  BY <1>1, <1>4, <1>6 DEF Wires

\* Appending a packet appends a packet of the stream.
LEMMA WiresAppend ==
  ASSUME NEW o \in Seq(Packet), NEW p \in Packet
  PROVE  Wires(Append(o, p)) = Append(Wires(o), Wire(p))
<1> DEFINE q == Append(o, p)
           w == Append(Wires(o), Wire(p))
<1>1. /\ q \in Seq(Packet) /\ Len(q) = Len(o) + 1
      /\ \A i \in 1..Len(o) : q[i] = o[i]
      /\ q[Len(o)+1] = p
  BY AppendProperties
<1>2. Wire(p) \in WirePacket
  BY DEF WirePacket
<1>3. /\ Len(o) \in Nat
      /\ Wires(o) \in Seq(WirePacket) /\ Len(Wires(o)) = Len(o)
      /\ \A i \in 1..Len(o) : Wires(o)[i] = Wire(o[i])
  BY WiresType
<1>4. /\ w \in Seq(WirePacket) /\ Len(w) = Len(o) + 1
      /\ \A i \in 1..Len(o) : w[i] = Wires(o)[i]
      /\ w[Len(o)+1] = Wire(p)
  BY <1>2, <1>3, AppendProperties
<1> HIDE DEF q, w
<1>5. /\ Wires(q) \in Seq(WirePacket) /\ Len(Wires(q)) = Len(q)
      /\ \A i \in 1..Len(q) : Wires(q)[i] = Wire(q[i])
  BY <1>1, WiresType
<1>6. \A i \in 1..Len(o)+1 : i \in 1..Len(o) \/ i = Len(o)+1
  BY <1>3
<1>7. \A i \in 1..Len(Wires(q)) : Wires(q)[i] = w[i]
  BY <1>1, <1>3, <1>4, <1>5, <1>6
<1>8. Wires(q) = w
  BY <1>1, <1>4, <1>5, <1>7, SeqEqual
<1> QED
  BY <1>8 DEF q, w

\* TsStream and TsWrite take their PIDs and sizes from the same TsPacket.
LEMMA SamePackets ==
  /\ Stream!SIZE = SIZE /\ Stream!Streams = Streams
  /\ Stream!PAT_PID = PAT_PID /\ Stream!PMT_PID = PMT_PID
  /\ \A s : Stream!Pid(s) = Pid(s)
BY DEF Stream!SIZE, SIZE, Stream!Streams, Streams, Stream!PAT_PID, PAT_PID,
       Stream!PMT_PID, PMT_PID, Stream!Pid, Pid, Stream!ES_VIDEO_PID, ES_VIDEO_PID,
       Stream!ES_AUDIO_PID, ES_AUDIO_PID

\* A call is complete in the stream when it is done.
LEMMA CompleteIsDone ==
  ASSUME TypeInv, NEW u
  PROVE  Stream!Complete(u) <=> Done(u)
<1>1. out \in Seq(Packet)
  BY DEF TypeInv, TypeOK
<1>2. /\ Len(WireOut) = Len(out)
      /\ \A i \in 1..Len(out) : WireOut[i] = Wire(out[i])
  BY <1>1, WiresType DEF WireOut
<1>3. Stream!Complete(u) <=>
        \E i \in 1..Len(WireOut) : WireOut[i].unit = u /\ WireOut[i].to = calls[u].size
  BY DEF Stream!Complete, WireOut, Wires
<1> QED
  BY <1>2, <1>3, WireFields DEF Done

\* A packet that carries the counter of its stream continues the stream.
LEMMA CounterContinues ==
  ASSUME IInv, NEW s \in Streams, NEW p, p.cc = counter[s] % 16
  PROVE  Stream!Continues(Wire(p), s)
<1>1. out \in Seq(Packet)
  BY DEF IInv, TypeInv, TypeOK
<1>2. /\ Len(WireOut) = Len(out) /\ Len(out) \in Nat
      /\ \A i \in 1..Len(out) : WireOut[i] = Wire(out[i])
  BY <1>1, WiresType DEF WireOut
<1>3. \A i \in 1..Len(out) : WireOut[i].pid = out[i].pid /\ WireOut[i].cc = out[i].cc
  BY <1>2, WireFields
<1>4. Stream!Continues(Wire(p), s) <=>
        IF \E i \in 1..Len(WireOut) : WireOut[i].pid = Pid(s)
          THEN \E i \in 1..Len(WireOut) :
                 /\ WireOut[i].pid = Pid(s)
                 /\ \A j \in i+1..Len(WireOut) : WireOut[j].pid # Pid(s)
                 /\ Wire(p).cc = (WireOut[i].cc + 1) % 16
          ELSE Wire(p).cc = Start[s]
  BY SamePackets DEF Stream!Continues, Stream!IsLatest, WireOut, Wires
<1>5. CASE counter[s] = Start[s] /\ \A i \in 1..Len(out) : out[i].pid # Pid(s)
  <2>1. Start[s] % 16 = Start[s]
    <3>1. Start[s] \in Nat /\ Start[s] < 16
      BY StartAssumption DEF UInt
    <3> QED
      BY <3>1
  <2>2. Wire(p).cc = Start[s]
    BY <1>5, <2>1, WireFields
  <2> QED
    BY <1>2, <1>3, <1>4, <1>5, <2>2
<1>6. CASE \E i \in 1..Len(out) : out[i].pid = Pid(s) /\ IsLatest(i, s)
  <2>1. PICK i \in 1..Len(out) : out[i].pid = Pid(s) /\ IsLatest(i, s)
    BY <1>6
  <2>2. (out[i].cc + 1) % 16 = counter[s] % 16
    BY <2>1 DEF IInv, CounterContinuity
  <2>3. /\ WireOut[i].pid = Pid(s)
        /\ Wire(p).cc = (WireOut[i].cc + 1) % 16
    BY <1>3, <2>1, <2>2, WireFields
  <2>4. \A j \in i+1..Len(out) : WireOut[j].pid # Pid(s)
    BY <1>2, <1>3, <2>1 DEF IsLatest
  <2> QED
    BY <1>2, <1>4, <2>1, <2>3, <2>4
<1> QED
  BY <1>5, <1>6 DEF IInv, LatestInv

\* A packet that carries the next bytes of its call follows the previous one.
LEMMA BytesFollow ==
  ASSUME IInv, NEW p \in Packet,
         \/ phase = "first" /\ p.pusi /\ p.from = 0
         \/ phase = "rest" /\ ~p.pusi /\ p.from = data_offset /\ p.to > p.from
  PROVE  Stream!Follows(Wire(p), Len(calls))
<1>1. out \in Seq(Packet)
  BY DEF IInv, TypeInv, TypeOK
<1>2. /\ Len(WireOut) = Len(out) /\ Len(out) \in Nat
      /\ \A i \in 1..Len(out) : WireOut[i] = Wire(out[i])
  BY <1>1, WiresType DEF WireOut
<1>3. \A i \in 1..Len(out) : WireOut[i].unit = out[i].unit /\ WireOut[i].to = out[i].to
  BY <1>2, WireFields
<1>4. Stream!Follows(Wire(p), Len(calls)) <=>
        IF \E i \in 1..Len(WireOut) : WireOut[i].unit = Len(calls)
          THEN /\ WireOut[Len(WireOut)].unit = Len(calls)
               /\ ~Wire(p).pusi
               /\ Wire(p).from = WireOut[Len(WireOut)].to
               /\ Wire(p).to > Wire(p).from
          ELSE Wire(p).pusi /\ Wire(p).from = 0
  BY DEF Stream!Follows, WireOut, Wires
<1>5. CASE phase = "first" /\ p.pusi /\ p.from = 0
  <2>1. \A i \in 1..Len(out) : out[i].unit # Len(calls)
    BY <1>5 DEF IInv, CallsInv
  <2>2. Wire(p).pusi /\ Wire(p).from = 0
    BY <1>5, WireFields
  <2> QED
    BY <1>2, <1>3, <1>4, <2>1, <2>2
<1>6. CASE phase = "rest" /\ ~p.pusi /\ p.from = data_offset /\ p.to > p.from
  <2>1. /\ Len(out) > 0
        /\ out[Len(out)].unit = Len(calls) /\ out[Len(out)].to = data_offset
    BY <1>6 DEF IInv, CallsInv
  <2>2. Len(out) \in 1..Len(out)
    BY <1>2, <2>1
  <2>3. /\ WireOut[Len(WireOut)].unit = Len(calls)
        /\ WireOut[Len(WireOut)].to = data_offset
    BY <1>2, <1>3, <2>1, <2>2
  <2>4. ~Wire(p).pusi /\ Wire(p).from = data_offset /\ Wire(p).to > Wire(p).from
    BY <1>6, WireFields
  <2> QED
    BY <1>2, <1>4, <2>2, <2>3, <2>4
<1> QED
  BY <1>5, <1>6

\* A call that has bytes left, or no packet yet, is not done.
LEMMA NotDone ==
  ASSUME IInv, phase = "first" \/ (phase = "rest" /\ More)
  PROVE  ~Done(Len(calls))
<1>1. CASE phase = "first"
  BY <1>1 DEF IInv, CallsInv, Done
<1>2. CASE phase = "rest" /\ More
  <2>1. Call.size \in Nat /\ data_offset \in Nat
    BY <1>2, CallType DEF IInv, TypeInv, TypeOK
  <2>2. \A i \in 1..Len(out) : out[i].unit = Len(calls) => out[i].to <= data_offset
    BY <1>2 DEF IInv, CallsInv
  <2>3. data_offset < Call.size
    BY <1>2 DEF More
  <2> QED
    BY <2>1, <2>2, <2>3 DEF Done, Call
<1> QED
  BY <1>1, <1>2

\* One packet is one Emit.
LEMMA EmitStep ==
  ASSUME IInv, NEW s \in Streams, NEW p \in Packet,
         phase # "idle", Call.stream = s,
         p.unit = Len(calls), p.pid = Pid(s), p.cc = counter[s] % 16,
         Length(p) = SIZE, p.to <= Call.size, ~Done(Len(calls)),
         \/ phase = "first" /\ p.pusi /\ p.from = 0
         \/ phase = "rest" /\ ~p.pusi /\ p.from = data_offset /\ p.to > p.from,
         out' = Append(out, p), UNCHANGED calls
  PROVE  Stream!Emit
<1> DEFINE w == Wire(p)
           u == Len(calls)
<1>1. out \in Seq(Packet)
  BY DEF IInv, TypeInv, TypeOK
<1>2. WireOut' = Append(WireOut, w)
  BY <1>1, WiresAppend DEF WireOut
<1>3. /\ WireOut \in Seq(WirePacket) /\ w \in WirePacket
  BY <1>1, WiresType DEF WireOut, WirePacket
<1>4. /\ Len(WireOut') = Len(WireOut) + 1
      /\ WireOut'[Len(WireOut')] = w
  BY <1>2, <1>3, AppendProperties
<1>5. u > 0
  BY CallType DEF IInv, TypeInv
<1>6. ~Stream!Complete(u)
  BY CompleteIsDone DEF IInv
<1>7. Stream!Continues(w, calls[u].stream)
  BY CounterContinues DEF Call
<1>8. Stream!Follows(w, u)
  BY BytesFollow
<1>9. /\ w.unit = u /\ w.pid = Pid(calls[u].stream) /\ w.length = SIZE
      /\ w.to <= calls[u].size
  BY WireFields DEF Call
<1> HIDE DEF w, u
<1>10. /\ Len(WireOut') = Len(WireOut) + 1
       /\ WireOut' = Append(WireOut, WireOut'[Len(WireOut')])
       /\ u > 0 /\ ~Stream!Complete(u)
       /\ WireOut'[Len(WireOut')].unit = u
       /\ WireOut'[Len(WireOut')].pid = Pid(calls[u].stream)
       /\ WireOut'[Len(WireOut')].length = SIZE
       /\ Stream!Continues(WireOut'[Len(WireOut')], calls[u].stream)
       /\ Stream!Follows(WireOut'[Len(WireOut')], u)
       /\ WireOut'[Len(WireOut')].to <= calls[u].size
  BY <1>2, <1>4, <1>5, <1>6, <1>7, <1>8, <1>9
<1> QED
  BY <1>10, SamePackets, Zenon DEF Stream!Emit, WireOut, Wires, u

\* Between two calls everything is complete.
LEMMA IdleComplete ==
  ASSUME IInv, phase = "idle"
  PROVE  Stream!AllComplete
BY CompleteIsDone DEF IInv, CallsInv, Stream!AllComplete

LEMMA TablesStep ==
  ASSUME IInv, WriteTsStart
  PROVE  Stream!Tables
<1> DEFINE a == TablePacket(PAT_PID)
           b == TablePacket(PMT_PID)
<1>1. out \in Seq(Packet)
  BY DEF IInv, TypeInv, TypeOK
<1>2. a \in Packet /\ b \in Packet
  BY DEF TablePacket, Packet, SIZE, HEADER_SIZE, UInt
<1>3. /\ a.pid = PAT_PID /\ a.unit = 0 /\ a.pusi /\ Length(a) = SIZE
      /\ b.pid = PMT_PID /\ b.unit = 0 /\ b.pusi /\ Length(b) = SIZE
  BY DEF TablePacket, Length, SIZE, HEADER_SIZE
<1> HIDE DEF a, b
<1>4. out' = Append(Append(out, a), b)
  <2>1. out' = out \o <<a, b>>
    BY DEF WriteTsStart, a, b
  <2> QED
    BY <1>1, <1>2, <2>1
<1>5. Append(out, a) \in Seq(Packet)
  BY <1>1, <1>2
<1>6. WireOut' = Append(Append(WireOut, Wire(a)), Wire(b))
  BY <1>1, <1>2, <1>4, <1>5, WiresAppend DEF WireOut
<1>7. /\ WireOut \in Seq(WirePacket)
      /\ Wire(a) \in WirePacket /\ Wire(b) \in WirePacket
  BY <1>1, <1>2, WiresType DEF WireOut, WirePacket
<1>8. /\ Len(WireOut') = Len(WireOut) + 2
      /\ WireOut'[Len(WireOut) + 1] = Wire(a)
      /\ WireOut'[Len(WireOut) + 2] = Wire(b)
      /\ WireOut' = WireOut \o <<Wire(a), Wire(b)>>
  BY <1>6, <1>7
<1>9. /\ Wire(a).pid = PAT_PID /\ Wire(b).pid = PMT_PID
      /\ \A p \in {Wire(a), Wire(b)} : p.unit = 0 /\ p.pusi /\ p.length = SIZE
  BY <1>3, WireFields
<1>10. Stream!AllComplete /\ UNCHANGED calls
  BY IdleComplete DEF WriteTsStart
<1>11. /\ Len(WireOut') = Len(WireOut) + 2
       /\ WireOut' = WireOut \o <<WireOut'[Len(WireOut) + 1], WireOut'[Len(WireOut) + 2]>>
       /\ WireOut'[Len(WireOut) + 1].pid = PAT_PID
       /\ WireOut'[Len(WireOut) + 2].pid = PMT_PID
       /\ \A p \in {WireOut'[Len(WireOut) + 1], WireOut'[Len(WireOut) + 2]} :
            p.unit = 0 /\ p.pusi /\ p.length = SIZE
  BY <1>8, <1>9
<1> QED
  BY <1>10, <1>11, SamePackets, Zenon DEF Stream!Tables, WireOut, Wires

LEMMA SubmitStep ==
  ASSUME IInv, NEW s \in Streams, NEW n \in PayloadSizes, Enter(s, n)
  PROVE  Stream!Submit
<1> DEFINE C == [stream: Streams, size: PayloadSizes, start: Nat]
<1>1. PICK c \in C : c.stream \in Streams /\ calls' = Append(calls, c)
  <2>1. [stream |-> s, size |-> n, start |-> Len(out)] \in C
    BY DEF IInv, TypeInv, TypeOK
  <2> QED
    BY <2>1 DEF Enter
<1>2. calls \in Seq(C)
  BY DEF IInv, TypeInv, TypeOK
<1> HIDE DEF C
<1>3. Len(calls') = Len(calls) + 1 /\ calls'[Len(calls')] = c
  BY <1>1, <1>2
<1>4. Stream!AllComplete
  BY IdleComplete DEF Enter
<1>5. [i \in 1..Len(out) |-> Wire(out[i])]' = [i \in 1..Len(out) |-> Wire(out[i])]
  BY DEF Enter
<1> QED
  BY <1>1, <1>3, <1>4, <1>5, SamePackets DEF Stream!Submit

LEMMA NextStep ==
  ASSUME IInv, [Next]_vars
  PROVE  [Stream!Next]_Stream!vars
<1> USE DEF Stream!Next
<1>1. CASE WriteTsStart
  BY <1>1, TablesStep
<1>2. ASSUME NEW s \in Streams, NEW n \in PayloadSizes, Enter(s, n)
      PROVE  Stream!Submit
  BY <1>2, SubmitStep
<1>3. ASSUME NEW s \in Streams, WriteFirst(s)
      PROVE  Stream!Emit
  <2>1. /\ phase = "first" /\ Call.stream = s
        /\ Call.size >= FirstRoom(stuffing_byte_size, s = "video")
        /\ out' = Append(out, FirstPacket(s)) /\ calls' = calls
    BY <1>3 DEF WriteFirst
  <2>2. PICK p \in Packet : p = FirstPacket(s)
    BY <2>1, FirstStep DEF IInv
  <2>3. /\ 157 - stuffing_byte_size \in Nat /\ 157 - stuffing_byte_size <= Call.size
        /\ p.pid = Pid(s) /\ p.pusi = TRUE
        /\ p.cc = counter[s] % 16
        /\ p.af = 8 + stuffing_byte_size
        /\ p.pes = 19 /\ p.unit = Len(calls)
        /\ p.from = 0 /\ p.to = 157 - stuffing_byte_size
    BY <2>1, <2>2, FirstStep DEF IInv
  <2>4. stuffing_byte_size \in Nat
    BY DEF IInv, TypeInv, TypeOK
  <2>5. Length(p) = SIZE /\ p.to <= Call.size
    BY <2>3, <2>4 DEF Length, SIZE, HEADER_SIZE
  <2>6. ~Done(Len(calls))
    BY <2>1, NotDone
  <2> QED
    BY <2>1, <2>2, <2>3, <2>5, <2>6, EmitStep
<1>4. ASSUME NEW s \in Streams, WriteRest(s)
      PROVE  Stream!Emit
  <2> DEFINE n == RestRoom - RestAf(Left)
  <2>1. /\ phase = "rest" /\ Call.stream = s /\ More
        /\ out' = Append(out, RestPacket(s)) /\ calls' = calls
    BY <1>4 DEF WriteRest
  <2>2. PICK p \in Packet : p = RestPacket(s)
    BY <2>1, RestStep DEF IInv
  <2>3. /\ Left \in Nat
        /\ n \in 1..Left /\ data_offset + n \in 1..Call.size
        /\ p.pid = Pid(s) /\ p.pusi = FALSE
        /\ p.cc = counter[s] % 16
        /\ p.af = 184 - n
        /\ p.pes = 0 /\ p.unit = Len(calls)
        /\ p.from = data_offset /\ p.to = data_offset + n
    BY <2>1, <2>2, RestStep DEF IInv
  <2>4. data_offset \in Nat /\ Call.size \in Nat
    BY <2>1, CallType DEF IInv, TypeInv, TypeOK
  <2> HIDE DEF n
  <2>5. Length(p) = SIZE /\ p.to <= Call.size /\ p.to > p.from
    BY <2>3, <2>4 DEF Length, SIZE, HEADER_SIZE
  <2>6. ~Done(Len(calls))
    BY <2>1, NotDone
  <2> QED
    BY <2>1, <2>2, <2>3, <2>5, <2>6, EmitStep
<1>5. ASSUME UNCHANGED <<calls, out>>
      PROVE  UNCHANGED Stream!vars
  BY <1>5 DEF Stream!vars
<1>6. ASSUME NEW s \in Streams, Retry(s)
      PROVE  UNCHANGED <<calls, out>>
  BY <1>6 DEF Retry
<1>7. Return \/ UNCHANGED vars => UNCHANGED <<calls, out>>
  BY DEF Return, vars
<1> QED
  BY <1>1, <1>2, <1>3, <1>4, <1>5, <1>6, <1>7
     DEF Next, Serve, RetryVideo, WriteVideoFirst, WriteVideoRest, RetryAudio,
         WriteAudioFirst, WriteAudioRest, Streams

\* The writers implement TsStream: every call's payload is delivered complete
\* and in order, on its own PID with a continuous counter, for every set of
\* payload sizes, every starting counters and any number of calls.
THEOREM Implements == Spec => Delivers
<1>1. Init => Stream!Init
  BY DEF Init, Stream!Init
<1>2. IInv /\ [Next]_vars => IInv'
  BY IInvStep
<1>3. IInv /\ [Next]_vars => [Stream!Next]_Stream!vars
  BY NextStep
<1> QED
  BY <1>1, <1>2, <1>3, IInvInit, PTL DEF Spec, Delivers, Stream!Spec
=============================================================================
