--------------------------- MODULE TsFieldsProofs ---------------------------
(***************************************************************************)
(* Whatever the timestamps, composition times and frame sizes, a decoder   *)
(* that follows the standards finds in the bytes what was meant.           *)
(***************************************************************************)
EXTENDS TsFields, TLAPS

\* What is carried and what is kept of a sum of pieces.
LEMMA Carry ==
  ASSUME NEW x \in Int
  PROVE  x \div K \in Int /\ x % K \in 0..K-1 /\ x % 8 \in 0..7
BY DEF K

LEMMA Piece ==
  ASSUME NEW x \in 0..K-1
  PROVE  x \in Int /\ 0 <= x /\ x < 32768
BY DEF K

\* The 33 bits of a number of ticks are three pieces of 3, 15 and 15 bits.
LEMMA TicksStamp ==
  ASSUME NEW n \in Int, NEW m \in Int
  PROVE  Ticks(n, m) \in Stamp
<1> DEFINE low == 90 * (n % K) + m
           mid == 90 * (n \div K) + low \div K
<1>1. low \in Int BY Carry
<1>2. low \div K \in Int /\ low % K \in 0..K-1
  <2> HIDE DEF low
  <2> QED BY <1>1, Carry
<1>3. mid \in Int
  <2>1. n \div K \in Int BY Carry
  <2> HIDE DEF low
  <2> QED BY <1>2, <2>1
<1> HIDE DEF mid
<1>4. mid \div K \in Int /\ mid % K \in 0..K-1 BY <1>3, Carry
<1>5. (mid \div K) % 8 \in 0..7 BY <1>4, Carry
<1> QED BY <1>2, <1>4, <1>5 DEF Ticks, Stamp, mid

\* ... and so is a sum of two of them.
LEMMA PlusStamp ==
  ASSUME NEW a \in Stamp, NEW b \in Stamp
  PROVE  Plus(a, b) \in Stamp
<1> DEFINE low == a.low + b.low
           mid == a.mid + b.mid + low \div K
           top == a.top + b.top + mid \div K
<1>0. /\ a.low \in Int /\ a.mid \in Int /\ a.top \in Int
      /\ b.low \in Int /\ b.mid \in Int /\ b.top \in Int
  <2>1. /\ a.low \in 0..K-1 /\ a.mid \in 0..K-1 /\ a.top \in 0..7
        /\ b.low \in 0..K-1 /\ b.mid \in 0..K-1 /\ b.top \in 0..7
    BY DEF Stamp
  <2> QED BY <2>1, Piece
<1>1. low \in Int BY <1>0
<1> HIDE DEF low
<1>2. low \div K \in Int /\ low % K \in 0..K-1 BY <1>1, Carry
<1>3. mid \in Int BY <1>0, <1>2
<1> HIDE DEF mid
<1>4. mid \div K \in Int /\ mid % K \in 0..K-1 BY <1>3, Carry
<1>5. top \in Int BY <1>0, <1>4
<1> HIDE DEF top
<1>6. top % 8 \in 0..7 BY <1>5, Carry
<1> QED BY <1>2, <1>4, <1>6 DEF Plus, Stamp, top, mid, low

\* sec_to_90kHz returns stamps.
LEMMA SecTo90kHzStamps ==
  ASSUME NEW n \in Int, NEW m \in Int, NEW s \in SecTo90kHz(n, m)
  PROVE  s \in Stamp
<1>1. Ticks(n, m) \in Stamp /\ Ticks(n, m - 1) \in Stamp /\ Ticks(n, m + 1) \in Stamp
      /\ Zero \in Stamp
  BY TicksStamp DEF Zero
<1> QED BY <1>1 DEF SecTo90kHz

\* The pieces of a stamp are found in its five bytes, with their markers.
LEMMA StampDecodes ==
  ASSUME NEW s \in Stamp, NEW check \in {1, 3}
  PROVE  /\ DecodedStamp(StampBytes(check, s)) = s
         /\ StampAsserted(check, StampBytes(check, s))
         /\ AreBytes(StampBytes(check, s))
<1>1. PICK top \in 0..7, mid \in 0..K-1, low \in 0..K-1 :
        s = [top |-> top, mid |-> mid, low |-> low]
  BY DEF Stamp
<1> DEFINE b == StampBytes(check, s)
<1>2. /\ b[1] = 16 * check + 2 * top + 1
      /\ b[2] = mid \div 128 /\ b[3] = 2 * (mid % 128) + 1
      /\ b[4] = low \div 128 /\ b[5] = 2 * (low % 128) + 1
      /\ Len(b) = 5
  BY <1>1 DEF StampBytes
<1>3. /\ b[1] \in 0..255 /\ b[2] \in 0..255 /\ b[3] \in 0..255
      /\ b[4] \in 0..255 /\ b[5] \in 0..255
  <2>1. 16 * check + 2 * top + 1 \in 0..255 OBVIOUS
  <2>2. mid \div 128 \in 0..255 BY Piece
  <2>3. low \div 128 \in 0..255 BY Piece
  <2>4. 2 * (mid % 128) + 1 \in 0..255 /\ 2 * (low % 128) + 1 \in 0..255 BY Piece
  <2> HIDE DEF b
  <2> QED BY <1>2, <2>1, <2>2, <2>3, <2>4
<1>4. /\ (b[1] \div 2) % 8 = top /\ b[1] \div 16 = check /\ b[1] % 2 = 1
      /\ b[3] % 2 = 1 /\ b[5] % 2 = 1
  BY <1>2 DEF K
<1>5. 128 * b[2] + b[3] \div 2 = mid /\ 128 * b[4] + b[5] \div 2 = low
  BY <1>2 DEF K
<1> HIDE DEF b
<1>6. DecodedStamp(b) = s BY <1>1, <1>4, <1>5 DEF DecodedStamp
<1>7. StampAsserted(check, b) BY <1>4 DEF StampAsserted
<1>8. AreBytes(b) BY <1>2, <1>3 DEF AreBytes
<1> QED BY <1>6, <1>7, <1>8 DEF b

\* The base of a PCR is found in its six bytes.
LEMMA PcrDecodes ==
  ASSUME NEW s \in Stamp
  PROVE  DecodedPcr(PcrBytes(s)) = s /\ AreBytes(PcrBytes(s))
<1>1. PICK top \in 0..7, mid \in 0..K-1, low \in 0..K-1 :
        s = [top |-> top, mid |-> mid, low |-> low]
  BY DEF Stamp
<1> DEFINE b == PcrBytes(s)
<1>2. /\ b[1] = 32 * top + mid \div 1024 /\ b[2] = (mid \div 4) % 256
      /\ b[3] = 64 * (mid % 4) + low \div 512 /\ b[4] = (low \div 2) % 256
      /\ b[5] = 128 * (low % 2) + 126 /\ b[6] = 0 /\ Len(b) = 6
  BY <1>1 DEF PcrBytes
<1>3. /\ 32 * top + mid \div 1024 \in 0..255 /\ (mid \div 4) % 256 \in 0..255
      /\ (32 * top + mid \div 1024) \div 32 = top
      /\ (32 * top + mid \div 1024) % 32 = mid \div 1024
  <2>1. mid \div 1024 \in 0..31 /\ mid \div 4 \in Int BY Piece
  <2> DEFINE high == mid \div 1024
             x    == mid \div 4
  <2> HIDE DEF high, x
  <2>2. (32 * top + high) \div 32 = top BY <2>1 DEF high
  <2>3. (32 * top + high) % 32 = high BY <2>1 DEF high
  <2>4. 32 * top + high \in 0..255 /\ x % 256 \in 0..255 BY <2>1 DEF high, x
  <2> QED BY <2>2, <2>3, <2>4 DEF high, x
<1>4. /\ 64 * (mid % 4) + low \div 512 \in 0..255 /\ (low \div 2) % 256 \in 0..255
      /\ (64 * (mid % 4) + low \div 512) \div 64 = mid % 4
      /\ (64 * (mid % 4) + low \div 512) % 64 = low \div 512
  <2>1. low \div 512 \in 0..63 /\ low \div 2 \in Int /\ mid % 4 \in 0..3 BY Piece
  <2> DEFINE high == low \div 512
             x    == low \div 2
             two  == mid % 4
  <2> HIDE DEF high, x, two
  <2>2. (64 * two + high) \div 64 = two BY <2>1 DEF high, two
  <2>3. (64 * two + high) % 64 = high BY <2>1 DEF high, two
  <2>4. 64 * two + high \in 0..255 /\ x % 256 \in 0..255 BY <2>1 DEF high, x, two
  <2> QED BY <2>2, <2>3, <2>4 DEF high, x, two
<1>5. /\ 128 * (low % 2) + 126 \in 0..255
      /\ (128 * (low % 2) + 126) \div 128 = low % 2
  <2>1. low % 2 \in {0, 1} BY Piece
  <2> QED BY <2>1
<1>6. /\ 1024 * (mid \div 1024) + 4 * ((mid \div 4) % 256) + (mid % 4) = mid
      /\ 512 * (low \div 512) + 2 * ((low \div 2) % 256) + (low % 2) = low
  BY Piece
<1> HIDE DEF b
<1>7. b[1] \div 32 = top /\ 1024 * (b[1] % 32) + 4 * b[2] + b[3] \div 64 = mid
      /\ 512 * (b[3] % 64) + 2 * b[4] + b[5] \div 128 = low
  BY <1>2, <1>3, <1>4, <1>5, <1>6
<1>8. DecodedPcr(b) = s BY <1>1, <1>7 DEF DecodedPcr
<1>9. AreBytes(b)
  <2>1. \A i \in 1..6 : b[i] \in 0..255 BY <1>2, <1>3, <1>4, <1>5
  <2> QED BY <1>2, <2>1 DEF AreBytes
<1> QED BY <1>8, <1>9 DEF b

\* The 13 bits of an ADTS header state the length of a frame that fits.
LEMMA LengthDecodes ==
  ASSUME NEW n \in Nat, n <= 8184
  PROVE  DecodedLength(AdtsBytes(n)) = n + 7
<1> DEFINE len == AdtsLength(n)
           b   == AdtsBytes(n)
<1>1. len = n + 7 /\ len \in 0..8191 BY DEF AdtsLength
<1>2. b[1] = 128 + len \div 2048 /\ b[2] = (len \div 8) % 256 /\ b[3] = 32 * (len % 8) + 31
  BY DEF AdtsBytes
<1> HIDE DEF len, b
<1>3. b[1] % 4 = len \div 2048
  <2>1. len \div 2048 \in 0..3 BY <1>1
  <2> QED BY <1>2, <2>1
<1>4. b[3] \div 32 = len % 8 BY <1>1, <1>2
<1>5. 2048 * (len \div 2048) + 8 * ((len \div 8) % 256) + (len % 8) = len BY <1>1
<1>6. DecodedLength(b) = 2048 * (len \div 2048) + 8 * ((len \div 8) % 256) + (len % 8)
  BY <1>2, <1>3, <1>4 DEF DecodedLength
<1> QED BY <1>1, <1>5, <1>6 DEF b

----------------------------------------------------------------------------
Frame == [kind : {"video", "audio"}, timestamp : Int, composition_time : Int, size : Nat,
          pcr : Stamp, pts : Stamp, dts : Stamp, pcr_bytes : Seq(Int),
          pts_bytes : Seq(Int), dts_bytes : Seq(Int), adts_bytes : Seq(Int)]

\* The bytes of a frame are those of its clocks and of its size.
Written(f) ==
  /\ f.pts_bytes = StampBytes(3, f.pts)
  /\ f.dts_bytes = StampBytes(1, f.dts)
  /\ f.pcr_bytes = (IF f.kind = "video" THEN PcrBytes(f.pcr) ELSE <<>>)
  /\ f.kind = "audio" => f.adts_bytes = AdtsBytes(f.size)

IInv == sent \in Seq(Frame) /\ \A i \in 1..Len(sent) : Written(sent[i])

\* The bytes are numbers.
LEMMA BytesInt ==
  ASSUME NEW s \in Stamp, NEW check \in {1, 3}, NEW n \in Nat
  PROVE  StampBytes(check, s) \in Seq(Int) /\ PcrBytes(s) \in Seq(Int) /\ AdtsBytes(n) \in Seq(Int)
<1>1. s.top \in Int /\ s.mid \in Int /\ s.low \in Int
  <2>1. s.top \in 0..7 /\ s.mid \in 0..K-1 /\ s.low \in 0..K-1 BY DEF Stamp
  <2> QED BY <2>1, Piece
<1> DEFINE top == s.top
           mid == s.mid
           low == s.low
<1>2. top \in Int /\ mid \in Int /\ low \in Int BY <1>1
<1> HIDE DEF top, mid, low
<1>3. /\ 16 * check + 2 * top + 1 \in Int /\ mid \div 128 \in Int /\ 2 * (mid % 128) + 1 \in Int
      /\ low \div 128 \in Int /\ 2 * (low % 128) + 1 \in Int
  BY <1>2
<1>4. StampBytes(check, s) \in Seq(Int) BY <1>3 DEF StampBytes, top, mid, low
<1>5. /\ 32 * top + mid \div 1024 \in Int /\ (mid \div 4) % 256 \in Int
      /\ 64 * (mid % 4) + low \div 512 \in Int /\ (low \div 2) % 256 \in Int
      /\ 128 * (low % 2) + 126 \in Int
  BY <1>2
<1>6. PcrBytes(s) \in Seq(Int) BY <1>5 DEF PcrBytes, top, mid, low
<1>7. AdtsLength(n) \in Int BY DEF AdtsLength
<1> DEFINE len == AdtsLength(n)
<1> HIDE DEF len
<1>8. /\ 128 + len \div 2048 \in Int /\ (len \div 8) % 256 \in Int /\ 32 * (len % 8) + 31 \in Int
  BY <1>7 DEF len
<1>9. AdtsBytes(n) \in Seq(Int) BY <1>8 DEF AdtsBytes, len
<1> QED BY <1>4, <1>6, <1>9

\* A frame that is appended is written like the others.
LEMMA Appended ==
  ASSUME IInv, NEW f \in Frame, Written(f), sent' = Append(sent, f)
  PROVE  IInv'
<1>1. sent' \in Seq(Frame) BY DEF IInv
<1>2. Len(sent') = Len(sent) + 1 /\ Len(sent) \in Nat BY DEF IInv
<1>3. ASSUME NEW i \in 1..Len(sent') PROVE Written(sent'[i])
  <2>1. CASE i <= Len(sent)
    <3>1. i \in 1..Len(sent) /\ sent'[i] = sent[i] BY <2>1, <1>2 DEF IInv
    <3> QED BY <3>1 DEF IInv
  <2>2. CASE i = Len(sent) + 1
    <3>1. sent'[i] = f BY <2>2 DEF IInv
    <3> QED BY <3>1
  <2> QED BY <2>1, <2>2, <1>2
<1> QED BY <1>1, <1>3 DEF IInv

LEMMA Inductive ==
  ASSUME IInv, [Next]_vars
  PROVE  IInv'
<1>1. ASSUME NEW t \in Timestamps, NEW c \in CompositionTimes, WriteVideo(t, c)
      PROVE  IInv'
  <2>1. t \in Int /\ c \in Int BY SMT, TimesAssumption DEF TimesAssumption
  <2>2. PICK pcr \in SecTo90kHz(t, 0), dts \in SecTo90kHz(t, PTS_DTS_OFFSET), d \in SecTo90kHz(c, 0) :
          sent' = Append(sent,
            [kind |-> "video", timestamp |-> t, composition_time |-> c, size |-> 0,
             pcr |-> pcr, pts |-> Plus(dts, d), dts |-> dts,
             pcr_bytes |-> PcrBytes(pcr), pts_bytes |-> StampBytes(3, Plus(dts, d)),
             dts_bytes |-> StampBytes(1, dts), adts_bytes |-> <<>>])
    BY <1>1 DEF WriteVideo
  <2>3. PTS_DTS_OFFSET \in Int /\ 0 \in Int BY SMT DEF PTS_DTS_OFFSET
  <2>4. pcr \in Stamp /\ dts \in Stamp /\ d \in Stamp BY <2>1, <2>3, SecTo90kHzStamps
  <2>5. Plus(dts, d) \in Stamp BY <2>4, PlusStamp
  <2> DEFINE pts == Plus(dts, d)
             f == [kind |-> "video", timestamp |-> t, composition_time |-> c, size |-> 0,
                   pcr |-> pcr, pts |-> pts, dts |-> dts,
                   pcr_bytes |-> PcrBytes(pcr), pts_bytes |-> StampBytes(3, pts),
                   dts_bytes |-> StampBytes(1, dts), adts_bytes |-> <<>>]
  <2>6. sent' = Append(sent, f) BY <2>2
  <2>7. /\ PcrBytes(pcr) \in Seq(Int) /\ StampBytes(3, pts) \in Seq(Int)
        /\ StampBytes(1, dts) \in Seq(Int) /\ <<>> \in Seq(Int)
    BY <2>4, <2>5, BytesInt
  <2> HIDE DEF pts
  <2>8. f \in Frame BY <2>1, <2>4, <2>5, <2>7 DEF Frame, pts
  <2>9. Written(f) BY DEF Written
  <2> HIDE DEF f
  <2> QED BY <2>6, <2>8, <2>9, Appended
<1>2. ASSUME NEW t \in Timestamps, NEW n \in FrameSizes, WriteAudio(t, n)
      PROVE  IInv'
  <2>1. t \in Int /\ n \in Nat BY SMT, TimesAssumption DEF TimesAssumption
  <2>2. PICK dts \in SecTo90kHz(t, PTS_DTS_OFFSET) :
          sent' = Append(sent,
            [kind |-> "audio", timestamp |-> t, composition_time |-> 0, size |-> n,
             pcr |-> Zero, pts |-> dts, dts |-> dts,
             pcr_bytes |-> <<>>, pts_bytes |-> StampBytes(3, dts),
             dts_bytes |-> StampBytes(1, dts), adts_bytes |-> AdtsBytes(n)])
    BY <1>2 DEF WriteAudio
  <2>3. PTS_DTS_OFFSET \in Int /\ 0 \in Int BY SMT DEF PTS_DTS_OFFSET
  <2>4. dts \in Stamp BY <2>1, <2>3, SecTo90kHzStamps
  <2>5. Zero \in Stamp BY TicksStamp DEF Zero
  <2> DEFINE f == [kind |-> "audio", timestamp |-> t, composition_time |-> 0, size |-> n,
                   pcr |-> Zero, pts |-> dts, dts |-> dts,
                   pcr_bytes |-> <<>>, pts_bytes |-> StampBytes(3, dts),
                   dts_bytes |-> StampBytes(1, dts), adts_bytes |-> AdtsBytes(n)]
  <2>6. sent' = Append(sent, f) BY <2>2
  <2>7. /\ StampBytes(3, dts) \in Seq(Int) /\ StampBytes(1, dts) \in Seq(Int)
        /\ AdtsBytes(n) \in Seq(Int) /\ <<>> \in Seq(Int)
    BY <2>1, <2>4, BytesInt
  <2>8. f \in Frame BY <2>1, <2>3, <2>4, <2>5, <2>7 DEF Frame
  <2>9. Written(f) BY DEF Written
  <2> HIDE DEF f
  <2> QED BY <2>6, <2>8, <2>9, Appended
<1>3. ASSUME sent' = sent PROVE IInv' BY <1>3 DEF IInv
<1>4. CASE Read BY <1>3, <1>4 DEF Read
<1>5. CASE UNCHANGED vars BY <1>3, <1>5 DEF vars
<1> QED BY <1>1, <1>2, <1>4, <1>5 DEF Next

\* FieldsDecode of every file that flv2ts, build-hls-index or getts writes.
THEOREM FieldsDecodeHolds == Spec => []FieldsDecode
<1>1. Init => IInv
  <2>1. <<>> \in Seq(Frame) OBVIOUS
  <2> QED BY <2>1 DEF Init, IInv
<1>2. IInv /\ [Next]_vars => IInv' BY Inductive
<1>3. IInv => FieldsDecode
  <2> SUFFICES ASSUME IInv, NEW i \in 1..Len(sent), NEW f, f = sent[i]
               PROVE  /\ AreBytes(f.pts_bytes) /\ AreBytes(f.dts_bytes) /\ AreBytes(f.pcr_bytes)
                      /\ DecodedStamp(f.pts_bytes) = f.pts /\ StampAsserted(3, f.pts_bytes)
                      /\ DecodedStamp(f.dts_bytes) = f.dts /\ StampAsserted(1, f.dts_bytes)
                      /\ f.kind = "video" => DecodedPcr(f.pcr_bytes) = f.pcr
                      /\ f.kind = "audio" /\ f.size <= 8184
                           => DecodedLength(f.adts_bytes) = f.size + 7
    BY DEF FieldsDecode
  <2>1. f \in Frame /\ Written(f) BY DEF IInv
  <2>2. f.pts \in Stamp /\ f.dts \in Stamp /\ f.pcr \in Stamp /\ f.size \in Nat BY <2>1 DEF Frame
  <2>3. AreBytes(<<>>) BY DEF AreBytes
  <2>4. AreBytes(f.pcr_bytes) /\ (f.kind = "video" => DecodedPcr(f.pcr_bytes) = f.pcr)
    BY <2>1, <2>2, <2>3, PcrDecodes DEF Written
  <2>5. /\ AreBytes(f.pts_bytes) /\ AreBytes(f.dts_bytes)
        /\ DecodedStamp(f.pts_bytes) = f.pts /\ StampAsserted(3, f.pts_bytes)
        /\ DecodedStamp(f.dts_bytes) = f.dts /\ StampAsserted(1, f.dts_bytes)
    BY <2>1, <2>2, StampDecodes DEF Written
  <2>6. f.kind = "audio" /\ f.size <= 8184 => DecodedLength(f.adts_bytes) = f.size + 7
    <3> SUFFICES ASSUME f.kind = "audio", f.size <= 8184
                 PROVE  DecodedLength(f.adts_bytes) = f.size + 7
      OBVIOUS
    <3>1. f.adts_bytes = AdtsBytes(f.size) BY <2>1 DEF Written
    <3>2. f.size \in Nat BY <2>2
    <3>3. DecodedLength(AdtsBytes(f.size)) = f.size + 7 BY <3>2, LengthDecodes
    <3> QED BY <3>1, <3>3
  <2> QED BY <2>4, <2>5, <2>6
<1> QED BY <1>1, <1>2, <1>3, PTL DEF Spec

----------------------------------------------------------------------------
(* The clocks agree: a stamp is a number of ticks modulo 2^33, and sums and *)
(* differences of stamps are those of their numbers.                        *)

StampOf(x) == [top |-> ((x \div K) \div K) % 8, mid |-> (x \div K) % K, low |-> x % K]

\* x by its quotient and its remainder.
LEMMA Split ==
  ASSUME NEW x \in Int
  PROVE  /\ x \div K \in Int /\ x % K \in Int /\ x = K * (x \div K) + (x % K)
         /\ x % 8 \in Int /\ \E q \in Int : x = 8 * q + (x % 8)
<1>1. x \div K \in Int /\ x % K \in Int /\ x = K * (x \div K) + (x % K) BY DEF K
<1>2. x \div 8 \in Int /\ x % 8 \in Int /\ x = 8 * (x \div 8) + (x % 8) OBVIOUS
<1> QED BY <1>1, <1>2

LEMMA Joined ==
  ASSUME NEW q \in Int, NEW r \in Int
  PROVE  /\ (K * q + r) \div K = q + (r \div K) /\ (K * q + r) % K = r % K
         /\ (8 * q + r) % 8 = r % 8
<1>1. /\ (32768 * q + r) \div 32768 = q + (r \div 32768)
      /\ (32768 * q + r) % 32768 = r % 32768
  OBVIOUS
<1>2. (8 * q + r) % 8 = r % 8 OBVIOUS
<1> QED BY <1>1, <1>2 DEF K

\* The pieces of a number, from any way to cut it up.
LEMMA PiecesJoined ==
  ASSUME NEW top \in Int, NEW mid \in Int, NEW low \in Int,
         NEW x, x = K * (K * top + mid) + low
  PROVE  StampOf(x) = [top |-> (top + ((mid + (low \div K)) \div K)) % 8,
                       mid |-> (mid + (low \div K)) % K, low |-> low % K]
<1> DEFINE q == K * top + mid
           c == low \div K
           r == mid + c
<1>1. K \in Int BY DEF K
<1>2. q \in Int BY SMT DEF K
<1>3. c \in Int BY Split
<1> HIDE DEF q
<1>4. x = K * q + low BY DEF q
<1>5. x \div K = q + c /\ x % K = low % K BY <1>2, <1>4, Joined
<1> HIDE DEF c
<1>6. r \in Int BY <1>3
<1> HIDE DEF r
<1>7. q + c = K * top + r BY <1>3, SMT DEF q, r, K
<1>8. (x \div K) \div K = top + (r \div K) /\ (x \div K) % K = r % K
  BY <1>5, <1>6, <1>7, Joined
<1> QED BY <1>5, <1>8 DEF StampOf, r, c

LEMMA Pieces ==
  ASSUME NEW x \in Int
  PROVE  \E top \in Int, mid \in Int, low \in Int, q \in Int :
           /\ x = K * (K * top + mid) + low /\ top = 8 * q + (top % 8)
           /\ StampOf(x) = [top |-> top % 8, mid |-> mid, low |-> low]
<1> DEFINE n == x \div K
           top == n \div K
<1>1. n \in Int /\ x % K \in Int /\ x = K * n + (x % K) BY Split
<1> HIDE DEF n
<1>2. top \in Int /\ n % K \in Int /\ n = K * top + (n % K) BY <1>1, Split
<1> HIDE DEF top
<1>3. PICK q \in Int : top = 8 * q + (top % 8) BY <1>2, Split
<1>4. x = K * (K * top + (n % K)) + (x % K) BY <1>1, <1>2
<1>5. StampOf(x) = [top |-> top % 8, mid |-> n % K, low |-> x % K] BY DEF StampOf, n, top
<1> QED BY <1>1, <1>2, <1>3, <1>4, <1>5

LEMMA TicksOf ==
  ASSUME NEW n \in Int, NEW m \in Int
  PROVE  Ticks(n, m) = StampOf(90 * n + m)
<1> DEFINE q == n \div K
           r == n % K
           low == 90 * r + m
           mid == 90 * q
           x == 90 * n + m
<1>1. q \in Int /\ r \in Int /\ n = K * q + r BY Split
<1> HIDE DEF q, r
<1>2. low \in Int /\ mid \in Int /\ x \in Int BY <1>1
<1>3. x = K * (K * 0 + mid) + low BY <1>1, SMT DEF K
<1> HIDE DEF low, mid, x
<1>4. StampOf(x) = [top |-> (0 + ((mid + (low \div K)) \div K)) % 8,
                    mid |-> (mid + (low \div K)) % K, low |-> low % K]
  BY <1>2, <1>3, PiecesJoined
<1>5. Ticks(n, m) = [top |-> ((mid + (low \div K)) \div K) % 8,
                     mid |-> (mid + (low \div K)) % K, low |-> low % K]
  BY DEF Ticks, low, mid, q, r
<1>6. (mid + (low \div K)) \div K \in Int
  <2>1. low \div K \in Int BY <1>2, Split
  <2>2. mid + (low \div K) \in Int BY <1>2, <2>1
  <2> QED BY <2>2, Split
<1>7. 0 + ((mid + (low \div K)) \div K) = (mid + (low \div K)) \div K BY <1>6
<1> QED BY <1>4, <1>5, <1>7 DEF x

LEMMA SumOf ==
  ASSUME NEW x \in Int, NEW y \in Int
  PROVE  /\ Plus(StampOf(x), StampOf(y)) = StampOf(x + y)
         /\ Minus(StampOf(x), StampOf(y)) = StampOf(x - y)
<1>1. PICK t \in Int, m \in Int, l \in Int, q \in Int :
        /\ x = K * (K * t + m) + l /\ t = 8 * q + (t % 8)
        /\ StampOf(x) = [top |-> t % 8, mid |-> m, low |-> l]
  BY Pieces
<1>2. PICK u \in Int, n \in Int, k \in Int, r \in Int :
        /\ y = K * (K * u + n) + k /\ u = 8 * r + (u % 8)
        /\ StampOf(y) = [top |-> u % 8, mid |-> n, low |-> k]
  BY Pieces
<1> DEFINE c == (l + k) \div K
           d == (m + n + c) \div K
           e == (l - k) \div K
           f == (m - n + e) \div K
<1>3. c \in Int /\ e \in Int BY Split
<1> HIDE DEF c, e
<1>4. d \in Int /\ f \in Int BY <1>3, Split
<1> HIDE DEF d, f
<1>5. t % 8 \in Int /\ u % 8 \in Int BY Split
<1>6. StampOf(x + y) = [top |-> (t + u + d) % 8, mid |-> (m + n + c) % K, low |-> (l + k) % K]
  <2>1. x + y = K * (K * (t + u) + (m + n)) + (l + k) BY <1>1, <1>2, SMT DEF K
  <2> QED BY <1>3, <2>1, PiecesJoined DEF c, d
<1>7. StampOf(x - y) = [top |-> (t - u + f) % 8, mid |-> (m - n + e) % K, low |-> (l - k) % K]
  <2>1. x - y = K * (K * (t - u) + (m - n)) + (l - k) BY <1>1, <1>2, SMT DEF K
  <2> QED BY <1>3, <2>1, PiecesJoined DEF e, f
<1>8. /\ (t + u + d) % 8 = ((t % 8) + (u % 8) + d) % 8
      /\ (t - u + f) % 8 = ((t % 8) - (u % 8) + f) % 8
  <2>1. /\ t + u + d = 8 * (q + r) + ((t % 8) + (u % 8) + d)
        /\ t - u + f = 8 * (q - r) + ((t % 8) - (u % 8) + f)
    BY <1>1, <1>2, <1>4, <1>5
  <2>2. /\ q + r \in Int /\ (t % 8) + (u % 8) + d \in Int
        /\ q - r \in Int /\ (t % 8) - (u % 8) + f \in Int
    BY <1>4, <1>5
  <2> QED BY <2>1, <2>2, Joined
<1>9. Plus(StampOf(x), StampOf(y)) =
        [top |-> ((t % 8) + (u % 8) + d) % 8, mid |-> (m + n + c) % K, low |-> (l + k) % K]
  BY <1>1, <1>2 DEF Plus, c, d
<1>10. Minus(StampOf(x), StampOf(y)) =
        [top |-> ((t % 8) - (u % 8) + f) % 8, mid |-> (m - n + e) % K, low |-> (l - k) % K]
  BY <1>1, <1>2 DEF Minus, e, f
<1> QED BY <1>6, <1>7, <1>8, <1>9, <1>10

\* A clock is the number that is meant, or a tick less.
LEMMA ClockAt ==
  ASSUME NEW n \in Nat, NEW m \in Nat, NEW s \in SecTo90kHz(n, m)
  PROVE  \E e \in {0, 1} : s = StampOf(90 * n + m - e)
<1>1. ~(n < -(m \div 90)) OBVIOUS
<1>2. s = Ticks(n, m) \/ s = Ticks(n, m - 1) BY <1>1, Zenon DEF SecTo90kHz
<1>3. Ticks(n, m) = StampOf(90 * n + m - 0)
  <2>1. 90 * n + m = 90 * n + m - 0 OBVIOUS
  <2> QED BY <2>1, TicksOf
<1>4. Ticks(n, m - 1) = StampOf(90 * n + m - 1)
  <2>1. PICK k \in Int : k = m - 1 OBVIOUS
  <2>2. Ticks(n, k) = StampOf(90 * n + k) BY TicksOf
  <2>3. 90 * n + k = 90 * n + m - 1 BY <2>1
  <2> QED BY <2>1, <2>2, <2>3, Zenon
<1> QED BY <1>2, <1>3, <1>4, Zenon

LEMMA ClockOf ==
  ASSUME NEW n \in Nat
  PROVE  /\ \A s \in SecTo90kHz(n, 0) : \E e \in {0, 1} : s = StampOf(90 * n - e)
         /\ \A s \in SecTo90kHz(n, PTS_DTS_OFFSET) :
              \E e \in {0, 1} : s = StampOf(90 * n + PTS_DTS_OFFSET - e)
<1>1. ASSUME NEW s \in SecTo90kHz(n, 0) PROVE \E e \in {0, 1} : s = StampOf(90 * n - e)
  <2>1. PICK z \in Nat : z = 0 OBVIOUS
  <2>2. s \in SecTo90kHz(n, z) BY <2>1, Zenon
  <2>3. PICK e \in {0, 1} : s = StampOf(90 * n + z - e) BY <2>2, ClockAt
  <2>4. 90 * n + z - e = 90 * n - e BY <2>1
  <2> QED BY <2>3, <2>4, Zenon
<1>2. PTS_DTS_OFFSET \in Nat BY DEF PTS_DTS_OFFSET
<1> QED BY <1>1, <1>2, ClockAt, Zenon

\* Two clocks whose difference is n but for what is cut off are near.
LEMMA NearOf ==
  ASSUME NEW x \in Int, NEW y \in Int, NEW n \in Int, NEW e \in {0, 1}, NEW f \in {0, 1},
         x - y = n - e + f
  PROVE  Near(StampOf(x), StampOf(y), StampOf(n), 1)
<1>1. Minus(StampOf(x), StampOf(y)) = StampOf(x - y) BY SumOf
<1>2. Ticks(0, 0) = StampOf(0) /\ Ticks(0, 1) = StampOf(1)
  <2>1. Ticks(0, 0) = StampOf(90 * 0 + 0) /\ Ticks(0, 1) = StampOf(90 * 0 + 1) BY TicksOf
  <2>2. 90 * 0 + 0 = 0 /\ 90 * 0 + 1 = 1 OBVIOUS
  <2> QED BY <2>1, <2>2
<1>3. /\ Plus(StampOf(n), StampOf(0)) = StampOf(n + 0)
      /\ Plus(StampOf(n), StampOf(1)) = StampOf(n + 1)
      /\ Minus(StampOf(n), StampOf(1)) = StampOf(n - 1)
  BY SumOf
<1>4. x - y = n + 0 \/ x - y = n + 1 \/ x - y = n - 1 OBVIOUS
<1>5. 0 \in 0..1 /\ 1 \in 0..1 OBVIOUS
<1>6. CASE x - y = n + 0 BY <1>1, <1>2, <1>3, <1>5, <1>6, Zenon DEF Near
<1>7. CASE x - y = n + 1 BY <1>1, <1>2, <1>3, <1>5, <1>7, Zenon DEF Near
<1>8. CASE x - y = n - 1 BY <1>1, <1>2, <1>3, <1>5, <1>8, Zenon DEF Near
<1> QED BY <1>4, <1>6, <1>7, <1>8

\* The clocks of a frame are those of its times, but for what is cut off.
Clocked(f) ==
  f.timestamp >= 0 => \E d \in {0, 1} :
    LET x == 90 * f.timestamp + PTS_DTS_OFFSET - d IN
    /\ f.dts = StampOf(x)
    /\ f.kind = "video" => \E e \in {0, 1} : f.pcr = StampOf(90 * f.timestamp - e)
    /\ f.composition_time >= 0 =>
         \E e \in {0, 1} : f.pts = StampOf(x + (90 * f.composition_time - e))

ClocksInv == IInv /\ \A i \in 1..Len(sent) : Clocked(sent[i])

LEMMA ClockedAppended ==
  ASSUME ClocksInv, IInv', NEW f, Clocked(f), sent' = Append(sent, f)
  PROVE  ClocksInv'
<1>1. Len(sent') = Len(sent) + 1 /\ Len(sent) \in Nat BY DEF ClocksInv, IInv
<1>2. ASSUME NEW i \in 1..Len(sent') PROVE Clocked(sent'[i])
  <2>1. CASE i <= Len(sent)
    <3>1. i \in 1..Len(sent) /\ sent'[i] = sent[i] BY <2>1, <1>1 DEF ClocksInv, IInv
    <3> QED BY <3>1 DEF ClocksInv
  <2>2. CASE i = Len(sent) + 1
    <3>1. sent'[i] = f BY <2>2 DEF ClocksInv, IInv
    <3> QED BY <3>1
  <2> QED BY <2>1, <2>2, <1>1
<1> QED BY <1>2 DEF ClocksInv

LEMMA ClocksStep ==
  ASSUME ClocksInv, [Next]_vars
  PROVE  ClocksInv'
<1>0. IInv' BY Inductive DEF ClocksInv
<1>1. ASSUME NEW t \in Timestamps, NEW c \in CompositionTimes, WriteVideo(t, c)
      PROVE  ClocksInv'
  <2>1. t \in Int /\ c \in Int BY SMT, TimesAssumption DEF TimesAssumption
  <2>2. PICK pcr \in SecTo90kHz(t, 0), dts \in SecTo90kHz(t, PTS_DTS_OFFSET), d \in SecTo90kHz(c, 0) :
          sent' = Append(sent,
            [kind |-> "video", timestamp |-> t, composition_time |-> c, size |-> 0,
             pcr |-> pcr, pts |-> Plus(dts, d), dts |-> dts,
             pcr_bytes |-> PcrBytes(pcr), pts_bytes |-> StampBytes(3, Plus(dts, d)),
             dts_bytes |-> StampBytes(1, dts), adts_bytes |-> <<>>])
    BY <1>1 DEF WriteVideo
  <2> DEFINE f == [kind |-> "video", timestamp |-> t, composition_time |-> c, size |-> 0,
                   pcr |-> pcr, pts |-> Plus(dts, d), dts |-> dts,
                   pcr_bytes |-> PcrBytes(pcr), pts_bytes |-> StampBytes(3, Plus(dts, d)),
                   dts_bytes |-> StampBytes(1, dts), adts_bytes |-> <<>>]
  <2>3. sent' = Append(sent, f) BY <2>2
  <2>4. /\ f.timestamp = t /\ f.composition_time = c /\ f.pcr = pcr /\ f.dts = dts
        /\ f.pts = Plus(dts, d)
    OBVIOUS
  <2> HIDE DEF f
  <2>5. ASSUME t >= 0 PROVE Clocked(f)
    <3>1. t \in Nat BY <2>1, <2>5
    <3>2. PICK e \in {0, 1} : dts = StampOf(90 * t + PTS_DTS_OFFSET - e) BY <3>1, ClockOf
    <3>3. PICK g \in {0, 1} : pcr = StampOf(90 * t - g) BY <3>1, ClockOf
    <3> DEFINE x == 90 * t + PTS_DTS_OFFSET - e
    <3>4. x \in Int BY <2>1 DEF PTS_DTS_OFFSET
    <3>5. dts = StampOf(x) BY <3>2
    <3> HIDE DEF x
    <3>6. ASSUME c >= 0 PROVE \E h \in {0, 1} : f.pts = StampOf(x + (90 * c - h))
      <4>1. c \in Nat BY <2>1, <3>6
      <4>2. PICK h \in {0, 1} : d = StampOf(90 * c - h) BY <4>1, ClockOf
      <4>3. 90 * c - h \in Int BY <4>1
      <4>4. Plus(StampOf(x), StampOf(90 * c - h)) = StampOf(x + (90 * c - h))
        BY <3>4, <4>3, SumOf
      <4> QED BY <2>4, <3>5, <4>2, <4>4
    <3> QED BY <2>4, <3>3, <3>5, <3>6, Zenon DEF Clocked, x
  <2>6. ~(t >= 0) => Clocked(f) BY <2>4 DEF Clocked
  <2> QED BY <1>0, <2>3, <2>5, <2>6, ClockedAppended
<1>2. ASSUME NEW t \in Timestamps, NEW n \in FrameSizes, WriteAudio(t, n)
      PROVE  ClocksInv'
  <2>1. t \in Int BY SMT, TimesAssumption DEF TimesAssumption
  <2>2. PICK dts \in SecTo90kHz(t, PTS_DTS_OFFSET) :
          sent' = Append(sent,
            [kind |-> "audio", timestamp |-> t, composition_time |-> 0, size |-> n,
             pcr |-> Zero, pts |-> dts, dts |-> dts,
             pcr_bytes |-> <<>>, pts_bytes |-> StampBytes(3, dts),
             dts_bytes |-> StampBytes(1, dts), adts_bytes |-> AdtsBytes(n)])
    BY <1>2 DEF WriteAudio
  <2> DEFINE f == [kind |-> "audio", timestamp |-> t, composition_time |-> 0, size |-> n,
                   pcr |-> Zero, pts |-> dts, dts |-> dts,
                   pcr_bytes |-> <<>>, pts_bytes |-> StampBytes(3, dts),
                   dts_bytes |-> StampBytes(1, dts), adts_bytes |-> AdtsBytes(n)]
  <2>3. sent' = Append(sent, f) BY <2>2
  <2>4. /\ f.timestamp = t /\ f.composition_time = 0 /\ f.kind = "audio" /\ f.dts = dts
        /\ f.pts = dts
    OBVIOUS
  <2> HIDE DEF f
  <2>5. ASSUME t >= 0 PROVE Clocked(f)
    <3>1. t \in Nat BY <2>1, <2>5
    <3>2. PICK e \in {0, 1} : dts = StampOf(90 * t + PTS_DTS_OFFSET - e) BY <3>1, ClockOf
    <3> DEFINE x == 90 * t + PTS_DTS_OFFSET - e
    <3>3. x \in Int BY <2>1 DEF PTS_DTS_OFFSET
    <3>4. dts = StampOf(x) BY <3>2
    <3> HIDE DEF x
    <3>5. PICK h \in {0, 1} : h = 0 OBVIOUS
    <3>6. x + (90 * f.composition_time - h) = x BY <2>4, <3>3, <3>5
    <3>7. \E g \in {0, 1} : f.pts = StampOf(x + (90 * f.composition_time - g))
      BY <2>4, <3>4, <3>6, Zenon
    <3>8. f.kind # "video" BY <2>4
    <3>9. f.timestamp = t /\ f.dts = StampOf(x) BY <2>4, <3>4
    <3> QED BY <3>7, <3>8, <3>9, Zenon DEF Clocked, x
  <2>6. ~(t >= 0) => Clocked(f) BY <2>4 DEF Clocked
  <2> QED BY <1>0, <2>3, <2>5, <2>6, ClockedAppended
<1>3. ASSUME sent' = sent PROVE ClocksInv' BY <1>0, <1>3 DEF ClocksInv
<1>4. CASE Read BY <1>3, <1>4 DEF Read
<1>5. CASE UNCHANGED vars BY <1>3, <1>5 DEF vars
<1> QED BY <1>1, <1>2, <1>4, <1>5 DEF Next

LEMMA ClocksOf == ClocksInv => ClocksAgree
<1> SUFFICES ASSUME ClocksInv, NEW i \in 1..Len(sent), sent[i].timestamp >= 0
             PROVE  /\ sent[i].kind = "video" =>
                         Near(sent[i].dts, sent[i].pcr, Ticks(0, PTS_DTS_OFFSET), 1)
                    /\ sent[i].composition_time >= 0 =>
                         Near(sent[i].pts, sent[i].dts, Ticks(sent[i].composition_time, 0), 1)
                    /\ \A j \in 1..Len(sent) : sent[j].timestamp >= sent[i].timestamp =>
                         Near(sent[j].dts, sent[i].dts,
                              Ticks(sent[j].timestamp - sent[i].timestamp, 0), 1)
  BY DEF ClocksAgree
<1>1. PICK f : f = sent[i] OBVIOUS
<1>2. ASSUME NEW k \in 1..Len(sent)
      PROVE  Clocked(sent[k]) /\ sent[k].timestamp \in Int /\ sent[k].composition_time \in Int
  <2>1. sent[k] \in Frame /\ Clocked(sent[k]) BY DEF ClocksInv, IInv
  <2> QED BY <2>1 DEF Frame
<1>3. Clocked(f) /\ f.timestamp \in Int /\ f.composition_time \in Int /\ f.timestamp >= 0
  BY <1>1, <1>2
<1> DEFINE t == f.timestamp
           c == f.composition_time
<1>4. PICK d \in {0, 1} :
        /\ f.dts = StampOf(90 * t + PTS_DTS_OFFSET - d)
        /\ f.kind = "video" => \E e \in {0, 1} : f.pcr = StampOf(90 * t - e)
        /\ c >= 0 => \E e \in {0, 1} :
             f.pts = StampOf((90 * t + PTS_DTS_OFFSET - d) + (90 * c - e))
  BY <1>3 DEF Clocked
<1>5. t \in Int /\ c \in Int BY <1>3
<1> HIDE DEF t, c
<1>6. PICK x \in Int : x = 90 * t + PTS_DTS_OFFSET - d BY <1>5 DEF PTS_DTS_OFFSET
<1>7. f.dts = StampOf(x) BY <1>4, <1>6
<1>8. ASSUME f.kind = "video" PROVE Near(f.dts, f.pcr, Ticks(0, PTS_DTS_OFFSET), 1)
  <2>1. PICK e \in {0, 1} : f.pcr = StampOf(90 * t - e) BY <1>4, <1>8
  <2>0. 90 * t - e \in Int BY <1>5
  <2>2. PICK y \in Int : y = 90 * t - e BY <2>0, Zenon
  <2>3. x - y = PTS_DTS_OFFSET - d + e BY <1>5, <1>6, <2>2 DEF PTS_DTS_OFFSET
  <2>4. Near(StampOf(x), StampOf(y), StampOf(PTS_DTS_OFFSET), 1)
    <3>1. PTS_DTS_OFFSET \in Int BY DEF PTS_DTS_OFFSET
    <3> QED BY <2>3, <3>1, NearOf
  <2>5. Ticks(0, PTS_DTS_OFFSET) = StampOf(PTS_DTS_OFFSET)
    <3>1. PICK o \in Int : o = PTS_DTS_OFFSET BY DEF PTS_DTS_OFFSET
    <3>2. PICK z \in Int : z = 0 OBVIOUS
    <3>3. Ticks(z, o) = StampOf(90 * z + o) BY TicksOf
    <3>4. 90 * z + o = o BY <3>2
    <3> QED BY <3>1, <3>2, <3>3, <3>4, Zenon
  <2> QED BY <1>7, <2>1, <2>2, <2>4, <2>5
<1>9. ASSUME c >= 0 PROVE Near(f.pts, f.dts, Ticks(c, 0), 1)
  <2>1. PICK e \in {0, 1} : f.pts = StampOf((90 * t + PTS_DTS_OFFSET - d) + (90 * c - e))
    BY <1>4, <1>9
  <2>0. x + (90 * c - e) \in Int BY <1>5
  <2>2. PICK y \in Int : y = x + (90 * c - e) BY <2>0, Zenon
  <2>3. f.pts = StampOf(y) BY <1>6, <2>1, <2>2
  <2>4. PICK n \in Int : n = 90 * c BY <1>5
  <2>5. y - x = n - e + 0 BY <2>2, <2>4
  <2>6. Near(StampOf(y), StampOf(x), StampOf(n), 1) BY <2>5, NearOf
  <2>7. Ticks(c, 0) = StampOf(n)
    <3>1. Ticks(c, 0) = StampOf(90 * c + 0) BY <1>5, TicksOf
    <3>2. 90 * c + 0 = n BY <1>5, <2>4
    <3> QED BY <3>1, <3>2
  <2> QED BY <1>7, <2>3, <2>6, <2>7
<1>10. ASSUME NEW j \in 1..Len(sent), sent[j].timestamp >= sent[i].timestamp
       PROVE  Near(sent[j].dts, f.dts, Ticks(sent[j].timestamp - t, 0), 1)
  <2>1. PICK g : g = sent[j] OBVIOUS
  <2>2. PICK u \in Int : u = g.timestamp BY <1>2, <2>1
  <2>3. Clocked(g) /\ u >= t /\ u >= 0 BY <1>1, <1>2, <1>3, <1>10, <2>1, <2>2 DEF t
  <2>4. PICK e \in {0, 1} : g.dts = StampOf(90 * u + PTS_DTS_OFFSET - e)
    BY <2>2, <2>3 DEF Clocked
  <2>5. PICK y \in Int : y = 90 * u + PTS_DTS_OFFSET - e BY DEF PTS_DTS_OFFSET
  <2>6. PICK n \in Int : n = 90 * (u - t) BY <1>5
  <2>7. y - x = n - e + d BY <1>5, <1>6, <2>5, <2>6 DEF PTS_DTS_OFFSET
  <2>8. Near(StampOf(y), StampOf(x), StampOf(n), 1) BY <2>7, NearOf
  <2>9. Ticks(u - t, 0) = StampOf(n)
    <3>1. PICK v \in Int : v = u - t BY <1>5
    <3>2. Ticks(v, 0) = StampOf(90 * v + 0) BY TicksOf
    <3>3. 90 * v + 0 = n BY <2>6, <3>1
    <3> QED BY <3>1, <3>2, <3>3
  <2> QED BY <1>7, <2>1, <2>2, <2>4, <2>5, <2>8, <2>9
<1> QED BY <1>1, <1>8, <1>9, <1>10 DEF t, c

\* Whatever the timestamps and composition times that are not negative: the
\* clocks of the frames are as far apart as those, also where 33 bits end.
THEOREM ClocksAgreeHolds == Spec => []ClocksAgree
<1>1. Init => ClocksInv
  <2>1. <<>> \in Seq(Frame) /\ Len(<<>>) = 0 OBVIOUS
  <2> QED BY <2>1 DEF Init, IInv, ClocksInv
<1>2. ClocksInv /\ [Next]_vars => ClocksInv' BY ClocksStep
<1> QED BY <1>1, <1>2, ClocksOf, PTL DEF Spec
=============================================================================
