-------------------------- MODULE FlvParserProofs --------------------------
(***************************************************************************)
(* The FLV parser on files of any bytes: the cursor and all that is handed *)
(* on stay within the file, in order, and a turn begins where the sizes    *)
(* that the tags state put it.                                             *)
(***************************************************************************)
EXTENDS FlvParser, WellFoundedInduction, TLAPS

FilePiece == [from: Nat, to: Nat]

\* Pieces that lie between byte a and byte b, one behind the other.
InOrder(s, a, b) ==
  /\ s \in Seq(FilePiece)
  /\ \A k \in 1..Len(s) : a <= s[k].from /\ s[k].from <= s[k].to /\ s[k].to <= b
  /\ \A k \in 2..Len(s) : s[k-1].to <= s[k].from

ParserInv ==
  /\ tool \in {"audio", "video", "parse", "flv2ts"} /\ page_end \in BOOLEAN
  /\ file \in Seq(0..255)
  /\ phase \in {"closed", "open", "body"}
  /\ result \in {"running", "done", "failed", "undefined"}
  /\ cur \in 0..Len(file) /\ turns \in Nat /\ width \in 0..4
  /\ InOrder(written, 0, cur)
  /\ phase # "body" => cur = 0 /\ turns = 0 /\ written = <<>>

----------------------------------------------------------------------------
(* Bytes and pieces.                                                       *)

\* Every nonempty set of natural numbers has a least element: an induction is
\* the search for the least number for which the claim would fail.
LEMMA LeastNumber ==
  ASSUME NEW S, S \subseteq Nat, S # {}
  PROVE  \E m \in S : \A k \in S : ~(k < m)
<1> DEFINE R == {ss \in Nat \X Nat : ss[1] < ss[2]}
<1>1. IsWellFoundedOn(R, Nat)
  BY NatLessThanWellFounded, Zenon DEF OpToRel
<1>2. \A x, y \in Nat : x < y => <<x, y>> \in R
  OBVIOUS
<1> HIDE DEF R
<1>3. \E m \in S : \A k \in S : ~(<<k, m>> \in R)
  BY <1>1, WFMin, Zenon
<1> QED
  BY <1>2, <1>3

\* Induction from 0 to n, for the set of the numbers that satisfy the claim.
LEMMA UpTo ==
  ASSUME NEW n \in Nat, NEW S, 0 \in S, \A m \in 0..n-1 : m \in S => m + 1 \in S
  PROVE  n \in S
<1> DEFINE T == {m \in 0..n : m \notin S}
<1> SUFFICES ASSUME n \notin S PROVE FALSE
  OBVIOUS
<1>1. T \subseteq Nat /\ T # {} OBVIOUS
<1> HIDE DEF T
<1>2. PICK m \in T : \A k \in T : ~(k < m) BY <1>1, LeastNumber
<1>3. m \in 0..n /\ m \notin S BY DEF T
<1>4. m # 0 /\ m-1 \in 0..n-1 /\ m-1 \in 0..n /\ m-1 < m /\ (m-1) + 1 = m BY <1>3
<1>5. m-1 \in S BY <1>2, <1>4 DEF T
<1> QED BY <1>3, <1>4, <1>5

LEMMA ByteType ==
  ASSUME file \in Seq(0..255), NEW p \in Nat
  PROVE  Byte(p) \in 0..255
<1> DEFINE B == 0..255
<1>0. file \in Seq(B) OBVIOUS
<1> HIDE DEF B
<1>1. Len(file) \in Nat /\ \A i \in 1..Len(file) : file[i] \in B BY <1>0
<1> USE DEF B
<1>2. CASE p < Len(file)
  <2>1. p + 1 \in 1..Len(file) BY <1>1, <1>2
  <2>2. file[p + 1] \in B BY <1>1, <2>1
  <2> QED BY <1>2, <2>2 DEF Byte
<1>3. CASE ~(p < Len(file))
  BY <1>3 DEF Byte
<1> QED BY <1>2, <1>3

LEMMA Join ==
  ASSUME NEW a \in Nat, NEW b \in Nat, NEW c \in Nat, a <= b, b <= c,
         NEW s, NEW t, InOrder(s, a, b), InOrder(t, b, c)
  PROVE  InOrder(s \o t, a, c)
<1>1. s \in Seq(FilePiece) /\ t \in Seq(FilePiece) BY DEF InOrder
<1>2. /\ s \o t \in Seq(FilePiece) /\ Len(s \o t) = Len(s) + Len(t)
      /\ \A k \in 1..Len(s) : (s \o t)[k] = s[k]
      /\ \A k \in Len(s)+1..Len(s)+Len(t) : (s \o t)[k] = t[k - Len(s)]
  BY <1>1
<1>3. Len(s) \in Nat /\ Len(t) \in Nat BY <1>1
<1>4. /\ \A k \in 1..Len(s) : s[k].from \in Nat /\ s[k].to \in Nat
      /\ \A k \in 1..Len(t) : t[k].from \in Nat /\ t[k].to \in Nat
  <2>1. (\A k \in 1..Len(s) : s[k] \in FilePiece) /\ (\A k \in 1..Len(t) : t[k] \in FilePiece)
    BY <1>1
  <2> QED BY <2>1 DEF FilePiece
<1>5. ASSUME NEW k \in 1..Len(s)+Len(t)
      PROVE  a <= (s \o t)[k].from /\ (s \o t)[k].from <= (s \o t)[k].to /\ (s \o t)[k].to <= c
  <2>1. CASE k \in 1..Len(s)
    BY <1>2, <1>3, <1>4, <2>1 DEF InOrder
  <2>2. CASE k \notin 1..Len(s)
    <3>1. k \in Len(s)+1..Len(s)+Len(t) /\ k - Len(s) \in 1..Len(t) BY <1>3, <2>2
    <3> QED BY <1>2, <1>4, <3>1 DEF InOrder
  <2> QED BY <2>1, <2>2
<1>6. ASSUME NEW k \in 2..Len(s)+Len(t)
      PROVE  (s \o t)[k-1].to <= (s \o t)[k].from
  <2>1. CASE k <= Len(s)
    BY <1>2, <1>3, <2>1 DEF InOrder
  <2>2. CASE k = Len(s) + 1
    <3>1. k - 1 \in 1..Len(s) /\ k - 1 = Len(s) /\ k - Len(s) = 1 /\ 1 \in 1..Len(t)
      BY <1>3, <2>2
    <3>2. (s \o t)[k-1] = s[k-1] /\ (s \o t)[k] = t[1] BY <1>2, <1>3, <2>2, <3>1
    <3>3. s[k-1].to <= b /\ b <= t[1].from BY <3>1 DEF InOrder
    <3> QED BY <1>4, <3>1, <3>2, <3>3
  <2>3. CASE k > Len(s) + 1
    <3>1. k - Len(s) \in 2..Len(t) /\ (k - 1) - Len(s) = (k - Len(s)) - 1 BY <1>3, <2>3
    <3>2. (s \o t)[k-1] = t[(k - Len(s)) - 1] /\ (s \o t)[k] = t[k - Len(s)]
      BY <1>2, <1>3, <2>3, <3>1
    <3> QED BY <3>1, <3>2 DEF InOrder
  <2> QED BY <1>3, <2>1, <2>2, <2>3
<1> QED BY <1>2, <1>5, <1>6 DEF InOrder

LEMMA OnePiece ==
  ASSUME NEW a \in Nat, NEW q \in Nat, NEW r \in Nat, a <= q, q <= r
  PROVE  InOrder(<<[from |-> q, to |-> r]>>, a, r)
<1> DEFINE s == <<[from |-> q, to |-> r]>>
<1>1. [from |-> q, to |-> r] \in FilePiece BY DEF FilePiece
<1>2. s \in Seq(FilePiece) /\ Len(s) = 1 /\ s[1].from = q /\ s[1].to = r BY <1>1
<1> HIDE DEF s
<1>3. InOrder(s, a, r) BY <1>2 DEF InOrder
<1> QED BY <1>3 DEF s

LEMMA NoPiece == ASSUME NEW a \in Nat, NEW b \in Nat PROVE InOrder(<<>>, a, b)
BY DEF InOrder

LEMMA Widen ==
  ASSUME NEW a \in Nat, NEW b \in Nat, NEW c \in Nat, NEW s, InOrder(s, a, b), b <= c
  PROVE  InOrder(s, a, c)
<1>1. \A k \in 1..Len(s) : s[k].to \in Nat
  <2>1. \A k \in 1..Len(s) : s[k] \in FilePiece BY DEF InOrder
  <2> QED BY <2>1 DEF FilePiece
<1> QED BY <1>1 DEF InOrder

----------------------------------------------------------------------------
(* The units of a NALU.                                                    *)

\* The length on w bytes is well defined, and a natural number.
LEMMA NumberType ==
  ASSUME file \in Seq(0..255), NEW q \in Nat, NEW w \in Nat
  PROVE  Number(q, w) \in Nat
<1> DEFINE Step(n, i) == 256 * n + Byte(q + i - 1)
           IsFcn(g, m) == g = [i \in 0..m |-> IF i = 0 THEN 0 ELSE Step(g[i-1], i)]
           S == {m \in 0..w : \E g : IsFcn(g, m) /\ \A i \in 0..m : g[i] \in Nat}
<1>1. ASSUME NEW n \in Nat, NEW i \in 1..w PROVE Step(n, i) \in Nat
  <2>1. q + i - 1 \in Nat OBVIOUS
  <2>2. PICK b \in 0..255 : b = Byte(q + i - 1) BY <2>1, ByteType
  <2>3. 256 * n + b \in Nat OBVIOUS
  <2> QED BY <2>2, <2>3
<1> HIDE DEF Step
<1>2. 0 \in S
  <2> DEFINE z == [i \in 0..0 |-> 0]
  <2>1. IsFcn(z, 0) /\ \A i \in 0..0 : z[i] \in Nat OBVIOUS
  <2> HIDE DEF z, IsFcn
  <2> QED BY <2>1
<1>3. ASSUME NEW m \in 0..w-1, m \in S PROVE m + 1 \in S
  <2>1. PICK g : IsFcn(g, m) /\ \A i \in 0..m : g[i] \in Nat
    <3> HIDE DEF IsFcn
    <3> QED BY <1>3
  <2> DEFINE h == [i \in 0..m+1 |-> IF i = m + 1 THEN Step(g[m], m + 1) ELSE g[i]]
  <2>2. ASSUME NEW i \in 0..m+1
        PROVE  h[i] = (IF i = 0 THEN 0 ELSE Step(h[i-1], i)) /\ h[i] \in Nat
    <3>1. CASE i = m + 1
      <4>1. h[i-1] = g[m] /\ i # 0 /\ h[i] = Step(g[m], i) BY <3>1
      <4>2. g[m] \in Nat /\ i \in 1..w BY <2>1, <3>1
      <4>3. Step(g[m], i) \in Nat BY <1>1, <4>2
      <4> QED BY <4>1, <4>3
    <3>2. CASE i # m + 1
      <4>1. i \in 0..m /\ h[i] = g[i] /\ (i # 0 => h[i-1] = g[i-1]) BY <3>2
      <4>2. g[i] = IF i = 0 THEN 0 ELSE Step(g[i-1], i) BY <2>1, <4>1
      <4> QED BY <2>1, <4>1, <4>2
    <3> QED BY <3>1, <3>2
  <2>3. IsFcn(h, m + 1) /\ \A i \in 0..m+1 : h[i] \in Nat
    BY <2>2
  <2> HIDE DEF h, IsFcn
  <2>4. m + 1 \in 0..w OBVIOUS
  <2> QED BY <2>3, <2>4
<1>4. w \in S
  <2> HIDE DEF S
  <2> QED BY <1>2, <1>3, UpTo
<1> DEFINE c == CHOOSE g : IsFcn(g, w)
<1>5. Number(q, w) = c[w]
  BY Zenon DEF Number, Step
<1> HIDE DEF IsFcn
<1>6. PICK g : IsFcn(g, w) /\ \A i \in 0..w : g[i] \in Nat BY <1>4
<1>7. IsFcn(c, w) BY <1>6
<1> HIDE DEF c
<1>8. /\ c[0] = 0
      /\ \A i \in 1..w : c[i] = Step(c[i-1], i)
  BY <1>7 DEF IsFcn
<1> DEFINE T == {m \in 0..w : c[m] \in Nat}
<1>9. 0 \in T BY <1>8
<1>10. ASSUME NEW m \in 0..w-1, m \in T PROVE m + 1 \in T
  <2>1. m + 1 \in 1..w /\ (m + 1) - 1 = m /\ m + 1 \in 0..w OBVIOUS
  <2>2. c[m + 1] = Step(c[m], m + 1) BY <1>8, <2>1
  <2>3. c[m] \in Nat BY <1>10
  <2>4. Step(c[m], m + 1) \in Nat BY <1>1, <2>1, <2>3
  <2> QED BY <2>1, <2>2, <2>4
<1>11. w \in T
  <2> HIDE DEF T
  <2> QED BY <1>9, <1>10, UpTo
<1> QED BY <1>5, <1>11

\* The units lie behind each other between the two ends.
LEMMA UnitsInOrder ==
  ASSUME file \in Seq(0..255), NEW p \in Nat, NEW n \in Int, NEW w \in 1..4
  PROVE  InOrder(Units(p, n, w), p, IF n <= 0 THEN p ELSE p + n)
<1>1. CASE n <= 0
  <2>1. Units(p, n, w) = <<>> BY <1>1, Zenon DEF Units
  <2> QED BY <1>1, <2>1, NoPiece
<1>2. CASE ~(n <= 0)
  <2> DEFINE to(q)   == q + w + Number(q, w)
             Fits(q) == q + w <= p + n /\ to(q) <= p + n
             Step(g, q) == IF Fits(q) THEN <<[from |-> q + w, to |-> to(q)]>> \o g[to(q)] ELSE <<>>
             IsFcn(g, m) == g = [q \in p+n-m..p+n |-> Step(g, q)]
             S == {m \in 0..n : \E g : IsFcn(g, m)}
  <2>0. n \in Nat /\ p + n \in Nat /\ n # 0 BY <1>2
  <2>1. ASSUME NEW q \in Nat
        PROVE  to(q) \in Nat /\ q + w \in Nat /\ q < q + w /\ q + w <= to(q)
    <3>0. w \in Nat OBVIOUS
    <3>1. Number(q, w) \in Nat BY <3>0, NumberType, Zenon
    <3> QED BY <3>1
  <2> HIDE DEF to
  <2>2. 0 \in S
    <3> DEFINE z == [q \in p+n..p+n |-> <<>>]
    <3>1. ~Fits(p + n) BY <2>0, <2>1
    <3>2. \A q \in p+n..p+n : z[q] = Step(z, q) BY <2>0, <3>1
    <3> HIDE DEF Step
    <3>3. p + n - 0 = p + n BY <2>0
    <3>4. z = [q \in p+n..p+n |-> Step(z, q)] BY <3>2
    <3>5. IsFcn(z, 0) BY <3>3, <3>4
    <3> HIDE DEF z, IsFcn
    <3> QED BY <2>0, <3>5
  <2>3. ASSUME NEW m \in 0..n-1, m \in S PROVE m + 1 \in S
    <3>1. PICK g : IsFcn(g, m)
      <4> HIDE DEF IsFcn
      <4> QED BY <2>3
    <3> DEFINE l == p + n - (m + 1)
               h == [q \in l..p+n |-> IF q = l THEN Step(g, l) ELSE g[q]]
    <3>0. l \in Nat /\ p + n - m = l + 1 /\ l < p + n BY <2>0
    <3>2. ASSUME NEW q \in l..p+n PROVE h[q] = Step(h, q)
      <4>0. q \in Nat BY <2>0, <3>0
      <4>1. Fits(q) => to(q) \in l+1..p+n
        <5> HIDE DEF l
        <5> QED BY <2>0, <2>1, <3>0, <4>0
      <4>2. Fits(q) => h[to(q)] = g[to(q)]
        <5>1. to(q) \in l+1..p+n => to(q) \in l..p+n /\ to(q) # l BY <2>0, <3>0
        <5> HIDE DEF l
        <5> QED BY <4>1, <5>1
      <4>3. Step(h, q) = Step(g, q)
        <5> HIDE DEF h, Fits
        <5> QED BY <4>2
      <4>4. CASE q = l BY <4>3, <4>4
      <4>5. CASE q # l
        <5>1. q \in p+n-m..p+n BY <2>0, <3>0, <4>5
        <5>2. g[q] = Step(g, q)
          <6> HIDE DEF Step
          <6> QED BY <3>1, <5>1
        <5>3. h[q] = g[q] BY <4>5
        <5> QED BY <4>3, <5>2, <5>3
      <4> QED BY <4>4, <4>5
    <3>3. IsFcn(h, m + 1)
      <4> HIDE DEF Step
      <4>1. DOMAIN h = l..p+n /\ h = [q \in l..p+n |-> h[q]] OBVIOUS
      <4> HIDE DEF h
      <4>2. h = [q \in l..p+n |-> Step(h, q)] BY <3>2, <4>1
      <4> QED BY <4>2
    <3> HIDE DEF h, IsFcn
    <3> QED BY <2>0, <3>3
  <2>4. n \in S
    <3> HIDE DEF S
    <3> QED BY <2>0, <2>2, <2>3, UpTo
  <2> DEFINE c == CHOOSE g : g = [q \in p..p+n |-> Step(g, q)]
  <2>5. Units(p, n, w) = c[p]
    BY <1>2, Zenon DEF Units, to, Step, Fits
  <2>6. c = [q \in p..p+n |-> Step(c, q)]
    <3> HIDE DEF Step
    <3>1. PICK g : g = [q \in p+n-n..p+n |-> Step(g, q)] BY <2>4
    <3>2. p + n - n = p BY <2>0
    <3>3. g = [q \in p..p+n |-> Step(g, q)] BY <3>1, <3>2
    <3> QED BY <3>3
  <2> HIDE DEF c
  <2>7. ASSUME NEW q \in p..p+n PROVE c[q] = Step(c, q)
    <3> HIDE DEF Step
    <3> QED BY <2>6
  <2> DEFINE T == {m \in 0..n : \A q \in p+n-m..p+n : InOrder(c[q], q, p + n)}
  <2>8. ASSUME NEW q \in p..p+n, Fits(q) => InOrder(c[to(q)], to(q), p + n)
        PROVE  InOrder(c[q], q, p + n)
    <3>0. q \in Nat /\ p + n \in Nat BY <2>0
    <3>1. CASE Fits(q)
      <4>1. /\ to(q) \in Nat /\ q + w \in Nat /\ q <= q + w /\ q + w <= to(q)
            /\ q <= to(q) /\ to(q) <= p + n
        BY <2>1, <3>0, <3>1
      <4>2. InOrder(<<[from |-> q + w, to |-> to(q)]>>, q, to(q)) BY <3>0, <4>1, OnePiece
      <4>3. InOrder(<<[from |-> q + w, to |-> to(q)]>> \o c[to(q)], q, p + n)
        BY <2>8, <3>0, <3>1, <4>1, <4>2, Join
      <4>4. c[q] = <<[from |-> q + w, to |-> to(q)]>> \o c[to(q)] BY <2>7, <3>1
      <4> QED BY <4>3, <4>4
    <3>2. CASE ~Fits(q)
      <4>1. c[q] = <<>> BY <2>7, <3>2
      <4> QED BY <3>0, <4>1, NoPiece
    <3> QED BY <3>1, <3>2
  <2>9. 0 \in T
    <3>1. ASSUME NEW q \in p+n-0..p+n PROVE InOrder(c[q], q, p + n)
      <4>1. q = p + n /\ q \in p..p+n /\ q \in Nat BY <2>0
      <4>2. ~Fits(q) BY <2>0, <2>1, <4>1
      <4> HIDE DEF Fits
      <4> QED BY <2>8, <4>1, <4>2
    <3> QED BY <2>0, <3>1
  <2>10. ASSUME NEW m \in 0..n-1, m \in T PROVE m + 1 \in T
    <3>1. ASSUME NEW q \in p+n-(m+1)..p+n PROVE InOrder(c[q], q, p + n)
      <4>0. q \in Nat /\ q \in p..p+n BY <2>0
      <4>1. Fits(q) => to(q) \in p+n-m..p+n BY <2>0, <2>1, <4>0
      <4> HIDE DEF Fits
      <4>2. Fits(q) => InOrder(c[to(q)], to(q), p + n) BY <2>10, <4>1
      <4> QED BY <2>8, <4>0, <4>2
    <3> QED BY <2>0, <3>1
  <2>11. n \in T
    <3> HIDE DEF T
    <3> QED BY <2>0, <2>9, <2>10, UpTo
  <2>12. p \in p+n-n..p+n BY <2>0
  <2>13. InOrder(c[p], p, p + n) BY <2>11, <2>12
  <2> QED BY <1>2, <2>5, <2>13
<1> QED BY <1>1, <1>2

----------------------------------------------------------------------------
(* A turn.                                                                 *)

LEMMA SizeTypes ==
  ASSUME file \in Seq(0..255), NEW p \in Nat
  PROVE  U16(p) \in Nat /\ U24(p) \in Nat /\ U32(p) \in Nat
<1>0. p + 1 \in Nat /\ p + 1 + 1 \in Nat /\ p + 2 \in Nat /\ p + 2 + 1 \in Nat OBVIOUS
<1>1. PICK a \in 0..255 : a = Byte(p) BY ByteType
<1>2. PICK b \in 0..255 : b = Byte(p+1) BY <1>0, ByteType
<1>3. PICK c \in 0..255 : c = Byte(p+1+1) BY <1>0, ByteType
<1>4. PICK d \in 0..255 : d = Byte(p+2) BY <1>0, ByteType
<1>5. PICK e \in 0..255 : e = Byte(p+2+1) BY <1>0, ByteType
<1>6. PICK x \in Nat : x = U16(p)
  <2>1. 256 * a + b \in Nat OBVIOUS
  <2> QED BY <1>1, <1>2, <2>1 DEF U16
<1>7. PICK y \in Nat : y = U16(p+1)
  <2>1. 256 * b + c \in Nat OBVIOUS
  <2> QED BY <1>2, <1>3, <2>1 DEF U16
<1>8. PICK z \in Nat : z = U16(p+2)
  <2>1. 256 * d + e \in Nat OBVIOUS
  <2> QED BY <1>4, <1>5, <2>1 DEF U16
<1>9. U24(p) \in Nat
  <2>1. 65536 * a + y \in Nat OBVIOUS
  <2> QED BY <1>1, <1>7, <2>1 DEF U24
<1>10. U32(p) \in Nat
  <2>1. 65536 * x + z \in Nat OBVIOUS
  <2> QED BY <1>6, <1>8, <2>1 DEF U32
<1> QED BY <1>6, <1>9, <1>10

\* Whatever its header takes, a tag ends behind the data that it states.
LEMMA TagFacts ==
  ASSUME file \in Seq(0..255), cur \in Nat, TagFits
  PROVE  /\ DataSize \in Nat /\ DataSize = U24(cur + 5)
         /\ After = cur + 15 + DataSize /\ After <= Len(file)
         /\ Payload \in Nat /\ cur <= Payload
         /\ PayloadSize \in Int /\ After = Payload + PayloadSize
<1>1. H = cur + 4 /\ H + 1 = cur + 5 /\ D = cur + 15 BY DEF H, D
<1>2. DataSize = U24(cur + 5) BY <1>1 DEF DataSize
<1>3. DataSize \in Nat BY <1>2, SizeTypes
<1>4. HeaderSize \in 0..5 BY DEF HeaderSize
<1>5. D + DataSize <= Len(file) BY DEF TagFits, CanRead
<1>6. PayloadSize \in Int /\ Payload \in Nat /\ cur <= Payload
      /\ Payload + PayloadSize = cur + 15 + DataSize
  BY <1>1, <1>3, <1>4 DEF PayloadSize, Payload
<1>7. After = Payload + PayloadSize BY DEF After
<1> QED BY <1>1, <1>2, <1>3, <1>5, <1>6, <1>7

LEMMA ConfWidth ==
  ASSUME file \in Seq(0..255), NEW p \in Nat
  PROVE  (Byte(p) % 4) + 1 \in 1..4
<1>1. PICK b \in 0..255 : b = Byte(p) BY ByteType
<1>2. (b % 4) + 1 \in 1..4 OBVIOUS
<1> QED BY <1>1, <1>2

LEMMA ParserStart == Init => ParserInv
<1> SUFFICES ASSUME Init PROVE ParserInv
  OBVIOUS
<1>1. InOrder(written, 0, cur) BY NoPiece DEF Init
<1>2. Len(file) \in Nat
  <2> DEFINE B == 0..255
  <2>1. file \in Seq(B) BY DEF Init
  <2> HIDE DEF B
  <2> QED BY <2>1
<1>3. cur \in 0..Len(file) BY <1>2 DEF Init
<1> QED BY <1>1, <1>3 DEF Init, ParserInv

LEMMA ParserStep == ParserInv /\ [Next]_vars => ParserInv'
<1> SUFFICES ASSUME ParserInv, [Next]_vars PROVE ParserInv'
  OBVIOUS
<1> DEFINE B == 0..255
<1>0. file \in Seq(B) /\ file' = file BY DEF ParserInv, Next, vars, Stop, GoOn, OpenError,
        OpenFile, HeaderError, ParseHeader, ParseError, Eos, Refuse, Skip, Copy, Cut, Undefined
<1> HIDE DEF B
<1>1. Len(file) \in Nat BY <1>0
<1>2. cur \in Nat /\ cur <= Len(file) BY <1>1 DEF ParserInv
<1> USE DEF B
<1>3. CASE OpenError BY <1>3 DEF OpenError, Stop, ParserInv
<1>4. CASE OpenFile BY <1>4 DEF OpenFile, ParserInv
<1>5. CASE HeaderError BY <1>5 DEF HeaderError, Stop, ParserInv
<1>6. CASE ParseHeader
  <2>1. U32(5) \in Nat BY <1>0, SizeTypes
  <2>2. Len(file) >= 9 BY <1>1, <1>6 DEF ParseHeader, HeaderFits, CanRead
  <2>3. cur' \in 0..Len(file) BY <1>1, <1>6, <2>1, <2>2 DEF ParseHeader, DataOffset
  <2>4. written' = <<>> BY <1>6 DEF ParseHeader, ParserInv
  <2>5. InOrder(written', 0, cur') BY <1>1, <2>3, <2>4, NoPiece
  <2>6. InOrder(written, 0, cur)' BY <2>5
  <2> QED BY <1>0, <1>6, <2>3, <2>6 DEF ParseHeader, ParserInv
<1>7. CASE ParseError BY <1>7 DEF ParseError, Turn, Stop, ParserInv
<1>8. ASSUME Parsed
      PROVE  /\ phase = "body" /\ result = "running" /\ TagFits
             /\ After \in 0..Len(file) /\ cur <= After /\ cur <= Payload
             /\ Payload \in Nat /\ PayloadSize \in Int /\ After = Payload + PayloadSize
  <2>1. phase = "body" /\ result = "running" /\ TagFits BY <1>8 DEF Parsed, Turn
  <2>2. PICK n \in Nat : n = DataSize BY <1>0, <1>2, <2>1, TagFacts
  <2>3. /\ After = cur + 15 + n /\ After <= Len(file) /\ Payload \in Nat
        /\ cur <= Payload /\ PayloadSize \in Int /\ After = Payload + PayloadSize
    BY <1>0, <1>2, <2>1, <2>2, TagFacts
  <2> QED BY <1>1, <1>2, <2>1, <2>3
<1>9. CASE Eos
  <2>1. cur' \in 0..Len(file) /\ cur <= cur' /\ phase = "body"
    <3>1. CASE Turn /\ CanRead(cur, 4) /\ AtEnd(H) /\ cur' = H
      BY <1>1, <1>2, <3>1 DEF Turn, CanRead, H
    <3>2. CASE Parsed /\ AtEnd(After) /\ cur' = After
      BY <1>8, <3>2
    <3> QED BY <1>9, <3>1, <3>2 DEF Eos
  <2>2. UNCHANGED <<tool, flv, file, page_end, turns, width, written, phase>> /\ result' = "done"
    BY <1>9 DEF Eos, Stop
  <2>3. InOrder(written, 0, cur') BY <1>1, <1>2, <2>1, Widen DEF ParserInv
  <2>4. InOrder(written, 0, cur)' BY <2>2, <2>3
  <2> QED BY <2>1, <2>2, <2>4 DEF ParserInv
<1>10. CASE Refuse BY <1>10 DEF Refuse, Stop, ParserInv
<1>11. ASSUME GoOn, Parsed, width' \in 0..4, InOrder(written', 0, After)
       PROVE  ParserInv'
  <2>1. /\ cur' = After /\ turns' = turns + 1 /\ phase = "body" /\ phase' = phase
        /\ UNCHANGED <<tool, file, page_end, result>>
    BY <1>8, <1>11 DEF GoOn
  <2>2. After \in 0..Len(file) BY <1>8, <1>11
  <2>3. cur' \in 0..Len(file') BY <2>1, <2>2
  <2>4. InOrder(written, 0, cur)' BY <1>11, <2>1
  <2> QED BY <1>11, <2>1, <2>3, <2>4 DEF ParserInv
<1>12. CASE Skip
  <2>1. Parsed /\ GoOn /\ written' = written BY <1>12 DEF Skip
  <2>2. Payload + 4 \in Nat BY <1>8, <2>1
  <2>3. (Byte(Payload + 4) % 4) + 1 \in 1..4 BY <1>0, <2>2, ConfWidth
  <2>4. width' \in 0..4
    <3>1. width' = (Byte(Payload + 4) % 4) + 1 \/ width' = width BY <1>12 DEF Skip
    <3>2. 1..4 \subseteq 0..4 OBVIOUS
    <3> QED BY <2>3, <3>1, <3>2 DEF ParserInv
  <2>5. InOrder(written', 0, After)
    BY <1>1, <1>2, <1>8, <2>1, Widen DEF ParserInv
  <2> QED BY <1>11, <2>1, <2>4, <2>5
<1>13. CASE Copy
  <2>1. /\ Parsed /\ GoOn /\ width' = width /\ PayloadSize >= 0
        /\ written' = Append(written, [from |-> Payload, to |-> After])
    BY <1>13 DEF Copy
  <2>2. After \in Nat /\ Payload <= After BY <1>1, <1>8, <2>1
  <2>3. InOrder(<<[from |-> Payload, to |-> After]>>, cur, After)
    BY <1>2, <1>8, <2>1, <2>2, OnePiece
  <2>4. InOrder(written \o <<[from |-> Payload, to |-> After]>>, 0, After)
    BY <1>2, <1>8, <2>1, <2>2, <2>3, Join DEF ParserInv
  <2>5. written' = written \o <<[from |-> Payload, to |-> After]>>
    <3>1. written \in Seq(FilePiece) BY DEF ParserInv, InOrder
    <3>2. [from |-> Payload, to |-> After] \in FilePiece BY <1>8, <2>1, <2>2 DEF FilePiece
    <3> DEFINE r == [from |-> Payload, to |-> After]
    <3> HIDE DEF r
    <3>3. Append(written, r) = written \o <<r>> BY <3>1, <3>2 DEF r
    <3> QED BY <2>1, <3>3 DEF r
  <2>6. width' \in 0..4 BY <2>1 DEF ParserInv
  <2> QED BY <1>11, <2>1, <2>4, <2>5, <2>6
<1>14. CASE Cut
  <2>1. /\ Parsed /\ GoOn /\ width' = width /\ width # 0
        /\ written' = written \o Units(Payload, PayloadSize, width)
    BY <1>14 DEF Cut
  <2>2. width \in 1..4 BY <2>1 DEF ParserInv
  <2>3. After \in Nat BY <1>1, <1>8, <2>1
  <2>4. InOrder(Units(Payload, PayloadSize, width), cur, After)
    <3>1. InOrder(Units(Payload, PayloadSize, width), Payload,
                  IF PayloadSize <= 0 THEN Payload ELSE Payload + PayloadSize)
      BY <1>0, <1>8, <2>1, <2>2, UnitsInOrder
    <3>2. CASE PayloadSize <= 0
      <4>1. Units(Payload, PayloadSize, width) = <<>> BY <3>2, Zenon DEF Units
      <4> QED BY <1>2, <2>3, <4>1, NoPiece
    <3>3. CASE ~(PayloadSize <= 0)
      <4>1. InOrder(Units(Payload, PayloadSize, width), Payload, After)
        BY <1>8, <2>1, <3>1, <3>3
      <4>2. InOrder(<<>>, cur, Payload) BY <1>2, <1>8, <2>1, NoPiece
      <4>3. Payload <= After BY <1>8, <2>1, <3>3
      <4>4. InOrder(<<>> \o Units(Payload, PayloadSize, width), cur, After)
        BY <1>2, <1>8, <2>1, <2>3, <4>1, <4>2, <4>3, Join
      <4>5. Units(Payload, PayloadSize, width) \in Seq(FilePiece) BY <4>1 DEF InOrder
      <4>6. <<>> \o Units(Payload, PayloadSize, width) = Units(Payload, PayloadSize, width)
        BY <4>5
      <4> QED BY <4>4, <4>6
    <3> QED BY <3>2, <3>3
  <2>5. InOrder(written \o Units(Payload, PayloadSize, width), 0, After)
    BY <1>2, <1>8, <2>1, <2>3, <2>4, Join DEF ParserInv
  <2>6. width' \in 0..4 BY <2>1 DEF ParserInv
  <2> QED BY <1>11, <2>1, <2>5, <2>6
<1>15. CASE Undefined BY <1>15 DEF Undefined, Stop, ParserInv
<1>16. CASE UNCHANGED vars
  <2>1. InOrder(written, 0, cur)' BY <1>16 DEF ParserInv, vars
  <2> QED BY <1>16, <2>1 DEF ParserInv, vars
<1> QED BY <1>3, <1>4, <1>5, <1>6, <1>7, <1>9, <1>10, <1>12, <1>13, <1>14, <1>15, <1>16 DEF Next

\* The cursor stays within the file, whatever its bytes say, and what is handed
\* on lies within it, one piece behind the other, each of them once.
THEOREM ParserTypes == Spec => []TypeOK
<1>1. ParserInv => TypeOK
  <2> SUFFICES ASSUME ParserInv PROVE TypeOK
    OBVIOUS
  <2> DEFINE B == 0..255
  <2>1. file \in Seq(B) BY DEF ParserInv
  <2> HIDE DEF B
  <2>2. Len(file) \in Nat BY <2>1
  <2>3. InOrder(written, 0, Len(file)) BY <2>2, Widen DEF ParserInv
  <2> QED BY <2>3 DEF ParserInv, InOrder, TypeOK
<1> QED BY <1>1, ParserStart, ParserStep, PTL DEF Spec

----------------------------------------------------------------------------
(* The layout.                                                             *)

LayoutInv ==
  /\ ParserInv /\ Laid(flv.starts)
  /\ phase # "body" => turns = 0
  /\ LayoutFollowed

LEMMA LayoutStep == LayoutInv /\ [Next]_vars => LayoutInv'
<1> SUFFICES ASSUME LayoutInv, [Next]_vars PROVE LayoutInv'
  OBVIOUS
<1> DEFINE s == flv.starts
<1>1. ParserInv' BY ParserStep DEF LayoutInv
<1>2. UNCHANGED <<flv, file>> BY DEF Next, vars, Stop, GoOn, OpenError,
        OpenFile, HeaderError, ParseHeader, ParseError, Eos, Refuse, Skip, Copy, Cut, Undefined
<1>3. Laid(flv.starts)'
  BY <1>2 DEF LayoutInv, Laid, DataOffset, CanRead, Byte, U16, U24, U32
<1>4. (phase # "body" => turns = 0)' BY <1>1 DEF ParserInv
<1>5. LayoutFollowed'
  <2>1. CASE ParseHeader
    <3>1. CanRead(0, 9) /\ cur' = DataOffset /\ turns' = turns /\ turns = 0
      BY <2>1 DEF ParseHeader, HeaderFits, LayoutInv
    <3>2. s \in Seq(Nat) /\ s # <<>> /\ s[1] = DataOffset BY <3>1 DEF LayoutInv, Laid
    <3>3. 0 < Len(s) BY <3>2
    <3> QED BY <1>2, <3>1, <3>2, <3>3 DEF LayoutFollowed
  <2>2. ASSUME GoOn, Parsed PROVE LayoutFollowed'
    <3>1. phase = "body" /\ result = "running" /\ TagFits BY <2>2 DEF Parsed, Turn
    <3>2. turns < Len(s) /\ cur = s[turns + 1] BY <3>1 DEF LayoutInv, LayoutFollowed
    <3>3. file \in Seq(0..255) /\ cur \in Nat /\ turns \in Nat BY DEF LayoutInv, ParserInv
    <3>4. PICK n \in Nat : n = U24(cur + 5) BY <3>1, <3>3, TagFacts
    <3>5. After = cur + 15 + n /\ After <= Len(file) BY <3>1, <3>3, <3>4, TagFacts
    <3>6. Byte(cur + 4) % 64 \in {8, 9, 18}
      <4>1. PICK b \in 0..255 : b = Byte(cur + 4)
        <5>1. cur + 4 \in Nat BY <3>3
        <5> QED BY <3>3, <5>1, ByteType
      <4>2. (b \div 32) % 2 = 0 /\ b % 32 \in {8, 9, 18}
        BY <3>1, <4>1 DEF TagFits, Filter, Type, H, AUDIO, VIDEO, SCRIPT_DATA
      <4>3. b % 64 = b % 32 BY <4>2
      <4> QED BY <4>1, <4>2, <4>3
    <3>7. /\ s \in Seq(Nat)
          /\ \A i \in 2..Len(s) : s[i] = s[i-1] + 15 + U24(s[i-1] + 5)
          /\ \/ s[Len(s)] + 15 + U24(s[Len(s)] + 5) > Len(file)
             \/ Byte(s[Len(s)] + 4) % 64 \notin {8, 9, 18}
      BY DEF LayoutInv, Laid
    <3>8. turns + 1 # Len(s)
      <4> SUFFICES ASSUME turns + 1 = Len(s) PROVE FALSE
        OBVIOUS
      <4>1. s[Len(s)] = cur BY <3>2
      <4>2. s[Len(s)] + 15 + U24(s[Len(s)] + 5) = After BY <3>4, <3>5, <4>1
      <4>3. Len(file) \in Nat
        <5> DEFINE B == 0..255
        <5>1. file \in Seq(B) BY <3>3
        <5> HIDE DEF B
        <5> QED BY <5>1
      <4>4. ~(After > Len(file)) BY <3>3, <3>4, <3>5, <4>3
      <4> QED BY <3>6, <3>7, <4>1, <4>2, <4>4
    <3>9. turns + 1 < Len(s) /\ turns + 2 \in 2..Len(s) /\ (turns + 2) - 1 = turns + 1
      BY <3>2, <3>3, <3>7, <3>8
    <3>10. s[turns + 2] = s[turns + 1] + 15 + U24(s[turns + 1] + 5)
      BY <3>7, <3>9
    <3>11. s[turns + 2] = After BY <3>2, <3>4, <3>5, <3>10
    <3>12. cur' = After /\ turns' = turns + 1 BY <2>2 DEF GoOn
    <3>13. turns' + 1 = turns + 2 BY <3>3, <3>12
    <3> QED BY <1>2, <3>9, <3>11, <3>12, <3>13 DEF LayoutFollowed
  <2>3. CASE Skip BY <2>2, <2>3 DEF Skip
  <2>4. CASE Copy BY <2>2, <2>4 DEF Copy
  <2>5. CASE Cut BY <2>2, <2>5 DEF Cut
  <2>6. CASE OpenFile BY <2>6 DEF OpenFile, LayoutFollowed
  <2>7. CASE OpenError \/ HeaderError \/ ParseError \/ Eos \/ Refuse \/ Undefined
    <3>1. result' # "running"
      BY <2>7 DEF OpenError, HeaderError, ParseError, Eos, Refuse, Undefined, Stop
    <3> QED BY <3>1 DEF LayoutFollowed
  <2>8. CASE UNCHANGED vars BY <2>8 DEF LayoutInv, LayoutFollowed, vars
  <2> QED BY <2>1, <2>3, <2>4, <2>5, <2>6, <2>7, <2>8 DEF Next
<1> QED BY <1>1, <1>3, <1>4, <1>5 DEF LayoutInv

\* Every turn begins where the stated sizes put its tag, also behind a tag with
\* a header larger than its data, where a size_t wraps and the cursor is moved
\* back; and it never begins behind a tag that is broken or cut off.
THEOREM LayoutHolds == Spec => []LayoutFollowed
<1>1. Init => LayoutInv
  <2> SUFFICES ASSUME Init PROVE LayoutInv
    OBVIOUS
  <2>1. ParserInv BY ParserStart
  <2> QED BY <2>1 DEF Init, LayoutInv, LayoutFollowed
<1>2. LayoutInv => LayoutFollowed BY DEF LayoutInv
<1> QED BY <1>1, <1>2, LayoutStep, PTL DEF Spec
=============================================================================
