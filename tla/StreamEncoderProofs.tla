------------------------ MODULE StreamEncoderProofs ------------------------
(***************************************************************************)
(* Proofs about StreamEncoder, for every text, block and segment length:   *)
(* the blocks tile the input, and the frame does not tell how the input    *)
(* was cut into calls.                                                     *)
(***************************************************************************)
EXTENDS StreamEncoder, SequenceTheorems, TLAPS

-----------------------------------------------------------------------------
(***************************************************************************)
(* The hasher after n bytes of the stream, however they came.              *)
(***************************************************************************)
\* What a lane has taken of the first stripes, and where a word of it begins.
LaneAfter(lane, stripes) ==
  [k \in 1..stripes |-> Bytes((k - 1) * StripeLength + (lane - 1) * WordLength, WordLength)]

LanesAfter(stripes) == [lane \in 1..LaneCount |-> LaneAfter(lane, stripes)]

Hasher(stripes, pending, total) ==
  [lanes |-> LanesAfter(stripes), pending |-> pending, total |-> total]

HasherAfter(n) ==
  Hasher(n \div StripeLength, Bytes((n \div StripeLength) * StripeLength, n % StripeLength), n)

LEMMA BytesType ==
  ASSUME NEW a \in Nat, NEW n \in Nat
  PROVE  /\ Bytes(a, n) \in Seq(Nat) /\ Len(Bytes(a, n)) = n
         /\ \A i \in 1..n : Bytes(a, n)[i] = a + i - 1
BY DEF Bytes

\* The n bytes from a on and the m bytes from b on are the k bytes from a on.
IsJoin(a, n, b, m, k) == Bytes(a, n) \o Bytes(b, m) = Bytes(a, k)

LEMMA BytesJoin ==
  ASSUME NEW a \in Nat, NEW n \in Nat, NEW b \in Nat, NEW m \in Nat, NEW k \in Nat,
         b = a + n, k = n + m
  PROVE  IsJoin(a, n, b, m, k)
<1> DEFINE s == Bytes(a, n)
           t == Bytes(b, m)
           u == Bytes(a, k)
           st == s \o t
<1>1. s \in Seq(Nat) /\ Len(s) = n /\ \A i \in 1..n : s[i] = a + i - 1
  BY BytesType
<1>2. t \in Seq(Nat) /\ Len(t) = m /\ \A i \in 1..m : t[i] = b + i - 1
  BY BytesType
<1>3. u \in Seq(Nat) /\ Len(u) = n + m /\ \A i \in 1..n + m : u[i] = a + i - 1
  BY BytesType
<1> HIDE DEF s, t, u
<1>4. /\ st \in Seq(Nat) /\ Len(st) = Len(s) + Len(t)
      /\ \A i \in 1..Len(s) + Len(t) : st[i] = IF i <= Len(s) THEN s[i] ELSE t[i - Len(s)]
  BY <1>1, <1>2, ConcatProperties
<1> HIDE DEF st
<1>5. \A i \in 1..n + m : st[i] = u[i]
  <2> TAKE i \in 1..n + m
  <2>1. CASE i <= n
    BY <1>1, <1>2, <1>3, <1>4, <2>1
  <2>2. CASE ~(i <= n)
    <3>1. i - n \in 1..m
      BY <2>2
    <3> QED
      BY <1>1, <1>2, <1>3, <1>4, <2>2, <3>1
  <2> QED
    BY <2>1, <2>2
<1>6. Len(st) = Len(u) /\ \A i \in 1..Len(st) : st[i] = u[i]
  BY <1>1, <1>2, <1>3, <1>4, <1>5
<1>7. st = u
  BY <1>3, <1>4, <1>6, SeqEqual
<1> QED
  BY <1>7 DEF st, s, t, u, IsJoin

\* Bytes f to j of the n bytes from a on are the m bytes from b on.
IsCut(a, n, f, j, b, m) == SubSeq(Bytes(a, n), f, j) = Bytes(b, m)

LEMMA BytesCut ==
  ASSUME NEW a \in Nat, NEW n \in Nat, NEW b \in Nat, NEW m \in Nat, NEW f \in Nat, NEW j \in Nat,
         f >= 1, f <= j + 1, j <= n, b = a + f - 1, m = j - f + 1
  PROVE  IsCut(a, n, f, j, b, m)
<1> DEFINE s == Bytes(a, n)
           t == SubSeq(s, f, j)
           u == Bytes(b, m)
<1>1. s \in Seq(Nat) /\ Len(s) = n /\ \A k \in 1..n : s[k] = a + k - 1
  BY BytesType
<1>2. u \in Seq(Nat) /\ Len(u) = m /\ \A k \in 1..m : u[k] = b + k - 1
  BY BytesType
<1> HIDE DEF s, u
<1>3. \A k \in f..j : s[k] \in Nat
  BY <1>1
<1>4. /\ t \in Seq(Nat) /\ Len(t) = IF f <= j THEN j - f + 1 ELSE 0
      /\ \A k \in 1..j - f + 1 : t[k] = s[f + k - 1]
  BY <1>3, SubSeqProperties
<1> HIDE DEF t
<1>5. Len(t) = m
  BY <1>4
<1>6. \A k \in 1..m : t[k] = u[k]
  <2> TAKE k \in 1..m
  <2>1. f + k - 1 \in 1..n
    OBVIOUS
  <2>2. t[k] = s[f + k - 1]
    BY <1>4
  <2> QED
    BY <1>1, <1>2, <2>1, <2>2
<1>7. t = u
  BY <1>2, <1>4, <1>5, <1>6, SeqEqual
<1> QED
  BY <1>7 DEF t, s, u, IsCut

LEMMA Products ==
  ASSUME NEW x \in Nat, NEW y \in Nat, NEW z \in Nat
  PROVE  /\ x * y \in Nat /\ (x + 1) * y = x * y + y /\ (x + z) * y = x * y + z * y
         /\ x <= z => x * y <= z * y
<1>1. x <= z => x * y <= z * y
  <2> SUFFICES ASSUME x <= z PROVE x * y <= z * y
    OBVIOUS
  <2>1. PICK d \in Nat : z = x + d
    <3>1. z - x \in Nat /\ z = x + (z - x)
      OBVIOUS
    <3> QED
      BY <3>1
  <2>2. z * y = x * y + d * y /\ d * y \in Nat /\ x * y \in Nat
    BY <2>1
  <2> QED
    BY <2>2
<1> QED
  BY <1>1

LEMMA Division ==
  ASSUME NEW n \in Nat, NEW d \in Nat, d > 0
  PROVE  /\ n \div d \in Nat /\ n % d \in Nat /\ n % d < d
         /\ n = (n \div d) * d + (n % d)
OBVIOUS

LEMMA DivisionIs ==
  ASSUME NEW n \in Nat, NEW d \in Nat, d > 0, NEW q \in Nat, NEW r \in Nat,
         n = q * d + r, r < d
  PROVE  n \div d = q /\ n % d = r
OBVIOUS

LEMMA StripeFits ==
  ASSUME HashAssumption
  PROVE  /\ StripeLength \in Nat /\ StripeLength > 0 /\ WordLength \in Nat /\ WordLength > 0
         /\ \A lane \in 1..LaneCount :
              /\ (lane - 1) * WordLength \in Nat /\ lane * WordLength \in Nat
              /\ lane * WordLength = (lane - 1) * WordLength + WordLength
              /\ lane * WordLength <= StripeLength
<1>1. /\ LaneCount \in Nat /\ LaneCount >= 1 /\ WordLength \in Nat /\ WordLength > 0
      /\ StripeLength = LaneCount * WordLength
  BY DEF HashAssumption, StripeLength
<1>2. StripeLength \in Nat /\ 1 * WordLength <= StripeLength
  BY <1>1, Products
<1>3. ASSUME NEW lane \in 1..LaneCount
      PROVE  /\ (lane - 1) * WordLength \in Nat /\ lane * WordLength \in Nat
             /\ lane * WordLength = (lane - 1) * WordLength + WordLength
             /\ lane * WordLength <= StripeLength
  <2>1. lane - 1 \in Nat /\ lane \in Nat /\ lane <= LaneCount /\ (lane - 1) + 1 = lane
    OBVIOUS
  <2>2. (lane - 1) * WordLength \in Nat
    BY <1>1, <2>1, Products
  <2>3. ((lane - 1) + 1) * WordLength = (lane - 1) * WordLength + WordLength
    BY <1>1, <2>1, Products
  <2>4. lane * WordLength \in Nat /\ lane * WordLength <= LaneCount * WordLength
    BY <1>1, <2>1, Products
  <2> QED
    BY <1>1, <2>1, <2>2, <2>3, <2>4
<1> QED
  BY <1>1, <1>2, <1>3

LEMMA WordOfStripe ==
  ASSUME HashAssumption, NEW a \in Nat, NEW lane \in 1..LaneCount
  PROVE  Piece(Bytes(a, StripeLength), WordLength, lane) = Bytes(a + (lane - 1) * WordLength, WordLength)
<1>1. PICK i \in Nat, j \in Nat, n \in Nat, w \in Nat :
         /\ i = (lane - 1) * WordLength /\ j = lane * WordLength /\ j = i + w /\ j <= n
         /\ n = StripeLength /\ w = WordLength
  BY StripeFits
<1>2. PICK f \in Nat, b \in Nat : f = i + 1 /\ b = a + i
  OBVIOUS
<1>3. Piece(Bytes(a, n), w, lane) = SubSeq(Bytes(a, n), f, j)
  BY <1>1, <1>2 DEF Piece
<1>4. f >= 1 /\ f <= j + 1 /\ b = a + f - 1 /\ w = j - f + 1
  BY <1>1, <1>2
<1>5. IsCut(a, n, f, j, b, w)
  BY <1>1, <1>4, BytesCut
<1> QED
  BY <1>1, <1>2, <1>3, <1>5 DEF IsCut

LEMMA StripesOfBytes ==
  ASSUME HashAssumption, NEW a \in Nat, NEW n \in Nat
  PROVE  /\ Len(Pieces(Bytes(a, n), StripeLength)) = n \div StripeLength
         /\ \A k \in 1..(n \div StripeLength) :
              Pieces(Bytes(a, n), StripeLength)[k] = Bytes(a + (k - 1) * StripeLength, StripeLength)
         /\ Behind(Bytes(a, n), (n \div StripeLength) * StripeLength)
              = Bytes(a + (n \div StripeLength) * StripeLength, n % StripeLength)
<1> DEFINE L == StripeLength
           q == n \div L
           r == n % L
           s == Pieces(Bytes(a, n), L)
<1>1. L \in Nat /\ L > 0
  BY StripeFits
<1> HIDE DEF L
<1>2. q \in Nat /\ r \in Nat /\ r < L /\ n = q * L + r
  BY <1>1, Division
<1>3. Len(Bytes(a, n)) = n
  BY BytesType
<1>4. s = [k \in 1..q |-> Piece(Bytes(a, n), L, k)]
  BY <1>3 DEF Pieces
<1> HIDE DEF q, r, s
<1>5. Len(s) = q
  BY <1>2, <1>4
<1>6. ASSUME NEW k \in 1..q PROVE s[k] = Bytes(a + (k - 1) * L, L)
  <2>1. s[k] = SubSeq(Bytes(a, n), (k - 1) * L + 1, k * L)
    BY <1>4 DEF Piece
  <2>2. k - 1 \in Nat /\ k \in Nat /\ k <= q /\ (k - 1) + 1 = k
    BY <1>2
  <2>3. PICK i \in Nat : i = (k - 1) * L
    BY <1>1, <2>2, Products
  <2>4. PICK j \in Nat : j = k * L /\ j = i + L /\ j <= q * L
    <3>1. k * L \in Nat /\ ((k - 1) + 1) * L = (k - 1) * L + L /\ k * L <= q * L
      BY <1>1, <1>2, <2>2, Products
    <3> QED
      BY <2>2, <2>3, <3>1
  <2>5. PICK m \in Nat : m = q * L
    BY <1>1, <1>2, Products
  <2>6. PICK f \in Nat, b \in Nat : f = i + 1 /\ b = a + i
    OBVIOUS
  <2>7. f >= 1 /\ f <= j + 1 /\ j <= n /\ b = a + f - 1 /\ L = j - f + 1
    BY <1>1, <1>2, <2>3, <2>4, <2>5, <2>6
  <2>8. IsCut(a, n, f, j, b, L)
    BY <1>1, <2>7, BytesCut
  <2> QED
    BY <2>1, <2>3, <2>4, <2>6, <2>8 DEF IsCut
<1>7. Behind(Bytes(a, n), q * L) = Bytes(a + q * L, r)
  <2>1. PICK m \in Nat : m = q * L
    BY <1>1, <1>2, Products
  <2>2. PICK f \in Nat, b \in Nat : f = m + 1 /\ b = a + m
    OBVIOUS
  <2>3. f >= 1 /\ f <= n + 1 /\ n <= n /\ b = a + f - 1 /\ r = n - f + 1
    BY <1>2, <2>1, <2>2
  <2>4. IsCut(a, n, f, n, b, r)
    BY <1>2, <2>3, BytesCut
  <2> QED
    BY <1>3, <2>1, <2>2, <2>4 DEF Behind, IsCut
<1> QED
  BY <1>5, <1>6, <1>7 DEF s, q, r, L

LEMMA LaneAfterType ==
  ASSUME HashAssumption, NEW lane \in 1..LaneCount, NEW q \in Nat
  PROVE  /\ LaneAfter(lane, q) \in Seq(Seq(Nat)) /\ Len(LaneAfter(lane, q)) = q
         /\ \A k \in 1..q :
              LaneAfter(lane, q)[k] = Bytes((k - 1) * StripeLength + (lane - 1) * WordLength, WordLength)
<1>1. ASSUME NEW k \in 1..q
      PROVE  Bytes((k - 1) * StripeLength + (lane - 1) * WordLength, WordLength) \in Seq(Nat)
  <2>1. PICK i \in Nat, w \in Nat, n \in Nat :
          i = (lane - 1) * WordLength /\ w = WordLength /\ n = StripeLength
    BY StripeFits
  <2>2. PICK m \in Nat : m = k - 1
    OBVIOUS
  <2>3. PICK j \in Nat : j = m * n
    BY Products
  <2>4. PICK a \in Nat : a = j + i
    OBVIOUS
  <2>5. Bytes(a, w) \in Seq(Nat)
    BY BytesType
  <2> QED
    BY <2>1, <2>2, <2>3, <2>4, <2>5
<1> QED
  BY <1>1 DEF LaneAfter

LEMMA LaneGrows ==
  ASSUME HashAssumption, NEW q \in Nat, NEW n \in Nat, NEW lane \in 1..LaneCount,
         NEW words \in Seq(Seq(Nat)), Len(words) = n,
         \A k \in 1..n : words[k] =
           Bytes((q * StripeLength + (k - 1) * StripeLength) + (lane - 1) * WordLength, WordLength)
  PROVE  LaneAfter(lane, q) \o words = LaneAfter(lane, q + n)
<1> DEFINE S == Seq(Nat)
           s == LaneAfter(lane, q)
           u == LaneAfter(lane, q + n)
           sw == s \o words
<1>1. /\ s \in Seq(S) /\ Len(s) = q
      /\ \A k \in 1..q : s[k] = Bytes((k - 1) * StripeLength + (lane - 1) * WordLength, WordLength)
  BY LaneAfterType
<1>2. PICK p \in Nat : p = q + n
  OBVIOUS
<1>3. /\ u \in Seq(S) /\ Len(u) = q + n
      /\ \A k \in 1..q + n : u[k] = Bytes((k - 1) * StripeLength + (lane - 1) * WordLength, WordLength)
  BY <1>2, LaneAfterType
<1>4. ASSUME NEW k \in 1..n
      PROVE  /\ q + k \in 1..q + n
             /\ words[k] = Bytes(((q + k) - 1) * StripeLength + (lane - 1) * WordLength, WordLength)
  <2>1. StripeLength \in Nat /\ k - 1 \in Nat /\ (q + k) - 1 = q + (k - 1)
    BY StripeFits
  <2>2. (q + (k - 1)) * StripeLength = q * StripeLength + (k - 1) * StripeLength
    BY <2>1, Products
  <2> QED
    BY <2>1, <2>2
<1>5. /\ words \in Seq(S) /\ Len(words) = n /\ \A k \in 1..n : words[k] = u[q + k]
  <2>1. \A k \in 1..n : words[k] = u[q + k]
    BY <1>3, <1>4
  <2> QED
    BY <2>1
<1> HIDE DEF S, s, u
<1>6. /\ sw \in Seq(S) /\ Len(sw) = Len(s) + Len(words)
      /\ \A k \in 1..Len(s) + Len(words) : sw[k] = IF k <= Len(s) THEN s[k] ELSE words[k - Len(s)]
  BY <1>1, <1>5, ConcatProperties
<1> HIDE DEF sw
<1>7. ASSUME NEW k \in 1..q + n PROVE sw[k] = u[k]
  <2>1. CASE k <= q
    <3>1. sw[k] = s[k] /\ k \in 1..q
      BY <1>1, <1>5, <1>6, <2>1
    <3> QED
      BY <1>1, <1>3, <3>1
  <2>2. CASE ~(k <= q)
    <3>1. k - q \in 1..n /\ q + (k - q) = k
      BY <2>2
    <3>2. sw[k] = words[k - q]
      BY <1>1, <1>5, <1>6, <2>2
    <3>3. words[k - q] = u[q + (k - q)]
      BY <1>5, <3>1
    <3> QED
      BY <3>1, <3>2, <3>3
  <2> QED
    BY <2>1, <2>2
<1>8. Len(sw) = Len(u) /\ \A k \in 1..Len(sw) : sw[k] = u[k]
  BY <1>1, <1>3, <1>5, <1>6, <1>7
<1>9. sw = u
  BY <1>3, <1>6, <1>8, SeqEqual
<1> QED
  BY <1>9 DEF sw, s, u

Processed(q, n, p, t, stripes) ==
  ProcessStripes(Hasher(q, p, t), stripes) = Hasher(q + n, p, t)

LEMMA StripesProcessed ==
  ASSUME HashAssumption, NEW q \in Nat, NEW n \in Nat, NEW p, NEW t,
         NEW stripes, Len(stripes) = n,
         \A k \in 1..n : stripes[k] = Bytes(q * StripeLength + (k - 1) * StripeLength, StripeLength)
  PROVE  Processed(q, n, p, t, stripes)
<1> DEFINE Words(lane) == [i \in 1..Len(stripes) |-> Piece(stripes[i], WordLength, lane)]
<1>1. ASSUME NEW lane \in 1..LaneCount
      PROVE  LaneAfter(lane, q) \o Words(lane) = LaneAfter(lane, q + n)
  <2>1. ASSUME NEW k \in 1..n
        PROVE  /\ Words(lane)[k] = Bytes((q * StripeLength + (k - 1) * StripeLength)
                                           + (lane - 1) * WordLength, WordLength)
               /\ Words(lane)[k] \in Seq(Nat)
    <3>1. PICK m \in Nat : m = k - 1
      OBVIOUS
    <3>2. PICK L \in Nat, w \in Nat, i \in Nat :
            L = StripeLength /\ w = WordLength /\ i = (lane - 1) * WordLength
      BY StripeFits
    <3>3. PICK a \in Nat : a = q * StripeLength + (k - 1) * StripeLength
      <4>1. q * L \in Nat /\ m * L \in Nat
        BY Products
      <4> QED
        BY <3>1, <3>2, <4>1
    <3>4. Piece(Bytes(a, StripeLength), WordLength, lane) = Bytes(a + (lane - 1) * WordLength, WordLength)
      BY WordOfStripe
    <3>5. Words(lane)[k] = Piece(stripes[k], WordLength, lane)
      OBVIOUS
    <3>6. PICK b \in Nat : b = a + i
      OBVIOUS
    <3>7. Bytes(b, w) \in Seq(Nat)
      BY BytesType
    <3> HIDE DEF Words
    <3> QED
      BY <3>2, <3>3, <3>4, <3>5, <3>6, <3>7
  <2>2. Words(lane) \in Seq(Seq(Nat)) /\ Len(Words(lane)) = n
    <3>1. DOMAIN Words(lane) = 1..n /\ Words(lane) = [k \in 1..n |-> Words(lane)[k]]
      OBVIOUS
    <3> HIDE DEF Words
    <3> QED
      BY <2>1, <3>1
  <2> HIDE DEF Words
  <2> QED
    BY <2>1, <2>2, LaneGrows
<1> DEFINE lanes == [lane \in 1..LaneCount |-> Hasher(q, p, t).lanes[lane] \o Words(lane)]
<1>2. ProcessStripes(Hasher(q, p, t), stripes) = [Hasher(q, p, t) EXCEPT !.lanes = lanes]
  BY DEF ProcessStripes
<1>3. \A lane \in 1..LaneCount : Hasher(q, p, t).lanes[lane] = LaneAfter(lane, q)
  BY DEF Hasher, LanesAfter
<1> HIDE DEF Words
<1>4. lanes = LanesAfter(q + n)
  BY <1>1, <1>3 DEF LanesAfter
<1> HIDE DEF lanes
<1> QED
  BY <1>2, <1>4 DEF Hasher, Processed

\* What becomes of a hasher of q stripes that takes n more bytes.
Taken(q, n, p, t) ==
  TakeStripes(Hasher(q, p, t), Bytes(q * StripeLength, n))
    = Hasher(q + (n \div StripeLength),
             Bytes((q + (n \div StripeLength)) * StripeLength, n % StripeLength), t)

LEMMA StripesTaken ==
  ASSUME HashAssumption, NEW q \in Nat, NEW n \in Nat, NEW p, NEW t
  PROVE  Taken(q, n, p, t)
<1>1. PICK L \in Nat : L = StripeLength /\ L > 0
  BY StripeFits
<1>2. PICK a \in Nat : a = q * L
  BY Products
<1>3. PICK c \in Nat : c = n \div L
  BY <1>1, Division
<1> DEFINE stripes == Pieces(Bytes(a, n), StripeLength)
<1>4. /\ Len(stripes) = c
      /\ \A k \in 1..c : stripes[k] = Bytes(a + (k - 1) * StripeLength, StripeLength)
      /\ Behind(Bytes(a, n), c * StripeLength) = Bytes(a + c * StripeLength, n % StripeLength)
  BY <1>1, <1>3, StripesOfBytes
<1>5. TakeStripes(Hasher(q, p, t), Bytes(a, n))
        = [ProcessStripes(Hasher(q, p, t), stripes)
             EXCEPT !.pending = Behind(Bytes(a, n), Len(stripes) * StripeLength)]
  BY DEF TakeStripes
<1> HIDE DEF stripes
<1>6. ProcessStripes(Hasher(q, p, t), stripes) = Hasher(q + c, p, t)
  <2>1. Processed(q, c, p, t, stripes)
    BY <1>1, <1>2, <1>4, StripesProcessed
  <2> QED
    BY <2>1 DEF Processed
<1>7. a + c * StripeLength = (q + c) * StripeLength
  BY <1>1, <1>2, Products
<1>8. TakeStripes(Hasher(q, p, t), Bytes(a, n))
        = [Hasher(q + c, p, t) EXCEPT !.pending = Bytes((q + c) * StripeLength, n % StripeLength)]
  BY <1>4, <1>5, <1>6, <1>7
<1>9. [Hasher(q + c, p, t) EXCEPT !.pending = Bytes((q + c) * StripeLength, n % StripeLength)]
        = Hasher(q + c, Bytes((q + c) * StripeLength, n % StripeLength), t)
  BY DEF Hasher
<1> QED
  BY <1>1, <1>2, <1>3, <1>8, <1>9 DEF Taken

\* Nothing but how much has come matters: the hasher of n bytes that takes m
\* more is the hasher of n + m bytes.
LEMMA UpdateAfter ==
  ASSUME HashAssumption, NEW n \in Nat, NEW m \in Nat
  PROVE  Update(HasherAfter(n), Bytes(n, m)) = HasherAfter(n + m)
<1>1. PICK L \in Nat : L = StripeLength /\ L > 0
  BY StripeFits
<1>14. PICK t \in Nat : t = n + m
  OBVIOUS
<1>2. PICK q \in Nat, r \in Nat : q = n \div L /\ r = n % L /\ r < L /\ n = q * L + r
  BY <1>1, Division
<1>3. PICK a \in Nat : a = q * L /\ n = a + r
  <2>1. q * L \in Nat
    BY Products
  <2> QED
    BY <1>2, <2>1
<1> DEFINE p == Bytes(a, r)
<1>4. HasherAfter(n) = Hasher(q, p, n)
  BY <1>1, <1>2, <1>3 DEF HasherAfter
<1>5. Len(Bytes(n, m)) = m /\ Len(p) = r
  BY BytesType
<1>6. [Hasher(q, p, n) EXCEPT !.total = @ + Len(Bytes(n, m))] = Hasher(q, p, t)
  BY <1>5, <1>14 DEF Hasher
<1>7. Hasher(q, p, n).pending = p
  BY DEF Hasher
<1>8. p = <<>> <=> r = 0
  <2>1. p \in Seq(Nat)
    BY BytesType
  <2> HIDE DEF p
  <2> QED
    BY <1>5, <2>1
<1> DEFINE space == L - r
<1>9. Update(Hasher(q, p, n), Bytes(n, m)) =
        IF r = 0 THEN TakeStripes(Hasher(q, p, t), Bytes(n, m))
        ELSE IF m < space THEN [Hasher(q, p, t) EXCEPT !.pending = @ \o Bytes(n, m)]
        ELSE TakeStripes(ProcessStripes(Hasher(q, p, t), <<p \o SubSeq(Bytes(n, m), 1, space)>>),
                         Behind(Bytes(n, m), space))
  BY <1>1, <1>5, <1>6, <1>7, <1>8 DEF Update
<1>10. ASSUME NEW c \in Nat, NEW d \in Nat, n + m = c * L + d, d < L
       PROVE  HasherAfter(t) = Hasher(c, Bytes(c * L, d), t)
  <2>1. t \div L = c /\ t % L = d
    BY <1>1, <1>10, <1>14, DivisionIs
  <2> QED
    BY <1>1, <2>1 DEF HasherAfter
<1> HIDE DEF p
<1>11. CASE r = 0
  <2>1. PICK c \in Nat, d \in Nat : c = m \div L /\ d = m % L /\ d < L /\ m = c * L + d
    BY <1>1, Division
  <2>2. TakeStripes(Hasher(q, p, t), Bytes(n, m)) = Hasher(q + c, Bytes((q + c) * L, d), t)
    <3>1. Taken(q, m, p, t)
      BY StripesTaken
    <3> QED
      BY <1>1, <1>3, <1>11, <2>1, <3>1 DEF Taken
  <2>3. PICK e \in Nat : e = q + c
    OBVIOUS
  <2>4. n + m = e * L + d
    <3>1. e * L = q * L + c * L /\ q * L \in Nat /\ c * L \in Nat
      BY <2>3, Products
    <3> QED
      BY <1>3, <1>11, <2>1, <3>1
  <2> QED
    BY <1>4, <1>9, <1>10, <1>11, <1>14, <2>1, <2>2, <2>3, <2>4
<1>12. CASE r # 0 /\ m < space
  <2>1. PICK d \in Nat : d = r + m /\ d < L /\ n + m = q * L + d
    BY <1>2, <1>3, <1>12
  <2>2. p \o Bytes(n, m) = Bytes(a, d)
    <3>1. IsJoin(a, r, n, m, d)
      BY <1>3, <2>1, BytesJoin
    <3> QED
      BY <3>1 DEF IsJoin, p
  <2>3. [Hasher(q, p, t) EXCEPT !.pending = @ \o Bytes(n, m)] = Hasher(q, Bytes(a, d), t)
    <3>1. [Hasher(q, p, t) EXCEPT !.pending = p \o Bytes(n, m)] = Hasher(q, Bytes(a, d), t)
      BY <2>2 DEF Hasher
    <3> QED
      BY <3>1 DEF Hasher
  <2> QED
    BY <1>3, <1>4, <1>9, <1>10, <1>12, <1>14, <2>1, <2>3
<1>13. CASE r # 0 /\ ~(m < space)
  <2>1. PICK s \in Nat, k \in Nat, b \in Nat :
          s = space /\ k = m - s /\ b = n + s /\ r + s = L /\ s <= m
    BY <1>1, <1>2, <1>13
  <2>2. SubSeq(Bytes(n, m), 1, s) = Bytes(n, s)
    <3>1. IsCut(n, m, 1, s, n, s)
      BY <2>1, BytesCut
    <3> QED
      BY <3>1 DEF IsCut
  <2>3. Behind(Bytes(n, m), s) = Bytes(b, k)
    <3>1. PICK f \in Nat : f = s + 1
      OBVIOUS
    <3>2. f >= 1 /\ f <= m + 1 /\ m <= m /\ b = n + f - 1 /\ k = m - f + 1
      BY <2>1, <3>1
    <3>3. IsCut(n, m, f, m, b, k)
      BY <3>2, BytesCut
    <3> QED
      BY <1>5, <3>1, <3>3 DEF IsCut, Behind
  <2>4. p \o Bytes(n, s) = Bytes(a, L)
    <3>1. IsJoin(a, r, n, s, L)
      BY <1>3, <2>1, BytesJoin
    <3> QED
      BY <3>1 DEF IsJoin, p
  <2>5. ProcessStripes(Hasher(q, p, t), <<Bytes(a, L)>>) = Hasher(q + 1, p, t)
    <3>1. PICK stripes : stripes = <<Bytes(a, L)>>
      OBVIOUS
    <3>2. Len(stripes) = 1 /\ 1 \in Nat
      BY <3>1
    <3>3. \A i \in 1..1 : stripes[i] = Bytes(q * StripeLength + (i - 1) * StripeLength, StripeLength)
      <4>1. a = q * L + (1 - 1) * L
        BY <1>1, <1>3
      <4>2. stripes[1] = Bytes(a, L)
        BY <3>1
      <4>3. stripes[1] = Bytes(q * L + (1 - 1) * L, L)
        BY <4>1, <4>2
      <4> QED
        BY <1>1, <4>3
    <3>4. Processed(q, 1, p, t, stripes)
      BY <3>2, <3>3, StripesProcessed
    <3> QED
      BY <3>1, <3>4 DEF Processed
  <2>6. PICK e \in Nat : e = q + 1
    OBVIOUS
  <2>7. b = e * L
    <3>1. e * L = q * L + 1 * L /\ q * L \in Nat
      BY <2>6, Products
    <3> QED
      BY <1>1, <1>3, <2>1, <3>1
  <2>8. PICK c \in Nat, d \in Nat : c = k \div L /\ d = k % L /\ d < L /\ k = c * L + d
    BY <1>1, Division
  <2>9. TakeStripes(Hasher(e, p, t), Bytes(b, k)) = Hasher(e + c, Bytes((e + c) * L, d), t)
    <3>1. Taken(e, k, p, t)
      BY StripesTaken
    <3> QED
      BY <1>1, <2>7, <2>8, <3>1 DEF Taken
  <2>10. PICK g \in Nat : g = e + c
    OBVIOUS
  <2>11. n + m = g * L + d
    <3>1. g * L = e * L + c * L /\ e * L \in Nat /\ c * L \in Nat
      BY <2>10, Products
    <3> QED
      BY <2>1, <2>7, <2>8, <3>1
  <2>12. HasherAfter(t) = Hasher(g, Bytes(g * L, d), t)
    BY <1>10, <1>14, <2>8, <2>11
  <2>13. Update(Hasher(q, p, n), Bytes(n, m)) =
           TakeStripes(ProcessStripes(Hasher(q, p, t), <<Bytes(a, L)>>), Bytes(b, k))
    BY <1>9, <1>13, <2>1, <2>2, <2>3, <2>4
  <2> QED
    BY <1>4, <1>14, <2>5, <2>6, <2>9, <2>10, <2>12, <2>13
<1> QED
  BY <1>11, <1>12, <1>13

Stages == Flushes \cup {"ready", "taking", "ending"}

BlockRecords ==
  [from : Nat, length : Nat, last : BOOLEAN, savings : Int, expected : Nat, history : Nat]

StreamTypeOK ==
  /\ text \in Texts
  /\ hasher.total \in Nat /\ remaining \in Nat
  /\ segmentStart \in Nat /\ segmentLength \in Nat /\ blockStart \in Nat
  /\ savings \in Int /\ tableLength \in Nat /\ expected \in Nat
  /\ headerWritten \in BOOLEAN /\ finished \in BOOLEAN /\ failed \in BOOLEAN
  /\ stage \in Stages
  /\ blocks \in Seq(BlockRecords)

\* The segment is a window of the stream, and only what it holds is cut off.
SegmentIsAWindow ==
  /\ blockStart <= segmentLength /\ segmentLength <= SegmentSize
  /\ Accepted + remaining <= hasher.total /\ hasher.total <= MaxInput
  /\ SegmentOf(segmentStart) = segmentStart
  /\ blockStart = segmentLength /\ segmentLength # 0 => stage \in {"WholeSegment", "ending"} \/ finished

\* What the stages of a call know.
CallIsInOrder ==
  /\ finished => stage = "ready"
  /\ finished \/ stage # "ready" => headerWritten
  /\ stage = "WholeSegment" => segmentLength = SegmentSize
  /\ finished \/ stage = "ending" => blocks # <<>> /\ blockStart = segmentLength

\* The blocks cover the input up to Emitted, and no block before the last one
\* of a frame is marked.
BlocksTile ==
  /\ \A i \in 1..Len(blocks) : blocks[i].from = End(i - 1)
  /\ End(Len(blocks)) = Emitted
  /\ \A i \in 1..Len(blocks) :
       blocks[i].last <=> i = Len(blocks) /\ (finished \/ stage = "ending")

TileInv == StreamTypeOK /\ SegmentIsAWindow /\ CallIsInOrder /\ BlocksTile

\* No more input is taken.
Closed == finished \/ stage = "ending" \/ (stage = "FinalSegment" /\ blockStart > 0)

\* The lengths the stream may yet come to.
Futures == {n \in Nat : n >= Accepted /\ (Closed => n = Accepted)}

\* The rest of the segment of a position, in a stream of n bytes.
RestIn(position, n) ==
  LET end == SegmentOf(position) + SegmentSize
  IN  (IF end < n THEN end ELSE n) - position

ExpectedIn(n, start) ==
  IF RestIn(start, n) > MaxBlock THEN SegmentSize ELSE RestIn(start, n)

\* Block i is the one that a stream of n bytes has there.
IsSettled(i, n) ==
  /\ blocks[i].history = SegmentOf(blocks[i].from)
  /\ blocks[i].length = NextBlockLength(blocks[i].from, RestIn(blocks[i].from, n), SavingsBefore(i))
  /\ ~failed => blocks[i].expected = ExpectedIn(n, SegmentOf(blocks[i].from))

\* Whatever input is still to come, the blocks are those of the whole input.
BlocksAreSettled == \A i \in 1..Len(blocks), n \in Futures : IsSettled(i, n)

\* What the next block of the segment is decided by.
SegmentIsSettled ==
  /\ blockStart > 0 =>
       /\ blocks # <<>>
       /\ LET b == blocks[Len(blocks)] IN savings = b.savings + b.length - WrittenLength(b.from, b.length)
       /\ ~failed => \A n \in Futures : expected = ExpectedIn(n, segmentStart)
  /\ ~failed /\ stage \in {"ready", "taking", "WholeSegment", "FinalSegment"} => Available <= MaxBlock

\* The hasher has taken every byte that a call brought: each is in the segment or
\* in a block, still to be taken, or was lost when a call failed.
HasherInv ==
  /\ hasher = HasherAfter(hasher.total)
  /\ lost \in Nat /\ (lost > 0 => failed)
  /\ Accepted + remaining + lost = hasher.total
  /\ stage \in {"ready", "FinalSegment", "ending"} => remaining = 0
  /\ checksum # NoChecksum => finished /\ checksum = Digest(hasher)

IInv == TileInv /\ BlocksAreSettled /\ SegmentIsSettled /\ HasherInv
-----------------------------------------------------------------------------
(***************************************************************************)
(* Where segments begin and how long a block comes out.                    *)
(***************************************************************************)
LEMMA SegmentOfBounds ==
  ASSUME StreamAssumption, NEW p \in Nat
  PROVE  /\ SegmentOf(p) \in Nat /\ SegmentOf(p) <= p
         /\ SegmentOf(p) + SegmentSize > p
<1>1. SegmentSize \in Nat /\ SegmentSize > 0
  BY DEF StreamAssumption
<1>2. PICK q \in Nat, r \in Nat : q = p \div SegmentSize /\ r < SegmentSize /\ p = q * SegmentSize + r
  BY <1>1, Division
<1>3. q * SegmentSize \in Nat
  BY <1>1, Products
<1> QED
  BY <1>1, <1>2, <1>3 DEF SegmentOf

\* A position in the segment that begins at s.
LEMMA SegmentOfInside ==
  ASSUME StreamAssumption, NEW s \in Nat, SegmentOf(s) = s, NEW p \in Nat,
         s <= p, p < s + SegmentSize
  PROVE  SegmentOf(p) = s
<1>1. SegmentSize \in Nat /\ SegmentSize > 0
  BY DEF StreamAssumption
<1>2. PICK q \in Nat : q = s \div SegmentSize
  BY <1>1, Division
<1>3. s = q * SegmentSize
  BY <1>2 DEF SegmentOf
<1>4. PICK r \in Nat : r = p - s
  OBVIOUS
<1>5. p = q * SegmentSize + r /\ r < SegmentSize
  BY <1>1, <1>3, <1>4
<1>6. p \div SegmentSize = q
  BY <1>1, <1>5, DivisionIs
<1> QED
  BY <1>3, <1>6 DEF SegmentOf

LEMMA SegmentOfNext ==
  ASSUME StreamAssumption, NEW s \in Nat, SegmentOf(s) = s
  PROVE  SegmentOf(s + SegmentSize) = s + SegmentSize
<1>1. SegmentSize \in Nat /\ SegmentSize > 0
  BY DEF StreamAssumption
<1>2. PICK q \in Nat : q = s \div SegmentSize
  BY <1>1, Division
<1>3. s = q * SegmentSize
  BY <1>2 DEF SegmentOf
<1>4. PICK e \in Nat, t \in Nat : e = q + 1 /\ t = s + SegmentSize
  BY <1>1
<1>5. t = e * SegmentSize
  <2>1. e * SegmentSize = q * SegmentSize + SegmentSize
    BY <1>1, <1>4, Products
  <2> QED
    BY <1>3, <1>4, <2>1
<1>6. t \div SegmentSize = e
  BY <1>1, <1>5, DivisionIs
<1> QED
  BY <1>4, <1>5, <1>6 DEF SegmentOf

\* A block takes something of what there is, and no more than a block holds.
LEMMA BlockLengthBounds ==
  ASSUME StreamAssumption, text \in Texts,
         NEW position \in Positions, NEW available \in Nat, NEW saved \in Int
  PROVE  /\ NextBlockLength(position, available, saved) \in 0..available
         /\ NextBlockLength(position, available, saved) <= MaxBlock
         /\ available > 0 => NextBlockLength(position, available, saved) > 0
<1>1. MaxBlock \in Nat /\ MaxBlock > 0
  BY DEF StreamAssumption
<1>2. text[position].split \in 1..MaxBlock
  BY DEF StreamAssumption
<1>3. text[position].split \in Nat /\ text[position].split >= 1 /\ text[position].split <= MaxBlock
  BY <1>1, <1>2
<1> QED
  BY <1>1, <1>3 DEF NextBlockLength

\* What lies behind a whole block does not matter.
LEMMA BlockLengthIsSettled ==
  ASSUME StreamAssumption, NEW position, NEW saved, NEW a \in Nat, NEW b \in Nat,
         a >= MaxBlock, b >= MaxBlock
  PROVE  NextBlockLength(position, a, saved) = NextBlockLength(position, b, saved)
BY DEF NextBlockLength, StreamAssumption

LEMMA WrittenLengthType ==
  ASSUME StreamAssumption, text \in Texts, NEW position \in Positions, NEW length \in Nat
  PROVE  WrittenLength(position, length) \in Nat
BY DEF WrittenLength

-----------------------------------------------------------------------------
(***************************************************************************)
(* Steps that write no block.                                              *)
(***************************************************************************)
LEMMA SettledStays ==
  ASSUME BlocksAreSettled, UNCHANGED <<text, blocks>>, failed => failed', Futures' \subseteq Futures
  PROVE  BlocksAreSettled'
<1>1. ASSUME NEW i \in 1..Len(blocks), NEW n \in Futures'
      PROVE  IsSettled(i, n)'
  <2>1. IsSettled(i, n)
    BY DEF BlocksAreSettled
  <2> QED
    BY <2>1 DEF IsSettled, NextBlockLength, SavingsBefore, WrittenLength, SegmentOf, RestIn, ExpectedIn
<1> QED
  BY <1>1 DEF BlocksAreSettled

\* The segment keeps its start and its blocks, or is emptied.
LEMMA SegmentStaysSettled ==
  ASSUME SegmentIsSettled, UNCHANGED <<text, blocks, savings, expected>>, failed => failed',
         blockStart' = 0 \/ UNCHANGED <<segmentStart, blockStart>>,
         blockStart \in Nat,
         Futures' \subseteq Futures,
         ~failed' /\ stage' \in {"ready", "taking", "WholeSegment", "FinalSegment"} => Available' <= MaxBlock
  PROVE  SegmentIsSettled'
<1>1. CASE blockStart' = 0
  <2>1. ~(blockStart' > 0)
    BY <1>1
  <2> QED
    BY <2>1 DEF SegmentIsSettled, Available
<1>2. CASE UNCHANGED <<segmentStart, blockStart>>
  BY <1>2 DEF SegmentIsSettled, Available, WrittenLength, ExpectedIn, RestIn, SegmentOf
<1> QED
  BY <1>1, <1>2
LEMMA TileStays ==
  ASSUME BlocksTile, UNCHANGED blocks, Emitted' = Emitted,
         (finished \/ stage = "ending")' <=> (finished \/ stage = "ending")
  PROVE  BlocksTile'
BY DEF BlocksTile, End

LEMMA FuturesStay ==
  ASSUME Accepted' >= Accepted, Accepted \in Nat, Accepted' \in Nat,
         Closed => Closed' /\ Accepted' = Accepted
  PROVE  Futures' \subseteq Futures
BY DEF Futures

LEMMA NewHasherIsAfterNothing ==
  ASSUME HashAssumption
  PROVE  NewHasher = HasherAfter(0)
<1>1. StripeLength \in Nat /\ StripeLength > 0
  BY StripeFits
<1>2. 0 = 0 * StripeLength + 0
  BY <1>1
<1>3. 0 \div StripeLength = 0 /\ 0 % StripeLength = 0
  BY <1>1, <1>2, DivisionIs
<1>4. HasherAfter(0) = Hasher(0, Bytes(0, 0), 0)
  <2>1. HasherAfter(0) = Hasher(0, Bytes(0 * StripeLength, 0), 0)
    BY <1>3 DEF HasherAfter
  <2>2. 0 * StripeLength = 0
    BY <1>1
  <2> QED
    BY <2>1, <2>2
<1>5. Bytes(0, 0) = <<>>
  BY BytesType
<1>6. ASSUME NEW lane \in 1..LaneCount
      PROVE  LaneAfter(lane, 0) = <<>>
  <2>1. LaneAfter(lane, 0) \in Seq(Seq(Nat)) /\ Len(LaneAfter(lane, 0)) = 0
    BY LaneAfterType
  <2> QED
    BY <2>1
<1>7. LanesAfter(0) = [lane \in 1..LaneCount |-> <<>>]
  BY <1>6 DEF LanesAfter
<1> QED
  BY <1>4, <1>5, <1>7 DEF Hasher, NewHasher

LEMMA HasherAfterTotal ==
  ASSUME NEW n
  PROVE  HasherAfter(n).total = n
BY DEF HasherAfter, Hasher

LEMMA InitIInv ==
  ASSUME StreamAssumption, HashAssumption, Init
  PROVE  IInv
<1>1. hasher = HasherAfter(0) /\ hasher.total = 0
  BY NewHasherIsAfterNothing DEF Init, NewHasher
<1>2. SegmentOf(0) = 0
  BY SegmentOfBounds
<1>3. StreamTypeOK
  <2>1. blocks \in Seq(BlockRecords)
    BY DEF Init
  <2>2. headerWritten \in BOOLEAN /\ finished \in BOOLEAN /\ failed \in BOOLEAN
    BY DEF Init
  <2>3. hasher.total \in Nat /\ stage \in Stages
    BY <1>1 DEF Init, Stages
  <2>4. /\ text \in Texts /\ remaining \in Nat /\ segmentStart \in Nat /\ segmentLength \in Nat
        /\ blockStart \in Nat /\ savings \in Int /\ tableLength \in Nat /\ expected \in Nat
    BY DEF Init
  <2> QED
    BY <2>1, <2>2, <2>3, <2>4 DEF StreamTypeOK
<1>4. SegmentIsAWindow
  BY <1>1, <1>2 DEF Init, SegmentIsAWindow, Accepted, StreamAssumption
<1>5. CallIsInOrder
  BY DEF Init, CallIsInOrder
<1>6. BlocksTile
  BY DEF Init, BlocksTile, End, Emitted
<1>7. BlocksAreSettled
  BY DEF Init, BlocksAreSettled
<1>8. SegmentIsSettled
  BY DEF Init, SegmentIsSettled, Available, StreamAssumption
<1>9. HasherInv
  BY <1>1 DEF Init, HasherInv, Accepted
<1> QED
  BY <1>3, <1>4, <1>5, <1>6, <1>7, <1>8, <1>9 DEF IInv, TileInv

LEMMA BeginWriteKeepsIInv ==
  ASSUME StreamAssumption, HashAssumption, IInv, NEW length \in 0..MaxInput, BeginWrite(length)
  PROVE  IInv'
<1>0. StreamTypeOK /\ SegmentIsAWindow /\ CallIsInOrder /\ BlocksTile
  BY DEF IInv, TileInv
<1>1. hasher' = HasherAfter(hasher.total + length)
  <2>1. PICK n \in Nat, m \in Nat : n = hasher.total /\ m = length
    BY <1>0 DEF StreamTypeOK, StreamAssumption
  <2>2. hasher' = Update(HasherAfter(n), Bytes(n, m))
    BY <2>1 DEF IInv, HasherInv, BeginWrite
  <2>3. Update(HasherAfter(n), Bytes(n, m)) = HasherAfter(n + m)
    BY UpdateAfter
  <2> QED
    BY <2>1, <2>2, <2>3
<1>2. hasher'.total = hasher.total + length /\ hasher'.total <= MaxInput
  BY <1>1, HasherAfterTotal DEF BeginWrite
<1>3. hasher' = HasherAfter(hasher'.total)
  BY <1>1, <1>2
<1>4. length \in Nat
  BY DEF StreamAssumption
<1>5. StreamTypeOK'
  BY <1>0, <1>2, <1>4 DEF StreamTypeOK, BeginWrite, input, finder, Stages
<1>6. remaining = 0
  BY DEF IInv, HasherInv, BeginWrite
<1>7. SegmentIsAWindow'
  BY <1>0, <1>2, <1>4, <1>6 DEF SegmentIsAWindow, BeginWrite, input, Accepted, SegmentOf, StreamTypeOK
<1>8. CallIsInOrder'
  BY <1>0 DEF CallIsInOrder, BeginWrite, input
<1>9. BlocksTile'
  BY <1>0, TileStays DEF BeginWrite, input, Emitted
<1>10. Futures' \subseteq Futures
  BY <1>0, FuturesStay DEF BeginWrite, input, Accepted, Closed, StreamTypeOK
<1>11. BlocksAreSettled'
  BY <1>10, SettledStays DEF BeginWrite, IInv
<1>12. SegmentIsSettled'
  BY <1>0, <1>10, SegmentStaysSettled DEF BeginWrite, input, finder, IInv, StreamTypeOK, SegmentIsSettled, Available
<1>13. HasherInv'
  BY <1>0, <1>2, <1>3, <1>4, <1>6 DEF HasherInv, IInv, BeginWrite, input, Accepted, StreamTypeOK
<1> QED
  BY <1>5, <1>7, <1>8, <1>9, <1>11, <1>12, <1>13 DEF IInv, TileInv

LEMMA FlushFullSegmentKeepsIInv ==
  ASSUME StreamAssumption, IInv, FlushFullSegment
  PROVE  IInv'
<1>0. StreamTypeOK /\ SegmentIsAWindow /\ CallIsInOrder /\ BlocksTile
  BY DEF IInv, TileInv
<1>1. StreamTypeOK'
  BY <1>0 DEF StreamTypeOK, FlushFullSegment, input, finder, output, Stages, Flushes
<1>2. SegmentIsAWindow'
  BY <1>0 DEF SegmentIsAWindow, FlushFullSegment, input, Accepted, SegmentOf
<1>3. CallIsInOrder'
  BY <1>0 DEF CallIsInOrder, FlushFullSegment, input, output
<1>4. BlocksTile'
  BY <1>0, TileStays DEF FlushFullSegment, input, output, Emitted
<1>5. Futures' \subseteq Futures
  BY <1>0, FuturesStay DEF FlushFullSegment, input, output, Accepted, Closed, StreamTypeOK
<1>6. BlocksAreSettled'
  BY <1>5, SettledStays DEF FlushFullSegment, output, IInv
<1>7. SegmentIsSettled'
  BY <1>0, <1>5, SegmentStaysSettled
     DEF FlushFullSegment, input, finder, output, IInv, StreamTypeOK, SegmentIsSettled, Available
<1>8. HasherInv'
  BY DEF HasherInv, IInv, FlushFullSegment, input, output, Accepted
<1> QED
  BY <1>1, <1>2, <1>3, <1>4, <1>6, <1>7, <1>8 DEF IInv, TileInv

LEMMA TakeInputKeepsIInv ==
  ASSUME StreamAssumption, IInv, TakeInput
  PROVE  IInv'
<1>0. StreamTypeOK /\ SegmentIsAWindow /\ CallIsInOrder /\ BlocksTile
  BY DEF IInv, TileInv
<1>1. SegmentSize \in Nat
  BY DEF StreamAssumption
<1>2. PICK taken \in Nat : /\ taken <= remaining /\ taken <= SegmentSize - segmentLength
                           /\ segmentLength' = segmentLength + taken /\ remaining' = remaining - taken
                           /\ segmentLength = segmentLength' => remaining = 0
  <2>1. segmentLength < SegmentSize
    BY <1>0, <1>1 DEF TakeInput, SegmentIsAWindow, StreamTypeOK
  <2>2. CASE SegmentSize - segmentLength < remaining
    BY <1>0, <1>1, <2>1, <2>2 DEF TakeInput, StreamTypeOK
  <2>3. CASE ~(SegmentSize - segmentLength < remaining)
    BY <1>0, <1>1, <2>1, <2>3 DEF TakeInput, StreamTypeOK
  <2> QED
    BY <2>2, <2>3
<1>3. StreamTypeOK'
  BY <1>0, <1>2 DEF StreamTypeOK, TakeInput, finder, output, Stages, Flushes
<1>4. SegmentIsAWindow'
  BY <1>0, <1>1, <1>2 DEF SegmentIsAWindow, TakeInput, Accepted, SegmentOf, StreamTypeOK, CallIsInOrder
<1>5. CallIsInOrder'
  BY <1>0 DEF CallIsInOrder, TakeInput, output
<1>6. BlocksTile'
  BY <1>0, TileStays DEF TakeInput, output, Emitted
<1>7. Futures' \subseteq Futures
  BY <1>0, <1>2, FuturesStay DEF TakeInput, output, Accepted, Closed, StreamTypeOK, CallIsInOrder
<1>8. BlocksAreSettled'
  BY <1>7, SettledStays DEF TakeInput, output, IInv
<1>9. SegmentIsSettled'
  BY <1>0, <1>7, SegmentStaysSettled DEF TakeInput, finder, output, IInv, StreamTypeOK
<1>10. HasherInv'
  BY <1>0, <1>2 DEF HasherInv, IInv, TakeInput, output, Accepted, StreamTypeOK
<1> QED
  BY <1>3, <1>4, <1>5, <1>6, <1>8, <1>9, <1>10 DEF IInv, TileInv

-----------------------------------------------------------------------------
(***************************************************************************)
(* A block is written.                                                     *)
(***************************************************************************)
\* What one turn of the loop sees.
LEMMA BlockToWrite ==
  ASSUME StreamAssumption, IInv, stage \in Flushes, HasReadyBlock(stage)
  PROVE  /\ segmentStart + blockStart \in Positions
         /\ Available \in Nat
         /\ StartingSavings \in Int
         /\ SegmentOf(segmentStart + blockStart) = segmentStart
         /\ stage # "FinalSegment" => Available > 0
         /\ Available = 0 => segmentLength = 0 /\ blockStart = 0
<1>0. StreamTypeOK /\ SegmentIsAWindow
  BY DEF IInv, TileInv
<1>1. MaxBlock \in Nat /\ SegmentSize \in Nat /\ SegmentSize > MaxBlock /\ MaxInput \in Nat
  BY DEF StreamAssumption
<1>2. Available \in Nat
  BY <1>0 DEF Available, StreamTypeOK, SegmentIsAWindow
<1>3. /\ stage = "KeepLookahead" => Available > MaxBlock
      /\ stage = "WholeSegment" => Available > 0
      /\ stage = "FinalSegment" => Available > 0 \/ segmentLength = 0
  BY DEF HasReadyBlock
<1>4. stage # "FinalSegment" => Available > 0
  BY <1>1, <1>2, <1>3 DEF Flushes
<1>5. Available = 0 => segmentLength = 0 /\ blockStart = 0
  BY <1>0, <1>3, <1>4 DEF Available, StreamTypeOK, SegmentIsAWindow
<1>6. segmentStart + blockStart \in Positions
  BY <1>0, <1>1 DEF StreamTypeOK, SegmentIsAWindow, Accepted, Positions
<1>7. StartingSavings \in Int
  BY <1>0 DEF StartingSavings, StreamTypeOK
<1>8. SegmentOf(segmentStart + blockStart) = segmentStart
  <2>1. PICK p \in Nat : p = segmentStart + blockStart
    BY <1>0 DEF StreamTypeOK
  <2>2. segmentStart \in Nat /\ SegmentOf(segmentStart) = segmentStart
    BY <1>0 DEF StreamTypeOK, SegmentIsAWindow
  <2>3. segmentStart <= p /\ p < segmentStart + SegmentSize
    BY <1>0, <1>1, <1>2, <1>5, <2>1 DEF Available, StreamTypeOK, SegmentIsAWindow
  <2>4. SegmentOf(p) = segmentStart
    BY <2>2, <2>3, SegmentOfInside
  <2> QED
    BY <2>1, <2>4
<1> QED
  BY <1>2, <1>4, <1>5, <1>6, <1>7, <1>8

\* The block of a turn is as long as in a stream that goes on in any way it
\* still may, and the finder expects what it would expect there.
LEMMA BlockIsSettled ==
  ASSUME StreamAssumption, IInv, WriteBlock, NEW n \in Futures'
  PROVE  /\ NextBlockLength(segmentStart + blockStart, Available, StartingSavings)
              = NextBlockLength(segmentStart + blockStart, RestIn(segmentStart + blockStart, n), StartingSavings)
         /\ ~failed => expected' = ExpectedIn(n, segmentStart)
<1>0. StreamTypeOK /\ SegmentIsAWindow /\ CallIsInOrder /\ SegmentIsSettled
  BY DEF IInv, TileInv
<1>1. MaxBlock \in Nat /\ SegmentSize \in Nat /\ SegmentSize > MaxBlock /\ MaxBlock > 0
  BY DEF StreamAssumption
<1>2. stage \in Flushes /\ HasReadyBlock(stage)
  BY DEF WriteBlock
<1>3. PICK p \in Nat, a \in Nat : /\ p = segmentStart + blockStart /\ a = Available
                                  /\ SegmentOf(p) = segmentStart
  BY <1>0, <1>2, BlockToWrite DEF StreamTypeOK
<1>4. n \in Nat /\ n >= Accepted /\ (Closed' => n = Accepted)
  BY DEF Futures, WriteBlock, Accepted
<1>5. PICK r \in Nat : r = RestIn(p, n) /\ r >= a
  <2>1. RestIn(p, n) \in Nat /\ RestIn(p, n) >= a
    BY <1>0, <1>1, <1>3, <1>4 DEF RestIn, StreamTypeOK, SegmentIsAWindow, Accepted, Available
  <2> QED
    BY <2>1
<1>6. stage = "KeepLookahead" => a > MaxBlock
  BY <1>2, <1>3 DEF HasReadyBlock
<1>7. stage = "WholeSegment" => r = a /\ segmentLength = SegmentSize
  BY <1>0, <1>1, <1>3, <1>4, <1>5
     DEF RestIn, StreamTypeOK, SegmentIsAWindow, Accepted, Available, CallIsInOrder
<1>8. stage = "FinalSegment" => Closed'
  <2>1. SUFFICES ASSUME stage = "FinalSegment" PROVE Closed'
    OBVIOUS
  <2>2. PICK length \in Nat : length = NextBlockLength(segmentStart + blockStart, Available, StartingSavings)
                              /\ (Available > 0 => length > 0) /\ length <= Available
    <3>1. /\ segmentStart + blockStart \in Positions /\ Available \in Nat /\ StartingSavings \in Int
          /\ text \in Texts
      BY <1>0, <1>2, BlockToWrite DEF StreamTypeOK
    <3> QED
      BY <3>1, BlockLengthBounds
  <2>3. blockStart' = blockStart + length
    BY <2>2 DEF WriteBlock
  <2>4. stage' = IF blockStart + length = segmentLength THEN "ending" ELSE "FinalSegment"
    BY <2>1, <2>2 DEF WriteBlock, IsLast
  <2>5. CASE stage' = "ending"
    BY <2>5 DEF Closed
  <2>6. CASE stage' # "ending"
    <3>1. stage' = "FinalSegment" /\ blockStart + length # segmentLength
      BY <2>4, <2>6
    <3>2. Available > 0
      <4>1. Available \in Nat /\ (Available = 0 => segmentLength = 0 /\ blockStart = 0)
        BY <1>2, BlockToWrite
      <4> QED
        BY <2>2, <3>1, <4>1
    <3>3. blockStart' > 0
      BY <1>0, <2>2, <2>3, <3>2 DEF StreamTypeOK
    <3> QED
      BY <3>1, <3>3 DEF Closed
  <2> QED
    BY <2>5, <2>6
<1>9. stage = "FinalSegment" => r = a
  BY <1>0, <1>1, <1>3, <1>4, <1>5, <1>8
     DEF RestIn, StreamTypeOK, SegmentIsAWindow, Accepted, Available
<1>10. NextBlockLength(p, a, StartingSavings) = NextBlockLength(p, r, StartingSavings)
  <2>1. CASE stage = "KeepLookahead"
    <3>1. a >= MaxBlock /\ r >= MaxBlock
      BY <1>1, <1>5, <1>6, <2>1
    <3> QED
      BY <3>1, BlockLengthIsSettled
  <2>2. CASE stage # "KeepLookahead"
    <3>1. a = r
      BY <1>2, <1>7, <1>9, <2>2 DEF Flushes
    <3> QED
      BY <3>1
  <2> QED
    BY <2>1, <2>2
<1>11. ~failed => expected' = ExpectedIn(n, segmentStart)
  <2> SUFFICES ASSUME ~failed PROVE expected' = ExpectedIn(n, segmentStart)
    OBVIOUS
  <2>1. CASE blockStart > 0
    <3>1. expected' = expected
      BY <2>1 DEF WriteBlock
    <3>2. n \in Futures
      <4>1. Closed => Closed'
        BY <1>0, <1>2, <1>8 DEF Closed, CallIsInOrder, Flushes
      <4> QED
        BY <1>4, <4>1 DEF Futures
    <3> QED
      BY <1>0, <2>1, <3>1, <3>2 DEF SegmentIsSettled
  <2>2. CASE blockStart = 0
    <3>1. expected' = ExpectedLength(stage)
      BY <2>2 DEF WriteBlock
    <3>2. p = segmentStart /\ a = segmentLength
      BY <1>0, <1>3, <2>2 DEF Available, StreamTypeOK
    <3>3. ExpectedIn(n, segmentStart) = IF r > MaxBlock THEN SegmentSize ELSE r
      BY <1>5, <3>2 DEF ExpectedIn
    <3>4. CASE stage = "KeepLookahead"
      BY <1>1, <1>5, <1>6, <3>1, <3>3, <3>4 DEF ExpectedLength
    <3>5. CASE stage = "WholeSegment"
      BY <1>1, <1>7, <3>1, <3>2, <3>3, <3>5 DEF ExpectedLength
    <3>6. CASE stage = "FinalSegment"
      <4>1. a <= MaxBlock
        BY <1>0, <1>3, <3>6 DEF SegmentIsSettled
      <4> QED
        BY <1>1, <1>9, <3>1, <3>2, <3>3, <3>6, <4>1 DEF ExpectedLength
    <3> QED
      BY <1>2, <3>4, <3>5, <3>6 DEF Flushes
  <2> QED
    BY <1>0, <2>1, <2>2 DEF StreamTypeOK
<1> QED
  BY <1>3, <1>5, <1>10, <1>11

LEMMA WriteBlockKeepsIInv ==
  ASSUME StreamAssumption, IInv, WriteBlock
  PROVE  IInv'
<1>0. StreamTypeOK /\ SegmentIsAWindow /\ CallIsInOrder /\ BlocksTile
  BY DEF IInv, TileInv
<1>1. MaxBlock \in Nat /\ SegmentSize \in Nat /\ SegmentSize > MaxBlock /\ MaxBlock > 0
  BY DEF StreamAssumption
<1>2. stage \in Flushes /\ HasReadyBlock(stage)
  BY DEF WriteBlock
<1>3. /\ segmentStart + blockStart \in Positions /\ Available \in Nat /\ StartingSavings \in Int
      /\ SegmentOf(segmentStart + blockStart) = segmentStart
      /\ stage # "FinalSegment" => Available > 0
      /\ Available = 0 => segmentLength = 0 /\ blockStart = 0
  BY <1>2, BlockToWrite
<1>4. PICK position \in Nat, length \in Nat :
         /\ position = segmentStart + blockStart
         /\ length = NextBlockLength(segmentStart + blockStart, Available, StartingSavings)
         /\ length <= Available /\ length <= MaxBlock /\ (Available > 0 => length > 0)
  <2>1. text \in Texts
    BY <1>0 DEF StreamTypeOK
  <2>2. segmentStart + blockStart \in Nat
    BY <1>0 DEF StreamTypeOK
  <2>3. PICK p \in Positions, a \in Nat, saved \in Int :
           p = segmentStart + blockStart /\ a = Available /\ saved = StartingSavings
    BY <1>3
  <2>4. /\ NextBlockLength(p, a, saved) \in 0..a /\ NextBlockLength(p, a, saved) <= MaxBlock
        /\ a > 0 => NextBlockLength(p, a, saved) > 0
    BY <2>1, BlockLengthBounds
  <2>5. NextBlockLength(p, a, saved) \in Nat /\ NextBlockLength(p, a, saved) <= a
    BY <2>4
  <2> QED
    BY <2>2, <2>3, <2>4, <2>5
<1>5. PICK b : b = [from |-> position, length |-> length, last |-> IsLast(length),
                    savings |-> StartingSavings, expected |-> expected', history |-> segmentStart]
  OBVIOUS
<1>6. blocks' = Append(blocks, b)
  BY <1>4, <1>5 DEF WriteBlock
<1>7. /\ blockStart' = blockStart + length
      /\ stage' = (IF IsLast(length) THEN "ending" ELSE stage)
      /\ savings' = StartingSavings + length - WrittenLength(position, length)
  BY <1>4 DEF WriteBlock
<1>8. /\ expected' = IF blockStart = 0 THEN ExpectedLength(stage) ELSE expected
      /\ tableLength' = IF expected' > tableLength THEN expected' ELSE tableLength
  BY DEF WriteBlock
<1>9. UNCHANGED <<text, hasher, remaining, segmentStart, segmentLength,
                  headerWritten, finished, checksum, failed, lost>>
  BY DEF WriteBlock
<1>10. PICK last \in BOOLEAN : last = IsLast(length) /\ (last <=> stage = "FinalSegment" /\ blockStart + length = segmentLength)
  BY DEF IsLast
<1>11. b \in BlockRecords
  <2>1. expected' \in Nat
    BY <1>0, <1>1, <1>8 DEF StreamTypeOK, ExpectedLength
  <2>2. segmentStart \in Nat
    BY <1>0 DEF StreamTypeOK
  <2>3. b = [from |-> position, length |-> length, last |-> last,
             savings |-> StartingSavings, expected |-> expected', history |-> segmentStart]
    BY <1>5, <1>10
  <2> QED
    BY <1>3, <2>1, <2>2, <2>3 DEF BlockRecords
<1>12. StreamTypeOK'
  <2>1. blocks' \in Seq(BlockRecords)
    BY <1>0, <1>6, <1>11 DEF StreamTypeOK
  <2>2. expected' \in Nat /\ tableLength' \in Nat
    BY <1>0, <1>1, <1>8 DEF StreamTypeOK, ExpectedLength
  <2>3. savings' \in Int
    <3>1. WrittenLength(position, length) \in Nat
      BY <1>0, <1>3, <1>4, WrittenLengthType DEF StreamTypeOK
    <3> QED
      BY <1>3, <1>7, <3>1
  <2>4. stage' \in Stages
    BY <1>2, <1>7 DEF Stages, Flushes
  <2>5. blockStart' \in Nat
    BY <1>0, <1>7 DEF StreamTypeOK
  <2> QED
    BY <1>0, <1>9, <2>1, <2>2, <2>3, <2>4, <2>5 DEF StreamTypeOK
<1>13. SegmentIsAWindow'
  <2>1. blockStart' <= segmentLength
    BY <1>0, <1>4, <1>7 DEF StreamTypeOK, Available
  <2>2. ASSUME blockStart' = segmentLength, segmentLength # 0
        PROVE  stage' \in {"WholeSegment", "ending"}
    <3>1. CASE stage = "KeepLookahead"
      <4>1. Available > MaxBlock
        BY <1>2, <3>1 DEF HasReadyBlock
      <4> QED
        BY <1>0, <1>1, <1>4, <1>7, <2>2, <4>1 DEF StreamTypeOK, Available
    <3>2. CASE stage = "WholeSegment"
      BY <1>7, <1>10, <3>2
    <3>3. CASE stage = "FinalSegment"
      BY <1>7, <1>10, <2>2, <3>3
    <3> QED
      BY <1>2, <3>1, <3>2, <3>3 DEF Flushes
  <2> QED
    BY <1>0, <1>9, <2>1, <2>2 DEF SegmentIsAWindow, Accepted, SegmentOf
<1>14. blocks' # <<>>
  BY <1>0, <1>6 DEF StreamTypeOK
<1>15. CallIsInOrder'
  <2>1. ~finished
    BY <1>0, <1>2 DEF CallIsInOrder, Flushes
  <2>2. stage' = "ending" => blockStart' = segmentLength
    BY <1>2, <1>7, <1>10 DEF Flushes
  <2>3. stage' = "WholeSegment" => stage = "WholeSegment"
    BY <1>7
  <2> QED
    BY <1>0, <1>2, <1>9, <1>14, <2>1, <2>2, <2>3 DEF CallIsInOrder, Flushes
<1>16. /\ Len(blocks') = Len(blocks) + 1 /\ blocks'[Len(blocks) + 1] = b
       /\ \A i \in 1..Len(blocks) : blocks'[i] = blocks[i]
       /\ Len(blocks) \in Nat
  BY <1>0, <1>6 DEF StreamTypeOK
<1>17. \A i \in 0..Len(blocks) : End(i)' = End(i)
  BY <1>16 DEF End
<1>18. b.from = position /\ b.length = length /\ b.history = segmentStart
       /\ b.last = IsLast(length) /\ b.savings = StartingSavings /\ b.expected = expected'
  BY <1>5
<1>19. BlocksTile'
  <2>1. \A i \in 1..Len(blocks') : blocks'[i].from = End(i - 1)'
    <3> TAKE i \in 1..Len(blocks')
    <3>1. CASE i <= Len(blocks)
      <4>1. i \in 1..Len(blocks) /\ i - 1 \in 0..Len(blocks)
        BY <1>16, <3>1
      <4> QED
        BY <1>0, <1>16, <1>17, <4>1 DEF BlocksTile
    <3>2. CASE i = Len(blocks) + 1
      <4>1. i - 1 = Len(blocks) /\ Len(blocks) \in 0..Len(blocks)
        BY <1>16, <3>2
      <4> QED
        BY <1>0, <1>4, <1>16, <1>17, <1>18, <3>2, <4>1 DEF BlocksTile, Emitted
    <3> QED
      BY <1>16, <3>1, <3>2
  <2>2. End(Len(blocks))' = Emitted'
    <3>1. End(Len(blocks))' = position + length
      BY <1>16, <1>18 DEF End
    <3> QED
      BY <1>0, <1>4, <1>7, <1>9, <3>1 DEF Emitted, StreamTypeOK
  <2>3. ~finished /\ stage # "ending"
    BY <1>0, <1>2 DEF CallIsInOrder, Flushes
  <2>4. \A i \in 1..Len(blocks') :
          blocks'[i].last <=> i = Len(blocks') /\ (finished' \/ stage' = "ending")
    <3> TAKE i \in 1..Len(blocks')
    <3>1. CASE i <= Len(blocks)
      <4>1. i \in 1..Len(blocks) /\ i # Len(blocks')
        BY <1>16, <3>1
      <4> QED
        BY <1>0, <1>16, <2>3, <4>1 DEF BlocksTile
    <3>2. CASE i = Len(blocks) + 1
      <4>1. stage' = "ending" <=> IsLast(length)
        BY <1>7, <2>3
      <4>2. blocks'[i].last = IsLast(length) /\ i = Len(blocks')
        BY <1>16, <1>18, <3>2
      <4> QED
        BY <1>9, <2>3, <4>1, <4>2
    <3> QED
      BY <1>16, <3>1, <3>2
  <2> QED
    BY <2>1, <2>2, <2>4 DEF BlocksTile
<1>20. Futures' \subseteq Futures
  <2>1. Closed => Closed'
    <3>1. ~finished /\ stage # "ending"
      BY <1>0, <1>2 DEF CallIsInOrder, Flushes
    <3>2. stage = "FinalSegment" /\ blockStart > 0 => stage' \in {"FinalSegment", "ending"} /\ blockStart' > 0
      BY <1>0, <1>4, <1>7 DEF StreamTypeOK
    <3> QED
      BY <3>1, <3>2 DEF Closed
  <2> QED
    BY <1>9, <2>1 DEF Futures, Accepted
<1>21. BlocksAreSettled'
  <2>0. PICK k \in Nat : k = Len(blocks) + 1
    BY <1>16
  <2>1. ASSUME NEW i \in 1..Len(blocks), NEW n \in Futures'
        PROVE  IsSettled(i, n)'
    <3>1. IsSettled(i, n)
      BY <1>20 DEF IInv, BlocksAreSettled
    <3>2. blocks'[i] = blocks[i]
      BY <1>16
    <3>3. i # 1 => blocks'[i - 1] = blocks[i - 1]
      <4>1. i # 1 => i - 1 \in 1..Len(blocks)
        OBVIOUS
      <4> QED
        BY <1>16, <4>1
    <3> QED
      BY <1>9, <3>1, <3>2, <3>3
      DEF IsSettled, NextBlockLength, SavingsBefore, WrittenLength, SegmentOf, RestIn, ExpectedIn
  <2>2. SavingsBefore(k)' = StartingSavings
    <3>1. blocks'[k].from = position
      BY <1>16, <1>18, <2>0
    <3>2. position = SegmentOf(position) <=> blockStart = 0
      BY <1>0, <1>3, <1>4 DEF StreamTypeOK
    <3>3. CASE blockStart = 0
      <4>1. SavingsBefore(k)' = 0
        BY <3>1, <3>2, <3>3 DEF SavingsBefore, SegmentOf
      <4> QED
        BY <3>3, <4>1 DEF StartingSavings
    <3>4. CASE blockStart # 0
      <4>1. blocks # <<>> /\ savings = blocks[Len(blocks)].savings + blocks[Len(blocks)].length
               - WrittenLength(blocks[Len(blocks)].from, blocks[Len(blocks)].length)
        BY <1>0, <3>4 DEF IInv, SegmentIsSettled, StreamTypeOK
      <4>2. Len(blocks) \in 1..Len(blocks) /\ k # 1 /\ k - 1 = Len(blocks)
        BY <1>0, <1>16, <2>0, <4>1 DEF StreamTypeOK
      <4>3. blocks'[k - 1] = blocks[Len(blocks)]
        BY <1>16, <4>2
      <4>4. SavingsBefore(k)' = savings
        BY <1>9, <3>1, <3>2, <3>4, <4>1, <4>2, <4>3 DEF SavingsBefore, WrittenLength, SegmentOf
      <4> QED
        BY <3>4, <4>4 DEF StartingSavings
    <3> QED
      BY <3>3, <3>4
  <2>3. ASSUME NEW n \in Futures'
        PROVE  IsSettled(k, n)'
    <3>1. /\ length = NextBlockLength(position, RestIn(position, n), StartingSavings)
          /\ ~failed => expected' = ExpectedIn(n, segmentStart)
      BY <1>4, BlockIsSettled
    <3>2. blocks'[k] = b
      BY <1>16, <2>0
    <3>3. PICK r : r = RestIn(position, n)
      OBVIOUS
    <3>4. (blocks[k].length = NextBlockLength(blocks[k].from, RestIn(blocks[k].from, n), SavingsBefore(k)))'
      <4>1. NextBlockLength(position, r, StartingSavings) = length
        BY <3>1, <3>3
      <4>2. blocks'[k].length = length /\ blocks'[k].from = position
        BY <1>18, <3>2
      <4>3. RestIn(blocks'[k].from, n) = r
        BY <3>3, <4>2
      <4> QED
        BY <1>9, <2>2, <4>1, <4>2, <4>3 DEF NextBlockLength, RestIn, SegmentOf
    <3>5. blocks'[k].history = SegmentOf(blocks'[k].from)
      BY <1>3, <1>4, <1>18, <3>2
    <3>6. ~failed' => blocks'[k].expected = ExpectedIn(n, SegmentOf(blocks'[k].from))
      BY <1>3, <1>4, <1>9, <1>18, <3>1, <3>2
    <3> QED
      BY <3>4, <3>5, <3>6 DEF IsSettled, SegmentOf, ExpectedIn, RestIn
  <2>4. ASSUME NEW i \in 1..Len(blocks'), NEW n \in Futures'
        PROVE  IsSettled(i, n)'
    <3>1. CASE i \in 1..Len(blocks)
      BY <2>1, <3>1
    <3>2. CASE i = k
      BY <2>3, <3>2
    <3> QED
      BY <1>16, <2>0, <3>1, <3>2
  <2> QED
    BY <2>4 DEF BlocksAreSettled
<1>22. SegmentIsSettled'
  <2>1. blocks'[Len(blocks')] = b
    BY <1>16
  <2>2. savings' = (blocks[Len(blocks)].savings + blocks[Len(blocks)].length
                      - WrittenLength(blocks[Len(blocks)].from, blocks[Len(blocks)].length))'
    BY <1>7, <1>9, <1>18, <2>1 DEF WrittenLength
  <2>3. ~failed' => \A n \in Futures' : expected' = ExpectedIn(n, segmentStart')
    BY <1>9, BlockIsSettled
  <2>4. ~failed' /\ stage' \in {"ready", "taking", "WholeSegment", "FinalSegment"} => Available' <= MaxBlock
    <3> SUFFICES ASSUME ~failed', stage' \in {"ready", "taking", "WholeSegment", "FinalSegment"}
                 PROVE  Available' <= MaxBlock
      OBVIOUS
    <3>1. stage \in {"WholeSegment", "FinalSegment"}
      BY <1>2, <1>7 DEF Flushes
    <3>2. Available <= MaxBlock
      BY <1>9, <3>1 DEF IInv, SegmentIsSettled
    <3> QED
      BY <1>0, <1>1, <1>7, <1>9, <3>2 DEF Available, StreamTypeOK
  <2> QED
    BY <1>14, <2>2, <2>3, <2>4 DEF SegmentIsSettled
<1>23. HasherInv'
  <2>1. stage' \in {"ready", "FinalSegment", "ending"} => stage = "FinalSegment"
    BY <1>2, <1>7, <1>10 DEF Flushes
  <2> QED
    BY <1>9, <2>1 DEF IInv, HasherInv, Accepted
<1> QED
  BY <1>12, <1>13, <1>15, <1>19, <1>21, <1>22, <1>23 DEF IInv, TileInv

-----------------------------------------------------------------------------
(***************************************************************************)
(* The ends of a call.                                                     *)
(***************************************************************************)
LEMMA RunOutOfMemoryKeepsIInv ==
  ASSUME StreamAssumption, IInv, RunOutOfMemory
  PROVE  IInv'
<1>0. StreamTypeOK /\ SegmentIsAWindow /\ CallIsInOrder /\ BlocksTile
  BY DEF IInv, TileInv
<1>1. ~finished /\ headerWritten /\ stage # "ending"
  BY <1>0 DEF CallIsInOrder, RunOutOfMemory, Flushes
<1>2. StreamTypeOK'
  BY <1>0 DEF StreamTypeOK, RunOutOfMemory, input, finder, output, Stages
<1>3. SegmentIsAWindow'
  BY <1>0 DEF SegmentIsAWindow, RunOutOfMemory, input, Accepted, SegmentOf, StreamTypeOK
<1>4. CallIsInOrder'
  BY <1>0, <1>1 DEF CallIsInOrder, RunOutOfMemory, input, output
<1>5. BlocksTile'
  BY <1>0, <1>1, TileStays DEF RunOutOfMemory, input, output, Emitted
<1>6. Futures' \subseteq Futures
  BY <1>0, <1>1, FuturesStay DEF RunOutOfMemory, input, output, Accepted, Closed, StreamTypeOK
<1>7. BlocksAreSettled'
  BY <1>6, SettledStays DEF RunOutOfMemory, output, IInv
<1>8. SegmentIsSettled'
  BY <1>0, <1>6, SegmentStaysSettled DEF RunOutOfMemory, input, finder, output, IInv, StreamTypeOK
<1>9. HasherInv'
  BY <1>0, <1>1 DEF HasherInv, IInv, RunOutOfMemory, input, output, Accepted, StreamTypeOK
<1> QED
  BY <1>2, <1>3, <1>4, <1>5, <1>7, <1>8, <1>9 DEF IInv, TileInv

LEMMA EndKeepLookaheadKeepsIInv ==
  ASSUME StreamAssumption, IInv, EndKeepLookahead
  PROVE  IInv'
<1>0. StreamTypeOK /\ SegmentIsAWindow /\ CallIsInOrder /\ BlocksTile
  BY DEF IInv, TileInv
<1>1. ~finished /\ headerWritten
  BY <1>0 DEF CallIsInOrder, EndKeepLookahead
<1>2. StreamTypeOK'
  BY <1>0 DEF StreamTypeOK, EndKeepLookahead, input, finder, output, Stages
<1>3. SegmentIsAWindow'
  BY <1>0, <1>1 DEF SegmentIsAWindow, EndKeepLookahead, input, Accepted, SegmentOf
<1>4. CallIsInOrder'
  BY <1>0, <1>1 DEF CallIsInOrder, EndKeepLookahead, input, output
<1>5. BlocksTile'
  BY <1>0, <1>1, TileStays DEF EndKeepLookahead, input, output, Emitted
<1>6. Futures' \subseteq Futures
  BY <1>0, <1>1, FuturesStay DEF EndKeepLookahead, input, output, Accepted, Closed, StreamTypeOK
<1>7. BlocksAreSettled'
  BY <1>6, SettledStays DEF EndKeepLookahead, output, IInv
<1>8. Available' <= MaxBlock
  BY <1>0 DEF EndKeepLookahead, HasReadyBlock, Available, input, StreamTypeOK, StreamAssumption
<1>9. SegmentIsSettled'
  BY <1>0, <1>6, <1>8, SegmentStaysSettled DEF EndKeepLookahead, input, finder, output, IInv, StreamTypeOK
<1>10. HasherInv'
  BY DEF HasherInv, IInv, EndKeepLookahead, input, output, Accepted
<1> QED
  BY <1>2, <1>3, <1>4, <1>5, <1>7, <1>9, <1>10 DEF IInv, TileInv

LEMMA EndWholeSegmentKeepsIInv ==
  ASSUME StreamAssumption, IInv, EndWholeSegment
  PROVE  IInv'
<1>0. StreamTypeOK /\ SegmentIsAWindow /\ CallIsInOrder /\ BlocksTile
  BY DEF IInv, TileInv
<1>1. ~finished /\ headerWritten
  BY <1>0 DEF CallIsInOrder, EndWholeSegment
<1>2. segmentLength = SegmentSize /\ blockStart = segmentLength
  <2>1. ~(Available > 0)
    BY DEF EndWholeSegment, HasReadyBlock
  <2> QED
    BY <1>0, <2>1 DEF EndWholeSegment, Available, CallIsInOrder, SegmentIsAWindow, StreamTypeOK
<1>3. SegmentOf(segmentStart') = segmentStart'
  <2>1. segmentStart' = segmentStart + SegmentSize
    BY <1>2 DEF EndWholeSegment
  <2>2. segmentStart \in Nat /\ SegmentOf(segmentStart) = segmentStart
    BY <1>0 DEF StreamTypeOK, SegmentIsAWindow
  <2> QED
    BY <2>1, <2>2, SegmentOfNext
<1>4. StreamTypeOK'
  BY <1>0 DEF StreamTypeOK, EndWholeSegment, finder, output, Stages
<1>5. SegmentIsAWindow'
  BY <1>0, <1>3 DEF SegmentIsAWindow, EndWholeSegment, Accepted, SegmentOf, StreamTypeOK, StreamAssumption
<1>6. CallIsInOrder'
  BY <1>0, <1>1 DEF CallIsInOrder, EndWholeSegment, output
<1>7. BlocksTile'
  BY <1>0, <1>1, <1>2, TileStays DEF EndWholeSegment, output, Emitted, StreamTypeOK
<1>8. Futures' \subseteq Futures
  BY <1>0, <1>1, FuturesStay DEF EndWholeSegment, output, Accepted, Closed, StreamTypeOK
<1>9. BlocksAreSettled'
  BY <1>8, SettledStays DEF EndWholeSegment, output, IInv
<1>10. Available' <= MaxBlock
  BY DEF EndWholeSegment, Available, StreamAssumption
<1>11. SegmentIsSettled'
  BY <1>0, <1>8, <1>10, SegmentStaysSettled DEF EndWholeSegment, finder, output, IInv, StreamTypeOK
<1>12. HasherInv'
  BY <1>0 DEF HasherInv, IInv, EndWholeSegment, output, Accepted, StreamTypeOK
<1> QED
  BY <1>4, <1>5, <1>6, <1>7, <1>9, <1>11, <1>12 DEF IInv, TileInv

\* A segment with nothing left to write was emptied before: finish empties none.
LEMMA BeginFinishKeepsIInv ==
  ASSUME StreamAssumption, IInv, BeginFinish
  PROVE  IInv'
<1>0. StreamTypeOK /\ SegmentIsAWindow /\ CallIsInOrder /\ BlocksTile
  BY DEF IInv, TileInv
<1>1. stage = "ready" /\ ~finished
  BY DEF BeginFinish
<1>2. UNCHANGED <<segmentStart, segmentLength, blockStart>>
  <2>1. CASE blockStart = segmentLength
    <3>1. segmentLength = 0
      BY <1>0, <1>1, <2>1 DEF SegmentIsAWindow
    <3> QED
      BY <1>0, <2>1, <3>1 DEF BeginFinish, StreamTypeOK
  <2>2. CASE blockStart # segmentLength
    BY <2>2 DEF BeginFinish, input
  <2> QED
    BY <2>1, <2>2
<1>3. StreamTypeOK'
  BY <1>0, <1>2 DEF StreamTypeOK, BeginFinish, finder, Stages, Flushes
<1>4. SegmentIsAWindow'
  BY <1>0, <1>1, <1>2 DEF SegmentIsAWindow, BeginFinish, Accepted, SegmentOf
<1>5. CallIsInOrder'
  BY <1>0, <1>1 DEF CallIsInOrder, BeginFinish
<1>6. BlocksTile'
  BY <1>0, <1>1, <1>2, TileStays DEF BeginFinish, Emitted
<1>7. Futures' \subseteq Futures
  BY <1>0, <1>1, <1>2, FuturesStay DEF BeginFinish, Accepted, Closed, StreamTypeOK
<1>8. BlocksAreSettled'
  BY <1>7, SettledStays DEF BeginFinish, IInv
<1>9. SegmentIsSettled'
  BY <1>0, <1>2, <1>7, SegmentStaysSettled DEF BeginFinish, finder, IInv, StreamTypeOK, SegmentIsSettled, Available
<1>10. HasherInv'
  BY <1>1, <1>2 DEF HasherInv, IInv, BeginFinish, Accepted
<1> QED
  BY <1>3, <1>4, <1>5, <1>6, <1>8, <1>9, <1>10 DEF IInv, TileInv

\* The loop of the last segment ends by its last block, never for want of one.
LEMMA EndFinishKeepsIInv ==
  ASSUME StreamAssumption, IInv, EndFinish
  PROVE  IInv'
<1>0. StreamTypeOK /\ SegmentIsAWindow /\ CallIsInOrder /\ BlocksTile
  BY DEF IInv, TileInv
<1>1. stage = "ending"
  <2> SUFFICES ASSUME stage = "FinalSegment", ~HasReadyBlock(stage) PROVE FALSE
    BY DEF EndFinish
  <2>1. ~(Available > 0) /\ segmentLength # 0
    BY DEF HasReadyBlock
  <2>2. ~finished
    BY <1>0 DEF CallIsInOrder
  <2> QED
    BY <1>0, <2>1, <2>2 DEF Available, SegmentIsAWindow, StreamTypeOK
<1>2. StreamTypeOK'
  BY <1>0 DEF StreamTypeOK, EndFinish, input, finder, Stages
<1>3. SegmentIsAWindow'
  BY <1>0 DEF SegmentIsAWindow, EndFinish, input, Accepted, SegmentOf
<1>4. CallIsInOrder'
  BY <1>0, <1>1 DEF CallIsInOrder, EndFinish, input
<1>5. BlocksTile'
  BY <1>0, <1>1, TileStays DEF EndFinish, input, Emitted
<1>6. Futures' \subseteq Futures
  BY <1>0, <1>1, FuturesStay DEF EndFinish, input, Accepted, Closed, StreamTypeOK
<1>7. BlocksAreSettled'
  BY <1>6, SettledStays DEF EndFinish, IInv
<1>8. Available' <= MaxBlock
  BY <1>0, <1>1 DEF EndFinish, input, Available, CallIsInOrder, StreamTypeOK, StreamAssumption
<1>9. SegmentIsSettled'
  BY <1>0, <1>6, <1>8, SegmentStaysSettled DEF EndFinish, input, finder, IInv, StreamTypeOK
<1>10. HasherInv'
  BY <1>1 DEF HasherInv, IInv, EndFinish, input, Accepted, Digest
<1> QED
  BY <1>2, <1>3, <1>4, <1>5, <1>7, <1>9, <1>10 DEF IInv, TileInv

LEMMA StutterKeepsIInv ==
  ASSUME IInv, UNCHANGED vars
  PROVE  IInv'
<1>0. UNCHANGED <<text, hasher, remaining, stage, segmentStart, segmentLength, blockStart, savings,
                  tableLength, expected, headerWritten, finished, blocks, checksum, failed, lost>>
  BY DEF vars, call, input, finder, output
<1>1. TileInv'
  BY <1>0 DEF IInv, TileInv, StreamTypeOK, SegmentIsAWindow, CallIsInOrder, BlocksTile, Accepted, Emitted,
              End, SegmentOf
<1>2. Futures' \subseteq Futures
  BY <1>0 DEF Futures, Accepted, Closed
<1>3. BlocksAreSettled'
  BY <1>0, <1>2, SettledStays DEF IInv
<1>4. SegmentIsSettled'
  BY <1>0, <1>2, SegmentStaysSettled DEF IInv, SegmentIsSettled, Available, TileInv, StreamTypeOK
<1>5. HasherInv'
  BY <1>0 DEF IInv, HasherInv, Accepted, Digest
<1> QED
  BY <1>1, <1>3, <1>4, <1>5 DEF IInv

-----------------------------------------------------------------------------
(***************************************************************************)
(* The results.                                                            *)
(***************************************************************************)
\* The stream's invariant holds in every state, for every text, every cut of
\* the input into calls, and every call that finds no memory.
THEOREM AlwaysIInv ==
  ASSUME StreamAssumption, HashAssumption
  PROVE  Spec => []IInv
<1>1. Init => IInv
  BY InitIInv
<1>2. IInv /\ [Next]_vars => IInv'
  <2> SUFFICES ASSUME IInv, [Next]_vars PROVE IInv'
    OBVIOUS
  <2>1. ASSUME NEW length \in 0..MaxInput, BeginWrite(length) PROVE IInv'
    BY <2>1, BeginWriteKeepsIInv
  <2>2. CASE FlushFullSegment
    BY <2>2, FlushFullSegmentKeepsIInv
  <2>3. CASE TakeInput
    BY <2>3, TakeInputKeepsIInv
  <2>4. CASE WriteBlock
    BY <2>4, WriteBlockKeepsIInv
  <2>5. CASE RunOutOfMemory
    BY <2>5, RunOutOfMemoryKeepsIInv
  <2>6. CASE EndKeepLookahead
    BY <2>6, EndKeepLookaheadKeepsIInv
  <2>7. CASE EndWholeSegment
    BY <2>7, EndWholeSegmentKeepsIInv
  <2>8. CASE BeginFinish
    BY <2>8, BeginFinishKeepsIInv
  <2>9. CASE EndFinish
    BY <2>9, EndFinishKeepsIInv
  <2>10. CASE RefuseLateCall
    BY <2>10, StutterKeepsIInv DEF RefuseLateCall
  <2>11. CASE UNCHANGED vars
    BY <2>11, StutterKeepsIInv
  <2> QED
    BY <2>1, <2>2, <2>3, <2>4, <2>5, <2>6, <2>7, <2>8, <2>9, <2>10, <2>11 DEF Next
<1> QED
  BY <1>1, <1>2, PTL DEF Spec

\* The blocks of a frame cover its input once and in order, whatever calls
\* brought it, and the last of them alone is marked.
THEOREM AlwaysBlocksTileTheInput ==
  ASSUME StreamAssumption, HashAssumption
  PROVE  Spec => []BlocksTileTheInput
<1>1. IInv => BlocksTileTheInput
  <2> SUFFICES ASSUME IInv PROVE BlocksTileTheInput
    OBVIOUS
  <2>0. StreamTypeOK /\ SegmentIsAWindow /\ CallIsInOrder /\ BlocksTile
    BY DEF IInv, TileInv
  <2>1. DOMAIN blocks = 1..Len(blocks)
    BY <2>0 DEF StreamTypeOK
  <2>2. finished => Emitted = Accepted /\ headerWritten /\ blocks # <<>>
    BY <2>0 DEF CallIsInOrder, Emitted, Accepted
  <2>3. finished \/ stage = "ending" => stage # "FinalSegment"
    BY <2>0 DEF CallIsInOrder
  <2> QED
    BY <2>0, <2>1, <2>2, <2>3 DEF BlocksTile, BlocksTileTheInput
<1> QED
  BY <1>1, AlwaysIInv, PTL

\* The frame is the one that a single write of its whole input gives, however
\* the input was cut into calls.
THEOREM AlwaysChunkingLeavesNoTrace ==
  ASSUME StreamAssumption, HashAssumption
  PROVE  Spec => []ChunkingLeavesNoTrace
<1>1. IInv => ChunkingLeavesNoTrace
  <2> SUFFICES ASSUME IInv, finished PROVE ChunkingLeavesNoTrace
    BY DEF ChunkingLeavesNoTrace
  <2>1. Accepted \in Futures
    BY DEF IInv, TileInv, StreamTypeOK, Futures, Accepted
  <2>2. DOMAIN blocks = 1..Len(blocks)
    BY DEF IInv, TileInv, StreamTypeOK
  <2>3. ASSUME NEW i \in 1..Len(blocks)
        PROVE  /\ blocks[i].history = SegmentOf(blocks[i].from)
               /\ blocks[i].length = NextBlockLength(blocks[i].from, SegmentRest(blocks[i].from), SavingsBefore(i))
               /\ ~failed => blocks[i].expected =
                    IF SegmentRest(SegmentOf(blocks[i].from)) > MaxBlock THEN SegmentSize
                    ELSE SegmentRest(SegmentOf(blocks[i].from))
    <3>1. IsSettled(i, Accepted)
      BY <2>1 DEF IInv, BlocksAreSettled
    <3> QED
      BY <3>1 DEF IsSettled, ExpectedIn, RestIn, SegmentRest
  <2> QED
    BY <2>2, <2>3 DEF ChunkingLeavesNoTrace
<1> QED
  BY <1>1, AlwaysIInv, PTL

\* The checksum that a finished frame carries is that of all the input in one
\* piece, however the input was cut into calls of update, whichever calls of
\* write failed.
THEOREM AlwaysChecksumIsOfTheInput ==
  ASSUME StreamAssumption, HashAssumption
  PROVE  Spec => []ChecksumIsOfTheInput
<1>1. IInv => ChecksumIsOfTheInput
  <2> SUFFICES ASSUME IInv, checksum # NoChecksum
               PROVE  checksum = HashBytes(Bytes(0, Accepted + lost)) /\ (lost > 0 => failed)
    BY DEF ChecksumIsOfTheInput
  <2>1. PICK n \in Nat : n = Accepted + lost
    BY DEF IInv, TileInv, StreamTypeOK, Accepted, HasherInv
  <2>2. finished /\ checksum = Digest(hasher) /\ hasher = HasherAfter(hasher.total)
    BY DEF IInv, HasherInv
  <2>3. hasher.total = n
    <3>1. remaining = 0
      BY <2>2 DEF IInv, TileInv, CallIsInOrder, HasherInv
    <3>2. Accepted \in Nat /\ lost \in Nat
      BY DEF IInv, TileInv, StreamTypeOK, Accepted, HasherInv
    <3> QED
      BY <2>1, <3>1, <3>2 DEF IInv, HasherInv
  <2>4. Update(HasherAfter(0), Bytes(0, n)) = HasherAfter(0 + n)
    BY UpdateAfter
  <2>5. HasherAfter(0 + n) = HasherAfter(n)
    BY <2>1
  <2>6. Update(NewHasher, Bytes(0, n)) = hasher
    BY <2>2, <2>3, <2>4, <2>5, NewHasherIsAfterNothing
  <2>7. lost > 0 => failed
    BY DEF IInv, HasherInv
  <2> QED
    BY <2>1, <2>2, <2>6, <2>7 DEF HashBytes
<1> QED
  BY <1>1, AlwaysIInv, PTL
=============================================================================
