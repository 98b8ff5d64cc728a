-------------------------- MODULE MqttCodecProofs --------------------------
(***************************************************************************)
(* The MQTT codec: what DelayWritePack lays out, ReadPack reads back.      *)
(*                                                                         *)
(* First the remaining length, for every length that four digits can hold. *)
(* Then the layout of a pack: where each of its numbers stands, for every  *)
(* pack, by induction over its strings.  Then the stream: packs lie on it  *)
(* one behind the other.  Last the reader: at every place within a pack it *)
(* finds the number it expects, and behind the last one the next pack.     *)
(***************************************************************************)
EXTENDS MqttCodec, SequenceTheorems, WellFoundedInduction, TLAPS

-----------------------------------------------------------------------------
(* The remaining length.                                                   *)

(* What ReadLength has added up after the digits it reads, of which there  *)
(* are at most three.                                                      *)
ReadDigits(d) ==
    (d[1] % 128) + (IF Len(d) >= 2 THEN (d[2] % 128) * 128 ELSE 0)
      + (IF Len(d) >= 3 THEN (d[3] % 128) * 16384 ELSE 0)

(* The weights of the digits.                                              *)
LEMMA Weights ==
  /\ 128 ^ 0 = 1 /\ 128 ^ 1 = 128 /\ 128 ^ 2 = 16384
  /\ 128 ^ 3 = 2097152 /\ 128 ^ 4 = 268435456
BY SMT

(* A length is the sum of its digits, and three of them are the length     *)
(* but for multiples of 2^21.                                              *)
LEMMA DigitSum ==
  ASSUME NEW n \in Nat
  PROVE  /\ n < 128 => n % 128 = n
         /\ n < 16384 => (n % 128) + ((n \div 128) % 128) * 128 = n
         /\ (n % 128) + ((n \div 128) % 128) * 128 + ((n \div 16384) % 128) * 16384
              = n % 2097152
<1> DEFINE q == n \div 128
           r == q \div 128
           s == r \div 128
<1>1. q \in Nat /\ n = 128 * q + (n % 128) /\ n % 128 \in 0..127
  BY SMT
<1> HIDE DEF q
<1>2. r \in Nat /\ q = 128 * r + (q % 128) /\ q % 128 \in 0..127
  BY <1>1, SMT
<1> HIDE DEF r
<1>3. s \in Nat /\ r = 128 * s + (r % 128) /\ r % 128 \in 0..127
  BY <1>2, SMT
<1> HIDE DEF s
<1>4. n \div 16384 = r
  <2>1. n = 16384 * r + (128 * (q % 128) + (n % 128))
    BY <1>1, <1>2, SMT
  <2>2. 0 <= 128 * (q % 128) + (n % 128) /\ 128 * (q % 128) + (n % 128) < 16384
    BY <1>1, <1>2, SMT
  <2> QED
    BY <1>2, <2>1, <2>2, SMT
<1>5. (n % 128) + (q % 128) * 128 + (r % 128) * 16384 = n % 2097152
  <2>1. n = 2097152 * s + ((n % 128) + (q % 128) * 128 + (r % 128) * 16384)
    BY <1>1, <1>2, <1>3, SMT
  <2>2. /\ (n % 128) + (q % 128) * 128 + (r % 128) * 16384 \in Nat
        /\ (n % 128) + (q % 128) * 128 + (r % 128) * 16384 < 2097152
    BY <1>1, <1>2, <1>3, SMT
  <2> QED
    BY <1>3, <2>1, <2>2, SMT
<1>6. n < 128 => n % 128 = n
  BY SMT
<1>7. n < 16384 => (n % 128) + (q % 128) * 128 = n
  BY <1>1, <1>2, SMT
<1> QED
  BY <1>4, <1>5, <1>6, <1>7, SMT DEF q

(* How many digits a length has ...                                        *)
LEMMA Count ==
  ASSUME NEW n \in Nat, n < 268435456
  PROVE  \E k \in 1..4 : n < 128 ^ k /\ (k > 1 => n >= 128 ^ (k - 1))
<1>1. CASE n < 128
  BY <1>1, Weights, SMT
<1>2. CASE n >= 128 /\ n < 16384
  BY <1>2, Weights, SMT
<1>3. CASE n >= 16384 /\ n < 2097152
  BY <1>3, Weights, SMT
<1>4. CASE n >= 2097152
  BY <1>4, Weights, SMT
<1> QED
  BY <1>1, <1>2, <1>3, <1>4, SMT

(* ... and each of them.                                                   *)
LEMMA Digits ==
  ASSUME NEW n \in Nat,
         \E k \in 1..4 : n < 128 ^ k /\ (k > 1 => n >= 128 ^ (k - 1))
  PROVE  \E k \in 1..4 :
            /\ n < 128 ^ k /\ (k > 1 => n >= 128 ^ (k - 1))
            /\ GetRemainingLength(n) =
                 [i \in 1..k |-> ((n \div 128 ^ (i - 1)) % 128)
                                    + (IF i < k THEN 128 ELSE 0)]
BY Zenon DEF GetRemainingLength

(* What ReadPack makes of the digits getRemainingLength wrote, for every   *)
(* length below 2^28: it goes on after a marked digit and stops at the     *)
(* last one, or after the third. A length below 2^21 is read back as it    *)
(* is; a longer one loses its fourth digit, which stays on the stream.     *)
THEOREM LengthReadBack ==
  ASSUME NEW n \in Nat, n < 268435456
  PROVE  LET d == GetRemainingLength(n) IN
         /\ Len(d) \in 1..4 /\ \A i \in 1..Len(d) : d[i] \in 0..255
         /\ \A i \in 1..Len(d) : MoreDigits(d[i], i + 1) <=> i < Len(d) /\ i < 3
         /\ Len(d) = 4 <=> n >= 2097152
         /\ ReadDigits(d) = n % 2097152
         /\ n < 2097152 => ReadDigits(d) = n
<1> DEFINE d == GetRemainingLength(n)
           e(i) == (n \div 128 ^ (i - 1)) % 128
<1>1. PICK k \in 1..4 :
         /\ n < 128 ^ k /\ (k > 1 => n >= 128 ^ (k - 1))
         /\ d = [i \in 1..k |-> e(i) + (IF i < k THEN 128 ELSE 0)]
  BY Count, Digits, SMT
<1>2. /\ e(1) = n % 128 /\ e(2) = (n \div 128) % 128 /\ e(3) = (n \div 16384) % 128
      /\ e(4) = (n \div 2097152) % 128
  <2>1. 1 - 1 = 0 /\ 2 - 1 = 1 /\ 3 - 1 = 2 /\ 4 - 1 = 3 /\ n \div 1 = n
    BY SMT
  <2> QED
    BY <2>1, Weights, SMT
<1>3. Len(d) = k /\ DOMAIN d = 1..k
  BY <1>1, SMT
<1>4. \A i \in 1..4 : e(i) \in 0..127
  <2>1. e(1) \in 0..127 /\ e(2) \in 0..127 /\ e(3) \in 0..127 /\ e(4) \in 0..127
    BY <1>2, SMT
  <2> QED
    BY <2>1, SMT
<1> HIDE DEF e
<1>5. \A i \in 1..k : /\ d[i] = e(i) + (IF i < k THEN 128 ELSE 0)
                      /\ d[i] % 128 = e(i) /\ d[i] \in 0..255
                      /\ d[i] >= 128 <=> i < k
  <2> SUFFICES ASSUME NEW i \in 1..k
               PROVE  /\ d[i] = e(i) + (IF i < k THEN 128 ELSE 0)
                      /\ d[i] % 128 = e(i) /\ d[i] \in 0..255
                      /\ d[i] >= 128 <=> i < k
    BY SMT
  <2>1. d[i] = e(i) + (IF i < k THEN 128 ELSE 0)
    BY <1>1, SMT
  <2>2. e(i) \in 0..127
    BY <1>4, SMT
  <2> QED
    BY <2>1, <2>2, SMT
<1> HIDE DEF d
<1>6. \A i \in 1..k : MoreDigits(d[i], i + 1) <=> i < k /\ i < 3
  BY <1>5, SMT DEF MoreDigits
<1>7. /\ k = 1 => n < 128
      /\ k = 2 => n < 16384
      /\ k = 3 => n < 2097152
      /\ k = 4 => n >= 2097152
  <2>1. 4 - 1 = 3
    BY SMT
  <2>2. CASE k = 4
    <3>1. n >= 128 ^ 3
      BY <1>1, <2>1, <2>2, SMT
    <3> QED
      BY <2>2, <3>1, Weights, SMT
  <2>3. CASE k = 1
    BY <1>1, <2>3, Weights, SMT
  <2>4. CASE k = 2
    BY <1>1, <2>4, Weights, SMT
  <2>5. CASE k = 3
    BY <1>1, <2>5, Weights, SMT
  <2> QED
    BY <2>2, <2>3, <2>4, <2>5, SMT
<1>8. ReadDigits(d) = n % 2097152
  <2>1. n < 2097152 => n % 2097152 = n
    BY SMT
  <2>2. CASE k = 1
    <3>1. ReadDigits(d) = e(1)
      BY <1>3, <1>5, <2>2, SMT DEF ReadDigits
    <3> QED
      BY <1>2, <1>7, <2>1, <2>2, <3>1, DigitSum, SMT
  <2>3. CASE k = 2
    <3>1. ReadDigits(d) = e(1) + e(2) * 128
      BY <1>3, <1>4, <1>5, <2>3, SMT DEF ReadDigits
    <3> QED
      BY <1>2, <1>7, <2>1, <2>3, <3>1, DigitSum, SMT
  <2>4. CASE k >= 3
    <3>1. ReadDigits(d) = e(1) + e(2) * 128 + e(3) * 16384
      BY <1>3, <1>4, <1>5, <2>4, SMT DEF ReadDigits
    <3> QED
      BY <1>2, <3>1, DigitSum, SMT
  <2> QED
    BY <2>2, <2>3, <2>4, SMT
<1>9. n < 2097152 => ReadDigits(d) = n
  BY <1>8, SMT
<1>10. Len(d) = 4 <=> n >= 2097152
  BY <1>3, <1>7, SMT
<1> QED
  BY <1>3, <1>5, <1>6, <1>8, <1>9, <1>10, SMT DEF d

(* A set of numbers that holds 0 and the successor of each number it holds *)
(* has every number: the induction of the lemmas below, each of which      *)
(* names the set it is about.                                              *)
LEMMA Induction ==
  ASSUME NEW T, 0 \in T, \A k \in Nat : k \in T => k + 1 \in T
  PROVE  \A n \in Nat : n \in T
<1> DEFINE R == OpToRel(<, Nat)
           B == Nat \ T
<1> SUFFICES ASSUME B # {}
             PROVE  FALSE
  OBVIOUS
<1>1. IsWellFoundedOn(R, Nat)
  BY NatLessThanWellFounded, Zenon
<1>2. PICK m \in B : \A k \in B : ~ (<<k, m>> \in R)
  <2> HIDE DEF R
  <2> QED
    BY <1>1, WFMin
<1>3. \A k \in B : ~(k < m)
  BY <1>2 DEF OpToRel
<1>4. m # 0 /\ m \in Nat
  OBVIOUS
<1>5. m - 1 \in Nat /\ m - 1 \notin B
  BY <1>3, <1>4
<1> QED
  BY <1>5

-----------------------------------------------------------------------------
(* The items of a layout, and Bytes of them.                               *)

(* A width of at least one byte, and a value, which is negative for        *)
(* content.                                                                *)
Item == [w : Nat \ {0}, v : Int]

(* What FoldLeft computes Bytes with: a function on the sets of indices.   *)
IsFold(items, n, g) ==
    g = [s \in SUBSET (1..n) |->
            IF s = {} THEN 0 ELSE g[s \ {Max(s)}] + items[Max(s)].w]

(* The fold takes the last index first.                                    *)
LEMMA MaxTop ==
  ASSUME NEW k \in Nat, NEW s \in SUBSET (1..(k + 1)), k + 1 \in s
  PROVE  Max(s) = k + 1
<1>1. \A y \in s : y \in Int /\ k + 1 >= y
  BY SMT
<1>2. \A x \in s : (\A y \in s : x >= y) => x = k + 1
  BY <1>1, SMT
<1>3. Max(s) \in s /\ \A y \in s : Max(s) >= y
  BY <1>1, Zenon DEF Max
<1> QED
  BY <1>2, <1>3, Zenon

(* There is such a function, however many items there are.                 *)
LEMMA FoldExists ==
  ASSUME NEW items, NEW n \in Nat
  PROVE  \E g : IsFold(items, n, g)
<1> DEFINE T == {k \in Nat : \E g : IsFold(items, k, g)}
<1>1. 0 \in T
  <2>1. SUBSET (1..0) = {{}}
    OBVIOUS
  <2>2. IsFold(items, 0, [s \in {{}} |-> 0])
    BY <2>1 DEF IsFold
  <2> QED
    BY <2>2
<1>2. ASSUME NEW k \in Nat, k \in T
      PROVE  k + 1 \in T
  <2>1. PICK g : IsFold(items, k, g)
    BY <1>2
  <2> DEFINE h == [s \in SUBSET (1..(k + 1)) |->
                      IF k + 1 \in s THEN g[s \ {k + 1}] + items[k + 1].w ELSE g[s]]
  <2>2. ASSUME NEW s \in SUBSET (1..(k + 1)), s # {}
        PROVE  h[s] = h[s \ {Max(s)}] + items[Max(s)].w
    <3>1. s \ {Max(s)} \in SUBSET (1..(k + 1))
      OBVIOUS
    <3>2. CASE k + 1 \in s
      <4>1. Max(s) = k + 1
        BY <3>2, MaxTop
      <4>2. k + 1 \notin s \ {Max(s)}
        BY <4>1
      <4> QED
        BY <3>1, <3>2, <4>1, <4>2
    <3>3. CASE k + 1 \notin s
      <4>1. \A x \in 1..(k + 1) : x # k + 1 => x \in 1..k
        OBVIOUS
      <4>2. s \in SUBSET (1..k)
        BY <3>3, <4>1
      <4>3. s \ {Max(s)} \in SUBSET (1..k)
        BY <4>2
      <4>4. g[s] = g[s \ {Max(s)}] + items[Max(s)].w
        BY <2>1, <2>2, <4>2 DEF IsFold
      <4>5. h[s] = g[s] /\ h[s \ {Max(s)}] = g[s \ {Max(s)}]
        BY <3>1, <3>3
      <4> QED
        BY <4>4, <4>5
    <3> QED
      BY <3>2, <3>3
  <2>3. h[{}] = 0
    BY <2>1 DEF IsFold
  <2>4. h = [s \in SUBSET (1..(k + 1)) |-> h[s]]
    OBVIOUS
  <2> HIDE DEF h
  <2>5. IsFold(items, k + 1, h)
    BY <2>2, <2>3, <2>4 DEF IsFold
  <2> QED
    BY <2>5
<1>3. n \in T
  <2> HIDE DEF T
  <2> QED
    BY <1>1, <1>2, Induction
<1> QED
  BY <1>3

(* So Bytes is its value for all indices.                                  *)
LEMMA BytesFold ==
  ASSUME NEW items \in Seq(Item)
  PROVE  \E f : IsFold(items, Len(items), f) /\ Bytes(items) = f[1..Len(items)]
<1> DEFINE G(g) == g = [s \in SUBSET DOMAIN items |->
                           IF s = {} THEN 0 ELSE g[s \ {Max(s)}] + items[Max(s)].w]
           iter == CHOOSE g : G(g)
<1>1. DOMAIN items = 1..Len(items) /\ Len(items) \in Nat
  OBVIOUS
<1>2. PICK f : IsFold(items, Len(items), f)
  BY <1>1, FoldExists
<1>3. G(f)
  BY <1>1, <1>2, Zenon DEF IsFold
<1>4. G(iter)
  <2> HIDE DEF G
  <2> QED
    BY <1>3, Zenon
<1>5. Bytes(items) = iter[DOMAIN items]
  BY Zenon DEF Bytes, FoldLeft, MapThenFoldSet
<1> HIDE DEF iter
<1>6. IsFold(items, Len(items), iter)
  BY <1>1, <1>4, Zenon DEF IsFold
<1> QED
  BY <1>1, <1>5, <1>6

(* g[k] adds up the widths of the first k of n items.                      *)
Sums(n, items, g) ==
    g[0] = 0 /\ \A k \in 1..n : g[k] = g[k - 1] + items[k].w

(* Bytes adds up the widths, from the first item to the last.              *)
LEMMA BytesSum ==
  ASSUME NEW items \in Seq(Item)
  PROVE  \E g \in [0..Len(items) -> Nat] :
            Sums(Len(items), items, g) /\ g[Len(items)] = Bytes(items)
<1> DEFINE n == Len(items)
<1>1. PICK f : IsFold(items, n, f) /\ Bytes(items) = f[1..n]
  BY BytesFold
<1>2. f[1..0] = 0
  BY <1>1 DEF IsFold
<1>3. ASSUME NEW k \in 1..n
      PROVE  f[1..k] = f[1..(k - 1)] + items[k].w
  <2>1. 1..k \in SUBSET (1..n) /\ k \in 1..k /\ (k - 1) + 1 = k /\ k - 1 \in Nat
    OBVIOUS
  <2>2. Max(1..k) = k
    <3>1. 1..k \in SUBSET (1..((k - 1) + 1)) /\ (k - 1) + 1 \in 1..k
      BY <2>1
    <3> QED
      BY <2>1, <3>1, MaxTop
  <2>3. (1..k) \ {k} = 1..(k - 1)
    OBVIOUS
  <2> QED
    BY <1>1, <2>1, <2>2, <2>3 DEF IsFold
<1> DEFINE T == {k \in Nat : k <= n => f[1..k] \in Nat}
           g == [k \in 0..n |-> f[1..k]]
<1>4. \A k \in 1..n : items[k].w \in Nat
  <2>1. \A k \in 1..n : items[k] \in Item
    BY ElementOfSeq
  <2> QED
    BY <2>1 DEF Item
<1>5. \A k \in Nat : k \in T
  <2>1. 0 \in T
    BY <1>2
  <2>2. ASSUME NEW k \in Nat, k \in T
        PROVE  k + 1 \in T
    <3> SUFFICES ASSUME k + 1 <= n
                 PROVE  f[1..(k + 1)] \in Nat
      OBVIOUS
    <3>1. f[1..k] \in Nat
      BY <2>2
    <3>2. k + 1 \in 1..n /\ (k + 1) - 1 = k
      OBVIOUS
    <3>3. f[1..(k + 1)] = f[1..k] + items[k + 1].w
      BY <1>3, <3>2
    <3> QED
      BY <1>4, <3>1, <3>2, <3>3
  <2> HIDE DEF T
  <2> QED
    BY <2>1, <2>2, Induction
<1>6. g \in [0..n -> Nat]
  BY <1>5
<1>7. g[0] = 0 /\ g[n] = Bytes(items)
  BY <1>1, <1>2
<1>8. \A k \in 1..n : g[k] = g[k - 1] + items[k].w
  BY <1>3
<1> QED
  BY <1>6, <1>7, <1>8 DEF Sums

(* There is one such sum only.                                             *)
LEMMA SumsAgree ==
  ASSUME NEW n \in Nat, NEW items, NEW g, NEW h, Sums(n, items, g), Sums(n, items, h)
  PROVE  g[n] = h[n]
<1> DEFINE T == {k \in Nat : k <= n => g[k] = h[k]}
<1>1. 0 \in T
  BY DEF Sums
<1>2. ASSUME NEW k \in Nat, k \in T
      PROVE  k + 1 \in T
  <2> SUFFICES ASSUME k + 1 <= n
               PROVE  g[k + 1] = h[k + 1]
    OBVIOUS
  <2>1. k + 1 \in 1..n /\ (k + 1) - 1 = k /\ g[k] = h[k]
    BY <1>2
  <2> QED
    BY <2>1 DEF Sums
<1>3. n \in T
  <2> HIDE DEF T
  <2> QED
    BY <1>1, <1>2, Induction
<1> QED
  BY <1>3

(* The bytes of no items, and of one item more.                            *)
LEMMA BytesEmpty == Bytes(<<>>) = 0
<1>1. <<>> \in Seq(Item) /\ Len(<<>>) = 0
  OBVIOUS
<1> QED
  BY <1>1, BytesSum DEF Sums

(* An item more makes a layout longer by its width.                        *)
LEMMA BytesAppend ==
  ASSUME NEW items \in Seq(Item), NEW x \in Item
  PROVE  /\ Bytes(items) \in Nat
         /\ Bytes(Append(items, x)) = Bytes(items) + x.w
<1> DEFINE n == Len(items)
           more == Append(items, x)
<1>1. PICK g \in [0..n -> Nat] : Sums(n, items, g) /\ g[n] = Bytes(items)
  BY BytesSum
<1>2. more \in Seq(Item) /\ Len(more) = n + 1 /\ more[n + 1] = x
      /\ \A k \in 1..n : more[k] = items[k]
  BY AppendProperties
<1> HIDE DEF more
<1>3. PICK h \in [0..Len(more) -> Nat] :
         Sums(Len(more), more, h) /\ h[Len(more)] = Bytes(more)
  BY <1>2, BytesSum
<1>4. n \in Nat /\ n \in 0..n /\ n + 1 \in 1..(n + 1) /\ (n + 1) - 1 = n
  OBVIOUS
<1>5. Sums(n, items, h) /\ h[n + 1] = h[n] + more[n + 1].w
  BY <1>2, <1>3, <1>4 DEF Sums
<1>6. g[n] = h[n]
  <2>1. n \in Nat
    OBVIOUS
  <2>2. Sums(n, items, g)
    BY <1>1
  <2>3. Sums(n, items, h)
    BY <1>5
  <2> HIDE DEF n
  <2> QED
    BY <2>1, <2>2, <2>3, SumsAgree
<1> QED
  BY <1>1, <1>2, <1>3, <1>4, <1>5, <1>6 DEF more

(* The bytes of two layouts, one after the other.                          *)
LEMMA BytesConcat ==
  ASSUME NEW a \in Seq(Item), NEW b \in Seq(Item)
  PROVE  Bytes(a \o b) = Bytes(a) + Bytes(b)
<1> DEFINE T == {n \in Nat : \A c \in Seq(Item) :
                                Len(c) = n => Bytes(a \o c) = Bytes(a) + Bytes(c)}
<1>1. 0 \in T
  <2> SUFFICES ASSUME NEW c \in Seq(Item), Len(c) = 0
               PROVE  Bytes(a \o c) = Bytes(a) + Bytes(c)
    OBVIOUS
  <2>1. c = <<>> /\ a \o c = a
    BY EmptySeq, ConcatEmptySeq
  <2>2. Bytes(a) \in Nat
    BY BytesSum
  <2> QED
    BY <2>1, <2>2, BytesEmpty
<1>2. ASSUME NEW n \in Nat, n \in T
      PROVE  n + 1 \in T
  <2> SUFFICES ASSUME NEW c \in Seq(Item), Len(c) = n + 1
               PROVE  Bytes(a \o c) = Bytes(a) + Bytes(c)
    OBVIOUS
  <2>1. PICK d \in Seq(Item), e \in Item : c = Append(d, e)
    <3>1. c # <<>>
      OBVIOUS
    <3> QED
      BY <3>1, SequenceEmptyOrAppend
  <2>2. Len(d) = n
    BY <2>1, AppendProperties
  <2>3. Bytes(a \o d) = Bytes(a) + Bytes(d)
    BY <1>2, <2>2
  <2>4. a \o d \in Seq(Item) /\ a \o c = Append(a \o d, e)
    BY <2>1
  <2>5. Bytes(a \o c) = Bytes(a \o d) + e.w /\ Bytes(c) = Bytes(d) + e.w
    BY <2>1, <2>4, BytesAppend
  <2>6. Bytes(a) \in Nat /\ Bytes(d) \in Nat /\ e.w \in Nat
    BY BytesAppend DEF Item
  <2> QED
    BY <2>3, <2>5, <2>6
<1>3. Len(b) \in T
  <2>1. Len(b) \in Nat
    OBVIOUS
  <2> HIDE DEF T
  <2> QED
    BY <1>1, <1>2, <2>1, Induction
<1> QED
  BY <1>3

(* A layout has a size, and one item has its width.                        *)
LEMMA BytesType ==
  ASSUME NEW items \in Seq(Item)
  PROVE  Bytes(items) \in Nat
<1>1. PICK g \in [0..Len(items) -> Nat] : g[Len(items)] = Bytes(items)
  BY BytesSum
<1> QED
  BY <1>1

(* A layout of one item is as long as the item.                            *)
LEMMA BytesOne ==
  ASSUME NEW x \in Item
  PROVE  <<x>> \in Seq(Item) /\ Bytes(<<x>>) = x.w
<1>1. <<>> \in Seq(Item) /\ <<x>> = Append(<<>>, x) /\ <<x>> \in Seq(Item)
  OBVIOUS
<1>2. x.w \in Nat
  BY DEF Item
<1>3. Bytes(Append(<<>>, x)) = Bytes(<<>>) + x.w
  BY <1>1, BytesAppend
<1> QED
  BY <1>1, <1>2, <1>3, BytesEmpty

-----------------------------------------------------------------------------
(* Where the items are.                                                    *)

(* An item x begins off bytes after the beginning of the layout.           *)
At(items, off, x) ==
    \E i \in DOMAIN items : items[i] = x /\ Offset(items, i) = off

(* A layout is what precedes an item, the item and what follows it.        *)
LEMMA Split ==
  ASSUME NEW items \in Seq(Item), NEW i \in 1..Len(items)
  PROVE  /\ SubSeq(items, 1, i - 1) \in Seq(Item)
         /\ SubSeq(items, i + 1, Len(items)) \in Seq(Item)
         /\ items[i] \in Item
         /\ items = (SubSeq(items, 1, i - 1) \o <<items[i]>>)
                      \o SubSeq(items, i + 1, Len(items))
<1> DEFINE n == Len(items)
           a == SubSeq(items, 1, i - 1)
           c == SubSeq(items, i + 1, n)
<1>1. n \in Nat /\ \A k \in 1..n : items[k] \in Item
  BY ElementOfSeq
<1>2. a \in Seq(Item) /\ c \in Seq(Item)
  <2>1. \A k \in 1..(i - 1) : items[k] \in Item
    BY <1>1
  <2>2. \A k \in (i + 1)..n : items[k] \in Item
    BY <1>1
  <2> QED
    BY <1>1, <2>1, <2>2, SubSeqProperties
<1>3. SubSeq(items, 1, i) = a \o <<items[i]>>
  <2>1. 1 \in 1..n /\ i \in 1..n
    OBVIOUS
  <2> QED
    BY <2>1, SubSeqRecursiveSecond
<1>4. SubSeq(items, 1, i) \o c = SubSeq(items, 1, n)
  <2>1. 1 \in 1..(n + 1) /\ i \in (1 - 1)..n /\ n \in i..n
    OBVIOUS
  <2> QED
    BY <2>1, ConcatAdjacentSubSeq
<1> QED
  BY <1>1, <1>2, <1>3, <1>4, SubSeqFull

(* It lies within the layout.                                              *)
LEMMA OffsetWithin ==
  ASSUME NEW items \in Seq(Item), NEW i \in 1..Len(items)
  PROVE  /\ Offset(items, i) \in Nat
         /\ Offset(items, i) + items[i].w <= Bytes(items)
<1> DEFINE a == SubSeq(items, 1, i - 1)
           c == SubSeq(items, i + 1, Len(items))
           b == <<items[i]>>
<1>1. a \in Seq(Item) /\ c \in Seq(Item) /\ items[i] \in Item /\ items = (a \o b) \o c
  BY Split
<1>2. b \in Seq(Item) /\ Bytes(b) = items[i].w
  BY <1>1, BytesOne
<1> HIDE DEF a, b, c
<1>3. a \o b \in Seq(Item)
  BY <1>1, <1>2
<1>4. Bytes(items) = (Bytes(a) + Bytes(b)) + Bytes(c)
  BY <1>1, <1>2, <1>3, BytesConcat
<1>5. Bytes(a) \in Nat /\ Bytes(b) \in Nat /\ Bytes(c) \in Nat
  BY <1>1, <1>2, BytesType
<1>6. Offset(items, i) = Bytes(a)
  BY DEF Offset, a
<1> QED
  BY <1>2, <1>4, <1>5, <1>6

(* A later item begins after the end of an earlier one.                    *)
LEMMA OffsetGrows ==
  ASSUME NEW items \in Seq(Item), NEW j \in 1..Len(items), NEW i \in 1..(j - 1)
  PROVE  Offset(items, i) + items[i].w <= Offset(items, j)
<1> DEFINE p == SubSeq(items, 1, j - 1)
<1>1. p \in Seq(Item)
  BY Split
<1>2. Len(p) = j - 1 /\ p[i] = items[i] /\ SubSeq(p, 1, i - 1) = SubSeq(items, 1, i - 1)
  OBVIOUS
<1>3. i \in 1..Len(p)
  BY <1>2
<1>4. Offset(p, i) = Offset(items, i) /\ Offset(items, j) = Bytes(p)
  BY <1>2 DEF Offset
<1> HIDE DEF p
<1> QED
  BY <1>1, <1>2, <1>3, <1>4, OffsetWithin

(* An item of a part is an item of the whole.                              *)
LEMMA AtLeft ==
  ASSUME NEW a \in Seq(Item), NEW b \in Seq(Item), NEW off, NEW x, At(a, off, x)
  PROVE  At(a \o b, off, x)
<1>1. PICK i \in DOMAIN a : a[i] = x /\ Offset(a, i) = off
  BY DEF At
<1>2. i \in 1..Len(a)
  OBVIOUS
<1>3. i \in DOMAIN (a \o b) /\ (a \o b)[i] = a[i]
  BY <1>2
<1>4. SubSeq(a \o b, 1, i - 1) = SubSeq(a, 1, i - 1)
  BY <1>2
<1> QED
  BY <1>1, <1>3, <1>4 DEF At, Offset

(* What is in the second of two layouts stands behind the whole of the     *)
(* first.                                                                  *)
LEMMA AtRight ==
  ASSUME NEW a \in Seq(Item), NEW b \in Seq(Item), NEW off, NEW x, At(b, off, x)
  PROVE  At(a \o b, Bytes(a) + off, x)
<1>1. PICK i \in DOMAIN b : b[i] = x /\ Offset(b, i) = off
  BY DEF At
<1>2. i \in 1..Len(b)
  OBVIOUS
<1> DEFINE j == Len(a) + i
           p == SubSeq(b, 1, i - 1)
<1>3. j \in DOMAIN (a \o b) /\ (a \o b)[j] = b[i]
  BY <1>2
<1>4. p \in Seq(Item)
  BY <1>2, Split
<1>5. SubSeq(a \o b, 1, j - 1) = a \o p
  <2>1. \A k \in 1..(j - 1) : (a \o b)[k] \in Item
    BY <1>2
  <2>2. /\ SubSeq(a \o b, 1, j - 1) \in Seq(Item) /\ Len(SubSeq(a \o b, 1, j - 1)) = j - 1
        /\ \A k \in 1..(j - 1) : SubSeq(a \o b, 1, j - 1)[k] = (a \o b)[k]
    BY <1>2, <2>1, SubSeqProperties
  <2>3. a \o p \in Seq(Item) /\ Len(a \o p) = j - 1
    BY <1>2, <1>4
  <2>4. \A k \in 1..(j - 1) : (a \o b)[k] = (a \o p)[k]
    BY <1>2, <1>4
  <2> QED
    BY <2>2, <2>3, <2>4, SeqEqual
<1>6. Bytes(a \o p) = Bytes(a) + Bytes(p)
  BY <1>4, BytesConcat
<1> QED
  BY <1>1, <1>3, <1>5, <1>6 DEF At, Offset

(* A layout of one item.                                                   *)
LEMMA AtOne ==
  ASSUME NEW x \in Item
  PROVE  At(<<x>>, 0, x)
<1>1. 1 \in DOMAIN <<x>> /\ <<x>>[1] = x /\ SubSeq(<<x>>, 1, 0) = <<>>
  OBVIOUS
<1>2. 1 - 1 = 0
  OBVIOUS
<1> QED
  BY <1>1, <1>2, BytesEmpty DEF At, Offset

(* Placed puts every number of the layout on the wire, where it is, ...    *)
LEMMA PlacedAt ==
  ASSUME NEW items \in Seq(Item), NEW o \in Nat, NEW off, NEW x,
         At(items, off, x), x.v >= 0
  PROVE  o + off \in DOMAIN Placed(items, o) /\ Placed(items, o)[o + off] = x
<1> DEFINE at == [i \in DOMAIN items |-> o + Offset(items, i)]
           numbers == {i \in DOMAIN items : items[i].v >= 0}
           y == o + off
<1>1. PICK i \in DOMAIN items : items[i] = x /\ Offset(items, i) = off
  BY DEF At
<1>2. i \in numbers /\ at[i] = y
  BY <1>1
<1>3. ASSUME NEW j \in numbers, at[j] = y
      PROVE  j = i
  <2>1. i \in 1..Len(items) /\ j \in 1..Len(items)
    OBVIOUS
  <2>2. /\ Offset(items, i) \in Nat /\ Offset(items, j) \in Nat
        /\ items[i].w \in Nat \ {0} /\ items[j].w \in Nat \ {0}
    <3>1. items[i] \in Item /\ items[j] \in Item
      BY <2>1, Split
    <3> QED
      BY <2>1, <3>1, OffsetWithin DEF Item
  <2>3. Offset(items, i) = Offset(items, j)
    BY <1>1, <1>3, <2>1, <2>2
  <2>4. CASE i < j
    <3>1. i \in 1..(j - 1)
      BY <2>1, <2>4
    <3> QED
      BY <2>1, <2>2, <2>3, <3>1, OffsetGrows
  <2>5. CASE j < i
    <3>1. j \in 1..(i - 1)
      BY <2>1, <2>5
    <3> QED
      BY <2>1, <2>2, <2>3, <3>1, OffsetGrows
  <2> QED
    BY <2>1, <2>4, <2>5
<1>4. (CHOOSE j \in numbers : at[j] = y) = i
  <2> HIDE DEF at, numbers, y
  <2> QED
    BY <1>2, <1>3, Zenon
<1>5. Placed(items, o) = [z \in {at[j] : j \in numbers} |->
                             items[CHOOSE j \in numbers : at[j] = z]]
  BY Zenon DEF Placed
<1>6. y \in {at[j] : j \in numbers}
  BY <1>2
<1> HIDE DEF at, numbers, y
<1>7. y \in DOMAIN Placed(items, o) /\ Placed(items, o)[y] = items[i]
  BY <1>4, <1>5, <1>6
<1> QED
  BY <1>1, <1>7 DEF y

(* ... and nothing outside of it.                                          *)
LEMMA PlacedWithin ==
  ASSUME NEW items \in Seq(Item), NEW o \in Nat, NEW y \in DOMAIN Placed(items, o)
  PROVE  y \in Nat /\ o <= y /\ y < o + Bytes(items)
<1>1. PICK i \in DOMAIN items : y = o + Offset(items, i)
  BY DEF Placed
<1>2. i \in 1..Len(items)
  OBVIOUS
<1>3. items[i].w \in Nat \ {0}
  BY <1>2, Split DEF Item
<1>4. Bytes(items) \in Nat
  BY BytesType
<1> QED
  BY <1>1, <1>2, <1>3, <1>4, OffsetWithin

-----------------------------------------------------------------------------
(* Layouts put together by FlattenSeq: the digits of the length, strings.  *)

(* What FlattenSeq computes its value with.                                *)
IsFlat(seqs, n, g) ==
    g = [i \in 1..n |-> IF i = 1 THEN seqs[i] ELSE g[i - 1] \o seqs[i]]

(* There is such a function, however many parts there are.                 *)
LEMMA FlatExists ==
  ASSUME NEW seqs, NEW n \in Nat
  PROVE  \E g : IsFlat(seqs, n, g)
<1> DEFINE T == {k \in Nat : \E g : IsFlat(seqs, k, g)}
<1>1. 0 \in T
  <2>1. IsFlat(seqs, 0, <<>>)
    BY DEF IsFlat
  <2> QED
    BY <2>1
<1>2. ASSUME NEW k \in Nat, k \in T
      PROVE  k + 1 \in T
  <2>1. PICK g : IsFlat(seqs, k, g)
    BY <1>2
  <2> DEFINE h == [i \in 1..(k + 1) |->
                      IF i = k + 1
                      THEN IF i = 1 THEN seqs[i] ELSE g[k] \o seqs[i]
                      ELSE g[i]]
  <2>2. ASSUME NEW i \in 1..(k + 1)
        PROVE  h[i] = IF i = 1 THEN seqs[i] ELSE h[i - 1] \o seqs[i]
    <3>1. CASE i = k + 1
      <4>1. i # 1 => i - 1 \in 1..(k + 1) /\ i - 1 # k + 1 /\ i - 1 = k
        BY <3>1
      <4> QED
        BY <3>1, <4>1
    <3>2. CASE i # k + 1
      <4>1. i \in 1..k
        BY <3>2
      <4>2. g[i] = IF i = 1 THEN seqs[i] ELSE g[i - 1] \o seqs[i]
        BY <2>1, <4>1 DEF IsFlat
      <4>3. i # 1 => i - 1 \in 1..(k + 1) /\ i - 1 # k + 1
        BY <4>1
      <4>4. h[i] = g[i] /\ (i # 1 => h[i - 1] = g[i - 1])
        BY <3>2, <4>3
      <4> QED
        BY <4>2, <4>4
    <3> QED
      BY <3>1, <3>2
  <2>3. h = [i \in 1..(k + 1) |-> h[i]]
    OBVIOUS
  <2> HIDE DEF h
  <2>4. IsFlat(seqs, k + 1, h)
    BY <2>2, <2>3, Zenon DEF IsFlat
  <2> QED
    BY <2>4
<1>3. n \in T
  <2> HIDE DEF T
  <2> QED
    BY <1>1, <1>2, Induction
<1> QED
  BY <1>3

(* So FlattenSeq puts the parts one after the other.                       *)
LEMMA FlattenFlat ==
  ASSUME NEW seqs, Len(seqs) \in Nat \ {0}
  PROVE  \E g : IsFlat(seqs, Len(seqs), g) /\ FlattenSeq(seqs) = g[Len(seqs)]
<1> DEFINE G(g) == g = [i \in 1..Len(seqs) |->
                           IF i = 1 THEN seqs[i] ELSE g[i - 1] \o seqs[i]]
           flatten == CHOOSE g : G(g)
<1>1. PICK f : IsFlat(seqs, Len(seqs), f)
  BY FlatExists
<1>2. G(f)
  BY <1>1, Zenon DEF IsFlat
<1>3. G(flatten)
  <2> HIDE DEF G
  <2> QED
    BY <1>2, Zenon
<1>4. FlattenSeq(seqs) = flatten[Len(seqs)]
  <2>1. Len(seqs) # 0
    OBVIOUS
  <2> QED
    BY <2>1, Zenon DEF FlattenSeq
<1> HIDE DEF flatten
<1>5. IsFlat(seqs, Len(seqs), flatten)
  BY <1>3, Zenon DEF IsFlat
<1> QED
  BY <1>4, <1>5

(* The items of the parts, when u has the sizes of the parts.              *)
LEMMA FlattenAt ==
  ASSUME NEW n \in Nat, NEW seqs \in [1..n -> Seq(Item)], NEW u \in [1..n -> Item],
         \A j \in 1..n : Bytes(seqs[j]) = u[j].w
  PROVE  /\ FlattenSeq(seqs) \in Seq(Item)
         /\ Bytes(FlattenSeq(seqs)) = Bytes(u)
         /\ \A j \in 1..n, off \in Nat, x \in Item :
               At(seqs[j], off, x) => At(FlattenSeq(seqs), Offset(u, j) + off, x)
<1>1. u \in Seq(Item) /\ Len(u) = n /\ Len(seqs) = n
  OBVIOUS
<1>2. CASE n = 0
  <2>1. seqs = <<>> /\ u = <<>>
    BY <1>2
  <2>2. FlattenSeq(seqs) = <<>>
    BY <1>1, <1>2, <2>1 DEF FlattenSeq
  <2>3. 1..n = {} /\ <<>> \in Seq(Item)
    BY <1>2
  <2> QED
    BY <2>1, <2>2, <2>3, Zenon
<1>3. CASE n # 0
  <2>1. PICK g : IsFlat(seqs, n, g) /\ FlattenSeq(seqs) = g[n]
    BY <1>1, <1>3, FlattenFlat
  <2> DEFINE P(k) == /\ g[k] \in Seq(Item)
                     /\ Bytes(g[k]) = Bytes(SubSeq(u, 1, k))
                     /\ \A j \in 1..k, off \in Nat, x \in Item :
                           At(seqs[j], off, x) => At(g[k], Offset(u, j) + off, x)
             T == {k \in Nat : k + 1 <= n => P(k + 1)}
  <2>2. P(1)
    <3>1. g[1] = seqs[1] /\ g[1] \in Seq(Item)
      BY <1>3, <2>1 DEF IsFlat
    <3>2. SubSeq(u, 1, 1) = <<u[1]>> /\ u[1] \in Item /\ SubSeq(u, 1, 0) = <<>>
      <4>1. 1 \in 1..Len(u) /\ 1 \in 1..n
        BY <1>1, <1>3
      <4>2. SubSeq(u, 1, 0) = <<>>
        BY SubSeqEmpty
      <4>3. SubSeq(u, 1, 1) = SubSeq(u, 1, 1 - 1) \o <<u[1]>>
        BY <1>1, <4>1, SubSeqRecursiveSecond
      <4>4. u[1] \in Item /\ <<>> \o <<u[1]>> = <<u[1]>> /\ 1 - 1 = 0
        BY <4>1
      <4> QED
        BY <4>2, <4>3, <4>4
    <3>3. Bytes(g[1]) = Bytes(SubSeq(u, 1, 1))
      <4>1. 1 \in 1..n
        BY <1>3
      <4>2. Bytes(seqs[1]) = u[1].w
        BY <4>1
      <4> QED
        BY <3>1, <3>2, <4>2, BytesOne
    <3>4. Offset(u, 1) = 0
      <4>1. 1 - 1 = 0
        OBVIOUS
      <4> QED
        BY <3>2, <4>1, BytesEmpty DEF Offset
    <3>5. \A j \in 1..1 : j = 1
      OBVIOUS
    <3>6. \A off \in Nat : 0 + off = off
      OBVIOUS
    <3> QED
      BY <3>1, <3>3, <3>4, <3>5, <3>6
  <2>3. ASSUME NEW k \in Nat \ {0}, k + 1 <= n, P(k)
        PROVE  P(k + 1)
    <3>1. g[k + 1] = g[k] \o seqs[k + 1] /\ seqs[k + 1] \in Seq(Item)
      <4>1. k + 1 \in 1..n /\ k + 1 # 1 /\ (k + 1) - 1 = k
        BY <2>3
      <4> QED
        BY <2>1, <4>1 DEF IsFlat
    <3>2. g[k + 1] \in Seq(Item)
      BY <2>3, <3>1
    <3>3. Offset(u, k + 1) = Bytes(g[k])
      <4>1. (k + 1) - 1 = k
        OBVIOUS
      <4> QED
        BY <2>3, <4>1 DEF Offset
    <3>4. Bytes(g[k + 1]) = Bytes(SubSeq(u, 1, k + 1))
      <4>1. SubSeq(u, 1, k + 1) = Append(SubSeq(u, 1, k), u[k + 1])
        BY <1>1, <2>3
      <4>2. SubSeq(u, 1, k) \in Seq(Item) /\ u[k + 1] \in Item
        BY <1>1, <2>3
      <4>3. Bytes(SubSeq(u, 1, k + 1)) = Bytes(SubSeq(u, 1, k)) + u[k + 1].w
        BY <4>1, <4>2, BytesAppend
      <4>4. Bytes(g[k + 1]) = Bytes(g[k]) + Bytes(seqs[k + 1])
        BY <2>3, <3>1, BytesConcat
      <4>5. k + 1 \in 1..n
        BY <2>3
      <4> QED
        BY <2>3, <4>3, <4>4, <4>5
    <3>5. ASSUME NEW j \in 1..(k + 1), NEW off \in Nat, NEW x \in Item,
                 At(seqs[j], off, x)
          PROVE  At(g[k + 1], Offset(u, j) + off, x)
      <4>1. CASE j = k + 1
        BY <2>3, <3>1, <3>3, <3>5, <4>1, AtRight
      <4>2. CASE j # k + 1
        <5>1. j \in 1..k
          BY <4>2
        <5>2. At(g[k], Offset(u, j) + off, x)
          BY <2>3, <3>5, <5>1
        <5> QED
          BY <2>3, <3>1, <5>2, AtLeft
      <4> QED
        BY <4>1, <4>2
    <3> QED
      BY <3>2, <3>4, <3>5
  <2> HIDE DEF P
  <2>4. 0 \in T
    BY <2>2
  <2>5. ASSUME NEW k \in Nat, k \in T
        PROVE  k + 1 \in T
    BY <2>3, <2>5
  <2>6. n - 1 \in T
    <3>1. n - 1 \in Nat
      BY <1>3
    <3> HIDE DEF T
    <3> QED
      BY <2>4, <2>5, <3>1, Induction
  <2>7. P(n)
    <3>1. (n - 1) + 1 = n
      OBVIOUS
    <3> QED
      BY <2>6, <3>1
  <2>8. SubSeq(u, 1, n) = u
    BY <1>1, SubSeqFull
  <2> QED
    BY <2>1, <2>7, <2>8 DEF P
<1> QED
  BY <1>2, <1>3

-----------------------------------------------------------------------------
(* What DelayWritePack lays out.                                           *)

(* A number, as an item.                                                   *)
Num(w, v) == [w |-> w, v |-> v]

(* What 16 bits hold of a number.                                          *)
LEMMA WrapFacts ==
  ASSUME NEW n \in Nat
  PROVE  Wrap(n) \in Nat /\ Wrap(n) <= n /\ (n <= MaxString => Wrap(n) = n)
BY SMT DEF Wrap, MaxString

(* The elements of a layout: numbers, content, strings.                    *)
LEMMA NumberLayout ==
  ASSUME NEW w \in Nat \ {0}, NEW v \in Nat
  PROVE  /\ Number(w, v) \in Seq(Item) /\ Bytes(Number(w, v)) = w
         /\ At(Number(w, v), 0, Num(w, v)) /\ Num(w, v) \in Item
<1>1. Num(w, v) \in Item /\ Num(w, v).w = w /\ Number(w, v) = <<Num(w, v)>>
  BY DEF Num, Item, Number
<1> QED
  BY <1>1, BytesOne, AtOne

(* Content of n bytes takes n bytes; no content is no item.                *)
LEMMA ContentLayout ==
  ASSUME NEW n \in Nat
  PROVE  Content(n) \in Seq(Item) /\ Bytes(Content(n)) = n
<1>1. CASE n = 0
  <2>1. Content(n) = <<>> /\ <<>> \in Seq(Item)
    BY <1>1 DEF Content
  <2> QED
    BY <1>1, <2>1, BytesEmpty
<1>2. CASE n # 0
  <2> DEFINE x == [w |-> n, v |-> -1]
  <2>1. Content(n) = <<x>>
    BY <1>2 DEF Content
  <2>2. x \in Item /\ x.w = n
    BY <1>2 DEF Item
  <2> HIDE DEF x
  <2> QED
    BY <2>1, <2>2, BytesOne
<1> QED
  BY <1>1, <1>2

(* A string takes two bytes more than its content, and begins with its     *)
(* length, as far as 16 bits hold it.                                      *)
LEMMA StringLayout ==
  ASSUME NEW n \in Nat
  PROVE  /\ WriteString(n) \in Seq(Item) /\ Bytes(WriteString(n)) = 2 + n
         /\ At(WriteString(n), 0, Num(2, Wrap(n))) /\ Num(2, Wrap(n)) \in Item
<1>1. Wrap(n) \in Nat /\ 2 \in Nat \ {0}
  BY WrapFacts
<1>2. /\ Number(2, Wrap(n)) \in Seq(Item) /\ Bytes(Number(2, Wrap(n))) = 2
      /\ At(Number(2, Wrap(n)), 0, Num(2, Wrap(n))) /\ Num(2, Wrap(n)) \in Item
  BY <1>1, NumberLayout
<1>3. Content(n) \in Seq(Item) /\ Bytes(Content(n)) = n
  BY ContentLayout
<1>4. WriteString(n) = Number(2, Wrap(n)) \o Content(n)
  BY DEF WriteString
<1>5. WriteString(n) \in Seq(Item)
  BY <1>2, <1>3, <1>4
<1> QED
  BY <1>2, <1>3, <1>4, <1>5, BytesConcat, AtLeft

(* Strings one after the other, each followed by e bytes: their sizes, and *)
(* the bytes of the first k of them.                                       *)
Entries(strs, e) == [j \in 1..Len(strs) |-> [w |-> 2 + e + strs[j], v |-> -1]]
Upto(strs, e, k) == Bytes(SubSeq(Entries(strs, e), 1, k))

(* The sizes of the strings are items of their own.                        *)
LEMMA EntriesType ==
  ASSUME NEW strs \in Seq(Nat), NEW e \in Nat
  PROVE  /\ Entries(strs, e) \in [1..Len(strs) -> Item]
         /\ Entries(strs, e) \in Seq(Item) /\ Len(Entries(strs, e)) = Len(strs)
         /\ \A j \in 1..Len(strs) : Entries(strs, e)[j].w = 2 + e + strs[j]
<1>1. \A j \in 1..Len(strs) : [w |-> 2 + e + strs[j], v |-> -1] \in Item
  BY DEF Item
<1>2. Entries(strs, e) \in [1..Len(strs) -> Item]
  BY <1>1 DEF Entries
<1>3. \A j \in 1..Len(strs) : Entries(strs, e)[j].w = 2 + e + strs[j]
  BY DEF Entries
<1> QED
  BY <1>2, <1>3

(* The strings, one by one.                                                *)
LEMMA UptoFacts ==
  ASSUME NEW strs \in Seq(Nat), NEW e \in Nat
  PROVE  /\ Upto(strs, e, 0) = 0
         /\ \A k \in 0..Len(strs) : Upto(strs, e, k) \in Nat
         /\ \A k \in 1..Len(strs) :
               /\ Upto(strs, e, k) = Upto(strs, e, k - 1) + (2 + e + strs[k])
               /\ Upto(strs, e, k) <= Upto(strs, e, Len(strs))
               /\ Offset(Entries(strs, e), k) = Upto(strs, e, k - 1)
         /\ Bytes(Entries(strs, e)) = Upto(strs, e, Len(strs))
<1> DEFINE u == Entries(strs, e)
           n == Len(strs)
<1>1. u \in Seq(Item) /\ Len(u) = n /\ \A j \in 1..n : u[j].w = 2 + e + strs[j]
  BY EntriesType
<1> HIDE DEF u
<1>2. SubSeq(u, 1, 0) = <<>> /\ SubSeq(u, 1, n) = u
  BY <1>1, SubSeqEmpty, SubSeqFull
<1>3. \A k \in 0..n : SubSeq(u, 1, k) \in Seq(Item)
  BY <1>1
<1>4. \A k \in 0..n : Upto(strs, e, k) \in Nat
  BY <1>3, BytesType DEF Upto, u
<1>5. ASSUME NEW k \in 1..n
      PROVE  /\ Upto(strs, e, k) = Upto(strs, e, k - 1) + (2 + e + strs[k])
             /\ Offset(u, k) = Upto(strs, e, k - 1)
             /\ Upto(strs, e, k) <= Upto(strs, e, n)
  <2>1. SubSeq(u, 1, k - 1) \in Seq(Item) /\ u[k] \in Item
    BY <1>1, Split
  <2>2. SubSeq(u, 1, k) = Append(SubSeq(u, 1, k - 1), u[k])
    BY <1>1, <2>1
  <2>3. Upto(strs, e, k) = Upto(strs, e, k - 1) + (2 + e + strs[k])
    BY <1>1, <2>1, <2>2, BytesAppend DEF Upto, u
  <2>4. Offset(u, k) = Upto(strs, e, k - 1)
    BY DEF Offset, Upto, u
  <2>5. Offset(u, k) + u[k].w <= Bytes(u)
    BY <1>1, OffsetWithin
  <2> QED
    BY <1>1, <1>2, <2>3, <2>4, <2>5 DEF Upto, u
<1> QED
  BY <1>2, <1>4, <1>5, BytesEmpty DEF Upto, u

(* Strings as they are laid out, each followed by e bytes.                 *)
Listed(strs, e) ==
    FlattenSeq([i \in 1..Len(strs) |-> WriteString(strs[i]) \o Content(e)])

(* A list of strings is as long as its strings together, and the length of *)
(* each stands behind the strings before it.                               *)
LEMMA ListLayout ==
  ASSUME NEW strs \in Seq(Nat), NEW e \in Nat
  PROVE  /\ Listed(strs, e) \in Seq(Item)
         /\ Bytes(Listed(strs, e)) = Upto(strs, e, Len(strs))
         /\ \A j \in 1..Len(strs) :
               At(Listed(strs, e), Upto(strs, e, j - 1), Num(2, Wrap(strs[j])))
<1> DEFINE n == Len(strs)
           items == Listed(strs, e)
           u == Entries(strs, e)
           part == [i \in 1..n |-> WriteString(strs[i]) \o Content(e)]
<1>1. ASSUME NEW j \in 1..n
      PROVE  /\ part[j] \in Seq(Item) /\ Bytes(part[j]) = 2 + e + strs[j]
             /\ At(part[j], 0, Num(2, Wrap(strs[j]))) /\ Num(2, Wrap(strs[j])) \in Item
  <2>1. strs[j] \in Nat
    OBVIOUS
  <2>2. /\ WriteString(strs[j]) \in Seq(Item) /\ Bytes(WriteString(strs[j])) = 2 + strs[j]
        /\ At(WriteString(strs[j]), 0, Num(2, Wrap(strs[j])))
        /\ Num(2, Wrap(strs[j])) \in Item
    BY <2>1, StringLayout
  <2>3. Content(e) \in Seq(Item) /\ Bytes(Content(e)) = e
    BY ContentLayout
  <2>4. part[j] = WriteString(strs[j]) \o Content(e)
    OBVIOUS
  <2> HIDE DEF part
  <2>5. part[j] \in Seq(Item)
    BY <2>2, <2>3, <2>4
  <2>6. Bytes(part[j]) = (2 + strs[j]) + e
    BY <2>2, <2>3, <2>4, BytesConcat
  <2>7. At(part[j], 0, Num(2, Wrap(strs[j])))
    BY <2>2, <2>3, <2>4, AtLeft
  <2>8. (2 + strs[j]) + e = 2 + e + strs[j]
    <3>1. \A m \in Nat : (2 + m) + e = 2 + e + m
      OBVIOUS
    <3> QED
      BY <2>1, <3>1, Zenon
  <2> QED
    BY <2>2, <2>5, <2>6, <2>7, <2>8
<1>2. u \in [1..n -> Item] /\ \A j \in 1..n : u[j].w = 2 + e + strs[j]
  BY EntriesType
<1>3. part \in [1..n -> Seq(Item)]
  BY <1>1
<1>4. \A j \in 1..n : Bytes(part[j]) = u[j].w
  BY <1>1, <1>2
<1>5. n \in Nat /\ items = FlattenSeq(part)
  BY DEF Listed
<1> HIDE DEF part, u, items
<1>6. /\ items \in Seq(Item) /\ Bytes(items) = Bytes(u)
      /\ \A j \in 1..n, off \in Nat, x \in Item :
            At(part[j], off, x) => At(items, Offset(u, j) + off, x)
  <2>1. /\ FlattenSeq(part) \in Seq(Item) /\ Bytes(FlattenSeq(part)) = Bytes(u)
        /\ \A j \in 1..n, off \in Nat, x \in Item :
              At(part[j], off, x) => At(FlattenSeq(part), Offset(u, j) + off, x)
    <3> HIDE DEF n
    <3> QED
      BY <1>2, <1>3, <1>4, <1>5, FlattenAt
  <2> QED
    BY <1>5, <2>1
<1>7. ASSUME NEW j \in 1..n
      PROVE  At(items, Upto(strs, e, j - 1), Num(2, Wrap(strs[j])))
  <2>1. At(items, Offset(u, j) + 0, Num(2, Wrap(strs[j])))
    BY <1>1, <1>6
  <2>2. Offset(u, j) = Upto(strs, e, j - 1) /\ Upto(strs, e, j - 1) \in Nat
    <3>1. j - 1 \in 0..n
      OBVIOUS
    <3> QED
      BY <3>1, UptoFacts DEF u
  <2>3. Offset(u, j) + 0 = Upto(strs, e, j - 1)
    BY <2>2
  <2> QED
    BY <2>1, <2>3
<1> QED
  BY <1>6, <1>7, UptoFacts DEF u, items

(* A pack, as the assumption on Packs has it.                              *)
LEMMA PackFields ==
  ASSUME NEW p \in Packs
  PROVE  /\ p.own \in BOOLEAN /\ p.type \in 0..15 /\ p.qos \in 0..3
         /\ p.flags \in 0..255 /\ p.strs \in Seq(Nat) /\ p.msg \in Nat
         /\ WellFormed(p)
BY PacksAssumption

(* What follows the first string of CONNECT.                               *)
Later(p) == Tail(p.strs)

(* CONNECT has the strings its flags announce, two at least, and all of    *)
(* them fit their 16 bits.                                                 *)
LEMMA LaterFacts ==
  ASSUME NEW p \in Packs, p.type = CONNECT
  PROVE  /\ Len(p.strs) \in Nat /\ Len(p.strs) >= 2 /\ p.strs[1] \in Nat
         /\ Later(p) \in Seq(Nat) /\ Len(Later(p)) = Len(p.strs) - 1
         /\ \A j \in 1..(Len(p.strs) - 1) : Later(p)[j] = p.strs[j + 1]
         /\ \A j \in 1..Len(p.strs) : p.strs[j] \in Nat /\ Wrap(p.strs[j]) = p.strs[j]
         /\ Head(p.strs) = p.strs[1]
         /\ Len(p.strs) = Announced(p.flags) /\ ~p.own
<1>1. p.strs \in Seq(Nat) /\ p.flags \in 0..255 /\ WellFormed(p)
  BY PackFields
<1>2. ~p.own
  BY <1>1 DEF WellFormed, OwnTypes, CONNECT, CONNACK, PUBLISH, SUBACK, PINGRESP, Acks,
              Lists, SUBSCRIBE, UNSUBSCRIBE
<1>3. Len(p.strs) = Announced(p.flags) /\ \A i \in DOMAIN p.strs : p.strs[i] <= MaxString
  BY <1>1, <1>2 DEF WellFormed
<1>4. Announced(p.flags) \in Nat /\ Announced(p.flags) >= 2
  BY DEF Announced
<1>5. p.strs # <<>> /\ \A j \in 1..Len(p.strs) : p.strs[j] \in Nat
  BY <1>1, <1>3, <1>4
<1>6. \A j \in 1..Len(p.strs) : Wrap(p.strs[j]) = p.strs[j]
  <2>1. \A j \in 1..Len(p.strs) : p.strs[j] <= MaxString
    BY <1>1, <1>3
  <2> QED
    BY <1>5, <2>1, WrapFacts
<1>7. /\ Later(p) \in Seq(Nat) /\ Len(Later(p)) = Len(p.strs) - 1
      /\ \A j \in 1..Len(Later(p)) : Later(p)[j] = p.strs[j + 1]
  BY <1>1, <1>5, HeadTailProperties DEF Later
<1>8. Head(p.strs) = p.strs[1]
  BY <1>1, <1>5
<1> QED
  BY <1>2, <1>3, <1>4, <1>5, <1>6, <1>7, <1>8

(* The body of CONNECT: where the length of each string and the flags are. *)
LEMMA BodyConnect ==
  ASSUME NEW p \in Packs, p.type = CONNECT
  PROVE  LET n == p.strs[1]  t == Later(p) IN
         /\ Body(p) \in Seq(Item) /\ Bytes(Body(p)) = 6 + n + Upto(t, 0, Len(t))
         /\ At(Body(p), 0, Num(2, n))
         /\ At(Body(p), 3 + n, Num(1, p.flags))
         /\ \A j \in 1..Len(t) : At(Body(p), 6 + n + Upto(t, 0, j - 1), Num(2, t[j]))
<1> DEFINE n == p.strs[1]
           t == Later(p)
           a1 == WriteString(n)
           a2 == a1 \o Content(1)
           a3 == a2 \o Number(1, p.flags)
           a4 == a3 \o Content(2)
           a5 == a4 \o Listed(t, 0)
<1>1. /\ n \in Nat /\ t \in Seq(Nat) /\ Head(p.strs) = n /\ Wrap(n) = n
      /\ Len(t) = Len(p.strs) - 1 /\ \A j \in 1..Len(t) : t[j] \in Nat /\ Wrap(t[j]) = t[j]
      /\ \A j \in 1..(Len(p.strs) - 1) : t[j] = p.strs[j + 1]
  <2>1. 1 \in 1..Len(p.strs)
    BY LaterFacts
  <2>2. \A j \in 1..Len(t) : j + 1 \in 1..Len(p.strs) /\ t[j] = p.strs[j + 1]
    BY LaterFacts
  <2> QED
    BY <2>1, <2>2, LaterFacts
<1>2. Body(p) = a5
  <2>1. [i \in 1..(Len(p.strs) - 1) |-> WriteString(p.strs[i + 1])]
          = [i \in 1..Len(t) |-> WriteString(t[i]) \o Content(0)]
    <3>1. ASSUME NEW i \in 1..Len(t)
          PROVE  WriteString(t[i]) \o Content(0) = WriteString(p.strs[i + 1])
      <4>1. t[i] \in Nat /\ t[i] = p.strs[i + 1]
        BY <1>1
      <4>2. WriteString(t[i]) \in Seq(Item)
        BY <4>1, StringLayout
      <4>3. Content(0) = <<>>
        BY DEF Content
      <4> QED
        BY <4>1, <4>2, <4>3, ConcatEmptySeq
    <3>2. Len(p.strs) - 1 = Len(t)
      BY <1>1
    <3> QED
      BY <3>1, <3>2
  <2>2. FlattenSeq([i \in 1..(Len(p.strs) - 1) |-> WriteString(p.strs[i + 1])])
          = Listed(t, 0)
    BY <2>1, Zenon DEF Listed
  <2>3. Body(p) = WriteString(Head(p.strs)) \o Content(1) \o Number(1, p.flags)
                    \o Content(2) \o FlattenSeq([i \in 1..(Len(p.strs) - 1) |->
                                                    WriteString(p.strs[i + 1])])
    <3>1. /\ p.type # CONNACK /\ p.type # PUBLISH /\ p.type \notin Acks
          /\ p.type # SUBSCRIBE /\ p.type # SUBACK /\ p.type # UNSUBSCRIBE
      BY DEF CONNECT, CONNACK, PUBLISH, Acks, SUBSCRIBE, SUBACK, UNSUBSCRIBE
    <3> QED
      BY <3>1, Zenon DEF Body
  <2> QED
    BY <1>1, <2>2, <2>3, Zenon
<1>3. p.flags \in Nat
  <2>1. p.flags \in 0..255
    BY PackFields
  <2> QED
    BY <2>1
<1>4. /\ a1 \in Seq(Item) /\ Bytes(a1) = 2 + n /\ At(a1, 0, Num(2, n))
      /\ Content(1) \in Seq(Item) /\ Bytes(Content(1)) = 1
      /\ Content(2) \in Seq(Item) /\ Bytes(Content(2)) = 2
      /\ Number(1, p.flags) \in Seq(Item) /\ Bytes(Number(1, p.flags)) = 1
      /\ At(Number(1, p.flags), 0, Num(1, p.flags))
  <2>1. a1 \in Seq(Item) /\ Bytes(a1) = 2 + n /\ At(a1, 0, Num(2, n))
    BY <1>1, StringLayout
  <2>2. /\ Content(1) \in Seq(Item) /\ Bytes(Content(1)) = 1
        /\ Content(2) \in Seq(Item) /\ Bytes(Content(2)) = 2
    BY ContentLayout
  <2>3. 1 \in Nat \ {0}
    OBVIOUS
  <2>4. /\ Number(1, p.flags) \in Seq(Item) /\ Bytes(Number(1, p.flags)) = 1
        /\ At(Number(1, p.flags), 0, Num(1, p.flags))
    BY <1>3, <2>3, NumberLayout
  <2> QED
    BY <2>1, <2>2, <2>4
<1>5. /\ Listed(t, 0) \in Seq(Item) /\ Bytes(Listed(t, 0)) = Upto(t, 0, Len(t))
      /\ \A j \in 1..Len(t) : At(Listed(t, 0), Upto(t, 0, j - 1), Num(2, t[j]))
  BY <1>1, ListLayout
<1> HIDE DEF a1, n, t
<1>6. a2 \in Seq(Item) /\ Bytes(a2) = 3 + n /\ At(a2, 0, Num(2, n))
  <2>1. a2 \in Seq(Item)
    BY <1>4
  <2>2. Bytes(a2) = (2 + n) + 1
    BY <1>4, BytesConcat
  <2>3. At(a2, 0, Num(2, n))
    BY <1>4, AtLeft
  <2> QED
    BY <1>1, <2>1, <2>2, <2>3
<1> HIDE DEF a2
<1>7. /\ a3 \in Seq(Item) /\ Bytes(a3) = 4 + n /\ At(a3, 0, Num(2, n))
      /\ At(a3, 3 + n, Num(1, p.flags))
  <2>1. a3 \in Seq(Item)
    BY <1>4, <1>6
  <2>2. Bytes(a3) = (3 + n) + 1
    BY <1>4, <1>6, BytesConcat
  <2>3. At(a3, 0, Num(2, n))
    BY <1>4, <1>6, AtLeft
  <2>4. At(a3, (3 + n) + 0, Num(1, p.flags))
    BY <1>4, <1>6, AtRight
  <2>5. (3 + n) + 0 = 3 + n /\ (3 + n) + 1 = 4 + n
    BY <1>1
  <2> QED
    BY <2>1, <2>2, <2>3, <2>4, <2>5
<1> HIDE DEF a3
<1>8. /\ a4 \in Seq(Item) /\ Bytes(a4) = 6 + n /\ At(a4, 0, Num(2, n))
      /\ At(a4, 3 + n, Num(1, p.flags))
  <2>1. a4 \in Seq(Item)
    BY <1>4, <1>7
  <2>2. Bytes(a4) = (4 + n) + 2
    BY <1>4, <1>7, BytesConcat
  <2>3. At(a4, 0, Num(2, n)) /\ At(a4, 3 + n, Num(1, p.flags))
    BY <1>4, <1>7, AtLeft
  <2>4. (4 + n) + 2 = 6 + n
    BY <1>1
  <2> QED
    BY <2>1, <2>2, <2>3, <2>4
<1> HIDE DEF a4
<1>9. /\ a5 \in Seq(Item) /\ Bytes(a5) = 6 + n + Upto(t, 0, Len(t))
      /\ At(a5, 0, Num(2, n)) /\ At(a5, 3 + n, Num(1, p.flags))
      /\ \A j \in 1..Len(t) : At(a5, 6 + n + Upto(t, 0, j - 1), Num(2, t[j]))
  <2>1. a5 \in Seq(Item)
    BY <1>5, <1>8
  <2>2. Bytes(a5) = 6 + n + Upto(t, 0, Len(t))
    BY <1>5, <1>8, BytesConcat
  <2>3. At(a5, 0, Num(2, n)) /\ At(a5, 3 + n, Num(1, p.flags))
    BY <1>5, <1>8, AtLeft
  <2>4. \A j \in 1..Len(t) : At(a5, 6 + n + Upto(t, 0, j - 1), Num(2, t[j]))
    BY <1>5, <1>8, AtRight
  <2> QED
    BY <2>1, <2>2, <2>3, <2>4
<1> HIDE DEF a5
<1> QED
  BY <1>2, <1>9 DEF n, t

(* The body of PUBLISH: the topic first, then the identifier, if there is  *)
(* one, and the message.                                                   *)
LEMMA BodyPublish ==
  ASSUME NEW p \in Packs, p.type = PUBLISH
  PROVE  /\ Body(p) \in Seq(Item) /\ p.strs[1] \in Nat /\ p.strs = <<p.strs[1]>>
         /\ Bytes(Body(p)) = 2 + p.strs[1] + (IF p.qos > 0 THEN 2 ELSE 0) + p.msg
         /\ At(Body(p), 0, Num(2, Wrap(p.strs[1])))
<1> DEFINE n == p.strs[1]
           a1 == WriteString(n)
           mid == IF p.qos > 0 THEN Mid ELSE <<>>
           a2 == a1 \o mid
           a3 == a2 \o Content(p.msg)
<1>1. n \in Nat /\ p.msg \in Nat /\ p.strs = <<n>>
  <2>1. p.strs \in Seq(Nat) /\ p.msg \in Nat /\ WellFormed(p)
    BY PackFields
  <2>2. Len(p.strs) = 1
    BY <2>1 DEF WellFormed
  <2> QED
    BY <2>1, <2>2
<1>2. Body(p) = a3
  <2>1. /\ p.type # CONNACK /\ p.type # CONNECT /\ p.type \notin Acks
        /\ p.type # SUBSCRIBE /\ p.type # SUBACK /\ p.type # UNSUBSCRIBE
    BY DEF CONNECT, CONNACK, PUBLISH, Acks, SUBSCRIBE, SUBACK, UNSUBSCRIBE
  <2> QED
    BY <2>1, Zenon DEF Body
<1>3. a1 \in Seq(Item) /\ Bytes(a1) = 2 + n /\ At(a1, 0, Num(2, Wrap(n)))
  BY <1>1, StringLayout
<1>4. mid \in Seq(Item) /\ Bytes(mid) = (IF p.qos > 0 THEN 2 ELSE 0)
  <2>1. Mid \in Seq(Item) /\ Bytes(Mid) = 2
    BY ContentLayout DEF Mid
  <2>2. <<>> \in Seq(Item) /\ Bytes(<<>>) = 0
    BY BytesEmpty
  <2> QED
    BY <2>1, <2>2
<1>5. Content(p.msg) \in Seq(Item) /\ Bytes(Content(p.msg)) = p.msg
  BY <1>1, ContentLayout
<1> HIDE DEF a1, mid, n
<1>6. a2 \in Seq(Item) /\ Bytes(a2) = (2 + n) + Bytes(mid) /\ At(a2, 0, Num(2, Wrap(n)))
  BY <1>3, <1>4, BytesConcat, AtLeft
<1> HIDE DEF a2
<1>7. a3 \in Seq(Item) /\ Bytes(a3) = ((2 + n) + Bytes(mid)) + p.msg
      /\ At(a3, 0, Num(2, Wrap(n)))
  BY <1>5, <1>6, BytesConcat, AtLeft
<1> HIDE DEF a3
<1> QED
  BY <1>1, <1>2, <1>4, <1>7 DEF n

(* The bytes after each string of a list.                                  *)
Extra(p) == IF p.type = SUBSCRIBE THEN 1 ELSE 0

(* The body of SUBSCRIBE and of UNSUBSCRIBE: the identifier, then the      *)
(* topics one behind the other.                                            *)
LEMMA BodyList ==
  ASSUME NEW p \in Packs, p.type \in Lists
  PROVE  /\ Body(p) \in Seq(Item)
         /\ Bytes(Body(p)) = 2 + Upto(p.strs, Extra(p), Len(p.strs))
         /\ \A j \in 1..Len(p.strs) :
               At(Body(p), 2 + Upto(p.strs, Extra(p), j - 1), Num(2, Wrap(p.strs[j])))
<1> DEFINE items == Listed(p.strs, Extra(p))
<1>1. p.strs \in Seq(Nat) /\ Extra(p) \in Nat
  BY PackFields DEF Extra
<1>2. DOMAIN p.strs = 1..Len(p.strs)
  BY <1>1
<1>3. Body(p) = Mid \o items
  <2>1. /\ p.type # CONNACK /\ p.type # CONNECT /\ p.type \notin Acks
        /\ p.type # PUBLISH /\ p.type # SUBACK /\ SUBSCRIBE # UNSUBSCRIBE
        /\ p.type = SUBSCRIBE \/ p.type = UNSUBSCRIBE
    BY DEF CONNECT, CONNACK, PUBLISH, Acks, SUBSCRIBE, SUBACK, UNSUBSCRIBE, Lists
  <2>2. CASE p.type = SUBSCRIBE
    <3>1. Body(p) = Mid \o FlattenSeq([i \in DOMAIN p.strs |->
                                          WriteString(p.strs[i]) \o Content(1)])
      BY <2>1, <2>2, Zenon DEF Body
    <3>2. Extra(p) = 1
      BY <2>2 DEF Extra
    <3> QED
      BY <1>2, <3>1, <3>2, Zenon DEF Listed
  <2>3. CASE p.type = UNSUBSCRIBE
    <3>1. Body(p) = Mid \o FlattenSeq([i \in DOMAIN p.strs |-> WriteString(p.strs[i])])
      BY <2>1, <2>3, Zenon DEF Body
    <3>2. Extra(p) = 0
      BY <2>1, <2>3 DEF Extra
    <3>3. ASSUME NEW i \in 1..Len(p.strs)
          PROVE  WriteString(p.strs[i]) \o Content(0) = WriteString(p.strs[i])
      <4>1. p.strs[i] \in Nat
        BY <1>1
      <4>2. WriteString(p.strs[i]) \in Seq(Item)
        BY <4>1, StringLayout
      <4>3. Content(0) = <<>>
        BY DEF Content
      <4> QED
        BY <4>2, <4>3, ConcatEmptySeq
    <3>4. [i \in DOMAIN p.strs |-> WriteString(p.strs[i])]
            = [i \in 1..Len(p.strs) |-> WriteString(p.strs[i]) \o Content(0)]
      BY <1>2, <3>3
    <3> QED
      BY <3>1, <3>2, <3>4, Zenon DEF Listed
  <2> QED
    BY <2>1, <2>2, <2>3
<1>4. Mid \in Seq(Item) /\ Bytes(Mid) = 2
  BY ContentLayout DEF Mid
<1>5. /\ items \in Seq(Item)
      /\ Bytes(items) = Upto(p.strs, Extra(p), Len(p.strs))
      /\ \A j \in 1..Len(p.strs) :
            At(items, Upto(p.strs, Extra(p), j - 1), Num(2, Wrap(p.strs[j])))
  BY <1>1, ListLayout
<1> HIDE DEF items
<1>6. Mid \o items \in Seq(Item)
  BY <1>4, <1>5
<1>7. Bytes(Mid \o items) = 2 + Upto(p.strs, Extra(p), Len(p.strs))
  BY <1>4, <1>5, BytesConcat
<1>8. \A j \in 1..Len(p.strs) :
         At(Mid \o items, 2 + Upto(p.strs, Extra(p), j - 1), Num(2, Wrap(p.strs[j])))
  BY <1>4, <1>5, AtRight
<1> QED
  BY <1>3, <1>6, <1>7, <1>8

(* The packs without strings.                                              *)
Plain(p) == p.type \notin {CONNECT, PUBLISH} \cup Lists
PlainBytes(type) ==
    IF type = SUBACK THEN 3 ELSE IF type \in Acks \cup {CONNACK} THEN 2 ELSE 0

(* The bodies of the other packs, by their sizes.                          *)
LEMMA BodyPlain ==
  ASSUME NEW p \in Packs, Plain(p)
  PROVE  Body(p) \in Seq(Item) /\ Bytes(Body(p)) = PlainBytes(p.type)
<1>1. Mid = Content(2) /\ Content(2) \in Seq(Item) /\ Bytes(Content(2)) = 2
  BY ContentLayout DEF Mid
<1>2. Content(1) \in Seq(Item) /\ Bytes(Content(1)) = 1
  BY ContentLayout
<1>3. Mid \o Content(1) \in Seq(Item) /\ Bytes(Mid \o Content(1)) = 3
  BY <1>1, <1>2, BytesConcat
<1>4. <<>> \in Seq(Item) /\ Bytes(<<>>) = 0
  BY BytesEmpty
<1>5. /\ p.type # CONNECT /\ p.type # PUBLISH /\ p.type # SUBSCRIBE
      /\ p.type # UNSUBSCRIBE
  BY DEF Plain, Lists
<1>6. CASE p.type = CONNACK
  <2>1. p.type \notin Acks /\ p.type # SUBACK
    BY <1>6 DEF CONNACK, Acks, SUBACK
  <2>2. Body(p) = Content(2)
    BY <1>5, <1>6, <2>1, Zenon DEF Body
  <2> QED
    BY <1>1, <1>6, <2>1, <2>2 DEF PlainBytes
<1>7. CASE p.type \in Acks
  <2>1. p.type # CONNACK /\ p.type # SUBACK
    BY <1>7 DEF CONNACK, Acks, SUBACK
  <2>2. Body(p) = Mid
    BY <1>5, <1>7, <2>1, Zenon DEF Body
  <2> QED
    BY <1>1, <1>7, <2>1, <2>2 DEF PlainBytes
<1>8. CASE p.type = SUBACK
  <2>1. p.type # CONNACK /\ p.type \notin Acks
    BY <1>8 DEF CONNACK, Acks, SUBACK
  <2>2. Body(p) = Mid \o Content(1)
    BY <1>5, <1>8, <2>1, Zenon DEF Body
  <2> QED
    BY <1>3, <1>8, <2>1, <2>2 DEF PlainBytes
<1>9. CASE p.type # CONNACK /\ p.type \notin Acks /\ p.type # SUBACK
  <2>1. Body(p) = <<>>
    BY <1>5, <1>9, Zenon DEF Body
  <2> QED
    BY <1>4, <1>9, <2>1 DEF PlainBytes
<1> QED
  BY <1>6, <1>7, <1>8, <1>9

(* The length a pack declares is that of its body, but for a list of       *)
(* topics the gate lays out.                                               *)
LEMMA DeclaredFacts ==
  ASSUME NEW p \in Packs
  PROVE  /\ Body(p) \in Seq(Item) /\ Bytes(Body(p)) \in Nat /\ Declared(p) \in Nat
         /\ Bytes(Body(p)) = Declared(p) + (IF p.own /\ p.type \in Lists THEN 2 ELSE 0)
<1>1. Body(p) \in Seq(Item)
  BY BodyConnect, BodyPublish, BodyList, BodyPlain DEF Plain
<1>2. Bytes(Body(p)) \in Nat
  BY <1>1, BytesType
<1>3. p.type \in Lists => Bytes(Body(p)) >= 2
  <2> SUFFICES ASSUME p.type \in Lists
               PROVE  Bytes(Body(p)) >= 2
    OBVIOUS
  <2>1. p.strs \in Seq(Nat) /\ Extra(p) \in Nat /\ Len(p.strs) \in 0..Len(p.strs)
    BY PackFields DEF Extra
  <2>2. Upto(p.strs, Extra(p), Len(p.strs)) \in Nat
    BY <2>1, UptoFacts
  <2> QED
    BY <2>2, BodyList
<1> QED
  BY <1>1, <1>2, <1>3 DEF Declared

(* What is added up after i digits.                                        *)
Partial(d, i) ==
    (IF i >= 1 THEN d[1] % 128 ELSE 0) + (IF i >= 2 THEN (d[2] % 128) * 128 ELSE 0)
      + (IF i >= 3 THEN (d[3] % 128) * 16384 ELSE 0)

(* The digits of a length: a sequence, which is one digit below 128 and    *)
(* which is read as it was written below 2^21.                             *)
LEMMA DigitsOf ==
  ASSUME NEW n \in Nat, n < 268435456
  PROVE  /\ GetRemainingLength(n) \in Seq(0..255)
         /\ Len(GetRemainingLength(n)) \in 1..4
         /\ n < 128 => Len(GetRemainingLength(n)) = 1
         /\ n < 2097152 =>
              /\ Len(GetRemainingLength(n)) \in 1..3
              /\ \A i \in 1..Len(GetRemainingLength(n)) :
                    MoreDigits(GetRemainingLength(n)[i], i + 1)
                      <=> i < Len(GetRemainingLength(n))
              /\ Partial(GetRemainingLength(n), Len(GetRemainingLength(n))) = n
<1> DEFINE g == GetRemainingLength(n)
<1>2. PICK k \in 1..4 :
         /\ n < 128 ^ k /\ (k > 1 => n >= 128 ^ (k - 1))
         /\ g = [i \in 1..k |-> ((n \div 128 ^ (i - 1)) % 128)
                                   + (IF i < k THEN 128 ELSE 0)]
  BY Count, Digits, SMT
<1>3. n < 128 => k = 1
  <2>1. 2 - 1 = 1 /\ 3 - 1 = 2 /\ 4 - 1 = 3
    BY SMT
  <2>2. CASE k = 2
    BY <1>2, <2>1, <2>2, Weights, SMT
  <2>3. CASE k = 3
    BY <1>2, <2>1, <2>3, Weights, SMT
  <2>4. CASE k = 4
    BY <1>2, <2>1, <2>4, Weights, SMT
  <2> QED
    BY <2>2, <2>3, <2>4, SMT
<1>4. /\ Len(g) \in 1..4 /\ \A i \in 1..Len(g) : g[i] \in 0..255
      /\ \A i \in 1..Len(g) : MoreDigits(g[i], i + 1) <=> i < Len(g) /\ i < 3
      /\ Len(g) = 4 <=> n >= 2097152
      /\ n < 2097152 => ReadDigits(g) = n
  BY LengthReadBack, SMT
<1>5. DOMAIN g = 1..k /\ g = [i \in 1..k |-> g[i]]
  BY <1>2, SMT
<1> HIDE DEF g
<1>6. Len(g) = k
  BY <1>5, SMT
<1>7. g \in Seq(0..255)
  <2>1. \A i \in 1..k : g[i] \in 0..255
    BY <1>4, <1>6, SMT
  <2>3. g \in [1..k -> 0..255]
    BY <1>5, <2>1, SMT
  <2>2. k \in Nat
    BY SMT
  <2> QED
    BY <2>2, <2>3, SMT
<1>8. ASSUME n < 2097152
      PROVE  /\ Len(g) \in 1..3
             /\ \A i \in 1..Len(g) : MoreDigits(g[i], i + 1) <=> i < Len(g)
             /\ Partial(g, Len(g)) = n
  <2>2. Len(g) \in 1..3
    BY <1>4, <1>8, SMT
  <2>3. \A i \in 1..k : i < k => i < 3
    BY <1>6, <2>2, SMT
  <2>4. \A i \in 1..Len(g) : MoreDigits(g[i], i + 1) <=> i < Len(g)
    BY <1>4, <1>6, <2>3, SMT
  <2>5. Partial(g, Len(g)) = ReadDigits(g)
    BY <2>2, SMT DEF Partial, ReadDigits
  <2> QED
    BY <1>4, <1>8, <2>2, <2>4, <2>5, SMT
<1> QED
  BY <1>3, <1>4, <1>6, <1>7, <1>8, SMT DEF g

(* The digits before the body of a pack; they tell its length, if the      *)
(* reader can delimit it.                                                  *)
LEMMA PackDigits ==
  ASSUME NEW p \in Packs
  PROVE  /\ LengthDigits(p) \in Seq(0..255) /\ Len(LengthDigits(p)) \in Nat \ {0}
         /\ Framed(p) =>
              /\ Len(LengthDigits(p)) \in 1..3
              /\ \A i \in 1..Len(LengthDigits(p)) :
                    MoreDigits(LengthDigits(p)[i], i + 1) <=> i < Len(LengthDigits(p))
              /\ Partial(LengthDigits(p), Len(LengthDigits(p))) = Declared(p)
<1> DEFINE n == Declared(p)
           g == GetRemainingLength(n)
           d == LengthDigits(p)
<1>1. n \in Nat
  BY DeclaredFacts
<1>2. n < 268435456
  <2>1. n < 128 ^ 4
    BY PackFields DEF WellFormed
  <2> QED
    BY <2>1, Weights, SMT
<1>3. Framed(p) => n < 2097152
  <2>1. Framed(p) => n < 128 ^ 3
    BY DEF Framed
  <2> QED
    BY <2>1, Weights, SMT
<1> HIDE DEF n
<1>4. /\ g \in Seq(0..255) /\ Len(g) \in 1..4
      /\ n < 128 => Len(g) = 1
      /\ Framed(p) => /\ Len(g) \in 1..3
                      /\ \A i \in 1..Len(g) : MoreDigits(g[i], i + 1) <=> i < Len(g)
                      /\ Partial(g, Len(g)) = n
  BY <1>1, <1>2, <1>3, DigitsOf, SMT
<1>5. d = IF p.own /\ p.type # PUBLISH THEN SubSeq(g, 1, 1) ELSE g
  BY DEF LengthDigits, n
<1> HIDE DEF g
<1>6. SubSeq(g, 1, 1) \in Seq(0..255) /\ Len(SubSeq(g, 1, 1)) = 1
  <2>1. PICK c \in 1..4 : c = Len(g)
    BY <1>4, Zenon
  <2>2. g[1] \in 0..255
    <3>1. 1 \in 1..c
      BY <2>1
    <3> QED
      BY <1>4, <2>1, <3>1, ElementOfSeq, Zenon
  <2>3. \A i \in 1..1 : g[i] \in 0..255
    BY <2>2
  <2> QED
    BY <2>3, SubSeqProperties
<1>7. d \in Seq(0..255) /\ Len(d) \in Nat \ {0}
  BY <1>4, <1>5, <1>6
<1>8. ASSUME Framed(p)
      PROVE  d = g
  <2> SUFFICES ASSUME p.own, p.type # PUBLISH
               PROVE  SubSeq(g, 1, 1) = g
    BY <1>5
  <2>1. n < 128
    <3>1. CASE p.type \in Lists
      BY <1>8, <3>1 DEF Framed, n
    <3>2. CASE p.type \notin Lists
      <4>1. p.type # CONNECT
        BY LaterFacts
      <4>2. Plain(p)
        BY <3>2, <4>1 DEF Plain
      <4>3. PlainBytes(p.type) \in Nat /\ PlainBytes(p.type) < 128
        BY DEF PlainBytes
      <4>4. Bytes(Body(p)) = PlainBytes(p.type)
        BY <4>2, BodyPlain
      <4>5. Bytes(Body(p)) = n + 0
        BY <3>2, DeclaredFacts DEF n
      <4> QED
        BY <1>1, <4>3, <4>4, <4>5
    <3> QED
      BY <3>1, <3>2
  <2>2. Len(g) = 1
    BY <1>4, <2>1
  <2> QED
    BY <1>4, <2>2, SubSeqFull
<1> HIDE DEF d
<1> QED
  BY <1>4, <1>7, <1>8 DEF d, n

(* Items of one byte each.                                                 *)
LEMMA OneByteEach ==
  ASSUME NEW n \in Nat, NEW u \in [1..n -> Item], \A i \in 1..n : u[i].w = 1
  PROVE  Bytes(u) = n
<1>1. u \in Seq(Item) /\ Len(u) = n
  OBVIOUS
<1>2. PICK g \in [0..n -> Nat] : Sums(n, u, g) /\ g[n] = Bytes(u)
  BY <1>1, BytesSum
<1> DEFINE h == [k \in 0..n |-> k]
<1>3. Sums(n, u, h) /\ h[n] = n
  BY DEF Sums
<1> HIDE DEF h
<1>4. g[n] = h[n]
  BY <1>2, <1>3, SumsAgree
<1> QED
  BY <1>2, <1>3, <1>4

(* The whole pack: the fixed header, the digits of the length, the body.   *)
LEMMA LayoutFacts ==
  ASSUME NEW p \in Packs
  PROVE  LET d == LengthDigits(p)  h == 1 + Len(d) IN
         /\ Layout(p) \in Seq(Item) /\ Bytes(Layout(p)) = h + Bytes(Body(p))
         /\ At(Layout(p), 0, Num(1, 16 * p.type + 2 * p.qos))
         /\ \A i \in 1..Len(d) : At(Layout(p), i, Num(1, d[i]))
         /\ \A off, x : At(Body(p), off, x) => At(Layout(p), h + off, x)
<1> DEFINE d == LengthDigits(p)
           n == Len(d)
           part == [i \in 1..n |-> Number(1, d[i])]
           u == [i \in 1..n |-> [w |-> 1, v |-> 0]]
           head == 16 * p.type + 2 * p.qos
           a1 == Number(1, head)
           a2 == FlattenSeq(part)
           a3 == a1 \o a2
<1>1. /\ n \in Nat /\ DOMAIN d = 1..n /\ \A i \in 1..n : d[i] \in Nat
      /\ head \in Nat
  <2>1. d \in Seq(0..255)
    BY PackDigits
  <2>2. p.type \in 0..15 /\ p.qos \in 0..3
    BY PackFields
  <2>3. head \in Nat
    BY <2>2
  <2> HIDE DEF d, head
  <2>4. \A i \in 1..n : d[i] \in 0..255
    BY <2>1, ElementOfSeq, Zenon
  <2>5. n \in Nat /\ DOMAIN d = 1..n
    BY <2>1, LenProperties, Zenon
  <2>6. \A x \in 0..255 : x \in Nat
    OBVIOUS
  <2> HIDE DEF n
  <2> QED
    BY <2>3, <2>4, <2>5, <2>6
<1>2. Layout(p) = (a1 \o a2) \o Body(p)
  BY <1>1, Zenon DEF Layout
<1>3. 1 \in Nat \ {0}
  OBVIOUS
<1>4. a1 \in Seq(Item) /\ Bytes(a1) = 1 /\ At(a1, 0, Num(1, head))
  <2> HIDE DEF head
  <2> QED
    BY <1>1, <1>3, NumberLayout
<1>5. u \in [1..n -> Item] /\ \A i \in 1..n : u[i].w = 1
  BY DEF Item
<1>6. \A i \in 1..n : /\ part[i] \in Seq(Item) /\ Bytes(part[i]) = u[i].w
                      /\ At(part[i], 0, Num(1, d[i])) /\ Num(1, d[i]) \in Item
  <2>1. \A i \in 1..n : part[i] = Number(1, d[i])
    OBVIOUS
  <2> HIDE DEF part, u, d
  <2> QED
    BY <1>1, <1>3, <1>5, <2>1, NumberLayout
<1>7. part \in [1..n -> Seq(Item)]
  BY <1>6
<1> HIDE DEF part, u, d, head
<1>8. \A i \in 1..n : Offset(u, i) = i - 1
  <2> SUFFICES ASSUME NEW i \in 1..n
               PROVE  Offset(u, i) = i - 1
    OBVIOUS
  <2> DEFINE q == SubSeq(u, 1, i - 1)
  <2>1. q \in [1..(i - 1) -> Item] /\ \A k \in 1..(i - 1) : q[k] = u[k]
    <3>1. u \in Seq(Item) /\ Len(u) = n
      BY <1>1, <1>5
    <3>2. q \in Seq(Item) /\ Len(q) = i - 1 /\ \A k \in 1..(i - 1) : q[k] = u[k]
      BY <1>1, <3>1
    <3> HIDE DEF q
    <3> QED
      BY <3>2, LenProperties
  <2>2. i - 1 \in Nat /\ \A k \in 1..(i - 1) : q[k].w = 1
    BY <1>1, <1>5, <2>1
  <2> HIDE DEF q
  <2>3. Bytes(q) = i - 1
    BY <2>1, <2>2, OneByteEach
  <2> QED
    BY <2>3 DEF Offset, q
<1>9. /\ a2 \in Seq(Item) /\ Bytes(a2) = Bytes(u)
      /\ \A j \in 1..n, off \in Nat, x \in Item :
            At(part[j], off, x) => At(a2, Offset(u, j) + off, x)
  <2>1. \A i \in 1..n : Bytes(part[i]) = u[i].w
    BY <1>6
  <2>2. n \in Nat
    BY <1>1
  <2> HIDE DEF n
  <2> QED
    BY <1>5, <1>7, <2>1, <2>2, FlattenAt
<1> HIDE DEF a1, a2
<1>10. Bytes(a2) = n
  BY <1>1, <1>5, <1>9, OneByteEach
<1>11. ASSUME NEW i \in 1..n
       PROVE  At(a2, i - 1, Num(1, d[i]))
  <2>1. At(a2, Offset(u, i) + 0, Num(1, d[i]))
    BY <1>6, <1>9
  <2>2. Offset(u, i) + 0 = i - 1
    BY <1>1, <1>8
  <2> QED
    BY <2>1, <2>2
<1>12. a3 \in Seq(Item) /\ Bytes(a3) = 1 + n
  BY <1>4, <1>9, <1>10, BytesConcat
<1>13. At(a3, 0, Num(1, head))
  BY <1>4, <1>9, AtLeft
<1>14. ASSUME NEW i \in 1..n
       PROVE  At(a3, i, Num(1, d[i]))
  <2>1. At(a3, 1 + (i - 1), Num(1, d[i]))
    BY <1>4, <1>9, <1>11, AtRight
  <2>2. 1 + (i - 1) = i
    BY <1>1
  <2> QED
    BY <2>1, <2>2
<1> HIDE DEF a3
<1>15. Body(p) \in Seq(Item) /\ Layout(p) = a3 \o Body(p)
  BY <1>2, DeclaredFacts DEF a3
<1>16. Layout(p) \in Seq(Item) /\ Bytes(Layout(p)) = (1 + n) + Bytes(Body(p))
  BY <1>12, <1>15, BytesConcat
<1>17. At(Layout(p), 0, Num(1, head)) /\ \A i \in 1..n : At(Layout(p), i, Num(1, d[i]))
  BY <1>12, <1>13, <1>14, <1>15, AtLeft
<1>18. \A off, x : At(Body(p), off, x) => At(Layout(p), (1 + n) + off, x)
  BY <1>12, <1>15, AtRight
<1> QED
  BY <1>16, <1>17, <1>18 DEF head, d

-----------------------------------------------------------------------------
(* The inductive invariant.                                                *)

(* The numbers of pack s are on the wire, from offset o on.                *)
OnWire(s, o) ==
    \A k \in DOMAIN Layout(s) :
        LET y == o + Offset(Layout(s), k)
        IN  Layout(s)[k].v >= 0 => y \in DOMAIN wire /\ wire[y] = Layout(s)[k]

(* Where a pack ends, or would have ended.                                 *)
PackEnd(s, o) == o + Bytes(Layout(s))

(* A pack lies behind the one before; the last may be cut off.             *)
Lies(i) ==
    LET s == sent[i]  o == Boundary(i - 1) IN
      /\ OnWire(s, o) /\ o \in Nat /\ o <= end /\ ends[i] <= end
      /\ IF CutAt(i) THEN ends[i] < PackEnd(s, o) ELSE ends[i] = PackEnd(s, o)

(* The packs lie on the stream one behind the other.                       *)
Stream ==
    /\ sent \in Seq(Packs) /\ ends \in Seq(Nat) /\ Len(ends) = Len(sent)
    /\ end \in Nat /\ end = Boundary(Len(sent)) /\ cut \in BOOLEAN
    /\ ~cut => \A y \in DOMAIN wire : y \in Nat /\ y < end
    /\ \A i \in 1..Len(sent) : Lies(i)

(* What the reader knows of pack s after c - 1 digits.                     *)
Known(s, c, length, flags, strs, rest) ==
    [type |-> s.type, qos |-> s.qos, flags |-> flags, strs |-> strs, msg |-> 0,
     length |-> length, count_len |-> c, rest |-> rest]

(* The bytes before the body, and what is known of a pack there.           *)
Header(s) == 1 + Len(LengthDigits(s))
InBody(s, flags, strs, rest) ==
    pack = Known(s, Header(s), Declared(s), flags, strs, rest)

(* Where it stands within a pack s that begins at o: among the digits, ... *)
AtLength(s, o) ==
    /\ pc = "length"
    /\ \E c \in 1..Len(LengthDigits(s)) :
          pos = o + c /\ pack = Known(s, c, Partial(LengthDigits(s), c - 1), 0, <<>>, 0)

(* ... at the beginning of the body, ...                                   *)
AtBody(s, o) ==
    pc = Start(s.type) /\ pos = o + Header(s) /\ InBody(s, 0, <<>>, 0)

(* ... in CONNECT, at the flags and at the strings behind them, ...        *)
AtFlags(s, o) ==
    /\ pc = "flags" /\ s.type = CONNECT
    /\ pos = o + Header(s) + 2 + s.strs[1]
    /\ InBody(s, 0, <<s.strs[1]>>, Declared(s) - 6 - s.strs[1])

(* The strings that precede one of CONNECT, if the flags announce it.      *)
Precede(name, flags) ==
    LET will == IF Flag(flags, 4) THEN 2 ELSE 0
        user == IF Flag(flags, 128) THEN 1 ELSE 0
    IN  CASE name = "id" -> {1}
          [] name = "will_topic" /\ Flag(flags, 4) -> {2}
          [] name = "will_msg" /\ Flag(flags, 4) -> {3}
          [] name = "uname" /\ Flag(flags, 128) -> {2 + will}
          [] name = "upassword" /\ Flag(flags, 64) -> {2 + will + user}
          [] OTHER -> {}

(* The strings behind the flags of CONNECT.                                *)
ConnectStrings == {"id", "will_topic", "will_msg", "uname", "upassword"}
AtString(s, o) ==
    /\ pc \in ConnectStrings /\ s.type = CONNECT
    /\ \E k \in Precede(pc, s.flags) :
          LET read == Upto(Later(s), 0, k - 1) IN
            /\ pos = o + Header(s) + 6 + s.strs[1] + read
            /\ InBody(s, s.flags, SubSeq(s.strs, 1, k),
                      Declared(s) - 6 - s.strs[1] - read + 2 * (k - 1))

(* ... in PUBLISH, at the message, ...                                     *)
AtMessage(s, o) ==
    LET n == Wrap(s.strs[1]) IN
      /\ pc = "msg" /\ s.type = PUBLISH
      /\ pos = o + Header(s) + 2 + n
      /\ InBody(s, 0, <<n>>, Declared(s) - n - 2)

(* ... or at one of the topics of a list.                                  *)
AtName(s, o) ==
    /\ pc = "name" /\ s.type \in Lists
    /\ \E k \in 0..(Len(s.strs) - 1) :
          LET read == Upto(s.strs, Extra(s), k) IN
            /\ pos = o + Header(s) + 2 + read
            /\ InBody(s, 0, SubSeq(s.strs, 1, k), Declared(s) - read)

Reading(s, o) ==
    \/ AtLength(s, o) \/ AtBody(s, o) \/ AtFlags(s, o) \/ AtString(s, o)
    \/ AtMessage(s, o) \/ AtName(s, o)

(* A pack has come back as ReadsBack has it.                               *)
CameBack(i) ==
    LET s == sent[i] IN
      \/ CutAt(i) /\ s.type \in Lists
      \/ ~CutAt(i) /\ s.type = PUBLISH /\ s.strs[1] > MaxString
      \/ ~CutAt(i) /\ got[i] = Says(s.type, s.qos, s.flags, s.strs, s.msg)

(* Every pack the reader has reached can be delimited.                     *)
AllFramed == \A i \in {j \in DOMAIN sent : j <= Len(got) + 1} : Framed(sent[i])

(* Why the reader has failed.                                              *)
Excused ==
    \/ cut /\ Len(got) + 1 >= Len(sent)
    \/ Len(got) < Len(sent) /\ ~Legal(sent[Len(got) + 1])

(* The reader has returned what was sent, and stands between two packs or  *)
(* at a known place within the next one.                                   *)
Reader ==
    /\ pc # "lost" /\ Len(got) <= Len(sent) /\ pos \in Nat /\ pos <= end
    /\ \A i \in 1..Len(got) : CameBack(i)
    /\ \/ pc = "err" /\ Excused
       \/ pc = "fixed" /\ pos = Boundary(Len(got))
       \/ /\ Len(got) < Len(sent)
          /\ Reading(sent[Len(got) + 1], Boundary(Len(got)))

(* What was returned is a sequence.                                        *)
GotSeq == got \in Seq(Range(got))

(* The inductive invariant.  The stream is in order whatever the reader    *)
(* does; the reader is as long as it could delimit every pack.             *)
IInv == Stream /\ GotSeq /\ (AllFramed => Reader)

(* Before the first pack.                                                  *)
LEMMA StreamInit ==
  ASSUME Init
  PROVE  Stream
<1>1. /\ wire = <<>> /\ end = 0 /\ cut = FALSE /\ sent = <<>> /\ ends = <<>>
  BY DEF Init
<1>2. sent \in Seq(Packs) /\ ends \in Seq(Nat) /\ Len(sent) = 0 /\ Len(ends) = 0
  BY <1>1
<1>3. DOMAIN wire = {}
  BY <1>1
<1>4. Boundary(Len(sent)) = 0
  BY <1>2 DEF Boundary
<1>5. \A i \in 1..Len(sent) : FALSE
  BY <1>2
<1>6. cut \in BOOLEAN
  BY <1>1, Zenon
<1> QED
  BY <1>1, <1>2, <1>3, <1>4, <1>5, <1>6 DEF Stream

(* One more pack behind the others, all of it or its beginning.            *)
LEMMA StreamGrows ==
  ASSUME Stream, ~cut, NEW p \in Packs, cut' \in BOOLEAN,
         wire' = WireWith(Layout(p)),
         sent' = Append(sent, p), ends' = Append(ends, end'),
         end' \in Nat, end <= end',
         IF cut' THEN end' < PackEnd(p, end) ELSE end' = PackEnd(p, end)
  PROVE  Stream'
<1>1. PICK n \in Nat, e \in Nat, f \in Nat :
         /\ sent \in Seq(Packs) /\ ends \in Seq(Nat) /\ Len(ends) = n /\ n = Len(sent)
         /\ end = e /\ e = Boundary(n) /\ end' = f /\ e <= f
         /\ \A y \in DOMAIN wire : y \in Nat /\ y < e
  BY DEF Stream
<1> DEFINE items == Layout(p)
<1>2. items \in Seq(Item) /\ DOMAIN items = 1..Len(items)
  <2>1. items \in Seq(Item)
    BY LayoutFacts
  <2> QED
    BY <2>1, LenProperties
<1>3. /\ sent' \in Seq(Packs) /\ ends' \in Seq(Nat) /\ Len(ends') = n + 1
      /\ Len(sent') = n + 1 /\ sent'[n + 1] = p /\ ends'[n + 1] = f
      /\ \A i \in 1..n : sent'[i] = sent[i] /\ ends'[i] = ends[i]
  BY <1>1, AppendProperties
<1> HIDE DEF items
<1>4. /\ \A y \in DOMAIN wire : y \in DOMAIN wire' /\ wire'[y] = wire[y]
      /\ \A y \in DOMAIN Placed(items, e) :
            y \in DOMAIN wire' /\ wire'[y] = Placed(items, e)[y]
      /\ \A y \in DOMAIN wire' : y \in DOMAIN wire \/ y \in DOMAIN Placed(items, e)
  <2>1. \A y \in DOMAIN Placed(items, e) : y \notin DOMAIN wire
    <3>1. \A y \in DOMAIN Placed(items, e) : y \in Nat /\ e <= y
      BY <1>2, PlacedWithin
    <3> QED
      BY <1>1, <3>1
  <2>2. wire' = [y \in (DOMAIN wire) \cup (DOMAIN Placed(items, e)) |->
                   IF y \in DOMAIN wire THEN wire[y] ELSE Placed(items, e)[y]]
    BY <1>1 DEF WireWith, items
  <2> HIDE DEF items
  <2> QED
    BY <2>1, <2>2, Zenon
<1>5. \A i \in 0..n : Boundary(i)' = Boundary(i)
  BY <1>1, <1>3 DEF Boundary
<1>6. Boundary(n + 1)' = f
  BY <1>1, <1>3 DEF Boundary
<1>7. ASSUME NEW s, NEW o, OnWire(s, o)
      PROVE  OnWire(s, o)'
  BY <1>4, <1>7, Zenon DEF OnWire
<1>8. OnWire(p, e)'
  <2> SUFFICES ASSUME NEW k \in DOMAIN items, items[k].v >= 0
               PROVE  LET y == e + Offset(items, k)
                      IN  y \in DOMAIN wire' /\ wire'[y] = items[k]
    BY DEF OnWire, items
  <2>1. At(items, Offset(items, k), items[k])
    BY DEF At
  <2>2. /\ e + Offset(items, k) \in DOMAIN Placed(items, e)
        /\ Placed(items, e)[e + Offset(items, k)] = items[k]
    BY <1>2, <2>1, PlacedAt
  <2> QED
    BY <1>4, <2>2
<1>9. PackEnd(p, e) = e + Bytes(items) /\ Bytes(items) \in Nat
  BY <1>2, BytesType DEF PackEnd, items
<1>10. ~cut' => \A y \in DOMAIN wire' : y \in Nat /\ y < f
  <2> SUFFICES ASSUME ~cut', NEW y \in DOMAIN wire'
               PROVE  y \in Nat /\ y < f
    OBVIOUS
  <2>1. f = e + Bytes(items)
    BY <1>1, <1>9
  <2>2. CASE y \in DOMAIN wire
    BY <1>1, <2>2
  <2>3. CASE y \in DOMAIN Placed(items, e)
    BY <1>2, <2>1, <2>3, PlacedWithin
  <2> QED
    BY <1>4, <2>2, <2>3
<1>11. ASSUME NEW i \in 1..n
       PROVE  Lies(i)'
  <2>1. i \in 1..Len(sent) /\ i - 1 \in 0..n /\ i # n + 1
    BY <1>1
  <2>2. PICK s, o : s = sent[i] /\ o = Boundary(i - 1)
    OBVIOUS
  <2>3. ~CutAt(i) /\ ~CutAt(i)'
    BY <1>1, <1>3, <2>1 DEF CutAt
  <2>4. Lies(i)
    BY <2>1 DEF Stream
  <2>5. /\ OnWire(s, o) /\ o \in Nat /\ o <= e /\ ends[i] <= e
        /\ ends[i] = PackEnd(s, o)
    BY <1>1, <2>2, <2>3, <2>4 DEF Lies
  <2>6. sent'[i] = s /\ Boundary(i - 1)' = o /\ ends'[i] = ends[i]
    BY <1>3, <1>5, <2>1, <2>2
  <2>7. ends[i] \in Nat
    BY <1>1
  <2>8. o <= f /\ ends[i] <= f
    BY <1>1, <2>5, <2>7
  <2>9. OnWire(s, o)'
    BY <1>7, <2>5
  <2> QED
    BY <1>1, <2>3, <2>5, <2>6, <2>8, <2>9, Zenon DEF Lies, PackEnd
<1>12. Lies(n + 1)'
  <2>1. sent'[n + 1] = p /\ Boundary(n)' = e /\ ends'[n + 1] = f /\ (n + 1) - 1 = n
    BY <1>1, <1>3, <1>5
  <2>2. CutAt(n + 1)' <=> cut'
    BY <1>3 DEF CutAt
  <2>3. IF cut' THEN f < PackEnd(p, e) ELSE f = PackEnd(p, e)
    BY <1>1
  <2>4. f <= f
    OBVIOUS
  <2> QED
    BY <1>1, <1>8, <2>1, <2>2, <2>3, <2>4, Zenon DEF Lies, PackEnd
<1>13. \A i \in 1..(n + 1) : i \in 1..n \/ i = n + 1
  OBVIOUS
<1>14. \A i \in 1..(n + 1) : Lies(i)'
  BY <1>11, <1>12, <1>13
<1> QED
  BY <1>1, <1>3, <1>6, <1>10, <1>14 DEF Stream

(* The writer keeps the packs in their places, a cut one too.              *)
LEMMA StreamWrite ==
  ASSUME Stream, NEW p \in Packs, Write(p) \/ WriteCut(p)
  PROVE  Stream'
<1> DEFINE items == Layout(p)
<1>1. items \in Seq(Item) /\ DOMAIN items = 1..Len(items) /\ Bytes(items) \in Nat
  <2>1. items \in Seq(Item)
    BY LayoutFacts
  <2> HIDE DEF items
  <2> QED
    BY <2>1, LenProperties, BytesType
<1>2. end \in Nat /\ PackEnd(p, end) = end + Bytes(items)
  BY DEF Stream, PackEnd
<1>3. ~cut /\ sent' = Append(sent, p) /\ ends' = Append(ends, end')
      /\ wire' = WireWith(items)
  BY DEF Write, WriteCut
<1>4. /\ cut' \in BOOLEAN /\ end' \in Nat /\ end <= end'
      /\ IF cut' THEN end' < PackEnd(p, end) ELSE end' = PackEnd(p, end)
  <2>1. CASE Write(p)
    <3>1. cut' = cut /\ end' = end + Bytes(items)
      BY <2>1 DEF Write
    <3> HIDE DEF items
    <3>2. end' \in Nat /\ end <= end' /\ end' = PackEnd(p, end)
      BY <1>1, <1>2, <3>1
    <3>3. cut \in BOOLEAN
      BY DEF Stream
    <3>4. cut' = FALSE
      BY <1>3, <3>1, <3>3, Zenon
    <3> QED
      BY <3>2, <3>4
  <2>2. CASE WriteCut(p)
    <3>1. PICK i \in DOMAIN items, more \in 0..1 :
             more < items[i].w /\ end' = end + Offset(items, i) + more
      BY <2>2 DEF WriteCut
    <3>2. cut' = TRUE
      BY <2>2 DEF WriteCut
    <3> HIDE DEF items
    <3>3. /\ Offset(items, i) \in Nat /\ Offset(items, i) + items[i].w <= Bytes(items)
          /\ items[i].w \in Nat
      <4>1. i \in 1..Len(items)
        BY <1>1
      <4>2. items[i] \in Item
        BY <1>1, <4>1, Split
      <4> QED
        BY <1>1, <4>1, <4>2, OffsetWithin DEF Item
    <3>4. end' \in Nat /\ end <= end' /\ end' < end + Bytes(items)
      BY <1>1, <1>2, <3>1, <3>3
    <3> QED
      BY <1>2, <3>2, <3>4
  <2> QED
    BY <2>1, <2>2
<1> QED
  BY <1>3, <1>4, StreamGrows

(* The reader leaves the stream alone.                                     *)
LEMMA ReaderSteps ==
  ASSUME ReadPack
  PROVE  UNCHANGED sendVars
BY DEF ReadPack, ReadFixed, ReadLength, ReadProtocol, ReadFlags, ReadConnectString,
       ReadTopic, ReadMessage, ReadAck, ReadNothing, SkipUnknown, ReadMid, ReadName,
       NameCut, ReadError, Lose, sendVars

(* A step that leaves the stream alone leaves the packs in their places.   *)
LEMMA StreamKept ==
  ASSUME Stream, UNCHANGED sendVars
  PROVE  Stream'
<1>1. wire' = wire /\ end' = end /\ cut' = cut /\ sent' = sent /\ ends' = ends
  BY DEF sendVars
<1>2. ASSUME NEW i
      PROVE  Lies(i)' <=> Lies(i)
  BY <1>1, Zenon DEF Lies, OnWire, Boundary, CutAt, PackEnd, Offset
<1> QED
  BY <1>1, <1>2, Zenon DEF Stream, Boundary

(* No step takes a pack out of its place.                                  *)
LEMMA StreamNext ==
  ASSUME Stream, [Next]_vars
  PROVE  Stream'
<1>1. CASE \E p \in Packs : Write(p) \/ WriteCut(p)
  BY <1>1, StreamWrite
<1>2. CASE ReadPack
  BY <1>2, ReaderSteps, StreamKept
<1>3. CASE UNCHANGED vars
  <2>1. UNCHANGED sendVars
    BY <1>3 DEF vars, sendVars
  <2> QED
    BY <2>1, StreamKept
<1> QED
  BY <1>1, <1>2, <1>3 DEF Next

-----------------------------------------------------------------------------
(* One more pack has come back.                                            *)
LEMMA GotGrows ==
  ASSUME GotSeq, NEW x
  PROVE  /\ Append(got, x) \in Seq(Range(Append(got, x))) /\ Len(got) \in Nat
         /\ Len(Append(got, x)) = Len(got) + 1 /\ Append(got, x)[Len(got) + 1] = x
         /\ \A i \in 1..Len(got) : Append(got, x)[i] = got[i]
<1> DEFINE S == Range(got) \cup {x}
           more == Append(got, x)
           n == Len(got)
<1>1. got \in Seq(S)
  <2>1. got \in Seq(Range(got))
    BY DEF GotSeq
  <2>2. Len(got) \in Nat /\ DOMAIN got = 1..Len(got) /\ \A i \in 1..Len(got) : got[i] \in S
    BY <2>1
  <2> QED
    BY <2>1, <2>2
<1> HIDE DEF S
<1>2. /\ more \in Seq(S) /\ n \in Nat /\ Len(more) = n + 1 /\ more[n + 1] = x
      /\ \A i \in 1..n : more[i] = got[i]
  BY <1>1, AppendProperties DEF S
<1> HIDE DEF more
<1>3. more \in Seq(Range(more))
  BY <1>2 DEF Range
<1> QED
  BY <1>2, <1>3 DEF more

-----------------------------------------------------------------------------
(* What the reader finds on the wire.                                      *)

(* A number of the layout is where the layout has it.                      *)
LEMMA NumberRead ==
  ASSUME NEW s \in Packs, NEW o \in Nat, OnWire(s, o),
         NEW off, NEW w, NEW v \in Nat, At(Layout(s), off, Num(w, v))
  PROVE  IsNumber(o + off, w) /\ Value(o + off) = v
<1>1. PICK k \in DOMAIN Layout(s) : Layout(s)[k] = Num(w, v) /\ Offset(Layout(s), k) = off
  BY DEF At
<1>2. Num(w, v).w = w /\ Num(w, v).v = v /\ v >= 0
  BY DEF Num
<1>3. o + off \in DOMAIN wire /\ wire[o + off] = Num(w, v)
  BY <1>1, <1>2 DEF OnWire
<1> QED
  BY <1>2, <1>3 DEF IsNumber, Value

(* The sizes of a pack.                                                    *)
LEMMA Sizes ==
  ASSUME NEW s \in Packs, NEW o \in Nat
  PROVE  /\ Header(s) \in Nat /\ Header(s) = 1 + Len(LengthDigits(s))
         /\ Len(LengthDigits(s)) \in Nat \ {0}
         /\ Bytes(Body(s)) \in Nat /\ Declared(s) \in Nat
         /\ PackEnd(s, o) = o + Header(s) + Bytes(Body(s)) /\ PackEnd(s, o) \in Nat
         /\ s.type \notin Lists => Bytes(Body(s)) = Declared(s)
<1>1. Len(LengthDigits(s)) \in Nat \ {0}
  BY PackDigits
<1>2. /\ Bytes(Body(s)) \in Nat /\ Declared(s) \in Nat
      /\ Bytes(Body(s)) = Declared(s) + (IF s.own /\ s.type \in Lists THEN 2 ELSE 0)
  BY DeclaredFacts
<1>3. Bytes(Layout(s)) = (1 + Len(LengthDigits(s))) + Bytes(Body(s))
  BY LayoutFacts
<1> QED
  BY <1>1, <1>2, <1>3 DEF Header, PackEnd

(* The first byte and the digits of the length ...                         *)
LEMMA HeaderRead ==
  ASSUME NEW s \in Packs, NEW o \in Nat, OnWire(s, o)
  PROVE  /\ IsNumber(o, 1) /\ Value(o) = 16 * s.type + 2 * s.qos
         /\ \A i \in 1..Len(LengthDigits(s)) :
               IsNumber(o + i, 1) /\ Value(o + i) = LengthDigits(s)[i]
<1> DEFINE h == 16 * s.type + 2 * s.qos
           d == LengthDigits(s)
<1>1. At(Layout(s), 0, Num(1, h)) /\ \A i \in 1..Len(d) : At(Layout(s), i, Num(1, d[i]))
  BY LayoutFacts
<1>2. h \in Nat
  <2>1. s.type \in 0..15 /\ s.qos \in 0..3
    BY PackFields
  <2> QED
    BY <2>1
<1>3. \A i \in 1..Len(d) : d[i] \in Nat
  <2>1. d \in Seq(0..255)
    BY PackDigits
  <2> HIDE DEF d
  <2>2. \A i \in 1..Len(d) : d[i] \in 0..255
    BY <2>1, ElementOfSeq, Zenon
  <2>3. \A x \in 0..255 : x \in Nat
    OBVIOUS
  <2> QED
    BY <2>2, <2>3
<1> HIDE DEF h, d
<1>4. IsNumber(o + 0, 1) /\ Value(o + 0) = h
  BY <1>1, <1>2, NumberRead
<1>5. \A i \in 1..Len(d) : IsNumber(o + i, 1) /\ Value(o + i) = d[i]
  BY <1>1, <1>3, NumberRead
<1>6. o + 0 = o
  OBVIOUS
<1> QED
  BY <1>4, <1>5, <1>6 DEF h, d

(* ... and what the body holds.                                            *)
LEMMA BodyRead ==
  ASSUME NEW s \in Packs, NEW o \in Nat, OnWire(s, o),
         NEW off \in Nat, NEW w, NEW v \in Nat, At(Body(s), off, Num(w, v))
  PROVE  IsNumber(o + Header(s) + off, w) /\ Value(o + Header(s) + off) = v
<1>1. At(Layout(s), Header(s) + off, Num(w, v))
  BY LayoutFacts DEF Header
<1>2. IsNumber(o + (Header(s) + off), w) /\ Value(o + (Header(s) + off)) = v
  BY <1>1, NumberRead
<1>3. o + (Header(s) + off) = o + Header(s) + off
  BY Sizes
<1> QED
  BY <1>2, <1>3

(* The fields of what is known of a pack, and steps that learn more.       *)
LEMMA Fields ==
  ASSUME NEW s, NEW c, NEW l, NEW f, NEW t, NEW r
  PROVE  LET p == Known(s, c, l, f, t, r) IN
         /\ p.type = s.type /\ p.qos = s.qos /\ p.flags = f /\ p.strs = t /\ p.msg = 0
         /\ p.length = l /\ p.count_len = c /\ p.rest = r
BY DEF Known

WithDigit(p, c, n) == [p EXCEPT !.count_len = c, !.length = @ + n]
WithStrings(p, strs, rest) == [p EXCEPT !.strs = strs, !.rest = rest]
WithString(p, n, rest) == [p EXCEPT !.strs = Append(@, n), !.rest = rest]
WithFlags(p, flags) == [p EXCEPT !.flags = flags]
WithRest(p, rest) == [p EXCEPT !.rest = rest]
WithMessage(p, n) == [p EXCEPT !.msg = n]

(* A digit more of the length.                                             *)
LEMMA DigitKnown ==
  ASSUME NEW s, NEW c, NEW l, NEW f, NEW t, NEW r, NEW x, NEW y
  PROVE  WithDigit(Known(s, c, l, f, t, r), x, y) = Known(s, x, l + y, f, t, r)
<1> DEFINE q == Known(s, x, l, f, t, r)
<1>1. [Known(s, c, l, f, t, r) EXCEPT !.count_len = x] = q
  BY DEF Known
<1>2. q.length = l
  BY DEF Known
<1>3. [q EXCEPT !.length = l + y] = Known(s, x, l + y, f, t, r)
  BY DEF Known
<1> HIDE DEF q
<1>4. [q EXCEPT !.length = @ + y] = [q EXCEPT !.length = l + y]
  BY <1>2, Zenon
<1>5. [[Known(s, c, l, f, t, r) EXCEPT !.count_len = x] EXCEPT !.length = @ + y]
        = [q EXCEPT !.length = @ + y]
  BY <1>1, Zenon
<1> QED
  BY <1>3, <1>4, <1>5, Zenon DEF WithDigit

(* The strings, and the bytes that are left.                               *)
LEMMA StringsKnown ==
  ASSUME NEW s, NEW c, NEW l, NEW f, NEW t, NEW r, NEW x, NEW y
  PROVE  WithStrings(Known(s, c, l, f, t, r), x, y) = Known(s, c, l, f, x, y)
<1> DEFINE q == Known(s, c, l, f, x, r)
<1>1. [Known(s, c, l, f, t, r) EXCEPT !.strs = x] = q
  BY DEF Known
<1>2. [q EXCEPT !.rest = y] = Known(s, c, l, f, x, y)
  BY DEF Known
<1> HIDE DEF q
<1>3. [[Known(s, c, l, f, t, r) EXCEPT !.strs = x] EXCEPT !.rest = y]
        = [q EXCEPT !.rest = y]
  BY <1>1, Zenon
<1> QED
  BY <1>2, <1>3, Zenon DEF WithStrings

(* One string more.                                                        *)
LEMMA StringKnown ==
  ASSUME NEW s, NEW c, NEW l, NEW f, NEW t, NEW r, NEW x, NEW y
  PROVE  WithString(Known(s, c, l, f, t, r), x, y) = Known(s, c, l, f, Append(t, x), y)
<1> DEFINE p == Known(s, c, l, f, t, r)
<1>1. p.strs = t
  BY DEF Known
<1>2. WithStrings(p, Append(t, x), y) = Known(s, c, l, f, Append(t, x), y)
  BY StringsKnown
<1> HIDE DEF p
<1>3. WithString(p, x, y) = WithStrings(p, Append(t, x), y)
  BY <1>1, Zenon DEF WithString, WithStrings
<1> QED
  BY <1>2, <1>3 DEF p

(* The flags, the bytes that are left, the message.                        *)
LEMMA FieldKnown ==
  ASSUME NEW s, NEW c, NEW l, NEW f, NEW t, NEW r, NEW x
  PROVE  LET p == Known(s, c, l, f, t, r)  q == WithMessage(p, x) IN
         /\ WithFlags(p, x) = Known(s, c, l, x, t, r)
         /\ WithRest(p, x) = Known(s, c, l, f, t, x)
         /\ q.type = s.type /\ q.qos = s.qos /\ q.flags = f /\ q.strs = t /\ q.msg = x
BY DEF Known, WithFlags, WithRest, WithMessage

-----------------------------------------------------------------------------
(* The steps of the reader within a pack.                                  *)

(* A pack the reader is in.                                                *)
Inside(s, o) ==
    /\ s \in Packs /\ Framed(s) /\ o \in Nat /\ OnWire(s, o)
    /\ end \in Nat /\ pos \in Nat /\ pos <= end

(* What a step may come to: an error, for which there is a reason, one     *)
(* step further in the same pack, the whole pack, or, of a list that was   *)
(* cut off, what there was of it.                                          *)
Failed(s, o) ==
    /\ pc' = "err" /\ pos' = pos /\ got' = got
    /\ Legal(s) => end < PackEnd(s, o)
Further(s, o) == got' = got /\ pos' \in Nat /\ pos' <= end /\ Reading(s, o)'
Returned(s, o, x) ==
    /\ got' = Append(got, x) /\ pc' = "fixed"
    /\ pos' = PackEnd(s, o) /\ PackEnd(s, o) <= end
    /\ \/ x = Says(s.type, s.qos, s.flags, s.strs, s.msg)
       \/ s.type = PUBLISH /\ s.strs[1] > MaxString
CutOff(s, o, x) ==
    /\ got' = Append(got, x) /\ pc' = "fixed" /\ pos' = end
    /\ s.type \in Lists /\ end < PackEnd(s, o)
Outcome(s, o) ==
    Failed(s, o) \/ Further(s, o) \/ (\E x : Returned(s, o, x) \/ CutOff(s, o, x))

(* The first byte holds the type and the quality of service.               *)
LEMMA FirstByte ==
  ASSUME NEW type \in 0..15, NEW qos \in 0..3
  PROVE  /\ (16 * type + 2 * qos) \div 16 = type
         /\ ((16 * type + 2 * qos) % 8) \div 2 = qos
<1> DEFINE b == 16 * type + 2 * qos
<1>1. b \div 16 = type
  OBVIOUS
<1>2. b % 8 = 2 * qos
  OBVIOUS
<1>3. (2 * qos) \div 2 = qos
  OBVIOUS
<1> QED
  BY <1>1, <1>2, <1>3

(* The reader starts on a pack.                                            *)
LEMMA StepFixed ==
  ASSUME NEW s, NEW o, Inside(s, o), pc = "fixed", pos = o, ReadFixed
  PROVE  Further(s, o)
<1> USE DEF Inside
<1>1. Value(pos) = 16 * s.type + 2 * s.qos /\ s.type \in 0..15 /\ s.qos \in 0..3
  BY HeaderRead, PackFields
<1>2. pos + 1 <= end
  BY DEF ReadFixed, Ready, Arrived, Needed
<1>3. /\ pos' = o + 1 /\ pc' = "length" /\ got' = got
      /\ pack' = Known(s, 1, 0, 0, <<>>, 0)
  <2>1. /\ pack' = [NoPack EXCEPT !.type = Value(pos) \div 16,
                                  !.qos = (Value(pos) % 8) \div 2]
        /\ pos' = pos + 1 /\ pc' = "length" /\ got' = got
    BY DEF ReadFixed, Continue
  <2>2. Value(pos) \div 16 = s.type /\ (Value(pos) % 8) \div 2 = s.qos
    BY <1>1, FirstByte
  <2> QED
    BY <2>1, <2>2 DEF NoPack, Known
<1>4. 1 \in 1..Len(LengthDigits(s)) /\ Partial(LengthDigits(s), 1 - 1) = 0
  BY Sizes DEF Partial
<1>5. AtLength(s, o)'
  BY <1>3, <1>4 DEF AtLength
<1> QED
  BY <1>2, <1>3, <1>5 DEF Further, Reading

(* One digit more.                                                         *)
LEMMA PartialStep ==
  ASSUME NEW d \in Seq(0..255), NEW c \in 1..3, c <= Len(d)
  PROVE  Partial(d, c) = Partial(d, c - 1) + (d[c] % 128) * 128 ^ ((c + 1) - 2)
<1>1. \A i \in 1..Len(d) : d[i] \in 0..255
  BY ElementOfSeq, Zenon
<1>2. PICK m \in Nat : m = Len(d)
  BY LenProperties, Zenon
<1>0. \A z \in 0..255 : z % 128 \in 0..127
  BY SMT
<1>3. CASE c = 1
  <2>1. (c + 1) - 2 = 0 /\ c - 1 = 0 /\ 1 \in 1..m
    BY <1>2, <1>3
  <2>2. 128 ^ 0 = 1
    BY Weights, SMT
  <2>3. d[1] \in 0..255
    BY <1>1, <1>2, <2>1, Zenon
  <2>4. PICK x1 \in 0..127 : d[1] % 128 = x1
    BY <1>0, <2>3, Zenon
  <2>5. Partial(d, 1) = Partial(d, 0) + x1 * 1
    BY <2>4, SMT DEF Partial
  <2>6. Partial(d, 1) = Partial(d, 0) + (d[1] % 128) * 128 ^ 0
    BY <2>2, <2>4, <2>5, Zenon
  <2> QED
    BY <1>3, <2>1, <2>6, Zenon
<1>4. CASE c = 2
  <2>1. (c + 1) - 2 = 1 /\ c - 1 = 1 /\ 1 \in 1..m /\ 2 \in 1..m
    BY <1>2, <1>4
  <2>2. 128 ^ 1 = 128
    BY Weights, SMT
  <2>3. d[1] \in 0..255 /\ d[2] \in 0..255
    BY <1>1, <1>2, <2>1, Zenon
  <2>4. PICK x1 \in 0..127, x2 \in 0..127 : d[1] % 128 = x1 /\ d[2] % 128 = x2
    BY <1>0, <2>3, Zenon
  <2>5. Partial(d, 2) = Partial(d, 1) + x2 * 128
    BY <2>4, SMT DEF Partial
  <2>6. Partial(d, 2) = Partial(d, 1) + (d[2] % 128) * 128 ^ 1
    BY <2>2, <2>4, <2>5, Zenon
  <2> QED
    BY <1>4, <2>1, <2>6, Zenon
<1>5. CASE c = 3
  <2>1. (c + 1) - 2 = 2 /\ c - 1 = 2 /\ 1 \in 1..m /\ 2 \in 1..m /\ 3 \in 1..m
    BY <1>2, <1>5
  <2>2. 128 ^ 2 = 16384
    BY Weights, SMT
  <2>3. d[1] \in 0..255 /\ d[2] \in 0..255 /\ d[3] \in 0..255
    BY <1>1, <1>2, <2>1, Zenon
  <2>4. PICK x1 \in 0..127, x2 \in 0..127, x3 \in 0..127 :
           d[1] % 128 = x1 /\ d[2] % 128 = x2 /\ d[3] % 128 = x3
    BY <1>0, <2>3, Zenon
  <2>5. Partial(d, 3) = Partial(d, 2) + x3 * 16384
    BY <2>4, SMT DEF Partial
  <2>6. Partial(d, 3) = Partial(d, 2) + (d[3] % 128) * 128 ^ 2
    BY <2>2, <2>4, <2>5, SMT
  <2> QED
    BY <1>5, <2>1, <2>6, Zenon
<1> QED
  BY <1>3, <1>4, <1>5

(* The reader takes a digit of the length, and after the last one knows    *)
(* it.                                                                     *)
LEMMA StepLength ==
  ASSUME NEW s, NEW o, Inside(s, o), AtLength(s, o), ReadLength
  PROVE  Outcome(s, o)
<1> USE DEF Inside
<1> DEFINE d == LengthDigits(s)
<1>1. /\ d \in Seq(0..255) /\ Len(d) \in 1..3
      /\ \A i \in 1..Len(d) : MoreDigits(d[i], i + 1) <=> i < Len(d)
      /\ Partial(d, Len(d)) = Declared(s)
  BY PackDigits
<1>2. PICK c \in 1..Len(d) :
         pos = o + c /\ pack = Known(s, c, Partial(d, c - 1), 0, <<>>, 0)
  BY DEF AtLength
<1>3. Value(pos) = d[c]
  BY <1>2, HeaderRead
<1>4. pos + 1 <= end
  BY DEF ReadLength, Ready, Arrived, Needed
<1> DEFINE p == Known(s, c + 1, Partial(d, c), 0, <<>>, 0)
<1>5. Header(s) = 1 + Len(d)
  BY Sizes
<1> HIDE DEF d
<1>6. c \in 1..3 /\ c <= Len(d) /\ c \in Nat
  BY <1>1
<1>7. pack.count_len = c /\ pack.length = Partial(d, c - 1) /\ pack.type = s.type
  BY <1>2, Fields
<1>8. [pack EXCEPT !.count_len = c + 1,
                   !.length = @ + (d[c] % 128) * 128 ^ ((c + 1) - 2)] = p
  <2> DEFINE y == (d[c] % 128) * 128 ^ ((c + 1) - 2)
  <2>1. Partial(d, c) = Partial(d, c - 1) + y
    BY <1>1, <1>6, PartialStep
  <2> HIDE DEF y
  <2>2. WithDigit(pack, c + 1, y) = Known(s, c + 1, Partial(d, c - 1) + y, 0, <<>>, 0)
    BY <1>2, DigitKnown
  <2> QED
    BY <2>1, <2>2, Zenon DEF y, WithDigit
<1>9. IF MoreDigits(d[c], c + 1) THEN Continue(p, 1, "length")
      ELSE IF p.length > MaxPackLength THEN Fail
      ELSE Continue(p, 1, Start(s.type))
  BY <1>3, <1>7, <1>8, Zenon DEF ReadLength
<1> HIDE DEF p
<1>10. CASE MoreDigits(d[c], c + 1)
  <2>1. pack' = p /\ pos' = pos + 1 /\ pc' = "length" /\ got' = got
    BY <1>9, <1>10 DEF Continue
  <2>2. c + 1 \in 1..Len(d) /\ (c + 1) - 1 = c
    BY <1>1, <1>6, <1>10
  <2>3. pos' = o + (c + 1) /\ pos' \in Nat /\ pos' <= end
    BY <1>2, <1>4, <1>6, <2>1
  <2>4. AtLength(s, o)'
    BY <2>1, <2>2, <2>3 DEF AtLength, d, p
  <2> QED
    BY <2>1, <2>3, <2>4 DEF Outcome, Further, Reading
<1>11. CASE ~MoreDigits(d[c], c + 1) /\ p.length > MaxPackLength
  <2>1. Fail
    BY <1>9, <1>11
  <2>2. c = Len(d)
    BY <1>1, <1>6, <1>11
  <2>3. p.length = Declared(s)
    BY <1>1, <2>2, Fields DEF p
  <2>4. ~Legal(s)
    <3>1. Declared(s) \in Nat /\ MaxPackLength \in Nat
      BY Sizes, PacksAssumption
    <3> QED
      BY <1>11, <2>3, <3>1 DEF Legal
  <2> QED
    BY <2>1, <2>4 DEF Fail, Outcome, Failed
<1>12. CASE ~MoreDigits(d[c], c + 1) /\ ~(p.length > MaxPackLength)
  <2>1. pack' = p /\ pos' = pos + 1 /\ pc' = Start(s.type) /\ got' = got
    BY <1>9, <1>12 DEF Continue
  <2>2. c = Len(d)
    BY <1>1, <1>6, <1>12
  <2>3. pos' = o + Header(s) /\ pos' \in Nat /\ pos' <= end
    BY <1>1, <1>2, <1>4, <1>5, <1>6, <2>1, <2>2
  <2>4. Partial(d, c) = Declared(s) /\ c + 1 = Header(s)
    BY <1>1, <1>5, <2>2
  <2>5. AtBody(s, o)'
    BY <2>1, <2>3, <2>4 DEF AtBody, InBody, p
  <2> QED
    BY <2>1, <2>3, <2>5 DEF Outcome, Further, Reading
<1> QED
  BY <1>10, <1>11, <1>12

(* What ReadPack reads first tells the type.                               *)
LEMMA StartOf ==
  ASSUME NEW type
  PROVE  /\ Start(type) = "protocol" <=> type = CONNECT
         /\ Start(type) = "topic" <=> type = PUBLISH
         /\ Start(type) = "ack" <=> type \in Acks \cup {SUBACK}
         /\ Start(type) = "mid" <=> type \in Lists
         /\ Start(type) \in {"protocol", "topic", "ack", "mid", "nothing", "skip"}
BY DEF Start, CONNECT, PUBLISH, Acks, SUBACK, Lists, SUBSCRIBE, UNSUBSCRIBE, PINGREQ,
       DISCONNECT

(* Where the reader stands, by what it reads next.                         *)
LEMMA Place ==
  ASSUME NEW s, NEW o, Reading(s, o)
  PROVE  /\ pc = "length" => AtLength(s, o)
         /\ pc \in {"protocol", "topic", "ack", "mid", "nothing", "skip"} => AtBody(s, o)
         /\ pc = "flags" => AtFlags(s, o)
         /\ pc \in ConnectStrings => AtString(s, o)
         /\ pc = "msg" => AtMessage(s, o)
         /\ pc = "name" => AtName(s, o)
         /\ pc \in {"length", "protocol", "topic", "ack", "mid", "nothing", "skip",
                    "flags", "msg", "name"} \cup ConnectStrings
<1>1. CASE AtBody(s, o)
  <2>1. pc \in {"protocol", "topic", "ack", "mid", "nothing", "skip"}
    BY <1>1, StartOf DEF AtBody
  <2> QED
    BY <1>1, <2>1 DEF ConnectStrings
<1>2. CASE AtLength(s, o)
  BY <1>2 DEF AtLength, ConnectStrings
<1>3. CASE AtFlags(s, o)
  BY <1>3 DEF AtFlags, ConnectStrings
<1>4. CASE AtString(s, o)
  BY <1>4 DEF AtString, ConnectStrings
<1>5. CASE AtMessage(s, o)
  BY <1>5 DEF AtMessage, ConnectStrings
<1>6. CASE AtName(s, o)
  BY <1>6 DEF AtName, ConnectStrings
<1> QED
  BY <1>1, <1>2, <1>3, <1>4, <1>5, <1>6 DEF Reading

(* The beginnings of a sequence.                                           *)
LEMMA Beginnings ==
  ASSUME NEW t \in Seq(Nat)
  PROVE  /\ SubSeq(t, 1, 0) = <<>> /\ SubSeq(t, 1, Len(t)) = t
         /\ Len(t) >= 1 => SubSeq(t, 1, 1) = <<t[1]>>
         /\ \A k \in 0..(Len(t) - 1) :
               Append(SubSeq(t, 1, k), t[k + 1]) = SubSeq(t, 1, k + 1)
<1>1. SubSeq(t, 1, 0) = <<>>
  OBVIOUS
<1>2. SubSeq(t, 1, Len(t)) = t
  OBVIOUS
<1>3. \A k \in 0..(Len(t) - 1) : Append(SubSeq(t, 1, k), t[k + 1]) = SubSeq(t, 1, k + 1)
  OBVIOUS
<1>4. Len(t) >= 1 => SubSeq(t, 1, 1) = <<t[1]>>
  <2> SUFFICES ASSUME Len(t) >= 1
               PROVE  SubSeq(t, 1, 1) = <<t[1]>>
    OBVIOUS
  <2>1. 0 \in 0..(Len(t) - 1) /\ 0 + 1 = 1
    OBVIOUS
  <2>2. Append(SubSeq(t, 1, 0), t[1]) = SubSeq(t, 1, 1)
    BY <1>3, <2>1
  <2>3. Append(<<>>, t[1]) = <<t[1]>>
    OBVIOUS
  <2> QED
    BY <1>1, <2>2, <2>3
<1> QED
  BY <1>1, <1>2, <1>3, <1>4, Zenon

(* What a read of a string takes.                                          *)
LEMMA StringTaken ==
  ASSUME NEW n \in Nat, pos \in Nat, end \in Nat, pc \in Strings,
         IsNumber(pos, 2), Value(pos) = n
  PROVE  LET size == 2 + n + (IF pack.type = SUBSCRIBE THEN 1 ELSE 0) IN
         /\ Needed = IF pos + 2 <= end THEN size ELSE 2
         /\ Arrived => Needed = size /\ pos + size <= end
<1>1. pc \notin {"fixed", "length"}
  BY DEF Strings
<1>2. Needed = IF IsNumber(pos, 2) /\ pos + 2 <= end
               THEN 2 + Value(pos) + (IF pack.type = SUBSCRIBE THEN 1 ELSE 0) ELSE 2
  <2>1. /\ pc # "flags" /\ pc # "mid" /\ pc # "msg" /\ pc # "ack" /\ pc # "skip"
    BY DEF Strings
  <2> QED
    BY <1>1, <2>1, Zenon DEF Needed
<1>3. Needed = IF pos + 2 <= end THEN 2 + n + (IF pack.type = SUBSCRIBE THEN 1 ELSE 0)
               ELSE 2
  BY <1>2
<1>4. Arrived => pos + Needed <= end
  BY DEF Arrived
<1> QED
  BY <1>3, <1>4

(* What CONNECT declares, string by string.                                *)
LEMMA ConnectSizes ==
  ASSUME NEW s \in Packs, s.type = CONNECT
  PROVE  LET t == Later(s)  m == Len(t) IN
         /\ m \in Nat /\ m >= 1 /\ m = Announced(s.flags) - 1 /\ Len(s.strs) = m + 1
         /\ Declared(s) = 6 + s.strs[1] + Upto(t, 0, m) /\ Declared(s) >= 6 + s.strs[1]
         /\ \A k \in 1..m : /\ t[k] = s.strs[k + 1] /\ t[k] \in Nat
                            /\ Upto(t, 0, k) = Upto(t, 0, k - 1) + (2 + t[k])
                            /\ Upto(t, 0, k - 1) \in Nat /\ Upto(t, 0, k) \in Nat
                            /\ Upto(t, 0, k) <= Upto(t, 0, m)
<1> DEFINE t == Later(s)
           m == Len(t)
<1>1. /\ Len(s.strs) \in Nat /\ Len(s.strs) >= 2 /\ t \in Seq(Nat)
      /\ m = Len(s.strs) - 1 /\ Len(s.strs) = Announced(s.flags)
      /\ \A j \in 1..(Len(s.strs) - 1) : t[j] = s.strs[j + 1]
  BY LaterFacts
<1>2. /\ Bytes(Body(s)) = 6 + s.strs[1] + Upto(t, 0, m)
      /\ Bytes(Body(s)) = Declared(s)
  <2>1. s.type \notin Lists
    BY DEF Lists, CONNECT, SUBSCRIBE, UNSUBSCRIBE
  <2>2. 0 \in Nat
    OBVIOUS
  <2> QED
    BY <2>1, <2>2, BodyConnect, Sizes
<1> HIDE DEF t
<1>3. /\ \A k \in 0..Len(t) : Upto(t, 0, k) \in Nat
      /\ \A k \in 1..Len(t) :
            /\ Upto(t, 0, k) = Upto(t, 0, k - 1) + (2 + 0 + t[k])
            /\ Upto(t, 0, k) <= Upto(t, 0, Len(t))
  <2>1. 0 \in Nat
    OBVIOUS
  <2> QED
    BY <1>1, <2>1, UptoFacts
<1>4. \A k \in 1..m : t[k] \in Nat
  BY <1>1, ElementOfSeq, Zenon
<1>5. m \in Nat /\ m >= 1 /\ m = Announced(s.flags) - 1 /\ Len(s.strs) = m + 1
  BY <1>1
<1> HIDE DEF m
<1>6. ASSUME NEW k \in 1..m
      PROVE  /\ t[k] = s.strs[k + 1] /\ t[k] \in Nat
             /\ Upto(t, 0, k) = Upto(t, 0, k - 1) + (2 + t[k])
             /\ Upto(t, 0, k - 1) \in Nat /\ Upto(t, 0, k) \in Nat
             /\ Upto(t, 0, k) <= Upto(t, 0, m)
  <2>1. k \in 0..m /\ k - 1 \in 0..m /\ k \in 1..(Len(s.strs) - 1)
    BY <1>5
  <2>2. m = Len(t)
    BY DEF m
  <2>3. /\ t[k] = s.strs[k + 1] /\ t[k] \in Nat
        /\ Upto(t, 0, k - 1) \in Nat /\ Upto(t, 0, k) \in Nat
        /\ Upto(t, 0, k) <= Upto(t, 0, m)
        /\ Upto(t, 0, k) = Upto(t, 0, k - 1) + (2 + 0 + t[k])
    BY <1>1, <1>3, <1>4, <2>1, <2>2, Zenon
  <2> QED
    BY <2>3
<1>7. Declared(s) = 6 + s.strs[1] + Upto(t, 0, m) /\ Declared(s) >= 6 + s.strs[1]
  <2>1. m \in 1..m
    BY <1>5
  <2>2. Upto(t, 0, m) \in Nat
    BY <1>6, <2>1
  <2>3. s.strs[1] \in Nat
    BY LaterFacts
  <2>4. Declared(s) = 6 + s.strs[1] + Upto(t, 0, m)
    BY <1>2
  <2> QED
    BY <2>2, <2>3, <2>4
<1> QED
  BY <1>5, <1>6, <1>7 DEF m, t

(* CONNECT: the protocol's name ...                                        *)
LEMMA StepProtocol ==
  ASSUME NEW s, NEW o, Inside(s, o), Reading(s, o), ReadProtocol
  PROVE  Outcome(s, o)
<1> USE DEF Inside
<1>1. pc = "protocol" /\ Arrived
  BY DEF ReadProtocol, Ready
<1>2. AtBody(s, o) /\ s.type = CONNECT
  BY <1>1, Place, StartOf DEF AtBody
<1>3. pos = o + Header(s) /\ pack = Known(s, Header(s), Declared(s), 0, <<>>, 0)
  BY <1>2 DEF AtBody, InBody
<1>4. PICK n \in Nat : n = s.strs[1]
  BY <1>2, LaterFacts
<1>5. IsNumber(pos, 2) /\ Value(pos) = n
  <2>1. At(Body(s), 0, Num(2, n))
    BY <1>2, <1>4, BodyConnect
  <2>2. IsNumber(o + Header(s) + 0, 2) /\ Value(o + Header(s) + 0) = n
    BY <2>1, BodyRead
  <2>3. o + Header(s) + 0 = pos
    BY <1>3, Sizes
  <2> QED
    BY <2>2, <2>3
<1>6. pack.type = CONNECT /\ pack.length = Declared(s)
  BY <1>2, <1>3, Fields
<1>7. pos + 2 + n <= end
  <2>1. pc \in Strings /\ pack.type # SUBSCRIBE
    BY <1>1, <1>6 DEF Strings, CONNECT, SUBSCRIBE
  <2> QED
    BY <1>1, <1>5, <2>1, StringTaken
<1> DEFINE p == Known(s, Header(s), Declared(s), 0, <<n>>, Declared(s) - 2 - n - 4)
<1>8. CASE n > Declared(s) - 4
  <2>1. Declared(s) >= 6 + n
    BY <1>2, <1>4, ConnectSizes, Zenon
  <2>2. Declared(s) \in Nat
    BY Sizes
  <2> QED
    BY <1>8, <2>1, <2>2
<1>9. CASE ~(n > Declared(s) - 4)
  <2>1. Continue(WithStrings(pack, <<n>>, Declared(s) - 2 - n - 4), 2 + n, "flags")
    BY <1>5, <1>6, <1>9, Zenon DEF ReadProtocol, WithStrings
  <2>2. WithStrings(pack, <<n>>, Declared(s) - 2 - n - 4) = p
    BY <1>3, StringsKnown
  <2>3. pack' = p /\ pos' = pos + (2 + n) /\ pc' = "flags" /\ got' = got
    BY <2>1, <2>2 DEF Continue
  <2>4. /\ pos' = o + Header(s) + 2 + s.strs[1] /\ pos' \in Nat /\ pos' <= end
        /\ Declared(s) - 2 - n - 4 = Declared(s) - 6 - s.strs[1]
    <3>1. Header(s) \in Nat /\ Declared(s) \in Nat
      BY Sizes
    <3>2. pos = o + Header(s) /\ pos' = pos + (2 + n)
      BY <1>3, <2>3
    <3>3. /\ pos' = o + Header(s) + 2 + n /\ pos' \in Nat /\ pos' <= end
          /\ Declared(s) - 2 - n - 4 = Declared(s) - 6 - n
      BY <1>7, <3>1, <3>2
    <3> QED
      BY <1>4, <3>3
  <2>5. AtFlags(s, o)'
    BY <1>2, <1>4, <2>3, <2>4 DEF AtFlags, InBody
  <2> QED
    BY <2>3, <2>4, <2>5 DEF Outcome, Further, Reading
<1> QED
  BY <1>8, <1>9

(* ... the flags ...                                                       *)
LEMMA StepFlags ==
  ASSUME NEW s, NEW o, Inside(s, o), Reading(s, o), ReadFlags
  PROVE  Outcome(s, o)
<1> USE DEF Inside
<1>1. pc = "flags" /\ Arrived
  BY DEF ReadFlags, Ready
<1>2. AtFlags(s, o)
  BY <1>1, Place
<1>3. PICK n \in Nat : n = s.strs[1]
  BY <1>2, LaterFacts DEF AtFlags
<1>4. /\ s.type = CONNECT /\ pos = o + Header(s) + 2 + n
      /\ pack = Known(s, Header(s), Declared(s), 0, <<n>>, Declared(s) - 6 - n)
  BY <1>2, <1>3 DEF AtFlags, InBody
<1>5. Header(s) \in Nat /\ Declared(s) \in Nat
  BY Sizes
<1>6. Value(pos + 1) = s.flags
  <2>1. At(Body(s), 3 + n, Num(1, s.flags)) /\ 3 + n \in Nat
    BY <1>3, <1>4, BodyConnect
  <2>2. s.flags \in Nat
    <3>1. s.flags \in 0..255
      BY PackFields
    <3> QED
      BY <3>1
  <2>3. Value(o + Header(s) + (3 + n)) = s.flags
    BY <2>1, <2>2, BodyRead
  <2>4. o + Header(s) + (3 + n) = pos + 1
    BY <1>4, <1>5
  <2> QED
    BY <2>3, <2>4
<1>7. pos + 4 <= end
  <2>1. Needed = 4
    BY <1>1 DEF Needed, Strings
  <2> QED
    BY <1>1, <2>1 DEF Arrived
<1> DEFINE p == Known(s, Header(s), Declared(s), s.flags, <<n>>, Declared(s) - 6 - n)
<1>8. pack' = p /\ pos' = pos + 4 /\ pc' = "id" /\ got' = got
  <2>1. Continue(WithFlags(pack, s.flags), 4, "id")
    BY <1>6, Zenon DEF ReadFlags, WithFlags
  <2>2. WithFlags(pack, s.flags) = p
    BY <1>4, FieldKnown
  <2> QED
    BY <2>1, <2>2 DEF Continue
<1>9. /\ 1 \in Precede("id", s.flags) /\ Upto(Later(s), 0, 1 - 1) = 0
      /\ SubSeq(s.strs, 1, 1) = <<n>>
  <2>1. Upto(Later(s), 0, 0) = 0
    BY <1>4, LaterFacts, UptoFacts
  <2>2. s.strs \in Seq(Nat) /\ Len(s.strs) >= 2 /\ Len(s.strs) \in Nat
    BY <1>4, LaterFacts, PackFields
  <2>3. SubSeq(s.strs, 1, 1) = <<n>>
    <3>1. Len(s.strs) >= 1
      BY <2>2
    <3> QED
      BY <1>3, <2>2, <3>1, Beginnings, Zenon
  <2> QED
    BY <2>1, <2>3 DEF Precede
<1>10. /\ pos' = o + Header(s) + 6 + n + 0 /\ pos' \in Nat /\ pos' <= end
       /\ Declared(s) - 6 - n - 0 + 2 * (1 - 1) = Declared(s) - 6 - n
  BY <1>4, <1>5, <1>7, <1>8
<1>11. AtString(s, o)'
  <2>1. "id" \in ConnectStrings
    BY DEF ConnectStrings
  <2> HIDE DEF p
  <2>2. pack' = Known(s, Header(s), Declared(s), s.flags, SubSeq(s.strs, 1, 1),
                      Declared(s) - 6 - n - 0 + 2 * (1 - 1))
    BY <1>8, <1>9, <1>10 DEF p
  <2> QED
    BY <1>3, <1>4, <1>8, <1>9, <1>10, <2>1, <2>2 DEF AtString, InBody
<1> QED
  BY <1>8, <1>10, <1>11 DEF Outcome, Further, Reading

(* ... and the strings the flags announce, in their order: the string that *)
(* comes next is the one behind those read, and when none comes next all   *)
(* have been read.                                                         *)
LEMMA NextAnnounced ==
  ASSUME NEW name \in ConnectStrings, NEW rest \in Nat, rest > 0,
         NEW k \in Precede(name, pack.flags)
  PROVE  LET next == NextString(name, rest)  m == Announced(pack.flags) - 1 IN
         /\ k \in Nat /\ m \in Nat /\ k >= 1 /\ k <= m
         /\ IF next = "none" THEN k = m
            ELSE next \in ConnectStrings /\ k + 1 \in Precede(next, pack.flags)
<1>1. PICK will \in BOOLEAN, user \in BOOLEAN, password \in BOOLEAN :
         /\ will = Flag(pack.flags, 4) /\ user = Flag(pack.flags, 128)
         /\ password = Flag(pack.flags, 64)
  BY Zenon DEF Flag
<1> DEFINE next == NextString(name, rest)
           w == IF will THEN 2 ELSE 0
           u == IF user THEN 1 ELSE 0
           m == 1 + w + u + (IF password THEN 1 ELSE 0)
<1>2. Announced(pack.flags) - 1 = m
  BY <1>1 DEF Announced
<1>3. /\ Precede("id", pack.flags) = {1}
      /\ Precede("will_topic", pack.flags) = IF will THEN {2} ELSE {}
      /\ Precede("will_msg", pack.flags) = IF will THEN {3} ELSE {}
      /\ Precede("uname", pack.flags) = IF user THEN {2 + w} ELSE {}
      /\ Precede("upassword", pack.flags) = IF password THEN {2 + w + u} ELSE {}
  BY <1>1 DEF Precede
<1>4. /\ NextString("id", rest) = IF will THEN "will_topic" ELSE IF user THEN "uname"
                                  ELSE IF password THEN "upassword" ELSE "none"
      /\ NextString("will_topic", rest) = "will_msg"
      /\ NextString("will_msg", rest) = IF user THEN "uname"
                                        ELSE IF password THEN "upassword" ELSE "none"
      /\ NextString("uname", rest) = IF password THEN "upassword" ELSE "none"
      /\ NextString("upassword", rest) = "none"
  <2>1. /\ HasWill <=> will
        /\ HasUser <=> user
        /\ HasPassword <=> password
    BY <1>1, Zenon DEF HasWill, HasUser, HasPassword
  <2>2. NextString("id", rest) = IF will THEN "will_topic" ELSE IF user THEN "uname"
                                 ELSE IF password THEN "upassword" ELSE "none"
    BY <2>1 DEF NextString
  <2>3. NextString("will_topic", rest) = "will_msg"
    BY <2>1 DEF NextString
  <2>4. NextString("will_msg", rest) = IF user THEN "uname"
                                       ELSE IF password THEN "upassword" ELSE "none"
    BY <2>1 DEF NextString
  <2>5. /\ NextString("uname", rest) = IF password THEN "upassword" ELSE "none"
        /\ NextString("upassword", rest) = "none"
    BY <2>1 DEF NextString
  <2> QED
    BY <2>2, <2>3, <2>4, <2>5, Zenon
<1>5. /\ k \in Nat /\ m \in Nat /\ k >= 1 /\ k <= m
      /\ next = "none" => k = m
      /\ next # "none" => next \in ConnectStrings /\ k + 1 \in Precede(next, pack.flags)
  <2>1. CASE name = "id"
    BY <1>3, <1>4, <2>1 DEF ConnectStrings
  <2>2. CASE name = "will_topic"
    BY <1>3, <1>4, <2>2 DEF ConnectStrings
  <2>3. CASE name = "will_msg"
    BY <1>3, <1>4, <2>3 DEF ConnectStrings
  <2>4. CASE name = "uname"
    BY <1>3, <1>4, <2>4 DEF ConnectStrings
  <2>5. CASE name = "upassword"
    BY <1>3, <1>4, <2>5 DEF ConnectStrings
  <2> QED
    BY <2>1, <2>2, <2>3, <2>4, <2>5, Zenon DEF ConnectStrings
<1> QED
  BY <1>2, <1>5, Zenon

(* One of the strings of CONNECT, and the pack behind the last.            *)
LEMMA StepString ==
  ASSUME NEW s, NEW o, Inside(s, o), Reading(s, o), ReadConnectString
  PROVE  Outcome(s, o)
<1> USE DEF Inside
<1>1. pc \in ConnectStrings /\ Arrived
  BY DEF ReadConnectString, Ready, ConnectStrings
<1>2. AtString(s, o) /\ s.type = CONNECT
  BY <1>1, Place DEF AtString
<1>3. PICK t, m, h, a : t = Later(s) /\ m = Len(t) /\ h = Header(s) /\ a = s.strs[1]
  OBVIOUS
<1>4. /\ h \in Nat /\ a \in Nat /\ Declared(s) \in Nat
      /\ PackEnd(s, o) = o + h + Declared(s)
  <2>1. s.type \notin Lists
    BY <1>2 DEF Lists, CONNECT, SUBSCRIBE, UNSUBSCRIBE
  <2> QED
    BY <1>2, <1>3, <2>1, Sizes, LaterFacts
<1>5. PICK k \in Precede(pc, s.flags) :
         /\ pos = o + h + 6 + a + Upto(t, 0, k - 1)
         /\ pack = Known(s, h, Declared(s), s.flags, SubSeq(s.strs, 1, k),
                         Declared(s) - 6 - a - Upto(t, 0, k - 1) + 2 * (k - 1))
  BY <1>2, <1>3 DEF AtString, InBody
<1>6. pack.flags = s.flags /\ pack.type = CONNECT
  BY <1>2, <1>5, Fields
<1>7. k \in Nat /\ k >= 1 /\ k <= m /\ m \in Nat /\ m = Announced(s.flags) - 1
  <2>1. 1 \in Nat /\ 1 > 0
    OBVIOUS
  <2>2. k \in Nat /\ k >= 1 /\ k <= Announced(s.flags) - 1
    BY <1>1, <1>5, <1>6, <2>1, NextAnnounced
  <2> QED
    BY <1>2, <1>3, <2>2, ConnectSizes
<1>8. PICK n \in Nat, before \in Nat, after \in Nat, all \in Nat :
         /\ n = t[k] /\ n = s.strs[k + 1]
         /\ before = Upto(t, 0, k - 1) /\ after = Upto(t, 0, k) /\ all = Upto(t, 0, m)
         /\ after = before + (2 + n) /\ after <= all /\ Declared(s) = 6 + a + all
  <2>1. k \in 1..m /\ m \in 1..m
    BY <1>7
  <2>2. /\ t[k] \in Nat /\ t[k] = s.strs[k + 1]
        /\ Upto(t, 0, k - 1) \in Nat /\ Upto(t, 0, k) \in Nat
        /\ Upto(t, 0, k) = Upto(t, 0, k - 1) + (2 + t[k])
        /\ Upto(t, 0, k) <= Upto(t, 0, m)
    BY <1>2, <1>3, <2>1, ConnectSizes, Zenon
  <2>3. Upto(t, 0, m) \in Nat /\ Declared(s) = 6 + a + Upto(t, 0, m)
    BY <1>2, <1>3, <2>1, ConnectSizes, Zenon
  <2> QED
    BY <2>2, <2>3, Zenon
<1>9. pos = o + h + 6 + a + before
  BY <1>5, <1>8
<1>10. IsNumber(pos, 2) /\ Value(pos) = n
  <2>1. k \in 1..m
    BY <1>7
  <2>2. At(Body(s), 6 + a + before, Num(2, n)) /\ 6 + a + before \in Nat
    <3>1. At(Body(s), 6 + a + Upto(t, 0, k - 1), Num(2, t[k]))
      BY <1>2, <1>3, <2>1, BodyConnect, Zenon
    <3>2. 6 + a + before \in Nat
      BY <1>4
    <3> QED
      BY <1>8, <3>1, <3>2, Zenon
  <2>3. IsNumber(o + h + (6 + a + before), 2) /\ Value(o + h + (6 + a + before)) = n
    BY <1>3, <2>2, BodyRead
  <2>4. o + h + (6 + a + before) = pos
    BY <1>4, <1>9
  <2> QED
    BY <2>3, <2>4
<1>11. pos + 2 + n <= end
  <2>1. pc \in Strings /\ pack.type # SUBSCRIBE
    BY <1>1, <1>6 DEF Strings, ConnectStrings, CONNECT, SUBSCRIBE
  <2> QED
    BY <1>1, <1>10, <2>1, StringTaken
<1>12. PICK rest \in Nat : rest = all - after + 2 * k /\ rest > 0
  BY <1>7, <1>8
<1>13. pack.rest - n = rest
  <2>1. pack.rest = Declared(s) - 6 - a - before + 2 * (k - 1)
    BY <1>5, <1>8, Fields
  <2> QED
    BY <1>4, <1>7, <1>8, <1>12, <2>1
<1> DEFINE p == Known(s, h, Declared(s), s.flags, SubSeq(s.strs, 1, k + 1), rest)
           next == NextString(pc, rest)
<1>14. WithString(pack, n, rest) = p
  <2>1. WithString(pack, n, rest)
          = Known(s, h, Declared(s), s.flags, Append(SubSeq(s.strs, 1, k), n), rest)
    BY <1>5, StringKnown
  <2>2. Append(SubSeq(s.strs, 1, k), n) = SubSeq(s.strs, 1, k + 1)
    <3>1. s.strs \in Seq(Nat) /\ Len(s.strs) = m + 1
      BY <1>2, <1>3, PackFields, ConnectSizes
    <3>2. k \in 0..((m + 1) - 1)
      BY <1>7
    <3>3. Append(SubSeq(s.strs, 1, k), s.strs[k + 1]) = SubSeq(s.strs, 1, k + 1)
      BY <3>1, <3>2, Beginnings, Zenon
    <3> QED
      BY <1>8, <3>3, Zenon
  <2> QED
    BY <2>1, <2>2, Zenon
<1>15. IF Refused(pc, n, rest) THEN Fail
       ELSE IF next = "none" THEN Return(p, 2 + n)
       ELSE Continue(p, 2 + n, next)
  BY <1>10, <1>13, <1>14, Zenon DEF ReadConnectString, WithString
<1>16. IF next = "none" THEN k = m
       ELSE next \in ConnectStrings /\ k + 1 \in Precede(next, s.flags)
  BY <1>1, <1>6, <1>7, <1>12, NextAnnounced
<1> HIDE DEF next
<1>17. CASE Refused(pc, n, rest)
  <2>1. Fail
    BY <1>15, <1>17
  <2>2. ~Legal(s)
    <3>1. pc = "id" /\ (n > 64 \/ n < 1)
      BY <1>12, <1>17 DEF Refused
    <3>2. k = 1
      BY <1>5, <3>1 DEF Precede
    <3>3. n = s.strs[2]
      BY <1>8, <3>2
    <3> QED
      BY <1>2, <3>1, <3>3 DEF Legal
  <2> QED
    BY <2>1, <2>2 DEF Fail, Outcome, Failed
<1>18. CASE ~Refused(pc, n, rest) /\ next = "none"
  <2>1. Return(p, 2 + n) /\ k = m
    BY <1>15, <1>16, <1>18, Zenon
  <2>2. /\ got' = Append(got, Says(p.type, p.qos, p.flags, p.strs, p.msg))
        /\ pos' = pos + (2 + n) /\ pc' = "fixed"
    BY <2>1 DEF Return
  <2>3. /\ p.type = s.type /\ p.qos = s.qos /\ p.flags = s.flags /\ p.msg = 0
        /\ p.strs = SubSeq(s.strs, 1, m + 1)
    <3>1. /\ p.type = s.type /\ p.qos = s.qos /\ p.flags = s.flags /\ p.msg = 0
          /\ p.strs = SubSeq(s.strs, 1, k + 1)
      BY DEF Known
    <3> HIDE DEF p
    <3> QED
      BY <2>1, <3>1, Zenon
  <2>4. SubSeq(s.strs, 1, m + 1) = s.strs /\ s.msg = 0
    <3>1. s.strs \in Seq(Nat) /\ Len(s.strs) = m + 1 /\ WellFormed(s)
      BY <1>2, <1>3, PackFields, ConnectSizes
    <3>2. s.type # PUBLISH
      BY <1>2 DEF CONNECT, PUBLISH
    <3> QED
      BY <3>1, <3>2, Beginnings, Zenon DEF WellFormed
  <2>5. pos' = PackEnd(s, o) /\ PackEnd(s, o) <= end
    <3>1. after = all
      BY <1>8, <2>1
    <3>2. pos' = pos + (2 + n)
      BY <2>2
    <3> QED
      BY <1>4, <1>8, <1>9, <1>11, <3>1, <3>2
  <2> HIDE DEF p
  <2>6. Returned(s, o, Says(s.type, s.qos, s.flags, s.strs, s.msg))
    BY <2>2, <2>3, <2>4, <2>5, Zenon DEF Returned
  <2> QED
    BY <2>6, Zenon DEF Outcome
<1>19. CASE ~Refused(pc, n, rest) /\ next # "none"
  <2>1. pack' = p /\ pos' = pos + (2 + n) /\ pc' = next /\ got' = got
    BY <1>15, <1>19 DEF Continue
  <2>2. next \in ConnectStrings /\ k + 1 \in Precede(next, s.flags) /\ (k + 1) - 1 = k
    BY <1>7, <1>16, <1>19
  <2>3. pos' = pos + (2 + n)
    BY <2>1
  <2>4. pos' = o + h + 6 + a + after /\ pos' \in Nat /\ pos' <= end
    BY <1>4, <1>8, <1>9, <1>11, <2>3
  <2>5. rest = Declared(s) - 6 - a - after + 2 * ((k + 1) - 1)
    BY <1>4, <1>7, <1>8, <1>12
  <2>6. pos' = o + h + 6 + a + Upto(t, 0, (k + 1) - 1)
    BY <1>8, <2>2, <2>4
  <2>7. pack' = Known(s, h, Declared(s), s.flags, SubSeq(s.strs, 1, k + 1),
                      Declared(s) - 6 - a - Upto(t, 0, (k + 1) - 1) + 2 * ((k + 1) - 1))
    <3>1. rest = Declared(s) - 6 - a - Upto(t, 0, (k + 1) - 1) + 2 * ((k + 1) - 1)
      BY <1>8, <2>2, <2>5
    <3> QED
      BY <2>1, <3>1
  <2>8. AtString(s, o)'
    BY <1>2, <1>3, <2>1, <2>2, <2>6, <2>7, Zenon DEF AtString, InBody
  <2> QED
    BY <2>1, <2>4, <2>8, Zenon DEF Outcome, Further, Reading
<1> QED
  BY <1>17, <1>18, <1>19

(* PUBLISH: the topic ...                                                  *)
LEMMA StepTopic ==
  ASSUME NEW s, NEW o, Inside(s, o), Reading(s, o), ReadTopic
  PROVE  Outcome(s, o)
<1> USE DEF Inside
<1>1. pc = "topic" /\ Arrived
  BY DEF ReadTopic, Ready
<1>2. AtBody(s, o) /\ s.type = PUBLISH
  BY <1>1, Place, StartOf DEF AtBody
<1>3. PICK h \in Nat, d \in Nat, n \in Nat :
         h = Header(s) /\ d = Declared(s) /\ n = Wrap(s.strs[1])
  <2>1. s.strs[1] \in Nat
    BY <1>2, BodyPublish
  <2>2. Wrap(s.strs[1]) \in Nat
    BY <2>1, WrapFacts
  <2> QED
    BY <2>2, Sizes
<1>4. pos = o + h /\ pack = Known(s, h, d, 0, <<>>, 0)
  BY <1>2, <1>3 DEF AtBody, InBody
<1>5. IsNumber(pos, 2) /\ Value(pos) = n
  <2>1. At(Body(s), 0, Num(2, n))
    BY <1>2, <1>3, BodyPublish
  <2>2. IsNumber(o + h + 0, 2) /\ Value(o + h + 0) = n
    BY <1>3, <2>1, BodyRead
  <2>3. o + h + 0 = pos
    BY <1>4
  <2> QED
    BY <2>2, <2>3
<1>6. pack.type = PUBLISH /\ pack.length = d
  BY <1>2, <1>4, Fields
<1>7. pos + 2 + n <= end
  <2>1. pc \in Strings /\ pack.type # SUBSCRIBE
    BY <1>1, <1>6 DEF Strings, PUBLISH, SUBSCRIBE
  <2> QED
    BY <1>1, <1>5, <2>1, StringTaken
<1>8. CASE n < 1
  <2>1. Fail
    BY <1>5, <1>8, Zenon DEF ReadTopic
  <2>2. ~Legal(s)
    <3>1. PICK a \in Nat : a = s.strs[1] /\ n = Wrap(a)
      BY <1>2, <1>3, BodyPublish
    <3>2. a <= MaxString => n = a
      BY <3>1, WrapFacts
    <3>3. ~(a \in 1..MaxString)
      <4>1. MaxString \in Nat
        BY SMT DEF MaxString
      <4> QED
        BY <1>8, <3>2, <4>1
    <3> QED
      BY <1>2, <3>1, <3>3, Zenon DEF Legal
  <2> QED
    BY <2>1, <2>2 DEF Fail, Outcome, Failed
<1>9. CASE ~(n < 1)
  <2>1. Continue(WithStrings(pack, <<n>>, d - n - 2), 2 + n, "msg")
    BY <1>5, <1>6, <1>9, Zenon DEF ReadTopic, WithStrings
  <2>2. WithStrings(pack, <<n>>, d - n - 2) = Known(s, h, d, 0, <<n>>, d - n - 2)
    BY <1>4, StringsKnown
  <2>3. /\ pack' = Known(s, h, d, 0, <<n>>, d - n - 2) /\ pos' = pos + (2 + n)
        /\ pc' = "msg" /\ got' = got
    BY <2>1, <2>2 DEF Continue
  <2>4. pos = o + h /\ pos' = pos + (2 + n)
    BY <1>4, <2>3
  <2>5. pos' = o + h + 2 + n /\ pos' \in Nat /\ pos' <= end
    BY <1>7, <2>4
  <2>6. AtMessage(s, o)'
    BY <1>2, <1>3, <2>3, <2>5 DEF AtMessage, InBody
  <2> QED
    BY <2>3, <2>5, <2>6 DEF Outcome, Further, Reading
<1> QED
  BY <1>8, <1>9

(* ... and the message.                                                    *)
LEMMA StepMessage ==
  ASSUME NEW s, NEW o, Inside(s, o), Reading(s, o), ReadMessage
  PROVE  Outcome(s, o)
<1> USE DEF Inside
<1>1. pc = "msg"
  BY DEF ReadMessage
<1>2. AtMessage(s, o) /\ s.type = PUBLISH
  BY <1>1, Place DEF AtMessage
<1>3. PICK h \in Nat, d \in Nat, a \in Nat, n \in Nat :
         h = Header(s) /\ d = Declared(s) /\ a = s.strs[1] /\ n = Wrap(a)
  <2>1. s.strs[1] \in Nat
    BY <1>2, BodyPublish
  <2>2. Wrap(s.strs[1]) \in Nat
    BY <2>1, WrapFacts
  <2> QED
    BY <2>1, <2>2, Sizes
<1>4. pos = o + h + 2 + n /\ pack = Known(s, h, d, 0, <<n>>, d - n - 2)
  BY <1>2, <1>3 DEF AtMessage, InBody
<1>5. pack.qos = s.qos /\ pack.rest = d - n - 2
  BY <1>4, Fields
<1>6. PICK mid \in Nat, msg \in Nat :
         mid = (IF s.qos > 0 THEN 2 ELSE 0) /\ msg = s.msg
  BY PackFields
<1>7. d = 2 + a + mid + msg /\ PackEnd(s, o) = o + h + d
  <2>1. s.type \notin Lists
    BY <1>2 DEF Lists, PUBLISH, SUBSCRIBE, UNSUBSCRIBE
  <2>2. Bytes(Body(s)) = 2 + a + mid + msg
    BY <1>2, <1>3, <1>6, BodyPublish, Zenon
  <2>3. Bytes(Body(s)) = d /\ PackEnd(s, o) = o + h + Bytes(Body(s))
    BY <1>3, <2>1, Sizes, Zenon
  <2> QED
    BY <2>2, <2>3, Zenon
<1>8. PICK rest \in Nat : rest = d - n - 2 /\ rest >= mid
  <2>1. n <= a
    BY <1>3, WrapFacts
  <2> QED
    BY <1>7, <2>1
<1>9. MidBytes = mid
  BY <1>5, <1>6 DEF MidBytes
<1>10. Needed = rest
  <2>1. pc \notin {"fixed", "length"} /\ pc \notin Strings /\ pc # "flags" /\ pc # "mid"
    BY <1>1 DEF Strings
  <2>2. Needed = IF pack.rest > MidBytes THEN pack.rest ELSE MidBytes
    BY <1>1, <2>1 DEF Needed
  <2> QED
    BY <1>5, <1>8, <1>9, <2>2
<1>11. CASE pack.qos > 0 /\ pack.rest < 2
  <2>1. pack.rest >= mid /\ s.qos > 0
    BY <1>5, <1>8, <1>11
  <2>2. mid = 2
    BY <1>6, <2>1
  <2> QED
    BY <1>5, <1>8, <1>11, <2>1, <2>2
<1>12. CASE ~(pack.qos > 0 /\ pack.rest < 2)
  <2> DEFINE p == WithMessage(pack, rest - mid)
  <2>1. Arrived /\ Return(p, rest)
    BY <1>9, <1>10, <1>12, Zenon DEF ReadMessage, WithMessage, Ready
  <2>2. /\ p.type = s.type /\ p.qos = s.qos /\ p.flags = 0 /\ p.strs = <<n>>
        /\ p.msg = rest - mid
    BY <1>4, FieldKnown
  <2> HIDE DEF p
  <2>3. /\ got' = Append(got, Says(p.type, p.qos, p.flags, p.strs, p.msg))
        /\ pos' = pos + rest /\ pc' = "fixed"
    BY <2>1 DEF Return
  <2>4. pos' = PackEnd(s, o) /\ PackEnd(s, o) <= end
    <3>1. pos + rest <= end
      BY <1>10, <2>1 DEF Arrived
    <3>2. pos = o + h + 2 + n /\ pos' = pos + rest
      BY <1>4, <2>3
    <3>3. pos' = o + h + d /\ o + h + d <= end
      BY <1>8, <3>1, <3>2
    <3> QED
      BY <1>7, <3>3, Zenon
  <2>5. a <= MaxString => Says(p.type, p.qos, p.flags, p.strs, p.msg)
                            = Says(s.type, s.qos, s.flags, s.strs, s.msg)
    <3> SUFFICES ASSUME a <= MaxString
                 PROVE  Says(p.type, p.qos, p.flags, p.strs, p.msg)
                          = Says(s.type, s.qos, s.flags, s.strs, s.msg)
      OBVIOUS
    <3>1. n = a
      BY <1>3, WrapFacts
    <3>2. rest - mid = msg
      BY <1>7, <1>8, <3>1
    <3>3. s.strs = <<a>> /\ s.flags = 0
      <4>1. s.type # CONNECT
        BY <1>2 DEF CONNECT, PUBLISH
      <4>2. s.flags = 0
        BY <4>1, PackFields DEF WellFormed
      <4> QED
        BY <1>2, <1>3, <4>2, BodyPublish
    <3> QED
      BY <1>6, <2>2, <3>1, <3>2, <3>3, Zenon
  <2>6. a <= MaxString \/ s.strs[1] > MaxString
    <3>1. MaxString \in Nat
      BY SMT DEF MaxString
    <3>2. a <= MaxString \/ a > MaxString
      BY <3>1
    <3> QED
      BY <1>3, <3>2, Zenon
  <2>7. Returned(s, o, Says(p.type, p.qos, p.flags, p.strs, p.msg))
    BY <1>2, <2>3, <2>4, <2>5, <2>6, Zenon DEF Returned
  <2> QED
    BY <2>7, Zenon DEF Outcome
<1> QED
  BY <1>11, <1>12

(* A pack without strings, whose body is taken as a whole or is empty.     *)
LEMMA PlainReturned ==
  ASSUME NEW s, NEW o, Inside(s, o), AtBody(s, o), Plain(s),
         Return(pack, Declared(s)), pos + Declared(s) <= end
  PROVE  Outcome(s, o)
<1> USE DEF Inside
<1>1. PICK h \in Nat, d \in Nat : h = Header(s) /\ d = Declared(s)
  BY Sizes
<1>2. pos = o + h /\ pack = Known(s, h, d, 0, <<>>, 0)
  BY <1>1 DEF AtBody, InBody
<1>3. PackEnd(s, o) = o + h + d
  <2>1. s.type \notin Lists
    BY DEF Plain
  <2> QED
    BY <1>1, <2>1, Sizes, Zenon
<1>4. /\ got' = Append(got, Says(pack.type, pack.qos, pack.flags, pack.strs, pack.msg))
      /\ pos' = pos + d /\ pc' = "fixed"
  BY <1>1 DEF Return
<1>5. s.strs = <<>> /\ s.flags = 0 /\ s.msg = 0
  <2>1. s.type \notin {CONNECT, PUBLISH} \cup Lists /\ s.type # CONNECT /\ s.type # PUBLISH
    BY DEF Plain
  <2> QED
    BY <2>1, PackFields DEF WellFormed
<1>6. /\ pack.type = s.type /\ pack.qos = s.qos /\ pack.flags = 0 /\ pack.strs = <<>>
      /\ pack.msg = 0
  BY <1>2, Fields
<1>7. pos' = PackEnd(s, o) /\ PackEnd(s, o) <= end
  <2>1. pos = o + h /\ pos' = pos + d /\ pos + d <= end
    BY <1>1, <1>2, <1>4
  <2>2. pos' = o + h + d /\ o + h + d <= end
    BY <2>1
  <2> QED
    BY <1>3, <2>2, Zenon
<1>8. Returned(s, o, Says(s.type, s.qos, s.flags, s.strs, s.msg))
  BY <1>4, <1>5, <1>6, <1>7, Zenon DEF Returned
<1> QED
  BY <1>8, Zenon DEF Outcome

(* The acknowledgements, ...                                               *)
LEMMA StepAck ==
  ASSUME NEW s, NEW o, Inside(s, o), Reading(s, o), ReadAck
  PROVE  Outcome(s, o)
<1> USE DEF Inside
<1>1. pc = "ack"
  BY DEF ReadAck
<1>2. AtBody(s, o) /\ Plain(s)
  <2>1. AtBody(s, o) /\ s.type \in Acks \cup {SUBACK}
    BY <1>1, Place, StartOf DEF AtBody
  <2> QED
    BY <2>1 DEF Plain, Acks, SUBACK, CONNECT, PUBLISH, Lists, SUBSCRIBE, UNSUBSCRIBE
<1>3. pack.length = Declared(s)
  BY <1>2, Fields DEF AtBody, InBody
<1>4. CASE pack.length # AckLength
  <2>1. s.type \in Acks \cup {SUBACK} /\ s.type \notin Lists
    BY <1>1, <1>2, StartOf DEF AtBody, Plain
  <2>2. Declared(s) = PlainBytes(s.type)
    BY <1>2, <2>1, BodyPlain, Sizes
  <2>3. pack.type = s.type
    BY <1>2, Fields DEF AtBody, InBody
  <2>4. PlainBytes(s.type) = AckLength
    BY <2>1, <2>3 DEF PlainBytes, AckLength
  <2> QED
    BY <1>3, <1>4, <2>2, <2>4
<1>5. CASE pack.length = AckLength
  <2>1. Arrived /\ Return(pack, Declared(s))
    BY <1>3, <1>5, Zenon DEF ReadAck, Ready
  <2>2. Needed = Declared(s)
    BY <1>1, <1>3 DEF Needed, Strings
  <2>3. pos + Declared(s) <= end
    BY <2>1, <2>2 DEF Arrived
  <2> QED
    BY <1>2, <2>1, <2>3, PlainReturned
<1> QED
  BY <1>4, <1>5

(* ... PINGREQ and DISCONNECT ...                                          *)
LEMMA StepNothing ==
  ASSUME NEW s, NEW o, Inside(s, o), Reading(s, o), ReadNothing
  PROVE  Outcome(s, o)
<1> USE DEF Inside
<1>1. pc = "nothing" /\ Return(pack, 0)
  BY DEF ReadNothing
<1>2. AtBody(s, o) /\ s.type \in {PINGREQ, DISCONNECT}
  <2>1. AtBody(s, o) /\ Start(s.type) = "nothing"
    BY <1>1, Place DEF AtBody
  <2> QED
    BY <2>1 DEF Start
<1>3. Plain(s) /\ PlainBytes(s.type) = 0
  BY <1>2 DEF Plain, PlainBytes, Acks, SUBACK, CONNACK, CONNECT, PUBLISH, Lists,
              SUBSCRIBE, UNSUBSCRIBE, PINGREQ, DISCONNECT
<1>4. Declared(s) = 0
  <2>1. s.type \notin Lists
    BY <1>3 DEF Plain
  <2> QED
    BY <1>3, <2>1, BodyPlain, Sizes
<1>5. pos + Declared(s) <= end
  BY <1>4
<1> QED
  BY <1>1, <1>2, <1>3, <1>4, <1>5, PlainReturned

(* ... and the types ReadPack does not know.                               *)
LEMMA StepSkip ==
  ASSUME NEW s, NEW o, Inside(s, o), Reading(s, o), SkipUnknown
  PROVE  Outcome(s, o)
<1> USE DEF Inside
<1>1. pc = "skip" /\ Arrived /\ Return(pack, pack.length)
  BY DEF SkipUnknown, Ready
<1>2. AtBody(s, o) /\ Start(s.type) = "skip"
  BY <1>1, Place DEF AtBody
<1>3. Plain(s)
  BY <1>2, StartOf DEF Plain
<1>4. pack.length = Declared(s)
  BY <1>2, Fields DEF AtBody, InBody
<1>5. Needed = Declared(s)
  BY <1>1, <1>4 DEF Needed, Strings
<1>6. pos + Declared(s) <= end
  BY <1>1, <1>5 DEF Arrived
<1> QED
  BY <1>1, <1>2, <1>3, <1>4, <1>6, PlainReturned

(* The bytes of the strings before the last one.                           *)
LEMMA UptoLast ==
  ASSUME NEW t \in Seq(Nat), NEW e \in Nat, NEW k \in 0..(Len(t) - 1)
  PROVE  Upto(t, e, k) <= Upto(t, e, Len(t) - 1)
<1>1. PICK m \in Nat : m = Len(t)
  BY LenProperties, Zenon
<1>2. m >= 1 /\ m \in 1..m /\ m - 1 \in 0..m
  BY <1>1
<1>3. /\ Upto(t, e, 0) = 0 /\ \A j \in 0..m : Upto(t, e, j) \in Nat
      /\ \A j \in 1..m : /\ Upto(t, e, j) = Upto(t, e, j - 1) + (2 + e + t[j])
                         /\ Offset(Entries(t, e), j) = Upto(t, e, j - 1)
  BY <1>1, UptoFacts, Zenon
<1>4. CASE k = 0
  BY <1>1, <1>2, <1>3, <1>4
<1>5. CASE k # 0
  <2>1. k \in 1..(m - 1) /\ k \in 1..m
    BY <1>1, <1>5
  <2>2. /\ Entries(t, e) \in Seq(Item) /\ Len(Entries(t, e)) = m
        /\ Entries(t, e)[k].w = 2 + e + t[k]
    BY <1>1, <2>1, EntriesType, Zenon
  <2>3. Offset(Entries(t, e), k) + Entries(t, e)[k].w <= Offset(Entries(t, e), m)
    BY <1>2, <2>1, <2>2, OffsetGrows, Zenon
  <2>4. Upto(t, e, k - 1) + (2 + e + t[k]) <= Upto(t, e, m - 1)
    BY <1>2, <1>3, <2>1, <2>2, <2>3, Zenon
  <2>5. Upto(t, e, k) <= Upto(t, e, m - 1)
    BY <1>3, <2>1, <2>4, Zenon
  <2> QED
    BY <1>1, <2>5, Zenon
<1> QED
  BY <1>4, <1>5

(* What a list of topics declares, topic by topic.  The loop goes on       *)
(* exactly while there are topics.                                         *)
LEMMA ListSizes ==
  ASSUME NEW s \in Packs, s.type \in Lists, Framed(s)
  PROVE  LET t == s.strs  m == Len(t)  e == Extra(s) IN
         /\ t \in Seq(Nat) /\ m \in Nat /\ e \in Nat
         /\ Bytes(Body(s)) = 2 + Upto(t, e, m)
         /\ Upto(t, e, 0) = 0
         /\ \A k \in 1..m : /\ t[k] \in Nat /\ Wrap(t[k]) = t[k]
                            /\ Upto(t, e, k) = Upto(t, e, k - 1) + (2 + e + t[k])
                            /\ Upto(t, e, k) <= Upto(t, e, m)
         /\ \A k \in 0..m : /\ Upto(t, e, k) \in Nat
                            /\ MoreTopics(Declared(s) - Upto(t, e, k)) <=> k < m
<1>1. PICK t \in Seq(Nat), m \in Nat, e \in Nat :
         t = s.strs /\ m = Len(t) /\ e = Extra(s)
  <2>1. s.strs \in Seq(Nat)
    BY PackFields
  <2>2. Len(s.strs) \in Nat /\ Extra(s) \in Nat
    BY <2>1, LenProperties DEF Extra
  <2> QED
    BY <2>1, <2>2, Zenon
<1>2. /\ Upto(t, e, 0) = 0 /\ \A k \in 0..m : Upto(t, e, k) \in Nat
      /\ \A k \in 1..m : /\ Upto(t, e, k) = Upto(t, e, k - 1) + (2 + e + t[k])
                         /\ Upto(t, e, k) <= Upto(t, e, m)
  BY <1>1, UptoFacts, Zenon
<1>3. \A k \in 1..m : t[k] \in Nat
  BY <1>1, ElementOfSeq, Zenon
<1>4. PICK all \in Nat, d \in Nat :
         /\ all = Upto(t, e, m) /\ d = Declared(s) /\ Bytes(Body(s)) = 2 + all
         /\ d = IF s.own THEN all ELSE 2 + all
  <2>1. Bytes(Body(s)) = 2 + Upto(t, e, m)
    BY <1>1, BodyList, Zenon
  <2>2. m \in 0..m
    OBVIOUS
  <2>3. PICK all \in Nat : all = Upto(t, e, m)
    BY <1>2, <2>2, Zenon
  <2>4. /\ Declared(s) \in Nat
        /\ Bytes(Body(s)) = Declared(s) + (IF s.own THEN 2 ELSE 0)
    BY DeclaredFacts
  <2>5. Declared(s) = IF s.own THEN all ELSE 2 + all
    BY <2>1, <2>3, <2>4
  <2> QED
    BY <2>1, <2>3, <2>4, <2>5, Zenon
<1>5. ASSUME s.own
      PROVE  m >= 1 /\ d < 128 /\ 2 + e + t[m] > 3
  <2>1. d < 128 /\ LastTopic(s) > 3
    BY <1>4, <1>5 DEF Framed
  <2>2. m >= 1
    <3>1. Len(s.strs) > 0
      BY <1>5, PackFields DEF WellFormed
    <3> QED
      BY <1>1, <3>1
  <2>3. LastTopic(s) = t[m] + (IF s.type = SUBSCRIBE THEN 3 ELSE 2)
    BY <1>1, Zenon DEF LastTopic, Last
  <2>4. e = IF s.type = SUBSCRIBE THEN 1 ELSE 0
    BY <1>1 DEF Extra
  <2>5. t[m] \in Nat
    BY <1>3, <2>2
  <2> QED
    BY <2>1, <2>2, <2>3, <2>4, <2>5
<1>6. ASSUME NEW k \in 1..m
      PROVE  Wrap(t[k]) = t[k]
  <2>1. t[k] \in Nat /\ Upto(t, e, k - 1) \in Nat
    <3>1. k - 1 \in 0..m
      OBVIOUS
    <3> QED
      BY <1>2, <1>3, <3>1, Zenon
  <2>2. t[k] <= MaxString
    <3>1. CASE s.own
      <4>1. Upto(t, e, k - 1) + (2 + e + t[k]) <= d
        BY <1>2, <1>4, <3>1, Zenon
      <4>2. d < 128
        BY <1>5, <3>1
      <4>3. t[k] <= 128
        BY <2>1, <4>1, <4>2
      <4> QED
        BY <2>1, <4>3, SMT DEF MaxString
    <3>2. CASE ~s.own
      <4>1. k \in DOMAIN s.strs
        BY <1>1
      <4> QED
        BY <1>1, <3>2, <4>1, PackFields, Zenon DEF WellFormed
    <3> QED
      BY <3>1, <3>2
  <2> QED
    BY <2>1, <2>2, WrapFacts
<1>7. ASSUME NEW k \in 0..m
      PROVE  MoreTopics(d - Upto(t, e, k)) <=> k < m
  <2>1. CASE k = m
    <3>1. d - Upto(t, e, k) <= 2
      BY <1>4, <2>1
    <3>2. d - Upto(t, e, k) \in Int
      BY <1>4, <2>1
    <3> QED
      BY <2>1, <3>1, <3>2 DEF MoreTopics
  <2>2. CASE k < m
    <3>1. k \in 0..(m - 1) /\ m \in 1..m /\ m - 1 \in 0..m
      BY <2>2
    <3>2. PICK a \in Nat, b \in Nat, n \in Nat :
             a = Upto(t, e, k) /\ b = Upto(t, e, m - 1) /\ n = t[m]
      BY <1>2, <1>3, <3>1, Zenon
    <3>3. a <= b
      BY <1>1, <3>1, <3>2, UptoLast, Zenon
    <3>4. all = b + (2 + e + n)
      BY <1>2, <1>4, <3>1, <3>2, Zenon
    <3>5. d - a > 3
      <4>1. CASE s.own
        <5>1. 2 + e + n > 3 /\ d = all
          BY <1>4, <1>5, <3>2, <4>1
        <5> QED
          BY <3>3, <3>4, <5>1
      <4>2. CASE ~s.own
        <5>1. d = 2 + all
          BY <1>4, <4>2
        <5> QED
          BY <3>3, <3>4, <5>1
      <4> QED
        BY <4>1, <4>2
    <3> QED
      BY <2>2, <3>2, <3>5, Zenon DEF MoreTopics
  <2> QED
    BY <2>1, <2>2
<1> QED
  BY <1>1, <1>2, <1>3, <1>4, <1>6, <1>7, Zenon

(* A list as it was sent: all of its topics, and nothing else.             *)
LEMMA ListReturned ==
  ASSUME NEW s, NEW o, Inside(s, o), s.type \in Lists, NEW c, NEW l, NEW r, NEW n,
         Return(Known(s, c, l, 0, s.strs, r), n), pos + n = PackEnd(s, o), pos + n <= end
  PROVE  Outcome(s, o)
<1> USE DEF Inside
<1> DEFINE p == Known(s, c, l, 0, s.strs, r)
<1>1. /\ got' = Append(got, Says(p.type, p.qos, p.flags, p.strs, p.msg))
      /\ pos' = pos + n /\ pc' = "fixed"
  BY DEF Return
<1>2. p.type = s.type /\ p.qos = s.qos /\ p.flags = 0 /\ p.strs = s.strs /\ p.msg = 0
  BY DEF Known
<1>3. s.flags = 0 /\ s.msg = 0
  <2>1. s.type # CONNECT /\ s.type # PUBLISH
    BY DEF Lists, SUBSCRIBE, UNSUBSCRIBE, CONNECT, PUBLISH
  <2> QED
    BY <2>1, PackFields DEF WellFormed
<1> HIDE DEF p
<1>4. Returned(s, o, Says(s.type, s.qos, s.flags, s.strs, s.msg))
  BY <1>1, <1>2, <1>3, Zenon DEF Returned
<1> QED
  BY <1>4, Zenon DEF Outcome

(* SUBSCRIBE and UNSUBSCRIBE: the identifier ...                           *)
LEMMA StepMid ==
  ASSUME NEW s, NEW o, Inside(s, o), Reading(s, o), ReadMid
  PROVE  Outcome(s, o)
<1> USE DEF Inside
<1>1. pc = "mid" /\ Arrived
  BY DEF ReadMid, Ready
<1>2. AtBody(s, o) /\ s.type \in Lists
  BY <1>1, Place, StartOf DEF AtBody
<1>3. PICK h \in Nat, d \in Nat, m \in Nat, e \in Nat :
         h = Header(s) /\ d = Declared(s) /\ m = Len(s.strs) /\ e = Extra(s)
  BY <1>2, Sizes, ListSizes
<1>4. pos = o + h /\ pack = Known(s, h, d, 0, <<>>, 0)
  BY <1>2, <1>3 DEF AtBody, InBody
<1>5. /\ s.strs \in Seq(Nat) /\ Upto(s.strs, e, 0) = 0
      /\ Bytes(Body(s)) = 2 + Upto(s.strs, e, m)
      /\ MoreTopics(d - 0) <=> 0 < m
  <2>1. 0 \in 0..m
    OBVIOUS
  <2> QED
    BY <1>2, <1>3, <2>1, ListSizes, Zenon
<1>6. pack.length = d
  BY <1>4, Fields
<1>7. pos + 2 <= end
  <2>1. Needed = 2
    BY <1>1 DEF Needed, Strings
  <2> QED
    BY <1>1, <2>1 DEF Arrived
<1> DEFINE p == Known(s, h, d, 0, <<>>, d)
<1>8. IF MoreTopics(d) THEN Continue(p, 2, "name") ELSE Return(p, 2)
  <2>1. WithRest(pack, d) = p
    BY <1>4, FieldKnown
  <2> QED
    BY <1>6, <2>1, Zenon DEF ReadMid, ListBytes, WithRest
<1> HIDE DEF p
<1>9. d - 0 = d
  OBVIOUS
<1>10. CASE MoreTopics(d)
  <2>1. pack' = p /\ pos' = pos + 2 /\ pc' = "name" /\ got' = got
    BY <1>8, <1>10 DEF Continue
  <2>2. m > 0
    BY <1>5, <1>9, <1>10
  <2>3. 0 \in 0..(m - 1)
    BY <2>2
  <2>4. SubSeq(s.strs, 1, 0) = <<>>
    BY <1>5, Beginnings, Zenon
  <2>5. pos = o + h /\ pos' = pos + 2
    BY <1>4, <2>1
  <2>6. pos' = o + h + 2 + 0 /\ pos' \in Nat /\ pos' <= end
    BY <1>7, <2>5
  <2>7. pack' = Known(s, h, d, 0, SubSeq(s.strs, 1, 0), d - 0)
    BY <1>9, <2>1, <2>4, Zenon DEF p
  <2>8. AtName(s, o)'
    BY <1>2, <1>3, <1>5, <2>1, <2>3, <2>6, <2>7, Zenon DEF AtName, InBody
  <2> QED
    BY <2>1, <2>6, <2>8, Zenon DEF Outcome, Further, Reading
<1>11. CASE ~MoreTopics(d)
  <2>1. Return(p, 2)
    BY <1>8, <1>11
  <2>2. m = 0
    BY <1>5, <1>9, <1>11
  <2>3. s.strs = <<>>
    <3>1. SubSeq(s.strs, 1, 0) = <<>> /\ SubSeq(s.strs, 1, 0) = s.strs
      BY <1>3, <1>5, <2>2, Beginnings, Zenon
    <3> QED
      BY <3>1, Zenon
  <2>4. pos + 2 = PackEnd(s, o)
    <3>1. Bytes(Body(s)) = 2 + 0
      BY <1>5, <2>2, Zenon
    <3>2. PackEnd(s, o) = o + h + (2 + 0)
      BY <1>3, <3>1, Sizes, Zenon
    <3>3. pos = o + h
      BY <1>4
    <3> QED
      BY <3>2, <3>3
  <2>5. Return(Known(s, h, d, 0, s.strs, d), 2)
    BY <2>1, <2>3, Zenon DEF p
  <2> QED
    BY <1>2, <1>7, <2>4, <2>5, ListReturned, Zenon
<1> QED
  BY <1>10, <1>11

(* What the reader finds at a topic.                                       *)
TopicAt(s, o, k, n) ==
    LET before == Upto(s.strs, Extra(s), k)
        size == 2 + Extra(s) + n
    IN  /\ IsNumber(pos, 2) /\ Value(pos) = n /\ n = s.strs[k + 1]
        /\ pos = o + Header(s) + 2 + before
        /\ pack = Known(s, Header(s), Declared(s), 0, SubSeq(s.strs, 1, k),
                        Declared(s) - before)
        /\ Needed = IF pos + 2 <= end THEN size ELSE 2
        /\ Arrived => Needed = size /\ pos + size <= end
        /\ before \in Nat /\ Upto(s.strs, Extra(s), k + 1) = before + size
        /\ pos + size <= PackEnd(s, o)

(* At a topic the reader has its length, knows what came before it and     *)
(* asks for no byte behind the pack.                                       *)
LEMMA TopicFound ==
  ASSUME NEW s, NEW o, Inside(s, o), Reading(s, o), pc = "name"
  PROVE  /\ s.type \in Lists
         /\ \E k \in Nat, n \in Nat : k + 1 <= Len(s.strs) /\ TopicAt(s, o, k, n)
<1> USE DEF Inside
<1>1. AtName(s, o) /\ s.type \in Lists
  BY Place DEF AtName
<1>2. PICK t \in Seq(Nat), h \in Nat, d \in Nat, m \in Nat, e \in Nat :
         t = s.strs /\ h = Header(s) /\ d = Declared(s) /\ m = Len(s.strs) /\ e = Extra(s)
  BY <1>1, Sizes, ListSizes
<1>3. PICK k \in 0..(m - 1) :
         /\ pos = o + h + 2 + Upto(t, e, k)
         /\ pack = Known(s, h, d, 0, SubSeq(t, 1, k), d - Upto(t, e, k))
  BY <1>1, <1>2 DEF AtName, InBody
<1>4. /\ k \in Nat /\ k + 1 <= m /\ k + 1 \in 1..m /\ (k + 1) - 1 = k
      /\ k \in 0..m /\ m \in 0..m
  OBVIOUS
<1>5. PICK n \in Nat, before \in Nat, all \in Nat :
         /\ n = t[k + 1] /\ before = Upto(t, e, k) /\ all = Upto(t, e, m)
         /\ Wrap(n) = n
         /\ Upto(t, e, k + 1) = before + (2 + e + n) /\ Upto(t, e, k + 1) <= all
  BY <1>1, <1>2, <1>4, ListSizes, Zenon
<1>6. pos = o + h + 2 + before
  BY <1>3, <1>5
<1>7. IsNumber(pos, 2) /\ Value(pos) = n
  <2>1. At(Body(s), 2 + before, Num(2, n)) /\ 2 + before \in Nat
    <3>1. At(Body(s), 2 + Upto(t, e, (k + 1) - 1), Num(2, Wrap(t[k + 1])))
      BY <1>1, <1>2, <1>4, BodyList, Zenon
    <3>2. 2 + before \in Nat
      OBVIOUS
    <3> QED
      BY <1>4, <1>5, <3>1, <3>2, Zenon
  <2>2. IsNumber(o + h + (2 + before), 2) /\ Value(o + h + (2 + before)) = n
    BY <1>2, <2>1, BodyRead
  <2>3. o + h + (2 + before) = pos
    BY <1>6
  <2> QED
    BY <2>2, <2>3
<1>8. pack.type = s.type
  BY <1>3, Fields
<1>9. /\ Needed = IF pos + 2 <= end THEN 2 + e + n ELSE 2
      /\ Arrived => Needed = 2 + e + n /\ pos + (2 + e + n) <= end
  <2>1. pc \in Strings
    BY DEF Strings
  <2>2. e = IF pack.type = SUBSCRIBE THEN 1 ELSE 0
    BY <1>2, <1>8 DEF Extra
  <2>3. /\ Needed = IF pos + 2 <= end THEN 2 + n + e ELSE 2
        /\ Arrived => Needed = 2 + n + e /\ pos + (2 + n + e) <= end
    BY <1>7, <2>1, <2>2, StringTaken, Zenon
  <2>4. 2 + n + e = 2 + e + n
    OBVIOUS
  <2> QED
    BY <2>3, <2>4
<1>10. pos + (2 + e + n) <= PackEnd(s, o)
  <2>1. Bytes(Body(s)) = 2 + all
    BY <1>1, <1>2, <1>5, ListSizes, Zenon
  <2>2. PackEnd(s, o) = o + h + (2 + all)
    BY <1>2, <2>1, Sizes, Zenon
  <2>3. before + (2 + e + n) <= all
    BY <1>5
  <2> QED
    BY <1>6, <2>2, <2>3
<1>11. TopicAt(s, o, k, n)
  BY <1>2, <1>3, <1>5, <1>6, <1>7, <1>9, <1>10, Zenon DEF TopicAt
<1> QED
  BY <1>1, <1>2, <1>4, <1>11, Zenon

(* ... a topic ...                                                         *)
LEMMA StepName ==
  ASSUME NEW s, NEW o, Inside(s, o), Reading(s, o), ReadName
  PROVE  Outcome(s, o)
<1> USE DEF Inside
<1>1. pc = "name" /\ Arrived
  BY DEF ReadName, Ready
<1>2. s.type \in Lists
  BY <1>1, TopicFound
<1>3. PICK k \in Nat, n \in Nat : k + 1 <= Len(s.strs) /\ TopicAt(s, o, k, n)
  BY <1>1, TopicFound
<1>4. PICK h \in Nat, d \in Nat, m \in Nat, e \in Nat :
         h = Header(s) /\ d = Declared(s) /\ m = Len(s.strs) /\ e = Extra(s)
  BY <1>2, Sizes, ListSizes
<1>5. k + 1 \in 0..m /\ k + 1 \in 1..m /\ m \in 0..m
  BY <1>3, <1>4
<1>6. PICK t \in Seq(Nat), before \in Nat, after \in Nat, size \in Nat, all \in Nat :
         /\ t = s.strs /\ before = Upto(t, e, k) /\ after = Upto(t, e, k + 1)
         /\ size = 2 + e + n /\ after = before + size /\ all = Upto(t, e, m)
         /\ MoreTopics(d - after) <=> k + 1 < m
  <2>1. 2 + e + n \in Nat
    OBVIOUS
  <2>2. /\ s.strs \in Seq(Nat) /\ Upto(s.strs, e, k + 1) \in Nat
        /\ Upto(s.strs, e, m) \in Nat
        /\ MoreTopics(d - Upto(s.strs, e, k + 1)) <=> k + 1 < m
    BY <1>2, <1>4, <1>5, ListSizes, Zenon
  <2>3. /\ Upto(s.strs, e, k) \in Nat
        /\ Upto(s.strs, e, k + 1) = Upto(s.strs, e, k) + (2 + e + n)
    BY <1>3, <1>4, Zenon DEF TopicAt
  <2> QED
    BY <2>1, <2>2, <2>3, Zenon
<1>7. /\ Value(pos) = n /\ n = t[k + 1] /\ pos = o + h + 2 + before
      /\ pack = Known(s, h, d, 0, SubSeq(t, 1, k), d - before)
      /\ Needed = size /\ pos + size <= end
  BY <1>1, <1>3, <1>4, <1>6, Zenon DEF TopicAt
<1>8. pack.rest - Needed = d - after
  <2>1. pack.rest = d - before
    BY <1>7, Fields
  <2>2. Needed = size
    BY <1>7
  <2> QED
    BY <1>6, <2>1, <2>2
<1> DEFINE p == Known(s, h, d, 0, SubSeq(t, 1, k + 1), d - after)
<1>9. WithString(pack, n, d - after) = p
  <2>1. WithString(pack, n, d - after)
          = Known(s, h, d, 0, Append(SubSeq(t, 1, k), n), d - after)
    BY <1>7, StringKnown
  <2>2. Append(SubSeq(t, 1, k), n) = SubSeq(t, 1, k + 1)
    <3>1. k \in 0..(m - 1)
      BY <1>5
    <3>2. m = Len(t)
      BY <1>4, <1>6, Zenon
    <3>3. Append(SubSeq(t, 1, k), t[k + 1]) = SubSeq(t, 1, k + 1)
      BY <3>1, <3>2, Beginnings, Zenon
    <3> QED
      BY <1>7, <3>3, Zenon
  <2> QED
    BY <2>1, <2>2, Zenon
<1>10. IF MoreTopics(d - after) THEN Continue(p, size, "name") ELSE Return(p, size)
  BY <1>7, <1>8, <1>9, Zenon DEF ReadName, WithString
<1>11. pos = o + h + 2 + before /\ pos + size <= end /\ after = before + size
  BY <1>6, <1>7, Zenon
<1> HIDE DEF p
<1>12. CASE MoreTopics(d - after)
  <2>1. pack' = p /\ pos' = pos + size /\ pc' = "name" /\ got' = got
    BY <1>10, <1>12 DEF Continue
  <2>2. k + 1 \in 0..(m - 1)
    <3>1. k + 1 < m
      BY <1>6, <1>12, Zenon
    <3> QED
      BY <3>1
  <2>3. pos' = pos + size
    BY <2>1
  <2>4. pos' = o + h + 2 + after /\ pos' \in Nat /\ pos' <= end
    BY <1>11, <2>3
  <2>5. AtName(s, o)'
    BY <1>2, <1>4, <1>6, <2>1, <2>2, <2>4, Zenon DEF AtName, InBody, p
  <2> QED
    BY <2>1, <2>4, <2>5, Zenon DEF Outcome, Further, Reading
<1>13. CASE ~MoreTopics(d - after)
  <2>1. Return(p, size) /\ k + 1 = m
    <3>1. ~(k + 1 < m)
      BY <1>6, <1>13, Zenon
    <3>2. k + 1 = m
      BY <1>5, <3>1
    <3> QED
      BY <1>10, <1>13, <3>2
  <2>2. SubSeq(t, 1, k + 1) = s.strs
    BY <1>4, <1>6, <2>1, Beginnings, Zenon
  <2>3. pos + size = PackEnd(s, o)
    <3>1. Bytes(Body(s)) = 2 + after
      BY <1>2, <1>4, <1>6, <2>1, ListSizes, Zenon
    <3>2. PackEnd(s, o) = o + h + (2 + after)
      BY <1>4, <3>1, Sizes, Zenon
    <3> QED
      BY <1>11, <3>2
  <2>4. Return(Known(s, h, d, 0, s.strs, d - after), size)
    BY <2>1, <2>2, Zenon DEF p
  <2> QED
    BY <1>2, <1>11, <2>3, <2>4, ListReturned, Zenon
<1> QED
  BY <1>12, <1>13

(* ... or the end of the stream within the list, which is returned.        *)
LEMMA StepCut ==
  ASSUME NEW s, NEW o, Inside(s, o), Reading(s, o), NameCut
  PROVE  Outcome(s, o)
<1> USE DEF Inside
<1>1. pc = "name" /\ ~Arrived
  BY DEF NameCut
<1>2. s.type \in Lists
  BY <1>1, TopicFound
<1>3. PICK k \in Nat, n \in Nat : TopicAt(s, o, k, n)
  BY <1>1, TopicFound
<1>4. PICK size \in Nat :
         /\ Needed = IF pos + 2 <= end THEN size ELSE 2
         /\ size >= 2 /\ pos + size <= PackEnd(s, o)
  <2>1. Extra(s) \in Nat
    BY DEF Extra
  <2>2. 2 + Extra(s) + n \in Nat /\ 2 + Extra(s) + n >= 2
    BY <2>1
  <2> QED
    BY <1>3, <2>2, Zenon DEF TopicAt
<1>5. end < PackEnd(s, o)
  <2>1. PackEnd(s, o) \in Nat
    BY Sizes
  <2>2. end < pos + Needed
    <3>1. Needed \in Nat
      BY <1>4
    <3> QED
      BY <1>1, <3>1 DEF Arrived
  <2> QED
    BY <1>4, <2>1, <2>2
<1>6. PICK x : got' = Append(got, x) /\ pos' = pos + (end - pos) /\ pc' = "fixed"
  BY DEF NameCut, Return
<1>7. pos' = end
  <2>1. pos' = pos + (end - pos)
    BY <1>6
  <2> QED
    BY <2>1
<1> QED
  BY <1>2, <1>5, <1>6, <1>7, Zenon DEF Outcome, CutOff

(* The length of the string a body begins with is on the wire.             *)
LEMMA FirstFound ==
  ASSUME NEW s, NEW o, Inside(s, o), Reading(s, o), pc = "protocol" \/ pc = "topic"
  PROVE  /\ IsNumber(pos, 2) /\ pack.type # SUBSCRIBE
         /\ \E n \in Nat : Value(pos) = n /\ pos + (2 + n) <= PackEnd(s, o)
<1> USE DEF Inside
<1>1. AtBody(s, o) /\ (s.type = CONNECT \/ s.type = PUBLISH)
  BY Place, StartOf DEF AtBody
<1>2. PICK h \in Nat : h = Header(s)
  BY Sizes
<1>3. PICK n \in Nat : At(Body(s), 0, Num(2, n)) /\ Bytes(Body(s)) >= 2 + n
  <2>1. CASE s.type = CONNECT
    <3>1. PICK x \in Nat : x = s.strs[1]
      BY <2>1, LaterFacts
    <3>2. At(Body(s), 0, Num(2, x))
      BY <2>1, <3>1, BodyConnect
    <3>3. s.type \notin Lists
      BY <2>1 DEF CONNECT, Lists, SUBSCRIBE, UNSUBSCRIBE
    <3>4. Bytes(Body(s)) = Declared(s) /\ Declared(s) \in Nat
      BY <3>3, Sizes
    <3>5. Declared(s) >= 6 + x
      BY <2>1, <3>1, ConnectSizes
    <3>6. Bytes(Body(s)) >= 2 + x
      BY <3>4, <3>5
    <3> QED
      BY <3>2, <3>6
  <2>2. CASE s.type = PUBLISH
    <3>1. At(Body(s), 0, Num(2, Wrap(s.strs[1]))) /\ Wrap(s.strs[1]) \in Nat
      BY <2>2, BodyPublish, WrapFacts
    <3>2. PICK a \in Nat, n \in Nat, msg \in Nat :
             /\ a = s.strs[1] /\ n = Wrap(a) /\ n <= a /\ msg = s.msg
             /\ Bytes(Body(s)) = 2 + a + (IF s.qos > 0 THEN 2 ELSE 0) + msg
      BY <2>2, BodyPublish, WrapFacts, PackFields
    <3>3. Bytes(Body(s)) >= 2 + n
      BY <3>2
    <3> QED
      BY <3>1, <3>2, <3>3
  <2> QED
    BY <1>1, <2>1, <2>2
<1>4. IsNumber(o + h + 0, 2) /\ Value(o + h + 0) = n
  BY <1>2, <1>3, BodyRead
<1>5. pos = o + h
  BY <1>1, <1>2 DEF AtBody
<1>6. o + h + 0 = pos
  BY <1>5
<1>7. pos + (2 + n) <= PackEnd(s, o)
  <2>1. PackEnd(s, o) = o + h + Bytes(Body(s)) /\ Bytes(Body(s)) \in Nat
    BY <1>2, Sizes
  <2> QED
    BY <1>3, <1>5, <2>1
<1>8. pack.type # SUBSCRIBE
  <2>1. pack.type = s.type
    BY <1>1, Fields DEF AtBody, InBody
  <2> QED
    BY <1>1, <2>1 DEF CONNECT, PUBLISH, SUBSCRIBE
<1> QED
  BY <1>4, <1>6, <1>7, <1>8

(* ... and so are those of the strings behind the flags of CONNECT.        *)
LEMMA StringFound ==
  ASSUME NEW s, NEW o, Inside(s, o), Reading(s, o), pc \in ConnectStrings
  PROVE  /\ IsNumber(pos, 2) /\ pack.type # SUBSCRIBE
         /\ \E n \in Nat : Value(pos) = n /\ pos + (2 + n) <= PackEnd(s, o)
<1> USE DEF Inside
<1>1. AtString(s, o) /\ s.type = CONNECT
  BY Place DEF AtString
<1>2. PICK t, m, h, a : t = Later(s) /\ m = Len(t) /\ h = Header(s) /\ a = s.strs[1]
  OBVIOUS
<1>3. h \in Nat /\ a \in Nat
  BY <1>1, <1>2, Sizes, LaterFacts
<1>4. PICK k \in Precede(pc, s.flags) :
         /\ pos = o + h + 6 + a + Upto(t, 0, k - 1)
         /\ pack = Known(s, h, Declared(s), s.flags, SubSeq(s.strs, 1, k),
                         Declared(s) - 6 - a - Upto(t, 0, k - 1) + 2 * (k - 1))
  BY <1>1, <1>2 DEF AtString, InBody
<1>5. k \in 1..m
  <2>1. pack.flags = s.flags /\ 1 \in Nat /\ 1 > 0
    BY <1>4, Fields
  <2>2. k \in Nat /\ k >= 1 /\ k <= Announced(s.flags) - 1
    BY <1>4, <2>1, NextAnnounced
  <2>3. m \in Nat /\ m = Announced(s.flags) - 1
    BY <1>1, <1>2, ConnectSizes
  <2> QED
    BY <2>2, <2>3
<1>6. PICK n \in Nat, before \in Nat, all \in Nat :
         /\ n = t[k] /\ before = Upto(t, 0, k - 1) /\ before + (2 + n) <= all
         /\ Declared(s) = 6 + a + all
  <2>1. /\ t[k] \in Nat /\ Upto(t, 0, k - 1) \in Nat
        /\ Upto(t, 0, k) = Upto(t, 0, k - 1) + (2 + t[k])
        /\ Upto(t, 0, k) <= Upto(t, 0, m)
    BY <1>1, <1>2, <1>5, ConnectSizes, Zenon
  <2>2. m \in 1..m
    <3>1. m \in Nat /\ m >= 1
      BY <1>1, <1>2, ConnectSizes
    <3> QED
      BY <3>1
  <2>3. Upto(t, 0, m) \in Nat /\ Declared(s) = 6 + a + Upto(t, 0, m)
    BY <1>1, <1>2, <2>2, ConnectSizes, Zenon
  <2> QED
    BY <2>1, <2>3, Zenon
<1>7. pos = o + h + 6 + a + before
  BY <1>4, <1>6
<1>8. At(Body(s), 6 + a + before, Num(2, n)) /\ 6 + a + before \in Nat
  <2>1. At(Body(s), 6 + a + Upto(t, 0, k - 1), Num(2, t[k]))
    BY <1>1, <1>2, <1>5, BodyConnect, Zenon
  <2>2. 6 + a + before \in Nat
    BY <1>3
  <2> QED
    BY <1>6, <2>1, <2>2, Zenon
<1>9. IsNumber(o + h + (6 + a + before), 2) /\ Value(o + h + (6 + a + before)) = n
  BY <1>2, <1>8, BodyRead
<1>10. o + h + (6 + a + before) = pos
  BY <1>3, <1>7
<1>11. pos + (2 + n) <= PackEnd(s, o)
  <2>1. s.type \notin Lists
    BY <1>1 DEF Lists, CONNECT, SUBSCRIBE, UNSUBSCRIBE
  <2>2. PackEnd(s, o) = o + h + Declared(s)
    BY <1>2, <2>1, Sizes
  <2>3. before + (2 + n) <= all /\ Declared(s) = 6 + a + all
    BY <1>6
  <2> QED
    BY <1>3, <1>7, <2>2, <2>3
<1>12. pack.type # SUBSCRIBE
  <2>1. pack.type = s.type
    BY <1>4, Fields
  <2> QED
    BY <1>1, <2>1 DEF CONNECT, SUBSCRIBE
<1> QED
  BY <1>9, <1>10, <1>11, <1>12

(* Within a pack the reader never takes content for a number.              *)
LEMMA NotLost ==
  ASSUME NEW s, NEW o, Inside(s, o), Reading(s, o)
  PROVE  ~Lose
<1> USE DEF Inside
<1> SUFFICES \A x \in NextNumber : IsNumber(x[1], x[2])
  BY DEF Lose
<1>1. Header(s) \in Nat /\ Declared(s) \in Nat
  BY Sizes
<1>2. CASE pc = "length"
  <2>1. NextNumber = {<<pos, 1>>}
    BY <1>2 DEF NextNumber, Strings
  <2>2. IsNumber(pos, 1)
    BY <1>2, Place, HeaderRead DEF AtLength
  <2> QED
    BY <2>1, <2>2
<1>3. CASE pc = "flags"
  <2>1. NextNumber = {<<pos + 1, 1>>}
    BY <1>3 DEF NextNumber, Strings
  <2>2. s.type = CONNECT /\ pos = o + Header(s) + 2 + s.strs[1]
    BY <1>3, Place DEF AtFlags
  <2>3. PICK n \in Nat : n = s.strs[1]
    BY <2>2, LaterFacts
  <2>4. At(Body(s), 3 + n, Num(1, s.flags)) /\ 3 + n \in Nat
    <3>1. At(Body(s), 3 + s.strs[1], Num(1, s.flags))
      BY <2>2, BodyConnect, Zenon
    <3>2. 3 + n \in Nat
      OBVIOUS
    <3> QED
      BY <2>3, <3>1, <3>2, Zenon
  <2>5. s.flags \in Nat
    <3>1. s.flags \in 0..255
      BY PackFields
    <3> QED
      BY <3>1
  <2>6. IsNumber(o + Header(s) + (3 + n), 1)
    BY <2>4, <2>5, BodyRead
  <2>7. o + Header(s) + (3 + n) = pos + 1
    BY <1>1, <2>2, <2>3
  <2> QED
    BY <2>1, <2>6, <2>7
<1>4. CASE pc \in Strings
  <2>1. NextNumber = {<<pos, 2>>}
    BY <1>4 DEF NextNumber, Strings
  <2>2. CASE pc = "protocol" \/ pc = "topic"
    BY <2>1, <2>2, FirstFound
  <2>4. CASE pc \in ConnectStrings
    BY <2>1, <2>4, StringFound
  <2>5. CASE pc = "name"
    BY <2>1, <2>5, TopicFound DEF TopicAt
  <2> QED
    BY <1>4, <2>2, <2>4, <2>5 DEF Strings, ConnectStrings
<1>5. CASE pc \in {"ack", "mid", "nothing", "skip", "msg"}
  BY <1>5 DEF NextNumber, Strings
<1> QED
  BY <1>2, <1>3, <1>4, <1>5, Place DEF Strings, ConnectStrings

-----------------------------------------------------------------------------
(* The reader takes one step, or the writer does.                          *)

(* What is written later, or returned later, does not make a pack the      *)
(* reader has reached one it cannot delimit.                               *)
LEMMA FramedBefore ==
  ASSUME sent \in Seq(Packs), sent' = sent \/ (\E p \in Packs : sent' = Append(sent, p)),
         Len(got) \in Nat, Len(got') \in Nat, Len(got) <= Len(got'), AllFramed'
  PROVE  AllFramed
<1>1. PICK n \in Nat, g \in Nat, f \in Nat :
         n = Len(sent) /\ g = Len(got) /\ f = Len(got') /\ g <= f
  BY LenProperties
<1>2. PICK later \in Seq(Packs) : later = sent'
  BY AppendProperties
<1>3. \A i \in 1..n : later[i] = sent[i] /\ i \in DOMAIN later
  <2>1. CASE sent' = sent
    BY <1>1, <1>2, <2>1, LenProperties
  <2>2. CASE \E p \in Packs : sent' = Append(sent, p)
    <3>1. PICK p \in Packs : later = Append(sent, p)
      BY <1>2, <2>2
    <3>2. Len(later) = n + 1 /\ \A i \in 1..n : later[i] = sent[i]
      BY <1>1, <3>1, AppendProperties
    <3>3. DOMAIN later = 1..(n + 1)
      BY <1>2, <3>2, LenProperties
    <3> QED
      BY <3>2, <3>3
  <2> QED
    BY <2>1, <2>2
<1>4. \A i \in {j \in DOMAIN later : j <= f + 1} : Framed(later[i])
  BY <1>1, <1>2, Zenon DEF AllFramed
<1>5. DOMAIN sent = 1..n
  BY <1>1, LenProperties
<1>6. ASSUME NEW i \in 1..n, i <= g + 1
      PROVE  Framed(sent[i])
  <2>1. i <= f + 1
    BY <1>1, <1>6
  <2>2. Framed(later[i])
    BY <1>3, <1>4, <2>1, Zenon
  <2> QED
    BY <1>3, <2>2, Zenon
<1> QED
  BY <1>1, <1>5, <1>6, Zenon DEF AllFramed

(* A pack in a stream where it lies, once the reader has come to it.       *)
LEMMA Entered ==
  ASSUME Stream, AllFramed, pos \in Nat, pos <= end,
         NEW g \in Nat, g = Len(got), g < Len(sent)
  PROVE  Inside(sent[g + 1], Boundary(g)) /\ Lies(g + 1)
<1>1. PICK n \in Nat : n = Len(sent) /\ sent \in Seq(Packs) /\ end \in Nat
  BY LenProperties DEF Stream
<1>2. g + 1 \in 1..n /\ g + 1 <= g + 1 /\ (g + 1) - 1 = g
  BY <1>1
<1>3. DOMAIN sent = 1..n
  BY <1>1, LenProperties
<1>4. sent[g + 1] \in Packs
  BY <1>1, <1>2, ElementOfSeq, Zenon
<1>5. Framed(sent[g + 1])
  BY <1>2, <1>3, Zenon DEF AllFramed
<1>6. Lies(g + 1)
  BY <1>1, <1>2, Zenon DEF Stream
<1>7. OnWire(sent[g + 1], Boundary(g)) /\ Boundary(g) \in Nat
  BY <1>2, <1>6, Zenon DEF Lies
<1> QED
  BY <1>1, <1>4, <1>5, <1>6, <1>7 DEF Inside

(* Nothing the writer does concerns what the reader has done.              *)
LEMMA ReaderWrite ==
  ASSUME Stream, Stream', GotSeq, Reader, NEW p \in Packs, Write(p) \/ WriteCut(p)
  PROVE  Reader'
<1>1. /\ ~cut /\ sent' = Append(sent, p) /\ ends' = Append(ends, end')
      /\ pos' = pos /\ pc' = pc /\ pack' = pack /\ got' = got
  BY DEF Write, WriteCut, readVars
<1>2. PICK n \in Nat, g \in Nat, e \in Nat :
         /\ n = Len(sent) /\ n = Len(ends) /\ sent \in Seq(Packs) /\ ends \in Seq(Nat)
         /\ g = Len(got) /\ g <= n /\ e = end /\ e = Boundary(n) /\ pos \in Nat /\ pos <= e
  BY GotGrows, LenProperties DEF Stream, Reader
<1>3. /\ Len(sent') = n + 1
      /\ \A i \in 1..n : sent'[i] = sent[i] /\ ends'[i] = ends[i]
  <2>1. PICK f \in Nat : f = end'
    BY DEF Stream
  <2>2. Len(sent') = n + 1 /\ \A i \in 1..n : sent'[i] = sent[i]
    <3>1. sent \in Seq(Packs) /\ n = Len(sent) /\ sent' = Append(sent, p)
      BY <1>1, <1>2
    <3> QED
      BY <3>1, AppendProperties
  <2>3. ends' = Append(ends, f)
    BY <1>1, <2>1
  <2>4. \A i \in 1..n : ends'[i] = ends[i]
    BY <1>2, <2>3, AppendProperties
  <2> QED
    BY <2>2, <2>4
<1>4. \A i \in 0..n : Boundary(i)' = Boundary(i)
  BY <1>2, <1>3 DEF Boundary
<1>5. pos <= end' /\ end' \in Nat
  <2>1. n + 1 \in 1..(n + 1) /\ (n + 1) - 1 = n /\ n \in 0..n
    OBVIOUS
  <2>2. Lies(n + 1)'
    BY <1>3, <2>1, Zenon DEF Stream
  <2>3. Boundary((n + 1) - 1)' <= end'
    BY <2>2 DEF Lies
  <2>4. Boundary((n + 1) - 1)' = e
    BY <1>2, <1>4, <2>1
  <2>5. end' \in Nat
    BY DEF Stream
  <2> QED
    BY <1>2, <2>3, <2>4, <2>5
<1>6. ASSUME NEW i \in 1..g
      PROVE  CameBack(i)'
  <2>1. i \in 1..n /\ i # n + 1
    BY <1>2
  <2>2. CameBack(i)
    BY <1>2 DEF Reader
  <2>3. ~CutAt(i) /\ ~CutAt(i)'
    BY <1>1, <1>3, <2>1 DEF CutAt
  <2>4. sent'[i] = sent[i]
    BY <1>3, <2>1
  <2> QED
    BY <1>1, <2>2, <2>3, <2>4, Zenon DEF CameBack
<1>7. ASSUME NEW s, NEW o, Reading(s, o)
      PROVE  Reading(s, o)'
  BY <1>1, <1>7, Zenon
     DEF Reading, AtLength, AtBody, AtFlags, AtString, AtMessage, AtName, InBody
<1>8. CASE pc = "fixed" /\ pos = Boundary(g)
  <2>1. pos' = Boundary(g)'
    BY <1>1, <1>2, <1>4, <1>8
  <2> QED
    BY <1>1, <1>2, <1>3, <1>5, <1>6, <1>8, <2>1 DEF Reader
<1>9. CASE pc = "err"
  BY <1>9 DEF Write, WriteCut
<1>10. CASE g < n /\ Reading(sent[g + 1], Boundary(g))
  <2>1. PICK s, o : s = sent[g + 1] /\ o = Boundary(g)
    OBVIOUS
  <2>2. Reading(s, o)'
    BY <1>7, <1>10, <2>1
  <2>3. g + 1 \in 1..n /\ g \in 0..n
    BY <1>10
  <2>4. s = sent'[g + 1] /\ o = Boundary(g)'
    BY <1>3, <1>4, <2>1, <2>3
  <2>5. Reading(sent[g + 1], Boundary(g))'
    BY <2>2, <2>4
  <2>6. g < n + 1 /\ g <= n + 1
    BY <1>10
  <2>7. pc # "lost"
    BY DEF Reader
  <2>8. Len(got') = g
    BY <1>1, <1>2
  <2> QED
    BY <1>1, <1>2, <1>3, <1>5, <1>6, <2>5, <2>6, <2>7, <2>8 DEF Reader
<1> QED
  BY <1>2, <1>8, <1>9, <1>10 DEF Reader

(* What a step within a pack comes to keeps the reader in its place.       *)
LEMMA ReaderMoves ==
  ASSUME Stream, GotSeq, Reader, UNCHANGED sendVars,
         NEW g \in Nat, g = Len(got), g < Len(sent), Lies(g + 1),
         NEW s, NEW o, s = sent[g + 1], o = Boundary(g), Outcome(s, o)
  PROVE  Reader'
<1>1. cut' = cut /\ sent' = sent /\ ends' = ends /\ end' = end
  BY DEF sendVars
<1>2. PICK n \in Nat, e \in Nat :
         /\ n = Len(sent) /\ e = end /\ e = Boundary(n) /\ pos \in Nat /\ pos <= e
         /\ Len(ends) = n /\ ends \in Seq(Nat)
  BY LenProperties DEF Stream, Reader
<1>3. pc # "lost" /\ \A i \in 1..g : CameBack(i)
  BY DEF Reader
<1>4. \A i : (Boundary(i)' = Boundary(i)) /\ (CutAt(i)' <=> CutAt(i))
  BY <1>1, Zenon DEF Boundary, CutAt
<1>5. ASSUME got' = got
      PROVE  Len(got') = g /\ \A i \in 1..g : CameBack(i)'
  BY <1>1, <1>3, <1>4, <1>5, Zenon DEF CameBack
<1>7. CASE Further(s, o)
  <2>1. got' = got /\ pos' \in Nat /\ pos' <= end /\ Reading(s, o)'
    BY <1>7 DEF Further
  <2>2. s = sent'[g + 1] /\ o = Boundary(g)'
    BY <1>1, <1>4
  <2>3. Reading(sent[g + 1], Boundary(g))'
    BY <2>1, <2>2
  <2>4. pc' # "lost"
    <3>1. Start(s.type) # "lost"
      BY StartOf
    <3> QED
      BY <2>1, <3>1 DEF Reading, AtLength, AtBody, AtFlags, AtString, ConnectStrings,
                        AtMessage, AtName
  <2> QED
    BY <1>1, <1>2, <1>5, <2>1, <2>3, <2>4 DEF Reader
<1>8. ASSUME NEW x, got' = Append(got, x), pc' = "fixed", pos' = ends[g + 1],
             \/ CutAt(g + 1) /\ s.type \in Lists
             \/ ~CutAt(g + 1) /\ s.type = PUBLISH /\ s.strs[1] > MaxString
             \/ ~CutAt(g + 1) /\ x = Says(s.type, s.qos, s.flags, s.strs, s.msg)
      PROVE  Reader'
  <2>1. /\ Len(got') = g + 1 /\ got'[g + 1] = x /\ \A i \in 1..g : got'[i] = got[i]
    BY <1>8, GotGrows
  <2>2. ASSUME NEW i \in 1..g
        PROVE  CameBack(i)'
    BY <1>1, <1>3, <1>4, <2>1, Zenon DEF CameBack
  <2>3. CameBack(g + 1)'
    BY <1>1, <1>4, <1>8, <2>1, Zenon DEF CameBack
  <2>4. \A i \in 1..(g + 1) : i \in 1..g \/ i = g + 1
    OBVIOUS
  <2>5. \A i \in 1..(g + 1) : CameBack(i)'
    BY <2>2, <2>3, <2>4, Zenon
  <2>6. pos' = Boundary(g + 1)' /\ pos' \in Nat /\ pos' <= e
    <3>1. g + 1 # 0 /\ g + 1 \in 1..n
      BY <1>2
    <3>2. ends[g + 1] \in Nat
      BY <1>2, <3>1, ElementOfSeq, Zenon
    <3>3. ends[g + 1] <= e
      BY <1>2 DEF Lies
    <3>4. Boundary(g + 1) = ends[g + 1]
      BY <3>1 DEF Boundary
    <3> QED
      BY <1>4, <1>8, <3>2, <3>3, <3>4, Zenon
  <2>7. g + 1 <= n
    BY <1>2
  <2> QED
    BY <1>1, <1>2, <1>8, <2>1, <2>5, <2>6, <2>7 DEF Reader
<1>9. PICK b \in Nat : b = ends[g + 1] /\ b <= e
  <2>1. g + 1 \in 1..n
    BY <1>2
  <2>2. ends[g + 1] \in Nat
    BY <1>2, <2>1, ElementOfSeq, Zenon
  <2> QED
    BY <1>2, <2>2 DEF Lies
<1>10. IF CutAt(g + 1) THEN b < PackEnd(s, o) /\ b = e ELSE b = PackEnd(s, o)
  <2>1. (g + 1) - 1 = g
    OBVIOUS
  <2>2. IF CutAt(g + 1) THEN b < PackEnd(s, o) ELSE b = PackEnd(s, o)
    BY <1>9, <2>1 DEF Lies
  <2>3. CutAt(g + 1) => b = e
    BY <1>2, <1>9 DEF CutAt, Boundary
  <2> QED
    BY <2>2, <2>3
<1>11. PackEnd(s, o) \in Nat
  <2>1. g + 1 \in 1..n /\ (g + 1) - 1 = g
    BY <1>2
  <2>2. sent \in Seq(Packs)
    BY DEF Stream
  <2>3. s \in Packs
    BY <1>2, <2>1, <2>2, ElementOfSeq, Zenon
  <2>4. o \in Nat
    BY <2>1 DEF Lies
  <2> QED
    BY <2>3, <2>4, Sizes
<1>6. CASE Failed(s, o)
  <2>1. /\ pc' = "err" /\ pos' = pos /\ got' = got
        /\ Legal(s) => end < PackEnd(s, o)
    BY <1>6 DEF Failed
  <2>2. CutAt(g + 1) \/ ~Legal(s)
    BY <1>2, <1>9, <1>10, <1>11, <2>1
  <2>3. (cut /\ g + 1 >= n) \/ (g < n /\ ~Legal(sent[g + 1]))
    <3>1. CutAt(g + 1) => cut /\ g + 1 = n
      BY <1>2 DEF CutAt
    <3>2. g + 1 = n => g + 1 >= n
      BY <1>2
    <3>3. g < n
      BY <1>2
    <3>4. CASE CutAt(g + 1)
      BY <3>1, <3>2, <3>4, Zenon
    <3>5. CASE ~Legal(s)
      <4>1. ~Legal(sent[g + 1])
        BY <3>5
      <4> QED
        BY <3>3, <4>1, Zenon
    <3> QED
      BY <2>2, <3>4, <3>5
  <2>4. Excused'
    BY <1>1, <1>2, <2>1, <2>3, Zenon DEF Excused
  <2> QED
    BY <1>1, <1>2, <1>5, <2>1, <2>4 DEF Reader
<1>12. ASSUME NEW x, Returned(s, o, x)
       PROVE  Reader'
  <2>1. /\ got' = Append(got, x) /\ pc' = "fixed" /\ pos' = PackEnd(s, o)
        /\ PackEnd(s, o) <= end
        /\ \/ x = Says(s.type, s.qos, s.flags, s.strs, s.msg)
           \/ s.type = PUBLISH /\ s.strs[1] > MaxString
    BY <1>12 DEF Returned
  <2>2. ~CutAt(g + 1)
    BY <1>2, <1>9, <1>10, <1>11, <2>1
  <2>3. pos' = ends[g + 1]
    BY <1>9, <1>10, <2>1, <2>2
  <2> QED
    BY <1>8, <2>1, <2>2, <2>3
<1>13. ASSUME NEW x, CutOff(s, o, x)
       PROVE  Reader'
  <2>1. /\ got' = Append(got, x) /\ pc' = "fixed" /\ pos' = end
        /\ s.type \in Lists /\ end < PackEnd(s, o)
    BY <1>13 DEF CutOff
  <2>2. CutAt(g + 1)
    BY <1>2, <1>9, <1>10, <1>11, <2>1
  <2>3. pos' = ends[g + 1]
    BY <1>2, <1>9, <1>10, <2>1, <2>2
  <2> QED
    BY <1>8, <2>1, <2>2, <2>3
<1> QED
  BY <1>6, <1>7, <1>12, <1>13 DEF Outcome

(* Within a pack the reader waits for no byte behind it.                   *)
LEMMA Enough ==
  ASSUME NEW s, NEW o, Inside(s, o), Reading(s, o)
  PROVE  Needed \in Nat /\ pos + Needed <= PackEnd(s, o)
<1> USE DEF Inside
<1>1. PICK h \in Nat, d \in Nat, b \in Nat, l \in Nat :
         /\ h = Header(s) /\ d = Declared(s) /\ b = Bytes(Body(s))
         /\ l = Len(LengthDigits(s)) /\ h = 1 + l /\ PackEnd(s, o) = o + h + b
         /\ s.type \notin Lists => b = d
  BY Sizes
<1>2. CASE pc = "length"
  <2>1. PICK c \in 1..l : pos = o + c
    BY <1>1, <1>2, Place DEF AtLength
  <2>2. Needed = 1
    BY <1>2 DEF Needed, Strings
  <2>3. o + c + 1 <= o + h + b
    BY <1>1
  <2> QED
    BY <1>1, <2>1, <2>2, <2>3
<1>3. ASSUME NEW n \in Nat, pc \in Strings, IsNumber(pos, 2), Value(pos) = n,
             pack.type # SUBSCRIBE, pos + (2 + n) <= PackEnd(s, o)
      PROVE  Needed \in Nat /\ pos + Needed <= PackEnd(s, o)
  <2>1. Needed = IF pos + 2 <= end THEN 2 + n + 0 ELSE 2
    BY <1>3, StringTaken
  <2>2. PackEnd(s, o) \in Nat /\ pos + (2 + n) <= PackEnd(s, o)
    BY <1>3, Sizes
  <2> QED
    BY <2>1, <2>2
<1>4. CASE pc = "protocol" \/ pc = "topic"
  <2>1. pc \in Strings
    BY <1>4 DEF Strings
  <2> QED
    BY <1>3, <1>4, <2>1, FirstFound
<1>5. CASE pc \in ConnectStrings
  <2>1. pc \in Strings
    BY <1>5 DEF Strings, ConnectStrings
  <2> QED
    BY <1>3, <1>5, <2>1, StringFound
<1>6. CASE pc = "flags"
  <2>1. s.type = CONNECT /\ pos = o + h + 2 + s.strs[1]
    BY <1>1, <1>6, Place DEF AtFlags
  <2>2. PICK n \in Nat : n = s.strs[1] /\ d >= 6 + n
    BY <1>1, <2>1, LaterFacts, ConnectSizes
  <2>3. b = d
    BY <1>1, <2>1 DEF Lists, CONNECT, SUBSCRIBE, UNSUBSCRIBE
  <2>4. Needed = 4
    BY <1>6 DEF Needed, Strings
  <2>5. pos = o + h + 2 + n /\ d >= 6 + n
    BY <2>1, <2>2
  <2>6. pos + 4 <= o + h + b
    BY <2>3, <2>5
  <2> QED
    BY <1>1, <2>4, <2>6
<1>7. CASE pc = "msg"
  <2>1. s.type = PUBLISH
    BY <1>7, Place DEF AtMessage
  <2>2. PICK n \in Nat, a \in Nat, rest \in Nat, mid \in Nat :
           /\ n = Wrap(a) /\ a = s.strs[1] /\ rest = d - n - 2 /\ rest >= mid
           /\ mid = IF s.qos > 0 THEN 2 ELSE 0
    <3>1. PICK a \in Nat : a = s.strs[1]
      BY <2>1, BodyPublish
    <3>2. PICK n \in Nat : n = Wrap(a) /\ n <= a
      BY WrapFacts
    <3>3. PICK mid \in Nat, msg \in Nat :
             mid = (IF s.qos > 0 THEN 2 ELSE 0) /\ msg = s.msg
      BY PackFields
    <3>4. b = 2 + a + mid + msg
      BY <1>1, <2>1, <3>1, <3>3, BodyPublish, Zenon
    <3>5. b = d
      BY <1>1, <2>1 DEF Lists, PUBLISH, SUBSCRIBE, UNSUBSCRIBE
    <3>6. d - n - 2 \in Nat /\ d - n - 2 >= mid
      BY <3>2, <3>4, <3>5
    <3> QED
      BY <3>1, <3>2, <3>3, <3>6, Zenon
  <2>3. pos = o + h + 2 + n /\ pack = Known(s, h, d, 0, <<n>>, d - n - 2)
    BY <1>1, <1>7, <2>2, Place DEF AtMessage, InBody
  <2>4. pack.qos = s.qos /\ pack.rest = rest
    BY <2>2, <2>3, Fields
  <2>5. Needed = rest
    <3>1. Needed = IF pack.rest > MidBytes THEN pack.rest ELSE MidBytes
      BY <1>7 DEF Needed, Strings
    <3>2. MidBytes = mid
      BY <2>2, <2>4 DEF MidBytes
    <3> QED
      BY <2>2, <2>4, <3>1, <3>2
  <2>6. b = d
    BY <1>1, <2>1 DEF Lists, PUBLISH, SUBSCRIBE, UNSUBSCRIBE
  <2>7. pos = o + h + 2 + n /\ rest = d - n - 2
    BY <2>2, <2>3
  <2>8. pos + rest <= o + h + b
    BY <2>6, <2>7
  <2> QED
    BY <1>1, <2>5, <2>8
<1>8. CASE pc \in {"ack", "nothing", "skip"}
  <2>1. AtBody(s, o)
    BY <1>8, Place
  <2>2. pos = o + h /\ pack = Known(s, h, d, 0, <<>>, 0)
    BY <1>1, <2>1 DEF AtBody, InBody
  <2>3. s.type \notin Lists
    BY <1>8, <2>1, StartOf DEF AtBody
  <2>4. pack.length = d
    BY <2>2, Fields
  <2>5. Needed = d \/ Needed = 0
    BY <1>8, <2>4 DEF Needed, Strings
  <2>6. pos = o + h /\ b = d
    BY <1>1, <2>2, <2>3
  <2>7. pos + d <= o + h + b /\ pos + 0 <= o + h + b
    BY <2>6
  <2> QED
    BY <1>1, <2>5, <2>7
<1>9. CASE pc = "mid"
  <2>1. AtBody(s, o) /\ s.type \in Lists
    BY <1>9, Place, StartOf DEF AtBody
  <2>2. pos = o + h /\ Needed = 2
    BY <1>1, <1>9, <2>1 DEF AtBody, Needed, Strings
  <2>3. b >= 2
    <3>1. PICK all \in Nat : b = 2 + all
      <4>1. Len(s.strs) \in 0..Len(s.strs)
        BY <2>1, ListSizes
      <4>2. /\ Upto(s.strs, Extra(s), Len(s.strs)) \in Nat
            /\ b = 2 + Upto(s.strs, Extra(s), Len(s.strs))
        BY <1>1, <2>1, <4>1, ListSizes, Zenon
      <4> QED
        BY <4>2
    <3> QED
      BY <3>1
  <2>4. pos + 2 <= o + h + b
    BY <2>2, <2>3
  <2> QED
    BY <1>1, <2>2, <2>4
<1>10. CASE pc = "name"
  <2>1. PICK k \in Nat, n \in Nat : TopicAt(s, o, k, n)
    BY <1>10, TopicFound
  <2>2. PICK size \in Nat :
           /\ Needed = IF pos + 2 <= end THEN size ELSE 2
           /\ size >= 2 /\ pos + size <= PackEnd(s, o)
    <3>1. Extra(s) \in Nat
      BY DEF Extra
    <3>2. 2 + Extra(s) + n \in Nat /\ 2 + Extra(s) + n >= 2
      BY <3>1
    <3> QED
      BY <2>1, <3>2, Zenon DEF TopicAt
  <2>3. PackEnd(s, o) \in Nat
    BY Sizes
  <2> QED
    BY <2>2, <2>3
<1> QED
  BY <1>2, <1>4, <1>5, <1>6, <1>7, <1>8, <1>9, <1>10, Place

(* Within a pack.                                                          *)
LEMMA StepWithin ==
  ASSUME NEW s, NEW o, Inside(s, o), Reading(s, o), ReadPack
  PROVE  Outcome(s, o)
<1>1. CASE ReadFixed
  <2>1. pc = "fixed"
    BY <1>1 DEF ReadFixed
  <2> QED
    BY <2>1, Place DEF ConnectStrings
<1>2. CASE ReadLength
  <2>1. AtLength(s, o)
    BY <1>2, Place DEF ReadLength
  <2> QED
    BY <1>2, <2>1, StepLength
<1>3. CASE ReadError
  <2>1. Fail /\ ~Arrived
    BY <1>3 DEF ReadError
  <2>2. end < PackEnd(s, o)
    <3>1. Needed \in Nat /\ pos + Needed <= PackEnd(s, o)
      BY Enough
    <3>2. PackEnd(s, o) \in Nat
      BY Sizes DEF Inside
    <3> QED
      BY <2>1, <3>1, <3>2 DEF Arrived, Inside
  <2> QED
    BY <2>1, <2>2 DEF Fail, Outcome, Failed
<1>4. CASE Lose
  BY <1>4, NotLost
<1> QED
  BY <1>1, <1>2, <1>3, <1>4, StepProtocol, StepFlags, StepString, StepTopic, StepMessage,
     StepAck, StepNothing, StepSkip, StepMid, StepName, StepCut, Zenon DEF ReadPack

(* Between two packs.                                                      *)
LEMMA StepBetween ==
  ASSUME pc = "fixed", pos \in Nat, end \in Nat, ReadPack
  PROVE  \/ Fail /\ cut /\ pos + 1 > end
         \/ ReadFixed /\ pos + 1 <= end
         \/ pos + 1 <= end /\ ~IsNumber(pos, 1)
<1>1. NextNumber = {<<pos, 1>>} /\ Needed = 1
  BY DEF NextNumber, Needed, Strings
<1>2. ReadFixed \/ ReadError \/ Lose
  BY DEF ReadPack, ReadLength, ReadProtocol, ReadFlags, ReadConnectString, ReadTopic,
         ReadMessage, ReadAck, ReadNothing, SkipUnknown, ReadMid, ReadName, NameCut
<1>3. CASE ReadFixed
  BY <1>1, <1>3 DEF ReadFixed, Ready, Arrived
<1>4. CASE ReadError
  BY <1>1, <1>4 DEF ReadError, Arrived
<1>5. CASE Lose
  BY <1>1, <1>5 DEF Lose
<1> QED
  BY <1>2, <1>3, <1>4, <1>5

(* A step of the reader.                                                   *)
LEMMA ReaderRead ==
  ASSUME Stream, GotSeq, AllFramed, Reader, ReadPack
  PROVE  Reader'
<1>1. PICK n \in Nat, g \in Nat :
         /\ n = Len(sent) /\ g = Len(got) /\ g <= n /\ end \in Nat /\ end = Boundary(n)
         /\ pos \in Nat /\ pos <= end
  BY GotGrows, LenProperties DEF Stream, Reader
<1>2. UNCHANGED sendVars
  BY ReaderSteps
<1>3. CASE pc = "err"
  <2>1. NextNumber = {}
    BY <1>3 DEF NextNumber, Strings
  <2> QED
    BY <1>3, <2>1
       DEF ReadPack, ReadFixed, ReadLength, ReadProtocol, ReadFlags, ReadConnectString,
           ReadTopic, ReadMessage, ReadAck, ReadNothing, SkipUnknown, ReadMid, ReadName,
           NameCut, ReadError, Lose
<1>4. CASE pc = "fixed" /\ pos = Boundary(g) /\ g = n
  <2>1. ~(pos + 1 <= end)
    BY <1>1, <1>4
  <2>2. Fail /\ cut
    BY <1>1, <1>4, <2>1, StepBetween
  <2>3. pc' = "err" /\ pos' = pos /\ got' = got
    BY <2>2 DEF Fail
  <2>4. cut' = cut /\ sent' = sent /\ ends' = ends /\ end' = end
    BY <1>2 DEF sendVars
  <2>5. \A i \in 1..g : CameBack(i)'
    <3>1. \A i \in 1..g : CameBack(i)
      BY <1>1 DEF Reader
    <3> QED
      BY <2>3, <2>4, <3>1, Zenon DEF CameBack, CutAt
  <2>6. Excused'
    <3>1. cut' /\ Len(got') = g /\ Len(sent') = n /\ g + 1 >= n
      <4>1. cut'
        BY <2>2, <2>4, Zenon
      <4>2. g + 1 >= n
        BY <1>4
      <4>3. Len(got') = g /\ Len(sent') = n
        BY <1>1, <2>3, <2>4
      <4> QED
        BY <4>1, <4>2, <4>3
    <3> QED
      BY <3>1, Zenon DEF Excused
  <2> QED
    BY <1>1, <2>3, <2>4, <2>5, <2>6 DEF Reader
<1>5. ASSUME g < n, NEW s, NEW o, s = sent[g + 1], o = Boundary(g),
             (pc = "fixed" /\ pos = o) \/ Reading(s, o)
      PROVE  Reader'
  <2>1. Inside(s, o) /\ Lies(g + 1)
    BY <1>1, <1>5, Entered
  <2>2. Outcome(s, o)
    <3>1. CASE pc = "fixed" /\ pos = o
      <4>1. IsNumber(pos, 1)
        BY <2>1, <3>1, HeaderRead DEF Inside
      <4>2. CASE Fail /\ pos + 1 > end
        <5>1. Header(s) \in Nat /\ Header(s) >= 1 /\ Bytes(Body(s)) \in Nat
          BY <2>1, Sizes DEF Inside
        <5>2. PackEnd(s, o) = o + Header(s) + Bytes(Body(s))
          BY <2>1, Sizes DEF Inside
        <5>3. end < PackEnd(s, o)
          BY <1>1, <3>1, <4>2, <5>1, <5>2
        <5> QED
          BY <4>2, <5>3 DEF Fail, Failed, Outcome
      <4>3. CASE ReadFixed
        BY <2>1, <3>1, <4>3, StepFixed DEF Outcome
      <4> QED
        BY <1>1, <3>1, <4>1, <4>2, <4>3, StepBetween
    <3>2. CASE Reading(s, o)
      BY <2>1, <3>2, StepWithin
    <3> QED
      BY <1>5, <3>1, <3>2
  <2> QED
    BY <1>1, <1>2, <1>5, <2>1, <2>2, ReaderMoves
<1>6. CASE pc = "fixed" /\ pos = Boundary(g) /\ g < n
  BY <1>5, <1>6
<1>7. CASE g < n /\ Reading(sent[g + 1], Boundary(g))
  BY <1>5, <1>7
<1>8. g = n \/ g < n
  BY <1>1
<1> QED
  BY <1>1, <1>3, <1>4, <1>6, <1>7, <1>8 DEF Reader

-----------------------------------------------------------------------------
(* The invariant holds before the first pack, ...                          *)
LEMMA IInvInit ==
  ASSUME Init
  PROVE  IInv
<1>1. pos = 0 /\ pc = "fixed" /\ got = <<>> /\ sent = <<>> /\ end = 0
  BY DEF Init
<1>2. GotSeq /\ Len(got) = 0 /\ Len(sent) = 0
  BY <1>1 DEF GotSeq
<1>3. \A i \in 1..Len(got) : CameBack(i)
  BY <1>2
<1>4. Boundary(Len(got)) = 0
  BY <1>2 DEF Boundary
<1>5. Reader
  BY <1>1, <1>2, <1>3, <1>4 DEF Reader
<1> QED
  BY <1>2, <1>5, StreamInit DEF IInv

(* ... is kept by every step, ...                                          *)
LEMMA IInvNext ==
  ASSUME IInv, [Next]_vars
  PROVE  IInv'
<1>1. Stream /\ GotSeq /\ Stream' /\ sent \in Seq(Packs) /\ Len(got) \in Nat
  BY StreamNext, GotGrows DEF IInv, Stream
<1>2. got' = got \/ \E x : got' = Append(got, x)
  BY DEF Next, vars, Write, WriteCut, readVars, ReadPack, ReadFixed, ReadLength,
         ReadProtocol, ReadFlags, ReadConnectString, ReadTopic, ReadMessage, ReadAck,
         ReadNothing, SkipUnknown, ReadMid, ReadName, NameCut, ReadError, Lose, Fail,
         Return, Continue
<1>3. GotSeq' /\ Len(got') \in Nat /\ Len(got) <= Len(got')
  <2>1. CASE got' = got
    BY <1>1, <2>1 DEF GotSeq
  <2>2. CASE \E x : got' = Append(got, x)
    <3>1. PICK x : got' = Append(got, x)
      BY <2>2
    <3>2. /\ Append(got, x) \in Seq(Range(Append(got, x))) /\ Len(got) \in Nat
          /\ Len(Append(got, x)) = Len(got) + 1
      BY <1>1, GotGrows
    <3>3. GotSeq'
      BY <3>1, <3>2, Zenon DEF GotSeq, Range
    <3>4. Len(got') = Len(got) + 1
      BY <3>1, <3>2
    <3> QED
      BY <1>1, <3>3, <3>4
  <2> QED
    BY <1>2, <2>1, <2>2
<1>4. sent' = sent \/ \E p \in Packs : sent' = Append(sent, p)
  <2>1. CASE ReadPack
    BY <2>1, ReaderSteps DEF sendVars
  <2> QED
    BY <2>1 DEF Next, vars, Write, WriteCut
<1>5. ASSUME AllFramed'
      PROVE  Reader'
  <2>1. AllFramed /\ Reader
    BY <1>1, <1>3, <1>4, <1>5, FramedBefore DEF IInv
  <2>2. CASE \E p \in Packs : Write(p) \/ WriteCut(p)
    BY <1>1, <2>1, <2>2, ReaderWrite
  <2>3. CASE ReadPack
    BY <1>1, <2>1, <2>3, ReaderRead
  <2>4. CASE UNCHANGED vars
    BY <2>1, <2>4
       DEF vars, Reader, Excused, CameBack, CutAt, Boundary, Reading, AtLength, AtBody,
           AtFlags, AtString, AtMessage, AtName, InBody
  <2> QED
    BY <2>2, <2>3, <2>4 DEF Next
<1> QED
  BY <1>1, <1>3, <1>5 DEF IInv

(* ... and says what was to be shown.                                      *)
LEMMA IInvReadsBack ==
  ASSUME IInv
  PROVE  ReadsBack
<1> SUFFICES ASSUME \A i \in {j \in DOMAIN sent : j <= Len(got) + 1} : Framed(sent[i])
             PROVE  /\ pc # "lost" /\ Len(got) <= Len(sent)
                    /\ pc = "fixed" => pos = Boundary(Len(got))
                    /\ pc = "err" => Excused
                    /\ \A i \in 1..Len(got) : CameBack(i)
  BY Zenon DEF ReadsBack, CameBack, Excused
<1>1. Reader
  BY DEF IInv, AllFramed
<1>2. ASSUME pc = "fixed"
      PROVE  pos = Boundary(Len(got))
  <2>1. ASSUME NEW s, NEW o, Reading(s, o)
        PROVE  FALSE
    BY <1>2, <2>1, Place DEF ConnectStrings
  <2> QED
    BY <1>1, <1>2, <2>1 DEF Reader
<1>3. ASSUME pc = "err"
      PROVE  Excused
  <2>1. ASSUME NEW s, NEW o, Reading(s, o)
        PROVE  FALSE
    BY <1>3, <2>1, Place DEF ConnectStrings
  <2> QED
    BY <1>1, <1>3, <2>1 DEF Reader
<1> QED
  BY <1>1, <1>2, <1>3 DEF Reader

(* Whatever packs are sent, ReadPack returns what DelayWritePack or the    *)
(* client wrote: as long as it could delimit every pack, no string, no     *)
(* message and no pack is lost, split or made up, but for the two cases    *)
(* ReadsBack names, and an error has a reason.                             *)
THEOREM CodecReadsBack == Spec => []ReadsBack
<1>1. Init => IInv
  BY IInvInit
<1>2. IInv /\ [Next]_vars => IInv'
  BY IInvNext
<1>3. IInv => ReadsBack
  BY IInvReadsBack
<1> QED
  BY <1>1, <1>2, <1>3, PTL DEF Spec
=============================================================================
