----------------------------- MODULE Digest_proofs -----------------------------
(* Proofs about Digest, for blocks, words and bytes of any size: the object  *)
(* implements Hash, however the text is cut into pieces.                     *)
EXTENDS Digest, SequenceTheorems, WellFoundedInduction, TLAPS

(* The first elements of a concatenation are those of its first part. *)
LEMMA JoinedElements ==
  ASSUME NEW S, NEW a \in Seq(S), NEW b \in Seq(S)
  PROVE  /\ a \o b \in Seq(S)
         /\ Len(a \o b) = Len(a) + Len(b)
         /\ \A k \in 1 .. Len(a) : (a \o b)[k] = a[k]
         /\ \A k \in 1 .. Len(b) : (a \o b)[Len(a) + k] = b[k]
  OBVIOUS

(* The elements and the length of a slice. *)
LEMMA SliceElements ==
  ASSUME NEW S, NEW s \in Seq(S), NEW m \in Nat, NEW n \in Nat,
         1 <= m, m <= n + 1, n <= Len(s)
  PROVE  /\ SubSeq(s, m, n) \in Seq(S)
         /\ Len(SubSeq(s, m, n)) = n - m + 1
         /\ \A k \in 1 .. n - m + 1 : SubSeq(s, m, n)[k] = s[m + k - 1]
  OBVIOUS

(* The smallest of some numbers. *)
LEMMA Smallest ==
  ASSUME NEW D, D \subseteq Nat, D # {}
  PROVE  \E x \in D : \A y \in D : x <= y
  <1> DEFINE R == {p \in Nat \X Nat : p[1] < p[2]}
  <1>1. IsWellFoundedOn(R, Nat)
    BY NatLessThanWellFounded DEF OpToRel
  <1>2. \A x, y \in Nat : ~(<<y, x>> \in R) => x <= y
    OBVIOUS
  <1> HIDE DEF R
  <1>3. \E x \in D : \A y \in D : ~(<<y, x>> \in R)
    BY <1>1, WFMin
  <1> QED BY <1>2, <1>3

-----------------------------------------------------------------------------
(* Division. *)

LEMMA Division ==
  ASSUME NEW a \in Nat, NEW b \in Nat, b > 0
  PROVE  /\ a \div b \in Nat /\ a % b \in Nat /\ a % b < b
         /\ a = b * (a \div b) + (a % b)
  OBVIOUS

(* Quotient and remainder are the only ones. *)
LEMMA DividesAs ==
  ASSUME NEW b \in Nat, b > 0, NEW q \in Nat, NEW r \in Nat, r < b
  PROVE  (b * q + r) % b = r /\ (b * q + r) \div b = q
  OBVIOUS

(* A multiple of the divisor is nothing to the remainder. *)
LEMMA ModPlus ==
  ASSUME NEW a \in Nat, NEW b \in Nat, b > 0, NEW q \in Nat
  PROVE  (a + b * q) % b = a % b /\ (a + b * q) \div b = a \div b + q
  <1> DEFINE r == a % b
             d == a \div b
  <1>1. r \in Nat /\ r < b /\ d \in Nat /\ a = b * d + r
    BY Division
  <1> HIDE DEF r, d
  <1>2. a + b * q = b * (d + q) + r /\ d + q \in Nat
    BY <1>1
  <1>3. (b * (d + q) + r) % b = r /\ (b * (d + q) + r) \div b = d + q
    BY <1>1, <1>2, DividesAs
  <1> QED BY <1>2, <1>3 DEF r, d

(* The remainder of a sum is that of the remainders' sum. *)
LEMMA ModSum ==
  ASSUME NEW a \in Nat, NEW c \in Nat, NEW b \in Nat, b > 0
  PROVE  ((a % b) + c) % b = (a + c) % b
  <1> DEFINE r == a % b
             d == a \div b
  <1>1. r \in Nat /\ d \in Nat /\ a = b * d + r
    BY Division
  <1> HIDE DEF r, d
  <1>2. a + c = (r + c) + b * d /\ r + c \in Nat
    BY <1>1
  <1>3. ((r + c) + b * d) % b = (r + c) % b
    BY <1>1, <1>2, ModPlus
  <1> QED BY <1>2, <1>3 DEF r

-----------------------------------------------------------------------------
(* The sizes. *)

Sizes ==
  /\ BlockSize \in Nat /\ BlockSize > 0
  /\ WordBytes \in Nat /\ WordBytes > 0
  /\ Radix \in Nat /\ Radix > 1
  /\ FieldBytes \in Nat /\ FieldBytes > 0 /\ FieldBytes < BlockSize
  /\ Word \in Nat /\ Word > 0
  /\ \E m \in Nat : m > 0 /\ Word = 8 * (BlockSize * m)

LEMMA SizesAre == Sizes
  <1>1. /\ BlockSize \in Nat /\ BlockSize > 0
        /\ WordBytes \in Nat /\ WordBytes > 0
        /\ Radix \in Nat /\ Radix > 1
        /\ FieldBytes < BlockSize /\ Word % (8 * BlockSize) = 0
    BY SizesAssumption
  <1>2. FieldBytes \in Nat /\ FieldBytes > 0 /\ WordBytes \in 0 .. FieldBytes
    BY <1>1 DEF FieldBytes
  <1>3. Word \in Nat /\ Word > 0
    BY <1>2, PowersAssumption DEF Word
  <1> DEFINE m == Word \div (8 * BlockSize)
  <1>4. m \in Nat /\ Word = (8 * BlockSize) * m
    <2>1. 8 * BlockSize \in Nat /\ 8 * BlockSize > 0
      BY <1>1
    <2>2. \A a, b \in Nat : b > 0 => a \div b \in Nat /\ a = b * (a \div b) + (a % b)
      BY Division
    <2>3. Word = (8 * BlockSize) * m + 0 /\ m \in Nat
      BY <1>1, <1>3, <2>1, <2>2
    <2> HIDE DEF m
    <2> QED BY <1>1, <1>3, <2>3
  <1> HIDE DEF m
  <1>5. m > 0 /\ Word = 8 * (BlockSize * m)
    BY <1>1, <1>3, <1>4
  <1> QED BY <1>1, <1>2, <1>3, <1>4, <1>5 DEF Sizes

-----------------------------------------------------------------------------
(* The count. *)

(* The two words that count n bits. *)
Words(n) == << n % Word, (n \div Word) % Word >>

LEMMA WordsType ==
  ASSUME NEW n \in Nat
  PROVE  /\ Words(n) \in (0 .. Word - 1) \X (0 .. Word - 1)
         /\ Words(n)[1] = n % Word /\ Words(n)[2] = (n \div Word) % Word
  <1>1. Word \in Nat /\ Word > 0
    BY SizesAre DEF Sizes
  <1>2. /\ n % Word \in 0 .. Word - 1 /\ (n \div Word) % Word \in 0 .. Word - 1
    <2>1. n % Word \in Nat /\ n % Word < Word /\ n \div Word \in Nat
      BY <1>1, Division
    <2>2. (n \div Word) % Word \in Nat /\ (n \div Word) % Word < Word
      BY <1>1, <2>1, Division
    <2> QED BY <1>1, <2>1, <2>2
  <1> QED BY <1>2 DEF Words

(* update() counts on, with the carry, as if the words were one number. *)
LEMMA CountsOn ==
  ASSUME NEW x \in Nat, NEW n \in Nat
  PROVE  Counted(Words(x), n) = Words(x + 8 * n)
  <1> DEFINE W == Word
             c == x % W
             p == x \div W
             b == (8 * n) % W
             q == (8 * n) \div W
             low == (c + b) % W
             k == IF low < b THEN 1 ELSE 0
  <1>1. W \in Nat /\ W > 0
    BY SizesAre DEF Sizes
  <1>2. /\ c \in Nat /\ c < W /\ p \in Nat /\ x = W * p + c
        /\ b \in Nat /\ b < W /\ q \in Nat /\ 8 * n = W * q + b
    <2>1. 8 * n \in Nat
      OBVIOUS
    <2> QED BY <1>1, <2>1, Division
  <1>3. Counted(Words(x), n) = << low, ((p % W) + k + q) % W >>
    BY DEF Counted, Words
  <1>4. low = (c + b) % W /\ (low < b => k = 1) /\ (~(low < b) => k = 0)
    OBVIOUS
  <1> HIDE DEF W, c, p, b, q, low, k
  <1>5. c + b = W * k + low /\ low \in Nat /\ low < W /\ k \in Nat
    <2>1. CASE c + b < W
      <3>1. (W * 0 + (c + b)) % W = c + b
        BY <1>1, <1>2, <2>1, DividesAs
      <3>2. low = c + b
        BY <1>1, <1>2, <1>4, <3>1
      <3>3. k = 0
        BY <1>2, <1>4, <3>2
      <3> QED BY <1>1, <1>2, <2>1, <3>2, <3>3
    <2>2. CASE c + b >= W
      <3>1. (W * 1 + (c + b - W)) % W = c + b - W
        <4>1. c + b - W \in Nat /\ c + b - W < W
          BY <1>1, <1>2, <2>2
        <4> QED BY <1>1, <4>1, DividesAs
      <3>2. low = c + b - W
        BY <1>1, <1>2, <1>4, <3>1
      <3>3. k = 1
        BY <1>1, <1>2, <1>4, <3>2
      <3> QED BY <1>1, <1>2, <2>2, <3>2, <3>3
    <2> QED BY <1>1, <1>2, <2>1, <2>2
  <1>6. x + 8 * n = W * (p + q + k) + low /\ p + q + k \in Nat
    BY <1>1, <1>2, <1>5
  <1>7. (x + 8 * n) % W = low /\ (x + 8 * n) \div W = p + q + k
    BY <1>1, <1>5, <1>6, DividesAs
  <1>8. ((p % W) + (k + q)) % W = (p + (k + q)) % W
    <2>1. \A y, z, v \in Nat : v > 0 => ((y % v) + z) % v = (y + z) % v
      BY ModSum
    <2> DEFINE e == k + q
    <2>2. e \in Nat /\ p \in Nat /\ W \in Nat /\ W > 0
      BY <1>1, <1>2, <1>5
    <2> HIDE DEF e
    <2>3. ((p % W) + e) % W = (p + e) % W
      BY <2>1, <2>2, Zenon
    <2> QED BY <2>3 DEF e
  <1>9. (p % W) + k + q = (p % W) + (k + q) /\ p + q + k = p + (k + q)
    <2>1. p % W \in Nat
      BY <1>1, <1>2, Division
    <2> QED BY <1>2, <1>5, <2>1
  <1> QED BY <1>3, <1>7, <1>8, <1>9 DEF Words, W

(* The position in the buffer is what the length leaves of a block. *)
LEMMA IndexIs ==
  ASSUME NEW n \in Nat
  PROVE  Index(Words(8 * n)) = n % BlockSize
  <1>1. PICK m \in Nat : m > 0 /\ Word = 8 * (BlockSize * m)
    BY SizesAre DEF Sizes
  <1>2. BlockSize \in Nat /\ BlockSize > 0 /\ Word \in Nat /\ Word > 0
    BY SizesAre DEF Sizes
  <1> DEFINE q == (8 * n) \div Word
             c == (8 * n) % Word
             a == n - BlockSize * (m * q)
  <1>3. q \in Nat /\ c \in Nat /\ 8 * n = Word * q + c
    <2>1. 8 * n \in Nat
      OBVIOUS
    <2> QED BY <1>2, <2>1, Division
  <1> HIDE DEF q, c
  <1>4. c = 8 * a /\ a \in Int
    BY <1>1, <1>2, <1>3
  <1>5. a \in Nat /\ c \div 8 = a
    <2> HIDE DEF a
    <2> QED BY <1>3, <1>4
  <1>6. n = a + BlockSize * (m * q) /\ m * q \in Nat
    BY <1>2, <1>3
  <1> HIDE DEF a
  <1>7. n % BlockSize = a % BlockSize
    <2>1. \A x, b, y \in Nat : b > 0 => (x + b * y) % b = x % b
      BY ModPlus
    <2> DEFINE y == m * q
    <2>2. n = a + BlockSize * y /\ y \in Nat
      BY <1>6
    <2> HIDE DEF y
    <2> QED BY <1>2, <1>5, <2>1, <2>2, ZenonT(60)
  <1>8. Words(8 * n)[1] = c
    BY DEF Words, c
  <1> QED BY <1>5, <1>7, <1>8 DEF Index

-----------------------------------------------------------------------------
(* The text that a context holds: whole blocks of it in the state, the rest  *)
(* at the beginning of the buffer.                                           *)
Holds(c, t) ==
  /\ t \in Seq(Nat)
  /\ c.count = Words(8 * Len(t))
  /\ c.buffer \in [1 .. BlockSize -> Nat]
  /\ c.state \in Seq(Nat)
  /\ Len(c.state) = BlockSize * (Len(t) \div BlockSize)
  /\ \A k \in 1 .. Len(c.state) : c.state[k] = t[k]
  /\ \A k \in 1 .. Len(t) % BlockSize : c.buffer[k] = t[Len(c.state) + k]

(* memcpy into the buffer. *)
LEMMA OverlaidElements ==
  ASSUME NEW b \in [1 .. BlockSize -> Nat], NEW at \in Nat, NEW s \in Seq(Nat),
         at + Len(s) <= BlockSize
  PROVE  /\ Overlaid(b, at, s) \in [1 .. BlockSize -> Nat]
         /\ \A k \in 1 .. at : Overlaid(b, at, s)[k] = b[k]
         /\ \A k \in 1 .. Len(s) : Overlaid(b, at, s)[at + k] = s[k]
  <1> DEFINE o == Overlaid(b, at, s)
  <1>1. o = [k \in 1 .. BlockSize |-> IF k - at \in 1 .. Len(s) THEN s[k - at] ELSE b[k]]
    BY DEF Overlaid
  <1>2. BlockSize \in Nat
    BY SizesAre DEF Sizes
  <1> HIDE DEF o
  <1>3. ASSUME NEW k \in 1 .. BlockSize
        PROVE  /\ o[k] = IF k - at \in 1 .. Len(s) THEN s[k - at] ELSE b[k]
               /\ o[k] \in Nat
    BY <1>1
  <1>4. o \in [1 .. BlockSize -> Nat]
    BY <1>1, <1>3
  <1>5. ASSUME NEW k \in 1 .. at
        PROVE  o[k] = b[k]
    <2>1. k \in 1 .. BlockSize /\ k - at \notin 1 .. Len(s)
      BY <1>2
    <2> QED BY <1>3, <2>1
  <1>6. ASSUME NEW k \in 1 .. Len(s)
        PROVE  o[at + k] = s[k]
    <2>1. at + k \in 1 .. BlockSize /\ (at + k) - at = k
      BY <1>2
    <2> QED BY <1>3, <2>1
  <1> QED BY <1>4, <1>5, <1>6 DEF o

(* A piece that does not fill the buffer. *)
LEMMA UpdatedShort ==
  ASSUME NEW c, NEW t, Holds(c, t), NEW input \in Seq(Nat),
         (Len(t) % BlockSize) + Len(input) < BlockSize
  PROVE  Holds(Updated(c, input), t \o input)
  <1> DEFINE B == BlockSize
             n == Len(input)
             L == Len(t)
             x == L % B
             q == L \div B
             u == t \o input
             o == Overlaid(c.buffer, x, input)
  <1>1. B \in Nat /\ B > 0
    BY SizesAre DEF Sizes
  <1>2. t \in Seq(Nat) /\ L \in Nat /\ n \in Nat
    BY DEF Holds
  <1>3. x \in Nat /\ x < B /\ q \in Nat /\ L = B * q + x
    BY <1>1, <1>2, Division
  <1>4. Index(c.count) = x
    BY <1>2, IndexIs DEF Holds
  <1>5. Updated(c, input) = [state |-> c.state, buffer |-> o, count |-> Counted(c.count, n)]
    <2>1. ~(n >= B - x)
      BY <1>1, <1>2, <1>3
    <2> QED BY <1>4, <2>1 DEF Updated
  <1>6. Counted(c.count, n) = Words(8 * (L + n))
    <2>1. c.count = Words(8 * L) /\ 8 * L \in Nat /\ 8 * L + 8 * n = 8 * (L + n)
      BY <1>2 DEF Holds
    <2>2. \A y, z \in Nat : Counted(Words(y), z) = Words(y + 8 * z)
      BY CountsOn
    <2> HIDE DEF n, L
    <2> QED BY <1>2, <2>1, <2>2
  <1>7. /\ u \in Seq(Nat) /\ Len(u) = L + n
        /\ \A k \in 1 .. L : u[k] = t[k]
        /\ \A k \in 1 .. n : u[L + k] = input[k]
    BY <1>2, JoinedElements
  <1>8. /\ o \in [1 .. B -> Nat]
        /\ \A k \in 1 .. x : o[k] = c.buffer[k]
        /\ \A k \in 1 .. n : o[x + k] = input[k]
    <2>1. c.buffer \in [1 .. BlockSize -> Nat] /\ x + n <= BlockSize
      BY <1>1, <1>2, <1>3 DEF Holds
    <2> QED BY <1>3, <2>1, OverlaidElements
  <1>9. /\ c.state \in Seq(Nat) /\ Len(c.state) = B * q
        /\ \A k \in 1 .. B * q : c.state[k] = t[k]
        /\ \A k \in 1 .. x : c.buffer[k] = t[B * q + k]
    BY DEF Holds
  <1>10. x + n < B
    OBVIOUS
  <1> HIDE DEF B, n, L, x, q, u, o
  <1>11. (L + n) % B = x + n /\ (L + n) \div B = q
    <2> DEFINE r == x + n
    <2>1. L + n = B * q + r /\ r \in Nat /\ r < B
      BY <1>1, <1>2, <1>3, <1>10
    <2> HIDE DEF r
    <2>2. \A b, y, z \in Nat : z < b => (b * y + z) % b = z /\ (b * y + z) \div b = y
      BY DividesAs
    <2>3. (B * q + r) % B = r /\ (B * q + r) \div B = q
      BY <1>1, <1>3, <2>1, <2>2, Zenon
    <2> QED BY <2>1, <2>3 DEF r
  <1>12. B * q \in Nat /\ B * q <= L
    BY <1>1, <1>3
  <1>13. \A k \in 1 .. B * q : c.state[k] = u[k]
    BY <1>2, <1>7, <1>9, <1>12
  <1>14. ASSUME NEW k \in 1 .. x + n
         PROVE  o[k] = u[B * q + k]
    <2>1. CASE k <= x
      <3>1. k \in 1 .. x /\ B * q + k \in 1 .. L
        BY <1>2, <1>3, <1>12, <2>1
      <3> QED BY <1>7, <1>8, <1>9, <3>1
    <2>2. CASE k > x
      <3>1. k - x \in 1 .. n /\ x + (k - x) = k /\ L + (k - x) = B * q + k
        BY <1>2, <1>3, <1>12, <2>2
      <3> QED BY <1>7, <1>8, <3>1
    <2> QED BY <1>3, <2>1, <2>2
  <1>15. Holds([state |-> c.state, buffer |-> o, count |-> Words(8 * (L + n))], u)
    BY <1>7, <1>8, <1>9, <1>11, <1>13, <1>14 DEF Holds, B
  <1> QED BY <1>5, <1>6, <1>15 DEF u

(* A piece that does: the buffer is taken, then the whole blocks of the rest. *)
LEMMA UpdatedLong ==
  ASSUME NEW c, NEW t, Holds(c, t), NEW input \in Seq(Nat),
         (Len(t) % BlockSize) + Len(input) >= BlockSize
  PROVE  Holds(Updated(c, input), t \o input)
  <1> DEFINE B == BlockSize
             n == Len(input)
             L == Len(t)
             x == L % B
             q == L \div B
             first == B - x
             d == (n - first) \div B
             r == (n - first) % B
             i == Blocks(n, first)
             Q == B * q
             D == B * d
             u == t \o input
             head == SubSeq(input, 1, first)
             full == Overlaid(c.buffer, x, head)
             body == SubSeq(input, first + 1, i)
             rest == SubSeq(input, i + 1, n)
             taken == full \o body
             s == Transformed(c.state, taken)
             o == Overlaid(full, 0, rest)
  <1>1. B \in Nat /\ B > 0
    BY SizesAre DEF Sizes
  <1>2. t \in Seq(Nat) /\ L \in Nat /\ n \in Nat
    BY DEF Holds
  <1>3. x \in Nat /\ x < B /\ q \in Nat /\ L = Q + x /\ Q \in Nat
    <2>1. x \in Nat /\ x < B /\ q \in Nat /\ L = B * q + x
      BY <1>1, <1>2, Division
    <2>2. B * q \in Nat
      BY <1>1, <2>1
    <2> HIDE DEF L, x, q, B
    <2> QED BY <2>1, <2>2
  <1>4. first \in Nat /\ first > 0 /\ first <= n /\ x + first = B
    BY <1>1, <1>2, <1>3
  <1>5. /\ d \in Nat /\ r \in Nat /\ r < B /\ i \in Nat /\ n = i + r /\ i = first + D
        /\ D \in Nat
    <2> DEFINE e == n - first
    <2>1. e \in Nat /\ n = first + e
      BY <1>2, <1>4
    <2> HIDE DEF e
    <2>2. e \div B \in Nat /\ e % B \in Nat /\ e % B < B /\ e = B * (e \div B) + (e % B)
      BY <1>1, <2>1, Division
    <2>3. d = e \div B /\ r = e % B
      BY DEF e
    <2>4. i = first + D
      BY DEF Blocks
    <2> HIDE DEF d, r, i, first, n, B
    <2> DEFINE g == e \div B
               v == e % B
    <2>5. D \in Nat /\ e = D + r
      <3>1. D = B * g /\ r = v
        BY <2>3
      <3>2. g \in Nat /\ v \in Nat /\ e = B * g + v
        BY <2>2
      <3> HIDE DEF D, g, v
      <3>3. B * g \in Nat
        BY <1>1, <3>2
      <3> QED BY <3>1, <3>2, <3>3
    <2>6. d \in Nat /\ r \in Nat /\ r < B
      BY <2>2, <2>3
    <2> HIDE DEF D
    <2> QED BY <1>4, <2>1, <2>4, <2>5, <2>6
  <1>6. Updated(c, input) = [state |-> s, buffer |-> o, count |-> Counted(c.count, n)]
    <2>1. Index(c.count) = x
      BY <1>2, IndexIs DEF Holds
    <2>2. n >= B - x
      BY <1>1, <1>2, <1>3
    <2> QED BY <2>1, <2>2 DEF Updated
  <1>7. Counted(c.count, n) = Words(8 * (L + n))
    <2>1. c.count = Words(8 * L) /\ 8 * L \in Nat /\ 8 * L + 8 * n = 8 * (L + n)
      BY <1>2 DEF Holds
    <2>2. \A y, z \in Nat : Counted(Words(y), z) = Words(y + 8 * z)
      BY CountsOn
    <2> HIDE DEF n, L
    <2> QED BY <1>2, <2>1, <2>2
  <1>8. /\ u \in Seq(Nat) /\ Len(u) = L + n
        /\ \A k \in 1 .. L : u[k] = t[k]
        /\ \A k \in 1 .. n : u[L + k] = input[k]
    BY <1>2, JoinedElements
  <1>9. /\ c.buffer \in [1 .. B -> Nat]
        /\ c.state \in Seq(Nat) /\ Len(c.state) = Q
        /\ \A k \in 1 .. Q : c.state[k] = t[k]
        /\ \A k \in 1 .. x : c.buffer[k] = t[Q + k]
    BY DEF Holds
  <1>10. \A k, m \in Nat : 1 <= k /\ k <= m + 1 /\ m <= n =>
           /\ SubSeq(input, k, m) \in Seq(Nat)
           /\ Len(SubSeq(input, k, m)) = m - k + 1
           /\ \A j \in 1 .. m - k + 1 : SubSeq(input, k, m)[j] = input[k + j - 1]
    BY SliceElements
  <1>11. \A b \in [1 .. B -> Nat], at \in Nat, z \in Seq(Nat) : at + Len(z) <= B =>
           /\ Overlaid(b, at, z) \in [1 .. B -> Nat]
           /\ \A k \in 1 .. at : Overlaid(b, at, z)[k] = b[k]
           /\ \A k \in 1 .. Len(z) : Overlaid(b, at, z)[at + k] = z[k]
    BY OverlaidElements
  <1>0. Q = B * q /\ D = B * d /\ B * (q + 1 + d) = Q + (B + D)
    BY <1>1, <1>3, <1>5
  <1> HIDE DEF B, n, L, x, q, first, d, r, i, u, Q, D
  <1>12. /\ head \in Seq(Nat) /\ Len(head) = first
         /\ \A j \in 1 .. first : head[j] = input[j]
    <2>1. 1 \in Nat /\ 1 <= first + 1 /\ first - 1 + 1 = first
          /\ \A j \in 1 .. first : 1 + j - 1 = j
      BY <1>4
    <2> QED BY <1>4, <1>10, <2>1
  <1>13. /\ body \in Seq(Nat) /\ Len(body) = D
         /\ \A j \in 1 .. D : body[j] = input[first + j]
    <2>1. /\ first + 1 \in Nat /\ i \in Nat /\ 1 <= first + 1 /\ first + 1 <= i + 1
          /\ i <= n /\ i - (first + 1) + 1 = D
          /\ \A j \in 1 .. D : (first + 1) + j - 1 = first + j
      BY <1>2, <1>4, <1>5
    <2>2. /\ body \in Seq(Nat)
          /\ Len(body) = i - (first + 1) + 1
          /\ \A j \in 1 .. i - (first + 1) + 1 : body[j] = input[(first + 1) + j - 1]
      BY <1>10, <2>1, Zenon
    <2> HIDE DEF body
    <2> QED BY <2>1, <2>2
  <1>14. /\ rest \in Seq(Nat) /\ Len(rest) = r
         /\ \A j \in 1 .. r : rest[j] = input[i + j]
    <2>1. /\ i + 1 \in Nat /\ n \in Nat /\ 1 <= i + 1 /\ i + 1 <= n + 1
          /\ n <= n /\ n - (i + 1) + 1 = r
          /\ \A j \in 1 .. r : (i + 1) + j - 1 = i + j
      BY <1>2, <1>4, <1>5
    <2>2. /\ rest \in Seq(Nat)
          /\ Len(rest) = n - (i + 1) + 1
          /\ \A j \in 1 .. n - (i + 1) + 1 : rest[j] = input[(i + 1) + j - 1]
      BY <1>10, <2>1, Zenon
    <2> HIDE DEF rest
    <2> QED BY <2>1, <2>2
  <1> HIDE DEF head, body, rest
  <1>15. /\ full \in [1 .. B -> Nat]
         /\ \A k \in 1 .. x : full[k] = c.buffer[k]
         /\ \A k \in 1 .. first : full[x + k] = head[k]
    <2>1. x + Len(head) <= B
      BY <1>1, <1>4, <1>12
    <2> QED BY <1>3, <1>9, <1>11, <1>12, <2>1
  <1> HIDE DEF full
  <1>16. /\ o \in [1 .. B -> Nat]
         /\ \A k \in 1 .. r : o[k] = rest[k]
    <2>1. 0 + Len(rest) <= B /\ 0 \in Nat
      BY <1>1, <1>5, <1>14
    <2>2. /\ o \in [1 .. B -> Nat]
          /\ \A k \in 1 .. Len(rest) : o[0 + k] = rest[k]
      BY <1>11, <1>14, <1>15, <2>1
    <2> QED BY <1>5, <1>14, <2>2
  <1>17. full \in Seq(Nat) /\ Len(full) = B
    BY <1>1, <1>15
  <1>18. /\ taken \in Seq(Nat) /\ Len(taken) = B + D
         /\ \A k \in 1 .. B : taken[k] = full[k]
         /\ \A k \in 1 .. D : taken[B + k] = body[k]
    <2>1. \A y, z \in Seq(Nat) :
            /\ y \o z \in Seq(Nat) /\ Len(y \o z) = Len(y) + Len(z)
            /\ \A k \in 1 .. Len(y) : (y \o z)[k] = y[k]
            /\ \A k \in 1 .. Len(z) : (y \o z)[Len(y) + k] = z[k]
      BY JoinedElements
    <2>2. /\ taken \in Seq(Nat) /\ Len(taken) = Len(full) + Len(body)
          /\ \A k \in 1 .. Len(full) : taken[k] = full[k]
          /\ \A k \in 1 .. Len(body) : taken[Len(full) + k] = body[k]
      BY <1>13, <1>17, <2>1
    <2> HIDE DEF taken
    <2> QED BY <1>13, <1>17, <2>2
  <1> HIDE DEF taken, o
  <1>19. /\ s \in Seq(Nat) /\ Len(s) = Q + (B + D)
         /\ \A k \in 1 .. Q : s[k] = c.state[k]
         /\ \A k \in 1 .. B + D : s[Q + k] = taken[k]
    <2>1. \A y, z \in Seq(Nat) :
            /\ y \o z \in Seq(Nat) /\ Len(y \o z) = Len(y) + Len(z)
            /\ \A k \in 1 .. Len(y) : (y \o z)[k] = y[k]
            /\ \A k \in 1 .. Len(z) : (y \o z)[Len(y) + k] = z[k]
      BY JoinedElements
    <2>2. /\ s \in Seq(Nat) /\ Len(s) = Len(c.state) + Len(taken)
          /\ \A k \in 1 .. Len(c.state) : s[k] = c.state[k]
          /\ \A k \in 1 .. Len(taken) : s[Len(c.state) + k] = taken[k]
      BY <1>9, <1>18, <2>1 DEF Transformed
    <2> HIDE DEF s
    <2> QED BY <1>9, <1>18, <2>2
  <1> HIDE DEF s
  <1>20. Q \in Nat
    BY <1>3
  <1>21. (L + n) % B = r /\ (L + n) \div B = q + 1 + d
    <2> DEFINE y == q + 1 + d
    <2>1. B * y = Q + (B + D)
      BY <1>0
    <2>2. y \in Nat
      BY <1>3, <1>5
    <2> HIDE DEF y
    <2>3. L + n = B * y + r
      BY <1>2, <1>3, <1>4, <1>5, <1>20, <2>1
    <2>4. \A b, w, z \in Nat : z < b => (b * w + z) % b = z /\ (b * w + z) \div b = w
      BY DividesAs
    <2>5. (B * y + r) % B = r /\ (B * y + r) \div B = y
      BY <1>1, <1>5, <2>2, <2>4, Zenon
    <2> QED BY <2>3, <2>5 DEF y
  <1>22. Len(s) = B * (q + 1 + d)
    BY <1>0, <1>19
  <1>23. L + i = Len(s) /\ L + first = Q + B /\ Len(s) \in Nat
    BY <1>1, <1>2, <1>3, <1>4, <1>5, <1>19, <1>20
  <1>24. ASSUME NEW k \in 1 .. Len(s)
         PROVE  s[k] = u[k]
    <2>1. CASE k <= Q
      <3>1. k \in 1 .. Q /\ k \in 1 .. L
        BY <1>2, <1>3, <1>20, <2>1
      <3> QED BY <1>8, <1>9, <1>19, <3>1
    <2> DEFINE j == k - Q
    <2>2. CASE k > Q /\ k <= L
      <3>1. j \in 1 .. x /\ j \in 1 .. B /\ j \in 1 .. B + D /\ Q + j = k /\ k \in 1 .. L
        BY <1>1, <1>2, <1>3, <1>5, <1>20, <2>2
      <3> HIDE DEF j
      <3>2. s[k] = taken[j]
        BY <1>19, <3>1
      <3>3. taken[j] = full[j] /\ full[j] = c.buffer[j]
        BY <1>15, <1>18, <3>1
      <3>4. c.buffer[j] = t[k] /\ u[k] = t[k]
        BY <1>8, <1>9, <3>1
      <3> QED BY <3>2, <3>3, <3>4
    <2>3. CASE k > L /\ k <= Q + B
      <3>1. /\ j - x \in 1 .. first /\ j \in 1 .. B /\ j \in 1 .. B + D
            /\ Q + j = k /\ x + (j - x) = j /\ L + (j - x) = k
            /\ j - x \in 1 .. n
        BY <1>1, <1>2, <1>3, <1>4, <1>5, <1>20, <2>3
      <3> HIDE DEF j
      <3>2. s[k] = taken[j] /\ taken[j] = full[j]
        BY <1>18, <1>19, <3>1
      <3>3. full[j] = head[j - x] /\ head[j - x] = input[j - x]
        BY <1>12, <1>15, <3>1
      <3>4. u[k] = input[j - x]
        BY <1>8, <3>1
      <3> QED BY <3>2, <3>3, <3>4
    <2>4. CASE k > Q + B
      <3> DEFINE w == j - B
      <3>1. /\ w \in 1 .. D /\ j \in 1 .. B + D /\ B + w = j
            /\ Q + j = k
        BY <1>1, <1>5, <1>19, <1>20, <2>4
      <3>2. first + w \in 1 .. n /\ L + (first + w) = k
        BY <1>1, <1>2, <1>4, <1>5, <1>20, <1>23, <3>1
      <3> HIDE DEF w, j
      <3>3. s[k] = taken[j] /\ taken[j] = body[w]
        BY <1>18, <1>19, <3>1
      <3>4. body[w] = input[first + w] /\ u[k] = input[first + w]
        BY <1>8, <1>13, <3>1, <3>2
      <3> QED BY <3>3, <3>4
    <2>5. k <= Q \/ (k > Q /\ k <= L) \/ (k > L /\ k <= Q + B) \/ k > Q + B
      BY <1>1, <1>2, <1>20, <1>23
    <2> QED BY <2>1, <2>2, <2>3, <2>4, <2>5
  <1>25. ASSUME NEW k \in 1 .. r
         PROVE  o[k] = u[Len(s) + k]
    <2>1. i + k \in 1 .. n
      BY <1>2, <1>5
    <2>3. L + (i + k) = Len(s) + k
      <3>1. \A y, z, w, v \in Int : y + z = w => y + (z + v) = w + v
        OBVIOUS
      <3>2. L \in Int /\ i \in Int /\ Len(s) \in Int /\ k \in Int
        BY <1>2, <1>5, <1>23
      <3> QED BY <1>23, <3>1, <3>2
    <2>2. o[k] = input[i + k]
      BY <1>14, <1>16
    <2> QED BY <1>8, <2>1, <2>2, <2>3
  <1>26. Holds([state |-> s, buffer |-> o, count |-> Words(8 * (L + n))], u)
    BY <1>8, <1>16, <1>19, <1>21, <1>22, <1>24, <1>25 DEF Holds, B
  <1> QED BY <1>6, <1>7, <1>26 DEF u

(* update(), whatever the length of the piece. *)
LEMMA UpdatedHolds ==
  ASSUME NEW c, NEW t, Holds(c, t), NEW input \in Seq(Nat)
  PROVE  Holds(Updated(c, input), t \o input)
  <1>1. Len(t) % BlockSize \in Nat /\ BlockSize \in Nat /\ Len(input) \in Nat
    <2>1. BlockSize \in Nat /\ BlockSize > 0 /\ Len(t) \in Nat
      BY SizesAre DEF Sizes, Holds
    <2> QED BY <2>1, Division
  <1> QED BY <1>1, UpdatedShort, UpdatedLong

-----------------------------------------------------------------------------
(* The length field. *)

Pow(k) == Radix ^ k

LEMMA Powers ==
  /\ Pow(0) = 1 /\ Pow(WordBytes) = Word
  /\ \A k \in 0 .. FieldBytes : Pow(k) \in Nat /\ Pow(k) > 0 /\ Pow(k + 1) = Radix * Pow(k)
  <1>1. Pow(WordBytes) = Word
    BY DEF Pow, Word
  <1> QED BY <1>1, PowersAssumption DEF Pow

(* Powers add up. *)
LEMMA PowerSum ==
  ASSUME NEW a \in Nat
  PROVE  \A b \in Nat : a + b <= FieldBytes => Pow(a + b) = Pow(a) * Pow(b)
  <1> DEFINE T == {b \in Nat : a + b <= FieldBytes /\ Pow(a + b) # Pow(a) * Pow(b)}
  <1>1. FieldBytes \in Nat /\ Radix \in Nat
    BY SizesAre DEF Sizes
  <1>2. /\ Pow(0) = 1
        /\ \A k \in 0 .. FieldBytes : Pow(k) \in Nat /\ Pow(k + 1) = Radix * Pow(k)
    BY Powers
  <1>3. SUFFICES ASSUME T # {}
                 PROVE  FALSE
    OBVIOUS
  <1>4. PICK b \in T : \A y \in T : b <= y
    BY <1>3, Smallest
  <1>5. b \in Nat /\ a + b <= FieldBytes /\ Pow(a + b) # Pow(a) * Pow(b)
    BY <1>4
  <1>6. CASE b = 0
    <2>1. a \in 0 .. FieldBytes /\ a + b = a
      BY <1>1, <1>5, <1>6
    <2>2. Pow(a) \in Nat /\ Pow(b) = 1
      BY <1>2, <1>6, <2>1
    <2>3. Pow(a) * 1 = Pow(a)
      BY <2>2
    <2> QED BY <1>5, <2>1, <2>2, <2>3
  <1>7. CASE b > 0
    <2> DEFINE e == b - 1
               f == a + e
    <2>1. /\ e \in Nat /\ e + 1 = b /\ f + 1 = a + b /\ f \in 0 .. FieldBytes
          /\ a \in 0 .. FieldBytes /\ e \in 0 .. FieldBytes /\ ~(b <= e)
          /\ a + e <= FieldBytes
      BY <1>1, <1>5, <1>7
    <2> HIDE DEF e
    <2>2. Pow(a + e) = Pow(a) * Pow(e)
      BY <1>4, <2>1
    <2>3. Pow(b) = Radix * Pow(e) /\ Pow(a + b) = Radix * Pow(f)
      BY <1>2, <2>1
    <2>4. Pow(a) \in Nat /\ Pow(e) \in Nat
      BY <1>2, <2>1
    <2>5. \A x, y \in Nat : Radix * (x * y) = x * (Radix * y)
      BY <1>1
    <2> QED BY <1>5, <2>2, <2>3, <2>4, <2>5
  <1> QED BY <1>5, <1>6, <1>7

(* The digit of x that p stands for. *)
Digit(x, p) == (x \div p) % Radix

(* A digit of the low word, and one of the high word, are digits of the      *)
(* number.                                                                   *)
LEMMA LowDigit ==
  ASSUME NEW n \in Nat, NEW W \in Nat, W > 0, NEW p \in Nat, p > 0,
         NEW m \in Nat, W = p * (Radix * m)
  PROVE  Digit(n % W, p) = Digit(n, p)
  <1> DEFINE R == Radix
             c == n % W
             q == n \div W
             e == c \div p
             f == c % p
             y == m * q
  <1>1. R \in Nat /\ R > 0
    BY SizesAre DEF Sizes
  <1> HIDE DEF R
  <1>2. W = p * (R * m)
    BY DEF R
  <1>3. c \in Nat /\ q \in Nat /\ n = W * q + c
    BY Division
  <1> HIDE DEF c, q
  <1>4. e \in Nat /\ f \in Nat /\ f < p /\ c = p * e + f
    BY <1>3, Division
  <1>5. y \in Nat
    BY <1>3
  <1>6. W * q = p * (R * y)
    BY <1>1, <1>2, <1>3
  <1> HIDE DEF e, f, y
  <1>7. R * y + e \in Nat /\ n = p * (R * y + e) + f
    BY <1>1, <1>3, <1>4, <1>5, <1>6
  <1>8. n \div p = e + R * y
    <2> DEFINE g == R * y + e
    <2>1. g \in Nat /\ n = p * g + f
      BY <1>7
    <2>2. g = e + R * y
      BY <1>1, <1>4, <1>5, <1>7
    <2> HIDE DEF g
    <2>3. (p * g + f) \div p = g
      BY <1>4, <2>1, DividesAs
    <2> QED BY <2>1, <2>2, <2>3
  <1>9. (e + R * y) % R = e % R
    BY <1>1, <1>4, <1>5, ModPlus
  <1> QED BY <1>8, <1>9 DEF e, c, R, Digit

LEMMA HighDigit ==
  ASSUME NEW n \in Nat, NEW W \in Nat, W > 0, NEW p \in Nat, p > 0
  PROVE  (n \div W) \div p = n \div (W * p)
  <1> DEFINE h == n \div W
             c == n % W
             e == h \div p
             f == h % p
             r == W * f + c
  <1>1. h \in Nat /\ c \in Nat /\ c < W /\ n = W * h + c
    BY Division
  <1> HIDE DEF h, c
  <1>2. e \in Nat /\ f \in Nat /\ f < p /\ h = p * e + f
    BY <1>1, Division
  <1> HIDE DEF e, f
  <1>3. r \in Nat /\ r < W * p
    <2>1. W * f \in Nat
      BY <1>2
    <2>2. f + 1 <= p
      BY <1>2
    <2>3. W * (f + 1) <= W * p
      BY <1>2, <2>2
    <2>4. W * (f + 1) = W * f + W
      BY <1>2
    <2>5. W * p \in Nat
      OBVIOUS
    <2> QED BY <1>1, <2>1, <2>3, <2>4, <2>5
  <1>4. n = (W * p) * e + r
    BY <1>1, <1>2
  <1> HIDE DEF r
  <1>5. n \div (W * p) = e
    <2> DEFINE V == W * p
    <2>1. V \in Nat /\ V > 0 /\ r < V /\ n = V * e + r
      BY <1>3, <1>4
    <2> HIDE DEF V
    <2>2. (V * e + r) \div V = e
      BY <1>2, <1>3, <2>1, DividesAs
    <2> QED BY <2>1, <2>2 DEF V
  <1> QED BY <1>5 DEF e, h

(* The bytes of two words are those of the first, then those of the second.  *)
LEMMA FlattenPair ==
  ASSUME NEW S, NEW a \in Seq(S), NEW b \in Seq(S), NEW ss, ss = << a, b >>
  PROVE  FlattenSeq(ss) = a \o b
  <1> DEFINE P(f) == f = [i \in 1 .. 2 |-> IF i = 1 THEN ss[i] ELSE f[i - 1] \o ss[i]]
  <1>1. Len(ss) = 2 /\ ss[1] = a /\ ss[2] = b
    OBVIOUS
  <1>2. FlattenSeq(ss) = (CHOOSE f : P(f))[2]
    BY <1>1 DEF FlattenSeq
  <1>3. P([i \in 1 .. 2 |-> IF i = 1 THEN a ELSE a \o b])
    BY <1>1
  <1>4. P(CHOOSE f : P(f))
    <2> HIDE DEF P
    <2> QED BY <1>3
  <1>5. ASSUME NEW f, P(f)
        PROVE  f[2] = a \o b
    <2> DEFINE g == [i \in 1 .. 2 |-> IF i = 1 THEN ss[i] ELSE f[i - 1] \o ss[i]]
    <2>1. f = g
      BY <1>5
    <2>2. g[1] = ss[1]
      OBVIOUS
    <2>3. 2 \in 1 .. 2 /\ 2 # 1 /\ 2 - 1 = 1
      OBVIOUS
    <2>4. g[2] = IF 2 = 1 THEN ss[2] ELSE f[2 - 1] \o ss[2]
      BY <2>3, Zenon
    <2>5. g[2] = f[1] \o ss[2]
      BY <2>3, <2>4, Zenon
    <2> HIDE DEF g
    <2>6. f[1] = a /\ f[2] = f[1] \o b
      BY <1>1, <2>1, <2>2, <2>5
    <2> QED BY <2>6
  <1> QED BY <1>2, <1>4, <1>5

(* A word is a whole number of digits above each of its digits. *)
LEMMA WordSplits ==
  ASSUME NEW i \in 1 .. WordBytes
  PROVE  /\ Pow(i - 1) \in Nat /\ Pow(i - 1) > 0
         /\ \E m \in Nat : m > 0 /\ Word = Pow(i - 1) * (Radix * m)
  <1>1. /\ WordBytes \in Nat /\ FieldBytes = 2 * WordBytes /\ Radix \in Nat
    BY SizesAre DEF Sizes, FieldBytes
  <1> DEFINE a == i - 1
             b == WordBytes - i
  <1>2. /\ a \in 0 .. FieldBytes /\ b \in 0 .. FieldBytes /\ b + 1 \in Nat
        /\ a \in Nat /\ a + (b + 1) = WordBytes /\ a + (b + 1) <= FieldBytes
    BY <1>1
  <1> HIDE DEF a, b
  <1>3. /\ Pow(a) \in Nat /\ Pow(a) > 0 /\ Pow(b) \in Nat /\ Pow(b) > 0
        /\ Pow(b + 1) = Radix * Pow(b) /\ Pow(WordBytes) = Word
    BY <1>2, Powers
  <1>4. Pow(a + (b + 1)) = Pow(a) * Pow(b + 1)
    BY <1>2, PowerSum
  <1>5. Word = Pow(a) * (Radix * Pow(b))
    BY <1>2, <1>3, <1>4
  <1> QED BY <1>3, <1>5 DEF a

(* encode() gives the digits of the number that the words count. *)
LEMMA Encoded ==
  ASSUME NEW n \in Nat
  PROVE  /\ Encode(Words(n)) \in Seq(Nat)
         /\ Len(Encode(Words(n))) = FieldBytes
         /\ \A i \in 1 .. FieldBytes :
              Encode(Words(n))[i] = (n \div Radix ^ (i - 1)) % Radix
  <1> DEFINE W == Word
             B == WordBytes
             R == Radix
             Bytes(x) == [i \in 1 .. B |-> (x \div Radix ^ (i - 1)) % Radix]
             x == n % W
             h == n \div W
             y == h % W
             a == Bytes(x)
             b == Bytes(y)
             u == Encode(Words(n))
  <1>1. /\ B \in Nat /\ FieldBytes = 2 * B /\ R \in Nat /\ R > 0
        /\ W \in Nat /\ W > 0
    BY SizesAre DEF Sizes, FieldBytes
  <1>2. x \in Nat /\ h \in Nat
    BY <1>1, Division
  <1>3. y \in Nat
    <2> HIDE DEF W, h
    <2> QED BY <1>1, <1>2, Division
  <1>4. ASSUME NEW z \in Nat
        PROVE  /\ Bytes(z) \in Seq(Nat) /\ Len(Bytes(z)) = B
               /\ \A i \in 1 .. B : Bytes(z)[i] = (z \div Pow(i - 1)) % R
    <2>1. ASSUME NEW i \in 1 .. B
          PROVE  (z \div Pow(i - 1)) % R \in Nat
      <3>1. Pow(i - 1) \in Nat /\ Pow(i - 1) > 0
        BY WordSplits
      <3> DEFINE p == Pow(i - 1)
                 g == z \div p
      <3>2. g \in Nat
        <4> HIDE DEF p
        <4> QED BY <3>1, Division DEF p
      <3> HIDE DEF g
      <3>3. g % R \in Nat
        BY <1>1, <3>2, Division
      <3> QED BY <3>3 DEF g
    <2>2. \A i \in 1 .. B : Bytes(z)[i] = (z \div Pow(i - 1)) % R
      BY DEF Pow
    <2>3. Bytes(z) = [i \in 1 .. B |-> (z \div Pow(i - 1)) % R]
      BY DEF Pow
    <2> HIDE DEF R, Bytes
    <2>4. Bytes(z) \in [1 .. B -> Nat]
      BY <2>1, <2>3
    <2> HIDE DEF B
    <2>5. Bytes(z) \in Seq(Nat) /\ Len(Bytes(z)) = B
      BY <1>1, <2>4
    <2> QED BY <2>2, <2>5
  <1>5. u = a \o b
    <2>1. Words(n) = << x, y >>
      BY DEF Words
    <2> DEFINE ss == [w \in DOMAIN Words(n) |-> Bytes(Words(n)[w])]
    <2>2. u = FlattenSeq(ss)
      BY DEF Encode
    <2>3. ss = << a, b >>
      <3> HIDE DEF x, y, Bytes
      <3> QED BY <2>1
    <2>4. a \in Seq(Nat) /\ b \in Seq(Nat)
      BY <1>2, <1>3, <1>4
    <2> HIDE DEF ss, a, b, u
    <2>5. FlattenSeq(ss) = a \o b
      BY <2>3, <2>4, FlattenPair
    <2> QED BY <2>2, <2>5
  <1>6. /\ a \in Seq(Nat) /\ Len(a) = B
        /\ \A i \in 1 .. B : a[i] = (x \div Pow(i - 1)) % R
        /\ b \in Seq(Nat) /\ Len(b) = B
        /\ \A i \in 1 .. B : b[i] = (y \div Pow(i - 1)) % R
    BY <1>2, <1>3, <1>4
  <1> HIDE DEF a, b, u, x, y, h, Bytes
  <1>7. /\ u \in Seq(Nat) /\ Len(u) = Len(a) + Len(b)
        /\ \A k \in 1 .. Len(a) : u[k] = a[k]
        /\ \A k \in 1 .. Len(b) : u[Len(a) + k] = b[k]
    <2>1. \A s, t \in Seq(Nat) :
            /\ s \o t \in Seq(Nat) /\ Len(s \o t) = Len(s) + Len(t)
            /\ \A k \in 1 .. Len(s) : (s \o t)[k] = s[k]
            /\ \A k \in 1 .. Len(t) : (s \o t)[Len(s) + k] = t[k]
      BY JoinedElements
    <2> QED BY <1>5, <1>6, <2>1
  <1>8. ASSUME NEW v \in Nat, NEW i \in 1 .. B
        PROVE  ((v % W) \div Pow(i - 1)) % R = (v \div Pow(i - 1)) % R
    <2> DEFINE p == Pow(i - 1)
    <2>1. PICK m \in Nat : m > 0 /\ W = p * (R * m)
      BY WordSplits
    <2>2. p \in Nat /\ p > 0
      BY WordSplits
    <2>3. Digit(v % W, p) = Digit(v, p)
      <3> HIDE DEF p, W
      <3>1. \A n1, W1, p1, m1 \in Nat : W1 > 0 /\ p1 > 0 /\ W1 = p1 * (Radix * m1) =>
              Digit(n1 % W1, p1) = Digit(n1, p1)
        BY LowDigit
      <3>2. W \in Nat /\ W > 0 /\ m \in Nat /\ W = p * (Radix * m)
        BY <1>1, <2>1
      <3> QED BY <2>2, <3>1, <3>2, SMTT(30)
    <2> HIDE DEF p, W
    <2> QED BY <2>3 DEF p, Digit
  <1>9. ASSUME NEW i \in 1 .. B
        PROVE  u[i] = (n \div Pow(i - 1)) % R
    <2>1. u[i] = (x \div Pow(i - 1)) % R
      BY <1>6, <1>7
    <2> QED BY <1>8, <2>1, Zenon DEF x
  <1>10. ASSUME NEW i \in B + 1 .. FieldBytes
         PROVE  u[i] = (n \div Pow(i - 1)) % R
    <2> DEFINE j == i - B
               p == Pow(j - 1)
    <2>1. /\ j \in 1 .. B /\ B + j = i /\ B + (j - 1) = i - 1 /\ j - 1 \in Nat
          /\ B + (j - 1) <= FieldBytes
      BY <1>1
    <2> HIDE DEF j
    <2>2. u[i] = (y \div p) % R
      BY <1>6, <1>7, <2>1
    <2>3. (y \div p) % R = (h \div p) % R
      BY <1>2, <1>8, <2>1, Zenon DEF y
    <2>4. p \in Nat /\ p > 0
      BY <2>1, WordSplits
    <2>5. h \div p = n \div (W * p)
      <3> HIDE DEF p, W
      <3> QED BY <1>1, <2>4, HighDigit DEF h
    <2>6. W * p = Pow(i - 1)
      <3>1. Pow(B + (j - 1)) = Pow(B) * p
        BY <1>1, <2>1, PowerSum
      <3>2. Pow(B) = W
        BY Powers
      <3> QED BY <2>1, <3>1, <3>2
    <2> HIDE DEF p
    <2> QED BY <2>2, <2>3, <2>5, <2>6
  <1>11. Len(u) = FieldBytes
    BY <1>1, <1>6, <1>7
  <1>12. \A i \in 1 .. FieldBytes : u[i] = (n \div Radix ^ (i - 1)) % Radix
    <2> SUFFICES ASSUME NEW i \in 1 .. FieldBytes
                 PROVE  u[i] = (n \div Pow(i - 1)) % R
      BY DEF Pow
    <2>1. i \in 1 .. B \/ i \in B + 1 .. FieldBytes
      BY <1>1
    <2> QED BY <1>9, <1>10, <2>1
  <1> QED BY <1>7, <1>11, <1>12 DEF u

-----------------------------------------------------------------------------
(* The padding. *)

(* The length of the padding is positive and leaves just the length field. *)
LEMMA PadLengthIs ==
  ASSUME NEW x \in 0 .. BlockSize - 1
  PROVE  /\ PadLength(x) \in 1 .. BlockSize
         /\ \/ x + PadLength(x) + FieldBytes = BlockSize
            \/ x + PadLength(x) + FieldBytes = 2 * BlockSize
  <1> DEFINE B == BlockSize
             F == FieldBytes
  <1>1. B \in Nat /\ F \in Nat /\ F > 0 /\ F < B
    BY SizesAre DEF Sizes
  <1>2. PadLength(x) = IF x < B - F THEN B - F - x ELSE 2 * B - F - x
    BY DEF PadLength
  <1> HIDE DEF F, B
  <1>3. x \in 0 .. B - 1
    BY DEF B
  <1>4. /\ PadLength(x) \in 1 .. B
        /\ \/ x + PadLength(x) + F = B
           \/ x + PadLength(x) + F = 2 * B
    BY <1>1, <1>2, <1>3
  <1> QED BY <1>4 DEF B, F

(* Two multiples of the block that are less than a block apart are one. *)
LEMMA SameMultiple ==
  ASSUME NEW b \in Nat, b > 0, NEW x \in Nat, NEW y \in Nat,
         x % b = 0, y % b = 0, x - y < b, y - x < b
  PROVE  x = y
  <1> DEFINE p == x \div b
             q == y \div b
  <1>1. p \in Nat /\ x = b * p + (x % b) /\ q \in Nat /\ y = b * q + (y % b)
    BY Division
  <1>2. x = b * p /\ y = b * q
    <2> HIDE DEF p, q
    <2> QED BY <1>1
  <1> HIDE DEF p, q
  <1>3. CASE p > q
    <2>1. b * (p - q) >= b
      BY <1>1, <1>3
    <2>2. b * (p - q) = x - y
      BY <1>1, <1>2
    <2> QED BY <2>1, <2>2
  <1>4. CASE q > p
    <2>1. b * (q - p) >= b
      BY <1>1, <1>4
    <2>2. b * (q - p) = y - x
      BY <1>1, <1>2
    <2> QED BY <2>1, <2>2
  <1>5. CASE p = q
    BY <1>2, <1>5
  <1> QED BY <1>1, <1>3, <1>4, <1>5

(* The code pads with as many zeroes as RFC 1321 asks for. *)
LEMMA ZeroesAre ==
  ASSUME NEW n \in Nat
  PROVE  H!Zeroes(n) = PadLength(n % BlockSize) - 1
  <1> DEFINE B == BlockSize
             F == FieldBytes
             x == n % B
             q == n \div B
             p == PadLength(x)
             P(z) == (n + 1 + z + F) % B = 0
  <1>1. B \in Nat /\ B > 0 /\ F \in Nat
    BY SizesAre DEF Sizes
  <1>2. x \in 0 .. B - 1 /\ q \in Nat /\ n = B * q + x
    <2>1. x \in Nat /\ x < B /\ q \in Nat /\ n = B * q + x
      BY <1>1, Division
    <2> HIDE DEF x, q, B
    <2> QED BY <1>1, <2>1
  <1>3. H!Zeroes(n) = CHOOSE z \in 0 .. B - 1 : P(z)
    BY DEF H!Zeroes, H!FieldBytes, FieldBytes
  <1>4. /\ p \in 1 .. B
        /\ x + p + F = B \/ x + p + F = 2 * B
    BY <1>2, PadLengthIs
  <1> HIDE DEF B, F, x, q, p
  <1>5. p - 1 \in 0 .. B - 1 /\ P(p - 1)
    <2>1. PICK k \in {1, 2} : x + p + F = B * k
      BY <1>1, <1>4
    <2>2. n + 1 + (p - 1) + F = 0 + B * (q + k) /\ q + k \in Nat
      BY <1>1, <1>2, <1>4, <2>1
    <2> DEFINE w == q + k
    <2>3. \A a, b, y \in Nat : b > 0 => (a + b * y) % b = a % b
      BY ModPlus
    <2>4. w \in Nat /\ 0 \in Nat
      BY <2>2
    <2> HIDE DEF w
    <2>5. (0 + B * w) % B = 0 % B
      BY <1>1, <2>3, <2>4
    <2>6. 0 % B = 0
      BY <1>1
    <2> QED BY <1>1, <1>4, <2>2, <2>5, <2>6 DEF w
  <1>6. ASSUME NEW z \in 0 .. B - 1, P(z)
        PROVE  z = p - 1
    <2> DEFINE y == n + 1 + z + F
               w == n + 1 + (p - 1) + F
    <2>1. y \in Nat /\ w \in Nat /\ y - w < B /\ w - y < B
      BY <1>1, <1>4
    <2>2. y % B = 0 /\ w % B = 0
      BY <1>5, <1>6
    <2> HIDE DEF y, w
    <2>3. y = w
      BY <1>1, <2>1, <2>2, SameMultiple
    <2> QED BY <1>1, <1>4, <2>3 DEF y, w
  <1>7. (CHOOSE z \in 0 .. B - 1 : P(z)) = p - 1
    <2> HIDE DEF P
    <2> QED BY <1>5, <1>6
  <1> QED BY <1>3, <1>7 DEF p, x, B

(* The padding as a sequence. *)
LEMMA PaddingIs ==
  ASSUME NEW p \in Nat, p > 0
  PROVE  /\ Padding(p) \in Seq(Nat) /\ Len(Padding(p)) = p
         /\ Padding(p) = << Radix \div 2 >> \o [i \in 1 .. p - 1 |-> 0]
  <1> DEFINE h == Radix \div 2
             a == << h >>
             z == [i \in 1 .. p - 1 |-> 0]
             d == Padding(p)
  <1>1. h \in Nat
    BY SizesAre DEF Sizes
  <1> HIDE DEF h
  <1>2. d = [i \in 1 .. p |-> IF i = 1 THEN h ELSE 0]
    BY DEF Padding, h
  <1>3. /\ d \in Seq(Nat) /\ Len(d) = p
        /\ d[1] = h /\ \A i \in 2 .. p : d[i] = 0
    BY <1>1, <1>2
  <1>4. a \in Seq(Nat) /\ Len(a) = 1 /\ a[1] = h
    BY <1>1
  <1>5. z \in Seq(Nat) /\ Len(z) = p - 1 /\ \A i \in 1 .. p - 1 : z[i] = 0
    OBVIOUS
  <1> HIDE DEF a, z, d
  <1> DEFINE s == a \o z
  <1>6. /\ s \in Seq(Nat) /\ Len(s) = Len(a) + Len(z)
        /\ \A k \in 1 .. Len(a) : s[k] = a[k]
        /\ \A k \in 1 .. Len(z) : s[Len(a) + k] = z[k]
    <2>1. \A y, w \in Seq(Nat) :
            /\ y \o w \in Seq(Nat) /\ Len(y \o w) = Len(y) + Len(w)
            /\ \A k \in 1 .. Len(y) : (y \o w)[k] = y[k]
            /\ \A k \in 1 .. Len(w) : (y \o w)[Len(y) + k] = w[k]
      BY JoinedElements
    <2> QED BY <1>4, <1>5, <2>1
  <1> HIDE DEF s
  <1>7. Len(s) = Len(d)
    BY <1>3, <1>4, <1>5, <1>6
  <1>8. ASSUME NEW k \in 1 .. Len(d)
        PROVE  s[k] = d[k]
    <2>1. CASE k = 1
      BY <1>3, <1>4, <1>6, <2>1
    <2>2. CASE k > 1
      <3>1. k - 1 \in 1 .. p - 1 /\ 1 + (k - 1) = k /\ k \in 2 .. p
        BY <1>3, <2>2
      <3>2. d[k] = 0 /\ z[k - 1] = 0
        BY <1>3, <1>5, <3>1
      <3>3. s[1 + (k - 1)] = z[k - 1]
        BY <1>4, <1>5, <1>6, <3>1
      <3> QED BY <3>1, <3>2, <3>3
    <2> QED BY <1>3, <2>1, <2>2
  <1>9. s = d
    BY <1>3, <1>6, <1>7, <1>8
  <1> QED BY <1>3, <1>9 DEF s, d, a, z, h

(* The padded text of RFC 1321 is the text, the padding and the count. *)
LEMMA PaddedIs ==
  ASSUME NEW t \in Seq(Nat)
  PROVE  H!Padded(t) = (t \o Padding(PadLength(Len(t) % BlockSize)))
                         \o Encode(Words(8 * Len(t)))
  <1> DEFINE n == Len(t)
             p == PadLength(n % BlockSize)
             r == << Radix \div 2 >>
             z == [i \in 1 .. p - 1 |-> 0]
             f == [i \in 1 .. FieldBytes |-> ((8 * n) \div Radix ^ (i - 1)) % Radix]
             e == Encode(Words(8 * n))
  <1>1. n \in Nat /\ 8 * n \in Nat
    OBVIOUS
  <1>2. p \in 1 .. BlockSize /\ BlockSize \in Nat
    <2>1. BlockSize \in Nat /\ BlockSize > 0
      BY SizesAre DEF Sizes
    <2>2. n % BlockSize \in Nat /\ n % BlockSize < BlockSize
      BY <1>1, <2>1, Division
    <2>3. n % BlockSize \in 0 .. BlockSize - 1
      BY <2>1, <2>2
    <2> QED BY <2>1, <2>3, PadLengthIs
  <1>3. H!Padded(t) = ((t \o r) \o z) \o f
    <2>1. H!Zeroes(n) = p - 1
      BY <1>1, ZeroesAre
    <2>2. H!Padded(t) = t \o << Radix \div 2 >> \o [i \in 1 .. H!Zeroes(n) |-> 0]
            \o [i \in 1 .. FieldBytes |-> ((8 * n) \div Radix ^ (i - 1)) % Radix]
      BY DEF H!Padded, H!FieldBytes, FieldBytes
    <2> HIDE DEF p
    <2> QED BY <2>1, <2>2
  <1>4. f = e
    <2> DEFINE m == 8 * n
    <2>1. /\ e \in Seq(Nat) /\ Len(e) = FieldBytes
          /\ \A i \in 1 .. FieldBytes : e[i] = ((8 * n) \div Radix ^ (i - 1)) % Radix
      BY <1>1, Encoded
    <2>2. FieldBytes \in Nat
      BY SizesAre DEF Sizes
    <2> HIDE DEF e, n
    <2>3. e = [i \in 1 .. FieldBytes |-> e[i]]
      BY <2>1
    <2> QED BY <2>1, <2>3
  <1>5. r \in Seq(Nat) /\ z \in Seq(Nat)
    <2>1. Radix \div 2 \in Nat
      BY SizesAre DEF Sizes
    <2>2. r \in Seq(Nat)
      BY <2>1
    <2> HIDE DEF p
    <2>3. z \in Seq(Nat)
      BY <1>2
    <2> QED BY <2>2, <2>3
  <1>6. Padding(p) = r \o z
    <2>1. p \in Nat /\ p > 0
      BY <1>2
    <2> HIDE DEF p
    <2> QED BY <2>1, PaddingIs
  <1> HIDE DEF r, z, p
  <1>7. (t \o r) \o z = t \o (r \o z)
    <2>1. \A a, b, c \in Seq(Nat) : (a \o b) \o c = a \o (b \o c)
      BY ConcatAssociative, SMTT(30)
    <2> QED BY <1>5, <2>1
  <1> QED BY <1>3, <1>4, <1>6, <1>7 DEF p

(* finalize() takes the padded text, whole blocks of it. *)
LEMMA FinishedIs ==
  ASSUME NEW c, NEW t, Holds(c, t)
  PROVE  /\ Finished(c) = H!Padded(t)
         /\ Finished(c) \in Seq(Nat)
         /\ Len(Finished(c)) % BlockSize = 0 /\ Finished(c) # << >>
  <1> DEFINE B == BlockSize
             F == FieldBytes
             n == Len(t)
             x == n % B
             p == PadLength(x)
             d == Padding(p)
             e == Encode(Words(8 * n))
             c1 == Updated(c, d)
             c2 == Updated(c1, e)
             u == (t \o d) \o e
             s == c2.state
  <1>1. B \in Nat /\ B > 0 /\ F \in Nat
    BY SizesAre DEF Sizes
  <1>2. t \in Seq(Nat) /\ n \in Nat /\ 8 * n \in Nat
    BY DEF Holds
  <1>3. x \in 0 .. B - 1 /\ n \div B \in Nat /\ n = B * (n \div B) + x
    <2>1. x \in Nat /\ x < B /\ n \div B \in Nat /\ n = B * (n \div B) + x
      BY <1>1, <1>2, Division
    <2> HIDE DEF x, B
    <2> QED BY <1>1, <2>1
  <1>4. /\ p \in 1 .. B
        /\ x + p + F = B \/ x + p + F = 2 * B
    BY <1>3, PadLengthIs
  <1>5. d \in Seq(Nat) /\ Len(d) = p
    <2>1. p \in Nat /\ p > 0
      BY <1>1, <1>4
    <2> HIDE DEF p
    <2> QED BY <2>1, PaddingIs
  <1>6. e \in Seq(Nat) /\ Len(e) = F
    BY <1>2, Encoded
  <1>7. Finished(c) = s
    <2>1. Index(c.count) = x /\ c.count = Words(8 * n)
      BY <1>2, IndexIs DEF Holds
    <2> QED BY <2>1 DEF Finished
  <1>8. Holds(c1, t \o d)
    <2> HIDE DEF d
    <2> QED BY <1>5, UpdatedHolds
  <1>9. Holds(c2, u)
    <2> HIDE DEF c1, d, e
    <2> QED BY <1>6, <1>8, UpdatedHolds
  <1>10. Len(u) = n + p + F
    <2> DEFINE v == t \o d
    <2> HIDE DEF d, e, p, F, n
    <2>1. v \in Seq(Nat) /\ Len(v) = Len(t) + Len(d)
      BY <1>2, <1>5, JoinedElements
    <2> HIDE DEF v
    <2>2. Len(v \o e) = Len(v) + Len(e)
      BY <1>6, <2>1, JoinedElements
    <2> QED BY <1>2, <1>5, <1>6, <2>1, <2>2 DEF v, n
  <1>11. /\ u \in Seq(Nat) /\ s \in Seq(Nat)
         /\ Len(s) = B * (Len(u) \div B)
         /\ \A k \in 1 .. Len(s) : s[k] = u[k]
    <2> HIDE DEF u, c2
    <2> QED BY <1>9 DEF Holds
  <1>12. u = H!Padded(t)
    BY <1>2, PaddedIs
  <1> HIDE DEF B, F, x, p, d, e, c1, c2, u, s
  <1>13. PICK k \in Nat : Len(u) = B * k /\ k > 0
    <2> DEFINE q == n \div B
               b == B * q
    <2>1. b \in Nat /\ n = b + x
      <3>1. q \in Nat /\ n = B * q + x
        BY <1>3
      <3> HIDE DEF q
      <3>2. B * q \in Nat
        BY <1>1, <3>1
      <3> QED BY <3>1, <3>2
    <2>2. q \in Nat /\ B * (q + 1) = b + B /\ B * (q + 2) = b + 2 * B
      BY <1>1, <1>3
    <2> HIDE DEF b, q, n
    <2>3. Len(u) = B * (q + 1) \/ Len(u) = B * (q + 2)
      BY <1>1, <1>3, <1>4, <1>10, <2>1, <2>2
    <2>4. q + 1 \in Nat /\ q + 2 \in Nat /\ q + 1 > 0 /\ q + 2 > 0
      BY <2>2
    <2> QED BY <2>3, <2>4
  <1>14. Len(u) % B = 0 /\ Len(u) \div B = k
    <2>1. (B * k + 0) % B = 0 /\ (B * k + 0) \div B = k
      <3>1. 0 \in Nat
        OBVIOUS
      <3> QED BY <1>1, <1>13, <3>1, DividesAs
    <2>2. B * k + 0 = B * k
      BY <1>1, <1>13
    <2> QED BY <1>13, <2>1, <2>2
  <1>15. Len(s) = Len(u)
    BY <1>11, <1>13, <1>14
  <1>16. s = u
    <2> DEFINE m == Len(s)
    <2>1. /\ s \in Seq(Nat) /\ u \in Seq(Nat) /\ Len(s) = m /\ Len(u) = m
          /\ \A j \in 1 .. m : s[j] = u[j]
      BY <1>11, <1>15
    <2> HIDE DEF m
    <2> QED BY <2>1
  <1>17. Len(s) > 0
    <2>1. B * k > 0
      BY <1>1, <1>13
    <2> QED BY <1>13, <1>15, <2>1
  <1>18. s # << >>
    BY <1>11, <1>17
  <1> QED BY <1>7, <1>11, <1>12, <1>14, <1>15, <1>16, <1>18 DEF B

-----------------------------------------------------------------------------
(* The invariant: the object holds a text, after the blocks that the digest  *)
(* was made of, which finalize() leaves in the state.                        *)
Object(s, b, n) == [state |-> s, buffer |-> b, count |-> n]

Keeps(st, bu, co, base, s, t) ==
  /\ base \in Seq(Nat) /\ Len(base) % BlockSize = 0
  /\ s \in Seq(Nat) /\ st = base \o s
  /\ Holds(Object(s, bu, co), t)
  /\ Len(t) <= MaxBytes

Carries(st, bu, co, fi) ==
  \E base, s, t \in Seq(Nat) :
    Keeps(st, bu, co, base, s, t) /\ (~fi => base = << >>)

HashInv ==
  /\ finalized \in BOOLEAN
  /\ digest \in Seq(Nat) /\ Len(digest) % BlockSize = 0
  /\ finalized <=> digest # << >>
  /\ Carries(state, buffer, count, finalized)

LEMMA JoinedTwice ==
  ASSUME NEW a \in Seq(Nat), NEW b \in Seq(Nat), NEW c \in Seq(Nat)
  PROVE  (a \o b) \o c = a \o (b \o c)
  <1>1. \A x, y, z \in Seq(Nat) : (x \o y) \o z = x \o (y \o z)
    BY ConcatAssociative, SMTT(30)
  <1> QED BY <1>1

(* update() adds to the state, whatever the state begins with. *)
LEMMA UpdatedBase ==
  ASSUME NEW base \in Seq(Nat), NEW s \in Seq(Nat), NEW t, NEW bu, NEW co,
         Holds(Object(s, bu, co), t), NEW input \in Seq(Nat)
  PROVE  \E s2, b2, n2 :
           /\ Updated(Object(base \o s, bu, co), input) = Object(base \o s2, b2, n2)
           /\ Updated(Object(s, bu, co), input) = Object(s2, b2, n2)
  <1> DEFINE n == Len(input)
             index == Index(co)
             first == BlockSize - index
             full == Overlaid(bu, index, SubSeq(input, 1, first))
             i == Blocks(n, first)
             taken == full \o SubSeq(input, first + 1, i)
  <1>1. CASE ~(n >= first)
    <2>1. /\ Updated(Object(base \o s, bu, co), input) = Object(base \o s, Overlaid(bu, index, input), Counted(co, n))
          /\ Updated(Object(s, bu, co), input) = Object(s, Overlaid(bu, index, input), Counted(co, n))
      BY <1>1 DEF Updated, Object
    <2> QED BY <2>1
  <1>2. CASE n >= first
    <2> DEFINE b2 == Overlaid(full, 0, SubSeq(input, i + 1, n))
    <2>1. /\ Updated(Object(base \o s, bu, co), input) = Object((base \o s) \o taken, b2, Counted(co, n))
          /\ Updated(Object(s, bu, co), input) = Object(s \o taken, b2, Counted(co, n))
      BY <1>2 DEF Updated, Object, Transformed
    <2>2. taken \in Seq(Nat)
      <3>1. bu \in [1 .. BlockSize -> Nat] /\ BlockSize \in Nat /\ BlockSize > 0
        BY SizesAre DEF Sizes, Holds, Object
      <3>2. index \in Nat /\ index < BlockSize
        <4>1. co = Words(8 * Len(t)) /\ Len(t) \in Nat
          BY DEF Holds, Object
        <4>2. index = Len(t) % BlockSize
          BY <4>1, IndexIs
        <4> DEFINE L == Len(t)
        <4> HIDE DEF L, index
        <4>3. L % BlockSize \in Nat /\ L % BlockSize < BlockSize
          BY <3>1, <4>1, Division DEF L
        <4> QED BY <4>2, <4>3 DEF L
      <3> HIDE DEF index
      <3>3. first \in Nat /\ n \in Nat /\ first <= n /\ first > 0
        BY <1>2, <3>1, <3>2
      <3>4. \A k, m \in Nat : 1 <= k /\ k <= m + 1 /\ m <= n =>
              /\ SubSeq(input, k, m) \in Seq(Nat)
              /\ Len(SubSeq(input, k, m)) = m - k + 1
        BY SliceElements
      <3>5. SubSeq(input, 1, first) \in Seq(Nat) /\ Len(SubSeq(input, 1, first)) = first
        <4>1. 1 \in Nat /\ 1 <= first + 1 /\ 1 <= 1 /\ first - 1 + 1 = first
          BY <3>3
        <4>2. /\ SubSeq(input, 1, first) \in Seq(Nat)
              /\ Len(SubSeq(input, 1, first)) = first - 1 + 1
          BY <3>3, <3>4, <4>1, Zenon
        <4> QED BY <4>1, <4>2
      <3>6. full \in [1 .. BlockSize -> Nat]
        <4> DEFINE head == SubSeq(input, 1, first)
        <4>1. head \in Seq(Nat) /\ index + Len(head) <= BlockSize
          BY <3>1, <3>2, <3>5
        <4> HIDE DEF head
        <4>2. Overlaid(bu, index, head) \in [1 .. BlockSize -> Nat]
          BY <3>1, <3>2, <4>1, OverlaidElements
        <4> QED BY <4>2 DEF head
      <3>7. full \in Seq(Nat)
        <4> HIDE DEF full
        <4>1. BlockSize \in Nat
          BY <3>1
        <4> QED BY <3>6, <4>1
      <3>8. SubSeq(input, first + 1, i) \in Seq(Nat)
        <4> DEFINE e == n - first
                   D == BlockSize * (e \div BlockSize)
        <4>1. e \in Nat /\ n = first + e
          BY <3>3
        <4>2. D \in Nat /\ D <= e
          <5> HIDE DEF e
          <5> DEFINE g == e \div BlockSize
                     v == e % BlockSize
          <5>1. g \in Nat /\ v \in Nat /\ e = BlockSize * g + v
            BY <3>1, <4>1, Division
          <5> HIDE DEF g, v
          <5>2. BlockSize * g \in Nat
            BY <3>1, <5>1
          <5> QED BY <5>1, <5>2 DEF g
        <4>3. i = first + D
          BY DEF Blocks
        <4> HIDE DEF D, e, i, first, n
        <4>4. /\ first + 1 \in Nat /\ i \in Nat /\ 1 <= first + 1
              /\ first + 1 <= i + 1 /\ i <= n
          BY <3>3, <4>1, <4>2, <4>3
        <4> QED BY <3>4, <4>4
      <3> HIDE DEF full
      <3> QED BY <3>7, <3>8
    <2> HIDE DEF taken
    <2>3. (base \o s) \o taken = base \o (s \o taken)
      BY <2>2, JoinedTwice
    <2> HIDE DEF b2
    <2> QED BY <2>1, <2>3
  <1> QED BY <1>1, <1>2

(* update(): the object keeps what it kept, and the piece. *)
LEMMA UpdatedKeeps ==
  ASSUME NEW st, NEW bu, NEW co, NEW base, NEW s, NEW t,
         Keeps(st, bu, co, base, s, t), NEW input \in Seq(Nat),
         Len(t) + Len(input) <= MaxBytes,
         NEW st2, NEW bu2, NEW co2,
         st2 = Updated(Object(st, bu, co), input).state,
         bu2 = Updated(Object(st, bu, co), input).buffer,
         co2 = Updated(Object(st, bu, co), input).count
  PROVE  \E s2 \in Seq(Nat) : Keeps(st2, bu2, co2, base, s2, t \o input)
  <1>1. /\ base \in Seq(Nat) /\ Len(base) % BlockSize = 0
        /\ s \in Seq(Nat) /\ st = base \o s
        /\ Holds(Object(s, bu, co), t) /\ t \in Seq(Nat)
    BY DEF Keeps, Holds
  <1>2. PICK s2, b2, n2 :
          /\ Updated(Object(base \o s, bu, co), input) = Object(base \o s2, b2, n2)
          /\ Updated(Object(s, bu, co), input) = Object(s2, b2, n2)
    BY <1>1, UpdatedBase
  <1>3. Holds(Object(s2, b2, n2), t \o input)
    BY <1>1, <1>2, UpdatedHolds
  <1>4. st2 = base \o s2 /\ bu2 = b2 /\ co2 = n2
    <2>1. Updated(Object(st, bu, co), input) = Object(base \o s2, b2, n2)
      BY <1>1, <1>2
    <2> DEFINE v == base \o s2
    <2> HIDE DEF v
    <2>2. /\ Object(v, b2, n2).state = v /\ Object(v, b2, n2).buffer = b2
          /\ Object(v, b2, n2).count = n2
      BY DEF Object
    <2>3. Updated(Object(st, bu, co), input) = Object(v, b2, n2)
      BY <2>1 DEF v
    <2>4. st2 = v /\ bu2 = b2 /\ co2 = n2
      BY <2>2, <2>3
    <2> QED BY <2>4 DEF v
  <1>5. s2 \in Seq(Nat)
    BY <1>3 DEF Holds, Object
  <1>6. Len(t \o input) <= MaxBytes
    BY <1>1
  <1> QED BY <1>1, <1>3, <1>4, <1>5, <1>6 DEF Keeps

(* The text, put together again. *)
LEMMA TextIs ==
  ASSUME NEW s, NEW bu, NEW co, NEW t, Holds(Object(s, bu, co), t)
  PROVE  s \o SubSeq(bu, 1, Index(co)) = t
  <1> DEFINE B == BlockSize
             n == Len(t)
             x == n % B
             q == n \div B
             Q == B * q
             r == SubSeq(bu, 1, Index(co))
             u == s \o r
  <1>1. B \in Nat /\ B > 0
    BY SizesAre DEF Sizes
  <1>2. /\ t \in Seq(Nat) /\ n \in Nat /\ co = Words(8 * n)
        /\ bu \in [1 .. B -> Nat] /\ s \in Seq(Nat) /\ Len(s) = Q
        /\ \A k \in 1 .. Len(s) : s[k] = t[k]
        /\ \A k \in 1 .. x : bu[k] = t[Len(s) + k]
    BY DEF Holds, Object
  <1>3. x \in Nat /\ x < B /\ n = Q + x /\ Q \in Nat
    <2>1. x \in Nat /\ x < B /\ q \in Nat /\ n = B * q + x
      BY <1>1, <1>2, Division
    <2>2. Q \in Nat
      <3> HIDE DEF q, B
      <3> QED BY <1>1, <2>1
    <2> QED BY <2>1, <2>2
  <1>4. Index(co) = x
    BY <1>2, IndexIs
  <1>5. /\ r \in Seq(Nat) /\ Len(r) = x
        /\ \A k \in 1 .. x : r[k] = bu[k]
    <2> HIDE DEF x, B
    <2>1. bu \in Seq(Nat) /\ Len(bu) = B
      <3>1. bu \in [1 .. B -> Nat]
        BY <1>2
      <3> QED BY <1>1, <3>1
    <2>2. /\ 1 \in Nat /\ 1 <= 1 /\ 1 <= x + 1 /\ x <= Len(bu) /\ x - 1 + 1 = x
          /\ \A k \in 1 .. x : 1 + k - 1 = k
      BY <1>1, <1>3, <2>1
    <2>3. /\ SubSeq(bu, 1, x) \in Seq(Nat) /\ Len(SubSeq(bu, 1, x)) = x - 1 + 1
          /\ \A k \in 1 .. x - 1 + 1 : SubSeq(bu, 1, x)[k] = bu[1 + k - 1]
      <3>1. \A k, m \in Nat : 1 <= k /\ k <= m + 1 /\ m <= Len(bu) =>
              /\ SubSeq(bu, k, m) \in Seq(Nat)
              /\ Len(SubSeq(bu, k, m)) = m - k + 1
              /\ \A j \in 1 .. m - k + 1 : SubSeq(bu, k, m)[j] = bu[k + j - 1]
        BY <2>1, SliceElements, SMTT(30)
      <3> QED BY <1>3, <2>2, <3>1, Zenon
    <2> QED BY <1>4, <2>2, <2>3
  <1> HIDE DEF B, n, x, q, Q, r
  <1>6. /\ u \in Seq(Nat) /\ Len(u) = Len(s) + Len(r)
        /\ \A k \in 1 .. Len(s) : u[k] = s[k]
        /\ \A k \in 1 .. Len(r) : u[Len(s) + k] = r[k]
    <2>1. s \in Seq(Nat) /\ r \in Seq(Nat)
      BY <1>2, <1>5
    <2> QED BY <2>1, JoinedElements
  <1> HIDE DEF u
  <1>7. Len(u) = Len(t)
    BY <1>2, <1>3, <1>5, <1>6 DEF n
  <1>8. ASSUME NEW k \in 1 .. Len(t)
        PROVE  u[k] = t[k]
    <2>1. CASE k <= Q
      <3>1. k \in 1 .. Len(s)
        BY <1>2, <1>3, <2>1
      <3> QED BY <1>2, <1>6, <3>1
    <2>2. CASE k > Q
      <3> DEFINE j == k - Q
      <3>1. j \in 1 .. x /\ Q + j = k
        BY <1>2, <1>3, <2>2 DEF n
      <3> HIDE DEF j
      <3>2. j \in 1 .. Len(r) /\ Len(s) + j = k
        BY <1>2, <1>5, <3>1
      <3>3. u[k] = r[j]
        BY <1>6, <3>2
      <3>4. r[j] = bu[j] /\ bu[j] = t[Len(s) + j]
        BY <1>2, <1>5, <3>1
      <3> QED BY <3>2, <3>3, <3>4
    <2> QED BY <1>3, <2>1, <2>2
  <1>9. u = t
    <2>1. t \in Seq(Nat) /\ u \in Seq(Nat)
      BY <1>2, <1>6
    <2> QED BY <1>7, <1>8, <2>1
  <1> QED BY <1>9 DEF u, r

(* The two words are wide enough for the longest text. *)
LEMMA GivenIs ==
  ASSUME NEW L \in Nat, L <= MaxBytes, count = Words(8 * L)
  PROVE  Given = L
  <1> DEFINE W == Word
             b == 8 * L
             h == b \div W
             c == b % W
  <1>1. W \in Nat /\ W > 0
    BY SizesAre DEF Sizes
  <1>2. MaxBytes \in Nat /\ 8 * MaxBytes < W * W
    BY LengthsAssumption
  <1> HIDE DEF W
  <1>3. b \in Nat /\ b < W * W
    BY <1>1, <1>2
  <1> HIDE DEF b
  <1>4. h \in Nat /\ c \in Nat /\ c < W /\ b = W * h + c
    BY <1>1, <1>3, Division
  <1> HIDE DEF h, c
  <1>5. h < W
    <2> SUFFICES ASSUME h >= W
                 PROVE  FALSE
      BY <1>1, <1>4
    <2>1. W * h >= W * W
      BY <1>1, <1>4
    <2>2. W * h \in Nat /\ W * W \in Nat
      BY <1>1, <1>4
    <2> QED BY <1>3, <1>4, <2>1, <2>2
  <1>6. h % W = h
    <2>1. (W * 0 + h) % W = h
      <3>1. 0 \in Nat
        OBVIOUS
      <3> QED BY <1>1, <1>4, <1>5, <3>1, DividesAs
    <2>2. W * 0 + h = h
      BY <1>1, <1>4
    <2> QED BY <2>1, <2>2
  <1>7. count[1] = c /\ count[2] = h
    BY <1>6 DEF Words, h, c, b, W
  <1>8. c + W * h = 8 * L
    BY <1>1, <1>4 DEF b
  <1>9. Given = (c + W * h) \div 8
    BY <1>7 DEF Given, W
  <1> QED BY <1>8, <1>9

-----------------------------------------------------------------------------
(* The steps.  What each does, in terms of the text that the object holds.   *)

(* A fresh buffer, with no bits counted, holds the empty text. *)
LEMMA EmptyHolds ==
  Holds(Object(<< >>, Zeroed, << 0, 0 >>), << >>)
  <1>1. BlockSize \in Nat /\ BlockSize > 0 /\ Word \in Nat /\ Word > 0
    BY SizesAre DEF Sizes
  <1>2. \A b \in Nat : b > 0 => 0 % b = 0 /\ 0 \div b = 0
    OBVIOUS
  <1>3. Len(<< >>) = 0 /\ << >> \in Seq(Nat) /\ 8 * 0 = 0
    OBVIOUS
  <1>4. Words(0) = << 0, 0 >>
    BY <1>1, <1>2 DEF Words
  <1>5. Zeroed \in [1 .. BlockSize -> Nat]
    BY DEF Zeroed
  <1>6. BlockSize * 0 = 0
    BY <1>1
  <1> DEFINE c == Object(<< >>, Zeroed, << 0, 0 >>)
  <1>7. c.state = << >> /\ c.buffer = Zeroed /\ c.count = << 0, 0 >>
    BY DEF Object
  <1> HIDE DEF c
  <1>8. Holds(c, << >>)
    <2>1. Len(<< >>) \div BlockSize = 0 /\ Len(<< >>) % BlockSize = 0
      BY <1>1, <1>2, <1>3
    <2>2. 1 .. 0 = {}
      OBVIOUS
    <2> QED BY <1>3, <1>4, <1>5, <1>6, <1>7, <2>1, <2>2 DEF Holds
  <1> QED BY <1>8 DEF c

LEMMA EmptyKeeps ==
  ASSUME NEW base \in Seq(Nat), Len(base) % BlockSize = 0
  PROVE  Keeps(base, Zeroed, << 0, 0 >>, base, << >>, << >>)
  <1>1. base \o << >> = base /\ << >> \in Seq(Nat) /\ Len(<< >>) = 0
    OBVIOUS
  <1>2. 0 <= MaxBytes
    BY LengthsAssumption
  <1> QED BY <1>1, <1>2, EmptyHolds DEF Keeps

(* update(): the text grows by the piece. *)
LEMMA UpdateIs ==
  ASSUME NEW base \in Seq(Nat), NEW s \in Seq(Nat), NEW t \in Seq(Nat),
         Keeps(state, buffer, count, base, s, t),
         NEW n \in Lengths, Update(n)
  PROVE  /\ H!Piece(Len(t), n) \in Seq(Nat)
         /\ Len(t) + n <= MaxBytes
         /\ \E s2 \in Seq(Nat) :
              Keeps(state', buffer', count', base, s2, t \o H!Piece(Len(t), n))
  <1> DEFINE L == Len(t)
             input == H!Piece(L, n)
  <1>1. n \in Nat /\ Word \in Nat
    BY SizesAre, LengthsAssumption DEF Sizes
  <1>2. L \in Nat /\ L <= MaxBytes /\ count = Words(8 * L)
    BY DEF Keeps, Holds, Object
  <1>3. Given = L
    BY <1>2, GivenIs
  <1>4. input = [i \in 1 .. n |-> Word + L + i]
    BY DEF H!Piece, H!Word, Word
  <1>5. /\ state' = Updated(Object(state, buffer, count), input).state
        /\ buffer' = Updated(Object(state, buffer, count), input).buffer
        /\ count' = Updated(Object(state, buffer, count), input).count
    BY <1>3, <1>4 DEF Update, Context, Object
  <1>6. L + n <= MaxBytes
    BY <1>3 DEF Update
  <1>7. input \in Seq(Nat) /\ Len(input) = n
    <2> HIDE DEF input, L
    <2>1. input \in [1 .. n -> Nat]
      BY <1>1, <1>2, <1>4
    <2> QED BY <1>1, <2>1
  <1> HIDE DEF input
  <1>8. Len(t) + Len(input) <= MaxBytes
    BY <1>6, <1>7
  <1>9. \E s2 \in Seq(Nat) : Keeps(state', buffer', count', base, s2, t \o input)
    BY <1>5, <1>7, <1>8, UpdatedKeeps
  <1> QED BY <1>6, <1>7, <1>9 DEF input

(* finalize(): the digest is that of the text, which is given up. *)
LEMMA FinalizeIs ==
  ASSUME NEW s \in Seq(Nat), NEW t \in Seq(Nat),
         Keeps(state, buffer, count, << >>, s, t), Finalize
  PROVE  /\ digest' = H!Padded(t) /\ digest' \in Seq(Nat)
         /\ Len(digest') % BlockSize = 0 /\ digest' # << >>
         /\ Keeps(state', buffer', count', digest', << >>, << >>)
         /\ finalized' = TRUE
  <1>1. state = s
    BY DEF Keeps
  <1>2. Holds(Context, t)
    BY <1>1 DEF Keeps, Context, Object
  <1> DEFINE f == Finished(Context)
  <1>3. f = H!Padded(t) /\ f \in Seq(Nat) /\ Len(f) % BlockSize = 0 /\ f # << >>
    BY <1>2, FinishedIs
  <1>4. /\ digest' = f /\ state' = f /\ buffer' = Zeroed /\ count' = << 0, 0 >>
        /\ finalized' = TRUE
    BY DEF Finalize
  <1> HIDE DEF f
  <1>5. Keeps(f, Zeroed, << 0, 0 >>, f, << >>, << >>)
    BY <1>3, EmptyKeeps
  <1> QED BY <1>3, <1>4, <1>5

LEMMA Carried == Spec => []HashInv
  <1>1. Init => HashInv
    <2> SUFFICES ASSUME Init
                 PROVE  HashInv
      OBVIOUS
    <2>1. << >> \in Seq(Nat) /\ Len(<< >>) = 0
      OBVIOUS
    <2>2. Len(<< >>) % BlockSize = 0
      <3>1. BlockSize \in Nat /\ BlockSize > 0
        BY SizesAre DEF Sizes
      <3>2. \A b \in Nat : b > 0 => 0 % b = 0
        OBVIOUS
      <3> QED BY <2>1, <3>1, <3>2
    <2>3. Keeps(<< >>, Zeroed, << 0, 0 >>, << >>, << >>, << >>)
      BY <2>1, <2>2, EmptyKeeps
    <2> QED BY <2>1, <2>2, <2>3 DEF Init, HashInv, Carries
  <1>2. HashInv /\ [Next]_vars => HashInv'
    <2> SUFFICES ASSUME HashInv, [Next]_vars
                 PROVE  HashInv'
      OBVIOUS
    <2>1. PICK base \in Seq(Nat), s \in Seq(Nat), t \in Seq(Nat) :
            /\ Keeps(state, buffer, count, base, s, t)
            /\ ~finalized => base = << >>
      BY DEF HashInv, Carries
    <2>2. CASE Finalize
      <3>1. base = << >>
        BY <2>1, <2>2 DEF Finalize
      <3>2. /\ digest' \in Seq(Nat) /\ Len(digest') % BlockSize = 0
            /\ digest' # << >> /\ finalized' = TRUE
            /\ Keeps(state', buffer', count', digest', << >>, << >>)
        BY <2>1, <2>2, <3>1, FinalizeIs
      <3>3. << >> \in Seq(Nat)
        OBVIOUS
      <3> QED BY <3>2, <3>3 DEF HashInv, Carries
    <2>3. ASSUME NEW n \in Lengths, Update(n)
          PROVE  HashInv'
      <3> DEFINE u == t \o H!Piece(Len(t), n)
      <3>1. /\ H!Piece(Len(t), n) \in Seq(Nat)
            /\ \E s2 \in Seq(Nat) : Keeps(state', buffer', count', base, s2, u)
        BY <2>1, <2>3, UpdateIs
      <3>2. u \in Seq(Nat)
        BY <3>1
      <3>3. finalized' = finalized /\ digest' = digest
        BY <2>3 DEF Update
      <3> HIDE DEF u
      <3> QED BY <2>1, <3>1, <3>2, <3>3 DEF HashInv, Carries
    <2>4. CASE UNCHANGED vars
      BY <2>4 DEF vars, HashInv, Carries
    <2> QED BY <2>2, <2>3, <2>4 DEF Next
  <1> QED BY <1>1, <1>2, PTL DEF Spec

(* The buffer of one block never fills, the counter's words wrap at their    *)
(* width without losing the text's length, and the state is whole blocks.    *)
THEOREM DigestTypes == Spec => []TypeOK
  <1>1. HashInv => TypeOK
    <2> SUFFICES ASSUME HashInv
                 PROVE  TypeOK
      OBVIOUS
    <2>1. PICK base \in Seq(Nat), s \in Seq(Nat), t \in Seq(Nat) :
            Keeps(state, buffer, count, base, s, t)
      BY DEF HashInv, Carries
    <2> DEFINE B == BlockSize
               L == Len(t)
               q == L \div B
    <2>2. /\ base \in Seq(Nat) /\ Len(base) % B = 0 /\ state = base \o s
          /\ L \in Nat /\ L <= MaxBytes /\ count = Words(8 * L)
          /\ buffer \in [1 .. B -> Nat] /\ Len(s) = B * q
      BY <2>1 DEF Keeps, Holds, Object
    <2>3. B \in Nat /\ B > 0
      BY SizesAre DEF Sizes
    <2>4. q \in Nat
      BY <2>2, <2>3, Division
    <2>5. state \in Seq(Nat) /\ Len(state) = Len(base) + B * q
      BY <2>2, JoinedElements
    <2>6. Len(state) % B = 0
      <3> DEFINE a == Len(base)
      <3>1. a \in Nat /\ a % B = 0
        BY <2>2
      <3> HIDE DEF a, B, q
      <3>2. (a + B * q) % B = a % B
        BY <2>3, <2>4, <3>1, ModPlus
      <3> QED BY <2>5, <3>1, <3>2 DEF a
    <2>7. Given = L
      BY <2>2, GivenIs
    <2>8. count \in (0 .. Word - 1) \X (0 .. Word - 1)
      BY <2>2, WordsType
    <2>9. Given < MaxBytes + 1
      BY <2>2, <2>7, LengthsAssumption
    <2> QED BY <2>2, <2>5, <2>6, <2>8, <2>9 DEF HashInv, TypeOK
  <1> QED BY <1>1, Carried, PTL

(* The object is the hash function of RFC 1321, for every way to cut a text  *)
(* of every length into pieces, whatever the sizes of block, word and byte.  *)
THEOREM HashImplemented == Spec => IsHash
  <1> DEFINE text == IF finalized THEN << >> ELSE state \o SubSeq(buffer, 1, Index(count))
  <1>1. Init => H!Init
    <2> SUFFICES ASSUME Init
                 PROVE  H!Init
      OBVIOUS
    <2>1. state \o SubSeq(buffer, 1, Index(count)) = << >>
      BY EmptyHolds, TextIs DEF Init
    <2> QED BY <2>1 DEF Init, H!Init, Hexdigest, H!NoDigest
  <1>2. HashInv /\ HashInv' /\ [Next]_vars => [H!Next]_<<text, Hexdigest>>
    <2> SUFFICES ASSUME HashInv, HashInv', [Next]_vars
                 PROVE  [H!Next]_<<text, Hexdigest>>
      OBVIOUS
    <2>1. PICK base \in Seq(Nat), s \in Seq(Nat), t \in Seq(Nat) :
            /\ Keeps(state, buffer, count, base, s, t)
            /\ ~finalized => base = << >>
      BY DEF HashInv, Carries
    <2>2. ASSUME NEW st, NEW bu, NEW co, NEW s2, NEW t2,
                 Keeps(st, bu, co, << >>, s2, t2)
          PROVE  st \o SubSeq(bu, 1, Index(co)) = t2
      <3>1. st = s2 /\ Holds(Object(s2, bu, co), t2)
        BY <2>2 DEF Keeps
      <3>2. s2 \o SubSeq(bu, 1, Index(co)) = t2
        BY <3>1, TextIs
      <3> QED BY <3>1, <3>2
    <2>3. CASE Finalize
      <3>1. base = << >> /\ ~finalized
        BY <2>1, <2>3 DEF Finalize
      <3>2. text = t
        BY <2>1, <2>2, <3>1
      <3>3. digest' = H!Padded(t) /\ finalized' = TRUE
        BY <2>1, <2>3, <3>1, FinalizeIs
      <3>4. text' = << >>
        BY <3>3
      <3>5. Hexdigest = << >> /\ Hexdigest' = H!Padded(t)
        BY <3>1, <3>3 DEF Hexdigest
      <3> QED BY <3>2, <3>4, <3>5 DEF H!Next, H!Finish, H!NoDigest
    <2>4. ASSUME NEW n \in Lengths, Update(n), ~finalized
          PROVE  [H!Next]_<<text, Hexdigest>>
      <3>1. base = << >>
        BY <2>1, <2>4
      <3>2. text = t
        BY <2>1, <2>2, <2>4, <3>1
      <3>3. finalized' = finalized /\ digest' = digest
        BY <2>4 DEF Update
      <3>4. /\ Len(t) + n <= MaxBytes
            /\ \E s2 \in Seq(Nat) :
                 Keeps(state', buffer', count', << >>, s2, t \o H!Piece(Len(t), n))
        BY <2>1, <2>4, <3>1, UpdateIs
      <3>5. text' = t \o H!Piece(Len(t), n)
        <4>1. (state \o SubSeq(buffer, 1, Index(count)))' = t \o H!Piece(Len(t), n)
          BY <2>2, <3>4
        <4> QED BY <2>4, <3>3, <4>1
      <3>6. Hexdigest = << >> /\ Hexdigest' = << >>
        BY <2>4, <3>3 DEF Hexdigest
      <3> QED BY <3>2, <3>4, <3>5, <3>6 DEF H!Next, H!Give, H!NoDigest
    <2>5. ASSUME NEW n \in Lengths, Update(n), finalized
          PROVE  [H!Next]_<<text, Hexdigest>>
      <3>1. finalized' = finalized /\ digest' = digest
        BY <2>5 DEF Update
      <3> QED BY <2>5, <3>1 DEF Hexdigest
    <2>6. CASE UNCHANGED vars
      BY <2>6 DEF vars, Hexdigest, Index
    <2> QED BY <2>3, <2>4, <2>5, <2>6 DEF Next
  <1> QED BY <1>1, <1>2, Carried, PTL DEF Spec, IsHash, H!Spec
=============================================================================
