---------------------------- MODULE FileConn_proofs ----------------------------
(***************************************************************************)
(* Proofs about FileConn, for any numbers of connections, any buffer and   *)
(* any sizes of files and records: uploads and downloads together are the  *)
(* store of files of FileStore.                                            *)
(***************************************************************************)
EXTENDS FileConn, SequenceTheorems, WellFoundedInduction, TLAPS

(* The first elements of a concatenation are those of its first part. *)
LEMMA JoinedElements ==
  ASSUME NEW S, NEW a \in Seq(S), NEW b \in Seq(S)
  PROVE  /\ a \o b \in Seq(S)
         /\ Len(a \o b) = Len(a) + Len(b)
         /\ \A k \in 1 .. Len(a) : (a \o b)[k] = a[k]
         /\ \A k \in 1 .. Len(b) : (a \o b)[Len(a) + k] = b[k]
  OBVIOUS

(* The elements and the length of a slice. *)
LEMMA SliceElements ==
  ASSUME NEW S, NEW s \in Seq(S), NEW m \in Nat, NEW n \in Nat,
         1 <= m, m <= n + 1, n <= Len(s)
  PROVE  /\ SubSeq(s, m, n) \in Seq(S)
         /\ Len(SubSeq(s, m, n)) = n - m + 1
         /\ \A k \in 1 .. n - m + 1 : SubSeq(s, m, n)[k] = s[m + k - 1]
  OBVIOUS

(* The smallest of some numbers. *)
LEMMA Smallest ==
  ASSUME NEW D, D \subseteq Nat, D # {}
  PROVE  \E x \in D : \A y \in D : x <= y
  <1> DEFINE R == {p \in Nat \X Nat : p[1] < p[2]}
  <1>1. IsWellFoundedOn(R, Nat)
    BY NatLessThanWellFounded DEF OpToRel
  <1>2. \A x, y \in Nat : ~(<<y, x>> \in R) => x <= y
    OBVIOUS
  <1> HIDE DEF R
  <1>3. \E x \in D : \A y \in D : ~(<<y, x>> \in R)
    BY <1>1, WFMin
  <1> QED BY <1>2, <1>3

-----------------------------------------------------------------------------
(* The bytes of a file. *)

(* The bytes from m to n are a sequence. *)
LEMMA BytesElements ==
  ASSUME NEW m \in Nat, NEW n \in Nat, m <= n + 1
  PROVE  /\ Bytes(m, n) \in Seq(Nat)
         /\ Len(Bytes(m, n)) = n - m + 1
         /\ \A i \in 1 .. n - m + 1 : Bytes(m, n)[i] = m + i - 1
  BY DEF Bytes

(* There is one sequence of the bytes from m to n. *)
LEMMA BytesUnique ==
  ASSUME NEW m \in Nat, NEW n \in Nat, m <= n + 1, NEW s \in Seq(Nat),
         Len(s) = n - m + 1, \A i \in 1 .. n - m + 1 : s[i] = m + i - 1
  PROVE  s = Bytes(m, n)
  <1>1. /\ Bytes(m, n) \in Seq(Nat) /\ Len(Bytes(m, n)) = Len(s)
        /\ \A i \in 1 .. Len(s) : s[i] = Bytes(m, n)[i]
    BY BytesElements
  <1> QED BY <1>1, SeqEqual

(* Two pieces of a file, the second after the first, are one. *)
LEMMA BytesJoin ==
  ASSUME NEW m \in Nat, NEW n \in Nat, NEW k \in Nat, m <= n + 1, n <= k
  PROVE  Bytes(m, n) \o Bytes(n + 1, k) = Bytes(m, k)
  <1> DEFINE a == Bytes(m, n)
             b == Bytes(n + 1, k)
  <1>1. /\ a \in Seq(Nat) /\ Len(a) = n - m + 1
        /\ \A i \in 1 .. n - m + 1 : a[i] = m + i - 1
    BY BytesElements
  <1>2. /\ b \in Seq(Nat) /\ Len(b) = k - n
        /\ \A i \in 1 .. k - n : b[i] = n + i
    <2>1. /\ n + 1 \in Nat /\ n + 1 <= k + 1 /\ k - (n + 1) + 1 = k - n
          /\ \A i \in 1 .. k - n : (n + 1) + i - 1 = n + i
      OBVIOUS
    <2>2. /\ b \in Seq(Nat) /\ Len(b) = k - (n + 1) + 1
          /\ \A i \in 1 .. k - (n + 1) + 1 : b[i] = (n + 1) + i - 1
      BY <2>1, BytesElements
    <2> HIDE DEF b
    <2> QED BY <2>1, <2>2
  <1> HIDE DEF a, b
  <1> DEFINE c == a \o b
  <1>3. /\ c \in Seq(Nat) /\ Len(c) = Len(a) + Len(b)
        /\ \A i \in 1 .. Len(a) : c[i] = a[i]
        /\ \A i \in 1 .. Len(b) : c[Len(a) + i] = b[i]
    <2>1. a \in Seq(Nat) /\ b \in Seq(Nat)
      BY <1>1, <1>2
    <2> QED BY <2>1
  <1> HIDE DEF c
  <1>4. Len(c) = k - m + 1
    BY <1>1, <1>2, <1>3
  <1>5. ASSUME NEW i \in 1 .. k - m + 1
        PROVE  c[i] = m + i - 1
    <2>1. CASE i <= Len(a)
      BY <1>1, <1>3, <2>1
    <2>2. CASE i > Len(a)
      <3> DEFINE j == i - Len(a)
      <3>1. j \in 1 .. k - n /\ j \in 1 .. Len(b) /\ Len(a) + j = i
            /\ n + j = m + i - 1
        BY <1>1, <1>2, <2>2
      <3>2. c[Len(a) + j] = b[j] /\ b[j] = n + j
        BY <1>2, <1>3, <3>1
      <3> HIDE DEF j
      <3> QED BY <3>1, <3>2
    <2> QED BY <1>1, <2>1, <2>2
  <1>6. c = Bytes(m, k)
    BY <1>3, <1>4, <1>5, BytesUnique
  <1> QED BY <1>6 DEF a, b, c

(* A piece of a file. *)
LEMMA BytesSlice ==
  ASSUME NEW a \in Nat, NEW f \in Seq(Nat), \A x \in 1 .. Len(f) : f[x] = a + x,
         NEW i \in Nat, NEW j \in Nat, 1 <= i, i <= j + 1, j <= Len(f)
  PROVE  /\ SubSeq(f, i, j) \in Seq(Nat)
         /\ Len(SubSeq(f, i, j)) = j - i + 1
         /\ SubSeq(f, i, j) = Bytes(a + i, a + j)
  <1> DEFINE b == SubSeq(f, i, j)
  <1>1. /\ b \in Seq(Nat) /\ Len(b) = j - i + 1
        /\ \A k \in 1 .. j - i + 1 : b[k] = f[i + k - 1]
    BY SliceElements
  <1> HIDE DEF b
  <1>2. /\ a + i \in Nat /\ a + j \in Nat /\ a + i <= (a + j) + 1
        /\ (a + j) - (a + i) + 1 = j - i + 1
    OBVIOUS
  <1>3. \A k \in 1 .. j - i + 1 : i + k - 1 \in 1 .. Len(f)
    OBVIOUS
  <1>4. \A k \in 1 .. j - i + 1 : b[k] = (a + i) + k - 1
    BY <1>1, <1>3
  <1>5. b = Bytes(a + i, a + j)
    BY <1>1, <1>2, <1>4, BytesUnique
  <1> QED BY <1>1, <1>5 DEF b

(* A piece of a file that is cut in two. *)
LEMMA BytesCut ==
  ASSUME NEW a \in Nat, NEW f \in Seq(Nat), NEW k \in Nat, k <= Len(f)
  PROVE  /\ SubSeq(f, 1, k) \in Seq(Nat) /\ Len(SubSeq(f, 1, k)) = k
         /\ SubSeq(f, k + 1, Len(f)) \in Seq(Nat)
         /\ Len(SubSeq(f, k + 1, Len(f))) = Len(f) - k
         /\ f = Bytes(a + 1, a + Len(f)) =>
              /\ SubSeq(f, 1, k) = Bytes(a + 1, a + k)
              /\ SubSeq(f, k + 1, Len(f)) = Bytes(a + k + 1, a + Len(f))
  <1>1. /\ Len(f) \in Nat /\ 1 \in Nat /\ 1 <= 1 /\ 1 <= k + 1 /\ k - 1 + 1 = k
        /\ k + 1 \in Nat /\ k + 1 <= Len(f) + 1 /\ Len(f) - (k + 1) + 1 = Len(f) - k
        /\ Len(f) <= Len(f)
    OBVIOUS
  <1>2. ASSUME NEW i \in Nat, NEW j \in Nat, 1 <= i, i <= j + 1, j <= Len(f)
        PROVE  /\ SubSeq(f, i, j) \in Seq(Nat)
               /\ Len(SubSeq(f, i, j)) = j - i + 1
    BY <1>2, SliceElements
  <1>3. /\ SubSeq(f, 1, k) \in Seq(Nat) /\ Len(SubSeq(f, 1, k)) = k
        /\ SubSeq(f, k + 1, Len(f)) \in Seq(Nat)
        /\ Len(SubSeq(f, k + 1, Len(f))) = Len(f) - k
    <2>1. SubSeq(f, 1, k) \in Seq(Nat) /\ Len(SubSeq(f, 1, k)) = k - 1 + 1
      BY <1>1, <1>2
    <2>2. /\ SubSeq(f, k + 1, Len(f)) \in Seq(Nat)
          /\ Len(SubSeq(f, k + 1, Len(f))) = Len(f) - (k + 1) + 1
      BY <1>1, <1>2
    <2> QED BY <1>1, <2>1, <2>2
  <1>4. ASSUME f = Bytes(a + 1, a + Len(f))
        PROVE  /\ SubSeq(f, 1, k) = Bytes(a + 1, a + k)
               /\ SubSeq(f, k + 1, Len(f)) = Bytes(a + k + 1, a + Len(f))
    <2>1. \A x \in 1 .. Len(f) : f[x] = a + x
      BY <1>4 DEF Bytes
    <2>2. \A i, j \in Nat :
            1 <= i /\ i <= j + 1 /\ j <= Len(f)
              => SubSeq(f, i, j) = Bytes(a + i, a + j)
      BY <2>1, BytesSlice
    <2>3. SubSeq(f, 1, k) = Bytes(a + 1, a + k)
      BY <1>1, <2>2
    <2>4. SubSeq(f, k + 1, Len(f)) = Bytes(a + (k + 1), a + Len(f))
      BY <1>1, <2>2
    <2>5. a + (k + 1) = a + k + 1
      OBVIOUS
    <2> QED BY <2>3, <2>4, <2>5
  <1> QED BY <1>3, <1>4

(* The number of blocks of a length: the last of them is not empty. *)
LEMMA BlocksReach ==
  ASSUME NEW b \in Nat \ {0}, NEW l \in Nat, NEW k \in Nat \ {0},
         k <= (l + b - 1) \div b
  PROVE  /\ (k - 1) * b \in Nat
         /\ k * b = (k - 1) * b + b
         /\ (k - 1) * b + 1 <= l
  <1> DEFINE q == (l + b - 1) \div b
  <1>1. q \in Int /\ q * b <= l + b - 1
    OBVIOUS
  <1> HIDE DEF q
  <1>2. k * b <= q * b
    BY <1>1 DEF q
  <1>3. k * b = (k - 1) * b + b
    OBVIOUS
  <1>4. (k - 1) * b \in Nat
    OBVIOUS
  <1> QED BY <1>1, <1>2, <1>3, <1>4

-----------------------------------------------------------------------------
(* The records of an upload. *)

(* The data in the records w are the bytes of the file from the one after   *)
(* "first" to "last", in order.                                             *)
IsChain(w, first, last) ==
  \E e \in [0 .. Len(w) -> 0 .. last] :
    /\ e[0] = first /\ e[Len(w)] = last
    /\ \A i \in 1 .. Len(w) :
         IF w[i].type = "data"
         THEN e[i - 1] <= e[i] /\ w[i].bytes = Bytes(e[i - 1] + 1, e[i])
         ELSE e[i] = e[i - 1]

(* A record of data that goes on where the last one ended. *)
LEMMA ChainData ==
  ASSUME NEW w \in Seq(Record), NEW first \in Nat, NEW last \in Nat,
         IsChain(w, first, last), NEW n \in Nat, NEW r \in Record,
         r.type = "data", r.bytes = Bytes(last + 1, last + n)
  PROVE  IsChain(Append(w, r), first, last + n)
  <1>1. PICK e \in [0 .. Len(w) -> 0 .. last] :
          /\ e[0] = first /\ e[Len(w)] = last
          /\ \A i \in 1 .. Len(w) :
               IF w[i].type = "data"
               THEN e[i - 1] <= e[i] /\ w[i].bytes = Bytes(e[i - 1] + 1, e[i])
               ELSE e[i] = e[i - 1]
    BY DEF IsChain
  <1> DEFINE x == Append(w, r)
             g == [j \in 0 .. Len(w) + 1 |-> IF j <= Len(w) THEN e[j] ELSE last + n]
  <1>2. /\ Len(x) = Len(w) + 1 /\ Len(w) \in Nat /\ x[Len(w) + 1] = r
        /\ \A i \in 1 .. Len(w) : x[i] = w[i]
    OBVIOUS
  <1>3. /\ g \in [0 .. Len(w) + 1 -> 0 .. last + n] /\ g[0] = first
        /\ g[Len(w) + 1] = last + n
        /\ \A j \in 0 .. Len(w) : g[j] = e[j]
    BY <1>1, <1>2
  <1> HIDE DEF x, g
  <1>4. ASSUME NEW i \in 1 .. Len(w) + 1
        PROVE  IF x[i].type = "data"
               THEN g[i - 1] <= g[i] /\ x[i].bytes = Bytes(g[i - 1] + 1, g[i])
               ELSE g[i] = g[i - 1]
    <2>1. CASE i <= Len(w)
      <3>1. i \in 1 .. Len(w) /\ x[i] = w[i] /\ g[i] = e[i] /\ g[i - 1] = e[i - 1]
        BY <1>2, <1>3, <2>1
      <3> QED BY <1>1, <3>1
    <2>2. CASE i = Len(w) + 1
      <3>1. x[i] = r /\ g[i] = last + n /\ g[i - 1] = last
        BY <1>1, <1>2, <1>3, <2>2
      <3> QED BY <3>1
    <2> QED BY <1>2, <2>1, <2>2
  <1>5. IsChain(x, first, last + n)
    <2>1. /\ g \in [0 .. Len(x) -> 0 .. last + n]
          /\ g[0] = first /\ g[Len(x)] = last + n
      BY <1>2, <1>3
    <2> QED BY <1>2, <1>4, <2>1 DEF IsChain
  <1> QED BY <1>5 DEF x

(* A record of another kind. *)
LEMMA ChainOther ==
  ASSUME NEW w \in Seq(Record), NEW first \in Nat, NEW last \in Nat,
         IsChain(w, first, last), NEW r \in Record, r.type # "data"
  PROVE  IsChain(Append(w, r), first, last)
  <1>1. PICK e \in [0 .. Len(w) -> 0 .. last] :
          /\ e[0] = first /\ e[Len(w)] = last
          /\ \A i \in 1 .. Len(w) :
               IF w[i].type = "data"
               THEN e[i - 1] <= e[i] /\ w[i].bytes = Bytes(e[i - 1] + 1, e[i])
               ELSE e[i] = e[i - 1]
    BY DEF IsChain
  <1> DEFINE x == Append(w, r)
             g == [j \in 0 .. Len(w) + 1 |-> IF j <= Len(w) THEN e[j] ELSE last]
  <1>2. /\ Len(x) = Len(w) + 1 /\ Len(w) \in Nat /\ x[Len(w) + 1] = r
        /\ \A i \in 1 .. Len(w) : x[i] = w[i]
    OBVIOUS
  <1>3. /\ g \in [0 .. Len(w) + 1 -> 0 .. last] /\ g[0] = first
        /\ g[Len(w) + 1] = last
        /\ \A j \in 0 .. Len(w) : g[j] = e[j]
    BY <1>1, <1>2
  <1> HIDE DEF x, g
  <1>4. ASSUME NEW i \in 1 .. Len(w) + 1
        PROVE  IF x[i].type = "data"
               THEN g[i - 1] <= g[i] /\ x[i].bytes = Bytes(g[i - 1] + 1, g[i])
               ELSE g[i] = g[i - 1]
    <2>1. CASE i <= Len(w)
      <3>1. i \in 1 .. Len(w) /\ x[i] = w[i] /\ g[i] = e[i] /\ g[i - 1] = e[i - 1]
        BY <1>2, <1>3, <2>1
      <3> QED BY <1>1, <3>1
    <2>2. CASE i = Len(w) + 1
      <3>1. x[i] = r /\ g[i] = last /\ g[i - 1] = last
        BY <1>1, <1>2, <1>3, <2>2
      <3> QED BY <3>1
    <2> QED BY <1>2, <2>1, <2>2
  <1>5. IsChain(x, first, last)
    <2>1. /\ g \in [0 .. Len(x) -> 0 .. last]
          /\ g[0] = first /\ g[Len(x)] = last
      BY <1>2, <1>3
    <2> QED BY <1>2, <1>4, <2>1 DEF IsChain
  <1> QED BY <1>5 DEF x

(* What the first record brings, and what is left without it. *)
LEMMA ChainTail ==
  ASSUME NEW w \in Seq(Record), w # << >>, NEW first \in Nat, NEW last \in Nat,
         IsChain(w, first, last)
  PROVE  \E m \in first .. last :
           /\ IsChain(Tail(w), m, last)
           /\ Head(w).type = "data" => Head(w).bytes = Bytes(first + 1, m)
           /\ Head(w).type # "data" => m = first
  <1>1. PICK e \in [0 .. Len(w) -> 0 .. last] :
          /\ e[0] = first /\ e[Len(w)] = last
          /\ \A i \in 1 .. Len(w) :
               IF w[i].type = "data"
               THEN e[i - 1] <= e[i] /\ w[i].bytes = Bytes(e[i - 1] + 1, e[i])
               ELSE e[i] = e[i - 1]
    BY DEF IsChain
  <1> DEFINE x == Tail(w)
             g == [j \in 0 .. Len(w) - 1 |-> e[j + 1]]
  <1>2. /\ Len(x) = Len(w) - 1 /\ Len(w) \in Nat \ {0} /\ Head(w) = w[1]
        /\ \A i \in 1 .. Len(w) - 1 : x[i] = w[i + 1]
    OBVIOUS
  <1>3. /\ g \in [0 .. Len(w) - 1 -> 0 .. last] /\ g[0] = e[1]
        /\ g[Len(w) - 1] = last
        /\ \A j \in 0 .. Len(w) - 1 : g[j] = e[j + 1]
    BY <1>1, <1>2
  <1> HIDE DEF x, g
  <1>4. ASSUME NEW i \in 1 .. Len(w) - 1
        PROVE  IF x[i].type = "data"
               THEN g[i - 1] <= g[i] /\ x[i].bytes = Bytes(g[i - 1] + 1, g[i])
               ELSE g[i] = g[i - 1]
    <2>1. /\ i + 1 \in 1 .. Len(w) /\ x[i] = w[i + 1] /\ (i + 1) - 1 = i
          /\ g[i] = e[i + 1] /\ g[i - 1] = e[i]
      BY <1>2, <1>3
    <2> QED BY <1>1, <2>1
  <1>5. IsChain(x, e[1], last)
    <2>1. /\ g \in [0 .. Len(x) -> 0 .. last]
          /\ g[0] = e[1] /\ g[Len(x)] = last
      BY <1>2, <1>3
    <2> QED BY <1>2, <1>4, <2>1 DEF IsChain
  <1>6. 1 \in 1 .. Len(w) /\ e[1] \in 0 .. last
    BY <1>1, <1>2
  <1>7. /\ e[1] \in first .. last
        /\ w[1].type = "data" => w[1].bytes = Bytes(first + 1, e[1])
        /\ w[1].type # "data" => e[1] = first
    BY <1>1, <1>6
  <1> QED BY <1>2, <1>5, <1>7 DEF x

(* No records bring nothing. *)
LEMMA ChainEmpty ==
  ASSUME NEW first \in Nat, NEW last \in Nat, IsChain(<< >>, first, last)
  PROVE  first = last
  BY DEF IsChain

(* The bytes that some records of data bring are one piece of the file. *)
LEMMA ChainFlat ==
  ASSUME NEW w \in Seq(Record), NEW first \in Nat, NEW last \in Nat,
         IsChain(w, first, last)
  PROVE  /\ first <= last
         /\ FlattenSeq([i \in DOMAIN w |->
              IF w[i].type = "data" THEN w[i].bytes ELSE << >>])
              = Bytes(first + 1, last)
  <1> DEFINE s == [i \in DOMAIN w |->
                     IF w[i].type = "data" THEN w[i].bytes ELSE << >>]
             n == Len(w)
  <1>1. PICK e \in [0 .. Len(w) -> 0 .. last] :
          /\ e[0] = first /\ e[Len(w)] = last
          /\ \A i \in 1 .. Len(w) :
               IF w[i].type = "data"
               THEN e[i - 1] <= e[i] /\ w[i].bytes = Bytes(e[i - 1] + 1, e[i])
               ELSE e[i] = e[i - 1]
    BY DEF IsChain
  <1>2. /\ n \in Nat /\ DOMAIN w = 1 .. n
        /\ \A i \in 1 .. n : w[i] \in Record /\ w[i].bytes \in Seq(Nat)
    <2>1. \A r \in Record : r.bytes \in Seq(Nat)
      BY DEF Record
    <2>2. \A i \in 1 .. n : w[i] \in Record
      OBVIOUS
    <2>3. n \in Nat /\ DOMAIN w = 1 .. n
      OBVIOUS
    <2> QED BY <2>1, <2>2, <2>3
  <1>3. /\ s \in Seq(Seq(Nat)) /\ Len(s) = n
        /\ \A i \in 1 .. n : s[i] = IF w[i].type = "data" THEN w[i].bytes ELSE << >>
    <2>1. << >> \in Seq(Nat)
      OBVIOUS
    <2> QED BY <1>2, <2>1
  <1> HIDE DEF s, n
  <1>4. ASSUME NEW i \in 1 .. n
        PROVE  /\ e[i] \in Nat /\ e[i - 1] \in Nat /\ e[i - 1] <= e[i]
               /\ s[i] = Bytes(e[i - 1] + 1, e[i])
    <2>1. /\ e[i] \in 0 .. last /\ e[i - 1] \in 0 .. last
          /\ IF w[i].type = "data"
             THEN e[i - 1] <= e[i] /\ w[i].bytes = Bytes(e[i - 1] + 1, e[i])
             ELSE e[i] = e[i - 1]
      BY <1>1, <1>2 DEF n
    <2>2. CASE w[i].type = "data"
      BY <1>3, <2>1, <2>2, SMTT(30)
    <2>3. CASE w[i].type # "data"
      <3>1. ASSUME NEW x \in Nat PROVE Bytes(x + 1, x) = << >>
        <4>1. x + 1 \in Nat /\ x + 1 <= x + 1 /\ x - (x + 1) + 1 = 0
          OBVIOUS
        <4>2. Bytes(x + 1, x) \in Seq(Nat) /\ Len(Bytes(x + 1, x)) = 0
          BY <4>1, BytesElements
        <4> QED BY <4>2, EmptySeq
      <3>2. e[i - 1] \in Nat /\ e[i] = e[i - 1] /\ s[i] = << >>
        BY <1>3, <2>1, <2>3, SMTT(30)
      <3>3. Bytes(e[i - 1] + 1, e[i - 1]) = << >>
        BY <3>1, <3>2
      <3> QED BY <3>2, <3>3
    <2> QED BY <2>1, <2>2, <2>3
  <1> DEFINE Grown(i) == /\ e[i] \in Nat /\ first <= e[i]
  <1>5. \A i \in 0 .. n : Grown(i)
    <2> DEFINE T == {i \in 0 .. n : ~Grown(i)}
    <2> SUFFICES ASSUME T # {} PROVE FALSE
      OBVIOUS
    <2>1. PICK x \in T : \A y \in T : x <= y
      <3>1. T \subseteq Nat
        BY <1>2
      <3> HIDE DEF T
      <3> QED BY <3>1, Smallest
    <2>2. x # 0
      BY <1>1 DEF n
    <2>3. x \in 1 .. n /\ x - 1 \in 0 .. n
      BY <1>2, <2>2
    <2>4. Grown(x - 1)
      BY <1>2, <2>1, <2>3
    <2> QED BY <1>4, <2>3, <2>4
  <1>6. first <= last
    BY <1>1, <1>2, <1>5 DEF n
  <1>7. CASE n = 0
    <2>1. s = << >> /\ FlattenSeq(s) = << >>
      BY <1>3, <1>7, EmptySeq DEF FlattenSeq
    <2>2. first = last
      BY <1>1, <1>7 DEF n
    <2>3. Bytes(first + 1, first) = << >>
      <3>1. first + 1 \in Nat /\ first + 1 <= first + 1 /\ first - (first + 1) + 1 = 0
        OBVIOUS
      <3>2. Bytes(first + 1, first) \in Seq(Nat) /\ Len(Bytes(first + 1, first)) = 0
        BY <3>1, BytesElements
      <3> QED BY <3>2, EmptySeq
    <2> QED BY <1>6, <2>1, <2>2, <2>3 DEF s
  <1>8. CASE n # 0
    <2> DEFINE Flat(f) == f = [i \in 1 .. n |-> IF i = 1 THEN s[i] ELSE f[i - 1] \o s[i]]
               g == [i \in 1 .. n |-> Bytes(first + 1, e[i])]
               h == CHOOSE f : Flat(f)
    <2>1. ASSUME NEW i \in 1 .. n
          PROVE  Bytes(first + 1, e[i])
                   = IF i = 1 THEN s[i] ELSE Bytes(first + 1, e[i - 1]) \o s[i]
      <3>1. CASE i = 1
        BY <1>1, <1>4, <3>1
      <3>2. CASE i # 1
        <4>1. /\ first <= e[i - 1] /\ e[i - 1] \in Nat /\ e[i] \in Nat
              /\ e[i - 1] <= e[i] /\ s[i] = Bytes(e[i - 1] + 1, e[i])
          BY <1>2, <1>4, <1>5, SMTT(30)
        <4>2. first + 1 \in Nat /\ first + 1 <= e[i - 1] + 1
          BY <4>1
        <4> DEFINE a == e[i - 1]
                   b == e[i]
                   m == first + 1
        <4>3. a \in Nat /\ b \in Nat /\ a <= b /\ m \in Nat /\ m <= a + 1
          BY <4>1, <4>2
        <4> HIDE DEF a, b, m
        <4>4. Bytes(m, a) \o Bytes(a + 1, b) = Bytes(m, b)
          BY <4>3, BytesJoin
        <4> QED BY <3>2, <4>1, <4>4 DEF a, b, m
      <3> QED BY <3>1, <3>2
    <2>2. Flat(g)
      <3>1. \A i \in 1 .. n : i # 1 => g[i - 1] = Bytes(first + 1, e[i - 1])
        BY <1>2
      <3> QED BY <2>1, <3>1
    <2>3. Flat(h)
      BY <2>2
    <2>4. FlattenSeq(s) = h[n]
      BY <1>3, <1>8 DEF FlattenSeq
    <2>5. \A i \in 1 .. n : h[i] = IF i = 1 THEN s[i] ELSE h[i - 1] \o s[i]
      BY <2>3
    <2> HIDE DEF Flat, g, h
    <2>6. \A i \in 1 .. n : h[i] = Bytes(first + 1, e[i])
      <3> DEFINE T == {i \in 1 .. n : h[i] # Bytes(first + 1, e[i])}
      <3> SUFFICES ASSUME T # {} PROVE FALSE
        OBVIOUS
      <3>1. PICK x \in T : \A y \in T : x <= y
        <4>1. T \subseteq Nat
          BY <1>2
        <4> HIDE DEF T
        <4> QED BY <4>1, Smallest
      <3>2. x \in 1 .. n /\ h[x] # Bytes(first + 1, e[x])
        OBVIOUS
      <3>3. x # 1
        BY <2>1, <2>5, <3>2
      <3>4. x - 1 \in 1 .. n /\ x - 1 \notin T
        BY <1>2, <3>1, <3>2, <3>3
      <3>5. h[x - 1] = Bytes(first + 1, e[x - 1])
        BY <3>4
      <3> QED BY <2>1, <2>5, <3>2, <3>3, <3>5
    <2>7. n \in 1 .. n /\ e[n] = last
      BY <1>1, <1>2, <1>8 DEF n
    <2> QED BY <1>6, <2>4, <2>6, <2>7 DEF s
  <1> QED BY <1>7, <1>8

-----------------------------------------------------------------------------
(* The invariant. *)

(* The records of a request. *)
Asks == {"request", "header", "body"}

(* What is in a connection's socket: a request comes first, in one record   *)
(* or two, and the end of an upload last.                                   *)
Talk(c) ==
  /\ phase[c] \in {"idle", "begun"} => wire[c] = << >>
  /\ phase[c] = "header" => Len(wire[c]) = 1 /\ wire[c][1].type = "header"
  /\ state[c] = "new" => phase[c] = "idle" /\ c \notin closing
  /\ \A i \in 1 .. Len(wire[c]) :
       /\ wire[c][i].type \in {"request", "header"} => i = 1
       /\ wire[c][i].type = "body" => i = 2 /\ wire[c][1].type = "header"
       /\ wire[c][i].type = "finish" => phase[c] = "finished" /\ i = Len(wire[c])
  /\ wire[c] # << >> /\ wire[c][1].type = "header" /\ phase[c] # "header"
       => Len(wire[c]) > 1 /\ wire[c][2].type = "body"

(* An upload's request is read once. *)
UpTalk(u) ==
  /\ u \in uploading => /\ phase[u] \in {"asked", "finished"}
                        /\ \A i \in 1 .. Len(wire[u]) : wire[u][i].type \notin Asks
  /\ phase[u] \notin {"idle", "begun"} /\ u \notin uploading \cup closing
       => wire[u] # << >> /\ wire[u][1].type \in {"request", "header"}

(* A download sends nothing but its request. *)
DownTalk(d) ==
  /\ phase[d] # "finished"
  /\ phase[d] = "idle" <=> wants[d] = Nobody
  /\ \A i \in 1 .. Len(wire[d]) : wire[d][i].type \in Asks
  /\ after[d] => phase[d] # "idle" /\ wants[d] \in acked

TalkSound ==
  /\ \A c \in Conn : Talk(c)
  /\ \A u \in Up : UpTalk(u)
  /\ \A d \in Down : DownTalk(d)

(* _fileConnSet: the connections the thread may still handle are open, did  *)
(* not ask to be closed, and those that want a file which was acknowledged  *)
(* before they asked are in it only since that file was closed.             *)
ReadySound ==
  /\ pc = "build" => ready = {}
  /\ ready \cap closing = {}
  /\ acked \subseteq closing
  /\ pc = "send" <=> cur # Nobody
  /\ \A c \in ready :
       /\ state[c] = "open"
       /\ phase[c] = "idle" => c \in gone
       /\ c \in Down /\ after[c] => state[wants[c]] = "closed"

(* What is stored of an upload is what was received; what OpenSSL and the   *)
(* socket hold follows it, unless the output stream takes nothing.          *)
Stored(u) ==
  /\ disk[u] \o buffer[u] = Bytes(1, received[u])
  /\ state[u] = "closed" => buffer[u] = << >>
  /\ phase[u] = "idle" => size[u] = 0 /\ u \notin acked
  /\ phase[u] = "finished" => sent[u] = size[u]
  /\ sent[u] <= size[u]
  /\ u \in acked => received[u] = size[u]
  /\ u \notin unopened =>
       /\ pend[u] = Bytes(received[u] + 1, received[u] + Len(pend[u]))
       /\ IsChain(wire[u], received[u] + Len(pend[u]), sent[u])
UploadSound == \A u \in Up : Stored(u)

(* A download that was not begun has got nothing. *)
Unserved(d) ==
  phase[d] \in {"idle", "begun"} \/ wire[d] # << >> =>
    got[d] = << >> /\ d \notin ended /\ d # cur
DownSound == \A d \in Down : Unserved(d)

(* The last byte a download has got. *)
LastGot == IF got[cur] = << >> THEN 0 ELSE got[cur][Len(got[cur])]

(* While a file is sent, nothing has gone out beyond the chunks that were   *)
(* written, and what OpenSSL holds back lies between the two.               *)
SendSound ==
  /\ pc # "send" => src = << >> /\ stuck = << >>
  /\ pc = "send" =>
       /\ src = Bytes(1, Len(src))
       /\ LastGot \in Nat /\ LastGot <= (next - 1) * Buffer
       /\ stuck # << >> =>
            \E a, b \in LastGot + 1 .. Len(src) :
              a <= b /\ b <= (next - 1) * Buffer /\ stuck = Bytes(a, b)

(* Only what was begun has come in part. *)
PartSound == \A c \in part : phase[c] # "idle"

StoreInv ==
  /\ TypeOK
  /\ TalkSound
  /\ ReadySound
  /\ UploadSound
  /\ DownSound
  /\ SendSound

(* The server starts with no connection and no file. *)
LEMMA StoreInvInit == Init => StoreInv
  <1> SUFFICES ASSUME Init PROVE StoreInv
    OBVIOUS
  <1>1. TypeOK
    BY SizesAssumption DEF Init, TypeOK
  <1>2. TalkSound
    BY DEF Init, TalkSound, Talk, UpTalk, DownTalk, Conn
  <1>3. ReadySound
    BY DEF Init, ReadySound
  <1>4. UploadSound
    <2>1. Bytes(1, 0) = << >>
      BY DEF Bytes
    <2>2. << >> \o << >> = << >>
      OBVIOUS
    <2>3. IsChain(<< >>, 0, 0)
      <3> DEFINE e == [j \in 0 .. 0 |-> 0]
      <3>1. /\ Len(<< >>) = 0 /\ 1 .. 0 = {}
            /\ e \in [0 .. 0 -> 0 .. 0] /\ e[0] = 0
        OBVIOUS
      <3> HIDE DEF e
      <3> QED BY <3>1 DEF IsChain
    <2>4. ASSUME NEW u \in Up
          PROVE  Stored(u)
      <3>1. /\ disk[u] = << >> /\ buffer[u] = << >> /\ received[u] = 0
            /\ size[u] = 0 /\ sent[u] = 0 /\ acked = {} /\ state[u] = "new"
            /\ wire[u] = << >> /\ pend[u] = << >> /\ phase[u] = "idle"
        BY DEF Init, Conn
      <3>2. 0 + Len(<< >>) = 0 /\ 0 + 1 = 1
        OBVIOUS
      <3> QED BY <2>1, <2>2, <2>3, <3>1, <3>2 DEF Stored
    <2> QED BY <2>4 DEF UploadSound
  <1>5. DownSound /\ SendSound
    BY ConnAssumption DEF Init, DownSound, Unserved, SendSound, Conn
  <1> QED BY <1>1, <1>2, <1>3, <1>4, <1>5 DEF StoreInv

-----------------------------------------------------------------------------
(* What a step that is about one connection has to show.                    *)

(* The talk of the others is as it was. *)
LEMMA TalkOthers ==
  ASSUME TalkSound, NEW c \in Conn, acked \subseteq acked',
         \A x \in Conn \ {c} :
           /\ phase'[x] = phase[x] /\ wire'[x] = wire[x] /\ state'[x] = state[x]
           /\ x \in closing' <=> x \in closing
           /\ x \in uploading' <=> x \in uploading,
         \A x \in Down \ {c} : wants'[x] = wants[x] /\ after'[x] = after[x],
         Talk(c)', c \in Up => UpTalk(c)', c \in Down => DownTalk(c)'
  PROVE  TalkSound'
  <1>1. ASSUME NEW x \in Conn, x # c PROVE Talk(x)'
    BY <1>1 DEF TalkSound, Talk
  <1>2. ASSUME NEW x \in Up, x # c PROVE UpTalk(x)'
    BY <1>2 DEF TalkSound, UpTalk, Conn
  <1>3. ASSUME NEW x \in Down, x # c PROVE DownTalk(x)'
    BY <1>3 DEF TalkSound, DownTalk, Conn
  <1> QED BY <1>1, <1>2, <1>3 DEF TalkSound

(* The uploads of the others are as they were. *)
LEMMA UploadOthers ==
  ASSUME UploadSound, NEW c \in Conn,
         \A x \in Up \ {c} :
           /\ disk'[x] = disk[x] /\ buffer'[x] = buffer[x] /\ pend'[x] = pend[x]
           /\ received'[x] = received[x] /\ size'[x] = size[x]
           /\ sent'[x] = sent[x] /\ phase'[x] = phase[x] /\ wire'[x] = wire[x]
           /\ state'[x] = state[x]
           /\ x \in acked' <=> x \in acked
           /\ x \in unopened' <=> x \in unopened,
         c \in Up => Stored(c)'
  PROVE  UploadSound'
  <1>1. ASSUME NEW x \in Up, x # c PROVE Stored(x)'
    BY <1>1 DEF UploadSound, Stored
  <1> QED BY <1>1 DEF UploadSound

(* A step that is not about the requests, the files and the thread's walk.  *)
LEMMA StoreFrame ==
  ASSUME StoreInv, TypeOK',
         UNCHANGED <<connVars, fileVars, wire, pend, phase, size, sent, wants,
                     after, replyVars, pc, ready, sendVars>>,
         gone \subseteq gone'
  PROVE  StoreInv'
  <1> USE DEF connVars, fileVars, replyVars, sendVars
  <1>1. TalkSound'
    BY DEF StoreInv, TalkSound, Talk, UpTalk, DownTalk
  <1>2. ReadySound'
    BY DEF StoreInv, ReadySound
  <1>3. UploadSound'
    BY DEF StoreInv, UploadSound, Stored
  <1>4. DownSound' /\ SendSound'
    BY DEF StoreInv, DownSound, Unserved, SendSound, LastGot
  <1> QED BY <1>1, <1>2, <1>3, <1>4 DEF StoreInv

(* The end of the process, clients that leave or stop reading, and a part   *)
(* of a record that arrives.                                                *)
LEMMA StoreQuiet ==
  ASSUME StoreInv,
         \/ Die \/ UNCHANGED vars
         \/ \E c \in Conn : Leave(c) \/ ArriveInPart(c)
         \/ \E d \in Down : Stall(d)
  PROVE  StoreInv'
  <1> USE DEF connVars, fileVars, netVars, clientVars, replyVars, sendVars,
              serverVars
  <1>1. /\ UNCHANGED <<connVars, fileVars, wire, pend, phase, size, sent, wants,
                       after, replyVars, pc, ready, sendVars>>
        /\ gone \subseteq gone'
    BY DEF Die, vars, Leave, Stall, ArriveInPart
  <1>2. TypeOK'
    <2>1. /\ alive' \in BOOLEAN /\ gone' \subseteq Conn /\ stalled' \subseteq Down
          /\ part' \subseteq Conn
      BY DEF StoreInv, TypeOK, Die, vars, Leave, Stall, ArriveInPart
    <2> QED BY <1>1, <2>1 DEF StoreInv, TypeOK
  <1> QED BY <1>1, <1>2, StoreFrame

(* A hand-over. *)
LEMMA StoreHandOver ==
  ASSUME StoreInv, NEW c \in Conn, HandOver(c)
  PROVE  StoreInv'
  <1> USE DEF fileVars, netVars, clientVars, replyVars, sendVars
  <1>0. /\ state[c] = "new" /\ state' = [state EXCEPT ![c] = "open"]
        /\ UNCHANGED <<alive, closing, uploading, received, unopened, fileVars,
                       netVars, clientVars, replyVars, pc, ready, sendVars>>
        /\ \A x \in Conn : state'[x] = IF x = c THEN "open" ELSE state[x]
    BY DEF HandOver, StoreInv, TypeOK
  <1>1. TypeOK'
    BY <1>0 DEF StoreInv, TypeOK
  <1>2. TalkSound'
    BY <1>0 DEF StoreInv, TalkSound, Talk, UpTalk, DownTalk
  <1>3. ReadySound'
    <2>1. \A d \in Down : wants[d] \in Up \cup {Nobody}
      BY DEF StoreInv, TypeOK
    <2>2. \A d \in Down : after[d] => wants[d] \in Conn
      BY DEF StoreInv, TalkSound, DownTalk, TypeOK, Conn
    <2> QED BY <1>0, <2>2 DEF StoreInv, ReadySound, TypeOK
  <1>4. UploadSound'
    <2>1. ASSUME c \in Up
          PROVE  Stored(c)'
      <3>1. Stored(c) /\ state'[c] = "open"
        BY <1>0, <2>1 DEF StoreInv, UploadSound
      <3> QED BY <1>0, <3>1 DEF Stored
    <2> QED BY <1>0, <2>1, UploadOthers DEF StoreInv, Conn
  <1>5. DownSound' /\ SendSound'
    BY <1>0 DEF StoreInv, DownSound, Unserved, SendSound, LastGot
  <1> QED BY <1>1, <1>2, <1>3, <1>4, <1>5 DEF StoreInv

(* What arrives is behind what has arrived. *)
LEMMA ArriveWire ==
  ASSUME TypeOK, NEW c \in Conn, NEW m \in Record, Arrive(c, m)
  PROVE  /\ wire' \in [Conn -> Seq(Record)] /\ part' \subseteq Conn
         /\ \A x \in Conn : x # c => wire'[x] = wire[x]
         /\ wire[c] \in Seq(Record) /\ Len(wire[c]) \in Nat
         /\ wire'[c] = Append(wire[c], m) /\ wire'[c] # << >>
         /\ Len(wire'[c]) = Len(wire[c]) + 1
         /\ \A i \in 1 .. Len(wire[c]) : wire'[c][i] = wire[c][i]
         /\ wire'[c][Len(wire[c]) + 1] = m
  <1>1. wire[c] \in Seq(Record) /\ wire \in [Conn -> Seq(Record)]
    BY DEF TypeOK
  <1>2. wire' = [wire EXCEPT ![c] = Append(wire[c], m)] /\ part' \subseteq Conn
    BY DEF Arrive, TypeOK
  <1> DEFINE a == Append(wire[c], m)
  <1>3. /\ a \in Seq(Record) /\ a # << >> /\ Len(a) = Len(wire[c]) + 1
        /\ \A i \in 1 .. Len(wire[c]) : a[i] = wire[c][i]
        /\ a[Len(wire[c]) + 1] = m
    BY <1>1
  <1>4. wire' = [wire EXCEPT ![c] = a]
    BY <1>2
  <1> HIDE DEF a
  <1>5. wire' \in [Conn -> Seq(Record)] /\ wire'[c] = a
        /\ \A x \in Conn : x # c => wire'[x] = wire[x]
    BY <1>1, <1>3, <1>4
  <1>6. wire'[c] = Append(wire[c], m)
    BY <1>5 DEF a
  <1> QED BY <1>1, <1>2, <1>3, <1>5, <1>6

(* A message is a record. *)
LEMMA MessageType ==
  ASSUME NEW t \in {"request", "header", "body", "data", "finish"}
  PROVE  Message(t) \in Record /\ Message(t).type = t
  <1>1. << 0 >> \in Seq(Nat)
    OBVIOUS
  <1> QED BY <1>1 DEF Message, Record

(* What a request announces or names, when it is begun or was begun before. *)
Chosen(c) ==
  /\ size' \in [Up -> 0 .. MaxSize]
  /\ wants' \in [Down -> Up \cup {Nobody}] /\ after' \in [Down -> BOOLEAN]
  /\ \A u \in Up : u # c => size'[u] = size[u]
  /\ \A d \in Down : d # c => wants'[d] = wants[d] /\ after'[d] = after[d]
  /\ c \in Up => size[c] <= size'[c] /\ (c \in acked => size'[c] = size[c])
  /\ c \in Down => wants'[c] \in Up /\ (after'[c] => wants'[c] \in acked)
  /\ c \in Down \cap ready /\ after'[c] => state[wants'[c]] = "closed"

(* Its first part has come. *)
Begins(c) ==
  /\ part' = part \cup {c} /\ phase' = [phase EXCEPT ![c] = "begun"]
  /\ UNCHANGED wire

LEMMA AskChosen ==
  ASSUME StoreInv, NEW c \in Conn, Ask(c)
  PROVE  Chosen(c)
  <1> USE DEF connVars, replyVars, serverVars
  <1>0. phase[c] = "idle" /\ Connected(c) /\ TypeOK
    BY DEF Ask, StoreInv
  <1>1. /\ size \in [Up -> 0 .. MaxSize] /\ after \in [Down -> BOOLEAN]
        /\ wants \in [Down -> Up \cup {Nobody}] /\ Up \cap Down = {}
        /\ c \notin ready
        /\ c \in Up => size[c] = 0 /\ c \notin acked
    BY <1>0, ConnAssumption
       DEF TypeOK, StoreInv, ReadySound, Connected, UploadSound, Stored
  <1>2. ASSUME c \in Up, UNCHANGED <<wants, after>>, NEW n \in 0 .. MaxSize,
               size' = [size EXCEPT ![c] = n]
        PROVE  Chosen(c)
    <2>1. size'[c] = n /\ size[c] <= n
      BY <1>1, <1>2
    <2> QED BY <1>1, <1>2, <2>1 DEF Chosen
  <1>3. ASSUME c \in Down, UNCHANGED size, NEW u \in Up,
               wants' = [wants EXCEPT ![c] = u],
               NEW b \in BOOLEAN, b <=> u \in acked,
               after' = [after EXCEPT ![c] = b]
        PROVE  Chosen(c)
    BY <1>1, <1>3 DEF Chosen
  <1>4. ASSUME c \in Down, UNCHANGED size, NEW u \in Up,
               wants' = [wants EXCEPT ![c] = u],
               after' = [after EXCEPT ![c] = u \in acked]
        PROVE  Chosen(c)
    <2> DEFINE b == u \in acked
    <2>1. b \in BOOLEAN /\ (b <=> u \in acked) /\ after' = [after EXCEPT ![c] = b]
      BY <1>4
    <2> HIDE DEF b
    <2> QED BY <1>3, <1>4, <2>1
  <1> QED BY <1>2, <1>4 DEF Ask

LEMMA RestChosen ==
  ASSUME StoreInv, NEW c \in Conn, AskRest(c)
  PROVE  Chosen(c)
  <1>0. UNCHANGED <<size, wants, after>> /\ phase[c] = "begun"
    BY DEF AskRest
  <1>1. /\ size \in [Up -> 0 .. MaxSize] /\ after \in [Down -> BOOLEAN]
        /\ wants \in [Down -> Up \cup {Nobody}] /\ Up \cap Down = {}
    BY ConnAssumption DEF StoreInv, TypeOK
  <1>2. c \in Down => wants[c] \in Up /\ (after[c] => wants[c] \in acked)
    BY <1>0, <1>1 DEF StoreInv, TalkSound, DownTalk
  <1>3. c \in Down \cap ready /\ after[c] => state[wants[c]] = "closed"
    BY DEF StoreInv, ReadySound
  <1>4. c \in Up => size[c] <= size[c]
    BY <1>1
  <1> QED BY <1>0, <1>1, <1>2, <1>3, <1>4 DEF Chosen

(* A request that has come, in one record or its first half, or a part.     *)
LEMMA StoreAsking ==
  ASSUME StoreInv, NEW c \in Conn, phase[c] \in {"idle", "begun"}, Connected(c),
         Chosen(c), Requests(c) \/ Begins(c),
         UNCHANGED <<alive, serverVars, sent, gone, stalled>>
  PROVE  StoreInv'
  <1> USE DEF connVars, fileVars, replyVars, sendVars, serverVars
  <1>0. /\ UNCHANGED <<alive, connVars, fileVars, pend, replyVars, pc, ready,
                       sendVars, sent, gone, stalled>>
        /\ TypeOK /\ wire[c] = << >> /\ c \notin uploading
    BY DEF StoreInv, TalkSound, Talk, UpTalk, TypeOK
  <1>1. CASE Begins(c)
    <2>1. /\ part' \subseteq Conn /\ wire' = wire
          /\ phase' \in [Conn -> {"idle", "begun", "header", "asked", "finished"}]
          /\ \A x \in Conn : x # c => phase'[x] = phase[x]
          /\ phase'[c] = "begun"
      BY <1>0, <1>1 DEF Begins, TypeOK
    <2>2. TypeOK'
      <3>1. \A u \in Up : received'[u] <= size'[u]
        <4>1. \A u \in Up : /\ received[u] \in Nat /\ size[u] \in Nat
                            /\ size'[u] \in Nat /\ received[u] <= size[u]
          BY <1>0 DEF TypeOK, Chosen
        <4>2. \A u \in Up : size[u] <= size'[u]
          BY <4>1 DEF Chosen
        <4> QED BY <1>0, <4>1, <4>2
      <3> QED BY <1>0, <2>1, <3>1 DEF TypeOK, Chosen
    <2>3. TalkSound'
      <3>1. Talk(c) /\ (c \in Up => UpTalk(c)) /\ (c \in Down => DownTalk(c))
        BY DEF StoreInv, TalkSound
      <3>2. Talk(c)'
        BY <1>0, <2>1, <3>1 DEF Talk, Connected
      <3>3. c \in Up => UpTalk(c)'
        BY <1>0, <2>1 DEF UpTalk
      <3>4. c \in Down => DownTalk(c)'
        BY <1>0, <2>1, <3>1, ConnAssumption DEF DownTalk, Chosen, Conn
      <3> QED BY <1>0, <2>1, <3>2, <3>3, <3>4, TalkOthers DEF StoreInv, Chosen
    <2>4. UploadSound'
      <3>1. ASSUME c \in Up
            PROVE  Stored(c)'
        <4>1. Stored(c)
          BY <3>1 DEF StoreInv, UploadSound
        <4>2. sent[c] \in Nat /\ size[c] \in Nat /\ size'[c] \in Nat
          BY <1>0, <3>1 DEF TypeOK, Chosen
        <4>3. sent[c] <= size'[c] /\ (c \in acked => size'[c] = size[c])
          BY <3>1, <4>1, <4>2 DEF Stored, Chosen
        <4> QED BY <1>0, <2>1, <3>1, <4>1, <4>3 DEF Stored
      <3> QED BY <1>0, <2>1, <3>1, UploadOthers DEF StoreInv, Conn, Chosen
    <2>5. ReadySound'
      <3>1. ASSUME NEW x \in ready
            PROVE  /\ phase'[x] = "idle" => x \in gone
                   /\ x \in Down /\ after'[x] => state[wants'[x]] = "closed"
        <4>1. x \in Conn /\ phase'[c] # "idle"
          BY <1>0, <2>1 DEF TypeOK
        <4>2. CASE x = c
          BY <3>1, <4>1, <4>2 DEF Chosen
        <4>3. CASE x # c
          BY <2>1, <3>1, <4>1, <4>3 DEF StoreInv, ReadySound, Chosen
        <4> QED BY <4>2, <4>3
      <3> QED BY <1>0, <3>1 DEF StoreInv, ReadySound
    <2>6. DownSound' /\ SendSound'
      BY <1>0, <2>1 DEF StoreInv, DownSound, Unserved, SendSound, LastGot, Conn
    <2> QED BY <2>2, <2>3, <2>4, <2>5, <2>6 DEF StoreInv
  <1>2. CASE Requests(c)
    <2>1. PICK t \in {"request", "header"} :
            /\ Arrive(c, Message(t))
            /\ phase' = [phase EXCEPT ![c] = IF t = "request" THEN "asked" ELSE "header"]
      BY <1>2 DEF Requests
    <2> DEFINE m == Message(t)
    <2>2. m \in Record /\ m.type = t
      BY MessageType
    <2> HIDE DEF m
    <2>3. /\ wire' \in [Conn -> Seq(Record)] /\ part' \subseteq Conn
          /\ \A x \in Conn : x # c => wire'[x] = wire[x]
          /\ Len(wire[c]) = 0
          /\ wire'[c] = Append(wire[c], m) /\ wire'[c] # << >>
          /\ Len(wire'[c]) = 1 /\ wire'[c][1] = m
      <3>1. Arrive(c, m)
        BY <2>1 DEF m
      <3>2. Len(wire[c]) = 0 /\ 0 + 1 = 1
        BY <1>0
      <3>3. /\ wire' \in [Conn -> Seq(Record)] /\ part' \subseteq Conn
            /\ \A x \in Conn : x # c => wire'[x] = wire[x]
            /\ wire'[c] = Append(wire[c], m) /\ wire'[c] # << >>
            /\ Len(wire'[c]) = Len(wire[c]) + 1
            /\ wire'[c][Len(wire[c]) + 1] = m
        BY <1>0, <2>2, <3>1, ArriveWire
      <3> QED BY <1>0, <3>2, <3>3
    <2>4. /\ phase' \in [Conn -> {"idle", "begun", "header", "asked", "finished"}]
          /\ \A x \in Conn : x # c => phase'[x] = phase[x]
          /\ phase'[c] = IF t = "request" THEN "asked" ELSE "header"
      BY <1>0, <2>1 DEF TypeOK
    <2>5. TypeOK'
      <3>1. \A u \in Up : received'[u] <= size'[u]
        <4>1. \A u \in Up : /\ received[u] \in Nat /\ size[u] \in Nat
                            /\ size'[u] \in Nat /\ received[u] <= size[u]
          BY <1>0 DEF TypeOK, Chosen
        <4>2. \A u \in Up : size[u] <= size'[u]
          BY <4>1 DEF Chosen
        <4> QED BY <1>0, <4>1, <4>2
      <3> QED BY <1>0, <2>3, <2>4, <3>1 DEF TypeOK, Chosen
    <2>6. TalkSound'
      <3>1. Talk(c)'
        BY <1>0, <2>2, <2>3, <2>4 DEF Talk, Connected
      <3>2. c \in Up => UpTalk(c)'
        BY <1>0, <2>2, <2>3, <2>4 DEF UpTalk
      <3>3. c \in Down => DownTalk(c)'
        BY <1>0, <2>2, <2>3, <2>4, ConnAssumption DEF DownTalk, Asks, Conn, Chosen
      <3> QED BY <1>0, <2>3, <2>4, <3>1, <3>2, <3>3, TalkOthers DEF StoreInv, Chosen
    <2>7. ReadySound'
      <3>1. ASSUME NEW x \in ready
            PROVE  /\ phase'[x] = "idle" => x \in gone
                   /\ x \in Down /\ after'[x] => state[wants'[x]] = "closed"
        <4>1. x \in Conn /\ phase'[c] # "idle"
          BY <1>0, <2>4 DEF TypeOK
        <4>2. CASE x = c
          BY <3>1, <4>1, <4>2 DEF Chosen
        <4>3. CASE x # c
          BY <2>4, <3>1, <4>1, <4>3 DEF StoreInv, ReadySound, Chosen
        <4> QED BY <4>2, <4>3
      <3> QED BY <1>0, <3>1 DEF StoreInv, ReadySound
    <2>8. UploadSound'
      <3>1. ASSUME c \in Up
            PROVE  Stored(c)'
        <4>1. Stored(c)
          BY <3>1 DEF StoreInv, UploadSound
        <4>2. c \notin unopened =>
                IsChain(wire'[c], received[c] + Len(pend[c]), sent[c])
          <5>1. /\ received[c] + Len(pend[c]) \in Nat /\ sent[c] \in Nat
                /\ wire[c] \in Seq(Record)
            BY <1>0, <3>1 DEF TypeOK
          <5> QED BY <2>2, <2>3, <4>1, <5>1, ChainOther DEF Stored
        <4>3. sent[c] \in Nat /\ size[c] \in Nat /\ size'[c] \in Nat
          BY <1>0, <3>1 DEF TypeOK, Chosen
        <4>4. sent[c] <= size'[c] /\ (c \in acked => size'[c] = size[c])
          BY <3>1, <4>1, <4>3 DEF Stored, Chosen
        <4> QED BY <1>0, <2>4, <3>1, <4>1, <4>2, <4>4 DEF Stored
      <3> QED BY <1>0, <2>3, <2>4, <3>1, UploadOthers DEF StoreInv, Conn, Chosen
    <2>9. DownSound' /\ SendSound'
      BY <1>0, <2>3, <2>4 DEF StoreInv, DownSound, Unserved, SendSound, LastGot,
         Conn
    <2> QED BY <2>5, <2>6, <2>7, <2>8, <2>9 DEF StoreInv
  <1> QED BY <1>1, <1>2

LEMMA StoreAsk ==
  ASSUME StoreInv, NEW c \in Conn, Ask(c) \/ AskRest(c)
  PROVE  StoreInv'
  <1>1. /\ phase[c] \in {"idle", "begun"} /\ Connected(c)
        /\ Requests(c) \/ Begins(c)
        /\ UNCHANGED <<alive, serverVars, sent, gone, stalled>>
    BY DEF Ask, AskRest, Begins
  <1>2. Chosen(c)
    BY AskChosen, RestChosen
  <1> QED BY <1>1, <1>2, StoreAsking

(* The second half of a request. *)
LEMMA StoreAskBody ==
  ASSUME StoreInv, NEW c \in Conn, AskBody(c)
  PROVE  StoreInv'
  <1> USE DEF connVars, fileVars, replyVars, sendVars, serverVars
  <1>0. /\ phase[c] = "header" /\ Connected(c) /\ Arrive(c, Message("body"))
        /\ phase' = [phase EXCEPT ![c] = "asked"]
        /\ UNCHANGED <<alive, connVars, fileVars, pend, replyVars, pc, ready,
                       sendVars, size, sent, wants, after, gone, stalled>>
        /\ TypeOK
    BY DEF AskBody, StoreInv
  <1> DEFINE m == Message("body")
  <1>1. m \in Record /\ m.type = "body" /\ Arrive(c, m)
    BY <1>0, MessageType
  <1> HIDE DEF m
  <1>2. /\ Len(wire[c]) = 1 /\ wire[c][1].type = "header"
        /\ wire[c] # << >>
    BY <1>0 DEF StoreInv, TalkSound, Talk
  <1>3. /\ wire' \in [Conn -> Seq(Record)] /\ part' \subseteq Conn
        /\ \A x \in Conn : x # c => wire'[x] = wire[x]
        /\ wire'[c] = Append(wire[c], m) /\ wire'[c] # << >>
        /\ Len(wire'[c]) = 2 /\ wire'[c][1] = wire[c][1] /\ wire'[c][2] = m
    <2>1. /\ wire' \in [Conn -> Seq(Record)] /\ part' \subseteq Conn
          /\ \A x \in Conn : x # c => wire'[x] = wire[x]
          /\ wire'[c] = Append(wire[c], m) /\ wire'[c] # << >>
          /\ Len(wire'[c]) = Len(wire[c]) + 1
          /\ \A i \in 1 .. Len(wire[c]) : wire'[c][i] = wire[c][i]
          /\ wire'[c][Len(wire[c]) + 1] = m
      BY <1>0, <1>1, ArriveWire
    <2> QED BY <1>2, <2>1
  <1>4. /\ phase' \in [Conn -> {"idle", "begun", "header", "asked", "finished"}]
        /\ \A x \in Conn : x # c => phase'[x] = phase[x]
        /\ phase'[c] = "asked"
    BY <1>0 DEF TypeOK
  <1>5. TypeOK'
    BY <1>0, <1>3, <1>4 DEF TypeOK
  <1>6. TalkSound'
    <2>1. Talk(c)'
      BY <1>0, <1>1, <1>2, <1>3, <1>4 DEF Talk, Connected
    <2>2. c \in Up => UpTalk(c)'
      BY <1>0, <1>2, <1>3, <1>4 DEF UpTalk, StoreInv, TalkSound
    <2>3. c \in Down => DownTalk(c)'
      BY <1>0, <1>1, <1>2, <1>3, <1>4 DEF DownTalk, Asks, StoreInv, TalkSound
    <2> QED BY <1>0, <1>3, <1>4, <2>1, <2>2, <2>3, TalkOthers DEF StoreInv
  <1>7. ReadySound'
    BY <1>0, <1>4 DEF StoreInv, ReadySound, TypeOK
  <1>8. UploadSound'
    <2>1. ASSUME c \in Up
          PROVE  Stored(c)'
      <3>1. Stored(c)
        BY <2>1 DEF StoreInv, UploadSound
      <3>2. c \notin unopened =>
              IsChain(wire'[c], received[c] + Len(pend[c]), sent[c])
        <4>1. /\ received[c] + Len(pend[c]) \in Nat /\ sent[c] \in Nat
              /\ wire[c] \in Seq(Record)
          BY <1>0, <2>1 DEF TypeOK
        <4> QED BY <1>1, <1>3, <3>1, <4>1, ChainOther DEF Stored
      <3> QED BY <1>0, <1>4, <2>1, <3>1, <3>2 DEF Stored
    <2> QED BY <1>0, <1>3, <1>4, <2>1, UploadOthers DEF StoreInv, Conn
  <1>9. DownSound' /\ SendSound'
    BY <1>0, <1>2, <1>3, <1>4 DEF StoreInv, DownSound, Unserved, SendSound,
       LastGot, Conn
  <1> QED BY <1>5, <1>6, <1>7, <1>8, <1>9 DEF StoreInv

(* A record of an upload. *)
LEMMA StoreSendData ==
  ASSUME StoreInv, NEW u \in Up, SendData(u)
  PROVE  StoreInv'
  <1> USE DEF connVars, fileVars, replyVars, sendVars, serverVars
  <1>0. /\ phase[u] = "asked" /\ Connected(u) /\ u \in Conn
        /\ UNCHANGED <<alive, connVars, fileVars, pend, replyVars, pc, ready,
                       sendVars, phase, size, wants, after, gone, stalled>>
        /\ TypeOK
    BY DEF SendData, StoreInv, Conn
  <1>1. PICK n \in 1 .. MaxRecord :
          /\ sent[u] + n <= size[u]
          /\ Arrive(u, [type |-> "data", bytes |-> Bytes(sent[u] + 1, sent[u] + n)])
          /\ sent' = [sent EXCEPT ![u] = @ + n]
    BY DEF SendData
  <1> DEFINE b == Bytes(sent[u] + 1, sent[u] + n)
             m == [type |-> "data", bytes |-> b]
  <1>2. /\ n \in Nat /\ sent[u] \in Nat /\ sent[u] + n \in 0 .. MaxSize
        /\ size[u] \in Nat
    BY <1>0, <1>1, SizesAssumption DEF TypeOK
  <1>3. b \in Seq(Nat)
    <2>1. sent[u] + 1 \in Nat /\ sent[u] + n \in Nat /\ sent[u] + 1 <= (sent[u] + n) + 1
      BY <1>2
    <2> QED BY <2>1, BytesElements
  <1>4. m \in Record /\ m.type = "data" /\ m.bytes = b /\ Arrive(u, m)
    <2> HIDE DEF b
    <2>1. m \in Record /\ m.type = "data" /\ m.bytes = b
      BY <1>3 DEF Record
    <2> QED BY <1>1, <2>1 DEF b
  <1> HIDE DEF m
  <1>5. /\ wire' \in [Conn -> Seq(Record)] /\ part' \subseteq Conn
        /\ \A x \in Conn : x # u => wire'[x] = wire[x]
        /\ wire[u] \in Seq(Record) /\ Len(wire[u]) \in Nat
        /\ wire'[u] = Append(wire[u], m) /\ wire'[u] # << >>
        /\ Len(wire'[u]) = Len(wire[u]) + 1
        /\ \A i \in 1 .. Len(wire[u]) : wire'[u][i] = wire[u][i]
        /\ wire'[u][Len(wire[u]) + 1] = m
    BY <1>0, <1>4, ArriveWire
  <1>6. /\ sent' \in [Up -> 0 .. MaxSize] /\ sent'[u] = sent[u] + n
        /\ \A x \in Up : x # u => sent'[x] = sent[x]
    BY <1>0, <1>1, <1>2 DEF TypeOK
  <1>7. TypeOK'
    BY <1>0, <1>5, <1>6 DEF TypeOK
  <1>8. Talk(u) /\ UpTalk(u) /\ Stored(u)
    BY <1>0 DEF StoreInv, TalkSound, UploadSound
  <1>9. TalkSound'
    <2>1. Talk(u)'
      <3>1. \A i \in 1 .. Len(wire'[u]) :
              /\ wire'[u][i].type \in {"request", "header"} => i = 1
              /\ wire'[u][i].type = "body" => i = 2 /\ wire'[u][1].type = "header"
              /\ wire'[u][i].type # "finish"
        <4>1. ASSUME NEW i \in 1 .. Len(wire[u])
              PROVE  /\ wire'[u][i].type \in {"request", "header"} => i = 1
                     /\ wire'[u][i].type = "body" => i = 2 /\ wire'[u][1].type = "header"
                     /\ wire'[u][i].type # "finish"
          <5>1. 1 \in 1 .. Len(wire[u])
            BY <1>5
          <5> QED BY <1>0, <1>5, <1>8, <5>1 DEF Talk
        <4>2. \A i \in 1 .. Len(wire'[u]) : i \in 1 .. Len(wire[u]) \/ i = Len(wire[u]) + 1
          BY <1>5
        <4> QED BY <1>4, <1>5, <4>1, <4>2
      <3>2. wire'[u][1].type = "header" => Len(wire'[u]) > 1 /\ wire'[u][2].type = "body"
        <4>1. CASE wire[u] = << >>
          BY <1>4, <1>5, <4>1
        <4>2. CASE wire[u] # << >>
          <5>1. Len(wire[u]) > 0
            BY <1>5, <4>2
          <5> QED BY <1>0, <1>5, <1>8, <4>2, <5>1 DEF Talk
        <4> QED BY <4>1, <4>2
      <3> QED BY <1>0, <3>1, <3>2 DEF Talk, Connected
    <2>2. UpTalk(u)'
      <3>1. \A i \in 1 .. Len(wire'[u]) : i \in 1 .. Len(wire[u]) \/ i = Len(wire[u]) + 1
        BY <1>5
      <3>2. u \in uploading => \A i \in 1 .. Len(wire'[u]) : wire'[u][i].type \notin Asks
        BY <1>4, <1>5, <1>8, <3>1 DEF UpTalk, Asks
      <3>3. wire[u] # << >> => wire'[u][1] = wire[u][1]
        BY <1>5
      <3> QED BY <1>0, <1>5, <1>8, <3>2, <3>3 DEF UpTalk
    <2> QED BY <1>0, <1>5, <2>1, <2>2, ConnAssumption, TalkOthers DEF StoreInv
  <1>10. ReadySound'
    BY <1>0 DEF StoreInv, ReadySound
  <1>11. UploadSound'
    <2>1. u \notin unopened =>
            IsChain(wire'[u], received[u] + Len(pend[u]), sent[u] + n)
      <3>1. received[u] + Len(pend[u]) \in Nat
        BY <1>0 DEF TypeOK
      <3> QED BY <1>2, <1>4, <1>5, <1>8, <3>1, ChainData DEF Stored
    <2>2. Stored(u)'
      BY <1>0, <1>1, <1>2, <1>6, <1>8, <2>1 DEF Stored
    <2> QED BY <1>0, <1>5, <1>6, <2>2, UploadOthers DEF StoreInv, Conn
  <1>12. DownSound' /\ SendSound'
    <2>1. \A d \in Down : wire'[d] = wire[d]
      BY <1>5, ConnAssumption DEF Conn
    <2> QED BY <1>0, <2>1 DEF StoreInv, DownSound, Unserved, SendSound, LastGot
  <1> QED BY <1>7, <1>9, <1>10, <1>11, <1>12 DEF StoreInv

(* The command that ends an upload. *)
LEMMA StoreSendFinish ==
  ASSUME StoreInv, NEW u \in Up, SendFinish(u)
  PROVE  StoreInv'
  <1> USE DEF connVars, fileVars, replyVars, sendVars, serverVars
  <1>0. /\ phase[u] = "asked" /\ Connected(u) /\ u \in Conn /\ sent[u] = size[u]
        /\ phase' = [phase EXCEPT ![u] = "finished"]
        /\ UNCHANGED <<alive, connVars, fileVars, pend, replyVars, pc, ready,
                       sendVars, size, sent, wants, after, gone, stalled>>
        /\ TypeOK
    BY DEF SendFinish, StoreInv, Conn
  <1> DEFINE m == Message("finish")
  <1>1. m \in Record /\ m.type = "finish" /\ Arrive(u, m)
    BY MessageType DEF SendFinish
  <1> HIDE DEF m
  <1>2. /\ wire' \in [Conn -> Seq(Record)] /\ part' \subseteq Conn
        /\ \A x \in Conn : x # u => wire'[x] = wire[x]
        /\ wire[u] \in Seq(Record) /\ Len(wire[u]) \in Nat
        /\ wire'[u] = Append(wire[u], m) /\ wire'[u] # << >>
        /\ Len(wire'[u]) = Len(wire[u]) + 1
        /\ \A i \in 1 .. Len(wire[u]) : wire'[u][i] = wire[u][i]
        /\ wire'[u][Len(wire[u]) + 1] = m
    BY <1>0, <1>1, ArriveWire
  <1>3. /\ phase' \in [Conn -> {"idle", "begun", "header", "asked", "finished"}]
        /\ \A x \in Conn : x # u => phase'[x] = phase[x]
        /\ phase'[u] = "finished"
    BY <1>0 DEF TypeOK
  <1>4. TypeOK'
    BY <1>0, <1>2, <1>3 DEF TypeOK
  <1>5. Talk(u) /\ UpTalk(u) /\ Stored(u)
    BY <1>0 DEF StoreInv, TalkSound, UploadSound
  <1>6. TalkSound'
    <2>1. Talk(u)'
      <3>1. \A i \in 1 .. Len(wire'[u]) :
              /\ wire'[u][i].type \in {"request", "header"} => i = 1
              /\ wire'[u][i].type = "body" => i = 2 /\ wire'[u][1].type = "header"
              /\ wire'[u][i].type = "finish" => i = Len(wire'[u])
        <4>1. ASSUME NEW i \in 1 .. Len(wire[u])
              PROVE  /\ wire'[u][i].type \in {"request", "header"} => i = 1
                     /\ wire'[u][i].type = "body" => i = 2 /\ wire'[u][1].type = "header"
                     /\ wire'[u][i].type # "finish"
          <5>1. 1 \in 1 .. Len(wire[u])
            BY <1>2
          <5> QED BY <1>0, <1>2, <1>5, <5>1 DEF Talk
        <4>2. \A i \in 1 .. Len(wire'[u]) : i \in 1 .. Len(wire[u]) \/ i = Len(wire'[u])
          BY <1>2
        <4> QED BY <1>1, <1>2, <4>1, <4>2
      <3>2. wire'[u][1].type = "header" => Len(wire'[u]) > 1 /\ wire'[u][2].type = "body"
        <4>1. CASE wire[u] = << >>
          BY <1>1, <1>2, <4>1
        <4>2. CASE wire[u] # << >>
          <5>1. Len(wire[u]) > 0
            BY <1>2, <4>2
          <5> QED BY <1>0, <1>2, <1>5, <4>2, <5>1 DEF Talk
        <4> QED BY <4>1, <4>2
      <3> QED BY <1>0, <1>2, <1>3, <3>1, <3>2 DEF Talk, Connected
    <2>2. UpTalk(u)'
      <3>1. \A i \in 1 .. Len(wire'[u]) : i \in 1 .. Len(wire[u]) \/ i = Len(wire[u]) + 1
        BY <1>2
      <3>2. u \in uploading => \A i \in 1 .. Len(wire'[u]) : wire'[u][i].type \notin Asks
        BY <1>1, <1>2, <1>5, <3>1 DEF UpTalk, Asks
      <3>3. wire[u] # << >> => wire'[u][1] = wire[u][1]
        BY <1>2
      <3> QED BY <1>0, <1>2, <1>3, <1>5, <3>2, <3>3 DEF UpTalk
    <2> QED BY <1>0, <1>2, <1>3, <2>1, <2>2, ConnAssumption, TalkOthers
        DEF StoreInv
  <1>7. ReadySound'
    <2>1. phase[u] # "idle" /\ phase'[u] # "idle"
      BY <1>0, <1>3
    <2> QED BY <1>0, <1>3, <2>1 DEF StoreInv, ReadySound, TypeOK
  <1>8. UploadSound'
    <2>1. u \notin unopened =>
            IsChain(wire'[u], received[u] + Len(pend[u]), sent[u])
      <3>1. received[u] + Len(pend[u]) \in Nat /\ sent[u] \in Nat
        BY <1>0 DEF TypeOK
      <3> QED BY <1>1, <1>2, <1>5, <3>1, ChainOther DEF Stored
    <2>2. Stored(u)'
      BY <1>0, <1>3, <1>5, <2>1 DEF Stored
    <2> QED BY <1>0, <1>2, <1>3, <2>2, UploadOthers DEF StoreInv, Conn
  <1>9. DownSound' /\ SendSound'
    <2>1. \A d \in Down : wire'[d] = wire[d] /\ phase'[d] = phase[d]
      BY <1>2, <1>3, ConnAssumption DEF Conn
    <2> QED BY <1>0, <2>1 DEF StoreInv, DownSound, Unserved, SendSound, LastGot
  <1> QED BY <1>4, <1>6, <1>7, <1>8, <1>9 DEF StoreInv

(* The walk that closes a connection: the file is then whole on disk. *)
LEMMA StoreClose ==
  ASSUME StoreInv, NEW c \in Conn, Close(c)
  PROVE  StoreInv'
  <1> USE DEF netVars, clientVars, replyVars, sendVars
  <1>0. /\ pc = "build" /\ c \in closing /\ state[c] = "open"
        /\ UNCHANGED <<alive, closing, uploading, received, unopened, netVars,
                       clientVars, replyVars, pc, ready, sendVars>>
        /\ state' \in [Conn -> {"new", "open", "closed"}] /\ state'[c] = "closed"
        /\ \A x \in Conn : x # c => state'[x] = state[x]
        /\ TypeOK
    BY DEF Close, StoreInv, TypeOK
  <1>1. /\ disk' \in [Up -> Seq(Nat)] /\ buffer' \in [Up -> Seq(Nat)]
        /\ \A x \in Up : x # c => disk'[x] = disk[x] /\ buffer'[x] = buffer[x]
        /\ c \in Up => disk'[c] = disk[c] \o buffer[c] /\ buffer'[c] = << >>
    <2>1. CASE c \in Down
      BY <1>0, <2>1, ConnAssumption DEF Close, fileVars, TypeOK
    <2>2. CASE c \in Up
      <3>1. /\ disk' = [disk EXCEPT ![c] = disk[c] \o buffer[c]]
            /\ buffer' = [buffer EXCEPT ![c] = << >>]
        BY <2>2, ConnAssumption DEF Close, Flushed
      <3>2. disk[c] \in Seq(Nat) /\ buffer[c] \in Seq(Nat)
        BY <1>0, <2>2 DEF TypeOK
      <3>3. disk[c] \o buffer[c] \in Seq(Nat) /\ << >> \in Seq(Nat)
        BY <3>2, JoinedElements
      <3> QED BY <1>0, <2>2, <3>1, <3>3 DEF TypeOK
    <2> QED BY <2>1, <2>2 DEF Conn
  <1>2. TypeOK'
    BY <1>0, <1>1 DEF TypeOK
  <1>3. TalkSound'
    <2>1. Talk(c)' /\ (c \in Up => UpTalk(c)') /\ (c \in Down => DownTalk(c)')
      BY <1>0 DEF StoreInv, TalkSound, Talk, UpTalk, DownTalk
    <2> QED BY <1>0, <2>1, TalkOthers DEF StoreInv
  <1>4. ReadySound'
    BY <1>0 DEF StoreInv, ReadySound
  <1>5. UploadSound'
    <2>1. ASSUME c \in Up
          PROVE  Stored(c)'
      <3>1. Stored(c)
        BY <2>1 DEF StoreInv, UploadSound
      <3>2. disk[c] \o buffer[c] \in Seq(Nat)
        BY <1>0, <2>1, JoinedElements DEF TypeOK
      <3>3. (disk[c] \o buffer[c]) \o << >> = disk[c] \o buffer[c]
        BY <3>2, ConcatEmptySeq
      <3> QED BY <1>0, <1>1, <2>1, <3>1, <3>3 DEF Stored
    <2> QED BY <1>0, <1>1, <2>1, UploadOthers DEF StoreInv, Conn
  <1>6. DownSound' /\ SendSound'
    BY <1>0 DEF StoreInv, DownSound, Unserved, SendSound, LastGot
  <1> QED BY <1>2, <1>3, <1>4, <1>5, <1>6 DEF StoreInv

(* A step of the thread between its calls. *)
LEMMA StoreWalk ==
  ASSUME StoreInv, TypeOK', ReadySound',
         UNCHANGED <<connVars, fileVars, wire, pend, clientVars, replyVars,
                     sendVars>>,
         pc # "send", pc' # "send"
  PROVE  StoreInv'
  <1> USE DEF connVars, fileVars, clientVars, replyVars, sendVars
  <1>1. TalkSound'
    BY DEF StoreInv, TalkSound, Talk, UpTalk, DownTalk
  <1>2. UploadSound'
    BY DEF StoreInv, UploadSound, Stored
  <1>3. DownSound' /\ SendSound'
    BY DEF StoreInv, DownSound, Unserved, SendSound, LastGot
  <1> QED BY <1>1, <1>2, <1>3 DEF StoreInv

(* select(): the walk before it has closed every upload that was            *)
(* acknowledged.                                                            *)
LEMMA StoreSelect ==
  ASSUME StoreInv, PartSound, Select
  PROVE  StoreInv'
  <1> USE DEF connVars, fileVars, netVars, clientVars, replyVars, sendVars
  <1>0. /\ pc = "build" /\ pc' = "read" /\ Walked
        /\ ready' = {c \in Conn : state[c] = "open" /\ Readable(c)}
        /\ UNCHANGED <<alive, connVars, fileVars, netVars, clientVars, replyVars,
                       sendVars>>
        /\ TypeOK
    BY DEF Select, StoreInv
  <1>1. TypeOK'
    BY <1>0 DEF TypeOK
  <1>2. ReadySound'
    <2>1. ready' \cap closing' = {}
      BY <1>0 DEF Walked
    <2>2. ASSUME NEW c \in ready', phase[c] = "idle"
          PROVE  c \in gone
      BY <1>0, <2>2 DEF Readable, StoreInv, TalkSound, Talk, PartSound
    <2>3. ASSUME NEW c \in Down, after[c]
          PROVE  state[wants[c]] = "closed"
      <3>1. wants[c] \in acked
        BY <2>3 DEF StoreInv, TalkSound, DownTalk
      <3>2. wants[c] \in closing /\ wants[c] \in Conn
        BY <1>0, <3>1 DEF StoreInv, ReadySound, TypeOK
      <3>3. state[wants[c]] # "open" /\ state[wants[c]] # "new"
        BY <1>0, <3>2 DEF Walked, StoreInv, TalkSound, Talk
      <3> QED BY <1>0, <3>2, <3>3 DEF TypeOK
    <2>4. acked' \subseteq closing' /\ (pc' = "send" <=> cur' # Nobody)
      BY <1>0 DEF StoreInv, ReadySound
    <2>5. \A c \in ready' : state'[c] = "open"
      BY <1>0
    <2> QED BY <1>0, <2>1, <2>2, <2>3, <2>4, <2>5 DEF ReadySound
  <1> QED BY <1>0, <1>1, <1>2, StoreWalk

(* The end of the calls, a call that reads nothing. *)
LEMMA StoreNothing ==
  ASSUME StoreInv,
         \/ ReadEnd
         \/ \E c \in Conn : NoRequest(c)
         \/ \E u \in Up : ReadNothing(u)
  PROVE  StoreInv'
  <1> USE DEF connVars, fileVars, netVars, clientVars, replyVars, sendVars
  <1>0. /\ pc = "read" /\ pc' \in {"build", "read"} /\ ready' \subseteq ready
        /\ pc' = "build" => ready' = {}
        /\ UNCHANGED <<alive, connVars, fileVars, wire, pend, clientVars,
                       replyVars, sendVars>>
        /\ part' \subseteq part /\ TypeOK
    BY DEF ReadEnd, NoRequest, ReadNothing, ReadPart, WriteData, Handles, Handled,
       StoreInv
  <1>1. TypeOK'
    BY <1>0 DEF TypeOK
  <1>2. ReadySound'
    BY <1>0 DEF StoreInv, ReadySound
  <1> QED BY <1>0, <1>1, <1>2, StoreWalk

(* What is left of the socket when a request has been read. *)
LEMMA RequestRead ==
  ASSUME StoreInv, NEW c \in Conn, AtRequest(c), Whole(c), Requested(c)
  PROVE  /\ wire' \in [Conn -> Seq(Record)]
         /\ \A x \in Conn : x # c => wire'[x] = wire[x]
         /\ phase[c] \in {"asked", "finished"} /\ state[c] = "open"
         /\ wire'[c] \in Seq(Record)
         /\ \A i \in 1 .. Len(wire'[c]) :
              /\ wire'[c][i].type \notin Asks
              /\ wire'[c][i].type = "finish" =>
                   phase[c] = "finished" /\ i = Len(wire'[c])
         /\ c \in Down => wire'[c] = << >>
         /\ Last(wire[c]).type = "finish" =>
              wire'[c] # << >> /\ Last(wire'[c]).type = "finish"
         /\ \A first, last \in Nat :
              IsChain(wire[c], first, last) => IsChain(wire'[c], first, last)
  <1> DEFINE w == wire[c]
             x == IF Head(w).type = "request" THEN Tail(w) ELSE Tail(Tail(w))
  <1>1. /\ w \in Seq(Record) /\ w # << >> /\ c \notin uploading /\ c \in ready
        /\ wire \in [Conn -> Seq(Record)]
        /\ phase[c] \in {"idle", "begun", "header", "asked", "finished"}
        /\ Head(w).type = "request" \/ Len(w) > 1
    BY DEF AtRequest, Handles, Whole, StoreInv, TypeOK
  <1>2. /\ Len(w) \in Nat \ {0} /\ Head(w) = w[1] /\ 1 \in 1 .. Len(w)
        /\ Tail(w) \in Seq(Record) /\ Len(Tail(w)) = Len(w) - 1
        /\ \A i \in 1 .. Len(w) - 1 : Tail(w)[i] = w[i + 1]
    BY <1>1
  <1>3. Talk(c) /\ (c \in Up => UpTalk(c)) /\ (c \in Down => DownTalk(c))
    BY DEF StoreInv, TalkSound
  <1>4. c \notin closing /\ state[c] = "open"
    BY <1>1 DEF StoreInv, ReadySound
  <1>5. phase[c] \notin {"idle", "begun", "header"}
    <2>1. /\ phase[c] \in {"idle", "begun"} => w = << >>
          /\ phase[c] = "header" => Len(w) = 1 /\ w[1].type = "header"
      BY <1>3 DEF Talk
    <2>2. ASSUME Len(w) = 1, w[1].type = "header" PROVE FALSE
      <3>1. Head(w).type = "header"
        BY <1>2, <2>2
      <3>2. ~(Len(w) > 1)
        BY <2>2
      <3> QED BY <1>1, <3>1, <3>2
    <2> QED BY <1>1, <2>1, <2>2
  <1>6. w[1].type \in {"request", "header"}
    <2>1. CASE c \in Up
      BY <1>1, <1>3, <1>4, <1>5, <2>1 DEF UpTalk
    <2>2. CASE c \in Down
      <3>1. w[1].type \in Asks
        BY <1>2, <1>3, <2>2 DEF DownTalk
      <3>2. w[1].type # "body"
        BY <1>2, <1>3 DEF Talk
      <3> QED BY <3>1, <3>2 DEF Asks
    <2> QED BY <2>1, <2>2 DEF Conn
  <1>7. PICK k \in {1, 2} :
          /\ x \in Seq(Record) /\ Len(x) = Len(w) - k
          /\ \A i \in 1 .. Len(w) - k : x[i] = w[i + k]
          /\ k = 1 => w[1].type = "request"
          /\ k = 2 => Len(w) > 1 /\ w[2].type = "body"
    <2>1. CASE w[1].type = "request"
      BY <1>2, <2>1
    <2>2. CASE w[1].type # "request"
      <3>0. Head(w).type # "request" /\ x = Tail(Tail(w))
        BY <1>2, <2>2
      <3>1. Len(w) > 1
        BY <1>1, <3>0
      <3> DEFINE y == Tail(w)
      <3>4. /\ y \in Seq(Record) /\ Len(y) = Len(w) - 1 /\ y # << >>
            /\ x = Tail(y) /\ Len(w) \in Nat
        <4>1. x = Tail(y)
          BY <3>0
        <4>2. y \in Seq(Record) /\ Len(y) = Len(w) - 1 /\ Len(w) \in Nat
          BY <1>2
        <4> HIDE DEF x, y, w
        <4>3. Len(y) # 0 /\ Len(<< >>) = 0
          BY <3>1, <4>2, SMTT(30)
        <4> QED BY <4>1, <4>2, <4>3
      <3> HIDE DEF y, x, w
      <3>5. /\ x \in Seq(Record) /\ Len(x) = Len(y) - 1
            /\ \A i \in 1 .. Len(y) - 1 : x[i] = y[i + 1]
        BY <3>4
      <3>2. /\ x \in Seq(Record) /\ Len(x) = Len(w) - 2
            /\ \A i \in 1 .. Len(w) - 2 : x[i] = Tail(w)[i + 1]
        <4>1. (Len(w) - 1) - 1 = Len(w) - 2
          BY <3>4
        <4>2. Len(y) - 1 = Len(w) - 2
          BY <3>4, <4>1
        <4> QED BY <3>5, <4>2 DEF y
      <3>3. \A i \in 1 .. Len(w) - 2 : Tail(w)[i + 1] = w[i + 2]
        BY <1>2
      <3>6. Len(w) > 1 /\ w[2].type = "body"
        BY <1>1, <1>3, <1>5, <1>6, <2>2 DEF Talk, w
      <3> QED BY <3>2, <3>3, <3>6
    <2> QED BY <2>1, <2>2
  <1>8. \A first, last \in Nat : IsChain(w, first, last) => IsChain(x, first, last)
    <2> SUFFICES ASSUME NEW first \in Nat, NEW last \in Nat, IsChain(w, first, last)
                 PROVE  IsChain(x, first, last)
      OBVIOUS
    <2>1. IsChain(Tail(w), first, last)
      BY <1>1, <1>2, <1>6, ChainTail
    <2>2. ASSUME w[1].type # "request"
          PROVE  IsChain(Tail(Tail(w)), first, last)
      <3>1. Len(w) > 1 /\ Tail(w) # << >> /\ Head(Tail(w)) = w[2]
        <4>1. Len(w) > 1
          BY <1>1, <1>2, <2>2
        <4> DEFINE y == Tail(w)
        <4>2. y \in Seq(Record) /\ Len(y) # 0 /\ y[1] = w[2]
          BY <1>2, <4>1
        <4> HIDE DEF y
        <4>3. y # << >> /\ Head(y) = w[2]
          BY <4>2
        <4> QED BY <4>1, <4>3 DEF y
      <3>2. w[2].type = "body"
        BY <1>1, <1>2, <1>3, <1>5, <1>6, <2>2 DEF Talk
      <3> QED BY <1>2, <2>1, <3>1, <3>2, ChainTail
    <2> QED BY <1>2, <2>1, <2>2
  <1>9. wire' = [wire EXCEPT ![c] = x]
    BY DEF Requested
  <1> HIDE DEF x
  <1>10. /\ wire' \in [Conn -> Seq(Record)] /\ wire'[c] = x
         /\ \A y \in Conn : y # c => wire'[y] = wire[y]
    BY <1>1, <1>7, <1>9
  <1>11. ASSUME NEW i \in 1 .. Len(x)
         PROVE  /\ x[i].type \notin Asks
                /\ x[i].type = "finish" => phase[c] = "finished" /\ i = Len(x)
    <2>1. i + k \in 1 .. Len(w) /\ i + k # 1 /\ x[i] = w[i + k]
          /\ (i + k = Len(w) => i = Len(x)) /\ (i + k = 2 => k = 1)
      <3>1. PICK n \in Nat : n = Len(w) /\ Len(x) = n - k
        BY <1>2, <1>7
      <3>2. /\ i + k \in 1 .. n /\ i + k # 1
            /\ (i + k = n => i = Len(x)) /\ (i + k = 2 => k = 1)
        BY <3>1
      <3>3. i \in 1 .. Len(w) - k
        BY <3>1
      <3> QED BY <1>7, <3>1, <3>2, <3>3
    <2> QED BY <1>3, <1>7, <2>1 DEF Talk, Asks
  <1>12. c \in Down => x = << >>
    <2> SUFFICES ASSUME c \in Down, x # << >> PROVE FALSE
      OBVIOUS
    <2>1. 1 \in 1 .. Len(x) /\ 1 + k \in 1 .. Len(w) /\ x[1] = w[1 + k]
      BY <1>2, <1>7
    <2> QED BY <1>3, <1>11, <2>1 DEF DownTalk
  <1>13. w[Len(w)].type = "finish" => x # << >> /\ x[Len(x)].type = "finish"
    <2> SUFFICES ASSUME w[Len(w)].type = "finish"
                 PROVE  x # << >> /\ x[Len(x)].type = "finish"
      OBVIOUS
    <2>1. Len(w) > k
      <3>1. k = 1 => Len(w) # 1
        BY <1>7
      <3>2. k = 2 => Len(w) > 1 /\ Len(w) # 2
        BY <1>7
      <3>3. PICK n \in Nat \ {0} : n = Len(w)
        BY <1>2
      <3>4. /\ k \in {1, 2}
            /\ k = 1 => n # 1
            /\ k = 2 => n > 1 /\ n # 2
        BY <1>7, <3>1, <3>2, <3>3
      <3>5. n > k
        BY <3>4
      <3> QED BY <3>3, <3>5
    <2>2. Len(w) - k \in 1 .. Len(w) - k /\ Len(w) - k + k = Len(w) /\ Len(x) # 0
      BY <1>2, <1>7, <2>1
    <2>3. x[Len(x)] = w[Len(w)]
      <3>1. x[Len(w) - k] = w[Len(w) - k + k]
        BY <1>7, <2>2
      <3> QED BY <1>7, <2>2, <3>1
    <2> QED BY <2>2, <2>3
  <1>14. Last(w) = w[Len(w)] /\ Last(x) = x[Len(x)]
    BY DEF Last
  <1> HIDE DEF w
  <1>15. w = wire[c]
    BY DEF w
  <1> QED BY <1>1, <1>4, <1>5, <1>7, <1>8, <1>10, <1>11, <1>12, <1>13, <1>14, <1>15

(* What every reading of a request keeps. *)
LEMMA StoreRequest ==
  ASSUME StoreInv, NEW c \in Conn, AtRequest(c), Whole(c), Requested(c),
         UNCHANGED <<state, received, fileVars, pend, clientVars, replyVars>>,
         closing \subseteq closing', closing' \subseteq closing \cup {c},
         uploading \subseteq uploading', uploading' \subseteq uploading \cup {c},
         unopened \subseteq unopened', unopened' \subseteq unopened \cup {c},
         c \in Up => c \in uploading' \cup closing',
         cur' \in {c, cur}
  PROVE  TalkSound' /\ UploadSound' /\ DownSound'
  <1> USE DEF fileVars, clientVars, replyVars
  <1>1. /\ wire' \in [Conn -> Seq(Record)]
        /\ \A x \in Conn : x # c => wire'[x] = wire[x]
        /\ phase[c] \in {"asked", "finished"} /\ state[c] = "open"
        /\ wire'[c] \in Seq(Record)
        /\ \A i \in 1 .. Len(wire'[c]) :
             /\ wire'[c][i].type \notin Asks
             /\ wire'[c][i].type = "finish" =>
                  phase[c] = "finished" /\ i = Len(wire'[c])
        /\ c \in Down => wire'[c] = << >>
        /\ \A first, last \in Nat :
             IsChain(wire[c], first, last) => IsChain(wire'[c], first, last)
    BY RequestRead
  <1>2. TalkSound'
    <2>1. Talk(c)'
      <3>1. wire'[c] # << >> => 1 \in 1 .. Len(wire'[c])
        BY <1>1
      <3> QED BY <1>1, <3>1 DEF Talk, Asks
    <2>2. c \in Up => UpTalk(c)'
      BY <1>1 DEF UpTalk
    <2>3. c \in Down => DownTalk(c)'
      <3>1. Len(<< >>) = 0 /\ 1 .. 0 = {}
        OBVIOUS
      <3> QED BY <1>1, <3>1 DEF DownTalk, StoreInv, TalkSound
    <2> QED BY <1>1, <2>1, <2>2, <2>3, TalkOthers DEF StoreInv
  <1>3. UploadSound'
    <2>1. ASSUME c \in Up
          PROVE  Stored(c)'
      <3>1. Stored(c)
        BY <2>1 DEF StoreInv, UploadSound
      <3>2. received[c] + Len(pend[c]) \in Nat /\ sent[c] \in Nat
        BY <2>1 DEF StoreInv, TypeOK
      <3> QED BY <1>1, <2>1, <3>1, <3>2 DEF Stored
    <2> QED BY <1>1, <2>1, UploadOthers DEF StoreInv, Conn
  <1>4. DownSound'
    <2>1. ASSUME NEW d \in Down
          PROVE  Unserved(d)'
      <3>1. Unserved(d) /\ d \in Conn
        BY DEF StoreInv, DownSound, Conn
      <3> QED BY <1>1, <3>1 DEF Unserved
    <2> QED BY <2>1 DEF DownSound
  <1> QED BY <1>2, <1>3, <1>4

(* A request with a token that is not known. *)
LEMMA StoreRefuse ==
  ASSUME StoreInv, NEW c \in Conn, Refuse(c)
  PROVE  StoreInv'
  <1> USE DEF fileVars, clientVars, replyVars, sendVars
  <1>0. /\ AtRequest(c) /\ Whole(c) /\ Requested(c) /\ closing' = closing \cup {c}
        /\ ready' = ready \ {c} /\ pc = "read"
        /\ UNCHANGED <<alive, state, uploading, received, unopened, fileVars, pend,
                       part, clientVars, replyVars, pc, sendVars>>
        /\ TypeOK
    BY DEF Refuse, AtRequest, Handles, Handled, StoreInv
  <1>1. wire' \in [Conn -> Seq(Record)]
    BY <1>0, RequestRead
  <1>2. TypeOK'
    BY <1>0, <1>1 DEF TypeOK
  <1>3. TalkSound' /\ UploadSound' /\ DownSound'
    BY <1>0, StoreRequest
  <1>4. ReadySound'
    BY <1>0 DEF StoreInv, ReadySound
  <1>5. SendSound'
    BY <1>0 DEF StoreInv, SendSound, LastGot
  <1> QED BY <1>2, <1>3, <1>4, <1>5 DEF StoreInv

(* The request of an upload. *)
LEMMA StoreStartUpload ==
  ASSUME StoreInv, NEW u \in Up, StartUpload(u)
  PROVE  StoreInv'
  <1> USE DEF fileVars, clientVars, replyVars, sendVars
  <1>1. CASE Die
    BY <1>1, StoreQuiet
  <1>2. CASE ~Die
    <2>0. /\ AtRequest(u) /\ Whole(u) /\ Requested(u) /\ u \in Conn
          /\ uploading' = uploading \cup {u}
          /\ unopened \subseteq unopened' /\ unopened' \subseteq unopened \cup {u}
          /\ ready' = ready \ {u} /\ pc = "read"
          /\ UNCHANGED <<alive, state, closing, received, fileVars, pend,
                         part, clientVars, replyVars, pc, sendVars>>
          /\ TypeOK
      BY <1>2 DEF StartUpload, AtRequest, Handles, Handled, StoreInv, Conn
    <2>1. wire' \in [Conn -> Seq(Record)]
      BY <2>0, RequestRead
    <2>2. TypeOK'
      BY <2>0, <2>1 DEF TypeOK
    <2>3. TalkSound' /\ UploadSound' /\ DownSound'
      BY <2>0, StoreRequest
    <2>4. ReadySound'
      BY <2>0 DEF StoreInv, ReadySound
    <2>5. SendSound'
      BY <2>0 DEF StoreInv, SendSound, LastGot
    <2> QED BY <2>2, <2>3, <2>4, <2>5 DEF StoreInv
  <1> QED BY <1>1, <1>2

(* The beginning of a file. *)
LEMMA BytesPrefix ==
  ASSUME NEW n \in Nat, NEW a \in Seq(Nat), NEW b \in Seq(Nat),
         a \o b = Bytes(1, n)
  PROVE  a = Bytes(1, Len(a)) /\ Len(a) <= n /\ (b = << >> => Len(a) = n)
  <1> DEFINE x == Bytes(1, n)
  <1>1. /\ x \in Seq(Nat) /\ Len(x) = n - 1 + 1
        /\ \A i \in 1 .. n - 1 + 1 : x[i] = 1 + i - 1
    <2>1. 1 \in Nat /\ 1 <= n + 1
      OBVIOUS
    <2> QED BY <2>1, BytesElements
  <1> HIDE DEF x
  <1>2. /\ Len(x) = n /\ \A i \in 1 .. n : x[i] = i
    BY <1>1
  <1>3. /\ Len(x) = Len(a) + Len(b)
        /\ \A i \in 1 .. Len(a) : x[i] = a[i]
    <2>1. a \o b = x
      BY DEF x
    <2> QED BY <2>1, JoinedElements
  <1>4. /\ Len(a) \in Nat /\ Len(b) \in Nat /\ Len(a) <= n
    BY <1>2, <1>3
  <1>5. \A i \in 1 .. Len(a) : a[i] = i
    BY <1>2, <1>3, <1>4
  <1>6. /\ 1 <= Len(a) + 1 /\ Len(a) = Len(a) - 1 + 1
        /\ \A i \in 1 .. Len(a) - 1 + 1 : a[i] = 1 + i - 1
    BY <1>4, <1>5
  <1>7. a = Bytes(1, Len(a))
    BY <1>4, <1>6, BytesUnique
  <1>8. b = << >> => Len(a) = n
    BY <1>2, <1>3, <1>4
  <1> QED BY <1>4, <1>7, <1>8

(* What a download is going to be sent: a part of the file from its         *)
(* beginning, and the whole file when the request came after the            *)
(* acknowledgement of the upload.                                           *)
LEMMA ServedFile ==
  ASSUME StoreInv, NEW d \in Down, AtRequest(d), Whole(d)
  PROVE  /\ wants[d] \in Up /\ got[d] = << >> /\ d \notin ended
         /\ disk[wants[d]] \in Seq(Nat)
         /\ disk[wants[d]] = Bytes(1, Len(disk[wants[d]]))
         /\ Len(disk[wants[d]]) <= size[wants[d]]
         /\ after[d] => Len(disk[wants[d]]) = size[wants[d]]
  <1>1. /\ d \in ready /\ wire[d] # << >> /\ d \in Conn /\ TypeOK
        /\ state[d] = "open" /\ phase[d] = "idle" => d \in gone
    BY DEF AtRequest, Handles, StoreInv, ReadySound, Conn
  <1>2. phase[d] # "idle" /\ got[d] = << >> /\ d \notin ended
    BY <1>1 DEF StoreInv, TalkSound, Talk, DownSound, Unserved
  <1>3. wants[d] \in Up
    <2>1. wants[d] # Nobody
      BY <1>2 DEF StoreInv, TalkSound, DownTalk
    <2> QED BY <1>1, <2>1 DEF TypeOK
  <1> DEFINE u == wants[d]
  <1>4. /\ Stored(u) /\ disk[u] \in Seq(Nat) /\ buffer[u] \in Seq(Nat)
        /\ received[u] \in Nat /\ size[u] \in Nat /\ received[u] <= size[u]
    BY <1>1, <1>3 DEF StoreInv, UploadSound, TypeOK
  <1>5. after[d] => u \in acked /\ state[u] = "closed"
    BY <1>1 DEF StoreInv, TalkSound, DownTalk, ReadySound
  <1> HIDE DEF u
  <1>6. /\ disk[u] = Bytes(1, Len(disk[u])) /\ Len(disk[u]) <= received[u]
        /\ buffer[u] = << >> => Len(disk[u]) = received[u]
    BY <1>4, BytesPrefix DEF Stored
  <1>7. after[d] => Len(disk[u]) = size[u]
    BY <1>4, <1>5, <1>6 DEF Stored
  <1>8. Len(disk[u]) <= size[u]
    <2>1. Len(disk[u]) \in Nat
      BY <1>4
    <2> QED BY <1>4, <1>6, <2>1
  <1> QED BY <1>2, <1>3, <1>4, <1>6, <1>7, <1>8 DEF u

(* The request of a download. *)
LEMMA StoreStartDownload ==
  ASSUME StoreInv, NEW d \in Down, StartDownload(d)
  PROVE  StoreInv'
  <1> USE DEF fileVars, clientVars, connVars, replyVars
  <1>1. CASE Die
    BY <1>1, StoreQuiet
  <1>2. CASE ~Die
    <2>0. /\ AtRequest(d) /\ Whole(d) /\ Requested(d) /\ d \in Conn
          /\ d # Nobody /\ d \notin Up
          /\ cur' = d /\ src' = disk[wants[d]] /\ next' = 1
          /\ pc = "read" /\ pc' = "send"
          /\ UNCHANGED <<alive, connVars, fileVars, pend, part, clientVars,
                         replyVars, ready, stuck>>
          /\ TypeOK
      BY <1>2, ConnAssumption
         DEF StartDownload, AtRequest, Handles, Handled, StoreInv, Conn
    <2>1. wire' \in [Conn -> Seq(Record)]
      BY <2>0, RequestRead
    <2>2. /\ got[d] = << >> /\ src' \in Seq(Nat) /\ src' = Bytes(1, Len(src'))
      BY <2>0, ServedFile
    <2>3. TypeOK'
      <3>1. /\ cur' \in Down \cup {Nobody} /\ next' \in Nat \ {0}
            /\ pc' \in {"build", "read", "send"}
        BY <2>0
      <3>2. UNCHANGED <<alive, connVars, fileVars, pend, part, clientVars,
                        replyVars, ready, stuck>>
        BY <2>0
      <3> QED BY <2>0, <2>1, <2>2, <3>1, <3>2 DEF TypeOK
    <2>4. TalkSound' /\ UploadSound' /\ DownSound'
      BY <2>0, StoreRequest
    <2>5. ReadySound'
      BY <2>0 DEF StoreInv, ReadySound
    <2>6. SendSound'
      <3>1. LastGot' = 0
        BY <2>0, <2>2 DEF LastGot
      <3>2. (next' - 1) * Buffer = 0
        BY <2>0, SizesAssumption
      <3>3. stuck' = << >>
        BY <2>0 DEF StoreInv, SendSound
      <3> QED BY <2>0, <2>2, <3>1, <3>2, <3>3 DEF SendSound
    <2> QED BY <2>3, <2>4, <2>5, <2>6 DEF StoreInv
  <1> QED BY <1>1, <1>2

(* A call that leaves the socket of an upload as it is or takes a record    *)
(* from it.                                                                 *)
LEMMA UploadTalk ==
  ASSUME StoreInv, NEW u \in Up, u \in uploading, u \in ready,
         wire' \in [Conn -> Seq(Record)],
         \A x \in Conn : x # u => wire'[x] = wire[x],
         wire[u] = << >> => wire'[u] = << >>,
         wire[u] # << >> => wire'[u] \in {wire[u], Tail(wire[u])},
         UNCHANGED <<phase, state, uploading, wants, after>>,
         closing \subseteq closing', closing' \subseteq closing \cup {u},
         acked \subseteq acked'
  PROVE  TalkSound'
  <1>1. /\ u \in Conn /\ wire[u] \in Seq(Record) /\ Talk(u) /\ UpTalk(u)
        /\ state[u] = "open" /\ phase[u] \in {"asked", "finished"}
        /\ u \notin Down
    BY ConnAssumption DEF StoreInv, TypeOK, TalkSound, ReadySound, UpTalk, Conn
  <1>2. \A i \in 1 .. Len(wire[u]) :
          /\ wire[u][i].type \notin Asks
          /\ wire[u][i].type = "finish" =>
               phase[u] = "finished" /\ i = Len(wire[u])
    BY <1>1 DEF UpTalk, Talk
  <1>3. \A i \in 1 .. Len(wire'[u]) :
          /\ wire'[u][i].type \notin Asks
          /\ wire'[u][i].type = "finish" =>
               phase[u] = "finished" /\ i = Len(wire'[u])
    <2>1. CASE wire'[u] = wire[u]
      BY <1>2, <2>1
    <2>2. CASE wire[u] # << >> /\ wire'[u] = Tail(wire[u])
      <3> DEFINE w == wire[u]
                 x == wire'[u]
      <3>1. /\ Len(x) = Len(w) - 1 /\ Len(w) \in Nat
            /\ \A i \in 1 .. Len(w) - 1 : x[i] = w[i + 1]
        BY <1>1, <2>2
      <3> HIDE DEF w, x
      <3>2. ASSUME NEW i \in 1 .. Len(x)
            PROVE  /\ x[i] = w[i + 1] /\ i + 1 \in 1 .. Len(w)
                   /\ i + 1 = Len(w) => i = Len(x)
        BY <3>1
      <3>3. \A i \in 1 .. Len(w) :
              /\ w[i].type \notin Asks
              /\ w[i].type = "finish" => phase[u] = "finished" /\ i = Len(w)
        BY <1>2 DEF w
      <3>4. \A i \in 1 .. Len(x) :
              /\ x[i].type \notin Asks
              /\ x[i].type = "finish" => phase[u] = "finished" /\ i = Len(x)
        BY <3>2, <3>3
      <3> QED BY <3>4 DEF x
    <2> QED BY <2>1, <2>2
  <1>4. Talk(u)'
    <2>1. wire'[u] # << >> => 1 \in 1 .. Len(wire'[u])
      BY <1>1
    <2> QED BY <1>1, <1>3, <2>1 DEF Talk, Asks
  <1>5. UpTalk(u)'
    BY <1>1, <1>3 DEF UpTalk
  <1> QED BY <1>1, <1>4, <1>5, TalkOthers DEF StoreInv

(* When the command that ends the upload is the next record, everything has *)
(* been received: a block is taken from a record of data.                   *)
LEMMA DataNext ==
  ASSUME StoreInv, NEW u \in Up, WriteData(u), u \notin unopened,
         pend[u] = << >>, wire[u] # << >>
  PROVE  Head(wire[u]).type = "data"
  <1> DEFINE w == wire[u]
  <1>1. /\ u \in uploading /\ received[u] # size[u]
        /\ Stored(u) /\ Talk(u) /\ UpTalk(u) /\ u \in Conn
    BY DEF WriteData, AllReceived, StoreInv, UploadSound, TalkSound, Conn
  <1>2. /\ received[u] \in Nat /\ sent[u] \in Nat /\ w \in Seq(Record)
        /\ Len(pend[u]) = 0
    BY <1>1 DEF StoreInv, TypeOK
  <1>3. Head(w) = w[1] /\ Head(w) \in Record /\ 1 \in 1 .. Len(w)
    BY <1>2
  <1>4. IsChain(w, received[u], sent[u])
    <2>1. received[u] + Len(pend[u]) = received[u]
      BY <1>2
    <2> QED BY <1>1, <2>1 DEF Stored
  <1> SUFFICES ASSUME Head(w).type # "data" PROVE FALSE
    OBVIOUS
  <1>5. w[1].type = "finish"
    <2>1. w[1].type \in {"request", "header", "body", "data", "finish"}
      BY <1>3 DEF Record
    <2> QED BY <1>1, <1>3, <2>1 DEF UpTalk, Asks
  <1>6. phase[u] = "finished" /\ Len(w) = 1
    BY <1>1, <1>3, <1>5 DEF Talk
  <1>7. Tail(w) = << >>
    <2>1. Tail(w) \in Seq(Record) /\ Len(Tail(w)) = 0
      BY <1>2, <1>6
    <2> QED BY <2>1, EmptySeq
  <1>8. received[u] = sent[u]
    <2>1. PICK m \in received[u] .. sent[u] :
            IsChain(Tail(w), m, sent[u]) /\ m = received[u]
      BY <1>2, <1>4, ChainTail
    <2> QED BY <1>2, <1>7, <2>1, ChainEmpty
  <1> QED BY <1>1, <1>6, <1>8 DEF Stored

(* The record that SSL_read takes from continues what was received.         *)
LEMMA FromNext ==
  ASSUME StoreInv, NEW u \in Up, WriteData(u), pend[u] # << >> \/ wire[u] # << >>
  PROVE  /\ From(u) \in Seq(Nat) /\ received[u] \in Nat
         /\ u \notin unopened =>
              /\ From(u) = Bytes(received[u] + 1, received[u] + Len(From(u)))
              /\ IsChain(IF pend[u] # << >> THEN wire[u] ELSE Tail(wire[u]),
                         received[u] + Len(From(u)), sent[u])
  <1>1. /\ u \in uploading /\ u \in ready /\ received[u] # size[u]
        /\ u \in Conn /\ TypeOK /\ Stored(u) /\ Talk(u) /\ UpTalk(u)
    BY DEF WriteData, AllReceived, Handles, StoreInv, UploadSound, TalkSound, Conn
  <1>2. /\ received[u] \in Nat /\ size[u] \in Nat /\ sent[u] \in Nat
        /\ pend[u] \in Seq(Nat) /\ wire[u] \in Seq(Record)
    BY <1>1 DEF TypeOK
  <1>3. CASE pend[u] # << >>
    BY <1>1, <1>2, <1>3 DEF From, Stored
  <1>4. CASE pend[u] = << >>
    <2> DEFINE w == wire[u]
    <2>1. w # << >> /\ w \in Seq(Record) /\ From(u) = Head(w).bytes
      BY <1>2, <1>4 DEF From
    <2>2. Head(w) \in Record /\ Head(w) = w[1] /\ 1 \in 1 .. Len(w)
      BY <2>1
    <2>3. From(u) \in Seq(Nat)
      BY <2>1, <2>2 DEF Record
    <2>4. ASSUME u \notin unopened
          PROVE  /\ From(u) = Bytes(received[u] + 1, received[u] + Len(From(u)))
                 /\ IsChain(Tail(w), received[u] + Len(From(u)), sent[u])
      <3>1. IsChain(w, received[u], sent[u])
        <4>1. received[u] + Len(pend[u]) = received[u]
          BY <1>2, <1>4
        <4> QED BY <1>1, <2>4, <4>1 DEF Stored
      <3>2. PICK m \in received[u] .. sent[u] :
              /\ IsChain(Tail(w), m, sent[u])
              /\ Head(w).type = "data" => Head(w).bytes = Bytes(received[u] + 1, m)
              /\ Head(w).type # "data" => m = received[u]
        BY <1>2, <2>1, <3>1, ChainTail
      <3>3. Head(w).type = "data"
        BY <1>4, <2>1, <2>4, DataNext
      <3>4. From(u) = Bytes(received[u] + 1, m) /\ m \in Nat /\ received[u] <= m
        BY <1>2, <2>1, <3>2, <3>3
      <3>5. Len(From(u)) = m - (received[u] + 1) + 1
        <4>1. received[u] + 1 \in Nat /\ received[u] + 1 <= m + 1
          BY <1>2, <3>4, SMTT(30)
        <4> QED BY <3>4, <4>1, BytesElements
      <3>6. received[u] + Len(From(u)) = m
        BY <1>2, <3>4, <3>5
      <3> QED BY <3>2, <3>4, <3>6
    <2> QED BY <1>2, <1>4, <2>3, <2>4
  <1> QED BY <1>3, <1>4

(* A call of SSL_read: what it takes continues what was received and does   *)
(* not go beyond the file's end, what is left of the record comes next, and *)
(* then the socket.                                                         *)
LEMMA ReadNext ==
  ASSUME StoreInv, NEW u \in Up, WriteData(u), SSLRead(u),
         pend[u] # << >> \/ wire[u] # << >>
  PROVE  /\ wire' \in [Conn -> Seq(Record)] /\ part' = part
         /\ \A x \in Conn : x # u => wire'[x] = wire[x]
         /\ wire[u] = << >> => wire'[u] = << >>
         /\ wire[u] # << >> => wire'[u] \in {wire[u], Tail(wire[u])}
         /\ pend' \in [Conn -> Seq(Nat)]
         /\ \A x \in Conn : x # u => pend'[x] = pend[x]
         /\ Taken(u) \in Seq(Nat) /\ Len(Taken(u)) \in Nat
         /\ received[u] + Len(Taken(u)) <= size[u]
         /\ u \notin unopened =>
              LET r == received[u] + Len(Taken(u))
              IN  /\ Taken(u) = Bytes(received[u] + 1, r)
                  /\ pend'[u] = Bytes(r + 1, r + Len(pend'[u]))
                  /\ IsChain(wire'[u], r + Len(pend'[u]), sent[u])
  <1> DEFINE f == From(u)
             t == Taken(u)
             k == IF Len(f) < Want(u) THEN Len(f) ELSE Want(u)
             p == SubSeq(f, Len(t) + 1, Len(f))
             w == IF pend[u] # << >> THEN wire[u] ELSE Tail(wire[u])
             a == received[u]
  <1>1. /\ f \in Seq(Nat) /\ a \in Nat
        /\ u \notin unopened => f = Bytes(a + 1, a + Len(f)) /\ IsChain(w, a + Len(f), sent[u])
    BY FromNext
  <1>2. /\ u \in Conn /\ size[u] \in Nat /\ a <= size[u]
        /\ wire \in [Conn -> Seq(Record)] /\ pend \in [Conn -> Seq(Nat)]
    BY DEF StoreInv, TypeOK, Conn
  <1>3. Want(u) \in Nat /\ a + Want(u) <= size[u]
    BY <1>1, <1>2, SizesAssumption DEF Want
  <1>4. /\ t = SubSeq(f, 1, k) /\ pend' = [pend EXCEPT ![u] = p] /\ part' = part
        /\ wire' = IF pend[u] # << >> THEN wire ELSE [wire EXCEPT ![u] = Tail(@)]
    BY DEF SSLRead, Taken
  <1> HIDE DEF f, t
  <1>5. k \in Nat /\ k <= Len(f) /\ k <= Want(u) /\ Len(f) \in Nat
    BY <1>1, <1>3
  <1> HIDE DEF k
  <1>6. /\ t \in Seq(Nat) /\ Len(t) = k
        /\ p \in Seq(Nat) /\ Len(p) = Len(f) - k
        /\ f = Bytes(a + 1, a + Len(f)) =>
             t = Bytes(a + 1, a + k) /\ p = Bytes(a + k + 1, a + Len(f))
    <2> HIDE DEF a
    <2>1. /\ SubSeq(f, 1, k) \in Seq(Nat) /\ Len(SubSeq(f, 1, k)) = k
          /\ SubSeq(f, k + 1, Len(f)) \in Seq(Nat)
          /\ Len(SubSeq(f, k + 1, Len(f))) = Len(f) - k
          /\ f = Bytes(a + 1, a + Len(f)) =>
               /\ SubSeq(f, 1, k) = Bytes(a + 1, a + k)
               /\ SubSeq(f, k + 1, Len(f)) = Bytes(a + k + 1, a + Len(f))
      BY <1>1, <1>5, BytesCut
    <2>2. Len(t) = k
      BY <1>4, <2>1
    <2> QED BY <1>4, <2>1, <2>2
  <1>8. a + k <= size[u]
    BY <1>1, <1>2, <1>3, <1>5
  <1>9. ASSUME u \notin unopened
        PROVE  /\ t = Bytes(a + 1, a + k)
               /\ p = Bytes(a + k + 1, a + k + Len(p))
               /\ IsChain(w, a + k + Len(p), sent[u])
    <2> HIDE DEF p, w, a
    <2>1. a + k + Len(p) = a + Len(f)
      BY <1>1, <1>5, <1>6
    <2> QED BY <1>1, <1>6, <1>9, <2>1
  <1>10. pend' \in [Conn -> Seq(Nat)] /\ pend'[u] = p
         /\ \A x \in Conn : x # u => pend'[x] = pend[x]
    <2> HIDE DEF p
    <2> QED BY <1>2, <1>4, <1>6
  <1>11. /\ wire' \in [Conn -> Seq(Record)] /\ wire'[u] = w
         /\ \A x \in Conn : x # u => wire'[x] = wire[x]
         /\ wire[u] = << >> => w = << >>
         /\ wire[u] # << >> => w \in {wire[u], Tail(wire[u])}
    <2>1. CASE pend[u] # << >>
      BY <1>2, <1>4, <2>1
    <2>2. CASE pend[u] = << >>
      <3>1. wire[u] # << >> /\ Tail(wire[u]) \in Seq(Record)
        BY <1>2, <2>2
      <3> QED BY <1>2, <1>4, <2>2, <3>1
    <2> QED BY <2>1, <2>2
  <1>12. Taken(u) = t /\ received[u] = a /\ Len(t) \in Nat
    BY <1>5, <1>6 DEF t
  <1> HIDE DEF p, w, a
  <1> QED BY <1>4, <1>6, <1>8, <1>9, <1>10, <1>11, <1>12

(* What a call on an upload that is read keeps. *)
LEMMA StoreReading ==
  ASSUME StoreInv, TypeOK', NEW u \in Up, u \in uploading, u \in ready,
         pc = "read", ready' = ready \ {u},
         \A x \in Conn : x # u => wire'[x] = wire[x],
         wire[u] = << >> => wire'[u] = << >>,
         wire[u] # << >> => wire'[u] \in {wire[u], Tail(wire[u])},
         \A x \in Up : x # u =>
           /\ disk'[x] = disk[x] /\ buffer'[x] = buffer[x] /\ pend'[x] = pend[x]
           /\ received'[x] = received[x],
         UNCHANGED <<alive, state, uploading, unopened, clientVars, got, ended, pc,
                     sendVars>>,
         closing \subseteq closing', closing' \subseteq closing \cup {u},
         acked \subseteq acked', acked' \subseteq acked \cup closing',
         acked' \subseteq acked \cup {u},
         Stored(u)'
  PROVE  StoreInv'
  <1> USE DEF clientVars, sendVars
  <1>0. wire' \in [Conn -> Seq(Record)] /\ u \in Conn /\ u \notin Down
    BY ConnAssumption DEF TypeOK, Conn
  <1>1. TalkSound'
    BY <1>0, UploadTalk
  <1>2. ReadySound'
    BY DEF StoreInv, ReadySound
  <1>3. UploadSound'
    BY <1>0, UploadOthers DEF StoreInv, Conn
  <1>4. DownSound'
    BY <1>0 DEF StoreInv, DownSound, Unserved, Conn
  <1>5. SendSound'
    BY DEF StoreInv, SendSound, LastGot
  <1> QED BY <1>1, <1>2, <1>3, <1>4, <1>5 DEF StoreInv

(* A block that is written. *)
LEMMA StoreWriteBlock ==
  ASSUME StoreInv, NEW u \in Up, WriteBlock(u)
  PROVE  StoreInv'
  <1> DEFINE t == Taken(u)
             r == received[u] + Len(t)
  <1>0. /\ WriteData(u) /\ SSLRead(u) /\ u \notin unopened
        /\ pend[u] # << >> \/ wire[u] # << >>
        /\ u \in uploading /\ u \in ready /\ pc = "read" /\ received[u] # size[u]
        /\ ready' = ready \ {u}
        /\ received' = [received EXCEPT ![u] = r]
        /\ UNCHANGED <<alive, state, closing, uploading, unopened, clientVars,
                       replyVars, pc, sendVars>>
        /\ TypeOK /\ Stored(u) /\ state[u] = "open" /\ u \in Conn
    BY DEF WriteBlock, WriteData, AllReceived, Handles, Handled, Counted, StoreInv,
       UploadSound, ReadySound, Conn
  <1>1. /\ wire' \in [Conn -> Seq(Record)] /\ part' = part
        /\ \A x \in Conn : x # u => wire'[x] = wire[x]
        /\ wire[u] = << >> => wire'[u] = << >>
        /\ wire[u] # << >> => wire'[u] \in {wire[u], Tail(wire[u])}
        /\ pend' \in [Conn -> Seq(Nat)]
        /\ \A x \in Conn : x # u => pend'[x] = pend[x]
        /\ t \in Seq(Nat) /\ Len(t) \in Nat /\ r <= size[u]
        /\ t = Bytes(received[u] + 1, r)
        /\ pend'[u] = Bytes(r + 1, r + Len(pend'[u]))
        /\ IsChain(wire'[u], r + Len(pend'[u]), sent[u])
    BY <1>0, ReadNext
  <1>2. \/ buffer' = [buffer EXCEPT ![u] = buffer[u] \o t] /\ disk' = disk
        \/ /\ disk' = [disk EXCEPT ![u] = disk[u] \o buffer[u] \o t]
           /\ buffer' = [buffer EXCEPT ![u] = << >>]
    BY DEF WriteBlock, Written
  <1> HIDE DEF t
  <1>3. /\ disk[u] \in Seq(Nat) /\ buffer[u] \in Seq(Nat) /\ received[u] \in Nat
        /\ r \in Nat /\ received[u] <= r
        /\ disk \in [Up -> Seq(Nat)] /\ buffer \in [Up -> Seq(Nat)]
        /\ received \in [Up -> Nat] /\ size[u] \in Nat
    <2>1. /\ disk[u] \in Seq(Nat) /\ buffer[u] \in Seq(Nat) /\ received[u] \in Nat
          /\ disk \in [Up -> Seq(Nat)] /\ buffer \in [Up -> Seq(Nat)]
          /\ received \in [Up -> Nat] /\ size[u] \in Nat
      BY <1>0 DEF TypeOK
    <2>2. Len(t) \in Nat
      BY <1>1
    <2>3. r \in Nat /\ received[u] <= r
      BY <2>1, <2>2
    <2> QED BY <2>1, <2>3
  <1> HIDE DEF r
  <1>4. /\ received' \in [Up -> Nat] /\ received'[u] = r
        /\ \A x \in Up : x # u => received'[x] = received[x]
    BY <1>0, <1>3
  <1>5. (disk[u] \o buffer[u]) \o t = Bytes(1, r)
    <2>1. Bytes(1, received[u]) \o Bytes(received[u] + 1, r) = Bytes(1, r)
      <3>1. 1 \in Nat /\ 1 <= received[u] + 1
        BY <1>3
      <3> QED BY <1>3, <3>1, BytesJoin
    <2>2. disk[u] \o buffer[u] = Bytes(1, received[u])
      BY <1>0 DEF Stored
    <2> QED BY <1>1, <2>1, <2>2
  <1>6. /\ disk' \in [Up -> Seq(Nat)] /\ buffer' \in [Up -> Seq(Nat)]
        /\ \A x \in Up : x # u => disk'[x] = disk[x] /\ buffer'[x] = buffer[x]
        /\ disk'[u] \o buffer'[u] = Bytes(1, r)
    <2>1. CASE buffer' = [buffer EXCEPT ![u] = buffer[u] \o t] /\ disk' = disk
      <3>1. buffer[u] \o t \in Seq(Nat)
        BY <1>1, <1>3, JoinedElements
      <3>2. /\ buffer' \in [Up -> Seq(Nat)] /\ buffer'[u] = buffer[u] \o t
            /\ \A x \in Up : x # u => buffer'[x] = buffer[x]
        BY <1>3, <2>1, <3>1
      <3>3. disk[u] \o (buffer[u] \o t) = (disk[u] \o buffer[u]) \o t
        <4>1. \A a, b, c \in Seq(Nat) : (a \o b) \o c = a \o (b \o c)
          BY ConcatAssociative, SMTT(30)
        <4> QED BY <1>1, <1>3, <4>1
      <3> QED BY <1>3, <1>5, <2>1, <3>2, <3>3
    <2>2. CASE /\ disk' = [disk EXCEPT ![u] = disk[u] \o buffer[u] \o t]
               /\ buffer' = [buffer EXCEPT ![u] = << >>]
      <3> DEFINE d == (disk[u] \o buffer[u]) \o t
      <3>1. d \in Seq(Nat) /\ disk' = [disk EXCEPT ![u] = d] /\ << >> \in Seq(Nat)
        <4>1. disk[u] \o buffer[u] \in Seq(Nat)
          BY <1>3, JoinedElements
        <4> QED BY <1>1, <2>2, <4>1, JoinedElements
      <3>2. d \o << >> = d
        BY <3>1, ConcatEmptySeq
      <3>3. d = Bytes(1, r)
        BY <1>5
      <3> HIDE DEF d
      <3>4. /\ disk' \in [Up -> Seq(Nat)] /\ disk'[u] = d
            /\ buffer' \in [Up -> Seq(Nat)] /\ buffer'[u] = << >>
            /\ \A x \in Up : x # u => disk'[x] = disk[x] /\ buffer'[x] = buffer[x]
        BY <1>3, <2>2, <3>1
      <3> QED BY <3>2, <3>3, <3>4
    <2> QED BY <1>2, <2>1, <2>2
  <1>7. TypeOK'
    <2>1. UNCHANGED <<alive, state, closing, uploading, unopened, clientVars,
                      replyVars, pc, sendVars>>
      BY <1>0
    <2>2. \A x \in Up : received'[x] <= size'[x]
      <3>1. \A x \in Up : received[x] <= size[x]
        BY <1>0 DEF TypeOK
      <3>2. size' = size
        BY <2>1 DEF clientVars
      <3> QED BY <1>1, <1>4, <3>1, <3>2 DEF r
    <2> QED BY <1>0, <1>1, <1>4, <1>6, <2>1, <2>2
        DEF TypeOK, clientVars, replyVars, sendVars
  <1>8. Stored(u)'
    <2>1. /\ phase' = phase /\ size' = size /\ sent' = sent /\ acked' = acked
          /\ state' = state /\ unopened' = unopened
      BY <1>0 DEF clientVars, replyVars
    <2> QED BY <1>0, <1>1, <1>4, <1>6, <2>1 DEF Stored, r
  <1>9. \A x \in Up : x # u =>
          /\ disk'[x] = disk[x] /\ buffer'[x] = buffer[x] /\ pend'[x] = pend[x]
          /\ received'[x] = received[x]
    BY <1>1, <1>4, <1>6 DEF Conn
  <1>10. closing' = closing /\ acked' = acked /\ got' = got /\ ended' = ended
    BY <1>0 DEF replyVars
  <1> QED BY <1>0, <1>1, <1>7, <1>8, <1>9, <1>10, StoreReading

(* A block that the output stream does not take. *)
LEMMA StoreDropBlock ==
  ASSUME StoreInv, NEW u \in Up, DropBlock(u)
  PROVE  StoreInv'
  <1> USE DEF connVars, fileVars, replyVars
  <1>0. /\ WriteData(u) /\ SSLRead(u) /\ u \in unopened
        /\ pend[u] # << >> \/ wire[u] # << >>
        /\ u \in uploading /\ u \in ready /\ pc = "read"
        /\ ready' = ready \ {u}
        /\ UNCHANGED <<alive, connVars, fileVars, clientVars, replyVars, pc, sendVars>>
        /\ TypeOK /\ Stored(u) /\ u \in Conn
    BY DEF DropBlock, WriteData, Handles, Handled, StoreInv, UploadSound, Conn
  <1>1. /\ wire' \in [Conn -> Seq(Record)] /\ part' = part
        /\ \A x \in Conn : x # u => wire'[x] = wire[x]
        /\ wire[u] = << >> => wire'[u] = << >>
        /\ wire[u] # << >> => wire'[u] \in {wire[u], Tail(wire[u])}
        /\ pend' \in [Conn -> Seq(Nat)]
        /\ \A x \in Conn : x # u => pend'[x] = pend[x]
    BY <1>0, ReadNext
  <1>2. TypeOK'
    BY <1>0, <1>1 DEF TypeOK, clientVars, sendVars
  <1>3. Stored(u)'
    BY <1>0 DEF Stored, clientVars
  <1> QED BY <1>0, <1>1, <1>2, <1>3, StoreReading DEF Conn

(* The end of an upload: it is acknowledged when everything was received.   *)
LEMMA StoreFinish ==
  ASSUME StoreInv, NEW u \in Up, Finish(u)
  PROVE  StoreInv'
  <1> USE DEF fileVars, replyVars
  <1>1. CASE Die
    BY <1>1, StoreQuiet
  <1>2. CASE ~Die
    <2>0. /\ u \in uploading /\ u \in ready /\ pc = "read" /\ received[u] = size[u]
          /\ ready' = ready \ {u} /\ closing' = closing \cup {u}
          /\ acked' \in {acked, acked \cup {u}}
          /\ wire' = IF wire[u] = << >> THEN wire ELSE [wire EXCEPT ![u] = Tail(@)]
          /\ part' \subseteq part
          /\ UNCHANGED <<alive, state, uploading, received, unopened, fileVars,
                         pend, clientVars, got, ended, pc, sendVars>>
          /\ TypeOK /\ Stored(u) /\ u \in Conn /\ state[u] = "open"
          /\ phase[u] \in {"asked", "finished"}
      BY <1>2 DEF Finish, CommandRead, ReadPart, AllReceived, Handles, Handled,
         StoreInv, UploadSound, ReadySound, TalkSound, UpTalk, Conn
    <2>1. /\ wire \in [Conn -> Seq(Record)]
          /\ wire[u] # << >> => Tail(wire[u]) \in Seq(Record)
      BY <2>0 DEF TypeOK
    <2>2. /\ wire' \in [Conn -> Seq(Record)]
          /\ \A x \in Conn : x # u => wire'[x] = wire[x]
          /\ wire[u] = << >> => wire'[u] = << >>
          /\ wire[u] # << >> => wire'[u] = Tail(wire[u])
      <3>1. CASE wire[u] = << >>
        BY <2>0, <2>1, <3>1
      <3>2. CASE wire[u] # << >>
        BY <2>0, <2>1, <3>2
      <3> QED BY <3>1, <3>2
    <2>3. TypeOK'
      BY <2>0, <2>2 DEF TypeOK, clientVars, sendVars
    <2>4. u \notin unopened =>
            IsChain(wire'[u], received[u] + Len(pend[u]), sent[u])
      <3> SUFFICES ASSUME u \notin unopened, wire[u] # << >>
                   PROVE  IsChain(Tail(wire[u]), received[u] + Len(pend[u]), sent[u])
        BY <2>0, <2>2 DEF Stored
      <3>1. /\ IsChain(wire[u], received[u] + Len(pend[u]), sent[u])
            /\ sent[u] <= size[u]
        BY <2>0 DEF Stored
      <3>2. /\ received[u] \in Nat /\ sent[u] \in Nat /\ Len(pend[u]) \in Nat
            /\ wire[u] \in Seq(Record) /\ received[u] + Len(pend[u]) \in Nat
        BY <2>0 DEF TypeOK
      <3>3. PICK m \in received[u] + Len(pend[u]) .. sent[u] :
              IsChain(Tail(wire[u]), m, sent[u])
        BY <3>1, <3>2, ChainTail
      <3>4. m = received[u] + Len(pend[u])
        BY <2>0, <3>1, <3>2, <3>3
      <3> QED BY <3>3, <3>4
    <2>5. Stored(u)'
      BY <2>0, <2>4 DEF Stored, clientVars
    <2> QED BY <2>0, <2>2, <2>3, <2>5, StoreReading
  <1> QED BY <1>1, <1>2

(* The next chunk of the file that is sent goes to its end, or to the end   *)
(* of the file.                                                             *)
LEMMA ChunkExact ==
  ASSUME StoreInv, pc = "send", next <= Chunks
  PROVE  /\ (next - 1) * Buffer \in Nat
         /\ next * Buffer = (next - 1) * Buffer + Buffer
         /\ (next - 1) * Buffer + 1 <= Len(src)
         /\ Chunk = Bytes((next - 1) * Buffer + 1,
                          IF next * Buffer <= Len(src) THEN next * Buffer
                                                       ELSE Len(src))
  <1>1. /\ src \in Seq(Nat) /\ next \in Nat \ {0} /\ src = Bytes(1, Len(src))
        /\ Buffer \in Nat \ {0} /\ Len(src) \in Nat
    BY SizesAssumption DEF StoreInv, TypeOK, SendSound
  <1>2. next <= (Len(src) + Buffer - 1) \div Buffer
    BY DEF Chunks
  <1> DEFINE l == Len(src)
             p == (next - 1) * Buffer
             q == next * Buffer
             j == IF q <= l THEN q ELSE l
  <1>3. p \in Nat /\ q = p + Buffer /\ p + 1 <= l
    BY <1>1, <1>2, BlocksReach
  <1>4. \A x \in 1 .. l : src[x] = 0 + x
    <2>1. /\ Bytes(1, l) \in Seq(Nat)
          /\ \A x \in 1 .. l - 1 + 1 : Bytes(1, l)[x] = 1 + x - 1
      <3>1. 1 \in Nat /\ 1 <= l + 1
        BY <1>1
      <3> QED BY <1>1, <3>1, BytesElements
    <2> QED BY <1>1, <2>1
  <1>5. Chunk = SubSeq(src, p + 1, j)
    BY DEF Chunk
  <1> HIDE DEF p, q
  <1>6. /\ p + 1 \in Nat /\ j \in Nat /\ 1 <= p + 1 /\ p + 1 <= j /\ j <= l
        /\ p + 1 <= j + 1 /\ j <= q /\ 0 \in Nat
    BY <1>1, <1>3
  <1> HIDE DEF j
  <1>7. SubSeq(src, p + 1, j) = Bytes(0 + (p + 1), 0 + j)
    <2>1. PICK a \in Nat : a = 0
      BY <1>6
    <2>2. \A x \in 1 .. l : src[x] = a + x
      BY <1>4, <2>1
    <2>3. \A x, y \in Nat : 1 <= x /\ x <= y + 1 /\ y <= l
                               => SubSeq(src, x, y) = Bytes(a + x, a + y)
      <3>1. src \in Seq(Nat)
        BY <1>1
      <3> QED BY <2>2, <3>1, BytesSlice
    <2> QED BY <1>6, <2>1, <2>3
  <1>8. Chunk = Bytes(p + 1, j)
    <2>1. 0 + (p + 1) = p + 1 /\ 0 + j = j
      BY <1>1, <1>6
    <2> QED BY <1>5, <1>6, <1>7, <2>1
  <1> QED BY <1>3, <1>8 DEF p, q, j

(* It lies in the file, behind the chunks that were written. *)
LEMMA ChunkBytes ==
  ASSUME StoreInv, pc = "send", next <= Chunks
  PROVE  /\ (next - 1) * Buffer \in Nat
         /\ next * Buffer = (next - 1) * Buffer + Buffer
         /\ \E i, j \in (next - 1) * Buffer + 1 .. Len(src) :
              i <= j /\ j <= next * Buffer /\ Chunk = Bytes(i, j)
  <1> DEFINE l == Len(src)
             p == (next - 1) * Buffer
             q == next * Buffer
             j == IF q <= l THEN q ELSE l
  <1>1. p \in Nat /\ q = p + Buffer /\ p + 1 <= l /\ Chunk = Bytes(p + 1, j)
    BY ChunkExact
  <1>2. Buffer \in Nat \ {0} /\ l \in Nat
    BY SizesAssumption DEF StoreInv, TypeOK
  <1> HIDE DEF l, p, q
  <1>3. p + 1 \in p + 1 .. l /\ j \in p + 1 .. l /\ p + 1 <= j /\ j <= q
    BY <1>1, <1>2
  <1> QED BY <1>1, <1>3 DEF l, p, q

(* What a call of SSL_write does: nothing, or it holds bytes back, or it    *)
(* delivers bytes, and these are bytes that did not go out before.          *)
LEMMA WriteCases ==
  ASSUME StoreInv, pc = "send", next <= Chunks, SSLWrite
  PROVE  \/ got' = got /\ stuck' = stuck
         \/ \E i, j \in LastGot + 1 .. Len(src) :
              /\ i <= j /\ j <= next * Buffer
              /\ \/ got' = got /\ stuck' = Bytes(i, j)
                 \/ /\ got' = [got EXCEPT ![cur] = @ \o Bytes(i, j)]
                    /\ stuck' = << >>
  <1>1. /\ (next - 1) * Buffer \in Nat
        /\ next * Buffer = (next - 1) * Buffer + Buffer
        /\ \E i, j \in (next - 1) * Buffer + 1 .. Len(src) :
             i <= j /\ j <= next * Buffer /\ Chunk = Bytes(i, j)
    BY ChunkBytes
  <1>2. /\ LastGot \in Nat /\ LastGot <= (next - 1) * Buffer /\ Len(src) \in Nat
        /\ Buffer \in Nat
        /\ stuck # << >> =>
             \E i, j \in LastGot + 1 .. Len(src) :
               i <= j /\ j <= (next - 1) * Buffer /\ stuck = Bytes(i, j)
    BY SizesAssumption DEF StoreInv, TypeOK, SendSound
  <1> DEFINE p == (next - 1) * Buffer
             q == next * Buffer
  <1> HIDE DEF p, q
  <1>3. \E i, j \in LastGot + 1 .. Len(src) :
          i <= j /\ j <= q /\ Chunk = Bytes(i, j)
    <2>1. PICK i \in p + 1 .. Len(src), j \in p + 1 .. Len(src) :
            i <= j /\ j <= q /\ Chunk = Bytes(i, j)
      BY <1>1 DEF p, q
    <2>2. p \in Nat /\ LastGot <= p
      BY <1>1, <1>2 DEF p
    <2>3. i \in LastGot + 1 .. Len(src) /\ j \in LastGot + 1 .. Len(src)
      BY <1>2, <2>1, <2>2
    <2> QED BY <2>1, <2>3
  <1>4. stuck # << >> =>
          \E i, j \in LastGot + 1 .. Len(src) :
            i <= j /\ j <= q /\ stuck = Bytes(i, j)
    <2> SUFFICES ASSUME stuck # << >>
                 PROVE  \E i, j \in LastGot + 1 .. Len(src) :
                          i <= j /\ j <= q /\ stuck = Bytes(i, j)
      OBVIOUS
    <2>1. PICK i \in LastGot + 1 .. Len(src), j \in LastGot + 1 .. Len(src) :
            i <= j /\ j <= p /\ stuck = Bytes(i, j)
      BY <1>2 DEF p
    <2>2. p \in Nat /\ q = p + Buffer
      BY <1>1 DEF p, q
    <2>3. j <= q
      BY <1>2, <2>1, <2>2
    <2> QED BY <2>1, <2>3
  <1>5. \/ got' = got /\ stuck' = stuck
        \/ got' = got /\ stuck' = Chunk
        \/ got' = [got EXCEPT ![cur] = @ \o Chunk] /\ stuck' = << >>
        \/ /\ stuck # << >>
           /\ got' = [got EXCEPT ![cur] = @ \o stuck] /\ stuck' = << >>
    BY DEF SSLWrite, Delivered
  <1>6. q = next * Buffer
    BY DEF q
  <1> QED BY <1>3, <1>4, <1>5, <1>6

(* The last byte of what got longer. *)
LEMMA LastJoined ==
  ASSUME NEW g \in Seq(Nat), NEW i \in Nat, NEW j \in Nat, i <= j
  PROVE  LET x == g \o Bytes(i, j)
         IN  x \in Seq(Nat) /\ x # << >> /\ x[Len(x)] = j
  <1> DEFINE b == Bytes(i, j)
             x == g \o b
  <1>1. /\ b \in Seq(Nat) /\ Len(b) = j - i + 1
        /\ \A k \in 1 .. j - i + 1 : b[k] = i + k - 1
    <2>1. i <= j + 1
      OBVIOUS
    <2> QED BY <2>1, BytesElements
  <1> HIDE DEF b
  <1>2. /\ x \in Seq(Nat) /\ Len(x) = Len(g) + Len(b)
        /\ \A k \in 1 .. Len(b) : x[Len(g) + k] = b[k]
    <2>1. g \in Seq(Nat) /\ b \in Seq(Nat)
      BY <1>1
    <2> QED BY <2>1
  <1> HIDE DEF x
  <1>3. Len(b) \in 1 .. Len(b) /\ Len(b) \in 1 .. j - i + 1 /\ Len(x) # 0
    BY <1>1, <1>2
  <1>4. x[Len(x)] = b[Len(b)] /\ b[Len(b)] = i + Len(b) - 1
    BY <1>1, <1>2, <1>3
  <1>5. x # << >> /\ x[Len(x)] = j
    BY <1>1, <1>3, <1>4
  <1> QED BY <1>2, <1>5 DEF x, b

(* A chunk that is sent. *)
LEMMA StoreSendChunk ==
  ASSUME StoreInv, SendChunk
  PROVE  StoreInv'
  <1> USE DEF connVars, fileVars, netVars, clientVars
  <1>1. CASE Die
    BY <1>1, StoreQuiet
  <1>2. CASE ~Die
    <2>0. /\ pc = "send" /\ next <= Chunks /\ SSLWrite /\ next' = next + 1
          /\ UNCHANGED <<alive, connVars, fileVars, netVars, clientVars, acked,
                         ended, pc, ready, cur, src>>
          /\ TypeOK
      BY <1>2 DEF SendChunk, NextChunk, StoreInv
    <2>1. /\ cur \in Down /\ next \in Nat \ {0} /\ got \in [Down -> Seq(Nat)]
          /\ Buffer \in Nat /\ src = Bytes(1, Len(src)) /\ Len(src) \in Nat
          /\ LastGot \in Nat /\ LastGot <= (next - 1) * Buffer
          /\ stuck # << >> =>
               \E i, j \in LastGot + 1 .. Len(src) :
                 i <= j /\ j <= (next - 1) * Buffer /\ stuck = Bytes(i, j)
      BY <2>0, SizesAssumption DEF StoreInv, TypeOK, ReadySound, SendSound
    <2>2. /\ (next - 1) * Buffer \in Nat
          /\ next * Buffer = (next - 1) * Buffer + Buffer
      BY <2>0, ChunkBytes
    <2>3. (next' - 1) * Buffer = next * Buffer
      <3>1. next' - 1 = next
        BY <2>0, <2>1
      <3> QED BY <3>1
    <2> DEFINE p == (next - 1) * Buffer
               q == next * Buffer
    <2>4. p \in Nat /\ q = p + Buffer /\ LastGot <= p /\ q = (next' - 1) * Buffer
      BY <2>1, <2>2, <2>3
    <2> HIDE DEF p, q
    <2>5. /\ got' \in [Down -> Seq(Nat)] /\ stuck' \in Seq(Nat)
          /\ \A d \in Down : d # cur => got'[d] = got[d]
          /\ LastGot' \in Nat /\ LastGot' <= q
          /\ stuck' # << >> =>
               \E i, j \in LastGot' + 1 .. Len(src) :
                 i <= j /\ j <= q /\ stuck' = Bytes(i, j)
      <3>1. CASE got' = got /\ stuck' = stuck
        <4>1. LastGot' = LastGot
          BY <2>0, <3>1 DEF LastGot
        <4>2. stuck # << >> =>
                 \E i, j \in LastGot + 1 .. Len(src) :
                   i <= j /\ j <= q /\ stuck = Bytes(i, j)
          <5> SUFFICES ASSUME stuck # << >>
                       PROVE  \E i, j \in LastGot + 1 .. Len(src) :
                                i <= j /\ j <= q /\ stuck = Bytes(i, j)
            OBVIOUS
          <5>1. PICK i \in LastGot + 1 .. Len(src), j \in LastGot + 1 .. Len(src) :
                  i <= j /\ j <= p /\ stuck = Bytes(i, j)
            BY <2>1 DEF p
          <5>2. j <= q
            BY <2>1, <2>4, <5>1
          <5> QED BY <5>1, <5>2
        <4>3. LastGot <= q
          BY <2>1, <2>4
        <4>4. stuck' \in Seq(Nat)
          BY <2>0, <3>1 DEF TypeOK
        <4> QED BY <2>1, <3>1, <4>1, <4>2, <4>3, <4>4
      <3>2. CASE \E i, j \in LastGot + 1 .. Len(src) :
                   /\ i <= j /\ j <= q
                   /\ got' = got /\ stuck' = Bytes(i, j)
        <4>1. LastGot' = LastGot
          BY <2>0, <3>2 DEF LastGot
        <4>2. LastGot <= q
          BY <2>1, <2>4
        <4>3. stuck' \in Seq(Nat)
          <5>1. PICK i \in LastGot + 1 .. Len(src), j \in LastGot + 1 .. Len(src) :
                  i <= j /\ stuck' = Bytes(i, j)
            BY <3>2
          <5>2. i \in Nat /\ j \in Nat /\ i <= j + 1
            BY <2>1, <5>1
          <5> QED BY <5>1, <5>2, BytesElements
        <4> QED BY <2>1, <3>2, <4>1, <4>2, <4>3
      <3>3. ASSUME NEW i \in LastGot + 1 .. Len(src),
                   NEW j \in LastGot + 1 .. Len(src), i <= j, j <= q,
                   got' = [got EXCEPT ![cur] = @ \o Bytes(i, j)], stuck' = << >>
            PROVE  /\ got' \in [Down -> Seq(Nat)] /\ stuck' \in Seq(Nat)
                   /\ \A d \in Down : d # cur => got'[d] = got[d]
                   /\ LastGot' \in Nat /\ LastGot' <= q
        <4> DEFINE x == got[cur] \o Bytes(i, j)
        <4>1. i \in Nat /\ j \in Nat /\ got[cur] \in Seq(Nat)
          BY <2>1
        <4>2. x \in Seq(Nat) /\ x # << >> /\ x[Len(x)] = j
          BY <3>3, <4>1, LastJoined
        <4>3. got' = [got EXCEPT ![cur] = x]
          BY <3>3
        <4> HIDE DEF x
        <4>4. /\ got' \in [Down -> Seq(Nat)] /\ got'[cur] = x
              /\ \A d \in Down : d # cur => got'[d] = got[d]
          BY <2>1, <4>2, <4>3
        <4>5. LastGot' = j
          BY <2>0, <4>2, <4>4 DEF LastGot
        <4>6. stuck' \in Seq(Nat)
          BY <3>3
        <4> QED BY <3>3, <4>1, <4>4, <4>5, <4>6
      <3>4. \/ got' = got /\ stuck' = stuck
            \/ \E i, j \in LastGot + 1 .. Len(src) :
                 /\ i <= j /\ j <= q
                 /\ \/ got' = got /\ stuck' = Bytes(i, j)
                    \/ /\ got' = [got EXCEPT ![cur] = @ \o Bytes(i, j)]
                       /\ stuck' = << >>
        BY <2>0, WriteCases DEF q
      <3>5. ASSUME NEW i \in LastGot + 1 .. Len(src),
                   NEW j \in LastGot + 1 .. Len(src), i <= j, j <= q,
                   got' = [got EXCEPT ![cur] = @ \o Bytes(i, j)], stuck' = << >>
            PROVE  <2>5
        BY <3>3, <3>5
      <3> QED BY <3>1, <3>2, <3>4, <3>5
    <2>6. TypeOK'
      <3>1. next' \in Nat \ {0}
        BY <2>0, <2>1
      <3> QED BY <2>0, <2>5, <3>1 DEF TypeOK
    <2>7. TalkSound'
      BY <2>0 DEF StoreInv, TalkSound, Talk, UpTalk, DownTalk
    <2>8. ReadySound'
      BY <2>0 DEF StoreInv, ReadySound
    <2>9. UploadSound'
      BY <2>0 DEF StoreInv, UploadSound, Stored
    <2>10. DownSound'
      <3>1. ASSUME NEW d \in Down
            PROVE  Unserved(d)'
        <4>1. Unserved(d)
          BY DEF StoreInv, DownSound
        <4> QED BY <2>0, <2>5, <4>1 DEF Unserved
      <3> QED BY <3>1 DEF DownSound
    <2>11. SendSound'
      BY <2>0, <2>1, <2>4, <2>5 DEF SendSound
    <2> QED BY <2>6, <2>7, <2>8, <2>9, <2>10, <2>11 DEF StoreInv
  <1> QED BY <1>1, <1>2

(* The end of a download. *)
LEMMA StoreSendEnd ==
  ASSUME StoreInv, SendEnd
  PROVE  StoreInv'
  <1> USE DEF fileVars, netVars, clientVars
  <1>1. CASE Die
    BY <1>1, StoreQuiet
  <1>2. CASE ~Die
    <2>0. /\ pc = "send" /\ pc' = "read" /\ closing' = closing \cup {cur}
          /\ ended \subseteq ended' /\ ended' \subseteq ended \cup {cur}
          /\ ready' = ready \ {cur}
          /\ cur' = Nobody /\ src' = << >> /\ next' = 1 /\ stuck' = << >>
          /\ UNCHANGED <<alive, state, uploading, received, unopened, fileVars,
                         netVars, clientVars, acked, got>>
          /\ TypeOK
      BY <1>2 DEF SendEnd, Handled, StoreInv
    <2>1. cur \in Down /\ cur \in Conn /\ Nobody \notin Down
      BY <2>0, ConnAssumption DEF StoreInv, TypeOK, ReadySound, Conn
    <2>2. phase[cur] # "idle" /\ wire[cur] = << >> /\ state[cur] # "new"
      BY <2>1 DEF StoreInv, DownSound, Unserved, TalkSound, Talk
    <2>3. TypeOK'
      <3>1. /\ << >> \in Seq(Nat) /\ 1 \in Nat \ {0}
            /\ closing' \subseteq Conn /\ ended' \subseteq Down
        BY <2>0, <2>1 DEF TypeOK
      <3> QED BY <2>0, <3>1 DEF TypeOK
    <2>4. TalkSound'
      <3>1. PICK d \in Down : d = cur
        BY <2>1
      <3>2. Talk(d)' /\ DownTalk(d)' /\ d \notin Up /\ d \in Conn
        BY <2>0, <2>1, <2>2, <3>1, ConnAssumption
           DEF StoreInv, TalkSound, Talk, DownTalk, Conn
      <3> QED BY <2>0, <3>1, <3>2, TalkOthers DEF StoreInv
    <2>5. ReadySound'
      BY <2>0 DEF StoreInv, ReadySound
    <2>6. UploadSound'
      BY <2>0 DEF StoreInv, UploadSound, Stored
    <2>7. DownSound'
      <3>1. ASSUME NEW d \in Down
            PROVE  Unserved(d)'
        <4>1. Unserved(d)
          BY DEF StoreInv, DownSound
        <4> QED BY <2>0, <2>1, <2>2, <4>1 DEF Unserved
      <3> QED BY <3>1 DEF DownSound
    <2>8. SendSound'
      BY <2>0 DEF SendSound
    <2> QED BY <2>3, <2>4, <2>5, <2>6, <2>7, <2>8 DEF StoreInv
  <1> QED BY <1>1, <1>2

-----------------------------------------------------------------------------
(* The invariant holds, and with it the types. *)

(* A part of a record stays before the record it belongs to. *)
LEMMA PartInit == Init => PartSound
  BY DEF Init, PartSound

LEMMA PartNext == StoreInv /\ PartSound /\ [Next]_vars => PartSound'
  <1> SUFFICES ASSUME StoreInv, PartSound, [Next]_vars PROVE PartSound'
    OBVIOUS
  <1> USE DEF connVars, fileVars, netVars, clientVars, replyVars, sendVars,
              serverVars
  <1>0. /\ phase \in [Conn -> {"idle", "begun", "header", "asked", "finished"}]
        /\ part \subseteq Conn
    BY DEF StoreInv, TypeOK
  <1>1. ASSUME phase' = phase, part' \subseteq part
        PROVE  PartSound'
    BY <1>1 DEF PartSound
  <1>2. CASE \/ Select \/ ReadEnd \/ SendChunk \/ SendEnd \/ Die \/ UNCHANGED vars
             \/ \E c \in Conn : \/ HandOver(c) \/ Leave(c) \/ Close(c)
                                \/ NoRequest(c) \/ Refuse(c)
             \/ \E d \in Down : Stall(d) \/ StartDownload(d)
    BY <1>1, <1>2 DEF Select, ReadEnd, SendChunk, SendEnd, Die, vars, HandOver,
       Leave, Close, NoRequest, ReadPart, Refuse, Stall, StartDownload
  <1>3. ASSUME NEW u \in Up, Upload(u) \/ SendData(u)
        PROVE  PartSound'
    BY <1>1, <1>3 DEF Upload, StartUpload, WriteBlock, DropBlock, ReadNothing,
       Finish, SSLRead, CommandRead, ReadPart, SendData, Arrive, Die
  <1>4. ASSUME NEW c \in Conn, \/ Ask(c) \/ AskRest(c) \/ AskBody(c)
                               \/ (c \in Up /\ SendFinish(c))
        PROVE  PartSound'
    <2>1. /\ part' \subseteq part \cup {c}
          /\ \E s \in {"begun", "header", "asked", "finished"} :
               phase' = [phase EXCEPT ![c] = s]
      BY <1>4 DEF Ask, AskRest, Requests, AskBody, SendFinish, Arrive
    <2>2. /\ phase'[c] # "idle"
          /\ \A x \in Conn : x # c => phase'[x] = phase[x]
      BY <1>0, <2>1
    <2> QED BY <1>0, <2>1, <2>2 DEF PartSound
  <1>5. ASSUME NEW c \in Conn, ArriveInPart(c)
        PROVE  PartSound'
    <2>1. phase' = phase /\ part' = part \cup {c} /\ phase[c] # "idle"
      BY <1>5 DEF ArriveInPart
    <2> QED BY <2>1 DEF PartSound
  <1> QED BY <1>2, <1>3, <1>4, <1>5 DEF Next, File, Client, BodyMissing, Conn

LEMMA StoreInvNext == StoreInv /\ PartSound /\ [Next]_vars => StoreInv'
  <1> SUFFICES ASSUME StoreInv, PartSound, [Next]_vars PROVE StoreInv'
    OBVIOUS
  <1>1. CASE Select \/ ReadEnd
    BY <1>1, StoreSelect, StoreNothing
  <1>2. CASE SendChunk \/ SendEnd
    BY <1>2, StoreSendChunk, StoreSendEnd
  <1>3. ASSUME NEW c \in Conn,
               Close(c) \/ BodyMissing(c) \/ NoRequest(c) \/ Refuse(c)
        PROVE  StoreInv'
    BY <1>3, StoreClose, StoreQuiet, StoreNothing, StoreRefuse DEF BodyMissing
  <1>4. ASSUME NEW u \in Up, Upload(u)
        PROVE  StoreInv'
    BY <1>4, StoreStartUpload, StoreWriteBlock, StoreDropBlock, StoreNothing,
       StoreFinish DEF Upload
  <1>5. ASSUME NEW d \in Down, StartDownload(d) \/ Stall(d)
        PROVE  StoreInv'
    BY <1>5, StoreStartDownload, StoreQuiet
  <1>6. ASSUME NEW c \in Conn, Client(c)
        PROVE  StoreInv'
    BY <1>6, StoreHandOver, StoreAsk, StoreAskBody, StoreQuiet DEF Client
  <1>7. ASSUME NEW u \in Up, SendData(u) \/ SendFinish(u)
        PROVE  StoreInv'
    BY <1>7, StoreSendData, StoreSendFinish
  <1>8. CASE UNCHANGED vars
    BY <1>8, StoreQuiet
  <1> QED BY <1>1, <1>2, <1>3, <1>4, <1>5, <1>6, <1>7, <1>8 DEF Next, File

(* The invariant: requests come once and first, what is stored of an upload *)
(* is what was received of it, what is in OpenSSL and in the socket         *)
(* continues it, and nothing is sent twice.                                 *)
THEOREM Storage == Spec => [](StoreInv /\ PartSound)
  BY StoreInvInit, StoreInvNext, PartInit, PartNext, PTL DEF Spec

(* Every variable keeps its type, and never more is received than was       *)
(* announced.                                                               *)
THEOREM FileTypes == Spec => []TypeOK
  <1>1. StoreInv => TypeOK
    BY DEF StoreInv
  <1> QED BY <1>1, Storage, PTL

(* While an upload lasts, what is on disk, in the stream, in OpenSSL and in *)
(* the socket is what the client has sent.                                  *)
THEOREM Received == Spec => []ReceivedIsStored
  <1>1. StoreInv => ReceivedIsStored
    <2> SUFFICES ASSUME StoreInv, NEW u \in uploading, u \notin unopened
                 PROVE  disk[u] \o buffer[u] \o pend[u]
                          \o FlattenSeq([i \in DOMAIN wire[u] |->
                               IF wire[u][i].type = "data"
                               THEN wire[u][i].bytes ELSE << >>])
                          = Bytes(1, sent[u])
      BY DEF ReceivedIsStored
    <2> DEFINE r == received[u]
               p == r + Len(pend[u])
               l == sent[u]
               f == FlattenSeq([i \in DOMAIN wire[u] |->
                      IF wire[u][i].type = "data" THEN wire[u][i].bytes ELSE << >>])
    <2>1. /\ u \in Up /\ u \in Conn /\ Stored(u) /\ TypeOK
      BY DEF StoreInv, UploadSound, TypeOK, Conn
    <2>2. /\ r \in Nat /\ l \in Nat /\ Len(pend[u]) \in Nat
          /\ wire[u] \in Seq(Record)
      BY <2>1 DEF TypeOK
    <2>3. p \in Nat /\ r <= p
      BY <2>2
    <2>4. /\ disk[u] \o buffer[u] = Bytes(1, r) /\ pend[u] = Bytes(r + 1, p)
          /\ IsChain(wire[u], p, l)
      BY <2>1 DEF Stored
    <2> HIDE DEF p, r, l
    <2>5. p <= l /\ f = Bytes(p + 1, l)
      BY <2>2, <2>3, <2>4, ChainFlat
    <2> HIDE DEF f
    <2>6. \A n, k \in Nat : n <= k => Bytes(1, n) \o Bytes(n + 1, k) = Bytes(1, k)
      <3> SUFFICES ASSUME NEW n \in Nat, NEW k \in Nat, n <= k
                   PROVE  Bytes(1, n) \o Bytes(n + 1, k) = Bytes(1, k)
        OBVIOUS
      <3>1. 1 \in Nat /\ 1 <= n + 1
        OBVIOUS
      <3> QED BY <3>1, BytesJoin
    <2>7. Bytes(1, r) \o pend[u] = Bytes(1, p)
      BY <2>2, <2>3, <2>4, <2>6
    <2>8. Bytes(1, p) \o f = Bytes(1, l)
      BY <2>2, <2>3, <2>5, <2>6
    <2> QED BY <2>4, <2>7, <2>8 DEF f, l
  <1> QED BY <1>1, Storage, PTL

(* The acknowledgement of an upload is not too early by more than the walk  *)
(* that closes the connection.                                              *)
THEOREM Acknowledged == Spec => []AcknowledgedIsSaved
  <1>1. StoreInv => AcknowledgedIsSaved
    <2> SUFFICES ASSUME StoreInv, NEW u \in acked, state[u] = "closed"
                 PROVE  disk[u] = Bytes(1, size[u])
      BY DEF AcknowledgedIsSaved, Everything
    <2>1. /\ u \in Up /\ Stored(u) /\ disk[u] \in Seq(Nat)
      BY DEF StoreInv, TypeOK, UploadSound
    <2>2. disk[u] \o buffer[u] = Bytes(1, size[u]) /\ buffer[u] = << >>
      BY <2>1 DEF Stored
    <2>3. disk[u] \o << >> = disk[u]
      BY <2>1, ConcatEmptySeq
    <2> QED BY <2>2, <2>3
  <1> QED BY <1>1, Storage, PTL

-----------------------------------------------------------------------------
(* FileConn implements FileStore. *)

(* The bytes of the one are the bytes of the other. *)
LEMMA StoreBytes == \A m, n : Store!Bytes(m, n) = Bytes(m, n)
  BY DEF Bytes, Store!Bytes

LEMMA StoreInit == Init => Store!Init
  BY DEF Init, Store!Init

(* A request of an upload announces the file, one of a download names it.   *)
LEMMA AskIsStore ==
  ASSUME StoreInv, NEW c \in Conn, Ask(c)
  PROVE  Store!Next
  <1> USE DEF serverVars, replyVars, sendVars
  <1>0. /\ UNCHANGED <<acked, cur, src, got, ended>> /\ TypeOK /\ phase[c] = "idle"
    BY DEF Ask, StoreInv
  <1>1. CASE c \in Up
    <2>1. PICK n \in 0 .. MaxSize : size' = [size EXCEPT ![c] = n]
      BY <1>1, ConnAssumption DEF Ask
    <2>2. UNCHANGED <<wants, after>> /\ size[c] = 0 /\ c \notin acked
      BY <1>0, <1>1, ConnAssumption DEF Ask, StoreInv, UploadSound, Stored
    <2>3. size'[c] = n /\ n \in Nat
      BY <1>0, <1>1, <2>1 DEF TypeOK
    <2>4. Store!Upload(c)
      BY <1>0, <2>1, <2>2, <2>3 DEF Store!Upload
    <2> QED BY <1>1, <2>4 DEF Store!Next
  <1>2. CASE c \in Down
    <2>1. PICK u \in Up : /\ wants' = [wants EXCEPT ![c] = u]
                          /\ after' = [after EXCEPT ![c] = u \in acked]
      BY <1>2, ConnAssumption DEF Ask
    <2>2. size' = size /\ wants[c] = Nobody /\ ~after[c]
      BY <1>0, <1>2, ConnAssumption DEF Ask, StoreInv, TalkSound, DownTalk
    <2>3. /\ after'[c] <=> u \in acked
          /\ \A d \in Down : d # c => after'[d] = after[d]
      <3> DEFINE b == u \in acked
      <3>1. after' = [after EXCEPT ![c] = b] /\ (b <=> u \in acked)
        BY <2>1
      <3>2. after \in [Down -> BOOLEAN]
        BY <1>0 DEF TypeOK
      <3> HIDE DEF b
      <3>3. after'[c] = b /\ \A d \in Down : d # c => after'[d] = after[d]
        BY <1>2, <3>1, <3>2
      <3> QED BY <3>1, <3>3
    <2>4. {d \in Down : after'[d]}
            = IF u \in acked THEN {d \in Down : after[d]} \cup {c}
                             ELSE {d \in Down : after[d]}
      BY <1>2, <2>2, <2>3
    <2>5. Store!Ask(c)
      BY <1>0, <2>1, <2>2, <2>4 DEF Store!Ask
    <2> QED BY <1>2, <2>5 DEF Store!Next
  <1> QED BY <1>1, <1>2 DEF Conn

(* A download is served a part of the file from its beginning. *)
LEMMA StartDownloadIsStore ==
  ASSUME StoreInv, NEW d \in Down, StartDownload(d)
  PROVE  [Store!Next]_(Store!vars)
  <1> USE DEF clientVars, replyVars, sendVars
  <1>1. CASE Die
    BY <1>1 DEF Die, Store!vars
  <1>2. CASE ~Die
    <2>0. /\ AtRequest(d) /\ Whole(d) /\ pc = "read"
          /\ cur' = d /\ src' = disk[wants[d]]
          /\ UNCHANGED <<clientVars, replyVars>>
      BY <1>2 DEF StartDownload, AtRequest, Handles
    <2>1. /\ wants[d] \in Up /\ got[d] = << >> /\ d \notin ended
          /\ src' \in Seq(Nat) /\ src' = Bytes(1, Len(src'))
          /\ Len(src') <= size[wants[d]]
          /\ after[d] => Len(src') = size[wants[d]]
      BY <2>0, ServedFile
    <2>2. /\ size[wants[d]] \in Nat /\ Nobody \notin Up /\ cur = Nobody
      BY <2>0, <2>1, ConnAssumption DEF StoreInv, TypeOK, ReadySound, Conn
    <2>3. Len(src') \in 0 .. size[wants[d]]
      <3>1. Len(src') \in Nat
        BY <2>1
      <3> QED BY <2>1, <2>2, <3>1
    <2>4. src' = Store!Bytes(1, Len(src'))
      BY <2>1, StoreBytes
    <2>5. Store!Serve(d)
      BY <2>0, <2>1, <2>2, <2>3, <2>4 DEF Store!Serve
    <2> QED BY <2>5 DEF Store!Next
  <1> QED BY <1>1, <1>2

(* What a download gets did not go out before. *)
LEMMA SendChunkIsStore ==
  ASSUME StoreInv, SendChunk
  PROVE  [Store!Next]_(Store!vars)
  <1> USE DEF clientVars, replyVars, sendVars
  <1>1. CASE Die
    BY <1>1 DEF Die, Store!vars
  <1>2. CASE ~Die
    <2>0. /\ pc = "send" /\ next <= Chunks /\ SSLWrite
          /\ UNCHANGED <<clientVars, acked, ended, cur, src>>
          /\ cur # Nobody
      BY <1>2 DEF SendChunk, StoreInv, ReadySound
    <2>1. CASE got' = got
      BY <2>0, <2>1 DEF Store!vars
    <2>2. CASE \E i, j \in LastGot + 1 .. Len(src) :
                 got' = [got EXCEPT ![cur] = @ \o Bytes(i, j)]
      <3>1. Store!Got = LastGot
        BY DEF Store!Got, LastGot
      <3>2. Store!Deliver
        BY <2>0, <2>2, <3>1, StoreBytes DEF Store!Deliver
      <3> QED BY <3>2 DEF Store!Next
    <2> QED BY <2>0, <2>1, <2>2, WriteCases
  <1> QED BY <1>1, <1>2

LEMMA StoreNext == StoreInv /\ [Next]_vars => [Store!Next]_(Store!vars)
  <1> SUFFICES ASSUME StoreInv, [Next]_vars PROVE [Store!Next]_(Store!vars)
    OBVIOUS
  <1> USE DEF connVars, fileVars, netVars, clientVars, replyVars, sendVars,
              serverVars
  <1>1. CASE \/ Select \/ ReadEnd \/ Die \/ UNCHANGED vars
             \/ \E c \in Conn : \/ HandOver(c) \/ AskRest(c) \/ AskBody(c)
                                \/ ArriveInPart(c) \/ Leave(c) \/ Close(c)
                                \/ NoRequest(c) \/ Refuse(c)
             \/ \E u \in Up : \/ SendData(u) \/ SendFinish(u) \/ WriteBlock(u)
                              \/ DropBlock(u) \/ ReadNothing(u)
             \/ \E d \in Down : Stall(d)
    <2>1. UNCHANGED <<size, acked, wants, after, cur, src, got, ended>>
      BY <1>1 DEF Select, ReadEnd, Die, vars, HandOver, AskRest, AskBody,
         ArriveInPart, Leave, Close, NoRequest, Refuse, SendData, SendFinish, WriteBlock, DropBlock,
         ReadNothing, Stall
    <2> QED BY <2>1 DEF Store!vars
  <1>2. ASSUME NEW u \in Up, StartUpload(u)
        PROVE  [Store!Next]_(Store!vars)
    <2>1. UNCHANGED <<size, acked, wants, after, cur, src, got, ended>>
      BY <1>2 DEF StartUpload, Die
    <2> QED BY <2>1 DEF Store!vars
  <1>3. ASSUME NEW u \in Up, Finish(u)
        PROVE  [Store!Next]_(Store!vars)
    <2>1. /\ UNCHANGED <<size, wants, after, cur, src, got, ended>>
          /\ acked' = acked \cup {u} \/ acked' = acked
      BY <1>3 DEF Finish, Die
    <2>2. Store!Save(u) \/ UNCHANGED Store!vars
      BY <2>1 DEF Store!Save, Store!vars
    <2> QED BY <2>2 DEF Store!Next
  <1>4. CASE SendEnd
    <2>1. CASE Die
      BY <1>1, <2>1
    <2>2. CASE ~Die
      <3>1. /\ cur # Nobody
            /\ ended' = ended \cup {cur} \/ UNCHANGED ended
            /\ cur' = Nobody /\ src' = << >>
            /\ UNCHANGED <<size, acked, wants, after, got>>
        BY <1>4, <2>2 DEF SendEnd, StoreInv, ReadySound
      <3>2. Store!Finish
        BY <3>1 DEF Store!Finish
      <3> QED BY <3>2 DEF Store!Next
    <2> QED BY <2>1, <2>2
  <1>5. ASSUME NEW c \in Conn, Ask(c)
        PROVE  [Store!Next]_(Store!vars)
    BY <1>5, AskIsStore
  <1>6. ASSUME NEW d \in Down, StartDownload(d)
        PROVE  [Store!Next]_(Store!vars)
    BY <1>6, StartDownloadIsStore
  <1>7. CASE SendChunk
    BY <1>7, SendChunkIsStore
  <1> QED BY <1>1, <1>2, <1>3, <1>4, <1>5, <1>6, <1>7
          DEF Next, File, Client, Upload, BodyMissing

(* Uploads and downloads together are a store of files: an acknowledged     *)
(* upload is served whole to whoever asks after that, who asks earlier gets *)
(* a part from its beginning, in order and each byte at most once.          *)
THEOREM StoreImplemented == Spec => IsStore
  BY Storage, StoreInit, StoreNext, PTL DEF Spec, IsStore, Store!Spec

-----------------------------------------------------------------------------
(* A download that is ended is whole, when OpenSSL holds nothing back.      *)

(* How far the file that is sent has been written. *)
Reached == IF (next - 1) * Buffer <= Len(src) THEN (next - 1) * Buffer ELSE Len(src)

(* While a file is sent, a client that is there has got all that was        *)
(* written; the file is whole when it was saved before it was asked for.    *)
SendWhole ==
  pc = "send" =>
    /\ cur \notin ended
    /\ cur \notin gone => got[cur] = Bytes(1, Reached)
    /\ after[cur] => Len(src) = size[wants[cur]]

WholeInv ==
  /\ StoreInv
  /\ stuck = << >>
  /\ SendWhole
  /\ EndedIsWhole

(* A step that is not about the sending of a file and the requests. *)
LEMMA WholeFrame ==
  ASSUME WholeInv, StoreInv', UNCHANGED <<size, wants, after, got, ended, sendVars>>,
         pc' = "send" <=> pc = "send", gone \subseteq gone'
  PROVE  WholeInv'
  <1> USE DEF sendVars
  <1>1. stuck' = << >> /\ EndedIsWhole'
    BY DEF WholeInv, EndedIsWhole, Everything
  <1>2. SendWhole'
    BY DEF WholeInv, SendWhole, Reached
  <1> QED BY <1>1, <1>2 DEF WholeInv

(* Who asks has not been served; an upload that is announced was not saved. *)
LEMMA WholeAsk ==
  ASSUME WholeInv, StoreInv', NEW c \in Conn, Ask(c)
  PROVE  WholeInv'
  <1> USE DEF serverVars, replyVars, sendVars
  <1>0. /\ UNCHANGED <<acked, got, ended, pc, cur, src, next, stuck, gone>>
        /\ phase[c] = "idle" /\ TypeOK
    BY DEF Ask, WholeInv, StoreInv
  <1>1. c \in Up => c \notin acked
    BY <1>0 DEF WholeInv, StoreInv, UploadSound, Stored
  <1>2. c \in Down => c \notin ended /\ c # cur /\ ~after[c]
    BY <1>0 DEF WholeInv, StoreInv, DownSound, Unserved, TalkSound, DownTalk
  <1>3. ASSUME NEW d \in Down, d \in ended \/ d = cur
        PROVE  after'[d] = after[d] /\ (after[d] => size'[wants'[d]] = size[wants[d]])
    <2>1. d # c /\ after'[d] = after[d] /\ wants'[d] = wants[d]
      <3>1. d # c
        BY <1>2, <1>3
      <3>2. CASE c \in Up
        BY <3>2, ConnAssumption DEF Ask
      <3>3. CASE c \in Down
        <4>1. \E u \in Up : /\ wants' = [wants EXCEPT ![c] = u]
                            /\ after' = [after EXCEPT ![c] = u \in acked]
          BY <3>3, ConnAssumption DEF Ask
        <4> QED BY <1>0, <3>1, <4>1 DEF TypeOK
      <3> QED BY <3>1, <3>2, <3>3 DEF Conn
    <2>2. after[d] => wants[d] \in acked
      BY DEF WholeInv, StoreInv, TalkSound, DownTalk
    <2>3. \A u \in Up : u \in acked => size'[u] = size[u]
      <3>1. CASE c \in Up
        BY <1>0, <1>1, <3>1, ConnAssumption DEF Ask, TypeOK
      <3>2. CASE c \in Down
        BY <3>2, ConnAssumption DEF Ask
      <3> QED BY <3>1, <3>2 DEF Conn
    <2>4. acked \subseteq Up
      BY <1>0 DEF TypeOK
    <2> QED BY <2>1, <2>2, <2>3, <2>4
  <1>4. EndedIsWhole'
    <2>1. \A d \in ended : d \in Down
      BY <1>0 DEF TypeOK
    <2> QED BY <1>0, <1>3, <2>1 DEF WholeInv, EndedIsWhole, Everything
  <1>5. SendWhole'
    <2>1. pc = "send" => cur \in Down
      BY <1>0 DEF WholeInv, StoreInv, ReadySound, TypeOK
    <2> QED BY <1>0, <1>3, <2>1 DEF WholeInv, SendWhole, Reached
  <1> QED BY <1>0, <1>4, <1>5 DEF WholeInv

(* A download that is begun reads the file from its beginning. *)
LEMMA WholeStartDownload ==
  ASSUME WholeInv, StoreInv', NEW d \in Down, StartDownload(d), ~Die
  PROVE  WholeInv'
  <1> USE DEF clientVars, replyVars
  <1>0. /\ AtRequest(d) /\ Whole(d)
        /\ cur' = d /\ src' = disk[wants[d]] /\ next' = 1
        /\ UNCHANGED <<clientVars, replyVars, stuck>>
    BY DEF StartDownload
  <1>1. /\ got[d] = << >> /\ d \notin ended /\ Len(src') \in Nat
        /\ after[d] => Len(src') = size[wants[d]]
    BY <1>0, ServedFile DEF WholeInv
  <1>2. Reached' = 0
    BY <1>0, <1>1, SizesAssumption DEF Reached
  <1>3. Bytes(1, 0) = << >>
    BY DEF Bytes
  <1>4. SendWhole'
    BY <1>0, <1>1, <1>2, <1>3 DEF SendWhole
  <1>5. EndedIsWhole' /\ stuck' = << >>
    BY <1>0 DEF WholeInv, EndedIsWhole, Everything
  <1> QED BY <1>4, <1>5 DEF WholeInv

(* A chunk that is written comes behind what the client has got. *)
LEMMA WholeSendChunk ==
  ASSUME WholeInv, StoreInv', SendChunk, ~Die, "full" \notin Faults
  PROVE  WholeInv'
  <1> USE DEF netVars, clientVars
  <1>0. /\ pc = "send" /\ next <= Chunks /\ next' = next + 1
        /\ UNCHANGED <<clientVars, ended, pc, cur, src>>
        /\ stuck = << >> /\ stuck' = << >>
        /\ IF cur \in gone THEN got' = got
                           ELSE got' = [got EXCEPT ![cur] = @ \o Chunk]
    BY DEF SendChunk, NextChunk, SSLWrite, Delivered, WholeInv
  <1>1. /\ cur \in Down /\ got \in [Down -> Seq(Nat)] /\ next \in Nat \ {0}
        /\ Len(src) \in Nat /\ Buffer \in Nat \ {0} /\ cur \notin ended
    BY <1>0, SizesAssumption
       DEF WholeInv, StoreInv, TypeOK, ReadySound, SendWhole
  <1> DEFINE l == Len(src)
             p == (next - 1) * Buffer
             q == next * Buffer
             j == IF q <= l THEN q ELSE l
  <1>2. /\ p \in Nat /\ q = p + Buffer /\ p + 1 <= l
        /\ Chunk = Bytes(p + 1, j)
    BY <1>0, ChunkExact DEF WholeInv
  <1>3. Reached = p /\ Reached' = j
    <2>1. Reached = IF p <= l THEN p ELSE l
      BY DEF Reached
    <2>2. next' - 1 = next /\ Len(src') = l
      BY <1>0, <1>1
    <2>3. Reached' = j
      BY <2>2 DEF Reached
    <2> HIDE DEF p, l
    <2> QED BY <1>1, <1>2, <2>1, <2>3 DEF l
  <1> HIDE DEF l, p, q
  <1>4. cur \notin gone => got'[cur] = Bytes(1, j)
    <2> SUFFICES ASSUME cur \notin gone PROVE got'[cur] = Bytes(1, j)
      OBVIOUS
    <2>1. got'[cur] = got[cur] \o Chunk /\ got[cur] = Bytes(1, p)
      BY <1>0, <1>1, <1>3 DEF WholeInv, SendWhole
    <2>2. j \in Nat /\ p <= j /\ 1 \in Nat /\ 1 <= p + 1
      BY <1>1, <1>2 DEF l
    <2>3. \A x, y, z \in Nat : x <= y + 1 /\ y <= z
                                 => Bytes(x, y) \o Bytes(y + 1, z) = Bytes(x, z)
      BY BytesJoin
    <2> HIDE DEF j
    <2>4. Bytes(1, p) \o Bytes(p + 1, j) = Bytes(1, j)
      BY <1>2, <2>2, <2>3
    <2> QED BY <1>2, <2>1, <2>4
  <1>5. SendWhole'
    BY <1>0, <1>1, <1>3, <1>4 DEF SendWhole, WholeInv
  <1>6. EndedIsWhole'
    <2>1. \A d \in ended : got'[d] = got[d]
      BY <1>0, <1>1 DEF WholeInv, StoreInv, TypeOK
    <2> QED BY <1>0, <2>1 DEF WholeInv, EndedIsWhole, Everything
  <1> QED BY <1>0, <1>5, <1>6 DEF WholeInv

(* The reader has come to the end of the file when no chunk is left. *)
LEMMA ChunksEnd ==
  ASSUME NEW b \in Nat \ {0}, NEW n \in Nat, NEW k \in Nat \ {0},
         k > (n + b - 1) \div b
  PROVE  (k - 1) * b \in Nat /\ n <= (k - 1) * b
  <1> DEFINE q == (n + b - 1) \div b
  <1>1. q \in Int /\ n + b - 1 < q * b + b
    OBVIOUS
  <1> HIDE DEF q
  <1>2. q <= k - 1
    BY <1>1 DEF q
  <1>3. q * b <= (k - 1) * b
    BY <1>1, <1>2
  <1>4. (k - 1) * b \in Nat
    OBVIOUS
  <1> QED BY <1>1, <1>3, <1>4

(* The command that ends a download is behind the whole file. *)
LEMMA WholeSendEnd ==
  ASSUME WholeInv, StoreInv', SendEnd, ~Die, "full" \notin Faults
  PROVE  WholeInv'
  <1> USE DEF clientVars
  <1>0. /\ pc = "send" /\ next > Chunks /\ pc' = "read" /\ stuck' = << >>
        /\ ended' = ended \/ (cur \notin gone /\ ended' = ended \cup {cur})
        /\ UNCHANGED <<clientVars, got>>
    BY DEF SendEnd
  <1>1. /\ next \in Nat \ {0} /\ Len(src) \in Nat /\ Buffer \in Nat \ {0}
    BY SizesAssumption DEF WholeInv, StoreInv, TypeOK
  <1>2. Reached = Len(src)
    <2>1. (next - 1) * Buffer \in Nat /\ Len(src) <= (next - 1) * Buffer
      BY <1>0, <1>1, ChunksEnd DEF Chunks
    <2> QED BY <1>1, <2>1 DEF Reached
  <1>3. cur \notin gone /\ after[cur] => got[cur] = Bytes(1, size[wants[cur]])
    BY <1>0, <1>2 DEF WholeInv, SendWhole
  <1>4. EndedIsWhole'
    BY <1>0, <1>3 DEF WholeInv, EndedIsWhole, Everything
  <1> QED BY <1>0, <1>4 DEF WholeInv, SendWhole

LEMMA WholeInvNext ==
  ASSUME "full" \notin Faults, WholeInv, PartSound, [Next]_vars
  PROVE  WholeInv'
  <1> USE DEF connVars, fileVars, netVars, clientVars, replyVars, sendVars,
              serverVars
  <1>0. StoreInv'
    BY StoreInvNext DEF WholeInv
  <1>1. CASE \/ Select \/ ReadEnd \/ Die \/ UNCHANGED vars
             \/ \E c \in Conn : \/ HandOver(c) \/ AskRest(c) \/ AskBody(c)
                                \/ ArriveInPart(c) \/ Leave(c) \/ Close(c)
                                \/ NoRequest(c) \/ Refuse(c)
             \/ \E u \in Up : \/ SendData(u) \/ SendFinish(u) \/ WriteBlock(u)
                              \/ DropBlock(u) \/ ReadNothing(u)
             \/ \E d \in Down : Stall(d)
    <2>1. /\ UNCHANGED <<size, wants, after, got, ended, sendVars>>
          /\ pc' = "send" <=> pc = "send"
          /\ gone \subseteq gone'
      BY <1>1 DEF Select, ReadEnd, Die, vars, HandOver, AskRest, AskBody,
         ArriveInPart, Leave, Close, NoRequest, Refuse, SendData, SendFinish, WriteBlock, DropBlock,
         ReadNothing, Stall
    <2> QED BY <1>0, <2>1, WholeFrame
  <1>2. ASSUME NEW u \in Up, StartUpload(u) \/ Finish(u)
        PROVE  WholeInv'
    <2>1. /\ UNCHANGED <<size, wants, after, got, ended, sendVars>>
          /\ pc' = "send" <=> pc = "send"
          /\ gone \subseteq gone'
      BY <1>2 DEF StartUpload, Finish, Die
    <2> QED BY <1>0, <2>1, WholeFrame
  <1>3. ASSUME NEW c \in Conn, Ask(c)
        PROVE  WholeInv'
    BY <1>0, <1>3, WholeAsk
  <1>4. ASSUME NEW d \in Down, StartDownload(d)
        PROVE  WholeInv'
    BY <1>0, <1>1, <1>4, WholeStartDownload
  <1>5. CASE SendChunk \/ SendEnd
    BY <1>0, <1>1, <1>5, WholeSendChunk, WholeSendEnd
  <1> QED BY <1>1, <1>2, <1>3, <1>4, <1>5
          DEF Next, File, Client, Upload, BodyMissing

(* A client that is told that its download is complete has the whole file,  *)
(* when it was saved before it asked: the acknowledgement, the walk that    *)
(* closes the upload, the order of the request and the reader's chunks have *)
(* to be right for that.  When a socket may take a part of a chunk it does  *)
(* not hold, because send_Data drops what SSL_write returns.                *)
THEOREM DownloadsWhole ==
  ASSUME "full" \notin Faults
  PROVE  Spec => []EndedIsWhole
  <1>1. Init => WholeInv
    BY StoreInvInit DEF WholeInv, Init, SendWhole, EndedIsWhole
  <1>2. WholeInv /\ PartSound /\ [Next]_vars => WholeInv'
    BY WholeInvNext
  <1>3. WholeInv => EndedIsWhole
    BY DEF WholeInv
  <1> QED BY <1>1, <1>2, <1>3, Storage, PTL DEF Spec

-----------------------------------------------------------------------------
(* The command that ends an upload is read as one. *)

(* A step that keeps the socket of an upload, whose end was sent, readable. *)
LEMMA WaitsFrame ==
  ASSUME FinishWaits, closing \subseteq closing', unopened \subseteq unopened',
         \A u \in Up :
           /\ phase'[u] = "finished" => phase[u] = "finished"
           /\ wire[u] # << >> /\ Last(wire[u]).type = "finish" =>
                wire'[u] # << >> /\ Last(wire'[u]).type = "finish"
  PROVE  FinishWaits'
  BY DEF FinishWaits

(* What arrives, arrives before the end of an upload is sent, or is it. *)
LEMMA WaitsArrive ==
  ASSUME StoreInv, FinishWaits, NEW c \in Conn, NEW m \in Record, Arrive(c, m),
         phase[c] # "finished",
         \A x \in Conn : x # c => phase'[x] = phase[x],
         phase'[c] = "finished" => m.type = "finish",
         UNCHANGED connVars
  PROVE  FinishWaits'
  <1> USE DEF connVars
  <1>1. /\ \A x \in Conn : x # c => wire'[x] = wire[x]
        /\ wire'[c] # << >> /\ Last(wire'[c]) = m
    BY ArriveWire DEF StoreInv, Last
  <1> QED BY <1>1 DEF FinishWaits, Conn

(* A request is not the end of an upload. *)
LEMMA WaitsRequest ==
  ASSUME StoreInv, FinishWaits, NEW c \in Conn, AtRequest(c), Whole(c),
         Requested(c), phase' = phase,
         closing \subseteq closing', unopened \subseteq unopened'
  PROVE  FinishWaits'
  <1>1. /\ \A x \in Conn : x # c => wire'[x] = wire[x]
        /\ Last(wire[c]).type = "finish" =>
             wire'[c] # << >> /\ Last(wire'[c]).type = "finish"
    BY RequestRead
  <1>2. \A u \in Up : wire[u] # << >> /\ Last(wire[u]).type = "finish" =>
                        wire'[u] # << >> /\ Last(wire'[u]).type = "finish"
    BY <1>1 DEF Conn
  <1> QED BY <1>2, WaitsFrame

(* Nor is a block of data. *)
LEMMA WaitsWriteBlock ==
  ASSUME StoreInv, FinishWaits, NEW u \in Up, WriteBlock(u)
  PROVE  FinishWaits'
  <1> USE DEF clientVars
  <1>0. /\ WriteData(u) /\ u \notin unopened /\ SSLRead(u)
        /\ pend[u] # << >> \/ wire[u] # << >>
        /\ UNCHANGED <<phase, closing, unopened>>
    BY DEF WriteBlock
  <1>1. wire \in [Conn -> Seq(Record)] /\ u \in Conn /\ wire[u] \in Seq(Record)
    BY DEF StoreInv, TypeOK, Conn
  <1>2. CASE pend[u] # << >>
    <2>1. wire' = wire
      BY <1>0, <1>2 DEF SSLRead
    <2> QED BY <1>0, <2>1, WaitsFrame
  <1>3. CASE pend[u] = << >>
    <2> DEFINE w == wire[u]
               t == Tail(w)
    <2>1. w # << >> /\ w[1].type = "data" /\ w \in Seq(Record)
      <3>1. Head(w).type = "data" /\ w # << >>
        BY <1>0, <1>3, DataNext
      <3> QED BY <1>1, <3>1
    <2>2. wire' = [wire EXCEPT ![u] = t]
      BY <1>0, <1>3 DEF SSLRead
    <2>3. /\ t \in Seq(Record) /\ Len(t) = Len(w) - 1 /\ Len(w) \in Nat \ {0}
          /\ \A i \in 1 .. Len(w) - 1 : t[i] = w[i + 1]
      BY <2>1
    <2> HIDE DEF t
    <2>4. w[Len(w)].type = "finish" => t # << >> /\ t[Len(t)].type = "finish"
      <3> HIDE DEF w
      <3> SUFFICES ASSUME w[Len(w)].type = "finish"
                   PROVE  t # << >> /\ t[Len(t)].type = "finish"
        OBVIOUS
      <3>1. Len(w) # 1
        BY <2>1
      <3>2. Len(t) \in 1 .. Len(w) - 1 /\ Len(t) + 1 = Len(w) /\ Len(t) # 0
        BY <2>3, <3>1
      <3> QED BY <2>3, <3>2
    <2>5. \A x \in Up : wire[x] # << >> /\ Last(wire[x]).type = "finish" =>
                          wire'[x] # << >> /\ Last(wire'[x]).type = "finish"
      <3>1. wire'[u] = t /\ \A x \in Conn : x # u => wire'[x] = wire[x]
        BY <1>1, <2>2
      <3>2. Last(w) = w[Len(w)] /\ Last(t) = t[Len(t)]
        BY DEF Last
      <3> QED BY <2>4, <3>1, <3>2 DEF Conn
    <2> QED BY <1>0, <2>5, WaitsFrame
  <1> QED BY <1>2, <1>3

(* A step that takes from the socket of one upload only, whose end does not *)
(* matter any more.                                                         *)
LEMMA WaitsTake ==
  ASSUME FinishWaits, NEW u \in Up, u \in closing' \cup unopened',
         \A x \in Conn : x # u => wire'[x] = wire[x],
         phase' = phase, closing \subseteq closing', unopened \subseteq unopened'
  PROVE  FinishWaits'
  BY DEF FinishWaits, Conn

LEMMA FinishWaitsNext ==
  ASSUME StoreInv, FinishWaits, [Next]_vars
  PROVE  FinishWaits'
  <1> USE DEF connVars, netVars, clientVars, serverVars
  <1>1. CASE \/ Select \/ ReadEnd \/ SendChunk \/ SendEnd \/ Die \/ UNCHANGED vars
             \/ \E c \in Conn : \/ HandOver(c) \/ ArriveInPart(c) \/ Leave(c)
                                \/ Close(c) \/ NoRequest(c)
             \/ \E u \in Up : ReadNothing(u)
             \/ \E d \in Down : Stall(d)
    <2>1. /\ UNCHANGED <<phase, wire, unopened>> /\ closing \subseteq closing'
      BY <1>1 DEF Select, ReadEnd, SendChunk, SendEnd, Die, vars, HandOver,
         ArriveInPart, Leave, Close, NoRequest, ReadNothing, ReadPart, Stall
    <2> QED BY <2>1, WaitsFrame
  <1>2. ASSUME NEW c \in Conn, Ask(c) \/ AskRest(c) \/ AskBody(c)
        PROVE  FinishWaits'
    <2>1. /\ UNCHANGED connVars
          /\ phase[c] # "finished"
          /\ \E s \in {"begun", "asked", "header"} : phase' = [phase EXCEPT ![c] = s]
          /\ \/ \E t \in {"request", "header", "body"} : Arrive(c, Message(t))
             \/ UNCHANGED wire
      BY <1>2 DEF Ask, AskRest, Requests, AskBody
    <2>2. /\ phase'[c] # "finished"
          /\ \A x \in Conn : x # c => phase'[x] = phase[x]
      BY <2>1 DEF StoreInv, TypeOK
    <2>3. ASSUME NEW t \in {"request", "header", "body"}, Arrive(c, Message(t))
          PROVE  FinishWaits'
      BY <2>1, <2>2, <2>3, MessageType, WaitsArrive
    <2>4. CASE UNCHANGED wire
      BY <2>1, <2>2, <2>4 DEF FinishWaits, Conn
    <2> QED BY <2>1, <2>3, <2>4
  <1>3. ASSUME NEW u \in Up, SendData(u)
        PROVE  FinishWaits'
    <2>0. /\ UNCHANGED <<connVars, phase>> /\ phase[u] = "asked" /\ u \in Conn
          /\ sent[u] \in Nat
      BY <1>3 DEF SendData, StoreInv, TypeOK, Conn
    <2>1. PICK n \in 1 .. MaxRecord :
            Arrive(u, [type |-> "data", bytes |-> Bytes(sent[u] + 1, sent[u] + n)])
      BY <1>3 DEF SendData
    <2>2. Bytes(sent[u] + 1, sent[u] + n) \in Seq(Nat)
      <3>1. /\ sent[u] + 1 \in Nat /\ sent[u] + n \in Nat
            /\ sent[u] + 1 <= sent[u] + n + 1
        BY <2>0, SizesAssumption
      <3> QED BY <3>1, BytesElements
    <2>3. [type |-> "data", bytes |-> Bytes(sent[u] + 1, sent[u] + n)] \in Record
      BY <2>2 DEF Record
    <2> QED BY <2>0, <2>1, <2>3, WaitsArrive
  <1>4. ASSUME NEW u \in Up, SendFinish(u)
        PROVE  FinishWaits'
    <2>1. /\ UNCHANGED connVars /\ phase[u] = "asked" /\ u \in Conn
          /\ Arrive(u, Message("finish"))
          /\ \A x \in Conn : x # u => phase'[x] = phase[x]
      BY <1>4 DEF SendFinish, StoreInv, TypeOK, Conn
    <2>2. Message("finish") \in Record /\ Message("finish").type = "finish"
      BY MessageType
    <2> QED BY <2>1, <2>2, WaitsArrive
  <1>5. ASSUME NEW c \in Conn, Refuse(c)
        PROVE  FinishWaits'
    <2>1. /\ AtRequest(c) /\ Whole(c) /\ Requested(c)
          /\ phase' = phase /\ closing \subseteq closing' /\ unopened' = unopened
      BY <1>5 DEF Refuse
    <2> QED BY <2>1, WaitsRequest
  <1>6. ASSUME NEW u \in Up, StartUpload(u), ~Die
        PROVE  FinishWaits'
    <2>1. /\ AtRequest(u) /\ Whole(u) /\ Requested(u) /\ u \in Conn
          /\ phase' = phase /\ closing' = closing /\ unopened \subseteq unopened'
      BY <1>6 DEF StartUpload, Conn
    <2> QED BY <2>1, WaitsRequest
  <1>7. ASSUME NEW d \in Down, StartDownload(d), ~Die
        PROVE  FinishWaits'
    <2>1. /\ AtRequest(d) /\ Whole(d) /\ Requested(d) /\ d \in Conn
          /\ phase' = phase /\ closing' = closing /\ unopened' = unopened
      BY <1>7 DEF StartDownload, Conn
    <2> QED BY <2>1, WaitsRequest
  <1>8. ASSUME NEW u \in Up, WriteBlock(u)
        PROVE  FinishWaits'
    BY <1>8, WaitsWriteBlock
  <1>9. ASSUME NEW u \in Up, DropBlock(u) \/ (Finish(u) /\ ~Die)
        PROVE  FinishWaits'
    <2>1. /\ u \in closing' \cup unopened' /\ phase' = phase
          /\ closing \subseteq closing' /\ unopened' = unopened
      BY <1>9 DEF DropBlock, Finish
    <2>2. \A x \in Conn : x # u => wire'[x] = wire[x]
      BY <1>9 DEF DropBlock, Finish, CommandRead, ReadPart, SSLRead, StoreInv, TypeOK
    <2> QED BY <2>1, <2>2, WaitsTake
  <1> QED BY <1>1, <1>2, <1>3, <1>4, <1>5, <1>6, <1>7, <1>8, <1>9
          DEF Next, File, Client, Upload, BodyMissing

(* The command that ends an upload is not taken for data, nor lost with the *)
(* request: until it is read as a command the socket stays readable, so     *)
(* select() keeps reporting an upload whose last bytes OpenSSL holds.       *)
THEOREM UploadStaysReadable == Spec => []FinishWaits
  <1>1. Init => FinishWaits
    BY DEF Init, FinishWaits, Conn
  <1>2. StoreInv /\ FinishWaits /\ [Next]_vars => FinishWaits'
    BY FinishWaitsNext
  <1> QED BY <1>1, <1>2, Storage, PTL DEF Spec
=============================================================================
