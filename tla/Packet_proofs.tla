----------------------------- MODULE Packet_proofs -----------------------------
(* Proofs about Packet, for every number and every string. *)
EXTENDS Packet, SequenceTheorems, TLAPS

(* The first elements of a concatenation are those of its first part. *)
LEMMA JoinedElements ==
  ASSUME NEW S, NEW a \in Seq(S), NEW b \in Seq(S)
  PROVE  /\ a \o b \in Seq(S)
         /\ Len(a \o b) = Len(a) + Len(b)
         /\ \A k \in 1 .. Len(a) : (a \o b)[k] = a[k]
         /\ \A k \in 1 .. Len(b) : (a \o b)[Len(a) + k] = b[k]
  OBVIOUS

(* The elements and the length of a slice. *)
LEMMA SliceElements ==
  ASSUME NEW S, NEW s \in Seq(S), NEW m \in Nat, NEW n \in Nat,
         1 <= m, m <= n + 1, n <= Len(s)
  PROVE  /\ SubSeq(s, m, n) \in Seq(S)
         /\ Len(SubSeq(s, m, n)) = n - m + 1
         /\ \A k \in 1 .. n - m + 1 : SubSeq(s, m, n)[k] = s[m + k - 1]
  OBVIOUS

(* The numbers getCMDHeader can read back: every byte is below 128. *)
Plain(n) ==
  /\ n \in Natural
  /\ (n \div 65536) % 256 < 128
  /\ (n \div 256) % 256 < 128
  /\ n % 256 < 128

(* The four bytes buildIntField writes, and that the first is not negative. *)
LEMMA Bytes ==
  ASSUME NEW n \in Natural
  PROVE  /\ n \in Int
         /\ (n \div 16777216) % 256 \in Int
         /\ 0 <= (n \div 16777216) % 256 /\ (n \div 16777216) % 256 < 128
         /\ (n \div 65536) % 256 \in Byte
         /\ (n \div 256) % 256 \in Byte
         /\ n % 256 \in Byte
  BY SMT DEF Natural, Byte

(* buildIntField writes four bytes. *)
LEMMA IntFieldBytes ==
  ASSUME NEW n \in Natural
  PROVE  IntField(n) \in Seq(Byte) /\ Len(IntField(n)) = 4
  <1>1. \A k \in Int : 0 <= k /\ k < 128 => k \in Byte
    BY SMT DEF Byte
  <1> DEFINE a == (n \div 16777216) % 256
             b == (n \div 65536) % 256
             c == (n \div 256) % 256
             e == n % 256
  <1>2. a \in Byte /\ b \in Byte /\ c \in Byte /\ e \in Byte
    BY Bytes, <1>1
  <1>3. IntField(n) = << a, b, c, e >>
    BY SMT DEF IntField
  <1> HIDE DEF a, b, c, e
  <1> QED BY <1>2, <1>3, SMT

(* Four remainders put together again. *)
LEMMA Shifts ==
  ASSUME NEW n \in Int, NEW x \in Int, NEW y \in Int, NEW z \in Int,
         NEW b \in Int, NEW c \in Int, NEW e \in Int,
         n - 256 * x = e, x - 256 * y = c, y - 256 * z = b
  PROVE  z * 16777216 + b * 65536 + c * 256 + e = n
  BY SMT

(* getCMDHeader reads back what buildIntField wrote, whatever follows it in *)
(* the packet, exactly when every byte of the number is below 128: the      *)
(* numbers of the protocol that are safe to send, and no others.            *)
THEOREM NumberRoundTrip ==
  ASSUME NEW n \in Natural, NEW d \in Seq(Byte)
  PROVE  HeaderValue(IntField(n) \o d) = n <=> Plain(n)
  <1> DEFINE a == (n \div 16777216) % 256
             b == (n \div 65536) % 256
             c == (n \div 256) % 256
             e == n % 256
             x == n \div 256
             y == n \div 65536
             z == n \div 16777216
             p == IntField(n) \o d
  <1>0. /\ a \in Int /\ 0 <= a /\ a < 128 /\ n \in Int
        /\ b \in Byte /\ c \in Byte /\ e \in Byte
    BY Bytes
  <1>1. a * 16777216 + b * 65536 + c * 256 + e = n
    <2>1. n \in Int /\ 0 <= n /\ n <= 2147483647
      BY SMT DEF Natural
    <2>2. /\ n - 256 * x = e /\ x - 256 * y = c /\ y - 256 * z = b /\ a = z
          /\ x \in Int /\ y \in Int /\ z \in Int
      BY <2>1, SMT
    <2>3. b \in Int /\ c \in Int /\ e \in Int
      BY <1>0, SMT DEF Byte
    <2> HIDE DEF a, b, c, e, x, y, z
    <2>4. z * 16777216 + b * 65536 + c * 256 + e = n
      BY <2>1, <2>2, <2>3, Shifts, SMT
    <2> QED BY <2>2, <2>4, SMT
  <1>2. p[1] = a /\ p[2] = b /\ p[3] = c /\ p[4] = e
    <2>1. /\ IntField(n) \in Seq(Byte) /\ Len(IntField(n)) = 4
          /\ IntField(n)[1] = a /\ IntField(n)[2] = b /\ IntField(n)[3] = c
          /\ IntField(n)[4] = e
      BY IntFieldBytes, SMT DEF IntField
    <2>2. \A k \in 1 .. Len(IntField(n)) : p[k] = IntField(n)[k]
      BY <2>1, JoinedElements DEF p
    <2> HIDE DEF a, b, c, e, p
    <2>3. p[1] = IntField(n)[1] /\ p[2] = IntField(n)[2]
          /\ p[3] = IntField(n)[3] /\ p[4] = IntField(n)[4]
      BY <2>1, <2>2, SMT
    <2> QED BY <2>1, <2>3
  <1>3. HeaderValue(p) = Signed(a) * 16777216 + Signed(b) * 65536
                           + Signed(c) * 256 + Signed(e)
    <2> HIDE DEF a, b, c, e, p
    <2> QED BY <1>2, SMT DEF HeaderValue
  <1>4. Plain(n) <=> b < 128 /\ c < 128 /\ e < 128
    BY SMT DEF Plain
  <1> HIDE DEF a, b, c, e, p
  <1>5. Signed(a) = a
    BY <1>0, SMT DEF Signed
  <1>6. ASSUME b < 128, c < 128, e < 128
        PROVE  HeaderValue(p) = n
    <2>1. Signed(b) = b /\ Signed(c) = c /\ Signed(e) = e
      BY <1>6, SMT DEF Signed
    <2> QED BY <1>1, <1>3, <1>5, <2>1, SMT
  <1>7. ASSUME ~(b < 128 /\ c < 128 /\ e < 128)
        PROVE  HeaderValue(p) # n
    <2>1. /\ Signed(b) \in Int /\ Signed(c) \in Int /\ Signed(e) \in Int
          /\ Signed(b) <= b /\ Signed(c) <= c /\ Signed(e) <= e
      BY <1>0, SMT DEF Signed, Byte
    <2>2. Signed(b) < b \/ Signed(c) < c \/ Signed(e) < e
      BY <1>0, <1>7, SMT DEF Signed, Byte
    <2>3. a \in Int /\ b \in Int /\ c \in Int /\ e \in Int
      BY <1>0, SMT DEF Byte
    <2> QED BY <1>1, <1>3, <1>5, <2>1, <2>2, <2>3, SMT
  <1>8. HeaderValue(p) = n <=> Plain(n)
    BY <1>4, <1>6, <1>7, SMT
  <1> QED BY <1>8, SMT DEF p

-----------------------------------------------------------------------------
(* A whole conversation: what is read is what was written.  This holds for  *)
(* numbers and string lengths that can be read back at all, and those are   *)
(* the plain ones (NumberRoundTrip).                                        *)

AllPlain ==
  /\ \A n \in Numbers : Plain(n)
  /\ \A s \in Strings : Plain(Len(s))

Field == {Number(n) : n \in Numbers} \cup {String(s) : s \in Strings}

(* The bytes a field stands for. *)
Wire(f) == IF f.type = "int" THEN IntField(f.value[1]) ELSE StringField(f.value)

(* e cuts the bytes d at the ends of the fields f: between two cuts stand   *)
(* the bytes of one field and no others.                                    *)
Frames(e, d, f) ==
  /\ e \in [0 .. Len(f) -> Nat]
  /\ e[0] = 0 /\ e[Len(f)] = Len(d)
  /\ \A i, j \in 0 .. Len(f) : i <= j => e[i] <= e[j]
  /\ \A i \in 1 .. Len(f) : e[i] = e[i - 1] + Len(Wire(f[i]))
  /\ \A i \in 1 .. Len(f) : \A k \in 1 .. Len(Wire(f[i])) :
       d[e[i - 1] + k] = Wire(f[i])[k]

(* The packet holds the unread fields, one after the other.  Without this   *)
(* ReadsWhatWasWritten is not inductive: a read takes whatever the vector   *)
(* begins with.                                                             *)
Framed == \E e : Frames(e, data, fields)

PacketInv ==
  /\ data \in Seq(Byte) /\ fields \in Seq(Field) /\ appended \in 0 .. MaxFields
  /\ expected \in Seq(Natural) /\ got = expected /\ failed = FALSE
  /\ Framed

(* A field's type and value. *)
LEMMA FieldKinds ==
  ASSUME NEW f \in Field
  PROVE  \/ \E n \in Numbers : f = Number(n) /\ f.type = "int"
                               /\ f.value = << n >> /\ Wire(f) = IntField(n)
         \/ \E s \in Strings : f = String(s) /\ f.type = "string"
                               /\ f.value = s
                               /\ Wire(f) = IntField(Len(s)) \o s
  <1>1. CASE f \in {Number(n) : n \in Numbers}
    <2>1. PICK n \in Numbers : f = Number(n)
      BY <1>1
    <2>2. f.type = "int" /\ f.value = << n >> /\ f.value[1] = n
      BY <2>1 DEF Number
    <2> QED BY <2>1, <2>2 DEF Wire
  <1>2. CASE f \in {String(s) : s \in Strings}
    <2>1. PICK s \in Strings : f = String(s)
      BY <1>2
    <2>2. f.type = "string" /\ f.value = s
      BY <2>1 DEF String
    <2> QED BY <2>1, <2>2 DEF Wire, StringField
  <1> QED BY <1>1, <1>2 DEF Field

(* The bytes of a field are bytes. *)
LEMMA WireBytes ==
  ASSUME AllPlain, NEW f \in Field
  PROVE  Wire(f) \in Seq(Byte)
  <1>1. ASSUME NEW n \in Numbers, Wire(f) = IntField(n)
        PROVE  Wire(f) \in Seq(Byte)
    BY <1>1, IntFieldBytes, NumbersAssumption
  <1>2. ASSUME NEW s \in Strings, Wire(f) = IntField(Len(s)) \o s
        PROVE  Wire(f) \in Seq(Byte)
    <2>1. Len(s) \in Natural /\ s \in Seq(Byte)
      BY StringsAssumption DEF AllPlain, Plain
    <2>2. IntField(Len(s)) \in Seq(Byte)
      BY <2>1, IntFieldBytes
    <2> QED BY <1>2, <2>1, <2>2, JoinedElements
  <1> QED BY <1>1, <1>2, FieldKinds

(* What follows the first part of a concatenation is its second part. *)
LEMMA BehindFirst ==
  ASSUME NEW S, NEW a \in Seq(S), NEW b \in Seq(S)
  PROVE  /\ SubSeq(a \o b, 1, Len(a)) = a
         /\ Behind(a \o b, Len(a)) = b
         /\ Len(a) <= Len(a \o b)
  <1> DEFINE c == a \o b
             x == SubSeq(c, 1, Len(a))
             y == SubSeq(c, Len(a) + 1, Len(c))
  <1>1. /\ c \in Seq(S) /\ Len(c) = Len(a) + Len(b)
        /\ \A k \in 1 .. Len(a) : c[k] = a[k]
        /\ \A k \in 1 .. Len(b) : c[Len(a) + k] = b[k]
    BY JoinedElements
  <1> HIDE DEF c
  <1>2. /\ x \in Seq(S) /\ Len(x) = Len(a) - 1 + 1
        /\ \A k \in 1 .. Len(a) - 1 + 1 : x[k] = c[1 + k - 1]
    <2>1. \A m, n \in Nat : 1 <= m /\ m <= n + 1 /\ n <= Len(c) =>
            /\ SubSeq(c, m, n) \in Seq(S)
            /\ Len(SubSeq(c, m, n)) = n - m + 1
            /\ \A k \in 1 .. n - m + 1 : SubSeq(c, m, n)[k] = c[m + k - 1]
      BY <1>1, SliceElements
    <2>2. 1 \in Nat /\ Len(a) \in Nat /\ 1 <= 1 /\ 1 <= Len(a) + 1
          /\ Len(a) <= Len(c)
      BY <1>1
    <2> QED BY <2>1, <2>2
  <1>3. /\ y \in Seq(S) /\ Len(y) = Len(c) - (Len(a) + 1) + 1
        /\ \A k \in 1 .. Len(c) - (Len(a) + 1) + 1 :
             y[k] = c[Len(a) + 1 + k - 1]
    <2>1. \A m, n \in Nat : 1 <= m /\ m <= n + 1 /\ n <= Len(c) =>
            /\ SubSeq(c, m, n) \in Seq(S)
            /\ Len(SubSeq(c, m, n)) = n - m + 1
            /\ \A k \in 1 .. n - m + 1 : SubSeq(c, m, n)[k] = c[m + k - 1]
      BY <1>1, SliceElements
    <2>2. Len(a) + 1 \in Nat /\ Len(c) \in Nat /\ 1 <= Len(a) + 1
          /\ Len(a) + 1 <= Len(c) + 1 /\ Len(c) <= Len(c)
      BY <1>1
    <2> QED BY <2>1, <2>2
  <1> HIDE DEF x, y
  <1>4. x = a
    BY <1>1, <1>2
  <1>5. y = b
    <2>1. Len(y) = Len(b)
      BY <1>1, <1>3
    <2>2. ASSUME NEW k \in 1 .. Len(b)
          PROVE  y[k] = b[k]
      <3>1. k \in 1 .. Len(c) - (Len(a) + 1) + 1 /\ Len(a) + 1 + k - 1 = Len(a) + k
        BY <1>1
      <3>2. y[k] = c[Len(a) + k]
        BY <1>3, <3>1
      <3> QED BY <1>1, <3>2
    <2> QED BY <1>3, <2>1, <2>2
  <1>6. Len(a) <= Len(c)
    BY <1>1
  <1> QED BY <1>4, <1>5, <1>6 DEF x, y, c, Behind

(* Appending a field's bytes appends a cut. *)
LEMMA FramesAppend ==
  ASSUME AllPlain, NEW d \in Seq(Byte), NEW f \in Seq(Field), NEW g \in Field,
         NEW e, Frames(e, d, f)
  PROVE  \E x : Frames(x, d \o Wire(g), Append(f, g))
  <1> DEFINE w == Wire(g)
             h == Append(f, g)
             c == d \o w
             n == Len(f)
             x == [i \in 0 .. n + 1 |-> IF i <= n THEN e[i] ELSE Len(d) + Len(w)]
  <1>0. w \in Seq(Byte) /\ n \in Nat /\ Len(d) \in Nat /\ Len(w) \in Nat
    BY WireBytes
  <1>1. /\ h \in Seq(Field) /\ Len(h) = n + 1 /\ h[n + 1] = g
        /\ \A i \in 1 .. n : h[i] = f[i]
    OBVIOUS
  <1>2. /\ c \in Seq(Byte) /\ Len(c) = Len(d) + Len(w)
        /\ \A k \in 1 .. Len(d) : c[k] = d[k]
        /\ \A k \in 1 .. Len(w) : c[Len(d) + k] = w[k]
    BY <1>0, JoinedElements
  <1>3. /\ e \in [0 .. n -> Nat] /\ e[0] = 0 /\ e[n] = Len(d)
        /\ \A i, j \in 0 .. n : i <= j => e[i] <= e[j]
        /\ \A i \in 1 .. n : e[i] = e[i - 1] + Len(Wire(f[i]))
        /\ \A i \in 1 .. n : \A k \in 1 .. Len(Wire(f[i])) :
             d[e[i - 1] + k] = Wire(f[i])[k]
    BY DEF Frames
  <1>4. /\ x \in [0 .. n + 1 -> Nat]
        /\ \A i \in 0 .. n : x[i] = e[i]
        /\ x[n + 1] = Len(d) + Len(w)
    BY <1>0, <1>3
  <1>5. Wire(g) = w
    OBVIOUS
  <1> HIDE DEF w, h, c, n, x
  <1>6. x \in [0 .. Len(h) -> Nat] /\ x[0] = 0 /\ x[Len(h)] = Len(c)
    BY <1>0, <1>1, <1>2, <1>3, <1>4
  <1>7. ASSUME NEW i \in 0 .. Len(h), NEW j \in 0 .. Len(h), i <= j
        PROVE  x[i] <= x[j]
    <2>1. CASE j \in 0 .. n
      <3>1. i \in 0 .. n
        BY <1>0, <1>7, <2>1
      <3>2. e[i] <= e[j]
        BY <1>3, <1>7, <2>1, <3>1
      <3> QED BY <1>4, <2>1, <3>1, <3>2
    <2>2. CASE j = n + 1 /\ i \in 0 .. n
      <3>1. e[i] <= e[n] /\ e[i] \in Nat
        BY <1>0, <1>3, <2>2
      <3> QED BY <1>0, <1>3, <1>4, <2>2, <3>1
    <2>3. CASE j = n + 1 /\ i = n + 1
      BY <1>0, <1>4, <2>3
    <2> QED BY <1>0, <1>1, <1>7, <2>1, <2>2, <2>3
  <1>8. ASSUME NEW i \in 1 .. Len(h)
        PROVE  /\ x[i] = x[i - 1] + Len(Wire(h[i]))
               /\ \A k \in 1 .. Len(Wire(h[i])) :
                    c[x[i - 1] + k] = Wire(h[i])[k]
    <2>1. CASE i \in 1 .. n
      <3>1. /\ h[i] = f[i] /\ x[i] = e[i] /\ x[i - 1] = e[i - 1]
            /\ e[i] = e[i - 1] + Len(Wire(f[i])) /\ e[i] <= Len(d)
            /\ e[i - 1] \in Nat
        <4>1. i \in 0 .. n /\ i - 1 \in 0 .. n /\ n \in 0 .. n /\ i <= n
          BY <1>0, <2>1
        <4>2. e[i] <= e[n] /\ e[i - 1] \in Nat
          BY <1>3, <4>1
        <4> QED BY <1>1, <1>3, <1>4, <2>1, <4>1, <4>2
      <3>2. f[i] \in Field
        BY <2>1 DEF n
      <3>3. Len(Wire(f[i])) \in Nat
        BY <3>2, WireBytes
      <3>4. ASSUME NEW k \in 1 .. Len(Wire(f[i]))
            PROVE  c[e[i - 1] + k] = Wire(f[i])[k]
        <4>1. e[i - 1] + k \in 1 .. Len(d)
          BY <1>0, <3>1, <3>3
        <4>2. c[e[i - 1] + k] = d[e[i - 1] + k]
          BY <1>2, <4>1
        <4> QED BY <1>3, <2>1, <4>2
      <3> QED BY <3>1, <3>4
    <2>2. CASE i = n + 1
      <3>1. h[i] = g /\ x[i] = Len(d) + Len(w) /\ x[i - 1] = Len(d)
        <4>1. i - 1 = n /\ n \in 0 .. n
          BY <1>0, <2>2
        <4> QED BY <1>1, <1>3, <1>4, <2>2, <4>1
      <3> QED BY <1>2, <1>5, <3>1
    <2> QED BY <1>0, <1>1, <2>1, <2>2
  <1>9. Frames(x, c, h)
    BY <1>6, <1>7, <1>8 DEF Frames
  <1> QED BY <1>9, <1>5 DEF c, h

(* A position behind m, counted from m. *)
LEMMA ShiftedPosition ==
  ASSUME NEW a \in Nat, NEW b \in Nat, NEW m \in Nat, NEW n \in Nat,
         NEW v \in Nat, NEW k \in 1 .. v, b = a + v, m <= a, b <= n
  PROVE  (a - m) + k \in 1 .. n - m /\ m + ((a - m) + k) = a + k
  OBVIOUS

(* The packet begins with the bytes of its first field, and the rest is     *)
(* framed by the rest of the cuts.                                          *)
LEMMA FramesHead ==
  ASSUME AllPlain, NEW d \in Seq(Byte), NEW f \in Seq(Field), f # << >>,
         NEW e, Frames(e, d, f)
  PROVE  \E r \in Seq(Byte) :
           /\ d = Wire(Head(f)) \o r
           /\ \E x : Frames(x, r, Tail(f))
  <1> DEFINE w == Wire(f[1])
             t == Tail(f)
             n == Len(f)
             m == Len(w)
             r == [k \in 1 .. Len(d) - m |-> d[m + k]]
             x == [i \in 0 .. n - 1 |-> e[i + 1] - m]
  <1>1. /\ n \in Nat /\ n >= 1 /\ Head(f) = f[1] /\ f[1] \in Field
        /\ t \in Seq(Field) /\ Len(t) = n - 1
        /\ \A i \in 1 .. n - 1 : t[i] = f[i + 1]
    OBVIOUS
  <1>2. w \in Seq(Byte) /\ m \in Nat /\ Len(d) \in Nat
    BY <1>1, WireBytes
  <1>3. /\ e \in [0 .. n -> Nat] /\ e[0] = 0 /\ e[n] = Len(d)
        /\ \A i, j \in 0 .. n : i <= j => e[i] <= e[j]
        /\ \A i \in 1 .. n : e[i] = e[i - 1] + Len(Wire(f[i]))
        /\ \A i \in 1 .. n : \A k \in 1 .. Len(Wire(f[i])) :
             d[e[i - 1] + k] = Wire(f[i])[k]
    BY DEF Frames
  <1>4. e[1] = m
    <2>1. 1 \in 1 .. n /\ 1 - 1 = 0
      BY <1>1
    <2>2. e[1] = e[0] + m
      BY <1>3, <2>1
    <2> QED BY <1>2, <1>3, <2>2
  <1>5. \A k \in 1 .. m : d[k] = w[k]
    <2>1. 1 \in 1 .. n /\ 1 - 1 = 0
      BY <1>1
    <2>2. \A k \in 1 .. m : d[e[0] + k] = w[k]
      BY <1>3, <2>1
    <2>3. \A k \in 1 .. m : e[0] + k = k
      BY <1>2, <1>3
    <2> QED BY <2>2, <2>3
  <1>6. ASSUME NEW i \in 1 .. n
        PROVE  m <= e[i] /\ e[i] <= Len(d) /\ e[i] \in Nat
    <2>1. i \in 0 .. n /\ 1 \in 0 .. n /\ n \in 0 .. n /\ 1 <= i /\ i <= n
      BY <1>1
    <2>2. e[1] <= e[i] /\ e[i] <= e[n] /\ e[i] \in Nat
      BY <1>3, <2>1
    <2> QED BY <1>3, <1>4, <2>2
  <1>7. m <= Len(d)
    BY <1>1, <1>3, <1>6
  <1>8. /\ r \in Seq(Byte) /\ Len(r) = Len(d) - m
        /\ \A k \in 1 .. Len(d) - m : r[k] = d[m + k]
    <2>1. Len(d) - m \in Nat
      BY <1>2, <1>7
    <2>2. \A k \in 1 .. Len(d) - m : d[m + k] \in Byte
      BY <1>2
    <2> QED BY <2>1, <2>2
  <1>9. /\ x \in [0 .. n - 1 -> Nat]
        /\ \A i \in 0 .. n - 1 : x[i] = e[i + 1] - m
    BY <1>1, <1>2, <1>6
  <1> HIDE DEF t, r, x, m, n
  <1>10. d = w \o r
    <2> DEFINE c == w \o r
    <2>1. /\ c \in Seq(Byte) /\ Len(c) = m + Len(r)
          /\ \A k \in 1 .. m : c[k] = w[k]
          /\ \A k \in 1 .. Len(r) : c[m + k] = r[k]
      BY <1>2, <1>8, JoinedElements DEF m
    <2> HIDE DEF c
    <2>2. Len(c) = Len(d)
      BY <1>2, <1>8, <2>1
    <2>3. ASSUME NEW k \in 1 .. Len(d)
          PROVE  c[k] = d[k]
      <3>1. CASE k <= m
        <4>1. k \in 1 .. m
          BY <1>2, <3>1
        <4> QED BY <1>5, <2>1, <4>1
      <3>2. CASE k > m
        <4> DEFINE j == k - m
        <4>1. j \in 1 .. Len(d) - m /\ m + j = k
          BY <1>2, <3>2
        <4> HIDE DEF j
        <4> QED BY <1>8, <2>1, <4>1
      <3> QED BY <1>2, <3>1, <3>2
    <2>4. c = d
      BY <2>1, <2>2, <2>3
    <2> QED BY <2>4 DEF c
  <1>11. /\ x \in [0 .. Len(t) -> Nat] /\ x[0] = 0 /\ x[Len(t)] = Len(r)
    <2>1. 0 \in 0 .. n - 1 /\ n - 1 \in 0 .. n - 1 /\ 0 + 1 = 1
          /\ n - 1 + 1 = n
      BY <1>1
    <2>2. x[0] = e[1] - m /\ x[n - 1] = e[n] - m
      BY <1>9, <2>1
    <2>3. x[0] = 0 /\ x[n - 1] = Len(r)
      BY <1>2, <1>3, <1>4, <1>8, <2>2
    <2> QED BY <1>1, <1>9, <2>3
  <1>12. ASSUME NEW i \in 0 .. Len(t), NEW j \in 0 .. Len(t), i <= j
         PROVE  x[i] <= x[j]
    <2>1. /\ i \in 0 .. n - 1 /\ j \in 0 .. n - 1
          /\ i + 1 \in 0 .. n /\ j + 1 \in 0 .. n /\ i + 1 <= j + 1
      BY <1>1, <1>12
    <2>2. e[i + 1] <= e[j + 1] /\ e[i + 1] \in Nat /\ e[j + 1] \in Nat
      BY <1>3, <2>1
    <2>3. x[i] = e[i + 1] - m /\ x[j] = e[j + 1] - m
      BY <1>9, <2>1
    <2> QED BY <1>2, <2>2, <2>3
  <1>13. ASSUME NEW i \in 1 .. Len(t)
         PROVE  /\ x[i] = x[i - 1] + Len(Wire(t[i]))
                /\ \A k \in 1 .. Len(Wire(t[i])) :
                     r[x[i - 1] + k] = Wire(t[i])[k]
    <2> DEFINE j == i + 1
    <2>1. /\ i \in 1 .. n - 1 /\ j \in 1 .. n /\ j - 1 = i /\ i - 1 + 1 = i
          /\ i \in 0 .. n - 1 /\ i - 1 \in 0 .. n - 1 /\ i \in 1 .. n
      BY <1>1
    <2>2. t[i] = f[j]
      BY <1>1, <2>1
    <2>3. x[i] = e[j] - m /\ x[i - 1] = e[i] - m
      BY <1>9, <2>1
    <2> HIDE DEF j
    <2>4. f[j] \in Field
      BY <2>1 DEF n
    <2>5. Wire(f[j]) \in Seq(Byte) /\ Len(Wire(f[j])) \in Nat
      BY <2>4, WireBytes
    <2>6. /\ e[j] = e[i] + Len(Wire(f[j]))
          /\ \A k \in 1 .. Len(Wire(f[j])) : d[e[i] + k] = Wire(f[j])[k]
      BY <1>3, <2>1
    <2>7. /\ e[i] \in Nat /\ e[j] \in Nat /\ m <= e[i] /\ e[j] <= Len(d)
      BY <1>6, <2>1
    <2>8. x[i] = x[i - 1] + Len(Wire(f[j]))
      BY <1>2, <2>3, <2>5, <2>6, <2>7
    <2>9. ASSUME NEW k \in 1 .. Len(Wire(f[j]))
          PROVE  r[x[i - 1] + k] = Wire(f[j])[k]
      <3> DEFINE l == (e[i] - m) + k
                 v == Len(Wire(f[j]))
      <3>1. v \in Nat /\ k \in 1 .. v /\ e[j] = e[i] + v
        BY <2>5, <2>6, <2>9
      <3> HIDE DEF v
      <3>2. l \in 1 .. Len(d) - m /\ m + l = e[i] + k
        <4>1. \A a, b, p, n1 \in Nat : b = a + v /\ p <= a /\ b <= n1 =>
                (a - p) + k \in 1 .. n1 - p /\ p + ((a - p) + k) = a + k
          BY <3>1, ShiftedPosition
        <4>2. m \in Nat /\ Len(d) \in Nat
          BY <1>2
        <4> QED BY <2>7, <3>1, <4>1, <4>2
      <3>3. x[i - 1] + k = l
        BY <2>3
      <3> HIDE DEF l
      <3> QED BY <1>8, <2>6, <3>2, <3>3
    <2> QED BY <2>2, <2>8, <2>9
  <1>14. Frames(x, r, t)
    BY <1>11, <1>12, <1>13 DEF Frames
  <1> QED BY <1>1, <1>8, <1>10, <1>14 DEF t

(* A number that begins the packet is read back, and taken off. *)
LEMMA NumberRead ==
  ASSUME NEW n \in Natural, Plain(n), NEW r \in Seq(Byte)
  PROVE  /\ HeaderValue(IntField(n) \o r) = n
         /\ Behind(IntField(n) \o r, 4) = r
  <1>1. HeaderValue(IntField(n) \o r) = n
    BY NumberRoundTrip
  <1>2. IntField(n) \in Seq(Byte) /\ Len(IntField(n)) = 4
    BY IntFieldBytes
  <1>3. Behind(IntField(n) \o r, Len(IntField(n))) = r
    BY <1>2, BehindFirst
  <1> QED BY <1>1, <1>2, <1>3

(* A string that begins the packet is read back, and taken off. *)
LEMMA StringRead ==
  ASSUME NEW s \in Seq(Byte), Plain(Len(s)), NEW r \in Seq(Byte)
  PROVE  LET d == (IntField(Len(s)) \o s) \o r
             rest == Behind(d, 4)
         IN  /\ HeaderValue(d) = Len(s)
             /\ Len(s) \in 0 .. Len(rest)
             /\ SubSeq(rest, 1, Len(s)) = s
             /\ Behind(rest, Len(s)) = r
  <1> DEFINE n == Len(s)
             a == IntField(n)
             d == (a \o s) \o r
  <1>1. n \in Natural /\ a \in Seq(Byte)
    BY IntFieldBytes DEF Plain
  <1>2. d = a \o (s \o r) /\ s \o r \in Seq(Byte)
    <2>1. \A x, y, z \in Seq(Byte) : (x \o y) \o z = x \o (y \o z)
      BY ConcatAssociative
    <2> QED BY <1>1, <2>1, JoinedElements
  <1>3. HeaderValue(d) = n /\ Behind(d, 4) = s \o r
    BY <1>1, <1>2, NumberRead
  <1>4. /\ SubSeq(s \o r, 1, n) = s /\ Behind(s \o r, n) = r
        /\ n <= Len(s \o r)
    BY BehindFirst
  <1>5. n \in 0 .. Len(s \o r)
    BY <1>2, <1>4
  <1> QED BY <1>3, <1>4, <1>5

(* An empty packet is framed by no cut. *)
LEMMA PacketInit == Init => PacketInv
  <1> SUFFICES ASSUME Init PROVE PacketInv
    OBVIOUS
  <1> DEFINE e == [i \in 0 .. 0 |-> 0]
  <1>1. Frames(e, << >>, << >>)
    <2>1. e \in [0 .. 0 -> Nat] /\ e[0] = 0 /\ \A i \in 0 .. 0 : e[i] = 0
      OBVIOUS
    <2> HIDE DEF e
    <2>2. Len(<< >>) = 0 /\ 1 .. 0 = {}
      OBVIOUS
    <2> QED BY <2>1, <2>2 DEF Frames
  <1>2. Framed
    BY <1>1 DEF Framed, Init
  <1> QED BY <1>2, MaxFieldsAssumption DEF Init, PacketInv

(* An append keeps the framing. *)
LEMMA PacketWrites ==
  ASSUME AllPlain, PacketInv, NEW g \in Field, Writes(Wire(g), g)
  PROVE  PacketInv'
  <1>1. /\ data' = data \o Wire(g) /\ fields' = Append(fields, g)
        /\ appended' = appended + 1 /\ appended < MaxFields
        /\ UNCHANGED <<got, expected, failed>>
    BY DEF Writes
  <1>2. data' \in Seq(Byte) /\ fields' \in Seq(Field)
    BY <1>1, WireBytes, JoinedElements DEF PacketInv
  <1>3. Framed'
    <2>1. PICK e : Frames(e, data, fields)
      BY DEF PacketInv, Framed
    <2>2. \E x : Frames(x, data \o Wire(g), Append(fields, g))
      BY <2>1, FramesAppend DEF PacketInv
    <2> QED BY <1>1, <2>2 DEF Framed
  <1>4. appended' \in 0 .. MaxFields
    BY <1>1, MaxFieldsAssumption DEF PacketInv
  <1> QED BY <1>1, <1>2, <1>3, <1>4 DEF PacketInv

(* A read that took the bytes of the first field keeps the framing. *)
LEMMA PacketTook ==
  ASSUME PacketInv, fields # << >>, Took, UNCHANGED <<appended, failed>>,
         data' \in Seq(Byte), \E x : Frames(x, data', Tail(fields)),
         got' = Head(fields).value, Head(fields).value \in Seq(Natural)
  PROVE  PacketInv'
  <1>1. fields' = Tail(fields) /\ expected' = Head(fields).value
    BY DEF Took
  <1>2. fields' \in Seq(Field)
    BY <1>1 DEF PacketInv
  <1>3. Framed'
    BY <1>1 DEF Framed
  <1> QED BY <1>1, <1>2, <1>3 DEF PacketInv

(* Every step keeps the packet framed and reads what was written. *)
LEMMA PacketNext == AllPlain /\ PacketInv /\ [Next]_vars => PacketInv'
  <1> SUFFICES ASSUME AllPlain, PacketInv, [Next]_vars PROVE PacketInv'
    OBVIOUS
  <1>1. CASE AppendInt
    <2>1. PICK n \in Numbers : Writes(IntField(n), Number(n))
      BY <1>1 DEF AppendInt
    <2>2. Number(n) \in Field /\ Wire(Number(n)) = IntField(n)
      BY DEF Field, Wire, Number
    <2> QED BY <2>1, <2>2, PacketWrites
  <1>2. CASE AppendString
    <2>1. PICK s \in Strings : Writes(StringField(s), String(s))
      BY <1>2 DEF AppendString
    <2>2. String(s) \in Field /\ Wire(String(s)) = StringField(s)
      BY DEF Field, Wire, String
    <2> QED BY <2>1, <2>2, PacketWrites
  <1>3. ASSUME fields # << >>
        PROVE  /\ Head(fields) \in Field
               /\ \E r \in Seq(Byte) :
                    /\ data = Wire(Head(fields)) \o r
                    /\ \E x : Frames(x, r, Tail(fields))
    <2>1. PICK e : Frames(e, data, fields)
      BY DEF PacketInv, Framed
    <2>2. Head(fields) \in Field
      BY <1>3 DEF PacketInv
    <2> QED BY <1>3, <2>1, <2>2, FramesHead DEF PacketInv
  <1>4. CASE GetCMDHeader
    <2>1. fields # << >> /\ Head(fields).type = "int"
      BY <1>4 DEF GetCMDHeader, Reads
    <2>2. PICK r \in Seq(Byte) : /\ data = Wire(Head(fields)) \o r
                                 /\ \E x : Frames(x, r, Tail(fields))
      BY <1>3, <2>1
    <2>3. PICK n \in Numbers : /\ Head(fields).value = << n >>
                               /\ Wire(Head(fields)) = IntField(n)
      BY <1>3, <2>1, FieldKinds
    <2>4. n \in Natural /\ Plain(n)
      BY NumbersAssumption DEF AllPlain
    <2>5. HeaderValue(data) = n /\ Behind(data, 4) = r
      BY <2>2, <2>3, <2>4, NumberRead
    <2>6. got' = << n >> /\ data' = r /\ Took /\ UNCHANGED <<appended, failed>>
      BY <1>4, <2>5 DEF GetCMDHeader
    <2>7. << n >> \in Seq(Natural)
      BY <2>4
    <2> QED BY <2>1, <2>2, <2>3, <2>6, <2>7, PacketTook
  <1>5. CASE GetContent
    <2>1. fields # << >> /\ Head(fields).type = "string"
      BY <1>5 DEF GetContent, Reads
    <2>2. PICK r \in Seq(Byte) : /\ data = Wire(Head(fields)) \o r
                                 /\ \E x : Frames(x, r, Tail(fields))
      BY <1>3, <2>1
    <2>3. PICK s \in Strings : /\ Head(fields).value = s
                               /\ Wire(Head(fields)) = IntField(Len(s)) \o s
      BY <1>3, <2>1, FieldKinds
    <2>4. s \in Seq(Byte) /\ Plain(Len(s))
      BY StringsAssumption DEF AllPlain
    <2> DEFINE rest == Behind(data, 4)
    <2>5. /\ HeaderValue(data) = Len(s) /\ Len(s) \in 0 .. Len(rest)
          /\ SubSeq(rest, 1, Len(s)) = s /\ Behind(rest, Len(s)) = r
      BY <2>2, <2>3, <2>4, StringRead
    <2>6. got' = s /\ data' = r /\ Took /\ UNCHANGED <<appended, failed>>
      BY <1>5, <2>5 DEF GetContent
    <2>7. s \in Seq(Natural)
      <3>1. Byte \subseteq Natural
        BY DEF Byte, Natural
      <3> QED BY <2>4, <3>1
    <2> QED BY <2>1, <2>2, <2>3, <2>6, <2>7, PacketTook
  <1>6. CASE UNCHANGED vars
    BY <1>6 DEF vars, PacketInv, Framed
  <1> QED BY <1>1, <1>2, <1>4, <1>5, <1>6 DEF Next

(* A packet of plain fields is, in every state, the concatenation of the    *)
(* fields that have not been read.                                          *)
THEOREM Framing == ASSUME AllPlain PROVE Spec => []PacketInv
  BY PacketInit, PacketNext, PTL DEF Spec

(* The vector holds bytes and every variable keeps its type. *)
THEOREM PacketTypes == ASSUME AllPlain PROVE Spec => []TypeOK
  <1>1. PacketInv => TypeOK
    <2> SUFFICES ASSUME PacketInv PROVE TypeOK
      OBVIOUS
    <2>1. \A i \in DOMAIN fields : fields[i].type \in {"int", "string"}
      <3> SUFFICES ASSUME NEW i \in DOMAIN fields
                   PROVE  fields[i].type \in {"int", "string"}
        OBVIOUS
      <3>1. fields[i] \in Field
        BY DEF PacketInv
      <3> QED BY <3>1, FieldKinds
    <2>2. got \in Seq(Int) /\ expected \in Seq(Natural)
      <3>1. \A n \in Natural : n \in Int
        BY DEF Natural
      <3>2. got = expected /\ expected \in Seq(Natural)
        BY DEF PacketInv
      <3>3. \A i \in 1 .. Len(expected) : expected[i] \in Int
        <4>1. \A i \in 1 .. Len(expected) : expected[i] \in Natural
          BY <3>2
        <4> QED BY <3>1, <4>1
      <3>4. expected \in Seq(Int)
        BY <3>2, <3>3
      <3> QED BY <3>2, <3>4
    <2> QED BY <2>1, <2>2 DEF PacketInv, TypeOK
  <1> QED BY <1>1, Framing, PTL

(* Every read returns the field that was appended for it, in order, however *)
(* appends and reads are mixed, and no read leaves the vector.              *)
THEOREM ReadIsWritten == ASSUME AllPlain PROVE Spec => []ReadsWhatWasWritten
  <1>1. PacketInv => ReadsWhatWasWritten
    <2> SUFFICES ASSUME PacketInv, fields = << >> PROVE data = << >>
      BY DEF PacketInv, ReadsWhatWasWritten
    <2>1. PICK e : Frames(e, data, fields)
      BY DEF PacketInv, Framed
    <2>2. Len(fields) = 0
      OBVIOUS
    <2>3. Len(data) = 0
      BY <2>1, <2>2 DEF Frames
    <2> QED BY <2>3, EmptySeq DEF PacketInv
  <1> QED BY <1>1, Framing, PTL
=============================================================================
