-------------------------------- MODULE Packet --------------------------------
(***************************************************************************)
(* Class Packet: a vector of bytes to which integers and strings are       *)
(* appended, and from whose front they are read and erased.  An integer is *)
(* four bytes, most significant first; a string is its length as an        *)
(* integer and then its characters.  Bytes are stored as char, which is    *)
(* signed on the platforms the Makefile builds for: getCMDHeader adds them *)
(* up with their signs.                                                    *)
(***************************************************************************)
EXTENDS Integers, SequencesExt

CONSTANTS Numbers,     \* the integers that are appended
          Strings,     \* the strings that are appended, as sequences of bytes
          MaxFields    \* bound: fields appended in one behaviour

Byte == 0 .. 255
Natural == {n \in Nat : n <= 2147483647}     \* the non-negative values of an int

ASSUME NumbersAssumption == Numbers \subseteq Natural
ASSUME StringsAssumption == Strings \subseteq Seq(Byte)
ASSUME MaxFieldsAssumption == MaxFields \in Nat

(* Fault: the shifts are not masked. *)
IntField_Unmasked(n) == << n \div 16777216, n \div 65536, n \div 256, n >>

(* buildIntField *)
IntField(n) ==
  << (n \div 16777216) % 256, (n \div 65536) % 256, (n \div 256) % 256, n % 256 >>

(* Fault: the length counts the four bytes that carry it. *)
StringField_Inclusive(s) == IntField(Len(s) + 4) \o s

(* buildStringField *)
StringField(s) == IntField(Len(s)) \o s

Signed(b) == IF b < 128 THEN b ELSE b - 256

(* getCMDHeader: the sum of the first four bytes, shifted, without a mask   *)
(* (it stays an int: numbers are not negative, so the first byte is below   *)
(* 128).                                                                    *)
HeaderValue(d) ==
  Signed(d[1]) * 16777216 + Signed(d[2]) * 65536
    + Signed(d[3]) * 256 + Signed(d[4])

Behind(d, n) == SubSeq(d, n + 1, Len(d))

VARIABLES
  data,       \* Packet::data
  fields,     \* history: the fields appended and not yet read
  appended,   \* how many were appended
  got,        \* the last value read
  expected,   \* history: the field it was read from
  failed      \* a read left the vector

vars == <<data, fields, appended, got, expected, failed>>

Init ==
  /\ data = << >> /\ fields = << >> /\ appended = 0
  /\ got = << >> /\ expected = << >> /\ failed = FALSE

(* A field is a record of its type and its value, a sequence in both cases. *)
Number(n) == [type |-> "int", value |-> << n >>]
String(s) == [type |-> "string", value |-> s]

Writes(bytes, field) ==
  /\ ~failed /\ appended < MaxFields
  /\ data' = data \o bytes
  /\ fields' = Append(fields, field)
  /\ appended' = appended + 1
  /\ UNCHANGED <<got, expected, failed>>

AppendInt == \E n \in Numbers : Writes(IntField(n), Number(n))
AppendString == \E s \in Strings : Writes(StringField(s), String(s))

Reads(type) == ~failed /\ fields # << >> /\ Head(fields).type = type
Took == fields' = Tail(fields) /\ expected' = Head(fields).value

GetCMDHeader ==
  /\ Reads("int")
  /\ got' = << HeaderValue(data) >>
  /\ data' = Behind(data, 4)
  /\ Took
  /\ UNCHANGED <<appended, failed>>

(* getContent: a length that is negative or exceeds what is left makes the  *)
(* range of the string's constructor no range of the vector.                *)
GetContent ==
  /\ Reads("string")
  /\ LET len == HeaderValue(data)
         rest == Behind(data, 4)
     IN  IF len \in 0 .. Len(rest)
         THEN /\ got' = SubSeq(rest, 1, len)
              /\ data' = Behind(rest, len)
              /\ UNCHANGED failed
         ELSE /\ failed' = TRUE
              /\ UNCHANGED <<got, data>>
  /\ Took
  /\ UNCHANGED appended

Next == AppendInt \/ AppendString \/ GetCMDHeader \/ GetContent

Spec == Init /\ [][Next]_vars

-----------------------------------------------------------------------------
(* Every variable keeps its type; the vector holds bytes.                   *)
TypeOK ==
  /\ data \in Seq(Byte)
  /\ \A i \in DOMAIN fields : fields[i].type \in {"int", "string"}
  /\ appended \in 0 .. MaxFields
  /\ got \in Seq(Int)
  /\ expected \in Seq(Natural)
  /\ failed \in BOOLEAN

(* What is read is what was written, field by field, however appends and    *)
(* reads are mixed, and no read leaves the vector: the framing of one field *)
(* never runs into the next, and a packet that was read to its end is empty *)
(* (IsAvailableData).                                                       *)
ReadsWhatWasWritten ==
  ~failed /\ got = expected /\ (fields = << >> => data = << >>)
=============================================================================
