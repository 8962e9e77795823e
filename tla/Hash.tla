---------------------------------- MODULE Hash ----------------------------------
(***************************************************************************)
(* What class MD5 promises, as RFC 1321 defines it: the digest is a        *)
(* function of the padded text and of nothing else, least of all of the    *)
(* pieces in which the text was given; and it is given once.  The 64       *)
(* rounds are a function of the blocks: the padded text stands for its     *)
(* digest.                                                                 *)
(***************************************************************************)
EXTENDS Integers, SequencesExt

CONSTANTS BlockSize,   \* bytes of a block (64)
          WordBytes,   \* bytes of a word of the length field (4)
          Radix,       \* the values of a byte (256)
          Lengths,     \* the lengths of the pieces
          MaxBytes     \* bound: the longest text

VARIABLES text,        \* what was given so far, until the digest is made
          answer       \* the digest, or the empty sequence

Word == Radix ^ WordBytes
FieldBytes == 2 * WordBytes
NoDigest == << >>

(* A byte of the text is named by its position, as a number that is no byte *)
(* of the padding or of the length.                                         *)
Piece(from, n) == [i \in 1 .. n |-> Word + from + i]

(* RFC 1321, 3.1 and 3.2: a byte 128, zeroes up to a length that leaves room *)
(* for the length field, and the number of bits, its low byte first.        *)
Zeroes(n) == CHOOSE z \in 0 .. BlockSize - 1 :
               (n + 1 + z + FieldBytes) % BlockSize = 0
Padded(t) ==
  t \o << Radix \div 2 >> \o [i \in 1 .. Zeroes(Len(t)) |-> 0]
    \o [i \in 1 .. FieldBytes |-> ((8 * Len(t)) \div Radix ^ (i - 1)) % Radix]

Init == text = << >> /\ answer = NoDigest

Give(n) ==
  /\ answer = NoDigest /\ Len(text) + n <= MaxBytes
  /\ text' = text \o Piece(Len(text), n)
  /\ UNCHANGED answer

Finish == answer = NoDigest /\ answer' = Padded(text) /\ text' = << >>

Next == Finish \/ \E n \in Lengths : Give(n)

Spec == Init /\ [][Next]_<<text, answer>>
=============================================================================
