--------------------------------- MODULE Digest ---------------------------------
(***************************************************************************)
(* Class MD5, of which Session::buildSession makes the string of a token:  *)
(* the text is given in pieces of any length, kept in a buffer of one      *)
(* block and counted in two words.  transform() is a function of the       *)
(* state and a block, so the state is written as the blocks it has taken,  *)
(* end to end.                                                             *)
(***************************************************************************)
EXTENDS Integers, SequencesExt

CONSTANTS BlockSize, WordBytes, Radix, Lengths, MaxBytes

Word == Radix ^ WordBytes          \* a uint4
FieldBytes == 2 * WordBytes        \* the length field: count[2]

ASSUME SizesAssumption ==
  /\ BlockSize \in Nat \ {0} /\ WordBytes \in Nat \ {0} /\ Radix \in Nat \ {0, 1}
  /\ FieldBytes < BlockSize /\ Word % (8 * BlockSize) = 0
ASSUME LengthsAssumption ==
  Lengths \subseteq 0 .. Word - 1 /\ MaxBytes \in Nat /\ 8 * MaxBytes < Word * Word

(* What a power is, said for the provers. *)
ASSUME PowersAssumption ==
  /\ Radix ^ 0 = 1
  /\ \A k \in 0 .. FieldBytes : /\ Radix ^ k \in Nat \ {0}
                                /\ Radix ^ (k + 1) = Radix * Radix ^ k

VARIABLES
  state,      \* the blocks that transform() has taken
  buffer,     \* the bytes that wait for a block to be full
  count,      \* the number of bits, low word first
  finalized,
  digest

vars == <<state, buffer, count, finalized, digest>>

Context == [state |-> state, buffer |-> buffer, count |-> count]
Zeroed == [i \in 1 .. BlockSize |-> 0]

(* The code leaves the buffer as it is: it is written before it is read. *)
Init ==
  /\ state = << >>
  /\ buffer = Zeroed
  /\ count = << 0, 0 >>
  /\ finalized = FALSE
  /\ digest = << >>

Index(c) == (c[1] \div 8) % BlockSize

(* memcpy(&buffer[at], bytes, length) *)
Overlaid(b, at, bytes) ==
  [i \in 1 .. BlockSize |->
     IF i - at \in 1 .. Len(bytes) THEN bytes[i - at] ELSE b[i]]

(* Fault: the carry into the high word is forgotten. *)
Counted_NoCarry(c, n) ==
  << (c[1] + 8 * n) % Word, (c[2] + (8 * n) \div Word) % Word >>

(* Fault: the low word is as wide as the sum. *)
Counted_Wide(c, n) == << c[1] + 8 * n, c[2] >>

(* Both words wrap; the carry is seen by the sum being less than its part.  *)
Counted(c, n) ==
  LET bits == 8 * n % Word
      low == (c[1] + bits) % Word
  IN  << low, (c[2] + (IF low < bits THEN 1 ELSE 0) + (8 * n) \div Word) % Word >>

(* Where the loop over whole blocks ends, once the buffer took the first.   *)
Blocks(n, first) == first + BlockSize * ((n - first) \div BlockSize)

(* decode() and the 64 rounds, for each block in turn. *)
Transformed(s, bytes) == s \o bytes

Updated(c, input) ==
  LET n == Len(input)
      index == Index(c.count)
      first == BlockSize - index
      full == Overlaid(c.buffer, index, SubSeq(input, 1, first))
      i == Blocks(n, first)
  IN  IF n >= first
      THEN [state |-> Transformed(c.state, full \o SubSeq(input, first + 1, i)),
            buffer |-> Overlaid(full, 0, SubSeq(input, i + 1, n)),
            count |-> Counted(c.count, n)]
      ELSE [state |-> c.state,
            buffer |-> Overlaid(c.buffer, index, input),
            count |-> Counted(c.count, n)]

(* encode: each word as WordBytes bytes, the low one first. *)
Encode(words) ==
  FlattenSeq([w \in DOMAIN words |->
    [i \in 1 .. WordBytes |-> (words[w] \div Radix ^ (i - 1)) % Radix]])

(* Fault: a block with room for the length but not for the byte before it.  *)
PadLength_Late(index) ==
  IF index <= BlockSize - FieldBytes THEN BlockSize - FieldBytes - index
  ELSE 2 * BlockSize - FieldBytes - index
PadLength(index) ==
  IF index < BlockSize - FieldBytes THEN BlockSize - FieldBytes - index
  ELSE 2 * BlockSize - FieldBytes - index

Padding(n) == [i \in 1 .. n |-> IF i = 1 THEN Radix \div 2 ELSE 0]

(* The bits are taken before the padding is counted. *)
Finished(c) ==
  Updated(Updated(c, Padding(PadLength(Index(c.count)))), Encode(c.count)).state

-----------------------------------------------------------------------------
(* How much of the text was given, by the count of bits. *)
Given == (count[1] + Word * count[2]) \div 8

Update(n) ==
  /\ Given + n <= MaxBytes
  /\ LET c == Updated(Context, [i \in 1 .. n |-> Word + Given + i])
     IN  state' = c.state /\ buffer' = c.buffer /\ count' = c.count
  /\ UNCHANGED <<finalized, digest>>

Finalize ==
  /\ ~finalized
  /\ digest' = Finished(Context)
  /\ state' = Finished(Context)
  /\ buffer' = Zeroed /\ count' = << 0, 0 >>
  /\ finalized' = TRUE

Next == Finalize \/ \E n \in Lengths : Update(n)

Spec == Init /\ [][Next]_vars

-----------------------------------------------------------------------------
(* hexdigest(): nothing until the digest is made. *)
Hexdigest == IF finalized THEN digest ELSE << >>

(* The words keep their width; the buffer is one block, and what it holds   *)
(* never fills it between two calls.                                        *)
TypeOK ==
  /\ state \in Seq(Nat) /\ digest \in Seq(Nat) /\ finalized \in BOOLEAN
  /\ Len(state) % BlockSize = 0 /\ Len(digest) % BlockSize = 0
  /\ buffer \in [1 .. BlockSize -> Nat]
  /\ count \in (0 .. Word - 1) \X (0 .. Word - 1)
  /\ Given < MaxBytes + 1

H == INSTANCE Hash WITH
       text <- IF finalized THEN << >>
               ELSE state \o SubSeq(buffer, 1, Index(count)),
       answer <- Hexdigest

(* The object is the hash function of RFC 1321: however the text is cut     *)
(* into pieces, the digest is that of the padded text, and neither a        *)
(* second finalize() nor a late update() changes it.                        *)
IsHash == H!Spec
=============================================================================
