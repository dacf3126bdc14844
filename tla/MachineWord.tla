---------------------------- MODULE MachineWord ----------------------------
(***************************************************************************)
(* The 64-bit words of the virtual machine and what its data instructions  *)
(* compute on them.  A word is a natural number below WordSize; a word     *)
(* holds BYTES_PER_WORD bytes, and an address that counts bytes selects    *)
(* one byte, or one half, of a word.  The sizes are constants, so that     *)
(* model checking can use words of a few bits.                             *)
(***************************************************************************)
EXTENDS Integers

CONSTANTS WORD_BITS,        \* 64 in the code
          WordSize,         \* the number of words, 2^WORD_BITS
          BYTES_PER_WORD    \* 8 in the code

\* 2^n, by a recursion that can be reasoned about.
PowerOfTwo[n \in Nat] == IF n = 0 THEN 1 ELSE 2 * PowerOfTwo[n - 1]

ASSUME WordAssumption ==
  /\ WORD_BITS \in Nat \ {0}
  /\ WordSize \in Nat /\ WordSize = PowerOfTwo[WORD_BITS]
  /\ WordSize > 1
  /\ BYTES_PER_WORD \in Nat \ {0} /\ BYTES_PER_WORD % 2 = 0
  /\ WORD_BITS % BYTES_PER_WORD = 0

Word == 0..(WordSize - 1)

Bits(first, count, w) == (w \div PowerOfTwo[first]) % PowerOfTwo[count]
Bit(i, w) == Bits(i, 1, w)

\* int64_t reading of a uint64_t.
Signed(w) == IF 2 * w >= WordSize THEN w - WordSize ELSE w

Truth(condition) == IF condition THEN 1 ELSE 0

BitIndex == 0..(WORD_BITS - 1)
AndBit(a, b, i) == Bit(i, a) * Bit(i, b)

(***************************************************************************)
(* What the instructions that pop b, then a, and push one word may push:   *)
(* one word each, except that shifting a 64-bit value by 64 or more is     *)
(* undefined in C++ and may give any word.  DIV and MOD need b # 0.        *)
(***************************************************************************)
BinaryOps == {"ADD", "SUB", "MUL", "DIV", "MOD", "EQ", "LT", "GT", "LTE", "GTE",
              "AND", "OR", "XOR", "SHL", "SHR", "ASHR"}

IsResult(op, a, b, r) ==
  \/ op = "ADD" /\ r = (a + b) % WordSize
  \/ op = "SUB" /\ r = (a - b) % WordSize
  \/ op = "MUL" /\ r = (a * b) % WordSize
  \/ op = "DIV" /\ r = a \div b
  \/ op = "MOD" /\ r = a % b
  \/ op = "EQ"  /\ r = Truth(a = b)
  \/ op = "LT"  /\ r = Truth(Signed(a) < Signed(b))
  \/ op = "GT"  /\ r = Truth(Signed(a) > Signed(b))
  \/ op = "LTE" /\ r = Truth(Signed(a) <= Signed(b))
  \/ op = "GTE" /\ r = Truth(Signed(a) >= Signed(b))
  \/ op = "AND" /\ \A i \in BitIndex : Bit(i, r) = AndBit(a, b, i)
  \/ op = "OR"  /\ \A i \in BitIndex : Bit(i, r) = Bit(i, a) + Bit(i, b) - AndBit(a, b, i)
  \/ op = "XOR" /\ \A i \in BitIndex : Bit(i, r) = Bit(i, a) + Bit(i, b) - 2 * AndBit(a, b, i)
  \/ op = "SHL" /\ \A i \in BitIndex : Bit(i, r) = IF i < b THEN 0 ELSE Bit(i - b, a)
  \/ op = "SHR" /\ \A i \in BitIndex :
                     Bit(i, r) = IF i + b < WORD_BITS THEN Bit(i + b, a) ELSE 0
  \/ op = "ASHR" /\ \A i \in BitIndex :
                     Bit(i, r) = Bit(IF i + b < WORD_BITS THEN i + b ELSE WORD_BITS - 1, a)
  \/ op \in {"SHL", "SHR", "ASHR"} /\ b >= WORD_BITS

BinaryResults(op, a, b) == {r \in Word : IsResult(op, a, b, r)}

(***************************************************************************)
(* Parts of a word: a byte address adr names byte adr % BYTES_PER_WORD of  *)
(* word adr \div BYTES_PER_WORD; the 32-bit instructions select the half   *)
(* of the word the byte lies in.                                           *)
(***************************************************************************)
BYTE_BITS == WORD_BITS \div BYTES_PER_WORD
HALF_BITS == WORD_BITS \div 2

WordIndex(adr) == adr \div BYTES_PER_WORD
ByteShift(adr) == (adr % BYTES_PER_WORD) * BYTE_BITS
HalfShift(adr) == ((adr \div (BYTES_PER_WORD \div 2)) % 2) * HALF_BITS

\* The words whose low `width` bits are the bits of w from `shift` on, the others 0.
Field(shift, width, w) == {v \in Word : v = Bits(shift, width, w)}

\* w with those bits replaced by the low bits of v, every other bit kept.
WithField(shift, width, w, v) ==
  {r \in Word : \A i \in BitIndex :
     Bit(i, r) = IF i \in shift..(shift + width - 1) THEN Bit(i - shift, v) ELSE Bit(i, w)}
=============================================================================
