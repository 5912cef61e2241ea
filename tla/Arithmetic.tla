----------------------------- MODULE Arithmetic -----------------------------
(***************************************************************************)
(* The kernel's arithmetic: 64-bit division built from the 32-bit DIVL        *)
(* instruction (lib/arithmetic.c) and fixed-point numbers                     *)
(* (threads/fixed-point.h).  A word has W bits (32 in the code) and a double  *)
(* word 2W; fixed-point numbers have Q fraction bits and FixBits bits in all. *)
(* Each state is one second operand; the properties are about every first one. *)
(***************************************************************************)
EXTENDS Integers

CONSTANTS W,        \* bits of a machine word, a power of two
          Q,        \* FIX_Q
          FixBits   \* FIX_BITS

VARIABLE operands   \* <<>> or the kind of a call and its second operand

Word == 2^W
Double == 2^(2 * W)
Trap == -1

---------------------------------------------------------------------------
(* arithmetic.c *)

(* DIVL traps when the quotient does not fit in a word. *)
Divl(n, d) == IF d = 0 \/ n \div d >= Word THEN Trap ELSE n \div d

(* Leading zeros of a nonzero word, by halving: k is 16, 8, 4, 2, 1. *)
RECURSIVE NlzFrom(_, _)
NlzFrom(x, k) ==
  LET clear == x < 2^(W - k)
      half == IF k = 1 THEN 0 ELSE NlzFrom(IF clear THEN (x * 2^k) % Word ELSE x, k \div 2)
  IN (IF clear THEN k ELSE 0) + half
Nlz(x) == NlzFrom(x, W \div 2)

(* udiv64() without the correction of an estimate that is one too large. *)
UdivUncorrected(n, d) ==
  LET n1 == n \div Word
      n0 == n % Word
      s == Nlz(d \div Word)
  IN IF d < Word THEN Divl(Word * (n1 % d) + n0, d) + Word * (n1 \div d)
     ELSE IF n < d THEN 0
     ELSE Divl(n \div 2, ((d * 2^s) % Double) \div Word) \div 2^(W - 1 - s)

Udiv(n, d) ==
  LET n1 == n \div Word
      n0 == n % Word
      low == Divl(Word * (n1 % d) + n0, d)
      s == Nlz(d \div Word)
      est == Divl(n \div 2, ((d * 2^s) % Double) \div Word)
      q == est \div 2^(W - 1 - s)
  IN CASE d < Word -> IF low = Trap THEN Trap ELSE low + Word * (n1 \div d)
       [] d >= Word /\ n < d -> 0
       [] d >= Word /\ n >= d /\ est = Trap -> Trap
       [] OTHER -> IF (n - (q - 1) * d) % Double < d THEN q - 1 ELSE q

(* umod64() returns a word. *)
Umod(n, d) == ((n - d * Udiv(n, d)) % Double) % Word

Signed(v, bits) == LET u == v % 2^bits IN IF u >= 2^(bits - 1) THEN u - 2^bits ELSE u
Abs(v) == IF v < 0 THEN -v ELSE v

Sdiv(n, d) ==
  LET q == Udiv(Abs(n), Abs(d))
  IN Signed(IF (n < 0) = (d < 0) THEN q ELSE -q, 2 * W)

(* smod64() returns a signed word. *)
Smod(n, d) == Signed(n - d * Sdiv(n, d), W)

---------------------------------------------------------------------------
(* fixed-point.h; a fixed_point_t is its internal value.  C division truncates. *)

FixF == 2^Q
Quot(a, b) == IF (a < 0) = (b < 0) THEN Abs(a) \div Abs(b) ELSE -(Abs(a) \div Abs(b))
MkFix(f) == Signed(f, FixBits)
FixInt(n) == MkFix(n * FixF)
FixFrac(n, d) == MkFix(Quot(n * FixF, d))
FixRound(x) == Quot(MkFix(x + FixF \div 2), FixF)
FixTrunc(x) == Quot(x, FixF)
FixAdd(x, y) == MkFix(x + y)
FixSub(x, y) == MkFix(x - y)
FixMul(x, y) == MkFix(Quot(x * y, FixF))
FixDiv(x, y) == MkFix(Quot(x * FixF, y))
FixScale(x, n) == MkFix(x * n)
FixUnscale(x, n) == Quot(x, n)
FixInv(x) == FixDiv(FixInt(1), x)

---------------------------------------------------------------------------

Doubles == -(Double \div 2)..(Double \div 2 - 1)
Fixes == -(2^(FixBits - 1))..(2^(FixBits - 1) - 1)

ArithInit == operands = <<>>

CallUnsigned ==
  /\ operands = <<>>
  /\ \E d \in 1..(Double - 1) : operands' = <<"unsigned", d>>

CallSigned ==
  /\ operands = <<>>
  /\ \E d \in Doubles \ {0} : operands' = <<"signed", d>>

CallFix ==
  /\ operands = <<>>
  /\ \E y \in Fixes : operands' = <<"fix", y>>

ArithNext == CallUnsigned \/ CallSigned \/ CallFix

---------------------------------------------------------------------------
(* The division routines never trap on a nonzero divisor and return the exact
   quotient, truncated towards zero, for every pair of double words; the
   remainder is exact when it fits in a word, which it does whenever the
   divisor does (arithmetic.c). *)
DivisionRight ==
  operands # <<>> =>
    LET d == operands[2]
    IN CASE operands[1] = "unsigned" -> \A n \in 0..(Double - 1) :
              /\ Udiv(n, d) = n \div d
              /\ d <= Word => Umod(n, d) = n % d
         [] operands[1] = "signed" -> \A n \in Doubles :
              /\ Sdiv(n, d) = Signed(Quot(n, d), 2 * W)
              /\ Abs(d) <= Word \div 2 => Smod(n, d) = n - d * Quot(n, d)
         [] OTHER -> TRUE

(* Fixed-point products and quotients that are representable are within one
   unit of the last place of the exact value and never larger in magnitude,
   adding and scaling can be undone, and rounding a nonnegative number is to
   the nearest integer (fixed-point.h). *)
FixedRight ==
  operands # <<>> /\ operands[1] = "fix" =>
    LET y == operands[2]
        Fits(v) == v \in Fixes
    IN \A x \in Fixes :
       /\ Fits(Quot(x * y, FixF)) =>
            /\ Abs(FixMul(x, y) * FixF - x * y) < FixF
            /\ Abs(FixMul(x, y) * FixF) <= Abs(x * y)
       /\ y # 0 /\ Fits(Quot(x * FixF, y)) =>
            /\ Abs(FixDiv(x, y) * y - x * FixF) < Abs(y)
            /\ Abs(FixFrac(x, y) * y - x * FixF) < Abs(y)
       /\ y = FixInt(1) /\ x > 0 /\ Fits(Quot(FixF * FixF, x)) =>
            FixMul(FixInv(x), x) \in (FixInt(1) - x)..FixInt(1)
       /\ Fits(x + y) => FixSub(FixAdd(x, y), y) = x
       /\ x >= 0 /\ Fits(x + FixF \div 2) => Abs(FixRound(x) * FixF - x) * 2 <= FixF
       /\ Abs(FixTrunc(x) * FixF) <= Abs(x)
       /\ y > 0 /\ Fits(x * y) => FixUnscale(FixScale(x, y), y) = x
=============================================================================
