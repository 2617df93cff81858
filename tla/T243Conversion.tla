---------------------------- MODULE T243Conversion ----------------------------
(***************************************************************************)
(* T243::<Utrit>::from_u384, bee-ternary-ext/src/bigint/t243/mod.rs: the  *)
(* unsigned 384-bit integer, as big-endian u32 limbs, is turned into 243  *)
(* unbalanced trits, least significant first, by repeated long division  *)
(* by 3.  Before each division the leading zero limbs are cut off the     *)
(* slice being divided, which is never made empty.                        *)
(*                                                                         *)
(* Widths are constants: limbs of LimbBits bits (32), NumLimbs limbs (12) *)
(* and NumTrits trits (243).  The code's widths satisfy                   *)
(* 3^242 < 2^384 <= 3^243: one trit fewer could not hold every value.     *)
(* The MC instance keeps that relation at 3 limbs of 3 bits and 6 trits.  *)
(***************************************************************************)
EXTENDS Integers, Sequences, SequencesExt

CONSTANTS LimbBits, NumLimbs, NumTrits

ASSUME /\ LimbBits \in Nat \ {0} /\ NumLimbs \in Nat \ {0}
       /\ NumTrits \in Nat \ {0}

Base == 2^LimbBits

\* U384<BigEndian, U32Repr>: the most significant limb first.
Limbs == [1..NumLimbs -> 0..Base - 1]

VARIABLE value

vars == <<value>>

\* The `for (i, digit)` scan: the index of the first non-zero limb, or of
\* the last limb when all are zero (the loop ends without a break).
FirstDigit(s) ==
    IF \E i \in 1..Len(s) : s[i] # 0
    THEN CHOOSE i \in 1..Len(s) : s[i] # 0 /\ \A j \in 1..i - 1 : s[j] = 0
    ELSE Len(s)

\* Mutant: the slice is cut one limb past the first non-zero one.
SkipZerosPastFirst(s) == SubSeq(s, Min({FirstDigit(s) + 1, Len(s)}), Len(s))

\* `u384_inner_slice = &mut u384_inner_slice[first_digit..]`
SkipZeros(s) == SubSeq(s, FirstDigit(s), Len(s))

\* The inner loop: each limb, most significant first, becomes
\* (rem << 32 | digit) / 3 and rem the remainder; rem < 3, so the u64
\* never overflows and `|` is addition.  Returns the new limbs and rem.
RECURSIVE DivideBy3(_, _)
DivideBy3(s, rem) ==
    IF s = <<>> THEN [limbs |-> <<>>, rem |-> rem]
    ELSE LET d == rem * Base + Head(s)
             r == DivideBy3(Tail(s), d % 3)
         IN  [limbs |-> <<d \div 3>> \o r.limbs, rem |-> r.rem]

\* The outer loop over the trit buffer: `let mut rem = 0`, skip the zero
\* limbs, divide, and store rem as the next trit.
RECURSIVE Trits(_, _)
Trits(s, k) ==
    IF k = 0 THEN <<>>
    ELSE LET q == DivideBy3(SkipZeros(s), 0)
         IN  <<q.rem>> \o Trits(q.limbs, k - 1)

\* from_u384: the trit buffer, least significant trit first.
FromU384(v) == Trits(v, NumTrits)

\* into_t242: the trit buffer with its last (most significant) trit popped.
IntoT242(t) == SubSeq(t, 1, Len(t) - 1)

Init == value \in Limbs

Next == UNCHANGED vars

Spec == Init /\ [][Next]_vars

-----------------------------------------------------------------------------
(* Reference definitions.                                                  *)

\* The number big-endian limbs denote.
LimbsValue(v) == FoldLeft(LAMBDA acc, x : acc * Base + x, 0, v)

\* The number a trit sequence, least significant first, denotes.
TritsValue(t) == FoldRight(LAMBDA x, acc : x + 3 * acc, t, 0)

\* from_u384 is exact: it yields NumTrits unbalanced trits (0, 1 or 2) whose
\* value is the integer's, for every integer the limbs can hold, the zero
\* limbs skipped before each division included.  Its into_t242 keeps the
\* value exactly when the value is below 3^(NumTrits - 1): the integers
\* the limbs hold above that (3^242 <= v < 2^384 in the code) lose their
\* top trit.
FromU384Exact ==
    LET t == FromU384(value) IN
    /\ Len(t) = NumTrits
    /\ \A i \in 1..NumTrits : t[i] \in 0..2
    /\ TritsValue(t) = LimbsValue(value)
    /\ (TritsValue(IntoT242(t)) = LimbsValue(value))
           <=> LimbsValue(value) < 3^(NumTrits - 1)

=============================================================================
