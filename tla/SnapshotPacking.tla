---------------------------- MODULE SnapshotPacking ----------------------------
(***************************************************************************)
(* Packable for the local-snapshot records: MilestoneDiff                  *)
(* (bee-snapshot/src/milestone_diff.rs) and Spent (spent.rs).              *)
(*                                                                         *)
(* pack writes to a Write stream, unpack reads from a Read stream: a      *)
(* stream is a byte sequence, reading n bytes from a shorter one is an    *)
(* error (read_exact), and unpack leaves the bytes after the record for   *)
(* the next one.  Integers are big-endian of IndexSize (u32) and          *)
(* CountSize (u64, scaled) bytes.  Output and TransactionId are not in    *)
(* this source; they pack to OutputSize and TxIdSize raw bytes.           *)
(***************************************************************************)
EXTENDS Integers, Sequences, SequencesExt

CONSTANTS IndexSize, CountSize, OutputSize, TxIdSize, Diffs, Trailers

VARIABLES diff, trailer

vars == <<diff, trailer>>

FromBE(bs) == FoldLeft(LAMBDA acc, x : acc * 256 + x, 0, bs)
ToBE(x, n) == [i \in 1..n |-> (x \div 256^(n - i)) % 256]

Err == [ok |-> FALSE]
Read(val, rest) == [ok |-> TRUE, val |-> val, rest |-> rest]

\* read_exact of n bytes.
ReadBytes(buf, n) ==
    IF Len(buf) < n THEN Err ELSE Read(SubSeq(buf, 1, n), SubSeq(buf, n + 1, Len(buf)))

\* u32/u64::unpack.
ReadInt(buf, n) ==
    LET r == ReadBytes(buf, n) IN IF r.ok THEN Read(FromBE(r.val), r.rest) ELSE Err

\* Output::unpack and TransactionId::unpack (not in this source).
OutputUnpack(buf) == ReadBytes(buf, OutputSize)
TransactionIdUnpack(buf) == ReadBytes(buf, TxIdSize)

-----------------------------------------------------------------------------
(* Spent.                                                                  *)

SpentPackedLen(s) == Len(s.output) + Len(s.transaction_id)

SpentPack(s) == s.output \o s.transaction_id

SpentUnpack(buf) ==
    LET o == OutputUnpack(buf)
        t == IF o.ok THEN TransactionIdUnpack(o.rest) ELSE Err
    IN  IF t.ok THEN Read([output |-> o.val, transaction_id |-> t.val], t.rest)
        ELSE Err

-----------------------------------------------------------------------------
(* MilestoneDiff.                                                          *)

\* packed_len: `// TODO finish`; the two counts only, not the lists.
MilestoneDiffPackedLen(d) == IndexSize + CountSize + CountSize

\* pack: the index, the created count and outputs, the consumed count and
\* spents.
MilestoneDiffPack(d) ==
    ToBE(d.index, IndexSize)
    \o ToBE(Len(d.created), CountSize) \o FlattenSeq(d.created)
    \o ToBE(Len(d.consumed), CountSize)
    \o FlattenSeq([i \in 1..Len(d.consumed) |-> SpentPack(d.consumed[i])])

\* The `for _ in 0..count` loops of unpack: count elements, each read by
\* Unpack, pushed onto the vector; the first error ends the loop.
RECURSIVE UnpackOutputs(_, _, _)
UnpackOutputs(buf, count, acc) ==
    IF count = 0 THEN Read(acc, buf)
    ELSE LET r == OutputUnpack(buf)
         IN  IF r.ok THEN UnpackOutputs(r.rest, count - 1, Append(acc, r.val))
             ELSE Err

RECURSIVE UnpackSpents(_, _, _)
UnpackSpents(buf, count, acc) ==
    IF count = 0 THEN Read(acc, buf)
    ELSE LET r == SpentUnpack(buf)
         IN  IF r.ok THEN UnpackSpents(r.rest, count - 1, Append(acc, r.val))
             ELSE Err

\* Mutant: the consumed loop runs to created_count (a copy-paste slip).
MilestoneDiffUnpackCreatedCount(buf) ==
    LET i  == ReadInt(buf, IndexSize)
        cc == IF i.ok THEN ReadInt(i.rest, CountSize) ELSE Err
        cs == IF cc.ok THEN UnpackOutputs(cc.rest, cc.val, <<>>) ELSE Err
        kc == IF cs.ok THEN ReadInt(cs.rest, CountSize) ELSE Err
        ks == IF kc.ok THEN UnpackSpents(kc.rest, cc.val, <<>>) ELSE Err
    IN  IF ks.ok
        THEN Read([index |-> i.val, created |-> cs.val, consumed |-> ks.val], ks.rest)
        ELSE Err

\* unpack: the fields in pack's order; `?` returns the first error.
MilestoneDiffUnpack(buf) ==
    LET i  == ReadInt(buf, IndexSize)
        cc == IF i.ok THEN ReadInt(i.rest, CountSize) ELSE Err
        cs == IF cc.ok THEN UnpackOutputs(cc.rest, cc.val, <<>>) ELSE Err
        kc == IF cs.ok THEN ReadInt(cs.rest, CountSize) ELSE Err
        ks == IF kc.ok THEN UnpackSpents(kc.rest, kc.val, <<>>) ELSE Err
    IN  IF ks.ok
        THEN Read([index |-> i.val, created |-> cs.val, consumed |-> ks.val], ks.rest)
        ELSE Err

Init == diff \in Diffs /\ trailer \in Trailers

Next == UNCHANGED vars

Spec == Init /\ [][Next]_vars

-----------------------------------------------------------------------------
(* Properties.                                                             *)

\* A packed diff unpacks to the same diff and consumes exactly the bytes
\* pack wrote, leaving the next record of the snapshot file untouched;
\* no strict prefix of a packed diff unpacks, so a truncated file is an
\* error rather than a shorter diff.
PackUnpackRoundTrip ==
    LET bytes == MilestoneDiffPack(diff) IN
    /\ MilestoneDiffUnpack(bytes \o trailer) = Read(diff, trailer)
    /\ \A n \in 0..Len(bytes) - 1 : ~MilestoneDiffUnpack(SubSeq(bytes, 1, n)).ok

\* Packable's contract: packed_len is the number of bytes pack writes,
\* as Spent's is.
PackedLenMatches ==
    /\ MilestoneDiffPackedLen(diff) = Len(MilestoneDiffPack(diff))
    /\ \A i \in 1..Len(diff.consumed) :
          SpentPackedLen(diff.consumed[i]) = Len(SpentPack(diff.consumed[i]))

=============================================================================
