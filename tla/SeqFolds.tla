------------------------------ MODULE SeqFolds ------------------------------
(***************************************************************************)
(* Folds over a sequence, and its ends.  The operators are those that      *)
(* SequencesExt has under the same names; they are defined here because    *)
(* every obligation of a proof carries all of the module that defines      *)
(* them, and SequencesExt brings Bags and TLC along.                       *)
(***************************************************************************)
EXTENDS Naturals, Sequences, FiniteSetsExt

FoldLeft(op(_, _), base, seq) ==
  MapThenFoldSet(LAMBDA e, acc : op(acc, e), base, LAMBDA i : seq[i], Max, DOMAIN seq)

FoldRight(op(_, _), seq, base) ==
  MapThenFoldSet(op, base, LAMBDA i : seq[i], Min, DOMAIN seq)

Front(seq) == SubSeq(seq, 1, Len(seq) - 1)
Last(seq) == seq[Len(seq)]

IsPrefix(a, b) == Len(a) <= Len(b) /\ \A i \in DOMAIN a : a[i] = b[i]

RemoveAt(seq, i) == SubSeq(seq, 1, i - 1) \o SubSeq(seq, i + 1, Len(seq))
=============================================================================
