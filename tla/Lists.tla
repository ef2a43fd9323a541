------------------------------- MODULE Lists -------------------------------
(***************************************************************************)
(* Sequences used as stacks and as logs.  SequencesExt has these operators *)
(* too, with Bags, whose theorems a proof would carry along everywhere.    *)
(***************************************************************************)
EXTENDS Integers, FiniteSetsExt, Sequences

(* The top of a stack, and what is below it. *)
Last(s) == s[Len(s)]
Front(s) == SubSeq(s, 1, Len(s) - 1)

(* A log applied to what there was before, from its first entry on. *)
FoldLeft(op(_, _), base, log) ==
    MapThenFoldSet(LAMBDA i, acc : op(acc, log[i]), base, LAMBDA i : i, Max, DOMAIN log)
=============================================================================
