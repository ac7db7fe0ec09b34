--------------------------- MODULE MCZeroDowntime ---------------------------
(* Instances of the handover for TLC: event names, ranges and gateway      *)
(* events are model values.                                                *)
EXTENDS ZeroDowntime, TLC

\* The two ranges play the same part, and so do the two event names.
RangeOrNameSwap == Permutations(Ranges) \union Permutations(EventNames)
=============================================================================
