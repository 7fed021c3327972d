--------------------------- MODULE LedgerDomainMC ---------------------------
(***************************************************************************)
(* Two processes, two proposals, one name and one key that callers bring:  *)
(* enough for a call that is overtaken, a proposal admitted behind its     *)
(* back, a name given to one of two, one key brought for both, a review    *)
(* written over another, and a retry after each of these.                  *)
(***************************************************************************)
EXTENDS LedgerDomain, TLC

CONSTANTS p1, p2, n1, k1

Symmetry == Permutations(Proc)

=============================================================================
