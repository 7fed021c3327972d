--------------------------- MODULE TicketDraftsMC ---------------------------
(***************************************************************************)
(* Two messages of one conversation, the second of which brings a key of   *)
(* its own, and two proposals: enough for a draft that is superseded by a  *)
(* newer one, a claim that is overtaken by a message, and, with three      *)
(* messages in the mailbox, for an operation whose first message was       *)
(* forgotten.                                                              *)
(***************************************************************************)
EXTENDS TicketDrafts, TLC

CONSTANTS s1, s2, k1, k2

MCCorrelation == [s \in Source |-> IF s = s1 THEN {k1} ELSE {k1, k2}]

\* Proposals are interchangeable.
Symmetry == Permutations(Proposal)

=============================================================================
