--------------------------- MODULE MCProposalReview ---------------------------
(* A small instance of ProposalReview.                                      *)
EXTENDS ProposalReview, TLC

\* Proposals differ in what they ask for alone.
Symmetry == Permutations(Proposals)
===============================================================================
