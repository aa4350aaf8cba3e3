-------------------------- MODULE MCTokenRotation --------------------------
(***************************************************************************)
(* TokenRotation for TLC.  Tokens and clients are interchangeable: no      *)
(* definition orders or names them.                                        *)
(***************************************************************************)
EXTENDS TokenRotation, TLC

Symmetry == Permutations(Token) \cup Permutations(Client)

=============================================================================
