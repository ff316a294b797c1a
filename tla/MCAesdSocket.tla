---------------------------- MODULE MCAesdSocket ----------------------------
(***************************************************************************)
(* Instances of the server for TLC.                                        *)
(***************************************************************************)
EXTENDS AesdSocket, TLC

\* The clients are alike and run the same code.
ConnSymmetry == Permutations(Conns)

=============================================================================
