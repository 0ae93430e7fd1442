---------------------------- MODULE MCScanSession ----------------------------
(***************************************************************************)
(* ScanSession on small instances: activities and ids are model values     *)
(* nothing distinguishes.                                                  *)
(***************************************************************************)
EXTENDS ScanSession

\* For runs that check safety only.
Symmetry == Permutations(Clients) \cup Permutations(ScanIds)
=============================================================================
