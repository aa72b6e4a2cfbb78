---------------------------- MODULE MCEnrollment ----------------------------
(* Model values and symmetry for checking Enrollment with TLC. *)
EXTENDS Enrollment, TLC

Symmetry ==
    Permutations(Servers) \cup Permutations(Fingerprints) \cup Permutations(Tokens)
      \cup Permutations(Addresses) \cup Permutations(Workers)
=============================================================================
