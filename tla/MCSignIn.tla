------------------------------ MODULE MCSignIn ------------------------------
(* Subjects and origins are interchangeable. *)
EXTENDS SignIn, TLC

Interchangeable == Permutations(Subjects) \cup Permutations(Origins)
=============================================================================
