------------------------- MODULE MCWorkdirLifecycle -------------------------
(* One run and two resumes, which are interchangeable.                     *)
EXTENDS WorkdirLifecycle, TLC

Symmetry == Permutations(Resumers)
=============================================================================
