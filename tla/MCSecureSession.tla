-------------------------- MODULE MCSecureSession --------------------------
(* Two ends of two threads each, a few packets, two rekeys.                *)
EXTENDS SecureSession, TLC

Symmetry == Permutations(Threads)
=============================================================================
