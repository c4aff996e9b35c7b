---------------------------- MODULE MCAuthTokens ----------------------------
(***************************************************************************)
(* Small instances of AuthTokens for TLC.                                  *)
(***************************************************************************)
EXTENDS AuthTokens, TLC

\* Requests are interchangeable, and so are users and passwords.
Symmetry == Permutations(Requests) \cup Permutations(Passwords) \cup Permutations(Users)
=============================================================================
