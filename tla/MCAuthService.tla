----------------------------- MODULE MCAuthService -----------------------------
(* A small instance of AuthService; accounts are interchangeable.          *)
EXTENDS AuthService, TLC

AccountSymmetry == Permutations(Accounts)
===============================================================================
