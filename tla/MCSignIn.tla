------------------------------ MODULE MCSignIn ------------------------------
(* A small instance of SignIn for TLC; the constants are in SignIn.cfg. *)
EXTENDS SignIn
=============================================================================
