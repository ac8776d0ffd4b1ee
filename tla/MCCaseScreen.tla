---------------------------- MODULE MCCaseScreen ---------------------------
(* A small instance of CaseScreen for TLC: one field with a finding, which the
   provider may propose a value for or leave out. *)
EXTENDS CaseScreen, TLC

MCEntered == "f1" :> "v1"
=============================================================================
