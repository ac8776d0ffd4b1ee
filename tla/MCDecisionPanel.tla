-------------------------- MODULE MCDecisionPanel --------------------------
(* A small instance of DecisionPanel for TLC: one field with a finding, which the
   provider may propose a value for or leave out. *)
EXTENDS DecisionPanel, TLC

MCEntered == "f1" :> "v1"
=============================================================================
