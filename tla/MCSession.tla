------------------------------ MODULE MCSession -------------------------------
(* The instance of Session that TLC checks.                                   *)
EXTENDS Session

MCOutcomes == {[text |-> "done", tools |-> TRUE], [text |-> "plain", tools |-> TRUE],
               [text |-> "announced", tools |-> FALSE]}
===============================================================================
