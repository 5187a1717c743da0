---------------------------- MODULE MCShellSession ----------------------------
(* The instance of ShellSession that TLC checks.                              *)
EXTENDS ShellSession

MCOdd == {1}
MCBlank == {2}
===============================================================================
