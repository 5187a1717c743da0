---------------------------- MODULE MCCheckpoints ----------------------------
(* The instances of Checkpoints that TLC checks.                            *)
EXTENDS Checkpoints, TLC

CONSTANTS f1, f2, a, b, big, s1, s2

MCOneFile == {f1}
MCFiles == {f1, f2}
MCContents == {a, b}
MCWithLarge == {a, big}
MCLarge == {big}
MCNone == {}
MCOneShell == {s1}
MCShells == {s1, s2}
MCSymmetry == Permutations({a, b}) \cup Permutations({f1, f2}) \cup Permutations({s1, s2})
==============================================================================
