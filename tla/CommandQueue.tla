----------------------------- MODULE CommandQueue -----------------------------
(* What a persistent shell promises the tools that share it: commands are     *)
(* served one at a time, in the order they were issued, each is answered      *)
(* once, and "done" is only said of a command that the shell finished.        *)
EXTENDS Naturals

CONSTANTS MaxCommands, None

Commands == 1..MaxCommands

VARIABLES
    issued,     \* how many commands were issued; they are named in that order
    taken,      \* how many of them the session has taken
    serving,    \* the command it serves, or None
    finished,   \* the commands a shell has run to their end
    answered    \* Commands -> "none", "done", "lost" or "void"

vars == <<issued, taken, serving, finished, answered>>

Init ==
    /\ issued = 0 /\ taken = 0 /\ serving = None
    /\ finished = {}
    /\ answered = [c \in Commands |-> "none"]

Issue ==
    /\ issued < MaxCommands
    /\ issued' = issued + 1
    /\ UNCHANGED <<taken, serving, finished, answered>>

Take ==
    /\ serving = None /\ taken < issued
    /\ taken' = taken + 1
    /\ serving' = taken + 1
    /\ UNCHANGED <<issued, finished, answered>>

(* A command runs to its end while it is served, or after it was given up.    *)
Finish(c) ==
    /\ c \in (1..taken) \ finished
    /\ finished' = finished \cup {c}
    /\ UNCHANGED <<issued, taken, serving, answered>>

Answer(kind) ==
    /\ serving # None /\ answered[serving] = "none"
    /\ kind = "done" => serving \in finished
    /\ answered' = [answered EXCEPT ![serving] = kind]
    /\ serving' = None
    /\ UNCHANGED <<issued, taken, finished>>

(* A command that is answered as soon as it is taken: it was empty, or its    *)
(* caller had already given it up.                                            *)
Refuse ==
    /\ serving = None /\ taken < issued
    /\ taken' = taken + 1
    /\ \E kind \in {"void", "lost"} :
           answered' = [answered EXCEPT ![taken + 1] = kind]
    /\ UNCHANGED <<issued, serving, finished>>

Next ==
    \/ Issue \/ \E c \in Commands : Finish(c)
    \/ Take \/ Refuse
    \/ \E kind \in {"done", "lost"} : Answer(kind)

Spec == Init /\ [][Next]_vars

(* Whatever is issued is answered, in the end: no call waits for ever.        *)
NoneWaits == \A c \in 1..issued : answered[c] # "none"
Answered == []<>NoneWaits
===============================================================================
