----------------------------- MODULE ShellSession -----------------------------
(* The persistent shell of tools/bash-session.js: a chain of commands, one    *)
(* shell process at a time, and the framing that tells one command's output   *)
(* from the next. The shell writes a sentinel to stderr and then one, with    *)
(* the exit code, to stdout; the session answers when it has read both, or    *)
(* when it learns that one will not come.                                     *)
(*                                                                            *)
(* Actors: the tools that issue commands, the event loop that runs the        *)
(* session's handlers, the shell processes with what they leave running, and  *)
(* the timers. A shell is named after the command it was started for. What a  *)
(* command prints is abstracted to one item per stream.                       *)
EXTENDS Integers, Sequences, SequencesExt, FiniteSets

CONSTANTS
    MaxCommands,    \* bound: how many commands are issued
    Blank,          \* those that are empty text
    Odd,            \* those that may close stderr, leave a child, or kill their shell
    ExitCodes,      \* the codes a command may end with
    None,
    MaxInterrupts   \* bound: aborts and kills of the session from outside

Commands == 1..MaxCommands

ASSUME ShellAssumption ==
    /\ MaxCommands \in Nat
    /\ Blank \subseteq Commands /\ Odd \subseteq Commands
    /\ ExitCodes \subseteq Int
    /\ None \notin Int
    /\ MaxInterrupts \in Nat

VARIABLES
    issued,     \* how many commands were given to run(): 1, 2, ... in this order
    taken,      \* how many of them the promise chain has reached
    aborted,    \* the commands whose signal was aborted
    session,    \* the session object: its process, and what it knows of stderr
    current,    \* the command being run, with its buffers, or None
    shells,     \* the processes, by the command each was started for
    answers,    \* what run() resolved to
    ran,        \* history: what each command really did
    interrupts  \* history: how often the session was killed from outside

vars == <<issued, taken, aborted, session, current, shells, answers, ran, interrupts>>

-------------------------------------------------------------------------------
(* What goes through a pipe: a command's text, its sentinel, and the code     *)
(* that follows the sentinel.                                                 *)
Item(kind, c, code) == [kind |-> kind, of |-> c, code |-> code]
Items == [kind : {"text", "mark", "code"}, of : Commands, code : ExitCodes \cup {0}]

Text(c) == Item("text", c, 0)
Mark(c) == Item("mark", c, 0)

NewShell == [state |-> "alive", killed |-> FALSE, stdin |-> <<>>, framedErr |-> FALSE,
             child |-> None, code |-> 0,
             out |-> <<>>, err |-> <<>>, errOpen |-> TRUE,
             exitTold |-> FALSE, errEndTold |-> FALSE]
Unborn == [NewShell EXCEPT !.state = "unborn"]

Answer(kind, out, err, code, truncated) ==
    [kind |-> kind, out |-> out, err |-> err, code |-> code, truncated |-> truncated]

Alive(p) == shells[p].state = "alive"
ErrHeld(p) == (Alive(p) /\ shells[p].errOpen) \/ shells[p].child # None
OutHeld(p) == Alive(p) \/ shells[p].child # None
Listening(p) == current # None /\ current.shell = p
(* A shell that was killed and that no command listens to has no further part *)
(* in anything: what still happens in it and its pipes is left out.           *)
Concerned(p) == Listening(p) \/ session.process = p

Init ==
    /\ issued = 0 /\ taken = 0 /\ aborted = {}
    /\ session = [process |-> None, stderrEnded |-> FALSE]
    /\ current = None
    /\ shells = [p \in Commands |-> Unborn]
    /\ answers = [c \in Commands |-> None]
    /\ ran = [c \in Commands |-> [out |-> FALSE, err |-> FALSE, ended |-> None, split |-> FALSE]]
    /\ interrupts = 0

-------------------------------------------------------------------------------
(* The session object.                                                        *)

Run ==
    /\ issued < MaxCommands
    /\ issued' = issued + 1
    /\ UNCHANGED <<taken, aborted, session, current, shells, answers, ran, interrupts>>

(* settle: the listeners and the timers go, the promise resolves.             *)
Settle(answer) ==
    /\ answers' = [answers EXCEPT ![current.cmd] = answer]
    /\ current' = None

Partial(kind, code) == Answer(kind, current.out, current.err, code, FALSE)
Framed(cur) == Answer("framed", cur.framed, cur.err, cur.code, cur.truncated)

SettleIfFramed(cur) ==
    IF cur.outSeen /\ cur.errSeen
      THEN /\ answers' = [answers EXCEPT ![cur.cmd] = Framed(cur)]
           /\ current' = None
      ELSE current' = cur /\ UNCHANGED answers

Signalled(sh) ==
    IF session.process = None THEN sh ELSE [sh EXCEPT ![session.process].killed = TRUE]

(* kill() that leaves the dying process for the next command.                 *)
Kill_Keeps ==
    /\ shells' = Signalled(shells)
    /\ UNCHANGED session

(* kill(): the process is forgotten at once, the signal reaches its group.    *)
Kill ==
    /\ shells' = Signalled(shells)
    /\ session' = [session EXCEPT !.process = None]

(* run() without the chain.                                                   *)
Waiting_Parallel == taken < issued

Waiting == current = None /\ taken < issued
First == taken + 1

RunBlank ==
    /\ Waiting /\ First \in Blank
    /\ taken' = taken + 1
    /\ answers' = [answers EXCEPT ![First] = Answer("blank", {}, {}, 0, FALSE)]
    /\ UNCHANGED <<issued, aborted, session, current, shells, ran, interrupts>>

(* ensureStarted that carries what it knew of stderr over to the new shell.   *)
Started_KeepsEnd(c) ==
    IF session.process # None THEN session ELSE [session EXCEPT !.process = c]

(* ensureStarted: a new process, with a stderr of its own.                    *)
Started(c) ==
    IF session.process # None THEN session
    ELSE [process |-> c, stderrEnded |-> FALSE]
WithStarted(c) ==
    IF session.process # None THEN shells ELSE [shells EXCEPT ![c] = NewShell]

(* _runOne of a signal already aborted: the shell it may just have started is *)
(* killed, and nothing is sent.                                               *)
StartAborted ==
    /\ Waiting /\ First \in aborted \ Blank
    /\ taken' = taken + 1
    /\ shells' = [WithStarted(First) EXCEPT ![Started(First).process].killed = TRUE]
    /\ session' = [Started(First) EXCEPT !.process = None]
    /\ answers' = [answers EXCEPT ![First] = Answer("aborted", {}, {}, 130, FALSE)]
    /\ UNCHANGED <<issued, aborted, current, ran, interrupts>>

(* _runOne: the listeners go on, the framed command is written to stdin. What *)
(* is written to a shell that is dead, but not yet known to be, is lost.      *)
Start ==
    /\ Waiting /\ First \notin aborted \cup Blank
    /\ taken' = taken + 1
    /\ LET now == Started(First)
           sh == WithStarted(First)
       IN /\ session' = now
          /\ shells' = IF sh[now.process].state = "alive"
                         THEN [sh EXCEPT ![now.process].stdin = Append(@, First)]
                         ELSE sh
          /\ current' = [cmd |-> First, shell |-> now.process, out |-> {}, err |-> {},
                         outSeen |-> FALSE, errSeen |-> now.stderrEnded,
                         framed |-> {}, code |-> 0, grace |-> FALSE, truncated |-> FALSE]
    /\ UNCHANGED <<issued, aborted, answers, ran, interrupts>>

(* onAbort, or the abort of a command that still waits.                       *)
Abort(c) ==
    /\ c \in (1..issued) \ (aborted \cup Blank) /\ answers[c] = None
    /\ interrupts < MaxInterrupts
    /\ interrupts' = interrupts + 1
    /\ aborted' = aborted \cup {c}
    /\ IF current # None /\ current.cmd = c
         THEN Kill /\ Settle(Partial("aborted", 130))
         ELSE UNCHANGED <<session, current, shells, answers>>
    /\ UNCHANGED <<issued, taken, ran>>

(* The command's timer is cleared at the sentinel of stdout.                  *)
Timeout_Cleared ==
    /\ current # None /\ ~current.outSeen
    /\ Kill /\ Settle(Partial("timedOut", 124))
    /\ UNCHANGED <<issued, taken, aborted, ran, interrupts>>

Timeout ==
    /\ current # None
    /\ Kill /\ Settle(Partial("timedOut", 124))
    /\ UNCHANGED <<issued, taken, aborted, ran, interrupts>>

(* killBashSession, or getBashSession for another directory.                  *)
KillSession ==
    /\ interrupts < MaxInterrupts /\ session.process # None
    /\ interrupts' = interrupts + 1
    /\ Kill
    /\ UNCHANGED <<issued, taken, aborted, current, answers, ran>>

-------------------------------------------------------------------------------
(* The handlers of the pipes and of the process. Without a listener, what a   *)
(* pipe delivers is dropped.                                                  *)

Position(item, chunk) ==
    IF item \in ToSet(chunk) THEN SelectInSeq(chunk, LAMBDA i : i = item) ELSE 0
Chunks(p, pipe) == IF Listening(p) THEN 1..Len(pipe) ELSE {Len(pipe)} \ {0}
Rest(pipe, k) == SubSeq(pipe, k + 1, Len(pipe))
Shown(chunk) == {i \in ToSet(chunk) : i.kind # "code"}

(* The window starts with the first byte of stderr only.                      *)
ArmGrace_OnData(cur) == [cur EXCEPT !.grace = cur.outSeen /\ ~cur.errSeen /\ cur.err # {}]

(* armGrace: the window of silence on stderr starts, or starts again.         *)
ArmGrace(cur) == [cur EXCEPT !.grace = cur.outSeen /\ ~cur.errSeen]

(* The code looked for in what stands before the sentinel.                    *)
CodeBehind_Before(at, chunk) == 0
(* No code found, none reported.                                              *)
CodeBehind_None(at, chunk) == IF at < Len(chunk) THEN chunk[at + 1].code ELSE None

CodeBehind(at, chunk) == IF at < Len(chunk) THEN chunk[at + 1].code ELSE 0

(* onStdout. The code is looked for in what has arrived behind the sentinel.  *)
OnStdout(chunk) ==
    LET at == Position(Mark(current.cmd), chunk)
        err == current.errSeen \/ session.stderrEnded
    IN IF at = 0 \/ current.outSeen
         THEN /\ current' = [current EXCEPT !.out = @ \cup Shown(chunk)]
              /\ UNCHANGED <<answers, ran>>
         ELSE /\ SettleIfFramed(ArmGrace([current EXCEPT
                    !.out = @ \cup Shown(chunk),
                    !.outSeen = TRUE, !.errSeen = err,
                    !.framed = current.out \cup Shown(SubSeq(chunk, 1, at - 1)),
                    !.code = CodeBehind(at, chunk)]))
              /\ ran' = [ran EXCEPT ![current.cmd].split = at = Len(chunk)]

ReadStdout(p) ==
    \E k \in Chunks(p, shells[p].out) :
        /\ shells' = [shells EXCEPT ![p].out = Rest(@, k)]
        /\ IF Listening(p) THEN OnStdout(SubSeq(shells[p].out, 1, k))
           ELSE UNCHANGED <<current, answers, ran>>
        /\ UNCHANGED <<issued, taken, aborted, session, interrupts>>

(* onStderr: every byte restarts the window; the sentinel and what follows it *)
(* are cut off.                                                               *)
OnStderr(chunk) ==
    LET at == Position(Mark(current.cmd), chunk)
    IN IF at = 0 \/ current.errSeen
         THEN /\ current' = ArmGrace([current EXCEPT !.err = @ \cup Shown(chunk)])
              /\ UNCHANGED answers
         ELSE SettleIfFramed([current EXCEPT
                  !.err = @ \cup Shown(SubSeq(chunk, 1, at - 1)), !.errSeen = TRUE])

ReadStderr(p) ==
    \E k \in Chunks(p, shells[p].err) :
        /\ shells' = [shells EXCEPT ![p].err = Rest(@, k)]
        /\ IF Listening(p) THEN OnStderr(SubSeq(shells[p].err, 1, k))
           ELSE UNCHANGED <<current, answers>>
        /\ UNCHANGED <<issued, taken, aborted, session, ran, interrupts>>

(* onStderrEnd: only the session's own process speaks for the session.        *)
StderrEnds(p) ==
    /\ shells[p].state # "unborn" /\ ~shells[p].errEndTold
    /\ shells[p].err = <<>> /\ ~ErrHeld(p)
    /\ shells' = [shells EXCEPT ![p].errEndTold = TRUE]
    /\ IF Listening(p)
         THEN /\ session' = [session EXCEPT !.stderrEnded = @ \/ session.process = p]
              /\ SettleIfFramed([current EXCEPT !.errSeen = TRUE])
         ELSE UNCHANGED <<session, current, answers>>
    /\ UNCHANGED <<issued, taken, aborted, ran, interrupts>>

(* The window of silence on stderr closes.                                    *)
GraceFires ==
    /\ current # None /\ current.grace
    /\ SettleIfFramed([current EXCEPT !.truncated = TRUE, !.errSeen = TRUE])
    /\ UNCHANGED <<issued, taken, aborted, session, shells, ran, interrupts>>

(* The 'exit' handler without the guard against a late exit.                  *)
OnExit_Unguarded(p) ==
    /\ shells[p].state = "dead" /\ ~shells[p].exitTold
    /\ shells' = [shells EXCEPT ![p].exitTold = TRUE]
    /\ session' = [session EXCEPT !.process = None]
    /\ UNCHANGED <<issued, taken, aborted, current, answers, ran, interrupts>>

(* The 'exit' handler of ensureStarted.                                       *)
OnExit(p) ==
    /\ shells[p].state = "dead" /\ ~shells[p].exitTold
    /\ shells' = [shells EXCEPT ![p].exitTold = TRUE]
    /\ session' = [session EXCEPT !.process = IF @ = p THEN None ELSE @]
    /\ UNCHANGED <<issued, taken, aborted, current, answers, ran, interrupts>>

(* onClose: the process has ended and its pipes are drained.                  *)
OnClose(p) ==
    /\ Listening(p)
    /\ shells[p].exitTold /\ shells[p].errEndTold
    /\ shells[p].out = <<>> /\ ~OutHeld(p)
    /\ Settle(Partial("died", shells[p].code))
    /\ UNCHANGED <<issued, taken, aborted, session, shells, ran, interrupts>>

-------------------------------------------------------------------------------
(* The processes. A shell runs what it reads from stdin; a command prints,    *)
(* may close stderr, may leave a child behind with the pipes, and ends; then  *)
(* the frame writes the two sentinels. The shell may die at any time.         *)

Process(p) ==
    /\ Alive(p)
    /\ UNCHANGED <<issued, taken, aborted, session, current, answers, interrupts>>
Runs(p) == Head(shells[p].stdin)
InCommand(p) == Alive(p) /\ shells[p].stdin # <<>> /\ ~shells[p].framedErr

(* A command at work: it prints on both streams, it may close or redirect     *)
(* stderr (exec 2>&-) before or after that, and leave a child with the pipes. *)
Works(p) ==
    /\ InCommand(p) /\ ~ran[Runs(p)].out
    /\ \E closes \in {"never", "before", "after"}, leaves \in BOOLEAN :
        LET c == Runs(p)
            err == shells[p].errOpen /\ closes # "before"
        IN /\ c \in Odd \/ (closes = "never" /\ ~leaves)
           /\ shells' = [shells EXCEPT
                  ![p].out = Append(@, Text(c)),
                  ![p].err = IF err THEN Append(@, Text(c)) ELSE @,
                  ![p].errOpen = @ /\ closes = "never",
                  ![p].child = IF leaves THEN c ELSE @]
           /\ ran' = [ran EXCEPT ![c].out = TRUE, ![c].err = err]
    /\ Process(p)

(* The command has ended: the first line of the frame that prints.            *)
FramesErr(p) ==
    /\ InCommand(p)
    /\ \E code \in ExitCodes : ran' = [ran EXCEPT ![Runs(p)].ended = code]
    /\ shells' = [shells EXCEPT
           ![p].framedErr = TRUE,
           ![p].err = IF shells[p].errOpen THEN Append(@, Mark(Runs(p))) ELSE @]
    /\ Process(p)

FramesOut(p) ==
    /\ Alive(p) /\ shells[p].framedErr
    /\ LET c == Runs(p)
       IN shells' = [shells EXCEPT
              ![p].framedErr = FALSE, ![p].stdin = Tail(@),
              ![p].out = @ \o <<Mark(c), Item("code", c, ran[c].ended)>>]
    /\ UNCHANGED ran
    /\ Process(p)

Dies(p) ==
    /\ shells[p].stdin # <<>> => Runs(p) \in Odd
    /\ shells' = [shells EXCEPT ![p].state = "dead", ![p].code = 1,
                                ![p].stdin = <<>>, ![p].framedErr = FALSE]
    /\ UNCHANGED ran
    /\ Process(p)

ChildEnds(p) ==
    /\ shells[p].child # None
    /\ shells' = [shells EXCEPT ![p].child = None]
    /\ UNCHANGED <<issued, taken, aborted, session, current, answers, ran, interrupts>>

(* SIGTERM, then SIGKILL, to the process group. What is in the pipes is still *)
(* there for a command that listens.                                          *)
KillLands(p) ==
    /\ shells[p].killed /\ OutHeld(p)
    /\ LET gone == IF Listening(p) THEN shells[p] ELSE [NewShell EXCEPT !.killed = TRUE]
       IN shells' = [shells EXCEPT ![p] =
              [gone EXCEPT !.state = "dead", !.child = None, !.stdin = <<>>,
                           !.framedErr = FALSE, !.code = IF Alive(p) THEN -1 ELSE @]]
    /\ UNCHANGED <<issued, taken, aborted, session, current, answers, ran, interrupts>>

-------------------------------------------------------------------------------
Events(p) ==
    ReadStdout(p) \/ ReadStderr(p) \/ StderrEnds(p) \/ OnClose(p)
Programs(p) ==
    \/ Works(p)
    \/ FramesErr(p) \/ FramesOut(p) \/ Dies(p) \/ ChildEnds(p)

Next ==
    \/ Run \/ RunBlank \/ StartAborted \/ Start
    \/ \E c \in Commands : Abort(c)
    \/ Timeout \/ GraceFires \/ KillSession
    \/ \E p \in Commands : Concerned(p) /\ (Events(p) \/ Programs(p))
    \/ \E p \in Commands : KillLands(p) \/ OnExit(p)

(* Promise callbacks run and the timer of a command fires, in the end.        *)
(* Nothing is assumed of the commands, their shells and their pipes.          *)
Fairness ==
    /\ WF_vars(RunBlank \/ StartAborted \/ Start)
    /\ WF_vars(Timeout)

Spec == Init /\ [][Next]_vars /\ Fairness
-------------------------------------------------------------------------------
(* Properties.                                                                *)

Shells == [state : {"unborn", "alive", "dead"}, killed : BOOLEAN,
           stdin : Seq(Commands), framedErr : BOOLEAN,
           child : Commands \cup {None}, code : {-1, 0, 1},
           out : Seq(Items), err : Seq(Items), errOpen : BOOLEAN,
           exitTold : BOOLEAN, errEndTold : BOOLEAN]
Running == [cmd : Commands, shell : Commands, out : SUBSET Items, err : SUBSET Items,
            outSeen : BOOLEAN, errSeen : BOOLEAN, framed : SUBSET Items,
            code : ExitCodes \cup {0}, grace : BOOLEAN, truncated : BOOLEAN]
Answers == [kind : {"blank", "framed", "died", "timedOut", "aborted"},
            out : SUBSET Items, err : SUBSET Items,
            code : ExitCodes \cup {-1, 0, 1, 124, 130}, truncated : BOOLEAN]

(* None marks what is not there: it is neither a command nor its answer.      *)
ASSUME NoneAssumption == None \notin Running \cup Answers

(* Type correctness of the session, its processes and its answers.            *)
TypeOK ==
    /\ issued \in 0..MaxCommands
    /\ taken \in 0..issued
    /\ aborted \subseteq Commands
    /\ session \in [process : Commands \cup {None}, stderrEnded : BOOLEAN]
    /\ current \in Running \cup {None}
    /\ shells \in [Commands -> Shells]
    /\ answers \in [Commands -> Answers \cup {None}]
    /\ ran \in [Commands -> [out : BOOLEAN, err : BOOLEAN,
                             ended : ExitCodes \cup {None}, split : BOOLEAN]]
    /\ interrupts \in 0..MaxInterrupts

Printed(c) == [out |-> IF ran[c].out THEN {Text(c)} ELSE {},
               err |-> IF ran[c].err THEN {Text(c)} ELSE {}]
Own(c, items) == {i \in items : i.of = c}
Foreign(c, items) == {i \in items : i.of # c}

(* An answer that does not admit to be incomplete holds all the command wrote *)
(* to either stream, and no sentinel of its own: the two sentinels of the     *)
(* frame decide, whatever the order in which the pipes are read and whether   *)
(* or not stderr was closed, here or by an earlier command.                   *)
OutputIsWhole ==
    \A c \in Commands :
        (answers[c] # None /\ answers[c].kind = "framed" /\ ~answers[c].truncated)
        => /\ Own(c, answers[c].out) = Printed(c).out
           /\ Own(c, answers[c].err) = Printed(c).err

(* A command's answer never holds what another command wrote, neither of the  *)
(* shell it runs in nor of one that a timeout, an abort or a kill left dying; *)
(* except, on stderr, what follows an answer that was given as incomplete.    *)
NoForeignOutput ==
    \A c \in Commands : answers[c] # None =>
        /\ Foreign(c, answers[c].out) = {}
        /\ \A i \in Foreign(c, answers[c].err) :
               answers[i.of] # None /\ answers[i.of].truncated

(* The exit code of an answer is the command's: it is wrong only when a read  *)
(* ended between the sentinel and the code, and then it says success.         *)
CodeIsTheCommands ==
    \A c \in Commands :
        (answers[c] # None /\ answers[c].kind = "framed")
        => answers[c].code = IF ran[c].split THEN 0 ELSE ran[c].ended

(* Once the sentinel of stdout is read, the session never waits for the whole *)
(* timeout of the command: stderr's sentinel has the window of silence.       *)
FrameIsAwaitedBriefly ==
    current # None /\ current.outSeen => current.grace

(* A shell that is not the session's has been signalled or has died: nothing  *)
(* is left running that the next kill would not reach.                        *)
NoStrayShell ==
    \A p \in Commands :
        Alive(p) /\ ~shells[p].killed => session.process = p

(* The session implements the queue of commands its callers rely on.          *)
Reply(c) ==
    CASE answers[c] = None -> "none"
      [] answers[c] # None /\ answers[c].kind = "framed" -> "done"
      [] answers[c] # None /\ answers[c].kind = "blank" -> "void"
      [] OTHER -> "lost"
Queue == INSTANCE CommandQueue WITH
    serving <- IF current = None THEN None ELSE current.cmd,
    finished <- {c \in Commands : ran[c].ended # None},
    answered <- [c \in Commands |-> Reply(c)]

ImplementsQueue == Queue!Spec

(* Every command that was issued is answered: whatever it does to the shell,  *)
(* to its pipes or to the commands behind it.                                 *)
EveryCommandIsAnswered == Queue!Answered
===============================================================================
