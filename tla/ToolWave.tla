------------------------------- MODULE ToolWave -------------------------------
(* How the calls of one model answer are run (agents/index.js,                *)
(* tool-executor.js, turn-recovery.js): the batch is cut into waves, the      *)
(* calls of a wave overlap, each is refused as a repeat, answered from the    *)
(* cache or run under a timer, and what it proves or changes is recorded      *)
(* when its result is in. A handler that was given up is not stopped: what it *)
(* was about to write, or a confirmation it asked for, may still come.        *)
(*                                                                            *)
(* The project is one file of code; its content is the number of the change   *)
(* that made it. Calls of one kind have the same arguments.                   *)
EXTENDS ReleaseGate, Sequences, FiniteSets

CONSTANTS
    Batches,        \* for each answer, the sequences of kinds it may hold
    MaxBatches,     \* bound: how many answers with calls
    MaxChanges,     \* bound: how many changes to the file
    ReadBudget,     \* how often the same read is run before it is refused
    MaxRetries      \* how often a call that timed out is run again

Kinds == {"map", "search", "read", "edit", "shell", "session", "check", "tests"}

ASSUME WaveAssumption ==
    /\ MaxBatches \in Nat /\ MaxChanges \in Nat
    /\ DOMAIN Batches = 1..MaxBatches
    /\ \A n \in 1..MaxBatches : Batches[n] \subseteq Seq(Kinds) \ {<<>>}
    /\ ReadBudget \in Nat \ {0} /\ MaxRetries \in Nat

VARIABLES
    batch,      \* the kinds of the calls of this answer
    wave,       \* the wave that runs; 0 between answers
    calls,      \* the calls, in the order of the answer
    made,       \* the changes to the file, and who made each
    late,       \* handlers given up that may still change the file
    gate,       \* the release gate of the turn
    revision,   \* workingMemory.workspaceRevision
    known,      \* workingMemory.toolCalls, for each repeatable kind
    cache,      \* toolCache: the reads, by the file's stamp
    tested,     \* history: what the latest recorded suite run ran on
    aborted,    \* the user stopped the turn
    batches     \* history: how many answers there were

vars == <<batch, wave, calls, made, late, gate, revision, known, cache, tested,
          aborted, batches>>

-------------------------------------------------------------------------------
(* Waves.                                                                     *)

Stateful == {"session"}
Mutations == {"edit"}
Exploration == {"map", "search", "read"}
Shells == {"shell", "session", "check"}
Repeatable == {"map", "search", "read"}     \* loop-guarded or with a budget

(* The second of two identical searches of an answer is not run.              *)
Executable(b) ==
    {i \in DOMAIN b : b[i] \in Repeatable => \A j \in 1..(i - 1) : b[j] # b[i]}

OneByOne(run) ==
    [n \in 1..Cardinality(run) |-> {i \in run : Cardinality({j \in run : j < i}) = n - 1}]

(* toolBatchExecutionGroups that lets a file mutation share a wave.           *)
Groups_Together(b) ==
    LET run == Executable(b) IN
    IF \E i \in run : b[i] \in Stateful THEN OneByOne(run) ELSE <<run>>

(* toolBatchExecutionGroups: one call per wave as soon as one of them writes  *)
(* or keeps state, the map of the repository before the searches, otherwise   *)
(* all at once.                                                               *)
Groups(b) ==
    LET run == Executable(b)
        maps == {i \in run : b[i] = "map"}
        rest == run \ maps
    IN IF \E i \in run : b[i] \in Stateful \cup Mutations THEN OneByOne(run)
       ELSE IF maps # {} /\ \E i \in rest : b[i] \in Exploration THEN <<maps, rest>>
       ELSE <<run>>

-------------------------------------------------------------------------------
Disk == Len(made)
None == -1

NewCall == [at |-> "waits", saw |-> None, before |-> None, key |-> None, tries |-> 0,
            applied |-> FALSE, result |-> "none"]
NotKnown == [count |-> 0, revision |-> 0, print |-> None, version |-> None, failed |-> FALSE]

Init ==
    /\ batch = <<>> /\ wave = 0 /\ calls = <<>>
    /\ made = <<>> /\ late = 0
    /\ gate = CreateGate
    /\ revision = 0
    /\ known = [k \in Repeatable |-> NotKnown]
    /\ cache = {}
    /\ tested = None
    /\ aborted = FALSE
    /\ batches = 0

Group == Groups(batch)[wave]
At(c, place) == wave # 0 /\ c \in Group /\ calls[c].at = place
Moves(c, call) == calls' = [calls EXCEPT ![c] = call]

(* The model answers with calls. What it answers never comes after an abort.  *)
Answer ==
    /\ wave = 0 /\ ~aborted /\ batches < MaxBatches
    /\ batches' = batches + 1
    /\ batch' \in Batches[batches']
    /\ wave' = 1
    /\ calls' = [c \in DOMAIN batch' |-> NewCall]
    /\ UNCHANGED <<made, late, gate, revision, known, cache, tested, aborted>>

(* Promise.all: the next wave starts when every call of this one is done.     *)
WaveEnds ==
    /\ wave # 0
    /\ \A c \in Group : calls[c].at = "done"
    /\ IF wave = Len(Groups(batch))
         THEN wave' = 0 /\ batch' = <<>> /\ calls' = <<>>
         ELSE wave' = wave + 1 /\ UNCHANGED <<batch, calls>>
    /\ UNCHANGED <<made, late, gate, revision, known, cache, tested, aborted, batches>>

-------------------------------------------------------------------------------
(* Admission: the guard against repeats, then, for a read, the cache.         *)

(* _recordToolExecution: counted and stamped with the workspace as it is when *)
(* the result is recorded; version and failed are history.                    *)
Noted(k, version, failed) ==
    [known EXCEPT ![k] = [count |-> @.count + 1, revision |-> revision,
                          print |-> IF k = "read" THEN Disk ELSE None,
                          version |-> version, failed |-> failed]]

(* _shouldSkipDuplicateTool that forgets the workspace may have changed.      *)
IsRepeat_AnyRevision(k) ==
    /\ k \in Repeatable
    /\ known[k].count >= (IF k = "read" THEN ReadBudget ELSE 1)
    /\ k = "read" => known[k].print = Disk

(* _shouldSkipDuplicateTool                                                   *)
IsRepeat(k) ==
    /\ k \in Repeatable
    /\ known[k].count > 0 /\ known[k].revision = revision
    /\ known[k].count >= (IF k = "read" THEN ReadBudget ELSE 1)
    /\ k = "read" => known[k].print = Disk

Refuse(c) ==
    /\ At(c, "waits") /\ IsRepeat(batch[c])
    /\ Moves(c, [calls[c] EXCEPT !.at = "done", !.result = "refused"])
    /\ known' = Noted(batch[c], known[batch[c]].version, known[batch[c]].failed)
    /\ UNCHANGED <<batch, wave, made, late, gate, revision, cache, tested, aborted, batches>>

(* The stamp the file has before it is read is the key; a hit says that the   *)
(* conversation already holds this content.                                   *)
Hits == {e \in cache : e.key = Disk}

ServeCached(c) ==
    /\ At(c, "waits") /\ batch[c] = "read" /\ ~IsRepeat("read")
    /\ \E e \in Hits :
           /\ Moves(c, [calls[c] EXCEPT !.at = "done", !.result = "cached"])
           /\ known' = Noted("read", e.version, FALSE)
    /\ UNCHANGED <<batch, wave, made, late, gate, revision, cache, tested, aborted, batches>>

(* The handler starts; before a shell command, a snapshot of the workspace.   *)
(* After an abort it starts all the same, and its result is not waited for.   *)
StartHandler(c) ==
    /\ At(c, "waits") /\ ~IsRepeat(batch[c])
    /\ batch[c] = "read" => Hits = {}
    /\ Moves(c, [calls[c] EXCEPT
           !.at = IF aborted THEN "over" ELSE "runs",
           !.result = IF aborted THEN "error" ELSE "none",
           !.before = IF batch[c] \in Shells THEN Disk ELSE None,
           !.key = IF batch[c] = "read" THEN Disk ELSE None])
    /\ late' = IF aborted /\ batch[c] \in Mutations THEN late + 1 ELSE late
    /\ UNCHANGED <<batch, wave, made, gate, revision, known, cache, tested, aborted, batches>>

-------------------------------------------------------------------------------
(* The handlers at work.                                                      *)

(* A one-shot command may change the file "behind" the back of a call that    *)
(* has looked at it and is not yet recorded; other changes are "plain".       *)
Author(c) ==
    IF batch[c] \in {"shell", "check"} /\ \E d \in Group \ {c} : calls[d].saw # None /\ calls[d].at # "done"
      THEN "behind" ELSE "plain"

(* A search, a read or a test run sees the file as it is then.                *)
See(c) ==
    /\ At(c, "runs") /\ batch[c] \in Repeatable \cup {"tests", "check"}
    /\ calls[c].saw = None
    /\ Moves(c, [calls[c] EXCEPT !.saw = Disk])
    /\ UNCHANGED <<batch, wave, made, late, gate, revision, known, cache, tested, aborted, batches>>

(* A shell command, or an edit the user agreed to, changes the file.          *)
Change(c) ==
    /\ At(c, "runs") /\ batch[c] \in Shells \cup Mutations
    /\ ~calls[c].applied /\ calls[c].saw = None
    /\ Disk < MaxChanges
    /\ made' = Append(made, Author(c))
    /\ Moves(c, [calls[c] EXCEPT !.applied = TRUE])
    /\ UNCHANGED <<batch, wave, late, gate, revision, known, cache, tested, aborted, batches>>

(* The handler returns: what it did, or an error.                             *)
Return(c) ==
    /\ At(c, "runs")
    /\ batch[c] \in Repeatable \cup {"tests", "check"} => calls[c].saw # None
    /\ \E result \in {"ok", "red", "error"} :
           /\ batch[c] \in Mutations => result = (IF calls[c].applied THEN "ok" ELSE "error")
           /\ result = "red" => batch[c] \in {"tests", "check"}
           /\ Moves(c, [calls[c] EXCEPT !.at = "over", !.result = result])
    /\ UNCHANGED <<batch, wave, made, late, gate, revision, known, cache, tested, aborted, batches>>

(* A transient error is tried again without end.                              *)
TimesOut_Unlimited(c) ==
    /\ At(c, "runs") /\ ~(batch[c] \in Mutations /\ calls[c].applied)
    /\ late' = IF batch[c] \in Mutations \cup Shells THEN late + 1 ELSE late
    /\ Moves(c, [calls[c] EXCEPT !.saw = None, !.applied = FALSE])
    /\ UNCHANGED <<batch, wave, made, gate, revision, known, cache, tested, aborted, batches>>

(* executeToolWithTimeout: the timer wins the race. The handler goes on; the  *)
(* error counts as transient, so the call is run again.                       *)
TimesOut(c) ==
    /\ At(c, "runs") /\ ~(batch[c] \in Mutations /\ calls[c].applied)
    /\ late' = IF batch[c] \in Mutations \cup Shells THEN late + 1 ELSE late
    /\ IF calls[c].tries < MaxRetries
         THEN Moves(c, [calls[c] EXCEPT !.tries = @ + 1, !.saw = None, !.applied = FALSE])
         ELSE Moves(c, [calls[c] EXCEPT !.at = "over", !.result = "error"])
    /\ UNCHANGED <<batch, wave, made, gate, revision, known, cache, tested, aborted, batches>>

(* The user stops the turn: every call that runs is answered at once.         *)
Abort ==
    /\ wave # 0 /\ ~aborted
    /\ aborted' = TRUE
    /\ LET cut == {c \in Group : calls[c].at = "runs"}
       IN /\ calls' = [c \in DOMAIN calls |->
                 IF c \in cut THEN [calls[c] EXCEPT !.at = "over", !.result = "error"]
                 ELSE calls[c]]
          /\ late' = late + Cardinality({c \in cut : /\ batch[c] \in Mutations \cup Shells
                                                     /\ ~calls[c].applied})
    /\ UNCHANGED <<batch, wave, made, gate, revision, known, cache, tested, batches>>

(* A handler nobody waits for any more writes, or never does.                 *)
LateChange ==
    /\ late > 0
    /\ late' = late - 1
    /\ made' = IF Disk < MaxChanges THEN Append(made, "late") ELSE made
    /\ UNCHANGED <<batch, wave, calls, gate, revision, known, cache, tested, aborted, batches>>
LateNothing ==
    /\ late > 0
    /\ late' = late - 1
    /\ UNCHANGED <<batch, wave, calls, made, gate, revision, known, cache, tested, aborted, batches>>

-------------------------------------------------------------------------------
(* The result is in: what it changed, then what it proves, then the memory.   *)

Done(c) == Moves(c, [NewCall EXCEPT !.at = "done", !.result = calls[c].result])

(* classifyVerification: an error is no verdict of run_tests, and a red one   *)
(* of a test command given to a shell.                                        *)
Verdict(c) ==
    IF batch[c] = "check" \/ (batch[c] = "tests" /\ calls[c].result # "error")
      THEN [kind |-> "suite", passed |-> calls[c].result = "ok"]
      ELSE NoVerdict
Tested(c) == IF Verdict(c).passed THEN calls[c].saw ELSE tested

(* Cached by the stamp the file has now, after the read.                      *)
Cached_Late(c) == {[key |-> Disk, version |-> calls[c].saw]}

(* The read is kept under the stamp the file had before it was read.          *)
Cached(c) == {[key |-> calls[c].key, version |-> calls[c].saw]}

RecordSearch(c) ==
    /\ At(c, "over") /\ batch[c] \in Repeatable
    /\ LET ok == calls[c].result = "ok"
       IN /\ known' = Noted(batch[c], IF ok THEN calls[c].saw ELSE known[batch[c]].version, ~ok)
          /\ cache' = IF ok /\ batch[c] = "read" THEN cache \cup Cached(c) ELSE cache
    /\ Done(c)
    /\ UNCHANGED <<batch, wave, made, late, gate, revision, tested, aborted, batches>>

RecordEdit(c) ==
    /\ At(c, "over") /\ batch[c] \in Mutations
    /\ IF calls[c].result = "ok"
         THEN /\ gate' = RecordMutation(gate, TRUE)
              /\ cache' = {}
              /\ revision' = revision + 1
         ELSE UNCHANGED <<gate, cache, revision>>
    /\ Done(c)
    /\ UNCHANGED <<batch, wave, made, late, known, tested, aborted, batches>>

(* What a shell command changed is not counted.                               *)
ShellGate_Uncounted(c, changed) == RecordVerification(gate, Verdict(c))

(* What changed is recorded before what the command proved: in "edit && test" *)
(* the tests ran on the edited file.                                          *)
ShellGate(c, changed) ==
    RecordVerification(IF changed THEN RecordMutation(gate, TRUE) ELSE gate, Verdict(c))

(* A second snapshot tells what the command changed, whatever it returned.    *)
RecordShell(c) ==
    /\ At(c, "over") /\ batch[c] \in Shells
    /\ LET changed == Disk # calls[c].before
       IN /\ gate' = ShellGate(c, changed)
          /\ cache' = IF changed THEN {} ELSE cache
          /\ revision' = IF changed THEN revision + 1 ELSE revision
    /\ tested' = Tested(c)
    /\ Done(c)
    /\ UNCHANGED <<batch, wave, made, late, known, aborted, batches>>

RecordTests(c) ==
    /\ At(c, "over") /\ batch[c] = "tests"
    /\ gate' = RecordVerification(gate, Verdict(c))
    /\ tested' = Tested(c)
    /\ Done(c)
    /\ UNCHANGED <<batch, wave, made, late, revision, known, cache, aborted, batches>>

-------------------------------------------------------------------------------
Record(c) == RecordSearch(c) \/ RecordEdit(c) \/ RecordShell(c) \/ RecordTests(c)
Admit(c) == Refuse(c) \/ ServeCached(c) \/ StartHandler(c)

Next ==
    \/ Answer \/ WaveEnds \/ Abort \/ LateChange \/ LateNothing
    \/ \E c \in DOMAIN calls :
          \/ Admit(c) \/ See(c) \/ Change(c) \/ Return(c) \/ TimesOut(c) \/ Record(c)

Places == UNION {DOMAIN b : b \in UNION {Batches[n] : n \in 1..MaxBatches}}

(* Every call is admitted, returns or times out, and is recorded.             *)
Fairness ==
    /\ WF_vars(WaveEnds)
    /\ \A c \in Places :
          WF_vars(c \in DOMAIN calls /\ (Admit(c) \/ Return(c) \/ TimesOut(c) \/ Record(c)))

Spec == Init /\ [][Next]_vars /\ Fairness

-------------------------------------------------------------------------------
(* Properties.                                                                *)

Calls == [at : {"waits", "runs", "over", "done"},
          saw : {None} \cup 0..MaxChanges, before : {None} \cup 0..MaxChanges,
          key : {None} \cup 0..MaxChanges, tries : 0..MaxRetries, applied : BOOLEAN,
          result : {"none", "ok", "red", "error", "refused", "cached"}]

(* Type correctness of the batch, its calls and the memory of the turn.       *)
TypeOK ==
    /\ batch \in (IF wave = 0 THEN {<<>>} ELSE Batches[batches])
    /\ wave \in 0..Len(Groups(batch))
    /\ calls \in Seq(Calls) /\ Len(calls) = Len(batch)
    /\ made \in Seq({"plain", "behind", "late"}) /\ Disk <= MaxChanges
    /\ late \in Nat
    /\ gate \in Gates
    /\ revision \in 0..gate.mutationSeq
    /\ known \in [Repeatable -> [count : Nat, revision : Nat, failed : BOOLEAN,
                                 print : {None} \cup 0..MaxChanges,
                                 version : {None} \cup 0..MaxChanges]]
    /\ cache \subseteq [key : 0..MaxChanges, version : 0..MaxChanges]
    /\ tested \in {None} \cup 0..MaxChanges
    /\ aborted \in BOOLEAN
    /\ batches \in 0..MaxBatches

PlainAfter(version) == {v \in 1..Disk : v > version /\ made[v] = "plain"}

(* Between two answers, a gate that would let the turn end has seen a green   *)
(* run on every plain change: no edit, no shell command and no command that   *)
(* edits and tests at once leaves a stale run that counts as fresh. What the  *)
(* code does not cover are the changes behind the back of a run of the same   *)
(* wave and those of handlers that were given up.                             *)
GreenIsCurrent ==
    (wave = 0 /\ ~aborted /\ Evaluate(gate, TRUE) = "open") => PlainAfter(tested) = {}

(* A call refused as a repeat of one that worked has been answered with the   *)
(* file as it is, up to the same two kinds of changes.                        *)
RefusalIsFounded ==
    \A k \in Repeatable :
        (wave = 0 /\ ~aborted /\ IsRepeat(k) /\ ~known[k].failed) => PlainAfter(known[k].version) = {}

(* A read answered from the cache tells of the file as it stands, although it *)
(* was stamped before it was read and others changed the file meanwhile.      *)
CacheIsCurrent == \A e \in Hits : e.version = Disk

(* Every call comes back: the timers and the bound on retries see to it, also *)
(* when a confirmation is never answered.                                     *)
BatchEnds == []<>(wave = 0)
===============================================================================
