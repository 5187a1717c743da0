------------------------------ MODULE AgentTurn ------------------------------
(***************************************************************************)
(* One turn of the agent: Agent.run() of src/src/agents/index.js, with the *)
(* turn-state machine (turn-state.js), the recovery counters               *)
(* (turn-recovery.js) and the release gate.                                *)
(*                                                                         *)
(* run() is one sequential coroutine.  pc names the await it is parked at; *)
(* an action is what it does between two awaits.  The model, the tools and *)
(* the user are the environment: a reply, a tool result or an abort is     *)
(* chosen freely among those the code distinguishes.  The turn is a build- *)
(* mode turn of a full agent with the gate on.                             *)
(***************************************************************************)
EXTENDS Integers, FiniteSets, ReleaseGate

CONSTANTS
    Files, CodeFiles,      \* what tools may change; the part tests depend on
    MaxIterations,         \* maxIterations: model calls per turn
    MaxToolCalls,          \* maxToolCallsPerTurn
    MaxReadOnlyBatches,    \* maxReadOnlyToolBatches
    MaxAutoContinues,      \* maxAutoContinues
    MaxPlanContinues,      \* the 4 of autoContinueCap for a seeded plan
    MaxJevContinues,       \* the 3 of the continuation Jev asks for
    MaxGateRetries,        \* maxReleaseGateRetries
    MaxTruncationResumes,  \* maxTruncationResumes
    MaxEditRetries,        \* maxWorkspaceEditRetries
    MaxTextRecoveries,     \* MAX_TEXT_TOOL_CALL_RECOVERIES
    Projects,              \* bound of the model: the suite the turn starts with
    ToolVerdicts,          \* bound of the model: what a tool's output may prove
    MaxBatch,              \* bound of the model: tool calls in one reply
    MaxTodo                \* bound of the model: items of a todo list

ASSUME TurnAssumption ==
    /\ CodeFiles \subseteq Files
    /\ IsFiniteSet(Files)
    /\ Projects \subseteq [runner : {"unset", "suite", "none"}, hasSuite : BOOLEAN]
    /\ NoVerdict \in ToolVerdicts /\ ToolVerdicts \subseteq Verdicts
    /\ {MaxIterations, MaxToolCalls, MaxReadOnlyBatches, MaxBatch} \subseteq Nat \ {0}
    /\ {MaxAutoContinues, MaxPlanContinues, MaxJevContinues, MaxGateRetries,
        MaxTruncationResumes, MaxEditRetries, MaxTextRecoveries, MaxTodo} \subseteq Nat

(* createTurnRecoveryState: the invalid batch that forces prose, and the    *)
(* one that fails the turn.                                                 *)
ForceTextStreak == 2
MaxInvalidStreak == 3

VARIABLES
    pc,         \* the await run() is parked at
    ts,         \* turnMachine.state
    dropped,    \* an emission the state machine refused (history)
    out,        \* the outcome reported to the caller
    aborted,    \* controller.signal.aborted, by the user
    iter, calls, readOnly, forceText,
    overlay,    \* _pendingTurnOverlay, by name
    rec,        \* turnRecoveryState and the text-tool-call counters
    auto,       \* _autoContinueCount, lastAutoContinueProgress, the stall nudge
    todo,       \* _todoList, _todoDoneIdx and where the list came from
    stall,      \* continuations since anything last moved (history)
    batch,      \* the tool batch being run
    touched,    \* touchedFiles; mutationToolUsed is touched # {}
    gate, runner, \* the gate's record; the coordinator's cached suite
    workspace   \* what is true of the code on disk now (history)

control == <<pc, ts, dropped, out>>
planning == <<auto, todo, stall>>
evidence == <<touched, gate, runner, workspace>>
vars == <<control, aborted, iter, calls, readOnly, forceText, overlay, rec,
          planning, batch, evidence>>

Terminal == {"completed", "failed", "cancelled"}

(* TRANSITIONS *)
Allowed == [idle        |-> {"started"},
            started     |-> {"model", "failed", "cancelled"},
            model       |-> {"model", "tool_call"} \cup Terminal,
            tool_call   |-> {"tool_result", "failed", "cancelled"},
            tool_result |-> {"model"} \cup Terminal,
            completed   |-> {}, failed |-> {}, cancelled |-> {}]

States == DOMAIN Allowed

Legal(from, to) == to = from \/ to \in Allowed[from]

(* TurnStateMachine.transition: a refused transition leaves the state alone. *)
Emit(to) == /\ ts' = IF Legal(ts, to) THEN to ELSE ts
            /\ dropped' = (dropped \/ ~Legal(ts, to))

NotOver == [event |-> "none", reason |-> "none", warned |-> FALSE]

Reasons == {"answered", "recovered", "limit", "tool_args_retry", "context_limit",
            "empty", "invalid_loop", "timeout", "exception", "user_abort"}

Finish(event, state, reason, warned) ==
    /\ Emit(state)
    /\ pc' = "done"
    /\ out' = [event |-> event, reason |-> reason, warned |-> warned]

Continue == pc' = "head" /\ UNCHANGED <<ts, dropped, out>>

-------------------------------------------------------------------------------
(* The todo list.  accepts says which source may still set it: todoEmitted *)
(* closes it, resumingPlan keeps a markdown list from replacing it.  A     *)
(* <done:N> marker is not range checked, so done may hold an index past it. *)
Todos == [size : 0..MaxTodo, done : SUBSET (0..MaxTodo),
          src : {"none", "block", "markdown", "plan"},
          accepts : {"any", "block", "none"}]

NoTodo == [size |-> 0, done |-> {}, src |-> "none", accepts |-> "any"]

Pending(t) == {i \in 0..(t.size - 1) : i \notin t.done}

(* What an earlier turn may have left: a plan seeds no list of one item.   *)
EarlierTodos ==
    {NoTodo} \cup {t \in Todos : /\ t.size > 0 /\ t.src # "none" /\ t.accepts = "none"
                                 /\ t.src = "plan" => t.size > 1}

Listed(t, n, src) == [t EXCEPT !.size = n, !.done = {}, !.src = src, !.accepts = "none"]

BlockSource(t) == IF t.src = "plan" THEN "plan" ELSE "block"

(* The markup a streamed reply may carry: a todo block, a plan block that   *)
(* seeds an empty list, a done marker.                                      *)
MarkupUpdates(t) ==
    {t} \cup {Listed(t, n, BlockSource(t)) : n \in IF t.accepts # "none" THEN 1..MaxTodo ELSE {}}
        \cup {Listed(t, n, "plan") : n \in IF t.size = 0 THEN 2..MaxTodo ELSE {}}
        \cup {[t EXCEPT !.done = @ \cup {i}] : i \in 0..MaxTodo}

(* extractMarkdownTodoList, on a reply that is text *)
MarkdownUpdates(t) ==
    {t} \cup {Listed(t, n, "markdown") : n \in IF t.accepts = "any" THEN 1..MaxTodo ELSE {}}

(* todo_write: setList, append, markDone (which does check the range) *)
TodoToolUpdates(t) ==
    {Listed(t, n, "block") : n \in 1..MaxTodo}
        \cup {[t EXCEPT !.size = n, !.src = BlockSource(t), !.accepts = "none"] :
                 n \in (t.size + 1)..MaxTodo}
        \cup {[t EXCEPT !.done = @ \cup {i}] : i \in 0..(t.size - 1)}

-------------------------------------------------------------------------------
(* Evidence.  workspace is what a reader of the disk would know: whether    *)
(* there is a suite, and what the last run ON THE CURRENT FILES said.       *)
Workspaces == [hasSuite : BOOLEAN, suite : {"unknown", "red", "green"},
               check : {"unknown", "green"}]

Mutated(w, hasSuite) == [hasSuite |-> hasSuite, suite |-> "unknown", check |-> "unknown"]

Checked(w, v) ==
    CASE v.kind = "suite" ->
            [w EXCEPT !.suite = IF v.passed THEN "green" ELSE "red",
                      !.check = IF v.passed THEN "green" ELSE @]
      [] v.kind = "targeted" ->
            [w EXCEPT !.check = IF v.passed THEN "green" ELSE "unknown"]
      [] OTHER -> w

(* The files a tool changed are recorded before its verdict: in             *)
(* `sed -i ... && npm test` the tests ran on the edited state.              *)
ToolEffect(changed, v) ==
    IF changed = {}
    THEN /\ gate' = RecordVerification(gate, v)
         /\ workspace' = Checked(workspace, v)
         /\ UNCHANGED touched
    ELSE /\ gate' = RecordVerification(RecordMutation(gate, changed \cap CodeFiles # {}), v)
         /\ \E h \in BOOLEAN : workspace' = Checked(Mutated(workspace, h), v)
         /\ touched' = touched \cup changed

Changes == {{}} \cup {{f} : f \in Files}

-------------------------------------------------------------------------------
Recoveries == [truncation : 0..MaxTruncationResumes, edit : 0..MaxEditRetries,
               deferral : BOOLEAN, targets : BOOLEAN, repoMap : BOOLEAN,
               textRec : 0..MaxTextRecoveries, textNudge : BOOLEAN,
               streak : 0..MaxInvalidStreak]

NoRecovery == [truncation |-> 0, edit |-> 0, deferral |-> FALSE, targets |-> FALSE,
               repoMap |-> FALSE, textRec |-> 0, textNudge |-> FALSE, streak |-> 0]

NoBatch == [left |-> 0, seen |-> {}, changed |-> FALSE]

(* The keys the two continuation rules compare, and none yet. *)
Keys == {<<>>} \cup (Nat \X Nat) \cup (Nat \X Nat \X Nat)

Progress == <<Cardinality(todo.done), Cardinality(touched), calls>>

Init ==
    /\ pc = "ready" /\ ts = "idle" /\ dropped = FALSE /\ out = NotOver
    /\ aborted = FALSE
    /\ iter = 0 /\ calls = 0 /\ readOnly = 0 /\ forceText = FALSE
    /\ overlay = "none" /\ rec = NoRecovery
    /\ auto = [count |-> 0, last |-> <<>>, stalled |-> FALSE]
    /\ stall = [at |-> <<>>, run |-> 0]
    /\ todo \in EarlierTodos
    /\ batch = NoBatch
    /\ touched = {} /\ gate = CreateGate
    /\ \E p \in Projects :
         /\ runner = p.runner   \* what an earlier turn left cached
         /\ workspace = [hasSuite |-> p.hasSuite, suite |-> "unknown", check |-> "unknown"]

(* The turn starts: the list of an earlier turn survives only a             *)
(* continuation prompt, and the packages Jev's workers carried out before   *)
(* the first step count as mutations of this turn.                          *)
Begin ==
    /\ pc = "ready"
    /\ Emit("started") /\ pc' = "head" /\ UNCHANGED out
    /\ \/ todo' = NoTodo
       \/ todo' = [todo EXCEPT !.accepts = "block"] /\ Pending(todo) # {}
    /\ \E changed \in Changes : ToolEffect(changed, NoVerdict)
    /\ UNCHANGED <<aborted, iter, calls, readOnly, forceText, overlay, rec, auto,
                   stall, batch, runner>>

(* Esc: agent.cancel() *)
Cancel == /\ pc \notin {"ready", "done"} /\ ~aborted
          /\ aborted' = TRUE
          /\ UNCHANGED <<control, iter, calls, readOnly, forceText, overlay, rec,
                         planning, batch, evidence>>

-------------------------------------------------------------------------------
(* Defect for the mutants: one call too many.                               *)
NextIteration_OneMore ==
    /\ pc = "head" /\ iter <= MaxIterations
    /\ iter' = iter + 1
    /\ forceText' = (forceText \/ iter' >= MaxIterations)

(* The head of the loop: count the iteration, withhold the tools on the     *)
(* last one.                                                                *)
NextIteration ==
    /\ pc = "head" /\ iter < MaxIterations
    /\ iter' = iter + 1
    /\ forceText' = (forceText \/ iter' = MaxIterations)

OverlayAtHead ==
    IF iter + 1 = MaxIterations /\ ~forceText THEN "tool_loop_finalize" ELSE overlay

(* A call on an aborted signal is made and rejected at once. *)
CallModel ==
    /\ NextIteration
    /\ IF aborted THEN /\ ts' = "cancelled" /\ dropped' = (dropped \/ ~Legal(ts, "model"))
                       /\ pc' = "done" /\ overlay' = "none"
                       /\ out' = [event |-> "cancelled", reason |-> "user_abort", warned |-> FALSE]
                  ELSE /\ Emit("model") /\ pc' = "model" /\ UNCHANGED out
                       /\ overlay' = OverlayAtHead
    /\ UNCHANGED <<aborted, calls, readOnly, rec, planning, batch, evidence>>

(* The transcript does not fit even after compression, or preparing the     *)
(* call throws.  No call is made, so a queued overlay stays queued.         *)
HeadFails ==
    /\ NextIteration
    /\ overlay' = OverlayAtHead
    /\ \/ Finish("error", "failed", "context_limit", FALSE)
       \/ ~aborted /\ Finish("error", "failed", "exception", FALSE)
       \/ aborted /\ Finish("cancelled", "cancelled", "user_abort", FALSE)
    /\ UNCHANGED <<aborted, calls, readOnly, rec, planning, batch, evidence>>

(* Defect for the mutants: the two ends of the loop disagree by one.       *)
LoopExhausted_Beyond ==
    /\ pc = "head" /\ iter > MaxIterations
    /\ Finish("complete", "completed", "limit", FALSE)
    /\ UNCHANGED <<aborted, iter, calls, readOnly, forceText, overlay, rec,
                   planning, batch, evidence>>

(* The loop runs out of iterations. *)
LoopExhausted ==
    /\ pc = "head" /\ iter = MaxIterations
    /\ Finish("complete", "completed", "limit", FALSE)
    /\ UNCHANGED <<aborted, iter, calls, readOnly, forceText, overlay, rec,
                   planning, batch, evidence>>

-------------------------------------------------------------------------------
(* While the reply streams, its markup moves the todo list.                 *)
StreamMarkup ==
    /\ pc = "model"
    /\ todo' \in MarkupUpdates(todo) \ {todo}
    /\ UNCHANGED <<control, aborted, iter, calls, readOnly, forceText, overlay, rec,
                   auto, stall, batch, evidence>>

(* The call ends without a reply: the silence or ceiling timer, the user's  *)
(* abort, arguments the provider refused, any other error.  The race can    *)
(* also be lost by an abort: the reply actions do not look at aborted.      *)
CallFails ==
    /\ pc = "model"
    /\ overlay' = "none"
    /\ \/ aborted /\ Finish("cancelled", "cancelled", "user_abort", FALSE)
       \/ ~aborted /\ Finish("error", "failed", "timeout", FALSE)
       \/ ~aborted /\ Finish("error", "failed", "exception", FALSE)
       \/ ~aborted /\ Finish("complete", "completed", "tool_args_retry", FALSE)
    /\ UNCHANGED <<aborted, iter, calls, readOnly, forceText, rec, planning, batch, evidence>>

(* A reply is in and its overlay is spent; the code asks again with another. *)
AskAgain(kind) == /\ pc = "model"
                  /\ overlay' = kind
                  /\ Continue

(* Tool calls after the tools were withheld are not run; a model stuck on   *)
(* malformed calls is left to its own diagnosis.                            *)
ForcedStop ==
    /\ pc = "model" /\ forceText /\ rec.streak < ForceTextStreak
    /\ Finish("complete", "completed", "recovered", FALSE)
    /\ overlay' = "none"
    /\ UNCHANGED <<aborted, iter, calls, readOnly, forceText, rec, planning, batch, evidence>>

(* Text that carries tool-call markup nothing can run is sent back once.    *)
NudgeTextToolCalls ==
    /\ AskAgain("native_tool_calls") /\ ~forceText /\ ~rec.textNudge
    /\ rec' = [rec EXCEPT !.textNudge = TRUE]
    /\ UNCHANGED <<aborted, iter, calls, readOnly, forceText, planning, batch, evidence>>

(* The reply was cut at the output limit. *)
ResumeTruncated ==
    /\ AskAgain("output_truncated")
    /\ rec.truncation < MaxTruncationResumes
    /\ rec' = [rec EXCEPT !.truncation = @ + 1]
    /\ todo' \in MarkdownUpdates(todo)
    /\ UNCHANGED <<aborted, iter, calls, readOnly, forceText, auto, stall, batch, evidence>>

(* With the tools withheld, the reply postpones the work. *)
RetryDeferral ==
    /\ AskAgain("deliver_now") /\ forceText /\ ~rec.deferral
    /\ rec' = [rec EXCEPT !.deferral = TRUE]
    /\ todo' \in MarkdownUpdates(todo)
    /\ UNCHANGED <<aborted, iter, calls, readOnly, forceText, auto, stall, batch, evidence>>

(* The reply announces an edit, or shows it as a snippet, and nothing has   *)
(* been changed yet.                                                        *)
RetryAnnouncement ==
    /\ AskAgain("workspace_edit_retry")
    /\ touched = {} /\ rec.edit < MaxEditRetries
    /\ rec' = [rec EXCEPT !.edit = @ + 1]
    /\ todo' \in MarkdownUpdates(todo)
    /\ UNCHANGED <<aborted, iter, calls, readOnly, forceText, auto, stall, batch, evidence>>

(* The reply reads as an answer: the release gate is asked. *)
TextReachesGate ==
    /\ pc = "model" /\ pc' = "gate" /\ UNCHANGED <<ts, dropped, out>>
    /\ overlay' = "none"
    /\ todo' \in MarkdownUpdates(todo)
    /\ UNCHANGED <<aborted, iter, calls, readOnly, forceText, rec, auto, stall, batch, evidence>>

-------------------------------------------------------------------------------
(* The suite is looked for once per working directory, and only for a turn  *)
(* that touched code; the answer outlives the turn.                         *)
DetectedRunner ==
    IF gate.codeTouched /\ runner = "unset"
    THEN IF workspace.hasSuite THEN "suite" ELSE "none"
    ELSE runner

(* What the harness's own run can come to.                                  *)
HarnessVerdicts ==
    IF HarnessRuns(gate, DetectedRunner = "suite")
    THEN {v \in SuiteVerdicts : /\ v.kind = "suite" => workspace.hasSuite
                                /\ v.kind = "no_suite" => ~workspace.hasSuite}
    ELSE {NoVerdict}

GateRan(v) == GateAfterCheck(gate, DetectedRunner = "suite", v)

GateStatus(v) == CheckStatus(gate, DetectedRunner = "suite", v)

AskGate(v) ==
    /\ pc = "gate"
    /\ runner' = DetectedRunner
    /\ workspace' = Checked(workspace, v)
    /\ UNCHANGED <<aborted, iter, calls, readOnly, forceText, batch, touched>>

(* The code is not verified and there are attempts left. *)
GateBlocks ==
    \E v \in HarnessVerdicts :
        /\ AskGate(v)
        /\ GateStatus(v) # "open" /\ gate.retries < MaxGateRetries
        /\ gate' = [GateRan(v) EXCEPT !.retries = @ + 1]
        /\ overlay' = IF GateStatus(v) = "suite_failing" THEN "release_gate_failing"
                                                         ELSE "verify_after_edit"
        /\ Continue
        /\ UNCHANGED <<rec, planning>>

Eligible(declared) ==
    /\ Pending(todo) # {}
    /\ todo.src \in {"block", "plan"} \/ (todo.src = "markdown" /\ calls > 0)
    /\ ~declared

ContinueCap == IF todo.src = "plan" /\ MaxPlanContinues < MaxAutoContinues
               THEN MaxPlanContinues ELSE MaxAutoContinues

JevCap == IF MaxJevContinues < MaxAutoContinues THEN MaxJevContinues ELSE MaxAutoContinues

Stalled == auto.last = Progress

(* Defect for the mutants: the stall nudge is not remembered. *)
PlanContinues_NudgeForgotten(declared) ==
    /\ Eligible(declared)
    /\ auto.count < ContinueCap

PlanContinues(declared) ==
    /\ Eligible(declared)
    /\ auto.count < ContinueCap
    /\ ~(Stalled /\ auto.stalled)

JevContinues(declared, unfinished) ==
    /\ ~Eligible(declared) /\ Pending(todo) = {}
    /\ unfinished /\ ~forceText /\ calls > 0
    /\ auto.count < JevCap
    /\ auto.last # <<Cardinality(touched), calls>>

TargetsMissed(missed) == missed /\ ~rec.targets /\ ~forceText /\ calls > 0

Stall == [at |-> Progress, run |-> IF stall.at = Progress THEN stall.run + 1 ELSE 0]

(* The reply is let through - with the NOT-verified warning when the gate's *)
(* attempts are spent - and then the turn goes on in the user's name, looks *)
(* at a file the request named, or ends.                                    *)
GatePasses ==
    \E v \in HarnessVerdicts, declared, unfinished, missed \in BOOLEAN :
        /\ AskGate(v)
        /\ GateStatus(v) = "open" \/ gate.retries >= MaxGateRetries
        /\ gate' = GateRan(v)
        /\ \/ /\ PlanContinues(declared)
              /\ auto' = [count |-> auto.count + 1, last |-> Progress,
                          stalled |-> auto.stalled \/ Stalled]
              /\ stall' = Stall
              /\ overlay' = IF Stalled THEN "auto_continue_stalled" ELSE "auto_continue"
              /\ Continue /\ UNCHANGED <<rec, todo>>
           \/ /\ JevContinues(declared, unfinished)
              /\ auto' = [auto EXCEPT !.count = @ + 1,
                                      !.last = <<Cardinality(touched), calls>>]
              /\ stall' = Stall
              /\ overlay' = "jev_unfinished"
              /\ Continue /\ UNCHANGED <<rec, todo>>
           \/ /\ ~PlanContinues(declared) /\ ~JevContinues(declared, unfinished)
              /\ TargetsMissed(missed)
              /\ rec' = [rec EXCEPT !.targets = TRUE]
              /\ overlay' = "unaddressed_targets"
              /\ Continue /\ UNCHANGED planning
           \/ /\ ~PlanContinues(declared) /\ ~JevContinues(declared, unfinished)
              /\ ~TargetsMissed(missed)
              /\ Finish("complete", "completed", "answered", GateStatus(v) # "open")
              /\ UNCHANGED <<overlay, rec, planning>>

-------------------------------------------------------------------------------
(* A reply with tool calls: the provider's own, or ones written as text,    *)
(* which are honoured a bounded number of times while tools are offered.    *)
ToolReply(r) ==
    /\ pc = "model"
    /\ \/ /\ ~forceText \/ rec.streak >= ForceTextStreak
          /\ r = rec
       \/ /\ ~forceText /\ rec.textRec < MaxTextRecoveries
          /\ r = [rec EXCEPT !.textRec = @ + 1]

ToolReplies == {rec, [rec EXCEPT !.textRec = @ + 1]}

EmptyToolTurn ==
    \E r \in ToolReplies :
        /\ ToolReply(r)
        /\ rec' = r /\ overlay' = "none"
        /\ Finish("error", "failed", "empty", FALSE)
        /\ UNCHANGED <<aborted, iter, calls, readOnly, forceText, planning, batch, evidence>>

(* Broad exploration before the repository map: asked for the map, once.    *)
NudgeRepoMap ==
    \E r \in ToolReplies :
        /\ ToolReply(r) /\ ~r.repoMap
        /\ rec' = [r EXCEPT !.repoMap = TRUE]
        /\ AskAgain("repo_map_first")
        /\ UNCHANGED <<aborted, iter, calls, readOnly, forceText, planning, batch, evidence>>

(* Defect for the mutants: the budget looks at the calls already made only. *)
OverBudget_Before(n) == calls >= MaxToolCalls

OverBudget(n) == calls + n > MaxToolCalls

(* The batch would exceed the turn's tool calls: none of it runs. *)
ToolBudgetSpent ==
    \E r \in ToolReplies, n \in 1..MaxBatch :
        /\ ToolReply(r) /\ OverBudget(n)
        /\ rec' = r /\ forceText' = TRUE
        /\ AskAgain("tool_loop_finalize")
        /\ UNCHANGED <<aborted, iter, calls, readOnly, planning, batch, evidence>>

(* The batch is announced and its assistant message stored.  Identical      *)
(* reads count once, and still have a result each.                          *)
StartBatch ==
    \E r \in ToolReplies, n \in 1..MaxBatch : \E results \in n..MaxBatch :
        /\ ToolReply(r) /\ ~OverBudget(n)
        /\ Emit("tool_call") /\ pc' = "batch" /\ UNCHANGED out
        /\ calls' = calls + n
        /\ batch' = [left |-> results, seen |-> {}, changed |-> FALSE]
        /\ rec' = r /\ overlay' = "none"
        /\ UNCHANGED <<aborted, iter, readOnly, forceText, planning, evidence>>

(* A batch with ask_user in it asks, and defers every other call. *)
AskUser ==
    \E r \in ToolReplies, n \in 1..MaxBatch :
        /\ ToolReply(r) /\ ~OverBudget(n)
        /\ Emit("tool_call") /\ pc' = "asking" /\ UNCHANGED out
        /\ calls' = calls + n
        /\ rec' = r /\ overlay' = "none"
        /\ UNCHANGED <<aborted, iter, readOnly, forceText, planning, batch, evidence>>

(* Defect for the mutants: the results are stored, their state not emitted. *)
UserAnswers_Silent ==
    /\ pc = "asking" /\ pc' = "head" /\ UNCHANGED <<ts, dropped, out>>
    /\ UNCHANGED <<aborted, iter, calls, readOnly, forceText, overlay, rec,
                   planning, batch, evidence>>

UserAnswers ==
    /\ pc = "asking"
    /\ Emit("tool_result") /\ pc' = "head" /\ UNCHANGED out
    /\ UNCHANGED <<aborted, iter, calls, readOnly, forceText, overlay, rec,
                   planning, batch, evidence>>

Result(kind, changed) ==
    batch' = [left |-> batch.left - 1,
              seen |-> IF kind = "parse_error" THEN batch.seen ELSE batch.seen \cup {kind},
              changed |-> batch.changed \/ changed]

(* One call of the batch is answered.  Every way to fail - refusal, policy, *)
(* timeout, abort - is an answer, so the batch always has all its results.  *)
(* How calls of one wave overlap is the subject of ToolWave.                *)
ToolReturns ==
    /\ pc = "batch" /\ batch.left > 0
    /\ \/ \E kind \in {"duplicate", "invalid", "parse_error"} :
             Result(kind, FALSE) /\ UNCHANGED <<touched, gate, workspace, todo, rec>>
       \/ \E changed \in Changes, v \in ToolVerdicts :
             /\ Result("ran", changed # {})
             /\ ToolEffect(changed, v)
             /\ \/ UNCHANGED <<todo, rec>>
                \/ changed = {} /\ v = NoVerdict /\ todo' \in TodoToolUpdates(todo)
                   /\ UNCHANGED rec
                \/ changed = {} /\ v = NoVerdict /\ rec' = [rec EXCEPT !.repoMap = TRUE]
                   /\ UNCHANGED todo
    /\ UNCHANGED <<control, aborted, iter, calls, readOnly, forceText, overlay,
                   auto, stall, runner>>

(* Running the batch throws. *)
BatchThrows ==
    /\ pc = "batch"
    /\ IF aborted THEN Finish("cancelled", "cancelled", "user_abort", FALSE)
                  ELSE Finish("error", "failed", "exception", FALSE)
    /\ UNCHANGED <<aborted, iter, calls, readOnly, forceText, overlay, rec,
                   planning, batch, evidence>>

OnlyDuplicates == batch.seen = {"duplicate"}

ReadOnlyLimit(n) == n >= MaxReadOnlyBatches

ReadOnlyAfter == IF OnlyDuplicates THEN readOnly
                 ELSE IF batch.changed THEN 0 ELSE readOnly + 1

ProseForced == OnlyDuplicates \/ (~batch.changed /\ ReadOnlyLimit(ReadOnlyAfter))

(* Every result was refused by the schema, or nothing parsed at all. *)
InvalidBatch == batch.seen \subseteq {"invalid"}

(* The batch is over: the loop guards decide what the next call may do.     *)
BatchEnds ==
    /\ pc = "batch" /\ batch.left = 0
    /\ batch' = NoBatch
    /\ readOnly' = ReadOnlyAfter
    /\ LET streak == IF InvalidBatch THEN rec.streak + 1 ELSE 0
           quiet  == IF ProseForced THEN "tool_loop_finalize" ELSE overlay IN
       /\ rec' = [rec EXCEPT !.streak = streak]
       /\ \/ /\ streak = ForceTextStreak
             /\ forceText' = TRUE /\ overlay' = "tool_loop_finalize"
             /\ Emit("tool_result") /\ pc' = "head" /\ UNCHANGED out
          \/ /\ InvalidBatch /\ streak < ForceTextStreak
             /\ forceText' = (forceText \/ ProseForced) /\ overlay' = "invalid_tool_call"
             /\ Emit("tool_result") /\ pc' = "head" /\ UNCHANGED out
          \/ /\ streak >= MaxInvalidStreak
             /\ forceText' = (forceText \/ ProseForced) /\ overlay' = quiet
             /\ ts' = "failed"
             /\ dropped' = (dropped \/ ~Legal(ts, "tool_result"))
             /\ pc' = "done"
             /\ out' = [event |-> "error", reason |-> "invalid_loop", warned |-> FALSE]
          \/ \E verdict \in {"none", "correct", "stop"} :   \* _jevProgressCheck
             /\ ~InvalidBatch
             /\ verdict # "none" => ~forceText /\ quiet = "none"
             /\ forceText' = (forceText \/ ProseForced \/ verdict = "stop")
             /\ overlay' = CASE verdict = "none"    -> quiet
                             [] verdict = "correct" -> "jev_course_correct"
                             [] verdict = "stop"    -> "tool_loop_finalize"
             /\ Emit("tool_result") /\ pc' = "head" /\ UNCHANGED out
    /\ UNCHANGED <<aborted, iter, calls, planning, evidence>>

-------------------------------------------------------------------------------
TextReply == NudgeTextToolCalls \/ ResumeTruncated \/ RetryDeferral
                \/ RetryAnnouncement \/ TextReachesGate

ToolCallReply == ForcedStop \/ EmptyToolTurn \/ NudgeRepoMap \/ ToolBudgetSpent
                    \/ StartBatch \/ AskUser

(* What the program does by itself: every await of these is bounded by a   *)
(* timer of the code (silence and ceiling of the model call, tool timeout,  *)
(* test-run timeout).                                                       *)
AgentStep == CallModel \/ HeadFails \/ LoopExhausted \/ CallFails
                \/ TextReply \/ ToolCallReply
                \/ GateBlocks \/ GatePasses
                \/ ToolReturns \/ BatchThrows \/ BatchEnds

Next == Begin \/ Cancel \/ StreamMarkup \/ UserAnswers \/ AgentStep

Spec == Init /\ [][Next]_vars /\ WF_vars(AgentStep)

-------------------------------------------------------------------------------
Overlays == {"none", "tool_loop_finalize", "native_tool_calls", "output_truncated",
             "deliver_now", "workspace_edit_retry", "release_gate_failing",
             "verify_after_edit", "auto_continue", "auto_continue_stalled",
             "jev_unfinished", "unaddressed_targets", "repo_map_first",
             "invalid_tool_call", "jev_course_correct"}

Outcomes == {NotOver} \cup [event : {"complete", "error", "cancelled"},
                            reason : Reasons, warned : BOOLEAN]

TypeOK ==
    /\ pc \in {"ready", "head", "model", "gate", "asking", "batch", "done"}
    /\ ts \in States
    /\ dropped \in BOOLEAN /\ aborted \in BOOLEAN /\ forceText \in BOOLEAN
    /\ out \in Outcomes
    /\ iter \in 0..MaxIterations /\ calls \in Nat /\ readOnly \in Nat
    /\ overlay \in Overlays
    /\ rec \in Recoveries
    /\ auto \in [count : 0..MaxAutoContinues, last : Keys, stalled : BOOLEAN]
    /\ stall \in [at : Keys, run : Nat]
    /\ todo \in Todos
    /\ batch \in [left : Nat, seen : SUBSET {"ran", "duplicate", "invalid"},
                  changed : BOOLEAN]
    /\ touched \subseteq Files
    /\ gate \in Gates
    /\ runner \in {"unset", "suite", "none"}
    /\ workspace \in Workspaces

(* No state the turn announces is ever refused by the state machine, and    *)
(* what the caller is told at the end is what the machine ended on: a       *)
(* refused emission is only a debug line, the UI would keep showing a turn  *)
(* that is over.  (emitTurnState, index.js:1988; TRANSITIONS)               *)
EmissionsLegal ==
    /\ ~dropped
    /\ pc = "done" <=> ts \in Terminal
    /\ ts = "completed" <=> out.event = "complete"
    /\ ts = "failed"    <=> out.event = "error"
    /\ ts = "cancelled" <=> out.event = "cancelled"

SuiteExpected == runner = "suite" /\ ~gate.suiteMissing

Verified(suiteDecides) ==
    IF suiteDecides THEN workspace.suite = "green" ELSE workspace.check = "green"

CodeChanged == touched \cap CodeFiles # {}

(* A turn that answers after changing code either carries evidence gathered *)
(* on the files as they are now - the suite's when the coordinator knows of *)
(* one, a check's otherwise - or says that it does not.                     *)
(* (release-gate.js:1-15, the gate in run(), 2799-2850)                     *)
AnswerIsVerified ==
    out.reason = "answered" /\ CodeChanged => out.warned \/ Verified(SuiteExpected)

(* Neither budget is overrun, whatever the recoveries do to the loop: the   *)
(* batches that changed nothing exceed their limit by at most the one batch *)
(* a model stuck on malformed calls still gets to run.                      *)
(* (the tool budget 3057-3082, the loop guards 3450-3522)                   *)
BudgetsHold ==
    /\ calls <= MaxToolCalls
    /\ readOnly <= MaxReadOnlyBatches + 1

(* A turn is continued in the user's name at most twice in a row without    *)
(* anything having moved since: the two continuation rules compare keys of  *)
(* different shapes, so one may follow the other.  (index.js:2889-2967)     *)
StallsBounded == stall.run <= 2

(* The turn ends, unless the user leaves its question unanswered.           *)
TurnEnds == (pc = "head") ~> (pc = "done" \/ [](pc = "asking"))

(* This turn keeps the contract of TurnContract. *)
Contract == INSTANCE TurnContract WITH
    status <- CASE pc = "ready"  -> "idle"
                [] pc = "asking" -> "waiting"
                [] pc = "done"   -> ts
                [] OTHER         -> "running",
    budget <- MaxIterations - iter

KeepsContract == Contract!Spec

(* README.md:592-594: a turn that changes code is not let end until the     *)
(* suite passes on the final code, and one that ends anyway says so.        *)
EveryEndIsVerified ==
    out.event = "complete" /\ CodeChanged => out.warned \/ Verified(SuiteExpected)
===============================================================================
