--------------------------- MODULE AgentTurn_proofs ---------------------------
(* Proofs about AgentTurn.                                                    *)
EXTENDS AgentTurn, Sequences, FiniteSetTheorems, TLAPS

LEMMA ConstantTypes ==
    /\ MaxIterations \in Nat \ {0} /\ MaxToolCalls \in Nat \ {0}
    /\ MaxReadOnlyBatches \in Nat \ {0} /\ MaxBatch \in Nat \ {0}
    /\ MaxAutoContinues \in Nat /\ MaxPlanContinues \in Nat /\ MaxJevContinues \in Nat
    /\ MaxGateRetries \in Nat /\ MaxTruncationResumes \in Nat
    /\ MaxEditRetries \in Nat /\ MaxTextRecoveries \in Nat /\ MaxTodo \in Nat
    /\ CodeFiles \subseteq Files /\ IsFiniteSet(Files)
    /\ NoVerdict \in ToolVerdicts /\ ToolVerdicts \subseteq Verdicts
  BY TurnAssumption

LEMMA StatesAre ==
    States = {"idle", "started", "model", "tool_call", "tool_result"} \cup Terminal
  BY DEF States, Allowed, Terminal

(* The state machine stays in its states whatever is emitted. *)
LEMMA EmitType ==
    ASSUME NEW to \in States, ts \in States, dropped \in BOOLEAN, Emit(to)
    PROVE  ts' \in States /\ dropped' \in BOOLEAN
  BY DEF Emit

LEMMA FinishType ==
    ASSUME NEW event \in {"complete", "error", "cancelled"}, NEW state \in Terminal,
           NEW reason \in Reasons, NEW warned \in BOOLEAN,
           ts \in States, dropped \in BOOLEAN, Finish(event, state, reason, warned)
    PROVE  /\ pc' = "done" /\ ts' \in States /\ dropped' \in BOOLEAN
           /\ out' \in Outcomes
  <1>1. state \in States
    BY StatesAre
  <1>2. ts' \in States /\ dropped' \in BOOLEAN
    BY <1>1, EmitType DEF Finish
  <1> QED BY <1>2 DEF Finish, Outcomes

LEMMA RecordMutationType ==
    ASSUME NEW g \in Gates, NEW isCode \in BOOLEAN
    PROVE  RecordMutation(g, isCode) \in Gates
  <1>1. g.mutationSeq + 1 \in Nat
    BY DEF Gates
  <1>2. (g.codeTouched \/ isCode) \in BOOLEAN
    OBVIOUS
  <1> QED BY <1>1, <1>2, Zenon DEF RecordMutation, Gates

LEMMA VerdictsAre ==
    ASSUME NEW v \in Verdicts
    PROVE  v.passed \in BOOLEAN /\ v.kind \in {"none", "no_suite", "suite", "targeted"}
  <1>1. CASE v \in [kind : {"suite", "targeted"}, passed : BOOLEAN]
    BY <1>1
  <1>2. CASE v = NoVerdict
    BY <1>2 DEF NoVerdict
  <1>3. CASE v = [kind |-> "no_suite", passed |-> FALSE]
    BY <1>3
  <1> QED BY <1>1, <1>2, <1>3 DEF Verdicts

LEMMA RecordVerificationType ==
    ASSUME NEW g \in Gates, NEW v \in Verdicts
    PROVE  RecordVerification(g, v) \in Gates
  <1> DEFINE entry == [seq |-> g.mutationSeq, passed |-> v.passed]
  <1>0. v.passed \in BOOLEAN /\ g.mutationSeq \in Nat
    BY VerdictsAre DEF Gates
  <1>1. entry \in Runs
    BY <1>0 DEF Runs
  <1>2. (IF v.passed THEN entry ELSE g.lastTargeted) \in Runs
    BY <1>1 DEF Gates
  <1>3. v.kind \in {"none", "no_suite", "suite", "targeted"}
    BY VerdictsAre
  <1>4. [g EXCEPT !.suiteMissing = TRUE] \in Gates
    BY DEF Gates
  <1>5. [g EXCEPT !.lastSuite = entry,
                  !.lastTargeted = IF v.passed THEN entry ELSE @] \in Gates
    BY <1>1, <1>2, Zenon DEF Gates
  <1>6. [g EXCEPT !.lastTargeted = entry] \in Gates
    BY <1>1 DEF Gates
  <1> HIDE DEF entry
  <1> QED BY <1>3, <1>4, <1>5, <1>6 DEF RecordVerification, entry

LEMMA CheckedType ==
    ASSUME NEW w \in Workspaces, NEW v \in Verdicts
    PROVE  Checked(w, v) \in Workspaces
  BY DEF Checked, Workspaces, Verdicts, NoVerdict

LEMMA ToolEffectType ==
    ASSUME NEW changed \in Changes, NEW v \in Verdicts,
           gate \in Gates, workspace \in Workspaces, touched \subseteq Files,
           ToolEffect(changed, v)
    PROVE  gate' \in Gates /\ workspace' \in Workspaces /\ touched' \subseteq Files
  <1>1. CASE changed = {}
    BY <1>1, RecordVerificationType, CheckedType DEF ToolEffect
  <1>2. CASE changed # {}
    <2>1. gate' \in Gates
      BY <1>2, RecordMutationType, RecordVerificationType DEF ToolEffect
    <2>2. PICK h \in BOOLEAN : workspace' = Checked(Mutated(workspace, h), v)
      BY <1>2 DEF ToolEffect
    <2>3. Mutated(workspace, h) \in Workspaces
      BY DEF Mutated, Workspaces
    <2>4. workspace' \in Workspaces
      BY <2>2, <2>3, CheckedType
    <2> QED BY <1>2, <2>1, <2>4 DEF ToolEffect, Changes
  <1> QED BY <1>1, <1>2

LEMMA ListedType ==
    ASSUME NEW t \in Todos, NEW n \in 0..MaxTodo,
           NEW src \in {"block", "markdown", "plan"}
    PROVE  Listed(t, n, src) \in Todos
  <1>1. {} \in SUBSET (0..MaxTodo)
    OBVIOUS
  <1>2. "none" \in {"any", "block", "none"} /\ src \in {"none", "block", "markdown", "plan"}
    OBVIOUS
  <1> QED BY <1>1, <1>2, Zenon DEF Listed, Todos

LEMMA MarkedType ==
    ASSUME NEW t \in Todos, NEW i \in 0..MaxTodo
    PROVE  [t EXCEPT !.done = @ \cup {i}] \in Todos
  BY DEF Todos

LEMMA BlockSourceType == \A t : BlockSource(t) \in {"block", "plan"}
  BY DEF BlockSource

LEMMA MarkupType ==
    ASSUME NEW t \in Todos
    PROVE  MarkupUpdates(t) \subseteq Todos
  <1>1. 1..MaxTodo \subseteq 0..MaxTodo /\ 2..MaxTodo \subseteq 0..MaxTodo
    BY ConstantTypes
  <1> QED BY <1>1, ListedType, MarkedType, BlockSourceType DEF MarkupUpdates

LEMMA MarkdownType ==
    ASSUME NEW t \in Todos
    PROVE  MarkdownUpdates(t) \subseteq Todos
  <1>1. 1..MaxTodo \subseteq 0..MaxTodo
    BY ConstantTypes
  <1> QED BY <1>1, ListedType DEF MarkdownUpdates

LEMMA TodoToolType ==
    ASSUME NEW t \in Todos
    PROVE  TodoToolUpdates(t) \subseteq Todos
  <1>1. 1..MaxTodo \subseteq 0..MaxTodo
    BY ConstantTypes
  <1>2. (t.size + 1)..MaxTodo \subseteq 0..MaxTodo /\ 0..(t.size - 1) \subseteq 0..MaxTodo
    BY ConstantTypes DEF Todos
  <1>3. ASSUME NEW n \in 0..MaxTodo
        PROVE  [t EXCEPT !.size = n, !.src = BlockSource(t), !.accepts = "none"] \in Todos
    <2>1. BlockSource(t) \in {"none", "block", "markdown", "plan"}
      BY BlockSourceType
    <2>2. "none" \in {"any", "block", "none"}
      OBVIOUS
    <2> QED BY <2>1, <2>2, Zenon DEF Todos
  <1> QED BY <1>1, <1>2, <1>3, ListedType, MarkedType DEF TodoToolUpdates

LEMMA ProgressType ==
    ASSUME touched \subseteq Files, todo \in Todos, calls \in Nat
    PROVE  Progress \in Keys /\ <<Cardinality(touched), calls>> \in Keys
  <1>1. IsFiniteSet(touched) /\ Cardinality(touched) \in Nat
    BY ConstantTypes, FS_Subset, FS_CardinalityType
  <1>2. IsFiniteSet(0..MaxTodo)
    BY ConstantTypes, FS_Interval
  <1>3. todo.done \subseteq 0..MaxTodo
    BY DEF Todos
  <1>4. Cardinality(todo.done) \in Nat
    BY <1>2, <1>3, FS_Subset, FS_CardinalityType
  <1> QED BY <1>1, <1>4 DEF Progress, Keys

-------------------------------------------------------------------------------
(* TypeOK in the parts an action disturbs together, and the one fact the    *)
(* type of rec needs: a turn that hit its last malformed batch is over.     *)
ControlType ==
    /\ pc \in {"ready", "head", "model", "gate", "asking", "batch", "done"}
    /\ ts \in States /\ dropped \in BOOLEAN /\ out \in Outcomes

CounterType ==
    /\ aborted \in BOOLEAN /\ forceText \in BOOLEAN
    /\ iter \in 0..MaxIterations /\ calls \in Nat /\ readOnly \in Nat

RecoveryType == overlay \in Overlays /\ rec \in Recoveries

PlanningType ==
    /\ auto \in [count : 0..MaxAutoContinues, last : Keys, stalled : BOOLEAN]
    /\ stall \in [at : Keys, run : Nat]
    /\ todo \in Todos

BatchType == batch \in [left : Nat, seen : SUBSET {"ran", "duplicate", "invalid"},
                        changed : BOOLEAN]

EvidenceType ==
    /\ touched \subseteq Files /\ gate \in Gates
    /\ runner \in {"unset", "suite", "none"} /\ workspace \in Workspaces

StreakEnds == rec.streak = MaxInvalidStreak => pc = "done"

TypeInv == TypeOK /\ StreakEnds

LEMMA TypeParts ==
    /\ TypeOK <=> /\ ControlType /\ CounterType /\ RecoveryType
                  /\ PlanningType /\ BatchType /\ EvidenceType
    /\ TypeOK' <=> /\ ControlType' /\ CounterType' /\ RecoveryType'
                   /\ PlanningType' /\ BatchType' /\ EvidenceType'
  BY DEF TypeOK, ControlType, CounterType, RecoveryType, PlanningType, BatchType, EvidenceType

LEMMA InitType == Init => TypeOK
  <1> SUFFICES ASSUME Init PROVE TypeOK
    OBVIOUS
  <1> USE ConstantTypes
  <1>1. todo \in Todos
    BY DEF Init, EarlierTodos, NoTodo, Todos
  <1>2. gate \in Gates
    BY DEF Init, CreateGate, Gates, NoRun, Runs
  <1>3. rec \in Recoveries
    BY DEF Init, NoRecovery, Recoveries, MaxInvalidStreak
  <1>4. runner \in {"unset", "suite", "none"} /\ workspace \in Workspaces
    BY TurnAssumption DEF Init, Workspaces
  <1>5. auto \in [count : 0..MaxAutoContinues, last : Keys, stalled : BOOLEAN]
    BY DEF Init, Keys
  <1>6. stall \in [at : Keys, run : Nat]
    BY DEF Init, Keys
  <1>7. batch \in [left : Nat, seen : SUBSET {"ran", "duplicate", "invalid"},
                   changed : BOOLEAN]
    BY DEF Init, NoBatch
  <1>8. /\ pc \in {"ready", "head", "model", "gate", "asking", "batch", "done"}
        /\ ts \in States
        /\ dropped \in BOOLEAN /\ aborted \in BOOLEAN /\ forceText \in BOOLEAN
        /\ out \in Outcomes /\ overlay \in Overlays
    BY StatesAre DEF Init, Outcomes, Overlays
  <1>9. iter \in 0..MaxIterations /\ calls \in Nat /\ readOnly \in Nat
    BY DEF Init
  <1>10. touched \subseteq Files
    BY DEF Init
  <1> QED BY <1>1, <1>2, <1>3, <1>4, <1>5, <1>6, <1>7, <1>8, <1>9, <1>10 DEF TypeOK

-------------------------------------------------------------------------------
LEMMA BeginType == TypeInv /\ Begin => TypeInv'
  <1> SUFFICES ASSUME TypeInv, Begin PROVE TypeInv'
    OBVIOUS
  <1> USE TypeParts DEF TypeInv, StreakEnds
  <1>1. ControlType'
    BY EmitType, StatesAre DEF Begin, ControlType
  <1>2. CounterType' /\ RecoveryType' /\ BatchType' /\ StreakEnds'
    BY DEF Begin, CounterType, RecoveryType, BatchType
  <1>3. PlanningType'
    <2>1. NoTodo \in Todos
      BY ConstantTypes DEF NoTodo, Todos
    <2>2. [todo EXCEPT !.accepts = "block"] \in Todos
      BY DEF PlanningType, Todos
    <2> QED BY <2>1, <2>2 DEF Begin, PlanningType
  <1>4. EvidenceType'
    <2>1. NoVerdict \in Verdicts
      BY DEF Verdicts
    <2> QED BY <2>1, ToolEffectType DEF Begin, EvidenceType
  <1> QED BY <1>1, <1>2, <1>3, <1>4

LEMMA CancelType == TypeInv /\ Cancel => TypeInv'
  BY TypeParts DEF TypeInv, StreakEnds, Cancel, ControlType, CounterType, RecoveryType,
     PlanningType, BatchType, EvidenceType, control, planning, evidence

LEMMA StreamMarkupType == TypeInv /\ StreamMarkup => TypeInv'
  BY TypeParts, MarkupType DEF TypeInv, StreakEnds, StreamMarkup, ControlType, CounterType,
     RecoveryType, PlanningType, BatchType, EvidenceType, control, evidence

LEMMA NextIterationType ==
    ASSUME CounterType, NextIteration
    PROVE  iter' \in 0..MaxIterations /\ forceText' \in BOOLEAN
  BY ConstantTypes DEF CounterType, NextIteration

LEMMA OverlayAtHeadType ==
    ASSUME overlay \in Overlays
    PROVE  OverlayAtHead \in Overlays
  BY DEF OverlayAtHead, Overlays

LEMMA CallModelType == TypeInv /\ CallModel => TypeInv'
  <1> SUFFICES ASSUME TypeInv, CallModel PROVE TypeInv'
    OBVIOUS
  <1> USE TypeParts DEF TypeInv, StreakEnds
  <1>1. ControlType'
    <2>1. CASE aborted
      <3>1. ts' \in States /\ dropped' \in BOOLEAN /\ pc' = "done"
        BY <2>1, StatesAre, Zenon DEF CallModel, ControlType, Terminal
      <3>2. out' = [event |-> "cancelled", reason |-> "user_abort", warned |-> FALSE]
        BY <2>1 DEF CallModel
      <3>3. out' \in Outcomes
        BY <3>2 DEF Outcomes, Reasons
      <3> QED BY <3>1, <3>3 DEF ControlType
    <2>2. CASE ~aborted
      BY <2>2, EmitType, StatesAre DEF CallModel, ControlType
    <2> QED BY <2>1, <2>2
  <1>2. CounterType'
    BY NextIterationType DEF CallModel, CounterType
  <1>3. RecoveryType' /\ StreakEnds'
    BY OverlayAtHeadType DEF CallModel, RecoveryType, Overlays, NextIteration
  <1>4. PlanningType' /\ BatchType' /\ EvidenceType'
    BY DEF CallModel, PlanningType, BatchType, EvidenceType, planning, evidence
  <1> QED BY <1>1, <1>2, <1>3, <1>4

(* The ends of the loop: nothing but the outcome moves. *)
LEMMA HeadFailsType == TypeInv /\ HeadFails => TypeInv'
  <1> SUFFICES ASSUME TypeInv, HeadFails PROVE TypeInv'
    OBVIOUS
  <1> USE TypeParts DEF TypeInv, StreakEnds
  <1>1. ControlType'
    BY FinishType DEF HeadFails, ControlType, Reasons, Terminal
  <1>2. CounterType'
    BY NextIterationType DEF HeadFails, CounterType
  <1>3. RecoveryType' /\ StreakEnds'
    BY OverlayAtHeadType DEF HeadFails, RecoveryType, NextIteration
  <1>4. PlanningType' /\ BatchType' /\ EvidenceType'
    BY DEF HeadFails, PlanningType, BatchType, EvidenceType, planning, evidence
  <1> QED BY <1>1, <1>2, <1>3, <1>4

LEMMA EndsType == TypeInv /\ (LoopExhausted \/ CallFails \/ ForcedStop \/ BatchThrows) => TypeInv'
  <1> SUFFICES ASSUME TypeInv, LoopExhausted \/ CallFails \/ ForcedStop \/ BatchThrows
               PROVE  TypeInv'
    OBVIOUS
  <1> USE TypeParts DEF TypeInv, StreakEnds
  <1>1. ControlType'
    BY FinishType DEF LoopExhausted, CallFails, ForcedStop, BatchThrows, ControlType,
       Reasons, Terminal
  <1>2. /\ CounterType' /\ PlanningType' /\ BatchType' /\ EvidenceType'
        /\ rec' = rec /\ overlay' \in {overlay, "none"} /\ pc' = "done"
    BY DEF LoopExhausted, CallFails, ForcedStop, BatchThrows, Finish, CounterType,
       PlanningType, BatchType, EvidenceType, planning, evidence
  <1>3. RecoveryType' /\ StreakEnds'
    BY <1>2 DEF RecoveryType, Overlays
  <1> QED BY <1>1, <1>2, <1>3

(* The recoveries that ask the model again without having run anything. *)
LEMMA RetryType ==
    TypeInv /\ (NudgeTextToolCalls \/ ResumeTruncated \/ RetryDeferral \/ RetryAnnouncement)
        => TypeInv'
  <1> SUFFICES ASSUME TypeInv,
                      NudgeTextToolCalls \/ ResumeTruncated \/ RetryDeferral \/ RetryAnnouncement
               PROVE  TypeInv'
    OBVIOUS
  <1> USE TypeParts DEF TypeInv, StreakEnds
  <1>1. ControlType' /\ CounterType' /\ BatchType' /\ EvidenceType'
    BY DEF NudgeTextToolCalls, ResumeTruncated, RetryDeferral, RetryAnnouncement, AskAgain,
       Continue, ControlType, CounterType, BatchType, EvidenceType, evidence
  <1>2. overlay' \in Overlays /\ pc = "model"
    BY DEF NudgeTextToolCalls, ResumeTruncated, RetryDeferral, RetryAnnouncement, AskAgain,
       Overlays
  <1>3. rec' \in Recoveries /\ rec'.streak = rec.streak
    <2>1. CASE NudgeTextToolCalls
      BY <2>1 DEF NudgeTextToolCalls, RecoveryType, Recoveries
    <2>2. CASE ResumeTruncated
      BY <2>2, ConstantTypes DEF ResumeTruncated, RecoveryType, Recoveries
    <2>3. CASE RetryDeferral
      BY <2>3 DEF RetryDeferral, RecoveryType, Recoveries
    <2>4. CASE RetryAnnouncement
      BY <2>4, ConstantTypes DEF RetryAnnouncement, RecoveryType, Recoveries
    <2> QED BY <2>1, <2>2, <2>3, <2>4
  <1>4. PlanningType'
    BY MarkdownType DEF NudgeTextToolCalls, ResumeTruncated, RetryDeferral, RetryAnnouncement,
       PlanningType, planning
  <1> QED BY <1>1, <1>2, <1>3, <1>4 DEF RecoveryType

LEMMA TextReachesGateType == TypeInv /\ TextReachesGate => TypeInv'
  BY TypeParts, MarkdownType DEF TypeInv, StreakEnds, TextReachesGate, ControlType, CounterType,
     RecoveryType, PlanningType, BatchType, EvidenceType, evidence, Overlays

-------------------------------------------------------------------------------
LEMMA HarnessVerdictType == HarnessVerdicts \subseteq Verdicts
  BY DEF HarnessVerdicts, SuiteVerdicts, Verdicts

LEMMA AskGateType ==
    ASSUME EvidenceType, CounterType, BatchType, NEW v \in HarnessVerdicts, AskGate(v)
    PROVE  /\ runner' \in {"unset", "suite", "none"} /\ workspace' \in Workspaces
           /\ touched' \subseteq Files /\ GateRan(v) \in Gates
           /\ CounterType' /\ BatchType'
  <1>1. v \in Verdicts
    BY HarnessVerdictType
  <1>2. GateRan(v) \in Gates
    BY <1>1, RecordVerificationType DEF GateRan, GateAfterCheck, EvidenceType
  <1>3. workspace' \in Workspaces
    BY <1>1, CheckedType DEF AskGate, EvidenceType
  <1>4. runner' \in {"unset", "suite", "none"}
    BY DEF AskGate, EvidenceType, DetectedRunner
  <1> QED BY <1>2, <1>3, <1>4 DEF AskGate, EvidenceType, CounterType, BatchType

LEMMA GateBlocksType == TypeInv /\ GateBlocks => TypeInv'
  <1> SUFFICES ASSUME TypeInv, NEW v \in HarnessVerdicts,
                      AskGate(v), gate' = [GateRan(v) EXCEPT !.retries = @ + 1],
                      overlay' \in {"release_gate_failing", "verify_after_edit"},
                      Continue, UNCHANGED <<rec, planning>>
               PROVE  TypeInv'
    BY DEF GateBlocks
  <1> USE TypeParts DEF TypeInv, StreakEnds
  <1>1. EvidenceType' /\ CounterType' /\ BatchType'
    <2>1. GateRan(v) \in Gates
      BY AskGateType
    <2>2. gate' \in Gates
      BY <2>1 DEF Gates
    <2> QED BY <2>2, AskGateType DEF EvidenceType
  <1>2. ControlType' /\ PlanningType' /\ RecoveryType' /\ StreakEnds'
    BY DEF Continue, ControlType, PlanningType, planning, RecoveryType, Overlays, AskGate
  <1> QED BY <1>1, <1>2

LEMMA GatePassesType == TypeInv /\ GatePasses => TypeInv'
  <1> SUFFICES ASSUME TypeInv, GatePasses PROVE TypeInv'
    OBVIOUS
  <1> USE TypeParts DEF TypeInv, StreakEnds
  <1>1. PICK v \in HarnessVerdicts, declared \in BOOLEAN, unfinished \in BOOLEAN,
             missed \in BOOLEAN :
          /\ AskGate(v) /\ gate' = GateRan(v)
          /\ \/ /\ PlanContinues(declared)
                /\ auto' = [count |-> auto.count + 1, last |-> Progress,
                            stalled |-> auto.stalled \/ Stalled]
                /\ stall' = Stall
                /\ overlay' = IF Stalled THEN "auto_continue_stalled" ELSE "auto_continue"
                /\ Continue /\ UNCHANGED <<rec, todo>>
             \/ /\ JevContinues(declared, unfinished)
                /\ auto' = [auto EXCEPT !.count = @ + 1,
                                        !.last = <<Cardinality(touched), calls>>]
                /\ stall' = Stall
                /\ overlay' = "jev_unfinished"
                /\ Continue /\ UNCHANGED <<rec, todo>>
             \/ /\ rec' = [rec EXCEPT !.targets = TRUE]
                /\ overlay' = "unaddressed_targets"
                /\ Continue /\ UNCHANGED planning
             \/ /\ Finish("complete", "completed", "answered", GateStatus(v) # "open")
                /\ UNCHANGED <<overlay, rec, planning>>
    BY DEF GatePasses
  <1>2. EvidenceType' /\ CounterType' /\ BatchType' /\ pc = "gate"
    BY <1>1, AskGateType DEF EvidenceType, AskGate
  <1>3. ControlType'
    BY <1>1, FinishType DEF Continue, ControlType, Reasons, Terminal
  <1>4. RecoveryType' /\ rec'.streak = rec.streak
    <2>1. [rec EXCEPT !.targets = TRUE] \in Recoveries
      BY DEF RecoveryType, Recoveries
    <2>2. [rec EXCEPT !.targets = TRUE].streak = rec.streak
      BY DEF RecoveryType, Recoveries
    <2> QED BY <1>1, <2>1, <2>2 DEF RecoveryType, Overlays
  <1>5. PlanningType'
    <2>1. Progress \in Keys /\ <<Cardinality(touched), calls>> \in Keys
      BY ProgressType DEF PlanningType, EvidenceType, CounterType
    <2>2. Stall \in [at : Keys, run : Nat]
      BY <2>1 DEF Stall, PlanningType
    <2>3. auto.count \in Nat /\ auto.count <= MaxAutoContinues
      BY ConstantTypes DEF PlanningType
    <2>4. CASE /\ PlanContinues(declared) /\ stall' = Stall /\ UNCHANGED todo
               /\ auto' = [count |-> auto.count + 1, last |-> Progress,
                           stalled |-> auto.stalled \/ Stalled]
      <3>1. auto.count + 1 \in 0..MaxAutoContinues
        BY <2>3, <2>4, ConstantTypes DEF PlanContinues, ContinueCap
      <3>2. (auto.stalled \/ Stalled) \in BOOLEAN
        OBVIOUS
      <3>3. auto' \in [count : 0..MaxAutoContinues, last : Keys, stalled : BOOLEAN]
        BY <2>1, <2>4, <3>1, <3>2, Zenon
      <3> QED BY <2>2, <2>4, <3>3 DEF PlanningType
    <2>5. CASE /\ JevContinues(declared, unfinished) /\ stall' = Stall /\ UNCHANGED todo
               /\ auto' = [auto EXCEPT !.count = @ + 1,
                                       !.last = <<Cardinality(touched), calls>>]
      <3>1. auto.count + 1 \in 0..MaxAutoContinues
        BY <2>3, <2>5, ConstantTypes DEF JevContinues, JevCap
      <3>2. auto' \in [count : 0..MaxAutoContinues, last : Keys, stalled : BOOLEAN]
        BY <2>1, <2>5, <3>1, Zenon DEF PlanningType
      <3> QED BY <2>2, <2>5, <3>2 DEF PlanningType
    <2>6. CASE UNCHANGED planning
      BY <2>6 DEF PlanningType, planning
    <2> QED BY <1>1, <2>4, <2>5, <2>6
  <1> QED BY <1>2, <1>3, <1>4, <1>5

-------------------------------------------------------------------------------
(* A reply with tool calls leaves the streak alone, and is no reply at all  *)
(* to a turn that is over.                                                  *)
LEMMA ToolReplyType ==
    ASSUME TypeInv, NEW r \in ToolReplies, ToolReply(r)
    PROVE  /\ r \in Recoveries /\ r.streak = rec.streak /\ r.streak # MaxInvalidStreak
           /\ pc = "model"
  <1> USE TypeParts DEF TypeInv, StreakEnds
  <1>1. rec \in Recoveries /\ pc = "model" /\ rec.streak # MaxInvalidStreak
    BY DEF ToolReply, RecoveryType
  <1>2. CASE r = rec
    BY <1>1, <1>2
  <1>3. CASE r = [rec EXCEPT !.textRec = @ + 1] /\ rec.textRec < MaxTextRecoveries
    BY <1>1, <1>3, ConstantTypes DEF Recoveries
  <1> QED BY <1>1, <1>2, <1>3 DEF ToolReply

LEMMA ToolReplyStepType ==
    TypeInv /\ (EmptyToolTurn \/ NudgeRepoMap \/ ToolBudgetSpent \/ StartBatch \/ AskUser)
        => TypeInv'
  <1> SUFFICES ASSUME TypeInv,
                      EmptyToolTurn \/ NudgeRepoMap \/ ToolBudgetSpent \/ StartBatch \/ AskUser
               PROVE  TypeInv'
    OBVIOUS
  <1> USE TypeParts DEF TypeInv, StreakEnds
  <1>1. PlanningType' /\ EvidenceType'
    BY DEF EmptyToolTurn, NudgeRepoMap, ToolBudgetSpent, StartBatch, AskUser,
       PlanningType, EvidenceType, planning, evidence
  <1>2. overlay' \in Overlays
    BY DEF EmptyToolTurn, NudgeRepoMap, ToolBudgetSpent, StartBatch, AskUser, AskAgain, Overlays
  <1>3. rec' \in Recoveries /\ rec'.streak # MaxInvalidStreak
    <2>1. CASE NudgeRepoMap
      <3>1. PICK r \in ToolReplies : ToolReply(r) /\ rec' = [r EXCEPT !.repoMap = TRUE]
        BY <2>1 DEF NudgeRepoMap
      <3>2. r \in Recoveries /\ r.streak # MaxInvalidStreak
        BY <3>1, ToolReplyType
      <3> QED BY <3>1, <3>2 DEF Recoveries
    <2>2. CASE EmptyToolTurn \/ ToolBudgetSpent \/ StartBatch \/ AskUser
      <3>1. PICK r \in ToolReplies : ToolReply(r) /\ rec' = r
        BY <2>2 DEF EmptyToolTurn, ToolBudgetSpent, StartBatch, AskUser
      <3> QED BY <3>1, ToolReplyType
    <2> QED BY <2>1, <2>2
  <1>4. ControlType'
    <2>1. CASE EmptyToolTurn
      BY <2>1, FinishType DEF EmptyToolTurn, ControlType, Reasons, Terminal
    <2>2. CASE NudgeRepoMap \/ ToolBudgetSpent
      BY <2>2 DEF NudgeRepoMap, ToolBudgetSpent, AskAgain, Continue, ControlType
    <2>3. CASE StartBatch \/ AskUser
      <3>1. Emit("tool_call") /\ pc' \in {"batch", "asking"} /\ UNCHANGED out
        BY <2>3 DEF StartBatch, AskUser
      <3> QED BY <3>1, EmitType, StatesAre DEF ControlType
    <2> QED BY <2>1, <2>2, <2>3
  <1>5. CounterType'
    <2>1. UNCHANGED <<aborted, iter, readOnly>> /\ forceText' \in {forceText, TRUE}
      BY DEF EmptyToolTurn, NudgeRepoMap, ToolBudgetSpent, StartBatch, AskUser
    <2>2. UNCHANGED calls \/ \E n \in 1..MaxBatch : calls' = calls + n
      BY DEF EmptyToolTurn, NudgeRepoMap, ToolBudgetSpent, StartBatch, AskUser
    <2>3. CounterType
      OBVIOUS
    <2>4. calls' \in Nat
      BY <2>2, <2>3, ConstantTypes DEF CounterType
    <2> QED BY <2>1, <2>3, <2>4 DEF CounterType
  <1>6. BatchType'
    <2>1. CASE StartBatch
      BY <2>1, ConstantTypes DEF StartBatch, BatchType
    <2>2. CASE EmptyToolTurn \/ NudgeRepoMap \/ ToolBudgetSpent \/ AskUser
      BY <2>2 DEF EmptyToolTurn, NudgeRepoMap, ToolBudgetSpent, AskUser, BatchType
    <2> QED BY <2>1, <2>2
  <1> QED BY <1>1, <1>2, <1>3, <1>4, <1>5, <1>6 DEF RecoveryType

LEMMA UserAnswersType == TypeInv /\ UserAnswers => TypeInv'
  <1> SUFFICES ASSUME TypeInv, UserAnswers PROVE TypeInv'
    OBVIOUS
  <1> USE TypeParts DEF TypeInv, StreakEnds
  <1>1. ControlType'
    BY EmitType, StatesAre DEF UserAnswers, ControlType
  <1> QED BY <1>1 DEF UserAnswers, CounterType, RecoveryType, PlanningType, BatchType,
             EvidenceType, planning, evidence

LEMMA ToolReturnsType == TypeInv /\ ToolReturns => TypeInv'
  <1> SUFFICES ASSUME TypeInv, ToolReturns PROVE TypeInv'
    OBVIOUS
  <1> USE TypeParts DEF TypeInv, StreakEnds
  <1>1. ControlType' /\ CounterType'
    BY DEF ToolReturns, ControlType, CounterType, control
  <1>2. ASSUME NEW kind \in {"ran", "duplicate", "invalid", "parse_error"},
               NEW moved \in BOOLEAN, Result(kind, moved), batch.left > 0
        PROVE  BatchType'
    <2>1. batch.left - 1 \in Nat /\ (batch.changed \/ moved) \in BOOLEAN
      BY <1>2 DEF BatchType
    <2>2. (IF kind = "parse_error" THEN batch.seen ELSE batch.seen \cup {kind})
             \in SUBSET {"ran", "duplicate", "invalid"}
      BY DEF BatchType
    <2> QED BY <1>2, <2>1, <2>2, Zenon DEF Result, BatchType
  <1>3. BatchType'
    BY <1>2 DEF ToolReturns
  <1>4. RecoveryType' /\ rec'.streak = rec.streak
    BY DEF ToolReturns, RecoveryType, Recoveries
  <1>5. PlanningType'
    BY TodoToolType DEF ToolReturns, PlanningType
  <1>6. EvidenceType'
    <2>1. CASE UNCHANGED <<touched, gate, workspace>>
      BY <2>1 DEF ToolReturns, EvidenceType
    <2>2. CASE \E changed \in Changes, v \in ToolVerdicts : ToolEffect(changed, v)
      BY <2>2, ConstantTypes, ToolEffectType DEF ToolReturns, EvidenceType
    <2> QED BY <2>1, <2>2 DEF ToolReturns
  <1> QED BY <1>1, <1>3, <1>4, <1>5, <1>6 DEF ToolReturns

LEMMA BatchEndsType == TypeInv /\ BatchEnds => TypeInv'
  <1> SUFFICES ASSUME TypeInv, BatchEnds PROVE TypeInv'
    OBVIOUS
  <1> USE TypeParts DEF TypeInv, StreakEnds
  <1> DEFINE streak == IF InvalidBatch THEN rec.streak + 1 ELSE 0
  <1>1. PlanningType' /\ EvidenceType'
    BY DEF BatchEnds, PlanningType, EvidenceType, planning, evidence
  <1>2. BatchType'
    BY DEF BatchEnds, BatchType, NoBatch
  <1>3. streak \in 0..MaxInvalidStreak /\ rec' = [rec EXCEPT !.streak = streak]
    BY DEF BatchEnds, RecoveryType, Recoveries, MaxInvalidStreak
  <1>4. rec' \in Recoveries /\ rec'.streak = streak
    BY <1>3 DEF RecoveryType, Recoveries
  <1>5. overlay' \in Overlays
    BY DEF BatchEnds, RecoveryType, Overlays
  <1>6. CounterType'
    <2>1. UNCHANGED <<aborted, iter, calls>> /\ readOnly' = ReadOnlyAfter
      BY DEF BatchEnds
    <2>2. forceText' \in BOOLEAN
      BY Zenon DEF BatchEnds
    <2>3. CounterType
      OBVIOUS
    <2> QED BY <2>1, <2>2, <2>3 DEF CounterType, ReadOnlyAfter
  <1>7. ControlType' /\ (streak = MaxInvalidStreak => pc' = "done")
    <2>1. CASE Emit("tool_result") /\ pc' = "head" /\ UNCHANGED out /\ streak # MaxInvalidStreak
      BY <2>1, EmitType, StatesAre DEF ControlType
    <2>2. CASE /\ ts' = "failed" /\ dropped' = (dropped \/ ~Legal(ts, "tool_result"))
               /\ pc' = "done"
               /\ out' = [event |-> "error", reason |-> "invalid_loop", warned |-> FALSE]
      <3>1. dropped' \in BOOLEAN
        BY <2>2, Zenon
      <3>2. out' \in Outcomes
        BY <2>2 DEF Outcomes, Reasons
      <3> QED BY <2>2, <3>1, <3>2, StatesAre DEF ControlType, Terminal
    <2> QED BY <2>1, <2>2, <1>3 DEF BatchEnds, ForceTextStreak, MaxInvalidStreak
  <1> QED BY <1>1, <1>2, <1>4, <1>5, <1>6, <1>7 DEF RecoveryType

(* The types of the state, and that a turn that ran out of malformed        *)
(* batches is over, are preserved by every step.                            *)
LEMMA NextType == TypeInv /\ [Next]_vars => TypeInv'
  <1>1. TypeInv /\ UNCHANGED vars => TypeInv'
    BY DEF TypeInv, TypeOK, StreakEnds, vars, control, planning, evidence
  <1> QED BY <1>1, BeginType, CancelType, StreamMarkupType, CallModelType, HeadFailsType,
             EndsType, RetryType, TextReachesGateType, GateBlocksType, GatePassesType,
             ToolReplyStepType, UserAnswersType, ToolReturnsType, BatchEndsType
          DEF Next, AgentStep, TextReply, ToolCallReply

(* Every state of a turn has the types the code relies on, whatever the     *)
(* limits in the configuration are. (Agent.run, index.js:1947-3648)         *)
THEOREM TypeCorrect == Spec => []TypeOK
  <1>1. Init => TypeInv
    BY InitType DEF TypeInv, StreakEnds, Init, NoRecovery, MaxInvalidStreak
  <1> QED BY <1>1, NextType, PTL DEF Spec, TypeInv

-------------------------------------------------------------------------------
(* Where run() is parked decides what the state machine was last told.  A   *)
(* turn that has not called the model yet cannot be "completed": that the   *)
(* loop is never exhausted before its first call is what saves it.          *)
Phases ==
    /\ ~dropped
    /\ pc = "ready" => ts = "idle" /\ iter = 0
    /\ pc = "head" => ts \in {"started", "model", "tool_result"}
    /\ pc = "head" /\ ts = "started" => iter = 0
    /\ pc \in {"model", "gate"} => ts = "model"
    /\ pc \in {"asking", "batch"} => ts = "tool_call"
    /\ pc = "done" => <<ts, out.event>> \in {<<"completed", "complete">>,
                          <<"failed", "error">>, <<"cancelled", "cancelled">>}
    /\ pc # "done" => out.event = "none"

LEMMA PhasesImply == TypeOK /\ Phases => EmissionsLegal
  <1> SUFFICES ASSUME TypeOK, Phases PROVE EmissionsLegal
    OBVIOUS
  <1>1. CASE pc = "done"
    BY <1>1 DEF Phases, EmissionsLegal, Terminal
  <1>2. CASE pc # "done"
    BY <1>2 DEF Phases, EmissionsLegal, Terminal, TypeOK
  <1> QED BY <1>1, <1>2

LEMMA LegalMoves ==
    /\ Legal("idle", "started")
    /\ \A s \in {"started", "model", "tool_result"} :
          Legal(s, "model") /\ Legal(s, "failed") /\ Legal(s, "cancelled")
    /\ \A s \in {"model", "tool_result"} : Legal(s, "completed")
    /\ Legal("model", "tool_call")
    /\ Legal("tool_call", "tool_result") /\ Legal("tool_call", "failed")
    /\ Legal("tool_call", "cancelled")
  BY DEF Legal, Allowed, Terminal

(* A legal emission lands where it should and leaves no trace. *)
LEMMA EmitLegal ==
    ASSUME NEW to, Legal(ts, to), ~dropped, Emit(to)
    PROVE  ts' = to /\ ~dropped'
  BY DEF Emit

LEMMA FinishLegal ==
    ASSUME NEW event, NEW state, NEW reason, NEW warned, Legal(ts, state), ~dropped,
           <<state, event>> \in {<<"completed", "complete">>,
               <<"failed", "error">>, <<"cancelled", "cancelled">>},
           Finish(event, state, reason, warned)
    PROVE  Phases'
  BY EmitLegal DEF Finish, Phases

LEMMA PhasesFromModel ==
    ASSUME Phases, ts = "model", pc # "done",
           \/ Continue
           \/ Emit("tool_call") /\ pc' \in {"batch", "asking"} /\ UNCHANGED out
    PROVE  Phases'
  <1>1. CASE Continue
    BY <1>1 DEF Continue, Phases
  <1>2. CASE Emit("tool_call") /\ pc' \in {"batch", "asking"} /\ UNCHANGED out
    BY <1>2, LegalMoves, EmitLegal DEF Phases
  <1> QED BY <1>1, <1>2

LEMMA PhasesStep == TypeInv /\ Phases /\ Next => Phases'
  <1> SUFFICES ASSUME TypeInv, Phases, Next PROVE Phases'
    OBVIOUS
  <1> USE LegalMoves
  <1>1. CASE Begin
    <2>1. ts = "idle" /\ Emit("started") /\ pc' = "head" /\ UNCHANGED <<out, iter>>
      BY <1>1 DEF Begin, Phases
    <2>2. ts' = "started" /\ ~dropped'
      BY <2>1, EmitLegal DEF Phases
    <2> QED BY <1>1, <2>1, <2>2 DEF Begin, Phases
  <1>2. CASE Cancel \/ StreamMarkup \/ ToolReturns \/ TextReachesGate
    <2>1. UNCHANGED <<ts, dropped, out, iter>> /\ (pc' = pc \/ (pc = "model" /\ pc' = "gate"))
      BY <1>2 DEF Cancel, StreamMarkup, ToolReturns, TextReachesGate, control
    <2> QED BY <2>1 DEF Phases
  <1>3. CASE CallModel
    <2>1. Legal(ts, "model")
      BY <1>3 DEF CallModel, NextIteration, Phases
    <2>2. CASE aborted
      <3>1. /\ pc' = "done" /\ ts' = "cancelled" /\ out'.event = "cancelled"
            /\ dropped' = (dropped \/ ~Legal(ts, "model"))
        BY <1>3, <2>2 DEF CallModel
      <3>2. ~dropped'
        BY <2>1, <3>1, Zenon DEF Phases
      <3> QED BY <3>1, <3>2 DEF Phases
    <2>3. CASE ~aborted
      BY <1>3, <2>1, <2>3, EmitLegal DEF CallModel, NextIteration, Phases
    <2> QED BY <2>2, <2>3
  <1>4. CASE HeadFails
    BY <1>4, FinishLegal DEF HeadFails, NextIteration, Phases
  <1>5. CASE LoopExhausted
    <2>1. ts \in {"model", "tool_result"}
      BY <1>5, ConstantTypes DEF LoopExhausted, Phases
    <2> QED BY <1>5, <2>1, FinishLegal DEF LoopExhausted, Phases
  <1>6. CASE CallFails \/ ForcedStop \/ EmptyToolTurn \/ GatePasses
    <2>1. ts = "model" /\ pc # "done"
      BY <1>6 DEF CallFails, ForcedStop, EmptyToolTurn, ToolReply, GatePasses, AskGate, Phases
    <2>2. Legal(ts, "completed") /\ Legal(ts, "failed") /\ Legal(ts, "cancelled") /\ ~dropped
      BY <2>1 DEF Phases
    <2>3. CASE CallFails
      BY <2>2, <2>3, FinishLegal DEF CallFails
    <2>4. CASE ForcedStop
      BY <2>2, <2>4, FinishLegal DEF ForcedStop
    <2>5. CASE EmptyToolTurn
      BY <2>2, <2>5, FinishLegal DEF EmptyToolTurn
    <2>6. CASE GatePasses
      <3>1. PICK v \in HarnessVerdicts :
              Continue \/ Finish("complete", "completed", "answered", GateStatus(v) # "open")
        BY <2>6 DEF GatePasses
      <3>2. CASE Continue
        BY <2>1, <3>2, PhasesFromModel
      <3>3. CASE Finish("complete", "completed", "answered", GateStatus(v) # "open")
        BY <2>2, <3>3, FinishLegal
      <3> QED BY <3>1, <3>2, <3>3
    <2> QED BY <1>6, <2>3, <2>4, <2>5, <2>6
  <1>7. CASE \/ NudgeTextToolCalls \/ ResumeTruncated \/ RetryDeferral \/ RetryAnnouncement
             \/ GateBlocks \/ NudgeRepoMap \/ ToolBudgetSpent \/ StartBatch \/ AskUser
    <2>1. ts = "model" /\ pc # "done"
      BY <1>7 DEF NudgeTextToolCalls, ResumeTruncated, RetryDeferral, RetryAnnouncement,
         GateBlocks, NudgeRepoMap, ToolBudgetSpent, StartBatch, AskUser, AskAgain, AskGate,
         ToolReply, Phases
    <2>2. \/ Continue
          \/ Emit("tool_call") /\ pc' \in {"batch", "asking"} /\ UNCHANGED out
      BY <1>7 DEF NudgeTextToolCalls, ResumeTruncated, RetryDeferral, RetryAnnouncement,
         GateBlocks, NudgeRepoMap, ToolBudgetSpent, StartBatch, AskUser, AskAgain
    <2> QED BY <2>1, <2>2, PhasesFromModel
  <1>8. CASE UserAnswers
    BY <1>8, EmitLegal DEF UserAnswers, Phases
  <1>9. CASE BatchThrows
    BY <1>9, FinishLegal DEF BatchThrows, Phases
  <1>10. CASE BatchEnds
    <2>1. ts = "tool_call" /\ ~dropped /\ out.event = "none"
      BY <1>10 DEF BatchEnds, Phases
    <2>2. CASE Emit("tool_result") /\ pc' = "head" /\ UNCHANGED out
      <3>1. ts' = "tool_result" /\ ~dropped'
        BY <2>1, <2>2, EmitLegal
      <3> QED BY <2>1, <2>2, <3>1 DEF Phases
    <2>3. CASE /\ ts' = "failed" /\ dropped' = (dropped \/ ~Legal(ts, "tool_result"))
               /\ pc' = "done" /\ out'.event = "error"
      <3>1. ~dropped'
        BY <2>1, <2>3, Zenon
      <3> QED BY <2>3, <3>1 DEF Phases
    <2> QED BY <1>10, <2>2, <2>3 DEF BatchEnds
  <1> QED BY <1>1, <1>2, <1>3, <1>4, <1>5, <1>6, <1>7, <1>8, <1>9, <1>10
          DEF Next, AgentStep, TextReply, ToolCallReply

(* No state a turn announces is ever refused, and the outcome the caller is *)
(* told is the state the machine ended in.  (emitTurnState, index.js:1988)  *)
THEOREM EmissionsAlwaysLegal == Spec => []EmissionsLegal
  <1>1. Init => TypeInv /\ Phases
    BY InitType DEF TypeInv, StreakEnds, Init, NoRecovery, MaxInvalidStreak, Phases, NotOver
  <1>2. TypeInv /\ Phases /\ [Next]_vars => Phases'
    BY PhasesStep DEF Phases, vars, control
  <1>3. TypeInv /\ Phases => EmissionsLegal
    BY PhasesImply DEF TypeInv
  <1> QED BY <1>1, <1>2, <1>3, NextType, PTL DEF Spec

-------------------------------------------------------------------------------
(* Once the limit of read-only batches is reached the tools are withheld,   *)
(* and only a model stuck on malformed calls gets one more batch: it ends   *)
(* the turn or clears the streak, and no batch can follow.                  *)
BudgetInv ==
    /\ calls <= MaxToolCalls
    /\ readOnly <= MaxReadOnlyBatches + 1
    /\ readOnly >= MaxReadOnlyBatches => forceText
    /\ pc = "batch" /\ forceText => rec.streak >= ForceTextStreak
    /\ readOnly > MaxReadOnlyBatches => pc = "done" \/ rec.streak = 0

LEMMA BatchEndsBudget == TypeInv /\ BudgetInv /\ BatchEnds => BudgetInv'
  <1> SUFFICES ASSUME TypeInv, BudgetInv, BatchEnds PROVE BudgetInv'
    OBVIOUS
  <1> DEFINE streak == IF InvalidBatch THEN rec.streak + 1 ELSE 0
  <1>1. /\ rec.streak \in 0..MaxInvalidStreak /\ readOnly \in Nat /\ pc = "batch"
        /\ rec.streak # MaxInvalidStreak
    BY DEF TypeInv, TypeOK, Recoveries, StreakEnds, BatchEnds
  <1>2. rec'.streak = streak
    BY DEF BatchEnds, TypeInv, TypeOK, Recoveries
  <1>3. /\ calls' = calls /\ readOnly' = ReadOnlyAfter
        /\ forceText \/ ProseForced => forceText'
        /\ pc' = "head" \/ pc' = "done"
        /\ streak >= MaxInvalidStreak => pc' = "done"
    <2>1. calls' = calls /\ readOnly' = ReadOnlyAfter /\ (pc' = "head" \/ pc' = "done")
      BY DEF BatchEnds
    <2>2. forceText \/ ProseForced => forceText'
      BY Zenon DEF BatchEnds
    <2>3. streak >= MaxInvalidStreak => pc' = "done"
      BY <1>1 DEF BatchEnds, ForceTextStreak, MaxInvalidStreak
    <2> QED BY <2>1, <2>2, <2>3
  <1>4. readOnly <= MaxReadOnlyBatches
    BY <1>1, ConstantTypes DEF BudgetInv, ForceTextStreak
  <1>5. readOnly' <= MaxReadOnlyBatches + 1
    BY <1>1, <1>3, <1>4, ConstantTypes DEF ReadOnlyAfter
  <1>6. readOnly' >= MaxReadOnlyBatches => forceText'
    BY <1>1, <1>3, ConstantTypes DEF ReadOnlyAfter, ProseForced, ReadOnlyLimit
  <1>7. readOnly' > MaxReadOnlyBatches => pc' = "done" \/ rec'.streak = 0
    <2>1. SUFFICES ASSUME readOnly' > MaxReadOnlyBatches, InvalidBatch PROVE pc' = "done"
      BY <1>2
    <2>2. readOnly = MaxReadOnlyBatches
      BY <1>1, <1>3, <1>4, <2>1, ConstantTypes DEF ReadOnlyAfter
    <2>3. forceText /\ rec.streak >= ForceTextStreak
      BY <1>1, <2>2, ConstantTypes DEF BudgetInv
    <2> QED BY <1>1, <1>3, <2>1, <2>3 DEF ForceTextStreak, MaxInvalidStreak
  <1> QED BY <1>3, <1>5, <1>6, <1>7 DEF BudgetInv

LEMMA BudgetStep == TypeInv /\ BudgetInv /\ [Next]_vars => BudgetInv'
  <1> SUFFICES ASSUME TypeInv, BudgetInv, [Next]_vars PROVE BudgetInv'
    OBVIOUS
  <1> USE DEF BudgetInv
  <1>0. forceText \in BOOLEAN /\ calls \in Nat
    BY DEF TypeInv, TypeOK
  <1>1. CASE UNCHANGED vars
    BY <1>1 DEF vars, control
  <1>2. CASE \/ Begin \/ Cancel \/ StreamMarkup \/ UserAnswers \/ LoopExhausted \/ CallFails
             \/ ForcedStop \/ TextReachesGate \/ GateBlocks \/ BatchThrows
    <2>1. /\ UNCHANGED <<calls, readOnly, forceText, rec>>
          /\ pc' = "batch" => pc = "batch"
          /\ pc = "done" => pc' = "done"
      BY <1>2 DEF Begin, Cancel, StreamMarkup, UserAnswers, LoopExhausted, CallFails,
         ForcedStop, TextReachesGate, GateBlocks, BatchThrows, AskGate, Continue, Finish, control
    <2> QED BY <2>1
  <1>3. CASE CallModel \/ HeadFails
    <2>1. /\ UNCHANGED <<calls, readOnly, rec>> /\ pc = "head" /\ pc' # "batch"
          /\ forceText => forceText'
      BY <1>3 DEF CallModel, HeadFails, NextIteration, Finish
    <2> QED BY <2>1
  <1>4. CASE \/ NudgeTextToolCalls \/ ResumeTruncated \/ RetryDeferral \/ RetryAnnouncement
             \/ GatePasses \/ ToolReturns
    <2>1. /\ UNCHANGED <<calls, readOnly, forceText>> /\ rec'.streak = rec.streak
      BY <1>4 DEF NudgeTextToolCalls, ResumeTruncated, RetryDeferral, RetryAnnouncement,
         GatePasses, AskGate, ToolReturns, TypeInv, TypeOK, Recoveries
    <2>2. (pc' = "batch" => pc = "batch") /\ pc # "done"
      BY <1>4 DEF NudgeTextToolCalls, ResumeTruncated, RetryDeferral, RetryAnnouncement,
         AskAgain, GatePasses, AskGate, ToolReturns, Continue, Finish, control
    <2> QED BY <2>1, <2>2
  <1>5. CASE EmptyToolTurn \/ NudgeRepoMap \/ ToolBudgetSpent
    <2>1. UNCHANGED <<calls, readOnly>> /\ pc' # "batch" /\ (forceText => forceText')
      BY <1>5 DEF EmptyToolTurn, NudgeRepoMap, ToolBudgetSpent, AskAgain, Continue, Finish
    <2>2. rec'.streak = rec.streak /\ pc # "done"
      <3>1. PICK r \in ToolReplies : ToolReply(r) /\ rec' \in {r, [r EXCEPT !.repoMap = TRUE]}
        BY <1>5 DEF EmptyToolTurn, NudgeRepoMap, ToolBudgetSpent
      <3> QED BY <3>1, ToolReplyType DEF Recoveries
    <2> QED BY <2>1, <2>2
  <1>6. CASE StartBatch \/ AskUser
    <2>1. PICK r \in ToolReplies, n \in 1..MaxBatch :
            /\ ToolReply(r) /\ ~OverBudget(n) /\ calls' = calls + n /\ rec' = r
            /\ UNCHANGED <<readOnly, forceText>>
      BY <1>6 DEF StartBatch, AskUser
    <2>2. r.streak = rec.streak /\ pc = "model" /\ r \in Recoveries
      BY <2>1, ToolReplyType
    <2>3. calls' <= MaxToolCalls
      BY <2>1, <1>0, ConstantTypes DEF OverBudget
    <2>4. forceText => rec.streak >= ForceTextStreak
      BY <2>1 DEF ToolReply
    <2> QED BY <2>1, <2>2, <2>3, <2>4
  <1>7. CASE BatchEnds
    BY <1>7, BatchEndsBudget
  <1> QED BY <1>1, <1>2, <1>3, <1>4, <1>5, <1>6, <1>7
          DEF Next, AgentStep, TextReply, ToolCallReply

(* Neither budget of a turn is overrun, for every configuration of them.    *)
(* (the tool budget 3057-3082, the loop guards 3450-3522)                   *)
THEOREM BudgetsNeverOverrun == Spec => []BudgetsHold
  <1>1. Init => TypeInv /\ BudgetInv
    BY InitType, ConstantTypes DEF TypeInv, StreakEnds, Init, NoRecovery, MaxInvalidStreak, BudgetInv
  <1>2. BudgetInv => BudgetsHold
    BY DEF BudgetInv, BudgetsHold
  <1> QED BY <1>1, <1>2, NextType, BudgetStep, PTL DEF Spec

-------------------------------------------------------------------------------
(* What the gate's record says of the files as they are is true of them.    *)
Faithful(g, w) ==
    /\ g.lastSuite.seq <= g.mutationSeq /\ g.lastTargeted.seq <= g.mutationSeq
    /\ g.lastSuite.seq = g.mutationSeq /\ g.lastSuite.passed => w.suite = "green"
    /\ g.lastTargeted.seq = g.mutationSeq /\ g.lastTargeted.passed => w.check = "green"

LEMMA GateFields ==
    ASSUME NEW g \in Gates
    PROVE  /\ g.mutationSeq \in Nat /\ g.codeTouched \in BOOLEAN /\ g.suiteMissing \in BOOLEAN
           /\ g.lastSuite.seq \in Nat \cup {-1} /\ g.lastSuite.passed \in BOOLEAN
           /\ g.lastTargeted.seq \in Nat \cup {-1} /\ g.lastTargeted.passed \in BOOLEAN
  BY DEF Gates, Runs

(* A verdict is recorded against the files it was gathered on. *)
LEMMA RecordingIsFaithful ==
    ASSUME NEW g \in Gates, NEW w \in Workspaces, NEW v \in Verdicts, Faithful(g, w)
    PROVE  Faithful(RecordVerification(g, v), Checked(w, v))
  <1> DEFINE entry == [seq |-> g.mutationSeq, passed |-> v.passed]
  <1> USE VerdictsAre, GateFields
  <1>1. CASE v.kind \in {"none", "no_suite"}
    <2>1. Checked(w, v) = w
      BY <1>1 DEF Checked
    <2>2. RecordVerification(g, v) = g \/ RecordVerification(g, v) = [g EXCEPT !.suiteMissing = TRUE]
      BY <1>1 DEF RecordVerification
    <2>3. Faithful([g EXCEPT !.suiteMissing = TRUE], w)
      BY DEF Faithful, Gates
    <2> QED BY <2>1, <2>2, <2>3
  <1>2. CASE v.kind = "suite" /\ v.passed
    <2>1. Checked(w, v).suite = "green" /\ Checked(w, v).check = "green"
      BY <1>2 DEF Checked, Workspaces
    <2>2. /\ RecordVerification(g, v).mutationSeq = g.mutationSeq
          /\ RecordVerification(g, v).lastSuite = entry
          /\ RecordVerification(g, v).lastTargeted = entry
      BY <1>2 DEF RecordVerification, Gates
    <2> QED BY <2>1, <2>2 DEF Faithful
  <1>3. CASE v.kind = "suite" /\ ~v.passed
    <2>1. Checked(w, v).check = w.check
      BY <1>3 DEF Checked, Workspaces
    <2>2. /\ RecordVerification(g, v).mutationSeq = g.mutationSeq
          /\ RecordVerification(g, v).lastSuite = entry
          /\ RecordVerification(g, v).lastTargeted = g.lastTargeted
      BY <1>3 DEF RecordVerification, Gates
    <2> QED BY <1>3, <2>1, <2>2 DEF Faithful
  <1>4. CASE v.kind = "targeted"
    <2>1. Checked(w, v).suite = w.suite /\ (v.passed => Checked(w, v).check = "green")
      BY <1>4 DEF Checked, Workspaces
    <2>2. /\ RecordVerification(g, v).mutationSeq = g.mutationSeq
          /\ RecordVerification(g, v).lastSuite = g.lastSuite
          /\ RecordVerification(g, v).lastTargeted = entry
      BY <1>4 DEF RecordVerification, Gates
    <2> QED BY <2>1, <2>2 DEF Faithful
  <1> QED BY <1>1, <1>2, <1>3, <1>4

(* An edit ages every verdict at once. *)
LEMMA MutationIsFaithful ==
    ASSUME NEW g \in Gates, NEW w \in Workspaces, NEW isCode \in BOOLEAN, NEW h \in BOOLEAN,
           Faithful(g, w)
    PROVE  Faithful(RecordMutation(g, isCode), Mutated(w, h))
  <1>1. /\ RecordMutation(g, isCode).mutationSeq = g.mutationSeq + 1
        /\ RecordMutation(g, isCode).lastSuite = g.lastSuite
        /\ RecordMutation(g, isCode).lastTargeted = g.lastTargeted
    BY DEF RecordMutation, Gates
  <1> QED BY <1>1, GateFields DEF Faithful

(* Recording a verdict forgets no edit. *)
LEMMA RecordingKeepsEdits ==
    ASSUME NEW g \in Gates, NEW v \in Verdicts
    PROVE  /\ RecordVerification(g, v).codeTouched = g.codeTouched
           /\ RecordVerification(g, v).mutationSeq = g.mutationSeq
  BY VerdictsAre DEF RecordVerification, Gates

EditsCounted == CodeChanged => gate.codeTouched /\ gate.mutationSeq # 0

LEMMA ToolEffectFaithful ==
    ASSUME NEW changed \in Changes, NEW v \in Verdicts,
           gate \in Gates, workspace \in Workspaces, touched \subseteq Files,
           Faithful(gate, workspace), EditsCounted, ToolEffect(changed, v)
    PROVE  Faithful(gate, workspace)' /\ EditsCounted'
  <1>1. CASE changed = {}
    <2>1. Faithful(gate, workspace)'
      BY <1>1, RecordingIsFaithful DEF ToolEffect
    <2>2. EditsCounted'
      BY <1>1, RecordingKeepsEdits DEF ToolEffect, EditsCounted, CodeChanged
    <2> QED BY <2>1, <2>2
  <1>2. CASE changed # {}
    <2> DEFINE isCode == changed \cap CodeFiles # {}
               g == RecordMutation(gate, isCode)
    <2>1. isCode \in BOOLEAN
      OBVIOUS
    <2>2. PICK h \in BOOLEAN : workspace' = Checked(Mutated(workspace, h), v)
      BY <1>2 DEF ToolEffect
    <2>3. g \in Gates /\ Mutated(workspace, h) \in Workspaces
      BY <2>1, RecordMutationType DEF Mutated, Workspaces
    <2>4. gate' = RecordVerification(g, v) /\ touched' = touched \cup changed
      BY <1>2 DEF ToolEffect
    <2>5. Faithful(g, Mutated(workspace, h))
      BY <2>1, MutationIsFaithful
    <2>6. Faithful(gate, workspace)'
      BY <2>2, <2>3, <2>4, <2>5, RecordingIsFaithful
    <2>7. g.mutationSeq = gate.mutationSeq + 1 /\ g.codeTouched = (gate.codeTouched \/ isCode)
      BY DEF RecordMutation, Gates
    <2>8. gate'.mutationSeq = g.mutationSeq /\ gate'.codeTouched = g.codeTouched
      BY <2>3, <2>4, RecordingKeepsEdits
    <2>9. CodeChanged' => CodeChanged \/ isCode
      BY <2>4 DEF CodeChanged
    <2>10. gate'.mutationSeq # 0
      BY <2>7, <2>8, GateFields
    <2> HIDE DEF g
    <2> QED BY <2>6, <2>7, <2>8, <2>9, <2>10, Zenon DEF EditsCounted
  <1> QED BY <1>1, <1>2

(* The gate's own run is recorded like any other. *)
LEMMA GateRanFaithful ==
    ASSUME TypeInv, NEW v \in HarnessVerdicts, AskGate(v), Faithful(gate, workspace)
    PROVE  /\ GateRan(v) \in Gates /\ Faithful(GateRan(v), workspace')
           /\ GateRan(v).codeTouched = gate.codeTouched
           /\ GateRan(v).mutationSeq = gate.mutationSeq
  <1>1. v \in Verdicts /\ gate \in Gates /\ workspace \in Workspaces
    BY HarnessVerdictType DEF TypeInv, TypeOK
  <1>2. workspace' = Checked(workspace, v)
    BY DEF AskGate
  <1>3. CASE HarnessRuns(gate, DetectedRunner = "suite")
    BY <1>1, <1>2, <1>3, RecordVerificationType, RecordingIsFaithful, RecordingKeepsEdits
       DEF GateRan, GateAfterCheck
  <1>4. CASE ~HarnessRuns(gate, DetectedRunner = "suite")
    <2>1. v = NoVerdict
      BY <1>4 DEF HarnessVerdicts
    <2>2. workspace' = workspace
      BY <1>2, <2>1 DEF Checked, NoVerdict
    <2> QED BY <1>1, <1>4, <2>2 DEF GateRan, GateAfterCheck
  <1> QED BY <1>3, <1>4

(* An open gate is evidence for the files as they are. *)
LEMMA OpenGateVerifies ==
    ASSUME NEW g \in Gates, NEW w, NEW suiteAvailable \in BOOLEAN,
           Faithful(g, w), g.codeTouched, g.mutationSeq # 0, Evaluate(g, suiteAvailable) = "open"
    PROVE  IF suiteAvailable /\ ~g.suiteMissing THEN w.suite = "green" ELSE w.check = "green"
  <1>1. CASE suiteAvailable /\ ~g.suiteMissing
    BY <1>1 DEF Evaluate, Faithful
  <1>2. CASE ~(suiteAvailable /\ ~g.suiteMissing)
    BY <1>2 DEF Evaluate, Faithful
  <1> QED BY <1>1, <1>2

EvidenceInv == Faithful(gate, workspace) /\ EditsCounted /\ AnswerIsVerified

LEMMA NoAnswerYet ==
    ASSUME TypeInv, Phases, pc # "done"
    PROVE  out.reason # "answered"
  <1>1. out.event = "none" /\ out \in Outcomes
    BY DEF TypeInv, TypeOK, Phases
  <1> QED BY <1>1 DEF Outcomes, NotOver

LEMMA GatePassesEvidence == TypeInv /\ Phases /\ EvidenceInv /\ GatePasses => EvidenceInv'
  <1> SUFFICES ASSUME TypeInv, Phases, EvidenceInv, GatePasses PROVE EvidenceInv'
    OBVIOUS
  <1>1. PICK v \in HarnessVerdicts :
          /\ AskGate(v) /\ gate' = GateRan(v)
          /\ Continue \/ Finish("complete", "completed", "answered", GateStatus(v) # "open")
    BY DEF GatePasses
  <1>2. /\ gate' \in Gates /\ Faithful(gate', workspace')
        /\ gate'.codeTouched = gate.codeTouched /\ gate'.mutationSeq = gate.mutationSeq
    BY <1>1, GateRanFaithful DEF EvidenceInv
  <1>3. touched' = touched /\ runner' = DetectedRunner /\ pc = "gate"
    BY <1>1 DEF AskGate
  <1>4. EditsCounted'
    BY <1>2, <1>3 DEF EvidenceInv, EditsCounted, CodeChanged
  <1>5. AnswerIsVerified'
    <2>1. CASE Continue
      <3>1. out' = out
        BY <2>1 DEF Continue
      <3>2. out.reason # "answered"
        BY <1>3, NoAnswerYet
      <3> QED BY <3>1, <3>2 DEF AnswerIsVerified
    <2>2. CASE Finish("complete", "completed", "answered", GateStatus(v) # "open")
      <3>1. SUFFICES ASSUME CodeChanged', ~out'.warned PROVE Verified(SuiteExpected)'
        BY DEF AnswerIsVerified
      <3>2. GateStatus(v) = "open"
        BY <2>2, <3>1 DEF Finish
      <3>3. Evaluate(gate', runner' = "suite") = "open"
        BY <1>1, <1>3, <3>2 DEF GateStatus, CheckStatus, GateRan
      <3>4. gate'.codeTouched /\ gate'.mutationSeq # 0
        BY <1>4, <3>1 DEF EditsCounted
      <3>5. IF runner' = "suite" /\ ~gate'.suiteMissing
            THEN workspace'.suite = "green" ELSE workspace'.check = "green"
        BY <1>2, <3>3, <3>4, OpenGateVerifies
      <3> QED BY <3>5 DEF Verified, SuiteExpected
    <2> QED BY <1>1, <2>1, <2>2
  <1> QED BY <1>2, <1>4, <1>5 DEF EvidenceInv

LEMMA EvidenceStep == TypeInv /\ Phases /\ EvidenceInv /\ [Next]_vars => EvidenceInv'
  <1> SUFFICES ASSUME TypeInv, Phases, EvidenceInv, [Next]_vars PROVE EvidenceInv'
    OBVIOUS
  <1>1. ASSUME UNCHANGED evidence, out' = out \/ out'.reason # "answered"
        PROVE  EvidenceInv'
    BY <1>1 DEF EvidenceInv, EditsCounted, CodeChanged, AnswerIsVerified, Verified,
       SuiteExpected, evidence
  <1>2. CASE UNCHANGED vars
    BY <1>1, <1>2 DEF vars, control
  <1>3. CASE Begin \/ ToolReturns
    <2>1. UNCHANGED out /\ pc # "done"
      BY <1>3 DEF Begin, ToolReturns, control
    <2>2. AnswerIsVerified'
      BY <2>1, NoAnswerYet DEF AnswerIsVerified
    <2>3. CASE UNCHANGED <<touched, gate, workspace>>
      BY <2>2, <2>3 DEF EvidenceInv, EditsCounted, CodeChanged
    <2>4. CASE \E changed \in Changes, v \in Verdicts : ToolEffect(changed, v)
      BY <2>2, <2>4, ToolEffectFaithful DEF EvidenceInv, TypeInv, TypeOK
    <2>5. NoVerdict \in Verdicts
      BY DEF Verdicts
    <2> QED BY <1>3, <2>3, <2>4, <2>5, ConstantTypes DEF Begin, ToolReturns
  <1>4. CASE \/ Cancel \/ StreamMarkup \/ UserAnswers \/ CallModel \/ HeadFails
             \/ LoopExhausted \/ CallFails \/ TextReachesGate
    BY <1>1, <1>4 DEF Cancel, StreamMarkup, UserAnswers, CallModel, HeadFails, LoopExhausted,
       CallFails, TextReachesGate, Finish, control
  <1>5. CASE NudgeTextToolCalls \/ ResumeTruncated \/ RetryDeferral \/ RetryAnnouncement
    BY <1>1, <1>5 DEF NudgeTextToolCalls, ResumeTruncated, RetryDeferral, RetryAnnouncement,
       AskAgain, Continue
  <1>6. CASE ToolCallReply \/ BatchThrows \/ BatchEnds
    BY <1>1, <1>6 DEF ToolCallReply, ForcedStop, EmptyToolTurn, NudgeRepoMap, ToolBudgetSpent,
       StartBatch, AskUser, BatchThrows, BatchEnds, AskAgain, Continue, Finish
  <1>7. CASE GateBlocks
    <2>1. PICK v \in HarnessVerdicts :
            /\ AskGate(v) /\ gate' = [GateRan(v) EXCEPT !.retries = @ + 1] /\ Continue
      BY <1>7 DEF GateBlocks
    <2>2. /\ GateRan(v) \in Gates /\ Faithful(GateRan(v), workspace')
          /\ GateRan(v).codeTouched = gate.codeTouched
          /\ GateRan(v).mutationSeq = gate.mutationSeq
      BY <2>1, GateRanFaithful DEF EvidenceInv
    <2>3. Faithful(gate', workspace') /\ gate'.codeTouched = gate.codeTouched
             /\ gate'.mutationSeq = gate.mutationSeq
      BY <2>1, <2>2 DEF Faithful, Gates
    <2>4. touched' = touched /\ out' = out /\ pc # "done"
      BY <2>1 DEF AskGate, Continue
    <2> QED BY <2>3, <2>4, NoAnswerYet DEF EvidenceInv, EditsCounted, CodeChanged, AnswerIsVerified
  <1>8. CASE GatePasses
    BY <1>8, GatePassesEvidence
  <1> QED BY <1>2, <1>3, <1>4, <1>5, <1>6, <1>7, <1>8 DEF Next, AgentStep, TextReply

(* An answer over changed code is verified on the files as they are, or it  *)
(* says that it is not.  (release-gate.js, the gate in run(), 2799-2850)    *)
THEOREM AnswersAreVerified == Spec => []AnswerIsVerified
  <1>1. Init => TypeInv /\ Phases /\ EvidenceInv
    <2> SUFFICES ASSUME Init PROVE TypeInv /\ Phases /\ EvidenceInv
      OBVIOUS
    <2>1. TypeInv /\ Phases
      BY InitType DEF TypeInv, StreakEnds, Init, NoRecovery, MaxInvalidStreak, Phases, NotOver
    <2>2. Faithful(gate, workspace)
      BY DEF Init, CreateGate, NoRun, Faithful
    <2>3. EditsCounted /\ AnswerIsVerified
      BY DEF Init, NotOver, EditsCounted, CodeChanged, AnswerIsVerified
    <2> QED BY <2>1, <2>2, <2>3 DEF EvidenceInv
  <1>2. TypeInv /\ Phases /\ [Next]_vars => Phases'
    BY PhasesStep DEF Phases, vars, control
  <1> QED BY <1>1, <1>2, NextType, EvidenceStep, PTL DEF Spec, EvidenceInv

-------------------------------------------------------------------------------
(* Every step of the turn is a step of the contract, or invisible to it.    *)
Status == CASE pc = "ready"  -> "idle"
            [] pc = "asking" -> "waiting"
            [] pc = "done"   -> ts
            [] OTHER         -> "running"

Budget == MaxIterations - iter

ContractStep ==
    \/ Status = "idle" /\ Status' = "running" /\ Budget' = Budget
    \/ Status = "running" /\ Budget > 0 /\ Budget' = Budget - 1 /\ Status' = Status
    \/ Status = "running" /\ Status' = "waiting" /\ Budget' = Budget
    \/ Status = "waiting" /\ Status' = "running" /\ Budget' = Budget
    \/ Status = "running" /\ Status' \in Terminal /\ Budget' \in {Budget, Budget - 1} \cap Nat
    \/ Status' = Status /\ Budget' = Budget

LEMMA StepsKeepContract == TypeInv /\ Phases /\ Phases' /\ [Next]_vars => ContractStep
  <1> SUFFICES ASSUME TypeInv, Phases, Phases', [Next]_vars PROVE ContractStep
    OBVIOUS
  <1> USE ConstantTypes DEF Status, Budget
  <1>0. iter \in 0..MaxIterations /\ Budget \in Nat
    BY DEF TypeInv, TypeOK
  <1>a. pc' = "done" => ts' \in Terminal
    BY DEF Phases, Terminal
  <1>1. CASE UNCHANGED vars
    BY <1>1 DEF ContractStep, vars, control
  <1>2. CASE Begin
    BY <1>2 DEF Begin, ContractStep
  <1>3. CASE Cancel \/ StreamMarkup \/ ToolReturns
    BY <1>3 DEF Cancel, StreamMarkup, ToolReturns, ContractStep, control
  <1>4. CASE UserAnswers
    BY <1>4 DEF UserAnswers, ContractStep
  <1>5. CASE CallModel \/ HeadFails
    <2>1. pc = "head" /\ iter < MaxIterations /\ iter' = iter + 1 /\ pc' \in {"model", "done"}
      BY <1>5 DEF CallModel, HeadFails, NextIteration, Finish
    <2> QED BY <2>1, <1>0, <1>a DEF ContractStep
  <1>6. CASE /\ pc \in {"head", "model", "gate", "batch"} /\ iter' = iter
             /\ pc' \in {"head", "model", "gate", "batch", "asking", "done"}
    BY <1>6, <1>0, <1>a DEF ContractStep
  <1>7. LoopExhausted \/ CallFails \/ TextReply \/ ToolCallReply \/ GateBlocks \/ GatePasses
          \/ BatchThrows \/ BatchEnds
        => /\ pc \in {"head", "model", "gate", "batch"} /\ iter' = iter
           /\ pc' \in {"head", "model", "gate", "batch", "asking", "done"}
    <2>1. LoopExhausted \/ CallFails \/ BatchThrows \/ BatchEnds
          => /\ pc \in {"head", "model", "gate", "batch"} /\ iter' = iter
             /\ pc' \in {"head", "done"}
      BY DEF LoopExhausted, CallFails, BatchThrows, BatchEnds, Finish
    <2>2. TextReply => pc = "model" /\ iter' = iter /\ pc' \in {"head", "gate"}
      BY DEF TextReply, NudgeTextToolCalls, ResumeTruncated, RetryDeferral, RetryAnnouncement,
         TextReachesGate, AskAgain, Continue
    <2>3. ToolCallReply => pc = "model" /\ iter' = iter /\ pc' \in {"head", "batch", "asking", "done"}
      BY DEF ToolCallReply, ForcedStop, EmptyToolTurn, NudgeRepoMap, ToolBudgetSpent, StartBatch,
         AskUser, ToolReply, AskAgain, Continue, Finish
    <2>4. GateBlocks \/ GatePasses => pc = "gate" /\ iter' = iter /\ pc' \in {"head", "done"}
      BY DEF GateBlocks, GatePasses, AskGate, Continue, Finish
    <2> QED BY <2>1, <2>2, <2>3, <2>4
  <1> QED BY <1>1, <1>2, <1>3, <1>4, <1>5, <1>6, <1>7 DEF Next, AgentStep

(* The turn implements the safety part of its contract: one outcome, never  *)
(* more calls to the model than configured, nothing after the outcome.      *)
THEOREM TurnImplementsContract == Spec => Contract!Init /\ [][Contract!Next]_(Contract!vars)
  <1>1. Init => TypeInv /\ Phases /\ Contract!Init
    <2> SUFFICES ASSUME Init PROVE TypeInv /\ Phases /\ Contract!Init
      OBVIOUS
    <2>1. TypeInv /\ Phases
      BY InitType DEF TypeInv, StreakEnds, Init, NoRecovery, MaxInvalidStreak, Phases, NotOver
    <2>2. Contract!Init
      BY ConstantTypes DEF Init, Contract!Init
    <2> QED BY <2>1, <2>2
  <1>2. TypeInv /\ Phases /\ [Next]_vars => Phases'
    BY PhasesStep DEF Phases, vars, control
  <1>3. ContractStep => [Contract!Next]_(Contract!vars)
    BY DEF ContractStep, Status, Budget, Terminal, Contract!Next, Contract!vars, Contract!Start,
       Contract!CallModel, Contract!AskUser, Contract!UserAnswers, Contract!End, Contract!Ended
  <1>4. TypeInv /\ Phases /\ Phases' /\ [Next]_vars => [Contract!Next]_(Contract!vars)
    BY <1>3, StepsKeepContract
  <1> QED BY <1>1, <1>2, <1>4, NextType, PTL DEF Spec
-------------------------------------------------------------------------------
(* However the todo list is rewritten, a turn is continued at most twice in a *)
(* row without anything having moved.                                         *)

(* What holds as soon as the first of the two rules has continued the turn,   *)
(* while the list may still be replaced: either Jev's rule continued it once, *)
(* or the plan's did, a second time only with the nudge.                      *)
Early(key, at, run, last, nudged) ==
    /\ last = key => run = 0
    /\ last = at => run <= 1 /\ (run = 1 => nudged)

(* The last continuation was made at these touched files and calls; done is   *)
(* the number of items done, listed that the list cannot be replaced, pending *)
(* that items are left.                                                       *)
SameFiles(done, listed, pending, key, at, run, last, nudged) ==
    /\ last \in {at, key}
    /\ (~listed \/ done < at[1]) => Early(key, at, run, last, nudged)
    /\ ~listed => /\ at[1] <= done
                  /\ done = at[1] => (pending <=> last = at)
    /\ listed /\ done = at[1] => /\ last = key /\ pending => run = 0
                                 /\ last = at /\ (~pending \/ ~nudged) => run <= 1

Done == Cardinality(todo.done)
Touched == Cardinality(touched)
Fixed == todo.accepts = "none"

(* Every action keeps it, and it bounds the run: progress that was left       *)
(* behind never comes back, for files are only touched, and calls are counted *)
(* by every batch; at the progress of the last continuation SameFiles holds.  *)
StallInv ==
    /\ todo.accepts # "any" => todo.size > 0
    /\ stall.run <= 2
    /\ stall.at \in {<<>>} \cup (Nat \X Nat \X Nat)
    /\ pc = "ready" => stall.at = <<>>
    /\ stall.at # <<>> =>
         /\ stall.at[2] <= Touched /\ stall.at[3] <= calls
         /\ pc = "batch" => stall.at[3] < calls
         /\ stall.at[2] = Touched /\ stall.at[3] = calls =>
              SameFiles(Done, Fixed, Pending(todo) # {}, <<Touched, calls>>,
                        stall.at, stall.run, auto.last, auto.stalled)

-------------------------------------------------------------------------------
LEMMA ProgressParts ==
    ASSUME TypeInv
    PROVE  /\ Done \in Nat /\ Touched \in Nat /\ calls \in Nat
           /\ Progress = <<Done, Touched, calls>>
           /\ IsFiniteSet(todo.done) /\ IsFiniteSet(touched)
  <1>1. touched \subseteq Files /\ todo \in Todos /\ calls \in Nat
    BY DEF TypeInv, TypeOK
  <1>2. IsFiniteSet(touched)
    BY <1>1, ConstantTypes, FS_Subset
  <1>3. todo.done \subseteq 0..MaxTodo
    BY <1>1 DEF Todos
  <1>4. IsFiniteSet(todo.done)
    <2>1. IsFiniteSet(0..MaxTodo)
      BY ConstantTypes, FS_Interval
    <2> QED BY <1>3, <2>1, FS_Subset
  <1>5. Done \in Nat /\ Touched \in Nat
    BY <1>2, <1>4, FS_CardinalityType DEF Done, Touched
  <1> QED BY <1>1, <1>2, <1>4, <1>5 DEF Progress, Done, Touched

(* One more item is done.                                                     *)
LEMMA SameMarked ==
    ASSUME NEW done \in Nat, NEW fixed \in BOOLEAN, NEW before \in BOOLEAN, NEW after \in BOOLEAN, NEW key,
           NEW at \in Nat \X Nat \X Nat, NEW run \in Nat, NEW last, NEW nudged \in BOOLEAN, key # at,
           SameFiles(done, fixed, before, key, at, run, last, nudged)
    PROVE  SameFiles(done + 1, fixed, after, key, at, run, last, nudged)
  <1>1. at[1] \in Nat
    OBVIOUS
  <1>2. CASE ~fixed
    BY <1>1, <1>2 DEF SameFiles, Early
  <1>3. CASE fixed /\ done < at[1]
    <2>1. last \in {at, key} /\ Early(key, at, run, last, nudged)
      BY <1>3 DEF SameFiles
    <2> QED BY <1>1, <1>3, <2>1 DEF SameFiles, Early
  <1>4. CASE fixed /\ ~(done < at[1])
    <2>1. ~(done + 1 < at[1]) /\ done + 1 # at[1]
      BY <1>1, <1>4
    <2> QED BY <1>4, <2>1 DEF SameFiles
  <1> QED BY <1>2, <1>3, <1>4

(* A first continuation at new files, calls or items done.                    *)
LEMMA FirstContinues ==
    ASSUME NEW fixed \in BOOLEAN, NEW pending \in BOOLEAN, NEW key, NEW at \in Nat \X Nat \X Nat,
           NEW nudged \in BOOLEAN, NEW done, NEW last, done = at[1], key # at,
           last = IF pending THEN at ELSE key
    PROVE  SameFiles(done, fixed, pending, key, at, 0, last, nudged)
  <1>1. done \in Nat
    OBVIOUS
  <1> QED BY <1>1 DEF SameFiles, Early

-------------------------------------------------------------------------------
LEMMA KeyIsShort == \A t, c \in Nat, at \in Nat \X Nat \X Nat : <<t, c>> # at
  <1> SUFFICES ASSUME NEW t \in Nat, NEW c \in Nat, NEW x \in Nat, NEW y \in Nat, NEW z \in Nat,
                      <<t, c>> = <<x, y, z>>
               PROVE  FALSE
    OBVIOUS
  <1>1. Len(<<t, c>>) = 2 /\ Len(<<x, y, z>>) = 3
    OBVIOUS
  <1> QED BY <1>1

(* The fields of a list that is replaced or marked.                           *)
LEMMA TodoFields ==
    ASSUME NEW t \in Todos
    PROVE  /\ \A n \in Nat \ {0}, src \in {"block", "markdown", "plan"} :
                /\ Listed(t, n, src).size > 0 /\ Listed(t, n, src).done = {}
                /\ Listed(t, n, src).accepts = "none"
           /\ \A i : /\ [t EXCEPT !.done = @ \cup {i}].size = t.size
                     /\ [t EXCEPT !.done = @ \cup {i}].done = t.done \cup {i}
                     /\ [t EXCEPT !.done = @ \cup {i}].accepts = t.accepts
           /\ t.size \in Nat /\ t.accepts \in {"any", "block", "none"}
  BY ConstantTypes DEF Listed, Todos

(* While a reply is read, the list is left alone, replaced or marked.         *)
LEMMA RepliesMoveTodo ==
    ASSUME NEW t \in Todos, NEW u \in MarkupUpdates(t) \cup MarkdownUpdates(t),
           t.accepts # "any" => t.size > 0
    PROVE  \/ u = t
           \/ t.accepts # "none" /\ u.accepts = "none" /\ u.size > 0 /\ u.done = {}
           \/ /\ u.accepts = t.accepts /\ u.size = t.size
              /\ \E i \in 0..MaxTodo : u.done = t.done \cup {i}
  <1>1. /\ \A n \in 1..MaxTodo : n \in Nat \ {0}
        /\ \A n \in 2..MaxTodo : n \in Nat \ {0}
    BY ConstantTypes
  <1>2. CASE u \in {Listed(t, n, BlockSource(t)) : n \in IF t.accepts # "none" THEN 1..MaxTodo ELSE {}}
    BY <1>1, <1>2, TodoFields, BlockSourceType
  <1>3. CASE u \in {Listed(t, n, "plan") : n \in IF t.size = 0 THEN 2..MaxTodo ELSE {}}
    BY <1>1, <1>3, TodoFields
  <1>4. CASE u \in {[t EXCEPT !.done = @ \cup {i}] : i \in 0..MaxTodo}
    <2>1. PICK i \in 0..MaxTodo : u = [t EXCEPT !.done = @ \cup {i}]
      BY <1>4
    <2>2. u.accepts = t.accepts /\ u.size = t.size /\ u.done = t.done \cup {i}
      BY <2>1, TodoFields
    <2> QED BY <2>2
  <1>5. CASE u \in {Listed(t, n, "markdown") : n \in IF t.accepts = "any" THEN 1..MaxTodo ELSE {}}
    BY <1>1, <1>5, TodoFields
  <1>6. CASE u = t
    BY <1>6
  <1> QED BY <1>2, <1>3, <1>4, <1>5, <1>6 DEF MarkupUpdates, MarkdownUpdates

LEMMA TodoStep ==
    ASSUME TypeInv, StallInv, todo' \in MarkupUpdates(todo) \cup MarkdownUpdates(todo),
           UNCHANGED <<touched, calls, auto, stall>>, pc' \notin {"ready", "batch"}
    PROVE  StallInv'
  <1>1. /\ todo \in Todos /\ auto.stalled \in BOOLEAN /\ stall.run \in Nat
        /\ Done \in Nat /\ Touched \in Nat /\ calls \in Nat /\ IsFiniteSet(todo.done)
    BY ProgressParts DEF TypeInv, TypeOK
  <1>2. todo.accepts # "any" => todo.size > 0
    BY DEF StallInv
  <1>3. \/ todo' = todo
        \/ todo.accepts # "none" /\ todo'.accepts = "none" /\ todo'.size > 0 /\ todo'.done = {}
        \/ /\ todo'.accepts = todo.accepts /\ todo'.size = todo.size
           /\ \E i \in 0..MaxTodo : todo'.done = todo.done \cup {i}
    BY <1>1, <1>2, RepliesMoveTodo
  <1>4. todo'.accepts # "any" => todo'.size > 0
    BY <1>2, <1>3
  <1>5. Touched' = Touched
    BY DEF Touched
  <1> DEFINE key == <<Touched, calls>>
             same == stall.at # <<>> /\ stall.at[2] = Touched /\ stall.at[3] = calls
             Holds(done, fixed, pending) ==
               SameFiles(done, fixed, pending, key, stall.at, stall.run, auto.last, auto.stalled)
  <1>6. same => Holds(Done, Fixed, Pending(todo) # {})
    BY DEF StallInv
  <1>7. same => stall.at \in Nat \X Nat \X Nat /\ key # stall.at
    BY <1>1, KeyIsShort DEF StallInv
  <1>8. same => Holds(Done', Fixed', Pending(todo)' # {})
    <2> SUFFICES ASSUME same PROVE Holds(Done', Fixed', Pending(todo)' # {})
      OBVIOUS
    <2> DEFINE left == Pending(todo) # {}
               next == Pending(todo') # {}
    <2>0. Pending(todo)' = Pending(todo')
      BY DEF Pending
    <2>1. left \in BOOLEAN /\ next \in BOOLEAN /\ Fixed \in BOOLEAN /\ Fixed' \in BOOLEAN
      BY DEF Fixed
    <2>2. Holds(Done, Fixed, left) /\ stall.at \in Nat \X Nat \X Nat /\ key # stall.at
      BY <1>6, <1>7
    <2>3. CASE todo' = todo
      <3>1. Done' = Done /\ Fixed' = Fixed /\ next = left
        BY <2>3 DEF Done, Fixed, Pending
      <3> HIDE DEF Holds, left, next
      <3> QED BY <2>0, <2>2, <3>1 DEF next
    <2>4. CASE todo.accepts # "none" /\ todo'.accepts = "none" /\ todo'.done = {}
      <3>1. Done' = 0 /\ Fixed' /\ ~Fixed
        BY <2>4, FS_EmptySet DEF Done, Fixed
      <3> HIDE DEF left, next, key, same
      <3>2. Holds(0, Fixed', next)
        <4>1. /\ Done \in Nat /\ stall.run \in Nat /\ auto.stalled \in BOOLEAN
              /\ left \in BOOLEAN /\ next \in BOOLEAN /\ Fixed \in BOOLEAN /\ Fixed' \in BOOLEAN
              /\ stall.at \in Nat \X Nat \X Nat /\ key # stall.at /\ ~Fixed /\ Fixed'
              /\ SameFiles(Done, Fixed, left, key, stall.at, stall.run, auto.last, auto.stalled)
          BY <1>1, <2>1, <2>2, <3>1
        <4>2. stall.at[1] \in Nat
          BY <4>1
        <4>3. auto.last \in {stall.at, key} /\ Early(key, stall.at, stall.run, auto.last, auto.stalled)
          BY <4>1 DEF SameFiles
        <4> QED BY <4>1, <4>2, <4>3 DEF SameFiles, Early
      <3> HIDE DEF Holds
      <3> QED BY <2>0, <3>1, <3>2 DEF next
    <2>5. CASE /\ todo'.accepts = todo.accepts /\ todo'.size = todo.size
               /\ \E i \in 0..MaxTodo : todo'.done = todo.done \cup {i}
      <3>1. PICK i \in 0..MaxTodo : todo'.done = todo.done \cup {i}
        BY <2>5
      <3>2. Fixed' = Fixed
        BY <2>5 DEF Fixed
      <3>3. CASE i \in todo.done
        <4>1. todo'.done = todo.done
          BY <3>1, <3>3
        <4>2. Done' = Done /\ next = left
          BY <2>5, <4>1 DEF Done, Pending
        <4> HIDE DEF Holds, left, next
        <4> QED BY <2>0, <2>2, <3>2, <4>2 DEF next
      <3>4. CASE i \notin todo.done
        <4>1. Done' = Done + 1
          BY <1>1, <3>1, <3>4, FS_AddElement DEF Done
        <4> HIDE DEF left, next, key, same
        <4>2. Holds(Done + 1, Fixed, next)
          BY <1>1, <2>1, <2>2, SameMarked
        <4> HIDE DEF Holds
        <4> QED BY <2>0, <3>2, <4>1, <4>2 DEF next
      <3> QED BY <3>3, <3>4
    <2> QED BY <1>3, <2>3, <2>4, <2>5
  <1> QED BY <1>4, <1>5, <1>8 DEF StallInv


(* Steps that move nothing the two rules look at.                             *)
LEMMA QuietStep ==
    ASSUME StallInv, UNCHANGED <<todo, stall, auto, touched, calls>>,
           pc' # "ready", pc' = "batch" => pc = "batch"
    PROVE  StallInv'
  BY DEF StallInv, Touched, Done, Fixed, Pending

(* Calls have been started: the last continuation is of another progress, and *)
(* what they do to the list and the files is of no more account.              *)
LEMMA MovedStep ==
    ASSUME TypeInv, TypeInv', StallInv, UNCHANGED <<stall, auto>>, pc' # "ready",
           touched \subseteq touched', calls <= calls', stall.at # <<>> => stall.at[3] < calls',
           todo'.accepts # "any" => todo'.size > 0
    PROVE  StallInv'
  <1>1. Touched <= Touched'
    <2>1. IsFiniteSet(touched') /\ touched \in SUBSET touched'
      BY ConstantTypes, FS_Subset DEF TypeInv, TypeOK
    <2> QED BY <2>1, FS_Subset, FS_CardinalityType DEF Touched
  <1>2. Touched \in Nat /\ calls \in Nat
    BY ProgressParts
  <1>3. Touched' \in Nat /\ calls' \in Nat
    <2>1. IsFiniteSet(touched')
      BY ConstantTypes, FS_Subset DEF TypeInv, TypeOK
    <2> QED BY <2>1, FS_CardinalityType DEF TypeInv, TypeOK, Touched
  <1>4. stall.at # <<>> =>
          /\ stall.at[2] <= Touched' /\ stall.at[3] < calls' /\ stall.at[2] \in Nat /\ stall.at[3] \in Nat
    <2> SUFFICES ASSUME stall.at # <<>> PROVE /\ stall.at[2] <= Touched' /\ stall.at[3] < calls'
                                              /\ stall.at[2] \in Nat /\ stall.at[3] \in Nat
      OBVIOUS
    <2>1. stall.at \in Nat \X Nat \X Nat /\ stall.at[2] <= Touched
      BY DEF StallInv
    <2>2. stall.at[2] \in Nat /\ stall.at[3] \in Nat
      BY <2>1
    <2> QED BY <1>1, <1>2, <1>3, <2>1, <2>2
  <1>5. stall.at # <<>> => ~(stall.at[3] = calls') /\ stall.at[3] <= calls'
    BY <1>3, <1>4
  <1> QED BY <1>4, <1>5 DEF StallInv

LEMMA BatchStalls ==
    ASSUME TypeInv, StallInv, TypeInv', StartBatch \/ AskUser \/ ToolReturns \/ BatchEnds
    PROVE  StallInv'
  <1>1. calls \in Nat /\ todo \in Todos /\ stall.at # <<>> => stall.at[3] \in Nat /\ stall.at[3] <= calls
    BY DEF StallInv, TypeInv, TypeOK
  <1>2. todo.accepts # "any" => todo.size > 0
    BY DEF StallInv
  <1>3. CASE StartBatch \/ AskUser
    <2>1. PICK n \in 1..MaxBatch : calls' = calls + n
      BY <1>3 DEF StartBatch, AskUser
    <2>2. n \in Nat /\ n > 0 /\ calls \in Nat
      BY ConstantTypes DEF TypeInv, TypeOK
    <2>4. UNCHANGED <<todo, stall, auto, touched>> /\ pc' # "ready"
      BY <1>3 DEF StartBatch, AskUser, planning, evidence
    <2>5. stall.at # <<>> => stall.at[3] < calls'
      <3>1. stall.at # <<>> => stall.at \in Nat \X Nat \X Nat /\ stall.at[3] <= calls
        BY DEF StallInv
      <3>2. stall.at # <<>> => stall.at[3] \in Nat
        BY <3>1
      <3> QED BY <2>1, <2>2, <3>1, <3>2
    <2>6. calls <= calls' /\ touched \subseteq touched' /\ (todo'.accepts # "any" => todo'.size > 0)
      BY <1>2, <2>1, <2>2, <2>4
    <2> QED BY <2>4, <2>5, <2>6, MovedStep
  <1>4. ASSUME pc = "batch" PROVE stall.at # <<>> => stall.at[3] < calls
    BY <1>4 DEF StallInv
  <1>5. CASE ToolReturns
    <2>1. pc = "batch" /\ pc' = "batch" /\ UNCHANGED <<stall, auto, calls>>
      BY <1>5 DEF ToolReturns, control
    <2>2. touched \subseteq touched'
      BY <1>5 DEF ToolReturns, ToolEffect
    <2>3. todo' = todo \/ todo' \in TodoToolUpdates(todo)
      BY <1>5 DEF ToolReturns
    <2>4. todo'.accepts # "any" => todo'.size > 0
      <3>1. todo \in Todos /\ MaxTodo \in Nat
        BY ConstantTypes DEF TypeInv, TypeOK
      <3>2. CASE todo' = todo
        BY <1>2, <3>2
      <3>3. CASE todo' \in {Listed(todo, n, "block") : n \in 1..MaxTodo}
        <4>1. PICK n \in 1..MaxTodo : todo' = Listed(todo, n, "block")
          BY <3>3
        <4>2. n \in Nat \ {0}
          BY <3>1
        <4> QED BY <3>1, <4>1, <4>2, TodoFields
      <3>4. CASE todo' \in {[todo EXCEPT !.size = n, !.src = BlockSource(todo), !.accepts = "none"] :
                                n \in (todo.size + 1)..MaxTodo}
        <4>1. PICK n \in (todo.size + 1)..MaxTodo :
                 todo' = [todo EXCEPT !.size = n, !.src = BlockSource(todo), !.accepts = "none"]
          BY <3>4
        <4>2. todo'.size = n
          BY <3>1, <4>1 DEF Todos
        <4>3. n > 0
          BY <3>1, TodoFields
        <4> QED BY <4>2, <4>3
      <3>5. CASE todo' \in {[todo EXCEPT !.done = @ \cup {i}] : i \in 0..(todo.size - 1)}
        <4>1. PICK i \in 0..(todo.size - 1) : todo' = [todo EXCEPT !.done = @ \cup {i}]
          BY <3>5
        <4>2. todo'.size = todo.size /\ todo'.accepts = todo.accepts
          BY <3>1, <4>1, TodoFields
        <4> QED BY <1>2, <4>2
      <3> QED BY <2>3, <3>2, <3>3, <3>4, <3>5 DEF TodoToolUpdates
    <2>5. calls <= calls'
      BY <2>1 DEF TypeInv, TypeOK
    <2>6. (stall.at # <<>> => stall.at[3] < calls') /\ pc' # "ready"
      BY <1>4, <2>1
    <2> QED BY <2>1, <2>2, <2>4, <2>5, <2>6, MovedStep
  <1>6. CASE BatchEnds
    <2>1. pc = "batch" /\ pc' \in {"head", "done"} /\ UNCHANGED <<todo, stall, auto, touched, calls>>
      BY <1>6 DEF BatchEnds, planning, evidence
    <2> QED BY <2>1, QuietStep
  <1> QED BY <1>3, <1>5, <1>6

LEMMA BeginStalls ==
    ASSUME TypeInv, StallInv, Begin
    PROVE  StallInv'
  <1>1. stall' = stall /\ pc' = "head" /\ pc = "ready"
    BY DEF Begin
  <1>2. stall.at = <<>>
    BY <1>1 DEF StallInv
  <1>3. todo'.accepts # "any" => todo'.size > 0
    <2>0. todo \in Todos
      BY DEF TypeInv, TypeOK
    <2>1. CASE todo' = NoTodo
      BY <2>1 DEF NoTodo
    <2>2. CASE todo' = [todo EXCEPT !.accepts = "block"] /\ Pending(todo) # {}
      <3>1. todo.size \in Nat /\ 0..(todo.size - 1) # {}
        BY <2>0, <2>2 DEF Pending, Todos
      <3>2. todo.size > 0
        BY <3>1
      <3>3. todo'.size = todo.size
        BY <2>0, <2>2 DEF Todos
      <3> QED BY <3>2, <3>3
    <2> QED BY <2>1, <2>2 DEF Begin
  <1> QED BY <1>1, <1>2, <1>3 DEF StallInv


(* The turn goes on in the user's name.                                       *)
LEMMA ContinueStep ==
    ASSUME TypeInv, StallInv, UNCHANGED <<todo, touched, calls>>, pc' = "head", stall' = Stall,
           \/ /\ Pending(todo) # {} /\ ~(Stalled /\ auto.stalled)
              /\ auto'.last = Progress /\ auto'.stalled = (auto.stalled \/ Stalled)
           \/ /\ Pending(todo) = {} /\ auto.last # <<Touched, calls>>
              /\ auto'.last = <<Touched, calls>> /\ auto'.stalled = auto.stalled
    PROVE  StallInv'
  <1> DEFINE key == <<Touched, calls>>
             at == <<Done, Touched, calls>>
             pending == Pending(todo) # {}
  <1>1. /\ Done \in Nat /\ Touched \in Nat /\ calls \in Nat /\ Progress = at
        /\ stall.run \in Nat /\ auto.stalled \in BOOLEAN
    BY ProgressParts DEF TypeInv, TypeOK
  <1>2. at \in Nat \X Nat \X Nat /\ key # at /\ at[1] = Done /\ at[2] = Touched /\ at[3] = calls /\ at # <<>>
    BY <1>1, KeyIsShort
  <1>3. stall'.at = at /\ stall'.run = IF stall.at = at THEN stall.run + 1 ELSE 0
    BY <1>1 DEF Stall
  <1>4. Fixed \in BOOLEAN /\ pending \in BOOLEAN
    BY DEF Fixed
  <1>5. \/ /\ pending /\ ~(auto.last = at /\ auto.stalled)
           /\ auto'.last = at /\ auto'.stalled = (auto.stalled \/ auto.last = at)
        \/ /\ ~pending /\ auto.last # key
           /\ auto'.last = key /\ auto'.stalled = auto.stalled
    BY <1>1 DEF Stalled
  <1>6. stall.at = at => SameFiles(at[1], Fixed, pending, key, at, stall.run, auto.last, auto.stalled)
    BY <1>2 DEF StallInv
  <1>7. auto'.stalled \in BOOLEAN
    BY <1>1, <1>5
  <1> HIDE DEF key, at, pending
  <1>8. /\ stall'.run <= 2
        /\ SameFiles(at[1], Fixed, pending, key, at, stall'.run, auto'.last, auto'.stalled)
    <2>1. CASE stall.at = at
      <3>1. SameFiles(at[1], Fixed, pending, key, at, stall.run, auto.last, auto.stalled)
        BY <1>6, <2>1
      <3>2. stall'.run = stall.run + 1
        BY <1>3, <2>1
      <3>3. CASE pending
        <4>1. /\ ~(auto.last = at /\ auto.stalled)
              /\ auto'.last = at /\ (auto'.stalled <=> (auto.stalled \/ auto.last = at))
          BY <1>5, <3>3
        <4>2. stall'.run <= 2 /\ SameFiles(at[1], Fixed, pending, key, at, stall'.run, at, auto'.stalled)
          <5>1. CASE ~Fixed
            <6>1. auto.last = at /\ ~auto.stalled /\ auto'.stalled
              BY <1>2, <3>1, <3>3, <4>1, <5>1 DEF SameFiles
            <6>2. stall.run = 0
              BY <1>1, <3>1, <5>1, <6>1 DEF SameFiles, Early
            <6> QED BY <1>1, <1>2, <3>2, <3>3, <5>1, <6>1, <6>2 DEF SameFiles, Early
          <5>2. CASE Fixed /\ auto.last = at
            <6>1. ~auto.stalled /\ stall.run <= 1 /\ auto'.stalled
              BY <1>2, <3>1, <3>3, <4>1, <5>2 DEF SameFiles
            <6> QED BY <1>1, <1>2, <3>2, <3>3, <5>2, <6>1 DEF SameFiles, Early
          <5>3. CASE Fixed /\ auto.last # at
            <6>1. auto.last = key /\ stall.run = 0
              BY <1>2, <3>1, <3>3, <5>3 DEF SameFiles
            <6> QED BY <1>1, <1>2, <3>2, <3>3, <5>3, <6>1 DEF SameFiles, Early
          <5> QED BY <5>1, <5>2, <5>3
        <4> QED BY <4>1, <4>2
      <3>4. CASE ~pending
        <4>1. auto.last # key /\ auto'.last = key /\ auto'.stalled = auto.stalled
          BY <1>5, <3>4
        <4>2. stall'.run <= 2 /\ SameFiles(at[1], Fixed, pending, key, at, stall'.run, key, auto.stalled)
          <5>1. Fixed /\ auto.last = at
            BY <1>2, <3>1, <3>4, <4>1 DEF SameFiles
          <5>2. stall.run <= 1
            BY <1>2, <3>1, <3>4, <5>1 DEF SameFiles
          <5> QED BY <1>1, <1>2, <3>2, <3>4, <5>1, <5>2 DEF SameFiles
        <4> QED BY <4>1, <4>2
      <3> QED BY <3>3, <3>4
    <2>2. CASE stall.at # at
      <3>1. stall'.run = 0 /\ auto'.last = IF pending THEN at ELSE key
        BY <1>3, <1>5, <2>2
      <3>2. SameFiles(at[1], Fixed, pending, key, at, 0, auto'.last, auto'.stalled)
        BY <1>2, <1>4, <1>7, <3>1, FirstContinues
      <3> QED BY <3>1, <3>2
    <2> QED BY <2>1, <2>2
  <1>9. Done' = Done /\ Touched' = Touched /\ Fixed' = Fixed /\ Pending(todo)' = Pending(todo)
    BY DEF Done, Touched, Fixed, Pending
  <1>10. todo'.accepts # "any" => todo'.size > 0
    BY DEF StallInv
  <1>11. SameFiles(Done', Fixed', Pending(todo)' # {}, <<Touched', calls'>>,
                   stall'.at, stall'.run, auto'.last, auto'.stalled)
    BY <1>2, <1>3, <1>8, <1>9 DEF key, pending
  <1>12. stall'.at \in Nat \X Nat \X Nat /\ stall'.at[2] = Touched' /\ stall'.at[3] = calls'
    BY <1>2, <1>3, <1>9
  <1>13. Touched' <= Touched' /\ calls' <= calls'
    BY <1>1, <1>9
  <1> QED BY <1>8, <1>10, <1>11, <1>12, <1>13 DEF StallInv

LEMMA GatePassesStalls ==
    ASSUME TypeInv, StallInv, GatePasses
    PROVE  StallInv'
  <1>1. UNCHANGED <<calls, touched>> /\ todo' = todo /\ pc' \in {"head", "done"}
    BY DEF GatePasses, AskGate, Continue, Finish, planning
  <1>2. auto \in [count : 0..MaxAutoContinues, last : Keys, stalled : BOOLEAN]
    BY DEF TypeInv, TypeOK
  <1>3. PICK declared, unfinished \in BOOLEAN :
           \/ /\ PlanContinues(declared)
              /\ auto' = [count |-> auto.count + 1, last |-> Progress,
                          stalled |-> auto.stalled \/ Stalled]
              /\ stall' = Stall /\ pc' = "head"
           \/ /\ JevContinues(declared, unfinished)
              /\ auto' = [auto EXCEPT !.count = @ + 1,
                                      !.last = <<Cardinality(touched), calls>>]
              /\ stall' = Stall /\ pc' = "head"
           \/ UNCHANGED <<auto, stall>>
    BY DEF GatePasses, Continue, planning
  <1>4. CASE /\ PlanContinues(declared) /\ stall' = Stall /\ pc' = "head"
             /\ auto' = [count |-> auto.count + 1, last |-> Progress,
                         stalled |-> auto.stalled \/ Stalled]
    <2>1. Pending(todo) # {} /\ ~(Stalled /\ auto.stalled)
      BY <1>4 DEF PlanContinues, Eligible
    <2>2. auto'.last = Progress /\ auto'.stalled = (auto.stalled \/ Stalled)
      BY <1>4
    <2> QED BY <1>1, <1>4, <2>1, <2>2, ContinueStep
  <1>5. CASE /\ JevContinues(declared, unfinished) /\ stall' = Stall /\ pc' = "head"
             /\ auto' = [auto EXCEPT !.count = @ + 1,
                                     !.last = <<Cardinality(touched), calls>>]
    <2>1. Pending(todo) = {} /\ auto.last # <<Touched, calls>>
      BY <1>5 DEF JevContinues, Touched
    <2>2. auto'.last = <<Touched, calls>> /\ auto'.stalled = auto.stalled
      BY <1>2, <1>5 DEF Touched
    <2> QED BY <1>1, <1>5, <2>1, <2>2, ContinueStep
  <1>6. CASE UNCHANGED <<auto, stall>>
    BY <1>1, <1>6, QuietStep
  <1> QED BY <1>3, <1>4, <1>5, <1>6

LEMMA StallStep == TypeInv /\ TypeInv' /\ StallInv /\ [Next]_vars => StallInv'
  <1> SUFFICES ASSUME TypeInv, TypeInv', StallInv, [Next]_vars PROVE StallInv'
    OBVIOUS
  <1> USE DEF planning, evidence, control
  <1>1. CASE Begin
    BY <1>1, BeginStalls
  <1>2. CASE Cancel
    BY <1>2, QuietStep DEF Cancel
  <1>3. CASE StreamMarkup
    <2>1. todo' \in MarkupUpdates(todo) /\ pc' \notin {"ready", "batch"}
          /\ UNCHANGED <<touched, calls, auto, stall>>
      BY <1>3 DEF StreamMarkup
    <2> QED BY <2>1, TodoStep
  <1>4. CASE UserAnswers
    BY <1>4, QuietStep DEF UserAnswers
  <1>5. CASE CallModel
    BY <1>5, QuietStep DEF CallModel
  <1>6. CASE HeadFails \/ LoopExhausted \/ CallFails \/ BatchThrows
    BY <1>6, QuietStep DEF HeadFails, LoopExhausted, CallFails, BatchThrows, Finish
  <1>7. CASE NudgeTextToolCalls
    BY <1>7, QuietStep DEF NudgeTextToolCalls, AskAgain, Continue
  <1>8. CASE ResumeTruncated \/ RetryDeferral \/ RetryAnnouncement \/ TextReachesGate
    <2>1. todo' \in MarkdownUpdates(todo) /\ pc' \notin {"ready", "batch"}
          /\ UNCHANGED <<touched, calls, auto, stall>>
      BY <1>8 DEF ResumeTruncated, RetryDeferral, RetryAnnouncement, TextReachesGate, AskAgain, Continue
    <2> QED BY <2>1, TodoStep
  <1>9. CASE ForcedStop \/ EmptyToolTurn
    BY <1>9, QuietStep DEF ForcedStop, EmptyToolTurn, Finish
  <1>10. CASE NudgeRepoMap \/ ToolBudgetSpent
    BY <1>10, QuietStep DEF NudgeRepoMap, ToolBudgetSpent, AskAgain, Continue
  <1>11. CASE StartBatch \/ AskUser \/ ToolReturns \/ BatchEnds
    BY <1>11, BatchStalls
  <1>12. CASE GateBlocks
    BY <1>12, QuietStep DEF GateBlocks, AskGate, Continue
  <1>13. CASE GatePasses
    BY <1>13, GatePassesStalls
  <1>14. CASE UNCHANGED vars
    BY <1>14, QuietStep DEF vars, StallInv, Touched, Done, Fixed, Pending
  <1> QED BY <1>1, <1>2, <1>3, <1>4, <1>5, <1>6, <1>7, <1>8, <1>9, <1>10, <1>11, <1>12,
             <1>13, <1>14 DEF Next, AgentStep, TextReply, ToolCallReply

(* The two continuation rules compare keys of different shapes, so one may    *)
(* follow the other; still, whatever the model does to its todo list, nobody  *)
(* is asked to go on a third time in a row with nothing moved: index.js       *)
(* 2889-2967.                                                                 *)
THEOREM StallsAlwaysBounded == Spec => []StallsBounded
  <1>1. Init => TypeInv /\ StallInv
    <2> SUFFICES ASSUME Init PROVE TypeInv /\ StallInv
      OBVIOUS
    <2>1. TypeOK /\ StreakEnds
      BY InitType DEF Init, StreakEnds, NoRecovery, MaxInvalidStreak
    <2>2. todo.accepts # "any" => todo.size > 0
      BY DEF Init, EarlierTodos, NoTodo
    <2>3. stall.run <= 2 /\ stall.at = <<>>
      BY DEF Init
    <2> QED BY <2>1, <2>2, <2>3 DEF StallInv, TypeInv
  <1>2. TypeInv /\ StallInv /\ [Next]_vars => TypeInv' /\ StallInv'
    BY NextType, StallStep
  <1>3. StallInv => StallsBounded
    BY DEF StallInv, StallsBounded
  <1> QED BY <1>1, <1>2, <1>3, PTL DEF Spec

===============================================================================
