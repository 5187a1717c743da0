----------------------------- MODULE TurnContract -----------------------------
(***************************************************************************)
(* What one turn of the agent promises whoever started it: at most         *)
(* MaxIterations calls to the model, exactly one outcome, and an end -     *)
(* except while it is waiting for an answer only the user can give.        *)
(* AgentTurn implements this specification.                                *)
(***************************************************************************)
EXTENDS Naturals

CONSTANT MaxIterations   \* a positive number (TurnAssumption of AgentTurn)

VARIABLES status,   \* "idle", "running", "waiting", or how the turn ended
          budget    \* model calls left

vars == <<status, budget>>

Ended == {"completed", "failed", "cancelled"}

TypeOK == /\ status \in {"idle", "running", "waiting"} \cup Ended
          /\ budget \in 0..MaxIterations

Init == status = "idle" /\ budget = MaxIterations

Start == status = "idle" /\ status' = "running" /\ UNCHANGED budget

CallModel == /\ status = "running" /\ budget > 0
             /\ budget' = budget - 1 /\ UNCHANGED status

AskUser == status = "running" /\ status' = "waiting" /\ UNCHANGED budget

UserAnswers == status = "waiting" /\ status' = "running" /\ UNCHANGED budget

(* A call that is made and fails at once ends the turn in the same step.    *)
End == /\ status = "running"
       /\ status' \in Ended
       /\ budget' \in {budget, budget - 1} \cap Nat

Next == Start \/ CallModel \/ AskUser \/ UserAnswers \/ End

(* The turn is obliged to end; the user is not obliged to answer.           *)
Spec == Init /\ [][Next]_vars /\ WF_vars(End)

===============================================================================
