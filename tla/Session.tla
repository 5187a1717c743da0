-------------------------------- MODULE Session --------------------------------
(* The interactive session (app/native-ui.js): the requests the user types,   *)
(* the turns run for them, the turns the session starts by itself (auto-resume *)
(* and the steps of a /loop), the stall watchdog, the keys that stop a turn,  *)
(* the commands that change the agent or the conversation, and the files the  *)
(* conversations are saved in.                                                *)
(*                                                                            *)
(* One action is one macrotask: what an event handler does, what runAgent     *)
(* does after it and the save are one step; setImmediate is a queue.          *)
EXTENDS Naturals, Sequences, FiniteSets

CONSTANTS
    Steps,          \* the number of steps of a /loop plan
    MaxResumes,     \* MAX_AUTO_RESUMES
    PlanMode,       \* tui.mode is "plan"
    Outcomes,       \* how a completed turn may look
    MaxRequests,    \* bound: prompts and loops the user starts
    MaxCommands,    \* bound: /use, /new, /resume and /loop stop together
    MaxTurns        \* bound: turns alive at once

Texts == {"done", "announced", "unfinished", "plain"}

ASSUME SessionAssumption ==
    /\ Steps \in Nat \ {0} /\ MaxResumes \in Nat \ {0} /\ PlanMode \in BOOLEAN
    /\ Outcomes \subseteq [text : Texts, tools : BOOLEAN]
    /\ MaxRequests \in Nat /\ MaxCommands \in Nat /\ MaxTurns \in Nat \ {0}

VARIABLES
    isRunning,  \* tui.isRunning
    turns,      \* the calls of runAgent that have not returned, by slot
    immediate,  \* the turns handed to setImmediate
    pending,    \* pendingAutoResume: the request to go on with, 0 for null
    resumes,    \* autoResumeCount
    lastTurn,   \* lastResumeSignature
    loop,       \* loopRuntime
    limit,      \* whose tool-call cap the agent has: the user's or a loop's
    before,     \* loopToolCallLimitBefore, or none
    stats,      \* turnStats is set
    checkpoint, \* the request the open checkpoint belongs to
    question,   \* tui.askUser is set
    agent,      \* which Agent object is in use
    known,      \* the requests in agent.messages
    session,    \* which session is current
    files,      \* the requests in the file of each session
    requests,   \* history: how many requests the user made
    commands,   \* history: how many commands the user gave
    stopped,    \* history: requests one of whose turns was cancelled or failed
    crossed     \* history: what a turn began in spite of

uiVars == <<isRunning, stats, checkpoint, question>>
resumeVars == <<pending, resumes, lastTurn>>
loopVars == <<loop, limit, before>>
talkVars == <<agent, known, session, files>>
userVars == <<requests, commands>>
vars == <<isRunning, turns, immediate, pending, resumes, lastTurn, loop, limit, before,
          stats, checkpoint, question, agent, known, session, files,
          requests, commands, stopped, crossed>>

-------------------------------------------------------------------------------
Slots == 1..MaxTurns
Requests == 1..MaxRequests
Sessions == 1..(MaxCommands + 1)
Agents == 1..(MaxCommands + 1)

NoTurn == [at |-> "over", for |-> 0, goesOn |-> FALSE, agent |-> 0,
           holds |-> FALSE, cut |-> FALSE]
NoLoop == [active |-> FALSE, queue |-> <<>>, index |-> 0, for |-> 0]
NoOutcome == [text |-> "none", tools |-> FALSE]

Alive(t) == turns[t].at # "over"
Free == {t \in Slots : ~Alive(t)}

Init ==
    /\ isRunning = FALSE /\ turns = [t \in Slots |-> NoTurn] /\ immediate = <<>>
    /\ pending = 0 /\ resumes = 0 /\ lastTurn = NoOutcome
    /\ loop = NoLoop /\ limit = "user" /\ before = "none"
    /\ stats = FALSE /\ checkpoint = 0 /\ question = FALSE
    /\ agent = 1 /\ known = {} /\ session = 1 /\ files = [s \in Sessions |-> {}]
    /\ requests = 0 /\ commands = 0 /\ stopped = {} /\ crossed = {}

-------------------------------------------------------------------------------
(* runAgent, up to its first await.                                           *)

(* A continuation writes into the checkpoint of the request it goes on with,  *)
(* unless the card of that request was already shown.                         *)
Opens_Always(goesOn) == TRUE
Opens(goesOn) == ~goesOn \/ ~stats

(* What the code does not keep from crossing: a turn that is not over when    *)
(* another begins, a resume that waits, a loop that is not at its end.        *)
Crossings == {"turn", "resume", "loop"}

RunAgent(for, goesOn) ==
    IF isRunning
      THEN UNCHANGED <<isRunning, turns, stats, checkpoint, crossed>>
      ELSE \E t \in Free :
        /\ \A u \in Free : t <= u
        /\ turns' = [turns EXCEPT ![t] = [at |-> "starts", for |-> for, goesOn |-> goesOn,
                                          agent |-> agent, holds |-> FALSE, cut |-> FALSE]]
        /\ isRunning' = TRUE
        /\ IF Opens(goesOn)
             THEN stats' = TRUE /\ checkpoint' = (IF goesOn THEN 0 ELSE for)
             ELSE UNCHANGED <<stats, checkpoint>>
        /\ crossed' = crossed \cup
             {c \in Crossings :
                \/ c = "turn" /\ \E u \in Slots : Alive(u)
                \/ c = "resume" /\ ~goesOn /\ (pending' # 0 \/ immediate' # <<>>)
                \/ c = "loop" /\ loop.active /\ loop.for # for}

(* A prompt. It takes the automatic turns' budget back to the full and drops  *)
(* what was to be resumed, also when a turn is running and it is itself       *)
(* dropped. While a question is on screen the keys belong to the question.    *)
Prompt ==
    /\ ~question /\ requests < MaxRequests
    /\ requests' = requests + 1
    /\ resumes' = 0 /\ pending' = 0 /\ lastTurn' = NoOutcome
    /\ UNCHANGED <<immediate, loopVars, question, talkVars, commands, stopped>>
    /\ RunAgent(requests', FALSE)

(* setImmediate fires.                                                        *)
RunImmediate ==
    /\ immediate # <<>>
    /\ immediate' = Tail(immediate)
    /\ UNCHANGED <<resumeVars, loopVars, question, talkVars, userVars, stopped>>
    /\ RunAgent(Head(immediate).for, Head(immediate).goesOn)

Later(for, goesOn) == immediate' = Append(immediate, [for |-> for, goesOn |-> goesOn])

-------------------------------------------------------------------------------
(* /loop. The plan is queued whole and its first step is also sent at once:   *)
(* the first advance takes the first step again.                              *)

RaiseLimit_Again == before' = limit /\ limit' = "loop"

(* The cap is raised unless it already is.                                    *)
RaiseLimit ==
    IF before = "none" THEN before' = limit /\ limit' = "loop"
                       ELSE UNCHANGED <<limit, before>>

StartLoop ==
    /\ ~question /\ ~isRunning /\ requests < MaxRequests
    /\ requests' = requests + 1
    /\ RaiseLimit
    /\ loop' = [active |-> TRUE, queue |-> [n \in 1..Steps |-> n], index |-> 0,
                for |-> requests']
    /\ Later(requests', FALSE)
    /\ UNCHANGED <<isRunning, turns, resumeVars, stats, checkpoint, question, talkVars,
                   commands, stopped, crossed>>

(* restoreLoopToolCallLimit: what the cap was before, on the agent in use.    *)
RestoreLimit ==
    /\ limit' = IF before = "none" THEN limit ELSE before
    /\ before' = "none"

(* stopLoopRuntime.                                                           *)
Halted_No == loop
Halted == [loop EXCEPT !.active = FALSE, !.queue = <<>>]

StopLoop ==
    /\ ~question /\ commands < MaxCommands
    /\ commands' = commands + 1
    /\ loop.active \/ before # "none"
    /\ loop' = Halted /\ RestoreLimit
    /\ UNCHANGED <<isRunning, turns, immediate, resumeVars, stats, checkpoint, question,
                   talkVars, requests, stopped, crossed>>

(* advanceLoopRuntime.                                                        *)
Advanced ==
    IF loop.queue = <<>>
      THEN [loop EXCEPT !.active = FALSE, !.index = loop.index + 1]
      ELSE [loop EXCEPT !.queue = Tail(loop.queue), !.index = loop.index + 1]

-------------------------------------------------------------------------------
(* Agent.run, as far as the session sees it.                                  *)

(* After the skills are loaded: the turn before it on this agent is aborted,  *)
(* this one can be, and the prompt is in the conversation.                    *)
GoLive_NoAbort(t) ==
    /\ turns[t].at = "starts"
    /\ turns' = [turns EXCEPT ![t].at = "works", ![t].holds = TRUE]
    /\ known' = IF turns[t].agent = agent THEN known \cup {turns[t].for} ELSE known
    /\ UNCHANGED <<uiVars, immediate, resumeVars, loopVars, agent, session, files,
                   userVars, stopped, crossed>>

GoLive(t) ==
    /\ turns[t].at = "starts"
    /\ turns' = [u \in Slots |->
         IF u = t THEN [turns[t] EXCEPT !.at = "works", !.holds = TRUE]
         ELSE IF turns[u].agent = turns[t].agent /\ turns[u].holds
                THEN [turns[u] EXCEPT !.cut = TRUE, !.holds = FALSE]
                ELSE turns[u]]
    /\ known' = IF turns[t].agent = agent THEN known \cup {turns[t].for} ELSE known
    /\ UNCHANGED <<uiVars, immediate, resumeVars, loopVars, agent, session, files,
                   userVars, stopped, crossed>>

(* A tool asks the user. A second question replaces the first on screen; one  *)
(* whose tool ran into its timer stays.                                       *)
Ask(t) ==
    /\ turns[t].at = "works"
    /\ ~question
    /\ question' = TRUE
    /\ UNCHANGED <<isRunning, stats, checkpoint, turns, immediate, resumeVars, loopVars,
                   talkVars, userVars, stopped, crossed>>

(* Answered, or dismissed with Esc or Ctrl-C.                                 *)
AnswerQuestion ==
    /\ question
    /\ question' = FALSE
    /\ UNCHANGED <<isRunning, stats, checkpoint, turns, immediate, resumeVars, loopVars,
                   talkVars, userVars, stopped, crossed>>

(* announcementStall and autoContinueExhausted: the turn is about to give up  *)
(* with work left. The first may still be followed by a retry of the gate.    *)
GivesUp_NoCap(t) ==
    /\ turns[t].at = "works"
    /\ resumes' = resumes + 1
    /\ pending' = turns[t].for
    /\ UNCHANGED <<uiVars, turns, immediate, lastTurn, loopVars, talkVars, userVars,
                   stopped, crossed>>

GivesUp(t) ==
    /\ turns[t].at = "works"
    /\ resumes < MaxResumes
    /\ resumes' = resumes + 1
    /\ pending' = turns[t].for
    /\ UNCHANGED <<uiVars, turns, immediate, lastTurn, loopVars, talkVars, userVars,
                   stopped, crossed>>

-------------------------------------------------------------------------------
(* The end of a turn: the event, what is left of runAgent, and the save.      *)

(* A session that holds no prompt is not written.                             *)
Saved == IF known = {} THEN files ELSE [files EXCEPT ![session] = known]
Over(t) == turns' = [turns EXCEPT ![t] = NoTurn]

Ends(t) ==
    /\ turns[t].at = "works"
    /\ Over(t)
    /\ isRunning' = FALSE
    /\ files' = Saved
    /\ UNCHANGED <<question, checkpoint, agent, known, session, userVars, crossed>>

(* autoResumeDecision. The open steps it asks for are counted after the panel *)
(* that holds them was emptied: there are none.                               *)
Resumes(o) ==
    LET says == o.text \in {"announced", "unfinished"} IN
    /\ resumes < MaxResumes
    /\ o.text # "done"
    /\ o.tools \/ says
    /\ lastTurn = o => o.tools
    /\ PlanMode => says

(* 'complete'.                                                                *)
Spent_Free == resumes
Spent == resumes + 1

CompletesPending(t) ==
    /\ pending # 0
    /\ pending' = 0
    /\ Later(pending, TRUE)
    /\ UNCHANGED <<resumes, lastTurn, loopVars, stats>>

CompletesResumed(t, o) ==
    /\ pending = 0 /\ Resumes(o)
    /\ resumes' = Spent /\ lastTurn' = o
    /\ Later(turns[t].for, TRUE)
    /\ UNCHANGED <<pending, loopVars, stats>>

CompletesStep(t, o) ==
    /\ pending = 0 /\ ~Resumes(o) /\ loop.active
    /\ loop' = Advanced
    /\ IF loop.queue # <<>>
         THEN Later(loop.for, TRUE) /\ UNCHANGED <<limit, before, stats>>
         ELSE RestoreLimit /\ stats' = FALSE /\ UNCHANGED immediate
    /\ UNCHANGED resumeVars

CompletesRequest(t, o) ==
    /\ pending = 0 /\ ~Resumes(o) /\ ~loop.active
    /\ stats' = FALSE
    /\ UNCHANGED <<immediate, resumeVars, loopVars>>

(* Also for a turn that was cut and did not see it.                           *)
Completes(t) ==
    /\ Ends(t)
    /\ \/ CompletesPending(t)
       \/ \E o \in Outcomes :
            CompletesResumed(t, o) \/ CompletesStep(t, o) \/ CompletesRequest(t, o)
    /\ UNCHANGED stopped

(* 'cancelled' and 'error'. What was to be resumed stays.                     *)
Breaks(t) ==
    /\ Ends(t)
    /\ loop' = Halted /\ RestoreLimit
    /\ stats' = FALSE
    /\ stopped' = stopped \cup {turns[t].for}
    /\ UNCHANGED <<immediate, resumeVars>>

(* An exception in the part of run() before its try, which a continuation     *)
(* does not enter: no event at all.                                           *)
Rejects_NoFinally(t) ==
    /\ turns[t].at = "works" /\ ~turns[t].goesOn
    /\ Over(t)
    /\ UNCHANGED <<uiVars, immediate, resumeVars, loopVars, talkVars, userVars, stopped, crossed>>

Rejects(t) ==
    /\ ~turns[t].goesOn
    /\ Ends(t)
    /\ UNCHANGED <<immediate, resumeVars, loopVars, stats, stopped>>

-------------------------------------------------------------------------------
(* Keys, timers and commands.                                                 *)

(* agent.cancel().                                                            *)
CancelRun ==
    turns' = [t \in Slots |-> IF turns[t].agent = agent /\ turns[t].holds
                                THEN [turns[t] EXCEPT !.cut = TRUE] ELSE turns[t]]

(* Esc or Ctrl-C. Nothing to abort while the turn still starts.               *)
Cancel ==
    /\ ~question /\ isRunning
    /\ CancelRun /\ turns' # turns
    /\ UNCHANGED <<uiVars, immediate, resumeVars, loopVars, talkVars, userVars, stopped, crossed>>

(* The stall watchdog: the screen is free at once, whether or not the turn    *)
(* notices.                                                                   *)
Watchdog ==
    /\ isRunning /\ ~question
    /\ CancelRun
    /\ isRunning' = FALSE
    /\ UNCHANGED <<stats, checkpoint, question, immediate, resumeVars, loopVars, talkVars,
                   userVars, stopped, crossed>>

(* /use, /connect, /plugins: rebuildAgent makes an agent that knows nothing.  *)
UseModel ==
    /\ ~question /\ commands < MaxCommands
    /\ commands' = commands + 1
    /\ agent' = agent + 1 /\ known' = {} /\ limit' = "user"
    /\ UNCHANGED <<uiVars, turns, immediate, resumeVars, loop, before, session, files,
                   requests, stopped, crossed>>

NewSession_Keeps ==
    /\ ~question /\ commands < MaxCommands
    /\ commands' = commands + 1
    /\ session' = commands' + 1
    /\ UNCHANGED <<uiVars, turns, immediate, resumeVars, loopVars, agent, known, files,
                   requests, stopped, crossed>>

NewSession ==
    /\ ~question /\ commands < MaxCommands
    /\ commands' = commands + 1
    /\ session' = commands' + 1 /\ known' = {}
    /\ UNCHANGED <<uiVars, turns, immediate, resumeVars, loopVars, agent, files,
                   requests, stopped, crossed>>

ResumeSession(s) ==
    /\ ~question /\ commands < MaxCommands
    /\ files[s] # {}
    /\ commands' = commands + 1
    /\ session' = s /\ known' = files[s]
    /\ UNCHANGED <<uiVars, turns, immediate, resumeVars, loopVars, agent, files,
                   requests, stopped, crossed>>

Next ==
    \/ Prompt \/ RunImmediate
    \/ StartLoop \/ StopLoop
    \/ AnswerQuestion \/ Cancel \/ Watchdog
    \/ UseModel \/ NewSession \/ \E s \in Sessions : ResumeSession(s)
    \/ \E t \in Slots :
         GoLive(t) \/ Ask(t) \/ GivesUp(t) \/ Completes(t) \/ Breaks(t) \/ Rejects(t)

(* The event loop runs what is due; loading the skills ends; a turn ends by   *)
(* itself or the watchdog sees that nothing happens.                          *)
Fairness ==
    /\ WF_vars(RunImmediate)
    /\ \A t \in Slots : WF_vars(GoLive(t))
    /\ WF_vars(Watchdog \/ \E t \in Slots : Completes(t) \/ Breaks(t) \/ Rejects(t))

Spec == Init /\ [][Next]_vars /\ Fairness

-------------------------------------------------------------------------------
(* Properties.                                                                *)

(* Every variable has its type.                                               *)
TypeOK ==
    /\ isRunning \in BOOLEAN /\ stats \in BOOLEAN /\ question \in BOOLEAN
    /\ turns \in [Slots -> [at : {"starts", "works", "over"}, for : 0..MaxRequests,
                            goesOn : BOOLEAN, agent : 0..(MaxCommands + 1),
                            holds : BOOLEAN, cut : BOOLEAN]]
    /\ immediate \in Seq([for : Requests, goesOn : BOOLEAN])
    /\ pending \in 0..MaxRequests /\ checkpoint \in 0..MaxRequests
    /\ resumes \in 0..MaxResumes
    /\ lastTurn \in Outcomes \cup {NoOutcome}
    /\ loop.active \in BOOLEAN /\ loop.queue \in Seq(1..Steps)
    /\ loop.index \in 0..(Steps + 1) /\ loop.for \in 0..MaxRequests
    /\ limit \in {"user", "loop"} /\ before \in {"none", "user", "loop"}
    /\ agent \in Agents /\ session \in Sessions
    /\ known \subseteq Requests /\ files \in [Sessions -> SUBSET Requests]
    /\ requests \in 0..MaxRequests /\ commands \in 0..MaxCommands
    /\ stopped \subseteq Requests /\ crossed \subseteq Crossings

(* The screen never outlives the turn: whatever a turn did or did not emit,   *)
(* when no turn is left a prompt can be sent (runAgent's finally).            *)
ScreenFollowsTurn == isRunning => \E t \in Slots : Alive(t)

(* Of the turns of one agent that write the same conversation, at most one    *)
(* was not told to stop, however a turn the watchdog gave up and the prompt   *)
(* sent after it overlap (run() aborts the previous controller).              *)
OneTurnPerAgent ==
    \A t, u \in Slots :
        (/\ turns[t].at = "works" /\ turns[u].at = "works"
         /\ turns[t].agent = turns[u].agent /\ ~turns[t].cut /\ ~turns[u].cut)
        => t = u

(* Once no loop is active the user's own cap on tool calls is back, whatever  *)
(* ended the loop, a second /loop over the first and a /use included.         *)
LimitIsRestored == ~loop.active => limit = "user"

(* When no turn is left, all the agent knows is in the file of the current    *)
(* session: after a cancel, an error, /new, /use and /resume, also when they  *)
(* were given while a turn ran (the save that ends runAgent).                 *)
WhatIsKnownIsSaved ==
    (\A t \in Slots : ~Alive(t)) => known = {} \/ files[session] = known

(* One /undo takes back a request and all that ran in its name: a turn writes *)
(* into the checkpoint of the request it goes on with (native-ui.js, runAgent *)
(* and showTurnSummary), as long as nothing crossed.                          *)
OneUndoPerRequest ==
    crossed = {} => \A t \in Slots : Alive(t) => checkpoint = turns[t].for

(* What was cancelled or failed is not gone on with by itself, neither as a   *)
(* resume nor as the next step of a loop.                                     *)
NothingStoppedComesBack ==
    crossed \subseteq {"loop"} =>
        \A n \in DOMAIN immediate : immediate[n].for \notin stopped

(* Left alone, the session comes to rest: automatic turns run out, a turn     *)
(* that hangs is given up, and only a question may keep the screen.           *)
ComesToRest == <>[](isRunning => question)

(* "Every turn already writes the conversation" and "leaving the current      *)
(* conversation saved": no save takes a request out of a session's file.      *)
SavedConversationKept ==
    [][\A s \in Sessions : files[s] \subseteq files'[s]]_files
===============================================================================
