---------------------------- MODULE Session_proofs ----------------------------
(* Proofs about Session: its types, and that the screen, the tool-call cap,  *)
(* the conversation and its file, the checkpoint and the automatic turns     *)
(* stay together, for every number of requests, commands, steps and          *)
(* overlapping turns.                                                        *)
EXTENDS Session, SequenceTheorems, TLAPS

Turn == [at : {"starts", "works", "over"}, for : 0..MaxRequests, goesOn : BOOLEAN,
         agent : 0..(MaxCommands + 1), holds : BOOLEAN, cut : BOOLEAN]
Due == [for : Requests, goesOn : BOOLEAN]
Loops == [active : BOOLEAN, queue : Seq(1..Steps), index : 0..(Steps + 1),
          for : 0..MaxRequests]

UiOK ==
    /\ isRunning \in BOOLEAN /\ stats \in BOOLEAN /\ question \in BOOLEAN
    /\ checkpoint \in 0..MaxRequests
TurnsOK ==
    /\ turns \in [Slots -> Turn]
    /\ \A t \in Slots : Alive(t) => turns[t].for \in 1..requests
QueueOK ==
    /\ immediate \in Seq(Due)
    /\ \A n \in 1..Len(immediate) : immediate[n].for <= requests
    /\ pending \in 0..requests
    /\ resumes \in 0..MaxResumes
    /\ lastTurn \in Outcomes \cup {NoOutcome}
(* The steps a loop has done and those it has left add up to its plan.       *)
LoopOK ==
    /\ loop \in Loops
    /\ loop.active => loop.for \in 1..requests /\ loop.index + Len(loop.queue) = Steps
    /\ limit \in {"user", "loop"} /\ before \in {"none", "user", "loop"}
TalkOK ==
    /\ agent \in Agents /\ agent <= commands + 1 /\ session \in Sessions
    /\ known \subseteq Requests /\ files \in [Sessions -> SUBSET Requests]
UserOK ==
    /\ requests \in 0..MaxRequests /\ commands \in 0..MaxCommands
    /\ stopped \subseteq 1..requests /\ crossed \subseteq Crossings

TypeInv == UiOK /\ TurnsOK /\ QueueOK /\ LoopOK /\ TalkOK /\ UserOK

(* Who wrote the cap down gives it back.                                     *)
LimitInv ==
    /\ before = "none" => limit = "user"
    /\ before # "loop"
    /\ ~loop.active => before = "none"

(* A turn that works and was not cut is the one its agent can abort.         *)
HoldsInv ==
    /\ \A t \in Slots : turns[t].at = "works" /\ ~turns[t].cut => turns[t].holds
    /\ \A t, u \in Slots :
         (Alive(t) /\ Alive(u) /\ turns[t].holds /\ turns[u].holds
            /\ turns[t].agent = turns[u].agent) => t = u

-------------------------------------------------------------------------------
(* While no turn crossed another and none began over a waiting resume. A     *)
(* loop's first step may wait together with a continuation, behind it or     *)
(* before it: whichever comes first decides.                                 *)
Orderly == crossed \subseteq {"loop"}

GoesOn(n) == immediate[n].goesOn

(* At most one turn is alive, at most one continuation waits, never both;    *)
(* and while one waits nothing else is to be resumed.                        *)
OneAtATime ==
    /\ \A t, u \in Slots : Alive(t) /\ Alive(u) => t = u
    /\ \A m, n \in 1..Len(immediate) : GoesOn(m) /\ GoesOn(n) => m = n
    /\ \A n \in 1..Len(immediate) : GoesOn(n) => pending = 0 /\ \A t \in Slots : ~Alive(t)
    /\ \A t \in Slots : Alive(t) /\ pending # 0 => pending = turns[t].for

(* What was stopped is not what runs, is looped over, or waits.              *)
NothingStopped ==
    /\ \A t \in Slots : Alive(t) => turns[t].for \notin stopped
    /\ loop.active => loop.for \notin stopped
    /\ \A n \in 1..Len(immediate) : immediate[n].for \notin stopped
    /\ \A t \in Slots, n \in 1..Len(immediate) : Alive(t) => immediate[n].for # turns[t].for
    /\ \A m, n \in 1..Len(immediate) :
         m < n /\ immediate[m].for = immediate[n].for => ~GoesOn(m) /\ GoesOn(n)

OrderInv == Orderly => OneAtATime /\ NothingStopped

(* A turn writes into its request's checkpoint, and so will the continuation *)
(* that is next; a loop that is not what runs has its first step waiting     *)
(* while the screen is free, so that step cannot begin without crossing.     *)
UndoInv ==
    crossed = {} =>
        /\ \A t \in Slots : Alive(t) => stats /\ checkpoint = turns[t].for
        /\ immediate # <<>> /\ GoesOn(1) => stats /\ checkpoint = immediate[1].for
        /\ \A t \in Slots :
             Alive(t) /\ loop.active /\ loop.for # turns[t].for
             => ~isRunning /\ immediate # <<>>

-------------------------------------------------------------------------------
LEMMA ConstantTypes ==
    /\ Steps \in Nat \ {0} /\ MaxResumes \in Nat \ {0}
    /\ MaxRequests \in Nat /\ MaxCommands \in Nat /\ MaxTurns \in Nat \ {0}
  BY SessionAssumption

(* What waits, with one more behind it. *)
LEMMA Appended ==
    ASSUME immediate \in Seq(Due), NEW r \in Requests, NEW g \in BOOLEAN, Later(r, g)
    PROVE  /\ immediate' \in Seq(Due) /\ immediate' # <<>>
           /\ Len(immediate) \in Nat /\ Len(immediate') = Len(immediate) + 1
           /\ \A n \in 1..Len(immediate) : immediate'[n] = immediate[n]
           /\ immediate'[Len(immediate) + 1].for = r
           /\ immediate'[Len(immediate) + 1].goesOn = g
           /\ immediate # <<>> => 1 \in 1..Len(immediate)
           /\ immediate = <<>> => Len(immediate) = 0
  <1>1. [for |-> r, goesOn |-> g] \in Due
    BY DEF Due
  <1>2. immediate' = Append(immediate, [for |-> r, goesOn |-> g])
    BY DEF Later
  <1> HIDE DEF Due
  <1> QED BY <1>1, <1>2

(* What waits, without the first. *)
LEMMA Popped ==
    ASSUME immediate \in Seq(Due), immediate # <<>>, immediate' = Tail(immediate)
    PROVE  /\ immediate' \in Seq(Due)
           /\ Len(immediate) \in Nat \ {0} /\ Len(immediate') = Len(immediate) - 1
           /\ \A n \in 1..Len(immediate') : immediate'[n] = immediate[n + 1]
           /\ Head(immediate) = immediate[1] /\ 1 \in 1..Len(immediate)
           /\ Head(immediate).for \in Requests /\ Head(immediate).goesOn \in BOOLEAN
           /\ immediate' = <<>> <=> Len(immediate') = 0
  <1>1. Head(immediate) \in Due
    OBVIOUS
  <1>2. Head(immediate).for \in Requests /\ Head(immediate).goesOn \in BOOLEAN
    BY <1>1 DEF Due
  <1> HIDE DEF Due
  <1>3. Len(immediate) \in Nat \ {0} /\ 1 \in 1..Len(immediate)
    BY EmptySeq
  <1>4. Head(immediate) = immediate[1]
    OBVIOUS
  <1>5. /\ immediate' \in Seq(Due) /\ Len(immediate') = Len(immediate) - 1
        /\ \A n \in 1..Len(immediate') : immediate'[n] = immediate[n + 1]
    BY HeadTailProperties
  <1>6. immediate' = <<>> <=> Len(immediate') = 0
    BY <1>5, EmptySeq
  <1> QED BY <1>2, <1>3, <1>4, <1>5, <1>6

LEMMA Waiting ==
    ASSUME QueueOK
    PROVE  /\ immediate \in Seq(Due) /\ Len(immediate) \in Nat
           /\ \A n \in 1..Len(immediate) : /\ immediate[n].for \in Requests
                                           /\ immediate[n].goesOn \in BOOLEAN
  <1>1. immediate \in Seq(Due)
    BY DEF QueueOK
  <1>2. \A n \in 1..Len(immediate) : immediate[n] \in Due
    BY <1>1, ElementOfSeq
  <1> QED BY <1>1, <1>2, LenProperties DEF Due

(* A turn begins, or the screen is taken and nothing happens. *)
LEMMA RunAgentType ==
    ASSUME UiOK, TurnsOK, agent \in Agents, crossed \subseteq Crossings,
           requests' \in 0..MaxRequests, requests <= requests', requests \in 0..MaxRequests,
           NEW for \in 1..requests', NEW goesOn \in BOOLEAN, RunAgent(for, goesOn)
    PROVE  /\ isRunning' \in BOOLEAN /\ stats' \in BOOLEAN /\ checkpoint' \in 0..MaxRequests
           /\ TurnsOK' /\ crossed' \subseteq Crossings
  <1> USE ConstantTypes
  <1>1. CASE isRunning
    BY <1>1 DEF RunAgent, UiOK, TurnsOK, Alive
  <1>2. CASE ~isRunning
    <2>1. PICK t \in Slots :
            turns' = [turns EXCEPT ![t] = [at |-> "starts", for |-> for, goesOn |-> goesOn,
                        agent |-> agent, holds |-> FALSE, cut |-> FALSE]]
      BY <1>2 DEF RunAgent, Free
    <2>2. agent \in 0..(MaxCommands + 1) /\ for \in 0..MaxRequests
      BY DEF Agents
    <2>3. TurnsOK'
      BY <2>1, <2>2 DEF TurnsOK, Alive, Turn
    <2>4. isRunning' \in BOOLEAN /\ stats' \in BOOLEAN /\ checkpoint' \in 0..MaxRequests
      <3>1. CASE Opens(goesOn)
        <4>1. isRunning' = TRUE /\ stats' = TRUE /\ checkpoint' = (IF goesOn THEN 0 ELSE for)
          BY <1>2, <3>1, Zenon DEF RunAgent
        <4> QED BY <2>2, <4>1
      <3>2. CASE ~Opens(goesOn)
        BY <1>2, <3>2 DEF RunAgent, UiOK
      <3> QED BY <3>1, <3>2
    <2>5. crossed' \subseteq Crossings
      BY <1>2 DEF RunAgent
    <2> QED BY <2>3, <2>4, <2>5
  <1> QED BY <1>1, <1>2 DEF UiOK

LEMMA PromptType == TypeInv /\ Prompt => TypeInv'
  <1> SUFFICES ASSUME TypeInv, Prompt PROVE TypeInv'
    OBVIOUS
  <1> USE ConstantTypes DEF TypeInv
  <1>1. requests' = requests + 1 /\ requests' \in 0..MaxRequests /\ requests \in 0..MaxRequests
    BY DEF Prompt, UserOK
  <1>2. RunAgent(requests', FALSE)
    BY DEF Prompt
  <1>3. /\ isRunning' \in BOOLEAN /\ stats' \in BOOLEAN /\ checkpoint' \in 0..MaxRequests
        /\ TurnsOK' /\ crossed' \subseteq Crossings
    <2>1. agent \in Agents /\ crossed \subseteq Crossings
      BY DEF TalkOK, UserOK
    <2>2. requests <= requests' /\ requests' \in 1..requests'
      BY <1>1
    <2> QED BY <1>1, <1>2, <2>1, <2>2, RunAgentType
  <1>4. UiOK'
    BY <1>3 DEF UiOK, Prompt
  <1>5. QueueOK'
    <2>1. \A n \in 1..Len(immediate') : immediate'[n].for <= requests'
      BY <1>1, Waiting DEF QueueOK, Prompt, Requests
    <2> QED BY <1>1, <2>1 DEF QueueOK, Prompt
  <1>6. LoopOK'
    BY <1>1 DEF LoopOK, Prompt, loopVars
  <1>7. TalkOK'
    BY DEF TalkOK, Prompt, talkVars
  <1>8. UserOK'
    BY <1>1, <1>3 DEF UserOK, Prompt
  <1> QED BY <1>3, <1>4, <1>5, <1>6, <1>7, <1>8

LEMMA RunImmediateType == TypeInv /\ RunImmediate => TypeInv'
  <1> SUFFICES ASSUME TypeInv, RunImmediate PROVE TypeInv'
    OBVIOUS
  <1> USE ConstantTypes DEF TypeInv
  <1>1. requests' = requests /\ commands' = commands /\ requests \in 0..MaxRequests
    BY DEF RunImmediate, UserOK, userVars
  <1>2. immediate # <<>> /\ immediate' = Tail(immediate) /\ immediate \in Seq(Due)
    BY DEF RunImmediate, QueueOK
  <1>3. Head(immediate).for \in 1..requests' /\ Head(immediate).goesOn \in BOOLEAN
    BY <1>1, <1>2, Popped DEF QueueOK, Requests
  <1>4. /\ isRunning' \in BOOLEAN /\ stats' \in BOOLEAN /\ checkpoint' \in 0..MaxRequests
        /\ TurnsOK' /\ crossed' \subseteq Crossings
    BY <1>1, <1>3, RunAgentType DEF RunImmediate, TalkOK, UserOK
  <1>5. UiOK'
    BY <1>4 DEF UiOK, RunImmediate
  <1>6. QueueOK'
    <2>1. \A n \in 1..Len(immediate') : immediate'[n].for <= requests'
      BY <1>1, <1>2, Popped DEF QueueOK
    <2> QED BY <1>1, <1>2, <2>1, Popped DEF QueueOK, RunImmediate, resumeVars
  <1>7. LoopOK'
    BY <1>1 DEF LoopOK, RunImmediate, loopVars
  <1>8. TalkOK' /\ UserOK'
    BY <1>1, <1>4 DEF TalkOK, UserOK, RunImmediate, talkVars
  <1> QED BY <1>4, <1>5, <1>6, <1>7, <1>8

LEMMA StartLoopType == TypeInv /\ StartLoop => TypeInv'
  <1> SUFFICES ASSUME TypeInv, StartLoop PROVE TypeInv'
    OBVIOUS
  <1> USE ConstantTypes DEF TypeInv
  <1>1. /\ requests' = requests + 1 /\ requests' \in Requests /\ requests \in 0..MaxRequests
        /\ Later(requests', FALSE)
    <2>1. Later(requests', FALSE) /\ requests' = requests + 1 /\ requests < MaxRequests
      BY DEF StartLoop
    <2>2. requests' \in Requests /\ requests \in 0..MaxRequests
      BY <2>1 DEF UserOK, Requests
    <2> QED BY <2>1, <2>2, Zenon
  <1>2. UiOK' /\ TalkOK'
    BY DEF UiOK, TalkOK, StartLoop, talkVars
  <1>3. TurnsOK' /\ UserOK'
    BY <1>1 DEF TurnsOK, UserOK, StartLoop, Alive, Requests
  <1>4. QueueOK'
    <2>1. immediate \in Seq(Due) /\ \A n \in 1..Len(immediate) : immediate[n].for <= requests
      BY DEF QueueOK
    <2>2. /\ immediate' \in Seq(Due) /\ Len(immediate) \in Nat
          /\ Len(immediate') = Len(immediate) + 1
          /\ \A n \in 1..Len(immediate) : immediate'[n] = immediate[n]
          /\ immediate'[Len(immediate) + 1].for = requests'
      BY <1>1, <2>1, Appended
    <2>3. \A n \in 1..Len(immediate) : immediate[n].for \in Requests
      BY Waiting
    <2>4. \A n \in 1..Len(immediate') : immediate'[n].for <= requests'
      BY <1>1, <2>1, <2>2, <2>3 DEF Requests
    <2> QED BY <1>1, <2>2, <2>4 DEF QueueOK, StartLoop, resumeVars
  <1>5. LoopOK'
    <2>1. limit' \in {"user", "loop"} /\ before' \in {"none", "user", "loop"}
      BY DEF LoopOK, StartLoop, RaiseLimit
    <2>2. /\ [n \in 1..Steps |-> n] \in Seq(1..Steps) /\ Len([n \in 1..Steps |-> n]) = Steps
      OBVIOUS
    <2>3. loop' = [active |-> TRUE, queue |-> [n \in 1..Steps |-> n], index |-> 0,
                   for |-> requests']
      BY DEF StartLoop
    <2> QED BY <1>1, <2>1, <2>2, <2>3 DEF LoopOK, Loops, Requests
  <1> QED BY <1>2, <1>3, <1>4, <1>5

LEMMA RestoreType ==
    ASSUME LoopOK, RestoreLimit
    PROVE  limit' \in {"user", "loop"} /\ before' = "none"
  BY DEF LoopOK, RestoreLimit

LEMMA HaltedType ==
    ASSUME LoopOK
    PROVE  Halted \in Loops /\ ~Halted.active /\ Halted.for = loop.for
  <1>1. <<>> \in Seq(1..Steps)
    BY EmptySeq
  <1> QED BY <1>1 DEF LoopOK, Halted, Loops

LEMMA AdvancedType ==
    ASSUME LoopOK, loop.active
    PROVE  /\ Advanced \in Loops /\ Advanced.for = loop.for
           /\ Advanced.active <=> loop.queue # <<>>
           /\ Advanced.active => Advanced.index + Len(Advanced.queue) = Steps
  <1> USE ConstantTypes
  <1>1. /\ loop \in Loops /\ loop.queue \in Seq(1..Steps) /\ Len(loop.queue) \in Nat
        /\ loop.index \in Nat /\ loop.index + Len(loop.queue) = Steps
    BY DEF LoopOK, Loops
  <1>2. CASE loop.queue = <<>>
    <2>1. loop.index + 1 \in 0..(Steps + 1)
      BY <1>1, <1>2
    <2>2. Advanced = [loop EXCEPT !.active = FALSE, !.index = loop.index + 1]
      BY <1>2 DEF Advanced
    <2> QED BY <1>1, <1>2, <2>1, <2>2 DEF Loops
  <1>3. CASE loop.queue # <<>>
    <2>1. Tail(loop.queue) \in Seq(1..Steps) /\ Len(Tail(loop.queue)) = Len(loop.queue) - 1
      BY <1>1, <1>3, HeadTailProperties
    <2>2. loop.index + 1 \in 0..(Steps + 1)
      BY <1>1, <2>1
    <2>3. Advanced = [loop EXCEPT !.queue = Tail(loop.queue), !.index = loop.index + 1]
      BY <1>3 DEF Advanced
    <2>4. /\ Advanced.queue = Tail(loop.queue) /\ Advanced.index = loop.index + 1
          /\ Advanced.active = TRUE /\ Advanced.for = loop.for
      <3>1. loop.active = TRUE
        BY <1>1 DEF Loops
      <3> QED BY <1>1, <2>3, <3>1 DEF Loops
    <2>5. Advanced \in Loops
      BY <1>1, <2>1, <2>2, <2>3 DEF Loops
    <2> QED BY <1>1, <1>3, <2>1, <2>4, <2>5
  <1> QED BY <1>2, <1>3

LEMMA StopLoopType == TypeInv /\ StopLoop => TypeInv'
  <1> SUFFICES ASSUME TypeInv, StopLoop PROVE TypeInv'
    OBVIOUS
  <1> USE ConstantTypes DEF TypeInv
  <1>1. UiOK' /\ TurnsOK'
    BY DEF UiOK, TurnsOK, StopLoop, Alive
  <1>2. QueueOK' /\ UserOK'
    BY DEF QueueOK, UserOK, StopLoop, resumeVars
  <1>3. TalkOK'
    BY DEF TalkOK, StopLoop, talkVars, UserOK, Agents
  <1>4. LoopOK'
    BY HaltedType, RestoreType DEF LoopOK, StopLoop
  <1> QED BY <1>1, <1>2, <1>3, <1>4

(* Steps that leave what waits, what is over and the loop as they are. *)
LEMMA QuietType ==
    ASSUME TypeInv,
           TurnsOK', TalkOK', UserOK', requests' = requests,
           isRunning' \in BOOLEAN, question' \in BOOLEAN,
           stats' = stats, checkpoint' = checkpoint,
           immediate' = immediate, lastTurn' = lastTurn, loop' = loop,
           limit' \in {"user", "loop"}, before' = before,
           pending' \in 0..requests, resumes' \in 0..MaxResumes
    PROVE  TypeInv'
  BY DEF TypeInv, UiOK, QueueOK, LoopOK

LEMMA TurnQuietType ==
    ASSUME TypeInv, NEW t \in Slots, GoLive(t) \/ Ask(t) \/ GivesUp(t)
    PROVE  TypeInv'
  <1> USE ConstantTypes DEF TypeInv
  <1>1. CASE GoLive(t)
    <2>1. TurnsOK'
      <3>1. \A u \in Slots : turns'[u] \in Turn
        BY <1>1 DEF GoLive, TurnsOK, Turn
      <3>2. turns' \in [Slots -> Turn]
        BY <1>1, <3>1 DEF GoLive
      <3>3. \A u \in Slots : turns'[u].for = turns[u].for /\ (turns'[u].at # "over" => turns[u].at # "over")
        BY <1>1 DEF GoLive, TurnsOK, Turn
      <3> QED BY <1>1, <3>2, <3>3 DEF GoLive, TurnsOK, Alive, userVars
    <2>2. known' \subseteq Requests
      <3>1. turns[t].for \in Requests
        <4>1. turns[t].at = "starts" /\ requests \in 0..MaxRequests
          BY <1>1 DEF GoLive, UserOK
        <4> QED BY <4>1 DEF TurnsOK, Alive, Requests
      <3> QED BY <1>1, <3>1 DEF GoLive, TalkOK
    <2>3. TalkOK' /\ UserOK'
      BY <1>1, <2>2 DEF GoLive, TalkOK, UserOK, userVars
    <2> QED BY <1>1, <2>1, <2>3, QuietType
            DEF GoLive, uiVars, resumeVars, loopVars, userVars, UiOK, QueueOK, LoopOK
  <1>2. CASE Ask(t)
    <2>1. TurnsOK' /\ TalkOK' /\ UserOK'
      BY <1>2 DEF Ask, TurnsOK, TalkOK, UserOK, Alive, talkVars, userVars
    <2> QED BY <1>2, <2>1, QuietType
            DEF Ask, resumeVars, loopVars, userVars, UiOK, QueueOK, LoopOK
  <1>3. CASE GivesUp(t)
    <2>1. TurnsOK' /\ TalkOK' /\ UserOK'
      BY <1>3 DEF GivesUp, TurnsOK, TalkOK, UserOK, Alive, talkVars, userVars
    <2>2. pending' \in 0..requests
      BY <1>3 DEF GivesUp, TurnsOK, UserOK, Alive
    <2>3. resumes' \in 0..MaxResumes
      BY <1>3 DEF GivesUp, QueueOK
    <2> QED BY <1>3, <2>1, <2>2, <2>3, QuietType
            DEF GivesUp, uiVars, loopVars, userVars, UiOK, LoopOK
  <1> QED BY <1>1, <1>2, <1>3


(* The turn is over, the screen is free, the conversation is written. *)
LEMMA EndsType ==
    ASSUME TypeInv, NEW t \in Slots, Ends(t)
    PROVE  /\ isRunning' = FALSE /\ question' = question /\ checkpoint' = checkpoint
           /\ TurnsOK' /\ TalkOK' /\ turns[t].for \in 1..requests
           /\ requests' = requests /\ commands' = commands /\ crossed' = crossed
  <1> USE DEF TypeInv
  <1>1. turns' = [turns EXCEPT ![t] = NoTurn] /\ requests' = requests
    BY DEF Ends, Over, userVars
  <1>2. NoTurn \in Turn /\ NoTurn.at = "over"
    BY ConstantTypes DEF NoTurn, Turn, UserOK
  <1>3. TurnsOK'
    BY <1>1, <1>2 DEF TurnsOK, Alive
  <1>4. files' \in [Sessions -> SUBSET Requests]
    BY DEF Ends, Saved, TalkOK
  <1>5. TalkOK'
    BY <1>4 DEF Ends, TalkOK, userVars
  <1>6. turns[t].for \in 1..requests
    BY DEF Ends, TurnsOK, Alive
  <1> QED BY <1>1, <1>3, <1>5, <1>6 DEF Ends, userVars

LEMMA LaterType ==
    ASSUME QueueOK, UserOK, requests' = requests, NEW r \in 1..requests, NEW g \in BOOLEAN,
           Later(r, g)
    PROVE  /\ immediate' \in Seq(Due)
           /\ \A n \in 1..Len(immediate') : immediate'[n].for <= requests'
  <1>1. r \in Requests
    BY ConstantTypes DEF UserOK, Requests
  <1>2. /\ immediate' \in Seq(Due) /\ Len(immediate) \in Nat
        /\ Len(immediate') = Len(immediate) + 1
        /\ \A n \in 1..Len(immediate) : immediate'[n] = immediate[n]
        /\ immediate'[Len(immediate) + 1].for = r
    BY <1>1, Appended DEF QueueOK
  <1>3. \A n \in 1..Len(immediate') : immediate'[n].for <= requests'
    BY <1>2 DEF QueueOK
  <1> QED BY <1>2, <1>3

LEMMA CompletesType ==
    ASSUME TypeInv, NEW t \in Slots, Completes(t)
    PROVE  TypeInv'
  <1> USE ConstantTypes DEF TypeInv
  <1>1. Ends(t) /\ stopped' = stopped
    BY DEF Completes
  <1>2. /\ isRunning' = FALSE /\ question' = question /\ checkpoint' = checkpoint
        /\ TurnsOK' /\ TalkOK' /\ turns[t].for \in 1..requests
        /\ requests' = requests /\ commands' = commands /\ crossed' = crossed
    BY <1>1, EndsType
  <1>3. UserOK'
    BY <1>1, <1>2 DEF UserOK
  <1>4. \A r \in 1..requests : Later(r, TRUE) =>
          /\ immediate' \in Seq(Due)
          /\ \A n \in 1..Len(immediate') : immediate'[n].for <= requests'
    BY <1>2, LaterType
  <1>5. CASE CompletesPending(t)
    <2>1. /\ pending # 0 /\ Later(pending, TRUE) /\ pending' = 0
          /\ resumes' = resumes /\ lastTurn' = lastTurn
      BY <1>5 DEF CompletesPending
    <2>2. pending \in 1..requests
      BY <2>1 DEF QueueOK, UserOK
    <2>3. /\ immediate' \in Seq(Due)
          /\ \A n \in 1..Len(immediate') : immediate'[n].for <= requests'
      BY <1>4, <2>1, <2>2, Zenon
    <2>4. QueueOK'
      BY <1>2, <2>1, <2>3 DEF QueueOK, UserOK
    <2> QED BY <1>2, <1>3, <1>5, <2>4 DEF CompletesPending, UiOK, LoopOK, loopVars
  <1>6. ASSUME NEW o \in Outcomes, CompletesResumed(t, o) PROVE TypeInv'
    <2>1. resumes' \in 0..MaxResumes
      BY <1>6 DEF CompletesResumed, Resumes, Spent, QueueOK
    <2>2. Later(turns[t].for, TRUE) /\ pending' = pending /\ lastTurn' = o
      BY <1>6 DEF CompletesResumed
    <2>3. QueueOK'
      BY <1>2, <1>4, <2>1, <2>2 DEF QueueOK
    <2> QED BY <1>2, <1>3, <1>6, <2>3 DEF CompletesResumed, UiOK, LoopOK, loopVars
  <1>7. ASSUME NEW o \in Outcomes, CompletesStep(t, o) PROVE TypeInv'
    <2>1. loop.active /\ loop' = Advanced /\ loop.for \in 1..requests
      BY <1>7 DEF CompletesStep, LoopOK
    <2>2. /\ loop' \in Loops /\ loop'.for \in 1..requests'
          /\ loop'.active => loop'.index + Len(loop'.queue) = Steps
      BY <1>2, <2>1, AdvancedType
    <2>3. limit' \in {"user", "loop"} /\ before' \in {"none", "user", "loop"} /\ stats' \in BOOLEAN
      BY <1>7, RestoreType DEF CompletesStep, LoopOK, UiOK
    <2>4. QueueOK'
      <3>1. CASE loop.queue # <<>>
        BY <1>2, <1>4, <1>7, <2>1, <3>1 DEF CompletesStep, QueueOK, resumeVars
      <3>2. CASE loop.queue = <<>>
        BY <1>2, <1>7, <3>2 DEF CompletesStep, QueueOK, resumeVars
      <3> QED BY <3>1, <3>2
    <2> QED BY <1>2, <1>3, <2>2, <2>3, <2>4 DEF UiOK, LoopOK
  <1>8. ASSUME NEW o \in Outcomes, CompletesRequest(t, o) PROVE TypeInv'
    BY <1>2, <1>3, <1>8 DEF CompletesRequest, UiOK, QueueOK, LoopOK, resumeVars, loopVars
  <1> QED BY <1>5, <1>6, <1>7, <1>8 DEF Completes

LEMMA BreaksType ==
    ASSUME TypeInv, NEW t \in Slots, Breaks(t)
    PROVE  TypeInv'
  <1> USE DEF TypeInv
  <1>1. /\ Ends(t) /\ loop' = Halted /\ RestoreLimit /\ stats' = FALSE
        /\ stopped' = stopped \cup {turns[t].for}
    BY DEF Breaks
  <1>2. /\ isRunning' = FALSE /\ question' = question /\ checkpoint' = checkpoint
        /\ TurnsOK' /\ TalkOK' /\ turns[t].for \in 1..requests
        /\ requests' = requests /\ commands' = commands /\ crossed' = crossed
    BY <1>1, EndsType
  <1>3. UserOK' /\ UiOK'
    BY <1>1, <1>2 DEF UserOK, UiOK
  <1>4. QueueOK'
    BY <1>2 DEF Breaks, QueueOK, resumeVars
  <1>5. LoopOK'
    BY <1>1, HaltedType, RestoreType DEF LoopOK
  <1> QED BY <1>2, <1>3, <1>4, <1>5

LEMMA RejectsType ==
    ASSUME TypeInv, NEW t \in Slots, Rejects(t)
    PROVE  TypeInv'
  <1> USE DEF TypeInv
  <1>1. /\ isRunning' = FALSE /\ question' = question /\ checkpoint' = checkpoint
        /\ TurnsOK' /\ TalkOK'
        /\ requests' = requests /\ commands' = commands /\ crossed' = crossed
    BY EndsType DEF Rejects
  <1> QED BY <1>1 DEF Rejects, UiOK, QueueOK, LoopOK, UserOK, resumeVars, loopVars

(* Keys, the watchdog and the commands that change the agent or the session. *)
LEMMA KeysType ==
    TypeInv /\ (AnswerQuestion \/ Cancel \/ Watchdog) => TypeInv'
  <1> USE DEF TypeInv
  <1>1. TypeInv /\ CancelRun => turns' \in [Slots -> Turn] /\ \A t \in Slots :
            turns'[t].for = turns[t].for /\ turns'[t].at = turns[t].at
    BY DEF CancelRun, TurnsOK, Turn
  <1>2. ASSUME TypeInv, AnswerQuestion PROVE TypeInv'
    <2>1. UiOK' /\ TurnsOK'
      BY <1>2 DEF AnswerQuestion, UiOK, TurnsOK, Alive, userVars
    <2>2. QueueOK' /\ LoopOK'
      BY <1>2 DEF AnswerQuestion, QueueOK, LoopOK, resumeVars, loopVars, userVars
    <2>3. TalkOK' /\ UserOK'
      BY <1>2 DEF AnswerQuestion, TalkOK, UserOK, talkVars, userVars
    <2> QED BY <2>1, <2>2, <2>3
  <1>3. ASSUME TypeInv, Cancel \/ Watchdog PROVE TypeInv'
    <2>1. TurnsOK'
      BY <1>1, <1>3 DEF Cancel, Watchdog, TurnsOK, Alive, userVars
    <2>2. UiOK'
      BY <1>3 DEF Cancel, Watchdog, UiOK, uiVars
    <2> QED BY <1>3, <2>1, <2>2 DEF Cancel, Watchdog, QueueOK, LoopOK, TalkOK, UserOK,
           resumeVars, loopVars, talkVars, userVars
  <1> QED BY <1>2, <1>3

LEMMA CommandsType ==
    TypeInv /\ (UseModel \/ NewSession \/ \E s \in Sessions : ResumeSession(s)) => TypeInv'
  <1> SUFFICES ASSUME TypeInv, UseModel \/ NewSession \/ \E s \in Sessions : ResumeSession(s)
               PROVE  TypeInv'
    OBVIOUS
  <1> USE ConstantTypes DEF TypeInv
  <1>1. /\ commands' = commands + 1 /\ commands < MaxCommands /\ commands \in 0..MaxCommands
        /\ requests' = requests /\ stopped' = stopped /\ crossed' = crossed
        /\ UNCHANGED <<uiVars, turns, immediate, resumeVars, loop, before, files>>
    BY DEF UseModel, NewSession, ResumeSession, loopVars, UserOK
  <1>2. UiOK' /\ TurnsOK' /\ QueueOK' /\ UserOK'
    BY <1>1 DEF UiOK, TurnsOK, QueueOK, UserOK, uiVars, resumeVars, Alive
  <1>3. limit' \in {"user", "loop"}
    BY DEF UseModel, NewSession, ResumeSession, loopVars, LoopOK
  <1>4. LoopOK'
    BY <1>1, <1>3 DEF LoopOK
  <1>5. agent' \in Agents /\ agent' <= commands' + 1
    <2>1. agent' = agent \/ agent' = agent + 1
      BY DEF UseModel, NewSession, ResumeSession
    <2> QED BY <1>1, <2>1 DEF TalkOK, Agents
  <1>6. session' \in Sessions /\ known' \subseteq Requests
    BY <1>1 DEF UseModel, NewSession, ResumeSession, TalkOK, Sessions
  <1>7. TalkOK'
    BY <1>1, <1>5, <1>6 DEF TalkOK
  <1> QED BY <1>2, <1>4, <1>7

LEMMA TypeInit == Init => TypeInv
  <1> SUFFICES ASSUME Init PROVE TypeInv
    OBVIOUS
  <1> USE ConstantTypes DEF Init
  <1>1. UiOK
    <2>1. 0 \in 0..MaxRequests
      OBVIOUS
    <2> QED BY <2>1, Zenon DEF UiOK
  <1>6. UserOK
    BY DEF UserOK
  <1>2. TurnsOK
    BY DEF TurnsOK, Turn, NoTurn, Alive
  <1>3. QueueOK
    BY EmptySeq DEF QueueOK
  <1>4. LoopOK
    BY EmptySeq DEF LoopOK, Loops, NoLoop
  <1>5. TalkOK
    BY DEF TalkOK, Agents, Sessions
  <1> QED BY <1>1, <1>2, <1>3, <1>4, <1>5, <1>6 DEF TypeInv

LEMMA TypeStep == TypeInv /\ [Next]_vars => TypeInv'
  <1> SUFFICES ASSUME TypeInv, [Next]_vars PROVE TypeInv'
    OBVIOUS
  <1>1. CASE UNCHANGED vars
    BY <1>1 DEF vars, TypeInv, UiOK, TurnsOK, QueueOK, LoopOK, TalkOK, UserOK, Alive
  <1>2. CASE Prompt \/ RunImmediate
    BY <1>2, PromptType, RunImmediateType
  <1>3. CASE StartLoop \/ StopLoop
    BY <1>3, StartLoopType, StopLoopType
  <1>4. CASE AnswerQuestion \/ Cancel \/ Watchdog
    BY <1>4, KeysType
  <1>5. CASE UseModel \/ NewSession \/ \E s \in Sessions : ResumeSession(s)
    BY <1>5, CommandsType
  <1>6. CASE \E t \in Slots : GoLive(t) \/ Ask(t) \/ GivesUp(t)
    BY <1>6, TurnQuietType
  <1>7. CASE \E t \in Slots : Completes(t) \/ Breaks(t) \/ Rejects(t)
    BY <1>7, CompletesType, BreaksType, RejectsType
  <1> QED BY <1>1, <1>2, <1>3, <1>4, <1>5, <1>6, <1>7 DEF Next

(* Every reachable state is well typed. *)
THEOREM SessionTypeCorrect == Spec => []TypeOK
  <1>1. TypeInv => TypeOK
    <2> SUFFICES ASSUME TypeInv PROVE TypeOK
      OBVIOUS
    <2> USE ConstantTypes DEF TypeInv
    <2>1. /\ requests \in 0..MaxRequests /\ commands \in 0..MaxCommands
          /\ stopped \subseteq Requests /\ crossed \subseteq Crossings
      BY DEF UserOK, Requests
    <2>2. /\ loop.active \in BOOLEAN /\ loop.queue \in Seq(1..Steps)
          /\ loop.index \in 0..(Steps + 1) /\ loop.for \in 0..MaxRequests
          /\ limit \in {"user", "loop"} /\ before \in {"none", "user", "loop"}
      BY DEF LoopOK, Loops
    <2>3. pending \in 0..MaxRequests
      BY <2>1 DEF QueueOK
    <2>4. turns \in [Slots -> Turn] /\ immediate \in Seq(Due)
      BY DEF TurnsOK, QueueOK
    <2> QED BY <2>1, <2>2, <2>3, <2>4, Zenon DEF UiOK, QueueOK, TalkOK, TypeOK, Turn, Due
  <1> QED BY <1>1, TypeInit, TypeStep, PTL DEF Spec

-------------------------------------------------------------------------------
(* What a step does to the turns: a turn begins, one ends, or all that are   *)
(* alive go on.                                                              *)
SameTurns ==
    \A t \in Slots : /\ turns'[t].at # "over" <=> turns[t].at # "over"
                     /\ turns'[t].for = turns[t].for

BeginsAs(t, for, goesOn) ==
    /\ ~isRunning /\ turns[t].at = "over"
    /\ turns'[t].at = "starts" /\ turns'[t].for = for /\ ~turns'[t].holds
    /\ \A u \in Slots \ {t} : turns'[u] = turns[u]
    /\ crossed \subseteq crossed'
    /\ (\E u \in Slots : Alive(u)) => "turn" \in crossed'
    /\ ~goesOn /\ (pending' # 0 \/ immediate' # <<>>) => "resume" \in crossed'
    /\ loop.active /\ loop.for # for => "loop" \in crossed'
    /\ Opens(goesOn) => stats' = TRUE /\ checkpoint' = (IF goesOn THEN 0 ELSE for)
    /\ ~Opens(goesOn) => stats' = stats /\ checkpoint' = checkpoint

LEMMA Begins ==
    ASSUME TypeInv, NEW for, NEW goesOn \in BOOLEAN, RunAgent(for, goesOn), ~isRunning
    PROVE  \E t \in Slots : BeginsAs(t, for, goesOn)
  <1>1. PICK t \in Slots :
          /\ ~Alive(t)
          /\ turns' = [turns EXCEPT ![t] = [at |-> "starts", for |-> for, goesOn |-> goesOn,
                         agent |-> agent, holds |-> FALSE, cut |-> FALSE]]
    BY DEF RunAgent, Free
  <1>2. turns[t].at = "over"
    BY <1>1 DEF Alive
  <1>3. /\ turns'[t].at = "starts" /\ turns'[t].for = for /\ ~turns'[t].holds
        /\ \A u \in Slots \ {t} : turns'[u] = turns[u]
    BY <1>1 DEF TypeInv, TurnsOK
  <1>4. crossed' = crossed \cup
          {c \in Crossings :
             \/ c = "turn" /\ \E u \in Slots : Alive(u)
             \/ c = "resume" /\ ~goesOn /\ (pending' # 0 \/ immediate' # <<>>)
             \/ c = "loop" /\ loop.active /\ loop.for # for}
    BY Zenon DEF RunAgent
  <1>5. /\ crossed \subseteq crossed'
        /\ (\E u \in Slots : Alive(u)) => "turn" \in crossed'
        /\ ~goesOn /\ (pending' # 0 \/ immediate' # <<>>) => "resume" \in crossed'
        /\ loop.active /\ loop.for # for => "loop" \in crossed'
    BY <1>4 DEF Crossings
  <1>6. /\ Opens(goesOn) => stats' = TRUE /\ checkpoint' = (IF goesOn THEN 0 ELSE for)
        /\ ~Opens(goesOn) => stats' = stats /\ checkpoint' = checkpoint
    BY Zenon DEF RunAgent
  <1> QED BY <1>2, <1>3, <1>5, <1>6, Zenon DEF BeginsAs

LEMMA BeginsSome ==
    ASSUME TypeInv, Prompt \/ RunImmediate, ~isRunning
    PROVE  \E t \in Slots : /\ turns[t].at = "over" /\ turns'[t].at = "starts"
                            /\ ~turns'[t].holds
                            /\ \A u \in Slots \ {t} : turns'[u] = turns[u]
  <1>1. CASE Prompt
    <2>1. RunAgent(requests', FALSE)
      BY <1>1 DEF Prompt
    <2> QED BY <2>1, Begins DEF BeginsAs
  <1>2. CASE RunImmediate
    <2>1. RunAgent(Head(immediate).for, Head(immediate).goesOn)
      BY <1>2 DEF RunImmediate
    <2>2. Head(immediate).goesOn \in BOOLEAN
      BY <1>2, Popped DEF RunImmediate, TypeInv, QueueOK
    <2>3. PICK t \in Slots : BeginsAs(t, Head(immediate).for, Head(immediate).goesOn)
      BY <2>1, <2>2, Begins, Zenon
    <2> QED BY <2>3 DEF BeginsAs
  <1> QED BY <1>1, <1>2

(* A prompt, or a turn that waited, while the screen is taken. *)
LEMMA Dropped ==
    ASSUME NEW for, NEW goesOn, RunAgent(for, goesOn), isRunning
    PROVE  UNCHANGED <<isRunning, turns, stats, checkpoint, crossed>>
  BY DEF RunAgent

EndsAs(t) ==
    /\ turns[t].at = "works" /\ turns'[t].at = "over" /\ ~turns'[t].holds
    /\ \A u \in Slots \ {t} : turns'[u] = turns[u]
    /\ isRunning' = FALSE /\ crossed' = crossed /\ checkpoint' = checkpoint
    /\ requests' = requests

LEMMA EndsOne ==
    ASSUME TypeInv, NEW t \in Slots, Ends(t)
    PROVE  EndsAs(t)
  <1>1. turns' = [turns EXCEPT ![t] = NoTurn] /\ turns[t].at = "works"
    BY DEF Ends, Over
  <1>2. NoTurn.at = "over" /\ ~NoTurn.holds
    BY DEF NoTurn
  <1> QED BY <1>1, <1>2 DEF Ends, EndsAs, TypeInv, TurnsOK, userVars

(* Steps that leave which turns are alive, and for what, as it was.          *)
Quiet ==
    /\ SameTurns
    /\ immediate' = immediate /\ loop'.for = loop.for /\ (loop'.active => loop.active)
    /\ stopped' = stopped /\ crossed' = crossed
    /\ stats' = stats /\ checkpoint' = checkpoint
    /\ isRunning' => isRunning
    /\ \/ pending' \in {pending, 0}
       \/ \E t \in Slots : Alive(t) /\ pending' = turns[t].for

LEMMA CancelRunSame ==
    ASSUME TypeInv, CancelRun
    PROVE  /\ SameTurns
           /\ \A t \in Slots : /\ turns'[t].holds = turns[t].holds
                               /\ turns'[t].agent = turns[t].agent
                               /\ turns'[t].at = turns[t].at
                               /\ ~turns'[t].cut => ~turns[t].cut
  BY DEF CancelRun, SameTurns, TypeInv, TurnsOK, Turn

LEMMA QuietSteps ==
    ASSUME TypeInv,
           \/ UNCHANGED vars \/ StopLoop \/ AnswerQuestion \/ Cancel \/ Watchdog
           \/ UseModel \/ NewSession \/ \E s \in Sessions : ResumeSession(s)
           \/ \E t \in Slots : GoLive(t) \/ Ask(t) \/ GivesUp(t)
           \/ isRunning /\ Prompt
    PROVE  Quiet
  <1>0. turns' = turns => SameTurns
    BY DEF SameTurns
  <1>1. CASE UNCHANGED vars
    BY <1>0, <1>1 DEF vars, Quiet
  <1>2. CASE StopLoop
    <2>1. loop'.for = loop.for /\ (loop'.active => loop.active)
      BY <1>2, HaltedType DEF StopLoop, TypeInv
    <2> QED BY <1>0, <1>2, <2>1 DEF StopLoop, Quiet, resumeVars
  <1>3. CASE AnswerQuestion
    BY <1>0, <1>3 DEF AnswerQuestion, Quiet, resumeVars, loopVars
  <1>4. CASE Cancel \/ Watchdog
    <2>1. SameTurns
      BY <1>4, CancelRunSame DEF Cancel, Watchdog
    <2>2. isRunning' => isRunning
      BY <1>4 DEF Cancel, Watchdog, uiVars
    <2> QED BY <1>4, <2>1, <2>2 DEF Cancel, Watchdog, Quiet, uiVars, resumeVars, loopVars
  <1>5. CASE UseModel \/ NewSession \/ \E s \in Sessions : ResumeSession(s)
    BY <1>0, <1>5 DEF UseModel, NewSession, ResumeSession, Quiet, uiVars, resumeVars, loopVars
  <1>6. ASSUME NEW t \in Slots, GoLive(t) PROVE Quiet
    <2>1. SameTurns
      BY <1>6 DEF GoLive, SameTurns, TypeInv, TurnsOK, Turn
    <2> QED BY <1>6, <2>1 DEF GoLive, Quiet, uiVars, resumeVars, loopVars
  <1>7. ASSUME NEW t \in Slots, Ask(t) PROVE Quiet
    BY <1>0, <1>7 DEF Ask, Quiet, resumeVars, loopVars
  <1>8. ASSUME NEW t \in Slots, GivesUp(t) PROVE Quiet
    <2>1. Alive(t) /\ pending' = turns[t].for
      BY <1>8 DEF GivesUp, Alive
    <2> QED BY <1>0, <1>8, <2>1 DEF GivesUp, Quiet, uiVars, loopVars
  <1>9. CASE isRunning /\ Prompt
    <2>1. UNCHANGED <<isRunning, turns, stats, checkpoint, crossed>>
      BY <1>9, Dropped DEF Prompt
    <2> QED BY <1>0, <1>9, <2>1 DEF Prompt, Quiet, loopVars
  <1> QED BY <1>1, <1>2, <1>3, <1>4, <1>5, <1>6, <1>7, <1>8, <1>9

-------------------------------------------------------------------------------
(* The screen, the cap, the turns of one agent and the file.                 *)

LEMMA LimitStep == TypeInv /\ LimitInv /\ [Next]_vars => LimitInv'
  <1> SUFFICES ASSUME TypeInv, LimitInv, [Next]_vars PROVE LimitInv'
    OBVIOUS
  <1>1. UNCHANGED loopVars => LimitInv'
    BY DEF LimitInv, loopVars
  <1>2. RestoreLimit => limit' = "user" /\ before' = "none"
    BY DEF RestoreLimit, LimitInv, TypeInv, LoopOK
  <1>3. RestoreLimit => LimitInv'
    BY <1>2 DEF LimitInv
  <1>4. CASE StartLoop
    <2>1. RaiseLimit /\ loop'.active
      BY <1>4 DEF StartLoop
    <2> QED BY <2>1 DEF RaiseLimit, LimitInv
  <1>5. CASE UseModel
    BY <1>5 DEF UseModel, LimitInv
  <1>6. ASSUME NEW t \in Slots, Completes(t) PROVE LimitInv'
    <2>1. ASSUME NEW o \in Outcomes, CompletesStep(t, o) PROVE LimitInv'
      <3>1. CASE loop.queue # <<>>
        <4>1. loop'.active = loop.active /\ loop.active
          BY <2>1, <3>1, AdvancedType DEF CompletesStep, TypeInv, LoopOK, Loops
        <4> QED BY <2>1, <3>1, <4>1 DEF CompletesStep, LimitInv
      <3>2. CASE loop.queue = <<>>
        BY <1>3, <2>1, <3>2 DEF CompletesStep
      <3> QED BY <3>1, <3>2
    <2> QED BY <1>1, <1>6, <2>1 DEF Completes, CompletesPending, CompletesResumed, CompletesRequest
  <1>7. (\E t \in Slots : Breaks(t)) \/ StopLoop => LimitInv'
    BY <1>3 DEF Breaks, StopLoop
  <1>8. \/ UNCHANGED vars \/ Prompt \/ RunImmediate \/ AnswerQuestion \/ Cancel \/ Watchdog
        \/ NewSession \/ (\E s \in Sessions : ResumeSession(s))
        \/ \E t \in Slots : GoLive(t) \/ Ask(t) \/ GivesUp(t) \/ Rejects(t)
        => UNCHANGED loopVars
    BY DEF vars, loopVars, Prompt, RunImmediate, AnswerQuestion, Cancel, Watchdog, NewSession,
           ResumeSession, GoLive, Ask, GivesUp, Rejects
  <1> QED BY <1>1, <1>4, <1>5, <1>6, <1>7, <1>8 DEF Next

LEMMA HoldsStep == TypeInv /\ HoldsInv /\ [Next]_vars => HoldsInv'
  <1> SUFFICES ASSUME TypeInv, HoldsInv, [Next]_vars PROVE HoldsInv'
    OBVIOUS
  <1>0. turns' = turns => HoldsInv'
    BY DEF HoldsInv, Alive
  <1>1. CASE Prompt \/ RunImmediate
    <2>1. CASE isRunning
      BY <1>0, <1>1, <2>1, Dropped DEF Prompt, RunImmediate
    <2>2. CASE ~isRunning
      BY <1>1, <2>2, BeginsSome DEF HoldsInv, Alive
    <2> QED BY <2>1, <2>2
  <1>2. CASE Cancel \/ Watchdog
    BY <1>2, CancelRunSame DEF Cancel, Watchdog, HoldsInv, Alive
  <1>3. ASSUME NEW t \in Slots, GoLive(t) PROVE HoldsInv'
    <2>1. \A u \in Slots : turns'[u].agent = turns[u].agent
      BY <1>3 DEF GoLive, TypeInv, TurnsOK, Turn
    <2>2. /\ turns'[t].holds = TRUE
          /\ \A u \in Slots \ {t} :
               /\ turns'[u].at = turns[u].at
               /\ turns'[u].holds => turns[u].holds /\ turns[u].agent # turns[t].agent
               /\ ~turns'[u].cut => turns'[u].holds = turns[u].holds /\ ~turns[u].cut
      BY <1>3 DEF GoLive, TypeInv, TurnsOK, Turn
    <2>3. \A u \in Slots : turns'[u].at = "works" /\ ~turns'[u].cut => turns'[u].holds
      BY <2>2 DEF HoldsInv
    <2> QED BY <2>1, <2>2, <2>3 DEF HoldsInv, Alive
  <1>4. ASSUME NEW t \in Slots, Completes(t) \/ Breaks(t) \/ Rejects(t) PROVE HoldsInv'
    <2>1. EndsAs(t)
      BY <1>4, EndsOne DEF Completes, Breaks, Rejects
    <2> QED BY <2>1 DEF EndsAs, HoldsInv, Alive
  <1>5. \/ UNCHANGED vars \/ StartLoop \/ StopLoop \/ AnswerQuestion \/ UseModel \/ NewSession
        \/ (\E s \in Sessions : ResumeSession(s)) \/ \E t \in Slots : Ask(t) \/ GivesUp(t)
        => turns' = turns
    BY DEF vars, StartLoop, StopLoop, AnswerQuestion, UseModel, NewSession, ResumeSession,
           Ask, GivesUp
  <1> QED BY <1>0, <1>1, <1>2, <1>3, <1>4, <1>5 DEF Next

LEMMA ScreenStep == TypeInv /\ ScreenFollowsTurn /\ [Next]_vars => ScreenFollowsTurn'
  <1> SUFFICES ASSUME TypeInv, ScreenFollowsTurn, [Next]_vars PROVE ScreenFollowsTurn'
    OBVIOUS
  <1>1. Quiet => ScreenFollowsTurn'
    BY DEF Quiet, SameTurns, ScreenFollowsTurn, Alive
  <1>2. CASE (Prompt \/ RunImmediate) /\ ~isRunning
    BY <1>2, BeginsSome DEF ScreenFollowsTurn, Alive
  <1>3. CASE RunImmediate /\ isRunning
    BY <1>3, Dropped DEF RunImmediate, ScreenFollowsTurn, Alive
  <1>4. ASSUME NEW t \in Slots, Completes(t) \/ Breaks(t) \/ Rejects(t) PROVE ScreenFollowsTurn'
    BY <1>4 DEF Completes, Breaks, Rejects, Ends, ScreenFollowsTurn
  <1>5. CASE StartLoop
    BY <1>5 DEF StartLoop, ScreenFollowsTurn, Alive
  <1> QED BY <1>1, <1>2, <1>3, <1>4, <1>5, QuietSteps DEF Next

LEMMA SavedStep ==
    TypeInv /\ ScreenFollowsTurn /\ WhatIsKnownIsSaved /\ [Next]_vars => WhatIsKnownIsSaved'
  <1> SUFFICES ASSUME TypeInv, ScreenFollowsTurn, WhatIsKnownIsSaved, [Next]_vars
               PROVE  WhatIsKnownIsSaved'
    OBVIOUS
  <1>0. turns' = turns /\ UNCHANGED talkVars => WhatIsKnownIsSaved'
    BY DEF WhatIsKnownIsSaved, Alive, talkVars
  <1>1. CASE (Prompt \/ RunImmediate) /\ ~isRunning
    BY <1>1, BeginsSome DEF WhatIsKnownIsSaved, Alive
  <1>2. CASE (Prompt \/ RunImmediate) /\ isRunning
    BY <1>0, <1>2, Dropped DEF Prompt, RunImmediate
  <1>3. CASE Cancel \/ Watchdog
    <2>1. SameTurns
      BY <1>3, CancelRunSame DEF Cancel, Watchdog
    <2> QED BY <1>3, <2>1 DEF Cancel, Watchdog, SameTurns, WhatIsKnownIsSaved, Alive, talkVars
  <1>4. ASSUME NEW t \in Slots, GoLive(t) PROVE WhatIsKnownIsSaved'
    <2>1. turns'[t].at = "works"
      BY <1>4 DEF GoLive, TypeInv, TurnsOK, Turn
    <2> QED BY <2>1 DEF WhatIsKnownIsSaved, Alive
  <1>5. ASSUME NEW t \in Slots, Completes(t) \/ Breaks(t) \/ Rejects(t) PROVE WhatIsKnownIsSaved'
    <2>1. files' = Saved /\ known' = known /\ session' = session
      BY <1>5 DEF Completes, Breaks, Rejects, Ends
    <2> QED BY <2>1 DEF Saved, WhatIsKnownIsSaved, TypeInv, TalkOK
  <1>6. CASE UseModel \/ NewSession \/ \E s \in Sessions : ResumeSession(s)
    BY <1>6 DEF UseModel, NewSession, ResumeSession, WhatIsKnownIsSaved
  <1>7. \/ UNCHANGED vars \/ StartLoop \/ StopLoop \/ AnswerQuestion
        \/ \E t \in Slots : Ask(t) \/ GivesUp(t)
        => turns' = turns /\ UNCHANGED talkVars
    BY DEF vars, talkVars, StartLoop, StopLoop, AnswerQuestion, Ask, GivesUp
  <1> QED BY <1>0, <1>1, <1>2, <1>3, <1>4, <1>5, <1>6, <1>7 DEF Next


-------------------------------------------------------------------------------
(* The order of automatic turns, and the checkpoints.                        *)

Step == TypeInv /\ ScreenFollowsTurn /\ OrderInv

LEMMA QuietOrder == Step /\ Quiet => OrderInv'
  <1> SUFFICES ASSUME Step, Quiet, Orderly PROVE OneAtATime' /\ NothingStopped'
    BY DEF OrderInv, Orderly, Quiet
  <1>1. OneAtATime /\ NothingStopped
    BY DEF Step, OrderInv
  <1>2. OneAtATime'
    BY <1>1 DEF OneAtATime, Quiet, SameTurns, Alive, GoesOn
  <1>3. NothingStopped'
    BY <1>1 DEF NothingStopped, Quiet, SameTurns, Alive, GoesOn
  <1> QED BY <1>2, <1>3

LEMMA QuietUndo == UndoInv /\ Quiet => UndoInv'
  BY DEF UndoInv, Quiet, SameTurns, Alive, GoesOn

(* A prompt, with the screen free: nothing else runs or waits, or it crosses. *)
LEMMA PromptOrder ==
    ASSUME Step, UndoInv, Prompt, ~isRunning
    PROVE  OrderInv' /\ UndoInv'
  <1>1. /\ RunAgent(requests', FALSE) /\ requests' = requests + 1 /\ pending' = 0
        /\ loop' = loop /\ stopped' = stopped /\ immediate' = immediate
    BY DEF Prompt, loopVars
  <1>2. PICK t \in Slots : BeginsAs(t, requests', FALSE)
    BY <1>1, Begins DEF Step
  <1>3. ASSUME Orderly'
        PROVE  /\ Orderly /\ immediate' = <<>> /\ \A u \in Slots : ~Alive(u)
               /\ \A u \in Slots : turns'[u].at # "over" => u = t
    BY <1>2, <1>3 DEF BeginsAs, Orderly, Alive
  <1>4. requests' \notin stopped
    BY <1>1 DEF Step, TypeInv, UserOK
  <1>5. turns'[t].for = requests'
    BY <1>2 DEF BeginsAs
  <1>6. immediate' = <<>> => Len(immediate') = 0
    BY EmptySeq
  <1>7. OrderInv'
    <2> SUFFICES ASSUME Orderly' PROVE OneAtATime' /\ NothingStopped'
      BY DEF OrderInv
    <2>1. OneAtATime'
      BY <1>1, <1>3, <1>6 DEF OneAtATime, Alive, GoesOn
    <2>2. loop.active => loop.for \notin stopped
      BY <1>3 DEF Step, OrderInv, NothingStopped
    <2>3. NothingStopped'
      BY <1>1, <1>3, <1>4, <1>5, <1>6, <2>2 DEF NothingStopped, Alive, GoesOn
    <2> QED BY <2>1, <2>3
  <1>8. UndoInv'
    <2> SUFFICES ASSUME crossed' = {}
                 PROVE  UndoInv'
      BY DEF UndoInv
    <2>1. Orderly'
      BY DEF Orderly
    <2>2. stats' = TRUE /\ checkpoint' = requests' /\ (loop.active => loop.for = requests')
      BY <1>2 DEF BeginsAs, Opens
    <2> QED BY <1>1, <1>3, <1>5, <2>1, <2>2 DEF UndoInv, Alive
  <1> QED BY <1>7, <1>8

(* setImmediate fires while the screen is taken: what waited is dropped, and *)
(* was no continuation.                                                      *)
LEMMA DroppedOrder ==
    ASSUME Step, UndoInv, RunImmediate, isRunning
    PROVE  OrderInv' /\ UndoInv'
  <1>1. UNCHANGED <<isRunning, turns, stats, checkpoint, crossed>>
    BY Dropped DEF RunImmediate
  <1>2. /\ loop' = loop /\ stopped' = stopped /\ pending' = pending
        /\ immediate # <<>> /\ immediate' = Tail(immediate) /\ immediate \in Seq(Due)
    BY DEF RunImmediate, loopVars, resumeVars, Step, TypeInv, QueueOK
  <1>3. /\ Len(immediate) \in Nat \ {0} /\ Len(immediate') = Len(immediate) - 1
        /\ \A n \in 1..Len(immediate') : immediate'[n] = immediate[n + 1]
    BY <1>2, Popped
  <1>4. \E t \in Slots : Alive(t)
    BY DEF Step, ScreenFollowsTurn
  <1>5. \A n \in 1..Len(immediate') : n + 1 \in 1..Len(immediate)
    BY <1>3
  <1>6. OrderInv'
    <2> SUFFICES ASSUME Orderly PROVE OneAtATime' /\ NothingStopped'
      BY <1>1 DEF OrderInv, Orderly
    <2>0. OneAtATime /\ NothingStopped
      BY DEF Step, OrderInv
    <2>1. OneAtATime'
      BY <1>1, <1>2, <1>3, <1>4, <1>5, <2>0 DEF OneAtATime, Alive, GoesOn
    <2>2. NothingStopped'
      <3>1. \A m, n \in 1..Len(immediate') :
              m < n /\ immediate'[m].for = immediate'[n].for
              => ~immediate'[m].goesOn /\ immediate'[n].goesOn
        BY <1>3, <1>5, <2>0 DEF NothingStopped, GoesOn
      <3> QED BY <1>1, <1>2, <1>3, <1>5, <2>0, <3>1 DEF NothingStopped, Alive, GoesOn
    <2> QED BY <2>1, <2>2
  <1>7. UndoInv'
    <2> SUFFICES ASSUME crossed = {} PROVE UndoInv'
      BY <1>1 DEF UndoInv
    <2>1. OneAtATime
      BY DEF Step, OrderInv, Orderly
    <2>2. immediate' # <<>> => 1 \in 1..Len(immediate')
      BY <1>2, <1>3, Popped
    <2>3. immediate' # <<>> => ~immediate'[1].goesOn
      BY <1>3, <1>4, <1>5, <2>1, <2>2 DEF OneAtATime, GoesOn
    <2> QED BY <1>1, <1>2, <2>3 DEF UndoInv, Alive, GoesOn
  <1> QED BY <1>6, <1>7

(* setImmediate fires with the screen free. A first step that has anything   *)
(* behind it crosses; a continuation is the only one.                        *)
LEMMA ImmediateOrder ==
    ASSUME Step, UndoInv, RunImmediate, ~isRunning
    PROVE  OrderInv' /\ UndoInv'
  <1> DEFINE r == Head(immediate).for  g == Head(immediate).goesOn
  <1>1. /\ immediate # <<>> /\ immediate' = Tail(immediate) /\ immediate \in Seq(Due)
        /\ loop' = loop /\ stopped' = stopped /\ pending' = pending
    BY DEF RunImmediate, loopVars, resumeVars, Step, TypeInv, QueueOK
  <1>2. /\ Len(immediate) \in Nat \ {0} /\ Len(immediate') = Len(immediate) - 1
        /\ \A n \in 1..Len(immediate') : immediate'[n] = immediate[n + 1]
        /\ r = immediate[1].for /\ g = immediate[1].goesOn /\ g \in BOOLEAN
        /\ 1 \in 1..Len(immediate) /\ (immediate' = <<>> <=> Len(immediate') = 0)
    BY <1>1, Popped
  <1>3. RunAgent(r, g)
    BY DEF RunImmediate
  <1> HIDE DEF r, g
  <1>4. PICK t \in Slots : BeginsAs(t, r, g)
    BY <1>2, <1>3, Begins DEF Step
  <1>5. \A n \in 1..Len(immediate') : n + 1 \in 1..Len(immediate) /\ 1 < n + 1
    BY <1>2
  <1>6. ASSUME Orderly'
        PROVE  /\ OneAtATime /\ NothingStopped /\ \A u \in Slots : ~Alive(u)
               /\ \A u \in Slots : turns'[u].at # "over" => u = t
               /\ pending = 0 /\ \A n \in 1..Len(immediate') : ~immediate'[n].goesOn
               /\ ~g => immediate' = <<>>
    <2>1. /\ Orderly /\ (\A u \in Slots : ~Alive(u))
          /\ \A u \in Slots : turns'[u].at # "over" => u = t
      BY <1>4, <1>6 DEF BeginsAs, Orderly, Alive
    <2>2. OneAtATime /\ NothingStopped
      BY <2>1 DEF Step, OrderInv
    <2>3. ~g => immediate' = <<>> /\ pending = 0
      BY <1>1, <1>4, <1>6 DEF BeginsAs, Orderly
    <2>4. g => pending = 0 /\ \A n \in 1..Len(immediate') : ~immediate'[n].goesOn
      <3> SUFFICES ASSUME g
                   PROVE  pending = 0 /\ \A n \in 1..Len(immediate') : ~immediate'[n].goesOn
        OBVIOUS
      <3>1. GoesOn(1)
        BY <1>2 DEF GoesOn
      <3>2. pending = 0 /\ \A n \in 1..Len(immediate) : GoesOn(n) => n = 1
        BY <1>2, <2>2, <3>1 DEF OneAtATime
      <3>3. \A n \in 1..Len(immediate') : ~GoesOn(n + 1)
        BY <1>2, <1>5, <3>2
      <3> QED BY <1>2, <3>2, <3>3 DEF GoesOn
    <2> QED BY <1>2, <2>1, <2>2, <2>3, <2>4
  <1>7. turns'[t].for = r
    BY <1>4 DEF BeginsAs
  <1>8. OrderInv'
    <2> SUFFICES ASSUME Orderly' PROVE OneAtATime' /\ NothingStopped'
      BY DEF OrderInv
    <2>1. OneAtATime'
      BY <1>1, <1>6 DEF OneAtATime, Alive, GoesOn
    <2>2. \A n \in 1..Len(immediate') : /\ immediate'[n].for # r
                                        /\ immediate'[n].for \notin stopped
      BY <1>2, <1>5, <1>6 DEF NothingStopped, GoesOn
    <2>3. r \notin stopped
      BY <1>2, <1>6 DEF NothingStopped
    <2>4. \A m, n \in 1..Len(immediate') :
            m < n /\ immediate'[m].for = immediate'[n].for
            => ~immediate'[m].goesOn /\ immediate'[n].goesOn
      BY <1>2, <1>5, <1>6 DEF NothingStopped, GoesOn
    <2>5. NothingStopped'
      BY <1>1, <1>6, <1>7, <2>2, <2>3, <2>4 DEF NothingStopped, Alive, GoesOn
    <2> QED BY <2>1, <2>5
  <1>9. UndoInv'
    <2> SUFFICES ASSUME crossed' = {} PROVE UndoInv'
      BY DEF UndoInv
    <2>1. Orderly' /\ crossed = {}
      BY <1>4 DEF Orderly, BeginsAs
    <2>2. stats' = TRUE /\ checkpoint' = r
      <3>1. CASE g
        <4>1. stats = TRUE /\ checkpoint = r
          BY <1>1, <1>2, <2>1, <3>1 DEF UndoInv, GoesOn, Step, TypeInv, UiOK
        <4> QED BY <1>4, <3>1, <4>1 DEF BeginsAs, Opens
      <3>2. CASE ~g
        BY <1>4, <3>2 DEF BeginsAs, Opens
      <3> QED BY <3>1, <3>2
    <2>3. loop.active => loop.for = r
      BY <1>4 DEF BeginsAs
    <2>4. immediate' # <<>> => ~immediate'[1].goesOn
      BY <1>2, <1>6, <2>1
    <2> QED BY <1>1, <1>6, <1>7, <2>1, <2>2, <2>3, <2>4 DEF UndoInv, Alive, GoesOn
  <1> QED BY <1>8, <1>9


(* /loop: its request is new, and its first step waits behind what is there. *)
LEMMA StartLoopOrder ==
    ASSUME Step, UndoInv, StartLoop
    PROVE  OrderInv' /\ UndoInv'
  <1>1. /\ Later(requests', FALSE) /\ requests' = requests + 1 /\ requests < MaxRequests
        /\ ~isRunning /\ isRunning' = isRunning /\ turns' = turns /\ pending' = pending
        /\ stats' = stats /\ checkpoint' = checkpoint
        /\ stopped' = stopped /\ crossed' = crossed
        /\ loop'.for = requests'
    BY DEF StartLoop, resumeVars
  <1>2. /\ immediate \in Seq(Due) /\ requests \in Nat /\ requests' \in Requests
        /\ stopped \subseteq 1..requests
        /\ \A n \in 1..Len(immediate) : immediate[n].for <= requests
        /\ \A t \in Slots : Alive(t) => turns[t].for \in 1..requests
    BY <1>1, ConstantTypes DEF Step, TypeInv, QueueOK, UserOK, TurnsOK, Requests
  <1>3. /\ Len(immediate) \in Nat /\ Len(immediate') = Len(immediate) + 1
        /\ \A n \in 1..Len(immediate) : immediate'[n] = immediate[n]
        /\ immediate'[Len(immediate) + 1].for = requests'
        /\ ~immediate'[Len(immediate) + 1].goesOn
        /\ immediate' # <<>>
        /\ immediate # <<>> => 1 \in 1..Len(immediate)
        /\ immediate = <<>> => Len(immediate) = 0
    BY <1>1, <1>2, Appended
  <1>4. \A n \in 1..Len(immediate) : immediate[n].for # requests'
    <2>1. \A n \in 1..Len(immediate) : immediate[n].for \in Requests
      BY Waiting DEF Step, TypeInv
    <2> QED BY <1>1, <1>2, <2>1 DEF Requests
  <1>5. requests' \notin stopped /\ \A t \in Slots : Alive(t) => turns[t].for # requests'
    BY <1>1, <1>2
  <1>6. \A n \in 1..Len(immediate') : n \in 1..Len(immediate) \/ n = Len(immediate) + 1
    BY <1>3
  <1>7. OrderInv'
    <2> SUFFICES ASSUME Orderly PROVE OneAtATime' /\ NothingStopped'
      BY <1>1 DEF OrderInv, Orderly
    <2>0. OneAtATime /\ NothingStopped
      BY DEF Step, OrderInv
    <2>1. OneAtATime'
      BY <1>1, <1>3, <1>6, <2>0 DEF OneAtATime, Alive, GoesOn
    <2>2. \A m, n \in 1..Len(immediate') :
            m < n /\ immediate'[m].for = immediate'[n].for
            => ~immediate'[m].goesOn /\ immediate'[n].goesOn
      <3> SUFFICES ASSUME NEW m \in 1..Len(immediate'), NEW n \in 1..Len(immediate'),
                          m < n, immediate'[m].for = immediate'[n].for
                   PROVE  ~immediate'[m].goesOn /\ immediate'[n].goesOn
        OBVIOUS
      <3>1. m \in 1..Len(immediate)
        BY <1>3
      <3>2. n \in 1..Len(immediate)
        BY <1>3, <1>4, <1>6, <3>1
      <3> QED BY <1>3, <2>0, <3>1, <3>2 DEF NothingStopped, GoesOn
    <2>3. \A n \in 1..Len(immediate') :
            /\ immediate'[n].for \notin stopped
            /\ \A t \in Slots : Alive(t) => immediate'[n].for # turns[t].for
      BY <1>3, <1>5, <1>6, <2>0 DEF NothingStopped
    <2>4. NothingStopped'
      BY <1>1, <1>5, <2>0, <2>2, <2>3 DEF NothingStopped, Alive, GoesOn
    <2> QED BY <2>1, <2>4
  <1>8. UndoInv'
    BY <1>1, <1>3 DEF UndoInv, Alive, GoesOn
  <1> QED BY <1>7, <1>8

(* A turn ends and nothing is queued: no turn is left, no continuation waits. *)
LEMMA EndsQuietly ==
    ASSUME Step, UndoInv, NEW t \in Slots, EndsAs(t), immediate' = immediate,
           pending' = pending, loop'.for = loop.for, loop'.active => loop.active,
           \/ stopped' = stopped
           \/ stopped' = stopped \cup {turns[t].for} /\ ~loop'.active
    PROVE  OrderInv' /\ UndoInv'
  <1>1. ASSUME Orderly'
        PROVE  /\ OneAtATime /\ NothingStopped /\ Alive(t)
               /\ \A u \in Slots : turns'[u].at = "over"
               /\ \A n \in 1..Len(immediate) : ~GoesOn(n)
    <2>1. OneAtATime /\ NothingStopped /\ Alive(t)
      BY <1>1 DEF Step, OrderInv, Orderly, EndsAs, Alive
    <2> QED BY <2>1 DEF OneAtATime, EndsAs, Alive
  <1>2. OrderInv'
    <2> SUFFICES ASSUME Orderly' PROVE OneAtATime' /\ NothingStopped'
      BY DEF OrderInv
    <2>1. OneAtATime'
      BY <1>1 DEF OneAtATime, Alive, GoesOn
    <2>2. \A n \in 1..Len(immediate) : immediate[n].for \notin stopped'
      BY <1>1 DEF NothingStopped
    <2>3. loop'.active => loop'.for \notin stopped'
      BY <1>1 DEF NothingStopped
    <2>4. NothingStopped'
      BY <1>1, <2>2, <2>3 DEF NothingStopped, Alive, GoesOn
    <2> QED BY <2>1, <2>4
  <1>3. UndoInv'
    <2> SUFFICES ASSUME crossed' = {} PROVE UndoInv'
      BY DEF UndoInv
    <2>1. Orderly'
      BY DEF Orderly
    <2>2. immediate # <<>> => ~GoesOn(1)
      <3>1. immediate # <<>> => 1 \in 1..Len(immediate)
        BY EmptySeq, LenProperties DEF Step, TypeInv, QueueOK
      <3> QED BY <1>1, <2>1, <3>1
    <2> QED BY <1>1, <2>1, <2>2 DEF UndoInv, Alive, GoesOn
  <1> QED BY <1>2, <1>3

(* A turn ends and is gone on with, or the loop's next step is: that waits   *)
(* alone, and while nothing crossed it is of the request whose card is open. *)
LEMMA EndsGoingOn ==
    ASSUME Step, UndoInv, NEW t \in Slots, EndsAs(t), NEW r \in Requests, Later(r, TRUE),
           pending' = 0, loop'.for = loop.for, loop'.active => loop.active,
           stopped' = stopped, stats' = stats,
           Orderly => r \notin stopped,
           crossed = {} /\ immediate = <<>> => r = turns[t].for
    PROVE  OrderInv' /\ UndoInv'
  <1>1. /\ Len(immediate) \in Nat /\ Len(immediate') = Len(immediate) + 1
        /\ \A n \in 1..Len(immediate) : immediate'[n] = immediate[n]
        /\ immediate'[Len(immediate) + 1].for = r
        /\ immediate'[Len(immediate) + 1].goesOn
        /\ immediate # <<>> => 1 \in 1..Len(immediate)
        /\ immediate = <<>> => Len(immediate) = 0
    BY Appended DEF Step, TypeInv, QueueOK
  <1>2. \A n \in 1..Len(immediate') : n \in 1..Len(immediate) \/ n = Len(immediate) + 1
    BY <1>1
  <1>3. ASSUME Orderly'
        PROVE  /\ OneAtATime /\ NothingStopped /\ Alive(t) /\ r \notin stopped
               /\ \A u \in Slots : turns'[u].at = "over"
               /\ \A n \in 1..Len(immediate) : ~immediate'[n].goesOn
    <2>1. OneAtATime /\ NothingStopped /\ Alive(t) /\ r \notin stopped
      BY <1>3 DEF Step, OrderInv, Orderly, EndsAs, Alive
    <2> QED BY <1>1, <2>1 DEF OneAtATime, EndsAs, Alive, GoesOn
  <1>4. OrderInv'
    <2> SUFFICES ASSUME Orderly' PROVE OneAtATime' /\ NothingStopped'
      BY DEF OrderInv
    <2>1. OneAtATime'
      BY <1>1, <1>2, <1>3 DEF OneAtATime, Alive, GoesOn
    <2>2. \A n \in 1..Len(immediate') : immediate'[n].for \notin stopped
      BY <1>1, <1>2, <1>3 DEF NothingStopped
    <2>3. \A m, n \in 1..Len(immediate') :
            m < n /\ immediate'[m].for = immediate'[n].for
            => ~immediate'[m].goesOn /\ immediate'[n].goesOn
      <3> SUFFICES ASSUME NEW m \in 1..Len(immediate'), NEW n \in 1..Len(immediate'),
                          m < n, immediate'[m].for = immediate'[n].for
                   PROVE  ~immediate'[m].goesOn /\ immediate'[n].goesOn
        OBVIOUS
      <3>1. m \in 1..Len(immediate) /\ ~immediate'[m].goesOn
        BY <1>1, <1>3
      <3>2. CASE n \in 1..Len(immediate)
        BY <1>1, <1>3, <3>1, <3>2 DEF NothingStopped, GoesOn
      <3>3. CASE n = Len(immediate) + 1
        BY <1>1, <3>1, <3>3
      <3> QED BY <1>2, <3>2, <3>3
    <2>4. NothingStopped'
      BY <1>3, <2>2, <2>3 DEF NothingStopped, Alive, GoesOn
    <2> QED BY <2>1, <2>4
  <1>5. UndoInv'
    <2> SUFFICES ASSUME crossed' = {} PROVE UndoInv'
      BY DEF UndoInv
    <2>1. Orderly' /\ crossed = {}
      BY DEF Orderly, EndsAs
    <2>2. stats /\ checkpoint = turns[t].for
      BY <1>3, <2>1 DEF UndoInv
    <2>3. immediate'[1].goesOn => stats' /\ checkpoint' = immediate'[1].for
      <3>1. CASE immediate = <<>>
        BY <1>1, <2>1, <2>2, <3>1 DEF EndsAs
      <3>2. CASE immediate # <<>>
        BY <1>1, <1>3, <2>1, <3>2
      <3> QED BY <3>1, <3>2
    <2> QED BY <1>3, <2>1, <2>3 DEF UndoInv, Alive, GoesOn
  <1> QED BY <1>4, <1>5

LEMMA EndsOrder ==
    ASSUME Step, UndoInv, NEW t \in Slots, Completes(t) \/ Breaks(t) \/ Rejects(t)
    PROVE  OrderInv' /\ UndoInv'
  <1>1. EndsAs(t) /\ Alive(t) /\ turns[t].for \in Requests
    <2>1. Ends(t)
      BY DEF Completes, Breaks, Rejects
    <2>2. turns[t].for \in 1..requests /\ requests \in 0..MaxRequests
      BY <2>1, EndsType DEF Step, TypeInv, UserOK
    <2>3. EndsAs(t)
      BY <2>1, EndsOne DEF Step
    <2>4. Alive(t)
      BY <2>3 DEF EndsAs, Alive
    <2>5. turns[t].for \in Requests
      BY <2>2, ConstantTypes DEF Requests
    <2> QED BY <2>3, <2>4, <2>5
  <1>2. Orderly => OneAtATime /\ NothingStopped
    BY DEF Step, OrderInv
  <1>3. crossed = {} => Orderly
    BY DEF Orderly
  <1>4. CASE Rejects(t)
    BY <1>1, <1>4, EndsQuietly DEF Rejects, resumeVars, loopVars
  <1>5. CASE Breaks(t)
    <2>1. loop'.for = loop.for /\ ~loop'.active
      BY <1>5, HaltedType DEF Breaks, Step, TypeInv
    <2> QED BY <1>1, <1>5, <2>1, EndsQuietly DEF Breaks, resumeVars
  <1>6. CASE Completes(t) /\ CompletesPending(t)
    <2>1. /\ pending # 0 /\ pending' = 0 /\ Later(pending, TRUE)
          /\ loop' = loop /\ stats' = stats /\ stopped' = stopped
      BY <1>6 DEF CompletesPending, Completes, loopVars
    <2>2. pending \in Requests
      BY <2>1, ConstantTypes DEF Step, TypeInv, QueueOK, UserOK, Requests
    <2>3. Orderly => pending = turns[t].for /\ pending \notin stopped
      BY <1>1, <1>2, <2>1 DEF OneAtATime, NothingStopped
    <2> QED BY <1>1, <1>3, <2>1, <2>2, <2>3, EndsGoingOn
  <1>7. ASSUME NEW o \in Outcomes, Completes(t), CompletesResumed(t, o)
        PROVE  OrderInv' /\ UndoInv'
    <2>1. /\ pending' = 0 /\ Later(turns[t].for, TRUE)
          /\ loop' = loop /\ stats' = stats /\ stopped' = stopped
      BY <1>7 DEF CompletesResumed, Completes, loopVars
    <2>2. Orderly => turns[t].for \notin stopped
      BY <1>1, <1>2 DEF NothingStopped
    <2> QED BY <1>1, <2>1, <2>2, EndsGoingOn
  <1>8. ASSUME NEW o \in Outcomes, Completes(t), CompletesStep(t, o)
        PROVE  OrderInv' /\ UndoInv'
    <2>1. /\ pending = 0 /\ pending' = 0 /\ loop.active /\ loop' = Advanced
          /\ stopped' = stopped
      BY <1>8 DEF CompletesStep, Completes, resumeVars
    <2>5. (loop'.active => loop.active) /\ pending' = pending
      BY <2>1
    <2>2. loop'.for = loop.for /\ loop.for \in Requests
      BY <2>1, AdvancedType, ConstantTypes DEF Step, TypeInv, LoopOK, UserOK, Requests
    <2>3. CASE loop.queue # <<>>
      <3>1. Later(loop.for, TRUE) /\ stats' = stats
        BY <1>8, <2>3 DEF CompletesStep
      <3>2. Orderly => loop.for \notin stopped
        BY <1>2, <2>1 DEF NothingStopped
      <3>3. crossed = {} /\ immediate = <<>> => loop.for = turns[t].for
        BY <1>1, <2>1 DEF UndoInv
      <3> QED BY <1>1, <2>1, <2>2, <3>1, <3>2, <3>3, EndsGoingOn
    <2>4. CASE loop.queue = <<>>
      <3>1. immediate' = immediate
        BY <1>8, <2>4 DEF CompletesStep
      <3>2. EndsAs(t) /\ stopped' = stopped /\ loop'.for = loop.for
        BY <1>1, <2>1, <2>2
      <3> QED BY <2>5, <3>1, <3>2, EndsQuietly, Zenon
    <2> QED BY <2>3, <2>4
  <1>9. ASSUME NEW o \in Outcomes, Completes(t), CompletesRequest(t, o)
        PROVE  OrderInv' /\ UndoInv'
    BY <1>1, <1>9, EndsQuietly DEF Completes, CompletesRequest, resumeVars, loopVars
  <1> QED BY <1>4, <1>5, <1>6, <1>7, <1>8, <1>9 DEF Completes

LEMMA OrderStep ==
    Step /\ UndoInv /\ [Next]_vars => OrderInv' /\ UndoInv'
  <1> SUFFICES ASSUME Step, UndoInv, [Next]_vars PROVE OrderInv' /\ UndoInv'
    OBVIOUS
  <1>1. Quiet => OrderInv' /\ UndoInv'
    BY QuietOrder, QuietUndo
  <1>2. CASE Prompt
    BY <1>1, <1>2, PromptOrder, QuietSteps DEF Step
  <1>3. CASE RunImmediate
    BY <1>3, DroppedOrder, ImmediateOrder
  <1>4. CASE StartLoop
    BY <1>4, StartLoopOrder
  <1>5. CASE \E t \in Slots : Completes(t) \/ Breaks(t) \/ Rejects(t)
    BY <1>5, EndsOrder
  <1>6. CASE \/ UNCHANGED vars \/ StopLoop \/ AnswerQuestion \/ Cancel \/ Watchdog
             \/ UseModel \/ NewSession \/ (\E s \in Sessions : ResumeSession(s))
             \/ \E t \in Slots : GoLive(t) \/ Ask(t) \/ GivesUp(t)
    BY <1>1, <1>6, QuietSteps DEF Step
  <1> QED BY <1>2, <1>3, <1>4, <1>5, <1>6 DEF Next

-------------------------------------------------------------------------------
(* All together.                                                             *)
Inv ==
    /\ Step /\ UndoInv /\ LimitInv /\ HoldsInv /\ WhatIsKnownIsSaved

LEMMA InvHolds == Spec => []Inv
  <1>1. Init => Inv
    <2> SUFFICES ASSUME Init PROVE Inv
      OBVIOUS
    <2>1. TypeInv
      BY TypeInit
    <2>2. \A t \in Slots : ~Alive(t) /\ turns[t].at = "over"
      BY DEF Init, Alive, NoTurn
    <2>3. ScreenFollowsTurn /\ LimitInv /\ HoldsInv /\ WhatIsKnownIsSaved
      BY <2>2 DEF Init, ScreenFollowsTurn, LimitInv, HoldsInv, WhatIsKnownIsSaved
    <2>4. immediate = <<>> /\ Len(immediate) = 0 /\ ~loop.active
      BY EmptySeq DEF Init, NoLoop
    <2>5. OrderInv /\ UndoInv
      BY <2>2, <2>4 DEF OrderInv, OneAtATime, NothingStopped, UndoInv
    <2> QED BY <2>1, <2>3, <2>5 DEF Inv, Step
  <1>2. Inv /\ [Next]_vars => Inv'
    BY TypeStep, OrderStep, LimitStep, HoldsStep, ScreenStep, SavedStep DEF Inv, Step
  <1> QED BY <1>1, <1>2, PTL DEF Spec

(* Whatever a turn did or did not emit, when none is left the screen is free. *)
THEOREM ScreenAlwaysFollows == Spec => []ScreenFollowsTurn
  <1>1. Inv => ScreenFollowsTurn
    BY DEF Inv, Step
  <1> QED BY <1>1, InvHolds, PTL

(* Of the turns of one agent at work, one at most was not told to stop. *)
THEOREM OneTurnOfEachAgent == Spec => []OneTurnPerAgent
  <1>1. Inv => OneTurnPerAgent
    BY DEF Inv, HoldsInv, OneTurnPerAgent, Alive
  <1> QED BY <1>1, InvHolds, PTL

(* Without an active loop the agent has the user's own cap on tool calls. *)
THEOREM LimitAlwaysRestored == Spec => []LimitIsRestored
  <1>1. Inv => LimitIsRestored
    BY DEF Inv, LimitInv, LimitIsRestored
  <1> QED BY <1>1, InvHolds, PTL

(* When no turn is left, what the agent knows is in the session's file. *)
THEOREM KnownAlwaysSaved == Spec => []WhatIsKnownIsSaved
  <1>1. Inv => WhatIsKnownIsSaved
    BY DEF Inv
  <1> QED BY <1>1, InvHolds, PTL

(* A turn writes into the checkpoint of its own request, while none crosses. *)
THEOREM OneUndoForEachRequest == Spec => []OneUndoPerRequest
  <1>1. Inv => OneUndoPerRequest
    BY DEF Inv, UndoInv, OneUndoPerRequest
  <1> QED BY <1>1, InvHolds, PTL

(* What was cancelled or failed is not started again by itself. *)
THEOREM StoppedStaysStopped == Spec => []NothingStoppedComesBack
  <1>1. Inv => NothingStoppedComesBack
    <2> SUFFICES ASSUME Inv, Orderly
                 PROVE  \A n \in DOMAIN immediate : immediate[n].for \notin stopped
      BY DEF NothingStoppedComesBack, Orderly
    <2>1. DOMAIN immediate = 1..Len(immediate)
      BY LenProperties DEF Inv, Step, TypeInv, QueueOK
    <2> QED BY <2>1 DEF Inv, Step, OrderInv, NothingStopped
  <1> QED BY <1>1, InvHolds, PTL

===============================================================================
