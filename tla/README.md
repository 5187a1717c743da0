# ETTORE: TLA+ specification

A verification project for ETTORE, a terminal coding agent (`src/`): TLA+ modules
translated from its source, TLC configurations that check them on small
instances, and proofs checked by TLAPS. Paths below are relative to `src/`;
`index.js` alone is `src/agents/index.js`.

## 1. The system

ETTORE runs one *turn* per prompt of the user. A turn is a loop: call a model,
run the tool calls it replies with, give the results back, until it answers in
text. Around that loop the program adds guards that restrain or restart the
model, records that make the work revertible and verifiable, and the plumbing
of shells, providers, plugins and interfaces.

| Component | State it keeps | Operations | Meets |
|---|---|---|---|
| Turn loop, `agents/index.js` | iteration and tool counters, force-text flag, overlay slot, todo list, recovery counters, touched files | `run`, `cancel`, tool execution, overlays, todo sink | everything below; awaits at the model, each tool, the gate, the user |
| Turn state machine, `agents/turn-state.js` | one state | `transition` | the interface, which only sees its emissions |
| Release gate, `agents/release-gate*.js` | mutation count, latest suite and targeted run with the count they saw, retries; cached runner | `recordMutation`, `recordVerification`, `evaluateReleaseGate`, `check` | tools (evidence), turn loop (blocks its end) |
| Checkpoints, `agents/checkpoints.js` | per request, the first state of each file and what the request left | `begin`, `captureBefore`, `noteAfter`, `shellBefore/After`, `undo`, `redo` | tools of one wave, sub-agents, the user's editor |
| Tools, `tools/*.js`, `agents/tool-executor.js` | read cache, repeat counters | execute, retry, time out, approve | checkpoints, gate, shells |
| Bash session, `tools/bash-session.js` | one shell, a queue, sentinels on two streams | `run`, `kill` | the shell process, abort, timeout |
| One-shot and warm shells, `tools/shell-run.js`, `warm-shell.js` | a pre-started process | take, refill, run | processes |
| Ledger and compressor, `agents/message-ledger.js`, `compressor.js` | message history, prefetched summary | validate, repair, shrink, compress, undo | providers, which refuse an unpaired history |
| Model client, `llm/client.js`, `providers/` | retry counts, timers | call, stream, retry, fall back | network |
| Loops and missions, `loops/`, `mission/` | background runs, phases | start, tick, stop | the turn loop |
| Orchestrator, `agents/orchestrator.js` | packages of work and their dependencies | run waves of workers | nested turns |
| Plugins, MCP, `plugins/`, `mcp/` | loaded plugins, servers | load, call, unload | tools |
| Storage, `config/`, `sessions/`, `memory/`, `utils/secret-store.js` | files | read, modify, write | other processes |
| Update, `cli/update.js` | the installation | stage, replace, roll back | crashes |
| Interfaces, `app/`, `commands/`, `web/` | screen, input | render, dispatch | the events of a turn |
| Drivers and media, `tools/browser-*`, `desktop-*`, `audio-*`, `video-*` | external programs | request and reply | processes |

What is hard in it: `run()` is a coroutine that parks at dozens of awaits while
the user types, cancels or edits; tool calls of one batch overlap; eleven
independent recoveries may each send the loop round again; evidence about files
goes stale when files change; processes die, hang and answer late. The hazards,
each at its line, are in `PROJECT.json`.

What makes each part correct: a turn ends, once, and tells the interface so;
budgets hold whatever the recoveries do; an answer about changed code rests on
evidence about that code; undo gives back the user's files and nothing newer is
lost; a command gets its own output and exit status, and never another's; every
call in the history has its result.

## 2. Modules

| Module | Models | Composes |
|---|---|---|
| `ReleaseGate` | the gate's record as pure operators | |
| `TurnContract` | what a turn promises its caller (abstract) | |
| `AgentTurn` | `Agent.run()` of a build-mode turn | `ReleaseGate`, implements `TurnContract` |
| `ToolWave` | the overlapping tool calls of one answer | `ReleaseGate` |
| `Transcript` | the message ledger and the compressor, with the turn that writes the conversation | |
| `Checkpoints` | `CheckpointStore`, the tools that feed it, the user's edits | |
| `CommandQueue` | what a shell promises the tools that share it (abstract) | |
| `ShellSession` | the persistent bash session and its processes | implements `CommandQueue` |
| `Session` | the interactive session: turns, automatic turns, loops, keys, saved conversations | |
| `AgentTurn_proofs`, `ToolWave_proofs`, `Transcript_proofs`, `Checkpoints_proofs`, `CheckpointsUndo_proofs`, `Session_proofs`, `ShellSession_proofs`, `ShellOutput_proofs` | their theorems | |
| `MCAgentTurn`, `MCToolWave`, `MCCheckpoints`, `MCShellSession`, `MCSession` | their instances for TLC; `Transcript` is checked as it is | |

A definition whose name has a suffix (`Repair_None`, `Groups_Together`, ...) is a
plausible mistake in the definition it is named after. It is used by no action:
put in that definition's place, it makes the property it belongs to fail.

Each component is a module, and they meet where one leaves its effect in
another. `Session` is what surrounds a turn, and sees of it when it starts, asks,
gives up and ends; `AgentTurn` is the turn, and sees of its tools what they
return; `ToolWave` is what happens between the answer with the calls and their
results; `Checkpoints` and `ShellSession` are two things those calls work on, and
`Transcript` the conversation they are written to.

### AgentTurn

`pc` names the await `run()` is parked at: `ready` (not started), `head` (top of
the loop), `model` (the call and the handling of its reply), `gate` (the
release gate's check), `asking` (`ask_user`), `batch` (the tools), `done`. One
action is what happens between two awaits:

| Actions | Code (`index.js`) |
|---|---|
| `Begin` | 2036-2285: the `started` emission, the todo list kept only by a continuation prompt, work the orchestrator did |
| `CallModel`, `HeadFails`, `LoopExhausted` | 2286-2502, 3634-3647 |
| `StreamMarkup`, `CallFails` | 2211-2245, 3574-3632 |
| `ForcedStop`, `NudgeTextToolCalls`, `ResumeTruncated`, `RetryDeferral`, `RetryAnnouncement` | 2551-2794, in that order |
| `TextReachesGate`, `GateBlocks`, `GatePasses` | 2796-3020 with `release-gate-coordinator.js` |
| `EmptyToolTurn`, `NudgeRepoMap`, `ToolBudgetSpent`, `StartBatch`, `AskUser`, `UserAnswers` | 3023-3197 |
| `ToolReturns`, `BatchThrows`, `BatchEnds` | 3199-3545 |
| `Cancel` | 660 |

The model, the tools and the user are the environment. What a reply says, which
files a tool changes, what a test run shows, whether Jev has an opinion, when
the abort comes: each is chosen freely among the cases the code tells apart. The
text of prompts, overlays and outputs is abstracted to its kind, and every
regular expression that classifies text to a free choice of its result.
`workspace` and `stall` are history: what is true of the files on disk, and how
many continuations followed one another with nothing having moved. No guard of
an action of the program reads them, except where the code itself looks at the
disk (the runner's detection, the harness's own run).

Two assumptions. A tool that changed a file is recorded as having done so: the
code takes the word of `write`, `edit` and the patch tool, and reads a shell's
changes off the disk; a write that timed out after taking effect, or a plugin
or MCP tool, is outside `AnswerIsVerified`. And the calls of a batch take
effect one at a time; their overlap is `ToolWave`.

### Checkpoints

`cps`, `open` and `redos` are `checkpoints`, `current` and `redoStack`; an entry
of a checkpoint keeps its `before`, its `after` (`None` until something is
noted) and `touched`. `disk` and `head` are the files and HEAD's tree.

| Actions | Code |
|---|---|
| `Begin` | `begin` with `_closeCurrent` and `_trim`; called by `native-ui.js:561-566` for a prompt, not for its continuations, which are part of the request here too |
| `ToolCaptures`, `ToolWrites`, `ToolFails` | `index.js` 3261-3263 and 3302-3308: captured, then noted only when the output is not an error. A tool that failed may have written |
| `ShellSnapshots`, `ShellBefore`, `ShellChanges`, `ShellCommits`, `ShellEnds`, `ShellAfter` | 3258-3264, 3312-3317: the two snapshots, the two hooks, and what the command does in between |
| `Undo`, `Redo` | `undo`, `redo`; refused while a turn runs (`commands/index.js` 555, 591) |
| `UserEdits` | the user's editor, at any time |

Abstracted: a content is a value and its signature is itself; directories,
ignored, renamed and executable files; a git command that fails; commands left
in the background; commits by the user. An undo is one step, though each of its
writes may fail. `truth` and `author` are history: for each request the states a
file had that are not its doing (`origin`), every state it had meanwhile
(`held`), and the files a tool changed while reporting failure (`silent`).

### ToolWave

| Actions | Code (`index.js`, unless named) |
|---|---|
| `Answer`, `WaveEnds` | 3143-3179 (identical searches of one answer are run once), 3381-3410 with `toolBatchExecutionGroups` (`turn-recovery.js` 240-257): `Promise.all` over one wave, then the next |
| `Refuse`, `ServeCached`, `StartHandler` | 3200-3273: the guard against repeats (804-831), the read cache (934-953), the snapshot before a shell |
| `See`, `Change` | the handler at work (external) |
| `Return`, `TimesOut`, `Abort` | 253-284: the race of the handler with its timer and the abort; the retry of `tool-executor.js` 18-37 |
| `LateChange`, `LateNothing` | a handler that lost the race is not stopped, nor a confirmation it waits for |
| `RecordSearch`, `RecordEdit`, `RecordShell`, `RecordTests` | 3285-3379: what was changed, then what was proved, then the memory of the turn |

The project is one file of code and a content is the number of the change that
made it. Calls of one kind have the same arguments: overlap is of interest where
calls meet. `made`, `tested` and the `version` of a record are history.

The code does not protect a call from what happens behind its back: a `bash` and
a `run_tests` of one answer share a wave, and the result of the tests is stamped
with the mutation count at the time it is *recorded*; a handler that was given up
may write later and no one counts it. `GreenIsCurrent` and `RefusalIsFounded`
are about every other change, and the model marks those two kinds of change so
that they, and only they, are excepted. `CacheIsCurrent` has no exception.

### Transcript

| Actions | Code |
|---|---|
| `Prompt`, `Send` | `index.js` 2003-2013, 2473-2502: `repairMessageHistory`, `validateMessageHistory` (`message-ledger.js` 117-266); an invalid history ends the turn |
| `AnswerText`, `AnswerCalls`, `RefuseCalls`, `Results`, `Abort` | 2852, 3023-3089, 3046-3056, 3423-3447, 3574-3595 |
| `ShrinkBegins`, `Shrunk` | 2381-2384, `lossyShrink` (`compressor.js` 336-388), around the await of Jev's opinion |
| `Prefetch` | 597-617 |
| `Compress`, `Compressed` | 2391-2428, 3558-3567 and `compress` (405-489), around the await of the summary |
| `CompressApply`, `CompressApplied`, `CompressUndo` | `/compress` (`commands/index.js` 1380-1385), `undo` (491-497) |

A message has a number, so two are the same object exactly when they are equal,
which is what the prefetched summary's check compares. Its content, and how many
tokens it takes, are left out: every threshold may or may not be reached. The
system prompt is left out; it is never compressed. So is what repair does to an
id that two calls share, which the ids a turn gives exclude, and the text that
may stand with a call and stays when repair drops the call. `said` is history:
the prompts, answers and results the conversation must account for.

`crossed` is set when messages read before an await are written back over newer
ones, or `/compress undo` drops what came after the compression. The turn cannot
do this alone; `/compress`, which looks at no turn that runs, can. The two
properties hold until then, and the hazards in `PROJECT.json` name the places.

### ShellSession

One shell process at a time, a chain of promises in front of it, and two framed
streams: the shell writes a sentinel to stderr, then one with the exit code to
stdout. A shell is named after the command it was started for.

| Actions | Code (`tools/bash-session.js`) |
|---|---|
| `Run`, `RunBlank`, `Start`, `StartAborted` | 399-410, `_runOne` to 607, `ensureStarted` 266-310 |
| `ReadStdout`, `ReadStderr`, `StderrEnds` | 483-508, 526-543, 510-524: a read takes any prefix of what the pipe holds |
| `GraceFires`, `Timeout`, `Abort`, `KillSession` | 435-446, 572-581, 562-570, 629-644 |
| `OnExit`, `OnClose`, `KillLands` | 289-298, 545-560, 610-626: the exit of the process and the end of its pipes are told apart, in any order the system may deliver them |
| `FramesErr`, `FramesOut` | what the shell makes of the frame, 99-107 |
| `Works`, `Dies`, `ChildEnds` | the commands and the shell (external): an odd command may close stderr, leave a child that holds the pipes, or end its shell |

What a command prints is one item per stream, so that a chunk boundary falls
before or after the text, the sentinel or the code; a sentinel is unique and is
one item. A killed shell nobody listens to is left out (`Concerned`). `ran` is
history: what the command printed and returned, and whether a read ended between
its sentinel and its code. Left out: the Windows pipe transport, the heartbeat,
the 10 MB limit, and a process that cannot be spawned.

### Session

`app/native-ui.js` as the owner of turns. One action is one macrotask: an event
handler, with what is left of `runAgent` and the save after it; `immediate` is
the queue of `setImmediate`.

| Actions | Code (`native-ui.js`, unless named) |
|---|---|
| `Prompt`, `RunImmediate` | 2533-2566, 543-601 (`runAgent`) |
| `StartLoop`, `StopLoop` | 619-678 with `loops/index.js` 119-187 |
| `GoLive`, `Ask`, `AnswerQuestion`, `GivesUp` | `index.js` 1956-2013 (the turn before is aborted); 1729-1750, 2677-2743; 1311-1364 |
| `Completes`, `Breaks`, `Rejects` | 1071-1176, 1178-1227, an exception before `run`'s `try` (`index.js` 2256-2285), each with 580-601 and `saveSession` |
| `Cancel`, `Watchdog` | 2687-2714 with `Agent.cancel`, 1794-1846 |
| `UseModel`, `NewSession`, `ResumeSession` | `rebuildAgent` 322-354; 2034-2054 |

`autoResumeDecision` (`auto-resume.js` 56-105) is `Resumes`, over the cases its
inputs fall in. `crossed` records what a turn began in spite of: another turn not
over, a continuation that waits, a loop not at its end; `stopped` the requests of
which a turn was cancelled or failed. A conversation is the set of requests in
it. Left out: the exit keys, pickers and palettes, an agent that could not be
made, and what a mission writes down for the screen.

## 3. Runs

| Run | Checks | Bounds |
|---|---|---|
| `turn_gate` | `TypeOK`, `EmissionsLegal`, `AnswerIsVerified` | 4 iterations, 3 tool calls in batches of one, a code file and a document, one gate retry, all verdicts, all initial suites: edit, verify, edit or verify again, answer. The continuations are off here, they do not read the gate |
| `turn_ends` | `BudgetsHold`, `StallsBounded`, `TurnEnds`, `KeepsContract` | 4 iterations, one tool call, batches of up to two, so that a batch may overrun; every recovery once; four continuations by one rule and two by the other, over lists of one item from every source: enough for each rule to follow the other twice. No files, since neither the budgets nor the ways out of the loop read them |
| `turn_bypass` | `EveryEndIsVerified` is violated | as `turn_gate`, 3 iterations |
| `wave` | `TypeOK`, `GreenIsCurrent`, `RefusalIsFounded`, `CacheIsCurrent`, `BatchEnds` | two answers: the first one of the pairs that overlap, are cut in two waves, or of which one call is not run, or a single call; the second a single call. Two changes, one read before a repeat is refused, one retry, an abort at any moment |
| `transcript` | `TypeOK`, `PairsStayTogether`, `NothingForgotten` | seven messages, of which two are spared by a compression; two compressions, so that the second covers the summary of the first; batches of two, so that a boundary may fall inside an exchange; one abort, one `/compress` command |
| `checkpoints_requests` | `UndoGivesBack`, `NewerKept` | one file, three states (two contents and absent), two requests, three changes by anyone: one for each request and one by the user, in any order |
| `checkpoints_limits` | `TypeOK`, `BeforeIsOld`, `UndoIsComplete` | two requests against one checkpoint kept, one copy kept, no dirty file copied, a content too large to copy; two files and one change, the least in which one file of an undo fails or is in conflict and the other is not |
| `checkpoints_wave` | `BeforeIsOld` is violated | two shell calls in one wave |
| `checkpoints_nogit` | `NewerKept` is violated | one shell outside git |
| `shell` | `TypeOK`, `OutputIsWhole`, `NoForeignOutput`, `CodeIsTheCommands`, `FrameIsAwaitedBriefly`, `NoStrayShell`, `ImplementsQueue`, `EveryCommandIsAnswered` | three commands: an odd one, an empty one, a plain one; each may exit with 0 or 1 or time out; one interrupt from outside. The least in which something is left behind by one command and there is another for it to reach |
| `session` | `TypeOK`, `ScreenFollowsTurn`, `OneTurnPerAgent`, `LimitIsRestored`, `WhatIsKnownIsSaved`, `OneUndoPerRequest`, `NothingStoppedComesBack`, `ComesToRest` | two requests, prompts or loops of two steps, one command, one automatic resume, two turns alive at once |
| `session_saved` | `SavedConversationKept` is violated | the same with one turn at a time |

A turn stops, the bounds stop the other runs, and a shell whose commands are
answered has nothing to do, so no run checks for deadlock; that nothing stops too
early is `TurnEnds`, `BatchEnds`, `EveryCommandIsAnswered` and `ComesToRest`.

The four violations are disagreements between the documentation and the code:

* `turn_bypass`. README.md:592-594 says a turn that changed code is not let end
  until the suite passes on the final code. The gate is asked only where a text
  reply is accepted: a turn that runs out of iterations, that is stopped for
  calling tools after they were withheld, or whose arguments the provider
  refused, ends as `complete` with neither the check nor the warning.
* `checkpoints_wave`. checkpoints.js:252-253 says the first state seen is the
  state before the request. Two `bash` calls of one batch run together, and each
  takes its own snapshot: the second may copy what the first has just written,
  and `/undo` then leaves it. With one shell at a time it holds
  (`checkpoints_limits`).
* `checkpoints_nogit`. checkpoints.js:23-26 says `/undo` does not restore over a
  file that changed after the request. Outside git, a file captured for a tool
  that failed and then named by a shell command is marked as touched without an
  after-state, and the check needs one. In git it holds
  (`checkpoints_requests`).
* `session_saved`. commands/index.js:349 says every turn writes the conversation
  to its session's file, and native-ui.js:2050 that the previous one is saved.
  `/use`, `/connect` and `/plugins` make a new agent, with no messages, and leave
  the session current: the next turn to end writes its conversation over the
  file, and what the session held is gone from it.

### What the code does, met on the way

Behaviour the models contain because the code has it. No document of the
repository says otherwise, so no run calls it a violation; where a property
makes an exception, this is the reason.

* Shell: a read that ends between the sentinel and the exit code yields code 0
  (bash-session.js:493-495): the exception in `CodeIsTheCommands`.
* Waves: a confirmation of `write` and `edit` is awaited inside the 20 s timer
  of the call; it times out, is retried with a second dialog, and the first, if
  answered, writes without being recorded. After an abort the handlers of later
  waves still start. A failed call counts as answered for the repeat guard, and
  its count is not reset when the workspace changes.
* Session: `/loop` runs its first step twice (loops/index.js:157,
  native-ui.js:648-651). `complete` empties the todo panel (1078) before it
  counts the open items (1106), so the rule that resumes a turn for open items
  never applies. A cancel or an error leaves `pendingAutoResume` set. Esc while a
  turn still starts aborts nothing. A prompt typed during a turn is dropped but
  gives the automatic turns their budget back. `/use` during a turn leaves it
  with nothing that can cancel it.
* Transcript: `lossyShrink` reads the conversation before it awaits
  (index.js:2382, 3549). A block whose results stand in another order is put
  right but not reported, so the caller keeps the old one and every later turn
  ends as invalid; `/compress` during a turn is the way there. A summary
  cancelled half way installs the degraded one.

### Fairness

* `AgentTurn`: `WF(AgentStep)`. Every await of those actions is bounded by a timer
  of the code: the silence and ceiling timers of a model call (2430-2502), the
  per-tool timeout, the timeout of the harness's test run. Nothing is assumed of
  the user: `UserAnswers`, `Cancel` and the markup of a stream are not fair, hence
  the exception in `TurnEnds`.
* `ToolWave`: that a wave ends once its calls have, and, for each call, that it is
  admitted, returns or times out, and is recorded. Not that a handler does its
  work, nor that a late one ever ends.
* `ShellSession`: that the promise callbacks run (`RunBlank`, `StartAborted`,
  `Start`) and that the timer of a command fires (`Timeout`). Nothing of the
  commands, their shells or the pipes, and nothing of the events they cause.
* `Session`: that `setImmediate` fires, that skills end being loaded (`GoLive`),
  and that a turn ends or the watchdog sees that nothing happens. The user does
  nothing, and a question may stay: the exception in `ComesToRest`.
* `Transcript` and `Checkpoints` state none; they have no liveness property.

## 4. Proofs

`AgentTurn_proofs` proves, for every value of the constants allowed by
`TurnAssumption`:

* `TypeCorrect`: `Spec => []TypeOK`. Inductive with `StreakEnds` (a turn whose
  malformed-call streak reached its limit is over), without which one more
  malformed batch would leave the counter's range.
* `EmissionsAlwaysLegal`: from `Phases`, which says for each `pc` which states
  the machine may be in, so that each emission finds the machine where it is
  legal.
* `BudgetsNeverOverrun`: from `BudgetInv`. The read-only budget needs the reason
  a batch may run after the limit: the model is on a malformed-call streak.
* `AnswersAreVerified`: from `EvidenceInv`. Its core, `Faithful`, relates the
  gate's stamps to the disk: evidence stamped with the current mutation count
  is evidence about the current files; `EditsCounted` says that a changed code
  file has been counted. An open gate then means a verified disk.
* `TurnImplementsContract`: each step of a turn is a step of `TurnContract` or
  leaves its variables alone.

On top of these it proves `StallsAlwaysBounded`, without a further
assumption. The two rules that continue a turn keep keys of different shapes, so
each forgets what the other saw; `StallInv` says why they still stop:

* progress left behind never comes back: files are only touched, and whatever a
  tool call does raises `calls`, so only the number of items done can return to
  what it was, by a reply that replaces the list;
* a reply may do that once in a turn (`todo.accepts`). Before it, Jev's rule has
  continued at most once, or the plan's at most twice and then with the nudge
  (`Early`); after it, at the same progress the items left are the same, so the
  rule that comes in continues once more and then finds its own key.

`Checkpoints_proofs` proves, for every value of the constants allowed by
`CheckpointAssumption`:

* `StoreTypeCorrect`: `Spec => []TypeOK`. Its core is that `Trim` keeps a suffix
  that is not empty, so the newest checkpoint stays the running request's.
* `BeforeAlwaysOld` and `UndoGivesOnlyWhatWas`, under `Alone`: a git work tree,
  and at most one shell. The assumption is needed; `checkpoints_wave` is the
  counterexample without it. `BeforeIsOld` is not inductive: what an entry will
  hold is decided by snapshots taken long before it is made. `EntriesOld`
  extends it to the entries nothing came of yet, and `UnseenOld` says, of each
  file the current checkpoint does not have, that what the shell call under way
  would infer for it is a state without the request: what the first snapshot
  read (before the command), HEAD's as it was then for a clean file (during it),
  and after it either that the second snapshot or HEAD's move tells the file, or
  that the disk still holds such a state. The undo theorem follows, since what
  an undo writes comes from the entries of its target (`UndoIs`).

`CheckpointsUndo_proofs` proves what an undo leaves alone, on top of it:

* `NewerAlwaysKept`, under `InGit` only (outside git a command's targets are marked
  as touched without a state to compare with). `HeldInv`: while a request runs, what
  its files hold is recorded as held, and every touched entry remembers as `after`
  a state recorded so; hence what an unforced undo overwrites was held.
* `UndoAlwaysComplete`, under `Alone`. `OthersOld` says of the files the current
  checkpoint has *not touched* what `UnseenOld` says of those it does not have: an
  entry captured before a tool that failed promises nothing. `LeftOld` carries it
  over to the requests that ended. A redo makes a file its request's again, so
  `RedosTouched` is needed: only files the request's checkpoint touched; and
  `Ordered`, since ids must tell checkpoints apart after `_trim`.

`Session_proofs` proves, under `SessionAssumption`, `SessionTypeCorrect` and the six
safety invariants of the `session` run:

* `ScreenAlwaysFollows`, `OneTurnOfEachAgent` and `KnownAlwaysSaved` are nearly
  inductive: a turn that is not cut still holds its agent's controller, and only
  the last to go live does (`HoldsInv`); what the agent knows and the file lacks
  is in the name of a turn alive.
* `LimitAlwaysRestored`, from `LimitInv`: while a loop holds the cap, `before` is
  the user's, even when a second loop starts over the first or `/use` swaps the
  agent in between.
* `OneUndoForEachRequest` and `StoppedStaysStopped`, from `OrderInv` and `UndoInv`:
  as long as nothing but a loop was crossed, at most one turn is alive, at most
  one continuation waits, never both; and the continuation that waits belongs to
  the request whose card is open.

`ShellSession_proofs` proves, under `ShellAssumption` and `NoneAssumption` (the
marker of absence is not a command nor an answer), `ShellTypeCorrect`,
`FrameAwaitedBriefly` and `NoShellAstray`. `OwnInv` says who owns what: only the
session's process can be alive and not signalled, and a process that is served is
the one `current` listens to. `ShellOutput_proofs` builds on it:

* `WorkInv` and `ServesInv` say, for the one shell that matters, what its pipes
  hold *relative to what was already read*: text, then sentinel, then code, of
  the command it serves, preceded on stderr only by what a command left whose
  answer was given as incomplete. No property of the run mentions the pipes, but
  none is inductive without this.
* `EndInv`: a stderr the session takes for ended is empty and stays so, although
  a new shell starts with one that is open.
* `AnswersInv`: each answer was right when it was given. `OutputAlwaysWhole`,
  `NoOutputOfOthers` and `CodeAlwaysTheCommands` follow.
* `SessionImplementsQueue`: `Spec => ImplementsQueue`, step by step under the
  refinement mapping: the start of a command is `Take`, a blank or aborted one
  `Refuse`, the frame written by a shell `Finish` (also of a command already given
  up), each way to settle `Answer`; that "done" is only said of a finished
  command is `AnswersInv` again.

`ToolWave_proofs` proves, under `WaveAssumption`, `WaveTypeCorrect` and the three
safety invariants of the `wave` run, `GreenAlwaysCurrent`, `RefusalAlwaysFounded` and
`CacheAlwaysCurrent`. They speak of the moments between two answers; `WaveInv`
is what must hold inside one:

* `CallsInv`: no plain change comes after what a call saw, until the call is
  recorded. A call that writes under the code's eyes is alone in its wave
  (`GroupsOf`, `OneByOneAlone`), and a one-shot command that overlaps such a
  call writes behind its back by definition. A read keeps its stamp no later
  than what it saw (`CacheIsCurrent` follows).
* `EvidenceInv`: every plain change newer than the green run, or than the answer a
  repeat would be refused for, is covered by a call still to be recorded
  (`Covered`): an edit that has written, or a shell command whose first snapshot
  is older. Recording that call closes the gate and moves the revision
  (`GateRecorded`), and when the answer is over no such call is left.

The exceptions are in the statement, not in an assumption: the proof needs that
changes behind a run's back and those of handlers given up are not plain.

`Transcript_proofs` proves, under `TranscriptAssumption`, the type invariant and the
two safety properties of the `transcript` run, and what they rest on in the code:
the repair and the boundary. What the model computes by a fold over a
conversation (`Repair` is a `FlattenSeq`) is proved too: the induction theorems of
the library take an operator, but the same induction stated of a *set* of numbers
(`NatSetInduction`) can be used, and gives induction over what a fold flattens
(`FlattenInduction`).

* `BoundarySplitsNothing`, `OrderedIsValid` and `RepairDropsOpenCall` are about
  conversations in order (`Paired`): every call but one that is the last message
  (`Open`) has its results right behind it, in its order. `safeHistoryKeepStart`
  splits none of these exchanges, so a compression leaves order behind
  (`CondensedPaired`); repair changes nothing where no call is open, and otherwise
  drops the open call and nothing else.
* `RepairIsValid` is about any conversation that uses no id twice (what repair
  does to a second use, renaming it, is not modelled): where repair reports a
  fault, what it returns passes `validateMessageHistory`. That it *reports* one is
  needed: a block whose results only stand in another order is put right without
  a report, and the caller goes on with what it had (see the hazards).
* `TranscriptTypeCorrect`: `Spec => []TypeOK`, from `TypeInv`, which says that every
  conversation kept anywhere is made of messages of the right form and that a
  compression that began is counted with those that are done.
* `PairsAlwaysTogether` and `NothingEverForgotten`, from `TalkInv`. Neither property
  is inductive, because a conversation is put back from elsewhere: what a
  compression or an elision was begun with, what `/compress undo` keeps and what
  the background summary covers come back into `messages` many steps later.
  `Sound` says of each that it is in order, and that it accounts for all that was
  said *if it holds the latest message* (`Fine`, `Alike`); a message appended since
  makes it out of date, and writing it back is then what `crossed` records. The
  call repair drops is safe to drop because it is not said before its results
  are.

Only model-checked: liveness (`TurnEnds`, the liveness of `KeepsContract`,
`BatchEnds`, `ComesToRest`, `EveryCommandIsAnswered`), which is out of the prover's
reach. Every other property of a passing run is a theorem.

## 5. Not modelled, and why

* Model client and providers: a call ends with a reply or with an error of some
  class, and `AgentTurn` chooses which. The retries, the fallback and the timers
  before that are over when the turn sees either.
* Stream parser, prompts, tool router, planner, lite mode, specialists, Jev's
  client: they turn text into a verdict. The verdict is a free choice in the
  modules that use it.
* Plan and lite turns, and nested turns: sub-agents and the orchestrator run
  `Agent.run` of another agent. `Begin` contains what the orchestrator leaves
  behind, and a sub-agent is a tool call. The module-wide sinks nested turns
  share are a hazard no property covers.
* One-shot and warm shells: one process per command and no state between them,
  so nothing to interleave but what the commands do to the files, which is in
  `ToolWave` and `Checkpoints`. The warm pool is used on Windows only.
* Approval and workspace policy: they decide on paths and on the text of
  commands; a refusal is one of the outcomes of a call.
* Plugins, MCP, browser and desktop drivers: request and reply with programs
  outside the repository; a tool call with a free outcome.
* Configuration, memory, secrets: files read, changed and written whole. Only
  the saved conversations are modelled, and a save is one step: a crash in the
  middle of it is a hazard the code does nothing about.
* Update and command line: run before or after a session, and share nothing with
  it.
* Rendering, skills, media tools, web studios, utilities: no state, or pure I/O.
