------------------------------ MODULE Transcript -------------------------------
(* The conversation an agent keeps (agents/message-ledger.js, compressor.js,  *)
(* and where agents/index.js calls them): the messages a turn appends, the    *)
(* repair and the validation before every request, the elision of old         *)
(* results, the compression of the older part, by the turn or by /compress,   *)
(* the summary prepared in the background, and /compress undo.                *)
(*                                                                            *)
(* The system prompt, messages[0], is left out. A message has a number, so    *)
(* that two are the same object exactly when they are equal; how many tokens  *)
(* it takes is open, so every threshold may or may not be reached.            *)
EXTENDS Naturals, Sequences, SequencesExt, FiniteSets

CONSTANTS
    KeepLast,       \* how many messages a compression spares
    MaxCompressions,\* MAX_COMPRESSIONS_PER_SESSION
    MaxBatch,       \* bound: calls in one answer
    MaxMessages,    \* bound: how many messages are appended
    MaxCommands,    \* bound: /compress apply and undo together
    MaxAborts       \* bound: turns the user stops

ASSUME TranscriptAssumption ==
    /\ KeepLast \in Nat /\ MaxCompressions \in Nat /\ MaxBatch \in Nat \ {0}
    /\ MaxMessages \in Nat /\ MaxCommands \in Nat /\ MaxAborts \in Nat

VARIABLES
    messages,   \* this.messages
    at,         \* what the turn does: idle, ready, shrinking, compressing, ...
    job,        \* the compression or elision the turn waits for
    command,    \* the compression /compress apply waits for
    prefetch,   \* _prefetchJob
    snapshot,   \* _snapshot
    count,      \* _sessionCount
    batch,      \* the ids of the calls that run
    aborted,    \* the turn's signal is aborted
    left,       \* history: what the latest compression left
    said,       \* history: the messages that must not be forgotten
    last,       \* history: the number of the latest message
    commands,   \* history: the commands given
    aborts,     \* history: the turns stopped
    crossed     \* history: messages were put back over newer ones

vars == <<messages, at, job, command, prefetch, snapshot, count, batch,
          aborted, left, said, last, commands, aborts, crossed>>

-------------------------------------------------------------------------------
(* Messages.                                                                  *)

Message(kind, ids, n) ==
    [kind |-> kind, ids |-> ids, n |-> n, covers |-> {}, cut |-> FALSE]
Numbers(ms) == (UNION {{ms[i].n} \cup ms[i].covers : i \in DOMAIN ms}) \ {0}
CallIds(ms) == UNION {ToSet(ms[i].ids) : i \in {j \in DOMAIN ms : ms[j].kind = "calls"}}

(* The results that follow message i without a gap.                           *)
Block(ms, i) == {j \in (i + 1)..Len(ms) : \A k \in (i + 1)..j : ms[k].kind = "result"}
Answers(ms, i) == [k \in 1..Cardinality(Block(ms, i)) |-> ms[i + k].ids[1]]
Calls(ms) == {i \in DOMAIN ms : ms[i].kind = "calls"}
Orphans(ms) ==
    {j \in DOMAIN ms : ms[j].kind = "result" /\ \A i \in Calls(ms) : j \notin Block(ms, i)}

(* validateMessageHistory: every call is followed by its results, in its      *)
(* order, and nothing else is a result.                                       *)
Valid(ms) ==
    /\ Orphans(ms) = {}
    /\ \A i \in Calls(ms) : Answers(ms, i) = ms[i].ids /\ IsInjective(ms[i].ids)
    /\ \A i, j \in Calls(ms) : i # j => ToSet(ms[i].ids) \cap ToSet(ms[j].ids) = {}

(* Of a sequence what is in a set, in its order: the calls with a result.     *)
Within(s, T) == FlattenSeq([k \in DOMAIN s |-> IF s[k] \in T THEN <<s[k]>> ELSE <<>>])

(* repairMessageHistory. A result in a block that answers none of its calls   *)
(* and results in another order are put right, but not reported: a caller     *)
(* that looks at "repaired" goes on with the history as it was. Left out: a   *)
(* second use of an id is renamed (FreshIds lets a turn make none), and text  *)
(* that stands with a call stays when the call goes (calls have no text       *)
(* here).                                                                     *)
Fixed(ms, i) ==
    LET answered == Within(ms[i].ids, ToSet(Answers(ms, i)))
        Of(id) == {j \in Block(ms, i) : ms[j].ids = <<id>>}
        result(id) == ms[CHOOSE j \in Of(id) : \A k \in Of(id) : j <= k]
    IN CASE ms[i].kind = "result" -> <<>>
         [] ms[i].kind = "calls" /\ answered = <<>> -> <<>>
         [] ms[i].kind = "calls" /\ answered # <<>> ->
              <<[ms[i] EXCEPT !.ids = answered]>>
              \o [k \in DOMAIN answered |-> result(answered[k])]
         [] OTHER -> <<ms[i]>>

Repaired(ms) ==
    \/ Orphans(ms) # {}
    \/ \E i \in Calls(ms) : \/ ~ToSet(ms[i].ids) \subseteq ToSet(Answers(ms, i))
                            \/ ~IsInjective(Answers(ms, i))

Repair_None(ms) == ms
Repair(ms) ==
    IF Repaired(ms) THEN FlattenSeq([i \in DOMAIN ms |-> Fixed(ms, i)]) ELSE ms

(* canonicalizeToolTurn: an id that is taken in the conversation is renamed.  *)
FreshIds_OfBatch(ms, k) == [c \in 1..k |-> c]
FreshIds(ms, k) ==
    SubSeq(SetToSeq(1..(Cardinality(CallIds(ms)) + k) \ CallIds(ms)), 1, k)

(* safeHistoryKeepStart: how many messages are not kept. The boundary moves   *)
(* back over results to the calls they answer.                                *)
Boundary_Plain(ms) == IF Len(ms) > KeepLast THEN Len(ms) - KeepLast ELSE 0
Boundary(ms) ==
    LET plain == IF Len(ms) > KeepLast THEN Len(ms) - KeepLast ELSE 0
        Starts(n) == n = 0 \/ n = Len(ms) \/ ms[n + 1].kind # "result"
        start == CHOOSE n \in 0..plain :
                    Starts(n) /\ \A k \in (n + 1)..plain : ~Starts(k)
    IN IF start > 0 /\ ms[start].kind = "calls" THEN start - 1 ELSE start

-------------------------------------------------------------------------------
NoJob == [busy |-> FALSE, fresh |-> FALSE, from |-> <<>>, taken |-> 0, covers |-> {}]
NoPrefetch == [busy |-> FALSE, prefix |-> <<>>, same |-> FALSE]

Init ==
    /\ messages = <<>> /\ at = "idle" /\ job = NoJob /\ command = NoJob
    /\ prefetch = NoPrefetch /\ snapshot = <<>> /\ count = 0 /\ batch = <<>>
    /\ aborted = FALSE /\ left = <<>>
    /\ said = {} /\ last = 0 /\ commands = 0 /\ aborts = 0 /\ crossed = FALSE

Room(k) == last + k <= MaxMessages

(* Repair makes new objects of every call and result.                         *)
Aged(ms) ==
    IF Repaired(ms) /\ \E i \in DOMAIN prefetch.prefix :
                         prefetch.prefix[i].kind \in {"calls", "result"}
      THEN [prefetch EXCEPT !.same = FALSE] ELSE prefetch

(* run(): repair, then the prompt.                                            *)
Prompt ==
    /\ at = "idle" /\ Room(1)
    /\ last' = last + 1 /\ said' = said \cup {last'}
    /\ messages' = Append(Repair(messages), Message("user", <<>>, last'))
    /\ prefetch' = Aged(messages)
    /\ at' = "ready" /\ aborted' = FALSE
    /\ UNCHANGED <<job, command, snapshot, count, batch, left, commands, aborts, crossed>>

(* lossyShrink: results before the last KeepLast messages are cut, but for a  *)
(* working set. The conversation is read before the await of Jev's opinion on *)
(* what to keep, and written after it.                                        *)
ShrinkBegins ==
    /\ at = "ready"
    /\ at' = "shrinking" /\ job' = [NoJob EXCEPT !.from = messages]
    /\ UNCHANGED <<messages, command, prefetch, snapshot, count, batch, aborted, left, said,
                   last, commands, aborts, crossed>>

Cuttable(ms) ==
    IF Len(ms) > KeepLast + 2
      THEN {i \in 1..(Len(ms) - KeepLast) : ms[i].kind = "result" /\ ~ms[i].cut} ELSE {}

Shrunk ==
    /\ at = "shrinking"
    /\ \E cuts \in SUBSET Cuttable(job.from) :
         messages' = [i \in DOMAIN job.from |->
                        IF i \in cuts THEN [job.from[i] EXCEPT !.cut = TRUE] ELSE job.from[i]]
    /\ crossed' = (crossed \/ messages # job.from)
    /\ at' = "ready" /\ job' = NoJob
    /\ UNCHANGED <<command, prefetch, snapshot, count, batch, aborted, left, said,
                   last, commands, aborts>>

(* prefetch(): a summary of what a compression now would take.                *)
Prefetch ==
    /\ at = "ready" /\ ~prefetch.busy /\ count < MaxCompressions
    /\ Boundary(messages) > 0
    /\ prefetch' = [busy |-> TRUE, prefix |-> SubSeq(messages, 1, Boundary(messages)),
                    same |-> TRUE]
    /\ UNCHANGED <<messages, at, job, command, snapshot, count, batch, aborted, left, said,
                   last, commands, aborts, crossed>>

-------------------------------------------------------------------------------
(* compress(): the conversation it works on is the one at the call, the       *)
(* caller puts the result over the one there is when the summary came.        *)

(* _takePrefetched: the summary is used while what it covers is still, object *)
(* for object, the head of the conversation.                                  *)
Usable_ByLength(ms) == prefetch.busy /\ Len(prefetch.prefix) <= Len(ms)
Usable(ms) == prefetch.busy /\ prefetch.same /\ IsPrefix(prefetch.prefix, ms)

(* A prefetched summary may prove degraded; then, as without one, what is     *)
(* before the boundary is summarised, and the snapshot is taken before that.  *)
Begun ==
    {[busy |-> TRUE, fresh |-> TRUE, from |-> messages, taken |-> Boundary(messages),
      covers |-> Numbers(SubSeq(messages, 1, Boundary(messages)))]}
    \cup IF Usable(messages)
           THEN {[busy |-> TRUE, fresh |-> FALSE, from |-> messages,
                  taken |-> Len(prefetch.prefix), covers |-> Numbers(prefetch.prefix)]}
           ELSE {}

Kept(j) == IF j.fresh THEN j.from ELSE snapshot

Finish(j) ==
    /\ messages' = <<[Message("summary", <<>>, 0) EXCEPT !.covers = j.covers],
                     Message("ack", <<>>, 0)>>
                   \o SubSeq(j.from, j.taken + 1, Len(j.from))
    /\ left' = messages'
    /\ snapshot' = IF j.fresh THEN snapshot ELSE j.from
    /\ count' = count + 1
    /\ crossed' = (crossed \/ messages # j.from)

(* Nothing before the boundary: the conversation stays as it is.              *)
Worth_Any(j) == TRUE
Worth(j) == j.taken > 0

(* By the turn, over the threshold. The hard guard's compression, which the   *)
(* cap does not hold back, has the same bound here.                           *)
Compress ==
    /\ at = "ready" /\ count < MaxCompressions
    /\ \E j \in Begun : Worth(j) /\ job' = j /\ snapshot' = Kept(j)
    /\ prefetch' = NoPrefetch
    /\ at' = "compressing"
    /\ UNCHANGED <<messages, command, count, batch, aborted, left, said,
                   last, commands, aborts, crossed>>

(* A summary never fails: without a model there is the degraded one, also     *)
(* after an abort.                                                            *)
Compressed ==
    /\ at = "compressing"
    /\ Finish(job)
    /\ job' = NoJob /\ at' = "ready"
    /\ UNCHANGED <<command, prefetch, batch, aborted, said, last, commands, aborts>>

(* /compress apply, which looks at no turn that runs.                         *)
CompressApply ==
    /\ ~command.busy /\ commands < MaxCommands /\ count < MaxCompressions
    /\ Boundary(messages) > 2
    /\ commands' = commands + 1
    /\ \E j \in Begun : command' = j /\ snapshot' = Kept(j)
    /\ prefetch' = NoPrefetch
    /\ UNCHANGED <<messages, at, job, count, batch, aborted, left, said,
                   last, aborts, crossed>>

CompressApplied ==
    /\ command.busy
    /\ Finish(command)
    /\ command' = NoJob
    /\ UNCHANGED <<at, job, prefetch, batch, aborted, said, last, commands, aborts>>

(* /compress undo.                                                            *)
CompressUndo ==
    /\ snapshot # <<>> /\ commands < MaxCommands
    /\ commands' = commands + 1
    /\ messages' = snapshot /\ snapshot' = <<>>
    /\ count' = IF count = 0 THEN 0 ELSE count - 1
    /\ crossed' = (crossed \/ messages \notin {left, snapshot})
    /\ UNCHANGED <<at, job, command, prefetch, batch, aborted, left, said, last, aborts>>

-------------------------------------------------------------------------------
(* The turn, as far as it writes the conversation.                            *)

(* Before the provider is called: repair, validate. An invalid conversation   *)
(* ends the turn, as an abort does.                                           *)
Send ==
    /\ at = "ready"
    /\ messages' = Repair(messages)
    /\ prefetch' = Aged(messages)
    /\ at' = IF Valid(messages') /\ ~aborted THEN "model" ELSE "idle"
    /\ UNCHANGED <<job, command, snapshot, count, batch, aborted, left, said, last,
                   commands, aborts, crossed>>

(* An answer in words, accepted or followed by a recovery.                    *)
AnswerText ==
    /\ at = "model" /\ Room(1)
    /\ last' = last + 1 /\ said' = said \cup {last'}
    /\ messages' = Append(messages, Message("text", <<>>, last'))
    /\ at' \in {"idle", "ready"}
    /\ UNCHANGED <<job, command, prefetch, snapshot, count, batch, aborted, left,
                   commands, aborts, crossed>>

(* Calls. A batch the turn refuses is not kept.                               *)
AnswerCalls ==
    /\ at = "model"
    /\ \E k \in 1..MaxBatch :
         /\ Room(k + 1)
         /\ batch' = FreshIds(messages, k)
         /\ last' = last + 1
         /\ messages' = Append(messages, Message("calls", batch', last'))
    /\ at' = "tools"
    /\ UNCHANGED <<job, command, prefetch, snapshot, count, aborted, left, said,
                   commands, aborts, crossed>>

RefuseCalls ==
    /\ at = "model"
    /\ at' = "ready"
    /\ UNCHANGED <<messages, job, command, prefetch, snapshot, count, batch, aborted, left,
                   said, last, commands, aborts, crossed>>

(* One result for every call, in the order of the calls.                      *)
Results ==
    /\ at = "tools" /\ Room(Len(batch))
    /\ messages' = messages \o [c \in DOMAIN batch |->
                                  Message("result", <<batch[c]>>, last + c)]
    /\ last' = last + Len(batch)
    /\ said' = said \cup ((last + 1)..last')
    /\ batch' = <<>> /\ at' = "ready"
    /\ UNCHANGED <<job, command, prefetch, snapshot, count, aborted, left,
                   commands, aborts, crossed>>

(* Stopped, or a provider's error: no result of a batch is kept. A wait for a *)
(* summary goes on to its end.                                                *)
Abort ==
    /\ at # "idle" /\ ~aborted /\ aborts < MaxAborts
    /\ aborts' = aborts + 1
    /\ aborted' = TRUE
    /\ at' = IF at \in {"model", "tools"} THEN "idle" ELSE at
    /\ batch' = <<>>
    /\ UNCHANGED <<messages, job, command, prefetch, snapshot, count, left, said, last,
                   commands, crossed>>

Next ==
    \/ Prompt \/ ShrinkBegins \/ Shrunk \/ Prefetch
    \/ Compress \/ Compressed \/ CompressApply \/ CompressApplied \/ CompressUndo
    \/ Send \/ AnswerText \/ AnswerCalls \/ RefuseCalls \/ Results \/ Abort

Spec == Init /\ [][Next]_vars

-------------------------------------------------------------------------------
(* Properties.                                                                *)

Kinds == {"user", "text", "calls", "result", "summary", "ack"}
IsMessages(ms) ==
    \A i \in DOMAIN ms :
        /\ ms[i].kind \in Kinds /\ ms[i].n \in 0..MaxMessages
        /\ ms[i].covers \subseteq 1..MaxMessages /\ ms[i].cut \in BOOLEAN
        /\ ms[i].kind = "result" => Len(ms[i].ids) = 1
        /\ ms[i].kind = "calls" <=> Len(ms[i].ids) > 0 /\ ms[i].kind # "result"

(* Every variable has its type; a compression that begins takes something and *)
(* leaves what follows it.                                                    *)
TypeOK ==
    /\ IsMessages(messages) /\ IsMessages(snapshot)
    /\ at \in {"idle", "ready", "shrinking", "compressing", "model", "tools"}
    /\ job.busy <=> at = "compressing"
    /\ \A j \in {job, command} : j.busy => j.taken \in 1..Len(j.from)
    /\ count \in 0..(MaxCompressions + MaxCommands) /\ commands \in 0..MaxCommands
    /\ last \in 0..MaxMessages /\ said \subseteq 1..last
    /\ batch # <<>> => at = "tools"

(* What a turn works with holds every call together with its results, in      *)
(* order, and no two calls with one id: neither a compression at any place of *)
(* an exchange, nor a turn stopped in the middle of one, nor an id the        *)
(* provider gives twice breaks a pair - while nothing is put back over newer  *)
(* messages (safeHistoryKeepStart, repairMessageHistory).                     *)
PairsStayTogether == at \in {"ready", "shrinking", "compressing", "model"} /\ ~crossed => Valid(messages)

(* Nothing said is forgotten: every prompt, answer and result is in the       *)
(* conversation or was covered by the summary that stands for it, however the *)
(* summary prepared in the background, elision, repair and undo meet.         *)
NothingForgotten == ~crossed => said \subseteq Numbers(messages)
===============================================================================
