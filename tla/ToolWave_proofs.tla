---------------------------- MODULE ToolWave_proofs ----------------------------
(* Proofs about ToolWave: for every set of batches and every bound, what a    *)
(* turn takes for verified, already answered or cached is about the file as   *)
(* it is, up to the changes the code cannot see.                              *)
EXTENDS ToolWave, SequenceTheorems, FiniteSetTheorems, TLAPS

Stamp(x) == x \in {None} \cup 0..Disk

GateInv ==
    /\ gate \in Gates /\ ~gate.suiteMissing
    /\ gate.lastSuite.seq <= gate.mutationSeq
    /\ revision \in 0..gate.mutationSeq

BatchInv ==
    /\ batches \in 0..MaxBatches
    /\ wave = 0 => batch = <<>> /\ calls = <<>>
    /\ wave # 0 => batches # 0 /\ batch \in Batches[batches] /\ wave \in 1..Len(Groups(batch))
    /\ calls \in Seq(Calls) /\ Len(calls) = Len(batch)
    /\ made \in Seq({"plain", "behind", "late"}) /\ Disk <= MaxChanges
    /\ late \in Nat /\ aborted \in BOOLEAN

MemoryInv ==
    /\ known \in [Repeatable -> [count : Nat, revision : Nat, failed : BOOLEAN,
                                 print : {None} \cup 0..Disk, version : {None} \cup 0..Disk]]
    /\ \A k \in Repeatable : known[k].revision <= revision
    /\ cache \subseteq [key : 0..Disk, version : 0..Disk]
    /\ \A e \in cache : e.key <= e.version
    /\ tested \in {None} \cup 0..Disk

TypeInv == GateInv /\ BatchInv /\ MemoryInv

(* What a call has taken down of the file, once its handler has started and   *)
(* until it is recorded.                                                      *)
Under(call) == call.at \in {"runs", "over"}
CallFine(c, call) ==
    /\ Stamp(call.saw) /\ Stamp(call.before) /\ Stamp(call.key)
    /\ ~Under(call) => call.saw = None /\ ~call.applied
    /\ Under(call) => c \in Group
    /\ Under(call) /\ batch[c] \in Shells => call.before # None
    /\ Under(call) /\ batch[c] = "read" =>
         call.key # None /\ (call.saw # None => call.key <= call.saw)
    /\ call.at = "over" => call.result \in {"ok", "red", "error"}
    /\ call.at = "over" /\ call.result = "ok" /\ batch[c] \in Repeatable \cup {"tests", "check"}
         => call.saw # None
    /\ call.saw # None => PlainAfter(call.saw) = {}
CallsInv == \A c \in DOMAIN calls : CallFine(c, calls[c])

(* A change whose record is still to come.                                    *)
BringsAs(c, call, v) ==
    /\ Under(call)
    /\ \/ batch[c] \in Shells /\ call.before < v
       \/ /\ batch[c] \in Mutations /\ call.applied
          /\ call.at = "over" => call.result = "ok"
Brings(c, v) == BringsAs(c, calls[c], v)
Covered(x) == \A v \in PlainAfter(x) : \E c \in DOMAIN calls : Brings(c, v)

EvidenceInv ==
    ~aborted =>
        /\ Evaluate(gate, TRUE) = "open" => Covered(tested)
        /\ \A k \in Repeatable :
              known[k].count > 0 /\ known[k].revision = revision /\ ~known[k].failed
              => Covered(known[k].version)

(* What holds inside an answer as well as between two.                       *)
WaveInv == TypeInv /\ CallsInv /\ EvidenceInv

-------------------------------------------------------------------------------
LEMMA ConstantTypes ==
    /\ MaxBatches \in Nat /\ MaxChanges \in Nat /\ MaxRetries \in Nat
    /\ \A n \in 1..MaxBatches : Batches[n] \subseteq Seq(Kinds) \ {<<>>}
  BY WaveAssumption

(* Waves one after the other hold one call each.                              *)
LEMMA OneByOneAlone ==
    ASSUME NEW run, IsFiniteSet(run), run \subseteq Nat, run # {}
    PROVE  /\ OneByOne(run) \in Seq(SUBSET run)
           /\ Len(OneByOne(run)) \in Nat \ {0}
           /\ \A w \in 1..Len(OneByOne(run)) : \A i, j \in OneByOne(run)[w] : i = j
  <1>1. Cardinality(run) \in Nat \ {0}
    BY FS_CardinalityType, FS_EmptySet
  <1> DEFINE Rank(i) == Cardinality({j \in run : j < i})
             Wave(n) == {i \in run : Rank(i) = n - 1}
  <1>2. OneByOne(run) = [n \in 1..Cardinality(run) |-> Wave(n)]
    BY DEF OneByOne
  <1>3. ASSUME NEW i \in run, NEW j \in run, i < j
        PROVE  Rank(i) # Rank(j)
    <2>1. {k \in run : k < j} \in SUBSET run
      OBVIOUS
    <2>2. IsFiniteSet({k \in run : k < j})
      BY <2>1, FS_Subset
    <2>3. \A k \in run : k \in Nat
      OBVIOUS
    <2>4. \A k \in run : k < i => k < j
      BY <1>3, <2>3
    <2>5. {k \in run : k < i} \in SUBSET {k \in run : k < j}
      BY <2>4
    <2>6. i \in {k \in run : k < j} /\ i \notin {k \in run : k < i}
      BY <1>3, <2>3
    <2> QED BY <2>2, <2>5, <2>6, FS_Subset
  <1> HIDE DEF Rank
  <1>4. ASSUME NEW n, NEW i \in Wave(n), NEW j \in Wave(n)
        PROVE  i = j
    <2>1. i \in run /\ j \in run /\ Rank(i) = Rank(j)
      OBVIOUS
    <2>2. i \in Nat /\ j \in Nat
      BY <2>1
    <2> QED BY <1>3, <2>1, <2>2
  <1>5. \A n : Wave(n) \in SUBSET run
    OBVIOUS
  <1> HIDE DEF Wave
  <1>6. /\ [n \in 1..Cardinality(run) |-> Wave(n)] \in Seq(SUBSET run)
        /\ Len([n \in 1..Cardinality(run) |-> Wave(n)]) = Cardinality(run)
    BY <1>1, <1>5
  <1> QED BY <1>1, <1>2, <1>4, <1>6

(* A wave is made of calls of the answer, and one that writes is alone in it. *)
LEMMA GroupsOf ==
    ASSUME NEW b \in Seq(Kinds) \ {<<>>}
    PROVE  /\ Len(Groups(b)) \in Nat \ {0}
           /\ \A w \in 1..Len(Groups(b)) :
                /\ Groups(b)[w] \subseteq DOMAIN b
                /\ \A i, j \in Groups(b)[w] : b[i] \in Stateful \cup Mutations => j = i
  <1> DEFINE run == Executable(b)
             maps == {i \in run : b[i] = "map"}
             rest == run \ maps
  <1>1. Len(b) \in Nat \ {0} /\ DOMAIN b = 1..Len(b)
    BY EmptySeq
  <1>2. run \subseteq 1..Len(b) /\ 1 \in run
    BY <1>1 DEF Executable
  <1>3. IsFiniteSet(run)
    <2>1. IsFiniteSet(1..Len(b))
      BY <1>1, FS_Interval
    <2> HIDE DEF run
    <2> QED BY <1>2, <2>1, FS_Subset
  <1>4. CASE \E i \in run : b[i] \in Stateful \cup Mutations
    <2>1. Groups(b) = OneByOne(run)
      BY <1>4 DEF Groups
    <2>2. /\ OneByOne(run) \in Seq(SUBSET run) /\ Len(OneByOne(run)) \in Nat \ {0}
          /\ \A w \in 1..Len(OneByOne(run)) : \A i, j \in OneByOne(run)[w] : i = j
      BY <1>1, <1>2, <1>3, OneByOneAlone
    <2> HIDE DEF run
    <2>3. \A w \in 1..Len(OneByOne(run)) : OneByOne(run)[w] \subseteq run
      BY <2>2
    <2> QED BY <1>1, <1>2, <2>1, <2>2, <2>3
  <1>5. CASE ~\E i \in run : b[i] \in Stateful \cup Mutations
    <2>0. \A i \in run : ~(b[i] \in Stateful \cup Mutations)
      BY <1>5
    <2>1. Groups(b) \in {<<maps, rest>>, <<run>>}
      BY <1>5 DEF Groups
    <2>2. maps \subseteq run /\ rest \subseteq run
      OBVIOUS
    <2> HIDE DEF run, maps, rest
    <2>3. CASE Groups(b) = <<maps, rest>>
      <3>1. Len(Groups(b)) = 2 /\ \A w \in 1..2 : Groups(b)[w] \in {maps, rest}
        BY <2>3
      <3>2. \A w \in 1..Len(Groups(b)) : Groups(b)[w] \subseteq run
        BY <2>2, <3>1
      <3>3. ASSUME NEW w \in 1..Len(Groups(b)), NEW i \in Groups(b)[w]
            PROVE  i \in DOMAIN b /\ ~(b[i] \in Stateful \cup Mutations)
        BY <1>1, <1>2, <2>0, <3>2
      <3>4. Len(Groups(b)) \in Nat \ {0}
        BY <3>1
      <3> QED BY <3>3, <3>4
    <2>4. CASE Groups(b) = <<run>>
      <3>1. Len(Groups(b)) = 1 /\ \A w \in 1..1 : Groups(b)[w] = run
        BY <2>4
      <3>2. \A w \in 1..Len(Groups(b)) : Groups(b)[w] \subseteq run
        BY <3>1
      <3>3. ASSUME NEW w \in 1..Len(Groups(b)), NEW i \in Groups(b)[w]
            PROVE  i \in DOMAIN b /\ ~(b[i] \in Stateful \cup Mutations)
        BY <1>1, <1>2, <2>0, <3>2
      <3>4. Len(Groups(b)) \in Nat \ {0}
        BY <3>1
      <3> QED BY <3>3, <3>4
    <2> QED BY <2>1, <2>3, <2>4
  <1> QED BY <1>4, <1>5

(* The calls of the wave under way.                                           *)
LEMMA GroupFacts ==
    ASSUME BatchInv, wave # 0
    PROVE  /\ batch \in Seq(Kinds) \ {<<>>} /\ Len(batch) \in Nat
           /\ DOMAIN batch = 1..Len(batch) /\ DOMAIN calls = 1..Len(batch)
           /\ \A c \in DOMAIN calls : batch[c] \in Kinds /\ calls[c] \in Calls
           /\ Group \subseteq DOMAIN calls /\ IsFiniteSet(Group)
           /\ \A i, j \in Group : batch[i] \in Stateful \cup Mutations => j = i
           /\ Len(Groups(batch)) \in Nat \ {0}
  <1>1. batch \in Seq(Kinds) \ {<<>>}
    <2>1. batches \in 1..MaxBatches
      BY ConstantTypes DEF BatchInv
    <2> QED BY <2>1, ConstantTypes DEF BatchInv
  <1>2. Len(batch) \in Nat /\ DOMAIN batch = 1..Len(batch) /\ DOMAIN calls = 1..Len(batch)
    BY <1>1 DEF BatchInv
  <1>3. \A c \in DOMAIN calls : batch[c] \in Kinds /\ calls[c] \in Calls
    BY <1>1, <1>2 DEF BatchInv
  <1>4. /\ Len(Groups(batch)) \in Nat \ {0}
        /\ Group \subseteq DOMAIN batch
        /\ \A i, j \in Group : batch[i] \in Stateful \cup Mutations => j = i
    BY <1>1, GroupsOf DEF BatchInv, Group
  <1>5. IsFiniteSet(Group)
    <2>1. IsFiniteSet(1..Len(batch))
      BY <1>2, FS_Interval
    <2> QED BY <1>2, <1>4, <2>1, FS_Subset
  <1> QED BY <1>1, <1>2, <1>3, <1>4, <1>5

LEMMA CallFields ==
    ASSUME NEW r \in Calls
    PROVE  /\ r.at \in {"waits", "runs", "over", "done"}
           /\ r.saw \in {None} \cup 0..MaxChanges /\ r.before \in {None} \cup 0..MaxChanges
           /\ r.key \in {None} \cup 0..MaxChanges
           /\ r.tries \in 0..MaxRetries /\ r.applied \in BOOLEAN
           /\ r.result \in {"none", "ok", "red", "error", "refused", "cached"}
  BY DEF Calls

LEMMA MadeTypes ==
    ASSUME BatchInv
    PROVE  /\ Disk \in Nat /\ Disk <= MaxChanges /\ Disk = Len(made)
           /\ made \in Seq({"plain", "behind", "late"})
           /\ MaxChanges \in Nat
  BY ConstantTypes DEF BatchInv, Disk

LEMMA NewCallType == NewCall \in Calls
  BY ConstantTypes DEF NewCall, Calls

(* One call moves.                                                            *)
LEMMA CallMoves ==
    ASSUME BatchInv, wave # 0, NEW c \in DOMAIN calls, NEW r \in Calls, Moves(c, r)
    PROVE  /\ calls' \in Seq(Calls) /\ Len(calls') = Len(calls)
           /\ DOMAIN calls' = DOMAIN calls
           /\ calls'[c] = r
           /\ \A d \in DOMAIN calls : d # c => calls'[d] = calls[d]
  <1>1. calls \in Seq(Calls) /\ DOMAIN calls = 1..Len(calls) /\ Len(calls) \in Nat
    BY DEF BatchInv
  <1>2. calls' = [calls EXCEPT ![c] = r]
    BY DEF Moves
  <1>3. calls' \in Seq(Calls) /\ Len(calls') = Len(calls)
    BY <1>1, <1>2, ExceptSeq
  <1> QED BY <1>1, <1>2, <1>3

LEMMA OneCallMoves ==
    ASSUME BatchInv, CallsInv, wave # 0, NEW c \in DOMAIN calls, NEW r \in Calls, Moves(c, r),
           UNCHANGED <<batch, wave, made>>, CallFine(c, r)
    PROVE  CallsInv'
  <1>1. DOMAIN calls' = DOMAIN calls /\ \A d \in DOMAIN calls : calls'[d] \in {r, calls[d]}
    BY CallMoves
  <1>2. calls'[c] = r /\ \A d \in DOMAIN calls : d # c => calls'[d] = calls[d]
    BY CallMoves
  <1>3. \A d \in DOMAIN calls : CallFine(d, calls'[d])
    BY <1>2 DEF CallsInv
  <1>4. ASSUME NEW d \in DOMAIN calls
        PROVE  CallFine(d, calls[d])'
    <2>1. CallFine(d, calls'[d])
      BY <1>3
    <2> QED BY <2>1 DEF CallFine, Under, Stamp, Disk, Group, PlainAfter
  <1> QED BY <1>1, <1>4 DEF CallsInv

(* What a version leaves out stays covered.                                   *)
LEMMA CoveredStays ==
    ASSUME BatchInv, wave # 0, NEW c \in DOMAIN calls, NEW r \in Calls, Moves(c, r),
           UNCHANGED <<batch, made>>,
           \A v \in 1..Disk : Brings(c, v) => BringsAs(c, r, v)
    PROVE  \A x : Covered(x) => Covered(x)'
  <1>1. DOMAIN calls' = DOMAIN calls /\ \A d \in DOMAIN calls : d # c => calls'[d] = calls[d]
    BY CallMoves
  <1>2. ASSUME NEW d \in DOMAIN calls, NEW v \in 1..Disk, Brings(d, v)
        PROVE  Brings(d, v)'
    <2>1. CASE d = c
      <3>1. calls'[c] = r /\ BringsAs(c, r, v)
        BY <1>2, <2>1, CallMoves
      <3> QED BY <2>1, <3>1 DEF Brings, BringsAs, Under
    <2>2. CASE d # c
      BY <1>1, <1>2, <2>2 DEF Brings, BringsAs, Under
    <2> QED BY <2>1, <2>2
  <1>3. ASSUME NEW x, Covered(x)
        PROVE  Covered(x)'
    <2>1. PlainAfter(x)' = PlainAfter(x) /\ PlainAfter(x) \subseteq 1..Disk
      BY DEF PlainAfter, Disk
    <2> QED BY <1>1, <1>2, <1>3, <2>1 DEF Covered
  <1> QED BY <1>3

-------------------------------------------------------------------------------
(* Steps that leave the memory of the turn alone.                             *)
LEMMA BatchStays ==
    ASSUME BatchInv, wave # 0, NEW c \in DOMAIN calls, NEW r \in Calls, Moves(c, r),
           UNCHANGED <<batch, wave, made, batches>>, late' \in Nat, aborted' \in BOOLEAN
    PROVE  BatchInv'
  <1>1. calls' \in Seq(Calls) /\ Len(calls') = Len(calls)
    BY CallMoves
  <1> QED BY <1>1 DEF BatchInv, Disk

LEMMA MemoryStays ==
    ASSUME TypeInv, UNCHANGED <<gate, revision, known, cache, tested, made>>
    PROVE  GateInv' /\ MemoryInv'
  BY DEF TypeInv, GateInv, MemoryInv, Disk

LEMMA EvidenceStays ==
    ASSUME EvidenceInv, UNCHANGED <<gate, revision, known, tested>>, ~aborted' => ~aborted,
           \A x : Covered(x) => Covered(x)'
    PROVE  EvidenceInv'
  BY DEF EvidenceInv

LEMMA HandlerStep ==
    ASSUME WaveInv, wave # 0, NEW c \in DOMAIN calls, NEW r \in Calls, Moves(c, r),
           UNCHANGED <<batch, wave, made, gate, revision, known, cache, tested, aborted, batches>>,
           late' \in Nat, CallFine(c, r),
           \A v \in 1..Disk : Brings(c, v) => BringsAs(c, r, v)
    PROVE  WaveInv'
  <1>1. TypeInv /\ BatchInv /\ CallsInv /\ EvidenceInv
    BY DEF WaveInv, TypeInv
  <1>2. aborted' \in BOOLEAN
    BY <1>1 DEF BatchInv
  <1>3. BatchInv'
    BY <1>1, <1>2, BatchStays
  <1>4. CallsInv'
    BY <1>1, OneCallMoves
  <1>5. \A x : Covered(x) => Covered(x)'
    BY <1>1, CoveredStays
  <1>6. EvidenceInv'
    BY <1>1, <1>5, EvidenceStays
  <1>7. GateInv' /\ MemoryInv'
    BY <1>1, MemoryStays
  <1> QED BY <1>3, <1>4, <1>6, <1>7 DEF WaveInv, TypeInv

(* What is known of a call of the wave.                                       *)
LEMMA AtFacts ==
    ASSUME WaveInv, NEW c \in DOMAIN calls, NEW place, At(c, place)
    PROVE  /\ wave # 0 /\ c \in Group /\ calls[c].at = place
           /\ calls[c] \in Calls /\ batch[c] \in Kinds /\ CallFine(c, calls[c])
           /\ DOMAIN calls = 1..Len(batch) /\ Len(batch) \in Nat
  BY GroupFacts DEF At, WaveInv, TypeInv, CallsInv

LEMMA StartStep ==
    ASSUME WaveInv, NEW c \in DOMAIN calls, StartHandler(c)
    PROVE  WaveInv'
  <1> DEFINE r == [calls[c] EXCEPT
           !.at = IF aborted THEN "over" ELSE "runs",
           !.result = IF aborted THEN "error" ELSE "none",
           !.before = IF batch[c] \in Shells THEN Disk ELSE None,
           !.key = IF batch[c] = "read" THEN Disk ELSE None]
  <1>1. /\ wave # 0 /\ c \in Group /\ calls[c].at = "waits"
        /\ calls[c] \in Calls /\ batch[c] \in Kinds /\ CallFine(c, calls[c])
    BY AtFacts DEF StartHandler
  <1>2. Disk \in Nat /\ Disk <= MaxChanges
    BY MadeTypes DEF WaveInv, TypeInv
  <1>3. r \in Calls
    <2>1. /\ (IF batch[c] \in Shells THEN Disk ELSE None) \in {None} \cup 0..MaxChanges
          /\ (IF batch[c] = "read" THEN Disk ELSE None) \in {None} \cup 0..MaxChanges
      BY <1>2
    <2>2. \A b, k \in {None} \cup 0..MaxChanges, a \in {"over", "runs"}, e \in {"error", "none"} :
            [calls[c] EXCEPT !.at = a, !.result = e, !.before = b, !.key = k] \in Calls
      BY <1>1 DEF Calls
    <2> QED BY <2>1, <2>2
  <1>4. Moves(c, r)
    BY DEF StartHandler
  <1>5. /\ UNCHANGED <<batch, wave, made, gate, revision, known, cache, tested, aborted, batches>>
        /\ late' \in Nat
    BY DEF StartHandler, WaveInv, TypeInv, BatchInv
  <1>6. calls[c].saw = None /\ ~calls[c].applied /\ ~Under(calls[c])
    BY <1>1 DEF CallFine, Under
  <1>7. /\ r.saw = None /\ ~r.applied /\ r.at \in {"runs", "over"}
        /\ r.before \in {None, Disk} /\ r.key \in {None, Disk}
        /\ batch[c] \in Shells => r.before = Disk
        /\ batch[c] = "read" => r.key = Disk
        /\ r.at = "over" => r.result = "error"
    BY <1>1, <1>3, <1>6 DEF Calls
  <1> HIDE DEF r
  <1>8. CallFine(c, r)
    BY <1>1, <1>2, <1>7 DEF CallFine, Under, Stamp, None
  <1>9. \A v \in 1..Disk : ~Brings(c, v)
    BY <1>6 DEF Brings, BringsAs
  <1> QED BY <1>1, <1>3, <1>4, <1>5, <1>8, <1>9, HandlerStep

LEMMA SeeStep ==
    ASSUME WaveInv, NEW c \in DOMAIN calls, See(c)
    PROVE  WaveInv'
  <1> DEFINE r == [calls[c] EXCEPT !.saw = Disk]
  <1>1. /\ wave # 0 /\ c \in Group /\ calls[c].at = "runs"
        /\ calls[c] \in Calls /\ batch[c] \in Kinds /\ CallFine(c, calls[c])
    BY AtFacts DEF See
  <1>2. Disk \in Nat /\ Disk <= MaxChanges
    BY MadeTypes DEF WaveInv, TypeInv
  <1>3. r \in Calls
    BY <1>1, <1>2 DEF Calls
  <1>4. Moves(c, r)
    BY DEF See
  <1>5. /\ UNCHANGED <<batch, wave, made, gate, revision, known, cache, tested, aborted, batches>>
        /\ late' \in Nat
    BY DEF See, WaveInv, TypeInv, BatchInv
  <1>6. /\ r.saw = Disk /\ r.applied = calls[c].applied /\ r.at = "runs"
        /\ r.before = calls[c].before /\ r.key = calls[c].key
    BY <1>1 DEF Calls
  <1>7. PlainAfter(Disk) = {}
    BY <1>2 DEF PlainAfter
  <1>8. batch[c] = "read" => calls[c].key # None /\ calls[c].key <= Disk
    BY <1>1, <1>2 DEF CallFine, Stamp, Under, None
  <1> HIDE DEF r
  <1>9. CallFine(c, r)
    BY <1>1, <1>2, <1>6, <1>7, <1>8 DEF CallFine, Under, Stamp, None
  <1>10. \A v \in 1..Disk : Brings(c, v) => BringsAs(c, r, v)
    BY <1>1, <1>6 DEF Brings, BringsAs, Under
  <1> QED BY <1>1, <1>3, <1>4, <1>5, <1>9, <1>10, HandlerStep

LEMMA ReturnStep ==
    ASSUME WaveInv, NEW c \in DOMAIN calls, Return(c)
    PROVE  WaveInv'
  <1>1. /\ wave # 0 /\ c \in Group /\ calls[c].at = "runs"
        /\ calls[c] \in Calls /\ batch[c] \in Kinds /\ CallFine(c, calls[c])
    BY AtFacts DEF Return
  <1>2. PICK result \in {"ok", "red", "error"} :
           /\ batch[c] \in Mutations => result = (IF calls[c].applied THEN "ok" ELSE "error")
           /\ Moves(c, [calls[c] EXCEPT !.at = "over", !.result = result])
    BY DEF Return
  <1> DEFINE r == [calls[c] EXCEPT !.at = "over", !.result = result]
  <1>3. r \in Calls
    BY <1>1 DEF Calls
  <1>4. Moves(c, r)
    BY <1>2
  <1>5. /\ UNCHANGED <<batch, wave, made, gate, revision, known, cache, tested, aborted, batches>>
        /\ late' \in Nat
    BY DEF Return, WaveInv, TypeInv, BatchInv
  <1>6. /\ r.saw = calls[c].saw /\ r.applied = calls[c].applied /\ r.at = "over"
        /\ r.before = calls[c].before /\ r.key = calls[c].key /\ r.result = result
    BY <1>1 DEF Calls
  <1>7. batch[c] \in Repeatable \cup {"tests", "check"} => calls[c].saw # None
    BY DEF Return
  <1> HIDE DEF r
  <1>8. CallFine(c, r)
    BY <1>1, <1>6, <1>7 DEF CallFine, Under, Stamp
  <1>9. \A v \in 1..Disk : Brings(c, v) => BringsAs(c, r, v)
    BY <1>1, <1>2, <1>6 DEF Brings, BringsAs, Under
  <1> QED BY <1>1, <1>3, <1>4, <1>5, <1>8, <1>9, HandlerStep

LEMMA TimesOutStep ==
    ASSUME WaveInv, NEW c \in DOMAIN calls, TimesOut(c)
    PROVE  WaveInv'
  <1>1. /\ wave # 0 /\ c \in Group /\ calls[c].at = "runs"
        /\ calls[c] \in Calls /\ batch[c] \in Kinds /\ CallFine(c, calls[c])
    BY AtFacts DEF TimesOut
  <1>2. /\ UNCHANGED <<batch, wave, made, gate, revision, known, cache, tested, aborted, batches>>
        /\ late' \in Nat
    BY DEF TimesOut, WaveInv, TypeInv, BatchInv
  <1>3. ~(batch[c] \in Mutations /\ calls[c].applied)
    BY DEF TimesOut
  <1>4. CASE calls[c].tries < MaxRetries
    <2> DEFINE r == [calls[c] EXCEPT !.tries = @ + 1, !.saw = None, !.applied = FALSE]
    <2>1. r \in Calls
      <3>1. calls[c].tries + 1 \in 0..MaxRetries
        BY <1>1, <1>4, CallFields, ConstantTypes
      <3>2. \A n \in 0..MaxRetries :
              [calls[c] EXCEPT !.tries = n, !.saw = None, !.applied = FALSE] \in Calls
        BY <1>1 DEF Calls
      <3> QED BY <3>1, <3>2
    <2>2. Moves(c, r)
      BY <1>4 DEF TimesOut
    <2>3. /\ r.saw = None /\ ~r.applied /\ r.at = "runs"
          /\ r.before = calls[c].before /\ r.key = calls[c].key
      BY <1>1 DEF Calls
    <2> HIDE DEF r
    <2>4. CallFine(c, r)
      BY <1>1, <2>3 DEF CallFine, Under, Stamp
    <2>5. \A v \in 1..Disk : Brings(c, v) => BringsAs(c, r, v)
      BY <1>1, <1>3, <2>3 DEF Brings, BringsAs, Under
    <2> QED BY <1>1, <1>2, <2>1, <2>2, <2>4, <2>5, HandlerStep
  <1>5. CASE ~(calls[c].tries < MaxRetries)
    <2> DEFINE r == [calls[c] EXCEPT !.at = "over", !.result = "error"]
    <2>1. r \in Calls
      BY <1>1 DEF Calls
    <2>2. Moves(c, r)
      BY <1>5 DEF TimesOut
    <2>3. /\ r.saw = calls[c].saw /\ r.applied = calls[c].applied /\ r.at = "over"
          /\ r.before = calls[c].before /\ r.key = calls[c].key /\ r.result = "error"
      BY <1>1 DEF Calls
    <2> HIDE DEF r
    <2>4. CallFine(c, r)
      BY <1>1, <2>3 DEF CallFine, Under, Stamp
    <2>5. \A v \in 1..Disk : Brings(c, v) => BringsAs(c, r, v)
      BY <1>1, <1>3, <2>3 DEF Brings, BringsAs, Under
    <2> QED BY <1>1, <1>2, <2>1, <2>2, <2>4, <2>5, HandlerStep
  <1> QED BY <1>4, <1>5

-------------------------------------------------------------------------------
(* The file changes.                                                          *)
LEMMA Appended ==
    ASSUME BatchInv, NEW by \in {"plain", "behind", "late"}, made' = Append(made, by)
    PROVE  /\ made' \in Seq({"plain", "behind", "late"}) /\ Disk' = Disk + 1
           /\ made'[Disk + 1] = by /\ \A v \in 1..Disk : made'[v] = made[v]
           /\ \A x : PlainAfter(x)' \subseteq PlainAfter(x) \cup {Disk + 1}
           /\ by # "plain" => \A x : PlainAfter(x)' \subseteq PlainAfter(x)
  <1>1. Disk \in Nat /\ Disk = Len(made)
    BY MadeTypes
  <1>2. /\ made' \in Seq({"plain", "behind", "late"}) /\ Len(made') = Len(made) + 1
        /\ made'[Len(made) + 1] = by /\ \A v \in 1..Len(made) : made'[v] = made[v]
    BY AppendProperties DEF BatchInv
  <1>3. Disk' = Disk + 1
    BY <1>1, <1>2 DEF Disk
  <1>4. \A v \in 1..Disk' : v \in 1..Disk \/ v = Disk + 1
    BY <1>1, <1>3
  <1> QED BY <1>1, <1>2, <1>3, <1>4 DEF PlainAfter

LEMMA MemoryGrows ==
    ASSUME TypeInv, UNCHANGED <<gate, revision, known, cache, tested>>, Disk' >= Disk, Disk' \in Nat
    PROVE  GateInv' /\ MemoryInv'
  <1>1. 0..Disk \subseteq 0..Disk'
    BY MadeTypes DEF TypeInv
  <1>2. GateInv'
    BY DEF TypeInv, GateInv
  <1>3. known \in [Repeatable -> [count : Nat, revision : Nat, failed : BOOLEAN,
                                 print : {None} \cup 0..Disk', version : {None} \cup 0..Disk']]
    BY <1>1 DEF TypeInv, MemoryInv
  <1>4. cache \subseteq [key : 0..Disk', version : 0..Disk']
    BY <1>1 DEF TypeInv, MemoryInv
  <1>5. tested \in {None} \cup 0..Disk'
    BY <1>1 DEF TypeInv, MemoryInv
  <1> QED BY <1>2, <1>3, <1>4, <1>5 DEF TypeInv, MemoryInv

LEMMA LateChangeStep ==
    ASSUME WaveInv, LateChange
    PROVE  WaveInv'
  <1>1. TypeInv /\ BatchInv /\ CallsInv /\ EvidenceInv
    BY DEF WaveInv, TypeInv
  <1>2. Disk \in Nat /\ Disk <= MaxChanges /\ MaxChanges \in Nat
    BY <1>1, MadeTypes
  <1>3. /\ made' \in Seq({"plain", "behind", "late"}) /\ Disk' \in Nat
        /\ Disk <= Disk' /\ Disk' <= MaxChanges
        /\ \A x : PlainAfter(x)' \subseteq PlainAfter(x)
    <2>1. CASE Disk < MaxChanges
      <3>1. made' = Append(made, "late")
        BY <2>1 DEF LateChange
      <3> QED BY <1>1, <1>2, <2>1, <3>1, Appended
    <2>2. CASE ~(Disk < MaxChanges)
      <3>1. made' = made
        BY <2>2 DEF LateChange
      <3> QED BY <1>1, <1>2, <3>1, MadeTypes DEF Disk, PlainAfter
    <2> QED BY <2>1, <2>2
  <1>4. BatchInv'
    BY <1>1, <1>3 DEF BatchInv, LateChange
  <1>5. GateInv' /\ MemoryInv'
    BY <1>1, <1>2, <1>3, MemoryGrows DEF LateChange
  <1>6. CallsInv'
    <2> SUFFICES ASSUME NEW c \in DOMAIN calls PROVE CallFine(c, calls[c])'
      BY DEF CallsInv, LateChange
    <2>1. CallFine(c, calls[c])
      BY <1>1 DEF CallsInv
    <2>2. batch' = batch /\ calls' = calls /\ Group' = Group
      BY DEF LateChange, Group
    <2>3. (PlainAfter(calls[c].saw))' \subseteq PlainAfter(calls[c].saw)
      BY <1>3, <2>2
    <2> QED BY <1>2, <1>3, <2>1, <2>2, <2>3 DEF CallFine, Under, Stamp
  <1>7. \A x : Covered(x) => Covered(x)'
    BY <1>3 DEF Covered, Brings, BringsAs, Under, LateChange
  <1>8. EvidenceInv'
    BY <1>1, <1>7, EvidenceStays DEF LateChange
  <1> QED BY <1>4, <1>5, <1>6, <1>8 DEF WaveInv, TypeInv


(* A change made by a call: it is covered by the call that made it, or it is  *)
(* behind the back of one that has looked at the file.                        *)
LEMMA ChangeStep ==
    ASSUME WaveInv, NEW c \in DOMAIN calls, Change(c)
    PROVE  WaveInv'
  <1> DEFINE r == [calls[c] EXCEPT !.applied = TRUE]
  <1>0. TypeInv /\ BatchInv /\ CallsInv /\ EvidenceInv
    BY DEF WaveInv, TypeInv
  <1>1. /\ wave # 0 /\ c \in Group /\ calls[c].at = "runs"
        /\ calls[c] \in Calls /\ batch[c] \in Kinds /\ CallFine(c, calls[c])
    BY AtFacts DEF Change
  <1>2. Disk \in Nat /\ Disk < MaxChanges /\ MaxChanges \in Nat
    BY <1>0, MadeTypes DEF Change
  <1>3. r \in Calls
    BY <1>1 DEF Calls
  <1>4. Moves(c, r)
    BY DEF Change
  <1>5. /\ UNCHANGED <<batch, wave, gate, revision, known, cache, tested, aborted, batches, late>>
        /\ made' = Append(made, Author(c)) /\ Author(c) \in {"plain", "behind"}
        /\ calls[c].saw = None /\ batch[c] \in Shells \cup Mutations
    BY DEF Change, Author
  <1>6. /\ r.saw = None /\ r.applied /\ r.at = "runs"
        /\ r.before = calls[c].before /\ r.key = calls[c].key
    BY <1>1, <1>5 DEF Calls
  <1>7. /\ made' \in Seq({"plain", "behind", "late"}) /\ Disk' = Disk + 1
        /\ \A x : PlainAfter(x)' \subseteq PlainAfter(x) \cup {Disk + 1}
        /\ Author(c) # "plain" => \A x : PlainAfter(x)' \subseteq PlainAfter(x)
    BY <1>0, <1>5, Appended
  <1>8. /\ calls' \in Seq(Calls) /\ Len(calls') = Len(calls) /\ DOMAIN calls' = DOMAIN calls
        /\ calls'[c] = r /\ \A d \in DOMAIN calls : d # c => calls'[d] = calls[d]
    BY <1>0, <1>1, <1>3, <1>4, CallMoves
  <1>9. BatchInv'
    BY <1>0, <1>1, <1>2, <1>5, <1>7, <1>8 DEF BatchInv
  <1>10. GateInv' /\ MemoryInv'
    BY <1>0, <1>2, <1>5, <1>7, MemoryGrows
  <1>11. Group' = Group
    BY <1>5 DEF Group
  <1> HIDE DEF r
  <1>12. CallsInv'
    <2> SUFFICES ASSUME NEW d \in DOMAIN calls PROVE CallFine(d, calls[d])'
      BY <1>8 DEF CallsInv
    <2>1. CASE d = c
      BY <1>1, <1>2, <1>5, <1>6, <1>7, <1>8, <1>11, <2>1 DEF CallFine, Under, Stamp, None
    <2>2. CASE d # c
      <3>1. CallFine(d, calls[d]) /\ calls'[d] = calls[d]
        BY <1>0, <1>8, <2>2 DEF CallsInv
      <3>2. calls[d].saw # None => Author(c) # "plain"
        <4> SUFFICES ASSUME calls[d].saw # None PROVE Author(c) # "plain"
          OBVIOUS
        <4>1. Under(calls[d]) /\ d \in Group
          BY <3>1 DEF CallFine
        <4>2. ~(batch[c] \in Stateful \cup Mutations)
          BY <1>0, <1>1, <2>2, <4>1, GroupFacts
        <4>3. batch[c] \in {"shell", "check"}
          BY <1>5, <4>2 DEF Shells, Mutations, Stateful
        <4>4. d \in Group \ {c} /\ calls[d].at # "done"
          BY <2>2, <4>1 DEF Under
        <4> QED BY <4>3, <4>4 DEF Author
      <3>3. calls[d].saw # None => (PlainAfter(calls[d].saw))' = {}
        BY <1>7, <3>1, <3>2 DEF CallFine
      <3> QED BY <1>2, <1>5, <1>7, <1>11, <3>1, <3>3 DEF CallFine, Under, Stamp
    <2> QED BY <2>1, <2>2
  <1>13. \A d \in DOMAIN calls, v \in 1..Disk : Brings(d, v) => Brings(d, v)'
    BY <1>1, <1>5, <1>6, <1>8 DEF Brings, BringsAs, Under
  <1>14. \A v : v = Disk + 1 => Brings(c, v)'
    <2>1. batch[c] \in Shells => calls[c].before \in 0..Disk
      BY <1>1 DEF CallFine, Stamp, Under
    <2> QED BY <1>2, <1>5, <1>6, <1>8, <2>1 DEF Brings, BringsAs, Under
  <1>15. \A x : Covered(x) => Covered(x)'
    <2> SUFFICES ASSUME NEW x, Covered(x) PROVE Covered(x)'
      OBVIOUS
    <2>1. PlainAfter(x) \subseteq 1..Disk
      BY DEF PlainAfter
    <2>2. ASSUME NEW v \in PlainAfter(x) PROVE \E d \in DOMAIN calls : Brings(d, v)'
      BY <1>13, <2>1, <2>2 DEF Covered
    <2>3. ASSUME NEW v \in PlainAfter(x)' PROVE \E d \in DOMAIN calls' : Brings(d, v)'
      BY <1>7, <1>8, <1>14, <2>2
    <2> QED BY <2>3 DEF Covered
  <1>16. EvidenceInv'
    BY <1>0, <1>5, <1>15, EvidenceStays
  <1> QED BY <1>9, <1>10, <1>12, <1>16 DEF WaveInv, TypeInv


-------------------------------------------------------------------------------
(* Steps of the whole batch.                                                  *)
LEMMA LateNothingStep ==
    ASSUME WaveInv, LateNothing
    PROVE  WaveInv'
  <1>1. TypeInv /\ BatchInv /\ CallsInv /\ EvidenceInv
    BY DEF WaveInv, TypeInv
  <1>2. BatchInv'
    BY <1>1 DEF BatchInv, LateNothing, Disk
  <1>3. GateInv' /\ MemoryInv'
    BY <1>1, MemoryStays DEF LateNothing
  <1>4. CallsInv'
    BY <1>1 DEF CallsInv, CallFine, Under, Stamp, Disk, Group, PlainAfter, LateNothing
  <1>5. \A x : Covered(x) => Covered(x)'
    BY DEF Covered, Brings, BringsAs, Under, PlainAfter, Disk, LateNothing
  <1>6. EvidenceInv'
    BY <1>1, <1>5, EvidenceStays DEF LateNothing
  <1> QED BY <1>2, <1>3, <1>4, <1>6 DEF WaveInv, TypeInv

(* While no call is under way, what is covered is nothing at all.             *)
LEMMA NothingUnder ==
    ASSUME \A c \in DOMAIN calls : ~Under(calls[c]), NEW x, Covered(x)
    PROVE  PlainAfter(x) = {}
  BY DEF Covered, Brings, BringsAs

LEMMA AnswerStep ==
    ASSUME WaveInv, Answer
    PROVE  WaveInv'
  <1>1. TypeInv /\ BatchInv /\ CallsInv /\ EvidenceInv
    BY DEF WaveInv, TypeInv
  <1>2. wave = 0 /\ calls = <<>> /\ batches' = batches + 1 /\ batches' \in 1..MaxBatches
    BY <1>1, ConstantTypes DEF Answer, BatchInv
  <1>3. batch' \in Batches[batches'] /\ batch' \in Seq(Kinds) \ {<<>>}
    BY <1>2, ConstantTypes DEF Answer
  <1>4. wave' = 1 /\ wave' \in 1..Len(Groups(batch'))
    <2>1. Len(Groups(batch')) \in Nat \ {0}
      BY <1>3, GroupsOf
    <2> QED BY <2>1 DEF Answer
  <1>5. /\ DOMAIN batch' = 1..Len(batch') /\ Len(batch') \in Nat
        /\ calls' = [c \in DOMAIN batch' |-> NewCall]
    BY <1>3 DEF Answer
  <1>6. calls' \in Seq(Calls) /\ Len(calls') = Len(batch')
    BY <1>5, NewCallType
  <1>7. BatchInv'
    BY <1>1, <1>2, <1>3, <1>4, <1>6 DEF BatchInv, Answer, Disk
  <1>8. GateInv' /\ MemoryInv'
    BY <1>1, MemoryStays DEF Answer
  <1>9. CallsInv'
    <2> SUFFICES ASSUME NEW c \in DOMAIN calls' PROVE CallFine(c, calls[c])'
      BY DEF CallsInv
    <2>1. calls'[c] = NewCall
      BY <1>5
    <2> QED BY <2>1 DEF CallFine, Under, Stamp, NewCall
  <1>10. \A x : Covered(x) => Covered(x)'
    <2> SUFFICES ASSUME NEW x, Covered(x) PROVE Covered(x)'
      OBVIOUS
    <2>1. PlainAfter(x) = {}
      BY <1>2, NothingUnder
    <2>2. PlainAfter(x)' = PlainAfter(x)
      BY DEF PlainAfter, Disk, Answer
    <2> QED BY <2>1, <2>2 DEF Covered
  <1>11. EvidenceInv'
    BY <1>1, <1>10, EvidenceStays DEF Answer
  <1> QED BY <1>7, <1>8, <1>9, <1>11 DEF WaveInv, TypeInv

LEMMA WaveEndsStep ==
    ASSUME WaveInv, WaveEnds
    PROVE  WaveInv'
  <1>1. TypeInv /\ BatchInv /\ CallsInv /\ EvidenceInv
    BY DEF WaveInv, TypeInv
  <1>2. /\ wave # 0 /\ \A c \in Group : calls[c].at = "done"
        /\ UNCHANGED <<made, late, gate, revision, known, cache, tested, aborted, batches>>
    BY DEF WaveEnds
  <1>3. \A c \in DOMAIN calls : ~Under(calls[c]) /\ calls[c].saw = None /\ ~calls[c].applied
    BY <1>1, <1>2 DEF CallsInv, CallFine, Under
  <1>4. Len(Groups(batch)) \in Nat \ {0} /\ wave \in 1..Len(Groups(batch))
    BY <1>1, <1>2, GroupFacts DEF BatchInv
  <1>5. GateInv' /\ MemoryInv'
    BY <1>1, <1>2, MemoryStays
  <1>6. \A x : Covered(x) => Covered(x)'
    <2> SUFFICES ASSUME NEW x, Covered(x) PROVE Covered(x)'
      OBVIOUS
    <2>1. PlainAfter(x) = {}
      BY <1>3, NothingUnder
    <2>2. PlainAfter(x)' = PlainAfter(x)
      BY <1>2 DEF PlainAfter, Disk
    <2> QED BY <2>1, <2>2 DEF Covered
  <1>7. EvidenceInv'
    BY <1>1, <1>2, <1>6, EvidenceStays
  <1>8. CASE wave = Len(Groups(batch))
    <2>1. wave' = 0 /\ batch' = <<>> /\ calls' = <<>>
      BY <1>8 DEF WaveEnds
    <2>2. BatchInv'
      BY <1>1, <1>2, <2>1, EmptySeq DEF BatchInv, Disk
    <2>3. CallsInv'
      BY <2>1 DEF CallsInv
    <2> QED BY <1>5, <1>7, <2>2, <2>3 DEF WaveInv, TypeInv
  <1>9. CASE wave # Len(Groups(batch))
    <2>1. wave' = wave + 1 /\ UNCHANGED <<batch, calls>>
      BY <1>9 DEF WaveEnds
    <2>2. BatchInv'
      BY <1>1, <1>2, <1>4, <1>9, <2>1 DEF BatchInv, Disk
    <2>3. CallsInv'
      <3> SUFFICES ASSUME NEW c \in DOMAIN calls PROVE CallFine(c, calls[c])'
        BY <2>1 DEF CallsInv
      <3>1. CallFine(c, calls[c]) /\ ~Under(calls[c]) /\ calls[c].saw = None
        BY <1>1, <1>3 DEF CallsInv
      <3> QED BY <1>2, <2>1, <3>1 DEF CallFine, Under, Stamp, Disk
    <2> QED BY <1>5, <1>7, <2>2, <2>3 DEF WaveInv, TypeInv
  <1> QED BY <1>8, <1>9

LEMMA AbortStep ==
    ASSUME WaveInv, Abort
    PROVE  WaveInv'
  <1> DEFINE cut == {c \in Group : calls[c].at = "runs"}
             lost == {c \in cut : batch[c] \in Mutations \cup Shells /\ ~calls[c].applied}
  <1>1. TypeInv /\ BatchInv /\ CallsInv /\ EvidenceInv
    BY DEF WaveInv, TypeInv
  <1>2. /\ wave # 0 /\ aborted' = TRUE
        /\ UNCHANGED <<batch, wave, made, gate, revision, known, cache, tested, batches>>
        /\ calls' = [c \in DOMAIN calls |->
                 IF c \in cut THEN [calls[c] EXCEPT !.at = "over", !.result = "error"]
                 ELSE calls[c]]
        /\ late' = late + Cardinality(lost)
    BY DEF Abort
  <1>3. /\ DOMAIN calls = 1..Len(batch) /\ Len(batch) \in Nat
        /\ \A c \in DOMAIN calls : calls[c] \in Calls
        /\ IsFiniteSet(Group)
    BY <1>1, <1>2, GroupFacts
  <1>4. late' \in Nat
    <2>1. lost \in SUBSET Group
      OBVIOUS
    <2>2. Cardinality(lost) \in Nat
      BY <1>3, <2>1, FS_Subset, FS_CardinalityType
    <2>3. late' = late + Cardinality(lost) /\ late \in Nat
      BY <1>1, <1>2 DEF BatchInv
    <2> HIDE DEF lost
    <2> QED BY <2>2, <2>3
  <1>5. \A c \in DOMAIN calls :
          /\ calls'[c] \in Calls
          /\ calls'[c].saw = calls[c].saw /\ calls'[c].before = calls[c].before
          /\ calls'[c].key = calls[c].key /\ calls'[c].applied = calls[c].applied
          /\ \/ calls'[c].at = calls[c].at /\ calls'[c].result = calls[c].result
             \/ calls[c].at = "runs" /\ calls'[c].at = "over" /\ calls'[c].result = "error"
    BY <1>2, <1>3 DEF Calls
  <1>6. calls' \in Seq(Calls) /\ Len(calls') = Len(batch) /\ DOMAIN calls' = DOMAIN calls
    <2> DEFINE Now(c) == IF c \in cut THEN [calls[c] EXCEPT !.at = "over", !.result = "error"]
                         ELSE calls[c]
    <2>1. calls' = [c \in 1..Len(batch) |-> Now(c)]
      BY <1>2, <1>3
    <2>2. \A c \in 1..Len(batch) : Now(c) \in Calls
      BY <1>2, <1>3, <1>5
    <2> HIDE DEF Now
    <2> QED BY <1>3, <2>1, <2>2
  <1>7. BatchInv'
    BY <1>1, <1>2, <1>4, <1>6 DEF BatchInv, Disk
  <1>8. GateInv' /\ MemoryInv'
    BY <1>1, <1>2, MemoryStays
  <1>9. CallsInv'
    <2> SUFFICES ASSUME NEW c \in DOMAIN calls PROVE CallFine(c, calls[c])'
      BY <1>6 DEF CallsInv
    <2>1. CallFine(c, calls[c])
      BY <1>1 DEF CallsInv
    <2>2. /\ batch' = batch /\ Group' = Group /\ Disk' = Disk
          /\ \A x : PlainAfter(x)' = PlainAfter(x)
      BY <1>2 DEF Group, Disk, PlainAfter
    <2>3. (PlainAfter(calls[c].saw))' = PlainAfter(calls[c].saw)
      BY <1>5, <2>2
    <2> QED BY <1>5, <2>1, <2>2, <2>3 DEF CallFine, Under, Stamp
  <1> QED BY <1>2, <1>7, <1>8, <1>9 DEF WaveInv, TypeInv, EvidenceInv


-------------------------------------------------------------------------------
(* What the gate makes of a record.                                           *)
RunVerdicts == {NoVerdict} \cup [kind : {"suite"}, passed : BOOLEAN]

LEMMA GateTypes ==
    ASSUME NEW g \in Gates, NEW v \in RunVerdicts, NEW isCode \in BOOLEAN,
           ~g.suiteMissing, g.lastSuite.seq <= g.mutationSeq
    PROVE  /\ RecordMutation(g, isCode) \in Gates
           /\ RecordMutation(g, isCode).mutationSeq = g.mutationSeq + 1
           /\ ~RecordMutation(g, isCode).suiteMissing
           /\ RecordMutation(g, isCode).lastSuite = g.lastSuite
           /\ RecordVerification(g, v) \in Gates
           /\ RecordVerification(g, v).mutationSeq = g.mutationSeq
           /\ ~RecordVerification(g, v).suiteMissing
           /\ RecordVerification(g, v).lastSuite.seq <= g.mutationSeq
  <1>1. g.mutationSeq \in Nat /\ g.lastSuite \in Runs /\ g.lastTargeted \in Runs /\ g.codeTouched \in BOOLEAN
    BY DEF Gates
  <1>2. /\ RecordMutation(g, isCode) \in Gates
        /\ RecordMutation(g, isCode).mutationSeq = g.mutationSeq + 1
        /\ ~RecordMutation(g, isCode).suiteMissing
        /\ RecordMutation(g, isCode).lastSuite = g.lastSuite
    <2>1. g.mutationSeq + 1 \in Nat /\ (g.codeTouched \/ isCode) \in BOOLEAN
      BY <1>1
    <2>2. \A n \in Nat, t \in BOOLEAN :
            /\ [g EXCEPT !.mutationSeq = n, !.codeTouched = t] \in Gates
            /\ [g EXCEPT !.mutationSeq = n, !.codeTouched = t].mutationSeq = n
            /\ [g EXCEPT !.mutationSeq = n, !.codeTouched = t].suiteMissing = g.suiteMissing
            /\ [g EXCEPT !.mutationSeq = n, !.codeTouched = t].lastSuite = g.lastSuite
      BY DEF Gates
    <2> QED BY <2>1, <2>2 DEF RecordMutation
  <1>3. CASE v.kind = "none"
    <2>1. RecordVerification(g, v) = g
      BY <1>3 DEF RecordVerification
    <2> QED BY <1>1, <1>2, <2>1
  <1>4. CASE v.kind = "suite"
    <2> DEFINE entry == [seq |-> g.mutationSeq, passed |-> v.passed]
               t == IF v.passed THEN entry ELSE g.lastTargeted
    <2>1. RecordVerification(g, v) = [g EXCEPT !.lastSuite = entry, !.lastTargeted = t]
      BY <1>4 DEF RecordVerification
    <2>2. v.passed \in BOOLEAN
      BY <1>4 DEF RunVerdicts, NoVerdict
    <2>3. entry \in Runs /\ t \in Runs /\ entry.seq = g.mutationSeq
      BY <1>1, <2>2 DEF Runs
    <2> HIDE DEF entry, t
    <2>4. /\ [g EXCEPT !.lastSuite = entry, !.lastTargeted = t] \in Gates
          /\ [g EXCEPT !.lastSuite = entry, !.lastTargeted = t].mutationSeq = g.mutationSeq
          /\ [g EXCEPT !.lastSuite = entry, !.lastTargeted = t].suiteMissing = g.suiteMissing
          /\ [g EXCEPT !.lastSuite = entry, !.lastTargeted = t].lastSuite = entry
      BY <2>3 DEF Gates
    <2> QED BY <1>1, <1>2, <2>1, <2>3, <2>4
  <1> QED BY <1>3, <1>4 DEF RunVerdicts, NoVerdict

(* A verdict opens the gate only when it is a green one.                      *)
LEMMA OpensGreen ==
    ASSUME NEW g \in Gates, NEW v \in RunVerdicts, ~g.suiteMissing,
           Evaluate(RecordVerification(g, v), TRUE) = "open", ~v.passed
    PROVE  Evaluate(g, TRUE) = "open"
  <1>1. CASE v.kind = "none"
    BY <1>1 DEF RecordVerification
  <1>2. CASE v.kind = "suite"
    <2> DEFINE entry == [seq |-> g.mutationSeq, passed |-> v.passed]
               h == RecordVerification(g, v)
    <2>1. h = [g EXCEPT !.lastSuite = entry, !.lastTargeted = IF v.passed THEN entry ELSE @]
      BY <1>2 DEF RecordVerification
    <2>2. /\ h.codeTouched = g.codeTouched /\ h.mutationSeq = g.mutationSeq
          /\ h.suiteMissing = g.suiteMissing
          /\ h.lastSuite.seq = g.mutationSeq /\ ~h.lastSuite.passed
      BY <2>1 DEF Gates
    <2> HIDE DEF h
    <2>3. Evaluate(h, TRUE) = "open"
      BY DEF h
    <2>4. ~g.codeTouched \/ g.mutationSeq = 0
      BY <2>2, <2>3 DEF Evaluate
    <2>5. g.codeTouched \in BOOLEAN /\ g.suiteMissing = FALSE
      BY DEF Gates
    <2>6. CASE g.mutationSeq = 0
      BY <2>5, <2>6 DEF Evaluate
    <2>7. CASE g.codeTouched = FALSE
      BY <2>5, <2>7 DEF Evaluate
    <2> QED BY <2>4, <2>5, <2>6, <2>7
  <1>3. v.kind \in {"none", "suite"}
    BY DEF RunVerdicts, NoVerdict
  <1> QED BY <1>1, <1>2, <1>3

(* A recorded change of code closes the gate.                                 *)
LEMMA ChangeCloses ==
    ASSUME NEW g \in Gates, ~g.suiteMissing, g.lastSuite.seq <= g.mutationSeq
    PROVE  Evaluate(RecordMutation(g, TRUE), TRUE) # "open"
  <1> DEFINE h == RecordMutation(g, TRUE)
  <1>1. g.mutationSeq \in Nat /\ g.lastSuite \in Runs
    BY DEF Gates
  <1>2. g.lastSuite.seq \in Nat \cup {-1}
    BY <1>1 DEF Runs
  <1>3. h.mutationSeq = g.mutationSeq + 1 /\ h.codeTouched /\ ~h.suiteMissing
        /\ h.lastSuite = g.lastSuite
    BY DEF RecordMutation, Gates
  <1> HIDE DEF h
  <1>4. h.mutationSeq # 0 /\ h.lastSuite.seq # h.mutationSeq
    BY <1>1, <1>2, <1>3
  <1>5. Evaluate(h, TRUE) = "run_suite"
    BY <1>3, <1>4 DEF Evaluate
  <1> QED BY <1>5 DEF h

-------------------------------------------------------------------------------
(* A call is recorded: it has nothing under way any more.                     *)
NotedAs(notes, k, version, failed) ==
    /\ notes \in [Repeatable -> [count : Nat, revision : Nat, failed : BOOLEAN,
                                 print : {None} \cup 0..Disk, version : {None} \cup 0..Disk]]
    /\ notes[k].count > 0 /\ notes[k].revision = revision
    /\ notes[k].version = version /\ notes[k].failed = failed
    /\ \A j \in Repeatable : j # k => notes[j] = known[j]

LEMMA NotedTypes ==
    ASSUME TypeInv, NEW k \in Repeatable, NEW version, NEW failed,
           version \in {None} \cup 0..Disk, failed \in BOOLEAN
    PROVE  NotedAs(Noted(k, version, failed), k, version, failed)
  <1> DEFINE Notes == [count : Nat, revision : Nat, failed : BOOLEAN,
                       print : {None} \cup 0..Disk, version : {None} \cup 0..Disk]
             note == [count |-> known[k].count + 1, revision |-> revision,
                      print |-> IF k = "read" THEN Disk ELSE None,
                      version |-> version, failed |-> failed]
  <1>1. known \in [Repeatable -> Notes] /\ known[k].count \in Nat
    BY DEF TypeInv, MemoryInv
  <1>2. revision \in Nat /\ Disk \in Nat
    <2>1. gate.mutationSeq \in Nat
      BY DEF TypeInv, GateInv, Gates
    <2> QED BY <2>1, MadeTypes DEF TypeInv, GateInv
  <1>3. (IF k = "read" THEN Disk ELSE None) \in {None} \cup 0..Disk
    BY <1>2
  <1>4. note \in Notes
    BY <1>1, <1>2, <1>3
  <1>5. note.count > 0 /\ note.revision = revision /\ note.version = version /\ note.failed = failed
    BY <1>1
  <1>6. Noted(k, version, failed) = [known EXCEPT ![k] = note]
    BY DEF Noted
  <1> HIDE DEF note, Notes
  <1>7. [known EXCEPT ![k] = note] \in [Repeatable -> Notes]
    BY <1>1, <1>4
  <1>8. [known EXCEPT ![k] = note][k] = note /\ \A j \in Repeatable : j # k => [known EXCEPT ![k] = note][j] = known[j]
    BY <1>1
  <1> QED BY <1>5, <1>6, <1>7, <1>8 DEF Notes, NotedAs

LEMMA RecordMove ==
    ASSUME WaveInv, wave # 0, NEW c \in DOMAIN calls, NEW r \in Calls, Moves(c, r),
           ~Under(r), r.saw = None, ~r.applied,
           Stamp(r.before), Stamp(r.key),
           UNCHANGED <<batch, wave, made, late, aborted, batches>>
    PROVE  /\ BatchInv' /\ CallsInv'
           /\ (\A v \in 1..Disk : ~Brings(c, v)) => \A x : Covered(x) => Covered(x)'
           /\ \A x : PlainAfter(x)' = PlainAfter(x)
           /\ \A x : PlainAfter(x) = {} => Covered(x)'
  <1>1. BatchInv /\ CallsInv /\ late \in Nat /\ aborted \in BOOLEAN
    BY DEF WaveInv, TypeInv, BatchInv
  <1>2. BatchInv'
    BY <1>1, BatchStays
  <1>3. CallFine(c, r)
    BY DEF CallFine, Under, Stamp
  <1>4. CallsInv'
    BY <1>1, <1>3, OneCallMoves
  <1>5. (\A v \in 1..Disk : ~Brings(c, v)) => \A x : Covered(x) => Covered(x)'
    BY <1>1, CoveredStays
  <1>6. \A x : PlainAfter(x)' = PlainAfter(x)
    BY DEF PlainAfter, Disk
  <1>7. ASSUME NEW x, PlainAfter(x) = {} PROVE Covered(x)'
    BY <1>6, <1>7 DEF Covered
  <1> QED BY <1>2, <1>4, <1>5, <1>6, <1>7

LEMMA DoneMove ==
    ASSUME WaveInv, NEW c \in DOMAIN calls, At(c, "over"), Done(c),
           UNCHANGED <<batch, wave, made, late, aborted, batches>>
    PROVE  /\ BatchInv' /\ CallsInv'
           /\ (\A v \in 1..Disk : ~Brings(c, v)) => \A x : Covered(x) => Covered(x)'
           /\ \A x : PlainAfter(x) = {} => Covered(x)'
  <1> DEFINE r == [NewCall EXCEPT !.at = "done", !.result = calls[c].result]
  <1>1. wave # 0 /\ calls[c] \in Calls /\ CallFine(c, calls[c]) /\ calls[c].at = "over"
    BY AtFacts
  <1>2. calls[c].result \in {"ok", "red", "error"}
    BY <1>1 DEF CallFine
  <1>3. r \in Calls
    BY <1>2, NewCallType DEF Calls
  <1>4. r.at = "done" /\ r.saw = None /\ ~r.applied /\ r.before = None /\ r.key = None
    BY DEF NewCall
  <1>5. Moves(c, r)
    BY DEF Done
  <1> HIDE DEF r
  <1>6. ~Under(r) /\ Stamp(r.before) /\ Stamp(r.key)
    BY <1>4 DEF Under, Stamp
  <1> QED BY <1>1, <1>3, <1>4, <1>5, <1>6, RecordMove

LEMMA RefuseStep ==
    ASSUME WaveInv, NEW c \in DOMAIN calls, Refuse(c)
    PROVE  WaveInv'
  <1> DEFINE r == [calls[c] EXCEPT !.at = "done", !.result = "refused"]
             k == batch[c]
  <1>0. TypeInv /\ BatchInv /\ MemoryInv /\ GateInv /\ EvidenceInv
    BY DEF WaveInv, TypeInv
  <1>1. /\ wave # 0 /\ calls[c] \in Calls /\ calls[c].at = "waits" /\ CallFine(c, calls[c])
    BY AtFacts DEF Refuse
  <1>2. r \in Calls /\ Moves(c, r)
    BY <1>1 DEF Calls, Refuse
  <1>3. calls[c].saw = None /\ ~calls[c].applied /\ ~Under(calls[c])
    BY <1>1 DEF CallFine, Under
  <1>4. /\ r.at = "done" /\ r.saw = None /\ ~r.applied
        /\ r.before = calls[c].before /\ r.key = calls[c].key
    BY <1>1, <1>3 DEF Calls
  <1> HIDE DEF r
  <1>5. ~Under(r) /\ Stamp(r.before) /\ Stamp(r.key)
    BY <1>1, <1>4 DEF CallFine, Under
  <1>6. /\ UNCHANGED <<batch, wave, made, late, aborted, batches>>
        /\ UNCHANGED <<gate, revision, cache, tested>>
        /\ IsRepeat(k) /\ k \in Repeatable
        /\ known' = Noted(k, known[k].version, known[k].failed)
    BY DEF Refuse, IsRepeat
  <1>7. \A v \in 1..Disk : ~Brings(c, v)
    BY <1>3 DEF Brings, BringsAs
  <1>8. BatchInv' /\ CallsInv' /\ \A x : Covered(x) => Covered(x)'
    BY <1>1, <1>2, <1>4, <1>5, <1>6, <1>7, RecordMove
  <1>9. known[k].version \in {None} \cup 0..Disk /\ known[k].failed \in BOOLEAN
    BY <1>0, <1>6 DEF MemoryInv
  <1>10. /\ known' \in [Repeatable -> [count : Nat, revision : Nat, failed : BOOLEAN,
                                print : {None} \cup 0..Disk, version : {None} \cup 0..Disk]]
         /\ known'[k].revision = revision /\ known'[k].version = known[k].version
         /\ known'[k].failed = known[k].failed
         /\ \A j \in Repeatable : j # k => known'[j] = known[j]
    <2>1. k \in Repeatable /\ known' = Noted(k, known[k].version, known[k].failed)
      BY <1>6
    <2> HIDE DEF k
    <2>2. NotedAs(known', k, known[k].version, known[k].failed)
      BY <1>0, <1>9, <2>1, NotedTypes
    <2> QED BY <2>2 DEF NotedAs
  <1>11. revision \in Int
    BY <1>0 DEF GateInv
  <1> HIDE DEF k
  <1>12. \A j \in Repeatable : known'[j].revision <= revision
    BY <1>0, <1>6, <1>10, <1>11 DEF MemoryInv
  <1>13. GateInv' /\ MemoryInv'
    BY <1>0, <1>6, <1>10, <1>12 DEF GateInv, MemoryInv, Disk
  <1>14. EvidenceInv'
    <2>1. known[k].count > 0 /\ known[k].revision = revision
      BY <1>6 DEF IsRepeat
    <2>2. ~aborted /\ Evaluate(gate, TRUE) = "open" => Covered(tested)'
      BY <1>0, <1>6, <1>8 DEF EvidenceInv
    <2>3. ASSUME ~aborted, NEW j \in Repeatable, known'[j].count > 0, known'[j].revision = revision,
                 ~known'[j].failed
          PROVE  Covered(known[j].version)' 
      <3>1. known'[j].version = known[j].version /\ Covered(known[j].version)
        BY <1>0, <1>10, <2>1, <2>3 DEF EvidenceInv
      <3>2. \A x : x = known[j].version => Covered(x)'
        BY <1>8, <3>1
      <3> QED BY <3>1, <3>2
    <2> QED BY <1>6, <2>2, <2>3 DEF EvidenceInv
  <1> QED BY <1>8, <1>13, <1>14 DEF WaveInv, TypeInv

(* A kind whose call has just been answered; the others are as they were.     *)
LEMMA MemoryNoted ==
    ASSUME WaveInv, NEW k \in Repeatable, NEW version \in {None} \cup 0..Disk, NEW failed \in BOOLEAN,
           known' = Noted(k, version, failed), UNCHANGED <<made, gate, revision, tested, aborted>>,
           cache' \subseteq [key : 0..Disk, version : 0..Disk], \A e \in cache' : e.key <= e.version,
           \A x : Covered(x) => Covered(x)',
           \A x : PlainAfter(x) = {} => Covered(x)',
           ~failed => PlainAfter(version) = {}
    PROVE  GateInv' /\ MemoryInv' /\ EvidenceInv'
  <1>1. TypeInv /\ MemoryInv /\ GateInv /\ EvidenceInv
    BY DEF WaveInv, TypeInv
  <1>2. /\ known' \in [Repeatable -> [count : Nat, revision : Nat, failed : BOOLEAN,
                                print : {None} \cup 0..Disk, version : {None} \cup 0..Disk]]
        /\ known'[k].revision = revision /\ known'[k].version = version
        /\ known'[k].failed = failed
        /\ \A j \in Repeatable : j # k => known'[j] = known[j]
    <2>1. NotedAs(known', k, version, failed)
      BY <1>1, NotedTypes
    <2> QED BY <2>1 DEF NotedAs
  <1>3. revision \in Int
    BY <1>1 DEF GateInv
  <1>4. \A j \in Repeatable : known'[j].revision <= revision
    BY <1>1, <1>2, <1>3 DEF MemoryInv
  <1>5. GateInv' /\ MemoryInv'
    BY <1>1, <1>2, <1>4 DEF GateInv, MemoryInv, Disk
  <1>6. EvidenceInv'
    <2>1. ~aborted /\ Evaluate(gate, TRUE) = "open" => Covered(tested)'
      BY <1>1 DEF EvidenceInv
    <2>2. ASSUME ~aborted, NEW j \in Repeatable, known'[j].count > 0, known'[j].revision = revision,
                 ~known'[j].failed
          PROVE  Covered(known[j].version)'
      <3>1. CASE j = k
        <4>1. \A x : x = version => Covered(x)'
          BY <1>2, <2>2, <3>1
        <4> QED BY <1>2, <3>1, <4>1
      <3>2. CASE j # k
        <4>1. known'[j] = known[j] /\ Covered(known[j].version)
          BY <1>1, <1>2, <2>2, <3>2 DEF EvidenceInv
        <4>2. \A x : x = known[j].version => Covered(x)'
          BY <4>1
        <4> QED BY <4>1, <4>2
      <3> QED BY <3>1, <3>2
    <2> QED BY <2>1, <2>2 DEF EvidenceInv
  <1> QED BY <1>5, <1>6

LEMMA ServeCachedStep ==
    ASSUME WaveInv, NEW c \in DOMAIN calls, ServeCached(c)
    PROVE  WaveInv'
  <1> DEFINE r == [calls[c] EXCEPT !.at = "done", !.result = "cached"]
  <1>0. TypeInv /\ BatchInv /\ MemoryInv
    BY DEF WaveInv, TypeInv
  <1>1. /\ wave # 0 /\ calls[c] \in Calls /\ calls[c].at = "waits" /\ CallFine(c, calls[c])
    BY AtFacts DEF ServeCached
  <1>2. PICK e \in Hits : Moves(c, r) /\ known' = Noted("read", e.version, FALSE)
    BY DEF ServeCached
  <1>3. calls[c].saw = None /\ ~calls[c].applied /\ ~Under(calls[c])
    BY <1>1 DEF CallFine, Under
  <1>4. /\ r \in Calls /\ r.at = "done" /\ r.saw = None /\ ~r.applied
        /\ r.before = calls[c].before /\ r.key = calls[c].key
    BY <1>1, <1>3 DEF Calls
  <1> HIDE DEF r
  <1>5. ~Under(r) /\ Stamp(r.before) /\ Stamp(r.key)
    BY <1>1, <1>4 DEF CallFine, Under
  <1>6. UNCHANGED <<batch, wave, made, late, aborted, batches, gate, revision, cache, tested>>
    BY DEF ServeCached
  <1>7. \A v \in 1..Disk : ~Brings(c, v)
    BY <1>3 DEF Brings, BringsAs
  <1>8. /\ BatchInv' /\ CallsInv' /\ \A x : Covered(x) => Covered(x)'
        /\ \A x : PlainAfter(x) = {} => Covered(x)'
    BY <1>1, <1>2, <1>4, <1>5, <1>6, <1>7, RecordMove
  <1>9. e.version \in 0..Disk /\ Disk <= e.version
    BY <1>0 DEF Hits, MemoryInv
  <1>10. PlainAfter(e.version) = {}
    BY <1>0, <1>9, MadeTypes DEF PlainAfter
  <1>11. "read" \in Repeatable
    BY DEF Repeatable
  <1>12. cache' \subseteq [key : 0..Disk, version : 0..Disk] /\ \A x \in cache' : x.key <= x.version
    BY <1>0, <1>6 DEF MemoryInv
  <1>13. GateInv' /\ MemoryInv' /\ EvidenceInv'
    BY <1>2, <1>6, <1>8, <1>9, <1>10, <1>11, <1>12, MemoryNoted
  <1> QED BY <1>8, <1>13 DEF WaveInv, TypeInv

LEMMA RecordSearchStep ==
    ASSUME WaveInv, NEW c \in DOMAIN calls, RecordSearch(c)
    PROVE  WaveInv'
  <1> DEFINE ok == calls[c].result = "ok"
             k == batch[c]
             version == IF ok THEN calls[c].saw ELSE known[k].version
  <1>0. TypeInv /\ BatchInv /\ MemoryInv
    BY DEF WaveInv, TypeInv
  <1>1. /\ At(c, "over") /\ calls[c].at = "over" /\ CallFine(c, calls[c]) /\ k \in Repeatable
    BY AtFacts DEF RecordSearch
  <1>2. /\ known' = Noted(k, version, ~ok) /\ Done(c)
        /\ cache' = IF ok /\ k = "read" THEN cache \cup Cached(c) ELSE cache
        /\ UNCHANGED <<batch, wave, made, late, gate, revision, tested, aborted, batches>>
    BY DEF RecordSearch
  <1>3. \A v \in 1..Disk : ~Brings(c, v)
    BY <1>1 DEF Brings, BringsAs, Repeatable, Shells, Mutations
  <1>4. /\ BatchInv' /\ CallsInv' /\ \A x : Covered(x) => Covered(x)'
        /\ \A x : PlainAfter(x) = {} => Covered(x)'
    BY <1>1, <1>2, <1>3, DoneMove
  <1>5. ok => calls[c].saw \in 0..Disk /\ PlainAfter(calls[c].saw) = {}
    BY <1>1 DEF CallFine, Stamp
  <1>6. version \in {None} \cup 0..Disk
    BY <1>0, <1>1, <1>5 DEF MemoryInv
  <1>7. ~~ok => PlainAfter(version) = {}
    BY <1>5
  <1>8. ok /\ k = "read" => calls[c].key \in 0..Disk /\ calls[c].key <= calls[c].saw
    BY <1>1, <1>5 DEF CallFine, Stamp, Under, None
  <1>9. cache' \subseteq [key : 0..Disk, version : 0..Disk] /\ \A e \in cache' : e.key <= e.version
    BY <1>0, <1>2, <1>5, <1>8 DEF MemoryInv, Cached
  <1>10. (~ok) \in BOOLEAN
    OBVIOUS
  <1> HIDE DEF ok, k, version
  <1>11. GateInv' /\ MemoryInv' /\ EvidenceInv'
    BY <1>1, <1>2, <1>4, <1>6, <1>7, <1>9, <1>10, MemoryNoted
  <1> QED BY <1>4, <1>11 DEF WaveInv, TypeInv


(* What a call changed, then what it proved. A change closes the gate and     *)
(* makes every earlier answer one of another revision; a green run is about   *)
(* the file its call saw.                                                     *)
LEMMA GateRecorded ==
    ASSUME WaveInv, NEW c \in DOMAIN calls, At(c, "over"), Done(c),
           NEW v \in RunVerdicts, NEW changed \in BOOLEAN,
           gate' = RecordVerification(IF changed THEN RecordMutation(gate, TRUE) ELSE gate, v),
           cache' = IF changed THEN {} ELSE cache,
           revision' = IF changed THEN revision + 1 ELSE revision,
           tested' = IF v.passed THEN calls[c].saw ELSE tested,
           UNCHANGED <<batch, wave, made, late, known, aborted, batches>>,
           v.passed => calls[c].saw # None,
           ~changed => \A x \in 1..Disk : ~Brings(c, x)
    PROVE  WaveInv'
  <1> DEFINE g == IF changed THEN RecordMutation(gate, TRUE) ELSE gate
  <1>1. TypeInv /\ GateInv /\ MemoryInv /\ EvidenceInv
    BY DEF WaveInv, TypeInv
  <1>2. /\ BatchInv' /\ CallsInv' /\ (~changed => \A x : Covered(x) => Covered(x)')
        /\ \A x : PlainAfter(x) = {} => Covered(x)'
    BY DoneMove
  <1>3. /\ gate \in Gates /\ ~gate.suiteMissing /\ gate.lastSuite.seq <= gate.mutationSeq
        /\ revision \in 0..gate.mutationSeq /\ gate.mutationSeq \in Nat
    BY <1>1 DEF GateInv, Gates
  <1>4. gate.lastSuite.seq \in Int
    BY <1>3 DEF Gates, Runs
  <1>5. /\ g \in Gates /\ ~g.suiteMissing /\ g.lastSuite.seq <= g.mutationSeq
        /\ g.mutationSeq = IF changed THEN gate.mutationSeq + 1 ELSE gate.mutationSeq
    <2>1. CASE changed
      <3>1. /\ RecordMutation(gate, TRUE) \in Gates
            /\ RecordMutation(gate, TRUE).mutationSeq = gate.mutationSeq + 1
            /\ ~RecordMutation(gate, TRUE).suiteMissing
            /\ RecordMutation(gate, TRUE).lastSuite = gate.lastSuite
        BY <1>3, GateTypes
      <3>2. g = RecordMutation(gate, TRUE)
        BY <2>1
      <3> HIDE DEF g
      <3>3. /\ g.lastSuite.seq = gate.lastSuite.seq
            /\ g.mutationSeq = gate.mutationSeq + 1
        BY <3>1, <3>2
      <3>4. g.lastSuite.seq <= g.mutationSeq
        BY <1>3, <1>4, <3>3
      <3> QED BY <2>1, <3>1, <3>2, <3>3, <3>4
    <2>2. CASE ~changed
      BY <1>3, <2>2
    <2> QED BY <2>1, <2>2
  <1>6. changed => Evaluate(g, TRUE) # "open"
    BY <1>3, ChangeCloses
  <1>7. ~changed => g = gate
    OBVIOUS
  <1>8. gate' = RecordVerification(g, v)
    OBVIOUS
  <1> HIDE DEF g
  <1>9. /\ gate' \in Gates /\ gate'.mutationSeq = g.mutationSeq /\ ~gate'.suiteMissing
        /\ gate'.lastSuite.seq <= gate'.mutationSeq
    <2>1. /\ RecordVerification(g, v) \in Gates
          /\ RecordVerification(g, v).mutationSeq = g.mutationSeq
          /\ ~RecordVerification(g, v).suiteMissing
          /\ RecordVerification(g, v).lastSuite.seq <= g.mutationSeq
      BY <1>5, GateTypes
    <2> QED BY <1>8, <2>1
  <1>10. GateInv'
    <2>1. revision' \in 0..g.mutationSeq
      BY <1>3, <1>5
    <2> QED BY <1>9, <2>1 DEF GateInv
  <1>11. calls[c].saw \in {None} \cup 0..Disk /\ (calls[c].saw # None => PlainAfter(calls[c].saw) = {})
    BY AtFacts DEF CallFine, Stamp
  <1>12. MemoryInv'
    <2>1. tested' \in {None} \cup 0..Disk
      BY <1>1, <1>11 DEF MemoryInv
    <2>2. \A k \in Repeatable : known[k].revision <= revision'
      <3>1. \A k \in Repeatable : known[k].revision \in Nat /\ known[k].revision <= revision
        BY <1>1 DEF MemoryInv
      <3> QED BY <1>3, <3>1
    <2>3. cache' \subseteq cache
      OBVIOUS
    <2> QED BY <1>1, <2>1, <2>2, <2>3 DEF MemoryInv, Disk
  <1>13. EvidenceInv'
    <2>1. ASSUME ~aborted, Evaluate(gate', TRUE) = "open"
          PROVE  Covered(tested)'
      <3>1. CASE v.passed
        <4>1. tested' = calls[c].saw /\ PlainAfter(calls[c].saw) = {}
          BY <1>11, <3>1
        <4>2. \A x : x = calls[c].saw => Covered(x)'
          BY <1>2, <4>1
        <4> QED BY <4>1, <4>2 DEF Covered
      <3>2. CASE ~v.passed
        <4>1. Evaluate(g, TRUE) = "open"
          BY <1>5, <1>8, <2>1, <3>2, OpensGreen
        <4>2. ~changed /\ g = gate /\ tested' = tested
          BY <1>6, <1>7, <3>2, <4>1
        <4>3. Covered(tested)
          BY <1>1, <2>1, <4>1, <4>2 DEF EvidenceInv
        <4>4. \A x : x = tested => Covered(x)'
          BY <1>2, <4>2, <4>3
        <4> QED BY <4>2, <4>4 DEF Covered
      <3> QED BY <3>1, <3>2
    <2>2. ASSUME ~aborted, NEW k \in Repeatable, known[k].count > 0, known[k].revision = revision',
                 ~known[k].failed
          PROVE  Covered(known[k].version)'
      <3>1. ~changed
        <4>1. known[k].revision \in Nat /\ known[k].revision <= revision
          BY <1>1 DEF MemoryInv
        <4> QED BY <1>3, <2>2, <4>1
      <3>2. Covered(known[k].version)
        BY <1>1, <2>2, <3>1 DEF EvidenceInv
      <3>3. \A x : x = known[k].version => Covered(x)'
        BY <1>2, <3>1, <3>2
      <3> QED BY <3>3 DEF Covered
    <2> QED BY <2>1, <2>2 DEF EvidenceInv
  <1> QED BY <1>2, <1>10, <1>12, <1>13 DEF WaveInv, TypeInv


LEMMA RecordEditStep ==
    ASSUME WaveInv, NEW c \in DOMAIN calls, RecordEdit(c)
    PROVE  WaveInv'
  <1> DEFINE changed == calls[c].result = "ok"
  <1>1. /\ At(c, "over") /\ calls[c].at = "over" /\ batch[c] \in Mutations
        /\ Done(c) /\ UNCHANGED <<batch, wave, made, late, known, tested, aborted, batches>>
    BY AtFacts DEF RecordEdit
  <1>2. /\ gate' = IF changed THEN RecordMutation(gate, TRUE) ELSE gate
        /\ cache' = IF changed THEN {} ELSE cache
        /\ revision' = IF changed THEN revision + 1 ELSE revision
    BY DEF RecordEdit
  <1>3. \A g : RecordVerification(g, NoVerdict) = g
    BY DEF RecordVerification, NoVerdict
  <1>4. NoVerdict \in RunVerdicts /\ ~NoVerdict.passed
    BY DEF RunVerdicts, NoVerdict
  <1>5. ~changed => \A x \in 1..Disk : ~Brings(c, x)
    BY <1>1 DEF Brings, BringsAs, Mutations, Shells
  <1>6. changed \in BOOLEAN
    OBVIOUS
  <1> HIDE DEF changed
  <1> DEFINE g == IF changed THEN RecordMutation(gate, TRUE) ELSE gate
  <1>7. gate' = RecordVerification(g, NoVerdict)
    <2>1. gate' = g
      BY <1>2
    <2> HIDE DEF g
    <2> QED BY <1>3, <2>1
  <1>8. tested' = IF NoVerdict.passed THEN calls[c].saw ELSE tested
    BY <1>1, <1>4
  <1> QED BY <1>1, <1>2, <1>4, <1>5, <1>6, <1>7, <1>8, GateRecorded

LEMMA VerdictOf ==
    ASSUME WaveInv, NEW c \in DOMAIN calls, At(c, "over")
    PROVE  /\ Verdict(c) \in RunVerdicts
           /\ Verdict(c).passed => calls[c].saw # None
           /\ Tested(c) = IF Verdict(c).passed THEN calls[c].saw ELSE tested
  <1>1. CallFine(c, calls[c]) /\ calls[c].at = "over"
    BY AtFacts
  <1>2. Tested(c) = IF Verdict(c).passed THEN calls[c].saw ELSE tested
    BY DEF Tested
  <1>3. CASE batch[c] = "check" \/ (batch[c] = "tests" /\ calls[c].result # "error")
    <2> DEFINE passed == calls[c].result = "ok"
    <2>1. Verdict(c) = [kind |-> "suite", passed |-> passed]
      BY <1>3 DEF Verdict
    <2>2. passed => calls[c].saw # None
      BY <1>1, <1>3 DEF CallFine
    <2>3. passed \in BOOLEAN
      OBVIOUS
    <2> HIDE DEF passed
    <2>4. Verdict(c).passed = passed /\ Verdict(c) \in [kind : {"suite"}, passed : BOOLEAN]
      BY <2>1, <2>3
    <2> QED BY <1>2, <2>2, <2>4 DEF RunVerdicts
  <1>4. CASE ~(batch[c] = "check" \/ (batch[c] = "tests" /\ calls[c].result # "error"))
    <2>1. Verdict(c) = NoVerdict
      BY <1>4 DEF Verdict
    <2> QED BY <1>2, <2>1 DEF RunVerdicts, NoVerdict
  <1> QED BY <1>3, <1>4

LEMMA RecordShellStep ==
    ASSUME WaveInv, NEW c \in DOMAIN calls, RecordShell(c)
    PROVE  WaveInv'
  <1> DEFINE changed == Disk # calls[c].before
  <1>1. /\ At(c, "over") /\ calls[c].at = "over" /\ batch[c] \in Shells /\ CallFine(c, calls[c])
        /\ Done(c) /\ UNCHANGED <<batch, wave, made, late, known, aborted, batches>>
    BY AtFacts DEF RecordShell
  <1>2. /\ gate' = RecordVerification(IF changed THEN RecordMutation(gate, TRUE) ELSE gate, Verdict(c))
        /\ cache' = IF changed THEN {} ELSE cache
        /\ revision' = IF changed THEN revision + 1 ELSE revision
        /\ tested' = Tested(c)
    BY DEF RecordShell, ShellGate
  <1>3. Disk \in Nat
    BY MadeTypes DEF WaveInv, TypeInv
  <1>4. ~changed => \A x \in 1..Disk : ~Brings(c, x)
    BY <1>1, <1>3 DEF Brings, BringsAs, Mutations, Shells
  <1>5. changed \in BOOLEAN
    OBVIOUS
  <1>6. /\ Verdict(c) \in RunVerdicts
        /\ Verdict(c).passed => calls[c].saw # None
        /\ Tested(c) = IF Verdict(c).passed THEN calls[c].saw ELSE tested
    BY <1>1, VerdictOf
  <1> HIDE DEF changed
  <1>7. tested' = IF Verdict(c).passed THEN calls[c].saw ELSE tested
    BY <1>2, <1>6
  <1> QED BY <1>1, <1>2, <1>4, <1>5, <1>6, <1>7, GateRecorded

LEMMA RecordTestsStep ==
    ASSUME WaveInv, NEW c \in DOMAIN calls, RecordTests(c)
    PROVE  WaveInv'
  <1>1. /\ At(c, "over") /\ calls[c].at = "over" /\ batch[c] = "tests"
        /\ Done(c) /\ UNCHANGED <<batch, wave, made, late, known, revision, cache, aborted, batches>>
        /\ gate' = RecordVerification(gate, Verdict(c))
        /\ tested' = Tested(c)
    BY AtFacts DEF RecordTests
  <1>2. \A x \in 1..Disk : ~Brings(c, x)
    BY <1>1 DEF Brings, BringsAs, Mutations, Shells
  <1>3. /\ Verdict(c) \in RunVerdicts
        /\ Verdict(c).passed => calls[c].saw # None
        /\ Tested(c) = IF Verdict(c).passed THEN calls[c].saw ELSE tested
    BY <1>1, VerdictOf
  <1>4. \A changed \in BOOLEAN : changed = FALSE =>
          /\ gate' = RecordVerification(IF changed THEN RecordMutation(gate, TRUE) ELSE gate, Verdict(c))
          /\ cache' = IF changed THEN {} ELSE cache
          /\ revision' = IF changed THEN revision + 1 ELSE revision
    BY <1>1
  <1>5. tested' = IF Verdict(c).passed THEN calls[c].saw ELSE tested
    BY <1>1, <1>3
  <1>6. PICK changed \in BOOLEAN : changed = FALSE
    OBVIOUS
  <1> QED BY <1>1, <1>2, <1>3, <1>4, <1>5, <1>6, GateRecorded

-------------------------------------------------------------------------------
(* The invariant is inductive.                                                *)
LEMMA InitialInv ==
    ASSUME Init
    PROVE  WaveInv
  <1>1. gate = CreateGate /\ revision = 0
    BY DEF Init
  <1>2. GateInv
    BY <1>1 DEF GateInv, Gates, Runs, CreateGate, NoRun
  <1>3. Disk = 0 /\ made \in Seq({"plain", "behind", "late"})
    BY DEF Init, Disk
  <1>4. BatchInv
    <2>1. batches \in 0..MaxBatches /\ late \in Nat /\ aborted \in BOOLEAN
      <3>1. batches = 0 /\ late = 0 /\ aborted = FALSE
        BY DEF Init
      <3>2. MaxBatches \in Nat
        BY ConstantTypes
      <3>3. batches \in 0..MaxBatches /\ late \in Nat
        BY <3>1, <3>2
      <3>4. aborted \in BOOLEAN
        BY <3>1
      <3> QED BY <3>3, <3>4
    <2>2. wave = 0 /\ batch = <<>> /\ calls = <<>> /\ calls \in Seq(Calls) /\ Len(calls) = Len(batch)
      BY EmptySeq DEF Init
    <2>3. Disk <= MaxChanges
      BY <1>3, ConstantTypes
    <2> QED BY <1>3, <2>1, <2>2, <2>3 DEF BatchInv
  <1>5. MemoryInv
    BY <1>3 DEF MemoryInv, Init, NotKnown
  <1>6. CallsInv
    BY DEF CallsInv, Init
  <1>7. EvidenceInv
    <2>1. PlainAfter(tested) = {}
      BY <1>3 DEF PlainAfter
    <2>2. \A k \in Repeatable : known[k].count = 0
      BY DEF Init, NotKnown
    <2> QED BY <2>1, <2>2 DEF EvidenceInv, Covered
  <1> QED BY <1>2, <1>4, <1>5, <1>6, <1>7 DEF WaveInv, TypeInv

LEMMA StutterStep ==
    ASSUME WaveInv, UNCHANGED vars
    PROVE  WaveInv'
  <1>1. TypeInv /\ BatchInv /\ CallsInv /\ EvidenceInv
    BY DEF WaveInv, TypeInv
  <1>2. BatchInv'
    BY <1>1 DEF BatchInv, vars, Disk
  <1>3. GateInv' /\ MemoryInv'
    BY <1>1, MemoryStays DEF vars
  <1>4. CallsInv'
    BY <1>1 DEF CallsInv, CallFine, Under, Stamp, Disk, Group, PlainAfter, vars
  <1>5. \A x : Covered(x) => Covered(x)'
    BY DEF Covered, Brings, BringsAs, Under, PlainAfter, Disk, vars
  <1>6. EvidenceInv'
    BY <1>1, <1>5, EvidenceStays DEF vars
  <1> QED BY <1>2, <1>3, <1>4, <1>6 DEF WaveInv, TypeInv

LEMMA NextStep ==
    ASSUME WaveInv, [Next]_vars
    PROVE  WaveInv'
  <1>1. CASE Answer
    BY <1>1, AnswerStep
  <1>2. CASE WaveEnds
    BY <1>2, WaveEndsStep
  <1>3. CASE Abort
    BY <1>3, AbortStep
  <1>4. CASE LateChange
    BY <1>4, LateChangeStep
  <1>5. CASE LateNothing
    BY <1>5, LateNothingStep
  <1>6. ASSUME NEW c \in DOMAIN calls, Admit(c)
        PROVE  WaveInv'
    BY <1>6, RefuseStep, ServeCachedStep, StartStep DEF Admit
  <1>7. ASSUME NEW c \in DOMAIN calls, Record(c)
        PROVE  WaveInv'
    BY <1>7, RecordSearchStep, RecordEditStep, RecordShellStep, RecordTestsStep DEF Record
  <1>8. ASSUME NEW c \in DOMAIN calls, See(c) \/ Change(c) \/ Return(c) \/ TimesOut(c)
        PROVE  WaveInv'
    BY <1>8, SeeStep, ChangeStep, ReturnStep, TimesOutStep
  <1>9. CASE UNCHANGED vars
    BY <1>9, StutterStep
  <1> QED BY <1>1, <1>2, <1>3, <1>4, <1>5, <1>6, <1>7, <1>8, <1>9 DEF Next

LEMMA WaveInvariant == Spec => []WaveInv
  <1>1. Init => WaveInv
    BY InitialInv
  <1>2. WaveInv /\ [Next]_vars => WaveInv'
    BY NextStep
  <1> QED BY <1>1, <1>2, PTL DEF Spec

(* Between two answers nothing is under way.                                  *)
LEMMA QuietBetween ==
    ASSUME WaveInv, wave = 0, NEW x, Covered(x)
    PROVE  PlainAfter(x) = {}
  <1>1. calls = <<>>
    BY DEF WaveInv, TypeInv, BatchInv
  <1> QED BY <1>1 DEF Covered

-------------------------------------------------------------------------------
(* What the batch, the calls, the gate and the memory of a turn may be, for   *)
(* every set of answers and every bound: agents/index.js, Agent.run.          *)
THEOREM WaveTypeCorrect == Spec => []TypeOK
  <1>1. WaveInv => TypeOK
    <2> SUFFICES ASSUME WaveInv PROVE TypeOK
      OBVIOUS
    <2>1. GateInv /\ BatchInv /\ MemoryInv
      BY DEF WaveInv, TypeInv
    <2>2. Disk \in Nat /\ Disk <= MaxChanges /\ MaxChanges \in Nat
      BY <2>1, MadeTypes
    <2>3. 0..Disk \subseteq 0..MaxChanges
      BY <2>2
    <2>4. wave \in 0..Len(Groups(batch))
      <3>1. CASE wave = 0
        <4>1. Executable(batch) = {} /\ batch = <<>>
          BY <2>1, <3>1 DEF Executable, BatchInv
        <4>2. Len(Groups(batch)) = 1
          BY <4>1 DEF Groups
        <4> QED BY <3>1, <4>2
      <3>2. CASE wave # 0
        BY <2>1, <3>2 DEF BatchInv
      <3> QED BY <3>1, <3>2
    <2>5. known \in [Repeatable -> [count : Nat, revision : Nat, failed : BOOLEAN,
                                    print : {None} \cup 0..MaxChanges,
                                    version : {None} \cup 0..MaxChanges]]
      BY <2>1, <2>3 DEF MemoryInv
    <2>6. cache \subseteq [key : 0..MaxChanges, version : 0..MaxChanges]
      BY <2>1, <2>3 DEF MemoryInv
    <2>7. tested \in {None} \cup 0..MaxChanges
      BY <2>1, <2>3 DEF MemoryInv
    <2> QED BY <2>1, <2>4, <2>5, <2>6, <2>7 DEF TypeOK, BatchInv, GateInv
  <1> QED BY <1>1, WaveInvariant, PTL

(* Whenever the release gate is open between two answers, the green run it    *)
(* remembers has seen every plain change (release-gate.js, agents/index.js).  *)
THEOREM GreenAlwaysCurrent == Spec => []GreenIsCurrent
  <1>1. WaveInv => GreenIsCurrent
    <2> SUFFICES ASSUME WaveInv, wave = 0, ~aborted, Evaluate(gate, TRUE) = "open"
                 PROVE  PlainAfter(tested) = {}
      BY DEF GreenIsCurrent
    <2>1. Covered(tested)
      BY DEF WaveInv, EvidenceInv
    <2> QED BY <2>1, QuietBetween
  <1> QED BY <1>1, WaveInvariant, PTL

(* A call refused as a repeat has been answered with the file as it is, up to *)
(* the changes nobody records (_shouldSkipDuplicateTool).                     *)
THEOREM RefusalAlwaysFounded == Spec => []RefusalIsFounded
  <1>1. WaveInv => RefusalIsFounded
    <2> SUFFICES ASSUME WaveInv, NEW k \in Repeatable,
                        wave = 0, ~aborted, IsRepeat(k), ~known[k].failed
                 PROVE  PlainAfter(known[k].version) = {}
      BY DEF RefusalIsFounded
    <2>1. Covered(known[k].version)
      BY DEF WaveInv, EvidenceInv, IsRepeat
    <2> QED BY <2>1, QuietBetween
  <1> QED BY <1>1, WaveInvariant, PTL

(* What the cache answers a read with is the file as it stands.               *)
THEOREM CacheAlwaysCurrent == Spec => []CacheIsCurrent
  <1>1. WaveInv => CacheIsCurrent
    <2> SUFFICES ASSUME WaveInv, NEW e \in Hits
                 PROVE  e.version = Disk
      BY DEF CacheIsCurrent
    <2>1. e.key = Disk /\ e.version \in 0..Disk /\ e.key <= e.version
      BY DEF Hits, WaveInv, TypeInv, MemoryInv
    <2>2. Disk \in Nat
      BY MadeTypes DEF WaveInv, TypeInv
    <2> QED BY <2>1, <2>2
  <1> QED BY <1>1, WaveInvariant, PTL

===============================================================================
