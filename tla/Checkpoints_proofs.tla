-------------------------- MODULE Checkpoints_proofs --------------------------
(* Proofs about Checkpoints: its types, and, for a work tree in git whose   *)
(* shell calls run one at a time, that no checkpoint and so no undo takes   *)
(* the request's own work for what was there before.                        *)
EXTENDS Checkpoints, SequenceTheorems, FiniteSetTheorems, TLAPS

EntryType == [before : States \cup {Unknown}, after : States \cup {Unknown, None},
              touched : BOOLEAN]

CheckpointType == [id : Nat, entries : Entries, undone : BOOLEAN]

RedoFiles == UNION {[fs -> [state : States, expect : States]] : fs \in SUBSET Files}

RedoType == [id : Nat, files : RedoFiles]

TruthType == [origin : [Files -> SUBSET States], held : [Files -> SUBSET States],
              silent : SUBSET Files]

CallType == [step : {"idle", "snapped", "running", "ended"},
             snap : [Files -> States \cup {None}] \cup {<<>>},
             head : [Files -> States] \cup {<<>>},
             changed : SUBSET Files]

CallOK(c) ==
    /\ c \in CallType
    /\ c.step # "idle" /\ InGit => c.snap \in [Files -> States \cup {None}]
    /\ c.step \in {"running", "ended"} => c.head \in [Files -> States]

DiskOK == disk \in [Files -> States] /\ head \in [Files -> States]

ControlOK == /\ running \in BOOLEAN /\ open \in BOOLEAN
             /\ req \in 0..MaxRequests /\ changes \in 0..MaxChanges
             /\ tool \in Files \cup {None} /\ (tool # None => running)

StoreOK == /\ cps \in Seq(CheckpointType)
           /\ \A i \in DOMAIN cps : cps[i].id \in 1..req
           /\ running => open
           /\ open => cps # <<>> /\ cps[Len(cps)].id = req

HistoryOK == truth \in Seq(TruthType) /\ Len(truth) = req

CallsOK == /\ DOMAIN call = Shells
           /\ \A s \in Shells : CallOK(call[s]) /\ (call[s].step # "idle" => running)

(* Every variable has its type, and the store's cursor is the newest        *)
(* checkpoint while a request runs.                                         *)
TypeInv == /\ DiskOK /\ ControlOK /\ StoreOK /\ HistoryOK /\ CallsOK
           /\ redos \in Seq(RedoType)

-------------------------------------------------------------------------------
(* A shell call runs alone, in a git work tree. *)
Alone == InGit /\ \A s, t \in Shells : s = t

Origin(f) == truth[req].origin[f]

(* Every entry, touched or not, is a state without the request. *)
EntriesOld ==
    \A i \in DOMAIN cps : \A f \in DOMAIN cps[i].entries :
        cps[i].entries[f].before \in truth[cps[i].id].origin[f] \cup {Unknown}

(* What is known of a file the current checkpoint does not have, by the     *)
(* shell call: between calls it is as it was without the request; during    *)
(* one, what the call would infer for it is.                                *)
Pending(f, c) ==
    /\ c.step \in {"idle", "snapped"} => disk[f] \in Origin(f)
    /\ c.step # "idle" /\ c.snap[f] # None => c.snap[f] \in Origin(f)
    /\ c.step = "snapped" /\ c.snap[f] = None => head[f] \in Origin(f)
    /\ c.step \in {"running", "ended"} /\ c.snap[f] = None => c.head[f] \in Origin(f)
    /\ c.step = "ended" => f \in c.changed \cup Moved(c) \/ disk[f] \in Origin(f)

UnseenOld ==
    running => \A f \in Files \ DOMAIN Current :
        /\ Shells = {} => disk[f] \in Origin(f)
        /\ \A s \in Shells : Pending(f, call[s])

ToolKnown == tool # None => /\ tool \in DOMAIN Current
                            /\ \A s \in Shells : call[s].step = "idle"

OldInv == TypeInv /\ EntriesOld /\ UnseenOld /\ ToolKnown

-------------------------------------------------------------------------------
LEMMA Bounds == MaxRequests \in Nat /\ MaxChanges \in Nat
  BY CheckpointAssumption

LEMMA MinExists ==
    ASSUME NEW T \in SUBSET Nat, T # {}
    PROVE  \E m \in T : \A n \in T : m <= n
  <1> DEFINE Below == {0..m : m \in T}
  <1>1. Below \subseteq FiniteSubsetsOf(Nat)
    <2>1. ASSUME NEW m \in T PROVE 0..m \in FiniteSubsetsOf(Nat)
      <3>1. IsFiniteSet(0..m)
        BY FS_Interval
      <3> QED BY <3>1 DEF FiniteSubsetsOf
    <2> QED BY <2>1
  <1>2. Below # {}
    OBVIOUS
  <1>3. PICK x \in Below : \A y \in Below : <<y, x>> \notin StrictSubsetOrdering(Nat)
    <2> HIDE DEF Below
    <2>1. IsWellFoundedOn(StrictSubsetOrdering(Nat), FiniteSubsetsOf(Nat))
      BY FS_StrictSubsetOrderingWellFounded
    <2> QED BY <1>1, <1>2, <2>1, WFMin, Zenon
  <1>4. PICK m \in T : x = 0..m
    OBVIOUS
  <1>5. ASSUME NEW n \in T, n < m PROVE FALSE
    <2>1. 0..n \subseteq 0..m /\ 0..n # 0..m
      BY <1>5
    <2>2. <<0..n, x>> \in StrictSubsetOrdering(Nat)
      BY <2>1, <1>4 DEF StrictSubsetOrdering
    <2> QED BY <2>2, <1>3
  <1> QED BY <1>5

LEMMA ReadKeeps ==
    ASSUME NEW c \in States
    PROVE  Read(c) \in {c, Unknown} /\ Read(c) \in States \cup {Unknown}
  BY DEF Read

LEMMA EntriesAre ==
    ASSUME NEW e \in Entries
    PROVE  /\ DOMAIN e \in SUBSET Files /\ e \in [DOMAIN e -> EntryType]
           /\ \A f \in DOMAIN e : e[f] \in EntryType
  BY DEF Entries, EntryType

LEMMA AreEntries ==
    ASSUME NEW fs \in SUBSET Files, NEW e \in [fs -> EntryType]
    PROVE  e \in Entries
  BY DEF Entries, EntryType

LEMMA NoEntries == <<>> \in Entries /\ DOMAIN <<>> = {}
  <1>1. <<>> = [f \in {} |-> 0] /\ DOMAIN <<>> = {}
    OBVIOUS
  <1>2. <<>> \in [{} -> EntryType]
    BY <1>1
  <1> QED BY <1>1, <1>2, AreEntries

LEMMA EntryIs ==
    ASSUME NEW before \in States \cup {Unknown}, NEW after \in States \cup {Unknown, None},
           NEW touched \in BOOLEAN
    PROVE  /\ Entry(before, after, touched) \in EntryType
           /\ Entry(before, after, touched).before = before
  BY DEF Entry, EntryType

LEMMA CaptureIs ==
    ASSUME NEW e \in Entries, NEW fs \in SUBSET Files, disk \in [Files -> States]
    PROVE  /\ Capture(e, fs) \in Entries
           /\ DOMAIN Capture(e, fs) = DOMAIN e \cup fs
           /\ \A f \in DOMAIN e : Capture(e, fs)[f] = e[f]
           /\ \A f \in fs \ DOMAIN e : Capture(e, fs)[f].before = Read(disk[f])
  <1>1. \A f \in fs : Read(disk[f]) \in States \cup {Unknown}
    BY ReadKeeps
  <1>2. \A f \in fs : /\ Entry(Read(disk[f]), None, FALSE) \in EntryType
                      /\ Entry(Read(disk[f]), None, FALSE).before = Read(disk[f])
    BY <1>1, EntryIs
  <1>3. Capture(e, fs) \in [DOMAIN e \cup fs -> EntryType]
    BY <1>2, EntriesAre DEF Capture
  <1>4. DOMAIN e \cup fs \in SUBSET Files
    BY EntriesAre
  <1>5. Capture(e, fs) \in Entries
    BY <1>3, <1>4, AreEntries
  <1> QED BY <1>2, <1>5 DEF Capture

LEMMA NoteIs ==
    ASSUME NEW e \in Entries, NEW fs, NEW now \in [Files -> States]
    PROVE  /\ Note(e, fs, now) \in Entries
           /\ DOMAIN Note(e, fs, now) = DOMAIN e
           /\ \A f \in DOMAIN e : Note(e, fs, now)[f].before = e[f].before
  <1>1. \A f \in DOMAIN e : /\ e[f].before \in States \cup {Unknown}
                            /\ Read(now[f]) \in States \cup {Unknown, None}
    <2>1. \A f \in DOMAIN e : f \in Files /\ e[f] \in EntryType
      BY EntriesAre
    <2> QED BY <2>1, ReadKeeps DEF EntryType
  <1>2. \A f \in DOMAIN e : /\ Entry(e[f].before, Read(now[f]), TRUE) \in EntryType
                            /\ Entry(e[f].before, Read(now[f]), TRUE).before = e[f].before
    BY <1>1, EntryIs
  <1>3. Note(e, fs, now) \in [DOMAIN e -> EntryType]
    BY <1>2, EntriesAre DEF Note
  <1>4. Note(e, fs, now) \in Entries
    BY <1>3, EntriesAre, AreEntries
  <1> QED BY <1>2, <1>4 DEF Note

LEMMA InferIs ==
    ASSUME NEW e \in Entries, NEW fs \in SUBSET Files, NEW c,
           c.head \in [Files -> States]
    PROVE  /\ Infer(e, c, fs) \in Entries
           /\ DOMAIN Infer(e, c, fs) = DOMAIN e \cup fs
           /\ \A f \in DOMAIN e : Infer(e, c, fs)[f] = e[f]
  <1>1. \A f \in fs : Inferred(c, f) \in States \cup {Unknown}
    BY ReadKeeps DEF Inferred
  <1>2. \A f \in fs : Entry(Inferred(c, f), None, FALSE) \in EntryType
    BY <1>1, EntryIs
  <1>3. Infer(e, c, fs) \in [DOMAIN e \cup fs -> EntryType]
    BY <1>2, EntriesAre DEF Infer
  <1>4. DOMAIN e \cup fs \in SUBSET Files
    BY EntriesAre
  <1>5. Infer(e, c, fs) \in Entries
    BY <1>3, <1>4, AreEntries
  <1> QED BY <1>2, <1>5 DEF Infer

LEMMA SetUnknownIs ==
    ASSUME NEW e \in Entries, NEW fs \in SUBSET Files
    PROVE  SetUnknown(e, fs) \in Entries
  <1>1. Entry(Unknown, None, TRUE) \in EntryType
    BY EntryIs
  <1>2. \A f \in DOMAIN e : [e[f] EXCEPT !.touched = TRUE] \in EntryType
    <2>1. ASSUME NEW r \in EntryType PROVE [r EXCEPT !.touched = TRUE] \in EntryType
      BY Zenon DEF EntryType
    <2> QED BY <2>1, EntriesAre
  <1>3. SetUnknown(e, fs) \in [DOMAIN e \cup fs -> EntryType]
    BY <1>1, <1>2, EntriesAre DEF SetUnknown
  <1>4. DOMAIN e \cup fs \in SUBSET Files
    BY EntriesAre
  <1> QED BY <1>3, <1>4, AreEntries

-------------------------------------------------------------------------------
LEMMA TrimIsSuffix ==
    ASSUME NEW s \in Seq(CheckpointType), s # <<>>
    PROVE  \E k \in 1..Len(s) : Trim(s) = SubSeq(s, k, Len(s))
  <1> DEFINE From(k) == SubSeq(s, k, Len(s))
             kept == {k \in 1..Len(s) : Fits(From(k))}
  <1>1. Len(s) \in 1..Len(s)
    BY LenProperties, EmptySeq
  <1>2. Len(From(Len(s))) = 1
    BY <1>1, SubSeqProperties, LenProperties
  <1>3. Len(s) \in kept
    BY <1>1, <1>2, CheckpointAssumption DEF Fits
  <1>4. kept \in SUBSET Nat
    BY LenProperties
  <1>5. \E k \in kept : \A other \in kept : k <= other
    <2> HIDE DEF kept
    <2> QED BY <1>3, <1>4, MinExists
  <1>6. (CHOOSE k \in kept : \A other \in kept : k <= other) \in kept
    <2> HIDE DEF kept
    <2> QED BY <1>5
  <1>7. Trim(s) = From(CHOOSE k \in kept : \A other \in kept : k <= other)
    BY DEF Trim
  <1> QED BY <1>6, <1>7

LEMMA TrimIs ==
    ASSUME NEW s \in Seq(CheckpointType), s # <<>>
    PROVE  /\ Trim(s) \in Seq(CheckpointType) /\ Trim(s) # <<>>
           /\ Trim(s)[Len(Trim(s))] = s[Len(s)]
           /\ \A i \in DOMAIN Trim(s) : \E j \in DOMAIN s : Trim(s)[i] = s[j]
  <1>1. PICK k \in 1..Len(s) : Trim(s) = SubSeq(s, k, Len(s))
    BY TrimIsSuffix
  <1>2. /\ Len(s) \in Nat /\ DOMAIN s = 1..Len(s)
        /\ \A i \in k..Len(s) : s[i] \in CheckpointType
    BY LenProperties, ElementOfSeq
  <1>3. /\ Trim(s) \in Seq(CheckpointType) /\ Len(Trim(s)) = Len(s) - k + 1
        /\ \A i \in 1..(Len(s) - k + 1) : Trim(s)[i] = s[k + i - 1]
    BY <1>1, <1>2, SubSeqProperties
  <1>4. DOMAIN Trim(s) = 1..(Len(s) - k + 1)
    BY <1>3, LenProperties
  <1>5. \A i \in DOMAIN Trim(s) : k + i - 1 \in DOMAIN s
    BY <1>2, <1>4
  <1>6. Trim(s)[Len(Trim(s))] = s[Len(s)]
    BY <1>2, <1>3
  <1>7. Trim(s) # <<>>
    BY <1>2, <1>3
  <1> QED BY <1>3, <1>4, <1>5, <1>6, <1>7

LEMMA CloseIs ==
    ASSUME cps \in Seq(CheckpointType), open \in BOOLEAN, open => cps # <<>>
    PROVE  /\ CloseCurrent \in Seq(CheckpointType)
           /\ \A i \in DOMAIN CloseCurrent :
                 /\ i \in DOMAIN cps /\ CloseCurrent[i].id = cps[i].id
                 /\ DOMAIN CloseCurrent[i].entries \subseteq DOMAIN cps[i].entries
                 /\ Touched(cps[i]) \subseteq DOMAIN CloseCurrent[i].entries
                 /\ \A f \in DOMAIN CloseCurrent[i].entries :
                       CloseCurrent[i].entries[f] = cps[i].entries[f]
  <1> DEFINE last == cps[Len(cps)]
             older == SubSeq(cps, 1, Len(cps) - 1)
             closed == [last EXCEPT !.entries = [f \in Touched(last) |-> last.entries[f]]]
  <1>1. CASE ~open
    BY <1>1 DEF CloseCurrent, Touched
  <1>2. CASE open
    <2>1. /\ Len(cps) \in Nat \ {0} /\ DOMAIN cps = 1..Len(cps)
          /\ \A i \in 1..Len(cps) : cps[i] \in CheckpointType
      BY <1>2, LenProperties, EmptySeq, ElementOfSeq
    <2>2. /\ older \in Seq(CheckpointType) /\ Len(older) = Len(cps) - 1
          /\ \A i \in 1..(Len(cps) - 1) : older[i] = cps[i]
      BY <2>1, SubSeqProperties
    <2>3. last \in CheckpointType /\ last.entries \in Entries
      BY <2>1 DEF CheckpointType
    <2>4. [f \in Touched(last) |-> last.entries[f]] \in Entries
      <3>1. Touched(last) \in SUBSET Files /\ \A f \in Touched(last) : last.entries[f] \in EntryType
        BY <2>3, EntriesAre DEF Touched
      <3> QED BY <3>1, AreEntries
    <2>5. /\ closed \in CheckpointType /\ closed.id = last.id
          /\ closed.entries = [f \in Touched(last) |-> last.entries[f]]
      BY <2>3, <2>4 DEF CheckpointType
    <2>6. CASE Touched(last) = {}
      <3>1. CloseCurrent = older /\ DOMAIN older = 1..(Len(cps) - 1)
        BY <1>2, <2>2, <2>6, LenProperties DEF CloseCurrent
      <3> HIDE DEF older
      <3>2. \A i \in 1..(Len(cps) - 1) : i \in 1..Len(cps)
        BY <2>1
      <3> QED BY <2>1, <2>2, <3>1, <3>2 DEF Touched
    <2>7. CASE Touched(last) # {}
      <3>1. CloseCurrent = Append(older, closed)
        BY <1>2, <2>7 DEF CloseCurrent
      <3> HIDE DEF older, closed
      <3>2. /\ CloseCurrent \in Seq(CheckpointType) /\ Len(CloseCurrent) = Len(cps)
            /\ \A i \in 1..(Len(cps) - 1) : CloseCurrent[i] = older[i]
            /\ CloseCurrent[Len(cps)] = closed
        <4>1. /\ Append(older, closed) \in Seq(CheckpointType)
              /\ Len(Append(older, closed)) = Len(older) + 1
              /\ \A i \in 1..Len(older) : Append(older, closed)[i] = older[i]
              /\ Append(older, closed)[Len(older) + 1] = closed
          BY <2>2, <2>5, AppendProperties
        <4>2. Len(older) + 1 = Len(cps) /\ 1..Len(older) = 1..(Len(cps) - 1)
          BY <2>1, <2>2
        <4> QED BY <3>1, <4>1, <4>2
      <3>3. DOMAIN CloseCurrent = 1..Len(cps)
        BY <3>2, LenProperties
      <3>4. ASSUME NEW i \in 1..Len(cps), i # Len(cps) PROVE CloseCurrent[i] = cps[i]
        <4>1. i \in 1..(Len(cps) - 1)
          <5>1. ASSUME NEW n \in Nat, NEW j \in 1..n, j # n PROVE j \in 1..(n - 1)
            BY <5>1
          <5>2. Len(cps) \in Nat
            BY <2>1
          <5> QED BY <3>4, <5>1, <5>2
        <4> QED BY <2>2, <3>2, <4>1
      <3>5. DOMAIN closed.entries = Touched(last) /\ \A f \in Touched(last) : closed.entries[f] = last.entries[f]
        BY <2>5
      <3>6. Touched(last) \subseteq DOMAIN last.entries
        BY DEF Touched
      <3>7. ASSUME NEW i \in 1..Len(cps)
            PROVE  /\ CloseCurrent[i].id = cps[i].id
                   /\ DOMAIN CloseCurrent[i].entries \subseteq DOMAIN cps[i].entries
                   /\ Touched(cps[i]) \subseteq DOMAIN CloseCurrent[i].entries
                   /\ \A f \in DOMAIN CloseCurrent[i].entries :
                         CloseCurrent[i].entries[f] = cps[i].entries[f]
        <4>1. CASE i # Len(cps)
          BY <4>1, <3>4 DEF Touched
        <4>2. CASE i = Len(cps)
          BY <4>2, <2>5, <3>2, <3>5, <3>6
        <4> QED BY <4>1, <4>2
      <3> QED BY <2>1, <3>2, <3>3, <3>7
    <2> QED BY <2>6, <2>7
  <1> QED BY <1>1, <1>2

(* The current checkpoint with other entries. *)
LEMMA WithCurrentIs ==
    ASSUME cps \in Seq(CheckpointType), cps # <<>>, NEW e \in Entries
    PROVE  /\ WithCurrent(e) \in Seq(CheckpointType)
           /\ Len(WithCurrent(e)) = Len(cps) /\ WithCurrent(e) # <<>>
           /\ DOMAIN WithCurrent(e) = DOMAIN cps
           /\ WithCurrent(e)[Len(cps)].entries = e
           /\ WithCurrent(e)[Len(cps)].id = cps[Len(cps)].id
           /\ \A i \in DOMAIN cps : i # Len(cps) => WithCurrent(e)[i] = cps[i]
  <1> DEFINE new == [cps[Len(cps)] EXCEPT !.entries = e]
  <1>1. /\ Len(cps) \in Nat \ {0} /\ DOMAIN cps = 1..Len(cps)
        /\ cps[Len(cps)] \in CheckpointType
    BY LenProperties, EmptySeq, ElementOfSeq
  <1>2. new \in CheckpointType /\ new.entries = e /\ new.id = cps[Len(cps)].id
    BY <1>1 DEF CheckpointType
  <1>3. WithCurrent(e) = [cps EXCEPT ![Len(cps)] = new]
    BY DEF WithCurrent
  <1> HIDE DEF new
  <1>4. /\ WithCurrent(e) \in Seq(CheckpointType) /\ Len(WithCurrent(e)) = Len(cps)
        /\ \A j \in 1..Len(cps) : WithCurrent(e)[j] = IF j = Len(cps) THEN new ELSE cps[j]
    BY <1>1, <1>2, <1>3, ExceptSeq
  <1>5. DOMAIN WithCurrent(e) = 1..Len(cps)
    BY <1>4, LenProperties
  <1>6. WithCurrent(e) # <<>>
    BY <1>1, <1>4, EmptySeq
  <1>7. Len(cps) \in 1..Len(cps)
    BY <1>1
  <1> QED BY <1>1, <1>2, <1>4, <1>5, <1>6, <1>7

-------------------------------------------------------------------------------
(* The history grows: a state recorded stays recorded. *)
Grows ==
    /\ truth' \in Seq(TruthType) /\ Len(truth') = Len(truth)
    /\ \A r \in DOMAIN truth : \A f \in Files : truth[r].origin[f] \subseteq truth'[r].origin[f]

LEMMA HistoryIs ==
    ASSUME NEW t \in TruthType, NEW f \in Files, NEW c \in States
    PROVE  /\ Held(t, f, c) \in TruthType /\ Held(t, f, c).origin = t.origin
           /\ Silent(t, f) \in TruthType /\ Silent(t, f).origin = t.origin
           /\ Original(t, f, c) \in TruthType
           /\ Original(t, f, c).origin = [t.origin EXCEPT ![f] = @ \cup {c}]
  BY DEF Held, Silent, Original, TruthType

LEMMA Recorded ==
    ASSUME truth \in Seq(TruthType), req \in 1..Len(truth), NEW new \in TruthType,
           \A f \in Files : truth[req].origin[f] \subseteq new.origin[f],
           truth' = [truth EXCEPT ![req] = new]
    PROVE  Grows /\ truth'[req] = new
  <1>1. /\ truth' \in Seq(TruthType) /\ Len(truth') = Len(truth)
        /\ \A j \in 1..Len(truth) : truth'[j] = IF j = req THEN new ELSE truth[j]
    BY ExceptSeq
  <1>2. DOMAIN truth = 1..Len(truth)
    BY LenProperties
  <1> QED BY <1>1, <1>2 DEF Grows

LEMMA RequestGrows ==
    ASSUME truth \in Seq(TruthType), req \in 1..Len(truth), NEW f \in Files, NEW c \in States,
           ByRequest(f, c)
    PROVE  Grows
  <1>1. truth[req] \in TruthType
    BY ElementOfSeq
  <1>2. Held(truth[req], f, c) \in TruthType /\ Held(truth[req], f, c).origin = truth[req].origin
    BY <1>1, HistoryIs
  <1>3. truth' = [truth EXCEPT ![req] = Held(truth[req], f, c)]
    BY DEF ByRequest
  <1> QED BY <1>2, <1>3, Recorded

LEMMA UserGrows ==
    ASSUME truth \in Seq(TruthType), running => req \in 1..Len(truth), running \in BOOLEAN,
           NEW f \in Files, NEW c \in States, ByUser(f, c)
    PROVE  Grows /\ (running => c \in truth'[req].origin[f])
  <1>1. CASE ~running
    BY <1>1 DEF ByUser, Grows
  <1>2. CASE running
    <2> DEFINE new == Original(Held(truth[req], f, c), f, c)
    <2>1. truth[req] \in TruthType
      BY <1>2, ElementOfSeq
    <2>2. Held(truth[req], f, c) \in TruthType /\ Held(truth[req], f, c).origin = truth[req].origin
      BY <2>1, HistoryIs
    <2>3. new \in TruthType /\ new.origin = [truth[req].origin EXCEPT ![f] = @ \cup {c}]
      BY <2>2, HistoryIs
    <2>4. truth[req].origin \in [Files -> SUBSET States]
      BY <2>1 DEF TruthType
    <2>5. c \in new.origin[f] /\ \A g \in Files : truth[req].origin[g] \subseteq new.origin[g]
      BY <2>3, <2>4
    <2>6. truth' = [truth EXCEPT ![req] = new]
      BY <1>2 DEF ByUser
    <2> HIDE DEF new
    <2>7. Grows /\ truth'[req] = new
      BY <1>2, <2>3, <2>5, <2>6, Recorded
    <2> QED BY <2>5, <2>7
  <1> QED BY <1>1, <1>2

LEMMA SilentGrows ==
    ASSUME truth \in Seq(TruthType), req \in 1..Len(truth), NEW f \in Files, NEW c \in States,
           truth' = [truth EXCEPT ![req] = Silent(Held(@, f, c), f)]
    PROVE  Grows
  <1>1. truth[req] \in TruthType
    BY ElementOfSeq
  <1>2. Held(truth[req], f, c) \in TruthType /\ Held(truth[req], f, c).origin = truth[req].origin
    BY <1>1, HistoryIs
  <1>3. /\ Silent(Held(truth[req], f, c), f) \in TruthType
        /\ Silent(Held(truth[req], f, c), f).origin = truth[req].origin
    BY <1>2, HistoryIs
  <1> QED BY <1>3, Recorded

-------------------------------------------------------------------------------
LEMMA IdleIs == Idle \in CallType /\ Idle.step = "idle"
  BY DEF Idle, Call, CallType

LEMMA CallIs ==
    ASSUME NEW step \in {"idle", "snapped", "running", "ended"},
           NEW snap \in [Files -> States \cup {None}] \cup {<<>>},
           NEW at \in [Files -> States] \cup {<<>>}, NEW changed \in SUBSET Files
    PROVE  /\ Call(step, snap, at, changed) \in CallType
           /\ Call(step, snap, at, changed).step = step
           /\ Call(step, snap, at, changed).snap = snap
           /\ Call(step, snap, at, changed).head = at
           /\ Call(step, snap, at, changed).changed = changed
  BY DEF Call, CallType

LEMMA SnapshotIs ==
    ASSUME DiskOK
    PROVE  /\ Snapshot \in [Files -> States \cup {None}]
           /\ \A f \in Files : /\ Snapshot[f] # None => Snapshot[f] = disk[f]
                               /\ Snapshot[f] = None => disk[f] = head[f]
  BY CheckpointAssumption DEF DiskOK, Snapshot

LEMMA Marked ==
    ASSUME NEW cp \in CheckpointType, NEW b \in BOOLEAN
    PROVE  /\ [cp EXCEPT !.undone = b] \in CheckpointType
           /\ [cp EXCEPT !.undone = b].id = cp.id
           /\ [cp EXCEPT !.undone = b].entries = cp.entries
  <1>1. [cp EXCEPT !.undone = b] \in CheckpointType
    BY Zenon DEF CheckpointType
  <1>2. /\ [cp EXCEPT !.undone = b].id = cp.id
        /\ [cp EXCEPT !.undone = b].entries = cp.entries
    BY DEF CheckpointType
  <1> QED BY <1>1, <1>2

LEMMA MaxExists ==
    ASSUME NEW n \in Nat, NEW T \in SUBSET (1..n), T # {}
    PROVE  \E m \in T : \A other \in T : other <= m
  <1> DEFINE FromEnd == {n - i : i \in T}
  <1>1. \A i \in T : n - i \in Nat
    OBVIOUS
  <1>2. FromEnd \in SUBSET Nat /\ FromEnd # {}
    BY <1>1
  <1>3. \E m \in FromEnd : \A k \in FromEnd : m <= k
    <2> HIDE DEF FromEnd
    <2> QED BY <1>2, MinExists
  <1>4. PICK i \in T : \A other \in T : n - i <= n - other
    BY <1>3
  <1>5. ASSUME NEW other \in T PROVE other <= i
    <2>1. n - i <= n - other
      BY <1>4
    <2> QED BY <2>1
  <1> QED BY <1>5

LEMMA TargetIs ==
    ASSUME cps \in Seq(CheckpointType), Undoable # {}
    PROVE  Target \in DOMAIN cps /\ Target \in Undoable
  <1>1. Len(cps) \in Nat /\ DOMAIN cps = 1..Len(cps) /\ Undoable \in SUBSET (1..Len(cps))
    BY LenProperties DEF Undoable
  <1>2. \E i \in Undoable : \A other \in Undoable : other <= i
    BY <1>1, MaxExists
  <1>3. Target \in Undoable
    BY <1>2 DEF Target
  <1> QED BY <1>1, <1>3

LEMMA TypeInit == Init => TypeInv
  <1> SUFFICES ASSUME Init PROVE TypeInv
    OBVIOUS
  <1>1. DiskOK
    <2>1. IF InGit THEN head \in [Files -> States] ELSE head = disk
      BY Zenon DEF Init
    <2>2. disk \in [Files -> States]
      BY Zenon DEF Init
    <2>3. head \in [Files -> States]
      BY <2>1, <2>2, Zenon
    <2> QED BY <2>2, <2>3 DEF DiskOK
  <1>2. ControlOK
    <2>1. 0 \in 0..MaxRequests /\ 0 \in 0..MaxChanges
      BY Bounds
    <2>2. running = FALSE /\ open = FALSE
      BY Zenon DEF Init
    <2> QED BY <2>1, <2>2 DEF Init, ControlOK
  <1>3. StoreOK
    BY EmptySeq DEF Init, StoreOK
  <1>4. HistoryOK
    BY EmptySeq DEF Init, HistoryOK
  <1>5. CallsOK
    BY IdleIs DEF Init, CallsOK, CallOK
  <1>6. redos \in Seq(RedoType)
    BY EmptySeq DEF Init
  <1> QED BY <1>1, <1>2, <1>3, <1>4, <1>5, <1>6 DEF TypeInv

-------------------------------------------------------------------------------
LEMMA OpenIs ==
    ASSUME TypeInv, open
    PROVE  /\ req \in 1..Len(truth) /\ cps # <<>> /\ cps \in Seq(CheckpointType)
           /\ Len(cps) \in DOMAIN cps /\ cps[Len(cps)].id = req
           /\ Current \in Entries /\ DOMAIN Current \subseteq Files
  <1>1. /\ cps # <<>> /\ cps \in Seq(CheckpointType) /\ cps[Len(cps)].id = req
        /\ \A i \in DOMAIN cps : cps[i].id \in 1..req
        /\ Len(truth) = req
    BY DEF TypeInv, StoreOK, HistoryOK
  <1>2. Len(cps) \in 1..Len(cps) /\ DOMAIN cps = 1..Len(cps)
    BY <1>1, LenProperties, EmptySeq
  <1>3. cps[Len(cps)] \in CheckpointType
    BY <1>1, <1>2, ElementOfSeq
  <1>4. Current \in Entries
    BY <1>3 DEF Current, CheckpointType
  <1> QED BY <1>1, <1>2, <1>4, EntriesAre

LEMMA StoreWith ==
    ASSUME TypeInv, open, NEW e \in Entries,
           cps' \in {WithCurrent(e), Trim(WithCurrent(e))}, UNCHANGED <<open, req>>
    PROVE  StoreOK'
  <1> DEFINE s == WithCurrent(e)
  <1>1. /\ s \in Seq(CheckpointType) /\ s # <<>> /\ DOMAIN s = DOMAIN cps
        /\ Len(s) = Len(cps) /\ s[Len(s)].id = req
        /\ \A i \in DOMAIN s : s[i].id = cps[i].id
    BY OpenIs, WithCurrentIs
  <1>2. \A i \in DOMAIN cps : cps[i].id \in 1..req
    BY DEF TypeInv, StoreOK
  <1> HIDE DEF s
  <1>3. /\ Trim(s) \in Seq(CheckpointType) /\ Trim(s) # <<>>
        /\ Trim(s)[Len(Trim(s))] = s[Len(s)]
        /\ \A i \in DOMAIN Trim(s) : \E j \in DOMAIN s : Trim(s)[i] = s[j]
    BY <1>1, TrimIs
  <1>4. \A i \in DOMAIN Trim(s) : Trim(s)[i].id \in 1..req
    BY <1>1, <1>2, <1>3
  <1>5. CASE cps' = s
    BY <1>1, <1>2, <1>5 DEF StoreOK
  <1>6. CASE cps' = Trim(s)
    BY <1>1, <1>3, <1>4, <1>6 DEF StoreOK
  <1> QED BY <1>5, <1>6 DEF s

LEMMA CallsChange ==
    ASSUME CallsOK, NEW s \in Shells, NEW c, CallOK(c), running' = running,
           c.step # "idle" => running, call' = [call EXCEPT ![s] = c]
    PROVE  CallsOK'
  BY DEF CallsOK

LEMMA BeginType ==
    ASSUME TypeInv, Begin
    PROVE  TypeInv'
  <1> DEFINE new == [id |-> req', entries |-> <<>>, undone |-> FALSE]
             s == Append(CloseCurrent, new)
  <1>1. /\ disk' = disk /\ head' = head /\ tool' = tool /\ call' = call /\ changes' = changes
        /\ ~running /\ req < MaxRequests /\ req' = req + 1 /\ running' = TRUE
        /\ truth' = Append(truth, NewTruth) /\ cps' = Trim(s) /\ open' = TRUE /\ redos' = <<>>
    BY DEF Begin
  <1>2. DiskOK'
    BY <1>1 DEF TypeInv, DiskOK
  <1>3. req' \in 1..MaxRequests /\ req \in Nat
    BY <1>1, Bounds DEF TypeInv, ControlOK
  <1>4. ControlOK'
    BY <1>1, <1>3 DEF TypeInv, ControlOK
  <1>5. StoreOK'
    <2>1. /\ CloseCurrent \in Seq(CheckpointType)
          /\ \A i \in DOMAIN CloseCurrent : \E j \in DOMAIN cps : CloseCurrent[i].id = cps[j].id
      <3>1. cps \in Seq(CheckpointType) /\ open \in BOOLEAN /\ (open => cps # <<>>)
        BY DEF TypeInv, StoreOK, ControlOK
      <3> QED BY <3>1, CloseIs
    <2>2. \A i \in DOMAIN CloseCurrent : CloseCurrent[i].id \in 1..req'
      <3>1. \A j \in DOMAIN cps : cps[j].id \in 1..req
        BY DEF TypeInv, StoreOK
      <3>2. 1..req \subseteq 1..req'
        BY <1>1, <1>3
      <3> QED BY <2>1, <3>1, <3>2
    <2>3. new \in CheckpointType /\ new.id = req'
      BY <1>3, NoEntries DEF CheckpointType
    <2> HIDE DEF new
    <2>4. /\ s \in Seq(CheckpointType) /\ s # <<>> /\ Len(s) = Len(CloseCurrent) + 1
          /\ \A i \in 1..Len(CloseCurrent) : s[i] = CloseCurrent[i]
          /\ s[Len(CloseCurrent) + 1] = new
      BY <2>1, <2>3, AppendProperties
    <2>5. /\ DOMAIN s = 1..Len(s) /\ DOMAIN CloseCurrent = 1..Len(CloseCurrent)
          /\ Len(CloseCurrent) \in Nat
      BY <2>1, <2>4, LenProperties
    <2>6. \A i \in DOMAIN s : s[i].id \in 1..req'
      <3>1. \A i \in DOMAIN s : i \in DOMAIN CloseCurrent \/ i = Len(CloseCurrent) + 1
        BY <2>4, <2>5
      <3> QED BY <1>3, <2>2, <2>3, <2>4, <2>5, <3>1
    <2> HIDE DEF s
    <2>7. /\ Trim(s) \in Seq(CheckpointType) /\ Trim(s) # <<>>
          /\ Trim(s)[Len(Trim(s))] = s[Len(s)]
          /\ \A i \in DOMAIN Trim(s) : \E j \in DOMAIN s : Trim(s)[i] = s[j]
      BY <2>4, TrimIs
    <2> QED BY <1>1, <2>3, <2>4, <2>6, <2>7 DEF StoreOK
  <1>6. HistoryOK'
    <2>1. NewTruth \in TruthType
      BY DEF TypeInv, DiskOK, NewTruth, TruthType
    <2> QED BY <1>1, <2>1, AppendProperties DEF TypeInv, HistoryOK
  <1>7. CallsOK'
    BY <1>1 DEF TypeInv, CallsOK
  <1>8. redos' \in Seq(RedoType)
    BY <1>1, EmptySeq
  <1> QED BY <1>2, <1>4, <1>5, <1>6, <1>7, <1>8 DEF TypeInv

-------------------------------------------------------------------------------
LEMMA WriteIs ==
    ASSUME DiskOK, ControlOK, NEW f \in Files, NEW c \in States, Write(f, c)
    PROVE  disk' \in [Files -> States] /\ changes' \in 0..MaxChanges
  BY Bounds DEF DiskOK, ControlOK, Write

LEMMA CallsSame ==
    ASSUME CallsOK, UNCHANGED <<call, running>>
    PROVE  CallsOK'
  BY DEF CallsOK

LEMMA HistoryGrown ==
    ASSUME HistoryOK, Grows, req' = req
    PROVE  HistoryOK'
  BY DEF HistoryOK, Grows

LEMMA EndType ==
    ASSUME TypeInv, EndRequest
    PROVE  TypeInv'
  <1>1. /\ UNCHANGED <<disk, head, cps, open, redos, tool, call, req, changes, truth>>
        /\ running' = FALSE /\ tool = None /\ call = [s \in Shells |-> Idle]
    BY DEF EndRequest, store, history
  <1>2. ControlOK' /\ StoreOK' /\ DiskOK' /\ HistoryOK'
    BY <1>1 DEF TypeInv, ControlOK, StoreOK, DiskOK, HistoryOK
  <1>3. CallsOK'
    BY <1>1, IdleIs DEF TypeInv, CallsOK
  <1> QED BY <1>1, <1>2, <1>3 DEF TypeInv

LEMMA UserType ==
    ASSUME TypeInv, NEW f \in Files, NEW c \in States, UserEdits(f, c)
    PROVE  TypeInv' /\ Grows /\ (running => c \in truth'[req].origin[f])
  <1>1. /\ UNCHANGED <<head, cps, open, redos, running, tool, call, req>>
        /\ Write(f, c) /\ ByUser(f, c)
    BY DEF UserEdits, store, Change
  <1>2. Grows /\ (running => c \in truth'[req].origin[f])
    <2>1. running => req \in 1..Len(truth)
      BY OpenIs DEF TypeInv, StoreOK
    <2> QED BY <1>1, <2>1, UserGrows DEF TypeInv, HistoryOK, ControlOK
  <1>3. DiskOK' /\ ControlOK'
    BY <1>1, WriteIs DEF TypeInv, DiskOK, ControlOK
  <1>4. StoreOK'
    BY <1>1 DEF TypeInv, StoreOK
  <1>5. HistoryOK' /\ CallsOK'
    BY <1>1, <1>2, HistoryGrown, CallsSame DEF TypeInv
  <1> QED BY <1>1, <1>2, <1>3, <1>4, <1>5 DEF TypeInv

LEMMA CapturesType ==
    ASSUME TypeInv, NEW f \in Files, ToolCaptures(f)
    PROVE  TypeInv'
  <1>1. /\ UNCHANGED <<disk, head, open, redos, running, call, req, changes, truth>>
        /\ running /\ open /\ tool' = f /\ cps' = WithCurrent(Capture(Current, {f}))
    BY DEF ToolCaptures, history, TypeInv, StoreOK
  <1>2. Capture(Current, {f}) \in Entries
    BY <1>1, OpenIs, CaptureIs DEF TypeInv, DiskOK
  <1>3. StoreOK'
    BY <1>1, <1>2, StoreWith
  <1>4. DiskOK' /\ ControlOK' /\ HistoryOK'
    BY <1>1 DEF TypeInv, DiskOK, ControlOK, HistoryOK
  <1>5. CallsOK'
    BY <1>1, CallsSame DEF TypeInv
  <1> QED BY <1>1, <1>3, <1>4, <1>5 DEF TypeInv

LEMMA ToolOpen ==
    ASSUME TypeInv, tool # None
    PROVE  tool \in Files /\ running /\ open
  BY DEF TypeInv, ControlOK, StoreOK

LEMMA WritesType ==
    ASSUME TypeInv, NEW c \in States, ToolWrites(c)
    PROVE  TypeInv' /\ Grows
  <1>1. /\ UNCHANGED <<head, open, redos, running, call, req>> /\ tool # None /\ tool' = None
        /\ Write(tool, c) /\ ByRequest(tool, c)
        /\ cps' = WithCurrent(Note(Current, {tool}, disk'))
    BY DEF ToolWrites
  <1>2. tool \in Files /\ running /\ open
    BY <1>1, ToolOpen
  <1>3. disk' \in [Files -> States] /\ changes' \in 0..MaxChanges
    BY <1>1, <1>2, WriteIs DEF TypeInv
  <1>4. Grows
    BY <1>1, <1>2, OpenIs, RequestGrows DEF TypeInv, HistoryOK
  <1>5. Note(Current, {tool}, disk') \in Entries
    BY <1>2, <1>3, OpenIs, NoteIs
  <1>6. StoreOK'
    BY <1>1, <1>2, <1>5, StoreWith
  <1>7. DiskOK' /\ ControlOK'
    BY <1>1, <1>3 DEF TypeInv, DiskOK, ControlOK
  <1>8. HistoryOK' /\ CallsOK'
    BY <1>1, <1>4, HistoryGrown, CallsSame DEF TypeInv
  <1> QED BY <1>1, <1>4, <1>6, <1>7, <1>8 DEF TypeInv

LEMMA FailsType ==
    ASSUME TypeInv, ToolFails
    PROVE  TypeInv' /\ Grows
  <1>1. /\ UNCHANGED <<head, cps, open, redos, running, call, req>> /\ tool # None /\ tool' = None
        /\ \/ UNCHANGED <<disk, changes, truth>>
           \/ \E c \in States : /\ Write(tool, c)
                                /\ truth' = [truth EXCEPT ![req] = Silent(Held(@, tool, c), tool)]
    BY DEF ToolFails, store, history, Change
  <1>2. tool \in Files /\ running /\ open
    BY <1>1, ToolOpen
  <1>3. disk' \in [Files -> States] /\ changes' \in 0..MaxChanges
    BY <1>1, <1>2, WriteIs DEF TypeInv, DiskOK, ControlOK
  <1>4. Grows
    <2>1. CASE truth' = truth
      BY <2>1 DEF TypeInv, HistoryOK, Grows
    <2>2. CASE \E c \in States : truth' = [truth EXCEPT ![req] = Silent(Held(@, tool, c), tool)]
      BY <1>2, <2>2, OpenIs, SilentGrows DEF TypeInv, HistoryOK
    <2> QED BY <1>1, <2>1, <2>2
  <1>5. StoreOK'
    BY <1>1 DEF TypeInv, StoreOK
  <1>6. DiskOK' /\ ControlOK'
    BY <1>1, <1>3 DEF TypeInv, DiskOK, ControlOK
  <1>7. HistoryOK' /\ CallsOK'
    BY <1>1, <1>4, HistoryGrown, CallsSame DEF TypeInv
  <1> QED BY <1>1, <1>4, <1>5, <1>6, <1>7 DEF TypeInv

-------------------------------------------------------------------------------
LEMMA ShellCall ==
    ASSUME TypeInv, NEW s \in Shells
    PROVE  /\ CallOK(call[s]) /\ (call[s].step # "idle" => running /\ open)
           /\ call[s].snap \in [Files -> States \cup {None}] \cup {<<>>}
           /\ call[s].head \in [Files -> States] \cup {<<>>}
           /\ call[s].changed \in SUBSET Files
  BY DEF TypeInv, CallsOK, CallOK, CallType, StoreOK

LEMMA SnapshotsType ==
    ASSUME TypeInv, NEW s \in Shells, ShellSnapshots(s)
    PROVE  TypeInv'
  <1> DEFINE snap == IF InGit THEN Snapshot ELSE <<>>
             c == Call("snapped", snap, <<>>, {})
  <1>1. /\ UNCHANGED <<disk, head, cps, open, redos, running, tool, req, changes, truth>>
        /\ running /\ call' = [call EXCEPT ![s] = c]
    BY DEF ShellSnapshots, store, history
  <1>2. snap \in [Files -> States \cup {None}] \cup {<<>>}
        /\ (InGit => snap \in [Files -> States \cup {None}])
    BY SnapshotIs DEF TypeInv
  <1> HIDE DEF snap
  <1>3. CallOK(c)
    BY <1>2, CallIs DEF CallOK
  <1> HIDE DEF c
  <1>4. CallsOK'
    BY <1>1, <1>3, CallsChange DEF TypeInv
  <1>5. DiskOK' /\ ControlOK' /\ StoreOK' /\ HistoryOK'
    BY <1>1 DEF TypeInv, DiskOK, ControlOK, StoreOK, HistoryOK
  <1> QED BY <1>1, <1>4, <1>5 DEF TypeInv

LEMMA BeforeType ==
    ASSUME TypeInv, NEW s \in Shells, ShellBefore(s)
    PROVE  TypeInv'
  <1> DEFINE c == Call("running", call[s].snap, head, {})
  <1>1. /\ UNCHANGED <<disk, head, open, redos, running, tool, req, changes, truth>>
        /\ call[s].step = "snapped" /\ call' = [call EXCEPT ![s] = c]
        /\ cps' = cps \/ cps' = WithCurrent(Capture(Current, Dirty(call[s])))
    BY DEF ShellBefore, history
  <1>2. running /\ open /\ CallOK(call[s])
    BY <1>1, ShellCall
  <1>3. CallOK(c)
    BY <1>1, <1>2, ShellCall, CallIs DEF CallOK, TypeInv, DiskOK
  <1> HIDE DEF c
  <1>4. CallsOK'
    BY <1>1, <1>2, <1>3, CallsChange DEF TypeInv
  <1>5. StoreOK'
    <2>1. CASE cps' = cps
      BY <1>1, <2>1 DEF TypeInv, StoreOK
    <2>2. CASE cps' = WithCurrent(Capture(Current, Dirty(call[s])))
      <3>1. Dirty(call[s]) \in SUBSET Files
        BY ShellCall DEF Dirty
      <3>2. Capture(Current, Dirty(call[s])) \in Entries
        BY <1>2, <3>1, OpenIs, CaptureIs DEF TypeInv, DiskOK
      <3> QED BY <1>1, <1>2, <2>2, <3>2, StoreWith
    <2> QED BY <1>1, <2>1, <2>2
  <1>6. DiskOK' /\ ControlOK' /\ HistoryOK'
    BY <1>1 DEF TypeInv, DiskOK, ControlOK, HistoryOK
  <1> QED BY <1>1, <1>4, <1>5, <1>6 DEF TypeInv

LEMMA ChangesType ==
    ASSUME TypeInv, NEW s \in Shells, NEW f \in Files, NEW c \in States, ShellChanges(s, f, c)
    PROVE  TypeInv' /\ Grows
  <1>1. /\ UNCHANGED <<head, cps, open, redos, running, tool, call, req>>
        /\ call[s].step = "running" /\ Write(f, c) /\ ByRequest(f, c)
    BY DEF ShellChanges, store, Change
  <1>2. running /\ open
    BY <1>1, ShellCall
  <1>3. DiskOK' /\ ControlOK'
    BY <1>1, WriteIs DEF TypeInv, DiskOK, ControlOK
  <1>4. Grows
    BY <1>1, <1>2, OpenIs, RequestGrows DEF TypeInv, HistoryOK
  <1>5. StoreOK'
    BY <1>1 DEF TypeInv, StoreOK
  <1>6. HistoryOK' /\ CallsOK'
    BY <1>1, <1>4, HistoryGrown, CallsSame DEF TypeInv
  <1> QED BY <1>1, <1>3, <1>4, <1>5, <1>6 DEF TypeInv

LEMMA CommitsType ==
    ASSUME TypeInv, NEW s \in Shells, ShellCommits(s)
    PROVE  TypeInv'
  <1>1. /\ UNCHANGED <<disk, cps, open, redos, running, tool, call, req, changes, truth>>
        /\ head' = disk
    BY DEF ShellCommits, store, history
  <1>2. DiskOK' /\ ControlOK' /\ StoreOK' /\ HistoryOK'
    BY <1>1 DEF TypeInv, DiskOK, ControlOK, StoreOK, HistoryOK
  <1>3. CallsOK'
    BY <1>1, CallsSame DEF TypeInv
  <1> QED BY <1>1, <1>2, <1>3 DEF TypeInv

LEMMA EndsType ==
    ASSUME TypeInv, NEW s \in Shells, ShellEnds(s)
    PROVE  TypeInv'
  <1>1. PICK changed \in SUBSET Files :
            call' = [call EXCEPT ![s] = Call("ended", call[s].snap, call[s].head, changed)]
    BY DEF ShellEnds
  <1> DEFINE c == Call("ended", call[s].snap, call[s].head, changed)
  <1>2. /\ UNCHANGED <<disk, head, cps, open, redos, running, tool, req, changes, truth>>
        /\ call[s].step = "running"
    BY DEF ShellEnds, store, history
  <1>3. CallOK(c)
    BY <1>2, ShellCall, CallIs DEF CallOK
  <1>4. running
    BY <1>2, ShellCall
  <1> HIDE DEF c
  <1>5. CallsOK'
    BY <1>1, <1>2, <1>3, <1>4, CallsChange DEF TypeInv, c
  <1>6. DiskOK' /\ ControlOK' /\ StoreOK' /\ HistoryOK'
    BY <1>2 DEF TypeInv, DiskOK, ControlOK, StoreOK, HistoryOK
  <1> QED BY <1>2, <1>5, <1>6 DEF TypeInv

LEMMA AfterType ==
    ASSUME TypeInv, NEW s \in Shells, ShellAfter(s)
    PROVE  TypeInv'
  <1> DEFINE c == call[s]
             paths == c.changed \cup Moved(c)
             recorded == Note(Infer(Current, c, paths), paths, disk)
  <1>1. /\ UNCHANGED <<disk, head, open, redos, running, tool, req, changes, truth>>
        /\ c.step = "ended" /\ call' = [call EXCEPT ![s] = Idle]
        /\ \/ cps' = WithCurrent(SetUnknown(Current, c.changed))
           \/ cps' = cps
           \/ cps' = Trim(WithCurrent(recorded))
    BY DEF ShellAfter, history
  <1>2. running /\ open /\ CallOK(c)
    BY <1>1, ShellCall
  <1>3. CallsOK'
    BY <1>1, IdleIs, CallsChange DEF TypeInv, CallOK
  <1>4. c.head \in [Files -> States] /\ c.changed \in SUBSET Files /\ paths \in SUBSET Files
    BY <1>1, <1>2, ShellCall DEF CallOK, Moved
  <1>5. SetUnknown(Current, c.changed) \in Entries
    BY <1>2, <1>4, OpenIs, SetUnknownIs
  <1>6. recorded \in Entries
    <2>1. Infer(Current, c, paths) \in Entries
      BY <1>2, <1>4, OpenIs, InferIs
    <2>2. disk \in [Files -> States]
      BY DEF TypeInv, DiskOK
    <2> QED BY <2>1, <2>2, NoteIs
  <1>7. StoreOK'
    <2> HIDE DEF recorded
    <2>1. CASE cps' = cps
      BY <1>1, <2>1 DEF TypeInv, StoreOK
    <2>2. CASE cps' = WithCurrent(SetUnknown(Current, c.changed))
      BY <1>1, <1>2, <1>5, <2>2, StoreWith
    <2>3. CASE cps' = Trim(WithCurrent(recorded))
      BY <1>1, <1>2, <1>6, <2>3, StoreWith
    <2> QED BY <1>1, <2>1, <2>2, <2>3
  <1>8. DiskOK' /\ ControlOK' /\ HistoryOK'
    BY <1>1 DEF TypeInv, DiskOK, ControlOK, HistoryOK
  <1> QED BY <1>1, <1>3, <1>7, <1>8 DEF TypeInv

-------------------------------------------------------------------------------
(* Undo and redo mark checkpoints, and change nothing else of them. *)
OnlyMarks ==
    /\ cps' \in Seq(CheckpointType) /\ DOMAIN cps' = DOMAIN cps /\ Len(cps') = Len(cps)
    /\ \A i \in DOMAIN cps : cps'[i].id = cps[i].id /\ cps'[i].entries = cps[i].entries

LEMMA MarksKeepStore ==
    ASSUME StoreOK, OnlyMarks, req' = req, running' = running, running' => open',
           open' => open, cps' = <<>> => cps = <<>>
    PROVE  StoreOK'
  <1>1. /\ \A i \in DOMAIN cps : cps[i].id \in 1..req /\ cps'[i].id = cps[i].id
        /\ DOMAIN cps' = DOMAIN cps /\ cps' \in Seq(CheckpointType)
    BY DEF StoreOK, OnlyMarks
  <1>2. open => cps # <<>> /\ cps[Len(cps)].id = req /\ Len(cps) \in DOMAIN cps
    BY LenProperties, EmptySeq DEF StoreOK
  <1>3. open' => cps' # <<>> /\ cps'[Len(cps')].id = req'
    BY <1>1, <1>2 DEF OnlyMarks
  <1>4. \A i \in DOMAIN cps' : cps'[i].id \in 1..req'
    BY <1>1
  <1> QED BY <1>1, <1>3, <1>4 DEF StoreOK

LEMMA MarksNotEmpty ==
    ASSUME cps \in Seq(CheckpointType), OnlyMarks
    PROVE  cps' = <<>> => cps = <<>>
  BY EmptySeq DEF OnlyMarks

(* What an undo writes comes from the entries of its target. *)
LEMMA UndoIs ==
    ASSUME TypeInv, NEW force \in BOOLEAN, NEW failed, Undo(force, failed)
    PROVE  /\ ~running /\ Target \in DOMAIN cps /\ OnlyMarks
           /\ UNCHANGED <<head, running, tool, call, req, changes, truth>>
           /\ disk' \in [Files -> States] /\ redos' \in Seq(RedoType)
           /\ open' \in BOOLEAN /\ (open' => open)
           /\ \A f \in Files : disk'[f] # disk[f] =>
                  /\ f \in DOMAIN cps[Target].entries
                  /\ disk'[f] = cps[Target].entries[f].before /\ disk'[f] # Unknown
  <1> DEFINE entries == cps[Target].entries
             conflicts == Conflicting(entries, force)
             writable == Differing(entries) \ (Unreadable(entries) \cup conflicts)
             restored == writable \ failed
             record == [id |-> cps[Target].id, files |-> [f \in restored |->
                            [state |-> disk[f], expect |-> entries[f].before]]]
  <1>1. /\ ~running /\ Undoable # {}
        /\ UNCHANGED <<head, running, tool, call, req, changes, truth>>
        /\ disk' = [f \in Files |-> IF f \in restored THEN entries[f].before ELSE disk[f]]
        /\ cps' = [cps EXCEPT ![Target].undone = (conflicts = {})]
        /\ redos' = IF restored = {} THEN redos ELSE Append(redos, record)
        /\ open' = (open /\ ~(Target = Len(cps) /\ conflicts = {}))
    BY Zenon DEF Undo
  <1>2. cps \in Seq(CheckpointType) /\ disk \in [Files -> States] /\ redos \in Seq(RedoType)
    BY DEF TypeInv, StoreOK, DiskOK
  <1>3. Target \in DOMAIN cps /\ DOMAIN cps = 1..Len(cps)
    BY <1>1, <1>2, TargetIs, LenProperties
  <1>4. cps[Target] \in CheckpointType /\ cps[Target].id \in Nat /\ entries \in Entries
    <2>1. cps[Target] \in CheckpointType
      BY <1>2, <1>3, ElementOfSeq
    <2> QED BY <2>1 DEF CheckpointType
  <1>5. restored \subseteq DOMAIN entries /\ restored \subseteq Files
    BY <1>4, EntriesAre DEF Differing
  <1>6. \A f \in restored : entries[f].before \in States
    <2>1. \A f \in restored : entries[f].before # Unknown
      BY DEF Differing
    <2> QED BY <1>4, <1>5, <2>1, EntriesAre DEF EntryType
  <1> HIDE DEF restored, entries
  <1>7. disk' \in [Files -> States]
    BY <1>1, <1>2, <1>5, <1>6
  <1>8. redos' \in Seq(RedoType)
    <2>1. \A f \in restored : [state |-> disk[f], expect |-> entries[f].before]
                                  \in [state : States, expect : States]
      BY <1>2, <1>5, <1>6
    <2>2. record.files \in [restored -> [state : States, expect : States]] /\ restored \in SUBSET Files
      BY <1>5, <2>1
    <2>3. record.files \in RedoFiles
      BY <2>2, Zenon DEF RedoFiles
    <2>4. record \in RedoType
      BY <1>4, <2>3 DEF RedoType
    <2> HIDE DEF record
    <2> QED BY <1>1, <1>2, <2>4, AppendProperties
  <1>9. OnlyMarks
    <2> DEFINE marked == [cps[Target] EXCEPT !.undone = (conflicts = {})]
    <2>1. (conflicts = {}) \in BOOLEAN
      OBVIOUS
    <2>2. marked \in CheckpointType /\ marked.id = cps[Target].id /\ marked.entries = cps[Target].entries
      BY <1>4, <2>1, Marked
    <2>3. cps' = [cps EXCEPT ![Target] = marked]
      BY <1>1
    <2> HIDE DEF marked
    <2>4. /\ cps' \in Seq(CheckpointType) /\ Len(cps') = Len(cps)
          /\ \A j \in 1..Len(cps) : cps'[j] = IF j = Target THEN marked ELSE cps[j]
      BY <1>2, <1>3, <2>2, <2>3, ExceptSeq
    <2>5. DOMAIN cps' = 1..Len(cps)
      BY <2>4, LenProperties
    <2> QED BY <1>3, <2>2, <2>4, <2>5 DEF OnlyMarks
  <1>10. open' \in BOOLEAN /\ (open' => open)
    BY <1>1, Zenon DEF TypeInv, ControlOK
  <1>11. \A f \in Files : disk'[f] # disk[f] =>
            f \in DOMAIN entries /\ disk'[f] = entries[f].before /\ disk'[f] # Unknown
    BY <1>1, <1>5, <1>6, CheckpointAssumption
  <1> QED BY <1>1, <1>3, <1>7, <1>8, <1>9, <1>10, <1>11 DEF entries

LEMMA RedoIs ==
    ASSUME TypeInv, Redo
    PROVE  /\ ~running /\ OnlyMarks
           /\ UNCHANGED <<head, open, running, tool, call, req, changes, truth>>
           /\ disk' \in [Files -> States] /\ redos' \in Seq(RedoType)
  <1> DEFINE record == redos[Len(redos)]
             ours == {f \in DOMAIN record.files : Read(disk[f]) = record.files[f].expect}
             marked(i) == [cps[i] EXCEPT !.undone = @ /\ cps[i].id # record.id]
  <1>1. /\ ~running /\ redos # <<>>
        /\ UNCHANGED <<head, open, running, tool, call, req, changes, truth>>
        /\ cps' = [i \in DOMAIN cps |-> marked(i)]
        /\ redos' = SubSeq(redos, 1, Len(redos) - 1)
        /\ \E failed \in SUBSET ours :
              disk' = [f \in Files |-> IF f \in ours \ failed THEN record.files[f].state ELSE disk[f]]
    BY Zenon DEF Redo
  <1>2. cps \in Seq(CheckpointType) /\ disk \in [Files -> States] /\ redos \in Seq(RedoType)
    BY DEF TypeInv, StoreOK, DiskOK
  <1>3. Len(redos) \in Nat \ {0} /\ record \in RedoType
    <2>1. Len(redos) \in 1..Len(redos) /\ Len(redos) \in Nat \ {0}
      BY <1>1, <1>2, LenProperties, EmptySeq
    <2> QED BY <1>2, <2>1, ElementOfSeq
  <1>4. redos' \in Seq(RedoType)
    <2>1. \A i \in 1..(Len(redos) - 1) : redos[i] \in RedoType
      BY <1>2, <1>3, ElementOfSeq
    <2> QED BY <1>1, <1>3, <2>1, SubSeqProperties
  <1>5. \A f \in DOMAIN record.files : record.files[f].state \in States
    BY <1>3 DEF RedoType, RedoFiles
  <1>6. disk' \in [Files -> States]
    <2> HIDE DEF record
    <2> QED BY <1>1, <1>2, <1>5
  <1>7. OnlyMarks
    <2>1. /\ DOMAIN cps = 1..Len(cps) /\ Len(cps) \in Nat
          /\ \A i \in DOMAIN cps : cps[i] \in CheckpointType
      BY <1>2, LenProperties, ElementOfSeq
    <2>2. \A i \in DOMAIN cps : /\ marked(i) \in CheckpointType /\ marked(i).id = cps[i].id
                                /\ marked(i).entries = cps[i].entries
      <3>1. ASSUME NEW i \in DOMAIN cps
            PROVE  (cps[i].undone /\ cps[i].id # record.id) \in BOOLEAN
        BY Zenon
      <3> QED BY <2>1, <3>1, Marked
    <2> HIDE DEF marked
    <2>3. cps' \in [1..Len(cps) -> CheckpointType]
      BY <1>1, <2>1, <2>2
    <2>4. cps' \in Seq(CheckpointType) /\ Len(cps') = Len(cps) /\ DOMAIN cps' = DOMAIN cps
      <3>1. cps' \in Seq(CheckpointType)
        BY <2>1, <2>3
      <3>2. DOMAIN cps' = 1..Len(cps)
        BY <2>3
      <3>3. DOMAIN cps' = 1..Len(cps') /\ Len(cps') \in Nat
        BY <3>1, LenProperties
      <3> QED BY <2>1, <3>1, <3>2, <3>3
    <2> QED BY <1>1, <2>2, <2>4 DEF OnlyMarks
  <1> QED BY <1>1, <1>4, <1>6, <1>7

LEMMA UndoType ==
    ASSUME TypeInv, NEW force \in BOOLEAN, NEW failed, Undo(force, failed)
    PROVE  TypeInv'
  <1>1. /\ ~running /\ OnlyMarks /\ UNCHANGED <<head, running, tool, call, req, changes, truth>>
        /\ disk' \in [Files -> States] /\ redos' \in Seq(RedoType)
        /\ open' \in BOOLEAN /\ (open' => open)
    BY UndoIs
  <1>2. cps' = <<>> => cps = <<>>
    BY <1>1, MarksNotEmpty DEF TypeInv, StoreOK
  <1>3. StoreOK'
    BY <1>1, <1>2, MarksKeepStore DEF TypeInv
  <1>4. DiskOK' /\ ControlOK' /\ HistoryOK'
    BY <1>1 DEF TypeInv, DiskOK, ControlOK, HistoryOK
  <1>5. CallsOK'
    BY <1>1, CallsSame DEF TypeInv
  <1> QED BY <1>1, <1>3, <1>4, <1>5 DEF TypeInv

LEMMA RedoKeepsType ==
    ASSUME TypeInv, Redo
    PROVE  TypeInv'
  <1>1. /\ ~running /\ OnlyMarks
        /\ UNCHANGED <<head, open, running, tool, call, req, changes, truth>>
        /\ disk' \in [Files -> States] /\ redos' \in Seq(RedoType)
    BY RedoIs
  <1>2. cps' = <<>> => cps = <<>>
    BY <1>1, MarksNotEmpty DEF TypeInv, StoreOK
  <1>3. StoreOK'
    BY <1>1, <1>2, MarksKeepStore DEF TypeInv
  <1>4. DiskOK' /\ ControlOK' /\ HistoryOK'
    BY <1>1 DEF TypeInv, DiskOK, ControlOK, HistoryOK
  <1>5. CallsOK'
    BY <1>1, CallsSame DEF TypeInv
  <1> QED BY <1>1, <1>3, <1>4, <1>5 DEF TypeInv

LEMMA TypeNext == TypeInv /\ [Next]_vars => TypeInv'
  <1> SUFFICES ASSUME TypeInv, [Next]_vars PROVE TypeInv'
    OBVIOUS
  <1>1. CASE Begin
    BY <1>1, BeginType
  <1>2. CASE EndRequest
    BY <1>2, EndType
  <1>3. CASE ToolFails
    BY <1>3, FailsType
  <1>4. CASE Redo
    BY <1>4, RedoKeepsType
  <1>5. CASE \E s \in Shells : Shell(s)
    BY <1>5, SnapshotsType, BeforeType, CommitsType, EndsType, AfterType DEF Shell
  <1>6. CASE \E force \in BOOLEAN, failed \in SUBSET Files : Undo(force, failed)
    BY <1>6, UndoType
  <1>7. CASE \E c \in States : ToolWrites(c)
    BY <1>7, WritesType
  <1>8. CASE \E f \in Files : ToolCaptures(f)
    BY <1>8, CapturesType
  <1>9. CASE \E f \in Files : \E c \in States : UserEdits(f, c)
    BY <1>9, UserType
  <1>10. CASE \E f \in Files : \E c \in States : \E s \in Shells : ShellChanges(s, f, c)
    BY <1>10, ChangesType
  <1>11. CASE UNCHANGED vars
    <2>1. UNCHANGED <<disk, head, cps, open, redos, running, tool, call, req, changes, truth>>
      BY <1>11 DEF vars, store, history
    <2>2. CallsOK'
      BY <2>1, CallsSame DEF TypeInv
    <2> QED BY <2>1, <2>2 DEF TypeInv, DiskOK, ControlOK, StoreOK, HistoryOK
  <1> QED BY <1>1, <1>2, <1>3, <1>4, <1>5, <1>6, <1>7, <1>8, <1>9, <1>10, <1>11 DEF Next

LEMMA TypeInvariant == Spec => []TypeInv
  <1> QED BY TypeInit, TypeNext, PTL DEF Spec

(* Every variable stays in its type, and while a request runs the newest    *)
(* checkpoint is its own (begin, _closeCurrent, _trim, undo), for all       *)
(* files, contents, caps and shells.                                        *)
THEOREM StoreTypeCorrect == Spec => []TypeOK
  <1>1. TypeInv => TypeOK
    <2> SUFFICES ASSUME TypeInv PROVE TypeOK
      OBVIOUS
    <2>1. \A i \in DOMAIN cps : /\ cps[i].id \in 1..req /\ cps[i].undone \in BOOLEAN
                                /\ cps[i].entries \in Entries
      <3>1. cps \in Seq(CheckpointType) /\ \A i \in DOMAIN cps : cps[i].id \in 1..req
        BY DEF TypeInv, StoreOK
      <3>2. \A i \in DOMAIN cps : cps[i] \in CheckpointType
        BY <3>1, LenProperties, ElementOfSeq
      <3> QED BY <3>1, <3>2 DEF CheckpointType
    <2> QED BY <2>1 DEF TypeOK, TypeInv, DiskOK, ControlOK, StoreOK
  <1> QED BY <1>1, TypeInvariant, PTL

-------------------------------------------------------------------------------
LEMMA Unchanging ==
    ASSUME HistoryOK, truth' = truth
    PROVE  Grows
  BY DEF HistoryOK, Grows

(* Entries that come from old entries are old. *)
LEMMA EntriesKept ==
    ASSUME TypeInv, EntriesOld, Grows,
           \A i \in DOMAIN cps' : \E j \in DOMAIN cps :
              /\ cps'[i].id = cps[j].id
              /\ DOMAIN cps'[i].entries \subseteq DOMAIN cps[j].entries
              /\ \A f \in DOMAIN cps'[i].entries :
                    cps'[i].entries[f].before = cps[j].entries[f].before
    PROVE  EntriesOld'
  <1>1. /\ \A j \in DOMAIN cps : cps[j].id \in DOMAIN truth
        /\ \A j \in DOMAIN cps : DOMAIN cps[j].entries \subseteq Files
    <2>1. /\ cps \in Seq(CheckpointType) /\ \A j \in DOMAIN cps : cps[j].id \in 1..req
          /\ truth \in Seq(TruthType) /\ Len(truth) = req
      BY DEF TypeInv, StoreOK, HistoryOK
    <2>2. \A j \in DOMAIN cps : cps[j] \in CheckpointType
      BY <2>1, LenProperties, ElementOfSeq
    <2>3. \A j \in DOMAIN cps : cps[j].entries \in Entries
      BY <2>2 DEF CheckpointType
    <2> QED BY <2>1, <2>3, LenProperties, EntriesAre
  <1> SUFFICES ASSUME NEW i \in DOMAIN cps', NEW f \in DOMAIN cps'[i].entries
               PROVE  cps'[i].entries[f].before \in truth'[cps'[i].id].origin[f] \cup {Unknown}
    BY DEF EntriesOld
  <1>2. PICK j \in DOMAIN cps :
              /\ cps'[i].id = cps[j].id
              /\ DOMAIN cps'[i].entries \subseteq DOMAIN cps[j].entries
              /\ cps'[i].entries[f].before = cps[j].entries[f].before
    OBVIOUS
  <1>3. cps[j].entries[f].before \in truth[cps[j].id].origin[f] \cup {Unknown}
    BY <1>2 DEF EntriesOld
  <1>4. truth[cps[j].id].origin[f] \subseteq truth'[cps[j].id].origin[f]
    BY <1>1, <1>2 DEF Grows
  <1> QED BY <1>2, <1>3, <1>4

LEMMA CurrentOld ==
    ASSUME TypeInv, EntriesOld, Grows, open
    PROVE  \A f \in DOMAIN Current : Current[f].before \in truth'[req].origin[f] \cup {Unknown}
  <1>1. Len(cps) \in DOMAIN cps /\ cps[Len(cps)].id = req /\ req \in 1..Len(truth)
        /\ DOMAIN Current \subseteq Files
    BY OpenIs
  <1>2. \A f \in DOMAIN Current : Current[f].before \in truth[req].origin[f] \cup {Unknown}
    BY <1>1 DEF EntriesOld, Current
  <1>3. \A f \in Files : truth[req].origin[f] \subseteq truth'[req].origin[f]
    BY <1>1, LenProperties DEF Grows, TypeInv, HistoryOK
  <1> QED BY <1>1, <1>2, <1>3

(* The current checkpoint gets entries that are old. *)
LEMMA EntriesWith ==
    ASSUME TypeInv, EntriesOld, Grows, open, NEW e \in Entries,
           cps' \in {WithCurrent(e), Trim(WithCurrent(e))},
           \A f \in DOMAIN e : e[f].before \in truth'[req].origin[f] \cup {Unknown}
    PROVE  EntriesOld' /\ Current' = e
  <1> DEFINE s == WithCurrent(e)
  <1>1. /\ s \in Seq(CheckpointType) /\ s # <<>> /\ DOMAIN s = DOMAIN cps /\ Len(s) = Len(cps)
        /\ s[Len(cps)].entries = e /\ s[Len(cps)].id = req
        /\ \A i \in DOMAIN cps : i # Len(cps) => s[i] = cps[i]
    BY OpenIs, WithCurrentIs
  <1> HIDE DEF s
  <1>2. \A i \in DOMAIN s : \A f \in DOMAIN s[i].entries :
            s[i].entries[f].before \in truth'[s[i].id].origin[f] \cup {Unknown}
    <2>1. ASSUME NEW i \in DOMAIN s, NEW f \in DOMAIN s[i].entries, i = Len(cps)
          PROVE  s[i].entries[f].before \in truth'[s[i].id].origin[f] \cup {Unknown}
      BY <1>1, <2>1
    <2>2. ASSUME NEW i \in DOMAIN s, NEW f \in DOMAIN s[i].entries, i # Len(cps)
          PROVE  s[i].entries[f].before \in truth'[s[i].id].origin[f] \cup {Unknown}
      <3>1. s[i] = cps[i] /\ i \in DOMAIN cps
        BY <1>1, <2>2
      <3>2. cps[i].entries[f].before \in truth[cps[i].id].origin[f] \cup {Unknown}
        BY <3>1 DEF EntriesOld
      <3>3. cps[i].id \in DOMAIN truth /\ f \in Files
        <4>1. /\ cps \in Seq(CheckpointType) /\ cps[i].id \in 1..req
              /\ truth \in Seq(TruthType) /\ Len(truth) = req
          BY <3>1 DEF TypeInv, StoreOK, HistoryOK
        <4>2. cps[i] \in CheckpointType
          BY <3>1, <4>1, LenProperties, ElementOfSeq
        <4>3. cps[i].entries \in Entries
          BY <4>2 DEF CheckpointType
        <4> QED BY <3>1, <4>1, <4>3, LenProperties, EntriesAre
      <3> QED BY <3>1, <3>2, <3>3 DEF Grows
    <2> QED BY <2>1, <2>2
  <1>3. /\ Trim(s) \in Seq(CheckpointType) /\ Trim(s) # <<>>
        /\ Trim(s)[Len(Trim(s))] = s[Len(s)]
        /\ \A i \in DOMAIN Trim(s) : \E j \in DOMAIN s : Trim(s)[i] = s[j]
    BY <1>1, TrimIs
  <1>4. CASE cps' = s
    BY <1>1, <1>2, <1>4 DEF EntriesOld, Current
  <1>5. CASE cps' = Trim(s)
    <2>1. Current' = e
      BY <1>1, <1>3, <1>5 DEF Current
    <2>2. EntriesOld'
      BY <1>2, <1>3, <1>5 DEF EntriesOld
    <2> QED BY <2>1, <2>2
  <1> QED BY <1>4, <1>5 DEF s

(* Nothing happens to the files the current checkpoint does not have but    *)
(* what the request is not the author of.                                   *)
LEMMA UnseenKept ==
    ASSUME TypeInv, UnseenOld, Grows, UNCHANGED <<running, req, call, head>>, open,
           DOMAIN Current \subseteq DOMAIN Current',
           \A f \in Files \ DOMAIN Current' :
              disk'[f] = disk[f] \/ disk'[f] \in truth'[req].origin[f]
    PROVE  UnseenOld'
  <1>1. \A f \in Files : Origin(f) \subseteq Origin(f)'
    BY OpenIs, LenProperties DEF Grows, Origin, TypeInv, HistoryOK
  <1> SUFFICES ASSUME running, NEW f \in Files \ DOMAIN Current'
               PROVE  /\ Shells = {} => disk'[f] \in Origin(f)'
                      /\ \A s \in Shells : Pending(f, call[s])'
    BY DEF UnseenOld
  <1>2. /\ Shells = {} => disk[f] \in Origin(f)
        /\ \A s \in Shells : Pending(f, call[s])
    BY DEF UnseenOld
  <1>3. disk'[f] = disk[f] \/ disk'[f] \in Origin(f)'
    BY DEF Origin
  <1>4. Shells = {} => disk'[f] \in Origin(f)'
    BY <1>1, <1>2, <1>3
  <1>5. ASSUME NEW s \in Shells PROVE Pending(f, call[s])'
    <2>1. Pending(f, call[s])
      BY <1>2
    <2>2. Moved(call[s])' = Moved(call[s])
      BY DEF Moved
    <2> QED BY <1>1, <1>3, <2>1, <2>2 DEF Pending
  <1> QED BY <1>4, <1>5

-------------------------------------------------------------------------------
LEMMA OldInit == Init => OldInv
  <1> SUFFICES ASSUME Init PROVE OldInv
    OBVIOUS
  <1>1. cps = <<>> /\ running = FALSE /\ tool = None
    BY Zenon DEF Init
  <1>2. DOMAIN cps = {}
    BY <1>1
  <1> QED BY <1>1, <1>2, TypeInit DEF OldInv, EntriesOld, UnseenOld, ToolKnown

(* Begin: nothing is captured, and every file is as it was before.          *)
LEMMA BeginOld ==
    ASSUME OldInv, Begin
    PROVE  OldInv'
  <1> DEFINE new == [id |-> req', entries |-> <<>>, undone |-> FALSE]
             s == Append(CloseCurrent, new)
  <1>1. /\ disk' = disk /\ tool' = tool /\ call' = call /\ ~running /\ req' = req + 1
        /\ truth' = Append(truth, NewTruth) /\ cps' = Trim(s)
    BY DEF Begin
  <1>2. TypeInv'
    BY BeginType DEF OldInv
  <1>3. /\ truth \in Seq(TruthType) /\ Len(truth) = req /\ req \in Nat
        /\ cps \in Seq(CheckpointType) /\ open \in BOOLEAN /\ (open => cps # <<>>)
        /\ disk \in [Files -> States] /\ \A i \in DOMAIN cps : cps[i].id \in 1..req
    BY DEF OldInv, TypeInv, HistoryOK, StoreOK, ControlOK, DiskOK
  <1>4. /\ CloseCurrent \in Seq(CheckpointType)
        /\ \A i \in DOMAIN CloseCurrent : \E j \in DOMAIN cps :
              /\ CloseCurrent[i].id = cps[j].id
              /\ DOMAIN CloseCurrent[i].entries \subseteq DOMAIN cps[j].entries
              /\ \A f \in DOMAIN CloseCurrent[i].entries :
                    CloseCurrent[i].entries[f] = cps[j].entries[f]
    BY <1>3, CloseIs
  <1>5. NewTruth \in TruthType /\ \A f \in Files : NewTruth.origin[f] = {disk[f]}
    BY <1>3 DEF NewTruth, TruthType
  <1>6. truth'[req'] = NewTruth /\ \A r \in 1..req : truth'[r] = truth[r]
    BY <1>1, <1>3, <1>5, AppendProperties
  <1>7. new \in CheckpointType /\ DOMAIN new.entries = {}
    BY <1>1, <1>3, NoEntries DEF CheckpointType
  <1> HIDE DEF new
  <1>8. /\ s \in Seq(CheckpointType) /\ s # <<>> /\ Len(s) = Len(CloseCurrent) + 1
        /\ \A i \in 1..Len(CloseCurrent) : s[i] = CloseCurrent[i]
        /\ s[Len(CloseCurrent) + 1] = new
    BY <1>4, <1>7, AppendProperties
  <1>9. /\ DOMAIN s = 1..Len(s) /\ DOMAIN CloseCurrent = 1..Len(CloseCurrent)
        /\ Len(CloseCurrent) \in Nat
    BY <1>4, <1>8, LenProperties
  <1> HIDE DEF s
  <1>10. /\ Trim(s)[Len(Trim(s))] = s[Len(s)]
         /\ \A i \in DOMAIN Trim(s) : \E j \in DOMAIN s : Trim(s)[i] = s[j]
    BY <1>8, TrimIs
  <1>11. DOMAIN Current' = {}
    BY <1>1, <1>7, <1>8, <1>10 DEF Current
  <1>12. \A i \in DOMAIN s : \A f \in DOMAIN s[i].entries :
            s[i].entries[f].before \in truth'[s[i].id].origin[f] \cup {Unknown}
    <2> SUFFICES ASSUME NEW i \in DOMAIN s, NEW f \in DOMAIN s[i].entries
                 PROVE  s[i].entries[f].before \in truth'[s[i].id].origin[f] \cup {Unknown}
      OBVIOUS
    <2>1. i \in DOMAIN CloseCurrent \/ i = Len(CloseCurrent) + 1
      BY <1>8, <1>9
    <2>2. i \in DOMAIN CloseCurrent /\ s[i] = CloseCurrent[i]
      BY <1>7, <1>8, <1>9, <2>1
    <2>3. PICK j \in DOMAIN cps : /\ s[i].id = cps[j].id /\ f \in DOMAIN cps[j].entries
                                  /\ s[i].entries[f] = cps[j].entries[f]
      BY <1>4, <2>2
    <2>4. cps[j].entries[f].before \in truth[cps[j].id].origin[f] \cup {Unknown}
      BY <2>3 DEF OldInv, EntriesOld
    <2> QED BY <1>3, <1>6, <2>3, <2>4
  <1>13. EntriesOld'
    <2> SUFFICES ASSUME NEW i \in DOMAIN cps', NEW f \in DOMAIN cps'[i].entries
                 PROVE  cps'[i].entries[f].before \in truth'[cps'[i].id].origin[f] \cup {Unknown}
      BY DEF EntriesOld
    <2>1. PICK j \in DOMAIN s : cps'[i] = s[j]
      BY <1>1, <1>10
    <2> QED BY <1>12, <2>1
  <1>14. \A t \in Shells : call[t].step = "idle"
    BY <1>1 DEF OldInv, TypeInv, CallsOK
  <1>15. UnseenOld'
    <2>1. \A f \in Files : Origin(f)' = {disk[f]}
      BY <1>5, <1>6 DEF Origin
    <2> QED BY <1>1, <1>14, <2>1 DEF UnseenOld, Pending
  <1>16. ToolKnown'
    BY <1>1 DEF ToolKnown, OldInv, TypeInv, ControlOK
  <1> QED BY <1>2, <1>13, <1>15, <1>16 DEF OldInv

LEMMA EndOld ==
    ASSUME OldInv, EndRequest
    PROVE  OldInv'
  <1>1. UNCHANGED <<cps, tool, call, truth>> /\ running' = FALSE /\ tool = None
    BY DEF EndRequest, store, history
  <1>2. TypeInv'
    BY EndType DEF OldInv
  <1> QED BY <1>1, <1>2 DEF OldInv, EntriesOld, UnseenOld, ToolKnown

(* Nobody's turn: undo and redo only mark checkpoints.                      *)
LEMMA MarksOld ==
    ASSUME OldInv, TypeInv', OnlyMarks, ~running, UNCHANGED <<running, tool, truth>>
    PROVE  OldInv'
  <1>1. EntriesOld'
    BY DEF OldInv, EntriesOld, OnlyMarks
  <1>2. tool = None
    BY DEF OldInv, TypeInv, ControlOK
  <1> QED BY <1>1, <1>2 DEF OldInv, UnseenOld, ToolKnown

LEMMA UserOld ==
    ASSUME OldInv, NEW f \in Files, NEW c \in States, UserEdits(f, c)
    PROVE  OldInv'
  <1>1. /\ UNCHANGED <<head, cps, open, running, tool, call, req>>
        /\ disk' = [disk EXCEPT ![f] = c]
    BY DEF UserEdits, store, Change, Write
  <1>2. TypeInv' /\ Grows /\ (running => c \in truth'[req].origin[f])
    BY UserType DEF OldInv
  <1>3. EntriesOld'
    BY <1>1, <1>2, EntriesKept DEF OldInv
  <1>4. UnseenOld'
    <2>1. CASE ~running
      BY <1>1, <2>1 DEF UnseenOld
    <2>2. CASE running
      <3>1. Current' = Current /\ open
        BY <1>1, <2>2 DEF Current, OldInv, TypeInv, StoreOK
      <3>2. \A g \in Files : disk'[g] = disk[g] \/ disk'[g] \in truth'[req].origin[g]
        BY <1>1, <1>2, <2>2 DEF OldInv, TypeInv, DiskOK
      <3> QED BY <1>1, <1>2, <3>1, <3>2, UnseenKept DEF OldInv
    <2> QED BY <2>1, <2>2
  <1>5. ToolKnown'
    BY <1>1 DEF OldInv, ToolKnown, Current
  <1> QED BY <1>2, <1>3, <1>4, <1>5 DEF OldInv

LEMMA CapturesOld ==
    ASSUME OldInv, NEW f \in Files, ToolCaptures(f)
    PROVE  OldInv'
  <1> DEFINE e == Capture(Current, {f})
  <1>1. /\ UNCHANGED <<disk, head, open, running, call, req, truth>> /\ running
        /\ call = [s \in Shells |-> Idle] /\ tool' = f /\ cps' = WithCurrent(e)
    BY DEF ToolCaptures, history
  <1>2. TypeInv' /\ open
    BY <1>1, CapturesType DEF OldInv, TypeInv, StoreOK
  <1>3. /\ e \in Entries /\ DOMAIN e = DOMAIN Current \cup {f}
        /\ \A g \in DOMAIN Current : e[g] = Current[g]
        /\ f \notin DOMAIN Current => e[f].before = Read(disk[f])
    <2>1. Current \in Entries /\ {f} \in SUBSET Files
      BY <1>2, OpenIs DEF OldInv
    <2>2. disk \in [Files -> States]
      BY DEF OldInv, TypeInv, DiskOK
    <2> QED BY <2>1, <2>2, CaptureIs
  <1>4. Grows
    BY <1>1, Unchanging DEF OldInv, TypeInv
  <1>5. \A s \in Shells : call[s].step = "idle"
    BY <1>1, IdleIs
  <1>6. f \notin DOMAIN Current => disk[f] \in truth[req].origin[f]
    BY <1>1, <1>5 DEF OldInv, UnseenOld, Pending, Origin
  <1>7. \A g \in DOMAIN e : e[g].before \in truth'[req].origin[g] \cup {Unknown}
    <2>1. \A g \in DOMAIN Current : Current[g].before \in truth'[req].origin[g] \cup {Unknown}
      BY <1>2, <1>4, CurrentOld DEF OldInv
    <2>2. Read(disk[f]) \in {disk[f], Unknown}
      BY ReadKeeps DEF OldInv, TypeInv, DiskOK
    <2> QED BY <1>1, <1>3, <1>6, <2>1, <2>2
  <1> HIDE DEF e
  <1>8. EntriesOld' /\ Current' = e
    BY <1>1, <1>2, <1>3, <1>4, <1>7, EntriesWith DEF OldInv
  <1>9. UnseenOld'
    BY <1>1, <1>2, <1>3, <1>4, <1>8, UnseenKept DEF OldInv
  <1>10. ToolKnown'
    BY <1>1, <1>3, <1>5, <1>8 DEF ToolKnown
  <1> QED BY <1>2, <1>8, <1>9, <1>10 DEF OldInv

LEMMA WritesOld ==
    ASSUME OldInv, NEW c \in States, ToolWrites(c)
    PROVE  OldInv'
  <1> DEFINE e == Note(Current, {tool}, disk')
  <1>1. /\ UNCHANGED <<head, open, running, call, req>> /\ tool # None /\ tool' = None
        /\ disk' = [disk EXCEPT ![tool] = c] /\ cps' = WithCurrent(e)
    BY DEF ToolWrites, Write
  <1>2. TypeInv' /\ Grows /\ open /\ running /\ tool \in DOMAIN Current
    BY <1>1, WritesType, ToolOpen DEF OldInv, ToolKnown
  <1>3. /\ e \in Entries /\ DOMAIN e = DOMAIN Current
        /\ \A f \in DOMAIN Current : e[f].before = Current[f].before
    BY <1>2, OpenIs, NoteIs DEF OldInv, TypeInv, DiskOK
  <1>4. \A f \in DOMAIN e : e[f].before \in truth'[req].origin[f] \cup {Unknown}
    BY <1>2, <1>3, CurrentOld DEF OldInv
  <1> HIDE DEF e
  <1>5. EntriesOld' /\ Current' = e
    BY <1>1, <1>2, <1>3, <1>4, EntriesWith DEF OldInv
  <1>6. \A f \in Files \ DOMAIN Current' : disk'[f] = disk[f]
    BY <1>1, <1>2, <1>3, <1>5 DEF OldInv, TypeInv, DiskOK
  <1>7. UnseenOld'
    BY <1>1, <1>2, <1>3, <1>5, <1>6, UnseenKept DEF OldInv
  <1>8. ToolKnown'
    BY <1>1 DEF ToolKnown
  <1> QED BY <1>2, <1>5, <1>7, <1>8 DEF OldInv

LEMMA FailsOld ==
    ASSUME OldInv, ToolFails
    PROVE  OldInv'
  <1>1. /\ UNCHANGED <<head, cps, open, running, call, req>> /\ tool # None /\ tool' = None
        /\ disk' = disk \/ \E c \in States : disk' = [disk EXCEPT ![tool] = c]
    BY DEF ToolFails, store, Change, Write
  <1>2. TypeInv' /\ Grows /\ open /\ running /\ tool \in DOMAIN Current
    BY <1>1, FailsType, ToolOpen DEF OldInv, ToolKnown
  <1>3. EntriesOld'
    BY <1>1, <1>2, EntriesKept DEF OldInv
  <1>4. Current' = Current
    BY <1>1 DEF Current
  <1>5. \A f \in Files \ DOMAIN Current' : disk'[f] = disk[f]
    BY <1>1, <1>2, <1>4 DEF OldInv, TypeInv, DiskOK
  <1>6. UnseenOld'
    BY <1>1, <1>2, <1>4, <1>5, UnseenKept DEF OldInv
  <1>7. ToolKnown'
    BY <1>1 DEF ToolKnown
  <1> QED BY <1>2, <1>3, <1>6, <1>7 DEF OldInv

-------------------------------------------------------------------------------
(* The steps of a shell call that runs alone. *)
LEMMA AloneUnseen ==
    ASSUME Alone, NEW s \in Shells, \A f \in Files \ DOMAIN Current' : Pending(f, call[s])'
    PROVE  UnseenOld'
  <1>1. \A t \in Shells : t = s
    BY DEF Alone
  <1> QED BY <1>1 DEF UnseenOld

LEMMA ShellOld ==
    ASSUME OldInv, NEW s \in Shells, call[s].step # "idle"
    PROVE  /\ running /\ open /\ tool = None /\ CallOK(call[s])
           /\ call[s].snap \in [Files -> States \cup {None}] \cup {<<>>}
           /\ call[s].head \in [Files -> States] \cup {<<>>}
           /\ \A f \in Files \ DOMAIN Current : Pending(f, call[s])
  <1>1. /\ running /\ open /\ CallOK(call[s])
        /\ call[s].snap \in [Files -> States \cup {None}] \cup {<<>>}
        /\ call[s].head \in [Files -> States] \cup {<<>>}
    BY ShellCall DEF OldInv
  <1>2. tool = None
    BY DEF OldInv, ToolKnown
  <1> QED BY <1>1, <1>2 DEF OldInv, UnseenOld

LEMMA SnapshotsOld ==
    ASSUME OldInv, Alone, NEW s \in Shells, ShellSnapshots(s)
    PROVE  OldInv'
  <1> DEFINE c == Call("snapped", Snapshot, <<>>, {})
  <1>1. /\ UNCHANGED <<disk, head, cps, open, running, tool, req, truth>>
        /\ running /\ tool = None /\ call[s].step = "idle" /\ call' = [call EXCEPT ![s] = c]
    BY DEF ShellSnapshots, store, history, Alone
  <1>2. TypeInv'
    BY SnapshotsType DEF OldInv
  <1>3. EntriesOld'
    BY <1>1 DEF OldInv, EntriesOld
  <1>4. /\ \A f \in Files : /\ Snapshot[f] # None => Snapshot[f] = disk[f]
                            /\ Snapshot[f] = None => disk[f] = head[f]
        /\ Snapshot \in [Files -> States \cup {None}]
    BY SnapshotIs DEF OldInv, TypeInv
  <1>5. call'[s] = c
    BY <1>1 DEF OldInv, TypeInv, CallsOK
  <1>6. c.step = "snapped" /\ c.snap = Snapshot
    BY DEF Call
  <1> HIDE DEF c
  <1>7. \A f \in Files \ DOMAIN Current' : Pending(f, call[s])'
    <2> SUFFICES ASSUME NEW f \in Files \ DOMAIN Current' PROVE Pending(f, call[s])'
      OBVIOUS
    <2>1. disk[f] \in Origin(f)
      BY <1>1 DEF OldInv, UnseenOld, Pending, Current
    <2>2. Origin(f)' = Origin(f)
      BY <1>1 DEF Origin
    <2> QED BY <1>1, <1>4, <1>5, <1>6, <2>1, <2>2 DEF Pending
  <1>8. UnseenOld'
    BY <1>7, AloneUnseen
  <1>9. ToolKnown'
    BY <1>1 DEF ToolKnown
  <1> QED BY <1>2, <1>3, <1>8, <1>9 DEF OldInv

LEMMA BeforeOld ==
    ASSUME OldInv, Alone, NEW s \in Shells, ShellBefore(s)
    PROVE  OldInv'
  <1> DEFINE c == Call("running", call[s].snap, head, {})
             e == Capture(Current, Dirty(call[s]))
  <1>1. /\ UNCHANGED <<disk, head, open, running, tool, req, truth>>
        /\ call[s].step = "snapped" /\ call' = [call EXCEPT ![s] = c]
        /\ cps' = cps \/ cps' = WithCurrent(e)
    BY DEF ShellBefore, history
  <1>2. /\ running /\ open /\ tool = None /\ TypeInv'
        /\ \A f \in Files \ DOMAIN Current : Pending(f, call[s])
        /\ Dirty(call[s]) \in SUBSET Files
    BY <1>1, ShellOld, BeforeType DEF OldInv, Dirty
  <1>3. /\ e \in Entries /\ DOMAIN e = DOMAIN Current \cup Dirty(call[s])
        /\ \A f \in DOMAIN Current : e[f] = Current[f]
        /\ \A f \in Dirty(call[s]) \ DOMAIN Current : e[f].before = Read(disk[f])
    <2>1. Current \in Entries
      BY <1>2, OpenIs DEF OldInv
    <2>2. disk \in [Files -> States]
      BY DEF OldInv, TypeInv, DiskOK
    <2> QED BY <1>2, <2>1, <2>2, CaptureIs
  <1>4. Grows
    BY <1>1, Unchanging DEF OldInv, TypeInv
  <1>5. \A f \in DOMAIN e : e[f].before \in truth'[req].origin[f] \cup {Unknown}
    <2>1. \A f \in DOMAIN Current : Current[f].before \in truth'[req].origin[f] \cup {Unknown}
      BY <1>2, <1>4, CurrentOld DEF OldInv
    <2>2. ASSUME NEW f \in Dirty(call[s]) \ DOMAIN Current
          PROVE  e[f].before \in truth'[req].origin[f] \cup {Unknown}
      <3>1. disk[f] \in truth[req].origin[f] /\ f \in Files
        BY <1>1, <1>2, <2>2 DEF Pending, Origin
      <3>2. Read(disk[f]) \in {disk[f], Unknown}
        BY <3>1, ReadKeeps DEF OldInv, TypeInv, DiskOK
      <3> QED BY <1>1, <1>3, <3>1, <3>2
    <2> QED BY <1>3, <2>1, <2>2
  <1>6. call'[s] = c
    BY <1>1 DEF OldInv, TypeInv, CallsOK
  <1>7. c.step = "running" /\ c.snap = call[s].snap /\ c.head = head
    BY DEF Call
  <1> HIDE DEF c, e
  <1>8. EntriesOld' /\ DOMAIN Current \subseteq DOMAIN Current'
    <2>1. CASE cps' = cps
      BY <1>1, <2>1 DEF OldInv, EntriesOld, Current
    <2>2. CASE cps' = WithCurrent(e)
      BY <1>2, <1>3, <1>4, <1>5, <2>2, EntriesWith DEF OldInv
    <2> QED BY <1>1, <2>1, <2>2
  <1>9. \A f \in Files \ DOMAIN Current' : Pending(f, call[s])'
    <2> SUFFICES ASSUME NEW f \in Files \ DOMAIN Current' PROVE Pending(f, call[s])'
      OBVIOUS
    <2>1. Pending(f, call[s])
      BY <1>2, <1>8
    <2>2. Origin(f)' = Origin(f)
      BY <1>1 DEF Origin
    <2> QED BY <1>1, <1>6, <1>7, <2>1, <2>2 DEF Pending
  <1>10. UnseenOld'
    BY <1>9, AloneUnseen
  <1>11. ToolKnown'
    BY <1>1, <1>2 DEF ToolKnown
  <1> QED BY <1>2, <1>8, <1>10, <1>11 DEF OldInv

(* While the command runs nothing is claimed of the disk. *)
LEMMA RunningOld ==
    ASSUME OldInv, Alone, NEW s \in Shells, call[s].step = "running", TypeInv', Grows,
           UNCHANGED <<cps, running, tool, call, req>>
    PROVE  OldInv'
  <1>1. /\ running /\ open /\ tool = None
        /\ \A f \in Files \ DOMAIN Current : Pending(f, call[s])
    BY ShellOld
  <1>2. EntriesOld'
    BY EntriesKept DEF OldInv
  <1>3. Current' = Current
    BY DEF Current
  <1>4. \A f \in Files : Origin(f) \subseteq Origin(f)'
    <2>1. req \in DOMAIN truth
      BY <1>1, OpenIs, LenProperties DEF OldInv, TypeInv, HistoryOK
    <2> QED BY <2>1 DEF Grows, Origin
  <1>5. \A f \in Files \ DOMAIN Current' : Pending(f, call[s])'
    BY <1>1, <1>3, <1>4 DEF Pending
  <1>6. UnseenOld'
    BY <1>5, AloneUnseen
  <1>7. ToolKnown'
    BY <1>1 DEF ToolKnown
  <1> QED BY <1>2, <1>6, <1>7 DEF OldInv

LEMMA ChangesOld ==
    ASSUME OldInv, Alone, NEW s \in Shells, NEW f \in Files, NEW c \in States,
           ShellChanges(s, f, c)
    PROVE  OldInv'
  <1>1. UNCHANGED <<cps, running, tool, call, req>> /\ call[s].step = "running"
    BY DEF ShellChanges, store
  <1>2. TypeInv' /\ Grows
    BY ChangesType DEF OldInv
  <1> QED BY <1>1, <1>2, RunningOld

LEMMA CommitsOld ==
    ASSUME OldInv, Alone, NEW s \in Shells, ShellCommits(s)
    PROVE  OldInv'
  <1>1. UNCHANGED <<cps, running, tool, call, req, truth>> /\ call[s].step = "running"
    BY DEF ShellCommits, store, history
  <1>2. TypeInv' /\ Grows
    BY <1>1, CommitsType, Unchanging DEF OldInv, TypeInv
  <1> QED BY <1>1, <1>2, RunningOld

(* What the second snapshot does not tell was not changed. *)
LEMMA EndsOld ==
    ASSUME OldInv, Alone, NEW s \in Shells, ShellEnds(s)
    PROVE  OldInv'
  <1>1. PICK changed \in SUBSET Files :
            /\ InGit => Differs(call[s]) \subseteq changed
            /\ call' = [call EXCEPT ![s] = Call("ended", call[s].snap, call[s].head, changed)]
    BY DEF ShellEnds
  <1> DEFINE c == Call("ended", call[s].snap, call[s].head, changed)
  <1>2. /\ UNCHANGED <<disk, head, cps, open, running, tool, req, truth>>
        /\ call[s].step = "running"
    BY DEF ShellEnds, store, history
  <1>3. /\ running /\ tool = None /\ TypeInv'
        /\ \A f \in Files \ DOMAIN Current : Pending(f, call[s])
    BY <1>2, ShellOld, EndsType DEF OldInv
  <1>4. EntriesOld'
    BY <1>2 DEF OldInv, EntriesOld
  <1>5. call'[s] = c
    BY <1>1 DEF OldInv, TypeInv, CallsOK
  <1>6. c.step = "ended" /\ c.snap = call[s].snap /\ c.head = call[s].head /\ c.changed = changed
    BY DEF Call
  <1> HIDE DEF c
  <1>7. \A f \in Files : /\ Snapshot[f] # None => Snapshot[f] = disk[f]
                         /\ Snapshot[f] = None => disk[f] = head[f]
    BY SnapshotIs DEF OldInv, TypeInv
  <1>8. \A f \in Files \ DOMAIN Current' : Pending(f, call[s])'
    <2> SUFFICES ASSUME NEW f \in Files \ DOMAIN Current' PROVE Pending(f, call[s])'
      OBVIOUS
    <2>1. Pending(f, call[s])
      BY <1>2, <1>3 DEF Current
    <2>2. Origin(f)' = Origin(f)
      BY <1>2 DEF Origin
    <2>3. Moved(call[s])' = {g \in Files : c.head[g] # head[g]}
      BY <1>2, <1>5 DEF Moved
    <2>4. f \in changed \/ f \in Moved(call[s])' \/ disk[f] \in Origin(f)
      <3> SUFFICES ASSUME f \notin changed, f \notin Moved(call[s])' PROVE disk[f] \in Origin(f)
        OBVIOUS
      <3>1. Snapshot[f] = call[s].snap[f]
        BY <1>1 DEF Differs, Alone
      <3>2. call[s].head[f] = head[f]
        BY <1>6, <2>3
      <3> QED BY <1>2, <1>7, <2>1, <3>1, <3>2 DEF Pending
    <2> QED BY <1>2, <1>5, <1>6, <2>1, <2>2, <2>4 DEF Pending
  <1>9. UnseenOld'
    BY <1>8, AloneUnseen
  <1>10. ToolKnown'
    BY <1>2, <1>3 DEF ToolKnown
  <1> QED BY <1>3, <1>4, <1>9, <1>10 DEF OldInv

(* What it did tell is recorded with what was inferred for it. *)
LEMMA AfterOld ==
    ASSUME OldInv, Alone, NEW s \in Shells, ShellAfter(s)
    PROVE  OldInv'
  <1> DEFINE paths == call[s].changed \cup Moved(call[s])
             inferred == Infer(Current, call[s], paths)
             e == Note(inferred, paths, disk)
  <1>1. /\ UNCHANGED <<disk, head, open, running, tool, req, truth>>
        /\ call[s].step = "ended" /\ call' = [call EXCEPT ![s] = Idle]
        /\ cps' = IF paths = {} THEN cps ELSE Trim(WithCurrent(e))
    BY Zenon DEF ShellAfter, history, Alone
  <1>2. /\ running /\ open /\ tool = None /\ CallOK(call[s]) /\ TypeInv'
        /\ \A f \in Files \ DOMAIN Current : Pending(f, call[s])
    BY <1>1, ShellOld, AfterType DEF OldInv
  <1>3. /\ call[s].head \in [Files -> States] /\ paths \in SUBSET Files
        /\ disk \in [Files -> States] /\ Current \in Entries
    <2>1. call[s].head \in [Files -> States] /\ call[s].changed \in SUBSET Files
      BY <1>1, <1>2, ShellCall DEF CallOK, OldInv
    <2>2. Current \in Entries
      BY <1>2, OpenIs DEF OldInv
    <2> QED BY <2>1, <2>2 DEF Moved, OldInv, TypeInv, DiskOK
  <1>4. /\ inferred \in Entries /\ DOMAIN inferred = DOMAIN Current \cup paths
        /\ \A f \in DOMAIN Current : inferred[f] = Current[f]
        /\ \A f \in paths \ DOMAIN Current : inferred[f].before = Inferred(call[s], f)
    <2>1. /\ inferred \in Entries /\ DOMAIN inferred = DOMAIN Current \cup paths
          /\ \A f \in DOMAIN Current : inferred[f] = Current[f]
      BY <1>3, InferIs
    <2>2. \A f \in paths \ DOMAIN Current : inferred[f].before = Inferred(call[s], f)
      <3> HIDE DEF paths
      <3> SUFFICES ASSUME NEW f \in paths \ DOMAIN Current
                   PROVE  inferred[f].before = Inferred(call[s], f)
        OBVIOUS
      <3>1. inferred[f] = Entry(Inferred(call[s], f), None, FALSE)
        BY DEF Infer
      <3> QED BY <3>1 DEF Entry
    <2> QED BY <2>1, <2>2
  <1> HIDE DEF paths, inferred
  <1>5. /\ e \in Entries /\ DOMAIN e = DOMAIN inferred
        /\ \A f \in DOMAIN inferred : e[f].before = inferred[f].before
    BY <1>3, <1>4, NoteIs
  <1>6. Grows
    BY <1>1, Unchanging DEF OldInv, TypeInv
  <1>7. \A f \in DOMAIN inferred : inferred[f].before \in truth'[req].origin[f] \cup {Unknown}
    <2>1. \A f \in DOMAIN Current : Current[f].before \in truth'[req].origin[f] \cup {Unknown}
      BY <1>2, <1>6, CurrentOld DEF OldInv
    <2>2. ASSUME NEW f \in paths \ DOMAIN Current
          PROVE  Inferred(call[s], f) \in truth'[req].origin[f] \cup {Unknown}
      <3>1. f \in Files /\ Pending(f, call[s])
        BY <1>2, <1>3
      <3>2. CASE call[s].snap[f] # None
        BY <3>2 DEF Inferred
      <3>3. CASE call[s].snap[f] = None
        <4>1. call[s].head[f] \in truth[req].origin[f]
          BY <1>1, <3>1, <3>3 DEF Pending, Origin
        <4>2. Read(call[s].head[f]) \in {call[s].head[f], Unknown}
          BY <1>3, <3>1, ReadKeeps
        <4>3. Inferred(call[s], f) = Read(call[s].head[f])
          BY <3>3 DEF Inferred
        <4> QED BY <1>1, <4>1, <4>2, <4>3
      <3> QED BY <3>2, <3>3
    <2> QED BY <1>4, <2>1, <2>2
  <1> HIDE DEF e
  <1>8. /\ EntriesOld' /\ DOMAIN Current \subseteq DOMAIN Current'
        /\ paths \subseteq DOMAIN Current'
    <2>1. CASE paths = {}
      BY <1>1, <2>1 DEF OldInv, EntriesOld, Current
    <2>2. CASE paths # {}
      <3>1. cps' \in {WithCurrent(e), Trim(WithCurrent(e))}
        BY <1>1, <2>2
      <3>2. \A f \in DOMAIN e : e[f].before \in truth'[req].origin[f] \cup {Unknown}
        BY <1>5, <1>7
      <3>3. EntriesOld' /\ Current' = e
        BY <1>2, <1>5, <1>6, <3>1, <3>2, EntriesWith DEF OldInv
      <3> QED BY <1>4, <1>5, <3>3
    <2> QED BY <2>1, <2>2
  <1>9. call'[s] = Idle
    BY <1>1 DEF OldInv, TypeInv, CallsOK
  <1>10. \A f \in Files \ DOMAIN Current' : Pending(f, call[s])'
    <2> SUFFICES ASSUME NEW f \in Files \ DOMAIN Current' PROVE Pending(f, call[s])'
      OBVIOUS
    <2>1. Pending(f, call[s]) /\ f \notin paths
      BY <1>2, <1>8
    <2>2. disk[f] \in Origin(f)
      BY <1>1, <2>1 DEF Pending, paths
    <2>3. Origin(f)' = Origin(f)
      BY <1>1 DEF Origin
    <2> QED BY <1>1, <1>9, <2>2, <2>3, IdleIs DEF Pending
  <1>11. UnseenOld'
    BY <1>10, AloneUnseen
  <1>12. ToolKnown'
    BY <1>1, <1>2 DEF ToolKnown
  <1> QED BY <1>2, <1>8, <1>11, <1>12 DEF OldInv

-------------------------------------------------------------------------------
LEMMA OldNext == ASSUME Alone PROVE OldInv /\ [Next]_vars => OldInv'
  <1> SUFFICES ASSUME OldInv, [Next]_vars PROVE OldInv'
    OBVIOUS
  <1>1. CASE Begin
    BY <1>1, BeginOld
  <1>2. CASE EndRequest
    BY <1>2, EndOld
  <1>3. CASE ToolFails
    BY <1>3, FailsOld
  <1>4. CASE Redo
    BY <1>4, RedoIs, RedoKeepsType, MarksOld DEF OldInv
  <1>5. CASE \E s \in Shells : Shell(s)
    BY <1>5, SnapshotsOld, BeforeOld, CommitsOld, EndsOld, AfterOld DEF Shell
  <1>6. CASE \E force \in BOOLEAN, failed \in SUBSET Files : Undo(force, failed)
    BY <1>6, UndoIs, UndoType, MarksOld DEF OldInv
  <1>7. CASE \E c \in States : ToolWrites(c)
    BY <1>7, WritesOld
  <1>8. CASE \E f \in Files : ToolCaptures(f)
    BY <1>8, CapturesOld
  <1>9. CASE \E f \in Files : \E c \in States : UserEdits(f, c)
    BY <1>9, UserOld
  <1>10. CASE \E f \in Files : \E c \in States : \E s \in Shells : ShellChanges(s, f, c)
    BY <1>10, ChangesOld
  <1>11. CASE UNCHANGED vars
    <2>1. UNCHANGED <<disk, head, cps, open, running, tool, call, req, truth>>
      BY <1>11 DEF vars, store, history
    <2>2. TypeInv'
      BY <1>11, TypeNext DEF OldInv
    <2>3. EntriesOld' /\ ToolKnown'
      BY <2>1 DEF OldInv, EntriesOld, ToolKnown, Current
    <2>4. UnseenOld'
      <3>1. Grows /\ (running => open)
        BY <2>1, Unchanging DEF OldInv, TypeInv, StoreOK
      <3>2. Current' = Current
        BY <2>1 DEF Current
      <3>3. CASE ~running
        BY <2>1, <3>3 DEF UnseenOld
      <3>4. CASE running
        BY <2>1, <3>1, <3>2, <3>4, UnseenKept DEF OldInv
      <3> QED BY <3>3, <3>4
    <2> QED BY <2>2, <2>3, <2>4 DEF OldInv
  <1> QED BY <1>1, <1>2, <1>3, <1>4, <1>5, <1>6, <1>7, <1>8, <1>9, <1>10, <1>11 DEF Next

LEMMA OldInvariant == ASSUME Alone PROVE Spec => []OldInv
  <1>1. Init => OldInv
    BY OldInit
  <1>2. OldInv /\ [Next]_vars => OldInv'
    BY OldNext
  <1> QED BY <1>1, <1>2, PTL DEF Spec

(* In a git work tree, with one shell call at a time, no checkpoint takes   *)
(* the request's own work for what was there before (checkpoints.js:4-8,    *)
(* 288-365), for all files, contents and caps, whatever the user edits in   *)
(* the meantime and whichever tools fail.                                   *)
THEOREM BeforeAlwaysOld ==
    ASSUME Alone
    PROVE  Spec => []BeforeIsOld
  <1>1. OldInv => BeforeIsOld
    BY DEF OldInv, EntriesOld, BeforeIsOld, Touched
  <1> QED BY <1>1, OldInvariant, PTL

(* There, /undo puts back nothing but a state the file had without the      *)
(* request it undoes (checkpoints.js:460-501), also after earlier undos,    *)
(* redos, conflicts and failed writes.                                      *)
THEOREM UndoGivesOnlyWhatWas ==
    ASSUME Alone
    PROVE  Spec => UndoGivesBack
  <1> DEFINE GivesBack ==
                \A force \in BOOLEAN, failed \in SUBSET Files : Undo(force, failed) =>
                   \A f \in Files : disk'[f] # disk[f] => disk'[f] \in truth[cps[Target].id].origin[f]
  <1>1. OldInv => GivesBack
    <2> SUFFICES ASSUME OldInv, NEW force \in BOOLEAN, NEW failed \in SUBSET Files,
                        Undo(force, failed), NEW f \in Files, disk'[f] # disk[f]
                 PROVE  disk'[f] \in truth[cps[Target].id].origin[f]
      OBVIOUS
    <2>1. /\ Target \in DOMAIN cps /\ f \in DOMAIN cps[Target].entries
          /\ disk'[f] = cps[Target].entries[f].before /\ disk'[f] # Unknown
      BY UndoIs DEF OldInv
    <2> QED BY <2>1 DEF OldInv, EntriesOld
  <1>2. OldInv /\ [Next]_vars => [GivesBack]_vars
    BY <1>1
  <1> QED BY <1>2, OldInvariant, PTL DEF Spec, UndoGivesBack
===============================================================================
