----------------------- MODULE CheckpointsUndo_proofs -----------------------
(* Proofs about Checkpoints: what an undo leaves alone.  In a git work tree *)
(* it keeps what was made of a file since the request it undoes, unless it  *)
(* is forced; and forced, it leaves nothing of the request but what it      *)
(* tells the user.                                                          *)
EXTENDS Checkpoints_proofs

(* What a request's files hold while it runs is recorded as held. *)
HeldNow == running => \A f \in Files : disk[f] \in truth[req].held[f]

(* An entry remembers as the request's a state the file had while it ran,   *)
(* and remembers one for each file a tool touched.                          *)
AfterHeld ==
    \A i \in DOMAIN cps : \A f \in DOMAIN cps[i].entries :
        /\ cps[i].entries[f].after \in truth[cps[i].id].held[f] \cup {Unknown, None}
        /\ cps[i].entries[f].touched => cps[i].entries[f].after # None

HeldInv == TypeInv /\ HeldNow /\ AfterHeld

-------------------------------------------------------------------------------
(* The history loses no state a file had, and no silent change. *)
Adds ==
    \A r \in DOMAIN truth : /\ truth[r].silent \subseteq truth'[r].silent
                            /\ \A f \in Files : truth[r].held[f] \subseteq truth'[r].held[f]

LEMMA HeldIs ==
    ASSUME NEW t \in TruthType, NEW f \in Files, NEW c \in States
    PROVE  /\ Held(t, f, c) \in TruthType /\ Held(t, f, c).silent = t.silent
           /\ c \in Held(t, f, c).held[f]
           /\ \A g \in Files : t.held[g] \subseteq Held(t, f, c).held[g]
  <1>1. /\ Held(t, f, c) \in TruthType /\ Held(t, f, c).silent = t.silent
        /\ Held(t, f, c).held = [t.held EXCEPT ![f] = @ \cup {c}]
        /\ t.held \in [Files -> SUBSET States]
    BY DEF Held, TruthType
  <1> QED BY <1>1

LEMMA SilentIs ==
    ASSUME NEW t \in TruthType, NEW f \in Files
    PROVE  /\ Silent(t, f) \in TruthType
           /\ Silent(t, f).held = t.held /\ Silent(t, f).silent = t.silent \cup {f}
  BY DEF Silent, TruthType

LEMMA OriginalIs ==
    ASSUME NEW t \in TruthType, NEW f \in Files, NEW c \in States
    PROVE  /\ Original(t, f, c) \in TruthType
           /\ Original(t, f, c).held = t.held /\ Original(t, f, c).silent = t.silent
  BY DEF Original, TruthType

LEMMA RecordedAdds ==
    ASSUME truth \in Seq(TruthType), req \in 1..Len(truth), NEW new \in TruthType,
           truth[req].silent \subseteq new.silent,
           \A f \in Files : truth[req].held[f] \subseteq new.held[f],
           truth' = [truth EXCEPT ![req] = new]
    PROVE  Adds /\ truth'[req] = new
  <1>1. \A j \in 1..Len(truth) : truth'[j] = IF j = req THEN new ELSE truth[j]
    BY ExceptSeq
  <1>2. DOMAIN truth = 1..Len(truth)
    BY LenProperties
  <1> QED BY <1>1, <1>2 DEF Adds

LEMMA RequestAdds ==
    ASSUME truth \in Seq(TruthType), req \in 1..Len(truth), NEW f \in Files, NEW c \in States,
           ByRequest(f, c)
    PROVE  /\ Adds /\ c \in truth'[req].held[f]
           /\ truth'[req].silent = truth[req].silent
  <1>1. truth[req] \in TruthType
    BY ElementOfSeq
  <1> DEFINE new == Held(truth[req], f, c)
  <1>2. /\ new \in TruthType /\ new.silent = truth[req].silent /\ c \in new.held[f]
        /\ \A g \in Files : truth[req].held[g] \subseteq new.held[g]
    BY <1>1, HeldIs
  <1>3. truth' = [truth EXCEPT ![req] = new]
    BY DEF ByRequest
  <1> HIDE DEF new
  <1>4. Adds /\ truth'[req] = new
    BY <1>2, <1>3, RecordedAdds
  <1> QED BY <1>2, <1>4

LEMMA UserAdds ==
    ASSUME truth \in Seq(TruthType), running => req \in 1..Len(truth), running \in BOOLEAN,
           NEW f \in Files, NEW c \in States, ByUser(f, c)
    PROVE  /\ Adds
           /\ running => /\ c \in truth'[req].held[f]
                         /\ truth'[req].silent = truth[req].silent
  <1>1. CASE ~running
    BY <1>1 DEF ByUser, Adds
  <1>2. CASE running
    <2> DEFINE held == Held(truth[req], f, c)
               new == Original(held, f, c)
    <2>1. truth[req] \in TruthType
      BY <1>2, ElementOfSeq
    <2>2. /\ held \in TruthType /\ held.silent = truth[req].silent /\ c \in held.held[f]
          /\ \A g \in Files : truth[req].held[g] \subseteq held.held[g]
      BY <2>1, HeldIs
    <2>3. truth' = [truth EXCEPT ![req] = new]
      BY <1>2 DEF ByUser
    <2> HIDE DEF held
    <2>4. new \in TruthType /\ new.held = held.held /\ new.silent = held.silent
      BY <2>2, OriginalIs
    <2> HIDE DEF new
    <2>5. Adds /\ truth'[req] = new
      BY <1>2, <2>2, <2>3, <2>4, RecordedAdds
    <2> QED BY <2>2, <2>4, <2>5
  <1> QED BY <1>1, <1>2

LEMMA SilentAdds ==
    ASSUME truth \in Seq(TruthType), req \in 1..Len(truth), NEW f \in Files, NEW c \in States,
           truth' = [truth EXCEPT ![req] = Silent(Held(@, f, c), f)]
    PROVE  Adds /\ c \in truth'[req].held[f] /\ f \in truth'[req].silent
  <1> DEFINE held == Held(truth[req], f, c)
             new == Silent(held, f)
  <1>1. truth[req] \in TruthType
    BY ElementOfSeq
  <1>2. /\ held \in TruthType /\ held.silent = truth[req].silent /\ c \in held.held[f]
        /\ \A g \in Files : truth[req].held[g] \subseteq held.held[g]
    BY <1>1, HeldIs
  <1>3. truth' = [truth EXCEPT ![req] = new]
    OBVIOUS
  <1> HIDE DEF held
  <1>4. new \in TruthType /\ new.held = held.held /\ new.silent = held.silent \cup {f}
    BY <1>2, SilentIs
  <1> HIDE DEF new
  <1>5. Adds /\ truth'[req] = new
    BY <1>2, <1>3, <1>4, RecordedAdds
  <1> QED BY <1>2, <1>4, <1>5

LEMMA SameAdds ==
    ASSUME truth' = truth
    PROVE  Adds
  BY DEF Adds

-------------------------------------------------------------------------------
(* What becomes of each entry. *)
Fresh(entry, now) == \/ entry.after = None /\ ~entry.touched
                     \/ entry.after = Read(now)

LEMMA CaptureFresh ==
    ASSUME NEW e, NEW fs, NEW f \in DOMAIN Capture(e, fs)
    PROVE  \/ f \in DOMAIN e /\ Capture(e, fs)[f] = e[f]
           \/ Capture(e, fs)[f].after = None /\ ~Capture(e, fs)[f].touched
  BY DEF Capture, Entry

LEMMA InferFresh ==
    ASSUME NEW e, NEW c, NEW fs, NEW f \in DOMAIN Infer(e, c, fs)
    PROVE  \/ f \in DOMAIN e /\ Infer(e, c, fs)[f] = e[f]
           \/ Infer(e, c, fs)[f].after = None /\ ~Infer(e, c, fs)[f].touched
  BY DEF Infer, Entry

LEMMA NoteFresh ==
    ASSUME NEW e, NEW fs, NEW now, NEW f \in DOMAIN e
    PROVE  /\ f \in fs => Note(e, fs, now)[f].after = Read(now[f]) /\ Note(e, fs, now)[f].touched
           /\ f \notin fs => Note(e, fs, now)[f] = e[f]
  BY DEF Note, Entry

(* The checkpoints but the current one keep their entries. *)
LEMMA EntriesFrom ==
    ASSUME TypeInv, open, NEW e \in Entries, cps' \in {WithCurrent(e), Trim(WithCurrent(e))}
    PROVE  /\ \E k \in Nat \ {0} : \A i \in DOMAIN cps' :
                 /\ k + i - 1 \in DOMAIN cps /\ cps'[i].id = cps[k + i - 1].id
                 /\ cps'[i].entries = IF k + i - 1 = Len(cps) THEN e ELSE cps[k + i - 1].entries
           /\ cps'[Len(cps')].entries = e
  <1> DEFINE s == WithCurrent(e)
  <1>1. /\ s \in Seq(CheckpointType) /\ s # <<>> /\ DOMAIN s = DOMAIN cps /\ Len(s) = Len(cps)
        /\ s[Len(cps)].entries = e /\ s[Len(cps)].id = cps[Len(cps)].id
        /\ \A i \in DOMAIN cps : i # Len(cps) => s[i] = cps[i]
    BY OpenIs, WithCurrentIs
  <1>2. cps' = s \/ cps' = Trim(s)
    OBVIOUS
  <1> HIDE DEF s
  <1>3. Len(s) \in Nat \ {0} /\ DOMAIN s = 1..Len(s)
    BY <1>1, LenProperties, EmptySeq
  <1>4. \A j \in DOMAIN s : /\ s[j].id = cps[j].id
                            /\ s[j].entries = IF j = Len(cps) THEN e ELSE cps[j].entries
    BY <1>1
  <1>5. \E k \in Nat \ {0} : \A i \in DOMAIN cps' : k + i - 1 \in DOMAIN s /\ cps'[i] = s[k + i - 1]
    <2>1. CASE cps' = s
      <3>1. \A i \in DOMAIN s : 1 + i - 1 = i
        BY <1>3
      <3> QED BY <2>1, <3>1
    <2>2. CASE cps' = Trim(s)
      <3>1. PICK k \in 1..Len(s) : Trim(s) = SubSeq(s, k, Len(s))
        BY <1>1, TrimIsSuffix
      <3>2. \A i \in k..Len(s) : s[i] \in CheckpointType
        BY <1>1, <1>3, <3>1, ElementOfSeq
      <3>3. /\ cps' \in Seq(CheckpointType) /\ Len(cps') = Len(s) - k + 1
            /\ \A i \in 1..(Len(s) - k + 1) : cps'[i] = s[k + i - 1]
        BY <1>3, <2>2, <3>1, <3>2, SubSeqProperties
      <3>4. DOMAIN cps' = 1..(Len(s) - k + 1)
        BY <3>3, LenProperties
      <3>5. \A i \in DOMAIN cps' : k + i - 1 \in DOMAIN s /\ cps'[i] = s[k + i - 1]
        BY <1>3, <3>1, <3>3, <3>4
      <3>6. k \in Nat \ {0}
        BY <1>3
      <3> QED BY <3>5, <3>6
    <2> QED BY <1>2, <2>1, <2>2
  <1>6. cps'[Len(cps')].entries = e
    BY <1>1, <1>2, TrimIs
  <1>7. PICK k \in Nat \ {0} : \A i \in DOMAIN cps' : k + i - 1 \in DOMAIN s /\ cps'[i] = s[k + i - 1]
    BY <1>5
  <1>8. \A i \in DOMAIN cps' :
           /\ k + i - 1 \in DOMAIN cps /\ cps'[i].id = cps[k + i - 1].id
           /\ cps'[i].entries = IF k + i - 1 = Len(cps) THEN e ELSE cps[k + i - 1].entries
    BY <1>1, <1>4, <1>7
  <1> QED BY <1>6, <1>8

-------------------------------------------------------------------------------
(* Entries are kept, or remember what the file holds now. *)
LEMMA HeldStep ==
    ASSUME HeldInv, TypeInv', Adds, req' = req, running' => running,
           running' => \A f \in Files : disk'[f] = disk[f] \/ disk'[f] \in truth'[req].held[f],
           \A i \in DOMAIN cps' : \E j \in DOMAIN cps :
              /\ cps'[i].id = cps[j].id
              /\ \A f \in DOMAIN cps'[i].entries :
                    \/ f \in DOMAIN cps[j].entries /\ cps'[i].entries[f] = cps[j].entries[f]
                    \/ running' /\ cps[j].id = req /\ Fresh(cps'[i].entries[f], disk'[f])
    PROVE  HeldInv'
  <1>1. /\ \A j \in DOMAIN cps : cps[j].id \in DOMAIN truth
        /\ running => req \in DOMAIN truth
        /\ \A i \in DOMAIN cps' : DOMAIN cps'[i].entries \subseteq Files
        /\ disk' \in [Files -> States]
    <2>1. /\ \A j \in DOMAIN cps : cps[j].id \in 1..req /\ truth \in Seq(TruthType) /\ Len(truth) = req
          /\ cps' \in Seq(CheckpointType) /\ disk' \in [Files -> States]
      BY DEF HeldInv, TypeInv, StoreOK, HistoryOK, DiskOK
    <2>2. \A i \in DOMAIN cps' : cps'[i] \in CheckpointType
      BY <2>1, LenProperties, ElementOfSeq
    <2>3. \A i \in DOMAIN cps' : cps'[i].entries \in Entries
      BY <2>2 DEF CheckpointType
    <2>4. truth \in Seq(TruthType) /\ Len(truth) = req
      BY DEF HeldInv, TypeInv, HistoryOK
    <2>5. DOMAIN truth = 1..req
      BY <2>4, LenProperties
    <2>6. running => req \in 1..Len(truth)
      BY OpenIs DEF HeldInv, TypeInv, StoreOK
    <2> QED BY <2>1, <2>3, <2>4, <2>5, <2>6, EntriesAre
  <1>2. HeldNow'
    <2> SUFFICES ASSUME running', NEW f \in Files PROVE disk'[f] \in truth'[req].held[f]
      BY DEF HeldNow
    <2>1. disk[f] \in truth[req].held[f]
      BY DEF HeldInv, HeldNow
    <2>2. truth[req].held[f] \subseteq truth'[req].held[f]
      BY <1>1 DEF Adds
    <2> QED BY <2>1, <2>2
  <1>3. AfterHeld'
    <2> SUFFICES ASSUME NEW i \in DOMAIN cps', NEW f \in DOMAIN cps'[i].entries
                 PROVE  /\ cps'[i].entries[f].after \in truth'[cps'[i].id].held[f] \cup {Unknown, None}
                        /\ cps'[i].entries[f].touched => cps'[i].entries[f].after # None
      BY DEF AfterHeld
    <2>1. PICK j \in DOMAIN cps :
              /\ cps'[i].id = cps[j].id
              /\ \/ f \in DOMAIN cps[j].entries /\ cps'[i].entries[f] = cps[j].entries[f]
                 \/ running' /\ cps[j].id = req /\ Fresh(cps'[i].entries[f], disk'[f])
      OBVIOUS
    <2>2. CASE f \in DOMAIN cps[j].entries /\ cps'[i].entries[f] = cps[j].entries[f]
      <3>1. /\ cps[j].entries[f].after \in truth[cps[j].id].held[f] \cup {Unknown, None}
            /\ cps[j].entries[f].touched => cps[j].entries[f].after # None
        BY <2>2 DEF HeldInv, AfterHeld
      <3>2. truth[cps[j].id].held[f] \subseteq truth'[cps[j].id].held[f]
        BY <1>1 DEF Adds
      <3> QED BY <2>1, <2>2, <3>1, <3>2
    <2>3. CASE running' /\ cps[j].id = req /\ Fresh(cps'[i].entries[f], disk'[f])
      <3>1. disk'[f] \in truth'[req].held[f] /\ disk'[f] \in States
        BY <1>1, <1>2, <2>3 DEF HeldNow
      <3>2. Read(disk'[f]) \in {disk'[f], Unknown} /\ Read(disk'[f]) # None
        BY <3>1, ReadKeeps, CheckpointAssumption
      <3> QED BY <2>1, <2>3, <3>1, <3>2 DEF Fresh
    <2> QED BY <2>1, <2>2, <2>3
  <1> QED BY <1>2, <1>3 DEF HeldInv

(* The store is as it was, or its checkpoints are marked. *)
LEMMA HeldMarks ==
    ASSUME HeldInv, TypeInv', Adds, req' = req, running' => running,
           running' => \A f \in Files : disk'[f] = disk[f] \/ disk'[f] \in truth'[req].held[f],
           cps' = cps \/ OnlyMarks
    PROVE  HeldInv'
  <1>1. \A i \in DOMAIN cps' : i \in DOMAIN cps /\ cps'[i].id = cps[i].id /\ cps'[i].entries = cps[i].entries
    BY DEF OnlyMarks
  <1> QED BY <1>1, HeldStep

(* The current checkpoint has other entries. *)
LEMMA HeldWith ==
    ASSUME HeldInv, TypeInv', Adds, UNCHANGED <<req, running>>, running, NEW e \in Entries,
           cps' \in {WithCurrent(e), Trim(WithCurrent(e))},
           \A f \in Files : disk'[f] = disk[f] \/ disk'[f] \in truth'[req].held[f],
           \A f \in DOMAIN e : \/ f \in DOMAIN Current /\ e[f] = Current[f]
                               \/ Fresh(e[f], disk'[f])
    PROVE  HeldInv'
  <1>1. open /\ TypeInv
    BY DEF HeldInv, TypeInv, StoreOK
  <1>2. \A i \in DOMAIN cps' : \E j \in DOMAIN cps :
            /\ cps'[i].id = cps[j].id
            /\ cps'[i].entries = IF j = Len(cps) THEN e ELSE cps[j].entries
    BY <1>1, EntriesFrom
  <1>3. cps[Len(cps)].id = req
    BY <1>1, OpenIs
  <1>4. ASSUME NEW i \in DOMAIN cps'
        PROVE  \E j \in DOMAIN cps :
              /\ cps'[i].id = cps[j].id
              /\ \A f \in DOMAIN cps'[i].entries :
                    \/ f \in DOMAIN cps[j].entries /\ cps'[i].entries[f] = cps[j].entries[f]
                    \/ running' /\ cps[j].id = req /\ Fresh(cps'[i].entries[f], disk'[f])
    <2>1. PICK j \in DOMAIN cps :
            /\ cps'[i].id = cps[j].id
            /\ cps'[i].entries = IF j = Len(cps) THEN e ELSE cps[j].entries
      BY <1>2
    <2>2. CASE j = Len(cps)
      <3>1. cps'[i].entries = e /\ cps[j].entries = Current /\ cps[j].id = req
        BY <1>3, <2>1, <2>2 DEF Current
      <3> QED BY <2>1, <3>1
    <2>3. CASE j # Len(cps)
      BY <2>1, <2>3
    <2> QED BY <2>2, <2>3
  <1> QED BY <1>4, HeldStep

-------------------------------------------------------------------------------
(* A new request closes the old checkpoint, keeps what was touched of the   *)
(* others, and opens an empty one.                                          *)
LEMMA BeginIs ==
    ASSUME TypeInv, Begin
    PROVE  /\ ~running /\ running' /\ req' = req + 1 /\ req \in Nat
           /\ truth'[req'] = NewTruth /\ \A r \in 1..req : truth'[r] = truth[r]
           /\ UNCHANGED <<disk, head, call, author>> /\ redos' = <<>>
           /\ \E k \in Nat \ {0} :
                /\ \A i \in DOMAIN cps' :
                      \/ /\ k + i - 1 \in DOMAIN cps /\ i < Len(cps')
                         /\ cps'[i].id = cps[k + i - 1].id
                         /\ DOMAIN cps'[i].entries \subseteq DOMAIN cps[k + i - 1].entries
                         /\ Touched(cps[k + i - 1]) \subseteq DOMAIN cps'[i].entries
                         /\ \A f \in DOMAIN cps'[i].entries :
                               cps'[i].entries[f] = cps[k + i - 1].entries[f]
                      \/ i = Len(cps') /\ cps'[i].id = req' /\ cps'[i].entries = <<>>
           /\ DOMAIN cps' = 1..Len(cps') /\ Len(cps') \in DOMAIN cps'
           /\ cps'[Len(cps')].entries = <<>>
  <1> DEFINE new == [id |-> req', entries |-> <<>>, undone |-> FALSE]
             s == Append(CloseCurrent, new)
  <1>1. /\ UNCHANGED <<disk, head, call, author>> /\ redos' = <<>>
        /\ ~running /\ running' /\ req' = req + 1
        /\ truth' = Append(truth, NewTruth) /\ cps' = Trim(s)
    BY DEF Begin
  <1>2. /\ truth \in Seq(TruthType) /\ Len(truth) = req /\ req \in Nat
        /\ cps \in Seq(CheckpointType) /\ open \in BOOLEAN /\ (open => cps # <<>>)
        /\ disk \in [Files -> States]
    BY DEF TypeInv, HistoryOK, StoreOK, ControlOK, DiskOK
  <1>3. /\ CloseCurrent \in Seq(CheckpointType)
        /\ \A i \in DOMAIN CloseCurrent :
              /\ i \in DOMAIN cps /\ CloseCurrent[i].id = cps[i].id
              /\ DOMAIN CloseCurrent[i].entries \subseteq DOMAIN cps[i].entries
              /\ Touched(cps[i]) \subseteq DOMAIN CloseCurrent[i].entries
              /\ \A f \in DOMAIN CloseCurrent[i].entries :
                    CloseCurrent[i].entries[f] = cps[i].entries[f]
    BY <1>2, CloseIs
  <1>4. NewTruth \in TruthType
    BY <1>2 DEF NewTruth, TruthType
  <1>5. truth'[req'] = NewTruth /\ \A r \in 1..req : truth'[r] = truth[r]
    BY <1>1, <1>2, <1>4, AppendProperties
  <1>6. new \in CheckpointType /\ new.id = req' /\ new.entries = <<>>
    BY <1>1, <1>2, NoEntries DEF CheckpointType
  <1> HIDE DEF new
  <1>7. /\ s \in Seq(CheckpointType) /\ s # <<>> /\ Len(s) = Len(CloseCurrent) + 1
        /\ \A i \in 1..Len(CloseCurrent) : s[i] = CloseCurrent[i]
        /\ s[Len(CloseCurrent) + 1] = new
    BY <1>3, <1>6, AppendProperties
  <1>8. /\ DOMAIN CloseCurrent = 1..Len(CloseCurrent) /\ Len(CloseCurrent) \in Nat
        /\ Len(s) \in Nat
    BY <1>3, <1>7, LenProperties
  <1> HIDE DEF s
  <1>9. PICK k \in 1..Len(s) : Trim(s) = SubSeq(s, k, Len(s))
    BY <1>7, TrimIsSuffix
  <1>10. /\ cps' \in Seq(CheckpointType) /\ Len(cps') = Len(s) - k + 1
         /\ \A i \in 1..(Len(s) - k + 1) : cps'[i] = s[k + i - 1]
    <2>1. \A i \in k..Len(s) : s[i] \in CheckpointType
      BY <1>7, <1>8, ElementOfSeq
    <2> QED BY <1>1, <1>8, <1>9, <2>1, SubSeqProperties
  <1>11. DOMAIN cps' = 1..Len(cps') /\ Len(cps') \in DOMAIN cps'
    BY <1>8, <1>10, LenProperties
  <1>12. cps'[Len(cps')] = new
    BY <1>7, <1>8, <1>10
  <1>13. ASSUME NEW i \in DOMAIN cps', i # Len(cps')
         PROVE  /\ k + i - 1 \in DOMAIN CloseCurrent /\ i < Len(cps')
                /\ cps'[i] = CloseCurrent[k + i - 1]
    <2>1. i \in 1..(Len(s) - k + 1) /\ i # Len(s) - k + 1 /\ k \in 1..Len(s)
      BY <1>10, <1>11, <1>13
    <2>2. k + i - 1 \in 1..Len(CloseCurrent) /\ i < Len(s) - k + 1
      BY <1>7, <1>8, <2>1
    <2>3. cps'[i] = s[k + i - 1]
      BY <1>10, <2>1
    <2>4. s[k + i - 1] = CloseCurrent[k + i - 1]
      BY <1>7, <2>2
    <2> QED BY <1>8, <1>10, <2>2, <2>3, <2>4
  <1>14. \A i \in DOMAIN cps' :
            \/ /\ k + i - 1 \in DOMAIN cps /\ i < Len(cps')
               /\ cps'[i].id = cps[k + i - 1].id
               /\ DOMAIN cps'[i].entries \subseteq DOMAIN cps[k + i - 1].entries
               /\ Touched(cps[k + i - 1]) \subseteq DOMAIN cps'[i].entries
               /\ \A f \in DOMAIN cps'[i].entries :
                     cps'[i].entries[f] = cps[k + i - 1].entries[f]
            \/ i = Len(cps') /\ cps'[i].id = req' /\ cps'[i].entries = <<>>
    BY <1>3, <1>6, <1>12, <1>13
  <1>15. k \in Nat \ {0}
    BY <1>8
  <1> QED BY <1>1, <1>2, <1>5, <1>6, <1>11, <1>12, <1>14, <1>15

LEMMA BeginHeld ==
    ASSUME HeldInv, Begin
    PROVE  HeldInv'
  <1>1. TypeInv'
    BY BeginType DEF HeldInv
  <1>2. /\ req' = req + 1 /\ req \in Nat /\ disk' = disk
        /\ truth'[req'] = NewTruth /\ \A r \in 1..req : truth'[r] = truth[r]
    BY BeginIs DEF HeldInv
  <1>3. PICK k \in Nat \ {0} : \A i \in DOMAIN cps' :
            \/ /\ k + i - 1 \in DOMAIN cps
               /\ cps'[i].id = cps[k + i - 1].id
               /\ DOMAIN cps'[i].entries \subseteq DOMAIN cps[k + i - 1].entries
               /\ \A f \in DOMAIN cps'[i].entries :
                     cps'[i].entries[f] = cps[k + i - 1].entries[f]
            \/ cps'[i].entries = <<>>
    BY BeginIs DEF HeldInv
  <1>4. HeldNow'
    <2>1. \A f \in Files : disk[f] \in NewTruth.held[f]
      BY DEF NewTruth
    <2> QED BY <1>2, <2>1 DEF HeldNow
  <1>5. AfterHeld'
    <2> SUFFICES ASSUME NEW i \in DOMAIN cps', NEW f \in DOMAIN cps'[i].entries
                 PROVE  /\ cps'[i].entries[f].after \in truth'[cps'[i].id].held[f] \cup {Unknown, None}
                        /\ cps'[i].entries[f].touched => cps'[i].entries[f].after # None
      BY DEF AfterHeld
    <2>1. cps'[i].entries # <<>>
      BY NoEntries
    <2>2. /\ k + i - 1 \in DOMAIN cps /\ cps'[i].id = cps[k + i - 1].id
          /\ f \in DOMAIN cps[k + i - 1].entries
          /\ cps'[i].entries[f] = cps[k + i - 1].entries[f]
      BY <1>3, <2>1
    <2>3. cps[k + i - 1].id \in 1..req
      BY <2>2 DEF HeldInv, TypeInv, StoreOK
    <2> QED BY <1>2, <2>2, <2>3 DEF HeldInv, AfterHeld
  <1> QED BY <1>1, <1>4, <1>5 DEF HeldInv

LEMMA InRequest ==
    ASSUME TypeInv
    PROVE  /\ truth \in Seq(TruthType) /\ running \in BOOLEAN
           /\ running => /\ req \in 1..Len(truth) /\ open /\ Current \in Entries
                         /\ cps[Len(cps)].id = req
  BY OpenIs DEF TypeInv, HistoryOK, ControlOK, StoreOK

LEMMA UserHeld ==
    ASSUME HeldInv, TypeInv', NEW f \in Files, NEW c \in States, UserEdits(f, c)
    PROVE  HeldInv'
  <1>1. /\ UNCHANGED <<cps, running, req>> /\ disk' = [disk EXCEPT ![f] = c] /\ ByUser(f, c)
    BY DEF UserEdits, store, Change, Write
  <1>2. Adds /\ (running => c \in truth'[req].held[f])
    BY <1>1, InRequest, UserAdds DEF HeldInv
  <1>3. running' => \A g \in Files : disk'[g] = disk[g] \/ disk'[g] \in truth'[req].held[g]
    BY <1>1, <1>2 DEF HeldInv, TypeInv, DiskOK
  <1> QED BY <1>1, <1>2, <1>3, HeldMarks

LEMMA CapturesHeld ==
    ASSUME HeldInv, TypeInv', NEW f \in Files, ToolCaptures(f)
    PROVE  HeldInv'
  <1> DEFINE e == Capture(Current, {f})
  <1>1. UNCHANGED <<disk, running, req, truth>> /\ running /\ cps' = WithCurrent(e)
    BY DEF ToolCaptures, history
  <1>2. e \in Entries
    BY <1>1, InRequest, CaptureIs DEF HeldInv, TypeInv, DiskOK
  <1>3. \A g \in DOMAIN e : (g \in DOMAIN Current /\ e[g] = Current[g]) \/ Fresh(e[g], disk'[g])
    BY CaptureFresh DEF Fresh
  <1> HIDE DEF e
  <1> QED BY <1>1, <1>2, <1>3, SameAdds, HeldWith

LEMMA WritesHeld ==
    ASSUME HeldInv, TypeInv', NEW c \in States, ToolWrites(c)
    PROVE  HeldInv'
  <1> DEFINE e == Note(Current, {tool}, disk')
  <1>1. /\ UNCHANGED <<running, req>> /\ tool # None /\ ByRequest(tool, c)
        /\ disk' = [disk EXCEPT ![tool] = c] /\ cps' = WithCurrent(e)
    BY DEF ToolWrites, Write
  <1>2. running /\ tool \in Files /\ disk \in [Files -> States] /\ disk' \in [Files -> States]
    BY <1>1, ToolOpen DEF HeldInv, TypeInv, DiskOK
  <1>3. Adds /\ c \in truth'[req].held[tool]
    BY <1>1, <1>2, InRequest, RequestAdds DEF HeldInv
  <1>4. e \in Entries /\ DOMAIN e = DOMAIN Current
    BY <1>2, InRequest, NoteIs DEF HeldInv
  <1>5. \A g \in DOMAIN e : (g \in DOMAIN Current /\ e[g] = Current[g]) \/ Fresh(e[g], disk'[g])
    BY <1>4, NoteFresh DEF Fresh
  <1>6. \A g \in Files : disk'[g] = disk[g] \/ disk'[g] \in truth'[req].held[g]
    BY <1>1, <1>2, <1>3
  <1> HIDE DEF e
  <1> QED BY <1>1, <1>2, <1>3, <1>4, <1>5, <1>6, HeldWith

LEMMA FailsHeld ==
    ASSUME HeldInv, TypeInv', ToolFails
    PROVE  HeldInv'
  <1>1. UNCHANGED <<cps, running, req>> /\ tool # None
    BY DEF ToolFails, store
  <1>2. running /\ tool \in Files /\ disk \in [Files -> States]
    BY <1>1, ToolOpen DEF HeldInv, TypeInv, DiskOK
  <1>3. CASE UNCHANGED <<disk, changes, history>>
    BY <1>1, <1>3, SameAdds, HeldMarks DEF history
  <1>4. CASE ~UNCHANGED <<disk, changes, history>>
    <2>1. PICK c \in States : /\ disk' = [disk EXCEPT ![tool] = c]
                              /\ truth' = [truth EXCEPT ![req] = Silent(Held(@, tool, c), tool)]
      BY <1>4 DEF ToolFails, Change, Write
    <2>2. Adds /\ c \in truth'[req].held[tool]
      BY <1>2, <2>1, InRequest, SilentAdds DEF HeldInv
    <2>3. \A g \in Files : disk'[g] = disk[g] \/ disk'[g] \in truth'[req].held[g]
      BY <1>2, <2>1, <2>2
    <2> QED BY <1>1, <2>2, <2>3, HeldMarks
  <1> QED BY <1>3, <1>4

LEMMA ChangesHeld ==
    ASSUME HeldInv, TypeInv', NEW s \in Shells, NEW f \in Files, NEW c \in States,
           ShellChanges(s, f, c)
    PROVE  HeldInv'
  <1>1. /\ UNCHANGED <<cps, running, req>> /\ call[s].step = "running"
        /\ disk' = [disk EXCEPT ![f] = c] /\ ByRequest(f, c)
    BY DEF ShellChanges, store, Change, Write
  <1>2. running /\ disk \in [Files -> States]
    BY <1>1, ShellCall DEF HeldInv, TypeInv, DiskOK
  <1>3. Adds /\ c \in truth'[req].held[f]
    BY <1>1, <1>2, InRequest, RequestAdds DEF HeldInv
  <1>4. \A g \in Files : disk'[g] = disk[g] \/ disk'[g] \in truth'[req].held[g]
    BY <1>1, <1>2, <1>3
  <1> QED BY <1>1, <1>3, <1>4, HeldMarks

LEMMA BeforeHeld ==
    ASSUME HeldInv, TypeInv', NEW s \in Shells, ShellBefore(s)
    PROVE  HeldInv'
  <1> DEFINE e == Capture(Current, Dirty(call[s]))
  <1>1. /\ UNCHANGED <<disk, running, req, truth>> /\ call[s].step = "snapped"
        /\ cps' = cps \/ cps' = WithCurrent(e)
    BY DEF ShellBefore, history
  <1>2. running /\ Dirty(call[s]) \in SUBSET Files
    BY <1>1, ShellCall DEF HeldInv, Dirty
  <1>3. e \in Entries
    BY <1>2, InRequest, CaptureIs DEF HeldInv, TypeInv, DiskOK
  <1>4. \A g \in DOMAIN e : (g \in DOMAIN Current /\ e[g] = Current[g]) \/ Fresh(e[g], disk'[g])
    BY CaptureFresh DEF Fresh
  <1> HIDE DEF e
  <1>5. CASE cps' = cps
    BY <1>1, <1>5, SameAdds, HeldMarks
  <1>6. CASE cps' = WithCurrent(e)
    BY <1>1, <1>2, <1>3, <1>4, <1>6, SameAdds, HeldWith
  <1> QED BY <1>1, <1>5, <1>6

(* In git, what a shell call changed is remembered as it left it. *)
LEMMA AfterHeldStep ==
    ASSUME HeldInv, TypeInv', InGit, NEW s \in Shells, ShellAfter(s)
    PROVE  HeldInv'
  <1> DEFINE paths == call[s].changed \cup Moved(call[s])
             inferred == Infer(Current, call[s], paths)
             e == Note(inferred, paths, disk)
  <1>1. /\ UNCHANGED <<disk, running, req, truth>> /\ call[s].step = "ended"
        /\ cps' = IF paths = {} THEN cps ELSE Trim(WithCurrent(e))
    BY Zenon DEF ShellAfter, history
  <1>2. running /\ call[s].head \in [Files -> States] /\ paths \in SUBSET Files
    BY <1>1, ShellCall DEF CallOK, HeldInv, Moved
  <1>3. disk \in [Files -> States] /\ Current \in Entries
    BY <1>2, InRequest DEF HeldInv, TypeInv, DiskOK
  <1> HIDE DEF paths
  <1>4. inferred \in Entries
    BY <1>2, <1>3, InferIs
  <1>5. e \in Entries /\ DOMAIN e = DOMAIN inferred
    <2> HIDE DEF inferred
    <2> QED BY <1>3, <1>4, NoteIs
  <1>6. \A g \in DOMAIN e : (g \in DOMAIN Current /\ e[g] = Current[g]) \/ Fresh(e[g], disk'[g])
    <2> SUFFICES ASSUME NEW g \in DOMAIN e
                 PROVE  (g \in DOMAIN Current /\ e[g] = Current[g]) \/ Fresh(e[g], disk'[g])
      OBVIOUS
    <2>1. \/ g \in DOMAIN Current /\ inferred[g] = Current[g]
          \/ inferred[g].after = None /\ ~inferred[g].touched
      BY <1>5, InferFresh
    <2>2. /\ g \in paths => e[g].after = Read(disk[g])
          /\ g \notin paths => e[g] = inferred[g]
      <3> HIDE DEF inferred
      <3> QED BY <1>5, NoteFresh
    <2> HIDE DEF e, inferred
    <2> QED BY <1>1, <2>1, <2>2 DEF Fresh
  <1> HIDE DEF e
  <1>7. CASE paths = {}
    BY <1>1, <1>7, SameAdds, HeldMarks
  <1>8. CASE paths # {}
    BY <1>1, <1>2, <1>5, <1>6, <1>8, SameAdds, HeldWith
  <1> QED BY <1>7, <1>8

LEMMA HeldNext == ASSUME InGit PROVE HeldInv /\ [Next]_vars => HeldInv'
  <1> SUFFICES ASSUME HeldInv, [Next]_vars PROVE HeldInv'
    OBVIOUS
  <1>1. TypeInv' /\ TypeInv
    BY TypeNext DEF HeldInv
  <1>2. ASSUME UNCHANGED <<disk, cps, req, truth>>, running' => running PROVE HeldInv'
    BY <1>1, <1>2, SameAdds, HeldMarks
  <1>3. CASE Begin
    BY <1>3, BeginHeld
  <1>4. CASE EndRequest
    <2>1. UNCHANGED <<disk, cps, req, truth>> /\ running' = FALSE
      BY <1>4 DEF EndRequest, store, history
    <2> QED BY <1>2, <2>1
  <1>5. CASE ToolFails
    BY <1>1, <1>5, FailsHeld
  <1>6. CASE Redo
    BY <1>1, <1>6, RedoIs, SameAdds, HeldMarks
  <1>7. CASE \E s \in Shells : ShellSnapshots(s) \/ ShellCommits(s) \/ ShellEnds(s)
    <2>1. UNCHANGED <<disk, cps, req, truth, running>>
      BY <1>7 DEF ShellSnapshots, ShellCommits, ShellEnds, store, history
    <2> QED BY <1>2, <2>1
  <1>8. CASE \E s \in Shells : ShellBefore(s) \/ ShellAfter(s)
    BY <1>1, <1>8, BeforeHeld, AfterHeldStep
  <1>9. CASE \E force \in BOOLEAN, failed \in SUBSET Files : Undo(force, failed)
    BY <1>1, <1>9, UndoIs, SameAdds, HeldMarks
  <1>10. CASE \E c \in States : ToolWrites(c)
    BY <1>1, <1>10, WritesHeld
  <1>11. CASE \E f \in Files : ToolCaptures(f)
    BY <1>1, <1>11, CapturesHeld
  <1>12. CASE \E f \in Files : \E c \in States : UserEdits(f, c)
    BY <1>1, <1>12, UserHeld
  <1>13. CASE \E f \in Files : \E c \in States : \E s \in Shells : ShellChanges(s, f, c)
    BY <1>1, <1>13, ChangesHeld
  <1>14. CASE UNCHANGED vars
    <2>1. UNCHANGED <<disk, cps, req, truth, running>>
      BY <1>14 DEF vars, store, history
    <2> QED BY <1>2, <2>1
  <1> QED BY <1>3, <1>4, <1>5, <1>6, <1>7, <1>8, <1>9, <1>10, <1>11, <1>12, <1>13, <1>14
          DEF Next, Shell

LEMMA HeldInvariant == ASSUME InGit PROVE Spec => []HeldInv
  <1>1. Init => HeldInv
    <2> SUFFICES ASSUME Init PROVE HeldInv
      OBVIOUS
    <2>1. cps = <<>> /\ running = FALSE
      BY Zenon DEF Init
    <2>2. DOMAIN cps = {}
      BY <2>1
    <2> QED BY <2>1, <2>2, TypeInit DEF HeldInv, HeldNow, AfterHeld
  <1>2. HeldInv /\ [Next]_vars => HeldInv'
    BY HeldNext
  <1> QED BY <1>1, <1>2, PTL DEF Spec

-------------------------------------------------------------------------------
(* What an undo puts back, and what it leaves. *)
Restored(force, failed) ==
    LET entries == cps[Target].entries IN
    (Differing(entries) \ (Unreadable(entries) \cup Conflicting(entries, force))) \ failed

LEMMA UndoRestores ==
    ASSUME TypeInv, NEW force \in BOOLEAN, NEW failed, Undo(force, failed)
    PROVE  /\ Target \in DOMAIN cps /\ Restored(force, failed) \subseteq Touched(cps[Target])
           /\ \A f \in Files \ Restored(force, failed) : disk'[f] = disk[f] /\ author'[f] = author[f]
           /\ \A f \in Restored(force, failed) : f \in Files => author'[f] = 0
           /\ \/ redos' = redos
              \/ \E r : /\ redos' = Append(redos, r) /\ r.id = cps[Target].id
                        /\ DOMAIN r.files = Restored(force, failed)
  <1> DEFINE entries == cps[Target].entries
             restored == Restored(force, failed)
             record == [id |-> cps[Target].id, files |-> [f \in restored |->
                            [state |-> disk[f], expect |-> entries[f].before]]]
  <1>1. /\ disk' = [f \in Files |-> IF f \in restored THEN entries[f].before ELSE disk[f]]
        /\ author' = [f \in Files |-> IF f \in restored THEN 0 ELSE author[f]]
        /\ redos' = IF restored = {} THEN redos ELSE Append(redos, record)
    BY Zenon DEF Undo, Restored
  <1>2. Target \in DOMAIN cps
    BY UndoIs
  <1>3. restored \subseteq Touched(cps[Target])
    BY DEF Restored, Differing, Touched
  <1>4. record.id = cps[Target].id /\ DOMAIN record.files = restored
    OBVIOUS
  <1> HIDE DEF record, restored
  <1>5. redos' = redos \/ redos' = Append(redos, record)
    BY <1>1
  <1>6. \/ redos' = redos
        \/ \E r : /\ redos' = Append(redos, r) /\ r.id = cps[Target].id /\ DOMAIN r.files = restored
    BY <1>4, <1>5
  <1>7. /\ \A f \in Files \ restored : disk'[f] = disk[f] /\ author'[f] = author[f]
        /\ \A f \in restored : f \in Files => author'[f] = 0
    BY <1>1
  <1> QED BY <1>2, <1>3, <1>6, <1>7 DEF restored

(* In a git work tree, whatever the user, the tools and any number of shell *)
(* calls did, an undo that is not forced overwrites no state a file got     *)
(* after the request it undoes: checkpoints.js 23-26, 450-453.              *)
THEOREM NewerAlwaysKept ==
    ASSUME InGit
    PROVE  Spec => NewerKept
  <1> DEFINE Keeps ==
                \A failed \in SUBSET Files : Undo(FALSE, failed) =>
                   \A f \in Files : disk'[f] # disk[f] => disk[f] \in truth[cps[Target].id].held[f]
  <1>1. HeldInv => Keeps
    <2> SUFFICES ASSUME HeldInv, NEW failed \in SUBSET Files, Undo(FALSE, failed),
                        NEW f \in Files, disk'[f] # disk[f]
                 PROVE  disk[f] \in truth[cps[Target].id].held[f]
      OBVIOUS
    <2> DEFINE entry == cps[Target].entries[f]
    <2>1. Target \in DOMAIN cps /\ f \in Restored(FALSE, failed)
      BY UndoRestores DEF HeldInv
    <2>2. /\ f \in DOMAIN cps[Target].entries /\ entry.touched
          /\ Read(disk[f]) # Unknown /\ (entry.after = None \/ Read(disk[f]) = entry.after)
      BY <2>1 DEF Restored, Differing, Unreadable, Conflicting
    <2>3. /\ entry.after \in truth[cps[Target].id].held[f] \cup {Unknown, None}
          /\ entry.after # None
      BY <2>1, <2>2 DEF HeldInv, AfterHeld
    <2>4. Read(disk[f]) = disk[f]
      BY <2>2, ReadKeeps DEF HeldInv, TypeInv, DiskOK
    <2> QED BY <2>2, <2>3, <2>4
  <1>2. HeldInv /\ [Next]_vars => [Keeps]_vars
    BY <1>1
  <1> QED BY <1>2, HeldInvariant, PTL DEF Spec, NewerKept

-------------------------------------------------------------------------------
(* The files an undo of the running request will put back, and those no     *)
(* undo can know of.                                                        *)
Known == Touched(cps[Len(cps)]) \cup truth[req].silent

(* What the running request leaves of the others: it is as it was without   *)
(* the request, or will be seen by the shell call under way.                *)
OthersOld ==
    running => \A f \in Files \ Known :
        /\ Shells = {} => disk[f] \in Origin(f)
        /\ \A s \in Shells : Pending(f, call[s])

(* What an earlier request was the last to change and does not know of.     *)
LeftOld ==
    \A i \in DOMAIN cps : \A f \in Files \ (Touched(cps[i]) \cup truth[cps[i].id].silent) :
        author[f] = cps[i].id /\ ~(running /\ cps[i].id = req) =>
            disk[f] \in truth[cps[i].id].origin[f]

Ordered == \A i, j \in DOMAIN cps : i < j => cps[i].id < cps[j].id

(* A redo makes a file its request's again: one the request touched. *)
RedosTouched ==
    /\ running => redos = <<>>
    /\ \A k \in DOMAIN redos :
          /\ redos[k].id \in 0..req
          /\ \A i \in DOMAIN cps :
                cps[i].id = redos[k].id => DOMAIN redos[k].files \subseteq Touched(cps[i])

Authors == author \in [Files -> 0..req]

LeftInv == OldInv /\ OthersOld /\ LeftOld /\ Ordered /\ RedosTouched /\ Authors

-------------------------------------------------------------------------------
LEMMA OrderedIds ==
    ASSUME TypeInv, Ordered, NEW i \in DOMAIN cps, NEW j \in DOMAIN cps, cps[i].id = cps[j].id
    PROVE  i = j
  <1>1. DOMAIN cps = 1..Len(cps) /\ \A k \in DOMAIN cps : cps[k].id \in 1..req
    BY LenProperties DEF TypeInv, StoreOK
  <1>2. i \in Nat /\ j \in Nat /\ cps[i].id \in Nat
    BY <1>1, LenProperties DEF TypeInv, StoreOK, ControlOK
  <1> QED BY <1>2 DEF Ordered

(* Nothing happens to the files the request does not know but what it is    *)
(* not the author of.                                                       *)
LEMMA OthersKept ==
    ASSUME TypeInv, OthersOld, Grows, UNCHANGED <<running, req, call, head>>, open,
           Known \subseteq Known',
           \A f \in Files \ Known' : disk'[f] = disk[f] \/ disk'[f] \in truth'[req].origin[f]
    PROVE  OthersOld'
  <1>1. \A f \in Files : Origin(f) \subseteq Origin(f)'
    BY OpenIs, LenProperties DEF Grows, Origin, TypeInv, HistoryOK
  <1> SUFFICES ASSUME running, NEW f \in Files \ Known'
               PROVE  /\ Shells = {} => disk'[f] \in Origin(f)'
                      /\ \A s \in Shells : Pending(f, call[s])'
    BY DEF OthersOld
  <1>2. /\ Shells = {} => disk[f] \in Origin(f)
        /\ \A s \in Shells : Pending(f, call[s])
    BY DEF OthersOld
  <1>3. disk'[f] = disk[f] \/ disk'[f] \in Origin(f)'
    BY DEF Origin
  <1>4. Shells = {} => disk'[f] \in Origin(f)'
    BY <1>1, <1>2, <1>3
  <1>5. ASSUME NEW s \in Shells PROVE Pending(f, call[s])'
    <2>1. Pending(f, call[s])
      BY <1>2
    <2>2. Moved(call[s])' = Moved(call[s])
      BY DEF Moved
    <2> QED BY <1>1, <1>3, <2>1, <2>2 DEF Pending
  <1> QED BY <1>4, <1>5

(* Checkpoints lose no touched file; a file whose author or state changes   *)
(* is the running request's, the user's, or touched.                        *)
LEMMA LeftStep ==
    ASSUME LeftInv, OldInv', OthersOld', RedosTouched', Authors', Grows, Adds,
           UNCHANGED <<req, running>>,
           \E k \in Nat \ {0} : \A i \in DOMAIN cps' :
              /\ k + i - 1 \in DOMAIN cps /\ cps'[i].id = cps[k + i - 1].id
              /\ \/ running /\ cps'[i].id = req
                 \/ Touched(cps[k + i - 1]) \subseteq Touched(cps'[i]),
           \A f \in Files : \/ disk'[f] = disk[f] /\ author'[f] = author[f]
                            \/ author'[f] = 0
                            \/ running /\ author'[f] = req
                            \/ \A i \in DOMAIN cps' :
                                  cps'[i].id = author'[f] => f \in Touched(cps'[i])
    PROVE  LeftInv'
  <1>1. PICK k \in Nat \ {0} : \A i \in DOMAIN cps' :
            /\ k + i - 1 \in DOMAIN cps /\ cps'[i].id = cps[k + i - 1].id
            /\ \/ running /\ cps'[i].id = req
               \/ Touched(cps[k + i - 1]) \subseteq Touched(cps'[i])
    OBVIOUS
  <1>2. /\ DOMAIN cps' \subseteq Nat /\ \A i \in DOMAIN cps : cps[i].id \in DOMAIN truth /\ cps[i].id # 0
    <2>1. cps' \in Seq(CheckpointType)
      BY DEF OldInv, TypeInv, StoreOK
    <2>2. /\ \A i \in DOMAIN cps : cps[i].id \in 1..req
          /\ truth \in Seq(TruthType) /\ Len(truth) = req
      BY DEF LeftInv, OldInv, TypeInv, StoreOK, HistoryOK
    <2> QED BY <2>1, <2>2, LenProperties
  <1>3. Ordered'
    <2> SUFFICES ASSUME NEW i \in DOMAIN cps', NEW j \in DOMAIN cps', i < j
                 PROVE  cps'[i].id < cps'[j].id
      BY DEF Ordered
    <2>1. i \in Nat /\ j \in Nat /\ k + i - 1 < k + j - 1
      BY <1>2
    <2> QED BY <1>1, <2>1 DEF LeftInv, Ordered
  <1>4. LeftOld'
    <2> SUFFICES ASSUME NEW i \in DOMAIN cps',
                        NEW f \in Files \ (Touched(cps'[i]) \cup truth'[cps'[i].id].silent),
                        author'[f] = cps'[i].id, ~(running /\ cps'[i].id = req)
                 PROVE  disk'[f] \in truth'[cps'[i].id].origin[f]
      BY DEF LeftOld
    <2> DEFINE j == k + i - 1
    <2>1. /\ j \in DOMAIN cps /\ cps'[i].id = cps[j].id /\ cps[j].id \in DOMAIN truth
          /\ author'[f] # 0 /\ f \notin Touched(cps[j])
      BY <1>1, <1>2
    <2> HIDE DEF j
    <2>2. disk'[f] = disk[f] /\ author'[f] = author[f]
      BY <2>1
    <2>3. f \notin truth[cps[j].id].silent
      BY <2>1 DEF Adds
    <2>4. disk[f] \in truth[cps[j].id].origin[f]
      BY <2>1, <2>2, <2>3 DEF LeftInv, LeftOld
    <2> QED BY <2>1, <2>2, <2>4 DEF Grows
  <1> QED BY <1>3, <1>4 DEF LeftInv

(* The store is as it was. *)
LEMMA LeftSame ==
    ASSUME LeftInv, OldInv', OthersOld', Authors', Grows, Adds, UNCHANGED <<cps, redos, req, running>>,
           \A f \in Files : \/ disk'[f] = disk[f] /\ author'[f] = author[f]
                            \/ author'[f] = 0
                            \/ running /\ author'[f] = req
    PROVE  LeftInv'
  <1>1. \A i \in DOMAIN cps : 1 + i - 1 = i
    BY LenProperties DEF LeftInv, OldInv, TypeInv, StoreOK
  <1>2. RedosTouched'
    BY DEF LeftInv, RedosTouched
  <1>3. \E k \in Nat \ {0} : \A i \in DOMAIN cps' :
            /\ k + i - 1 \in DOMAIN cps /\ cps'[i].id = cps[k + i - 1].id
            /\ \/ running /\ cps'[i].id = req
               \/ Touched(cps[k + i - 1]) \subseteq Touched(cps'[i])
    <2> WITNESS 1 \in Nat \ {0}
    <2> QED BY <1>1
  <1>4. /\ UNCHANGED <<req, running>>
        /\ \A f \in Files : \/ disk'[f] = disk[f] /\ author'[f] = author[f]
                            \/ author'[f] = 0
                            \/ running /\ author'[f] = req
                            \/ \A i \in DOMAIN cps' :
                                  cps'[i].id = author'[f] => f \in Touched(cps'[i])
    OBVIOUS
  <1> QED BY <1>2, <1>3, <1>4, LeftStep, Zenon

(* The current checkpoint has other entries. *)
LEMMA LeftWith ==
    ASSUME LeftInv, OldInv', OthersOld', Authors', Grows, Adds, UNCHANGED <<redos, req, running>>,
           running, NEW e \in Entries, cps' \in {WithCurrent(e), Trim(WithCurrent(e))},
           \A f \in Files : \/ disk'[f] = disk[f] /\ author'[f] = author[f]
                            \/ author'[f] = req
    PROVE  LeftInv'
  <1>1. /\ TypeInv /\ open /\ cps[Len(cps)].id = req
    BY InRequest DEF LeftInv, OldInv
  <1>2. PICK k \in Nat \ {0} : \A i \in DOMAIN cps' :
            /\ k + i - 1 \in DOMAIN cps /\ cps'[i].id = cps[k + i - 1].id
            /\ cps'[i].entries = IF k + i - 1 = Len(cps) THEN e ELSE cps[k + i - 1].entries
    BY <1>1, EntriesFrom
  <1>3. \A i \in DOMAIN cps' :
            /\ k + i - 1 \in DOMAIN cps /\ cps'[i].id = cps[k + i - 1].id
            /\ \/ running /\ cps'[i].id = req
               \/ Touched(cps[k + i - 1]) \subseteq Touched(cps'[i])
    BY <1>1, <1>2 DEF Touched
  <1>4. redos' = <<>>
    BY DEF LeftInv, RedosTouched
  <1>5. RedosTouched'
    <2>1. DOMAIN redos' = {}
      BY <1>4
    <2> QED BY <1>4, <2>1 DEF RedosTouched
  <1>6. \E n \in Nat \ {0} : \A i \in DOMAIN cps' :
            /\ n + i - 1 \in DOMAIN cps /\ cps'[i].id = cps[n + i - 1].id
            /\ \/ running /\ cps'[i].id = req
               \/ Touched(cps[n + i - 1]) \subseteq Touched(cps'[i])
    BY <1>3
  <1>7. /\ UNCHANGED <<req, running>>
        /\ \A f \in Files : \/ disk'[f] = disk[f] /\ author'[f] = author[f]
                            \/ author'[f] = 0
                            \/ running /\ author'[f] = req
                            \/ \A i \in DOMAIN cps' :
                                  cps'[i].id = author'[f] => f \in Touched(cps'[i])
    OBVIOUS
  <1> QED BY <1>5, <1>6, <1>7, LeftStep, Zenon

-------------------------------------------------------------------------------
LEMMA LeftInit == Init => LeftInv
  <1> SUFFICES ASSUME Init PROVE LeftInv
    OBVIOUS
  <1>1. cps = <<>> /\ running = FALSE /\ redos = <<>> /\ req = 0 /\ author = [f \in Files |-> 0]
    BY Zenon DEF Init
  <1>2. DOMAIN cps = {} /\ DOMAIN redos = {}
    BY <1>1
  <1>3. OthersOld /\ LeftOld /\ Ordered /\ RedosTouched
    BY <1>1, <1>2 DEF OthersOld, LeftOld, Ordered, RedosTouched
  <1>4. Authors
    BY <1>1 DEF Authors
  <1> QED BY <1>3, <1>4, OldInit DEF LeftInv

LEMMA BeginLeft ==
    ASSUME LeftInv, OldInv', Begin
    PROVE  LeftInv'
  <1>1. /\ ~running /\ running' /\ req' = req + 1 /\ req \in Nat
        /\ truth'[req'] = NewTruth /\ \A r \in 1..req : truth'[r] = truth[r]
        /\ UNCHANGED <<disk, head, call, author>> /\ redos' = <<>>
        /\ DOMAIN cps' = 1..Len(cps') /\ Len(cps') \in DOMAIN cps'
        /\ cps'[Len(cps')].entries = <<>>
    BY BeginIs DEF LeftInv, OldInv
  <1>2. PICK k \in Nat \ {0} : \A i \in DOMAIN cps' :
            \/ /\ k + i - 1 \in DOMAIN cps /\ i < Len(cps')
               /\ cps'[i].id = cps[k + i - 1].id
               /\ DOMAIN cps'[i].entries \subseteq DOMAIN cps[k + i - 1].entries
               /\ Touched(cps[k + i - 1]) \subseteq DOMAIN cps'[i].entries
               /\ \A f \in DOMAIN cps'[i].entries :
                     cps'[i].entries[f] = cps[k + i - 1].entries[f]
            \/ i = Len(cps') /\ cps'[i].id = req' /\ cps'[i].entries = <<>>
    BY BeginIs DEF LeftInv, OldInv
  <1>3. \A i \in DOMAIN cps : cps[i].id \in 1..req
    BY DEF LeftInv, OldInv, TypeInv, StoreOK
  <1>4. \A f \in Files : author[f] \in 0..req
    BY DEF LeftInv, Authors
  <1>5. OthersOld'
    <2>1. \A f \in Files : disk[f] \in Origin(f)'
      BY <1>1 DEF NewTruth, Origin
    <2>2. \A s \in Shells : call[s].step = "idle"
      BY <1>1 DEF LeftInv, OldInv, TypeInv, CallsOK
    <2> QED BY <1>1, <2>1, <2>2 DEF OthersOld, Pending
  <1>6. LeftOld'
    <2> SUFFICES ASSUME NEW i \in DOMAIN cps',
                        NEW f \in Files \ (Touched(cps'[i]) \cup truth'[cps'[i].id].silent),
                        author'[f] = cps'[i].id
                 PROVE  disk'[f] \in truth'[cps'[i].id].origin[f]
      BY DEF LeftOld
    <2>1. author[f] # req'
      BY <1>1, <1>4
    <2>2. /\ k + i - 1 \in DOMAIN cps /\ cps'[i].id = cps[k + i - 1].id
          /\ Touched(cps[k + i - 1]) \subseteq Touched(cps'[i])
      <3>1. cps'[i].id # req'
        BY <1>1, <2>1
      <3>2. /\ k + i - 1 \in DOMAIN cps
            /\ cps'[i].id = cps[k + i - 1].id
            /\ Touched(cps[k + i - 1]) \subseteq DOMAIN cps'[i].entries
            /\ \A g \in DOMAIN cps'[i].entries :
                  cps'[i].entries[g] = cps[k + i - 1].entries[g]
        BY <1>2, <3>1
      <3> QED BY <3>2 DEF Touched
    <2>3. truth'[cps'[i].id] = truth[cps[k + i - 1].id]
      BY <1>1, <1>3, <2>2
    <2> QED BY <1>1, <2>2, <2>3 DEF LeftInv, LeftOld
  <1>7. Ordered'
    <2> SUFFICES ASSUME NEW i \in DOMAIN cps', NEW j \in DOMAIN cps', i < j
                 PROVE  cps'[i].id < cps'[j].id
      BY DEF Ordered
    <2>1. i \in Nat /\ j \in Nat /\ i # Len(cps')
      BY <1>1
    <2>2. k + i - 1 \in DOMAIN cps /\ cps'[i].id = cps[k + i - 1].id
      BY <1>2, <2>1
    <2>3. CASE j = Len(cps') /\ cps'[j].id = req'
      BY <1>1, <1>3, <2>2, <2>3
    <2>4. CASE k + j - 1 \in DOMAIN cps /\ cps'[j].id = cps[k + j - 1].id
      <3>1. k + i - 1 < k + j - 1
        BY <2>1
      <3> QED BY <2>2, <2>4, <3>1 DEF LeftInv, Ordered
    <2> QED BY <1>2, <2>3, <2>4
  <1>8. RedosTouched'
    <2>1. DOMAIN redos' = {}
      BY <1>1
    <2> QED BY <1>1, <2>1 DEF RedosTouched
  <1>9. Authors'
    BY <1>1 DEF LeftInv, Authors
  <1> QED BY <1>5, <1>6, <1>7, <1>8, <1>9 DEF LeftInv

(* When a request ends, what it does not know is as the others left it. *)
LEMMA EndLeft ==
    ASSUME LeftInv, OldInv', EndRequest
    PROVE  LeftInv'
  <1>1. /\ UNCHANGED <<disk, cps, redos, req, truth, author>> /\ running /\ running' = FALSE
        /\ call = [s \in Shells |-> Idle]
    BY DEF EndRequest, store, history
  <1>2. Len(cps) \in DOMAIN cps /\ cps[Len(cps)].id = req
    BY <1>1, InRequest, OpenIs DEF LeftInv, OldInv
  <1>3. \A f \in Files \ Known : disk[f] \in truth[req].origin[f]
    <2> SUFFICES ASSUME NEW f \in Files \ Known PROVE disk[f] \in Origin(f)
      BY DEF Origin
    <2>1. \A s \in Shells : Pending(f, call[s]) /\ call[s].step = "idle"
      BY <1>1, IdleIs DEF LeftInv, OthersOld
    <2>2. CASE Shells = {}
      BY <1>1, <2>2 DEF LeftInv, OthersOld
    <2>3. CASE Shells # {}
      BY <2>1, <2>3 DEF Pending
    <2> QED BY <2>2, <2>3
  <1>4. LeftOld'
    <2> SUFFICES ASSUME NEW i \in DOMAIN cps,
                        NEW f \in Files \ (Touched(cps[i]) \cup truth[cps[i].id].silent),
                        author[f] = cps[i].id
                 PROVE  disk[f] \in truth[cps[i].id].origin[f]
      BY <1>1 DEF LeftOld
    <2>1. CASE cps[i].id = req
      <3>1. i = Len(cps)
        BY <1>2, <2>1, OrderedIds DEF LeftInv, OldInv
      <3> QED BY <1>3, <2>1, <3>1 DEF Known
    <2>2. CASE cps[i].id # req
      BY <2>2 DEF LeftInv, LeftOld
    <2> QED BY <2>1, <2>2
  <1>5. OthersOld' /\ Ordered' /\ RedosTouched' /\ Authors'
    BY <1>1 DEF LeftInv, OthersOld, Ordered, RedosTouched, Authors
  <1> QED BY <1>4, <1>5 DEF LeftInv

(* Undo and redo mark checkpoints: no request runs. *)
LEMMA LeftMarks ==
    ASSUME LeftInv, OldInv', OnlyMarks, ~running, UNCHANGED <<req, running, truth>>,
           RedosTouched', Authors',
           \A f \in Files : \/ disk'[f] = disk[f] /\ author'[f] = author[f]
                            \/ author'[f] = 0
                            \/ \A i \in DOMAIN cps :
                                  cps[i].id = author'[f] => f \in Touched(cps[i])
    PROVE  LeftInv'
  <1>1. /\ DOMAIN cps' = DOMAIN cps /\ DOMAIN cps \subseteq Nat
        /\ \A i \in DOMAIN cps : cps'[i].id = cps[i].id /\ Touched(cps'[i]) = Touched(cps[i])
    BY LenProperties DEF OnlyMarks, Touched, LeftInv, OldInv, TypeInv, StoreOK
  <1>2. \A i \in DOMAIN cps : 1 + i - 1 = i
    BY <1>1
  <1>3. \E k \in Nat \ {0} : \A i \in DOMAIN cps' :
            /\ k + i - 1 \in DOMAIN cps /\ cps'[i].id = cps[k + i - 1].id
            /\ \/ running /\ cps'[i].id = req
               \/ Touched(cps[k + i - 1]) \subseteq Touched(cps'[i])
    <2> WITNESS 1 \in Nat \ {0}
    <2> QED BY <1>1, <1>2
  <1>4. \A f \in Files : \/ disk'[f] = disk[f] /\ author'[f] = author[f]
                         \/ author'[f] = 0
                         \/ running /\ author'[f] = req
                         \/ \A i \in DOMAIN cps' :
                               cps'[i].id = author'[f] => f \in Touched(cps'[i])
    BY <1>1
  <1>5. /\ Grows /\ Adds /\ OthersOld' /\ UNCHANGED <<req, running>>
    BY Unchanging, SameAdds DEF OthersOld, LeftInv, OldInv, TypeInv
  <1> QED BY <1>3, <1>4, <1>5, LeftStep, Zenon

LEMMA UndoLeft ==
    ASSUME LeftInv, OldInv', NEW force \in BOOLEAN, NEW failed, Undo(force, failed)
    PROVE  LeftInv'
  <1> DEFINE restored == Restored(force, failed)
  <1>1. ~running /\ OnlyMarks /\ UNCHANGED <<req, running, truth>>
    BY UndoIs DEF LeftInv, OldInv
  <1>2. /\ Target \in DOMAIN cps /\ restored \subseteq Touched(cps[Target])
        /\ \A f \in Files \ restored : disk'[f] = disk[f] /\ author'[f] = author[f]
        /\ \A f \in restored : f \in Files => author'[f] = 0
        /\ \/ redos' = redos
           \/ \E r : /\ redos' = Append(redos, r) /\ r.id = cps[Target].id
                     /\ DOMAIN r.files = restored
    BY UndoRestores DEF LeftInv, OldInv
  <1> HIDE DEF restored
  <1>3. \A f \in Files : \/ disk'[f] = disk[f] /\ author'[f] = author[f]
                         \/ author'[f] = 0
    BY <1>2
  <1>4. Authors'
    <2>1. author' \in [Files -> {0} \cup {author[f] : f \in Files}]
      BY DEF Undo
    <2>2. req \in Nat
      BY DEF LeftInv, OldInv, TypeInv, ControlOK
    <2> QED BY <1>1, <2>1, <2>2 DEF LeftInv, Authors
  <1>5. /\ \A i \in DOMAIN cps : cps[i].id \in 0..req
        /\ DOMAIN cps' = DOMAIN cps
        /\ \A i \in DOMAIN cps : cps'[i].id = cps[i].id /\ Touched(cps'[i]) = Touched(cps[i])
    BY <1>1 DEF OnlyMarks, Touched, LeftInv, OldInv, TypeInv, StoreOK
  <1>6. RedosTouched'
    <2>1. CASE redos' = redos
      BY <1>1, <1>5, <2>1 DEF LeftInv, RedosTouched
    <2>2. CASE redos' # redos
      <3>1. PICK r : /\ redos' = Append(redos, r) /\ r.id = cps[Target].id
                     /\ DOMAIN r.files = restored
        BY <1>2, <2>2
      <3>2. redos \in Seq(RedoType) /\ redos' \in Seq(RedoType)
        BY UndoIs DEF LeftInv, OldInv, TypeInv
      <3>3. \A k \in DOMAIN redos' : (k \in DOMAIN redos /\ redos'[k] = redos[k]) \/ redos'[k] = r
        BY <3>1, <3>2, LenProperties
      <3>4. \A i \in DOMAIN cps : cps[i].id = r.id => DOMAIN r.files \subseteq Touched(cps[i])
        BY <1>2, <3>1, OrderedIds DEF LeftInv, OldInv
      <3> SUFFICES ASSUME NEW k \in DOMAIN redos'
                   PROVE  /\ redos'[k].id \in 0..req
                          /\ \A i \in DOMAIN cps :
                                cps[i].id = redos'[k].id => DOMAIN redos'[k].files \subseteq Touched(cps[i])
        BY <1>1, <1>5 DEF RedosTouched
      <3>5. CASE k \in DOMAIN redos /\ redos'[k] = redos[k]
        BY <3>5 DEF LeftInv, RedosTouched
      <3>6. CASE redos'[k] = r
        BY <1>2, <1>5, <3>1, <3>4, <3>6
      <3> QED BY <3>3, <3>5, <3>6
    <2> QED BY <2>1, <2>2
  <1> QED BY <1>1, <1>3, <1>4, <1>6, LeftMarks

LEMMA RedoLeft ==
    ASSUME LeftInv, OldInv', Redo
    PROVE  LeftInv'
  <1> DEFINE record == redos[Len(redos)]
             ours == {f \in DOMAIN record.files : Read(disk[f]) = record.files[f].expect}
  <1>1. ~running /\ OnlyMarks /\ UNCHANGED <<req, running, truth>>
    BY RedoIs DEF LeftInv, OldInv
  <1>2. PICK failed \in SUBSET ours :
            /\ disk' = [f \in Files |-> IF f \in ours \ failed THEN record.files[f].state ELSE disk[f]]
            /\ author' = [f \in Files |-> IF f \in ours \ failed THEN record.id ELSE author[f]]
    BY Zenon DEF Redo
  <1>3. redos # <<>> /\ redos' = SubSeq(redos, 1, Len(redos) - 1) /\ redos \in Seq(RedoType)
    BY Zenon DEF Redo, LeftInv, OldInv, TypeInv
  <1>4. Len(redos) \in Nat \ {0} /\ Len(redos) \in DOMAIN redos /\ DOMAIN redos = 1..Len(redos)
    BY <1>3, LenProperties, EmptySeq
  <1>5. \A k \in DOMAIN redos' : k \in DOMAIN redos /\ redos'[k] = redos[k]
    <2>1. \A i \in 1..(Len(redos) - 1) : redos[i] \in RedoType
      BY <1>3, <1>4, ElementOfSeq
    <2>2. /\ redos' \in Seq(RedoType) /\ Len(redos') = Len(redos) - 1
          /\ \A i \in 1..(Len(redos) - 1) : redos'[i] = redos[i]
      BY <1>3, <1>4, <2>1, SubSeqProperties
    <2>3. DOMAIN redos' = 1..(Len(redos) - 1)
      BY <2>2, LenProperties
    <2> QED BY <1>4, <2>2, <2>3
  <1>6. /\ record.id \in 0..req
        /\ \A i \in DOMAIN cps : cps[i].id = record.id => ours \subseteq Touched(cps[i])
    BY <1>4 DEF LeftInv, RedosTouched
  <1> HIDE DEF record, ours
  <1>7. \A f \in Files : \/ disk'[f] = disk[f] /\ author'[f] = author[f]
                         \/ \A i \in DOMAIN cps :
                               cps[i].id = author'[f] => f \in Touched(cps[i])
    BY <1>2, <1>6
  <1>8. Authors'
    BY <1>1, <1>2, <1>6 DEF LeftInv, Authors
  <1>9. RedosTouched'
    <2>1. /\ DOMAIN cps' = DOMAIN cps
          /\ \A i \in DOMAIN cps : cps'[i].id = cps[i].id /\ Touched(cps'[i]) = Touched(cps[i])
      BY <1>1 DEF OnlyMarks, Touched
    <2> QED BY <1>1, <1>5, <2>1 DEF LeftInv, RedosTouched
  <1> QED BY <1>1, <1>7, <1>8, <1>9, LeftMarks

-------------------------------------------------------------------------------
LEMMA UserLeft ==
    ASSUME LeftInv, OldInv', NEW f \in Files, NEW c \in States, UserEdits(f, c)
    PROVE  LeftInv'
  <1>1. /\ UNCHANGED <<head, cps, redos, running, call, req>>
        /\ disk' = [disk EXCEPT ![f] = c] /\ ByUser(f, c) /\ author' = [author EXCEPT ![f] = 0]
    BY DEF UserEdits, store, Change, Write, ByUser
  <1>2. /\ Grows /\ Adds
        /\ running => c \in truth'[req].origin[f] /\ truth'[req].silent = truth[req].silent
    BY <1>1, InRequest, UserGrows, UserAdds DEF LeftInv, OldInv
  <1>3. OthersOld'
    <2>1. CASE ~running
      BY <1>1, <2>1 DEF OthersOld
    <2>2. CASE running
      <3>1. Known' = Known /\ open
        BY <1>1, <1>2, <2>2, InRequest DEF Known, LeftInv, OldInv
      <3>2. \A g \in Files : disk'[g] = disk[g] \/ disk'[g] \in truth'[req].origin[g]
        BY <1>1, <1>2, <2>2 DEF LeftInv, OldInv, TypeInv, DiskOK
      <3> QED BY <1>1, <1>2, <3>1, <3>2, OthersKept DEF LeftInv, OldInv
    <2> QED BY <2>1, <2>2
  <1>4. req \in Nat /\ disk \in [Files -> States] /\ author \in [Files -> 0..req]
    BY DEF LeftInv, OldInv, TypeInv, ControlOK, DiskOK, Authors
  <1>5. Authors' /\ \A g \in Files : \/ disk'[g] = disk[g] /\ author'[g] = author[g]
                                     \/ author'[g] = 0
    BY <1>1, <1>4 DEF Authors
  <1> QED BY <1>1, <1>2, <1>3, <1>5, LeftSame

LEMMA KnownWith ==
    ASSUME TypeInv, running, NEW e \in Entries, cps' \in {WithCurrent(e), Trim(WithCurrent(e))}
    PROVE  Known' = {f \in DOMAIN e : e[f].touched} \cup truth'[req'].silent
  <1>1. cps'[Len(cps')].entries = e
    BY InRequest, EntriesFrom
  <1> QED BY <1>1 DEF Known, Touched

LEMMA KnownIs ==
    Known = {f \in DOMAIN Current : Current[f].touched} \cup truth[req].silent
  BY DEF Known, Touched, Current

LEMMA CapturesLeft ==
    ASSUME LeftInv, OldInv', NEW f \in Files, ToolCaptures(f)
    PROVE  LeftInv'
  <1> DEFINE e == Capture(Current, {f})
  <1>1. /\ UNCHANGED <<disk, head, redos, running, call, req, truth, author>> /\ running
        /\ cps' = WithCurrent(e)
    BY DEF ToolCaptures, history
  <1>2. /\ e \in Entries /\ DOMAIN Current \subseteq DOMAIN e
        /\ \A g \in DOMAIN Current : e[g] = Current[g]
    <2>1. Current \in Entries /\ {f} \in SUBSET Files /\ disk \in [Files -> States]
      BY <1>1, InRequest DEF LeftInv, OldInv, TypeInv, DiskOK
    <2> QED BY <2>1, CaptureIs
  <1> HIDE DEF e
  <1>3. Grows /\ Adds /\ open
    BY <1>1, Unchanging, SameAdds, InRequest DEF LeftInv, OldInv, TypeInv
  <1>4. Known \subseteq Known'
    BY <1>1, <1>2, KnownIs, KnownWith DEF LeftInv, OldInv
  <1>5. OthersOld'
    BY <1>1, <1>3, <1>4, OthersKept DEF LeftInv, OldInv
  <1>6. Authors'
    BY <1>1 DEF LeftInv, Authors
  <1> QED BY <1>1, <1>2, <1>3, <1>5, <1>6, LeftWith

LEMMA WritesLeft ==
    ASSUME LeftInv, OldInv', NEW c \in States, ToolWrites(c)
    PROVE  LeftInv'
  <1> DEFINE e == Note(Current, {tool}, disk')
  <1>1. /\ UNCHANGED <<head, redos, running, call, req>> /\ tool # None /\ ByRequest(tool, c)
        /\ disk' = [disk EXCEPT ![tool] = c] /\ author' = [author EXCEPT ![tool] = req]
        /\ cps' = WithCurrent(e)
    BY DEF ToolWrites, Write, ByRequest
  <1>2. /\ running /\ open /\ tool \in Files /\ tool \in DOMAIN Current
        /\ disk \in [Files -> States] /\ disk' \in [Files -> States]
        /\ req \in Nat /\ author \in [Files -> 0..req]
    BY <1>1, ToolOpen DEF LeftInv, OldInv, ToolKnown, TypeInv, DiskOK, ControlOK, Authors
  <1>3. Grows /\ Adds /\ truth'[req].silent = truth[req].silent
    BY <1>1, <1>2, InRequest, RequestGrows, RequestAdds DEF LeftInv, OldInv
  <1>4. e \in Entries /\ DOMAIN e = DOMAIN Current
    BY <1>2, InRequest, NoteIs DEF LeftInv, OldInv
  <1>5. \A g \in DOMAIN Current : /\ g = tool => e[g].touched
                                  /\ g # tool => e[g] = Current[g]
    BY NoteFresh
  <1> HIDE DEF e
  <1>6. Known \cup {tool} \subseteq Known'
    BY <1>1, <1>2, <1>3, <1>4, <1>5, KnownIs, KnownWith DEF LeftInv, OldInv
  <1>7. OthersOld'
    <2>1. \A g \in Files \ Known' : disk'[g] = disk[g]
      BY <1>1, <1>2, <1>6
    <2> QED BY <1>1, <1>2, <1>3, <1>6, <2>1, OthersKept DEF LeftInv, OldInv
  <1>8. Authors' /\ \A g \in Files : \/ disk'[g] = disk[g] /\ author'[g] = author[g]
                                     \/ author'[g] = req
    BY <1>1, <1>2 DEF Authors
  <1> QED BY <1>1, <1>2, <1>3, <1>4, <1>7, <1>8, LeftWith

LEMMA FailsLeft ==
    ASSUME LeftInv, OldInv', ToolFails
    PROVE  LeftInv'
  <1>1. UNCHANGED <<head, cps, redos, running, call, req>> /\ tool # None
    BY DEF ToolFails, store
  <1>2. /\ running /\ open /\ tool \in Files /\ disk \in [Files -> States]
        /\ req \in Nat /\ author \in [Files -> 0..req]
    BY <1>1, ToolOpen DEF LeftInv, OldInv, TypeInv, DiskOK, ControlOK, Authors
  <1>3. CASE UNCHANGED <<disk, changes, history>>
    <2>1. UNCHANGED <<disk, truth, author>> /\ Known' = Known
      BY <1>1, <1>3 DEF history, Known
    <2>2. Grows /\ Adds /\ Authors'
      BY <1>1, <2>1, Unchanging, SameAdds DEF LeftInv, OldInv, TypeInv, Authors
    <2>3. OthersOld'
      BY <1>1, <1>2, <2>1, <2>2, OthersKept DEF LeftInv, OldInv
    <2> QED BY <1>1, <2>1, <2>2, <2>3, LeftSame
  <1>4. CASE ~UNCHANGED <<disk, changes, history>>
    <2>1. PICK c \in States : /\ disk' = [disk EXCEPT ![tool] = c]
                              /\ truth' = [truth EXCEPT ![req] = Silent(Held(@, tool, c), tool)]
                              /\ author' = [author EXCEPT ![tool] = req]
      BY <1>4 DEF ToolFails, Change, Write
    <2>2. Grows /\ Adds /\ tool \in truth'[req].silent
      BY <1>2, <2>1, InRequest, SilentGrows, SilentAdds DEF LeftInv, OldInv
    <2>3. Known \cup {tool} \subseteq Known'
      <3>1. truth[req].silent \subseteq truth'[req].silent
        BY <1>2, <2>2, InRequest, LenProperties DEF Adds, LeftInv, OldInv
      <3> QED BY <1>1, <2>2, <3>1 DEF Known
    <2>4. OthersOld'
      <3>1. \A g \in Files \ Known' : disk'[g] = disk[g]
        BY <1>2, <2>1, <2>3
      <3> QED BY <1>1, <1>2, <2>2, <2>3, <3>1, OthersKept DEF LeftInv, OldInv
    <2>5. Authors' /\ \A g \in Files : \/ disk'[g] = disk[g] /\ author'[g] = author[g]
                                       \/ running /\ author'[g] = req
      BY <1>1, <1>2, <2>1 DEF Authors
    <2> QED BY <1>1, <2>2, <2>4, <2>5, LeftSame
  <1> QED BY <1>3, <1>4

-------------------------------------------------------------------------------
(* The steps of a shell call that runs alone. *)
LEMMA AloneOthers ==
    ASSUME Alone, NEW s \in Shells, \A f \in Files \ Known' : Pending(f, call[s])'
    PROVE  OthersOld'
  <1>1. \A t \in Shells : t = s
    BY DEF Alone
  <1> QED BY <1>1 DEF OthersOld

LEMMA ShellLeft ==
    ASSUME LeftInv, NEW s \in Shells
    PROVE  /\ call[s].step # "idle" => running /\ open
           /\ running => \A f \in Files \ Known : Pending(f, call[s])
           /\ \A c : call' = [call EXCEPT ![s] = c] => call'[s] = c
           /\ TypeInv /\ disk \in [Files -> States]
           /\ req \in Nat /\ author \in [Files -> 0..req]
  <1>1. TypeInv
    BY DEF LeftInv, OldInv
  <1> QED BY <1>1, ShellCall DEF LeftInv, OthersOld, Authors, TypeInv, CallsOK, DiskOK, ControlOK

(* Nothing moves but the call. *)
LEMMA ShellStays ==
    ASSUME LeftInv, OldInv', OthersOld',
           UNCHANGED <<disk, cps, redos, running, req, truth, author>>
    PROVE  LeftInv'
  <1>1. Grows /\ Adds /\ Authors'
    BY Unchanging, SameAdds DEF LeftInv, OldInv, TypeInv, Authors
  <1> QED BY <1>1, LeftSame

LEMMA SnapshotsLeft ==
    ASSUME LeftInv, OldInv', Alone, NEW s \in Shells, ShellSnapshots(s)
    PROVE  LeftInv'
  <1> DEFINE c == Call("snapped", Snapshot, <<>>, {})
  <1>1. /\ UNCHANGED <<disk, head, cps, redos, running, req, truth, author>>
        /\ running /\ call[s].step = "idle" /\ call' = [call EXCEPT ![s] = c]
    BY DEF ShellSnapshots, store, history, Alone
  <1>2. \A f \in Files : /\ Snapshot[f] # None => Snapshot[f] = disk[f]
                         /\ Snapshot[f] = None => disk[f] = head[f]
    BY SnapshotIs, ShellLeft DEF TypeInv
  <1>3. call'[s] = c
    BY <1>1, ShellLeft
  <1>4. c.step = "snapped" /\ c.snap = Snapshot
    BY DEF Call
  <1> HIDE DEF c
  <1>5. \A f \in Files \ Known' : Pending(f, call[s])'
    <2> SUFFICES ASSUME NEW f \in Files \ Known' PROVE Pending(f, call[s])'
      OBVIOUS
    <2>1. f \notin Known /\ Origin(f)' = Origin(f)
      BY <1>1 DEF Known, Origin
    <2>2. disk[f] \in Origin(f)
      BY <1>1, <2>1, ShellLeft DEF Pending
    <2> QED BY <1>1, <1>2, <1>3, <1>4, <2>1, <2>2 DEF Pending
  <1> QED BY <1>1, <1>5, AloneOthers, ShellStays

LEMMA BeforeLeft ==
    ASSUME LeftInv, OldInv', Alone, NEW s \in Shells, ShellBefore(s)
    PROVE  LeftInv'
  <1> DEFINE c == Call("running", call[s].snap, head, {})
             e == Capture(Current, Dirty(call[s]))
  <1>1. /\ UNCHANGED <<disk, head, redos, running, req, truth, author>>
        /\ call[s].step = "snapped" /\ call' = [call EXCEPT ![s] = c]
        /\ cps' = cps \/ cps' = WithCurrent(e)
    BY DEF ShellBefore, history
  <1>2. /\ running /\ open /\ TypeInv /\ Dirty(call[s]) \in SUBSET Files
        /\ \A f \in Files \ Known : Pending(f, call[s])
        /\ disk \in [Files -> States] /\ Current \in Entries
    BY <1>1, ShellLeft, ShellCall, InRequest DEF Dirty
  <1>3. /\ e \in Entries /\ DOMAIN Current \subseteq DOMAIN e
        /\ \A f \in DOMAIN Current : e[f] = Current[f]
    BY <1>2, CaptureIs
  <1>4. call'[s] = c
    BY <1>1, ShellLeft
  <1>5. c.step = "running" /\ c.snap = call[s].snap /\ c.head = head
    BY DEF Call
  <1> HIDE DEF c, e
  <1>6. Known \subseteq Known'
    <2>1. CASE cps' = cps
      BY <1>1, <2>1 DEF Known
    <2>2. CASE cps' = WithCurrent(e)
      BY <1>1, <1>2, <1>3, <2>2, KnownIs, KnownWith
    <2> QED BY <1>1, <2>1, <2>2
  <1>7. \A f \in Files \ Known' : Pending(f, call[s])'
    <2> SUFFICES ASSUME NEW f \in Files \ Known' PROVE Pending(f, call[s])'
      OBVIOUS
    <2>1. Pending(f, call[s]) /\ Origin(f)' = Origin(f)
      BY <1>1, <1>2, <1>6 DEF Origin
    <2> QED BY <1>1, <1>4, <1>5, <2>1 DEF Pending
  <1>8. OthersOld'
    BY <1>7, AloneOthers
  <1>9. CASE cps' = cps
    BY <1>1, <1>8, <1>9, ShellStays
  <1>10. CASE cps' = WithCurrent(e)
    <2>1. Grows /\ Adds /\ Authors'
      BY <1>1, Unchanging, SameAdds DEF LeftInv, OldInv, TypeInv, Authors
    <2> QED BY <1>1, <1>2, <1>3, <1>8, <1>10, <2>1, LeftWith
  <1> QED BY <1>1, <1>9, <1>10

(* While the command runs nothing is claimed of the disk. *)
LEMMA RunningLeft ==
    ASSUME LeftInv, OldInv', Alone, NEW s \in Shells, call[s].step = "running", Grows, Adds,
           UNCHANGED <<cps, redos, running, call, req>>, Authors',
           \A f \in Files : \/ disk'[f] = disk[f] /\ author'[f] = author[f]
                            \/ author'[f] = req
    PROVE  LeftInv'
  <1>1. /\ running /\ open /\ req \in DOMAIN truth
        /\ \A f \in Files \ Known : Pending(f, call[s])
    BY ShellLeft, InRequest, LenProperties
  <1>2. Known \subseteq Known' /\ \A f \in Files : Origin(f) \subseteq Origin(f)'
    BY <1>1 DEF Known, Adds, Grows, Origin
  <1>3. \A f \in Files \ Known' : Pending(f, call[s])'
    BY <1>1, <1>2 DEF Pending
  <1>4. OthersOld'
    BY <1>3, AloneOthers
  <1> QED BY <1>1, <1>4, LeftSame

LEMMA ChangesLeft ==
    ASSUME LeftInv, OldInv', Alone, NEW s \in Shells, NEW f \in Files, NEW c \in States,
           ShellChanges(s, f, c)
    PROVE  LeftInv'
  <1>1. /\ UNCHANGED <<cps, redos, running, call, req>> /\ call[s].step = "running"
        /\ disk' = [disk EXCEPT ![f] = c] /\ ByRequest(f, c) /\ author' = [author EXCEPT ![f] = req]
    BY DEF ShellChanges, store, Change, Write, ByRequest
  <1>2. /\ running /\ TypeInv /\ disk \in [Files -> States]
        /\ req \in Nat /\ author \in [Files -> 0..req]
    BY <1>1, ShellLeft
  <1>3. Grows /\ Adds
    BY <1>1, <1>2, InRequest, RequestGrows, RequestAdds
  <1>4. Authors' /\ \A g \in Files : \/ disk'[g] = disk[g] /\ author'[g] = author[g]
                                     \/ author'[g] = req
    BY <1>1, <1>2 DEF Authors
  <1> QED BY <1>1, <1>3, <1>4, RunningLeft

LEMMA CommitsLeft ==
    ASSUME LeftInv, OldInv', Alone, NEW s \in Shells, ShellCommits(s)
    PROVE  LeftInv'
  <1>1. /\ UNCHANGED <<disk, cps, redos, running, call, req, truth, author>>
        /\ call[s].step = "running"
    BY DEF ShellCommits, store, history
  <1>2. Grows /\ Adds /\ Authors'
    BY <1>1, Unchanging, SameAdds DEF LeftInv, OldInv, TypeInv, Authors
  <1> QED BY <1>1, <1>2, RunningLeft

(* What the second snapshot does not tell was not changed. *)
LEMMA EndsLeft ==
    ASSUME LeftInv, OldInv', Alone, NEW s \in Shells, ShellEnds(s)
    PROVE  LeftInv'
  <1>1. PICK changed \in SUBSET Files :
            /\ InGit => Differs(call[s]) \subseteq changed
            /\ call' = [call EXCEPT ![s] = Call("ended", call[s].snap, call[s].head, changed)]
    BY DEF ShellEnds
  <1> DEFINE c == Call("ended", call[s].snap, call[s].head, changed)
  <1>2. /\ UNCHANGED <<disk, head, cps, redos, running, req, truth, author>>
        /\ call[s].step = "running"
    BY DEF ShellEnds, store, history
  <1>3. running /\ \A f \in Files \ Known : Pending(f, call[s])
    BY <1>2, ShellLeft
  <1>4. call'[s] = c
    BY <1>1, ShellLeft
  <1>5. c.step = "ended" /\ c.snap = call[s].snap /\ c.head = call[s].head /\ c.changed = changed
    BY DEF Call
  <1> HIDE DEF c
  <1>6. \A f \in Files : /\ Snapshot[f] # None => Snapshot[f] = disk[f]
                         /\ Snapshot[f] = None => disk[f] = head[f]
    BY SnapshotIs, ShellLeft DEF TypeInv
  <1>7. \A f \in Files \ Known' : Pending(f, call[s])'
    <2> SUFFICES ASSUME NEW f \in Files \ Known' PROVE Pending(f, call[s])'
      OBVIOUS
    <2>1. Pending(f, call[s]) /\ Origin(f)' = Origin(f)
      BY <1>2, <1>3 DEF Known, Origin
    <2>2. Moved(call[s])' = {g \in Files : c.head[g] # head[g]}
      BY <1>2, <1>4 DEF Moved
    <2>3. f \in changed \/ f \in Moved(call[s])' \/ disk[f] \in Origin(f)
      <3> SUFFICES ASSUME f \notin changed, f \notin Moved(call[s])' PROVE disk[f] \in Origin(f)
        OBVIOUS
      <3>1. Snapshot[f] = call[s].snap[f]
        BY <1>1 DEF Differs, Alone
      <3>2. call[s].head[f] = head[f]
        BY <1>5, <2>2
      <3> QED BY <1>2, <1>6, <2>1, <3>1, <3>2 DEF Pending
    <2> QED BY <1>2, <1>4, <1>5, <2>1, <2>3 DEF Pending
  <1>8. OthersOld'
    BY <1>7, AloneOthers
  <1> QED BY <1>2, <1>8, ShellStays

(* What it did tell is the request's to put back. *)
LEMMA AfterLeft ==
    ASSUME LeftInv, OldInv', Alone, NEW s \in Shells, ShellAfter(s)
    PROVE  LeftInv'
  <1> DEFINE paths == call[s].changed \cup Moved(call[s])
             inferred == Infer(Current, call[s], paths)
             e == Note(inferred, paths, disk)
  <1>1. /\ UNCHANGED <<disk, head, redos, running, req, truth, author>>
        /\ call[s].step = "ended" /\ call' = [call EXCEPT ![s] = Idle]
        /\ cps' = IF paths = {} THEN cps ELSE Trim(WithCurrent(e))
    BY Zenon DEF ShellAfter, history, Alone
  <1>2. /\ running /\ TypeInv /\ disk \in [Files -> States]
        /\ \A f \in Files \ Known : Pending(f, call[s])
    BY <1>1, ShellLeft
  <1>3. call[s].head \in [Files -> States] /\ paths \in SUBSET Files /\ Current \in Entries
    BY <1>1, <1>2, ShellCall, InRequest DEF CallOK, Moved
  <1> HIDE DEF paths
  <1>4. /\ inferred \in Entries /\ DOMAIN inferred = DOMAIN Current \cup paths
        /\ \A f \in DOMAIN Current : inferred[f] = Current[f]
    BY <1>3, InferIs
  <1> HIDE DEF inferred
  <1>5. /\ e \in Entries /\ DOMAIN e = DOMAIN inferred
        /\ \A f \in DOMAIN e : /\ f \in paths => e[f].touched
                               /\ f \notin paths => e[f] = inferred[f]
    BY <1>2, <1>4, NoteIs, NoteFresh
  <1> HIDE DEF e
  <1>6. Known \cup paths \subseteq Known'
    <2>1. CASE paths = {}
      BY <1>1, <2>1 DEF Known
    <2>2. CASE paths # {}
      <3>1. cps' \in {WithCurrent(e), Trim(WithCurrent(e))}
        BY <1>1, <2>2
      <3>2. Known' = {f \in DOMAIN e : e[f].touched} \cup truth[req].silent
        BY <1>1, <1>2, <1>5, <3>1, KnownWith
      <3>3. paths \subseteq DOMAIN e /\ DOMAIN Current \subseteq DOMAIN e
        BY <1>4, <1>5
      <3>4. \A f \in paths : f \in DOMAIN e /\ e[f].touched
        BY <1>5, <3>3, Zenon
      <3>5. \A f \in DOMAIN Current : Current[f].touched => f \in DOMAIN e /\ e[f].touched
        BY <1>4, <1>5, <3>3, Zenon
      <3>6. {f \in DOMAIN Current : Current[f].touched} \subseteq Known'
        BY <3>2, <3>5
      <3> QED BY <3>2, <3>4, <3>6, KnownIs
    <2> QED BY <2>1, <2>2
  <1>7. call'[s] = Idle
    BY <1>1, ShellLeft
  <1>8. \A f \in Files \ Known' : Pending(f, call[s])'
    <2> SUFFICES ASSUME NEW f \in Files \ Known' PROVE Pending(f, call[s])'
      OBVIOUS
    <2>1. Pending(f, call[s]) /\ f \notin paths /\ Origin(f)' = Origin(f)
      BY <1>1, <1>2, <1>6 DEF Origin
    <2>2. disk[f] \in Origin(f)
      BY <1>1, <2>1 DEF Pending, paths
    <2> QED BY <1>1, <1>7, <2>1, <2>2, IdleIs DEF Pending
  <1>9. OthersOld'
    BY <1>8, AloneOthers
  <1>10. CASE paths = {}
    BY <1>1, <1>9, <1>10, ShellStays
  <1>11. CASE paths # {}
    <2>1. Grows /\ Adds /\ Authors'
      BY <1>1, Unchanging, SameAdds DEF LeftInv, OldInv, TypeInv, Authors
    <2>2. cps' \in {WithCurrent(e), Trim(WithCurrent(e))}
      BY <1>1, <1>11
    <2> QED BY <1>1, <1>2, <1>5, <1>9, <2>1, <2>2, LeftWith
  <1> QED BY <1>10, <1>11

-------------------------------------------------------------------------------
LEMMA LeftNext == ASSUME Alone PROVE LeftInv /\ [Next]_vars => LeftInv'
  <1> SUFFICES ASSUME LeftInv, [Next]_vars PROVE LeftInv'
    OBVIOUS
  <1>1. OldInv'
    BY OldNext DEF LeftInv
  <1>2. CASE Begin
    BY <1>1, <1>2, BeginLeft
  <1>3. CASE EndRequest
    BY <1>1, <1>3, EndLeft
  <1>4. CASE ToolFails
    BY <1>1, <1>4, FailsLeft
  <1>5. CASE Redo
    BY <1>1, <1>5, RedoLeft
  <1>6. CASE \E s \in Shells : Shell(s)
    BY <1>1, <1>6, SnapshotsLeft, BeforeLeft, CommitsLeft, EndsLeft, AfterLeft DEF Shell
  <1>7. CASE \E force \in BOOLEAN, failed \in SUBSET Files : Undo(force, failed)
    BY <1>1, <1>7, UndoLeft
  <1>8. CASE \E c \in States : ToolWrites(c)
    BY <1>1, <1>8, WritesLeft
  <1>9. CASE \E f \in Files : ToolCaptures(f)
    BY <1>1, <1>9, CapturesLeft
  <1>10. CASE \E f \in Files : \E c \in States : UserEdits(f, c)
    BY <1>1, <1>10, UserLeft
  <1>11. CASE \E f \in Files : \E c \in States : \E s \in Shells : ShellChanges(s, f, c)
    BY <1>1, <1>11, ChangesLeft
  <1>12. CASE UNCHANGED vars
    <2>1. UNCHANGED <<disk, head, cps, open, redos, running, tool, call, req, truth, author>>
      BY <1>12 DEF vars, store, history
    <2>2. OthersOld'
      <3>1. Grows /\ Known' = Known
        BY <2>1, Unchanging DEF LeftInv, OldInv, TypeInv, Known
      <3>2. CASE ~running
        BY <2>1, <3>2 DEF OthersOld
      <3>3. CASE running
        BY <2>1, <3>1, <3>3, InRequest, OthersKept DEF LeftInv, OldInv
      <3> QED BY <3>2, <3>3
    <2> QED BY <1>1, <2>1, <2>2, ShellStays
  <1> QED BY <1>2, <1>3, <1>4, <1>5, <1>6, <1>7, <1>8, <1>9, <1>10, <1>11, <1>12 DEF Next

LEMMA LeftInvariant == ASSUME Alone PROVE Spec => []LeftInv
  <1>1. LeftInv /\ [Next]_vars => LeftInv'
    BY LeftNext
  <1> QED BY <1>1, LeftInit, PTL DEF Spec

(* In a git work tree, with one shell call at a time, a forced undo leaves  *)
(* no file as the request made it but those it reports, and those a tool    *)
(* changed while reporting failure: checkpoints.js 460-501.  It holds after *)
(* earlier undos, redos and failed writes, and whatever the caps dropped.   *)
THEOREM UndoAlwaysComplete ==
    ASSUME Alone
    PROVE  Spec => UndoIsComplete
  <1> DEFINE Completes ==
                \A failed \in SUBSET Files : Undo(TRUE, failed) =>
                   LET id == cps[Target].id IN
                   \A f \in Files \ (truth[id].silent \cup Reported(Target, failed)) :
                      author'[f] = id => disk'[f] \in truth[id].origin[f]
  <1>1. LeftInv => Completes
    <2> SUFFICES ASSUME LeftInv, NEW failed \in SUBSET Files, Undo(TRUE, failed),
                        NEW f \in Files \ (truth[cps[Target].id].silent \cup Reported(Target, failed)),
                        author'[f] = cps[Target].id
                 PROVE  disk'[f] \in truth[cps[Target].id].origin[f]
      OBVIOUS
    <2> DEFINE entries == cps[Target].entries
    <2>1. /\ Target \in DOMAIN cps /\ ~running /\ TypeInv
          /\ \A g \in Files \ Restored(TRUE, failed) : disk'[g] = disk[g] /\ author'[g] = author[g]
          /\ \A g \in Restored(TRUE, failed) : g \in Files => author'[g] = 0
      BY UndoIs, UndoRestores DEF LeftInv, OldInv
    <2>2. cps[Target].id # 0
      BY <2>1 DEF TypeInv, StoreOK
    <2>3. f \notin Restored(TRUE, failed) /\ disk'[f] = disk[f] /\ author[f] = cps[Target].id
      BY <2>1, <2>2
    <2>4. CASE f \notin Touched(cps[Target])
      BY <2>1, <2>3, <2>4 DEF LeftInv, LeftOld
    <2>5. CASE f \in Touched(cps[Target])
      <3>1. /\ f \in DOMAIN entries /\ entries[f].touched /\ entries[f].before # Unknown
            /\ f \notin Unreadable(entries) /\ f \notin failed
        BY <2>5 DEF Reported, Touched
      <3>2. f \notin Conflicting(entries, TRUE)
        BY DEF Conflicting
      <3>3. entries[f].before = Read(disk[f])
        BY <2>3, <3>1, <3>2 DEF Restored, Differing
      <3>4. Read(disk[f]) = disk[f]
        BY <2>1, <3>1, <3>3, ReadKeeps DEF TypeInv, DiskOK
      <3> QED BY <2>1, <2>3, <3>1, <3>3, <3>4 DEF LeftInv, OldInv, EntriesOld
    <2> QED BY <2>4, <2>5
  <1>2. LeftInv /\ [Next]_vars => [Completes]_vars
    BY <1>1
  <1> QED BY <1>2, LeftInvariant, PTL DEF Spec, UndoIsComplete
===============================================================================
