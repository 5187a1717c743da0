----------------------------- MODULE Checkpoints -----------------------------
(***************************************************************************)
(* /undo and /redo: CheckpointStore of src/src/agents/checkpoints.js, with *)
(* the tools of agents/index.js (3255-3331) that feed it, the snapshots of *)
(* workspace-changes.js, and a user who edits files on their own.          *)
(*                                                                         *)
(* A checkpoint keeps, for each file of a request, the state it was in     *)
(* before the first change.  A file tool names its file and is captured    *)
(* before it writes.  A shell command names nothing: what git reports as   *)
(* dirty is copied before it runs, and what it changed besides was clean,  *)
(* so its old state is HEAD's.  File tools run alone; shell calls of one   *)
(* batch run together (toolBatchExecutionGroups).                          *)
(*                                                                         *)
(* A content stands for the bytes of a file; a signature is the content    *)
(* itself.  Directories, ignored files and renames are left out.           *)
(***************************************************************************)
EXTENDS Integers, Sequences, FiniteSets

CONSTANTS
    Files, Contents,
    Large,           \* contents over maxFileBytes: never copied
    Absent,          \* the state of a file that is not there
    Unknown,         \* the state of one that could not be copied
    None,            \* no signature, no status
    Shells,          \* shell calls one wave may hold
    InGit,           \* the working directory is in a git work tree
    MaxCheckpoints, MaxCopies,   \* maxCheckpoints, maxTotalBytes
    MaxPrecapture,   \* MAX_DIRTY_PRECAPTURE
    MaxRequests, MaxChanges      \* bounds of the model

States == Contents \cup {Absent}

ASSUME CheckpointAssumption ==
    /\ Large \subseteq Contents /\ IsFiniteSet(Files)
    /\ Absent \notin Contents /\ Unknown \notin States /\ None \notin States \cup {Unknown}
    /\ InGit \in BOOLEAN
    /\ {MaxCheckpoints, MaxRequests} \subseteq Nat \ {0}
    /\ {MaxCopies, MaxPrecapture, MaxChanges} \subseteq Nat

VARIABLES
    disk, head,   \* what each file holds, and what HEAD's tree has for it
    cps,          \* checkpoints, oldest first
    open,         \* this.current is the newest of them (it is null otherwise)
    redos,        \* redoStack
    running,      \* a request is running: /undo and /redo are refused
    tool,         \* the file a file tool has captured and not yet written
    call,         \* each shell call of the wave
    req, changes, \* requests begun; changes made by anyone
    truth, author \* what really happened (history)

store == <<cps, open, redos>>
history == <<truth, author>>
vars == <<disk, head, store, running, tool, call, req, changes, history>>

Call(step, snap, at, changed) == [step |-> step, snap |-> snap, head |-> at, changed |-> changed]
Idle == Call("idle", <<>>, <<>>, {})

(* readState: a file too large to keep reads as unknown.                    *)
Read(c) == IF c \in Large THEN Unknown ELSE c

(* snapshotWorkspace: the dirty files, with a mark of what they hold.       *)
Snapshot == [f \in Files |-> IF disk[f] = head[f] THEN None ELSE disk[f]]

-------------------------------------------------------------------------------
(* The entries of a checkpoint: a function on the files it knows.           *)

Entry(before, after, touched) == [before |-> before, after |-> after, touched |-> touched]

(* Defect for the mutants: the latest state is kept. *)
Capture_Latest(entries, fs) ==
    [f \in DOMAIN entries \cup fs |->
        IF f \notin fs THEN entries[f]
        ELSE Entry(Read(disk[f]), None, f \in DOMAIN entries /\ entries[f].touched)]

(* captureBefore: the first state seen is kept. *)
Capture(entries, fs) ==
    [f \in DOMAIN entries \cup fs |->
        IF f \in DOMAIN entries THEN entries[f] ELSE Entry(Read(disk[f]), None, FALSE)]

(* noteAfter, with the files as the tool left them.                         *)
Note(entries, fs, now) ==
    [f \in DOMAIN entries |->
        IF f \in fs THEN Entry(entries[f].before, Read(now[f]), TRUE) ELSE entries[f]]

(* _setUnknown: a known entry is only marked as touched.                    *)
SetUnknown(entries, fs) ==
    [f \in DOMAIN entries \cup fs |->
        IF f \notin DOMAIN entries THEN Entry(Unknown, None, TRUE)
        ELSE IF f \in fs THEN [entries[f] EXCEPT !.touched = TRUE] ELSE entries[f]]

(* Defect for the mutants: a dirty file taken for a clean one. *)
Inferred_Clean(c, f) == Read(c.head[f])

(* What shellAfter infers for a file no capture has: dirty before the       *)
(* command and not copied, or else HEAD's when the command started.         *)
Inferred(c, f) == IF c.snap[f] # None THEN Unknown ELSE Read(c.head[f])

Infer(entries, c, fs) ==
    [f \in DOMAIN entries \cup fs |->
        IF f \in DOMAIN entries THEN entries[f] ELSE Entry(Inferred(c, f), None, FALSE)]

Touched(cp) == {f \in DOMAIN cp.entries : cp.entries[f].touched}

(* _trim: the oldest go while there are too many, or too much is copied.    *)
Copies(s) == UNION {{<<i, f>> : f \in {g \in DOMAIN s[i].entries : s[i].entries[g].before \in Contents}}
                       : i \in 1..Len(s)}

Fits(s) == /\ Len(s) <= MaxCheckpoints
           /\ Len(s) <= 1 \/ Cardinality(Copies(s)) <= MaxCopies

(* Defect for the mutants: the newest go. *)
Trim_Newest(s) == IF Len(s) <= MaxCheckpoints THEN s ELSE SubSeq(s, 1, MaxCheckpoints)

Trim(s) ==
    LET From(k) == SubSeq(s, k, Len(s))
        kept    == {k \in 1..Len(s) : Fits(From(k))} IN
    From(CHOOSE k \in kept : \A other \in kept : k <= other)

(* _closeCurrent: captures nothing came of are dropped.                     *)
CloseCurrent ==
    LET last  == cps[Len(cps)]
        older == SubSeq(cps, 1, Len(cps) - 1) IN
    IF ~open THEN cps
    ELSE IF Touched(last) = {} THEN older
    ELSE Append(older, [last EXCEPT !.entries = [f \in Touched(last) |-> last.entries[f]]])

Current == cps[Len(cps)].entries

WithCurrent(entries) == [cps EXCEPT ![Len(cps)].entries = entries]

-------------------------------------------------------------------------------
(* History.  Of each request: origin, the states a file had that are not    *)
(* the request's doing, from its beginning to its end; held: every state it *)
(* had meanwhile; silent: the files a tool changed and reported failure on. *)
(* author: the request that last changed a file, 0 when it was the user.    *)

NewTruth == [origin |-> [f \in Files |-> {disk[f]}], held |-> [f \in Files |-> {disk[f]}],
             silent |-> {}]

Held(t, f, c)     == [t EXCEPT !.held[f] = @ \cup {c}]
Original(t, f, c) == [t EXCEPT !.origin[f] = @ \cup {c}]
Silent(t, f)      == [t EXCEPT !.silent = @ \cup {f}]

ByRequest(f, c) ==
    /\ truth' = [truth EXCEPT ![req] = Held(@, f, c)]
    /\ author' = [author EXCEPT ![f] = req]

ByUser(f, c) ==
    /\ author' = [author EXCEPT ![f] = 0]
    /\ IF ~running THEN UNCHANGED truth
       ELSE truth' = [truth EXCEPT ![req] = Original(Held(@, f, c), f, c)]

Write(f, c) == /\ changes < MaxChanges /\ changes' = changes + 1
               /\ disk' = [disk EXCEPT ![f] = c]

Change(f, c) == c # disk[f] /\ Write(f, c)

-------------------------------------------------------------------------------
Init ==
    /\ disk \in [Files -> States]
    /\ IF InGit THEN head \in [Files -> States] ELSE head = disk
    /\ cps = <<>> /\ open = FALSE /\ redos = <<>>
    /\ running = FALSE /\ tool = None /\ call = [s \in Shells |-> Idle]
    /\ req = 0 /\ changes = 0 /\ truth = <<>> /\ author = [f \in Files |-> 0]

(* A new request: begin(), then the turn runs.                              *)
Begin ==
    /\ ~running /\ req < MaxRequests
    /\ req' = req + 1 /\ running' = TRUE
    /\ truth' = Append(truth, NewTruth)
    /\ cps' = Trim(Append(CloseCurrent, [id |-> req', entries |-> <<>>, undone |-> FALSE]))
    /\ open' = TRUE /\ redos' = <<>>
    /\ UNCHANGED <<disk, head, tool, call, changes, author>>

EndRequest ==
    /\ running /\ tool = None /\ call = [s \in Shells |-> Idle]
    /\ running' = FALSE
    /\ UNCHANGED <<disk, head, store, tool, call, req, changes, history>>

UserEdits(f, c) ==
    /\ Change(f, c) /\ ByUser(f, c)
    /\ UNCHANGED <<head, store, running, tool, call, req>>

-------------------------------------------------------------------------------
(* write, edit, apply_patch_structured *)

ToolCaptures(f) ==
    /\ running /\ tool = None /\ call = [s \in Shells |-> Idle]
    /\ tool' = f
    /\ cps' = WithCurrent(Capture(Current, {f}))
    /\ UNCHANGED <<disk, head, open, redos, running, call, req, changes, history>>

ToolWrites(c) ==
    /\ tool # None
    /\ Write(tool, c) /\ ByRequest(tool, c)
    /\ cps' = WithCurrent(Note(Current, {tool}, disk'))
    /\ tool' = None
    /\ UNCHANGED <<head, open, redos, running, call, req>>

(* The output is an error: nothing is noted, though a tool that timed out   *)
(* may have written.                                                        *)
ToolFails ==
    /\ tool # None /\ tool' = None
    /\ \/ UNCHANGED <<disk, changes, history>>
       \/ \E c \in States :
             /\ Change(tool, c)
             /\ truth' = [truth EXCEPT ![req] = Silent(Held(@, tool, c), tool)]
             /\ author' = [author EXCEPT ![tool] = req]
    /\ UNCHANGED <<head, store, running, call, req>>

-------------------------------------------------------------------------------
(* A shell call: snapshot, shellBefore, the command, snapshot, shellAfter.  *)

ShellSnapshots(s) ==
    /\ running /\ tool = None /\ call[s].step = "idle"
    /\ call' = [call EXCEPT ![s] = Call("snapped", IF InGit THEN Snapshot ELSE <<>>, <<>>, {})]
    /\ UNCHANGED <<disk, head, store, running, tool, req, changes, history>>

Dirty(c) == {f \in DOMAIN c.snap : c.snap[f] # None}

ShellBefore(s) ==
    /\ call[s].step = "snapped"
    /\ call' = [call EXCEPT ![s] = Call("running", @.snap, head, {})]
    /\ cps' = IF Cardinality(Dirty(call[s])) <= MaxPrecapture
              THEN WithCurrent(Capture(Current, Dirty(call[s]))) ELSE cps
    /\ UNCHANGED <<disk, head, open, redos, running, tool, req, changes, history>>

ShellChanges(s, f, c) ==
    /\ call[s].step = "running"
    /\ Change(f, c) /\ ByRequest(f, c)
    /\ UNCHANGED <<head, store, running, tool, call, req>>

ShellCommits(s) ==
    /\ InGit /\ call[s].step = "running"
    /\ head # disk /\ head' = disk
    /\ UNCHANGED <<disk, store, running, tool, call, req, changes, history>>

(* The second snapshot also tells a dirty file that was written back as it  *)
(* was.  Outside git, the targets are read out of the command's text: a     *)
(* file it changed may be missed, and one it did not change may be named.   *)
Differs(c) == {f \in Files : Snapshot[f] # c.snap[f]}
StillDirty == {f \in Files : Snapshot[f] # None}

ShellEnds(s) ==
    /\ call[s].step = "running"
    /\ \E changed \in SUBSET Files :
          /\ InGit => Differs(call[s]) \subseteq changed /\ changed \subseteq Differs(call[s]) \cup StillDirty
          /\ call' = [call EXCEPT ![s] = Call("ended", @.snap, @.head, changed)]
    /\ UNCHANGED <<disk, head, store, running, tool, req, changes, history>>

(* Defect for the mutants: HEAD's move is not noticed. *)
Moved_Never(c) == {}

(* A file a command committed is clean before and after: HEAD moving tells. *)
Moved(c) == {f \in Files : c.head[f] # head[f]}

ShellAfter(s) ==
    /\ call[s].step = "ended"
    /\ call' = [call EXCEPT ![s] = Idle]
    /\ LET paths == call[s].changed \cup Moved(call[s]) IN
       cps' = IF ~InGit THEN WithCurrent(SetUnknown(Current, call[s].changed))
              ELSE IF paths = {} THEN cps
              ELSE Trim(WithCurrent(Note(Infer(Current, call[s], paths), paths, disk)))
    /\ UNCHANGED <<disk, head, open, redos, running, tool, req, changes, history>>

-------------------------------------------------------------------------------
Undoable == {i \in 1..Len(cps) : ~cps[i].undone /\ Touched(cps[i]) # {}}

Target == CHOOSE i \in Undoable : \A other \in Undoable : other <= i

(* The files of the target an undo has to look at: not at their old state.  *)
Differing(entries) ==
    {f \in DOMAIN entries : /\ entries[f].touched /\ entries[f].before # Unknown
                            /\ entries[f].before # Read(disk[f])}

Unreadable(entries) == {f \in Differing(entries) : Read(disk[f]) = Unknown}

(* Defect for the mutants: the newer work of others is not looked for. *)
Conflicting_Never(entries, force) == {}

Conflicting(entries, force) ==
    {f \in Differing(entries) \ Unreadable(entries) :
        ~force /\ entries[f].after # None /\ Read(disk[f]) # entries[f].after}

(* What an undo of checkpoint i tells the user it could not put back.       *)
Reported(i, failed) ==
    {f \in Touched(cps[i]) : cps[i].entries[f].before = Unknown}
        \cup Unreadable(cps[i].entries) \cup failed

(* Any write may fail. *)
Undo(force, failed) ==
    /\ ~running /\ Undoable # {}
    /\ LET i == Target
           entries   == cps[i].entries
           conflicts == Conflicting(entries, force)
           writable  == Differing(entries) \ (Unreadable(entries) \cup conflicts)
           restored  == writable \ failed IN
       /\ failed \subseteq writable
       /\ disk' = [f \in Files |-> IF f \in restored THEN entries[f].before ELSE disk[f]]
       /\ author' = [f \in Files |-> IF f \in restored THEN 0 ELSE author[f]]
       /\ cps' = [cps EXCEPT ![i].undone = (conflicts = {})]
       /\ redos' = IF restored = {} THEN redos
                   ELSE Append(redos, [id |-> cps[i].id, files |-> [f \in restored |->
                            [state |-> disk[f], expect |-> entries[f].before]]])
       /\ open' = (open /\ ~(i = Len(cps) /\ conflicts = {}))
    /\ UNCHANGED <<head, running, tool, call, req, changes, truth>>

Redo ==
    /\ ~running /\ redos # <<>>
    /\ LET record == redos[Len(redos)]
           ours == {f \in DOMAIN record.files : Read(disk[f]) = record.files[f].expect} IN
       \E failed \in SUBSET ours :
          /\ disk' = [f \in Files |-> IF f \in ours \ failed THEN record.files[f].state ELSE disk[f]]
          /\ author' = [f \in Files |-> IF f \in ours \ failed THEN record.id ELSE author[f]]
    /\ cps' = [i \in DOMAIN cps |-> [cps[i] EXCEPT !.undone = @ /\ cps[i].id # redos[Len(redos)].id]]
    /\ redos' = SubSeq(redos, 1, Len(redos) - 1)
    /\ UNCHANGED <<head, open, running, tool, call, req, changes, truth>>

-------------------------------------------------------------------------------
Shell(s) == ShellSnapshots(s) \/ ShellBefore(s) \/ ShellCommits(s) \/ ShellEnds(s) \/ ShellAfter(s)

Next ==
    \/ Begin \/ EndRequest \/ ToolFails \/ Redo
    \/ \E s \in Shells : Shell(s)
    \/ \E force \in BOOLEAN, failed \in SUBSET Files : Undo(force, failed)
    \/ \E c \in States : ToolWrites(c)
    \/ \E f \in Files : \/ ToolCaptures(f)
                        \/ \E c \in States : \/ UserEdits(f, c)
                                             \/ \E s \in Shells : ShellChanges(s, f, c)

Spec == Init /\ [][Next]_vars

-------------------------------------------------------------------------------
Entries == UNION {[fs -> [before : States \cup {Unknown}, after : States \cup {Unknown, None},
                          touched : BOOLEAN]] : fs \in SUBSET Files}

TypeOK ==
    /\ disk \in [Files -> States] /\ head \in [Files -> States]
    /\ req \in 0..MaxRequests /\ changes \in 0..MaxChanges
    /\ \A i \in DOMAIN cps : /\ cps[i].id \in 1..req /\ cps[i].undone \in BOOLEAN
                             /\ cps[i].entries \in Entries
    /\ running => open
    /\ open => cps # <<>> /\ cps[Len(cps)].id = req
    /\ tool \in Files \cup {None}

(* What a checkpoint holds for a file is never the work of its own request: *)
(* it is a state the file had without it.  (checkpoints.js:4-8, 251-254)    *)
BeforeIsOld ==
    \A i \in DOMAIN cps : \A f \in Touched(cps[i]) :
        cps[i].entries[f].before \in truth[cps[i].id].origin[f] \cup {Unknown}

(* An undo puts back nothing but a state the file had without the request,  *)
(* also after earlier undos, redos and conflicts.  (460-501)                *)
UndoGivesBack ==
    [][\A force \in BOOLEAN, failed \in SUBSET Files : Undo(force, failed) =>
          \A f \in Files : disk'[f] # disk[f] => disk'[f] \in truth[cps[Target].id].origin[f]]_vars

(* A forced undo leaves no file as the request made it but those it         *)
(* reports, and those a tool changed while reporting failure.  (460-501)    *)
UndoIsComplete ==
    [][\A failed \in SUBSET Files : Undo(TRUE, failed) =>
          LET id == cps[Target].id IN
          \A f \in Files \ (truth[id].silent \cup Reported(Target, failed)) :
              author'[f] = id => disk'[f] \in truth[id].origin[f]]_vars

(* Unforced, it does not overwrite what was made of a file since the        *)
(* request finished.  (checkpoints.js:23-26, 450-453)                       *)
NewerKept ==
    [][\A failed \in SUBSET Files : Undo(FALSE, failed) =>
          \A f \in Files : disk'[f] # disk[f] => disk[f] \in truth[cps[Target].id].held[f]]_vars
===============================================================================
