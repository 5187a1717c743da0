------------------------- MODULE ShellSession_proofs -------------------------
(* Proofs about ShellSession: its types, that no shell is left to itself, and *)
(* that the wait for a frame is short, for every number of commands and       *)
(* interruptions and whatever the commands do to the shell.                   *)
EXTENDS ShellSession, SequenceTheorems, WellFoundedInduction, TLAPS

(* A shell about to print its second sentinel runs a command that has ended.  *)
Framing ==
    \A p \in Commands :
        shells[p].framedErr =>
            shells[p].stdin # <<>> /\ ran[Head(shells[p].stdin)].ended # None

TypeInv == TypeOK /\ Framing

-------------------------------------------------------------------------------
(* Whose process is the session's, and which command is being run.            *)

(* The session's process is neither signalled nor known to have ended; every  *)
(* other one that lives is signalled.                                         *)
OwnShell ==
    \A p \in Commands :
        /\ session.process = p => ~shells[p].killed /\ ~shells[p].exitTold
        /\ Alive(p) /\ ~shells[p].killed => session.process = p

(* The command being run is the last one taken, unanswered, and listens to    *)
(* the session's process as long as there is one.                             *)
OwnCommand ==
    current # None =>
        /\ current.cmd = taken
        /\ answers[current.cmd] = None
        /\ session.process \in {None, current.shell}
        /\ ~current.truncated
        /\ current.outSeen => current.grace /\ ~current.errSeen
        /\ current.grace => current.outSeen

(* What the chain has not reached has no answer.                              *)
Unanswered == \A c \in Commands : c > taken => answers[c] = None

OwnInv == OwnShell /\ OwnCommand /\ Unanswered

-------------------------------------------------------------------------------
(* Sequences. *)

LEMMA LeastNatural ==
    ASSUME NEW S \in SUBSET Nat, S # {}
    PROVE  \E x \in S : \A y \in S : x <= y
  <1>1. PICK x \in S : \A y \in S : ~ (<<y, x>> \in OpToRel(<, Nat))
    BY NatLessThanWellFounded, WFMin
  <1>2. \A y \in S : ~(y < x)
    BY <1>1 DEF OpToRel
  <1> QED BY <1>2

LEMMA ItemTypes ==
    /\ \A c \in Commands : Text(c) \in Items /\ Mark(c) \in Items
    /\ \A c \in Commands, code \in ExitCodes : Item("code", c, code) \in Items
    /\ \A i \in Items : i.of \in Commands /\ i.code \in ExitCodes \cup {0}
    /\ \A c, d \in Commands : Text(c) # Mark(d)
    /\ \A c \in Commands : Text(c).kind = "text" /\ Mark(c).kind = "mark"
                             /\ Text(c).of = c /\ Mark(c).of = c
  BY DEF Items, Item, Text, Mark

LEMMA Members ==
    ASSUME NEW s \in Seq(Items)
    PROVE  /\ ToSet(s) \in SUBSET Items
           /\ \A i \in 1..Len(s) : s[i] \in ToSet(s) /\ s[i] \in Items
           /\ \A x \in ToSet(s) : \E i \in 1..Len(s) : s[i] = x
           /\ Len(s) \in Nat
           /\ s = <<>> <=> Len(s) = 0
  <1>1. DOMAIN s = 1..Len(s) /\ \A i \in 1..Len(s) : s[i] \in Items
    BY LenProperties, ElementOfSeq
  <1>2. s = <<>> <=> Len(s) = 0
    BY EmptySeq
  <1> QED BY <1>1, <1>2, LenProperties DEF ToSet

(* Where an item is in what was read. *)
LEMMA Found ==
    ASSUME NEW s \in Seq(Items), NEW x
    PROVE  /\ Position(x, s) \in 0..Len(s)
           /\ Position(x, s) = 0 => \A i \in 1..Len(s) : s[i] # x
           /\ Position(x, s) # 0 => s[Position(x, s)] = x
  <1> DEFINE I == {i \in 1..Len(s) : s[i] = x}
  <1>1. DOMAIN s = 1..Len(s) /\ Len(s) \in Nat
    BY LenProperties
  <1>2. CASE x \in ToSet(s)
    <2>1. I # {} /\ I \in SUBSET Nat
      BY <1>1, <1>2 DEF ToSet
    <2>2. \E m \in I : \A y \in I : m <= y
      BY <2>1, LeastNatural
    <2>3. Min(I) \in I
      BY <2>2 DEF Min
    <2>4. Position(x, s) = Min(I)
      BY <1>2, <2>1 DEF Position, SelectInSeq
    <2> QED BY <1>1, <2>3, <2>4
  <1>3. CASE x \notin ToSet(s)
    <2>1. Position(x, s) = 0
      BY <1>3 DEF Position
    <2>2. \A i \in 1..Len(s) : s[i] # x
      BY <1>1, <1>3 DEF ToSet
    <2> QED BY <1>1, <2>1, <2>2
  <1> QED BY <1>2, <1>3

LEMMA Cut ==
    ASSUME NEW s \in Seq(Items), NEW k \in 0..Len(s)
    PROVE  /\ SubSeq(s, 1, k) \in Seq(Items)
           /\ Len(SubSeq(s, 1, k)) = k
           /\ \A i \in 1..k : SubSeq(s, 1, k)[i] = s[i]
           /\ Rest(s, k) \in Seq(Items)
           /\ Len(Rest(s, k)) = Len(s) - k
           /\ \A i \in 1..(Len(s) - k) : Rest(s, k)[i] = s[i + k]
  <1>1. Len(s) \in Nat /\ \A i \in 1..Len(s) : s[i] \in Items
    BY Members
  <1>2. /\ SubSeq(s, 1, k) \in Seq(Items)
        /\ Len(SubSeq(s, 1, k)) = IF 1 <= k THEN k - 1 + 1 ELSE 0
        /\ \A i \in 1..(k - 1 + 1) : SubSeq(s, 1, k)[i] = s[1 + i - 1]
    <2>1. \A i \in 1..k : s[i] \in Items
      BY <1>1
    <2> QED BY <1>1, <2>1, SubSeqProperties
  <1>3. /\ Rest(s, k) \in Seq(Items)
        /\ Len(Rest(s, k)) = IF k + 1 <= Len(s) THEN Len(s) - (k + 1) + 1 ELSE 0
        /\ \A i \in 1..(Len(s) - (k + 1) + 1) : Rest(s, k)[i] = s[k + 1 + i - 1]
    <2>1. \A i \in (k + 1)..Len(s) : s[i] \in Items
      BY <1>1
    <2>2. k + 1 \in Int /\ Len(s) \in Int
      BY <1>1
    <2> QED BY <2>1, <2>2, SubSeqProperties DEF Rest
  <1> QED BY <1>1, <1>2, <1>3

LEMMA Longer ==
    ASSUME NEW s \in Seq(Items), NEW x \in Items
    PROVE  /\ Append(s, x) \in Seq(Items)
           /\ Len(Append(s, x)) = Len(s) + 1
           /\ \A i \in 1..Len(s) : Append(s, x)[i] = s[i]
           /\ Append(s, x)[Len(s) + 1] = x
           /\ ToSet(Append(s, x)) = ToSet(s) \cup {x}
  <1>1. /\ Append(s, x) \in Seq(Items)
        /\ Len(Append(s, x)) = Len(s) + 1
        /\ \A i \in 1..Len(s) : Append(s, x)[i] = s[i]
        /\ Append(s, x)[Len(s) + 1] = x
    BY AppendProperties
  <1>2. Len(s) \in Nat
    BY Members
  <1>3. /\ DOMAIN s = 1..Len(s)
        /\ DOMAIN Append(s, x) = 1..Len(Append(s, x))
    BY <1>1, LenProperties
  <1>4. ToSet(Append(s, x)) = ToSet(s) \cup {x}
    <2>1. \A y : y \in ToSet(Append(s, x)) <=> \E i \in 1..(Len(s) + 1) : Append(s, x)[i] = y
      BY <1>1, <1>3 DEF ToSet
    <2>2. \A y : y \in ToSet(s) <=> \E i \in 1..Len(s) : s[i] = y
      BY <1>3 DEF ToSet
    <2>3. 1..(Len(s) + 1) = (1..Len(s)) \cup {Len(s) + 1}
      BY <1>2
    <2> QED BY <1>1, <2>1, <2>2, <2>3
  <1> QED BY <1>1, <1>4

LEMMA TwoLonger ==
    ASSUME NEW s \in Seq(Items), NEW x \in Items, NEW y \in Items
    PROVE  s \o <<x, y>> = Append(Append(s, x), y)
  <1>1. <<x, y>> = Append(<<x>>, y) /\ <<x>> \in Seq(Items)
    OBVIOUS
  <1> QED BY <1>1

-------------------------------------------------------------------------------
(* Types. *)

LEMMA ConstantTypes ==
    /\ MaxCommands \in Nat /\ Commands \in SUBSET Nat /\ MaxInterrupts \in Nat
    /\ Commands = 1..MaxCommands
    /\ None \notin Commands /\ None \notin ExitCodes \cup {0} /\ ExitCodes \in SUBSET Int
    /\ None \notin Running /\ None \notin Answers
  <1>1. None \notin Running /\ None \notin Answers
    BY NoneAssumption
  <1>2. /\ MaxCommands \in Nat /\ MaxInterrupts \in Nat
        /\ None \notin Int /\ ExitCodes \in SUBSET Int
    BY ShellAssumption
  <1>3. Commands = 1..MaxCommands /\ Commands \in SUBSET Nat /\ None \notin Commands
    BY <1>2 DEF Commands
  <1>4. None \notin ExitCodes \cup {0}
    <2>1. ExitCodes \cup {0} \subseteq Int
      BY <1>2
    <2> QED BY <1>2, <2>1, Zenon
  <1> QED BY <1>1, <1>2, <1>3, <1>4

LEMMA ShellTypes ==
    ASSUME NEW s \in Shells
    PROVE  /\ s.stdin \in Seq(Commands) /\ s.out \in Seq(Items) /\ s.err \in Seq(Items)
           /\ s.child \in Commands \cup {None} /\ s.code \in {-1, 0, 1}
           /\ s.killed \in BOOLEAN /\ s.framedErr \in BOOLEAN /\ s.errOpen \in BOOLEAN
           /\ s.exitTold \in BOOLEAN /\ s.errEndTold \in BOOLEAN
           /\ s.state \in {"unborn", "alive", "dead"}
           /\ [s EXCEPT !.killed = TRUE] \in Shells
           /\ [s EXCEPT !.exitTold = TRUE] \in Shells
           /\ [s EXCEPT !.errEndTold = TRUE] \in Shells
           /\ [s EXCEPT !.child = None] \in Shells
           /\ \A x \in Seq(Items) : [s EXCEPT !.out = x] \in Shells
           /\ \A x \in Seq(Items) : [s EXCEPT !.err = x] \in Shells
           /\ \A x \in Seq(Commands) : [s EXCEPT !.stdin = x] \in Shells
  <1> DEFINE I == Seq(Items)
             C == Seq(Commands)
  <1> HIDE DEF I, C
  <1>1. /\ s.stdin \in C /\ s.out \in I /\ s.err \in I
        /\ s.child \in Commands \cup {None} /\ s.code \in {-1, 0, 1}
        /\ s.killed \in BOOLEAN /\ s.framedErr \in BOOLEAN /\ s.errOpen \in BOOLEAN
        /\ s.exitTold \in BOOLEAN /\ s.errEndTold \in BOOLEAN
        /\ s.state \in {"unborn", "alive", "dead"}
    BY DEF Shells, I, C
  <1>2. /\ [s EXCEPT !.killed = TRUE] \in Shells
        /\ [s EXCEPT !.exitTold = TRUE] \in Shells
        /\ [s EXCEPT !.errEndTold = TRUE] \in Shells
        /\ [s EXCEPT !.child = None] \in Shells
    BY DEF Shells
  <1>3. /\ \A x \in I : [s EXCEPT !.out = x] \in Shells
        /\ \A x \in I : [s EXCEPT !.err = x] \in Shells
        /\ \A x \in C : [s EXCEPT !.stdin = x] \in Shells
    BY DEF Shells, I, C
  <1> QED BY <1>1, <1>2, <1>3 DEF I, C

LEMMA NewShellType == NewShell \in Shells /\ Unborn \in Shells
  <1>1. <<>> \in Seq(Items) /\ <<>> \in Seq(Commands)
    OBVIOUS
  <1> QED BY <1>1 DEF NewShell, Unborn, Shells

LEMMA RunningTypes ==
    ASSUME NEW cur \in Running
    PROVE  /\ cur.cmd \in Commands /\ cur.shell \in Commands
           /\ cur.out \in SUBSET Items /\ cur.err \in SUBSET Items
           /\ cur.framed \in SUBSET Items /\ cur.code \in ExitCodes \cup {0}
           /\ cur.outSeen \in BOOLEAN /\ cur.errSeen \in BOOLEAN
           /\ cur.grace \in BOOLEAN /\ cur.truncated \in BOOLEAN
           /\ ArmGrace(cur) \in Running
           /\ [cur EXCEPT !.errSeen = TRUE] \in Running
           /\ [cur EXCEPT !.truncated = TRUE, !.errSeen = TRUE] \in Running
           /\ \A x \in SUBSET Items : [cur EXCEPT !.out = @ \cup x] \in Running
           /\ \A x \in SUBSET Items : [cur EXCEPT !.err = @ \cup x] \in Running
           /\ \A x \in SUBSET Items : [cur EXCEPT !.err = @ \cup x, !.errSeen = TRUE] \in Running
           /\ \A x, y \in SUBSET Items, e \in BOOLEAN, k \in ExitCodes \cup {0} :
                [cur EXCEPT !.out = @ \cup x, !.outSeen = TRUE, !.errSeen = e,
                            !.framed = cur.out \cup y, !.code = k] \in Running
           /\ cur # None
  <1>1. cur # None
    BY ConstantTypes
  <1> HIDE DEF Items
  <1>2. ArmGrace(cur) \in Running
    BY DEF ArmGrace, Running
  <1> QED BY <1>1, <1>2 DEF Running

LEMMA AnswerTypes ==
    ASSUME NEW cur \in Running
    PROVE  /\ Framed(cur) \in Answers
  <1> HIDE DEF Items
  <1> QED BY RunningTypes DEF Framed, Answer, Answers

LEMMA CodeTypes ==
    ASSUME NEW chunk \in Seq(Items), NEW at \in 1..Len(chunk)
    PROVE  CodeBehind(at, chunk) \in ExitCodes \cup {0}
  <1>1. CASE at < Len(chunk)
    <2>1. at + 1 \in 1..Len(chunk)
      BY <1>1, Members
    <2> QED BY <1>1, <2>1, Members, ItemTypes DEF CodeBehind
  <1> QED BY <1>1 DEF CodeBehind

LEMMA ShownTypes ==
    ASSUME NEW chunk \in Seq(Items)
    PROVE  Shown(chunk) \in SUBSET Items
  BY Members DEF Shown

(* What the settling of a frame does. *)
LEMMA Settles ==
    ASSUME TypeOK, NEW cur \in Running, SettleIfFramed(cur)
    PROVE  /\ answers' \in [Commands -> Answers \cup {None}]
           /\ current' \in Running \cup {None}
  <1>1. /\ answers \in [Commands -> Answers \cup {None}]
        /\ cur.cmd \in Commands
    BY RunningTypes DEF TypeOK
  <1>2. CASE cur.outSeen /\ cur.errSeen
    <2>1. /\ answers' = [answers EXCEPT ![cur.cmd] = Framed(cur)]
          /\ current' = None
      BY <1>2 DEF SettleIfFramed
    <2> QED BY <1>1, <2>1, AnswerTypes
  <1>3. CASE ~(cur.outSeen /\ cur.errSeen)
    BY <1>1, <1>3 DEF SettleIfFramed
  <1> QED BY <1>2, <1>3

(* A signal changes a shell in nothing else. *)
LEMMA Signals ==
    ASSUME TypeOK
    PROVE  /\ Signalled(shells) \in [Commands -> Shells]
           /\ \A p \in Commands :
                /\ Signalled(shells)[p] =
                     IF session.process = p THEN [shells[p] EXCEPT !.killed = TRUE]
                     ELSE shells[p]
                /\ Signalled(shells)[p].framedErr = shells[p].framedErr
                /\ Signalled(shells)[p].stdin = shells[p].stdin
  <1>1. shells \in [Commands -> Shells] /\ session.process \in Commands \cup {None}
    BY DEF TypeOK
  <1>2. CASE session.process = None
    BY <1>1, <1>2, ConstantTypes DEF Signalled
  <1>3. CASE session.process # None
    <2>1. Signalled(shells) = [shells EXCEPT ![session.process].killed = TRUE]
      BY <1>3 DEF Signalled
    <2>2. \A p \in Commands : Signalled(shells)[p] =
             IF session.process = p THEN [shells[p] EXCEPT !.killed = TRUE] ELSE shells[p]
      BY <1>1, <2>1
    <2>3. \A p \in Commands :
             /\ [shells[p] EXCEPT !.killed = TRUE] \in Shells
             /\ [shells[p] EXCEPT !.killed = TRUE].framedErr = shells[p].framedErr
             /\ [shells[p] EXCEPT !.killed = TRUE].stdin = shells[p].stdin
      <3> TAKE p \in Commands
      <3>1. shells[p] \in Shells
        BY <1>1
      <3>2. [shells[p] EXCEPT !.killed = TRUE] \in Shells
        BY <3>1, ShellTypes
      <3> QED BY <3>1, <3>2 DEF Shells
    <2>4. \A p \in Commands :
             /\ Signalled(shells)[p] \in Shells
             /\ Signalled(shells)[p].framedErr = shells[p].framedErr
             /\ Signalled(shells)[p].stdin = shells[p].stdin
      BY <1>1, <2>2, <2>3
    <2>5. Signalled(shells) \in [Commands -> Shells]
      BY <1>1, <2>1, <2>2, <2>4
    <2> QED BY <2>2, <2>4, <2>5
  <1> QED BY <1>2, <1>3

(* The process a command gets, just started or not. *)
LEMMA Starting ==
    ASSUME TypeOK, NEW c \in Commands
    PROVE  /\ Started(c).process \in Commands /\ Started(c).stderrEnded \in BOOLEAN
           /\ Started(c) \in [process : Commands \cup {None}, stderrEnded : BOOLEAN]
           /\ WithStarted(c) \in [Commands -> Shells]
           /\ \A p \in Commands :
                WithStarted(c)[p] =
                  IF session.process = None /\ p = c THEN NewShell ELSE shells[p]
           /\ session.process # None => Started(c) = session
           /\ session.process = None => Started(c) = [process |-> c, stderrEnded |-> FALSE]
  <1>1. /\ shells \in [Commands -> Shells]
        /\ session \in [process : Commands \cup {None}, stderrEnded : BOOLEAN]
    BY DEF TypeOK
  <1>2. /\ Started(c).process \in Commands /\ Started(c).stderrEnded \in BOOLEAN
        /\ Started(c) \in [process : Commands \cup {None}, stderrEnded : BOOLEAN]
    BY <1>1, ConstantTypes DEF Started
  <1>3. \A p \in Commands :
           WithStarted(c)[p] =
             IF session.process = None /\ p = c THEN NewShell ELSE shells[p]
    BY <1>1 DEF WithStarted
  <1>4. WithStarted(c) \in [Commands -> Shells]
    BY <1>1, NewShellType DEF WithStarted
  <1> QED BY <1>2, <1>3, <1>4 DEF Started

LEMMA FirstIsNext ==
    ASSUME TypeOK, taken < issued
    PROVE  /\ First \in Commands /\ First = taken + 1 /\ taken + 1 \in 0..issued
           /\ taken \in Nat /\ issued \in Nat
  BY ConstantTypes DEF TypeOK, First, Commands

LEMMA InitTypes == Init => TypeInv
  <1> SUFFICES ASSUME Init PROVE TypeInv
    OBVIOUS
  <1>1. shells \in [Commands -> Shells]
    BY NewShellType DEF Init
  <1>2. Framing
    BY DEF Init, Framing, Unborn, NewShell
  <1>3. /\ issued \in 0..MaxCommands /\ taken \in 0..issued /\ aborted \subseteq Commands
        /\ interrupts \in 0..MaxInterrupts
    BY ConstantTypes DEF Init
  <1>4. session \in [process : Commands \cup {None}, stderrEnded : BOOLEAN]
    BY DEF Init
  <1>5. current \in Running \cup {None} /\ answers \in [Commands -> Answers \cup {None}]
    BY DEF Init
  <1>6. ran \in [Commands -> [out : BOOLEAN, err : BOOLEAN,
                             ended : ExitCodes \cup {None}, split : BOOLEAN]]
    BY DEF Init
  <1> QED BY <1>1, <1>2, <1>3, <1>4, <1>5, <1>6 DEF TypeInv, TypeOK

Rans == [out : BOOLEAN, err : BOOLEAN, ended : ExitCodes \cup {None}, split : BOOLEAN]

LEMMA RunTypes == TypeInv /\ Run => TypeInv'
  <1> SUFFICES ASSUME TypeInv, Run PROVE TypeInv'
    OBVIOUS
  <1>1. issued' \in 0..MaxCommands /\ taken' \in 0..issued'
    BY ConstantTypes DEF Run, TypeInv, TypeOK
  <1>2. UNCHANGED <<aborted, session, current, shells, answers, ran, interrupts>>
    BY DEF Run
  <1> QED BY <1>1, <1>2 DEF TypeInv, TypeOK, Framing

LEMMA RunBlankTypes == TypeInv /\ RunBlank => TypeInv'
  <1> SUFFICES ASSUME TypeInv, RunBlank PROVE TypeInv'
    OBVIOUS
  <1>1. TypeOK /\ taken < issued
    BY DEF TypeInv, RunBlank, Waiting
  <1>2. First \in Commands /\ taken' \in 0..issued'
    BY <1>1, FirstIsNext DEF RunBlank
  <1>3. Answer("blank", {}, {}, 0, FALSE) \in Answers
    BY DEF Answer, Answers
  <1>4. answers' \in [Commands -> Answers \cup {None}]
    BY <1>1, <1>3 DEF RunBlank, TypeOK
  <1>5. UNCHANGED <<issued, aborted, session, current, shells, ran, interrupts>>
    BY DEF RunBlank
  <1> QED BY <1>1, <1>2, <1>4, <1>5 DEF TypeInv, TypeOK, Framing

LEMMA StartAbortedTypes == TypeInv /\ StartAborted => TypeInv'
  <1> SUFFICES ASSUME TypeInv, StartAborted PROVE TypeInv'
    OBVIOUS
  <1> DEFINE q == Started(First).process
             sh == WithStarted(First)
  <1>1. TypeOK /\ taken < issued
    BY DEF TypeInv, StartAborted, Waiting
  <1>2. First \in Commands /\ taken' \in 0..issued'
    BY <1>1, FirstIsNext DEF StartAborted
  <1>3. Answer("aborted", {}, {}, 130, FALSE) \in Answers
    BY DEF Answer, Answers
  <1>4. answers' \in [Commands -> Answers \cup {None}]
    BY <1>1, <1>3 DEF StartAborted, TypeOK
  <1>5. q \in Commands /\ sh \in [Commands -> Shells]
    BY <1>1, <1>2, Starting
  <1>6. session' \in [process : Commands \cup {None}, stderrEnded : BOOLEAN]
    BY <1>1, <1>2, Starting DEF StartAborted
  <1>7. shells' = [sh EXCEPT ![q].killed = TRUE]
    BY DEF StartAborted
  <1>8. \A p \in Commands : shells'[p] = IF p = q THEN [sh[p] EXCEPT !.killed = TRUE] ELSE sh[p]
    BY <1>5, <1>7
  <1>9. shells' \in [Commands -> Shells]
    <2>1. \A p \in Commands : shells'[p] \in Shells
      BY <1>5, <1>8, ShellTypes
    <2> QED BY <1>5, <1>7, <2>1
  <1>10. \A p \in Commands : shells'[p].framedErr = sh[p].framedErr /\ shells'[p].stdin = sh[p].stdin
    BY <1>5, <1>8 DEF Shells
  <1>11. UNCHANGED <<issued, aborted, current, ran, interrupts>>
    BY DEF StartAborted
  <1>12. Framing'
    <2> SUFFICES ASSUME NEW p \in Commands, shells'[p].framedErr
                 PROVE  shells'[p].stdin # <<>> /\ ran[Head(shells'[p].stdin)].ended # None
      BY <1>11 DEF Framing
    <2>1. sh[p].framedErr
      BY <1>10
    <2>2. sh[p] = shells[p]
      BY <1>1, <1>2, <2>1, Starting DEF NewShell
    <2> QED BY <1>10, <2>1, <2>2 DEF TypeInv, Framing
  <1> QED BY <1>1, <1>2, <1>4, <1>6, <1>9, <1>11, <1>12 DEF TypeInv, TypeOK

LEMMA StartTypes == TypeInv /\ Start => TypeInv'
  <1> SUFFICES ASSUME TypeInv, Start PROVE TypeInv'
    OBVIOUS
  <1> DEFINE now == Started(First)
             sh == WithStarted(First)
  <1>1. TypeOK /\ taken < issued
    BY DEF TypeInv, Start, Waiting
  <1>2. First \in Commands /\ taken' \in 0..issued'
    BY <1>1, FirstIsNext DEF Start
  <1>3. /\ now.process \in Commands /\ now.stderrEnded \in BOOLEAN
        /\ now \in [process : Commands \cup {None}, stderrEnded : BOOLEAN]
        /\ sh \in [Commands -> Shells]
    BY <1>1, <1>2, Starting
  <1>4. session' = now
    BY DEF Start
  <1>5. current' \in Running \cup {None}
    BY <1>2, <1>3 DEF Start, Running
  <1>6. /\ shells' \in [Commands -> Shells]
        /\ \A p \in Commands : shells'[p].framedErr = sh[p].framedErr
        /\ \A p \in Commands : shells'[p].stdin \in {sh[p].stdin, Append(sh[p].stdin, First)}
    <2>1. CASE sh[now.process].state = "alive"
      <3>1. shells' = [sh EXCEPT ![now.process].stdin = Append(@, First)]
        BY <2>1 DEF Start
      <3>2. \A p \in Commands : sh[p] \in Shells
        BY <1>3
      <3>3. \A p \in Commands : sh[p].stdin \in Seq(Commands)
        BY <3>2, ShellTypes
      <3>4. \A p \in Commands : Append(sh[p].stdin, First) \in Seq(Commands)
        BY <1>2, <3>3
      <3>5. \A p \in Commands : [sh[p] EXCEPT !.stdin = Append(@, First)] \in Shells
        BY <3>2, <3>4, ShellTypes
      <3>6. \A p \in Commands : shells'[p] =
               IF p = now.process THEN [sh[p] EXCEPT !.stdin = Append(@, First)] ELSE sh[p]
        BY <1>3, <3>1
      <3>7. shells' \in [Commands -> Shells]
        BY <1>3, <3>1, <3>2, <3>5, <3>6
      <3> QED BY <3>2, <3>6, <3>7 DEF Shells
    <2>2. CASE sh[now.process].state # "alive"
      BY <1>3, <2>2 DEF Start
    <2> QED BY <2>1, <2>2
  <1>7. UNCHANGED <<issued, aborted, answers, ran, interrupts>>
    BY DEF Start
  <1>8. Framing'
    <2> SUFFICES ASSUME NEW p \in Commands, shells'[p].framedErr
                 PROVE  shells'[p].stdin # <<>> /\ ran[Head(shells'[p].stdin)].ended # None
      BY <1>7 DEF Framing
    <2>1. sh[p].framedErr
      BY <1>6
    <2>2. sh[p] = shells[p]
      BY <1>1, <1>2, <2>1, Starting DEF NewShell
    <2>3. sh[p].stdin # <<>> /\ ran[Head(sh[p].stdin)].ended # None
      BY <2>1, <2>2 DEF TypeInv, Framing
    <2>4. sh[p].stdin \in Seq(Commands)
      BY <1>3, ShellTypes
    <2>5. Append(sh[p].stdin, First) # <<>> /\ Head(Append(sh[p].stdin, First)) = Head(sh[p].stdin)
      BY <1>2, <2>3, <2>4, HeadTailAppend, AppendProperties
    <2> QED BY <1>6, <2>3, <2>5
  <1> QED BY <1>1, <1>2, <1>3, <1>4, <1>5, <1>6, <1>7, <1>8 DEF TypeInv, TypeOK

LEMMA SettleTypes ==
    ASSUME TypeOK, current # None, NEW a \in Answers, Settle(a)
    PROVE  /\ answers' \in [Commands -> Answers \cup {None}]
           /\ current' \in Running \cup {None}
  BY DEF TypeOK, Settle

LEMMA KillTypes ==
    ASSUME TypeInv, Kill
    PROVE  /\ shells' \in [Commands -> Shells]
           /\ session' \in [process : Commands \cup {None}, stderrEnded : BOOLEAN]
           /\ (ran' = ran) => Framing'
  <1>1. TypeOK /\ shells' = Signalled(shells)
    BY DEF TypeInv, Kill
  <1>2. session' \in [process : Commands \cup {None}, stderrEnded : BOOLEAN]
    BY DEF TypeInv, TypeOK, Kill
  <1> QED BY <1>1, <1>2, Signals DEF TypeInv, Framing

LEMMA PartialTypes ==
    ASSUME TypeOK, current # None,
           NEW kind \in {"died", "timedOut", "aborted"}, NEW k \in {-1, 0, 1, 124, 130}
    PROVE  Partial(kind, k) \in Answers
  <1>1. current \in Running
    BY DEF TypeOK
  <1>2. current.out \in SUBSET Items /\ current.err \in SUBSET Items
    BY <1>1, RunningTypes
  <1> HIDE DEF Items
  <1> QED BY <1>2 DEF Partial, Answer, Answers

LEMMA AbortTypes == TypeInv /\ (\E c \in Commands : Abort(c)) => TypeInv'
  <1> SUFFICES ASSUME TypeInv, NEW c \in Commands, Abort(c) PROVE TypeInv'
    OBVIOUS
  <1>1. /\ TypeOK
        /\ interrupts' \in 0..MaxInterrupts /\ aborted' \subseteq Commands
        /\ UNCHANGED <<issued, taken, ran>>
    BY ConstantTypes DEF TypeInv, TypeOK, Abort
  <1>2. CASE current # None /\ current.cmd = c
    <2>1. Kill /\ Settle(Partial("aborted", 130))
      BY <1>2 DEF Abort
    <2>2. Partial("aborted", 130) \in Answers
      BY <1>1, <1>2, PartialTypes
    <2>3. /\ answers' \in [Commands -> Answers \cup {None}]
          /\ current' \in Running \cup {None}
      BY <1>1, <1>2, <2>1, <2>2, SettleTypes
    <2> QED BY <1>1, <2>1, <2>3, KillTypes DEF TypeInv, TypeOK
  <1>3. CASE ~(current # None /\ current.cmd = c)
    <2>1. UNCHANGED <<session, current, shells, answers>>
      BY <1>3 DEF Abort
    <2> QED BY <1>1, <2>1 DEF TypeInv, TypeOK, Framing
  <1> QED BY <1>2, <1>3

LEMMA TimeoutTypes == TypeInv /\ Timeout => TypeInv'
  <1> SUFFICES ASSUME TypeInv, Timeout PROVE TypeInv'
    OBVIOUS
  <1>1. /\ TypeOK /\ current # None /\ Kill /\ Settle(Partial("timedOut", 124))
        /\ UNCHANGED <<issued, taken, aborted, ran, interrupts>>
    BY DEF TypeInv, Timeout
  <1>2. Partial("timedOut", 124) \in Answers
    BY <1>1, PartialTypes
  <1>3. /\ answers' \in [Commands -> Answers \cup {None}]
        /\ current' \in Running \cup {None}
    BY <1>1, <1>2, SettleTypes
  <1> QED BY <1>1, <1>3, KillTypes DEF TypeInv, TypeOK

LEMMA KillSessionTypes == TypeInv /\ KillSession => TypeInv'
  <1> SUFFICES ASSUME TypeInv, KillSession PROVE TypeInv'
    OBVIOUS
  <1>1. /\ TypeOK /\ Kill /\ interrupts' \in 0..MaxInterrupts
        /\ UNCHANGED <<issued, taken, aborted, current, answers, ran>>
    BY ConstantTypes DEF TypeInv, TypeOK, KillSession
  <1> QED BY <1>1, KillTypes DEF TypeInv, TypeOK

LEMMA GraceTypes == TypeInv /\ GraceFires => TypeInv'
  <1> SUFFICES ASSUME TypeInv, GraceFires PROVE TypeInv'
    OBVIOUS
  <1>1. TypeOK /\ current \in Running
    BY DEF TypeInv, TypeOK, GraceFires
  <1>2. SettleIfFramed([current EXCEPT !.truncated = TRUE, !.errSeen = TRUE])
    BY DEF GraceFires
  <1>3. [current EXCEPT !.truncated = TRUE, !.errSeen = TRUE] \in Running
    BY <1>1, RunningTypes
  <1>4. UNCHANGED <<issued, taken, aborted, session, shells, ran, interrupts>>
    BY DEF GraceFires
  <1> QED BY <1>1, <1>2, <1>3, <1>4, Settles DEF TypeInv, TypeOK, Framing

(* The next state of a shell of which one field changes. *)
LEMMA OneShell ==
    ASSUME TypeOK, NEW p \in Commands, NEW s \in Shells,
           shells' = [shells EXCEPT ![p] = s],
           Framing, ran' = ran,
           s.framedErr => shells[p].framedErr /\ s.stdin = shells[p].stdin
    PROVE  shells' \in [Commands -> Shells] /\ Framing'
  <1>1. shells \in [Commands -> Shells]
    BY DEF TypeOK
  <1>2. \A q \in Commands : shells'[q] = IF q = p THEN s ELSE shells[q]
    BY <1>1
  <1>3. shells' \in [Commands -> Shells]
    BY <1>1
  <1> QED BY <1>2, <1>3 DEF Framing

LEMMA ReadOut ==
    ASSUME TypeOK, NEW p \in Commands, ReadStdout(p)
    PROVE  \E k \in 1..Len(shells[p].out) :
             /\ shells' = [shells EXCEPT ![p] = [shells[p] EXCEPT !.out = Rest(@, k)]]
             /\ IF Listening(p) THEN OnStdout(SubSeq(shells[p].out, 1, k))
                ELSE k = Len(shells[p].out) /\ UNCHANGED <<current, answers, ran>>
             /\ SubSeq(shells[p].out, 1, k) \in Seq(Items)
             /\ [shells[p] EXCEPT !.out = Rest(@, k)] \in Shells
             /\ UNCHANGED <<issued, taken, aborted, session, interrupts>>
  <1>1. shells[p] \in Shells /\ shells \in [Commands -> Shells]
    BY DEF TypeOK
  <1>2. shells[p].out \in Seq(Items)
    BY <1>1, ShellTypes
  <1>3. Len(shells[p].out) \in Nat
    BY <1>2, Members
  <1>4. PICK k \in Chunks(p, shells[p].out) :
           /\ shells' = [shells EXCEPT ![p].out = Rest(@, k)]
           /\ IF Listening(p) THEN OnStdout(SubSeq(shells[p].out, 1, k))
              ELSE UNCHANGED <<current, answers, ran>>
           /\ UNCHANGED <<issued, taken, aborted, session, interrupts>>
    BY DEF ReadStdout
  <1>5. k \in 1..Len(shells[p].out) /\ (~Listening(p) => k = Len(shells[p].out))
    BY <1>3, <1>4 DEF Chunks
  <1>6. /\ SubSeq(shells[p].out, 1, k) \in Seq(Items) /\ Rest(shells[p].out, k) \in Seq(Items)
    BY <1>2, <1>3, <1>5, Cut
  <1>7. [shells[p] EXCEPT !.out = Rest(@, k)] \in Shells
    BY <1>1, <1>6, ShellTypes
  <1>8. shells' = [shells EXCEPT ![p] = [shells[p] EXCEPT !.out = Rest(@, k)]]
    BY <1>1, <1>4
  <1> QED BY <1>4, <1>5, <1>6, <1>7, <1>8

LEMMA ReadErr ==
    ASSUME TypeOK, NEW p \in Commands, ReadStderr(p)
    PROVE  \E k \in 1..Len(shells[p].err) :
             /\ shells' = [shells EXCEPT ![p] = [shells[p] EXCEPT !.err = Rest(@, k)]]
             /\ IF Listening(p) THEN OnStderr(SubSeq(shells[p].err, 1, k))
                ELSE k = Len(shells[p].err) /\ UNCHANGED <<current, answers>>
             /\ SubSeq(shells[p].err, 1, k) \in Seq(Items)
             /\ [shells[p] EXCEPT !.err = Rest(@, k)] \in Shells
             /\ UNCHANGED <<issued, taken, aborted, session, ran, interrupts>>
  <1>1. shells[p] \in Shells /\ shells \in [Commands -> Shells]
    BY DEF TypeOK
  <1>2. shells[p].err \in Seq(Items)
    BY <1>1, ShellTypes
  <1>3. Len(shells[p].err) \in Nat
    BY <1>2, Members
  <1>4. PICK k \in Chunks(p, shells[p].err) :
           /\ shells' = [shells EXCEPT ![p].err = Rest(@, k)]
           /\ IF Listening(p) THEN OnStderr(SubSeq(shells[p].err, 1, k))
              ELSE UNCHANGED <<current, answers>>
           /\ UNCHANGED <<issued, taken, aborted, session, ran, interrupts>>
    BY DEF ReadStderr
  <1>5. k \in 1..Len(shells[p].err) /\ (~Listening(p) => k = Len(shells[p].err))
    BY <1>3, <1>4 DEF Chunks
  <1>6. /\ SubSeq(shells[p].err, 1, k) \in Seq(Items) /\ Rest(shells[p].err, k) \in Seq(Items)
    BY <1>2, <1>3, <1>5, Cut
  <1>7. [shells[p] EXCEPT !.err = Rest(@, k)] \in Shells
    BY <1>1, <1>6, ShellTypes
  <1>8. shells' = [shells EXCEPT ![p] = [shells[p] EXCEPT !.err = Rest(@, k)]]
    BY <1>1, <1>4
  <1> QED BY <1>4, <1>5, <1>6, <1>7, <1>8

LEMMA OnStdoutTypes ==
    ASSUME TypeOK, current # None, NEW chunk \in Seq(Items), OnStdout(chunk)
    PROVE  /\ answers' \in [Commands -> Answers \cup {None}]
           /\ current' \in Running \cup {None}
           /\ ran' \in [Commands -> [out : BOOLEAN, err : BOOLEAN,
                             ended : ExitCodes \cup {None}, split : BOOLEAN]]
           /\ \A c \in Commands : ran'[c].ended = ran[c].ended
  <1>1. /\ current \in Running
        /\ ran \in [Commands -> Rans]
    BY DEF TypeOK, Rans
  <1>2. Shown(chunk) \in SUBSET Items
    BY ShownTypes
  <1> DEFINE at == Position(Mark(current.cmd), chunk)
             err == current.errSeen \/ session.stderrEnded
             code == CodeBehind(at, chunk)
             before == Shown(SubSeq(chunk, 1, at - 1))
             seen == [current EXCEPT !.out = @ \cup Shown(chunk), !.outSeen = TRUE,
                        !.errSeen = err, !.framed = current.out \cup before, !.code = code]
  <1>3. CASE at = 0 \/ current.outSeen
    <2>1. current' = [current EXCEPT !.out = @ \cup Shown(chunk)] /\ UNCHANGED <<answers, ran>>
      BY <1>3 DEF OnStdout
    <2>2. current' \in Running
      BY <1>1, <1>2, <2>1, RunningTypes
    <2> QED BY <2>1, <2>2 DEF TypeOK
  <1>4. CASE ~(at = 0 \/ current.outSeen)
    <2>1. /\ SettleIfFramed(ArmGrace(seen))
          /\ ran' = [ran EXCEPT ![current.cmd].split = at = Len(chunk)]
      BY <1>4 DEF OnStdout
    <2>2. at \in 1..Len(chunk)
      <3> HIDE DEF at
      <3>1. at \in 0..Len(chunk) /\ at # 0
        BY <1>4, Found DEF at
      <3>2. Len(chunk) \in Nat
        BY Members
      <3> QED BY <3>1, <3>2
    <2>3. code \in ExitCodes \cup {0}
      BY <2>2, CodeTypes
    <2>4. before \in SUBSET Items
      <3>1. at - 1 \in 0..Len(chunk)
        BY <2>2, Members
      <3>2. SubSeq(chunk, 1, at - 1) \in Seq(Items)
        BY <3>1, Cut
      <3> QED BY <3>2, ShownTypes
    <2>5. err \in BOOLEAN
      BY <1>1, RunningTypes DEF TypeOK
    <2>6. seen \in Running
      <3> HIDE DEF err, code, before
      <3> QED BY <1>1, <1>2, <2>3, <2>4, <2>5, RunningTypes
    <2>7. ArmGrace(seen) \in Running
      BY <2>6, RunningTypes
    <2>8. /\ answers' \in [Commands -> Answers \cup {None}]
          /\ current' \in Running \cup {None}
      <3> HIDE DEF seen
      <3> QED BY <2>1, <2>7, Settles
    <2>9. (at = Len(chunk)) \in BOOLEAN /\ current.cmd \in Commands
      BY <1>1, RunningTypes
    <2>10. ran' \in [Commands -> Rans] /\ \A c \in Commands : ran'[c].ended = ran[c].ended
      <3> HIDE DEF at, seen
      <3>1. \A b \in BOOLEAN, r \in Rans : [r EXCEPT !.split = b] \in Rans
                /\ [r EXCEPT !.split = b].ended = r.ended
        BY DEF Rans
      <3>2. \A c \in Commands : ran'[c] =
               IF c = current.cmd THEN [ran[c] EXCEPT !.split = at = Len(chunk)] ELSE ran[c]
        BY <1>1, <2>1, <2>9
      <3> QED BY <1>1, <2>1, <2>9, <3>1, <3>2
    <2> QED BY <2>8, <2>10 DEF Rans
  <1> QED BY <1>3, <1>4

LEMMA OnStderrTypes ==
    ASSUME TypeOK, current # None, NEW chunk \in Seq(Items), OnStderr(chunk)
    PROVE  /\ answers' \in [Commands -> Answers \cup {None}]
           /\ current' \in Running \cup {None}
  <1>1. current \in Running
    BY DEF TypeOK
  <1>2. Shown(chunk) \in SUBSET Items
    BY ShownTypes
  <1> DEFINE at == Position(Mark(current.cmd), chunk)
             before == Shown(SubSeq(chunk, 1, at - 1))
  <1>3. CASE at = 0 \/ current.errSeen
    <2>1. current' = ArmGrace([current EXCEPT !.err = @ \cup Shown(chunk)]) /\ UNCHANGED answers
      BY <1>3 DEF OnStderr
    <2>2. current' \in Running
      BY <1>1, <1>2, <2>1, RunningTypes
    <2> QED BY <2>1, <2>2 DEF TypeOK
  <1>4. CASE ~(at = 0 \/ current.errSeen)
    <2>1. SettleIfFramed([current EXCEPT !.err = @ \cup before, !.errSeen = TRUE])
      BY <1>4 DEF OnStderr
    <2>2. at - 1 \in 0..Len(chunk)
      <3> HIDE DEF at
      <3>1. at \in 0..Len(chunk) /\ at # 0
        BY <1>4, Found DEF at
      <3>2. Len(chunk) \in Nat
        BY Members
      <3> QED BY <3>1, <3>2
    <2>3. before \in SUBSET Items
      <3>1. SubSeq(chunk, 1, at - 1) \in Seq(Items)
        BY <2>2, Cut
      <3> QED BY <3>1, ShownTypes
    <2>4. [current EXCEPT !.err = @ \cup before, !.errSeen = TRUE] \in Running
      <3> HIDE DEF before
      <3> QED BY <1>1, <2>3, RunningTypes
    <2> QED BY <2>1, <2>4, Settles
  <1> QED BY <1>3, <1>4

LEMMA EventTypes == \A p \in Commands : TypeInv /\ Events(p) => TypeInv'
  <1> SUFFICES ASSUME NEW p \in Commands, TypeInv, Events(p) PROVE TypeInv'
    OBVIOUS
  <1>1. /\ TypeOK /\ Framing /\ shells \in [Commands -> Shells] /\ shells[p] \in Shells
        /\ ran \in [Commands -> Rans]
    BY DEF TypeInv, TypeOK, Rans
  <1>2. CASE ReadStdout(p)
    <2>1. PICK k \in 1..Len(shells[p].out) :
             /\ shells' = [shells EXCEPT ![p] = [shells[p] EXCEPT !.out = Rest(@, k)]]
             /\ IF Listening(p) THEN OnStdout(SubSeq(shells[p].out, 1, k))
                ELSE k = Len(shells[p].out) /\ UNCHANGED <<current, answers, ran>>
             /\ SubSeq(shells[p].out, 1, k) \in Seq(Items)
             /\ [shells[p] EXCEPT !.out = Rest(@, k)] \in Shells
             /\ UNCHANGED <<issued, taken, aborted, session, interrupts>>
      BY <1>1, <1>2, ReadOut
    <2>2. /\ answers' \in [Commands -> Answers \cup {None}]
          /\ current' \in Running \cup {None}
          /\ ran' \in [Commands -> Rans]
          /\ \A c \in Commands : ran'[c].ended = ran[c].ended
      <3>1. CASE Listening(p)
        BY <1>1, <2>1, <3>1, OnStdoutTypes DEF Listening, Rans
      <3>2. CASE ~Listening(p)
        BY <1>1, <2>1, <3>2 DEF TypeOK
      <3> QED BY <3>1, <3>2
    <2> DEFINE s == [shells[p] EXCEPT !.out = Rest(@, k)]
    <2>3. s.framedErr = shells[p].framedErr /\ s.stdin = shells[p].stdin
      BY <1>1 DEF Shells
    <2>4. shells' \in [Commands -> Shells] /\ Framing'
      <3> HIDE DEF s
      <3>1. shells' \in [Commands -> Shells]
        BY <1>1, <2>1 DEF s
      <3>2. \A q \in Commands : shells'[q] = IF q = p THEN s ELSE shells[q]
        BY <1>1, <2>1 DEF s
      <3>3. \A q \in Commands : shells[q].framedErr =>
               Head(shells[q].stdin) \in Commands
        <4>1. \A q \in Commands : shells[q].stdin \in Seq(Commands)
          BY <1>1, ShellTypes
        <4> QED BY <1>1, <4>1 DEF Framing
      <3> QED BY <1>1, <2>2, <2>3, <3>1, <3>2, <3>3 DEF Framing
    <2> QED BY <1>1, <2>1, <2>2, <2>4 DEF TypeInv, TypeOK, Rans
  <1>3. CASE ReadStderr(p)
    <2>1. PICK k \in 1..Len(shells[p].err) :
             /\ shells' = [shells EXCEPT ![p] = [shells[p] EXCEPT !.err = Rest(@, k)]]
             /\ IF Listening(p) THEN OnStderr(SubSeq(shells[p].err, 1, k))
                ELSE k = Len(shells[p].err) /\ UNCHANGED <<current, answers>>
             /\ SubSeq(shells[p].err, 1, k) \in Seq(Items)
             /\ [shells[p] EXCEPT !.err = Rest(@, k)] \in Shells
             /\ UNCHANGED <<issued, taken, aborted, session, ran, interrupts>>
      BY <1>1, <1>3, ReadErr
    <2>2. /\ answers' \in [Commands -> Answers \cup {None}]
          /\ current' \in Running \cup {None}
      <3>1. CASE Listening(p)
        BY <1>1, <2>1, <3>1, OnStderrTypes DEF Listening
      <3>2. CASE ~Listening(p)
        BY <1>1, <2>1, <3>2 DEF TypeOK
      <3> QED BY <3>1, <3>2
    <2> DEFINE s == [shells[p] EXCEPT !.err = Rest(@, k)]
    <2>3. s.framedErr = shells[p].framedErr /\ s.stdin = shells[p].stdin
      BY <1>1 DEF Shells
    <2>4. shells' \in [Commands -> Shells] /\ Framing'
      <3> HIDE DEF s
      <3> QED BY <1>1, <2>1, <2>3, OneShell DEF s
    <2> QED BY <1>1, <2>1, <2>2, <2>4 DEF TypeInv, TypeOK
  <1>4. CASE StderrEnds(p)
    <2> DEFINE s == [shells[p] EXCEPT !.errEndTold = TRUE]
    <2>1. /\ shells' = [shells EXCEPT ![p] = s]
          /\ s \in Shells /\ s.framedErr = shells[p].framedErr /\ s.stdin = shells[p].stdin
          /\ UNCHANGED <<issued, taken, aborted, ran, interrupts>>
      BY <1>1, <1>4, ShellTypes DEF StderrEnds, Shells
    <2>2. shells' \in [Commands -> Shells] /\ Framing'
      <3> HIDE DEF s
      <3> QED BY <1>1, <2>1, OneShell
    <2>3. /\ answers' \in [Commands -> Answers \cup {None}]
          /\ current' \in Running \cup {None}
          /\ session' \in [process : Commands \cup {None}, stderrEnded : BOOLEAN]
      <3>1. CASE Listening(p)
        <4>1. /\ session' = [session EXCEPT !.stderrEnded = @ \/ session.process = p]
              /\ SettleIfFramed([current EXCEPT !.errSeen = TRUE])
          BY <1>4, <3>1 DEF StderrEnds
        <4>2. current \in Running
          BY <1>1, <3>1 DEF TypeOK, Listening
        <4>3. [current EXCEPT !.errSeen = TRUE] \in Running
          BY <4>2, RunningTypes
        <4>4. session' \in [process : Commands \cup {None}, stderrEnded : BOOLEAN]
          BY <1>1, <4>1 DEF TypeOK
        <4> QED BY <1>1, <4>1, <4>3, <4>4, Settles
      <3>2. CASE ~Listening(p)
        BY <1>1, <1>4, <3>2 DEF StderrEnds, TypeOK
      <3> QED BY <3>1, <3>2
    <2> QED BY <1>1, <2>1, <2>2, <2>3 DEF TypeInv, TypeOK
  <1>5. CASE OnClose(p)
    <2>1. /\ current # None /\ Settle(Partial("died", shells[p].code))
          /\ UNCHANGED <<issued, taken, aborted, session, shells, ran, interrupts>>
      BY <1>5 DEF OnClose, Listening
    <2>2. Partial("died", shells[p].code) \in Answers
      <3>1. shells[p].code \in {-1, 0, 1, 124, 130}
        BY <1>1, ShellTypes
      <3> QED BY <1>1, <2>1, <3>1, PartialTypes
    <2> QED BY <1>1, <2>1, <2>2, SettleTypes DEF TypeInv, TypeOK, Framing
  <1> QED BY <1>2, <1>3, <1>4, <1>5 DEF Events

(* The command at work, and its shell. *)
LEMMA WorksOn ==
    ASSUME NEW p \in Commands, TypeInv, Works(p)
    PROVE  LET c == Head(shells[p].stdin)
           IN /\ c \in Commands /\ shells[p].stdin # <<>> /\ ~shells[p].framedErr
              /\ \E err \in BOOLEAN, s \in Shells, r \in Rans :
                   /\ shells' = [shells EXCEPT ![p] = s] /\ ran' = [ran EXCEPT ![c] = r]
                   /\ s.stdin = shells[p].stdin /\ s.framedErr = shells[p].framedErr
                   /\ s.state = shells[p].state /\ s.killed = shells[p].killed
                   /\ s.exitTold = shells[p].exitTold /\ s.errEndTold = shells[p].errEndTold
                   /\ s.errOpen => shells[p].errOpen
                   /\ s.out = Append(shells[p].out, Text(c))
                   /\ err => shells[p].errOpen
                   /\ s.err = IF err THEN Append(shells[p].err, Text(c)) ELSE shells[p].err
                   /\ r.out /\ r.err = err /\ r.ended = ran[c].ended /\ r.split = ran[c].split
  <1>1. /\ TypeOK /\ Framing /\ shells \in [Commands -> Shells] /\ shells[p] \in Shells
        /\ ran \in [Commands -> Rans]
    BY DEF TypeInv, TypeOK, Rans
  <1> DEFINE c == Head(shells[p].stdin)
  <1>2. /\ c \in Commands /\ shells[p].stdin # <<>> /\ ~shells[p].framedErr
    <2>1. shells[p].stdin \in Seq(Commands) /\ shells[p].stdin # <<>> /\ ~shells[p].framedErr
      BY <1>1, ShellTypes DEF Works, InCommand
    <2> QED BY <2>1
  <1>3. PICK closes \in {"never", "before", "after"}, leaves \in BOOLEAN :
           LET err == shells[p].errOpen /\ closes # "before"
           IN /\ shells' = [shells EXCEPT
                  ![p].out = Append(@, Text(c)),
                  ![p].err = IF err THEN Append(@, Text(c)) ELSE @,
                  ![p].errOpen = @ /\ closes = "never",
                  ![p].child = IF leaves THEN c ELSE @]
              /\ ran' = [ran EXCEPT ![c].out = TRUE, ![c].err = err]
    BY Zenon DEF Works, Runs
  <1> DEFINE err == shells[p].errOpen /\ closes # "before"
             newOut == Append(shells[p].out, Text(c))
             newErr == IF err THEN Append(shells[p].err, Text(c)) ELSE shells[p].err
             newOpen == shells[p].errOpen /\ closes = "never"
             newChild == IF leaves THEN c ELSE shells[p].child
             s == [shells[p] EXCEPT !.out = newOut, !.err = newErr, !.errOpen = newOpen,
                                    !.child = newChild]
             r == [ran[c] EXCEPT !.out = TRUE, !.err = err]
  <1>4. shells' = [shells EXCEPT ![p] = s] /\ ran' = [ran EXCEPT ![c] = r]
    BY <1>1, <1>2, <1>3
  <1>5. /\ newOut \in Seq(Items) /\ newErr \in Seq(Items) /\ newOpen \in BOOLEAN
        /\ newChild \in Commands \cup {None} /\ err \in BOOLEAN
    <2>1. Text(c) \in Items
      BY <1>2, ItemTypes
    <2>2. shells[p].out \in Seq(Items) /\ shells[p].err \in Seq(Items)
          /\ shells[p].errOpen \in BOOLEAN /\ shells[p].child \in Commands \cup {None}
      BY <1>1, ShellTypes
    <2>3. Append(shells[p].out, Text(c)) \in Seq(Items) /\ Append(shells[p].err, Text(c)) \in Seq(Items)
      BY <2>1, <2>2, Longer
    <2> QED BY <1>2, <2>2, <2>3
  <1>6. /\ s \in Shells /\ s.framedErr = shells[p].framedErr /\ s.stdin = shells[p].stdin
        /\ s.state = shells[p].state /\ s.killed = shells[p].killed
        /\ s.exitTold = shells[p].exitTold /\ s.errEndTold = shells[p].errEndTold
        /\ s.errOpen = newOpen /\ s.out = newOut /\ s.err = newErr
        /\ r \in Rans /\ r.ended = ran[c].ended /\ r.split = ran[c].split
        /\ r.out /\ r.err = err
    <2> HIDE DEF newOut, newErr, newOpen, newChild, err, c
    <2>1. /\ s \in Shells /\ s.framedErr = shells[p].framedErr /\ s.stdin = shells[p].stdin
          /\ s.state = shells[p].state /\ s.killed = shells[p].killed
          /\ s.exitTold = shells[p].exitTold /\ s.errEndTold = shells[p].errEndTold
          /\ s.errOpen = newOpen /\ s.out = newOut /\ s.err = newErr
      BY <1>1, <1>5 DEF Shells
    <2>2. /\ r \in Rans /\ r.ended = ran[c].ended /\ r.split = ran[c].split
          /\ r.out /\ r.err = err
      BY <1>1, <1>2, <1>5 DEF Rans
    <2> QED BY <2>1, <2>2
  <1>7. newOpen => shells[p].errOpen
    OBVIOUS
  <1>8. err => shells[p].errOpen
    OBVIOUS
  <1> HIDE DEF s, r
  <1> QED BY <1>2, <1>4, <1>5, <1>6, <1>7, <1>8

LEMMA WorksTypes == \A p \in Commands : TypeInv /\ Works(p) => TypeInv'
  <1> SUFFICES ASSUME NEW p \in Commands, TypeInv, Works(p) PROVE TypeInv'
    OBVIOUS
  <1> DEFINE c == Head(shells[p].stdin)
  <1>1. /\ TypeOK /\ Framing /\ shells \in [Commands -> Shells] /\ ran \in [Commands -> Rans]
    BY DEF TypeInv, TypeOK, Rans
  <1>2. c \in Commands
    BY WorksOn
  <1>3. PICK s \in Shells, r \in Rans :
           /\ shells' = [shells EXCEPT ![p] = s] /\ ran' = [ran EXCEPT ![c] = r]
           /\ s.stdin = shells[p].stdin /\ s.framedErr = shells[p].framedErr
           /\ r.ended = ran[c].ended
    BY WorksOn
  <1> HIDE DEF c
  <1>7. /\ shells' \in [Commands -> Shells] /\ ran' \in [Commands -> Rans]
        /\ \A q \in Commands : shells'[q] = IF q = p THEN s ELSE shells[q]
        /\ \A d \in Commands : ran'[d].ended = ran[d].ended
    <2>1. \A d \in Commands : ran'[d] = IF d = c THEN r ELSE ran[d]
      BY <1>1, <1>2, <1>3
    <2> QED BY <1>1, <1>2, <1>3, <2>1
  <1>8. UNCHANGED <<issued, taken, aborted, session, current, answers, interrupts>>
    BY DEF Works, Process
  <1>9. Framing'
    <2>1. \A q \in Commands : shells[q].framedErr => Head(shells[q].stdin) \in Commands
      <3>1. \A q \in Commands : shells[q].stdin \in Seq(Commands)
        BY <1>1, ShellTypes
      <3> QED BY <1>1, <3>1 DEF Framing
    <2> QED BY <1>1, <1>3, <1>7, <2>1 DEF Framing
  <1> QED BY <1>1, <1>7, <1>8, <1>9 DEF TypeInv, TypeOK, Rans

LEMMA FramesErrTypes == \A p \in Commands : TypeInv /\ FramesErr(p) => TypeInv'
  <1> SUFFICES ASSUME NEW p \in Commands, TypeInv, FramesErr(p) PROVE TypeInv'
    OBVIOUS
  <1>1. /\ TypeOK /\ Framing /\ shells \in [Commands -> Shells] /\ shells[p] \in Shells
        /\ ran \in [Commands -> Rans]
    BY DEF TypeInv, TypeOK, Rans
  <1> DEFINE c == Head(shells[p].stdin)
  <1>2. c \in Commands /\ shells[p].stdin # <<>>
    <2>1. shells[p].stdin \in Seq(Commands) /\ shells[p].stdin # <<>>
      BY <1>1, ShellTypes DEF FramesErr, InCommand
    <2> QED BY <2>1
  <1>3. PICK code \in ExitCodes : ran' = [ran EXCEPT ![c].ended = code]
    BY DEF FramesErr, Runs
  <1> DEFINE newErr == IF shells[p].errOpen THEN Append(shells[p].err, Mark(c)) ELSE shells[p].err
             s == [shells[p] EXCEPT !.framedErr = TRUE, !.err = newErr]
             r == [ran[c] EXCEPT !.ended = code]
  <1>4. shells' = [shells EXCEPT ![p] = s] /\ ran' = [ran EXCEPT ![c] = r]
    <2>1. shells' = [shells EXCEPT ![p].framedErr = TRUE,
                       ![p].err = IF shells[p].errOpen THEN Append(@, Mark(c)) ELSE @]
      BY DEF FramesErr, Runs
    <2> QED BY <1>1, <1>2, <1>3, <2>1
  <1>5. newErr \in Seq(Items)
    <2>1. Mark(c) \in Items
      BY <1>2, ItemTypes
    <2>2. shells[p].err \in Seq(Items)
      BY <1>1, ShellTypes
    <2>3. Append(shells[p].err, Mark(c)) \in Seq(Items)
      BY <2>1, <2>2, Longer
    <2> QED BY <2>2, <2>3
  <1>6. /\ s \in Shells /\ s.stdin = shells[p].stdin
        /\ r \in Rans /\ r.ended # None
    <2> HIDE DEF newErr, c
    <2>1. s \in Shells /\ s.stdin = shells[p].stdin
      BY <1>1, <1>5 DEF Shells
    <2>2. r \in Rans /\ r.ended = code
      BY <1>1, <1>2 DEF Rans
    <2> QED BY <2>1, <2>2, ConstantTypes
  <1> HIDE DEF s, r
  <1>7. /\ shells' \in [Commands -> Shells] /\ ran' \in [Commands -> Rans]
        /\ \A q \in Commands : shells'[q] = IF q = p THEN s ELSE shells[q]
        /\ \A d \in Commands : ran'[d] = IF d = c THEN r ELSE ran[d]
    <2> HIDE DEF c
    <2> QED BY <1>1, <1>2, <1>4, <1>6
  <1>8. UNCHANGED <<issued, taken, aborted, session, current, answers, interrupts>>
    BY DEF FramesErr, Process
  <1>9. Framing'
    <2>1. \A q \in Commands : shells[q].framedErr => Head(shells[q].stdin) \in Commands
      <3>1. \A q \in Commands : shells[q].stdin \in Seq(Commands)
        BY <1>1, ShellTypes
      <3> QED BY <1>1, <3>1 DEF Framing
    <2> QED BY <1>1, <1>2, <1>6, <1>7, <2>1 DEF Framing
  <1> QED BY <1>1, <1>7, <1>8, <1>9 DEF TypeInv, TypeOK, Rans

LEMMA FramesOutTypes == \A p \in Commands : TypeInv /\ FramesOut(p) => TypeInv'
  <1> SUFFICES ASSUME NEW p \in Commands, TypeInv, FramesOut(p) PROVE TypeInv'
    OBVIOUS
  <1>1. /\ TypeOK /\ Framing /\ shells \in [Commands -> Shells] /\ shells[p] \in Shells
        /\ ran \in [Commands -> Rans]
    BY DEF TypeInv, TypeOK, Rans
  <1> DEFINE c == Head(shells[p].stdin)
             code == Item("code", c, ran[c].ended)
  <1>2. /\ c \in Commands /\ shells[p].stdin # <<>> /\ shells[p].stdin \in Seq(Commands)
        /\ ran[c].ended \in ExitCodes
    <2>1. shells[p].stdin \in Seq(Commands) /\ shells[p].stdin # <<>> /\ ran[c].ended # None
      BY <1>1, ShellTypes DEF FramesOut, Framing
    <2>2. c \in Commands
      BY <2>1
    <2>3. ran[c].ended \in ExitCodes \cup {None}
      BY <1>1, <2>2 DEF Rans
    <2> QED BY <2>1, <2>2, <2>3
  <1> DEFINE newOut == shells[p].out \o <<Mark(c), code>>
             s == [shells[p] EXCEPT !.framedErr = FALSE, !.stdin = Tail(@), !.out = newOut]
  <1>3. shells' = [shells EXCEPT ![p] = s]
    <2>1. shells' = [shells EXCEPT ![p].framedErr = FALSE, ![p].stdin = Tail(@),
                       ![p].out = @ \o <<Mark(c), code>>]
      BY DEF FramesOut, Runs
    <2> QED BY <1>1, <2>1
  <1>4. newOut \in Seq(Items) /\ Tail(shells[p].stdin) \in Seq(Commands)
    <2>1. Mark(c) \in Items /\ code \in Items
      BY <1>2, ItemTypes
    <2>2. shells[p].out \in Seq(Items)
      BY <1>1, ShellTypes
    <2>3. newOut \in Seq(Items)
      BY <2>1, <2>2, Longer, TwoLonger
    <2> QED BY <1>2, <2>3
  <1>5. s \in Shells /\ ~s.framedErr
    <2> HIDE DEF newOut, c
    <2> QED BY <1>1, <1>4 DEF Shells
  <1>6. UNCHANGED <<issued, taken, aborted, session, current, answers, ran, interrupts>>
    BY DEF FramesOut, Process
  <1>7. shells' \in [Commands -> Shells] /\ Framing'
    <2> HIDE DEF s
    <2> QED BY <1>1, <1>3, <1>5, <1>6, OneShell
  <1> QED BY <1>1, <1>6, <1>7 DEF TypeInv, TypeOK

LEMMA EndTypes ==
    \A p \in Commands :
        TypeInv /\ (Dies(p) \/ ChildEnds(p) \/ KillLands(p) \/ OnExit(p)) => TypeInv'
  <1> SUFFICES ASSUME NEW p \in Commands, TypeInv,
                      Dies(p) \/ ChildEnds(p) \/ KillLands(p) \/ OnExit(p)
               PROVE  TypeInv'
    OBVIOUS
  <1>1. /\ TypeOK /\ Framing /\ shells \in [Commands -> Shells] /\ shells[p] \in Shells
        /\ <<>> \in Seq(Commands)
    BY DEF TypeInv, TypeOK
  <1>2. CASE Dies(p)
    <2> DEFINE s == [shells[p] EXCEPT !.state = "dead", !.code = 1, !.stdin = <<>>, !.framedErr = FALSE]
    <2>1. /\ shells' = [shells EXCEPT ![p] = s]
          /\ UNCHANGED <<issued, taken, aborted, session, current, answers, ran, interrupts>>
      BY <1>1, <1>2 DEF Dies, Process
    <2>2. s \in Shells /\ ~s.framedErr
      BY <1>1 DEF Shells
    <2>3. shells' \in [Commands -> Shells] /\ Framing'
      <3> HIDE DEF s
      <3> QED BY <1>1, <2>1, <2>2, OneShell
    <2> QED BY <1>1, <2>1, <2>3 DEF TypeInv, TypeOK
  <1>3. CASE ChildEnds(p)
    <2> DEFINE s == [shells[p] EXCEPT !.child = None]
    <2>1. /\ shells' = [shells EXCEPT ![p] = s]
          /\ UNCHANGED <<issued, taken, aborted, session, current, answers, ran, interrupts>>
      BY <1>1, <1>3 DEF ChildEnds
    <2>2. s \in Shells /\ s.framedErr = shells[p].framedErr /\ s.stdin = shells[p].stdin
      BY <1>1 DEF Shells
    <2>3. shells' \in [Commands -> Shells] /\ Framing'
      <3> HIDE DEF s
      <3> QED BY <1>1, <2>1, <2>2, OneShell
    <2> QED BY <1>1, <2>1, <2>3 DEF TypeInv, TypeOK
  <1>4. CASE KillLands(p)
    <2> DEFINE gone == IF Listening(p) THEN shells[p] ELSE [NewShell EXCEPT !.killed = TRUE]
               code == IF Alive(p) THEN -1 ELSE gone.code
               s == [gone EXCEPT !.state = "dead", !.child = None, !.stdin = <<>>,
                                 !.framedErr = FALSE, !.code = code]
    <2>1. gone \in Shells
      BY <1>1, NewShellType, ShellTypes
    <2>2. /\ shells' = [shells EXCEPT ![p] = s]
          /\ UNCHANGED <<issued, taken, aborted, session, current, answers, ran, interrupts>>
      BY <1>1, <1>4 DEF KillLands
    <2>3. s \in Shells /\ ~s.framedErr
      <3> HIDE DEF gone
      <3>1. code \in {-1, 0, 1}
        BY <2>1, ShellTypes
      <3> QED BY <1>1, <2>1, <3>1 DEF Shells
    <2>4. shells' \in [Commands -> Shells] /\ Framing'
      <3> HIDE DEF s
      <3> QED BY <1>1, <2>2, <2>3, OneShell
    <2> QED BY <1>1, <2>2, <2>4 DEF TypeInv, TypeOK
  <1>5. CASE OnExit(p)
    <2> DEFINE s == [shells[p] EXCEPT !.exitTold = TRUE]
    <2>1. /\ shells' = [shells EXCEPT ![p] = s]
          /\ session' = [session EXCEPT !.process = IF @ = p THEN None ELSE @]
          /\ UNCHANGED <<issued, taken, aborted, current, answers, ran, interrupts>>
      BY <1>1, <1>5 DEF OnExit
    <2>2. s \in Shells /\ s.framedErr = shells[p].framedErr /\ s.stdin = shells[p].stdin
      BY <1>1 DEF Shells
    <2>3. shells' \in [Commands -> Shells] /\ Framing'
      <3> HIDE DEF s
      <3> QED BY <1>1, <2>1, <2>2, OneShell
    <2>4. session' \in [process : Commands \cup {None}, stderrEnded : BOOLEAN]
      BY <1>1, <2>1 DEF TypeOK
    <2> QED BY <1>1, <2>1, <2>3, <2>4 DEF TypeInv, TypeOK
  <1> QED BY <1>2, <1>3, <1>4, <1>5

LEMMA TypeStep == TypeInv /\ [Next]_vars => TypeInv'
  <1> SUFFICES ASSUME TypeInv, [Next]_vars PROVE TypeInv'
    OBVIOUS
  <1>1. CASE UNCHANGED vars
    BY <1>1 DEF TypeInv, TypeOK, Framing, vars
  <1>2. CASE Run \/ RunBlank \/ StartAborted \/ Start
    BY <1>2, RunTypes, RunBlankTypes, StartAbortedTypes, StartTypes
  <1>3. CASE \E c \in Commands : Abort(c)
    BY <1>3, AbortTypes
  <1>4. CASE Timeout \/ GraceFires \/ KillSession
    BY <1>4, TimeoutTypes, GraceTypes, KillSessionTypes
  <1>5. CASE \E p \in Commands : Concerned(p) /\ (Events(p) \/ Programs(p))
    BY <1>5, EventTypes, WorksTypes, FramesErrTypes, FramesOutTypes, EndTypes DEF Programs
  <1>6. CASE \E p \in Commands : KillLands(p) \/ OnExit(p)
    BY <1>6, EndTypes
  <1> QED BY <1>1, <1>2, <1>3, <1>4, <1>5, <1>6 DEF Next

(* Type correctness of the session, its processes and its answers.            *)
THEOREM ShellTypeCorrect == Spec => []TypeOK
  <1>1. TypeInv => TypeOK
    BY DEF TypeInv
  <1> QED BY InitTypes, TypeStep, <1>1, PTL DEF Spec

-------------------------------------------------------------------------------
(* Whose process, which command.                                              *)

(* One shell matters: the one a command listens to, or else the session's.    *)
LEMMA TheConcerned ==
    ASSUME TypeOK, OwnInv, NEW p \in Commands, Concerned(p)
    PROVE  /\ current # None => p = current.shell
           /\ current = None => p = session.process
  <1>1. p # None
    BY ConstantTypes
  <1> QED BY <1>1 DEF Concerned, Listening, OwnInv, OwnCommand

(* What keeps the processes of the session apart.                             *)
LEMMA SameOwner ==
    ASSUME TypeOK, OwnShell, session'.process = session.process,
           \A q \in Commands :
               /\ shells'[q].killed = shells[q].killed
               /\ shells'[q].exitTold = shells[q].exitTold
               /\ shells'[q].state = "alive" => shells[q].state = "alive"
    PROVE  OwnShell'
  BY DEF OwnShell, Alive

LEMMA SameCommand ==
    ASSUME OwnInv, UNCHANGED <<taken, current, answers>>,
           session'.process \in {None, session.process}
    PROVE  OwnCommand' /\ Unanswered'
  BY DEF OwnInv, OwnCommand, Unanswered

LEMMA OwnSettles ==
    ASSUME TypeOK, OwnInv, current # None, NEW cur \in Running,
           cur.cmd = current.cmd, cur.shell = current.shell, SettleIfFramed(cur),
           ~(cur.outSeen /\ cur.errSeen) => /\ ~cur.truncated
                                            /\ cur.outSeen <=> cur.grace,
           taken' = taken, session'.process = session.process
    PROVE  OwnCommand' /\ Unanswered'
  <1>1. current \in Running /\ answers \in [Commands -> Answers \cup {None}]
    BY DEF TypeOK
  <1>2. /\ current.cmd = taken /\ current.cmd \in Commands /\ Commands \in SUBSET Nat
        /\ answers[current.cmd] = None
    BY <1>1, RunningTypes, ConstantTypes DEF OwnInv, OwnCommand
  <1>3. CASE cur.outSeen /\ cur.errSeen
    <2>1. current' = None /\ answers' = [answers EXCEPT ![cur.cmd] = Framed(cur)]
      BY <1>3 DEF SettleIfFramed
    <2> QED BY <1>1, <1>2, <2>1 DEF OwnInv, OwnCommand, Unanswered
  <1>4. CASE ~(cur.outSeen /\ cur.errSeen)
    <2>1. current' = cur /\ answers' = answers
      BY <1>4 DEF SettleIfFramed
    <2> QED BY <1>2, <1>4, <2>1, RunningTypes DEF OwnInv, OwnCommand, Unanswered
  <1> QED BY <1>3, <1>4

LEMMA OwnGivesUp ==
    ASSUME TypeOK, OwnInv, current # None, NEW a, Settle(a), taken' = taken
    PROVE  OwnCommand' /\ Unanswered'
  <1>1. current \in Running /\ answers \in [Commands -> Answers \cup {None}]
    BY DEF TypeOK
  <1>2. current.cmd = taken /\ current.cmd \in Commands /\ Commands \in SUBSET Nat
    BY <1>1, RunningTypes, ConstantTypes DEF OwnInv, OwnCommand
  <1> QED BY <1>1, <1>2 DEF Settle, OwnInv, OwnCommand, Unanswered

LEMMA OwnKill ==
    ASSUME TypeOK, OwnInv, Kill
    PROVE  OwnShell' /\ session'.process = None
  <1>1. /\ shells \in [Commands -> Shells] /\ session'.process = None
    BY DEF TypeOK, Kill
  <1>2. \A p \in Commands : shells'[p] =
           IF session.process = p THEN [shells[p] EXCEPT !.killed = TRUE] ELSE shells[p]
    BY Signals DEF Kill
  <1>3. \A p \in Commands : Alive(p)' /\ ~shells'[p].killed => FALSE
    <2> SUFFICES ASSUME NEW p \in Commands, Alive(p)', ~shells'[p].killed PROVE FALSE
      OBVIOUS
    <2>1. shells[p] \in Shells
      BY <1>1
    <2>2. session.process # p /\ shells'[p] = shells[p]
      BY <1>2, <2>1 DEF Shells
    <2> QED BY <2>2 DEF OwnInv, OwnShell, Alive
  <1> QED BY <1>1, <1>3, ConstantTypes DEF OwnShell

LEMMA OwnInit == Init => OwnInv
  <1> SUFFICES ASSUME Init PROVE OwnInv
    OBVIOUS
  <1>1. OwnShell
    BY ConstantTypes DEF Init, OwnShell, Alive, Unborn, NewShell
  <1> QED BY <1>1 DEF Init, OwnInv, OwnCommand, Unanswered

LEMMA OwnRefuses ==
    ASSUME TypeOK, OwnInv, current = None, NEW a, First \in Commands,
           answers' = [answers EXCEPT ![First] = a],
           taken' = taken + 1, current' = current
    PROVE  OwnCommand' /\ Unanswered'
  <1>1. /\ answers \in [Commands -> Answers \cup {None}] /\ Commands \in SUBSET Nat
        /\ taken \in Nat /\ First = taken + 1
    BY ConstantTypes DEF TypeOK, First
  <1>2. \A c \in Commands : c > taken + 1 => c # First /\ c > taken
    BY <1>1
  <1>3. \A c \in Commands : c # First => answers'[c] = answers[c]
    BY <1>1
  <1> QED BY <1>1, <1>2, <1>3 DEF OwnInv, OwnCommand, Unanswered

LEMMA OwnTakes ==
    TypeInv /\ OwnInv /\ (Run \/ RunBlank \/ StartAborted \/ Start) => OwnInv'
  <1> SUFFICES ASSUME TypeInv, OwnInv, Run \/ RunBlank \/ StartAborted \/ Start PROVE OwnInv'
    OBVIOUS
  <1> DEFINE now == Started(First)
             sh == WithStarted(First)
  <1>1. /\ TypeOK /\ shells \in [Commands -> Shells]
        /\ answers \in [Commands -> Answers \cup {None}] /\ Commands \in SUBSET Nat
    BY ConstantTypes DEF TypeInv, TypeOK
  <1>2. CASE Run
    BY <1>2 DEF Run, OwnInv, OwnShell, OwnCommand, Unanswered, Alive
  <1>3. CASE RunBlank
    <2>1. First \in Commands /\ First = taken + 1 /\ taken \in Nat
      BY <1>1, <1>3, FirstIsNext DEF RunBlank, Waiting
    <2>2. OwnShell'
      BY <1>3 DEF RunBlank, OwnInv, OwnShell, Alive
    <2>3. OwnCommand' /\ Unanswered'
      BY <1>1, <1>3, <2>1, OwnRefuses DEF RunBlank, Waiting
    <2> QED BY <2>2, <2>3 DEF OwnInv
  <1>4. CASE StartAborted
    <2>1. First \in Commands /\ First = taken + 1 /\ taken \in Nat
      BY <1>1, <1>4, FirstIsNext DEF StartAborted, Waiting
    <2>2. /\ now.process \in Commands /\ sh \in [Commands -> Shells]
          /\ session.process # None => now = session
          /\ session.process = None => now.process = First
          /\ \A p \in Commands :
               sh[p] = IF session.process = None /\ p = First THEN NewShell ELSE shells[p]
      BY <1>1, <2>1, Starting
    <2>3. /\ shells' = [sh EXCEPT ![now.process].killed = TRUE]
          /\ session'.process = None
      <3> HIDE DEF sh
      <3>1. session' = [now EXCEPT !.process = None]
        BY <1>4 DEF StartAborted
      <3>2. now \in [process : Commands \cup {None}, stderrEnded : BOOLEAN]
        BY <1>1, <2>1, Starting
      <3> QED BY <1>4, <3>1, <3>2 DEF StartAborted, sh
    <2>4. OwnShell'
      <3> SUFFICES ASSUME NEW p \in Commands, shells'[p].state = "alive", ~shells'[p].killed
                   PROVE  FALSE
        BY <2>3, ConstantTypes DEF OwnShell, Alive
      <3> HIDE DEF sh, now
      <3>1. shells'[p] = IF p = now.process THEN [sh[p] EXCEPT !.killed = TRUE] ELSE sh[p]
        BY <2>2, <2>3
      <3>2. sh[p] \in Shells
        BY <2>2
      <3>3. p # now.process
        BY <3>1, <3>2 DEF Shells
      <3>4. sh[p] = shells[p] /\ session.process # p
        BY <2>2, <3>3, ConstantTypes
      <3> QED BY <3>1, <3>3, <3>4 DEF OwnInv, OwnShell, Alive
    <2>5. OwnCommand' /\ Unanswered'
      BY <1>1, <1>4, <2>1, OwnRefuses DEF StartAborted, Waiting
    <2> QED BY <2>4, <2>5 DEF OwnInv
  <1>5. CASE Start
    <2>1. First \in Commands /\ First = taken + 1 /\ taken \in Nat
      BY <1>1, <1>5, FirstIsNext DEF Start, Waiting
    <2>2. /\ now.process \in Commands /\ sh \in [Commands -> Shells]
          /\ session.process # None => now = session
          /\ session.process = None => now.process = First
          /\ \A p \in Commands :
               sh[p] = IF session.process = None /\ p = First THEN NewShell ELSE shells[p]
      BY <1>1, <2>1, Starting
    <2>3. /\ session' = now /\ taken' = taken + 1 /\ answers' = answers
          /\ current' = [cmd |-> First, shell |-> now.process, out |-> {}, err |-> {},
                         outSeen |-> FALSE, errSeen |-> now.stderrEnded,
                         framed |-> {}, code |-> 0, grace |-> FALSE, truncated |-> FALSE]
      BY <1>5 DEF Start
    <2>4. \A p \in Commands :
             /\ shells'[p].killed = sh[p].killed /\ shells'[p].exitTold = sh[p].exitTold
             /\ shells'[p].state = sh[p].state
      <3>1. CASE sh[now.process].state = "alive"
        <4>1. shells' = [sh EXCEPT ![now.process].stdin = Append(@, First)]
          BY <1>5, <3>1 DEF Start
        <4> HIDE DEF sh, now
        <4> QED BY <2>2, <4>1 DEF Shells
      <3>2. CASE sh[now.process].state # "alive"
        BY <1>5, <3>2 DEF Start
      <3> QED BY <3>1, <3>2
    <2>5. OwnShell'
      <3> HIDE DEF sh, now
      <3> SUFFICES ASSUME NEW p \in Commands
                   PROVE  /\ now.process = p => ~sh[p].killed /\ ~sh[p].exitTold
                          /\ sh[p].state = "alive" /\ ~sh[p].killed => now.process = p
        BY <2>3, <2>4 DEF OwnShell, Alive
      <3>1. CASE session.process = None /\ p = First
        BY <2>2, <3>1 DEF NewShell
      <3>2. CASE ~(session.process = None /\ p = First)
        <4>1. sh[p] = shells[p]
          BY <2>2, <3>2
        <4>2. session.process = p => now.process = p
          BY <2>2, ConstantTypes
        <4>3. now.process = p => session.process = p
          BY <2>2, <3>2
        <4> QED BY <4>1, <4>2, <4>3 DEF OwnInv, OwnShell, Alive
      <3> QED BY <3>1, <3>2
    <2>6. OwnCommand' /\ Unanswered'
      <3> HIDE DEF now, sh
      <3> QED BY <1>1, <2>1, <2>3 DEF OwnInv, OwnCommand, Unanswered
    <2> QED BY <2>5, <2>6 DEF OwnInv
  <1> QED BY <1>2, <1>3, <1>4, <1>5

LEMMA OwnInterrupts ==
    TypeInv /\ OwnInv /\ ((\E c \in Commands : Abort(c)) \/ Timeout \/ KillSession \/ GraceFires)
    => OwnInv'
  <1> SUFFICES ASSUME TypeInv, OwnInv,
                      (\E c \in Commands : Abort(c)) \/ Timeout \/ KillSession \/ GraceFires
               PROVE  OwnInv'
    OBVIOUS
  <1>1. TypeOK
    BY DEF TypeInv
  <1>2. ASSUME NEW c \in Commands, Abort(c) PROVE OwnInv'
    <2>1. CASE current # None /\ current.cmd = c
      <3>1. Kill /\ Settle(Partial("aborted", 130)) /\ taken' = taken
        BY <1>2, <2>1 DEF Abort
      <3> QED BY <1>1, <2>1, <3>1, OwnKill, OwnGivesUp DEF OwnInv
    <2>2. CASE ~(current # None /\ current.cmd = c)
      <3>1. UNCHANGED <<taken, session, current, shells, answers>>
        BY <1>2, <2>2 DEF Abort
      <3> QED BY <3>1 DEF OwnInv, OwnShell, OwnCommand, Unanswered, Alive
    <2> QED BY <2>1, <2>2
  <1>3. CASE Timeout
    <2>1. current # None /\ Kill /\ Settle(Partial("timedOut", 124)) /\ taken' = taken
      BY <1>3 DEF Timeout
    <2> QED BY <1>1, <2>1, OwnKill, OwnGivesUp DEF OwnInv
  <1>4. CASE KillSession
    <2>1. Kill /\ UNCHANGED <<taken, current, answers>>
      BY <1>4 DEF KillSession
    <2>2. OwnShell' /\ session'.process = None
      BY <1>1, <2>1, OwnKill
    <2> QED BY <2>1, <2>2, SameCommand DEF OwnInv
  <1>5. CASE GraceFires
    <2> DEFINE cur == [current EXCEPT !.truncated = TRUE, !.errSeen = TRUE]
    <2>1. /\ current # None /\ current.grace /\ SettleIfFramed(cur)
          /\ UNCHANGED <<taken, session, shells>>
      BY <1>5 DEF GraceFires
    <2>2. current \in Running /\ cur \in Running
      BY <1>1, <2>1, RunningTypes DEF TypeOK
    <2>3. /\ cur.cmd = current.cmd /\ cur.shell = current.shell
          /\ cur.outSeen /\ cur.errSeen
      BY <2>1, <2>2 DEF Running, OwnInv, OwnCommand
    <2>4. OwnCommand' /\ Unanswered'
      <3> HIDE DEF cur
      <3> QED BY <1>1, <2>1, <2>2, <2>3, OwnSettles
    <2>5. OwnShell'
      BY <2>1 DEF OwnInv, OwnShell, Alive
    <2> QED BY <2>4, <2>5 DEF OwnInv
  <1> QED BY <1>2, <1>3, <1>4, <1>5

LEMMA OwnReads ==
    \A p \in Commands : TypeInv /\ OwnInv /\ (ReadStdout(p) \/ ReadStderr(p)) => OwnInv'
  <1> SUFFICES ASSUME NEW p \in Commands, TypeInv, OwnInv, ReadStdout(p) \/ ReadStderr(p)
               PROVE  OwnInv'
    OBVIOUS
  <1>1. TypeOK /\ shells \in [Commands -> Shells] /\ shells[p] \in Shells
    BY DEF TypeInv, TypeOK
  <1>2. CASE ReadStdout(p)
    <2>1. PICK k \in 1..Len(shells[p].out) :
             /\ shells' = [shells EXCEPT ![p] = [shells[p] EXCEPT !.out = Rest(@, k)]]
             /\ IF Listening(p) THEN OnStdout(SubSeq(shells[p].out, 1, k))
                ELSE k = Len(shells[p].out) /\ UNCHANGED <<current, answers, ran>>
             /\ SubSeq(shells[p].out, 1, k) \in Seq(Items)
             /\ UNCHANGED <<issued, taken, aborted, session, interrupts>>
      BY <1>1, <1>2, ReadOut
    <2>2. OwnShell'
      <3>1. \A q \in Commands : shells'[q].killed = shells[q].killed
               /\ shells'[q].exitTold = shells[q].exitTold /\ shells'[q].state = shells[q].state
        BY <1>1, <2>1 DEF Shells
      <3> QED BY <1>1, <2>1, <3>1, SameOwner DEF OwnInv
    <2>3. CASE ~Listening(p)
      BY <2>1, <2>2, <2>3, SameCommand DEF OwnInv
    <2>4. CASE Listening(p)
      <3> DEFINE chunk == SubSeq(shells[p].out, 1, k)
                 at == Position(Mark(current.cmd), chunk)
                 err == current.errSeen \/ session.stderrEnded
                 code == CodeBehind(at, chunk)
                 before == Shown(SubSeq(chunk, 1, at - 1))
                 seen == [current EXCEPT !.out = @ \cup Shown(chunk), !.outSeen = TRUE,
                            !.errSeen = err, !.framed = current.out \cup before, !.code = code]
      <3>1. current \in Running /\ current # None /\ chunk \in Seq(Items) /\ OnStdout(chunk)
        BY <1>1, <2>1, <2>4 DEF TypeOK, Listening
      <3>2. Shown(chunk) \in SUBSET Items
        BY <3>1, ShownTypes
      <3>3. CASE at = 0 \/ current.outSeen
        <4> HIDE DEF chunk
        <4>1. current' = [current EXCEPT !.out = @ \cup Shown(chunk)] /\ UNCHANGED answers
          BY <3>1, <3>3 DEF OnStdout
        <4>2. /\ current'.cmd = current.cmd /\ current'.shell = current.shell
              /\ current'.truncated = current.truncated /\ current'.outSeen = current.outSeen
              /\ current'.errSeen = current.errSeen /\ current'.grace = current.grace
          BY <3>1, <4>1 DEF Running
        <4>3. OwnCommand' /\ Unanswered'
          BY <2>1, <3>1, <4>1, <4>2 DEF OwnInv, OwnCommand, Unanswered
        <4> QED BY <2>2, <4>3 DEF OwnInv
      <3>4. CASE ~(at = 0 \/ current.outSeen)
        <4> HIDE DEF chunk
        <4>1. SettleIfFramed(ArmGrace(seen))
          BY <3>1, <3>4 DEF OnStdout
        <4>2. at \in 1..Len(chunk)
          <5> HIDE DEF at
          <5>1. at \in 0..Len(chunk) /\ at # 0
            BY <3>1, <3>4, Found DEF at
          <5>2. Len(chunk) \in Nat
            BY <3>1, Members
          <5> QED BY <5>1, <5>2
        <4>3. code \in ExitCodes \cup {0}
          BY <3>1, <4>2, CodeTypes
        <4>4. before \in SUBSET Items
          <5>1. at - 1 \in 0..Len(chunk)
            BY <3>1, <4>2, Members
          <5>2. SubSeq(chunk, 1, at - 1) \in Seq(Items)
            BY <3>1, <5>1, Cut
          <5> QED BY <5>2, ShownTypes
        <4>5. err \in BOOLEAN
          BY <1>1, <3>1, RunningTypes DEF TypeOK
        <4> HIDE DEF err, code, before
        <4>6. seen \in Running
          BY <3>1, <3>2, <4>3, <4>4, <4>5, RunningTypes
        <4>7. /\ seen.cmd = current.cmd /\ seen.shell = current.shell
              /\ seen.truncated = current.truncated /\ seen.outSeen
          BY <3>1 DEF Running
        <4> HIDE DEF seen
        <4>8. /\ ArmGrace(seen) \in Running
              /\ ArmGrace(seen).cmd = current.cmd /\ ArmGrace(seen).shell = current.shell
              /\ ~ArmGrace(seen).truncated
              /\ ~(ArmGrace(seen).outSeen /\ ArmGrace(seen).errSeen) =>
                    (ArmGrace(seen).outSeen <=> ArmGrace(seen).grace)
          <5>1. /\ ArmGrace(seen).cmd = seen.cmd /\ ArmGrace(seen).shell = seen.shell
                /\ ArmGrace(seen).truncated = seen.truncated
                /\ ArmGrace(seen).outSeen = seen.outSeen /\ ArmGrace(seen).errSeen = seen.errSeen
                /\ ArmGrace(seen).grace = (seen.outSeen /\ ~seen.errSeen)
            BY <4>6 DEF ArmGrace, Running
          <5>2. ~current.truncated
            BY <3>1 DEF OwnInv, OwnCommand
          <5>3. seen.errSeen \in BOOLEAN /\ seen.outSeen \in BOOLEAN /\ ArmGrace(seen) \in Running
            BY <4>6, RunningTypes
          <5> QED BY <4>7, <5>1, <5>2, <5>3
        <4>9. OwnCommand' /\ Unanswered'
          BY <1>1, <2>1, <3>1, <4>1, <4>8, OwnSettles
        <4> QED BY <2>2, <4>9 DEF OwnInv
      <3> QED BY <3>3, <3>4
    <2> QED BY <2>3, <2>4
  <1>3. CASE ReadStderr(p)
    <2>1. PICK k \in 1..Len(shells[p].err) :
             /\ shells' = [shells EXCEPT ![p] = [shells[p] EXCEPT !.err = Rest(@, k)]]
             /\ IF Listening(p) THEN OnStderr(SubSeq(shells[p].err, 1, k))
                ELSE k = Len(shells[p].err) /\ UNCHANGED <<current, answers>>
             /\ SubSeq(shells[p].err, 1, k) \in Seq(Items)
             /\ UNCHANGED <<issued, taken, aborted, session, ran, interrupts>>
      BY <1>1, <1>3, ReadErr
    <2>2. OwnShell'
      <3>1. \A q \in Commands : shells'[q].killed = shells[q].killed
               /\ shells'[q].exitTold = shells[q].exitTold /\ shells'[q].state = shells[q].state
        BY <1>1, <2>1 DEF Shells
      <3> QED BY <1>1, <2>1, <3>1, SameOwner DEF OwnInv
    <2>3. CASE ~Listening(p)
      BY <2>1, <2>2, <2>3, SameCommand DEF OwnInv
    <2>4. CASE Listening(p)
      <3> DEFINE chunk == SubSeq(shells[p].err, 1, k)
                 at == Position(Mark(current.cmd), chunk)
                 before == Shown(SubSeq(chunk, 1, at - 1))
                 longer == [current EXCEPT !.err = @ \cup Shown(chunk)]
                 seen == [current EXCEPT !.err = @ \cup before, !.errSeen = TRUE]
      <3>1. current \in Running /\ current # None /\ chunk \in Seq(Items) /\ OnStderr(chunk)
        BY <1>1, <2>1, <2>4 DEF TypeOK, Listening
      <3> HIDE DEF chunk
      <3>2. Shown(chunk) \in SUBSET Items
        BY <3>1, ShownTypes
      <3>3. CASE at = 0 \/ current.errSeen
        <4>1. current' = ArmGrace(longer) /\ UNCHANGED answers
          BY <3>1, <3>3 DEF OnStderr
        <4>2. longer \in Running
          BY <3>1, <3>2, RunningTypes
        <4>3. /\ longer.cmd = current.cmd /\ longer.shell = current.shell
              /\ longer.truncated = current.truncated /\ longer.outSeen = current.outSeen
              /\ longer.errSeen = current.errSeen
          BY <3>1 DEF Running
        <4> HIDE DEF longer
        <4>4. /\ current'.cmd = current.cmd /\ current'.shell = current.shell
              /\ current'.truncated = current.truncated /\ current'.outSeen = current.outSeen
              /\ current'.errSeen = current.errSeen
              /\ current'.grace = (current.outSeen /\ ~current.errSeen)
          BY <4>1, <4>2, <4>3 DEF Running, ArmGrace
        <4>5. OwnCommand' /\ Unanswered'
          BY <2>1, <3>1, <4>1, <4>4 DEF OwnInv, OwnCommand, Unanswered
        <4> QED BY <2>2, <4>5 DEF OwnInv
      <3>4. CASE ~(at = 0 \/ current.errSeen)
        <4>1. SettleIfFramed(seen)
          BY <3>1, <3>4 DEF OnStderr
        <4>2. before \in SUBSET Items
          <5>1. at \in 0..Len(chunk) /\ at # 0
            BY <3>1, <3>4, Found
          <5> HIDE DEF at
          <5>2. at - 1 \in 0..Len(chunk)
            BY <3>1, <5>1, Members
          <5>3. SubSeq(chunk, 1, at - 1) \in Seq(Items)
            BY <3>1, <5>2, Cut
          <5> QED BY <5>3, ShownTypes
        <4> HIDE DEF before
        <4>3. seen \in Running
          BY <3>1, <4>2, RunningTypes
        <4>4. /\ seen.cmd = current.cmd /\ seen.shell = current.shell
              /\ seen.truncated = current.truncated /\ seen.outSeen = current.outSeen
              /\ seen.errSeen /\ seen.grace = current.grace
          BY <3>1 DEF Running
        <4> HIDE DEF seen
        <4>5. ~seen.truncated /\ (~(seen.outSeen /\ seen.errSeen) => (seen.outSeen <=> seen.grace))
          BY <3>1, <4>4 DEF OwnInv, OwnCommand
        <4>6. OwnCommand' /\ Unanswered'
          BY <1>1, <2>1, <3>1, <4>1, <4>3, <4>4, <4>5, OwnSettles
        <4> QED BY <2>2, <4>6 DEF OwnInv
      <3> QED BY <3>3, <3>4
    <2> QED BY <2>3, <2>4
  <1> QED BY <1>2, <1>3

LEMMA OwnCloses ==
    \A p \in Commands : TypeInv /\ OwnInv /\ (StderrEnds(p) \/ OnClose(p)) => OwnInv'
  <1> SUFFICES ASSUME NEW p \in Commands, TypeInv, OwnInv, StderrEnds(p) \/ OnClose(p)
               PROVE  OwnInv'
    OBVIOUS
  <1>1. TypeOK /\ shells \in [Commands -> Shells] /\ shells[p] \in Shells
    BY DEF TypeInv, TypeOK
  <1>2. CASE StderrEnds(p)
    <2>1. /\ shells' = [shells EXCEPT ![p].errEndTold = TRUE] /\ taken' = taken
      BY <1>2 DEF StderrEnds
    <2>2. session'.process = session.process
      <3>1. session \in [process : Commands \cup {None}, stderrEnded : BOOLEAN]
        BY <1>1 DEF TypeOK
      <3> QED BY <1>2, <3>1 DEF StderrEnds
    <2>3. OwnShell'
      <3>1. \A q \in Commands : shells'[q].killed = shells[q].killed
               /\ shells'[q].exitTold = shells[q].exitTold /\ shells'[q].state = shells[q].state
        BY <1>1, <2>1 DEF Shells
      <3> QED BY <1>1, <2>2, <3>1, SameOwner DEF OwnInv
    <2>4. CASE ~Listening(p)
      <3>1. UNCHANGED <<current, answers>>
        BY <1>2, <2>4 DEF StderrEnds
      <3> QED BY <2>1, <2>2, <2>3, <3>1, SameCommand DEF OwnInv
    <2>5. CASE Listening(p)
      <3> DEFINE seen == [current EXCEPT !.errSeen = TRUE]
      <3>1. current \in Running /\ current # None /\ SettleIfFramed(seen)
        BY <1>1, <1>2, <2>5 DEF TypeOK, Listening, StderrEnds
      <3>2. seen \in Running
        BY <3>1, RunningTypes
      <3>3. /\ seen.cmd = current.cmd /\ seen.shell = current.shell
            /\ seen.truncated = current.truncated /\ seen.outSeen = current.outSeen
            /\ seen.errSeen /\ seen.grace = current.grace
        BY <3>1 DEF Running
      <3> HIDE DEF seen
      <3>4. ~seen.truncated /\ (~(seen.outSeen /\ seen.errSeen) => (seen.outSeen <=> seen.grace))
        BY <3>1, <3>3 DEF OwnInv, OwnCommand
      <3>5. OwnCommand' /\ Unanswered'
        BY <1>1, <2>1, <2>2, <3>1, <3>2, <3>3, <3>4, OwnSettles
      <3> QED BY <2>3, <3>5 DEF OwnInv
    <2> QED BY <2>4, <2>5
  <1>3. CASE OnClose(p)
    <2>1. /\ current # None /\ Settle(Partial("died", shells[p].code))
          /\ UNCHANGED <<taken, session, shells>>
      BY <1>3 DEF OnClose, Listening
    <2>2. OwnShell'
      BY <2>1 DEF OwnInv, OwnShell, Alive
    <2> QED BY <1>1, <2>1, <2>2, OwnGivesUp DEF OwnInv
  <1> QED BY <1>2, <1>3

LEMMA OwnPrograms ==
    \A p \in Commands : TypeInv /\ OwnInv /\ (Programs(p) \/ KillLands(p) \/ OnExit(p)) => OwnInv'
  <1> SUFFICES ASSUME NEW p \in Commands, TypeInv, OwnInv,
                      Programs(p) \/ KillLands(p) \/ OnExit(p)
               PROVE  OwnInv'
    OBVIOUS
  <1>1. TypeOK /\ shells \in [Commands -> Shells] /\ shells[p] \in Shells
        /\ session \in [process : Commands \cup {None}, stderrEnded : BOOLEAN]
    BY DEF TypeInv, TypeOK
  <1>2. CASE Programs(p)
    <2>1. UNCHANGED <<taken, session, current, answers>>
      BY <1>2 DEF Programs, Works, FramesErr, FramesOut, Dies, ChildEnds, Process
    <2>2. \A q \in Commands : shells'[q].killed = shells[q].killed
               /\ shells'[q].exitTold = shells[q].exitTold
               /\ (shells'[q].state = "alive" => shells[q].state = "alive")
      <3>1. CASE Works(p)
        <4>1. PICK s \in Shells : /\ shells' = [shells EXCEPT ![p] = s]
                                  /\ s.killed = shells[p].killed /\ s.exitTold = shells[p].exitTold
                                  /\ s.state = shells[p].state
          BY <1>1, <3>1, WorksOn
        <4> QED BY <1>1, <4>1
      <3>2. CASE FramesErr(p)
        BY <1>1, <3>2 DEF FramesErr, Shells
      <3>3. CASE FramesOut(p)
        BY <1>1, <3>3 DEF FramesOut, Shells
      <3>4. CASE Dies(p)
        BY <1>1, <3>4 DEF Dies, Shells
      <3>5. CASE ChildEnds(p)
        BY <1>1, <3>5 DEF ChildEnds, Shells
      <3> QED BY <1>2, <3>1, <3>2, <3>3, <3>4, <3>5 DEF Programs
    <2>3. OwnShell'
      BY <1>1, <2>1, <2>2, SameOwner DEF OwnInv
    <2> QED BY <2>1, <2>3, SameCommand DEF OwnInv
  <1>3. CASE KillLands(p)
    <2> DEFINE gone == IF Listening(p) THEN shells[p] ELSE [NewShell EXCEPT !.killed = TRUE]
               s == [gone EXCEPT !.state = "dead", !.child = None, !.stdin = <<>>,
                                 !.framedErr = FALSE, !.code = IF Alive(p) THEN -1 ELSE @]
    <2>1. /\ shells' = [shells EXCEPT ![p] = s] /\ shells[p].killed
          /\ UNCHANGED <<taken, session, current, answers>>
      BY <1>1, <1>3 DEF KillLands
    <2>2. s.state = "dead" /\ session.process # p
      <3>1. gone \in Shells
        BY <1>1, NewShellType, ShellTypes
      <3> HIDE DEF gone
      <3>2. s.state = "dead"
        BY <3>1 DEF Shells
      <3> QED BY <2>1, <3>2 DEF OwnInv, OwnShell
    <2> HIDE DEF s
    <2>3. \A q \in Commands : shells'[q] = IF q = p THEN s ELSE shells[q]
      BY <1>1, <2>1
    <2>4. OwnShell'
      BY <2>1, <2>2, <2>3 DEF OwnInv, OwnShell, Alive
    <2> QED BY <2>1, <2>4, SameCommand DEF OwnInv
  <1>4. CASE OnExit(p)
    <2>1. /\ shells' = [shells EXCEPT ![p].exitTold = TRUE] /\ shells[p].state = "dead"
          /\ session'.process = IF session.process = p THEN None ELSE session.process
          /\ UNCHANGED <<taken, current, answers>>
      BY <1>1, <1>4 DEF OnExit
    <2>2. \A q \in Commands : /\ shells'[q].killed = shells[q].killed
                              /\ shells'[q].state = shells[q].state
                              /\ q # p => shells'[q].exitTold = shells[q].exitTold
      BY <1>1, <2>1 DEF Shells
    <2>3. OwnShell'
      BY <2>1, <2>2, ConstantTypes DEF OwnInv, OwnShell, Alive
    <2>4. session'.process \in {None, session.process}
      BY <2>1
    <2> QED BY <2>1, <2>3, <2>4, SameCommand DEF OwnInv
  <1> QED BY <1>2, <1>3, <1>4

LEMMA OwnStep == TypeInv /\ OwnInv /\ [Next]_vars => OwnInv'
  <1> SUFFICES ASSUME TypeInv, OwnInv, [Next]_vars PROVE OwnInv'
    OBVIOUS
  <1>1. CASE UNCHANGED vars
    BY <1>1 DEF OwnInv, OwnShell, OwnCommand, Unanswered, Alive, vars
  <1>2. CASE Next
    BY <1>2, OwnTakes, OwnInterrupts, OwnReads, OwnCloses, OwnPrograms DEF Next, Events
  <1> QED BY <1>1, <1>2

LEMMA OwnCorrect == Spec => [](TypeInv /\ OwnInv)
  <1>1. Init => TypeInv /\ OwnInv
    BY InitTypes, OwnInit
  <1>2. (TypeInv /\ OwnInv) /\ [Next]_vars => (TypeInv /\ OwnInv)'
    BY TypeStep, OwnStep
  <1> QED BY <1>1, <1>2, PTL DEF Spec

(* A shell that is not the session's has been signalled or has died: nothing  *)
(* is left running that the next kill would not reach.                        *)
THEOREM NoShellAstray == Spec => []NoStrayShell
  <1>1. OwnInv => NoStrayShell
    BY DEF OwnInv, OwnShell, NoStrayShell
  <1> QED BY OwnCorrect, <1>1, PTL

(* Once the sentinel of stdout is read, the wait for the one of stderr has    *)
(* the window of silence.                                                     *)
THEOREM FrameAwaitedBriefly == Spec => []FrameIsAwaitedBriefly
  <1>1. OwnInv => FrameIsAwaitedBriefly
    BY DEF OwnInv, OwnCommand, FrameIsAwaitedBriefly
  <1> QED BY OwnCorrect, <1>1, PTL

===============================================================================
