-------------------------- MODULE ShellOutput_proofs --------------------------
(* Proofs about ShellSession: every command gets its own output, whole, and   *)
(* its own exit code, and the session implements the queue of commands.       *)
EXTENDS ShellSession_proofs

(* What is in the pipes of the one shell that matters, and what was read.     *)
(* cur is the command being run, sh its shell, rn what it did, and T are the  *)
(* commands whose answer was given as incomplete.                             *)
TruncatedSet == {c \in Commands : answers[c] # None /\ answers[c].truncated}

Left(i, T) == i.kind # "code" /\ i.of \in T

(* Between two commands: only what is dropped or was admitted to be missing.  *)
Rests(sh, T) ==
    /\ sh.stdin = <<>> /\ ~sh.framedErr
    /\ \A i \in 1..Len(sh.out) : sh.out[i].kind = "code"
    /\ \A i \in 1..Len(sh.err) : Left(sh.err[i], T)

(* The shell has at most the current command before it, and has begun to      *)
(* frame it only when it has ended.                                           *)
InStdin(cur, sh, rn) ==
    /\ sh.stdin \in {<<>>, <<cur.cmd>>}
    /\ sh.framedErr => sh.stdin # <<>> /\ rn.ended # None
    /\ sh.stdin # <<>> /\ ~sh.framedErr => rn.ended = None
    /\ cur.outSeen => sh.stdin = <<>>

(* On stdout: codes of earlier commands, then the command's text, its         *)
(* sentinel and its code, and nothing behind that.                            *)
InStdout(cur, sh, rn) ==
    \A i \in 1..Len(sh.out) :
        /\ sh.out[i].kind = "code" \/ sh.out[i] \in {Text(cur.cmd), Mark(cur.cmd)}
        /\ sh.out[i] = Mark(cur.cmd) =>
               /\ sh.stdin = <<>> /\ rn.ended # None
               /\ i < Len(sh.out) /\ sh.out[i + 1].code = rn.ended
               /\ \A j \in (i + 1)..Len(sh.out) : sh.out[j].kind = "code"
        /\ cur.outSeen => sh.out[i].kind = "code"

(* On stderr: what followed earlier answers that were truncated, then the     *)
(* command's text and, last of all, its sentinel.                             *)
InStderr(cur, sh, rn, T) ==
    \A i \in 1..Len(sh.err) :
        /\ Left(sh.err[i], T) \/ sh.err[i] \in {Text(cur.cmd), Mark(cur.cmd)}
        /\ sh.err[i] = Mark(cur.cmd) => i = Len(sh.err) /\ rn.ended # None

(* Until the sentinel of stdout is read, the text is in the buffer or still   *)
(* in the pipe; from then on it is framed, and the code with it.              *)
FromStdout(cur, sh, rn) ==
    /\ cur.out \subseteq {Text(cur.cmd), Mark(cur.cmd)}
    /\ ~cur.outSeen =>
           /\ cur.out \subseteq {Text(cur.cmd)}
           /\ rn.out <=> Text(cur.cmd) \in cur.out \cup ToSet(sh.out)
    /\ cur.outSeen =>
           /\ rn.ended # None
           /\ cur.framed = IF rn.out THEN {Text(cur.cmd)} ELSE {}
           /\ cur.code = IF rn.split THEN 0 ELSE rn.ended

(* What was said on stderr is in the buffer or still in the pipe, and when    *)
(* its end is known nothing is left there, nor will be.                       *)
FromStderr(cur, sh, rn, T) ==
    /\ \A i \in cur.err : Left(i, T) \/ i = Text(cur.cmd)
    /\ rn.err <=> Text(cur.cmd) \in cur.err \cup ToSet(sh.err)
    /\ rn.err => rn.out
    /\ cur.errSeen => sh.err = <<>> /\ (sh.errEndTold \/ rn.ended # None)

Serves(cur, sh, rn, T) ==
    /\ InStdin(cur, sh, rn)
    /\ InStdout(cur, sh, rn) /\ InStderr(cur, sh, rn, T)
    /\ FromStdout(cur, sh, rn) /\ FromStderr(cur, sh, rn, T)

ServesInv ==
    /\ current # None =>
           Serves(current, shells[current.shell], ran[current.cmd], TruncatedSet)
    /\ current = None /\ session.process # None =>
           Rests(shells[session.process], TruncatedSet)

(* A command the chain has not reached did nothing.                           *)
NotYet ==
    \A c \in Commands :
        c > taken => ~ran[c].out /\ ~ran[c].err /\ ran[c].ended = None

(* A stderr that is known to be at its end is empty and stays so.             *)
AtItsEnd(sh) == sh.errEndTold => sh.err = <<>> /\ (sh.state = "alive" => ~sh.errOpen)
EndInv ==
    /\ \A p \in Commands : AtItsEnd(shells[p])
    /\ session.stderrEnded =>
           /\ session.process # None => shells[session.process].errEndTold
           /\ current # None => shells[current.shell].errEndTold

(* What is right of an answer, given what the command really did.             *)
Right(c, a, rn, T) ==
    /\ a.kind = "framed" /\ ~a.truncated =>
           /\ Own(c, a.out) = IF rn.out THEN {Text(c)} ELSE {}
           /\ Own(c, a.err) = IF rn.err THEN {Text(c)} ELSE {}
    /\ a.kind = "framed" => /\ a.code = IF rn.split THEN 0 ELSE rn.ended
                            /\ rn.ended # None
    /\ Foreign(c, a.out) = {} /\ \A i \in Foreign(c, a.err) : i.of \in T
AnswersInv ==
    \A c \in Commands :
        answers[c] # None => Right(c, answers[c], ran[c], TruncatedSet)

WorkInv == ServesInv /\ NotYet /\ EndInv /\ AnswersInv


-------------------------------------------------------------------------------
(* Steps of one shell and its command, apart from everything else.            *)

LEMMA RanTypes ==
    ASSUME NEW r \in Rans
    PROVE  /\ r.out \in BOOLEAN /\ r.err \in BOOLEAN /\ r.split \in BOOLEAN
           /\ r.ended \in ExitCodes \cup {None}
           /\ \A b \in BOOLEAN : /\ [r EXCEPT !.split = b] \in Rans
                                 /\ [r EXCEPT !.split = b].split = b
                                 /\ [r EXCEPT !.split = b].out = r.out
                                 /\ [r EXCEPT !.split = b].err = r.err
                                 /\ [r EXCEPT !.split = b].ended = r.ended
           /\ \A e \in ExitCodes : /\ [r EXCEPT !.ended = e] \in Rans
                                   /\ [r EXCEPT !.ended = e].split = r.split
                                   /\ [r EXCEPT !.ended = e].out = r.out
                                   /\ [r EXCEPT !.ended = e].err = r.err
                                   /\ [r EXCEPT !.ended = e].ended = e
  BY DEF Rans

(* More is admitted to be incomplete.                                         *)
LEMMA ServesMore ==
    ASSUME NEW cur, NEW sh, NEW rn, NEW T, NEW U, T \subseteq U, Serves(cur, sh, rn, T)
    PROVE  Serves(cur, sh, rn, U)
  BY DEF Serves, InStderr, FromStderr, Left

LEMMA RestsMore ==
    ASSUME NEW sh, NEW T, NEW U, T \subseteq U, Rests(sh, T)
    PROVE  Rests(sh, U)
  BY DEF Rests, Left

(* What the shell has before it and in its pipes is the same.                 *)
LEMMA ServesSame ==
    ASSUME NEW cur, NEW sh, NEW s, NEW rn, NEW T, Serves(cur, sh, rn, T),
           s.stdin = sh.stdin, s.framedErr = sh.framedErr,
           s.out = sh.out, s.err = sh.err, sh.errEndTold => s.errEndTold
    PROVE  Serves(cur, s, rn, T)
  BY DEF Serves, InStdin, InStdout, InStderr, FromStdout, FromStderr

(* The shell is gone, and with it what it had before it.                      *)
LEMMA ServesDead ==
    ASSUME NEW cur, NEW sh, NEW s, NEW rn, NEW T, Serves(cur, sh, rn, T),
           s.stdin = <<>>, ~s.framedErr,
           s.out = sh.out, s.err = sh.err, s.errEndTold = sh.errEndTold
    PROVE  Serves(cur, s, rn, T)
  <1>1. InStdin(cur, s, rn)
    BY DEF Serves, InStdin
  <1>2. InStdout(cur, s, rn)
    BY DEF Serves, InStdout
  <1>3. InStderr(cur, s, rn, T) /\ FromStdout(cur, s, rn) /\ FromStderr(cur, s, rn, T)
    BY DEF Serves, InStderr, FromStdout, FromStderr
  <1> QED BY <1>1, <1>2, <1>3 DEF Serves

LEMMA RestsSame ==
    ASSUME NEW sh, NEW s, NEW T, Rests(sh, T), s.stdin = <<>>, ~s.framedErr,
           s.out = sh.out, s.err = sh.err
    PROVE  Rests(s, T)
  BY DEF Rests

(* While the command has not ended there is no sentinel of it.                *)
LEMMA NoMark ==
    ASSUME NEW cur \in Running, NEW sh \in Shells, NEW rn \in Rans, NEW T,
           Serves(cur, sh, rn, T), sh.stdin # <<>>
    PROVE  /\ \A i \in 1..Len(sh.out) : sh.out[i] # Mark(cur.cmd)
           /\ ~sh.framedErr => \A i \in 1..Len(sh.err) : sh.err[i] # Mark(cur.cmd)
           /\ ~cur.outSeen
           /\ ~sh.framedErr => rn.ended = None
           /\ sh.stdin = <<cur.cmd>> /\ Head(sh.stdin) = cur.cmd /\ Tail(sh.stdin) = <<>>
  <1>1. sh.stdin = <<cur.cmd>> /\ ~cur.outSeen /\ (~sh.framedErr => rn.ended = None)
    BY DEF Serves, InStdin
  <1>2. Head(sh.stdin) = cur.cmd /\ Tail(sh.stdin) = <<>>
    BY <1>1
  <1>3. \A i \in 1..Len(sh.out) : sh.out[i] # Mark(cur.cmd)
    BY DEF Serves, InStdout
  <1>4. ~sh.framedErr => \A i \in 1..Len(sh.err) : sh.err[i] # Mark(cur.cmd)
    BY <1>1 DEF Serves, InStderr
  <1> QED BY <1>1, <1>2, <1>3, <1>4

LEMMA ServesWorks ==
    ASSUME NEW cur \in Running, NEW sh \in Shells, NEW rn \in Rans, NEW T,
           Serves(cur, sh, rn, T), AtItsEnd(sh),
           sh.state = "alive", sh.stdin # <<>>, ~sh.framedErr, ~rn.out,
           NEW err \in BOOLEAN, NEW s \in Shells, NEW r \in Rans,
           err => sh.errOpen,
           s.stdin = sh.stdin, s.framedErr = sh.framedErr, s.errEndTold = sh.errEndTold,
           s.out = Append(sh.out, Text(cur.cmd)),
           s.err = IF err THEN Append(sh.err, Text(cur.cmd)) ELSE sh.err,
           r.out, r.err = err, r.ended = rn.ended, r.split = rn.split
    PROVE  Serves(cur, s, r, T)
  <1> DEFINE x == Text(cur.cmd)
  <1>1. /\ cur.cmd \in Commands /\ x \in Items /\ x # Mark(cur.cmd)
        /\ sh.out \in Seq(Items) /\ sh.err \in Seq(Items) /\ cur.out \in SUBSET Items
    BY RunningTypes, ShellTypes, ItemTypes
  <1>2. /\ \A i \in 1..Len(sh.out) : sh.out[i] # Mark(cur.cmd)
        /\ \A i \in 1..Len(sh.err) : sh.err[i] # Mark(cur.cmd)
        /\ ~cur.outSeen /\ rn.ended = None
    BY NoMark
  <1>3. /\ Len(s.out) = Len(sh.out) + 1 /\ Len(sh.out) \in Nat
        /\ \A i \in 1..Len(sh.out) : s.out[i] = sh.out[i]
        /\ s.out[Len(sh.out) + 1] = x
        /\ ToSet(s.out) = ToSet(sh.out) \cup {x}
    BY <1>1, Longer, Members
  <1>5. InStdin(cur, s, r) /\ InStdout(cur, s, r) /\ FromStdout(cur, s, r)
    <2>1. InStdin(cur, s, r)
      BY DEF Serves, InStdin
    <2>2. InStdout(cur, s, r)
      <3> SUFFICES ASSUME NEW i \in 1..Len(s.out)
                   PROVE  /\ s.out[i].kind = "code" \/ s.out[i] \in {x, Mark(cur.cmd)}
                          /\ s.out[i] # Mark(cur.cmd)
        BY <1>2 DEF InStdout
      <3>1. i \in 1..Len(sh.out) \/ i = Len(sh.out) + 1
        BY <1>3
      <3> QED BY <1>1, <1>2, <1>3, <3>1 DEF Serves, InStdout
    <2>3. FromStdout(cur, s, r)
      BY <1>2, <1>3 DEF Serves, FromStdout
    <2> QED BY <2>1, <2>2, <2>3
  <1>4. CASE err
    <2>1. /\ Len(s.err) = Len(sh.err) + 1 /\ Len(sh.err) \in Nat
          /\ \A i \in 1..Len(sh.err) : s.err[i] = sh.err[i]
          /\ s.err[Len(sh.err) + 1] = x
          /\ ToSet(s.err) = ToSet(sh.err) \cup {x}
      BY <1>1, <1>4, Longer, Members
    <2>2. ~cur.errSeen
      BY <1>2, <1>4 DEF Serves, FromStderr, AtItsEnd
    <2>3. InStderr(cur, s, r, T)
      <3> SUFFICES ASSUME NEW i \in 1..Len(s.err)
                   PROVE  /\ Left(s.err[i], T) \/ s.err[i] \in {x, Mark(cur.cmd)}
                          /\ s.err[i] # Mark(cur.cmd)
        BY DEF InStderr
      <3>1. i \in 1..Len(sh.err) \/ i = Len(sh.err) + 1
        BY <2>1
      <3> QED BY <1>1, <1>2, <2>1, <3>1 DEF Serves, InStderr
    <2>4. FromStderr(cur, s, r, T)
      BY <1>4, <2>1, <2>2 DEF Serves, FromStderr
    <2> QED BY <1>5, <2>3, <2>4 DEF Serves
  <1>6. CASE ~err
    <2>1. InStderr(cur, s, r, T)
      BY <1>6, <1>2 DEF Serves, InStderr
    <2>2. FromStderr(cur, s, r, T)
      BY <1>6, <1>2 DEF Serves, FromStderr
    <2> QED BY <1>5, <2>1, <2>2 DEF Serves
  <1> QED BY <1>4, <1>6

LEMMA ServesFramesErr ==
    ASSUME NEW cur \in Running, NEW sh \in Shells, NEW rn \in Rans, NEW T,
           Serves(cur, sh, rn, T), AtItsEnd(sh),
           sh.state = "alive", sh.stdin # <<>>, ~sh.framedErr,
           NEW code \in ExitCodes,
           NEW s \in Shells, NEW r \in Rans,
           s.stdin = sh.stdin, s.framedErr, s.errEndTold = sh.errEndTold, s.out = sh.out,
           s.err = IF sh.errOpen THEN Append(sh.err, Mark(cur.cmd)) ELSE sh.err,
           r.out = rn.out, r.err = rn.err, r.ended = code, r.split = rn.split
    PROVE  Serves(cur, s, r, T)
  <1> DEFINE x == Mark(cur.cmd)
  <1>1. /\ cur.cmd \in Commands /\ x \in Items /\ x # Text(cur.cmd)
        /\ sh.err \in Seq(Items) /\ sh.errOpen \in BOOLEAN /\ code # None
    BY RunningTypes, ShellTypes, ItemTypes, ConstantTypes
  <1>2. /\ \A i \in 1..Len(sh.out) : sh.out[i] # Mark(cur.cmd)
        /\ \A i \in 1..Len(sh.err) : sh.err[i] # Mark(cur.cmd)
        /\ ~cur.outSeen /\ rn.ended = None
    BY NoMark
  <1>3. /\ InStdin(cur, s, r) /\ InStdout(cur, s, r) /\ FromStdout(cur, s, r)
    <2>1. InStdin(cur, s, r)
      BY <1>1, <1>2 DEF Serves, InStdin
    <2>2. InStdout(cur, s, r)
      BY <1>2 DEF Serves, InStdout
    <2>3. FromStdout(cur, s, r)
      BY <1>2 DEF Serves, FromStdout
    <2> QED BY <2>1, <2>2, <2>3
  <1>4. CASE sh.errOpen
    <2>1. /\ Len(s.err) = Len(sh.err) + 1 /\ Len(sh.err) \in Nat
          /\ \A i \in 1..Len(sh.err) : s.err[i] = sh.err[i]
          /\ s.err[Len(sh.err) + 1] = x
          /\ ToSet(s.err) = ToSet(sh.err) \cup {x}
      BY <1>1, <1>4, Longer, Members
    <2>2. ~cur.errSeen
      BY <1>2, <1>4 DEF Serves, FromStderr, AtItsEnd
    <2>3. InStderr(cur, s, r, T)
      <3> SUFFICES ASSUME NEW i \in 1..Len(s.err)
                   PROVE  /\ Left(s.err[i], T) \/ s.err[i] \in {Text(cur.cmd), x}
                          /\ s.err[i] = x => i = Len(s.err)
        BY <1>1 DEF InStderr
      <3>1. i \in 1..Len(sh.err) \/ i = Len(sh.err) + 1
        BY <2>1
      <3> QED BY <1>1, <1>2, <2>1, <3>1 DEF Serves, InStderr
    <2>4. FromStderr(cur, s, r, T)
      BY <1>1, <2>1, <2>2 DEF Serves, FromStderr
    <2> QED BY <1>3, <2>3, <2>4 DEF Serves
  <1>5. CASE ~sh.errOpen
    <2>1. InStderr(cur, s, r, T)
      BY <1>5, <1>2 DEF Serves, InStderr
    <2>2. FromStderr(cur, s, r, T)
      BY <1>1, <1>5, <1>2 DEF Serves, FromStderr
    <2> QED BY <1>3, <2>1, <2>2 DEF Serves
  <1> QED BY <1>1, <1>4, <1>5

LEMMA ServesFramesOut ==
    ASSUME NEW cur \in Running, NEW sh \in Shells, NEW rn \in Rans, NEW T,
           Serves(cur, sh, rn, T), sh.framedErr,
           NEW s \in Shells,
           s.stdin = Tail(sh.stdin), ~s.framedErr, s.errEndTold = sh.errEndTold, s.err = sh.err,
           s.out = sh.out \o <<Mark(cur.cmd), Item("code", cur.cmd, rn.ended)>>
    PROVE  Serves(cur, s, rn, T)
  <1> DEFINE x == Mark(cur.cmd)
             y == Item("code", cur.cmd, rn.ended)
  <1>1. sh.stdin # <<>> /\ rn.ended # None
    BY DEF Serves, InStdin
  <1>2. /\ cur.cmd \in Commands /\ x \in Items /\ y \in Items /\ sh.out \in Seq(Items)
        /\ x # Text(cur.cmd) /\ y # Text(cur.cmd) /\ y.kind = "code" /\ y.code = rn.ended
        /\ x.kind = "mark"
    <2>1. cur.cmd \in Commands /\ sh.out \in Seq(Items) /\ rn.ended \in ExitCodes
      BY <1>1, RunningTypes, ShellTypes, RanTypes
    <2>2. x \in Items /\ y \in Items /\ x # Text(cur.cmd)
      BY <2>1, ItemTypes
    <2>3. y.kind = "code" /\ y.code = rn.ended /\ y # Text(cur.cmd) /\ x.kind = "mark"
      BY DEF Item, Text, Mark
    <2> QED BY <2>1, <2>2, <2>3
  <1>3. /\ \A i \in 1..Len(sh.out) : sh.out[i] # x
        /\ ~cur.outSeen /\ s.stdin = <<>>
    BY <1>1, NoMark
  <1> HIDE DEF x, y
  <1> DEFINE o == Append(sh.out, x)
  <1>4. /\ o \in Seq(Items) /\ Len(o) = Len(sh.out) + 1 /\ Len(sh.out) \in Nat
        /\ \A i \in 1..Len(sh.out) : o[i] = sh.out[i]
        /\ o[Len(sh.out) + 1] = x
        /\ ToSet(o) = ToSet(sh.out) \cup {x}
    BY <1>2, Longer, Members
  <1>5. /\ s.out = Append(o, y) /\ Len(s.out) = Len(o) + 1
        /\ \A i \in 1..Len(o) : s.out[i] = o[i]
        /\ s.out[Len(o) + 1] = y
        /\ ToSet(s.out) = ToSet(o) \cup {y}
    <2>1. s.out = Append(o, y)
      BY <1>2, TwoLonger DEF x, y
    <2>2. o \in Seq(Items) /\ y \in Items
      BY <1>2, <1>4
    <2> HIDE DEF o
    <2>3. /\ Len(Append(o, y)) = Len(o) + 1
          /\ \A i \in 1..Len(o) : Append(o, y)[i] = o[i]
          /\ Append(o, y)[Len(o) + 1] = y
          /\ ToSet(Append(o, y)) = ToSet(o) \cup {y}
      BY <2>2, Longer
    <2> QED BY <2>1, <2>3, Zenon
  <1> HIDE DEF o
  <1>6. /\ Len(s.out) = Len(sh.out) + 2
        /\ \A i \in 1..Len(sh.out) : s.out[i] = sh.out[i]
        /\ s.out[Len(sh.out) + 1] = x /\ s.out[Len(sh.out) + 2] = y
        /\ ToSet(s.out) = ToSet(sh.out) \cup {x, y}
    <2>1. /\ Len(o) = Len(sh.out) + 1 /\ Len(s.out) = Len(o) + 1 /\ Len(sh.out) \in Nat
      BY <1>4, <1>5
    <2>2. \A i \in 1..Len(sh.out) : i \in 1..Len(o)
      BY <2>1
    <2>3. \A i \in 1..Len(sh.out) : s.out[i] = sh.out[i]
      BY <1>4, <1>5, <2>2
    <2>4. Len(sh.out) + 1 \in 1..Len(o) /\ Len(sh.out) + 2 = Len(o) + 1
      BY <2>1
    <2>5. s.out[Len(sh.out) + 1] = x /\ s.out[Len(sh.out) + 2] = y
      BY <1>4, <1>5, <2>4
    <2>6. ToSet(s.out) = ToSet(sh.out) \cup {x, y}
      BY <1>4, <1>5
    <2>7. Len(s.out) = Len(sh.out) + 2
      BY <2>1
    <2> QED BY <2>3, <2>5, <2>6, <2>7, Zenon
  <1>7. InStdin(cur, s, rn)
    BY <1>3 DEF InStdin
  <1>8. InStdout(cur, s, rn)
    <2> SUFFICES ASSUME NEW i \in 1..Len(s.out)
                 PROVE  /\ s.out[i].kind = "code" \/ s.out[i] \in {Text(cur.cmd), x}
                        /\ s.out[i] = x => /\ i < Len(s.out) /\ s.out[i + 1].code = rn.ended
                                           /\ \A j \in (i + 1)..Len(s.out) : s.out[j].kind = "code"
      BY <1>1, <1>3 DEF InStdout, x
    <2>1. CASE i \in 1..Len(sh.out)
      <3>1. s.out[i] = sh.out[i] /\ s.out[i] # x
        BY <1>3, <1>6, <2>1
      <3> QED BY <2>1, <3>1 DEF Serves, InStdout, x
    <2>2. CASE i = Len(sh.out) + 1
      <3>1. \A j \in (i + 1)..Len(s.out) : j = Len(sh.out) + 2
        BY <1>4, <1>6, <2>2
      <3>2. s.out[i] = x /\ s.out[i + 1] = y /\ i < Len(s.out)
        <4>1. i + 1 = Len(sh.out) + 2 /\ i < Len(s.out)
          BY <1>4, <1>6, <2>2
        <4> QED BY <1>6, <2>2, <4>1
      <3>3. \A j \in (i + 1)..Len(s.out) : s.out[j].kind = "code"
        BY <1>2, <1>6, <3>1, Zenon
      <3>4. s.out[i + 1].code = rn.ended
        BY <1>2, <3>2
      <3> QED BY <3>2, <3>3, <3>4
    <2>3. CASE i = Len(sh.out) + 2
      <3>1. s.out[i] = y
        BY <1>6, <2>3
      <3>2. y # x
        BY <1>2
      <3> QED BY <1>2, <3>1, <3>2
    <2>4. i \in 1..Len(sh.out) \/ i = Len(sh.out) + 1 \/ i = Len(sh.out) + 2
      BY <1>4, <1>6
    <2> QED BY <2>1, <2>2, <2>3, <2>4, Zenon
  <1>9. FromStdout(cur, s, rn)
    BY <1>2, <1>3, <1>6 DEF Serves, FromStdout
  <1>10. InStderr(cur, s, rn, T) /\ FromStderr(cur, s, rn, T)
    BY DEF Serves, InStderr, FromStderr
  <1> QED BY <1>7, <1>8, <1>9, <1>10 DEF Serves

-------------------------------------------------------------------------------
(* Reading from the pipes.                                                    *)

(* The records of a command that differ in nothing that counts here.          *)
LEMMA ServesAlike ==
    ASSUME NEW cur, NEW c2, NEW sh, NEW rn, NEW T, Serves(cur, sh, rn, T),
           c2.cmd = cur.cmd, c2.out = cur.out, c2.outSeen = cur.outSeen,
           c2.framed = cur.framed, c2.code = cur.code,
           c2.err = cur.err, c2.errSeen = cur.errSeen
    PROVE  Serves(c2, sh, rn, T)
  BY DEF Serves, InStdin, InStdout, InStderr, FromStdout, FromStderr

(* What is in a pipe is in what is read of it or in the rest.                 *)
LEMMA CutMembers ==
    ASSUME NEW s \in Seq(Items), NEW k \in 0..Len(s)
    PROVE  /\ ToSet(s) = ToSet(SubSeq(s, 1, k)) \cup ToSet(Rest(s, k))
           /\ ToSet(SubSeq(s, 1, k)) \subseteq ToSet(s)
  <1> DEFINE a == SubSeq(s, 1, k)
             b == Rest(s, k)
  <1>1. /\ a \in Seq(Items) /\ Len(a) = k /\ \A i \in 1..k : a[i] = s[i]
        /\ b \in Seq(Items) /\ Len(b) = Len(s) - k
        /\ \A i \in 1..(Len(s) - k) : b[i] = s[i + k]
        /\ Len(s) \in Nat
    BY Cut, Members
  <1> HIDE DEF a, b
  <1>2. \A x \in ToSet(a) : x \in ToSet(s)
    <2> SUFFICES ASSUME NEW x \in ToSet(a) PROVE x \in ToSet(s)
      OBVIOUS
    <2>1. PICK i \in 1..k : a[i] = x
      BY <1>1, Members
    <2> QED BY <1>1, <2>1, Members
  <1>3. \A x \in ToSet(b) : x \in ToSet(s)
    <2> SUFFICES ASSUME NEW x \in ToSet(b) PROVE x \in ToSet(s)
      OBVIOUS
    <2>1. PICK i \in 1..(Len(s) - k) : b[i] = x
      BY <1>1, Members
    <2>2. i + k \in 1..Len(s) /\ s[i + k] = x
      BY <1>1, <2>1
    <2> QED BY <2>2, Members
  <1>4. \A x \in ToSet(s) : x \in ToSet(a) \cup ToSet(b)
    <2> SUFFICES ASSUME NEW x \in ToSet(s) PROVE x \in ToSet(a) \cup ToSet(b)
      OBVIOUS
    <2>1. PICK i \in 1..Len(s) : s[i] = x
      BY Members
    <2>2. CASE i <= k
      <3>1. i \in 1..k
        BY <1>1, <2>1, <2>2
      <3>2. i \in 1..Len(a) /\ a[i] = x
        BY <1>1, <2>1, <3>1
      <3> QED BY <1>1, <3>2, Members
    <2>3. CASE i > k
      <3>1. i - k \in 1..(Len(s) - k) /\ (i - k) + k = i
        BY <1>1, <2>1, <2>3
      <3>2. b[i - k] = s[(i - k) + k]
        BY <1>1, <3>1
      <3>3. i - k \in 1..Len(b) /\ b[i - k] = x
        BY <1>1, <2>1, <3>1, <3>2
      <3> QED BY <1>1, <3>3, Members
    <2> QED BY <1>1, <2>1, <2>2, <2>3
  <1> QED BY <1>2, <1>3, <1>4 DEF a, b

LEMMA RestOf ==
    ASSUME NEW s \in Seq(Items), NEW k \in 0..Len(s), NEW t, t = Rest(s, k)
    PROVE  /\ t \in Seq(Items) /\ Len(s) \in Nat /\ Len(t) = Len(s) - k
           /\ \A i \in 1..(Len(s) - k) : t[i] = s[i + k]
  <1>1. /\ Rest(s, k) \in Seq(Items) /\ Len(Rest(s, k)) = Len(s) - k
        /\ \A i \in 1..(Len(s) - k) : Rest(s, k)[i] = s[i + k]
    BY Cut
  <1>2. Len(s) \in Nat
    BY Members
  <1> QED BY <1>1, <1>2, Zenon

LEMMA MemberAt ==
    ASSUME NEW s \in Seq(Items), NEW x \in ToSet(s), NEW n, n = Len(s)
    PROVE  \E i \in 1..n : s[i] = x
  BY Members

LEMMA PipeTypes ==
    ASSUME NEW cur \in Running, NEW sh \in Shells
    PROVE  /\ cur.cmd \in Commands
           /\ sh.out \in Seq(Items) /\ Len(sh.out) \in Nat
           /\ sh.err \in Seq(Items) /\ Len(sh.err) \in Nat
           /\ sh.err = <<>> <=> Len(sh.err) = 0
           /\ \A k \in 1..Len(sh.out) : k \in Nat /\ k \in 0..Len(sh.out)
           /\ \A k \in 1..Len(sh.err) : k \in Nat /\ k \in 0..Len(sh.err) /\ sh.err # <<>>
  <1>1. cur.cmd \in Commands /\ sh.out \in Seq(Items) /\ sh.err \in Seq(Items)
    BY RunningTypes, ShellTypes
  <1>2. Len(sh.out) \in Nat /\ Len(sh.err) \in Nat /\ (sh.err = <<>> <=> Len(sh.err) = 0)
    BY <1>1, Members
  <1> QED BY <1>1, <1>2

LEMMA OutChunk ==
    ASSUME NEW sh \in Shells, NEW k \in 1..Len(sh.out)
    PROVE  /\ SubSeq(sh.out, 1, k) \in Seq(Items) /\ Len(SubSeq(sh.out, 1, k)) = k
           /\ \A i \in 1..k : SubSeq(sh.out, 1, k)[i] = sh.out[i]
           /\ ToSet(SubSeq(sh.out, 1, k)) \subseteq ToSet(sh.out)
           /\ ToSet(sh.out) = ToSet(SubSeq(sh.out, 1, k)) \cup ToSet(Rest(sh.out, k))
           /\ Rest(sh.out, k) \in Seq(Items)
           /\ Len(Rest(sh.out, k)) = Len(sh.out) - k
           /\ \A i \in 1..(Len(sh.out) - k) : Rest(sh.out, k)[i] = sh.out[i + k]
  <1>1. sh.out \in Seq(Items) /\ Len(sh.out) \in Nat
    BY ShellTypes, Members
  <1>2. k \in 0..Len(sh.out)
    BY <1>1
  <1> QED BY <1>1, <1>2, Cut, CutMembers

LEMMA ErrChunk ==
    ASSUME NEW sh \in Shells, NEW k \in 1..Len(sh.err)
    PROVE  /\ SubSeq(sh.err, 1, k) \in Seq(Items) /\ Len(SubSeq(sh.err, 1, k)) = k
           /\ \A i \in 1..k : SubSeq(sh.err, 1, k)[i] = sh.err[i]
           /\ ToSet(SubSeq(sh.err, 1, k)) \subseteq ToSet(sh.err)
           /\ ToSet(sh.err) = ToSet(SubSeq(sh.err, 1, k)) \cup ToSet(Rest(sh.err, k))
  <1>1. sh.err \in Seq(Items) /\ Len(sh.err) \in Nat
    BY ShellTypes, Members
  <1>2. k \in 0..Len(sh.err)
    BY <1>1
  <1> QED BY <1>1, <1>2, Cut, CutMembers

(* Of a pipe that is read, the rest keeps its form.                           *)
LEMMA InStdoutRest ==
    ASSUME NEW cur, NEW sh \in Shells, NEW rn, InStdout(cur, sh, rn),
           NEW k \in 0..Len(sh.out), NEW s,
           s.out = Rest(sh.out, k), s.stdin = sh.stdin
    PROVE  InStdout(cur, s, rn)
  <1>1. /\ sh.out \in Seq(Items) /\ Len(sh.out) \in Nat
        /\ Len(s.out) = Len(sh.out) - k
        /\ \A i \in 1..(Len(sh.out) - k) : s.out[i] = sh.out[i + k]
    <2>1. sh.out \in Seq(Items)
      BY ShellTypes
    <2> QED BY <2>1, RestOf
  <1> SUFFICES ASSUME NEW i \in 1..Len(s.out)
               PROVE  /\ s.out[i].kind = "code" \/ s.out[i] \in {Text(cur.cmd), Mark(cur.cmd)}
                      /\ s.out[i] = Mark(cur.cmd) =>
                           /\ sh.stdin = <<>> /\ rn.ended # None
                           /\ i < Len(s.out) /\ s.out[i + 1].code = rn.ended
                           /\ \A j \in (i + 1)..Len(s.out) : s.out[j].kind = "code"
                      /\ cur.outSeen => s.out[i].kind = "code"
    BY DEF InStdout
  <1>2. i + k \in 1..Len(sh.out) /\ s.out[i] = sh.out[i + k]
    BY <1>1
  <1>3. /\ sh.out[i + k].kind = "code" \/ sh.out[i + k] \in {Text(cur.cmd), Mark(cur.cmd)}
        /\ sh.out[i + k] = Mark(cur.cmd) =>
             /\ sh.stdin = <<>> /\ rn.ended # None
             /\ i + k < Len(sh.out) /\ sh.out[i + k + 1].code = rn.ended
             /\ \A j \in (i + k + 1)..Len(sh.out) : sh.out[j].kind = "code"
        /\ cur.outSeen => sh.out[i + k].kind = "code"
    BY <1>2 DEF InStdout
  <1>4. ASSUME s.out[i] = Mark(cur.cmd)
        PROVE  /\ sh.stdin = <<>> /\ rn.ended # None
               /\ i < Len(s.out) /\ s.out[i + 1].code = rn.ended
               /\ \A j \in (i + 1)..Len(s.out) : s.out[j].kind = "code"
    <2>1. i < Len(s.out) /\ i + 1 \in 1..(Len(sh.out) - k) /\ (i + 1) + k = i + k + 1
      BY <1>1, <1>2, <1>3, <1>4
    <2>2. s.out[i + 1] = sh.out[(i + 1) + k]
      BY <1>1, <2>1
    <2>3. \A j \in (i + 1)..Len(s.out) : s.out[j].kind = "code"
      <3> TAKE j \in (i + 1)..Len(s.out)
      <3>1. j \in 1..(Len(sh.out) - k) /\ j + k \in (i + k + 1)..Len(sh.out)
        BY <1>1
      <3>2. s.out[j] = sh.out[j + k]
        BY <1>1, <3>1
      <3> QED BY <1>2, <1>3, <1>4, <3>1, <3>2
    <2> QED BY <1>2, <1>3, <1>4, <2>1, <2>2, <2>3
  <1> QED BY <1>2, <1>3, <1>4

LEMMA InStderrRest ==
    ASSUME NEW cur, NEW sh \in Shells, NEW rn, NEW T, InStderr(cur, sh, rn, T),
           NEW k \in 0..Len(sh.err), NEW s, s.err = Rest(sh.err, k)
    PROVE  InStderr(cur, s, rn, T)
  <1>1. /\ sh.err \in Seq(Items) /\ Len(sh.err) \in Nat
        /\ Len(s.err) = Len(sh.err) - k
        /\ \A i \in 1..(Len(sh.err) - k) : s.err[i] = sh.err[i + k]
    <2>1. sh.err \in Seq(Items)
      BY ShellTypes
    <2> QED BY <2>1, RestOf
  <1> SUFFICES ASSUME NEW i \in 1..Len(s.err)
               PROVE  /\ Left(s.err[i], T) \/ s.err[i] \in {Text(cur.cmd), Mark(cur.cmd)}
                      /\ s.err[i] = Mark(cur.cmd) => i = Len(s.err) /\ rn.ended # None
    BY DEF InStderr
  <1>2. i + k \in 1..Len(sh.err) /\ s.err[i] = sh.err[i + k]
    BY <1>1
  <1>3. /\ Left(sh.err[i + k], T) \/ sh.err[i + k] \in {Text(cur.cmd), Mark(cur.cmd)}
        /\ sh.err[i + k] = Mark(cur.cmd) => i + k = Len(sh.err) /\ rn.ended # None
    BY <1>2 DEF InStderr
  <1>4. i + k = Len(sh.err) => i = Len(s.err)
    BY <1>1
  <1> QED BY <1>2, <1>3, <1>4

LEMMA RestsRest ==
    ASSUME NEW sh \in Shells, NEW T, Rests(sh, T), NEW s,
           s.stdin = sh.stdin, s.framedErr = sh.framedErr,
           NEW k \in Nat, NEW m \in Nat, k <= Len(sh.out), m <= Len(sh.err),
           s.out = Rest(sh.out, k), s.err = Rest(sh.err, m)
    PROVE  Rests(s, T)
  <1>1. sh.out \in Seq(Items) /\ Len(sh.out) \in Nat /\ sh.err \in Seq(Items) /\ Len(sh.err) \in Nat
    BY ShellTypes, Members
  <1>2. k \in 0..Len(sh.out) /\ m \in 0..Len(sh.err)
    BY <1>1
  <1>3. /\ Len(s.out) = Len(sh.out) - k
        /\ \A i \in 1..(Len(sh.out) - k) : s.out[i] = sh.out[i + k]
        /\ Len(s.err) = Len(sh.err) - m
        /\ \A i \in 1..(Len(sh.err) - m) : s.err[i] = sh.err[i + m]
    BY <1>1, <1>2, RestOf
  <1>4. \A i \in 1..Len(s.out) : i + k \in 1..Len(sh.out) /\ s.out[i] = sh.out[i + k]
    BY <1>1, <1>3
  <1>5. \A i \in 1..Len(s.err) : i + m \in 1..Len(sh.err) /\ s.err[i] = sh.err[i + m]
    BY <1>1, <1>3
  <1> QED BY <1>4, <1>5 DEF Rests

LEMMA RestOfNothing ==
    ASSUME NEW s \in Seq(Items)
    PROVE  Rest(s, 0) = s /\ Rest(s, Len(s)) = <<>>
  <1>1. Len(s) \in Nat
    BY Members
  <1>2. Rest(s, 0) = s
    BY SubSeqFull DEF Rest
  <1>3. Rest(s, Len(s)) = <<>>
    BY <1>1, SubSeqEmpty DEF Rest
  <1> QED BY <1>2, <1>3

LEMMA ServesReadsOn ==
    ASSUME NEW cur \in Running, NEW sh \in Shells, NEW rn, NEW T, Serves(cur, sh, rn, T),
           NEW k \in 1..Len(sh.out), NEW chunk, chunk = SubSeq(sh.out, 1, k),
           Position(Mark(cur.cmd), chunk) = 0 \/ cur.outSeen,
           NEW s \in Shells, s.stdin = sh.stdin, s.framedErr = sh.framedErr,
           s.out = Rest(sh.out, k), s.err = sh.err, s.errEndTold = sh.errEndTold,
           NEW c2, c2.cmd = cur.cmd, c2.out = cur.out \cup Shown(chunk),
           c2.outSeen = cur.outSeen, c2.framed = cur.framed, c2.code = cur.code,
           c2.err = cur.err, c2.errSeen = cur.errSeen
    PROVE  Serves(c2, s, rn, T)
  <1> DEFINE c == cur.cmd
  <1>1. /\ c \in Commands /\ sh.out \in Seq(Items) /\ Len(sh.out) \in Nat /\ k \in 0..Len(sh.out)
    BY PipeTypes
  <1>2. /\ chunk \in Seq(Items)
        /\ ToSet(sh.out) = ToSet(chunk) \cup ToSet(s.out)
    <2>1. /\ SubSeq(sh.out, 1, k) \in Seq(Items)
          /\ ToSet(sh.out) = ToSet(SubSeq(sh.out, 1, k)) \cup ToSet(Rest(sh.out, k))
      BY OutChunk
    <2> QED BY <2>1, Zenon
  <1>3. \A x \in ToSet(sh.out) : x.kind = "code" \/ x \in {Text(c), Mark(c)}
    BY <1>1, Members DEF Serves, InStdout
  <1>4. Shown(chunk) \subseteq {Text(c), Mark(c)}
    BY <1>2, <1>3 DEF Shown
  <1>5. Text(c) \in Shown(chunk) <=> Text(c) \in ToSet(chunk)
    BY <1>1, ItemTypes DEF Shown
  <1>6. ~cur.outSeen => Mark(c) \notin ToSet(chunk)
    <2> SUFFICES ASSUME ~cur.outSeen, Mark(c) \in ToSet(chunk) PROVE FALSE
      OBVIOUS
    <2>1. Position(Mark(c), chunk) = 0
      OBVIOUS
    <2>2. \A i \in 1..Len(chunk) : chunk[i] # Mark(c)
      BY <1>2, <2>1, Found
    <2> QED BY <1>2, <2>2, Members
  <1>7. ~cur.outSeen => Shown(chunk) \subseteq {Text(c)}
    BY <1>4, <1>6 DEF Shown
  <1>8. FromStdout(c2, s, rn)
    BY <1>2, <1>4, <1>5, <1>7 DEF Serves, FromStdout
  <1>9. InStdin(c2, s, rn)
    BY DEF Serves, InStdin
  <1>10. InStdout(c2, s, rn)
    <2>1. InStdout(cur, s, rn)
      BY <1>1, InStdoutRest DEF Serves
    <2> QED BY <2>1 DEF InStdout
  <1>11. InStderr(c2, s, rn, T) /\ FromStderr(c2, s, rn, T)
    BY DEF Serves, InStderr, FromStderr
  <1> QED BY <1>8, <1>9, <1>10, <1>11 DEF Serves

(* The chunk of stdout that brings the sentinel, at position at.              *)
MarkRead(cur, sh, rn, k, chunk, at, s, c2, r) ==
    /\ chunk = SubSeq(sh.out, 1, k) /\ at = Position(Mark(cur.cmd), chunk)
    /\ at # 0 /\ ~cur.outSeen
    /\ s.stdin = sh.stdin /\ s.framedErr = sh.framedErr /\ s.errEndTold = sh.errEndTold
    /\ s.out = Rest(sh.out, k) /\ s.err = sh.err
    /\ c2.cmd = cur.cmd /\ c2.out = cur.out \cup Shown(chunk) /\ c2.outSeen
    /\ c2.framed = cur.out \cup Shown(SubSeq(chunk, 1, at - 1))
    /\ c2.code = CodeBehind(at, chunk)
    /\ c2.err = cur.err /\ (c2.errSeen => cur.errSeen \/ sh.errEndTold)
    /\ r.out = rn.out /\ r.err = rn.err /\ r.ended = rn.ended /\ r.split = (at = Len(chunk))

LEMMA ServesReadsMark ==
    ASSUME NEW cur \in Running, NEW sh \in Shells, NEW rn \in Rans, NEW T, Serves(cur, sh, rn, T),
           AtItsEnd(sh), NEW k \in 1..Len(sh.out), NEW chunk, NEW at,
           NEW s \in Shells, NEW c2, NEW r \in Rans,
           MarkRead(cur, sh, rn, k, chunk, at, s, c2, r)
    PROVE  Serves(c2, s, r, T)
  <1> /\ chunk = SubSeq(sh.out, 1, k) /\ at = Position(Mark(cur.cmd), chunk)
      /\ at # 0 /\ ~cur.outSeen
      /\ s.stdin = sh.stdin /\ s.framedErr = sh.framedErr /\ s.errEndTold = sh.errEndTold
      /\ s.out = Rest(sh.out, k) /\ s.err = sh.err
      /\ c2.cmd = cur.cmd /\ c2.out = cur.out \cup Shown(chunk) /\ c2.outSeen
      /\ c2.framed = cur.out \cup Shown(SubSeq(chunk, 1, at - 1))
      /\ c2.code = CodeBehind(at, chunk)
      /\ c2.err = cur.err /\ (c2.errSeen => cur.errSeen \/ sh.errEndTold)
      /\ r.out = rn.out /\ r.err = rn.err /\ r.ended = rn.ended /\ r.split = (at = Len(chunk))
    BY DEF MarkRead
  <1> DEFINE c == cur.cmd
             before == SubSeq(chunk, 1, at - 1)
  <1>1. /\ c \in Commands /\ sh.out \in Seq(Items) /\ Len(sh.out) \in Nat
        /\ k \in 0..Len(sh.out) /\ k \in Nat
    BY PipeTypes
  <1>2. /\ chunk \in Seq(Items) /\ Len(chunk) = k /\ \A i \in 1..k : chunk[i] = sh.out[i]
        /\ ToSet(chunk) \subseteq ToSet(sh.out)
    <2>1. /\ SubSeq(sh.out, 1, k) \in Seq(Items) /\ Len(SubSeq(sh.out, 1, k)) = k
          /\ \A i \in 1..k : SubSeq(sh.out, 1, k)[i] = sh.out[i]
          /\ ToSet(SubSeq(sh.out, 1, k)) \subseteq ToSet(sh.out)
      BY OutChunk
    <2> QED BY <2>1, Zenon
  <1>3. at \in 1..k /\ sh.out[at] = Mark(c) /\ at \in 1..Len(sh.out)
    <2>1. at \in 0..Len(chunk) /\ chunk[at] = Mark(c)
      BY <1>2, Found
    <2>2. at \in 1..k
      BY <1>1, <1>2, <2>1
    <2> QED BY <1>1, <1>2, <2>1, <2>2
  <1>4. /\ sh.stdin = <<>> /\ rn.ended # None
        /\ at < Len(sh.out) /\ sh.out[at + 1].code = rn.ended
        /\ \A j \in (at + 1)..Len(sh.out) : sh.out[j].kind = "code"
    BY <1>3 DEF Serves, InStdout
  <1>5. /\ before \in Seq(Items) /\ Len(before) = at - 1
        /\ \A i \in 1..(at - 1) : before[i] = sh.out[i]
    <2>1. at - 1 \in 0..Len(chunk) /\ \A i \in 1..(at - 1) : i \in 1..k
      BY <1>1, <1>2, <1>3
    <2>2. /\ SubSeq(chunk, 1, at - 1) \in Seq(Items) /\ Len(SubSeq(chunk, 1, at - 1)) = at - 1
          /\ \A i \in 1..(at - 1) : SubSeq(chunk, 1, at - 1)[i] = chunk[i]
      BY <1>2, <2>1, Cut
    <2> QED BY <1>2, <2>1, <2>2
  <1>6. \A i \in 1..(at - 1) : i \in 1..Len(sh.out) /\ sh.out[i] # Mark(c)
    <2> SUFFICES ASSUME NEW i \in 1..(at - 1) PROVE i \in 1..Len(sh.out) /\ sh.out[i] # Mark(c)
      OBVIOUS
    <2>1. i \in 1..Len(sh.out) /\ at \in (i + 1)..Len(sh.out)
      BY <1>1, <1>3
    <2>2. sh.out[at].kind # "code"
      BY <1>1, <1>3, ItemTypes
    <2> QED BY <2>1, <2>2 DEF Serves, InStdout
  <1> HIDE DEF before
  <1>7. Shown(before) \subseteq {Text(c)}
    <2> SUFFICES ASSUME NEW x \in ToSet(before), x.kind # "code" PROVE x = Text(c)
      BY DEF Shown
    <2>1. PICK i \in 1..(at - 1) : sh.out[i] = x
      <3>1. PICK i \in 1..(at - 1) : before[i] = x
        BY <1>5, MemberAt
      <3> QED BY <1>5, <3>1
    <2> QED BY <1>6, <2>1 DEF Serves, InStdout
  <1>8. Text(c) \in ToSet(sh.out) => Text(c) \in Shown(before)
    <2> SUFFICES ASSUME Text(c) \in ToSet(sh.out) PROVE Text(c) \in Shown(before)
      OBVIOUS
    <2>1. PICK i \in 1..Len(sh.out) : sh.out[i] = Text(c)
      BY <1>1, Members
    <2>2. i # at /\ i \notin (at + 1)..Len(sh.out)
      BY <1>1, <1>3, <1>4, <2>1, ItemTypes
    <2>3. i \in 1..(at - 1) /\ i \in 1..Len(before)
      BY <1>1, <1>3, <1>5, <2>1, <2>2
    <2>4. Text(c) \in ToSet(before)
      BY <1>5, <2>1, <2>3, Members
    <2> QED BY <1>1, <2>4, ItemTypes DEF Shown
  <1>9. Text(c) \in Shown(before) => Text(c) \in ToSet(sh.out)
    <2> SUFFICES ASSUME Text(c) \in ToSet(before) PROVE Text(c) \in ToSet(sh.out)
      BY DEF Shown
    <2>1. PICK i \in 1..(at - 1) : sh.out[i] = Text(c)
      <3>1. PICK i \in 1..(at - 1) : before[i] = Text(c)
        BY <1>5, MemberAt
      <3> QED BY <1>5, <3>1
    <2> QED BY <1>1, <1>6, <2>1, Members
  <1>10. c2.framed = IF r.out THEN {Text(c)} ELSE {}
    <2>1. cur.out \subseteq {Text(c)} /\ (rn.out <=> Text(c) \in cur.out \cup ToSet(sh.out))
      BY DEF Serves, FromStdout
    <2>2. c2.framed = cur.out \cup Shown(before)
      BY DEF before
    <2> QED BY <1>7, <1>8, <1>9, <2>1, <2>2
  <1>11. c2.code = IF r.split THEN 0 ELSE r.ended
    <2>1. CASE at = k
      <3>1. ~(at < Len(chunk))
        BY <1>1, <1>2, <2>1
      <3>2. r.split
        BY <1>2, <2>1, Zenon
      <3> QED BY <3>1, <3>2 DEF CodeBehind
    <2>2. CASE at # k
      <3>1. at < Len(chunk) /\ at + 1 \in 1..k
        BY <1>1, <1>2, <1>3, <2>2
      <3>2. chunk[at + 1] = sh.out[at + 1]
        BY <1>2, <3>1
      <3>3. ~r.split
        BY <1>2, <2>2
      <3>4. CodeBehind(at, chunk) = rn.ended
        BY <1>4, <3>1, <3>2 DEF CodeBehind
      <3> QED BY <3>3, <3>4
    <2> QED BY <2>1, <2>2
  <1>12. c2.out \subseteq {Text(c), Mark(c)}
    <2>1. \A x \in ToSet(sh.out) : x.kind = "code" \/ x \in {Text(c), Mark(c)}
      BY <1>1, Members DEF Serves, InStdout
    <2> QED BY <1>2, <2>1 DEF Shown, Serves, FromStdout
  <1>13. FromStdout(c2, s, r)
    BY <1>4, <1>10, <1>11, <1>12 DEF FromStdout
  <1>14. InStdin(c2, s, r)
    BY <1>4 DEF Serves, InStdin
  <1>15. InStdout(c2, s, r)
    <2>1. \A i \in 1..Len(s.out) : s.out[i].kind = "code"
      <3>1. /\ Len(s.out) = Len(sh.out) - k
            /\ \A i \in 1..(Len(sh.out) - k) : s.out[i] = sh.out[i + k]
        <4>1. /\ Len(Rest(sh.out, k)) = Len(sh.out) - k
              /\ \A i \in 1..(Len(sh.out) - k) : Rest(sh.out, k)[i] = sh.out[i + k]
          BY OutChunk
        <4> QED BY <4>1, Zenon
      <3>2. \A i \in 1..Len(s.out) : i + k \in (at + 1)..Len(sh.out)
        BY <1>1, <1>3, <3>1
      <3> QED BY <1>4, <3>1, <3>2
    <2>2. Mark(c).kind # "code"
      BY <1>1, ItemTypes
    <2> QED BY <2>1, <2>2 DEF InStdout
  <1>16. InStderr(c2, s, r, T)
    BY DEF Serves, InStderr
  <1>17. FromStderr(c2, s, r, T)
    BY DEF Serves, FromStderr, AtItsEnd
  <1> QED BY <1>13, <1>14, <1>15, <1>16, <1>17 DEF Serves

LEMMA ServesReadsErr ==
    ASSUME NEW cur \in Running, NEW sh \in Shells, NEW rn, NEW T, Serves(cur, sh, rn, T),
           NEW k \in 1..Len(sh.err), NEW chunk, chunk = SubSeq(sh.err, 1, k),
           Position(Mark(cur.cmd), chunk) = 0 \/ cur.errSeen,
           NEW s \in Shells, s.stdin = sh.stdin, s.framedErr = sh.framedErr,
           s.err = Rest(sh.err, k), s.out = sh.out, s.errEndTold = sh.errEndTold,
           NEW c2, c2.cmd = cur.cmd, c2.out = cur.out,
           c2.outSeen = cur.outSeen, c2.framed = cur.framed, c2.code = cur.code,
           c2.err = cur.err \cup Shown(chunk), c2.errSeen = cur.errSeen
    PROVE  Serves(c2, s, rn, T)
  <1> DEFINE c == cur.cmd
  <1>1. /\ c \in Commands /\ sh.err \in Seq(Items) /\ Len(sh.err) \in Nat /\ k \in 0..Len(sh.err)
        /\ sh.err # <<>>
    BY PipeTypes
  <1>2. /\ chunk \in Seq(Items)
        /\ ToSet(sh.err) = ToSet(chunk) \cup ToSet(s.err)
    <2>1. /\ SubSeq(sh.err, 1, k) \in Seq(Items)
          /\ ToSet(sh.err) = ToSet(SubSeq(sh.err, 1, k)) \cup ToSet(Rest(sh.err, k))
      BY ErrChunk
    <2> QED BY <2>1, Zenon
  <1>3. ~cur.errSeen
    BY <1>1 DEF Serves, FromStderr
  <1>4. \A x \in ToSet(sh.err) : Left(x, T) \/ x \in {Text(c), Mark(c)}
    BY <1>1, Members DEF Serves, InStderr
  <1>5. Mark(c) \notin ToSet(chunk)
    <2>1. \A i \in 1..Len(chunk) : chunk[i] # Mark(c)
      BY <1>2, <1>3, Found
    <2> QED BY <1>2, <2>1, Members
  <1>6. Text(c) \in Shown(chunk) <=> Text(c) \in ToSet(chunk)
    BY <1>1, ItemTypes DEF Shown
  <1>7. \A x \in Shown(chunk) : Left(x, T) \/ x = Text(c)
    BY <1>2, <1>4, <1>5 DEF Shown
  <1>8. FromStderr(c2, s, rn, T)
    BY <1>2, <1>3, <1>6, <1>7 DEF Serves, FromStderr
  <1>9. InStderr(c2, s, rn, T)
    <2>1. InStderr(cur, s, rn, T)
      BY <1>1, InStderrRest DEF Serves
    <2> QED BY <2>1 DEF InStderr
  <1>10. InStdin(c2, s, rn)
    BY DEF Serves, InStdin
  <1>11. InStdout(c2, s, rn)
    BY DEF Serves, InStdout
  <1>12. FromStdout(c2, s, rn)
    BY DEF Serves, FromStdout
  <1> QED BY <1>8, <1>9, <1>10, <1>11, <1>12 DEF Serves

(* The chunk of stderr that brings the sentinel, at position at.              *)
MarkReadErr(cur, sh, k, chunk, at, s, c2) ==
    /\ chunk = SubSeq(sh.err, 1, k) /\ at = Position(Mark(cur.cmd), chunk)
    /\ at # 0 /\ ~cur.errSeen
    /\ s.stdin = sh.stdin /\ s.framedErr = sh.framedErr /\ s.errEndTold = sh.errEndTold
    /\ s.err = Rest(sh.err, k) /\ s.out = sh.out
    /\ c2.cmd = cur.cmd /\ c2.out = cur.out
    /\ c2.outSeen = cur.outSeen /\ c2.framed = cur.framed /\ c2.code = cur.code
    /\ c2.err = cur.err \cup Shown(SubSeq(chunk, 1, at - 1)) /\ c2.errSeen

LEMMA ServesReadsErrMark ==
    ASSUME NEW cur \in Running, NEW sh \in Shells, NEW rn, NEW T, Serves(cur, sh, rn, T),
           NEW k \in 1..Len(sh.err), NEW chunk, NEW at, NEW s \in Shells, NEW c2,
           MarkReadErr(cur, sh, k, chunk, at, s, c2)
    PROVE  Serves(c2, s, rn, T)
  <1> /\ chunk = SubSeq(sh.err, 1, k) /\ at = Position(Mark(cur.cmd), chunk)
      /\ at # 0 /\ ~cur.errSeen
      /\ s.stdin = sh.stdin /\ s.framedErr = sh.framedErr /\ s.errEndTold = sh.errEndTold
      /\ s.err = Rest(sh.err, k) /\ s.out = sh.out
      /\ c2.cmd = cur.cmd /\ c2.out = cur.out
      /\ c2.outSeen = cur.outSeen /\ c2.framed = cur.framed /\ c2.code = cur.code
      /\ c2.err = cur.err \cup Shown(SubSeq(chunk, 1, at - 1)) /\ c2.errSeen
    BY DEF MarkReadErr
  <1> DEFINE c == cur.cmd
             before == SubSeq(chunk, 1, at - 1)
  <1>1. /\ c \in Commands /\ sh.err \in Seq(Items) /\ Len(sh.err) \in Nat
        /\ k \in 0..Len(sh.err) /\ k \in Nat
    BY PipeTypes
  <1>2. /\ chunk \in Seq(Items) /\ Len(chunk) = k /\ \A i \in 1..k : chunk[i] = sh.err[i]
    BY <1>1, Cut
  <1>3. at \in 1..k /\ sh.err[at] = Mark(c) /\ at \in 1..Len(sh.err)
    <2>1. at \in 0..Len(chunk) /\ chunk[at] = Mark(c)
      BY <1>2, Found
    <2>2. at \in 1..k
      BY <1>1, <1>2, <2>1
    <2> QED BY <1>1, <1>2, <2>1, <2>2
  <1>4. at = Len(sh.err) /\ k = Len(sh.err) /\ rn.ended # None
    <2>1. at = Len(sh.err) /\ rn.ended # None
      BY <1>3 DEF Serves, InStderr
    <2> QED BY <1>1, <1>3, <2>1
  <1>5. s.err = <<>> /\ ToSet(<<>>) = {}
    BY <1>1, <1>4, RestOfNothing DEF ToSet
  <1>6. /\ before \in Seq(Items) /\ Len(before) = at - 1
        /\ \A i \in 1..(at - 1) : before[i] = sh.err[i]
    <2>1. at - 1 \in 0..Len(chunk) /\ \A i \in 1..(at - 1) : i \in 1..k
      BY <1>1, <1>2, <1>3
    <2>2. /\ SubSeq(chunk, 1, at - 1) \in Seq(Items) /\ Len(SubSeq(chunk, 1, at - 1)) = at - 1
          /\ \A i \in 1..(at - 1) : SubSeq(chunk, 1, at - 1)[i] = chunk[i]
      BY <1>2, <2>1, Cut
    <2> QED BY <1>2, <2>1, <2>2
  <1>7. \A i \in 1..(at - 1) :
           i \in 1..Len(sh.err) /\ (Left(sh.err[i], T) \/ sh.err[i] = Text(c))
    <2> SUFFICES ASSUME NEW i \in 1..(at - 1)
                 PROVE  i \in 1..Len(sh.err) /\ (Left(sh.err[i], T) \/ sh.err[i] = Text(c))
      OBVIOUS
    <2>1. i \in 1..Len(sh.err) /\ i # Len(sh.err)
      BY <1>1, <1>3, <1>4
    <2> QED BY <2>1 DEF Serves, InStderr
  <1> HIDE DEF before
  <1>8. \A x \in Shown(before) : Left(x, T) \/ x = Text(c)
    <2> SUFFICES ASSUME NEW x \in ToSet(before) PROVE Left(x, T) \/ x = Text(c)
      BY DEF Shown
    <2>1. PICK i \in 1..(at - 1) : sh.err[i] = x
      <3>1. PICK i \in 1..(at - 1) : before[i] = x
        BY <1>6, MemberAt
      <3> QED BY <1>6, <3>1
    <2> QED BY <1>7, <2>1
  <1>9. Text(c) \in ToSet(sh.err) <=> Text(c) \in Shown(before)
    <2>1. ASSUME Text(c) \in ToSet(sh.err) PROVE Text(c) \in Shown(before)
      <3>1. PICK i \in 1..Len(sh.err) : sh.err[i] = Text(c)
        BY <1>1, <2>1, Members
      <3>2. i # at
        BY <1>1, <1>3, <3>1, ItemTypes
      <3>3. i \in 1..(at - 1) /\ i \in 1..Len(before)
        BY <1>1, <1>4, <1>6, <3>1, <3>2
      <3>4. Text(c) \in ToSet(before)
        BY <1>6, <3>1, <3>3, Members
      <3> QED BY <1>1, <3>4, ItemTypes DEF Shown
    <2>2. ASSUME Text(c) \in Shown(before) PROVE Text(c) \in ToSet(sh.err)
      <3>1. Text(c) \in ToSet(before)
        BY <2>2 DEF Shown
      <3>2. PICK i \in 1..(at - 1) : sh.err[i] = Text(c)
        BY <1>6, <3>1, Members
      <3> QED BY <1>1, <1>7, <3>2, Members
    <2> QED BY <2>1, <2>2
  <1>10. FromStderr(c2, s, rn, T)
    <2>1. c2.err = cur.err \cup Shown(before)
      BY DEF before
    <2> QED BY <1>4, <1>5, <1>8, <1>9, <2>1 DEF Serves, FromStderr
  <1>11. InStderr(c2, s, rn, T)
    BY <1>5 DEF InStderr
  <1>12. InStdin(c2, s, rn)
    BY DEF Serves, InStdin
  <1>13. InStdout(c2, s, rn)
    BY DEF Serves, InStdout
  <1>14. FromStdout(c2, s, rn)
    BY DEF Serves, FromStdout
  <1> QED BY <1>10, <1>11, <1>12, <1>13, <1>14 DEF Serves

-------------------------------------------------------------------------------
(* Answers.                                                                   *)

(* A command whose two sentinels were read, or who is given up at the end of  *)
(* the window, leaves its shell ready for the next.                           *)
LEMMA Finished ==
    ASSUME NEW cur \in Running, NEW sh \in Shells, NEW rn \in Rans, NEW T,
           Serves(cur, sh, rn, T), cur.outSeen, cur.cmd \notin T
    PROVE  /\ Rests(sh, T \cup {cur.cmd})
           /\ cur.errSeen => Rests(sh, T)
           /\ \A a \in Answers :
                 /\ a.kind = "framed" /\ a.out = cur.framed /\ a.err = cur.err
                 /\ a.code = cur.code /\ (cur.errSeen \/ a.truncated)
                 => Right(cur.cmd, a, rn, T)
  <1> DEFINE c == cur.cmd
  <1>1. /\ c \in Commands /\ Text(c) \in Items /\ Mark(c) \in Items
        /\ Text(c).kind = "text" /\ Mark(c).kind = "mark" /\ Text(c).of = c /\ Mark(c).of = c
    BY RunningTypes, ItemTypes DEF Text, Mark, Item
  <1>2. /\ sh.stdin = <<>> /\ ~sh.framedErr
        /\ \A i \in 1..Len(sh.out) : sh.out[i].kind = "code"
    BY DEF Serves, InStdin, InStdout
  <1>3. \A i \in 1..Len(sh.err) : Left(sh.err[i], T \cup {c})
    <2> SUFFICES ASSUME NEW i \in 1..Len(sh.err) PROVE Left(sh.err[i], T \cup {c})
      OBVIOUS
    <2>1. Left(sh.err[i], T) \/ sh.err[i] \in {Text(c), Mark(c)}
      BY DEF Serves, InStderr
    <2> QED BY <1>1, <2>1 DEF Left
  <1>4. cur.errSeen => sh.err = <<>> /\ ToSet(<<>>) = {} /\ Len(<<>>) = 0
    BY DEF Serves, FromStderr, ToSet
  <1>5. /\ rn.ended # None
        /\ cur.framed = IF rn.out THEN {Text(c)} ELSE {}
        /\ cur.code = IF rn.split THEN 0 ELSE rn.ended
    BY DEF Serves, FromStdout
  <1>6. /\ \A i \in cur.err : Left(i, T) \/ i = Text(c)
        /\ cur.errSeen => (rn.err <=> Text(c) \in cur.err)
    BY <1>4 DEF Serves, FromStderr
  <1>7. Own(c, cur.framed) = cur.framed /\ Foreign(c, cur.framed) = {}
    BY <1>1, <1>5 DEF Own, Foreign
  <1>8. \A i \in Foreign(c, cur.err) : i.of \in T
    BY <1>1, <1>6 DEF Foreign, Left
  <1>9. cur.errSeen => Own(c, cur.err) = IF rn.err THEN {Text(c)} ELSE {}
    BY <1>1, <1>6 DEF Own, Left
  <1>10. ASSUME NEW a \in Answers, a.kind = "framed", a.out = cur.framed, a.err = cur.err,
                a.code = cur.code, cur.errSeen \/ a.truncated
         PROVE  Right(c, a, rn, T)
    BY <1>5, <1>7, <1>8, <1>9, <1>10 DEF Right
  <1>11. Rests(sh, T \cup {c})
    BY <1>2, <1>3 DEF Rests
  <1>12. ASSUME cur.errSeen PROVE Rests(sh, T)
    <2>1. Len(sh.err) = 0
      BY <1>4, <1>12
    <2>2. \A i \in 1..Len(sh.err) : Left(sh.err[i], T)
      BY <2>1
    <2> QED BY <1>2, <2>2 DEF Rests
  <1> QED BY <1>10, <1>11, <1>12

(* A command given up before that gets what was read for it.                  *)
LEMMA GivenUp ==
    ASSUME NEW cur \in Running, NEW sh, NEW rn, NEW T, Serves(cur, sh, rn, T),
           NEW a \in Answers, a.kind # "framed", a.out = cur.out, a.err = cur.err
    PROVE  Right(cur.cmd, a, rn, T)
  <1> DEFINE c == cur.cmd
  <1>1. Text(c).of = c /\ Mark(c).of = c
    BY DEF Text, Mark, Item
  <1>2. Foreign(c, cur.out) = {}
    BY <1>1 DEF Foreign, Serves, FromStdout
  <1>3. \A i \in Foreign(c, cur.err) : i.of \in T
    BY <1>1 DEF Foreign, Left, Serves, FromStderr
  <1> QED BY <1>2, <1>3 DEF Right

LEMMA Answering ==
    ASSUME TypeOK, AnswersInv, NEW c \in Commands, answers[c] = None, NEW a \in Answers,
           answers' = [answers EXCEPT ![c] = a],
           \A d \in Commands : d # c => ran'[d] = ran[d],
           Right(c, a, ran'[c], TruncatedSet)
    PROVE  /\ AnswersInv' /\ TruncatedSet \subseteq TruncatedSet'
           /\ a.truncated => TruncatedSet' = TruncatedSet \cup {c}
  <1>1. answers \in [Commands -> Answers \cup {None}] /\ a # None
    BY ConstantTypes DEF TypeOK
  <1>2. \A d \in Commands : answers'[d] = IF d = c THEN a ELSE answers[d]
    BY <1>1
  <1>3. TruncatedSet \subseteq TruncatedSet'
    BY <1>2 DEF TruncatedSet
  <1>4. a.truncated => TruncatedSet' = TruncatedSet \cup {c}
    BY <1>1, <1>2 DEF TruncatedSet
  <1>5. AnswersInv'
    <2> SUFFICES ASSUME NEW d \in Commands, answers'[d] # None
                 PROVE  Right(d, answers'[d], ran'[d], TruncatedSet')
      BY DEF AnswersInv
    <2>1. Right(d, answers'[d], ran'[d], TruncatedSet)
      BY <1>2 DEF AnswersInv
    <2> QED BY <1>3, <2>1 DEF Right
  <1> QED BY <1>3, <1>4, <1>5

LEMMA NotAnswering ==
    ASSUME AnswersInv, answers' = answers,
           \A d \in Commands : answers[d] # None => ran'[d] = ran[d]
    PROVE  AnswersInv' /\ TruncatedSet' = TruncatedSet
  <1>1. TruncatedSet' = TruncatedSet
    BY DEF TruncatedSet
  <1> QED BY <1>1 DEF AnswersInv


-------------------------------------------------------------------------------
(* Steps of the whole: what a step must establish of the one shell that       *)
(* matters, when the command goes on, is answered, or when there is none.     *)

RansOf(c) == \A d \in Commands : d # c => ran'[d] = ran[d]

LEMMA TheCommand ==
    ASSUME TypeOK, OwnInv, current # None
    PROVE  /\ current \in Running /\ current.cmd \in Commands /\ current.shell \in Commands
           /\ current.cmd = taken /\ answers[current.cmd] = None
           /\ session.process \in {None, current.shell}
           /\ current.cmd \notin TruncatedSet
           /\ shells[current.shell] \in Shells /\ ran[current.cmd] \in Rans
           /\ current.shell # None /\ taken \in Nat
  <1>1. current \in Running /\ shells \in [Commands -> Shells] /\ ran \in [Commands -> Rans]
    BY DEF TypeOK, Rans
  <1>2. current.cmd \in Commands /\ current.shell \in Commands
    BY <1>1, RunningTypes
  <1>3. /\ current.cmd = taken /\ answers[current.cmd] = None
        /\ session.process \in {None, current.shell}
    BY DEF OwnInv, OwnCommand
  <1>4. current.cmd \notin TruncatedSet
    BY <1>3 DEF TruncatedSet
  <1>5. current.shell # None /\ taken \in Nat
    BY <1>2, <1>3, ConstantTypes
  <1> QED BY <1>1, <1>2, <1>3, <1>4, <1>5

LEMMA StillNotYet ==
    ASSUME TypeOK, OwnInv, NotYet, taken' = taken,
           ran' = ran \/ (current # None /\ RansOf(current.cmd))
    PROVE  NotYet'
  <1> SUFFICES ASSUME NEW c \in Commands, c > taken
               PROVE  ~ran'[c].out /\ ~ran'[c].err /\ ran'[c].ended = None
    BY DEF NotYet
  <1>1. ran'[c] = ran[c]
    <2>1. CASE ran' = ran
      BY <2>1
    <2>2. CASE current # None /\ RansOf(current.cmd)
      <3>1. current.cmd = taken /\ taken \in Nat /\ c \in Nat
        BY <2>2, TheCommand, ConstantTypes
      <3>2. c # current.cmd
        BY <3>1
      <3> QED BY <2>2, <3>2 DEF RansOf
    <2> QED BY <2>1, <2>2
  <1> QED BY <1>1 DEF NotYet

LEMMA GoesOn ==
    ASSUME TypeOK, OwnInv, WorkInv, current # None, current' \in Running,
           current'.cmd = current.cmd, current'.shell = current.shell,
           answers' = answers, taken' = taken, RansOf(current.cmd),
           Serves(current', shells'[current.shell], ran'[current.cmd], TruncatedSet)
    PROVE  ServesInv' /\ NotYet' /\ AnswersInv'
  <1>1. current' # None
    BY ConstantTypes
  <1>2. AnswersInv' /\ TruncatedSet' = TruncatedSet
    <2>1. \A d \in Commands : answers[d] # None => ran'[d] = ran[d]
      BY TheCommand DEF RansOf
    <2> QED BY <2>1, NotAnswering DEF WorkInv
  <1>3. ServesInv'
    BY <1>1, <1>2 DEF ServesInv
  <1>4. NotYet'
    BY StillNotYet DEF WorkInv
  <1> QED BY <1>2, <1>3, <1>4

LEMMA GetsItsAnswer ==
    ASSUME TypeOK, OwnInv, WorkInv, current # None, current' = None, NEW a \in Answers,
           answers' = [answers EXCEPT ![current.cmd] = a],
           taken' = taken, RansOf(current.cmd),
           Right(current.cmd, a, ran'[current.cmd], TruncatedSet),
           session'.process \in {None, current.shell},
           session'.process # None =>
               IF a.truncated THEN Rests(shells'[current.shell], TruncatedSet \cup {current.cmd})
               ELSE Rests(shells'[current.shell], TruncatedSet)
    PROVE  ServesInv' /\ NotYet' /\ AnswersInv'
  <1>1. /\ AnswersInv' /\ TruncatedSet \subseteq TruncatedSet'
        /\ a.truncated => TruncatedSet' = TruncatedSet \cup {current.cmd}
    BY TheCommand, Answering DEF WorkInv, RansOf
  <1>2. session'.process # None => Rests(shells'[session'.process], TruncatedSet')
    <2> SUFFICES ASSUME session'.process # None PROVE Rests(shells'[current.shell], TruncatedSet')
      OBVIOUS
    <2>1. CASE a.truncated
      BY <1>1, <2>1
    <2>2. CASE ~a.truncated
      BY <1>1, <2>2, RestsMore
    <2> QED BY <2>1, <2>2
  <1>3. ServesInv'
    BY <1>2 DEF ServesInv
  <1>4. NotYet'
    BY StillNotYet DEF WorkInv
  <1> QED BY <1>1, <1>3, <1>4

LEMMA StaysIdle ==
    ASSUME TypeOK, OwnInv, WorkInv, current = None, current' = None,
           answers' = answers, taken' = taken, ran' = ran,
           session'.process \in {None, session.process},
           session'.process # None => Rests(shells'[session.process], TruncatedSet)
    PROVE  ServesInv' /\ NotYet' /\ AnswersInv'
  <1>1. AnswersInv' /\ TruncatedSet' = TruncatedSet
    BY NotAnswering DEF WorkInv
  <1>2. ServesInv'
    BY <1>1 DEF ServesInv
  <1>3. NotYet'
    BY StillNotYet DEF WorkInv
  <1> QED BY <1>1, <1>2, <1>3

LEMMA StillAtItsEnd ==
    ASSUME TypeOK, OwnInv, EndInv,
           \A p \in Commands : AtItsEnd(shells'[p]),
           session'.process \in {None, session.process},
           current # None => current' = None \/ current'.shell = current.shell,
           current = None => current' = None,
           \A p \in Commands : Concerned(p) =>
               (shells[p].errEndTold => shells'[p].errEndTold),
           session'.stderrEnded =>
               \/ session.stderrEnded
               \/ /\ session.process # None => shells'[session.process].errEndTold
                  /\ current # None => shells'[current.shell].errEndTold
    PROVE  EndInv'
  <1>1. /\ session.process \in Commands \cup {None}
        /\ current # None => current.shell \in Commands
    BY TheCommand DEF TypeOK
  <1>2. ASSUME session'.stderrEnded, session'.process # None
        PROVE  shells'[session'.process].errEndTold
    <2>1. session'.process = session.process /\ session.process \in Commands
      BY <1>1, <1>2
    <2>2. Concerned(session.process)
      BY DEF Concerned
    <2> QED BY <1>2, <2>1, <2>2 DEF EndInv
  <1>3. ASSUME session'.stderrEnded, current' # None
        PROVE  shells'[current'.shell].errEndTold
    <2>1. current # None /\ current'.shell = current.shell /\ current.shell \in Commands
      BY <1>1, <1>3
    <2>2. Concerned(current.shell)
      BY <2>1 DEF Concerned, Listening
    <2> QED BY <1>3, <2>1, <2>2 DEF EndInv
  <1> QED BY <1>2, <1>3 DEF EndInv

LEMMA FrameSettles ==
    ASSUME TypeOK, OwnInv, WorkInv, current # None, NEW cur \in Running,
           cur.cmd = current.cmd, cur.shell = current.shell, ~cur.truncated,
           SettleIfFramed(cur), RansOf(current.cmd), ran'[current.cmd] \in Rans,
           taken' = taken, session'.process \in {None, current.shell},
           shells'[current.shell] \in Shells,
           Serves(cur, shells'[current.shell], ran'[current.cmd], TruncatedSet)
    PROVE  ServesInv' /\ NotYet' /\ AnswersInv'
  <1>1. CASE cur.outSeen /\ cur.errSeen
    <2>1. current' = None /\ answers' = [answers EXCEPT ![current.cmd] = Framed(cur)]
      BY <1>1 DEF SettleIfFramed
    <2>2. /\ Framed(cur) \in Answers /\ Framed(cur).kind = "framed"
          /\ Framed(cur).out = cur.framed /\ Framed(cur).err = cur.err
          /\ Framed(cur).code = cur.code /\ Framed(cur).truncated = cur.truncated
      BY AnswerTypes DEF Framed, Answer
    <2>3. cur.cmd \notin TruncatedSet
      BY TheCommand
    <2> HIDE DEF Framed
    <2>4. /\ Rests(shells'[current.shell], TruncatedSet)
          /\ Right(current.cmd, Framed(cur), ran'[current.cmd], TruncatedSet)
      BY <1>1, <2>2, <2>3, Finished
    <2> QED BY <2>1, <2>2, <2>4, GetsItsAnswer
  <1>2. CASE ~(cur.outSeen /\ cur.errSeen)
    <2>1. current' = cur /\ answers' = answers
      BY <1>2 DEF SettleIfFramed
    <2> QED BY <2>1, GoesOn
  <1> QED BY <1>1, <1>2


-------------------------------------------------------------------------------
(* The steps of the session object.                                           *)

LEMMA WorkInit == Init => WorkInv
  <1> SUFFICES ASSUME Init PROVE WorkInv
    OBVIOUS
  <1>1. ServesInv /\ AnswersInv
    BY DEF Init, ServesInv, AnswersInv
  <1>2. NotYet
    BY DEF Init, NotYet
  <1>3. EndInv
    BY DEF Init, EndInv, AtItsEnd, Unborn, NewShell
  <1> QED BY <1>1, <1>2, <1>3 DEF WorkInv

LEMMA WorkSame ==
    ASSUME WorkInv, UNCHANGED <<taken, session, current, shells, answers, ran>>
    PROVE  WorkInv'
  <1>1. TruncatedSet' = TruncatedSet
    BY DEF TruncatedSet
  <1>2. ServesInv'
    BY <1>1 DEF WorkInv, ServesInv
  <1>3. AnswersInv'
    BY <1>1 DEF WorkInv, AnswersInv
  <1>4. NotYet' /\ EndInv'
    BY DEF WorkInv, NotYet, EndInv
  <1> QED BY <1>2, <1>3, <1>4 DEF WorkInv

(* A command that never starts is answered for good.                          *)
LEMMA Refused ==
    ASSUME TypeOK, OwnInv, WorkInv, taken < issued, taken' = taken + 1, ran' = ran,
           NEW a \in Answers, answers' = [answers EXCEPT ![First] = a],
           a.kind # "framed", a.out = {}, a.err = {}
    PROVE  AnswersInv' /\ NotYet' /\ TruncatedSet \subseteq TruncatedSet'
  <1>1. First \in Commands /\ First = taken + 1 /\ taken \in Nat /\ Commands \in SUBSET Nat
    BY FirstIsNext, ConstantTypes
  <1>2. answers[First] = None
    BY <1>1 DEF OwnInv, Unanswered
  <1>3. Right(First, a, ran'[First], TruncatedSet)
    BY DEF Right, Foreign
  <1>4. AnswersInv' /\ TruncatedSet \subseteq TruncatedSet'
    BY <1>1, <1>2, <1>3, Answering DEF WorkInv
  <1>5. \A c \in Commands : c > taken + 1 => c > taken
    BY <1>1
  <1>6. NotYet'
    BY <1>5 DEF WorkInv, NotYet
  <1> QED BY <1>4, <1>6

LEMMA RunBlankWorks == TypeInv /\ OwnInv /\ WorkInv /\ RunBlank => WorkInv'
  <1> SUFFICES ASSUME TypeInv, OwnInv, WorkInv, RunBlank PROVE WorkInv'
    OBVIOUS
  <1> DEFINE a == Answer("blank", {}, {}, 0, FALSE)
  <1>1. /\ TypeOK /\ taken < issued /\ taken' = taken + 1 /\ current = None
        /\ answers' = [answers EXCEPT ![First] = a]
        /\ UNCHANGED <<session, current, shells, ran>>
    BY DEF TypeInv, RunBlank, Waiting
  <1>2. a \in Answers /\ a.kind # "framed" /\ a.out = {} /\ a.err = {}
    BY DEF Answer, Answers
  <1> HIDE DEF a
  <1>3. AnswersInv' /\ NotYet' /\ TruncatedSet \subseteq TruncatedSet'
    BY <1>1, <1>2, Refused
  <1>4. ServesInv'
    BY <1>1, <1>3, RestsMore DEF WorkInv, ServesInv
  <1>5. EndInv'
    BY <1>1 DEF WorkInv, EndInv
  <1> QED BY <1>3, <1>4, <1>5 DEF WorkInv

LEMMA StartAbortedWorks == TypeInv /\ OwnInv /\ WorkInv /\ StartAborted => WorkInv'
  <1> SUFFICES ASSUME TypeInv, OwnInv, WorkInv, StartAborted PROVE WorkInv'
    OBVIOUS
  <1> DEFINE a == Answer("aborted", {}, {}, 130, FALSE)
             now == Started(First)
             sh == WithStarted(First)
  <1>1. /\ TypeOK /\ taken < issued /\ taken' = taken + 1 /\ current = None /\ current' = None
        /\ answers' = [answers EXCEPT ![First] = a] /\ ran' = ran
        /\ shells' = [sh EXCEPT ![now.process].killed = TRUE]
        /\ session' = [now EXCEPT !.process = None]
    BY DEF TypeInv, StartAborted, Waiting
  <1>2. a \in Answers /\ a.kind # "framed" /\ a.out = {} /\ a.err = {}
    BY DEF Answer, Answers
  <1>3. First \in Commands
    BY <1>1, FirstIsNext
  <1>4. /\ now.process \in Commands /\ sh \in [Commands -> Shells]
        /\ now \in [process : Commands \cup {None}, stderrEnded : BOOLEAN]
        /\ \A p \in Commands :
             sh[p] = IF session.process = None /\ p = First THEN NewShell ELSE shells[p]
    BY <1>1, <1>3, Starting
  <1> HIDE DEF a, now, sh
  <1>5. AnswersInv' /\ NotYet'
    BY <1>1, <1>2, Refused
  <1>6. session'.process = None
    BY <1>1, <1>4
  <1>7. ServesInv'
    BY <1>1, <1>6 DEF ServesInv
  <1>8. \A p \in Commands : AtItsEnd(shells'[p])
    <2> SUFFICES ASSUME NEW p \in Commands PROVE AtItsEnd(shells'[p])
      OBVIOUS
    <2>1. AtItsEnd(sh[p]) /\ sh[p] \in Shells
      BY <1>4 DEF WorkInv, EndInv, AtItsEnd, NewShell
    <2>2. shells'[p] = IF p = now.process THEN [sh[p] EXCEPT !.killed = TRUE] ELSE sh[p]
      BY <1>1, <1>4
    <2> QED BY <2>1, <2>2 DEF AtItsEnd, Shells
  <1>9. EndInv'
    BY <1>1, <1>6, <1>8 DEF EndInv
  <1> QED BY <1>5, <1>7, <1>9 DEF WorkInv

(* A shell at rest is given a command.                                        *)
LEMMA ServesBegins ==
    ASSUME NEW c \in Commands, NEW sh \in Shells, NEW T, Rests(sh, T), c \notin T,
           NEW rn, ~rn.out, ~rn.err, rn.ended = None,
           NEW s, s.stdin \in {<<>>, <<c>>}, ~s.framedErr, s.out = sh.out, s.err = sh.err,
           NEW cur, cur.cmd = c, cur.out = {}, cur.err = {}, ~cur.outSeen,
           cur.errSeen => s.errEndTold /\ sh.err = <<>>
    PROVE  Serves(cur, s, rn, T)
  <1>1. /\ Text(c) \in Items /\ Text(c).kind = "text" /\ Mark(c).kind = "mark"
        /\ Text(c).of = c /\ Mark(c).of = c
    BY ItemTypes DEF Text, Mark, Item
  <1>2. sh.out \in Seq(Items) /\ sh.err \in Seq(Items)
    BY ShellTypes
  <1>3. InStdin(cur, s, rn)
    BY DEF InStdin, Rests
  <1>4. InStdout(cur, s, rn)
    BY <1>1 DEF InStdout, Rests
  <1>5. InStderr(cur, s, rn, T)
    BY <1>1 DEF InStderr, Rests, Left
  <1>6. Text(c) \notin ToSet(sh.out)
    BY <1>1, <1>2, Members DEF Rests
  <1>7. Text(c) \notin ToSet(sh.err)
    BY <1>1, <1>2, Members DEF Rests, Left
  <1>8. FromStdout(cur, s, rn)
    BY <1>6 DEF FromStdout
  <1>9. FromStderr(cur, s, rn, T)
    BY <1>7 DEF FromStderr
  <1> QED BY <1>3, <1>4, <1>5, <1>8, <1>9 DEF Serves

LEMMA StartWorks == TypeInv /\ OwnInv /\ WorkInv /\ Start => WorkInv'
  <1> SUFFICES ASSUME TypeInv, OwnInv, WorkInv, Start PROVE WorkInv'
    OBVIOUS
  <1> DEFINE now == Started(First)
             sh == WithStarted(First)
             p == now.process
             cur == [cmd |-> First, shell |-> now.process, out |-> {}, err |-> {},
                     outSeen |-> FALSE, errSeen |-> now.stderrEnded,
                     framed |-> {}, code |-> 0, grace |-> FALSE, truncated |-> FALSE]
  <1>1. /\ TypeOK /\ taken < issued /\ taken' = taken + 1 /\ current = None
        /\ answers' = answers /\ ran' = ran /\ session' = now /\ current' = cur
        /\ shells' = IF sh[p].state = "alive" THEN [sh EXCEPT ![p].stdin = Append(@, First)]
                     ELSE sh
    BY DEF TypeInv, Start, Waiting
  <1>2. First \in Commands /\ First = taken + 1 /\ taken \in Nat /\ Commands \in SUBSET Nat
    BY <1>1, FirstIsNext, ConstantTypes
  <1>3. /\ p \in Commands /\ sh \in [Commands -> Shells] /\ sh[p] \in Shells
        /\ \A q \in Commands :
             sh[q] = IF session.process = None /\ q = First THEN NewShell ELSE shells[q]
        /\ session.process # None => now = session
        /\ session.process = None => p = First /\ ~now.stderrEnded
    BY <1>1, <1>2, Starting
  <1>4. /\ cur.cmd = First /\ cur.shell = p /\ cur.out = {} /\ cur.err = {} /\ ~cur.outSeen
        /\ cur.errSeen = now.stderrEnded /\ cur # None
    <2>1. First \in Commands /\ p \in Commands /\ now.stderrEnded \in BOOLEAN
      BY <1>1, <1>2, Starting
    <2>2. cur \in Running
      <3> HIDE DEF Items, now
      <3> QED BY <2>1 DEF Running
    <2> QED BY <2>2, ConstantTypes
  <1> HIDE DEF now, sh, p, cur
  <1>5. /\ answers[First] = None /\ First \notin TruncatedSet
        /\ ~ran[First].out /\ ~ran[First].err /\ ran[First].ended = None
    BY <1>2 DEF OwnInv, Unanswered, TruncatedSet, WorkInv, NotYet
  <1>6. /\ Rests(sh[p], TruncatedSet)
        /\ now.stderrEnded => sh[p].errEndTold
        /\ \A q \in Commands : AtItsEnd(sh[q])
    <2>1. \A q \in Commands : AtItsEnd(sh[q])
      BY <1>3 DEF WorkInv, EndInv, AtItsEnd, NewShell
    <2>2. CASE session.process = None
      <3>1. sh[p] = NewShell /\ ~now.stderrEnded
        BY <1>2, <1>3, <2>2
      <3>2. Len(<<>>) = 0
        OBVIOUS
      <3> QED BY <2>1, <3>1, <3>2 DEF Rests, NewShell
    <2>3. CASE session.process # None
      <3>1. now = session /\ p = session.process /\ sh[p] = shells[p]
        BY <1>3, <2>3 DEF p
      <3> QED BY <1>1, <2>1, <2>3, <3>1 DEF WorkInv, ServesInv, EndInv
    <2> QED BY <2>1, <2>2, <2>3
  <1>7. /\ shells'[p].stdin \in {<<>>, <<First>>}
        /\ \A q \in Commands :
              /\ shells'[q].framedErr = sh[q].framedErr /\ shells'[q].out = sh[q].out
              /\ shells'[q].err = sh[q].err /\ shells'[q].errEndTold = sh[q].errEndTold
              /\ shells'[q].state = sh[q].state /\ shells'[q].errOpen = sh[q].errOpen
    <2>1. sh[p].stdin = <<>>
      BY <1>6 DEF Rests
    <2>2. CASE sh[p].state = "alive"
      <3>1. shells' = [sh EXCEPT ![p].stdin = Append(@, First)]
        BY <1>1, <2>2
      <3>2. Append(<<>>, First) = <<First>>
        OBVIOUS
      <3>3. shells'[p] = [sh[p] EXCEPT !.stdin = <<First>>]
        BY <1>3, <2>1, <3>1, <3>2
      <3>4. \A q \in Commands : q # p => shells'[q] = sh[q]
        BY <1>3, <3>1
      <3>5. shells'[p].stdin = <<First>>
        BY <1>3, <3>3 DEF Shells
      <3>6. /\ shells'[p].framedErr = sh[p].framedErr /\ shells'[p].out = sh[p].out
            /\ shells'[p].err = sh[p].err /\ shells'[p].errEndTold = sh[p].errEndTold
            /\ shells'[p].state = sh[p].state /\ shells'[p].errOpen = sh[p].errOpen
        BY <1>3, <3>3 DEF Shells
      <3> QED BY <3>4, <3>5, <3>6
    <2>3. CASE sh[p].state # "alive"
      BY <1>1, <2>1, <2>3
    <2> QED BY <2>2, <2>3
  <1>8. Serves(cur, shells'[p], ran[First], TruncatedSet)
    <2>1. /\ ~shells'[p].framedErr /\ shells'[p].out = sh[p].out /\ shells'[p].err = sh[p].err
          /\ cur.errSeen => shells'[p].errEndTold /\ sh[p].err = <<>>
      BY <1>3, <1>4, <1>6, <1>7 DEF Rests, AtItsEnd
    <2> QED BY <1>2, <1>3, <1>4, <1>5, <1>6, <1>7, <2>1, ServesBegins
  <1>9. AnswersInv' /\ TruncatedSet' = TruncatedSet
    BY <1>1, NotAnswering DEF WorkInv
  <1>10. ServesInv'
    BY <1>1, <1>4, <1>8, <1>9 DEF ServesInv
  <1>11. NotYet'
    <2>1. \A c \in Commands : c > taken + 1 => c > taken
      BY <1>2
    <2> QED BY <1>1, <2>1 DEF WorkInv, NotYet
  <1>12. EndInv'
    <2>1. \A q \in Commands : AtItsEnd(shells'[q])
      BY <1>6, <1>7 DEF AtItsEnd
    <2>2. session'.stderrEnded => shells'[p].errEndTold
      BY <1>1, <1>3, <1>6, <1>7
    <2>3. session'.process = p /\ current'.shell = p
      BY <1>1, <1>4 DEF p
    <2> QED BY <2>1, <2>2, <2>3 DEF EndInv
  <1> QED BY <1>9, <1>10, <1>11, <1>12 DEF WorkInv


(* A signal that was sent changes nothing in the pipes yet.                   *)
LEMMA KillSent ==
    ASSUME TypeOK, Kill
    PROVE  /\ session'.process = None /\ session'.stderrEnded = session.stderrEnded
           /\ \A q \in Commands :
                 /\ shells'[q].stdin = shells[q].stdin /\ shells'[q].framedErr = shells[q].framedErr
                 /\ shells'[q].out = shells[q].out /\ shells'[q].err = shells[q].err
                 /\ shells'[q].errEndTold = shells[q].errEndTold
                 /\ shells'[q].state = shells[q].state /\ shells'[q].errOpen = shells[q].errOpen
  <1>1. /\ shells \in [Commands -> Shells]
        /\ session \in [process : Commands \cup {None}, stderrEnded : BOOLEAN]
    BY DEF TypeOK
  <1>2. session'.process = None /\ session'.stderrEnded = session.stderrEnded
    BY <1>1 DEF Kill
  <1>3. \A q \in Commands : shells'[q] =
           IF session.process = q THEN [shells[q] EXCEPT !.killed = TRUE] ELSE shells[q]
    BY Signals DEF Kill
  <1>4. ASSUME NEW q \in Commands
        PROVE  /\ shells'[q].stdin = shells[q].stdin /\ shells'[q].framedErr = shells[q].framedErr
               /\ shells'[q].out = shells[q].out /\ shells'[q].err = shells[q].err
               /\ shells'[q].errEndTold = shells[q].errEndTold
               /\ shells'[q].state = shells[q].state /\ shells'[q].errOpen = shells[q].errOpen
    <2>1. shells[q] \in Shells
      BY <1>1
    <2>2. CASE session.process = q
      <3>1. shells'[q] = [shells[q] EXCEPT !.killed = TRUE]
        BY <1>3, <2>2
      <3> QED BY <2>1, <3>1 DEF Shells
    <2>3. CASE session.process # q
      BY <1>3, <2>3
    <2> QED BY <2>2, <2>3
  <1> QED BY <1>2, <1>4

LEMMA KillEnds ==
    ASSUME TypeOK, OwnInv, EndInv, Kill,
           current # None => current' = None \/ current'.shell = current.shell,
           current = None => current' = None
    PROVE  EndInv'
  <1>1. \A q \in Commands : AtItsEnd(shells'[q])
    BY KillSent DEF EndInv, AtItsEnd
  <1> QED BY <1>1, KillSent, StillAtItsEnd

LEMMA GivesUpWorks ==
    ASSUME TypeInv, OwnInv, WorkInv, current # None, Kill, taken' = taken, ran' = ran,
           NEW kind \in {"timedOut", "aborted"}, NEW k \in {124, 130}, Settle(Partial(kind, k))
    PROVE  WorkInv'
  <1> DEFINE a == Partial(kind, k)
  <1>1. TypeOK /\ current' = None /\ answers' = [answers EXCEPT ![current.cmd] = a]
    BY DEF TypeInv, Settle
  <1>2. a \in Answers
    BY <1>1, PartialTypes
  <1>3. a.kind # "framed" /\ a.out = current.out /\ a.err = current.err
    BY DEF Partial, Answer
  <1> HIDE DEF a
  <1>4. Right(current.cmd, a, ran'[current.cmd], TruncatedSet)
    BY <1>1, <1>2, <1>3, TheCommand, GivenUp DEF WorkInv, ServesInv
  <1>5. session'.process = None
    BY <1>1, KillSent
  <1>6. ServesInv' /\ NotYet' /\ AnswersInv'
    BY <1>1, <1>2, <1>4, <1>5, GetsItsAnswer DEF RansOf
  <1>7. EndInv'
    BY <1>1, KillEnds DEF WorkInv
  <1> QED BY <1>6, <1>7 DEF WorkInv

LEMMA KillSessionWorks == TypeInv /\ OwnInv /\ WorkInv /\ KillSession => WorkInv'
  <1> SUFFICES ASSUME TypeInv, OwnInv, WorkInv, KillSession PROVE WorkInv'
    OBVIOUS
  <1>1. TypeOK /\ Kill /\ UNCHANGED <<taken, current, answers, ran>>
    BY DEF TypeInv, KillSession
  <1>2. EndInv'
    BY <1>1, KillEnds DEF WorkInv
  <1>3. session'.process = None
    BY <1>1, KillSent
  <1>4. CASE current # None
    <2>1. Serves(current, shells'[current.shell], ran[current.cmd], TruncatedSet)
      BY <1>1, <1>4, TheCommand, KillSent, ServesSame DEF WorkInv, ServesInv
    <2>2. ServesInv' /\ NotYet' /\ AnswersInv'
      BY <1>1, <1>4, <2>1, TheCommand, GoesOn DEF RansOf
    <2> QED BY <1>2, <2>2 DEF WorkInv
  <1>5. CASE current = None
    <2>1. ServesInv' /\ NotYet' /\ AnswersInv'
      BY <1>1, <1>3, <1>5, StaysIdle
    <2> QED BY <1>2, <2>1 DEF WorkInv
  <1> QED BY <1>4, <1>5

LEMMA AbortWorks ==
    ASSUME TypeInv, OwnInv, WorkInv, NEW c \in Commands, Abort(c)
    PROVE  WorkInv'
  <1>1. CASE current # None /\ current.cmd = c
    <2>1. Kill /\ Settle(Partial("aborted", 130)) /\ taken' = taken /\ ran' = ran
      BY <1>1 DEF Abort
    <2> QED BY <1>1, <2>1, GivesUpWorks
  <1>2. CASE ~(current # None /\ current.cmd = c)
    BY <1>2, WorkSame DEF Abort
  <1> QED BY <1>1, <1>2

LEMMA TimeoutWorks == TypeInv /\ OwnInv /\ WorkInv /\ Timeout => WorkInv'
  BY GivesUpWorks DEF Timeout

LEMMA GraceWorks == TypeInv /\ OwnInv /\ WorkInv /\ GraceFires => WorkInv'
  <1> SUFFICES ASSUME TypeInv, OwnInv, WorkInv, GraceFires PROVE WorkInv'
    OBVIOUS
  <1> DEFINE cur == [current EXCEPT !.truncated = TRUE, !.errSeen = TRUE]
  <1>1. /\ TypeOK /\ current # None /\ current.grace /\ SettleIfFramed(cur)
        /\ UNCHANGED <<taken, session, shells, ran>>
    BY DEF TypeInv, GraceFires
  <1>2. /\ current \in Running /\ cur \in Running
        /\ current.cmd \notin TruncatedSet
        /\ shells[current.shell] \in Shells /\ ran[current.cmd] \in Rans
        /\ session.process \in {None, current.shell}
        /\ Serves(current, shells[current.shell], ran[current.cmd], TruncatedSet)
    BY <1>1, TheCommand, RunningTypes DEF WorkInv, ServesInv
  <1>3. /\ cur.cmd = current.cmd /\ cur.out = current.out /\ cur.err = current.err
        /\ cur.framed = current.framed /\ cur.code = current.code
        /\ cur.outSeen /\ cur.errSeen /\ cur.truncated /\ current.outSeen
    BY <1>1, <1>2 DEF Running, OwnInv, OwnCommand
  <1> HIDE DEF cur
  <1>4. current' = None /\ answers' = [answers EXCEPT ![current.cmd] = Framed(cur)]
    BY <1>1, <1>3 DEF SettleIfFramed
  <1>5. /\ Framed(cur) \in Answers /\ Framed(cur).kind = "framed"
        /\ Framed(cur).out = current.framed /\ Framed(cur).err = current.err
        /\ Framed(cur).code = current.code /\ Framed(cur).truncated
    BY <1>2, <1>3, AnswerTypes DEF Framed, Answer
  <1> HIDE DEF Framed
  <1>6. /\ Rests(shells[current.shell], TruncatedSet \cup {current.cmd})
        /\ Right(current.cmd, Framed(cur), ran[current.cmd], TruncatedSet)
    BY <1>2, <1>3, <1>5, Finished
  <1>7. ServesInv' /\ NotYet' /\ AnswersInv'
    BY <1>1, <1>2, <1>4, <1>5, <1>6, GetsItsAnswer DEF RansOf
  <1>8. EndInv'
    BY <1>1, <1>4 DEF WorkInv, EndInv
  <1> QED BY <1>7, <1>8 DEF WorkInv


-------------------------------------------------------------------------------
(* The handlers of the pipes.                                                 *)

LEMMA Unheard ==
    ASSUME TypeOK, OwnInv, NEW p \in Commands, Concerned(p), ~Listening(p)
    PROVE  current = None /\ session.process = p
  <1>1. current = None
    BY TheConcerned DEF Listening
  <1> QED BY <1>1 DEF Concerned

LEMMA ReadStdoutWorks ==
    ASSUME TypeInv, OwnInv, WorkInv, NEW p \in Commands, Concerned(p), ReadStdout(p)
    PROVE  WorkInv'
  <1>1. /\ TypeOK /\ shells \in [Commands -> Shells] /\ shells[p] \in Shells
        /\ ran \in [Commands -> Rans] /\ AtItsEnd(shells[p])
    BY DEF TypeInv, TypeOK, Rans, WorkInv, EndInv
  <1>2. PICK k \in 1..Len(shells[p].out) :
           /\ shells' = [shells EXCEPT ![p] = [shells[p] EXCEPT !.out = Rest(@, k)]]
           /\ IF Listening(p) THEN OnStdout(SubSeq(shells[p].out, 1, k))
              ELSE k = Len(shells[p].out) /\ UNCHANGED <<current, answers, ran>>
           /\ SubSeq(shells[p].out, 1, k) \in Seq(Items)
           /\ [shells[p] EXCEPT !.out = Rest(@, k)] \in Shells
           /\ UNCHANGED <<issued, taken, aborted, session, interrupts>>
    BY <1>1, ReadOut
  <1> DEFINE s == [shells[p] EXCEPT !.out = Rest(@, k)]
  <1>3. /\ s \in Shells /\ s.out = Rest(shells[p].out, k) /\ s.err = shells[p].err
        /\ s.stdin = shells[p].stdin /\ s.framedErr = shells[p].framedErr
        /\ s.errEndTold = shells[p].errEndTold /\ s.state = shells[p].state
        /\ s.errOpen = shells[p].errOpen
    BY <1>1, <1>2 DEF Shells
  <1>4. /\ shells'[p] = s /\ \A q \in Commands : q # p => shells'[q] = shells[q]
        /\ taken' = taken /\ session' = session
    BY <1>1, <1>2
  <1> HIDE DEF s
  <1>5. \A q \in Commands : AtItsEnd(shells'[q])
    BY <1>1, <1>3, <1>4 DEF AtItsEnd, WorkInv, EndInv
  <1>6. \A q \in Commands : shells[q].errEndTold => shells'[q].errEndTold
    BY <1>3, <1>4
  <1>7. CASE ~Listening(p)
    <2>1. current = None /\ session.process = p /\ UNCHANGED <<current, answers, ran>>
      BY <1>1, <1>2, <1>7, Unheard
    <2>2. Rests(s, TruncatedSet)
      <3>1. /\ Rests(shells[p], TruncatedSet) /\ p # None
        BY <2>1, ConstantTypes DEF WorkInv, ServesInv
      <3>2. /\ Len(shells[p].out) \in Nat /\ shells[p].err \in Seq(Items)
            /\ Len(shells[p].err) \in Nat
        BY <1>1, ShellTypes, Members
      <3>3. s.err = Rest(shells[p].err, 0)
        BY <1>3, <3>2, RestOfNothing
      <3>4. k \in Nat /\ 0 \in Nat /\ k <= Len(shells[p].out) /\ 0 <= Len(shells[p].err)
        BY <3>2
      <3> QED BY <1>1, <1>3, <3>1, <3>3, <3>4, RestsRest
    <2>3. ServesInv' /\ NotYet' /\ AnswersInv'
      BY <1>1, <1>4, <2>1, <2>2, StaysIdle
    <2>4. EndInv'
      BY <1>1, <1>4, <1>5, <1>6, <2>1, StillAtItsEnd DEF WorkInv
    <2> QED BY <2>3, <2>4 DEF WorkInv
  <1>8. CASE Listening(p)
    <2> DEFINE chunk == SubSeq(shells[p].out, 1, k)
               at == Position(Mark(current.cmd), chunk)
               err == current.errSeen \/ session.stderrEnded
               code == CodeBehind(at, chunk)
               before == Shown(SubSeq(chunk, 1, at - 1))
               seen == [current EXCEPT !.out = @ \cup Shown(chunk), !.outSeen = TRUE,
                          !.errSeen = err, !.framed = current.out \cup before, !.code = code]
    <2>1. /\ current # None /\ p = current.shell /\ current \in Running
          /\ current.cmd \in Commands /\ ran[current.cmd] \in Rans
          /\ session.process \in {None, p} /\ ~current.truncated
          /\ Serves(current, shells[p], ran[current.cmd], TruncatedSet)
          /\ chunk \in Seq(Items) /\ OnStdout(chunk)
      BY <1>1, <1>2, <1>8, TheCommand DEF Listening, WorkInv, ServesInv, OwnInv, OwnCommand
    <2>2. Shown(chunk) \in SUBSET Items
      BY <2>1, ShownTypes
    <2>3. CASE at = 0 \/ current.outSeen
      <3>1. current' = [current EXCEPT !.out = @ \cup Shown(chunk)] /\ UNCHANGED <<answers, ran>>
        BY <2>1, <2>3 DEF OnStdout
      <3> HIDE DEF chunk
      <3>2. /\ current' \in Running
            /\ current'.cmd = current.cmd /\ current'.shell = current.shell
            /\ current'.out = current.out \cup Shown(chunk)
            /\ current'.outSeen = current.outSeen /\ current'.framed = current.framed
            /\ current'.code = current.code /\ current'.err = current.err
            /\ current'.errSeen = current.errSeen
        <4>1. current' \in Running
          BY <2>1, <2>2, <3>1, RunningTypes
        <4> QED BY <2>1, <3>1, <4>1 DEF Running
      <3>3. Serves(current', s, ran[current.cmd], TruncatedSet)
        <4>1. /\ chunk = SubSeq(shells[p].out, 1, k)
              /\ Position(Mark(current.cmd), chunk) = 0 \/ current.outSeen
          BY <2>3 DEF chunk
        <4>2. /\ current \in Running /\ shells[p] \in Shells /\ s \in Shells
              /\ Serves(current, shells[p], ran[current.cmd], TruncatedSet)
          BY <1>1, <1>3, <2>1
        <4> HIDE DEF at
        <4> QED BY <1>3, <3>2, <4>1, <4>2, ServesReadsOn
      <3>4. ServesInv' /\ NotYet' /\ AnswersInv'
        BY <1>1, <1>4, <2>1, <3>1, <3>2, <3>3, GoesOn DEF RansOf
      <3>5. EndInv'
        BY <1>1, <1>4, <1>5, <1>6, <2>1, <3>2, StillAtItsEnd DEF WorkInv
      <3> QED BY <3>4, <3>5 DEF WorkInv
    <2>4. CASE ~(at = 0 \/ current.outSeen)
      <3>1. /\ SettleIfFramed(ArmGrace(seen))
            /\ ran' = [ran EXCEPT ![current.cmd].split = (at = Len(chunk))]
        BY <2>1, <2>4 DEF OnStdout
      <3>2. at \in 1..Len(chunk)
        <4> HIDE DEF at, chunk
        <4>1. at \in 0..Len(chunk) /\ at # 0
          BY <2>1, <2>4, Found DEF at
        <4>2. Len(chunk) \in Nat
          BY <2>1, Members
        <4> QED BY <4>1, <4>2
      <3>3. code \in ExitCodes \cup {0}
        BY <2>1, <3>2, CodeTypes
      <3>4. before \in SUBSET Items
        <4> HIDE DEF at, chunk
        <4>1. at - 1 \in 0..Len(chunk)
          BY <2>1, <3>2, Members
        <4>2. SubSeq(chunk, 1, at - 1) \in Seq(Items)
          BY <2>1, <4>1, Cut
        <4> QED BY <4>2, ShownTypes
      <3>5. err \in BOOLEAN /\ (err => current.errSeen \/ shells[p].errEndTold)
        BY <1>1, <2>1, RunningTypes DEF TypeOK, WorkInv, EndInv
      <3>6. seen \in Running
        <4> HIDE DEF err, code, before, chunk
        <4> QED BY <2>1, <2>2, <3>3, <3>4, <3>5, RunningTypes
      <3>7. /\ seen.cmd = current.cmd /\ seen.shell = current.shell
            /\ seen.out = current.out \cup Shown(chunk) /\ seen.outSeen
            /\ seen.framed = current.out \cup before /\ seen.code = code
            /\ seen.err = current.err /\ seen.errSeen = err
            /\ seen.truncated = current.truncated
        <4> HIDE DEF err, code, before, chunk
        <4> QED BY <2>1 DEF Running
      <3> DEFINE c2 == ArmGrace(seen)
      <3>8. /\ c2 \in Running
            /\ c2.cmd = seen.cmd /\ c2.shell = seen.shell /\ c2.out = seen.out
            /\ c2.outSeen = seen.outSeen /\ c2.framed = seen.framed /\ c2.code = seen.code
            /\ c2.err = seen.err /\ c2.errSeen = seen.errSeen /\ c2.truncated = seen.truncated
        <4> HIDE DEF seen
        <4>1. c2 \in Running
          BY <3>6, RunningTypes
        <4> QED BY <3>6, <4>1 DEF ArmGrace, Running
      <3> DEFINE r == [ran[current.cmd] EXCEPT !.split = (at = Len(chunk))]
      <3>9. /\ r \in Rans /\ r.out = ran[current.cmd].out /\ r.err = ran[current.cmd].err
            /\ r.ended = ran[current.cmd].ended /\ r.split = (at = Len(chunk))
        <4> DEFINE b == (at = Len(chunk))
        <4>1. b \in BOOLEAN
          OBVIOUS
        <4> HIDE DEF b
        <4>2. /\ [ran[current.cmd] EXCEPT !.split = b] \in Rans
              /\ [ran[current.cmd] EXCEPT !.split = b].split = b
              /\ [ran[current.cmd] EXCEPT !.split = b].out = ran[current.cmd].out
              /\ [ran[current.cmd] EXCEPT !.split = b].err = ran[current.cmd].err
              /\ [ran[current.cmd] EXCEPT !.split = b].ended = ran[current.cmd].ended
          BY <2>1, <4>1, RanTypes
        <4> QED BY <4>2 DEF b
      <3> HIDE DEF c2, seen, r
      <3>10. ran'[current.cmd] = r /\ RansOf(current.cmd)
        BY <1>1, <2>1, <3>1 DEF RansOf, r
      <3>11. Serves(c2, s, r, TruncatedSet)
        <4>1. at # 0 /\ ~current.outSeen
          BY <2>4
        <4>2. /\ c2.cmd = current.cmd /\ c2.out = current.out \cup Shown(chunk) /\ c2.outSeen
              /\ c2.framed = current.out \cup Shown(SubSeq(chunk, 1, at - 1))
              /\ c2.code = CodeBehind(at, chunk) /\ c2.err = current.err
              /\ c2.errSeen => current.errSeen \/ shells[p].errEndTold
          <5> HIDE DEF at, chunk
          <5> QED BY <3>5, <3>7, <3>8
        <4>3. chunk = SubSeq(shells[p].out, 1, k) /\ at = Position(Mark(current.cmd), chunk)
          OBVIOUS
        <4>4. r.split = (at = Len(chunk))
          BY <3>9
        <4>5. /\ r \in Rans /\ r.out = ran[current.cmd].out /\ r.err = ran[current.cmd].err
              /\ r.ended = ran[current.cmd].ended
          BY <3>9
        <4>6. /\ current \in Running /\ shells[p] \in Shells /\ ran[current.cmd] \in Rans
              /\ Serves(current, shells[p], ran[current.cmd], TruncatedSet)
              /\ AtItsEnd(shells[p])
          BY <1>1, <2>1
        <4> HIDE DEF at, chunk
        <4>7. MarkRead(current, shells[p], ran[current.cmd], k, chunk, at, s, c2, r)
          BY <1>3, <4>1, <4>2, <4>3, <4>4, <4>5 DEF MarkRead
        <4> QED BY <1>3, <4>5, <4>6, <4>7, ServesReadsMark
      <3>12. ServesInv' /\ NotYet' /\ AnswersInv'
        <4>1. SettleIfFramed(c2) /\ ~c2.truncated /\ c2.shell = current.shell /\ c2.cmd = current.cmd
          BY <2>1, <3>1, <3>7, <3>8 DEF c2
        <4> QED BY <1>1, <1>3, <1>4, <2>1, <3>8, <3>9, <3>10, <3>11, <4>1, FrameSettles
      <3>13. EndInv'
        <4>1. current' \in {None, c2}
          BY <3>1 DEF SettleIfFramed, c2
        <4> QED BY <1>1, <1>4, <1>5, <1>6, <2>1, <3>7, <3>8, <4>1, StillAtItsEnd DEF WorkInv
      <3> QED BY <3>12, <3>13 DEF WorkInv
    <2> QED BY <2>3, <2>4
  <1> QED BY <1>7, <1>8


LEMMA ReadStderrWorks ==
    ASSUME TypeInv, OwnInv, WorkInv, NEW p \in Commands, Concerned(p), ReadStderr(p)
    PROVE  WorkInv'
  <1>1. /\ TypeOK /\ shells \in [Commands -> Shells] /\ shells[p] \in Shells
        /\ AtItsEnd(shells[p])
    BY DEF TypeInv, TypeOK, WorkInv, EndInv
  <1>2. PICK k \in 1..Len(shells[p].err) :
           /\ shells' = [shells EXCEPT ![p] = [shells[p] EXCEPT !.err = Rest(@, k)]]
           /\ IF Listening(p) THEN OnStderr(SubSeq(shells[p].err, 1, k))
              ELSE k = Len(shells[p].err) /\ UNCHANGED <<current, answers>>
           /\ SubSeq(shells[p].err, 1, k) \in Seq(Items)
           /\ [shells[p] EXCEPT !.err = Rest(@, k)] \in Shells
           /\ UNCHANGED <<issued, taken, aborted, session, ran, interrupts>>
    BY <1>1, ReadErr
  <1> DEFINE s == [shells[p] EXCEPT !.err = Rest(@, k)]
  <1>3. /\ s \in Shells /\ s.err = Rest(shells[p].err, k) /\ s.out = shells[p].out
        /\ s.stdin = shells[p].stdin /\ s.framedErr = shells[p].framedErr
        /\ s.errEndTold = shells[p].errEndTold /\ s.state = shells[p].state
        /\ s.errOpen = shells[p].errOpen
    BY <1>1, <1>2 DEF Shells
  <1>4. /\ shells'[p] = s /\ \A q \in Commands : q # p => shells'[q] = shells[q]
        /\ taken' = taken /\ session' = session /\ ran' = ran
    BY <1>1, <1>2
  <1> HIDE DEF s
  <1>5. \A q \in Commands : AtItsEnd(shells'[q])
    <2>1. shells[p].err \in Seq(Items) /\ Len(shells[p].err) \in Nat
      BY <1>1, ShellTypes, Members
    <2>2. shells[p].err # <<>>
      BY <2>1
    <2>3. AtItsEnd(s)
      BY <1>1, <1>3, <2>2 DEF AtItsEnd
    <2> QED BY <1>4, <2>3 DEF WorkInv, EndInv
  <1>6. \A q \in Commands : shells[q].errEndTold => shells'[q].errEndTold
    BY <1>3, <1>4
  <1>7. CASE ~Listening(p)
    <2>1. current = None /\ session.process = p /\ UNCHANGED <<current, answers>>
      BY <1>1, <1>2, <1>7, Unheard
    <2>2. Rests(s, TruncatedSet)
      <3>1. /\ Rests(shells[p], TruncatedSet) /\ p # None
        BY <2>1, ConstantTypes DEF WorkInv, ServesInv
      <3>2. /\ Len(shells[p].err) \in Nat /\ shells[p].out \in Seq(Items)
            /\ Len(shells[p].out) \in Nat
        BY <1>1, ShellTypes, Members
      <3>3. s.out = Rest(shells[p].out, 0)
        BY <1>3, <3>2, RestOfNothing
      <3>4. k \in Nat /\ 0 \in Nat /\ k <= Len(shells[p].err) /\ 0 <= Len(shells[p].out)
        BY <3>2
      <3> QED BY <1>1, <1>3, <3>1, <3>3, <3>4, RestsRest
    <2>3. ServesInv' /\ NotYet' /\ AnswersInv'
      BY <1>1, <1>4, <2>1, <2>2, StaysIdle
    <2>4. EndInv'
      BY <1>1, <1>4, <1>5, <1>6, <2>1, StillAtItsEnd DEF WorkInv
    <2> QED BY <2>3, <2>4 DEF WorkInv
  <1>8. CASE Listening(p)
    <2> DEFINE chunk == SubSeq(shells[p].err, 1, k)
               at == Position(Mark(current.cmd), chunk)
               before == Shown(SubSeq(chunk, 1, at - 1))
               longer == [current EXCEPT !.err = @ \cup Shown(chunk)]
               seen == [current EXCEPT !.err = @ \cup before, !.errSeen = TRUE]
    <2>1. /\ current # None /\ p = current.shell /\ current \in Running
          /\ current.cmd \in Commands /\ ran[current.cmd] \in Rans
          /\ session.process \in {None, p} /\ ~current.truncated
          /\ Serves(current, shells[p], ran[current.cmd], TruncatedSet)
          /\ chunk \in Seq(Items) /\ OnStderr(chunk)
      BY <1>1, <1>2, <1>8, TheCommand DEF Listening, WorkInv, ServesInv, OwnInv, OwnCommand
    <2>2. Shown(chunk) \in SUBSET Items
      BY <2>1, ShownTypes
    <2>3. CASE at = 0 \/ current.errSeen
      <3>1. current' = ArmGrace(longer) /\ UNCHANGED answers
        BY <2>1, <2>3 DEF OnStderr
      <3> HIDE DEF chunk
      <3>2. longer \in Running /\ current' \in Running
        BY <2>1, <2>2, <3>1, RunningTypes
      <3>3. /\ longer.cmd = current.cmd /\ longer.shell = current.shell
            /\ longer.out = current.out /\ longer.err = current.err \cup Shown(chunk)
            /\ longer.outSeen = current.outSeen /\ longer.framed = current.framed
            /\ longer.code = current.code /\ longer.errSeen = current.errSeen
        BY <2>1 DEF Running
      <3> HIDE DEF longer
      <3>4. /\ current'.cmd = longer.cmd /\ current'.shell = longer.shell
            /\ current'.out = longer.out /\ current'.err = longer.err
            /\ current'.outSeen = longer.outSeen /\ current'.framed = longer.framed
            /\ current'.code = longer.code /\ current'.errSeen = longer.errSeen
        BY <3>1, <3>2 DEF ArmGrace, Running
      <3>5. Serves(current', s, ran[current.cmd], TruncatedSet)
        <4>1. /\ chunk = SubSeq(shells[p].err, 1, k)
              /\ Position(Mark(current.cmd), chunk) = 0 \/ current.errSeen
          BY <2>3 DEF chunk
        <4>2. /\ current'.cmd = current.cmd /\ current'.out = current.out
              /\ current'.outSeen = current.outSeen /\ current'.framed = current.framed
              /\ current'.code = current.code /\ current'.errSeen = current.errSeen
              /\ current'.err = current.err \cup Shown(chunk)
          BY <3>3, <3>4, Zenon
        <4>3. /\ current \in Running /\ shells[p] \in Shells /\ s \in Shells
              /\ Serves(current, shells[p], ran[current.cmd], TruncatedSet)
          BY <1>1, <1>3, <2>1
        <4> HIDE DEF at
        <4> QED BY <1>3, <4>1, <4>2, <4>3, ServesReadsErr
      <3>6. ServesInv' /\ NotYet' /\ AnswersInv'
        BY <1>1, <1>4, <2>1, <3>1, <3>2, <3>3, <3>4, <3>5, GoesOn DEF RansOf
      <3>7. EndInv'
        BY <1>1, <1>4, <1>5, <1>6, <2>1, <3>3, <3>4, StillAtItsEnd DEF WorkInv
      <3> QED BY <3>6, <3>7 DEF WorkInv
    <2>4. CASE ~(at = 0 \/ current.errSeen)
      <3>1. SettleIfFramed(seen)
        BY <2>1, <2>4 DEF OnStderr
      <3>2. before \in SUBSET Items
        <4> HIDE DEF at, chunk
        <4>1. at \in 0..Len(chunk) /\ at # 0 /\ Len(chunk) \in Nat
          BY <2>1, <2>4, Found, Members DEF at
        <4>2. at - 1 \in 0..Len(chunk)
          BY <4>1
        <4>3. SubSeq(chunk, 1, at - 1) \in Seq(Items)
          BY <2>1, <4>2, Cut
        <4> QED BY <4>3, ShownTypes
      <3>3. seen \in Running
        <4> HIDE DEF before
        <4> QED BY <2>1, <3>2, RunningTypes
      <3>4. /\ seen.cmd = current.cmd /\ seen.shell = current.shell
            /\ seen.out = current.out /\ seen.err = current.err \cup before
            /\ seen.outSeen = current.outSeen /\ seen.framed = current.framed
            /\ seen.code = current.code /\ seen.errSeen
            /\ seen.truncated = current.truncated
        <4> HIDE DEF before
        <4> QED BY <2>1 DEF Running
      <3>5. MarkReadErr(current, shells[p], k, chunk, at, s, seen)
        <4>1. /\ chunk = SubSeq(shells[p].err, 1, k) /\ at = Position(Mark(current.cmd), chunk)
              /\ at # 0 /\ ~current.errSeen
          BY <2>4
        <4>2. seen.err = current.err \cup Shown(SubSeq(chunk, 1, at - 1))
          BY <3>4
        <4> HIDE DEF at, chunk, seen
        <4> QED BY <1>3, <3>4, <4>1, <4>2 DEF MarkReadErr
      <3> HIDE DEF seen, at, chunk
      <3>6. Serves(seen, s, ran[current.cmd], TruncatedSet)
        BY <1>1, <1>3, <2>1, <3>5, ServesReadsErrMark
      <3>7. ServesInv' /\ NotYet' /\ AnswersInv'
        BY <1>1, <1>3, <1>4, <2>1, <3>1, <3>3, <3>4, <3>6, FrameSettles DEF RansOf
      <3>8. EndInv'
        <4>1. current' \in {None, seen}
          BY <3>1 DEF SettleIfFramed
        <4> QED BY <1>1, <1>4, <1>5, <1>6, <2>1, <3>4, <4>1, StillAtItsEnd DEF WorkInv
      <3> QED BY <3>7, <3>8 DEF WorkInv
    <2> QED BY <2>3, <2>4
  <1> QED BY <1>7, <1>8

LEMMA StderrEndsWorks ==
    ASSUME TypeInv, OwnInv, WorkInv, NEW p \in Commands, Concerned(p), StderrEnds(p)
    PROVE  WorkInv'
  <1> DEFINE s == [shells[p] EXCEPT !.errEndTold = TRUE]
  <1>1. /\ TypeOK /\ shells \in [Commands -> Shells] /\ shells[p] \in Shells
        /\ session \in [process : Commands \cup {None}, stderrEnded : BOOLEAN]
        /\ shells[p].err = <<>> /\ ~ErrHeld(p)
        /\ shells' = [shells EXCEPT ![p] = s]
        /\ taken' = taken /\ ran' = ran
    BY DEF TypeInv, TypeOK, StderrEnds
  <1>2. /\ s \in Shells /\ s.errEndTold /\ s.err = <<>> /\ s.out = shells[p].out
        /\ s.stdin = shells[p].stdin /\ s.framedErr = shells[p].framedErr
        /\ s.state = shells[p].state /\ s.errOpen = shells[p].errOpen
    BY <1>1 DEF Shells
  <1> HIDE DEF s
  <1>3. shells'[p] = s /\ \A q \in Commands : q # p => shells'[q] = shells[q]
    BY <1>1
  <1>4. AtItsEnd(s)
    BY <1>1, <1>2 DEF AtItsEnd, ErrHeld, Alive
  <1>5. /\ \A q \in Commands : AtItsEnd(shells'[q])
        /\ \A q \in Commands : shells[q].errEndTold => shells'[q].errEndTold
    BY <1>2, <1>3, <1>4 DEF WorkInv, EndInv
  <1>6. CASE ~Listening(p)
    <2>1. current = None /\ session.process = p /\ UNCHANGED <<session, current, answers>>
      BY <1>1, <1>6, Unheard DEF StderrEnds
    <2>2. Rests(s, TruncatedSet)
      <3>1. Rests(shells[p], TruncatedSet)
        BY <2>1, ConstantTypes DEF WorkInv, ServesInv
      <3> QED BY <1>1, <1>2, <3>1, RestsSame DEF Rests
    <2>3. ServesInv' /\ NotYet' /\ AnswersInv'
      BY <1>1, <1>3, <2>1, <2>2, StaysIdle
    <2>4. EndInv'
      BY <1>1, <1>5, <2>1, StillAtItsEnd DEF WorkInv
    <2> QED BY <2>3, <2>4 DEF WorkInv
  <1>7. CASE Listening(p)
    <2> DEFINE seen == [current EXCEPT !.errSeen = TRUE]
    <2>1. /\ current # None /\ p = current.shell /\ current \in Running
          /\ ran[current.cmd] \in Rans /\ SettleIfFramed(seen)
          /\ session.process \in {None, p} /\ ~current.truncated
          /\ Serves(current, shells[p], ran[current.cmd], TruncatedSet)
      BY <1>1, <1>7, TheCommand
         DEF Listening, StderrEnds, WorkInv, ServesInv, OwnInv, OwnCommand
    <2>2. session'.process = session.process
      BY <1>1, <1>7 DEF StderrEnds
    <2>3. seen \in Running
      BY <2>1, RunningTypes
    <2>4. /\ seen.cmd = current.cmd /\ seen.shell = current.shell
          /\ seen.out = current.out /\ seen.err = current.err
          /\ seen.outSeen = current.outSeen /\ seen.framed = current.framed
          /\ seen.code = current.code /\ seen.errSeen
          /\ seen.truncated = current.truncated
      BY <2>1 DEF Running
    <2> HIDE DEF seen
    <2>5. Serves(seen, s, ran[current.cmd], TruncatedSet)
      <3>1. Serves(current, s, ran[current.cmd], TruncatedSet)
        BY <1>1, <1>2, <2>1, ServesSame
      <3> QED BY <1>2, <2>4, <3>1
              DEF Serves, InStdin, InStdout, InStderr, FromStdout, FromStderr
    <2>6. ServesInv' /\ NotYet' /\ AnswersInv'
      BY <1>1, <1>2, <1>3, <2>1, <2>2, <2>3, <2>4, <2>5, FrameSettles DEF RansOf
    <2>7. EndInv'
      <3>1. current' \in {None, seen}
        BY <2>1 DEF SettleIfFramed
      <3> QED BY <1>1, <1>2, <1>3, <1>5, <2>1, <2>2, <2>4, <3>1, StillAtItsEnd DEF WorkInv
    <2> QED BY <2>6, <2>7 DEF WorkInv
  <1> QED BY <1>6, <1>7

LEMMA OnCloseWorks ==
    ASSUME TypeInv, OwnInv, WorkInv, NEW p \in Commands, OnClose(p)
    PROVE  WorkInv'
  <1> DEFINE a == Partial("died", shells[p].code)
  <1>1. /\ TypeOK /\ current # None /\ p = current.shell /\ shells[p].exitTold
        /\ current' = None /\ answers' = [answers EXCEPT ![current.cmd] = a]
        /\ UNCHANGED <<taken, session, shells, ran>>
    BY DEF TypeInv, OnClose, Listening, Settle
  <1>2. a \in Answers
    <2>1. shells[p].code \in {-1, 0, 1}
      BY <1>1, TheCommand, ShellTypes
    <2> QED BY <1>1, <2>1, PartialTypes
  <1>3. a.kind # "framed" /\ a.out = current.out /\ a.err = current.err
    BY DEF Partial, Answer
  <1> HIDE DEF a
  <1>4. Right(current.cmd, a, ran'[current.cmd], TruncatedSet)
    BY <1>1, <1>2, <1>3, TheCommand, GivenUp DEF WorkInv, ServesInv
  <1>5. session'.process = None
    BY <1>1, TheCommand DEF OwnInv, OwnShell
  <1>6. ServesInv' /\ NotYet' /\ AnswersInv'
    BY <1>1, <1>2, <1>4, <1>5, GetsItsAnswer DEF RansOf
  <1>7. EndInv'
    BY <1>1, <1>5 DEF WorkInv, EndInv
  <1> QED BY <1>6, <1>7 DEF WorkInv


-------------------------------------------------------------------------------
(* The processes.                                                             *)

(* Only the command being run is ever before a shell that matters.            *)
LEMMA AtWork ==
    ASSUME TypeInv, OwnInv, WorkInv, NEW p \in Commands, Concerned(p), shells[p].stdin # <<>>
    PROVE  /\ current # None /\ p = current.shell /\ Runs(p) = current.cmd
           /\ Serves(current, shells[p], ran[current.cmd], TruncatedSet)
           /\ Tail(shells[p].stdin) = <<>>
  <1>1. TypeOK /\ p # None
    BY ConstantTypes DEF TypeInv
  <1>2. current # None
    <2> SUFFICES ASSUME current = None PROVE FALSE
      OBVIOUS
    <2>1. p = session.process
      BY <1>1, TheConcerned
    <2> QED BY <1>1, <2>1 DEF WorkInv, ServesInv, Rests
  <1>3. /\ p = current.shell /\ current \in Running /\ shells[p] \in Shells
        /\ ran[current.cmd] \in Rans
        /\ Serves(current, shells[p], ran[current.cmd], TruncatedSet)
    BY <1>1, <1>2, TheConcerned, TheCommand DEF WorkInv, ServesInv
  <1>4. Head(shells[p].stdin) = current.cmd /\ Tail(shells[p].stdin) = <<>>
    BY <1>3, NoMark
  <1> QED BY <1>2, <1>3, <1>4 DEF Runs

(* One shell goes on with the command being run.                              *)
LEMMA ShellGoesOn ==
    ASSUME TypeInv, OwnInv, WorkInv, NEW p \in Commands, current # None, p = current.shell,
           UNCHANGED <<taken, session, current, answers>>, NEW s,
           shells' = [shells EXCEPT ![p] = s], RansOf(current.cmd),
           Serves(current, s, ran'[current.cmd], TruncatedSet),
           AtItsEnd(s), s.errEndTold = shells[p].errEndTold
    PROVE  WorkInv'
  <1>1. TypeOK /\ shells \in [Commands -> Shells] /\ current \in Running
    BY DEF TypeInv, TypeOK
  <1>2. shells'[p] = s /\ \A q \in Commands : q # p => shells'[q] = shells[q]
    BY <1>1
  <1>3. ServesInv' /\ NotYet' /\ AnswersInv'
    BY <1>1, <1>2, GoesOn
  <1>4. /\ \A q \in Commands : AtItsEnd(shells'[q])
        /\ \A q \in Commands : shells[q].errEndTold => shells'[q].errEndTold
    BY <1>2 DEF WorkInv, EndInv
  <1>5. EndInv'
    BY <1>1, <1>4, StillAtItsEnd DEF WorkInv
  <1> QED BY <1>3, <1>5 DEF WorkInv

LEMMA WorksWorks ==
    ASSUME TypeInv, OwnInv, WorkInv, NEW p \in Commands, Concerned(p), Works(p)
    PROVE  WorkInv'
  <1> DEFINE c == Head(shells[p].stdin)
  <1>1. /\ c \in Commands /\ shells[p].stdin # <<>> /\ ~shells[p].framedErr
        /\ \E err \in BOOLEAN, s \in Shells, r \in Rans :
             /\ shells' = [shells EXCEPT ![p] = s] /\ ran' = [ran EXCEPT ![c] = r]
             /\ s.stdin = shells[p].stdin /\ s.framedErr = shells[p].framedErr
             /\ s.state = shells[p].state /\ s.killed = shells[p].killed
             /\ s.exitTold = shells[p].exitTold /\ s.errEndTold = shells[p].errEndTold
             /\ s.errOpen => shells[p].errOpen
             /\ s.out = Append(shells[p].out, Text(c))
             /\ err => shells[p].errOpen
             /\ s.err = IF err THEN Append(shells[p].err, Text(c)) ELSE shells[p].err
             /\ r.out /\ r.err = err /\ r.ended = ran[c].ended /\ r.split = ran[c].split
    BY WorksOn
  <1>2. PICK err \in BOOLEAN, s \in Shells, r \in Rans :
             /\ shells' = [shells EXCEPT ![p] = s] /\ ran' = [ran EXCEPT ![c] = r]
             /\ s.stdin = shells[p].stdin /\ s.framedErr = shells[p].framedErr
             /\ s.state = shells[p].state
             /\ s.errEndTold = shells[p].errEndTold
             /\ s.errOpen => shells[p].errOpen
             /\ s.out = Append(shells[p].out, Text(c))
             /\ err => shells[p].errOpen
             /\ s.err = IF err THEN Append(shells[p].err, Text(c)) ELSE shells[p].err
             /\ r.out /\ r.err = err /\ r.ended = ran[c].ended /\ r.split = ran[c].split
    BY <1>1
  <1> HIDE DEF c
  <1>3. /\ current # None /\ p = current.shell /\ c = current.cmd
        /\ Serves(current, shells[p], ran[current.cmd], TruncatedSet)
    BY <1>1, AtWork DEF Runs, c
  <1>4. /\ TypeOK /\ current \in Running /\ shells[p] \in Shells /\ ran[current.cmd] \in Rans
        /\ ran \in [Commands -> Rans] /\ current.cmd \in Commands
        /\ AtItsEnd(shells[p]) /\ shells[p].state = "alive"
        /\ UNCHANGED <<taken, session, current, answers>>
    BY <1>3, TheCommand
       DEF TypeInv, TypeOK, Rans, WorkInv, EndInv, Works, Process, Alive
  <1>5. ~ran[current.cmd].out
    BY <1>3 DEF Works, Runs, c
  <1>6. ran'[current.cmd] = r /\ RansOf(current.cmd)
    BY <1>2, <1>3, <1>4 DEF RansOf
  <1>7. Serves(current, s, r, TruncatedSet)
    BY <1>1, <1>2, <1>3, <1>4, <1>5, ServesWorks
  <1>8. AtItsEnd(s)
    BY <1>2, <1>4 DEF AtItsEnd
  <1> QED BY <1>2, <1>3, <1>4, <1>6, <1>7, <1>8, ShellGoesOn

LEMMA FramesErrWorks ==
    ASSUME TypeInv, OwnInv, WorkInv, NEW p \in Commands, Concerned(p), FramesErr(p)
    PROVE  WorkInv'
  <1>1. shells[p].stdin # <<>> /\ ~shells[p].framedErr /\ shells[p].state = "alive"
    BY DEF FramesErr, InCommand, Alive
  <1>2. /\ current # None /\ p = current.shell /\ Runs(p) = current.cmd
        /\ Serves(current, shells[p], ran[current.cmd], TruncatedSet)
    BY <1>1, AtWork
  <1>3. /\ TypeOK /\ current \in Running /\ shells[p] \in Shells /\ ran[current.cmd] \in Rans
        /\ shells \in [Commands -> Shells] /\ ran \in [Commands -> Rans]
        /\ current.cmd \in Commands /\ AtItsEnd(shells[p])
        /\ UNCHANGED <<taken, session, current, answers>>
    BY <1>2, TheCommand DEF TypeInv, TypeOK, Rans, WorkInv, EndInv, FramesErr, Process
  <1> DEFINE e == IF shells[p].errOpen THEN Append(shells[p].err, Mark(current.cmd))
                  ELSE shells[p].err
             s == [shells[p] EXCEPT !.framedErr = TRUE, !.err = e]
  <1>4. PICK code \in ExitCodes : ran' = [ran EXCEPT ![current.cmd].ended = code]
    BY <1>2 DEF FramesErr
  <1>5. shells' = [shells EXCEPT ![p] = s]
    <2>1. shells' = [shells EXCEPT ![p].framedErr = TRUE,
                        ![p].err = IF shells[p].errOpen THEN Append(@, Mark(current.cmd)) ELSE @]
      BY <1>2 DEF FramesErr
    <2> QED BY <1>3, <2>1
  <1>6. e \in Seq(Items)
    <2>1. shells[p].err \in Seq(Items) /\ Mark(current.cmd) \in Items
      BY <1>3, ShellTypes, ItemTypes
    <2> QED BY <2>1
  <1>7. /\ s \in Shells /\ s.stdin = shells[p].stdin /\ s.framedErr
        /\ s.errEndTold = shells[p].errEndTold /\ s.out = shells[p].out /\ s.err = e
        /\ s.state = shells[p].state /\ s.errOpen = shells[p].errOpen
    <2> HIDE DEF e
    <2> DEFINE I == Seq(Items)
    <2>1. e \in I /\ shells[p] \in Shells
      BY <1>3, <1>6
    <2> QED BY <2>1 DEF Shells
  <1> DEFINE r == [ran[current.cmd] EXCEPT !.ended = code]
  <1>8. /\ r \in Rans /\ r.out = ran[current.cmd].out /\ r.err = ran[current.cmd].err
        /\ r.ended = code /\ r.split = ran[current.cmd].split
    BY <1>3, RanTypes
  <1>9. ran'[current.cmd] = r /\ RansOf(current.cmd)
    BY <1>3, <1>4 DEF RansOf
  <1>10. s.err = IF shells[p].errOpen THEN Append(shells[p].err, Mark(current.cmd))
                 ELSE shells[p].err
    BY <1>7
  <1> HIDE DEF s, r, e
  <1>11. Serves(current, s, r, TruncatedSet)
    BY <1>1, <1>2, <1>3, <1>7, <1>8, <1>10, ServesFramesErr
  <1>12. AtItsEnd(s)
    BY <1>1, <1>3, <1>7, <1>10 DEF AtItsEnd
  <1> QED BY <1>2, <1>3, <1>5, <1>7, <1>9, <1>11, <1>12, ShellGoesOn

LEMMA FramesOutWorks ==
    ASSUME TypeInv, OwnInv, WorkInv, NEW p \in Commands, Concerned(p), FramesOut(p)
    PROVE  WorkInv'
  <1>1. shells[p].stdin # <<>> /\ shells[p].framedErr
    BY DEF FramesOut, TypeInv, Framing
  <1>2. /\ current # None /\ p = current.shell /\ Runs(p) = current.cmd
        /\ Serves(current, shells[p], ran[current.cmd], TruncatedSet)
        /\ Tail(shells[p].stdin) = <<>>
    BY <1>1, AtWork
  <1>3. /\ TypeOK /\ current \in Running /\ shells[p] \in Shells /\ ran[current.cmd] \in Rans
        /\ shells \in [Commands -> Shells]
        /\ current.cmd \in Commands /\ AtItsEnd(shells[p])
        /\ UNCHANGED <<taken, session, current, answers, ran>>
    BY <1>2, TheCommand DEF TypeInv, TypeOK, Rans, WorkInv, EndInv, FramesOut, Process
  <1> DEFINE o == shells[p].out \o
                  <<Mark(current.cmd), Item("code", current.cmd, ran[current.cmd].ended)>>
             s == [shells[p] EXCEPT !.framedErr = FALSE, !.stdin = Tail(@), !.out = o]
  <1>4. shells' = [shells EXCEPT ![p] = s]
    <2>1. shells' = [shells EXCEPT
              ![p].framedErr = FALSE, ![p].stdin = Tail(@),
              ![p].out = @ \o <<Mark(current.cmd),
                                Item("code", current.cmd, ran[current.cmd].ended)>>]
      BY <1>2 DEF FramesOut
    <2> QED BY <1>3, <2>1
  <1>5. o \in Seq(Items)
    <2>1. shells[p].out \in Seq(Items) /\ ran[current.cmd].ended \in ExitCodes
      BY <1>1, <1>2, <1>3, ShellTypes, RanTypes DEF Serves, InStdin
    <2>2. /\ Mark(current.cmd) \in Items
          /\ Item("code", current.cmd, ran[current.cmd].ended) \in Items
      BY <1>3, <2>1, ItemTypes
    <2> QED BY <2>1, <2>2
  <1>6. /\ s \in Shells /\ s.stdin = Tail(shells[p].stdin) /\ ~s.framedErr
        /\ s.errEndTold = shells[p].errEndTold /\ s.out = o /\ s.err = shells[p].err
        /\ s.state = shells[p].state /\ s.errOpen = shells[p].errOpen
    <2> HIDE DEF o
    <2> DEFINE I == Seq(Items)
               C == Seq(Commands)
    <2>1. o \in I /\ shells[p] \in Shells
      BY <1>3, <1>5
    <2>2. Tail(shells[p].stdin) \in C
      <3>1. <<>> \in C
        OBVIOUS
      <3> QED BY <1>2, <3>1, Zenon
    <2> HIDE DEF I, C
    <2> QED BY <2>1, <2>2 DEF Shells, I, C
  <1>7. s.out = shells[p].out \o
                <<Mark(current.cmd), Item("code", current.cmd, ran[current.cmd].ended)>>
    BY <1>6
  <1> HIDE DEF s, o
  <1>8. Serves(current, s, ran[current.cmd], TruncatedSet)
    BY <1>1, <1>2, <1>3, <1>6, <1>7, ServesFramesOut
  <1>9. AtItsEnd(s)
    BY <1>3, <1>6 DEF AtItsEnd
  <1> QED BY <1>2, <1>3, <1>4, <1>6, <1>8, <1>9, ShellGoesOn DEF RansOf


LEMMA ShellEnds ==
    ASSUME TypeInv, OwnInv, WorkInv, NEW p \in Commands, NEW s \in Shells,
           shells' = [shells EXCEPT ![p] = s],
           UNCHANGED <<taken, current, answers, ran>>,
           session'.process \in {None, session.process},
           session'.stderrEnded = session.stderrEnded,
           AtItsEnd(s), Concerned(p) => s.errEndTold = shells[p].errEndTold,
           Concerned(p) => /\ s.out = shells[p].out /\ s.err = shells[p].err
                           /\ \/ s.stdin = <<>> /\ ~s.framedErr
                              \/ s.stdin = shells[p].stdin /\ s.framedErr = shells[p].framedErr
    PROVE  WorkInv'
  <1>1. /\ TypeOK /\ shells \in [Commands -> Shells]
        /\ session.process \in Commands \cup {None}
    BY DEF TypeInv, TypeOK
  <1>2. shells'[p] = s /\ \A q \in Commands : q # p => shells'[q] = shells[q]
    BY <1>1
  <1>3. EndInv'
    <2>1. /\ \A q \in Commands : AtItsEnd(shells'[q])
          /\ \A q \in Commands : Concerned(q) => (shells[q].errEndTold => shells'[q].errEndTold)
      BY <1>2 DEF WorkInv, EndInv
    <2> QED BY <1>1, <2>1, StillAtItsEnd DEF WorkInv
  <1>4. CASE current # None
    <2>1. /\ Serves(current, shells[current.shell], ran[current.cmd], TruncatedSet)
          /\ current \in Running /\ current.shell \in Commands
      BY <1>1, <1>4, TheCommand DEF WorkInv, ServesInv
    <2>2. Serves(current, shells'[current.shell], ran[current.cmd], TruncatedSet)
      <3>1. CASE p # current.shell
        BY <1>2, <2>1, <3>1
      <3>2. CASE p = current.shell
        <4>1. /\ s.out = shells[p].out /\ s.err = shells[p].err
              /\ s.errEndTold = shells[p].errEndTold
              /\ \/ s.stdin = <<>> /\ ~s.framedErr
                 \/ s.stdin = shells[p].stdin /\ s.framedErr = shells[p].framedErr
          BY <1>4, <3>2 DEF Concerned, Listening
        <4> QED BY <1>2, <2>1, <3>2, <4>1, ServesDead, ServesSame
      <3> QED BY <3>1, <3>2
    <2>3. ServesInv' /\ NotYet' /\ AnswersInv'
      BY <1>1, <1>4, <2>1, <2>2, GoesOn DEF RansOf
    <2> QED BY <1>3, <2>3 DEF WorkInv
  <1>5. CASE current = None
    <2>1. ASSUME session.process # None PROVE Rests(shells'[session.process], TruncatedSet)
      <3>1. Rests(shells[session.process], TruncatedSet) /\ session.process \in Commands
        BY <1>1, <1>5, <2>1 DEF WorkInv, ServesInv
      <3>2. CASE p # session.process
        BY <1>2, <3>1, <3>2
      <3>3. CASE p = session.process
        <4>1. /\ s.out = shells[p].out /\ s.err = shells[p].err
              /\ s.stdin = <<>> /\ ~s.framedErr
          BY <3>1, <3>3 DEF Concerned, Rests
        <4> QED BY <1>2, <3>1, <3>3, <4>1, RestsSame
      <3> QED BY <3>2, <3>3
    <2>2. ServesInv' /\ NotYet' /\ AnswersInv'
      BY <1>1, <1>5, <2>1, StaysIdle
    <2> QED BY <1>3, <2>2 DEF WorkInv
  <1> QED BY <1>4, <1>5

LEMMA DiesWorks ==
    ASSUME TypeInv, OwnInv, WorkInv, NEW p \in Commands, Dies(p) \/ ChildEnds(p) \/ OnExit(p)
    PROVE  WorkInv'
  <1>1. /\ shells \in [Commands -> Shells] /\ shells[p] \in Shells /\ AtItsEnd(shells[p])
        /\ session \in [process : Commands \cup {None}, stderrEnded : BOOLEAN]
    BY DEF TypeInv, TypeOK, WorkInv, EndInv
  <1>2. CASE Dies(p)
    <2> DEFINE s == [shells[p] EXCEPT !.state = "dead", !.code = 1,
                                      !.stdin = <<>>, !.framedErr = FALSE]
    <2>1. /\ shells' = [shells EXCEPT ![p] = s]
          /\ UNCHANGED <<taken, session, current, answers, ran>>
      BY <1>1, <1>2 DEF Dies, Process
    <2>2. /\ s \in Shells /\ s.state = "dead" /\ s.stdin = <<>> /\ ~s.framedErr
          /\ s.out = shells[p].out /\ s.err = shells[p].err
          /\ s.errEndTold = shells[p].errEndTold
      <3> DEFINE C == Seq(Commands)
      <3>1. <<>> \in C
        OBVIOUS
      <3> HIDE DEF C
      <3> QED BY <1>1, <3>1 DEF Shells, C
    <2> HIDE DEF s
    <2>3. AtItsEnd(s)
      BY <1>1, <2>2 DEF AtItsEnd
    <2> QED BY <2>1, <2>2, <2>3, ShellEnds
  <1>3. CASE ChildEnds(p)
    <2> DEFINE s == [shells[p] EXCEPT !.child = None]
    <2>1. /\ shells' = [shells EXCEPT ![p] = s]
          /\ UNCHANGED <<taken, session, current, answers, ran>>
      BY <1>1, <1>3 DEF ChildEnds
    <2>2. /\ s \in Shells /\ s.stdin = shells[p].stdin /\ s.framedErr = shells[p].framedErr
          /\ s.out = shells[p].out /\ s.err = shells[p].err
          /\ s.errEndTold = shells[p].errEndTold
          /\ s.state = shells[p].state /\ s.errOpen = shells[p].errOpen
      <3>1. s \in Shells
        BY <1>1, ShellTypes
      <3> QED BY <1>1, <3>1 DEF Shells
    <2> HIDE DEF s
    <2>3. AtItsEnd(s)
      BY <1>1, <2>2 DEF AtItsEnd
    <2> QED BY <2>1, <2>2, <2>3, ShellEnds
  <1>4. CASE OnExit(p)
    <2> DEFINE s == [shells[p] EXCEPT !.exitTold = TRUE]
    <2>1. /\ shells' = [shells EXCEPT ![p] = s]
          /\ UNCHANGED <<taken, current, answers, ran>>
          /\ session'.process \in {None, session.process}
          /\ session'.stderrEnded = session.stderrEnded
      BY <1>1, <1>4 DEF OnExit
    <2>2. /\ s \in Shells /\ s.stdin = shells[p].stdin /\ s.framedErr = shells[p].framedErr
          /\ s.out = shells[p].out /\ s.err = shells[p].err
          /\ s.errEndTold = shells[p].errEndTold
          /\ s.state = shells[p].state /\ s.errOpen = shells[p].errOpen
      <3>1. s \in Shells
        BY <1>1, ShellTypes
      <3> QED BY <1>1, <3>1 DEF Shells
    <2> HIDE DEF s
    <2>3. AtItsEnd(s)
      BY <1>1, <2>2 DEF AtItsEnd
    <2> QED BY <2>1, <2>2, <2>3, ShellEnds
  <1> QED BY <1>2, <1>3, <1>4

LEMMA KillLandsWorks ==
    ASSUME TypeInv, OwnInv, WorkInv, NEW p \in Commands, KillLands(p)
    PROVE  WorkInv'
  <1>1. /\ shells \in [Commands -> Shells] /\ shells[p] \in Shells /\ AtItsEnd(shells[p])
    BY DEF TypeInv, TypeOK, WorkInv, EndInv
  <1> DEFINE gone == IF Listening(p) THEN shells[p] ELSE [NewShell EXCEPT !.killed = TRUE]
             s == [gone EXCEPT !.state = "dead", !.child = None, !.stdin = <<>>,
                               !.framedErr = FALSE, !.code = IF Alive(p) THEN -1 ELSE @]
  <1>2. /\ shells' = [shells EXCEPT ![p] = s] /\ shells[p].killed
        /\ UNCHANGED <<taken, session, current, answers, ran>>
    BY <1>1 DEF KillLands
  <1>3. /\ gone \in Shells /\ (~Listening(p) => ~gone.errEndTold)
        /\ Listening(p) => gone = shells[p]
    BY <1>1, NewShellType, ShellTypes DEF NewShell
  <1> HIDE DEF gone
  <1>4. /\ s \in Shells /\ s.state = "dead" /\ s.stdin = <<>> /\ ~s.framedErr
        /\ s.out = gone.out /\ s.err = gone.err /\ s.errEndTold = gone.errEndTold
    <2> DEFINE C == Seq(Commands)
    <2>1. <<>> \in C
      OBVIOUS
    <2> HIDE DEF C
    <2> QED BY <1>3, <2>1 DEF Shells, C
  <1> HIDE DEF s
  <1>5. Concerned(p) => Listening(p)
    BY <1>2 DEF Concerned, OwnInv, OwnShell
  <1>6. AtItsEnd(s)
    BY <1>1, <1>3, <1>4 DEF AtItsEnd
  <1> QED BY <1>2, <1>3, <1>4, <1>5, <1>6, ShellEnds

LEMMA WorkStep == TypeInv /\ OwnInv /\ WorkInv /\ [Next]_vars => WorkInv'
  <1> SUFFICES ASSUME TypeInv, OwnInv, WorkInv, [Next]_vars PROVE WorkInv'
    OBVIOUS
  <1>1. CASE UNCHANGED vars
    BY <1>1, WorkSame DEF vars
  <1>2. CASE Run
    BY <1>2, WorkSame DEF Run
  <1>3. CASE RunBlank \/ StartAborted \/ Start
    BY <1>3, RunBlankWorks, StartAbortedWorks, StartWorks
  <1>4. CASE (\E c \in Commands : Abort(c)) \/ Timeout \/ GraceFires \/ KillSession
    BY <1>4, AbortWorks, TimeoutWorks, GraceWorks, KillSessionWorks
  <1>5. CASE \E p \in Commands : Concerned(p) /\ (Events(p) \/ Programs(p))
    BY <1>5, ReadStdoutWorks, ReadStderrWorks, StderrEndsWorks, OnCloseWorks, WorksWorks,
       FramesErrWorks, FramesOutWorks, DiesWorks DEF Events, Programs
  <1>6. CASE \E p \in Commands : KillLands(p) \/ OnExit(p)
    BY <1>6, KillLandsWorks, DiesWorks
  <1> QED BY <1>1, <1>2, <1>3, <1>4, <1>5, <1>6 DEF Next

LEMMA WorkCorrect == Spec => [](TypeInv /\ OwnInv /\ WorkInv)
  <1>1. Init => WorkInv
    BY WorkInit
  <1>2. (TypeInv /\ OwnInv) /\ WorkInv /\ [Next]_vars => WorkInv'
    BY WorkStep
  <1> QED BY OwnCorrect, <1>1, <1>2, PTL DEF Spec

-------------------------------------------------------------------------------
(* What every answer is.                                                      *)

(* An answer that does not admit to be incomplete holds all the command       *)
(* wrote to either stream.                                                    *)
THEOREM OutputAlwaysWhole == Spec => []OutputIsWhole
  <1>1. WorkInv => OutputIsWhole
    BY DEF WorkInv, AnswersInv, Right, OutputIsWhole, Printed
  <1> QED BY WorkCorrect, <1>1, PTL

(* A command's answer never holds what another command wrote, except, on      *)
(* stderr, what follows an answer that was given as incomplete.               *)
THEOREM NoOutputOfOthers == Spec => []NoForeignOutput
  <1>1. WorkInv => NoForeignOutput
    BY DEF WorkInv, AnswersInv, Right, NoForeignOutput, TruncatedSet
  <1> QED BY WorkCorrect, <1>1, PTL

(* The exit code of an answer is the command's: it is wrong only when a read  *)
(* ended between the sentinel and the code, and then it says success.         *)
THEOREM CodeAlwaysTheCommands == Spec => []CodeIsTheCommands
  <1>1. WorkInv => CodeIsTheCommands
    BY DEF WorkInv, AnswersInv, Right, CodeIsTheCommands
  <1> QED BY WorkCorrect, <1>1, PTL


-------------------------------------------------------------------------------
(* The queue of commands that the session implements.                         *)

Serving == IF current = None THEN None ELSE current.cmd
Done == {c \in Commands : ran[c].ended # None}
Replies == [c \in Commands |-> Reply(c)]
ReplyOf(a) == CASE a.kind = "framed" -> "done" [] a.kind = "blank" -> "void" [] OTHER -> "lost"

LEMMA OneReply ==
    ASSUME TypeOK, NEW c \in Commands, NEW a \in Answers, answers' = [answers EXCEPT ![c] = a]
    PROVE  Replies' = [Replies EXCEPT ![c] = ReplyOf(a)]
  <1>1. answers \in [Commands -> Answers \cup {None}] /\ a # None
    BY ConstantTypes DEF TypeOK
  <1>2. answers'[c] = a /\ \A d \in Commands : d # c => answers'[d] = answers[d]
    BY <1>1
  <1>3. Reply(c)' = ReplyOf(a)
    BY <1>1, <1>2 DEF Reply, ReplyOf
  <1>4. \A d \in Commands : d # c => Reply(d)' = Reply(d)
    BY <1>2 DEF Reply
  <1>5. Replies' = [d \in Commands |-> IF d = c THEN ReplyOf(a) ELSE Replies[d]]
    BY <1>3, <1>4 DEF Replies
  <1> QED BY <1>5 DEF Replies

LEMMA QueueRests ==
    ASSUME UNCHANGED <<issued, taken, answers>>, Serving' = Serving, Done' = Done
    PROVE  UNCHANGED Queue!vars
  <1>1. Replies' = Replies
    BY DEF Replies, Reply
  <1> QED BY <1>1 DEF Queue!vars, Serving, Done, Replies

LEMMA QueueAnswers ==
    ASSUME TypeOK, OwnInv, AnswersInv', current # None, current' = None,
           NEW a \in Answers, a.kind # "blank", answers' = [answers EXCEPT ![current.cmd] = a],
           UNCHANGED <<issued, taken>>, Done' = Done
    PROVE  Queue!Next
  <1>1. /\ current.cmd \in Commands /\ answers[current.cmd] = None
        /\ answers \in [Commands -> Answers \cup {None}] /\ a # None /\ current.cmd # None
    BY TheCommand, ConstantTypes DEF TypeOK
  <1>2. Replies' = [Replies EXCEPT ![current.cmd] = ReplyOf(a)]
    BY <1>1, OneReply
  <1>3. /\ ReplyOf(a) \in {"done", "lost"} /\ (ReplyOf(a) = "done" => a.kind = "framed")
        /\ Replies[current.cmd] = "none"
    BY <1>1 DEF ReplyOf, Replies, Reply
  <1>4. a.kind = "framed" => current.cmd \in Done
    <2>1. answers'[current.cmd] = a
      BY <1>1
    <2>2. a.kind = "framed" => ran'[current.cmd].ended # None
      BY <1>1, <2>1 DEF AnswersInv, Right
    <2>3. a.kind = "framed" => current.cmd \in Done'
      BY <1>1, <2>2 DEF Done
    <2> QED BY <2>3
  <1>5. Serving = current.cmd /\ Serving' = None
    BY DEF Serving
  <1> DEFINE kind == ReplyOf(a)
  <1>6. /\ Serving # None /\ Replies[Serving] = "none"
        /\ kind = "done" => Serving \in Done
        /\ Replies' = [Replies EXCEPT ![Serving] = kind]
        /\ Serving' = None
        /\ UNCHANGED <<issued, taken>> /\ Done' = Done
    BY <1>1, <1>2, <1>3, <1>4, <1>5
  <1> HIDE DEF kind
  <1>7. Queue!Answer(kind)
    BY <1>6 DEF Queue!Answer, Serving, Done, Replies
  <1>8. kind \in {"done", "lost"}
    BY <1>3 DEF kind
  <1> QED BY <1>7, <1>8 DEF Queue!Next

LEMMA QueueRefuses ==
    ASSUME TypeOK, current = None, current' = None, taken < issued, taken' = taken + 1,
           NEW a \in Answers, a.kind # "framed", answers' = [answers EXCEPT ![First] = a],
           UNCHANGED <<issued, ran>>
    PROVE  Queue!Next
  <1>1. First \in Commands /\ First = taken + 1
    BY FirstIsNext
  <1>2. Replies' = [Replies EXCEPT ![taken + 1] = ReplyOf(a)]
    BY <1>1, OneReply
  <1>3. ReplyOf(a) \in {"void", "lost"}
    BY DEF ReplyOf
  <1>4. Serving = None /\ Serving' = Serving /\ Done' = Done
    BY DEF Serving, Done
  <1>5. Queue!Refuse
    BY <1>2, <1>3, <1>4 DEF Queue!Refuse, Serving, Done, Replies
  <1> QED BY <1>5 DEF Queue!Next

LEMMA QueueTakes ==
    ASSUME TypeOK, Start
    PROVE  Queue!Next
  <1> DEFINE cur == [cmd |-> First, shell |-> Started(First).process, out |-> {}, err |-> {},
                     outSeen |-> FALSE, errSeen |-> Started(First).stderrEnded,
                     framed |-> {}, code |-> 0, grace |-> FALSE, truncated |-> FALSE]
  <1>1. /\ current = None /\ taken < issued /\ taken' = taken + 1 /\ current' = cur
        /\ UNCHANGED <<issued, answers, ran>>
    BY DEF Start, Waiting
  <1>2. First \in Commands /\ First = taken + 1
    BY <1>1, FirstIsNext
  <1>3. cur.cmd = First /\ cur # None
    <2>1. Started(First).process \in Commands /\ Started(First).stderrEnded \in BOOLEAN
      BY <1>2, Starting
    <2>2. cur \in Running
      <3> HIDE DEF Items
      <3> QED BY <1>2, <2>1 DEF Running
    <2> QED BY <2>2, ConstantTypes
  <1> HIDE DEF cur
  <1>4. Serving = None /\ Serving' = taken + 1 /\ Done' = Done /\ Replies' = Replies
    BY <1>1, <1>2, <1>3 DEF Serving, Done, Replies, Reply
  <1>5. Queue!Take
    BY <1>1, <1>4 DEF Queue!Take, Serving, Done, Replies
  <1> QED BY <1>5 DEF Queue!Next

LEMMA QueueFinishes ==
    ASSUME TypeInv, OwnInv, WorkInv, NEW p \in Commands, Concerned(p), FramesErr(p)
    PROVE  Queue!Next
  <1>1. shells[p].stdin # <<>> /\ ~shells[p].framedErr
    BY DEF FramesErr, InCommand
  <1>2. /\ current # None /\ p = current.shell /\ Runs(p) = current.cmd
        /\ Serves(current, shells[p], ran[current.cmd], TruncatedSet)
    BY <1>1, AtWork
  <1>3. /\ TypeOK /\ ran \in [Commands -> Rans] /\ current.cmd \in Commands
        /\ current.cmd = taken /\ taken \in Nat
        /\ UNCHANGED <<issued, taken, session, current, answers>>
    BY <1>2, TheCommand DEF TypeInv, TypeOK, Rans, FramesErr, Process
  <1>4. PICK code \in ExitCodes : ran' = [ran EXCEPT ![current.cmd].ended = code]
    BY <1>2 DEF FramesErr
  <1>5. ran[current.cmd].ended = None /\ code # None
    BY <1>1, <1>2, ConstantTypes DEF Serves, InStdin
  <1>6. /\ ran'[current.cmd].ended = code
        /\ \A d \in Commands : d # current.cmd => ran'[d] = ran[d]
    BY <1>3, <1>4, RanTypes
  <1>7. Done' = Done \cup {current.cmd} /\ current.cmd \notin Done
    BY <1>3, <1>5, <1>6 DEF Done
  <1>8. Serving' = Serving /\ Replies' = Replies /\ current.cmd \in (1..taken) \ Done
    BY <1>3, <1>7, ConstantTypes DEF Serving, Replies, Reply
  <1>9. PICK c \in Commands : c = current.cmd
    BY <1>3
  <1>10. Queue!Finish(c)
    BY <1>3, <1>7, <1>8, <1>9 DEF Queue!Finish, Serving, Done, Replies
  <1>11. \E d \in Queue!Commands : Queue!Finish(d)
    BY <1>10 DEF Queue!Commands, Commands
  <1> QED BY <1>11 DEF Queue!Next


LEMMA QueueSettles ==
    ASSUME TypeOK, OwnInv, AnswersInv', current # None, NEW cur \in Running,
           cur.cmd = current.cmd, SettleIfFramed(cur), UNCHANGED <<issued, taken>>, Done' = Done
    PROVE  Queue!Next \/ UNCHANGED Queue!vars
  <1>1. CASE cur.outSeen /\ cur.errSeen
    <2>1. current' = None /\ answers' = [answers EXCEPT ![current.cmd] = Framed(cur)]
      BY <1>1 DEF SettleIfFramed
    <2>2. Framed(cur) \in Answers /\ Framed(cur).kind # "blank"
      BY AnswerTypes DEF Framed, Answer
    <2> HIDE DEF Framed
    <2> QED BY <2>1, <2>2, QueueAnswers
  <1>2. CASE ~(cur.outSeen /\ cur.errSeen)
    <2>1. current' = cur /\ answers' = answers
      BY <1>2 DEF SettleIfFramed
    <2>2. Serving' = Serving
      BY <2>1, RunningTypes DEF Serving
    <2> QED BY <2>1, <2>2, QueueRests
  <1> QED BY <1>1, <1>2

LEMMA QueueGivesUp ==
    ASSUME TypeOK, OwnInv, AnswersInv', current # None, UNCHANGED <<issued, taken, ran>>,
           NEW kind \in {"died", "timedOut", "aborted"}, NEW k \in {-1, 0, 1, 124, 130},
           Settle(Partial(kind, k))
    PROVE  Queue!Next
  <1> DEFINE a == Partial(kind, k)
  <1>1. a \in Answers
    BY PartialTypes
  <1>2. a.kind # "blank"
    BY DEF Partial, Answer
  <1>3. current' = None /\ answers' = [answers EXCEPT ![current.cmd] = a]
    BY DEF Settle
  <1>4. Done' = Done
    BY DEF Done
  <1> HIDE DEF a
  <1> QED BY <1>1, <1>2, <1>3, <1>4, QueueAnswers

LEMMA QueueReads ==
    ASSUME TypeInv, OwnInv, AnswersInv', NEW p \in Commands, ReadStdout(p) \/ ReadStderr(p)
    PROVE  Queue!Next \/ UNCHANGED Queue!vars
  <1>1. TypeOK
    BY DEF TypeInv
  <1>2. CASE ~Listening(p)
    <2>1. UNCHANGED <<issued, taken, current, answers, ran>>
      BY <1>2 DEF ReadStdout, ReadStderr
    <2> QED BY <2>1, QueueRests DEF Serving, Done
  <1>3. CASE Listening(p) /\ ReadStdout(p)
    <2>1. PICK k \in 1..Len(shells[p].out) :
             /\ OnStdout(SubSeq(shells[p].out, 1, k))
             /\ SubSeq(shells[p].out, 1, k) \in Seq(Items)
             /\ UNCHANGED <<issued, taken>>
      BY <1>1, <1>3, ReadOut
    <2> DEFINE chunk == SubSeq(shells[p].out, 1, k)
               at == Position(Mark(current.cmd), chunk)
               err == current.errSeen \/ session.stderrEnded
               code == CodeBehind(at, chunk)
               before == Shown(SubSeq(chunk, 1, at - 1))
               seen == [current EXCEPT !.out = @ \cup Shown(chunk), !.outSeen = TRUE,
                          !.errSeen = err, !.framed = current.out \cup before, !.code = code]
    <2>2. chunk \in Seq(Items) /\ OnStdout(chunk) /\ current \in Running /\ current # None
      BY <1>1, <1>3, <2>1 DEF Listening, TypeOK
    <2> HIDE DEF chunk
    <2>3. /\ \A c \in Commands : ran'[c].ended = ran[c].ended
          /\ current' \in Running \cup {None}
      BY <1>1, <2>2, OnStdoutTypes
    <2>4. Done' = Done
      BY <2>3 DEF Done
    <2>5. Shown(chunk) \in SUBSET Items
      BY <2>2, ShownTypes
    <2>6. CASE at = 0 \/ current.outSeen
      <3>1. current' = [current EXCEPT !.out = @ \cup Shown(chunk)] /\ UNCHANGED answers
        BY <2>2, <2>6 DEF OnStdout
      <3>2. current' \in Running /\ current'.cmd = current.cmd
        <4>1. current' \in Running
          BY <2>2, <2>5, <3>1, RunningTypes
        <4> QED BY <2>2, <3>1, <4>1 DEF Running
      <3>3. Serving' = Serving
        BY <2>2, <3>2, ConstantTypes DEF Serving
      <3> QED BY <2>1, <2>4, <3>1, <3>3, QueueRests
    <2>7. CASE ~(at = 0 \/ current.outSeen)
      <3>1. SettleIfFramed(ArmGrace(seen))
        BY <2>2, <2>7 DEF OnStdout
      <3>2. at \in 1..Len(chunk) /\ Len(chunk) \in Nat
        <4> HIDE DEF at
        <4>1. at \in 0..Len(chunk) /\ at # 0
          BY <2>2, <2>7, Found DEF at
        <4>2. Len(chunk) \in Nat
          BY <2>2, Members
        <4> QED BY <4>1, <4>2
      <3>3. code \in ExitCodes \cup {0}
        BY <2>2, <3>2, CodeTypes
      <3>4. before \in SUBSET Items
        <4>1. at - 1 \in 0..Len(chunk)
          BY <3>2
        <4>2. SubSeq(chunk, 1, at - 1) \in Seq(Items)
          BY <2>2, <4>1, Cut
        <4> QED BY <4>2, ShownTypes
      <3>5. err \in BOOLEAN
        BY <1>1, <2>2, RunningTypes DEF TypeOK
      <3> HIDE DEF err, code, before
      <3>6. seen \in Running
        BY <2>2, <2>5, <3>3, <3>4, <3>5, RunningTypes
      <3>7. seen.cmd = current.cmd
        BY <2>2 DEF Running
      <3> HIDE DEF seen
      <3>8. ArmGrace(seen) \in Running
        BY <3>6, RunningTypes
      <3>9. ArmGrace(seen).cmd = current.cmd
        BY <3>6, <3>7, <3>8 DEF ArmGrace, Running
      <3> QED BY <1>1, <2>1, <2>2, <2>4, <3>1, <3>8, <3>9, QueueSettles
    <2> QED BY <2>6, <2>7
  <1>4. CASE Listening(p) /\ ReadStderr(p)
    <2>1. PICK k \in 1..Len(shells[p].err) :
             /\ OnStderr(SubSeq(shells[p].err, 1, k))
             /\ SubSeq(shells[p].err, 1, k) \in Seq(Items)
             /\ UNCHANGED <<issued, taken, ran>>
      BY <1>1, <1>4, ReadErr
    <2> DEFINE chunk == SubSeq(shells[p].err, 1, k)
               at == Position(Mark(current.cmd), chunk)
               before == Shown(SubSeq(chunk, 1, at - 1))
               longer == [current EXCEPT !.err = @ \cup Shown(chunk)]
               seen == [current EXCEPT !.err = @ \cup before, !.errSeen = TRUE]
    <2>2. chunk \in Seq(Items) /\ OnStderr(chunk) /\ current \in Running /\ current # None
      BY <1>1, <1>4, <2>1 DEF Listening, TypeOK
    <2> HIDE DEF chunk
    <2>3. Done' = Done
      BY <2>1 DEF Done
    <2>4. Shown(chunk) \in SUBSET Items
      BY <2>2, ShownTypes
    <2>5. CASE at = 0 \/ current.errSeen
      <3>1. current' = ArmGrace(longer) /\ UNCHANGED answers
        BY <2>2, <2>5 DEF OnStderr
      <3>2. longer \in Running /\ current' \in Running
        BY <2>2, <2>4, <3>1, RunningTypes
      <3>3. longer.cmd = current.cmd
        BY <2>2 DEF Running
      <3> HIDE DEF longer
      <3>4. current'.cmd = current.cmd
        BY <3>1, <3>2, <3>3 DEF ArmGrace, Running
      <3>5. Serving' = Serving
        BY <2>2, <3>2, <3>4, ConstantTypes DEF Serving
      <3> QED BY <2>1, <2>3, <3>1, <3>5, QueueRests
    <2>6. CASE ~(at = 0 \/ current.errSeen)
      <3>1. SettleIfFramed(seen)
        BY <2>2, <2>6 DEF OnStderr
      <3>2. before \in SUBSET Items
        <4> HIDE DEF at
        <4>1. at \in 0..Len(chunk) /\ at # 0 /\ Len(chunk) \in Nat
          BY <2>2, <2>6, Found, Members DEF at
        <4>2. at - 1 \in 0..Len(chunk)
          BY <4>1
        <4>3. SubSeq(chunk, 1, at - 1) \in Seq(Items)
          BY <2>2, <4>2, Cut
        <4> QED BY <4>3, ShownTypes
      <3> HIDE DEF before
      <3>3. seen \in Running
        BY <2>2, <3>2, RunningTypes
      <3>4. seen.cmd = current.cmd
        BY <2>2 DEF Running
      <3> HIDE DEF seen
      <3> QED BY <1>1, <2>1, <2>2, <2>3, <3>1, <3>3, <3>4, QueueSettles
    <2> QED BY <2>5, <2>6
  <1> QED BY <1>2, <1>3, <1>4

LEMMA QueuePrograms ==
    ASSUME TypeInv, OwnInv, WorkInv, NEW p \in Commands, Concerned(p), Programs(p)
    PROVE  Queue!Next \/ UNCHANGED Queue!vars
  <1>1. CASE FramesErr(p)
    BY <1>1, QueueFinishes
  <1>2. CASE Works(p)
    <2> DEFINE c == Head(shells[p].stdin)
    <2>1. UNCHANGED <<issued, taken, current, answers>>
      BY <1>2 DEF Works, Process
    <2>2. c \in Commands /\ \E r \in Rans : ran' = [ran EXCEPT ![c] = r] /\ r.ended = ran[c].ended
      BY <1>2, WorksOn
    <2>3. ran \in [Commands -> Rans]
      BY DEF TypeInv, TypeOK, Rans
    <2> HIDE DEF c
    <2>4. \A d \in Commands : ran'[d].ended = ran[d].ended
      BY <2>2, <2>3
    <2> QED BY <2>1, <2>4, QueueRests DEF Serving, Done
  <1>3. CASE FramesOut(p) \/ Dies(p) \/ ChildEnds(p)
    <2>1. UNCHANGED <<issued, taken, current, answers, ran>>
      BY <1>3 DEF FramesOut, Dies, ChildEnds, Process
    <2> QED BY <2>1, QueueRests DEF Serving, Done
  <1> QED BY <1>1, <1>2, <1>3 DEF Programs

LEMMA QueueCloses ==
    ASSUME TypeInv, OwnInv, AnswersInv', NEW p \in Commands, StderrEnds(p) \/ OnClose(p)
    PROVE  Queue!Next \/ UNCHANGED Queue!vars
  <1>1. TypeOK
    BY DEF TypeInv
  <1>2. CASE OnClose(p)
    <2>1. /\ current # None /\ Settle(Partial("died", shells[p].code))
          /\ UNCHANGED <<issued, taken, ran>>
      BY <1>2 DEF OnClose, Listening
    <2>2. shells[p].code \in {-1, 0, 1}
      <3>1. shells[p] \in Shells
        BY <1>1 DEF TypeOK
      <3> QED BY <3>1, ShellTypes
    <2> QED BY <1>1, <2>1, <2>2, QueueGivesUp
  <1>3. CASE StderrEnds(p)
    <2>1. UNCHANGED <<issued, taken, ran>>
      BY <1>3 DEF StderrEnds
    <2>2. Done' = Done
      BY <2>1 DEF Done
    <2>3. CASE ~Listening(p)
      <3>1. UNCHANGED <<current, answers>>
        BY <1>3, <2>3 DEF StderrEnds
      <3> QED BY <2>1, <2>2, <3>1, QueueRests DEF Serving
    <2>4. CASE Listening(p)
      <3> DEFINE seen == [current EXCEPT !.errSeen = TRUE]
      <3>1. current \in Running /\ current # None /\ SettleIfFramed(seen)
        BY <1>1, <1>3, <2>4 DEF TypeOK, Listening, StderrEnds
      <3>2. seen \in Running
        BY <3>1, RunningTypes
      <3>3. seen.cmd = current.cmd
        BY <3>1 DEF Running
      <3> HIDE DEF seen
      <3> QED BY <1>1, <2>1, <2>2, <3>1, <3>2, <3>3, QueueSettles
    <2> QED BY <2>3, <2>4
  <1> QED BY <1>2, <1>3

LEMMA QueueStep ==
    TypeInv /\ OwnInv /\ WorkInv /\ WorkInv' /\ [Next]_vars => [Queue!Next]_(Queue!vars)
  <1> SUFFICES ASSUME TypeInv, OwnInv, WorkInv, WorkInv', [Next]_vars
               PROVE  Queue!Next \/ UNCHANGED Queue!vars
    OBVIOUS
  <1>1. TypeOK /\ AnswersInv'
    BY DEF TypeInv, WorkInv
  <1>2. CASE UNCHANGED vars
    BY <1>2, QueueRests DEF vars, Serving, Done
  <1>3. CASE Run
    <2>1. Queue!Issue
      BY <1>3 DEF Run, Queue!Issue, Reply
    <2> QED BY <2>1 DEF Queue!Next
  <1>4. CASE RunBlank
    <2> DEFINE a == Answer("blank", {}, {}, 0, FALSE)
    <2>1. /\ taken < issued /\ taken' = taken + 1 /\ current = None /\ current' = None
          /\ answers' = [answers EXCEPT ![First] = a] /\ UNCHANGED <<issued, ran>>
      BY <1>4 DEF RunBlank, Waiting
    <2>2. a \in Answers /\ a.kind # "framed"
      BY DEF Answer, Answers
    <2> HIDE DEF a
    <2> QED BY <1>1, <2>1, <2>2, QueueRefuses
  <1>5. CASE StartAborted
    <2> DEFINE a == Answer("aborted", {}, {}, 130, FALSE)
    <2>1. /\ taken < issued /\ taken' = taken + 1 /\ current = None /\ current' = None
          /\ answers' = [answers EXCEPT ![First] = a] /\ UNCHANGED <<issued, ran>>
      BY <1>5 DEF StartAborted, Waiting
    <2>2. a \in Answers /\ a.kind # "framed"
      BY DEF Answer, Answers
    <2> HIDE DEF a
    <2> QED BY <1>1, <2>1, <2>2, QueueRefuses
  <1>6. CASE Start
    BY <1>1, <1>6, QueueTakes
  <1>7. ASSUME NEW c \in Commands, Abort(c) PROVE Queue!Next \/ UNCHANGED Queue!vars
    <2>1. CASE current # None /\ current.cmd = c
      BY <1>1, <1>7, <2>1, QueueGivesUp DEF Abort
    <2>2. CASE ~(current # None /\ current.cmd = c)
      BY <1>7, <2>2, QueueRests DEF Abort, Serving, Done
    <2> QED BY <2>1, <2>2
  <1>8. CASE Timeout
    BY <1>1, <1>8, QueueGivesUp DEF Timeout
  <1>9. CASE KillSession
    BY <1>9, QueueRests DEF KillSession, Serving, Done
  <1>10. CASE GraceFires
    <2> DEFINE cur == [current EXCEPT !.truncated = TRUE, !.errSeen = TRUE]
    <2>1. current \in Running /\ current # None /\ SettleIfFramed(cur)
          /\ UNCHANGED <<issued, taken, ran>>
      BY <1>1, <1>10 DEF GraceFires, TypeOK
    <2>2. cur \in Running
      BY <2>1, RunningTypes
    <2>3. cur.cmd = current.cmd
      BY <2>1 DEF Running
    <2>4. Done' = Done
      BY <2>1 DEF Done
    <2> HIDE DEF cur
    <2> QED BY <1>1, <2>1, <2>2, <2>3, <2>4, QueueSettles
  <1>11. CASE \E p \in Commands : Concerned(p) /\ (Events(p) \/ Programs(p))
    BY <1>1, <1>11, QueueReads, QueueCloses, QueuePrograms DEF Events
  <1>12. CASE \E p \in Commands : KillLands(p) \/ OnExit(p)
    BY <1>12, QueueRests DEF KillLands, OnExit, Serving, Done
  <1> QED BY <1>2, <1>3, <1>4, <1>5, <1>6, <1>7, <1>8, <1>9, <1>10, <1>11, <1>12 DEF Next

(* The session implements the queue of commands its callers rely on: one at a *)
(* time, in the order they were issued, each answered once, and "done" only   *)
(* of a command that ran to its end.                                          *)
THEOREM SessionImplementsQueue == Spec => ImplementsQueue
  <1>1. Init => Queue!Init
    <2> SUFFICES ASSUME Init PROVE Queue!Init
      OBVIOUS
    <2>1. Done = {}
      BY DEF Init, Done
    <2>2. Replies = [c \in Commands |-> "none"]
      BY DEF Init, Replies, Reply
    <2> QED BY <2>1, <2>2 DEF Init, Queue!Init, Queue!Commands, Commands, Done, Replies
  <1> QED BY WorkCorrect, <1>1, QueueStep, PTL DEF Spec, ImplementsQueue, Queue!Spec

===============================================================================
