-------------------------- MODULE Transcript_proofs --------------------------
(* Proofs about Transcript: what is repaired, compressed, trimmed, prefetched *)
(* or undone keeps every call with its results and accounts for all that was  *)
(* said.                                                                      *)
EXTENDS Transcript, SequenceTheorems, FiniteSetTheorems, WellFoundedInduction, TLAPS

-------------------------------------------------------------------------------
(* Numbers and sequences. The library's induction takes an operator, which no *)
(* prover here can instantiate; the same induction stated of a set of numbers *)
(* can be used, and so what a fold over a sequence gives can be proved.       *)

LEMMA LeastNat ==
    ASSUME NEW S, S \subseteq Nat, S # {}
    PROVE  \E m \in S : \A k \in S : m <= k
  <1> DEFINE R == OpToRel(<, Nat)
  <1>1. IsWellFoundedOn(R, Nat)
    BY NatLessThanWellFounded
  <1>2. \A a, b \in Nat : a < b => <<a, b>> \in R
    BY DEF OpToRel
  <1> HIDE DEF R
  <1>3. PICK m \in S : \A k \in S : ~ (<<k, m>> \in R)
    BY <1>1, WFMin
  <1>4. ASSUME NEW k \in S PROVE m <= k
    <2>1. m \in Nat /\ k \in Nat /\ ~ (k < m)
      BY <1>2, <1>3
    <2> QED
      BY <2>1
  <1> QED
    BY <1>4

LEMMA GreatestNat ==
    ASSUME NEW n \in Nat, NEW S, S \subseteq 0..n, S # {}
    PROVE  \E m \in S : \A k \in S : k <= m
  <1> DEFINE T == {n - k : k \in S}
  <1>1. \A k \in S : k \in 0..n
    OBVIOUS
  <1>2. T \subseteq Nat
    BY <1>1
  <1>3. T # {}
    OBVIOUS
  <1>4. PICK t \in T : \A k \in T : t <= k
    <2> HIDE DEF T
    <2> QED
      BY <1>2, <1>3, LeastNat
  <1>5. PICK m \in S : t = n - m
    OBVIOUS
  <1>6. ASSUME NEW k \in S PROVE k <= m
    <2>1. n - k \in T
      OBVIOUS
    <2>2. n - m <= n - k
      BY <2>1, <1>4, <1>5
    <2> QED
      BY <2>2, <1>1
  <1> QED
    BY <1>6

LEMMA NatSetInduction ==
    ASSUME NEW S, 0 \in S, \A n \in Nat : n \in S => n + 1 \in S
    PROVE  Nat \subseteq S
  <1> SUFFICES ASSUME Nat \ S # {} PROVE FALSE
    OBVIOUS
  <1>1. PICK m \in Nat \ S : \A k \in Nat \ S : m <= k
    BY LeastNat
  <1>2. m # 0 /\ m - 1 \in Nat
    OBVIOUS
  <1>3. m - 1 \in S
    BY <1>1, <1>2
  <1> QED
    BY <1>2, <1>3

-------------------------------------------------------------------------------
(* FlattenSeq: the sequence of the parts flattened so far is a function with  *)
(* one value for every part.                                                  *)

FlattensTo(g, ss, n) == \A i \in 1..n : g[i] = IF i = 1 THEN ss[i] ELSE g[i - 1] \o ss[i]
Flattens(g, ss) == FlattensTo(g, ss, Len(ss))

LEMMA FlattenIs ==
    ASSUME NEW S, NEW ss \in Seq(Seq(S)), Len(ss) > 0,
           NEW g \in [1..Len(ss) -> Seq(S)], Flattens(g, ss)
    PROVE  FlattenSeq(ss) = g[Len(ss)]
  <1>1. g = [i \in 1..Len(ss) |-> IF i = 1 THEN ss[i] ELSE g[i - 1] \o ss[i]]
    BY DEF Flattens, FlattensTo
  <1>9. Len(ss) # 0
    OBVIOUS
  <1>2. PICK f : /\ f = [i \in 1..Len(ss) |-> IF i = 1 THEN ss[i] ELSE f[i - 1] \o ss[i]]
                 /\ FlattenSeq(ss) = f[Len(ss)]
    BY <1>1, <1>9, Zenon DEF FlattenSeq
  <1> DEFINE T == {n \in Nat : n \in 1..Len(ss) => f[n] = g[n]}
  <1>3. \A n \in 1..Len(ss) : f[n] = IF n = 1 THEN ss[n] ELSE f[n - 1] \o ss[n]
    BY <1>2, Zenon
  <1>4. ASSUME NEW n \in Nat, n \in T PROVE n + 1 \in T
    <2> SUFFICES ASSUME n + 1 \in 1..Len(ss) PROVE f[n + 1] = g[n + 1]
      OBVIOUS
    <2>1. n # 0 => n \in 1..Len(ss) /\ f[n] = g[n]
      BY <1>4
    <2>2. f[n + 1] = IF n + 1 = 1 THEN ss[n + 1] ELSE f[n] \o ss[n + 1]
      BY <1>3
    <2>3. g[n + 1] = IF n + 1 = 1 THEN ss[n + 1] ELSE g[n] \o ss[n + 1]
      <3>1. g[n + 1] = IF n + 1 = 1 THEN ss[n + 1] ELSE g[(n + 1) - 1] \o ss[n + 1]
        BY DEF Flattens, FlattensTo
      <3> QED
        BY <3>1
    <2> QED
      BY <2>1, <2>2, <2>3
  <1>5. Len(ss) \in T
    <2> HIDE DEF T
    <2>1. 0 \in T
      BY DEF T
    <2>2. Nat \subseteq T
      BY <1>4, <2>1, NatSetInduction
    <2> QED
      BY <2>2
  <1>6. f[Len(ss)] = g[Len(ss)]
    BY <1>5
  <1> QED
    BY <1>2, <1>6

LEMMA FlattenGoesOn ==
    ASSUME NEW S, NEW ss \in Seq(Seq(S)), NEW n \in Nat, n + 1 <= Len(ss),
           NEW g \in [1..n -> Seq(S)], FlattensTo(g, ss, n)
    PROVE  \E h \in [1..(n + 1) -> Seq(S)] : FlattensTo(h, ss, n + 1)
  <1> DEFINE new == IF n = 0 THEN ss[1] ELSE g[n] \o ss[n + 1]
             h == [i \in 1..(n + 1) |-> IF i = n + 1 THEN new ELSE g[i]]
  <1>1. ss[n + 1] \in Seq(S)
    OBVIOUS
  <1>2. new \in Seq(S)
    <2>1. CASE n = 0
      BY <1>1, <2>1
    <2>2. CASE n # 0
      <3>1. g[n] \in Seq(S)
        BY <2>2
      <3> QED
        BY <1>1, <2>2, <3>1, ConcatProperties
    <2> QED
      BY <2>1, <2>2
  <1>3. h[n + 1] = new
    OBVIOUS
  <1> HIDE DEF new
  <1>4. \A i \in 1..n : h[i] = g[i]
    OBVIOUS
  <1>5. h \in [1..(n + 1) -> Seq(S)]
    BY <1>2
  <1> HIDE DEF h
  <1>6. ASSUME NEW i \in 1..(n + 1)
        PROVE  h[i] = IF i = 1 THEN ss[i] ELSE h[i - 1] \o ss[i]
    <2>1. CASE i = n + 1
      <3>1. CASE n = 0
        BY <1>3, <2>1, <3>1 DEF new
      <3>2. CASE n # 0
        <4>1. h[n] = g[n]
          BY <1>4, <3>2
        <4>2. h[i] = g[n] \o ss[i]
          BY <1>3, <2>1, <3>2 DEF new
        <4>3. i # 1 /\ i - 1 = n
          BY <2>1, <3>2
        <4> QED
          BY <4>1, <4>2, <4>3
      <3> QED
        BY <3>1, <3>2
    <2>2. CASE i \in 1..n
      <3>1. h[i] = g[i] /\ (i # 1 => h[i - 1] = g[i - 1])
        BY <1>4, <2>2
      <3>2. g[i] = IF i = 1 THEN ss[i] ELSE g[i - 1] \o ss[i]
        BY <2>2 DEF FlattensTo
      <3> QED
        BY <3>1, <3>2
    <2> QED
      BY <2>1, <2>2
  <1> QED
    BY <1>5, <1>6 DEF FlattensTo

LEMMA FlattenExists ==
    ASSUME NEW S, NEW ss \in Seq(Seq(S))
    PROVE  \E g \in [1..Len(ss) -> Seq(S)] : Flattens(g, ss)
  <1> DEFINE T == {n \in Nat : n <= Len(ss) => \E g \in [1..n -> Seq(S)] : FlattensTo(g, ss, n)}
  <1>1. 0 \in T
    <2>1. [i \in 1..0 |-> <<>>] \in [1..0 -> Seq(S)]
      OBVIOUS
    <2>2. FlattensTo([i \in 1..0 |-> <<>>], ss, 0)
      BY DEF FlattensTo
    <2> QED
      BY <2>1, <2>2
  <1>2. ASSUME NEW n \in Nat, n \in T PROVE n + 1 \in T
    <2> SUFFICES ASSUME n + 1 <= Len(ss)
                 PROVE  \E g \in [1..(n + 1) -> Seq(S)] : FlattensTo(g, ss, n + 1)
      OBVIOUS
    <2>1. PICK g \in [1..n -> Seq(S)] : FlattensTo(g, ss, n)
      BY <1>2
    <2> QED
      BY <2>1, FlattenGoesOn
  <1>3. Len(ss) \in T
    <2> HIDE DEF T
    <2>1. Nat \subseteq T
      BY <1>1, <1>2, NatSetInduction
    <2> QED
      BY <2>1
  <1> QED
    BY <1>3 DEF Flattens

(* What is flattened are the members of the parts.                            *)
LEMMA FlattenType ==
    ASSUME NEW S, NEW ss \in Seq(Seq(S))
    PROVE  FlattenSeq(ss) \in Seq(S)
  <1>1. CASE Len(ss) = 0
    <2>1. ss = <<>>
      BY <1>1, EmptySeq
    <2> QED
      BY <1>1, <2>1, EmptySeq DEF FlattenSeq
  <1>2. CASE Len(ss) # 0
    <2>1. PICK g \in [1..Len(ss) -> Seq(S)] : Flattens(g, ss)
      BY FlattenExists
    <2>2. FlattenSeq(ss) = g[Len(ss)]
      BY <1>2, <2>1, FlattenIs
    <2>3. Len(ss) \in 1..Len(ss)
      BY <1>2
    <2>4. g[Len(ss)] \in Seq(S)
      BY <2>1, <2>3
    <2> QED
      BY <2>2, <2>4
  <1> QED
    BY <1>1, <1>2

(* Induction over what is flattened: K[n] is a set the first n parts together *)
(* are in.                                                                    *)
LEMMA FlattenInduction ==
    ASSUME NEW S, NEW ss \in Seq(Seq(S)), NEW K, <<>> \in K[0],
           \A n \in 0..(Len(ss) - 1) : \A q \in Seq(S) : q \in K[n] => q \o ss[n + 1] \in K[n + 1]
    PROVE  FlattenSeq(ss) \in K[Len(ss)]
  <1> DEFINE b == Len(ss)
  <1>1. b \in Nat /\ (\A n \in 1..b : ss[n] \in Seq(S))
    OBVIOUS
  <1>2. CASE b = 0
    <2>1. ss = <<>>
      BY <1>2, EmptySeq
    <2>2. FlattenSeq(ss) = <<>>
      BY <1>2, <2>1 DEF FlattenSeq
    <2> QED
      BY <1>2, <2>2
  <1>3. CASE b # 0
    <2>1. PICK g \in [1..Len(ss) -> Seq(S)] : Flattens(g, ss)
      BY FlattenExists
    <2>2. \A n \in 1..b : g[n] = IF n = 1 THEN ss[n] ELSE g[n - 1] \o ss[n]
      BY <2>1 DEF Flattens, FlattensTo
    <2>3. \A n \in 0..(b - 1) : \A q \in Seq(S) : q \in K[n] => q \o ss[n + 1] \in K[n + 1]
      OBVIOUS
    <2>4. \A n \in 1..b : g[n] \in Seq(S)
      BY <2>1
    <2>5. FlattenSeq(ss) = g[b]
      <3>1. Len(ss) > 0
        BY <1>1, <1>3
      <3>2. FlattenSeq(ss) = g[Len(ss)]
        BY <2>1, <3>1, FlattenIs
      <3> QED
        BY <3>2
    <2> HIDE DEF b
    <2> DEFINE T == {n \in Nat : n \in 1..b => g[n] \in K[n]}
    <2>6. 0 \in T
      BY <1>1
    <2>7. ASSUME NEW n \in Nat, n \in T PROVE n + 1 \in T
      <3> SUFFICES ASSUME n + 1 \in 1..b PROVE g[n + 1] \in K[n + 1]
        OBVIOUS
      <3>1. n \in 0..(b - 1)
        BY <1>1
      <3>2. CASE n = 0
        <4>1. <<>> \o ss[1] \in K[1]
          <5>1. <<>> \in Seq(S) /\ <<>> \in K[0] /\ 0 + 1 = 1
            BY EmptySeq
          <5> QED
            BY <2>3, <3>1, <3>2, <5>1
        <4>2. 1 \in 1..b /\ n + 1 = 1
          BY <3>2
        <4>3. <<>> \o ss[1] = ss[1]
          BY <1>1, <4>2, ConcatEmptySeq
        <4>4. g[1] = ss[1]
          BY <2>2, <4>2
        <4> QED
          BY <4>1, <4>2, <4>3, <4>4
      <3>3. CASE n # 0
        <4>1. n \in 1..b /\ (n + 1) - 1 = n /\ n + 1 # 1
          BY <1>1, <3>3
        <4>2. g[n] \in K[n] /\ g[n] \in Seq(S)
          BY <2>4, <2>7, <4>1
        <4>3. g[n + 1] = g[n] \o ss[n + 1]
          BY <2>2, <4>1
        <4> QED
          BY <2>3, <3>1, <4>2, <4>3
      <3> QED
        BY <3>2, <3>3
    <2> HIDE DEF T
    <2>8. Nat \subseteq T
      BY <2>6, <2>7, NatSetInduction
    <2>9. b \in Nat /\ b \in 1..b
      BY <1>1, <1>3
    <2>10. g[b] \in K[b]
      BY <2>8, <2>9 DEF T
    <2> QED
      BY <2>5, <2>10 DEF b
  <1> QED
    BY <1>2, <1>3

-------------------------------------------------------------------------------
(* Within: of a sequence, what is in a set.                                   *)

Chosen(s, T) == [k \in DOMAIN s |-> IF s[k] \in T THEN <<s[k]>> ELSE <<>>]

LEMMA OneIsSeq ==
    ASSUME NEW S, NEW x \in S
    PROVE  <<x>> \in Seq(S) /\ Len(<<x>>) = 1 /\ <<x>>[1] = x
  OBVIOUS

LEMMA ChosenType ==
    ASSUME NEW S, NEW s \in Seq(S), NEW T
    PROVE  /\ Chosen(s, T) \in Seq(Seq(S \cap T)) /\ Len(Chosen(s, T)) = Len(s)
           /\ \A k \in 1..Len(s) : Chosen(s, T)[k] = IF s[k] \in T THEN <<s[k]>> ELSE <<>>
  <1>1. DOMAIN s = 1..Len(s) /\ Len(s) \in Nat
    OBVIOUS
  <1>2. \A k \in 1..Len(s) : Chosen(s, T)[k] = IF s[k] \in T THEN <<s[k]>> ELSE <<>>
    BY <1>1 DEF Chosen
  <1>3. ASSUME NEW k \in 1..Len(s) PROVE Chosen(s, T)[k] \in Seq(S \cap T)
    <2>1. CASE s[k] \in T
      <3>1. s[k] \in S \cap T
        BY <2>1
      <3>2. <<s[k]>> \in Seq(S \cap T)
        BY <3>1, OneIsSeq
      <3> QED
        BY <1>2, <2>1, <3>2
    <2>2. CASE s[k] \notin T
      <3>1. <<>> \in Seq(S \cap T)
        BY EmptySeq
      <3> QED
        BY <1>2, <2>2, <3>1
    <2> QED
      BY <2>1, <2>2
  <1>4. Chosen(s, T) = [k \in 1..Len(s) |-> Chosen(s, T)[k]]
    BY <1>1 DEF Chosen
  <1>5. Chosen(s, T) \in Seq(Seq(S \cap T)) /\ Len(Chosen(s, T)) = Len(s)
    BY <1>1, <1>3, <1>4
  <1> QED
    BY <1>2, <1>5

LEMMA WithinType ==
    ASSUME NEW S, NEW s \in Seq(S), NEW T
    PROVE  Within(s, T) \in Seq(S \cap T)
  <1>1. Within(s, T) = FlattenSeq(Chosen(s, T))
    BY DEF Within, Chosen
  <1> QED
    BY <1>1, ChosenType, FlattenType

LEMMA WithinEmpty ==
    ASSUME NEW S, NEW s \in Seq(S), NEW T, Len(s) = 0
    PROVE  Within(s, T) = <<>>
  <1>1. Len(Chosen(s, T)) = 0 /\ Chosen(s, T) \in Seq(Seq(S \cap T))
    BY ChosenType
  <1>2. Chosen(s, T) = <<>>
    BY <1>1, EmptySeq
  <1>3. FlattenSeq(Chosen(s, T)) = <<>>
    BY <1>1, <1>2 DEF FlattenSeq
  <1> QED
    BY <1>3 DEF Within, Chosen

LEMMA WithinAll ==
    ASSUME NEW S, NEW s \in Seq(S), NEW T, ToSet(s) \subseteq T
    PROVE  Within(s, T) = s
  <1>1. CASE Len(s) = 0
    BY <1>1, WithinEmpty, EmptySeq
  <1>2. CASE Len(s) # 0
    <2> DEFINE ss == Chosen(s, T)
               g == [i \in 1..Len(s) |-> SubSeq(s, 1, i)]
    <2>1. \A k \in 1..Len(s) : s[k] \in T
      BY DEF ToSet
    <2>2. Len(ss) = Len(s) /\ (\A k \in 1..Len(s) : ss[k] = <<s[k]>>)
      BY <2>1, ChosenType
    <2>3. ss \in Seq(Seq(S \cap T))
      BY ChosenType
    <2>4. \A i \in 1..Len(s) : SubSeq(s, 1, i) \in Seq(S \cap T)
      <3> TAKE i \in 1..Len(s)
      <3>1. \A k \in 1..i : s[k] \in S \cap T
        BY <2>1
      <3> QED
        BY <3>1, SubSeqProperties
    <2>5. g \in [1..Len(s) -> Seq(S \cap T)]
      BY <2>4
    <2>6. \A i \in 1..Len(s) : g[i] = SubSeq(s, 1, i)
      OBVIOUS
    <2> HIDE DEF ss, g
    <2>7. ASSUME NEW i \in 1..Len(s)
          PROVE  g[i] = IF i = 1 THEN ss[i] ELSE g[i - 1] \o ss[i]
      <3>1. CASE i = 1
        <4>1. SubSeq(s, 1, 1) = <<s[1]>>
          <5>1. SubSeq(s, 1, 1) = <<s[1]>> \o SubSeq(s, 1 + 1, 1)
            BY <1>2, SubSeqRecursiveFirst
          <5>2. SubSeq(s, 1 + 1, 1) = <<>>
            BY SubSeqEmpty
          <5>3. <<s[1]>> \in Seq(S)
            BY <1>2
          <5> QED
            BY <5>1, <5>2, <5>3, ConcatEmptySeq
        <4> QED
          BY <3>1, <2>2, <2>6, <4>1
      <3>2. CASE i # 1
        <4>1. SubSeq(s, 1, i) = SubSeq(s, 1, i - 1) \o <<s[i]>>
          BY SubSeqRecursiveSecond
        <4>2. i - 1 \in 1..Len(s)
          BY <3>2
        <4> QED
          BY <3>2, <2>2, <2>6, <4>1, <4>2
      <3> QED
        BY <3>1, <3>2
    <2>8. Flattens(g, ss)
      BY <2>2, <2>7 DEF Flattens, FlattensTo
    <2>9. FlattenSeq(ss) = g[Len(s)]
      <3>1. Len(ss) > 0 /\ g \in [1..Len(ss) -> Seq(S \cap T)]
        BY <1>2, <2>2, <2>5
      <3> QED
        BY <2>2, <2>3, <2>8, <3>1, FlattenIs
    <2>10. g[Len(s)] = s
      BY <1>2, <2>6, SubSeqFull
    <2> QED
      BY <2>9, <2>10 DEF Within, ss, Chosen
  <1> QED
    BY <1>1, <1>2

LEMMA WithinNone ==
    ASSUME NEW S, NEW s \in Seq(S), NEW T, ToSet(s) \cap T = {}
    PROVE  Within(s, T) = <<>>
  <1>1. S \cap T \cap ToSet(s) = {}
    OBVIOUS
  <1>2. ASSUME Len(s) # 0 PROVE Within(s, T) = <<>>
    <2> DEFINE ss == Chosen(s, T)
               g == [i \in 1..Len(s) |-> <<>>]
    <2>1. \A k \in 1..Len(s) : s[k] \notin T
      BY DEF ToSet
    <2>2. Len(ss) = Len(s) /\ (\A k \in 1..Len(s) : ss[k] = <<>>)
      <3>1. Len(ss) = Len(s)
        BY ChosenType
      <3>2. ASSUME NEW k \in 1..Len(s) PROVE ss[k] = <<>>
        <4>1. k \in DOMAIN s /\ s[k] \notin T
          BY <2>1
        <4> QED
          BY <4>1 DEF Chosen
      <3> QED
        BY <3>1, <3>2
    <2>7. ss \in Seq(Seq(S \cap T))
      BY ChosenType
    <2>3. g \in [1..Len(s) -> Seq(S \cap T)] /\ (\A k \in 1..Len(s) : g[k] = <<>>)
      OBVIOUS
    <2> HIDE DEF ss, g
    <2>4. ASSUME NEW i \in 1..Len(s)
          PROVE  g[i] = IF i = 1 THEN ss[i] ELSE g[i - 1] \o ss[i]
      <3>1. i # 1 => i - 1 \in 1..Len(s)
        OBVIOUS
      <3>2. <<>> \o <<>> = <<>>
        OBVIOUS
      <3> QED
        BY <2>2, <2>3, <3>1, <3>2
    <2>5. Flattens(g, ss)
      BY <2>2, <2>4 DEF Flattens, FlattensTo
    <2>6. FlattenSeq(ss) = g[Len(s)]
      <3>1. Len(ss) > 0 /\ g \in [1..Len(ss) -> Seq(S \cap T)]
        BY <1>2, <2>2, <2>3
      <3> QED
        BY <2>2, <2>5, <2>7, <3>1, FlattenIs
    <2> QED
      BY <1>2, <2>3, <2>6 DEF Within, ss, Chosen
  <1> QED
    BY <1>2, WithinEmpty

-------------------------------------------------------------------------------
(* Conversations: the messages they are made of, and the results behind a     *)
(* call.                                                                      *)

(* The messages a conversation is made of.                                    *)
Msg == [kind : Kinds, ids : Seq(Nat), n : 0..MaxMessages, covers : SUBSET (1..MaxMessages),
        cut : BOOLEAN]
Good == {m \in Msg : /\ m.kind = "result" => Len(m.ids) = 1
                     /\ m.kind = "calls" <=> Len(m.ids) > 0 /\ m.kind # "result"}
Conv == Seq(Good)

LEMMA ConvMember ==
    ASSUME NEW ms \in Conv, NEW i \in DOMAIN ms
    PROVE  /\ Len(ms) \in Nat /\ DOMAIN ms = 1..Len(ms) /\ i \in 1..Len(ms)
           /\ ms[i] \in Good /\ ms[i] \in Msg /\ ms[i].kind \in Kinds
           /\ ms[i].ids \in Seq(Nat) /\ DOMAIN ms[i].ids = 1..Len(ms[i].ids)
           /\ Len(ms[i].ids) \in Nat
           /\ ms[i].n \in 0..MaxMessages /\ ms[i].covers \subseteq 1..MaxMessages
           /\ ms[i].cut \in BOOLEAN
           /\ ms[i].kind = "result" => Len(ms[i].ids) = 1 /\ ms[i].ids = <<ms[i].ids[1]>>
           /\ ms[i].kind = "calls" => Len(ms[i].ids) > 0
           /\ Len(ms[i].ids) > 0 /\ ms[i].kind # "result" => ms[i].kind = "calls"
  <1>1. Len(ms) \in Nat /\ DOMAIN ms = 1..Len(ms) /\ i \in 1..Len(ms)
    BY DEF Conv
  <1>2. ms[i] \in Good
    BY <1>1 DEF Conv
  <1>3. ms[i] \in Msg
    BY <1>2 DEF Good
  <1>4. /\ ms[i].kind \in Kinds /\ ms[i].ids \in Seq(Nat)
        /\ ms[i].n \in 0..MaxMessages /\ ms[i].covers \subseteq 1..MaxMessages
        /\ ms[i].cut \in BOOLEAN
    BY <1>3 DEF Msg
  <1>5. DOMAIN ms[i].ids = 1..Len(ms[i].ids) /\ Len(ms[i].ids) \in Nat
    BY <1>4
  <1>6. /\ ms[i].kind = "result" => Len(ms[i].ids) = 1
        /\ ms[i].kind = "calls" => Len(ms[i].ids) > 0
        /\ Len(ms[i].ids) > 0 /\ ms[i].kind # "result" => ms[i].kind = "calls"
    BY <1>2 DEF Good
  <1>7. ms[i].kind = "result" => ms[i].ids = <<ms[i].ids[1]>>
    BY <1>4, <1>6
  <1> QED
    BY <1>1, <1>2, <1>3, <1>4, <1>5, <1>6, <1>7

(* The results behind a message are a stretch of messages.                    *)
LEMMA BlockIs ==
    ASSUME NEW ms \in Conv, NEW i \in DOMAIN ms
    PROVE  \E n \in 0..(Len(ms) - i) : Block(ms, i) = (i + 1)..(i + n) /\ Cardinality(Block(ms, i)) = n
  <1>1. Len(ms) \in Nat /\ i \in 1..Len(ms)
    BY ConvMember
  <1> DEFINE S == {n \in 0..(Len(ms) - i) : \A k \in (i + 1)..(i + n) : ms[k].kind = "result"}
  <1>2. 0 \in S
    BY <1>1
  <1>3. PICK n \in S : \A k \in S : k <= n
    <2>1. S \subseteq 0..(Len(ms) - i)
      OBVIOUS
    <2>2. Len(ms) - i \in Nat
      BY <1>1
    <2> HIDE DEF S
    <2>3. S # {}
      BY <1>2
    <2> QED
      BY <2>1, <2>2, <2>3, GreatestNat
  <1>4. n \in 0..(Len(ms) - i) /\ (\A k \in (i + 1)..(i + n) : ms[k].kind = "result")
    OBVIOUS
  <1>5. ASSUME NEW j \in Block(ms, i) PROVE j \in (i + 1)..(i + n)
    <2>1. j \in (i + 1)..Len(ms) /\ (\A k \in (i + 1)..j : ms[k].kind = "result")
      BY DEF Block
    <2>2. j - i \in 0..(Len(ms) - i) /\ i + (j - i) = j
      BY <1>1, <2>1
    <2>3. j - i \in S
      BY <2>1, <2>2
    <2> QED
      BY <1>1, <1>3, <1>4, <2>1, <2>3
  <1>6. ASSUME NEW j \in (i + 1)..(i + n) PROVE j \in Block(ms, i)
    <2>1. j \in (i + 1)..Len(ms)
      BY <1>1, <1>4
    <2>2. \A k \in (i + 1)..j : ms[k].kind = "result"
      BY <1>1, <1>4
    <2> QED
      BY <2>1, <2>2 DEF Block
  <1>7. Block(ms, i) = (i + 1)..(i + n)
    BY <1>5, <1>6
  <1>8. Cardinality((i + 1)..(i + n)) = n
    <2>1. i + 1 \in Int /\ i + n \in Int /\ n \in Nat
      BY <1>1, <1>4
    <2>2. Cardinality((i + 1)..(i + n)) = IF i + 1 > i + n THEN 0 ELSE (i + n) - (i + 1) + 1
      BY <2>1, FS_Interval
    <2> QED
      BY <1>1, <2>1, <2>2
  <1> QED
    BY <1>4, <1>7, <1>8

LEMMA AnswersAre ==
    ASSUME NEW ms \in Conv, NEW i \in DOMAIN ms, NEW id \in ToSet(Answers(ms, i))
    PROVE  \E j \in Block(ms, i) : ms[j].ids = <<id>>
  <1>1. PICK n \in 0..(Len(ms) - i) : Block(ms, i) = (i + 1)..(i + n) /\ Cardinality(Block(ms, i)) = n
    BY BlockIs
  <1>2. Len(ms) \in Nat /\ i \in 1..Len(ms) /\ DOMAIN ms = 1..Len(ms)
    BY ConvMember
  <1>3. Answers(ms, i) = [k \in 1..n |-> ms[i + k].ids[1]]
    BY <1>1 DEF Answers
  <1>4. PICK k \in 1..n : id = ms[i + k].ids[1]
    BY <1>3 DEF ToSet
  <1>5. i + k \in Block(ms, i) /\ i + k \in DOMAIN ms
    BY <1>1, <1>2
  <1>6. ms[i + k].kind = "result"
    BY <1>5 DEF Block
  <1> QED
    BY <1>4, <1>5, <1>6, ConvMember

-------------------------------------------------------------------------------
(* repairMessageHistory gives a conversation.                                 *)

(* What repair makes of one message.                                          *)
Answered(ms, i) == Within(ms[i].ids, ToSet(Answers(ms, i)))
ResultsOf(ms, i, id) == {j \in Block(ms, i) : ms[j].ids = <<id>>}
ResultOf(ms, i, id) ==
    ms[CHOOSE j \in ResultsOf(ms, i, id) : \A k \in ResultsOf(ms, i, id) : j <= k]
TheirResults(ms, i) == [k \in DOMAIN Answered(ms, i) |-> ResultOf(ms, i, Answered(ms, i)[k])]

LEMMA FixedIs ==
    ASSUME NEW ms, NEW i
    PROVE  /\ ms[i].kind = "result" => Fixed(ms, i) = <<>>
           /\ ms[i].kind = "calls" /\ Answered(ms, i) = <<>> => Fixed(ms, i) = <<>>
           /\ ms[i].kind = "calls" /\ Answered(ms, i) # <<>> =>
                Fixed(ms, i) = <<[ms[i] EXCEPT !.ids = Answered(ms, i)]>> \o TheirResults(ms, i)
           /\ ms[i].kind \notin {"result", "calls"} => Fixed(ms, i) = <<ms[i]>>
  <1>1. ms[i].kind = "result" => Fixed(ms, i) = <<>>
    BY DEF Fixed
  <1>2. ms[i].kind = "calls" /\ Answered(ms, i) = <<>> => Fixed(ms, i) = <<>>
    BY DEF Fixed, Answered
  <1>3. ms[i].kind = "calls" /\ Answered(ms, i) # <<>> =>
          Fixed(ms, i) = <<[ms[i] EXCEPT !.ids = Answered(ms, i)]>> \o TheirResults(ms, i)
    BY DEF Fixed, Answered, TheirResults, ResultOf, ResultsOf
  <1>4. ms[i].kind \notin {"result", "calls"} => Fixed(ms, i) = <<ms[i]>>
    BY DEF Fixed
  <1> QED
    BY <1>1, <1>2, <1>3, <1>4

LEMMA AnsweredType ==
    ASSUME NEW ms \in Conv, NEW i \in DOMAIN ms
    PROVE  /\ Answered(ms, i) \in Seq(Nat)
           /\ DOMAIN Answered(ms, i) = 1..Len(Answered(ms, i))
           /\ \A k \in DOMAIN Answered(ms, i) : Answered(ms, i)[k] \in ToSet(Answers(ms, i))
  <1> DEFINE T == ToSet(Answers(ms, i))
  <1>1. ms[i].ids \in Seq(Nat)
    BY ConvMember
  <1> HIDE DEF T
  <1>2. Within(ms[i].ids, T) \in Seq(Nat \cap T)
    BY <1>1, WithinType
  <1>3. Answered(ms, i) \in Seq(Nat \cap T)
    BY <1>2 DEF Answered, T
  <1>4. Answered(ms, i) \in Seq(Nat)
    BY <1>3, SeqMonotonic
  <1>5. ASSUME NEW k \in DOMAIN Answered(ms, i) PROVE Answered(ms, i)[k] \in T
    BY <1>3
  <1> QED
    BY <1>4, <1>5 DEF T

LEMMA ResultOfIs ==
    ASSUME NEW ms \in Conv, NEW i \in DOMAIN ms, NEW id \in ToSet(Answers(ms, i))
    PROVE  \E j \in Block(ms, i) : /\ ms[j].ids = <<id>> /\ ResultOf(ms, i, id) = ms[j]
                                   /\ ms[j] \in Good
  <1> DEFINE S == ResultsOf(ms, i, id)
  <1>1. S # {}
    BY AnswersAre DEF ResultsOf
  <1>2. \A j \in S : j \in Block(ms, i) /\ ms[j].ids = <<id>> /\ j \in DOMAIN ms /\ j \in Nat
    <2>1. Len(ms) \in Nat /\ i \in 1..Len(ms) /\ DOMAIN ms = 1..Len(ms)
      BY ConvMember
    <2> QED
      BY <2>1 DEF ResultsOf, Block
  <1>3. S \subseteq Nat
    BY <1>2
  <1> HIDE DEF S
  <1>4. \E j \in S : \A k \in S : j <= k
    BY <1>1, <1>3, LeastNat
  <1>5. PICK j \in S : j = CHOOSE m \in S : \A k \in S : m <= k
    BY <1>4
  <1>6. ResultOf(ms, i, id) = ms[j]
    BY <1>5 DEF ResultOf, S
  <1> QED
    BY <1>2, <1>6, ConvMember

LEMMA FixedType ==
    ASSUME NEW ms \in Conv, NEW i \in DOMAIN ms
    PROVE  Fixed(ms, i) \in Conv
  <1> DEFINE a == Answered(ms, i)
             r == TheirResults(ms, i)
  <1>1. a \in Seq(Nat) /\ DOMAIN a = 1..Len(a) /\ Len(a) \in Nat
    BY AnsweredType
  <1>2. <<>> \in Conv
    BY EmptySeq DEF Conv
  <1>3. CASE ms[i].kind = "result"
    BY <1>2, <1>3, FixedIs
  <1>4. CASE ms[i].kind = "calls" /\ a = <<>>
    BY <1>2, <1>4, FixedIs
  <1>5. CASE ms[i].kind = "calls" /\ a # <<>>
    <2>1. Len(a) > 0
      BY <1>1, <1>5
    <2>2. [ms[i] EXCEPT !.ids = a] \in Good
      <3>1. ms[i] \in Msg
        BY ConvMember
      <3> HIDE DEF a
      <3>2. [ms[i] EXCEPT !.ids = a] \in Msg
        BY <1>1, <3>1 DEF Msg
      <3>3. [ms[i] EXCEPT !.ids = a].ids = a /\ [ms[i] EXCEPT !.ids = a].kind = "calls"
        BY <1>5, <3>1 DEF Msg
      <3> QED
        BY <2>1, <3>2, <3>3 DEF Good
    <2>3. \A k \in 1..Len(a) : ResultOf(ms, i, a[k]) \in Good
      BY <1>1, AnsweredType, ResultOfIs
    <2>4. r = [k \in 1..Len(a) |-> ResultOf(ms, i, a[k])]
      BY <1>1 DEF TheirResults
    <2>5. r \in Conv
      <3> HIDE DEF r, a
      <3> QED
        BY <1>1, <2>3, <2>4 DEF Conv
    <2>6. Fixed(ms, i) = <<[ms[i] EXCEPT !.ids = a]>> \o r
      BY <1>5, FixedIs
    <2> HIDE DEF r, a
    <2>7. <<[ms[i] EXCEPT !.ids = a]>> \in Seq(Good)
      BY <2>2, OneIsSeq
    <2> QED
      BY <2>5, <2>6, <2>7, ConcatProperties DEF Conv
  <1>6. CASE ms[i].kind \notin {"result", "calls"}
    <2>1. <<ms[i]>> \in Seq(Good)
      BY ConvMember, OneIsSeq
    <2> QED
      BY <1>6, <2>1, FixedIs DEF Conv
  <1> QED
    BY <1>3, <1>4, <1>5, <1>6

LEMMA FixedsType ==
    ASSUME NEW ms \in Conv
    PROVE  /\ [i \in DOMAIN ms |-> Fixed(ms, i)] \in Seq(Seq(Good))
           /\ Len([i \in DOMAIN ms |-> Fixed(ms, i)]) = Len(ms)
  <1>1. DOMAIN ms = 1..Len(ms) /\ Len(ms) \in Nat
    BY DEF Conv
  <1>2. \A i \in 1..Len(ms) : Fixed(ms, i) \in Seq(Good)
    BY <1>1, FixedType DEF Conv
  <1> QED
    BY <1>1, <1>2

LEMMA RepairType ==
    ASSUME NEW ms \in Conv
    PROVE  Repair(ms) \in Conv
  <1>1. FlattenSeq([i \in DOMAIN ms |-> Fixed(ms, i)]) \in Seq(Good)
    BY FixedsType, FlattenType
  <1> QED
    BY <1>1 DEF Repair, Conv

-------------------------------------------------------------------------------
(* safeHistoryKeepStart and canonicalizeToolTurn.                             *)

(* Where a stretch of messages may begin: not with a result.                  *)
Begins(ms, n) == n = 0 \/ n = Len(ms) \/ ms[n + 1].kind # "result"

LEMMA BoundaryIs ==
    ASSUME NEW ms \in Conv
    PROVE  \E n \in 0..Len(ms) :
              /\ Begins(ms, n)
              /\ Boundary(ms) = IF n > 0 /\ ms[n].kind = "calls" THEN n - 1 ELSE n
  <1> DEFINE plain == IF Len(ms) > KeepLast THEN Len(ms) - KeepLast ELSE 0
             Is(n) == Begins(ms, n) /\ \A k \in (n + 1)..plain : ~Begins(ms, k)
             S == {n \in 0..plain : Begins(ms, n)}
  <1>1. Len(ms) \in Nat
    BY DEF Conv
  <1>2. plain \in 0..Len(ms)
    BY <1>1, TranscriptAssumption
  <1>3. Boundary(ms) = LET start == CHOOSE n \in 0..plain : Is(n)
                       IN  IF start > 0 /\ ms[start].kind = "calls" THEN start - 1 ELSE start
    BY DEF Boundary, Begins
  <1> HIDE DEF plain
  <1>4. \E n \in 0..plain : Is(n)
    <2>1. S # {}
      <3>1. 0 \in 0..plain
        BY <1>1, <1>2
      <3> QED
        BY <3>1 DEF Begins
    <2>2. S \subseteq 0..plain /\ plain \in Nat
      BY <1>1, <1>2
    <2> HIDE DEF S
    <2>3. PICK n \in S : \A k \in S : k <= n
      BY <2>1, <2>2, GreatestNat
    <2>4. n \in 0..plain /\ Begins(ms, n)
      BY DEF S
    <2>5. ASSUME NEW k \in (n + 1)..plain, Begins(ms, k) PROVE FALSE
      <3>1. k \in 0..plain
        BY <2>2, <2>4
      <3>2. k \in S
        BY <2>5, <3>1 DEF S
      <3> QED
        BY <2>2, <2>3, <2>4, <3>2
    <2> QED
      BY <2>4, <2>5
  <1> HIDE DEF Is
  <1>5. PICK n \in 0..plain : Is(n) /\ n = CHOOSE m \in 0..plain : Is(m)
    BY <1>4
  <1>6. Boundary(ms) = IF n > 0 /\ ms[n].kind = "calls" THEN n - 1 ELSE n
    BY <1>3, <1>5
  <1>7. n \in 0..Len(ms)
    BY <1>1, <1>2
  <1> QED
    BY <1>5, <1>6, <1>7 DEF Is

LEMMA BoundaryType ==
    ASSUME NEW ms \in Conv
    PROVE  Boundary(ms) \in 0..Len(ms) /\ Len(ms) \in Nat
  <1>1. Len(ms) \in Nat
    BY DEF Conv
  <1> QED
    BY <1>1, BoundaryIs

(* The ids of the calls are a finite set of numbers.                          *)
LEMMA IdsFinite ==
    ASSUME NEW s \in Seq(Nat)
    PROVE  IsFiniteSet(ToSet(s)) /\ ToSet(s) \subseteq Nat
  <1>1. DOMAIN s = 1..Len(s) /\ Len(s) \in Nat
    OBVIOUS
  <1>2. s \in Surjection(1..Len(s), ToSet(s))
    BY <1>1 DEF Surjection, ToSet
  <1>3. IsFiniteSet(ToSet(s))
    BY <1>1, <1>2, FS_NatSurjection DEF ExistsSurjection
  <1> QED
    BY <1>1, <1>3 DEF ToSet

LEMMA CallIdsFinite ==
    ASSUME NEW ms \in Conv
    PROVE  IsFiniteSet(CallIds(ms)) /\ CallIds(ms) \subseteq Nat
  <1> DEFINE Up(n) == UNION {ToSet(ms[i].ids) : i \in {j \in 1..n : j \in Calls(ms)}}
             T == {n \in Nat : n <= Len(ms) => IsFiniteSet(Up(n)) /\ Up(n) \subseteq Nat}
  <1>1. DOMAIN ms = 1..Len(ms) /\ Len(ms) \in Nat
    BY DEF Conv
  <1>2. 0 \in T
    <2>1. Up(0) = {}
      OBVIOUS
    <2> QED
      BY <2>1, FS_EmptySet
  <1>3. ASSUME NEW n \in Nat, n \in T PROVE n + 1 \in T
    <2> SUFFICES ASSUME n + 1 <= Len(ms) PROVE IsFiniteSet(Up(n + 1)) /\ Up(n + 1) \subseteq Nat
      OBVIOUS
    <2>1. IsFiniteSet(Up(n)) /\ Up(n) \subseteq Nat
      BY <1>1, <1>3
    <2>2. n + 1 \in DOMAIN ms
      BY <1>1
    <2>3. IsFiniteSet(ToSet(ms[n + 1].ids)) /\ ToSet(ms[n + 1].ids) \subseteq Nat
      BY <2>2, ConvMember, IdsFinite
    <2>4. 1..(n + 1) = (1..n) \cup {n + 1}
      OBVIOUS
    <2>5. CASE n + 1 \in Calls(ms)
      <3>1. {j \in 1..(n + 1) : j \in Calls(ms)} = {j \in 1..n : j \in Calls(ms)} \cup {n + 1}
        BY <2>4, <2>5
      <3>2. Up(n + 1) = Up(n) \cup ToSet(ms[n + 1].ids)
        BY <3>1
      <3>3. IsFiniteSet(Up(n) \cup ToSet(ms[n + 1].ids))
        <4> HIDE DEF Up
        <4> QED
          BY <2>1, <2>3, FS_Union
      <3> HIDE DEF Up
      <3> QED
        BY <2>1, <2>3, <3>2, <3>3
    <2>6. CASE n + 1 \notin Calls(ms)
      <3>1. {j \in 1..(n + 1) : j \in Calls(ms)} = {j \in 1..n : j \in Calls(ms)}
        BY <2>4, <2>6
      <3>2. Up(n + 1) = Up(n)
        BY <3>1
      <3> HIDE DEF Up
      <3> QED
        BY <2>1, <3>2
    <2> QED
      BY <2>5, <2>6
  <1>4. Len(ms) \in T
    <2> HIDE DEF T
    <2>1. Nat \subseteq T
      BY <1>2, <1>3, NatSetInduction
    <2> QED
      BY <1>1, <2>1
  <1>5. Up(Len(ms)) = CallIds(ms)
    BY <1>1 DEF CallIds, Calls
  <1> HIDE DEF Up
  <1> QED
    BY <1>1, <1>4, <1>5

(* canonicalizeToolTurn: as many ids as calls, all different, none taken.     *)
LEMMA FreshIdsAre ==
    ASSUME NEW ms \in Conv, NEW k \in Nat
    PROVE  /\ FreshIds(ms, k) \in Seq(Nat) /\ Len(FreshIds(ms, k)) = k
           /\ IsInjective(FreshIds(ms, k))
           /\ ToSet(FreshIds(ms, k)) \cap CallIds(ms) = {}
  <1> DEFINE C == CallIds(ms)
             n == Cardinality(C)
             F == (1..(n + k)) \ C
             s == SetToSeq(F)
  <1>1. IsFiniteSet(C) /\ n \in Nat /\ C \subseteq Nat
    BY CallIdsFinite, FS_CardinalityType
  <1>2. IsFiniteSet(F) /\ Cardinality(F) \in Nat /\ k <= Cardinality(F)
    <2> HIDE DEF C, n
    <2>1. IsFiniteSet(1..(n + k)) /\ Cardinality(1..(n + k)) = n + k
      BY <1>1, FS_Interval
    <2>2. IsFiniteSet(F)
      BY <2>1, FS_Subset
    <2>3. Cardinality(F \cup C) = Cardinality(F) + n - Cardinality(F \cap C) /\ IsFiniteSet(F \cup C)
      BY <1>1, <2>2, FS_Union DEF n
    <2>4. F \cap C = {}
      OBVIOUS
    <2>5. 1..(n + k) \subseteq F \cup C
      OBVIOUS
    <2>6. n + k <= Cardinality(F \cup C)
      BY <2>1, <2>3, <2>5, FS_Subset
    <2>7. Cardinality(F) \in Nat /\ Cardinality({}) = 0
      BY <2>2, FS_CardinalityType, FS_EmptySet
    <2> QED
      BY <1>1, <2>2, <2>3, <2>4, <2>6, <2>7
  <1>3. F \subseteq Nat /\ F \cap C = {}
    OBVIOUS
  <1>4. FreshIds(ms, k) = SubSeq(s, 1, k)
    BY DEF FreshIds
  <1> HIDE DEF F, C, n
  <1>5. s \in [1..Cardinality(F) -> F] /\ IsInjective(s)
    <2>1. PICK f : f \in Bijection(1..Cardinality(F), F)
      BY <1>2, FS_CardinalityType DEF ExistsBijection
    <2>2. f \in [1..Cardinality(F) -> F] /\ IsInjective(f)
      BY <2>1 DEF Bijection, Injection
    <2> QED
      BY <2>2 DEF SetToSeq
  <1> HIDE DEF s
  <1>6. \A i \in 1..k : s[i] \in F
    BY <1>2, <1>5
  <1>7. /\ SubSeq(s, 1, k) \in Seq(F) /\ Len(SubSeq(s, 1, k)) = k
        /\ \A i \in 1..k : SubSeq(s, 1, k)[i] = s[i]
    BY <1>6, SubSeqProperties
  <1> DEFINE f == SubSeq(s, 1, k)
  <1> HIDE DEF f
  <1>8. f \in Seq(F) /\ Len(f) = k /\ DOMAIN f = 1..k /\ (\A i \in 1..k : f[i] = s[i])
    BY <1>7 DEF f
  <1>9. f \in Seq(Nat)
    BY <1>3, <1>8, SeqMonotonic
  <1>10. IsInjective(f)
    <2>1. DOMAIN s = 1..Cardinality(F)
      BY <1>5
    <2>2. 1..k \subseteq DOMAIN s
      BY <1>2, <2>1
    <2> QED
      BY <1>5, <1>8, <2>2 DEF IsInjective
  <1>11. ToSet(f) \cap C = {}
    BY <1>3, <1>8 DEF ToSet
  <1> QED
    BY <1>4, <1>8, <1>9, <1>10, <1>11 DEF f, C

-------------------------------------------------------------------------------
(* The types of the variables, and what the operations make of conversations. *)

Job == [busy : BOOLEAN, fresh : BOOLEAN, from : Conv, taken : Nat,
        covers : SUBSET (1..MaxMessages)]
Prepared == [busy : BOOLEAN, prefix : Conv, same : BOOLEAN]

Takes(j) == j.busy => j.taken \in 1..Len(j.from)
Ones(j) == IF j.busy THEN 1 ELSE 0

TalkOK == messages \in Conv /\ left \in Conv /\ snapshot \in Conv
JobsOK ==
    /\ job \in Job /\ command \in Job /\ prefetch \in Prepared
    /\ Takes(job) /\ Takes(command)
    /\ prefetch.busy => Len(prefetch.prefix) > 0
TurnOK ==
    /\ at \in {"idle", "ready", "shrinking", "compressing", "model", "tools"}
    /\ batch \in Seq(Nat) /\ aborted \in BOOLEAN /\ crossed \in BOOLEAN
    /\ job.busy <=> at = "compressing"
    /\ batch # <<>> => at = "tools"
(* A compression that has begun is counted with those that are done: the cap *)
(* is looked at before either.                                               *)
CountOK ==
    /\ count \in Nat /\ commands \in 0..MaxCommands
    /\ count + Ones(job) + Ones(command) <= MaxCompressions + commands
    /\ command.busy => commands > 0
NumberOK == last \in 0..MaxMessages /\ said \subseteq 1..last /\ aborts \in 0..MaxAborts

TypeInv == TalkOK /\ JobsOK /\ TurnOK /\ CountOK /\ NumberOK

LEMMA MessageType ==
    ASSUME NEW n \in 0..MaxMessages
    PROVE  /\ \A kind \in {"user", "text", "summary", "ack"} : Message(kind, <<>>, n) \in Good
           /\ \A id \in Nat : Message("result", <<id>>, n) \in Good
           /\ \A ids \in Seq(Nat) : Len(ids) > 0 => Message("calls", ids, n) \in Good
  <1>1. \A kind \in Kinds, ids \in Seq(Nat) :
           /\ Message(kind, ids, n) \in Msg
           /\ Message(kind, ids, n).kind = kind /\ Message(kind, ids, n).ids = ids
    BY DEF Message, Msg
  <1>2. <<>> \in Seq(Nat) /\ Len(<<>>) = 0
    BY EmptySeq
  <1>3. \A kind \in {"user", "text", "summary", "ack"} :
           kind \in Kinds /\ kind # "result" /\ kind # "calls"
    BY DEF Kinds
  <1>4. "result" \in Kinds /\ "calls" \in Kinds
    BY DEF Kinds
  <1>5. ASSUME NEW kind \in {"user", "text", "summary", "ack"}
        PROVE  Message(kind, <<>>, n) \in Good
    <2> DEFINE m == Message(kind, <<>>, n)
    <2>1. m \in Msg /\ m.kind = kind /\ Len(m.ids) = 0
      BY <1>1, <1>2, <1>3
    <2> HIDE DEF m
    <2>2. m \in Good
      BY <1>3, <2>1 DEF Good
    <2> QED
      BY <2>2 DEF m
  <1>6. ASSUME NEW id \in Nat PROVE Message("result", <<id>>, n) \in Good
    <2>1. <<id>> \in Seq(Nat) /\ Len(<<id>>) = 1
      OBVIOUS
    <2> QED
      BY <1>1, <1>4, <2>1 DEF Good
  <1>7. ASSUME NEW ids \in Seq(Nat), Len(ids) > 0 PROVE Message("calls", ids, n) \in Good
    BY <1>1, <1>4, <1>7 DEF Good
  <1> QED
    BY <1>5, <1>6, <1>7

LEMMA InNumbers ==
    ASSUME NEW ms, NEW x
    PROVE  x \in Numbers(ms) <=>
             x # 0 /\ \E i \in DOMAIN ms : x = ms[i].n \/ x \in ms[i].covers
  <1> DEFINE U == UNION {{ms[i].n} \cup ms[i].covers : i \in DOMAIN ms}
  <1>1. Numbers(ms) = U \ {0}
    BY DEF Numbers
  <1>2. x \in U <=> \E i \in DOMAIN ms : x = ms[i].n \/ x \in ms[i].covers
    OBVIOUS
  <1> HIDE DEF U
  <1> QED
    BY <1>1, <1>2

LEMMA NumbersType ==
    ASSUME NEW ms \in Conv
    PROVE  Numbers(ms) \subseteq 1..MaxMessages
  <1>1. ASSUME NEW x \in Numbers(ms) PROVE x \in 1..MaxMessages
    <2>1. PICK i \in DOMAIN ms : x = ms[i].n \/ x \in ms[i].covers
      BY InNumbers
    <2>2. x # 0
      BY InNumbers
    <2>3. ms[i].n \in 0..MaxMessages /\ ms[i].covers \subseteq 1..MaxMessages
      BY ConvMember
    <2> QED
      BY <2>1, <2>2, <2>3, TranscriptAssumption
  <1> QED
    BY <1>1

LEMMA PieceType ==
    ASSUME NEW ms \in Conv, NEW a \in 1..(Len(ms) + 1), NEW b \in 0..Len(ms)
    PROVE  /\ SubSeq(ms, a, b) \in Conv
           /\ Len(SubSeq(ms, a, b)) = IF a <= b THEN b - a + 1 ELSE 0
           /\ \A i \in 1..(b - a + 1) : SubSeq(ms, a, b)[i] = ms[a + i - 1]
  <1>1. Len(ms) \in Nat /\ DOMAIN ms = 1..Len(ms)
    BY DEF Conv
  <1>2. a \in Int /\ b \in Int /\ (\A i \in a..b : i \in 1..Len(ms))
    BY <1>1
  <1>3. \A i \in a..b : ms[i] \in Good
    BY <1>1, <1>2, ConvMember
  <1> QED
    BY <1>2, <1>3, SubSeqProperties DEF Conv

LEMMA AgedIs ==
    ASSUME NEW ms, prefetch \in Prepared
    PROVE  /\ Aged(ms) \in Prepared /\ Aged(ms).busy = prefetch.busy
           /\ Aged(ms).prefix = prefetch.prefix
  BY DEF Aged, Prepared

(* What a compression that begins takes.                                      *)
LEMMA BegunIs ==
    ASSUME messages \in Conv, prefetch \in Prepared, NEW j \in Begun
    PROVE  /\ j \in Job /\ j.busy /\ j.from = messages /\ j.taken \in 0..Len(messages)
           /\ j.fresh => /\ j.taken = Boundary(messages)
                         /\ j.covers = Numbers(SubSeq(messages, 1, j.taken))
           /\ ~j.fresh => /\ Usable(messages) /\ j.taken = Len(prefetch.prefix)
                          /\ j.covers = Numbers(prefetch.prefix)
  <1>1. Boundary(messages) \in 0..Len(messages) /\ Len(messages) \in Nat
    BY BoundaryType
  <1>2. prefetch.prefix \in Conv /\ Len(prefetch.prefix) \in Nat
    BY DEF Prepared, Conv
  <1> DEFINE b == Boundary(messages)
             p == [busy |-> TRUE, fresh |-> TRUE, from |-> messages, taken |-> b,
                   covers |-> Numbers(SubSeq(messages, 1, b))]
             q == [busy |-> TRUE, fresh |-> FALSE, from |-> messages,
                   taken |-> Len(prefetch.prefix), covers |-> Numbers(prefetch.prefix)]
  <1>3. j = p \/ (Usable(messages) /\ j = q)
    BY DEF Begun
  <1> HIDE DEF b
  <1>4. Numbers(SubSeq(messages, 1, b)) \subseteq 1..MaxMessages
    <2>1. SubSeq(messages, 1, b) \in Conv
      BY <1>1, PieceType DEF b
    <2> QED
      BY <2>1, NumbersType
  <1>5. Numbers(prefetch.prefix) \subseteq 1..MaxMessages
    BY <1>2, NumbersType
  <1>6. CASE j = p
    <2>1. j \in Job
      BY <1>1, <1>4, <1>6 DEF Job, b
    <2> QED
      BY <1>1, <1>6, <2>1 DEF b
  <1>7. CASE Usable(messages) /\ j = q
    <2>1. j \in Job
      BY <1>2, <1>5, <1>7 DEF Job
    <2>2. Len(prefetch.prefix) <= Len(messages)
      BY <1>7 DEF Usable, IsPrefix
    <2> QED
      BY <1>1, <1>2, <1>7, <2>1, <2>2
  <1> QED
    BY <1>3, <1>6, <1>7

(* What a compression leaves.                                                 *)
Condensed(j) ==
    <<[Message("summary", <<>>, 0) EXCEPT !.covers = j.covers], Message("ack", <<>>, 0)>>
    \o SubSeq(j.from, j.taken + 1, Len(j.from))

LEMMA CondensedType ==
    ASSUME NEW j \in Job, j.busy, j.taken \in 0..Len(j.from)
    PROVE  Condensed(j) \in Conv
  <1> DEFINE s == [Message("summary", <<>>, 0) EXCEPT !.covers = j.covers]
             a == Message("ack", <<>>, 0)
  <1>1. j.covers \subseteq 1..MaxMessages /\ j.from \in Conv /\ 0 \in 0..MaxMessages
    BY TranscriptAssumption DEF Job
  <1>2. Len(j.from) \in Nat
    BY <1>1 DEF Conv
  <1>3. a \in Good /\ Message("summary", <<>>, 0) \in Good
    BY <1>1, MessageType
  <1>4. s \in Good
    BY <1>1, <1>3 DEF Good, Msg
  <1>5. SubSeq(j.from, j.taken + 1, Len(j.from)) \in Conv
    <2>1. j.taken + 1 \in 1..(Len(j.from) + 1) /\ Len(j.from) \in 0..Len(j.from)
      BY <1>2
    <2> QED
      BY <1>1, <2>1, PieceType
  <1> HIDE DEF s, a
  <1>6. <<s, a>> \in Seq(Good)
    BY <1>3, <1>4
  <1>7. <<s, a>> \o SubSeq(j.from, j.taken + 1, Len(j.from)) \in Seq(Good)
    BY <1>5, <1>6, ConcatProperties DEF Conv
  <1> QED
    BY <1>7 DEF Condensed, s, a, Conv

-------------------------------------------------------------------------------
(* Every step keeps the types.                                                *)

LEMMA TypeInit == Init => TypeInv
  <1> SUFFICES ASSUME Init PROVE TypeInv
    OBVIOUS
  <1>1. <<>> \in Conv /\ <<>> \in Seq(Nat)
    BY EmptySeq DEF Conv
  <1>2. NoJob \in Job /\ ~NoJob.busy /\ NoPrefetch \in Prepared /\ ~NoPrefetch.busy
    BY <1>1 DEF NoJob, NoPrefetch, Job, Prepared
  <1>3. TalkOK
    BY <1>1 DEF Init, TalkOK
  <1>4. JobsOK
    BY <1>2 DEF Init, JobsOK, Takes
  <1>5. TurnOK
    BY <1>1, <1>2 DEF Init, TurnOK
  <1>6. CountOK
    BY <1>2, TranscriptAssumption DEF Init, CountOK, Ones
  <1>7. NumberOK
    BY TranscriptAssumption DEF Init, NumberOK
  <1> QED
    BY <1>3, <1>4, <1>5, <1>6, <1>7 DEF TypeInv

LEMMA EmptyType ==
    /\ <<>> \in Conv /\ <<>> \in Seq(Nat) /\ NoJob \in Job /\ ~NoJob.busy
    /\ NoPrefetch \in Prepared /\ ~NoPrefetch.busy
  <1>1. <<>> \in Conv /\ <<>> \in Seq(Nat)
    BY EmptySeq DEF Conv
  <1> QED
    BY <1>1 DEF NoJob, NoPrefetch, Job, Prepared

LEMMA AppendType ==
    ASSUME NEW ms \in Conv, NEW m \in Good
    PROVE  /\ Append(ms, m) \in Conv /\ Len(Append(ms, m)) = Len(ms) + 1 /\ Len(ms) \in Nat
           /\ \A i \in 1..Len(ms) : Append(ms, m)[i] = ms[i]
           /\ Append(ms, m)[Len(ms) + 1] = m
  <1>1. Len(ms) \in Nat
    BY DEF Conv
  <1> QED
    BY <1>1, AppendProperties DEF Conv

LEMMA PromptType ==
    ASSUME TypeInv, Prompt
    PROVE  TypeInv'
  <1> USE DEF TypeInv
  <1>1. last + 1 \in 0..MaxMessages /\ last' = last + 1
    BY TranscriptAssumption DEF Prompt, Room, NumberOK
  <1>2. Message("user", <<>>, last') \in Good
    BY <1>1, MessageType
  <1>3. messages' \in Conv
    BY <1>2, RepairType, AppendType DEF Prompt, TalkOK
  <1>4. prefetch' \in Prepared /\ prefetch'.busy = prefetch.busy /\ prefetch'.prefix = prefetch.prefix
    BY AgedIs DEF Prompt, JobsOK
  <1>5. TalkOK'
    BY <1>3 DEF Prompt, TalkOK
  <1>6. JobsOK'
    BY <1>4 DEF Prompt, JobsOK, Takes
  <1>7. TurnOK'
    BY DEF Prompt, TurnOK
  <1>8. CountOK'
    BY DEF Prompt, CountOK, Ones
  <1>9. NumberOK'
    BY <1>1 DEF Prompt, NumberOK
  <1> QED
    BY <1>5, <1>6, <1>7, <1>8, <1>9

LEMMA ShrinkBeginsType ==
    ASSUME TypeInv, ShrinkBegins
    PROVE  TypeInv'
  <1> USE DEF TypeInv
  <1>1. job' \in Job /\ ~job'.busy /\ ~job.busy
    BY EmptyType DEF ShrinkBegins, TalkOK, TurnOK, Job, NoJob
  <1>2. TalkOK'
    BY DEF ShrinkBegins, TalkOK
  <1>3. JobsOK'
    BY <1>1 DEF ShrinkBegins, JobsOK, Takes
  <1>4. TurnOK'
    BY <1>1 DEF ShrinkBegins, TurnOK
  <1>5. CountOK'
    BY <1>1 DEF ShrinkBegins, CountOK, Ones
  <1>6. NumberOK'
    BY DEF ShrinkBegins, NumberOK
  <1> QED
    BY <1>2, <1>3, <1>4, <1>5, <1>6

(* Results are cut, and nothing else changes.                                 *)
Trimmed(ms, cuts) == [i \in DOMAIN ms |-> IF i \in cuts THEN [ms[i] EXCEPT !.cut = TRUE] ELSE ms[i]]

LEMMA TrimmedIs ==
    ASSUME NEW ms \in Conv, NEW cuts
    PROVE  /\ Trimmed(ms, cuts) \in Conv /\ Len(Trimmed(ms, cuts)) = Len(ms)
           /\ DOMAIN Trimmed(ms, cuts) = DOMAIN ms
           /\ \A i \in DOMAIN ms :
                /\ i \notin cuts => Trimmed(ms, cuts)[i] = ms[i]
                /\ Trimmed(ms, cuts)[i].kind = ms[i].kind /\ Trimmed(ms, cuts)[i].ids = ms[i].ids
                /\ Trimmed(ms, cuts)[i].n = ms[i].n /\ Trimmed(ms, cuts)[i].covers = ms[i].covers
  <1> DEFINE t == Trimmed(ms, cuts)
  <1>1. DOMAIN ms = 1..Len(ms) /\ Len(ms) \in Nat /\ DOMAIN t = DOMAIN ms
    BY DEF Conv, Trimmed
  <1>2. ASSUME NEW i \in DOMAIN ms
        PROVE  /\ t[i] \in Good /\ (i \notin cuts => t[i] = ms[i])
               /\ t[i].kind = ms[i].kind /\ t[i].ids = ms[i].ids
               /\ t[i].n = ms[i].n /\ t[i].covers = ms[i].covers
    <2>1. ms[i] \in Good /\ ms[i] \in Msg
      BY ConvMember
    <2>2. t[i] = IF i \in cuts THEN [ms[i] EXCEPT !.cut = TRUE] ELSE ms[i]
      BY DEF Trimmed
    <2>3. CASE i \in cuts
      <3> DEFINE r == [ms[i] EXCEPT !.cut = TRUE]
      <3>1. /\ r \in Msg /\ r.kind = ms[i].kind /\ r.ids = ms[i].ids
            /\ r.n = ms[i].n /\ r.covers = ms[i].covers
        BY <2>1 DEF Msg
      <3>2. t[i] = r
        BY <2>2, <2>3
      <3> HIDE DEF r, t
      <3>3. r \in Good
        BY <2>1, <3>1 DEF Good
      <3> QED
        BY <2>3, <3>1, <3>2, <3>3
    <2>4. CASE i \notin cuts
      BY <2>1, <2>2, <2>4
    <2> QED
      BY <2>3, <2>4
  <1>3. t = [i \in 1..Len(ms) |-> t[i]]
    BY <1>1 DEF Trimmed
  <1>4. t \in Conv /\ Len(t) = Len(ms)
    <2> HIDE DEF t
    <2> QED
      BY <1>1, <1>2, <1>3 DEF Conv
  <1> QED
    BY <1>1, <1>2, <1>4

LEMMA ShrunkType ==
    ASSUME TypeInv, Shrunk
    PROVE  TypeInv'
  <1> USE DEF TypeInv
  <1>1. job.from \in Conv
    BY DEF JobsOK, Job
  <1>2. messages' \in Conv
    <2>1. PICK cuts : messages' = Trimmed(job.from, cuts)
      BY DEF Shrunk, Trimmed
    <2> QED
      BY <1>1, <2>1, TrimmedIs
  <1>3. job' \in Job /\ ~job'.busy /\ ~job.busy
    BY EmptyType DEF Shrunk, TurnOK
  <1>4. TalkOK'
    BY <1>2 DEF Shrunk, TalkOK
  <1>5. JobsOK'
    BY <1>3 DEF Shrunk, JobsOK, Takes
  <1>6. TurnOK'
    BY <1>3 DEF Shrunk, TurnOK
  <1>7. CountOK'
    BY <1>3 DEF Shrunk, CountOK, Ones
  <1>8. NumberOK'
    BY DEF Shrunk, NumberOK
  <1> QED
    BY <1>4, <1>5, <1>6, <1>7, <1>8

LEMMA PrefetchType ==
    ASSUME TypeInv, Prefetch
    PROVE  TypeInv'
  <1> USE DEF TypeInv
  <1>1. Boundary(messages) \in 1..Len(messages) /\ Len(messages) \in Nat
    BY BoundaryType DEF Prefetch, TalkOK
  <1>2. SubSeq(messages, 1, Boundary(messages)) \in Conv /\ Len(SubSeq(messages, 1, Boundary(messages))) > 0
    BY <1>1, PieceType DEF TalkOK
  <1>3. prefetch' \in Prepared /\ Len(prefetch'.prefix) > 0
    BY <1>2 DEF Prefetch, Prepared
  <1>4. TalkOK'
    BY DEF Prefetch, TalkOK
  <1>5. JobsOK'
    BY <1>3 DEF Prefetch, JobsOK, Takes
  <1>6. TurnOK'
    BY DEF Prefetch, TurnOK
  <1>7. CountOK'
    BY DEF Prefetch, CountOK, Ones
  <1>8. NumberOK'
    BY DEF Prefetch, NumberOK
  <1> QED
    BY <1>4, <1>5, <1>6, <1>7, <1>8

LEMMA BegunTakes ==
    ASSUME TypeInv, NEW j \in Begun
    PROVE  /\ j \in Job /\ j.busy /\ (j.taken > 0 => Takes(j)) /\ Kept(j) \in Conv
           /\ ~j.fresh => Takes(j)
           /\ j.fresh => j.taken = Boundary(messages)
  <1> USE DEF TypeInv, TalkOK, JobsOK
  <1>1. /\ j \in Job /\ j.busy /\ j.from = messages /\ j.taken \in 0..Len(messages)
        /\ j.fresh => j.taken = Boundary(messages)
        /\ ~j.fresh => Usable(messages) /\ j.taken = Len(prefetch.prefix)
    BY BegunIs
  <1>2. Len(messages) \in Nat
    BY DEF Conv
  <1>3. j.taken > 0 => Takes(j)
    BY <1>1, <1>2 DEF Takes
  <1>4. ~j.fresh => j.taken > 0
    BY <1>1 DEF Usable
  <1>5. Kept(j) \in Conv
    BY <1>1 DEF Kept
  <1> QED
    BY <1>1, <1>3, <1>4, <1>5

LEMMA CompressType ==
    ASSUME TypeInv, Compress
    PROVE  TypeInv'
  <1> USE DEF TypeInv
  <1>1. PICK j \in Begun : Worth(j) /\ job' = j /\ snapshot' = Kept(j)
    BY DEF Compress
  <1>2. job' \in Job /\ job'.busy /\ Takes(job') /\ snapshot' \in Conv
    BY <1>1, BegunTakes DEF Worth
  <1>3. ~job.busy
    BY DEF Compress, TurnOK
  <1>4. TalkOK'
    BY <1>2 DEF Compress, TalkOK
  <1>5. JobsOK'
    BY <1>2, EmptyType DEF Compress, JobsOK, Takes
  <1>6. TurnOK'
    BY <1>2 DEF Compress, TurnOK
  <1>7. CountOK'
    BY <1>2, <1>3, TranscriptAssumption DEF Compress, CountOK, Ones
  <1>8. NumberOK'
    BY DEF Compress, NumberOK
  <1> QED
    BY <1>4, <1>5, <1>6, <1>7, <1>8

LEMMA FinishType ==
    ASSUME NEW j \in Job, j.busy, Takes(j), Finish(j), TalkOK, count \in Nat, crossed \in BOOLEAN
    PROVE  TalkOK' /\ count' = count + 1 /\ crossed' \in BOOLEAN
  <1>1. Len(j.from) \in Nat /\ j.from \in Conv
    BY DEF Job, Conv
  <1>2. j.taken \in 0..Len(j.from)
    BY <1>1 DEF Takes
  <1>3. messages' = Condensed(j)
    BY DEF Finish, Condensed
  <1>4. messages' \in Conv
    BY <1>2, <1>3, CondensedType
  <1> QED
    BY <1>1, <1>4 DEF Finish, TalkOK

LEMMA CompressedType ==
    ASSUME TypeInv, Compressed
    PROVE  TypeInv'
  <1> USE DEF TypeInv
  <1>1. job.busy /\ job \in Job /\ Takes(job)
    BY DEF Compressed, TurnOK, JobsOK
  <1>2. TalkOK' /\ count' = count + 1 /\ crossed' \in BOOLEAN
    BY <1>1, FinishType DEF Compressed, CountOK, TurnOK
  <1>3. JobsOK'
    BY EmptyType DEF Compressed, JobsOK, Takes
  <1>4. TurnOK'
    BY <1>2, EmptyType DEF Compressed, TurnOK
  <1>5. CountOK'
    BY <1>1, <1>2, EmptyType DEF Compressed, CountOK, Ones
  <1>6. NumberOK'
    BY DEF Compressed, NumberOK
  <1> QED
    BY <1>2, <1>3, <1>4, <1>5, <1>6

LEMMA CompressApplyType ==
    ASSUME TypeInv, CompressApply
    PROVE  TypeInv'
  <1> USE DEF TypeInv
  <1>1. PICK j \in Begun : command' = j /\ snapshot' = Kept(j)
    BY DEF CompressApply
  <1>2. Boundary(messages) \in Nat /\ Boundary(messages) > 2
    BY BoundaryType DEF CompressApply, TalkOK
  <1>3. command' \in Job /\ command'.busy /\ snapshot' \in Conv
    BY <1>1, BegunTakes
  <1>4. Takes(command')
    BY <1>1, <1>2, BegunTakes
  <1>5. TalkOK'
    BY <1>3 DEF CompressApply, TalkOK
  <1>6. JobsOK'
    BY <1>3, <1>4, EmptyType DEF CompressApply, JobsOK, Takes
  <1>7. TurnOK'
    BY DEF CompressApply, TurnOK
  <1>8. CountOK'
    BY <1>3, TranscriptAssumption DEF CompressApply, CountOK, Ones
  <1>9. NumberOK'
    BY DEF CompressApply, NumberOK
  <1> QED
    BY <1>5, <1>6, <1>7, <1>8, <1>9

LEMMA CompressAppliedType ==
    ASSUME TypeInv, CompressApplied
    PROVE  TypeInv'
  <1> USE DEF TypeInv
  <1>1. command.busy /\ command \in Job /\ Takes(command)
    BY DEF CompressApplied, JobsOK
  <1>2. TalkOK' /\ count' = count + 1 /\ crossed' \in BOOLEAN
    BY <1>1, FinishType DEF CompressApplied, CountOK, TurnOK
  <1>3. JobsOK'
    BY EmptyType DEF CompressApplied, JobsOK, Takes
  <1>4. TurnOK'
    BY <1>2 DEF CompressApplied, TurnOK
  <1>5. CountOK'
    BY <1>1, <1>2, EmptyType DEF CompressApplied, CountOK, Ones
  <1>6. NumberOK'
    BY DEF CompressApplied, NumberOK
  <1> QED
    BY <1>2, <1>3, <1>4, <1>5, <1>6

LEMMA CompressUndoType ==
    ASSUME TypeInv, CompressUndo
    PROVE  TypeInv'
  <1> USE DEF TypeInv
  <1>1. TalkOK'
    BY EmptyType DEF CompressUndo, TalkOK
  <1>2. JobsOK'
    BY DEF CompressUndo, JobsOK, Takes
  <1>3. TurnOK'
    BY DEF CompressUndo, TurnOK
  <1>4. CountOK'
    BY TranscriptAssumption DEF CompressUndo, CountOK, Ones
  <1>5. NumberOK'
    BY DEF CompressUndo, NumberOK
  <1> QED
    BY <1>1, <1>2, <1>3, <1>4, <1>5

LEMMA SendType ==
    ASSUME TypeInv, Send
    PROVE  TypeInv'
  <1> USE DEF TypeInv
  <1>1. messages' \in Conv
    BY RepairType DEF Send, TalkOK
  <1>2. prefetch' \in Prepared /\ prefetch'.busy = prefetch.busy /\ prefetch'.prefix = prefetch.prefix
    BY AgedIs DEF Send, JobsOK
  <1>3. TalkOK'
    BY <1>1 DEF Send, TalkOK
  <1>4. JobsOK'
    BY <1>2 DEF Send, JobsOK, Takes
  <1>5. TurnOK'
    <2>1. at' \in {"model", "idle"}
      BY DEF Send
    <2> QED
      BY <2>1 DEF Send, TurnOK
  <1>6. CountOK'
    BY DEF Send, CountOK, Ones
  <1>7. NumberOK'
    BY DEF Send, NumberOK
  <1> QED
    BY <1>3, <1>4, <1>5, <1>6, <1>7

LEMMA AnswerTextType ==
    ASSUME TypeInv, AnswerText
    PROVE  TypeInv'
  <1> USE DEF TypeInv
  <1>1. last' = last + 1 /\ last' \in 0..MaxMessages
    BY TranscriptAssumption DEF AnswerText, Room, NumberOK
  <1>2. Message("text", <<>>, last') \in Good
    BY <1>1, MessageType
  <1>3. messages' \in Conv
    BY <1>2, AppendType DEF AnswerText, TalkOK
  <1>4. TalkOK'
    BY <1>3 DEF AnswerText, TalkOK
  <1>5. JobsOK'
    BY DEF AnswerText, JobsOK, Takes
  <1>6. TurnOK'
    BY DEF AnswerText, TurnOK
  <1>7. CountOK'
    BY DEF AnswerText, CountOK, Ones
  <1>8. NumberOK'
    BY <1>1 DEF AnswerText, NumberOK
  <1> QED
    BY <1>4, <1>5, <1>6, <1>7, <1>8

LEMMA AnswerCallsType ==
    ASSUME TypeInv, AnswerCalls
    PROVE  TypeInv'
  <1> USE DEF TypeInv
  <1>1. PICK k \in 1..MaxBatch : /\ Room(k + 1) /\ batch' = FreshIds(messages, k) /\ last' = last + 1
                                 /\ messages' = Append(messages, Message("calls", batch', last'))
    BY DEF AnswerCalls
  <1>2. last' = last + 1 /\ last' \in 0..MaxMessages
    BY <1>1, TranscriptAssumption DEF Room, NumberOK
  <1>3. batch' \in Seq(Nat) /\ Len(batch') > 0
    BY <1>1, FreshIdsAre, TranscriptAssumption DEF TalkOK
  <1>4. messages' \in Conv
    <2>1. Message("calls", batch', last') \in Good
      BY <1>2, <1>3, MessageType
    <2> QED
      BY <1>1, <2>1, AppendType DEF TalkOK
  <1>5. TalkOK'
    BY <1>4 DEF AnswerCalls, TalkOK
  <1>6. JobsOK'
    BY DEF AnswerCalls, JobsOK, Takes
  <1>7. TurnOK'
    BY <1>3 DEF AnswerCalls, TurnOK
  <1>8. CountOK'
    BY DEF AnswerCalls, CountOK, Ones
  <1>9. NumberOK'
    BY <1>2 DEF AnswerCalls, NumberOK
  <1> QED
    BY <1>5, <1>6, <1>7, <1>8, <1>9

LEMMA RefuseCallsType ==
    ASSUME TypeInv, RefuseCalls
    PROVE  TypeInv'
  BY DEF TypeInv, RefuseCalls, TalkOK, JobsOK, TurnOK, CountOK, NumberOK, Takes, Ones

(* The results of a batch.                                                    *)
Served == [c \in DOMAIN batch |-> Message("result", <<batch[c]>>, last + c)]

LEMMA ServedType ==
    ASSUME batch \in Seq(Nat), last \in Nat, last + Len(batch) <= MaxMessages
    PROVE  /\ Served \in Conv /\ Len(Served) = Len(batch) /\ Len(batch) \in Nat
           /\ \A c \in 1..Len(batch) : Served[c] = Message("result", <<batch[c]>>, last + c)
  <1>1. DOMAIN batch = 1..Len(batch) /\ Len(batch) \in Nat
    OBVIOUS
  <1>2. \A c \in 1..Len(batch) : Message("result", <<batch[c]>>, last + c) \in Good
    <2> TAKE c \in 1..Len(batch)
    <2>1. batch[c] \in Nat /\ last + c \in 0..MaxMessages
      BY <1>1, TranscriptAssumption
    <2> QED
      BY <2>1, MessageType
  <1>3. Served = [c \in 1..Len(batch) |-> Message("result", <<batch[c]>>, last + c)]
    BY <1>1 DEF Served
  <1> QED
    BY <1>1, <1>2, <1>3 DEF Conv

LEMMA ResultsType ==
    ASSUME TypeInv, Results
    PROVE  TypeInv'
  <1> USE DEF TypeInv
  <1>1. batch \in Seq(Nat) /\ last \in Nat /\ last + Len(batch) <= MaxMessages
    BY DEF Results, Room, TurnOK, NumberOK
  <1>2. Served \in Conv /\ Len(batch) \in Nat
    BY <1>1, ServedType
  <1>3. messages' = messages \o Served
    BY DEF Results, Served
  <1>4. messages' \in Conv
    BY <1>2, <1>3, ConcatProperties DEF TalkOK, Conv
  <1>5. TalkOK'
    BY <1>4 DEF Results, TalkOK
  <1>6. JobsOK'
    BY DEF Results, JobsOK, Takes
  <1>7. TurnOK'
    BY EmptyType DEF Results, TurnOK
  <1>8. CountOK'
    BY DEF Results, CountOK, Ones
  <1>9. NumberOK'
    <2>1. last' = last + Len(batch) /\ said' = said \cup ((last + 1)..last') /\ aborts' = aborts
      BY DEF Results
    <2>2. last' \in 0..MaxMessages /\ last <= last'
      BY <1>1, <1>2, <2>1, TranscriptAssumption
    <2>3. said \subseteq 1..last /\ last \in Nat /\ aborts \in 0..MaxAborts
      BY <1>1 DEF NumberOK
    <2>4. said' \subseteq 1..last'
      <3> SUFFICES ASSUME NEW x \in said' PROVE x \in 1..last'
        OBVIOUS
      <3>1. x \in 1..last \/ x \in (last + 1)..last'
        BY <2>1, <2>3
      <3> QED
        BY <2>2, <2>3, <3>1
    <2> QED
      BY <2>1, <2>2, <2>3, <2>4 DEF NumberOK
  <1> QED
    BY <1>5, <1>6, <1>7, <1>8, <1>9

LEMMA AbortType ==
    ASSUME TypeInv, Abort
    PROVE  TypeInv'
  <1> USE DEF TypeInv
  <1>1. TalkOK'
    BY DEF Abort, TalkOK
  <1>2. JobsOK'
    BY DEF Abort, JobsOK, Takes
  <1>3. TurnOK'
    BY EmptyType DEF Abort, TurnOK
  <1>4. CountOK'
    BY DEF Abort, CountOK, Ones
  <1>5. NumberOK'
    BY TranscriptAssumption DEF Abort, NumberOK
  <1> QED
    BY <1>1, <1>2, <1>3, <1>4, <1>5

LEMMA TypeStep == TypeInv /\ [Next]_vars => TypeInv'
  <1> SUFFICES ASSUME TypeInv, [Next]_vars PROVE TypeInv'
    OBVIOUS
  <1>1. CASE UNCHANGED vars
    BY <1>1 DEF vars, TypeInv, TalkOK, JobsOK, TurnOK, CountOK, NumberOK, Takes, Ones
  <1> QED
    BY <1>1, PromptType, ShrinkBeginsType, ShrunkType, PrefetchType, CompressType,
       CompressedType, CompressApplyType, CompressAppliedType, CompressUndoType, SendType,
       AnswerTextType, AnswerCallsType, RefuseCallsType, ResultsType, AbortType DEF Next

LEMMA TypeAlways == Spec => []TypeInv
  BY TypeInit, TypeStep, PTL DEF Spec

LEMMA ConvIsMessages ==
    ASSUME NEW ms \in Conv
    PROVE  IsMessages(ms)
  BY ConvMember DEF IsMessages

(* The variables keep their types: a conversation is made of prompts,         *)
(* answers, calls with ids, results with one id and summaries, whatever is    *)
(* compressed, prefetched, repaired, undone or stopped (Agent.run,            *)
(* compressHistory).                                                          *)
THEOREM TranscriptTypeCorrect == Spec => []TypeOK
  <1>1. TypeInv => TypeOK
    <2> SUFFICES ASSUME TypeInv PROVE TypeOK
      OBVIOUS
    <2>1. IsMessages(messages) /\ IsMessages(snapshot)
      BY ConvIsMessages DEF TypeInv, TalkOK
    <2>2. count \in 0..(MaxCompressions + MaxCommands)
      BY TranscriptAssumption DEF TypeInv, CountOK, Ones
    <2> QED
      BY <2>1, <2>2 DEF TypeInv, JobsOK, TurnOK, CountOK, NumberOK, Takes, TypeOK
  <1> QED
    BY <1>1, TypeAlways, PTL

-------------------------------------------------------------------------------
(* Conversations in order: every call is the last message or has its results  *)
(* behind it.                                                                 *)

(* The last message is a call that no result follows yet.                     *)
Open(ms) == ms # <<>> /\ ms[Len(ms)].kind = "calls"

(* Behind a call stand its results, in its order, and no other.               *)
Complete(ms, i) ==
    /\ i + Len(ms[i].ids) <= Len(ms)
    /\ \A k \in 1..Len(ms[i].ids) : /\ ms[i + k].kind = "result"
                                    /\ ms[i + k].ids = <<ms[i].ids[k]>>
    /\ i + Len(ms[i].ids) < Len(ms) => ms[i + Len(ms[i].ids) + 1].kind # "result"

Owns(ms, i, j) == i \in Calls(ms) /\ i < j /\ j <= i + Len(ms[i].ids)

(* A conversation in order, but for a last call that may still be open.       *)
Paired(ms) ==
    /\ \A j \in DOMAIN ms : ms[j].kind = "result" => \E i \in DOMAIN ms : Owns(ms, i, j)
    /\ \A i \in Calls(ms) : /\ ms[i].n > 0 /\ IsInjective(ms[i].ids)
                            /\ i = Len(ms) \/ Complete(ms, i)
    /\ \A i, j \in Calls(ms) : i # j => ToSet(ms[i].ids) \cap ToSet(ms[j].ids) = {}

(* No exchange reaches over this place.                                       *)
Splits(ms, n) ==
    /\ n \in 0..Len(ms)
    /\ n > 0 => ms[n].kind # "calls"
    /\ n < Len(ms) => ms[n + 1].kind # "result"

LEMMA CallsAre ==
    ASSUME NEW ms \in Conv, NEW i
    PROVE  /\ i \in Calls(ms) <=> i \in 1..Len(ms) /\ ms[i].kind = "calls"
           /\ i \in Calls(ms) => i \in DOMAIN ms /\ Len(ms[i].ids) \in Nat \ {0}
  <1>1. DOMAIN ms = 1..Len(ms)
    BY DEF Conv
  <1>2. i \in Calls(ms) <=> i \in 1..Len(ms) /\ ms[i].kind = "calls"
    BY <1>1 DEF Calls
  <1>3. i \in Calls(ms) => i \in DOMAIN ms /\ Len(ms[i].ids) \in Nat \ {0}
    BY <1>1, <1>2, ConvMember
  <1> QED
    BY <1>2, <1>3

LEMMA OpenIs ==
    ASSUME NEW ms \in Conv
    PROVE  /\ Open(ms) <=> Len(ms) > 0 /\ ms[Len(ms)].kind = "calls"
           /\ Open(ms) <=> Len(ms) \in Calls(ms)
           /\ Len(ms) \in Nat /\ DOMAIN ms = 1..Len(ms)
  <1>1. Len(ms) \in Nat /\ DOMAIN ms = 1..Len(ms) /\ (ms # <<>> <=> Len(ms) > 0)
    BY EmptySeq DEF Conv
  <1>2. Open(ms) <=> Len(ms) > 0 /\ ms[Len(ms)].kind = "calls"
    BY <1>1 DEF Open
  <1>3. Len(ms) > 0 => Len(ms) \in 1..Len(ms)
    BY <1>1
  <1>4. Len(ms) \in Calls(ms) <=> Len(ms) \in 1..Len(ms) /\ ms[Len(ms)].kind = "calls"
    BY CallsAre
  <1>5. Open(ms) <=> Len(ms) \in Calls(ms)
    BY <1>1, <1>2, <1>3, <1>4
  <1> QED
    BY <1>1, <1>2, <1>5

(* A call that is not the last message is answered.                           *)
LEMMA CompleteBlock ==
    ASSUME NEW ms \in Conv, NEW i \in Calls(ms), Complete(ms, i)
    PROVE  Block(ms, i) = (i + 1)..(i + Len(ms[i].ids)) /\ Answers(ms, i) = ms[i].ids
  <1> DEFINE n == Len(ms[i].ids)
  <1>1. i \in 1..Len(ms) /\ Len(ms) \in Nat /\ n \in Nat \ {0} /\ i \in DOMAIN ms
    BY CallsAre, OpenIs
  <1>2. i + n <= Len(ms) /\ (\A k \in 1..n : ms[i + k].kind = "result" /\ ms[i + k].ids = <<ms[i].ids[k]>>)
        /\ (i + n < Len(ms) => ms[i + n + 1].kind # "result")
    BY DEF Complete
  <1>9. ms[i].ids \in Seq(Nat)
    BY <1>1, ConvMember
  <1> HIDE DEF n
  <1>3. PICK m \in 0..(Len(ms) - i) : Block(ms, i) = (i + 1)..(i + m) /\ Cardinality(Block(ms, i)) = m
    BY <1>1, BlockIs
  <1>4. \A j \in (i + 1)..(i + n) : ms[j].kind = "result"
    <2> TAKE j \in (i + 1)..(i + n)
    <2>1. j - i \in 1..n /\ i + (j - i) = j
      BY <1>1
    <2> QED
      BY <1>2, <2>1
  <1>5. i + n \in Block(ms, i)
    <2>2. i + n <= Len(ms)
      BY <1>2
    <2>3. i \in Nat /\ n \in Nat /\ n > 0 /\ Len(ms) \in Nat
      BY <1>1
    <2>1. i + n \in (i + 1)..Len(ms)
      BY <2>2, <2>3
    <2> QED
      BY <1>4, <2>1 DEF Block
  <1>6. n <= m
    BY <1>1, <1>3, <1>5
  <1>7. ASSUME n < m PROVE FALSE
    <2>1. i + n + 1 \in Block(ms, i)
      BY <1>1, <1>3, <1>7
    <2>2. ms[i + n + 1].kind = "result" /\ i + n + 1 <= Len(ms)
      BY <1>1, <2>1 DEF Block
    <2> QED
      BY <1>1, <1>2, <2>2
  <1>8. m = n
    BY <1>1, <1>3, <1>6, <1>7
  <1>10. Answers(ms, i) = [k \in 1..n |-> ms[i + k].ids[1]]
    BY <1>3, <1>8 DEF Answers
  <1>11. \A k \in 1..n : ms[i + k].ids[1] = ms[i].ids[k]
    BY <1>2
  <1>12. Answers(ms, i) = [k \in 1..n |-> ms[i].ids[k]]
    BY <1>10, <1>11
  <1>13. [k \in 1..n |-> ms[i].ids[k]] = ms[i].ids
    BY <1>9 DEF n
  <1> QED
    BY <1>3, <1>8, <1>12, <1>13 DEF n

(* A conversation in which every call has its results behind it satisfies     *)
(* what repair is for, and repair changes nothing in it                       *)
(* (repairMessageHistory).                                                    *)
THEOREM OrderedIsValid ==
    ASSUME NEW ms \in Conv, Paired(ms), ~Open(ms)
    PROVE  Valid(ms) /\ ~Repaired(ms) /\ Repair(ms) = ms
  <1>1. \A i \in Calls(ms) : /\ Complete(ms, i) /\ IsInjective(ms[i].ids) /\ Answers(ms, i) = ms[i].ids
                             /\ Block(ms, i) = (i + 1)..(i + Len(ms[i].ids))
    <2> TAKE i \in Calls(ms)
    <2>1. i # Len(ms)
      BY OpenIs
    <2>2. Complete(ms, i) /\ IsInjective(ms[i].ids)
      BY <2>1 DEF Paired
    <2> QED
      BY <2>2, CompleteBlock
  <1>2. Orphans(ms) = {}
    <2> SUFFICES ASSUME NEW j \in DOMAIN ms, ms[j].kind = "result"
                 PROVE  \E i \in Calls(ms) : j \in Block(ms, i)
      BY DEF Orphans
    <2>1. PICK i \in DOMAIN ms : Owns(ms, i, j)
      BY DEF Paired
    <2>2. i \in Calls(ms) /\ i < j /\ j <= i + Len(ms[i].ids)
      BY <2>1 DEF Owns
    <2>3. i \in Nat /\ j \in Nat /\ Len(ms[i].ids) \in Nat
      BY <2>2, OpenIs, CallsAre
    <2> QED
      BY <1>1, <2>2, <2>3
  <1>3. Valid(ms)
    BY <1>1, <1>2 DEF Valid, Paired
  <1>4. ~Repaired(ms)
    BY <1>1, <1>2 DEF Repaired
  <1> QED
    BY <1>3, <1>4 DEF Repair

-------------------------------------------------------------------------------
(* What is cut, trimmed or condensed where no exchange is split stays in      *)
(* order.                                                                     *)

(* q is a head of d messages that belong to no exchange, and then what stands *)
(* in ms after a and up to b: the same kinds, ids and numbers.                *)
Carries(q, d, ms, a, b) ==
    /\ a \in 0..b /\ b \in 0..Len(ms) /\ d \in Nat /\ Len(q) = d + (b - a)
    /\ \A i \in 1..d : q[i].kind \notin {"calls", "result"}
    /\ \A i \in (d + 1)..Len(q) : LET x == i - d + a
                                  IN /\ q[i].kind = ms[x].kind /\ q[i].ids = ms[x].ids
                                     /\ q[i].n = ms[x].n

(* What stands behind a call is its own result as far as its ids go.          *)
LEMMA BehindCall ==
    ASSUME NEW ms \in Conv, Paired(ms), NEW i \in Calls(ms), NEW x \in 1..Len(ms),
           i < x, x <= i + Len(ms[i].ids)
    PROVE  ms[x].kind = "result"
  <1>1. i \in Nat /\ x \in Nat /\ Len(ms) \in Nat /\ Len(ms[i].ids) \in Nat
    BY OpenIs, CallsAre
  <1>2. i # Len(ms)
    BY <1>1
  <1>3. Complete(ms, i)
    BY <1>2 DEF Paired
  <1>4. x - i \in 1..Len(ms[i].ids) /\ i + (x - i) = x
    BY <1>1
  <1> QED
    BY <1>3, <1>4 DEF Complete

(* An exchange lies on one side of a place that splits none.                  *)
LEMMA SplitSides ==
    ASSUME NEW ms \in Conv, Paired(ms), NEW a, Splits(ms, a), NEW i \in Calls(ms), i <= a
    PROVE  i < a /\ i + Len(ms[i].ids) <= a
  <1>1. i \in 1..Len(ms) /\ a \in 0..Len(ms) /\ Len(ms) \in Nat /\ Len(ms[i].ids) \in Nat
        /\ ms[i].kind = "calls"
    BY OpenIs, CallsAre DEF Splits
  <1>2. i # a
    BY <1>1 DEF Splits
  <1>3. i < a
    BY <1>1, <1>2
  <1>4. ASSUME i + Len(ms[i].ids) > a PROVE FALSE
    <2>1. CASE a < Len(ms)
      <3>1. a + 1 \in 1..Len(ms) /\ i < a + 1 /\ a + 1 <= i + Len(ms[i].ids)
        BY <1>1, <1>3, <1>4, <2>1
      <3>2. ms[a + 1].kind = "result"
        BY <3>1, BehindCall
      <3> QED
        BY <2>1, <3>2 DEF Splits
    <2>2. CASE a = Len(ms)
      <3>1. Complete(ms, i)
        BY <1>1, <1>3, <2>2 DEF Paired
      <3> QED
        BY <1>1, <1>4, <2>2, <3>1 DEF Complete
    <2> QED
      BY <1>1, <2>1, <2>2
  <1> QED
    BY <1>1, <1>3, <1>4

LEMMA CarriesCall ==
    ASSUME NEW ms \in Conv, NEW q \in Conv, NEW d, NEW a, NEW b, Carries(q, d, ms, a, b),
           NEW i \in Calls(q)
    PROVE  /\ i - d + a \in Calls(ms) /\ i > d /\ i - d + a <= b /\ a < i - d + a
           /\ q[i].ids = ms[i - d + a].ids /\ q[i].n = ms[i - d + a].n
  <1>1. /\ a \in Nat /\ b \in Nat /\ d \in Nat /\ a <= b /\ b <= Len(ms) /\ Len(ms) \in Nat
        /\ Len(q) = d + (b - a)
    BY OpenIs DEF Carries
  <1>2. i \in 1..Len(q) /\ q[i].kind = "calls"
    BY CallsAre
  <1>3. i > d
    BY <1>1, <1>2 DEF Carries
  <1>4. i \in (d + 1)..Len(q)
    BY <1>1, <1>2, <1>3
  <1>5. q[i].kind = ms[i - d + a].kind /\ q[i].ids = ms[i - d + a].ids /\ q[i].n = ms[i - d + a].n
    BY <1>4 DEF Carries
  <1>6. i - d + a \in 1..Len(ms) /\ i - d + a <= b /\ a < i - d + a
    BY <1>1, <1>4
  <1>7. i - d + a \in Calls(ms)
    BY <1>2, <1>5, <1>6, CallsAre
  <1> QED
    BY <1>3, <1>5, <1>6, <1>7

LEMMA CarriesComplete ==
    ASSUME NEW ms \in Conv, NEW q \in Conv, NEW d, NEW a, NEW b, Carries(q, d, ms, a, b),
           Paired(ms), b = Len(ms) \/ Splits(ms, b), NEW i \in Calls(q), i # Len(q)
    PROVE  Complete(q, i)
  <1> DEFINE x == i - d + a
             n == Len(ms[x].ids)
  <1>1. x \in Calls(ms) /\ i > d /\ x <= b /\ a < x /\ q[i].ids = ms[x].ids /\ i \in 1..Len(q)
    BY CarriesCall, CallsAre
  <1>2. /\ a \in Nat /\ b \in Nat /\ d \in Nat /\ a <= b /\ b <= Len(ms) /\ Len(ms) \in Nat
        /\ Len(q) = d + (b - a) /\ i \in Nat
    BY <1>1, OpenIs DEF Carries
  <1>3. n \in Nat
    BY <1>1, CallsAre
  <1>4. x # b
    BY <1>2
  <1>5. x < b
    BY <1>1, <1>2, <1>4
  <1>6. Complete(ms, x)
    BY <1>1, <1>2, <1>5 DEF Paired
  <1>7. x + n <= b
    <2>1. CASE b = Len(ms)
      BY <1>6, <2>1 DEF Complete
    <2>2. CASE Splits(ms, b)
      BY <1>1, <2>2, SplitSides
    <2> QED
      BY <2>1, <2>2
  <1>8. i + n <= Len(q)
    <2> HIDE DEF n
    <2> QED
      BY <1>2, <1>3, <1>7
  <1>9. ASSUME NEW k \in 1..n
        PROVE  q[i + k].kind = "result" /\ q[i + k].ids = <<ms[x].ids[k]>>
    <2>1. i + k \in (d + 1)..Len(q) /\ (i + k) - d + a = x + k
      BY <1>1, <1>2, <1>3, <1>8
    <2>2. q[i + k].kind = ms[x + k].kind /\ q[i + k].ids = ms[x + k].ids
      <3> HIDE DEF x
      <3> QED
        BY <2>1 DEF Carries
    <2>3. ms[x + k].kind = "result" /\ ms[x + k].ids = <<ms[x].ids[k]>>
      BY <1>6 DEF Complete
    <2> QED
      BY <2>2, <2>3
  <1>10. ASSUME i + n < Len(q) PROVE q[i + n + 1].kind # "result"
    <2>1. i + n + 1 \in (d + 1)..Len(q) /\ (i + n + 1) - d + a = x + n + 1 /\ x + n < Len(ms)
      <3>1. i > d
        BY <1>1
      <3> HIDE DEF n
      <3> QED
        BY <1>2, <1>3, <1>10, <3>1
    <2>2. q[i + n + 1].kind = ms[x + n + 1].kind
      <3> HIDE DEF x, n
      <3> QED
        BY <2>1 DEF Carries
    <2>3. ms[x + n + 1].kind # "result"
      BY <1>6, <2>1 DEF Complete
    <2> QED
      BY <2>2, <2>3
  <1>11. Len(q[i].ids) = n
    BY <1>1
  <1> HIDE DEF x, n
  <1> QED
    BY <1>1, <1>8, <1>9, <1>10, <1>11 DEF Complete

(* Cut where nothing is split, an ordered conversation stays in order.        *)
LEMMA CarriesPaired ==
    ASSUME NEW ms \in Conv, NEW q \in Conv, NEW d, NEW a, NEW b, Carries(q, d, ms, a, b),
           Paired(ms), Splits(ms, a), b = Len(ms) \/ Splits(ms, b)
    PROVE  /\ Paired(q)
           /\ Open(q) <=> a < b /\ b = Len(ms) /\ Open(ms)
  <1>1. /\ a \in Nat /\ b \in Nat /\ d \in Nat /\ a <= b /\ b <= Len(ms) /\ Len(ms) \in Nat
        /\ Len(q) = d + (b - a) /\ Len(q) \in Nat
    BY OpenIs DEF Carries
  <1>0. DOMAIN q = 1..Len(q) /\ DOMAIN ms = 1..Len(ms)
    BY OpenIs
  <1>2. ASSUME NEW j \in DOMAIN q, q[j].kind = "result"
        PROVE  \E i \in DOMAIN q : Owns(q, i, j)
    <2>0. j \in 1..Len(q) /\ ~(j \in 1..d)
      BY <1>0, <1>2 DEF Carries
    <2>1. j \in (d + 1)..Len(q)
      BY <1>1, <2>0
    <2> DEFINE x == j - d + a
    <2>2. x \in 1..Len(ms) /\ a < x /\ x <= b
      BY <1>1, <2>1
    <2>3. ms[x].kind = "result"
      BY <1>2, <2>1 DEF Carries
    <2>4. PICK h \in DOMAIN ms : Owns(ms, h, x)
      BY <1>0, <2>2, <2>3 DEF Paired
    <2>5. h \in Calls(ms) /\ h < x /\ x <= h + Len(ms[h].ids) /\ Len(ms[h].ids) \in Nat
      BY <2>4, CallsAre DEF Owns
    <2>6. h \in Nat
      BY <1>0
    <2>7. h > a
      <3> SUFFICES ASSUME h <= a PROVE FALSE
        BY <1>1, <2>6
      <3>1. h + Len(ms[h].ids) <= a
        BY <2>5, SplitSides
      <3> QED
        BY <1>1, <2>2, <2>5, <2>6, <3>1
    <2> DEFINE i == h - a + d
    <2>8. i \in (d + 1)..Len(q) /\ i - d + a = h /\ i \in 1..Len(q)
      <3>1. h < x /\ x <= b /\ a < h
        BY <2>2, <2>5, <2>7
      <3>2. x \in Nat
        BY <2>2
      <3>3. h <= b
        <4> HIDE DEF x
        <4> QED
          BY <1>1, <2>6, <3>1, <3>2
      <3>4. h - a \in 1..(b - a)
        BY <1>1, <2>6, <3>1, <3>3
      <3>5. i \in (d + 1)..(d + (b - a)) /\ i - d + a = h
        BY <1>1, <2>6, <3>4
      <3>6. i \in (d + 1)..Len(q)
        <4> HIDE DEF i
        <4> QED
          BY <1>1, <3>5
      <3>7. i \in 1..Len(q)
        <4> HIDE DEF i
        <4> QED
          BY <1>1, <3>6
      <3> QED
        BY <3>5, <3>6, <3>7
    <2>9. q[i].kind = ms[h].kind /\ q[i].ids = ms[h].ids
      <3> HIDE DEF i
      <3> QED
        BY <2>8 DEF Carries
    <2>10. i \in Calls(q)
      BY <2>5, <2>8, <2>9, CallsAre
    <2>11. i < j /\ j <= i + Len(ms[h].ids)
      <3> DEFINE m == Len(ms[h].ids)
      <3>1. m \in Nat /\ h < x /\ x <= h + m
        BY <2>5
      <3> HIDE DEF m
      <3>2. j \in Nat /\ a \in Nat /\ d \in Nat
        BY <1>1, <2>1
      <3>3. i < j /\ j <= i + m
        BY <2>6, <3>1, <3>2
      <3> QED
        BY <3>3 DEF m
    <2>12. Owns(q, i, j)
      BY <2>9, <2>10, <2>11 DEF Owns
    <2> QED
      BY <1>0, <2>8, <2>12
  <1>3. ASSUME NEW i \in Calls(q)
        PROVE  q[i].n > 0 /\ IsInjective(q[i].ids) /\ (i = Len(q) \/ Complete(q, i))
    <2>1. /\ i - d + a \in Calls(ms)
          /\ q[i].ids = ms[i - d + a].ids /\ q[i].n = ms[i - d + a].n
      BY CarriesCall
    <2>2. q[i].n > 0 /\ IsInjective(q[i].ids)
      BY <2>1 DEF Paired
    <2> QED
      BY <2>2, CarriesComplete
  <1>4. ASSUME NEW i \in Calls(q), NEW j \in Calls(q), i # j
        PROVE  ToSet(q[i].ids) \cap ToSet(q[j].ids) = {}
    <2>1. /\ i - d + a \in Calls(ms) /\ q[i].ids = ms[i - d + a].ids
          /\ j - d + a \in Calls(ms) /\ q[j].ids = ms[j - d + a].ids
      BY CarriesCall
    <2>3. i \in 1..Len(q) /\ j \in 1..Len(q)
      BY CallsAre
    <2>2. i - d + a # j - d + a
      BY <1>1, <1>4, <2>3
    <2> QED
      BY <2>1, <2>2 DEF Paired
  <1>5. Paired(q)
    BY <1>2, <1>3, <1>4 DEF Paired
  <1>6. ASSUME Open(q) PROVE a < b /\ b = Len(ms) /\ Open(ms)
    <2>1. Len(q) \in Calls(q)
      BY <1>6, OpenIs
    <2>2. Len(q) - d + a \in Calls(ms) /\ Len(q) - d + a <= b /\ a < Len(q) - d + a
      BY <2>1, CarriesCall
    <2>3. b \in Calls(ms) /\ a < b
      <3>1. Len(q) - d + a = b
        BY <1>1
      <3> QED
        BY <2>2, <3>1
    <2>4. ~Splits(ms, b)
      BY <1>1, <2>3, CallsAre DEF Splits
    <2> QED
      BY <2>3, <2>4, OpenIs
  <1>7. ASSUME a < b, b = Len(ms), Open(ms) PROVE Open(q)
    <2>1. Len(q) \in (d + 1)..Len(q) /\ Len(q) - d + a = b
      BY <1>1, <1>7
    <2>2. q[Len(q)].kind = ms[b].kind
      <3>1. /\ q[Len(q)].kind = ms[Len(q) - d + a].kind
        BY <2>1 DEF Carries
      <3> QED
        BY <2>1, <3>1
    <2> QED
      BY <1>1, <1>7, <2>1, <2>2, OpenIs
  <1> QED
    BY <1>5, <1>6, <1>7

LEMMA HeadPaired ==
    ASSUME NEW ms \in Conv, Paired(ms), NEW n, Splits(ms, n)
    PROVE  /\ SubSeq(ms, 1, n) \in Conv /\ Paired(SubSeq(ms, 1, n)) /\ ~Open(SubSeq(ms, 1, n))
           /\ Len(SubSeq(ms, 1, n)) = n
  <1> DEFINE q == SubSeq(ms, 1, n)
  <1>1. n \in Nat /\ n <= Len(ms) /\ Len(ms) \in Nat /\ n \in 0..Len(ms)
    BY OpenIs DEF Splits
  <1>2. q \in Conv /\ Len(q) = n /\ \A i \in 1..n : q[i] = ms[i]
    <2>1. 1 \in 1..(Len(ms) + 1)
      BY <1>1
    <2>2. /\ q \in Conv /\ Len(q) = IF 1 <= n THEN n - 1 + 1 ELSE 0
          /\ \A i \in 1..(n - 1 + 1) : q[i] = ms[1 + i - 1]
      BY <1>1, <2>1, PieceType
    <2> HIDE DEF q
    <2> QED
      BY <1>1, <2>2
  <1> HIDE DEF q
  <1>3. Carries(q, 0, ms, 0, n)
    <2>1. \A i \in (0 + 1)..Len(q) : i - 0 + 0 = i /\ i \in 1..n
      BY <1>1, <1>2
    <2> QED
      BY <1>1, <1>2, <2>1 DEF Carries
  <1>4. Splits(ms, 0)
    <2>1. CASE Len(ms) = 0
      BY <2>1 DEF Splits
    <2>2. ASSUME Len(ms) > 0, ms[1].kind = "result" PROVE FALSE
      <3>1. PICK i \in DOMAIN ms : Owns(ms, i, 1)
        BY <1>1, <2>2, OpenIs DEF Paired
      <3>2. i \in 1..Len(ms) /\ i < 1
        BY <3>1, OpenIs DEF Owns
      <3> QED
        BY <1>1, <3>2
    <2> QED
      BY <1>1, <2>1, <2>2 DEF Splits
  <1>5. Paired(q) /\ (Open(q) <=> 0 < n /\ n = Len(ms) /\ Open(ms))
    BY <1>2, <1>3, <1>4, CarriesPaired
  <1>6. ~Open(q)
    BY <1>5, OpenIs DEF Splits
  <1> QED
    BY <1>2, <1>5, <1>6 DEF q

LEMMA StartSplits ==
    ASSUME NEW ms \in Conv, Paired(ms)
    PROVE  Splits(ms, 0) /\ (Len(ms) > 0 => ms[1].kind # "result")
  <1>1. Len(ms) \in Nat /\ DOMAIN ms = 1..Len(ms)
    BY OpenIs
  <1>2. ASSUME Len(ms) > 0, ms[1].kind = "result" PROVE FALSE
    <2>1. PICK i \in DOMAIN ms : Owns(ms, i, 1)
      BY <1>1, <1>2 DEF Paired
    <2>2. i \in 1..Len(ms) /\ i < 1
      BY <1>1, <2>1 DEF Owns
    <2> QED
      BY <1>1, <2>2
  <1> QED
    BY <1>1, <1>2 DEF Splits

(* The exchange that is open can be left out as a whole.                      *)
LEMMA OpenSplits ==
    ASSUME NEW ms \in Conv, Paired(ms), Open(ms)
    PROVE  Splits(ms, Len(ms) - 1) /\ Len(ms) > 0
  <1>1. Len(ms) \in Nat /\ Len(ms) > 0 /\ ms[Len(ms)].kind = "calls"
    BY OpenIs
  <1> DEFINE n == Len(ms) - 1
  <1>2. n \in 0..Len(ms) /\ n + 1 = Len(ms) /\ n < Len(ms) /\ n # Len(ms)
    BY <1>1
  <1>3. ASSUME n > 0, ms[n].kind = "calls" PROVE FALSE
    <2>1. n \in Calls(ms) /\ Len(ms[n].ids) \in Nat \ {0}
      <3>1. n \in 1..Len(ms)
        BY <1>1, <1>3
      <3> QED
        BY <1>3, <3>1, CallsAre
    <2>2. Complete(ms, n)
      BY <1>2, <2>1 DEF Paired
    <2>3. ms[n + 1].kind = "result"
      <3>1. 1 \in 1..Len(ms[n].ids)
        BY <2>1
      <3> QED
        BY <2>2, <3>1 DEF Complete
    <2> QED
      BY <1>1, <1>2, <2>3
  <1> QED
    BY <1>1, <1>2, <1>3 DEF Splits

(* In a conversation in order the boundary of a compression never falls       *)
(* between a call and one of its results (safeHistoryKeepStart).              *)
THEOREM BoundarySplitsNothing ==
    ASSUME NEW ms \in Conv, Paired(ms)
    PROVE  Splits(ms, Boundary(ms))
  <1>1. PICK n \in 0..Len(ms) : /\ Begins(ms, n)
                                /\ Boundary(ms) = IF n > 0 /\ ms[n].kind = "calls" THEN n - 1 ELSE n
    BY BoundaryIs
  <1>2. Len(ms) \in Nat
    BY OpenIs
  <1>3. CASE n > 0 /\ ms[n].kind = "calls"
    <2>1. n - 1 \in 0..Len(ms) /\ (n - 1) + 1 = n
      BY <1>2, <1>3
    <2>2. ASSUME n - 1 > 0, ms[n - 1].kind = "calls" PROVE FALSE
      <3>1. n - 1 \in 1..Len(ms) /\ n - 1 # Len(ms)
        BY <1>2, <2>2
      <3>2. n - 1 \in Calls(ms) /\ Len(ms[n - 1].ids) \in Nat \ {0}
        BY <2>2, <3>1, CallsAre
      <3>3. Complete(ms, n - 1)
        BY <3>1, <3>2 DEF Paired
      <3>4. 1 \in 1..Len(ms[n - 1].ids)
        BY <3>2
      <3>5. ms[(n - 1) + 1].kind = "result"
        BY <3>3, <3>4 DEF Complete
      <3> QED
        BY <1>3, <2>1, <3>5
    <2>3. Splits(ms, n - 1)
      BY <1>3, <2>1, <2>2 DEF Splits
    <2> QED
      BY <1>1, <1>3, <2>3
  <1>4. CASE ~(n > 0 /\ ms[n].kind = "calls")
    <2>1. n < Len(ms) => ms[n + 1].kind # "result"
      <3>1. CASE n = 0
        BY <3>1, StartSplits DEF Splits
      <3>2. CASE n # 0
        BY <1>1, <1>2, <3>2 DEF Begins
      <3> QED
        BY <3>1, <3>2
    <2> QED
      BY <1>1, <1>4, <2>1 DEF Splits
  <1> QED
    BY <1>3, <1>4

(* Nor does the end of a head that is in order by itself.                     *)
LEMMA PrefixSplits ==
    ASSUME NEW ms \in Conv, Paired(ms), NEW p \in Conv, Paired(p), ~Open(p), IsPrefix(p, ms)
    PROVE  Splits(ms, Len(p))
  <1> DEFINE n == Len(p)
  <1>1. n \in Nat /\ Len(ms) \in Nat /\ n <= Len(ms)
    BY OpenIs DEF IsPrefix
  <1>2. \A i \in 1..n : p[i] = ms[i]
    <2>1. SubSeq(p, 1, n) = p
      BY SubSeqFull DEF Conv
    <2>2. p = SubSeq(ms, 1, n)
      BY <2>1 DEF IsPrefix
    <2>3. 1 \in 1..(Len(ms) + 1) /\ n \in 0..Len(ms)
      BY <1>1
    <2>4. \A i \in 1..(n - 1 + 1) : SubSeq(ms, 1, n)[i] = ms[1 + i - 1]
      BY <2>3, PieceType
    <2> HIDE DEF n
    <2> QED
      BY <1>1, <2>2, <2>4
  <1>3. n > 0 => ms[n].kind # "calls"
    <2>1. n > 0 => n \in 1..n
      BY <1>1
    <2> QED
      BY <1>2, <2>1, OpenIs
  <1>4. ASSUME n < Len(ms), ms[n + 1].kind = "result" PROVE FALSE
    <2>1. n + 1 \in 1..Len(ms)
      BY <1>1, <1>4
    <2>2. PICK i \in DOMAIN ms : Owns(ms, i, n + 1)
      BY <1>4, <2>1, OpenIs DEF Paired
    <2>3. i \in Calls(ms) /\ i < n + 1 /\ n + 1 <= i + Len(ms[i].ids) /\ i \in 1..Len(ms)
          /\ Len(ms[i].ids) \in Nat
      BY <2>2, CallsAre DEF Owns
    <2>4. i \in 1..n
      BY <1>1, <2>3
    <2>5. p[i] = ms[i]
      BY <1>2, <2>4
    <2>6. i \in Calls(p)
      BY <2>3, <2>4, <2>5, CallsAre
    <2>7. i # n
      BY <2>6, OpenIs
    <2>8. Complete(p, i)
      BY <2>6, <2>7 DEF Paired
    <2>9. i + Len(ms[i].ids) <= n
      BY <2>5, <2>8 DEF Complete
    <2> HIDE DEF n
    <2> QED
      BY <1>1, <2>3, <2>4, <2>9
  <1> HIDE DEF n
  <1>5. n \in 0..Len(ms)
    BY <1>1
  <1> QED
    BY <1>3, <1>4, <1>5 DEF Splits, n

LEMMA CondensedIs ==
    ASSUME NEW j \in Job, j.busy, j.taken \in 0..Len(j.from)
    PROVE  /\ Condensed(j) \in Conv
           /\ Len(Condensed(j)) = 2 + (Len(j.from) - j.taken)
           /\ Condensed(j)[1].kind = "summary" /\ Condensed(j)[1].n = 0
           /\ Condensed(j)[1].covers = j.covers
           /\ Condensed(j)[2].kind = "ack" /\ Condensed(j)[2].n = 0
           /\ Condensed(j)[2].covers = {}
           /\ \A i \in 1..(Len(j.from) - j.taken) : Condensed(j)[2 + i] = j.from[j.taken + i]
  <1> DEFINE s == [Message("summary", <<>>, 0) EXCEPT !.covers = j.covers]
             a == Message("ack", <<>>, 0)
             r == SubSeq(j.from, j.taken + 1, Len(j.from))
             h == <<s, a>>
  <1>1. j.covers \subseteq 1..MaxMessages /\ j.from \in Conv /\ 0 \in 0..MaxMessages
    BY TranscriptAssumption DEF Job
  <1>2. Len(j.from) \in Nat /\ j.taken \in Nat /\ j.taken <= Len(j.from)
    BY <1>1 DEF Conv
  <1>3. a \in Good /\ Message("summary", <<>>, 0) \in Good
    BY <1>1, MessageType
  <1>4. s \in Good /\ s.kind = "summary" /\ s.n = 0 /\ s.covers = j.covers
    <2>1. s \in Good
      BY <1>1, <1>3 DEF Good, Msg
    <2>2. s.kind = "summary" /\ s.n = 0 /\ s.covers = j.covers
      BY DEF Message
    <2> QED
      BY <2>1, <2>2
  <1>5. a.kind = "ack" /\ a.n = 0 /\ a.covers = {}
    BY DEF Message
  <1>6. r \in Conv /\ Len(r) = Len(j.from) - j.taken
        /\ \A i \in 1..(Len(j.from) - j.taken) : r[i] = j.from[j.taken + i]
    <2>1. j.taken + 1 \in 1..(Len(j.from) + 1) /\ Len(j.from) \in 0..Len(j.from)
      BY <1>2
    <2>2. /\ r \in Conv
          /\ Len(r) = IF j.taken + 1 <= Len(j.from) THEN Len(j.from) - (j.taken + 1) + 1 ELSE 0
          /\ \A i \in 1..(Len(j.from) - (j.taken + 1) + 1) : r[i] = j.from[(j.taken + 1) + i - 1]
      BY <1>1, <2>1, PieceType
    <2> HIDE DEF r
    <2>3. Len(r) = Len(j.from) - j.taken
      BY <1>2, <2>2
    <2>4. \A i \in 1..(Len(j.from) - j.taken) : (j.taken + 1) + i - 1 = j.taken + i
      BY <1>2
    <2>5. Len(j.from) - (j.taken + 1) + 1 = Len(j.from) - j.taken
      BY <1>2
    <2> QED
      BY <2>2, <2>3, <2>4, <2>5
  <1> HIDE DEF s, a, r
  <1>7. h \in Seq(Good) /\ Len(h) = 2 /\ h[1] = s /\ h[2] = a
    BY <1>3, <1>4
  <1> HIDE DEF h
  <1>8. /\ h \o r \in Conv /\ Len(h \o r) = 2 + Len(r)
        /\ \A i \in 1..(2 + Len(r)) : (h \o r)[i] = IF i <= 2 THEN h[i] ELSE r[i - 2]
    <2>1. r \in Seq(Good)
      BY <1>6 DEF Conv
    <2>2. /\ h \o r \in Seq(Good) /\ Len(h \o r) = Len(h) + Len(r)
          /\ \A i \in 1..(Len(h) + Len(r)) : (h \o r)[i] = IF i <= Len(h) THEN h[i] ELSE r[i - Len(h)]
      <3>1. h \in Seq(Good)
        BY <1>7
      <3> QED
        BY <2>1, <3>1, ConcatProperties
    <2> QED
      BY <1>7, <2>2 DEF Conv
  <1>9. (h \o r)[1] = s /\ (h \o r)[2] = a
    BY <1>2, <1>6, <1>7, <1>8
  <1>10. \A i \in 1..(Len(j.from) - j.taken) : (h \o r)[2 + i] = j.from[j.taken + i]
    <2> TAKE i \in 1..(Len(j.from) - j.taken)
    <2>1. 2 + i \in 1..(2 + Len(r)) /\ ~(2 + i <= 2) /\ (2 + i) - 2 = i
      BY <1>2, <1>6
    <2> QED
      BY <1>6, <1>8, <2>1
  <1>11. Condensed(j) = h \o r
    BY DEF Condensed, h, s, a, r
  <1> QED
    BY <1>4, <1>5, <1>6, <1>8, <1>9, <1>10, <1>11

(* A compression that splits no exchange leaves an ordered conversation, open *)
(* where it was.                                                              *)
LEMMA CondensedPaired ==
    ASSUME NEW j \in Job, j.busy, Paired(j.from), Splits(j.from, j.taken)
    PROVE  /\ Condensed(j) \in Conv /\ Paired(Condensed(j))
           /\ Open(Condensed(j)) <=> Open(j.from)
           /\ Open(j.from) => Condensed(j)[Len(Condensed(j))] = j.from[Len(j.from)]
  <1> DEFINE q == Condensed(j)
             b == Len(j.from)
             a == j.taken
  <1>1. j.from \in Conv /\ a \in Nat /\ b \in Nat /\ a <= b /\ a \in 0..b
    BY OpenIs DEF Job, Splits
  <1>2. /\ q \in Conv /\ Len(q) = 2 + (b - a) /\ q[1].kind = "summary" /\ q[2].kind = "ack"
        /\ \A i \in 1..(b - a) : q[2 + i] = j.from[a + i]
    BY <1>1, CondensedIs
  <1> HIDE DEF q, b, a
  <1>3. Carries(q, 2, j.from, a, b)
    <2>1. \A i \in 1..2 : q[i].kind \notin {"calls", "result"}
      BY <1>2
    <2>2. \A i \in (2 + 1)..Len(q) : q[i] = j.from[i - 2 + a]
      <3> TAKE i \in (2 + 1)..Len(q)
      <3>1. i - 2 \in 1..(b - a) /\ 2 + (i - 2) = i /\ a + (i - 2) = i - 2 + a
        BY <1>1, <1>2
      <3>2. q[2 + (i - 2)] = j.from[a + (i - 2)]
        BY <1>2, <3>1
      <3> QED
        BY <3>1, <3>2
    <2>3. b \in 0..Len(j.from) /\ a \in 0..b
      BY <1>1 DEF b
    <2> QED
      BY <1>1, <1>2, <2>1, <2>2, <2>3 DEF Carries
  <1>4. Paired(q) /\ (Open(q) <=> a < b /\ b = Len(j.from) /\ Open(j.from))
    BY <1>1, <1>2, <1>3, CarriesPaired DEF a, b
  <1>5. Open(j.from) => a < b
    BY <1>1, OpenIs DEF Splits, a, b
  <1>6. Open(j.from) => q[Len(q)] = j.from[b]
    <2>1. a < b => b - a \in 1..(b - a) /\ 2 + (b - a) = Len(q) /\ a + (b - a) = b
      BY <1>1, <1>2
    <2> QED
      BY <1>2, <1>5, <2>1
  <1>7. Open(q) <=> Open(j.from)
    BY <1>4, <1>5 DEF b
  <1> QED
    BY <1>2, <1>4, <1>6, <1>7 DEF q, b

(* Elision leaves the order as it is.                                         *)
LEMMA TrimmedPaired ==
    ASSUME NEW ms \in Conv, Paired(ms), NEW cuts, cuts \subseteq Cuttable(ms)
    PROVE  /\ Paired(Trimmed(ms, cuts))
           /\ Open(Trimmed(ms, cuts)) <=> Open(ms)
           /\ Open(ms) => Trimmed(ms, cuts)[Len(Trimmed(ms, cuts))] = ms[Len(ms)]
  <1> DEFINE q == Trimmed(ms, cuts)
             b == Len(ms)
  <1>1. b \in Nat /\ DOMAIN ms = 1..b
    BY OpenIs
  <1>2. /\ q \in Conv /\ Len(q) = b
        /\ \A i \in 1..b : /\ i \notin cuts => q[i] = ms[i]
                           /\ q[i].kind = ms[i].kind /\ q[i].ids = ms[i].ids /\ q[i].n = ms[i].n
    BY <1>1, TrimmedIs
  <1> HIDE DEF q, b
  <1>3. Carries(q, 0, ms, 0, b)
    <2>1. \A i \in (0 + 1)..Len(q) : i - 0 + 0 = i /\ i \in 1..b
      BY <1>1, <1>2
    <2>2. b \in 0..Len(ms)
      BY <1>1 DEF b
    <2> QED
      BY <1>1, <1>2, <2>1, <2>2 DEF Carries
  <1>4. Paired(q) /\ (Open(q) <=> 0 < b /\ b = Len(ms) /\ Open(ms))
    BY <1>2, <1>3, StartSplits, CarriesPaired DEF b
  <1>5. Open(ms) => b > 0 /\ ms[b].kind = "calls"
    BY OpenIs DEF b
  <1>6. Open(ms) => q[b] = ms[b]
    <2>1. b > 0 => b \in 1..b
      BY <1>1
    <2>2. Open(ms) => b \notin cuts
      BY <1>5 DEF Cuttable
    <2> QED
      BY <1>2, <1>5, <2>1, <2>2
  <1> QED
    BY <1>2, <1>4, <1>5, <1>6 DEF q, b

-------------------------------------------------------------------------------
(* What the turn appends.                                                     *)

LEMMA CallIdsHold ==
    ASSUME NEW ms \in Conv, NEW i \in Calls(ms)
    PROVE  ToSet(ms[i].ids) \subseteq CallIds(ms)
  <1>1. i \in {j \in DOMAIN ms : ms[j].kind = "calls"}
    BY DEF Calls
  <1> QED
    BY <1>1 DEF CallIds

(* A message that is no result, after exchanges that are all answered.        *)
LEMMA AppendPaired ==
    ASSUME NEW ms \in Conv, Paired(ms), ~Open(ms), NEW m \in Good, m.kind # "result",
           m.kind = "calls" => /\ m.n > 0 /\ IsInjective(m.ids)
                               /\ ToSet(m.ids) \cap CallIds(ms) = {}
    PROVE  /\ Append(ms, m) \in Conv /\ Paired(Append(ms, m))
           /\ Open(Append(ms, m)) <=> m.kind = "calls"
           /\ Append(ms, m)[Len(Append(ms, m))] = m
  <1> DEFINE q == Append(ms, m)
             b == Len(ms)
  <1>1. /\ q \in Conv /\ Len(q) = b + 1 /\ b \in Nat /\ q[b + 1] = m
        /\ \A i \in 1..b : q[i] = ms[i]
    BY AppendType
  <1> HIDE DEF q, b
  <1>2. \A i : i \in Calls(q) <=> i \in 1..Len(q) /\ q[i].kind = "calls"
    BY <1>1, CallsAre
  <1>3. \A i : i \in Calls(ms) <=> i \in 1..b /\ ms[i].kind = "calls"
    BY CallsAre DEF b
  <1>4. ASSUME NEW i \in Calls(q)
        PROVE  (i \in Calls(ms) /\ q[i] = ms[i]) \/ (i = b + 1 /\ q[i] = m /\ m.kind = "calls")
    <2>1. i \in 1..b \/ i = b + 1
      BY <1>1, <1>2
    <2> QED
      BY <1>1, <1>2, <1>3, <2>1
  <1>5. ASSUME NEW j \in DOMAIN q, q[j].kind = "result"
        PROVE  \E i \in DOMAIN q : Owns(q, i, j)
    <2>1. j \in 1..Len(q)
      BY <1>1, OpenIs
    <2>2. j # b + 1
      BY <1>1, <1>5
    <2>3. j \in 1..b
      BY <1>1, <2>1, <2>2
    <2>4. ms[j].kind = "result"
      BY <1>1, <1>5, <2>3
    <2>5. PICK i \in DOMAIN ms : Owns(ms, i, j)
      BY <2>3, <2>4, OpenIs DEF Paired, b
    <2>6. i \in Calls(ms) /\ i < j /\ j <= i + Len(ms[i].ids)
      BY <2>5 DEF Owns
    <2>7. i \in 1..b /\ ms[i].kind = "calls"
      BY <1>3, <2>6
    <2>8. q[i] = ms[i] /\ i \in 1..Len(q)
      BY <1>1, <2>7
    <2>9. i \in Calls(q)
      BY <1>2, <2>7, <2>8
    <2>10. Owns(q, i, j)
      BY <2>6, <2>8, <2>9 DEF Owns
    <2> QED
      BY <2>8, <2>10, <1>1, OpenIs
  <1>6. ASSUME NEW i \in Calls(ms), q[i] = ms[i]
        PROVE  Complete(q, i)
    <2>1. Complete(ms, i)
      BY OpenIs DEF Paired
    <2> DEFINE n == Len(ms[i].ids)
    <2>2. n \in Nat /\ i \in 1..b
      BY <1>3, CallsAre
    <2>3. i + n <= b /\ (i + n < b => ms[i + n + 1].kind # "result")
      BY <2>1 DEF Complete, b
    <2>4. \A k \in 1..n : ms[i + k].kind = "result" /\ ms[i + k].ids = <<ms[i].ids[k]>>
      BY <2>1 DEF Complete
    <2> HIDE DEF n
    <2>5. \A k \in 1..n : i + k \in 1..b
      BY <1>1, <2>2, <2>3
    <2>6. \A k \in 1..n : q[i + k] = ms[i + k]
      BY <1>1, <2>5
    <2>7. i + n <= Len(q)
      BY <1>1, <2>2, <2>3
    <2>8. q[i + n + 1].kind # "result"
      <3>1. CASE i + n = b
        BY <1>1, <3>1
      <3>2. CASE i + n < b
        <4>1. i + n + 1 \in 1..b
          BY <1>1, <2>2, <3>2
        <4> QED
          BY <1>1, <2>3, <3>2, <4>1
      <3> QED
        BY <1>1, <2>2, <2>3, <3>1, <3>2
    <2> QED
      BY <1>6, <2>4, <2>6, <2>7, <2>8 DEF Complete, n
  <1>7. ASSUME NEW i \in Calls(q)
        PROVE  q[i].n > 0 /\ IsInjective(q[i].ids) /\ (i = Len(q) \/ Complete(q, i))
    <2>1. CASE i \in Calls(ms) /\ q[i] = ms[i]
      BY <1>6, <2>1 DEF Paired
    <2>2. CASE i = b + 1 /\ q[i] = m /\ m.kind = "calls"
      BY <1>1, <2>2
    <2> QED
      BY <1>4, <2>1, <2>2
  <1>8. ASSUME NEW i \in Calls(q), NEW j \in Calls(q), i # j
        PROVE  ToSet(q[i].ids) \cap ToSet(q[j].ids) = {}
    <2>1. CASE i \in Calls(ms) /\ q[i] = ms[i] /\ j \in Calls(ms) /\ q[j] = ms[j]
      BY <1>8, <2>1 DEF Paired
    <2>2. CASE i \in Calls(ms) /\ q[i] = ms[i] /\ q[j] = m /\ m.kind = "calls"
      BY <2>2, CallIdsHold
    <2>3. CASE j \in Calls(ms) /\ q[j] = ms[j] /\ q[i] = m /\ m.kind = "calls"
      BY <2>3, CallIdsHold
    <2> QED
      BY <1>4, <1>8, <2>1, <2>2, <2>3
  <1>9. Paired(q)
    BY <1>5, <1>7, <1>8 DEF Paired
  <1>10. Open(q) <=> m.kind = "calls"
    BY <1>1, OpenIs
  <1> QED
    BY <1>1, <1>9, <1>10 DEF q

(* The results of the call that is open, in its order.                        *)
LEMMA ServedPaired ==
    ASSUME NEW ms \in Conv, Paired(ms), Open(ms), ms[Len(ms)].ids = batch,
           batch \in Seq(Nat), last \in Nat, last + Len(batch) <= MaxMessages
    PROVE  /\ ms \o Served \in Conv /\ Paired(ms \o Served) /\ ~Open(ms \o Served)
           /\ Len(ms \o Served) = Len(ms) + Len(batch)
           /\ \A i \in 1..Len(ms) : (ms \o Served)[i] = ms[i]
           /\ \A c \in 1..Len(batch) :
                (ms \o Served)[Len(ms) + c] = Message("result", <<batch[c]>>, last + c)
  <1> DEFINE q == ms \o Served
             b == Len(ms)
             k == Len(batch)
  <1>1. b \in Nat /\ b > 0 /\ b \in Calls(ms) /\ ms[b].kind = "calls"
    BY OpenIs
  <1>2. k \in Nat /\ k > 0
    BY <1>1, CallsAre
  <1>3. /\ q \in Conv /\ Len(q) = b + k
        /\ (\A i \in 1..b : q[i] = ms[i])
        /\ (\A c \in 1..k : q[b + c] = Message("result", <<batch[c]>>, last + c))
    <2>1. /\ Served \in Conv /\ Len(Served) = k
          /\ \A c \in 1..k : Served[c] = Message("result", <<batch[c]>>, last + c)
      BY ServedType
    <2>2. /\ q \in Conv /\ Len(q) = b + Len(Served)
          /\ \A i \in 1..(b + Len(Served)) : q[i] = IF i <= b THEN ms[i] ELSE Served[i - b]
      <3>1. ms \in Seq(Good) /\ Served \in Seq(Good)
        BY <2>1 DEF Conv
      <3> HIDE DEF b
      <3>2. /\ q \in Seq(Good) /\ Len(q) = Len(ms) + Len(Served)
            /\ \A i \in 1..(Len(ms) + Len(Served)) : q[i] = IF i <= Len(ms) THEN ms[i] ELSE Served[i - Len(ms)]
        BY <3>1, ConcatProperties
      <3> QED
        BY <3>2 DEF b, Conv
    <2> HIDE DEF q, b, k
    <2>3. \A i \in 1..b : i \in 1..(b + k) /\ i <= b
      BY <1>1, <1>2
    <2>4. \A c \in 1..k : b + c \in 1..(b + k) /\ ~(b + c <= b) /\ (b + c) - b = c
      BY <1>1, <1>2
    <2>5. \A i \in 1..b : q[i] = ms[i]
      BY <2>1, <2>2, <2>3
    <2>6. \A c \in 1..k : q[b + c] = Served[c]
      <3> TAKE c \in 1..k
      <3>1. b + c \in 1..(b + Len(Served)) /\ ~(b + c <= b) /\ (b + c) - b = c
        BY <2>1, <2>4
      <3> QED
        BY <2>2, <3>1
    <2> QED
      BY <2>1, <2>2, <2>5, <2>6
  <1> HIDE DEF q, b, k
  <1>4. \A c \in 1..k : q[b + c].kind = "result" /\ q[b + c].ids = <<batch[c]>>
    <2> TAKE c \in 1..k
    <2>1. q[b + c] = Message("result", <<batch[c]>>, last + c)
      BY <1>3
    <2> QED
      BY <2>1 DEF Message
  <1>5. \A i : i \in Calls(q) <=> i \in 1..Len(q) /\ q[i].kind = "calls"
    BY <1>3, CallsAre
  <1>6. \A i : i \in Calls(ms) <=> i \in 1..b /\ ms[i].kind = "calls"
    BY CallsAre DEF b
  <1>7. ASSUME NEW j \in 1..Len(q), j \notin 1..b
        PROVE  j - b \in 1..k /\ b + (j - b) = j
    BY <1>1, <1>2, <1>3, <1>7
  <1>8. ASSUME NEW i \in Calls(q)
        PROVE  i \in Calls(ms) /\ q[i] = ms[i]
    <2>1. i \in 1..b
      <3> SUFFICES ASSUME i \notin 1..b PROVE FALSE
        OBVIOUS
      <3>1. q[b + (i - b)].kind = "result" /\ b + (i - b) = i
        BY <1>4, <1>5, <1>7
      <3> QED
        BY <1>5, <3>1
    <2> QED
      BY <1>3, <1>5, <1>6, <2>1
  <1>9. \A i \in Calls(ms) : i \in Calls(q) /\ q[i] = ms[i] /\ i \in DOMAIN q
    <2> TAKE i \in Calls(ms)
    <2>1. i \in 1..b /\ ms[i].kind = "calls"
      BY <1>6
    <2>2. i \in 1..Len(q) /\ q[i] = ms[i]
      BY <1>1, <1>2, <1>3, <2>1
    <2> QED
      BY <1>3, <1>5, <2>1, <2>2, OpenIs
  <1>10. ASSUME NEW j \in DOMAIN q, q[j].kind = "result"
        PROVE  \E i \in DOMAIN q : Owns(q, i, j)
    <2>1. j \in 1..Len(q)
      BY <1>3, OpenIs
    <2>2. CASE j \in 1..b
      <3>1. ms[j].kind = "result"
        BY <1>3, <1>10, <2>2
      <3>2. PICK i \in DOMAIN ms : Owns(ms, i, j)
        BY <2>2, <3>1, OpenIs DEF Paired, b
      <3>3. i \in Calls(ms) /\ i < j /\ j <= i + Len(ms[i].ids)
        BY <3>2 DEF Owns
      <3>4. Owns(q, i, j)
        BY <1>9, <3>3 DEF Owns
      <3> QED
        BY <1>9, <3>3, <3>4
    <2>3. CASE j \notin 1..b
      <3>1. j - b \in 1..k /\ b + (j - b) = j
        BY <1>7, <2>1, <2>3
      <3>2. b < j /\ j <= b + k
        <4>1. b \in Nat /\ k \in Nat
          BY <1>1, <1>2
        <4>2. j \in 1..(b + k)
          <5>1. Len(q) = b + k
            BY <1>3
          <5> QED
            BY <2>1, <5>1
        <4>3. j \in Int
          BY <4>1, <4>2
        <4> QED
          BY <3>1, <4>1, <4>3
      <3>3. b \in Calls(q) /\ q[b] = ms[b] /\ b \in DOMAIN q
        BY <1>1, <1>9
      <3>4. Len(q[b].ids) = k
        BY <3>3 DEF b, k
      <3> QED
        BY <3>2, <3>3, <3>4 DEF Owns
    <2> QED
      BY <2>2, <2>3
  <1>11. Complete(q, b)
    <2>1. q[b].ids = batch /\ Len(q[b].ids) = k
      BY <1>1, <1>9 DEF b, k
    <2>2. b + k <= Len(q) /\ ~(b + k < Len(q))
      BY <1>1, <1>2, <1>3
    <2> QED
      BY <1>4, <2>1, <2>2 DEF Complete
  <1>12. ASSUME NEW i \in Calls(ms), i # b
        PROVE  Complete(q, i)
    <2>1. Complete(ms, i)
      BY <1>12 DEF Paired, b
    <2> DEFINE n == Len(ms[i].ids)
    <2>2. n \in Nat \ {0} /\ i \in 1..b
      BY <1>6, CallsAre
    <2>3. i + n <= b /\ (i + n < b => ms[i + n + 1].kind # "result")
      BY <2>1 DEF Complete, b
    <2>4. \A c \in 1..n : ms[i + c].kind = "result" /\ ms[i + c].ids = <<ms[i].ids[c]>>
      BY <2>1 DEF Complete
    <2> HIDE DEF n
    <2>5. i + n # b
      <3>1. n \in 1..n
        BY <2>2
      <3>2. ms[i + n].kind = "result"
        BY <2>4, <3>1
      <3> QED
        BY <1>1, <3>2
    <2>6. i + n < b /\ i + n + 1 \in 1..b
      BY <1>1, <2>2, <2>3, <2>5
    <2>7. \A c \in 1..n : i + c \in 1..b
      BY <1>1, <2>2, <2>3
    <2>8. \A c \in 1..n : q[i + c] = ms[i + c]
      BY <1>3, <2>7
    <2>9. i + n <= Len(q)
      BY <1>1, <1>2, <1>3, <2>2, <2>3
    <2>10. q[i + n + 1].kind # "result"
      BY <1>3, <2>3, <2>6
    <2> QED
      BY <1>9, <2>4, <2>8, <2>9, <2>10 DEF Complete, n
  <1>13. ASSUME NEW i \in Calls(q)
        PROVE  q[i].n > 0 /\ IsInjective(q[i].ids) /\ (i = Len(q) \/ Complete(q, i))
    <2>1. q[i].n > 0 /\ IsInjective(q[i].ids)
      BY <1>8 DEF Paired
    <2> QED
      BY <1>8, <1>11, <1>12, <2>1
  <1>14. ASSUME NEW i \in Calls(q), NEW j \in Calls(q), i # j
        PROVE  ToSet(q[i].ids) \cap ToSet(q[j].ids) = {}
    BY <1>8, <1>14 DEF Paired
  <1>15. Paired(q)
    BY <1>10, <1>13, <1>14 DEF Paired
  <1>16. ~Open(q)
    <2>1. k \in 1..k /\ Len(q) = b + k
      BY <1>2, <1>3
    <2>2. q[b + k].kind = "result"
      BY <1>4, <2>1
    <2> QED
      BY <1>3, <2>1, <2>2, OpenIs
  <1> QED
    BY <1>3, <1>15, <1>16 DEF q, b, k

-------------------------------------------------------------------------------
(* What repair leaves out of a conversation whose last call is open.          *)

(* A call keeps the ids of all of its calls, and its results, in their order. *)
LEMMA FixedComplete ==
    ASSUME NEW ms \in Conv, NEW i \in Calls(ms), Complete(ms, i), IsInjective(ms[i].ids)
    PROVE  Fixed(ms, i) = SubSeq(ms, i, i + Len(ms[i].ids))
  <1> DEFINE s == ms[i].ids
             n == Len(ms[i].ids)
             r == TheirResults(ms, i)
  <1>1. /\ i \in DOMAIN ms /\ i \in 1..Len(ms) /\ ms[i].kind = "calls" /\ n \in Nat \ {0}
        /\ Len(ms) \in Nat /\ DOMAIN ms = 1..Len(ms)
    BY CallsAre, OpenIs
  <1>2. Block(ms, i) = (i + 1)..(i + n) /\ Answers(ms, i) = s
    BY CompleteBlock
  <1>3. i + n <= Len(ms) /\ \A k \in 1..n : ms[i + k].kind = "result" /\ ms[i + k].ids = <<s[k]>>
    BY DEF Complete
  <1>4. s \in Seq(Nat) /\ DOMAIN s = 1..n
    BY <1>1, ConvMember
  <1>5. Answered(ms, i) = s
    <2>1. ToSet(s) \subseteq ToSet(Answers(ms, i))
      BY <1>2
    <2>2. Within(s, ToSet(Answers(ms, i))) = s
      BY <1>4, <2>1, WithinAll
    <2> QED
      BY <2>2 DEF Answered
  <1>6. s # <<>>
    BY <1>1
  <1>7. [ms[i] EXCEPT !.ids = s] = ms[i]
    BY <1>1, ConvMember DEF Msg
  <1>8. ASSUME NEW k \in 1..n PROVE ResultOf(ms, i, s[k]) = ms[i + k]
    <2>1. s[k] \in ToSet(Answers(ms, i))
      BY <1>2, <1>4 DEF ToSet
    <2>2. PICK j \in Block(ms, i) : ms[j].ids = <<s[k]>> /\ ResultOf(ms, i, s[k]) = ms[j]
      BY <1>1, <2>1, ResultOfIs
    <2>3. j - i \in 1..n /\ i + (j - i) = j
      <3> HIDE DEF n
      <3> QED
        BY <1>1, <1>2
    <2>4. ms[j].ids = <<s[j - i]>>
      BY <1>3, <2>3
    <2>5. s[j - i] = s[k]
      BY <2>2, <2>4
    <2>6. j - i = k
      BY <1>4, <2>3, <2>5 DEF IsInjective
    <2> QED
      BY <2>2, <2>3, <2>6
  <1>9. r = [k \in 1..n |-> ResultOf(ms, i, s[k])]
    BY <1>4, <1>5 DEF TheirResults
  <1> HIDE DEF r, s
  <1>10. r = [k \in 1..n |-> ms[i + k]]
    BY <1>8, <1>9
  <1> HIDE DEF n
  <1>11. \A k \in 1..n : i + k \in 1..Len(ms)
    BY <1>1, <1>3
  <1>12. \A k \in 1..n : ms[i + k] \in Good
    BY <1>1, <1>11, ConvMember
  <1>13. r \in Seq(Good) /\ Len(r) = n
    BY <1>1, <1>10, <1>12
  <1>14. Fixed(ms, i) = <<ms[i]>> \o r
    BY <1>1, <1>5, <1>6, <1>7, FixedIs DEF r
  <1>15. <<ms[i]>> \in Seq(Good) /\ Len(<<ms[i]>>) = 1 /\ <<ms[i]>>[1] = ms[i]
    BY <1>1, ConvMember, OneIsSeq
  <1> DEFINE f == <<ms[i]>> \o r
             p == SubSeq(ms, i, i + n)
  <1>16. /\ f \in Seq(Good) /\ Len(f) = 1 + n
         /\ \A k \in 1..(1 + n) : f[k] = IF k <= 1 THEN <<ms[i]>>[k] ELSE r[k - 1]
    <2>1. /\ f \in Seq(Good) /\ Len(f) = Len(<<ms[i]>>) + Len(r)
          /\ \A k \in 1..(Len(<<ms[i]>>) + Len(r)) :
                f[k] = IF k <= Len(<<ms[i]>>) THEN <<ms[i]>>[k] ELSE r[k - Len(<<ms[i]>>)]
      BY <1>13, <1>15, ConcatProperties
    <2> HIDE DEF f
    <2> QED
      BY <1>13, <1>15, <2>1
  <1>17. /\ p \in Seq(Good) /\ Len(p) = 1 + n /\ \A k \in 1..(1 + n) : p[k] = ms[i + k - 1]
    <2>1. i \in 1..(Len(ms) + 1) /\ i + n \in 0..Len(ms)
      BY <1>1, <1>3
    <2>2. /\ p \in Conv /\ Len(p) = IF i <= i + n THEN (i + n) - i + 1 ELSE 0
          /\ \A k \in 1..((i + n) - i + 1) : p[k] = ms[i + k - 1]
      BY <2>1, PieceType
    <2>3. (i + n) - i + 1 = 1 + n /\ i <= i + n
      BY <1>1
    <2> HIDE DEF p
    <2> QED
      BY <2>2, <2>3 DEF Conv
  <1> HIDE DEF f, p
  <1>18. ASSUME NEW k \in 1..(1 + n) PROVE f[k] = p[k]
    <2>1. CASE k = 1
      BY <1>1, <1>15, <1>16, <1>17, <2>1
    <2>2. CASE k # 1
      <3>1. k - 1 \in 1..n /\ ~(k <= 1) /\ i + (k - 1) = i + k - 1
        BY <1>1, <2>2
      <3>2. r[k - 1] = ms[i + (k - 1)]
        BY <1>10, <3>1
      <3> QED
        BY <1>16, <1>17, <3>1, <3>2
    <2> QED
      BY <2>1, <2>2
  <1>19. f = p
    BY <1>1, <1>16, <1>17, <1>18, SeqEqual
  <1> QED
    BY <1>14, <1>19 DEF f, p, n

(* Where the run of results behind a place ends.                              *)
LEMMA BlockEnds ==
    ASSUME NEW ms \in Conv, NEW i \in 1..Len(ms)
    PROVE  /\ Cardinality(Block(ms, i)) \in 0..(Len(ms) - i)
           /\ i < Len(ms) /\ ms[i + 1].kind = "result" =>
                Cardinality(Block(ms, i)) = Cardinality(Block(ms, i + 1)) + 1
           /\ ~(i < Len(ms) /\ ms[i + 1].kind = "result") => Cardinality(Block(ms, i)) = 0
  <1>1. Len(ms) \in Nat /\ DOMAIN ms = 1..Len(ms)
    BY OpenIs
  <1>2. PICK n \in 0..(Len(ms) - i) : Block(ms, i) = (i + 1)..(i + n) /\ Cardinality(Block(ms, i)) = n
    BY <1>1, BlockIs
  <1>3. ASSUME i < Len(ms), ms[i + 1].kind = "result"
        PROVE  n = Cardinality(Block(ms, i + 1)) + 1
    <2>1. i + 1 \in 1..Len(ms)
      BY <1>1, <1>3
    <2>2. PICK m \in 0..(Len(ms) - (i + 1)) :
             Block(ms, i + 1) = ((i + 1) + 1)..((i + 1) + m) /\ Cardinality(Block(ms, i + 1)) = m
      BY <1>1, <2>1, BlockIs
    <2>3. \A j \in Block(ms, i + 1) : j \in Block(ms, i)
      <3> TAKE j \in Block(ms, i + 1)
      <3>1. j \in ((i + 1) + 1)..Len(ms) /\ \A k \in ((i + 1) + 1)..j : ms[k].kind = "result"
        BY DEF Block
      <3>2. j \in (i + 1)..Len(ms)
        BY <1>1, <3>1
      <3>3. \A k \in (i + 1)..j : k = i + 1 \/ k \in ((i + 1) + 1)..j
        BY <1>1, <3>1
      <3>4. \A k \in (i + 1)..j : ms[k].kind = "result"
        BY <1>3, <3>1, <3>3
      <3> QED
        BY <3>2, <3>4 DEF Block
    <2>4. i + 1 \in Block(ms, i)
      <3>1. i + 1 \in (i + 1)..Len(ms) /\ \A k \in (i + 1)..(i + 1) : k = i + 1
        BY <1>1, <2>1
      <3> QED
        BY <1>3, <3>1 DEF Block
    <2>5. \A j \in Block(ms, i) : j # i + 1 => j \in Block(ms, i + 1)
      <3> TAKE j \in Block(ms, i)
      <3>1. j \in (i + 1)..Len(ms) /\ \A k \in (i + 1)..j : ms[k].kind = "result"
        BY DEF Block
      <3>2. j # i + 1 => j \in ((i + 1) + 1)..Len(ms)
        BY <1>1, <3>1
      <3>3. \A k \in ((i + 1) + 1)..j : k \in (i + 1)..j
        BY <1>1, <3>1
      <3> QED
        BY <3>1, <3>2, <3>3 DEF Block
    <2>6. n >= 1
      BY <1>1, <1>2, <2>4
    <2>7. n = 1 \/ (i + n \in (i + 1)..(i + n) /\ i + n # i + 1)
      BY <1>1, <2>6
    <2>8. n <= m + 1
      <3>1. i + n # i + 1 => i + n \in ((i + 1) + 1)..((i + 1) + m)
        BY <1>2, <2>2, <2>5, <2>7
      <3> QED
        BY <1>1, <2>2, <2>7, <3>1
    <2>9. m + 1 <= n
      <3>1. m > 0 => (i + 1) + m \in ((i + 1) + 1)..((i + 1) + m)
        BY <1>1, <2>2
      <3>2. m > 0 => (i + 1) + m \in (i + 1)..(i + n)
        BY <1>2, <2>2, <2>3, <3>1
      <3> QED
        BY <1>1, <2>2, <2>6, <3>2
    <2> QED
      BY <2>2, <2>8, <2>9
  <1>4. ASSUME ~(i < Len(ms) /\ ms[i + 1].kind = "result")
        PROVE  n = 0
    <2> SUFFICES ASSUME n # 0 PROVE FALSE
      OBVIOUS
    <2>1. i + 1 \in (i + 1)..(i + n)
      BY <1>1, <1>2
    <2>2. i + 1 \in Block(ms, i)
      BY <1>2, <2>1
    <2>3. i + 1 \in (i + 1)..Len(ms) /\ i + 1 \in (i + 1)..(i + 1)
      BY <1>1, <2>2 DEF Block
    <2>4. ms[i + 1].kind = "result"
      BY <2>2, <2>3 DEF Block
    <2> QED
      BY <1>1, <1>4, <2>3, <2>4
  <1> QED
    BY <1>2, <1>3, <1>4

(* How far the repair has come when it has looked at message i of an open     *)
(* conversation.                                                              *)
Reached(ms, i) ==
    IF i = 0 THEN 0 ELSE IF i = Len(ms) THEN i - 1 ELSE i + Cardinality(Block(ms, i))

LEMMA ReachedIs ==
    ASSUME NEW ms \in Conv, Paired(ms), Open(ms), NEW i \in 1..Len(ms)
    PROVE  /\ Reached(ms, i) \in 0..Len(ms)
           /\ ms[i].kind = "result" =>
                Fixed(ms, i) = <<>> /\ Reached(ms, i - 1) = Reached(ms, i) /\ i > 1
           /\ ms[i].kind # "result" =>
                /\ Reached(ms, i - 1) = i - 1 /\ Reached(ms, i) \in (i - 1)..Len(ms)
                /\ Fixed(ms, i) = SubSeq(ms, i, Reached(ms, i))
  <1> DEFINE b == Len(ms)
             C(k) == Cardinality(Block(ms, k))
  <1>1. b \in Nat /\ b > 0 /\ ms[b].kind = "calls" /\ DOMAIN ms = 1..b /\ b \in Calls(ms) /\ i \in 1..b
    BY OpenIs
  <1>2. ASSUME NEW k \in 1..b
        PROVE  /\ C(k) \in 0..(b - k)
               /\ k < b /\ ms[k + 1].kind = "result" => C(k) = C(k + 1) + 1
               /\ ~(k < b /\ ms[k + 1].kind = "result") => C(k) = 0
    BY BlockEnds
  <1>3. Reached(ms, i) \in 0..b
    <2>1. C(i) \in 0..(b - i)
      BY <1>1, <1>2
    <2>3. i # 0
      BY <1>1
    <2>2. Reached(ms, i) = IF i = b THEN i - 1 ELSE i + C(i)
      BY <2>3 DEF Reached, C
    <2> HIDE DEF C, b
    <2> QED
      BY <1>1, <2>1, <2>2
  <1> HIDE DEF C
  <1>4. ASSUME ms[i].kind = "result"
        PROVE  Fixed(ms, i) = <<>> /\ Reached(ms, i - 1) = Reached(ms, i) /\ i > 1
    <2>1. i # b /\ i # 1
      BY <1>1, <1>4, StartSplits
    <2>2. i - 1 \in 1..b /\ i < b /\ i - 1 < b /\ (i - 1) + 1 = i /\ i - 1 # 0 /\ i # 0 /\ i - 1 # b
      <3> HIDE DEF b
      <3> QED
        BY <1>1, <2>1
    <2>3. C(i - 1) = C(i) + 1
      BY <1>2, <1>4, <2>2
    <2>4. C(i) \in Nat
      <3>1. C(i) \in 0..(b - i)
        BY <1>1, <1>2
      <3> QED
        BY <3>1
    <2>5. Reached(ms, i - 1) = (i - 1) + C(i - 1) /\ Reached(ms, i) = i + C(i)
      BY <2>1, <2>2 DEF Reached, C
    <2>6. (i - 1) + C(i - 1) = i + C(i)
      BY <1>1, <2>3, <2>4
    <2>7. i > 1
      <3> HIDE DEF b
      <3> QED
        BY <1>1, <2>1
    <2>8. Fixed(ms, i) = <<>>
      BY <1>4, FixedIs
    <2> QED
      BY <2>5, <2>6, <2>7, <2>8
  <1>5. ASSUME ms[i].kind # "result"
        PROVE  /\ Reached(ms, i - 1) = i - 1 /\ Reached(ms, i) \in (i - 1)..b
               /\ Fixed(ms, i) = SubSeq(ms, i, Reached(ms, i))
    <2>1. Reached(ms, i - 1) = i - 1
      <3>1. CASE i = 1
        BY <3>1 DEF Reached
      <3>2. CASE i # 1
        <4>1. i - 1 \in 1..b /\ (i - 1) + 1 = i /\ i - 1 # 0 /\ i - 1 # b
          <5> HIDE DEF b
          <5> QED
            BY <1>1, <3>2
        <4>2. C(i - 1) = 0
          BY <1>2, <1>5, <4>1
        <4>3. Reached(ms, i - 1) = (i - 1) + 0
          BY <4>1, <4>2 DEF Reached, C
        <4> QED
          BY <1>1, <4>3
      <3> QED
        BY <3>1, <3>2
    <2>2. CASE i = b
      <3>1. Reached(ms, i) = b - 1
        BY <1>1, <2>2 DEF Reached
      <3>2. C(b) = 0
        BY <1>1, <1>2
      <3>3. Answers(ms, b) = <<>>
        <4>1. Answers(ms, b) = [k \in 1..0 |-> ms[b + k].ids[1]]
          BY <3>2 DEF Answers, C
        <4> QED
          BY <4>1
      <3>4. ToSet(Answers(ms, b)) = {}
        BY <3>3 DEF ToSet
      <3>5. Answered(ms, b) = <<>>
        <4>1. ms[b].ids \in Seq(Nat)
          BY <1>1, ConvMember
        <4>2. ToSet(ms[b].ids) \cap {} = {}
          OBVIOUS
        <4>3. Within(ms[b].ids, {}) = <<>>
          BY <4>1, <4>2, WithinNone
        <4> QED
          BY <3>4, <4>3 DEF Answered
      <3>6. Fixed(ms, b) = <<>>
        BY <1>1, <3>5, FixedIs
      <3>7. SubSeq(ms, b, b - 1) = <<>>
        <4>1. b \in Int /\ b - 1 \in Int /\ b - 1 < b
          BY <1>1
        <4> QED
          BY <4>1, SubSeqEmpty
      <3> HIDE DEF b
      <3> QED
        BY <1>1, <2>1, <2>2, <3>1, <3>6, <3>7
    <2>3. CASE i # b /\ ms[i].kind = "calls"
      <3>1. i \in Calls(ms) /\ Len(ms[i].ids) \in Nat
        BY <2>3, CallsAre
      <3>2. Complete(ms, i) /\ IsInjective(ms[i].ids)
        BY <2>3, <3>1 DEF Paired
      <3>3. Fixed(ms, i) = SubSeq(ms, i, i + Len(ms[i].ids))
        BY <3>1, <3>2, FixedComplete
      <3>4. Answers(ms, i) = ms[i].ids
        BY <3>1, <3>2, CompleteBlock
      <3>5. C(i) = Len(ms[i].ids)
        <4>1. C(i) \in Nat
          <5>1. C(i) \in 0..(b - i)
            BY <1>1, <1>2
          <5> QED
            BY <5>1
        <4>2. Answers(ms, i) = [k \in 1..C(i) |-> ms[i + k].ids[1]]
          BY DEF Answers, C
        <4>3. Len(Answers(ms, i)) = C(i)
          BY <4>1, <4>2
        <4> QED
          BY <3>4, <4>3
      <3>6. Reached(ms, i) = i + C(i)
        BY <1>1, <2>3 DEF Reached, C
      <3>7. i + C(i) \in (i - 1)..b
        <4>1. C(i) \in 0..(b - i)
          BY <1>1, <1>2
        <4> HIDE DEF b
        <4> QED
          BY <1>1, <4>1
      <3> QED
        BY <2>1, <3>3, <3>5, <3>6, <3>7
    <2>4. CASE i # b /\ ms[i].kind # "calls"
      <3>1. i < b /\ i + 1 \in 1..b /\ i # 0
        <4> HIDE DEF b
        <4> QED
          BY <1>1, <2>4
      <3>2. ASSUME ms[i + 1].kind = "result" PROVE FALSE
        <4>1. PICK h \in DOMAIN ms : Owns(ms, h, i + 1)
          BY <1>1, <3>1, <3>2 DEF Paired
        <4>2. h \in Calls(ms) /\ h < i + 1 /\ i + 1 <= h + Len(ms[h].ids) /\ h \in 1..b
              /\ Len(ms[h].ids) \in Nat
          BY <4>1, CallsAre DEF Owns
        <4>3. h # i
          BY <2>4, <4>2, CallsAre
        <4>4. h < i /\ i <= h + Len(ms[h].ids)
          BY <1>1, <4>2, <4>3
        <4>5. ms[i].kind = "result"
          BY <4>2, <4>4, BehindCall
        <4> QED
          BY <1>5, <4>5
      <3>3. C(i) = 0
        BY <1>1, <1>2, <3>2
      <3>4. Reached(ms, i) = i
        <4>1. Reached(ms, i) = i + 0
          BY <2>4, <3>1, <3>3 DEF Reached, C
        <4> QED
          BY <1>1, <4>1
      <3>5. Fixed(ms, i) = <<ms[i]>>
        BY <1>5, <2>4, FixedIs
      <3>6. SubSeq(ms, i, i) = <<ms[i]>>
        <4>1. i \in 1..Len(ms) /\ i \in i..Len(ms) /\ i + 1 \in Int /\ i \in Int /\ i < i + 1
          BY <1>1
        <4>2. SubSeq(ms, i, i) = <<ms[i]>> \o SubSeq(ms, i + 1, i)
          BY <4>1, SubSeqRecursiveFirst DEF Conv
        <4>3. SubSeq(ms, i + 1, i) = <<>>
          BY <4>1, SubSeqEmpty
        <4>4. <<ms[i]>> \in Seq(Good)
          BY <1>1, ConvMember, OneIsSeq
        <4> QED
          BY <4>2, <4>3, <4>4, ConcatEmptySeq
      <3>7. i \in (i - 1)..b
        <4> HIDE DEF b
        <4> QED
          BY <1>1
      <3> QED
        BY <2>1, <3>4, <3>5, <3>6, <3>7
    <2> QED
      BY <2>2, <2>3, <2>4
  <1> QED
    BY <1>3, <1>4, <1>5 DEF b

(* Where a turn was stopped between a call and its results, repair leaves out *)
(* that call and nothing else (repairMessageHistory).                         *)
THEOREM RepairDropsOpenCall ==
    ASSUME NEW ms \in Conv, Paired(ms), Open(ms)
    PROVE  Repair(ms) = SubSeq(ms, 1, Len(ms) - 1)
  <1> DEFINE b == Len(ms)
             ss == [i \in DOMAIN ms |-> Fixed(ms, i)]
             g == [i \in 1..b |-> SubSeq(ms, 1, Reached(ms, i))]
  <1>1. b \in Nat /\ b > 0 /\ ms[b].kind = "calls" /\ DOMAIN ms = 1..b /\ b \in Calls(ms) /\ b \in 1..b
    BY OpenIs
  <1>2. Repaired(ms)
    <2>1. Cardinality(Block(ms, b)) = 0
      BY <1>1, BlockEnds
    <2>2. Answers(ms, b) = [k \in 1..0 |-> ms[b + k].ids[1]]
      BY <2>1 DEF Answers
    <2>3. Answers(ms, b) = <<>>
      BY <2>2
    <2>4. ToSet(Answers(ms, b)) = {}
      BY <2>3 DEF ToSet
    <2>5. ms[b].ids \in Seq(Nat) /\ Len(ms[b].ids) > 0
      BY <1>1, ConvMember
    <2>6. ms[b].ids[1] \in ToSet(ms[b].ids)
      BY <2>5 DEF ToSet
    <2> QED
      BY <1>1, <2>4, <2>6 DEF Repaired
  <1>3. ss \in Seq(Seq(Good)) /\ Len(ss) = b /\ (\A i \in 1..b : ss[i] = Fixed(ms, i))
    BY <1>1, FixedsType
  <1>4. \A i \in 1..b : Reached(ms, i) \in 0..b
    BY ReachedIs
  <1>5. \A n \in 0..b : SubSeq(ms, 1, n) \in Seq(Good)
    <2>1. 1 \in 1..(Len(ms) + 1)
      BY <1>1
    <2> QED
      BY <2>1, PieceType DEF Conv
  <1>6. g \in [1..b -> Seq(Good)] /\ \A i \in 1..b : g[i] = SubSeq(ms, 1, Reached(ms, i))
    BY <1>4, <1>5
  <1> HIDE DEF g, ss
  <1>7. ASSUME NEW i \in 1..b
        PROVE  ss[i] \in Seq(Good) /\
               SubSeq(ms, 1, Reached(ms, i - 1)) \o ss[i] = SubSeq(ms, 1, Reached(ms, i))
    <2>1. ss[i] \in Seq(Good) /\ ss[i] = Fixed(ms, i)
      BY <1>3
    <2>2. CASE ms[i].kind = "result"
      <3>1. Fixed(ms, i) = <<>> /\ Reached(ms, i - 1) = Reached(ms, i)
        BY <2>2, ReachedIs
      <3> QED
        BY <1>4, <1>5, <2>1, <3>1, ConcatEmptySeq
    <2>3. CASE ms[i].kind # "result"
      <3>1. Reached(ms, i - 1) = i - 1 /\ Reached(ms, i) \in (i - 1)..b
            /\ Fixed(ms, i) = SubSeq(ms, i, Reached(ms, i))
        BY <2>3, ReachedIs
      <3> DEFINE n == Reached(ms, i)
      <3>2. 1 \in 1..(Len(ms) + 1) /\ i - 1 \in (1 - 1)..Len(ms) /\ (i - 1) + 1 = i
        BY <1>1
      <3>3. SubSeq(ms, 1, i - 1) \o SubSeq(ms, (i - 1) + 1, n) = SubSeq(ms, 1, n)
        BY <3>1, <3>2, ConcatAdjacentSubSeq DEF Conv
      <3> QED
        BY <2>1, <3>1, <3>2, <3>3
    <2> QED
      BY <2>1, <2>2, <2>3
  <1>8. Flattens(g, ss)
    <2> SUFFICES ASSUME NEW i \in 1..b
                 PROVE  g[i] = IF i = 1 THEN ss[i] ELSE g[i - 1] \o ss[i]
      BY <1>3 DEF Flattens, FlattensTo
    <2>1. CASE i = 1
      <3>1. Reached(ms, i - 1) = 0
        BY <2>1 DEF Reached
      <3>2. SubSeq(ms, 1, 0) = <<>>
        BY SubSeqEmpty
      <3>3. <<>> \o ss[i] = SubSeq(ms, 1, Reached(ms, i)) /\ ss[i] \in Seq(Good)
        BY <1>7, <3>1, <3>2
      <3>4. <<>> \o ss[i] = ss[i]
        BY <3>3, ConcatEmptySeq
      <3> QED
        BY <1>6, <2>1, <3>3, <3>4
    <2>2. CASE i # 1
      <3>1. i - 1 \in 1..b
        BY <1>1, <2>2
      <3> QED
        BY <1>6, <1>7, <2>2, <3>1
    <2> QED
      BY <2>1, <2>2
  <1>9. FlattenSeq(ss) = g[b]
    <2>1. Len(ss) > 0 /\ g \in [1..Len(ss) -> Seq(Good)]
      BY <1>1, <1>3, <1>6
    <2>2. FlattenSeq(ss) = g[Len(ss)]
      BY <1>3, <1>8, <2>1, FlattenIs
    <2> QED
      BY <1>3, <2>2
  <1>10. Reached(ms, b) = b - 1
    BY <1>1 DEF Reached
  <1>11. Repair(ms) = FlattenSeq(ss)
    BY <1>2 DEF Repair, ss
  <1> QED
    BY <1>1, <1>6, <1>9, <1>10, <1>11

-------------------------------------------------------------------------------
(* What repair makes of any conversation.                                     *)

(* Every result has its call before it, every call its results behind it.     *)
InOrder(q) ==
    /\ \A j \in DOMAIN q : q[j].kind = "result" => \E i \in DOMAIN q : Owns(q, i, j)
    /\ \A i \in Calls(q) : Complete(q, i)

(* What repair makes of one message: nothing, a message that belongs to no    *)
(* exchange, or a call with a result for each of its ids.                     *)
Exchange(f) ==
    Len(f) > 0 =>
       /\ f[1].kind # "result"
       /\ Len(f) = IF f[1].kind = "calls" THEN 1 + Len(f[1].ids) ELSE 1
       /\ f[1].kind = "calls" => \A k \in 1..Len(f[1].ids) : /\ f[1 + k].kind = "result"
                                                             /\ f[1 + k].ids = <<f[1].ids[k]>>

LEMMA FixedExchange ==
    ASSUME NEW ms \in Conv, NEW i \in DOMAIN ms
    PROVE  Exchange(Fixed(ms, i))
  <1> DEFINE a == Answered(ms, i)
             r == TheirResults(ms, i)
  <1>1. a \in Seq(Nat) /\ DOMAIN a = 1..Len(a) /\ Len(a) \in Nat
    BY AnsweredType
  <1>2. CASE ms[i].kind = "result" \/ (ms[i].kind = "calls" /\ a = <<>>)
    <2>1. Fixed(ms, i) = <<>>
      BY <1>2, FixedIs
    <2> QED
      BY <2>1 DEF Exchange
  <1>3. CASE ms[i].kind \notin {"result", "calls"}
    <2>1. Fixed(ms, i) = <<ms[i]>>
      BY <1>3, FixedIs
    <2>2. Len(Fixed(ms, i)) = 1 /\ Fixed(ms, i)[1] = ms[i]
      BY <2>1
    <2> QED
      BY <1>3, <2>2 DEF Exchange
  <1>4. CASE ms[i].kind = "calls" /\ a # <<>>
    <2> DEFINE c == [ms[i] EXCEPT !.ids = a]
    <2>1. c.kind = "calls" /\ c.ids = a /\ c \in Good
      <3>1. ms[i] \in Msg
        BY ConvMember
      <3> HIDE DEF a
      <3>2. c \in Msg /\ c.kind = "calls" /\ c.ids = a
        BY <1>1, <1>4, <3>1 DEF Msg
      <3>3. Len(a) > 0
        BY <1>1, <1>4
      <3> HIDE DEF c
      <3> QED
        BY <3>2, <3>3 DEF Good
    <2>2. r = [k \in 1..Len(a) |-> ResultOf(ms, i, a[k])]
      BY <1>1 DEF TheirResults
    <2>3. ASSUME NEW k \in 1..Len(a)
          PROVE  /\ ResultOf(ms, i, a[k]) \in Good
                 /\ ResultOf(ms, i, a[k]).kind = "result" /\ ResultOf(ms, i, a[k]).ids = <<a[k]>>
      <3>1. a[k] \in ToSet(Answers(ms, i))
        BY <1>1, AnsweredType
      <3>2. PICK j \in Block(ms, i) : /\ ms[j].ids = <<a[k]>> /\ ResultOf(ms, i, a[k]) = ms[j]
                                      /\ ms[j] \in Good
        BY <3>1, ResultOfIs
      <3>3. j \in (i + 1)..Len(ms) /\ (\A h \in (i + 1)..j : ms[h].kind = "result")
        BY DEF Block
      <3>4. j \in (i + 1)..j
        BY <3>3, ConvMember
      <3> QED
        BY <3>2, <3>3, <3>4
    <2>4. Fixed(ms, i) = <<c>> \o r
      BY <1>4, FixedIs
    <2> HIDE DEF a, r, c
    <2>5. r \in Seq(Good) /\ Len(r) = Len(a)
          /\ \A k \in 1..Len(a) : r[k].kind = "result" /\ r[k].ids = <<a[k]>>
      BY <1>1, <2>2, <2>3
    <2>6. <<c>> \in Seq(Good) /\ Len(<<c>>) = 1 /\ <<c>>[1] = c
      BY <2>1, OneIsSeq
    <2> DEFINE f == <<c>> \o r
    <2>7. /\ Len(f) = Len(<<c>>) + Len(r)
          /\ \A k \in 1..(Len(<<c>>) + Len(r)) : f[k] = IF k <= Len(<<c>>) THEN <<c>>[k] ELSE r[k - Len(<<c>>)]
      BY <2>5, <2>6, ConcatProperties
    <2> HIDE DEF f
    <2>8. Len(f) = 1 + Len(a) /\ f[1] = c
      BY <1>1, <2>5, <2>6, <2>7
    <2>9. ASSUME NEW k \in 1..Len(a) PROVE f[1 + k] = r[k]
      <3>1. 1 + k \in 1..(1 + Len(a)) /\ ~(1 + k <= 1) /\ (1 + k) - 1 = k
        BY <1>1
      <3> QED
        BY <2>5, <2>6, <2>7, <3>1
    <2>10. Exchange(f)
      BY <2>1, <2>5, <2>8, <2>9 DEF Exchange
    <2> QED
      BY <2>4, <2>10 DEF f
  <1> QED
    BY <1>2, <1>3, <1>4

LEMMA ExchangeJoins ==
    ASSUME NEW q \in Conv, NEW f \in Conv, InOrder(q), Exchange(f)
    PROVE  InOrder(q \o f)
  <1> DEFINE p == q \o f
             b == Len(q)
             n == Len(f)
  <1>1. b \in Nat /\ n \in Nat /\ DOMAIN q = 1..b /\ DOMAIN f = 1..n
    BY OpenIs
  <1>2. /\ p \in Conv /\ Len(p) = b + n
        /\ \A i \in 1..(b + n) : p[i] = IF i <= b THEN q[i] ELSE f[i - b]
    BY ConcatProperties DEF Conv
  <1> HIDE DEF p, b, n
  <1>3. \A i \in 1..b : p[i] = q[i]
    BY <1>1, <1>2
  <1>4. \A k \in 1..n : p[b + k] = f[k]
    <2> TAKE k \in 1..n
    <2>1. b + k \in 1..(b + n) /\ ~(b + k <= b) /\ (b + k) - b = k
      BY <1>1
    <2> QED
      BY <1>2, <2>1
  <1>5. DOMAIN p = 1..(b + n)
    BY <1>2, OpenIs
  <1>6. \A i : i \in Calls(p) <=> i \in 1..(b + n) /\ p[i].kind = "calls"
    BY <1>2, CallsAre
  <1>7. \A i : i \in Calls(q) <=> i \in 1..b /\ q[i].kind = "calls"
    BY CallsAre DEF b
  <1>8. ASSUME NEW i \in Calls(q)
        PROVE  i \in Calls(p) /\ p[i] = q[i] /\ Complete(p, i)
    <2>1. i \in 1..b /\ q[i].kind = "calls" /\ Len(q[i].ids) \in Nat \ {0}
      BY <1>7, CallsAre
    <2>2. p[i] = q[i] /\ i \in 1..(b + n)
      BY <1>1, <1>3, <2>1
    <2>3. i \in Calls(p)
      BY <1>6, <2>1, <2>2
    <2> DEFINE m == Len(q[i].ids)
    <2>4. /\ i + m <= b /\ (i + m < b => q[i + m + 1].kind # "result")
          /\ \A k \in 1..m : q[i + k].kind = "result" /\ q[i + k].ids = <<q[i].ids[k]>>
      BY DEF InOrder, Complete, b
    <2>5. m \in Nat
      BY <2>1
    <2> HIDE DEF m
    <2>6. \A k \in 1..m : i + k \in 1..b
      BY <1>1, <2>1, <2>4, <2>5
    <2>7. \A k \in 1..m : p[i + k] = q[i + k]
      BY <1>3, <2>6
    <2>8. i + m <= Len(p)
      BY <1>1, <1>2, <2>1, <2>4, <2>5
    <2>9. ASSUME i + m < Len(p) PROVE p[i + m + 1].kind # "result"
      <3>1. CASE i + m < b
        <4>1. i + m + 1 \in 1..b
          BY <1>1, <2>1, <2>5, <3>1
        <4> QED
          BY <1>3, <2>4, <3>1, <4>1
      <3>2. CASE i + m = b
        <4>1. 1 \in 1..n /\ b + 1 = i + m + 1 /\ n > 0
          BY <1>1, <1>2, <2>9, <3>2
        <4>2. p[i + m + 1] = f[1]
          BY <1>4, <4>1
        <4>3. f[1].kind # "result"
          BY <4>1 DEF Exchange, n
        <4> QED
          BY <4>2, <4>3
      <3> QED
        BY <1>1, <2>1, <2>4, <2>5, <3>1, <3>2
    <2>10. Complete(p, i)
      BY <2>2, <2>4, <2>7, <2>8, <2>9 DEF Complete, m
    <2> QED
      BY <2>2, <2>3, <2>10
  <1>9. ASSUME n > 0
        PROVE  /\ f[1].kind # "result" /\ 1 \in 1..n
               /\ n = IF f[1].kind = "calls" THEN 1 + Len(f[1].ids) ELSE 1
               /\ f[1].kind = "calls" =>
                    /\ Len(f[1].ids) \in Nat
                    /\ \A k \in 1..Len(f[1].ids) : f[1 + k].kind = "result" /\ f[1 + k].ids = <<f[1].ids[k]>>
    <2>1. 1 \in 1..n
      BY <1>1, <1>9
    <2>2. Len(f[1].ids) \in Nat
      BY <1>1, <2>1, ConvMember
    <2> QED
      BY <1>9, <2>1, <2>2 DEF Exchange, n
  <1>10. ASSUME n > 0, f[1].kind = "calls"
         PROVE  b + 1 \in Calls(p) /\ p[b + 1] = f[1] /\ Complete(p, b + 1)
    <2> DEFINE m == Len(f[1].ids)
               i == b + 1
    <2>1. p[i] = f[1] /\ i \in 1..(b + n) /\ m \in Nat /\ n = 1 + m
      BY <1>1, <1>4, <1>9, <1>10
    <2>2. i \in Calls(p)
      BY <1>6, <1>10, <2>1
    <2>3. ASSUME NEW k \in 1..m
          PROVE  p[i + k].kind = "result" /\ p[i + k].ids = <<f[1].ids[k]>>
      <3>1. 1 + k \in 1..n /\ b + (1 + k) = i + k
        <4> HIDE DEF m
        <4> QED
          BY <1>1, <2>1
      <3>2. p[i + k] = f[1 + k]
        BY <1>4, <3>1
      <3> QED
        BY <1>9, <1>10, <3>2
    <2> HIDE DEF m
    <2>4. i + m <= Len(p) /\ ~(i + m < Len(p))
      BY <1>1, <1>2, <2>1
    <2> HIDE DEF i
    <2>5. Complete(p, i)
      BY <2>1, <2>3, <2>4 DEF Complete, m
    <2> QED
      BY <2>1, <2>2, <2>5 DEF i
  <1>11. ASSUME NEW i \in Calls(p)
         PROVE  i \in Calls(q) \/ (n > 0 /\ f[1].kind = "calls" /\ i = b + 1)
    <2>1. i \in 1..(b + n) /\ p[i].kind = "calls"
      BY <1>6
    <2>2. CASE i \in 1..b
      BY <1>3, <1>7, <2>1, <2>2
    <2>3. CASE i \notin 1..b
      <3>1. i - b \in 1..n /\ b + (i - b) = i /\ n > 0
        BY <1>1, <2>1, <2>3
      <3>2. f[i - b].kind = "calls"
        BY <1>4, <2>1, <3>1
      <3>3. i - b = 1
        <4> SUFFICES ASSUME i - b # 1 PROVE FALSE
          OBVIOUS
        <4>1. f[1].kind = "calls" /\ n = 1 + Len(f[1].ids) /\ Len(f[1].ids) \in Nat
          BY <1>1, <1>9, <3>1
        <4>2. (i - b) - 1 \in 1..Len(f[1].ids) /\ 1 + ((i - b) - 1) = i - b
          <5> DEFINE m == Len(f[1].ids)
          <5>1. m \in Nat /\ n = 1 + m
            BY <4>1
          <5> HIDE DEF m
          <5>2. b \in Nat /\ i \in Int /\ i - b \in 1..n /\ i - b # 1
            BY <1>1, <2>1, <3>1
          <5>3. (i - b) - 1 \in 1..m /\ 1 + ((i - b) - 1) = i - b
            BY <5>1, <5>2
          <5> QED
            BY <5>3 DEF m
        <4>3. f[1 + ((i - b) - 1)].kind = "result"
          BY <1>9, <3>1, <4>1, <4>2
        <4> QED
          BY <3>2, <4>2, <4>3
      <3>4. i = b + 1
        BY <1>1, <3>1, <3>3
      <3> QED
        BY <3>1, <3>2, <3>3, <3>4
    <2> QED
      BY <2>2, <2>3
  <1>12. \A i \in Calls(p) : Complete(p, i)
    BY <1>8, <1>10, <1>11
  <1>13. ASSUME NEW j \in DOMAIN p, p[j].kind = "result"
         PROVE  \E i \in DOMAIN p : Owns(p, i, j)
    <2>1. j \in 1..(b + n)
      BY <1>5
    <2>2. CASE j \in 1..b
      <3>1. q[j].kind = "result"
        BY <1>3, <1>13, <2>2
      <3>2. PICK i \in DOMAIN q : Owns(q, i, j)
        BY <1>1, <2>2, <3>1 DEF InOrder
      <3>3. i \in Calls(q) /\ i < j /\ j <= i + Len(q[i].ids)
        BY <3>2 DEF Owns
      <3>4. i \in Calls(p) /\ p[i] = q[i] /\ i \in DOMAIN p
        BY <1>5, <1>6, <1>8, <3>3
      <3>5. Owns(p, i, j)
        BY <3>3, <3>4 DEF Owns
      <3> QED
        BY <3>4, <3>5
    <2>3. CASE j \notin 1..b
      <3>1. j - b \in 1..n /\ b + (j - b) = j /\ n > 0
        BY <1>1, <2>1, <2>3
      <3>2. f[j - b].kind = "result"
        BY <1>4, <1>13, <3>1
      <3>3. j - b # 1
        BY <1>9, <3>1, <3>2
      <3>4. f[1].kind = "calls" /\ n = 1 + Len(f[1].ids) /\ Len(f[1].ids) \in Nat
        <4>1. n # 1
          BY <1>1, <3>1, <3>3
        <4> QED
          BY <1>9, <3>1, <4>1
      <3>5. b + 1 \in Calls(p) /\ p[b + 1] = f[1]
        BY <1>10, <3>1, <3>4
      <3>6. b + 1 < j /\ j <= (b + 1) + Len(f[1].ids)
        <4> DEFINE m == Len(f[1].ids)
        <4>1. m \in Nat /\ n = 1 + m
          BY <3>4
        <4> HIDE DEF m
        <4>2. b \in Nat /\ j \in Int
          BY <1>1, <2>1
        <4>3. j - b \in 1..n
          BY <3>1
        <4>4. b + 1 < j /\ j <= (b + 1) + m
          BY <3>3, <4>1, <4>2, <4>3
        <4> QED
          BY <4>4 DEF m
      <3>7. Owns(p, b + 1, j)
        BY <3>5, <3>6 DEF Owns
      <3>8. b + 1 \in DOMAIN p
        BY <1>5, <1>6, <3>5
      <3> QED
        BY <3>7, <3>8
    <2> QED
      BY <2>2, <2>3
  <1>14. InOrder(p)
    BY <1>12, <1>13 DEF InOrder
  <1> QED
    BY <1>14 DEF p

LEMMA OrderAnswered ==
    ASSUME NEW q \in Conv, InOrder(q)
    PROVE  Orphans(q) = {} /\ \A i \in Calls(q) : Answers(q, i) = q[i].ids
  <1>1. \A i \in Calls(q) : Answers(q, i) = q[i].ids /\ Block(q, i) = (i + 1)..(i + Len(q[i].ids))
    BY CompleteBlock DEF InOrder
  <1>2. ASSUME NEW j \in DOMAIN q, q[j].kind = "result"
        PROVE  \E i \in Calls(q) : j \in Block(q, i)
    <2>1. PICK i \in DOMAIN q : Owns(q, i, j)
      BY <1>2 DEF InOrder
    <2>2. i \in Calls(q) /\ i < j /\ j <= i + Len(q[i].ids)
      BY <2>1 DEF Owns
    <2>3. i \in Nat /\ j \in Nat /\ Len(q[i].ids) \in Nat
      BY <2>2, OpenIs, CallsAre
    <2> QED
      BY <1>1, <2>2, <2>3
  <1> QED
    BY <1>1, <1>2 DEF Orphans

(* No id is used twice, by one call or by two.                                *)
Distinct(q) ==
    /\ \A i \in Calls(q) : IsInjective(q[i].ids)
    /\ \A i, j \in Calls(q) : i # j => ToSet(q[i].ids) \cap ToSet(q[j].ids) = {}

LEMMA OneMoreInjective ==
    ASSUME NEW S, NEW p \in Seq(S), NEW x \in S, IsInjective(p), x \notin ToSet(p)
    PROVE  IsInjective(p \o <<x>>)
  <1> DEFINE n == Len(p)
             q == p \o <<x>>
  <1>1. n \in Nat /\ DOMAIN p = 1..n
    OBVIOUS
  <1>2. <<x>> \in Seq(S) /\ Len(<<x>>) = 1 /\ <<x>>[1] = x
    BY OneIsSeq
  <1>3. /\ Len(q) = Len(p) + Len(<<x>>) /\ q \in Seq(S)
        /\ \A i \in 1..(Len(p) + Len(<<x>>)) : q[i] = IF i <= Len(p) THEN p[i] ELSE <<x>>[i - Len(p)]
    BY <1>2, ConcatProperties
  <1> HIDE DEF n, q
  <1>4. Len(q) = n + 1
    BY <1>2, <1>3 DEF n
  <1>5. \A i \in 1..n : q[i] = p[i]
    <2> TAKE i \in 1..n
    <2>1. i \in 1..(Len(p) + Len(<<x>>)) /\ i <= Len(p)
      BY <1>1, <1>2 DEF n
    <2> QED
      BY <1>3, <2>1
  <1>6. q[n + 1] = x
    <2>1. n + 1 \in 1..(Len(p) + Len(<<x>>)) /\ ~(n + 1 <= Len(p)) /\ (n + 1) - Len(p) = 1
      BY <1>1, <1>2 DEF n
    <2> QED
      BY <1>2, <1>3, <2>1
  <1>7. DOMAIN q = 1..(n + 1)
    BY <1>3, <1>4
  <1>8. \A i \in 1..n : p[i] # x
    BY <1>1 DEF ToSet
  <1>9. \A i, j \in 1..n : p[i] = p[j] => i = j
    BY <1>1 DEF IsInjective
  <1>10. \A i \in 1..(n + 1) : i \in 1..n \/ i = n + 1
    BY <1>1
  <1>11. \A i, j \in 1..(n + 1) : q[i] = q[j] => i = j
    BY <1>5, <1>6, <1>8, <1>9, <1>10
  <1>12. IsInjective(q)
    BY <1>7, <1>11 DEF IsInjective
  <1> QED
    BY <1>12 DEF q

(* What is in a set, of a sequence that has nothing twice.                    *)
LEMMA WithinInjective ==
    ASSUME NEW S, NEW s \in Seq(S), NEW T, IsInjective(s)
    PROVE  IsInjective(Within(s, T)) /\ ToSet(Within(s, T)) \subseteq ToSet(s)
  <1> DEFINE b == Len(s)
             ss == Chosen(s, T)
             K == [n \in 0..b |-> {q \in Seq(S) : IsInjective(q) /\ ToSet(q) \subseteq {s[k] : k \in 1..n}}]
  <1>1. b \in Nat /\ DOMAIN s = 1..b
    OBVIOUS
  <1>2. /\ ss \in Seq(Seq(S)) /\ Len(ss) = b
        /\ \A k \in 1..b : ss[k] = IF s[k] \in T THEN <<s[k]>> ELSE <<>>
    <2>1. /\ ss \in Seq(Seq(S \cap T)) /\ Len(ss) = Len(s)
          /\ \A k \in 1..Len(s) : ss[k] = IF s[k] \in T THEN <<s[k]>> ELSE <<>>
      <3>1. ss \in Seq(Seq(S \cap T))
        BY ChosenType
      <3>2. Len(ss) = Len(s)
        BY ChosenType
      <3>3. \A k \in 1..Len(s) : ss[k] = IF s[k] \in T THEN <<s[k]>> ELSE <<>>
        BY <1>1 DEF Chosen
      <3> HIDE DEF ss
      <3> QED
        BY <3>1, <3>2, <3>3
    <2>2. s \in Seq(S) /\ S \cap T \subseteq S
      OBVIOUS
    <2> HIDE DEF ss
    <2>3. \A k \in 1..Len(ss) : ss[k] \in Seq(S)
      <3> TAKE k \in 1..Len(ss)
      <3>1. ss[k] \in Seq(S \cap T)
        BY <2>1
      <3> QED
        BY <2>2, <3>1
    <2>4. ss \in Seq(Seq(S))
      BY <2>1, <2>3
    <2> QED
      BY <2>1, <2>4
  <1>3. \A n \in 0..b : K[n] = {q \in Seq(S) : IsInjective(q) /\ ToSet(q) \subseteq {s[k] : k \in 1..n}}
    OBVIOUS
  <1> HIDE DEF K, ss, b
  <1>4. <<>> \in K[0]
    <2>1. <<>> \in Seq(S) /\ DOMAIN <<>> = {}
      BY EmptySeq
    <2>2. IsInjective(<<>>) /\ ToSet(<<>>) = {}
      BY <2>1 DEF IsInjective, ToSet
    <2>3. 0 \in 0..b
      BY <1>1
    <2> QED
      BY <1>3, <2>1, <2>2, <2>3
  <1>5. ASSUME NEW n \in 0..(Len(ss) - 1), NEW q \in Seq(S), q \in K[n]
        PROVE  q \o ss[n + 1] \in K[n + 1]
    <2>1. n \in 0..b /\ n + 1 \in 0..b /\ n + 1 \in 1..b /\ n \in Nat
      BY <1>1, <1>2
    <2>2. IsInjective(q) /\ ToSet(q) \subseteq {s[k] : k \in 1..n}
      BY <1>3, <1>5, <2>1
    <2>3. {s[k] : k \in 1..n} \subseteq {s[k] : k \in 1..(n + 1)}
      <3>1. 1..n \subseteq 1..(n + 1)
        BY <2>1
      <3> QED
        BY <3>1
    <2>4. CASE s[n + 1] \in T
      <3>1. ss[n + 1] = <<s[n + 1]>> /\ s[n + 1] \in S
        BY <1>1, <1>2, <2>1, <2>4
      <3>2. s[n + 1] \notin ToSet(q)
        <4> SUFFICES ASSUME s[n + 1] \in ToSet(q) PROVE FALSE
          OBVIOUS
        <4>1. PICK k \in 1..n : s[n + 1] = s[k]
          BY <2>2
        <4>2. k \in DOMAIN s /\ n + 1 \in DOMAIN s /\ k # n + 1
          BY <1>1, <2>1
        <4> QED
          BY <4>1, <4>2 DEF IsInjective
      <3>3. IsInjective(q \o <<s[n + 1]>>)
        <4>1. IsInjective(q) /\ s[n + 1] \in S
          BY <2>2, <3>1
        <4> QED
          BY <3>2, <4>1, OneMoreInjective
      <3>4. <<s[n + 1]>> \in Seq(S) /\ Len(<<s[n + 1]>>) = 1 /\ <<s[n + 1]>>[1] = s[n + 1]
        BY <3>1, OneIsSeq
      <3>5. q \o <<s[n + 1]>> \in Seq(S)
        BY <3>4
      <3>6. ToSet(q \o <<s[n + 1]>>) \subseteq {s[k] : k \in 1..(n + 1)}
        <4> DEFINE p == q \o <<s[n + 1]>>
        <4>1. /\ Len(p) = Len(q) + 1
              /\ \A i \in 1..(Len(q) + 1) : p[i] = IF i <= Len(q) THEN q[i] ELSE <<s[n + 1]>>[i - Len(q)]
          BY <3>4, ConcatProperties
        <4>2. Len(q) \in Nat /\ DOMAIN q = 1..Len(q) /\ DOMAIN p = 1..Len(p)
          BY <3>5
        <4> HIDE DEF p
        <4>3. ASSUME NEW i \in 1..(Len(q) + 1) PROVE p[i] \in {s[k] : k \in 1..(n + 1)}
          <5>1. CASE i <= Len(q)
            <6>1. i \in DOMAIN q /\ p[i] = q[i]
              BY <4>1, <4>2, <5>1
            <6>2. q[i] \in ToSet(q)
              BY <6>1 DEF ToSet
            <6> QED
              BY <2>2, <2>3, <6>1, <6>2
          <5>2. CASE ~(i <= Len(q))
            <6>1. i - Len(q) = 1
              BY <4>2, <5>2
            <6>2. p[i] = s[n + 1]
              BY <3>4, <4>1, <5>2, <6>1
            <6>3. n + 1 \in 1..(n + 1)
              BY <2>1
            <6> QED
              BY <6>2, <6>3
          <5> QED
            BY <5>1, <5>2
        <4>4. \A y \in ToSet(p) : \E i \in 1..(Len(q) + 1) : y = p[i]
          BY <4>1, <4>2 DEF ToSet
        <4> QED
          BY <4>3, <4>4 DEF p
      <3> QED
        BY <1>3, <2>1, <3>1, <3>3, <3>5, <3>6
    <2>5. CASE s[n + 1] \notin T
      <3>1. ss[n + 1] = <<>>
        BY <1>2, <2>1, <2>5
      <3>2. q \o <<>> = q
        BY ConcatEmptySeq
      <3> QED
        BY <1>3, <2>1, <2>2, <2>3, <3>1, <3>2
    <2> QED
      BY <2>4, <2>5
  <1>6. FlattenSeq(ss) \in K[Len(ss)]
    BY <1>2, <1>4, <1>5, FlattenInduction
  <1>7. Within(s, T) \in K[b]
    BY <1>2, <1>6 DEF Within, ss, Chosen
  <1>8. b \in 0..b
    BY <1>1
  <1>9. IsInjective(Within(s, T)) /\ ToSet(Within(s, T)) \subseteq {s[k] : k \in 1..b}
    BY <1>3, <1>7, <1>8
  <1>10. {s[k] : k \in 1..b} = ToSet(s)
    BY <1>1 DEF ToSet
  <1> QED
    BY <1>9, <1>10

(* Distinct ids stay distinct where the new calls come from a later message.  *)
LEMMA DistinctJoins ==
    ASSUME NEW q \in Conv, NEW f \in Conv, Exchange(f), Distinct(q),
           NEW A, \A h \in Calls(q) : ToSet(q[h].ids) \subseteq A,
           NEW B, Len(f) > 0 /\ f[1].kind = "calls" => IsInjective(f[1].ids) /\ ToSet(f[1].ids) \subseteq B,
           A \cap B = {}
    PROVE  /\ Distinct(q \o f)
           /\ \A h \in Calls(q \o f) : ToSet((q \o f)[h].ids) \subseteq A \cup B
  <1> DEFINE p == q \o f
             b == Len(q)
             n == Len(f)
  <1>1. b \in Nat /\ n \in Nat /\ DOMAIN q = 1..b /\ DOMAIN f = 1..n
    BY OpenIs
  <1>2. /\ p \in Conv /\ Len(p) = b + n
        /\ \A i \in 1..(b + n) : p[i] = IF i <= b THEN q[i] ELSE f[i - b]
    BY ConcatProperties DEF Conv
  <1> HIDE DEF p, b, n
  <1>3. \A i \in 1..b : p[i] = q[i]
    BY <1>1, <1>2
  <1>4. \A i : i \in Calls(p) <=> i \in 1..(b + n) /\ p[i].kind = "calls"
    BY <1>2, CallsAre
  <1>5. \A i : i \in Calls(q) <=> i \in 1..b /\ q[i].kind = "calls"
    BY CallsAre DEF b
  <1>6. ASSUME NEW i \in Calls(p), i \notin 1..b
        PROVE  i = b + 1 /\ p[i] = f[1] /\ n > 0 /\ f[1].kind = "calls"
    <2>1. i \in 1..(b + n) /\ p[i].kind = "calls"
      BY <1>4
    <2>2. i - b \in 1..n /\ n > 0 /\ p[i] = f[i - b] /\ 1 \in 1..n
      BY <1>1, <1>2, <1>6, <2>1
    <2>3. i - b = 1
      <3> SUFFICES ASSUME i - b # 1 PROVE FALSE
        OBVIOUS
      <3>1. n # 1
        BY <1>1, <1>6, <2>2
      <3>2. f[1].kind = "calls" /\ n = 1 + Len(f[1].ids)
        BY <2>2, <3>1 DEF Exchange, n
      <3> DEFINE m == Len(f[1].ids)
      <3>3. m \in Nat
        BY <1>1, <2>2, ConvMember
      <3> HIDE DEF m
      <3>4. (i - b) - 1 \in 1..m /\ 1 + ((i - b) - 1) = i - b
        <4>1. n = 1 + m
          BY <3>2 DEF m
        <4>2. i \in Int /\ b \in Nat
          BY <1>1, <2>1
        <4> QED
          BY <2>2, <3>3, <4>1, <4>2
      <3>5. \A k \in 1..m : f[1 + k].kind = "result"
        BY <2>2, <3>2 DEF Exchange, n, m
      <3>6. f[1 + ((i - b) - 1)].kind = "result"
        BY <3>4, <3>5
      <3> QED
        BY <2>1, <2>2, <3>4, <3>6
    <2>4. i = b + 1
      BY <1>1, <2>1, <2>3
    <2> QED
      BY <2>1, <2>2, <2>3, <2>4
  <1>7. ASSUME NEW i \in Calls(p)
        PROVE  \/ i # b + 1 /\ i \in Calls(q) /\ p[i] = q[i] /\ IsInjective(p[i].ids) /\ ToSet(p[i].ids) \subseteq A
               \/ i = b + 1 /\ IsInjective(p[i].ids) /\ ToSet(p[i].ids) \subseteq B
    <2>1. CASE i \in 1..b
      <3>1. i \in Calls(q) /\ p[i] = q[i]
        BY <1>3, <1>4, <1>5, <2>1
      <3>2. i # b + 1
        BY <1>1, <2>1
      <3> QED
        BY <3>1, <3>2 DEF Distinct
    <2>2. CASE i \notin 1..b
      BY <1>6, <2>2 DEF n
    <2> QED
      BY <2>1, <2>2
  <1>8. ASSUME NEW i \in Calls(p), NEW j \in Calls(p), i # j
        PROVE  ToSet(p[i].ids) \cap ToSet(p[j].ids) = {}
    <2>1. CASE i \in Calls(q) /\ p[i] = q[i] /\ j \in Calls(q) /\ p[j] = q[j]
      BY <1>8, <2>1 DEF Distinct
    <2>2. CASE i = b + 1 /\ j # b + 1
      <3>1. ToSet(p[i].ids) \subseteq B /\ ToSet(p[j].ids) \subseteq A
        BY <1>7, <2>2
      <3> QED
        BY <3>1
    <2>3. CASE j = b + 1 /\ i # b + 1
      <3>1. ToSet(p[j].ids) \subseteq B /\ ToSet(p[i].ids) \subseteq A
        BY <1>7, <2>3
      <3> QED
        BY <3>1
    <2>4. CASE i # b + 1 /\ j # b + 1
      BY <1>7, <2>1, <2>4
    <2> QED
      BY <1>8, <2>2, <2>3, <2>4
  <1>9. \A h \in Calls(p) : IsInjective(p[h].ids) /\ ToSet(p[h].ids) \subseteq A \cup B
    BY <1>7
  <1>10. Distinct(p)
    BY <1>8, <1>9 DEF Distinct
  <1> QED
    BY <1>9, <1>10 DEF p

LEMMA FixedDistinct ==
    ASSUME NEW ms \in Conv, NEW i \in DOMAIN ms, Distinct(ms),
           Len(Fixed(ms, i)) > 0, Fixed(ms, i)[1].kind = "calls"
    PROVE  /\ i \in Calls(ms) /\ IsInjective(Fixed(ms, i)[1].ids)
           /\ ToSet(Fixed(ms, i)[1].ids) \subseteq ToSet(ms[i].ids)
  <1> DEFINE a == Answered(ms, i)
             r == TheirResults(ms, i)
             f == Fixed(ms, i)
  <1>1. ms[i] \in Msg /\ ms[i].ids \in Seq(Nat)
    BY ConvMember
  <1>2. a \in Seq(Nat)
    BY AnsweredType
  <1>3. ms[i].kind = "calls" /\ a # <<>>
    <2>1. CASE f = <<>>
      BY <2>1
    <2>2. CASE f = <<ms[i]>> /\ ms[i].kind \notin {"result", "calls"}
      <3>1. f[1] = ms[i]
        BY <2>2
      <3> QED
        BY <2>2, <3>1
    <2> QED
      BY <2>1, <2>2, FixedIs
  <1>4. i \in Calls(ms)
    BY <1>3 DEF Calls
  <1>5. f = <<[ms[i] EXCEPT !.ids = a]>> \o r
    BY <1>3, FixedIs
  <1>6. f[1].ids = a
    <2> DEFINE c == [ms[i] EXCEPT !.ids = a]
    <2>1. c.ids = a
      <3> HIDE DEF a
      <3> QED
        BY <1>1 DEF Msg
    <2>2. c \in {c}
      OBVIOUS
    <2>3. f \in Seq(Good) /\ f \in Conv
      BY FixedType DEF Conv
    <2>4. (<<c>> \o r)[1] = c
      <3>1. r = [k \in DOMAIN a |-> ResultOf(ms, i, a[k])]
        BY DEF TheirResults
      <3>2. Len(a) \in Nat /\ DOMAIN a = 1..Len(a)
        BY AnsweredType
      <3> HIDE DEF a, c
      <3> DEFINE X == {ResultOf(ms, i, a[k]) : k \in DOMAIN a} \cup {c}
      <3>3. r \in Seq(X)
        <4>1. \A k \in 1..Len(a) : ResultOf(ms, i, a[k]) \in X
          BY <3>2
        <4> HIDE DEF X
        <4> QED
          BY <3>1, <3>2, <4>1
      <3>4. <<c>> \in Seq(X) /\ Len(<<c>>) = 1 /\ <<c>>[1] = c
        <4>1. c \in X
          OBVIOUS
        <4> HIDE DEF X
        <4> QED
          BY <4>1, OneIsSeq
      <3> HIDE DEF r, X
      <3>5. \A k \in 1..(Len(<<c>>) + Len(r)) :
               (<<c>> \o r)[k] = IF k <= Len(<<c>>) THEN <<c>>[k] ELSE r[k - Len(<<c>>)]
        BY <3>3, <3>4, ConcatProperties
      <3>6. 1 \in 1..(Len(<<c>>) + Len(r)) /\ 1 <= Len(<<c>>)
        BY <3>3, <3>4
      <3> QED
        BY <3>4, <3>5, <3>6
    <2> QED
      BY <1>5, <2>1, <2>4
  <1>7. IsInjective(ms[i].ids)
    BY <1>4 DEF Distinct
  <1>8. IsInjective(a) /\ ToSet(a) \subseteq ToSet(ms[i].ids)
    BY <1>1, <1>7, WithinInjective DEF Answered
  <1> QED
    BY <1>4, <1>6, <1>8

(* Whatever stood in a conversation whose ids are all different, where repair *)
(* reports a fault what it returns is valid: no result without its call, and  *)
(* behind every call its results in its order (repairMessageHistory,          *)
(* validateMessageHistory).                                                   *)
THEOREM RepairIsValid ==
    ASSUME NEW ms \in Conv, Distinct(ms), Repaired(ms)
    PROVE  Valid(Repair(ms))
  <1> DEFINE b == Len(ms)
             ss == [i \in DOMAIN ms |-> Fixed(ms, i)]
             Ids(n) == UNION {ToSet(ms[i].ids) : i \in Calls(ms) \cap (1..n)}
             K == [n \in 0..b |-> {q \in Conv : /\ InOrder(q) /\ Distinct(q)
                                                /\ \A h \in Calls(q) : ToSet(q[h].ids) \subseteq Ids(n)}]
  <1>1. b \in Nat /\ DOMAIN ms = 1..b
    BY OpenIs
  <1>2. ss \in Seq(Seq(Good)) /\ Len(ss) = b /\ (\A i \in 1..b : ss[i] = Fixed(ms, i))
    BY <1>1, FixedsType
  <1>3. Repair(ms) = FlattenSeq(ss)
    BY DEF Repair
  <1>4. \A n \in 0..b : K[n] = {q \in Conv : /\ InOrder(q) /\ Distinct(q)
                                             /\ \A h \in Calls(q) : ToSet(q[h].ids) \subseteq Ids(n)}
    OBVIOUS
  <1> HIDE DEF ss, b, K
  <1>5. <<>> \in K[0]
    <2>1. DOMAIN <<>> = {}
      OBVIOUS
    <2>2. Calls(<<>>) = {}
      BY <2>1 DEF Calls
    <2>3. <<>> \in Conv /\ InOrder(<<>>) /\ Distinct(<<>>)
      BY <2>1, <2>2, EmptyType DEF InOrder, Distinct
    <2>4. 0 \in 0..b
      BY <1>1
    <2> QED
      BY <1>4, <2>2, <2>3, <2>4
  <1>6. ASSUME NEW n \in 0..(Len(ss) - 1), NEW q \in Seq(Good), q \in K[n]
        PROVE  q \o ss[n + 1] \in K[n + 1]
    <2> DEFINE f == Fixed(ms, n + 1)
               A == Ids(n)
               B == IF n + 1 \in Calls(ms) THEN ToSet(ms[n + 1].ids) ELSE {}
    <2>1. n \in 0..b /\ n + 1 \in 0..b /\ n + 1 \in 1..b /\ n \in Nat
      BY <1>1, <1>2
    <2>2. q \in Conv /\ InOrder(q) /\ Distinct(q) /\ \A h \in Calls(q) : ToSet(q[h].ids) \subseteq A
      BY <1>4, <1>6, <2>1
    <2>3. n + 1 \in DOMAIN ms /\ ss[n + 1] = f
      BY <1>1, <1>2, <2>1
    <2>4. f \in Conv /\ Exchange(f)
      BY <2>3, FixedType, FixedExchange
    <2>5. Len(f) > 0 /\ f[1].kind = "calls" => IsInjective(f[1].ids) /\ ToSet(f[1].ids) \subseteq B
      BY <2>3, FixedDistinct
    <2>6. A \cap B = {}
      <3>1. \A i \in Calls(ms) \cap (1..n) : i # n + 1
        BY <2>1
      <3> QED
        BY <3>1 DEF Distinct
    <2>7. A \cup B \subseteq Ids(n + 1)
      <3>1. 1..n \subseteq 1..(n + 1) /\ n + 1 \in 1..(n + 1)
        BY <2>1
      <3> QED
        BY <3>1
    <2> HIDE DEF f, A, B, Ids
    <2>8. q \o f \in Conv /\ InOrder(q \o f)
      BY <2>2, <2>4, ExchangeJoins DEF Conv
    <2>9. /\ Distinct(q \o f)
          /\ \A h \in Calls(q \o f) : ToSet((q \o f)[h].ids) \subseteq A \cup B
      BY <2>2, <2>4, <2>5, <2>6, DistinctJoins
    <2> DEFINE p == q \o f
    <2>10. p \in Conv /\ InOrder(p) /\ Distinct(p) /\ \A h \in Calls(p) : ToSet(p[h].ids) \subseteq Ids(n + 1)
      BY <2>7, <2>8, <2>9
    <2> HIDE DEF p
    <2>11. p \in K[n + 1]
      BY <1>4, <2>1, <2>10
    <2> QED
      BY <2>3, <2>11 DEF p
  <1>7. FlattenSeq(ss) \in K[Len(ss)]
    BY <1>2, <1>5, <1>6, FlattenInduction
  <1>8. b \in 0..b
    BY <1>1
  <1>9. Repair(ms) \in Conv /\ InOrder(Repair(ms)) /\ Distinct(Repair(ms))
    BY <1>2, <1>3, <1>4, <1>7, <1>8
  <1> QED
    BY <1>9, OrderAnswered DEF Valid, Distinct

-------------------------------------------------------------------------------
(* What a conversation accounts for: the numbers in it and in its summaries.  *)

LEMMA NumbersEmpty == Numbers(<<>>) = {} /\ Paired(<<>>) /\ ~Open(<<>>) /\ <<>> \in Conv
  <1>1. DOMAIN <<>> = {}
    OBVIOUS
  <1>2. Numbers(<<>>) = {}
    BY <1>1, InNumbers
  <1>3. Paired(<<>>)
    BY <1>1 DEF Paired, Calls
  <1> QED
    BY <1>2, <1>3, EmptyType DEF Open

LEMMA NumbersAppend ==
    ASSUME NEW ms \in Conv, NEW kind, NEW ids, NEW n \in Nat, n > 0,
           Message(kind, ids, n) \in Good
    PROVE  Numbers(Append(ms, Message(kind, ids, n))) = Numbers(ms) \cup {n}
  <1> DEFINE m == Message(kind, ids, n)
             q == Append(ms, m)
             b == Len(ms)
  <1>1. /\ q \in Conv /\ Len(q) = b + 1 /\ b \in Nat /\ q[b + 1] = m
        /\ \A i \in 1..b : q[i] = ms[i]
    BY AppendType
  <1>2. m.n = n /\ m.covers = {}
    BY DEF Message
  <1> HIDE DEF m, q, b
  <1>3. DOMAIN q = 1..(b + 1) /\ DOMAIN ms = 1..b
    BY <1>1, OpenIs DEF b
  <1>4. ASSUME NEW x, x \in Numbers(q) PROVE x \in Numbers(ms) \cup {n}
    <2>1. x # 0
      BY <1>4, InNumbers
    <2>2. PICK i \in 1..(b + 1) : x = q[i].n \/ x \in q[i].covers
      BY <1>3, <1>4, InNumbers
    <2>3. CASE i \in 1..b
      BY <1>1, <1>3, <2>1, <2>2, <2>3, InNumbers
    <2>4. CASE i = b + 1
      BY <1>1, <1>2, <2>2, <2>4
    <2> QED
      BY <1>1, <2>3, <2>4
  <1>5. ASSUME NEW x, x \in Numbers(ms) PROVE x \in Numbers(q)
    <2>1. x # 0
      BY <1>5, InNumbers
    <2>2. PICK i \in 1..b : x = ms[i].n \/ x \in ms[i].covers
      BY <1>3, <1>5, InNumbers
    <2>3. i \in 1..(b + 1)
      BY <1>1
    <2> QED
      BY <1>1, <1>3, <2>1, <2>2, <2>3, InNumbers
  <1>6. n \in Numbers(q)
    <2>1. n # 0
      OBVIOUS
    <2>2. b + 1 \in 1..(b + 1)
      BY <1>1
    <2> QED
      BY <1>1, <1>2, <1>3, <2>1, <2>2, InNumbers
  <1> QED
    BY <1>4, <1>5, <1>6 DEF q, m

(* Messages that carry the same numbers have the same.                        *)
LEMMA NumbersTrimmed ==
    ASSUME NEW ms \in Conv, NEW cuts
    PROVE  Numbers(Trimmed(ms, cuts)) = Numbers(ms)
  <1> DEFINE q == Trimmed(ms, cuts)
  <1>1. DOMAIN q = DOMAIN ms /\ \A i \in DOMAIN ms : q[i].n = ms[i].n /\ q[i].covers = ms[i].covers
    BY TrimmedIs
  <1> HIDE DEF q
  <1>2. ASSUME NEW x PROVE x \in Numbers(q) <=> x \in Numbers(ms)
    <2>1. (\E i \in DOMAIN q : x = q[i].n \/ x \in q[i].covers)
          <=> (\E i \in DOMAIN ms : x = ms[i].n \/ x \in ms[i].covers)
      BY <1>1
    <2> QED
      BY <2>1, InNumbers
  <1>3. Numbers(q) = Numbers(ms)
    BY <1>2
  <1> QED
    BY <1>3 DEF q

LEMMA HeadIs ==
    ASSUME NEW ms \in Conv, NEW n \in 0..Len(ms)
    PROVE  /\ SubSeq(ms, 1, n) \in Conv /\ DOMAIN SubSeq(ms, 1, n) = 1..n
           /\ Len(SubSeq(ms, 1, n)) = n
           /\ \A i \in 1..n : SubSeq(ms, 1, n)[i] = ms[i]
  <1> DEFINE q == SubSeq(ms, 1, n)
  <1>1. n \in Nat /\ Len(ms) \in Nat
    BY OpenIs
  <1>2. 1 \in 1..(Len(ms) + 1)
    BY <1>1
  <1>3. /\ q \in Conv /\ Len(q) = IF 1 <= n THEN n - 1 + 1 ELSE 0
        /\ \A i \in 1..(n - 1 + 1) : q[i] = ms[1 + i - 1]
    BY <1>2, PieceType
  <1> HIDE DEF q
  <1>4. q \in Conv /\ Len(q) = n /\ \A i \in 1..n : q[i] = ms[i]
    BY <1>1, <1>3
  <1>5. DOMAIN q = 1..n
    BY <1>4, OpenIs
  <1> QED
    BY <1>4, <1>5 DEF q

LEMMA NumbersHead ==
    ASSUME NEW ms \in Conv, NEW n \in 0..Len(ms)
    PROVE  Numbers(SubSeq(ms, 1, n)) \subseteq Numbers(ms)
  <1> DEFINE q == SubSeq(ms, 1, n)
  <1>1. DOMAIN q = 1..n /\ \A i \in 1..n : q[i] = ms[i]
    BY HeadIs
  <1>2. DOMAIN ms = 1..Len(ms) /\ Len(ms) \in Nat
    BY OpenIs
  <1> HIDE DEF q
  <1>3. \A i \in 1..n : i \in DOMAIN ms
    BY <1>2
  <1>4. ASSUME NEW x, x \in Numbers(q) PROVE x \in Numbers(ms)
    BY <1>1, <1>3, <1>4, InNumbers
  <1> QED
    BY <1>4 DEF q

LEMMA NumbersDropped ==
    ASSUME NEW ms \in Conv, Len(ms) > 0, ms[Len(ms)].covers = {}
    PROVE  Numbers(ms) \subseteq Numbers(SubSeq(ms, 1, Len(ms) - 1)) \cup {ms[Len(ms)].n}
  <1> DEFINE b == Len(ms)
             n == b - 1
             q == SubSeq(ms, 1, n)
  <1>1. DOMAIN ms = 1..b /\ b \in Nat /\ b > 0
    BY OpenIs
  <1>2. n \in 0..b /\ \A i \in 1..b : i \in 1..n \/ i = b
    <2> HIDE DEF b
    <2> QED
      BY <1>1
  <1>3. DOMAIN q = 1..n /\ \A i \in 1..n : q[i] = ms[i]
    BY <1>2, HeadIs
  <1> HIDE DEF q, n
  <1>4. ASSUME NEW x, x \in Numbers(ms) PROVE x \in Numbers(q) \cup {ms[b].n}
    <2>1. x # 0
      BY <1>4, InNumbers
    <2>2. PICK i \in 1..b : x = ms[i].n \/ x \in ms[i].covers
      BY <1>1, <1>4, InNumbers
    <2>3. CASE i \in 1..n
      BY <1>3, <2>1, <2>2, <2>3, InNumbers
    <2>4. CASE i = b
      BY <2>2, <2>4
    <2> QED
      BY <1>2, <2>3, <2>4
  <1> QED
    BY <1>4 DEF q, n

(* The summary stands for what it covers.                                     *)
LEMMA NumbersCondensed ==
    ASSUME NEW j \in Job, j.busy, j.taken \in 0..Len(j.from),
           j.covers = Numbers(SubSeq(j.from, 1, j.taken))
    PROVE  Numbers(Condensed(j)) = Numbers(j.from)
  <1> DEFINE q == Condensed(j)
             ms == j.from
             a == j.taken
             b == Len(ms)
             h == SubSeq(ms, 1, a)
  <1>1. ms \in Conv /\ b \in Nat /\ DOMAIN ms = 1..b /\ a \in Nat /\ a <= b
    BY OpenIs DEF Job
  <1>2. /\ q \in Conv /\ Len(q) = 2 + (b - a) /\ q[1].n = 0 /\ q[1].covers = Numbers(h)
        /\ q[2].n = 0 /\ q[2].covers = {}
        /\ \A i \in 1..(b - a) : q[2 + i] = ms[a + i]
    BY CondensedIs
  <1>3. DOMAIN h = 1..a /\ \A i \in 1..a : h[i] = ms[i]
    BY <1>1, HeadIs
  <1>4. Numbers(h) \subseteq Numbers(ms)
    BY <1>1, NumbersHead
  <1> HIDE DEF q, ms, a, b, h
  <1>5. DOMAIN q = 1..(2 + (b - a))
    BY <1>2, OpenIs
  <1>6. ASSUME NEW x, x \in Numbers(q) PROVE x \in Numbers(ms)
    <2>1. x # 0
      BY <1>6, InNumbers
    <2>2. PICK i \in 1..(2 + (b - a)) : x = q[i].n \/ x \in q[i].covers
      BY <1>5, <1>6, InNumbers
    <2>3. CASE i = 1
      BY <1>2, <1>4, <2>1, <2>2, <2>3
    <2>4. CASE i = 2
      BY <1>2, <2>1, <2>2, <2>4
    <2>5. CASE i # 1 /\ i # 2
      <3>1. i - 2 \in 1..(b - a) /\ 2 + (i - 2) = i /\ a + (i - 2) \in 1..b
        BY <1>1, <2>5
      <3>2. q[i] = ms[a + (i - 2)]
        BY <1>2, <3>1
      <3> QED
        BY <1>1, <2>1, <2>2, <3>1, <3>2, InNumbers
    <2> QED
      BY <2>3, <2>4, <2>5
  <1>7. ASSUME NEW x, x \in Numbers(ms) PROVE x \in Numbers(q)
    <2>1. x # 0
      BY <1>7, InNumbers
    <2>2. PICK i \in 1..b : x = ms[i].n \/ x \in ms[i].covers
      BY <1>1, <1>7, InNumbers
    <2>3. CASE i <= a
      <3>1. i \in 1..a
        BY <1>1, <2>3
      <3>2. x \in Numbers(h)
        BY <1>3, <2>1, <2>2, <3>1, InNumbers
      <3>3. 1 \in 1..(2 + (b - a))
        BY <1>1
      <3> QED
        BY <1>2, <1>5, <2>1, <3>2, <3>3, InNumbers
    <2>4. CASE ~(i <= a)
      <3>1. i - a \in 1..(b - a) /\ a + (i - a) = i /\ 2 + (i - a) \in 1..(2 + (b - a))
        BY <1>1, <2>4
      <3>2. q[2 + (i - a)] = ms[i]
        BY <1>2, <3>1
      <3> QED
        BY <1>5, <2>1, <2>2, <3>1, <3>2, InNumbers
    <2> QED
      BY <2>3, <2>4
  <1>8. Numbers(q) = Numbers(ms)
    BY <1>6, <1>7
  <1> QED
    BY <1>8 DEF q, ms

LEMMA NumbersServed ==
    ASSUME NEW ms \in Conv, Paired(ms), Open(ms), ms[Len(ms)].ids = batch,
           batch \in Seq(Nat), last \in Nat, last + Len(batch) <= MaxMessages
    PROVE  Numbers(ms \o Served) = Numbers(ms) \cup ((last + 1)..(last + Len(batch)))
  <1> DEFINE q == ms \o Served
             b == Len(ms)
             k == Len(batch)
  <1>1. b \in Nat /\ DOMAIN ms = 1..b /\ k \in Nat
    BY OpenIs
  <1>2. /\ q \in Conv /\ Len(q) = b + k /\ (\A i \in 1..b : q[i] = ms[i])
        /\ \A c \in 1..k : q[b + c] = Message("result", <<batch[c]>>, last + c)
    BY ServedPaired
  <1> HIDE DEF q, b, k
  <1>3. DOMAIN q = 1..(b + k)
    BY <1>2, OpenIs
  <1>4. \A c \in 1..k : q[b + c].n = last + c /\ q[b + c].covers = {}
    <2> TAKE c \in 1..k
    <2>1. q[b + c] = Message("result", <<batch[c]>>, last + c)
      BY <1>2
    <2> QED
      BY <2>1 DEF Message
  <1>5. ASSUME NEW x, x \in Numbers(q) PROVE x \in Numbers(ms) \cup ((last + 1)..(last + k))
    <2>1. x # 0
      BY <1>5, InNumbers
    <2>2. PICK i \in 1..(b + k) : x = q[i].n \/ x \in q[i].covers
      BY <1>3, <1>5, InNumbers
    <2>3. CASE i \in 1..b
      BY <1>1, <1>2, <2>1, <2>2, <2>3, InNumbers
    <2>4. CASE i \notin 1..b
      <3>1. i - b \in 1..k /\ b + (i - b) = i
        BY <1>1, <2>4
      <3>2. x = last + (i - b)
        BY <1>4, <2>2, <3>1
      <3>3. last + (i - b) \in (last + 1)..(last + k)
        BY <1>1, <3>1
      <3> QED
        BY <3>2, <3>3
    <2> QED
      BY <2>3, <2>4
  <1>6. ASSUME NEW x, x \in Numbers(ms) PROVE x \in Numbers(q)
    <2>1. x # 0
      BY <1>6, InNumbers
    <2>2. PICK i \in 1..b : x = ms[i].n \/ x \in ms[i].covers
      BY <1>1, <1>6, InNumbers
    <2>3. i \in 1..(b + k)
      BY <1>1
    <2> QED
      BY <1>2, <1>3, <2>1, <2>2, <2>3, InNumbers
  <1>7. ASSUME NEW x \in (last + 1)..(last + k) PROVE x \in Numbers(q)
    <2>1. x # 0 /\ x - last \in 1..k /\ last + (x - last) = x /\ b + (x - last) \in 1..(b + k)
      BY <1>1
    <2>2. q[b + (x - last)].n = x
      BY <1>4, <2>1
    <2> QED
      BY <1>3, <2>1, <2>2, InNumbers
  <1>8. Numbers(q) = Numbers(ms) \cup ((last + 1)..(last + k))
    BY <1>5, <1>6, <1>7
  <1> QED
    BY <1>8 DEF q, k

-------------------------------------------------------------------------------
(* The invariant: what is kept aside for later, by a compression, an undo or  *)
(* a background summary, is in order, and as good as the conversation unless  *)
(* something was said since.                                                  *)

(* A holds the latest message, itself or in a summary: nothing was appended   *)
(* since A was the conversation.                                              *)
Now(A, top) == top \in Numbers(A) \cup {0}

(* For what was said, and for the exchange that runs, A is as good as ms.     *)
Alike(A, ms) ==
    /\ Numbers(A) = Numbers(ms)
    /\ Open(A) <=> Open(ms)
    /\ Open(A) => A[Len(A)] = ms[Len(ms)]

(* A is in order, and may take the place of ms while nothing newer was said.  *)
Fine(A, ms, top) ==
    /\ Paired(A) /\ Numbers(A) \subseteq 1..top
    /\ Now(A, top) => Alike(A, ms)

(* Undo, where it can be given, puts back all there is.                       *)
Back(snap, top) == snap # <<>> => Now(snap, top)

JobOK(j, snap, top) ==
    j.busy => /\ Splits(j.from, j.taken)
              /\ j.covers = Numbers(SubSeq(j.from, 1, j.taken))
              /\ j.fresh /\ Now(j.from, top) => Back(snap, top)

HeldOK ==
    /\ Fine(messages, messages, last) /\ Fine(left, messages, last)
    /\ Fine(snapshot, messages, last)
    /\ Fine(job.from, messages, last) /\ Fine(command.from, messages, last)
WorkOK ==
    /\ JobOK(job, snapshot, last) /\ JobOK(command, snapshot, last)
    /\ Now(left, last) => Back(snapshot, last)
    /\ prefetch.busy => Paired(prefetch.prefix) /\ ~Open(prefetch.prefix)
SaidOK ==
    /\ Now(messages, last) /\ said \subseteq Numbers(messages)
    /\ Open(messages) => /\ messages[Len(messages)].n \notin said
                         /\ messages[Len(messages)].covers = {}
PhaseOK ==
    /\ at \in {"ready", "shrinking", "compressing", "model"} => ~Open(messages)
    /\ at = "tools" => Open(messages) /\ messages[Len(messages)].ids = batch
Sound == HeldOK /\ WorkOK /\ SaidOK /\ PhaseOK

(* A compression, an elision or an undo that puts messages back over newer    *)
(* ones voids all of this, and nothing is claimed then.                       *)
TalkInv == ~crossed => Sound

LEMMA GrowFine ==
    ASSUME NEW A, NEW ms, NEW top \in Nat, Fine(A, ms, top), NEW ms2, NEW top2 \in Nat, top2 > top
    PROVE  Fine(A, ms2, top2) /\ ~Now(A, top2)
  <1>1. Numbers(A) \subseteq 1..top
    BY DEF Fine
  <1>2. top2 \notin 1..top /\ top2 # 0
    OBVIOUS
  <1>3. ~Now(A, top2)
    BY <1>1, <1>2 DEF Now
  <1>4. Numbers(A) \subseteq 1..top2
    BY <1>1
  <1> QED
    BY <1>3, <1>4 DEF Fine

LEMMA KeepFine ==
    ASSUME NEW A, NEW ms, NEW ms2, NEW top, Fine(A, ms, top), Alike(ms, ms2)
    PROVE  Fine(A, ms2, top)
  BY DEF Fine, Alike

LEMMA SelfFine ==
    ASSUME NEW A, Paired(A), NEW top, Numbers(A) \subseteq 1..top
    PROVE  Fine(A, A, top) /\ Alike(A, A)
  BY DEF Fine, Alike

LEMMA EmptyFine ==
    ASSUME NEW ms \in Conv, NEW top, Fine(ms, ms, top)
    PROVE  Fine(<<>>, ms, top)
  <1>1. Numbers(<<>>) = {} /\ Paired(<<>>) /\ ~Open(<<>>)
    BY NumbersEmpty
  <1>2. ASSUME top = 0 PROVE Numbers(ms) = {} /\ ~Open(ms)
    <2>1. Numbers(ms) = {}
      BY <1>2 DEF Fine
    <2>2. ASSUME Open(ms) PROVE FALSE
      <3>1. Len(ms) \in Calls(ms) /\ Len(ms) \in DOMAIN ms
        BY <2>2, OpenIs, CallsAre
      <3>2. ms[Len(ms)].n > 0 /\ ms[Len(ms)].n \in 0..MaxMessages
        BY <3>1, ConvMember DEF Fine, Paired
      <3>3. ms[Len(ms)].n # 0
        BY <3>2
      <3>4. ms[Len(ms)].n \in Numbers(ms)
        BY <3>1, <3>3, InNumbers
      <3> QED
        BY <2>1, <3>4
    <2> QED
      BY <2>1, <2>2
  <1> QED
    BY <1>1, <1>2 DEF Fine, Now, Alike

(* What repair leaves of the conversation a turn begins or sends with.        *)
LEMMA RepairSound ==
    ASSUME TypeInv, Sound
    PROVE  /\ Repair(messages) \in Conv /\ Paired(Repair(messages)) /\ ~Open(Repair(messages))
           /\ Numbers(Repair(messages)) \subseteq 1..last
           /\ said \subseteq Numbers(Repair(messages))
           /\ ~Open(messages) => Repair(messages) = messages
  <1> DEFINE ms == messages
  <1>1. ms \in Conv /\ Paired(ms) /\ Numbers(ms) \subseteq 1..last /\ said \subseteq Numbers(ms)
        /\ (Open(ms) => ms[Len(ms)].n \notin said /\ ms[Len(ms)].covers = {})
    BY DEF TypeInv, TalkOK, Sound, HeldOK, SaidOK, Fine
  <1> HIDE DEF ms
  <1>2. CASE Open(ms)
    <2>1. Repair(ms) = SubSeq(ms, 1, Len(ms) - 1)
      BY <1>1, <1>2, RepairDropsOpenCall
    <2>2. Splits(ms, Len(ms) - 1) /\ Len(ms) > 0
      BY <1>1, <1>2, OpenSplits
    <2>3. Repair(ms) \in Conv /\ Paired(Repair(ms)) /\ ~Open(Repair(ms))
      BY <1>1, <2>1, <2>2, HeadPaired
    <2>4. Numbers(Repair(ms)) \subseteq Numbers(ms)
      BY <1>1, <2>1, <2>2, NumbersHead DEF Splits
    <2>5. Numbers(ms) \subseteq Numbers(Repair(ms)) \cup {ms[Len(ms)].n}
      BY <1>1, <1>2, <2>1, <2>2, NumbersDropped
    <2> QED
      BY <1>1, <1>2, <2>3, <2>4, <2>5 DEF ms
  <1>3. CASE ~Open(ms)
    <2>1. Repair(ms) = ms
      BY <1>1, <1>3, OrderedIsValid
    <2> QED
      BY <1>1, <1>3, <2>1 DEF ms
  <1> QED
    BY <1>2, <1>3

(* After a message more, nothing kept from before it is up to date.           *)
LEMMA Grown ==
    ASSUME TypeInv, Sound, Paired(messages'), Numbers(messages') \subseteq 1..last',
           last' \in Nat, last' > last, last' \in Numbers(messages'),
           UNCHANGED <<left, snapshot, job, command>>,
           prefetch'.busy = prefetch.busy, prefetch'.prefix = prefetch.prefix
    PROVE  HeldOK' /\ WorkOK' /\ Now(messages', last')
  <1>1. last \in Nat
    BY DEF TypeInv, NumberOK
  <1>2. /\ Fine(left, messages', last') /\ ~Now(left, last')
        /\ Fine(snapshot, messages', last') /\ ~Now(snapshot, last')
        /\ Fine(job.from, messages', last') /\ ~Now(job.from, last')
        /\ Fine(command.from, messages', last') /\ ~Now(command.from, last')
    BY <1>1, GrowFine DEF Sound, HeldOK
  <1>3. Fine(messages', messages', last')
    BY SelfFine
  <1>4. HeldOK'
    BY <1>2, <1>3 DEF HeldOK
  <1>5. JobOK(job, snapshot, last') /\ JobOK(command, snapshot, last')
    BY <1>2 DEF Sound, WorkOK, JobOK
  <1>6. WorkOK'
    BY <1>2, <1>5 DEF Sound, WorkOK
  <1> QED
    BY <1>4, <1>6 DEF Now

LEMMA SoundInit == Init => Sound
  <1> SUFFICES ASSUME Init PROVE Sound
    OBVIOUS
  <1>1. Numbers(<<>>) = {} /\ Paired(<<>>) /\ ~Open(<<>>)
    BY NumbersEmpty
  <1>2. Fine(<<>>, <<>>, 0)
    BY <1>1, SelfFine
  <1>3. HeldOK
    BY <1>2 DEF Init, HeldOK, NoJob
  <1>4. WorkOK
    BY DEF Init, WorkOK, JobOK, NoJob, NoPrefetch, Back
  <1>5. SaidOK
    BY <1>1 DEF Init, SaidOK, Now
  <1>6. PhaseOK
    BY DEF Init, PhaseOK
  <1> QED
    BY <1>3, <1>4, <1>5, <1>6 DEF Sound

LEMMA PromptSound ==
    ASSUME TypeInv, Sound, Prompt
    PROVE  Sound'
  <1> DEFINE r == Repair(messages)
             m == Message("user", <<>>, last')
  <1>1. /\ r \in Conv /\ Paired(r) /\ ~Open(r) /\ Numbers(r) \subseteq 1..last
        /\ said \subseteq Numbers(r)
    BY RepairSound
  <1>2. last \in Nat /\ last' = last + 1 /\ last' \in 0..MaxMessages
    BY TranscriptAssumption DEF Prompt, Room, TypeInv, NumberOK
  <1>3. m \in Good /\ m.kind = "user"
    BY <1>2, MessageType DEF Message
  <1>4. messages' = Append(r, m)
    BY DEF Prompt
  <1>5. Numbers(messages') = Numbers(r) \cup {last'}
    BY <1>1, <1>2, <1>3, <1>4, NumbersAppend
  <1> HIDE DEF r, m
  <1>6. Paired(messages') /\ ~Open(messages')
    BY <1>1, <1>3, <1>4, AppendPaired
  <1>7. last' \in Nat /\ last' > last /\ 1..last \subseteq 1..last' /\ last' \in 1..last'
    BY <1>2
  <1>8. prefetch'.busy = prefetch.busy /\ prefetch'.prefix = prefetch.prefix
    BY AgedIs DEF Prompt, TypeInv, JobsOK
  <1>9. UNCHANGED <<left, snapshot, job, command>>
    BY DEF Prompt
  <1>10. HeldOK' /\ WorkOK' /\ Now(messages', last')
    BY <1>1, <1>5, <1>6, <1>7, <1>8, <1>9, Grown
  <1>11. SaidOK'
    BY <1>1, <1>5, <1>6, <1>10 DEF Prompt, SaidOK
  <1>12. PhaseOK'
    BY <1>6 DEF Prompt, PhaseOK
  <1> QED
    BY <1>10, <1>11, <1>12 DEF Sound

LEMMA AnswerTextSound ==
    ASSUME TypeInv, Sound, AnswerText
    PROVE  Sound'
  <1> DEFINE m == Message("text", <<>>, last')
  <1>1. /\ messages \in Conv /\ Paired(messages) /\ ~Open(messages)
        /\ Numbers(messages) \subseteq 1..last /\ said \subseteq Numbers(messages)
    BY DEF AnswerText, TypeInv, TalkOK, Sound, HeldOK, Fine, SaidOK, PhaseOK
  <1>2. last \in Nat /\ last' = last + 1 /\ last' \in 0..MaxMessages
    BY TranscriptAssumption DEF AnswerText, Room, TypeInv, NumberOK
  <1>3. m \in Good /\ m.kind = "text"
    BY <1>2, MessageType DEF Message
  <1>4. messages' = Append(messages, m)
    BY DEF AnswerText
  <1>5. Numbers(messages') = Numbers(messages) \cup {last'}
    BY <1>1, <1>2, <1>3, <1>4, NumbersAppend
  <1> HIDE DEF m
  <1>6. Paired(messages') /\ ~Open(messages')
    BY <1>1, <1>3, <1>4, AppendPaired
  <1>7. last' \in Nat /\ last' > last /\ 1..last \subseteq 1..last' /\ last' \in 1..last'
    BY <1>2
  <1>9. UNCHANGED <<left, snapshot, job, command, prefetch>>
    BY DEF AnswerText
  <1>10. HeldOK' /\ WorkOK' /\ Now(messages', last')
    BY <1>1, <1>5, <1>6, <1>7, <1>9, Grown
  <1>11. SaidOK'
    BY <1>1, <1>5, <1>6, <1>10 DEF AnswerText, SaidOK
  <1>12. PhaseOK'
    BY <1>6 DEF AnswerText, PhaseOK
  <1> QED
    BY <1>10, <1>11, <1>12 DEF Sound

LEMMA AnswerCallsSound ==
    ASSUME TypeInv, Sound, AnswerCalls
    PROVE  Sound'
  <1>1. /\ messages \in Conv /\ Paired(messages) /\ ~Open(messages)
        /\ Numbers(messages) \subseteq 1..last /\ said \subseteq Numbers(messages) /\ said \subseteq 1..last
    BY DEF AnswerCalls, TypeInv, TalkOK, NumberOK, Sound, HeldOK, Fine, SaidOK, PhaseOK
  <1>2. PICK k \in 1..MaxBatch :
           /\ Room(k + 1) /\ batch' = FreshIds(messages, k) /\ last' = last + 1
           /\ messages' = Append(messages, Message("calls", batch', last'))
    BY DEF AnswerCalls
  <1> DEFINE m == Message("calls", batch', last')
  <1>3. last \in Nat /\ last' = last + 1 /\ last' \in 0..MaxMessages /\ k \in Nat /\ k > 0
    BY <1>2, TranscriptAssumption DEF Room, TypeInv, NumberOK
  <1>4. /\ batch' \in Seq(Nat) /\ Len(batch') = k /\ IsInjective(batch')
        /\ ToSet(batch') \cap CallIds(messages) = {}
    BY <1>1, <1>2, <1>3, FreshIdsAre
  <1>5. m \in Good /\ m.kind = "calls" /\ m.ids = batch' /\ m.n = last' /\ m.covers = {}
    BY <1>3, <1>4, MessageType DEF Message
  <1>6. last' \in Nat /\ last' > 0
    BY <1>3
  <1>7. Numbers(messages') = Numbers(messages) \cup {last'}
    BY <1>1, <1>2, <1>5, <1>6, NumbersAppend
  <1>8. messages' = Append(messages, m)
    BY <1>2
  <1> HIDE DEF m
  <1>9. Paired(messages') /\ Open(messages') /\ messages'[Len(messages')] = m
    BY <1>1, <1>4, <1>5, <1>6, <1>8, AppendPaired
  <1>10. last' \in Nat /\ last' > last /\ 1..last \subseteq 1..last' /\ last' \in 1..last'
         /\ last' \notin 1..last
    BY <1>3
  <1>11. UNCHANGED <<left, snapshot, job, command, prefetch>>
    BY DEF AnswerCalls
  <1>12. HeldOK' /\ WorkOK' /\ Now(messages', last')
    BY <1>1, <1>7, <1>9, <1>10, <1>11, Grown
  <1>13. SaidOK'
    BY <1>1, <1>5, <1>7, <1>9, <1>10, <1>12 DEF AnswerCalls, SaidOK
  <1>14. PhaseOK'
    BY <1>5, <1>9 DEF AnswerCalls, PhaseOK
  <1> QED
    BY <1>12, <1>13, <1>14 DEF Sound

LEMMA ResultsSound ==
    ASSUME TypeInv, Sound, Results
    PROVE  Sound'
  <1>1. /\ messages \in Conv /\ Paired(messages) /\ Open(messages)
        /\ messages[Len(messages)].ids = batch /\ batch \in Seq(Nat)
        /\ Numbers(messages) \subseteq 1..last /\ said \subseteq Numbers(messages)
    BY DEF Results, TypeInv, TalkOK, TurnOK, Sound, HeldOK, Fine, SaidOK, PhaseOK
  <1>2. last \in Nat /\ Len(batch) \in Nat /\ last + Len(batch) <= MaxMessages /\ last' = last + Len(batch)
    BY <1>1 DEF Results, Room, TypeInv, NumberOK
  <1>3. Len(batch) > 0
    BY <1>1, OpenIs, ConvMember
  <1>4. messages' = messages \o Served
    BY DEF Results, Served
  <1>5. Paired(messages') /\ ~Open(messages')
    BY <1>1, <1>2, <1>4, ServedPaired
  <1>6. Numbers(messages') = Numbers(messages) \cup ((last + 1)..last')
    BY <1>1, <1>2, <1>4, NumbersServed
  <1>7. last' \in Nat /\ last' > last /\ last' \in (last + 1)..last'
        /\ 1..last \subseteq 1..last' /\ (last + 1)..last' \subseteq 1..last'
    BY <1>2, <1>3
  <1>8. UNCHANGED <<left, snapshot, job, command, prefetch>>
    BY DEF Results
  <1>9. HeldOK' /\ WorkOK' /\ Now(messages', last')
    BY <1>1, <1>5, <1>6, <1>7, <1>8, Grown
  <1>10. SaidOK'
    BY <1>1, <1>5, <1>6, <1>9 DEF Results, SaidOK
  <1>11. PhaseOK'
    BY <1>5 DEF Results, PhaseOK
  <1> QED
    BY <1>9, <1>10, <1>11 DEF Sound

(* The conversation a step leaves holds what the one before it held.          *)
LEMMA Continued ==
    ASSUME TypeInv, Sound, messages' \in Conv, Paired(messages'), Alike(messages', messages),
           UNCHANGED <<last, said>>
    PROVE  /\ SaidOK'
           /\ \A A : Fine(A, messages, last) => Fine(A, messages', last')
           /\ Fine(messages', messages', last') /\ Fine(<<>>, messages', last')
  <1>1. Alike(messages, messages')
    BY DEF Alike
  <1>2. ASSUME NEW A, Fine(A, messages, last) PROVE Fine(A, messages', last')
    BY <1>1, <1>2, KeepFine
  <1>3. Numbers(messages') \subseteq 1..last'
    BY DEF Alike, Sound, HeldOK, Fine
  <1>4. Fine(messages', messages', last')
    BY <1>3, SelfFine
  <1>5. Fine(<<>>, messages', last')
    BY <1>4, EmptyFine
  <1>6. SaidOK'
    BY DEF Sound, SaidOK, Alike, Now
  <1> QED
    BY <1>2, <1>4, <1>5, <1>6

LEMMA Unwritten ==
    ASSUME TypeInv, Sound, UNCHANGED <<messages, last, said>>
    PROVE  /\ SaidOK' /\ Fine(messages, messages, last) /\ Fine(<<>>, messages, last)
           /\ messages \in Conv /\ Paired(messages)
  <1>1. messages \in Conv /\ Fine(messages, messages, last)
    BY DEF TypeInv, TalkOK, Sound, HeldOK
  <1>2. Fine(<<>>, messages, last)
    BY <1>1, EmptyFine
  <1>3. SaidOK'
    BY DEF Sound, SaidOK
  <1> QED
    BY <1>1, <1>2, <1>3 DEF Fine

LEMMA ShrinkBeginsSound ==
    ASSUME TypeInv, Sound, ShrinkBegins
    PROVE  Sound'
  <1>1. UNCHANGED <<messages, last, said>> /\ UNCHANGED <<left, snapshot, command, prefetch, batch>>
    BY DEF ShrinkBegins
  <1>2. SaidOK' /\ Fine(messages, messages, last)
    BY <1>1, Unwritten
  <1>3. job'.from = messages /\ ~job'.busy
    BY DEF ShrinkBegins, NoJob
  <1>4. HeldOK'
    BY <1>1, <1>2, <1>3 DEF Sound, HeldOK
  <1>5. WorkOK'
    BY <1>1, <1>3 DEF Sound, WorkOK, JobOK
  <1>6. PhaseOK'
    BY <1>1 DEF ShrinkBegins, Sound, PhaseOK
  <1> QED
    BY <1>2, <1>4, <1>5, <1>6 DEF Sound

LEMMA ShrunkSound ==
    ASSUME TypeInv, Sound, Shrunk, ~crossed'
    PROVE  Sound'
  <1>1. messages = job.from /\ messages \in Conv /\ Paired(messages)
    BY DEF Shrunk, TypeInv, TalkOK, Sound, HeldOK, Fine
  <1>2. PICK cuts \in SUBSET Cuttable(messages) : messages' = Trimmed(messages, cuts)
    <2>1. PICK cuts \in SUBSET Cuttable(job.from) :
              messages' = [i \in DOMAIN job.from |->
                             IF i \in cuts THEN [job.from[i] EXCEPT !.cut = TRUE]
                                             ELSE job.from[i]]
      BY DEF Shrunk
    <2> QED
      BY <1>1, <2>1 DEF Trimmed
  <1>3. /\ messages' \in Conv /\ Paired(messages') /\ (Open(messages') <=> Open(messages))
        /\ Open(messages) => messages'[Len(messages')] = messages[Len(messages)]
    BY <1>1, <1>2, TrimmedIs, TrimmedPaired
  <1>4. Numbers(messages') = Numbers(messages)
    BY <1>1, <1>2, NumbersTrimmed
  <1>5. Alike(messages', messages)
    BY <1>3, <1>4 DEF Alike
  <1>6. UNCHANGED <<last, said>> /\ UNCHANGED <<left, snapshot, command, prefetch, batch>>
    BY DEF Shrunk
  <1>7. /\ SaidOK' /\ (\A A : Fine(A, messages, last) => Fine(A, messages', last'))
        /\ Fine(messages', messages', last') /\ Fine(<<>>, messages', last')
    BY <1>3, <1>5, <1>6, Continued
  <1>8. job'.from = <<>> /\ ~job'.busy
    BY DEF Shrunk, NoJob
  <1>9. HeldOK'
    BY <1>6, <1>7, <1>8 DEF Sound, HeldOK
  <1>10. WorkOK'
    BY <1>6, <1>8 DEF Sound, WorkOK, JobOK
  <1>11. PhaseOK'
    BY <1>3 DEF Shrunk, Sound, PhaseOK
  <1> QED
    BY <1>7, <1>9, <1>10, <1>11 DEF Sound

LEMMA PrefetchSound ==
    ASSUME TypeInv, Sound, Prefetch
    PROVE  Sound'
  <1>1. UNCHANGED <<messages, last, said>> /\ UNCHANGED <<left, snapshot, job, command, batch, at>>
    BY DEF Prefetch
  <1>2. SaidOK' /\ messages \in Conv /\ Paired(messages)
    BY <1>1, Unwritten
  <1>3. Paired(SubSeq(messages, 1, Boundary(messages))) /\ ~Open(SubSeq(messages, 1, Boundary(messages)))
    BY <1>2, BoundarySplitsNothing, HeadPaired
  <1>4. prefetch'.prefix = SubSeq(messages, 1, Boundary(messages))
    BY DEF Prefetch
  <1>5. HeldOK'
    BY <1>1 DEF Sound, HeldOK
  <1>6. WorkOK'
    BY <1>1, <1>3, <1>4 DEF Sound, WorkOK
  <1>7. PhaseOK'
    BY <1>1 DEF Sound, PhaseOK
  <1> QED
    BY <1>2, <1>5, <1>6, <1>7 DEF Sound

(* A compression that begins, by the turn or by /compress.                    *)
LEMMA BegunSound ==
    ASSUME TypeInv, Sound, NEW j \in Begun
    PROVE  /\ j.from = messages /\ j.busy
           /\ JobOK(j, Kept(j), last) /\ Fine(Kept(j), messages, last)
           /\ Kept(j) = snapshot \/ Back(Kept(j), last)
  <1>1. /\ messages \in Conv /\ prefetch \in Prepared /\ prefetch.prefix \in Conv
        /\ Paired(messages) /\ Now(messages, last)
        /\ Fine(messages, messages, last) /\ Fine(snapshot, messages, last)
    BY DEF TypeInv, TalkOK, JobsOK, Prepared, Sound, HeldOK, SaidOK, Fine
  <1>2. /\ j.busy /\ j.from = messages /\ j.taken \in 0..Len(messages)
        /\ j.fresh => /\ j.taken = Boundary(messages)
                      /\ j.covers = Numbers(SubSeq(messages, 1, j.taken))
        /\ ~j.fresh => /\ Usable(messages) /\ j.taken = Len(prefetch.prefix)
                       /\ j.covers = Numbers(prefetch.prefix)
    BY <1>1, BegunIs
  <1>3. CASE j.fresh
    <2>1. Kept(j) = messages
      BY <1>2, <1>3 DEF Kept
    <2>2. Splits(messages, j.taken)
      BY <1>1, <1>2, <1>3, BoundarySplitsNothing
    <2>3. Back(messages, last)
      BY <1>1 DEF Back
    <2> QED
      BY <1>1, <1>2, <1>3, <2>1, <2>2, <2>3 DEF JobOK
  <1>4. CASE ~j.fresh
    <2>1. Kept(j) = snapshot
      BY <1>4 DEF Kept
    <2> DEFINE p == prefetch.prefix
    <2>2. prefetch.busy /\ IsPrefix(p, messages) /\ Paired(p) /\ ~Open(p) /\ p \in Conv
      BY <1>1, <1>2, <1>4 DEF Usable, Sound, WorkOK
    <2>3. Splits(messages, j.taken)
      BY <1>1, <1>2, <1>4, <2>2, PrefixSplits
    <2>4. p = SubSeq(messages, 1, j.taken)
      <3>1. SubSeq(p, 1, Len(p)) = p
        BY <2>2, SubSeqFull DEF Conv
      <3> QED
        BY <1>2, <1>4, <2>2, <3>1 DEF IsPrefix
    <2> QED
      BY <1>1, <1>2, <1>4, <2>1, <2>3, <2>4 DEF JobOK
  <1> QED
    BY <1>3, <1>4

(* The other compression may find its snapshot replaced by a newer one.       *)
LEMMA OtherJob ==
    ASSUME NEW k, NEW snap, NEW snap2, NEW top, JobOK(k, snap, top), snap2 = snap \/ Back(snap2, top)
    PROVE  JobOK(k, snap2, top)
  BY DEF JobOK

LEMMA CompressSound ==
    ASSUME TypeInv, Sound, Compress
    PROVE  Sound'
  <1>1. UNCHANGED <<messages, last, said>> /\ UNCHANGED <<left, command, batch>>
    BY DEF Compress
  <1>2. SaidOK' /\ Fine(messages, messages, last)
    BY <1>1, Unwritten
  <1>3. PICK j \in Begun : job' = j /\ snapshot' = Kept(j)
    BY DEF Compress
  <1>4. /\ job'.from = messages /\ JobOK(job', snapshot', last) /\ Fine(snapshot', messages, last)
        /\ snapshot' = snapshot \/ Back(snapshot', last)
    BY <1>3, BegunSound
  <1>5. JobOK(command, snapshot', last)
    BY <1>4, OtherJob DEF Sound, WorkOK
  <1>6. Now(left, last) => Back(snapshot', last)
    BY <1>4 DEF Sound, WorkOK
  <1>7. ~prefetch'.busy
    BY DEF Compress, NoPrefetch
  <1>8. HeldOK'
    BY <1>1, <1>2, <1>4 DEF Sound, HeldOK
  <1>9. WorkOK'
    BY <1>1, <1>4, <1>5, <1>6, <1>7 DEF WorkOK
  <1>10. PhaseOK'
    BY <1>1 DEF Compress, Sound, PhaseOK
  <1> QED
    BY <1>2, <1>8, <1>9, <1>10 DEF Sound

LEMMA CompressApplySound ==
    ASSUME TypeInv, Sound, CompressApply
    PROVE  Sound'
  <1>1. UNCHANGED <<messages, last, said>> /\ UNCHANGED <<left, job, batch, at>>
    BY DEF CompressApply
  <1>2. SaidOK' /\ Fine(messages, messages, last)
    BY <1>1, Unwritten
  <1>3. PICK j \in Begun : command' = j /\ snapshot' = Kept(j)
    BY DEF CompressApply
  <1>4. /\ command'.from = messages /\ JobOK(command', snapshot', last) /\ Fine(snapshot', messages, last)
        /\ snapshot' = snapshot \/ Back(snapshot', last)
    BY <1>3, BegunSound
  <1>5. JobOK(job, snapshot', last)
    BY <1>4, OtherJob DEF Sound, WorkOK
  <1>6. Now(left, last) => Back(snapshot', last)
    BY <1>4 DEF Sound, WorkOK
  <1>7. ~prefetch'.busy
    BY DEF CompressApply, NoPrefetch
  <1>8. HeldOK'
    BY <1>1, <1>2, <1>4 DEF Sound, HeldOK
  <1>9. WorkOK'
    BY <1>1, <1>4, <1>5, <1>6, <1>7 DEF WorkOK
  <1>10. PhaseOK'
    BY <1>1 DEF Sound, PhaseOK
  <1> QED
    BY <1>2, <1>8, <1>9, <1>10 DEF Sound

(* A summary that comes while the conversation is still the one it was made   *)
(* of.                                                                        *)
LEMMA FinishSound ==
    ASSUME TypeInv, Sound, NEW j, j \in Job, j.busy, JobOK(j, snapshot, last),
           Fine(j.from, messages, last), Finish(j), ~crossed', UNCHANGED <<last, said>>
    PROVE  /\ SaidOK' /\ \A A : Fine(A, messages, last) => Fine(A, messages', last')
           /\ Fine(messages', messages', last') /\ Fine(<<>>, messages', last')
           /\ Fine(left', messages', last') /\ Fine(snapshot', messages', last')
           /\ Back(snapshot', last)
           /\ Alike(messages', messages)
  <1>1. /\ messages = j.from /\ messages \in Conv /\ Paired(messages) /\ Now(messages, last)
        /\ Fine(messages, messages, last) /\ Fine(snapshot, messages, last)
        /\ Splits(j.from, j.taken) /\ j.covers = Numbers(SubSeq(j.from, 1, j.taken))
        /\ j.fresh => Back(snapshot, last)
    BY DEF Finish, TypeInv, TalkOK, Sound, HeldOK, SaidOK, Fine, JobOK
  <1>2. messages' = Condensed(j) /\ left' = messages'
        /\ snapshot' = IF j.fresh THEN snapshot ELSE messages
    BY <1>1 DEF Finish, Condensed
  <1>3. /\ messages' \in Conv /\ Paired(messages') /\ (Open(messages') <=> Open(messages))
        /\ Open(messages) => messages'[Len(messages')] = messages[Len(messages)]
    BY <1>1, <1>2, CondensedPaired
  <1>4. Numbers(messages') = Numbers(messages)
    BY <1>1, <1>2, NumbersCondensed DEF Splits
  <1>5. Alike(messages', messages)
    BY <1>3, <1>4 DEF Alike
  <1>6. /\ SaidOK' /\ (\A A : Fine(A, messages, last) => Fine(A, messages', last'))
        /\ Fine(messages', messages', last') /\ Fine(<<>>, messages', last')
    BY <1>3, <1>5, Continued
  <1>7. Fine(snapshot', messages', last')
    BY <1>1, <1>2, <1>6
  <1>8. Back(snapshot', last)
    BY <1>1, <1>2 DEF Back
  <1> QED
    BY <1>2, <1>5, <1>6, <1>7, <1>8

LEMMA CompressedSound ==
    ASSUME TypeInv, Sound, Compressed, ~crossed'
    PROVE  Sound'
  <1>1. job \in Job /\ job.busy /\ JobOK(job, snapshot, last) /\ Fine(job.from, messages, last)
    BY DEF Compressed, TypeInv, JobsOK, TurnOK, Sound, HeldOK, WorkOK
  <1>2. UNCHANGED <<last, said>> /\ UNCHANGED <<command, prefetch, batch>> /\ Finish(job)
    BY DEF Compressed
  <1>3. /\ SaidOK' /\ (\A A : Fine(A, messages, last) => Fine(A, messages', last'))
        /\ Fine(messages', messages', last') /\ Fine(<<>>, messages', last')
        /\ Fine(left', messages', last') /\ Fine(snapshot', messages', last')
        /\ Back(snapshot', last) /\ Alike(messages', messages)
    BY <1>1, <1>2, FinishSound
  <1>4. job'.from = <<>> /\ ~job'.busy
    BY DEF Compressed, NoJob
  <1>5. HeldOK'
    BY <1>2, <1>3, <1>4 DEF Sound, HeldOK
  <1>6. JobOK(command, snapshot', last)
    BY <1>3, OtherJob DEF Sound, WorkOK
  <1>7. WorkOK'
    BY <1>2, <1>3, <1>4, <1>6 DEF Sound, WorkOK, JobOK
  <1>8. PhaseOK'
    BY <1>3 DEF Compressed, Sound, PhaseOK, Alike
  <1> QED
    BY <1>3, <1>5, <1>7, <1>8 DEF Sound

LEMMA CompressAppliedSound ==
    ASSUME TypeInv, Sound, CompressApplied, ~crossed'
    PROVE  Sound'
  <1>1. command \in Job /\ command.busy /\ JobOK(command, snapshot, last)
        /\ Fine(command.from, messages, last)
    BY DEF CompressApplied, TypeInv, JobsOK, Sound, HeldOK, WorkOK
  <1>2. UNCHANGED <<last, said>> /\ UNCHANGED <<job, prefetch, batch, at>> /\ Finish(command)
    BY DEF CompressApplied
  <1>3. /\ SaidOK' /\ (\A A : Fine(A, messages, last) => Fine(A, messages', last'))
        /\ Fine(messages', messages', last') /\ Fine(<<>>, messages', last')
        /\ Fine(left', messages', last') /\ Fine(snapshot', messages', last')
        /\ Back(snapshot', last) /\ Alike(messages', messages)
    BY <1>1, <1>2, FinishSound
  <1>4. command'.from = <<>> /\ ~command'.busy
    BY DEF CompressApplied, NoJob
  <1>5. HeldOK'
    BY <1>2, <1>3, <1>4 DEF Sound, HeldOK
  <1>6. JobOK(job, snapshot', last)
    BY <1>3, OtherJob DEF Sound, WorkOK
  <1>7. WorkOK'
    BY <1>2, <1>3, <1>4, <1>6 DEF Sound, WorkOK, JobOK
  <1>8. PhaseOK'
    BY <1>2, <1>3 DEF Sound, PhaseOK, Alike
  <1> QED
    BY <1>3, <1>5, <1>7, <1>8 DEF Sound

LEMMA CompressUndoSound ==
    ASSUME TypeInv, Sound, CompressUndo, ~crossed'
    PROVE  Sound'
  <1>1. /\ snapshot # <<>> /\ messages' = snapshot /\ snapshot' = <<>>
        /\ messages = left \/ messages = snapshot
        /\ UNCHANGED <<last, said>> /\ UNCHANGED <<left, job, command, prefetch, batch, at>>
    BY DEF CompressUndo
  <1>2. /\ snapshot \in Conv /\ Fine(snapshot, messages, last) /\ Paired(snapshot)
        /\ Now(messages, last)
    BY DEF TypeInv, TalkOK, Sound, HeldOK, SaidOK, Fine
  <1>3. Now(snapshot, last)
    BY <1>1, <1>2 DEF Sound, WorkOK, Back
  <1>4. Alike(messages', messages)
    BY <1>1, <1>2, <1>3 DEF Fine
  <1>5. /\ SaidOK' /\ (\A A : Fine(A, messages, last) => Fine(A, messages', last'))
        /\ Fine(messages', messages', last') /\ Fine(<<>>, messages', last')
    BY <1>1, <1>2, <1>4, Continued
  <1>6. HeldOK'
    BY <1>1, <1>5 DEF Sound, HeldOK
  <1>7. Back(snapshot', last)
    BY <1>1 DEF Back
  <1>8. JobOK(job, snapshot', last) /\ JobOK(command, snapshot', last)
    BY <1>7, OtherJob DEF Sound, WorkOK
  <1>9. WorkOK'
    BY <1>1, <1>7, <1>8 DEF Sound, WorkOK
  <1>10. PhaseOK'
    BY <1>1, <1>4 DEF Sound, PhaseOK, Alike
  <1> QED
    BY <1>5, <1>6, <1>9, <1>10 DEF Sound

LEMMA SendSound ==
    ASSUME TypeInv, Sound, Send
    PROVE  Sound'
  <1>1. ~Open(messages)
    BY DEF Send, Sound, PhaseOK
  <1>2. messages' = messages
    BY <1>1, RepairSound DEF Send
  <1>3. UNCHANGED <<messages, last, said>> /\ UNCHANGED <<left, snapshot, job, command, batch>>
    BY <1>2 DEF Send
  <1>4. SaidOK'
    BY <1>3, Unwritten
  <1>5. prefetch'.busy = prefetch.busy /\ prefetch'.prefix = prefetch.prefix
    BY AgedIs DEF Send, TypeInv, JobsOK
  <1>6. HeldOK'
    BY <1>3 DEF Sound, HeldOK
  <1>7. WorkOK'
    BY <1>3, <1>5 DEF Sound, WorkOK
  <1>8. PhaseOK'
    BY <1>1, <1>3 DEF Send, PhaseOK
  <1> QED
    BY <1>4, <1>6, <1>7, <1>8 DEF Sound

LEMMA RefuseCallsSound ==
    ASSUME TypeInv, Sound, RefuseCalls
    PROVE  Sound'
  BY DEF RefuseCalls, Sound, HeldOK, WorkOK, SaidOK, PhaseOK

LEMMA AbortSound ==
    ASSUME TypeInv, Sound, Abort
    PROVE  Sound'
  <1>1. HeldOK'
    BY DEF Abort, Sound, HeldOK
  <1>2. WorkOK'
    BY DEF Abort, Sound, WorkOK
  <1>3. SaidOK'
    BY DEF Abort, Sound, SaidOK
  <1>4. PhaseOK'
    BY DEF Abort, Sound, PhaseOK, TypeInv, TurnOK
  <1> QED
    BY <1>1, <1>2, <1>3, <1>4 DEF Sound

LEMMA TalkStep == TypeInv /\ TalkInv /\ [Next]_vars => TalkInv'
  <1> SUFFICES ASSUME TypeInv, TalkInv, [Next]_vars, ~crossed' PROVE Sound'
    BY DEF TalkInv
  <1>1. ~crossed
    BY DEF Next, vars, Prompt, ShrinkBegins, Shrunk, Prefetch, Compress, Compressed,
           CompressApply, CompressApplied, CompressUndo, Finish, Send, AnswerText, AnswerCalls,
           RefuseCalls, Results, Abort
  <1>2. Sound
    BY <1>1 DEF TalkInv
  <1>3. CASE UNCHANGED vars
    BY <1>2, <1>3 DEF vars, Sound, HeldOK, WorkOK, SaidOK, PhaseOK
  <1>4. CASE Prompt
    BY <1>2, <1>4, PromptSound
  <1>5. CASE ShrinkBegins
    BY <1>2, <1>5, ShrinkBeginsSound
  <1>6. CASE Shrunk
    BY <1>2, <1>6, ShrunkSound
  <1>7. CASE Prefetch
    BY <1>2, <1>7, PrefetchSound
  <1>8. CASE Compress
    BY <1>2, <1>8, CompressSound
  <1>9. CASE Compressed
    BY <1>2, <1>9, CompressedSound
  <1>10. CASE CompressApply
    BY <1>2, <1>10, CompressApplySound
  <1>11. CASE CompressApplied
    BY <1>2, <1>11, CompressAppliedSound
  <1>12. CASE CompressUndo
    BY <1>2, <1>12, CompressUndoSound
  <1>13. CASE Send
    BY <1>2, <1>13, SendSound
  <1>14. CASE AnswerText
    BY <1>2, <1>14, AnswerTextSound
  <1>15. CASE AnswerCalls
    BY <1>2, <1>15, AnswerCallsSound
  <1>16. CASE RefuseCalls
    BY <1>2, <1>16, RefuseCallsSound
  <1>17. CASE Results
    BY <1>2, <1>17, ResultsSound
  <1>18. CASE Abort
    BY <1>2, <1>18, AbortSound
  <1> QED
    BY <1>3, <1>4, <1>5, <1>6, <1>7, <1>8, <1>9, <1>10, <1>11, <1>12, <1>13, <1>14, <1>15,
       <1>16, <1>17, <1>18 DEF Next

LEMMA TalkAlways == Spec => [](TypeInv /\ TalkInv)
  <1>1. Init => TypeInv /\ TalkInv
    BY TypeInit, SoundInit DEF TalkInv
  <1>2. TypeInv /\ TalkInv /\ [Next]_vars => (TypeInv /\ TalkInv)'
    BY TypeStep, TalkStep
  <1> QED
    BY <1>1, <1>2, PTL DEF Spec

(* What a turn works with holds every call together with its results, in      *)
(* order, whatever the number of messages, batches, compressions and          *)
(* commands, while nothing is put back over newer messages                    *)
(* (repairMessageHistory, safeHistoryKeepStart, Agent.run).                   *)
THEOREM PairsAlwaysTogether == Spec => []PairsStayTogether
  <1>1. TypeInv /\ TalkInv => PairsStayTogether
    <2> SUFFICES ASSUME TypeInv, TalkInv,
                        at \in {"ready", "shrinking", "compressing", "model"}, ~crossed
                 PROVE  Valid(messages)
      BY DEF PairsStayTogether
    <2>1. messages \in Conv /\ Paired(messages) /\ ~Open(messages)
      BY DEF TypeInv, TalkOK, TalkInv, Sound, HeldOK, PhaseOK, Fine
    <2> QED
      BY <2>1, OrderedIsValid
  <1> QED
    BY <1>1, TalkAlways, PTL

(* Every prompt, answer and result is in the conversation or in what a        *)
(* summary covers, however compressions, the summary prepared in the          *)
(* background, elision, repair and undo meet (compressHistory, Agent.run,     *)
(* /compress, /undo).                                                         *)
THEOREM NothingEverForgotten == Spec => []NothingForgotten
  <1>1. TypeInv /\ TalkInv => NothingForgotten
    BY DEF TalkInv, Sound, SaidOK, NothingForgotten
  <1> QED
    BY <1>1, TalkAlways, PTL
===============================================================================
