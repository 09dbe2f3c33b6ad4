---------------------------- MODULE LogScanProofs ----------------------------
(* What a scan of log files shows, for every size of file, block, chunk, tail  *)
(* and limit: a real-time scan accounts for its files; the text it reads of a  *)
(* file is the window of it that the limits leave; and the matches it answers  *)
(* with are the first ones of everything that could be read.                   *)
(* The lines of a text, the matches in them and what chunks amount to are      *)
(* folds.  The first parts of the module have what they need: induction over   *)
(* numbers, sequences and sets of indices, in the form "a set that has ... has *)
(* them all", and the folds as functions that are defined by it.               *)
EXTENDS LogScan, FiniteSetTheorems, SequenceTheorems, WellFoundedInduction, TLAPS

----------------------------------------------------------------------------
(* Induction, and folds as functions.                                       *)

\* < on the naturals as a well-founded relation
LEMMA NaturalOrder ==
  \E R : IsWellFoundedOn(R, Nat) /\ \A x, y \in Nat : <<x, y>> \in R <=> x < y
<1> DEFINE R == OpToRel(<, Nat)
<1>1. IsWellFoundedOn(R, Nat)
  BY NatLessThanWellFounded
<1>2. \A x, y \in Nat : <<x, y>> \in R <=> x < y
  BY DEF OpToRel
<1> HIDE DEF R
<1> QED BY <1>1, <1>2

\* A set that has 0 and with a number the next one has them all
LEMMA Counting ==
  ASSUME NEW T, 0 \in T, \A n \in Nat : n \in T => n + 1 \in T
  PROVE  Nat \subseteq T
<1> DEFINE U == Nat \ T
<1>1. SUFFICES ASSUME U # {} PROVE FALSE
  OBVIOUS
<1>2. PICK R : IsWellFoundedOn(R, Nat) /\ \A x, y \in Nat : <<x, y>> \in R <=> x < y
  BY NaturalOrder
<1>3. U \subseteq Nat
  OBVIOUS
<1>4. \E n \in U : \A m \in U : ~ (<<m, n>> \in R)
  <2>1. IsWellFoundedOn(R, Nat)
    BY <1>2
  <2> HIDE DEF U
  <2> QED BY <1>1, <1>3, <2>1, WFMin, Zenon
<1>5. PICK n \in U : \A m \in U : ~ (<<m, n>> \in R)
  BY <1>4
<1>6. n \in Nat /\ n # 0 /\ n - 1 \in Nat /\ n - 1 \notin T
  BY <1>5
<1>7. n - 1 \in U /\ n - 1 < n
  BY <1>6
<1> QED BY <1>2, <1>5, <1>6, <1>7

\* A set that has the empty sequence and with a sequence every one with an
\* element more has them all
LEMMA Appending ==
  ASSUME NEW S, NEW T, <<>> \in T, \A s \in Seq(S), x \in S : s \in T => Append(s, x) \in T
  PROVE  Seq(S) \subseteq T
<1> DEFINE U == {n \in Nat : \A s \in Seq(S) : Len(s) = n => s \in T}
<1>1. 0 \in U
  BY EmptySeq
<1>2. ASSUME NEW n \in Nat, n \in U PROVE n + 1 \in U
  <2> SUFFICES ASSUME NEW s \in Seq(S), Len(s) = n + 1 PROVE s \in T
    OBVIOUS
  <2>1. s # <<>>
    BY EmptySeq
  <2>2. PICK r \in Seq(S), x \in S : s = Append(r, x)
    BY <2>1, SequenceEmptyOrAppend
  <2>3. Len(r) = n
    BY <2>2
  <2> QED BY <1>2, <2>2, <2>3
<1>3. Nat \subseteq U
  <2> HIDE DEF U
  <2> QED BY <1>1, <1>2, Counting
<1> QED BY <1>3

\* A set that has the empty set and with what is left of a set without its
\* greatest element the set has every set of indices
LEMMA MaxIs ==
  ASSUME NEW s, NEW n \in s, s \subseteq 1 .. n, n \in Nat PROVE Max(s) = n
<1>1. \A y \in s : n >= y
  OBVIOUS
<1>2. Max(s) \in s /\ \A y \in s : Max(s) >= y
  BY <1>1, Zenon DEF Max
<1>3. Max(s) \in 1 .. n /\ Max(s) >= n
  BY <1>2
<1> QED BY <1>3

\* Indices have a greatest one
LEMMA MaxMember ==
  ASSUME NEW n \in Nat, NEW s \in SUBSET (1 .. n), s # {} PROVE Max(s) \in s
<1> DEFINE U == {m \in Nat : \A r \in SUBSET (1 .. m) : r # {} => \E x \in r : r \subseteq 1 .. x}
<1>1. 0 \in U
  <2>1. 1 .. 0 = {}
    OBVIOUS
  <2> QED BY <2>1
<1>2. ASSUME NEW m \in Nat, m \in U PROVE m + 1 \in U
  <2> SUFFICES ASSUME NEW r \in SUBSET (1 .. m + 1), r # {} PROVE \E x \in r : r \subseteq 1 .. x
    OBVIOUS
  <2>1. CASE m + 1 \in r
    BY <2>1
  <2>2. CASE m + 1 \notin r
    <3>1. r \in SUBSET (1 .. m)
      BY <2>2
    <3> QED BY <1>2, <3>1
  <2> QED BY <2>1, <2>2
<1>3. Nat \subseteq U
  <2> HIDE DEF U
  <2> QED BY <1>1, <1>2, Counting
<1>4. PICK x \in s : s \subseteq 1 .. x
  <2>1. n \in U
    <3> HIDE DEF U
    <3> QED BY <1>3
  <2>2. \A r \in SUBSET (1 .. n) : r # {} => \E x \in r : r \subseteq 1 .. x
    BY <2>1
  <2> HIDE DEF U
  <2> QED BY <2>2
<1>5. x \in Nat
  OBVIOUS
<1> QED BY <1>4, <1>5, MaxIs

\* A set that has the empty set, and a set of indices when it has what is left
\* of it without its greatest one, has every set of indices
LEMMA Growing ==
  ASSUME NEW T, NEW n \in Nat, {} \in T,
         \A s \in SUBSET (1 .. n) : s # {} /\ s \ {Max(s)} \in T => s \in T
  PROVE  SUBSET (1 .. n) \subseteq T
<1> DEFINE U == {m \in Nat : m <= n => SUBSET (1 .. m) \subseteq T}
<1>1. 0 \in U
  <2>1. \A s \in SUBSET (1 .. 0) : s = {}
    OBVIOUS
  <2> QED BY <2>1
<1>2. ASSUME NEW m \in Nat, m \in U PROVE m + 1 \in U
  <2> SUFFICES ASSUME m + 1 <= n, NEW s \in SUBSET (1 .. m + 1) PROVE s \in T
    OBVIOUS
  <2>1. CASE m + 1 \in s
    <3>1. Max(s) = m + 1
      <4>1. m + 1 \in Nat /\ s \subseteq 1 .. (m + 1)
        OBVIOUS
      <4> QED BY <2>1, <4>1, MaxIs
    <3>2. s \ {m + 1} \in SUBSET (1 .. m) /\ s \in SUBSET (1 .. n) /\ s # {}
      BY <2>1
    <3>3. s \ {Max(s)} \in T
      BY <1>2, <3>1, <3>2
    <3> QED BY <3>2, <3>3
  <2>2. CASE m + 1 \notin s
    BY <1>2, <2>2
  <2> QED BY <2>1, <2>2
<1>3. Nat \subseteq U
  <2> HIDE DEF U
  <2> QED BY <1>1, <1>2, Counting
<1> QED BY <1>3

----------------------------------------------------------------------------
(* Folds.  The library's FoldLeft goes through sets of indices; the lemmas    *)
(* are about a step that is a function, since a lemma cannot have an operator *)
(* for a parameter that the provers instantiate.                              *)

Folds(it, F, base, seq, n) ==
  it = [s \in SUBSET (1 .. n) |->
          IF s = {} THEN base ELSE F[<<it[s \ {Max(s)}], seq[Max(s)]>>]]

\* Such a function is there for every step and every sequence
LEMMA FoldExists ==
  ASSUME NEW F, NEW base, NEW seq, NEW n \in Nat
  PROVE  \E it : Folds(it, F, base, seq, n)
<1> DEFINE U == {m \in Nat : \E it : Folds(it, F, base, seq, m)}
<1>1. 0 \in U
  <2> DEFINE it == [s \in SUBSET (1 .. 0) |-> base]
  <2>1. \A s \in SUBSET (1 .. 0) : s = {}
    OBVIOUS
  <2>2. Folds(it, F, base, seq, 0)
    BY <2>1 DEF Folds
  <2> QED BY <2>2
<1>2. ASSUME NEW m \in Nat, m \in U PROVE m + 1 \in U
  <2>1. PICK it : Folds(it, F, base, seq, m)
    BY <1>2
  <2> DEFINE more == [s \in SUBSET (1 .. m + 1) |->
                        IF m + 1 \in s THEN F[<<it[s \ {m + 1}], seq[m + 1]>>] ELSE it[s]]
  <2>2. ASSUME NEW s \in SUBSET (1 .. m + 1)
        PROVE  more[s] = IF s = {} THEN base ELSE F[<<more[s \ {Max(s)}], seq[Max(s)]>>]
    <3>1. CASE m + 1 \in s
      <4>1. Max(s) = m + 1
        <5>1. m + 1 \in Nat /\ s \subseteq 1 .. (m + 1)
          OBVIOUS
        <5> QED BY <3>1, <5>1, MaxIs
      <4>2. more[s \ {m + 1}] = it[s \ {m + 1}]
        OBVIOUS
      <4> QED BY <3>1, <4>1, <4>2
    <3>2. CASE m + 1 \notin s
      <4>1. s \in SUBSET (1 .. m) /\ more[s] = it[s]
        BY <3>2
      <4>2. it[s] = IF s = {} THEN base ELSE F[<<it[s \ {Max(s)}], seq[Max(s)]>>]
        BY <2>1, <4>1 DEF Folds
      <4>3. more[s \ {Max(s)}] = it[s \ {Max(s)}]
        BY <3>2, <4>1
      <4> QED BY <4>1, <4>2, <4>3
    <3> QED BY <3>1, <3>2
  <2>3. Folds(more, F, base, seq, m + 1)
    <3>1. more = [s \in SUBSET (1 .. m + 1) |-> more[s]]
      OBVIOUS
    <3> HIDE DEF more
    <3> QED BY <2>2, <3>1 DEF Folds
  <2> QED BY <2>3
<1>3. Nat \subseteq U
  <2> HIDE DEF U
  <2> QED BY <1>1, <1>2, Counting
<1> QED BY <1>3

\* The fold of a sequence, and of one with an element more
Fold(F, base, seq) == (CHOOSE it : Folds(it, F, base, seq, Len(seq)))[1 .. Len(seq)]

\* A fold over nothing is its base
LEMMA FoldEmpty ==
  ASSUME NEW F, NEW base PROVE Fold(F, base, <<>>) = base
<1> DEFINE it == CHOOSE it : Folds(it, F, base, <<>>, 0)
<1>1. Folds(it, F, base, <<>>, 0)
  BY FoldExists, Zenon
<1>2. {} \in SUBSET (1 .. 0) /\ 1 .. 0 = {} /\ Len(<<>>) = 0
  OBVIOUS
<1>3. it[{}] = base
  <2> HIDE DEF it
  <2> QED BY <1>1, <1>2 DEF Folds
<1> QED BY <1>2, <1>3 DEF Fold

\* One element more is one step more
LEMMA FoldAppend ==
  ASSUME NEW S, NEW F, NEW base, NEW seq \in Seq(S), NEW x \in S
  PROVE  Fold(F, base, Append(seq, x)) = F[<<Fold(F, base, seq), x>>]
<1> DEFINE more == Append(seq, x)
           n == Len(seq)
           it == CHOOSE it : Folds(it, F, base, seq, n)
           it2 == CHOOSE it2 : Folds(it2, F, base, more, n + 1)
<1>1. /\ n \in Nat /\ n + 1 \in Nat /\ Len(more) = n + 1 /\ more[n + 1] = x
      /\ \A i \in 1 .. n : seq[i] = more[i]
  OBVIOUS
<1>2. Folds(it, F, base, seq, n)
  <2>1. \E f : Folds(f, F, base, seq, n)
    BY <1>1, FoldExists
  <2> QED BY <2>1, Zenon
<1>3. Folds(it2, F, base, more, n + 1)
  <2>1. \E f : Folds(f, F, base, more, n + 1)
    BY <1>1, FoldExists
  <2> QED BY <2>1, Zenon
<1>4. Fold(F, base, seq) = it[1 .. n] /\ Fold(F, base, more) = it2[1 .. n + 1]
  BY <1>1 DEF Fold
<1> HIDE DEF it, it2, more, n
<1>5. it2[1 .. n + 1] = F[<<it2[(1 .. n + 1) \ {Max(1 .. n + 1)}], more[Max(1 .. n + 1)]>>]
  <2>1. 1 .. n + 1 \in SUBSET (1 .. n + 1)
    OBVIOUS
  <2>2. 1 \in 1 .. n + 1
    BY <1>1
  <2> QED BY <1>3, <2>1, <2>2 DEF Folds
<1>6. Max(1 .. n + 1) = n + 1
  <2>1. n + 1 \in 1 .. n + 1 /\ 1 .. n + 1 \subseteq 1 .. (n + 1)
    BY <1>1
  <2> QED BY <1>1, <2>1, MaxIs
<1>7. (1 .. n + 1) \ {n + 1} = 1 .. n
  BY <1>1
<1>8. it2[1 .. n] = it[1 .. n]
  <2>1. n \in Nat /\ n + 1 \in Nat /\ n <= n + 1
    BY <1>1
  <2>0. \A i \in 1 .. n : seq[i] = more[i]
    BY <1>1
  <2> DEFINE U == {s \in SUBSET (1 .. n) : it[s] = it2[s]}
  <2>2. {} \in U
    BY <1>2, <1>3 DEF Folds
  <2>3. ASSUME NEW s \in SUBSET (1 .. n), s # {}, s \ {Max(s)} \in U PROVE s \in U
    <3>1. it[s] = F[<<it[s \ {Max(s)}], seq[Max(s)]>>]
      BY <1>2, <2>3 DEF Folds
    <3>2. s \in SUBSET (1 .. n + 1)
      BY <2>1
    <3>3. it2[s] = F[<<it2[s \ {Max(s)}], more[Max(s)]>>]
      BY <1>3, <2>3, <3>2 DEF Folds
    <3>4. Max(s) \in 1 .. n
      BY <2>1, <2>3, MaxMember
    <3> QED BY <2>0, <2>3, <3>1, <3>3, <3>4
  <2>4. SUBSET (1 .. n) \subseteq U
    <3> HIDE DEF U
    <3> QED BY <2>1, <2>2, <2>3, Growing
  <2> QED BY <2>4
<1> QED BY <1>1, <1>4, <1>5, <1>6, <1>7, <1>8 DEF more

\* A fold stays where its steps do
LEMMA FoldTyped ==
  ASSUME NEW T, NEW S, NEW F \in [T \X S -> T], NEW base \in T, NEW seq \in Seq(S),
         NEW it, Folds(it, F, base, seq, Len(seq))
  PROVE  \A s \in SUBSET (1 .. Len(seq)) : it[s] \in T
<1> DEFINE U == {s \in SUBSET (1 .. Len(seq)) : it[s] \in T}
<1>1. {} \in U
  BY DEF Folds
<1>2. ASSUME NEW s \in SUBSET (1 .. Len(seq)), s # {}, s \ {Max(s)} \in U PROVE s \in U
  <2>1. it[s] = F[<<it[s \ {Max(s)}], seq[Max(s)]>>]
    BY <1>2 DEF Folds
  <2>2. Max(s) \in 1 .. Len(seq)
    <3>1. Len(seq) \in Nat
      OBVIOUS
    <3> QED BY <1>2, <3>1, MaxMember
  <2>3. seq[Max(s)] \in S
    BY <2>2
  <2> QED BY <1>2, <2>1, <2>3
<1>3. SUBSET (1 .. Len(seq)) \subseteq U
  <2>1. Len(seq) \in Nat
    OBVIOUS
  <2> HIDE DEF U
  <2> QED BY <1>1, <1>2, <2>1, Growing
<1> QED BY <1>3

Texts == Seq(Chars)
Rows == Seq(Texts) \ {<< >>}
Broken == [p \in Rows \X Chars |->
             IF p[2] = NL THEN Append(p[1], <<>>) ELSE [p[1] EXCEPT ![Len(p[1])] = Append(@, p[2])]]

\* A character more leaves a text's lines to be lines
LEMMA BrokenType == Broken \in [Rows \X Chars -> Rows]
<1> SUFFICES ASSUME NEW lines \in Rows, NEW c \in Chars
             PROVE  /\ Append(lines, <<>>) \in Rows
                    /\ [lines EXCEPT ![Len(lines)] = Append(@, c)] \in Rows
  BY DEF Broken
<1>1. Len(lines) \in 1 .. Len(lines) /\ Len(lines) \in Nat /\ lines \in Seq(Texts)
  BY EmptySeq DEF Rows
<1>2. Append(lines, <<>>) \in Seq(Texts) /\ Len(Append(lines, <<>>)) = Len(lines) + 1
  BY <1>1 DEF Texts
<1>3. lines[Len(lines)] \in Texts
  BY <1>1
<1>4. Append(lines[Len(lines)], c) \in Texts
  BY <1>3 DEF Texts
<1>5. [lines EXCEPT ![Len(lines)] = Append(@, c)] \in Seq(Texts)
      /\ Len([lines EXCEPT ![Len(lines)] = Append(@, c)]) = Len(lines)
  BY <1>1, <1>4, ExceptSeq
<1> QED BY <1>1, <1>2, <1>5 DEF Rows

----------------------------------------------------------------------------
(* FlattenSeq.                                                              *)

\* FlattenSeq goes from left to right
Flattens(f, seqs, n) ==
  f = [i \in 1 .. n |-> IF i = 1 THEN seqs[i] ELSE f[i - 1] \o seqs[i]]

\* Such a function is there for all sequences
LEMMA FlattenExists ==
  ASSUME NEW seqs, NEW n \in Nat PROVE \E f : Flattens(f, seqs, n)
<1> DEFINE U == {m \in Nat : \E f : Flattens(f, seqs, m)}
<1>1. 0 \in U
  <2> DEFINE f == [i \in 1 .. 0 |-> <<>>]
  <2>1. Flattens(f, seqs, 0)
    BY DEF Flattens
  <2> QED BY <2>1
<1>2. ASSUME NEW m \in Nat, m \in U PROVE m + 1 \in U
  <2>1. PICK f : Flattens(f, seqs, m)
    BY <1>2
  <2> DEFINE g == [i \in 1 .. m + 1 |->
                     IF i = 1 THEN seqs[i]
                     ELSE IF i = m + 1 THEN f[m] \o seqs[i] ELSE f[i]]
  <2>2. ASSUME NEW i \in 1 .. m + 1
        PROVE  g[i] = IF i = 1 THEN seqs[i] ELSE g[i - 1] \o seqs[i]
    <3>1. CASE i = 1
      BY <3>1
    <3>2. CASE i # 1 /\ i # m + 1
      <4>1. i \in 1 .. m /\ i - 1 \in 1 .. m /\ i - 1 # m + 1 /\ i - 1 \in 1 .. m + 1
        BY <3>2
      <4>2. f[i] = f[i - 1] \o seqs[i]
        BY <2>1, <3>2, <4>1 DEF Flattens
      <4>3. g[i - 1] = f[i - 1]
        <5>1. CASE i - 1 = 1
          <6>1. 1 \in 1 .. m
            BY <4>1
          <6>2. f[1] = seqs[1]
            BY <2>1, <6>1 DEF Flattens
          <6> QED BY <4>1, <5>1, <6>2
        <5> QED BY <4>1, <5>1
      <4> QED BY <3>2, <4>1, <4>2, <4>3
    <3>3. CASE i # 1 /\ i = m + 1
      <4>1. m \in 1 .. m /\ m \in 1 .. m + 1 /\ m # m + 1 /\ i - 1 = m
        BY <3>3
      <4>2. g[m] = f[m]
        <5>1. CASE m = 1
          <6>2. f[1] = seqs[1]
            BY <2>1, <4>1, <5>1 DEF Flattens
          <6> QED BY <4>1, <5>1, <6>2
        <5> QED BY <4>1, <5>1
      <4> QED BY <3>3, <4>1, <4>2
    <3> QED BY <3>1, <3>2, <3>3
  <2>3. Flattens(g, seqs, m + 1)
    <3>1. g = [i \in 1 .. m + 1 |-> g[i]]
      OBVIOUS
    <3> HIDE DEF g
    <3> QED BY <2>2, <3>1 DEF Flattens
  <2> QED BY <2>3
<1>3. Nat \subseteq U
  <2> HIDE DEF U
  <2> QED BY <1>1, <1>2, Counting
<1> QED BY <1>3

\* FlattenSeq is the last value of that function
LEMMA FlattenIs ==
  ASSUME NEW seqs, Len(seqs) \in Nat \ {0}, NEW f, Flattens(f, seqs, Len(seqs))
  PROVE  FlattenSeq(seqs) = f[Len(seqs)]
<1> DEFINE n == Len(seqs)
           g == CHOOSE g : Flattens(g, seqs, n)
<1>1. FlattenSeq(seqs) = g[n]
  BY Zenon DEF FlattenSeq, Flattens
<1>2. Flattens(g, seqs, n)
  BY Zenon
<1>3. Flattens(f, seqs, n) /\ n \in Nat \ {0}
  OBVIOUS
<1> DEFINE U == {m \in Nat : m \in 1 .. n => f[m] = g[m]}
<1> HIDE DEF g, n
<1>4. 0 \in U
  OBVIOUS
<1>5. ASSUME NEW m \in Nat, m \in U PROVE m + 1 \in U
  <2> SUFFICES ASSUME m + 1 \in 1 .. n PROVE f[m + 1] = g[m + 1]
    OBVIOUS
  <2>1. CASE m = 0
    BY <1>2, <1>3, <2>1 DEF Flattens
  <2>2. CASE m # 0
    <3>1. m \in 1 .. n /\ m + 1 \in 1 .. n /\ (m + 1) - 1 = m /\ m + 1 # 1
      BY <1>3, <2>2
    <3>2. \A i \in 1 .. n : f[i] = IF i = 1 THEN seqs[i] ELSE f[i - 1] \o seqs[i]
      BY <1>3, Zenon DEF Flattens
    <3>3. \A i \in 1 .. n : g[i] = IF i = 1 THEN seqs[i] ELSE g[i - 1] \o seqs[i]
      BY <1>2, Zenon DEF Flattens
    <3>4. f[m + 1] = f[m] \o seqs[m + 1]
      BY <3>1, <3>2
    <3>5. g[m + 1] = g[m] \o seqs[m + 1]
      BY <3>1, <3>3
    <3> QED BY <1>5, <3>1, <3>4, <3>5
  <2> QED BY <2>1, <2>2
<1>6. Nat \subseteq U
  <2> HIDE DEF U
  <2> QED BY <1>4, <1>5, Counting
<1>7. n \in 1 .. n
  BY <1>3
<1> QED BY <1>1, <1>3, <1>6, <1>7 DEF n

\* Its last value is the one before with the last sequence
LEMMA FlattenLast ==
  ASSUME NEW seqs, NEW n, NEW f, Flattens(f, seqs, n), n \in 1 .. n, n # 1
  PROVE  f[n] = f[n - 1] \o seqs[n]
BY DEF Flattens

\* FlattenSeq of nothing
LEMMA FlattenEmpty == FlattenSeq(<<>>) = <<>>
<1>1. Len(<<>>) = 0
  OBVIOUS
<1> QED BY <1>1, Zenon DEF FlattenSeq

\* One sequence more
LEMMA FlattenAppend ==
  ASSUME NEW S, NEW seqs \in Seq(Seq(S)), NEW x \in Seq(S)
  PROVE  FlattenSeq(Append(seqs, x)) = FlattenSeq(seqs) \o x
<1> DEFINE n == Len(seqs)
           more == Append(seqs, x)
<1>1. n \in Nat /\ Len(more) = n + 1 /\ more[n + 1] = x /\ \A i \in 1 .. n : more[i] = seqs[i]
  OBVIOUS
<1>2. PICK f : Flattens(f, more, n + 1)
  <2>1. n + 1 \in Nat
    BY <1>1
  <2> HIDE DEF more, n
  <2> QED BY <2>1, FlattenExists
<1>3. FlattenSeq(more) = f[n + 1]
  <2>1. Len(more) \in Nat \ {0} /\ Flattens(f, more, Len(more))
    BY <1>1, <1>2
  <2> HIDE DEF more, n
  <2> QED BY <1>1, <2>1, FlattenIs
<1>4. CASE n = 0
  <2>1. seqs = <<>>
    BY <1>4, EmptySeq
  <2>2. f[1] = more[1]
    BY <1>1, <1>2, <1>4 DEF Flattens
  <2>3. <<>> \o x = x
    BY ConcatEmptySeq
  <2> QED BY <1>1, <1>3, <1>4, <2>1, <2>2, <2>3, FlattenEmpty
<1>5. CASE n # 0
  <2> DEFINE g == [i \in 1 .. n |-> f[i]]
  <2>1. Flattens(g, seqs, n)
    <3>1. ASSUME NEW i \in 1 .. n PROVE g[i] = IF i = 1 THEN seqs[i] ELSE g[i - 1] \o seqs[i]
      <4>1. i \in 1 .. n + 1 /\ more[i] = seqs[i] /\ (i # 1 => i - 1 \in 1 .. n)
        BY <1>1
      <4>2. f[i] = IF i = 1 THEN more[i] ELSE f[i - 1] \o more[i]
        BY <1>2, <4>1 DEF Flattens
      <4> QED BY <4>1, <4>2
    <3>2. g = [i \in 1 .. n |-> g[i]]
      OBVIOUS
    <3> HIDE DEF g
    <3> QED BY <3>1, <3>2 DEF Flattens
  <2>2. FlattenSeq(seqs) = g[n]
    <3>1. Len(seqs) \in Nat \ {0}
      BY <1>1, <1>5
    <3> HIDE DEF g
    <3> QED BY <2>1, <3>1, FlattenIs
  <2>3. n \in 1 .. n /\ n + 1 \in 1 .. n + 1 /\ n + 1 # 1 /\ n + 1 - 1 = n
    BY <1>1, <1>5
  <2>4. f[n + 1] = f[n] \o more[n + 1]
    <3>1. n + 1 \in Nat /\ n + 1 # 1 /\ (n + 1) - 1 = n /\ n + 1 \in 1 .. n + 1
      BY <1>1, <1>5
    <3> HIDE DEF n, more, g
    <3> QED BY <1>2, <3>1, FlattenLast
  <2> QED BY <1>1, <1>3, <2>2, <2>3, <2>4
<1> QED BY <1>4, <1>5

\* The elements of what is flattened are those of the sequences
LEMMA FlattenType ==
  ASSUME NEW S, NEW seqs \in Seq(Seq(S)) PROVE FlattenSeq(seqs) \in Seq(S)
<1> DEFINE T == {s \in Seq(Seq(S)) : FlattenSeq(s) \in Seq(S)}
<1>1. <<>> \in T
  BY FlattenEmpty, EmptySeq
<1>2. ASSUME NEW s \in Seq(Seq(S)), NEW x \in Seq(S), s \in T PROVE Append(s, x) \in T
  <2>1. FlattenSeq(Append(s, x)) = FlattenSeq(s) \o x
    BY FlattenAppend
  <2> QED BY <1>2, <2>1, ConcatProperties, AppendProperties
<1>3. Seq(Seq(S)) \subseteq T
  <2> HIDE DEF T
  <2> QED BY <1>1, <1>2, Appending
<1> QED BY <1>3

\* Flattening one list of sequences after another
LEMMA FlattenConcat ==
  ASSUME NEW S, NEW seqs \in Seq(Seq(S)), NEW more \in Seq(Seq(S))
  PROVE  FlattenSeq(seqs \o more) = FlattenSeq(seqs) \o FlattenSeq(more)
<1> DEFINE T == {s \in Seq(Seq(S)) : FlattenSeq(seqs \o s) = FlattenSeq(seqs) \o FlattenSeq(s)}
<1>0. FlattenSeq(seqs) \in Seq(S)
  BY FlattenType
<1>1. <<>> \in T
  <2>1. seqs \o <<>> = seqs /\ FlattenSeq(seqs) \o <<>> = FlattenSeq(seqs)
    BY <1>0, ConcatEmptySeq
  <2> QED BY <2>1, FlattenEmpty, EmptySeq
<1>2. ASSUME NEW s \in Seq(Seq(S)), NEW x \in Seq(S), s \in T PROVE Append(s, x) \in T
  <2>1. FlattenSeq(Append(s, x)) = FlattenSeq(s) \o x
    BY FlattenAppend
  <2>2. seqs \o Append(s, x) = Append(seqs \o s, x) /\ seqs \o s \in Seq(Seq(S))
    BY SMTT(30)
  <2>3. FlattenSeq(Append(seqs \o s, x)) = FlattenSeq(seqs \o s) \o x
    BY <2>2, FlattenAppend
  <2>4. FlattenSeq(s) \in Seq(S)
    BY FlattenType
  <2> DEFINE a == FlattenSeq(seqs)
             b == FlattenSeq(s)
  <2>5. (a \o b) \o x = a \o (b \o x)
    <3>1. a \in Seq(S) /\ b \in Seq(S)
      BY <1>0, <2>4
    <3> HIDE DEF a, b
    <3> QED BY <3>1, ConcatAssociative, SMTT(30)
  <2>6. Append(s, x) \in Seq(Seq(S)) /\ FlattenSeq(seqs \o s) = a \o b
    BY <1>2
  <2>7. FlattenSeq(seqs \o Append(s, x)) = a \o FlattenSeq(Append(s, x))
    BY <2>1, <2>2, <2>3, <2>5, <2>6
  <2> QED BY <2>6, <2>7
<1>3. Seq(Seq(S)) \subseteq T
  <2> HIDE DEF T
  <2> QED BY <1>1, <1>2, Appending
<1> QED BY <1>3

----------------------------------------------------------------------------
(* Folds over sequences, and those of the scan among them.                  *)

\* F takes what came out so far and an element to what comes out next
Steps(F, T, S) == F \in [T \X S -> T]

\* The indices that are left of a set
LEMMA Remaining ==
  ASSUME NEW S, NEW seq \in Seq(S), NEW s \in SUBSET (DOMAIN seq), s # {}
  PROVE  seq[Max(s)] \in S /\ s \ {Max(s)} \in SUBSET (DOMAIN seq)
<1>1. s \subseteq 1 .. Len(seq) /\ Len(seq) \in Nat
  OBVIOUS
<1>2. Max(s) \in s
  BY <1>1, MaxMember
<1>3. Max(s) \in 1 .. Len(seq)
  BY <1>1, <1>2
<1>4. seq[Max(s)] \in S
  BY <1>3
<1> QED BY <1>4

Iterates(it, T, S, F, base, seq) ==
  /\ it = [s \in SUBSET (DOMAIN seq) |-> it[s]] /\ it[{}] = base
  /\ \A s \in (SUBSET (DOMAIN seq)) \ {{}} :
       /\ it[s \ {Max(s)}] \in T /\ seq[Max(s)] \in S
       /\ it[s] = F[<<it[s \ {Max(s)}], seq[Max(s)]>>]

Follows(it, T, S, F, base, seq) ==
  /\ it[{}] = base
  /\ \A s \in (SUBSET (DOMAIN seq)) \ {{}} :
       it[s \ {Max(s)}] \in T => it[s] = F[<<it[s \ {Max(s)}], seq[Max(s)]>>]

\* What there is to choose from where a fold is defined
LEMMA FoldThere ==
  ASSUME NEW T, NEW S, NEW F, Steps(F, T, S), NEW base \in T, NEW seq \in Seq(S)
  PROVE  \E it : Iterates(it, T, S, F, base, seq)
<1>1. Len(seq) \in Nat /\ DOMAIN seq = 1 .. Len(seq)
  OBVIOUS
<1>2. PICK it : Folds(it, F, base, seq, Len(seq))
  BY <1>1, FoldExists
<1>3. \A s \in SUBSET (DOMAIN seq) : it[s] \in T
  BY <1>1, <1>2, FoldTyped DEF Steps
<1>4. \A s \in (SUBSET (DOMAIN seq)) \ {{}} :
        seq[Max(s)] \in S /\ s \ {Max(s)} \in SUBSET (DOMAIN seq)
  BY Remaining
<1>5. it = [s \in SUBSET (DOMAIN seq) |-> it[s]] /\ it[{}] = base
  BY <1>1, <1>2 DEF Folds
<1>6. \A s \in (SUBSET (DOMAIN seq)) \ {{}} : it[s] = F[<<it[s \ {Max(s)}], seq[Max(s)]>>]
  BY <1>1, <1>2 DEF Folds
<1> QED BY <1>3, <1>4, <1>5, <1>6 DEF Iterates

\* A fold stays where its steps do
LEMMA FoldType ==
  ASSUME NEW T, NEW S, NEW F, Steps(F, T, S), NEW base \in T, NEW seq \in Seq(S)
  PROVE  Fold(F, base, seq) \in T
<1> DEFINE f == CHOOSE f : Folds(f, F, base, seq, Len(seq))
<1>1. Len(seq) \in Nat
  OBVIOUS
<1>2. Folds(f, F, base, seq, Len(seq))
  <2>1. \E g : Folds(g, F, base, seq, Len(seq))
    BY <1>1, FoldExists
  <2> QED BY <2>1, Zenon
<1>3. Fold(F, base, seq) = f[1 .. Len(seq)]
  BY DEF Fold
<1> HIDE DEF f
<1>4. \A s \in SUBSET (1 .. Len(seq)) : f[s] \in T
  BY <1>2, FoldTyped DEF Steps
<1> QED BY <1>3, <1>4

\* Whatever follows the steps from the base is the fold
LEMMA FoldIs ==
  ASSUME NEW T, NEW S, NEW F, Steps(F, T, S), NEW base \in T, NEW seq \in Seq(S),
         NEW it, Follows(it, T, S, F, base, seq)
  PROVE  it[DOMAIN seq] = Fold(F, base, seq)
<1> DEFINE f == CHOOSE f : Folds(f, F, base, seq, Len(seq))
<1>1. Len(seq) \in Nat /\ DOMAIN seq = 1 .. Len(seq)
  OBVIOUS
<1>2. Folds(f, F, base, seq, Len(seq))
  <2>1. \E g : Folds(g, F, base, seq, Len(seq))
    BY <1>1, FoldExists
  <2> QED BY <2>1, Zenon
<1>3. Fold(F, base, seq) = f[DOMAIN seq]
  BY <1>1 DEF Fold
<1> HIDE DEF f
<1>4. \A s \in SUBSET (DOMAIN seq) : f[s] \in T
  BY <1>1, <1>2, FoldTyped DEF Steps
<1>5. /\ f[{}] = base
      /\ \A s \in (SUBSET (DOMAIN seq)) \ {{}} : f[s] = F[<<f[s \ {Max(s)}], seq[Max(s)]>>]
  BY <1>1, <1>2 DEF Folds
<1> DEFINE U == {s \in SUBSET (DOMAIN seq) : it[s] = f[s]}
<1>6. {} \in U
  BY <1>5 DEF Follows
<1>7. ASSUME NEW s \in SUBSET (1 .. Len(seq)), s # {}, s \ {Max(s)} \in U PROVE s \in U
  <2>1. s \in (SUBSET (DOMAIN seq)) \ {{}} /\ it[s \ {Max(s)}] = f[s \ {Max(s)}]
        /\ s \ {Max(s)} \in SUBSET (DOMAIN seq)
    BY <1>1, <1>7
  <2>2. f[s \ {Max(s)}] \in T
    BY <1>4, <2>1
  <2> QED BY <1>5, <2>1, <2>2 DEF Follows
<1>8. SUBSET (1 .. Len(seq)) \subseteq U
  <2> HIDE DEF U
  <2> QED BY <1>1, <1>6, <1>7, Growing
<1> QED BY <1>1, <1>3, <1>8

\* Lines is the fold of one character
LEMMA LinesFold ==
  ASSUME NEW text \in Seq(Chars)
  PROVE  Lines(text) = Fold(Broken, << <<>> >>, text)
<1> DEFINE G(p, c) == IF c = NL THEN Append(p, <<>>) ELSE [p EXCEPT ![Len(p)] = Append(@, c)]
           P(it) == it = [s \in SUBSET (DOMAIN text) |->
                            IF s = {} THEN << <<>> >>
                            ELSE IF text[Max(s)] = NL THEN Append(it[s \ {Max(s)}], <<>>)
                            ELSE [it[s \ {Max(s)}] EXCEPT
                                    ![Len(it[s \ {Max(s)}])] = Append(@, text[Max(s)])]]
           h == CHOOSE h : P(h)
<1>1. Lines(text) = h[DOMAIN text]
  BY Zenon DEF Lines, FoldLeft, MapThenFoldSet
<1>0. << <<>> >> \in Rows /\ Steps(Broken, Rows, Chars) /\ text \in Seq(Chars)
  BY EmptySeq, BrokenType DEF Texts, Rows, Steps
<1>2. \A p \in Rows, c \in Chars : Broken[<<p, c>>] = G(p, c)
  BY DEF Broken
<1>3. PICK f : Iterates(f, Rows, Chars, Broken, << <<>> >>, text)
  BY <1>0, FoldThere
<1>4. P(h)
  <2>1. \A s \in SUBSET (DOMAIN text) :
          f[s] = IF s = {} THEN << <<>> >> ELSE G(f[s \ {Max(s)}], text[Max(s)])
    <3> HIDE DEF G
    <3> QED BY <1>2, <1>3 DEF Iterates
  <2>2. P(f)
    BY <1>3, <2>1 DEF Iterates
  <2> QED BY <2>2, Zenon
<1>5. \A s \in SUBSET (DOMAIN text) :
        h[s] = IF s = {} THEN << <<>> >> ELSE G(h[s \ {Max(s)}], text[Max(s)])
  <2> HIDE DEF h
  <2> QED BY <1>4, Zenon
<1> HIDE DEF h, G
<1>6. h[{}] = << <<>> >>
  BY <1>5
<1>7. ASSUME NEW s \in (SUBSET (DOMAIN text)) \ {{}}, h[s \ {Max(s)}] \in Rows
      PROVE  h[s] = Broken[<<h[s \ {Max(s)}], text[Max(s)]>>]
  <2>1. text[Max(s)] \in Chars
    BY Remaining DEF Texts
  <2> QED BY <1>2, <1>5, <1>7, <2>1
<1>8. h[DOMAIN text] = Fold(Broken, << <<>> >>, text)
  <2>1. Follows(h, Rows, Chars, Broken, << <<>> >>, text)
    BY <1>6, <1>7 DEF Follows
  <2> QED BY <1>0, <2>1, FoldIs
<1> QED BY <1>1, <1>8

Founds == [Ids -> Seq(Texts)]
Scanned == [p \in Founds \X Texts |-> IF AllReachedLimit(p[1]) THEN p[1] ELSE ScanLine(p[1], p[2])]
Own(id) == [p \in Seq(Texts) \X Texts |-> IF Matches(id, p[2]) THEN Append(p[1], p[2]) ELSE p[1]]

\* A line more leaves the matches to be lines
LEMMA ScannedType == Scanned \in [Founds \X Texts -> Founds]
<1> SUFFICES ASSUME NEW found \in Founds, NEW line \in Texts PROVE ScanLine(found, line) \in Founds
  BY DEF Scanned
<1>1. \A id \in Ids : found[id] \in Seq(Texts) /\ Append(found[id], line) \in Seq(Texts)
  BY DEF Founds
<1> QED BY <1>1 DEF ScanLine, Founds

\* A line more leaves the matches of one chat id to be lines
LEMMA OwnType == ASSUME NEW id \in Ids PROVE Own(id) \in [Seq(Texts) \X Texts -> Seq(Texts)]
<1>1. \A own \in Seq(Texts), line \in Texts : Append(own, line) \in Seq(Texts)
  OBVIOUS
<1> QED BY <1>1 DEF Own

\* ScanLines is the fold of one line
LEMMA ScanFold ==
  ASSUME NEW found \in Founds, NEW lines \in Seq(Texts)
  PROVE  ScanLines(found, lines) = Fold(Scanned, found, lines)
<1> DEFINE G(p, c) == IF AllReachedLimit(p) THEN p ELSE ScanLine(p, c)
           P(it) == it = [s \in SUBSET (DOMAIN lines) |->
                            IF s = {} THEN found
                            ELSE IF AllReachedLimit(it[s \ {Max(s)}]) THEN it[s \ {Max(s)}]
                            ELSE ScanLine(it[s \ {Max(s)}], lines[Max(s)])]
           h == CHOOSE h : P(h)
<1>1. ScanLines(found, lines) = h[DOMAIN lines]
  BY Zenon DEF ScanLines, FoldLeft, MapThenFoldSet
<1>0. found \in Founds /\ Steps(Scanned, Founds, Texts) /\ lines \in Seq(Texts)
  BY EmptySeq, ScannedType DEF Texts, Rows, Steps
<1>2. \A p \in Founds, c \in Texts : Scanned[<<p, c>>] = G(p, c)
  BY DEF Scanned
<1>3. PICK f : Iterates(f, Founds, Texts, Scanned, found, lines)
  BY <1>0, FoldThere
<1>4. P(h)
  <2>1. \A s \in SUBSET (DOMAIN lines) :
          f[s] = IF s = {} THEN found ELSE G(f[s \ {Max(s)}], lines[Max(s)])
    <3> HIDE DEF G
    <3> QED BY <1>2, <1>3 DEF Iterates
  <2>2. P(f)
    BY <1>3, <2>1 DEF Iterates
  <2> QED BY <2>2, Zenon
<1>5. \A s \in SUBSET (DOMAIN lines) :
        h[s] = IF s = {} THEN found ELSE G(h[s \ {Max(s)}], lines[Max(s)])
  <2> HIDE DEF h
  <2> QED BY <1>4, Zenon
<1> HIDE DEF h, G
<1>6. h[{}] = found
  BY <1>5
<1>7. ASSUME NEW s \in (SUBSET (DOMAIN lines)) \ {{}}, h[s \ {Max(s)}] \in Founds
      PROVE  h[s] = Scanned[<<h[s \ {Max(s)}], lines[Max(s)]>>]
  <2>1. lines[Max(s)] \in Texts
    BY Remaining DEF Texts
  <2> QED BY <1>2, <1>5, <1>7, <2>1
<1>8. h[DOMAIN lines] = Fold(Scanned, found, lines)
  <2>1. Follows(h, Founds, Texts, Scanned, found, lines)
    BY <1>6, <1>7 DEF Follows
  <2> QED BY <1>0, <2>1, FoldIs
<1> QED BY <1>1, <1>8

\* LinesFor is the fold of one line
LEMMA OwnFold ==
  ASSUME NEW id \in Ids, NEW lines \in Seq(Texts)
  PROVE  LinesFor(id, lines) = Fold(Own(id), <<>>, lines)
<1> DEFINE G(p, c) == IF Matches(id, c) THEN Append(p, c) ELSE p
           P(it) == it = [s \in SUBSET (DOMAIN lines) |->
                            IF s = {} THEN <<>>
                            ELSE IF Matches(id, lines[Max(s)]) THEN Append(it[s \ {Max(s)}], lines[Max(s)])
                            ELSE it[s \ {Max(s)}]]
           h == CHOOSE h : P(h)
<1>1. LinesFor(id, lines) = h[DOMAIN lines]
  BY Zenon DEF LinesFor, FoldLeft, MapThenFoldSet
<1>0. <<>> \in Seq(Texts) /\ Steps(Own(id), Seq(Texts), Texts) /\ lines \in Seq(Texts)
  BY EmptySeq, OwnType DEF Texts, Rows, Steps
<1>2. \A p \in Seq(Texts), c \in Texts : Own(id)[<<p, c>>] = G(p, c)
  BY DEF Own
<1>3. PICK f : Iterates(f, Seq(Texts), Texts, Own(id), <<>>, lines)
  BY <1>0, FoldThere
<1>4. P(h)
  <2>1. \A s \in SUBSET (DOMAIN lines) :
          f[s] = IF s = {} THEN <<>> ELSE G(f[s \ {Max(s)}], lines[Max(s)])
    <3> HIDE DEF G
    <3> QED BY <1>2, <1>3 DEF Iterates
  <2>2. P(f)
    BY <1>3, <2>1 DEF Iterates
  <2> QED BY <2>2, Zenon
<1>5. \A s \in SUBSET (DOMAIN lines) :
        h[s] = IF s = {} THEN <<>> ELSE G(h[s \ {Max(s)}], lines[Max(s)])
  <2> HIDE DEF h
  <2> QED BY <1>4, Zenon
<1> HIDE DEF h, G
<1>6. h[{}] = <<>>
  BY <1>5
<1>7. ASSUME NEW s \in (SUBSET (DOMAIN lines)) \ {{}}, h[s \ {Max(s)}] \in Seq(Texts)
      PROVE  h[s] = Own(id)[<<h[s \ {Max(s)}], lines[Max(s)]>>]
  <2>1. lines[Max(s)] \in Texts
    BY Remaining DEF Texts
  <2> QED BY <1>2, <1>5, <1>7, <2>1
<1>8. h[DOMAIN lines] = Fold(Own(id), <<>>, lines)
  <2>1. Follows(h, Seq(Texts), Texts, Own(id), <<>>, lines)
    BY <1>6, <1>7 DEF Follows
  <2> DEFINE F == Own(id)
             T == Seq(Texts)
             b == <<>>
  <2>2. Follows(h, T, Texts, F, b, lines) /\ b \in T /\ Steps(F, T, Texts)
    BY <1>0, <2>1
  <2>3. h[DOMAIN lines] = Fold(F, b, lines)
    <3> HIDE DEF F, T, b
    <3> QED BY <2>2, FoldIs
  <2> QED BY <2>3
<1> QED BY <1>1, <1>8

----------------------------------------------------------------------------
(* Lines.                                                                   *)

\* Lines, one character at a time
LEMMA LinesEmpty == Lines(<<>>) = << <<>> >>
BY EmptySeq, LinesFold, FoldEmpty

\* A text has at least one line, and lines are texts
LEMMA LinesType == ASSUME NEW text \in Texts PROVE Lines(text) \in Rows
<1>1. text \in Seq(Chars) /\ Steps(Broken, Rows, Chars) /\ << <<>> >> \in Rows
  BY EmptySeq, BrokenType DEF Texts, Steps, Rows
<1> QED BY <1>1, LinesFold, FoldType

\* A character more ends the last line or makes it longer
LEMMA LinesAppend ==
  ASSUME NEW text \in Texts, NEW c \in Chars
  PROVE  Lines(Append(text, c)) =
           IF c = NL THEN Append(Lines(text), <<>>)
           ELSE [Lines(text) EXCEPT ![Len(Lines(text))] = Append(@, c)]
<1>1. text \in Seq(Chars) /\ Append(text, c) \in Seq(Chars)
  BY DEF Texts
<1>2. Lines(text) = Fold(Broken, << <<>> >>, text)
      /\ Lines(Append(text, c)) = Fold(Broken, << <<>> >>, Append(text, c))
  BY <1>1, LinesFold
<1>3. Lines(Append(text, c)) = Broken[<<Lines(text), c>>]
  BY <1>1, <1>2, FoldAppend
<1>4. Lines(text) \in Rows
  BY LinesType
<1> DEFINE p == Lines(text)
<1> HIDE DEF p
<1>5. \A q \in Rows : Broken[<<q, c>>] =
        IF c = NL THEN Append(q, <<>>) ELSE [q EXCEPT ![Len(q)] = Append(@, c)]
  BY DEF Broken
<1> QED BY <1>3, <1>4, <1>5 DEF p

\* A line that goes on
LEMMA Longer ==
  ASSUME NEW S, NEW seq \in Seq(S), NEW x \in S, NEW y \in S
  PROVE  [Append(seq, x) EXCEPT ![Len(Append(seq, x))] = y] = Append(seq, y)
<1> DEFINE a == [Append(seq, x) EXCEPT ![Len(Append(seq, x))] = y]
           b == Append(seq, y)
<1>1. /\ Append(seq, x) \in Seq(S) /\ b \in Seq(S) /\ Len(Append(seq, x)) = Len(seq) + 1
      /\ Len(b) = Len(seq) + 1 /\ Len(seq) \in Nat
      /\ \A i \in 1 .. Len(seq) : Append(seq, x)[i] = b[i]
      /\ b[Len(seq) + 1] = y
  OBVIOUS
<1>2. /\ a \in Seq(S) /\ Len(a) = Len(seq) + 1
      /\ \A i \in 1 .. Len(seq) + 1 : a[i] = IF i = Len(seq) + 1 THEN y ELSE Append(seq, x)[i]
  <2>1. Len(Append(seq, x)) \in 1 .. Len(Append(seq, x))
    BY <1>1
  <2> DEFINE e == Append(seq, x)
  <2>2. e \in Seq(S) /\ Len(e) \in 1 .. Len(e)
    BY <1>1, <2>1
  <2> HIDE DEF e
  <2>3. /\ [e EXCEPT ![Len(e)] = y] \in Seq(S) /\ Len([e EXCEPT ![Len(e)] = y]) = Len(e)
        /\ \A j \in 1 .. Len(e) : [e EXCEPT ![Len(e)] = y][j] = IF j = Len(e) THEN y ELSE e[j]
    BY <2>2, ExceptSeq
  <2> QED BY <1>1, <2>3 DEF e
<1> HIDE DEF a, b
<1>3. \A i \in 1 .. Len(a) : a[i] = b[i]
  BY <1>1, <1>2
<1>4. a = b
  BY <1>1, <1>2, <1>3, SeqEqual
<1> QED BY <1>4 DEF a, b

\* Lines are some lines and a last one
LEMMA RowsAre == ASSUME NEW p \in Rows PROVE \E q \in Seq(Texts), l \in Texts : p = Append(q, l)
BY SequenceEmptyOrAppend DEF Rows

\* A character that is no line feed goes to the last line
LEMMA Goes ==
  ASSUME NEW text \in Texts, NEW c \in Chars \ {NL}, NEW q \in Seq(Texts), NEW l \in Texts,
         Lines(text) = Append(q, l)
  PROVE  Lines(Append(text, c)) = Append(q, Append(l, c))
<1>1. Lines(Append(text, c)) = [Append(q, l) EXCEPT ![Len(Append(q, l))] = Append(@, c)]
  BY LinesAppend
<1>2. Append(q, l)[Len(Append(q, l))] = l /\ Append(l, c) \in Texts
  BY DEF Texts
<1>3. [Append(q, l) EXCEPT ![Len(Append(q, l))] = Append(@, c)]
        = [Append(q, l) EXCEPT ![Len(Append(q, l))] = Append(l, c)]
  BY <1>2
<1>4. [Append(q, l) EXCEPT ![Len(Append(q, l))] = Append(l, c)] = Append(q, Append(l, c))
  <2> DEFINE m == Append(l, c)
  <2>1. m \in Texts
    BY <1>2
  <2> HIDE DEF m
  <2>2. [Append(q, l) EXCEPT ![Len(Append(q, l))] = m] = Append(q, m)
    BY <2>1, Longer
  <2> QED BY <2>2 DEF m
<1> QED BY <1>1, <1>3, <1>4

Plain(text) == \A i \in 1 .. Len(text) : text[i] # NL

\* A text without a line feed is its one line
LEMMA LinesPlain == ASSUME NEW text \in Texts, Plain(text) PROVE Lines(text) = <<text>>
<1> DEFINE T == {t \in Texts : Plain(t) => Lines(t) = <<t>>}
<1>1. <<>> \in T
  BY LinesEmpty, EmptySeq DEF Texts
<1>2. ASSUME NEW t \in Seq(Chars), NEW c \in Chars, t \in T PROVE Append(t, c) \in T
  <2>1. Append(t, c) \in Texts /\ t \in Texts
    BY DEF Texts
  <2> SUFFICES ASSUME Plain(Append(t, c)) PROVE Lines(Append(t, c)) = <<Append(t, c)>>
    BY <2>1
  <2>2. Plain(t) /\ c # NL
    <3>1. Len(t) \in Nat /\ Len(Append(t, c)) = Len(t) + 1 /\ Append(t, c)[Len(t) + 1] = c
          /\ \A i \in 1 .. Len(t) : Append(t, c)[i] = t[i]
      OBVIOUS
    <3> QED BY <3>1 DEF Plain
  <2>3. Lines(t) = Append(<<>>, t) /\ <<>> \in Seq(Texts)
    BY <1>2, <2>2, EmptySeq
  <2>4. Lines(Append(t, c)) = Append(<<>>, Append(t, c))
    BY <2>1, <2>2, <2>3, Goes
  <2> QED BY <2>4
<1>3. Seq(Chars) \subseteq T
  <2> HIDE DEF T
  <2> QED BY <1>1, <1>2, Appending
<1> QED BY <1>3 DEF Texts

\* The first line of a text is one
LEMMA HeadPlain ==
  ASSUME NEW text \in Texts
  PROVE  Head(Lines(text)) \in Texts /\ Tail(Lines(text)) \in Seq(Texts) /\ Plain(Head(Lines(text)))
<1>0. \A t \in Texts : Head(Lines(t)) \in Texts /\ Tail(Lines(t)) \in Seq(Texts)
  BY LinesType, HeadTailProperties DEF Rows
<1> DEFINE T == {t \in Texts : Plain(Head(Lines(t)))}
<1>1. <<>> \in T
  BY LinesEmpty, EmptySeq DEF Texts, Plain
<1>2. ASSUME NEW t \in Seq(Chars), NEW c \in Chars, t \in T PROVE Append(t, c) \in T
  <2>1. Append(t, c) \in Texts /\ t \in Texts
    BY DEF Texts
  <2>2. PICK q \in Seq(Texts), l \in Texts : Lines(t) = Append(q, l)
    BY <2>1, LinesType, RowsAre
  <2>3. Plain(Head(Append(q, l)))
    BY <1>2, <2>2
  <2>4. CASE c = NL
    <3>1. Lines(Append(t, c)) = Append(Append(q, l), <<>>) /\ Append(q, l) # <<>>
      BY <2>1, <2>2, <2>4, LinesAppend
    <3>2. Head(Append(Append(q, l), <<>>)) = Head(Append(q, l))
      BY <3>1, HeadTailAppend
    <3> QED BY <2>1, <2>3, <3>1, <3>2
  <2>5. CASE c # NL
    <3>1. Lines(Append(t, c)) = Append(q, Append(l, c))
      BY <2>1, <2>2, <2>5, Goes
    <3>2. Head(Append(q, Append(l, c))) = IF q = <<>> THEN Append(l, c) ELSE Head(q)
      BY HeadTailAppend
    <3>3. Head(Append(q, l)) = IF q = <<>> THEN l ELSE Head(q)
      BY HeadTailAppend
    <3>4. Plain(l) => Plain(Append(l, c))
      BY <2>5 DEF Plain, Texts
    <3>5. Plain(Head(Append(q, Append(l, c))))
      BY <2>3, <3>2, <3>3, <3>4
    <3> QED BY <2>1, <3>1, <3>5
  <2> QED BY <2>4, <2>5
<1>3. Seq(Chars) \subseteq T
  <2> HIDE DEF T
  <2> QED BY <1>1, <1>2, Appending
<1> QED BY <1>0, <1>3 DEF Texts

\* What comes before a text changes its first line only
LEMMA LinesConcat ==
  ASSUME NEW x \in Texts, NEW text \in Texts
  PROVE  Lines(x \o text) = Lines(x \o Head(Lines(text))) \o Tail(Lines(text))
<1> DEFINE T == {t \in Texts : Lines(x \o t) = Lines(x \o Head(Lines(t))) \o Tail(Lines(t))}
<1>0. x \in Seq(Chars)
  BY DEF Texts
<1>1. <<>> \in T
  <2>1. Head(Lines(<<>>)) = <<>> /\ Tail(Lines(<<>>)) = <<>> /\ x \o <<>> = x
    <3>1. x \o <<>> = x
      BY <1>0, ConcatEmptySeq
    <3>2. Head(<< <<>> >>) = <<>> /\ Tail(<< <<>> >>) = <<>>
      OBVIOUS
    <3> QED BY <3>1, <3>2, LinesEmpty
  <2>2. Lines(x) \o <<>> = Lines(x)
    BY LinesType, ConcatEmptySeq DEF Rows
  <2> QED BY <2>1, <2>2, EmptySeq DEF Texts
<1>2. ASSUME NEW t \in Seq(Chars), NEW c \in Chars, t \in T PROVE Append(t, c) \in T
  <2>1. /\ Append(t, c) \in Texts /\ t \in Texts /\ x \o t \in Texts
        /\ x \o Append(t, c) = Append(x \o t, c)
    BY <1>0 DEF Texts
  <2>2. PICK q \in Seq(Texts), l \in Texts : Lines(t) = Append(q, l)
    BY <2>1, LinesType, RowsAre
  <2>3. Lines(x \o t) = Lines(x \o Head(Append(q, l))) \o Tail(Append(q, l))
    BY <1>2, <2>2
  <2>4. CASE q = <<>>
    <3>1. Head(Append(q, l)) = l /\ Tail(Append(q, l)) = <<>>
      BY <2>4, HeadTailAppend
    <3>2. x \o l \in Texts
      BY <1>0 DEF Texts
    <3>3. Lines(x \o t) = Lines(x \o l)
      BY <2>3, <3>1, <3>2, LinesType, ConcatEmptySeq DEF Rows
    <3>4. CASE c = NL
      <4>1. Lines(Append(t, c)) = Append(Append(q, l), <<>>)
            /\ Lines(Append(x \o t, c)) = Append(Lines(x \o t), <<>>)
        BY <2>1, <2>2, <3>4, LinesAppend
      <4>2. Append(q, l) # <<>> /\ Append(q, l) \in Seq(Texts)
        BY AppendProperties
      <4>3. Head(Append(Append(q, l), <<>>)) = l
            /\ Tail(Append(Append(q, l), <<>>)) = Append(<<>>, <<>>)
        BY <3>1, <4>2, HeadTailAppend
      <4>4. Lines(x \o l) \o Append(<<>>, <<>>) = Append(Lines(x \o l), <<>>)
        <5>1. Lines(x \o l) \in Seq(Texts) /\ <<>> \in Texts
          BY <3>2, LinesType, EmptySeq DEF Rows, Texts
        <5> QED BY <5>1, AppendIsConcat
      <4> QED BY <2>1, <3>3, <4>1, <4>3, <4>4
    <3>5. CASE c # NL
      <4>1. Lines(Append(t, c)) = Append(q, Append(l, c))
        BY <2>1, <2>2, <3>5, Goes
      <4>2. Head(Append(q, Append(l, c))) = Append(l, c) /\ Tail(Append(q, Append(l, c))) = <<>>
        BY <2>4, HeadTailAppend
      <4>3. PICK r \in Seq(Texts), m \in Texts : Lines(x \o l) = Append(r, m)
        BY <3>2, LinesType, RowsAre
      <4>4. Lines(Append(x \o t, c)) = Append(r, Append(m, c))
        BY <2>1, <3>3, <3>5, <4>3, Goes
      <4>5. Lines(Append(x \o l, c)) = Append(r, Append(m, c))
        BY <3>2, <3>5, <4>3, Goes, SMTT(30)
      <4>6. x \o Append(l, c) = Append(x \o l, c)
        BY <1>0 DEF Texts
      <4>7. Lines(Append(x \o l, c)) \o <<>> = Lines(Append(x \o l, c))
        <5>1. Append(x \o l, c) \in Texts
          BY <3>2 DEF Texts
        <5> QED BY <5>1, LinesType, ConcatEmptySeq DEF Rows
      <4> QED BY <2>1, <4>1, <4>2, <4>4, <4>5, <4>6, <4>7
    <3> QED BY <3>4, <3>5
  <2>5. CASE q # <<>>
    <3> DEFINE A == Lines(x \o Head(q))
    <3>1. Head(Append(q, l)) = Head(q) /\ Tail(Append(q, l)) = Append(Tail(q), l)
      BY <2>5, HeadTailAppend
    <3>2. Head(q) \in Texts /\ Tail(q) \in Seq(Texts)
      BY <2>5, HeadTailProperties
    <3>3. x \o Head(q) \in Texts
      BY <1>0, <3>2 DEF Texts
    <3>4. A \in Seq(Texts)
      BY <3>3, LinesType DEF Rows
    <3>5. Lines(x \o t) = A \o Append(Tail(q), l)
      BY <2>3, <3>1
    <3> HIDE DEF A
    <3>6. \A y \in Texts : A \o Append(Tail(q), y) = Append(A \o Tail(q), y)
      BY <3>2, <3>4
    <3>7. A \o Tail(q) \in Seq(Texts)
      BY <3>2, <3>4
    <3>8. CASE c = NL
      <4>1. Lines(Append(t, c)) = Append(Append(q, l), <<>>)
            /\ Lines(Append(x \o t, c)) = Append(Lines(x \o t), <<>>)
        BY <2>1, <2>2, <3>8, LinesAppend
      <4>2. Append(q, l) # <<>>
        OBVIOUS
      <4>3. Head(Append(Append(q, l), <<>>)) = Head(q)
            /\ Tail(Append(Append(q, l), <<>>)) = Append(Append(Tail(q), l), <<>>)
        BY <3>1, <4>2, HeadTailAppend
      <4>4. A \o Append(Append(Tail(q), l), <<>>) = Append(A \o Append(Tail(q), l), <<>>)
        <5>1. <<>> \in Texts /\ Append(Tail(q), l) \in Seq(Texts)
          BY <3>2, EmptySeq DEF Texts
        <5> QED BY <3>4, <5>1
      <4> QED BY <2>1, <3>5, <4>1, <4>3, <4>4 DEF A
    <3>9. CASE c # NL
      <4>1. Lines(Append(t, c)) = Append(q, Append(l, c))
        BY <2>1, <2>2, <3>9, Goes
      <4>2. Head(Append(q, Append(l, c))) = Head(q)
            /\ Tail(Append(q, Append(l, c))) = Append(Tail(q), Append(l, c))
        BY <2>5, HeadTailAppend
      <4>3. Lines(x \o t) = Append(A \o Tail(q), l)
        BY <3>5, <3>6
      <4>4. Lines(Append(x \o t, c)) = Append(A \o Tail(q), Append(l, c))
        <5>1. PICK r \in Seq(Texts) : r = A \o Tail(q)
          BY <3>7
        <5>2. PICK y \in Texts : y = x \o t
          BY <2>1
        <5>3. Lines(y) = Append(r, l) /\ c \in Chars \ {NL}
          BY <3>9, <4>3, <5>1, <5>2
        <5>4. Lines(Append(y, c)) = Append(r, Append(l, c))
          BY <2>2, <5>1, <5>2, <5>3, Goes, ZenonT(30)
        <5> QED BY <5>1, <5>2, <5>4
      <4>5. Append(l, c) \in Texts
        BY DEF Texts
      <4>6. A \o Append(Tail(q), Append(l, c)) = Append(A \o Tail(q), Append(l, c))
        BY <3>6, <4>5
      <4> QED BY <2>1, <4>1, <4>2, <4>4, <4>6 DEF A
    <3> QED BY <3>8, <3>9
  <2> QED BY <2>4, <2>5
<1>3. Seq(Chars) \subseteq T
  <2> HIDE DEF T
  <2> QED BY <1>1, <1>2, Appending
<1> QED BY <1>3 DEF Texts

----------------------------------------------------------------------------
(* Matches.                                                                 *)

\* Nothing to scan changes nothing
LEMMA ScanEmpty == ASSUME NEW found \in Founds PROVE ScanLines(found, <<>>) = found
BY EmptySeq, ScanFold, FoldEmpty

\* Scanning lines leaves the matches to be lines
LEMMA ScanType ==
  ASSUME NEW found \in Founds, NEW lines \in Seq(Texts) PROVE ScanLines(found, lines) \in Founds
<1>1. Steps(Scanned, Founds, Texts)
  BY ScannedType DEF Steps
<1> QED BY <1>1, ScanFold, FoldType

\* One line more, unless every chat id has reached its limit
LEMMA ScanAppend ==
  ASSUME NEW found \in Founds, NEW lines \in Seq(Texts), NEW line \in Texts
  PROVE  ScanLines(found, Append(lines, line)) =
           IF AllReachedLimit(ScanLines(found, lines)) THEN ScanLines(found, lines)
           ELSE ScanLine(ScanLines(found, lines), line)
<1> DEFINE g == ScanLines(found, lines)
<1>1. Append(lines, line) \in Seq(Texts)
  OBVIOUS
<1>2. ScanLines(found, Append(lines, line)) = Fold(Scanned, found, Append(lines, line))
  BY <1>1, ScanFold
<1>3. ScanLines(found, lines) = Fold(Scanned, found, lines)
  BY ScanFold
<1>4. Fold(Scanned, found, Append(lines, line)) = Scanned[<<Fold(Scanned, found, lines), line>>]
  BY FoldAppend
<1>5. g \in Founds
  BY ScanType
<1>6. \A f \in Founds : Scanned[<<f, line>>] = IF AllReachedLimit(f) THEN f ELSE ScanLine(f, line)
  BY DEF Scanned
<1>7. ScanLines(found, Append(lines, line)) = Scanned[<<g, line>>]
  BY <1>2, <1>3, <1>4
<1> HIDE DEF g
<1> QED BY <1>5, <1>6, <1>7 DEF g

\* The break: once every limit is reached nothing is added
LEMMA ScanStops ==
  ASSUME NEW found \in Founds, AllReachedLimit(found), NEW lines \in Seq(Texts)
  PROVE  ScanLines(found, lines) = found
<1> DEFINE T == {s \in Seq(Texts) : ScanLines(found, s) = found}
<1>1. <<>> \in T
  BY ScanEmpty, EmptySeq
<1>2. ASSUME NEW s \in Seq(Texts), NEW x \in Texts, s \in T PROVE Append(s, x) \in T
  BY <1>2, ScanAppend, AppendProperties
<1>3. Seq(Texts) \subseteq T
  <2> HIDE DEF T
  <2> QED BY <1>1, <1>2, Appending
<1> QED BY <1>3

\* No lines, no matches
LEMMA OwnEmpty == ASSUME NEW id \in Ids PROVE LinesFor(id, <<>>) = <<>>
BY EmptySeq, OwnFold, FoldEmpty

\* The matches of a chat id are lines
LEMMA OwnTyped ==
  ASSUME NEW id \in Ids, NEW lines \in Seq(Texts) PROVE LinesFor(id, lines) \in Seq(Texts)
<1> DEFINE F == Own(id)
           T == Seq(Texts)
           b == <<>>
<1>1. Steps(F, T, Texts) /\ b \in T /\ lines \in Seq(Texts)
  BY OwnType, EmptySeq DEF Steps
<1>2. Fold(F, b, lines) \in T
  <2> HIDE DEF F, T, b
  <2> QED BY <1>1, FoldType
<1> QED BY <1>2, OwnFold

\* One line more is one match more, or none
LEMMA OwnAppend ==
  ASSUME NEW id \in Ids, NEW lines \in Seq(Texts), NEW line \in Texts
  PROVE  LinesFor(id, Append(lines, line)) =
           IF Matches(id, line) THEN Append(LinesFor(id, lines), line) ELSE LinesFor(id, lines)
<1> DEFINE g == LinesFor(id, lines)
<1>1. Append(lines, line) \in Seq(Texts)
  OBVIOUS
<1>2. LinesFor(id, Append(lines, line)) = Fold(Own(id), <<>>, Append(lines, line))
  BY <1>1, OwnFold
<1>3. LinesFor(id, lines) = Fold(Own(id), <<>>, lines)
  BY OwnFold
<1>4. Fold(Own(id), <<>>, Append(lines, line)) = Own(id)[<<Fold(Own(id), <<>>, lines), line>>]
  <2> DEFINE F == Own(id)
             b == <<>>
  <2> HIDE DEF F, b
  <2>1. Fold(F, b, Append(lines, line)) = F[<<Fold(F, b, lines), line>>]
    BY FoldAppend
  <2> QED BY <2>1 DEF F, b
<1>5. g \in Seq(Texts)
  BY OwnTyped
<1>6. \A f \in Seq(Texts) : Own(id)[<<f, line>>] = IF Matches(id, line) THEN Append(f, line) ELSE f
  BY DEF Own
<1>7. LinesFor(id, Append(lines, line)) = Own(id)[<<g, line>>]
  BY <1>2, <1>3, <1>4
<1> HIDE DEF g
<1> QED BY <1>5, <1>6, <1>7 DEF g

\* The limit is a positive number
LEMMA LimitPositive == Limit \in Nat \ {0}
BY ScanConfig

\* The first matches are one more as long as the limit is not reached
LEMMA UpToAppend ==
  ASSUME NEW own \in Seq(Texts), NEW line \in Texts
  PROVE  /\ UpToLimit(own) \in Seq(Texts)
         /\ Len(UpToLimit(own)) < Limit <=> Len(own) < Limit
         /\ UpToLimit(Append(own, line)) =
              IF Len(own) < Limit THEN Append(UpToLimit(own), line) ELSE UpToLimit(own)
<1>1. Len(own) \in Nat /\ Limit \in Nat \ {0} /\ own \in Seq(Texts)
      /\ Append(own, line) \in Seq(Texts)
      /\ Len(Append(own, line)) = Len(own) + 1
  BY LimitPositive
<1>2. UpToLimit(own) \in Seq(Texts)
      /\ Len(UpToLimit(own)) = IF Len(own) < Limit THEN Len(own) ELSE Limit
  <2> DEFINE m == IF Len(own) < Limit THEN Len(own) ELSE Limit
  <2>1. m \in Nat /\ m <= Len(own)
    BY <1>1
  <2>2. UpToLimit(own) = SubSeq(own, 1, m)
    BY DEF UpToLimit
  <2> HIDE DEF m
  <2>3. SubSeq(own, 1, m) \in Seq(Texts) /\ Len(SubSeq(own, 1, m)) = m
    BY <1>1, <2>1
  <2> QED BY <2>2, <2>3 DEF m
<1>3. CASE Len(own) < Limit
  <2>1. UpToLimit(own) = own
    BY <1>1, <1>3, SubSeqFull DEF UpToLimit
  <2>2. UpToLimit(Append(own, line)) = SubSeq(Append(own, line), 1, Len(Append(own, line)))
    BY <1>1, <1>3 DEF UpToLimit
  <2>3. SubSeq(Append(own, line), 1, Len(Append(own, line))) = Append(own, line)
    BY <1>1, SubSeqFull
  <2> QED BY <1>1, <1>2, <1>3, <2>1, <2>2, <2>3
<1>4. CASE ~ (Len(own) < Limit)
  <2>1. UpToLimit(own) = SubSeq(own, 1, Limit)
        /\ UpToLimit(Append(own, line)) = SubSeq(Append(own, line), 1, Limit)
    BY <1>1, <1>4 DEF UpToLimit
  <2>2. SubSeq(own, 1, Limit) = SubSeq(Append(own, line), 1, Limit)
    <3>1. Limit \in 1 .. Len(own) /\ Limit \in 1 .. Len(Append(own, line))
          /\ \A i \in 1 .. Limit : own[i] = Append(own, line)[i]
      BY <1>1, <1>4
    <3> QED BY <1>1, <3>1
  <2> QED BY <1>1, <1>2, <1>4, <2>1, <2>2
<1> QED BY <1>3, <1>4

\* What is found, if these are the lines there were
Keeps(found, lines) == \A id \in Ids : found[id] = UpToLimit(LinesFor(id, lines))

\* A line that is scanned is kept when it should be
LEMMA KeepsLine ==
  ASSUME NEW found \in Founds, NEW lines \in Seq(Texts), NEW line \in Texts, Keeps(found, lines)
  PROVE  Keeps(IF AllReachedLimit(found) THEN found ELSE ScanLine(found, line), Append(lines, line))
<1> SUFFICES ASSUME NEW id \in Ids
             PROVE  (IF AllReachedLimit(found) THEN found ELSE ScanLine(found, line))[id]
                      = UpToLimit(LinesFor(id, Append(lines, line)))
  BY DEF Keeps
<1> DEFINE own == LinesFor(id, lines)
<1>1. own \in Seq(Texts) /\ found[id] = UpToLimit(own)
  BY OwnTyped DEF Keeps
<1>2. LinesFor(id, Append(lines, line)) = IF Matches(id, line) THEN Append(own, line) ELSE own
  BY OwnAppend
<1> HIDE DEF own
<1>3. /\ Len(UpToLimit(own)) < Limit <=> Len(own) < Limit
      /\ UpToLimit(Append(own, line)) =
              IF Len(own) < Limit THEN Append(UpToLimit(own), line) ELSE UpToLimit(own)
  BY <1>1, UpToAppend
<1>4. CASE AllReachedLimit(found)
  <2>1. ~ (Len(found[id]) < Limit)
    <3>1. Len(found[id]) >= Limit /\ Len(found[id]) \in Nat /\ Limit \in Nat
      BY <1>4, LimitPositive DEF AllReachedLimit, Founds
    <3> QED BY <3>1
  <2> QED BY <1>1, <1>2, <1>3, <1>4, <2>1
<1>5. CASE ~AllReachedLimit(found)
  <2>1. ScanLine(found, line)[id] = IF Matches(id, line) /\ Len(found[id]) < Limit
                  THEN Append(found[id], line) ELSE found[id]
    BY DEF ScanLine
  <2> QED BY <1>1, <1>2, <1>3, <1>5, <2>1
<1> QED BY <1>4, <1>5

\* Lines that are scanned are kept when they should be
LEMMA KeepsLines ==
  ASSUME NEW found \in Founds, NEW lines \in Seq(Texts), Keeps(found, lines),
         NEW more \in Seq(Texts)
  PROVE  Keeps(ScanLines(found, more), lines \o more)
<1> DEFINE T == {s \in Seq(Texts) : Keeps(ScanLines(found, s), lines \o s)}
<1>1. <<>> \in T
  BY ScanEmpty, EmptySeq, ConcatEmptySeq
<1>2. ASSUME NEW s \in Seq(Texts), NEW x \in Texts, s \in T PROVE Append(s, x) \in T
  <2>1. ScanLines(found, s) \in Founds /\ lines \o s \in Seq(Texts)
        /\ Keeps(ScanLines(found, s), lines \o s)
    BY <1>2, ScanType, ConcatProperties
  <2>2. lines \o Append(s, x) = Append(lines \o s, x) /\ Append(s, x) \in Seq(Texts)
    OBVIOUS
  <2> DEFINE g == ScanLines(found, s)
             l == lines \o s
  <2>3. ScanLines(found, Append(s, x)) = IF AllReachedLimit(g) THEN g ELSE ScanLine(g, x)
    BY ScanAppend
  <2>4. Keeps(IF AllReachedLimit(g) THEN g ELSE ScanLine(g, x), Append(l, x))
    <3>1. g \in Founds /\ l \in Seq(Texts) /\ Keeps(g, l)
      BY <2>1
    <3> HIDE DEF g, l
    <3> QED BY <3>1, KeepsLine
  <2> HIDE DEF g
  <2> QED BY <2>2, <2>3, <2>4
<1>3. Seq(Texts) \subseteq T
  <2> HIDE DEF T
  <2> QED BY <1>1, <1>2, Appending
<1> QED BY <1>3

\* Nothing is missed after the last chat id has its matches
LEMMA KeepsAll ==
  ASSUME NEW found \in Founds, NEW lines \in Seq(Texts), Keeps(found, lines),
         AllReachedLimit(found), NEW more \in Seq(Texts)
  PROVE  Keeps(found, lines \o more)
BY KeepsLines, ScanStops

\* What Reverse gives
LEMMA ReverseType ==
  ASSUME NEW S, NEW s \in Seq(S)
  PROVE  /\ Reverse(s) \in Seq(S) /\ Len(Reverse(s)) = Len(s)
         /\ \A i \in 1 .. Len(s) : Reverse(s)[i] = s[Len(s) - i + 1]
<1>1. Len(s) \in Nat /\ \A i \in 1 .. Len(s) : s[Len(s) - i + 1] \in S
  OBVIOUS
<1>2. Reverse(s) = [i \in 1 .. Len(s) |-> s[Len(s) - i + 1]]
  BY DEF Reverse
<1> QED BY <1>1, <1>2

\* The reverse of two sequences
LEMMA ReverseConcat ==
  ASSUME NEW S, NEW s \in Seq(S), NEW t \in Seq(S)
  PROVE  Reverse(s \o t) = Reverse(t) \o Reverse(s)
<1> DEFINE st == s \o t
           a == Reverse(st)
           rs == Reverse(s)
           rt == Reverse(t)
           b == rt \o rs
<1>1. /\ Len(s) \in Nat /\ Len(t) \in Nat /\ st \in Seq(S) /\ Len(st) = Len(s) + Len(t)
      /\ \A i \in 1 .. Len(s) + Len(t) : st[i] = IF i <= Len(s) THEN s[i] ELSE t[i - Len(s)]
  BY ConcatProperties
<1>2. a \in Seq(S) /\ Len(a) = Len(st) /\ \A i \in 1 .. Len(st) : a[i] = st[Len(st) - i + 1]
  BY <1>1, ReverseType
<1>3. /\ rs \in Seq(S) /\ Len(rs) = Len(s) /\ \A i \in 1 .. Len(s) : rs[i] = s[Len(s) - i + 1]
      /\ rt \in Seq(S) /\ Len(rt) = Len(t) /\ \A i \in 1 .. Len(t) : rt[i] = t[Len(t) - i + 1]
  BY ReverseType
<1> HIDE DEF st, a, rs, rt
<1>4. /\ b \in Seq(S) /\ Len(b) = Len(rt) + Len(rs)
      /\ \A i \in 1 .. Len(rt) + Len(rs) : b[i] = IF i <= Len(rt) THEN rt[i] ELSE rs[i - Len(rt)]
  <2>1. rt \in Seq(S) /\ rs \in Seq(S)
    BY <1>3
  <2> QED BY <2>1, ConcatProperties
<1> HIDE DEF b
<1>5. ASSUME NEW i \in 1 .. Len(a) PROVE a[i] = b[i]
  <2>1. CASE i <= Len(t)
    <3>1. a[i] = t[Len(t) - i + 1]
      <4>1. Len(st) - i + 1 \in 1 .. Len(s) + Len(t) /\ ~ (Len(st) - i + 1 <= Len(s))
            /\ (Len(st) - i + 1) - Len(s) = Len(t) - i + 1 /\ i \in 1 .. Len(st)
        BY <1>1, <1>2, <2>1
      <4> QED BY <1>1, <1>2, <4>1
    <3>2. b[i] = t[Len(t) - i + 1]
      <4>1. i \in 1 .. Len(rt) + Len(rs) /\ i <= Len(rt) /\ i \in 1 .. Len(t)
        BY <1>1, <1>2, <1>3, <2>1
      <4> QED BY <1>3, <1>4, <4>1
    <3> QED BY <3>1, <3>2
  <2>2. CASE ~ (i <= Len(t))
    <3>1. a[i] = s[Len(s) + Len(t) - i + 1]
      <4>1. Len(st) - i + 1 \in 1 .. Len(s) + Len(t) /\ Len(st) - i + 1 <= Len(s)
            /\ Len(st) - i + 1 = Len(s) + Len(t) - i + 1 /\ i \in 1 .. Len(st)
        BY <1>1, <1>2, <2>2
      <4> QED BY <1>1, <1>2, <4>1
    <3>2. b[i] = s[Len(s) + Len(t) - i + 1]
      <4>1. i \in 1 .. Len(rt) + Len(rs) /\ ~ (i <= Len(rt)) /\ i - Len(rt) \in 1 .. Len(s)
            /\ Len(s) - (i - Len(rt)) + 1 = Len(s) + Len(t) - i + 1
        BY <1>1, <1>2, <1>3, <2>2
      <4> QED BY <1>3, <1>4, <4>1
    <3> QED BY <3>1, <3>2
  <2> QED BY <2>1, <2>2
<1>6. a = b
  <2>1. Len(a) = Len(b)
    BY <1>1, <1>2, <1>3, <1>4
  <2> QED BY <1>2, <1>4, <1>5, <2>1, SeqEqual
<1> QED BY <1>6 DEF a, b, st, rs, rt

----------------------------------------------------------------------------
(* The end of a text, and the chunks that make it.                          *)

\* What the end of a text is
LEMMA LastType ==
  ASSUME NEW S, NEW text \in Seq(S), NEW n \in Nat
  PROVE  /\ LastOf(text, n) \in Seq(S)
         /\ Len(LastOf(text, n)) = IF Len(text) > n THEN n ELSE Len(text)
         /\ \A i \in 1 .. Len(LastOf(text, n)) :
              LastOf(text, n)[i] = text[Len(text) - Len(LastOf(text, n)) + i]
<1> DEFINE m == IF Len(text) > n THEN Len(text) - n + 1 ELSE 1
           l == Len(text)
<1>1. l \in Nat /\ m \in 1 .. l + 1
  OBVIOUS
<1>2. LastOf(text, n) = SubSeq(text, m, l)
  BY DEF LastOf
<1>3. \A i \in m .. l : text[i] \in S
  <2>1. \A i \in m .. l : i \in 1 .. Len(text)
    BY <1>1
  <2> HIDE DEF m, l
  <2> QED BY <2>1, ElementOfSeq
<1>4. l - m + 1 = IF Len(text) > n THEN n ELSE Len(text)
  OBVIOUS
<1>6. l = Len(text)
  OBVIOUS
<1> HIDE DEF m, l
<1>5. /\ SubSeq(text, m, l) \in Seq(S)
      /\ Len(SubSeq(text, m, l)) = l - m + 1
      /\ \A i \in 1 .. l - m + 1 : SubSeq(text, m, l)[i] = text[m + i - 1]
  <2>1. m \in Int /\ l \in Int /\ (m <= l \/ (m = l + 1 /\ l - m + 1 = 0))
    BY <1>1
  <2> QED BY <1>3, <2>1, SubSeqProperties
<1>7. \A i \in 1 .. l - m + 1 : l - (l - m + 1) + i = m + i - 1
  BY <1>1
<1> QED BY <1>2, <1>4, <1>5, <1>6, <1>7, SMTT(30)

\* Two texts that agree on their last n have the same end
LEMMA LastSame ==
  ASSUME NEW S, NEW text \in Seq(S), NEW other \in Seq(S), NEW n \in Nat,
         Len(LastOf(text, n)) = Len(LastOf(other, n)),
         \A i \in 1 .. Len(LastOf(text, n)) :
           text[Len(text) - Len(LastOf(text, n)) + i] = other[Len(other) - Len(LastOf(text, n)) + i]
  PROVE  LastOf(text, n) = LastOf(other, n)
<1> DEFINE a == LastOf(text, n)
           b == LastOf(other, n)
<1>1. a \in Seq(S) /\ \A i \in 1 .. Len(a) : a[i] = text[Len(text) - Len(a) + i]
  BY LastType
<1>2. b \in Seq(S) /\ \A i \in 1 .. Len(b) : b[i] = other[Len(other) - Len(b) + i]
  BY LastType
<1>3. Len(a) = Len(b)
      /\ \A i \in 1 .. Len(a) : text[Len(text) - Len(a) + i] = other[Len(other) - Len(a) + i]
  OBVIOUS
<1> HIDE DEF a, b
<1>4. \A i \in 1 .. Len(a) : a[i] = b[i]
  BY <1>1, <1>2, <1>3
<1>5. a = b
  BY <1>1, <1>2, <1>3, <1>4, SeqEqual
<1> QED BY <1>5 DEF a, b

\* ... as have a text and a longer one
LEMMA LastConcat ==
  ASSUME NEW S, NEW s \in Seq(S), NEW t \in Seq(S), NEW n \in Nat, Len(t) >= n
  PROVE  LastOf(s \o t, n) = LastOf(t, n)
<1> DEFINE st == s \o t
<1>1. /\ st \in Seq(S) /\ Len(st) = Len(s) + Len(t)
      /\ \A i \in 1 .. Len(s) + Len(t) : st[i] = IF i <= Len(s) THEN s[i] ELSE t[i - Len(s)]
  BY ConcatProperties
<1>2. Len(s) \in Nat /\ Len(t) \in Nat
  OBVIOUS
<1> HIDE DEF st
<1>3. Len(LastOf(st, n)) = n /\ Len(LastOf(t, n)) = n
  <2>1. Len(LastOf(st, n)) = IF Len(st) > n THEN n ELSE Len(st)
    BY <1>1, LastType
  <2>2. Len(LastOf(t, n)) = IF Len(t) > n THEN n ELSE Len(t)
    BY LastType
  <2> QED BY <1>1, <1>2, <2>1, <2>2
<1>4. \A i \in 1 .. n : st[Len(st) - n + i] = t[Len(t) - n + i]
  <2> SUFFICES ASSUME NEW i \in 1 .. n PROVE st[Len(st) - n + i] = t[Len(t) - n + i]
    OBVIOUS
  <2>1. Len(st) - n + i \in 1 .. Len(s) + Len(t) /\ ~ (Len(st) - n + i <= Len(s))
        /\ (Len(st) - n + i) - Len(s) = Len(t) - n + i
    BY <1>1, <1>2
  <2> QED BY <1>1, <2>1
<1>5. LastOf(st, n) = LastOf(t, n)
  <2>1. \A i \in 1 .. Len(LastOf(st, n)) :
          st[Len(st) - Len(LastOf(st, n)) + i] = t[Len(t) - Len(LastOf(st, n)) + i]
    BY <1>3, <1>4
  <2> QED BY <1>1, <1>3, <2>1, LastSame
<1> QED BY <1>5 DEF st

\* A short text is its own end
LEMMA LastWhole ==
  ASSUME NEW S, NEW text \in Seq(S), NEW n \in Nat, Len(text) <= n
  PROVE  LastOf(text, n) = text
<1>1. LastOf(text, n) = SubSeq(text, 1, Len(text))
  <2>1. Len(text) \in Nat /\ ~ (Len(text) > n)
    OBVIOUS
  <2> QED BY <2>1 DEF LastOf
<1> QED BY <1>1, SubSeqFull

\* The end of what was read is the end of the window and of what came last
LEMMA LastAgain ==
  ASSUME NEW S, NEW s \in Seq(S), NEW t \in Seq(S), NEW n \in Nat
  PROVE  LastOf(LastOf(s, n) \o t, n) = LastOf(s \o t, n)
<1>1. CASE Len(s) <= n
  BY <1>1, LastWhole
<1>2. CASE ~ (Len(s) <= n)
  <2>1. PICK w \in Seq(S) : /\ w = LastOf(s, n) /\ Len(w) = n
          /\ \A i \in 1 .. n : w[i] = s[Len(s) - n + i]
    <3>1. Len(s) \in Nat /\ Len(s) > n
      BY <1>2
    <3> QED BY <3>1, LastType
  <2> DEFINE wt == w \o t
             st == s \o t
  <2>2. /\ wt \in Seq(S) /\ Len(wt) = n + Len(t)
        /\ \A i \in 1 .. n + Len(t) : wt[i] = IF i <= n THEN w[i] ELSE t[i - n]
    <3>1. /\ w \o t \in Seq(S) /\ Len(w \o t) = Len(w) + Len(t)
          /\ \A i \in 1 .. Len(w) + Len(t) : (w \o t)[i] = IF i <= Len(w)
               THEN w[i] ELSE t[i - Len(w)]
      BY <2>1, ConcatProperties, ZenonT(30)
    <3> QED BY <2>1, <3>1
  <2>3. /\ st \in Seq(S) /\ Len(st) = Len(s) + Len(t)
        /\ \A i \in 1 .. Len(s) + Len(t) : st[i] = IF i <= Len(s) THEN s[i] ELSE t[i - Len(s)]
    BY ConcatProperties
  <2> HIDE DEF wt, st
  <2>4. Len(s) \in Nat /\ Len(t) \in Nat /\ Len(s) > n
    BY <1>2
  <2>5. Len(LastOf(wt, n)) = n /\ Len(LastOf(st, n)) = n
    <3>1. Len(LastOf(wt, n)) = IF Len(wt) > n THEN n ELSE Len(wt)
      BY <2>2, LastType
    <3>2. Len(LastOf(st, n)) = IF Len(st) > n THEN n ELSE Len(st)
      BY <2>3, LastType
    <3> QED BY <2>2, <2>3, <2>4, <3>1, <3>2
  <2>6. \A i \in 1 .. n : wt[Len(wt) - n + i] = st[Len(st) - n + i]
    <3> SUFFICES ASSUME NEW i \in 1 .. n PROVE wt[Len(wt) - n + i] = st[Len(st) - n + i]
      OBVIOUS
    <3>1. Len(wt) - n + i = Len(t) + i /\ Len(st) - n + i = Len(s) + Len(t) - n + i
      BY <2>2, <2>3, <2>4
    <3>2. CASE Len(t) + i <= n
      <4>1. wt[Len(t) + i] = w[Len(t) + i] /\ w[Len(t) + i] = s[Len(s) - n + (Len(t) + i)]
        <5>1. Len(t) + i \in 1 .. n + Len(t) /\ Len(t) + i \in 1 .. n
          BY <2>4, <3>2
        <5> QED BY <2>1, <2>2, <3>2, <5>1
      <4>2. st[Len(s) + Len(t) - n + i] = s[Len(s) + Len(t) - n + i]
        <5>1. Len(s) + Len(t) - n + i \in 1 .. Len(s) + Len(t) /\ Len(s) + Len(t) - n + i <= Len(s)
          BY <2>4, <3>2
        <5> QED BY <2>3, <5>1
      <4>3. Len(s) - n + (Len(t) + i) = Len(s) + Len(t) - n + i
        BY <2>4
      <4> QED BY <3>1, <4>1, <4>2, <4>3
    <3>3. CASE ~ (Len(t) + i <= n)
      <4>1. wt[Len(t) + i] = t[Len(t) + i - n]
        <5>1. Len(t) + i \in 1 .. n + Len(t) /\ ~ (Len(t) + i <= n)
          BY <2>4, <3>3
        <5> QED BY <2>2, <5>1
      <4>2. st[Len(s) + Len(t) - n + i] = t[(Len(s) + Len(t) - n + i) - Len(s)]
        <5>1. Len(s) + Len(t) - n + i \in 1 .. Len(s) + Len(t)
              /\ ~ (Len(s) + Len(t) - n + i <= Len(s))
          BY <2>4, <3>3
        <5> QED BY <2>3, <5>1
      <4>3. (Len(s) + Len(t) - n + i) - Len(s) = Len(t) + i - n
        BY <2>4
      <4> QED BY <3>1, <4>1, <4>2, <4>3
    <3> QED BY <3>2, <3>3
  <2>7. LastOf(wt, n) = LastOf(st, n)
    <3>1. \A i \in 1 .. Len(LastOf(wt, n)) :
            wt[Len(wt) - Len(LastOf(wt, n)) + i] = st[Len(st) - Len(LastOf(wt, n)) + i]
      BY <2>5, <2>6
    <3> QED BY <2>2, <2>3, <2>5, <3>1, LastSame, ZenonT(30)
  <2> QED BY <2>1, <2>7 DEF wt, st
<1> QED BY <1>1, <1>2

\* Prefixes and what is left after them
LEMMA Cut ==
  ASSUME NEW S, NEW s \in Seq(S), NEW m \in 0 .. Len(s)
  PROVE  /\ SubSeq(s, 1, m) \in Seq(S) /\ Len(SubSeq(s, 1, m)) = m
         /\ From(s, m + 1) \in Seq(S) /\ Len(From(s, m + 1)) = Len(s) - m
         /\ s = SubSeq(s, 1, m) \o From(s, m + 1)
         /\ \A i \in 1 .. Len(s) - m : From(s, m + 1)[i] = s[m + i]
<1>1. Len(s) \in Nat /\ m \in Nat /\ m <= Len(s) /\ \A i \in 1 .. Len(s) : s[i] \in S
  OBVIOUS
<1>2. SubSeq(s, 1, m) \in Seq(S) /\ Len(SubSeq(s, 1, m)) = m
  <2>1. \A i \in 1 .. m : s[i] \in S
    BY <1>1
  <2>2. SubSeq(s, 1, m) \in Seq(S) /\ Len(SubSeq(s, 1, m)) = IF 1 <= m THEN m - 1 + 1 ELSE 0
    BY <1>1, <2>1, SubSeqProperties
  <2> QED BY <1>1, <2>2
<1>3. /\ From(s, m + 1) \in Seq(S) /\ Len(From(s, m + 1)) = Len(s) - m
      /\ \A i \in 1 .. Len(s) - m : From(s, m + 1)[i] = s[m + i]
  <2>1. \A i \in m + 1 .. Len(s) : s[i] \in S
    BY <1>1
  <2>2. /\ SubSeq(s, m + 1, Len(s)) \in Seq(S)
        /\ Len(SubSeq(s, m + 1, Len(s))) = IF m + 1 <= Len(s) THEN Len(s) - (m + 1) + 1 ELSE 0
        /\ \A i \in 1 .. Len(s) - (m + 1) + 1 : SubSeq(s, m + 1, Len(s))[i] = s[(m + 1) + i - 1]
    <3>1. m + 1 \in Int /\ Len(s) \in Int
      BY <1>1
    <3> QED BY <2>1, <3>1, SubSeqProperties
  <2>3. Len(s) - (m + 1) + 1 = Len(s) - m /\ \A i \in 1 .. Len(s) - m : (m + 1) + i - 1 = m + i
    BY <1>1
  <2>4. (IF m + 1 <= Len(s) THEN Len(s) - (m + 1) + 1 ELSE 0) = Len(s) - m
    BY <1>1
  <2>5. From(s, m + 1) = SubSeq(s, m + 1, Len(s))
    BY DEF From
  <2> DEFINE f == SubSeq(s, m + 1, Len(s))
  <2>6. /\ f \in Seq(S) /\ Len(f) = Len(s) - m
        /\ \A i \in 1 .. Len(s) - (m + 1) + 1 : f[i] = s[(m + 1) + i - 1]
    BY <2>2, <2>4
  <2> HIDE DEF f
  <2>7. \A i \in 1 .. Len(s) - m : f[i] = s[m + i]
    BY <2>3, <2>6
  <2> QED BY <2>5, <2>6, <2>7 DEF f
<1>4. SubSeq(s, 1, m) \o SubSeq(s, m + 1, Len(s)) = SubSeq(s, 1, Len(s))
  <2>1. 1 \in 1 .. Len(s) + 1 /\ m \in 1 - 1 .. Len(s) /\ Len(s) \in m .. Len(s)
    BY <1>1
  <2> QED BY <2>1, ConcatAdjacentSubSeq
<1>5. SubSeq(s, 1, Len(s)) = s
  BY SubSeqFull
<1> QED BY <1>2, <1>3, <1>4, <1>5 DEF From

\* A text and what is before its end
LEMMA CutLast ==
  ASSUME NEW S, NEW s \in Seq(S), NEW n \in Nat
  PROVE  /\ Len(LastOf(s, n)) \in 0 .. Len(s)
         /\ s = SubSeq(s, 1, Len(s) - Len(LastOf(s, n))) \o LastOf(s, n)
         /\ \A m \in 0 .. Len(s) : From(s, m + 1) = LastOf(s, Len(s) - m)
<1>1. Len(s) \in Nat
  OBVIOUS
<1>2. \A m \in 0 .. Len(s) : From(s, m + 1) = LastOf(s, Len(s) - m)
  <2> SUFFICES ASSUME NEW m \in 0 .. Len(s) PROVE From(s, m + 1) = LastOf(s, Len(s) - m)
    OBVIOUS
  <2>1. (IF Len(s) > Len(s) - m THEN Len(s) - (Len(s) - m) + 1 ELSE 1) = m + 1
    BY <1>1
  <2> QED BY <2>1 DEF From, LastOf
<1>3. Len(LastOf(s, n)) \in 0 .. Len(s)
  BY <1>1, LastType
<1>4. LastOf(s, n) = From(s, (Len(s) - Len(LastOf(s, n))) + 1)
  <2>1. Len(LastOf(s, n)) = IF Len(s) > n THEN n ELSE Len(s)
    BY LastType
  <2>2. (IF Len(s) > n THEN Len(s) - n + 1 ELSE 1) = (Len(s) - Len(LastOf(s, n))) + 1
    BY <1>1, <2>1
  <2> QED BY <2>2 DEF From, LastOf
<1>5. Len(s) - Len(LastOf(s, n)) \in 0 .. Len(s)
  BY <1>1, <1>3
<1> QED BY <1>2, <1>3, <1>4, <1>5, Cut, ZenonT(30)

\* 1 .. n has n elements
LEMMA CountUpTo ==
  ASSUME NEW n \in Nat PROVE IsFiniteSet(1 .. n) /\ Cardinality(1 .. n) = n
<1>1. 1 \in Int /\ n \in Int
  OBVIOUS
<1>2. IsFiniteSet(1 .. n) /\ Cardinality(1 .. n) = IF 1 > n THEN 0 ELSE n - 1 + 1
  BY <1>1, FS_Interval
<1> QED BY <1>2

\* A set of indices that has what is below each of its members
LEMMA Downward ==
  ASSUME NEW n \in Nat, NEW D \in SUBSET (1 .. n), \A i \in D : 1 .. i \subseteq D
  PROVE  D = 1 .. Cardinality(D) /\ Cardinality(D) \in 0 .. n
<1> DEFINE V == {m \in Nat : m <= n => \E x \in 0 .. m : D \cap (1 .. m) = 1 .. x}
<1>1. 0 \in V
  OBVIOUS
<1>2. ASSUME NEW m \in Nat, m \in V PROVE m + 1 \in V
  <2> SUFFICES ASSUME m + 1 <= n PROVE \E x \in 0 .. m + 1 : D \cap (1 .. m + 1) = 1 .. x
    OBVIOUS
  <2>1. CASE m + 1 \in D
    <3>1. D \cap (1 .. m + 1) = 1 .. m + 1
      BY <2>1
    <3> QED BY <3>1
  <2>2. CASE m + 1 \notin D
    <3>1. PICK x \in 0 .. m : D \cap (1 .. m) = 1 .. x
      BY <1>2
    <3>2. D \cap (1 .. m + 1) = D \cap (1 .. m)
      BY <2>2
    <3> QED BY <3>1, <3>2
  <2> QED BY <2>1, <2>2
<1>3. n \in V
  <2>1. Nat \subseteq V
    <3> HIDE DEF V
    <3> QED BY <1>1, <1>2, Counting
  <2> HIDE DEF V
  <2> QED BY <2>1
<1>4. D \cap (1 .. n) = D
  OBVIOUS
<1>5. PICK x \in 0 .. n : D = 1 .. x
  <2>1. PICK x \in 0 .. n : D \cap (1 .. n) = 1 .. x
    BY <1>3
  <2>2. D = 1 .. x
    BY <1>4, <2>1, Zenon
  <2> QED BY <2>1, <2>2, Zenon
<1>6. Cardinality(1 .. x) = x
  BY <1>5, CountUpTo
<1> QED BY <1>5, <1>6

\* Sizes
LEMMA SizeConcat ==
  ASSUME NEW cs \in Seq(Texts), NEW ds \in Seq(Texts)
  PROVE  /\ FlattenSeq(cs) \in Texts /\ Size(cs) \in Nat /\ Size(cs) = Len(FlattenSeq(cs))
         /\ FlattenSeq(cs \o ds) = FlattenSeq(cs) \o FlattenSeq(ds)
         /\ Size(cs \o ds) = Size(cs) + Size(ds)
<1>1. FlattenSeq(cs \o ds) = FlattenSeq(cs) \o FlattenSeq(ds)
  BY FlattenConcat DEF Texts
<1>2. FlattenSeq(cs) \in Texts /\ FlattenSeq(ds) \in Texts
  BY FlattenType DEF Texts
<1> DEFINE a == FlattenSeq(cs)
           b == FlattenSeq(ds)
<1>3. Len(a) \in Nat /\ Len(b) \in Nat /\ Len(a \o b) = Len(a) + Len(b)
  <2>1. a \in Seq(Chars) /\ b \in Seq(Chars)
    BY <1>2 DEF Texts
  <2> HIDE DEF a, b
  <2> QED BY <2>1
<1> QED BY <1>1, <1>2, <1>3 DEF Size

\* One text, flattened
LEMMA FlattenOne == ASSUME NEW text \in Texts PROVE FlattenSeq(<<text>>) = text
<1>1. <<text>> = Append(<<>>, text) /\ <<>> \in Seq(Texts)
  BY EmptySeq
<1>2. FlattenSeq(Append(<<>>, text)) = FlattenSeq(<<>>) \o text
  BY <1>1, FlattenAppend DEF Texts
<1> QED BY <1>1, <1>2, FlattenEmpty, ConcatEmptySeq DEF Texts

\* A text in front of others
LEMMA FlattenFirst ==
  ASSUME NEW cs \in Seq(Texts), cs # <<>>
  PROVE  /\ cs[1] \in Texts /\ Tail(cs) \in Seq(Texts)
         /\ FlattenSeq(cs) = cs[1] \o FlattenSeq(Tail(cs))
         /\ Size(cs) = Len(cs[1]) + Size(Tail(cs))
         /\ \A text \in Texts :
              [cs EXCEPT ![1] = text] \in Seq(Texts)
              /\ FlattenSeq([cs EXCEPT ![1] = text]) = text \o FlattenSeq(Tail(cs))
<1>1. Len(cs) \in Nat \ {0} /\ cs[1] \in Texts /\ Tail(cs) \in Seq(Texts)
      /\ Len(Tail(cs)) = Len(cs) - 1
      /\ \A i \in 1 .. Len(Tail(cs)) : Tail(cs)[i] = cs[i + 1]
  BY EmptySeq, HeadTailProperties
<1>2. \A text \in Texts : [cs EXCEPT ![1] = text] \in Seq(Texts)
      /\ [cs EXCEPT ![1] = text] = <<text>> \o Tail(cs)
  <2> SUFFICES ASSUME NEW text \in Texts
               PROVE  [cs EXCEPT ![1] = text] \in Seq(Texts)
                      /\ [cs EXCEPT ![1] = text] = <<text>> \o Tail(cs)
    OBVIOUS
  <2> DEFINE a == [cs EXCEPT ![1] = text]
             t == Tail(cs)
             b == <<text>> \o t
  <2>1. /\ a \in Seq(Texts) /\ Len(a) = Len(cs)
        /\ \A j \in 1 .. Len(cs) : a[j] = IF j = 1 THEN text ELSE cs[j]
    <3>1. 1 \in 1 .. Len(cs)
      BY <1>1
    <3> QED BY <3>1, ExceptSeq
  <2>2. /\ b \in Seq(Texts) /\ Len(b) = 1 + Len(t)
        /\ \A i \in 1 .. 1 + Len(t) : b[i] = IF i <= 1 THEN text ELSE t[i - 1]
    <3>1. <<text>> \in Seq(Texts) /\ t \in Seq(Texts) /\ Len(<<text>>) = 1
      BY <1>1
    <3>2. /\ b \in Seq(Texts) /\ Len(b) = Len(<<text>>) + Len(t)
          /\ \A i \in 1 .. Len(<<text>>) + Len(t) : b[i] = IF i <= Len(<<text>>)
               THEN <<text>>[i] ELSE t[i - Len(<<text>>)]
      <4> HIDE DEF t
      <4> QED BY <3>1, ConcatProperties
    <3>3. \A i \in 1 .. 1 + Len(t) : i <= 1 => <<text>>[i] = text
      OBVIOUS
    <3> HIDE DEF b, t
    <3> QED BY <3>1, <3>2, <3>3
  <2>3. t = Tail(cs)
    OBVIOUS
  <2> HIDE DEF a, b, t
  <2>4. \A i \in 1 .. Len(a) : a[i] = b[i]
    BY <1>1, <2>1, <2>2, <2>3
  <2>5. a = b
    BY <1>1, <2>1, <2>2, <2>3, <2>4, SeqEqual
  <2> QED BY <2>1, <2>5 DEF a, b, t
<1>3. \A text \in Texts : FlattenSeq(<<text>> \o Tail(cs)) = text \o FlattenSeq(Tail(cs))
                          /\ Size(<<text>> \o Tail(cs)) = Len(text) + Size(Tail(cs))
  <2> SUFFICES ASSUME NEW text \in Texts
               PROVE  FlattenSeq(<<text>> \o Tail(cs)) = text \o FlattenSeq(Tail(cs))
                          /\ Size(<<text>> \o Tail(cs)) = Len(text) + Size(Tail(cs))
    OBVIOUS
  <2>1. <<text>> \in Seq(Texts)
    OBVIOUS
  <2>2. FlattenSeq(<<text>>) = text /\ Size(<<text>>) = Len(text)
    BY FlattenOne DEF Size
  <2> DEFINE t == Tail(cs)
  <2>3. t \in Seq(Texts)
    BY <1>1
  <2>4. /\ FlattenSeq(<<text>> \o t) = FlattenSeq(<<text>>) \o FlattenSeq(t)
        /\ Size(<<text>> \o t) = Size(<<text>>) + Size(t)
    <3> HIDE DEF t
    <3> QED BY <2>1, <2>3, SizeConcat
  <2> QED BY <2>2, <2>4
<1>4. [cs EXCEPT ![1] = cs[1]] = cs
  OBVIOUS
<1>5. cs = <<cs[1]>> \o Tail(cs)
  BY <1>1, <1>2, <1>4
<1>6. FlattenSeq(cs) = cs[1] \o FlattenSeq(Tail(cs)) /\ Size(cs) = Len(cs[1]) + Size(Tail(cs))
  BY <1>1, <1>3, <1>5
<1> QED BY <1>1, <1>2, <1>3, <1>6

\* real_tail_bytes is a positive number
LEMMA TailPositive == Tail_bytes \in Nat \ {0}
BY ScanConfig

\* The rest of a rest
LEMMA FromFrom ==
  ASSUME NEW S, NEW s \in Seq(S), NEW j \in 0 .. Len(s), NEW d \in 0 .. Len(s) - j
  PROVE  From(From(s, j + 1), d + 1) = From(s, (j + d) + 1)
<1> DEFINE f == From(s, j + 1)
           g == From(f, d + 1)
           h == From(s, (j + d) + 1)
<1>1. Len(s) \in Nat /\ j + d \in 0 .. Len(s)
  OBVIOUS
<1>2. f \in Seq(S) /\ Len(f) = Len(s) - j /\ \A m \in 1 .. Len(s) - j : f[m] = s[j + m]
  BY Cut
<1>3. /\ h \in Seq(S) /\ Len(h) = Len(s) - (j + d)
      /\ \A m \in 1 .. Len(s) - (j + d) : h[m] = s[(j + d) + m]
  <2>1. PICK e \in 0 .. Len(s) : e = j + d
    BY <1>1
  <2>2. /\ From(s, e + 1) \in Seq(S) /\ Len(From(s, e + 1)) = Len(s) - e
        /\ \A m \in 1 .. Len(s) - e : From(s, e + 1)[m] = s[e + m]
    BY <2>1, Cut
  <2> QED BY <2>1, <2>2
<1> HIDE DEF f
<1>4. /\ g \in Seq(S) /\ Len(g) = Len(f) - d
      /\ \A m \in 1 .. Len(f) - d : g[m] = f[d + m]
  <2>1. f \in Seq(S) /\ d \in 0 .. Len(f)
    BY <1>2
  <2> QED BY <2>1, Cut
<1> HIDE DEF g, h
<1>5. Len(g) = Len(h)
  BY <1>1, <1>2, <1>3, <1>4
<1>6. \A m \in 1 .. Len(g) : g[m] = h[m]
  <2> SUFFICES ASSUME NEW m \in 1 .. Len(g) PROVE g[m] = h[m]
    OBVIOUS
  <2>1. m \in 1 .. Len(f) - d /\ m \in 1 .. Len(s) - (j + d) /\ d + m \in 1 .. Len(s) - j
        /\ j + (d + m) = (j + d) + m
    BY <1>1, <1>2, <1>4
  <2> QED BY <1>2, <1>3, <1>4, <2>1
<1>7. g = h
  BY <1>3, <1>4, <1>5, <1>6, SeqEqual
<1> QED BY <1>7 DEF f, g, h

\* Fewer chunks hold no more
LEMMA SizeFrom ==
  ASSUME NEW cs \in Seq(Texts), NEW i \in 0 .. Len(cs)
  PROVE  /\ Size(From(cs, i + 1)) \in Nat
         /\ \A j \in 0 .. i : Size(From(cs, j + 1)) >= Size(From(cs, i + 1))
<1>1. From(cs, i + 1) \in Seq(Texts) /\ Len(cs) \in Nat
  BY Cut
<1>2. Size(From(cs, i + 1)) \in Nat
  BY <1>1, SizeConcat
<1>3. ASSUME NEW j \in 0 .. i PROVE Size(From(cs, j + 1)) >= Size(From(cs, i + 1))
  <2>1. j \in 0 .. Len(cs) /\ i - j \in 0 .. Len(cs) - j
    BY <1>1
  <2> DEFINE f == From(cs, j + 1)
  <2>2. f \in Seq(Texts) /\ Len(f) = Len(cs) - j
    BY <2>1, Cut
  <2>3. From(f, (i - j) + 1) = From(cs, i + 1)
    <3>1. i - j \in 0 .. Len(cs) - j /\ j + (i - j) = i
      BY <1>1
    <3>2. \A m \in 0 .. Len(cs) - j : From(f, m + 1) = From(cs, (j + m) + 1)
      BY <2>1, FromFrom
    <3> HIDE DEF f
    <3> QED BY <3>1, <3>2
  <2>4. f = SubSeq(f, 1, i - j) \o From(f, (i - j) + 1) /\ SubSeq(f, 1, i - j) \in Seq(Texts)
    <3>1. i - j \in 0 .. Len(f)
      BY <2>1, <2>2
    <3> HIDE DEF f
    <3> QED BY <2>2, <3>1, Cut, ZenonT(30)
  <2> HIDE DEF f
  <2> DEFINE p == SubSeq(f, 1, i - j)
             q == From(cs, i + 1)
  <2>5. f = p \o q /\ p \in Seq(Texts) /\ q \in Seq(Texts)
    BY <1>1, <2>3, <2>4
  <2>6. Size(f) = Size(p) + Size(q) /\ Size(p) \in Nat /\ Size(q) \in Nat
    <3> HIDE DEF p, q
    <3> QED BY <2>5, SizeConcat
  <2>7. Size(f) >= Size(q)
    <3> HIDE DEF p, q
    <3> QED BY <2>6
  <2> QED BY <2>7 DEF f
<1> QED BY <1>2, <1>3

\* The chunks that popleft leaves: enough of them, and none to spare
LEMMA SpareGone ==
  ASSUME NEW cs \in Seq(Texts)
  PROVE  \E m \in 0 .. Len(cs) :
           /\ WithoutSpare(cs) = From(cs, m + 1)
           /\ m = 0 \/ Size(From(cs, m + 1)) >= Tail_bytes
           /\ m = Len(cs) \/ Size(From(cs, m + 2)) < Tail_bytes
<1> DEFINE D == {i \in DOMAIN cs : Size(From(cs, i + 1)) >= Tail_bytes}
           n == Len(cs)
           m == Cardinality(D)
<1>1. n \in Nat /\ DOMAIN cs = 1 .. n /\ Tail_bytes \in Nat
  BY TailPositive
<1>2. D \in SUBSET (1 .. n)
  BY <1>1
<1>3. \A i \in D : 1 .. i \subseteq D
  <2> SUFFICES ASSUME NEW i \in D, NEW j \in 1 .. i PROVE j \in D
    OBVIOUS
  <2>1. i \in 0 .. n /\ j \in 0 .. i /\ j \in 1 .. n
    BY <1>1
  <2>2. Size(From(cs, j + 1)) >= Size(From(cs, i + 1)) /\ Size(From(cs, i + 1)) \in Nat
    BY <2>1, SizeFrom
  <2>3. Size(From(cs, j + 1)) \in Nat
    <3>1. j \in 0 .. Len(cs)
      BY <2>1
    <3> QED BY <3>1, SizeFrom
  <2> QED BY <1>1, <2>1, <2>2, <2>3
<1>4. D = 1 .. m /\ m \in 0 .. n
  <2> HIDE DEF D, n
  <2> QED BY <1>1, <1>2, <1>3, Downward
<1>5. WithoutSpare(cs) = From(cs, m + 1)
  <2>1. WithoutSpare(cs) = From(cs, 1 + m)
    BY DEF WithoutSpare
  <2>2. 1 + m = m + 1
    BY <1>4
  <2> QED BY <2>1, <2>2
<1>6. m = 0 \/ Size(From(cs, m + 1)) >= Tail_bytes
  <2>1. m # 0 => m \in 1 .. m
    BY <1>4
  <2>2. m # 0 => m \in D
    <3> HIDE DEF D
    <3> QED BY <1>4, <2>1
  <2>3. \A i \in D : Size(From(cs, i + 1)) >= Tail_bytes
    OBVIOUS
  <2> HIDE DEF D
  <2> QED BY <2>2, <2>3
<1>7. m = n \/ Size(From(cs, m + 2)) < Tail_bytes
  <2> SUFFICES ASSUME m # n PROVE Size(From(cs, m + 2)) < Tail_bytes
    OBVIOUS
  <2>1. m + 1 \in DOMAIN cs /\ (m + 1) + 1 = m + 2 /\ m + 1 \in 0 .. Len(cs)
    BY <1>1, <1>4
  <2>2. m + 1 \notin D
    <3>1. m + 1 \notin 1 .. m
      BY <1>4
    <3> HIDE DEF D
    <3> QED BY <1>4, <3>1
  <2>3. ~ (Size(From(cs, (m + 1) + 1)) >= Tail_bytes)
    BY <2>1, <2>2
  <2>4. Size(From(cs, (m + 1) + 1)) \in Nat
    <3> HIDE DEF m
    <3> QED BY <2>1, SizeFrom
  <2> HIDE DEF m
  <2> QED BY <1>1, <2>1, <2>3, <2>4
<1> QED BY <1>4, <1>5, <1>6, <1>7

\* The first chunk of a rest that is not empty
LEMMA FromStep ==
  ASSUME NEW cs \in Seq(Texts), NEW m \in 0 .. Len(cs), m # Len(cs)
  PROVE  From(cs, m + 1) # <<>> /\ Tail(From(cs, m + 1)) = From(cs, m + 2)
<1>1. m + 1 \in 1 .. Len(cs) /\ Len(cs) \in m + 1 .. Len(cs) /\ (m + 1) + 1 = m + 2
  OBVIOUS
<1>2. Tail(SubSeq(cs, m + 1, Len(cs))) = SubSeq(cs, (m + 1) + 1, Len(cs))
  BY <1>1, HeadTailOfSubSeq
<1>3. Len(From(cs, m + 1)) = Len(cs) - m
  BY Cut
<1>4. Len(<<>>) = 0 /\ Len(cs) - m # 0
  BY <1>1
<1> QED BY <1>1, <1>2, <1>3, <1>4 DEF From

\* The window that slides over a stream ends as the end of the stream
LEMMA TrimKeeps ==
  ASSUME NEW cs \in Seq(Texts)
  PROVE  Trim(cs) \in Seq(Texts) /\ FlattenSeq(Trim(cs)) = LastOf(FlattenSeq(cs), Tail_bytes)
<1>1. PICK m \in 0 .. Len(cs) :
        /\ WithoutSpare(cs) = From(cs, m + 1)
        /\ m = 0 \/ Size(From(cs, m + 1)) >= Tail_bytes
        /\ m = Len(cs) \/ Size(From(cs, m + 2)) < Tail_bytes
  BY SpareGone
<1> DEFINE kept == WithoutSpare(cs)
           spare == SubSeq(cs, 1, m)
<1>2. kept = From(cs, m + 1) /\ kept \in Seq(Texts) /\ spare \in Seq(Texts) /\ cs = spare \o kept
  BY <1>1, Cut, ZenonT(30)
<1>3. Tail_bytes \in Nat \ {0}
  BY TailPositive
<1>4. m = 0 => cs = kept
  <2>1. m = 0 => From(cs, m + 1) = SubSeq(cs, 1, Len(cs))
    BY DEF From
  <2> QED BY <1>2, <2>1, SubSeqFull
<1>5. m = 0 \/ Size(kept) >= Tail_bytes
  BY <1>1
<1>6. Trim(cs) = IF Size(kept) - Tail_bytes > 0
                 THEN [kept EXCEPT ![1] = From(@, (Size(kept) - Tail_bytes) + 1)] ELSE kept
  BY DEF Trim
<1>7. Size(kept) > Tail_bytes => kept # <<>> /\ Size(Tail(kept)) < Tail_bytes
  <2> SUFFICES ASSUME Size(kept) > Tail_bytes PROVE kept # <<>> /\ Size(Tail(kept)) < Tail_bytes
    OBVIOUS
  <2>1. m # Len(cs)
    <3> SUFFICES ASSUME m = Len(cs) PROVE FALSE
      OBVIOUS
    <3>1. Len(From(cs, m + 1)) = Len(cs) - m /\ Len(cs) \in Nat
      BY <1>1, Cut
    <3>2. Len(kept) = 0
      BY <1>2, <3>1
    <3>3. kept = <<>>
      <4> HIDE DEF kept
      <4> QED BY <1>2, <3>2, EmptySeq
    <3>4. Size(kept) = 0
      BY <3>3, FlattenEmpty DEF Size
    <3> QED BY <1>3, <3>4
  <2> HIDE DEF kept
  <2> QED BY <1>1, <1>2, <2>1, FromStep
<1> HIDE DEF kept, spare
<1>8. /\ FlattenSeq(cs) = FlattenSeq(spare) \o FlattenSeq(kept)
      /\ FlattenSeq(spare) \in Texts /\ FlattenSeq(kept) \in Texts
      /\ Size(kept) = Len(FlattenSeq(kept)) /\ Size(kept) \in Nat
  BY <1>2, SizeConcat
<1> DEFINE s == FlattenSeq(spare)
           t == FlattenSeq(kept)
<1>9. FlattenSeq(cs) = s \o t /\ s \in Seq(Chars) /\ t \in Seq(Chars) /\ Len(t) \in Nat
      /\ Size(kept) = Len(t)
  BY <1>8 DEF Texts
<1>10. LastOf(FlattenSeq(cs), Tail_bytes) = LastOf(t, Tail_bytes)
  <2>1. CASE m = 0
    BY <1>4, <2>1
  <2>2. CASE m # 0
    <3>1. Len(t) >= Tail_bytes
      BY <1>5, <1>9, <2>2
    <3> HIDE DEF s, t
    <3>2. LastOf(s \o t, Tail_bytes) = LastOf(t, Tail_bytes)
      BY <1>3, <1>9, <3>1, LastConcat
    <3> QED BY <1>9, <3>2
  <2> QED BY <2>1, <2>2
<1>11. CASE ~ (Size(kept) - Tail_bytes > 0)
  <2>1. Trim(cs) = kept
    BY <1>6, <1>11
  <2>2. Len(t) <= Tail_bytes
    BY <1>3, <1>9, <1>11
  <2>3. LastOf(t, Tail_bytes) = t
    <3> HIDE DEF s, t
    <3> QED BY <1>3, <1>9, <2>2, LastWhole
  <2> QED BY <1>2, <1>10, <2>1, <2>3
<1>12. CASE Size(kept) - Tail_bytes > 0
  <2> DEFINE e == Size(kept) - Tail_bytes
             first == kept[1]
             r == Tail(kept)
             cut == From(first, e + 1)
  <2>1. Size(kept) > Tail_bytes
    BY <1>3, <1>8, <1>12
  <2>2. kept # <<>> /\ Size(r) < Tail_bytes
    BY <1>7, <2>1
  <2>3. /\ first \in Texts /\ r \in Seq(Texts) /\ t = first \o FlattenSeq(r)
        /\ Size(kept) = Len(first) + Size(r)
        /\ \A text \in Texts :
              [kept EXCEPT ![1] = text] \in Seq(Texts)
              /\ FlattenSeq([kept EXCEPT ![1] = text]) = text \o FlattenSeq(r)
    BY <1>2, <2>2, FlattenFirst
  <2>4. FlattenSeq(r) \in Texts /\ Size(r) \in Nat /\ Size(r) = Len(FlattenSeq(r))
    BY <2>3, SizeConcat
  <2>5. e \in 0 .. Len(first) /\ e \in 1 .. Len(first)
    <3>1. Len(first) \in Nat
      <4> HIDE DEF first
      <4> QED BY <2>3 DEF Texts
    <3> HIDE DEF first, r
    <3> QED BY <1>3, <1>8, <1>12, <2>2, <2>3, <2>4, <3>1
  <2>6. /\ cut \in Texts /\ Len(cut) = Len(first) - e
        /\ first = SubSeq(first, 1, e) \o cut /\ SubSeq(first, 1, e) \in Seq(Chars)
    <3>1. first \in Seq(Chars)
      BY <2>3 DEF Texts
    <3> HIDE DEF first, e
    <3> QED BY <2>5, <3>1, Cut DEF Texts
  <2>7. Trim(cs) = [kept EXCEPT ![1] = cut]
    BY <1>6, <1>12
  <2>8. Trim(cs) \in Seq(Texts) /\ FlattenSeq(Trim(cs)) = cut \o FlattenSeq(r)
    <3> HIDE DEF cut, r
    <3> QED BY <2>3, <2>6, <2>7
  <2> DEFINE p == SubSeq(first, 1, e)
             q == cut
             f == FlattenSeq(r)
  <2>9. p \in Seq(Chars) /\ q \in Seq(Chars) /\ f \in Seq(Chars)
    BY <2>4, <2>6 DEF Texts
  <2>10. t = (p \o q) \o f
    BY <2>3, <2>6
  <2>11. Len(q) + Len(f) = Tail_bytes
    <3>1. Len(q) = Len(first) - e
      BY <2>6
    <3>2. Len(f) = Size(r)
      BY <2>4
    <3>3. e = Size(kept) - Tail_bytes
      OBVIOUS
    <3>4. Len(first) \in Nat
      <4> HIDE DEF first
      <4> QED BY <2>3 DEF Texts
    <3> HIDE DEF e, first, r, cut, f, q
    <3> QED BY <1>3, <1>8, <2>3, <2>4, <3>1, <3>2, <3>3, <3>4, SMTT(30)
  <2> HIDE DEF t, p, q, f
  <2>12. (p \o q) \o f = p \o (q \o f)
    BY <2>9, ConcatAssociative, SMTT(30)
  <2>13. q \o f \in Seq(Chars) /\ Len(q \o f) = Tail_bytes
    BY <2>9, <2>11, ConcatProperties
  <2>14. LastOf(p \o (q \o f), Tail_bytes) = LastOf(q \o f, Tail_bytes)
    <3> DEFINE qf == q \o f
    <3>1. qf \in Seq(Chars) /\ Len(qf) >= Tail_bytes /\ Tail_bytes \in Nat
      BY <1>3, <2>13
    <3> HIDE DEF qf
    <3>2. LastOf(p \o qf, Tail_bytes) = LastOf(qf, Tail_bytes)
      BY <2>9, <3>1, LastConcat
    <3> QED BY <3>2 DEF qf
  <2>15. LastOf(q \o f, Tail_bytes) = q \o f
    <3>1. Len(q \o f) <= Tail_bytes /\ Tail_bytes \in Nat
      BY <1>3, <2>13
    <3> QED BY <2>13, <3>1, LastWhole
  <2> QED BY <1>10, <2>8, <2>10, <2>12, <2>14, <2>15 DEF q, f
<1> QED BY <1>11, <1>12

----------------------------------------------------------------------------
(* Windows.                                                                 *)

\* What was read of a text, and the window that slid over it
Slid(part, rest, window, n) ==
  \E m \in 0 .. Len(part) : rest = From(part, m + 1) /\ window = LastOf(SubSeq(part, 1, m), n)

\* Nothing was read
LEMMA SlidStart ==
  ASSUME NEW part \in Texts, NEW n \in Nat PROVE Slid(part, part, <<>>, n)
<1>1. part \in Seq(Chars) /\ 0 \in 0 .. Len(part) /\ SubSeq(part, 1, 0) = <<>>
      /\ From(part, 0 + 1) = part
  <2>1. part \in Seq(Chars) /\ Len(part) \in Nat
    BY DEF Texts
  <2>2. SubSeq(part, 1, Len(part)) = part
    BY <2>1, SubSeqFull
  <2> QED BY <2>1, <2>2, SubSeqEmpty DEF From
<1>2. <<>> \in Seq(Chars) /\ Len(<<>>) <= n
  BY EmptySeq
<1>3. LastOf(<<>>, n) = <<>>
  BY <1>2, LastWhole
<1> QED BY <1>1, <1>3 DEF Slid

\* What is left and what is seen are texts
LEMMA SlidType ==
  ASSUME NEW part \in Texts, NEW rest, NEW window, NEW n \in Nat, Slid(part, rest, window, n)
  PROVE  rest \in Texts /\ window \in Texts
<1>1. PICK m \in 0 .. Len(part) : rest = From(part, m + 1) /\ window = LastOf(SubSeq(part, 1, m), n)
  BY DEF Slid
<1>2. part \in Seq(Chars) /\ m \in 0 .. Len(part)
  BY <1>1 DEF Texts
<1>3. SubSeq(part, 1, m) \in Seq(Chars) /\ From(part, m + 1) \in Seq(Chars)
  BY <1>2, Cut
<1>4. LastOf(SubSeq(part, 1, m), n) \in Seq(Chars)
  BY <1>3, LastType
<1> QED BY <1>1, <1>3, <1>4 DEF Texts

\* A chunk is read and the window moved to its end
LEMMA SlidStep ==
  ASSUME NEW part \in Texts, NEW rest, NEW window, NEW n \in Nat, Slid(part, rest, window, n),
         NEW p \in 1 .. Len(rest)
  PROVE  /\ SubSeq(rest, 1, p) \in Texts
         /\ Slid(part, From(rest, p + 1), LastOf(window \o SubSeq(rest, 1, p), n), n)
<1>1. PICK m \in 0 .. Len(part) : rest = From(part, m + 1) /\ window = LastOf(SubSeq(part, 1, m), n)
  BY DEF Slid
<1>2. part \in Seq(Chars) /\ m \in 0 .. Len(part) /\ Len(part) \in Nat
  BY <1>1 DEF Texts
<1>3. rest \in Seq(Chars) /\ Len(rest) = Len(part) - m /\ SubSeq(part, 1, m) \in Seq(Chars)
  BY <1>1, <1>2, Cut
<1>4. p \in 0 .. Len(rest) /\ p \in Nat /\ p \in 0 .. Len(part) - m /\ m + p \in 0 .. Len(part)
  BY <1>2, <1>3
<1>5. From(rest, p + 1) = From(part, (m + p) + 1)
  BY <1>1, <1>2, <1>4, FromFrom
<1>6. SubSeq(rest, 1, p) = SubSeq(part, m + 1, m + p)
  <2>1. /\ m + 1 \in 1 .. Len(part) /\ Len(part) \in 1 .. Len(part)
        /\ 1 \in 1 .. Len(part) - (m + 1) + 1 /\ p \in 1 .. Len(part) - (m + 1) + 1
    BY <1>2, <1>3
  <2>2. SubSeq(SubSeq(part, m + 1, Len(part)), 1, p)
          = SubSeq(part, (m + 1) + 1 - 1, (m + 1) + p - 1)
    BY <1>2, <2>1, SubSeqOfSubSeq
  <2>3. (m + 1) + 1 - 1 = m + 1 /\ (m + 1) + p - 1 = m + p
    BY <1>2, <1>4
  <2> QED BY <1>1, <2>2, <2>3 DEF From
<1>7. SubSeq(part, 1, m) \o SubSeq(part, m + 1, m + p) = SubSeq(part, 1, m + p)
  <2>1. 1 \in 1 .. Len(part) + 1 /\ m \in 1 - 1 .. Len(part) /\ m + p \in m .. Len(part)
    BY <1>2, <1>4
  <2> QED BY <1>2, <2>1, ConcatAdjacentSubSeq
<1>8. SubSeq(rest, 1, p) \in Seq(Chars)
  BY <1>3, <1>4, Cut
<1> DEFINE s == SubSeq(part, 1, m)
           t == SubSeq(rest, 1, p)
<1>9. LastOf(LastOf(s, n) \o t, n) = LastOf(s \o t, n)
  <2>1. s \in Seq(Chars) /\ t \in Seq(Chars)
    BY <1>3, <1>8
  <2> HIDE DEF s, t
  <2> QED BY <2>1, LastAgain
<1>10. LastOf(window \o SubSeq(rest, 1, p), n) = LastOf(SubSeq(part, 1, m + p), n)
  BY <1>1, <1>6, <1>7, <1>9
<1> QED BY <1>4, <1>5, <1>8, <1>10 DEF Slid, Texts

\* Everything was read: the window is the end of the text
LEMMA SlidEnd ==
  ASSUME NEW part \in Texts, NEW window, NEW n \in Nat, Slid(part, <<>>, window, n)
  PROVE  window = LastOf(part, n)
<1>1. PICK m \in 0 .. Len(part) : <<>> = From(part, m + 1) /\ window = LastOf(SubSeq(part, 1, m), n)
  BY DEF Slid
<1>2. part \in Seq(Chars) /\ m \in 0 .. Len(part) /\ Len(part) \in Nat
  BY <1>1 DEF Texts
<1>3. Len(From(part, m + 1)) = Len(part) - m
  BY <1>2, Cut
<1>4. m = Len(part)
  BY <1>1, <1>2, <1>3, EmptySeq
<1> QED BY <1>1, <1>2, <1>4, SubSeqFull

----------------------------------------------------------------------------
(* Sequences that grow                                                      *)

\* A sequence that is another one with one element more
LEMMA OneMoreIs ==
  ASSUME NEW S, NEW g \in Seq(S), NEW h \in Seq(S), Len(h) = Len(g) + 1,
         \A i \in 1 .. Len(g) : g[i] = h[i]
  PROVE  h[Len(h)] \in S /\ h = Append(g, h[Len(h)])
<1>1. Len(g) \in Nat /\ Len(h) \in 1 .. Len(h)
  OBVIOUS
<1>2. h[Len(h)] \in S
  BY <1>1, ElementOfSeq
<1>3. PICK e \in S : e = h[Len(h)]
  BY <1>2
<1> DEFINE a == Append(g, e)
<1>4. /\ a \in Seq(S) /\ Len(a) = Len(g) + 1 /\ a[Len(g) + 1] = e
      /\ \A i \in 1 .. Len(g) : a[i] = g[i]
  BY <1>3, AppendProperties
<1> HIDE DEF a
<1>5. \A i \in 1 .. Len(h) : h[i] = a[i]
  BY <1>1, <1>3, <1>4
<1>6. h = a
  BY <1>4, <1>5, SeqEqual
<1> QED BY <1>2, <1>3, <1>6 DEF a

\* A list of sequences with one sequence more, flattened
LEMMA FlattenOneMore ==
  ASSUME NEW S, NEW g \in Seq(Seq(S)), NEW h \in Seq(Seq(S)), Len(h) = Len(g) + 1,
         \A i \in 1 .. Len(g) : g[i] = h[i]
  PROVE  FlattenSeq(h) = FlattenSeq(g) \o h[Len(h)]
<1>1. h[Len(h)] \in Seq(S) /\ h = Append(g, h[Len(h)])
  BY OneMoreIs
<1>2. PICK e \in Seq(S) : e = h[Len(h)]
  BY <1>1
<1>3. FlattenSeq(Append(g, e)) = FlattenSeq(g) \o e
  BY <1>2, FlattenAppend
<1> QED BY <1>1, <1>2, <1>3

\* Empty sequences, flattened
LEMMA FlattenNothing ==
  ASSUME NEW S, NEW seqs \in Seq(Seq(S)), \A i \in 1 .. Len(seqs) : seqs[i] = <<>>
  PROVE  FlattenSeq(seqs) = <<>>
<1> DEFINE T == {s \in Seq(Seq(S)) : (\A i \in 1 .. Len(s) : s[i] = <<>>) => FlattenSeq(s) = <<>>}
<1>1. <<>> \in T
  BY FlattenEmpty, EmptySeq
<1>2. ASSUME NEW s \in Seq(Seq(S)), NEW x \in Seq(S), s \in T PROVE Append(s, x) \in T
  <2>1. Append(s, x) \in Seq(Seq(S)) /\ Len(Append(s, x)) = Len(s) + 1
        /\ Append(s, x)[Len(s) + 1] = x
        /\ Len(s) \in Nat /\ \A i \in 1 .. Len(s) : Append(s, x)[i] = s[i]
    OBVIOUS
  <2> SUFFICES ASSUME \A i \in 1 .. Len(Append(s, x)) : Append(s, x)[i] = <<>>
               PROVE  FlattenSeq(Append(s, x)) = <<>>
    BY <2>1
  <2>2. x = <<>> /\ \A i \in 1 .. Len(s) : s[i] = <<>>
    BY <2>1
  <2>3. FlattenSeq(Append(s, x)) = FlattenSeq(s) \o x
    BY FlattenAppend
  <2>4. FlattenSeq(s) = <<>>
    BY <1>2, <2>2
  <2>5. <<>> \o x = x
    BY ConcatEmptySeq
  <2> QED BY <2>2, <2>3, <2>4, <2>5
<1>3. Seq(Seq(S)) \subseteq T
  <2> HIDE DEF T
  <2> QED BY <1>1, <1>2, Appending
<1> QED BY <1>3

\* Sequences that begin with others, flattened
LEMMA FlattenSplit ==
  ASSUME NEW S, NEW g \in Seq(Seq(S)), NEW h \in Seq(Seq(S)), Len(g) <= Len(h),
         \A i \in 1 .. Len(g) : g[i] = h[i]
  PROVE  /\ \E r \in Seq(S) : FlattenSeq(h) = FlattenSeq(g) \o r
         /\ (\A i \in Len(g) + 1 .. Len(h) : h[i] = <<>>) => FlattenSeq(h) = FlattenSeq(g)
<1>1. Len(g) \in Nat /\ Len(h) \in Nat /\ Len(g) \in 0 .. Len(h)
  OBVIOUS
<1> DEFINE n == Len(g)
           r == From(h, n + 1)
           p == SubSeq(h, 1, n)
<1>2. /\ p \in Seq(Seq(S)) /\ Len(p) = n /\ r \in Seq(Seq(S)) /\ Len(r) = Len(h) - n
      /\ h = p \o r /\ \A i \in 1 .. Len(h) - n : r[i] = h[n + i]
  BY <1>1, Cut, ZenonT(30)
<1>3. \A i \in 1 .. n : p[i] = h[i]
  <2>1. \A i \in 1 .. Len(p) : (p \o r)[i] = p[i]
    <3>1. /\ \A i \in 1 .. Len(p) + Len(r) : (p \o r)[i] = IF i <= Len(p)
               THEN p[i] ELSE r[i - Len(p)]
          /\ Len(p) \in Nat /\ Len(r) \in Nat
      <4> HIDE DEF p, r, n
      <4> QED BY <1>2, ConcatProperties
    <3> HIDE DEF p, r, n
    <3> QED BY <3>1
  <2> HIDE DEF p, r, n
  <2> QED BY <1>2, <2>1
<1>4. p = g
  <2>1. \A i \in 1 .. Len(p) : p[i] = g[i]
    <3> HIDE DEF p
    <3> QED BY <1>2, <1>3
  <2> HIDE DEF p
  <2> QED BY <1>2, <2>1, SeqEqual
<1>5. FlattenSeq(h) = FlattenSeq(g) \o FlattenSeq(r) /\ FlattenSeq(r) \in Seq(S)
      /\ FlattenSeq(g) \in Seq(S)
  <2> HIDE DEF p, r
  <2> QED BY <1>2, <1>4, FlattenConcat, FlattenType
<1>6. ASSUME \A i \in Len(g) + 1 .. Len(h) : h[i] = <<>> PROVE FlattenSeq(h) = FlattenSeq(g)
  <2>1. \A i \in 1 .. Len(r) : r[i] = <<>>
    <3> HIDE DEF r
    <3>1. \A i \in 1 .. Len(h) - n : n + i \in Len(g) + 1 .. Len(h)
      BY <1>1
    <3> HIDE DEF n
    <3> QED BY <1>2, <1>6, <3>1
  <2>2. FlattenSeq(r) = <<>>
    <3> HIDE DEF r
    <3> QED BY <1>2, <2>1, FlattenNothing
  <2>3. FlattenSeq(g) \o <<>> = FlattenSeq(g)
    <3> DEFINE f == FlattenSeq(g)
    <3>1. f \in Seq(S)
      BY <1>5
    <3> HIDE DEF f
    <3>2. f \o <<>> = f
      BY <3>1, ConcatEmptySeq
    <3> QED BY <3>2 DEF f
  <2> QED BY <1>5, <2>2, <2>3
<1> QED BY <1>5, <1>6

\* What the zip script gives for a member
Piece(parts, i) ==
  IF i <= MaxEntries /\ Size(SubSeq(parts, 1, i)) <= MaxTotal /\ Share(parts, i) > 0
  THEN <<NL, NL>> \o WholeLines(LastOf(parts[i], Share(parts, i)))
  ELSE <<>>

\* What there may be to scan
LEMMA InputFacts ==
  ASSUME NEW input \in Inputs
  PROVE  /\ Len(input) \in Nat /\ DOMAIN input = 1 .. Len(input) /\ (Len(input) = 0 => input = <<>>)
         /\ \A i \in 1 .. Len(input) :
              /\ input[i].kind \in Kinds /\ input[i].parts \in Seq(Texts)
              /\ input[i].kind # "zip" => Len(input[i].parts) = 1 /\ input[i].parts[1] \in Texts
<1>1. input \in Seq([kind : Kinds, parts : Seq(Texts)])
  BY ScanConfig DEF Texts
<1>2. \A i \in DOMAIN input : input[i].kind # "zip" => Len(input[i].parts) = 1
  BY ScanConfig
<1>3. Len(input) \in Nat /\ DOMAIN input = 1 .. Len(input) /\ (Len(input) = 0 => input = <<>>)
  BY <1>1, EmptySeq
<1>4. ASSUME NEW i \in 1 .. Len(input)
      PROVE  /\ input[i].kind \in Kinds /\ input[i].parts \in Seq(Texts)
             /\ input[i].kind # "zip" => Len(input[i].parts) = 1 /\ input[i].parts[1] \in Texts
  <2>1. input[i] \in [kind : Kinds, parts : Seq(Texts)]
    BY <1>1, ElementOfSeq
  <2>2. input[i].kind \in Kinds /\ input[i].parts \in Seq(Texts)
    BY <2>1
  <2>3. Len(input[i].parts) = 1 => input[i].parts[1] \in Texts
    <3>1. Len(input[i].parts) = 1 => 1 \in 1 .. Len(input[i].parts)
      OBVIOUS
    <3> QED BY <2>2, <3>1, ElementOfSeq
  <2> QED BY <1>2, <1>3, <2>2, <2>3
<1> QED BY <1>3, <1>4

\* A text whose last line was ended is a text
LEMMA WholeType ==
  ASSUME NEW text \in Texts PROVE WholeLines(text) \in Texts /\ <<NL, NL>> \in Texts
<1>1. NL \in Chars
  BY ScanConfig
<1> QED BY <1>1 DEF WholeLines, Texts

\* The sizes of the first members of a zip
LEMMA PrefixSizes ==
  ASSUME NEW parts \in Seq(Texts), NEW i \in 0 .. Len(parts)
  PROVE  /\ Size(SubSeq(parts, 1, i)) \in Nat
         /\ i < Len(parts) => /\ Len(parts[i + 1]) \in Nat /\ parts[i + 1] \in Texts
                              /\ Size(SubSeq(parts, 1, i + 1))
                                   = Size(SubSeq(parts, 1, i)) + Len(parts[i + 1])
         /\ \A j \in i .. Len(parts) : Size(SubSeq(parts, 1, j)) \in Nat
              /\ Size(SubSeq(parts, 1, j)) >= Size(SubSeq(parts, 1, i))
<1> DEFINE p == SubSeq(parts, 1, i)
<1>1. p \in Seq(Texts) /\ Len(p) = i /\ Len(parts) \in Nat /\ i \in Nat
  BY Cut
<1>2. Size(p) \in Nat
  <2> HIDE DEF p
  <2> QED BY <1>1, SizeConcat
<1>3. ASSUME NEW j \in i .. Len(parts)
      PROVE  Size(SubSeq(parts, 1, j)) \in Nat
             /\ Size(SubSeq(parts, 1, j)) >= Size(SubSeq(parts, 1, i))
  <2> DEFINE q == SubSeq(parts, i + 1, j)
  <2>1. q \in Seq(Texts)
    <3>1. \A m \in i + 1 .. j : m \in 1 .. Len(parts)
      BY <1>1
    <3>2. \A m \in i + 1 .. j : parts[m] \in Texts
      BY <3>1, ElementOfSeq
    <3>3. i + 1 \in Int /\ j \in Int
      BY <1>1
    <3> QED BY <3>2, <3>3, SubSeqProperties
  <2>2. p \o q = SubSeq(parts, 1, j)
    <3>1. 1 \in 1 .. Len(parts) + 1 /\ i \in 1 - 1 .. Len(parts) /\ j \in i .. Len(parts)
      BY <1>1
    <3> QED BY <3>1, ConcatAdjacentSubSeq
  <2>3. Size(p \o q) = Size(p) + Size(q) /\ Size(q) \in Nat
    <3> HIDE DEF p, q
    <3> QED BY <1>1, <2>1, SizeConcat
  <2>4. Size(p \o q) \in Nat /\ Size(p \o q) >= Size(p)
    <3> HIDE DEF p, q
    <3> QED BY <1>2, <2>3
  <2> QED BY <2>2, <2>4
<1>4. ASSUME i < Len(parts)
      PROVE  /\ Len(parts[i + 1]) \in Nat /\ parts[i + 1] \in Texts
             /\ Size(SubSeq(parts, 1, i + 1)) = Size(SubSeq(parts, 1, i)) + Len(parts[i + 1])
  <2>1. i + 1 \in 0 .. Len(parts) /\ i + 1 \in 1 .. Len(parts)
    BY <1>1, <1>4
  <2>2. PICK e \in Texts : e = parts[i + 1]
    BY <2>1, ElementOfSeq
  <2>3. Len(e) \in Nat
    BY <2>2 DEF Texts
  <2> DEFINE q == SubSeq(parts, 1, i + 1)
  <2>4. q \in Seq(Texts) /\ Len(q) = i + 1 /\ (\A m \in 1 .. i : q[m] = p[m]) /\ q[i + 1] = e
    <3>1. q \in Seq(Texts) /\ Len(q) = i + 1
      BY <2>1, Cut
    <3>2. \A m \in 1 .. i : q[m] = p[m]
      BY <1>1, <2>1
    <3>3. q[i + 1] = e
      BY <1>1, <2>1, <2>2
    <3> QED BY <3>1, <3>2, <3>3
  <2>5. FlattenSeq(q) = FlattenSeq(p) \o e
    <3>1. Len(q) = Len(p) + 1 /\ (\A m \in 1 .. Len(p) : p[m] = q[m]) /\ q[Len(q)] = e
      BY <1>1, <2>4
    <3> HIDE DEF p, q
    <3>2. p \in Seq(Seq(Chars)) /\ q \in Seq(Seq(Chars))
      BY <1>1, <2>4 DEF Texts
    <3> QED BY <3>1, <3>2, FlattenOneMore
  <2>6. FlattenSeq(p) \in Seq(Chars) /\ e \in Seq(Chars)
    <3> HIDE DEF p
    <3> QED BY <1>1, <2>2, SizeConcat DEF Texts
  <2>7. Size(q) = Size(p) + Len(e)
    <3> DEFINE f == FlattenSeq(p)
    <3>1. Len(f \o e) = Len(f) + Len(e)
      <4>1. f \in Seq(Chars)
        BY <2>6
      <4> HIDE DEF f
      <4> QED BY <2>6, <4>1
    <3> QED BY <2>5, <3>1 DEF Size
  <2> QED BY <2>2, <2>3, <2>7
<1> QED BY <1>2, <1>3, <1>4

\* What the script gives for a member is a text
LEMMA PieceType ==
  ASSUME NEW parts \in Seq(Texts), NEW i \in 1 .. Len(parts) PROVE Piece(parts, i) \in Texts
<1>1. CASE ~ (i <= MaxEntries /\ Size(SubSeq(parts, 1, i)) <= MaxTotal /\ Share(parts, i) > 0)
  <2>1. Piece(parts, i) = <<>>
    BY <1>1 DEF Piece
  <2> QED BY <2>1, EmptySeq DEF Texts
<1>2. CASE i <= MaxEntries /\ Size(SubSeq(parts, 1, i)) <= MaxTotal /\ Share(parts, i) > 0
  <2>1. Share(parts, i) \in Nat
    <3>1. i - 1 \in 0 .. Len(parts)
      OBVIOUS
    <3>2. Size(SubSeq(parts, 1, i - 1)) \in Nat
      BY <3>1, PrefixSizes
    <3> QED BY <1>2, <3>2, TailPositive DEF Share
  <2>2. parts[i] \in Texts
    BY ElementOfSeq
  <2>3. LastOf(parts[i], Share(parts, i)) \in Texts
    BY <2>1, <2>2, LastType DEF Texts
  <2>4. WholeLines(LastOf(parts[i], Share(parts, i))) \in Texts /\ <<NL, NL>> \in Texts
    BY <2>3, WholeType
  <2>5. Piece(parts, i) = <<NL, NL>> \o WholeLines(LastOf(parts[i], Share(parts, i)))
    BY <1>2 DEF Piece
  <2> DEFINE w == WholeLines(LastOf(parts[i], Share(parts, i)))
  <2> HIDE DEF w
  <2>6. w \in Seq(Chars) /\ <<NL, NL>> \in Seq(Chars)
    BY <2>4 DEF w, Texts
  <2>7. <<NL, NL>> \o w \in Seq(Chars)
    BY <2>6, ConcatProperties
  <2> QED BY <2>5, <2>7 DEF w, Texts
<1> QED BY <1>1, <1>2

\* What the script gives for the first members is a text
LEMMA PiecesType ==
  ASSUME NEW parts \in Seq(Texts), NEW n \in 0 .. Len(parts)
  PROVE  /\ [i \in 1 .. n |-> Piece(parts, i)] \in Seq(Texts)
         /\ Len([i \in 1 .. n |-> Piece(parts, i)]) = n
         /\ FlattenSeq([i \in 1 .. n |-> Piece(parts, i)]) \in Texts
<1>1. \A i \in 1 .. n : Piece(parts, i) \in Texts
  BY PieceType
<1>2. /\ [i \in 1 .. n |-> Piece(parts, i)] \in Seq(Texts)
      /\ Len([i \in 1 .. n |-> Piece(parts, i)]) = n
  BY <1>1
<1>3. FlattenSeq([i \in 1 .. n |-> Piece(parts, i)]) \in Seq(Chars)
  BY <1>2, FlattenType DEF Texts
<1> QED BY <1>2, <1>3 DEF Texts

\* The window of a zip is what the script gives for all its members
LEMMA WindowIs ==
  ASSUME NEW f, f.kind = "zip"
  PROVE  Window(f) = FlattenSeq([i \in DOMAIN f.parts |-> Piece(f.parts, i)])
BY DEF Window, Piece

\* A window is a text
LEMMA WindowType ==
  ASSUME NEW input \in Inputs, NEW n \in 1 .. Len(input) PROVE Window(input[n]) \in Texts
<1> DEFINE f == input[n]
<1>1. f.parts \in Seq(Texts) /\ (f.kind # "zip" => f.parts[1] \in Texts)
  BY InputFacts
<1> HIDE DEF f
<1>2. CASE f.kind # "zip"
  <2>1. LastOf(f.parts[1], Tail_bytes) \in Texts
    BY <1>1, <1>2, TailPositive, LastType DEF Texts
  <2> QED BY <1>2, <2>1 DEF Window, f
<1>3. CASE f.kind = "zip"
  <2>1. Window(f) = FlattenSeq([i \in DOMAIN f.parts |-> Piece(f.parts, i)])
    BY <1>3, WindowIs
  <2>2. DOMAIN f.parts = 1 .. Len(f.parts) /\ Len(f.parts) \in 0 .. Len(f.parts)
    BY <1>1
  <2>3. FlattenSeq([i \in 1 .. Len(f.parts) |-> Piece(f.parts, i)]) \in Texts
    BY <1>1, <2>2, PiecesType
  <2> QED BY <2>1, <2>2, <2>3 DEF f
<1> QED BY <1>2, <1>3

\* One member more
LEMMA PiecesMore ==
  ASSUME NEW parts \in Seq(Texts), NEW n \in 1 .. Len(parts)
  PROVE  FlattenSeq([i \in 1 .. n |-> Piece(parts, i)])
           = FlattenSeq([i \in 1 .. n - 1 |-> Piece(parts, i)]) \o Piece(parts, n)
<1> DEFINE g == [i \in 1 .. n - 1 |-> Piece(parts, i)]
           h == [i \in 1 .. n |-> Piece(parts, i)]
<1>1. n - 1 \in 0 .. Len(parts) /\ n \in 0 .. Len(parts) /\ n = (n - 1) + 1 /\ n \in 1 .. n
  OBVIOUS
<1>2. g \in Seq(Texts) /\ Len(g) = n - 1 /\ h \in Seq(Texts) /\ Len(h) = n
  BY <1>1, PiecesType
<1>3. (\A i \in 1 .. n - 1 : g[i] = h[i]) /\ h[n] = Piece(parts, n)
  BY <1>1
<1> HIDE DEF g, h
<1>4. /\ g \in Seq(Seq(Chars)) /\ h \in Seq(Seq(Chars)) /\ Len(h) = Len(g) + 1
      /\ \A i \in 1 .. Len(g) : g[i] = h[i]
  BY <1>1, <1>2, <1>3 DEF Texts
<1>5. FlattenSeq(h) = FlattenSeq(g) \o h[Len(h)]
  BY <1>4, FlattenOneMore
<1> QED BY <1>2, <1>3, <1>5 DEF g, h

\* After the last member the script does, no member is in the window
LEMMA PiecesEnd ==
  ASSUME NEW parts \in Seq(Texts), NEW n \in 0 .. Len(parts),
         n < Len(parts) =>
           \/ n >= MaxEntries \/ Size(SubSeq(parts, 1, n + 1)) > MaxTotal
           \/ Size(SubSeq(parts, 1, n)) >= Tail_bytes
  PROVE  FlattenSeq([i \in DOMAIN parts |-> Piece(parts, i)])
           = FlattenSeq([i \in 1 .. n |-> Piece(parts, i)])
<1> DEFINE g == [i \in 1 .. n |-> Piece(parts, i)]
           h == [i \in 1 .. Len(parts) |-> Piece(parts, i)]
<1>1. Len(parts) \in Nat /\ n \in Nat /\ DOMAIN parts = 1 .. Len(parts)
      /\ Len(parts) \in 0 .. Len(parts)
      /\ {Tail_bytes, MaxEntries, MaxTotal} \subseteq Nat
  BY ScanConfig
<1>2. g \in Seq(Texts) /\ Len(g) = n /\ h \in Seq(Texts) /\ Len(h) = Len(parts)
  BY <1>1, PiecesType
<1>3. \A i \in 1 .. n : g[i] = h[i]
  BY <1>1
<1>4. ASSUME NEW j \in n + 1 .. Len(parts) PROVE Piece(parts, j) = <<>>
  <2>1. n < Len(parts) /\ n + 1 \in 0 .. Len(parts) /\ j \in 0 .. Len(parts)
        /\ j - 1 \in 0 .. Len(parts)
        /\ j \in n + 1 .. Len(parts) /\ j - 1 \in n .. Len(parts)
    BY <1>1
  <2>2. /\ Size(SubSeq(parts, 1, n)) \in Nat /\ Size(SubSeq(parts, 1, j - 1)) \in Nat
        /\ Size(SubSeq(parts, 1, j - 1)) >= Size(SubSeq(parts, 1, n))
    BY <2>1, PrefixSizes
  <2>3. /\ Size(SubSeq(parts, 1, n + 1)) \in Nat /\ Size(SubSeq(parts, 1, j)) \in Nat
        /\ Size(SubSeq(parts, 1, j)) >= Size(SubSeq(parts, 1, n + 1))
    BY <2>1, PrefixSizes
  <2>4. CASE n >= MaxEntries
    BY <1>1, <2>1, <2>4 DEF Piece
  <2>5. CASE Size(SubSeq(parts, 1, n + 1)) > MaxTotal
    <3>1. ~ (Size(SubSeq(parts, 1, j)) <= MaxTotal)
      BY <1>1, <2>3, <2>5
    <3> QED BY <3>1 DEF Piece
  <2>6. CASE Size(SubSeq(parts, 1, n)) >= Tail_bytes
    <3>1. ~ (Tail_bytes - Size(SubSeq(parts, 1, j - 1)) > 0)
      BY <1>1, <2>2, <2>6
    <3> QED BY <3>1 DEF Piece, Share
  <2> QED BY <2>1, <2>4, <2>5, <2>6
<1>5. \A i \in n + 1 .. Len(parts) : h[i] = <<>>
  <2>1. \A i \in n + 1 .. Len(parts) : i \in 1 .. Len(parts)
    BY <1>1
  <2> QED BY <1>4, <2>1
<1>6. FlattenSeq(h) = FlattenSeq(g)
  <2> HIDE DEF g, h
  <2>1. /\ g \in Seq(Seq(Chars)) /\ h \in Seq(Seq(Chars)) /\ Len(g) <= Len(h)
        /\ \A i \in 1 .. Len(g) : g[i] = h[i]
    BY <1>1, <1>2, <1>3 DEF Texts
  <2>2. \A i \in Len(g) + 1 .. Len(h) : h[i] = <<>>
    BY <1>2, <1>5
  <2> QED BY <2>1, <2>2, FlattenSplit
<1> QED BY <1>1, <1>6

----------------------------------------------------------------------------
(* A real-time scan accounts for its files.                                 *)

\* Where the scan is while it is at a file
AtFile == {"parts", "blocks", "gzip", "zip", "member", "scan"}

\* The files behind the scan are scanned or failed, and only a scanned one gives
\* results; the answer rests on what was counted
Counted ==
  /\ failed \subseteq 1 .. k - 1
  /\ scanned + Cardinality(failed) = k - 1
  /\ scanned = 0 => \A id \in Ids : results[id] = <<>>
  /\ outcome \in {"answered", "allFailed"} =>
       /\ k <= Len(files) => AllReachedLimit(results)
       /\ outcome = "allFailed" <=> scanned = 0 /\ failed # {}

Inv ==
  /\ files \in Inputs /\ scanned \in Nat /\ k \in 1 .. Len(files) + 1
  /\ at \in AtFile => k <= Len(files)
  /\ outcome # "none" => at = "end"
  /\ mode = "real_time" => at \notin {"parts", "blocks"} /\ Counted

\* The invariant holds at the start
LEMMA InitInv == Init => Inv
<1> SUFFICES ASSUME Init PROVE Inv
  OBVIOUS
<1>1. Cardinality({}) = 0
  BY FS_EmptySet
<1> QED BY <1>1, InputFacts DEF Init, Inv, Counted, AtFile

\* The counts of the files before the one at hand
LEMMA FailedFinite ==
  ASSUME Inv, mode = "real_time" PROVE IsFiniteSet(failed) /\ Cardinality(failed) \in Nat
<1>1. k - 1 \in Nat
  BY InputFacts DEF Inv
<1>2. IsFiniteSet(1 .. k - 1)
  BY <1>1, CountUpTo
<1> QED BY <1>2, FS_Subset, FS_CardinalityType DEF Inv, Counted

\* A file that is done is counted once
LEMMA OneMore ==
  ASSUME Inv, k <= Len(files), outcome = "none", NextFile, Input, UNCHANGED outcome,
         mode = "real_time" =>
           \/ scanned' = scanned + 1 /\ UNCHANGED failed
           \/ UNCHANGED <<scanned, results>> /\ failed' = failed \cup {k},
         scanned' \in Nat
  PROVE  Inv'
<1>1. Len(files) \in Nat /\ k \in Nat /\ scanned \in Nat
  BY InputFacts DEF Inv
<1>2. k' = k + 1 /\ at' = "next" /\ k' \in 1 .. Len(files) + 1
  BY <1>1 DEF NextFile, Inv
<1>3. ASSUME mode = "real_time" PROVE Counted'
  <2>1. IsFiniteSet(failed) /\ Cardinality(failed) \in Nat /\ failed \subseteq 1 .. k - 1
    BY <1>3, FailedFinite DEF Inv, Counted
  <2>2. scanned + Cardinality(failed) = k - 1
    BY <1>3 DEF Inv, Counted
  <2>3. CASE scanned' = scanned + 1 /\ failed' = failed
    BY <1>1, <1>2, <2>1, <2>2, <2>3 DEF Counted
  <2>4. CASE UNCHANGED <<scanned, results>> /\ failed' = failed \cup {k}
    <3>1. k \notin failed
      BY <1>1, <2>1
    <3>2. Cardinality(failed') = Cardinality(failed) + 1
      BY <2>1, <2>4, <3>1, FS_AddElement
    <3> QED BY <1>1, <1>2, <1>3, <2>1, <2>2, <2>4, <3>2 DEF Counted, Inv
  <2> QED BY <1>3, <2>3, <2>4
<1> QED BY <1>2, <1>3 DEF Inv, Input, AtFile

\* A step within a file counts nothing yet
LEMMA Within ==
  ASSUME Inv, at \in AtFile \cup {"next"}, k <= Len(files), Input,
         UNCHANGED <<k, failed, outcome>>, at' \in AtFile, scanned' \in Nat,
         mode = "real_time" => UNCHANGED <<scanned, results>> /\ at' \notin {"parts", "blocks"}
  PROVE  Inv'
<1>1. outcome = "none"
  BY DEF Inv, AtFile
<1> QED BY <1>1 DEF Inv, Counted, Input, AllReachedLimit

\* Every step preserves the invariant, one action after another
LEMMA StepInv == Inv /\ [Next]_vars => Inv'
<1> SUFFICES ASSUME Inv, [Next]_vars PROVE Inv'
  OBVIOUS
<1>0. Len(files) \in Nat /\ k \in Nat /\ scanned \in Nat /\ (at # "end" => outcome = "none")
  BY InputFacts DEF Inv
<1>1. CASE NotThere \/ LocalFileEnds
  <2>1. /\ k <= Len(files) /\ outcome = "none" /\ mode # "real_time" /\ NextFile /\ Input
        /\ UNCHANGED <<outcome, scanned>>
    BY <1>0, <1>1 DEF NotThere, LocalFileEnds, Local, Inv, AtFile
  <2> QED BY <1>0, <2>1, OneMore
<1>2. CASE OpenLocal
  <2>1. /\ k <= Len(files) /\ outcome = "none" /\ mode # "real_time" /\ Input /\ at = "next"
        /\ scanned' \in Nat /\ UNCHANGED <<outcome, failed>>
    BY <1>0, <1>2 DEF OpenLocal, Local
  <2>2. NextFile \/ (at' = "parts" /\ UNCHANGED k)
    BY <1>2 DEF OpenLocal
  <2> QED BY <2>1, <2>2, OneMore, Within DEF AtFile
<1>3. CASE NextPart \/ ReadBlock \/ FirstLine
  <2>1. /\ at \in AtFile /\ at' \in AtFile /\ mode # "real_time" /\ Input
        /\ UNCHANGED <<k, failed, outcome, scanned>>
    BY <1>3 DEF NextPart, ReadBlock, FirstLine, AtFile, Inv
  <2> QED BY <1>0, <2>1, Within DEF Inv
<1>4. CASE RemoteFails \/ ScanText
  <2>1. /\ k <= Len(files) /\ outcome = "none" /\ NextFile /\ Input /\ UNCHANGED outcome
        /\ \/ scanned' = scanned + 1 /\ UNCHANGED failed
           \/ UNCHANGED <<scanned, results>> /\ failed' = failed \cup {k}
    BY <1>0, <1>4 DEF RemoteFails, ScanText, Remote, Inv, AtFile
  <2>2. scanned' \in Nat
    BY <1>0, <2>1
  <2> QED BY <2>1, <2>2, OneMore
<1>5. CASE \/ OpenRemote \/ GzipChunk \/ GzipEnds \/ ZipMember \/ ZipChunk \/ ZipMemberEnds
           \/ ZipEnds
  <2>1. /\ at \in AtFile \cup {"next"} /\ at' \in {"gzip", "zip", "member", "scan"} /\ Input
        /\ UNCHANGED <<k, failed, outcome, scanned, results>> /\ k <= Len(files)
    BY <1>5 DEF OpenRemote, GzipChunk, GzipEnds, ZipMember, ZipChunk, ZipMemberEnds, ZipEnds,
       HaveText, Reading, Remote, AtFile, Inv
  <2> QED BY <1>0, <2>1, Within DEF AtFile
<1>6. CASE Finish
  <2>1. k <= Len(files) => AllReachedLimit(results)
    BY <1>0, <1>6 DEF Finish
  <2>2. /\ outcome' = IF scanned = 0 /\ failed # {} THEN "allFailed" ELSE "answered"
        /\ at' = "end" /\ UNCHANGED <<mode, files, k, rd, results, scanned, failed, unread>>
    BY <1>6 DEF Finish, Input
  <2> QED BY <2>1, <2>2 DEF Inv, Counted, AllReachedLimit, AtFile
<1>7. CASE Abort \/ Resting \/ UNCHANGED vars
  <2>1. /\ UNCHANGED <<mode, files, k, results, scanned, failed>>
        /\ UNCHANGED <<at, outcome>> \/ (at' = "end" /\ outcome' = "error")
    BY <1>7 DEF Abort, Resting, vars, Input
  <2> QED BY <2>1 DEF Inv, Counted, AllReachedLimit, AtFile
<1> QED BY <1>1, <1>2, <1>3, <1>4, <1>5, <1>6, <1>7 DEF Next, ScanLocal, ScanRemote

\* scan_remote_logs_real_time counts every file it comes past as scanned or as
\* failed, stops short only when every chat id has its matches, and raises
\* REAL_TIME_ALL_FILES_FAILED exactly when every one of its files failed.
THEOREM FilesAccounted == Spec => []EveryFileAccounted
<1>1. Inv => EveryFileAccounted
  <2> SUFFICES ASSUME Inv, outcome \in {"answered", "allFailed"}, mode = "real_time"
               PROVE  outcome = "allFailed" <=> failed = DOMAIN files /\ files # <<>>
    BY DEF Inv, Counted, EveryFileAccounted
  <2>1. /\ Len(files) \in Nat /\ k \in 1 .. Len(files) + 1 /\ DOMAIN files = 1 .. Len(files)
        /\ scanned \in Nat /\ IsFiniteSet(failed) /\ Cardinality(failed) \in Nat
    BY InputFacts, FailedFinite DEF Inv
  <2>2. failed \subseteq 1 .. k - 1 /\ scanned + Cardinality(failed) = k - 1
    BY DEF Inv, Counted
  <2>3. ASSUME outcome = "allFailed" PROVE failed = DOMAIN files /\ files # <<>>
    <3>1. scanned = 0 /\ failed # {}
      BY <2>3 DEF Inv, Counted
    <3>2. ~AllReachedLimit(results)
      BY <3>1, ScanConfig, SMTT(30) DEF Inv, Counted, AllReachedLimit
    <3>3. k = Len(files) + 1
      BY <2>1, <2>3, <3>2 DEF Inv, Counted
    <3>4. failed = 1 .. Len(files)
      <4>1. IsFiniteSet(1 .. Len(files)) /\ Cardinality(1 .. Len(files)) = Len(files)
        BY <2>1, CountUpTo
      <4>2. failed \subseteq 1 .. Len(files) /\ Cardinality(failed) = Len(files)
        BY <2>1, <2>2, <3>1, <3>3
      <4>3. failed \in SUBSET (1 .. Len(files))
            /\ Cardinality(1 .. Len(files)) = Cardinality(failed)
        BY <4>1, <4>2
      <4> QED BY <4>1, <4>3, FS_Subset, Zenon
    <3> QED BY <2>1, <3>1, <3>4
  <2>4. ASSUME failed = DOMAIN files, files # <<>> PROVE outcome = "allFailed"
    <3>1. Cardinality(failed) = Len(files) /\ failed # {}
      <4>1. Cardinality(1 .. Len(files)) = Len(files)
        BY <2>1, CountUpTo
      <4>2. Len(files) # 0
        BY <2>1, <2>4, InputFacts DEF Inv
      <4> QED BY <2>1, <2>4, <4>1, <4>2
    <3>2. scanned = 0
      BY <2>1, <2>2, <3>1
    <3> QED BY <3>1, <3>2 DEF Inv, Counted
  <2> QED BY <2>3, <2>4
<1> QED BY <1>1, InitInv, StepInv, PTL DEF Spec

----------------------------------------------------------------------------
(* The text that is scanned of a remote file.                               *)

Readers == [i : Nat, rest : Texts, buffer : Texts, chunks : Seq(Texts), total : Nat,
            emitted : Nat, text : Texts]

ZipDone(n) ==
  /\ n \in 0 .. Len(File.parts)
  /\ rd.text = FlattenSeq([i \in 1 .. n |-> Piece(File.parts, i)])
  /\ rd.emitted = IF Size(SubSeq(File.parts, 1, n)) < Tail_bytes
                  THEN Size(SubSeq(File.parts, 1, n)) ELSE Tail_bytes

ZipMay ==
  rd.i <= MaxEntries /\ rd.total = Size(SubSeq(File.parts, 1, rd.i)) /\ rd.total <= MaxTotal

ReaderInv ==
  /\ rd \in Readers
  /\ at = "gzip" => File.kind = "gzip"
       /\ Slid(File.parts[1], rd.rest, FlattenSeq(rd.chunks), Tail_bytes)
  /\ at \in {"zip", "member"} => File.kind = "zip" /\ ZipMay
  /\ at = "zip" => ZipDone(rd.i)
  /\ at = "member" =>
       /\ rd.i \in 1 .. Len(File.parts) /\ ZipDone(rd.i - 1) /\ Budget > 0
       /\ Slid(File.parts[rd.i], rd.rest, rd.buffer, Budget)
  /\ WindowExact

\* The file at hand
LEMMA FileFacts ==
  ASSUME Inv, k <= Len(files)
  PROVE  /\ k \in 1 .. Len(files) /\ File.kind \in Kinds /\ File.parts \in Seq(Texts)
         /\ File.kind # "zip" => Len(File.parts) = 1 /\ File.parts[1] \in Texts
<1>1. Len(files) \in Nat /\ k \in 1 .. Len(files)
  BY InputFacts DEF Inv
<1> QED BY <1>1, InputFacts DEF Inv, File

\* The locals of a reader and their types
LEMMA ReadersAre ==
  /\ NoReader \in Readers
  /\ \A r \in Readers :
       /\ r.i \in Nat /\ r.rest \in Texts /\ r.buffer \in Texts /\ r.chunks \in Seq(Texts)
       /\ r.total \in Nat /\ r.emitted \in Nat /\ r.text \in Texts
<1>1. <<>> \in Texts /\ <<>> \in Seq(Texts)
  BY DEF Texts
<1> QED BY <1>1 DEF NoReader, Readers

\* The reader's invariant holds at the start
LEMMA InitReader == Init => ReaderInv
BY ReadersAre DEF Init, ReaderInv, WindowExact

\* A step that leaves the reader where it has no window to keep
LEMMA Idle ==
  ASSUME rd' \in Readers, at' \in {"next", "parts", "blocks", "end"}
  PROVE  ReaderInv'
BY DEF ReaderInv, WindowExact

\* A remote file is opened: a plain one is read in one piece
LEMMA OpensReader ==
  ASSUME Inv, OpenRemote PROVE ReaderInv'
<1>1. k \in 1 .. Len(files) /\ File.parts \in Seq(Texts)
      /\ (File.kind # "zip" => File.parts[1] \in Texts)
  BY FileFacts DEF OpenRemote, Remote
<1>2. File' = File
  BY DEF OpenRemote, Reading, Input, File
<1>3. <<>> \in Texts /\ <<>> \in Seq(Texts)
  BY DEF Texts
<1>4. CASE File.kind = "plain" 
  <2>1. rd' = [NoReader EXCEPT !.text = LastOf(File.parts[1], Tail_bytes)] /\ at' = "scan"
    BY <1>4 DEF OpenRemote, HaveText
  <2>2. LastOf(File.parts[1], Tail_bytes) = Window(File) /\ File.parts[1] \in Seq(Chars)
        /\ Tail_bytes \in Nat
    BY <1>1, <1>4, TailPositive DEF Window, Texts
  <2>3. LastOf(File.parts[1], Tail_bytes) \in Texts
    BY <2>2, LastType DEF Texts
  <2>4. rd' \in Readers /\ rd'.text = Window(File)
    BY <2>1, <2>2, <2>3, <1>3 DEF NoReader, Readers
  <2> QED BY <1>2, <2>1, <2>4 DEF ReaderInv, WindowExact
<1>5. CASE File.kind = "gzip"
  <2>1. rd' = [NoReader EXCEPT !.rest = File.parts[1]] /\ at' = "gzip"
    BY <1>5 DEF OpenRemote
  <2>2. rd' \in Readers /\ rd'.rest = File.parts[1] /\ rd'.chunks = <<>>
    BY <2>1, <1>3, <1>1, <1>5 DEF NoReader, Readers
  <2>3. Slid(File.parts[1], File.parts[1], <<>>, Tail_bytes)
    <3>1. File.parts[1] \in Texts /\ Tail_bytes \in Nat
      BY <1>1, <1>5, TailPositive
    <3> QED BY <3>1, SlidStart
  <2>4. Slid(File.parts[1], rd'.rest, FlattenSeq(rd'.chunks), Tail_bytes)
    BY <2>2, <2>3, FlattenEmpty
  <2> QED BY <1>2, <1>5, <2>1, <2>2, <2>4 DEF ReaderInv, WindowExact
<1>6. CASE File.kind = "zip"
  <2>1. rd' = NoReader /\ at' = "zip"
    BY <1>6 DEF OpenRemote
  <2>2. SubSeq(File.parts, 1, 0) = <<>>
    BY <1>1
  <2>3. [i \in 1 .. 0 |-> Piece(File.parts, i)] = <<>>
    <3>1. 1 .. 0 = {}
      OBVIOUS
    <3> QED BY <3>1
  <2>4. Size(SubSeq(File.parts, 1, 0)) = 0
    <3>1. FlattenSeq(SubSeq(File.parts, 1, 0)) = <<>> /\ Len(<<>>) = 0
      BY <2>2, FlattenEmpty
    <3> QED BY <3>1 DEF Size
  <2>5. rd'.i = 0 /\ rd'.text = <<>> /\ rd'.emitted = 0 /\ rd'.total = 0
    BY <2>1 DEF NoReader
  <2>6. ZipMay'
    BY <1>2, <2>4, <2>5, ScanConfig DEF ZipMay
  <2>7. Len(File.parts) \in Nat /\ Tail_bytes \in Nat \ {0}
    BY <1>1, TailPositive
  <2>8. ZipDone(rd.i)'
    BY <1>2, <2>3, <2>4, <2>5, <2>7, FlattenEmpty DEF ZipDone
  <2> QED BY <1>2, <1>6, <2>1, <2>6, <2>8, ReadersAre DEF ReaderInv, WindowExact
<1> QED BY <1>4, <1>5, <1>6 DEF OpenRemote

\* A chunk of a gzip moves the window; at the end of the file it is the tail
LEMMA GzipReader ==
  ASSUME Inv, ReaderInv, GzipChunk \/ GzipEnds PROVE ReaderInv'
<1> DEFINE part == File.parts[1]
           cs == rd.chunks
<1>0. at = "gzip" /\ k <= Len(files)
  BY DEF Inv, AtFile, GzipChunk, GzipEnds
<1>1. /\ part \in Texts /\ File.kind = "gzip" /\ Tail_bytes \in Nat
      /\ rd \in Readers /\ cs \in Seq(Texts) /\ rd.rest \in Texts /\ rd.total \in Nat
      /\ Slid(part, rd.rest, FlattenSeq(cs), Tail_bytes)
  BY <1>0, FileFacts, ReadersAre, TailPositive DEF ReaderInv
<1>2. File' = File
  BY DEF GzipChunk, GzipEnds, Reading, Input, File
<1>3. CASE GzipChunk
  <2>1. PICK n \in 1 .. Len(rd.rest) :
          rd' = [rd EXCEPT !.rest = From(@, n + 1), !.total = @ + n,
                           !.chunks = Trim(Append(@, SubSeq(rd.rest, 1, n)))]
    BY <1>3 DEF GzipChunk
  <2> DEFINE piece == SubSeq(rd.rest, 1, n)
             grown == Append(cs, piece)
  <2>2. /\ piece \in Texts
        /\ Slid(part, From(rd.rest, n + 1), LastOf(FlattenSeq(cs) \o piece, Tail_bytes), Tail_bytes)
    <3> HIDE DEF part, cs
    <3> QED BY <1>1, <2>1, SlidStep
  <2>3. grown \in Seq(Texts) /\ cs \in Seq(Seq(Chars)) /\ piece \in Seq(Chars)
    BY <1>1, <2>2 DEF Texts
  <2>4. FlattenSeq(grown) = FlattenSeq(cs) \o piece
    <3> HIDE DEF piece, cs
    <3> QED BY <2>3, FlattenAppend
  <2>5. Trim(grown) \in Seq(Texts)
        /\ FlattenSeq(Trim(grown)) = LastOf(FlattenSeq(grown), Tail_bytes)
    <3> HIDE DEF grown
    <3> QED BY <2>3, TrimKeeps
  <2> DEFINE rest == From(rd.rest, n + 1)
             trimmed == Trim(grown)
  <2>6. /\ rd' = [rd EXCEPT !.rest = rest, !.total = rd.total + n, !.chunks = trimmed]
        /\ rd.total + n \in Nat
    BY <1>1, <2>1
  <2>7. rest \in Texts /\ Slid(part, rest, FlattenSeq(trimmed), Tail_bytes)
        /\ trimmed \in Seq(Texts)
    <3>1. Slid(part, rest, FlattenSeq(trimmed), Tail_bytes) /\ trimmed \in Seq(Texts)
      BY <2>2, <2>4, <2>5
    <3> HIDE DEF part, rest, trimmed
    <3>2. rest \in Texts
      BY <1>1, <3>1, SlidType
    <3> QED BY <3>1, <3>2
  <2> HIDE DEF part, rest, trimmed
  <2>8. rd' \in Readers /\ rd'.rest = rest /\ rd'.chunks = trimmed
    BY <1>1, <2>6, <2>7 DEF Readers
  <2>9. at' = "gzip"
    BY <1>0, <1>3 DEF GzipChunk
  <2> QED BY <1>1, <1>2, <2>7, <2>8, <2>9 DEF ReaderInv, WindowExact, part
<1>4. CASE GzipEnds
  <2> DEFINE text == FlattenSeq(cs)
  <2>1. rd' = [NoReader EXCEPT !.text = text] /\ at' = "scan" /\ rd.rest = <<>>
    BY <1>4 DEF GzipEnds, HaveText
  <2>2. text = LastOf(part, Tail_bytes)
    <3> HIDE DEF part, text
    <3> QED BY <1>1, <2>1, SlidEnd DEF text
  <2>3. text = Window(File)
    BY <1>1, <2>2 DEF Window
  <2>4. text \in Texts
    BY <1>1, SizeConcat
  <2> HIDE DEF text
  <2>5. rd' \in Readers /\ rd'.text = text
    BY <2>1, <2>4, ReadersAre DEF NoReader, Readers
  <2> QED BY <1>2, <2>1, <2>3, <2>5 DEF ReaderInv, WindowExact
<1> QED BY <1>3, <1>4
\* While the zip script runs
LEMMA ZipFacts ==
  ASSUME Inv, ReaderInv, at \in {"zip", "member"}
  PROVE  /\ k \in 1 .. Len(files) /\ File.kind = "zip" /\ File.parts \in Seq(Texts) /\ ZipMay
         /\ Len(File.parts) \in Nat /\ Tail_bytes \in Nat \ {0} /\ MaxEntries \in Nat
         /\ MaxTotal \in Nat
         /\ rd \in Readers /\ rd.i \in Nat /\ rd.total \in Nat /\ rd.emitted \in Nat
         /\ rd.rest \in Texts /\ rd.buffer \in Texts /\ rd.text \in Texts
BY FileFacts, ReadersAre, TailPositive, ScanConfig DEF Inv, AtFile, ReaderInv

\* A member is opened, with a budget left
LEMMA OpensMember ==
  ASSUME Inv, ReaderInv, ZipMember PROVE ReaderInv'
<1> DEFINE parts == File.parts
           i == rd.i + 1
           part == parts[i]
           n == Budget
<1>1. at = "zip" /\ More
  BY DEF ZipMember
<1>2. /\ parts \in Seq(Texts) /\ File.kind = "zip" /\ Tail_bytes \in Nat \ {0} /\ rd \in Readers
      /\ rd.i \in Nat /\ rd.total \in Nat /\ rd.emitted \in Nat /\ Len(parts) \in Nat
      /\ MaxEntries \in Nat
      /\ ZipDone(rd.i) /\ ZipMay /\ rd.text \in Texts
  BY <1>1, ZipFacts DEF ReaderInv
<1>3. rd.i \in 0 .. Len(parts) /\ rd.i < Len(parts) /\ i \in 1 .. Len(parts) /\ i - 1 = rd.i
  BY <1>1, <1>2 DEF More
<1>4. part \in Texts /\ Len(part) \in Nat
      /\ Size(SubSeq(parts, 1, i)) = Size(SubSeq(parts, 1, rd.i)) + Len(part)
  <2> HIDE DEF parts
  <2> QED BY <1>2, <1>3, PrefixSizes
<1>5. /\ rd' = [rd EXCEPT !.i = i, !.rest = part, !.buffer = <<>>, !.total = rd.total + Len(part)]
      /\ at' = "member" /\ File' = File
  BY <1>2 DEF ZipMember, Reading, Input, File
<1>6. <<>> \in Texts /\ rd.total + Len(part) \in Nat /\ i \in Nat
  BY <1>2, <1>4, SMTT(30) DEF Texts
<1>7. n \in Nat /\ n > 0
  BY <1>1, <1>2 DEF More, Budget
<1>8. Slid(part, part, <<>>, n)
  <2> HIDE DEF part, n
  <2> QED BY <1>4, <1>7, SlidStart
<1>9. rd.total + Len(part) <= MaxTotal /\ i <= MaxEntries /\ rd.total = Size(SubSeq(parts, 1, rd.i))
  BY <1>1, <1>2 DEF More, ZipMay
<1> DEFINE to == rd.total + Len(part)
<1> HIDE DEF part, i, to
<1>10. /\ rd' \in Readers /\ rd'.i = i /\ rd'.rest = part /\ rd'.buffer = <<>> /\ rd'.total = to
       /\ rd'.text = rd.text /\ rd'.emitted = rd.emitted
  BY <1>2, <1>4, <1>5, <1>6 DEF Readers, to
<1>11. ZipMay'
  BY <1>4, <1>5, <1>9, <1>10 DEF ZipMay, to
<1>12. ZipDone(rd.i - 1)'
  BY <1>2, <1>3, <1>5, <1>10 DEF ZipDone
<1>13. Budget' = n
  BY <1>10 DEF Budget
<1>14. Slid(File.parts[rd.i], rd.rest, rd.buffer, Budget)'
  BY <1>5, <1>8, <1>10, <1>13 DEF part
<1> HIDE DEF n
<1> QED BY <1>2, <1>3, <1>5, <1>7, <1>10, <1>11, <1>12, <1>13, <1>14 DEF ReaderInv, WindowExact

\* A chunk of a member moves its window
LEMMA MemberReader ==
  ASSUME Inv, ReaderInv, ZipChunk PROVE ReaderInv'
<1> DEFINE part == File.parts[rd.i]
           b == Budget
<1>1. at = "member" /\ at' = "member" /\ File' = File
  BY DEF ZipChunk, Reading, Input, File
<1>2. /\ File.parts \in Seq(Texts) /\ File.kind = "zip" /\ Tail_bytes \in Nat \ {0}
      /\ rd \in Readers
      /\ rd.emitted \in Nat /\ rd.rest \in Texts /\ rd.buffer \in Texts
      /\ rd.i \in 1 .. Len(File.parts) /\ ZipDone(rd.i - 1) /\ ZipMay /\ b > 0
      /\ Slid(part, rd.rest, rd.buffer, b)
  BY <1>1, ZipFacts DEF ReaderInv
<1>3. part \in Texts /\ b \in Nat
  BY <1>2 DEF Budget
<1>4. PICK p \in 1 .. Len(rd.rest) :
        rd' = [rd EXCEPT !.rest = From(@, p + 1),
                         !.buffer = LastOf(@ \o SubSeq(rd.rest, 1, p), Budget)]
  BY DEF ZipChunk
<1> DEFINE rest == From(rd.rest, p + 1)
           window == LastOf(rd.buffer \o SubSeq(rd.rest, 1, p), b)
<1>5. Slid(part, rest, window, b)
  <2> HIDE DEF part, b
  <2> QED BY <1>2, <1>3, <1>4, SlidStep
<1>6. rest \in Texts /\ window \in Texts
  <2> HIDE DEF part, b, rest, window
  <2> QED BY <1>3, <1>5, SlidType
<1>7. rd' = [rd EXCEPT !.rest = rest, !.buffer = window]
  BY <1>4
<1> HIDE DEF rest, window
<1>8. /\ rd' \in Readers /\ rd'.rest = rest /\ rd'.buffer = window /\ rd'.i = rd.i
      /\ rd'.text = rd.text
      /\ rd'.emitted = rd.emitted /\ rd'.total = rd.total
  BY <1>2, <1>6, <1>7 DEF Readers
<1>9. Budget' = b
  BY <1>8 DEF Budget
<1>10. Slid(File.parts[rd.i], rd.rest, rd.buffer, Budget)'
  BY <1>1, <1>5, <1>8, <1>9
<1>11. ZipMay' /\ ZipDone(rd.i - 1)'
  BY <1>1, <1>2, <1>8 DEF ZipMay, ZipDone
<1> HIDE DEF b
<1> QED BY <1>1, <1>2, <1>8, <1>9, <1>10, <1>11 DEF ReaderInv, WindowExact

\* A member that is done gives its share, whole, and leaves the rest of the tail
LEMMA MemberDone ==
  ASSUME Inv, ReaderInv, ZipMemberEnds PROVE ReaderInv'
<1> DEFINE parts == File.parts
           n == rd.i
           part == parts[n]
           before == Size(SubSeq(parts, 1, n - 1))
           b == Budget
           piece == <<NL, NL>> \o WholeLines(rd.buffer)
<1>1. at = "member" /\ at' = "zip" /\ File' = File /\ rd.rest = <<>>
  BY DEF ZipMemberEnds, Reading, Input, File
<1>2. /\ parts \in Seq(Texts) /\ File.kind = "zip" /\ Tail_bytes \in Nat \ {0} /\ rd \in Readers
      /\ MaxEntries \in Nat /\ MaxTotal \in Nat
      /\ rd.emitted \in Nat /\ rd.rest \in Texts /\ rd.buffer \in Texts /\ rd.text \in Texts
      /\ Len(parts) \in Nat
      /\ n \in 1 .. Len(parts) /\ ZipDone(n - 1) /\ ZipMay /\ b > 0
      /\ Slid(part, rd.rest, rd.buffer, b)
  BY <1>1, ZipFacts DEF ReaderInv
<1>3. part \in Texts /\ part \in Seq(Chars) /\ b \in Nat /\ n - 1 \in 0 .. Len(parts)
      /\ n - 1 < Len(parts) /\ n - 1 + 1 = n
  <2>1. part \in Texts /\ b \in Nat
    BY <1>2 DEF Budget
  <2>2. n - 1 \in 0 .. Len(parts) /\ n - 1 < Len(parts) /\ n - 1 + 1 = n
    <3> HIDE DEF n
    <3> QED BY <1>2
  <2> QED BY <2>1, <2>2 DEF Texts
<1>4. rd.buffer = LastOf(part, b)
  <2> HIDE DEF part, b
  <2> QED BY <1>1, <1>2, <1>3, SlidEnd
<1>5. before \in Nat /\ Len(part) \in Nat /\ Size(SubSeq(parts, 1, n)) = before + Len(part)
  <2> HIDE DEF parts, n
  <2>1. before \in Nat /\ (n - 1 < Len(parts) => Len(parts[n - 1 + 1]) \in Nat
          /\ Size(SubSeq(parts, 1, n - 1 + 1))
               = Size(SubSeq(parts, 1, n - 1)) + Len(parts[n - 1 + 1]))
    BY <1>2, <1>3, PrefixSizes
  <2> QED BY <1>3, <2>1
<1>6. rd.emitted = IF before < Tail_bytes THEN before ELSE Tail_bytes
  BY <1>2 DEF ZipDone
<1> HIDE DEF before
<1>7. before < Tail_bytes /\ rd.emitted = before /\ b = Tail_bytes - before
  BY <1>2, <1>5, <1>6 DEF Budget
<1>8. Share(parts, n) = b
  BY <1>7 DEF Share, before
<1>9. piece = Piece(parts, n)
  <2>1. n <= MaxEntries /\ Size(SubSeq(parts, 1, n)) <= MaxTotal /\ Share(parts, n) > 0
    BY <1>2, <1>8 DEF ZipMay
  <2> QED BY <1>4, <1>8, <2>1 DEF Piece
<1>10. Len(rd.buffer) \in Nat /\ Len(rd.buffer) = IF Len(part) > b THEN b ELSE Len(part)
  <2>1. Len(LastOf(part, b)) = IF Len(part) > b THEN b ELSE Len(part)
    <3> HIDE DEF part, b
    <3> QED BY <1>3, LastType
  <2> HIDE DEF part, b
  <2> QED BY <1>3, <1>4, <1>5, <2>1
<1>11. rd.emitted + Len(rd.buffer) =
         IF before + Len(part) < Tail_bytes THEN before + Len(part) ELSE Tail_bytes
  <2> HIDE DEF part, b
  <2> QED BY <1>2, <1>3, <1>5, <1>7, <1>10
<1> DEFINE text == rd.text \o <<NL, NL>> \o WholeLines(rd.buffer)
           emitted == rd.emitted + Len(rd.buffer)
<1>12. WholeLines(rd.buffer) \in Texts /\ <<NL, NL>> \in Texts
  BY <1>2, WholeType
<1>13. text = rd.text \o piece /\ text \in Texts /\ emitted \in Nat
  <2> DEFINE x == WholeLines(rd.buffer)
             y == <<NL, NL>>
             t == rd.text
  <2>1. x \in Seq(Chars) /\ y \in Seq(Chars) /\ t \in Seq(Chars)
    BY <1>2, <1>12 DEF Texts
  <2>2. (t \o y) \o x = t \o (y \o x) /\ (t \o y) \o x \in Seq(Chars)
    <3> HIDE DEF x, y, t
    <3> QED BY <2>1, ConcatAssociative, ConcatProperties
  <2>3. emitted \in Nat
    BY <1>2, <1>10
  <2> QED BY <2>2, <2>3 DEF Texts
<1>14. text = FlattenSeq([i \in 1 .. n |-> Piece(parts, i)])
  <2>1. rd.text = FlattenSeq([i \in 1 .. n - 1 |-> Piece(parts, i)])
    BY <1>2 DEF ZipDone
  <2>2. FlattenSeq([i \in 1 .. n |-> Piece(parts, i)])
          = FlattenSeq([i \in 1 .. n - 1 |-> Piece(parts, i)]) \o Piece(parts, n)
    <3> HIDE DEF parts, n
    <3> QED BY <1>2, PiecesMore
  <2> QED BY <1>9, <1>13, <2>1, <2>2
<1>15. rd' = [rd EXCEPT !.text = text, !.emitted = emitted]
  BY <1>2 DEF ZipMemberEnds
<1> HIDE DEF text, emitted
<1>16. /\ rd' \in Readers /\ rd'.text = text /\ rd'.emitted = emitted /\ rd'.i = rd.i
       /\ rd'.total = rd.total
  BY <1>2, <1>13, <1>15 DEF Readers
<1>17. ZipMay'
  BY <1>1, <1>2, <1>16 DEF ZipMay
<1>18. ZipDone(rd.i)'
  <2>1. n \in 0 .. Len(parts)
    BY <1>2
  <2> QED BY <1>1, <1>5, <1>11, <1>14, <1>16, <2>1 DEF ZipDone, emitted
<1> QED BY <1>1, <1>2, <1>16, <1>17, <1>18 DEF ReaderInv, WindowExact

\* The script stops where no member has anything left to give
LEMMA ZipDoneReader ==
  ASSUME Inv, ReaderInv, ZipEnds PROVE ReaderInv'
<1> DEFINE parts == File.parts
           n == rd.i
<1>1. at = "zip" /\ ~More /\ rd' = [NoReader EXCEPT !.text = rd.text] /\ at' = "scan"
      /\ File' = File
  BY DEF ZipEnds, HaveText, Reading, Input, File
<1>2. /\ parts \in Seq(Texts) /\ File.kind = "zip" /\ Tail_bytes \in Nat \ {0} /\ rd \in Readers
      /\ MaxEntries \in Nat /\ MaxTotal \in Nat /\ rd.emitted \in Nat /\ rd.text \in Texts
      /\ Len(parts) \in Nat /\ n \in 0 .. Len(parts) /\ ZipDone(n) /\ ZipMay
  BY <1>1, ZipFacts DEF ReaderInv, ZipDone
<1>3. n < Len(parts) =>
        \/ n >= MaxEntries \/ Size(SubSeq(parts, 1, n + 1)) > MaxTotal
        \/ Size(SubSeq(parts, 1, n)) >= Tail_bytes
  <2> SUFFICES ASSUME n < Len(parts), n < MaxEntries, ~(Size(SubSeq(parts, 1, n)) >= Tail_bytes)
               PROVE  Size(SubSeq(parts, 1, n + 1)) > MaxTotal
    BY <1>2
  <2> DEFINE now == Size(SubSeq(parts, 1, n))
             part == parts[n + 1]
  <2>1. now \in Nat /\ Len(part) \in Nat /\ Size(SubSeq(parts, 1, n + 1)) = now + Len(part)
    <3> HIDE DEF parts, n
    <3> QED BY <1>2, PrefixSizes
  <2>2. rd.total = now /\ rd.emitted = now
    <3>1. rd.total = now /\ rd.emitted = IF now < Tail_bytes THEN now ELSE Tail_bytes
      BY <1>2 DEF ZipMay, ZipDone
    <3>2. ~(now >= Tail_bytes)
      OBVIOUS
    <3> HIDE DEF now
    <3> QED BY <1>2, <2>1, <3>1, <3>2
  <2>3. Budget > 0
    <3> HIDE DEF now
    <3> QED BY <1>2, <2>1, <2>2 DEF Budget, now
  <2>4. ~(rd.total + Len(part) <= MaxTotal)
    BY <1>1, <1>2, <2>3 DEF More
  <2> HIDE DEF now, part
  <2> QED BY <1>2, <2>1, <2>2, <2>4
<1>4. FlattenSeq([i \in DOMAIN parts |-> Piece(parts, i)])
        = FlattenSeq([i \in 1 .. n |-> Piece(parts, i)])
  <2> HIDE DEF parts, n
  <2> QED BY <1>2, <1>3, PiecesEnd
<1>5. Window(File) = FlattenSeq([i \in DOMAIN parts |-> Piece(parts, i)])
  BY <1>2, WindowIs
<1>6. rd.text = Window(File)
  BY <1>2, <1>4, <1>5 DEF ZipDone
<1>7. rd' \in Readers /\ rd'.text = rd.text
  BY <1>1, <1>2, ReadersAre DEF NoReader, Readers
<1> QED BY <1>1, <1>6, <1>7 DEF ReaderInv, WindowExact

\* A block that was read, in front of what the last one left
LEMMA BlockFacts ==
  ASSUME NEW rest \in Texts, NEW buffer \in Texts
  PROVE  LET chunk == LastOf(rest, Block) IN
         /\ Block \in Nat /\ chunk \in Texts /\ chunk \o buffer \in Texts
         /\ SubSeq(rest, 1, Len(rest) - Len(chunk)) \in Texts
         /\ rest = SubSeq(rest, 1, Len(rest) - Len(chunk)) \o chunk
<1> DEFINE chunk == LastOf(rest, Block)
<1>1. Block \in Nat /\ rest \in Seq(Chars) /\ buffer \in Seq(Chars) /\ Len(rest) \in Nat
  BY ScanConfig DEF Texts
<1>2. chunk \in Seq(Chars) /\ Len(chunk) \in 0 .. Len(rest)
      /\ rest = SubSeq(rest, 1, Len(rest) - Len(chunk)) \o chunk
  BY <1>1, LastType, CutLast
<1> HIDE DEF chunk
<1>3. chunk \o buffer \in Seq(Chars)
  BY <1>1, <1>2, ConcatProperties
<1> DEFINE m == Len(rest) - Len(chunk)
<1>4. m \in 0 .. Len(rest)
  BY <1>1, <1>2
<1>5. SubSeq(rest, 1, m) \in Seq(Chars)
  <2> HIDE DEF m
  <2> QED BY <1>1, <1>4, Cut
<1> QED BY <1>1, <1>2, <1>3, <1>5 DEF chunk, Texts

\* Every step preserves the reader's invariant
LEMMA StepReader ==
  ASSUME Inv, ReaderInv, [Next]_vars PROVE ReaderInv'
<1>0. rd \in Readers /\ rd.i \in Nat /\ rd.rest \in Texts /\ rd.buffer \in Texts
  BY ReadersAre DEF ReaderInv
<1>1. CASE NotThere \/ LocalFileEnds \/ RemoteFails \/ ScanText
  <2>1. rd' = NoReader /\ at' = "next"
    BY <1>1 DEF NotThere, LocalFileEnds, RemoteFails, ScanText, NextFile
  <2> QED BY <2>1, ReadersAre, Idle
<1>2. CASE OpenLocal
  <2>1. (rd' = NoReader /\ at' = "next") \/ (rd' = rd /\ at' = "parts")
    BY <1>2 DEF OpenLocal, NextFile
  <2> QED BY <1>0, <2>1, ReadersAre, Idle
<1>3. CASE NextPart
  <2>1. at = "parts" /\ rd.i < Len(File.parts) /\ at' \in {"parts", "blocks"}
    BY <1>3 DEF NextPart
  <2>2. Len(File.parts) \in Nat /\ File.parts \in Seq(Texts)
    BY <2>1, FileFacts DEF Inv, AtFile
  <2>3. rd.i + 1 \in Nat /\ File.parts[rd.i + 1] \in Texts
    BY <1>0, <2>1, <2>2
  <2>4. \/ rd' = [NoReader EXCEPT !.i = rd.i + 1, !.rest = File.parts[rd.i + 1]]
        \/ rd' = [rd EXCEPT !.i = rd.i + 1]
    BY <1>3 DEF NextPart
  <2>5. rd' \in Readers
    BY <1>0, <2>3, <2>4, ReadersAre DEF Readers, NoReader
  <2> QED BY <2>1, <2>5, Idle
<1>4. CASE ReadBlock
  <2> DEFINE chunk == LastOf(rd.rest, Block)
             rest == SubSeq(rd.rest, 1, Len(rd.rest) - Len(chunk))
             lines == Lines(chunk \o rd.buffer)
  <2>1. rd' = [rd EXCEPT !.rest = rest, !.buffer = Head(lines)] /\ at' = "blocks"
    BY <1>4 DEF ReadBlock
  <2>2. chunk \o rd.buffer \in Texts /\ rest \in Texts
    BY <1>0, BlockFacts
  <2>3. Head(lines) \in Texts
    BY <2>2, HeadPlain
  <2> HIDE DEF rest, lines
  <2>4. rd' \in Readers
    BY <1>0, <2>1, <2>2, <2>3 DEF Readers
  <2> QED BY <2>1, <2>4, Idle
<1>5. CASE FirstLine
  <2>1. rd' = rd /\ at' = "parts"
    BY <1>5 DEF FirstLine
  <2> QED BY <1>0, <2>1, Idle
<1>6. CASE OpenRemote
  BY <1>6, OpensReader
<1>7. CASE GzipChunk \/ GzipEnds
  BY <1>7, GzipReader
<1>8. CASE ZipMember
  BY <1>8, OpensMember
<1>9. CASE ZipChunk
  BY <1>9, MemberReader
<1>10. CASE ZipMemberEnds
  BY <1>10, MemberDone
<1>11. CASE ZipEnds
  BY <1>11, ZipDoneReader
<1>12. CASE Finish \/ Abort
  <2>1. at' = "end" /\ (rd' = rd \/ rd' = NoReader)
    BY <1>12 DEF Finish, Abort
  <2> QED BY <1>0, <2>1, ReadersAre, Idle
<1>13. CASE Resting \/ UNCHANGED vars
  <2>1. UNCHANGED <<files, at, k, rd>>
    BY <1>13 DEF Resting, vars
  <2> QED BY <2>1 DEF ReaderInv, WindowExact, File, ZipMay, ZipDone, Budget
<1> QED BY <1>1, <1>2, <1>3, <1>4, <1>5, <1>6, <1>7, <1>8, <1>9, <1>10, <1>11, <1>12, <1>13
        DEF Next, ScanLocal, ScanRemote

\* test_remote_script_returns_decompressed_tail, for every file and however its
\* stream comes in chunks: the text that scan_remote_logs_real_time scans is
\* exactly what the limits leave of the file, neither short nor long.
THEOREM WindowIsExact == Spec => []WindowExact
<1>1. Init => Inv /\ ReaderInv
  BY InitInv, InitReader
<1>2. Inv /\ ReaderInv /\ [Next]_vars => (Inv /\ ReaderInv)'
  BY StepInv, StepReader
<1>3. ReaderInv => WindowExact
  BY DEF ReaderInv
<1> QED BY <1>1, <1>2, <1>3, PTL DEF Spec

----------------------------------------------------------------------------
(* The lines there are to be read.                                          *)

\* The lines of the ith part of the nth file, the last first; of its first i
\* parts; of the file; of the files before the nth
PartLines(parts, gone, n, i) == IF <<n, i>> \in gone THEN <<>> ELSE Reverse(Lines(parts[i]))
UpToPart(parts, gone, n, i) == [j \in 1 .. i |-> PartLines(parts, gone, n, j)]
Parted(parts, gone, n, i) == FlattenSeq(UpToPart(parts, gone, n, i))
FileLines(how, f, fails, gone, n) ==
  IF how = "real_time" THEN (IF n \in fails THEN <<>> ELSE Reverse(Lines(Window(f))))
  ELSE Parted(f.parts, gone, n, Len(f.parts))
UpToFile(how, input, fails, gone, n) ==
  [j \in 1 .. n - 1 |-> FileLines(how, input[j], fails, gone, j)]
Before(how, input, fails, gone, n) == FlattenSeq(UpToFile(how, input, fails, gone, n))

\* All the lines begin with some
Begin(lines, all) == \E rest \in Seq(Texts) : all = lines \o rest

\* The lines of a text, the last first, are lines
LEMMA ReversedType ==
  ASSUME NEW text \in Texts PROVE Reverse(Lines(text)) \in Seq(Texts)
<1>1. Lines(text) \in Seq(Texts)
  BY LinesType DEF Rows
<1> QED BY <1>1, ReverseType

\* The lines of parts are lines
LEMMA PartedType ==
  ASSUME NEW parts \in Seq(Texts), NEW gone, NEW n, NEW i \in 0 .. Len(parts)
  PROVE  /\ \A j \in 1 .. Len(parts) : PartLines(parts, gone, n, j) \in Seq(Texts)
         /\ UpToPart(parts, gone, n, i) \in Seq(Seq(Texts))
         /\ Len(UpToPart(parts, gone, n, i)) = i
         /\ Parted(parts, gone, n, i) \in Seq(Texts)
<1> DEFINE seqs == UpToPart(parts, gone, n, i)
<1>1. Len(parts) \in Nat /\ i \in Nat /\ i <= Len(parts)
  OBVIOUS
<1>2. ASSUME NEW j \in 1 .. Len(parts) PROVE PartLines(parts, gone, n, j) \in Seq(Texts)
  <2>1. parts[j] \in Texts
    BY <1>2
  <2>2. Reverse(Lines(parts[j])) \in Seq(Texts) /\ <<>> \in Seq(Texts)
    BY <2>1, ReversedType
  <2> QED BY <2>2 DEF PartLines
<1>3. \A j \in 1 .. i : PartLines(parts, gone, n, j) \in Seq(Texts)
  BY <1>1, <1>2
<1>4. seqs \in Seq(Seq(Texts)) /\ Len(seqs) = i
  BY <1>1, <1>3 DEF UpToPart
<1>5. FlattenSeq(seqs) \in Seq(Texts)
  <2> HIDE DEF seqs
  <2> QED BY <1>4, FlattenType
<1> QED BY <1>2, <1>4, <1>5 DEF Parted

\* No part, no lines
LEMMA PartedNone ==
  ASSUME NEW parts, NEW gone, NEW n PROVE Parted(parts, gone, n, 0) = <<>>
<1>1. 1 .. 0 = {}
  OBVIOUS
<1>2. UpToPart(parts, gone, n, 0) = <<>>
  BY <1>1 DEF UpToPart
<1> QED BY <1>2, FlattenEmpty DEF Parted

\* One part more
LEMMA PartedMore ==
  ASSUME NEW parts \in Seq(Texts), NEW gone, NEW n, NEW i \in 1 .. Len(parts)
  PROVE  Parted(parts, gone, n, i) = Parted(parts, gone, n, i - 1) \o PartLines(parts, gone, n, i)
<1> DEFINE g == UpToPart(parts, gone, n, i - 1)
           h == UpToPart(parts, gone, n, i)
<1>1. Len(parts) \in Nat /\ i \in 0 .. Len(parts) /\ i - 1 \in 0 .. Len(parts)
  OBVIOUS
<1>2. g \in Seq(Seq(Texts)) /\ Len(g) = i - 1 /\ h \in Seq(Seq(Texts)) /\ Len(h) = i
  <2>1. h \in Seq(Seq(Texts)) /\ Len(h) = i
    BY <1>1, PartedType
  <2>2. PICK d \in 0 .. Len(parts) : d = i - 1
    BY <1>1
  <2>3. UpToPart(parts, gone, n, d) \in Seq(Seq(Texts)) /\ Len(UpToPart(parts, gone, n, d)) = d
    BY <2>2, PartedType
  <2> QED BY <2>1, <2>2, <2>3
<1>3. (\A j \in 1 .. i - 1 : g[j] = h[j]) /\ h[i] = PartLines(parts, gone, n, i)
  BY <1>1 DEF UpToPart
<1> HIDE DEF g, h
<1>4. FlattenSeq(h) = FlattenSeq(g) \o h[Len(h)]
  <2>1. Len(h) = Len(g) + 1 /\ \A j \in 1 .. Len(g) : g[j] = h[j]
    BY <1>1, <1>2, <1>3
  <2> QED BY <1>2, <2>1, FlattenOneMore
<1> QED BY <1>2, <1>3, <1>4 DEF Parted, g, h

\* The lines of more texts begin with those of the first of them
LEMMA FlattenBegins ==
  ASSUME NEW g \in Seq(Seq(Texts)), NEW h \in Seq(Seq(Texts)), Len(g) <= Len(h),
         \A j \in 1 .. Len(g) : g[j] = h[j]
  PROVE  Begin(FlattenSeq(g), FlattenSeq(h))
<1>1. \E rest \in Seq(Texts) : FlattenSeq(h) = FlattenSeq(g) \o rest
  BY FlattenSplit, ZenonT(30)
<1> QED BY <1>1 DEF Begin

\* The lines of a file begin with those of its first parts
LEMMA PartedRest ==
  ASSUME NEW parts \in Seq(Texts), NEW gone, NEW n, NEW i \in 0 .. Len(parts)
  PROVE  Begin(Parted(parts, gone, n, i), Parted(parts, gone, n, Len(parts)))
<1> DEFINE l == Len(parts)
           g == UpToPart(parts, gone, n, i)
           h == UpToPart(parts, gone, n, l)
<1>1. l \in 0 .. l /\ i \in Nat /\ i <= l /\ l \in Nat
  OBVIOUS
<1>2. g \in Seq(Seq(Texts)) /\ Len(g) = i /\ h \in Seq(Seq(Texts)) /\ Len(h) = l
  BY <1>1, PartedType
<1>3. \A j \in 1 .. i : g[j] = h[j]
  BY <1>1 DEF UpToPart
<1> HIDE DEF g, h
<1>4. Len(g) <= Len(h) /\ \A j \in 1 .. Len(g) : g[j] = h[j]
  BY <1>1, <1>2, <1>3
<1>5. Begin(FlattenSeq(g), FlattenSeq(h))
  BY <1>2, <1>4, FlattenBegins
<1> QED BY <1>5 DEF Parted, g, h

\* Nothing can be read of a file none of whose parts is there
LEMMA PartedGone ==
  ASSUME NEW parts \in Seq(Texts), NEW gone, NEW n, \A i \in 1 .. Len(parts) : <<n, i>> \in gone
  PROVE  Parted(parts, gone, n, Len(parts)) = <<>>
<1> DEFINE h == UpToPart(parts, gone, n, Len(parts))
<1>1. Len(parts) \in 0 .. Len(parts)
  OBVIOUS
<1>2. h \in Seq(Seq(Texts)) /\ Len(h) = Len(parts)
  BY <1>1, PartedType
<1>3. \A j \in 1 .. Len(parts) : h[j] = <<>>
  BY DEF PartLines, UpToPart
<1> HIDE DEF h
<1>4. FlattenSeq(h) = <<>>
  BY <1>2, <1>3, FlattenNothing
<1> QED BY <1>4 DEF Parted, h

\* What a later file or part lost does not change the lines of the first ones
LEMMA PartedSame ==
  ASSUME NEW parts \in Seq(Texts), NEW gone, NEW lost, NEW n, NEW i \in 0 .. Len(parts),
         \A j \in 1 .. i : <<n, j>> \in lost <=> <<n, j>> \in gone
  PROVE  Parted(parts, lost, n, i) = Parted(parts, gone, n, i)
<1>1. \A j \in 1 .. i : PartLines(parts, lost, n, j) = PartLines(parts, gone, n, j)
  BY DEF PartLines
<1>2. UpToPart(parts, lost, n, i) = UpToPart(parts, gone, n, i)
  BY <1>1 DEF UpToPart
<1> QED BY <1>2 DEF Parted

\* The lines of a file are lines
LEMMA FileLinesType ==
  ASSUME NEW how, NEW input \in Inputs, NEW fails, NEW gone, NEW n \in 1 .. Len(input)
  PROVE  FileLines(how, input[n], fails, gone, n) \in Seq(Texts)
<1>1. input[n].parts \in Seq(Texts)
  BY InputFacts
<1>2. Len(input[n].parts) \in 0 .. Len(input[n].parts)
  BY <1>1
<1>3. Parted(input[n].parts, gone, n, Len(input[n].parts)) \in Seq(Texts)
  BY <1>1, <1>2, PartedType
<1>4. Reverse(Lines(Window(input[n]))) \in Seq(Texts) /\ <<>> \in Seq(Texts)
  BY WindowType, ReversedType
<1> QED BY <1>3, <1>4 DEF FileLines

\* The lines of the files before one are lines
LEMMA BeforeType ==
  ASSUME NEW how, NEW input \in Inputs, NEW fails, NEW gone, NEW n \in 1 .. Len(input) + 1
  PROVE  /\ UpToFile(how, input, fails, gone, n) \in Seq(Seq(Texts))
         /\ Len(UpToFile(how, input, fails, gone, n)) = n - 1
         /\ Before(how, input, fails, gone, n) \in Seq(Texts)
<1> DEFINE g == UpToFile(how, input, fails, gone, n)
<1>1. Len(input) \in Nat /\ n - 1 \in Nat /\ n - 1 <= Len(input)
  BY InputFacts
<1>2. ASSUME NEW j \in 1 .. n - 1 PROVE FileLines(how, input[j], fails, gone, j) \in Seq(Texts)
  <2>1. j \in 1 .. Len(input)
    BY <1>1
  <2> QED BY <2>1, FileLinesType
<1>3. g \in Seq(Seq(Texts)) /\ Len(g) = n - 1
  BY <1>1, <1>2 DEF UpToFile
<1>4. FlattenSeq(g) \in Seq(Texts)
  <2> HIDE DEF g
  <2> QED BY <1>3, FlattenType
<1> QED BY <1>3, <1>4 DEF Before

\* One file more
LEMMA BeforeMore ==
  ASSUME NEW how, NEW input \in Inputs, NEW fails, NEW gone, NEW n \in 1 .. Len(input)
  PROVE  Before(how, input, fails, gone, n + 1)
           = Before(how, input, fails, gone, n) \o FileLines(how, input[n], fails, gone, n)
<1> DEFINE g == UpToFile(how, input, fails, gone, n)
           h == UpToFile(how, input, fails, gone, n + 1)
<1>1. Len(input) \in Nat /\ n \in 1 .. Len(input) + 1 /\ n + 1 \in 1 .. Len(input) + 1
      /\ (n + 1) - 1 = n
  BY InputFacts
<1>2. g \in Seq(Seq(Texts)) /\ Len(g) = n - 1
  BY <1>1, BeforeType
<1>3. h \in Seq(Seq(Texts)) /\ Len(h) = (n + 1) - 1
  BY <1>1, BeforeType
<1>4. (\A j \in 1 .. n - 1 : g[j] = h[j]) /\ h[n] = FileLines(how, input[n], fails, gone, n)
  BY <1>1 DEF UpToFile
<1> HIDE DEF g, h
<1>5. Len(h) = Len(g) + 1 /\ Len(h) = n /\ \A j \in 1 .. Len(g) : g[j] = h[j]
  BY <1>1, <1>2, <1>3, <1>4
<1>6. FlattenSeq(h) = FlattenSeq(g) \o h[Len(h)]
  BY <1>2, <1>3, <1>5, FlattenOneMore
<1> QED BY <1>4, <1>5, <1>6 DEF Before, g, h

\* What later files lose or fail does not change the lines of the first ones
LEMMA BeforeSame ==
  ASSUME NEW how, NEW input \in Inputs, NEW fails, NEW gone, NEW broken, NEW lost,
         NEW n \in 1 .. Len(input) + 1,
         \A j \in 1 .. n - 1 : j \in broken <=> j \in fails,
         \A j \in 1 .. n - 1 : \A i : <<j, i>> \in lost <=> <<j, i>> \in gone
  PROVE  Before(how, input, broken, lost, n) = Before(how, input, fails, gone, n)
<1>1. Len(input) \in Nat
  BY InputFacts
<1>2. ASSUME NEW j \in 1 .. n - 1
      PROVE  FileLines(how, input[j], broken, lost, j) = FileLines(how, input[j], fails, gone, j)
  <2> DEFINE parts == input[j].parts
  <2>1. parts \in Seq(Texts)
    BY <1>1, InputFacts
  <2>2. Len(parts) \in 0 .. Len(parts)
        /\ \A i \in 1 .. Len(parts) : <<j, i>> \in lost <=> <<j, i>> \in gone
    BY <2>1
  <2>3. Parted(parts, lost, j, Len(parts)) = Parted(parts, gone, j, Len(parts))
    <3> HIDE DEF parts
    <3> QED BY <2>1, <2>2, PartedSame
  <2> QED BY <2>3 DEF FileLines
<1>3. UpToFile(how, input, broken, lost, n) = UpToFile(how, input, fails, gone, n)
  BY <1>2 DEF UpToFile
<1> QED BY <1>3 DEF Before

\* All lines begin with those of the first files
LEMMA BeforeRest ==
  ASSUME NEW how, NEW input \in Inputs, NEW fails, NEW gone, NEW n \in 1 .. Len(input) + 1
  PROVE  Begin(Before(how, input, fails, gone, n), Before(how, input, fails, gone, Len(input) + 1))
<1> DEFINE e == Len(input) + 1
           g == UpToFile(how, input, fails, gone, n)
           h == UpToFile(how, input, fails, gone, e)
<1>1. Len(input) \in Nat /\ e \in 1 .. e /\ n - 1 \in Nat /\ e - 1 \in Nat /\ n - 1 <= e - 1
  BY InputFacts
<1>2. g \in Seq(Seq(Texts)) /\ Len(g) = n - 1
  BY BeforeType
<1>3. h \in Seq(Seq(Texts)) /\ Len(h) = e - 1
  BY <1>1, BeforeType
<1>4. \A j \in 1 .. n - 1 : g[j] = h[j]
  BY <1>1 DEF UpToFile
<1> HIDE DEF g, h, e
<1>5. Len(g) <= Len(h) /\ \A j \in 1 .. Len(g) : g[j] = h[j]
  BY <1>1, <1>2, <1>3, <1>4
<1>6. Begin(FlattenSeq(g), FlattenSeq(h))
  BY <1>2, <1>3, <1>5, FlattenBegins
<1> QED BY <1>6 DEF Before, g, h, e

\* All there is to be read are the lines of the files before the end
LEMMA LinesAre ==
  ASSUME files \in Inputs
  PROVE  AllLines = Before(mode, files, failed, unread, Len(files) + 1)
<1>1. DOMAIN files = 1 .. Len(files) /\ Len(files) \in Nat /\ (Len(files) + 1) - 1 = Len(files)
  BY InputFacts
<1>2. ASSUME NEW n \in 1 .. Len(files)
      PROVE  LinesOf(n) = FileLines(mode, files[n], failed, unread, n)
  <2> DEFINE parts == files[n].parts
  <2>1. parts \in Seq(Texts)
    BY InputFacts
  <2>2. DOMAIN parts = 1 .. Len(parts)
    BY <2>1
  <2>3. [i \in DOMAIN parts |-> IF <<n, i>> \in unread THEN <<>> ELSE Reverse(Lines(parts[i]))]
          = UpToPart(parts, unread, n, Len(parts))
    BY <2>2 DEF PartLines, UpToPart
  <2> QED BY <2>3 DEF LinesOf, FileLines, Parted
<1>3. [n \in DOMAIN files |-> LinesOf(n)]
        = UpToFile(mode, files, failed, unread, Len(files) + 1)
  BY <1>1, <1>2 DEF UpToFile
<1> QED BY <1>3 DEF AllLines, Before

----------------------------------------------------------------------------
(* The lines that were scanned.                                             *)

Behind == Before(mode, files, failed, unread, k)
Here(i) == Parted(File.parts, unread, k, i)
Blocks ==
  \E done \in Seq(Texts) :
    /\ Reverse(Lines(File.parts[rd.i])) = done \o Reverse(Lines(rd.rest \o rd.buffer))
    /\ Keeps(results, Behind \o (Here(rd.i - 1) \o done))

LinesInv ==
  /\ results \in Founds /\ unread \subseteq Nat \X Nat
  /\ at # "end" =>
       \A p \in unread : p[1] < k \/ (p[1] = k /\ at \in {"parts", "blocks"} /\ p[2] <= rd.i)
  /\ at = "next" => rd.i = 0
  /\ at = "blocks" =>
       <<k, rd.i>> \notin unread /\ rd.i \in 1 .. Len(File.parts) /\ Plain(rd.buffer) /\ Blocks
  /\ at = "parts" => rd.i \in 0 .. Len(File.parts) /\ Keeps(results, Behind \o Here(rd.i))
  /\ at \in {"next", "gzip", "zip", "member", "scan"} => Keeps(results, Behind)
  /\ at \in {"parts", "blocks"} => mode = "local"
  /\ at \in {"gzip", "zip", "member", "scan"} => mode = "real_time"
  /\ outcome = "answered" => (k > Len(files) \/ AllReachedLimit(results)) /\ Keeps(results, Behind)

\* Concatenation
LEMMA Associative ==
  ASSUME NEW S, NEW a \in Seq(S), NEW b \in Seq(S), NEW c \in Seq(S)
  PROVE  (a \o b) \o c = a \o (b \o c) /\ a \o b \in Seq(S) /\ a \o <<>> = a /\ <<>> \o a = a
BY ConcatAssociative, ConcatProperties, ConcatEmptySeq

\* The lines behind the scan are lines
LEMMA BehindType ==
  ASSUME Inv PROVE Behind \in Seq(Texts) /\ Len(files) \in Nat /\ files \in Inputs /\ k \in Nat
BY InputFacts, BeforeType DEF Inv, Behind

\* The invariant of the lines holds at the start
LEMMA InitLines == Init => LinesInv
<1> SUFFICES ASSUME Init PROVE LinesInv
  OBVIOUS
<1>1. results = [id \in Ids |-> <<>>] /\ results \in Founds
  BY DEF Init, Founds
<1>2. Behind = <<>>
  <2>1. 1 .. 0 = {}
    OBVIOUS
  <2>2. UpToFile(mode, files, failed, unread, 1) = <<>>
    BY <2>1 DEF UpToFile
  <2> QED BY <2>2, FlattenEmpty DEF Init, Behind, Before
<1>3. Limit \in Nat \ {0}
  BY LimitPositive
<1>4. UpToLimit(<<>>) = <<>>
  BY <1>3 DEF UpToLimit
<1>5. Keeps(results, Behind)
  BY <1>1, <1>2, <1>4, OwnEmpty DEF Keeps
<1> QED BY <1>1, <1>5 DEF Init, LinesInv, NoReader

\* The scan comes past a file: it has kept the lines there were
LEMMA Past ==
  ASSUME Inv, LinesInv, k <= Len(files), NextFile, Input, UNCHANGED outcome, outcome = "none",
         results' \in Founds,
         \A p : p \in unread' => p \in unread \/ p \in Parts(DOMAIN File.parts),
         unread \subseteq unread',
         failed \subseteq failed', failed' \subseteq failed \cup {k}, at # "end",
         Keeps(results', Behind \o FileLines(mode, File, failed', unread', k))
  PROVE  LinesInv'
<1>1. PICK n \in 1 .. Len(files) : n = k
  BY FileFacts
<1>2. /\ n \in 1 .. Len(files) + 1 /\ Len(files) \in Nat /\ files' = files /\ mode' = mode
      /\ k' = n + 1
      /\ at' = "next" /\ rd' = NoReader /\ files \in Inputs
  BY <1>1, InputFacts DEF NextFile, Input, Inv
<1>3. /\ \A j \in 1 .. n - 1 : j \in failed' <=> j \in failed
      /\ \A j \in 1 .. n - 1 : \A i : <<j, i>> \in unread' <=> <<j, i>> \in unread
  <2>1. \A j \in 1 .. n - 1 : j # n
    BY <1>2
  <2>2. \A j \in 1 .. n - 1 : \A i : <<j, i>> \notin Parts(DOMAIN File.parts)
    BY <1>1, <2>1 DEF Parts
  <2> QED BY <1>1, <2>1, <2>2
<1>4. Before(mode, files, failed', unread', n) = Before(mode, files, failed, unread, n)
  BY <1>2, <1>3, BeforeSame
<1>5. Before(mode, files, failed', unread', n + 1)
        = Before(mode, files, failed', unread', n) \o FileLines(mode, files[n], failed', unread', n)
  BY <1>1, <1>2, BeforeMore
<1>6. Behind' = Behind \o FileLines(mode, File, failed', unread', k)
  BY <1>1, <1>2, <1>4, <1>5 DEF Behind, File
<1>7. Keeps(results, Behind)'
  BY <1>6 DEF Keeps
<1>8. \A p \in unread' : p \in Nat \X Nat /\ p[1] < k'
  <2>1. \A p \in unread : p[1] < k'
    <3>1. \A p \in unread : p[1] \in Nat /\ (p[1] < n \/ p[1] = n)
      BY <1>1 DEF LinesInv
    <3> QED BY <1>1, <1>2, <3>1
  <2>2. \A p \in Parts(DOMAIN File.parts) : p \in Nat \X Nat /\ p[1] < k'
    <3>1. DOMAIN File.parts \subseteq Nat
      BY FileFacts
    <3> QED BY <1>1, <1>2, <3>1 DEF Parts
  <2>3. unread \subseteq Nat \X Nat
    BY DEF LinesInv
  <2> QED BY <2>1, <2>2, <2>3
<1> QED BY <1>2, <1>7, <1>8 DEF LinesInv, NoReader

\* A file of which nothing is read is come past as it is
LEMMA PastUnread ==
  ASSUME Inv, LinesInv, at = "next" \/ at \in {"gzip", "zip", "member"}, k <= Len(files),
         NextFile, Input,
         UNCHANGED <<outcome, results>>, outcome = "none",
         unread' = unread \cup Parts(DOMAIN File.parts),
         failed' = IF mode = "real_time" THEN failed \cup {k} ELSE failed
  PROVE  LinesInv'
<1>1. FileLines(mode, File, failed', unread', k) = <<>>
  <2>1. CASE mode = "real_time"
    BY <2>1 DEF FileLines
  <2>2. CASE mode # "real_time"
    <3> DEFINE parts == File.parts
    <3>1. parts \in Seq(Texts) /\ \A i \in 1 .. Len(parts) : <<k, i>> \in unread'
      BY FileFacts DEF Parts
    <3>2. PICK n : n = k
      OBVIOUS
    <3>3. Parted(parts, unread', n, Len(parts)) = <<>>
      <4> HIDE DEF parts
      <4>1. \A i \in 1 .. Len(parts) : <<n, i>> \in unread'
        BY <3>1, <3>2
      <4> QED BY <3>1, <4>1, PartedGone
    <3> QED BY <2>2, <3>2, <3>3 DEF FileLines
  <2> QED BY <2>1, <2>2
<1>2. Keeps(results, Behind) /\ results \in Founds
  BY DEF LinesInv
<1>3. Behind \o <<>> = Behind
  BY BehindType, Associative
<1>4. Keeps(results', Behind \o FileLines(mode, File, failed', unread', k))
  <2>1. Behind \o FileLines(mode, File, failed', unread', k) = Behind
    BY <1>1, <1>3
  <2> QED BY <1>2, <2>1
<1> QED BY <1>2, <1>4, Past

\* A local file ends: all its parts were scanned, or the limits are reached
LEMMA PastLocal ==
  ASSUME Inv, LinesInv, LocalFileEnds, outcome = "none" PROVE LinesInv'
<1> DEFINE parts == File.parts
           here == Here(rd.i)
           all == Parted(parts, unread, k, Len(parts))
<1>1. /\ at = "parts" /\ mode = "local" /\ k <= Len(files)
      /\ (rd.i = Len(parts) \/ AllReachedLimit(results))
      /\ NextFile /\ Input /\ UNCHANGED <<results, scanned, failed, unread, outcome>>
  BY DEF LocalFileEnds, LinesInv, Inv, AtFile
<1>2. parts \in Seq(Texts) /\ rd.i \in 0 .. Len(parts) /\ results \in Founds
      /\ Behind \in Seq(Texts)
      /\ Keeps(results, Behind \o here)
  BY <1>1, FileFacts, BehindType DEF LinesInv
<1>3. FileLines(mode, File, failed', unread', k) = all
  BY <1>1 DEF FileLines
<1>4. here \in Seq(Texts) /\ \E r \in Seq(Texts) : all = here \o r
  <2>1. PICK n : n = k
    OBVIOUS
  <2>2. PICK i \in 0 .. Len(parts) : i = rd.i
    BY <1>2
  <2>3. /\ Parted(parts, unread, n, i) \in Seq(Texts)
        /\ Begin(Parted(parts, unread, n, i), Parted(parts, unread, n, Len(parts)))
    <3> HIDE DEF parts
    <3>1. parts \in Seq(Texts) /\ i \in 0 .. Len(parts)
      BY <1>2, <2>2
    <3>2. Parted(parts, unread, n, i) \in Seq(Texts)
      BY <3>1, PartedType
    <3>3. Begin(Parted(parts, unread, n, i), Parted(parts, unread, n, Len(parts)))
      BY <3>1, PartedRest
    <3> QED BY <3>2, <3>3
  <2> QED BY <2>1, <2>2, <2>3 DEF Here, Begin
<1>5. Keeps(results, Behind \o all)
  <2>1. CASE rd.i = Len(parts)
    BY <1>2, <2>1 DEF Here
  <2>2. CASE AllReachedLimit(results)
    <3>1. PICK r \in Seq(Texts) : all = here \o r
      BY <1>4
    <3> HIDE DEF here, all
    <3>2. Behind \in Seq(Texts) /\ here \in Seq(Texts) /\ r \in Seq(Texts)
      BY <1>2, <1>4, <3>1
    <3>3. Behind \o (here \o r) = (Behind \o here) \o r /\ Behind \o here \in Seq(Texts)
      BY <3>2, Associative, SMTT(30)
    <3> DEFINE lines == Behind \o here
    <3>4. lines \in Seq(Texts) /\ results \in Founds /\ Keeps(results, lines)
      BY <1>2, <3>3
    <3> HIDE DEF lines
    <3>5. Keeps(results, lines \o r)
      BY <2>2, <3>1, <3>4, KeepsAll
    <3> QED BY <3>1, <3>3, <3>5 DEF lines
  <2> QED BY <1>1, <2>1, <2>2
<1> HIDE DEF all, here
<1> QED BY <1>1, <1>2, <1>3, <1>5, Past

\* A window is scanned
LEMMA PastScanned ==
  ASSUME Inv, ReaderInv, LinesInv, ScanText, outcome = "none" PROVE LinesInv'
<1> DEFINE more == Reverse(Lines(rd.text))
<1>1. /\ at = "scan" /\ mode = "real_time" /\ k <= Len(files) /\ results' = ScanLines(results, more)
      /\ NextFile /\ Input /\ UNCHANGED <<failed, unread, outcome>>
  BY DEF ScanText, LinesInv, Inv, AtFile
<1>2. rd.text = Window(File) /\ rd.text \in Texts /\ results \in Founds /\ Behind \in Seq(Texts)
      /\ Keeps(results, Behind) /\ k \in Nat
  BY <1>1, ReadersAre, BehindType DEF ReaderInv, WindowExact, LinesInv
<1>3. k \notin failed
  BY <1>1, <1>2 DEF Inv, Counted
<1>4. FileLines(mode, File, failed', unread', k) = more
  BY <1>1, <1>2, <1>3 DEF FileLines
<1>5. more \in Seq(Texts)
  BY <1>2, ReversedType
<1> HIDE DEF more
<1>6. results' \in Founds /\ Keeps(results', Behind \o more)
  BY <1>1, <1>2, <1>5, ScanType, KeepsLines
<1> QED BY <1>1, <1>2, <1>4, <1>6, Past

\* The parts of the file at hand
LEMMA PartTyped ==
  ASSUME Inv, at \in {"parts", "blocks"}
  PROVE  /\ k \in 1 .. Len(files) /\ k \in Nat /\ File.parts \in Seq(Texts)
         /\ Len(File.parts) \in Nat
         /\ \A i \in 1 .. Len(File.parts) :
              /\ Here(i - 1) \in Seq(Texts) /\ Here(i) \in Seq(Texts)
              /\ PartLines(File.parts, unread, k, i) \in Seq(Texts)
              /\ Here(i) = Here(i - 1) \o PartLines(File.parts, unread, k, i)
<1> DEFINE parts == File.parts
<1>1. k \in 1 .. Len(files) /\ k \in Nat /\ parts \in Seq(Texts) /\ Len(parts) \in Nat
  BY FileFacts DEF Inv, AtFile
<1>2. ASSUME NEW i \in 1 .. Len(parts)
      PROVE  /\ Here(i - 1) \in Seq(Texts) /\ Here(i) \in Seq(Texts)
             /\ PartLines(parts, unread, k, i) \in Seq(Texts)
             /\ Here(i) = Here(i - 1) \o PartLines(parts, unread, k, i)
  <2>1. i \in 0 .. Len(parts) /\ i - 1 \in 0 .. Len(parts)
    BY <1>1
  <2> HIDE DEF parts
  <2>2. PICK d \in 0 .. Len(parts) : d = i - 1
    BY <2>1
  <2>3. Parted(parts, unread, k, d) \in Seq(Texts) /\ Parted(parts, unread, k, i) \in Seq(Texts)
    BY <1>1, <2>1, <2>2, PartedType
  <2>4. PartLines(parts, unread, k, i) \in Seq(Texts)
    BY <1>1, <2>1, PartedType
  <2>5. Parted(parts, unread, k, i)
          = Parted(parts, unread, k, i - 1) \o PartLines(parts, unread, k, i)
    BY <1>1, PartedMore
  <2> QED BY <2>2, <2>3, <2>4, <2>5 DEF Here, parts
<1> QED BY <1>1, <1>2

\* A part is there to be read, or it is not
LEMMA Chooses ==
  ASSUME Inv, ReaderInv, LinesInv, NextPart, outcome = "none" PROVE LinesInv'
<1> DEFINE parts == File.parts
           i == rd.i + 1
           part == parts[i]
<1>1. /\ at = "parts" /\ mode = "local" /\ rd.i < Len(parts)
      /\ UNCHANGED <<mode, files, k, results, failed, outcome>>
      /\ results \in Founds /\ unread \subseteq Nat \X Nat /\ Keeps(results, Behind \o Here(rd.i))
      /\ rd.i \in 0 .. Len(parts)
      /\ \A p \in unread : p[1] < k \/ (p[1] = k /\ p[2] <= rd.i)
  BY DEF NextPart, Input, LinesInv
<1>2. /\ k \in 1 .. Len(files) /\ parts \in Seq(Texts) /\ Len(parts) \in Nat /\ k \in Nat
      /\ i \in 1 .. Len(parts) /\ i - 1 = rd.i /\ i \in Nat /\ rd.i \in Nat
  <2>1. k \in 1 .. Len(files) /\ parts \in Seq(Texts) /\ Len(parts) \in Nat /\ k \in Nat
    BY <1>1, PartTyped
  <2> HIDE DEF parts
  <2> QED BY <1>1, <2>1
<1>3. /\ Here(rd.i) \in Seq(Texts) /\ PartLines(parts, unread, k, i) \in Seq(Texts)
      /\ part \in Texts
      /\ Behind \in Seq(Texts)
  <2>1. /\ Here(i - 1) \in Seq(Texts) /\ PartLines(parts, unread, k, i) \in Seq(Texts)
    <3> HIDE DEF i
    <3> QED BY <1>1, <1>2, PartTyped
  <2> QED BY <1>2, <2>1, BehindType
<1>4. <<k, i>> \notin unread
  BY <1>1, <1>2
<1>5. CASE /\ rd' = [NoReader EXCEPT !.i = i, !.rest = part] /\ at' = "blocks" /\ UNCHANGED unread
  <2> DEFINE lines == Reverse(Lines(part))
  <2>1. rd'.i = i /\ rd'.rest = part /\ rd'.buffer = <<>>
    BY <1>5 DEF NoReader
  <2>2. lines \in Seq(Texts) /\ part \in Seq(Chars) /\ <<>> \in Seq(Texts)
    BY <1>3, ReversedType DEF Texts
  <2>3. part \o <<>> = part
    <3> HIDE DEF part
    <3> QED BY <2>2, Associative
  <2>4. <<>> \o lines = lines /\ Here(rd.i) \o <<>> = Here(rd.i)
    <3> HIDE DEF lines
    <3> QED BY <1>3, <2>2, Associative
  <2>5. Behind' = Behind /\ (Here(rd.i - 1))' = Here(rd.i) /\ File' = File
    BY <1>1, <1>2, <1>5, <2>1 DEF Behind, Here, File
  <2>6. Blocks'
    <3>1. Reverse(Lines(part)) = <<>> \o Reverse(Lines(part \o <<>>))
      BY <2>3, <2>4
    <3>2. Keeps(results, Behind \o (Here(rd.i) \o <<>>))
      BY <1>1, <2>4
    <3>3. (File.parts[rd.i])' = part /\ (rd.rest)' = part /\ (rd.buffer)' = <<>>
          /\ results' = results
      BY <1>1, <2>1, <2>5
    <3> HIDE DEF part
    <3>4. \E done \in Seq(Texts) :
            /\ Reverse(Lines(part)) = done \o Reverse(Lines(part \o <<>>))
            /\ Keeps(results, Behind \o (Here(rd.i) \o done))
      BY <2>2, <3>1, <3>2
    <3> QED BY <2>5, <3>3, <3>4 DEF Blocks
  <2>7. Plain(rd.buffer)'
    BY <2>1 DEF Plain
  <2>8. \A p \in unread' : p[1] < k' \/ (p[1] = k' /\ p[2] <= rd'.i)
    BY <1>1, <1>2, <1>5, <2>1
  <2>9. <<k', rd'.i>> \notin unread' /\ rd'.i \in 1 .. Len(File'.parts)
    BY <1>1, <1>2, <1>4, <1>5, <2>1, <2>5
  <2> QED BY <1>1, <1>5, <2>6, <2>7, <2>8, <2>9 DEF LinesInv, Inv
<1>6. CASE rd' = [rd EXCEPT !.i = i] /\ unread' = unread \cup {<<k, i>>} /\ UNCHANGED at
  <2>1. rd'.i = i
    BY <1>6, <1>2, ReadersAre DEF ReaderInv, Readers
  <2>2. PICK n \in Nat : n = k
    BY <1>2
  <2>3. Parted(parts, unread', n, i - 1) = Parted(parts, unread, n, i - 1)
    <3> HIDE DEF parts, i
    <3>1. PICK d \in 0 .. Len(parts) : d = i - 1
      BY <1>2
    <3>2. \A j \in 1 .. d : <<n, j>> \in unread' <=> <<n, j>> \in unread
      BY <1>2, <1>6, <2>2, <3>1
    <3> QED BY <1>2, <3>1, <3>2, PartedSame
  <2>4. Parted(parts, unread', n, i)
          = Parted(parts, unread', n, i - 1) \o PartLines(parts, unread', n, i)
    <3> HIDE DEF parts, i
    <3> QED BY <1>2, PartedMore
  <2>5. PartLines(parts, unread', n, i) = <<>>
    BY <1>6, <2>2 DEF PartLines
  <2>6. Parted(parts, unread', k, i) = Here(rd.i)
    <3>1. Here(rd.i) \o <<>> = Here(rd.i)
      BY <1>3, Associative
    <3> QED BY <1>2, <2>2, <2>3, <2>4, <2>5, <3>1 DEF Here
  <2>7. Behind' = Behind
    <3>1. /\ files \in Inputs /\ n \in 1 .. Len(files) + 1 /\ Len(files) \in Nat
          /\ \A j \in 1 .. n - 1 : j \in failed' <=> j \in failed
          /\ \A j \in 1 .. n - 1 : \A e : <<j, e>> \in unread' <=> <<j, e>> \in unread
      BY <1>1, <1>2, <1>6, <2>2, BehindType
    <3>2. Before(mode, files, failed', unread', n) = Before(mode, files, failed, unread, n)
      BY <3>1, BeforeSame
    <3> QED BY <1>1, <2>2, <3>2 DEF Behind
  <2>8. File' = File
    BY <1>1 DEF File
  <2>9. (Here(rd.i))' = Here(rd.i)
    BY <1>1, <2>1, <2>6, <2>8 DEF Here
  <2>10. \A p \in unread' : p \in Nat \X Nat /\ (p[1] < k' \/ (p[1] = k' /\ p[2] <= rd'.i))
    <3>1. \A p \in unread : p[1] \in Nat /\ p[2] \in Nat /\ (p[1] < k \/ (p[1] = k /\ p[2] <= rd.i))
      BY <1>1
    <3>2. \A p \in unread : p[1] < k \/ (p[1] = k /\ p[2] <= i)
      BY <1>2, <3>1
    <3> QED BY <1>1, <1>2, <1>6, <2>1, <3>2
  <2>11. Keeps(results, Behind \o Here(rd.i))'
    BY <1>1, <2>7, <2>9
  <2>12. rd'.i \in 0 .. Len(File'.parts)
    BY <1>2, <2>1, <2>8
  <2> QED BY <1>1, <1>6, <2>10, <2>11, <2>12 DEF LinesInv, Inv
<1> QED BY <1>5, <1>6 DEF NextPart

\* What a block takes from the lines that are left, and what it leaves
LEMMA BlockLines ==
  ASSUME NEW buffer \in Texts, NEW before \in Texts, NEW chunk \in Texts
  PROVE  Reverse(Lines((before \o chunk) \o buffer))
           = Reverse(Tail(Lines(chunk \o buffer)))
               \o Reverse(Lines(before \o Head(Lines(chunk \o buffer))))
<1> DEFINE t == chunk \o buffer
           lines == Lines(t)
           h == Head(lines)
           d == Tail(lines)
           l == Lines(before \o h)
<1>0. before \in Seq(Chars) /\ chunk \in Seq(Chars) /\ buffer \in Seq(Chars)
  BY DEF Texts
<1>1. t \in Texts /\ h \in Texts /\ d \in Seq(Texts)
  <2>1. t \in Texts
    BY <1>0, Associative DEF Texts
  <2> HIDE DEF t
  <2> QED BY <2>1, HeadPlain
<1>2. (before \o chunk) \o buffer = before \o t
  BY <1>0, Associative
<1>3. Lines(before \o t) = l \o d
  <2> HIDE DEF t
  <2> QED BY <1>1, LinesConcat
<1>4. l \in Seq(Texts)
  <2> HIDE DEF h
  <2>1. before \in Seq(Chars) /\ h \in Seq(Chars)
    BY <1>1 DEF Texts
  <2>2. before \o h \in Texts
    BY <2>1, Associative DEF Texts
  <2> QED BY <2>2, LinesType DEF Rows
<1>5. Reverse(l \o d) = Reverse(d) \o Reverse(l)
  <2> HIDE DEF l, d
  <2> QED BY <1>1, <1>4, ReverseConcat
<1> QED BY <1>2, <1>3, <1>5

\* The last line of a part that is read from its end
LEMMA ReversePlain ==
  ASSUME NEW text \in Texts, Plain(text) PROVE Reverse(Lines(<<>> \o text)) = <<text>>
<1>1. <<>> \o text = text
  <2>1. text \in Seq(Chars)
    BY DEF Texts
  <2> QED BY <2>1, Associative
<1>2. Lines(text) = <<text>>
  BY LinesPlain
<1>3. Reverse(<<text>>) = <<text>>
  <2> DEFINE s == <<text>>
  <2>1. s \in Seq(Texts) /\ Len(s) = 1 /\ s[1] = text
    OBVIOUS
  <2> HIDE DEF s
  <2>2. Reverse(s) \in Seq(Texts) /\ Len(Reverse(s)) = Len(s)
        /\ \A i \in 1 .. Len(s) : Reverse(s)[i] = s[Len(s) - i + 1]
    BY <2>1, ReverseType
  <2>3. \A i \in 1 .. Len(s) : Reverse(s)[i] = s[i]
    BY <2>1, <2>2
  <2> DEFINE t == Reverse(s)
  <2>4. t = s
    <3>1. t \in Seq(Texts) /\ Len(t) = Len(s) /\ \A i \in 1 .. Len(s) : t[i] = s[i]
      BY <2>2, <2>3
    <3> HIDE DEF t
    <3> QED BY <2>1, <3>1, SeqEqual
  <2> QED BY <2>4 DEF s
<1> QED BY <1>1, <1>2, <1>3

\* A block is read: its whole lines are scanned, the rest waits in the buffer
LEMMA ReadsBlock ==
  ASSUME Inv, ReaderInv, LinesInv, ReadBlock, outcome = "none" PROVE LinesInv'
<1> DEFINE chunk == LastOf(rd.rest, Block)
           before == SubSeq(rd.rest, 1, Len(rd.rest) - Len(chunk))
           lines == Lines(chunk \o rd.buffer)
           more == Reverse(Tail(lines))
           first == Head(lines)
           left == Reverse(Lines(before \o first))
           part == File.parts[rd.i]
           here == Here(rd.i - 1)
<1>1. /\ at = "blocks" /\ at' = "blocks" /\ rd' = [rd EXCEPT !.rest = before, !.buffer = first]
      /\ results' = ScanLines(results, more)
      /\ UNCHANGED <<mode, files, k, failed, unread, outcome>>
  BY DEF ReadBlock, Input
<1>2. /\ rd \in Readers /\ rd.rest \in Texts /\ rd.buffer \in Texts
  BY ReadersAre DEF ReaderInv
<1>3. /\ rd.i \in 1 .. Len(File.parts) /\ Blocks /\ results \in Founds /\ mode = "local"
      /\ <<k, rd.i>> \notin unread
      /\ \A p \in unread : p[1] < k \/ (p[1] = k /\ p[2] <= rd.i)
      /\ unread \subseteq Nat \X Nat
  BY <1>1 DEF LinesInv
<1>4. here \in Seq(Texts) /\ Behind \in Seq(Texts)
  BY <1>1, <1>3, PartTyped, BehindType
<1>5. /\ chunk \in Texts /\ chunk \o rd.buffer \in Texts /\ before \in Texts
      /\ rd.rest = before \o chunk
  BY <1>2, BlockFacts
<1>6. first \in Texts /\ Tail(lines) \in Seq(Texts) /\ Plain(first)
  <2> DEFINE t == chunk \o rd.buffer
  <2>1. t \in Texts
    BY <1>5
  <2> HIDE DEF t
  <2>2. Head(Lines(t)) \in Texts /\ Tail(Lines(t)) \in Seq(Texts) /\ Plain(Head(Lines(t)))
    BY <2>1, HeadPlain
  <2> QED BY <2>2 DEF t
<1>7. more \in Seq(Texts)
  <2> HIDE DEF lines
  <2> QED BY <1>6, ReverseType
<1>8. Reverse(Lines(rd.rest \o rd.buffer)) = more \o left
  <2>1. rd.rest \in Texts /\ rd.buffer \in Texts /\ before \in Texts /\ chunk \in Texts
        /\ rd.rest = before \o chunk
    BY <1>2, <1>5
  <2> HIDE DEF chunk, before
  <2>2. \A b, c, o \in Texts :
          Reverse(Lines((o \o c) \o b))
            = Reverse(Tail(Lines(c \o b))) \o Reverse(Lines(o \o Head(Lines(c \o b))))
    BY BlockLines
  <2>3. Reverse(Lines((before \o chunk) \o rd.buffer))
          = Reverse(Tail(Lines(chunk \o rd.buffer)))
              \o Reverse(Lines(before \o Head(Lines(chunk \o rd.buffer))))
    BY <2>1, <2>2
  <2> QED BY <2>1, <2>3
<1>9. left \in Seq(Texts)
  <2> HIDE DEF before, first
  <2>1. before \in Seq(Chars) /\ first \in Seq(Chars)
    BY <1>5, <1>6 DEF Texts
  <2>2. before \o first \in Texts
    BY <2>1, Associative DEF Texts
  <2> QED BY <2>2, ReversedType
<1>10. PICK done \in Seq(Texts) :
         /\ Reverse(Lines(part)) = done \o Reverse(Lines(rd.rest \o rd.buffer))
         /\ Keeps(results, Behind \o (here \o done))
  BY <1>3 DEF Blocks
<1> DEFINE did == done \o more
           kept == Behind \o (here \o done)
<1> HIDE DEF more, left, before, first, here, part
<1>11. did \in Seq(Texts) /\ Reverse(Lines(part)) = did \o left
  BY <1>7, <1>8, <1>9, <1>10, Associative, SMTT(30)
<1>12. kept \in Seq(Texts) /\ kept \o more = Behind \o (here \o did)
  <2>1. here \o done \in Seq(Texts) /\ (here \o done) \o more = here \o did
    BY <1>4, <1>7, <1>10, Associative
  <2> DEFINE hd == here \o done
  <2>2. hd \in Seq(Texts)
    BY <2>1
  <2> HIDE DEF hd, did
  <2>3. Behind \o hd \in Seq(Texts) /\ (Behind \o hd) \o more = Behind \o (hd \o more)
    BY <1>4, <1>7, <2>2, Associative, SMTT(30)
  <2> QED BY <2>1, <2>3 DEF hd
<1>13. results' \in Founds /\ Keeps(results', Behind \o (here \o did))
  <2>1. Keeps(results, kept)
    BY <1>10
  <2> HIDE DEF kept, did
  <2>2. results' \in Founds /\ Keeps(results', kept \o more)
    BY <1>1, <1>3, <1>7, <1>12, <2>1, ScanType, KeepsLines
  <2> QED BY <1>12, <2>2
<1> HIDE DEF did, kept
<1>14. rd'.rest = before /\ rd'.buffer = first /\ rd'.i = rd.i
  BY <1>1, <1>2 DEF Readers
<1>15. Behind' = Behind /\ (Here(rd.i - 1))' = here /\ File' = File
  BY <1>1, <1>14 DEF Behind, Here, File, here
<1>16. Blocks'
  <2>1. (File.parts[rd.i])' = part
    BY <1>14, <1>15 DEF part
  <2>2. Reverse(Lines(part)) = did \o Reverse(Lines(before \o first))
    BY <1>11 DEF left
  <2> QED BY <1>11, <1>13, <1>14, <1>15, <2>1, <2>2 DEF Blocks
<1>17. Plain(rd.buffer)'
  BY <1>6, <1>14 DEF Plain
<1> QED BY <1>1, <1>3, <1>13, <1>14, <1>15, <1>16, <1>17 DEF LinesInv, Inv

\* The first line of a part is scanned, and with it the whole part is
LEMMA ReadsFirst ==
  ASSUME Inv, ReaderInv, LinesInv, FirstLine, outcome = "none" PROVE LinesInv'
<1> DEFINE part == File.parts[rd.i]
           here == Here(rd.i - 1)
           lines == Reverse(Lines(part))
           last == <<rd.buffer>>
<1>1. /\ at = "blocks" /\ at' = "parts" /\ rd.rest = <<>> /\ results' = ScanLines(results, last)
      /\ UNCHANGED <<rd, mode, files, k, failed, unread, outcome>>
  BY DEF FirstLine, Input
<1>2. /\ rd.buffer \in Texts /\ Plain(rd.buffer) /\ results \in Founds /\ mode = "local"
      /\ rd.i \in 1 .. Len(File.parts) /\ Blocks /\ <<k, rd.i>> \notin unread
      /\ unread \subseteq Nat \X Nat /\ \A p \in unread : p[1] < k \/ (p[1] = k /\ p[2] <= rd.i)
  BY <1>1, ReadersAre DEF ReaderInv, LinesInv
<1>3. /\ here \in Seq(Texts) /\ Behind \in Seq(Texts) /\ Here(rd.i) = here \o lines
      /\ lines \in Seq(Texts)
  <2>1. /\ here \in Seq(Texts) /\ PartLines(File.parts, unread, k, rd.i) \in Seq(Texts)
        /\ Here(rd.i) = here \o PartLines(File.parts, unread, k, rd.i)
    BY <1>1, <1>2, PartTyped
  <2>2. PartLines(File.parts, unread, k, rd.i) = lines
    BY <1>2 DEF PartLines
  <2> QED BY <2>1, <2>2, BehindType
<1>4. last \in Seq(Texts) /\ Reverse(Lines(rd.rest \o rd.buffer)) = last
  BY <1>1, <1>2, ReversePlain
<1>5. PICK done \in Seq(Texts) : lines = done \o last /\ Keeps(results, Behind \o (here \o done))
  BY <1>2, <1>4 DEF Blocks
<1> DEFINE kept == Behind \o (here \o done)
<1> HIDE DEF here, last, lines
<1>6. kept \in Seq(Texts) /\ kept \o last = Behind \o (here \o lines)
  <2> DEFINE hd == here \o done
  <2>1. hd \in Seq(Texts) /\ hd \o last = here \o lines
    BY <1>3, <1>4, <1>5, Associative, SMTT(30)
  <2> HIDE DEF hd
  <2>2. Behind \in Seq(Texts) /\ hd \in Seq(Texts) /\ last \in Seq(Texts)
    BY <1>3, <1>4, <2>1
  <2>3. Behind \o hd \in Seq(Texts) /\ (Behind \o hd) \o last = Behind \o (hd \o last)
    BY <2>2, Associative
  <2> QED BY <2>1, <2>3 DEF hd
<1>7. results' \in Founds /\ Keeps(results', Behind \o Here(rd.i))
  <2>1. Keeps(results, kept)
    BY <1>5
  <2> HIDE DEF kept
  <2>2. results' \in Founds /\ Keeps(results', kept \o last)
    BY <1>1, <1>2, <1>4, <1>6, <2>1, ScanType, KeepsLines
  <2> QED BY <1>3, <1>6, <2>2
<1>8. Behind' = Behind /\ (Here(rd.i))' = Here(rd.i) /\ File' = File
  BY <1>1 DEF Behind, Here, File
<1>9. rd'.i \in 0 .. Len(File'.parts)
  BY <1>1, <1>2, <1>8
<1> QED BY <1>1, <1>2, <1>7, <1>8, <1>9 DEF LinesInv, Inv

\* A local file is opened, or refused
LEMMA OpensLocal ==
  ASSUME Inv, LinesInv, OpenLocal, outcome = "none" PROVE LinesInv'
<1>1. /\ at = "next" /\ mode = "local" /\ k <= Len(files)
      /\ UNCHANGED <<mode, files, results, failed, outcome>>
  BY DEF OpenLocal, Local, Input
<1>2. CASE NextFile /\ unread' = unread \cup Parts(DOMAIN File.parts)
  <2>1. Input /\ failed' = IF mode = "real_time" THEN failed \cup {k} ELSE failed
    BY <1>1 DEF Input
  <2> QED BY <1>1, <1>2, <2>1, PastUnread
<1>3. CASE at' = "parts" /\ UNCHANGED <<k, rd, unread>>
  <2>1. /\ rd.i = 0 /\ Keeps(results, Behind) /\ results \in Founds /\ unread \subseteq Nat \X Nat
        /\ \A p \in unread : p[1] < k
    BY <1>1 DEF LinesInv
  <2>2. Here(0) = <<>> /\ Behind \o <<>> = Behind
    BY PartedNone, BehindType, Associative DEF Here
  <2>3. Behind' = Behind /\ (Here(rd.i))' = Here(0) /\ File' = File
    BY <1>1, <1>3, <2>1 DEF Behind, Here, File
  <2>4. Keeps(results, Behind \o Here(rd.i))'
    BY <1>1, <2>1, <2>2, <2>3
  <2>5. Len(File.parts) \in Nat
    BY <1>1, FileFacts
  <2>6. rd'.i \in 0 .. Len(File'.parts)
    BY <1>3, <2>1, <2>3, <2>5
  <2> QED BY <1>1, <1>3, <2>1, <2>4, <2>6 DEF LinesInv
<1> QED BY <1>2, <1>3 DEF OpenLocal

\* Every step preserves the invariant of the lines
LEMMA StepLines ==
  ASSUME Inv, ReaderInv, LinesInv, [Next]_vars PROVE LinesInv'
<1>0. at # "end" => outcome = "none"
  BY DEF Inv
<1>1. CASE NotThere
  <2>1. /\ at = "next" /\ mode = "local" /\ k <= Len(files) /\ NextFile /\ Input
        /\ UNCHANGED <<outcome, results, failed>> /\ unread' = unread \cup Parts(DOMAIN File.parts)
    BY <1>1 DEF NotThere, Local
  <2>2. outcome = "none" /\ failed' = IF mode = "real_time" THEN failed \cup {k} ELSE failed
    BY <1>0, <2>1
  <2> QED BY <2>1, <2>2, PastUnread
<1>2. CASE RemoteFails
  <2>1. /\ at \in {"next", "gzip", "zip", "member"} /\ NextFile /\ Input
        /\ UNCHANGED <<outcome, results>> /\ unread' = unread \cup Parts(DOMAIN File.parts)
        /\ failed' = failed \cup {k} /\ k <= Len(files) /\ mode = "real_time"
    BY <1>2 DEF RemoteFails, Remote, LinesInv, Inv, AtFile
  <2> QED BY <1>0, <2>1, PastUnread
<1>3. CASE OpenLocal
  <2>1. outcome = "none"
    BY <1>0, <1>3 DEF OpenLocal, Local
  <2> QED BY <1>3, <2>1, OpensLocal
<1>4. CASE NextPart
  BY <1>0, <1>4, Chooses DEF NextPart
<1>5. CASE LocalFileEnds
  BY <1>0, <1>5, PastLocal DEF LocalFileEnds
<1>6. CASE ReadBlock
  BY <1>0, <1>6, ReadsBlock DEF ReadBlock
<1>7. CASE FirstLine
  BY <1>0, <1>7, ReadsFirst DEF FirstLine
<1>8. CASE ScanText
  BY <1>0, <1>8, PastScanned DEF ScanText
<1>9. CASE \/ OpenRemote \/ GzipChunk \/ GzipEnds \/ ZipMember \/ ZipChunk \/ ZipMemberEnds
           \/ ZipEnds
  <2>1. /\ at \in {"next", "gzip", "zip", "member"} /\ at' \in {"gzip", "zip", "member", "scan"}
        /\ mode = "real_time"
        /\ UNCHANGED <<mode, files, k, results, scanned, failed, unread, outcome>>
    BY <1>9 DEF OpenRemote, GzipChunk, GzipEnds, ZipMember, ZipChunk, ZipMemberEnds, ZipEnds,
       HaveText, Reading, Input, Remote, LinesInv
  <2>2. Behind' = Behind
    BY <2>1 DEF Behind
  <2>3. outcome = "none" /\ Keeps(results, Behind) /\ results \in Founds
        /\ unread \subseteq Nat \X Nat
        /\ \A p \in unread : p[1] < k
    BY <1>0, <2>1 DEF LinesInv
  <2> QED BY <2>1, <2>2, <2>3 DEF LinesInv
<1>10. CASE Finish
  <2>1. /\ at = "next" /\ at' = "end" /\ (k > Len(files) \/ AllReachedLimit(results))
        /\ UNCHANGED <<mode, files, k, results, scanned, failed, unread>>
    BY <1>10 DEF Finish, Input
  <2>2. Behind' = Behind
    BY <2>1 DEF Behind
  <2>3. Keeps(results, Behind) /\ results \in Founds /\ unread \subseteq Nat \X Nat
    BY <2>1 DEF LinesInv
  <2>4. (k > Len(files) \/ AllReachedLimit(results))'
    BY <2>1 DEF AllReachedLimit
  <2> QED BY <2>1, <2>2, <2>3, <2>4 DEF LinesInv
<1>11. CASE Abort
  <2>1. at' = "end" /\ outcome' = "error" /\ UNCHANGED <<mode, results, unread>>
    BY <1>11 DEF Abort, Input
  <2>2. results \in Founds /\ unread \subseteq Nat \X Nat
    BY DEF LinesInv
  <2> QED BY <2>1, <2>2 DEF LinesInv
<1>12. CASE Resting \/ UNCHANGED vars
  <2>1. UNCHANGED vars
    BY <1>12 DEF Resting
  <2>2. UNCHANGED <<mode, files, at, k, rd, results, scanned, failed, unread, outcome>>
    BY <2>1 DEF vars
  <2>3. Behind' = Behind /\ File' = File /\ (Here(rd.i))' = Here(rd.i)
        /\ (Here(rd.i - 1))' = Here(rd.i - 1)
    BY <2>2 DEF Behind, File, Here
  <2>4. Blocks' <=> Blocks
    BY <2>2, <2>3 DEF Blocks
  <2> QED BY <2>2, <2>3, <2>4 DEF LinesInv, AllReachedLimit, Plain
<1> QED BY <1>1, <1>2, <1>3, <1>4, <1>5, <1>6, <1>7, <1>8, <1>9, <1>10, <1>11, <1>12
        DEF Next, ScanLocal, ScanRemote

\* Where the scan answers, the matches are the first of all lines
LEMMA LinesKept ==
  ASSUME Inv, LinesInv, outcome = "answered" PROVE Keeps(results, AllLines)
<1>1. /\ results \in Founds /\ Keeps(results, Behind)
      /\ (k > Len(files) \/ AllReachedLimit(results))
  BY DEF LinesInv
<1>2. Behind \in Seq(Texts) /\ Len(files) \in Nat /\ files \in Inputs /\ k \in 1 .. Len(files) + 1
  BY BehindType DEF Inv
<1>3. PICK n \in 1 .. Len(files) + 1 : n = k
  BY <1>2
<1>4. AllLines = Before(mode, files, failed, unread, Len(files) + 1)
  BY <1>2, LinesAre
<1>5. CASE k > Len(files)
  <2>1. k = Len(files) + 1
    BY <1>2, <1>5
  <2> QED BY <1>1, <1>4, <2>1 DEF Behind
<1>6. CASE AllReachedLimit(results)
  <2>1. Begin(Behind, AllLines)
    <3>1. PICK input \in Inputs : input = files
      BY <1>2
    <3>2. n \in 1 .. Len(input) + 1
      BY <1>3, <3>1
    <3>3. Begin(Before(mode, input, failed, unread, n),
                Before(mode, input, failed, unread, Len(input) + 1))
      BY <3>1, <3>2, BeforeRest
    <3> QED BY <1>3, <1>4, <3>1, <3>3 DEF Behind
  <2>2. PICK r \in Seq(Texts) : AllLines = Behind \o r
    BY <2>1 DEF Begin
  <2>3. Keeps(results, Behind \o r)
    BY <1>1, <1>2, <1>6, <2>2, KeepsAll
  <2> QED BY <2>2, <2>3
<1> QED BY <1>1, <1>5, <1>6

\* An answer has the first matches of everything that could be read
LEMMA LinesAnswered == Inv /\ LinesInv => FirstMatches
BY LinesKept DEF FirstMatches, Keeps

\* scan_logs and scan_remote_logs_real_time answer with the first
\* max_matches_per_chat_id lines of each chat id, whole and in order, in all that
\* could be read, whatever blocks and chunks it is read in and wherever they stop.
THEOREM MatchesAreFirst == Spec => []FirstMatches
<1>1. Init => Inv /\ ReaderInv /\ LinesInv
  BY InitInv, InitReader, InitLines
<1>2. Inv /\ ReaderInv /\ LinesInv /\ [Next]_vars => (Inv /\ ReaderInv /\ LinesInv)'
  BY StepInv, StepReader, StepLines
<1> QED BY <1>1, <1>2, LinesAnswered, PTL DEF Spec
=============================================================================
