------------------------------- MODULE ListLemmas -------------------------------
(***************************************************************************)
(* What Filter and FlattenSeq do, for sequences of every length, and what  *)
(* a sum over a finite set is. They are recursive functions, so that the   *)
(* facts about them rest on induction: over the natural numbers, from the  *)
(* well-foundedness of <, and from it over the length of a sequence. The   *)
(* induction principles are stated with the set of the values for which a  *)
(* fact holds.                                                             *)
(***************************************************************************)
EXTENDS Lists, SequenceTheorems, FiniteSetTheorems, WellFoundedInduction, TLAPS

-----------------------------------------------------------------------------
(* Induction *)

\* A set of natural numbers has a least element.
LEMMA LeastNat ==
    ASSUME NEW S, S \subseteq Nat, S # {}
    PROVE  \E n \in S : \A m \in S : n <= m
<1> DEFINE R == OpToRel(<, Nat)
<1>1. \A x, y \in Nat : <<x, y>> \in R <=> x < y
  BY DEF OpToRel
<1>2. IsWellFoundedOn(R, Nat)
  BY NatLessThanWellFounded
<1> HIDE DEF R
<1>3. PICK n \in S : \A m \in S : ~(<<m, n>> \in R)
  BY <1>2, WFMin
<1>4. \A m \in S : ~(m < n)
  BY <1>1, <1>3
<1> QED
  BY <1>4

\* What holds of 0 and with every number of the next one holds of all.
LEMMA NatInductionSet ==
    ASSUME NEW P, 0 \in P, \A n \in Nat : n \in P => n + 1 \in P
    PROVE  Nat \subseteq P
<1> SUFFICES ASSUME Nat \ P # {} PROVE FALSE
  OBVIOUS
<1>1. PICK n \in Nat \ P : \A m \in Nat \ P : n <= m
  BY LeastNat
<1>2. n # 0 /\ n - 1 \in Nat
  BY <1>1
<1>3. n - 1 \in P
  BY <1>1, <1>2
<1>4. n - 1 + 1 = n
  BY <1>1
<1> QED
  BY <1>1, <1>2, <1>3, <1>4

\* What holds of the empty sequence and with every sequence of the one that is
\* longer by an element holds of all.
LEMMA SeqInductionSet ==
    ASSUME NEW X, NEW P, <<>> \in P,
           \A s \in Seq(X), x \in X : s \in P => Append(s, x) \in P
    PROVE  Seq(X) \subseteq P
<1> DEFINE N == {n \in Nat : \A s \in Seq(X) : Len(s) = n => s \in P}
<1>1. 0 \in N
  <2>1. ASSUME NEW s \in Seq(X), Len(s) = 0 PROVE s = <<>>
    BY <2>1, EmptySeq
  <2> QED
    BY <2>1
<1>2. ASSUME NEW n \in Nat, n \in N PROVE n + 1 \in N
  <2> SUFFICES ASSUME NEW s \in Seq(X), Len(s) = n + 1 PROVE s \in P
    OBVIOUS
  <2>1. s # <<>>
    BY EmptySeq
  <2>2. PICK t \in Seq(X), x \in X : s = Append(t, x)
    BY <2>1, SequenceEmptyOrAppend
  <2>3. Len(t) = n
    BY <2>2, AppendProperties
  <2> QED
    BY <1>2, <2>2, <2>3
<1>3. Nat \subseteq N
  <2> HIDE DEF N
  <2> QED
    BY <1>1, <1>2, NatInductionSet
<1> QED
  BY <1>3, LenProperties

-----------------------------------------------------------------------------
(* Recursive functions *)

\* A function on 0 .. n that starts with base and goes on with step.
Runs(f, n, base, step) ==
    f[0] = base /\ \A k \in 0 .. n - 1 : f[k + 1] = step[<<k, f[k]>>]

\* One step of a run of a recursion.
LEMMA RunsStep ==
    ASSUME NEW f, NEW n \in Nat, NEW base, NEW step, Runs(f, n, base, step), NEW k \in 0 .. n - 1
    PROVE  f[k + 1] = step[<<k, f[k]>>]
BY DEF Runs

\* There is one for every n.
LEMMA RunExists ==
    ASSUME NEW Y, NEW base \in Y, NEW step \in [Nat \X Y -> Y], NEW n \in Nat
    PROVE  \E f \in [0 .. n -> Y] : Runs(f, n, base, step)
<1> DEFINE P == {m \in Nat : \E f \in [0 .. m -> Y] : Runs(f, m, base, step)}
<1>1. 0 \in P
  <2>1. [k \in 0 .. 0 |-> base] \in [0 .. 0 -> Y]
    OBVIOUS
  <2>2. Runs([k \in 0 .. 0 |-> base], 0, base, step)
    BY DEF Runs
  <2> QED
    BY <2>1, <2>2
<1>2. ASSUME NEW m \in Nat, m \in P PROVE m + 1 \in P
  <2>1. PICK f \in [0 .. m -> Y] : Runs(f, m, base, step)
    BY <1>2
  <2> DEFINE g == [k \in 0 .. m + 1 |-> IF k <= m THEN f[k] ELSE step[<<m, f[m]>>]]
  <2>2. g \in [0 .. m + 1 -> Y]
    <3>1. f[m] \in Y
      OBVIOUS
    <3>2. step[<<m, f[m]>>] \in Y
      BY <3>1
    <3> QED
      BY <3>2
  <2>3. \A k \in 0 .. m : g[k] = f[k]
    OBVIOUS
  <2>4. g[m + 1] = step[<<m, g[m]>>]
    OBVIOUS
  <2>5. g[0] = base
    BY <2>1, <2>3 DEF Runs
  <2>6. ASSUME NEW k \in 0 .. m + 1 - 1 PROVE g[k + 1] = step[<<k, g[k]>>]
    <3>1. CASE k = m
      BY <2>4, <3>1
    <3>2. CASE k # m
      <4>1. k \in 0 .. m - 1 /\ k \in 0 .. m /\ k + 1 \in 0 .. m
        BY <3>2
      <4>2. f[k + 1] = step[<<k, f[k]>>]
        BY <2>1, <4>1 DEF Runs
      <4> QED
        BY <2>3, <4>1, <4>2
    <3> QED
      BY <3>1, <3>2
  <2> HIDE DEF g
  <2>7. Runs(g, m + 1, base, step)
    BY <2>5, <2>6 DEF Runs
  <2> QED
    BY <2>2, <2>7
<1>3. Nat \subseteq P
  <2> HIDE DEF P
  <2> QED
    BY <1>1, <1>2, NatInductionSet
<1> QED
  BY <1>3

-----------------------------------------------------------------------------
(* Filter *)

\* How Filter comes to its result, as a function of the elements looked at.
FilterStep(s, T, Y) ==
    [p \in Nat \X Y |-> IF p[1] + 1 \in 1 .. Len(s) /\ s[p[1] + 1] \in T
                       THEN Append(p[2], s[p[1] + 1]) ELSE p[2]]

\* The recursive function of Filter exists: it satisfies its equation.
LEMMA FilterRuns ==
    ASSUME NEW X, NEW s \in Seq(X), NEW T
    PROVE  \E kept : /\ Filter(s, T) = kept[Len(s)]
                     /\ kept[0] = <<>>
                     /\ \A i \in 1 .. Len(s) :
                           kept[i] = IF s[i] \in T THEN Append(kept[i - 1], s[i])
                                     ELSE kept[i - 1]
<1> DEFINE n == Len(s)
           step == FilterStep(s, T, Seq(X))
           Eq(h) == [i \in 0 .. n |->
                        IF i = 0 THEN <<>>
                        ELSE IF s[i] \in T THEN Append(h[i - 1], s[i])
                        ELSE h[i - 1]]
<1>1. n \in Nat /\ <<>> \in Seq(X)
  OBVIOUS
<1>2. step \in [Nat \X Seq(X) -> Seq(X)]
  <2> SUFFICES ASSUME NEW p \in Nat \X Seq(X)
               PROVE  (IF p[1] + 1 \in 1 .. Len(s) /\ s[p[1] + 1] \in T
                       THEN Append(p[2], s[p[1] + 1]) ELSE p[2]) \in Seq(X)
    BY DEF FilterStep
  <2>1. p[1] \in Nat /\ p[2] \in Seq(X)
    OBVIOUS
  <2>2. p[1] + 1 \in 1 .. Len(s) => s[p[1] + 1] \in X
    BY <2>1
  <2> QED
    BY <2>1, <2>2
<1>3. PICK f \in [0 .. n -> Seq(X)] : Runs(f, n, <<>>, step)
  <2> HIDE DEF step, n
  <2> QED
    BY <1>1, <1>2, RunExists
<1>4. \A i \in 1 .. n : f[i] = IF s[i] \in T THEN Append(f[i - 1], s[i]) ELSE f[i - 1]
  <2> SUFFICES ASSUME NEW i \in 1 .. n
               PROVE  f[i] = IF s[i] \in T THEN Append(f[i - 1], s[i]) ELSE f[i - 1]
    OBVIOUS
  <2>1. i - 1 \in 0 .. n - 1 /\ i - 1 + 1 = i /\ i - 1 \in Nat
    BY <1>1
  <2>2. f[i - 1] \in Seq(X)
    BY <2>1
  <2>3. f[i] = step[<<i - 1, f[i - 1]>>]
    BY <1>3, <2>1 DEF Runs
  <2> QED
    BY <2>1, <2>2, <2>3 DEF FilterStep
<1>5. f = Eq(f)
  <2>1. f[0] = <<>>
    BY <1>3 DEF Runs
  <2>2. ASSUME NEW i \in 0 .. n PROVE f[i] = Eq(f)[i]
    <3>1. CASE i = 0
      BY <2>1, <3>1
    <3>2. CASE i # 0
      <4>1. i \in 1 .. n
        BY <1>1, <3>2
      <4> QED
        BY <1>4, <3>2, <4>1
    <3> QED
      BY <3>1, <3>2
  <2> QED
    BY <2>2
<1> DEFINE kept == CHOOSE h : h = Eq(h)
<1>6. kept = Eq(kept)
  BY <1>5
<1>7. Filter(s, T) = kept[n]
  BY DEF Filter
<1>8. \A i \in 0 .. n : kept[i] = Eq(kept)[i]
  BY <1>6
<1> HIDE DEF kept
<1>9. /\ kept[0] = <<>>
      /\ \A i \in 1 .. n : kept[i] = IF s[i] \in T THEN Append(kept[i - 1], s[i])
                                      ELSE kept[i - 1]
  BY <1>8
<1> QED
  BY <1>7, <1>9

\* Nothing is kept of nothing.
LEMMA FilterEmpty ==
    ASSUME NEW T
    PROVE  Filter(<<>>, T) = <<>>
<1> DEFINE s == <<>>
           X == {}
<1>0. Len(s) = 0
  OBVIOUS
<1>1. s \in Seq(X)
  OBVIOUS
<1> HIDE DEF s, X
<1>2. PICK kept : Filter(s, T) = kept[Len(s)] /\ kept[0] = <<>>
  BY <1>1, FilterRuns
<1> QED
  BY <1>0, <1>2 DEF s

\* One more element is kept or not.
LEMMA FilterAppend ==
    ASSUME NEW X, NEW s \in Seq(X), NEW x \in X, NEW T
    PROVE  Filter(Append(s, x), T) = IF x \in T THEN Append(Filter(s, T), x)
                                     ELSE Filter(s, T)
<1> DEFINE n == Len(s)
           t == Append(s, x)
<1>1. /\ t \in Seq(X) /\ Len(t) = n + 1 /\ n \in Nat /\ t[n + 1] = x
      /\ \A i \in 1 .. n : t[i] = s[i]
  OBVIOUS
<1> HIDE DEF t
<1>2. PICK f : /\ Filter(s, T) = f[n]
               /\ f[0] = <<>>
               /\ \A i \in 1 .. n : f[i] = IF s[i] \in T THEN Append(f[i - 1], s[i])
                                            ELSE f[i - 1]
  BY FilterRuns
<1>3. PICK g : /\ Filter(t, T) = g[Len(t)]
               /\ g[0] = <<>>
               /\ \A i \in 1 .. Len(t) : g[i] = IF t[i] \in T THEN Append(g[i - 1], t[i])
                                            ELSE g[i - 1]
  BY <1>1, FilterRuns
<1> DEFINE P == {k \in Nat : k <= n => f[k] = g[k]}
<1>4. 0 \in P
  BY <1>2, <1>3
<1>5. ASSUME NEW k \in Nat, k \in P PROVE k + 1 \in P
  <2> SUFFICES ASSUME k + 1 <= n PROVE f[k + 1] = g[k + 1]
    OBVIOUS
  <2>1. k + 1 \in 1 .. n /\ k + 1 \in 1 .. Len(t) /\ k + 1 - 1 = k /\ f[k] = g[k]
    BY <1>1, <1>5
  <2>2. f[k + 1] = IF s[k + 1] \in T THEN Append(f[k], s[k + 1]) ELSE f[k]
    BY <1>2, <2>1
  <2>3. g[k + 1] = IF t[k + 1] \in T THEN Append(g[k], t[k + 1]) ELSE g[k]
    BY <1>3, <2>1
  <2> QED
    BY <1>1, <2>1, <2>2, <2>3
<1>6. Nat \subseteq P
  <2> HIDE DEF P
  <2> QED
    BY <1>4, <1>5, NatInductionSet
<1>7. f[n] = g[n]
  BY <1>1, <1>6
<1>8. n + 1 \in 1 .. Len(t) /\ n + 1 - 1 = n
  BY <1>1
<1>9. g[n + 1] = IF t[n + 1] \in T THEN Append(g[n], t[n + 1]) ELSE g[n]
  BY <1>3, <1>8
<1> QED
  BY <1>1, <1>2, <1>3, <1>7, <1>9 DEF t

\* What is kept of a sequence is a sequence of the same kind.
LEMMA FilterType ==
    ASSUME NEW X, NEW s \in Seq(X), NEW T
    PROVE  Filter(s, T) \in Seq(X)
<1> DEFINE P == {t \in Seq(X) : Filter(t, T) \in Seq(X)}
<1>0. <<>> \in Seq(X)
  OBVIOUS
<1>1. <<>> \in P
  BY <1>0, FilterEmpty
<1>2. ASSUME NEW t \in Seq(X), NEW x \in X, t \in P PROVE Append(t, x) \in P
  <2>1. Filter(Append(t, x), T) = IF x \in T THEN Append(Filter(t, T), x) ELSE Filter(t, T)
    BY FilterAppend
  <2>2. Append(Filter(t, T), x) \in Seq(X) /\ Filter(t, T) \in Seq(X)
    BY <1>2
  <2>3. Append(t, x) \in Seq(X)
    OBVIOUS
  <2> QED
    BY <2>1, <2>2, <2>3
<1>3. Seq(X) \subseteq P
  <2> HIDE DEF P
  <2> QED
    BY <1>1, <1>2, SeqInductionSet
<1> QED
  BY <1>3

\* The elements of a sequence that is longer by one.
LEMMA ToSetAppend ==
    ASSUME NEW X, NEW s \in Seq(X), NEW x \in X
    PROVE  SE!ToSet(Append(s, x)) = SE!ToSet(s) \cup {x}
<1> DEFINE t == Append(s, x)
<1>1. /\ DOMAIN t = 1 .. Len(s) + 1 /\ DOMAIN s = 1 .. Len(s) /\ Len(s) \in Nat
      /\ t[Len(s) + 1] = x /\ \A i \in 1 .. Len(s) : t[i] = s[i]
  OBVIOUS
<1> HIDE DEF t
<1>2. ASSUME NEW y \in SE!ToSet(t) PROVE y \in SE!ToSet(s) \cup {x}
  <2>1. PICK i \in DOMAIN t : y = t[i]
    BY DEF SE!ToSet
  <2>2. i \in 1 .. Len(s) \/ i = Len(s) + 1
    BY <1>1
  <2> QED
    BY <1>1, <2>1, <2>2 DEF SE!ToSet
<1>3. ASSUME NEW y \in SE!ToSet(s) \cup {x} PROVE y \in SE!ToSet(t)
  <2>1. CASE y = x
    <3>1. Len(s) + 1 \in DOMAIN t
      BY <1>1
    <3> QED
      BY <1>1, <2>1, <3>1 DEF SE!ToSet
  <2>2. CASE y \in SE!ToSet(s)
    <3>1. PICK i \in DOMAIN s : y = s[i]
      BY <2>2 DEF SE!ToSet
    <3>2. i \in DOMAIN t /\ y = t[i]
      BY <1>1, <3>1
    <3> QED
      BY <3>2 DEF SE!ToSet
  <2> QED
    BY <2>1, <2>2
<1> QED
  BY <1>2, <1>3 DEF t

\* An empty sequence has no elements.
LEMMA ToSetEmpty == SE!ToSet(<<>>) = {}
BY DEF SE!ToSet

\* Filter keeps the elements that are in the set, and no others.
LEMMA FilterRange ==
    ASSUME NEW X, NEW s \in Seq(X), NEW T
    PROVE  SE!ToSet(Filter(s, T)) = SE!ToSet(s) \cap T
<1> DEFINE P == {t \in Seq(X) : SE!ToSet(Filter(t, T)) = SE!ToSet(t) \cap T}
<1>1. <<>> \in P
  BY FilterEmpty, ToSetEmpty
<1>2. ASSUME NEW t \in Seq(X), NEW x \in X, t \in P PROVE Append(t, x) \in P
  <2>1. SE!ToSet(Append(t, x)) = SE!ToSet(t) \cup {x}
    BY ToSetAppend
  <2>2. Filter(t, T) \in Seq(X)
    BY FilterType
  <2>3. SE!ToSet(Append(Filter(t, T), x)) = SE!ToSet(Filter(t, T)) \cup {x}
    BY <2>2, ToSetAppend
  <2>4. Filter(Append(t, x), T) = IF x \in T THEN Append(Filter(t, T), x) ELSE Filter(t, T)
    BY FilterAppend
  <2>5. SE!ToSet(Filter(t, T)) = SE!ToSet(t) \cap T
    BY <1>2
  <2>6. SE!ToSet(Filter(Append(t, x), T)) = SE!ToSet(Append(t, x)) \cap T
    <3>1. CASE x \in T
      <4>1. SE!ToSet(Filter(Append(t, x), T)) = SE!ToSet(Filter(t, T)) \cup {x}
        BY <2>3, <2>4, <3>1
      <4> QED
        BY <2>1, <2>5, <3>1, <4>1
    <3>2. CASE x \notin T
      <4>1. SE!ToSet(Filter(Append(t, x), T)) = SE!ToSet(Filter(t, T))
        BY <2>4, <3>2
      <4> QED
        BY <2>1, <2>5, <3>2, <4>1
    <3> QED
      BY <3>1, <3>2
  <2> QED
    BY <2>6
<1>3. Seq(X) \subseteq P
  <2> HIDE DEF P
  <2> QED
    BY <1>1, <1>2, SeqInductionSet
<1> QED
  BY <1>3

\* Two conditions that agree on the elements keep the same.
LEMMA FilterAgree ==
    ASSUME NEW X, NEW s \in Seq(X), NEW T, NEW U,
           \A x \in X : x \in T <=> x \in U
    PROVE  Filter(s, T) = Filter(s, U)
<1> DEFINE P == {t \in Seq(X) : Filter(t, T) = Filter(t, U)}
<1>1. <<>> \in P
  BY FilterEmpty
<1>2. ASSUME NEW t \in Seq(X), NEW x \in X, t \in P PROVE Append(t, x) \in P
  <2>1. Filter(Append(t, x), T) = IF x \in T THEN Append(Filter(t, T), x) ELSE Filter(t, T)
    BY FilterAppend
  <2>2. Filter(Append(t, x), U) = IF x \in U THEN Append(Filter(t, U), x) ELSE Filter(t, U)
    BY FilterAppend
  <2>3. Filter(t, T) = Filter(t, U) /\ (x \in T <=> x \in U)
    BY <1>2
  <2>4. Filter(Append(t, x), T) = Filter(Append(t, x), U)
    BY <2>1, <2>2, <2>3
  <2>5. Append(t, x) \in Seq(X)
    OBVIOUS
  <2> QED
    BY <2>4, <2>5
<1>3. Seq(X) \subseteq P
  <2> HIDE DEF P
  <2> QED
    BY <1>1, <1>2, SeqInductionSet
<1> QED
  BY <1>3

\* No two elements have the same key.
Distinct(s, key) == \A i, j \in DOMAIN s : key[s[i]] = key[s[j]] => i = j

\* Keys stay distinct when the key of what is appended is new.
LEMMA DistinctAppend ==
    ASSUME NEW X, NEW s \in Seq(X), NEW x \in X, NEW key
    PROVE  Distinct(Append(s, x), key) <=>
              Distinct(s, key) /\ \A y \in SE!ToSet(s) : key[y] # key[x]
<1> DEFINE t == Append(s, x)
<1>1. /\ DOMAIN t = 1 .. Len(s) + 1 /\ DOMAIN s = 1 .. Len(s) /\ Len(s) \in Nat
      /\ t[Len(s) + 1] = x /\ \A i \in 1 .. Len(s) : t[i] = s[i]
  OBVIOUS
<1> HIDE DEF t
<1>2. ASSUME Distinct(t, key)
      PROVE  Distinct(s, key) /\ \A y \in SE!ToSet(s) : key[y] # key[x]
  <2>1. \A i, j \in 1 .. Len(s) + 1 : key[t[i]] = key[t[j]] => i = j
    BY <1>1, <1>2 DEF Distinct
  <2>2. \A i \in 1 .. Len(s) : i \in 1 .. Len(s) + 1 /\ i # Len(s) + 1
    BY <1>1
  <2>3. Distinct(s, key)
    BY <1>1, <2>1, <2>2 DEF Distinct
  <2>4. \A i \in 1 .. Len(s) : key[s[i]] # key[x]
    <3>1. Len(s) + 1 \in 1 .. Len(s) + 1
      BY <1>1
    <3> QED
      BY <1>1, <2>1, <2>2, <3>1
  <2> QED
    BY <1>1, <2>3, <2>4 DEF SE!ToSet
<1>3. ASSUME Distinct(s, key), \A y \in SE!ToSet(s) : key[y] # key[x] PROVE Distinct(t, key)
  <2> SUFFICES ASSUME NEW i \in 1 .. Len(s) + 1, NEW j \in 1 .. Len(s) + 1, key[t[i]] = key[t[j]]
               PROVE  i = j
    BY <1>1 DEF Distinct
  <2>1. \A k \in 1 .. Len(s) : key[s[k]] # key[x]
    BY <1>1, <1>3 DEF SE!ToSet
  <2>2. \A k \in 1 .. Len(s) + 1 : k \in 1 .. Len(s) \/ k = Len(s) + 1
    BY <1>1
  <2> QED
    BY <1>1, <1>3, <2>1, <2>2 DEF Distinct
<1> QED
  BY <1>2, <1>3 DEF t

\* Filter repeats nothing that the sequence has only once.
LEMMA FilterDistinct ==
    ASSUME NEW X, NEW s \in Seq(X), NEW T, NEW key, Distinct(s, key)
    PROVE  Distinct(Filter(s, T), key)
<1> DEFINE P == {t \in Seq(X) : Distinct(t, key) => Distinct(Filter(t, T), key)}
<1>1. <<>> \in P
  BY FilterEmpty
<1>2. ASSUME NEW t \in Seq(X), NEW x \in X, t \in P PROVE Append(t, x) \in P
  <2>1. Append(t, x) \in Seq(X)
    OBVIOUS
  <2> SUFFICES ASSUME Distinct(Append(t, x), key) PROVE Distinct(Filter(Append(t, x), T), key)
    BY <2>1
  <2>2. Distinct(t, key) /\ \A y \in SE!ToSet(t) : key[y] # key[x]
    BY DistinctAppend
  <2>3. Filter(t, T) \in Seq(X) /\ Distinct(Filter(t, T), key)
    BY <1>2, <2>2, FilterType
  <2>4. \A y \in SE!ToSet(Filter(t, T)) : key[y] # key[x]
    BY <2>2, FilterRange
  <2>5. Distinct(Append(Filter(t, T), x), key)
    BY <2>3, <2>4, DistinctAppend
  <2>6. Filter(Append(t, x), T) = IF x \in T THEN Append(Filter(t, T), x) ELSE Filter(t, T)
    BY FilterAppend
  <2> QED
    BY <2>3, <2>5, <2>6
<1>3. Seq(X) \subseteq P
  <2> HIDE DEF P
  <2> QED
    BY <1>1, <1>2, SeqInductionSet
<1> QED
  BY <1>3

-----------------------------------------------------------------------------
(* Concatenation *)

\* The places of two sequences in the one made of both.
LEMMA ConcatFacts ==
    ASSUME NEW X, NEW s \in Seq(X), NEW t \in Seq(X)
    PROVE  /\ s \o t \in Seq(X)
           /\ Len(s) \in Nat /\ Len(t) \in Nat
           /\ DOMAIN s = 1 .. Len(s) /\ DOMAIN t = 1 .. Len(t)
           /\ DOMAIN (s \o t) = 1 .. Len(s) + Len(t)
           /\ \A i \in 1 .. Len(s) : (s \o t)[i] = s[i]
           /\ \A i \in 1 .. Len(t) : (s \o t)[Len(s) + i] = t[i]
<1>1. /\ s \o t \in Seq(X) /\ Len(s \o t) = Len(s) + Len(t)
      /\ Len(s) \in Nat /\ Len(t) \in Nat
      /\ DOMAIN s = 1 .. Len(s) /\ DOMAIN t = 1 .. Len(t)
  OBVIOUS
<1>2. DOMAIN (s \o t) = 1 .. Len(s) + Len(t)
  BY <1>1
<1>3. \A i \in 1 .. Len(s) : (s \o t)[i] = s[i]
  OBVIOUS
<1>4. \A i \in 1 .. Len(t) : (s \o t)[Len(s) + i] = t[i]
  OBVIOUS
<1> QED
  BY <1>1, <1>2, <1>3, <1>4

\* It has the elements of both.
LEMMA ConcatRange ==
    ASSUME NEW X, NEW s \in Seq(X), NEW t \in Seq(X)
    PROVE  SE!ToSet(s \o t) = SE!ToSet(s) \cup SE!ToSet(t)
<1> DEFINE u == s \o t
           n == Len(s)
<1>1. /\ n \in Nat /\ Len(t) \in Nat
      /\ DOMAIN s = 1 .. n /\ DOMAIN t = 1 .. Len(t)
      /\ DOMAIN u = 1 .. n + Len(t)
      /\ \A i \in 1 .. n : u[i] = s[i]
      /\ \A i \in 1 .. Len(t) : u[n + i] = t[i]
  BY ConcatFacts
<1> HIDE DEF u, n
<1>2. ASSUME NEW x \in SE!ToSet(u) PROVE x \in SE!ToSet(s) \cup SE!ToSet(t)
  <2>1. PICK i \in 1 .. n + Len(t) : x = u[i]
    BY <1>1 DEF SE!ToSet
  <2>2. CASE i <= n
    <3>1. i \in 1 .. n
      BY <1>1, <2>2
    <3> QED
      BY <1>1, <2>1, <3>1 DEF SE!ToSet
  <2>3. CASE i > n
    <3>1. i - n \in 1 .. Len(t) /\ n + (i - n) = i
      BY <1>1, <2>3
    <3> QED
      BY <1>1, <2>1, <3>1 DEF SE!ToSet
  <2> QED
    BY <1>1, <2>2, <2>3
<1>3. ASSUME NEW x \in SE!ToSet(s) PROVE x \in SE!ToSet(u)
  <2>1. PICK i \in 1 .. n : x = s[i]
    BY <1>1, <1>3 DEF SE!ToSet
  <2>2. i \in 1 .. n + Len(t)
    BY <1>1
  <2> QED
    BY <1>1, <2>1, <2>2 DEF SE!ToSet
<1>4. ASSUME NEW x \in SE!ToSet(t) PROVE x \in SE!ToSet(u)
  <2>1. PICK i \in 1 .. Len(t) : x = t[i]
    BY <1>1, <1>4 DEF SE!ToSet
  <2>2. n + i \in 1 .. n + Len(t)
    BY <1>1
  <2> QED
    BY <1>1, <2>1, <2>2 DEF SE!ToSet
<1> QED
  BY <1>2, <1>3, <1>4 DEF u

\* Its keys are distinct when those of each are and none is in both.
LEMMA ConcatDistinct ==
    ASSUME NEW X, NEW s \in Seq(X), NEW t \in Seq(X), NEW key,
           Distinct(s, key), Distinct(t, key),
           \A x \in SE!ToSet(s), y \in SE!ToSet(t) : key[x] # key[y]
    PROVE  Distinct(s \o t, key)
<1> DEFINE u == s \o t
           n == Len(s)
<1>1. /\ n \in Nat /\ Len(t) \in Nat
      /\ DOMAIN s = 1 .. n /\ DOMAIN t = 1 .. Len(t)
      /\ DOMAIN u = 1 .. n + Len(t)
      /\ \A i \in 1 .. n : u[i] = s[i]
      /\ \A i \in 1 .. Len(t) : u[n + i] = t[i]
  BY ConcatFacts
<1>2. \A i \in 1 .. n : s[i] \in SE!ToSet(s)
  BY <1>1 DEF SE!ToSet
<1>3. \A i \in 1 .. Len(t) : t[i] \in SE!ToSet(t)
  BY <1>1 DEF SE!ToSet
<1> HIDE DEF u, n
<1> SUFFICES ASSUME NEW i \in 1 .. n + Len(t), NEW j \in 1 .. n + Len(t), key[u[i]] = key[u[j]]
             PROVE  i = j
  BY <1>1 DEF Distinct, u
<1>4. \A k \in 1 .. n + Len(t) :
          k \in 1 .. n \/ (k - n \in 1 .. Len(t) /\ n + (k - n) = k)
  BY <1>1
<1>5. CASE i \in 1 .. n /\ j \in 1 .. n
  BY <1>1, <1>5 DEF Distinct
<1>6. CASE i \in 1 .. n /\ j \notin 1 .. n
  <2>1. u[i] = s[i] /\ u[j] = t[j - n] /\ j - n \in 1 .. Len(t)
    BY <1>1, <1>4, <1>6
  <2> QED
    BY <1>2, <1>3, <1>6, <2>1
<1>7. CASE i \notin 1 .. n /\ j \in 1 .. n
  <2>1. u[j] = s[j] /\ u[i] = t[i - n] /\ i - n \in 1 .. Len(t)
    BY <1>1, <1>4, <1>7
  <2> QED
    BY <1>2, <1>3, <1>7, <2>1
<1>8. CASE i \notin 1 .. n /\ j \notin 1 .. n
  <2>1. PICK a \in 1 .. Len(t) : n + a = i
    BY <1>4, <1>8
  <2>2. PICK b \in 1 .. Len(t) : n + b = j
    BY <1>4, <1>8
  <2>3. u[i] = t[a] /\ u[j] = t[b]
    BY <1>1, <2>1, <2>2
  <2>4. a = b
    BY <1>1, <2>3 DEF Distinct
  <2> QED
    BY <2>1, <2>2, <2>4
<1> QED
  BY <1>5, <1>6, <1>7, <1>8

-----------------------------------------------------------------------------
(* FlattenSeq *)

\* How FlattenSeq comes to its result.
FlattenStep(ss, Y) ==
    [p \in Nat \X Y |-> IF p[1] + 2 \in 1 .. Len(ss) THEN p[2] \o ss[p[1] + 2] ELSE p[2]]

\* The recursive function of FlattenSeq exists: it satisfies its equation.
LEMMA FlattenRuns ==
    ASSUME NEW X, NEW ss \in Seq(Seq(X)), ss # <<>>
    PROVE  \E flat : /\ SE!FlattenSeq(ss) = flat[Len(ss)]
                     /\ flat[1] = ss[1]
                     /\ \A i \in 2 .. Len(ss) : flat[i] = flat[i - 1] \o ss[i]
<1> DEFINE n == Len(ss)
           step == FlattenStep(ss, Seq(X))
           Eq(h) == [i \in 1 .. n |-> IF i = 1 THEN ss[i] ELSE h[i - 1] \o ss[i]]
<1>1. n \in Nat /\ n >= 1 /\ ss[1] \in Seq(X)
  BY EmptySeq
<1>2. step \in [Nat \X Seq(X) -> Seq(X)]
  <2> SUFFICES ASSUME NEW p \in Nat \X Seq(X)
               PROVE  (IF p[1] + 2 \in 1 .. Len(ss) THEN p[2] \o ss[p[1] + 2]
                       ELSE p[2]) \in Seq(X)
    BY DEF FlattenStep
  <2>1. p[1] \in Nat /\ p[2] \in Seq(X)
    OBVIOUS
  <2>2. p[1] + 2 \in 1 .. Len(ss) => ss[p[1] + 2] \in Seq(X)
    BY <2>1
  <2> QED
    BY <2>1, <2>2
<1>3. PICK f \in [0 .. n - 1 -> Seq(X)] : Runs(f, n - 1, ss[1], step)
  <2> HIDE DEF step, n
  <2>1. n - 1 \in Nat
    BY <1>1
  <2> QED
    BY <1>1, <1>2, <2>1, RunExists
<1> DEFINE g == [i \in 1 .. n |-> f[i - 1]]
<1>4. g[1] = ss[1]
  BY <1>1, <1>3 DEF Runs
<1>5. ASSUME NEW i \in 2 .. n PROVE g[i] = g[i - 1] \o ss[i]
  <2>1. i - 2 \in 0 .. n - 1 - 1 /\ i - 2 + 1 = i - 1 /\ i - 2 \in Nat /\ i - 2 + 2 = i
    BY <1>1
  <2>2. f[i - 2] \in Seq(X)
    BY <2>1
  <2>3. f[i - 1] = step[<<i - 2, f[i - 2]>>]
    BY <1>3, <2>1 DEF Runs
  <2>4. \A k \in Nat, y \in Seq(X) : k + 2 \in 1 .. n => step[<<k, y>>] = y \o ss[k + 2]
    BY DEF FlattenStep
  <2>6. f[i - 1] = f[i - 2] \o ss[i]
    <3> HIDE DEF step
    <3>1. i - 2 + 2 \in 1 .. n
      BY <1>1, <2>1
    <3>2. step[<<i - 2, f[i - 2]>>] = f[i - 2] \o ss[i - 2 + 2]
      BY <2>1, <2>2, <2>4, <3>1
    <3> QED
      BY <2>1, <2>3, <3>2
  <2>5. g[i] = f[i - 1] /\ g[i - 1] = f[i - 2]
    BY <2>1
  <2> QED
    BY <2>6, <2>5
<1>6. g = Eq(g)
  <2>1. ASSUME NEW i \in 1 .. n PROVE g[i] = Eq(g)[i]
    <3>1. CASE i = 1
      BY <1>4, <3>1
    <3>2. CASE i # 1
      <4>1. i \in 2 .. n
        BY <1>1, <3>2
      <4> QED
        BY <1>5, <3>2, <4>1
    <3> QED
      BY <3>1, <3>2
  <2> QED
    BY <2>1
<1> DEFINE flat == CHOOSE h : h = Eq(h)
<1>7. flat = Eq(flat)
  BY <1>6
<1>8. SE!FlattenSeq(ss) = flat[n]
  BY <1>1 DEF SE!FlattenSeq
<1>9. \A i \in 1 .. n : flat[i] = Eq(flat)[i]
  BY <1>7
<1> HIDE DEF flat
<1>10. flat[1] = ss[1]
  BY <1>1, <1>9
<1>11. ASSUME NEW i \in 2 .. n PROVE flat[i] = flat[i - 1] \o ss[i]
  <2>1. i \in 1 .. n /\ i # 1
    BY <1>1
  <2>2. flat[i] = Eq(flat)[i]
    BY <1>9, <2>1
  <2> QED
    BY <2>1, <2>2
<1> QED
  BY <1>8, <1>10, <1>11

\* The places of a sequence with one more element.
LEMMA AppendFacts ==
    ASSUME NEW Y, NEW s \in Seq(Y), NEW y \in Y
    PROVE  /\ Append(s, y) \in Seq(Y)
           /\ Append(s, y) # <<>>
           /\ Len(s) \in Nat
           /\ Len(Append(s, y)) = Len(s) + 1
           /\ Append(s, y)[Len(s) + 1] = y
           /\ \A i \in 1 .. Len(s) : Append(s, y)[i] = s[i]
BY AppendProperties, LenProperties

\* Nothing flattened is nothing.
LEMMA FlattenEmpty == SE!FlattenSeq(<<>>) = <<>>
BY DEF SE!FlattenSeq

\* One more sequence comes at the end.
LEMMA FlattenAppend ==
    ASSUME NEW X, NEW ss \in Seq(Seq(X)), NEW s \in Seq(X)
    PROVE  SE!FlattenSeq(Append(ss, s)) = SE!FlattenSeq(ss) \o s
<1> DEFINE n == Len(ss)
           tt == Append(ss, s)
<1>1. /\ tt \in Seq(Seq(X)) /\ Len(tt) = n + 1 /\ n \in Nat /\ tt[n + 1] = s
      /\ tt # <<>> /\ \A i \in 1 .. n : tt[i] = ss[i]
  <2> DEFINE Y == Seq(X)
  <2>1. ss \in Seq(Y) /\ s \in Y
    OBVIOUS
  <2> HIDE DEF Y
  <2>2. tt \in Seq(Y)
    BY <2>1, AppendFacts
  <2>3. /\ Len(tt) = n + 1 /\ n \in Nat /\ tt[n + 1] = s
        /\ tt # <<>> /\ \A i \in 1 .. n : tt[i] = ss[i]
    BY <2>1, AppendFacts
  <2> QED
    BY <2>2, <2>3 DEF Y
<1>2. CASE ss = <<>>
  <2>1. n = 0
    BY <1>2
  <2> HIDE DEF tt, n
  <2>2. PICK g : SE!FlattenSeq(tt) = g[Len(tt)] /\ g[1] = tt[1]
    BY <1>1, FlattenRuns
  <2>3. SE!FlattenSeq(tt) = s
    BY <1>1, <2>1, <2>2
  <2> QED
    BY <1>2, <2>3, FlattenEmpty, ConcatEmptySeq DEF tt
<1>3. CASE ss # <<>>
  <2>0. n >= 1
    BY <1>3, EmptySeq
  <2> HIDE DEF tt
  <2>1. PICK f : /\ SE!FlattenSeq(ss) = f[n]
                 /\ f[1] = ss[1]
                 /\ \A i \in 2 .. n : f[i] = f[i - 1] \o ss[i]
    BY <1>3, FlattenRuns
  <2>2. PICK g : /\ SE!FlattenSeq(tt) = g[Len(tt)]
                 /\ g[1] = tt[1]
                 /\ \A i \in 2 .. Len(tt) : g[i] = g[i - 1] \o tt[i]
    BY <1>1, FlattenRuns
  <2> DEFINE P == {k \in Nat : k + 1 <= n => f[k + 1] = g[k + 1]}
  <2>3. 0 \in P
    BY <1>1, <2>0, <2>1, <2>2
  <2>4. ASSUME NEW k \in Nat, k \in P PROVE k + 1 \in P
    <3> SUFFICES ASSUME k + 1 + 1 <= n PROVE f[k + 1 + 1] = g[k + 1 + 1]
      OBVIOUS
    <3> DEFINE m == k + 1 + 1
    <3>1. m \in 2 .. n /\ m \in 2 .. Len(tt) /\ m - 1 = k + 1 /\ m \in 1 .. n
      BY <1>1
    <3>2. f[m - 1] = g[m - 1]
      BY <2>4, <3>1
    <3> HIDE DEF m
    <3>3. f[m] = f[m - 1] \o ss[m] /\ g[m] = g[m - 1] \o tt[m] /\ tt[m] = ss[m]
      BY <1>1, <2>1, <2>2, <3>1
    <3>4. f[m] = g[m]
      BY <3>2, <3>3
    <3> QED
      BY <3>4 DEF m
  <2>5. Nat \subseteq P
    <3> HIDE DEF P
    <3> QED
      BY <2>3, <2>4, NatInductionSet
  <2>6. f[n] = g[n]
    <3>1. n - 1 \in Nat /\ n - 1 + 1 = n /\ n - 1 + 1 <= n
      BY <1>1, <2>0
    <3>2. n - 1 \in P
      BY <2>5, <3>1
    <3> QED
      BY <3>1, <3>2
  <2>7. g[n + 1] = g[n] \o s
    <3> DEFINE m == n + 1
    <3>1. m \in 2 .. Len(tt) /\ m - 1 = n /\ tt[m] = s
      BY <1>1, <2>0
    <3> HIDE DEF m
    <3>2. g[m] = g[m - 1] \o tt[m]
      BY <2>2, <3>1
    <3> QED
      BY <3>1, <3>2 DEF m
  <2> QED
    BY <1>1, <2>1, <2>2, <2>6, <2>7 DEF tt
<1> QED
  BY <1>2, <1>3

\* Flattening gives a sequence of the elements.
LEMMA FlattenType ==
    ASSUME NEW X, NEW ss \in Seq(Seq(X))
    PROVE  SE!FlattenSeq(ss) \in Seq(X)
<1> DEFINE P == {tt \in Seq(Seq(X)) : SE!FlattenSeq(tt) \in Seq(X)}
<1>0. <<>> \in Seq(Seq(X)) /\ <<>> \in Seq(X)
  OBVIOUS
<1>1. <<>> \in P
  BY <1>0, FlattenEmpty
<1>2. ASSUME NEW tt \in Seq(Seq(X)), NEW s \in Seq(X), tt \in P PROVE Append(tt, s) \in P
  <2>1. SE!FlattenSeq(Append(tt, s)) = SE!FlattenSeq(tt) \o s
    BY FlattenAppend
  <2>2. SE!FlattenSeq(tt) \o s \in Seq(X) /\ Append(tt, s) \in Seq(Seq(X))
    BY <1>2, ConcatProperties
  <2> QED
    BY <2>1, <2>2
<1>3. Seq(Seq(X)) \subseteq P
  <2> HIDE DEF P
  <2> QED
    BY <1>1, <1>2, SeqInductionSet
<1> QED
  BY <1>3

\* It has the elements of all the sequences, and no others.
LEMMA FlattenRange ==
    ASSUME NEW X, NEW ss \in Seq(Seq(X))
    PROVE  SE!ToSet(SE!FlattenSeq(ss)) = UNION {SE!ToSet(ss[i]) : i \in DOMAIN ss}
<1> DEFINE All(tt) == UNION {SE!ToSet(tt[i]) : i \in DOMAIN tt}
           Y == Seq(X)
           P == {tt \in Seq(Y) : SE!ToSet(SE!FlattenSeq(tt)) = All(tt)}
<1>1. <<>> \in P
  <2>1. All(<<>>) = {} /\ <<>> \in Seq(Y)
    OBVIOUS
  <2> QED
    BY <2>1, FlattenEmpty, ToSetEmpty
<1>2. ASSUME NEW tt \in Seq(Y), NEW s \in Y, tt \in P PROVE Append(tt, s) \in P
  <2> DEFINE uu == Append(tt, s)
  <2>1. /\ uu \in Seq(Y) /\ Len(tt) \in Nat /\ DOMAIN tt = 1 .. Len(tt)
        /\ DOMAIN uu = 1 .. Len(tt) + 1 /\ uu[Len(tt) + 1] = s
        /\ \A i \in 1 .. Len(tt) : uu[i] = tt[i]
    <3> HIDE DEF Y
    <3> QED
      BY AppendFacts, AppendProperties, LenProperties
  <2>2. All(uu) = All(tt) \cup SE!ToSet(s)
    <3> HIDE DEF uu
    <3>1. \A i \in DOMAIN uu : i \in DOMAIN tt \/ i = Len(tt) + 1
      BY <2>1
    <3>2. \A i \in DOMAIN tt : i \in DOMAIN uu /\ uu[i] = tt[i]
      BY <2>1
    <3>3. Len(tt) + 1 \in DOMAIN uu
      BY <2>1
    <3> QED
      BY <2>1, <3>1, <3>2, <3>3
  <2>3. SE!FlattenSeq(uu) = SE!FlattenSeq(tt) \o s
    BY FlattenAppend
  <2>4. SE!ToSet(SE!FlattenSeq(tt) \o s) = SE!ToSet(SE!FlattenSeq(tt)) \cup SE!ToSet(s)
    BY FlattenType, ConcatRange
  <2> QED
    BY <1>2, <2>1, <2>2, <2>3, <2>4
<1>3. Seq(Y) \subseteq P
  <2> HIDE DEF P, Y
  <2> QED
    BY <1>1, <1>2, SeqInductionSet
<1> QED
  BY <1>3

\* Nothing is repeated in a concatenation of disjoint sequences.
LEMMA FlattenDistinct ==
    ASSUME NEW X, NEW ss \in Seq(Seq(X)), NEW key,
           \A i \in DOMAIN ss : Distinct(ss[i], key),
           \A i, j \in DOMAIN ss : i # j =>
              \A x \in SE!ToSet(ss[i]), y \in SE!ToSet(ss[j]) : key[x] # key[y]
    PROVE  Distinct(SE!FlattenSeq(ss), key)
<1> DEFINE Parts(tt) ==
              /\ \A i \in DOMAIN tt : Distinct(tt[i], key)
              /\ \A i, j \in DOMAIN tt : i # j =>
                    \A x \in SE!ToSet(tt[i]), y \in SE!ToSet(tt[j]) : key[x] # key[y]
           Y == Seq(X)
           P == {tt \in Seq(Y) : Parts(tt) => Distinct(SE!FlattenSeq(tt), key)}
<1>1. <<>> \in P
  <2>1. <<>> \in Seq(Y) /\ Distinct(<<>>, key)
    BY DEF Distinct
  <2> QED
    BY <2>1, FlattenEmpty
<1>2. ASSUME NEW tt \in Seq(Y), NEW s \in Y, tt \in P PROVE Append(tt, s) \in P
  <2> DEFINE uu == Append(tt, s)
  <2>1. /\ uu \in Seq(Y) /\ Len(tt) \in Nat /\ DOMAIN tt = 1 .. Len(tt)
        /\ DOMAIN uu = 1 .. Len(tt) + 1 /\ uu[Len(tt) + 1] = s
        /\ \A i \in 1 .. Len(tt) : uu[i] = tt[i]
    <3> HIDE DEF Y
    <3> QED
      BY AppendFacts, AppendProperties, LenProperties
  <2> SUFFICES ASSUME Parts(uu) PROVE Distinct(SE!FlattenSeq(uu), key)
    BY <2>1
  <2>2. \A i \in DOMAIN tt : i \in DOMAIN uu /\ uu[i] = tt[i] /\ i # Len(tt) + 1
    <3> HIDE DEF uu
    <3> QED
      BY <2>1
  <2>3. Len(tt) + 1 \in DOMAIN uu
    <3> HIDE DEF uu
    <3> QED
      BY <2>1
  <2>4. /\ \A i \in DOMAIN uu : Distinct(uu[i], key)
        /\ \A i, j \in DOMAIN uu : i # j =>
              \A x \in SE!ToSet(uu[i]), y \in SE!ToSet(uu[j]) : key[x] # key[y]
    OBVIOUS
  <2> HIDE DEF uu
  <2>5. Parts(tt)
    BY <2>2, <2>4
  <2>6. Distinct(SE!FlattenSeq(tt), key) /\ Distinct(s, key)
    BY <1>2, <2>1, <2>3, <2>4, <2>5
  <2>7. ASSUME NEW x \in SE!ToSet(SE!FlattenSeq(tt)), NEW y \in SE!ToSet(s)
        PROVE  key[x] # key[y]
    <3>1. PICK i \in DOMAIN tt : x \in SE!ToSet(tt[i])
      BY <2>7, FlattenRange
    <3> QED
      BY <2>1, <2>2, <2>3, <2>4, <2>7, <3>1
  <2>8. SE!FlattenSeq(uu) = SE!FlattenSeq(tt) \o s
    BY FlattenAppend DEF uu
  <2>9. SE!FlattenSeq(tt) \in Seq(X) /\ s \in Seq(X)
    BY FlattenType
  <2> QED
    BY <2>6, <2>7, <2>8, <2>9, ConcatDistinct
<1>3. Seq(Y) \subseteq P
  <2> HIDE DEF P, Y
  <2> QED
    BY <1>1, <1>2, SeqInductionSet
<1>4. ss \in P
  BY <1>3
<1>5. Parts(ss)
  OBVIOUS
<1> QED
  BY <1>4, <1>5

\* The same, for a sequence of sequences given by its elements.
LEMMA FlattenLast ==
    ASSUME NEW X, NEW n \in Nat, NEW f \in [1 .. n + 1 -> Seq(X)]
    PROVE  SE!FlattenSeq(f) = SE!FlattenSeq([i \in 1 .. n |-> f[i]]) \o f[n + 1]
<1> DEFINE Y == Seq(X)
           g == [i \in 1 .. n |-> f[i]]
           h == Append(g, f[n + 1])
<1>1. f \in [1 .. n + 1 -> Y] /\ n + 1 \in 1 .. n + 1 /\ n + 1 \in Nat
  OBVIOUS
<1> HIDE DEF Y
<1>2. g \in Seq(Y) /\ Len(g) = n /\ f[n + 1] \in Y
  BY <1>1
<1>3. h \in Seq(Y) /\ Len(h) = n + 1 /\ h[n + 1] = f[n + 1] /\ \A i \in 1 .. n : h[i] = f[i]
  <2>1. \A i \in 1 .. n : g[i] = f[i]
    OBVIOUS
  <2> HIDE DEF g
  <2> QED
    BY <1>2, <2>1, AppendFacts
<1>4. f \in Seq(Y) /\ Len(f) = n + 1
  BY <1>1
<1>5. \A i \in 1 .. n + 1 : h[i] = f[i]
  <2>1. \A i \in 1 .. n + 1 : i \in 1 .. n \/ i = n + 1
    OBVIOUS
  <2> HIDE DEF h
  <2> QED
    BY <1>3, <2>1
<1>6. h = f
  <2> HIDE DEF h
  <2> QED
    BY <1>3, <1>4, <1>5, SeqEqual
<1>7. SE!FlattenSeq(h) = SE!FlattenSeq(g) \o f[n + 1]
  <2> HIDE DEF g
  <2> QED
    BY <1>2, FlattenAppend DEF Y
<1> QED
  BY <1>6, <1>7

\* Appending to the second of two sequences is appending to both.
LEMMA ConcatAppend ==
    ASSUME NEW X, NEW s \in Seq(X), NEW t \in Seq(X), NEW x \in X
    PROVE  s \o Append(t, x) = Append(s \o t, x)
OBVIOUS

\* An empty second sequence adds nothing.
LEMMA EmptyConcat ==
    ASSUME NEW X, NEW s \in Seq(X)
    PROVE  s \o <<>> = s
OBVIOUS

\* A part of a sequence has some of its elements, each of them once.
LEMMA PartFacts ==
    ASSUME NEW X, NEW s \in Seq(X), NEW m \in Nat \ {0}, NEW n \in 0 .. Len(s), NEW key
    PROVE  /\ SubSeq(s, m, n) \in Seq(X)
           /\ SE!ToSet(SubSeq(s, m, n)) \subseteq SE!ToSet(s)
           /\ Distinct(s, key) => Distinct(SubSeq(s, m, n), key)
<1> DEFINE t == SubSeq(s, m, n)
<1>1. Len(s) \in Nat /\ DOMAIN s = 1 .. Len(s)
  OBVIOUS
<1>2. CASE n < m
  <2>1. t = <<>>
    BY <1>1, <1>2
  <2> QED
    BY <2>1 DEF Distinct, SE!ToSet
<1>3. CASE m <= n
  <2>1. /\ t \in Seq(X) /\ DOMAIN t = 1 .. n - m + 1
        /\ \A i \in 1 .. n - m + 1 : t[i] = s[m + i - 1]
    BY <1>1, <1>3, SubSeqProperties
  <2> HIDE DEF t
  <2>2. \A i \in 1 .. n - m + 1 : m + i - 1 \in 1 .. Len(s)
    BY <1>1, <1>3
  <2>3. SE!ToSet(t) \subseteq SE!ToSet(s)
    BY <1>1, <2>1, <2>2 DEF SE!ToSet
  <2>4. ASSUME Distinct(s, key), NEW i \in DOMAIN t, NEW j \in DOMAIN t, key[t[i]] = key[t[j]]
        PROVE  i = j
    <3>1. PICK a \in DOMAIN s, b \in DOMAIN s :
              a = m + i - 1 /\ b = m + j - 1 /\ t[i] = s[a] /\ t[j] = s[b]
      BY <1>1, <2>1, <2>2
    <3>2. a = b
      BY <2>4, <3>1 DEF Distinct
    <3>3. i \in Int /\ j \in Int
      BY <2>1
    <3> QED
      BY <3>1, <3>2, <3>3
  <2>5. Distinct(s, key) => Distinct(t, key)
    BY <2>4 DEF Distinct
  <2> QED
    BY <2>1, <2>3, <2>5 DEF t
<1> QED
  BY <1>1, <1>2, <1>3

\* What Filter keeps is not longer, and splitting the condition splits the length.
LEMMA FilterLength ==
    ASSUME NEW X, NEW s \in Seq(X), NEW T, NEW U, T \cap U = {}
    PROVE  /\ Len(Filter(s, T)) \in Nat /\ Len(Filter(s, T)) <= Len(s)
           /\ Len(Filter(s, T \cup U)) = Len(Filter(s, T)) + Len(Filter(s, U))
<1> DEFINE P == {t \in Seq(X) :
                   /\ Len(Filter(t, T)) <= Len(t)
                   /\ Len(Filter(t, T \cup U)) = Len(Filter(t, T)) + Len(Filter(t, U))}
<1>1. <<>> \in P
  <2>1. <<>> \in Seq(X) /\ Len(<<>>) = 0
    OBVIOUS
  <2> QED
    BY <2>1, FilterEmpty
<1>2. ASSUME NEW t \in Seq(X), NEW x \in X, t \in P PROVE Append(t, x) \in P
  <2>1. Append(t, x) \in Seq(X) /\ Len(Append(t, x)) = Len(t) + 1 /\ Len(t) \in Nat
    BY AppendFacts
  <2>2. PICK a, b, c : a = Filter(t, T) /\ b = Filter(t, U) /\ c = Filter(t, T \cup U)
    OBVIOUS
  <2>3. a \in Seq(X) /\ b \in Seq(X) /\ c \in Seq(X)
    BY <2>2, FilterType
  <2>4. /\ Len(a) \in Nat /\ Len(b) \in Nat /\ Len(c) \in Nat
        /\ Len(Append(a, x)) = Len(a) + 1
        /\ Len(Append(b, x)) = Len(b) + 1
        /\ Len(Append(c, x)) = Len(c) + 1
    BY <2>3, AppendFacts
  <2>5. Len(a) <= Len(t) /\ Len(c) = Len(a) + Len(b)
    BY <1>2, <2>2
  <2>6. /\ Filter(Append(t, x), T) = IF x \in T THEN Append(a, x) ELSE a
        /\ Filter(Append(t, x), U) = IF x \in U THEN Append(b, x) ELSE b
        /\ Filter(Append(t, x), T \cup U) = IF x \in T \cup U THEN Append(c, x) ELSE c
    BY <2>2, FilterAppend
  <2>7. /\ Len(Filter(Append(t, x), T)) <= Len(Append(t, x))
        /\ Len(Filter(Append(t, x), T \cup U))
               = Len(Filter(Append(t, x), T)) + Len(Filter(Append(t, x), U))
    <3>1. CASE x \in T
      <4>1. x \notin U
        BY <3>1
      <4>2. /\ Filter(Append(t, x), T) = Append(a, x) /\ Filter(Append(t, x), U) = b
            /\ Filter(Append(t, x), T \cup U) = Append(c, x)
        BY <2>6, <3>1, <4>1
      <4> QED
        BY <2>1, <2>4, <2>5, <4>2
    <3>2. CASE x \in U
      <4>1. x \notin T
        BY <3>2
      <4>2. /\ Filter(Append(t, x), T) = a /\ Filter(Append(t, x), U) = Append(b, x)
            /\ Filter(Append(t, x), T \cup U) = Append(c, x)
        BY <2>6, <3>2, <4>1
      <4> QED
        BY <2>1, <2>4, <2>5, <4>2
    <3>3. CASE x \notin T /\ x \notin U
      <4>1. /\ Filter(Append(t, x), T) = a /\ Filter(Append(t, x), U) = b
            /\ Filter(Append(t, x), T \cup U) = c
        BY <2>6, <3>3
      <4> QED
        BY <2>1, <2>4, <2>5, <4>1
    <3> QED
      BY <3>1, <3>2, <3>3
  <2> QED
    BY <2>1, <2>7
<1>3. Seq(X) \subseteq P
  <2> HIDE DEF P
  <2> QED
    BY <1>1, <1>2, SeqInductionSet
<1>4. Filter(s, T) \in Seq(X)
  BY FilterType
<1>5. Len(Filter(s, T)) \in Nat
  BY <1>4, LenProperties
<1> QED
  BY <1>3, <1>5

-----------------------------------------------------------------------------
(* More about Filter *)

\* A filter of a filtered list keeps what both keep.
LEMMA FilterTwice ==
    ASSUME NEW X, NEW s \in Seq(X), NEW T, NEW U
    PROVE  Filter(Filter(s, T), U) = Filter(s, T \cap U)
<1> DEFINE P == {t \in Seq(X) : Filter(Filter(t, T), U) = Filter(t, T \cap U)}
<1>1. <<>> \in P
  <2>1. /\ Filter(<<>>, T) = <<>>
        /\ Filter(<<>>, U) = <<>>
        /\ Filter(<<>>, T \cap U) = <<>>
    BY FilterEmpty
  <2> QED
    BY <2>1
<1>2. ASSUME NEW t \in Seq(X), NEW x \in X, t \in P PROVE Append(t, x) \in P
  <2>1. Filter(Append(t, x), T) = IF x \in T THEN Append(Filter(t, T), x) ELSE Filter(t, T)
    BY FilterAppend
  <2>2. Filter(Append(t, x), T \cap U)
           = IF x \in T \cap U THEN Append(Filter(t, T \cap U), x) ELSE Filter(t, T \cap U)
    BY FilterAppend
  <2>3. Filter(t, T) \in Seq(X)
    BY FilterType
  <2>4. Filter(Append(Filter(t, T), x), U)
           = IF x \in U THEN Append(Filter(Filter(t, T), U), x) ELSE Filter(Filter(t, T), U)
    BY <2>3, FilterAppend
  <2>5. Filter(Filter(t, T), U) = Filter(t, T \cap U)
    BY <1>2
  <2>6. Append(t, x) \in Seq(X)
    OBVIOUS
  <2>7. Filter(Filter(Append(t, x), T), U) = Filter(Append(t, x), T \cap U)
    <3>1. CASE x \in T
      <4>1. x \in T \cap U <=> x \in U
        BY <3>1
      <4> QED
        BY <2>1, <2>2, <2>4, <2>5, <3>1, <4>1, Zenon
    <3>2. CASE x \notin T
      <4>1. x \notin T \cap U
        BY <3>2
      <4> QED
        BY <2>1, <2>2, <2>5, <3>2, <4>1, Zenon
    <3> QED
      BY <3>1, <3>2
  <2> QED
    BY <2>6, <2>7
<1>3. Seq(X) \subseteq P
  <2> HIDE DEF P
  <2> QED
    BY <1>1, <1>2, SeqInductionSet
<1> QED
  BY <1>3

\* What comes before an element of a filtered list came before it in the list.
LEMMA FilterKeepsOrder ==
    ASSUME NEW X, NEW s \in Seq(X), NEW T, NEW k \in DOMAIN s, s[k] \in T
    PROVE  \E m \in DOMAIN Filter(s, T) :
              /\ Filter(s, T)[m] = s[k]
              /\ \A j \in 1 .. m - 1 : \E i \in 1 .. k - 1 : s[i] = Filter(s, T)[j]
<1> DEFINE Kept(t, n) ==
             \E m \in DOMAIN Filter(t, T) :
                /\ Filter(t, T)[m] = t[n]
                /\ \A j \in 1 .. m - 1 : \E i \in 1 .. n - 1 : t[i] = Filter(t, T)[j]
           P == {t \in Seq(X) : \A n \in DOMAIN t : t[n] \in T => Kept(t, n)}
<1>1. <<>> \in P
  OBVIOUS
<1>2. ASSUME NEW t \in Seq(X), NEW x \in X, t \in P PROVE Append(t, x) \in P
  <2> DEFINE u == Append(t, x)
             ft == Filter(t, T)
             fu == Filter(u, T)
  <2>1. /\ u \in Seq(X) /\ DOMAIN u = 1 .. Len(t) + 1 /\ DOMAIN t = 1 .. Len(t)
        /\ Len(t) \in Nat /\ u[Len(t) + 1] = x
        /\ \A i \in 1 .. Len(t) : u[i] = t[i]
    OBVIOUS
  <2>2. fu = IF x \in T THEN Append(ft, x) ELSE ft
    BY FilterAppend
  <2>3. ft \in Seq(X)
    BY FilterType
  <2>4. SE!ToSet(ft) = SE!ToSet(t) \cap T
    BY FilterRange
  <2>5. \A j \in DOMAIN ft : \E i \in 1 .. Len(t) : t[i] = ft[j]
    BY <2>1, <2>4 DEF SE!ToSet
  <2> HIDE DEF u, ft, fu
  <2>6. DOMAIN ft = 1 .. Len(ft) /\ Len(ft) \in Nat
    BY <2>3
  <2>7. DOMAIN ft \subseteq DOMAIN fu /\ \A j \in DOMAIN ft : fu[j] = ft[j]
    BY <2>2, <2>3, <2>6
  <2>8. ASSUME NEW n \in 1 .. Len(t), u[n] \in T PROVE Kept(u, n)
    <3>1. n \in DOMAIN t /\ t[n] = u[n]
      BY <2>1
    <3>2. Kept(t, n)
      BY <1>2, <2>8, <3>1
    <3>3. PICK m \in DOMAIN ft :
             /\ ft[m] = t[n]
             /\ \A j \in 1 .. m - 1 : \E i \in 1 .. n - 1 : t[i] = ft[j]
      BY <3>2 DEF ft
    <3>4. m \in DOMAIN fu /\ fu[m] = u[n]
      BY <2>7, <3>1, <3>3
    <3>5. ASSUME NEW j \in 1 .. m - 1 PROVE \E i \in 1 .. n - 1 : u[i] = fu[j]
      <4>1. PICK i \in 1 .. n - 1 : t[i] = ft[j]
        BY <3>3
      <4>2. j \in DOMAIN ft /\ i \in 1 .. Len(t)
        BY <2>1, <2>6, <2>8, <3>3
      <4> QED
        BY <2>1, <2>7, <4>1, <4>2
    <3> QED
      BY <3>4, <3>5 DEF fu
  <2>9. ASSUME x \in T PROVE Kept(u, Len(t) + 1)
    <3>1. fu = Append(ft, x)
      BY <2>2, <2>9
    <3>2. Len(ft) + 1 \in DOMAIN fu /\ fu[Len(ft) + 1] = u[Len(t) + 1]
      BY <2>1, <2>3, <3>1
    <3>3. ASSUME NEW j \in 1 .. Len(ft) + 1 - 1
          PROVE  \E i \in 1 .. Len(t) + 1 - 1 : u[i] = fu[j]
      <4>1. j \in DOMAIN ft
        BY <2>6
      <4>2. PICK i \in 1 .. Len(t) : t[i] = ft[j]
        BY <2>5, <4>1
      <4>3. i \in 1 .. Len(t) + 1 - 1
        BY <2>1
      <4> QED
        BY <2>1, <2>7, <4>1, <4>2, <4>3
    <3> QED
      BY <3>2, <3>3 DEF fu
  <2>10. ASSUME NEW n \in DOMAIN u, u[n] \in T PROVE Kept(u, n)
    <3> HIDE DEF Kept
    <3>1. CASE n = Len(t) + 1
      BY <2>1, <2>9, <2>10, <3>1
    <3>2. CASE n # Len(t) + 1
      <4>1. n \in 1 .. Len(t)
        BY <2>1, <3>2
      <4> QED
        BY <2>8, <2>10, <4>1
    <3> QED
      BY <3>1, <3>2
  <2>11. u \in P
    <3> HIDE DEF Kept
    <3> QED
      BY <2>1, <2>10
  <2> QED
    BY <2>11 DEF u
<1>3. Seq(X) \subseteq P
  <2> HIDE DEF P
  <2> QED
    BY <1>1, <1>2, SeqInductionSet
<1>4. Kept(s, k)
  BY <1>3
<1> QED
  BY <1>4

\* An empty list has no elements, and no other list.
LEMMA EmptyHasNone ==
    ASSUME NEW X, NEW s \in Seq(X)
    PROVE  /\ s = <<>> <=> SE!ToSet(s) = {}
           /\ s # <<>> => 1 \in DOMAIN s
<1>1. SE!ToSet(s) = {s[i] : i \in DOMAIN s}
  BY DEF SE!ToSet
<1>2. DOMAIN s = 1 .. Len(s) /\ Len(s) \in Nat
  OBVIOUS
<1>3. CASE Len(s) = 0
  <2>1. s = <<>>
    BY <1>3, EmptySeq
  <2>2. DOMAIN s = {}
    BY <1>2, <1>3
  <2> QED
    BY <1>1, <2>1, <2>2
<1>4. CASE Len(s) # 0
  <2>1. 1 \in DOMAIN s
    BY <1>2, <1>4
  <2>2. s # <<>>
    BY <1>4
  <2>3. SE!ToSet(s) # {}
    BY <1>1, <2>1
  <2> QED
    BY <2>1, <2>2, <2>3
<1> QED
  BY <1>3, <1>4

-----------------------------------------------------------------------------
(* Functions that look forward *)

\* A function that gathers, at i, what i has of its own and what a later place has.
Gathers(f, n, next, own) ==
    f = [i \in 1 .. n + 1 |-> IF i > n THEN {} ELSE own[i] \cup f[next[i]]]

\* There is one, however far the places are apart.
LEMMA ForwardRecursion ==
    ASSUME NEW n \in Nat, NEW next, \A i \in 1 .. n : next[i] \in i + 1 .. n + 1, NEW own
    PROVE  \E f : Gathers(f, n, next, own)
<1> DEFINE Step(f, i) == IF i > n THEN {} ELSE own[i] \cup f[next[i]]
           Solves(f, k) == f = [i \in k .. n + 1 |-> Step(f, i)]
           P == {m \in Nat : m <= n => \E f : Solves(f, n + 1 - m)}
<1>1. 0 \in P
  <2> DEFINE f == [i \in n + 1 .. n + 1 |-> {}]
  <2>1. \A i \in n + 1 .. n + 1 : Step(f, i) = {}
    OBVIOUS
  <2>2. f = [i \in n + 1 .. n + 1 |-> Step(f, i)]
    <3> HIDE DEF Step
    <3> QED
      BY <2>1
  <2>3. n + 1 - 0 = n + 1
    OBVIOUS
  <2>4. Solves(f, n + 1 - 0)
    BY <2>2, <2>3, Zenon
  <2> HIDE DEF f, Solves
  <2> QED
    BY <2>4
<1>2. ASSUME NEW m \in Nat, m \in P PROVE m + 1 \in P
  <2> SUFFICES ASSUME m + 1 <= n PROVE \E f : Solves(f, n + 1 - (m + 1))
    OBVIOUS
  <2> DEFINE k == n + 1 - (m + 1)
  <2>1. k \in 1 .. n /\ k + 1 = n + 1 - m /\ m <= n
    OBVIOUS
  <2>2. PICK f : Solves(f, k + 1)
    <3> HIDE DEF Solves, k
    <3>1. \E f : Solves(f, n + 1 - m)
      BY <1>2, <2>1
    <3> QED
      BY <2>1, <3>1, Zenon
  <2> DEFINE g == [i \in k .. n + 1 |-> IF i = k THEN Step(f, k) ELSE f[i]]
  <2> HIDE DEF k
  <2>3. \A i \in k + 1 .. n + 1 : i \in k .. n + 1 /\ i # k
    BY <2>1
  <2>4. \A i \in k + 1 .. n + 1 : g[i] = f[i]
    BY <2>3
  <2>5. \A i \in k + 1 .. n + 1 : f[i] = Step(f, i)
    <3> HIDE DEF Step
    <3> QED
      BY <2>2, Zenon
  <2>6. ASSUME NEW i \in k .. n + 1 PROVE Step(g, i) = Step(f, i)
    <3>1. CASE i > n
      BY <3>1
    <3>2. CASE ~(i > n)
      <4>1. i \in 1 .. n
        BY <2>1, <3>2
      <4>2. next[i] \in i + 1 .. n + 1
        BY <4>1
      <4>3. next[i] \in k + 1 .. n + 1
        BY <2>1, <4>2
      <4>4. g[next[i]] = f[next[i]]
        BY <2>4, <4>3
      <4> HIDE DEF g
      <4> QED
        BY <4>4
    <3> QED
      BY <3>1, <3>2
  <2>7. ASSUME NEW i \in k .. n + 1 PROVE g[i] = Step(g, i)
    <3>1. CASE i = k
      <4>1. g[i] = Step(f, k)
        <5> HIDE DEF Step
        <5> QED
          BY <3>1
      <4> HIDE DEF g, Step
      <4> QED
        BY <2>6, <3>1, <4>1
    <3>2. CASE i # k
      <4>1. i \in k + 1 .. n + 1
        BY <2>1, <3>2
      <4> HIDE DEF g, Step
      <4> QED
        BY <2>4, <2>5, <2>6, <4>1
    <3> QED
      BY <3>1, <3>2
  <2>8. g = [i \in k .. n + 1 |-> Step(g, i)]
    <3>1. g = [i \in k .. n + 1 |-> g[i]]
      <4> HIDE DEF Step
      <4> QED
        OBVIOUS
    <3> HIDE DEF g, Step
    <3> QED
      BY <2>7, <3>1
  <2>9. Solves(g, k)
    BY <2>8
  <2> HIDE DEF g, Solves
  <2> QED
    BY <2>9 DEF k
<1>3. n \in P
  <2> HIDE DEF P
  <2> QED
    BY <1>1, <1>2, NatInductionSet
<1>4. PICK f : Solves(f, n + 1 - n)
  <2> HIDE DEF Solves
  <2>1. n <= n
    OBVIOUS
  <2> QED
    BY <1>3, <2>1
<1>5. n + 1 - n = 1
  OBVIOUS
<1>6. Solves(f, 1)
  <2> HIDE DEF Solves
  <2> QED
    BY <1>4, <1>5, Zenon
<1> QED
  BY <1>6, Zenon DEF Gathers

-----------------------------------------------------------------------------
(* The sum over a set *)

\* The sum of a function over a set.
Total(f, S) == FE!MapThenSumSet(LAMBDA x : f[x], S)

\* What the sum takes next from a set.
Chosen(s) == CHOOSE x \in s : TRUE

\* The recursion that the sum is.
Sums(it, f, S) ==
    \A s \in SUBSET S : it[s] = IF s = {} THEN 0 ELSE f[Chosen(s)] + it[s \ {Chosen(s)}]

\* The sum is the value of a function on the subsets, which takes one element after the
\* other.
LEMMA TotalRuns ==
    ASSUME NEW S, IsFiniteSet(S), NEW f \in [S -> Nat]
    PROVE  \E it : Total(f, S) = it[S] /\ Sums(it, f, S)
<1> DEFINE n == Cardinality(S)
           Y == [SUBSET S -> Nat]
           Eq(h) == [s \in SUBSET S |->
                        IF s = {} THEN 0 ELSE f[Chosen(s)] + h[s \ {Chosen(s)}]]
           base == [s \in SUBSET S |-> 0]
           step == [p \in Nat \X Y |-> Eq(p[2])]
<1>1. n \in Nat
  BY FS_CardinalityType
<1>2. ASSUME NEW s \in SUBSET S, s # {}
      PROVE  /\ Chosen(s) \in s /\ f[Chosen(s)] \in Nat /\ s \ {Chosen(s)} \in SUBSET S
             /\ IsFiniteSet(s) /\ Cardinality(s) \in Nat /\ Cardinality(s) # 0
             /\ Cardinality(s \ {Chosen(s)}) = Cardinality(s) - 1
  <2>1. Chosen(s) \in s
    BY <1>2 DEF Chosen
  <2>2. IsFiniteSet(s)
    BY FS_Subset
  <2>3. Cardinality(s) \in Nat /\ Cardinality(s) # 0
    BY <1>2, <2>2, FS_CardinalityType, FS_EmptySet
  <2>4. Cardinality(s \ {Chosen(s)}) = Cardinality(s) - 1
    BY <2>1, <2>2, FS_RemoveElement
  <2> QED
    BY <2>1, <2>2, <2>3, <2>4
<1>3. ASSUME NEW h \in Y PROVE Eq(h) \in Y
  <2> SUFFICES ASSUME NEW s \in SUBSET S
               PROVE  (IF s = {} THEN 0 ELSE f[Chosen(s)] + h[s \ {Chosen(s)}]) \in Nat
    OBVIOUS
  <2>1. CASE s = {}
    BY <2>1
  <2>2. CASE s # {}
    <3>1. f[Chosen(s)] \in Nat /\ h[s \ {Chosen(s)}] \in Nat
      BY <1>2, <2>2
    <3> QED
      BY <2>2, <3>1
  <2> QED
    BY <2>1, <2>2
<1>4. base \in Y /\ step \in [Nat \X Y -> Y]
  <2>1. base \in Y
    OBVIOUS
  <2> HIDE DEF Eq, Y
  <2>2. \A p \in Nat \X Y : Eq(p[2]) \in Y
    BY <1>3
  <2> QED
    BY <2>1, <2>2
<1> HIDE DEF n, Y, Eq, base, step
<1>5. PICK m \in Nat : m = n + 1
  BY <1>1
<1>6. PICK g \in [0 .. m -> Y] : Runs(g, m, base, step)
  BY <1>4, RunExists
<1>7. g[0] = base
  BY <1>6 DEF Runs
<1>8. ASSUME NEW k \in 0 .. n PROVE g[k] \in Y /\ g[k + 1] = Eq(g[k])
  <2>1. k \in 0 .. m /\ k \in 0 .. m - 1 /\ k \in Nat
    BY <1>1, <1>5
  <2>2. g[k] \in Y
    BY <2>1
  <2>3. g[k + 1] = step[<<k, g[k]>>]
    BY <1>6, <2>1, RunsStep
  <2>4. <<k, g[k]>> \in Nat \X Y
    BY <2>1, <2>2
  <2> QED
    BY <2>2, <2>3, <2>4 DEF step
<1>9. \A k \in 0 .. n : \A s \in SUBSET S : Cardinality(s) <= k => g[k + 1][s] = g[k][s]
  <2> DEFINE P == {k \in Nat : k <= n =>
                     \A s \in SUBSET S : Cardinality(s) <= k => g[k + 1][s] = g[k][s]}
  <2>1. 0 \in P
    <3>1. ASSUME NEW s \in SUBSET S, Cardinality(s) <= 0 PROVE s = {}
      <4> SUFFICES ASSUME s # {} PROVE FALSE
        OBVIOUS
      <4>1. Cardinality(s) \in Nat /\ Cardinality(s) # 0
        BY <1>2
      <4> QED
        BY <3>1, <4>1
    <3>2. g[0 + 1] = Eq(g[0]) /\ g[0] = base
      <4>1. 0 \in 0 .. n
        BY <1>1
      <4> QED
        BY <1>7, <1>8, <4>1
    <3>3. g[0 + 1][{}] = 0 /\ g[0][{}] = 0
      BY <3>2 DEF Eq, base
    <3> QED
      BY <3>1, <3>3
  <2>2. ASSUME NEW k \in Nat, k \in P PROVE k + 1 \in P
    <3> SUFFICES ASSUME k + 1 <= n, NEW s \in SUBSET S, Cardinality(s) <= k + 1
                 PROVE  g[k + 1 + 1][s] = g[k + 1][s]
      OBVIOUS
    <3>1. k \in 0 .. n /\ k + 1 \in 0 .. n
      BY <1>1
    <3>2. g[k + 1] = Eq(g[k]) /\ g[k + 1 + 1] = Eq(g[k + 1])
      BY <1>8, <3>1
    <3>3. CASE s = {}
      BY <3>2, <3>3 DEF Eq
    <3>4. CASE s # {}
      <4>1. Cardinality(s \ {Chosen(s)}) <= k /\ s \ {Chosen(s)} \in SUBSET S
        BY <1>2, <3>4
      <4>2. g[k + 1][s \ {Chosen(s)}] = g[k][s \ {Chosen(s)}]
        BY <2>2, <3>1, <4>1
      <4> QED
        BY <3>2, <3>4, <4>2 DEF Eq
    <3> QED
      BY <3>3, <3>4
  <2>3. Nat \subseteq P
    <3> HIDE DEF P
    <3> QED
      BY <2>1, <2>2, NatInductionSet
  <2> QED
    BY <1>1, <2>3
<1>10. g[n] = Eq(g[n])
  <2>1. n \in 0 .. n
    BY <1>1
  <2>2. g[n] \in Y /\ g[n + 1] \in Y /\ g[n + 1] = Eq(g[n])
    BY <1>3, <1>8, <2>1
  <2>3. ASSUME NEW s \in SUBSET S PROVE g[n + 1][s] = g[n][s]
    <3>1. Cardinality(s) <= n
      BY FS_Subset DEF n
    <3> QED
      BY <1>9, <2>1, <3>1
  <2>4. g[n + 1] = g[n]
    BY <2>2, <2>3 DEF Y
  <2> QED
    BY <2>2, <2>4
<1> DEFINE it == CHOOSE h : h = Eq(h)
<1>11. it = Eq(it)
  BY <1>10
<1>12. Total(f, S) = it[S]
  BY DEF Eq, Total, FE!MapThenSumSet, FE!MapThenFoldSet, Chosen
<1> HIDE DEF it
<1>13. Sums(it, f, S)
  BY <1>11 DEF Sums, Eq
<1> QED
  BY <1>12, <1>13

\* What is known of the sum of natural numbers that are at most u: it is at most u for
\* each, just that only when each is u, and zero only when all are.
LEMMA TotalFacts ==
    ASSUME NEW S, IsFiniteSet(S), NEW u \in Nat, NEW f \in [S -> 0 .. u]
    PROVE  /\ Total(f, S) \in Nat
           /\ Total(f, S) <= u * Cardinality(S)
           /\ Total(f, S) = u * Cardinality(S) <=> \A x \in S : f[x] = u
           /\ \A x \in S : f[x] <= Total(f, S)
           /\ Total(f, S) = 0 <=> \A x \in S : f[x] = 0
<1>1. f \in [S -> Nat]
  OBVIOUS
<1>2. PICK it : Total(f, S) = it[S] /\ Sums(it, f, S)
  BY <1>1, TotalRuns
<1> USE DEF Sums
<1> DEFINE Fact(s) == /\ it[s] \in Nat
                      /\ it[s] <= u * Cardinality(s)
                      /\ it[s] = u * Cardinality(s) <=> \A x \in s : f[x] = u
                      /\ \A x \in s : f[x] <= it[s]
           P == {k \in Nat : \A s \in SUBSET S : Cardinality(s) = k => Fact(s)}
<1>3. 0 \in P
  <2> SUFFICES ASSUME NEW s \in SUBSET S, Cardinality(s) = 0 PROVE Fact(s)
    OBVIOUS
  <2>1. s = {}
    BY FS_Subset, FS_EmptySet
  <2>2. it[s] = 0
    BY <1>2, <2>1
  <2> QED
    BY <2>1, <2>2
<1>4. ASSUME NEW k \in Nat, k \in P PROVE k + 1 \in P
  <2> SUFFICES ASSUME NEW s \in SUBSET S, Cardinality(s) = k + 1 PROVE Fact(s)
    OBVIOUS
  <2>1. IsFiniteSet(s) /\ s # {}
    BY FS_Subset, FS_EmptySet
  <2>2. PICK x \in s : x = Chosen(s)
    BY <2>1 DEF Chosen
  <2>3. PICK t \in SUBSET S : t = s \ {x}
    OBVIOUS
  <2>4. Cardinality(t) = k
    <3>1. Cardinality(s \ {x}) = Cardinality(s) - 1
      BY <2>1, FS_RemoveElement
    <3> QED
      BY <2>3, <3>1
  <2>5. Fact(t)
    BY <1>4, <2>4
  <2>6. it[s] = f[x] + it[t] /\ f[x] \in 0 .. u
    BY <1>2, <2>1, <2>2, <2>3
  <2>7. u * (k + 1) = u * k + u /\ u * k \in Nat
    OBVIOUS
  <2>8. /\ it[t] \in Nat /\ it[t] <= u * k /\ (it[t] = u * k <=> \A y \in t : f[y] = u)
        /\ \A y \in t : f[y] <= it[t]
    BY <2>4, <2>5
  <2>9. s = t \cup {x}
    BY <2>3
  <2>10. it[s] \in Nat /\ it[s] <= u * (k + 1)
    BY <2>6, <2>7, <2>8
  <2>11. it[s] = u * (k + 1) <=> it[t] = u * k /\ f[x] = u
    BY <2>6, <2>7, <2>8
  <2>12. it[s] = u * (k + 1) <=> \A y \in s : f[y] = u
    BY <2>8, <2>9, <2>11
  <2>13. \A y \in s : f[y] <= it[s]
    <3> SUFFICES ASSUME NEW y \in s PROVE f[y] <= it[s]
      OBVIOUS
    <3>1. f[y] \in 0 .. u
      OBVIOUS
    <3>2. CASE y = x
      BY <2>6, <2>8, <3>2
    <3>3. CASE y # x
      <4>1. f[y] <= it[t]
        BY <2>8, <2>9, <3>3
      <4> QED
        BY <2>6, <2>8, <3>1, <4>1
    <3> QED
      BY <3>2, <3>3
  <2> QED
    BY <2>10, <2>12, <2>13
<1>5. Nat \subseteq P
  <2> HIDE DEF P
  <2> QED
    BY <1>3, <1>4, NatInductionSet
<1>6. Fact(S)
  BY <1>5, FS_CardinalityType
<1>7. Total(f, S) = 0 <=> \A x \in S : f[x] = 0
  <2>1. ASSUME Total(f, S) = 0, NEW x \in S PROVE f[x] = 0
    <3>1. f[x] \in 0 .. u /\ f[x] <= 0
      BY <1>2, <1>6, <2>1
    <3> QED
      BY <3>1
  <2>2. ASSUME \A x \in S : f[x] = 0, S # {} PROVE Total(f, S) = 0
    <3> DEFINE Q == {k \in Nat : \A s \in SUBSET S : Cardinality(s) = k => it[s] = 0}
    <3>1. 0 \in Q
      BY <1>2, FS_Subset, FS_EmptySet
    <3>2. ASSUME NEW k \in Nat, k \in Q PROVE k + 1 \in Q
      <4> SUFFICES ASSUME NEW s \in SUBSET S, Cardinality(s) = k + 1 PROVE it[s] = 0
        OBVIOUS
      <4>1. IsFiniteSet(s) /\ s # {}
        BY FS_Subset, FS_EmptySet
      <4>2. PICK x \in s : x = Chosen(s)
        BY <4>1 DEF Chosen
      <4>3. PICK t \in SUBSET S : t = s \ {x}
        OBVIOUS
      <4>4. Cardinality(t) = k
        <5>1. Cardinality(s \ {x}) = Cardinality(s) - 1
          BY <4>1, FS_RemoveElement
        <5> QED
          BY <4>3, <5>1
      <4>5. it[t] = 0
        BY <3>2, <4>4
      <4>6. it[s] = f[x] + it[t] /\ f[x] = 0
        BY <1>2, <2>2, <4>1, <4>2, <4>3
      <4> QED
        BY <4>5, <4>6
    <3>3. Nat \subseteq Q
      <4> HIDE DEF Q
      <4> QED
        BY <3>1, <3>2, NatInductionSet
    <3> QED
      BY <1>2, <3>3, FS_CardinalityType
  <2>3. ASSUME S = {} PROVE Total(f, S) = 0
    BY <1>2, <2>3
  <2> QED
    BY <2>1, <2>2, <2>3
<1> HIDE DEF P
<1> QED
  BY <1>2, <1>6, <1>7

\* The sum of a function that is split in two is the sum of the two sums.
LEMMA TotalSplit ==
    ASSUME NEW S, IsFiniteSet(S), NEW f \in [S -> Nat], NEW g \in [S -> Nat],
           NEW h \in [S -> Nat], \A x \in S : f[x] = g[x] + h[x]
    PROVE  /\ Total(f, S) \in Nat /\ Total(g, S) \in Nat /\ Total(h, S) \in Nat
           /\ Total(f, S) = Total(g, S) + Total(h, S)
<1>1. PICK F : Total(f, S) = F[S] /\ Sums(F, f, S)
  BY TotalRuns
<1>2. PICK G : Total(g, S) = G[S] /\ Sums(G, g, S)
  BY TotalRuns
<1>3. PICK H : Total(h, S) = H[S] /\ Sums(H, h, S)
  BY TotalRuns
<1> DEFINE Fact(s) == F[s] \in Nat /\ G[s] \in Nat /\ H[s] \in Nat /\ F[s] = G[s] + H[s]
           P == {k \in Nat : \A s \in SUBSET S : Cardinality(s) = k => Fact(s)}
<1>4. 0 \in P
  <2> SUFFICES ASSUME NEW s \in SUBSET S, Cardinality(s) = 0 PROVE Fact(s)
    OBVIOUS
  <2>1. s = {}
    BY FS_Subset, FS_EmptySet
  <2>2. F[s] = 0 /\ G[s] = 0 /\ H[s] = 0
    BY <1>1, <1>2, <1>3, <2>1 DEF Sums
  <2> QED
    BY <2>2
<1>5. ASSUME NEW k \in Nat, k \in P PROVE k + 1 \in P
  <2> SUFFICES ASSUME NEW s \in SUBSET S, Cardinality(s) = k + 1 PROVE Fact(s)
    OBVIOUS
  <2>1. IsFiniteSet(s) /\ s # {}
    BY FS_Subset, FS_EmptySet
  <2>2. PICK x \in s : x = Chosen(s)
    BY <2>1 DEF Chosen
  <2>3. PICK t \in SUBSET S : t = s \ {x}
    OBVIOUS
  <2>4. Cardinality(t) = k
    <3>1. Cardinality(s \ {x}) = Cardinality(s) - 1
      BY <2>1, FS_RemoveElement
    <3> QED
      BY <2>3, <3>1
  <2>5. Fact(t)
    BY <1>5, <2>4
  <2>6. F[s] = f[x] + F[t] /\ G[s] = g[x] + G[t] /\ H[s] = h[x] + H[t]
    BY <1>1, <1>2, <1>3, <2>1, <2>2, <2>3 DEF Sums
  <2>7. f[x] \in Nat /\ g[x] \in Nat /\ h[x] \in Nat /\ f[x] = g[x] + h[x]
    BY <2>2
  <2> QED
    BY <2>5, <2>6, <2>7
<1>6. Nat \subseteq P
  <2> HIDE DEF P
  <2> QED
    BY <1>4, <1>5, NatInductionSet
<1>7. Fact(S)
  BY <1>6, FS_CardinalityType
<1> QED
  BY <1>1, <1>2, <1>3, <1>7

\* A function that is nowhere smaller has no smaller sum.
LEMMA TotalGrows ==
    ASSUME NEW S, IsFiniteSet(S), NEW f \in [S -> Nat], NEW g \in [S -> Nat],
           \A x \in S : g[x] <= f[x]
    PROVE  /\ Total(f, S) \in Nat /\ Total(g, S) \in Nat
           /\ Total(g, S) <= Total(f, S)
<1> DEFINE h == [x \in S |-> f[x] - g[x]]
<1>1. h \in [S -> Nat] /\ \A x \in S : f[x] = g[x] + h[x]
  <2>1. \A x \in S : f[x] \in Nat /\ g[x] \in Nat /\ g[x] <= f[x]
    OBVIOUS
  <2> QED
    BY <2>1
<1> HIDE DEF h
<1>2. /\ Total(f, S) \in Nat /\ Total(g, S) \in Nat /\ Total(h, S) \in Nat
      /\ Total(f, S) = Total(g, S) + Total(h, S)
  BY <1>1, TotalSplit
<1> QED
  BY <1>2

=============================================================================
