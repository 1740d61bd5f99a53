---------------------------- MODULE EvaluationProofs ----------------------------
(***************************************************************************)
(* Proofs about the evaluation harness, for every golden set, any answers  *)
(* of the assessment and every threshold: every verified case is counted   *)
(* once, with the prediction of its own fixture, and the gate says so.     *)
(***************************************************************************)
EXTENDS Evaluation, ListLemmas

-----------------------------------------------------------------------------
(* Occurrences *)

LEMMA OccurrencesEmpty == ASSUME NEW c PROVE Occurrences(c, <<>>) = 0
<1>1. {k \in DOMAIN <<>> : <<>>[k] = c} = {}
  OBVIOUS
<1> QED
  BY <1>1, FS_EmptySet DEF Occurrences

LEMMA OccurrencesType ==
    ASSUME NEW X, NEW s \in Seq(X), NEW c
    PROVE  /\ Occurrences(c, s) \in Nat
           /\ Occurrences(c, s) = 0 <=> c \notin SE!ToSet(s)
<1> DEFINE at == {k \in DOMAIN s : s[k] = c}
<1>1. DOMAIN s = 1 .. Len(s) /\ Len(s) \in Nat
  OBVIOUS
<1>2. IsFiniteSet(at)
  <2>1. IsFiniteSet(1 .. Len(s))
    BY <1>1, FS_Interval
  <2>2. at \in SUBSET (1 .. Len(s))
    BY <1>1
  <2> HIDE DEF at
  <2> QED
    BY <2>1, <2>2, FS_Subset
<1>3. at = {} <=> c \notin SE!ToSet(s)
  BY DEF SE!ToSet
<1> HIDE DEF at
<1>4. Cardinality(at) \in Nat /\ (Cardinality(at) = 0 <=> at = {})
  BY <1>2, FS_CardinalityType, FS_EmptySet
<1> QED
  BY <1>3, <1>4 DEF Occurrences, at

LEMMA OccurrencesAppend ==
    ASSUME NEW X, NEW s \in Seq(X), NEW x \in X, NEW c
    PROVE  Occurrences(c, Append(s, x)) = Occurrences(c, s) + (IF x = c THEN 1 ELSE 0)
<1> DEFINE t == Append(s, x)
           at == {k \in DOMAIN s : s[k] = c}
           all == {k \in DOMAIN t : t[k] = c}
<1>1. /\ DOMAIN t = 1 .. Len(s) + 1 /\ DOMAIN s = 1 .. Len(s) /\ Len(s) \in Nat
      /\ t[Len(s) + 1] = x /\ \A k \in 1 .. Len(s) : t[k] = s[k]
  OBVIOUS
<1> HIDE DEF t
<1>2. all = IF x = c THEN at \cup {Len(s) + 1} ELSE at
  <2>1. ASSUME NEW k \in 1 .. Len(s) + 1 PROVE k = Len(s) + 1 \/ k \in 1 .. Len(s)
    BY <1>1
  <2>2. \A k : k \in all <=> (k \in at \/ (k = Len(s) + 1 /\ x = c))
    BY <1>1, <2>1
  <2> QED
    BY <2>2
<1>3. Len(s) + 1 \notin at
  BY <1>1
<1>4. IsFiniteSet(at)
  <2>1. IsFiniteSet(1 .. Len(s))
    BY <1>1, FS_Interval
  <2>2. at \in SUBSET (1 .. Len(s))
    BY <1>1
  <2> HIDE DEF at
  <2> QED
    BY <2>1, <2>2, FS_Subset
<1> HIDE DEF at, all
<1>5. Cardinality(at) \in Nat
  BY <1>4, FS_CardinalityType
<1>6. Cardinality(at \cup {Len(s) + 1}) = Cardinality(at) + 1
  BY <1>3, <1>4, FS_AddElement
<1>7. Cardinality(all) = Cardinality(at) + (IF x = c THEN 1 ELSE 0)
  BY <1>2, <1>5, <1>6
<1> QED
  BY <1>7 DEF Occurrences, at, all, t

LEMMA OccurrencesFilter ==
    ASSUME NEW X, NEW s \in Seq(X), NEW T, NEW c
    PROVE  Occurrences(c, Filter(s, T)) = IF c \in T THEN Occurrences(c, s) ELSE 0
<1> DEFINE P == {t \in Seq(X) :
                   Occurrences(c, Filter(t, T)) = IF c \in T THEN Occurrences(c, t) ELSE 0}
<1>1. <<>> \in P
  <2>1. <<>> \in Seq(X)
    OBVIOUS
  <2> QED
    BY <2>1, FilterEmpty, OccurrencesEmpty
<1>2. ASSUME NEW t \in Seq(X), NEW x \in X, t \in P PROVE Append(t, x) \in P
  <2>1. Append(t, x) \in Seq(X) /\ Filter(t, T) \in Seq(X)
    BY FilterType
  <2>2. Occurrences(c, Filter(t, T)) = IF c \in T THEN Occurrences(c, t) ELSE 0
    BY <1>2
  <2>3. Filter(Append(t, x), T) = IF x \in T THEN Append(Filter(t, T), x) ELSE Filter(t, T)
    BY FilterAppend
  <2>4. /\ Occurrences(c, Append(Filter(t, T), x))
               = Occurrences(c, Filter(t, T)) + (IF x = c THEN 1 ELSE 0)
        /\ Occurrences(c, Append(t, x)) = Occurrences(c, t) + (IF x = c THEN 1 ELSE 0)
    BY <2>1, OccurrencesAppend
  <2>5. Occurrences(c, t) \in Nat
    BY OccurrencesType
  <2>6. Occurrences(c, Filter(Append(t, x), T))
            = IF c \in T THEN Occurrences(c, Append(t, x)) ELSE 0
    <3>1. CASE x \in T
      BY <2>2, <2>3, <2>4, <2>5, <3>1
    <3>2. CASE x \notin T
      BY <2>2, <2>3, <2>4, <2>5, <3>2
    <3> QED
      BY <3>1, <3>2
  <2> QED
    BY <2>1, <2>6
<1>3. Seq(X) \subseteq P
  <2> HIDE DEF P
  <2> QED
    BY <1>1, <1>2, SeqInductionSet
<1> QED
  BY <1>3

LEMMA OccurrencesConcat ==
    ASSUME NEW X, NEW s \in Seq(X), NEW u \in Seq(X), NEW c
    PROVE  Occurrences(c, s \o u) = Occurrences(c, s) + Occurrences(c, u)
<1> DEFINE P == {t \in Seq(X) : Occurrences(c, s \o t) = Occurrences(c, s) + Occurrences(c, t)}
<1>1. <<>> \in P
  <2>1. <<>> \in Seq(X) /\ s \o <<>> = s
    BY EmptyConcat
  <2> QED
    BY <2>1, OccurrencesEmpty, OccurrencesType
<1>2. ASSUME NEW t \in Seq(X), NEW x \in X, t \in P PROVE Append(t, x) \in P
  <2>1. Append(t, x) \in Seq(X) /\ s \o t \in Seq(X)
    OBVIOUS
  <2>2. Occurrences(c, s \o t) = Occurrences(c, s) + Occurrences(c, t)
    BY <1>2
  <2>3. s \o Append(t, x) = Append(s \o t, x)
    BY ConcatAppend
  <2>4. /\ Occurrences(c, Append(s \o t, x))
               = Occurrences(c, s \o t) + (IF x = c THEN 1 ELSE 0)
        /\ Occurrences(c, Append(t, x)) = Occurrences(c, t) + (IF x = c THEN 1 ELSE 0)
    BY <2>1, OccurrencesAppend
  <2>5. Occurrences(c, t) \in Nat /\ Occurrences(c, s) \in Nat
    BY OccurrencesType
  <2>6. Occurrences(c, s \o Append(t, x)) = Occurrences(c, s) + Occurrences(c, Append(t, x))
    <3> DEFINE one == IF x = c THEN 1 ELSE 0
    <3>1. one \in Nat
      OBVIOUS
    <3> HIDE DEF one
    <3>2. /\ Occurrences(c, s \o Append(t, x)) = Occurrences(c, s \o t) + one
          /\ Occurrences(c, Append(t, x)) = Occurrences(c, t) + one
      BY <2>3, <2>4 DEF one
    <3> QED
      BY <2>2, <2>5, <3>1, <3>2
  <2> QED
    BY <2>1, <2>6
<1>3. Seq(X) \subseteq P
  <2> HIDE DEF P
  <2> QED
    BY <1>1, <1>2, SeqInductionSet
<1> QED
  BY <1>3

-----------------------------------------------------------------------------
(* The results *)

\* The cases of the results, in their order.
CasesIn(rs) == [k \in DOMAIN rs |-> rs[k].case]

LEMMA CasesInFacts ==
    ASSUME NEW rs \in Seq(EvalCaseResult)
    PROVE  /\ CasesIn(rs) \in Seq(GoldenCase)
           /\ \A c : {k \in DOMAIN rs : rs[k].case = c}
                        = {k \in DOMAIN CasesIn(rs) : CasesIn(rs)[k] = c}
<1>1. DOMAIN rs = 1 .. Len(rs) /\ Len(rs) \in Nat /\ \A k \in DOMAIN rs : rs[k] \in EvalCaseResult
  OBVIOUS
<1>2. \A k \in DOMAIN rs : rs[k].case \in GoldenCase
  BY <1>1 DEF EvalCaseResult
<1>3. CasesIn(rs) = [k \in 1 .. Len(rs) |-> rs[k].case]
  BY <1>1 DEF CasesIn
<1>4. CasesIn(rs) \in Seq(GoldenCase)
  BY <1>1, <1>2, <1>3
<1> QED
  BY <1>1, <1>3, <1>4

\* The cases of a fixture are the cases of the set with that fixture, as often.
LEMMA CasesOfFacts ==
    ASSUME NEW f, NEW cs \in Seq(GoldenCase)
    PROVE  /\ CasesOf(f, cs) \in Seq(GoldenCase)
           /\ SE!ToSet(CasesOf(f, cs)) = {c \in SE!ToSet(cs) : c.repo_fixture = f}
           /\ \A c : Occurrences(c, CasesOf(f, cs))
                       = IF c \in SE!ToSet(cs) /\ c.repo_fixture = f
                         THEN Occurrences(c, cs) ELSE 0
<1> DEFINE T == {c \in SE!ToSet(cs) : c.repo_fixture = f}
<1>1. CasesOf(f, cs) = Filter(cs, T)
  BY DEF CasesOf
<1> HIDE DEF T
<1>2. /\ Filter(cs, T) \in Seq(GoldenCase)
      /\ SE!ToSet(Filter(cs, T)) = SE!ToSet(cs) \cap T
      /\ \A c : Occurrences(c, Filter(cs, T)) = IF c \in T THEN Occurrences(c, cs) ELSE 0
  BY FilterType, FilterRange, OccurrencesFilter
<1> QED
  BY <1>1, <1>2 DEF T

\* A fixture gives one result for each of its cases, and each prediction is the answer
\* to the control of its case.
LEMMA PairedFacts ==
    ASSUME NEW f \in Fixture, NEW cs \in Seq(GoldenCase), NEW answer \in Answer(ControlIdsOf(f, cs))
    PROVE  LET new == Paired(f, cs, answer)
           IN  /\ new \in Seq(EvalCaseResult)
               /\ CasesIn(new) = CasesOf(f, cs)
               /\ Len(new) = Len(CasesOf(f, cs))
               /\ \A k \in DOMAIN new :
                     /\ new[k].case.repo_fixture = f
                     /\ new[k].predicted # None =>
                           /\ answer \notin {NoDirectory, RaisedError}
                           /\ answer[new[k].case.control_id] = new[k].predicted
<1> DEFINE mine == CasesOf(f, cs)
           Says(c) == IF answer \in {NoDirectory, RaisedError} THEN None ELSE answer[c.control_id]
           new == Paired(f, cs, answer)
<1>1. /\ mine \in Seq(GoldenCase) /\ DOMAIN mine = 1 .. Len(mine) /\ Len(mine) \in Nat
      /\ \A k \in 1 .. Len(mine) : mine[k] \in GoldenCase /\ mine[k] \in SE!ToSet(mine)
  <2> HIDE DEF mine
  <2>1. mine \in Seq(GoldenCase)
    BY CasesOfFacts DEF mine
  <2> QED
    BY <2>1 DEF SE!ToSet
<1>2. \A c \in SE!ToSet(mine) : Says(c) \in Label \cup {None} /\ c.repo_fixture = f
  <2>1. \A c \in SE!ToSet(mine) : c.control_id \in ControlIdsOf(f, cs)
    BY DEF ControlIdsOf
  <2>2. \A c \in SE!ToSet(mine) : c.repo_fixture = f
    BY CasesOfFacts
  <2> QED
    BY <2>1, <2>2 DEF Answer
<1>3. new = [k \in 1 .. Len(mine) |-> [case |-> mine[k], predicted |-> Says(mine[k])]]
  BY <1>1 DEF Paired
<1> HIDE DEF mine, Says, new
<1>4. \A k \in 1 .. Len(mine) :
          /\ new[k] \in EvalCaseResult
          /\ new[k].case = mine[k] /\ new[k].predicted = Says(mine[k])
  BY <1>1, <1>2, <1>3 DEF EvalCaseResult
<1>5. DOMAIN new = 1 .. Len(mine) /\ new \in Seq(EvalCaseResult)
  BY <1>1, <1>3, <1>4
<1>6. CasesIn(new) = mine
  <2>1. CasesIn(new) = [k \in 1 .. Len(mine) |-> mine[k]]
    BY <1>4, <1>5 DEF CasesIn
  <2> QED
    BY <1>1, <2>1
<1>7. \A k \in DOMAIN new :
          /\ new[k].case.repo_fixture = f
          /\ new[k].predicted # None =>
                /\ answer \notin {NoDirectory, RaisedError}
                /\ answer[new[k].case.control_id] = new[k].predicted
  BY <1>1, <1>2, <1>4, <1>5 DEF Says
<1>8. Len(new) = Len(mine)
  BY <1>1, <1>5, LenProperties
<1> QED
  BY <1>5, <1>6, <1>7, <1>8 DEF new, mine

\* Results that come together: their cases do.
LEMMA CasesInConcat ==
    ASSUME NEW rs \in Seq(EvalCaseResult), NEW new \in Seq(EvalCaseResult)
    PROVE  CasesIn(rs \o new) = CasesIn(rs) \o CasesIn(new)
<1> DEFINE all == rs \o new
           left == CasesIn(rs)
           right == CasesIn(new)
<1>1. /\ all \in Seq(EvalCaseResult) /\ Len(rs) \in Nat /\ Len(new) \in Nat
      /\ DOMAIN rs = 1 .. Len(rs) /\ DOMAIN new = 1 .. Len(new)
      /\ DOMAIN all = 1 .. Len(rs) + Len(new)
      /\ \A i \in 1 .. Len(rs) : all[i] = rs[i]
      /\ \A i \in 1 .. Len(new) : all[Len(rs) + i] = new[i]
  BY ConcatFacts
<1>2. left \in Seq(GoldenCase) /\ right \in Seq(GoldenCase) /\ CasesIn(all) \in Seq(GoldenCase)
  BY <1>1, CasesInFacts
<1>3. /\ DOMAIN left = 1 .. Len(rs) /\ DOMAIN right = 1 .. Len(new)
      /\ DOMAIN CasesIn(all) = 1 .. Len(rs) + Len(new)
      /\ \A i \in 1 .. Len(rs) : left[i] = rs[i].case
      /\ \A i \in 1 .. Len(new) : right[i] = new[i].case
      /\ \A i \in 1 .. Len(rs) + Len(new) : CasesIn(all)[i] = all[i].case
  <2> HIDE DEF all
  <2> QED
    BY <1>1 DEF CasesIn
<1> HIDE DEF all, left, right
<1>4. Len(left) = Len(rs) /\ Len(right) = Len(new) /\ Len(CasesIn(all)) = Len(rs) + Len(new)
  BY <1>1, <1>2, <1>3, LenProperties
<1>5. PICK both : both = left \o right
  OBVIOUS
<1>6. /\ both \in Seq(GoldenCase) /\ DOMAIN both = 1 .. Len(left) + Len(right)
      /\ \A i \in 1 .. Len(left) : both[i] = left[i]
      /\ \A i \in 1 .. Len(right) : both[Len(left) + i] = right[i]
  BY <1>2, <1>5, ConcatFacts
<1>7. /\ both \in Seq(GoldenCase) /\ Len(both) = Len(rs) + Len(new)
      /\ \A i \in 1 .. Len(rs) : both[i] = left[i]
      /\ \A i \in 1 .. Len(new) : both[Len(rs) + i] = right[i]
  BY <1>1, <1>4, <1>6, LenProperties
<1>8. ASSUME NEW i \in 1 .. Len(rs) + Len(new) PROVE CasesIn(all)[i] = both[i]
  <2>1. CASE i \in 1 .. Len(rs)
    <3>1. CasesIn(all)[i] = all[i].case /\ left[i] = rs[i].case
      BY <1>3, <2>1
    <3>2. all[i] = rs[i] /\ both[i] = left[i]
      BY <1>1, <1>7, <2>1
    <3> QED
      BY <3>1, <3>2
  <2>2. CASE i \notin 1 .. Len(rs)
    <3>1. PICK j \in 1 .. Len(new) : i = Len(rs) + j
      <4>1. i - Len(rs) \in 1 .. Len(new) /\ i = Len(rs) + (i - Len(rs))
        BY <1>1, <2>2
      <4> QED
        BY <4>1
    <3>2. CasesIn(all)[i] = all[i].case /\ right[j] = new[j].case
      BY <1>3
    <3>3. all[i] = new[j] /\ both[i] = right[j]
      BY <1>1, <1>7, <3>1
    <3> QED
      BY <3>2, <3>3
  <2> QED
    BY <2>1, <2>2
<1>9. CasesIn(all) = both
  BY <1>2, <1>4, <1>7, <1>8, SeqEqual
<1> QED
  BY <1>5, <1>9 DEF all, left, right

-----------------------------------------------------------------------------
(* The score *)

\* The quotient is the largest number of which b times fit in a.
LEMMA Quotient ==
    ASSUME NEW a \in Nat, NEW b \in Nat \ {0}, NEW c \in Nat
    PROVE  a \div b \in Nat /\ (c <= a \div b <=> b * c <= a)
<1>1. PICK q \in Nat : q = a \div b
  OBVIOUS
<1>2. b * q <= a /\ a < b * q + b
  BY <1>1
<1>3. c <= q => b * c <= b * q
  OBVIOUS
<1>4. c > q => b * c >= b * q + b
  OBVIOUS
<1>5. b * c \in Nat /\ b * q \in Nat
  OBVIOUS
<1> QED
  BY <1>1, <1>2, <1>3, <1>4, <1>5

\* The F1 of a class with E cases that are expected, P predicted and B both, where
\* there are n cases in all.
LEMMA RatioFacts ==
    ASSUME NEW u \in Nat \ {0}, NEW E \in Nat, NEW P \in Nat, NEW B \in Nat, NEW n \in Nat,
           B <= E, B <= P, E + P > 0, E <= n, P <= n, 4 * n <= u
    PROVE  LET q == (u * 2 * B) \div (E + P)
           IN  /\ q \in 0 .. u
               /\ q = u <=> (B = E /\ B = P)
               /\ q = 0 <=> B = 0
               /\ q # 0 => q >= 4
<1> DEFINE a == u * 2 * B
           b == E + P
           q == a \div b
<1>1. a \in Nat /\ b \in Nat \ {0}
  OBVIOUS
<1>2. 2 * B <= b /\ b <= 2 * n
  OBVIOUS
<1>3. a = u * (2 * B)
  OBVIOUS
<1>4. a <= u * b
  BY <1>1, <1>2, <1>3
<1>5. q \in Nat /\ \A c \in Nat : c <= q <=> b * c <= a
  <2> HIDE DEF a, b
  <2> QED
    BY <1>1, Quotient
<1>6. q <= u
  <2>1. b * (u + 1) = u * b + b /\ u * b \in Nat
    OBVIOUS
  <2>2. ~(b * (u + 1) <= a)
    <3> HIDE DEF a, b
    <3> QED
      BY <1>1, <1>4, <2>1
  <2>3. ~(u + 1 <= q)
    <3> HIDE DEF q, a, b
    <3> QED
      BY <1>5, <2>2
  <2> HIDE DEF q
  <2> QED
    BY <1>5, <2>3
<1>7. q = u <=> (B = E /\ B = P)
  <2>1. u <= q <=> b * u <= a
    BY <1>5
  <2>2. b * u <= u * (2 * B) <=> b <= 2 * B
    <3> HIDE DEF b
    <3>1. PICK d \in Nat : d = 2 * B
      OBVIOUS
    <3>2. b <= d => b * u <= u * d
      BY <1>1
    <3>3. b >= d + 1 => b * u >= u * d + u
      BY <1>1
    <3>4. b * u \in Nat /\ u * d \in Nat
      BY <1>1
    <3> QED
      BY <1>1, <3>1, <3>2, <3>3, <3>4
  <2>3. b <= 2 * B <=> (B = E /\ B = P)
    OBVIOUS
  <2> HIDE DEF q, a, b
  <2> QED
    BY <1>3, <1>5, <1>6, <2>1, <2>2, <2>3
<1>8. B = 0 => q = 0
  <2> SUFFICES ASSUME B = 0 PROVE q = 0
    OBVIOUS
  <2>1. a = 0
    OBVIOUS
  <2>2. ~(1 <= q)
    <3> HIDE DEF q, a, b
    <3> QED
      BY <1>1, <1>5, <2>1
  <2> HIDE DEF q
  <2> QED
    BY <1>5, <2>2
<1>9. B # 0 => q >= 4
  <2> SUFFICES ASSUME B # 0 PROVE 4 <= q
    BY <1>5
  <2>1. 2 * u <= u * (2 * B)
    <3>1. PICK d \in Nat : d = 2 * B
      OBVIOUS
    <3>2. d >= 2
      BY <3>1
    <3>3. u * 2 <= u * d
      BY <3>2
    <3> QED
      BY <3>1, <3>3
  <2>2. b * 4 <= 2 * u
    OBVIOUS
  <2>3. b * 4 <= a
    <3> HIDE DEF b
    <3> QED
      BY <1>1, <1>3, <2>1, <2>2
  <2> HIDE DEF a, b, q
  <2> QED
    BY <1>5, <2>3
<1> HIDE DEF q
<1>10. /\ q \in 0 .. u /\ (q = u <=> (B = E /\ B = P)) /\ (q = 0 <=> B = 0) /\ (q # 0 => q >= 4)
  BY <1>5, <1>6, <1>7, <1>8, <1>9
<1> QED
  BY <1>10 DEF q, a, b

\* Those that a reviewer would call right, of any results.
RightIn(rs) == {k \in Scored(rs) : rs[k].predicted = rs[k].case.expected_verdict}

LEMMA AddOne ==
    ASSUME NEW S, IsFiniteSet(S), NEW m \in Nat, NEW n \in Nat, Cardinality(S) <= m, n = m + 1, NEW x
    PROVE  IsFiniteSet(S \cup {x}) /\ Cardinality(S \cup {x}) <= n
<1>1. Cardinality(S) \in Nat
  BY FS_CardinalityType
<1>2. /\ IsFiniteSet(S \cup {x})
      /\ Cardinality(S \cup {x}) = Cardinality(S) \/ Cardinality(S \cup {x}) = Cardinality(S) + 1
  BY FS_AddElement
<1> QED
  BY <1>1, <1>2

LEMMA LabelCount == IsFiniteSet(Label) /\ Cardinality(Label) <= 4
<1> DEFINE A == {"satisfied"}
           B == A \cup {"partial"}
           C == B \cup {"gap"}
           D == C \cup {"not_assessable"}
<1>1. IsFiniteSet(A) /\ Cardinality(A) = 1
  BY FS_Singleton
<1> HIDE DEF A
<1>2. IsFiniteSet(B) /\ Cardinality(B) <= 2
  BY <1>1, AddOne
<1> HIDE DEF B
<1>3. IsFiniteSet(C) /\ Cardinality(C) <= 3
  <2>1. 2 \in Nat /\ 3 \in Nat /\ 3 = 2 + 1
    OBVIOUS
  <2>2. IsFiniteSet(B \cup {"gap"}) /\ Cardinality(B \cup {"gap"}) <= 3
    BY <1>2, <2>1, AddOne
  <2> QED
    BY <2>2
<1> HIDE DEF C
<1>4. IsFiniteSet(D) /\ Cardinality(D) <= 4
  BY <1>3, AddOne
<1>5. Label = D
  BY DEF Label, A, B, C, D
<1> QED
  BY <1>4, <1>5

LEMMA ResultFacts ==
    ASSUME NEW rs \in Seq(EvalCaseResult)
    PROVE  /\ DOMAIN rs = 1 .. Len(rs) /\ Len(rs) \in Nat
           /\ IsFiniteSet(DOMAIN rs) /\ Cardinality(DOMAIN rs) = Len(rs)
           /\ \A k \in DOMAIN rs : /\ rs[k].case \in GoldenCase
                                   /\ rs[k].case.expected_verdict \in Label
                                   /\ rs[k].predicted \in Label \cup {None}
           /\ Scored(rs) \subseteq DOMAIN rs /\ RightIn(rs) \subseteq Scored(rs)
           /\ Present(rs) \subseteq Label
<1>1. DOMAIN rs = 1 .. Len(rs) /\ Len(rs) \in Nat /\ \A k \in DOMAIN rs : rs[k] \in EvalCaseResult
  OBVIOUS
<1>2. IsFiniteSet(DOMAIN rs) /\ Cardinality(DOMAIN rs) = Len(rs)
  <2>1. IsFiniteSet(1 .. Len(rs)) /\ Cardinality(1 .. Len(rs)) = IF 1 > Len(rs) THEN 0 ELSE Len(rs) - 1 + 1
    BY <1>1, FS_Interval
  <2> QED
    BY <1>1, <2>1
<1>3. \A k \in DOMAIN rs : /\ rs[k].case \in GoldenCase
                           /\ rs[k].case.expected_verdict \in Label
                           /\ rs[k].predicted \in Label \cup {None}
  BY <1>1 DEF EvalCaseResult, GoldenCase
<1>4. Scored(rs) \subseteq DOMAIN rs /\ RightIn(rs) \subseteq Scored(rs)
  BY DEF Scored, RightIn
<1>5. Present(rs) \subseteq Label
  BY <1>3 DEF Present, Scored
<1> QED
  BY <1>1, <1>2, <1>3, <1>4, <1>5

LEMMA F1Facts ==
    ASSUME NEW rs \in Seq(EvalCaseResult), 4 * Len(rs) <= Unit, NEW l \in Present(rs)
    PROVE  LET expected  == {k \in Scored(rs) : rs[k].case.expected_verdict = l}
               predicted == {k \in Scored(rs) : rs[k].predicted = l}
           IN  /\ F1(rs, l) \in 0 .. Unit
               /\ F1(rs, l) = Unit <=> expected = predicted
               /\ F1(rs, l) = 0 <=> expected \cap predicted = {}
               /\ F1(rs, l) # 0 => F1(rs, l) >= 4
<1> DEFINE expected  == {k \in Scored(rs) : rs[k].case.expected_verdict = l}
           predicted == {k \in Scored(rs) : rs[k].predicted = l}
           both == expected \cap predicted
           E == Cardinality(expected)
           P == Cardinality(predicted)
           B == Cardinality(both)
<1>1. /\ expected \in SUBSET DOMAIN rs /\ predicted \in SUBSET DOMAIN rs
      /\ both \in SUBSET expected /\ both \in SUBSET predicted
  BY ResultFacts
<1>2. expected \cup predicted # {}
  BY DEF Present
<1>3. F1(rs, l) = (Unit * 2 * B) \div (E + P)
  BY DEF F1
<1> HIDE DEF expected, predicted, both
<1>4. /\ IsFiniteSet(expected) /\ IsFiniteSet(predicted) /\ IsFiniteSet(both)
      /\ E <= Len(rs) /\ P <= Len(rs) /\ B <= E /\ B <= P
      /\ E = B => expected = both
      /\ P = B => predicted = both
  <2>1. IsFiniteSet(DOMAIN rs) /\ Cardinality(DOMAIN rs) = Len(rs)
    BY ResultFacts
  <2>2. IsFiniteSet(expected) /\ E <= Len(rs) /\ IsFiniteSet(predicted) /\ P <= Len(rs)
    BY <1>1, <2>1, FS_Subset
  <2> QED
    BY <1>1, <2>2, FS_Subset
<1>5. E \in Nat /\ P \in Nat /\ B \in Nat
  BY <1>4, FS_CardinalityType
<1>6. (E = 0 <=> expected = {}) /\ (P = 0 <=> predicted = {}) /\ (B = 0 <=> both = {})
  BY <1>4, FS_EmptySet
<1>7. both = expected /\ both = predicted <=> expected = predicted
  BY DEF both
<1>8. Len(rs) \in Nat /\ Unit \in Nat \ {0} /\ E + P > 0
  <2>1. E # 0 \/ P # 0
    BY <1>2, <1>6
  <2>2. E + P > 0
    <3> HIDE DEF E, P
    <3> QED
      BY <1>5, <2>1
  <2>3. Len(rs) \in Nat
    OBVIOUS
  <2>4. Unit \in Nat \ {0}
    BY ThresholdsAssumption
  <2> QED
    BY <2>2, <2>3, <2>4
<1> DEFINE q == (Unit * 2 * B) \div (E + P)
<1>9. /\ q \in 0 .. Unit
      /\ q = Unit <=> (B = E /\ B = P)
      /\ q = 0 <=> B = 0
      /\ q # 0 => q >= 4
  <2> HIDE DEF E, P, B
  <2> QED
    BY <1>4, <1>5, <1>8, RatioFacts
<1>10. (B = E /\ B = P) <=> expected = predicted
  BY <1>4, <1>7
<1> HIDE DEF q, E, P, B
<1>11. /\ F1(rs, l) \in 0 .. Unit
       /\ F1(rs, l) = Unit <=> expected = predicted
       /\ F1(rs, l) = 0 <=> both = {}
       /\ F1(rs, l) # 0 => F1(rs, l) >= 4
  BY <1>3, <1>6, <1>9, <1>10 DEF q
<1> QED
  BY <1>11 DEF expected, predicted, both

\* The score lies between zero and one; it is one when all scored cases are right, and
\* zero when none is.
LEMMA ScoreFacts ==
    ASSUME NEW rs \in Seq(EvalCaseResult), 4 * Len(rs) <= Unit
    PROVE  /\ MacroF1(rs) \in 0 .. Unit
           /\ Scored(rs) # {} =>
                 /\ MacroF1(rs) = Unit <=> RightIn(rs) = Scored(rs)
                 /\ MacroF1(rs) = 0 <=> RightIn(rs) = {}
<1>1. Unit \in Nat \ {0}
  BY ThresholdsAssumption
<1>2. CASE Scored(rs) = {}
  BY <1>1, <1>2 DEF MacroF1
<1>3. CASE Scored(rs) # {}
  <2> DEFINE S == Present(rs)
             f == [l \in S |-> F1(rs, l)]
             n == Cardinality(S)
             t == Total(f, S)
             score == MacroF1(rs)
  <2>1. score = t \div n
    BY <1>3 DEF MacroF1, Mean, Total
  <2>2. IsFiniteSet(S) /\ S # {} /\ n \in Nat /\ n <= 4 /\ n # 0
    <3>1. S # {}
      BY <1>3 DEF Present
    <3>2. S \in SUBSET Label
      BY ResultFacts
    <3>3. IsFiniteSet(S) /\ n <= Cardinality(Label)
      BY <3>2, LabelCount, FS_Subset
    <3>4. n \in Nat /\ Cardinality(Label) \in Nat /\ n # 0
      BY <3>1, <3>3, LabelCount, FS_CardinalityType, FS_EmptySet
    <3> QED
      BY <3>1, <3>3, <3>4, LabelCount
  <2>3. f \in [S -> 0 .. Unit] /\ \A l \in S : f[l] = F1(rs, l)
    BY F1Facts
  <2> HIDE DEF S, f, score
  <2>4. /\ t \in Nat /\ t <= Unit * n
        /\ t = Unit * n <=> \A l \in S : f[l] = Unit
        /\ \A l \in S : f[l] <= t
        /\ t = 0 <=> \A l \in S : f[l] = 0
    BY <1>1, <2>2, <2>3, TotalFacts
  <2> HIDE DEF n, t
  <2>5. score \in Nat /\ \A c \in Nat : c <= score <=> n * c <= t
    BY <2>1, <2>2, <2>4, Quotient
  <2>6. score <= Unit
    <3>1. n * (Unit + 1) = Unit * n + n /\ Unit * n \in Nat /\ Unit + 1 \in Nat
      BY <1>1, <2>2
    <3>2. ~(n * (Unit + 1) <= t)
      BY <2>2, <2>4, <3>1
    <3>3. ~(Unit + 1 <= score)
      BY <2>5, <3>1, <3>2
    <3> QED
      BY <1>1, <2>5, <3>3
  <2>7. score = Unit <=> \A l \in S : F1(rs, l) = Unit
    <3>1. Unit <= score <=> n * Unit <= t
      BY <1>1, <2>5
    <3>2. n * Unit = Unit * n /\ Unit * n \in Nat
      BY <1>1, <2>2
    <3>3. score = Unit <=> t = Unit * n
      BY <1>1, <2>4, <2>5, <2>6, <3>1, <3>2
    <3> QED
      BY <2>3, <2>4, <3>3
  <2>8. score = 0 <=> \A l \in S : F1(rs, l) = 0
    <3>1. 1 <= score <=> n * 1 <= t
      BY <2>5
    <3>2. ASSUME NEW l \in S, F1(rs, l) # 0 PROVE score # 0
      <4>1. f[l] >= 4 /\ f[l] \in Nat
        BY <2>3, <3>2, F1Facts DEF S
      <4>2. n * 1 <= t
        BY <2>2, <2>4, <4>1
      <4> QED
        BY <2>5, <3>1, <4>2
    <3>3. ASSUME \A l \in S : F1(rs, l) = 0 PROVE score = 0
      <4>1. t = 0
        BY <2>3, <2>4, <3>3
      <4>2. ~(1 <= score)
        BY <2>2, <3>1, <4>1
      <4> QED
        BY <2>5, <4>2
    <3> QED
      BY <3>2, <3>3
  <2>9. \A l \in S : /\ F1(rs, l) = Unit <=> \A k \in Scored(rs) :
                            rs[k].case.expected_verdict = l <=> rs[k].predicted = l
                     /\ F1(rs, l) = 0 <=> \A k \in Scored(rs) :
                            ~(rs[k].case.expected_verdict = l /\ rs[k].predicted = l)
    <3> SUFFICES ASSUME NEW l \in S
                 PROVE  /\ F1(rs, l) = Unit <=> \A k \in Scored(rs) :
                              rs[k].case.expected_verdict = l <=> rs[k].predicted = l
                        /\ F1(rs, l) = 0 <=> \A k \in Scored(rs) :
                              ~(rs[k].case.expected_verdict = l /\ rs[k].predicted = l)
      OBVIOUS
    <3> DEFINE expected  == {k \in Scored(rs) : rs[k].case.expected_verdict = l}
               predicted == {k \in Scored(rs) : rs[k].predicted = l}
    <3>1. /\ F1(rs, l) = Unit <=> expected = predicted
          /\ F1(rs, l) = 0 <=> expected \cap predicted = {}
      BY F1Facts DEF S
    <3>2. /\ expected = predicted <=> \A k \in Scored(rs) :
                rs[k].case.expected_verdict = l <=> rs[k].predicted = l
          /\ expected \cap predicted = {} <=> \A k \in Scored(rs) :
                ~(rs[k].case.expected_verdict = l /\ rs[k].predicted = l)
      OBVIOUS
    <3> HIDE DEF expected, predicted
    <3> QED
      BY <3>1, <3>2
  <2>10. \A k \in Scored(rs) : rs[k].case.expected_verdict \in S
    BY DEF S, Present
  <2>11. score = Unit <=> RightIn(rs) = Scored(rs)
    BY <2>7, <2>9, <2>10 DEF RightIn
  <2>12. score = 0 <=> RightIn(rs) = {}
    BY <2>8, <2>9, <2>10 DEF RightIn
  <2> QED
    BY <1>1, <2>5, <2>6, <2>11, <2>12 DEF score
<1> QED
  BY <1>2, <1>3

-----------------------------------------------------------------------------
(* The inductive invariant *)

\* What the variables hold, and that nothing has happened before the cases are there.
Typed ==
    /\ golden \in GoldenSets \cup {Malformed}
    /\ threshold \in Thresholds \cup {Invalid}
    /\ DOMAIN answers = Fixture
    /\ results \in Seq(EvalCaseResult)
    /\ cases = None => /\ results = <<>> /\ report = None
                       /\ \A f \in Fixture : answers[f] = None
    /\ cases # None => Configured /\ cases = VerifiedCases(golden)

\* A result belongs to a fixture that has been assessed, and says what came of it.
Own ==
    \A k \in DOMAIN results :
        LET c == results[k].case
        IN  /\ answers[c.repo_fixture] # None
            /\ results[k].predicted # None =>
                  /\ answers[c.repo_fixture] \notin {NoDirectory, RaisedError}
                  /\ answers[c.repo_fixture][c.control_id] = results[k].predicted

\* The results are those of the cases that are no longer pending, and of no others.
Counted ==
    cases # None =>
        /\ \A c \in SE!ToSet(golden) :
              Occurrences(c, CasesIn(results))
                  = IF c \in SE!ToSet(cases) /\ answers[c.repo_fixture] # None
                    THEN Occurrences(c, cases) ELSE 0
        /\ Len(results) + Len(Pending) <= Len(cases)

\* The report is about the results of all the cases, and the exit status tells of it.
Told ==
    /\ report # None =>
          /\ cases # None /\ Pending = <<>>
          /\ report = EvalReport(results, threshold)
          /\ exit = IF report.passed THEN 0 ELSE 1
    /\ report = None => exit \in {None, 2}

EvaluationInv == Typed /\ Own /\ Counted /\ Told

\* The verified cases of a set: those, as often as the set has them.
LEMMA VerifiedFacts ==
    ASSUME NEW cs \in Seq(GoldenCase)
    PROVE  /\ VerifiedCases(cs) \in Seq(GoldenCase)
           /\ Len(VerifiedCases(cs)) \in Nat /\ Len(VerifiedCases(cs)) <= Len(cs)
           /\ SE!ToSet(VerifiedCases(cs)) = {c \in SE!ToSet(cs) : c.human_verified}
           /\ \A c : Occurrences(c, VerifiedCases(cs))
                       = IF c \in SE!ToSet(cs) /\ c.human_verified THEN Occurrences(c, cs) ELSE 0
<1> DEFINE T == {c \in SE!ToSet(cs) : c.human_verified}
<1>1. VerifiedCases(cs) = Filter(cs, T)
  BY DEF VerifiedCases
<1> HIDE DEF T
<1>2. /\ Filter(cs, T) \in Seq(GoldenCase)
      /\ SE!ToSet(Filter(cs, T)) = SE!ToSet(cs) \cap T
      /\ \A c : Occurrences(c, Filter(cs, T)) = IF c \in T THEN Occurrences(c, cs) ELSE 0
  BY FilterType, FilterRange, OccurrencesFilter
<1>3. Len(Filter(cs, T)) \in Nat /\ Len(Filter(cs, T)) <= Len(cs)
  <2>1. T \cap {} = {}
    OBVIOUS
  <2> QED
    BY <2>1, FilterLength
<1> QED
  BY <1>1, <1>2, <1>3 DEF T

LEMMA CasesFacts ==
    ASSUME Typed, cases # None
    PROVE  /\ golden \in GoldenSets /\ golden \in Seq(GoldenCase)
           /\ threshold \in Thresholds
           /\ cases \in Seq(GoldenCase)
           /\ cases = VerifiedCases(golden)
<1>1. golden \in GoldenSets /\ threshold \in Thresholds /\ cases = VerifiedCases(golden)
  BY DEF Typed, Configured
<1>2. golden \in Seq(GoldenCase)
  BY <1>1, GoldenSetsAssumption
<1> QED
  BY <1>1, <1>2, VerifiedFacts

\* The cases of fixtures without an answer.
LEMMA PendingFacts ==
    ASSUME NEW cs \in Seq(GoldenCase), NEW ans
    PROVE  LET pending == Filter(cs, {c \in SE!ToSet(cs) : ans[c.repo_fixture] = None})
           IN  /\ pending \in Seq(GoldenCase)
               /\ SE!ToSet(pending) = {c \in SE!ToSet(cs) : ans[c.repo_fixture] = None}
               /\ Len(pending) \in Nat /\ Len(pending) <= Len(cs)
<1> DEFINE T == {c \in SE!ToSet(cs) : ans[c.repo_fixture] = None}
           pending == Filter(cs, T)
<1> HIDE DEF T
<1>1. pending \in Seq(GoldenCase) /\ SE!ToSet(pending) = SE!ToSet(cs) \cap T
  BY FilterType, FilterRange
<1>2. Len(pending) \in Nat /\ Len(pending) <= Len(cs)
  <2>1. T \cap {} = {}
    OBVIOUS
  <2> QED
    BY <2>1, FilterLength
<1> HIDE DEF pending
<1> QED
  BY <1>1, <1>2 DEF T, pending

LEMMA EvaluationInit == Init => EvaluationInv
<1> SUFFICES ASSUME Init PROVE EvaluationInv
  OBVIOUS
<1>1. cases = None /\ results = <<>> /\ report = None /\ exit = None
  BY DEF Init
<1>2. Typed
  BY DEF Init, Typed
<1>3. Own
  BY <1>1 DEF Own
<1>4. Counted /\ Told
  BY <1>1 DEF Counted, Told
<1> QED
  BY <1>2, <1>3, <1>4 DEF EvaluationInv

LEMMA RefuseKeeps == EvaluationInv /\ Refuse => EvaluationInv'
<1> SUFFICES ASSUME EvaluationInv, Refuse PROVE EvaluationInv'
  OBVIOUS
<1>1. /\ cases = None /\ exit' = 2
      /\ UNCHANGED <<golden, threshold, chat_model, cases, results, report, answers>>
  BY DEF Refuse
<1>2. Typed'
  BY <1>1 DEF EvaluationInv, Typed, Configured
<1>3. Own'
  BY <1>1 DEF EvaluationInv, Own
<1>4. Counted'
  BY <1>1 DEF Counted
<1>5. Told'
  BY <1>1 DEF EvaluationInv, Typed, Told
<1> QED
  BY <1>2, <1>3, <1>4, <1>5 DEF EvaluationInv

LEMMA LoadKeeps == EvaluationInv /\ Load => EvaluationInv'
<1> SUFFICES ASSUME EvaluationInv, Load PROVE EvaluationInv'
  OBVIOUS
<1>1. /\ cases = None /\ Configured /\ cases' = VerifiedCases(golden)
      /\ UNCHANGED <<golden, threshold, chat_model, results, report, exit, answers>>
  BY DEF Load
<1>2. results = <<>> /\ report = None
  BY <1>1 DEF EvaluationInv, Typed
<1>3. Typed'
  <2>1. Configured'
    BY <1>1 DEF Configured
  <2> QED
    BY <1>1, <1>2, <2>1 DEF EvaluationInv, Typed
<1>4. Own'
  BY <1>1, <1>2 DEF Own
<1>5. Counted'
  <2>1. golden \in Seq(GoldenCase)
    BY <1>1, GoldenSetsAssumption DEF EvaluationInv, Typed, Configured
  <2>2. cases' \in Seq(GoldenCase)
    BY <1>1, <2>1, VerifiedFacts
  <2>3. \A c \in SE!ToSet(cases') : answers'[c.repo_fixture] = None
    <3>1. \A c \in SE!ToSet(cases') : c \in GoldenCase
      BY <2>2 DEF SE!ToSet
    <3>2. \A f \in Fixture : answers[f] = None
      BY <1>1 DEF EvaluationInv, Typed
    <3> QED
      BY <1>1, <3>1, <3>2 DEF GoldenCase
  <2>4. CasesIn(results') = <<>> /\ Len(results') = 0
    BY <1>1, <1>2 DEF CasesIn
  <2>5. Len(Pending') \in Nat /\ Len(Pending') <= Len(cases')
    BY <2>2, PendingFacts DEF Pending
  <2>6. \A c : Occurrences(c, CasesIn(results')) = 0
    BY <2>4, OccurrencesEmpty
  <2> QED
    BY <2>3, <2>4, <2>5, <2>6 DEF Counted
<1>6. Told'
  BY <1>1, <1>2 DEF EvaluationInv, Told
<1> QED
  BY <1>3, <1>4, <1>5, <1>6 DEF EvaluationInv

\* An answer settles the cases of its fixture: they are no longer pending, the others
\* still are.
OpenCases(cs, ans) == Filter(cs, {c \in SE!ToSet(cs) : ans[c.repo_fixture] = None})

LEMMA Settled ==
    ASSUME NEW cs \in Seq(GoldenCase), NEW ans, DOMAIN ans = Fixture,
           NEW f \in Fixture, ans[f] = None, NEW answer, answer # None
    PROVE  Len(OpenCases(cs, ans))
              = Len(OpenCases(cs, [ans EXCEPT ![f] = answer])) + Len(CasesOf(f, cs))
<1> DEFINE T == {c \in SE!ToSet(cs) : [ans EXCEPT ![f] = answer][c.repo_fixture] = None}
           U == {c \in SE!ToSet(cs) : c.repo_fixture = f}
           V == {c \in SE!ToSet(cs) : ans[c.repo_fixture] = None}
<1>1. \A c \in SE!ToSet(cs) : c.repo_fixture \in Fixture
  <2>1. \A c \in SE!ToSet(cs) : c \in GoldenCase
    BY DEF SE!ToSet
  <2> QED
    BY <2>1 DEF GoldenCase
<1>2. T \cap U = {}
  OBVIOUS
<1>3. T \cup U = V
  BY <1>1
<1> HIDE DEF T, U, V
<1>4. Len(Filter(cs, T \cup U)) = Len(Filter(cs, T)) + Len(Filter(cs, U))
  BY <1>2, FilterLength
<1>5. Len(Filter(cs, V)) = Len(Filter(cs, T)) + Len(Filter(cs, U))
  BY <1>3, <1>4
<1> QED
  BY <1>5 DEF T, U, V, CasesOf, OpenCases

LEMMA AssessKeeps == EvaluationInv /\ Assess => EvaluationInv'
<1> SUFFICES ASSUME EvaluationInv, Assess PROVE EvaluationInv'
  OBVIOUS
<1>1. /\ cases # None /\ exit = None /\ Pending # <<>>
      /\ UNCHANGED <<golden, threshold, chat_model, cases, report, exit>>
  BY DEF Assess, Running
<1>2. PICK f : f = Head(Pending).repo_fixture
  OBVIOUS
<1>3. PICK answer \in Answer(ControlIdsOf(f, cases)) :
          answers' = [answers EXCEPT ![f] = answer] /\ results' = results \o Paired(f, cases, answer)
  BY <1>2 DEF Assess
<1>4. /\ golden \in Seq(GoldenCase) /\ cases \in Seq(GoldenCase) /\ cases = VerifiedCases(golden)
      /\ results \in Seq(EvalCaseResult) /\ DOMAIN answers = Fixture
  BY <1>1, CasesFacts DEF EvaluationInv, Typed
<1>5. f \in Fixture /\ answers[f] = None
  <2>1. PICK p : p = Pending
    OBVIOUS
  <2>2. /\ p \in Seq(GoldenCase)
        /\ SE!ToSet(p) = {c \in SE!ToSet(cases) : answers[c.repo_fixture] = None}
    BY <1>4, <2>1, PendingFacts DEF Pending
  <2>3. p # <<>>
    BY <1>1, <2>1
  <2>4. Head(p) \in GoldenCase /\ Head(p) \in SE!ToSet(p)
    BY <2>2, <2>3 DEF SE!ToSet
  <2> QED
    BY <1>2, <2>1, <2>2, <2>4 DEF GoldenCase
<1>6. answer # None
  <2>1. ControlIdsOf(f, cases) \in SUBSET ControlIds
    <3>1. \A c \in SE!ToSet(CasesOf(f, cases)) : c \in GoldenCase
      BY <1>4, CasesOfFacts DEF SE!ToSet
    <3> QED
      BY <3>1 DEF ControlIdsOf, GoldenCase
  <2> QED
    BY <2>1, NoneAssumption DEF Answer
<1>7. PICK new : new = Paired(f, cases, answer)
  OBVIOUS
<1>8. /\ new \in Seq(EvalCaseResult)
      /\ CasesIn(new) = CasesOf(f, cases)
      /\ Len(new) = Len(CasesOf(f, cases))
      /\ \A k \in DOMAIN new :
            /\ new[k].case.repo_fixture = f
            /\ new[k].predicted # None =>
                  /\ answer \notin {NoDirectory, RaisedError}
                  /\ answer[new[k].case.control_id] = new[k].predicted
  BY <1>4, <1>5, <1>7, PairedFacts
<1>9. /\ results' = results \o new /\ results' \in Seq(EvalCaseResult)
      /\ answers' = [answers EXCEPT ![f] = answer]
      /\ golden' = golden /\ cases' = cases
  BY <1>1, <1>3, <1>4, <1>7, <1>8
<1>10. Typed'
  <2>1. Configured'
    BY <1>1 DEF EvaluationInv, Typed, Configured
  <2> QED
    BY <1>1, <1>4, <1>9, <2>1 DEF EvaluationInv, Typed
<1>11. Own'
  <2> SUFFICES ASSUME NEW k \in DOMAIN results'
               PROVE  LET c == results'[k].case
                      IN  /\ answers'[c.repo_fixture] # None
                          /\ results'[k].predicted # None =>
                                /\ answers'[c.repo_fixture] \notin {NoDirectory, RaisedError}
                                /\ answers'[c.repo_fixture][c.control_id] = results'[k].predicted
    BY DEF Own
  <2>1. /\ Len(results) \in Nat /\ Len(new) \in Nat
        /\ DOMAIN results = 1 .. Len(results) /\ DOMAIN new = 1 .. Len(new)
        /\ DOMAIN results' = 1 .. Len(results) + Len(new)
        /\ \A i \in 1 .. Len(results) : results'[i] = results[i]
        /\ \A i \in 1 .. Len(new) : results'[Len(results) + i] = new[i]
    <3>1. PICK all : all = results \o new
      OBVIOUS
    <3>2. /\ Len(results) \in Nat /\ Len(new) \in Nat
          /\ DOMAIN results = 1 .. Len(results) /\ DOMAIN new = 1 .. Len(new)
          /\ DOMAIN all = 1 .. Len(results) + Len(new)
          /\ \A i \in 1 .. Len(results) : all[i] = results[i]
          /\ \A i \in 1 .. Len(new) : all[Len(results) + i] = new[i]
      <4>1. results \in Seq(EvalCaseResult) /\ new \in Seq(EvalCaseResult)
        BY <1>4, <1>8
      <4> QED
        BY <3>1, <4>1, ConcatFacts
    <3>3. results' = all
      BY <1>9, <3>1
    <3> QED
      BY <3>2, <3>3
  <2>2. CASE k \in 1 .. Len(results)
    <3>1. results'[k] = results[k] /\ k \in DOMAIN results
      BY <2>1, <2>2
    <3>2. PICK c : c = results[k].case
      OBVIOUS
    <3>3. c.repo_fixture \in Fixture
      <4>1. results[k] \in EvalCaseResult
        BY <1>4, <3>1
      <4>2. c \in GoldenCase
        BY <3>2, <4>1 DEF EvalCaseResult
      <4> QED
        BY <4>2 DEF GoldenCase
    <3>4. /\ answers[c.repo_fixture] # None
          /\ results[k].predicted # None =>
                /\ answers[c.repo_fixture] \notin {NoDirectory, RaisedError}
                /\ answers[c.repo_fixture][c.control_id] = results[k].predicted
      BY <3>1, <3>2 DEF EvaluationInv, Own
    <3>5. answers'[c.repo_fixture] = answers[c.repo_fixture]
      BY <1>4, <1>5, <1>9, <3>3, <3>4
    <3> QED
      BY <3>1, <3>2, <3>4, <3>5
  <2>3. CASE k \notin 1 .. Len(results)
    <3>1. PICK j \in 1 .. Len(new) : k = Len(results) + j
      <4>1. k - Len(results) \in 1 .. Len(new) /\ k = Len(results) + (k - Len(results))
        BY <2>1, <2>3
      <4> QED
        BY <4>1
    <3>2. results'[k] = new[j] /\ j \in DOMAIN new
      BY <2>1, <3>1
    <3>3. answers'[f] = answer
      BY <1>4, <1>5, <1>9
    <3>4. /\ new[j].case.repo_fixture = f
          /\ new[j].predicted # None =>
                /\ answer \notin {NoDirectory, RaisedError}
                /\ answer[new[j].case.control_id] = new[j].predicted
      BY <1>8, <3>2
    <3> QED
      BY <1>6, <3>2, <3>3, <3>4
  <2> QED
    BY <2>2, <2>3
<1>12. Counted'
  <2>1. ASSUME NEW c \in SE!ToSet(golden)
        PROVE  Occurrences(c, CasesIn(results'))
                  = IF c \in SE!ToSet(cases) /\ answers'[c.repo_fixture] # None
                    THEN Occurrences(c, cases) ELSE 0
    <3>1. c.repo_fixture \in Fixture
      <4>1. c \in GoldenCase
        BY <1>4 DEF SE!ToSet
      <4> QED
        BY <4>1 DEF GoldenCase
    <3>2. Occurrences(c, CasesIn(results'))
              = Occurrences(c, CasesIn(results)) + Occurrences(c, CasesIn(new))
      <4>1. CasesIn(results') = CasesIn(results) \o CasesIn(new)
        BY <1>4, <1>8, <1>9, CasesInConcat
      <4>2. CasesIn(results) \in Seq(GoldenCase) /\ CasesIn(new) \in Seq(GoldenCase)
        BY <1>4, <1>8, CasesInFacts
      <4> QED
        BY <4>1, <4>2, OccurrencesConcat
    <3>3. Occurrences(c, CasesIn(results))
              = IF c \in SE!ToSet(cases) /\ answers[c.repo_fixture] # None
                THEN Occurrences(c, cases) ELSE 0
      BY <1>1 DEF EvaluationInv, Counted
    <3>4. Occurrences(c, CasesIn(new))
              = IF c \in SE!ToSet(cases) /\ c.repo_fixture = f THEN Occurrences(c, cases) ELSE 0
      BY <1>4, <1>8, CasesOfFacts
    <3>5. Occurrences(c, cases) \in Nat
      BY <1>4, OccurrencesType
    <3>6. CASE c.repo_fixture = f
      <4>1. answers'[c.repo_fixture] # None /\ answers[c.repo_fixture] = None
        BY <1>4, <1>5, <1>6, <1>9, <3>6
      <4> QED
        BY <3>2, <3>3, <3>4, <3>5, <3>6, <4>1
    <3>7. CASE c.repo_fixture # f
      <4>1. answers'[c.repo_fixture] = answers[c.repo_fixture]
        BY <1>4, <1>5, <1>9, <3>1, <3>7
      <4> QED
        BY <3>2, <3>3, <3>4, <3>5, <3>7, <4>1
    <3> QED
      BY <3>6, <3>7
  <2>2. Len(results') + Len(Pending') <= Len(cases)
    <3>1. Len(results') = Len(results) + Len(new)
      <4>1. /\ results \o new \in Seq(EvalCaseResult)
            /\ DOMAIN (results \o new) = 1 .. Len(results) + Len(new)
            /\ Len(results) \in Nat /\ Len(new) \in Nat
        BY <1>4, <1>8, ConcatFacts
      <4>2. Len(results \o new) = Len(results) + Len(new)
        BY <4>1, LenProperties
      <4> QED
        BY <1>9, <4>2
    <3>2. Len(Pending) = Len(Pending') + Len(CasesOf(f, cases))
      <4>1. Pending = OpenCases(cases, answers) /\ Pending' = OpenCases(cases, answers')
        BY <1>9 DEF Pending, OpenCases
      <4>2. Len(OpenCases(cases, answers))
                = Len(OpenCases(cases, [answers EXCEPT ![f] = answer])) + Len(CasesOf(f, cases))
        BY <1>4, <1>5, <1>6, Settled
      <4> QED
        BY <1>9, <4>1, <4>2
    <3>3. Len(results) + Len(Pending) <= Len(cases)
      BY <1>1 DEF EvaluationInv, Counted
    <3>4. Len(Pending') \in Nat
      BY <1>4, <1>9, PendingFacts DEF Pending
    <3>5. Len(results) \in Nat /\ Len(new) \in Nat /\ Len(cases) \in Nat
      BY <1>4, <1>8
    <3> QED
      BY <1>8, <3>1, <3>2, <3>3, <3>4, <3>5
  <2> QED
    BY <1>9, <2>1, <2>2 DEF Counted
<1>13. Told'
  <2>1. report = None
    <3>1. 0 \in Int /\ 1 \in Int /\ None \notin Int
      BY NoneAssumption
    <3> QED
      BY <1>1, <3>1 DEF EvaluationInv, Told
  <2> QED
    BY <1>1, <2>1 DEF EvaluationInv, Told
<1> QED
  BY <1>10, <1>11, <1>12, <1>13 DEF EvaluationInv

\* A report is a report, and its score is not rounded below the first four decimals of a
\* threshold that it reaches.
LEMMA ReportFacts ==
    ASSUME NEW rs \in Seq(EvalCaseResult), 4 * Len(rs) <= Unit, NEW gate \in Nat
    PROVE  /\ EvalReport(rs, gate) # None
           /\ EvalReport(rs, gate).passed = Passed(rs, gate)
           /\ EvalReport(rs, gate).macro_f1 = Rounded(MacroF1(rs))
           /\ EvalReport(rs, gate).failures = DOMAIN rs \ RightIn(rs)
           /\ MacroF1(rs) >= gate => Rounded(MacroF1(rs)) >= (gate * 10000) \div Unit
<1> DEFINE score == MacroF1(rs)
           sum == score * 10000 + Unit \div 2
<1>1. Unit \in Nat \ {0} /\ score \in Nat
  BY ThresholdsAssumption, ScoreFacts
<1>2. Unit \div 2 \in Nat
  <2>1. Unit \in Nat /\ 2 \in Nat \ {0} /\ 0 \in Nat
    BY <1>1
  <2> QED
    BY <2>1, Quotient
<1>3. sum \in Nat
  <2> HIDE DEF score
  <2>1. score * 10000 \in Nat
    BY <1>1
  <2> QED
    BY <1>2, <2>1
<1>4. Rounded(score) = sum \div Unit
  BY DEF Rounded
<1>5. Rounded(score) \in Nat /\ (\A q \in Nat : q <= Rounded(score) <=> Unit * q <= sum)
  <2> HIDE DEF sum, score
  <2>1. sum \div Unit \in Nat /\ \A q \in Nat : q <= sum \div Unit <=> Unit * q <= sum
    BY <1>1, <1>3, Quotient
  <2> QED
    BY <1>4, <2>1
<1>6. score >= gate => Rounded(score) >= (gate * 10000) \div Unit
  <2>1. PICK half \in Nat : half = Unit \div 2
    BY <1>2
  <2>2. sum = score * 10000 + half
    BY <2>1
  <2>3. gate * 10000 \in Nat
    OBVIOUS
  <2>4. PICK q \in Nat : q = (gate * 10000) \div Unit /\ Unit * q <= gate * 10000
    <3>1. /\ (gate * 10000) \div Unit \in Nat
          /\ \A q \in Nat : q <= (gate * 10000) \div Unit <=> Unit * q <= gate * 10000
      BY <1>1, <2>3, Quotient
    <3> QED
      BY <3>1
  <2> HIDE DEF sum, score
  <2>5. ASSUME score >= gate PROVE Unit * q <= sum
    <3>1. gate * 10000 <= score * 10000
      BY <1>1, <2>5
    <3>2. Unit * q \in Nat
      BY <1>1
    <3> QED
      BY <1>1, <2>2, <2>4, <3>1, <3>2
  <2> QED
    BY <1>5, <2>4, <2>5
<1>7. /\ Cardinality(Scored(rs)) \in Nat /\ Cardinality(Errors(rs)) \in Nat
      /\ DOMAIN rs \subseteq Nat
  <2>1. IsFiniteSet(DOMAIN rs) /\ Scored(rs) \in SUBSET DOMAIN rs /\ Errors(rs) \in SUBSET DOMAIN rs
    BY ResultFacts DEF Errors
  <2>2. IsFiniteSet(Scored(rs)) /\ IsFiniteSet(Errors(rs))
    BY <2>1, FS_Subset
  <2>3. DOMAIN rs \subseteq Nat
    BY ResultFacts
  <2> QED
    BY <2>2, <2>3, FS_CardinalityType
<1>8. Passed(rs, gate) \in BOOLEAN
  BY DEF Passed
<1> DEFINE n == Cardinality(Scored(rs))
           m == Cardinality(Errors(rs))
           r == Rounded(score)
           p == Passed(rs, gate)
           failed == Errors(rs) \cup {k \in Scored(rs) : rs[k].predicted # rs[k].case.expected_verdict}
<1>9. failed = DOMAIN rs \ RightIn(rs) /\ failed \in SUBSET Nat
  <2>1. failed = DOMAIN rs \ RightIn(rs)
    BY ResultFacts DEF Errors, RightIn
  <2> QED
    BY <1>7, <2>1
<1>10. EvalReport(rs, gate)
          = [num_cases |-> n, num_errors |-> m, macro_f1 |-> r, passed |-> p, failures |-> failed]
  BY DEF EvalReport
<1>11. n \in Nat /\ m \in Nat /\ r \in Nat /\ p \in BOOLEAN
  BY <1>5, <1>7, <1>8
<1> HIDE DEF n, m, r, p, failed
<1>12. EvalReport(rs, gate) # None
  BY <1>9, <1>10, <1>11, NoneAssumption
<1>13. /\ EvalReport(rs, gate).passed = p /\ EvalReport(rs, gate).macro_f1 = r
       /\ EvalReport(rs, gate).failures = failed
  BY <1>10
<1> QED
  BY <1>6, <1>9, <1>12, <1>13 DEF r, p

\* The unit is fine enough for the results of an evaluation.
LEMMA ResultsFit ==
    ASSUME EvaluationInv, cases # None
    PROVE  results \in Seq(EvalCaseResult) /\ 4 * Len(results) <= Unit /\ threshold \in Nat
<1>1. /\ golden \in GoldenSets /\ golden \in Seq(GoldenCase) /\ threshold \in Thresholds
      /\ cases \in Seq(GoldenCase) /\ cases = VerifiedCases(golden)
  BY CasesFacts DEF EvaluationInv
<1>2. Len(cases) <= Len(golden) /\ Len(cases) \in Nat /\ Len(golden) \in Nat
  BY <1>1, VerifiedFacts
<1>3. results \in Seq(EvalCaseResult) /\ Len(results) \in Nat
  BY DEF EvaluationInv, Typed
<1>4. Len(results) + Len(Pending) <= Len(cases)
  BY DEF EvaluationInv, Counted
<1>5. Len(Pending) \in Nat
  BY <1>1, PendingFacts DEF Pending
<1>6. 4 * Len(golden) <= Unit /\ Unit \in Nat
  <2>1. 4 * Len(golden) <= Unit
    <3>1. golden \in GoldenSets
      BY <1>1
    <3> QED
      BY <3>1, UnitAssumption
  <2>2. Unit \in Nat
    BY ThresholdsAssumption
  <2> QED
    BY <2>1, <2>2
<1>7. threshold \in 0 .. Unit
  BY <1>1, ThresholdsAssumption
<1> QED
  BY <1>2, <1>3, <1>4, <1>5, <1>6, <1>7

LEMMA ReportKeeps == EvaluationInv /\ Report => EvaluationInv'
<1> SUFFICES ASSUME EvaluationInv, Report PROVE EvaluationInv'
  OBVIOUS
<1>1. /\ cases # None /\ Pending = <<>>
      /\ report' = EvalReport(results, threshold)
      /\ exit' = IF report'.passed THEN 0 ELSE 1
      /\ UNCHANGED <<golden, threshold, chat_model, cases, results, answers>>
  BY DEF Report, Running
<1>2. report' # None
  <2>1. results \in Seq(EvalCaseResult) /\ 4 * Len(results) <= Unit /\ threshold \in Nat
    BY <1>1, ResultsFit
  <2>2. EvalReport(results, threshold) # None
    BY <2>1, ReportFacts
  <2> QED
    BY <1>1, <2>2
<1>3. Typed'
  <2>1. Configured'
    BY <1>1 DEF EvaluationInv, Typed, Configured
  <2> QED
    BY <1>1, <2>1 DEF EvaluationInv, Typed
<1>4. Own'
  BY <1>1 DEF EvaluationInv, Own
<1>5. Pending' = Pending
  BY <1>1 DEF Pending
<1>6. Counted'
  BY <1>1, <1>5 DEF EvaluationInv, Counted
<1>7. Told'
  BY <1>1, <1>2, <1>5 DEF Told
<1> QED
  BY <1>3, <1>4, <1>6, <1>7 DEF EvaluationInv

\* A step keeps the invariant, and so does none.
LEMMA EvaluationStep == EvaluationInv /\ [Next]_vars => EvaluationInv'
<1> SUFFICES ASSUME EvaluationInv, [Next]_vars PROVE EvaluationInv'
  OBVIOUS
<1>1. CASE UNCHANGED vars
  <2>1. Pending' = Pending /\ Configured' = Configured
    BY <1>1 DEF vars, Pending, Configured
  <2>2. Typed' /\ Own'
    BY <1>1, <2>1 DEF EvaluationInv, Typed, Own, vars
  <2>3. Counted' /\ Told'
    BY <1>1, <2>1 DEF EvaluationInv, Counted, Told, vars
  <2> QED
    BY <2>2, <2>3 DEF EvaluationInv
<1> QED
  BY <1>1, RefuseKeeps, LoadKeeps, AssessKeeps, ReportKeeps DEF Next

THEOREM EvaluationInvHolds == Spec => []EvaluationInv
BY EvaluationInit, EvaluationStep, PTL DEF Spec

-----------------------------------------------------------------------------
(* The properties *)

\* A prediction is the verdict on the case's control in the case's own fixture: a step
\* of the harness pairs a fixture's answer with the cases of that fixture only.
THEOREM PredictionIsItsOwnHolds == Spec => []PredictionIsItsOwn
<1>1. EvaluationInv => PredictionIsItsOwn
  BY DEF EvaluationInv, Own, PredictionIsItsOwn
<1> QED
  BY <1>1, EvaluationInvHolds, PTL

\* A finished evaluation has as many results for a case as the golden set has cases
\* like it, when it is verified, and none otherwise; whatever the assessments did.
THEOREM NoCaseIsLostHolds == Spec => []NoCaseIsLost
<1>1. EvaluationInv => NoCaseIsLost
  <2> SUFFICES ASSUME EvaluationInv, report # None, NEW c \in SE!ToSet(golden)
               PROVE  Cardinality({k \in DOMAIN results : results[k].case = c})
                         = IF c.human_verified THEN Occurrences(c, golden) ELSE 0
    BY DEF NoCaseIsLost
  <2>1. cases # None /\ Pending = <<>>
    BY DEF EvaluationInv, Told
  <2>2. golden \in Seq(GoldenCase) /\ cases \in Seq(GoldenCase) /\ cases = VerifiedCases(golden)
    BY <2>1, CasesFacts DEF EvaluationInv
  <2>3. results \in Seq(EvalCaseResult)
    BY DEF EvaluationInv, Typed
  <2>4. \A d \in SE!ToSet(cases) : answers[d.repo_fixture] # None
    <3>1. SE!ToSet(Pending) = {d \in SE!ToSet(cases) : answers[d.repo_fixture] = None}
      BY <2>2, PendingFacts DEF Pending
    <3>2. SE!ToSet(Pending) = {}
      BY <2>1, ToSetEmpty
    <3> QED
      BY <3>1, <3>2
  <2>5. Occurrences(c, CasesIn(results))
            = IF c \in SE!ToSet(cases) /\ answers[c.repo_fixture] # None
              THEN Occurrences(c, cases) ELSE 0
    BY <2>1 DEF EvaluationInv, Counted
  <2>6. c \in SE!ToSet(cases) <=> c.human_verified
    BY <2>2, VerifiedFacts
  <2>7. Occurrences(c, cases) = IF c.human_verified THEN Occurrences(c, golden) ELSE 0
    BY <2>2, VerifiedFacts
  <2>8. Cardinality({k \in DOMAIN results : results[k].case = c}) = Occurrences(c, CasesIn(results))
    BY <2>3, CasesInFacts DEF Occurrences
  <2> QED
    BY <2>4, <2>5, <2>6, <2>7, <2>8
<1> QED
  BY <1>1, EvaluationInvHolds, PTL

\* The score of a finished evaluation is one when all that was scored is right, zero when
\* nothing is, and the listed failures are the others.
THEOREM ScoreIsFairHolds == Spec => []ScoreIsFair
<1>1. EvaluationInv => ScoreIsFair
  <2> SUFFICES ASSUME EvaluationInv, report # None, Scored(results) # {}
               PROVE  /\ MacroF1(results) = Unit <=> Right = Scored(results)
                      /\ MacroF1(results) = 0 <=> Right = {}
                      /\ report.failures = DOMAIN results \ Right
    BY DEF ScoreIsFair
  <2>1. cases # None /\ report = EvalReport(results, threshold)
    BY DEF EvaluationInv, Told
  <2>2. results \in Seq(EvalCaseResult) /\ 4 * Len(results) <= Unit /\ threshold \in Nat
    BY <2>1, ResultsFit
  <2>3. Right = RightIn(results)
    BY DEF Right, RightIn
  <2>4. /\ MacroF1(results) = Unit <=> RightIn(results) = Scored(results)
        /\ MacroF1(results) = 0 <=> RightIn(results) = {}
    BY <2>2, ScoreFacts
  <2>5. EvalReport(results, threshold).failures = DOMAIN results \ RightIn(results)
    BY <2>2, ReportFacts
  <2> QED
    BY <2>1, <2>3, <2>4, <2>5
<1> QED
  BY <1>1, EvaluationInvHolds, PTL

\* Status 0 means that every verified case has a verdict of its own fixture, that the
\* exact score reaches the threshold and the reported one its first four decimals, and
\* that a threshold of 1 let no mistake pass; and only a run with a report ends with 0 or
\* 1.
THEOREM GateIsHonestHolds == Spec => []GateIsHonest
<1>1. EvaluationInv => GateIsHonest
  <2> SUFFICES ASSUME EvaluationInv PROVE GateIsHonest
    OBVIOUS
  <2>1. exit \in {0, 1} <=> report # None
    <3>1. None # 0 /\ None # 1
      BY NoneAssumption
    <3> QED
      BY <3>1 DEF EvaluationInv, Told
  <2> SUFFICES ASSUME exit = 0
               PROVE  /\ \A c \in SE!ToSet(VerifiedCases(golden)) :
                            answers[c.repo_fixture] \notin {None, NoDirectory, RaisedError}
                            /\ answers[c.repo_fixture][c.control_id] # None
                      /\ MacroF1(results) >= threshold
                      /\ report.macro_f1 >= (threshold * 10000) \div Unit
                      /\ threshold = Unit => report.failures = {}
    BY <2>1 DEF GateIsHonest
  <2>2. /\ cases # None /\ Pending = <<>>
        /\ report = EvalReport(results, threshold) /\ report.passed
    BY <2>1 DEF EvaluationInv, Told
  <2>3. results \in Seq(EvalCaseResult) /\ 4 * Len(results) <= Unit /\ threshold \in Nat
    BY <2>2, ResultsFit
  <2>4. /\ Passed(results, threshold)
        /\ report.macro_f1 = Rounded(MacroF1(results))
        /\ report.failures = DOMAIN results \ RightIn(results)
        /\ MacroF1(results) >= threshold =>
              Rounded(MacroF1(results)) >= (threshold * 10000) \div Unit
    BY <2>2, <2>3, ReportFacts
  <2>5. /\ Scored(results) # {} /\ Errors(results) = {}
        /\ MacroF1(results) >= threshold
    BY <2>4 DEF Passed
  <2>6. \A k \in DOMAIN results : results[k].predicted # None
    BY <2>5 DEF Errors, Scored
  <2>7. ASSUME NEW c \in SE!ToSet(VerifiedCases(golden))
        PROVE  /\ answers[c.repo_fixture] \notin {None, NoDirectory, RaisedError}
               /\ answers[c.repo_fixture][c.control_id] # None
    <3>1. /\ golden \in Seq(GoldenCase) /\ cases \in Seq(GoldenCase)
          /\ cases = VerifiedCases(golden)
      BY <2>2, CasesFacts DEF EvaluationInv
    <3>2. c \in SE!ToSet(cases) /\ c \in SE!ToSet(golden)
      BY <3>1, VerifiedFacts
    <3>3. answers[c.repo_fixture] # None
      <4>1. SE!ToSet(Pending) = {d \in SE!ToSet(cases) : answers[d.repo_fixture] = None}
        BY <3>1, PendingFacts DEF Pending
      <4>2. SE!ToSet(Pending) = {}
        BY <2>2, ToSetEmpty
      <4> QED
        BY <3>2, <4>1, <4>2
    <3>4. Occurrences(c, CasesIn(results)) = Occurrences(c, cases)
      BY <2>2, <3>2, <3>3 DEF EvaluationInv, Counted
    <3>5. Occurrences(c, cases) # 0
      BY <3>1, <3>2, OccurrencesType
    <3>6. CasesIn(results) \in Seq(GoldenCase)
      BY <2>3, CasesInFacts
    <3>7. c \in SE!ToSet(CasesIn(results))
      BY <3>4, <3>5, <3>6, OccurrencesType
    <3>8. PICK k \in DOMAIN results : results[k].case = c
      BY <3>7 DEF SE!ToSet, CasesIn
    <3>9. results[k].predicted # None
      BY <2>6
    <3> QED
      BY <3>3, <3>8, <3>9 DEF EvaluationInv, Own
  <2>8. threshold = Unit => report.failures = {}
    <3> SUFFICES ASSUME threshold = Unit PROVE report.failures = {}
      OBVIOUS
    <3>1. MacroF1(results) \in 0 .. Unit
      BY <2>3, ScoreFacts
    <3>2. MacroF1(results) = Unit
      <4>1. PICK score \in 0 .. Unit : score = MacroF1(results)
        BY <3>1
      <4>2. score >= Unit /\ Unit \in Nat
        BY <2>5, <4>1, ThresholdsAssumption
      <4>3. score = Unit
        BY <4>2
      <4> QED
        BY <4>1, <4>3
    <3>3. RightIn(results) = Scored(results)
      BY <2>3, <2>5, <3>2, ScoreFacts
    <3>4. DOMAIN results \ Scored(results) = {}
      BY <2>5 DEF Errors
    <3> QED
      BY <2>4, <3>3, <3>4
  <2> QED
    BY <2>4, <2>5, <2>7, <2>8
<1> QED
  BY <1>1, EvaluationInvHolds, PTL

=============================================================================
