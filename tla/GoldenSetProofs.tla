----------------------------- MODULE GoldenSetProofs -----------------------------
(***************************************************************************)
(* Proof that reviewed cases are safe, and that the golden set is          *)
(* well-formed, for any number of generator runs, any fixtures and         *)
(* controls, and any sequence of edits by the reviewer.                    *)
(***************************************************************************)
EXTENDS GoldenSet, ListLemmas

\* The stages after the overwrite check.
Allowed == {"model", "generate", "merge", "open", "write"}

\* A run that was let through has been forced, or there was nothing verified that its
\* check could have seen.
Permitted == \A g \in Generators : pc[g] \in Allowed => args[g].force \/ checked[g] = {}

IInv ==
    /\ file = [state |-> file.state, cases |-> file.cases]
    /\ pc \in [Generators -> Stages]
    /\ DOMAIN checked = Generators
    /\ args \in [Generators -> Invocations]
    /\ Permitted

-----------------------------------------------------------------------------
\* Nothing is permitted in the beginning.
LEMMA InitIInv == Init => IInv
BY FirstFilesAssumption DEF Init, IInv, Permitted, Stages, Ended, Allowed

\* The edits of the reviewer, and what no step of a run changes of the others.
LEMMA EditStep ==
    ASSUME IInv, (\E i \in DOMAIN file.cases : Review(i)) \/ Slip
    PROVE  IInv' /\ Verified(file) \subseteq Verified(file')
<1> USE DEF IInv
<1>1. UNCHANGED <<pc, args, checked>>
  BY DEF Review, Slip, Edit, memory
<1>2. ASSUME Slip PROVE IInv' /\ Verified(file) \subseteq Verified(file')
  <2>1. file' = [file EXCEPT !.state = IF @ = "valid" THEN "invalid" ELSE "valid"]
    BY <1>2 DEF Slip
  <2>2. file'.cases = file.cases /\ file' = [state |-> file'.state, cases |-> file'.cases]
    BY <2>1
  <2> QED
    BY <1>1, <2>2 DEF Permitted, Verified, CasesOf
<1>3. ASSUME NEW i \in DOMAIN file.cases, Review(i)
      PROVE  IInv' /\ Verified(file) \subseteq Verified(file')
  <2>1. /\ ~file.cases[i].human_verified
        /\ file' = [file EXCEPT !.cases[i].human_verified = TRUE]
    BY <1>3 DEF Review
  <2>2. /\ file' = [state |-> file'.state, cases |-> file'.cases]
        /\ file'.cases = [file.cases EXCEPT ![i].human_verified = TRUE]
    BY <2>1
  <2>3. /\ DOMAIN file'.cases = DOMAIN file.cases
        /\ \A j \in DOMAIN file.cases : j # i => file'.cases[j] = file.cases[j]
    BY <2>2
  <2>4. Verified(file) \subseteq Verified(file')
    BY <2>1, <2>3 DEF Verified, CasesOf, SE!ToSet
  <2> QED
    BY <1>1, <2>2, <2>4 DEF Permitted
<1> QED
  BY <1>2, <1>3

\* The steps of a run: only the check lets it through, and only opening and writing
\* change the file.
LEMMA RunStep ==
    ASSUME IInv, NEW g \in Generators, Run(g) \/ Killed(g)
    PROVE  /\ IInv'
           /\ file' = file \/ (pc[g] \in {"open", "write"} /\ pc'[g] # pc[g])
<1> USE DEF IInv, Step
<1>1. CASE Check(g)
  <2>1. /\ pc[g] = "check" /\ file' = file /\ args' = args
        /\ pc' = [pc EXCEPT ![g] = IF RefuseOverwrite(file, args[g].force)
                                   THEN "2" ELSE "model"]
        /\ checked' = [checked EXCEPT ![g] =
              IF Loads(file) /\ ~args[g].force THEN Verified(file) ELSE {}]
    BY <1>1 DEF Check, memory
  <2>2. pc'[g] = "model" => args'[g].force \/ checked'[g] = {}
    BY <2>1 DEF RefuseOverwrite
  <2>3. Permitted'
    BY <2>1, <2>2 DEF Permitted, Allowed
  <2> QED
    BY <2>1, <2>3 DEF Stages, Ended
<1>2. CASE Open(g) \/ Write(g) \/ CutShort(g)
  <2>1. /\ pc[g] \in {"open", "write"} /\ pc'[g] # pc[g] /\ args' = args
        /\ pc' \in [Generators -> Stages]
        /\ \A h \in Generators : h # g => pc'[h] = pc[h]
    BY <1>2 DEF Open, Write, CutShort, Forget, memory, Stages, Ended
  <2>2. file' = [state |-> file'.state, cases |-> file'.cases]
    <3>1. \E st, cs : file' = [state |-> st, cases |-> cs]
      <4>1. CASE Open(g)
        BY <4>1 DEF Open
      <4>2. CASE Write(g)
        BY <4>2 DEF Write
      <4>3. CASE CutShort(g)
        BY <4>3 DEF CutShort
      <4> QED
        BY <1>2, <4>1, <4>2, <4>3
    <3>2. PICK st, cs : file' = [state |-> st, cases |-> cs]
      BY <3>1
    <3> QED
      BY <3>2
  <2>3. DOMAIN checked' = Generators /\ Permitted'
    <3>1. CASE Open(g)
      BY <2>1, <3>1 DEF Open, Permitted, Allowed
    <3>2. CASE Write(g) \/ CutShort(g)
      <4>1. checked' = [checked EXCEPT ![g] = {}]
        BY <3>2 DEF Write, CutShort, Forget
      <4> QED
        BY <2>1, <4>1 DEF Permitted
    <3> QED
      BY <1>2, <3>1, <3>2
  <2> QED
    BY <2>1, <2>2, <2>3
<1>3. CASE Start(g) \/ DryRun(g) \/ Prepare(g) \/ Generate(g) \/ GenerateRaises(g) \/ Merge(g)
           \/ Killed(g)
  <2>1. file' = file /\ args' = args
    BY <1>3 DEF Start, DryRun, Prepare, Generate, GenerateRaises, Merge, Killed, Forget, memory
  <2>2. checked' = checked \/ checked' = [checked EXCEPT ![g] = {}]
    BY <1>3 DEF Start, DryRun, Prepare, Generate, GenerateRaises, Merge, Killed, Forget, observed
  <2>3. /\ pc' \in [Generators -> Stages]
        /\ \A h \in Generators : h # g => pc'[h] = pc[h]
        /\ pc'[g] \in Allowed => pc[g] \in Allowed
    BY <1>3 DEF Start, DryRun, Prepare, Generate, GenerateRaises, Merge, Killed, Stages, Ended,
                Allowed
  <2>4. Permitted'
    BY <2>1, <2>2, <2>3 DEF Permitted
  <2> QED
    BY <2>1, <2>2, <2>3, <2>4
<1> QED
  BY <1>1, <1>2, <1>3 DEF Run

\* The invariant and what every step does to a verified case.
LEMMA NextStep ==
    ASSUME IInv, [Next]_vars
    PROVE  /\ IInv'
           /\ \A c \in Verified(file) \ Verified(file') :
                 \E g \in Generators :
                     /\ pc[g] \in {"open", "write"} /\ pc'[g] # pc[g]
                     /\ args[g].force \/ c \notin checked[g]
<1>1. ASSUME NEW g \in Generators, Run(g) \/ Killed(g)
      PROVE  /\ IInv'
             /\ file' = file \/ (pc[g] \in {"open", "write"} /\ pc'[g] # pc[g]
                                 /\ (args[g].force \/ checked[g] = {}))
  BY <1>1, RunStep DEF IInv, Permitted, Allowed
<1>2. ASSUME (\E i \in DOMAIN file.cases : Review(i)) \/ Slip
      PROVE  IInv' /\ Verified(file) \subseteq Verified(file')
  BY <1>2, EditStep
<1>3. ASSUME UNCHANGED vars PROVE IInv' /\ file' = file
  BY <1>3 DEF vars, memory, observed, IInv, Permitted
<1> QED
  BY <1>1, <1>2, <1>3 DEF Next

\* A verified case leaves the file only through a run that was forced, or one whose
\* overwrite check could not have seen it.
THEOREM ReviewIsSafeHolds == Spec => ReviewIsSafe
BY InitIInv, NextStep, PTL DEF Spec, ReviewIsSafe

-----------------------------------------------------------------------------
(* The cases *)

FirstCases == UNION {SE!ToSet(f.cases) : f \in FirstFiles}

Case == [repo_fixture   : SE!ToSet(Fixtures) \cup {c.repo_fixture : c \in FirstCases},
         control_id     : Controls \cup {c.control_id : c \in FirstCases},
         number         : Nat,
         human_verified : BOOLEAN,
         by             : Generators \cup {c.by : c \in FirstCases}]

\* A case is the n-th of its fixture.
Nth == [c \in Case |-> <<c.repo_fixture, c.number>>]

\* The cases of a fixture are all of one run.
OneRun(cs) == \A c, d \in cs : c.repo_fixture = d.repo_fixture => c.by = d.by

\* What generate_candidates makes of the relevant controls.
Candidates(g, fixtures, relevant) ==
    LET names == Generated(fixtures)
    IN  SE!FlattenSeq([i \in DOMAIN names |-> Labelled(g, names[i], relevant[names[i]])])

LEMMA LabelledFacts ==
    ASSUME NEW g \in Generators, NEW fixture \in SE!ToSet(Fixtures),
           NEW relevant \in Selections
    PROVE  /\ Labelled(g, fixture, relevant) \in Seq(Case)
           /\ Distinct(Labelled(g, fixture, relevant), Nth)
           /\ \A c \in SE!ToSet(Labelled(g, fixture, relevant)) :
                 c \in Case /\ ~c.human_verified /\ c.repo_fixture = fixture /\ c.by = g
<1> DEFINE new == Labelled(g, fixture, relevant)
           Made(i) == GoldenCase(fixture, relevant[i], i, g)
<1>1. /\ relevant \in Seq(Controls)
      /\ Len(relevant) \in Nat /\ DOMAIN relevant = 1 .. Len(relevant)
      /\ \A i \in 1 .. Len(relevant) : relevant[i] \in Controls
  BY GoldenSetAssumption
<1>2. new = [i \in 1 .. Len(relevant) |-> Made(i)]
  BY <1>1 DEF Labelled
<1>3. \A i \in 1 .. Len(relevant) :
          /\ Made(i) \in Case /\ Made(i).repo_fixture = fixture /\ Made(i).number = i
          /\ ~Made(i).human_verified /\ Made(i).by = g
  BY <1>1 DEF GoldenCase, Case
<1> HIDE DEF new, Made
<1>4. new \in Seq(Case)
  BY <1>1, <1>2, <1>3
<1>5. Distinct(new, Nth)
  <2> SUFFICES ASSUME NEW i \in 1 .. Len(relevant), NEW j \in 1 .. Len(relevant),
                      Nth[new[i]] = Nth[new[j]]
               PROVE  i = j
    BY <1>2 DEF Distinct
  <2>1. Nth[new[i]] = <<fixture, i>> /\ Nth[new[j]] = <<fixture, j>>
    BY <1>2, <1>3 DEF Nth
  <2>2. <<fixture, i>> = <<fixture, j>>
    BY <2>1, Zenon
  <2>3. <<fixture, i>>[2] = <<fixture, j>>[2]
    BY <2>2, Zenon
  <2> QED
    BY <2>3
<1>6. \A c \in SE!ToSet(new) :
          c \in Case /\ ~c.human_verified /\ c.repo_fixture = fixture /\ c.by = g
  BY <1>2, <1>3 DEF SE!ToSet
<1> QED
  BY <1>4, <1>5, <1>6 DEF new

LEMMA CandidatesFacts ==
    ASSUME NEW g \in Generators, NEW fixtures,
           NEW relevant \in [SE!ToSet(Fixtures) -> Selections]
    PROVE  LET new == Candidates(g, fixtures, relevant)
           IN  /\ new \in Seq(Case)
               /\ Distinct(new, Nth)
               /\ \A c \in SE!ToSet(new) :
                     /\ ~c.human_verified /\ c.by = g
                     /\ fixtures # {} => c.repo_fixture \in fixtures
<1> DEFINE wanted == {x \in SE!ToSet(Fixtures) : fixtures = {} \/ x \in fixtures}
           names == Generated(fixtures)
           id == [x \in SE!ToSet(Fixtures) |-> x]
           parts == [i \in DOMAIN names |-> Labelled(g, names[i], relevant[names[i]])]
           new == Candidates(g, fixtures, relevant)
<1>1. Fixtures \in Seq(SE!ToSet(Fixtures)) /\ Distinct(Fixtures, id)
  <2>1. Fixtures \in Seq(SE!ToSet(Fixtures))
    BY GoldenSetAssumption
  <2>2. \A i \in DOMAIN Fixtures : Fixtures[i] \in SE!ToSet(Fixtures)
    BY DEF SE!ToSet
  <2> QED
    BY <2>1, <2>2, GoldenSetAssumption DEF Distinct
<1>2. /\ names \in Seq(SE!ToSet(Fixtures)) /\ Distinct(names, id)
      /\ SE!ToSet(names) \subseteq wanted
  <2>1. names = Filter(Fixtures, wanted)
    BY DEF Generated
  <2> HIDE DEF id, names, wanted
  <2> QED
    BY <1>1, <2>1, FilterType, FilterDistinct, FilterRange
<1>3. Len(names) \in Nat /\ DOMAIN names = 1 .. Len(names)
      /\ \A i \in 1 .. Len(names) : names[i] \in SE!ToSet(Fixtures) /\ names[i] \in wanted
  <2> HIDE DEF names, wanted
  <2> QED
    BY <1>2 DEF SE!ToSet
<1>4. \A i, j \in 1 .. Len(names) : names[i] = names[j] => i = j
  <2> HIDE DEF names
  <2> QED
    BY <1>2, <1>3 DEF Distinct
<1>5. new = SE!FlattenSeq(parts)
  BY DEF Candidates
<1> HIDE DEF names, wanted
<1>6. \A i \in 1 .. Len(names) :
          /\ parts[i] \in Seq(Case) /\ Distinct(parts[i], Nth)
          /\ \A c \in SE!ToSet(parts[i]) :
                c \in Case /\ ~c.human_verified /\ c.repo_fixture = names[i] /\ c.by = g
  <2> SUFFICES ASSUME NEW i \in 1 .. Len(names)
               PROVE  /\ parts[i] \in Seq(Case) /\ Distinct(parts[i], Nth)
                      /\ \A c \in SE!ToSet(parts[i]) :
                            /\ c \in Case /\ ~c.human_verified
                            /\ c.repo_fixture = names[i] /\ c.by = g
    OBVIOUS
  <2>1. parts[i] = Labelled(g, names[i], relevant[names[i]])
    BY <1>3
  <2>2. names[i] \in SE!ToSet(Fixtures) /\ relevant[names[i]] \in Selections
    BY <1>3
  <2> HIDE DEF parts
  <2> QED
    BY <2>1, <2>2, LabelledFacts
<1>7. parts \in Seq(Seq(Case)) /\ DOMAIN parts = 1 .. Len(names)
  BY <1>3, <1>6
<1> HIDE DEF parts, new
<1>8. \A i, j \in DOMAIN parts : i # j =>
         \A x \in SE!ToSet(parts[i]), y \in SE!ToSet(parts[j]) : Nth[x] # Nth[y]
  <2> SUFFICES ASSUME NEW i \in 1 .. Len(names), NEW j \in 1 .. Len(names), i # j,
                      NEW x \in SE!ToSet(parts[i]), NEW y \in SE!ToSet(parts[j])
               PROVE  Nth[x] # Nth[y]
    BY <1>7
  <2>1. x \in Case /\ y \in Case /\ x.repo_fixture # y.repo_fixture
    BY <1>4, <1>6
  <2> QED
    BY <2>1 DEF Nth
<1>9. Distinct(new, Nth)
  BY <1>5, <1>6, <1>7, <1>8, FlattenDistinct
<1>10. new \in Seq(Case)
  BY <1>5, <1>7, FlattenType
<1>11. ASSUME NEW c \in SE!ToSet(new)
       PROVE  ~c.human_verified /\ c.by = g /\ (fixtures # {} => c.repo_fixture \in fixtures)
  <2>1. PICK i \in DOMAIN parts : c \in SE!ToSet(parts[i])
    BY <1>5, <1>7, <1>11, FlattenRange
  <2>2. ~c.human_verified /\ c.by = g /\ c.repo_fixture = names[i] /\ names[i] \in wanted
    BY <1>3, <1>6, <1>7, <2>1
  <2> QED
    BY <2>2 DEF wanted
<1> QED
  BY <1>9, <1>10, <1>11 DEF new

\* What a merge keeps, and that it brings no second run to a fixture.
LEMMA MergeFacts ==
    ASSUME NEW f, f.cases \in Seq(Case), NEW new \in Seq(Case), NEW fixtures
    PROVE  LET all == MergeRegeneratedCases(f, new, fixtures)
           IN  /\ all \in Seq(Case)
               /\ SE!ToSet(all) = IF Loads(f) THEN OfOthers(f, fixtures) \cup SE!ToSet(new)
                                  ELSE SE!ToSet(new)
               /\ /\ Distinct(f.cases, Nth) /\ Distinct(new, Nth)
                  /\ \A c \in SE!ToSet(new) : c.repo_fixture \in fixtures
                  => Distinct(all, Nth)
               /\ /\ OneRun(CasesOf(f)) /\ OneRun(SE!ToSet(new))
                  /\ \A c \in SE!ToSet(new) : c.repo_fixture \in fixtures
                  => OneRun(SE!ToSet(all))
<1> DEFINE kept == Filter(f.cases, OfOthers(f, fixtures))
           all == MergeRegeneratedCases(f, new, fixtures)
<1>1. all = IF Loads(f) THEN kept \o new ELSE new
  BY DEF MergeRegeneratedCases
<1>2. kept \in Seq(Case) /\ SE!ToSet(kept) = OfOthers(f, fixtures)
  <2>1. SE!ToSet(kept) = SE!ToSet(f.cases) \cap OfOthers(f, fixtures)
    BY FilterRange
  <2>2. SE!ToSet(f.cases) \cap OfOthers(f, fixtures) = OfOthers(f, fixtures)
    BY DEF OfOthers, CasesOf
  <2> QED
    BY <2>1, <2>2, FilterType
<1>3. Distinct(f.cases, Nth) => Distinct(kept, Nth)
  BY FilterDistinct
<1> HIDE DEF kept, all
<1>4. /\ kept \o new \in Seq(Case)
      /\ SE!ToSet(kept \o new) = OfOthers(f, fixtures) \cup SE!ToSet(new)
  BY <1>2, ConcatRange, ConcatFacts
<1>5. ASSUME Distinct(f.cases, Nth), Distinct(new, Nth),
             \A c \in SE!ToSet(new) : c.repo_fixture \in fixtures
      PROVE  Distinct(kept \o new, Nth)
  <2>1. SE!ToSet(f.cases) \subseteq Case /\ SE!ToSet(new) \subseteq Case
    BY DEF SE!ToSet
  <2>2. \A x \in SE!ToSet(kept), y \in SE!ToSet(new) :
            x \in Case /\ y \in Case /\ x.repo_fixture # y.repo_fixture
    BY <1>2, <1>5, <2>1 DEF OfOthers, CasesOf
  <2>3. \A x \in SE!ToSet(kept), y \in SE!ToSet(new) : Nth[x] # Nth[y]
    BY <2>2 DEF Nth
  <2> QED
    BY <1>2, <1>3, <1>5, <2>3, ConcatDistinct
<1>6. ASSUME OneRun(CasesOf(f)), OneRun(SE!ToSet(new)),
             \A c \in SE!ToSet(new) : c.repo_fixture \in fixtures
      PROVE  OneRun(OfOthers(f, fixtures) \cup SE!ToSet(new))
  BY <1>6, Zenon DEF OneRun, OfOthers
<1> QED
  BY <1>1, <1>4, <1>5, <1>6 DEF all

-----------------------------------------------------------------------------
(* The inductive invariant *)

\* What is in the file and in the memory of the runs.
Typed ==
    /\ file = [state |-> file.state, cases |-> file.cases]
    /\ file.cases \in Seq(Case)
    /\ cases \in [Generators -> Seq(Case)]
    /\ pc \in [Generators -> Stages]
    /\ args \in [Generators -> Invocations]
    /\ DOMAIN merged = Generators

\* What a run has in memory: no verified label that nobody has reviewed; only cases of
\* its own, for its own fixtures, until it merges, and afterwards what it has merged;
\* the cases of a fixture of one run and numbered apart.
Fits(g) ==
    /\ \A c \in SE!ToSet(cases[g]) : c.human_verified => Label(c) \in reviewed
    /\ pc[g] \notin {"open", "write"} => merged[g] = {}
    /\ pc[g] = "merge" => \A c \in SE!ToSet(cases[g]) : c.repo_fixture \in args[g].fixtures
    /\ pc[g] \in {"open", "write"} =>
          \A c \in merged[g] : c.repo_fixture \in args[g].fixtures \/ c \in SE!ToSet(cases[g])
    /\ ~tangled => Distinct(cases[g], Nth) /\ OneRun(SE!ToSet(cases[g]))

FileFits ==
    VerifiedWasReviewed /\ (~tangled => Distinct(file.cases, Nth) /\ OneRun(CasesOf(file)))

\* The only run that has the file open sees it empty.
WritesAlone ==
    ~tangled => \A g \in Generators : Writing(g) =>
        file.cases = <<>> /\ \A h \in Generators : Writing(h) => h = g

CInv == Typed /\ FileFits /\ (\A g \in Generators : Fits(g)) /\ WritesAlone

-----------------------------------------------------------------------------
(* The steps *)

LEMMA InitCInv == Init => CInv
<1> SUFFICES ASSUME Init PROVE CInv
  OBVIOUS
<1>1. /\ file \in FirstFiles /\ args \in [Generators -> Invocations]
      /\ pc = [g \in Generators |-> "start"] /\ cases = [g \in Generators |-> <<>>]
      /\ reviewed = {Label(c) : c \in Verified(file)}
      /\ merged = [g \in Generators |-> {}]
  BY DEF Init
<1>2. /\ file = [state |-> file.state, cases |-> file.cases]
      /\ file.cases \in Seq(SE!ToSet(file.cases))
  BY <1>1, FirstFilesAssumption
<1>3. SE!ToSet(file.cases) \subseteq Case
  <2>1. SE!ToSet(file.cases) \subseteq FirstCases
    BY <1>1 DEF FirstCases
  <2> SUFFICES ASSUME NEW c \in SE!ToSet(file.cases) PROVE c \in Case
    OBVIOUS
  <2>2. /\ c = [repo_fixture |-> c.repo_fixture, control_id |-> c.control_id,
                number |-> c.number, human_verified |-> c.human_verified, by |-> c.by]
        /\ c.number \in Nat /\ c.human_verified \in BOOLEAN
    BY <1>1, FirstFilesAssumption
  <2> QED
    BY <2>1, <2>2 DEF Case
<1>4. file.cases \in Seq(Case)
  BY <1>2, <1>3
<1>5. \A i \in DOMAIN file.cases : file.cases[i] \in Case
  BY <1>4
<1>6. \A i, j \in DOMAIN file.cases :
          /\ Nth[file.cases[i]] = Nth[file.cases[j]] => i = j
          /\ file.cases[i].repo_fixture = file.cases[j].repo_fixture =>
                file.cases[i].by = file.cases[j].by
  BY <1>1, <1>5, FirstFilesAssumption DEF Nth
<1>7. Typed
  BY <1>1, <1>2, <1>4 DEF Typed, Stages
<1>8. FileFits
  BY <1>1, <1>6 DEF FileFits, VerifiedWasReviewed, Distinct, OneRun, CasesOf, SE!ToSet
<1>9. \A g \in Generators : Fits(g)
  BY <1>1 DEF Fits, Distinct, OneRun, SE!ToSet
<1>10. WritesAlone
  BY <1>1 DEF WritesAlone, Writing
<1> QED
  BY <1>7, <1>8, <1>9, <1>10 DEF CInv

\* A step of one run leaves what the others have in memory.
Touches(g) ==
    /\ args' = args /\ reviewed' = reviewed /\ (tangled => tangled')
    /\ \A h \in Generators : h # g =>
          pc'[h] = pc[h] /\ cases'[h] = cases[h] /\ merged'[h] = merged[h]

LEMMA OthersFit ==
    ASSUME CInv, NEW g \in Generators, Touches(g), Fits(g)'
    PROVE  \A h \in Generators : Fits(h)'
<1> SUFFICES ASSUME NEW h \in Generators, h # g PROVE Fits(h)'
  OBVIOUS
<1>1. Fits(h)
  BY DEF CInv
<1>2. /\ pc'[h] = pc[h] /\ cases'[h] = cases[h] /\ merged'[h] = merged[h]
      /\ args' = args /\ reviewed' = reviewed /\ (tangled => tangled')
  BY DEF Touches
<1> QED
  BY <1>1, <1>2 DEF Fits

\* A step that leaves the file, and does not open it.
LEMMA FileStays ==
    ASSUME CInv, NEW g \in Generators, Touches(g), file' = file, pc'[g] # "write"
    PROVE  FileFits' /\ WritesAlone'
<1>1. FileFits'
  BY DEF CInv, FileFits, VerifiedWasReviewed, CasesOf, Touches
<1>2. \A h \in Generators : Writing(h)' => Writing(h)
  BY DEF Touches, Writing
<1>3. ~tangled' => ~tangled
  BY DEF Touches
<1>4. WritesAlone
  BY DEF CInv
<1>5. WritesAlone'
  BY <1>2, <1>3, <1>4 DEF WritesAlone
<1> QED
  BY <1>1, <1>5

\* Steps before the generation.
LEMMA QuietStep ==
    ASSUME CInv, NEW g \in Generators,
           Start(g) \/ DryRun(g) \/ Check(g) \/ Prepare(g)
    PROVE  CInv'
<1>1. /\ pc' \in [Generators -> Stages] /\ pc'[g] \notin {"write", "open", "merge"}
      /\ pc[g] \notin {"open", "write"}
      /\ \A h \in Generators : h # g => pc'[h] = pc[h]
  BY DEF Start, DryRun, Check, Prepare, Step, CInv, Typed, Stages, Ended
<1>2. UNCHANGED <<file, cases, args, reviewed, merged, tangled>>
  BY DEF Start, DryRun, Check, Prepare, memory, observed
<1>3. Touches(g) /\ Typed'
  BY <1>1, <1>2 DEF Touches, CInv, Typed
<1>4. Fits(g)'
  <2>1. Fits(g)
    BY DEF CInv
  <2> QED
    BY <1>1, <1>2, <2>1 DEF Fits
<1> QED
  BY <1>1, <1>2, <1>3, <1>4, OthersFit, FileStays DEF CInv

\* A run that has ended, without having written, has forgotten everything.
LEMMA ForgetStep ==
    ASSUME CInv, NEW g \in Generators, Forget(g), pc' \in [Generators -> Stages],
           pc'[g] \in Ended, \A h \in Generators : h # g => pc'[h] = pc[h]
    PROVE  /\ Touches(g) /\ (\A h \in Generators : Fits(h)')
           /\ cases' \in [Generators -> Seq(Case)] /\ DOMAIN merged' = Generators
<1>1. /\ cases' = [cases EXCEPT ![g] = <<>>] /\ merged' = [merged EXCEPT ![g] = {}]
      /\ UNCHANGED <<args, reviewed, tangled>>
  BY DEF Forget
<1>2. cases \in [Generators -> Seq(Case)] /\ DOMAIN merged = Generators
  BY DEF CInv, Typed
<1>3. cases'[g] = <<>> /\ merged'[g] = {} /\ Touches(g)
  BY <1>1, <1>2 DEF Touches
<1>4. Fits(g)'
  BY <1>3 DEF Fits, Ended, Distinct, OneRun, SE!ToSet
<1>5. cases' \in [Generators -> Seq(Case)]
  <2>1. <<>> \in Seq(Case)
    OBVIOUS
  <2> QED
    BY <1>1, <1>2, <2>1
<1> QED
  BY <1>1, <1>2, <1>3, <1>4, <1>5, OthersFit

LEMMA AbandonStep ==
    ASSUME CInv, NEW g \in Generators, GenerateRaises(g) \/ Killed(g)
    PROVE  CInv'
<1>1. file' = file /\ Forget(g)
  BY DEF GenerateRaises, Killed
<1>2. /\ pc' \in [Generators -> Stages] /\ pc'[g] \in Ended /\ pc'[g] # "write"
      /\ \A h \in Generators : h # g => pc'[h] = pc[h]
  BY DEF GenerateRaises, Killed, Step, CInv, Typed, Stages, Ended
<1>3. /\ Touches(g) /\ (\A h \in Generators : Fits(h)')
      /\ cases' \in [Generators -> Seq(Case)] /\ DOMAIN merged' = Generators
  BY <1>1, <1>2, ForgetStep
<1>4. FileFits' /\ WritesAlone'
  BY <1>1, <1>2, <1>3, FileStays
<1>5. Typed'
  BY <1>1, <1>2, <1>3 DEF CInv, Typed, Touches
<1> QED
  BY <1>3, <1>4, <1>5 DEF CInv

LEMMA GenerateStep ==
    ASSUME CInv, NEW g \in Generators, Generate(g)
    PROVE  CInv'
<1> DEFINE fixtures == args[g].fixtures
<1>1. PICK relevant \in [SE!ToSet(Fixtures) -> Selections] :
          cases' = [cases EXCEPT ![g] = Candidates(g, fixtures, relevant)]
  BY DEF Generate, Candidates
<1>2. /\ pc[g] = "generate"
      /\ pc' = [pc EXCEPT ![g] = IF fixtures = {} THEN "open" ELSE "merge"]
      /\ UNCHANGED <<file, args, reviewed, merged, tangled>>
  BY DEF Generate, Step, observed
<1>3. PICK new : new = Candidates(g, fixtures, relevant)
  OBVIOUS
<1>4. /\ new \in Seq(Case) /\ Distinct(new, Nth)
      /\ \A c \in SE!ToSet(new) :
            ~c.human_verified /\ c.by = g /\ (fixtures # {} => c.repo_fixture \in fixtures)
  BY <1>3, CandidatesFacts
<1>5. /\ cases' = [cases EXCEPT ![g] = new] /\ cases'[g] = new
      /\ cases' \in [Generators -> Seq(Case)]
  BY <1>1, <1>3, <1>4 DEF CInv, Typed
<1>6. /\ pc' \in [Generators -> Stages] /\ pc'[g] # "write"
      /\ pc'[g] = "merge" => fixtures # {}
  BY <1>2 DEF CInv, Typed, Stages
<1>7. Touches(g)
  BY <1>2, <1>5 DEF Touches, CInv, Typed
<1>8. merged'[g] = {}
  BY <1>2 DEF CInv, Fits
<1>9. Fits(g)'
  BY <1>2, <1>4, <1>5, <1>6, <1>8 DEF Fits, OneRun
<1>10. Typed'
  BY <1>2, <1>5, <1>6 DEF CInv, Typed
<1> QED
  BY <1>2, <1>6, <1>7, <1>9, <1>10, OthersFit, FileStays DEF CInv

LEMMA MergeStep ==
    ASSUME CInv, NEW g \in Generators, Merge(g)
    PROVE  CInv'
<1> DEFINE fixtures == args[g].fixtures
           old == cases[g]
<1>1. PICK all : all = MergeRegeneratedCases(file, old, fixtures)
  OBVIOUS
<1>2. /\ pc[g] = "merge" /\ pc' = [pc EXCEPT ![g] = "open"]
      /\ cases' = [cases EXCEPT ![g] = all]
      /\ merged' = [merged EXCEPT ![g] = IF Loads(file) THEN CasesOf(file) ELSE {}]
      /\ UNCHANGED <<file, args, reviewed, tangled>>
  BY <1>1 DEF Merge, Step
<1>3. old \in Seq(Case) /\ file.cases \in Seq(Case)
  BY DEF CInv, Typed
<1>4. /\ all \in Seq(Case)
      /\ SE!ToSet(all) = IF Loads(file) THEN OfOthers(file, fixtures) \cup SE!ToSet(old)
                         ELSE SE!ToSet(old)
      /\ /\ Distinct(file.cases, Nth) /\ Distinct(old, Nth)
         /\ \A c \in SE!ToSet(old) : c.repo_fixture \in fixtures
         => Distinct(all, Nth)
      /\ /\ OneRun(CasesOf(file)) /\ OneRun(SE!ToSet(old))
         /\ \A c \in SE!ToSet(old) : c.repo_fixture \in fixtures
         => OneRun(SE!ToSet(all))
  <2> HIDE DEF old, fixtures
  <2> QED
    BY <1>1, <1>3, MergeFacts
<1>5. cases'[g] = all /\ cases' \in [Generators -> Seq(Case)]
  BY <1>2, <1>4 DEF CInv, Typed
<1>6. merged'[g] = IF Loads(file) THEN CasesOf(file) ELSE {}
  BY <1>2 DEF CInv, Typed
<1>7. pc'[g] = "open" /\ pc' \in [Generators -> Stages]
  BY <1>2 DEF CInv, Typed, Stages
<1>8. Touches(g)
  BY <1>2 DEF Touches, CInv, Typed
<1>9. Fits(g) /\ FileFits
  BY DEF CInv
<1>10. Fits(g)'
  <2>1. \A c \in SE!ToSet(all) : c.human_verified => Label(c) \in reviewed
    <3>1. \A c \in OfOthers(file, fixtures) : c.human_verified => c \in Verified(file)
      BY DEF OfOthers, Verified
    <3> QED
      BY <1>4, <1>9, <3>1 DEF Fits, FileFits, VerifiedWasReviewed
  <2>2. \A c \in merged'[g] : c.repo_fixture \in fixtures \/ c \in SE!ToSet(all)
    BY <1>4, <1>6 DEF OfOthers
  <2>3. ~tangled => Distinct(all, Nth) /\ OneRun(SE!ToSet(all))
    BY <1>2, <1>4, <1>9 DEF Fits, FileFits
  <2> QED
    BY <1>2, <1>5, <1>7, <2>1, <2>2, <2>3 DEF Fits
<1>11. Typed'
  BY <1>2, <1>5, <1>7 DEF CInv, Typed
<1> QED
  BY <1>2, <1>7, <1>8, <1>10, <1>11, OthersFit, FileStays DEF CInv

LEMMA OpenStep ==
    ASSUME CInv, NEW g \in Generators, Open(g)
    PROVE  CInv'
<1>1. /\ pc[g] = "open" /\ pc' = [pc EXCEPT ![g] = "write"]
      /\ file' = [state |-> "invalid", cases |-> <<>>]
      /\ tangled' = (tangled \/ \E h \in Generators : Writing(h))
      /\ UNCHANGED <<args, cases, reviewed, merged>>
  BY DEF Open, Step, memory
<1>2. pc'[g] = "write" /\ pc' \in [Generators -> Stages] /\ Touches(g)
  BY <1>1 DEF CInv, Typed, Stages, Touches
<1>3. file'.cases = <<>> /\ file'.cases \in Seq(Case)
  BY <1>1
<1>4. Fits(g)'
  <2>1. Fits(g)
    BY DEF CInv
  <2> QED
    BY <1>1, <1>2, <2>1 DEF Fits
<1>5. FileFits'
  BY <1>3 DEF FileFits, VerifiedWasReviewed, Verified, CasesOf, SE!ToSet, Distinct, OneRun
<1>6. WritesAlone'
  <2>1. ~tangled' => \A h \in Generators : Writing(h)' => h = g
    BY <1>1, <1>2 DEF Writing, Touches
  <2> QED
    BY <1>3, <2>1 DEF WritesAlone
<1>7. Typed'
  BY <1>1, <1>2, <1>3 DEF CInv, Typed
<1> QED
  BY <1>2, <1>4, <1>5, <1>6, <1>7, OthersFit DEF CInv

\* The file after a write, or a part of one: cases of the run that wrote, and then what
\* was there.
LEMMA WrittenStep ==
    ASSUME CInv, NEW g \in Generators, pc[g] = "write", Forget(g),
           pc' \in [Generators -> Stages], pc'[g] \in Ended,
           \A h \in Generators : h # g => pc'[h] = pc[h],
           file' = [state |-> file'.state, cases |-> file'.cases],
           file'.cases \in Seq(Case),
           SE!ToSet(file'.cases) \subseteq SE!ToSet(cases[g]) \cup SE!ToSet(file.cases),
           file.cases = <<>> => (Distinct(cases[g], Nth) => Distinct(file'.cases, Nth))
    PROVE  CInv'
<1>1. /\ Touches(g) /\ (\A h \in Generators : Fits(h)')
      /\ cases' \in [Generators -> Seq(Case)] /\ DOMAIN merged' = Generators
  BY ForgetStep
<1>2. reviewed' = reviewed /\ args' = args /\ tangled' = tangled
  BY DEF Forget
<1>3. Fits(g) /\ FileFits /\ WritesAlone
  BY DEF CInv
<1>4. VerifiedWasReviewed'
  <2>1. \A c \in SE!ToSet(file.cases) : c.human_verified => Label(c) \in reviewed
    BY <1>3 DEF FileFits, VerifiedWasReviewed, Verified, CasesOf
  <2>2. \A c \in SE!ToSet(cases[g]) : c.human_verified => Label(c) \in reviewed
    BY <1>3 DEF Fits
  <2>3. \A c \in SE!ToSet(file'.cases) : c.human_verified => Label(c) \in reviewed
    BY <2>1, <2>2
  <2> QED
    BY <1>2, <2>3 DEF VerifiedWasReviewed, Verified, CasesOf, Label
<1>5. ASSUME ~tangled PROVE Distinct(file'.cases, Nth) /\ OneRun(CasesOf(file'))
  <2>1. file.cases = <<>> /\ Distinct(cases[g], Nth) /\ OneRun(SE!ToSet(cases[g]))
    BY <1>3, <1>5 DEF Fits, WritesAlone, Writing
  <2>2. SE!ToSet(file.cases) = {}
    BY <2>1 DEF SE!ToSet
  <2>3. SE!ToSet(file'.cases) \subseteq SE!ToSet(cases[g])
    BY <2>2
  <2> QED
    BY <2>1, <2>3, Zenon DEF OneRun, CasesOf
<1>8. FileFits'
  BY <1>2, <1>4, <1>5 DEF FileFits
<1>6. WritesAlone'
  <2>1. \A h \in Generators : Writing(h)' => Writing(h) /\ h # g
    BY DEF Writing, Ended
  <2> QED
    BY <1>2, <1>3, <2>1 DEF WritesAlone, Writing
<1>7. Typed'
  BY <1>1, <1>2 DEF CInv, Typed
<1> QED
  BY <1>1, <1>6, <1>7, <1>8 DEF CInv

LEMMA WriteStep ==
    ASSUME CInv, NEW g \in Generators, Write(g)
    PROVE  CInv'
<1> DEFINE new == cases[g]
<1>1. PICK rest : rest = SubSeq(file.cases, Len(new) + 1, Len(file.cases))
  OBVIOUS
<1>2. PICK state : file' = [state |-> state, cases |-> new \o rest]
  <2>1. \E state \in IF rest = <<>> THEN {"valid"} ELSE {"valid", "invalid"} :
           file' = [state |-> state, cases |-> new \o rest]
    BY <1>1 DEF Write
  <2> QED
    BY <2>1
<1>3. /\ pc[g] = "write" /\ pc' = [pc EXCEPT ![g] = "0"] /\ Forget(g)
  BY DEF Write, Step
<1>4. /\ pc' \in [Generators -> Stages] /\ pc'[g] \in Ended
      /\ \A h \in Generators : h # g => pc'[h] = pc[h]
  BY <1>3 DEF CInv, Typed, Stages, Ended
<1>5. new \in Seq(Case) /\ file.cases \in Seq(Case)
  BY DEF CInv, Typed
<1>6. /\ rest \in Seq(Case) /\ SE!ToSet(rest) \subseteq SE!ToSet(file.cases)
      /\ file.cases = <<>> => rest = <<>>
  <2> HIDE DEF new
  <2>1. Len(new) + 1 \in Nat \ {0} /\ Len(file.cases) \in 0 .. Len(file.cases)
    BY <1>5
  <2>2. rest \in Seq(Case) /\ SE!ToSet(rest) \subseteq SE!ToSet(file.cases)
    BY <1>1, <1>5, <2>1, PartFacts
  <2>3. file.cases = <<>> => rest = <<>>
    <3> SUFFICES ASSUME file.cases = <<>> PROVE rest = <<>>
      OBVIOUS
    <3>1. SE!ToSet(rest) = {}
      BY <2>2, ToSetEmpty
    <3>2. DOMAIN rest = 1 .. Len(rest) /\ Len(rest) \in Nat
      BY <2>2
    <3>3. DOMAIN rest = {}
      BY <3>1 DEF SE!ToSet
    <3>4. Len(rest) = 0
      BY <3>2, <3>3
    <3> QED
      BY <2>2, <3>4, EmptySeq
  <2> QED
    BY <2>2, <2>3
<1>7. PICK all : all = new \o rest
  OBVIOUS
<1>8. /\ all \in Seq(Case) /\ SE!ToSet(all) \subseteq SE!ToSet(new) \cup SE!ToSet(file.cases)
      /\ file.cases = <<>> => all = new
  <2> HIDE DEF new
  <2> QED
    BY <1>5, <1>6, <1>7, ConcatFacts, ConcatRange, EmptyConcat
<1>9. file'.cases = all /\ file' = [state |-> file'.state, cases |-> file'.cases]
  BY <1>2, <1>7
<1> QED
  BY <1>3, <1>4, <1>8, <1>9, WrittenStep

LEMMA CutShortStep ==
    ASSUME CInv, NEW g \in Generators, CutShort(g)
    PROVE  CInv'
<1> DEFINE new == cases[g]
<1>1. PICK n \in 0 .. Len(new), state \in {"valid", "invalid"} :
          file' = [state |-> state, cases |-> SubSeq(new, 1, n)]
  <2>1. \E n \in 0 .. Len(new), state \in {"valid", "invalid"} :
            file' = [state |-> state, cases |-> SubSeq(new, 1, n)]
    BY DEF CutShort
  <2> QED
    BY <2>1
<1>2. PICK part : part = SubSeq(new, 1, n)
  OBVIOUS
<1>3. /\ pc[g] = "write" /\ Forget(g)
      /\ pc' \in [Generators -> Stages] /\ pc'[g] \in Ended
      /\ \A h \in Generators : h # g => pc'[h] = pc[h]
  BY DEF CutShort, Step, CInv, Typed, Stages, Ended
<1>4. new \in Seq(Case)
  BY DEF CInv, Typed
<1>5. /\ part \in Seq(Case) /\ SE!ToSet(part) \subseteq SE!ToSet(new)
      /\ Distinct(new, Nth) => Distinct(part, Nth)
  <2> HIDE DEF new
  <2> QED
    BY <1>2, <1>4, PartFacts
<1>6. file'.cases = part /\ file' = [state |-> file'.state, cases |-> file'.cases]
  BY <1>1, <1>2
<1> QED
  BY <1>3, <1>5, <1>6, WrittenStep

\* The reviewer changes what the file says of a case, and never what it judges.
LEMMA HandStep ==
    ASSUME CInv, (\E i \in DOMAIN file.cases : Review(i)) \/ Slip
    PROVE  CInv'
<1>1. file.cases # <<>> /\ UNCHANGED <<pc, args, cases, merged, tangled>>
  BY DEF Review, Slip, Edit, memory
<1>2. Typed /\ FileFits /\ WritesAlone /\ file.cases \in Seq(Case)
  BY DEF CInv, Typed
<1>3. ASSUME file' = [state |-> file'.state, cases |-> file'.cases],
             file'.cases \in Seq(Case), reviewed \subseteq reviewed',
             VerifiedWasReviewed',
             Distinct(file.cases, Nth) => Distinct(file'.cases, Nth),
             OneRun(CasesOf(file)) => OneRun(CasesOf(file'))
      PROVE  CInv'
  <2>1. Typed'
    BY <1>1, <1>2, <1>3 DEF Typed
  <2>2. FileFits'
    BY <1>1, <1>2, <1>3 DEF FileFits
  <2>3. \A g \in Generators : Fits(g)'
    <3> SUFFICES ASSUME NEW g \in Generators PROVE Fits(g)'
      OBVIOUS
    <3>1. Fits(g)
      BY DEF CInv
    <3> QED
      BY <1>1, <1>3, <3>1 DEF Fits, Label
  <2>4. WritesAlone'
    BY <1>1, <1>2 DEF WritesAlone, Writing
  <2> QED
    BY <2>1, <2>2, <2>3, <2>4 DEF CInv
<1>4. ASSUME Slip PROVE CInv'
  <2>1. /\ file' = [file EXCEPT !.state = IF @ = "valid" THEN "invalid" ELSE "valid"]
        /\ reviewed' = reviewed
    BY <1>4 DEF Slip
  <2>2. file'.cases = file.cases /\ file' = [state |-> file'.state, cases |-> file'.cases]
    BY <1>2, <2>1 DEF Typed
  <2>3. VerifiedWasReviewed'
    BY <1>2, <2>1, <2>2 DEF FileFits, VerifiedWasReviewed, Verified, CasesOf
  <2>4. CasesOf(file') = CasesOf(file)
    BY <2>2 DEF CasesOf
  <2> QED
    BY <1>2, <1>3, <2>1, <2>2, <2>3, <2>4
<1>5. ASSUME NEW i \in DOMAIN file.cases, Review(i) PROVE CInv'
  <2> DEFINE old == file.cases
             new == [old EXCEPT ![i].human_verified = TRUE]
  <2>1. /\ file' = [file EXCEPT !.cases[i].human_verified = TRUE]
        /\ reviewed' = reviewed \cup {Label(old[i])}
    BY <1>5 DEF Review
  <2>2. file' = [state |-> file'.state, cases |-> file'.cases] /\ file'.cases = new
    BY <1>2, <2>1 DEF Typed
  <2>3. old \in Seq(Case) /\ DOMAIN old = 1 .. Len(old) /\ Len(old) \in Nat
        /\ \A j \in DOMAIN old : old[j] \in Case
    BY <1>2
  <2>4. PICK c : c = [old[i] EXCEPT !.human_verified = TRUE]
    OBVIOUS
  <2>5. /\ c \in Case /\ Nth[c] = Nth[old[i]] /\ Label(c) = Label(old[i])
        /\ c.repo_fixture = old[i].repo_fixture /\ c.by = old[i].by
    <3>1. /\ c \in Case /\ c.repo_fixture = old[i].repo_fixture
          /\ c.control_id = old[i].control_id /\ c.number = old[i].number /\ c.by = old[i].by
      BY <2>3, <2>4 DEF Case
    <3> QED
      BY <2>3, <3>1 DEF Nth, Label
  <2>6. /\ new \in Seq(Case) /\ DOMAIN new = DOMAIN old
        /\ new[i] = c /\ \A j \in DOMAIN old : j # i => new[j] = old[j]
    <3>1. new = [old EXCEPT ![i] = c]
      BY <2>4
    <3> HIDE DEF new
    <3>2. DOMAIN new = DOMAIN old /\ new[i] = c /\ \A j \in DOMAIN old : j # i => new[j] = old[j]
      BY <3>1
    <3>3. new \in Seq(Case)
      BY <2>3, <2>5, <3>1, <3>2
    <3> QED
      BY <3>2, <3>3
  <2> HIDE DEF new
  <2>7. \A j \in DOMAIN old :
          /\ Nth[new[j]] = Nth[old[j]] /\ Label(new[j]) = Label(old[j])
          /\ new[j].repo_fixture = old[j].repo_fixture /\ new[j].by = old[j].by
    BY <2>5, <2>6
  <2> HIDE DEF new
  <2>8. Distinct(old, Nth) => Distinct(new, Nth)
    BY <2>6, <2>7 DEF Distinct
  <2>9. \A j \in DOMAIN new : new[j].human_verified => Label(new[j]) \in reviewed'
    <3>1. \A j \in DOMAIN old : old[j].human_verified => Label(old[j]) \in reviewed
      BY <1>2 DEF FileFits, VerifiedWasReviewed, Verified, CasesOf, SE!ToSet
    <3> QED
      BY <2>1, <2>6, <2>7, <3>1
  <2>10. VerifiedWasReviewed'
    <3>1. \A d \in SE!ToSet(new) : d.human_verified => Label(d) \in reviewed'
      BY <2>9 DEF SE!ToSet
    <3> QED
      BY <2>2, <3>1 DEF VerifiedWasReviewed, Verified, CasesOf, Label
  <2>11. OneRun(CasesOf(file)) => OneRun(CasesOf(file'))
    <3>1. ASSUME OneRun(CasesOf(file)), NEW x \in SE!ToSet(new), NEW y \in SE!ToSet(new),
                 x.repo_fixture = y.repo_fixture
          PROVE  x.by = y.by
      <4>1. PICK j \in DOMAIN old, k \in DOMAIN old : x = new[j] /\ y = new[k]
        BY <2>6 DEF SE!ToSet
      <4>2. old[j] \in CasesOf(file) /\ old[k] \in CasesOf(file)
        BY DEF CasesOf, SE!ToSet
      <4>3. old[j].repo_fixture = old[k].repo_fixture
        BY <2>7, <3>1, <4>1
      <4>4. old[j].by = old[k].by
        BY <3>1, <4>2, <4>3 DEF OneRun
      <4> QED
        BY <2>7, <4>1, <4>4
    <3>2. CasesOf(file') = SE!ToSet(new)
      BY <2>2 DEF CasesOf
    <3> QED
      BY <3>1, <3>2 DEF OneRun
  <2> QED
    BY <1>3, <2>1, <2>2, <2>6, <2>8, <2>10, <2>11
<1> QED
  BY <1>4, <1>5

LEMMA NextCInv ==
    ASSUME CInv, [Next]_vars
    PROVE  CInv'
<1>1. ASSUME NEW g \in Generators, Run(g) \/ Killed(g) PROVE CInv'
  BY <1>1, QuietStep, GenerateStep, AbandonStep, MergeStep, OpenStep, WriteStep, CutShortStep
     DEF Run
<1>2. ASSUME UNCHANGED vars PROVE CInv'
  <2>1. UNCHANGED <<file, pc, args, cases, reviewed, merged, tangled>>
    BY <1>2 DEF vars, memory, observed
  <2>2. \A g \in Generators : Fits(g)'
    BY <2>1 DEF CInv, Fits, Label
  <2> QED
    BY <2>1, <2>2 DEF CInv, Typed, FileFits, VerifiedWasReviewed, WritesAlone, Writing,
                      Verified, CasesOf
<1> QED
  BY <1>1, <1>2, HandStep DEF Next

-----------------------------------------------------------------------------
(* The theorems *)

LEMMA CInvImplies == CInv => VerifiedWasReviewed /\ MergeKeeps /\ OneRunPerFixture
<1> SUFFICES ASSUME CInv PROVE VerifiedWasReviewed /\ MergeKeeps /\ OneRunPerFixture
  OBVIOUS
<1>1. VerifiedWasReviewed
  BY DEF CInv, FileFits
<1>2. MergeKeeps
  BY DEF CInv, Fits, MergeKeeps
<1>3. OneRunPerFixture
  <2>1. \A i \in DOMAIN file.cases : file.cases[i] \in Case /\ file.cases[i] \in CasesOf(file)
    BY DEF CInv, Typed, CasesOf, SE!ToSet
  <2> SUFFICES ASSUME ~tangled, NEW i \in DOMAIN file.cases, NEW j \in DOMAIN file.cases,
                      file.cases[i].repo_fixture = file.cases[j].repo_fixture
               PROVE  /\ file.cases[i].by = file.cases[j].by
                      /\ file.cases[i].number = file.cases[j].number => i = j
    BY DEF OneRunPerFixture
  <2>2. Distinct(file.cases, Nth) /\ OneRun(CasesOf(file))
    BY DEF CInv, FileFits
  <2>3. file.cases[i].number = file.cases[j].number => Nth[file.cases[i]] = Nth[file.cases[j]]
    BY <2>1 DEF Nth
  <2> QED
    BY <2>1, <2>2, <2>3 DEF Distinct, OneRun
<1> QED
  BY <1>1, <1>2, <1>3

\* Every verified case carries a label that a human has seen.
THEOREM VerifiedWasReviewedHolds == Spec => []VerifiedWasReviewed
BY InitCInv, NextCInv, CInvImplies, PTL DEF Spec

\* What a run for some fixtures is about to write has every case that it loaded of the
\* others.
THEOREM MergeKeepsHolds == Spec => []MergeKeeps
BY InitCInv, NextCInv, CInvImplies, PTL DEF Spec

\* The cases of a fixture are of one run and numbered apart, unless two runs wrote at a
\* time: a control is judged twice only when the selection of that run named it twice.
THEOREM OneRunPerFixtureHolds == Spec => []OneRunPerFixture
BY InitCInv, NextCInv, CInvImplies, PTL DEF Spec

=============================================================================
