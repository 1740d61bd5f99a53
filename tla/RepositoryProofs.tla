--------------------------- MODULE RepositoryProofs ---------------------------
(***************************************************************************)
(* Proofs of the properties of Repository, for repositories of any number  *)
(* of files of any length, and for every line there may be. An inspection  *)
(* is one step, so that the invariant is only that what was found belongs  *)
(* to the repository; what has to be proved is what the operators compute. *)
(* In order: lines, the walk and its order; slices; features; files that   *)
(* are not read; the CI scan; absences; blocks; citations; listeners.      *)
(***************************************************************************)
EXTENDS Repository, ListLemmas, FiniteSetTheorems, TLAPS

-----------------------------------------------------------------------------
(* Lines and files *)

\* The smallest of a set of natural numbers.
LEMMA MinIsLeast ==
    ASSUME NEW S, S \subseteq Nat, S # {}
    PROVE  FE!Min(S) \in S /\ \A m \in S : FE!Min(S) <= m
<1>1. \E n \in S : \A m \in S : n <= m
  BY LeastNat
<1> QED
  BY <1>1 DEF FE!Min

\* The largest of a set of numbers up to a bound.
LEMMA MaxIsLargest ==
    ASSUME NEW n \in Nat, NEW S, S \subseteq 1 .. n, S # {}
    PROVE  FE!Max(S) \in S /\ \A m \in S : m <= FE!Max(S)
<1> DEFINE R == {n - m : m \in S}
<1>1. R \subseteq Nat /\ R # {}
  OBVIOUS
<1>2. PICK r \in R : \A q \in R : r <= q
  BY <1>1, LeastNat
<1>3. PICK k \in S : r = n - k
  BY <1>2
<1>4. ASSUME NEW m \in S PROVE m <= k
  <2>1. n - k <= n - m
    BY <1>2, <1>3
  <2> QED
    BY <2>1
<1>5. \E x \in S : \A y \in S : x >= y
  BY <1>3, <1>4
<1> QED
  BY <1>5 DEF FE!Max

\* What FirstLine tells: a line that matches, and the first, or that there is none.
LEMMA FirstLineFacts ==
    ASSUME NEW X, NEW lines \in Seq(X), NEW pattern
    PROVE  /\ FirstLine(lines, pattern) \in 0 .. Len(lines)
           /\ FirstLine(lines, pattern) # 0 =>
                 /\ FirstLine(lines, pattern) \in DOMAIN lines
                 /\ pattern \in lines[FirstLine(lines, pattern)].has
           /\ \A i \in DOMAIN lines : pattern \in lines[i].has =>
                 FirstLine(lines, pattern) \in 1 .. i
<1> DEFINE at == Matches(lines, pattern)
<1>1. DOMAIN lines = 1 .. Len(lines) /\ Len(lines) \in Nat
  OBVIOUS
<1>2. at = {i \in 1 .. Len(lines) : pattern \in lines[i].has}
  BY <1>1 DEF Matches
<1>3. at \subseteq Nat
  BY <1>1, <1>2
<1>4. FirstLine(lines, pattern) = IF at = {} THEN 0 ELSE FE!Min(at)
  BY DEF FirstLine
<1> HIDE DEF at
<1>5. CASE at = {}
  BY <1>1, <1>2, <1>4, <1>5
<1>6. CASE at # {}
  <2> DEFINE k == FE!Min(at)
  <2>1. k \in at /\ \A m \in at : k <= m
    BY <1>3, <1>6, MinIsLeast
  <2>2. FirstLine(lines, pattern) = k
    BY <1>4, <1>6
  <2> HIDE DEF k
  <2>3. k \in 1 .. Len(lines) /\ pattern \in lines[k].has
    BY <1>2, <2>1
  <2>4. ASSUME NEW i \in 1 .. Len(lines), pattern \in lines[i].has PROVE k \in 1 .. i
    <3>1. i \in at
      BY <1>2, <2>4
    <3> QED
      BY <1>1, <2>1, <2>3, <3>1
  <2>5. k \in 0 .. Len(lines)
    BY <1>1, <2>3
  <2> QED
    BY <1>1, <2>2, <2>3, <2>4, <2>5
<1> QED
  BY <1>5, <1>6

-----------------------------------------------------------------------------
(* The walk *)

\* What is known of a file of a repository.
LEMMA FileFacts ==
    ASSUME NEW f \in File
    PROVE  /\ f.lines \in Seq(Line) /\ Len(f.lines) \in Nat
           /\ DOMAIN f.lines = 1 .. Len(f.lines)
           /\ \A i \in 1 .. Len(f.lines) : f.lines[i].net \in Int
           /\ f.dirs \in Seq(STRING) /\ f.name \in STRING
           /\ Path(f) \in Seq(STRING)
           /\ {f.binary, f.gone, f.newline} \subseteq BOOLEAN
<1>1. f.lines \in Seq(Line) /\ f.dirs \in Seq(STRING) /\ f.name \in STRING
      /\ f.binary \in BOOLEAN /\ f.gone \in BOOLEAN /\ f.newline \in BOOLEAN
  BY DEF File
<1>2. \A i \in 1 .. Len(f.lines) : f.lines[i] \in Line
  BY <1>1
<1>3. \A i \in 1 .. Len(f.lines) : f.lines[i].net \in Int
  BY <1>2 DEF Line
<1>4. Path(f) \in Seq(STRING)
  BY <1>1 DEF Path
<1> QED
  BY <1>1, <1>3, <1>4

\* What the walk yields, in the words of the properties.
LEMMA YieldedIsNotLeftOut ==
    ASSUME NEW f \in File
    PROVE  Yielded(f) <=> ~LeftOut(f)
<1>1. DOMAIN f.dirs = 1 .. Len(f.dirs)
  BY FileFacts
<1>2. SE!ToSet(f.dirs) = {f.dirs[i] : i \in DOMAIN f.dirs}
  BY DEF SE!ToSet
<1>3. SE!ToSet(f.dirs) \cap DeniedDirs = {} <=>
         ~\E d \in DeniedDirs : \E i \in DOMAIN f.dirs : f.dirs[i] = d
  BY <1>2
<1>4. Len(f.lines) <= MaxFileBytes <=> ~(Len(f.lines) > MaxFileBytes)
  BY FileFacts, LoaderAssumption
<1>5. f.name \in AllowedNames \/ f.suffix \in AllowedExtensions
         <=> ~(f.name \notin AllowedNames /\ f.suffix \notin AllowedExtensions)
  OBVIOUS
<1> DEFINE denied == \E d \in DeniedDirs : \E i \in DOMAIN f.dirs : f.dirs[i] = d
           long == Len(f.lines) > MaxFileBytes
<1>6. /\ Yielded(f) <=> /\ ~denied
                        /\ f.link \notin {"outside", "dangling"}
                        /\ f.name \in AllowedNames \/ f.suffix \in AllowedExtensions
                        /\ ~long
                        /\ ~f.binary
      /\ LeftOut(f) <=> \/ denied
                        \/ f.link \in {"outside", "dangling"}
                        \/ f.name \notin AllowedNames /\ f.suffix \notin AllowedExtensions
                        \/ long
                        \/ f.binary
  BY <1>3, <1>4, Zenon DEF Yielded, LeftOut
<1> HIDE DEF denied, long
<1> QED
  BY <1>5, <1>6

\* The files of a repository, in any order.
FilesOf(r) == {r[i] : i \in DOMAIN r}

\* The files that the walk yields are those that it does not leave out.
LEMMA IterFacts ==
    ASSUME NEW r, IsRepository(r)
    PROVE  /\ IterRepoFiles(r) \in Seq(File)
           /\ SE!ToSet(IterRepoFiles(r)) = {f \in FilesOf(r) : ~LeftOut(f)}
           /\ FilesOf(r) \subseteq File
           /\ SE!ToSet(r) = FilesOf(r)
<1>1. r \in Seq(File)
  BY DEF IsRepository
<1> DEFINE T == {f \in SE!ToSet(r) : Yielded(f)}
<1>2. IterRepoFiles(r) = Filter(r, T)
  BY DEF IterRepoFiles
<1>3. SE!ToSet(r) = FilesOf(r)
  BY DEF SE!ToSet, FilesOf
<1>4. FilesOf(r) \subseteq File
  BY <1>1 DEF FilesOf
<1>5. T = {f \in FilesOf(r) : ~LeftOut(f)}
  BY <1>3, <1>4, YieldedIsNotLeftOut
<1> HIDE DEF T
<1>6. IterRepoFiles(r) \in Seq(File)
  BY <1>1, <1>2, FilterType
<1>7. SE!ToSet(IterRepoFiles(r)) = SE!ToSet(r) \cap T
  BY <1>1, <1>2, FilterRange
<1> QED
  BY <1>3, <1>4, <1>5, <1>6, <1>7

\* Files of one path are one file.
LEMMA PathsAreDistinct ==
    ASSUME NEW r, IsRepository(r), NEW f \in FilesOf(r), NEW g \in FilesOf(r),
           Path(f) = Path(g)
    PROVE  f = g
<1>1. PICK i \in DOMAIN r : f = r[i]
  BY DEF FilesOf
<1>2. PICK j \in DOMAIN r : g = r[j]
  BY DEF FilesOf
<1>3. i = j
  BY <1>1, <1>2 DEF IsRepository
<1> QED
  BY <1>1, <1>2, <1>3

-----------------------------------------------------------------------------
(* Slices *)

\* The larger and the smaller of two numbers.
LEMMA MaxOfTwo ==
    ASSUME NEW a \in Int, NEW b \in Int
    PROVE  FE!Max({a, b}) = IF a >= b THEN a ELSE b
BY DEF FE!Max

\* The smaller of two numbers.
LEMMA MinOfTwo ==
    ASSUME NEW a \in Int, NEW b \in Int
    PROVE  FE!Min({a, b}) = IF a <= b THEN a ELSE b
BY DEF FE!Min

\* The line at which the Python slice of a start and an end stops.
Stop(total, end) == IF end < 0 THEN (IF total + end > 0 THEN total + end ELSE 0)
                    ELSE IF end < total THEN end ELSE total

\* A Python slice that starts within the lines is a subsequence of them.
LEMMA PySliceIsSubSeq ==
    ASSUME NEW X, NEW lines \in Seq(X), NEW start \in Int, NEW end \in Int
    PROVE  PySlice(lines, start - 1, end) = SubSeq(lines, start, Stop(Len(lines), end))
<1>1. Len(lines) \in Nat
  OBVIOUS
<1>2. FE!Max({0, Len(lines) + end}) = IF 0 >= Len(lines) + end THEN 0 ELSE Len(lines) + end
  BY <1>1, MaxOfTwo
<1>3. FE!Min({Len(lines), end}) = IF Len(lines) <= end THEN Len(lines) ELSE end
  BY <1>1, MinOfTwo
<1>4. (IF end < 0 THEN FE!Max({0, Len(lines) + end}) ELSE FE!Min({Len(lines), end}))
          = Stop(Len(lines), end)
  BY <1>1, <1>2, <1>3 DEF Stop
<1>5. start - 1 + 1 = start
  OBVIOUS
<1> QED
  BY <1>4, <1>5 DEF PySlice

-----------------------------------------------------------------------------
(* The slice theorem *)

\* A slice cites what it returns: for every file, a start before the file or past its
\* end, an end before the start, a negative end and an end past the file included.
THEOREM SliceAlwaysHolds ==
    ASSUME NEW X, NEW f, f.lines \in Seq(X), ~f.gone,
           NEW from \in Int, NEW to \in Int \cup {None}
    PROVE  SliceHolds(f, from, to)
<1> DEFINE lines == f.lines
           total == Len(lines)
           start == FE!Max({1, from})
           last  == IF to = None THEN total ELSE to
           end   == FE!Min({total, last})
           stop  == Stop(total, end)
           s     == ReadFileSlice(f, from, to)
<1>1. total \in Nat /\ last \in Int
  BY LoaderAssumption
<1>2. start = IF 1 >= from THEN 1 ELSE from
  BY MaxOfTwo
<1>3. end = IF total <= last THEN total ELSE last
  BY <1>1, MinOfTwo
<1>4. start \in Int /\ start >= 1 /\ end \in Int /\ end <= total
  BY <1>1, <1>2, <1>3
<1>5. stop \in Nat /\ stop <= total /\ (end >= 0 => stop = end)
  BY <1>1, <1>4 DEF Stop
<1>6. CASE start > total
  <2>1. s = [start_line |-> start, end_line |-> total, content |-> <<>>]
    BY <1>6 DEF ReadFileSlice
  <2>2. SubSeq(lines, start, total) = <<>>
    BY <1>1, <1>4, <1>6, SubSeqEmpty
  <2>3. ASSUME to # None, from >= 1, to >= from
        PROVE  SubSeq(lines, from, FE!Min({to, total})) = <<>>
    <3>1. to \in Int /\ from = start
      BY <1>2, <2>3
    <3>2. FE!Min({to, total}) = IF to <= total THEN to ELSE total
      BY <1>1, <3>1, MinOfTwo
    <3>3. FE!Min({to, total}) = total
      BY <1>1, <1>6, <2>3, <3>1, <3>2
    <3> QED
      BY <2>2, <3>1, <3>3
  <2> HIDE DEF s, start, total, end, stop
  <2>4. s.start_line = start /\ s.end_line = total /\ s.content = <<>>
    BY <2>1
  <2>5. total <= total
    BY <1>1
  <2> QED
    BY <1>4, <2>2, <2>3, <2>4, <2>5, Zenon DEF SliceHolds, s, total
<1>7. CASE start <= total
  <2> DEFINE selected == SubSeq(lines, start, stop)
  <2>1. PySlice(lines, start - 1, end) = selected
    BY <1>4, PySliceIsSubSeq
  <2>0. ~(start > total)
    BY <1>1, <1>4, <1>7
  <2>2. s = [start_line |-> start, end_line |-> start + Len(selected) - 1,
             content |-> selected]
    BY <2>0, <2>1, Zenon DEF ReadFileSlice
  <2>3. \A i \in start .. stop : lines[i] \in X
    BY <1>1, <1>4, <1>5
  <2>4. Len(selected) = IF start <= stop THEN stop - start + 1 ELSE 0
    BY <1>4, <1>5, <2>3, SubSeqProperties
  <2>5. start + Len(selected) - 1 = IF start <= stop THEN stop ELSE start - 1
    BY <1>4, <1>5, <2>4
  <2>6. SubSeq(lines, start, start + Len(selected) - 1) = selected
    <3>1. CASE start <= stop
      <4>1. start + Len(selected) - 1 = stop
        BY <2>5, <3>1
      <4> QED
        BY <4>1, Zenon
    <3>2. CASE start > stop
      <4> HIDE DEF start, stop, end, total, last
      <4>0. start - 1 < start /\ stop < start /\ {start, stop, start - 1} \subseteq Int
        BY <1>4, <1>5, <3>2
      <4>1. /\ SubSeq(lines, start, start - 1) = <<>>
            /\ SubSeq(lines, start, stop) = <<>>
        BY <4>0, SubSeqEmpty, Zenon
      <4>2. start + Len(selected) - 1 = start - 1
        BY <1>4, <1>5, <2>5, <3>2
      <4> QED
        BY <4>1, <4>2, Zenon
    <3>3. QED
      <4> HIDE DEF start, stop, end, total, last, selected
      <4> QED
        BY <1>4, <1>5, <3>1, <3>2
  <2>7. start + Len(selected) - 1 <= total
    BY <1>1, <1>4, <1>5, <1>7, <2>5
  <2>8. ASSUME to # None, from >= 1, to >= from
        PROVE  selected = SubSeq(lines, from, FE!Min({to, total}))
    <3>1. to \in Int /\ from \in Int /\ from = start /\ last = to
      BY <1>2, <2>8
    <3>2. FE!Min({to, total}) = IF to <= total THEN to ELSE total
      BY <1>1, <3>1, MinOfTwo
    <3>3. end >= 0 /\ FE!Min({to, total}) = end
      BY <1>1, <1>3, <2>8, <3>1, <3>2
    <3> QED
      BY <1>5, <3>1, <3>3
  <2> HIDE DEF s, start, total, end, stop, selected
  <2>9. /\ s.start_line = start /\ s.end_line = start + Len(selected) - 1
        /\ s.content = selected
    BY <2>2
  <2> QED
    BY <1>4, <2>6, <2>7, <2>8, <2>9, Zenon DEF SliceHolds, s, total
<1> QED
  BY <1>1, <1>4, <1>6, <1>7

\* What was found belongs to the repository that was inspected.
Inspected ==
    /\ IsRepository(repo)
    /\ Scanned => seen = Found(repo)

\* It holds always: a run has one step, and that writes down what the scan found.
LEMMA InspectedHolds == Spec => []Inspected
<1>1. Init => Inspected
  BY RepositoriesAssumption DEF Init, Inspected, Scanned
<1>2. Inspected /\ [Inspect]_vars => Inspected'
  <2> SUFFICES ASSUME Inspected, [Inspect]_vars PROVE Inspected'
    OBVIOUS
  <2>1. CASE Inspect
    BY <2>1, Zenon DEF Inspected, Inspect, Scanned
  <2>2. CASE UNCHANGED vars
    BY <2>2, Zenon DEF Inspected, vars, Scanned
  <2> QED
    BY <2>1, <2>2
<1> QED
  BY <1>1, <1>2, PTL DEF Spec

\* The files of the repository at hand.
LEMMA FilesIsFilesOf == Files = FilesOf(repo)
BY DEF Files, FilesOf

\* The parts of what a scan finds.
LEMMA FoundParts ==
    ASSUME NEW r
    PROVE  /\ Found(r).iac = ScanIacSecurity(r)
           /\ Found(r).ci = ScanCiSecurity(r)
           /\ Found(r).secrets = ScanSecrets(r)
           /\ Found(r).features = DetectFeatures(r)
BY DEF Found

-----------------------------------------------------------------------------
(* Slices of the files of a repository *)

\* What a slice of a file that can be opened returns is a record, and no refusal.
LEMMA SliceIsNoRefusal ==
    ASSUME NEW f, f.lines \in Seq(Line), ~f.gone,
           NEW from \in Int, NEW to \in Int \cup {None}
    PROVE  ReadFileSlice(f, from, to) \notin {NotAllowed, CannotRead}
<1> DEFINE lines == f.lines
           total == Len(lines)
           start == FE!Max({1, from})
           last  == IF to = None THEN total ELSE to
           end   == FE!Min({total, last})
           selected == PySlice(lines, start - 1, end)
           Slices == [start_line : Int, end_line : Int, content : Seq(Line)]
<1>1. total \in Nat /\ last \in Int
  BY LoaderAssumption
<1>2. start \in Int
  <2>1. start = IF 1 >= from THEN 1 ELSE from
    BY MaxOfTwo
  <2> QED
    BY <2>1
<1>3. end \in Int
  <2>1. end = IF total <= last THEN total ELSE last
    BY <1>1, MinOfTwo
  <2> QED
    BY <1>1, <2>1
<1>4. start >= 1 /\ end <= total
  <2>1. start = IF 1 >= from THEN 1 ELSE from
    BY MaxOfTwo
  <2>2. end = IF total <= last THEN total ELSE last
    BY <1>1, MinOfTwo
  <2> QED
    BY <1>1, <2>1, <2>2
<1>5. selected = SubSeq(lines, start, Stop(total, end))
  <2> HIDE DEF start, end
  <2> QED
    BY <1>2, <1>3, PySliceIsSubSeq
<1>6. Stop(total, end) \in Nat /\ Stop(total, end) <= total
  BY <1>1, <1>3, <1>4 DEF Stop
<1>7. selected \in Seq(Line) /\ Len(selected) \in Nat
  <2> HIDE DEF start, end, total, selected
  <2>1. \A i \in start .. Stop(total, end) : i \in 1 .. total
    BY <1>1, <1>2, <1>4, <1>6
  <2>2. \A i \in start .. Stop(total, end) : lines[i] \in Line
    BY <2>1 DEF total
  <2>3. Stop(total, end) \in Int
    BY <1>6
  <2>4. SubSeq(lines, start, Stop(total, end)) \in Seq(Line)
    BY <1>2, <2>2, <2>3, SubSeqProperties, Zenon
  <2>5. selected \in Seq(Line)
    BY <1>5, <2>4
  <2> QED
    BY <2>5
<1>8. ReadFileSlice(f, from, to) =
         IF start > total
         THEN [start_line |-> start, end_line |-> total, content |-> <<>>]
         ELSE [start_line |-> start, end_line |-> start + Len(selected) - 1,
               content |-> selected]
  BY DEF ReadFileSlice
<1> HIDE DEF start, end, total, selected
<1>9. start + Len(selected) - 1 \in Int /\ <<>> \in Seq(Line)
  BY <1>2, <1>7
<1>10. total \in Int
  BY <1>1
<1>11. [start_line |-> start, end_line |-> total, content |-> <<>>] \in Slices
  BY <1>2, <1>9, <1>10
<1>12. [start_line |-> start, end_line |-> start + Len(selected) - 1,
        content |-> selected] \in Slices
  BY <1>2, <1>7, <1>9
<1>13. NotAllowed \notin Slices /\ CannotRead \notin Slices
  BY RefusalAssumption
<1> HIDE DEF Slices
<1> QED
  BY <1>8, <1>11, <1>12, <1>13

\* Every slice of a file of a repository cites what it returns; it is not
\* allowed exactly for the files that the walk leaves out, and fails exactly for those
\* that the walk yields and that are gone.
THEOREM SliceIsCitedHolds == Spec => []SliceIsCited
<1>1. Inspected => SliceIsCited
  <2> SUFFICES ASSUME Inspected, Scanned,
                      NEW f \in Files, f.link = "none",
                      NEW from \in -1 .. Len(f.lines) + 2,
                      NEW to \in (-2 .. Len(f.lines) + 1) \cup {None}
               PROVE  LET s == ReadSlice(repo, f, from, to) IN
                      /\ (s = NotAllowed) <=> LeftOut(f)
                      /\ (s = CannotRead) <=> f.gone /\ ~LeftOut(f)
                      /\ ~Unread(f) => SliceHolds(f, from, to)
    BY DEF SliceIsCited
  <2>1. IsRepository(repo) /\ f \in FilesOf(repo)
    BY FilesIsFilesOf DEF Inspected
  <2>2. f \in File
    BY <2>1, IterFacts
  <2>3. f.lines \in Seq(Line) /\ Len(f.lines) \in Nat
    BY <2>2, FileFacts
  <2>4. from \in Int /\ to \in Int \cup {None}
    BY <2>3
  <2>5. ~f.gone => ReadFileSlice(f, from, to) \notin {NotAllowed, CannotRead}
    BY <2>3, <2>4, SliceIsNoRefusal
  <2>6. ~f.gone => SliceHolds(f, from, to)
    BY <2>3, <2>4, SliceAlwaysHolds
  <2>7. (\E g \in SE!ToSet(IterRepoFiles(repo)) : Path(g) = Path(f)) <=> ~LeftOut(f)
    <3>1. SE!ToSet(IterRepoFiles(repo)) = {g \in FilesOf(repo) : ~LeftOut(g)}
      BY <2>1, IterFacts
    <3>2. ASSUME NEW g \in FilesOf(repo), Path(g) = Path(f) PROVE g = f
      BY <2>1, <3>2, PathsAreDistinct
    <3> QED
      BY <2>1, <3>1, <3>2
  <2>8. ReadSlice(repo, f, from, to) =
           IF ~LeftOut(f) THEN ReadFileSlice(f, from, to) ELSE NotAllowed
    BY <2>7 DEF ReadSlice
  <2>9. f.gone => ReadFileSlice(f, from, to) = CannotRead
    BY DEF ReadFileSlice
  <2>10. NotAllowed # CannotRead
    BY RefusalAssumption
  <2> QED
    BY <2>5, <2>6, <2>8, <2>9, <2>10 DEF Unread
<1> QED
  BY <1>1, InspectedHolds, PTL

-----------------------------------------------------------------------------
(* Features *)

\* The two walks agree: what the loader yields counts for the features, and what
\* the contents of Terraform files show was read by the scanners as well.
THEOREM DetectionMatchesLoaderHolds == Spec => []DetectionMatchesLoader
<1>1. Inspected => DetectionMatchesLoader
  <2> SUFFICES ASSUME Inspected, Scanned PROVE DetectionMatchesLoader
    BY DEF DetectionMatchesLoader
  <2>1. IsRepository(repo) /\ Files = FilesOf(repo)
    BY FilesIsFilesOf DEF Inspected
  <2>2. /\ SE!ToSet(IterRepoFiles(repo)) = {f \in Files : ~LeftOut(f)}
        /\ SE!ToSet(repo) = Files
        /\ Files \subseteq File
    BY <2>1, IterFacts
  <2> DEFINE features == UNION {Feature(f) : f \in {g \in SE!ToSet(repo) : Classified(g)}}
  <2>3. seen.features = features \cup IF "terraform" \in features
                                      THEN TerraformResources(repo) ELSE {}
    <3>1. seen.features = DetectFeatures(repo)
      BY FoundParts DEF Inspected
    <3> QED
      BY <3>1 DEF DetectFeatures
  <2>4. ASSUME NEW f \in Files, ~LeftOut(f), Len(f.dirs) <= MaxDepth
        PROVE  Feature(f) \subseteq seen.features
    <3>1. SE!ToSet(f.dirs) = {f.dirs[i] : i \in DOMAIN f.dirs}
      BY DEF SE!ToSet
    <3>2. ~\E d \in DeniedDirs : \E i \in DOMAIN f.dirs : f.dirs[i] = d
      BY <2>4 DEF LeftOut
    <3>3. SkipDirs \subseteq DeniedDirs
      BY DEF SkipDirs, DeniedDirs
    <3>4. SE!ToSet(f.dirs) \cap SkipDirs = {}
      BY <3>1, <3>2, <3>3
    <3>5. Classified(f)
      BY <2>4, <3>4 DEF Classified
    <3>6. Feature(f) \subseteq features
      BY <2>2, <3>5
    <3> QED
      BY <2>3, <3>6
  <2>5. ASSUME NEW t \in DOMAIN TfResourceFeature \cap seen.features
        PROVE  \E f \in Files :
                  /\ f.suffix = ".tf" /\ ~Unread(f)
                  /\ \E i \in DOMAIN f.lines :
                        i <= MaxTfReadBytes /\ f.lines[i].has \cap TfResourceFeature[t] # {}
    <3>1. t \in {"terraform_lb", "terraform_s3", "terraform_iam", "terraform_cloudtrail",
                 "terraform_monitoring", "terraform_network"}
      BY DEF TfResourceFeature
    <3>2. t \notin features
      <4> SUFFICES ASSUME NEW f \in File, t \in Feature(f) PROVE FALSE
        BY <2>2
      <4>1. Feature(f) \subseteq {"terraform", "dockerfile", "github_actions",
                                  "docker_compose"} \cup {l[2] : l \in Languages}
        BY DEF Feature
      <4>2. {l[2] : l \in Languages} \subseteq {"python", "go", "java", "javascript"}
        BY DEF Languages
      <4> QED
        BY <3>1, <4>1, <4>2
    <3>3. t \in TerraformResources(repo)
      <4> HIDE DEF features
      <4> QED
        BY <2>3, <3>2
    <3>4. PICK f \in SE!ToSet(IterRepoFiles(repo)) :
             f.suffix = ".tf" /\ ~f.gone /\ Resources(f) \cap TfResourceFeature[t] # {}
      BY <3>3 DEF TerraformResources
    <3>5. f \in Files /\ ~Unread(f) /\ f \in File
      BY <2>2, <3>4 DEF Unread
    <3>6. PICK i \in 1 .. FE!Min({MaxTfReadBytes, Len(f.lines)}) :
             f.lines[i].has \cap TfResourceFeature[t] # {}
      BY <3>4 DEF Resources
    <3>7. MaxTfReadBytes \in Int /\ Len(f.lines) \in Int /\ DOMAIN f.lines = 1 .. Len(f.lines)
      BY <3>5, FileFacts, SelectionAssumption
    <3>8. i \in DOMAIN f.lines /\ i <= MaxTfReadBytes
      <4>1. FE!Min({MaxTfReadBytes, Len(f.lines)}) =
               IF MaxTfReadBytes <= Len(f.lines) THEN MaxTfReadBytes ELSE Len(f.lines)
        BY <3>7, MinOfTwo
      <4> QED
        BY <3>6, <3>7, <4>1
    <3> QED
      BY <3>4, <3>5, <3>6, <3>8
  <2> QED
    BY <2>4, <2>5 DEF DetectionMatchesLoader
<1> QED
  BY <1>1, InspectedHolds, PTL

-----------------------------------------------------------------------------
(* What is found in one file *)

\* All that scan_iac_security finds in one file.
FileScan(f) == ScanTerraform(f) \cup ScanDockerfile(f) \cup ScanKubernetes(f)

\* The parts of a finding.
LEMMA FindingParts ==
    ASSUME NEW f, NEW type, NEW first, NEW last
    PROVE  /\ Finding(f, type, first, last).path = Path(f)
           /\ Finding(f, type, first, last).finding_type = type
           /\ Finding(f, type, first, last).start_line = first
           /\ Finding(f, type, first, last).end_line = last
BY DEF Finding

\* A finding of a check of single lines is about a line that matches.
LEMMA LineFindingsFacts ==
    ASSUME NEW f, NEW types, NEW x \in LineFindings(f, types)
    PROVE  \E type \in types : \E i \in DOMAIN f.lines :
              type \in f.lines[i].has /\ x = Finding(f, type, i, i)
BY DEF LineFindings, Matches

\* What the scan of a file finds is about that file.
LEMMA FileScanHasPath ==
    ASSUME NEW f, NEW x \in FileScan(f)
    PROVE  x.path = Path(f)
<1>1. ASSUME NEW types, x \in LineFindings(f, types) PROVE x.path = Path(f)
  BY <1>1, LineFindingsFacts, FindingParts
<1>2. ASSUME x \in Listeners(f) PROVE x.path = Path(f)
  BY <1>2, FindingParts DEF Listeners
<1>3. ASSUME NEW t, NEW a, NEW b, x \in Policies(f, t, a, b) PROVE x.path = Path(f)
  BY <1>3, FindingParts DEF Policies
<1>4. ASSUME x \in Buckets(f) PROVE x.path = Path(f)
  BY <1>4, FindingParts DEF Buckets
<1>5. ASSUME x \in PublicAccessBlocks(f) PROVE x.path = Path(f)
  <2>1. \E first, last : x = Finding(f, "s3_public_access_block", first, last)
    BY <1>5, Zenon DEF PublicAccessBlocks
  <2> QED
    BY <2>1, FindingParts
<1>6. ASSUME x \in ScanTerraform(f) PROVE x.path = Path(f)
  BY <1>1, <1>2, <1>3, <1>4, <1>5, <1>6 DEF ScanTerraform
<1>7. ASSUME x \in ScanDockerfile(f) PROVE x.path = Path(f)
  BY <1>1, <1>7, FindingParts DEF ScanDockerfile
<1>8. ASSUME x \in ScanKubernetes(f) PROVE x.path = Path(f)
  BY <1>1, <1>8, FindingParts DEF ScanKubernetes
<1> QED
  BY <1>6, <1>7, <1>8 DEF FileScan

\* What a repository is found to hold at the path of one of its files is what that
\* file is found to hold, if it is read.
LEMMA AboutOneFile ==
    ASSUME NEW r, IsRepository(r), NEW g \in FilesOf(r)
    PROVE  /\ Path(g) # TerraformFiles =>
                About(Path(g), ScanIacSecurity(r)) = IF Unread(g) THEN {} ELSE FileScan(g)
           /\ About(Path(g), ScanSecrets(r)) =
                IF Unread(g) THEN {}
                ELSE LineFindings(g, {"aws_access_key", "generic_secret_assignment"})
<1> DEFINE files == SE!ToSet(IterRepoFiles(r))
           read == {f \in files : ~f.gone}
           secrets == {"aws_access_key", "generic_secret_assignment"}
           found == UNION {FileScan(f) : f \in read}
<1>1. files = {f \in FilesOf(r) : ~LeftOut(f)}
  BY IterFacts
<1>2. read = {f \in FilesOf(r) : ~Unread(f)}
  BY <1>1 DEF Unread
<1>3. \A f \in read : Path(f) = Path(g) => f = g
  BY <1>2, PathsAreDistinct
<1>4. /\ ScanIacSecurity(r) = found \cup ScanLogging(files)
      /\ ScanSecrets(r) = UNION {LineFindings(f, secrets) : f \in read}
  BY DEF ScanIacSecurity, ScanSecrets, FileScan
<1> HIDE DEF files, read, secrets, found
<1>5. \A f \in read : \A x \in FileScan(f) : x.path = Path(f)
  BY FileScanHasPath
<1>6. \A f \in read : \A x \in LineFindings(f, secrets) : x.path = Path(f)
  BY LineFindingsFacts, FindingParts
<1>7. \A x \in ScanLogging(files) : x.path = TerraformFiles
  BY DEF ScanLogging, AuditLogging
<1>8. g \in read <=> ~Unread(g)
  BY <1>2
<1>9. ASSUME Path(g) # TerraformFiles
      PROVE  About(Path(g), ScanIacSecurity(r)) = IF Unread(g) THEN {} ELSE FileScan(g)
  <2>1. \A x : x \in found /\ x.path = Path(g) <=> g \in read /\ x \in FileScan(g)
    BY <1>3, <1>5 DEF found
  <2>2. \A x \in ScanLogging(files) : x.path # Path(g)
    BY <1>7, <1>9
  <2> QED
    BY <1>4, <1>8, <2>1, <2>2 DEF About
<1>10. About(Path(g), ScanSecrets(r)) = IF Unread(g) THEN {} ELSE LineFindings(g, secrets)
  BY <1>3, <1>4, <1>6, <1>8 DEF About
<1> QED
  BY <1>9, <1>10 DEF secrets

\* A repository without one of its files is a repository, of the other files.
LEMMA WithoutFacts ==
    ASSUME IsRepository(repo), NEW f
    PROVE  IsRepository(Without(f)) /\ FilesOf(Without(f)) = FilesOf(repo) \ {f}
<1> DEFINE T == {g \in Files : g # f}
           key == [g \in File |-> Path(g)]
<1>1. repo \in Seq(File) /\ Files = FilesOf(repo)
  BY FilesIsFilesOf DEF IsRepository
<1>2. Without(f) = Filter(repo, T)
  BY DEF Without
<1>3. \A i \in DOMAIN repo : repo[i] \in File
  BY <1>1
<1>4. Distinct(repo, key)
  BY <1>3 DEF IsRepository, Distinct
<1>5. T = FilesOf(repo) \ {f}
  BY <1>1
<1> HIDE DEF T, key
<1>6. Filter(repo, T) \in Seq(File)
  BY <1>1, FilterType
<1>7. Distinct(Filter(repo, T), key)
  BY <1>1, <1>4, FilterDistinct
<1>8. SE!ToSet(Filter(repo, T)) = SE!ToSet(repo) \cap T
  BY <1>1, FilterRange
<1>9. \A i \in DOMAIN Filter(repo, T) : Filter(repo, T)[i] \in File
  BY <1>6
<1>10. IsRepository(Filter(repo, T))
  BY <1>6, <1>7, <1>9 DEF IsRepository, Distinct, key
<1>11. SE!ToSet(Filter(repo, T)) = FilesOf(Filter(repo, T)) /\ SE!ToSet(repo) = FilesOf(repo)
  BY DEF SE!ToSet, FilesOf
<1> QED
  BY <1>2, <1>5, <1>8, <1>10, <1>11

\* What is found in a file does not depend on any other file of the repository.
THEOREM FilesAreIndependentHolds == Spec => []FilesAreIndependent
<1>1. Inspected => FilesAreIndependent
  <2> SUFFICES ASSUME Inspected, Scanned,
                      NEW f \in Files, NEW g \in Files, f # g, Path(g) # TerraformFiles
               PROVE  /\ About(Path(g), seen.iac)
                            = About(Path(g), ScanIacSecurity(Without(f)))
                      /\ About(Path(g), seen.secrets)
                            = About(Path(g), ScanSecrets(Without(f)))
    BY DEF FilesAreIndependent
  <2>1. IsRepository(repo) /\ Files = FilesOf(repo)
    BY FilesIsFilesOf DEF Inspected
  <2>2. IsRepository(Without(f)) /\ g \in FilesOf(Without(f)) /\ g \in FilesOf(repo)
    BY <2>1, WithoutFacts
  <2>3. seen.iac = ScanIacSecurity(repo) /\ seen.secrets = ScanSecrets(repo)
    BY FoundParts DEF Inspected
  <2>4. /\ About(Path(g), ScanIacSecurity(repo)) = IF Unread(g) THEN {} ELSE FileScan(g)
        /\ About(Path(g), ScanSecrets(repo)) =
              IF Unread(g) THEN {}
              ELSE LineFindings(g, {"aws_access_key", "generic_secret_assignment"})
    BY <2>1, <2>2, AboutOneFile
  <2>5. /\ About(Path(g), ScanIacSecurity(Without(f))) = IF Unread(g) THEN {} ELSE FileScan(g)
        /\ About(Path(g), ScanSecrets(Without(f))) =
              IF Unread(g) THEN {}
              ELSE LineFindings(g, {"aws_access_key", "generic_secret_assignment"})
    BY <2>2, AboutOneFile
  <2> QED
    BY <2>3, <2>4, <2>5
<1> QED
  BY <1>1, InspectedHolds, PTL

-----------------------------------------------------------------------------
(* Workflows *)

\* The workflows that could be read, in the order of the walk.
Texts(r) == Filter(WorkflowsOf(r), {f \in SE!ToSet(WorkflowsOf(r)) : ~f.gone})

\* The workflows that the walk yields, and those of them that can be opened.
Listed(r) == {f \in FilesOf(r) : IsWorkflow(f) /\ ~LeftOut(f)}

Open(r) == {f \in Listed(r) : ~f.gone}

\* The lists that the CI scan works on have just these files.
LEMMA TextsFacts ==
    ASSUME NEW r, IsRepository(r)
    PROVE  /\ WorkflowsOf(r) \in Seq(File) /\ SE!ToSet(WorkflowsOf(r)) = Listed(r)
           /\ Texts(r) \in Seq(File) /\ SE!ToSet(Texts(r)) = Open(r)
           /\ Texts(r) = Filter(r, Open(r))
<1> DEFINE files == IterRepoFiles(r)
           T == {f \in SE!ToSet(r) : Yielded(f)}
           W == {f \in SE!ToSet(files) : IsWorkflow(f)}
           ws == WorkflowsOf(r)
           R == {f \in SE!ToSet(ws) : ~f.gone}
<1>1. /\ files \in Seq(File) /\ SE!ToSet(files) = {f \in FilesOf(r) : ~LeftOut(f)}
      /\ FilesOf(r) \subseteq File /\ SE!ToSet(r) = FilesOf(r)
  BY IterFacts
<1>2. r \in Seq(File)
  BY DEF IsRepository
<1>3. files = Filter(r, T) /\ ws = Filter(files, W) /\ Texts(r) = Filter(ws, R)
  BY DEF IterRepoFiles, WorkflowsOf, Texts
<1>4. T = {f \in FilesOf(r) : ~LeftOut(f)}
  BY <1>1, YieldedIsNotLeftOut
<1>5. W = Listed(r)
  BY <1>1 DEF Listed
<1> HIDE DEF files, T, W, ws, R
<1>6. ws \in Seq(File)
  BY <1>1, <1>3, FilterType
<1>7. SE!ToSet(ws) = SE!ToSet(files) \cap W
  BY <1>1, <1>3, FilterRange
<1>8. SE!ToSet(ws) = Listed(r)
  BY <1>1, <1>5, <1>7 DEF Listed
<1>9. R = Open(r)
  BY <1>8 DEF R, Open
<1>10. Texts(r) \in Seq(File)
  BY <1>3, <1>6, FilterType
<1>11. SE!ToSet(Texts(r)) = SE!ToSet(ws) \cap R
  BY <1>3, <1>6, FilterRange
<1>12. SE!ToSet(Texts(r)) = Open(r)
  BY <1>8, <1>9, <1>11 DEF Open
<1>13. Filter(Filter(r, T), W) = Filter(r, T \cap W)
  BY <1>2, FilterTwice
<1>14. Filter(Filter(r, T \cap W), R) = Filter(r, (T \cap W) \cap R)
  BY <1>2, FilterTwice
<1>15. (T \cap W) \cap R = Open(r)
  BY <1>4, <1>5, <1>9 DEF Open, Listed
<1> QED
  BY <1>3, <1>6, <1>8, <1>10, <1>12, <1>13, <1>14, <1>15 DEF ws

\* A citation is of a line that matches, in one of the workflows that were read.
LEMMA CiteFacts ==
    ASSUME NEW texts \in Seq(File), NEW pattern, NEW type, InCombined(texts, pattern)
    PROVE  \E k \in DOMAIN texts : \E i \in DOMAIN texts[k].lines :
              /\ pattern \in texts[k].lines[i].has
              /\ Cite(texts, pattern, type) = Finding(texts[k], type, i, i)
<1> DEFINE ks == {j \in DOMAIN texts : Matches(texts[j].lines, pattern) # {}}
           k  == FE!Min(ks)
           i  == FirstLine(texts[k].lines, pattern)
<1>1. ks # {}
  BY DEF InCombined
<1>2. DOMAIN texts \subseteq Nat
  OBVIOUS
<1>3. k \in ks
  <2>1. ks \subseteq Nat
    BY <1>2
  <2> HIDE DEF ks
  <2> QED
    BY <1>1, <2>1, MinIsLeast
<1>4. Cite(texts, pattern, type) = Finding(texts[k], type, i, i)
  BY DEF Cite
<1> HIDE DEF k, i
<1>5. k \in DOMAIN texts /\ Matches(texts[k].lines, pattern) # {}
  BY <1>3
<1>6. texts[k] \in File
  BY <1>5
<1>7. texts[k].lines \in Seq(Line)
  BY <1>6, FileFacts
<1>8. PICK j \in DOMAIN texts[k].lines : pattern \in texts[k].lines[j].has
  BY <1>5 DEF Matches
<1>9. i # 0
  <2>1. i \in 1 .. j
    BY <1>7, <1>8, FirstLineFacts DEF i
  <2> QED
    BY <2>1
<1>10. i \in DOMAIN texts[k].lines /\ pattern \in texts[k].lines[i].has
  BY <1>7, <1>9, FirstLineFacts DEF i
<1> QED
  BY <1>4, <1>5, <1>10

\* What is said of one kind of tool, and of permissions that are too broad.
Judged(texts, t) ==
    IF InCombined(texts, t[1]) THEN Cite(texts, t[1], t[2]) ELSE Finding(texts[1], t[3], 0, 0)

\* What is said of permissions that let everything be written.
Broad(texts) ==
    IF InCombined(texts, "write_all")
    THEN {Cite(texts, "write_all", "overly_broad_permissions")} ELSE {}

\* A finding with one of the types of the CI scan is one of its findings.
LEMMA FindingType ==
    ASSUME NEW f \in File, NEW type \in CiTypes, NEW first \in Nat, NEW last \in Nat
    PROVE  Finding(f, type, first, last) \in CiFinding
BY FileFacts DEF Finding, CiFinding

\* A judgement has one of the two types of its tool and is no crash.
LEMMA JudgedFacts ==
    ASSUME NEW texts \in Seq(File), texts # <<>>, NEW t \in CiTools
    PROVE  /\ Judged(texts, t).finding_type =
                 IF InCombined(texts, t[1]) THEN t[2] ELSE t[3]
           /\ Judged(texts, t) # Crashed
<1>1. t[2] \in CiTypes /\ t[3] \in CiTypes
  BY DEF CiTypes
<1>2. CASE InCombined(texts, t[1])
  <2>0. PICK k \in DOMAIN texts : \E i \in DOMAIN texts[k].lines :
           Cite(texts, t[1], t[2]) = Finding(texts[k], t[2], i, i)
    BY <1>2, CiteFacts
  <2>1. PICK i \in DOMAIN texts[k].lines :
           Cite(texts, t[1], t[2]) = Finding(texts[k], t[2], i, i)
    BY <2>0
  <2>2. texts[k] \in File
    OBVIOUS
  <2>3. i \in Nat
    BY <2>2, FileFacts
  <2>4. Finding(texts[k], t[2], i, i) \in CiFinding
    BY <1>1, <2>2, <2>3, FindingType
  <2>5. Judged(texts, t) = Finding(texts[k], t[2], i, i)
    BY <1>2, <2>1 DEF Judged
  <2>6. Judged(texts, t) # Crashed
    BY <2>4, <2>5, CrashedAssumption
  <2> QED
    BY <1>2, <2>5, <2>6, FindingParts
<1>3. CASE ~InCombined(texts, t[1])
  <2>1. texts[1] \in File
    BY EmptyHasNone
  <2>2. Finding(texts[1], t[3], 0, 0) \in CiFinding
    BY <1>1, <2>1, FindingType
  <2>3. Judged(texts, t) = Finding(texts[1], t[3], 0, 0)
    BY <1>3 DEF Judged
  <2>4. Judged(texts, t) # Crashed
    BY <2>2, <2>3, CrashedAssumption
  <2> QED
    BY <1>3, <2>3, <2>4, FindingParts
<1> QED
  BY <1>2, <1>3

\* It has a type of its own.
LEMMA BroadFacts ==
    ASSUME NEW texts \in Seq(File), NEW x \in Broad(texts)
    PROVE  x.finding_type = "overly_broad_permissions" /\ x # Crashed
<1>1. InCombined(texts, "write_all")
      /\ x = Cite(texts, "write_all", "overly_broad_permissions")
  BY DEF Broad
<1>6. PICK k \in DOMAIN texts : \E i \in DOMAIN texts[k].lines :
         x = Finding(texts[k], "overly_broad_permissions", i, i)
  BY <1>1, CiteFacts
<1>2. PICK i \in DOMAIN texts[k].lines :
         x = Finding(texts[k], "overly_broad_permissions", i, i)
  BY <1>6
<1>3. texts[k] \in File
  OBVIOUS
<1>4. i \in Nat
  BY <1>3, FileFacts
<1>5. x \in CiFinding
  <2>1. "overly_broad_permissions" \in CiTypes
    BY DEF CiTypes
  <2> QED
    BY <1>2, <1>3, <1>4, <2>1, FindingType
<1> QED
  BY <1>2, <1>5, FindingParts, CrashedAssumption

\* The three ends of scan_ci_security.
LEMMA CiFacts ==
    ASSUME NEW r, IsRepository(r)
    PROVE  /\ Listed(r) = {} => ScanCiSecurity(r) = {}
           /\ Listed(r) # {} /\ Open(r) = {} => ScanCiSecurity(r) = {Crashed}
           /\ Open(r) # {} =>
                 /\ Texts(r) # <<>>
                 /\ ScanCiSecurity(r) = {Judged(Texts(r), t) : t \in CiTools} \cup Broad(Texts(r))
<1> DEFINE texts == Texts(r)
           ws == WorkflowsOf(r)
<1>1. /\ ws \in Seq(File) /\ SE!ToSet(ws) = Listed(r)
      /\ texts \in Seq(File) /\ SE!ToSet(texts) = Open(r)
  BY TextsFacts
<1>2. /\ ws = <<>> <=> Listed(r) = {}
      /\ texts = <<>> <=> Open(r) = {}
  BY <1>1, EmptyHasNone
<1>3. Open(r) \subseteq Listed(r)
  BY DEF Open
<1>4. ScanCiSecurity(r) =
         IF ws = <<>> THEN {}
         ELSE IF texts = <<>> THEN {Crashed}
         ELSE {Judged(texts, t) : t \in CiTools} \cup Broad(texts)
  BY DEF ScanCiSecurity, Texts, Judged, Broad
<1> HIDE DEF texts, ws
<1> QED
  BY <1>2, <1>3, <1>4 DEF texts

\* The types of one kind of tool are not those of another.
LEMMA CiTypesAreDistinct ==
    /\ \A t, u \in CiTools : t[2] \in {u[2], u[3]} \/ t[3] \in {u[2], u[3]} => t = u
    /\ \A t \in CiTools : t[2] # t[3] /\ "overly_broad_permissions" \notin {t[2], t[3]}
BY DEF CiTools

\* Of workflows one of which can be opened, the CI scan judges each kind of tool once
\* and raises nothing; without workflows it finds nothing.
THEOREM CiJudgesEachToolOnceHolds == Spec => []CiJudgesEachToolOnce
<1>1. Inspected => CiJudgesEachToolOnce
  <2> SUFFICES ASSUME Inspected, Scanned PROVE CiJudgesEachToolOnce
    BY DEF CiJudgesEachToolOnce
  <2> DEFINE listed == {f \in Files : IsWorkflow(f) /\ ~LeftOut(f)}
             texts == Texts(repo)
  <2>1. IsRepository(repo) /\ listed = Listed(repo)
    BY FilesIsFilesOf DEF Inspected, Listed
  <2>2. Open(repo) = {f \in listed : ~f.gone}
    BY <2>1 DEF Open
  <2>3. seen.ci = ScanCiSecurity(repo)
    BY FoundParts DEF Inspected
  <2>4. /\ Listed(repo) = {} => seen.ci = {}
        /\ Listed(repo) # {} /\ Open(repo) = {} => seen.ci = {Crashed}
        /\ Open(repo) # {} =>
              texts # <<>> /\ seen.ci = {Judged(texts, t) : t \in CiTools} \cup Broad(texts)
    BY <2>1, <2>3, CiFacts
  <2>5. texts \in Seq(File)
    BY <2>1, TextsFacts
  <2> HIDE DEF listed, texts
  <2>6. ASSUME Open(repo) # {}, NEW x \in seen.ci PROVE x # Crashed
    BY <2>4, <2>5, <2>6, JudgedFacts, BroadFacts
  <2>7. ASSUME \E f \in listed : ~f.gone PROVE Open(repo) # {} /\ Crashed \notin seen.ci
    BY <2>2, <2>6, <2>7
  <2>8. ASSUME Open(repo) # {}, NEW t \in CiTools
        PROVE  Cardinality({x \in CiFindings : x.finding_type \in {t[2], t[3]}}) = 1
    <3> DEFINE S == {x \in CiFindings : x.finding_type \in {t[2], t[3]}}
    <3>1. ASSUME NEW x \in S PROVE x = Judged(texts, t)
      <4>1. x \in seen.ci /\ x.finding_type \in {t[2], t[3]}
        BY <3>1 DEF CiFindings
      <4>2. x \notin Broad(texts)
        BY <2>5, <4>1, BroadFacts, CiTypesAreDistinct
      <4>3. PICK u \in CiTools : x = Judged(texts, u)
        BY <2>4, <2>8, <4>1, <4>2
      <4>4. x.finding_type \in {u[2], u[3]}
        BY <2>4, <2>5, <2>8, <4>3, JudgedFacts
      <4>5. u = t
        BY <4>1, <4>4, CiTypesAreDistinct
      <4> QED
        BY <4>3, <4>5
    <3>2. Judged(texts, t) \in S
      <4>1. Judged(texts, t).finding_type \in {t[2], t[3]} /\ Judged(texts, t) # Crashed
        BY <2>4, <2>5, <2>8, JudgedFacts
      <4>2. Judged(texts, t) \in seen.ci
        BY <2>4, <2>8
      <4> QED
        BY <4>1, <4>2 DEF CiFindings
    <3>3. S = {Judged(texts, t)}
      <4> HIDE DEF S
      <4> QED
        BY <3>1, <3>2
    <3>4. Cardinality({Judged(texts, t)}) = 1
      BY FS_Singleton
    <3> QED
      BY <3>3, <3>4
  <2>9. listed = {} => seen.ci = {}
    BY <2>1, <2>4
  <2> QED
    BY <2>7, <2>8, <2>9 DEF CiJudgesEachToolOnce, listed
<1> QED
  BY <1>1, InspectedHolds, PTL

-----------------------------------------------------------------------------
(* The checks of one file, one by one *)

\* The types of the checks that look at one line at a time.
LineTypes ==
    {"public_ingress", "sg_reference_ingress", "dockerfile_unpinned_base_image",
     "dockerfile_root_user", "dockerfile_add_remote_url", "dockerfile_secret_in_build_arg",
     "k8s_privileged_container", "k8s_host_network", "k8s_host_pid",
     "aws_access_key", "generic_secret_assignment"}

\* A finding about one line that matches.
OfOneLine(f, x) ==
    \E type \in LineTypes : \E i \in DOMAIN f.lines :
        type \in f.lines[i].has /\ x = Finding(f, type, i, i)

\* A finding that pairs the first line of one kind with the first line of another.
OfPolicies(f, x, type, action, resource) ==
    /\ FirstLine(f.lines, action) # 0 /\ FirstLine(f.lines, resource) # 0
    /\ x = Finding(f, type, FirstLine(f.lines, action), FirstLine(f.lines, resource))

\* A finding about the buckets of a file.
OfBuckets(f, x) ==
    LET bucket == FirstLine(f.lines, "aws_s3_bucket")
        sse    == FirstLine(f.lines, "aws_s3_bucket_server_side_encryption_configuration")
        algo   == FirstLine(f.lines, "sse_algorithm")
    IN  /\ bucket # 0
        /\ \/ sse = 0 /\ x = Finding(f, "unencrypted_s3", bucket, bucket)
           \/ sse # 0 /\ x = Finding(f, "s3_sse_enabled", sse, IF algo = 0 THEN sse ELSE algo)
           \/ /\ FirstLine(f.lines, "aws_s3_bucket_versioning") = 0
              /\ x = Finding(f, "missing_s3_versioning", bucket, bucket)

\* A finding about something that a whole file lacks.
OfFile(f, x) ==
    \/ /\ FirstLine(f.lines, "USER") = 0
       /\ x = Finding(f, "dockerfile_missing_nonroot_user", 1, Len(f.lines))
    \/ /\ FirstLine(f.lines, "resources:") = 0
       /\ x = Finding(f, "k8s_missing_resource_limits", 0, 0)
    \/ /\ FirstLine(f.lines, "securityContext:") = 0
       /\ x = Finding(f, "k8s_missing_security_context", 0, 0)

\* Every finding of a file comes from one of these checks.
LEMMA FileScanCases ==
    ASSUME NEW f \in File, NEW x \in FileScan(f)
    PROVE  \/ OfOneLine(f, x)
           \/ x \in Listeners(f)
           \/ OfPolicies(f, x, "wildcard_iam", "action_any", "resource_any")
           \/ OfPolicies(f, x, "scoped_iam", "action_list", "resource_list")
           \/ OfBuckets(f, x)
           \/ x \in PublicAccessBlocks(f)
           \/ OfFile(f, x)
<1>0. \A p : FirstLine(f.lines, p) \in Nat
  <2>1. f.lines \in Seq(Line)
    BY FileFacts
  <2> SUFFICES ASSUME NEW p PROVE FirstLine(f.lines, p) \in Nat
    OBVIOUS
  <2>2. FirstLine(f.lines, p) \in 0 .. Len(f.lines)
    BY <2>1, FirstLineFacts
  <2> QED
    BY <2>2
<1>1. ASSUME NEW types \in SUBSET LineTypes, x \in LineFindings(f, types) PROVE OfOneLine(f, x)
  BY <1>1, LineFindingsFacts DEF OfOneLine
<1>2. ASSUME NEW t, NEW a, NEW b, x \in Policies(f, t, a, b) PROVE OfPolicies(f, x, t, a, b)
  <2>1. FirstLine(f.lines, a) \in Nat /\ FirstLine(f.lines, b) \in Nat
    BY <1>0
  <2> QED
    BY <1>2, <2>1 DEF Policies, OfPolicies
<1>3. ASSUME x \in Buckets(f) PROVE OfBuckets(f, x)
  <2> DEFINE versioning == FirstLine(f.lines, "aws_s3_bucket_versioning")
  <2>1. versioning \in Nat
    BY <1>0
  <2>2. ~(versioning > 0) <=> versioning = 0
    BY <2>1
  <2> HIDE DEF versioning
  <2> QED
    BY <1>3, <2>2, Zenon DEF Buckets, OfBuckets, versioning
<1>4. ASSUME x \in ScanTerraform(f)
      PROVE  \/ OfOneLine(f, x)
             \/ x \in Listeners(f)
             \/ OfPolicies(f, x, "wildcard_iam", "action_any", "resource_any")
             \/ OfPolicies(f, x, "scoped_iam", "action_list", "resource_list")
             \/ OfBuckets(f, x)
             \/ x \in PublicAccessBlocks(f)
  <2>1. {"public_ingress", "sg_reference_ingress"} \in SUBSET LineTypes
    BY DEF LineTypes
  <2> QED
    BY <1>1, <1>2, <1>3, <1>4, <2>1 DEF ScanTerraform
<1>5. ASSUME x \in ScanDockerfile(f) PROVE OfOneLine(f, x) \/ OfFile(f, x)
  <2> DEFINE types == {"dockerfile_unpinned_base_image", "dockerfile_root_user",
                       "dockerfile_add_remote_url", "dockerfile_secret_in_build_arg"}
             user == FirstLine(f.lines, "USER")
  <2>1. types \in SUBSET LineTypes
    BY DEF LineTypes
  <2>2. x \in LineFindings(f, types) \cup
              IF user > 0 THEN {} ELSE {Finding(f, "dockerfile_missing_nonroot_user", 1, Len(f.lines))}
    BY <1>5 DEF ScanDockerfile
  <2>3. user \in Nat
    BY <1>0
  <2>4. x \in LineFindings(f, types) => OfOneLine(f, x)
    <3> HIDE DEF types
    <3> QED
      BY <1>1, <2>1
  <2>5. ASSUME ~(user > 0), x = Finding(f, "dockerfile_missing_nonroot_user", 1, Len(f.lines))
        PROVE  OfFile(f, x)
    <3>1. user = 0
      BY <2>3, <2>5
    <3> QED
      BY <2>5, <3>1 DEF OfFile
  <2> HIDE DEF types, user
  <2> QED
    BY <2>2, <2>4, <2>5
<1>6. ASSUME x \in ScanKubernetes(f) PROVE OfOneLine(f, x) \/ OfFile(f, x)
  <2> DEFINE types == {"k8s_privileged_container", "k8s_host_network", "k8s_host_pid"}
             limits == FirstLine(f.lines, "resources:")
             context == FirstLine(f.lines, "securityContext:")
  <2>1. types \in SUBSET LineTypes
    BY DEF LineTypes
  <2>2. \/ x \in LineFindings(f, types)
        \/ ~(limits > 0) /\ x = Finding(f, "k8s_missing_resource_limits", 0, 0)
        \/ ~(context > 0) /\ x = Finding(f, "k8s_missing_security_context", 0, 0)
    BY <1>6 DEF ScanKubernetes
  <2>3. limits \in Nat /\ context \in Nat
    BY <1>0
  <2>4. x \in LineFindings(f, types) => OfOneLine(f, x)
    <3> HIDE DEF types
    <3> QED
      BY <1>1, <2>1
  <2> HIDE DEF types, limits, context
  <2>5. /\ ~(limits > 0) => limits = 0
        /\ ~(context > 0) => context = 0
    BY <2>3
  <2> QED
    BY <2>2, <2>4, <2>5 DEF OfFile, limits, context
<1> QED
  BY <1>4, <1>5, <1>6 DEF FileScan

\* The types of the findings about listeners and access blocks.
LEMMA BlockTypes ==
    ASSUME NEW f
    PROVE  /\ \A x \in Listeners(f) : x.finding_type \in ListenerTypes
           /\ \A x \in PublicAccessBlocks(f) : x.finding_type = "s3_public_access_block"
<1>1. ASSUME NEW x \in Listeners(f) PROVE x.finding_type \in ListenerTypes
  BY FindingParts DEF Listeners, ListenerTypes
<1>2. ASSUME NEW x \in PublicAccessBlocks(f) PROVE x.finding_type = "s3_public_access_block"
  <2>1. \E first, last : x = Finding(f, "s3_public_access_block", first, last)
    BY Zenon DEF PublicAccessBlocks
  <2> QED
    BY <2>1, FindingParts
<1> QED
  BY <1>1, <1>2

\* What a file is said to lack, no line of it has.
LEMMA FileScanAbsence ==
    ASSUME NEW f \in File, NEW x \in FileScan(f), NEW a \in AbsentInFile,
           x.finding_type = a[1]
    PROVE  FirstLine(f.lines, a[2]) = 0
<1> DEFINE Absent(type, pattern) ==
             x.finding_type = type => FirstLine(f.lines, pattern) = 0
           All == /\ Absent("unencrypted_s3", "aws_s3_bucket_server_side_encryption_configuration")
                  /\ Absent("missing_s3_versioning", "aws_s3_bucket_versioning")
                  /\ Absent("dockerfile_missing_nonroot_user", "USER")
                  /\ Absent("k8s_missing_resource_limits", "resources:")
                  /\ Absent("k8s_missing_security_context", "securityContext:")
<1>1. All
  <2>1. CASE OfOneLine(f, x)
    <3>1. x.finding_type \in LineTypes
      BY <2>1, FindingParts DEF OfOneLine
    <3> QED
      BY <3>1 DEF LineTypes
  <2>2. CASE x \in Listeners(f)
    BY <2>2, BlockTypes DEF ListenerTypes
  <2>3. CASE OfPolicies(f, x, "wildcard_iam", "action_any", "resource_any")
    BY <2>3, FindingParts DEF OfPolicies
  <2>4. CASE OfPolicies(f, x, "scoped_iam", "action_list", "resource_list")
    BY <2>4, FindingParts DEF OfPolicies
  <2>5. CASE OfBuckets(f, x)
    BY <2>5, FindingParts DEF OfBuckets
  <2>6. CASE x \in PublicAccessBlocks(f)
    BY <2>6, BlockTypes
  <2>7. CASE OfFile(f, x)
    BY <2>7, FindingParts DEF OfFile
  <2> HIDE DEF All
  <2> QED
    BY <2>1, <2>2, <2>3, <2>4, <2>5, <2>6, <2>7, FileScanCases
<1> QED
  BY <1>1 DEF AbsentInFile

\* A CI finding is a judgement of a tool or of the permissions.
LEMMA CiFindingCases ==
    ASSUME NEW r, IsRepository(r), NEW x \in ScanCiSecurity(r) \ {Crashed}
    PROVE  /\ Open(r) # {} /\ Texts(r) # <<>>
           /\ \/ \E t \in CiTools : x = Judged(Texts(r), t)
              \/ x \in Broad(Texts(r))
<1>1. Open(r) # {}
  BY CiFacts
<1> QED
  BY <1>1, CiFacts

\* What the CI scan calls missing is in no line of the workflows that were read, but
\* for a declaration in a first line that was joined to the line before.
LEMMA CiAbsence ==
    ASSUME NEW r, IsRepository(r), NEW x \in ScanCiSecurity(r) \ {Crashed},
           NEW t \in CiTools, x.finding_type = t[3],
           NEW k \in DOMAIN r, NEW i \in DOMAIN r[k].lines,
           IsWorkflow(r[k]), t[1] \in r[k].lines[i].has, ~Unread(r[k])
    PROVE  t[1] = "permissions" /\ i = 1 /\ \E j \in 1 .. k - 1 : ~r[j].newline
<1> DEFINE texts == Texts(r)
<1>1. r \in Seq(File) /\ texts \in Seq(File) /\ texts = Filter(r, Open(r))
  BY TextsFacts DEF IsRepository
<1>2. texts # <<>>
  BY CiFindingCases
<1>3. ~InCombined(texts, t[1])
  <2>1. x \notin Broad(texts)
    BY <1>1, BroadFacts, CiTypesAreDistinct
  <2>2. PICK u \in CiTools : x = Judged(texts, u)
    BY <2>1, CiFindingCases
  <2> HIDE DEF texts
  <2>3. x.finding_type = IF InCombined(texts, u[1]) THEN u[2] ELSE u[3]
    BY <1>1, <1>2, <2>2, JudgedFacts
  <2>4. u = t
    BY <2>3, CiTypesAreDistinct
  <2> QED
    BY <2>3, <2>4, CiTypesAreDistinct
<1>4. r[k] \in Open(r)
  BY DEF Open, Listed, FilesOf, Unread
<1> HIDE DEF texts
<1>5. PICK m \in DOMAIN texts :
         /\ texts[m] = r[k]
         /\ \A j \in 1 .. m - 1 : \E h \in 1 .. k - 1 : r[h] = texts[j]
  <2>1. \E m \in DOMAIN Filter(r, Open(r)) :
           /\ Filter(r, Open(r))[m] = r[k]
           /\ \A j \in 1 .. m - 1 : \E h \in 1 .. k - 1 : r[h] = Filter(r, Open(r))[j]
    BY <1>1, <1>4, FilterKeepsOrder
  <2> QED
    BY <1>1, <2>1
<1>6. i \in Matches(texts[m].lines, t[1])
  BY <1>5 DEF Matches
<1>7. t[1] = "permissions" /\ i = 1 /\ Continues(texts, m)
  BY <1>3, <1>5, <1>6 DEF InCombined
<1> DEFINE before == {j \in 1 .. m - 1 : texts[j].lines # <<>>}
           last == FE!Max(before)
<1>8. before # {} /\ ~texts[last].newline
  BY <1>7 DEF Continues
<1>9. m - 1 \in Nat
  BY <1>1
<1>10. last \in before
  <2> HIDE DEF before, last
  <2>1. before \subseteq 1 .. m - 1
    BY DEF before
  <2> QED
    BY <1>8, <1>9, <2>1, MaxIsLargest DEF last
<1> HIDE DEF last
<1>11. PICK h \in 1 .. k - 1 : r[h] = texts[last]
  BY <1>5, <1>10
<1> QED
  BY <1>7, <1>8, <1>11

\* What is reported missing is missing from everything that was read.
THEOREM AbsenceIsRealHolds == Spec => []AbsenceIsReal
<1>1. Inspected => AbsenceIsReal
  <2> SUFFICES ASSUME Inspected, Scanned PROVE AbsenceIsReal
    BY DEF AbsenceIsReal
  <2> DEFINE files == SE!ToSet(IterRepoFiles(repo))
             secrets == {"aws_access_key", "generic_secret_assignment"}
  <2>1. IsRepository(repo) /\ Files = FilesOf(repo)
    BY FilesIsFilesOf DEF Inspected
  <2>2. files = {f \in Files : ~LeftOut(f)} /\ Files \subseteq File
    BY <2>1, IterFacts
  <2>3. /\ seen.iac = ScanIacSecurity(repo) /\ seen.ci = ScanCiSecurity(repo)
        /\ seen.secrets = ScanSecrets(repo)
    BY FoundParts DEF Inspected
  <2>4. /\ \A x \in seen.iac : \/ \E g \in files : ~g.gone /\ x \in FileScan(g)
                               \/ x \in ScanLogging(files)
        /\ \A x \in seen.secrets : \E g \in files : x \in LineFindings(g, secrets)
    BY <2>3 DEF ScanIacSecurity, ScanSecrets, FileScan
  <2>5. \A x \in ScanLogging(files) : x.finding_type = "audit_logging_missing"
    BY DEF ScanLogging, AuditLogging
  <2> HIDE DEF files
  <2>6. ASSUME NEW x \in Findings, NEW a \in AbsentInFile, x.finding_type = a[1],
               NEW f \in Files, Path(f) = x.path, NEW i \in DOMAIN f.lines
        PROVE  a[2] \notin f.lines[i].has
    <3>0. a[1] \in {"unencrypted_s3", "missing_s3_versioning",
                    "dockerfile_missing_nonroot_user", "k8s_missing_resource_limits",
                    "k8s_missing_security_context"}
      BY DEF AbsentInFile
    <3>1. x \notin CiFindings
      <4> SUFFICES ASSUME x \in CiFindings PROVE FALSE
        OBVIOUS
      <4>1. x \in ScanCiSecurity(repo) \ {Crashed}
        BY <2>3 DEF CiFindings
      <4>2. Texts(repo) \in Seq(File) /\ Texts(repo) # <<>>
        BY <2>1, <4>1, TextsFacts, CiFindingCases
      <4>3. x.finding_type = "overly_broad_permissions"
            \/ \E t \in CiTools : x.finding_type \in {t[2], t[3]}
        <5>1. ASSUME x \in Broad(Texts(repo)) PROVE x.finding_type = "overly_broad_permissions"
          BY <4>2, <5>1, BroadFacts
        <5>2. ASSUME NEW t \in CiTools, x = Judged(Texts(repo), t)
              PROVE  x.finding_type \in {t[2], t[3]}
          BY <4>2, <5>2, JudgedFacts
        <5> QED
          BY <2>1, <4>1, <5>1, <5>2, CiFindingCases
      <4> QED
        BY <2>6, <3>0, <4>3 DEF CiTools
    <3>2. x \notin seen.secrets
      <4>1. \A g : \A y \in LineFindings(g, secrets) : y.finding_type \in secrets
        BY LineFindingsFacts, FindingParts
      <4> QED
        BY <2>4, <2>6, <3>0, <4>1
    <3>3. x \notin ScanLogging(files)
      BY <2>5, <2>6, <3>0
    <3>4. PICK g \in files : x \in FileScan(g)
      BY <2>4, <3>1, <3>2, <3>3 DEF Findings
    <3>5. g = f
      <4>1. Path(g) = Path(f)
        BY <2>6, <3>4, FileScanHasPath
      <4> QED
        BY <2>1, <2>2, <4>1, PathsAreDistinct
    <3>6. FirstLine(f.lines, a[2]) = 0
      BY <2>2, <2>6, <3>4, <3>5, FileScanAbsence
    <3>7. f.lines \in Seq(Line)
      BY <2>2, FileFacts
    <3>8. a[2] \in f.lines[i].has => FirstLine(f.lines, a[2]) \in 1 .. i
      BY <3>7, FirstLineFacts
    <3> QED
      BY <3>6, <3>8
  <2>7. ASSUME NEW x \in CiFindings, NEW t \in CiTools, x.finding_type = t[3],
               NEW k \in DOMAIN repo, NEW i \in DOMAIN repo[k].lines,
               IsWorkflow(repo[k]), t[1] \in repo[k].lines[i].has
        PROVE  \/ Unread(repo[k])
               \/ t[1] = "permissions" /\ i = 1 /\ \E j \in 1 .. k - 1 : ~repo[j].newline
    <3>1. x \in ScanCiSecurity(repo) \ {Crashed}
      BY <2>3 DEF CiFindings
    <3> QED
      BY <2>1, <2>7, <3>1, CiAbsence
  <2>8. ASSUME AuditLogging("audit_logging_missing") \in seen.iac,
               NEW f \in Files, f.suffix = ".tf", ~Unread(f), NEW i \in DOMAIN f.lines
        PROVE  "audit_log" \notin f.lines[i].has
    <3> DEFINE x == AuditLogging("audit_logging_missing")
    <3>1. x.finding_type = "audit_logging_missing"
      BY DEF AuditLogging
    <3> HIDE DEF x
    <3>2. ASSUME NEW g \in files, x \in FileScan(g) PROVE FALSE
      <4>1. g \in File
        BY <2>2
      <4>2. x.finding_type # "audit_logging_missing"
        <5>1. CASE OfOneLine(g, x)
          <6>1. x.finding_type \in LineTypes
            BY <5>1, FindingParts DEF OfOneLine
          <6> QED
            BY <6>1 DEF LineTypes
        <5>2. CASE x \in Listeners(g)
          BY <5>2, BlockTypes DEF ListenerTypes
        <5>3. CASE OfPolicies(g, x, "wildcard_iam", "action_any", "resource_any")
          BY <5>3, FindingParts DEF OfPolicies
        <5>4. CASE OfPolicies(g, x, "scoped_iam", "action_list", "resource_list")
          BY <5>4, FindingParts DEF OfPolicies
        <5>5. CASE OfBuckets(g, x)
          BY <5>5, FindingParts DEF OfBuckets
        <5>6. CASE x \in PublicAccessBlocks(g)
          BY <5>6, BlockTypes
        <5>7. CASE OfFile(g, x)
          BY <5>7, FindingParts DEF OfFile
        <5> QED
          BY <3>2, <4>1, <5>1, <5>2, <5>3, <5>4, <5>5, <5>6, <5>7, FileScanCases
      <4> QED
        BY <3>1, <4>2
    <3>3. x \in ScanLogging(files)
      BY <2>4, <2>8, <3>2 DEF x
    <3>4. f \in files /\ ~f.gone
      BY <2>2, <2>8 DEF Unread
    <3>5. ~(FirstLine(f.lines, "audit_log") > 0)
      BY <2>8, <3>3, <3>4 DEF ScanLogging
    <3>6. f.lines \in Seq(Line) /\ DOMAIN f.lines = 1 .. Len(f.lines)
      BY <2>2, FileFacts
    <3>7. "audit_log" \in f.lines[i].has => FirstLine(f.lines, "audit_log") \in 1 .. i
      BY <3>6, FirstLineFacts
    <3> QED
      BY <3>5, <3>6, <3>7
  <2> QED
    BY <2>6, <2>7, <2>8 DEF AbsenceIsReal
<1> QED
  BY <1>1, InspectedHolds, PTL

-----------------------------------------------------------------------------
(* Blocks *)

\* The count of the braces, line after line.
Counts(d, lines, i, j) ==
    d[i - 1] = 0 /\ \A k \in i .. j : d[k] = d[k - 1] + lines[k].net

\* The recursive function of Depth exists: it satisfies its equation.
LEMMA DepthRuns ==
    ASSUME NEW lines \in Seq(Line), NEW i \in 1 .. Len(lines), NEW j \in i .. Len(lines)
    PROVE  \E d : Depth(lines, i, j) = d[j] /\ Counts(d, lines, i, j)
<1> DEFINE n == j - i + 1
           net(p) == IF i + p \in 1 .. Len(lines) THEN lines[i + p].net ELSE 0
           step == [p \in Nat \X Int |-> p[2] + net(p[1])]
           Eq(h) == [k \in i - 1 .. j |-> IF k < i THEN 0 ELSE h[k - 1] + lines[k].net]
<1>1. n \in Nat /\ {i, j} \subseteq Int /\ Len(lines) \in Nat /\ i >= 1
  OBVIOUS
<1>2. \A k \in 1 .. Len(lines) : lines[k].net \in Int
  <2>1. \A k \in 1 .. Len(lines) : lines[k] \in Line
    OBVIOUS
  <2> QED
    BY <2>1 DEF Line
<1>3. \A p \in Nat : net(p) \in Int
  BY <1>2
<1>4. step \in [Nat \X Int -> Int]
  <2> HIDE DEF net
  <2> SUFFICES ASSUME NEW p \in Nat \X Int PROVE p[2] + net(p[1]) \in Int
    OBVIOUS
  <2>1. p[1] \in Nat /\ p[2] \in Int
    OBVIOUS
  <2>2. net(p[1]) \in Int
    BY <1>3, <2>1
  <2> QED
    BY <2>1, <2>2
<1>5. PICK g \in [0 .. n -> Int] : Runs(g, n, 0, step)
  <2>1. n \in Nat /\ 0 \in Int
    BY <1>1
  <2> HIDE DEF step, n
  <2> QED
    BY <1>4, <2>1, RunExists
<1> DEFINE f == [k \in i - 1 .. j |-> g[k - i + 1]]
<1>6. f[i - 1] = 0
  <2>1. i - 1 \in i - 1 .. j /\ i - 1 - i + 1 = 0
    BY <1>1
  <2>2. g[0] = 0
    BY <1>5 DEF Runs
  <2> QED
    BY <2>1, <2>2
<1>7. ASSUME NEW k \in i .. j PROVE f[k] = f[k - 1] + lines[k].net
  <2>1. /\ k \in i - 1 .. j /\ k - 1 \in i - 1 .. j
        /\ k - i \in 0 .. n - 1 /\ k - i \in Nat /\ k - i \in 0 .. n
        /\ k - 1 - i + 1 = k - i /\ i + (k - i) = k
    BY <1>1
  <2>2. f[k] = g[k - i + 1] /\ f[k - 1] = g[k - i]
    BY <2>1
  <2>3. g[k - i + 1] = step[<<k - i, g[k - i]>>]
    BY <1>5, <2>1 DEF Runs
  <2>4. g[k - i] \in Int
    BY <2>1
  <2>5. step[<<k - i, g[k - i]>>] = g[k - i] + net(k - i)
    BY <2>1, <2>4
  <2>6. net(k - i) = lines[k].net
    <3>1. k \in 1 .. Len(lines)
      BY <1>1
    <3> QED
      BY <2>1, <3>1
  <2> QED
    BY <2>2, <2>3, <2>5, <2>6
<1>8. f = Eq(f)
  <2>1. ASSUME NEW k \in i - 1 .. j PROVE f[k] = Eq(f)[k]
    <3> HIDE DEF f
    <3>1. CASE k < i
      <4>1. k = i - 1
        BY <1>1, <3>1
      <4> QED
        BY <1>6, <3>1, <4>1
    <3>2. CASE ~(k < i)
      <4>1. k \in i .. j
        BY <1>1, <3>2
      <4> QED
        BY <1>7, <3>2, <4>1
    <3> QED
      BY <3>1, <3>2
  <2> QED
    BY <2>1
<1> DEFINE d == CHOOSE h : h = Eq(h)
<1>9. d = Eq(d)
  <2> HIDE DEF f
  <2> QED
    BY <1>8
<1>10. Depth(lines, i, j) = d[j]
  BY DEF Depth
<1>11. \A k \in i - 1 .. j : d[k] = Eq(d)[k]
  BY <1>9
<1> HIDE DEF d
<1>12. d[i - 1] = 0
  <2>1. i - 1 \in i - 1 .. j /\ i - 1 < i
    BY <1>1
  <2> QED
    BY <1>11, <2>1
<1>13. ASSUME NEW k \in i .. j PROVE d[k] = d[k - 1] + lines[k].net
  <2>1. k \in i - 1 .. j /\ ~(k < i)
    BY <1>1
  <2> QED
    BY <1>11, <2>1
<1> QED
  BY <1>10, <1>12, <1>13 DEF Counts

\* The braces of a part of the lines are counted as in the whole.
LEMMA DepthShift ==
    ASSUME NEW lines \in Seq(Line), NEW a \in 1 .. Len(lines), NEW b \in a .. Len(lines),
           NEW j \in 1 .. b - a + 1
    PROVE  Depth(SubSeq(lines, a, b), 1, j) = Depth(lines, a, a + j - 1)
<1> DEFINE sub == SubSeq(lines, a, b)
<1>1. /\ sub \in Seq(Line) /\ Len(sub) = b - a + 1
      /\ \A k \in 1 .. b - a + 1 : sub[k] = lines[a + k - 1]
      /\ Len(lines) \in Nat /\ {a, b, j} \subseteq Nat
  OBVIOUS
<1> HIDE DEF sub
<1>2. /\ 1 \in 1 .. Len(sub) /\ j \in 1 .. Len(sub)
      /\ a + j - 1 \in a .. Len(lines)
  BY <1>1
<1>3. PICK ds : Depth(sub, 1, j) = ds[j] /\ Counts(ds, sub, 1, j)
  BY <1>1, <1>2, DepthRuns
<1>4. PICK dl : Depth(lines, a, a + j - 1) = dl[a + j - 1] /\ Counts(dl, lines, a, a + j - 1)
  BY <1>2, DepthRuns
<1> DEFINE P == {k \in Nat : k <= j => ds[k] = dl[a - 1 + k]}
<1>5. 0 \in P
  <2>1. 1 - 1 = 0 /\ a - 1 + 0 = a - 1
    BY <1>1
  <2> QED
    BY <1>3, <1>4, <2>1 DEF Counts
<1>6. ASSUME NEW k \in Nat, k \in P PROVE k + 1 \in P
  <2> SUFFICES ASSUME k + 1 <= j PROVE ds[k + 1] = dl[a - 1 + (k + 1)]
    OBVIOUS
  <2>0. k + 1 \in 1 .. b - a + 1 /\ a + k \in a .. a + j - 1
    <3>1. j <= b - a + 1 /\ a + k <= a + j - 1
      BY <1>1
    <3> QED
      BY <1>1, <3>1
  <2>1. /\ k + 1 \in 1 .. j /\ k + 1 - 1 = k /\ k + 1 \in 1 .. b - a + 1
        /\ a - 1 + (k + 1) = a + k /\ a + k \in a .. a + j - 1
        /\ a + k - 1 = a - 1 + k /\ a + (k + 1) - 1 = a + k
        /\ k <= j
    <3>1. {a, b, j, k} \subseteq Int /\ k >= 0
      BY <1>1
    <3>2. k <= j /\ k + 1 \in 1 .. j
      BY <3>1
    <3>3. /\ k + 1 - 1 = k /\ a - 1 + (k + 1) = a + k
          /\ a + k - 1 = a - 1 + k /\ a + (k + 1) - 1 = a + k
      BY <3>1
    <3> QED
      BY <2>0, <3>2, <3>3, Zenon
  <2>2. ds[k] = dl[a - 1 + k]
    BY <1>6, <2>1
  <2>3. ds[k + 1] = ds[k] + sub[k + 1].net
    BY <1>3, <2>1 DEF Counts
  <2>4. dl[a + k] = dl[a - 1 + k] + lines[a + k].net
    BY <1>4, <2>1 DEF Counts
  <2>5. sub[k + 1] = lines[a + k]
    BY <1>1, <2>1
  <2> QED
    BY <2>1, <2>2, <2>3, <2>4, <2>5
<1>7. j \in P
  <2> HIDE DEF P
  <2> QED
    BY <1>1, <1>5, <1>6, NatInductionSet
<1>8. a - 1 + j = a + j - 1 /\ j <= j
  BY <1>1
<1> QED
  BY <1>3, <1>4, <1>7, <1>8 DEF sub

\* Where a block ends: at the first line after which its braces are closed.
LEMMA BlockEndFacts ==
    ASSUME NEW lines \in Seq(Line), NEW i \in 1 .. Len(lines)
    PROVE  /\ BlockEnd(lines, i) \in i .. Len(lines)
           /\ \A j \in i .. BlockEnd(lines, i) - 1 : Depth(lines, i, j) # 0
           /\ Depth(lines, i, BlockEnd(lines, i)) = 0 \/ BlockEnd(lines, i) = Len(lines)
<1> DEFINE closed == {j \in i .. Len(lines) : Depth(lines, i, j) = 0}
           end == BlockEnd(lines, i)
<1>1. Len(lines) \in Nat /\ i \in Nat /\ i <= Len(lines) /\ i >= 1
  OBVIOUS
<1>2. end = IF closed = {} THEN Len(lines) ELSE FE!Min(closed)
  BY DEF BlockEnd
<1>3. closed \subseteq Nat
  BY <1>1
<1> HIDE DEF end
<1>4. CASE closed = {}
  <2>1. end = Len(lines)
    BY <1>2, <1>4
  <2>2. \A j \in i .. end - 1 : j \in i .. Len(lines)
    BY <1>1, <2>1
  <2>3. \A j \in i .. end - 1 : Depth(lines, i, j) # 0
    BY <1>4, <2>2
  <2>4. end \in i .. Len(lines)
    BY <1>1, <2>1
  <2> QED
    BY <2>1, <2>3, <2>4 DEF end
<1>5. CASE closed # {}
  <2>1. end \in closed /\ \A m \in closed : end <= m
    <3> HIDE DEF closed
    <3> QED
      BY <1>2, <1>3, <1>5, MinIsLeast
  <2>2. end \in i .. Len(lines) /\ Depth(lines, i, end) = 0
    BY <2>1
  <2>3. ASSUME NEW j \in i .. end - 1, Depth(lines, i, j) = 0 PROVE FALSE
    <3>1. j \in closed
      BY <1>1, <2>2, <2>3
    <3>2. end <= j
      BY <2>1, <3>1
    <3> QED
      BY <1>1, <2>2, <3>2
  <2> QED
    BY <2>2, <2>3 DEF end
<1> QED
  BY <1>4, <1>5

\* A block with its end.
BlockAt(lines, i) == [first |-> i, last |-> BlockEnd(lines, i)]

\* bl gives, for each line, the blocks that are found from it on.
BlocksFrom(bl, lines, header) ==
    /\ ExtractResourceBlocks(lines, header) = bl[1]
    /\ bl[Len(lines) + 1] = {}
    /\ \A i \in 1 .. Len(lines) :
          bl[i] = IF header \in lines[i].has
                  THEN {BlockAt(lines, i)} \cup bl[BlockEnd(lines, i) + 1]
                  ELSE bl[i + 1]

\* The recursive function of ExtractResourceBlocks exists: it satisfies its equation.
LEMMA BlocksRun ==
    ASSUME NEW lines \in Seq(Line), NEW header
    PROVE  \E bl : BlocksFrom(bl, lines, header)
<1> DEFINE n == Len(lines)
           next == [i \in 1 .. n |-> IF header \in lines[i].has THEN BlockEnd(lines, i) + 1
                                     ELSE i + 1]
           own == [i \in 1 .. n |-> IF header \in lines[i].has THEN {BlockAt(lines, i)} ELSE {}]
           Body(h, i) == IF i > n THEN {}
                         ELSE IF header \in lines[i].has
                              THEN {[first |-> i, last |-> BlockEnd(lines, i)]}
                                   \cup h[BlockEnd(lines, i) + 1]
                              ELSE h[i + 1]
           Eq(h) == [i \in 1 .. n + 1 |-> Body(h, i)]
<1>1. n \in Nat
  OBVIOUS
<1>2. ASSUME NEW i \in 1 .. n PROVE next[i] \in i + 1 .. n + 1
  <2>1. BlockEnd(lines, i) \in i .. n
    BY BlockEndFacts
  <2>2. next[i] = IF header \in lines[i].has THEN BlockEnd(lines, i) + 1 ELSE i + 1
    OBVIOUS
  <2> HIDE DEF next, n
  <2> QED
    BY <1>1, <2>1, <2>2
<1>3. PICK f : Gathers(f, n, next, own)
  <2> HIDE DEF next, own, n
  <2>1. \A i \in 1 .. n : next[i] \in i + 1 .. n + 1
    BY <1>2
  <2> QED
    BY <1>1, <2>1, ForwardRecursion, Zenon
<1>4. \A i \in 1 .. n + 1 : f[i] = IF i > n THEN {} ELSE own[i] \cup f[next[i]]
  <2> HIDE DEF next, own, n
  <2> QED
    BY <1>3, Zenon DEF Gathers
<1>5. ASSUME NEW i \in 1 .. n + 1 PROVE f[i] = Body(f, i)
  <2>1. CASE i > n
    BY <1>4, <2>1
  <2>2. CASE ~(i > n)
    <3>1. i \in 1 .. n
      BY <1>1, <2>2
    <3>2. /\ own[i] = IF header \in lines[i].has THEN {BlockAt(lines, i)} ELSE {}
          /\ next[i] = IF header \in lines[i].has THEN BlockEnd(lines, i) + 1 ELSE i + 1
      BY <3>1
    <3>3. f[i] = own[i] \cup f[next[i]]
      BY <1>4, <2>2
    <3> HIDE DEF own, next, n
    <3> QED
      BY <2>2, <3>2, <3>3 DEF BlockAt
  <2> QED
    BY <2>1, <2>2
<1>6. f = Eq(f)
  <2>1. f = [i \in 1 .. n + 1 |-> f[i]]
    <3> HIDE DEF next, own, n
    <3> QED
      BY <1>3 DEF Gathers
  <2> HIDE DEF Body, n
  <2> QED
    BY <1>5, <2>1
<1> DEFINE bl == CHOOSE h : h = Eq(h)
<1>7. bl = Eq(bl)
  <2> HIDE DEF Eq
  <2> QED
    BY <1>6, Zenon
<1>8. ExtractResourceBlocks(lines, header) = bl[1]
  BY DEF ExtractResourceBlocks
<1> HIDE DEF bl
<1>9. \A i \in 1 .. n + 1 : bl[i] = Body(bl, i)
  <2> HIDE DEF Body
  <2> QED
    BY <1>7
<1>10. bl[n + 1] = {}
  <2>1. n + 1 \in 1 .. n + 1 /\ n + 1 > n
    BY <1>1
  <2> QED
    BY <1>9, <2>1
<1>11. ASSUME NEW i \in 1 .. n
       PROVE  bl[i] = IF header \in lines[i].has
                      THEN {BlockAt(lines, i)} \cup bl[BlockEnd(lines, i) + 1]
                      ELSE bl[i + 1]
  <2>1. i \in 1 .. n + 1 /\ ~(i > n)
    BY <1>1
  <2>2. bl[i] = Body(bl, i)
    BY <1>9, <2>1
  <2> HIDE DEF n
  <2> QED
    BY <2>1, <2>2 DEF BlockAt
<1>12. BlocksFrom(bl, lines, header)
  BY <1>8, <1>10, <1>11 DEF BlocksFrom
<1> QED
  BY <1>12

\* What is in the result for the lines from i on: blocks from their headers to their
\* ends, no two of which share a line, and one for every header.
GoodBlocks(S, lines, header, i) ==
    /\ \A b \in S :
          /\ b.first \in i .. Len(lines) /\ header \in lines[b.first].has
          /\ b.last = BlockEnd(lines, b.first)
    /\ \A b, c \in S : b.first <= c.last /\ c.first <= b.last => b = c
    /\ \A k \in i .. Len(lines) : header \in lines[k].has =>
          \E b \in S : b.first <= k /\ k <= b.last

\* The ends of the block that starts at a line.
LEMMA BlockAtParts ==
    ASSUME NEW lines, NEW i
    PROVE  BlockAt(lines, i).first = i /\ BlockAt(lines, i).last = BlockEnd(lines, i)
BY DEF BlockAt

\* What the extraction returns is blocks as they should be, from the first line on.
LEMMA BlockFacts ==
    ASSUME NEW lines \in Seq(Line), NEW header
    PROVE  GoodBlocks(ExtractResourceBlocks(lines, header), lines, header, 1)
<1> DEFINE n == Len(lines)
<1>0. PICK bl : BlocksFrom(bl, lines, header)
  BY BlocksRun
<1>1. /\ ExtractResourceBlocks(lines, header) = bl[1]
      /\ bl[n + 1] = {}
      /\ \A i \in 1 .. n :
            bl[i] = IF header \in lines[i].has
                    THEN {BlockAt(lines, i)} \cup bl[BlockEnd(lines, i) + 1]
                    ELSE bl[i + 1]
  BY <1>0, Zenon DEF BlocksFrom
<1> DEFINE Good(i) == GoodBlocks(bl[i], lines, header, i)
           P == {m \in Nat : m <= n => \A l \in 0 .. m : Good(n + 1 - l)}
<1>2. n \in Nat
  OBVIOUS
<1>3. ASSUME NEW i \in 1 .. n, \A k \in i + 1 .. n + 1 : Good(k) PROVE Good(i)
  <2> HIDE DEF Good
  <2>1. CASE header \in lines[i].has
    <3> DEFINE e == BlockEnd(lines, i)
               b0 == BlockAt(lines, i)
               rest == bl[e + 1]
    <3>1. e \in i .. n
      BY BlockEndFacts
    <3>2. b0.first = i /\ b0.last = e
      BY BlockAtParts
    <3>3. bl[i] = {b0} \cup rest
      BY <1>1, <2>1
    <3>4. Good(e + 1)
      <4> HIDE DEF e, n
      <4>1. e + 1 \in i + 1 .. n + 1
        BY <1>2, <3>1
      <4> QED
        BY <1>3, <4>1
    <3>5. /\ \A b \in rest : /\ b.first \in e + 1 .. n /\ header \in lines[b.first].has
                             /\ b.last = BlockEnd(lines, b.first)
          /\ \A b, c \in rest : b.first <= c.last /\ c.first <= b.last => b = c
          /\ \A k \in e + 1 .. n : header \in lines[k].has =>
                \E b \in rest : b.first <= k /\ k <= b.last
      BY <3>4 DEF Good, GoodBlocks
    <3> HIDE DEF e, b0, rest
    <3>6. ASSUME NEW b \in rest PROVE b.first \in i .. n /\ e < b.first /\ b.first <= b.last
      <4>1. b.first \in e + 1 .. n /\ b.last = BlockEnd(lines, b.first)
        BY <3>5
      <4>2. b.first \in 1 .. n
        BY <1>2, <3>1, <4>1
      <4>3. b.last \in b.first .. n
        BY <4>1, <4>2, BlockEndFacts
      <4> HIDE DEF n
      <4> QED
        BY <1>2, <3>1, <4>1, <4>2, <4>3
    <3>7. \A b \in bl[i] : /\ b.first \in i .. n /\ header \in lines[b.first].has
                           /\ b.last = BlockEnd(lines, b.first)
      <4>1. i \in i .. n
        OBVIOUS
      <4> HIDE DEF n
      <4> QED
        BY <2>1, <3>2, <3>3, <3>5, <3>6, <4>1 DEF e
    <3>8. ASSUME NEW b \in bl[i], NEW c \in bl[i], b.first <= c.last, c.first <= b.last
          PROVE  b = c
      <4>1. CASE b \in rest /\ c \in rest
        BY <3>5, <3>8, <4>1
      <4>2. CASE b = b0 /\ c \in rest
        <5>1. e < c.first /\ c.first <= e /\ c.first \in Int /\ e \in Int
          BY <3>1, <3>2, <3>6, <3>8, <4>2
        <5> QED
          BY <5>1
      <4>3. CASE c = b0 /\ b \in rest
        <5>1. e < b.first /\ b.first <= e /\ b.first \in Int /\ e \in Int
          BY <3>1, <3>2, <3>6, <3>8, <4>3
        <5> QED
          BY <5>1
      <4> QED
        BY <3>3, <3>8, <4>1, <4>2, <4>3
    <3>9. ASSUME NEW k \in i .. n, header \in lines[k].has
          PROVE  \E b \in bl[i] : b.first <= k /\ k <= b.last
      <4>1. CASE k <= e
        <5>1. b0 \in bl[i] /\ b0.first <= k /\ k <= b0.last
          BY <3>2, <3>3, <4>1
        <5> QED
          BY <5>1
      <4>2. CASE ~(k <= e)
        <5>1. k \in e + 1 .. n
          BY <1>2, <3>1, <4>2
        <5> QED
          BY <3>3, <3>5, <3>9, <5>1
      <4> QED
        BY <4>1, <4>2
    <3> QED
      BY <3>7, <3>8, <3>9 DEF Good, GoodBlocks
  <2>2. CASE header \notin lines[i].has
    <3>1. bl[i] = bl[i + 1] /\ i + 1 \in i + 1 .. n + 1
      <4>1. bl[i] = bl[i + 1]
        BY <1>1, <2>2
      <4>2. i \in Int /\ i <= n
        BY <1>2
      <4> HIDE DEF n
      <4>3. i + 1 \in i + 1 .. n + 1
        BY <1>2, <4>2
      <4> QED
        BY <4>1, <4>3
    <3>2. Good(i + 1)
      BY <1>3, <3>1
    <3>3. i + 1 .. n \subseteq i .. n /\ \A k \in i .. n : k # i => k \in i + 1 .. n
      BY <1>2
    <3> HIDE DEF n
    <3> QED
      BY <2>2, <3>1, <3>2, <3>3 DEF Good, GoodBlocks, n
  <2> QED
    BY <2>1, <2>2
<1>4. 0 \in P
  <2>1. n + 1 - 0 = n + 1 /\ n + 1 .. n = {} /\ \A l \in 0 .. 0 : l = 0
    BY <1>2
  <2>2. Good(n + 1)
    BY <1>1, <2>1 DEF GoodBlocks
  <2> HIDE DEF Good
  <2> QED
    BY <2>1, <2>2
<1>5. ASSUME NEW m \in Nat, m \in P PROVE m + 1 \in P
  <2> SUFFICES ASSUME m + 1 <= n PROVE \A l \in 0 .. m + 1 : Good(n + 1 - l)
    OBVIOUS
  <2> HIDE DEF Good
  <2>1. m <= n /\ n - m \in 1 .. n /\ n + 1 - (m + 1) = n - m
    BY <1>2
  <2>2. \A l \in 0 .. m : Good(n + 1 - l)
    BY <1>5, <2>1
  <2>3. ASSUME NEW k \in n - m + 1 .. n + 1 PROVE Good(k)
    <3> HIDE DEF n
    <3>1. n + 1 - k \in 0 .. m /\ n + 1 - (n + 1 - k) = k
      BY <1>2, <2>1
    <3> QED
      BY <2>2, <3>1
  <2>4. Good(n - m)
    BY <1>3, <2>1, <2>3
  <2>5. ASSUME NEW l \in 0 .. m + 1 PROVE Good(n + 1 - l)
    <3>1. CASE l \in 0 .. m
      BY <2>2, <3>1
    <3>2. CASE l \notin 0 .. m
      <4>1. l = m + 1
        BY <3>2
      <4> QED
        BY <2>1, <2>4, <4>1
    <3> QED
      BY <3>1, <3>2
  <2> QED
    BY <2>5
<1>7. n \in P
  <2> HIDE DEF P
  <2> QED
    BY <1>2, <1>4, <1>5, NatInductionSet
<1>8. Good(1)
  <2> HIDE DEF Good
  <2>1. n \in 0 .. n /\ n + 1 - n = 1 /\ n <= n
    BY <1>2
  <2> QED
    BY <1>7, <2>1
<1> QED
  BY <1>1, <1>8

\* The loop of _extract_resource_blocks finds the blocks, and each header lies in one.
THEOREM BlocksAreBlocksHolds == Spec => []BlocksAreBlocks
<1>1. Inspected => BlocksAreBlocks
  <2> SUFFICES ASSUME Inspected, Scanned, NEW f \in Files,
                      NEW header \in {"aws_lb_listener", "aws_s3_bucket_public_access_block"}
               PROVE  LET blocks == ExtractResourceBlocks(f.lines, header) IN
                      /\ \A i \in DOMAIN f.lines : header \in f.lines[i].has =>
                            Cardinality({b \in blocks : b.first <= i /\ i <= b.last}) = 1
                      /\ \A b \in blocks :
                            /\ header \in f.lines[b.first].has
                            /\ \A j \in b.first .. b.last - 1 : Depth(f.lines, b.first, j) # 0
                            /\ Depth(f.lines, b.first, b.last) = 0 \/ b.last = Len(f.lines)
    BY DEF BlocksAreBlocks
  <2> DEFINE lines == f.lines
             blocks == ExtractResourceBlocks(lines, header)
  <2>1. IsRepository(repo) /\ f \in FilesOf(repo)
    BY FilesIsFilesOf DEF Inspected
  <2>2. f \in File
    BY <2>1, IterFacts
  <2>3. lines \in Seq(Line) /\ DOMAIN lines = 1 .. Len(lines)
    BY <2>2, FileFacts
  <2> HIDE DEF lines
  <2>4. GoodBlocks(blocks, lines, header, 1)
    BY <2>3, BlockFacts
  <2>5. ASSUME NEW b \in blocks
        PROVE  /\ b.first \in 1 .. Len(lines) /\ b.last \in b.first .. Len(lines)
               /\ header \in lines[b.first].has
               /\ \A j \in b.first .. b.last - 1 : Depth(lines, b.first, j) # 0
               /\ Depth(lines, b.first, b.last) = 0 \/ b.last = Len(lines)
    <3>1. /\ b.first \in 1 .. Len(lines) /\ header \in lines[b.first].has
          /\ b.last = BlockEnd(lines, b.first)
      BY <2>4 DEF GoodBlocks
    <3> QED
      BY <2>3, <3>1, BlockEndFacts
  <2>6. ASSUME NEW i \in DOMAIN lines, header \in lines[i].has
        PROVE  Cardinality({b \in blocks : b.first <= i /\ i <= b.last}) = 1
    <3> HIDE DEF blocks
    <3>1. PICK b \in blocks : b.first <= i /\ i <= b.last
      BY <2>3, <2>4, <2>6 DEF GoodBlocks
    <3>2. ASSUME NEW c \in blocks, c.first <= i, i <= c.last PROVE c = b
      <4>1. {b.first, b.last, c.first, c.last, i} \subseteq Int
        BY <2>3, <2>5
      <4>2. b.first <= c.last /\ c.first <= b.last
        BY <3>1, <3>2, <4>1
      <4> QED
        BY <2>4, <4>2 DEF GoodBlocks
    <3>3. {c \in blocks : c.first <= i /\ i <= c.last} = {b}
      BY <3>1, <3>2
    <3>4. Cardinality({b}) = 1
      BY FS_Singleton
    <3> QED
      BY <3>3, <3>4, Zenon
  <2> QED
    BY <2>5, <2>6 DEF lines
<1> QED
  BY <1>1, InspectedHolds, PTL

-----------------------------------------------------------------------------
(* What the findings of blocks cite *)

\* The first line of its own with a pattern that a block has, counted in the block.
OwnLine(f, b, pattern) == FirstLine(SubSeq(f.lines, b.first, b.last), pattern)

\* The blocks of the listeners of a file.
ListenerBlocks(f) == ExtractResourceBlocks(f.lines, "aws_lb_listener")

\* What is said of one listener.
Verdict(f, b) ==
    IF OwnLine(f, b, "protocol_http") = 0
       \/ OwnLine(f, b, "protocol_https") \in 1 .. OwnLine(f, b, "protocol_http")
    THEN Finding(f, "https_listener", b.first, b.last)
    ELSE Finding(f, IF \A p \in {"redirect", "protocol_https"} : OwnLine(f, b, p) > 0
                    THEN "http_to_https_redirect" ELSE "plain_http_listener",
                 b.first + OwnLine(f, b, "protocol_http") - 1,
                 b.first + OwnLine(f, b, "protocol_http") - 1)

\* A listener without either protocol is not judged.
HasProtocol(f, b) == OwnLine(f, b, "protocol_https") > 0 \/ OwnLine(f, b, "protocol_http") > 0

\* The listener check says one thing of every block that names a protocol.
LEMMA ListenersAreVerdicts ==
    ASSUME NEW f
    PROVE  Listeners(f) = {Verdict(f, b) : b \in {c \in ListenerBlocks(f) : HasProtocol(f, c)}}
BY Zenon DEF Listeners, Verdict, HasProtocol, ListenerBlocks, OwnLine, BlockText

\* The ends of a block are lines of the file.
LEMMA BlockLines ==
    ASSUME NEW f \in File, NEW header, NEW b \in ExtractResourceBlocks(f.lines, header)
    PROVE  /\ b.first \in 1 .. Len(f.lines) /\ b.last \in b.first .. Len(f.lines)
           /\ header \in f.lines[b.first].has
           /\ b.last = BlockEnd(f.lines, b.first)
<1>1. f.lines \in Seq(Line)
  BY FileFacts
<1>2. /\ b.first \in 1 .. Len(f.lines) /\ header \in f.lines[b.first].has
      /\ b.last = BlockEnd(f.lines, b.first)
  BY <1>1, BlockFacts DEF GoodBlocks
<1> QED
  BY <1>1, <1>2, BlockEndFacts

\* The lines of a block are those of the file.
LEMMA PartLines ==
    ASSUME NEW lines \in Seq(Line), NEW a \in 1 .. Len(lines), NEW b \in a .. Len(lines)
    PROVE  /\ SubSeq(lines, a, b) \in Seq(Line)
           /\ Len(SubSeq(lines, a, b)) = b - a + 1
           /\ \A k \in 1 .. b - a + 1 : SubSeq(lines, a, b)[k] = lines[a + k - 1]
OBVIOUS

\* A line that a block has of its own is a line of the file between its ends.
LEMMA OwnLineFacts ==
    ASSUME NEW f \in File, NEW header, NEW b \in ExtractResourceBlocks(f.lines, header),
           NEW pattern
    PROVE  /\ OwnLine(f, b, pattern) \in 0 .. b.last - b.first + 1
           /\ OwnLine(f, b, pattern) # 0 =>
                 /\ b.first + OwnLine(f, b, pattern) - 1 \in b.first .. b.last
                 /\ b.first + OwnLine(f, b, pattern) - 1 \in 1 .. Len(f.lines)
                 /\ pattern \in f.lines[b.first + OwnLine(f, b, pattern) - 1].has
<1> DEFINE sub == SubSeq(f.lines, b.first, b.last)
           own == OwnLine(f, b, pattern)
<1>1. f.lines \in Seq(Line) /\ Len(f.lines) \in Nat
  BY FileFacts
<1>2. b.first \in 1 .. Len(f.lines) /\ b.last \in b.first .. Len(f.lines)
  BY BlockLines
<1>3. /\ sub \in Seq(Line) /\ Len(sub) = b.last - b.first + 1
      /\ \A k \in 1 .. b.last - b.first + 1 : sub[k] = f.lines[b.first + k - 1]
  BY <1>1, <1>2, PartLines
<1>4. own = FirstLine(sub, pattern)
  BY DEF OwnLine
<1> HIDE DEF sub, own
<1>5. own \in 0 .. Len(sub) /\ (own # 0 => pattern \in sub[own].has)
  BY <1>3, <1>4, FirstLineFacts
<1>6. own \in 0 .. b.last - b.first + 1
  BY <1>3, <1>5
<1>7. ASSUME own # 0
      PROVE  /\ b.first + own - 1 \in b.first .. b.last
             /\ b.first + own - 1 \in 1 .. Len(f.lines)
             /\ own \in 1 .. b.last - b.first + 1
  BY <1>1, <1>2, <1>6, <1>7
<1> QED
  BY <1>3, <1>5, <1>6, <1>7 DEF own

\* A finding about a listener cites its block, or the line with its protocol.
LEMMA ListenerCases ==
    ASSUME NEW f \in File, NEW b \in ListenerBlocks(f)
    PROVE  \/ Verdict(f, b) = Finding(f, "https_listener", b.first, b.last)
           \/ \E type \in {"http_to_https_redirect", "plain_http_listener"} :
              \E i \in b.first .. b.last :
                 /\ i \in 1 .. Len(f.lines) /\ "protocol_http" \in f.lines[i].has
                 /\ Verdict(f, b) = Finding(f, type, i, i)
<1> DEFINE http == OwnLine(f, b, "protocol_http")
           i == b.first + http - 1
           type == IF \A p \in {"redirect", "protocol_https"} : OwnLine(f, b, p) > 0
                   THEN "http_to_https_redirect" ELSE "plain_http_listener"
<1>1. http # 0 => /\ i \in b.first .. b.last /\ i \in 1 .. Len(f.lines)
                  /\ "protocol_http" \in f.lines[i].has
  BY OwnLineFacts DEF ListenerBlocks
<1>2. \/ Verdict(f, b) = Finding(f, "https_listener", b.first, b.last)
      \/ http # 0 /\ Verdict(f, b) = Finding(f, type, i, i)
  BY Zenon DEF Verdict
<1>3. type \in {"http_to_https_redirect", "plain_http_listener"}
  OBVIOUS
<1> HIDE DEF http, i, type
<1> QED
  BY <1>1, <1>2, <1>3

\* A finding about a public access block cites lines of it, in their order.
LEMMA PublicAccessCases ==
    ASSUME NEW f \in File, NEW x \in PublicAccessBlocks(f)
    PROVE  \E i, j \in 1 .. Len(f.lines) :
              i <= j /\ x = Finding(f, "s3_public_access_block", i, j)
<1> DEFINE Flags(b) == {i \in b.first .. b.last : f.lines[i].has \cap PublicAccessFlags # {}}
           blocks == ExtractResourceBlocks(f.lines, "aws_s3_bucket_public_access_block")
           All(b) == PublicAccessFlags \subseteq UNION {f.lines[i].has : i \in b.first .. b.last}
<1>1. PICK b \in blocks :
         /\ All(b)
         /\ x = Finding(f, "s3_public_access_block", FE!Min(Flags(b)), FE!Max(Flags(b)))
  BY Zenon DEF PublicAccessBlocks
<1>2. b.first \in 1 .. Len(f.lines) /\ b.last \in b.first .. Len(f.lines)
  BY BlockLines
<1>3. Len(f.lines) \in Nat
  BY FileFacts
<1>4. Flags(b) # {}
  <2>1. "block_public_acls" \in PublicAccessFlags
    BY DEF PublicAccessFlags
  <2>2. PICK i \in b.first .. b.last : "block_public_acls" \in f.lines[i].has
    BY <1>1, <2>1
  <2> QED
    BY <2>1, <2>2
<1>5. Flags(b) \subseteq 1 .. Len(f.lines)
  BY <1>2, <1>3
<1> DEFINE S == Flags(b)
<1> HIDE DEF S, Flags
<1>6. S # {} /\ S \subseteq 1 .. Len(f.lines) /\ S \subseteq Nat
  BY <1>4, <1>5 DEF S
<1>7. FE!Min(S) \in S /\ \A m \in S : FE!Min(S) <= m
  BY <1>6, MinIsLeast
<1>8. FE!Max(S) \in S
  BY <1>3, <1>6, MaxIsLargest
<1> QED
  BY <1>1, <1>6, <1>7, <1>8 DEF S

-----------------------------------------------------------------------------
(* Citations *)

\* The types of the CI scan, one by one.
LEMMA CiTypesAre ==
    CiTypes = {"dependency_audit_present", "dependency_audit_missing",
               "container_scan_present", "container_scan_missing",
               "sast_present", "sast_missing", "secret_scan_present", "secret_scan_missing",
               "permissions_declared", "missing_permissions_declaration",
               "overly_broad_permissions"}
BY DEF CiTypes, CiTools

\* The ends of a finding match what it is about.
EndsMatch(f, x) ==
    \A e \in EndPoints : x.finding_type = e[1] =>
        e[2] \in f.lines[x.start_line].has /\ e[3] \in f.lines[x.end_line].has

\* A finding of a file can be looked up in it.
Cited(f, x) ==
    /\ \/ {x.start_line, x.end_line} \subseteq DOMAIN f.lines
       \/ x.finding_type = "dockerfile_missing_nonroot_user" /\ f.lines = <<>>
    /\ EndsMatch(f, x)
    /\ \/ x.start_line <= x.end_line
       \/ x.finding_type \in {"wildcard_iam", "scoped_iam", "s3_sse_enabled"}
       \/ f.lines = <<>>

\* The types of iac findings whose ends tell something.
Ends(f, x, type, action, resource) ==
    x.finding_type = type =>
        action \in f.lines[x.start_line].has /\ resource \in f.lines[x.end_line].has

\* For a finding of the Terraform checks six cases are enough.
LEMMA EndsOfIac ==
    ASSUME NEW f, NEW x, x.finding_type \notin CiTypes,
           Ends(f, x, "wildcard_iam", "action_any", "resource_any"),
           Ends(f, x, "scoped_iam", "action_list", "resource_list"),
           Ends(f, x, "unencrypted_s3", "aws_s3_bucket", "aws_s3_bucket"),
           Ends(f, x, "missing_s3_versioning", "aws_s3_bucket", "aws_s3_bucket"),
           Ends(f, x, "plain_http_listener", "protocol_http", "protocol_http"),
           Ends(f, x, "http_to_https_redirect", "protocol_http", "protocol_http")
    PROVE  EndsMatch(f, x)
<1> SUFFICES ASSUME NEW e \in EndPoints, x.finding_type = e[1]
             PROVE  e[2] \in f.lines[x.start_line].has /\ e[3] \in f.lines[x.end_line].has
  BY DEF EndsMatch
<1>1. CASE e \in {<<t[2], t[1], t[1]>> : t \in CiTools}
  <2>1. PICK t \in CiTools : e = <<t[2], t[1], t[1]>>
    BY <1>1
  <2>2. e[1] \in CiTypes
    BY <2>1 DEF CiTypes
  <2> QED
    BY <2>2
<1>2. CASE e = <<"overly_broad_permissions", "write_all", "write_all">>
  BY <1>2, CiTypesAre
<1>3. CASE e \notin {<<t[2], t[1], t[1]>> : t \in CiTools}
           /\ e # <<"overly_broad_permissions", "write_all", "write_all">>
  <2>1. e \in {<<"wildcard_iam", "action_any", "resource_any">>,
               <<"scoped_iam", "action_list", "resource_list">>,
               <<"unencrypted_s3", "aws_s3_bucket", "aws_s3_bucket">>,
               <<"missing_s3_versioning", "aws_s3_bucket", "aws_s3_bucket">>,
               <<"plain_http_listener", "protocol_http", "protocol_http">>,
               <<"http_to_https_redirect", "protocol_http", "protocol_http">>}
    BY <1>3, Zenon DEF EndPoints
  <2> QED
    BY <2>1 DEF Ends
<1> QED
  BY <1>1, <1>2, <1>3

\* A finding about one line can be looked up.
LEMMA OneLineCited ==
    ASSUME NEW f \in File, NEW x, OfOneLine(f, x)
    PROVE  Cited(f, x)
<1> DEFINE n == Len(f.lines)
<1>0. n \in Nat /\ DOMAIN f.lines = 1 .. n
  BY FileFacts
<1> HIDE DEF n
<1>1. PICK type \in LineTypes : \E i \in 1 .. n : x = Finding(f, type, i, i)
  BY <1>0 DEF OfOneLine
<1>2. PICK i \in 1 .. n : x = Finding(f, type, i, i)
  BY <1>1
<1>3. x.finding_type = type /\ x.start_line = i /\ x.end_line = i
  BY <1>2, FindingParts
<1>4. EndsMatch(f, x)
  <2>1. x.finding_type \notin CiTypes
    BY <1>3, CiTypesAre DEF LineTypes
  <2>2. x.finding_type \notin {"wildcard_iam", "scoped_iam", "unencrypted_s3",
           "missing_s3_versioning", "plain_http_listener", "http_to_https_redirect"}
    BY <1>3 DEF LineTypes
  <2> QED
    BY <2>1, <2>2, EndsOfIac DEF Ends
<1> QED
  BY <1>0, <1>3, <1>4 DEF Cited

\* Every finding of a file that cites a line can be looked up.
LEMMA FileScanCited ==
    ASSUME NEW f \in File, NEW x \in FileScan(f), x.start_line > 0
    PROVE  Cited(f, x)
<1> DEFINE n == Len(f.lines)
           First(p) == FirstLine(f.lines, p)
<1>1. f.lines \in Seq(Line) /\ n \in Nat /\ DOMAIN f.lines = 1 .. n
  BY FileFacts
<1>2. ASSUME NEW p
      PROVE  First(p) # 0 => First(p) \in 1 .. n /\ p \in f.lines[First(p)].has
  BY <1>1, FirstLineFacts
<1> HIDE DEF n, First
<1>3. CASE OfOneLine(f, x)
  BY <1>3, OneLineCited
<1>4. CASE x \in Listeners(f)
  <2>1. PICK b \in ListenerBlocks(f) : x = Verdict(f, b)
    BY <1>4, ListenersAreVerdicts
  <2>2. b.first \in 1 .. n /\ b.last \in b.first .. n
    BY BlockLines DEF ListenerBlocks, n
  <2>3. CASE x = Finding(f, "https_listener", b.first, b.last)
    <3>1. x.finding_type = "https_listener" /\ x.start_line = b.first /\ x.end_line = b.last
      BY <2>3, FindingParts
    <3>2. EndsMatch(f, x)
      <4>1. x.finding_type \notin CiTypes
        BY <3>1, CiTypesAre
      <4> QED
        BY <3>1, <4>1, EndsOfIac DEF Ends
    <3>3. b.first \in 1 .. n /\ b.last \in 1 .. n /\ b.first <= b.last
      BY <1>1, <2>2
    <3> QED
      BY <1>1, <3>1, <3>2, <3>3 DEF Cited
  <2>4. CASE x # Finding(f, "https_listener", b.first, b.last)
    <3>1. PICK type \in {"http_to_https_redirect", "plain_http_listener"} :
             \E i \in b.first .. b.last :
                /\ i \in 1 .. n /\ "protocol_http" \in f.lines[i].has
                /\ x = Finding(f, type, i, i)
      BY <2>1, <2>4, ListenerCases DEF n
    <3>2. PICK i \in 1 .. n :
             "protocol_http" \in f.lines[i].has /\ x = Finding(f, type, i, i)
      BY <3>1
    <3>3. x.finding_type = type /\ x.start_line = i /\ x.end_line = i
      BY <3>2, FindingParts
    <3>4. EndsMatch(f, x)
      <4>1. x.finding_type \notin CiTypes
        BY <3>3, CiTypesAre
      <4> QED
        BY <3>2, <3>3, <4>1, EndsOfIac DEF Ends
    <3> QED
      BY <1>1, <3>3, <3>4 DEF Cited
  <2> QED
    BY <2>3, <2>4
<1>5. ASSUME NEW type, NEW action, NEW resource, OfPolicies(f, x, type, action, resource),
             <<type, action, resource>> \in {<<"wildcard_iam", "action_any", "resource_any">>,
                                             <<"scoped_iam", "action_list", "resource_list">>}
      PROVE  Cited(f, x)
  <2>1. x = Finding(f, type, First(action), First(resource))
        /\ First(action) # 0 /\ First(resource) # 0
    BY <1>5 DEF OfPolicies, First
  <2>2. /\ First(action) \in 1 .. n /\ action \in f.lines[First(action)].has
        /\ First(resource) \in 1 .. n /\ resource \in f.lines[First(resource)].has
    BY <1>2, <2>1
  <2>3. /\ x.finding_type = type /\ x.start_line = First(action)
        /\ x.end_line = First(resource)
    BY <2>1, FindingParts
  <2>4. EndsMatch(f, x)
    <3>1. \/ type = "wildcard_iam" /\ action = "action_any" /\ resource = "resource_any"
          \/ type = "scoped_iam" /\ action = "action_list" /\ resource = "resource_list"
      BY <1>5
    <3>2. x.finding_type \notin CiTypes
      BY <2>3, <3>1, CiTypesAre
    <3> QED
      BY <2>2, <2>3, <3>1, <3>2, EndsOfIac DEF Ends
  <2>5. type \in {"wildcard_iam", "scoped_iam"}
    BY <1>5
  <2> QED
    BY <1>1, <2>2, <2>3, <2>4, <2>5 DEF Cited
<1>6. CASE OfBuckets(f, x)
  <2> DEFINE bucket == First("aws_s3_bucket")
             sse == First("aws_s3_bucket_server_side_encryption_configuration")
             algo == First("sse_algorithm")
             to == IF algo = 0 THEN sse ELSE algo
  <2>1. /\ bucket # 0
        /\ \/ x = Finding(f, "unencrypted_s3", bucket, bucket)
           \/ sse # 0 /\ x = Finding(f, "s3_sse_enabled", sse, to)
           \/ x = Finding(f, "missing_s3_versioning", bucket, bucket)
    BY <1>6 DEF OfBuckets, First
  <2>2. bucket \in 1 .. n /\ "aws_s3_bucket" \in f.lines[bucket].has
    BY <1>2, <2>1
  <2>3. sse # 0 => sse \in 1 .. n /\ to \in 1 .. n
    BY <1>2
  <2> HIDE DEF bucket, sse, algo, to
  <2>4. CASE x = Finding(f, "unencrypted_s3", bucket, bucket)
             \/ x = Finding(f, "missing_s3_versioning", bucket, bucket)
    <3>1. /\ x.finding_type \in {"unencrypted_s3", "missing_s3_versioning"}
          /\ x.start_line = bucket /\ x.end_line = bucket
      BY <2>4, FindingParts
    <3>2. x.finding_type \notin CiTypes
      BY <3>1, CiTypesAre
    <3>3. EndsMatch(f, x)
      BY <2>2, <3>1, <3>2, EndsOfIac DEF Ends
    <3> QED
      BY <1>1, <2>2, <3>1, <3>3 DEF Cited
  <2>5. CASE sse # 0 /\ x = Finding(f, "s3_sse_enabled", sse, to)
    <3>1. x.finding_type = "s3_sse_enabled" /\ x.start_line = sse /\ x.end_line = to
      BY <2>5, FindingParts
    <3>2. x.finding_type \notin CiTypes
      BY <3>1, CiTypesAre
    <3>3. EndsMatch(f, x)
      BY <3>1, <3>2, EndsOfIac DEF Ends
    <3> QED
      BY <1>1, <2>3, <2>5, <3>1, <3>3 DEF Cited
  <2> QED
    BY <2>1, <2>4, <2>5
<1>7. CASE x \in PublicAccessBlocks(f)
  <2>1. PICK i \in 1 .. n, j \in 1 .. n :
           i <= j /\ x = Finding(f, "s3_public_access_block", i, j)
    BY <1>7, PublicAccessCases DEF n
  <2>2. x.finding_type = "s3_public_access_block" /\ x.start_line = i /\ x.end_line = j
    BY <2>1, FindingParts
  <2>3. EndsMatch(f, x)
    <3>1. x.finding_type \notin CiTypes
      BY <2>2, CiTypesAre
    <3> QED
      BY <2>2, <3>1, EndsOfIac DEF Ends
  <2> QED
    BY <1>1, <2>1, <2>2, <2>3 DEF Cited
<1>8. CASE OfFile(f, x)
  <2>1. x = Finding(f, "dockerfile_missing_nonroot_user", 1, n)
    <3>1. ASSUME NEW type, x = Finding(f, type, 0, 0) PROVE FALSE
      <4>1. x.start_line = 0
        BY <3>1, FindingParts
      <4> QED
        BY <4>1
    <3> QED
      BY <1>8, <3>1 DEF OfFile, n
  <2>2. /\ x.finding_type = "dockerfile_missing_nonroot_user"
        /\ x.start_line = 1 /\ x.end_line = n
    BY <2>1, FindingParts
  <2>3. EndsMatch(f, x)
    <3>1. x.finding_type \notin CiTypes
      BY <2>2, CiTypesAre
    <3> QED
      BY <2>2, <3>1, EndsOfIac DEF Ends
  <2>4. CASE n = 0
    <3>1. f.lines = <<>>
      BY <1>1, <2>4, EmptySeq DEF n
    <3> QED
      BY <2>2, <2>3, <3>1 DEF Cited
  <2>5. CASE n # 0
    <3>1. 1 \in 1 .. n /\ n \in 1 .. n /\ 1 <= n
      BY <1>1, <2>5
    <3> QED
      BY <1>1, <2>2, <2>3, <3>1 DEF Cited
  <2> QED
    BY <2>4, <2>5
<1> QED
  BY <1>3, <1>4, <1>5, <1>6, <1>7, <1>8, FileScanCases

\* A presence that the CI scan reports has ends of its own pattern.
LEMMA EndsOfCi ==
    /\ \A t \in CiTools, e \in EndPoints : e[1] = t[2] => e[2] = t[1] /\ e[3] = t[1]
    /\ \A e \in EndPoints : e[1] = "overly_broad_permissions" =>
          e[2] = "write_all" /\ e[3] = "write_all"
<1>1. ASSUME NEW e \in EndPoints
      PROVE  \/ \E u \in CiTools : e = <<u[2], u[1], u[1]>>
             \/ e = <<"overly_broad_permissions", "write_all", "write_all">>
             \/ e[1] \in {"wildcard_iam", "scoped_iam", "unencrypted_s3",
                          "missing_s3_versioning", "plain_http_listener",
                          "http_to_https_redirect"}
  <2>1. CASE e \in {<<t[2], t[1], t[1]>> : t \in CiTools}
    BY <2>1
  <2>2. CASE e \notin {<<t[2], t[1], t[1]>> : t \in CiTools}
             /\ e # <<"overly_broad_permissions", "write_all", "write_all">>
    <3>1. e \in {<<"wildcard_iam", "action_any", "resource_any">>,
                 <<"scoped_iam", "action_list", "resource_list">>,
                 <<"unencrypted_s3", "aws_s3_bucket", "aws_s3_bucket">>,
                 <<"missing_s3_versioning", "aws_s3_bucket", "aws_s3_bucket">>,
                 <<"plain_http_listener", "protocol_http", "protocol_http">>,
                 <<"http_to_https_redirect", "protocol_http", "protocol_http">>}
      BY <2>2, Zenon DEF EndPoints
    <3> QED
      BY <3>1
  <2> QED
    BY <2>1, <2>2
<1>2. ASSUME NEW t \in CiTools, NEW e \in EndPoints, e[1] = t[2]
      PROVE  e[2] = t[1] /\ e[3] = t[1]
  <2>1. t[2] \in CiTypes /\ t[2] # "overly_broad_permissions"
    BY CiTypesAreDistinct DEF CiTypes
  <2>2. PICK u \in CiTools : e = <<u[2], u[1], u[1]>>
    BY <1>1, <1>2, <2>1, CiTypesAre
  <2>3. u = t
    BY <1>2, <2>2, CiTypesAreDistinct
  <2> QED
    BY <2>2, <2>3
<1>3. ASSUME NEW e \in EndPoints, e[1] = "overly_broad_permissions"
      PROVE  e[2] = "write_all" /\ e[3] = "write_all"
  <2>1. ~\E u \in CiTools : e = <<u[2], u[1], u[1]>>
    BY <1>3, CiTypesAreDistinct
  <2> QED
    BY <1>1, <1>3, <2>1
<1> QED
  BY <1>2, <1>3

\* A finding of the CI scan that cites a line can be looked up in a workflow.
LEMMA CiCited ==
    ASSUME NEW r, IsRepository(r), NEW x \in ScanCiSecurity(r) \ {Crashed}, x.start_line > 0
    PROVE  \E f \in FilesOf(r) : Path(f) = x.path /\ ~Unread(f) /\ Cited(f, x)
<1> DEFINE texts == Texts(r)
<1>1. texts \in Seq(File) /\ SE!ToSet(texts) = Open(r)
  BY TextsFacts
<1>2. \/ \E t \in CiTools : x = Judged(texts, t)
      \/ x \in Broad(texts)
  BY CiFindingCases
<1>3. texts # <<>>
  BY CiFindingCases
<1> HIDE DEF texts
<1>4. ASSUME NEW pattern, NEW type, InCombined(texts, pattern), x = Cite(texts, pattern, type),
             \A e \in EndPoints : e[1] = type => e[2] = pattern /\ e[3] = pattern
      PROVE  \E f \in FilesOf(r) : Path(f) = x.path /\ ~Unread(f) /\ Cited(f, x)
  <2>1. PICK k \in DOMAIN texts : \E i \in DOMAIN texts[k].lines :
           pattern \in texts[k].lines[i].has /\ x = Finding(texts[k], type, i, i)
    BY <1>1, <1>4, CiteFacts
  <2>2. PICK i \in DOMAIN texts[k].lines :
           pattern \in texts[k].lines[i].has /\ x = Finding(texts[k], type, i, i)
    BY <2>1
  <2> DEFINE f == texts[k]
  <2>3. f \in Open(r)
    BY <1>1, <2>1 DEF SE!ToSet
  <2>4. f \in FilesOf(r) /\ ~Unread(f) /\ f \in File
    BY <1>1, <2>3 DEF Open, Listed, Unread
  <2> HIDE DEF f
  <2>5. /\ x.path = Path(f) /\ x.finding_type = type
        /\ x.start_line = i /\ x.end_line = i
    BY <2>2, FindingParts DEF f
  <2>6. i \in DOMAIN f.lines /\ i <= i
    BY <2>2, <2>4, FileFacts DEF f
  <2>7. EndsMatch(f, x)
    BY <1>4, <2>2, <2>5 DEF EndsMatch, f
  <2>8. Cited(f, x)
    BY <2>5, <2>6, <2>7 DEF Cited
  <2> QED
    BY <2>4, <2>5, <2>8
<1>5. CASE \E t \in CiTools : x = Judged(texts, t)
  <2>1. PICK t \in CiTools : x = Judged(texts, t)
    BY <1>5
  <2>2. InCombined(texts, t[1]) /\ x = Cite(texts, t[1], t[2])
    <3>1. ASSUME x = Finding(texts[1], t[3], 0, 0) PROVE FALSE
      <4>1. x.start_line = 0
        BY <3>1, FindingParts
      <4> QED
        BY <4>1
    <3> QED
      BY <2>1, <3>1 DEF Judged
  <2> QED
    BY <1>4, <2>2, EndsOfCi
<1>6. CASE x \in Broad(texts)
  <2>1. InCombined(texts, "write_all")
        /\ x = Cite(texts, "write_all", "overly_broad_permissions")
    BY <1>6 DEF Broad
  <2> QED
    BY <1>4, <2>1, EndsOfCi
<1> QED
  BY <1>2, <1>5, <1>6

\* Every citation can be looked up in a file that was read.
THEOREM CitationsHoldHolds == Spec => []CitationsHold
<1>1. Inspected => CitationsHold
  <2> SUFFICES ASSUME Inspected, Scanned, NEW x \in Findings, x.start_line > 0
               PROVE  \E f \in Files : Path(f) = x.path /\ ~Unread(f) /\ Cited(f, x)
    BY Zenon DEF CitationsHold, Cited, EndsMatch
  <2> DEFINE files == SE!ToSet(IterRepoFiles(repo))
             secrets == {"aws_access_key", "generic_secret_assignment"}
  <2>1. IsRepository(repo) /\ Files = FilesOf(repo)
    BY FilesIsFilesOf DEF Inspected
  <2>2. files = {f \in Files : ~LeftOut(f)} /\ Files \subseteq File
    BY <2>1, IterFacts
  <2>3. /\ seen.iac = ScanIacSecurity(repo) /\ seen.ci = ScanCiSecurity(repo)
        /\ seen.secrets = ScanSecrets(repo)
    BY FoundParts DEF Inspected
  <2>4. /\ \A y \in seen.iac : \/ \E g \in files : ~g.gone /\ y \in FileScan(g)
                               \/ y \in ScanLogging(files)
        /\ \A y \in seen.secrets : \E g \in files : ~g.gone /\ y \in LineFindings(g, secrets)
    BY <2>3 DEF ScanIacSecurity, ScanSecrets, FileScan
  <2>5. \A y \in ScanLogging(files) : y.start_line = 0
    BY DEF ScanLogging, AuditLogging
  <2> HIDE DEF files
  <2>6. \A g \in files : g \in Files /\ g \in File /\ (~g.gone => ~Unread(g))
    BY <2>2 DEF Unread
  <2>7. CASE x \in seen.iac
    <3>1. x \notin ScanLogging(files)
      BY <2>5
    <3>2. PICK g \in files : ~g.gone /\ x \in FileScan(g)
      BY <2>4, <2>7, <3>1
    <3>3. Path(g) = x.path
      BY <3>2, FileScanHasPath
    <3>4. Cited(g, x)
      BY <2>6, <3>2, FileScanCited
    <3> QED
      BY <2>6, <3>2, <3>3, <3>4
  <2>8. CASE x \in seen.secrets
    <3>1. PICK g \in files : ~g.gone /\ x \in LineFindings(g, secrets)
      BY <2>4, <2>8
    <3>2. secrets \subseteq LineTypes
      BY DEF LineTypes
    <3>3. OfOneLine(g, x)
      BY <3>1, <3>2, LineFindingsFacts DEF OfOneLine
    <3>4. Path(g) = x.path
      BY <3>1, LineFindingsFacts, FindingParts
    <3>5. Cited(g, x)
      BY <2>6, <3>3, OneLineCited
    <3> QED
      BY <2>6, <3>1, <3>4, <3>5
  <2>9. CASE x \in CiFindings
    <3>1. x \in ScanCiSecurity(repo) \ {Crashed}
      BY <2>3, <2>9 DEF CiFindings
    <3> QED
      BY <2>1, <3>1, CiCited
  <2> QED
    BY <2>7, <2>8, <2>9 DEF Findings
<1> QED
  BY <1>1, InspectedHolds, PTL

-----------------------------------------------------------------------------
(* A listener by itself *)

\* The file with the lines of one block and no others.
Alone(f, b) == [f EXCEPT !.lines = SubSeq(f.lines, b.first, b.last)]

\* The file that holds nothing but one block.
LEMMA AloneFacts ==
    ASSUME NEW f \in File, NEW b \in ListenerBlocks(f)
    PROVE  /\ Alone(f, b) \in File
           /\ Alone(f, b).lines = SubSeq(f.lines, b.first, b.last)
           /\ Alone(f, b).suffix = f.suffix
<1>1. f.lines \in Seq(Line)
  BY FileFacts
<1>2. b.first \in 1 .. Len(f.lines) /\ b.last \in b.first .. Len(f.lines)
  BY BlockLines DEF ListenerBlocks
<1>3. SubSeq(f.lines, b.first, b.last) \in Seq(Line)
  BY <1>1, <1>2, PartLines
<1>4. f.suffix \in STRING
  BY DEF File
<1> QED
  BY <1>3, <1>4 DEF Alone, File

\* A block by itself is one block.
LEMMA BlockAlone ==
    ASSUME NEW f \in File, NEW b \in ListenerBlocks(f)
    PROVE  \E c : /\ ListenerBlocks(Alone(f, b)) = {c}
                  /\ c.first = 1 /\ c.last = b.last - b.first + 1
<1> DEFINE lines == f.lines
           sub == SubSeq(lines, b.first, b.last)
           n == b.last - b.first + 1
           e == BlockEnd(sub, 1)
           header == "aws_lb_listener"
           blocks == ExtractResourceBlocks(sub, header)
<1>1. lines \in Seq(Line) /\ Len(lines) \in Nat
  BY FileFacts
<1>2. /\ b.first \in 1 .. Len(lines) /\ b.last \in b.first .. Len(lines)
      /\ header \in lines[b.first].has /\ b.last = BlockEnd(lines, b.first)
  BY BlockLines DEF ListenerBlocks
<1> HIDE DEF lines
<1>3. n \in Nat /\ n >= 1
  BY <1>1, <1>2
<1>4. /\ sub \in Seq(Line) /\ Len(sub) = n
      /\ \A k \in 1 .. n : sub[k] = lines[b.first + k - 1]
  BY <1>1, <1>2, PartLines
<1>5. header \in sub[1].has /\ 1 \in 1 .. n
  <2>1. 1 \in 1 .. n /\ b.first + 1 - 1 = b.first
    BY <1>1, <1>2, <1>3
  <2> QED
    BY <1>2, <1>4, <2>1
<1> HIDE DEF sub
<1>6. /\ e \in 1 .. n
      /\ Depth(sub, 1, e) = 0 \/ e = n
  <2>1. 1 \in 1 .. Len(sub)
    BY <1>4, <1>5
  <2> QED
    BY <1>4, <2>1, BlockEndFacts
<1> HIDE DEF e
<1>7. e = n
  <2> SUFFICES ASSUME e # n PROVE FALSE
    OBVIOUS
  <2>1. Depth(sub, 1, e) = 0
    BY <1>6
  <2>2. Depth(sub, 1, e) = Depth(lines, b.first, b.first + e - 1)
    BY <1>1, <1>2, <1>6, DepthShift DEF sub
  <2>3. b.first + e - 1 \in b.first .. b.last - 1
    BY <1>1, <1>2, <1>3, <1>6
  <2>4. \A j \in b.first .. b.last - 1 : Depth(lines, b.first, j) # 0
    BY <1>1, <1>2, BlockEndFacts
  <2> QED
    BY <2>1, <2>2, <2>3, <2>4
<1>8. GoodBlocks(blocks, sub, header, 1)
  BY <1>4, BlockFacts
<1> HIDE DEF blocks
<1>9. \A d \in blocks : d.first \in 1 .. n /\ d.last = BlockEnd(sub, d.first)
  BY <1>4, <1>8 DEF GoodBlocks
<1>10. \A d \in blocks : d.last \in d.first .. n
  BY <1>4, <1>9, BlockEndFacts
<1>11. PICK c \in blocks : c.first <= 1 /\ 1 <= c.last
  BY <1>4, <1>5, <1>8 DEF GoodBlocks
<1>12. c.first = 1 /\ c.last = n
  <2>1. c.first \in 1 .. n
    BY <1>9
  <2>2. c.first = 1
    BY <1>3, <1>11, <2>1
  <2> QED
    BY <1>7, <1>9, <2>2 DEF e
<1>13. ASSUME NEW d \in blocks PROVE d = c
  <2>1. d.first \in 1 .. n /\ d.last \in d.first .. n
    BY <1>9, <1>10
  <2>2. d.first <= c.last /\ c.first <= d.last
    BY <1>3, <1>12, <2>1
  <2> QED
    BY <1>8, <2>2 DEF GoodBlocks
<1>14. ListenerBlocks(Alone(f, b)) = blocks
  BY AloneFacts DEF ListenerBlocks, blocks, sub, lines
<1>15. blocks = {c}
  BY <1>11, <1>13
<1> QED
  BY <1>12, <1>14, <1>15

\* The lines that a block has of its own are those that it has by itself.
LEMMA OwnLineAlone ==
    ASSUME NEW f \in File, NEW b \in ListenerBlocks(f), NEW c,
           c.first = 1, c.last = b.last - b.first + 1, NEW pattern
    PROVE  OwnLine(Alone(f, b), c, pattern) = OwnLine(f, b, pattern)
<1> DEFINE sub == SubSeq(f.lines, b.first, b.last)
<1>1. f.lines \in Seq(Line)
  BY FileFacts
<1>2. b.first \in 1 .. Len(f.lines) /\ b.last \in b.first .. Len(f.lines)
  BY BlockLines DEF ListenerBlocks
<1>3. sub \in Seq(Line) /\ Len(sub) = b.last - b.first + 1
  BY <1>1, <1>2, PartLines
<1>4. Alone(f, b).lines = sub
  BY AloneFacts
<1> HIDE DEF sub
<1>5. SubSeq(sub, 1, Len(sub)) = sub
  BY <1>3
<1>6. SubSeq(Alone(f, b).lines, c.first, c.last) = sub
  BY <1>3, <1>4, <1>5
<1> QED
  BY <1>6 DEF OwnLine, sub

\* What a scan says of listeners, without the path.
Triples(found) ==
    {<<x.finding_type, x.start_line, x.end_line>> :
        x \in {y \in found : y.finding_type \in ListenerTypes}}

\* What a scan of Terraform says of listeners comes from Listeners.
LEMMA ListenersOnly ==
    ASSUME NEW f \in File, NEW x \in FileScan(f), x.finding_type \in ListenerTypes
    PROVE  x \in Listeners(f)
<1>1. CASE OfOneLine(f, x)
  <2>1. x.finding_type \in LineTypes
    BY <1>1, FindingParts DEF OfOneLine
  <2> QED
    BY <2>1 DEF LineTypes, ListenerTypes
<1>2. CASE OfPolicies(f, x, "wildcard_iam", "action_any", "resource_any")
  BY <1>2, FindingParts DEF OfPolicies, ListenerTypes
<1>3. CASE OfPolicies(f, x, "scoped_iam", "action_list", "resource_list")
  BY <1>3, FindingParts DEF OfPolicies, ListenerTypes
<1>4. CASE OfBuckets(f, x)
  <2>1. x.finding_type \in {"unencrypted_s3", "s3_sse_enabled", "missing_s3_versioning"}
    BY <1>4, FindingParts DEF OfBuckets
  <2> QED
    BY <2>1 DEF ListenerTypes
<1>5. CASE x \in PublicAccessBlocks(f)
  BY <1>5, BlockTypes DEF ListenerTypes
<1>6. CASE OfFile(f, x)
  <2>1. x.finding_type \in {"dockerfile_missing_nonroot_user", "k8s_missing_resource_limits",
                            "k8s_missing_security_context"}
    BY <1>6, FindingParts DEF OfFile
  <2> QED
    BY <2>1 DEF ListenerTypes
<1> QED
  BY <1>1, <1>2, <1>3, <1>4, <1>5, <1>6, FileScanCases

\* A verdict names a type of listener and a line of its own block.
LEMMA VerdictFacts ==
    ASSUME NEW f \in File, NEW b \in ListenerBlocks(f)
    PROVE  /\ Verdict(f, b).finding_type \in ListenerTypes
           /\ Verdict(f, b).path = Path(f)
           /\ Verdict(f, b).start_line \in b.first .. b.last
<1>1. b.first \in 1 .. Len(f.lines) /\ b.last \in b.first .. Len(f.lines)
  BY BlockLines DEF ListenerBlocks
<1>2. b.first \in b.first .. b.last
  BY <1>1
<1>3. CASE Verdict(f, b) = Finding(f, "https_listener", b.first, b.last)
  BY <1>2, <1>3, FindingParts DEF ListenerTypes
<1>4. CASE Verdict(f, b) # Finding(f, "https_listener", b.first, b.last)
  <2>1. PICK type \in {"http_to_https_redirect", "plain_http_listener"} :
           \E i \in b.first .. b.last : Verdict(f, b) = Finding(f, type, i, i)
    BY <1>4, ListenerCases
  <2>2. PICK i \in b.first .. b.last : Verdict(f, b) = Finding(f, type, i, i)
    BY <2>1
  <2> QED
    BY <2>2, FindingParts DEF ListenerTypes
<1> QED
  BY <1>3, <1>4

\* The verdict on a block by itself is the verdict on it in its file, moved to the
\* start of the file.
LEMMA VerdictAlone ==
    ASSUME NEW f \in File, NEW b \in ListenerBlocks(f), NEW c,
           c.first = 1, c.last = b.last - b.first + 1
    PROVE  /\ HasProtocol(Alone(f, b), c) <=> HasProtocol(f, b)
           /\ Verdict(Alone(f, b), c).finding_type = Verdict(f, b).finding_type
           /\ Verdict(Alone(f, b), c).start_line + b.first - 1 = Verdict(f, b).start_line
           /\ Verdict(Alone(f, b), c).end_line + b.first - 1 = Verdict(f, b).end_line
<1> DEFINE g == Alone(f, b)
           http == OwnLine(f, b, "protocol_http")
           https == OwnLine(f, b, "protocol_https")
           secure == http = 0 \/ https \in 1 .. http
           type == IF \A p \in {"redirect", "protocol_https"} : OwnLine(f, b, p) > 0
                   THEN "http_to_https_redirect" ELSE "plain_http_listener"
<1>1. \A p : OwnLine(g, c, p) = OwnLine(f, b, p)
  BY OwnLineAlone
<1>2. {b.first, b.last, http} \subseteq Int
  <2>1. b.first \in 1 .. Len(f.lines) /\ b.last \in b.first .. Len(f.lines)
    BY BlockLines DEF ListenerBlocks
  <2>2. http \in 0 .. b.last - b.first + 1
    BY OwnLineFacts DEF ListenerBlocks
  <2> HIDE DEF http
  <2> QED
    BY <2>1, <2>2
<1>3. HasProtocol(g, c) <=> HasProtocol(f, b)
  <2> HIDE DEF g
  <2> QED
    BY <1>1 DEF HasProtocol
<1>4. Verdict(f, b) = IF secure THEN Finding(f, "https_listener", b.first, b.last)
                      ELSE Finding(f, type, b.first + http - 1, b.first + http - 1)
  BY Zenon DEF Verdict
<1>5. Verdict(g, c) = IF secure THEN Finding(g, "https_listener", c.first, c.last)
                      ELSE Finding(g, type, c.first + http - 1, c.first + http - 1)
  <2> HIDE DEF g
  <2> QED
    BY <1>1 DEF Verdict
<1> HIDE DEF g, http, https, type, secure
<1>6. /\ 1 + b.first - 1 = b.first
      /\ b.last - b.first + 1 + b.first - 1 = b.last
      /\ 1 + http - 1 + b.first - 1 = b.first + http - 1
  BY <1>2
<1>7. CASE secure
  <2>1. /\ Verdict(f, b).finding_type = "https_listener"
        /\ Verdict(f, b).start_line = b.first /\ Verdict(f, b).end_line = b.last
    BY <1>4, <1>7, FindingParts
  <2>2. /\ Verdict(g, c).finding_type = "https_listener"
        /\ Verdict(g, c).start_line = 1 /\ Verdict(g, c).end_line = b.last - b.first + 1
    BY <1>5, <1>7, FindingParts
  <2> QED
    BY <1>3, <1>6, <2>1, <2>2 DEF g
<1>8. CASE ~secure
  <2>1. /\ Verdict(f, b).finding_type = type
        /\ Verdict(f, b).start_line = b.first + http - 1
        /\ Verdict(f, b).end_line = b.first + http - 1
    BY <1>4, <1>8, FindingParts
  <2>2. /\ Verdict(g, c).finding_type = type
        /\ Verdict(g, c).start_line = 1 + http - 1
        /\ Verdict(g, c).end_line = 1 + http - 1
    BY <1>5, <1>8, FindingParts
  <2> QED
    BY <1>3, <1>6, <2>1, <2>2 DEF g
<1> QED
  BY <1>7, <1>8

\* What the scan of a repository finds in the lines of a block.
FoundIn(r, f, b) ==
    {x \in ScanIacSecurity(r) : x.path = Path(f) /\ x.start_line \in b.first .. b.last}

\* What the scan of a repository says of the lines of one listener is the verdict on it.
LEMMA TriplesOfBlock ==
    ASSUME NEW r, IsRepository(r), NEW f \in FilesOf(r), f.suffix = ".tf", ~Unread(f),
           NEW b \in ListenerBlocks(f)
    PROVE  Triples(FoundIn(r, f, b))
             = IF HasProtocol(f, b)
               THEN {<<Verdict(f, b).finding_type, Verdict(f, b).start_line,
                       Verdict(f, b).end_line>>}
               ELSE {}
<1> DEFINE files == SE!ToSet(IterRepoFiles(r))
           S == FoundIn(r, f, b)
           v == Verdict(f, b)
<1>1. files = {g \in FilesOf(r) : ~LeftOut(g)} /\ FilesOf(r) \subseteq File
  BY IterFacts
<1>2. \A x \in ScanIacSecurity(r) : \/ \E g \in files : x \in FileScan(g)
                                    \/ x \in ScanLogging(files)
  BY DEF ScanIacSecurity, FileScan
<1>3. \A g \in files : ~g.gone => FileScan(g) \subseteq ScanIacSecurity(r)
  BY DEF ScanIacSecurity, FileScan
<1>4. \A x \in ScanLogging(files) : x.finding_type = "audit_logging_missing"
  BY DEF ScanLogging, AuditLogging
<1> HIDE DEF files
<1>5. f \in files /\ ~f.gone /\ f \in File
  BY <1>1 DEF Unread
<1>6. v.finding_type \in ListenerTypes /\ v.path = Path(f) /\ v.start_line \in b.first .. b.last
  BY <1>5, VerdictFacts
<1>7. ASSUME NEW x \in S, x.finding_type \in ListenerTypes
      PROVE  HasProtocol(f, b) /\ x = v
  <2>0. /\ x \in ScanIacSecurity(r) /\ x.path = Path(f)
        /\ x.start_line \in b.first .. b.last
    BY <1>7 DEF FoundIn
  <2>1. x \notin ScanLogging(files)
    BY <1>4, <1>7 DEF ListenerTypes
  <2>2. PICK g \in files : x \in FileScan(g)
    BY <1>2, <2>0, <2>1
  <2>3. g = f
    <3>1. Path(g) = Path(f)
      BY <2>0, <2>2, FileScanHasPath
    <3> QED
      BY <1>1, <3>1, PathsAreDistinct
  <2>4. x \in Listeners(f)
    BY <1>5, <1>7, <2>2, <2>3, ListenersOnly
  <2>5. PICK c \in ListenerBlocks(f) : HasProtocol(f, c) /\ x = Verdict(f, c)
    BY <2>4, ListenersAreVerdicts
  <2>6. x.start_line \in c.first .. c.last
    BY <1>5, <2>5, VerdictFacts
  <2>7. f.lines \in Seq(Line)
    BY <1>5, FileFacts
  <2>8. GoodBlocks(ListenerBlocks(f), f.lines, "aws_lb_listener", 1)
    BY <2>7, BlockFacts DEF ListenerBlocks
  <2>9. /\ b.first \in 1 .. Len(f.lines) /\ b.last \in b.first .. Len(f.lines)
        /\ c.first \in 1 .. Len(f.lines) /\ c.last \in c.first .. Len(f.lines)
    BY <1>5, BlockLines DEF ListenerBlocks
  <2>10. c.first <= b.last /\ b.first <= c.last
    BY <2>0, <2>6, <2>9
  <2>11. c = b
    BY <2>8, <2>10 DEF GoodBlocks
  <2> QED
    BY <2>5, <2>11
<1>8. ASSUME HasProtocol(f, b) PROVE v \in S
  <2>1. v \in Listeners(f)
    BY <1>8, ListenersAreVerdicts
  <2>2. v \in FileScan(f)
    BY <2>1 DEF FileScan, ScanTerraform
  <2>3. v \in ScanIacSecurity(r)
    BY <1>3, <1>5, <2>2
  <2> HIDE DEF v
  <2> QED
    BY <1>6, <2>3 DEF FoundIn
<1> HIDE DEF S, v
<1>9. CASE HasProtocol(f, b)
  <2>1. {y \in S : y.finding_type \in ListenerTypes} = {v}
    BY <1>6, <1>7, <1>8, <1>9
  <2>2. Triples(S) = {<<v.finding_type, v.start_line, v.end_line>>}
    BY <2>1 DEF Triples
  <2> QED
    BY <1>9, <2>2 DEF S, v
<1>10. CASE ~HasProtocol(f, b)
  <2>1. {y \in S : y.finding_type \in ListenerTypes} = {}
    BY <1>7, <1>10
  <2>2. Triples(S) = {}
    BY <2>1 DEF Triples
  <2> QED
    BY <1>10, <2>2 DEF S
<1> QED
  BY <1>9, <1>10

\* What a scan of Terraform says of the one listener in a file is the verdict on it.
LEMMA TriplesAlone ==
    ASSUME NEW g \in File, g.suffix = ".tf", NEW c, ListenerBlocks(g) = {c}
    PROVE  Triples(ScanTerraform(g))
             = IF HasProtocol(g, c)
               THEN {<<Verdict(g, c).finding_type, Verdict(g, c).start_line,
                       Verdict(g, c).end_line>>}
               ELSE {}
<1> DEFINE v == Verdict(g, c)
           S == {y \in ScanTerraform(g) : y.finding_type \in ListenerTypes}
<1>1. c \in ListenerBlocks(g)
  OBVIOUS
<1>2. v.finding_type \in ListenerTypes
  BY <1>1, VerdictFacts
<1>3. Listeners(g) = IF HasProtocol(g, c) THEN {v} ELSE {}
  BY ListenersAreVerdicts
<1>4. \A x \in S : x \in Listeners(g)
  <2>1. ScanTerraform(g) \subseteq FileScan(g)
    BY DEF FileScan
  <2> QED
    BY <2>1, ListenersOnly
<1>5. Listeners(g) \subseteq ScanTerraform(g)
  BY DEF ScanTerraform
<1> HIDE DEF v
<1>6. S = Listeners(g)
  BY <1>2, <1>3, <1>4, <1>5
<1> HIDE DEF S
<1>7. Triples(ScanTerraform(g)) = {<<x.finding_type, x.start_line, x.end_line>> : x \in S}
  BY Zenon DEF Triples, S
<1>8. CASE HasProtocol(g, c)
  <2>1. S = {v}
    BY <1>3, <1>6, <1>8
  <2> QED
    BY <1>7, <1>8, <2>1 DEF v
<1>9. CASE ~HasProtocol(g, c)
  <2>1. S = {}
    BY <1>3, <1>6, <1>9
  <2> QED
    BY <1>7, <1>9, <2>1
<1> QED
  BY <1>8, <1>9

\* A listener is judged by the lines of its own block and by nothing else in the file.
THEOREM ListenersAreJudgedAloneHolds == Spec => []ListenersAreJudgedAlone
<1>1. Inspected => ListenersAreJudgedAlone
  <2> SUFFICES ASSUME Inspected, Scanned,
                      NEW f \in Files, f.suffix = ".tf", ~Unread(f),
                      NEW b \in ListenerBlocks(f)
               PROVE  Triples({x \in seen.iac :
                                  x.path = Path(f) /\ x.start_line \in b.first .. b.last})
                        = {<<t[1], t[2] + b.first - 1, t[3] + b.first - 1>> :
                             t \in Triples(ScanTerraform(Alone(f, b)))}
    BY Zenon DEF ListenersAreJudgedAlone, Triples, Alone, ListenerBlocks
  <2> DEFINE g == Alone(f, b)
             v == Verdict(f, b)
  <2>1. IsRepository(repo) /\ f \in FilesOf(repo)
    BY FilesIsFilesOf DEF Inspected
  <2>2. f \in File
    BY <2>1, IterFacts
  <2>3. seen.iac = ScanIacSecurity(repo)
    BY FoundParts DEF Inspected
  <2>4. Triples(FoundIn(repo, f, b))
          = IF HasProtocol(f, b) THEN {<<v.finding_type, v.start_line, v.end_line>>} ELSE {}
    BY <2>1, TriplesOfBlock
  <2>5. PICK c : ListenerBlocks(g) = {c} /\ c.first = 1 /\ c.last = b.last - b.first + 1
    BY <2>2, BlockAlone
  <2> DEFINE w == Verdict(g, c)
  <2>6. g \in File /\ g.suffix = ".tf"
    BY <2>2, AloneFacts
  <2>7. /\ HasProtocol(g, c) <=> HasProtocol(f, b)
        /\ w.finding_type = v.finding_type
        /\ w.start_line + b.first - 1 = v.start_line
        /\ w.end_line + b.first - 1 = v.end_line
    BY <2>2, <2>5, VerdictAlone
  <2> HIDE DEF g, v
  <2>8. Triples(ScanTerraform(g))
          = IF HasProtocol(g, c) THEN {<<w.finding_type, w.start_line, w.end_line>>} ELSE {}
    BY <2>5, <2>6, TriplesAlone
  <2> HIDE DEF w
  <2>9. {<<t[1], t[2] + b.first - 1, t[3] + b.first - 1>> : t \in Triples(ScanTerraform(g))}
          = IF HasProtocol(f, b) THEN {<<v.finding_type, v.start_line, v.end_line>>} ELSE {}
    <3>1. CASE HasProtocol(f, b)
      <4>1. Triples(ScanTerraform(g)) = {<<w.finding_type, w.start_line, w.end_line>>}
        BY <2>7, <2>8, <3>1
      <4>2. {<<t[1], t[2] + b.first - 1, t[3] + b.first - 1>> :
               t \in {<<w.finding_type, w.start_line, w.end_line>>}}
              = {<<w.finding_type, w.start_line + b.first - 1, w.end_line + b.first - 1>>}
        OBVIOUS
      <4> QED
        BY <2>7, <3>1, <4>1, <4>2
    <3>2. CASE ~HasProtocol(f, b)
      <4>1. Triples(ScanTerraform(g)) = {}
        BY <2>7, <2>8, <3>2
      <4> QED
        BY <3>2, <4>1
    <3> QED
      BY <3>1, <3>2
  <2> QED
    BY <2>3, <2>4, <2>9 DEF g, FoundIn
<1> QED
  BY <1>1, InspectedHolds, PTL

=============================================================================
