------------------------------- MODULE RepoLoader -------------------------------
(***************************************************************************)
(* The reading side of the repository loader (repo_loader.py): which files *)
(* of a repository the walk yields, and which lines of one of them a slice *)
(* returns. URL validation and cloning belong to CommandLine.              *)
(*                                                                         *)
(* Data. A repository is the sequence of its files in the order of the     *)
(* walk. A file is where it lies (dirs, name, suffix), what kind of link   *)
(* it is, and its lines. A line is what the patterns of the scanners find  *)
(* in it (has) and the balance of its braces (net). The size of a file is  *)
(* the number of its lines.                                                *)
(***************************************************************************)
EXTENDS Lists

CONSTANTS
    MaxFileBytes,   \* MAX_FILE_BYTES, in lines
    None,           \* an argument that was left out
    NotAllowed,     \* the ValueError for a path that the walk does not yield
    CannotRead      \* the ValueError for a file that cannot be opened

ASSUME LoaderAssumption == MaxFileBytes \in Nat /\ None \notin Int

-----------------------------------------------------------------------------
Link == {"none", "inside", "outside", "dangling"}

Line == [net : Int, has : SUBSET STRING]

\* binary: a NUL byte in the first 8 KiB, or not readable at all. gone: the file
\* was there for the walk and cannot be opened any more afterwards.
File == [dirs : Seq(STRING), name : STRING, suffix : STRING, lines : Seq(Line),
         link : Link, binary : BOOLEAN, gone : BOOLEAN, newline : BOOLEAN]

Path(f) == Append(f.dirs, f.name)

\* The files of a directory tree: no two of them have one path.
IsRepository(repo) ==
    /\ repo \in Seq(File)
    /\ \A i, j \in DOMAIN repo : Path(repo[i]) = Path(repo[j]) => i = j

DeniedDirs ==
    {".git", "node_modules", "vendor", "__pycache__", ".tox", ".eggs", "dist", "build",
     ".mypy_cache", ".ruff_cache", ".pytest_cache", ".venv", "venv"}

AllowedExtensions ==
    {".py", ".tf", ".tfvars", ".yaml", ".yml", ".json", ".toml", ".md", ".txt", ".sh", ".env"}

AllowedNames ==
    {"Dockerfile", "Makefile", "NOTICE", "LICENSE", "CODEOWNERS", ".gitignore",
     ".dockerignore", ".env.example"}

(* The definitions named ...Defect are the ones that follow them with a bug a    *)
(* maintainer might make; no specification uses them.                         *)

\* Defect: a file of exactly the maximal size is left out.
YieldedDefect(f) ==
    /\ SE!ToSet(f.dirs) \cap DeniedDirs = {}
    /\ f.link \notin {"outside", "dangling"}
    /\ f.name \in AllowedNames \/ f.suffix \in AllowedExtensions
    /\ Len(f.lines) < MaxFileBytes
    /\ ~f.binary

\* iter_repo_files, one file: the walk never enters a denied directory, a link
\* that leaves the repository is passed over, a dangling one has no size.
Yielded(f) ==
    /\ SE!ToSet(f.dirs) \cap DeniedDirs = {}
    /\ f.link \notin {"outside", "dangling"}
    /\ f.name \in AllowedNames \/ f.suffix \in AllowedExtensions
    /\ Len(f.lines) <= MaxFileBytes
    /\ ~f.binary

IterRepoFiles(repo) == Filter(repo, {f \in SE!ToSet(repo) : Yielded(f)})

-----------------------------------------------------------------------------
(* read_file_slice *)

\* seq[from:to] of Python, for from >= 0: a negative to counts from the end.
PySlice(seq, from, to) ==
    SubSeq(seq, from + 1, IF to < 0 THEN FE!Max({0, Len(seq) + to})
                          ELSE FE!Min({Len(seq), to}))

\* Defect: nothing is done about a start past the end of the file.
ReadFileSliceDefect(f, start_line, end_line) ==
    LET total    == Len(f.lines)
        start    == FE!Max({1, start_line})
        end      == FE!Min({total, IF end_line = None THEN total ELSE end_line})
        selected == PySlice(f.lines, start - 1, end)
    IN  IF f.gone THEN CannotRead
        ELSE [start_line |-> start, end_line |-> start + Len(selected) - 1,
              content |-> selected]

\* repo_loader.read_file_slice on a file inside the repository.
ReadFileSlice(f, start_line, end_line) ==
    LET total    == Len(f.lines)
        start    == FE!Max({1, start_line})
        end      == FE!Min({total, IF end_line = None THEN total ELSE end_line})
        selected == PySlice(f.lines, start - 1, end)
    IN  IF f.gone THEN CannotRead
        ELSE IF start > total
        THEN [start_line |-> start, end_line |-> total, content |-> <<>>]
        ELSE [start_line |-> start, end_line |-> start + Len(selected) - 1,
              content |-> selected]

\* Whatever range is asked for, the lines that a slice names are the lines that it
\* returns, they are lines of the file, and a request with ends in their order gets
\* all of its lines (repo_loader.py:346-358).
SliceHolds(f, from, to) ==
    LET s == ReadFileSlice(f, from, to)
    IN  /\ s.content = SubSeq(f.lines, s.start_line, s.end_line)
        /\ s.start_line >= 1
        /\ s.end_line <= Len(f.lines)
        /\ to # None /\ from >= 1 /\ to >= from =>
              s.content = SubSeq(f.lines, from, FE!Min({to, Len(f.lines)}))

\* tools.read_file_slice, for a file that is not a link: only what the walk yields.
ReadSlice(repo, f, start_line, end_line) ==
    IF \E g \in SE!ToSet(IterRepoFiles(repo)) : Path(g) = Path(f)
    THEN ReadFileSlice(f, start_line, end_line)
    ELSE NotAllowed

=============================================================================
