------------------------------- MODULE Repository -------------------------------
(***************************************************************************)
(* What the scanners and the feature detection make of a repository, and   *)
(* what can be relied on: that citations can be looked up, that what is    *)
(* called missing is missing, and that one file does not change what is    *)
(* said of another. One step inspects a repository.                        *)
(***************************************************************************)
EXTENDS Scanners, ControlSelection, FiniteSets

CONSTANTS
    Repositories,   \* the repositories that may be inspected
    NotYet

ASSUME RepositoriesAssumption == \A r \in Repositories : IsRepository(r)

\* The two refusals are different, and neither is a slice.
ASSUME RefusalAssumption ==
    /\ NotAllowed # CannotRead
    /\ {NotAllowed, CannotRead}
         \cap [start_line : Int, end_line : Int, content : Seq(Line)] = {}

-----------------------------------------------------------------------------
VARIABLES
    repo,   \* the repository
    seen    \* what a scan of it found, NotYet before the scan

vars == <<repo, seen>>

Init == repo \in Repositories /\ seen = NotYet

Found(r) ==
    [iac |-> ScanIacSecurity(r), ci |-> ScanCiSecurity(r),
     secrets |-> ScanSecrets(r), features |-> DetectFeatures(r)]

Inspect ==
    /\ seen = NotYet
    /\ seen' = Found(repo)
    /\ UNCHANGED repo

Spec == Init /\ [][Inspect]_vars

Scanned == seen # NotYet

Files == {repo[i] : i \in DOMAIN repo}
CiFindings == seen.ci \ {Crashed}
Findings   == seen.iac \cup CiFindings \cup seen.secrets

\* Why a file of the repository is not read: the walk leaves it out, without a
\* word, or it is gone when a scanner opens it.
LeftOut(f) ==
    \/ \E d \in DeniedDirs : \E i \in DOMAIN f.dirs : f.dirs[i] = d
    \/ f.link \in {"outside", "dangling"}
    \/ f.name \notin AllowedNames /\ f.suffix \notin AllowedExtensions
    \/ Len(f.lines) > MaxFileBytes
    \/ f.binary
Unread(f) == LeftOut(f) \/ f.gone

-----------------------------------------------------------------------------
(* The Terraform checks *)

\* The blocks of _extract_resource_blocks, told without its loop: a block starts at
\* a header, ends where its braces are closed for the first time or with the file,
\* and every header lies in exactly one block, so that no line is judged twice.
BlocksAreBlocks ==
    Scanned =>
        \A f \in Files : \A header \in {"aws_lb_listener", "aws_s3_bucket_public_access_block"} :
            LET blocks == ExtractResourceBlocks(f.lines, header) IN
            /\ \A i \in DOMAIN f.lines : header \in f.lines[i].has =>
                  Cardinality({b \in blocks : b.first <= i /\ i <= b.last}) = 1
            /\ \A b \in blocks :
                  /\ header \in f.lines[b.first].has
                  /\ \A j \in b.first .. b.last - 1 : Depth(f.lines, b.first, j) # 0
                  /\ Depth(f.lines, b.first, b.last) = 0 \/ b.last = Len(f.lines)

ListenerTypes == {"https_listener", "http_to_https_redirect", "plain_http_listener"}

\* A listener is judged by its own block: what the scan says about the lines of one
\* block is what it would say if the file held nothing else. In particular the
\* redirect of one listener does not excuse another.
ListenersAreJudgedAlone ==
    Scanned =>
        \A f \in {g \in Files : g.suffix = ".tf" /\ ~Unread(g)} :
        \A b \in ExtractResourceBlocks(f.lines, "aws_lb_listener") :
            LET alone == [f EXCEPT !.lines = SubSeq(f.lines, b.first, b.last)]
                Of(found) == {<<x.finding_type, x.start_line, x.end_line>> :
                                x \in {y \in found : y.finding_type \in ListenerTypes}}
            IN  Of({x \in seen.iac : x.path = Path(f) /\ x.start_line \in b.first .. b.last})
                = {<<t[1], t[2] + b.first - 1, t[3] + b.first - 1>> :
                     t \in Of(ScanTerraform(alone))}

-----------------------------------------------------------------------------
(* What a finding cites *)

\* Findings about what a file lacks, with the pattern whose absence they report.
AbsentInFile ==
    {<<"unencrypted_s3", "aws_s3_bucket_server_side_encryption_configuration">>,
     <<"missing_s3_versioning", "aws_s3_bucket_versioning">>,
     <<"dockerfile_missing_nonroot_user", "USER">>,
     <<"k8s_missing_resource_limits", "resources:">>,
     <<"k8s_missing_security_context", "securityContext:">>}

\* Findings that cite a first and a last line of different kinds.
EndPoints ==
    {<<"wildcard_iam", "action_any", "resource_any">>,
     <<"scoped_iam", "action_list", "resource_list">>,
     <<"unencrypted_s3", "aws_s3_bucket", "aws_s3_bucket">>,
     <<"missing_s3_versioning", "aws_s3_bucket", "aws_s3_bucket">>,
     <<"plain_http_listener", "protocol_http", "protocol_http">>,
     <<"http_to_https_redirect", "protocol_http", "protocol_http">>}
    \cup {<<t[2], t[1], t[1]>> : t \in CiTools}
    \cup {<<"overly_broad_permissions", "write_all", "write_all">>}

\* A citation can be looked up: the file was read, the cited lines are in it, and
\* the two ends match the patterns that the finding is about. They are in order,
\* but for the three findings that pair two independent searches and for the
\* Dockerfile without any line.
CitationsHold ==
    Scanned =>
        \A x \in {y \in Findings : y.start_line > 0} :
            \E f \in Files :
                LET lines == f.lines IN
                /\ Path(f) = x.path /\ ~Unread(f)
                /\ \/ {x.start_line, x.end_line} \subseteq DOMAIN lines
                   \/ x.finding_type = "dockerfile_missing_nonroot_user" /\ lines = <<>>
                /\ \A e \in EndPoints : x.finding_type = e[1] =>
                      e[2] \in lines[x.start_line].has /\ e[3] \in lines[x.end_line].has
                /\ \/ x.start_line <= x.end_line
                   \/ x.finding_type \in {"wildcard_iam", "scoped_iam", "s3_sse_enabled"}
                   \/ lines = <<>>

\* A finding of something missing is true of everything that was read: whatever
\* shows the opposite is in a file that the walk leaves out or that was gone, or,
\* for a permissions declaration, in a first line that was joined to the workflow
\* before, which ends without a newline.
AbsenceIsReal ==
    Scanned =>
        /\ \A x \in Findings, a \in AbsentInFile : x.finding_type = a[1] =>
              \A f \in Files : Path(f) = x.path =>
                  \A i \in DOMAIN f.lines : a[2] \notin f.lines[i].has
        /\ \A x \in CiFindings, t \in CiTools : x.finding_type = t[3] =>
              \A k \in DOMAIN repo : \A i \in DOMAIN repo[k].lines :
                  IsWorkflow(repo[k]) /\ t[1] \in repo[k].lines[i].has =>
                      \/ Unread(repo[k])
                      \/ t[1] = "permissions" /\ i = 1 /\ \E j \in 1 .. k - 1 : ~repo[j].newline
        /\ AuditLogging("audit_logging_missing") \in seen.iac =>
              \A f \in Files : f.suffix = ".tf" /\ ~Unread(f) =>
                  \A i \in DOMAIN f.lines : "audit_log" \notin f.lines[i].has

-----------------------------------------------------------------------------
(* Files that cannot be read *)

Without(f) == Filter(repo, {g \in Files : g # f})
About(path, found) == {x \in found : x.path = path}

\* A file that cannot be read, or any other, does not change what is found in its
\* neighbours: the scanners pass over it and go on. A file of the name under which the
\* logging check reports on all Terraform files would share its findings.
FilesAreIndependent ==
    Scanned =>
        \A f, g \in Files : f # g /\ Path(g) # TerraformFiles =>
            /\ About(Path(g), seen.iac) = About(Path(g), ScanIacSecurity(Without(f)))
            /\ About(Path(g), seen.secrets) = About(Path(g), ScanSecrets(Without(f)))

\* The CI scan judges each kind of tool exactly once for the whole repository: when
\* one workflow can be opened, the others and those that cannot add nothing and raise
\* nothing (tools.py:921-990); a repository without workflows gives nothing. Of
\* workflows none of which can be opened it says nothing: see NoScannerRaises.
CiJudgesEachToolOnce ==
    Scanned =>
        LET listed == {f \in Files : IsWorkflow(f) /\ ~LeftOut(f)} IN
        /\ listed = {} => seen.ci = {}
        /\ (\E f \in listed : ~f.gone) =>
              /\ Crashed \notin seen.ci
              /\ \A t \in CiTools :
                    Cardinality({x \in CiFindings : x.finding_type \in {t[2], t[3]}}) = 1

\* tools.py:8-9, "on OSError or parse failure: skips the offending file (logs to
\* limitations) and never raises an unhandled exception": the scan of workflows that
\* cannot be opened does not end in an exception.
NoScannerRaises == Scanned => Crashed \notin seen.ci

\* docs/SPEC.md:262, "Also flags workflows with overly broad permissions or missing
\* permissions: declarations": a workflow that was read and declares no permissions
\* has the finding.
MissingPermissionsAreFlagged ==
    Scanned =>
        \A f \in Files :
            /\ IsWorkflow(f) /\ ~Unread(f)
            /\ \A i \in DOMAIN f.lines : "permissions" \notin f.lines[i].has
            => \E x \in CiFindings : x.finding_type = "missing_permissions_declaration"

-----------------------------------------------------------------------------
(* Slices and features *)

\* Every slice of every file that can be asked for cites what it returns. The two
\* refusals are not confused: a file that the walk leaves out is not allowed, and one
\* that is gone since the walk cannot be read; every other request is answered.
SliceIsCited ==
    Scanned =>
        \A f \in Files : f.link = "none" =>
        \A from \in -1 .. Len(f.lines) + 2 : \A to \in (-2 .. Len(f.lines) + 1) \cup {None} :
            LET s == ReadSlice(repo, f, from, to) IN
            /\ (s = NotAllowed) <=> LeftOut(f)
            /\ (s = CannotRead) <=> f.gone /\ ~LeftOut(f)
            /\ ~Unread(f) => SliceHolds(f, from, to)

\* The feature detection and the loader walk the tree with skip lists of their own,
\* and still agree: every file that the loader yields counts for the features, down
\* to the depth at which the detection stops; and the features that depend on the
\* content of Terraform files come from files that the scanners could read, and from
\* the part that the detection may read.
DetectionMatchesLoader ==
    Scanned =>
        /\ \A f \in Files :
              ~LeftOut(f) /\ Len(f.dirs) <= MaxDepth => Feature(f) \subseteq seen.features
        /\ \A t \in DOMAIN TfResourceFeature \cap seen.features :
              \E f \in Files :
                  /\ f.suffix = ".tf" /\ ~Unread(f)
                  /\ \E i \in DOMAIN f.lines :
                        i <= MaxTfReadBytes /\ f.lines[i].has \cap TfResourceFeature[t] # {}

=============================================================================
