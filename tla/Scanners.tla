-------------------------------- MODULE Scanners --------------------------------
(***************************************************************************)
(* The scanners (tools.py): what scan_iac_security, scan_ci_security and   *)
(* scan_secrets find in a repository. Each is a pure function of the files *)
(* that the walk yields and of which of them can still be read.            *)
(*                                                                         *)
(* Data. A pattern that the code searches a line for is a string, and the  *)
(* line says which patterns it matches; a pattern whose match alone makes  *)
(* a finding has the finding's type as its name. A finding is its type and *)
(* the lines it cites; line 0 stands for None. Messages, severities and    *)
(* excerpts, with the masking of secrets in them, are left out.            *)
(***************************************************************************)
EXTENDS RepoLoader

CONSTANT
    Crashed   \* an IndexError, with which scan_ci_security may end

Finding(f, type, first, last) ==
    [path |-> Path(f), finding_type |-> type, start_line |-> first, end_line |-> last]

\* The path under which a finding about all Terraform files together is reported.
TerraformFiles == <<"(terraform files)">>

AuditLogging(type) ==
    [path |-> TerraformFiles, finding_type |-> type, start_line |-> 0, end_line |-> 0]

-----------------------------------------------------------------------------
(* Lines *)

Matches(lines, pattern) == {i \in DOMAIN lines : pattern \in lines[i].has}

\* next((i for ...), None): the first line that matches, 0 when there is none.
FirstLine(lines, pattern) ==
    LET at == Matches(lines, pattern) IN IF at = {} THEN 0 ELSE FE!Min(at)

\* The findings of the checks that look at one line at a time.
LineFindings(f, types) ==
    UNION {{Finding(f, type, i, i) : i \in Matches(f.lines, type)} : type \in types}

(* The definitions named ...Defect are the ones that follow them with a bug a    *)
(* maintainer might make; no specification uses them.                         *)

\* The braces that are open after the lines from i to j.
Depth(lines, i, j) ==
    LET depth[k \in i - 1 .. j] == IF k < i THEN 0 ELSE depth[k - 1] + lines[k].net
    IN  depth[j]

\* A block goes from its header to the first line after which every brace is
\* closed, or to the end of the file.
BlockEnd(lines, i) ==
    LET closed == {j \in i .. Len(lines) : Depth(lines, i, j) = 0}
    IN  IF closed = {} THEN Len(lines) ELSE FE!Min(closed)

\* Defect: the search goes on behind the header, inside the block just taken.
ExtractResourceBlocksDefect(lines, header) ==
    {[first |-> i, last |-> BlockEnd(lines, i)] : i \in Matches(lines, header)}

\* _extract_resource_blocks: the search for the next header goes on behind a block.
ExtractResourceBlocks(lines, header) ==
    LET blocks[i \in 1 .. Len(lines) + 1] ==
            IF i > Len(lines) THEN {}
            ELSE IF header \in lines[i].has
                 THEN {[first |-> i, last |-> BlockEnd(lines, i)]}
                      \cup blocks[BlockEnd(lines, i) + 1]
                 ELSE blocks[i + 1]
    IN  blocks[1]

-----------------------------------------------------------------------------
(* Terraform: each operator gives the findings of one check in one file *)

\* Defect: the whole file is searched.
BlockTextDefect(f, b) == f.lines

\* block_text: what is searched for the redirect.
BlockText(f, b) == SubSeq(f.lines, b.first, b.last)

\* aws_lb_listener: the first protocol line of a block decides; an HTTP listener
\* that redirects to HTTPS within the same block is positive evidence.
Listeners(f) ==
    LET Own(b, pattern) == FirstLine(SubSeq(f.lines, b.first, b.last), pattern)
        Judge(b, https, http) ==
            IF http = 0 \/ https \in 1 .. http
            THEN Finding(f, "https_listener", b.first, b.last)
            ELSE Finding(f, IF \A p \in {"redirect", "protocol_https"} :
                                 FirstLine(BlockText(f, b), p) > 0
                            THEN "http_to_https_redirect" ELSE "plain_http_listener",
                         b.first + http - 1, b.first + http - 1)
    IN  {Judge(b, Own(b, "protocol_https"), Own(b, "protocol_http")) :
            b \in {c \in ExtractResourceBlocks(f.lines, "aws_lb_listener") :
                      Own(c, "protocol_https") > 0 \/ Own(c, "protocol_http") > 0}}

\* wildcard_iam and scoped_iam: the first line of each kind in the file, whatever
\* policy it belongs to and whichever of the two comes first.
Policies(f, type, action, resource) ==
    LET a == FirstLine(f.lines, action)
        r == FirstLine(f.lines, resource)
    IN  IF a > 0 /\ r > 0 THEN {Finding(f, type, a, r)} ELSE {}

\* The checks of S3 buckets that look at the whole file.
Buckets(f) ==
    LET bucket == FirstLine(f.lines, "aws_s3_bucket")
        sse    == FirstLine(f.lines, "aws_s3_bucket_server_side_encryption_configuration")
        algo   == FirstLine(f.lines, "sse_algorithm")
    IN  IF bucket = 0 THEN {}
        ELSE {IF sse = 0 THEN Finding(f, "unencrypted_s3", bucket, bucket)
              ELSE Finding(f, "s3_sse_enabled", sse, IF algo = 0 THEN sse ELSE algo)}
             \cup IF FirstLine(f.lines, "aws_s3_bucket_versioning") > 0 THEN {}
                  ELSE {Finding(f, "missing_s3_versioning", bucket, bucket)}

PublicAccessFlags ==
    {"block_public_acls", "block_public_policy", "ignore_public_acls", "restrict_public_buckets"}

\* s3_public_access_block: only a block that sets all four flags.
PublicAccessBlocks(f) ==
    LET Flags(b) == {i \in b.first .. b.last : f.lines[i].has \cap PublicAccessFlags # {}}
    IN  {Finding(f, "s3_public_access_block", FE!Min(Flags(b)), FE!Max(Flags(b)))
           : b \in {c \in ExtractResourceBlocks(f.lines, "aws_s3_bucket_public_access_block") :
                       PublicAccessFlags \subseteq UNION {f.lines[i].has : i \in c.first .. c.last}}}

ScanTerraform(f) ==
    IF f.suffix # ".tf" THEN {}
    ELSE LineFindings(f, {"public_ingress", "sg_reference_ingress"})
         \cup Listeners(f)
         \cup Policies(f, "wildcard_iam", "action_any", "resource_any")
         \cup Policies(f, "scoped_iam", "action_list", "resource_list")
         \cup Buckets(f)
         \cup PublicAccessBlocks(f)

-----------------------------------------------------------------------------
(* The other families of scan_iac_security *)

ScanDockerfile(f) ==
    IF f.name # "Dockerfile" /\ f.suffix # ".dockerfile" THEN {}
    ELSE LineFindings(f, {"dockerfile_unpinned_base_image", "dockerfile_root_user",
                          "dockerfile_add_remote_url", "dockerfile_secret_in_build_arg"})
         \cup IF FirstLine(f.lines, "USER") > 0 THEN {}
              ELSE {Finding(f, "dockerfile_missing_nonroot_user", 1, Len(f.lines))}

\* Files that do not look like manifests are left alone; what a manifest lacks is
\* reported for the file, without a line.
ScanKubernetes(f) ==
    LET Has(pattern) == FirstLine(f.lines, pattern) > 0
        Lacks(pattern, type) == IF Has("containers:") /\ ~Has(pattern)
                                THEN {Finding(f, type, 0, 0)} ELSE {}
    IN  IF f.suffix \notin {".yaml", ".yml"} \/ ~(Has("apiVersion") \/ Has("kind")) THEN {}
        ELSE LineFindings(f, {"k8s_privileged_container", "k8s_host_network", "k8s_host_pid"})
             \cup Lacks("resources:", "k8s_missing_resource_limits")
             \cup Lacks("securityContext:", "k8s_missing_security_context")

\* _scan_logging: one finding for all Terraform files together.
ScanLogging(files) ==
    LET tf == {f \in files : f.suffix = ".tf"}
    IN  IF tf = {} \/ \E f \in tf : ~f.gone /\ FirstLine(f.lines, "audit_log") > 0
        THEN {} ELSE {AuditLogging("audit_logging_missing")}

\* Defect: the scan of a family ends at the first file that cannot be read.
ScanIacSecurityDefect(repo) ==
    LET files == IterRepoFiles(repo)
        read  == {files[i] : i \in {k \in DOMAIN files : \A j \in 1 .. k : ~files[j].gone}}
    IN  (UNION {ScanTerraform(f) \cup ScanDockerfile(f) \cup ScanKubernetes(f) : f \in read})
        \cup ScanLogging(SE!ToSet(files))

\* scan_iac_security: a file that cannot be read is passed over in silence.
ScanIacSecurity(repo) ==
    LET files == SE!ToSet(IterRepoFiles(repo))
    IN  (UNION {ScanTerraform(f) \cup ScanDockerfile(f) \cup ScanKubernetes(f)
                  : f \in {g \in files : ~g.gone}})
        \cup ScanLogging(files)

\* scan_secrets: every pattern in every line, each pair reported once.
ScanSecrets(repo) ==
    UNION {LineFindings(f, {"aws_access_key", "generic_secret_assignment"})
             : f \in {g \in SE!ToSet(IterRepoFiles(repo)) : ~g.gone}}

-----------------------------------------------------------------------------
(* scan_ci_security *)

\* _CI_TOOLS: per pattern, the finding when it is there and when it is not.
CiTools ==
    {<<"dependency_audit", "dependency_audit_present", "dependency_audit_missing">>,
     <<"container_scan", "container_scan_present", "container_scan_missing">>,
     <<"sast", "sast_present", "sast_missing">>,
     <<"secret_scan", "secret_scan_present", "secret_scan_missing">>,
     <<"permissions", "permissions_declared", "missing_permissions_declaration">>}

\* What scan_ci_security may report; the IndexError is not that.
CiTypes == (UNION {{t[2], t[3]} : t \in CiTools}) \cup {"overly_broad_permissions"}

CiFinding ==
    [path : Seq(STRING), finding_type : CiTypes, start_line : Nat, end_line : Nat]

ASSUME CrashedAssumption == Crashed \notin CiFinding

IsWorkflow(f) ==
    /\ {".github", "workflows"} \subseteq SE!ToSet(f.dirs)
    /\ f.suffix \in {".yaml", ".yml"}

WorkflowsOf(repo) ==
    LET files == IterRepoFiles(repo) IN Filter(files, {f \in SE!ToSet(files) : IsWorkflow(f)})

\* The texts are joined without a separator: the first line of one continues the
\* last line of the text before when that does not end with a newline.
Continues(texts, k) ==
    LET before == {j \in 1 .. k - 1 : texts[j].lines # <<>>}
    IN  before # {} /\ ~texts[FE!Max(before)].newline

\* pattern.search(combined): "permissions" is matched at the start of a line only.
InCombined(texts, pattern) ==
    \E k \in DOMAIN texts : \E i \in Matches(texts[k].lines, pattern) :
        ~(pattern = "permissions" /\ i = 1 /\ Continues(texts, k))

\* Defect: the line of the match is cited in the first file, whichever matched.
CiteDefect(texts, pattern, type) ==
    LET k == FE!Min({j \in DOMAIN texts : Matches(texts[j].lines, pattern) # {}})
        i == FirstLine(texts[k].lines, pattern)
    IN  Finding(texts[1], type, i, i)

\* The citation: the first file that matches by itself, and its first such line.
Cite(texts, pattern, type) ==
    LET k == FE!Min({j \in DOMAIN texts : Matches(texts[j].lines, pattern) # {}})
        i == FirstLine(texts[k].lines, pattern)
    IN  Finding(texts[k], type, i, i)

\* Defect: presence is judged for each workflow by itself.
ScanCiSecurityDefect(repo) ==
    LET workflows == WorkflowsOf(repo)
        texts     == Filter(workflows, {f \in SE!ToSet(workflows) : ~f.gone})
        Judge(text, t) == IF InCombined(text, t[1]) THEN Cite(text, t[1], t[2])
                          ELSE Finding(text[1], t[3], 0, 0)
    IN  IF workflows # <<>> /\ texts = <<>> THEN {Crashed}
        ELSE {Judge(<<texts[k]>>, t) : k \in DOMAIN texts, t \in CiTools}

\* scan_ci_security: presence is judged over all workflows that could be read. When
\* there are workflows and none can be read, the first of no files is asked for.
ScanCiSecurity(repo) ==
    LET workflows == WorkflowsOf(repo)
        texts     == Filter(workflows, {f \in SE!ToSet(workflows) : ~f.gone})
    IN  IF workflows = <<>> THEN {}
        ELSE IF texts = <<>> THEN {Crashed}
        ELSE {IF InCombined(texts, t[1]) THEN Cite(texts, t[1], t[2])
              ELSE Finding(texts[1], t[3], 0, 0) : t \in CiTools}
             \cup IF InCombined(texts, "write_all")
                  THEN {Cite(texts, "write_all", "overly_broad_permissions")} ELSE {}

=============================================================================
