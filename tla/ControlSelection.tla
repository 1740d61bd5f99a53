---------------------------- MODULE ControlSelection ----------------------------
(***************************************************************************)
(* Feature detection (control_selection.py): which technologies dynamic    *)
(* selection sees in a repository, and the query it searches controls      *)
(* with. It has a walk of its own for the names of files and uses the      *)
(* loader's walk for the contents of Terraform files.                      *)
(*                                                                         *)
(* Data. Repositories are those of RepoLoader. The list of features is a   *)
(* set and the query is the set of features whose phrases it joins: the    *)
(* order of discovery matters to the embedding only.                       *)
(***************************************************************************)
EXTENDS RepoLoader

CONSTANTS
    MaxTfReadBytes,   \* _MAX_TF_READ_BYTES, in lines
    MaxDepth,         \* 5 in the code: directories below this depth are not classified
    FallbackQuery,    \* _FALLBACK_QUERY
    DockerfileNames   \* the names that start with "dockerfile", in whatever case

ASSUME SelectionAssumption == {MaxTfReadBytes, MaxDepth} \subseteq Nat

-----------------------------------------------------------------------------
SkipDirs == {".git", "node_modules", "vendor", "__pycache__", ".venv", "dist", "build"}

\* The walk of detect_features: skip list and depth, and nothing about the file.
Classified(f) == SE!ToSet(f.dirs) \cap SkipDirs = {} /\ Len(f.dirs) <= MaxDepth

\* name.lower().startswith("dockerfile")
StartsWithDockerfile(name) == name \in DockerfileNames

InWorkflows(f) ==
    Len(f.dirs) >= 2 /\ f.dirs[1] = ".github" /\ f.dirs[2] = "workflows"

Languages ==
    {<<".py", "python">>, <<".go", "go">>, <<".java", "java">>, <<".js", "javascript">>,
     <<".ts", "javascript">>, <<".jsx", "javascript">>, <<".tsx", "javascript">>}

Compose ==
    {"docker-compose.yml", "docker-compose.yaml", "compose.yml", "compose.yaml"}

\* _classify_file: one feature or none, by the first test that applies.
Feature(f) ==
    IF f.suffix = ".tf" THEN {"terraform"}
    ELSE IF StartsWithDockerfile(f.name) THEN {"dockerfile"}
    ELSE IF f.suffix \notin {".yml", ".yaml"}
         THEN {l[2] : l \in {k \in Languages : k[1] = f.suffix}}
    ELSE IF InWorkflows(f) THEN {"github_actions"}
    ELSE IF f.name \in Compose THEN {"docker_compose"} ELSE {}

\* _TF_RESOURCE_FEATURE: the resource types that stand for each sub-feature.
TfResourceFeature ==
    [terraform_lb         |-> {"aws_lb_listener", "aws_alb_listener", "aws_lb", "aws_alb"},
     terraform_s3         |-> {"aws_s3_bucket", "aws_s3_bucket_public_access_block",
                               "aws_s3_bucket_server_side_encryption_configuration"},
     terraform_iam        |-> {"aws_iam_policy", "aws_iam_role", "aws_iam_role_policy"},
     terraform_cloudtrail |-> {"aws_cloudtrail"},
     terraform_monitoring |-> {"aws_cloudwatch_metric_alarm", "aws_guardduty_detector"},
     terraform_network    |-> {"aws_security_group", "aws_subnet", "aws_db_subnet_group",
                               "aws_vpc"}]

\* What a bounded read of one Terraform file shows: its first lines.
Resources(f) ==
    UNION {f.lines[i].has : i \in 1 .. FE!Min({MaxTfReadBytes, Len(f.lines)})}

\* _detect_terraform_resources: in the files that the loader yields.
TerraformResources(repo) ==
    {feature \in DOMAIN TfResourceFeature :
        \E f \in SE!ToSet(IterRepoFiles(repo)) :
            /\ f.suffix = ".tf"
            /\ ~f.gone
            /\ Resources(f) \cap TfResourceFeature[feature] # {}}

(* The definitions named ...Defect are the ones that follow them with a bug a    *)
(* maintainer might make; no specification uses them.                         *)

\* Defect: the content pass runs over the files that the name pass has seen.
DetectFeaturesDefect(repo) ==
    LET features == UNION {Feature(f) : f \in {g \in SE!ToSet(repo) : Classified(g)}}
    IN  features \cup {t \in DOMAIN TfResourceFeature :
            \E f \in SE!ToSet(repo) : /\ Classified(f) /\ f.suffix = ".tf"
                                      /\ Resources(f) \cap TfResourceFeature[t] # {}}

\* detect_features: the content pass runs when the name pass has seen Terraform.
DetectFeatures(repo) ==
    LET features == UNION {Feature(f) : f \in {g \in SE!ToSet(repo) : Classified(g)}}
    IN  features \cup IF "terraform" \in features THEN TerraformResources(repo) ELSE {}

\* build_selection_query
BuildSelectionQuery(features) == IF features = {} THEN FallbackQuery ELSE features

=============================================================================
