------------------------------ MODULE MCRepository ------------------------------
(***************************************************************************)
(* Small repositories to inspect. They cover, one family at a time, every  *)
(* order of the lines that a check looks at, every reason for which a file *)
(* is not read, and pairs of files of which one is missed.                 *)
(***************************************************************************)
EXTENDS Repository

ALine(net, has) == [net |-> net, has |-> has]
Text(has) == ALine(0, has)

AFile(dirs, name, suffix, lines) ==
    [dirs |-> dirs, name |-> name, suffix |-> suffix, lines |-> lines,
     link |-> "none", binary |-> FALSE, gone |-> FALSE, newline |-> TRUE]

UpTo(n, S) == UNION {[1 .. k -> S] : k \in 0 .. n}

Main(lines)     == AFile(<<>>, "main.tf", ".tf", lines)
Workflow(name, lines) == AFile(<<".github", "workflows">>, name, ".yml", lines)

\* Listener blocks: a header with or without its brace, braces of their own, the
\* protocols, and a redirect within braces.
ListenerLines ==
    {ALine(1, {"aws_lb_listener"}), Text({"aws_lb_listener"}), Text({"protocol_https"}),
     Text({"protocol_http"}), Text({"redirect", "protocol_https"}), ALine(-1, {}), ALine(1, {})}

\* IAM and S3 lines; the second line of a public access block has three flags.
PolicyLines ==
    {Text({"action_any"}), Text({"resource_any"}), Text({"action_any", "resource_any"}),
     Text({"action_list"}), Text({"resource_list"}), Text({"sse_algorithm"}),
     ALine(1, {"aws_s3_bucket"}), ALine(-1, {"aws_s3_bucket_versioning"}),
     ALine(1, {"aws_s3_bucket_server_side_encryption_configuration"})}

AccessLines ==
    {ALine(1, {"aws_s3_bucket_public_access_block"}), Text({"block_public_acls"}),
     Text(PublicAccessFlags \ {"block_public_acls"}), ALine(-1, {"public_ingress"}),
     Text({"sg_reference_ingress"})}

Terraform == {<<Main(l)>> : l \in UpTo(4, ListenerLines) \cup UpTo(3, PolicyLines)
                                   \cup UpTo(4, AccessLines)}

DockerLines ==
    {Text({"USER", "dockerfile_root_user"}), Text({"USER"}), Text({"dockerfile_add_remote_url"}),
     Text({"dockerfile_unpinned_base_image"}), Text({"dockerfile_secret_in_build_arg"})}

ManifestLines ==
    {Text({"apiVersion"}), Text({"kind"}), Text({"containers:", "k8s_host_pid"}),
     Text({"resources:"}), Text({"securityContext:", "k8s_privileged_container"}),
     Text({"k8s_host_network"})}

Others == {<<AFile(<<>>, "Dockerfile", "", l)>> : l \in UpTo(2, DockerLines)}
          \cup {<<AFile(<<"deploy">>, "pod.yaml", ".yaml", l)>> : l \in UpTo(3, ManifestLines)}

\* Two workflows: each may lack its last newline and may be gone when it is read.
WorkflowLines ==
    {Text({"permissions"}), Text({"permissions", "write_all"}), Text({"sast", "secret_scan"})}

Workflows ==
    {<<[Workflow("ci.yml", a) EXCEPT !.gone = g, !.newline = n],
       [Workflow("release.yml", b) EXCEPT !.gone = h]>> :
       a \in UpTo(2, WorkflowLines), b \in UpTo(1, WorkflowLines) \cup {<<>>},
       g, h, n \in BOOLEAN}

\* One file anywhere, and a pair of which the first may be missed for any reason.
Deep(n) == [k \in 1 .. n |-> "deep"]
Places  == {<<>>, <<".git">>, <<"src", ".tox">>, <<".github", "workflows">>, Deep(5), Deep(6)}

Listener == ALine(0, {"aws_lb_listener", "audit_log"})
Kinds ==
    {[name |-> "a.tf", suffix |-> ".tf", line |-> Listener],
     [name |-> "Dockerfile", suffix |-> "", line |-> Text({"USER", "aws_access_key"})],
     [name |-> "Dockerfile.dev", suffix |-> ".dev", line |-> Text({})],
     [name |-> "main.go", suffix |-> ".go", line |-> Text({})],
     [name |-> "app.py", suffix |-> ".py", line |-> Text({"generic_secret_assignment"})],
     [name |-> "compose.yml", suffix |-> ".yml", line |-> Text({"dependency_audit"})]}

\* The telling line comes first or last, in a file below, at or above the limit.
Sized(line) ==
    {[k \in 1 .. n |-> IF k = at THEN line ELSE Text({})] :
       at \in {1, MaxFileBytes}, n \in {MaxFileBytes - 1, MaxFileBytes, MaxFileBytes + 1}}

Anywhere ==
    {[AFile(d, k.name, k.suffix, l) EXCEPT !.link = link, !.binary = b, !.gone = g] :
       d \in Places, <<k, l>> \in UNION {{k} \X Sized(k.line) : k \in Kinds}, link \in Link,
       b, g \in BOOLEAN}

Pairs ==
    {<<[f EXCEPT !.name = "first.tf"], Main(<<Text({"public_ingress", "aws_access_key"})>>)>>
       : f \in {a \in Anywhere : a.suffix = ".tf"}}

MCRepositories ==
    Terraform \cup Others \cup Workflows \cup {<<f>> : f \in Anywhere} \cup Pairs

=============================================================================
