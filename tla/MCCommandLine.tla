----------------------------- MODULE MCCommandLine -----------------------------
(***************************************************************************)
(* Two commands on one report file. Each is the plain command on a URL, or *)
(* differs from it in one or two of its arguments.                         *)
(***************************************************************************)
EXTENDS CommandLine, FiniteSets

Path(leads_to) ==
    [scheme |-> None, credentials |-> FALSE, host |-> None, leads_to |-> leads_to]
Url(scheme, credentials, host) ==
    [scheme |-> scheme, credentials |-> credentials, host |-> host, leads_to |-> "nothing"]

GitHub == Url("https", FALSE, "github.com")
Other  == Url("https", FALSE, "example.org")

MCSources == {Path("directory"), Path("file"), GitHub, Other, Url("ext::", FALSE, None)}

Plain == [repo_url |-> GitHub, repo_path |-> None, controls |-> None,
          top_k |-> None, chat_model |-> TRUE]

MCInvocations ==
    {a \in [repo_url   : {GitHub, Other, None},
            repo_path  : {Path("directory"), Path("file"), Url("ext::", FALSE, None), None},
            controls   : {"known", "unknown", None},
            top_k      : {0, 3, None},
            chat_model : BOOLEAN] :
        Cardinality({x \in DOMAIN a : a[x] # Plain[x]}) <= 2}

=============================================================================
