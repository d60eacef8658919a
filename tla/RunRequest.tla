----------------------------- MODULE RunRequest ------------------------------
(***************************************************************************)
(* What stands between a batch request and its work (crates/               *)
(* lexonarchivebuilder-indexer, config.rs, block_store.rs and the entry    *)
(* points of runtime.rs): the checks of a validation (run --validate-only) *)
(* and those of a run, in the order each makes them.  A request is         *)
(* validated, and then run, or run at once.                                *)
(*                                                                         *)
(* A check looks at the request, or at the world: the store that has to    *)
(* open, the directories that have to be writable, the profile the         *)
(* upstream indexer has to accept, the refs.  What was found of the world  *)
(* stays so between the two invocations.                                   *)
(***************************************************************************)
EXTENDS Naturals, Sequences

Numbers == {"absent", "zero", "positive"}
Stages == {"full", "ingestion", "clustering"}
Ingests(stage) == stage \in {"full", "ingestion"}
Clusters(stage) == stage \in {"full", "clustering"}

\* EnvironmentConfig, with only the fields its checks read.
Environments ==
    [kind : {"local", "local-redb"}, baseUrl : BOOLEAN]
    \cup [kind : {"local-overlay"}, baseUrl : BOOLEAN, url : BOOLEAN, prefix : BOOLEAN,
          cache : BOOLEAN, memory : Numbers]
    \cup [kind : {"production", "production-v2"}, url : BOOLEAN, prefix : BOOLEAN,
          cache : BOOLEAN, memory : Numbers]

\* BatchRequest and the overrides of the command line: the profile runs through
\* the constrained v3 path or not, the cluster count is for local testing.
Requests == [environment : Environments, stage : Stages, items : BOOLEAN,
             maxConcurrency : Numbers, replayBatch : Numbers,
             refName : {"blank", "invalid", "valid"}, v3 : BOOLEAN, clusterCount : Numbers]

VARIABLES
    request,
    found,      \* what is known of the world, by check
    invocation, \* "validate" or "run"
    checks,     \* the checks the invocation has still to make
    passed,     \* the request was validated
    result      \* how the last invocation ended

requestVars == <<request, found, invocation, checks, passed, result>>

WorldChecks == {"store", "scratch", "working root", "profile", "head", "refs parent", "provider",
                "items", "embed", "replay"}

-----------------------------------------------------------------------------
(* The checks of a request.                                                *)

ValidForOverlay(e) == e.url /\ ~e.prefix /\ e.cache /\ e.memory = "positive"
ValidForAzureTable(e) == e.url /\ ~e.prefix /\ ~e.cache /\ e.memory = "absent"

\* local_embedding
LocalEmbedding(e) == e.kind \in {"local", "local-redb", "local-overlay"} => e.baseUrl

\* validate_for_stage
ValidForStage(e, stage) ==
    /\ e.kind \in {"local-overlay", "production"} => ValidForOverlay(e)
    /\ e.kind = "production-v2" => ValidForAzureTable(e)
    /\ Ingests(stage) => LocalEmbedding(e)

\* BatchRequest::validate
ValidRequest(r) ==
    /\ Ingests(r.stage) => r.items
    /\ r.maxConcurrency # "zero" /\ r.replayBatch # "zero"
    /\ r.refName = "valid"
    /\ ValidForStage(r.environment, r.stage)

\* to_configured_clustering
ValidClustering(r) ==
    /\ r.clusterCount # "zero"
    /\ r.clusterCount = "positive" =>
        r.environment.kind \notin {"production", "production-v2"} /\ ~r.v3

\* from_environment: the overlay and the table check their configuration again.
StoreConfigured(e) ==
    /\ e.kind \in {"local-overlay", "production"} => ValidForOverlay(e)
    /\ e.kind = "production-v2" => ValidForAzureTable(e)

\* resolve_mutable_ref_store unwraps the segments of the name.
RefUnwraps(r) == r.refName = "valid"

\* effective_max_concurrency and effective_replay_batch_size, over a machine with
\* that many cores.
DefaultConcurrency(cores) == IF cores <= 1 THEN 1 ELSE IF cores \div 2 < 1 THEN 1 ELSE cores \div 2
Effective(number, default) ==
    CASE number = "absent" -> default [] number = "zero" -> 0 [] OTHER -> 1
EffectiveReplayBatch(r, cores) ==
    Effective(r.replayBatch, Effective(r.maxConcurrency, DefaultConcurrency(cores)))

-----------------------------------------------------------------------------
(* The two invocations as their sequences of checks.                       *)

When(condition, sequence) == IF condition THEN sequence ELSE <<>>

Roots(r) == When(Clusters(r.stage), <<"scratch">> \o When(r.v3, <<"working root">>))

\* Mutant: the working root is left to the run.
ValidateWithoutRoot(r) ==
    <<"request", "clustering", "store", "ref name">>
    \o When(Clusters(r.stage), <<"scratch", "profile">>)
    \o When(r.stage = "clustering", <<"head">>)

\* validate_request_with_overrides
ValidateChecks(r) ==
    <<"request", "clustering", "store", "ref name">>
    \o Roots(r)
    \o When(Clusters(r.stage), <<"profile">>)
    \o When(r.stage = "clustering", <<"head">>)

\* run_request_with_progress: a full run ingests before the upstream indexer sees
\* the profile; what it ingested is its journal's head.  The items are read and made
\* into blocks, the journal is read back and sorted into the scratch directory.
RunChecks(r) ==
    <<"request", "clustering", "store", "ref name">>
    \o Roots(r)
    \o When(Ingests(r.stage), <<"refs parent", "embedding", "provider", "items", "embed">>)
    \o When(r.stage = "clustering", <<"head">>)
    \o When(Clusters(r.stage), <<"replay", "profile">>)

\* What a check of the request says: it holds, it is an error, or an unwrap fails.
OnRequest(check, r) ==
    CASE check = "request" -> IF ValidRequest(r) THEN "holds" ELSE "error"
      [] check = "clustering" -> IF ValidClustering(r) THEN "holds" ELSE "error"
      [] check = "ref name" -> IF RefUnwraps(r) THEN "holds" ELSE "panic"
      [] check = "embedding" -> IF LocalEmbedding(r.environment) THEN "holds" ELSE "error"
      [] OTHER -> "holds"

RequestStart(given, first) ==
    /\ request = given
    /\ found = [check \in WorldChecks |-> "unknown"]
    /\ invocation = first
    /\ checks = IF first = "validate" THEN ValidateChecks(given) ELSE RunChecks(given)
    /\ passed = FALSE
    /\ result = "none"

RequestInit == \E given \in Requests, first \in {"validate", "run"} : RequestStart(given, first)

Ends(how) == result' = how /\ UNCHANGED checks

\* One check.  What is found of the world is found again by the next invocation.
\* The embeddings of a production environment are a stub that refuses.
Check ==
    /\ result = "none" /\ checks # <<>>
    /\ LET check == Head(checks) IN
       IF check \in WorldChecks
       THEN \E holds \in BOOLEAN :
            /\ found[check] # "unknown" => holds = (found[check] = "good")
            /\ check = "store" /\ ~StoreConfigured(request.environment) => ~holds
            /\ check = "embed" /\ request.environment.kind \in {"production", "production-v2"}
                 => ~holds
            /\ found' = [found EXCEPT ![check] = IF holds THEN "good" ELSE "bad"]
            /\ IF holds THEN checks' = Tail(checks) /\ UNCHANGED result ELSE Ends(check)
       ELSE /\ CASE OnRequest(check, request) = "holds" -> checks' = Tail(checks) /\ UNCHANGED result
                 [] OnRequest(check, request) = "error" -> Ends(check)
                 [] OTHER -> Ends("panic")
            /\ UNCHANGED found
    /\ UNCHANGED <<request, invocation, passed>>

\* Every check held: "Validation OK", or the run goes to its work.
Through ==
    /\ result = "none" /\ checks = <<>>
    /\ result' = "through"
    /\ passed' = (passed \/ invocation = "validate")
    /\ UNCHANGED <<request, found, invocation, checks>>

\* The operator runs what was validated.
RunNext ==
    /\ invocation = "validate" /\ result # "none"
    /\ invocation' = "run"
    /\ checks' = RunChecks(request)
    /\ result' = "none"
    /\ UNCHANGED <<request, found, passed>>

Finished == invocation = "run" /\ result # "none" /\ UNCHANGED requestVars

RequestNext == Check \/ Through \/ RunNext \/ Finished

RequestSpec == RequestInit /\ [][RequestNext]_requestVars

-----------------------------------------------------------------------------
(* Properties.                                                             *)

\* A validated request, in a world that has not changed, is refused by its run only
\* for what a validation does not look at: the parent of the refs, the embedding
\* provider, the items' content, the embedding itself, and the replay of the journal.
\* No ingestion is done for a request whose clustering the upstream indexer then refuses.
ValidatedRunIsAccepted ==
    passed /\ invocation = "run" =>
        result \in {"none", "through", "refs parent", "provider", "items", "embed", "replay"}

\* Nothing that the entry points unwrap is missing: neither invocation panics.
NothingUnwrappedIsMissing == result # "panic"

\* A run that goes to work has a batch size of at least one on every machine, so that
\* its loops over batches end.
BatchesAreNotEmpty ==
    result = "through" => \A cores \in 0..3 : EffectiveReplayBatch(request, cores) >= 1

\* A validation is worth its name: what it lets through is accepted, has all that
\* is unwrapped, and has work for every turn of the run's loops
\* (validate_request_with_overrides against run_request_with_progress).
RequestSound == ValidatedRunIsAccepted /\ NothingUnwrappedIsMissing /\ BatchesAreNotEmpty
=============================================================================
