----------------------------- MODULE GatewayStart ----------------------------
(***************************************************************************)
(* How the block gateway comes up (crates/lexonarchivebuilder-block-       *)
(* gateway, main.rs and lib.rs): the arguments and the environment give    *)
(* the configuration, the storage profile decides which of them count, the *)
(* configuration is validated, and the store of the profile is built from  *)
(* it, unwrapping what the validation promises to be there.                *)
(*                                                                         *)
(* A text or path is absent, blank or set, and a number absent, unreadable *)
(* (in the environment only), zero or positive.  Opening a database, a     *)
(* certificate or an endpoint is external and may fail.                    *)
(***************************************************************************)
EXTENDS Sequences

Profiles == {"local-redb", "production", "production-v2"}
Remote == {"production", "production-v2"}

Texts == {"absent", "blank", "set"}
Sizes == {"absent", "zero", "positive"}

\* What clap accepts: --block-store-root is required by local-redb.
Args == {a \in [profile : Profiles, root : Texts, sas : Texts, cache : Texts,
                memory : Sizes, prefix : Texts] :
            a.profile = "local-redb" => a.root # "absent"}

EnvVariables == [sas : Texts, cache : Texts, memory : Sizes \cup {"unreadable"},
                 prefix : Texts]

VARIABLES
    args,       \* GatewayServeArgs
    env,        \* the environment variables of the process
    config,     \* GatewayConfig, or the arguments' profile alone before
    stage,         \* where serve is
    layers      \* the store that was built, as its layers

startVars == <<args, env, config, stage, layers>>

NoConfig == [profile |-> "none"]

StartWith(given, variables) ==
    /\ args = given
    /\ env = variables
    /\ config = NoConfig
    /\ stage = "arguments"
    /\ layers = <<>>

StartInit == \E given \in Args, variables \in EnvVariables : StartWith(given, variables)

OrElse(value, fallback) == IF value = "absent" THEN fallback ELSE value

UnwrapOrDefault(value) == OrElse(value, "blank")

Reject ==
    /\ stage' = "rejected"
    /\ UNCHANGED <<args, env, layers>>

\* gateway_config_from_args_with_env: the profile decides which variables of the
\* environment stand in for an argument that is not there.
ConfigFromArgs ==
    LET remote == args.profile \in Remote
        overlay == args.profile = "production"
    IN  [profile |-> args.profile,
         root    |-> args.root,
         sas     |-> UnwrapOrDefault(IF remote THEN OrElse(args.sas, env.sas) ELSE args.sas),
         cache   |-> IF overlay THEN OrElse(args.cache, env.cache) ELSE args.cache,
         memory  |-> IF overlay THEN OrElse(args.memory, env.memory) ELSE args.memory,
         prefix  |-> IF remote THEN OrElse(args.prefix, env.prefix) ELSE args.prefix]

ReadArguments ==
    /\ stage = "arguments"
    /\ config' = ConfigFromArgs
    /\ IF config'.memory = "unreadable"
       THEN Reject
       ELSE stage' = "configured" /\ UNCHANGED <<args, env, layers>>

\* Mutant: a blank cache root is accepted.
ValidUnlessAbsent(c) ==
    /\ c.profile \in Remote => c.sas # "blank"
    /\ c.prefix # "set"
    /\ CASE c.profile = "local-redb"    -> c.root = "set"
         [] c.profile = "production"    -> c.root = "absent" /\ c.cache # "absent"
         [] c.profile = "production-v2" -> c.root = "absent" /\ c.cache = "absent"
                                           /\ c.memory = "absent"

\* validate_storage_profile_config.
ValidStorageProfile(c) ==
    /\ c.profile \in Remote => c.sas # "blank"
    /\ c.prefix # "set"
    /\ CASE c.profile = "local-redb"    -> c.root = "set"
         [] c.profile = "production"    -> c.root = "absent" /\ c.cache = "set"
                                           /\ c.memory = "positive"
         [] c.profile = "production-v2" -> c.root = "absent" /\ c.cache = "absent"
                                           /\ c.memory = "absent"

ValidateConfig ==
    /\ stage = "configured"
    /\ IF ValidStorageProfile(config)
       THEN stage' = "validated" /\ UNCHANGED <<args, env, layers>>
       ELSE Reject
    /\ UNCHANGED config

\* The options a profile's builder unwraps with expect, or builds with.
Unwrapped(c) ==
    CASE c.profile = "local-redb"    -> <<c.root>>
      [] c.profile = "production"    -> <<c.sas, c.memory, c.cache>>
      [] c.profile = "production-v2" -> <<c.sas>>

\* build_local_redb_store, build_overlay_store, build_direct_azure_table_store.
LayersOf(c) ==
    CASE c.profile = "local-redb"    -> <<"redb">>
      [] c.profile = "production"    -> <<"memory", "filesystem", "azure_table">>
      [] c.profile = "production-v2" -> <<"azure_table">>

\* build_store: an option that is not there panics, a backend may not open.
BuildStore ==
    /\ stage = "validated"
    /\ stage' \in IF \E i \in DOMAIN Unwrapped(config) : Unwrapped(config)[i] = "absent"
                   THEN {"panicked"} ELSE {"built", "rejected"}
    /\ layers' = IF stage' = "built" THEN LayersOf(config) ELSE layers
    /\ UNCHANGED <<args, env, config>>

\* Router, certificate, private key and endpoint: each may fail.
Bind ==
    /\ stage = "built"
    /\ stage' \in {"serving", "rejected"}
    /\ UNCHANGED <<args, env, config, layers>>

StartNext == ReadArguments \/ ValidateConfig \/ BuildStore \/ Bind

StartSpec == StartInit /\ [][StartNext]_startVars

----------------------------------------------------------------------------
(* Properties.                                                              *)

\* The validation promises everything the builder of the profile unwraps, so
\* that no configuration panics: the three expect calls of the builders are
\* never reached with nothing to unwrap, nor with something blank or zero.
ValidatedIsBuildable ==
    /\ stage # "panicked"
    /\ layers # <<>> => \A i \in DOMAIN Unwrapped(config) : Unwrapped(config)[i] \in {"set", "positive"}

\* A local gateway never depends on what the environment holds for a hosted one:
\* "For the local-redb profile, these values are ignored".
LocalIgnoresEnvironment ==
    config.profile = "local-redb" =>
        /\ config.cache = args.cache /\ config.memory = args.memory
        /\ config.prefix = args.prefix /\ config.sas \in {args.sas, "blank"}

\* An argument wins over the environment in every profile, and a cache of the
\* overlay stands before the store it caches.
ArgumentsWin ==
    /\ config # NoConfig =>
        \A f \in {"sas", "cache", "memory", "prefix"} :
            args[f] # "absent" => config[f] = args[f]
    /\ \A i \in DOMAIN layers : layers[i] = "azure_table" => i = Len(layers)

\* The gateway that starts is the one its arguments describe, and every one that
\* validates starts (gateway_config_from_args_with_env, build_overlay_store).
GatewayStartSound == ValidatedIsBuildable /\ LocalIgnoresEnvironment /\ ArgumentsWin
=============================================================================
