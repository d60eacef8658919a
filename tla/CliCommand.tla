----------------------------- MODULE CliCommand ------------------------------
(***************************************************************************)
(* One invocation of the indexer's command line (crates/                   *)
(* lexonarchivebuilder-indexer, main.rs and interrupt.rs): whether Ctrl-C  *)
(* is armed is decided from the command before anything is opened, the     *)
(* stores are configured from the block-store arguments, the command does  *)
(* its work, looks at the interrupt once more, writes its report and ends  *)
(* with an exit code.  Ctrl-C arrives at any moment.                       *)
(*                                                                         *)
(* A store is identified by its side and its profile.  Leaving main, by    *)
(* its end, by an error or by a panic, drops the stores and so closes      *)
(* them; process::exit and a signal that is not handled do not.            *)
(***************************************************************************)
EXTENDS Naturals

Readable == {"local", "local-redb", "production", "production-v2", "gateway-http3"}
Writable == Readable \ {"gateway-http3"}
Kinds == {"run", "validate", "quality", "search", "copy", "compact"}

\* The default_value_t of the profile a side's arguments declare.
DefaultProfile(name, side) ==
    IF name = "compact" /\ side = "source" THEN "local-redb" ELSE "local"

\* The request's environment for run, the block-store profile for the others;
\* only copy has a second store.  local-overlay opens no redb: as production.
\* "defaulted" holds the sides whose profile is not on the command line.
Commands ==
    {c \in [name : Kinds, source : Readable, dest : Writable \cup {"none"}, blind : BOOLEAN,
            defaulted : SUBSET {"source", "dest"}] :
        /\ c.name \in {"run", "validate"} => c.source \in Writable /\ c.defaulted = {}
        /\ \A side \in c.defaulted : c[side] = DefaultProfile(c.name, side)
        /\ (c.dest # "none") <=> (c.name = "copy")
        /\ c.blind => c.name = "copy"}

VARIABLES
    command,    \* the parsed command line
    step,         \* where main is
    armed,      \* the Ctrl-C handler is installed
    signals,    \* Ctrl-C that arrived, up to MaxSignals
    flag,       \* INTERRUPT_REQUESTED
    open,       \* the direct local-redb stores held open, by side
    work,       \* "all" when the command's operation did everything it had to
    outcome,    \* what a completed operation found: "clean" or "bad"
    onDisk,     \* what the report or summary on disk says, "none" if unwritten
    exit        \* the way the process ended

cliVars == <<command, step, armed, signals, flag, open, work, outcome, onDisk, exit>>

MaxSignals == 2

CliStart(parsed) ==
    /\ command = parsed
    /\ step = "start"
    /\ armed = FALSE /\ flag = FALSE
    /\ signals = 0
    /\ open = {}
    /\ work = "none"
    /\ outcome = "clean"
    /\ onDisk = "none"
    /\ exit = "none"

CliInit == \E parsed \in Commands : CliStart(parsed)

\* Mutant: only the source side of a command is asked for its profile.
SourceUsesDirectLocalRedb == command.name # "validate" /\ command.source = "local-redb"

\* command_uses_direct_local_redb: a validation never counts.
UsesDirectLocalRedb ==
    /\ command.name # "validate"
    /\ command.source = "local-redb" \/ command.dest = "local-redb"

\* main returns or unwinds: the stores are dropped.
Leave(how) ==
    /\ step' = "ended"
    /\ exit' = how
    /\ open' = {}

\* process::exit: nothing is dropped.
Abandon(how) ==
    /\ step' = "ended"
    /\ exit' = how
    /\ UNCHANGED open

\* Reading the request and installing the handler may fail.
Start ==
    /\ step = "start"
    /\ \/ /\ armed' = UsesDirectLocalRedb
          /\ step' = "configure"
          /\ UNCHANGED <<open, exit>>
       \/ Leave("error") /\ UNCHANGED armed
    /\ UNCHANGED <<command, signals, flag, work, outcome, onDisk>>

(***************************************************************************)
(* The block-store arguments beside the profile, each given or not.  A     *)
(* request file has no such arguments: its environment is validated        *)
(* instead (RunRequest).                                                   *)
(***************************************************************************)
Options == [root : BOOLEAN, sas : BOOLEAN, dns : BOOLEAN, cache : BOOLEAN,
            memory : {"absent", "zero", "positive"}, prefix : BOOLEAN]

\* The required_if_eq attributes of BlockStoreArgs and its three siblings.  They
\* compare with a profile that was given: one left to its default asks for nothing.
RequiredByClap(side, profile, o) ==
    side \notin command.defaulted =>
        /\ profile \in {"local", "local-redb"} => o.root
        /\ profile \in {"production", "production-v2"} => o.sas
        /\ profile = "production" => o.cache /\ o.memory # "absent"
        /\ profile = "gateway-http3" => o.dns

\* block_store_environment_config and the store it selects: "panic" where an
\* expect fails, "error" where the overlay or table refuses the
\* configuration (validate_for_overlay, validate_for_azure_table).
ConfiguredStore(profile, o) ==
    CASE profile \in {"local", "local-redb"} -> IF o.root THEN profile ELSE "panic"
      [] profile = "production" ->
            IF ~o.sas THEN "panic"
            ELSE IF o.prefix \/ ~o.cache \/ o.memory # "positive" THEN "error" ELSE "overlay"
      [] profile = "production-v2" ->
            IF ~o.sas THEN "panic"
            ELSE IF o.prefix \/ o.cache \/ o.memory # "absent" THEN "error" ELSE "azure-table"
      [] OTHER -> IF o.dns THEN "gateway-http3" ELSE "panic"

\* The panics at the expects of a side's configuration.
PanicAt == [source |-> "panic-source", dest |-> "panic-dest"]

\* A store is opened; opening itself may fail.
Configure(side, profile, next) ==
    \E o \in Options :
        /\ command.name \notin {"run", "validate"} => RequiredByClap(side, profile, o)
        /\ command.name \in {"run", "validate"} => ConfiguredStore(profile, o) # "panic"
        /\ LET store == ConfiguredStore(profile, o) IN
           \/ /\ store \notin {"panic", "error"}
              /\ open' = open \cup (IF store = "local-redb" THEN {side} ELSE {})
              /\ step' = next
              /\ UNCHANGED exit
           \/ Leave(IF store = "panic" THEN PanicAt[side] ELSE "error")

\* Search configures its provider after the store, copy its destination.
ConfigureSource ==
    /\ step = "configure"
    /\ Configure("source", command.source,
                 CASE command.name = "copy" -> "configure-dest"
                   [] command.name = "search" -> "provider"
                   [] OTHER -> "operate")
    /\ UNCHANGED <<command, armed, signals, flag, work, outcome, onDisk>>

ConfigureDestination ==
    /\ step = "configure-dest"
    /\ Configure("dest", command.dest, "operate")
    /\ UNCHANGED <<command, armed, signals, flag, work, outcome, onDisk>>

\* configured_search_embedding_provider: the gateway brings its own endpoint,
\* every other profile needs one.
ConfigureProvider ==
    /\ step = "provider"
    /\ \E endpoint, apiKey \in BOOLEAN :
        IF (command.source = "gateway-http3" /\ ~endpoint /\ ~apiKey)
           \/ (command.source # "gateway-http3" /\ endpoint)
        THEN step' = "operate" /\ UNCHANGED <<open, exit>>
        ELSE Leave("error")
    /\ UNCHANGED <<command, armed, signals, flag, work, outcome, onDisk>>

\* What the operation reports when it went through: only an assessment can have
\* findings and only a copy failed blocks.
Outcomes == IF command.name \in {"quality", "copy"} THEN {"clean", "bad"} ELSE {"clean"}

Completed ==
    /\ work' = "all"
    /\ outcome' \in Outcomes
    /\ step' = IF command.name = "search" THEN "write" ELSE "check"
    /\ UNCHANGED <<open, exit>>

\* A copy that sees the interrupt returns the report of what it did so far.
StoppedCopy ==
    /\ command.name = "copy" /\ flag
    /\ work' = "part"
    /\ outcome' \in Outcomes
    /\ step' = "check"
    /\ UNCHANGED <<open, exit>>

\* Every other operation that sees it fails; a compaction and a validation do not look.
StoppedOther ==
    /\ command.name \in {"run", "quality", "search"} /\ flag
    /\ work' = "part"
    /\ Leave("error")
    /\ UNCHANGED outcome

Failed ==
    /\ command.name # "copy"
    /\ Leave("error")
    /\ UNCHANGED <<work, outcome>>

\* maintenance compact on a store that is not local-redb.
Supported == command.name = "compact" => command.source = "local-redb"

Operate ==
    /\ step = "operate"
    /\ (Supported /\ Completed) \/ StoppedCopy \/ StoppedOther \/ Failed
    /\ UNCHANGED <<command, armed, signals, flag, onDisk>>

\* interrupt::check_for_interrupt between the operation and its report.
CheckForInterrupt ==
    /\ step = "check"
    /\ IF flag THEN Leave("error") ELSE step' = "write" /\ UNCHANGED <<open, exit>>
    /\ UNCHANGED <<command, armed, signals, flag, work, outcome, onDisk>>

\* write_quality_report, write_search_report, write_copy_report, write_summary_file
\* (which run only has with --summary-out), then the exit code.
WriteAndExit ==
    /\ step = "write"
    /\ \/ Leave("error") /\ UNCHANGED onDisk
       \/ /\ onDisk' \in IF command.name \in {"validate", "compact"} THEN {"none"}
                         ELSE IF command.name = "run" THEN {"none", outcome} ELSE {outcome}
          /\ CASE outcome = "clean" -> Leave("success")
               [] outcome # "clean" /\ command.name = "quality" -> Abandon("findings")
               [] OTHER -> Abandon("failures")
    /\ UNCHANGED <<command, armed, signals, flag, work, outcome>>

\* next_interrupt_action: the first asks, any other forces the exit.
HandleInterrupt ==
    IF signals = 0
    THEN flag' = TRUE /\ UNCHANGED <<step, exit, open>>
    ELSE Abandon("forced") /\ UNCHANGED flag

\* Without the handler the signal ends the process.
CtrlC ==
    /\ exit = "none" /\ signals < MaxSignals
    /\ signals' = signals + 1
    /\ IF armed THEN HandleInterrupt ELSE Abandon("killed") /\ UNCHANGED flag
    /\ UNCHANGED <<command, armed, work, outcome, onDisk>>

MainStep ==
    \/ Start \/ ConfigureSource \/ ConfigureDestination \/ ConfigureProvider
    \/ Operate \/ CheckForInterrupt \/ WriteAndExit

Ended == exit # "none" /\ UNCHANGED cliVars

CliNext == MainStep \/ CtrlC \/ Ended

CliSpec == CliInit /\ [][CliNext]_cliVars

-----------------------------------------------------------------------------
(* Properties.                                                             *)

\* No command reports work it abandoned: a report on disk, and an exit code other
\* than an error's, come from an operation that went through, whenever the
\* interrupt arrived.
NoSuccessForAbandonedWork ==
    onDisk # "none" \/ exit \in {"success", "findings", "failures"} => work = "all"

\* A single Ctrl-C never leaves a direct local-redb store open behind the process,
\* which the next open would pay with a recovery.  The exit codes of findings and of
\* copy failures skip the close whatever the operator does, and are left to
\* CodeMatchesReport; a validation opens the store and arms nothing.
OneInterruptClosesStores ==
    exit # "none" /\ signals <= 1 /\ exit \notin {"findings", "failures"} =>
        open = {} \/ (command.name = "validate" /\ exit = "killed")

\* Who reads an exit code can read the report it is about: the codes for findings
\* and failures are given only with such a report on disk, and success never with one.
CodeMatchesReport ==
    /\ exit \in {"findings", "failures"} => onDisk = "bad"
    /\ exit = "success" => onDisk # "bad"

\* The expects of the store configuration ("... is required by clap") fail only for a
\* side whose profile was left to its default, and then before the command did any
\* work or wrote any report: a profile that was given has what it unwraps.
OnlyADefaultPanics ==
    \A side \in {"source", "dest"} :
        exit = PanicAt[side] => side \in command.defaulted /\ work = "none" /\ onDisk = "none"

\* Wherever Ctrl-C falls between the steps of a command, its report, its exit code
\* and the stores it leaves tell one story (main, command_uses_direct_local_redb).
CommandSound ==
    NoSuccessForAbandonedWork /\ OneInterruptClosesStores /\ CodeMatchesReport /\ OnlyADefaultPanics
=============================================================================
