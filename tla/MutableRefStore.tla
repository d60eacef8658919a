--------------------------- MODULE MutableRefStore ---------------------------
(***************************************************************************)
(* The mutable ref store of the indexer runtime (runtime.rs): one small    *)
(* JSON object that names the current root block and the head of the       *)
(* replay journal.  A local profile keeps it in a file, which is replaced  *)
(* through a temporary and a backup file; the production profiles keep it  *)
(* in an Azure blob, put with retries, or in an Azure table entity.        *)
(*                                                                         *)
(* One file system call or one HTTP attempt is one step.  A crash of the   *)
(* process (the second Ctrl-C calls exit) leaves the files as they are.    *)
(* The metadata map of the object is left out: it is replaced together     *)
(* with the rest and nothing reads it back.                                *)
(***************************************************************************)
EXTENDS Naturals, Sequences

CONSTANTS
    Location,                               \* where the refs of this profile are kept
    MUTABLE_REF_STORE_HTTP_RETRY_ATTEMPTS,
    IoFaults                                \* calls that may fail

LocalSteps == {"create_temp", "fill_temp", "remove_backup", "rename_old", "rename_new",
               "remove_old", "restore"}

ASSUME RefStoreAssumption ==
    /\ Location \in {"LocalFile", "AzureBlob", "AzureTable"}
    /\ MUTABLE_REF_STORE_HTTP_RETRY_ATTEMPTS \in Nat \ {0}
    /\ IoFaults \subseteq LocalSteps \cup {"put", "load", "put_block", "build"}

VARIABLES
    ref_file,       \* the file, blob or entity that load_mutable_ref_store reads
    temp_file,
    backup_file,
    writing         \* progress of write_mutable_ref_store_bytes

refVars == <<ref_file, temp_file, backup_file, writing>>

\* No root and no journal head (Option::None).
NoRoot == {}
NoHead == <<>>

\* MutableRefStoreState::default()
DefaultRefs == [root |-> NoRoot, head |-> NoHead]

NoFile     == [kind |-> "none", refs |-> DefaultRefs]
Torn       == [kind |-> "torn", refs |-> DefaultRefs]
Json(refs) == [kind |-> "json", refs |-> refs]

NotWriting == [at |-> "idle", refs |-> DefaultRefs, had_existing_file |-> FALSE, attempt |-> 0]

RefStoreInit ==
    /\ ref_file = NoFile
    /\ temp_file = NoFile
    /\ backup_file = NoFile
    /\ writing = NotWriting

\* load_mutable_ref_store: an absent object is the default state, one that does
\* not parse is an error.
Loadable   == ref_file.kind # "torn"
LoadedRefs == ref_file.refs

LoadFails == "load" \in IoFaults \/ ~Loadable

\* apply_mutable_ref_store_update: only the fields that are Some are replaced.
ApplyUpdate(refs, update) ==
    [root |-> IF update.root = NoRoot THEN refs.root ELSE update.root,
     head |-> IF update.head = NoHead THEN refs.head ELSE update.head]

-----------------------------------------------------------------------------
(* write_mutable_ref_store_bytes *)

WriteTo(step) == writing' = [writing EXCEPT !.at = step]

BeginWrite(refs) ==
    /\ writing' = [NotWriting EXCEPT !.at = IF Location = "LocalFile" THEN "create_temp" ELSE "put",
                                     !.refs = refs]
    /\ UNCHANGED <<ref_file, temp_file, backup_file>>

\* fs::write truncates the file before it fills it.
CreateTemp ==
    /\ writing.at = "create_temp"
    /\ temp_file' = Torn
    /\ WriteTo("fill_temp")
    /\ UNCHANGED <<ref_file, backup_file>>

FillTemp ==
    /\ writing.at = "fill_temp"
    /\ temp_file' = Json(writing.refs)
    /\ LET had == ref_file.kind # "none"
       IN writing' = [writing EXCEPT
                         !.had_existing_file = had,
                         !.at = CASE had /\ backup_file.kind # "none" -> "remove_backup"
                                  [] had /\ backup_file.kind = "none" -> "rename_old"
                                  [] OTHER -> "rename_new"]
    /\ UNCHANGED <<ref_file, backup_file>>

RemoveBackup ==
    /\ writing.at = "remove_backup"
    /\ backup_file' = NoFile
    /\ WriteTo("rename_old")
    /\ UNCHANGED <<ref_file, temp_file>>

RenameOld ==
    /\ writing.at = "rename_old"
    /\ backup_file' = ref_file
    /\ ref_file' = NoFile
    /\ WriteTo("rename_new")
    /\ UNCHANGED temp_file

RenameNew ==
    /\ writing.at = "rename_new"
    /\ ref_file' = temp_file
    /\ temp_file' = NoFile
    /\ WriteTo(IF writing.had_existing_file THEN "remove_old" ELSE "written")
    /\ UNCHANGED backup_file

RemoveOld ==
    /\ writing.at = "remove_old"
    /\ backup_file' = NoFile
    /\ WriteTo("written")
    /\ UNCHANGED <<ref_file, temp_file>>

\* A call returned an error.  Only the second rename is answered by putting the
\* backup back; the outcome of that is ignored.
LocalStepFails ==
    /\ writing.at \in LocalSteps \cap IoFaults
    /\ WriteTo(IF writing.at = "rename_new" /\ writing.had_existing_file
               THEN "restore" ELSE "failed")
    /\ UNCHANGED <<ref_file, temp_file, backup_file>>

\* Mutant: the backup is not put back.
SkipRestore ==
    /\ writing.at = "restore"
    /\ WriteTo("failed")
    /\ UNCHANGED <<ref_file, temp_file, backup_file>>

RestoreBackup ==
    /\ writing.at = "restore"
    /\ ref_file' = backup_file
    /\ backup_file' = NoFile
    /\ WriteTo("failed")
    /\ UNCHANGED temp_file

\* One PUT of the blob or entity.  A lost answer or a retryable status may hide
\* a write that took place.
PutSucceeds ==
    /\ writing.at = "put"
    /\ ref_file' = Json(writing.refs)
    /\ WriteTo("written")
    /\ UNCHANGED <<temp_file, backup_file>>

MaxAttempts ==
    IF Location = "AzureBlob" THEN MUTABLE_REF_STORE_HTTP_RETRY_ATTEMPTS ELSE 1

\* Mutant: the attempts are not counted.
PutRetriesForever ==
    /\ writing.at = "put" /\ "put" \in IoFaults
    /\ ref_file' \in {ref_file, Json(writing.refs)}
    /\ writing' = [writing EXCEPT !.attempt = 1 - @]
    /\ UNCHANGED <<temp_file, backup_file>>

PutUnanswered ==
    /\ writing.at = "put" /\ "put" \in IoFaults
    /\ ref_file' \in {ref_file, Json(writing.refs)}
    /\ writing' = [writing EXCEPT
                      !.attempt = @ + 1,
                      !.at = IF writing.attempt + 1 < MaxAttempts THEN "put" ELSE "failed"]
    /\ UNCHANGED <<temp_file, backup_file>>

\* A status that is neither success nor worth a retry.
PutRefused ==
    /\ writing.at = "put" /\ "put" \in IoFaults
    /\ WriteTo("failed")
    /\ UNCHANGED <<ref_file, temp_file, backup_file>>

\* The refs a reader outside of a write would find; while a local file is being
\* exchanged, the ones the write falls back to.
Authoritative ==
    IF writing.at \in {"rename_new", "restore"} /\ writing.had_existing_file
    THEN backup_file.refs
    ELSE ref_file.refs

WriteStep ==
    \/ CreateTemp \/ FillTemp \/ RemoveBackup \/ RenameOld \/ RenameNew \/ RemoveOld
    \/ LocalStepFails \/ RestoreBackup
    \/ PutSucceeds \/ PutUnanswered \/ PutRefused

EndWrite ==
    /\ writing' = NotWriting
    /\ UNCHANGED <<ref_file, temp_file, backup_file>>

=============================================================================
