----------------------------- MODULE ReplayOrder -----------------------------
(***************************************************************************)
(* The replay order (crates/lexonarchivebuilder-indexer/src/runtime.rs,    *)
(* collect_ordered_replay_block_ids_from_journal and what it calls): the   *)
(* journal is scanned newest first, its replay inputs are collected in     *)
(* sorted runs of bounded length on disk, the runs are merged FanIn at a   *)
(* time until one group is left, and that is merged into the file which    *)
(* the replay reads back in batches.  An input that occurs again is        *)
(* dropped, and one that occurs again with another digest is an error, in  *)
(* a run and in every merge.                                               *)
(*                                                                         *)
(* A block id and a digest are numbers.  Files are sequences of entries;   *)
(* opening, reading and writing them may fail.                             *)
(***************************************************************************)
EXTENDS Naturals, Sequences, SequencesExt, FiniteSets

CONSTANTS
    Journals,   \* the journals scanned: sequences of records, newest first
    FlushLimit, \* flush_entry_limit
    FanIn,      \* REPLAY_ORDER_MERGE_FAN_IN
    BatchSize,  \* entries the replay reads at a time
    FilesMayFail     \* whether scratch files may fail and Ctrl-C be pressed

ASSUME ReplayOrderAssumption ==
    /\ FlushLimit \in Nat \ {0} /\ FanIn \in Nat /\ FanIn >= 2
    /\ BatchSize \in Nat \ {0}
    /\ FilesMayFail \in BOOLEAN
    /\ \A journal \in Journals :
          journal \in Seq([kind : {"ReplayInput", "Outcome"}, id : Nat, digest : Nat])

VARIABLES
    records,    \* the journal of this run
    unscanned,  \* its records still to come
    ordered,    \* ordered_entries
    runs,       \* the files of the current merge pass
    merged,     \* the files of the next pass so far
    group,      \* the group being merged: what is left of each of its files
    previous,   \* previous_entry: an entry, or none
    out,        \* what the merge has written
    phase,         \* where the code is
    batches     \* what the reader has handed out

orderVars == <<records, unscanned, ordered, runs, merged, group, previous, out, phase, batches>>

NoEntry == <<>>
IsInput(record) == record.kind = "ReplayInput"
Entry(record) == [id |-> record.id, digest |-> record.digest]

OrderStart(journal) ==
    /\ records = journal
    /\ unscanned = records
    /\ ordered = <<>> /\ runs = <<>> /\ merged = <<>> /\ group = <<>>
    /\ previous = NoEntry /\ out = <<>>
    /\ phase = "scan"
    /\ batches = <<>>

OrderInit == \E journal \in Journals : OrderStart(journal)

\* Ord for ReplayOrderEntry.
Before(a, b) == a.id < b.id \/ (a.id = b.id /\ a.digest < b.digest)

Conflict(a, b) == a.id = b.id /\ a.digest # b.digest

\* A record is read; an input joins the entries in memory.
Scan ==
    /\ phase = "scan"
    /\ unscanned # <<>> /\ Len(ordered) < FlushLimit
    /\ unscanned' = Tail(unscanned)
    /\ ordered' = IF IsInput(Head(unscanned))
                  THEN Append(ordered, Entry(Head(unscanned))) ELSE ordered
    /\ UNCHANGED <<records, runs, merged, group, previous, out, phase, batches>>

\* sort_unstable: the outcomes of the sort (there is one, alike entries being equal).
Sorted(entries) ==
    {s \in {[i \in DOMAIN entries |-> entries[p[i]]] :
               p \in Bijection(DOMAIN entries, DOMAIN entries)} :
        \A i \in 1..(Len(s) - 1) : ~Before(s[i + 1], s[i])}

\* The entries of a sorted sequence, each id once.
Dedup(entries) ==
    LET kept[i \in 0..Len(entries)] ==
            IF i = 0 THEN <<>>
            ELSE IF i > 1 /\ entries[i - 1].id = entries[i].id THEN kept[i - 1]
            ELSE Append(kept[i - 1], entries[i])
    IN  kept[Len(entries)]

\* flush_sorted_replay_order_run, when the limit is reached or the journal ends.
FlushRun ==
    /\ phase = "scan"
    /\ ordered # <<>>
    /\ Len(ordered) >= FlushLimit \/ unscanned = <<>>
    /\ \E sorted \in Sorted(ordered) :
           IF \E i \in 1..(Len(sorted) - 1) : Conflict(sorted[i], sorted[i + 1])
           THEN phase' = "conflict" /\ UNCHANGED <<ordered, runs>>
           ELSE /\ runs' = Append(runs, Dedup(sorted))
                /\ ordered' = <<>>
                /\ UNCHANGED phase
    /\ UNCHANGED <<records, unscanned, merged, group, previous, out, batches>>

ScanEnds ==
    /\ phase = "scan"
    /\ unscanned = <<>> /\ ordered = <<>>
    /\ phase' = IF runs = <<>> THEN "NoClusterableBlocks" ELSE "pass"
    /\ UNCHANGED <<records, unscanned, ordered, runs, merged, group, previous, out, batches>>

\* How many files the next group has: chunks(REPLAY_ORDER_MERGE_FAN_IN).
GroupLen == IF Len(runs) > FanIn THEN FanIn ELSE Len(runs)

\* The files of a pass are merged group by group.
MergeGroup ==
    /\ phase = "pass"
    /\ runs # <<>>
    /\ group' = SubSeq(runs, 1, GroupLen)
    /\ runs' = SubSeq(runs, GroupLen + 1, Len(runs))
    /\ previous' = NoEntry /\ out' = <<>>
    /\ phase' = "merge"
    /\ UNCHANGED <<records, unscanned, ordered, merged, batches>>

\* A pass is over: the next one takes its files.
NextPass ==
    /\ phase = "pass"
    /\ runs = <<>>
    /\ Len(merged) > 1
    /\ runs' = merged /\ merged' = <<>>
    /\ UNCHANGED <<records, unscanned, ordered, group, previous, out, phase, batches>>

\* One file is left: it is the merged file.
MergeEnds ==
    /\ phase = "pass"
    /\ runs = <<>> /\ Len(merged) = 1
    /\ phase' = "read"
    /\ UNCHANGED <<records, unscanned, ordered, runs, merged, group, previous, out, batches>>

Heads == {i \in DOMAIN group : group[i] # <<>>}

\* Ord for ReplayOrderCursor: the least entry, of the first file that has it.
LeastCursor(i) ==
    \A j \in Heads : \/ Before(Head(group[i]), Head(group[j]))
                     \/ Head(group[i]) = Head(group[j]) /\ i <= j

\* Mutant: an entry that occurs again is not compared.
MergePopUnchecked ==
    /\ phase = "merge"
    /\ \E i \in Heads :
        LET entry == Head(group[i])
        IN  /\ LeastCursor(i)
            /\ group' = [group EXCEPT ![i] = Tail(@)]
            /\ previous' = IF previous # NoEntry /\ previous.id = entry.id THEN previous ELSE entry
            /\ out' = IF previous # NoEntry /\ previous.id # entry.id THEN Append(out, previous) ELSE out
            /\ UNCHANGED phase
    /\ UNCHANGED <<records, unscanned, ordered, runs, merged, batches>>

\* One turn of the merge loop: the least entry of the group is compared with
\* the one before it, which is written when it is another, and its file advances.
MergePop ==
    /\ phase = "merge"
    /\ \E i \in Heads :
        LET entry == Head(group[i])
            again == previous # NoEntry /\ previous.id = entry.id
        IN  /\ LeastCursor(i)
            /\ IF again /\ Conflict(previous, entry)
               THEN phase' = "conflict" /\ UNCHANGED <<group, previous, out>>
               ELSE /\ group' = [group EXCEPT ![i] = Tail(@)]
                    /\ previous' = IF again THEN previous ELSE entry
                    /\ out' = IF previous # NoEntry /\ ~again THEN Append(out, previous) ELSE out
                    /\ UNCHANGED phase
    /\ UNCHANGED <<records, unscanned, ordered, runs, merged, batches>>

\* The group is drained: the last entry is written and the file is complete.
MergeGroupEnds ==
    /\ phase = "merge"
    /\ Heads = {}
    /\ merged' = Append(merged, IF previous = NoEntry THEN out ELSE Append(out, previous))
    /\ group' = <<>> /\ previous' = NoEntry /\ out' = <<>>
    /\ phase' = "pass"
    /\ UNCHANGED <<records, unscanned, ordered, runs, batches>>

ReadSoFar == FlattenSeq(batches)
Merged == merged[1]

\* ReplayOrderReader::read_next_entries.
ReadNextEntries ==
    /\ phase = "read"
    /\ LET rest == SubSeq(Merged, Len(ReadSoFar) + 1, Len(Merged))
           n == IF Len(rest) < BatchSize THEN Len(rest) ELSE BatchSize
       IN  IF n = 0
           THEN phase' = "done" /\ UNCHANGED batches
           ELSE batches' = Append(batches, SubSeq(rest, 1, n)) /\ UNCHANGED phase
    /\ UNCHANGED <<records, unscanned, ordered, runs, merged, group, previous, out>>

\* A scratch file cannot be created, written or read, or Ctrl-C was pressed:
\* every loop looks at every entry.
Fails ==
    /\ FilesMayFail
    /\ phase \in {"scan", "pass", "merge", "read"}
    /\ phase' = "failed"
    /\ UNCHANGED <<records, unscanned, ordered, runs, merged, group, previous, out, batches>>

OrderNext ==
    \/ Scan \/ FlushRun \/ ScanEnds
    \/ MergeGroup \/ NextPass \/ MergeEnds \/ MergePop \/ MergeGroupEnds
    \/ ReadNextEntries \/ Fails

OrderSpec == OrderInit /\ [][OrderNext]_orderVars /\ WF_orderVars(OrderNext)

----------------------------------------------------------------------------
(* Properties.                                                              *)

Inputs == {Entry(records[i]) : i \in {j \in DOMAIN records : IsInput(records[j])}}
Conflicting == \E a \in Inputs, b \in Inputs : Conflict(a, b)

\* Every run and every merged file is strictly ordered by block id, so that no
\* later merge can miss an entry that occurs again (flush and merge).
FilesStrictlyOrdered ==
    \A file \in ToSet(runs) \cup ToSet(merged) \cup ToSet(group) \cup {out} :
        \A i \in 1..(Len(file) - 1) : file[i].id < file[i + 1].id

\* The replay reads every input of the journal exactly once, in the order of
\* block ids, however the inputs fell into runs, groups and passes.
EveryInputOnceInOrder ==
    phase = "done" => /\ ToSet(ReadSoFar) = Inputs
                   /\ \A i \in 1..(Len(ReadSoFar) - 1) : ReadSoFar[i].id < ReadSoFar[i + 1].id

\* Two records that give one block different digests are found, wherever the
\* runs and groups put them, and no journal without such a pair is refused.
ConflictsFound ==
    /\ phase \in {"read", "done"} => ~Conflicting
    /\ phase = "conflict" => Conflicting

\* The sort has begun and not ended.
OrderUnderWay ==
    /\ Len(unscanned) < Len(records)
    /\ phase \notin {"done", "conflict", "failed", "NoClusterableBlocks"}

\* The external sort is the sort: at every stage its files are ordered sets, its
\* result has every input once, and it fails for a conflict exactly if there is one
\* (flush_sorted_replay_order_run, merge_sorted_replay_order_run_group).
ReplayOrderSound == FilesStrictlyOrdered /\ EveryInputOnceInOrder /\ ConflictsFound
=============================================================================
