---------------------------- MODULE PublishedIndex ----------------------------
(***************************************************************************)
(* What the published refs of one archive promise to a later run or        *)
(* reader: the journal named by the head is an append-only history in      *)
(* which every publication appears as a whole, and the current root always *)
(* is the outcome of the last clustering that the journal records, over    *)
(* all replay inputs recorded before it.                                   *)
(*                                                                         *)
(* A journal block is identified by the hash of its predecessor's hash and *)
(* its entries, so a head is modelled by what it determines: the sequence  *)
(* of the entry lists of the chain, oldest block first.                    *)
(***************************************************************************)
EXTENDS Naturals, Sequences, SequencesExt

CONSTANT OutcomeFragments   \* outcome records one clustering result is split into

VARIABLES head, root

\* ReplayJournalRecord: a leaf that can be replayed, or one fragment of the
\* outcome of a clustering.  A root is identified with the leaves below it.
ReplayInput(leaf)           == [leaf |-> {leaf}, root |-> {}, fragment |-> 0]
IndexingOutcome(tree, part) == [leaf |-> {}, root |-> tree, fragment |-> part]

OutcomeRecords(tree) == [i \in 1..OutcomeFragments |-> IndexingOutcome(tree, i)]

Entries(chain) == FlattenSeq(chain)

\* The distinct leaves among the inputs of a journal.
InputLeaves(chain) == UNION {r.leaf : r \in ToSet(Entries(chain))}

PublishedInit == head = <<>> /\ root = {}

Appended(old, new) == SubSeq(Entries(new), Len(Entries(old)) + 1, Len(Entries(new)))

\* A batch of completed leaves.
PublishInputs ==
    /\ \A i \in DOMAIN Appended(head, head') : Appended(head, head')[i].fragment = 0
    /\ root' = root

\* A clustering result with all of its outcome records.
PublishOutcome ==
    /\ root' = InputLeaves(head)
    /\ Appended(head, head') = OutcomeRecords(root')

PublishedNext ==
    /\ IsStrictPrefix(head, head')
    /\ PublishInputs \/ PublishOutcome

PublishedSpec == PublishedInit /\ [][PublishedNext]_<<head, root>>

=============================================================================
