--------------------------- MODULE IndexRunProofs ---------------------------
(***************************************************************************)
(* Proofs about the runs of the indexer (IndexRun), the keys by which they *)
(* know their items (ReplayKeys), and the text they take from a mailbox    *)
(* (MailExpansion).                                                        *)
(*                                                                         *)
(* StoreInv: everything the files, a write in progress or a run are about  *)
(* to name is in the block store (IndexStoreSafe).  HistoryInv adds what a *)
(* run has left to publish, step by step, so that the write of the refs is *)
(* one publication (AcknowledgedRefsSafe, RefsRefinePublishedIndex).       *)
(* The entries of a journal chain are a recursive function; what they are  *)
(* is shown by induction over the length of the chain (SetInduction).      *)
(*                                                                         *)
(* The keys of replayed items (ReplayKeys): what is escaped and ended can  *)
(* be read back from the front, so a digest tells the item (DigestTells),  *)
(* and an item's record is the one its block gives back (KeysSafe).        *)
(*                                                                         *)
(* The text of a mailbox: every operator on text is a FoldLeft, which is   *)
(* shown to be the value of a step function applied element by element     *)
(* (IterationIsFold); what each keeps of the letters follows by induction  *)
(* over the text (SeqInduction), and MailInv carries it through the        *)
(* expansion and the callers of the resolver (MailSafe).                   *)
(***************************************************************************)
EXTENDS IndexRun, ReplayKeys, MailExpansion, SequenceTheorems, FiniteSetTheorems,
        WellFoundedInduction, NaturalsInduction, TLAPS

-----------------------------------------------------------------------------
(* Types. *)

\* Records of the replay journal, chains of journal blocks, published refs.
JournalRecords == [leaf : SUBSET Leaves, root : SUBSET Leaves, fragment : Nat]
EntryLists == Seq(JournalRecords)
JournalChains == Seq(EntryLists)
RefStates == [root : SUBSET Leaves, head : JournalChains]
FileStates == [kind : {"none", "torn", "json"}, refs : RefStates]

-----------------------------------------------------------------------------
(* What the entries of a journal chain are. *)

\* Induction over the natural numbers, for a set instead of a predicate: a
\* number outside the set would have a least one, which is neither 0 nor a
\* successor.
LEMMA SetInduction ==
    ASSUME NEW S \in SUBSET Nat, 0 \in S, \A n \in S : n + 1 \in S
    PROVE  S = Nat
  <1> SUFFICES ASSUME S # Nat PROVE FALSE
    OBVIOUS
  <1>1. PICK R : R = OpToRel(<, Nat)
    OBVIOUS
  <1>2. IsWellFoundedOn(R, Nat)
    BY <1>1, NatLessThanWellFounded
  <1>3. PICK T : T = Nat \ S
    OBVIOUS
  <1>4. T \subseteq Nat /\ T # {}
    BY <1>3
  <1>5. PICK x \in T : \A y \in T : ~(<<y, x>> \in R)
    BY <1>2, <1>4, WFMin
  <1>6. \A y \in Nat : y < x => <<y, x>> \in R
    BY <1>1, <1>3 DEF OpToRel
  <1>7. x # 0 /\ x \in Nat
    BY <1>3
  <1>8. x - 1 \in Nat /\ x - 1 < x /\ (x - 1) + 1 = x
    BY <1>7
  <1>9. x - 1 \in S
    BY <1>3, <1>5, <1>6, <1>8
  <1> QED BY <1>3, <1>8, <1>9

\* f gives the entries of each of the first n prefixes of a chain.
Unfolds(f, chain, n) ==
    \A i \in 1..n : f[i] = IF i = 1 THEN chain[i] ELSE f[i - 1] \o chain[i]

EntriesUpTo(f, chain, n) == f \in [1..n -> EntryLists] /\ Unfolds(f, chain, n)

SameBlocks(p, q, n) == \A i \in 1..n : p[i] = q[i]

\* Such prefix entries exist, up to any length.
LEMMA EntriesExist ==
    ASSUME NEW chain \in JournalChains
    PROVE  \A n \in 0..Len(chain) : \E f : EntriesUpTo(f, chain, n)
  <1>1. PICK S : S = {n \in Nat : n <= Len(chain) => \E f : EntriesUpTo(f, chain, n)}
    OBVIOUS
  <1>2. 0 \in S
    <2>1. EntriesUpTo([i \in 1..0 |-> 0], chain, 0)
      BY DEF EntriesUpTo, Unfolds
    <2> QED BY <1>1, <2>1
  <1>3. ASSUME NEW n \in S PROVE n + 1 \in S
    <2>1. n \in Nat
      BY <1>1
    <2> SUFFICES ASSUME n + 1 <= Len(chain) PROVE \E g : EntriesUpTo(g, chain, n + 1)
      BY <1>1, <2>1
    <2>2. PICK f : EntriesUpTo(f, chain, n)
      BY <1>1, <2>1
    <2>3. PICK e : e = chain[n + 1]
      OBVIOUS
    <2>4. e \in EntryLists
      BY <2>1, <2>3 DEF JournalChains
    <2>5. PICK d : d = IF n = 0 THEN e ELSE f[n] \o e
      OBVIOUS
    <2>6. d \in EntryLists
      <3>1. CASE n = 0
        BY <2>4, <2>5, <3>1
      <3>2. CASE n # 0
        <4>1. f[n] \in EntryLists
          BY <2>1, <2>2, <3>2 DEF EntriesUpTo, Unfolds
        <4> QED BY <2>4, <2>5, <3>2, <4>1 DEF EntryLists
      <3> QED BY <3>1, <3>2
    <2>7. PICK g : g = [i \in 1..(n + 1) |-> IF i = n + 1 THEN d ELSE f[i]]
      OBVIOUS
    <2>8. DOMAIN g = 1..(n + 1)
      BY <2>7
    <2>9. ASSUME NEW i \in 1..(n + 1)
          PROVE  g[i] \in EntryLists /\ g[i] = IF i = 1 THEN chain[i] ELSE g[i - 1] \o chain[i]
      <3>1. CASE i = n + 1
        <4>1. g[i] = d
          BY <2>7, <3>1
        <4>2. CASE n = 0
          BY <2>3, <2>5, <2>6, <3>1, <4>1, <4>2
        <4>3. CASE n # 0
          <5>1. i # 1 /\ i - 1 = n /\ n \in 1..(n + 1) /\ n # n + 1
            BY <2>1, <3>1, <4>3
          <5>2. g[i - 1] = f[n]
            BY <2>7, <5>1
          <5> QED BY <2>3, <2>5, <2>6, <3>1, <4>1, <4>3, <5>1, <5>2
        <4> QED BY <4>2, <4>3
      <3>2. CASE i # n + 1
        <4>1. i \in 1..n /\ (i # 1 => i - 1 \in 1..(n + 1) /\ i - 1 # n + 1)
          BY <2>1, <3>2
        <4>2. g[i] = f[i] /\ (i # 1 => g[i - 1] = f[i - 1])
          BY <2>1, <2>7, <3>2, <4>1
        <4>3. f[i] \in EntryLists /\ f[i] = IF i = 1 THEN chain[i] ELSE f[i - 1] \o chain[i]
          BY <2>2, <4>1 DEF EntriesUpTo, Unfolds
        <4> QED BY <4>2, <4>3
      <3> QED BY <3>1, <3>2
    <2>10. EntriesUpTo(g, chain, n + 1)
      <3>1. g \in [1..(n + 1) -> EntryLists]
        BY <2>7, <2>8, <2>9
      <3> QED BY <2>9, <3>1 DEF EntriesUpTo, Unfolds
    <2> QED BY <2>10
  <1>4. S = Nat
    BY <1>1, <1>2, <1>3, SetInduction
  <1> QED BY <1>1, <1>4

\* Two functions that give the entries of the same blocks agree.
LEMMA EntriesAgree ==
    ASSUME NEW p, NEW q, NEW f, NEW g, NEW n \in Nat \ {0}, SameBlocks(p, q, n),
           Unfolds(f, p, n), Unfolds(g, q, n)
    PROVE  f[n] = g[n]
  <1> USE DEF SameBlocks, Unfolds
  <1>1. PICK S : S = {i \in Nat : i + 1 <= n => f[i + 1] = g[i + 1]}
    OBVIOUS
  <1>2. 0 \in S
    <2>1. 1 \in 1..n /\ 0 + 1 = 1
      OBVIOUS
    <2>2. f[1] = p[1] /\ g[1] = q[1] /\ p[1] = q[1]
      BY <2>1
    <2> QED BY <1>1, <2>1, <2>2
  <1>3. ASSUME NEW i \in S PROVE i + 1 \in S
    <2>1. i \in Nat
      BY <1>1
    <2> SUFFICES ASSUME (i + 1) + 1 <= n PROVE f[(i + 1) + 1] = g[(i + 1) + 1]
      BY <1>1, <2>1
    <2>2. PICK k : k = (i + 1) + 1
      OBVIOUS
    <2>3. k \in 1..n /\ k # 1 /\ k - 1 = i + 1 /\ i + 1 <= n
      BY <2>1, <2>2
    <2>4. f[k - 1] = g[k - 1]
      BY <1>1, <2>1, <2>3
    <2>5. f[k] = f[k - 1] \o p[k] /\ g[k] = g[k - 1] \o q[k] /\ p[k] = q[k]
      BY <2>3
    <2> QED BY <2>2, <2>4, <2>5
  <1>4. S = Nat
    BY <1>1, <1>2, <1>3, SetInduction
  <1>5. n - 1 \in Nat /\ (n - 1) + 1 = n /\ n <= n
    OBVIOUS
  <1>6. n - 1 \in S
    BY <1>4, <1>5
  <1> QED BY <1>1, <1>5, <1>6

\* The entries of a nonempty chain are its last prefix entries.
LEMMA EntriesIsLast ==
    ASSUME NEW chain \in JournalChains, chain # <<>>
    PROVE  \E f : EntriesUpTo(f, chain, Len(chain)) /\ Published!Entries(chain) = f[Len(chain)]
  <1> DEFINE F(g) == [i \in 1..Len(chain) |-> IF i = 1 THEN chain[i] ELSE g[i - 1] \o chain[i]]
             flat == CHOOSE g : g = F(g)
  <1>1. Len(chain) \in Nat \ {0}
    BY DEF JournalChains
  <1>2. PICK f : EntriesUpTo(f, chain, Len(chain))
    BY <1>1, EntriesExist
  <1>3. f = F(f)
    <2>1. f \in [1..Len(chain) -> EntryLists]
      BY <1>2 DEF EntriesUpTo, Unfolds
    <2>2. \A i \in 1..Len(chain) : f[i] = IF i = 1 THEN chain[i] ELSE f[i - 1] \o chain[i]
      BY <1>2 DEF EntriesUpTo, Unfolds
    <2> QED BY <2>1, <2>2
  <1>4. flat = F(flat)
    BY <1>3
  <1>5. Published!Entries(chain) = flat[Len(chain)]
    BY <1>1 DEF Published!Entries, Published!FlattenSeq
  <1> HIDE DEF flat
  <1>6. \A i \in 1..Len(chain) : flat[i] = IF i = 1 THEN chain[i] ELSE flat[i - 1] \o chain[i]
    BY <1>4
  <1>7. Unfolds(flat, chain, Len(chain)) /\ Unfolds(f, chain, Len(chain))
    BY <1>2, <1>6 DEF EntriesUpTo, Unfolds
  <1>8. flat[Len(chain)] = f[Len(chain)]
    <2>1. SameBlocks(chain, chain, Len(chain))
      BY DEF SameBlocks
    <2> QED BY <1>1, <1>7, <2>1, EntriesAgree
  <1> QED BY <1>2, <1>5, <1>8

\* The entries of a chain are a list of records; those of no block are none.
LEMMA EntriesType ==
    ASSUME NEW chain \in JournalChains
    PROVE  /\ Published!Entries(chain) \in EntryLists
           /\ chain = <<>> => Published!Entries(chain) = <<>>
  <1>1. CASE chain = <<>>
    <2>1. Published!Entries(chain) = <<>>
      BY <1>1 DEF Published!Entries, Published!FlattenSeq
    <2> QED BY <2>1 DEF EntryLists
  <1>2. CASE chain # <<>>
    <2>1. Len(chain) \in Nat /\ Len(chain) # 0
      BY <1>2 DEF JournalChains
    <2> QED BY <1>2, <2>1, EntriesIsLast DEF EntriesUpTo
  <1> QED BY <1>1, <1>2

\* A block that is stored at the end of a chain adds its entries at the end.
LEMMA EntriesAppend ==
    ASSUME NEW chain \in JournalChains, NEW e \in EntryLists
    PROVE  Published!Entries(Append(chain, e)) = Published!Entries(chain) \o e
  <1>1. PICK q : q = Append(chain, e)
    OBVIOUS
  <1>2. /\ q \in JournalChains /\ Len(q) = Len(chain) + 1 /\ Len(chain) \in Nat /\ q[Len(q)] = e
        /\ q # <<>> /\ \A i \in 1..Len(chain) : q[i] = chain[i]
    BY <1>1 DEF JournalChains
  <1>3. PICK g : EntriesUpTo(g, q, Len(q)) /\ Published!Entries(q) = g[Len(q)]
    BY <1>2, EntriesIsLast
  <1>4. CASE chain = <<>>
    <2>1. Len(q) = 1
      BY <1>2, <1>4
    <2>2. g[1] = e
      <3>1. q[1] = e /\ 1 \in 1..Len(q)
        BY <1>2, <2>1
      <3>2. Unfolds(g, q, Len(q))
        BY <1>3 DEF EntriesUpTo
      <3> QED BY <3>1, <3>2 DEF Unfolds
    <2>3. <<>> \o e = e
      BY DEF EntryLists
    <2> QED BY <1>1, <1>3, <1>4, <2>1, <2>2, <2>3, EntriesType
  <1>5. CASE chain # <<>>
    <2>1. PICK f : EntriesUpTo(f, chain, Len(chain)) /\ Published!Entries(chain) = f[Len(chain)]
      BY <1>5, EntriesIsLast
    <2>2. Len(chain) \in Nat \ {0}
      BY <1>5 DEF JournalChains
    <2>3. Unfolds(f, chain, Len(chain)) /\ Unfolds(g, q, Len(q))
      BY <1>3, <2>1 DEF EntriesUpTo
    <2>4. Unfolds(g, q, Len(chain)) /\ SameBlocks(chain, q, Len(chain))
      BY <1>2, <2>3 DEF Unfolds, SameBlocks
    <2>5. f[Len(chain)] = g[Len(chain)]
      BY <2>2, <2>3, <2>4, EntriesAgree
    <2>6. Len(q) \in 1..Len(q) /\ Len(q) # 1 /\ Len(q) - 1 = Len(chain)
      BY <1>2, <2>2
    <2>7. g[Len(q)] = g[Len(q) - 1] \o q[Len(q)]
      BY <2>3, <2>6 DEF Unfolds
    <2> QED BY <1>1, <1>2, <1>3, <2>1, <2>5, <2>6, <2>7
  <1> QED BY <1>4, <1>5

\* The leaves a list of records names.
LeavesOf(entries) == UNION {entries[i].leaf : i \in 1..Len(entries)}

\* A chain's input leaves are those of its entries.
LEMMA InputsOfEntries ==
    ASSUME NEW chain \in JournalChains
    PROVE  Published!InputLeaves(chain) = LeavesOf(Published!Entries(chain))
  <1>1. PICK s : s = Published!Entries(chain)
    OBVIOUS
  <1>2. s \in EntryLists
    BY <1>1, EntriesType
  <1>3. DOMAIN s = 1..Len(s)
    BY <1>2 DEF EntryLists
  <1>4. Published!InputLeaves(chain) = UNION {r.leaf : r \in {s[i] : i \in DOMAIN s}}
    BY <1>1 DEF Published!InputLeaves, Published!ToSet
  <1>5. UNION {r.leaf : r \in {s[i] : i \in DOMAIN s}} = UNION {s[i].leaf : i \in DOMAIN s}
    OBVIOUS
  <1> QED BY <1>1, <1>3, <1>4, <1>5 DEF LeavesOf

\* Leaves of lists of records: of all of them, of a concatenation, of a
\* head and tail.
LEMMA LeavesOfFacts ==
    ASSUME NEW a \in EntryLists, NEW b \in EntryLists
    PROVE  /\ LeavesOf(a) \in SUBSET Leaves
           /\ LeavesOf(a \o b) = LeavesOf(a) \cup LeavesOf(b)
           /\ a \o b \in EntryLists
  <1>1. /\ a \o b \in EntryLists /\ Len(a \o b) = Len(a) + Len(b)
        /\ Len(a) \in Nat /\ Len(b) \in Nat
        /\ \A i \in 1..Len(a) : (a \o b)[i] = a[i]
        /\ \A i \in 1..Len(b) : (a \o b)[Len(a) + i] = b[i]
    BY DEF EntryLists
  <1>2. LeavesOf(a) \in SUBSET Leaves
    <2>1. \A i \in 1..Len(a) : a[i] \in JournalRecords
      BY DEF EntryLists
    <2> QED BY <2>1 DEF LeavesOf, JournalRecords
  <1>3. PICK c : c = a \o b
    OBVIOUS
  <1>4. ASSUME NEW x \in LeavesOf(c) PROVE x \in LeavesOf(a) \cup LeavesOf(b)
    <2>1. PICK i \in 1..Len(c) : x \in c[i].leaf
      BY <1>4 DEF LeavesOf
    <2>2. CASE i <= Len(a)
      <3>1. i \in 1..Len(a) /\ c[i] = a[i]
        BY <1>1, <1>3, <2>2
      <3> QED BY <2>1, <3>1 DEF LeavesOf
    <2>3. CASE i > Len(a)
      <3>1. PICK j \in 1..Len(b) : i = Len(a) + j
        <4>1. i - Len(a) \in 1..Len(b) /\ i = Len(a) + (i - Len(a))
          BY <1>1, <1>3, <2>3
        <4> QED BY <4>1
      <3>2. c[i] = b[j]
        BY <1>1, <1>3, <3>1
      <3> QED BY <2>1, <3>2 DEF LeavesOf
    <2> QED BY <1>1, <2>2, <2>3
  <1>5. ASSUME NEW x \in LeavesOf(a) PROVE x \in LeavesOf(c)
    <2>1. PICK i \in 1..Len(a) : x \in a[i].leaf
      BY <1>5 DEF LeavesOf
    <2>2. i \in 1..Len(c) /\ c[i] = a[i]
      BY <1>1, <1>3
    <2> QED BY <2>1, <2>2 DEF LeavesOf
  <1>6. ASSUME NEW x \in LeavesOf(b) PROVE x \in LeavesOf(c)
    <2>1. PICK i \in 1..Len(b) : x \in b[i].leaf
      BY <1>6 DEF LeavesOf
    <2>2. Len(a) + i \in 1..Len(c) /\ c[Len(a) + i] = b[i]
      BY <1>1, <1>3
    <2> QED BY <2>1, <2>2 DEF LeavesOf
  <1>7. LeavesOf(c) = LeavesOf(a) \cup LeavesOf(b)
    BY <1>4, <1>5, <1>6
  <1> QED BY <1>1, <1>2, <1>3, <1>7

-----------------------------------------------------------------------------
(* The invariant behind StoredIndexSound. *)

RunSteps == {"idle", "batch", "persist", "publish", "append", "commit", "writing", "replay",
             "finalize"}

RunStates == [at : RunSteps, stage : Stages, items : Seq(Leaves), batch : Seq(Leaves),
              records : Seq(Leaves) \cup EntryLists, pending : EntryLists,
              head : JournalChains, root : SUBSET Leaves]

WriteSteps == LocalSteps \cup {"idle", "put", "written", "failed"}

WriteStates == [at : WriteSteps, refs : RefStates, had_existing_file : BOOLEAN,
                attempt : 0..MUTABLE_REF_STORE_HTTP_RETRY_ATTEMPTS]

\* A journal chain can be walked and every leaf it names be loaded.
HeadStored(chain) ==
    chain \in JournalChains /\ ChainStored(chain) /\ Published!InputLeaves(chain) \subseteq leaves

RootStored(root) == root \in SUBSET Leaves /\ (root = NoRoot \/ root \in trees)

RefsStored(refs) == refs \in RefStates /\ HeadStored(refs.head) /\ RootStored(refs.root)

\* The files, and the refs a write is about to put into them.
FilesSound ==
    /\ ref_file \in FileStates /\ ref_file.kind # "torn" /\ RefsStored(ref_file.refs)
    /\ temp_file \in FileStates /\ RefsStored(temp_file.refs)
    /\ backup_file \in FileStates /\ backup_file.kind # "torn" /\ RefsStored(backup_file.refs)

\* A write has refs that can be followed; the second rename finds a whole file.
WriteSound ==
    /\ writing \in WriteStates /\ RefsStored(writing.refs)
    /\ writing.at \in {"remove_backup", "rename_old", "rename_new"} => temp_file.kind = "json"
    /\ writing.at = "put" => writing.attempt < MaxAttempts

WriteOfRun == writing.at = "idle" <=> run.at # "writing"

\* Everything a run is about to name in the journal or in the refs is stored: the
\* leaves of its records (while they are being persisted, those not in the batch
\* any more), the chain it appends to, and, once finalized, its tree.
RunSound ==
    /\ run \in RunStates
    /\ HeadStored(run.head)
    /\ run.at # "finalize" => RootStored(run.root)
    /\ LeavesOf(run.pending) \subseteq leaves
    /\ run.at = "persist" =>
          /\ run.records \in Seq(Leaves)
          /\ \A i \in 1..Len(run.records) :
                \/ run.records[i] \in leaves
                \/ \E j \in 1..Len(run.batch) : run.batch[j] = run.records[i]
    /\ run.at # "persist" => run.records \in EntryLists /\ LeavesOf(run.records) \subseteq leaves

CountsSound ==
    /\ leaves \subseteq Leaves /\ trees \subseteq SUBSET Leaves
    /\ interrupted \in BOOLEAN /\ runs \in 0..MaxRuns

StoreInv == FilesSound /\ WriteSound /\ WriteOfRun /\ RunSound /\ CountsSound /\ BlocksWithinLimit

-----------------------------------------------------------------------------
(* What is stored stays stored. *)

\* No block, no leaf and no tree is ever removed from the block store.
StoreGrows == leaves \subseteq leaves' /\ journal \subseteq journal' /\ trees \subseteq trees'

\* What can be followed now can be followed later.
LEMMA StoredStays ==
    ASSUME StoreGrows
    PROVE  /\ \A chain : HeadStored(chain) => HeadStored(chain)'
           /\ \A tree : RootStored(tree) => RootStored(tree)'
           /\ \A refs : RefsStored(refs) => RefsStored(refs)'
  <1>1. ASSUME NEW chain, HeadStored(chain) PROVE HeadStored(chain)'
    BY <1>1 DEF StoreGrows, HeadStored, ChainStored
  <1>2. ASSUME NEW tree, RootStored(tree) PROVE RootStored(tree)'
    BY <1>2 DEF StoreGrows, RootStored
  <1>3. ASSUME NEW refs, RefsStored(refs) PROVE RefsStored(refs)'
    BY <1>1, <1>2, <1>3 DEF RefsStored
  <1> QED BY <1>1, <1>2, <1>3

\* The empty chain and no root need nothing.
LEMMA NothingStored ==
    HeadStored(NoHead) /\ RootStored(NoRoot) /\ RefsStored(DefaultRefs)
  <1>1. <<>> \in JournalChains /\ Len(<<>>) = 0
    BY DEF JournalChains
  <1>2. Published!Entries(<<>>) = <<>>
    BY <1>1, EntriesType
  <1>3. Published!InputLeaves(<<>>) = LeavesOf(<<>>)
    BY <1>1, <1>2, InputsOfEntries
  <1>4. LeavesOf(<<>>) = {}
    BY DEF LeavesOf
  <1>5. HeadStored(NoHead)
    BY <1>1, <1>3, <1>4 DEF HeadStored, ChainStored, NoHead
  <1>6. RootStored(NoRoot)
    BY DEF RootStored, NoRoot
  <1> QED BY <1>5, <1>6 DEF RefsStored, DefaultRefs, RefStates, HeadStored, RootStored

\* A run that is over names nothing.
LEMMA NoRunSound ==
    ASSUME run' = NoRun
    PROVE  RunSound'
  <1>1. /\ run'.at = "idle" /\ run'.head = NoHead /\ run'.root = NoRoot /\ run'.pending = <<>>
        /\ run'.records = <<>>
    BY DEF NoRun
  <1>2. <<>> \in EntryLists /\ <<>> \in Seq(Leaves) /\ LeavesOf(<<>>) = {}
    BY DEF EntryLists, LeavesOf
  <1>3. HeadStored(NoHead)' /\ RootStored(NoRoot)'
    BY NothingStored, StoredStays, PTL
  <1>4. run' \in RunStates
    BY <1>2, NothingStored DEF NoRun, RunStates, RunSteps, Stages, HeadStored, RootStored
  <1> QED BY <1>1, <1>2, <1>3, <1>4 DEF RunSound

\* A step that keeps the files keeps them sound.
LEMMA FilesKept ==
    ASSUME FilesSound, WriteSound, StoreGrows, UNCHANGED <<ref_file, temp_file, backup_file>>
    PROVE  FilesSound' /\ (UNCHANGED writing => WriteSound')
  <1>1. FilesSound'
    BY StoredStays DEF FilesSound
  <1>2. ASSUME UNCHANGED writing PROVE WriteSound'
    BY <1>2, StoredStays DEF WriteSound, MaxAttempts
  <1> QED BY <1>1, <1>2

-----------------------------------------------------------------------------
(* The steps of a run keep what it names stored. *)

\* The items of a run are leaves of its request.
LEMMA ItemsAreLeaves ==
    ASSUME NEW stage, NEW request \in Requests, NEW its \in RunItems(stage, request)
    PROVE  its \in Seq(Leaves)
  <1>1. request \in Seq(Leaves)
    BY IndexRunAssumption
  <1>2. ASSUME its \in sort_replay_items(request) PROVE its \in Seq(Leaves)
    <2>1. PICK p \in [DOMAIN request -> DOMAIN request] :
             its = [i \in DOMAIN request |-> request[p[i]]]
      BY <1>2 DEF sort_replay_items, Bijection, Injection
    <2>2. DOMAIN request = 1..Len(request) /\ Len(request) \in Nat
      BY <1>1
    <2>3. \A i \in 1..Len(request) : request[p[i]] \in Leaves
      BY <1>1, <2>1, <2>2
    <2>4. its = [i \in 1..Len(request) |-> request[p[i]]]
      BY <2>1, <2>2
    <2> QED BY <2>2, <2>3, <2>4
  <1>3. <<>> \in Seq(Leaves)
    OBVIOUS
  <1>4. its \in sort_replay_items(request) \/ its = request \/ its = <<>>
    BY DEF RunItems
  <1> QED BY <1>1, <1>2, <1>3, <1>4

\* A run starts with nothing named.
LEMMA StartSound ==
    ASSUME NEW stage \in Stages, NEW request \in Requests, StartRun(stage, request)
    PROVE  RunSound' /\ run'.at # "writing"
  <1>1. PICK its \in RunItems(stage, request), to \in {"batch", "replay"} :
           run' = [NoRun EXCEPT !.at = to, !.stage = stage, !.items = its]
    BY DEF StartRun
  <1>2. its \in Seq(Leaves)
    BY ItemsAreLeaves
  <1>3. /\ run'.at = to /\ run'.head = NoHead /\ run'.root = NoRoot /\ run'.pending = <<>>
        /\ run'.records = <<>>
    BY <1>1 DEF NoRun
  <1>4. <<>> \in EntryLists /\ <<>> \in Seq(Leaves) /\ LeavesOf(<<>>) = {}
    BY DEF EntryLists, LeavesOf
  <1>5. HeadStored(NoHead)' /\ RootStored(NoRoot)'
    BY NothingStored, PTL
  <1>6. run' \in RunStates
    BY <1>1, <1>2, <1>4, NothingStored DEF NoRun, RunStates, RunSteps, HeadStored, RootStored
  <1> QED BY <1>3, <1>4, <1>5, <1>6 DEF RunSound

\* A run that moves on, outside of "persist" and without leaving "finalize",
\* changing none of its data, stays sound.
LEMMA MoveSound ==
    ASSUME RunSound, StoreGrows, NEW to \in RunSteps,
           run' = [run EXCEPT !.at = to], run.at \notin {"persist", "finalize"}, to # "persist"
    PROVE  RunSound'
  <1>1. /\ run'.at = to /\ run'.head = run.head /\ run'.root = run.root
        /\ run'.pending = run.pending /\ run'.records = run.records
        /\ run' \in RunStates
    BY DEF RunSound, RunStates
  <1> QED BY <1>1, StoredStays DEF RunSound, StoreGrows

\* A batch is a part of the items; all of it is still to be persisted.
LEMMA NextBatchSound ==
    ASSUME RunSound, NextBatch
    PROVE  RunSound' /\ run'.at # "writing"
  <1>0. StoreGrows /\ At("batch")
    BY DEF StoreGrows, NextBatch, InterruptSeen, storeVars
  <1>1. CASE run' = NoRun
    BY <1>1, NoRunSound DEF NoRun
  <1>2. CASE run' = [run EXCEPT !.at = "replay"]
    <2>1. RunSound'
      BY <1>0, <1>2, MoveSound DEF At, RunSteps
    <2> QED BY <1>2, <2>1 DEF RunSound, RunStates
  <1>3. ASSUME NEW n, n = Least(chunk_size, Len(run.items)), run.items # <<>>,
               run' = [run EXCEPT !.at = "persist",
                                  !.batch = SubSeq(run.items, 1, n),
                                  !.records = SubSeq(run.items, 1, n),
                                  !.items = SubSeq(run.items, n + 1, Len(run.items))]
        PROVE  RunSound' /\ run'.at # "writing"
    <2>1. run.items \in Seq(Leaves) /\ Len(run.items) \in Nat /\ Len(run.items) # 0
      BY <1>3 DEF RunSound, RunStates
    <2>2. n \in Nat /\ n >= 1 /\ n <= Len(run.items)
      BY <1>3, <2>1, IndexRunAssumption DEF Least
    <2>3. PICK b, rest : b = SubSeq(run.items, 1, n) /\ rest = SubSeq(run.items, n + 1, Len(run.items))
      OBVIOUS
    <2>4. b \in Seq(Leaves) /\ rest \in Seq(Leaves)
      BY <2>1, <2>2, <2>3, SubSeqProperties
    <2>5. run' = [run EXCEPT !.at = "persist", !.batch = b, !.records = b, !.items = rest]
      BY <1>3, <2>3
    <2>6. /\ run'.at = "persist" /\ run'.head = run.head /\ run'.root = run.root
          /\ run'.pending = run.pending /\ run'.records = b /\ run'.batch = b
          /\ run' \in RunStates
      BY <2>4, <2>5 DEF RunSound, RunStates, RunSteps
    <2>7. /\ HeadStored(run.head)' /\ RootStored(run.root)' /\ leaves' = leaves
      BY <1>0, <2>6, StoredStays DEF RunSound, At, NextBatch, InterruptSeen, storeVars
    <2> QED BY <2>4, <2>6, <2>7 DEF RunSound
  <1> QED BY <1>1, <1>2, <1>3 DEF NextBatch, InterruptSeen, RunFails

\* Persisting a leaf takes it from the batch into the store; when the batch is
\* empty every record of it is stored.
LEMMA PersistSound ==
    ASSUME RunSound, CountsSound, PersistStagedBlocks
    PROVE  RunSound' /\ run'.at # "writing" /\ StoreGrows /\ leaves' \subseteq Leaves
  <1>0. /\ run \in RunStates /\ run.at = "persist" /\ run.records \in Seq(Leaves)
        /\ run.batch \in Seq(Leaves) /\ Len(run.batch) \in Nat /\ Len(run.records) \in Nat
    BY DEF PersistStagedBlocks, At, RunSound, RunStates
  <1>1. CASE run' = NoRun /\ UNCHANGED storeVars
    <2>1. StoreGrows /\ leaves' = leaves
      BY <1>1 DEF StoreGrows, storeVars
    <2> QED BY <1>1, <2>1, NoRunSound DEF NoRun, CountsSound
  <1>2. CASE /\ run.batch # <<>>
             /\ leaves' = leaves \cup {Head(run.batch)}
             /\ run' = [run EXCEPT !.batch = Tail(@)]
             /\ UNCHANGED <<refVars, journal, trees>>
    <2>1. PICK h, t : h = Head(run.batch) /\ t = Tail(run.batch)
      OBVIOUS
    <2>2. /\ h \in Leaves /\ t \in Seq(Leaves) /\ Len(t) = Len(run.batch) - 1
          /\ h = run.batch[1] /\ \A j \in 1..Len(t) : t[j] = run.batch[j + 1]
      BY <1>0, <1>2, <2>1
    <2>3. run' = [run EXCEPT !.batch = t] /\ leaves' = leaves \cup {h}
      BY <1>2, <2>1
    <2>4. StoreGrows /\ leaves' \subseteq Leaves
      BY <1>2, <2>2, <2>3 DEF StoreGrows, CountsSound
    <2>5. /\ run'.at = "persist" /\ run'.head = run.head /\ run'.root = run.root
          /\ run'.pending = run.pending /\ run'.records = run.records /\ run'.batch = t
          /\ run' \in RunStates
      BY <1>0, <2>2, <2>3 DEF RunStates
    <2>6. HeadStored(run.head)' /\ RootStored(run.root)'
      BY <1>0, <2>4, <2>5, StoredStays DEF RunSound
    <2>7. ASSUME NEW i \in 1..Len(run.records),
                 ~\E j \in 1..Len(t) : t[j] = run.records[i]
          PROVE  run.records[i] \in leaves'
      <3>1. CASE run.records[i] \in leaves
        BY <2>3, <3>1
      <3>2. CASE \E j \in 1..Len(run.batch) : run.batch[j] = run.records[i]
        <4>1. PICK j \in 1..Len(run.batch) : run.batch[j] = run.records[i]
          BY <3>2
        <4>2. CASE j = 1
          BY <2>2, <2>3, <4>1, <4>2
        <4>3. CASE j # 1
          <5>1. j - 1 \in 1..Len(t) /\ (j - 1) + 1 = j
            BY <1>0, <2>2, <4>3
          <5>2. t[j - 1] = run.batch[j]
            BY <2>2, <5>1
          <5> QED BY <2>7, <4>1, <5>1, <5>2
        <4> QED BY <4>2, <4>3
      <3> QED BY <1>0, <3>1, <3>2 DEF RunSound
    <2>8. LeavesOf(run.pending) \subseteq leaves'
      BY <2>3 DEF RunSound
    <2> QED BY <1>0, <2>4, <2>5, <2>6, <2>7, <2>8 DEF RunSound
  <1>3. CASE /\ run.batch = <<>>
             /\ run' = [run EXCEPT !.at = "publish",
                                   !.records = [i \in DOMAIN run.records |->
                                                   Published!ReplayInput(run.records[i])]]
             /\ UNCHANGED <<refVars, storeVars>>
    <2>1. StoreGrows /\ leaves' = leaves
      BY <1>3 DEF StoreGrows, storeVars
    <2>2. PICK q : q = [i \in DOMAIN run.records |-> Published!ReplayInput(run.records[i])]
      OBVIOUS
    <2>3. DOMAIN run.records = 1..Len(run.records)
      BY <1>0
    <2>4. \A i \in 1..Len(run.records) :
             /\ run.records[i] \in leaves
             /\ q[i] = [leaf |-> {run.records[i]}, root |-> {}, fragment |-> 0]
      BY <1>0, <1>3, <2>2, <2>3 DEF RunSound, Published!ReplayInput
    <2>5. ASSUME NEW i \in 1..Len(run.records)
          PROVE  q[i] \in JournalRecords /\ q[i].leaf \subseteq leaves
      <3>1. PICK l : l = run.records[i]
        OBVIOUS
      <3>2. l \in Leaves /\ l \in leaves
        BY <2>4, <3>1 DEF CountsSound
      <3>3. q[i] = [leaf |-> {l}, root |-> {}, fragment |-> 0]
        BY <2>4, <3>1
      <3> QED BY <3>2, <3>3 DEF JournalRecords
    <2>6. q \in EntryLists /\ Len(q) = Len(run.records)
      <3>1. q = [i \in 1..Len(run.records) |-> q[i]]
        BY <2>2, <2>3
      <3> QED
        <4>1. PICK n \in Nat : n = Len(run.records)
          BY <1>0
        <4>2. q = [i \in 1..n |-> q[i]] /\ \A i \in 1..n : q[i] \in JournalRecords
          BY <2>5, <3>1, <4>1
        <4> HIDE <2>2
        <4> QED BY <4>1, <4>2 DEF EntryLists
    <2>7. LeavesOf(q) \subseteq leaves
      BY <2>5, <2>6 DEF LeavesOf
    <2>8. run' = [run EXCEPT !.at = "publish", !.records = q]
      BY <1>3, <2>2
    <2>9. /\ run'.at = "publish" /\ run'.head = run.head /\ run'.root = run.root
          /\ run'.pending = run.pending /\ run'.records = q
          /\ run' \in RunStates
      BY <1>0, <2>6, <2>8 DEF RunStates, RunSteps
    <2>10. HeadStored(run.head)' /\ RootStored(run.root)'
      BY <1>0, <2>1, <2>9, StoredStays DEF RunSound
    <2> QED BY <2>1, <2>6, <2>7, <2>9, <2>10 DEF RunSound, CountsSound
  <1> QED BY <1>1, <1>2, <1>3 DEF PersistStagedBlocks, RunFails

\* The head a publication starts from is the one in the refs.
LEMMA PublishSound ==
    ASSUME RunSound, FilesSound, Publish
    PROVE  RunSound' /\ run'.at # "writing"
  <1>0. StoreGrows /\ run.at = "publish" /\ leaves' = leaves /\ run \in RunStates
    BY DEF StoreGrows, Publish, InterruptSeen, storeVars, At, RunSound
  <1>1. CASE run' = NoRun
    BY <1>1, NoRunSound DEF NoRun
  <1>2. CASE run' = [run EXCEPT !.at = "append", !.head = LoadedRefs.head]
    <2>1. PICK h : h = LoadedRefs.head
      OBVIOUS
    <2>2. HeadStored(h) /\ h \in JournalChains
      BY <2>1 DEF FilesSound, RefsStored, LoadedRefs, HeadStored
    <2>3. /\ run'.at = "append" /\ run'.head = h /\ run'.root = run.root
          /\ run'.pending = run.pending /\ run'.records = run.records
          /\ run' \in RunStates
      BY <1>0, <1>2, <2>1, <2>2 DEF RunStates, RunSteps
    <2> QED BY <1>0, <2>2, <2>3, StoredStays DEF RunSound
  <1> QED BY <1>1, <1>2 DEF Publish, InterruptSeen, RunFails

\* A block at the end of a chain: the chain with it, and without it again.
LEMMA AppendedBlock ==
    ASSUME NEW chain \in JournalChains, NEW e \in EntryLists
    PROVE  /\ Append(chain, e) \in JournalChains
           /\ Last(Append(chain, e)) = e
           /\ Front(Append(chain, e)) = chain
           /\ Len(Append(chain, e)) = Len(chain) + 1
           /\ Len(chain) \in Nat
           /\ \A n \in 1..Len(chain) : SubSeq(Append(chain, e), 1, n) = SubSeq(chain, 1, n)
           /\ SubSeq(Append(chain, e), 1, Len(chain) + 1) = Append(chain, e)
  <1>1. PICK q : q = Append(chain, e)
    OBVIOUS
  <1>2. /\ q \in JournalChains /\ Len(q) = Len(chain) + 1 /\ Len(chain) \in Nat /\ q[Len(q)] = e
        /\ \A i \in 1..Len(chain) : q[i] = chain[i]
    BY <1>1 DEF JournalChains
  <1>3. q \in Seq(EntryLists) /\ chain \in Seq(EntryLists)
    BY <1>2 DEF JournalChains
  <1>4. ASSUME NEW n \in 1..Len(chain) PROVE SubSeq(q, 1, n) = SubSeq(chain, 1, n)
    BY <1>2, <1>3
  <1>5. SubSeq(q, 1, Len(q)) = q
    BY <1>2, <1>3
  <1>6. SubSeq(q, 1, Len(q) - 1) = chain
    BY <1>2, <1>3
  <1> QED BY <1>1, <1>2, <1>4, <1>5, <1>6 DEF Last, Front

\* A journal block is stored under its predecessor: the longer chain can be walked.
LEMMA StoreBlockSound ==
    ASSUME NEW chain \in JournalChains, NEW e \in EntryLists, HeadStored(chain),
           LeavesOf(e) \subseteq leaves, leaves' = leaves,
           journal' = journal \cup {Append(chain, e)}
    PROVE  HeadStored(Append(chain, e))'
  <1>1. PICK q : q = Append(chain, e)
    OBVIOUS
  <1>2. /\ q \in JournalChains /\ Len(q) = Len(chain) + 1 /\ Len(chain) \in Nat
        /\ \A n \in 1..Len(chain) : SubSeq(q, 1, n) = SubSeq(chain, 1, n)
        /\ SubSeq(q, 1, Len(chain) + 1) = q
    BY <1>1, AppendedBlock
  <1>3. \A n \in 1..Len(chain) : SubSeq(chain, 1, n) \in journal
    BY DEF HeadStored, ChainStored
  <1>4. ASSUME NEW n \in 1..Len(q) PROVE SubSeq(q, 1, n) \in journal'
    <2>1. CASE n \in 1..Len(chain)
      BY <1>2, <1>3, <2>1
    <2>2. CASE n = Len(chain) + 1
      BY <1>1, <1>2, <2>2
    <2> QED BY <1>2, <2>1, <2>2
  <1>5. Published!InputLeaves(q) \subseteq leaves
    <2>1. PICK a : a = Published!Entries(chain)
      OBVIOUS
    <2>2. a \in EntryLists /\ Published!Entries(q) = a \o e
      BY <1>1, <2>1, EntriesType, EntriesAppend
    <2>3. Published!InputLeaves(q) = LeavesOf(a \o e) /\ Published!InputLeaves(chain) = LeavesOf(a)
      BY <1>2, <2>1, <2>2, InputsOfEntries
    <2>4. LeavesOf(a \o e) = LeavesOf(a) \cup LeavesOf(e)
      BY <2>2, LeavesOfFacts
    <2> QED BY <2>3, <2>4 DEF HeadStored
  <1> QED BY <1>1, <1>2, <1>4, <1>5 DEF HeadStored, ChainStored

\* A block within the limit keeps all blocks within it.
LEMMA BlockWithinLimit ==
    ASSUME BlocksWithinLimit, NEW chain \in JournalChains, NEW e \in EntryLists,
           BlockSize(e, chain) <= REPLAY_JOURNAL_BLOCK_MAX_BYTES,
           journal' = journal \cup {Append(chain, e)}
    PROVE  BlocksWithinLimit'
  <1>1. Last(Append(chain, e)) = e /\ Front(Append(chain, e)) = chain
    BY AppendedBlock
  <1> QED BY <1>1 DEF BlocksWithinLimit

\* The first record and the others.
LEMMA HeadOfRecords ==
    ASSUME NEW s \in EntryLists, s # <<>>
    PROVE  /\ Head(s) \in JournalRecords /\ Tail(s) \in EntryLists
           /\ <<Head(s)>> \in EntryLists
           /\ s = <<Head(s)>> \o Tail(s)
           /\ LeavesOf(<<Head(s)>>) \subseteq LeavesOf(s)
           /\ LeavesOf(Tail(s)) \subseteq LeavesOf(s)
  <1>1. /\ Head(s) \in JournalRecords /\ Tail(s) \in EntryLists /\ <<Head(s)>> \in EntryLists
        /\ s = <<Head(s)>> \o Tail(s)
    BY DEF EntryLists
  <1>2. LeavesOf(<<Head(s)>> \o Tail(s)) = LeavesOf(<<Head(s)>>) \cup LeavesOf(Tail(s))
    BY <1>1, LeavesOfFacts
  <1> QED BY <1>1, <1>2

\* store_replay_journal_block, with a run that goes on with other pending records.
LEMMA StoreJournalSound ==
    ASSUME RunSound, BlocksWithinLimit, run.at = "append",
           NEW next \in RunStates, next.at \in {"append", "commit"}, next.root = run.root,
           LeavesOf(next.pending) \subseteq leaves,
           next.records \in EntryLists, LeavesOf(next.records) \subseteq leaves,
           StoreJournalBlock(next)
    PROVE  /\ RunSound' /\ run'.at # "writing" /\ StoreGrows /\ UNCHANGED <<leaves, trees, refVars>>
           /\ BlocksWithinLimit'
  <1>0. run.head \in JournalChains /\ run.pending \in EntryLists
    BY DEF RunSound, RunStates
  <1>1. CASE run' = NoRun /\ UNCHANGED <<refVars, storeVars>>
    BY <1>1, NoRunSound DEF NoRun, StoreGrows, storeVars, BlocksWithinLimit
  <1>2. CASE /\ BlockSize(run.pending, run.head) <= REPLAY_JOURNAL_BLOCK_MAX_BYTES
             /\ journal' = journal \cup {Append(run.head, run.pending)}
             /\ run' = [next EXCEPT !.head = Append(run.head, run.pending)]
             /\ UNCHANGED <<refVars, leaves, trees>>
    <2>1. StoreGrows
      BY <1>2 DEF StoreGrows
    <2>2. PICK h : h = Append(run.head, run.pending)
      OBVIOUS
    <2>3. h \in JournalChains
      BY <1>0, <2>2, AppendedBlock
    <2>4. HeadStored(h)'
      <3>1. HeadStored(run.head) /\ LeavesOf(run.pending) \subseteq leaves
        BY DEF RunSound
      <3> QED BY <1>0, <1>2, <2>2, <3>1, StoreBlockSound
    <2>5. run' = [next EXCEPT !.head = h]
      BY <1>2, <2>2
    <2>6. /\ run'.at = next.at /\ run'.head = h /\ run'.root = next.root
          /\ run'.pending = next.pending /\ run'.records = next.records
          /\ run' \in RunStates
      BY <2>3, <2>5 DEF RunStates
    <2>7. RootStored(run.root)
      BY DEF RunSound
    <2>8. RunSound'
      BY <1>2, <2>1, <2>4, <2>6, <2>7, StoredStays DEF RunSound
    <2>9. BlocksWithinLimit'
      BY <1>0, <1>2, BlockWithinLimit
    <2> QED BY <1>2, <2>1, <2>6, <2>8, <2>9
  <1> QED BY <1>1, <1>2 DEF StoreJournalBlock, RunFails

\* A record joins the pending block, or starts the next one.
LEMMA AppendSound ==
    ASSUME RunSound, BlocksWithinLimit, AppendRecord
    PROVE  /\ RunSound' /\ run'.at # "writing" /\ StoreGrows /\ UNCHANGED <<leaves, trees, refVars>>
           /\ BlocksWithinLimit'
  <1>0. /\ run \in RunStates /\ run.at = "append" /\ run.records \in EntryLists
        /\ run.records # <<>> /\ run.pending \in EntryLists
    BY DEF AppendRecord, At, RunSound, RunStates
  <1>1. PICK first, rest : first = Head(run.records) /\ rest = Tail(run.records)
    OBVIOUS
  <1>2. /\ first \in JournalRecords /\ rest \in EntryLists /\ <<first>> \in EntryLists
        /\ LeavesOf(<<first>>) \subseteq leaves /\ LeavesOf(rest) \subseteq leaves
    BY <1>0, <1>1, HeadOfRecords DEF RunSound
  <1>3. PICK entries : entries = Append(run.pending, first)
    OBVIOUS
  <1>4. entries \in EntryLists /\ LeavesOf(entries) \subseteq leaves
    <2>1. entries = run.pending \o <<first>>
      BY <1>0, <1>2, <1>3 DEF EntryLists
    <2>2. LeavesOf(entries) = LeavesOf(run.pending) \cup LeavesOf(<<first>>)
      BY <1>0, <1>2, <2>1, LeavesOfFacts
    <2> QED BY <1>0, <1>2, <2>1, <2>2, LeavesOfFacts DEF RunSound
  <1>5. CASE run' = NoRun /\ UNCHANGED <<refVars, storeVars>>
    BY <1>5, NoRunSound DEF NoRun, StoreGrows, storeVars, BlocksWithinLimit
  <1>6. CASE run' = [[run EXCEPT !.records = rest] EXCEPT !.pending = entries]
             /\ UNCHANGED <<refVars, storeVars>>
    <2>1. /\ run'.at = "append" /\ run'.head = run.head /\ run'.root = run.root
          /\ run'.pending = entries /\ run'.records = rest
          /\ run' \in RunStates
      BY <1>0, <1>2, <1>4, <1>6 DEF RunStates
    <2>2. StoreGrows /\ UNCHANGED <<leaves, trees, journal>>
      BY <1>6 DEF StoreGrows, storeVars
    <2>3. HeadStored(run.head) /\ RootStored(run.root)
      BY <1>0 DEF RunSound
    <2>4. RunSound'
      BY <1>2, <1>4, <2>1, <2>2, <2>3, StoredStays DEF RunSound
    <2> QED BY <1>6, <2>1, <2>2, <2>4 DEF BlocksWithinLimit
  <1>7. CASE StoreJournalBlock([[run EXCEPT !.records = rest] EXCEPT !.pending = <<first>>])
    <2>1. PICK next : next = [[run EXCEPT !.records = rest] EXCEPT !.pending = <<first>>]
      OBVIOUS
    <2>2. /\ next \in RunStates /\ next.at = "append" /\ next.root = run.root
          /\ next.pending = <<first>> /\ next.records = rest
      BY <1>0, <1>2, <2>1 DEF RunStates
    <2> QED BY <1>0, <1>2, <1>7, <2>1, <2>2, StoreJournalSound
  <1> QED BY <1>1, <1>3, <1>5, <1>6, <1>7 DEF AppendRecord, RunFails

\* The last pending block is stored before the refs are moved.
LEMMA FlushSound ==
    ASSUME RunSound, BlocksWithinLimit, FlushPending
    PROVE  /\ RunSound' /\ run'.at # "writing" /\ StoreGrows /\ UNCHANGED <<leaves, trees, refVars>>
           /\ BlocksWithinLimit'
  <1>0. run \in RunStates /\ run.at = "append" /\ run.records \in EntryLists
    BY DEF FlushPending, At, RunSound
  <1>1. CASE run.pending = <<>>
    <2>1. run' = [run EXCEPT !.at = "commit"] /\ UNCHANGED <<refVars, storeVars>>
      BY <1>1 DEF FlushPending
    <2>2. StoreGrows /\ UNCHANGED <<leaves, trees, journal>>
      BY <2>1 DEF StoreGrows, storeVars
    <2>3. RunSound' /\ run'.at = "commit"
      BY <1>0, <2>1, <2>2, MoveSound DEF RunSteps, RunStates
    <2> QED BY <2>1, <2>2, <2>3 DEF BlocksWithinLimit
  <1>2. CASE run.pending # <<>>
    <2>1. PICK next : next = [run EXCEPT !.at = "commit", !.pending = <<>>]
      OBVIOUS
    <2>2. StoreJournalBlock(next)
      BY <1>2, <2>1 DEF FlushPending
    <2>3. <<>> \in EntryLists /\ LeavesOf(<<>>) = {}
      BY DEF EntryLists, LeavesOf
    <2>4. /\ next \in RunStates /\ next.at = "commit" /\ next.root = run.root
          /\ next.pending = <<>> /\ next.records = run.records
      BY <1>0, <2>1, <2>3 DEF RunStates, RunSteps
    <2>5. LeavesOf(run.records) \subseteq leaves
      BY <1>0 DEF RunSound
    <2> QED BY <1>0, <2>2, <2>3, <2>4, <2>5, StoreJournalSound
  <1> QED BY <1>1, <1>2

\* What is committed is what the refs named, or what the run has stored.
LEMMA CommitSound ==
    ASSUME RunSound, FilesSound, WriteSound, Commit
    PROVE  RunSound' /\ FilesSound' /\ WriteSound' /\ (writing.at = "idle" => WriteOfRun')
           /\ UNCHANGED <<leaves, journal, trees>>
  <1>0. /\ run \in RunStates /\ run.at = "commit"
        /\ StoreGrows /\ UNCHANGED <<leaves, journal, trees>>
        /\ UNCHANGED <<ref_file, temp_file, backup_file>>
    BY DEF Commit, At, RunSound, StoreGrows, storeVars, InterruptSeen, refVars, BeginWrite
  <1>1. CASE run' = NoRun /\ UNCHANGED refVars
    <2>1. RunSound' /\ run'.at = "idle"
      BY <1>1, NoRunSound DEF NoRun
    <2>2. FilesSound' /\ WriteSound' /\ UNCHANGED writing
      BY <1>0, <1>1, FilesKept DEF refVars
    <2> QED BY <1>0, <2>1, <2>2 DEF WriteOfRun
  <1>2. CASE /\ BeginWrite(ApplyUpdate(LoadedRefs, [root |-> run.root, head |-> run.head]))
             /\ run' = [run EXCEPT !.at = "writing"]
    <2>1. RunSound' /\ run'.at = "writing"
      BY <1>0, <1>2, MoveSound DEF RunSteps, RunStates
    <2>2. PICK refs : refs = ApplyUpdate(LoadedRefs, [root |-> run.root, head |-> run.head])
      OBVIOUS
    <2>3. /\ refs.root \in {LoadedRefs.root, run.root} /\ refs.head \in {LoadedRefs.head, run.head}
          /\ refs = [root |-> refs.root, head |-> refs.head]
      BY <2>2 DEF ApplyUpdate
    <2>4. /\ HeadStored(LoadedRefs.head) /\ RootStored(LoadedRefs.root)
          /\ HeadStored(run.head) /\ RootStored(run.root)
      BY <1>0 DEF RunSound, FilesSound, RefsStored, LoadedRefs
    <2>5. HeadStored(refs.head) /\ RootStored(refs.root)
      BY <2>3, <2>4
    <2>6. refs \in RefStates
      BY <2>3, <2>5 DEF RefStates, HeadStored, RootStored
    <2>7. RefsStored(refs)
      BY <2>5, <2>6 DEF RefsStored
    <2>8. PICK to \in {"create_temp", "put"} :
             writing' = [NotWriting EXCEPT !.at = to, !.refs = refs]
      BY <1>2, <2>2 DEF BeginWrite
    <2>9. /\ writing'.at = to /\ writing'.refs = refs /\ writing'.attempt = 0
          /\ writing' \in WriteStates
      <3>1. writing' = [at |-> to, refs |-> refs, had_existing_file |-> FALSE, attempt |-> 0]
        BY <2>8 DEF NotWriting
      <3>2. to \in WriteSteps /\ 0 \in 0..MUTABLE_REF_STORE_HTTP_RETRY_ATTEMPTS
        BY RefStoreAssumption DEF WriteSteps, LocalSteps
      <3> QED BY <2>6, <3>1, <3>2 DEF WriteStates
    <2>10. RefsStored(refs)'
      BY <1>0, <2>7, StoredStays
    <2>11. WriteSound'
      BY <2>9, <2>10, RefStoreAssumption DEF WriteSound, MaxAttempts
    <2>12. FilesSound'
      BY <1>0, FilesKept
    <2> QED BY <1>0, <2>1, <2>9, <2>11, <2>12 DEF WriteOfRun
  <1> QED BY <1>1, <1>2 DEF Commit, InterruptSeen, RunFails

\* One file system call or one PUT leaves whole files with refs that can be
\* followed, and moves to a step that still writes.
LEMMA WriteStepSound ==
    ASSUME FilesSound, WriteSound, WriteStep, UNCHANGED <<leaves, journal, trees>>
    PROVE  FilesSound' /\ WriteSound' /\ writing.at # "idle" /\ writing'.at # "idle"
  <1>0. /\ writing \in WriteStates /\ RefsStored(writing.refs) /\ writing.refs \in RefStates
        /\ StoreGrows
    BY DEF WriteSound, StoreGrows, RefsStored
  <1>1. RefsStored(DefaultRefs) /\ DefaultRefs \in RefStates
    BY NothingStored DEF RefsStored
  <1>2. /\ NoFile \in FileStates /\ NoFile.kind = "none" /\ NoFile.refs = DefaultRefs
        /\ Torn \in FileStates /\ Torn.kind = "torn" /\ Torn.refs = DefaultRefs
        /\ Json(writing.refs) \in FileStates /\ Json(writing.refs).kind = "json"
        /\ Json(writing.refs).refs = writing.refs
    BY <1>0, <1>1 DEF NoFile, Torn, Json, FileStates
  <1> DEFINE Sound(f) == f \in FileStates /\ RefsStored(f.refs)
  <1>3. /\ Sound(ref_file) /\ ref_file.kind # "torn"
        /\ Sound(temp_file) /\ Sound(backup_file) /\ backup_file.kind # "torn"
        /\ Sound(NoFile) /\ Sound(Torn) /\ Sound(Json(writing.refs))
    BY <1>0, <1>1, <1>2 DEF FilesSound
  <1>4. ASSUME NEW to \in WriteSteps, WriteTo(to)
        PROVE  /\ writing' \in WriteStates /\ writing'.refs = writing.refs
               /\ writing'.at = to /\ writing'.attempt = writing.attempt
    BY <1>0, <1>4 DEF WriteTo, WriteStates
  <1>5. ASSUME /\ ref_file' \in {ref_file, NoFile, Json(writing.refs), backup_file}
               /\ temp_file' \in {temp_file, NoFile, Torn, Json(writing.refs)}
               /\ backup_file' \in {backup_file, NoFile, ref_file}
        PROVE  FilesSound'
    <2>1. ref_file'.kind # "torn" /\ backup_file'.kind # "torn"
      BY <1>2, <1>3, <1>5
    <2>2. ref_file' \in FileStates /\ temp_file' \in FileStates /\ backup_file' \in FileStates
      BY <1>3, <1>5
    <2>3. \A f : Sound(f) => RefsStored(f.refs)'
      BY <1>0, StoredStays
    <2>4. RefsStored(ref_file.refs)' /\ RefsStored(temp_file.refs)' /\ RefsStored(backup_file.refs)'
      BY <1>3, <1>5, <2>3
    <2> QED BY <2>1, <2>2, <2>4 DEF FilesSound
  <1>6. ASSUME writing' \in WriteStates, writing'.refs = writing.refs,
               writing'.at \in {"remove_backup", "rename_old", "rename_new"} =>
                  temp_file'.kind = "json",
               writing'.at = "put" => writing'.attempt < MaxAttempts
        PROVE  WriteSound'
    BY <1>0, <1>6, StoredStays DEF WriteSound, MaxAttempts
  <1> HIDE DEF Sound
  <1>7. CASE CreateTemp
    BY <1>4, <1>5, <1>6, <1>7 DEF CreateTemp, WriteSteps, LocalSteps
  <1>8. CASE FillTemp
    <2>1. /\ temp_file' = Json(writing.refs) /\ UNCHANGED <<ref_file, backup_file>>
          /\ writing.at = "fill_temp"
      BY <1>8 DEF FillTemp
    <2>2. PICK had \in BOOLEAN, to \in {"remove_backup", "rename_old", "rename_new"} :
             writing' = [writing EXCEPT !.had_existing_file = had, !.at = to]
      BY <1>8 DEF FillTemp
    <2>3. writing' \in WriteStates /\ writing'.refs = writing.refs /\ writing'.at = to
      BY <1>0, <2>2 DEF WriteStates, WriteSteps, LocalSteps
    <2> QED BY <1>2, <1>5, <1>6, <2>1, <2>2, <2>3
  <1>9. CASE RemoveBackup \/ RenameOld
    <2>1. /\ writing.at \in {"remove_backup", "rename_old"} /\ temp_file' = temp_file
          /\ temp_file.kind = "json"
      BY <1>9 DEF RemoveBackup, RenameOld, WriteSound
    <2>2. WriteTo("rename_old") \/ WriteTo("rename_new")
      BY <1>9 DEF RemoveBackup, RenameOld
    <2>3. FilesSound'
      BY <1>5, <1>9 DEF RemoveBackup, RenameOld
    <2>4. /\ writing' \in WriteStates /\ writing'.refs = writing.refs
          /\ writing'.at \in {"rename_old", "rename_new"}
      BY <1>4, <2>2 DEF WriteSteps, LocalSteps
    <2> QED BY <1>6, <2>1, <2>3, <2>4
  <1>10. CASE RenameNew
    <2>1. /\ writing.at = "rename_new" /\ temp_file.kind = "json"
          /\ ref_file' = temp_file /\ temp_file' = NoFile /\ backup_file' = backup_file
      BY <1>10 DEF RenameNew, WriteSound
    <2>2. WriteTo("remove_old") \/ WriteTo("written")
      BY <1>10 DEF RenameNew
    <2>3. /\ writing' \in WriteStates /\ writing'.refs = writing.refs
          /\ writing'.at \in {"remove_old", "written"}
      BY <1>4, <2>2 DEF WriteSteps, LocalSteps
    <2>4. FilesSound'
      BY <1>0, <1>2, <1>3, <2>1, StoredStays DEF FilesSound, Sound
    <2> QED BY <1>6, <2>1, <2>3, <2>4
  <1>11. CASE RemoveOld \/ RestoreBackup
    <2>1. WriteTo("written") \/ WriteTo("failed")
      BY <1>11 DEF RemoveOld, RestoreBackup
    <2>2. FilesSound' /\ writing.at # "idle"
      BY <1>5, <1>11 DEF RemoveOld, RestoreBackup
    <2>3. /\ writing' \in WriteStates /\ writing'.refs = writing.refs
          /\ writing'.at \in {"written", "failed"}
      BY <1>4, <2>1 DEF WriteSteps
    <2> QED BY <1>6, <2>2, <2>3
  <1>12. CASE LocalStepFails \/ PutRefused
    <2>1. WriteTo("restore") \/ WriteTo("failed")
      BY <1>12 DEF LocalStepFails, PutRefused
    <2>2. FilesSound' /\ writing.at # "idle"
      BY <1>5, <1>12 DEF LocalStepFails, PutRefused, LocalSteps
    <2>3. /\ writing' \in WriteStates /\ writing'.refs = writing.refs
          /\ writing'.at \in {"restore", "failed"}
      BY <1>4, <2>1 DEF WriteSteps, LocalSteps
    <2> QED BY <1>6, <2>2, <2>3
  <1>13. CASE PutSucceeds
    BY <1>4, <1>5, <1>6, <1>13 DEF PutSucceeds, WriteSteps
  <1>14. CASE PutUnanswered
    <2>1. /\ ref_file' \in {ref_file, Json(writing.refs)} /\ UNCHANGED <<temp_file, backup_file>>
          /\ writing.at = "put"
      BY <1>14 DEF PutUnanswered
    <2>2. PICK to \in {"put", "failed"} :
             /\ writing' = [writing EXCEPT !.attempt = @ + 1, !.at = to]
             /\ to = "put" => writing.attempt + 1 < MaxAttempts
      BY <1>14 DEF PutUnanswered
    <2>3. writing.attempt < MaxAttempts
      BY <2>1 DEF WriteSound
    <2>4. writing.attempt \in Nat /\ writing.attempt + 1 \in 0..MUTABLE_REF_STORE_HTTP_RETRY_ATTEMPTS
      BY <1>0, <2>3, RefStoreAssumption DEF MaxAttempts, WriteStates
    <2>5. /\ writing' \in WriteStates /\ writing'.refs = writing.refs /\ writing'.at = to
          /\ writing'.attempt = writing.attempt + 1
      BY <1>0, <2>2, <2>4 DEF WriteStates, WriteSteps
    <2>6. FilesSound'
      BY <1>5, <2>1
    <2> QED BY <1>6, <2>1, <2>2, <2>5, <2>6
  <1> QED BY <1>7, <1>8, <1>9, <1>10, <1>11, <1>12, <1>13, <1>14 DEF WriteStep

\* The end of a write, however it ended, leaves the files as they are.
LEMMA EndWriteSound ==
    ASSUME FilesSound, WriteSound, EndWrite, UNCHANGED <<leaves, journal, trees>>
    PROVE  FilesSound' /\ WriteSound' /\ writing'.at = "idle"
  <1>0. StoreGrows
    BY DEF StoreGrows
  <1>1. FilesSound'
    BY <1>0, FilesKept DEF EndWrite
  <1>2. /\ writing'.at = "idle" /\ writing'.refs = DefaultRefs
        /\ writing' \in WriteStates
    BY NothingStored, RefStoreAssumption
    DEF EndWrite, NotWriting, WriteStates, WriteSteps, RefsStored
  <1>3. RefsStored(DefaultRefs)'
    BY NothingStored, PTL
  <1> QED BY <1>1, <1>2, <1>3 DEF WriteSound

\* After a publication the run goes on with the next batch, or is over.
LEMMA CommittedSound ==
    ASSUME RunSound, Committed
    PROVE  RunSound' /\ run'.at # "writing"
  <1>0. /\ run \in RunStates /\ run.at = "writing" /\ StoreGrows /\ leaves' = leaves
    BY DEF Committed, At, RunSound, StoreGrows, storeVars
  <1>1. CASE run' = NoRun
    BY <1>1, NoRunSound DEF NoRun
  <1>2. CASE run' = [run EXCEPT !.at = "batch", !.records = <<>>, !.head = NoHead]
    <2>1. <<>> \in EntryLists /\ LeavesOf(<<>>) = {} /\ HeadStored(NoHead)
      BY NothingStored DEF EntryLists, LeavesOf
    <2>2. /\ run'.at = "batch" /\ run'.head = NoHead /\ run'.root = run.root
          /\ run'.pending = run.pending /\ run'.records = <<>>
          /\ run' \in RunStates
      BY <1>0, <1>2, <2>1 DEF RunStates, RunSteps, HeadStored
    <2>3. RootStored(run.root)
      BY <1>0 DEF RunSound
    <2> QED BY <1>0, <2>1, <2>2, <2>3, StoredStays DEF RunSound
  <1> QED BY <1>1, <1>2 DEF Committed

\* Clustering is over the leaves of the chain it has replayed.
LEMMA ReplaySound ==
    ASSUME RunSound, FilesSound, Replay
    PROVE  RunSound' /\ run'.at # "writing"
  <1>0. /\ run \in RunStates /\ run.at = "replay" /\ StoreGrows /\ leaves' = leaves
    BY DEF Replay, InterruptSeen, At, RunSound, StoreGrows, storeVars
  <1>1. CASE run' = NoRun
    BY <1>1, NoRunSound DEF NoRun
  <1>2. CASE run' = [run EXCEPT !.at = "finalize", !.root = Published!InputLeaves(LoadedRefs.head)]
    <2>1. PICK tree : tree = Published!InputLeaves(LoadedRefs.head)
      OBVIOUS
    <2>2. LoadedRefs.head \in JournalChains
      BY DEF LoadedRefs, FilesSound, RefsStored, HeadStored
    <2>3. tree \in SUBSET Leaves
      <3>1. Published!Entries(LoadedRefs.head) \in EntryLists
        BY <2>2, EntriesType
      <3> QED BY <2>1, <2>2, <3>1, InputsOfEntries, LeavesOfFacts
    <2>4. /\ run'.at = "finalize" /\ run'.head = run.head
          /\ run'.pending = run.pending /\ run'.records = run.records
          /\ run' \in RunStates
      BY <1>0, <1>2, <2>1, <2>3 DEF RunStates, RunSteps
    <2> QED BY <1>0, <2>4, StoredStays DEF RunSound
  <1> QED BY <1>1, <1>2 DEF Replay, InterruptSeen, RunFails

\* The tree is stored before its outcome is published.
LEMMA FinalizeSound ==
    ASSUME RunSound, CountsSound, Finalize
    PROVE  RunSound' /\ run'.at # "writing" /\ StoreGrows /\ leaves' = leaves
           /\ journal' = journal /\ trees' \subseteq SUBSET Leaves
  <1>0. run \in RunStates /\ run.at = "finalize" /\ run.root \in SUBSET Leaves
    BY DEF Finalize, At, RunSound, RunStates
  <1>1. CASE run' = NoRun /\ UNCHANGED storeVars
    BY <1>1, NoRunSound DEF NoRun, StoreGrows, storeVars, CountsSound
  <1>2. CASE /\ trees' = trees \cup {run.root}
             /\ run' = [run EXCEPT !.at = "publish",
                                   !.records = Published!OutcomeRecords(run.root)]
             /\ UNCHANGED <<refVars, leaves, journal>>
    <2>1. StoreGrows /\ leaves' = leaves /\ journal' = journal /\ trees' \subseteq SUBSET Leaves
      BY <1>0, <1>2 DEF StoreGrows, CountsSound
    <2>2. PICK q : q = Published!OutcomeRecords(run.root)
      OBVIOUS
    <2>3. OutcomeFragments \in Nat
      BY IndexRunAssumption
    <2>4. q = [i \in 1..OutcomeFragments |-> [leaf |-> {}, root |-> run.root, fragment |-> i]]
      BY <2>2 DEF Published!OutcomeRecords, Published!IndexingOutcome
    <2>5. \A i \in 1..OutcomeFragments : q[i] \in JournalRecords /\ q[i].leaf = {}
      BY <1>0, <2>3, <2>4 DEF JournalRecords
    <2>6. q \in EntryLists /\ Len(q) = OutcomeFragments
      <3>1. q = [i \in 1..OutcomeFragments |-> q[i]]
        BY <2>4
      <3> QED BY <2>3, <2>5, <3>1 DEF EntryLists
    <2>7. LeavesOf(q) = {}
      BY <2>5, <2>6 DEF LeavesOf
    <2>8. run' = [run EXCEPT !.at = "publish", !.records = q]
      BY <1>2, <2>2
    <2>9. /\ run'.at = "publish" /\ run'.head = run.head /\ run'.root = run.root
          /\ run'.pending = run.pending /\ run'.records = q
          /\ run' \in RunStates
      BY <1>0, <2>6, <2>8 DEF RunStates, RunSteps
    <2>10. RootStored(run.root)'
      BY <1>0, <1>2, <2>9 DEF RootStored
    <2> QED BY <2>1, <2>6, <2>7, <2>9, <2>10, StoredStays DEF RunSound
  <1> QED BY <1>1, <1>2 DEF Finalize, InterruptSeen, RunFails

-----------------------------------------------------------------------------
(* Every step. *)

\* Initially nothing is stored and nothing is named.
LEMMA StoreInvInit ==
    ASSUME Init
    PROVE  StoreInv
  <1>1. RefsStored(DefaultRefs) /\ DefaultRefs \in RefStates
    BY NothingStored DEF RefsStored
  <1>2. FilesSound
    BY <1>1 DEF Init, RefStoreInit, FilesSound, NoFile, FileStates
  <1>3. writing \in WriteStates /\ writing.at = "idle" /\ writing.refs = DefaultRefs
    BY <1>1, RefStoreAssumption DEF Init, RefStoreInit, NotWriting, WriteStates, WriteSteps
  <1>4. WriteSound
    BY <1>1, <1>3 DEF WriteSound
  <1>5. <<>> \in EntryLists /\ <<>> \in Seq(Leaves) /\ LeavesOf(<<>>) = {}
    BY DEF EntryLists, LeavesOf
  <1>6. run \in RunStates
    BY <1>5, NothingStored
    DEF Init, NoRun, RunStates, RunSteps, Stages, HeadStored, RootStored
  <1>7. /\ run.at = "idle" /\ run.head = NoHead /\ run.root = NoRoot /\ run.pending = <<>>
        /\ run.records = <<>>
    BY DEF Init, NoRun
  <1>8. RunSound
    BY <1>5, <1>6, <1>7, NothingStored DEF RunSound
  <1>9. CountsSound /\ BlocksWithinLimit
    <2>1. leaves = {} /\ trees = {} /\ journal = {} /\ runs = 0 /\ interrupted = FALSE
      BY DEF Init
    <2>2. 0 \in 0..MaxRuns
      BY IndexRunAssumption
    <2>3. interrupted \in BOOLEAN
      BY <2>1
    <2> QED BY <2>1, <2>2, <2>3 DEF CountsSound, BlocksWithinLimit
  <1> QED BY <1>2, <1>3, <1>4, <1>7, <1>8, <1>9 DEF StoreInv, WriteOfRun

\* A step of a run outside of a write, with what its own lemma shows.
LEMMA RunStepKeeps ==
    ASSUME StoreInv, RunSound', run.at # "writing", run'.at # "writing", StoreGrows,
           leaves' \subseteq Leaves, trees' \subseteq SUBSET Leaves, BlocksWithinLimit',
           UNCHANGED <<refVars, interrupted, runs>>
    PROVE  StoreInv'
  <1>1. FilesSound' /\ WriteSound'
    BY FilesKept DEF StoreInv, refVars
  <1>2. WriteOfRun' /\ CountsSound'
    BY DEF StoreInv, WriteOfRun, CountsSound, refVars
  <1> QED BY <1>1, <1>2 DEF StoreInv

\* The invariant is inductive.
LEMMA StoreInvStep ==
    ASSUME StoreInv, [Next]_vars
    PROVE  StoreInv'
  <1> USE DEF StoreInv
  <1>1. CASE UNCHANGED vars
    <2>1. StoreGrows /\ UNCHANGED <<leaves, trees, journal, run, refVars, interrupted, runs>>
      BY <1>1 DEF StoreGrows, vars, storeVars
    <2>2. FilesSound' /\ WriteSound'
      BY <2>1, FilesKept DEF refVars
    <2>3. RunSound'
      BY <2>1, StoredStays DEF RunSound
    <2>4. WriteOfRun' /\ CountsSound' /\ BlocksWithinLimit'
      BY <2>1 DEF WriteOfRun, CountsSound, BlocksWithinLimit, refVars
    <2> QED BY <2>2, <2>3, <2>4
  <1>2. ASSUME NEW stage \in Stages, NEW request \in Requests, StartRun(stage, request)
        PROVE  StoreInv'
    <2>1. /\ UNCHANGED <<refVars, leaves, journal, trees>> /\ run.at = "idle"
          /\ interrupted' = FALSE /\ runs' = runs + 1 /\ runs < MaxRuns /\ StoreGrows
      BY <1>2 DEF StartRun, storeVars, At, StoreGrows
    <2>2. RunSound' /\ run'.at # "writing"
      BY <1>2, StartSound
    <2>3. FilesSound' /\ WriteSound'
      BY <2>1, FilesKept DEF refVars
    <2>4. WriteOfRun'
      BY <2>1, <2>2 DEF WriteOfRun, refVars
    <2>5. CountsSound' /\ BlocksWithinLimit'
      <3>1. interrupted' \in BOOLEAN
        BY <2>1
      <3>2. runs' \in 0..MaxRuns
        BY <2>1, IndexRunAssumption DEF CountsSound
      <3> QED BY <2>1, <3>1, <3>2 DEF CountsSound, BlocksWithinLimit
    <2> QED BY <2>2, <2>3, <2>4, <2>5
  <1>3. ASSUME UNCHANGED <<interrupted, runs>>, NextBatch \/ Publish \/ Replay
        PROVE  StoreInv'
    <2>1. UNCHANGED <<refVars, storeVars>> /\ run.at # "writing"
      BY <1>3 DEF NextBatch, Publish, Replay, InterruptSeen, At
    <2>2. RunSound' /\ run'.at # "writing"
      BY <1>3, NextBatchSound, PublishSound, ReplaySound
    <2>3. /\ StoreGrows /\ leaves' \subseteq Leaves /\ trees' \subseteq SUBSET Leaves
          /\ BlocksWithinLimit'
      BY <2>1 DEF StoreGrows, storeVars, CountsSound, BlocksWithinLimit
    <2> QED BY <1>3, <2>1, <2>2, <2>3, RunStepKeeps
  <1>4. ASSUME UNCHANGED <<interrupted, runs>>, PersistStagedBlocks
        PROVE  StoreInv'
    <2>1. UNCHANGED <<refVars, journal, trees>> /\ run.at # "writing"
      BY <1>4 DEF PersistStagedBlocks, At, storeVars
    <2>2. RunSound' /\ run'.at # "writing" /\ StoreGrows /\ leaves' \subseteq Leaves
      BY <1>4, PersistSound
    <2>3. trees' \subseteq SUBSET Leaves /\ BlocksWithinLimit'
      BY <2>1 DEF CountsSound, BlocksWithinLimit
    <2> QED BY <1>4, <2>1, <2>2, <2>3, RunStepKeeps
  <1>5. ASSUME UNCHANGED <<interrupted, runs>>, AppendRecord \/ FlushPending
        PROVE  StoreInv'
    <2>1. /\ RunSound' /\ run'.at # "writing" /\ StoreGrows /\ UNCHANGED <<leaves, trees, refVars>>
          /\ BlocksWithinLimit'
      BY <1>5, AppendSound, FlushSound
    <2>2. run.at # "writing" /\ leaves' \subseteq Leaves /\ trees' \subseteq SUBSET Leaves
      BY <1>5, <2>1 DEF AppendRecord, FlushPending, At, CountsSound
    <2> QED BY <1>5, <2>1, <2>2, RunStepKeeps
  <1>6. ASSUME UNCHANGED <<interrupted, runs>>, Finalize
        PROVE  StoreInv'
    <2>1. /\ RunSound' /\ run'.at # "writing" /\ StoreGrows /\ leaves' = leaves
          /\ journal' = journal /\ trees' \subseteq SUBSET Leaves
      BY <1>6, FinalizeSound
    <2>2. run.at # "writing" /\ leaves' \subseteq Leaves /\ BlocksWithinLimit'
      BY <1>6, <2>1 DEF Finalize, At, CountsSound, BlocksWithinLimit
    <2>3. UNCHANGED refVars
      BY <1>6 DEF Finalize, InterruptSeen
    <2> QED BY <1>6, <2>1, <2>2, <2>3, RunStepKeeps
  <1>7. ASSUME UNCHANGED <<interrupted, runs>>, Commit
        PROVE  StoreInv'
    <2>1. writing.at = "idle"
      BY <1>7 DEF Commit, At, WriteOfRun
    <2>2. RunSound' /\ FilesSound' /\ WriteSound' /\ WriteOfRun' /\ UNCHANGED <<leaves, journal, trees>>
      BY <1>7, <2>1, CommitSound
    <2> QED BY <1>7, <2>2 DEF CountsSound, BlocksWithinLimit
  <1>8. ASSUME UNCHANGED <<interrupted, runs>>, WriteRefs
        PROVE  StoreInv'
    <2>1. WriteStep /\ UNCHANGED <<leaves, journal, trees, run>> /\ run.at = "writing" /\ StoreGrows
      BY <1>8 DEF WriteRefs, At, storeVars, StoreGrows
    <2>2. FilesSound' /\ WriteSound' /\ writing'.at # "idle"
      BY <2>1, WriteStepSound
    <2>3. RunSound'
      BY <2>1, StoredStays DEF RunSound
    <2>4. WriteOfRun' /\ CountsSound' /\ BlocksWithinLimit'
      BY <1>8, <2>1, <2>2 DEF WriteOfRun, CountsSound, BlocksWithinLimit
    <2> QED BY <2>2, <2>3, <2>4
  <1>9. ASSUME UNCHANGED runs, Committed \/ CommitFails \/ Crash, UNCHANGED interrupted
        PROVE  StoreInv'
    <2>1. EndWrite /\ UNCHANGED <<leaves, journal, trees>>
      BY <1>9 DEF Committed, CommitFails, Crash, storeVars
    <2>2. FilesSound' /\ WriteSound' /\ writing'.at = "idle"
      BY <2>1, EndWriteSound
    <2>3. RunSound' /\ run'.at # "writing"
      <3>1. CASE Committed
        BY <3>1, CommittedSound
      <3>2. CASE CommitFails \/ Crash
        BY <3>2, NoRunSound DEF CommitFails, Crash, RunFails, NoRun
      <3> QED BY <1>9, <3>1, <3>2
    <2>4. WriteOfRun' /\ CountsSound' /\ BlocksWithinLimit'
      BY <1>9, <2>1, <2>2, <2>3 DEF WriteOfRun, CountsSound, BlocksWithinLimit
    <2> QED BY <2>2, <2>3, <2>4
  <1>10. CASE Interrupt
    <2>1. /\ StoreGrows /\ UNCHANGED <<leaves, trees, journal, run, refVars, runs>>
          /\ interrupted' = TRUE
      BY <1>10 DEF StoreGrows, Interrupt, storeVars
    <2>2. FilesSound' /\ WriteSound'
      BY <2>1, FilesKept DEF refVars
    <2>3. RunSound'
      BY <2>1, StoredStays DEF RunSound
    <2>4. WriteOfRun' /\ BlocksWithinLimit'
      BY <2>1 DEF WriteOfRun, BlocksWithinLimit, refVars
    <2>5. CountsSound'
      BY <2>1 DEF CountsSound
    <2> QED BY <2>2, <2>3, <2>4, <2>5
  <1> QED
    BY <1>1, <1>2, <1>3, <1>4, <1>5, <1>6, <1>7, <1>8, <1>9, <1>10
    DEF Next, RunStep, Finished, Crash

\* For every sequence of requests, every set of failing calls and a crash at any
\* point, with the refs in a file, a blob or a table: what any run leaves behind
\* can be read by the next one.  The refs object is whole, its chain, the leaves
\* the chain names and the tree of its root are in the block store, and no stored
\* journal block exceeds the limit.
THEOREM IndexStoreSafe == Spec => []StoredIndexSound
  <1>1. Init => StoreInv
    BY StoreInvInit
  <1>2. StoreInv /\ [Next]_vars => StoreInv'
    BY StoreInvStep
  <1>3. StoreInv => StoredIndexSound
    <2> SUFFICES ASSUME StoreInv PROVE StoredIndexSound
      OBVIOUS
    <2> USE DEF StoreInv
    <2>1. TypeOK
      <3>1. /\ ref_file.kind \in {"none", "json"} /\ temp_file.kind \in {"none", "torn", "json"}
            /\ backup_file.kind \in {"none", "json"}
        BY DEF FilesSound, FileStates
      <3>2. /\ writing.at \in LocalSteps \cup {"idle", "put", "written", "failed"}
            /\ writing.attempt \in 0..MUTABLE_REF_STORE_HTTP_RETRY_ATTEMPTS
        BY DEF WriteSound, WriteStates, WriteSteps
      <3>3. run.at \in RunSteps /\ run.stage \in Stages
        BY DEF RunSound, RunStates
      <3>4. writing.at = "idle" <=> ~At("writing")
        BY DEF WriteOfRun, At
      <3> QED BY <3>1, <3>2, <3>3, <3>4 DEF TypeOK, RunSteps, CountsSound
    <2>2. RefsNeverDangle
      BY DEF RefsNeverDangle, Chains, Roots, FilesSound, RefsStored, HeadStored, RootStored
    <2> QED BY <2>1, <2>2 DEF StoredIndexSound
  <1> QED BY <1>1, <1>2, <1>3, PTL DEF Spec

-----------------------------------------------------------------------------
(* The publication history. *)

\* A local file is exchanged by two renames.  A crash between them, or a failed
\* restore of the backup, loses the refs (run index_local_head_lost); the other
\* locations replace the refs in one request.
ExchangeIsSafe == Location # "LocalFile" \/ (~MayCrash /\ "restore" \notin IoFaults)

\* One publication, from the refs old to the refs new: the records X follow those
\* of the old journal; they are inputs, or all outcome records of the new root.
Publishes(old, new, X) ==
    /\ X \in EntryLists
    /\ Published!Entries(new.head) = Published!Entries(old.head) \o X
    /\ \/ new.root = old.root /\ \A i \in 1..Len(X) : X[i].fragment = 0
       \/ /\ new.root = Published!InputLeaves(old.head)
          /\ X = Published!OutcomeRecords(new.root)

PublicationStep(old, new) ==
    /\ IsPrefix(old.head, new.head) /\ old.head # new.head
    /\ \E X : Publishes(old, new, X)

\* The records that the run is about to publish on top of the loaded refs.
RunPublishes(X) ==
    /\ X \in EntryLists /\ X # <<>>
    /\ \/ run.root = NoRoot /\ \A i \in 1..Len(X) : X[i].fragment = 0
       \/ /\ run.root # NoRoot
          /\ run.root = Published!InputLeaves(LoadedRefs.head)
          /\ X = Published!OutcomeRecords(run.root)

\* Appending in progress: the chain, the pending block and the records to come are
\* the loaded journal followed by the publication.
RunAppends(X) ==
    /\ RunPublishes(X)
    /\ IsPrefix(LoadedRefs.head, run.head)
    /\ Published!Entries(run.head) \o (run.pending \o run.records)
          = Published!Entries(LoadedRefs.head) \o X

RunCommits(X) ==
    /\ RunPublishes(X)
    /\ IsPrefix(LoadedRefs.head, run.head)
    /\ Published!Entries(run.head) = Published!Entries(LoadedRefs.head) \o X

\* What the run has to publish, stage by stage.
RunProgress ==
    /\ run.at \notin {"append"} => run.pending = <<>>
    /\ run.at \in {"batch", "persist", "replay"} => run.root = NoRoot
    /\ run.at = "persist" => run.records # <<>>
    /\ run.at = "finalize" =>
          run.root # NoRoot /\ run.root = Published!InputLeaves(LoadedRefs.head)
    /\ run.at = "publish" => RunPublishes(run.records)
    /\ run.at = "append" => \E X : RunAppends(X)
    /\ run.at = "commit" => \E X : RunCommits(X)

\* The exchange of the files, step by step.
WriteOrder ==
    /\ writing.at \in LocalSteps => Location = "LocalFile"
    /\ writing.at \in {"remove_backup", "rename_old", "rename_new"} =>
          temp_file.refs = writing.refs
    /\ writing.at \in {"remove_backup", "rename_old", "restore"} => writing.had_existing_file
    /\ writing.at \in {"remove_old", "written"} => ref_file.refs = writing.refs

\* A write in progress is one publication, done or still to come.
WritePublishes ==
    run.at = "writing" =>
       Authoritative = writing.refs \/ PublicationStep(Authoritative, writing.refs)

\* Acknowledged refs are extended by the current ones, whose root is over a part of
\* the journal.
HistoryKept ==
    /\ \A refs \in acknowledged : /\ refs \in RefStates
                                  /\ IsPrefix(refs.head, Authoritative.head)
                                  /\ refs.root \subseteq Authoritative.root
    /\ Authoritative.root \subseteq Published!InputLeaves(Authoritative.head)

HistoryInv == StoreInv /\ RunProgress /\ WriteOrder /\ WritePublishes /\ HistoryKept

-----------------------------------------------------------------------------
(* Prefixes of chains. *)

\* A prefix is a chain that has the same blocks where it has any.
LEMMA PrefixIs ==
    ASSUME NEW p \in JournalChains, NEW q \in JournalChains
    PROVE  /\ IsPrefix(p, q) <=> Len(p) <= Len(q) /\ \A i \in 1..Len(p) : p[i] = q[i]
           /\ Published!IsPrefix(p, q) <=> IsPrefix(p, q)
  <1>1. p \in Seq(EntryLists) /\ q \in Seq(EntryLists) /\ Len(p) \in Nat /\ Len(q) \in Nat
    BY DEF JournalChains
  <1>2. SubSeq(p, 1, Len(p)) = p
    BY <1>1
  <1>3. ASSUME Len(p) <= Len(q)
        PROVE  SubSeq(q, 1, Len(p)) = p <=> \A i \in 1..Len(p) : p[i] = q[i]
    <2>1. PICK r : r = SubSeq(q, 1, Len(p))
      OBVIOUS
    <2>2. r \in Seq(EntryLists) /\ Len(r) = Len(p) /\ \A i \in 1..Len(p) : r[i] = q[i]
      BY <1>1, <1>3, <2>1, SubSeqProperties
    <2>3. r = p <=> \A i \in 1..Len(p) : r[i] = p[i]
      BY <1>1, <2>2
    <2> QED BY <2>1, <2>2, <2>3
  <1> QED BY <1>2, <1>3 DEF IsPrefix, Published!IsPrefix

\* Being a prefix is reflexive, transitive and kept by a new block.
LEMMA PrefixFacts ==
    ASSUME NEW p \in JournalChains, NEW q \in JournalChains
    PROVE  /\ IsPrefix(p, p)
           /\ \A r \in JournalChains : IsPrefix(p, q) /\ IsPrefix(q, r) => IsPrefix(p, r)
           /\ \A e \in EntryLists : IsPrefix(p, q) => IsPrefix(p, Append(q, e))
  <1>1. Len(p) \in Nat /\ Len(q) \in Nat
    BY DEF JournalChains
  <1>2. IsPrefix(p, p)
    BY <1>1, PrefixIs
  <1>3. ASSUME NEW r \in JournalChains, IsPrefix(p, q), IsPrefix(q, r) PROVE IsPrefix(p, r)
    <2>1. Len(r) \in Nat
      BY DEF JournalChains
    <2>2. Len(p) <= Len(q) /\ \A i \in 1..Len(p) : p[i] = q[i]
      BY <1>3, PrefixIs
    <2>3. Len(q) <= Len(r) /\ \A i \in 1..Len(q) : q[i] = r[i]
      BY <1>3, PrefixIs
    <2>4. Len(p) <= Len(r) /\ \A i \in 1..Len(p) : p[i] = r[i]
      BY <1>1, <2>1, <2>2, <2>3
    <2> QED BY <2>4, PrefixIs
  <1>4. ASSUME NEW e \in EntryLists, IsPrefix(p, q) PROVE IsPrefix(p, Append(q, e))
    <2>1. PICK r : r = Append(q, e)
      OBVIOUS
    <2>2. r \in JournalChains /\ Len(r) = Len(q) + 1 /\ \A i \in 1..Len(q) : r[i] = q[i]
      BY <2>1 DEF JournalChains
    <2>3. IsPrefix(q, r)
      BY <1>1, <2>2, PrefixIs
    <2> QED BY <1>3, <1>4, <2>1, <2>2, <2>3
  <1> QED BY <1>2, <1>3, <1>4

\* What a publication appended is the rest of the new entries.
LEMMA AppendedIs ==
    ASSUME NEW old \in JournalChains, NEW new \in JournalChains, NEW X \in EntryLists,
           Published!Entries(new) = Published!Entries(old) \o X
    PROVE  /\ Published!Appended(old, new) = X
           /\ Published!InputLeaves(old) \subseteq Published!InputLeaves(new)
  <1>1. PICK a, b : a = Published!Entries(old) /\ b = Published!Entries(new)
    OBVIOUS
  <1>2. a \in EntryLists /\ b = a \o X
    BY <1>1, EntriesType
  <1>3. SubSeq(b, Len(a) + 1, Len(b)) = X
    <2>1. /\ b \in Seq(JournalRecords) /\ Len(b) = Len(a) + Len(X) /\ Len(a) \in Nat
          /\ Len(X) \in Nat /\ X \in Seq(JournalRecords)
          /\ \A i \in 1..Len(X) : b[Len(a) + i] = X[i]
      BY <1>2 DEF EntryLists
    <2>2. PICK r : r = SubSeq(b, Len(a) + 1, Len(b))
      OBVIOUS
    <2>3. r \in Seq(JournalRecords) /\ Len(r) = Len(X)
      BY <2>1, <2>2
    <2>4. \A i \in 1..Len(X) : r[i] = X[i]
      <3>1. \A i \in 1..Len(X) : r[i] = b[Len(a) + i]
        BY <2>1, <2>2
      <3> QED BY <2>1, <3>1
    <2>5. r = X
      BY <2>1, <2>3, <2>4
    <2> QED BY <2>2, <2>5
  <1>4. Published!InputLeaves(old) = LeavesOf(a) /\ Published!InputLeaves(new) = LeavesOf(b)
    BY <1>1, InputsOfEntries
  <1>5. LeavesOf(b) = LeavesOf(a) \cup LeavesOf(X)
    BY <1>2, LeavesOfFacts
  <1> QED BY <1>1, <1>3, <1>4, <1>5 DEF Published!Appended

-----------------------------------------------------------------------------
(* A write changes the refs once, from the old to the new ones. *)

\* Which refs are authoritative in each step of a write.
AuthoritativeCases ==
    /\ writing.at \notin {"rename_new", "restore"} => Authoritative = ref_file.refs
    /\ writing.had_existing_file = TRUE /\ writing.at \in {"rename_new", "restore"} =>
          Authoritative = backup_file.refs
    /\ writing.had_existing_file = FALSE => Authoritative = ref_file.refs

\* These are all the cases, now and after any step.
LEMMA AuthoritativeIs == AuthoritativeCases /\ AuthoritativeCases'
  <1>1. AuthoritativeCases
    BY DEF Authoritative, AuthoritativeCases
  <1> QED BY <1>1, PTL

\* One call of the write leaves the authoritative refs or makes the new ones
\* authoritative.
LEMMA ExchangeStep ==
    ASSUME ExchangeIsSafe, WriteSound, WriteOrder, WriteStep
    PROVE  /\ WriteOrder'
           /\ Authoritative' = Authoritative \/ Authoritative' = writing.refs
           /\ writing'.refs = writing.refs
  <1>0. /\ writing \in WriteStates /\ writing.had_existing_file \in BOOLEAN
    BY DEF WriteSound, WriteStates
  <1>1. ASSUME NEW to \in WriteSteps, WriteTo(to)
        PROVE  /\ writing'.refs = writing.refs /\ writing'.at = to
               /\ writing'.had_existing_file = writing.had_existing_file
    BY <1>0, <1>1 DEF WriteTo, WriteStates
  <1>2. CASE CreateTemp
    <2>1. /\ writing.at = "create_temp" /\ UNCHANGED <<ref_file, backup_file>>
          /\ WriteTo("fill_temp")
      BY <1>2 DEF CreateTemp
    <2>2. writing'.refs = writing.refs /\ writing'.at = "fill_temp"
      BY <1>1, <2>1 DEF WriteSteps, LocalSteps
    <2>3. Authoritative' = ref_file'.refs /\ Authoritative = ref_file.refs
      BY <2>1, <2>2 DEF Authoritative
    <2>4. WriteOrder'
      BY <2>1, <2>2 DEF WriteOrder, LocalSteps
    <2> QED BY <2>1, <2>2, <2>3, <2>4
  <1>3. CASE FillTemp
    <2>1. /\ writing.at = "fill_temp" /\ UNCHANGED <<ref_file, backup_file>>
          /\ temp_file' = Json(writing.refs)
      BY <1>3 DEF FillTemp
    <2>2. PICK had \in BOOLEAN, to \in {"remove_backup", "rename_old", "rename_new"} :
             /\ writing' = [writing EXCEPT !.had_existing_file = had, !.at = to]
             /\ to = "rename_new" <=> had = FALSE
      <3>1. CASE ref_file.kind # "none" /\ backup_file.kind # "none"
        <4>1. writing' = [writing EXCEPT !.had_existing_file = TRUE, !.at = "remove_backup"]
          BY <1>3, <3>1 DEF FillTemp
        <4> QED BY <4>1
      <3>2. CASE ref_file.kind # "none" /\ backup_file.kind = "none"
        <4>1. writing' = [writing EXCEPT !.had_existing_file = TRUE, !.at = "rename_old"]
          BY <1>3, <3>2 DEF FillTemp
        <4> QED BY <4>1
      <3>3. CASE ref_file.kind = "none"
        <4>1. writing' = [writing EXCEPT !.had_existing_file = FALSE, !.at = "rename_new"]
          BY <1>3, <3>3 DEF FillTemp
        <4> QED BY <4>1
      <3> QED BY <3>1, <3>2, <3>3
    <2>3. /\ writing'.refs = writing.refs /\ writing'.at = to /\ writing'.had_existing_file = had
      BY <1>0, <2>2 DEF WriteStates
    <2>4. Authoritative' = ref_file'.refs /\ Authoritative = ref_file.refs
      <3>1. writing'.at \notin {"rename_new", "restore"} \/ writing'.had_existing_file = FALSE
        BY <2>2, <2>3
      <3>2. Authoritative' = ref_file'.refs
        BY <3>1, AuthoritativeIs DEF AuthoritativeCases
      <3> QED BY <2>1, <3>2, AuthoritativeIs DEF AuthoritativeCases
    <2>5. temp_file'.refs = writing.refs
      BY <2>1 DEF Json
    <2>6. writing'.at \in {"remove_backup", "rename_old", "restore"} => writing'.had_existing_file
      BY <2>2, <2>3
    <2>7. WriteOrder'
      BY <2>1, <2>2, <2>3, <2>5, <2>6 DEF WriteOrder, LocalSteps
    <2> QED BY <2>1, <2>3, <2>4, <2>7
  <1>4. CASE RemoveBackup
    <2>1. /\ writing.at = "remove_backup" /\ UNCHANGED <<ref_file, temp_file>>
          /\ WriteTo("rename_old")
      BY <1>4 DEF RemoveBackup
    <2>2. /\ writing'.refs = writing.refs /\ writing'.at = "rename_old"
          /\ writing'.had_existing_file = writing.had_existing_file
      BY <1>1, <2>1 DEF WriteSteps, LocalSteps
    <2>3. Authoritative' = ref_file'.refs /\ Authoritative = ref_file.refs
      BY <2>1, <2>2 DEF Authoritative
    <2>4. WriteOrder'
      BY <2>1, <2>2 DEF WriteOrder, LocalSteps
    <2> QED BY <2>1, <2>2, <2>3, <2>4
  <1>5. CASE RenameOld
    <2>1. /\ writing.at = "rename_old" /\ UNCHANGED temp_file /\ backup_file' = ref_file
          /\ WriteTo("rename_new")
      BY <1>5 DEF RenameOld
    <2>2. /\ writing'.refs = writing.refs /\ writing'.at = "rename_new"
          /\ writing'.had_existing_file = writing.had_existing_file
      BY <1>1, <2>1 DEF WriteSteps, LocalSteps
    <2>3. writing.had_existing_file = TRUE
      BY <1>0, <2>1 DEF WriteOrder
    <2>4. Authoritative' = backup_file'.refs
      BY <2>2, <2>3, AuthoritativeIs DEF AuthoritativeCases
    <2>5. Authoritative = ref_file.refs
      BY <2>1, AuthoritativeIs DEF AuthoritativeCases
    <2>6. WriteOrder'
      BY <2>1, <2>2 DEF WriteOrder, LocalSteps
    <2> QED BY <2>1, <2>2, <2>4, <2>5, <2>6
  <1>6. CASE RenameNew
    <2>1. /\ writing.at = "rename_new" /\ ref_file' = temp_file
          /\ (WriteTo("remove_old") \/ WriteTo("written"))
      BY <1>6 DEF RenameNew
    <2>2. writing'.refs = writing.refs /\ writing'.at \in {"remove_old", "written"}
      BY <1>1, <2>1 DEF WriteSteps, LocalSteps
    <2>3. temp_file.refs = writing.refs /\ Location = "LocalFile"
      BY <2>1 DEF WriteOrder, LocalSteps
    <2>4. Authoritative' = ref_file'.refs
      BY <2>2 DEF Authoritative
    <2>5. WriteOrder'
      BY <2>1, <2>2, <2>3 DEF WriteOrder
    <2> QED BY <2>1, <2>2, <2>3, <2>4, <2>5
  <1>7. CASE RemoveOld
    <2>1. writing.at = "remove_old" /\ UNCHANGED <<ref_file, temp_file>> /\ WriteTo("written")
      BY <1>7 DEF RemoveOld
    <2>2. writing'.refs = writing.refs /\ writing'.at = "written"
      BY <1>1, <2>1 DEF WriteSteps
    <2>3. Authoritative' = ref_file'.refs /\ Authoritative = ref_file.refs
      BY <2>1, <2>2 DEF Authoritative
    <2>4. WriteOrder'
      BY <2>1, <2>2 DEF WriteOrder, LocalSteps
    <2> QED BY <2>1, <2>2, <2>3, <2>4
  <1>8. CASE LocalStepFails
    <2>1. /\ writing.at \in LocalSteps /\ writing.at \in IoFaults
          /\ UNCHANGED <<ref_file, temp_file, backup_file>>
      BY <1>8 DEF LocalStepFails
    <2>2. writing.at # "restore"
      BY <2>1 DEF ExchangeIsSafe, WriteOrder
    <2>3. CASE writing.at = "rename_new" /\ writing.had_existing_file = TRUE
      <3>1. WriteTo("restore")
        BY <1>8, <2>3 DEF LocalStepFails
      <3>2. /\ writing'.refs = writing.refs /\ writing'.at = "restore"
            /\ writing'.had_existing_file = writing.had_existing_file
        BY <1>1, <3>1 DEF WriteSteps, LocalSteps
      <3>3. Authoritative = backup_file.refs
        BY <2>3, AuthoritativeIs DEF AuthoritativeCases
      <3>4. Authoritative' = backup_file'.refs
        BY <2>3, <3>2, AuthoritativeIs DEF AuthoritativeCases
      <3>5. writing'.had_existing_file
        BY <2>3, <3>2
      <3>6. WriteOrder'
        BY <2>1, <2>3, <3>2, <3>5 DEF WriteOrder, LocalSteps
      <3> QED BY <2>1, <3>2, <3>3, <3>4, <3>6
    <2>4. CASE writing.at # "rename_new" \/ writing.had_existing_file = FALSE
      <3>1. WriteTo("failed")
        BY <1>8, <2>4 DEF LocalStepFails
      <3>2. writing'.refs = writing.refs /\ writing'.at = "failed"
        BY <1>1, <3>1 DEF WriteSteps, LocalSteps
      <3>3. Authoritative = ref_file.refs
        BY <2>2, <2>4, AuthoritativeIs DEF AuthoritativeCases
      <3>4. Authoritative' = ref_file'.refs
        BY <3>2 DEF Authoritative
      <3>5. WriteOrder'
        BY <3>2 DEF WriteOrder, LocalSteps
      <3> QED BY <2>1, <3>2, <3>3, <3>4, <3>5
    <2> QED BY <1>0, <2>3, <2>4
  <1>9. CASE RestoreBackup
    <2>1. writing.at = "restore" /\ ref_file' = backup_file /\ WriteTo("failed")
      BY <1>9 DEF RestoreBackup
    <2>2. writing'.refs = writing.refs /\ writing'.at = "failed"
      BY <1>1, <2>1 DEF WriteSteps
    <2>3. writing.had_existing_file = TRUE
      BY <1>0, <2>1 DEF WriteOrder
    <2>4. Authoritative = backup_file.refs
      BY <2>1, <2>3, AuthoritativeIs DEF AuthoritativeCases
    <2>5. Authoritative' = ref_file'.refs
      BY <2>2 DEF Authoritative
    <2>6. WriteOrder'
      BY <2>2 DEF WriteOrder, LocalSteps
    <2> QED BY <2>1, <2>2, <2>4, <2>5, <2>6
  <1>10. CASE PutSucceeds \/ PutUnanswered \/ PutRefused
    <2>1. writing.at = "put" /\ ref_file' \in {ref_file, Json(writing.refs)}
      BY <1>10 DEF PutSucceeds, PutUnanswered, PutRefused
    <2>2. /\ writing'.refs = writing.refs /\ writing'.at \in {"put", "failed", "written"}
          /\ writing'.at = "written" => ref_file' = Json(writing.refs)
      <3>1. CASE PutSucceeds \/ PutRefused
        BY <1>1, <3>1 DEF PutSucceeds, PutRefused, WriteSteps
      <3>2. CASE PutUnanswered
        <4>1. PICK to \in {"put", "failed"} :
                 writing' = [writing EXCEPT !.attempt = @ + 1, !.at = to]
          BY <3>2 DEF PutUnanswered
        <4> QED BY <1>0, <4>1 DEF WriteStates
      <3> QED BY <1>10, <3>1, <3>2
    <2>3. Authoritative' = ref_file'.refs /\ Authoritative = ref_file.refs
      BY <2>1, <2>2 DEF Authoritative
    <2>4. Json(writing.refs).refs = writing.refs
      BY DEF Json
    <2>5. WriteOrder'
      BY <2>1, <2>2, <2>4 DEF WriteOrder, LocalSteps
    <2> QED BY <2>1, <2>2, <2>3, <2>4, <2>5
  <1> QED BY <1>2, <1>3, <1>4, <1>5, <1>6, <1>7, <1>8, <1>9, <1>10 DEF WriteStep

\* In every state the authoritative refs can be followed.
LEMMA AuthoritativeStored ==
    ASSUME FilesSound
    PROVE  Authoritative \in RefStates /\ Authoritative.head \in JournalChains
  BY DEF FilesSound, Authoritative, RefsStored, HeadStored

\* A publication extends every earlier head, and its root covers the earlier roots.
LEMMA PublicationExtends ==
    ASSUME NEW old \in RefStates, NEW new \in RefStates, PublicationStep(old, new),
           old.root \subseteq Published!InputLeaves(old.head)
    PROVE  /\ IsPrefix(old.head, new.head)
           /\ old.root \subseteq new.root
           /\ new.root \subseteq Published!InputLeaves(new.head)
  <1>1. PICK X : Publishes(old, new, X)
    BY DEF PublicationStep
  <1>2. old.head \in JournalChains /\ new.head \in JournalChains
    BY DEF RefStates
  <1>3. Published!InputLeaves(old.head) \subseteq Published!InputLeaves(new.head)
    BY <1>1, <1>2, AppendedIs DEF Publishes
  <1> QED BY <1>1, <1>3 DEF Publishes, PublicationStep

\* The history is kept by a step that keeps the refs or publishes, and that
\* acknowledges nothing but the refs it leaves.
LEMMA HistoryStep ==
    ASSUME HistoryKept, FilesSound, FilesSound',
           Authoritative' = Authoritative \/ PublicationStep(Authoritative, Authoritative'),
           acknowledged' \subseteq acknowledged \cup {Authoritative'}
    PROVE  HistoryKept'
  <1>1. PICK old, new : old = Authoritative /\ new = Authoritative'
    OBVIOUS
  <1>2. /\ old \in RefStates /\ old.head \in JournalChains
        /\ new \in RefStates /\ new.head \in JournalChains
    <2>1. Authoritative' \in RefStates /\ Authoritative'.head \in JournalChains
      BY AuthoritativeStored DEF FilesSound, Authoritative, RefsStored, HeadStored
    <2> QED BY <1>1, <2>1, AuthoritativeStored
  <1>3. old.root \subseteq Published!InputLeaves(old.head)
    BY <1>1 DEF HistoryKept
  <1>4. /\ IsPrefix(old.head, new.head) /\ old.root \subseteq new.root
        /\ new.root \subseteq Published!InputLeaves(new.head)
    <2>1. CASE new = old
      BY <1>2, <1>3, <2>1, PrefixFacts
    <2>2. CASE PublicationStep(old, new)
      BY <1>2, <1>3, <2>2, PublicationExtends
    <2> QED BY <1>1, <2>1, <2>2
  <1>5. IsPrefix(new.head, new.head)
    BY <1>2, PrefixFacts
  <1>6. ASSUME NEW refs \in acknowledged'
        PROVE  refs \in RefStates /\ IsPrefix(refs.head, new.head) /\ refs.root \subseteq new.root
    <2>1. CASE refs = new
      BY <1>2, <1>5, <2>1
    <2>2. CASE refs \in acknowledged
      <3>1. /\ refs \in RefStates /\ IsPrefix(refs.head, old.head) /\ refs.root \subseteq old.root
            /\ refs.head \in JournalChains
        BY <1>1, <2>2 DEF HistoryKept, RefStates
      <3> QED BY <1>2, <1>4, <3>1, PrefixFacts
    <2> QED BY <1>1, <1>6, <2>1, <2>2
  <1> QED BY <1>1, <1>4, <1>6 DEF HistoryKept

\* A publication is a step of the abstract specification.
LEMMA PublicationIsAbstract ==
    ASSUME FilesSound, FilesSound',
           Authoritative' = Authoritative \/ PublicationStep(Authoritative, Authoritative')
    PROVE  [Published!PublishedNext]_<<Authoritative.head, Authoritative.root>>
  <1>1. PICK old, new : old = Authoritative /\ new = Authoritative'
    OBVIOUS
  <1>2. old.head \in JournalChains /\ new.head \in JournalChains
    <2>1. Authoritative'.head \in JournalChains
      BY DEF FilesSound, Authoritative, RefsStored, HeadStored
    <2> QED BY <1>1, <2>1, AuthoritativeStored
  <1>3. CASE new = old
    BY <1>1, <1>3
  <1>4. CASE PublicationStep(old, new)
    <2>1. PICK X : Publishes(old, new, X)
      BY <1>4 DEF PublicationStep
    <2>2. Published!IsPrefix(old.head, new.head) /\ old.head # new.head
      BY <1>2, <1>4, PrefixIs DEF PublicationStep
    <2>3. Published!Appended(old.head, new.head) = X /\ X \in EntryLists
      BY <1>2, <2>1, AppendedIs DEF Publishes
    <2>4. DOMAIN X = 1..Len(X)
      BY <2>3 DEF EntryLists
    <2>5. Published!PublishInputs \/ Published!PublishOutcome
      <3>1. CASE new.root = old.root /\ \A i \in 1..Len(X) : X[i].fragment = 0
        BY <1>1, <2>3, <2>4, <3>1 DEF Published!PublishInputs
      <3>2. CASE /\ new.root = Published!InputLeaves(old.head)
                 /\ X = Published!OutcomeRecords(new.root)
        BY <1>1, <2>3, <3>2 DEF Published!PublishOutcome
      <3> QED BY <2>1, <3>1, <3>2 DEF Publishes
    <2>6. Published!PublishedNext
      BY <1>1, <2>2, <2>5 DEF Published!PublishedNext, Published!IsStrictPrefix
    <2> QED BY <2>6
  <1> QED BY <1>1, <1>3, <1>4

-----------------------------------------------------------------------------
(* What each step of a run has left to publish. *)

\* No record is added by an empty pending block or an empty list.
LEMMA RecordsMove ==
    ASSUME NEW a \in EntryLists, NEW p \in EntryLists, NEW s \in EntryLists
    PROVE  /\ <<>> \in EntryLists
           /\ a \o (<<>> \o s) = a \o s
           /\ a \o (p \o <<>>) = a \o p
           /\ a \o (<<>> \o <<>>) = a
  <1>1. <<>> \in EntryLists
    BY DEF EntryLists
  <1>2. /\ <<>> \o s = s /\ p \o <<>> = p /\ a \o <<>> = a
        /\ <<>> \o <<>> = <<>>
    BY DEF EntryLists
  <1> QED BY <1>1, <1>2

\* The first record moves from the list to the pending block.
LEMMA RecordMoves ==
    ASSUME NEW a \in EntryLists, NEW p \in EntryLists, NEW s \in EntryLists, s # <<>>
    PROVE  a \o (Append(p, Head(s)) \o Tail(s)) = a \o (p \o s)
  <1>1. PICK h, t : h = Head(s) /\ t = Tail(s)
    OBVIOUS
  <1>2. /\ h \in JournalRecords /\ t \in EntryLists /\ <<h>> \in EntryLists /\ s = <<h>> \o t
    BY <1>1, HeadOfRecords
  <1>3. Append(p, h) = p \o <<h>>
    BY <1>2 DEF EntryLists
  <1>4. (p \o <<h>>) \o t = p \o (<<h>> \o t)
    BY <1>2, ConcatAssociative DEF EntryLists
  <1> QED BY <1>1, <1>2, <1>3, <1>4

\* A run that is over, starts, or takes its next batch.
LEMMA BatchProgress ==
    ASSUME RunSound, RunProgress,
           \/ run' = NoRun
           \/ \E stage \in Stages, request \in Requests : StartRun(stage, request)
           \/ NextBatch
    PROVE  RunProgress'
  <1>1. CASE run' = NoRun
    BY <1>1 DEF NoRun, RunProgress
  <1>2. CASE \E stage \in Stages, request \in Requests : StartRun(stage, request)
    <2>0. PICK stage \in Stages, request \in Requests : StartRun(stage, request)
      BY <1>2
    <2>1. PICK its \in RunItems(stage, request), to \in {"batch", "replay"} :
             run' = [NoRun EXCEPT !.at = to, !.stage = stage, !.items = its]
      BY <2>0 DEF StartRun
    <2>2. run'.at = to /\ run'.root = NoRoot /\ run'.pending = <<>>
      BY <2>1 DEF NoRun
    <2> QED BY <2>2 DEF RunProgress
  <1>3. CASE NextBatch /\ run' # NoRun
    <2>1. run \in RunStates /\ run.at = "batch"
      BY <1>3 DEF RunSound, NextBatch, At
    <2>2. run.root = NoRoot /\ run.pending = <<>>
      BY <2>1 DEF RunProgress
    <2>3. CASE run' = [run EXCEPT !.at = "replay"]
      <3>1. run'.at = "replay" /\ run'.root = run.root /\ run'.pending = run.pending
        BY <2>1, <2>3 DEF RunStates
      <3> QED BY <2>2, <3>1 DEF RunProgress
    <2>4. ASSUME NEW n, n = Least(chunk_size, Len(run.items)), run.items # <<>>,
                 run' = [run EXCEPT !.at = "persist",
                                    !.batch = SubSeq(run.items, 1, n),
                                    !.records = SubSeq(run.items, 1, n),
                                    !.items = SubSeq(run.items, n + 1, Len(run.items))]
          PROVE  RunProgress'
      <3>1. run.items \in Seq(Leaves) /\ Len(run.items) \in Nat /\ Len(run.items) # 0
        BY <2>1, <2>4 DEF RunStates
      <3>2. n \in Nat /\ n >= 1 /\ n <= Len(run.items)
        BY <2>4, <3>1, IndexRunAssumption DEF Least
      <3>3. PICK b, rest : b = SubSeq(run.items, 1, n) /\ rest = SubSeq(run.items, n + 1, Len(run.items))
        OBVIOUS
      <3>4. b # <<>>
        <4>1. Len(b) = n
          BY <3>1, <3>2, <3>3, SubSeqProperties
        <4> QED BY <3>2, <4>1
      <3>5. run' = [run EXCEPT !.at = "persist", !.batch = b, !.records = b, !.items = rest]
        BY <2>4, <3>3
      <3>6. /\ run'.at = "persist" /\ run'.root = run.root /\ run'.pending = run.pending
            /\ run'.records = b
        BY <2>1, <3>5 DEF RunStates
      <3> QED BY <2>2, <3>4, <3>6 DEF RunProgress
    <2> QED BY <1>3, <2>3, <2>4 DEF NextBatch, InterruptSeen, RunFails
  <1> QED BY <1>1, <1>2, <1>3

\* The records of a batch are inputs.
LEMMA PersistProgress ==
    ASSUME RunSound, RunProgress, PersistStagedBlocks
    PROVE  RunProgress'
  <1>0. /\ run \in RunStates /\ run.at = "persist" /\ run.records \in Seq(Leaves)
        /\ Len(run.records) \in Nat
    BY DEF PersistStagedBlocks, At, RunSound
  <1>1. run.root = NoRoot /\ run.pending = <<>> /\ run.records # <<>>
    BY <1>0 DEF RunProgress
  <1>2. CASE run' = NoRun
    BY <1>2, BatchProgress
  <1>3. CASE run' = [run EXCEPT !.batch = Tail(@)]
    <2>1. /\ run'.at = "persist" /\ run'.root = run.root /\ run'.pending = run.pending
          /\ run'.records = run.records
      BY <1>0, <1>3 DEF RunStates
    <2> QED BY <1>1, <2>1 DEF RunProgress
  <1>4. CASE run' = [run EXCEPT !.at = "publish",
                                !.records = [i \in DOMAIN run.records |->
                                                Published!ReplayInput(run.records[i])]]
    <2>1. PICK q : q = [i \in DOMAIN run.records |-> Published!ReplayInput(run.records[i])]
      OBVIOUS
    <2>2. DOMAIN run.records = 1..Len(run.records) /\ Len(run.records) # 0
      BY <1>0, <1>1
    <2>3. \A i \in 1..Len(run.records) : q[i].fragment = 0
      BY <2>1, <2>2 DEF Published!ReplayInput
    <2>4. \A i \in 1..Len(run.records) : q[i] \in JournalRecords
      <3>1. ASSUME NEW i \in 1..Len(run.records) PROVE q[i] \in JournalRecords
        <4>1. PICK l : l = run.records[i]
          OBVIOUS
        <4>2. l \in Leaves
          BY <1>0, <4>1
        <4>3. q[i] = [leaf |-> {l}, root |-> {}, fragment |-> 0]
          BY <2>1, <2>2, <4>1 DEF Published!ReplayInput
        <4> QED BY <4>2, <4>3 DEF JournalRecords
      <3> QED BY <3>1
    <2>5. q \in EntryLists /\ Len(q) = Len(run.records) /\ q # <<>>
      <3>1. PICK n \in Nat : n = Len(run.records)
        BY <1>0
      <3>2. q = [i \in 1..n |-> q[i]] /\ \A i \in 1..n : q[i] \in JournalRecords
        BY <2>1, <2>2, <2>4, <3>1
      <3>3. q \in EntryLists /\ Len(q) = n
        <4> HIDE <2>1
        <4> QED BY <3>2 DEF EntryLists
      <3> QED BY <2>2, <3>1, <3>3
    <2>6. run' = [run EXCEPT !.at = "publish", !.records = q]
      BY <1>4, <2>1
    <2>7. /\ run'.at = "publish" /\ run'.root = run.root /\ run'.pending = run.pending
          /\ run'.records = q
      BY <1>0, <2>6 DEF RunStates
    <2>8. RunPublishes(run.records)'
      BY <1>1, <2>3, <2>5, <2>7 DEF RunPublishes
    <2> QED BY <1>1, <2>7, <2>8 DEF RunProgress
  <1> QED BY <1>2, <1>3, <1>4 DEF PersistStagedBlocks, RunFails

\* A step that keeps the refs keeps what the run was to publish.
LEMMA PublishesStays ==
    ASSUME NEW X, RunPublishes(X), ref_file' = ref_file, run'.root = run.root
    PROVE  RunPublishes(X)'
  BY DEF RunPublishes, LoadedRefs

\* The journal is extended from the head that is loaded.
LEMMA PublishProgress ==
    ASSUME RunSound, RunProgress, FilesSound, Publish
    PROVE  RunProgress'
  <1>0. /\ run \in RunStates /\ run.at = "publish" /\ ref_file' = ref_file
        /\ run.records \in EntryLists
    BY DEF Publish, At, RunSound, refVars, InterruptSeen
  <1>1. CASE run' = NoRun
    BY <1>1, BatchProgress
  <1>2. CASE run' = [run EXCEPT !.at = "append", !.head = LoadedRefs.head]
    <2>1. RunPublishes(run.records) /\ run.pending = <<>>
      BY <1>0 DEF RunProgress
    <2>2. /\ run'.at = "append" /\ run'.root = run.root /\ run'.pending = run.pending
          /\ run'.records = run.records /\ run'.head = LoadedRefs.head
      BY <1>0, <1>2 DEF RunStates
    <2>3. PICK X : X = run.records
      OBVIOUS
    <2>4. RunPublishes(X)'
      BY <1>0, <2>1, <2>2, <2>3, PublishesStays
    <2>5. PICK old : old = LoadedRefs.head
      OBVIOUS
    <2>6. old \in JournalChains /\ Published!Entries(old) \in EntryLists /\ X \in EntryLists
      BY <1>0, <2>3, <2>5, EntriesType DEF FilesSound, RefsStored, HeadStored, LoadedRefs
    <2>7. /\ IsPrefix(old, old)
          /\ Published!Entries(old) \o (<<>> \o X) = Published!Entries(old) \o X
      BY <2>6, PrefixFacts, RecordsMove
    <2>8. LoadedRefs'.head = old
      BY <1>0, <2>5 DEF LoadedRefs
    <2>9. RunAppends(X)'
      BY <2>1, <2>2, <2>3, <2>4, <2>5, <2>7, <2>8 DEF RunAppends
    <2> QED BY <2>2, <2>9 DEF RunProgress
  <1> QED BY <1>1, <1>2 DEF Publish, InterruptSeen, RunFails

\* A stored block takes the pending records into the chain; what the run goes on
\* with follows them.
LEMMA StoreProgress ==
    ASSUME RunSound, FilesSound, run.at = "append", NEW X, RunAppends(X),
           NEW next \in RunStates, next.at \in {"append", "commit"}, next.root = run.root,
           next.pending \in EntryLists, next.records \in EntryLists,
           next.pending \o next.records = run.records,
           next.at = "commit" => next.pending = <<>> /\ next.records = <<>>,
           StoreJournalBlock(next)
    PROVE  RunProgress'
  <1>0. /\ run \in RunStates /\ run.head \in JournalChains /\ run.pending \in EntryLists
        /\ run.records \in EntryLists
    BY DEF RunSound, RunStates
  <1>1. CASE run' = NoRun
    <2>1. run'.at = "idle" /\ run'.pending = <<>>
      BY <1>1 DEF NoRun
    <2> QED BY <2>1 DEF RunProgress
  <1>2. CASE run' = [next EXCEPT !.head = Append(run.head, run.pending)] /\ UNCHANGED refVars
    <2>1. PICK h : h = Append(run.head, run.pending)
      OBVIOUS
    <2>2. h \in JournalChains
      BY <1>0, <2>1, AppendedBlock
    <2>3. /\ run'.at = next.at /\ run'.head = h /\ run'.root = run.root
          /\ run'.pending = next.pending /\ run'.records = next.records
      BY <1>2, <2>1, <2>2 DEF RunStates
    <2>4. ref_file' = ref_file
      BY <1>2 DEF refVars
    <2>5. RunPublishes(X)'
      BY <2>3, <2>4, PublishesStays DEF RunAppends
    <2>6. PICK old, a, e : /\ old = LoadedRefs.head /\ a = Published!Entries(run.head)
                           /\ e = Published!Entries(h)
      OBVIOUS
    <2>7. old \in JournalChains /\ LoadedRefs'.head = old
      BY <2>4, <2>6 DEF FilesSound, RefsStored, HeadStored, LoadedRefs
    <2>8. IsPrefix(old, h)
      BY <1>0, <2>1, <2>6, <2>7, PrefixFacts DEF RunAppends
    <2>9. a \in EntryLists /\ e = a \o run.pending
      BY <1>0, <2>1, <2>6, EntriesType, EntriesAppend
    <2>10. e \o (next.pending \o next.records) = Published!Entries(old) \o X
      <3>1. a \o (run.pending \o run.records) = Published!Entries(old) \o X
        BY <2>6 DEF RunAppends
      <3>2. (a \o run.pending) \o run.records = a \o (run.pending \o run.records)
        <4>1. PICK p, s : p = run.pending /\ s = run.records
          OBVIOUS
        <4>2. a \in Seq(JournalRecords) /\ p \in Seq(JournalRecords) /\ s \in Seq(JournalRecords)
          BY <1>0, <2>9, <4>1 DEF EntryLists
        <4>3. (a \o p) \o s = a \o (p \o s)
          BY <4>2, ConcatAssociative
        <4> QED BY <4>1, <4>3
      <3> QED BY <2>9, <3>1, <3>2
    <2>11. CASE next.at = "append"
      <3>1. RunAppends(X)'
        BY <2>3, <2>5, <2>6, <2>7, <2>8, <2>10 DEF RunAppends
      <3> QED BY <2>3, <2>11, <3>1 DEF RunProgress
    <2>12. CASE next.at = "commit"
      <3>1. e \o (<<>> \o <<>>) = e
        <4>1. e \in EntryLists
          BY <1>0, <2>9 DEF EntryLists
        <4> QED BY <4>1, RecordsMove
      <3>2. e = Published!Entries(old) \o X
        BY <2>10, <2>12, <3>1
      <3>3. RunCommits(X)'
        BY <2>3, <2>5, <2>6, <2>7, <2>8, <3>2 DEF RunCommits
      <3> QED BY <2>3, <2>12, <3>3 DEF RunProgress
    <2> QED BY <2>11, <2>12
  <1> QED BY <1>1, <1>2 DEF StoreJournalBlock, RunFails

\* No record is lost between the list, the pending block and the chain.
LEMMA AppendProgress ==
    ASSUME RunSound, RunProgress, FilesSound, AppendRecord
    PROVE  RunProgress'
  <1>0. /\ run \in RunStates /\ run.at = "append" /\ run.records \in EntryLists
        /\ run.records # <<>> /\ run.pending \in EntryLists /\ run.head \in JournalChains
    BY DEF AppendRecord, At, RunSound, RunStates
  <1>1. PICK first, rest : first = Head(run.records) /\ rest = Tail(run.records)
    OBVIOUS
  <1>2. /\ first \in JournalRecords /\ rest \in EntryLists /\ <<first>> \in EntryLists
        /\ run.records = <<first>> \o rest
    BY <1>0, <1>1, HeadOfRecords
  <1>3. PICK entries : entries = Append(run.pending, first)
    OBVIOUS
  <1>4. PICK X : RunAppends(X)
    BY <1>0 DEF RunProgress
  <1>5. CASE run' = NoRun
    BY <1>5, BatchProgress
  <1>6. CASE run' = [[run EXCEPT !.records = rest] EXCEPT !.pending = entries]
             /\ UNCHANGED <<refVars, storeVars>>
    <2>1. entries \in EntryLists
      BY <1>0, <1>2, <1>3 DEF EntryLists
    <2>2. /\ run'.at = "append" /\ run'.head = run.head /\ run'.root = run.root
          /\ run'.pending = entries /\ run'.records = rest
      BY <1>0, <1>6 DEF RunStates
    <2>3. ref_file' = ref_file
      BY <1>6 DEF refVars
    <2>4. RunPublishes(X)'
      BY <1>4, <2>2, <2>3, PublishesStays DEF RunAppends
    <2>5. PICK a : a = Published!Entries(run.head)
      OBVIOUS
    <2>6. a \in EntryLists
      BY <1>0, <2>5, EntriesType
    <2>7. a \o (entries \o rest) = a \o (run.pending \o run.records)
      <3>1. PICK p, s : p = run.pending /\ s = run.records
        OBVIOUS
      <3>2. p \in EntryLists /\ s \in EntryLists /\ s # <<>>
        BY <1>0, <3>1
      <3>3. a \o (Append(p, Head(s)) \o Tail(s)) = a \o (p \o s)
        BY <2>6, <3>2, RecordMoves
      <3> QED BY <1>1, <1>3, <3>1, <3>3
    <2>8. LoadedRefs' = LoadedRefs
      BY <2>3 DEF LoadedRefs
    <2>9. RunAppends(X)'
      BY <1>4, <2>2, <2>4, <2>5, <2>7, <2>8 DEF RunAppends
    <2> QED BY <2>2, <2>9 DEF RunProgress
  <1>7. CASE StoreJournalBlock([[run EXCEPT !.records = rest] EXCEPT !.pending = <<first>>])
    <2>1. PICK next : next = [[run EXCEPT !.records = rest] EXCEPT !.pending = <<first>>]
      OBVIOUS
    <2>2. /\ next \in RunStates /\ next.at = "append" /\ next.root = run.root
          /\ next.pending = <<first>> /\ next.records = rest
      BY <1>0, <1>2, <2>1 DEF RunStates
    <2>3. StoreJournalBlock(next)
      BY <1>7, <2>1
    <2> QED BY <1>0, <1>2, <1>4, <2>2, <2>3, StoreProgress
  <1> QED BY <1>1, <1>3, <1>5, <1>6, <1>7 DEF AppendRecord, RunFails

\* What is committed is the loaded journal followed by the whole publication.
LEMMA FlushProgress ==
    ASSUME RunSound, RunProgress, FilesSound, FlushPending
    PROVE  RunProgress'
  <1>0. /\ run \in RunStates /\ run.at = "append" /\ run.records = <<>>
        /\ run.pending \in EntryLists /\ run.head \in JournalChains /\ <<>> \in EntryLists
    BY DEF FlushPending, At, RunSound, RunStates, EntryLists
  <1>1. PICK X : RunAppends(X)
    BY <1>0 DEF RunProgress
  <1>2. <<>> \o <<>> = <<>>
    BY <1>0, RecordsMove
  <1>3. CASE run.pending = <<>>
    <2>1. run' = [run EXCEPT !.at = "commit"] /\ ref_file' = ref_file
      BY <1>3 DEF FlushPending, refVars
    <2>2. /\ run'.at = "commit" /\ run'.head = run.head /\ run'.root = run.root
          /\ run'.pending = <<>>
      BY <1>0, <1>3, <2>1 DEF RunStates
    <2>3. RunPublishes(X)'
      BY <1>1, <2>1, <2>2, PublishesStays DEF RunAppends
    <2>4. PICK a : a = Published!Entries(run.head)
      OBVIOUS
    <2>5. a \in EntryLists
      BY <1>0, <2>4, EntriesType
    <2>6. a = Published!Entries(LoadedRefs.head) \o X
      BY <1>0, <1>1, <1>3, <2>4, <2>5, RecordsMove DEF RunAppends
    <2>7. LoadedRefs' = LoadedRefs
      BY <2>1 DEF LoadedRefs
    <2>8. RunCommits(X)'
      BY <1>1, <2>2, <2>3, <2>4, <2>6, <2>7 DEF RunCommits, RunAppends
    <2> QED BY <2>2, <2>8 DEF RunProgress
  <1>4. CASE run.pending # <<>>
    <2>1. PICK next : next = [run EXCEPT !.at = "commit", !.pending = <<>>]
      OBVIOUS
    <2>2. StoreJournalBlock(next)
      BY <1>4, <2>1 DEF FlushPending
    <2>3. /\ next \in RunStates /\ next.at = "commit" /\ next.root = run.root
          /\ next.pending = <<>> /\ next.records = <<>>
      BY <1>0, <2>1 DEF RunStates, RunSteps
    <2> QED BY <1>0, <1>1, <1>2, <2>2, <2>3, StoreProgress
  <1> QED BY <1>3, <1>4

\* Clustering is over every input of the loaded journal.
LEMMA ReplayProgress ==
    ASSUME RunSound, RunProgress, FilesSound, Replay
    PROVE  RunProgress'
  <1>0. run \in RunStates /\ run.at = "replay" /\ ref_file' = ref_file
    BY DEF Replay, At, RunSound, refVars, InterruptSeen
  <1>1. CASE run' = NoRun
    BY <1>1, BatchProgress
  <1>2. CASE /\ run' = [run EXCEPT !.at = "finalize",
                                   !.root = Published!InputLeaves(LoadedRefs.head)]
             /\ Replayable(LoadedRefs.head)
    <2>1. PICK tree : tree = Published!InputLeaves(LoadedRefs.head)
      OBVIOUS
    <2>2. tree # NoRoot
      BY <1>2, <2>1 DEF Replayable, NoRoot
    <2>3. run'.at = "finalize" /\ run'.root = tree /\ run'.pending = run.pending
      BY <1>0, <1>2, <2>1 DEF RunStates
    <2>4. run.pending = <<>> /\ LoadedRefs' = LoadedRefs
      BY <1>0 DEF RunProgress, LoadedRefs
    <2> QED BY <2>1, <2>2, <2>3, <2>4 DEF RunProgress
  <1> QED BY <1>1, <1>2 DEF Replay, InterruptSeen, RunFails

\* The outcome that is published is that of the replayed leaves.
LEMMA FinalizeProgress ==
    ASSUME RunSound, RunProgress, RunSound', Finalize
    PROVE  RunProgress'
  <1>0. run \in RunStates /\ run.at = "finalize" /\ ref_file' = ref_file
    BY DEF Finalize, At, RunSound, refVars, InterruptSeen
  <1>1. CASE run' = NoRun
    BY <1>1, BatchProgress
  <1>2. CASE run' = [run EXCEPT !.at = "publish", !.records = Published!OutcomeRecords(run.root)]
    <2>1. PICK q : q = Published!OutcomeRecords(run.root)
      OBVIOUS
    <2>2. run' = [run EXCEPT !.at = "publish", !.records = q]
      BY <1>2, <2>1
    <2>3. /\ run'.at = "publish" /\ run'.root = run.root /\ run'.pending = run.pending
          /\ run'.records = q
      BY <1>0, <2>2 DEF RunStates
    <2>4. q # <<>>
      <3>1. 1 \in 1..OutcomeFragments
        BY IndexRunAssumption
      <3>2. DOMAIN q = 1..OutcomeFragments
        BY <2>1 DEF Published!OutcomeRecords
      <3>3. DOMAIN <<>> = {}
        OBVIOUS
      <3> QED BY <3>1, <3>2, <3>3
    <2>5. q \in EntryLists
      BY <2>3 DEF RunSound
    <2>6. /\ run.root # NoRoot /\ run.root = Published!InputLeaves(LoadedRefs.head)
          /\ run.pending = <<>> /\ LoadedRefs' = LoadedRefs
      BY <1>0 DEF RunProgress, LoadedRefs
    <2>7. RunPublishes(run.records)'
      BY <2>1, <2>3, <2>4, <2>5, <2>6 DEF RunPublishes
    <2> QED BY <2>3, <2>6, <2>7 DEF RunProgress
  <1> QED BY <1>1, <1>2 DEF Finalize, InterruptSeen, RunFails

\* While the refs are written the run has nothing else to publish; after that it
\* takes the next batch, or is over.
LEMMA WriteProgress ==
    ASSUME RunSound, RunProgress, Commit \/ WriteRefs \/ Committed \/ CommitFails
    PROVE  RunProgress'
  <1>0. run \in RunStates
    BY DEF RunSound
  <1>1. CASE run' = NoRun
    BY <1>1, BatchProgress
  <1>2. CASE run.at = "commit" /\ run' = [run EXCEPT !.at = "writing"]
    <2>1. run'.at = "writing" /\ run'.pending = <<>>
      BY <1>0, <1>2 DEF RunProgress, RunStates
    <2> QED BY <2>1 DEF RunProgress
  <1>3. CASE run.at = "writing" /\ run' = run
    <2>1. run'.at = "writing" /\ run'.pending = <<>>
      BY <1>0, <1>3 DEF RunProgress
    <2> QED BY <2>1 DEF RunProgress
  <1>4. CASE /\ run.at = "writing" /\ run.root = NoRoot
             /\ run' = [run EXCEPT !.at = "batch", !.records = <<>>, !.head = NoHead]
    <2>1. run'.at = "batch" /\ run'.pending = <<>> /\ run'.root = NoRoot
      BY <1>0, <1>4 DEF RunProgress, RunStates
    <2> QED BY <2>1 DEF RunProgress
  <1> QED
    BY <1>1, <1>2, <1>3, <1>4
    DEF Commit, WriteRefs, Committed, CommitFails, InterruptSeen, RunFails, At

-----------------------------------------------------------------------------
(* The write of the refs is one publication. *)

\* update_mutable_ref_store loads the refs again: they are the ones that the run
\* has extended, and the new ones are one publication away.
LEMMA CommitPublishes ==
    ASSUME StoreInv, RunProgress, Commit, run'.at = "writing"
    PROVE  /\ WriteOrder' /\ Authoritative' = Authoritative
           /\ PublicationStep(Authoritative, writing'.refs)
  <1>0. /\ run \in RunStates /\ run.at = "commit" /\ run.head \in JournalChains
        /\ writing.at = "idle"
    BY DEF Commit, At, StoreInv, RunSound, WriteOfRun, RunStates
  <1>1. /\ BeginWrite(ApplyUpdate(LoadedRefs, [root |-> run.root, head |-> run.head]))
        /\ UNCHANGED <<ref_file, temp_file, backup_file>>
    BY DEF Commit, InterruptSeen, RunFails, NoRun, BeginWrite
  <1>2. PICK old, new : /\ old = LoadedRefs
                        /\ new = ApplyUpdate(LoadedRefs, [root |-> run.root, head |-> run.head])
    OBVIOUS
  <1>3. PICK to \in {"create_temp", "put"} :
           /\ writing' = [NotWriting EXCEPT !.at = to, !.refs = new]
           /\ to = "create_temp" => Location = "LocalFile"
    BY <1>1, <1>2 DEF BeginWrite
  <1>4. writing'.at = to /\ writing'.refs = new
    BY <1>3 DEF NotWriting
  <1>5. WriteOrder'
    BY <1>3, <1>4 DEF WriteOrder, LocalSteps
  <1>6. Authoritative = old /\ Authoritative' = old
    BY <1>0, <1>1, <1>2, <1>4 DEF Authoritative, LoadedRefs
  <1>7. PICK X : RunCommits(X)
    BY <1>0 DEF RunProgress
  <1>8. old \in RefStates /\ old.head \in JournalChains
    BY <1>2 DEF StoreInv, FilesSound, RefsStored, HeadStored, LoadedRefs
  <1>9. /\ X \in EntryLists /\ X # <<>> /\ IsPrefix(old.head, run.head)
        /\ Published!Entries(run.head) = Published!Entries(old.head) \o X
    BY <1>2, <1>7 DEF RunCommits, RunPublishes
  <1>10. run.head # old.head
    <2>1. PICK a : a = Published!Entries(old.head)
      OBVIOUS
    <2>2. a \in EntryLists
      BY <1>8, <2>1, EntriesType
    <2>3. a \o X # a
      <3>1. Len(a \o X) = Len(a) + Len(X) /\ Len(a) \in Nat /\ Len(X) \in Nat /\ Len(X) # 0
        BY <1>9, <2>2 DEF EntryLists
      <3> QED BY <3>1
    <2> QED BY <1>9, <2>1, <2>3
  <1>11. run.head # NoHead
    <2>1. ASSUME run.head = <<>> PROVE FALSE
      <3>1. Len(old.head) = 0
        <4>1. Len(old.head) <= Len(run.head) /\ Len(old.head) \in Nat
          BY <1>0, <1>8, <1>9, PrefixIs DEF JournalChains
        <4> QED BY <2>1, <4>1
      <3>2. old.head = <<>>
        BY <1>8, <3>1 DEF JournalChains
      <3> QED BY <1>10, <2>1, <3>2
    <2> QED BY <2>1 DEF NoHead
  <1>12. /\ new.head = run.head
         /\ new.root = IF run.root = NoRoot THEN old.root ELSE run.root
    BY <1>2, <1>11 DEF ApplyUpdate
  <1>13. Publishes(old, new, X)
    <2>1. CASE run.root = NoRoot /\ \A i \in 1..Len(X) : X[i].fragment = 0
      BY <1>9, <1>12, <2>1 DEF Publishes
    <2>2. CASE /\ run.root # NoRoot
               /\ run.root = Published!InputLeaves(LoadedRefs.head)
               /\ X = Published!OutcomeRecords(run.root)
      BY <1>2, <1>9, <1>12, <2>2 DEF Publishes
    <2> QED BY <1>7, <2>1, <2>2 DEF RunCommits, RunPublishes
  <1>14. PublicationStep(old, new)
    BY <1>9, <1>10, <1>12, <1>13 DEF PublicationStep
  <1> QED BY <1>4, <1>5, <1>6, <1>14

\* Initially nothing is published and nothing acknowledged.
LEMMA HistoryInit ==
    ASSUME Init
    PROVE  HistoryInv
  <1>1. StoreInv
    BY StoreInvInit
  <1>2. /\ writing.at = "idle" /\ run.at = "idle" /\ run.pending = <<>> /\ acknowledged = {}
        /\ ref_file.refs.root = {}
    BY DEF Init, RefStoreInit, NotWriting, NoRun, NoFile, DefaultRefs, NoRoot
  <1>3. RunProgress /\ WriteOrder /\ WritePublishes
    BY <1>2 DEF RunProgress, WriteOrder, WritePublishes, LocalSteps
  <1>4. HistoryKept
    BY <1>2 DEF HistoryKept, Authoritative
  <1> QED BY <1>1, <1>3, <1>4 DEF HistoryInv

\* Every step keeps the refs or publishes, and the invariant with them.
LEMMA HistoryInvStep ==
    ASSUME ExchangeIsSafe, HistoryInv, [Next]_vars
    PROVE  /\ HistoryInv'
           /\ Authoritative' = Authoritative \/ PublicationStep(Authoritative, Authoritative')
  <1> USE DEF HistoryInv
  <1>0. StoreInv' /\ FilesSound /\ FilesSound' /\ RunSound /\ RunSound'
    BY StoreInvStep DEF StoreInv
  <1> SUFFICES /\ RunProgress' /\ WriteOrder' /\ WritePublishes'
               /\ Authoritative' = Authoritative \/ PublicationStep(Authoritative, Authoritative')
               /\ acknowledged' \subseteq acknowledged \cup {Authoritative'}
    BY <1>0, HistoryStep
  <1>1. ASSUME UNCHANGED <<refVars, acknowledged>>, RunProgress',
               run'.at = "writing" => run.at = "writing"
        PROVE  /\ RunProgress' /\ WriteOrder' /\ WritePublishes'
               /\ Authoritative' = Authoritative
               /\ acknowledged' \subseteq acknowledged \cup {Authoritative'}
    <2>1. Authoritative' = Authoritative
      BY <1>1 DEF Authoritative, refVars
    <2>2. writing' = writing /\ temp_file' = temp_file /\ ref_file' = ref_file
      BY <1>1 DEF refVars
    <2>3. WriteOrder'
      BY <2>2 DEF WriteOrder
    <2>4. WritePublishes'
      BY <1>1, <2>1, <2>2 DEF WritePublishes
    <2> QED BY <1>1, <2>1, <2>3, <2>4
  <1>2. ASSUME EndWrite, RunProgress', run'.at # "writing", Authoritative' = Authoritative,
               acknowledged' \subseteq acknowledged \cup {Authoritative'}
        PROVE  /\ RunProgress' /\ WriteOrder' /\ WritePublishes'
               /\ Authoritative' = Authoritative
               /\ acknowledged' \subseteq acknowledged \cup {Authoritative'}
    <2>1. writing'.at = "idle"
      BY <1>2 DEF EndWrite, NotWriting
    <2> QED BY <1>2, <2>1 DEF WriteOrder, WritePublishes, LocalSteps
  <1>3. CASE UNCHANGED vars \/ Interrupt
    <2>1. UNCHANGED <<refVars, acknowledged, run>>
      BY <1>3 DEF vars, Interrupt
    <2>2. RunProgress'
      <3>1. LoadedRefs' = LoadedRefs
        BY <2>1 DEF refVars, LoadedRefs
      <3>2. \A X : (RunPublishes(X) <=> RunPublishes(X)')
        BY <2>1, <3>1 DEF RunPublishes
      <3>3. \A X : (RunAppends(X) => RunAppends(X)') /\ (RunCommits(X) => RunCommits(X)')
        BY <2>1, <3>1, <3>2 DEF RunAppends, RunCommits
      <3> QED BY <2>1, <3>1, <3>2, <3>3 DEF RunProgress
    <2> QED BY <1>1, <2>1, <2>2
  <1>4. CASE \E stage \in Stages, request \in Requests : StartRun(stage, request)
    <2>1. PICK stage \in Stages, request \in Requests : StartRun(stage, request)
      BY <1>4
    <2>2. UNCHANGED <<refVars, acknowledged>> /\ run'.at # "writing"
      BY <2>1, StartSound DEF StartRun
    <2>3. RunProgress'
      BY <1>0, <1>4, BatchProgress
    <2> QED BY <1>1, <2>2, <2>3
  <1>5. CASE /\ NextBatch \/ PersistStagedBlocks \/ Publish \/ AppendRecord \/ FlushPending
                \/ Replay \/ Finalize
             /\ UNCHANGED <<interrupted, runs, acknowledged>>
    <2>1. RunProgress'
      BY <1>0, <1>5, BatchProgress, PersistProgress, PublishProgress, AppendProgress,
         FlushProgress, ReplayProgress, FinalizeProgress
    <2>2. UNCHANGED refVars
      BY <1>5 DEF NextBatch, PersistStagedBlocks, Publish, AppendRecord, FlushPending, Replay,
         Finalize, InterruptSeen, StoreJournalBlock
    <2>3. run'.at # "writing"
      <3>1. run.at # "writing"
        BY <1>5 DEF NextBatch, PersistStagedBlocks, Publish, AppendRecord, FlushPending, Replay,
           Finalize, At
      <3>2. writing.at = "idle"
        BY <3>1 DEF StoreInv, WriteOfRun
      <3>3. writing'.at = "idle"
        BY <2>2, <3>2 DEF refVars
      <3> QED BY <1>0, <3>3 DEF StoreInv, WriteOfRun
    <2> QED BY <1>1, <1>5, <2>1, <2>2, <2>3
  <1>6. CASE Commit /\ UNCHANGED acknowledged
    <2>1. RunProgress'
      BY <1>0, <1>6, WriteProgress
    <2>2. CASE run'.at = "writing"
      BY <1>6, <2>1, <2>2, CommitPublishes DEF WritePublishes
    <2>3. CASE run'.at # "writing"
      <3>1. UNCHANGED refVars
        <4>1. run' # [run EXCEPT !.at = "writing"]
          BY <1>0, <2>3 DEF RunSound, RunStates
        <4> QED BY <1>6, <4>1 DEF Commit, InterruptSeen
      <3> QED BY <1>1, <1>6, <2>1, <2>3, <3>1
    <2> QED BY <2>2, <2>3
  <1>7. CASE WriteRefs /\ UNCHANGED acknowledged
    <2>1. RunProgress'
      BY <1>0, <1>7, WriteProgress
    <2>2. run.at = "writing" /\ run' = run /\ WriteStep
      BY <1>7 DEF WriteRefs, At
    <2>3. WriteSound
      BY DEF StoreInv
    <2>4. /\ WriteOrder' /\ writing'.refs = writing.refs
          /\ Authoritative' = Authoritative \/ Authoritative' = writing.refs
      BY <2>2, <2>3, ExchangeStep
    <2>5. Authoritative = writing.refs \/ PublicationStep(Authoritative, writing.refs)
      BY <2>2 DEF WritePublishes
    <2>6. PICK old, mid, new : old = Authoritative /\ mid = writing.refs /\ new = Authoritative'
      OBVIOUS
    <2>7. (new = old \/ new = mid) /\ (old = mid \/ PublicationStep(old, mid))
      BY <2>4, <2>5, <2>6
    <2>8. new = mid \/ PublicationStep(new, mid)
      BY <2>7
    <2>9. WritePublishes'
      BY <2>4, <2>6, <2>8 DEF WritePublishes
    <2>10. new = old \/ PublicationStep(old, new)
      BY <2>7
    <2> QED BY <1>7, <2>1, <2>4, <2>6, <2>9, <2>10
  <1>8. CASE Committed
    <2>1. RunProgress'
      BY <1>0, <1>8, WriteProgress
    <2>2. EndWrite /\ writing.at = "written" /\ acknowledged' = acknowledged \cup {writing.refs}
      BY <1>8 DEF Committed
    <2>3. run'.at # "writing"
      BY <1>0, <1>8, CommittedSound
    <2>4. Authoritative' = ref_file.refs /\ Authoritative = ref_file.refs
      BY <2>2 DEF EndWrite, NotWriting, Authoritative
    <2>5. ref_file.refs = writing.refs
      BY <2>2 DEF WriteOrder
    <2>6. acknowledged' \subseteq acknowledged \cup {Authoritative'}
      BY <2>2, <2>4, <2>5
    <2> QED BY <1>2, <2>1, <2>2, <2>3, <2>4, <2>6
  <1>9. CASE CommitFails /\ UNCHANGED acknowledged
    <2>1. RunProgress' /\ run'.at # "writing"
      BY <1>0, <1>9, WriteProgress DEF CommitFails, RunFails, NoRun
    <2>2. EndWrite /\ writing.at = "failed"
      BY <1>9 DEF CommitFails
    <2>3. Authoritative' = ref_file.refs /\ Authoritative = ref_file.refs
      BY <2>2 DEF EndWrite, NotWriting, Authoritative
    <2> QED BY <1>2, <1>9, <2>1, <2>2, <2>3
  <1>10. CASE Crash
    <2>1. RunProgress' /\ run'.at # "writing"
      BY <1>0, <1>10, BatchProgress DEF Crash, NoRun
    <2>2. EndWrite /\ MayCrash /\ UNCHANGED acknowledged
      BY <1>10 DEF Crash
    <2>3. writing.at \notin LocalSteps
      BY <2>2 DEF ExchangeIsSafe, WriteOrder
    <2>4. Authoritative' = ref_file.refs /\ Authoritative = ref_file.refs
      BY <2>2, <2>3 DEF EndWrite, NotWriting, Authoritative, LocalSteps
    <2> QED BY <1>2, <2>1, <2>2, <2>4
  <1> QED BY <1>3, <1>4, <1>5, <1>6, <1>7, <1>8, <1>9, <1>10 DEF Next, RunStep, Finished

\* With the refs in a blob or a table and a crash anywhere, or in a file that no
\* crash and no failed restore takes away between its two renames: whatever runs
\* fail, are interrupted or are killed, the journal that a reported publication
\* committed was only extended, and its root was replaced by a larger one.
THEOREM AcknowledgedRefsSafe ==
    ASSUME ExchangeIsSafe
    PROVE  Spec => []AcknowledgedSurvives
  <1>1. Init => HistoryInv
    BY HistoryInit
  <1>2. HistoryInv /\ [Next]_vars => HistoryInv'
    BY HistoryInvStep
  <1>3. HistoryInv => AcknowledgedSurvives
    <2> SUFFICES ASSUME HistoryInv, At("idle") PROVE AcknowledgedSurvives
      BY DEF AcknowledgedSurvives
    <2>1. writing.at = "idle"
      BY DEF HistoryInv, StoreInv, WriteOfRun, At
    <2>2. Authoritative = LoadedRefs
      BY <2>1 DEF Authoritative, LoadedRefs
    <2> QED BY <2>2 DEF HistoryInv, HistoryKept, AcknowledgedSurvives
  <1> QED BY <1>1, <1>2, <1>3, PTL DEF Spec

\* Under the same condition the refs a reader finds implement the append-only
\* history of PublishedIndex: each step is no publication, or one batch of inputs,
\* or one clustering outcome over all inputs before it, as a whole.
THEOREM RefsRefinePublishedIndex ==
    ASSUME ExchangeIsSafe
    PROVE  Spec => PublishedRefs
  <1>1. Init => HistoryInv
    BY HistoryInit
  <1>2. HistoryInv /\ [Next]_vars => HistoryInv'
    BY HistoryInvStep
  <1>3. Init => Published!PublishedInit
    BY DEF Init, RefStoreInit, NotWriting, NoFile, DefaultRefs, NoRoot, NoHead, Authoritative,
       Published!PublishedInit
  <1>4. HistoryInv /\ HistoryInv' /\ [Next]_vars =>
           [Published!PublishedNext]_<<Authoritative.head, Authoritative.root>>
    <2> SUFFICES ASSUME HistoryInv, HistoryInv', [Next]_vars
                 PROVE  [Published!PublishedNext]_<<Authoritative.head, Authoritative.root>>
      OBVIOUS
    <2>1. FilesSound /\ FilesSound'
      BY DEF HistoryInv, StoreInv
    <2>2. Authoritative' = Authoritative \/ PublicationStep(Authoritative, Authoritative')
      BY HistoryInvStep
    <2> QED BY <2>1, <2>2, PublicationIsAbstract
  <1> QED BY <1>1, <1>2, <1>3, <1>4, PTL DEF Spec, PublishedRefs, Published!PublishedSpec

-----------------------------------------------------------------------------
(* Keys of replayed items: texts spelt word by word. *)

Texts == Seq(Nat)

\* One text after another.
Cat(a, b) == a \o b

\* f gives the text of each prefix of a list of words.
Spells(f, words) ==
    /\ f \in [0..Len(words) -> Texts] /\ f[0] = <<>>
    /\ \A i \in 1..Len(words) : f[i] = Cat(f[i - 1], words[i])

\* The same up to the n-th word.
SpellsUpTo(f, words, n) ==
    /\ f \in [0..n -> Texts] /\ f[0] = <<>>
    /\ \A i \in 1..n : f[i] = Cat(f[i - 1], words[i])

\* The prefixes can be spelt, up to any length.
LEMMA SpellingExists ==
    ASSUME NEW words \in Seq(Texts)
    PROVE  \A n \in 0..Len(words) : \E f : SpellsUpTo(f, words, n)
  <1>1. PICK S : S = {n \in Nat : n <= Len(words) => \E f : SpellsUpTo(f, words, n)}
    OBVIOUS
  <1>2. 0 \in S
    <2>1. PICK f : f = [i \in 0..0 |-> <<>>]
      OBVIOUS
    <2>2. SpellsUpTo(f, words, 0)
      <3>1. f \in [0..0 -> Texts] /\ f[0] = <<>>
        BY <2>1 DEF Texts
      <3> QED BY <3>1 DEF SpellsUpTo
    <2> QED BY <1>1, <2>2
  <1>3. ASSUME NEW n \in S PROVE n + 1 \in S
    <2>1. n \in Nat
      BY <1>1
    <2> SUFFICES ASSUME n + 1 <= Len(words) PROVE \E g : SpellsUpTo(g, words, n + 1)
      BY <1>1, <2>1
    <2>2. PICK f : SpellsUpTo(f, words, n)
      BY <1>1, <2>1
    <2>3. PICK d : d = Cat(f[n], words[n + 1])
      OBVIOUS
    <2>4. d \in Texts
      <3>1. f[n] \in Texts
        BY <2>1, <2>2 DEF SpellsUpTo
      <3>2. words[n + 1] \in Texts
        BY <2>1
      <3> QED BY <2>3, <3>1, <3>2 DEF Texts, Cat
    <2>5. PICK g : g = [i \in 0..(n + 1) |-> IF i = n + 1 THEN d ELSE f[i]]
      OBVIOUS
    <2>6. g \in [0..(n + 1) -> Texts]
      BY <2>1, <2>2, <2>4, <2>5 DEF SpellsUpTo
    <2>7. g[0] = <<>>
      BY <2>1, <2>2, <2>5 DEF SpellsUpTo
    <2>8. ASSUME NEW i \in 1..(n + 1) PROVE g[i] = Cat(g[i - 1], words[i])
      <3>1. CASE i = n + 1
        <4>1. g[i] = d /\ i - 1 = n
          BY <2>1, <2>5, <3>1
        <4>2. g[n] = f[n]
          BY <2>1, <2>5
        <4> QED BY <2>3, <3>1, <4>1, <4>2
      <3>2. CASE i # n + 1
        <4>1. i \in 1..n /\ i - 1 \in 0..n
          BY <2>1, <3>2
        <4>2. g[i] = f[i] /\ g[i - 1] = f[i - 1]
          BY <2>1, <2>5, <3>2, <4>1
        <4> QED BY <2>2, <4>1, <4>2 DEF SpellsUpTo
      <3> QED BY <3>1, <3>2
    <2> QED BY <2>6, <2>7, <2>8 DEF SpellsUpTo
  <1>4. S = Nat
    BY <1>1, <1>2, <1>3, SetInduction
  <1> QED BY <1>1, <1>4

\* FlattenSeq spells its words one after the other.
LEMMA FlatIs ==
    ASSUME NEW words \in Seq(Texts)
    PROVE  \E f : Spells(f, words) /\ FlattenSeq(words) = f[Len(words)]
  <1> DEFINE F(g) == [i \in 1..Len(words) |-> IF i = 1 THEN words[i] ELSE g[i - 1] \o words[i]]
             flat == CHOOSE g : g = F(g)
  <1>1. Len(words) \in Nat
    OBVIOUS
  <1>2. PICK f : SpellsUpTo(f, words, Len(words))
    BY <1>1, SpellingExists
  <1>3. Spells(f, words)
    BY <1>2 DEF Spells, SpellsUpTo
  <1>4. CASE Len(words) = 0
    <2>1. words = <<>>
      BY <1>4
    <2>2. FlattenSeq(words) = <<>>
      BY <1>4, <2>1 DEF FlattenSeq
    <2> QED BY <1>3, <1>4, <2>2 DEF Spells
  <1>5. CASE Len(words) # 0
    <2>1. PICK h : h = [i \in 1..Len(words) |-> f[i]]
      OBVIOUS
    <2>2. h = F(h)
      <3>1. ASSUME NEW i \in 1..Len(words)
            PROVE  h[i] = IF i = 1 THEN words[i] ELSE h[i - 1] \o words[i]
        <4>1. h[i] = f[i - 1] \o words[i]
          BY <1>2, <2>1 DEF SpellsUpTo, Cat
        <4>2. CASE i = 1
          <5>1. words[i] \in Texts
            OBVIOUS
          <5>2. f[i - 1] = <<>>
            BY <1>2, <4>2 DEF SpellsUpTo
          <5>3. <<>> \o words[i] = words[i]
            BY <5>1, ConcatEmptySeq DEF Texts
          <5> QED BY <4>1, <4>2, <5>2, <5>3
        <4>3. CASE i # 1
          <5>1. i - 1 \in 1..Len(words)
            BY <4>3
          <5> QED BY <2>1, <4>1, <4>3, <5>1
        <4> QED BY <4>2, <4>3
      <3> QED BY <2>1, <3>1
    <2>3. flat = F(flat)
      BY <2>2
    <2>4. FlattenSeq(words) = flat[Len(words)]
      BY <1>5 DEF FlattenSeq
    <2> HIDE DEF flat
    <2>5. \A i \in 1..Len(words) : flat[i] = IF i = 1 THEN words[i] ELSE flat[i - 1] \o words[i]
      BY <2>3
    <2>6. \A i \in 1..Len(words) : h[i] = IF i = 1 THEN words[i] ELSE h[i - 1] \o words[i]
      BY <2>2
    <2>7. PICK S : S = {i \in Nat : i + 1 <= Len(words) => flat[i + 1] = h[i + 1]}
      OBVIOUS
    <2>8. 0 \in S
      <3>1. 1 \in 1..Len(words) /\ 0 + 1 = 1
        BY <1>1, <1>5
      <3>2. flat[1] = words[1] /\ h[1] = words[1]
        BY <2>5, <2>6, <3>1
      <3> QED BY <2>7, <3>1, <3>2
    <2>9. ASSUME NEW i \in S PROVE i + 1 \in S
      <3>1. i \in Nat
        BY <2>7
      <3> SUFFICES ASSUME (i + 1) + 1 <= Len(words) PROVE flat[(i + 1) + 1] = h[(i + 1) + 1]
        BY <2>7, <3>1
      <3>2. PICK k : k = (i + 1) + 1
        OBVIOUS
      <3>3. k \in 1..Len(words) /\ k # 1 /\ k - 1 = i + 1 /\ i + 1 <= Len(words)
        BY <1>1, <3>1, <3>2
      <3>4. flat[k - 1] = h[k - 1]
        BY <2>7, <3>1, <3>3
      <3>5. flat[k] = flat[k - 1] \o words[k] /\ h[k] = h[k - 1] \o words[k]
        BY <2>5, <2>6, <3>3
      <3> QED BY <3>2, <3>4, <3>5
    <2>10. S = Nat
      BY <2>7, <2>8, <2>9, SetInduction
    <2>11. Len(words) - 1 \in S /\ (Len(words) - 1) + 1 = Len(words)
      BY <1>1, <1>5, <2>10
    <2>12. flat[Len(words)] = h[Len(words)]
      BY <1>1, <2>7, <2>11
    <2>13. h[Len(words)] = f[Len(words)]
      BY <1>1, <1>5, <2>1
    <2> QED BY <1>3, <2>4, <2>12, <2>13
  <1> QED BY <1>4, <1>5

\* What follows equal texts is equal.
LEMMA Cancel ==
    ASSUME NEW a \in Texts, NEW b \in Texts, NEW c \in Texts, Cat(a, b) = Cat(a, c)
    PROVE  b = c
  <1> USE DEF Texts, Cat
  <1>1. Len(b) = Len(c)
    <2>1. Len(a \o b) = Len(a) + Len(b) /\ Len(a \o c) = Len(a) + Len(c)
      OBVIOUS
    <2> QED BY <2>1
  <1>2. ASSUME NEW i \in 1..Len(b) PROVE b[i] = c[i]
    <2>1. (a \o b)[Len(a) + i] = b[i] /\ (a \o c)[Len(a) + i] = c[i]
      BY <1>1
    <2> QED BY <2>1
  <1> QED BY <1>1, <1>2, SeqEqual

\* Texts put one after another are a text, however they are put together.
LEMMA CatAssoc ==
    ASSUME NEW a \in Texts, NEW b \in Texts, NEW c \in Texts
    PROVE  Cat(a, b) \in Texts /\ Cat(Cat(a, b), c) = Cat(a, Cat(b, c))
  <1> USE DEF Texts, Cat
  <1>1. a \in Seq(Nat) /\ b \in Seq(Nat) /\ c \in Seq(Nat)
    OBVIOUS
  <1>2. a \o b \in Seq(Nat)
    OBVIOUS
  <1>3. (a \o b) \o c = a \o (b \o c)
    BY <1>1, ConcatAssociative
  <1> QED BY <1>2, <1>3

\* The empty text adds nothing.
LEMMA CatNothing ==
    ASSUME NEW a \in Texts
    PROVE  <<>> \in Texts /\ Cat(a, <<>>) = a /\ Cat(<<>>, a) = a
  BY ConcatEmptySeq DEF Texts, Cat

\* A text built up to the left is the same built up to the right.
LEMMA BuiltUp ==
    ASSUME NEW a \in Texts, NEW b \in Texts, NEW c \in Texts, NEW d \in Texts
    PROVE  Cat(Cat(Cat(a, b), c), d) = Cat(a, Cat(b, Cat(c, d)))
  <1>1. Cat(b, c) \in Texts /\ Cat(Cat(a, b), c) = Cat(a, Cat(b, c))
    BY CatAssoc
  <1>2. Cat(Cat(a, Cat(b, c)), d) = Cat(a, Cat(Cat(b, c), d))
    BY <1>1, CatAssoc
  <1>3. Cat(Cat(b, c), d) = Cat(b, Cat(c, d))
    BY CatAssoc
  <1> QED BY <1>1, <1>2, <1>3

\* Spelling any number of words is spelling some of them and then a text.
LEMMA SpellingSplits ==
    ASSUME NEW words \in Seq(Texts), NEW f, Spells(f, words), NEW i \in 0..Len(words)
    PROVE  \E rest \in Texts : f[Len(words)] = Cat(f[i], rest)
  <1>1. PICK S : S = {n \in Nat : i + n <= Len(words) =>
                                    \E rest \in Texts : f[i + n] = Cat(f[i], rest)}
    OBVIOUS
  <1>2. f[i] \in Texts
    BY DEF Spells
  <1>3. 0 \in S
    <2>1. f[i] = Cat(f[i], <<>>) /\ <<>> \in Texts
      BY <1>2, CatNothing
    <2>2. i + 0 = i
      OBVIOUS
    <2> QED BY <1>1, <2>1, <2>2
  <1>4. ASSUME NEW n \in S PROVE n + 1 \in S
    <2>1. n \in Nat
      BY <1>1
    <2> SUFFICES ASSUME i + (n + 1) <= Len(words)
                 PROVE  \E rest \in Texts : f[i + (n + 1)] = Cat(f[i], rest)
      BY <1>1, <2>1
    <2>2. PICK rest \in Texts : f[i + n] = Cat(f[i], rest)
      BY <1>1, <2>1
    <2>3. PICK k : k = i + (n + 1)
      OBVIOUS
    <2>4. k \in 1..Len(words) /\ k - 1 = i + n
      BY <2>1, <2>3
    <2>5. f[k] = Cat(Cat(f[i], rest), words[k])
      BY <2>2, <2>4 DEF Spells
    <2>6. words[k] \in Texts
      BY <2>4
    <2>7. Cat(rest, words[k]) \in Texts /\ f[k] = Cat(f[i], Cat(rest, words[k]))
      BY <1>2, <2>5, <2>6, CatAssoc
    <2> QED BY <2>3, <2>7
  <1>5. S = Nat
    BY <1>1, <1>3, <1>4, SetInduction
  <1>6. Len(words) - i \in S /\ i + (Len(words) - i) = Len(words)
    BY <1>5
  <1> QED BY <1>1, <1>6

\* Two words of one place that begin a common text are one word.
TellApart(u, v) ==
    \A i \in 1..Len(u) : i <= Len(v) =>
        \A s, t \in Texts : Cat(u[i], s) = Cat(v[i], t) => u[i] = v[i]

\* Two lists of words, each with what follows it, are spelt alike.
SpellOneText(u, v, f, g, r, q) ==
    /\ u \in Seq(Texts) /\ v \in Seq(Texts) /\ Spells(f, u) /\ Spells(g, v)
    /\ r \in Texts /\ q \in Texts /\ Cat(f[Len(u)], r) = Cat(g[Len(v)], q)
    /\ TellApart(u, v)

\* Two lists of such words that begin a common text agree as far as both go.
LEMMA WordsAgree ==
    ASSUME NEW u, NEW v, NEW f, NEW g, NEW r, NEW q, SpellOneText(u, v, f, g, r, q)
    PROVE  \A i \in 0..Len(u) : i <= Len(v) => f[i] = g[i] /\ (i # 0 => u[i] = v[i])
  <1>0. /\ u \in Seq(Texts) /\ v \in Seq(Texts) /\ Spells(f, u) /\ Spells(g, v)
        /\ r \in Texts /\ q \in Texts /\ Cat(f[Len(u)], r) = Cat(g[Len(v)], q) /\ TellApart(u, v)
    BY DEF SpellOneText
  <1>1. PICK S : S = {i \in Nat : i <= Len(u) /\ i <= Len(v) =>
                                    f[i] = g[i] /\ (i # 0 => u[i] = v[i])}
    OBVIOUS
  <1>2. 0 \in S
    BY <1>0, <1>1 DEF Spells
  <1>3. ASSUME NEW i \in S PROVE i + 1 \in S
    <2>1. i \in Nat
      BY <1>1
    <2> SUFFICES ASSUME i + 1 <= Len(u), i + 1 <= Len(v)
                 PROVE  f[i + 1] = g[i + 1] /\ u[i + 1] = v[i + 1]
      BY <1>0, <1>1, <2>1
    <2>2. PICK k : k = i + 1
      OBVIOUS
    <2>3. k \in 1..Len(u) /\ k \in 1..Len(v) /\ k - 1 = i /\ k <= Len(v)
      BY <1>0, <2>1, <2>2
    <2>4. f[i] = g[i]
      BY <1>0, <1>1, <2>1
    <2>5. i \in 0..Len(u) /\ k \in 0..Len(u) /\ k \in 0..Len(v)
      BY <1>0, <2>1, <2>2
    <2>6. PICK a \in Texts, w \in Texts, x \in Texts : a = f[i] /\ w = u[k] /\ x = v[k]
      <3>1. f[i] \in Texts /\ u[k] \in Texts /\ v[k] \in Texts
        <4>1. f \in [0..Len(u) -> Texts]
          BY <1>0 DEF Spells
        <4>2. u \in Seq(Texts) /\ v \in Seq(Texts)
          BY <1>0
        <4>3. u[k] \in Texts /\ v[k] \in Texts
          BY <2>3, <4>2
        <4> QED BY <2>5, <4>1, <4>3
      <3> QED BY <3>1
    <2>7. f[k] = Cat(a, w) /\ g[k] = Cat(a, x)
      BY <1>0, <2>3, <2>4, <2>6 DEF Spells
    <2>8. PICK s \in Texts : f[Len(u)] = Cat(f[k], s)
      BY <1>0, <2>5, SpellingSplits
    <2>9. PICK t \in Texts : g[Len(v)] = Cat(g[k], t)
      BY <1>0, <2>5, SpellingSplits
    <2>10. r \in Texts /\ q \in Texts
      BY <1>0
    <2>11. Cat(Cat(Cat(a, w), s), r) = Cat(Cat(Cat(a, x), t), q)
      BY <1>0, <2>7, <2>8, <2>9
    <2>12. Cat(a, Cat(w, Cat(s, r))) = Cat(a, Cat(x, Cat(t, q)))
      BY <2>10, <2>11, BuiltUp
    <2>13. Cat(s, r) \in Texts /\ Cat(t, q) \in Texts
      BY <2>10, CatAssoc
    <2>14. Cat(w, Cat(s, r)) \in Texts /\ Cat(x, Cat(t, q)) \in Texts
      BY <2>13, CatAssoc
    <2>15. Cat(w, Cat(s, r)) = Cat(x, Cat(t, q))
      BY <2>12, <2>14, Cancel
    <2>16. u[k] = v[k]
      BY <1>0, <2>3, <2>6, <2>13, <2>15 DEF TellApart
    <2> QED BY <2>2, <2>6, <2>7, <2>16
  <1>4. S = Nat
    BY <1>1, <1>2, <1>3, SetInduction
  <1> QED BY <1>0, <1>1, <1>4

\* Where one list of words ends, what follows it is what the other still spells.
LEMMA RestsAgree ==
    ASSUME NEW u, NEW v, NEW f, NEW g, NEW r, NEW q, SpellOneText(u, v, f, g, r, q),
           Len(u) <= Len(v)
    PROVE  /\ Len(u) = Len(v) => r = q
           /\ Len(u) < Len(v) => \E t \in Texts : r = Cat(v[Len(u) + 1], t)
  <1>0. /\ u \in Seq(Texts) /\ v \in Seq(Texts) /\ Spells(f, u) /\ Spells(g, v)
        /\ r \in Texts /\ q \in Texts /\ Cat(f[Len(u)], r) = Cat(g[Len(v)], q) /\ TellApart(u, v)
    BY DEF SpellOneText
  <1>1. Len(u) \in Nat /\ Len(v) \in Nat
    BY <1>0
  <1>2. f[Len(u)] = g[Len(u)]
    <2>1. Len(u) \in 0..Len(u)
      BY <1>1
    <2>2. \A i \in 0..Len(u) : i <= Len(v) => f[i] = g[i] /\ (i # 0 => u[i] = v[i])
      BY WordsAgree
    <2> QED BY <2>1, <2>2
  <1>3. f[Len(u)] \in Texts /\ r \in Texts /\ q \in Texts
    BY <1>0, <1>1 DEF Spells
  <1>4. CASE Len(u) = Len(v)
    <2>1. Cat(f[Len(u)], r) = Cat(f[Len(u)], q)
      BY <1>0, <1>2, <1>4
    <2>2. r = q
      BY <1>3, <2>1, Cancel
    <2> QED BY <1>1, <1>4, <2>2
  <1>5. CASE Len(u) < Len(v)
    <2>1. PICK k : k = Len(u) + 1
      OBVIOUS
    <2>2. k \in 1..Len(v) /\ k \in 0..Len(v) /\ k - 1 = Len(u)
      BY <1>1, <1>5, <2>1
    <2>3. PICK t \in Texts : g[Len(v)] = Cat(g[k], t)
      BY <1>0, <2>2, SpellingSplits
    <2>4. PICK a \in Texts, x \in Texts : a = f[Len(u)] /\ x = v[k]
      <3>1. v[k] \in Texts
        BY <1>0, <2>2
      <3> QED BY <1>3, <3>1
    <2>5. g[k] = Cat(a, x)
      BY <1>0, <1>2, <2>2, <2>4 DEF Spells
    <2>6. Cat(a, r) = Cat(Cat(Cat(a, x), t), q)
      BY <1>0, <2>3, <2>4, <2>5
    <2>7. Cat(Cat(Cat(a, x), t), q) = Cat(a, Cat(x, Cat(t, q)))
      BY <1>3, BuiltUp
    <2>8. Cat(t, q) \in Texts
      BY <1>3, CatAssoc
    <2>9. Cat(x, Cat(t, q)) \in Texts
      BY <2>8, CatAssoc
    <2>10. r = Cat(x, Cat(t, q))
      BY <1>3, <2>6, <2>7, <2>9, Cancel
    <2>11. \E w \in Texts : r = Cat(v[Len(u) + 1], w)
      BY <2>1, <2>4, <2>8, <2>10
    <2>12. ~(Len(u) = Len(v))
      BY <1>1, <1>5
    <2> QED BY <2>11, <2>12
  <1> QED BY <1>1, <1>4, <1>5

-----------------------------------------------------------------------------
(* What is escaped can be read back. *)

CodeOf(c) == IF c = Nul THEN <<Nul, 1>> ELSE <<c>>
Codes(s) == [i \in DOMAIN s |-> CodeOf(s[i])]

\* The first bytes of a text that begins with one or two given ones.
LEMMA FirstBytes ==
    ASSUME NEW x \in Nat, NEW y \in Nat, NEW s \in Texts
    PROVE  /\ <<x>> \in Texts /\ <<x, y>> \in Texts
           /\ Cat(<<x>>, s)[1] = x
           /\ Cat(<<x, y>>, s)[1] = x /\ Cat(<<x, y>>, s)[2] = y
  BY DEF Texts, Cat

\* The code of a byte is a text, which begins with the byte.
LEMMA CodeFacts ==
    ASSUME NEW c \in Nat, NEW s \in Texts
    PROVE  CodeOf(c) \in Texts /\ Cat(CodeOf(c), s)[1] = c
           /\ (c = 0 => Cat(CodeOf(c), s)[2] = 1)
  <1>1. CASE c = 0
    BY <1>1, FirstBytes DEF CodeOf, Nul
  <1>2. CASE c # 0
    BY <1>2, FirstBytes DEF CodeOf, Nul
  <1> QED BY <1>1, <1>2

\* The end of a text is not the code of a byte.
LEMMA EndIsNoCode ==
    ASSUME NEW c \in Nat, NEW s \in Texts, NEW t \in Texts, Cat(End, s) = Cat(CodeOf(c), t)
    PROVE  FALSE
  <1>1. Cat(End, s)[1] = 0 /\ Cat(End, s)[2] = 0
    BY FirstBytes DEF End, Nul
  <1>2. Cat(CodeOf(c), t)[1] = c /\ (c = 0 => Cat(CodeOf(c), t)[2] = 1)
    BY CodeFacts
  <1> QED BY <1>1, <1>2

\* The codes of a text's bytes are words, and Escaped spells them.
LEMMA EscapedIs ==
    ASSUME NEW s \in Texts
    PROVE  /\ Codes(s) \in Seq(Texts) /\ Len(Codes(s)) = Len(s)
           /\ \A i \in 1..Len(s) : s[i] \in Nat /\ Codes(s)[i] = CodeOf(s[i])
           /\ \E f : Spells(f, Codes(s)) /\ Escaped(s) = f[Len(s)]
           /\ Escaped(s) \in Texts
  <1>1. DOMAIN s = 1..Len(s) /\ Len(s) \in Nat /\ \A i \in 1..Len(s) : s[i] \in Nat
    BY DEF Texts
  <1>2. \A i \in 1..Len(s) : Codes(s)[i] = CodeOf(s[i]) /\ CodeOf(s[i]) \in Texts
    <2>1. <<>> \in Texts
      BY DEF Texts
    <2> QED BY <1>1, <2>1, CodeFacts DEF Codes
  <1>3. Codes(s) \in [1..Len(s) -> Texts]
    BY <1>1, <1>2 DEF Codes
  <1>4. Codes(s) \in Seq(Texts) /\ Len(Codes(s)) = Len(s)
    BY <1>1, <1>3
  <1>5. Escaped(s) = FlattenSeq(Codes(s))
    BY DEF Escaped, Codes, CodeOf
  <1>6. PICK f : Spells(f, Codes(s)) /\ FlattenSeq(Codes(s)) = f[Len(Codes(s))]
    BY <1>4, FlatIs
  <1>7. f[Len(s)] \in Texts
    BY <1>1, <1>4, <1>6 DEF Spells
  <1> QED BY <1>1, <1>2, <1>4, <1>5, <1>6, <1>7

\* Codes that begin a common text are the codes of one byte.
LEMMA CodesTellApart ==
    ASSUME NEW s \in Texts, NEW t \in Texts
    PROVE  TellApart(Codes(s), Codes(t))
  <1> SUFFICES ASSUME NEW i \in 1..Len(s), i <= Len(t), NEW x \in Texts, NEW y \in Texts,
                      Cat(CodeOf(s[i]), x) = Cat(CodeOf(t[i]), y)
               PROVE  CodeOf(s[i]) = CodeOf(t[i])
    <2>1. Len(Codes(s)) = Len(s) /\ Len(Codes(t)) = Len(t)
      BY EscapedIs
    <2>2. \A i \in 1..Len(s) : Codes(s)[i] = CodeOf(s[i])
      BY EscapedIs
    <2>3. \A i \in 1..Len(s) : i <= Len(t) => Codes(t)[i] = CodeOf(t[i])
      <3>1. \A i \in 1..Len(t) : Codes(t)[i] = CodeOf(t[i])
        BY EscapedIs
      <3>2. Len(t) \in Nat /\ Len(s) \in Nat
        BY DEF Texts
      <3> QED BY <3>1, <3>2
    <2> QED BY <2>1, <2>2, <2>3 DEF TellApart
  <1>1. s[i] \in Nat /\ t[i] \in Nat
    BY DEF Texts
  <1>2. Cat(CodeOf(s[i]), x)[1] = s[i] /\ Cat(CodeOf(t[i]), y)[1] = t[i]
    BY <1>1, CodeFacts
  <1> QED BY <1>2

\* Two escaped texts with their ends are alike only if the texts are; the
\* shorter one given first.
LEMMA UnescapeShorter ==
    ASSUME NEW s \in Texts, NEW t \in Texts, NEW r \in Texts, NEW q \in Texts,
           Len(s) <= Len(t), Cat(Escaped(s), Cat(End, r)) = Cat(Escaped(t), Cat(End, q))
    PROVE  s = t /\ r = q
  <1>1. End \in Texts /\ Cat(End, r) \in Texts /\ Cat(End, q) \in Texts
    <2>1. End \in Texts
      BY FirstBytes DEF End, Nul
    <2> QED BY <2>1, CatAssoc
  <1>2. PICK f : Spells(f, Codes(s)) /\ Escaped(s) = f[Len(s)]
    BY EscapedIs
  <1>3. PICK g : Spells(g, Codes(t)) /\ Escaped(t) = g[Len(t)]
    BY EscapedIs
  <1>4. /\ Codes(s) \in Seq(Texts) /\ Len(Codes(s)) = Len(s)
        /\ Codes(t) \in Seq(Texts) /\ Len(Codes(t)) = Len(t)
    BY EscapedIs
  <1>5. TellApart(Codes(s), Codes(t))
    BY CodesTellApart
  <1>6. SpellOneText(Codes(s), Codes(t), f, g, Cat(End, r), Cat(End, q))
    BY <1>1, <1>2, <1>3, <1>4, <1>5 DEF SpellOneText
  <1>7. Len(s) \in Nat /\ Len(t) \in Nat
    BY DEF Texts
  <1>8. /\ Len(s) = Len(t) => Cat(End, r) = Cat(End, q)
        /\ Len(s) < Len(t) => \E x \in Texts : Cat(End, r) = Cat(Codes(t)[Len(s) + 1], x)
    BY <1>4, <1>6, RestsAgree
  <1>9. Len(s) = Len(t)
    <2> SUFFICES ASSUME Len(s) < Len(t) PROVE FALSE
      BY <1>7
    <2>1. PICK x \in Texts : Cat(End, r) = Cat(Codes(t)[Len(s) + 1], x)
      BY <1>8
    <2>2. Len(s) + 1 \in 1..Len(t)
      BY <1>7
    <2>3. PICK c \in Nat : c = t[Len(s) + 1] /\ Codes(t)[Len(s) + 1] = CodeOf(c)
      BY <2>2, EscapedIs
    <2> QED BY <2>1, <2>3, EndIsNoCode
  <1>10. r = q
    BY <1>1, <1>8, <1>9, Cancel
  <1>11. ASSUME NEW i \in 1..Len(s) PROVE s[i] = t[i]
    <2>1. i \in 0..Len(s) /\ i # 0 /\ i <= Len(t) /\ i \in 1..Len(t)
      BY <1>7, <1>9
    <2>2. \A j \in 0..Len(Codes(s)) : j <= Len(Codes(t)) =>
              f[j] = g[j] /\ (j # 0 => Codes(s)[j] = Codes(t)[j])
      BY <1>6, WordsAgree
    <2>3. Codes(s)[i] = Codes(t)[i]
      BY <1>4, <2>1, <2>2
    <2>4. Codes(s)[i] = CodeOf(s[i]) /\ s[i] \in Nat
      BY EscapedIs
    <2>5. Codes(t)[i] = CodeOf(t[i]) /\ t[i] \in Nat
      BY <2>1, EscapedIs
    <2>6. Cat(CodeOf(s[i]), r)[1] = s[i] /\ Cat(CodeOf(t[i]), r)[1] = t[i]
      BY <2>4, <2>5, CodeFacts
    <2> QED BY <2>3, <2>4, <2>5, <2>6
  <1>12. s = t
    BY <1>9, <1>11, SeqEqual DEF Texts
  <1> QED BY <1>10, <1>12

\* Two escaped texts with their ends are alike only if the texts are.
LEMMA Unescape ==
    ASSUME NEW s \in Texts, NEW t \in Texts, NEW r \in Texts, NEW q \in Texts,
           Cat(Escaped(s), Cat(End, r)) = Cat(Escaped(t), Cat(End, q))
    PROVE  s = t /\ r = q
  <1>1. Len(s) \in Nat /\ Len(t) \in Nat
    BY DEF Texts
  <1>2. CASE Len(s) <= Len(t)
    BY <1>2, UnescapeShorter
  <1>3. CASE Len(t) <= Len(s)
    BY <1>3, UnescapeShorter
  <1> QED BY <1>1, <1>2, <1>3

-----------------------------------------------------------------------------
(* An email's key: its number follows the text without an end between them. *)

\* Lists that have their first n words in common spell them alike.
LEMMA SpellingsAgree ==
    ASSUME NEW u, NEW v, NEW f, NEW g, Spells(f, u), Spells(g, v), NEW n \in Nat,
           Len(u) \in Nat, Len(v) \in Nat, n <= Len(u), n <= Len(v), \A i \in 1..n : u[i] = v[i]
    PROVE  f[n] = g[n]
  <1>1. PICK S : S = {i \in Nat : i <= n => f[i] = g[i]}
    OBVIOUS
  <1>2. 0 \in S
    BY <1>1 DEF Spells
  <1>3. ASSUME NEW i \in S PROVE i + 1 \in S
    <2>1. i \in Nat
      BY <1>1
    <2> SUFFICES ASSUME i + 1 <= n PROVE f[i + 1] = g[i + 1]
      BY <1>1, <2>1
    <2>2. PICK k : k = i + 1
      OBVIOUS
    <2>3. k \in 1..Len(u) /\ k \in 1..Len(v) /\ k \in 1..n /\ k - 1 = i
      BY <2>1, <2>2
    <2>4. f[i] = g[i]
      BY <1>1, <2>1
    <2>5. f[k] = Cat(f[i], u[k]) /\ g[k] = Cat(g[i], v[k])
      BY <2>3 DEF Spells
    <2> QED BY <2>2, <2>3, <2>4, <2>5
  <1>4. S = Nat
    BY <1>1, <1>2, <1>3, SetInduction
  <1> QED BY <1>1, <1>4

\* The bytes of two texts put together.
LEMMA CatBytes ==
    ASSUME NEW a \in Texts, NEW b \in Texts
    PROVE  /\ Cat(a, b) \in Texts /\ Len(Cat(a, b)) = Len(a) + Len(b)
           /\ \A i \in 1..Len(a) : Cat(a, b)[i] = a[i]
           /\ \A i \in 1..Len(b) : Cat(a, b)[Len(a) + i] = b[i]
           /\ Len(a) \in Nat /\ Len(b) \in Nat
  BY DEF Texts, Cat

\* Texts of one byte and of two.
LEMMA ShortTexts ==
    ASSUME NEW x \in Nat, NEW y \in Nat
    PROVE  /\ <<x>> \in Texts /\ Len(<<x>>) = 1 /\ <<x>>[1] = x
           /\ <<x, y>> \in Texts /\ Len(<<x, y>>) = 2 /\ <<x, y>>[1] = x /\ <<x, y>>[2] = y
  BY DEF Texts

\* What is put together is escaped part by part.
LEMMA EscapedCat ==
    ASSUME NEW a \in Texts, NEW b \in Texts
    PROVE  Escaped(Cat(a, b)) = Cat(Escaped(a), Escaped(b))
  <1>1. PICK c \in Texts : c = Cat(a, b)
    BY CatBytes
  <1>2. /\ Len(c) = Len(a) + Len(b) /\ Len(a) \in Nat /\ Len(b) \in Nat /\ Len(c) \in Nat
        /\ \A i \in 1..Len(a) : c[i] = a[i]
        /\ \A i \in 1..Len(b) : c[Len(a) + i] = b[i]
    <2>1. Len(Cat(a, b)) = Len(a) + Len(b) /\ Len(a) \in Nat /\ Len(b) \in Nat
      BY CatBytes
    <2>2. \A i \in 1..Len(a) : Cat(a, b)[i] = a[i]
      BY CatBytes
    <2>3. \A i \in 1..Len(b) : Cat(a, b)[Len(a) + i] = b[i]
      BY CatBytes
    <2>4. Len(a) + Len(b) \in Nat
      BY <2>1
    <2> QED BY <1>1, <2>1, <2>2, <2>3, <2>4
  <1>3. PICK f : Spells(f, Codes(a)) /\ Escaped(a) = f[Len(a)]
    BY EscapedIs
  <1>4. PICK g : Spells(g, Codes(b)) /\ Escaped(b) = g[Len(b)]
    BY EscapedIs
  <1>5. PICK h : Spells(h, Codes(c)) /\ Escaped(c) = h[Len(c)]
    BY EscapedIs
  <1>6. Len(Codes(a)) = Len(a) /\ Len(Codes(b)) = Len(b) /\ Len(Codes(c)) = Len(c)
    BY EscapedIs
  <1>7. \A i \in 1..Len(a) : Codes(a)[i] = CodeOf(a[i])
    BY EscapedIs
  <1>8. \A i \in 1..Len(b) : Codes(b)[i] = CodeOf(b[i]) /\ b[i] \in Nat
    BY EscapedIs
  <1>9. \A i \in 1..Len(c) : Codes(c)[i] = CodeOf(c[i])
    BY EscapedIs
  <1>10. h[Len(a)] = f[Len(a)]
    <2>1. \A i \in 1..Len(a) : Codes(c)[i] = Codes(a)[i]
      BY <1>2, <1>7, <1>9
    <2> QED BY <1>2, <1>3, <1>5, <1>6, <2>1, SpellingsAgree
  <1>11. Escaped(a) \in Texts
    BY EscapedIs
  <1>12. PICK S : S = {i \in Nat : i <= Len(b) => h[Len(a) + i] = Cat(Escaped(a), g[i])}
    OBVIOUS
  <1>13. 0 \in S
    <2>1. g[0] = <<>>
      BY <1>4 DEF Spells
    <2>2. Cat(Escaped(a), <<>>) = Escaped(a)
      BY <1>11, CatNothing
    <2>3. Len(a) + 0 = Len(a)
      BY <1>2
    <2> QED BY <1>3, <1>10, <1>12, <2>1, <2>2, <2>3
  <1>14. ASSUME NEW i \in S PROVE i + 1 \in S
    <2>1. i \in Nat
      BY <1>12
    <2> SUFFICES ASSUME i + 1 <= Len(b) PROVE h[Len(a) + (i + 1)] = Cat(Escaped(a), g[i + 1])
      BY <1>12, <2>1
    <2>2. PICK k, l : k = i + 1 /\ l = Len(a) + k
      OBVIOUS
    <2>3. k \in 1..Len(b) /\ k - 1 = i /\ l \in 1..Len(c) /\ l - 1 = Len(a) + i /\ i \in 0..Len(b)
      BY <1>2, <2>1, <2>2
    <2>4. h[l - 1] = Cat(Escaped(a), g[i])
      BY <1>2, <1>12, <2>1, <2>3
    <2>5. h[l] = Cat(h[l - 1], Codes(c)[l])
      BY <1>5, <1>6, <2>3 DEF Spells
    <2>6. g[k] = Cat(g[i], Codes(b)[k])
      BY <1>4, <1>6, <2>3 DEF Spells
    <2>7. Codes(c)[l] = Codes(b)[k]
      BY <1>2, <1>8, <1>9, <2>2, <2>3
    <2>8. g[i] \in Texts
      BY <1>4, <1>6, <2>3 DEF Spells
    <2>9. Codes(b)[k] \in Texts
      BY <1>8, <2>3, <2>8, CodeFacts
    <2>10. Cat(Cat(Escaped(a), g[i]), Codes(b)[k]) = Cat(Escaped(a), Cat(g[i], Codes(b)[k]))
      <3>1. PICK x \in Texts, y \in Texts, z \in Texts : x = Escaped(a) /\ y = g[i] /\ z = Codes(b)[k]
        BY <1>11, <2>8, <2>9
      <3>2. Cat(Cat(x, y), z) = Cat(x, Cat(y, z))
        BY CatAssoc
      <3> QED BY <3>1, <3>2
    <2> QED BY <2>2, <2>4, <2>5, <2>6, <2>7, <2>10
  <1>15. S = Nat
    BY <1>12, <1>13, <1>14, SetInduction
  <1>16. h[Len(a) + Len(b)] = Cat(Escaped(a), g[Len(b)])
    <2>1. Len(b) \in S /\ Len(b) <= Len(b)
      BY <1>2, <1>15
    <2> QED BY <1>12, <2>1
  <1> QED BY <1>1, <1>2, <1>4, <1>5, <1>16

\* A text without zero bytes is escaped as it is.
LEMMA EscapedAsIs ==
    ASSUME NEW s \in Texts, \A i \in 1..Len(s) : s[i] # 0
    PROVE  Escaped(s) = s
  <1>1. PICK f : Spells(f, Codes(s)) /\ Escaped(s) = f[Len(s)]
    BY EscapedIs
  <1>2. Len(Codes(s)) = Len(s) /\ Len(s) \in Nat
    BY EscapedIs DEF Texts
  <1>3. \A i \in 1..Len(s) : s[i] \in Nat /\ Codes(s)[i] = <<s[i]>>
    BY EscapedIs DEF CodeOf, Nul
  <1>4. PICK S : S = {i \in Nat : i <= Len(s) =>
                         /\ f[i] \in Texts /\ Len(f[i]) = i /\ \A j \in 1..i : f[i][j] = s[j]}
    OBVIOUS
  <1>5. 0 \in S
    <2>1. f[0] = <<>>
      BY <1>1 DEF Spells
    <2>2. <<>> \in Texts /\ Len(<<>>) = 0
      BY DEF Texts
    <2> QED BY <1>4, <2>1, <2>2
  <1>6. ASSUME NEW i \in S PROVE i + 1 \in S
    <2>1. i \in Nat
      BY <1>4
    <2> SUFFICES ASSUME i + 1 <= Len(s)
                 PROVE  /\ f[i + 1] \in Texts /\ Len(f[i + 1]) = i + 1
                        /\ \A j \in 1..(i + 1) : f[i + 1][j] = s[j]
      BY <1>4, <2>1
    <2>2. PICK k : k = i + 1
      OBVIOUS
    <2>3. k \in 1..Len(s) /\ k - 1 = i
      BY <1>2, <2>1, <2>2
    <2>4. PICK a : a = f[i]
      OBVIOUS
    <2>5. a \in Texts /\ Len(a) = i /\ \A j \in 1..i : a[j] = s[j]
      BY <1>2, <1>4, <2>1, <2>4
    <2>6. f[k] = Cat(a, <<s[k]>>)
      BY <1>1, <1>2, <1>3, <2>3, <2>4 DEF Spells
    <2>7. PICK z \in Texts : z = <<s[k]>> /\ Len(z) = 1 /\ z[1] = s[k]
      BY <1>3, <2>3, ShortTexts
    <2>8. Cat(a, z) \in Texts /\ Len(Cat(a, z)) = i + 1
      BY <2>1, <2>5, <2>7, CatBytes
    <2>9. \A j \in 1..i : Cat(a, z)[j] = s[j]
      BY <2>5, CatBytes
    <2>10. Cat(a, z)[k] = s[k]
      <3>1. 1 \in 1..Len(z)
        BY <2>7
      <3>2. Cat(a, z)[Len(a) + 1] = z[1]
        BY <2>5, <3>1, CatBytes
      <3> QED BY <2>2, <2>5, <2>7, <3>2
    <2>11. \A j \in 1..(i + 1) : j \in 1..i \/ j = k
      BY <2>1, <2>2
    <2> QED BY <2>2, <2>6, <2>7, <2>8, <2>9, <2>10, <2>11
  <1>7. S = Nat
    BY <1>4, <1>5, <1>6, SetInduction
  <1>8. f[Len(s)] \in Texts /\ Len(f[Len(s)]) = Len(s) /\ \A j \in 1..Len(s) : f[Len(s)][j] = s[j]
    BY <1>2, <1>4, <1>7
  <1> QED BY <1>1, <1>8, SeqEqual DEF Texts

\* f is n divided again and again, w times.
Divides(f, n, w) == f \in [0..w -> Nat] /\ f[0] = n /\ \A k \in 1..w : f[k] = f[k - 1] \div 10

\* There is such a function.
LEMMA DivisionExists ==
    ASSUME NEW n \in Nat, NEW w \in Nat
    PROVE  \E f : Divides(f, n, w)
  <1>1. PICK S : S = {m \in Nat : \E f : Divides(f, n, m)}
    OBVIOUS
  <1>2. 0 \in S
    <2>1. Divides([k \in 0..0 |-> n], n, 0)
      BY DEF Divides
    <2> QED BY <1>1, <2>1
  <1>3. ASSUME NEW m \in S PROVE m + 1 \in S
    <2>1. m \in Nat
      BY <1>1
    <2>2. PICK f : Divides(f, n, m)
      BY <1>1
    <2>3. PICK d : d = f[m] \div 10
      OBVIOUS
    <2>4. f[m] \in Nat /\ d \in Nat
      BY <2>1, <2>2, <2>3 DEF Divides
    <2>5. PICK h : h = [k \in 0..(m + 1) |-> IF k = m + 1 THEN d ELSE f[k]]
      OBVIOUS
    <2>6. h \in [0..(m + 1) -> Nat] /\ h[0] = n
      BY <2>1, <2>2, <2>4, <2>5 DEF Divides
    <2>7. ASSUME NEW k \in 1..(m + 1) PROVE h[k] = h[k - 1] \div 10
      <3>1. k - 1 \in 0..m /\ h[k - 1] = f[k - 1]
        BY <2>1, <2>5
      <3>2. CASE k = m + 1
        <4>1. k - 1 = m /\ h[k] = d
          BY <2>1, <2>5, <3>2
        <4> QED BY <2>3, <3>1, <4>1
      <3>3. CASE k # m + 1
        <4>1. k \in 1..m /\ h[k] = f[k]
          BY <2>1, <2>5, <3>3
        <4> QED BY <2>2, <3>1, <4>1 DEF Divides
      <3> QED BY <3>2, <3>3
    <2>8. Divides(h, n, m + 1)
      BY <2>6, <2>7 DEF Divides
    <2>9. m + 1 \in Nat
      BY <2>1
    <2> QED BY <1>1, <2>8, <2>9
  <1>4. S = Nat
    BY <1>1, <1>2, <1>3, SetInduction
  <1> QED BY <1>1, <1>4

\* Remaining is one.
LEMMA RemainingIs ==
    ASSUME NEW n \in Nat
    PROVE  Divides(Remaining(n), n, PadWidth)
  <1>1. PadWidth \in Nat
    BY KeysAssumption
  <1> DEFINE Is(r) == r = [k \in 0 .. PadWidth |-> IF k = 0 THEN n ELSE r[k - 1] \div 10]
  <1>2. PICK f : Divides(f, n, PadWidth)
    BY <1>1, DivisionExists
  <1>3. Is(f)
    <2>1. f = [k \in 0 .. PadWidth |-> f[k]]
      BY <1>2 DEF Divides
    <2>2. \A k \in 0 .. PadWidth : f[k] = IF k = 0 THEN n ELSE f[k - 1] \div 10
      BY <1>1, <1>2 DEF Divides
    <2> QED BY <2>1, <2>2
  <1>4. Remaining(n) = CHOOSE r : Is(r)
    BY DEF Remaining
  <1>5. Is(Remaining(n))
    BY <1>3, <1>4
  <1>6. PICK r : r = Remaining(n)
    OBVIOUS
  <1>7. r = [k \in 0 .. PadWidth |-> IF k = 0 THEN n ELSE r[k - 1] \div 10]
    BY <1>5, <1>6
  <1>8. \A k \in 0 .. PadWidth : r[k] = IF k = 0 THEN n ELSE r[k - 1] \div 10
    BY <1>7
  <1>9. PICK S : S = {m \in Nat : m <= PadWidth => r[m] \in Nat}
    OBVIOUS
  <1>10. 0 \in S
    BY <1>1, <1>8, <1>9
  <1>11. ASSUME NEW m \in S PROVE m + 1 \in S
    <2>1. m \in Nat
      BY <1>9
    <2> SUFFICES ASSUME m + 1 <= PadWidth PROVE r[m + 1] \in Nat
      BY <1>9, <2>1
    <2>2. r[m] \in Nat
      BY <1>1, <1>9, <2>1
    <2>3. PICK k : k = m + 1
      OBVIOUS
    <2>4. k \in 0 .. PadWidth /\ k # 0 /\ k - 1 = m
      BY <1>1, <2>1, <2>3
    <2>5. r[k] = r[m] \div 10
      BY <1>8, <2>4
    <2> QED BY <2>2, <2>3, <2>5
  <1>12. S = Nat
    BY <1>9, <1>10, <1>11, SetInduction
  <1>13. \A m \in 0 .. PadWidth : r[m] \in Nat
    BY <1>1, <1>9, <1>12
  <1>14. r \in [0 .. PadWidth -> Nat]
    BY <1>7, <1>13
  <1>15. r[0] = n /\ \A k \in 1 .. PadWidth : r[k] = r[k - 1] \div 10
    BY <1>1, <1>8
  <1> QED BY <1>6, <1>14, <1>15 DEF Divides

\* A chunk number in a key: so many digits, none of them the zero byte.
LEMMA PaddedIs ==
    ASSUME NEW n \in Indexes
    PROVE  /\ Padded(n) \in Texts /\ Len(Padded(n)) = PadWidth /\ PadWidth \in Nat
           /\ \A i \in 1..PadWidth : Padded(n)[i] # 0
           /\ \A i \in 1..PadWidth : Padded(n)[i] = 48 + (Remaining(n)[PadWidth - i] % 10)
  <1>1. PadWidth \in Nat /\ n \in Nat
    BY KeysAssumption
  <1>2. PICK r : r = Remaining(n) /\ r \in [0..PadWidth -> Nat]
    BY <1>1, RemainingIs DEF Divides
  <1>3. Padded(n) = [i \in 1..PadWidth |-> 48 + (r[PadWidth - i] % 10)]
    BY <1>2 DEF Padded, Digit
  <1>4. ASSUME NEW i \in 1..PadWidth
        PROVE  48 + (r[PadWidth - i] % 10) \in Nat /\ 48 + (r[PadWidth - i] % 10) # 0
    <2>1. PadWidth - i \in 0..PadWidth
      BY <1>1
    <2>2. r[PadWidth - i] \in Nat
      BY <1>2, <2>1
    <2> QED BY <2>2
  <1>5. Padded(n) \in [1..PadWidth -> Nat]
    BY <1>3, <1>4
  <1>6. Padded(n) \in Texts /\ Len(Padded(n)) = PadWidth
    BY <1>1, <1>5 DEF Texts
  <1>7. \A i \in 1..PadWidth : Padded(n)[i] = 48 + (r[PadWidth - i] % 10)
    BY <1>3
  <1> QED BY <1>1, <1>2, <1>4, <1>6, <1>7

\* It tells the number.
LEMMA PaddedTells ==
    ASSUME NEW m \in Indexes, NEW n \in Indexes, Padded(m) = Padded(n)
    PROVE  m = n
  <1>1. PadWidth \in Nat /\ m \in Nat /\ n \in Nat
    BY KeysAssumption
  <1>2. PICK f : f = Remaining(m) /\ Divides(f, m, PadWidth) /\ f[PadWidth] = 0
    BY <1>1, RemainingIs, KeysAssumption
  <1>3. PICK h : h = Remaining(n) /\ Divides(h, n, PadWidth) /\ h[PadWidth] = 0
    BY <1>1, RemainingIs, KeysAssumption
  <1>4. \A i \in 1..PadWidth : 48 + (f[PadWidth - i] % 10) = 48 + (h[PadWidth - i] % 10)
    BY <1>2, <1>3, PaddedIs
  <1>5. PICK S : S = {j \in Nat : j <= PadWidth => f[PadWidth - j] = h[PadWidth - j]}
    OBVIOUS
  <1>6. 0 \in S
    <2>1. PadWidth - 0 = PadWidth
      BY <1>1
    <2> QED BY <1>2, <1>3, <1>5, <2>1
  <1>7. ASSUME NEW j \in S PROVE j + 1 \in S
    <2>1. j \in Nat
      BY <1>5
    <2> SUFFICES ASSUME j + 1 <= PadWidth PROVE f[PadWidth - (j + 1)] = h[PadWidth - (j + 1)]
      BY <1>5, <2>1
    <2>2. PICK k, i : k = PadWidth - j /\ i = j + 1
      OBVIOUS
    <2>3. k \in 1..PadWidth /\ i \in 1..PadWidth /\ k - 1 \in 0..PadWidth
          /\ PadWidth - i = k - 1
      BY <1>1, <2>1, <2>2
    <2>4. f[k] = h[k]
      BY <1>1, <1>5, <2>1, <2>2
    <2>5. PICK a \in Nat, b \in Nat : a = f[k - 1] /\ b = h[k - 1]
      BY <1>2, <1>3, <2>3 DEF Divides
    <2>6. a \div 10 = b \div 10
      BY <1>2, <1>3, <2>3, <2>4, <2>5 DEF Divides
    <2>7. 48 + (a % 10) = 48 + (b % 10)
      BY <1>4, <2>3, <2>5
    <2>8. a = b
      BY <2>6, <2>7
    <2> QED BY <2>2, <2>3, <2>5, <2>8
  <1>8. S = Nat
    BY <1>5, <1>6, <1>7, SetInduction
  <1>9. PadWidth \in S /\ PadWidth - PadWidth = 0
    BY <1>1, <1>8
  <1>10. f[0] = h[0]
    BY <1>1, <1>5, <1>9
  <1> QED BY <1>2, <1>3, <1>10 DEF Divides

\* The text of an email and the number of a chunk, as one text.
Numbered(text, n) == Cat(text, Cat(<<Colon>>, Padded(n)))

\* It is escaped as the key has it.
LEMMA NumberedIs ==
    ASSUME NEW text \in Texts, NEW n \in Indexes
    PROVE  /\ Numbered(text, n) \in Texts
           /\ Escaped(Numbered(text, n)) = Cat(Escaped(text), Cat(<<Colon>>, Padded(n)))
  <1>1. PICK c \in Texts : c = <<Colon>> /\ Len(c) = 1 /\ c[1] = 58
    <2>1. Colon \in Nat /\ Colon = 58
      BY DEF Colon
    <2> QED BY <2>1, ShortTexts
  <1>2. PICK p \in Texts : p = Padded(n) /\ \A i \in 1..Len(p) : p[i] # 0
    BY PaddedIs
  <1>3. Escaped(c) = c /\ Escaped(p) = p
    BY <1>1, <1>2, EscapedAsIs
  <1>4. Cat(c, p) \in Texts /\ Escaped(Cat(c, p)) = Cat(c, p)
    BY <1>3, CatBytes, EscapedCat
  <1>5. Cat(text, Cat(c, p)) \in Texts
        /\ Escaped(Cat(text, Cat(c, p))) = Cat(Escaped(text), Cat(c, p))
    BY <1>4, CatBytes, EscapedCat
  <1> QED BY <1>1, <1>2, <1>5 DEF Numbered

\* It tells the text and the number.
LEMMA NumberedTells ==
    ASSUME NEW s \in Texts, NEW t \in Texts, NEW m \in Indexes, NEW n \in Indexes,
           Numbered(s, m) = Numbered(t, n)
    PROVE  s = t /\ m = n
  <1>1. PICK c \in Texts : c = <<Colon>> /\ Len(c) = 1
    <2>1. Colon \in Nat
      BY DEF Colon
    <2> QED BY <2>1, ShortTexts
  <1>2. PICK p \in Texts : p = Padded(m) /\ Len(p) = PadWidth
    BY PaddedIs
  <1>3. PICK q \in Texts : q = Padded(n) /\ Len(q) = PadWidth
    BY PaddedIs
  <1>4. PadWidth \in Nat /\ m \in Nat /\ n \in Nat
    BY KeysAssumption
  <1>5. PICK x \in Texts : x = Cat(c, p) /\ Len(x) = PadWidth + 1
    <2>1. Cat(c, p) \in Texts /\ Len(Cat(c, p)) = Len(c) + Len(p)
      BY CatBytes
    <2>2. Len(c) + Len(p) = PadWidth + 1
      BY <1>1, <1>2, <1>4
    <2> QED BY <2>1, <2>2
  <1>6. PICK y \in Texts : y = Cat(c, q) /\ Len(y) = PadWidth + 1
    <2>1. Cat(c, q) \in Texts /\ Len(Cat(c, q)) = Len(c) + Len(q)
      BY CatBytes
    <2>2. Len(c) + Len(q) = PadWidth + 1
      BY <1>1, <1>3, <1>4
    <2> QED BY <2>1, <2>2
  <1>7. Cat(s, x) = Cat(t, y)
    BY <1>1, <1>2, <1>3, <1>5, <1>6 DEF Numbered
  <1>8. Len(s) = Len(t) /\ Len(s) \in Nat
    <2>1. Len(Cat(s, x)) = Len(s) + Len(x) /\ Len(s) \in Nat
      BY CatBytes
    <2>2. Len(Cat(t, y)) = Len(t) + Len(y) /\ Len(t) \in Nat
      BY CatBytes
    <2> QED BY <1>4, <1>5, <1>6, <1>7, <2>1, <2>2
  <1>9. s = t
    <2>1. \A i \in 1..Len(s) : Cat(s, x)[i] = s[i] /\ Cat(t, y)[i] = t[i]
      <3>1. \A i \in 1..Len(s) : Cat(s, x)[i] = s[i]
        BY CatBytes
      <3>2. \A i \in 1..Len(t) : Cat(t, y)[i] = t[i]
        BY CatBytes
      <3> QED BY <1>8, <3>1, <3>2
    <2> QED BY <1>7, <1>8, <2>1, SeqEqual DEF Texts
  <1>10. x = y
    BY <1>7, <1>9, Cancel
  <1>11. p = q
    BY <1>5, <1>6, <1>10, Cancel
  <1>12. m = n
    BY <1>2, <1>3, <1>11, PaddedTells
  <1> QED BY <1>9, <1>12

-----------------------------------------------------------------------------
(* The order of the metadata. *)

\* A byte of a text, one higher, and zero past its end.
ByteAt(a, i) == IF i <= Len(a) THEN a[i] + 1 ELSE 0

\* The first place where two texts differ tells their order.
DiffersAt(a, b, i) == (\A j \in 1 .. i - 1 : ByteAt(a, j) = ByteAt(b, j)) /\ ByteAt(a, i) < ByteAt(b, i)

\* A nonempty set of numbers has a least one.
LEMMA LeastNumber ==
    ASSUME NEW T \in SUBSET Nat, T # {}
    PROVE  \E x \in T : \A y \in T : x <= y
  <1>1. PICK R : R = OpToRel(<, Nat)
    OBVIOUS
  <1>2. IsWellFoundedOn(R, Nat)
    BY <1>1, NatLessThanWellFounded
  <1>3. PICK x \in T : \A y \in T : ~(<<y, x>> \in R)
    BY <1>2, WFMin
  <1>4. \A y \in Nat : y < x => <<y, x>> \in R
    BY <1>1 DEF OpToRel
  <1>5. \A y \in T : ~(y < x)
    BY <1>3, <1>4
  <1> QED BY <1>5

\* Bytes of a text as numbers.
LEMMA ByteAtType ==
    ASSUME NEW a \in Texts, NEW i \in Nat \ {0}
    PROVE  /\ ByteAt(a, i) \in Nat /\ Len(a) \in Nat
           /\ i <= Len(a) => ByteAt(a, i) = a[i] + 1 /\ a[i] \in Nat
           /\ ~(i <= Len(a)) => ByteAt(a, i) = 0
  BY DEF ByteAt, Texts

\* A text that begins another one, and is not it.
LEMMA BeginsIs ==
    ASSUME NEW a \in Texts, NEW b \in Texts
    PROVE  IsStrictPrefix(a, b) <=> Len(a) < Len(b) /\ \A i \in 1..Len(a) : a[i] = b[i]
  <1> USE DEF Texts
  <1>1. Len(a) \in Nat /\ Len(b) \in Nat
    OBVIOUS
  <1>2. ASSUME IsStrictPrefix(a, b)
        PROVE  Len(a) < Len(b) /\ \A i \in 1..Len(a) : a[i] = b[i]
    <2>1. Len(a) <= Len(b) /\ SubSeq(a, 1, Len(a)) = SubSeq(b, 1, Len(a)) /\ a # b
      BY <1>2 DEF IsStrictPrefix, IsPrefix
    <2>2. \A i \in 1..Len(a) : SubSeq(a, 1, Len(a))[i] = a[i] /\ SubSeq(b, 1, Len(a))[i] = b[i]
      BY <1>1, <2>1
    <2>3. \A i \in 1..Len(a) : a[i] = b[i]
      BY <2>1, <2>2
    <2>4. Len(a) # Len(b)
      BY <2>1, <2>3, SeqEqual
    <2> QED BY <1>1, <2>1, <2>3, <2>4
  <1>3. ASSUME Len(a) < Len(b), \A i \in 1..Len(a) : a[i] = b[i]
        PROVE  IsStrictPrefix(a, b)
    <2>1. a # b
      BY <1>1, <1>3
    <2>2. PICK x, y : x = SubSeq(a, 1, Len(a)) /\ y = SubSeq(b, 1, Len(a))
      OBVIOUS
    <2>3. x \in Seq(Nat) /\ y \in Seq(Nat) /\ Len(x) = Len(a) /\ Len(y) = Len(a)
      BY <1>1, <1>3, <2>2
    <2>4. \A i \in 1..Len(a) : x[i] = a[i] /\ y[i] = b[i]
      BY <1>1, <1>3, <2>2
    <2>5. x = y
      BY <1>3, <2>3, <2>4, SeqEqual
    <2> QED BY <1>1, <1>3, <2>1, <2>2, <2>5 DEF IsStrictPrefix, IsPrefix
  <1> QED BY <1>2, <1>3

\* The order of texts, told by where they first differ.
LEMMA BeforeIs ==
    ASSUME NEW a \in Texts, NEW b \in Texts
    PROVE  TextBefore(a, b) <=> \E i \in Nat \ {0} : DiffersAt(a, b, i)
  <1>1. Len(a) \in Nat /\ Len(b) \in Nat /\ DOMAIN a = 1..Len(a) /\ DOMAIN b = 1..Len(b)
    BY DEF Texts
  <1>2. ASSUME IsStrictPrefix(a, b) PROVE \E i \in Nat \ {0} : DiffersAt(a, b, i)
    <2>1. Len(a) < Len(b) /\ \A i \in 1..Len(a) : a[i] = b[i]
      BY <1>2, BeginsIs
    <2>2. PICK k \in Nat \ {0} : k = Len(a) + 1
      BY <1>1
    <2>3. ByteAt(a, k) = 0 /\ ByteAt(b, k) \in Nat /\ ByteAt(b, k) # 0
      <3>1. k <= Len(b) /\ ~(k <= Len(a))
        BY <1>1, <2>1, <2>2
      <3> QED BY <3>1, ByteAtType
    <2>4. \A j \in 1 .. k - 1 : ByteAt(a, j) = ByteAt(b, j)
      BY <1>1, <2>1, <2>2 DEF ByteAt
    <2>5. ByteAt(a, k) < ByteAt(b, k)
      BY <2>3
    <2> QED BY <2>4, <2>5 DEF DiffersAt
  <1>3. ASSUME NEW i \in DOMAIN a \cap DOMAIN b, a[i] < b[i], \A j \in 1 .. i - 1 : a[j] = b[j]
        PROVE  \E k \in Nat \ {0} : DiffersAt(a, b, k)
    <2>1. i \in Nat \ {0} /\ i <= Len(a) /\ i <= Len(b)
      BY <1>1
    <2>2. ByteAt(a, i) < ByteAt(b, i)
      <3>1. ByteAt(a, i) = a[i] + 1 /\ ByteAt(b, i) = b[i] + 1 /\ a[i] \in Nat /\ b[i] \in Nat
        BY <2>1, ByteAtType
      <3> QED BY <1>3, <3>1
    <2>3. \A j \in 1 .. i - 1 : ByteAt(a, j) = ByteAt(b, j)
      BY <1>1, <1>3, <2>1 DEF ByteAt
    <2> QED BY <2>1, <2>2, <2>3 DEF DiffersAt
  <1>4. ASSUME NEW i \in Nat \ {0}, DiffersAt(a, b, i) PROVE TextBefore(a, b)
    <2>1. ByteAt(a, i) \in Nat /\ ByteAt(b, i) \in Nat /\ ByteAt(a, i) < ByteAt(b, i)
      BY <1>4, ByteAtType DEF DiffersAt
    <2>2. i <= Len(b)
      BY <2>1, ByteAtType
    <2>3. \A j \in 1 .. i - 1 : ByteAt(a, j) = ByteAt(b, j)
      BY <1>4 DEF DiffersAt
    <2>4. \A j \in 1 .. i - 1 : j <= Len(a)
      <3> SUFFICES ASSUME NEW j \in 1 .. i - 1, ~(j <= Len(a)) PROVE FALSE
        OBVIOUS
      <3>1. j \in Nat \ {0} /\ j <= Len(b)
        BY <1>1, <2>2
      <3>2. ByteAt(a, j) = 0 /\ ByteAt(b, j) = b[j] + 1 /\ b[j] \in Nat
        BY <3>1, ByteAtType
      <3> QED BY <2>3, <3>2
    <2>5. ASSUME NEW j \in 1 .. i - 1 PROVE a[j] = b[j]
      <3>1. j \in Nat \ {0} /\ j <= Len(b) /\ j <= Len(a)
        BY <1>1, <2>2, <2>4
      <3>2. ByteAt(a, j) = a[j] + 1 /\ a[j] \in Nat
        BY <3>1, ByteAtType
      <3>3. ByteAt(b, j) = b[j] + 1 /\ b[j] \in Nat
        BY <3>1, ByteAtType
      <3> QED BY <2>3, <3>2, <3>3
    <2>6. CASE i <= Len(a)
      <3>1. i \in DOMAIN a \cap DOMAIN b
        BY <1>1, <2>2, <2>6
      <3>2. ByteAt(a, i) = a[i] + 1 /\ ByteAt(b, i) = b[i] + 1 /\ a[i] \in Nat /\ b[i] \in Nat
        BY <2>2, <2>6, ByteAtType
      <3>3. a[i] < b[i]
        BY <2>1, <3>2
      <3> QED BY <2>5, <3>1, <3>3 DEF TextBefore
    <2>7. CASE ~(i <= Len(a))
      <3>1. i = Len(a) + 1
        <4>1. ~(Len(a) + 1 \in 1 .. i - 1)
          BY <1>1, <2>4
        <4> QED BY <1>1, <2>7, <4>1
      <3>2. Len(a) < Len(b) /\ \A j \in 1..Len(a) : a[j] = b[j]
        BY <1>1, <2>2, <2>5, <3>1
      <3> QED BY <3>2, BeginsIs DEF TextBefore
    <2> QED BY <2>6, <2>7
  <1> QED BY <1>2, <1>3, <1>4 DEF TextBefore

\* Two different texts are ordered one way or the other.
LEMMA BeforeTotal ==
    ASSUME NEW a \in Texts, NEW b \in Texts, a # b
    PROVE  TextBefore(a, b) \/ TextBefore(b, a)
  <1>1. Len(a) \in Nat /\ Len(b) \in Nat
    BY DEF Texts
  <1>2. PICK T : T = {i \in Nat \ {0} : ByteAt(a, i) # ByteAt(b, i)}
    OBVIOUS
  <1>3. T # {}
    <2> SUFFICES ASSUME \A i \in Nat \ {0} : ByteAt(a, i) = ByteAt(b, i) PROVE FALSE
      BY <1>2
    <2>1. ASSUME NEW x \in Texts, NEW y \in Texts, \A i \in Nat \ {0} : ByteAt(x, i) = ByteAt(y, i)
          PROVE  Len(x) <= Len(y) /\ \A i \in 1..Len(x) : x[i] = y[i]
      <3>1. Len(x) \in Nat /\ Len(y) \in Nat
        BY DEF Texts
      <3>2. ASSUME NEW i \in 1..Len(x) PROVE i <= Len(y) /\ x[i] = y[i]
        <4>1. i \in Nat \ {0} /\ i <= Len(x)
          BY <3>1
        <4>2. ByteAt(x, i) = x[i] + 1 /\ x[i] \in Nat
          BY <4>1, ByteAtType
        <4>3. ByteAt(y, i) = x[i] + 1
          BY <2>1, <4>1, <4>2
        <4>4. i <= Len(y)
          BY <4>1, <4>2, <4>3, ByteAtType
        <4>5. ByteAt(y, i) = y[i] + 1 /\ y[i] \in Nat
          BY <4>1, <4>4, ByteAtType
        <4> QED BY <4>2, <4>3, <4>4, <4>5
      <3>3. Len(x) <= Len(y)
        <4>1. CASE Len(x) = 0
          BY <3>1, <4>1
        <4>2. CASE Len(x) # 0
          <5>1. Len(x) \in 1..Len(x)
            BY <3>1, <4>2
          <5> QED BY <3>2, <5>1
        <4> QED BY <4>1, <4>2
      <3> QED BY <3>2, <3>3
    <2>2. Len(a) <= Len(b) /\ \A i \in 1..Len(a) : a[i] = b[i]
      BY <2>1
    <2>3. Len(b) <= Len(a)
      BY <2>1
    <2>4. Len(a) = Len(b)
      BY <1>1, <2>2, <2>3
    <2> QED BY <2>2, <2>4, SeqEqual DEF Texts
  <1>4. T \in SUBSET Nat
    BY <1>2
  <1>5. PICK i \in T : \A j \in T : i <= j
    BY <1>3, <1>4, LeastNumber
  <1>6. i \in Nat \ {0} /\ ByteAt(a, i) # ByteAt(b, i)
    BY <1>2
  <1>7. ASSUME NEW j \in 1 .. i - 1 PROVE ByteAt(a, j) = ByteAt(b, j)
    <2>1. j \in Nat \ {0} /\ ~(i <= j)
      BY <1>6
    <2> QED BY <1>2, <1>5, <2>1
  <1>8. ByteAt(a, i) \in Nat /\ ByteAt(b, i) \in Nat
    BY <1>6, ByteAtType
  <1>9. ByteAt(a, i) < ByteAt(b, i) \/ ByteAt(b, i) < ByteAt(a, i)
    BY <1>6, <1>8
  <1>10. DiffersAt(a, b, i) \/ DiffersAt(b, a, i)
    BY <1>7, <1>9 DEF DiffersAt
  <1> QED BY <1>6, <1>10, BeforeIs

\* The order is transitive, and no text comes before itself.
LEMMA BeforeTransitive ==
    ASSUME NEW a \in Texts, NEW b \in Texts, NEW c \in Texts, TextBefore(a, b), TextBefore(b, c)
    PROVE  TextBefore(a, c)
  <1>1. PICK i \in Nat \ {0} : DiffersAt(a, b, i)
    BY BeforeIs
  <1>2. PICK j \in Nat \ {0} : DiffersAt(b, c, j)
    BY BeforeIs
  <1>3. PICK k \in Nat \ {0} : (k = i \/ k = j) /\ k <= i /\ k <= j
    <2>1. CASE i <= j
      BY <2>1
    <2>2. CASE ~(i <= j)
      BY <2>2
    <2> QED BY <2>1, <2>2
  <1>4. \A l \in 1 .. i - 1 : ByteAt(a, l) = ByteAt(b, l)
    BY <1>1 DEF DiffersAt
  <1>5. \A l \in 1 .. j - 1 : ByteAt(b, l) = ByteAt(c, l)
    BY <1>2 DEF DiffersAt
  <1>6. ByteAt(a, i) < ByteAt(b, i) /\ ByteAt(b, j) < ByteAt(c, j)
    BY <1>1, <1>2 DEF DiffersAt
  <1>7. \A l \in 1 .. k - 1 : ByteAt(a, l) = ByteAt(c, l)
    <2>1. \A l \in 1 .. k - 1 : l \in 1 .. i - 1 /\ l \in 1 .. j - 1
      BY <1>3
    <2> QED BY <1>4, <1>5, <2>1
  <1>8. ByteAt(a, k) < ByteAt(c, k)
    <2>1. ByteAt(a, k) \in Nat /\ ByteAt(b, k) \in Nat /\ ByteAt(c, k) \in Nat
      BY ByteAtType
    <2>2. CASE k = i /\ k = j
      BY <1>6, <2>1, <2>2
    <2>3. CASE k = i /\ k # j
      <3>1. k \in 1 .. j - 1
        BY <1>3, <2>3
      <3>2. ByteAt(b, k) = ByteAt(c, k)
        BY <1>5, <3>1
      <3> QED BY <1>6, <2>1, <2>3, <3>2
    <2>4. CASE k # i /\ k = j
      <3>1. k \in 1 .. i - 1
        BY <1>3, <2>4
      <3>2. ByteAt(a, k) = ByteAt(b, k)
        BY <1>4, <3>1
      <3> QED BY <1>6, <2>1, <2>4, <3>2
    <2> QED BY <1>3, <2>2, <2>3, <2>4
  <1>9. DiffersAt(a, c, k)
    BY <1>7, <1>8 DEF DiffersAt
  <1> QED BY <1>9, BeforeIs

\* No text comes before itself.
LEMMA BeforeIrreflexive ==
    ASSUME NEW a \in Texts, TextBefore(a, a)
    PROVE  FALSE
  <1>1. PICK i \in Nat \ {0} : DiffersAt(a, a, i)
    BY BeforeIs
  <1>2. ByteAt(a, i) \in Nat /\ ByteAt(a, i) < ByteAt(a, i)
    BY <1>1, ByteAtType DEF DiffersAt
  <1> QED BY <1>2

\* InOrder lists the texts of a finite set, each of them and no other.
LEMMA InOrderLists ==
    ASSUME NEW S \in SUBSET Texts, IsFiniteSet(S)
    PROVE  /\ Cardinality(S) \in Nat
           /\ \A i \in 1..Cardinality(S) : InOrder(S)[i] \in S
           /\ \A k \in S : \E i \in 1..Cardinality(S) : InOrder(S)[i] = k
  <1>1. PICK n \in Nat : n = Cardinality(S)
    BY FS_CardinalityType
  <1>2. ASSUME NEW k \in S
        PROVE  IsFiniteSet(Before(k, S)) /\ Cardinality(Before(k, S)) \in 0 .. n - 1
    <2>1. Before(k, S) \in SUBSET S
      BY DEF Before
    <2>2. k \notin Before(k, S)
      BY BeforeIrreflexive DEF Before
    <2>3. IsFiniteSet(Before(k, S)) /\ Cardinality(Before(k, S)) <= Cardinality(S)
          /\ (Cardinality(S) = Cardinality(Before(k, S)) => S = Before(k, S))
      BY <2>1, FS_Subset
    <2>4. Cardinality(Before(k, S)) \in Nat
      BY <2>3, FS_CardinalityType
    <2> QED BY <1>1, <2>2, <2>3, <2>4
  <1>3. ASSUME NEW k \in S, NEW l \in S, TextBefore(k, l)
        PROVE  Cardinality(Before(k, S)) < Cardinality(Before(l, S))
    <2>1. Before(k, S) \in SUBSET Before(l, S)
      <3> SUFFICES ASSUME NEW j \in S, TextBefore(j, k) PROVE TextBefore(j, l)
        BY DEF Before
      <3> QED BY <1>3, BeforeTransitive
    <2>2. k \in Before(l, S) /\ k \notin Before(k, S)
      BY <1>3, BeforeIrreflexive DEF Before
    <2>3. Cardinality(Before(k, S)) <= Cardinality(Before(l, S))
          /\ Cardinality(Before(l, S)) # Cardinality(Before(k, S))
      BY <1>2, <2>1, <2>2, FS_Subset
    <2>4. Cardinality(Before(k, S)) \in Nat /\ Cardinality(Before(l, S)) \in Nat
      BY <1>1, <1>2
    <2> QED BY <2>3, <2>4
  <1>4. ASSUME NEW k \in S, NEW l \in S, Cardinality(Before(k, S)) = Cardinality(Before(l, S))
        PROVE  k = l
    <2> SUFFICES ASSUME k # l PROVE FALSE
      OBVIOUS
    <2>1. TextBefore(k, l) \/ TextBefore(l, k)
      BY BeforeTotal
    <2>2. Cardinality(Before(k, S)) \in Nat /\ Cardinality(Before(l, S)) \in Nat
      BY <1>1, <1>2
    <2>3. CASE TextBefore(k, l)
      BY <1>3, <1>4, <2>2, <2>3
    <2>4. CASE TextBefore(l, k)
      BY <1>3, <1>4, <2>2, <2>4
    <2> QED BY <2>1, <2>3, <2>4
  <1>5. PICK rank : rank = [k \in S |-> Cardinality(Before(k, S))]
    OBVIOUS
  <1>6. rank \in Injection(S, 0 .. n - 1)
    BY <1>2, <1>4, <1>5 DEF Injection, IsInjective
  <1>7. IsFiniteSet(0 .. n - 1) /\ Cardinality(0 .. n - 1) = n
    <2>1. PICK m \in Int : m = n - 1
      OBVIOUS
    <2>2. IsFiniteSet(0..m) /\ Cardinality(0..m) = IF 0 > m THEN 0 ELSE m - 0 + 1
      BY FS_Interval
    <2>3. (IF 0 > m THEN 0 ELSE m - 0 + 1) = n
      BY <2>1
    <2> QED BY <2>1, <2>2, <2>3
  <1>8. rank \in Surjection(S, 0 .. n - 1)
    BY <1>1, <1>6, <1>7, FS_Injection
  <1>9. \A r \in 0 .. n - 1 : \E k \in S : Cardinality(Before(k, S)) = r
    BY <1>5, <1>8 DEF Surjection
  <1>10. ASSUME NEW i \in 1..n
         PROVE  InOrder(S)[i] \in S /\ Cardinality(Before(InOrder(S)[i], S)) = i - 1
    <2>1. i - 1 \in 0 .. n - 1
      OBVIOUS
    <2>2. \E k \in S : Cardinality(Before(k, S)) = i - 1
      BY <1>9, <2>1
    <2>3. InOrder(S)[i] = CHOOSE k \in S : Cardinality(Before(k, S)) = i - 1
      BY <1>1 DEF InOrder
    <2> QED BY <2>2, <2>3
  <1>11. ASSUME NEW k \in S PROVE \E i \in 1..n : InOrder(S)[i] = k
    <2>1. PICK i \in 1..n : Cardinality(Before(k, S)) = i - 1
      <3>1. PICK r \in 0 .. n - 1 : r = Cardinality(Before(k, S))
        BY <1>2
      <3>2. r + 1 \in 1..n /\ (r + 1) - 1 = r
        OBVIOUS
      <3> QED BY <3>1, <3>2
    <2>2. InOrder(S)[i] \in S /\ Cardinality(Before(InOrder(S)[i], S)) = i - 1
      BY <1>10
    <2> QED BY <1>4, <2>1, <2>2
  <1> QED BY <1>1, <1>10, <1>11

-----------------------------------------------------------------------------
(* The key tells the item. *)

\* Metadata: finitely many texts with a text each.
TextMap(md) == IsFiniteSet(DOMAIN md) /\ DOMAIN md \subseteq Texts /\ md \in [DOMAIN md -> Texts]

\* A pair of the metadata in the key, and all of them.
Pair(k, v) == Cat(Cat(Cat(Escaped(k), End), Escaped(v)), End)
Pairs(md) == [i \in 1..Cardinality(DOMAIN md) |->
                Pair(InOrder(DOMAIN md)[i], md[InOrder(DOMAIN md)[i]])]

\* A pair and what follows it, read from the front.
LEMMA PairIs ==
    ASSUME NEW k \in Texts, NEW v \in Texts, NEW s \in Texts
    PROVE  /\ Pair(k, v) \in Texts /\ Cat(End, s) \in Texts
           /\ Cat(Escaped(v), Cat(End, s)) \in Texts
           /\ Cat(Pair(k, v), s) = Cat(Escaped(k), Cat(End, Cat(Escaped(v), Cat(End, s))))
  <1>1. PICK e \in Texts : e = End
    <2>1. End \in Texts
      BY FirstBytes DEF End, Nul
    <2> QED BY <2>1
  <1>2. PICK a \in Texts, b \in Texts : a = Escaped(k) /\ b = Escaped(v)
    BY EscapedIs
  <1>3. Cat(a, e) \in Texts /\ Cat(b, e) \in Texts /\ Cat(e, s) \in Texts
    BY CatAssoc
  <1>4. Cat(Cat(a, e), b) \in Texts
    BY <1>3, CatAssoc
  <1>5. Cat(Cat(Cat(a, e), b), e) \in Texts
    BY <1>4, CatAssoc
  <1>6. Cat(b, Cat(e, s)) \in Texts
    BY <1>3, CatAssoc
  <1>7. Cat(Cat(Cat(Cat(a, e), b), e), s) = Cat(Cat(a, e), Cat(b, Cat(e, s)))
    BY <1>3, BuiltUp
  <1>8. Cat(Cat(a, e), Cat(b, Cat(e, s))) = Cat(a, Cat(e, Cat(b, Cat(e, s))))
    BY <1>6, CatAssoc
  <1> QED BY <1>1, <1>2, <1>3, <1>5, <1>6, <1>7, <1>8 DEF Pair

\* Two pairs that begin a common text are one.
LEMMA PairTells ==
    ASSUME NEW k \in Texts, NEW v \in Texts, NEW l \in Texts, NEW w \in Texts,
           NEW s \in Texts, NEW t \in Texts, Cat(Pair(k, v), s) = Cat(Pair(l, w), t)
    PROVE  k = l /\ v = w
  <1>1. PICK x \in Texts : x = Cat(Escaped(v), Cat(End, s)) /\ Cat(Pair(k, v), s) = Cat(Escaped(k), Cat(End, x))
    BY PairIs
  <1>2. PICK y \in Texts : y = Cat(Escaped(w), Cat(End, t)) /\ Cat(Pair(l, w), t) = Cat(Escaped(l), Cat(End, y))
    BY PairIs
  <1>3. Cat(Escaped(k), Cat(End, x)) = Cat(Escaped(l), Cat(End, y))
    BY <1>1, <1>2
  <1>4. k = l /\ x = y
    BY <1>3, Unescape
  <1>5. Cat(Escaped(v), Cat(End, s)) = Cat(Escaped(w), Cat(End, t))
    BY <1>1, <1>2, <1>4
  <1>6. v = w
    BY <1>5, Unescape
  <1> QED BY <1>4, <1>6

\* A pair is never empty.
LEMMA PairNotEmpty ==
    ASSUME NEW k \in Texts, NEW v \in Texts, NEW s \in Texts
    PROVE  Cat(Pair(k, v), s) # <<>>
  <1>1. PICK a \in Texts : a = Cat(Cat(Escaped(k), End), Escaped(v))
    <2>1. End \in Texts /\ Escaped(k) \in Texts /\ Escaped(v) \in Texts
      BY FirstBytes, EscapedIs DEF End, Nul
    <2>2. Cat(Escaped(k), End) \in Texts
      BY <2>1, CatBytes
    <2>3. Cat(Cat(Escaped(k), End), Escaped(v)) \in Texts
      BY <2>1, <2>2, CatBytes
    <2> QED BY <2>3
  <1>2. PICK e \in Texts : e = End /\ Len(e) = 2
    <2>1. 0 \in Nat
      OBVIOUS
    <2> QED BY <2>1, ShortTexts DEF End, Nul
  <1>3. Len(Cat(a, e)) = Len(a) + Len(e) /\ Len(a) \in Nat /\ Cat(a, e) \in Texts
    BY CatBytes
  <1>4. Len(Cat(Cat(a, e), s)) = Len(Cat(a, e)) + Len(s) /\ Len(s) \in Nat
    BY <1>3, CatBytes
  <1>5. Len(Cat(Cat(a, e), s)) # 0
    BY <1>2, <1>3, <1>4
  <1> QED BY <1>1, <1>2, <1>5 DEF Pair

\* The pairs of the metadata are words, and its key spells them.
LEMMA MetadataKeyIs ==
    ASSUME NEW md, TextMap(md)
    PROVE  /\ Pairs(md) \in Seq(Texts) /\ Len(Pairs(md)) = Cardinality(DOMAIN md)
           /\ Cardinality(DOMAIN md) \in Nat
           /\ \A i \in 1..Cardinality(DOMAIN md) :
                 LET k == InOrder(DOMAIN md)[i]
                 IN  k \in DOMAIN md /\ k \in Texts /\ md[k] \in Texts /\ Pairs(md)[i] = Pair(k, md[k])
           /\ \E f : Spells(f, Pairs(md)) /\ MetadataKey(md) = f[Len(Pairs(md))]
           /\ MetadataKey(md) \in Texts
  <1>1. PICK n \in Nat : n = Cardinality(DOMAIN md)
    BY FS_CardinalityType DEF TextMap
  <1>2. DOMAIN md \in SUBSET Texts /\ IsFiniteSet(DOMAIN md) /\ md \in [DOMAIN md -> Texts]
    BY DEF TextMap
  <1>3. PICK keys : keys = InOrder(DOMAIN md)
    OBVIOUS
  <1>4. \A i \in 1..n : keys[i] \in DOMAIN md
    BY <1>1, <1>2, <1>3, InOrderLists
  <1>5. \A i \in 1..n : keys[i] \in Texts /\ md[keys[i]] \in Texts
    BY <1>2, <1>4
  <1>6. DOMAIN keys = 1..n
    BY <1>1, <1>3 DEF InOrder
  <1>7. Pairs(md) = [i \in 1..n |-> Pair(keys[i], md[keys[i]])]
    BY <1>1, <1>3 DEF Pairs
  <1>8. \A i \in 1..n : Pair(keys[i], md[keys[i]]) \in Texts
    <2>1. <<>> \in Texts
      BY DEF Texts
    <2> QED BY <1>5, <2>1, PairIs
  <1>9. Pairs(md) \in Seq(Texts) /\ Len(Pairs(md)) = n
    BY <1>7, <1>8
  <1>10. MetadataKey(md) = FlattenSeq(Pairs(md))
    BY <1>3, <1>6, <1>7 DEF MetadataKey, Pair, Cat
  <1>11. PICK f : Spells(f, Pairs(md)) /\ FlattenSeq(Pairs(md)) = f[Len(Pairs(md))]
    BY <1>9, FlatIs
  <1>12. f[Len(Pairs(md))] \in Texts
    BY <1>9, <1>11 DEF Spells
  <1>13. \A i \in 1..n : Pairs(md)[i] = Pair(keys[i], md[keys[i]])
    BY <1>7
  <1> QED BY <1>1, <1>3, <1>4, <1>5, <1>9, <1>10, <1>11, <1>12, <1>13

\* Metadata with one key have the same pairs; the smaller given first.
LEMMA MetadataKeyTellsPairs ==
    ASSUME NEW c, NEW d, TextMap(c), TextMap(d), MetadataKey(c) = MetadataKey(d),
           Cardinality(DOMAIN c) <= Cardinality(DOMAIN d)
    PROVE  /\ Cardinality(DOMAIN c) = Cardinality(DOMAIN d)
           /\ \A i \in 1..Cardinality(DOMAIN c) :
                 LET k == InOrder(DOMAIN c)[i] IN k = InOrder(DOMAIN d)[i] /\ c[k] = d[k]
  <1>1. PICK m \in Nat : m = Cardinality(DOMAIN c)
    BY MetadataKeyIs
  <1>2. PICK n \in Nat : n = Cardinality(DOMAIN d)
    BY MetadataKeyIs
  <1>3. PICK f : Spells(f, Pairs(c)) /\ MetadataKey(c) = f[Len(Pairs(c))]
    BY MetadataKeyIs
  <1>4. PICK g : Spells(g, Pairs(d)) /\ MetadataKey(d) = g[Len(Pairs(d))]
    BY MetadataKeyIs
  <1>5. Pairs(c) \in Seq(Texts) /\ Len(Pairs(c)) = m
    BY <1>1, MetadataKeyIs
  <1>6. Pairs(d) \in Seq(Texts) /\ Len(Pairs(d)) = n
    BY <1>2, MetadataKeyIs
  <1>7. PICK K, L : K = InOrder(DOMAIN c) /\ L = InOrder(DOMAIN d)
    OBVIOUS
  <1>8. \A i \in 1..m : K[i] \in Texts /\ c[K[i]] \in Texts /\ Pairs(c)[i] = Pair(K[i], c[K[i]])
    BY <1>1, <1>7, MetadataKeyIs
  <1>9. \A i \in 1..n : L[i] \in Texts /\ d[L[i]] \in Texts /\ Pairs(d)[i] = Pair(L[i], d[L[i]])
    BY <1>2, <1>7, MetadataKeyIs
  <1>10. TellApart(Pairs(c), Pairs(d))
    <2> SUFFICES ASSUME NEW i \in 1..m, i <= n, NEW s \in Texts, NEW t \in Texts,
                        Cat(Pairs(c)[i], s) = Cat(Pairs(d)[i], t)
                 PROVE  Pairs(c)[i] = Pairs(d)[i]
      BY <1>5, <1>6 DEF TellApart
    <2>1. i \in 1..n
      BY <1>1, <1>2
    <2>2. K[i] = L[i] /\ c[K[i]] = d[L[i]]
      BY <1>8, <1>9, <2>1, PairTells
    <2> QED BY <1>8, <1>9, <2>1, <2>2
  <1>11. SpellOneText(Pairs(c), Pairs(d), f, g, <<>>, <<>>)
    <2>1. <<>> \in Texts
      BY DEF Texts
    <2>2. f[Len(Pairs(c))] = g[Len(Pairs(d))]
      BY <1>3, <1>4
    <2> QED BY <1>3, <1>4, <1>5, <1>6, <1>10, <2>1, <2>2 DEF SpellOneText
  <1>12. m = n
    <2> SUFFICES ASSUME m < n PROVE FALSE
      BY <1>1, <1>2
    <2>1. Len(Pairs(c)) < Len(Pairs(d)) /\ Len(Pairs(c)) <= Len(Pairs(d))
      BY <1>5, <1>6
    <2>2. PICK t \in Texts : <<>> = Cat(Pairs(d)[Len(Pairs(c)) + 1], t)
      BY <1>11, <2>1, RestsAgree
    <2>3. PICK i \in 1..n : i = Len(Pairs(c)) + 1
      BY <1>5
    <2>4. Pairs(d)[i] = Pair(L[i], d[L[i]]) /\ L[i] \in Texts /\ d[L[i]] \in Texts
      BY <1>9
    <2> QED BY <2>2, <2>3, <2>4, PairNotEmpty
  <1>13. ASSUME NEW i \in 1..m PROVE K[i] = L[i] /\ c[K[i]] = d[L[i]]
    <2>1. \A j \in 0..Len(Pairs(c)) : j <= Len(Pairs(d)) =>
              f[j] = g[j] /\ (j # 0 => Pairs(c)[j] = Pairs(d)[j])
      BY <1>11, WordsAgree
    <2>2. i \in 0..Len(Pairs(c)) /\ i <= Len(Pairs(d)) /\ i # 0 /\ i \in 1..n
      BY <1>5, <1>6, <1>12
    <2>3. Pairs(c)[i] = Pairs(d)[i]
      BY <2>1, <2>2
    <2>4. PICK s \in Texts : TRUE
      <3>1. <<>> \in Texts
        BY DEF Texts
      <3> QED BY <3>1
    <2>5. Cat(Pairs(c)[i], s) = Cat(Pairs(d)[i], s)
      BY <2>3
    <2> QED BY <1>8, <1>9, <2>2, <2>5, PairTells
  <1> QED BY <1>1, <1>2, <1>7, <1>12, <1>13

\* Metadata with one key are the same.
LEMMA MetadataKeyTells ==
    ASSUME NEW c, NEW d, TextMap(c), TextMap(d), MetadataKey(c) = MetadataKey(d)
    PROVE  c = d
  <1>1. ASSUME NEW x, NEW y, TextMap(x), TextMap(y), MetadataKey(x) = MetadataKey(y),
               Cardinality(DOMAIN x) <= Cardinality(DOMAIN y)
        PROVE  x = y
    <2>1. PICK n \in Nat : n = Cardinality(DOMAIN x)
      BY <1>1, MetadataKeyIs
    <2>2. PICK K : K = InOrder(DOMAIN x)
      OBVIOUS
    <2>3. Cardinality(DOMAIN y) = n
      BY <1>1, <2>1, MetadataKeyTellsPairs
    <2>4. \A i \in 1..n : K[i] = InOrder(DOMAIN y)[i] /\ x[K[i]] = y[K[i]]
      BY <1>1, <2>1, <2>2, MetadataKeyTellsPairs
    <2>5. DOMAIN x \in SUBSET Texts /\ IsFiniteSet(DOMAIN x)
          /\ DOMAIN y \in SUBSET Texts /\ IsFiniteSet(DOMAIN y)
      BY <1>1 DEF TextMap
    <2>6. (\A i \in 1..n : K[i] \in DOMAIN x) /\ \A k \in DOMAIN x : \E i \in 1..n : K[i] = k
      BY <2>1, <2>2, <2>5, InOrderLists
    <2>7. /\ \A i \in 1..n : InOrder(DOMAIN y)[i] \in DOMAIN y
          /\ \A k \in DOMAIN y : \E i \in 1..n : InOrder(DOMAIN y)[i] = k
      BY <2>3, <2>5, InOrderLists
    <2>8. DOMAIN x = DOMAIN y
      <3>1. \A k \in DOMAIN x : k \in DOMAIN y
        BY <2>4, <2>6, <2>7
      <3>2. \A k \in DOMAIN y : k \in DOMAIN x
        BY <2>4, <2>6, <2>7
      <3> QED BY <3>1, <3>2
    <2>9. \A k \in DOMAIN x : x[k] = y[k]
      BY <2>4, <2>6
    <2>10. x \in [DOMAIN x -> Texts] /\ y \in [DOMAIN y -> Texts]
      BY <1>1 DEF TextMap
    <2> QED BY <2>8, <2>9, <2>10
  <1>2. Cardinality(DOMAIN c) \in Nat /\ Cardinality(DOMAIN d) \in Nat
    BY MetadataKeyIs
  <1>3. CASE Cardinality(DOMAIN c) <= Cardinality(DOMAIN d)
    BY <1>1, <1>3
  <1>4. CASE Cardinality(DOMAIN d) <= Cardinality(DOMAIN c)
    BY <1>1, <1>4
  <1> QED BY <1>2, <1>3, <1>4

-----------------------------------------------------------------------------
(* The way of an item. *)

\* An item with texts for its text and its metadata.
IsItem(x) ==
    /\ x = [kind |-> x.kind, text |-> x.text, n |-> x.n, md |-> x.md]
    /\ x.text \in Texts /\ TextMap(x.md)
    /\ \/ x.kind = "document" /\ x.n = 0
       \/ x.kind = "email" /\ x.n \in Indexes

\* An item of a request: its metadata have a kind and a path, the builder's or the
\* request's, and the artifact and the number of a chunk.
IsAsked(x) ==
    /\ IsItem(x)
    /\ x.md[SourceKind] \in Texts /\ x.md[SourcePath] \in Texts
    /\ x.kind = "email" =>
          /\ ArtifactRef \in DOMAIN x.md /\ x.md[ArtifactRef] = x.text
          /\ ChunkIndex \in DOMAIN x.md /\ x.md[ChunkIndex] = <<x.n>>

\* A path with one kind of slash is a path, and normalizing it again changes nothing.
LEMMA NormalizeIs ==
    ASSUME NEW p \in Texts
    PROVE  Normalize(p) \in Texts /\ Normalize(Normalize(p)) = Normalize(p)
  <1>1. DOMAIN p = 1..Len(p) /\ Len(p) \in Nat /\ \A i \in 1..Len(p) : p[i] \in Nat
    BY DEF Texts
  <1>2. PICK q : q = Normalize(p)
    OBVIOUS
  <1>3. q = [i \in 1..Len(p) |-> IF p[i] = 92 THEN 47 ELSE p[i]]
    BY <1>1, <1>2 DEF Normalize, Backslash, Slash
  <1>4. \A i \in 1..Len(p) : q[i] \in Nat /\ q[i] # 92
    BY <1>1, <1>3
  <1>5. q \in [1..Len(p) -> Nat]
    BY <1>3, <1>4
  <1>6. q \in Texts
    BY <1>1, <1>5 DEF Texts
  <1>7. Normalize(q) = [i \in 1..Len(p) |-> q[i]]
    BY <1>4, <1>5 DEF Normalize, Backslash, Slash
  <1> QED BY <1>2, <1>5, <1>6, <1>7

\* The names of the fields are four different texts.
LEMMA FieldNames ==
    /\ SourceKind \in Texts /\ SourcePath \in Texts /\ ArtifactRef \in Texts /\ ChunkIndex \in Texts
    /\ DocumentKind \in Texts /\ EmailKind \in Texts
    /\ SourceKind # SourcePath /\ SourceKind # ArtifactRef /\ SourceKind # ChunkIndex
    /\ SourcePath # ArtifactRef /\ SourcePath # ChunkIndex
    /\ ArtifactRef # ChunkIndex /\ DocumentKind # EmailKind
  <1>1. /\ DocumentKind = <<1>> /\ EmailKind = <<2>> /\ SourceKind = <<3>> /\ SourcePath = <<4>>
        /\ ArtifactRef = <<5>> /\ ChunkIndex = <<6>>
    BY DEF DocumentKind, EmailKind, SourceKind, SourcePath, ArtifactRef, ChunkIndex
  <1>2. \A x \in Nat : <<x>> \in Texts /\ <<x>>[1] = x
    BY ShortTexts
  <1>3. /\ <<1>>[1] = 1 /\ <<2>>[1] = 2 /\ <<3>>[1] = 3 /\ <<4>>[1] = 4 /\ <<5>>[1] = 5 /\ <<6>>[1] = 6
    BY <1>2
  <1>4. <<1>> \in Texts /\ <<2>> \in Texts /\ <<3>> \in Texts /\ <<4>> \in Texts /\ <<5>> \in Texts
        /\ <<6>> \in Texts
    BY <1>2
  <1> QED BY <1>1, <1>3, <1>4

\* A map of texts with the fields of two, the first one's values before the second's.
LiesOver(o, c, d) ==
    /\ TextMap(o) /\ DOMAIN o = DOMAIN c \cup DOMAIN d
    /\ \A k \in DOMAIN c : o[k] = c[k]
    /\ \A k \in DOMAIN d : k \notin DOMAIN c => o[k] = d[k]

\* One map of texts over another.
LEMMA OverIs ==
    ASSUME NEW c, NEW d, TextMap(c), TextMap(d)
    PROVE  LiesOver(Over(c, d), c, d)
  <1>1. PICK D, o : D = DOMAIN c \cup DOMAIN d /\ o = Over(c, d)
    OBVIOUS
  <1>2. o = [k \in D |-> IF k \in DOMAIN c THEN c[k] ELSE d[k]]
    BY <1>1 DEF Over
  <1>3. IsFiniteSet(D) /\ D \subseteq Texts
    BY <1>1, FS_Union DEF TextMap
  <1>4. o \in [D -> Texts] /\ DOMAIN o = D
    <2>1. \A k \in D : (k \in DOMAIN c => c[k] \in Texts) /\ (k \notin DOMAIN c => d[k] \in Texts)
      BY <1>1 DEF TextMap
    <2> QED BY <1>2, <2>1
  <1>5. /\ \A k \in DOMAIN c : o[k] = c[k]
        /\ \A k \in DOMAIN d : k \notin DOMAIN c => o[k] = d[k]
    BY <1>1, <1>2
  <1>6. TextMap(o)
    BY <1>3, <1>4 DEF TextMap
  <1> QED BY <1>1, <1>4, <1>5, <1>6 DEF LiesOver

\* A map with two fields is a map of texts.
LEMMA TwoFields ==
    ASSUME NEW a \in Texts, NEW b \in Texts, a # b, NEW v \in Texts, NEW w \in Texts,
           NEW e, e = [k \in {a, b} |-> IF k = a THEN v ELSE w]
    PROVE  TextMap(e) /\ DOMAIN e = {a, b} /\ e[a] = v /\ e[b] = w
  <1>1. DOMAIN e = {a, b} /\ e[a] = v /\ e[b] = w /\ e \in [{a, b} -> Texts]
    OBVIOUS
  <1>2. IsFiniteSet({a} \cup {b})
    BY FS_Singleton, FS_AddElement
  <1>3. {a} \cup {b} = {a, b}
    OBVIOUS
  <1> QED BY <1>1, <1>2, <1>3 DEF TextMap

\* A request's metadata are a map of texts.
LEMMA MetadataIs == \A md \in Metadata : TextMap(md)
  BY KeysAssumption DEF TextMap, Texts

\* Metadata with a source: what they name themselves stays.
Sourced(o, md, kind, path) ==
    /\ TextMap(o) /\ DOMAIN md \subseteq DOMAIN o
    /\ o[SourceKind] \in Texts /\ o[SourcePath] \in Texts
    /\ \A k \in DOMAIN md : o[k] = md[k]
    /\ SourceKind \notin DOMAIN md => o[SourceKind] = kind
    /\ SourcePath \notin DOMAIN md => o[SourcePath] = Normalize(path)

\* That is what metadata_to_lexongraph gives.
LEMMA WithSourceIs ==
    ASSUME NEW md, TextMap(md), NEW kind \in Texts, NEW path \in Texts
    PROVE  Sourced(WithSource(md, kind, path), md, kind, path)
  <1>1. PICK e : e = [k \in {SourceKind, SourcePath} |-> IF k = SourceKind THEN kind ELSE Normalize(path)]
    OBVIOUS
  <1>2. TextMap(e) /\ DOMAIN e = {SourceKind, SourcePath} /\ e[SourceKind] = kind
        /\ e[SourcePath] = Normalize(path)
    BY <1>1, NormalizeIs, FieldNames, TwoFields
  <1>3. PICK o : o = WithSource(md, kind, path)
    OBVIOUS
  <1>4. o = Over(md, e)
    BY <1>1, <1>3 DEF WithSource
  <1>5. LiesOver(o, md, e)
    BY <1>2, <1>4, OverIs
  <1>6. o[SourceKind] \in Texts /\ o[SourcePath] \in Texts
    BY <1>2, <1>5 DEF TextMap, LiesOver
  <1>7. Sourced(o, md, kind, path)
    BY <1>2, <1>5, <1>6 DEF LiesOver, Sourced
  <1> QED BY <1>3, <1>7

\* The metadata of a chunk name its artifact and its number.
LEMMA ChunkMetadataIs ==
    ASSUME NEW md, TextMap(md), NEW ref \in Texts, NEW n \in Nat
    PROVE  LET o == ChunkMetadata(md, ref, n)
           IN  /\ TextMap(o) /\ ArtifactRef \in DOMAIN o /\ ChunkIndex \in DOMAIN o
               /\ o[ArtifactRef] = ref /\ o[ChunkIndex] = <<n>>
               /\ SourceKind \in DOMAIN o => SourceKind \in DOMAIN md
  <1>1. PICK e : e = [k \in {ArtifactRef, ChunkIndex} |-> IF k = ArtifactRef THEN ref ELSE <<n>>]
    OBVIOUS
  <1>2. TextMap(e) /\ DOMAIN e = {ArtifactRef, ChunkIndex} /\ e[ArtifactRef] = ref
        /\ e[ChunkIndex] = <<n>>
    <2>1. PICK v : v = <<n>>
      OBVIOUS
    <2>2. v \in Texts
      BY <2>1, ShortTexts
    <2>3. ArtifactRef \in Texts /\ ChunkIndex \in Texts /\ ArtifactRef # ChunkIndex
      BY FieldNames
    <2>4. e = [k \in {ArtifactRef, ChunkIndex} |-> IF k = ArtifactRef THEN ref ELSE v]
      BY <1>1, <2>1
    <2> QED BY <2>1, <2>2, <2>3, <2>4, TwoFields
  <1>3. PICK o : o = ChunkMetadata(md, ref, n)
    OBVIOUS
  <1>4. o = Over(e, md)
    BY <1>1, <1>3 DEF ChunkMetadata
  <1>5. LiesOver(o, e, md)
    BY <1>2, <1>4, OverIs
  <1>6. TextMap(o) /\ DOMAIN o = DOMAIN e \cup DOMAIN md /\ \A k \in DOMAIN e : o[k] = e[k]
    BY <1>5 DEF LiesOver
  <1> QED BY <1>2, <1>3, <1>6, FieldNames

\* A document of a request; it names itself when its metadata leave that to the builder.
LEMMA AskedDocument ==
    ASSUME NEW p \in Paths, NEW md \in Metadata, NEW x,
           x = [kind |-> "document", text |-> p, n |-> 0, md |-> WithSource(md, DocumentKind, p)]
    PROVE  /\ IsAsked(x)
           /\ SourceKind \notin DOMAIN md /\ SourcePath \notin DOMAIN md => NamesItself(x)
  <1>1. p \in Texts /\ Normalize(p) \in Texts /\ Normalize(Normalize(p)) = Normalize(p) /\ TextMap(md)
    BY KeysAssumption, NormalizeIs, MetadataIs DEF Texts
  <1>2. PICK o : o = WithSource(md, DocumentKind, p)
    OBVIOUS
  <1>3. /\ TextMap(o) /\ o[SourceKind] \in Texts /\ o[SourcePath] \in Texts
        /\ SourceKind \notin DOMAIN md => o[SourceKind] = DocumentKind
        /\ SourcePath \notin DOMAIN md => o[SourcePath] = Normalize(p)
    <2>1. Sourced(o, md, DocumentKind, p)
      BY <1>1, <1>2, FieldNames, WithSourceIs
    <2> QED BY <2>1 DEF Sourced
  <1>4. x = [kind |-> "document", text |-> p, n |-> 0, md |-> o]
    BY <1>2
  <1>5. x.kind = "document" /\ x.text = p /\ x.n = 0 /\ x.md = o
    BY <1>4
  <1>6. IsAsked(x)
    BY <1>1, <1>3, <1>4, <1>5 DEF IsItem, IsAsked
  <1> QED BY <1>1, <1>3, <1>5, <1>6 DEF NamesItself

\* A chunk of a mailbox of a request; it names itself when its metadata give no kind.
LEMMA AskedEmail ==
    ASSUME NEW box \in Mailboxes, NEW r \in Refs, NEW n \in Indexes, NEW md \in Metadata, NEW x,
           x = [kind |-> "email", text |-> r, n |-> n,
                md |-> WithSource(ChunkMetadata(md, r, n), EmailKind, box)]
    PROVE  IsAsked(x) /\ (SourceKind \notin DOMAIN md => NamesItself(x))
  <1>1. r \in Texts /\ n \in Nat /\ box \in Texts /\ TextMap(md)
    BY KeysAssumption, MetadataIs DEF Texts
  <1>2. PICK c : c = ChunkMetadata(md, r, n)
    OBVIOUS
  <1>3. /\ TextMap(c) /\ ArtifactRef \in DOMAIN c /\ ChunkIndex \in DOMAIN c
        /\ c[ArtifactRef] = r /\ c[ChunkIndex] = <<n>>
        /\ SourceKind \in DOMAIN c => SourceKind \in DOMAIN md
    BY <1>1, <1>2, ChunkMetadataIs
  <1>4. PICK o : o = WithSource(c, EmailKind, box)
    OBVIOUS
  <1>5. /\ TextMap(o) /\ DOMAIN c \subseteq DOMAIN o /\ o[SourceKind] \in Texts /\ o[SourcePath] \in Texts
        /\ \A k \in DOMAIN c : o[k] = c[k]
        /\ SourceKind \notin DOMAIN c => o[SourceKind] = EmailKind
    <2>1. Sourced(o, c, EmailKind, box)
      BY <1>1, <1>3, <1>4, FieldNames, WithSourceIs
    <2> QED BY <2>1 DEF Sourced
  <1>6. ArtifactRef \in DOMAIN o /\ o[ArtifactRef] = r /\ ChunkIndex \in DOMAIN o /\ o[ChunkIndex] = <<n>>
    BY <1>3, <1>5
  <1>7. x = [kind |-> "email", text |-> r, n |-> n, md |-> o]
    BY <1>2, <1>4
  <1>8. x.kind = "email" /\ x.text = r /\ x.n = n /\ x.md = o
    BY <1>7
  <1>9. IsAsked(x)
    BY <1>1, <1>5, <1>6, <1>7, <1>8 DEF IsItem, IsAsked
  <1> QED BY <1>3, <1>5, <1>8, <1>9 DEF NamesItself

\* What a request's items are.
LEMMA AskedIs ==
    ASSUME NEW x \in AskedItems
    PROVE  IsAsked(x)
  <1>1. ASSUME NEW p \in Paths, NEW md \in Metadata,
               x = [kind |-> "document", text |-> p, n |-> 0, md |-> WithSource(md, DocumentKind, p)]
        PROVE  IsAsked(x)
    BY <1>1, AskedDocument
  <1>2. ASSUME NEW box \in Mailboxes, NEW r \in Refs, NEW n \in Indexes, NEW md \in Metadata,
               x = [kind |-> "email", text |-> r, n |-> n,
                    md |-> WithSource(ChunkMetadata(md, r, n), EmailKind, box)]
        PROVE  IsAsked(x)
    BY <1>2, AskedEmail
  <1> QED BY <1>1, <1>2 DEF AskedItems

\* The record of an item, field by field.
LEMMA RecordIs ==
    ASSUME NEW x, IsItem(x)
    PROVE  /\ RecordOf(x) = [kind |-> x.kind, n |-> x.n, md |-> x.md,
                             text |-> IF x.kind = "document" THEN Normalize(x.text) ELSE x.text]
           /\ Meaning(x) = RecordOf(x)
  <1>1. PICK k, t, n, m : x = [kind |-> k, text |-> t, n |-> n, md |-> m]
    BY DEF IsItem
  <1>2. RecordOf(x) = [kind |-> k, n |-> n, md |-> m,
                       text |-> IF k = "document" THEN Normalize(t) ELSE t]
    BY <1>1 DEF RecordOf
  <1>3. x.kind = k /\ x.text = t /\ x.n = n /\ x.md = m
    BY <1>1
  <1> QED BY <1>2, <1>3 DEF Meaning

\* Recording an item changes neither its record nor its fingerprint nor its digest.
LEMMA RecordStays ==
    ASSUME NEW x, IsItem(x)
    PROVE  /\ RecordOf(RecordOf(x)) = RecordOf(x)
           /\ Fingerprint(RecordOf(x)) = Fingerprint(x)
           /\ Digest(RecordOf(x)) = Digest(x)
  <1>1. PICK r : r = RecordOf(x)
    OBVIOUS
  <1>2. /\ r = [kind |-> x.kind, n |-> x.n, md |-> x.md,
                text |-> IF x.kind = "document" THEN Normalize(x.text) ELSE x.text]
    BY <1>1, RecordIs
  <1>3. CASE x.kind = "document"
    <2>1. Normalize(Normalize(x.text)) = Normalize(x.text)
      BY NormalizeIs DEF IsItem
    <2>2. r = [kind |-> "document", n |-> x.n, md |-> x.md, text |-> Normalize(x.text)]
      BY <1>2, <1>3
    <2>3. r.kind = "document" /\ r.n = x.n /\ r.md = x.md /\ r.text = Normalize(x.text)
      BY <2>2
    <2>4. RecordOf(r) = [r EXCEPT !.text = Normalize(Normalize(x.text))]
      BY <2>2 DEF RecordOf
    <2>5. RecordOf(r) = r
      BY <2>1, <2>2, <2>4
    <2>6. Fingerprint(r) = Fingerprint(x)
      BY <1>3, <2>1, <2>3 DEF Fingerprint
    <2>7. Digest(r) = Digest(x)
      BY <1>3, <2>1, <2>3 DEF Digest, ContentKey
    <2> QED BY <1>1, <2>5, <2>6, <2>7
  <1>4. CASE x.kind = "email"
    <2>1. r = [kind |-> "email", n |-> x.n, md |-> x.md, text |-> x.text]
      BY <1>2, <1>4
    <2>2. r.kind = "email" /\ r.n = x.n /\ r.md = x.md /\ r.text = x.text
      BY <2>1
    <2>3. RecordOf(r) = r
      BY <2>1 DEF RecordOf
    <2>4. Fingerprint(r) = Fingerprint(x)
      BY <1>4, <2>2 DEF Fingerprint
    <2>5. Digest(r) = Digest(x)
      BY <1>4, <2>2 DEF Digest, ContentKey
    <2> QED BY <1>1, <2>3, <2>4, <2>5
  <1> QED BY <1>3, <1>4 DEF IsItem

\* What a replay may read from the block of an item is an item with its metadata.
LEMMA LeafItemIs ==
    ASSUME NEW x, IsAsked(x), NEW y \in ItemsOfLeaf(x.md)
    PROVE  /\ IsItem(y)
           /\ y.kind = "document" => x.md[SourceKind] = DocumentKind /\ y.text = x.md[SourcePath]
           /\ y.kind = "email" => x.md[SourceKind] = EmailKind
  <1>1. PICK m : m = x.md /\ TextMap(m) /\ m[SourceKind] \in Texts /\ m[SourcePath] \in Texts
    BY DEF IsAsked, IsItem
  <1>2. CASE m[SourceKind] = DocumentKind
    <2>1. y = [kind |-> "document", text |-> m[SourcePath], n |-> 0, md |-> m]
      BY <1>1, <1>2 DEF ItemsOfLeaf
    <2>2. y.kind = "document" /\ y.text = m[SourcePath] /\ y.n = 0 /\ y.md = m
      BY <2>1
    <2> QED BY <1>1, <1>2, <2>1, <2>2 DEF IsItem
  <1>3. CASE m[SourceKind] # DocumentKind
    <2>1. /\ m[SourceKind] = EmailKind /\ {ArtifactRef, ChunkIndex} \subseteq DOMAIN m
          /\ y \in {[kind |-> "email", text |-> m[ArtifactRef], n |-> n, md |-> m] :
                        n \in Parsed(m[ChunkIndex])}
      BY <1>1, <1>3 DEF ItemsOfLeaf
    <2>2. PICK n \in Indexes : y = [kind |-> "email", text |-> m[ArtifactRef], n |-> n, md |-> m]
      BY <2>1 DEF Parsed
    <2>3. m[ArtifactRef] \in Texts
      BY <1>1, <2>1 DEF TextMap
    <2>4. y.kind = "email" /\ y.text = m[ArtifactRef] /\ y.n = n /\ y.md = m
      BY <2>2
    <2> QED BY <1>1, <2>1, <2>2, <2>3, <2>4 DEF IsItem
  <1> QED BY <1>2, <1>3

\* An item that names itself has its digest in its block.
LEMMA NamedComesBack ==
    ASSUME NEW x, IsAsked(x), NamesItself(x)
    PROVE  \E y \in ItemsOfLeaf(x.md) : Digest(y) = Digest(RecordOf(x))
  <1>1. IsItem(x)
    BY DEF IsAsked
  <1>2. PICK r : r = RecordOf(x)
    OBVIOUS
  <1>3. /\ r = [kind |-> x.kind, n |-> x.n, md |-> x.md,
                text |-> IF x.kind = "document" THEN Normalize(x.text) ELSE x.text]
    BY <1>1, <1>2, RecordIs
  <1>4. CASE x.kind = "document"
    <2>1. x.n = 0 /\ x.md[SourceKind] = DocumentKind /\ Normalize(x.md[SourcePath]) = Normalize(x.text)
      BY <1>1, <1>4 DEF IsItem, NamesItself
    <2>2. PICK y : y = [kind |-> "document", text |-> x.md[SourcePath], n |-> 0, md |-> x.md]
      OBVIOUS
    <2>3. y \in ItemsOfLeaf(x.md)
      BY <2>1, <2>2 DEF ItemsOfLeaf
    <2>4. IsItem(y)
      BY <2>3, LeafItemIs
    <2>5. RecordOf(y) = [kind |-> y.kind, n |-> y.n, md |-> y.md, text |-> Normalize(y.text)]
      BY <2>2, <2>4, RecordIs
    <2>6. RecordOf(y) = r
      BY <1>3, <1>4, <2>1, <2>2, <2>5
    <2>7. Digest(y) = Digest(r)
      BY <2>4, <2>6, RecordStays
    <2> QED BY <1>2, <2>3, <2>7
  <1>5. CASE x.kind = "email"
    <2>1. /\ x.n \in Indexes /\ x.md[SourceKind] = EmailKind
          /\ ArtifactRef \in DOMAIN x.md /\ x.md[ArtifactRef] = x.text
          /\ ChunkIndex \in DOMAIN x.md /\ x.md[ChunkIndex] = <<x.n>>
      BY <1>1, <1>5 DEF IsItem, IsAsked, NamesItself
    <2>2. r = [kind |-> "email", text |-> x.md[ArtifactRef], n |-> x.n, md |-> x.md]
      BY <1>3, <1>5, <2>1
    <2>3. x.n \in Parsed(x.md[ChunkIndex])
      BY <2>1 DEF Parsed
    <2>4. r \in ItemsOfLeaf(x.md)
      BY <2>1, <2>2, <2>3, FieldNames DEF ItemsOfLeaf
    <2> QED BY <1>2, <2>4
  <1> QED BY <1>1, <1>4, <1>5 DEF IsItem

\* The text of a key that tells the item's text and number.
Told(r) == IF r.kind = "document" THEN Normalize(r.text) ELSE Numbered(r.text, r.n)
KindOf(r) == IF r.kind = "document" THEN DocumentKind ELSE EmailKind

\* A digest, read from the front.
LEMMA DigestIs ==
    ASSUME NEW x, IsItem(x), NEW r, r = RecordOf(x)
    PROVE  /\ Told(r) \in Texts /\ MetadataKey(r.md) \in Texts
           /\ Digest(r) = Cat(KindOf(r), Cat(<<Colon>>, Cat(Escaped(Told(r)), Cat(End, MetadataKey(r.md)))))
  <1>1. r = [kind |-> x.kind, n |-> x.n, md |-> x.md,
             text |-> IF x.kind = "document" THEN Normalize(x.text) ELSE x.text]
    BY RecordIs
  <1>2. TextMap(r.md) /\ x.text \in Texts
    BY <1>1 DEF IsItem
  <1>3. PICK m \in Texts : m = MetadataKey(r.md)
    BY <1>2, MetadataKeyIs
  <1>4. PICK e \in Texts : e = End
    <2>1. End \in Texts
      BY FirstBytes DEF End, Nul
    <2> QED BY <2>1
  <1>5. PICK c \in Texts : c = <<Colon>>
    <2>1. Colon \in Nat
      BY DEF Colon
    <2> QED BY <2>1, ShortTexts
  <1>6. PICK d \in Texts : d = KindOf(r)
    <2>1. DocumentKind \in Texts /\ EmailKind \in Texts
      BY FieldNames
    <2>2. KindOf(r) \in Texts
      BY <2>1 DEF KindOf
    <2> QED BY <2>2
  <1>7. ASSUME NEW w \in Texts, Digest(r) = Cat(Cat(Cat(Cat(d, c), w), e), m)
        PROVE  Digest(r) = Cat(d, Cat(c, Cat(w, Cat(e, m))))
    <2>1. Cat(d, c) \in Texts /\ Cat(e, m) \in Texts
      BY CatAssoc
    <2>2. Cat(w, Cat(e, m)) \in Texts
      BY <2>1, CatAssoc
    <2>3. Cat(Cat(Cat(Cat(d, c), w), e), m) = Cat(Cat(d, c), Cat(w, Cat(e, m)))
      BY <2>1, BuiltUp
    <2>4. Cat(Cat(d, c), Cat(w, Cat(e, m))) = Cat(d, Cat(c, Cat(w, Cat(e, m))))
      BY <2>2, CatAssoc
    <2> QED BY <1>7, <2>3, <2>4
  <1>8. CASE x.kind = "document"
    <2>1. r.kind = "document" /\ r.text \in Texts
      BY <1>1, <1>2, <1>8, NormalizeIs
    <2>2. PICK t \in Texts : t = Normalize(r.text) /\ Told(r) = t
      BY <2>1, NormalizeIs DEF Told
    <2>3. PICK w \in Texts : w = Escaped(t)
      BY EscapedIs
    <2>4. Digest(r) = Cat(Cat(Cat(Cat(d, c), w), e), m)
      BY <1>3, <1>4, <1>5, <1>6, <2>1, <2>2, <2>3 DEF Digest, ContentKey, KindOf, Cat
    <2>5. Digest(r) = Cat(d, Cat(c, Cat(w, Cat(e, m))))
      BY <1>7, <2>4
    <2> QED BY <1>3, <1>4, <1>5, <1>6, <2>2, <2>3, <2>5
  <1>9. CASE x.kind = "email"
    <2>1. r.kind = "email" /\ r.text \in Texts /\ r.n \in Indexes
      BY <1>1, <1>2, <1>9 DEF IsItem
    <2>2. PICK p \in Texts : p = Padded(r.n)
      BY <2>1, PaddedIs
    <2>3. PICK s \in Texts : s = Escaped(r.text)
      BY <2>1, EscapedIs
    <2>4. PICK w \in Texts : w = Cat(s, Cat(c, p)) /\ w = Escaped(Told(r)) /\ Told(r) \in Texts
      <3>1. Told(r) = Numbered(r.text, r.n)
        BY <2>1 DEF Told
      <3>2. Numbered(r.text, r.n) \in Texts
            /\ Escaped(Numbered(r.text, r.n)) = Cat(Escaped(r.text), Cat(<<Colon>>, Padded(r.n)))
        BY <2>1, NumberedIs
      <3>3. Escaped(Told(r)) \in Texts
        BY <3>1, <3>2, EscapedIs
      <3> QED BY <1>5, <2>2, <2>3, <3>1, <3>2, <3>3
    <2>5. Digest(r) = Cat(Cat(Cat(Cat(Cat(Cat(d, c), s), c), p), e), m)
      BY <1>3, <1>4, <1>5, <1>6, <2>1, <2>2, <2>3 DEF Digest, ContentKey, KindOf, Cat
    <2>6. Cat(Cat(Cat(Cat(d, c), s), c), p) = Cat(Cat(d, c), w)
      <3>1. PICK dc \in Texts : dc = Cat(d, c)
        <4>1. Cat(d, c) \in Texts
          BY CatAssoc
        <4> QED BY <4>1
      <3>2. Cat(Cat(Cat(dc, s), c), p) = Cat(dc, Cat(s, Cat(c, p)))
        BY BuiltUp
      <3> QED BY <2>4, <3>1, <3>2
    <2>7. Digest(r) = Cat(Cat(Cat(Cat(d, c), w), e), m)
      BY <2>5, <2>6
    <2>8. Digest(r) = Cat(d, Cat(c, Cat(w, Cat(e, m))))
      BY <1>7, <2>7
    <2> QED BY <1>3, <1>4, <1>5, <1>6, <2>4, <2>8
  <1> QED BY <1>8, <1>9 DEF IsItem

\* Two items have one digest only when they have one meaning.
LEMMA DigestTells ==
    ASSUME NEW x, NEW y, IsItem(x), IsItem(y), Digest(RecordOf(x)) = Digest(RecordOf(y))
    PROVE  Meaning(x) = Meaning(y)
  <1>1. PICK r, q : r = RecordOf(x) /\ q = RecordOf(y)
    OBVIOUS
  <1>2. r = [kind |-> x.kind, n |-> x.n, md |-> x.md,
             text |-> IF x.kind = "document" THEN Normalize(x.text) ELSE x.text]
    BY <1>1, RecordIs
  <1>3. q = [kind |-> y.kind, n |-> y.n, md |-> y.md,
             text |-> IF y.kind = "document" THEN Normalize(y.text) ELSE y.text]
    BY <1>1, RecordIs
  <1>4. PICK s \in Texts, a \in Texts : s = Told(r) /\ a = MetadataKey(r.md)
            /\ Digest(r) = Cat(KindOf(r), Cat(<<Colon>>, Cat(Escaped(s), Cat(End, a))))
    BY <1>1, DigestIs
  <1>5. PICK t \in Texts, b \in Texts : t = Told(q) /\ b = MetadataKey(q.md)
            /\ Digest(q) = Cat(KindOf(q), Cat(<<Colon>>, Cat(Escaped(t), Cat(End, b))))
    BY <1>1, DigestIs
  <1>6. End \in Texts /\ <<Colon>> \in Texts /\ Escaped(s) \in Texts /\ Escaped(t) \in Texts
    <2>1. Colon \in Nat
      BY DEF Colon
    <2>2. <<Colon>> \in Texts
      BY <2>1, ShortTexts
    <2>3. End \in Texts
      BY FirstBytes DEF End, Nul
    <2> QED BY <2>2, <2>3, EscapedIs
  <1>7. PICK u \in Texts : u = Cat(Escaped(s), Cat(End, a))
    <2>1. Cat(End, a) \in Texts
      BY <1>6, CatAssoc
    <2>2. Cat(Escaped(s), Cat(End, a)) \in Texts
      BY <1>6, <2>1, CatAssoc
    <2> QED BY <2>2
  <1>8. PICK v \in Texts : v = Cat(Escaped(t), Cat(End, b))
    <2>1. Cat(End, b) \in Texts
      BY <1>6, CatAssoc
    <2>2. Cat(Escaped(t), Cat(End, b)) \in Texts
      BY <1>6, <2>1, CatAssoc
    <2> QED BY <2>2
  <1>9. PICK cu \in Texts, cv \in Texts : cu = Cat(<<Colon>>, u) /\ cv = Cat(<<Colon>>, v)
    <2>1. Cat(<<Colon>>, u) \in Texts /\ Cat(<<Colon>>, v) \in Texts
      BY <1>6, CatAssoc
    <2> QED BY <2>1
  <1>10. Cat(KindOf(r), cu) = Cat(KindOf(q), cv)
    BY <1>1, <1>4, <1>5, <1>7, <1>8, <1>9
  <1>11. x.kind \in {"document", "email"} /\ y.kind \in {"document", "email"}
    BY DEF IsItem
  <1>12. KindOf(r) = KindOf(q) /\ x.kind = y.kind /\ r.kind = x.kind /\ q.kind = y.kind
    <2>1. r.kind = x.kind /\ q.kind = y.kind
      BY <1>2, <1>3
    <2>2. Cat(KindOf(r), cu)[1] = IF x.kind = "document" THEN 1 ELSE 2
      BY <2>1, FirstBytes DEF KindOf, DocumentKind, EmailKind
    <2>3. Cat(KindOf(q), cv)[1] = IF y.kind = "document" THEN 1 ELSE 2
      BY <2>1, FirstBytes DEF KindOf, DocumentKind, EmailKind
    <2>4. x.kind = y.kind
      BY <1>10, <1>11, <2>2, <2>3
    <2> QED BY <2>1, <2>4 DEF KindOf
  <1>13. cu = cv
    <2>1. KindOf(r) \in Texts
      BY FieldNames DEF KindOf
    <2> QED BY <1>10, <1>12, <2>1, Cancel
  <1>14. u = v
    BY <1>6, <1>9, <1>13, Cancel
  <1>15. s = t /\ a = b
    <2>1. Cat(Escaped(s), Cat(End, a)) = Cat(Escaped(t), Cat(End, b))
      BY <1>7, <1>8, <1>14
    <2> QED BY <2>1, Unescape
  <1>16. r.md = q.md
    <2>1. TextMap(r.md) /\ TextMap(q.md)
      BY <1>2, <1>3 DEF IsItem
    <2> QED BY <1>4, <1>5, <1>15, <2>1, MetadataKeyTells
  <1>17. r.text = q.text /\ r.n = q.n
    <2>1. CASE x.kind = "document"
      <3>1. r.text = Normalize(x.text) /\ q.text = Normalize(y.text)
        BY <1>2, <1>3, <1>12, <2>1
      <3>2. s = Normalize(r.text) /\ t = Normalize(q.text)
        BY <1>4, <1>5, <1>12, <2>1 DEF Told
      <3>3. Normalize(Normalize(x.text)) = Normalize(x.text)
        BY NormalizeIs DEF IsItem
      <3>4. Normalize(Normalize(y.text)) = Normalize(y.text)
        BY NormalizeIs DEF IsItem
      <3>5. x.n = 0 /\ y.n = 0
        BY <1>12, <2>1 DEF IsItem
      <3>6. r.n = x.n /\ q.n = y.n
        BY <1>2, <1>3
      <3> QED BY <1>15, <3>1, <3>2, <3>3, <3>4, <3>5, <3>6
    <2>2. CASE x.kind = "email"
      <3>1. s = Numbered(r.text, r.n) /\ t = Numbered(q.text, q.n)
        BY <1>4, <1>5, <1>12, <2>2 DEF Told
      <3>2. r.text \in Texts /\ r.n \in Indexes
        BY <1>2, <2>2 DEF IsItem
      <3>3. q.text \in Texts /\ q.n \in Indexes
        BY <1>3, <1>12, <2>2 DEF IsItem
      <3>4. PICK f \in Texts, m \in Indexes : f = r.text /\ m = r.n
        BY <3>2
      <3>5. PICK g \in Texts, n \in Indexes : g = q.text /\ n = q.n
        BY <3>3
      <3>6. Numbered(f, m) = Numbered(g, n)
        BY <1>15, <3>1, <3>4, <3>5
      <3>7. f = g /\ m = n
        BY <3>6, NumberedTells
      <3> QED BY <3>4, <3>5, <3>7
    <2> QED BY <1>11, <2>1, <2>2
  <1>18. r = q
    <2>1. r = [kind |-> r.kind, n |-> r.n, md |-> r.md, text |-> r.text]
      BY <1>2
    <2>2. q = [kind |-> q.kind, n |-> q.n, md |-> q.md, text |-> q.text]
      BY <1>3
    <2> QED BY <1>12, <1>16, <1>17, <2>1, <2>2
  <1>19. Meaning(x) = r /\ Meaning(y) = q
    BY <1>1, RecordIs
  <1> QED BY <1>18, <1>19

\* What has the digest of an item is that item, and then the item named itself.
LEMMA AcceptedIsAsked ==
    ASSUME NEW x, IsAsked(x), NEW y \in ItemsOfLeaf(x.md), Digest(y) = Digest(RecordOf(x))
    PROVE  NamesItself(x) /\ RecordOf(y) = RecordOf(x) /\ Fingerprint(y) = Fingerprint(x)
  <1>1. IsItem(x) /\ IsItem(y)
    BY LeafItemIs DEF IsAsked
  <1>2. Digest(RecordOf(y)) = Digest(RecordOf(x))
    BY <1>1, RecordStays
  <1>3. Meaning(y) = Meaning(x)
    BY <1>1, <1>2, DigestTells
  <1>4. RecordOf(y) = RecordOf(x)
    BY <1>1, <1>3, RecordIs
  <1>5. Fingerprint(y) = Fingerprint(x)
    <2>1. Fingerprint(RecordOf(y)) = Fingerprint(y) /\ Fingerprint(RecordOf(x)) = Fingerprint(x)
      BY <1>1, RecordStays
    <2> QED BY <1>4, <2>1
  <1>6. y.kind = x.kind /\ (x.kind = "document" => Normalize(y.text) = Normalize(x.text))
    <2>1. Meaning(y).kind = y.kind /\ Meaning(x).kind = x.kind
      BY DEF Meaning
    <2>2. y.kind = x.kind
      BY <1>3, <2>1
    <2>3. x.kind = "document" => Meaning(y).text = Normalize(y.text) /\ Meaning(x).text = Normalize(x.text)
      BY <2>2 DEF Meaning
    <2> QED BY <1>3, <2>2, <2>3
  <1>7. x.kind \in {"document", "email"}
    BY <1>1 DEF IsItem
  <1>8. NamesItself(x)
    <2>1. CASE x.kind = "document"
      <3>1. x.md[SourceKind] = DocumentKind /\ y.text = x.md[SourcePath]
        BY <1>6, <2>1, LeafItemIs
      <3> QED BY <1>6, <2>1, <3>1 DEF NamesItself
    <2>2. CASE x.kind = "email"
      <3>1. x.md[SourceKind] = EmailKind
        BY <1>6, <2>2, LeafItemIs
      <3> QED BY <2>2, <3>1 DEF NamesItself
    <2> QED BY <1>7, <2>1, <2>2
  <1> QED BY <1>4, <1>5, <1>8

-----------------------------------------------------------------------------
(* KeysSound. *)

KeysTypes ==
    /\ asked \in [Two -> AskedItems]
    /\ DOMAIN place = Two /\ DOMAIN item = Two /\ DOMAIN leaf = Two /\ DOMAIN record = Two
    /\ DOMAIN ordered = Two /\ rounds \in [Two -> Nat]

\* An item is what was asked for or one with its record; what is stored of it is its
\* metadata and its record; the order carries the digest of that record.  It is
\* refused at the first replay, or at none.
Kept(i) ==
    /\ place[i] \in {"asked", "journaled", "ordered", "refused"}
    /\ Fingerprint(item[i]) = Fingerprint(asked[i])
    /\ place[i] = "asked" => item[i] = asked[i]
    /\ place[i] # "asked" => leaf[i] = asked[i].md /\ record[i] = RecordOf(asked[i])
    /\ ordered[i] \in {None, Digest(RecordOf(asked[i]))}
    /\ place[i] = "ordered" => ordered[i] = Digest(RecordOf(asked[i]))
    /\ place[i] = "refused" <=> rounds[i] > 0 /\ ~NamesItself(asked[i])

KeysInv == KeysTypes /\ \A i \in Two : Kept(i)

\* At the start nothing is stored.
LEMMA KeysInitInv == KeysInit => KeysInv
  <1> SUFFICES ASSUME NEW given \in [Two -> AskedItems], KeysStart(given) PROVE KeysInv
    BY DEF KeysInit
  <1>1. KeysTypes
    BY DEF KeysStart, KeysTypes
  <1>2. ASSUME NEW i \in Two PROVE Kept(i)
    BY DEF KeysStart, Kept, None
  <1> QED BY <1>1, <1>2 DEF KeysInv

\* A step for one item leaves the other one as it is.
LEMMA KeysStepInv ==
    ASSUME KeysInv, NEW i \in Two, KeysTypes', Kept(i)', asked' = asked,
           \A j \in Two : j # i =>
               /\ place'[j] = place[j] /\ item'[j] = item[j] /\ leaf'[j] = leaf[j]
               /\ record'[j] = record[j] /\ ordered'[j] = ordered[j] /\ rounds'[j] = rounds[j]
    PROVE  KeysInv'
  <1> SUFFICES ASSUME NEW j \in Two, j # i PROVE Kept(j)'
    BY DEF KeysInv
  <1>1. Kept(j)
    BY DEF KeysInv
  <1> QED BY <1>1 DEF Kept

\* Ingestion stores the metadata and the record of what was asked for.
LEMMA IngestInv == ASSUME KeysInv, NEW i \in Two, Ingest(i) PROVE KeysInv'
  <1>1. KeysTypes /\ Kept(i)
    BY DEF KeysInv
  <1>2. KeysTypes'
    BY <1>1 DEF Ingest, KeysTypes
  <1>3. place'[i] = "journaled" /\ leaf'[i] = item[i].md /\ record'[i] = RecordOf(item[i])
        /\ item'[i] = item[i] /\ ordered'[i] = ordered[i] /\ asked' = asked /\ place[i] = "asked"
        /\ rounds'[i] = rounds[i]
    BY <1>1 DEF Ingest, KeysTypes
  <1>4. Kept(i)'
    BY <1>1, <1>3 DEF Kept
  <1>5. \A j \in Two : j # i =>
            /\ place'[j] = place[j] /\ item'[j] = item[j] /\ leaf'[j] = leaf[j]
            /\ record'[j] = record[j] /\ ordered'[j] = ordered[j] /\ rounds'[j] = rounds[j]
    BY <1>1 DEF Ingest, KeysTypes
  <1> QED BY <1>2, <1>3, <1>4, <1>5, KeysStepInv

\* The order takes the digest of the stored record.
LEMMA OrderInv == ASSUME KeysInv, NEW i \in Two, Order(i) PROVE KeysInv'
  <1>1. KeysTypes /\ Kept(i)
    BY DEF KeysInv
  <1>2. KeysTypes'
    BY <1>1 DEF Order, KeysTypes
  <1>3. place'[i] = "ordered" /\ ordered'[i] = Digest(record[i]) /\ record'[i] = record[i]
        /\ leaf'[i] = leaf[i] /\ item'[i] = item[i] /\ asked' = asked /\ place[i] = "journaled"
        /\ rounds'[i] = rounds[i]
    BY <1>1 DEF Order, KeysTypes
  <1>4. Kept(i)'
    BY <1>1, <1>3 DEF Kept
  <1>5. \A j \in Two : j # i =>
            /\ place'[j] = place[j] /\ item'[j] = item[j] /\ leaf'[j] = leaf[j]
            /\ record'[j] = record[j] /\ ordered'[j] = ordered[j] /\ rounds'[j] = rounds[j]
    BY <1>1 DEF Order, KeysTypes
  <1> QED BY <1>2, <1>3, <1>4, <1>5, KeysStepInv

\* The replay accepts the item of the record, and only when the block names it.
LEMMA ReplayItemInv == ASSUME KeysInv, NEW i \in Two, ReplayItem(i) PROVE KeysInv'
  <1>1. KeysTypes /\ Kept(i)
    BY DEF KeysInv
  <1>2. PICK x : x = asked[i]
    OBVIOUS
  <1>3. IsAsked(x)
    BY <1>1, <1>2, AskedIs DEF KeysTypes
  <1>4. /\ place[i] = "ordered" /\ rounds' = [rounds EXCEPT ![i] = @ + 1]
        /\ asked' = asked /\ leaf' = leaf /\ ordered' = ordered
    BY DEF ReplayItem
  <1>5. /\ leaf[i] = x.md /\ record[i] = RecordOf(x) /\ ordered[i] = Digest(RecordOf(x))
        /\ Fingerprint(item[i]) = Fingerprint(x)
    BY <1>1, <1>2, <1>4 DEF Kept
  <1>6. rounds' \in [Two -> Nat] /\ rounds'[i] > 0 /\ \A j \in Two : j # i => rounds'[j] = rounds[j]
    BY <1>1, <1>4 DEF KeysTypes
  <1>7. CASE \E back \in ItemsOfLeaf(leaf[i]) :
                /\ Digest(back) = ordered[i]
                /\ item' = [item EXCEPT ![i] = back]
                /\ record' = [record EXCEPT ![i] = RecordOf(back)]
                /\ place' = [place EXCEPT ![i] = "journaled"]
    <2>1. PICK y \in ItemsOfLeaf(x.md) :
                /\ Digest(y) = Digest(RecordOf(x))
                /\ item' = [item EXCEPT ![i] = y]
                /\ record' = [record EXCEPT ![i] = RecordOf(y)]
                /\ place' = [place EXCEPT ![i] = "journaled"]
      BY <1>5, <1>7
    <2>2. NamesItself(x) /\ RecordOf(y) = RecordOf(x) /\ Fingerprint(y) = Fingerprint(x)
      BY <1>3, <2>1, AcceptedIsAsked
    <2>3. KeysTypes'
      BY <1>1, <1>4, <1>6, <2>1 DEF KeysTypes
    <2>4. place'[i] = "journaled" /\ item'[i] = y /\ record'[i] = RecordOf(y)
      BY <1>1, <2>1 DEF KeysTypes
    <2>5. Kept(i)'
      <3>1. Kept(i)' <=>
              /\ place'[i] \in {"asked", "journaled", "ordered", "refused"}
              /\ Fingerprint(item'[i]) = Fingerprint(x)
              /\ place'[i] = "asked" => item'[i] = x
              /\ place'[i] # "asked" => leaf'[i] = x.md /\ record'[i] = RecordOf(x)
              /\ ordered'[i] \in {None, Digest(RecordOf(x))}
              /\ place'[i] = "ordered" => ordered'[i] = Digest(RecordOf(x))
              /\ place'[i] = "refused" <=> rounds'[i] > 0 /\ ~NamesItself(x)
        BY <1>2, <1>4 DEF Kept
      <3> QED BY <1>4, <1>5, <2>2, <2>4, <3>1
    <2>6. \A j \in Two : j # i =>
            /\ place'[j] = place[j] /\ item'[j] = item[j] /\ leaf'[j] = leaf[j]
            /\ record'[j] = record[j] /\ ordered'[j] = ordered[j] /\ rounds'[j] = rounds[j]
      BY <1>1, <1>4, <1>6, <2>1 DEF KeysTypes
    <2> QED BY <1>4, <2>3, <2>5, <2>6, KeysStepInv
  <1>8. CASE /\ \A back \in ItemsOfLeaf(leaf[i]) : Digest(back) # ordered[i]
             /\ place' = [place EXCEPT ![i] = "refused"]
             /\ UNCHANGED <<item, record>>
    <2>1. ~NamesItself(x)
      BY <1>3, <1>5, <1>8, NamedComesBack
    <2>2. KeysTypes'
      BY <1>1, <1>4, <1>6, <1>8 DEF KeysTypes
    <2>3. place'[i] = "refused" /\ item'[i] = item[i] /\ record'[i] = record[i]
      BY <1>1, <1>8 DEF KeysTypes
    <2>4. Kept(i)'
      <3>1. Kept(i)' <=>
              /\ place'[i] \in {"asked", "journaled", "ordered", "refused"}
              /\ Fingerprint(item'[i]) = Fingerprint(x)
              /\ place'[i] = "asked" => item'[i] = x
              /\ place'[i] # "asked" => leaf'[i] = x.md /\ record'[i] = RecordOf(x)
              /\ ordered'[i] \in {None, Digest(RecordOf(x))}
              /\ place'[i] = "ordered" => ordered'[i] = Digest(RecordOf(x))
              /\ place'[i] = "refused" <=> rounds'[i] > 0 /\ ~NamesItself(x)
        BY <1>2, <1>4 DEF Kept
      <3> QED BY <1>4, <1>5, <1>6, <2>1, <2>3, <3>1
    <2>5. \A j \in Two : j # i =>
            /\ place'[j] = place[j] /\ item'[j] = item[j] /\ leaf'[j] = leaf[j]
            /\ record'[j] = record[j] /\ ordered'[j] = ordered[j] /\ rounds'[j] = rounds[j]
      BY <1>1, <1>4, <1>6, <1>8 DEF KeysTypes
    <2> QED BY <1>4, <2>2, <2>4, <2>5, KeysStepInv
  <1> QED BY <1>7, <1>8 DEF ReplayItem

\* The invariant says what the keys are for.
LEMMA KeysInvSound == ASSUME KeysInv PROVE KeysSound
  <1>1. \A i \in Two : Kept(i) /\ IsItem(asked[i])
    BY AskedIs DEF KeysInv, KeysTypes, IsAsked
  <1>2. JournalIsAccepted
    BY <1>1 DEF JournalIsAccepted, Kept
  <1>3. DigestsTellApart
    <2> SUFFICES ASSUME NEW i \in Two, NEW j \in Two, ordered[i] # None, ordered[i] = ordered[j]
                 PROVE  Meaning(asked[i]) = Meaning(asked[j])
      BY DEF DigestsTellApart
    <2>1. ordered[i] = Digest(RecordOf(asked[i])) /\ ordered[j] = Digest(RecordOf(asked[j]))
      BY <1>1 DEF Kept
    <2>2. Digest(RecordOf(asked[i])) = Digest(RecordOf(asked[j]))
      BY <2>1
    <2> QED BY <1>1, <2>2, DigestTells
  <1>4. IdentitySurvivesReplay
    <2> SUFFICES ASSUME NEW i \in Two, place[i] # "asked"
                 PROVE  /\ record[i] = RecordOf(asked[i])
                        /\ Fingerprint(item[i]) = Fingerprint(asked[i])
                        /\ Fingerprint(ItemOfRecord(record[i])) = Fingerprint(asked[i])
      BY DEF IdentitySurvivesReplay
    <2>1. Fingerprint(RecordOf(asked[i])) = Fingerprint(asked[i])
      BY <1>1, RecordStays
    <2>2. record[i] = RecordOf(asked[i]) /\ Fingerprint(item[i]) = Fingerprint(asked[i])
      BY <1>1 DEF Kept
    <2> QED BY <2>1, <2>2 DEF ItemOfRecord
  <1> QED BY <1>2, <1>3, <1>4 DEF KeysSound

\* For any items of a request with any metadata, and however often they are replayed:
\* a replay refuses the journal only for an item whose request overrides the fields
\* that say what it is, and always for that one; whatever is accepted is the item
\* that was asked for, its record and fingerprint those of the request, and two items
\* share a digest only if they are one (replay_sort_key_digest,
\* load_replay_batch_entry_from_validated, replay_journal_record_from_item).
THEOREM KeysSafe == KeysSpec => []KeysSound
  <1>1. KeysInit => KeysInv
    BY KeysInitInv
  <1>2. KeysInv /\ [KeysNext]_keysVars => KeysInv'
    <2> SUFFICES ASSUME KeysInv, [KeysNext]_keysVars PROVE KeysInv'
      OBVIOUS
    <2>1. CASE KeysNext
      <3>1. PICK i \in Two : Ingest(i) \/ Order(i) \/ ReplayItem(i)
        BY <2>1 DEF KeysNext
      <3> QED BY <3>1, IngestInv, OrderInv, ReplayItemInv
    <2>2. CASE UNCHANGED keysVars
      BY <2>2 DEF KeysInv, KeysTypes, Kept, keysVars
    <2> QED BY <2>1, <2>2
  <1>3. KeysInv => KeysSound
    BY KeysInvSound
  <1> QED BY <1>1, <1>2, <1>3, PTL DEF KeysSpec

-----------------------------------------------------------------------------
(* Folds over sequences. *)

\* What holds of the empty sequence and is kept by an element more holds of all.
LEMMA SeqInduction ==
    ASSUME NEW Y, NEW P \in SUBSET Seq(Y), <<>> \in P, \A s \in P, c \in Y : Append(s, c) \in P
    PROVE  \A s \in Seq(Y) : s \in P
  <1>1. PICK N : N = {n \in Nat : \A s \in Seq(Y) : Len(s) = n => s \in P}
    OBVIOUS
  <1>2. 0 \in N
    <2>1. \A s \in Seq(Y) : Len(s) = 0 => s = <<>>
      OBVIOUS
    <2> QED BY <1>1, <2>1
  <1>3. ASSUME NEW n \in N PROVE n + 1 \in N
    <2>1. n \in Nat /\ \A s \in Seq(Y) : Len(s) = n => s \in P
      BY <1>1
    <2>2. ASSUME NEW s \in Seq(Y), Len(s) = n + 1 PROVE s \in P
      <3>1. PICK r, c : r = SubSeq(s, 1, n) /\ c = s[n + 1]
        OBVIOUS
      <3>2. r \in Seq(Y) /\ Len(r) = n /\ c \in Y
        BY <2>1, <2>2, <3>1
      <3>3. s = Append(r, c)
        <4>1. Append(r, c) \in Seq(Y) /\ Len(Append(r, c)) = n + 1
          BY <2>1, <3>2
        <4>2. ASSUME NEW i \in 1..(n + 1) PROVE s[i] = Append(r, c)[i]
          <5>1. CASE i = n + 1
            BY <3>1, <3>2, <5>1
          <5>2. CASE i # n + 1
            <6>1. i \in 1..n
              BY <2>1, <5>2
            <6>2. r[i] = s[i]
              BY <2>1, <2>2, <3>1, <6>1
            <6>3. Append(r, c)[i] = r[i]
              BY <3>2, <6>1
            <6> QED BY <6>2, <6>3
          <5> QED BY <5>1, <5>2
        <4> QED BY <2>1, <2>2, <4>1, <4>2, SeqEqual
      <3> QED BY <2>1, <3>2, <3>3
    <2> QED BY <1>1, <2>1, <2>2
  <1>4. N = Nat
    BY <1>1, <1>2, <1>3, SetInduction
  <1>5. \A s \in Seq(Y) : Len(s) \in N
    BY <1>4
  <1> QED BY <1>1, <1>5

\* g steps from values in X by elements of Y.
StepOn(g, X, Y) == g \in [X \X Y -> X]

\* f has the values of a fold after each element.
Runs(f, X, b, g, s) ==
    /\ f \in [0..Len(s) -> X] /\ f[0] = b
    /\ \A i \in 1..Len(s) : f[i] = g[<<f[i - 1], s[i]>>]

\* There are such values.
LEMMA RunExists ==
    ASSUME NEW X, NEW Y, NEW b \in X, NEW g, StepOn(g, X, Y)
    PROVE  \A s \in Seq(Y) : \E f : Runs(f, X, b, g, s)
  <1>1. PICK P : P = {s \in Seq(Y) : \E f : Runs(f, X, b, g, s)}
    OBVIOUS
  <1>2. <<>> \in P
    <2>1. PICK f : f = [i \in 0..0 |-> b]
      OBVIOUS
    <2>2. Runs(f, X, b, g, <<>>)
      BY <2>1 DEF Runs
    <2> QED BY <1>1, <2>2
  <1>3. ASSUME NEW s \in P, NEW c \in Y PROVE Append(s, c) \in P
    <2>1. s \in Seq(Y)
      BY <1>1
    <2>2. PICK f : Runs(f, X, b, g, s)
      BY <1>1
    <2>3. PICK n, r : n = Len(s) /\ r = Append(s, c)
      OBVIOUS
    <2>4. n \in Nat /\ r \in Seq(Y) /\ Len(r) = n + 1 /\ r[n + 1] = c /\ \A i \in 1..n : r[i] = s[i]
      BY <2>1, <2>3
    <2>5. f \in [0..n -> X] /\ f[0] = b /\ \A i \in 1..n : f[i] = g[<<f[i - 1], s[i]>>]
      BY <2>2, <2>3 DEF Runs
    <2>6. PICK d : d = g[<<f[n], c>>]
      OBVIOUS
    <2>7. d \in X
      BY <2>4, <2>5, <2>6 DEF StepOn
    <2>8. PICK h : h = [i \in 0..(n + 1) |-> IF i = n + 1 THEN d ELSE f[i]]
      OBVIOUS
    <2>9. h \in [0..(n + 1) -> X] /\ h[0] = b
      BY <2>4, <2>5, <2>7, <2>8
    <2>10. ASSUME NEW i \in 1..(n + 1) PROVE h[i] = g[<<h[i - 1], r[i]>>]
      <3>1. i - 1 \in 0..n /\ h[i - 1] = f[i - 1]
        BY <2>4, <2>8
      <3>2. CASE i = n + 1
        <4>1. i - 1 = n /\ h[i] = d
          BY <2>4, <2>8, <3>2
        <4> QED BY <2>4, <2>6, <3>1, <3>2, <4>1
      <3>3. CASE i # n + 1
        <4>1. i \in 1..n /\ h[i] = f[i]
          BY <2>4, <2>8, <3>3
        <4> QED BY <2>4, <2>5, <3>1, <4>1
      <3> QED BY <3>2, <3>3
    <2>11. Runs(h, X, b, g, r)
      BY <2>4, <2>9, <2>10 DEF Runs
    <2> QED BY <1>1, <2>3, <2>4, <2>11
  <1>4. \A s \in Seq(Y) : s \in P
    BY <1>1, <1>2, <1>3, SeqInduction
  <1> QED BY <1>1, <1>4

\* Two sequences begin with the same k elements.
Share(s, r, k) == k \in Nat /\ k <= Len(s) /\ k <= Len(r) /\ \A i \in 1..k : s[i] = r[i]

\* The values depend on the elements so far only.
LEMMA RunsAgree ==
    ASSUME NEW X, NEW Y, NEW b, NEW g, NEW s \in Seq(Y), NEW r \in Seq(Y), NEW f, NEW h,
           Runs(f, X, b, g, s), Runs(h, X, b, g, r),
           NEW k, Share(s, r, k)
    PROVE  f[k] = h[k]
  <1>0. k \in Nat /\ k <= Len(s) /\ k <= Len(r) /\ \A i \in 1..k : s[i] = r[i]
    BY DEF Share
  <1>1. PICK N : N = {i \in Nat : i <= k => f[i] = h[i]}
    OBVIOUS
  <1>2. 0 \in N
    BY <1>1 DEF Runs
  <1>3. ASSUME NEW i \in N PROVE i + 1 \in N
    <2>1. i \in Nat
      BY <1>1
    <2> SUFFICES ASSUME i + 1 <= k PROVE f[i + 1] = h[i + 1]
      BY <1>0, <1>1, <2>1
    <2>2. f[i] = h[i]
      BY <1>0, <1>1, <2>1
    <2>3. PICK j : j = i + 1
      OBVIOUS
    <2>4. j \in 1..Len(s) /\ j \in 1..Len(r) /\ j \in 1..k /\ j - 1 = i
      BY <1>0, <2>1, <2>3
    <2>5. f[j] = g[<<f[j - 1], s[j]>>] /\ h[j] = g[<<h[j - 1], r[j]>>]
      BY <2>4 DEF Runs
    <2> QED BY <1>0, <2>2, <2>3, <2>4, <2>5
  <1>4. N = Nat
    BY <1>1, <1>2, <1>3, SetInduction
  <1> QED BY <1>0, <1>1, <1>4

\* The value of a fold whose step is the function g.
Fold(X, b, g, s) == CHOOSE x : \E f : Runs(f, X, b, g, s) /\ x = f[Len(s)]

\* It is that of any of its runs.
LEMMA FoldIsRun ==
    ASSUME NEW X, NEW Y, NEW b \in X, NEW g, StepOn(g, X, Y), NEW s \in Seq(Y)
    PROVE  \E f : Runs(f, X, b, g, s) /\ Fold(X, b, g, s) = f[Len(s)]
  <1>1. PICK h : Runs(h, X, b, g, s)
    BY RunExists
  <1>2. \E x : \E f : Runs(f, X, b, g, s) /\ x = f[Len(s)]
    BY <1>1
  <1> QED BY <1>2 DEF Fold

\* A fold starts with its base.
LEMMA FoldEmpty ==
    ASSUME NEW X, NEW Y, NEW b \in X, NEW g, StepOn(g, X, Y)
    PROVE  Fold(X, b, g, <<>>) = b
  <1>0. <<>> \in Seq(Y)
    OBVIOUS
  <1>1. PICK s \in Seq(Y) : s = <<>>
    BY <1>0
  <1>2. PICK f : Runs(f, X, b, g, s) /\ Fold(X, b, g, s) = f[Len(s)]
    BY FoldIsRun
  <1>3. Len(s) = 0
    BY <1>1
  <1> QED BY <1>1, <1>2, <1>3 DEF Runs

\* Its values are of their type.
LEMMA FoldType ==
    ASSUME NEW X, NEW Y, NEW b \in X, NEW g, StepOn(g, X, Y), NEW s \in Seq(Y)
    PROVE  Fold(X, b, g, s) \in X
  <1>1. PICK f : Runs(f, X, b, g, s) /\ Fold(X, b, g, s) = f[Len(s)]
    BY FoldIsRun
  <1>2. Len(s) \in 0..Len(s)
    OBVIOUS
  <1> QED BY <1>1, <1>2 DEF Runs

\* One element more is one step more.
LEMMA FoldAppend ==
    ASSUME NEW X, NEW Y, NEW b \in X, NEW g, StepOn(g, X, Y), NEW s \in Seq(Y), NEW c \in Y
    PROVE  Fold(X, b, g, Append(s, c)) = g[<<Fold(X, b, g, s), c>>]
  <1>1. PICK r, n : r = Append(s, c) /\ n = Len(s)
    OBVIOUS
  <1>2. r \in Seq(Y) /\ n \in Nat /\ Len(r) = n + 1 /\ r[n + 1] = c /\ \A i \in 1..n : s[i] = r[i]
    BY <1>1
  <1>3. PICK f : Runs(f, X, b, g, s) /\ Fold(X, b, g, s) = f[Len(s)]
    BY FoldIsRun
  <1>4. PICK h : Runs(h, X, b, g, r) /\ Fold(X, b, g, r) = h[Len(r)]
    BY <1>2, FoldIsRun
  <1>5. f[n] = h[n]
    <2>1. Share(s, r, n)
      BY <1>1, <1>2 DEF Share
    <2> QED BY <1>2, <1>3, <1>4, <2>1, RunsAgree
  <1>6. n + 1 \in 1..Len(r) /\ (n + 1) - 1 = n
    BY <1>2
  <1>7. h[n + 1] = g[<<h[n], r[n + 1]>>]
    BY <1>4, <1>6 DEF Runs
  <1> QED BY <1>1, <1>2, <1>3, <1>4, <1>5, <1>7

\* The largest number of a set that goes up to n and has n.
LEMMA LargestIs ==
    ASSUME NEW n \in Nat, NEW S \in SUBSET (1..n), n \in S
    PROVE  Max(S) = n
  <1>1. \A x \in S : (\A y \in S : x >= y) => x = n
    OBVIOUS
  <1>2. \A y \in S : n >= y
    OBVIOUS
  <1> QED BY <1>1, <1>2 DEF Max

\* it has the values of the fold over each set of places, largest place last.
Iterates(it, X, b, g, s, n) ==
    /\ it \in [SUBSET (1..n) -> X] /\ it[{}] = b
    /\ \A S \in SUBSET (1..n) :
          S # {} => it[S] = g[<<it[S \ {Max(S)}], s[Max(S)]>>] /\ Max(S) \in S

\* There are such values.
LEMMA IterationExists ==
    ASSUME NEW X, NEW Y, NEW b \in X, NEW g, StepOn(g, X, Y), NEW s \in Seq(Y)
    PROVE  \E it : Iterates(it, X, b, g, s, Len(s))
  <1>1. PICK N : N = {n \in Nat : n <= Len(s) => \E it : Iterates(it, X, b, g, s, n)}
    OBVIOUS
  <1>2. 0 \in N
    <2>1. PICK it : it = [S \in SUBSET (1..0) |-> b]
      OBVIOUS
    <2>2. 1..0 = {} /\ SUBSET (1..0) = {{}}
      OBVIOUS
    <2>3. Iterates(it, X, b, g, s, 0)
      BY <2>1, <2>2 DEF Iterates
    <2> QED BY <1>1, <2>3
  <1>3. ASSUME NEW n \in N PROVE n + 1 \in N
    <2>1. n \in Nat
      BY <1>1
    <2> SUFFICES ASSUME n + 1 <= Len(s) PROVE \E h : Iterates(h, X, b, g, s, n + 1)
      BY <1>1, <2>1
    <2>2. PICK it : Iterates(it, X, b, g, s, n)
      BY <1>1, <2>1
    <2>3. PICK m : m = n + 1
      OBVIOUS
    <2>4. m \in Nat /\ m \in 1..Len(s) /\ s[m] \in Y
      BY <2>1, <2>3
    <2>5. \A S \in SUBSET (1..m) : S \ {m} \in SUBSET (1..n)
      BY <2>1, <2>3
    <2>6. PICK h : h = [S \in SUBSET (1..m) |-> IF m \in S THEN g[<<it[S \ {m}], s[m]>>] ELSE it[S]]
      OBVIOUS
    <2>7. ASSUME NEW S \in SUBSET (1..m), m \notin S PROVE S \in SUBSET (1..n)
      BY <2>5, <2>7
    <2>8. ASSUME NEW S \in SUBSET (1..m)
          PROVE  /\ h[S] \in X
                 /\ S # {} => h[S] = g[<<h[S \ {Max(S)}], s[Max(S)]>>] /\ Max(S) \in S
      <3>1. CASE m \in S
        <4>1. Max(S) = m
          BY <2>4, <3>1, LargestIs
        <4>2. S \ {m} \in SUBSET (1..n) /\ S \ {m} \in SUBSET (1..m) /\ m \notin S \ {m}
          BY <2>5
        <4>3. h[S \ {m}] = it[S \ {m}]
          BY <2>6, <4>2
        <4>4. h[S] = g[<<it[S \ {m}], s[m]>>]
          BY <2>6, <3>1
        <4>5. it[S \ {m}] \in X
          BY <2>2, <4>2 DEF Iterates
        <4>6. h[S] \in X
          BY <2>4, <4>4, <4>5 DEF StepOn
        <4> QED BY <3>1, <4>1, <4>3, <4>4, <4>6
      <3>2. CASE m \notin S
        <4>1. S \in SUBSET (1..n)
          BY <2>7, <3>2
        <4>2. h[S] = it[S]
          BY <2>6, <3>2
        <4>3. it[S] \in X /\ (S # {} => it[S] = g[<<it[S \ {Max(S)}], s[Max(S)]>>] /\ Max(S) \in S)
          BY <2>2, <4>1 DEF Iterates
        <4>4. S \ {Max(S)} \in SUBSET (1..m) /\ m \notin S \ {Max(S)}
          BY <3>2
        <4>5. h[S \ {Max(S)}] = it[S \ {Max(S)}]
          BY <2>6, <4>4
        <4> QED BY <4>2, <4>3, <4>5
      <3> QED BY <3>1, <3>2
    <2>9. h[{}] = b
      <3>1. {} \in SUBSET (1..m) /\ m \notin {}
        OBVIOUS
      <3>2. it[{}] = b
        BY <2>2 DEF Iterates
      <3> QED BY <2>6, <3>1, <3>2
    <2>10. h \in [SUBSET (1..m) -> X]
      BY <2>6, <2>8
    <2>11. Iterates(h, X, b, g, s, m)
      BY <2>8, <2>9, <2>10 DEF Iterates
    <2> QED BY <2>3, <2>11
  <1>4. N = Nat
    BY <1>1, <1>2, <1>3, SetInduction
  <1>5. Len(s) \in N
    BY <1>4
  <1> QED BY <1>1, <1>5

\* it follows the recursion of FoldLeft, as far as its values are of their type.
FoldsBack(it, X, b, g, s) ==
    /\ it[{}] = b
    /\ \A S \in SUBSET (1..Len(s)) :
          S # {} /\ it[S \ {Max(S)}] \in X => it[S] = g[<<it[S \ {Max(S)}], s[Max(S)]>>]

\* What is defined by the recursion of FoldLeft has the value of the fold.
LEMMA IterationIsFold ==
    ASSUME NEW X, NEW Y, NEW b \in X, NEW g, StepOn(g, X, Y), NEW s \in Seq(Y), NEW it,
           FoldsBack(it, X, b, g, s)
    PROVE  it[1..Len(s)] = Fold(X, b, g, s)
  <1>1. PICK f : Runs(f, X, b, g, s) /\ Fold(X, b, g, s) = f[Len(s)]
    BY FoldIsRun
  <1>2. PICK N : N = {n \in Nat : n <= Len(s) => it[1..n] = f[n]}
    OBVIOUS
  <1>3. 0 \in N
    <2>1. 1..0 = {}
      OBVIOUS
    <2>2. f[0] = b
      BY <1>1 DEF Runs
    <2>3. it[1..0] = f[0]
      BY <2>1, <2>2 DEF FoldsBack
    <2> QED BY <1>2, <2>3
  <1>4. ASSUME NEW n \in N PROVE n + 1 \in N
    <2>1. n \in Nat
      BY <1>2
    <2> SUFFICES ASSUME n + 1 <= Len(s) PROVE it[1..(n + 1)] = f[n + 1]
      BY <1>2, <2>1
    <2>2. it[1..n] = f[n]
      BY <1>2, <2>1
    <2>3. PICK m, S : m = n + 1 /\ S = 1..m
      OBVIOUS
    <2>4. m \in 1..Len(s) /\ m \in Nat /\ m - 1 = n /\ n \in 0..Len(s)
      BY <2>1, <2>3
    <2>5. S \in SUBSET (1..Len(s)) /\ m \in S /\ S \in SUBSET (1..m)
      BY <2>3, <2>4
    <2>6. Max(S) = m
      BY <2>4, <2>5, LargestIs
    <2>7. S \ {m} = 1..n
      BY <2>1, <2>3
    <2>8. f[n] \in X /\ f[m] = g[<<f[n], s[m]>>]
      BY <1>1, <2>4 DEF Runs
    <2>9. it[S] = g[<<it[1..n], s[m]>>]
      BY <2>2, <2>5, <2>6, <2>7, <2>8 DEF FoldsBack
    <2> QED BY <2>2, <2>3, <2>8, <2>9
  <1>5. N = Nat
    BY <1>2, <1>3, <1>4, SetInduction
  <1>6. Len(s) \in N
    BY <1>5
  <1> QED BY <1>1, <1>2, <1>6

-----------------------------------------------------------------------------
(* Letters. *)

LetterStep == [p \in Prose \X Chars |-> IF p[2] \in White THEN p[1] ELSE Append(p[1], p[2])]

\* Letters are picked one by one: the step's type.
LEMMA LettersFoldStep == StepOn(LetterStep, Prose, Chars) /\ <<>> \in Prose
  <1>1. ASSUME NEW a \in Prose, NEW c \in Chars
        PROVE  (IF c \in White THEN a ELSE Append(a, c)) \in Prose
    BY DEF Prose
  <1>2. LetterStep \in [Prose \X Chars -> Prose]
    BY <1>1 DEF LetterStep
  <1> QED BY <1>2 DEF StepOn, Prose

\* The letters of a text are picked one by one.
LEMMA LettersFold ==
    ASSUME NEW s \in Prose
    PROVE  Letters(s) = Fold(Prose, <<>>, LetterStep, s)
  <1> DEFINE F(it) == [S \in SUBSET DOMAIN s |->
                         IF S = {} THEN <<>> ELSE (IF s[Max(S)] \in White THEN it[S \ {Max(S)}] ELSE Append(it[S \ {Max(S)}], s[Max(S)]))]
             rec == CHOOSE it : it = F(it)
  <1>1. StepOn(LetterStep, Prose, Chars) /\ <<>> \in Prose
    BY LettersFoldStep
  <1>2. s \in Seq(Chars) /\ DOMAIN s = 1..Len(s)
    BY DEF Prose
  <1>3. PICK h : Iterates(h, Prose, <<>>, LetterStep, s, Len(s))
    BY <1>1, <1>2, IterationExists
  <1>4. \A x \in Prose, c \in Chars : LetterStep[<<x, c>>] = (IF c \in White THEN x ELSE Append(x, c))
    BY DEF LetterStep
  <1>5. ASSUME NEW S \in SUBSET DOMAIN s, S # {}
        PROVE  h[S] = (IF s[Max(S)] \in White THEN h[S \ {Max(S)}] ELSE Append(h[S \ {Max(S)}], s[Max(S)]))
    <2>1. h[S] = LetterStep[<<h[S \ {Max(S)}], s[Max(S)]>>] /\ Max(S) \in S
      BY <1>2, <1>3, <1>5 DEF Iterates
    <2>2. h[S \ {Max(S)}] \in Prose
      BY <1>2, <1>3 DEF Iterates
    <2>a. Max(S) \in 1..Len(s)
      BY <1>2, <1>5, <2>1
    <2>3. s[Max(S)] \in Chars
      BY <1>2, <2>a
    <2> QED BY <1>4, <2>1, <2>2, <2>3
  <1>6. h = F(h)
    <2>1. h \in [SUBSET DOMAIN s -> Prose] /\ h[{}] = <<>>
      BY <1>2, <1>3 DEF Iterates
    <2> QED BY <1>5, <2>1
  <1>7. rec = F(rec)
    BY <1>6
  <1>8. Letters(s) = rec[DOMAIN s]
    BY DEF Letters, FoldLeft, MapThenFoldSet
  <1> HIDE DEF rec
  <1>9. rec[{}] = <<>>
    BY <1>7
  <1>10. ASSUME NEW S \in SUBSET DOMAIN s, S # {}
         PROVE  rec[S] = (IF s[Max(S)] \in White THEN rec[S \ {Max(S)}] ELSE Append(rec[S \ {Max(S)}], s[Max(S)]))
    BY <1>7, <1>10
  <1>11. ASSUME NEW S \in SUBSET (1..Len(s)), S # {}, rec[S \ {Max(S)}] \in Prose
         PROVE  rec[S] = LetterStep[<<rec[S \ {Max(S)}], s[Max(S)]>>]
    <2>1. Max(S) \in S
      BY <1>3, <1>11 DEF Iterates
    <2>a. Max(S) \in 1..Len(s)
      BY <1>11, <2>1
    <2>2. s[Max(S)] \in Chars
      BY <1>2, <2>a
    <2>3. rec[S] = (IF s[Max(S)] \in White THEN rec[S \ {Max(S)}] ELSE Append(rec[S \ {Max(S)}], s[Max(S)]))
      BY <1>2, <1>10, <1>11
    <2> QED BY <1>4, <1>11, <2>2, <2>3
  <1>12. FoldsBack(rec, Prose, <<>>, LetterStep, s)
    BY <1>9, <1>11 DEF FoldsBack
  <1>13. rec[1..Len(s)] = Fold(Prose, <<>>, LetterStep, s)
    BY <1>1, <1>2, <1>12, IterationIsFold
  <1> QED BY <1>2, <1>8, <1>13

InlineAccs == [out : Prose, gap : BOOLEAN]
InlineBase == [out |-> <<>>, gap |-> FALSE]
InlineOf(acc, ch) ==
    IF ch \in White THEN [acc EXCEPT !.gap = acc.out # <<>>]
    ELSE [out |-> acc.out \o (IF acc.gap THEN <<Blank>> ELSE <<>>) \o <<ch>>, gap |-> FALSE]
InlineStep == [p \in InlineAccs \X Chars |-> InlineOf(p[1], p[2])]

\* White space is normalized character by character: the step's type.
LEMMA InlineFoldStep == StepOn(InlineStep, InlineAccs, Chars) /\ InlineBase \in InlineAccs
  <1>1. ASSUME NEW acc \in InlineAccs, NEW ch \in Chars PROVE InlineOf(acc, ch) \in InlineAccs
    <2>1. acc.out \in Prose
      BY DEF InlineAccs
    <2>a. Blank \in Chars
      BY MailAssumption DEF White
    <2>2. (IF acc.gap THEN <<Blank>> ELSE <<>>) \in Prose /\ <<ch>> \in Prose
      BY <2>a DEF Prose
    <2>3. acc.out \o (IF acc.gap THEN <<Blank>> ELSE <<>>) \in Prose
      BY <2>1, <2>2 DEF Prose
    <2>4. acc.out \o (IF acc.gap THEN <<Blank>> ELSE <<>>) \o <<ch>> \in Prose
      BY <2>2, <2>3 DEF Prose
    <2> QED BY <2>1, <2>4 DEF InlineOf, InlineAccs
  <1>2. InlineStep \in [InlineAccs \X Chars -> InlineAccs]
    BY <1>1 DEF InlineStep
  <1>3. InlineBase \in InlineAccs
    BY DEF InlineBase, InlineAccs, Prose
  <1> QED BY <1>2, <1>3 DEF StepOn

\* White space is normalized character by character.
LEMMA InlineFold ==
    ASSUME NEW s \in Prose
    PROVE  InlineText(s) = Fold(InlineAccs, InlineBase, InlineStep, s).out
  <1> DEFINE F(it) == [S \in SUBSET DOMAIN s |->
                         IF S = {} THEN InlineBase ELSE InlineOf(it[S \ {Max(S)}], s[Max(S)])]
             rec == CHOOSE it : it = F(it)
  <1>1. StepOn(InlineStep, InlineAccs, Chars) /\ InlineBase \in InlineAccs
    BY InlineFoldStep
  <1>2. s \in Seq(Chars) /\ DOMAIN s = 1..Len(s)
    BY DEF Prose
  <1>3. PICK h : Iterates(h, InlineAccs, InlineBase, InlineStep, s, Len(s))
    BY <1>1, <1>2, IterationExists
  <1>4. \A x \in InlineAccs, c \in Chars : InlineStep[<<x, c>>] = InlineOf(x, c)
    BY DEF InlineStep
  <1>5. ASSUME NEW S \in SUBSET DOMAIN s, S # {}
        PROVE  h[S] = InlineOf(h[S \ {Max(S)}], s[Max(S)])
    <2>1. h[S] = InlineStep[<<h[S \ {Max(S)}], s[Max(S)]>>] /\ Max(S) \in S
      BY <1>2, <1>3, <1>5 DEF Iterates
    <2>2. h[S \ {Max(S)}] \in InlineAccs
      BY <1>2, <1>3 DEF Iterates
    <2>a. Max(S) \in 1..Len(s)
      BY <1>2, <1>5, <2>1
    <2>3. s[Max(S)] \in Chars
      BY <1>2, <2>a
    <2> QED BY <1>4, <2>1, <2>2, <2>3
  <1>6. h = F(h)
    <2>1. h \in [SUBSET DOMAIN s -> InlineAccs] /\ h[{}] = InlineBase
      BY <1>2, <1>3 DEF Iterates
    <2> QED BY <1>5, <2>1
  <1>7. rec = F(rec)
    BY <1>6
  <1>8. InlineText(s) = rec[DOMAIN s].out
    BY DEF InlineText, InlineOf, InlineBase, FoldLeft, MapThenFoldSet
  <1> HIDE DEF rec
  <1>9. rec[{}] = InlineBase
    BY <1>7
  <1>10. ASSUME NEW S \in SUBSET DOMAIN s, S # {}
         PROVE  rec[S] = InlineOf(rec[S \ {Max(S)}], s[Max(S)])
    BY <1>7, <1>10
  <1>11. ASSUME NEW S \in SUBSET (1..Len(s)), S # {}, rec[S \ {Max(S)}] \in InlineAccs
         PROVE  rec[S] = InlineStep[<<rec[S \ {Max(S)}], s[Max(S)]>>]
    <2>1. Max(S) \in S
      BY <1>3, <1>11 DEF Iterates
    <2>a. Max(S) \in 1..Len(s)
      BY <1>11, <2>1
    <2>2. s[Max(S)] \in Chars
      BY <1>2, <2>a
    <2>3. rec[S] = InlineOf(rec[S \ {Max(S)}], s[Max(S)])
      BY <1>2, <1>10, <1>11
    <2> QED BY <1>4, <1>11, <2>2, <2>3
  <1>12. FoldsBack(rec, InlineAccs, InlineBase, InlineStep, s)
    BY <1>9, <1>11 DEF FoldsBack
  <1>13. rec[1..Len(s)] = Fold(InlineAccs, InlineBase, InlineStep, s)
    BY <1>1, <1>2, <1>12, IterationIsFold
  <1> QED BY <1>2, <1>8, <1>13

-----------------------------------------------------------------------------
(* The letters of texts put together. *)

\* Sequences one after the other.
LEMMA Joined ==
    ASSUME NEW Y, NEW a \in Seq(Y), NEW b \in Seq(Y), NEW c \in Seq(Y), NEW x \in Y
    PROVE  /\ Cat(a, b) \in Seq(Y) /\ <<>> \in Seq(Y) /\ Append(a, x) \in Seq(Y)
           /\ Cat(Cat(a, b), c) = Cat(a, Cat(b, c))
           /\ Cat(a, <<>>) = a /\ Cat(<<>>, a) = a
           /\ Cat(a, Append(b, x)) = Append(Cat(a, b), x)
  <1>1. Cat(a, b) \in Seq(Y) /\ <<>> \in Seq(Y) /\ Append(a, x) \in Seq(Y)
    BY DEF Cat
  <1>2. Cat(Cat(a, b), c) = Cat(a, Cat(b, c))
    BY DEF Cat
  <1>3. Cat(a, <<>>) = a /\ Cat(<<>>, a) = a
    BY ConcatEmptySeq DEF Cat
  <1>4. Cat(a, Append(b, x)) = Append(Cat(a, b), x)
    BY DEF Cat
  <1> QED BY <1>1, <1>2, <1>3, <1>4

\* The letters of no text, and of one character more.
LEMMA LettersGrow ==
    /\ Letters(<<>>) = <<>> /\ <<>> \in Prose
    /\ \A s \in Prose, c \in Chars :
          /\ Letters(s) \in Prose
          /\ Letters(Append(s, c)) = IF c \in White THEN Letters(s) ELSE Append(Letters(s), c)
  <1>1. StepOn(LetterStep, Prose, Chars) /\ <<>> \in Prose
    BY LettersFoldStep
  <1>2. Letters(<<>>) = <<>>
    <2>1. Letters(<<>>) = Fold(Prose, <<>>, LetterStep, <<>>)
      BY <1>1, LettersFold
    <2>2. Fold(Prose, <<>>, LetterStep, <<>>) = <<>>
      BY <1>1, FoldEmpty
    <2> QED BY <2>1, <2>2
  <1>3. ASSUME NEW s \in Prose, NEW c \in Chars
        PROVE  /\ Letters(s) \in Prose
               /\ Letters(Append(s, c)) = IF c \in White THEN Letters(s) ELSE Append(Letters(s), c)
    <2>1. s \in Seq(Chars) /\ Append(s, c) \in Prose
      BY DEF Prose
    <2>2. Letters(s) = Fold(Prose, <<>>, LetterStep, s)
      BY LettersFold
    <2>3. Letters(Append(s, c)) = Fold(Prose, <<>>, LetterStep, Append(s, c))
      BY <2>1, LettersFold
    <2>4. Letters(s) \in Prose
      BY <1>1, <2>1, <2>2, FoldType
    <2>5. Letters(Append(s, c)) = LetterStep[<<Letters(s), c>>]
      BY <1>1, <2>1, <2>2, <2>3, FoldAppend
    <2> QED BY <2>4, <2>5 DEF LetterStep
  <1> QED BY <1>1, <1>2, <1>3

\* The letters of one text after another.
LEMMA LettersCat ==
    ASSUME NEW s \in Prose, NEW r \in Prose
    PROVE  Letters(Cat(s, r)) = Cat(Letters(s), Letters(r))
  <1>0. s \in Seq(Chars) /\ Letters(s) \in Seq(Chars)
    <2>1. Blank \in Chars
      BY MailAssumption DEF White
    <2> QED BY <2>1, LettersGrow DEF Prose
  <1>1. PICK P : P = {x \in Seq(Chars) : Letters(Cat(s, x)) = Cat(Letters(s), Letters(x))}
    OBVIOUS
  <1>2. <<>> \in P
    <2>1. Blank \in Chars
      BY MailAssumption DEF White
    <2>2. Cat(s, <<>>) = s /\ Cat(Letters(s), <<>>) = Letters(s)
      BY <1>0, <2>1, Joined
    <2>3. Letters(<<>>) = <<>>
      BY LettersGrow
    <2> QED BY <1>1, <2>2, <2>3
  <1>3. ASSUME NEW x \in P, NEW c \in Chars PROVE Append(x, c) \in P
    <2>1. x \in Seq(Chars) /\ Letters(Cat(s, x)) = Cat(Letters(s), Letters(x))
      BY <1>1
    <2>2. PICK y : y = Append(x, c)
      OBVIOUS
    <2>3. y \in Seq(Chars)
      BY <2>1, <2>2
    <2>4. PICK t : t = Cat(s, x)
      OBVIOUS
    <2>a. t \in Prose
      BY <1>0, <2>1, <2>4, Joined DEF Prose
    <2>b. Cat(s, Append(x, c)) = Append(Cat(s, x), c)
      BY <1>0, <2>1, Joined
    <2>5. t \in Prose /\ Cat(s, y) = Append(t, c)
      BY <2>2, <2>4, <2>a, <2>b
    <2>6. Letters(Append(t, c)) = IF c \in White THEN Letters(t) ELSE Append(Letters(t), c)
      BY <2>5, LettersGrow
    <2>7. Letters(x) \in Seq(Chars) /\ Letters(y) = IF c \in White THEN Letters(x) ELSE Append(Letters(x), c)
      BY <2>1, <2>2, LettersGrow DEF Prose
    <2>8. Cat(Letters(s), Append(Letters(x), c)) = Append(Cat(Letters(s), Letters(x)), c)
      BY <1>0, <2>7, Joined
    <2>9. Letters(Cat(s, y)) = Cat(Letters(s), Letters(y))
      <3>1. CASE c \in White
        BY <2>1, <2>4, <2>5, <2>6, <2>7, <3>1
      <3>2. CASE c \notin White
        BY <2>1, <2>4, <2>5, <2>6, <2>7, <2>8, <3>2
      <3> QED BY <3>1, <3>2
    <2> QED BY <1>1, <2>2, <2>3, <2>9
  <1>4. \A x \in Seq(Chars) : x \in P
    BY <1>1, <1>2, <1>3, SeqInduction
  <1> QED BY <1>1, <1>4 DEF Prose

\* The letters of a single character, and of the two white ones.
LEMMA LettersOfFew ==
    /\ \A c \in Chars : Letters(<<c>>) = IF c \in White THEN <<>> ELSE <<c>>
    /\ <<Blank>> \in Prose /\ <<NL>> \in Prose
    /\ Letters(<<Blank>>) = <<>> /\ Letters(<<NL>>) = <<>>
  <1>1. \A c \in Chars : Append(<<>>, c) = <<c>>
    OBVIOUS
  <1>2. \A c \in Chars : Letters(<<c>>) = IF c \in White THEN <<>> ELSE <<c>>
    <2> SUFFICES ASSUME NEW c \in Chars PROVE Letters(<<c>>) = IF c \in White THEN <<>> ELSE <<c>>
      OBVIOUS
    <2>1. Letters(Append(<<>>, c)) = IF c \in White THEN Letters(<<>>) ELSE Append(Letters(<<>>), c)
      BY LettersGrow
    <2> QED BY <1>1, <2>1, LettersGrow
  <1>3. Blank \in White /\ NL \in White /\ Blank \in Chars /\ NL \in Chars
    BY MailAssumption DEF White
  <1> QED BY <1>2, <1>3 DEF Prose

PieceStep == [p \in Prose \X Prose |-> Cat(p[1], Letters(p[2]))]

\* The letters of pieces are those of each after the other.
LEMMA PiecesFoldStep == StepOn(PieceStep, Prose, Prose) /\ <<>> \in Prose
  <1>1. ASSUME NEW a \in Prose, NEW s \in Prose PROVE Cat(a, Letters(s)) \in Prose
    <2>1. Blank \in Chars
      BY MailAssumption DEF White
    <2>2. Letters(s) \in Prose
      BY <2>1, LettersGrow
    <2> QED BY <2>1, <2>2, Joined DEF Prose
  <1>2. PieceStep \in [Prose \X Prose -> Prose]
    BY <1>1 DEF PieceStep
  <1> QED BY <1>2, LettersGrow DEF StepOn

\* They are picked piece by piece.
LEMMA PiecesFold ==
    ASSUME NEW ps \in Seq(Prose)
    PROVE  LettersOf(ps) = Fold(Prose, <<>>, PieceStep, ps)
  <1> DEFINE F(it) == [S \in SUBSET DOMAIN ps |->
                         IF S = {} THEN <<>> ELSE Cat(it[S \ {Max(S)}], Letters(ps[Max(S)]))]
             rec == CHOOSE it : it = F(it)
  <1>1. StepOn(PieceStep, Prose, Prose) /\ <<>> \in Prose
    BY PiecesFoldStep
  <1>2. ps \in Seq(Prose) /\ DOMAIN ps = 1..Len(ps)
    OBVIOUS
  <1>3. PICK h : Iterates(h, Prose, <<>>, PieceStep, ps, Len(ps))
    BY <1>1, <1>2, IterationExists
  <1>4. \A x \in Prose, c \in Prose : PieceStep[<<x, c>>] = Cat(x, Letters(c))
    BY DEF PieceStep
  <1>5. ASSUME NEW S \in SUBSET DOMAIN ps, S # {}
        PROVE  h[S] = Cat(h[S \ {Max(S)}], Letters(ps[Max(S)]))
    <2>1. h[S] = PieceStep[<<h[S \ {Max(S)}], ps[Max(S)]>>] /\ Max(S) \in S
      BY <1>2, <1>3, <1>5 DEF Iterates
    <2>2. h[S \ {Max(S)}] \in Prose
      BY <1>2, <1>3 DEF Iterates
    <2>a. Max(S) \in 1..Len(ps)
      BY <1>2, <1>5, <2>1
    <2>3. ps[Max(S)] \in Prose
      BY <1>2, <2>a
    <2> QED BY <1>4, <2>1, <2>2, <2>3
  <1>6. h = F(h)
    <2>1. h \in [SUBSET DOMAIN ps -> Prose] /\ h[{}] = <<>>
      BY <1>2, <1>3 DEF Iterates
    <2> QED BY <1>5, <2>1
  <1>7. rec = F(rec)
    BY <1>6
  <1>8. LettersOf(ps) = rec[DOMAIN ps]
    BY DEF LettersOf, Cat, FoldLeft, MapThenFoldSet
  <1> HIDE DEF rec
  <1>9. rec[{}] = <<>>
    BY <1>7
  <1>10. ASSUME NEW S \in SUBSET DOMAIN ps, S # {}
         PROVE  rec[S] = Cat(rec[S \ {Max(S)}], Letters(ps[Max(S)]))
    BY <1>7, <1>10
  <1>11. ASSUME NEW S \in SUBSET (1..Len(ps)), S # {}, rec[S \ {Max(S)}] \in Prose
         PROVE  rec[S] = PieceStep[<<rec[S \ {Max(S)}], ps[Max(S)]>>]
    <2>1. Max(S) \in S
      BY <1>3, <1>11 DEF Iterates
    <2>a. Max(S) \in 1..Len(ps)
      BY <1>11, <2>1
    <2>2. ps[Max(S)] \in Prose
      BY <1>2, <2>a
    <2>3. rec[S] = Cat(rec[S \ {Max(S)}], Letters(ps[Max(S)]))
      BY <1>2, <1>10, <1>11
    <2> QED BY <1>4, <1>11, <2>2, <2>3
  <1>12. FoldsBack(rec, Prose, <<>>, PieceStep, ps)
    BY <1>9, <1>11 DEF FoldsBack
  <1>13. rec[1..Len(ps)] = Fold(Prose, <<>>, PieceStep, ps)
    BY <1>1, <1>2, <1>12, IterationIsFold
  <1> QED BY <1>2, <1>8, <1>13

\* The letters of no pieces, and of one piece more.
LEMMA PiecesGrow ==
    /\ LettersOf(<<>>) = <<>>
    /\ \A ps \in Seq(Prose), s \in Prose :
          /\ LettersOf(ps) \in Prose
          /\ LettersOf(Append(ps, s)) = Cat(LettersOf(ps), Letters(s))
  <1>1. StepOn(PieceStep, Prose, Prose) /\ <<>> \in Prose
    BY PiecesFoldStep
  <1>2. LettersOf(<<>>) = <<>>
    <2>0. <<>> \in Seq(Prose)
      OBVIOUS
    <2>1. LettersOf(<<>>) = Fold(Prose, <<>>, PieceStep, <<>>)
      BY <2>0, PiecesFold
    <2>2. Fold(Prose, <<>>, PieceStep, <<>>) = <<>>
      BY <1>1, FoldEmpty
    <2> QED BY <2>1, <2>2
  <1>3. ASSUME NEW ps \in Seq(Prose), NEW s \in Prose
        PROVE  /\ LettersOf(ps) \in Prose
               /\ LettersOf(Append(ps, s)) = Cat(LettersOf(ps), Letters(s))
    <2>1. Append(ps, s) \in Seq(Prose)
      OBVIOUS
    <2>2. LettersOf(ps) = Fold(Prose, <<>>, PieceStep, ps)
      BY PiecesFold
    <2>3. LettersOf(Append(ps, s)) = Fold(Prose, <<>>, PieceStep, Append(ps, s))
      BY <2>1, PiecesFold
    <2>4. LettersOf(ps) \in Prose
      BY <1>1, <2>2, FoldType
    <2>5. LettersOf(Append(ps, s)) = PieceStep[<<LettersOf(ps), s>>]
      BY <1>1, <2>2, <2>3, FoldAppend
    <2> QED BY <2>4, <2>5 DEF PieceStep
  <1> QED BY <1>2, <1>3

\* A text with a character that is not white space has letters.
LEMMA SolidHasLetters ==
    ASSUME NEW s \in Prose, NEW i \in 1..Len(s), s[i] \notin White
    PROVE  Letters(s) # <<>>
  <1>1. PICK P : P = {x \in Seq(Chars) : (\E j \in 1..Len(x) : x[j] \notin White) => Letters(x) # <<>>}
    OBVIOUS
  <1>2. <<>> \in P
    BY <1>1
  <1>3. ASSUME NEW x \in P, NEW c \in Chars PROVE Append(x, c) \in P
    <2>1. x \in Seq(Chars)
      BY <1>1
    <2>2. PICK y : y = Append(x, c)
      OBVIOUS
    <2>3. y \in Seq(Chars)
      BY <2>1, <2>2
    <2>4. Letters(x) \in Seq(Chars) /\ Letters(y) = IF c \in White THEN Letters(x) ELSE Append(Letters(x), c)
      BY <2>1, <2>2, LettersGrow DEF Prose
    <2>5. ASSUME NEW j \in 1..Len(y), y[j] \notin White PROVE Letters(y) # <<>>
      <3>1. CASE c \notin White
        <4>1. Len(Append(Letters(x), c)) = Len(Letters(x)) + 1 /\ Len(Letters(x)) \in Nat
          BY <2>4
        <4>2. Append(Letters(x), c) # <<>>
          BY <4>1
        <4> QED BY <2>4, <3>1, <4>2
      <3>2. CASE c \in White
        <4>1. j \in 1..Len(x) /\ x[j] \notin White
          BY <2>1, <2>2, <2>5, <3>2
        <4>2. Letters(x) # <<>>
          BY <1>1, <4>1
        <4> QED BY <2>4, <3>2, <4>2
      <3> QED BY <3>1, <3>2
    <2> QED BY <1>1, <2>2, <2>3, <2>5
  <1>4. \A x \in Seq(Chars) : x \in P
    BY <1>1, <1>2, <1>3, SeqInduction
  <1> QED BY <1>1, <1>4 DEF Prose

\* White space has none.
LEMMA WhiteHasNoLetters ==
    ASSUME NEW s \in Prose, \A i \in 1..Len(s) : s[i] \in White
    PROVE  Letters(s) = <<>>
  <1>1. PICK P : P = {x \in Seq(Chars) : (\A j \in 1..Len(x) : x[j] \in White) => Letters(x) = <<>>}
    OBVIOUS
  <1>2. <<>> \in P
    BY <1>1, LettersGrow
  <1>3. ASSUME NEW x \in P, NEW c \in Chars PROVE Append(x, c) \in P
    <2>1. x \in Seq(Chars)
      BY <1>1
    <2>2. PICK y : y = Append(x, c)
      OBVIOUS
    <2>3. y \in Seq(Chars)
      BY <2>1, <2>2
    <2>4. Letters(y) = IF c \in White THEN Letters(x) ELSE Append(Letters(x), c)
      BY <2>1, <2>2, LettersGrow DEF Prose
    <2>5. ASSUME \A j \in 1..Len(y) : y[j] \in White PROVE Letters(y) = <<>>
      <3>1. Len(y) = Len(x) + 1 /\ Len(x) \in Nat /\ y[Len(x) + 1] = c
        BY <2>1, <2>2
      <3>2. c \in White
        BY <2>5, <3>1
      <3>3. \A j \in 1..Len(x) : x[j] = y[j] /\ j \in 1..Len(y)
        BY <2>1, <2>2, <3>1
      <3>4. Letters(x) = <<>>
        BY <1>1, <2>5, <3>3
      <3> QED BY <2>4, <3>2, <3>4
    <2> QED BY <1>1, <2>2, <2>3, <2>5
  <1>4. \A x \in Seq(Chars) : x \in P
    BY <1>1, <1>2, <1>3, SeqInduction
  <1> QED BY <1>1, <1>4 DEF Prose

\* The elements of two sequences one after the other.
LEMMA CatParts ==
    ASSUME NEW Y, NEW a \in Seq(Y), NEW b \in Seq(Y)
    PROVE  /\ Cat(a, b) \in Seq(Y)
           /\ Len(Cat(a, b)) = Len(a) + Len(b)
           /\ \A i \in 1..Len(a) : Cat(a, b)[i] = a[i]
           /\ \A i \in 1..Len(b) : Cat(a, b)[Len(a) + i] = b[i]
  <1>1. Cat(a, b) \in Seq(Y)
    BY DEF Cat
  <1>2. Len(Cat(a, b)) = Len(a) + Len(b)
    BY DEF Cat
  <1>3. \A i \in 1..Len(a) : Cat(a, b)[i] = a[i]
    BY DEF Cat
  <1>4. \A i \in 1..Len(b) : Cat(a, b)[Len(a) + i] = b[i]
    BY DEF Cat
  <1> QED BY <1>1, <1>2, <1>3, <1>4

\* A text from one place to another, with what comes before and after.
LEMMA CutInThree ==
    ASSUME NEW s \in Prose, NEW a \in 1..Len(s), NEW b \in a..Len(s)
    PROVE  /\ SubSeq(s, 1, a - 1) \in Prose /\ SubSeq(s, a, b) \in Prose
           /\ SubSeq(s, b + 1, Len(s)) \in Prose
           /\ s = Cat(Cat(SubSeq(s, 1, a - 1), SubSeq(s, a, b)), SubSeq(s, b + 1, Len(s)))
           /\ Len(SubSeq(s, 1, a - 1)) = a - 1 /\ Len(SubSeq(s, a, b)) = b - a + 1
           /\ Len(SubSeq(s, b + 1, Len(s))) = Len(s) - b
           /\ \A i \in 1..(a - 1) : SubSeq(s, 1, a - 1)[i] = s[i]
           /\ \A i \in 1..(b - a + 1) : SubSeq(s, a, b)[i] = s[a + i - 1]
           /\ \A i \in 1..(Len(s) - b) : SubSeq(s, b + 1, Len(s))[i] = s[b + i]
  <1>1. PICK n, x, y, z : n = Len(s) /\ x = SubSeq(s, 1, a - 1) /\ y = SubSeq(s, a, b) /\ z = SubSeq(s, b + 1, n)
    OBVIOUS
  <1>2. s \in Seq(Chars) /\ n \in Nat /\ a \in 1..n /\ b \in a..n
    BY <1>1 DEF Prose
  <1>3. x \in Seq(Chars) /\ Len(x) = a - 1 /\ \A i \in 1..(a - 1) : x[i] = s[i]
    <2>1. PICK k : k = a - 1
      OBVIOUS
    <2>2. k \in Nat /\ k <= n /\ x = SubSeq(s, 1, k)
      BY <1>1, <1>2, <2>1
    <2>3. x \in Seq(Chars) /\ Len(x) = k
      BY <1>1, <1>2, <2>2
    <2>4. \A i \in 1..k : x[i] = s[i]
      BY <1>1, <1>2, <2>2
    <2> QED BY <2>1, <2>3, <2>4
  <1>4. y \in Seq(Chars) /\ Len(y) = b - a + 1 /\ \A i \in 1..(b - a + 1) : y[i] = s[a + i - 1]
    <2>1. y \in Seq(Chars)
      BY <1>1, <1>2
    <2>2. Len(y) = b - a + 1
      BY <1>1, <1>2
    <2>3. \A i \in 1..(b - a + 1) : y[i] = s[a + i - 1]
      BY <1>1, <1>2
    <2> QED BY <2>1, <2>2, <2>3
  <1>5. z \in Seq(Chars) /\ Len(z) = n - b /\ \A i \in 1..(n - b) : z[i] = s[b + i]
    <2>1. z \in Seq(Chars)
      BY <1>1, <1>2
    <2>2. Len(z) = n - b
      BY <1>1, <1>2
    <2>3. \A i \in 1..(n - b) : z[i] = s[b + i]
      BY <1>1, <1>2
    <2> QED BY <2>1, <2>2, <2>3
  <1>6. PICK w : w = Cat(x, y)
    OBVIOUS
  <1>7. w \in Seq(Chars) /\ Len(w) = b /\ \A i \in 1..b : w[i] = s[i]
    <2>0. w \in Seq(Chars) /\ Len(w) = Len(x) + Len(y)
      BY <1>3, <1>4, <1>6, CatParts
    <2>1. w \in Seq(Chars) /\ Len(w) = b
      BY <1>2, <1>3, <1>4, <2>0
    <2>2. ASSUME NEW i \in 1..b PROVE w[i] = s[i]
      <3>1. CASE i <= a - 1
        BY <1>2, <1>3, <1>4, <1>6, <3>1 DEF Cat
      <3>2. CASE i > a - 1
        <4>1. PICK j : j = i - (a - 1)
          OBVIOUS
        <4>2. j \in 1..(b - a + 1) /\ i = a + j - 1 /\ i = Len(x) + j
          BY <1>2, <1>3, <3>2, <4>1
        <4>3. w[i] = y[j]
          BY <1>2, <1>3, <1>4, <1>6, <4>2 DEF Cat
        <4> QED BY <1>4, <4>2, <4>3
      <3> QED BY <1>2, <3>1, <3>2
    <2> QED BY <2>1, <2>2
  <1>8. PICK v : v = Cat(w, z)
    OBVIOUS
  <1>9. v \in Seq(Chars) /\ Len(v) = n
    <2>1. v \in Seq(Chars) /\ Len(v) = Len(w) + Len(z)
      BY <1>5, <1>7, <1>8, CatParts
    <2> QED BY <1>2, <1>5, <1>7, <2>1
  <1>10. ASSUME NEW i \in 1..n PROVE v[i] = s[i]
    <2>1. CASE i <= b
      BY <1>2, <1>5, <1>7, <1>8, <2>1 DEF Cat
    <2>2. CASE i > b
      <3>1. PICK j : j = i - b
        OBVIOUS
      <3>2. j \in 1..(n - b) /\ i = b + j /\ i = Len(w) + j
        BY <1>2, <1>7, <2>2, <3>1
      <3>3. v[i] = z[j]
        BY <1>2, <1>5, <1>7, <1>8, <3>2 DEF Cat
      <3> QED BY <1>5, <3>2, <3>3
    <2> QED BY <1>2, <2>1, <2>2
  <1>11. v = s
    BY <1>1, <1>2, <1>9, <1>10, SeqEqual
  <1> QED BY <1>1, <1>3, <1>4, <1>5, <1>6, <1>8, <1>11 DEF Prose

\* A set of places has a first and a last.
LEMMA EndsExist ==
    ASSUME NEW n \in Nat, NEW S \in SUBSET (1..n), S # {}
    PROVE  /\ \E i \in S : \A j \in S : i <= j
           /\ \E i \in S : \A j \in S : i >= j
  <1>1. \E i \in S : \A j \in S : i >= j
    <2>1. PICK N : N = {m \in Nat : m <= n => \A T \in SUBSET (1..m) : T # {} => \E i \in T : \A j \in T : i >= j}
      OBVIOUS
    <2>2. 0 \in N
      <3>1. 1..0 = {}
        OBVIOUS
      <3> QED BY <2>1, <3>1
    <2>3. ASSUME NEW m \in N PROVE m + 1 \in N
      <3>1. m \in Nat
        BY <2>1
      <3> SUFFICES ASSUME m + 1 <= n, NEW T \in SUBSET (1..(m + 1)), T # {}
                   PROVE  \E i \in T : \A j \in T : i >= j
        BY <2>1, <3>1
      <3>2. CASE m + 1 \in T
        BY <3>1, <3>2
      <3>3. CASE m + 1 \notin T
        <4>1. T \in SUBSET (1..m)
          BY <3>1, <3>3
        <4> QED BY <2>1, <3>1, <4>1
      <3> QED BY <3>2, <3>3
    <2>4. N = Nat
      BY <2>1, <2>2, <2>3, SetInduction
    <2>5. n \in N
      BY <2>4
    <2>6. \A T \in SUBSET (1..n) : T # {} => \E i \in T : \A j \in T : i >= j
      BY <2>1, <2>5
    <2> QED BY <2>6
  <1>2. \E i \in S : \A j \in S : i <= j
    <2>2. PICK N : N = {m \in Nat : m <= n => \A T \in SUBSET ((n + 1 - m)..n) : T # {} => \E i \in T : \A j \in T : i <= j}
      OBVIOUS
    <2>3. 0 \in N
      <3>1. (n + 1 - 0)..n = {}
        OBVIOUS
      <3> QED BY <2>2, <3>1
    <2>4. ASSUME NEW m \in N PROVE m + 1 \in N
      <3>1. m \in Nat
        BY <2>2
      <3> SUFFICES ASSUME m + 1 <= n, NEW T \in SUBSET ((n + 1 - (m + 1))..n), T # {}
                   PROVE  \E i \in T : \A j \in T : i <= j
        BY <2>2, <3>1
      <3>2. CASE n - m \in T
        BY <3>1, <3>2
      <3>3. CASE n - m \notin T
        <4>1. T \in SUBSET ((n + 1 - m)..n)
          BY <3>1, <3>3
        <4> QED BY <2>2, <3>1, <4>1
      <3> QED BY <3>2, <3>3
    <2>5. N = Nat
      BY <2>2, <2>3, <2>4, SetInduction
    <2>6. S \in SUBSET ((n + 1 - n)..n)
      OBVIOUS
    <2>7. n \in N
      BY <2>5
    <2>8. \A T \in SUBSET ((n + 1 - n)..n) : T # {} => \E i \in T : \A j \in T : i <= j
      BY <2>2, <2>7
    <2> QED BY <2>6, <2>8
  <1> QED BY <1>1, <1>2

\* Trimming keeps the letters, and leaves nothing if there are none.
LEMMA TrimKeeps ==
    ASSUME NEW s \in Prose
    PROVE  /\ Trim(s) \in Prose /\ Letters(Trim(s)) = Letters(s)
           /\ Trim(s) # <<>> => Letters(s) # <<>>
  <1>1. PICK solid : solid = {i \in DOMAIN s : s[i] \notin White}
    OBVIOUS
  <1>2. PICK n : n = Len(s)
    OBVIOUS
  <1>3. n \in Nat /\ DOMAIN s = 1..n /\ solid \in SUBSET (1..n)
    BY <1>1, <1>2 DEF Prose
  <1>4. CASE solid = {}
    <2>1. Trim(s) = <<>>
      BY <1>1, <1>4 DEF Trim
    <2>2. Letters(s) = <<>>
      BY <1>1, <1>2, <1>3, <1>4, WhiteHasNoLetters
    <2> QED BY <2>1, <2>2, LettersGrow
  <1>5. CASE solid # {}
    <2>1. PICK a : a = CHOOSE i \in solid : \A j \in solid : i <= j
      OBVIOUS
    <2>2. PICK b : b = CHOOSE i \in solid : \A j \in solid : i >= j
      OBVIOUS
    <2>3. a \in solid /\ \A j \in solid : a <= j
      BY <1>3, <1>5, <2>1, EndsExist
    <2>4. b \in solid /\ \A j \in solid : b >= j
      BY <1>3, <1>5, <2>2, EndsExist
    <2>5. Trim(s) = SubSeq(s, a, b)
      BY <1>1, <1>5, <2>1, <2>2 DEF Trim
    <2>6. a \in 1..Len(s) /\ b \in a..Len(s)
      BY <1>2, <1>3, <2>3, <2>4
    <2>7. PICK x, y, z : x = SubSeq(s, 1, a - 1) /\ y = SubSeq(s, a, b) /\ z = SubSeq(s, b + 1, Len(s))
      OBVIOUS
    <2>8. x \in Prose /\ y \in Prose /\ z \in Prose /\ s = Cat(Cat(x, y), z)
      BY <2>6, <2>7, CutInThree
    <2>9. Letters(x) = <<>>
      <3>1. Len(x) = a - 1 /\ \A i \in 1..(a - 1) : x[i] = s[i]
        BY <2>6, <2>7, CutInThree
      <3>2. \A i \in 1..Len(x) : i \in 1..n /\ i \notin solid /\ x[i] = s[i]
        BY <1>2, <1>3, <2>3, <2>6, <3>1
      <3>3. \A i \in 1..Len(x) : x[i] \in White
        BY <1>1, <1>3, <3>2
      <3> QED BY <2>8, <3>3, WhiteHasNoLetters
    <2>10. Letters(z) = <<>>
      <3>1. Len(z) = Len(s) - b /\ \A i \in 1..(Len(s) - b) : z[i] = s[b + i]
        BY <2>6, <2>7, CutInThree
      <3>2. \A i \in 1..Len(z) : b + i \in 1..n /\ b + i \notin solid /\ z[i] = s[b + i]
        BY <1>2, <1>3, <2>4, <2>6, <3>1
      <3>3. \A i \in 1..Len(z) : z[i] \in White
        BY <1>1, <1>3, <3>2
      <3> QED BY <2>8, <3>3, WhiteHasNoLetters
    <2>11. Blank \in Chars
      BY MailAssumption DEF White
    <2>12. Letters(y) \in Seq(Chars)
      BY <2>8, <2>11, LettersGrow DEF Prose
    <2>13. Cat(x, y) \in Prose
      BY <2>8, <2>11, Joined DEF Prose
    <2>14. Letters(Cat(x, y)) = Cat(Letters(x), Letters(y))
      BY <2>8, LettersCat
    <2>15. Letters(Cat(Cat(x, y), z)) = Cat(Letters(Cat(x, y)), Letters(z))
      BY <2>8, <2>13, LettersCat
    <2>16. Cat(<<>>, Letters(y)) = Letters(y) /\ Cat(Letters(y), <<>>) = Letters(y)
      BY <2>11, <2>12, Joined
    <2>17. Letters(s) = Letters(y)
      BY <2>8, <2>9, <2>10, <2>14, <2>15, <2>16
    <2>18. Letters(s) # <<>>
      BY <1>1, <1>2, <1>3, <2>3, SolidHasLetters
    <2> QED BY <2>5, <2>7, <2>8, <2>17, <2>18
  <1> QED BY <1>4, <1>5

InlineAcc(s) == Fold(InlineAccs, InlineBase, InlineStep, s)

\* Its value for no element, and for one more.
LEMMA InlineFoldGrow ==
    ASSUME NEW s \in Seq(Chars), NEW c \in Chars
    PROVE  /\ InlineAcc(<<>>) = InlineBase /\ InlineAcc(s) \in InlineAccs
           /\ InlineAcc(Append(s, c)) = InlineOf(InlineAcc(s), c)
  <1>1. StepOn(InlineStep, InlineAccs, Chars) /\ InlineBase \in InlineAccs
    BY InlineFoldStep
  <1>2. InlineAcc(<<>>) = InlineBase
    BY <1>1, FoldEmpty DEF InlineAcc
  <1>3. InlineAcc(s) \in InlineAccs
    BY <1>1, FoldType DEF InlineAcc
  <1>4. InlineAcc(Append(s, c)) = InlineStep[<<InlineAcc(s), c>>]
    BY <1>1, FoldAppend DEF InlineAcc
  <1>5. InlineStep[<<InlineAcc(s), c>>] = InlineOf(InlineAcc(s), c)
    BY <1>3 DEF InlineStep
  <1> QED BY <1>2, <1>3, <1>4, <1>5

\* Normalizing the white space keeps the letters, and leaves nothing if there are none.
LEMMA InlineKeeps ==
    ASSUME NEW s \in Prose
    PROVE  /\ InlineText(s) \in Prose /\ Letters(InlineText(s)) = Letters(s)
           /\ InlineText(s) # <<>> => Letters(s) # <<>>
  <1>0. Blank \in Chars
    BY MailAssumption DEF White
  <1>1. PICK P : P = {x \in Seq(Chars) : /\ Letters(InlineAcc(x).out) = Letters(x)
                                         /\ InlineAcc(x).out # <<>> => Letters(x) # <<>>}
    OBVIOUS
  <1>a. \A x \in Seq(Chars) : InlineAcc(x) \in InlineAccs
    BY <1>0, InlineFoldGrow
  <1>2. <<>> \in P
    <2>0. <<>> \in Seq(Chars)
      OBVIOUS
    <2>1. InlineAcc(<<>>) = InlineBase
      BY <1>0, <2>0, InlineFoldGrow
    <2>2. InlineBase.out = <<>>
      BY DEF InlineBase
    <2> QED BY <1>1, <2>0, <2>1, <2>2
  <1>3. ASSUME NEW x \in P, NEW c \in Chars PROVE Append(x, c) \in P
    <2>1. /\ x \in Seq(Chars) /\ Letters(InlineAcc(x).out) = Letters(x)
          /\ InlineAcc(x).out # <<>> => Letters(x) # <<>>
      BY <1>1
    <2>2. PICK y, a, b : y = Append(x, c) /\ a = InlineAcc(x) /\ b = InlineAcc(y)
      OBVIOUS
    <2>3. y \in Seq(Chars)
      BY <2>1, <2>2
    <2>4. a \in InlineAccs /\ b = InlineOf(a, c)
      BY <2>1, <2>2, InlineFoldGrow
    <2>5. a.out \in Prose /\ Letters(a.out) \in Prose
      BY <1>0, <2>4, LettersGrow DEF InlineAccs
    <2>6. Letters(y) = IF c \in White THEN Letters(x) ELSE Append(Letters(x), c)
      BY <2>1, <2>2, LettersGrow DEF Prose
    <2>7. CASE c \in White
      <3>1. b.out = a.out
        BY <2>4, <2>7 DEF InlineOf, InlineAccs
      <3> QED BY <1>1, <2>1, <2>2, <2>3, <2>6, <2>7, <3>1
    <2>8. CASE c \notin White
      <3>1. PICK g : g = (IF a.gap THEN <<Blank>> ELSE <<>>)
        OBVIOUS
      <3>2. g \in Prose /\ Letters(g) = <<>>
        BY <3>1, LettersGrow, LettersOfFew
      <3>3. b.out = Cat(Cat(a.out, g), <<c>>)
        BY <2>4, <2>8, <3>1 DEF InlineOf, InlineAccs, Cat
      <3>4. Cat(a.out, g) \in Prose
        BY <1>0, <2>5, <3>2, Joined DEF Prose
      <3>5. Letters(Cat(a.out, g)) = Cat(Letters(a.out), <<>>)
        BY <2>5, <3>2, LettersCat
      <3>6. Cat(Letters(a.out), <<>>) = Letters(a.out)
        BY <1>0, <2>5, Joined DEF Prose
      <3>7. <<c>> \in Prose /\ Letters(<<c>>) = <<c>>
        BY <2>8, LettersOfFew DEF Prose
      <3>8. Letters(b.out) = Cat(Letters(a.out), <<c>>)
        BY <3>3, <3>4, <3>5, <3>6, <3>7, LettersCat
      <3>9. Cat(Letters(a.out), <<c>>) = Append(Letters(a.out), c)
        BY <2>5 DEF Cat, Prose
      <3>10. Letters(b.out) = Letters(y)
        BY <2>1, <2>2, <2>6, <2>8, <3>8, <3>9
      <3>11. Letters(x) \in Seq(Chars)
        BY <2>1, <2>2, <2>5 DEF Prose
      <3>12. Append(Letters(x), c) # <<>>
        BY <3>11
      <3> QED BY <1>1, <2>2, <2>3, <2>6, <2>8, <3>10, <3>12
    <2> QED BY <2>7, <2>8
  <1>4. \A x \in Seq(Chars) : x \in P
    BY <1>1, <1>2, <1>3, SeqInduction
  <1>5. s \in Seq(Chars)
    BY DEF Prose
  <1>6. InlineText(s) = InlineAcc(s).out
    BY InlineFold DEF InlineAcc
  <1>7. InlineAcc(s).out \in Prose
    BY <1>a, <1>5 DEF InlineAccs
  <1> QED BY <1>1, <1>4, <1>5, <1>6, <1>7

-----------------------------------------------------------------------------
(* The pieces of a text. *)

UnitAccs == [units : Seq(Prose), cur : Prose, blanks : Nat]
UnitBase == [units |-> <<>>, cur |-> <<>>, blanks |-> 0]
CloseOf(acc) ==
    LET unit == InlineText(acc.cur)
    IN  [units |-> IF unit = <<>> THEN acc.units ELSE Append(acc.units, unit),
         cur |-> <<>>, blanks |-> 0]
ReadOf(acc, ch) ==
    [acc EXCEPT !.cur = Append(@, ch),
                !.blanks = IF ch = NL THEN @ + 1 ELSE IF ch \notin White THEN 0 ELSE @]
UnitOf(acc, ch) ==
    LET next == ReadOf(acc, ch)
    IN  IF ch \in Ends \/ next.blanks >= 2 THEN CloseOf(next) ELSE next
UnitStep == [p \in UnitAccs \X Chars |-> UnitOf(p[1], p[2])]
UnitAcc(s) == Fold(UnitAccs, UnitBase, UnitStep, s)

\* Closing a piece keeps the type.
LEMMA CloseType == \A acc \in UnitAccs : CloseOf(acc) \in UnitAccs
  <1> SUFFICES ASSUME NEW acc \in UnitAccs PROVE CloseOf(acc) \in UnitAccs
    OBVIOUS
  <1>1. acc.units \in Seq(Prose) /\ acc.cur \in Prose
    BY DEF UnitAccs
  <1>2. PICK unit : unit = InlineText(acc.cur)
    OBVIOUS
  <1>3. unit \in Prose
    BY <1>1, <1>2, InlineKeeps
  <1>4. PICK us : us = IF unit = <<>> THEN acc.units ELSE Append(acc.units, unit)
    OBVIOUS
  <1>5. us \in Seq(Prose)
    BY <1>1, <1>3, <1>4
  <1>6. <<>> \in Prose
    BY LettersGrow
  <1>7. CloseOf(acc) = [units |-> us, cur |-> <<>>, blanks |-> 0]
    BY <1>2, <1>4 DEF CloseOf
  <1> QED BY <1>5, <1>6, <1>7 DEF UnitAccs

\* So does reading a character.
LEMMA ReadType ==
    ASSUME NEW acc \in UnitAccs, NEW ch \in Chars
    PROVE  /\ ReadOf(acc, ch) \in UnitAccs
           /\ ReadOf(acc, ch).units = acc.units /\ ReadOf(acc, ch).cur = Append(acc.cur, ch)
  <1>1. acc.units \in Seq(Prose) /\ acc.cur \in Prose /\ acc.blanks \in Nat
    BY DEF UnitAccs
  <1>2. PICK b : b = IF ch = NL THEN acc.blanks + 1 ELSE IF ch \notin White THEN 0 ELSE acc.blanks
    OBVIOUS
  <1>3. b \in Nat
    BY <1>1, <1>2
  <1>4. Append(acc.cur, ch) \in Prose
    BY <1>1 DEF Prose
  <1>5. PICK w : w = Append(acc.cur, ch)
    OBVIOUS
  <1>6. ReadOf(acc, ch) = [acc EXCEPT !.cur = w, !.blanks = b]
    BY <1>2, <1>5 DEF ReadOf
  <1>7. [acc EXCEPT !.cur = w, !.blanks = b] \in UnitAccs
    BY <1>3, <1>4, <1>5 DEF UnitAccs
  <1>8. /\ [acc EXCEPT !.cur = w, !.blanks = b].units = acc.units
        /\ [acc EXCEPT !.cur = w, !.blanks = b].cur = w
    BY DEF UnitAccs
  <1> QED BY <1>5, <1>6, <1>7, <1>8

\* A text is cut into pieces character by character: the step's type.
LEMMA UnitFoldStep == StepOn(UnitStep, UnitAccs, Chars) /\ UnitBase \in UnitAccs
  <1>1. ASSUME NEW acc \in UnitAccs, NEW ch \in Chars PROVE UnitOf(acc, ch) \in UnitAccs
    BY CloseType, ReadType DEF UnitOf
  <1>2. UnitStep \in [UnitAccs \X Chars -> UnitAccs]
    BY <1>1 DEF UnitStep
  <1>3. UnitBase \in UnitAccs
    BY LettersGrow DEF UnitBase, UnitAccs
  <1> QED BY <1>2, <1>3 DEF StepOn

\* The pieces of a text are those of the fold.
LEMMA UnitFold ==
    ASSUME NEW text \in Prose
    PROVE  SentenceUnits(text) = CloseOf(Fold(UnitAccs, UnitBase, UnitStep, text)).units
  <1> DEFINE F(it) == [S \in SUBSET DOMAIN text |->
                         IF S = {} THEN UnitBase ELSE UnitOf(it[S \ {Max(S)}], text[Max(S)])]
             rec == CHOOSE it : it = F(it)
  <1>1. StepOn(UnitStep, UnitAccs, Chars) /\ UnitBase \in UnitAccs
    BY UnitFoldStep
  <1>2. text \in Seq(Chars) /\ DOMAIN text = 1..Len(text)
    BY DEF Prose
  <1>3. PICK h : Iterates(h, UnitAccs, UnitBase, UnitStep, text, Len(text))
    BY <1>1, <1>2, IterationExists
  <1>4. \A x \in UnitAccs, c \in Chars : UnitStep[<<x, c>>] = UnitOf(x, c)
    BY DEF UnitStep
  <1>5. ASSUME NEW S \in SUBSET DOMAIN text, S # {}
        PROVE  h[S] = UnitOf(h[S \ {Max(S)}], text[Max(S)])
    <2>1. h[S] = UnitStep[<<h[S \ {Max(S)}], text[Max(S)]>>] /\ Max(S) \in S
      BY <1>2, <1>3, <1>5 DEF Iterates
    <2>2. h[S \ {Max(S)}] \in UnitAccs
      BY <1>2, <1>3 DEF Iterates
    <2>a. Max(S) \in 1..Len(text)
      BY <1>2, <1>5, <2>1
    <2>3. text[Max(S)] \in Chars
      BY <1>2, <2>a
    <2> QED BY <1>4, <2>1, <2>2, <2>3
  <1>6. h = F(h)
    <2>1. h \in [SUBSET DOMAIN text -> UnitAccs] /\ h[{}] = UnitBase
      BY <1>2, <1>3 DEF Iterates
    <2> QED BY <1>5, <2>1
  <1>7. rec = F(rec)
    BY <1>6
  <1>8. SentenceUnits(text) = CloseOf(rec[DOMAIN text]).units
    BY DEF SentenceUnits, CloseOf, UnitOf, ReadOf, UnitBase, FoldLeft, MapThenFoldSet
  <1> HIDE DEF rec
  <1>9. rec[{}] = UnitBase
    BY <1>7
  <1>10. ASSUME NEW S \in SUBSET DOMAIN text, S # {}
         PROVE  rec[S] = UnitOf(rec[S \ {Max(S)}], text[Max(S)])
    BY <1>7, <1>10
  <1>11. ASSUME NEW S \in SUBSET (1..Len(text)), S # {}, rec[S \ {Max(S)}] \in UnitAccs
         PROVE  rec[S] = UnitStep[<<rec[S \ {Max(S)}], text[Max(S)]>>]
    <2>1. Max(S) \in S
      BY <1>3, <1>11 DEF Iterates
    <2>a. Max(S) \in 1..Len(text)
      BY <1>11, <2>1
    <2>2. text[Max(S)] \in Chars
      BY <1>2, <2>a
    <2>3. rec[S] = UnitOf(rec[S \ {Max(S)}], text[Max(S)])
      BY <1>2, <1>10, <1>11
    <2> QED BY <1>4, <1>11, <2>2, <2>3
  <1>12. FoldsBack(rec, UnitAccs, UnitBase, UnitStep, text)
    BY <1>9, <1>11 DEF FoldsBack
  <1>13. rec[1..Len(text)] = Fold(UnitAccs, UnitBase, UnitStep, text)
    BY <1>1, <1>2, <1>12, IterationIsFold
  <1> QED BY <1>2, <1>8, <1>13

\* Its value for no element, and for one more.
LEMMA UnitFoldGrow ==
    ASSUME NEW s \in Seq(Chars), NEW c \in Chars
    PROVE  /\ UnitAcc(<<>>) = UnitBase /\ UnitAcc(s) \in UnitAccs
           /\ UnitAcc(Append(s, c)) = UnitOf(UnitAcc(s), c)
  <1>1. StepOn(UnitStep, UnitAccs, Chars) /\ UnitBase \in UnitAccs
    BY UnitFoldStep
  <1>2. UnitAcc(<<>>) = UnitBase
    BY <1>1, FoldEmpty DEF UnitAcc
  <1>3. UnitAcc(s) \in UnitAccs
    BY <1>1, FoldType DEF UnitAcc
  <1>4. UnitAcc(Append(s, c)) = UnitStep[<<UnitAcc(s), c>>]
    BY <1>1, FoldAppend DEF UnitAcc
  <1>5. UnitStep[<<UnitAcc(s), c>>] = UnitOf(UnitAcc(s), c)
    BY <1>3 DEF UnitStep
  <1> QED BY <1>2, <1>3, <1>4, <1>5

\* No piece is empty.
Filled(ps) == \A i \in 1..Len(ps) : ps[i] # <<>>

\* It stays so.
LEMMA FilledGrows ==
    ASSUME NEW ps \in Seq(Prose), NEW s \in Prose, Filled(ps), s # <<>>
    PROVE  Filled(Append(ps, s))
  <1>1. Len(Append(ps, s)) = Len(ps) + 1 /\ Len(ps) \in Nat
    OBVIOUS
  <1>2. ASSUME NEW i \in 1..Len(Append(ps, s)) PROVE Append(ps, s)[i] # <<>>
    <2>1. CASE i = Len(ps) + 1
      BY <1>1, <2>1
    <2>2. CASE i # Len(ps) + 1
      <3>1. i \in 1..Len(ps)
        BY <1>1, <2>2
      <3>2. Append(ps, s)[i] = ps[i]
        BY <3>1
      <3> QED BY <3>1, <3>2 DEF Filled
    <2> QED BY <2>1, <2>2
  <1> QED BY <1>2 DEF Filled

\* Closing a piece keeps its letters.
LEMMA CloseKeeps ==
    ASSUME NEW acc \in UnitAccs, Filled(acc.units)
    PROVE  /\ LettersOf(CloseOf(acc).units) = Cat(LettersOf(acc.units), Letters(acc.cur))
           /\ CloseOf(acc).cur = <<>> /\ Filled(CloseOf(acc).units)
           /\ CloseOf(acc) \in UnitAccs
  <1>0. Blank \in Chars
    BY MailAssumption DEF White
  <1>1. acc.units \in Seq(Prose) /\ acc.cur \in Prose
    BY DEF UnitAccs
  <1>2. PICK unit : unit = InlineText(acc.cur)
    OBVIOUS
  <1>3. unit \in Prose /\ Letters(unit) = Letters(acc.cur)
    BY <1>1, <1>2, InlineKeeps
  <1>4. LettersOf(acc.units) \in Prose
    BY <1>1, <1>3, PiecesGrow
  <1>5. CloseOf(acc).units = IF unit = <<>> THEN acc.units ELSE Append(acc.units, unit)
    BY <1>2 DEF CloseOf
  <1>6. CloseOf(acc).cur = <<>> /\ CloseOf(acc) \in UnitAccs
    BY CloseType DEF CloseOf
  <1>7. CASE unit = <<>>
    <2>1. Letters(acc.cur) = <<>>
      BY <1>3, <1>7, LettersGrow
    <2>2. Cat(LettersOf(acc.units), <<>>) = LettersOf(acc.units)
      BY <1>0, <1>4, Joined DEF Prose
    <2> QED BY <1>5, <1>6, <1>7, <2>1, <2>2
  <1>8. CASE unit # <<>>
    <2>1. LettersOf(Append(acc.units, unit)) = Cat(LettersOf(acc.units), Letters(unit))
      BY <1>1, <1>3, PiecesGrow
    <2>2. Filled(Append(acc.units, unit))
      BY <1>1, <1>3, <1>8, FilledGrows
    <2> QED BY <1>3, <1>5, <1>6, <1>8, <2>1, <2>2
  <1> QED BY <1>7, <1>8

\* What was read so far is in the pieces and the one being read.
ReadSoFar(x) ==
    /\ Filled(UnitAcc(x).units)
    /\ Cat(LettersOf(UnitAcc(x).units), Letters(UnitAcc(x).cur)) = Letters(x)

\* So it is for every text.
LEMMA UnitsRead == \A s \in Seq(Chars) : ReadSoFar(s) /\ UnitAcc(s) \in UnitAccs
  <1>0. Blank \in Chars
    BY MailAssumption DEF White
  <1>1. PICK P : P = {x \in Seq(Chars) : ReadSoFar(x)}
    OBVIOUS
  <1>2. <<>> \in P
    <2>0. <<>> \in Seq(Chars) /\ <<>> \in Seq(Prose)
      OBVIOUS
    <2>1. UnitAcc(<<>>) = UnitBase
      BY <1>0, <2>0, UnitFoldGrow
    <2>2. UnitBase.units = <<>> /\ UnitBase.cur = <<>>
      BY DEF UnitBase
    <2>3. Filled(<<>>)
      BY DEF Filled
    <2>4. LettersOf(<<>>) = <<>> /\ Letters(<<>>) = <<>> /\ Cat(<<>>, <<>>) = <<>>
      BY <1>0, <2>0, PiecesGrow, LettersGrow, Joined
    <2> QED BY <1>1, <2>0, <2>1, <2>2, <2>3, <2>4 DEF ReadSoFar
  <1>3. ASSUME NEW x \in P, NEW c \in Chars PROVE Append(x, c) \in P
    <2>1. x \in Seq(Chars) /\ ReadSoFar(x)
      BY <1>1
    <2>2. PICK y, a, b, d : y = Append(x, c) /\ a = UnitAcc(x) /\ b = UnitAcc(y) /\ d = ReadOf(a, c)
      OBVIOUS
    <2>3. y \in Seq(Chars)
      BY <2>1, <2>2
    <2>4. a \in UnitAccs /\ b = UnitOf(a, c)
      BY <2>1, <2>2, UnitFoldGrow
    <2>5. d \in UnitAccs /\ d.units = a.units /\ d.cur = Append(a.cur, c)
      BY <2>2, <2>4, ReadType
    <2>6. Filled(a.units) /\ Cat(LettersOf(a.units), Letters(a.cur)) = Letters(x)
      BY <2>1, <2>2 DEF ReadSoFar
    <2>7. a.units \in Seq(Prose) /\ a.cur \in Prose
      BY <2>4 DEF UnitAccs
    <2>8. LettersOf(a.units) \in Seq(Chars) /\ Letters(a.cur) \in Seq(Chars)
      BY <1>0, <2>7, PiecesGrow, LettersGrow DEF Prose
    <2>9. Letters(y) = IF c \in White THEN Letters(x) ELSE Append(Letters(x), c)
      BY <2>1, <2>2, LettersGrow DEF Prose
    <2>10. Letters(d.cur) = IF c \in White THEN Letters(a.cur) ELSE Append(Letters(a.cur), c)
      BY <2>5, <2>7, LettersGrow
    <2>11. Cat(LettersOf(a.units), Append(Letters(a.cur), c)) = Append(Cat(LettersOf(a.units), Letters(a.cur)), c)
      BY <2>8, Joined
    <2>12. Cat(LettersOf(d.units), Letters(d.cur)) = Letters(y)
      <3>1. CASE c \in White
        BY <2>5, <2>6, <2>9, <2>10, <3>1
      <3>2. CASE c \notin White
        BY <2>5, <2>6, <2>9, <2>10, <2>11, <3>2
      <3> QED BY <3>1, <3>2
    <2>13. CASE b = d
      BY <1>1, <2>2, <2>3, <2>5, <2>6, <2>12, <2>13 DEF ReadSoFar
    <2>14. CASE b = CloseOf(d)
      <3>1. Filled(d.units)
        BY <2>5, <2>6
      <3>2. /\ LettersOf(b.units) = Cat(LettersOf(d.units), Letters(d.cur))
            /\ b.cur = <<>> /\ Filled(b.units) /\ b \in UnitAccs
        BY <2>5, <2>14, <3>1, CloseKeeps
      <3>3. LettersOf(b.units) = Letters(y)
        BY <2>12, <3>2
      <3>4. Letters(y) \in Seq(Chars)
        BY <1>0, <2>3, LettersGrow DEF Prose
      <3>5. Cat(Letters(y), <<>>) = Letters(y)
        BY <1>0, <3>4, Joined
      <3>6. Letters(b.cur) = <<>>
        BY <3>2, LettersGrow
      <3> QED BY <1>1, <2>2, <2>3, <3>2, <3>3, <3>5, <3>6 DEF ReadSoFar
    <2>15. b = d \/ b = CloseOf(d)
      BY <2>2, <2>4 DEF UnitOf
    <2> QED BY <2>13, <2>14, <2>15
  <1>4. \A x \in Seq(Chars) : x \in P
    BY <1>1, <1>2, <1>3, SeqInduction
  <1>5. \A x \in Seq(Chars) : UnitAcc(x) \in UnitAccs
    BY <1>0, UnitFoldGrow
  <1> QED BY <1>1, <1>4, <1>5

\* The pieces of a text have its letters, and none is empty.
LEMMA UnitsKeep ==
    ASSUME NEW s \in Prose
    PROVE  /\ SentenceUnits(s) \in Seq(Prose) /\ Filled(SentenceUnits(s))
           /\ LettersOf(SentenceUnits(s)) = Letters(s)
  <1>1. s \in Seq(Chars)
    BY DEF Prose
  <1>2. PICK a : a = UnitAcc(s)
    OBVIOUS
  <1>3. SentenceUnits(s) = CloseOf(a).units
    BY <1>2, UnitFold DEF UnitAcc
  <1>4. a \in UnitAccs /\ Filled(a.units) /\ Cat(LettersOf(a.units), Letters(a.cur)) = Letters(s)
    BY <1>1, <1>2, UnitsRead DEF ReadSoFar
  <1>5. /\ LettersOf(CloseOf(a).units) = Cat(LettersOf(a.units), Letters(a.cur))
        /\ Filled(CloseOf(a).units) /\ CloseOf(a) \in UnitAccs
    BY <1>4, CloseKeeps
  <1>6. CloseOf(a).units \in Seq(Prose)
    BY <1>5 DEF UnitAccs
  <1> QED BY <1>3, <1>4, <1>5, <1>6

-----------------------------------------------------------------------------
(* The chunks of a text. *)

ChunkAccs == [done : Seq(Prose), cur : Prose]
ChunkBase == [done |-> <<>>, cur |-> <<>>]
ChunkOf(acc, unit) ==
    IF acc.cur = <<>> THEN [acc EXCEPT !.cur = unit]
    ELSE IF Len(acc.cur) + 1 + Len(unit) > MaxChunk
    THEN [done |-> Append(acc.done, acc.cur), cur |-> unit]
    ELSE [acc EXCEPT !.cur = @ \o <<Blank>> \o unit]
ChunkStep == [p \in ChunkAccs \X Prose |-> ChunkOf(p[1], p[2])]
ChunkAcc(us) == Fold(ChunkAccs, ChunkBase, ChunkStep, us)
PackOf(acc) == Append(acc.done, acc.cur)

\* What a piece does to the chunk being filled.
LEMMA ChunkCases ==
    ASSUME NEW acc \in ChunkAccs, NEW unit \in Prose
    PROVE  /\ acc.done \in Seq(Prose) /\ acc.cur \in Prose
           /\ ChunkOf(acc, unit) \in ChunkAccs
           /\ acc.cur = <<>> => ChunkOf(acc, unit).done = acc.done /\ ChunkOf(acc, unit).cur = unit
           /\ acc.cur # <<>> =>
                \/ /\ ChunkOf(acc, unit).done = Append(acc.done, acc.cur)
                   /\ ChunkOf(acc, unit).cur = unit
                \/ /\ ChunkOf(acc, unit).done = acc.done
                   /\ ChunkOf(acc, unit).cur = Cat(Cat(acc.cur, <<Blank>>), unit)
                   /\ Len(ChunkOf(acc, unit).cur) <= MaxChunk
  <1>0. Blank \in Chars /\ MaxChunk \in Nat
    BY MailAssumption DEF White
  <1>1. acc.done \in Seq(Prose) /\ acc.cur \in Prose
    BY DEF ChunkAccs
  <1>2. CASE acc.cur = <<>>
    <2>1. ChunkOf(acc, unit) = [acc EXCEPT !.cur = unit]
      BY <1>2 DEF ChunkOf
    <2> QED BY <1>1, <1>2, <2>1 DEF ChunkAccs
  <1>3. CASE acc.cur # <<>> /\ Len(acc.cur) + 1 + Len(unit) > MaxChunk
    <2>1. ChunkOf(acc, unit) = [done |-> Append(acc.done, acc.cur), cur |-> unit]
      BY <1>3 DEF ChunkOf
    <2>2. Append(acc.done, acc.cur) \in Seq(Prose)
      BY <1>1
    <2> QED BY <1>1, <1>3, <2>1, <2>2 DEF ChunkAccs
  <1>4. CASE acc.cur # <<>> /\ ~(Len(acc.cur) + 1 + Len(unit) > MaxChunk)
    <2>1. PICK x, w : x = Cat(acc.cur, <<Blank>>) /\ w = Cat(x, unit)
      OBVIOUS
    <2>2. <<Blank>> \in Seq(Chars) /\ Len(<<Blank>>) = 1
      BY <1>0
    <2>a. acc.cur \in Seq(Chars)
      BY <1>1 DEF Prose
    <2>b. PICK g : g = <<Blank>>
      OBVIOUS
    <2>c. g \in Seq(Chars) /\ Len(g) = 1
      BY <2>2, <2>b
    <2>d. Cat(acc.cur, g) \in Seq(Chars) /\ Len(Cat(acc.cur, g)) = Len(acc.cur) + Len(g)
      BY <2>a, <2>c, CatParts
    <2>3. x \in Seq(Chars) /\ Len(x) = Len(acc.cur) + 1
      BY <2>1, <2>b, <2>c, <2>d
    <2>4. w \in Seq(Chars) /\ Len(w) = Len(x) + Len(unit)
      BY <2>1, <2>3, CatParts DEF Prose
    <2>5. Len(acc.cur) \in Nat /\ Len(unit) \in Nat
      BY <1>1 DEF Prose
    <2>6. Len(w) <= MaxChunk
      BY <1>0, <1>4, <2>3, <2>4, <2>5
    <2>7. ChunkOf(acc, unit) = [acc EXCEPT !.cur = acc.cur \o <<Blank>> \o unit]
      BY <1>4 DEF ChunkOf
    <2>8. w = acc.cur \o <<Blank>> \o unit
      BY <2>1 DEF Cat
    <2>9. ChunkOf(acc, unit) = [acc EXCEPT !.cur = w]
      BY <2>7, <2>8
    <2>10. w \in Prose
      BY <2>4 DEF Prose
    <2>11. ChunkOf(acc, unit) \in ChunkAccs /\ ChunkOf(acc, unit).done = acc.done /\ ChunkOf(acc, unit).cur = w
      BY <2>9, <2>10 DEF ChunkAccs
    <2> QED BY <1>1, <1>4, <2>1, <2>6, <2>11
  <1> QED BY <1>2, <1>3, <1>4

\* Pieces are joined to chunks one by one: the step's type.
LEMMA ChunkFoldStep == StepOn(ChunkStep, ChunkAccs, Prose) /\ ChunkBase \in ChunkAccs
  <1>1. \A acc \in ChunkAccs, unit \in Prose : ChunkOf(acc, unit) \in ChunkAccs
    BY ChunkCases
  <1>2. ChunkStep \in [ChunkAccs \X Prose -> ChunkAccs]
    BY <1>1 DEF ChunkStep
  <1>3. ChunkBase \in ChunkAccs
    BY LettersGrow DEF ChunkBase, ChunkAccs
  <1> QED BY <1>2, <1>3 DEF StepOn

\* The chunks of a text are those of the fold over its pieces.
LEMMA ChunkFold ==
    ASSUME NEW text \in Prose, SentenceUnits(text) # <<>>
    PROVE  Chunks(text) = PackOf(Fold(ChunkAccs, ChunkBase, ChunkStep, SentenceUnits(text)))
  <1> DEFINE F(it) == [S \in SUBSET DOMAIN SentenceUnits(text) |->
                         IF S = {} THEN ChunkBase ELSE ChunkOf(it[S \ {Max(S)}], SentenceUnits(text)[Max(S)])]
             rec == CHOOSE it : it = F(it)
  <1>1. StepOn(ChunkStep, ChunkAccs, Prose) /\ ChunkBase \in ChunkAccs
    BY ChunkFoldStep
  <1>2. SentenceUnits(text) \in Seq(Prose) /\ DOMAIN SentenceUnits(text) = 1..Len(SentenceUnits(text))
    BY UnitsKeep
  <1>3. PICK h : Iterates(h, ChunkAccs, ChunkBase, ChunkStep, SentenceUnits(text), Len(SentenceUnits(text)))
    BY <1>1, <1>2, IterationExists
  <1>4. \A x \in ChunkAccs, c \in Prose : ChunkStep[<<x, c>>] = ChunkOf(x, c)
    BY DEF ChunkStep
  <1>5. ASSUME NEW S \in SUBSET DOMAIN SentenceUnits(text), S # {}
        PROVE  h[S] = ChunkOf(h[S \ {Max(S)}], SentenceUnits(text)[Max(S)])
    <2>1. h[S] = ChunkStep[<<h[S \ {Max(S)}], SentenceUnits(text)[Max(S)]>>] /\ Max(S) \in S
      BY <1>2, <1>3, <1>5 DEF Iterates
    <2>2. h[S \ {Max(S)}] \in ChunkAccs
      BY <1>2, <1>3 DEF Iterates
    <2>a. Max(S) \in 1..Len(SentenceUnits(text))
      BY <1>2, <1>5, <2>1
    <2>3. SentenceUnits(text)[Max(S)] \in Prose
      BY <1>2, <2>a
    <2> QED BY <1>4, <2>1, <2>2, <2>3
  <1>6. h = F(h)
    <2>1. h \in [SUBSET DOMAIN SentenceUnits(text) -> ChunkAccs] /\ h[{}] = ChunkBase
      BY <1>2, <1>3 DEF Iterates
    <2> QED BY <1>5, <2>1
  <1>7. rec = F(rec)
    BY <1>6
  <1>8. Chunks(text) = PackOf(rec[DOMAIN SentenceUnits(text)])
    BY DEF Chunks, PackOf, ChunkOf, ChunkBase, FoldLeft, MapThenFoldSet
  <1> HIDE DEF rec
  <1>9. rec[{}] = ChunkBase
    BY <1>7
  <1>10. ASSUME NEW S \in SUBSET DOMAIN SentenceUnits(text), S # {}
         PROVE  rec[S] = ChunkOf(rec[S \ {Max(S)}], SentenceUnits(text)[Max(S)])
    BY <1>7, <1>10
  <1>11. ASSUME NEW S \in SUBSET (1..Len(SentenceUnits(text))), S # {}, rec[S \ {Max(S)}] \in ChunkAccs
         PROVE  rec[S] = ChunkStep[<<rec[S \ {Max(S)}], SentenceUnits(text)[Max(S)]>>]
    <2>1. Max(S) \in S
      BY <1>3, <1>11 DEF Iterates
    <2>a. Max(S) \in 1..Len(SentenceUnits(text))
      BY <1>11, <2>1
    <2>2. SentenceUnits(text)[Max(S)] \in Prose
      BY <1>2, <2>a
    <2>3. rec[S] = ChunkOf(rec[S \ {Max(S)}], SentenceUnits(text)[Max(S)])
      BY <1>2, <1>10, <1>11
    <2> QED BY <1>4, <1>11, <2>2, <2>3
  <1>12. FoldsBack(rec, ChunkAccs, ChunkBase, ChunkStep, SentenceUnits(text))
    BY <1>9, <1>11 DEF FoldsBack
  <1>13. rec[1..Len(SentenceUnits(text))] = Fold(ChunkAccs, ChunkBase, ChunkStep, SentenceUnits(text))
    BY <1>1, <1>2, <1>12, IterationIsFold
  <1> QED BY <1>2, <1>8, <1>13

\* Its value for no element, and for one more.
LEMMA ChunkFoldGrow ==
    ASSUME NEW s \in Seq(Prose), NEW c \in Prose
    PROVE  /\ ChunkAcc(<<>>) = ChunkBase /\ ChunkAcc(s) \in ChunkAccs
           /\ ChunkAcc(Append(s, c)) = ChunkOf(ChunkAcc(s), c)
  <1>1. StepOn(ChunkStep, ChunkAccs, Prose) /\ ChunkBase \in ChunkAccs
    BY ChunkFoldStep
  <1>2. ChunkAcc(<<>>) = ChunkBase
    BY <1>1, FoldEmpty DEF ChunkAcc
  <1>3. ChunkAcc(s) \in ChunkAccs
    BY <1>1, FoldType DEF ChunkAcc
  <1>4. ChunkAcc(Append(s, c)) = ChunkStep[<<ChunkAcc(s), c>>]
    BY <1>1, FoldAppend DEF ChunkAcc
  <1>5. ChunkStep[<<ChunkAcc(s), c>>] = ChunkOf(ChunkAcc(s), c)
    BY <1>3 DEF ChunkStep
  <1> QED BY <1>2, <1>3, <1>4, <1>5

\* A chunk is not empty, and one that is too long is a piece of U.
Fits(c, U) == c # <<>> /\ (Len(c) > MaxChunk => c \in U)
AllFit(cs, U) == \A i \in 1..Len(cs) : Fits(cs[i], U)

\* It stays so.
LEMMA FitsGrow ==
    ASSUME NEW cs \in Seq(Prose), NEW c \in Prose, NEW U, AllFit(cs, U), Fits(c, U)
    PROVE  AllFit(Append(cs, c), U)
  <1>1. Len(Append(cs, c)) = Len(cs) + 1 /\ Len(cs) \in Nat
    OBVIOUS
  <1>2. ASSUME NEW i \in 1..Len(Append(cs, c)) PROVE Fits(Append(cs, c)[i], U)
    <2>1. CASE i = Len(cs) + 1
      <3>1. Append(cs, c)[i] = c
        BY <2>1
      <3> QED BY <3>1
    <2>2. CASE i # Len(cs) + 1
      <3>1. i \in 1..Len(cs)
        BY <1>1, <2>2
      <3>2. Append(cs, c)[i] = cs[i]
        BY <3>1
      <3> QED BY <3>1, <3>2 DEF AllFit
    <2> QED BY <2>1, <2>2
  <1> QED BY <1>2 DEF AllFit

\* The chunks so far have the letters of the pieces so far, and fit.
PackedSoFar(us, U) ==
    /\ AllFit(ChunkAcc(us).done, U)
    /\ us = <<>> \/ Fits(ChunkAcc(us).cur, U)
    /\ Cat(LettersOf(ChunkAcc(us).done), Letters(ChunkAcc(us).cur)) = LettersOf(us)

\* One piece more.
LEMMA OnePieceMore ==
    ASSUME NEW U \in SUBSET Prose, <<>> \notin U, NEW us \in Seq(Prose), NEW unit \in U,
           PackedSoFar(us, U)
    PROVE  PackedSoFar(Append(us, unit), U)
  <1>0. Blank \in Chars
    BY MailAssumption DEF White
  <1>1. PICK a, y, b : a = ChunkAcc(us) /\ y = Append(us, unit) /\ b = ChunkAcc(y)
    OBVIOUS
  <1>2. unit \in Prose /\ y \in Seq(Prose) /\ y # <<>>
    BY <1>1
  <1>3. a \in ChunkAccs /\ b = ChunkOf(a, unit)
    BY <1>1, <1>2, ChunkFoldGrow
  <1>4. /\ AllFit(a.done, U) /\ (us = <<>> \/ Fits(a.cur, U))
        /\ Cat(LettersOf(a.done), Letters(a.cur)) = LettersOf(us)
    BY <1>1 DEF PackedSoFar
  <1>5. a.done \in Seq(Prose) /\ a.cur \in Prose
    BY <1>3 DEF ChunkAccs
  <1>6. PICK D, C, V : D = LettersOf(a.done) /\ C = Letters(a.cur) /\ V = Letters(unit)
    OBVIOUS
  <1>7. D \in Seq(Chars) /\ C \in Seq(Chars) /\ V \in Seq(Chars)
    BY <1>0, <1>2, <1>5, <1>6, PiecesGrow, LettersGrow DEF Prose
  <1>8. LettersOf(y) = Cat(LettersOf(us), V)
    BY <1>1, <1>2, <1>6, PiecesGrow
  <1>9. Cat(D, C) = LettersOf(us)
    BY <1>4, <1>6
  <1>10. Fits(unit, U)
    BY DEF Fits
  <1>11. CASE a.cur = <<>>
    <2>1. b.done = a.done /\ b.cur = unit
      BY <1>2, <1>3, <1>11, ChunkCases
    <2>2. C = <<>>
      BY <1>6, <1>11, LettersGrow
    <2>3. Cat(D, <<>>) = D
      BY <1>0, <1>7, Joined
    <2>4. LettersOf(y) = Cat(LettersOf(b.done), Letters(b.cur))
      BY <1>6, <1>8, <1>9, <2>1, <2>2, <2>3
    <2> QED BY <1>1, <1>4, <1>10, <2>1, <2>4 DEF PackedSoFar
  <1>12. CASE a.cur # <<>> /\ b.done = Append(a.done, a.cur) /\ b.cur = unit
    <2>1. us # <<>>
      <3>1. SUFFICES ASSUME us = <<>> PROVE FALSE
        OBVIOUS
      <3>2. ChunkAcc(<<>>) = ChunkBase
        BY <1>2, ChunkFoldGrow
      <3> QED BY <1>1, <1>12, <3>1, <3>2 DEF ChunkBase
    <2>2. Fits(a.cur, U)
      BY <1>4, <2>1
    <2>3. AllFit(b.done, U)
      BY <1>4, <1>5, <1>12, <2>2, FitsGrow
    <2>4. LettersOf(b.done) = Cat(D, C)
      BY <1>5, <1>6, <1>12, PiecesGrow
    <2>5. LettersOf(y) = Cat(LettersOf(b.done), Letters(b.cur))
      BY <1>6, <1>8, <1>9, <1>12, <2>4
    <2> QED BY <1>1, <1>10, <1>12, <2>3, <2>5 DEF PackedSoFar
  <1>13. CASE a.cur # <<>> /\ b.done = a.done /\ b.cur = Cat(Cat(a.cur, <<Blank>>), unit) /\ Len(b.cur) <= MaxChunk
    <2>1. PICK x : x = Cat(a.cur, <<Blank>>)
      OBVIOUS
    <2>2. <<Blank>> \in Prose /\ Letters(<<Blank>>) = <<>> /\ Len(<<Blank>>) = 1
      BY LettersOfFew
    <2>b. a.cur \in Seq(Chars) /\ <<Blank>> \in Seq(Chars)
      BY <1>5, <2>2 DEF Prose
    <2>c. PICK g : g = <<Blank>>
      OBVIOUS
    <2>d. g \in Seq(Chars) /\ Len(g) = 1
      BY <2>2, <2>b, <2>c
    <2>e. Cat(a.cur, g) \in Seq(Chars) /\ Len(Cat(a.cur, g)) = Len(a.cur) + Len(g)
      BY <2>b, <2>d, CatParts
    <2>3. x \in Prose /\ Len(x) = Len(a.cur) + 1
      BY <2>1, <2>c, <2>d, <2>e DEF Prose
    <2>4. Letters(x) = Cat(C, <<>>)
      BY <1>5, <1>6, <2>1, <2>2, LettersCat
    <2>5. Cat(C, <<>>) = C
      BY <1>0, <1>7, Joined
    <2>6. Letters(b.cur) = Cat(C, V)
      BY <1>2, <1>6, <1>13, <2>1, <2>3, <2>4, <2>5, LettersCat
    <2>7. Cat(Cat(D, C), V) = Cat(D, Cat(C, V))
      BY <1>0, <1>7, Joined
    <2>8. LettersOf(y) = Cat(LettersOf(b.done), Letters(b.cur))
      BY <1>6, <1>8, <1>9, <1>13, <2>6, <2>7
    <2>a. x \in Seq(Chars) /\ unit \in Seq(Chars) /\ b.cur = Cat(x, unit)
      BY <1>2, <1>13, <2>1, <2>3 DEF Prose
    <2>9. b.cur \in Prose /\ Len(b.cur) = Len(x) + Len(unit)
      BY <2>a, CatParts DEF Prose
    <2>10. Len(unit) \in Nat /\ Len(a.cur) \in Nat /\ Len(b.cur) > 0
      BY <1>2, <1>5, <2>3, <2>9 DEF Prose
    <2>11. b.cur # <<>>
      BY <2>10
    <2>12. ~(Len(b.cur) > MaxChunk)
      BY <1>13, <2>9, MailAssumption DEF Prose
    <2>13. Fits(b.cur, U)
      BY <2>11, <2>12 DEF Fits
    <2> QED BY <1>1, <1>4, <1>13, <2>8, <2>13 DEF PackedSoFar
  <1> QED BY <1>2, <1>3, <1>11, <1>12, <1>13, ChunkCases

\* The chunks of a text with letters have them all, are some, and fit.
LEMMA ChunksKeep ==
    ASSUME NEW s \in Prose, Letters(s) # <<>>
    PROVE  /\ Chunks(s) \in Seq(Prose) /\ Len(Chunks(s)) > 0
           /\ LettersOf(Chunks(s)) = Letters(s)
           /\ AllFit(Chunks(s), Range(SentenceUnits(s)))
  <1>0. Blank \in Chars
    BY MailAssumption DEF White
  <1>1. PICK us, U : us = SentenceUnits(s) /\ U = Range(SentenceUnits(s))
    OBVIOUS
  <1>2. us \in Seq(Prose) /\ Filled(us) /\ LettersOf(us) = Letters(s)
    BY <1>1, UnitsKeep
  <1>3. us # <<>>
    BY <1>2, PiecesGrow
  <1>4. U \in SUBSET Prose /\ <<>> \notin U /\ \A i \in 1..Len(us) : us[i] \in U
    BY <1>1, <1>2 DEF Range, Filled
  <1>5. PICK P : P = {x \in Seq(Prose) : (\A i \in 1..Len(x) : x[i] \in U) => PackedSoFar(x, U)}
    OBVIOUS
  <1>6. <<>> \in P
    <2>0. <<>> \in Seq(Prose) /\ <<>> \in Prose
      BY LettersGrow
    <2>1. ChunkAcc(<<>>) = ChunkBase
      BY <2>0, ChunkFoldGrow
    <2>2. ChunkBase.done = <<>> /\ ChunkBase.cur = <<>>
      BY DEF ChunkBase
    <2>3. AllFit(<<>>, U)
      BY DEF AllFit
    <2>a. <<>> \in Seq(Chars)
      OBVIOUS
    <2>4. LettersOf(<<>>) = <<>> /\ Letters(<<>>) = <<>> /\ Cat(<<>>, <<>>) = <<>>
      BY <1>0, <2>a, PiecesGrow, LettersGrow, Joined
    <2> QED BY <1>5, <2>0, <2>1, <2>2, <2>3, <2>4 DEF PackedSoFar
  <1>7. ASSUME NEW x \in P, NEW c \in Prose PROVE Append(x, c) \in P
    <2>1. x \in Seq(Prose) /\ ((\A i \in 1..Len(x) : x[i] \in U) => PackedSoFar(x, U))
      BY <1>5
    <2>2. PICK y : y = Append(x, c)
      OBVIOUS
    <2>3. y \in Seq(Prose) /\ Len(y) = Len(x) + 1 /\ Len(x) \in Nat /\ y[Len(x) + 1] = c
      BY <2>1, <2>2
    <2>4. ASSUME \A i \in 1..Len(y) : y[i] \in U PROVE PackedSoFar(y, U)
      <3>1. c \in U
        BY <2>3, <2>4
      <3>2. \A i \in 1..Len(x) : x[i] = y[i] /\ i \in 1..Len(y)
        BY <2>1, <2>2, <2>3
      <3>3. PackedSoFar(x, U)
        BY <2>1, <2>4, <3>2
      <3> QED BY <1>4, <2>1, <2>2, <3>1, <3>3, OnePieceMore
    <2> QED BY <1>5, <2>2, <2>3, <2>4
  <1>8. \A x \in Seq(Prose) : x \in P
    BY <1>5, <1>6, <1>7, SeqInduction
  <1>9. PackedSoFar(us, U)
    BY <1>2, <1>4, <1>5, <1>8
  <1>10. PICK a : a = ChunkAcc(us)
    OBVIOUS
  <1>11. Chunks(s) = Append(a.done, a.cur)
    BY <1>1, <1>3, <1>10, ChunkFold DEF ChunkAcc, PackOf
  <1>12. /\ AllFit(a.done, U) /\ Fits(a.cur, U)
         /\ Cat(LettersOf(a.done), Letters(a.cur)) = LettersOf(us)
    BY <1>3, <1>9, <1>10 DEF PackedSoFar
  <1>13. a \in ChunkAccs
    BY <1>2, <1>10, LettersGrow, ChunkFoldGrow
  <1>14. a.done \in Seq(Prose) /\ a.cur \in Prose
    BY <1>13 DEF ChunkAccs
  <1>15. AllFit(Chunks(s), U)
    BY <1>11, <1>12, <1>14, FitsGrow
  <1>16. LettersOf(Chunks(s)) = Letters(s)
    BY <1>2, <1>11, <1>12, <1>14, PiecesGrow
  <1>17. Chunks(s) \in Seq(Prose) /\ Len(Chunks(s)) > 0
    BY <1>11, <1>14
  <1> QED BY <1>1, <1>15, <1>16, <1>17

-----------------------------------------------------------------------------
(* The core of a body. *)

Places(ls) == [i \in DOMAIN ls |-> i]
JoinOf(ls, acc, i) == acc \o (IF i > 1 THEN <<NL>> ELSE <<>>) \o ls[i]
JoinStep(ls) == [p \in Prose \X (1..Len(ls)) |-> JoinOf(ls, p[1], p[2])]
JoinAcc(ls, x) == Fold(Prose, <<>>, JoinStep(ls), x)

\* A line put after a text adds its letters.
LEMMA JoinLetters ==
    ASSUME NEW ls \in Seq(Prose), NEW acc \in Prose, NEW i \in 1..Len(ls)
    PROVE  /\ JoinOf(ls, acc, i) \in Prose
           /\ Letters(JoinOf(ls, acc, i)) = Cat(Letters(acc), Letters(ls[i]))
  <1>0. Blank \in Chars
    BY MailAssumption DEF White
  <1>1. PICK g, l : g = (IF i > 1 THEN <<NL>> ELSE <<>>) /\ l = ls[i]
    OBVIOUS
  <1>2. g \in Prose /\ Letters(g) = <<>>
    BY <1>1, LettersGrow, LettersOfFew
  <1>3. l \in Prose
    BY <1>1
  <1>4. PICK w : w = Cat(acc, g)
    OBVIOUS
  <1>5. w \in Prose
    BY <1>0, <1>2, <1>4, Joined DEF Prose
  <1>6. JoinOf(ls, acc, i) = Cat(w, l)
    BY <1>1, <1>4 DEF JoinOf, Cat
  <1>7. Cat(w, l) \in Prose
    BY <1>0, <1>3, <1>5, Joined DEF Prose
  <1>8. Letters(w) = Cat(Letters(acc), <<>>)
    BY <1>2, <1>4, LettersCat
  <1>9. Letters(acc) \in Seq(Chars)
    BY <1>0, LettersGrow DEF Prose
  <1>10. Cat(Letters(acc), <<>>) = Letters(acc)
    BY <1>0, <1>9, Joined
  <1>11. Letters(Cat(w, l)) = Cat(Letters(w), Letters(l))
    BY <1>3, <1>5, LettersCat
  <1> QED BY <1>1, <1>6, <1>7, <1>8, <1>10, <1>11

\* Lines are joined one by one: the step's type.
LEMMA JoinFoldStep ==
    ASSUME NEW ls \in Seq(Prose)
    PROVE  StepOn(JoinStep(ls), Prose, (1..Len(ls))) /\ <<>> \in Prose
  <1>1. \A acc \in Prose, i \in 1..Len(ls) : JoinOf(ls, acc, i) \in Prose
    BY JoinLetters
  <1>2. JoinStep(ls) \in [Prose \X (1..Len(ls)) -> Prose]
    BY <1>1 DEF JoinStep
  <1> QED BY <1>2, LettersGrow DEF StepOn

\* Joined lines are those of the fold over their places.
LEMMA JoinFold ==
    ASSUME NEW ls \in Seq(Prose)
    PROVE  JoinLines(ls) = Fold(Prose, <<>>, JoinStep(ls), Places(ls))
  <1> DEFINE F(it) == [S \in SUBSET DOMAIN Places(ls) |->
                         IF S = {} THEN <<>> ELSE JoinOf(ls, it[S \ {Max(S)}], Places(ls)[Max(S)])]
             rec == CHOOSE it : it = F(it)
  <1>1. StepOn(JoinStep(ls), Prose, (1..Len(ls))) /\ <<>> \in Prose
    BY JoinFoldStep
  <1>2. Places(ls) \in Seq((1..Len(ls))) /\ DOMAIN Places(ls) = 1..Len(Places(ls))
    BY DEF Places
  <1>3. PICK h : Iterates(h, Prose, <<>>, JoinStep(ls), Places(ls), Len(Places(ls)))
    BY <1>1, <1>2, IterationExists
  <1>4. \A x \in Prose, c \in (1..Len(ls)) : JoinStep(ls)[<<x, c>>] = JoinOf(ls, x, c)
    BY DEF JoinStep
  <1>5. ASSUME NEW S \in SUBSET DOMAIN Places(ls), S # {}
        PROVE  h[S] = JoinOf(ls, h[S \ {Max(S)}], Places(ls)[Max(S)])
    <2>1. h[S] = JoinStep(ls)[<<h[S \ {Max(S)}], Places(ls)[Max(S)]>>] /\ Max(S) \in S
      BY <1>2, <1>3, <1>5 DEF Iterates
    <2>2. h[S \ {Max(S)}] \in Prose
      BY <1>2, <1>3 DEF Iterates
    <2>a. Max(S) \in 1..Len(Places(ls))
      BY <1>2, <1>5, <2>1
    <2>3. Places(ls)[Max(S)] \in (1..Len(ls))
      BY <1>2, <2>a
    <2> QED BY <1>4, <2>1, <2>2, <2>3
  <1>6. h = F(h)
    <2>1. h \in [SUBSET DOMAIN Places(ls) -> Prose] /\ h[{}] = <<>>
      BY <1>2, <1>3 DEF Iterates
    <2> QED BY <1>5, <2>1
  <1>7. rec = F(rec)
    BY <1>6
  <1>8. JoinLines(ls) = rec[DOMAIN Places(ls)]
    BY DEF JoinLines, Places, JoinOf, FoldLeft, MapThenFoldSet
  <1> HIDE DEF rec
  <1>9. rec[{}] = <<>>
    BY <1>7
  <1>10. ASSUME NEW S \in SUBSET DOMAIN Places(ls), S # {}
         PROVE  rec[S] = JoinOf(ls, rec[S \ {Max(S)}], Places(ls)[Max(S)])
    BY <1>7, <1>10
  <1>11. ASSUME NEW S \in SUBSET (1..Len(Places(ls))), S # {}, rec[S \ {Max(S)}] \in Prose
         PROVE  rec[S] = JoinStep(ls)[<<rec[S \ {Max(S)}], Places(ls)[Max(S)]>>]
    <2>1. Max(S) \in S
      BY <1>3, <1>11 DEF Iterates
    <2>a. Max(S) \in 1..Len(Places(ls))
      BY <1>11, <2>1
    <2>2. Places(ls)[Max(S)] \in (1..Len(ls))
      BY <1>2, <2>a
    <2>3. rec[S] = JoinOf(ls, rec[S \ {Max(S)}], Places(ls)[Max(S)])
      BY <1>2, <1>10, <1>11
    <2> QED BY <1>4, <1>11, <2>2, <2>3
  <1>12. FoldsBack(rec, Prose, <<>>, JoinStep(ls), Places(ls))
    BY <1>9, <1>11 DEF FoldsBack
  <1>13. rec[1..Len(Places(ls))] = Fold(Prose, <<>>, JoinStep(ls), Places(ls))
    BY <1>1, <1>2, <1>12, IterationIsFold
  <1> QED BY <1>2, <1>8, <1>13

\* Its value for no element, and for one more.
LEMMA JoinFoldGrow ==
    ASSUME NEW ls \in Seq(Prose), NEW s \in Seq((1..Len(ls))), NEW c \in (1..Len(ls))
    PROVE  /\ JoinAcc(ls, <<>>) = <<>> /\ JoinAcc(ls, s) \in Prose
           /\ JoinAcc(ls, Append(s, c)) = JoinOf(ls, JoinAcc(ls, s), c)
  <1>1. StepOn(JoinStep(ls), Prose, (1..Len(ls))) /\ <<>> \in Prose
    BY JoinFoldStep
  <1>2. JoinAcc(ls, <<>>) = <<>>
    BY <1>1, FoldEmpty DEF JoinAcc
  <1>3. JoinAcc(ls, s) \in Prose
    BY <1>1, FoldType DEF JoinAcc
  <1>4. JoinAcc(ls, Append(s, c)) = JoinStep(ls)[<<JoinAcc(ls, s), c>>]
    BY <1>1, FoldAppend DEF JoinAcc
  <1>5. JoinStep(ls)[<<JoinAcc(ls, s), c>>] = JoinOf(ls, JoinAcc(ls, s), c)
    BY <1>3 DEF JoinStep
  <1> QED BY <1>2, <1>3, <1>4, <1>5

\* The lines at some places.
Picked(ls, x) == [i \in 1..Len(x) |-> ls[x[i]]]

\* The lines at one place more.
LEMMA PickedGrows ==
    ASSUME NEW ls \in Seq(Prose), NEW x \in Seq(1..Len(ls)), NEW c \in 1..Len(ls)
    PROVE  /\ Picked(ls, x) \in Seq(Prose)
           /\ Picked(ls, Append(x, c)) = Append(Picked(ls, x), ls[c])
  <1>1. PICK y, p, q, n : y = Append(x, c) /\ p = Picked(ls, x) /\ q = Picked(ls, y) /\ n = Len(x)
    OBVIOUS
  <1>2. n \in Nat /\ y \in Seq(1..Len(ls)) /\ Len(y) = n + 1 /\ y[n + 1] = c /\ \A i \in 1..n : y[i] = x[i]
    BY <1>1
  <1>3. \A z \in Seq(1..Len(ls)) : Picked(ls, z) \in Seq(Prose) /\ Len(Picked(ls, z)) = Len(z)
    <2> SUFFICES ASSUME NEW z \in Seq(1..Len(ls))
                 PROVE  Picked(ls, z) \in Seq(Prose) /\ Len(Picked(ls, z)) = Len(z)
      OBVIOUS
    <2>1. \A i \in 1..Len(z) : ls[z[i]] \in Prose
      OBVIOUS
    <2> QED BY <2>1 DEF Picked
  <1>4. p \in Seq(Prose) /\ Len(p) = n /\ q \in Seq(Prose) /\ Len(q) = n + 1
    BY <1>1, <1>2, <1>3
  <1>5. PICK r : r = Append(p, ls[c])
    OBVIOUS
  <1>6. r \in Seq(Prose) /\ Len(r) = n + 1
    BY <1>4, <1>5
  <1>7. ASSUME NEW i \in 1..(n + 1) PROVE q[i] = r[i]
    <2>0. q[i] = ls[y[i]]
      BY <1>1, <1>2 DEF Picked
    <2>1. CASE i = n + 1
      <3>1. r[i] = ls[c]
        BY <1>4, <1>5, <2>1
      <3> QED BY <1>2, <2>0, <2>1, <3>1
    <2>2. CASE i # n + 1
      <3>1. i \in 1..n
        BY <1>2, <2>2
      <3>2. r[i] = p[i]
        BY <1>4, <1>5, <3>1
      <3>3. p[i] = ls[x[i]]
        BY <1>1, <3>1 DEF Picked
      <3> QED BY <1>2, <2>0, <3>1, <3>2, <3>3
    <2> QED BY <2>1, <2>2
  <1>8. q = r
    BY <1>2, <1>4, <1>6, <1>7, SeqEqual
  <1> QED BY <1>1, <1>4, <1>5, <1>8

\* Joined lines have the letters of the lines.
LEMMA JoinKeeps ==
    ASSUME NEW ls \in Seq(Prose)
    PROVE  JoinLines(ls) \in Prose /\ Letters(JoinLines(ls)) = LettersOf(ls)
  <1>1. PICK Y : Y = 1..Len(ls)
    OBVIOUS
  <1>2. PICK P : P = {x \in Seq(Y) : JoinAcc(ls, x) \in Prose /\ Letters(JoinAcc(ls, x)) = LettersOf(Picked(ls, x))}
    OBVIOUS
  <1>3. <<>> \in P
    <2>1. <<>> \in Seq(Y)
      OBVIOUS
    <2>2. JoinAcc(ls, <<>>) = <<>>
      BY JoinFoldStep, FoldEmpty DEF JoinAcc
    <2>3. Picked(ls, <<>>) = <<>>
      BY DEF Picked
    <2>4. <<>> \in Prose /\ Letters(<<>>) = <<>> /\ LettersOf(<<>>) = <<>>
      BY LettersGrow, PiecesGrow
    <2> QED BY <1>2, <2>1, <2>2, <2>3, <2>4
  <1>4. ASSUME NEW x \in P, NEW c \in Y PROVE Append(x, c) \in P
    <2>1. x \in Seq(Y) /\ JoinAcc(ls, x) \in Prose /\ Letters(JoinAcc(ls, x)) = LettersOf(Picked(ls, x))
      BY <1>2
    <2>2. PICK y, a : y = Append(x, c) /\ a = JoinAcc(ls, x)
      OBVIOUS
    <2>3. y \in Seq(Y)
      BY <2>1, <2>2
    <2>4. JoinAcc(ls, y) = JoinOf(ls, a, c)
      BY <1>1, <2>1, <2>2, JoinFoldGrow
    <2>5. JoinAcc(ls, y) \in Prose /\ Letters(JoinAcc(ls, y)) = Cat(Letters(a), Letters(ls[c]))
      BY <1>1, <2>1, <2>2, <2>4, JoinLetters
    <2>6. Picked(ls, x) \in Seq(Prose) /\ Picked(ls, y) = Append(Picked(ls, x), ls[c])
      BY <1>1, <2>1, <2>2, PickedGrows
    <2>7. ls[c] \in Prose
      BY <1>1
    <2>8. LettersOf(Picked(ls, y)) = Cat(LettersOf(Picked(ls, x)), Letters(ls[c]))
      BY <2>6, <2>7, PiecesGrow
    <2> QED BY <1>2, <2>1, <2>2, <2>3, <2>5, <2>8
  <1>5. \A x \in Seq(Y) : x \in P
    BY <1>2, <1>3, <1>4, SeqInduction
  <1>6. Places(ls) \in Seq(Y) /\ Len(Places(ls)) = Len(ls) /\ \A i \in 1..Len(ls) : Places(ls)[i] = i
    BY <1>1 DEF Places
  <1>7. Picked(ls, Places(ls)) = ls
    <2>1. Picked(ls, Places(ls)) = [i \in 1..Len(ls) |-> ls[i]]
      BY <1>6 DEF Picked
    <2> QED BY <2>1
  <1>8. JoinLines(ls) = JoinAcc(ls, Places(ls))
    BY JoinFold DEF JoinAcc
  <1> QED BY <1>2, <1>5, <1>6, <1>7, <1>8

CoreAccs == [out : Seq(Prose), blank : BOOLEAN, stop : BOOLEAN]
CoreBase == [out |-> <<>>, blank |-> FALSE, stop |-> FALSE]
LineOf(acc, line) ==
    LET text == Trim(line)
    IN  IF acc.stop THEN acc
        ELSE IF text = <<>>
        THEN [acc EXCEPT !.out = IF ~acc.blank /\ @ # <<>> THEN Append(@, <<>>) ELSE @,
                         !.blank = TRUE]
        ELSE IF text \in {Intro, Sign} THEN [acc EXCEPT !.stop = TRUE]
        ELSE IF text = Quote THEN acc
        ELSE [acc EXCEPT !.out = Append(@, text), !.blank = FALSE]
CoreStep == [p \in CoreAccs \X Prose |-> LineOf(p[1], p[2])]
CoreAcc(body) == Fold(CoreAccs, CoreBase, CoreStep, body)

\* A reply intro or a signature.
IsCut(line) == Trim(line) \in {Intro, Sign}

\* What a line does to the core.
LEMMA LineCases ==
    ASSUME NEW acc \in CoreAccs, NEW line \in Prose
    PROVE  /\ acc.out \in Seq(Prose) /\ acc.stop \in BOOLEAN
           /\ LineOf(acc, line) \in CoreAccs
           /\ acc.stop => LineOf(acc, line) = acc
           /\ ~acc.stop /\ IsCut(line) => LineOf(acc, line).out = acc.out /\ LineOf(acc, line).stop
           /\ ~acc.stop /\ ~IsCut(line) =>
                /\ ~LineOf(acc, line).stop
                /\ \/ Trim(line) = <<>> /\ LineOf(acc, line).out \in {acc.out, Append(acc.out, <<>>)}
                   \/ Trim(line) = Quote /\ LineOf(acc, line).out = acc.out
                   \/ Trim(line) # Quote /\ LineOf(acc, line).out = Append(acc.out, Trim(line))
  <1>1. acc.out \in Seq(Prose) /\ acc.blank \in BOOLEAN /\ acc.stop \in BOOLEAN
    BY DEF CoreAccs
  <1>2. PICK text, b : text = Trim(line) /\ b = LineOf(acc, line)
    OBVIOUS
  <1>3. text \in Prose /\ <<>> \in Prose
    BY <1>2, TrimKeeps, LettersGrow
  <1>4. CASE acc.stop
    <2>1. b = acc
      BY <1>2, <1>4 DEF LineOf
    <2> QED BY <1>1, <1>2, <1>4, <2>1
  <1>5. CASE ~acc.stop /\ text = <<>>
    <2>1. PICK w : w = IF ~acc.blank /\ acc.out # <<>> THEN Append(acc.out, <<>>) ELSE acc.out
      OBVIOUS
    <2>2. b = [acc EXCEPT !.out = w, !.blank = TRUE]
      BY <1>2, <1>5, <2>1 DEF LineOf
    <2>3. w \in Seq(Prose) /\ w \in {acc.out, Append(acc.out, <<>>)}
      BY <1>1, <1>3, <2>1
    <2>4. b \in CoreAccs /\ b.out = w /\ b.stop = acc.stop
      BY <2>2, <2>3 DEF CoreAccs
    <2>5. text \notin {Intro, Sign}
      BY <1>5 DEF Intro, Sign
    <2> QED BY <1>1, <1>2, <1>5, <2>3, <2>4, <2>5 DEF IsCut
  <1>6. CASE ~acc.stop /\ text # <<>> /\ text \in {Intro, Sign}
    <2>1. b = [acc EXCEPT !.stop = TRUE]
      BY <1>2, <1>6 DEF LineOf
    <2>2. b \in CoreAccs /\ b.out = acc.out /\ b.stop
      BY <2>1 DEF CoreAccs
    <2> QED BY <1>1, <1>2, <1>6, <2>2 DEF IsCut
  <1>7. CASE ~acc.stop /\ text # <<>> /\ text \notin {Intro, Sign} /\ text = Quote
    <2>1. b = acc
      BY <1>2, <1>7 DEF LineOf
    <2> QED BY <1>1, <1>2, <1>7, <2>1 DEF IsCut
  <1>8. CASE ~acc.stop /\ text # <<>> /\ text \notin {Intro, Sign} /\ text # Quote
    <2>1. PICK w : w = Append(acc.out, text)
      OBVIOUS
    <2>2. b = [acc EXCEPT !.out = w, !.blank = FALSE]
      BY <1>2, <1>8, <2>1 DEF LineOf
    <2>3. w \in Seq(Prose)
      BY <1>1, <1>3, <2>1
    <2>4. b \in CoreAccs /\ b.out = w /\ b.stop = acc.stop
      BY <2>2, <2>3 DEF CoreAccs
    <2> QED BY <1>1, <1>2, <1>8, <2>1, <2>4 DEF IsCut
  <1> QED BY <1>1, <1>4, <1>5, <1>6, <1>7, <1>8

\* The core is gathered line by line: the step's type.
LEMMA CoreFoldStep == StepOn(CoreStep, CoreAccs, Prose) /\ CoreBase \in CoreAccs
  <1>1. \A acc \in CoreAccs, line \in Prose : LineOf(acc, line) \in CoreAccs
    BY LineCases
  <1>2. CoreStep \in [CoreAccs \X Prose -> CoreAccs]
    BY <1>1 DEF CoreStep
  <1>3. CoreBase \in CoreAccs
    BY DEF CoreBase, CoreAccs
  <1> QED BY <1>2, <1>3 DEF StepOn

\* The core of a body is that of the fold over its lines.
LEMMA CoreFold ==
    ASSUME NEW body \in Seq(Prose)
    PROVE  CoreOf(body) = Trim(JoinLines(Fold(CoreAccs, CoreBase, CoreStep, body).out))
  <1> DEFINE F(it) == [S \in SUBSET DOMAIN body |->
                         IF S = {} THEN CoreBase ELSE LineOf(it[S \ {Max(S)}], body[Max(S)])]
             rec == CHOOSE it : it = F(it)
  <1>1. StepOn(CoreStep, CoreAccs, Prose) /\ CoreBase \in CoreAccs
    BY CoreFoldStep
  <1>2. body \in Seq(Prose) /\ DOMAIN body = 1..Len(body)
    OBVIOUS
  <1>3. PICK h : Iterates(h, CoreAccs, CoreBase, CoreStep, body, Len(body))
    BY <1>1, <1>2, IterationExists
  <1>4. \A x \in CoreAccs, c \in Prose : CoreStep[<<x, c>>] = LineOf(x, c)
    BY DEF CoreStep
  <1>5. ASSUME NEW S \in SUBSET DOMAIN body, S # {}
        PROVE  h[S] = LineOf(h[S \ {Max(S)}], body[Max(S)])
    <2>1. h[S] = CoreStep[<<h[S \ {Max(S)}], body[Max(S)]>>] /\ Max(S) \in S
      BY <1>2, <1>3, <1>5 DEF Iterates
    <2>2. h[S \ {Max(S)}] \in CoreAccs
      BY <1>2, <1>3 DEF Iterates
    <2>a. Max(S) \in 1..Len(body)
      BY <1>2, <1>5, <2>1
    <2>3. body[Max(S)] \in Prose
      BY <1>2, <2>a
    <2> QED BY <1>4, <2>1, <2>2, <2>3
  <1>6. h = F(h)
    <2>1. h \in [SUBSET DOMAIN body -> CoreAccs] /\ h[{}] = CoreBase
      BY <1>2, <1>3 DEF Iterates
    <2> QED BY <1>5, <2>1
  <1>7. rec = F(rec)
    BY <1>6
  <1>8. CoreOf(body) = Trim(JoinLines(rec[DOMAIN body].out))
    BY DEF CoreOf, LineOf, CoreBase, FoldLeft, MapThenFoldSet
  <1> HIDE DEF rec
  <1>9. rec[{}] = CoreBase
    BY <1>7
  <1>10. ASSUME NEW S \in SUBSET DOMAIN body, S # {}
         PROVE  rec[S] = LineOf(rec[S \ {Max(S)}], body[Max(S)])
    BY <1>7, <1>10
  <1>11. ASSUME NEW S \in SUBSET (1..Len(body)), S # {}, rec[S \ {Max(S)}] \in CoreAccs
         PROVE  rec[S] = CoreStep[<<rec[S \ {Max(S)}], body[Max(S)]>>]
    <2>1. Max(S) \in S
      BY <1>3, <1>11 DEF Iterates
    <2>a. Max(S) \in 1..Len(body)
      BY <1>11, <2>1
    <2>2. body[Max(S)] \in Prose
      BY <1>2, <2>a
    <2>3. rec[S] = LineOf(rec[S \ {Max(S)}], body[Max(S)])
      BY <1>2, <1>10, <1>11
    <2> QED BY <1>4, <1>11, <2>2, <2>3
  <1>12. FoldsBack(rec, CoreAccs, CoreBase, CoreStep, body)
    BY <1>9, <1>11 DEF FoldsBack
  <1>13. rec[1..Len(body)] = Fold(CoreAccs, CoreBase, CoreStep, body)
    BY <1>1, <1>2, <1>12, IterationIsFold
  <1> QED BY <1>2, <1>8, <1>13

\* Its value for no element, and for one more.
LEMMA CoreFoldGrow ==
    ASSUME NEW s \in Seq(Prose), NEW c \in Prose
    PROVE  /\ CoreAcc(<<>>) = CoreBase /\ CoreAcc(s) \in CoreAccs
           /\ CoreAcc(Append(s, c)) = LineOf(CoreAcc(s), c)
  <1>1. StepOn(CoreStep, CoreAccs, Prose) /\ CoreBase \in CoreAccs
    BY CoreFoldStep
  <1>2. CoreAcc(<<>>) = CoreBase
    BY <1>1, FoldEmpty DEF CoreAcc
  <1>3. CoreAcc(s) \in CoreAccs
    BY <1>1, FoldType DEF CoreAcc
  <1>4. CoreAcc(Append(s, c)) = CoreStep[<<CoreAcc(s), c>>]
    BY <1>1, FoldAppend DEF CoreAcc
  <1>5. CoreStep[<<CoreAcc(s), c>>] = LineOf(CoreAcc(s), c)
    BY <1>3 DEF CoreStep
  <1> QED BY <1>2, <1>3, <1>4, <1>5

\* The cuts of a body, the line before the first of them, and a line kept.
CutsOf(body) == {i \in DOMAIN body : IsCut(body[i])}
UptoOf(body) ==
    IF CutsOf(body) = {} THEN Len(body)
    ELSE (CHOOSE i \in CutsOf(body) : \A j \in CutsOf(body) : i <= j) - 1
KeptLine(line) == IF Trim(line) = Quote THEN <<>> ELSE line

\* The lines kept are those up to there.
LEMMA KeptIs == \A body : KeptLines(body) = [i \in 1..UptoOf(body) |-> KeptLine(body[i])]
  BY DEF KeptLines, UptoOf, CutsOf, IsCut, KeptLine

\* Up to where a body goes.
LEMMA UptoIs ==
    ASSUME NEW body \in Seq(Prose)
    PROVE  /\ CutsOf(body) \in SUBSET (1..Len(body))
           /\ UptoOf(body) \in 0..Len(body)
           /\ CutsOf(body) = {} => UptoOf(body) = Len(body)
           /\ \A i \in CutsOf(body) : (\A j \in CutsOf(body) : i <= j) => UptoOf(body) = i - 1
           /\ CutsOf(body) # {} => \E i \in CutsOf(body) : \A j \in CutsOf(body) : i <= j
  <1>1. PICK C, n : C = CutsOf(body) /\ n = Len(body)
    OBVIOUS
  <1>2. n \in Nat /\ C \in SUBSET (1..n)
    BY <1>1 DEF CutsOf
  <1>3. CASE C = {}
    BY <1>1, <1>2, <1>3 DEF UptoOf
  <1>4. CASE C # {}
    <2>1. \E i \in C : \A j \in C : i <= j
      BY <1>2, <1>4, EndsExist
    <2>2. PICK a : a = CHOOSE i \in C : \A j \in C : i <= j
      OBVIOUS
    <2>3. a \in C /\ \A j \in C : a <= j
      BY <2>1, <2>2
    <2>4. UptoOf(body) = a - 1
      BY <1>1, <1>4, <2>2 DEF UptoOf
    <2>5. \A i \in C : (\A j \in C : i <= j) => i = a
      BY <1>2, <2>3
    <2> QED BY <1>1, <1>2, <1>4, <2>1, <2>3, <2>4, <2>5
  <1> QED BY <1>3, <1>4

\* The lines kept of a body with one line more.
LEMMA KeptGrows ==
    ASSUME NEW body \in Seq(Prose), NEW line \in Prose
    PROVE  /\ KeptLines(body) \in Seq(Prose)
           /\ CutsOf(body) # {} \/ IsCut(line) => KeptLines(Append(body, line)) = KeptLines(body)
           /\ CutsOf(body) = {} /\ ~IsCut(line) =>
                 KeptLines(Append(body, line)) = Append(KeptLines(body), KeptLine(line))
           /\ CutsOf(Append(body, line)) # {} <=> CutsOf(body) # {} \/ IsCut(line)
  <1>1. PICK y, n : y = Append(body, line) /\ n = Len(body)
    OBVIOUS
  <1>2. n \in Nat /\ y \in Seq(Prose) /\ Len(y) = n + 1 /\ y[n + 1] = line /\ \A i \in 1..n : y[i] = body[i]
    BY <1>1
  <1>3. \A s \in Prose : KeptLine(s) \in Prose
    BY LettersGrow DEF KeptLine
  <1>4. PICK k : k = UptoOf(body)
    OBVIOUS
  <1>5. k \in 0..n /\ CutsOf(body) \in SUBSET (1..n)
    BY <1>1, <1>4, UptoIs
  <1>6. KeptLines(body) = [i \in 1..k |-> KeptLine(body[i])]
    BY <1>4, KeptIs
  <1>7. \A i \in 1..k : KeptLine(body[i]) \in Prose
    BY <1>1, <1>2, <1>3, <1>5
  <1>8. KeptLines(body) \in Seq(Prose) /\ Len(KeptLines(body)) = k
    BY <1>5, <1>6, <1>7
  <1>9. CutsOf(y) = CutsOf(body) \cup (IF IsCut(line) THEN {n + 1} ELSE {})
    <2>1. DOMAIN y = 1..(n + 1) /\ DOMAIN body = 1..n
      BY <1>1, <1>2
    <2>2. CutsOf(y) = {i \in 1..(n + 1) : IsCut(y[i])} /\ CutsOf(body) = {i \in 1..n : IsCut(body[i])}
      BY <2>1 DEF CutsOf
    <2>3. \A i \in 1..n : i \in 1..(n + 1) /\ (i \in CutsOf(y) <=> i \in CutsOf(body))
      BY <1>2, <2>2
    <2>4. n + 1 \in 1..(n + 1) /\ (n + 1 \in CutsOf(y) <=> IsCut(line))
      BY <1>2, <2>2
    <2>5. \A i \in 1..(n + 1) : i \in 1..n \/ i = n + 1
      BY <1>2
    <2>6. CutsOf(y) \subseteq 1..(n + 1) /\ CutsOf(body) \subseteq 1..n /\ n + 1 \notin 1..n
      BY <1>2, <2>2
    <2>7. ASSUME NEW i PROVE i \in CutsOf(y) <=> i \in CutsOf(body) \cup (IF IsCut(line) THEN {n + 1} ELSE {})
      BY <2>3, <2>4, <2>5, <2>6
    <2> QED BY <2>7
  <1>10. CASE CutsOf(body) # {} \/ IsCut(line)
    <2>1. UptoOf(y) = k
      <3>1. CASE CutsOf(body) # {}
        <4>1. PICK a \in CutsOf(body) : \A j \in CutsOf(body) : a <= j
          BY <3>1, UptoIs
        <4>2. k = a - 1
          BY <1>4, <4>1, UptoIs
        <4>3. a \in CutsOf(y) /\ a \in 1..n
          BY <1>5, <1>9, <4>1
        <4>4. \A j \in CutsOf(y) : a <= j
          BY <1>2, <1>9, <4>1, <4>3
        <4> QED BY <1>2, <4>2, <4>3, <4>4, UptoIs
      <3>2. CASE CutsOf(body) = {} /\ IsCut(line)
        <4>1. k = n
          BY <1>1, <1>4, <3>2, UptoIs
        <4>2. CutsOf(y) = {n + 1}
          BY <1>9, <3>2
        <4>3. UptoOf(y) = (n + 1) - 1
          BY <1>2, <4>2, UptoIs
        <4> QED BY <1>2, <4>1, <4>3
      <3> QED BY <1>10, <3>1, <3>2
    <2>2. KeptLines(y) = [i \in 1..k |-> KeptLine(y[i])]
      BY <2>1, KeptIs
    <2>3. \A i \in 1..k : y[i] = body[i]
      BY <1>2, <1>5
    <2>4. KeptLines(y) = KeptLines(body)
      BY <1>6, <2>2, <2>3
    <2> QED BY <1>1, <1>8, <1>9, <1>10, <2>4
  <1>11. CASE CutsOf(body) = {} /\ ~IsCut(line)
    <2>1. CutsOf(y) = {}
      BY <1>9, <1>11
    <2>2. k = n /\ UptoOf(y) = n + 1
      BY <1>1, <1>2, <1>4, <1>11, <2>1, UptoIs
    <2>3. PICK q, r : q = KeptLines(y) /\ r = Append(KeptLines(body), KeptLine(line))
      OBVIOUS
    <2>4. q = [i \in 1..(n + 1) |-> KeptLine(y[i])]
      BY <2>2, <2>3, KeptIs
    <2>5. \A i \in 1..(n + 1) : y[i] \in Prose
      BY <1>2
    <2>6. \A i \in 1..(n + 1) : KeptLine(y[i]) \in Prose
      BY <1>3, <2>5
    <2>7. q \in Seq(Prose) /\ Len(q) = n + 1
      BY <1>2, <2>4, <2>6
    <2>8. r \in Seq(Prose) /\ Len(r) = n + 1
      BY <1>3, <1>8, <2>2, <2>3
    <2>9. ASSUME NEW i \in 1..(n + 1) PROVE q[i] = r[i]
      <3>1. CASE i = n + 1
        <4>1. r[i] = KeptLine(line)
          BY <1>8, <2>2, <2>3, <3>1
        <4> QED BY <1>2, <2>4, <3>1, <4>1
      <3>2. CASE i # n + 1
        <4>1. i \in 1..n /\ i \in 1..k
          BY <1>2, <2>2, <3>2
        <4>2. r[i] = KeptLines(body)[i]
          BY <1>8, <2>2, <2>3, <4>1
        <4>3. KeptLines(body)[i] = KeptLine(body[i])
          BY <1>6, <4>1
        <4> QED BY <1>2, <2>4, <4>1, <4>2, <4>3
      <3> QED BY <3>1, <3>2
    <2>10. q = r
      BY <1>2, <2>7, <2>8, <2>9, SeqEqual
    <2> QED BY <1>1, <1>8, <1>11, <2>1, <2>3, <2>10
  <1> QED BY <1>10, <1>11

\* The core so far has the letters of the lines kept so far.
KeptSoFar(body) ==
    /\ LettersOf(CoreAcc(body).out) = LettersOf(KeptLines(body))
    /\ CoreAcc(body).stop <=> CutsOf(body) # {}

\* One line more.
LEMMA OneLineMore ==
    ASSUME NEW x \in Seq(Prose), NEW c \in Prose, KeptSoFar(x)
    PROVE  KeptSoFar(Append(x, c))
  <1>0. Blank \in Chars
    BY MailAssumption DEF White
  <1>1. PICK y, a, b, K : y = Append(x, c) /\ a = CoreAcc(x) /\ b = CoreAcc(y) /\ K = KeptLines(x)
    OBVIOUS
  <1>2. a \in CoreAccs /\ b = LineOf(a, c)
    BY <1>1, CoreFoldGrow
  <1>3. LettersOf(a.out) = LettersOf(K) /\ (a.stop <=> CutsOf(x) # {})
    BY <1>1 DEF KeptSoFar
  <1>4. a.out \in Seq(Prose) /\ a.stop \in BOOLEAN
    BY <1>2, LineCases
  <1>5. K \in Seq(Prose) /\ (CutsOf(y) # {} <=> CutsOf(x) # {} \/ IsCut(c))
    BY <1>1, KeptGrows
  <1>6. LettersOf(K) \in Seq(Chars)
    BY <1>5, PiecesGrow DEF Prose
  <1>7. CASE a.stop
    <2>1. b = a
      BY <1>2, <1>7, LineCases
    <2>2. KeptLines(y) = K
      BY <1>1, <1>3, <1>7, KeptGrows
    <2> QED BY <1>1, <1>3, <1>5, <1>7, <2>1, <2>2 DEF KeptSoFar
  <1>8. CASE ~a.stop /\ IsCut(c)
    <2>1. b.out = a.out /\ b.stop
      BY <1>2, <1>8, LineCases
    <2>2. KeptLines(y) = K
      BY <1>1, <1>8, KeptGrows
    <2> QED BY <1>1, <1>3, <1>5, <1>8, <2>1, <2>2 DEF KeptSoFar
  <1>9. CASE ~a.stop /\ ~IsCut(c)
    <2>1. CutsOf(x) = {} /\ CutsOf(y) = {}
      BY <1>3, <1>5, <1>9
    <2>2. KeptLines(y) = Append(K, KeptLine(c))
      BY <1>1, <1>9, <2>1, KeptGrows
    <2>3. KeptLine(c) \in Prose /\ Trim(c) \in Prose /\ Letters(Trim(c)) = Letters(c) /\ <<>> \in Prose
      BY TrimKeeps, LettersGrow DEF KeptLine
    <2>4. LettersOf(KeptLines(y)) = Cat(LettersOf(K), Letters(KeptLine(c)))
      BY <1>5, <2>2, <2>3, PiecesGrow
    <2>5. Cat(LettersOf(K), <<>>) = LettersOf(K)
      BY <1>0, <1>6, Joined
    <2>6. Letters(<<>>) = <<>>
      BY LettersGrow
    <2>7. ~b.stop
      BY <1>2, <1>9, LineCases
    <2>8. LettersOf(b.out) = LettersOf(KeptLines(y))
      <3>1. CASE Trim(c) = <<>> /\ b.out \in {a.out, Append(a.out, <<>>)}
        <4>1. Trim(c) # Quote
          BY <3>1 DEF Quote
        <4>2. Letters(KeptLine(c)) = <<>>
          BY <2>3, <2>6, <3>1, <4>1 DEF KeptLine
        <4>3. LettersOf(Append(a.out, <<>>)) = Cat(LettersOf(a.out), <<>>)
          BY <1>4, <2>3, <2>6, PiecesGrow
        <4> QED BY <1>3, <2>4, <2>5, <3>1, <4>2, <4>3
      <3>2. CASE Trim(c) = Quote /\ b.out = a.out
        <4>1. Letters(KeptLine(c)) = <<>>
          BY <2>6, <3>2 DEF KeptLine
        <4> QED BY <1>3, <2>4, <2>5, <3>2, <4>1
      <3>3. CASE Trim(c) # Quote /\ b.out = Append(a.out, Trim(c))
        <4>1. KeptLine(c) = c
          BY <3>3 DEF KeptLine
        <4>2. LettersOf(b.out) = Cat(LettersOf(a.out), Letters(Trim(c)))
          BY <1>4, <2>3, <3>3, PiecesGrow
        <4> QED BY <1>3, <2>3, <2>4, <4>1, <4>2
      <3> QED BY <1>2, <1>9, <3>1, <3>2, <3>3, LineCases
    <2> QED BY <1>1, <2>1, <2>7, <2>8 DEF KeptSoFar
  <1> QED BY <1>4, <1>7, <1>8, <1>9

\* The core of a body has the letters of the lines kept.
LEMMA CoreKeeps ==
    ASSUME NEW body \in Seq(Prose)
    PROVE  /\ CoreOf(body) \in Prose /\ Letters(CoreOf(body)) = LettersOf(KeptLines(body))
           /\ CoreOf(body) # <<>> => Letters(CoreOf(body)) # <<>>
  <1>1. PICK P : P = {x \in Seq(Prose) : KeptSoFar(x)}
    OBVIOUS
  <1>2. <<>> \in P
    <2>0. <<>> \in Seq(Prose) /\ <<>> \in Prose
      BY LettersGrow
    <2>1. CoreAcc(<<>>) = CoreBase
      BY <2>0, CoreFoldGrow
    <2>2. CoreBase.out = <<>> /\ CoreBase.stop = FALSE
      BY DEF CoreBase
    <2>3. CutsOf(<<>>) = {}
      BY DEF CutsOf
    <2>4. UptoOf(<<>>) = 0
      BY <2>0, <2>3, UptoIs
    <2>5. KeptLines(<<>>) = <<>>
      <3>1. KeptLines(<<>>) \in Seq(Prose)
        BY <2>0, KeptGrows
      <3>2. KeptLines(<<>>) = [i \in 1..0 |-> KeptLine(<<>>[i])]
        BY <2>4, KeptIs
      <3>3. DOMAIN KeptLines(<<>>) = {}
        BY <3>2
      <3> QED BY <3>1, <3>3
    <2> QED BY <1>1, <2>0, <2>1, <2>2, <2>3, <2>5 DEF KeptSoFar
  <1>3. ASSUME NEW x \in P, NEW c \in Prose PROVE Append(x, c) \in P
    <2>1. x \in Seq(Prose) /\ KeptSoFar(x)
      BY <1>1
    <2>2. Append(x, c) \in Seq(Prose)
      BY <2>1
    <2> QED BY <1>1, <2>1, <2>2, OneLineMore
  <1>4. \A x \in Seq(Prose) : x \in P
    BY <1>1, <1>2, <1>3, SeqInduction
  <1>5. KeptSoFar(body)
    BY <1>1, <1>4
  <1>6. PICK a, j : a = CoreAcc(body) /\ j = JoinLines(a.out)
    OBVIOUS
  <1>7. a \in CoreAccs
    BY <1>6, LettersGrow, CoreFoldGrow
  <1>8. a.out \in Seq(Prose)
    BY <1>7 DEF CoreAccs
  <1>9. j \in Prose /\ Letters(j) = LettersOf(a.out)
    BY <1>6, <1>8, JoinKeeps
  <1>10. CoreOf(body) = Trim(j)
    BY <1>6, CoreFold DEF CoreAcc
  <1>11. Letters(j) = LettersOf(KeptLines(body))
    BY <1>5, <1>6, <1>9 DEF KeptSoFar
  <1>12. Trim(j) \in Prose /\ Letters(Trim(j)) = Letters(j) /\ (Trim(j) # <<>> => Letters(j) # <<>>)
    BY <1>9, TrimKeeps
  <1> QED BY <1>10, <1>11, <1>12

-----------------------------------------------------------------------------
(* Messages. *)

StripAccs == [lines : Seq(Prose), cur : Prose, inside : BOOLEAN]
StripBase == [lines |-> <<>>, cur |-> <<>>, inside |-> FALSE]
StripOf(acc, ch) ==
    IF ch = "<" THEN [acc EXCEPT !.inside = TRUE]
    ELSE IF ch = ">" THEN [acc EXCEPT !.inside = FALSE]
    ELSE IF acc.inside THEN acc
    ELSE IF ch = NL THEN [acc EXCEPT !.lines = Append(@, acc.cur), !.cur = <<>>]
    ELSE [acc EXCEPT !.cur = Append(@, ch)]
StripStep == [p \in StripAccs \X Chars |-> StripOf(p[1], p[2])]

\* Tags are stripped character by character: the step's type.
LEMMA StripFoldStep == StepOn(StripStep, StripAccs, Chars) /\ StripBase \in StripAccs
  <1>1. ASSUME NEW acc \in StripAccs, NEW ch \in Chars PROVE StripOf(acc, ch) \in StripAccs
    <2>1. acc.cur \in Prose /\ acc.lines \in Seq(Prose) /\ <<>> \in Prose
      BY LettersGrow DEF StripAccs
    <2>2. Append(acc.cur, ch) \in Prose /\ Append(acc.lines, acc.cur) \in Seq(Prose)
      BY <2>1 DEF Prose
    <2> QED BY <2>1, <2>2 DEF StripOf, StripAccs
  <1>2. StripStep \in [StripAccs \X Chars -> StripAccs]
    BY <1>1 DEF StripStep
  <1>3. StripBase \in StripAccs
    BY LettersGrow DEF StripBase, StripAccs
  <1> QED BY <1>2, <1>3 DEF StepOn

\* The stripped lines are those of the fold over the text.
LEMMA StripFold ==
    ASSUME NEW body \in Seq(Prose)
    PROVE  \E f : /\ f = Fold(StripAccs, StripBase, StripStep, JoinLines(body))
                  /\ StripTags(body) = Append(f.lines, f.cur)
  <1> DEFINE F(it) == [S \in SUBSET DOMAIN JoinLines(body) |->
                         IF S = {} THEN StripBase ELSE StripOf(it[S \ {Max(S)}], JoinLines(body)[Max(S)])]
             rec == CHOOSE it : it = F(it)
  <1>1. StepOn(StripStep, StripAccs, Chars) /\ StripBase \in StripAccs
    BY StripFoldStep
  <1>2. JoinLines(body) \in Seq(Chars) /\ DOMAIN JoinLines(body) = 1..Len(JoinLines(body))
    BY JoinKeeps DEF Prose
  <1>3. PICK h : Iterates(h, StripAccs, StripBase, StripStep, JoinLines(body), Len(JoinLines(body)))
    BY <1>1, <1>2, IterationExists
  <1>4. \A x \in StripAccs, c \in Chars : StripStep[<<x, c>>] = StripOf(x, c)
    BY DEF StripStep
  <1>5. ASSUME NEW S \in SUBSET DOMAIN JoinLines(body), S # {}
        PROVE  h[S] = StripOf(h[S \ {Max(S)}], JoinLines(body)[Max(S)])
    <2>1. h[S] = StripStep[<<h[S \ {Max(S)}], JoinLines(body)[Max(S)]>>] /\ Max(S) \in S
      BY <1>2, <1>3, <1>5 DEF Iterates
    <2>2. h[S \ {Max(S)}] \in StripAccs
      BY <1>2, <1>3 DEF Iterates
    <2>a. Max(S) \in 1..Len(JoinLines(body))
      BY <1>2, <1>5, <2>1
    <2>3. JoinLines(body)[Max(S)] \in Chars
      BY <1>2, <2>a
    <2> QED BY <1>4, <2>1, <2>2, <2>3
  <1>6. h = F(h)
    <2>1. h \in [SUBSET DOMAIN JoinLines(body) -> StripAccs] /\ h[{}] = StripBase
      BY <1>2, <1>3 DEF Iterates
    <2> QED BY <1>5, <2>1
  <1>7. rec = F(rec)
    BY <1>6
  <1>8. StripTags(body) = Append(rec[DOMAIN JoinLines(body)].lines, rec[DOMAIN JoinLines(body)].cur)
    BY DEF StripTags, StripOf, StripBase, FoldLeft, MapThenFoldSet
  <1> HIDE DEF rec
  <1>9. rec[{}] = StripBase
    BY <1>7
  <1>10. ASSUME NEW S \in SUBSET DOMAIN JoinLines(body), S # {}
         PROVE  rec[S] = StripOf(rec[S \ {Max(S)}], JoinLines(body)[Max(S)])
    BY <1>7, <1>10
  <1>11. ASSUME NEW S \in SUBSET (1..Len(JoinLines(body))), S # {}, rec[S \ {Max(S)}] \in StripAccs
         PROVE  rec[S] = StripStep[<<rec[S \ {Max(S)}], JoinLines(body)[Max(S)]>>]
    <2>1. Max(S) \in S
      BY <1>3, <1>11 DEF Iterates
    <2>a. Max(S) \in 1..Len(JoinLines(body))
      BY <1>11, <2>1
    <2>2. JoinLines(body)[Max(S)] \in Chars
      BY <1>2, <2>a
    <2>3. rec[S] = StripOf(rec[S \ {Max(S)}], JoinLines(body)[Max(S)])
      BY <1>2, <1>10, <1>11
    <2> QED BY <1>4, <1>11, <2>2, <2>3
  <1>12. FoldsBack(rec, StripAccs, StripBase, StripStep, JoinLines(body))
    BY <1>9, <1>11 DEF FoldsBack
  <1>13. rec[1..Len(JoinLines(body))] = Fold(StripAccs, StripBase, StripStep, JoinLines(body))
    BY <1>1, <1>2, <1>12, IterationIsFold
  <1> QED BY <1>2, <1>8, <1>13

\* What is left of a body without its tags.
LEMMA StripType == \A body \in Seq(Prose) : StripTags(body) \in Seq(Prose)
  <1> SUFFICES ASSUME NEW body \in Seq(Prose) PROVE StripTags(body) \in Seq(Prose)
    OBVIOUS
  <1>1. PICK f : /\ f = Fold(StripAccs, StripBase, StripStep, JoinLines(body))
                 /\ StripTags(body) = Append(f.lines, f.cur)
    BY StripFold
  <1>2. JoinLines(body) \in Seq(Chars)
    BY JoinKeeps DEF Prose
  <1>3. f \in StripAccs
    BY <1>1, <1>2, StripFoldStep, FoldType
  <1>4. f.lines \in Seq(Prose) /\ f.cur \in Prose
    BY <1>3 DEF StripAccs
  <1> QED BY <1>1, <1>4

\* A message that can be parsed has a body to prefer.
LEMMA PreferredType == \A m \in Messages : m.ok => PreferredBody(m) \in Seq(Prose)
  <1> SUFFICES ASSUME NEW m \in Messages, m.ok PROVE PreferredBody(m) \in Seq(Prose)
    OBVIOUS
  <1>1. /\ m.parts \in Seq([type : {"plain", "html", "other"}, body : Seq(Prose)])
        /\ m.single => m.parts # <<>>
    BY DEF Messages
  <1>2. \A i \in DOMAIN m.parts : m.parts[i].body \in Seq(Prose)
    <2>1. PICK R, ps : R = [type : {"plain", "html", "other"}, body : Seq(Prose)] /\ ps = m.parts
      OBVIOUS
    <2>2. ps \in Seq(R)
      BY <1>1, <2>1
    <2>3. \A i \in DOMAIN ps : ps[i] \in R
      BY <2>2
    <2>4. \A x \in R : x.body \in Seq(Prose)
      BY <2>1
    <2> QED BY <2>1, <2>3, <2>4
  <1>3. PICK n, plain, html : /\ n = Len(m.parts)
                              /\ plain = {i \in DOMAIN m.parts : m.parts[i].type = "plain"}
                              /\ html = {i \in DOMAIN m.parts : m.parts[i].type = "html"}
    OBVIOUS
  <1>4. n \in Nat /\ DOMAIN m.parts = 1..n /\ plain \in SUBSET (1..n) /\ html \in SUBSET (1..n)
    BY <1>1, <1>3
  <1>5. \A S \in SUBSET (1..n) : S # {} => (CHOOSE i \in S : \A j \in S : i <= j) \in S
    BY <1>4, EndsExist
  <1>6. CASE m.single
    <2>1. PreferredBody(m) = m.parts[1].body
      BY <1>6 DEF PreferredBody
    <2>2. 1 \in DOMAIN m.parts
      BY <1>1, <1>6
    <2> QED BY <1>2, <2>1, <2>2
  <1>7. CASE ~m.single /\ plain # {}
    <2>1. PICK k : k = CHOOSE i \in plain : \A j \in plain : i <= j
      OBVIOUS
    <2>2. PreferredBody(m) = m.parts[k].body
      BY <1>3, <1>7, <2>1 DEF PreferredBody
    <2> QED BY <1>2, <1>4, <1>5, <1>7, <2>1, <2>2
  <1>8. CASE ~m.single /\ plain = {} /\ html # {}
    <2>1. PICK k : k = CHOOSE i \in html : \A j \in html : i <= j
      OBVIOUS
    <2>2. PreferredBody(m) = StripTags(m.parts[k].body)
      BY <1>3, <1>8, <2>1 DEF PreferredBody
    <2>3. m.parts[k].body \in Seq(Prose)
      BY <1>2, <1>4, <1>5, <1>8, <2>1
    <2> QED BY <2>2, <2>3, StripType
  <1>9. CASE ~m.single /\ plain = {} /\ html = {}
    <2>1. PreferredBody(m) = <<>>
      BY <1>3, <1>9 DEF PreferredBody
    <2> QED BY <2>1
  <1> QED BY <1>6, <1>7, <1>8, <1>9

\* What the artifact of a message that can be parsed says.
LEMMA NormalizedIs ==
    ASSUME NEW m \in Messages, m.ok, NEW i, NEW box
    PROVE  /\ Normalized(m, i, box).kind = "email" /\ Normalized(m, i, box).index = i
           /\ Normalized(m, i, box).body \in Prose
           /\ Letters(Normalized(m, i, box).body) # <<>>
           /\ LettersOf(KeptLines(PreferredBody(m))) # <<>> =>
                 Letters(Normalized(m, i, box).body) = LettersOf(KeptLines(PreferredBody(m)))
  <1>1. PICK pb, core, b : pb = PreferredBody(m) /\ core = CoreOf(pb) /\ b = Normalized(m, i, box).body
    OBVIOUS
  <1>2. pb \in Seq(Prose)
    BY <1>1, PreferredType
  <1>3. /\ core \in Prose /\ Letters(core) = LettersOf(KeptLines(pb))
        /\ core # <<>> => Letters(core) # <<>>
    BY <1>1, <1>2, CoreKeeps
  <1>4. m.subject \in Prose
    BY DEF Messages
  <1>5. PICK t : t = InlineText(m.subject)
    OBVIOUS
  <1>6. t \in Prose /\ Letters(t) = Letters(m.subject) /\ (t # <<>> => Letters(m.subject) # <<>>)
    BY <1>4, <1>5, InlineKeeps
  <1>7. Normalized(m, i, box).kind = "email" /\ Normalized(m, i, box).index = i
    BY DEF Normalized
  <1>8. b = IF core # <<>> THEN core ELSE IF t # <<>> THEN t ELSE EmptyBody
    BY <1>1, <1>5 DEF Normalized, BodyOrFallback
  <1>9. EmptyBody \in Prose /\ Letters(EmptyBody) # <<>>
    <2>1. EmptyBody \in Prose /\ EmptyBody # <<>> /\ EmptyBody[1] \notin White
      BY MailAssumption
    <2>2. 1 \in 1..Len(EmptyBody) /\ EmptyBody[1] \notin White
      BY <2>1 DEF Prose
    <2> QED BY <2>1, <2>2, SolidHasLetters
  <1>10. LettersOf(KeptLines(pb)) # <<>> => core # <<>>
    BY <1>3, LettersGrow
  <1> QED BY <1>1, <1>3, <1>6, <1>7, <1>8, <1>9, <1>10

SplitAccs == [msgs : Seq(Seq(Messages) \ {<<>>}), cur : Seq(Messages)]
SplitBase == [msgs |-> <<>>, cur |-> <<>>]
SplitOf(acc, line) ==
    IF line = Sep
    THEN [msgs |-> IF acc.cur = <<>> THEN acc.msgs ELSE Append(acc.msgs, acc.cur), cur |-> <<>>]
    ELSE [acc EXCEPT !.cur = Append(@, line)]
SplitStep == [p \in SplitAccs \X ({Sep} \cup Messages) |-> SplitOf(p[1], p[2])]
SplitEnd(acc) == IF acc.cur = <<>> THEN acc.msgs ELSE Append(acc.msgs, acc.cur)

\* A message that ends is one if it has a line.
LEMMA SplitEnds ==
    ASSUME NEW acc \in SplitAccs
    PROVE  SplitEnd(acc) \in Seq(Seq(Messages) \ {<<>>})
  <1>1. acc.msgs \in Seq(Seq(Messages) \ {<<>>}) /\ acc.cur \in Seq(Messages)
    BY DEF SplitAccs
  <1> QED BY <1>1 DEF SplitEnd

\* A file is split line by line: the step's type.
LEMMA SplitFoldStep == StepOn(SplitStep, SplitAccs, ({Sep} \cup Messages)) /\ SplitBase \in SplitAccs
  <1>1. ASSUME NEW acc \in SplitAccs, NEW line \in {Sep} \cup Messages PROVE SplitOf(acc, line) \in SplitAccs
    <2>1. acc.cur \in Seq(Messages) /\ <<>> \in Seq(Messages)
      BY DEF SplitAccs
    <2>2. CASE line = Sep
      <3>1. PICK w : w = SplitEnd(acc)
        OBVIOUS
      <3>2. w \in Seq(Seq(Messages) \ {<<>>})
        BY <3>1, SplitEnds
      <3>3. SplitOf(acc, line) = [msgs |-> w, cur |-> <<>>]
        BY <2>2, <3>1 DEF SplitOf, SplitEnd
      <3> QED BY <2>1, <3>2, <3>3 DEF SplitAccs
    <2>3. CASE line # Sep
      <3>1. PICK w : w = Append(acc.cur, line)
        OBVIOUS
      <3>2. w \in Seq(Messages)
        BY <2>1, <2>3, <3>1
      <3>3. SplitOf(acc, line) = [acc EXCEPT !.cur = w]
        BY <2>3, <3>1 DEF SplitOf
      <3> QED BY <3>2, <3>3 DEF SplitAccs
    <2> QED BY <2>2, <2>3
  <1>2. SplitStep \in [SplitAccs \X ({Sep} \cup Messages) -> SplitAccs]
    BY <1>1 DEF SplitStep
  <1>3. SplitBase \in SplitAccs
    BY DEF SplitBase, SplitAccs
  <1> QED BY <1>2, <1>3 DEF StepOn

\* The messages of a file are those of the fold over its lines.
LEMMA SplitFold ==
    ASSUME NEW f \in Seq({Sep} \cup Messages)
    PROVE  Split(f) = SplitEnd(Fold(SplitAccs, SplitBase, SplitStep, f))
  <1> DEFINE F(it) == [S \in SUBSET DOMAIN f |->
                         IF S = {} THEN SplitBase ELSE SplitOf(it[S \ {Max(S)}], f[Max(S)])]
             rec == CHOOSE it : it = F(it)
  <1>1. StepOn(SplitStep, SplitAccs, ({Sep} \cup Messages)) /\ SplitBase \in SplitAccs
    BY SplitFoldStep
  <1>2. f \in Seq(({Sep} \cup Messages)) /\ DOMAIN f = 1..Len(f)
    OBVIOUS
  <1>3. PICK h : Iterates(h, SplitAccs, SplitBase, SplitStep, f, Len(f))
    BY <1>1, <1>2, IterationExists
  <1>4. \A x \in SplitAccs, c \in ({Sep} \cup Messages) : SplitStep[<<x, c>>] = SplitOf(x, c)
    BY DEF SplitStep
  <1>5. ASSUME NEW S \in SUBSET DOMAIN f, S # {}
        PROVE  h[S] = SplitOf(h[S \ {Max(S)}], f[Max(S)])
    <2>1. h[S] = SplitStep[<<h[S \ {Max(S)}], f[Max(S)]>>] /\ Max(S) \in S
      BY <1>2, <1>3, <1>5 DEF Iterates
    <2>2. h[S \ {Max(S)}] \in SplitAccs
      BY <1>2, <1>3 DEF Iterates
    <2>a. Max(S) \in 1..Len(f)
      BY <1>2, <1>5, <2>1
    <2>3. f[Max(S)] \in ({Sep} \cup Messages)
      BY <1>2, <2>a
    <2> QED BY <1>4, <2>1, <2>2, <2>3
  <1>6. h = F(h)
    <2>1. h \in [SUBSET DOMAIN f -> SplitAccs] /\ h[{}] = SplitBase
      BY <1>2, <1>3 DEF Iterates
    <2> QED BY <1>5, <2>1
  <1>7. rec = F(rec)
    BY <1>6
  <1>8. Split(f) = SplitEnd(rec[DOMAIN f])
    BY DEF Split, SplitEnd, SplitOf, SplitBase, FoldLeft, MapThenFoldSet
  <1> HIDE DEF rec
  <1>9. rec[{}] = SplitBase
    BY <1>7
  <1>10. ASSUME NEW S \in SUBSET DOMAIN f, S # {}
         PROVE  rec[S] = SplitOf(rec[S \ {Max(S)}], f[Max(S)])
    BY <1>7, <1>10
  <1>11. ASSUME NEW S \in SUBSET (1..Len(f)), S # {}, rec[S \ {Max(S)}] \in SplitAccs
         PROVE  rec[S] = SplitStep[<<rec[S \ {Max(S)}], f[Max(S)]>>]
    <2>1. Max(S) \in S
      BY <1>3, <1>11 DEF Iterates
    <2>a. Max(S) \in 1..Len(f)
      BY <1>11, <2>1
    <2>2. f[Max(S)] \in ({Sep} \cup Messages)
      BY <1>2, <2>a
    <2>3. rec[S] = SplitOf(rec[S \ {Max(S)}], f[Max(S)])
      BY <1>2, <1>10, <1>11
    <2> QED BY <1>4, <1>11, <2>2, <2>3
  <1>12. FoldsBack(rec, SplitAccs, SplitBase, SplitStep, f)
    BY <1>9, <1>11 DEF FoldsBack
  <1>13. rec[1..Len(f)] = Fold(SplitAccs, SplitBase, SplitStep, f)
    BY <1>1, <1>2, <1>12, IterationIsFold
  <1> QED BY <1>2, <1>8, <1>13

\* The messages of a file, each of a line at least.
LEMMA SplitType ==
    ASSUME NEW f \in Files
    PROVE  Split(f) \in Seq(Seq(Messages) \ {<<>>})
  <1>1. f \in Seq({Sep} \cup Messages)
    BY MailAssumption
  <1>2. PICK a : a = Fold(SplitAccs, SplitBase, SplitStep, f)
    OBVIOUS
  <1>3. a \in SplitAccs
    BY <1>1, <1>2, SplitFoldStep, FoldType
  <1>4. Split(f) = SplitEnd(a)
    BY <1>1, <1>2, SplitFold
  <1> QED BY <1>3, <1>4, SplitEnds

-----------------------------------------------------------------------------
(* The expansion and the resolver. *)

\* Items of stored artifacts, and the lists of chunks that may be cached for them.
ItemsOf(arts) == [ref : arts, chunk : Nat]
ListsOf(arts) == {[ref |-> a, chunks |-> Chunks(a.body)] : a \in arts}

\* Where the expansion stands.
ExpansionAt ==
    /\ file \in Files
    /\ phase \in {"split", "message", "ok", "failed", "empty"}
    /\ messages \in Seq(Seq(Messages) \ {<<>>})
    /\ at \in 1..(Len(messages) + 1)
    /\ phase \in {"split", "empty"} => at = 1 /\ messages = <<>> /\ items = <<>>
    /\ phase = "message" => at <= Len(messages)
    /\ phase = "ok" => at = Len(messages) + 1

\* Stored emails have text, and those of the messages so far are there.
EmailFine(a) == a.kind = "email" => a.body \in Prose /\ Letters(a.body) # <<>>
WrittenAt(i) ==
    Head(messages[i]).ok /\ Normalized(Head(messages[i]), i, mailbox) \in store
StoreFine ==
    /\ \A a \in store : EmailFine(a)
    /\ \A i \in 1..(at - 1) : WrittenAt(i)

\* Items name chunks of stored emails, of every message so far.
ItemFine(it) == it.ref.kind = "email" /\ it.chunk \in DOMAIN Chunks(it.ref.body)
ItemsFine ==
    /\ items \in Seq(ItemsOf(store))
    /\ \A it \in Range(items) : ItemFine(it)
    /\ phase # "failed" => {it.ref.index : it \in Range(items)} = 1..(at - 1)

\* A caller of the resolver: it works once the expansion is over, on the chunks
\* of the artifact its item names, and fails only for what is no item or by a read.
TaskFine(t) ==
    /\ t.pc # "idle" => phase \in {"ok", "failed"}
    /\ t.pc = "insert" => t.item.ref \in store
    /\ t.pc \in {"insert", "get"} => t.chunks = Chunks(t.item.ref.body)
    /\ t.pc = "text" => t.text = Chunks(t.item.ref.body)[t.item.chunk]
    /\ t.pc = "error" => t.item \notin Range(items) \/ t.why = "BlockStore"
TasksFine == task = [k \in Tasks |-> task[k]] /\ \A k \in Tasks : TaskFine(task[k])
CacheFine == cache \in Seq(ListsOf(store)) /\ OneListPerArtifact

MailInv == ExpansionAt /\ StoreFine /\ ItemsFine /\ CacheFine /\ TasksFine

\* Sequences over a larger set.
LEMMA SeqWider ==
    ASSUME NEW A, NEW B, A \subseteq B, NEW s \in Seq(A)
    PROVE  s \in Seq(B)
  OBVIOUS

\* The elements of two sequences one after the other are those of both.
LEMMA RangeCat ==
    ASSUME NEW Y, NEW a \in Seq(Y), NEW b \in Seq(Y)
    PROVE  Range(Cat(a, b)) = Range(a) \cup Range(b)
  <1>1. PICK w, n, m : w = Cat(a, b) /\ n = Len(a) /\ m = Len(b)
    OBVIOUS
  <1>2. n \in Nat /\ m \in Nat /\ DOMAIN a = 1..n /\ DOMAIN b = 1..m
    BY <1>1
  <1>3. w \in Seq(Y) /\ Len(w) = n + m
    BY <1>1, CatParts
  <1>4. DOMAIN w = 1..(n + m)
    BY <1>3
  <1>5. \A i \in 1..n : w[i] = a[i] /\ i \in 1..(n + m)
    <2>1. \A i \in 1..n : w[i] = a[i]
      BY <1>1, CatParts
    <2>2. \A i \in 1..n : i \in 1..(n + m)
      BY <1>2
    <2> QED BY <2>1, <2>2
  <1>6. \A i \in 1..m : w[n + i] = b[i] /\ n + i \in 1..(n + m)
    <2>0. \A i \in 1..Len(b) : Cat(a, b)[Len(a) + i] = b[i]
      BY CatParts
    <2>1. \A i \in 1..m : w[n + i] = b[i]
      BY <1>1, <2>0
    <2>2. \A i \in 1..m : n + i \in 1..(n + m)
      BY <1>2
    <2> QED BY <2>1, <2>2
  <1>7. \A i \in 1..(n + m) : i \in 1..n \/ (i - n \in 1..m /\ n + (i - n) = i)
    BY <1>2
  <1>8. ASSUME NEW x \in Range(w) PROVE x \in Range(a) \cup Range(b)
    <2>1. PICK i \in 1..(n + m) : x = w[i]
      BY <1>4 DEF Range
    <2>2. CASE i \in 1..n
      BY <1>2, <1>5, <2>1, <2>2 DEF Range
    <2>3. CASE i - n \in 1..m /\ n + (i - n) = i
      <3>1. PICK j : j = i - n
        OBVIOUS
      <3>2. j \in 1..m /\ w[i] = b[j]
        BY <1>6, <2>3, <3>1
      <3> QED BY <1>2, <2>1, <3>2 DEF Range
    <2> QED BY <1>7, <2>2, <2>3
  <1>9. ASSUME NEW x \in Range(a) \cup Range(b) PROVE x \in Range(w)
    <2>1. CASE x \in Range(a)
      BY <1>2, <1>4, <1>5, <2>1 DEF Range
    <2>2. CASE x \in Range(b)
      BY <1>2, <1>4, <1>6, <2>2 DEF Range
    <2> QED BY <1>9, <2>1, <2>2
  <1> QED BY <1>1, <1>8, <1>9

\* The invariant holds at the start.
LEMMA MailStarts == MailInit => MailInv
  <1> SUFFICES ASSUME NEW given \in Files, MailStart(given) PROVE MailInv
    BY DEF MailInit
  <1> USE DEF MailStart
  <1>0. Range(<<>>) = {} /\ <<>> \in Seq(ItemsOf(store)) /\ <<>> \in Seq(ListsOf(store))
    BY DEF Range
  <1>1. ExpansionAt
    <2>1. messages \in Seq(Seq(Messages) \ {<<>>}) /\ Len(messages) = 0
      OBVIOUS
    <2> QED BY <2>1 DEF ExpansionAt
  <1>2. StoreFine
    BY MailAssumption DEF StoreFine, EmailFine
  <1>3. ItemsFine
    BY <1>0 DEF ItemsFine
  <1>4. CacheFine
    BY <1>0 DEF CacheFine, OneListPerArtifact
  <1>5. TasksFine
    <2>1. task = [k \in Tasks |-> task[k]]
      OBVIOUS
    <2>2. \A k \in Tasks : task[k].pc = "idle"
      OBVIOUS
    <2> QED BY <2>1, <2>2 DEF TasksFine, TaskFine
  <1> QED BY <1>1, <1>2, <1>3, <1>4, <1>5 DEF MailInv

\* While the expansion goes on no caller works.
LEMMA AllIdle ==
    ASSUME TasksFine, phase \notin {"ok", "failed"}, task' = task
    PROVE  TasksFine'
  <1>1. \A k \in Tasks : task[k].pc = "idle"
    BY DEF TasksFine, TaskFine
  <1>2. task' = [k \in Tasks |-> task'[k]]
    BY DEF TasksFine
  <1>3. \A k \in Tasks : TaskFine(task[k])'
    BY <1>1 DEF TaskFine
  <1> QED BY <1>2, <1>3 DEF TasksFine

\* A larger store keeps the cache.
LEMMA CacheKept ==
    ASSUME CacheFine, cache' = cache, store \subseteq store'
    PROVE  CacheFine'
  <1>1. ListsOf(store) \subseteq ListsOf(store')
    BY DEF ListsOf
  <1>2. cache \in Seq(ListsOf(store'))
    BY <1>1, SeqWider DEF CacheFine
  <1>3. OneListPerArtifact'
    BY DEF CacheFine, OneListPerArtifact
  <1> QED BY <1>2, <1>3 DEF CacheFine

\* Splitting the mailbox.
LEMMA SplitStays == MailInv /\ SplitMailbox => MailInv'
  <1> SUFFICES ASSUME MailInv, SplitMailbox PROVE MailInv'
    OBVIOUS
  <1>1. /\ phase = "split" /\ file' = file /\ at' = at /\ items' = items /\ cache' = cache /\ task' = task
        /\ at = 1 /\ messages = <<>> /\ items = <<>> /\ file \in Files
    BY DEF MailInv, ExpansionAt, SplitMailbox
  <1>2. /\ Split(file) = <<>>
           => phase' = "empty" /\ mailbox' = mailbox /\ messages' = messages /\ store' = store
        /\ Split(file) # <<>>
           => /\ phase' = "message" /\ messages' = Split(file)
              /\ \E b : b.kind = "mailbox" /\ store' = store \cup {b}
    <2>1. mailbox' = <<[kind |-> "mailbox", content |-> file]>> => mailbox'[1].kind = "mailbox"
      OBVIOUS
    <2> QED BY <2>1 DEF SplitMailbox
  <1>3. messages' \in Seq(Seq(Messages) \ {<<>>}) /\ (Split(file) # <<>> => 1 <= Len(messages'))
    <2>1. Split(file) \in Seq(Seq(Messages) \ {<<>>})
      BY <1>1, SplitType
    <2>2. CASE Split(file) = <<>>
      BY <1>2, <2>2 DEF MailInv, ExpansionAt
    <2>3. CASE Split(file) # <<>>
      BY <1>2, <2>1, <2>3
    <2> QED BY <2>2, <2>3
  <1>4. ExpansionAt'
    <2>1. Len(messages') \in Nat
      BY <1>3
    <2>2. CASE Split(file) = <<>>
      BY <1>1, <1>2, <1>3, <2>1, <2>2 DEF ExpansionAt
    <2>3. CASE Split(file) # <<>>
      BY <1>1, <1>2, <1>3, <2>1, <2>3 DEF ExpansionAt
    <2> QED BY <2>2, <2>3
  <1>5. store \subseteq store' /\ \A a \in store' : EmailFine(a)
    BY <1>2 DEF MailInv, StoreFine, EmailFine
  <1>6. StoreFine'
    <2>1. 1..(at' - 1) = {}
      BY <1>1
    <2> QED BY <1>5, <2>1 DEF StoreFine, EmailFine
  <1>7. ItemsFine'
    <2>1. Range(<<>>) = {} /\ <<>> \in Seq(ItemsOf(store'))
      BY DEF Range
    <2>2. 1..(at' - 1) = {}
      BY <1>1
    <2> QED BY <1>1, <2>1, <2>2 DEF ItemsFine
  <1>8. CacheFine'
    BY <1>1, <1>5, CacheKept DEF MailInv
  <1>9. TasksFine'
    BY <1>1, AllIdle DEF MailInv
  <1> QED BY <1>4, <1>6, <1>7, <1>8, <1>9 DEF MailInv

\* Giving up.
LEMMA FailureStays == MailInv /\ ExpandFails => MailInv'
  <1> SUFFICES ASSUME MailInv, ExpandFails PROVE MailInv'
    OBVIOUS
  <1>1. /\ phase \in {"split", "message"} /\ phase' = "failed" /\ items' = <<>>
        /\ file' = file /\ mailbox' = mailbox /\ messages' = messages /\ at' = at
        /\ store' = store /\ cache' = cache /\ task' = task
    BY DEF ExpandFails, Unreadable, Unstored
  <1>2. ExpansionAt'
    BY <1>1 DEF MailInv, ExpansionAt
  <1>3. StoreFine'
    BY <1>1 DEF MailInv, StoreFine, EmailFine, WrittenAt
  <1>4. ItemsFine'
    <2>1. Range(<<>>) = {} /\ <<>> \in Seq(ItemsOf(store'))
      BY DEF Range
    <2> QED BY <1>1, <2>1 DEF ItemsFine
  <1>5. CacheFine'
    BY <1>1, CacheKept DEF MailInv
  <1>6. TasksFine'
    BY <1>1, AllIdle DEF MailInv
  <1> QED BY <1>2, <1>3, <1>4, <1>5, <1>6 DEF MailInv

\* Expanding a message.
LEMMA MessageStays == MailInv /\ ExpandMessage => MailInv'
  <1> SUFFICES ASSUME MailInv, ExpandMessage PROVE MailInv'
    OBVIOUS
  <1>1. PICK m, art, new : /\ m = Head(messages[at]) /\ art = Normalized(m, at, mailbox)
                           /\ new = Emitted(art, art.body)
    OBVIOUS
  <1>2. /\ phase = "message" /\ at <= Len(messages) /\ m.ok
        /\ store' = store \cup {art} /\ items' = items \o new
        /\ at' = at + 1 /\ phase' = (IF at = Len(messages) THEN "ok" ELSE "message")
        /\ file' = file /\ mailbox' = mailbox /\ messages' = messages /\ cache' = cache /\ task' = task
    BY <1>1 DEF ExpandMessage
  <1>3. /\ messages \in Seq(Seq(Messages) \ {<<>>}) /\ at \in 1..Len(messages) /\ file \in Files
        /\ Len(messages) \in Nat
    <2>1. messages \in Seq(Seq(Messages) \ {<<>>}) /\ at \in 1..(Len(messages) + 1) /\ file \in Files
      BY DEF MailInv, ExpansionAt
    <2>2. Len(messages) \in Nat
      BY <2>1
    <2> QED BY <1>2, <2>1, <2>2
  <1>4. m \in Messages
    <2>1. messages[at] \in Seq(Messages) /\ messages[at] # <<>>
      BY <1>3
    <2> QED BY <1>1, <2>1
  <1>5. /\ art.kind = "email" /\ art.index = at /\ art.body \in Prose /\ Letters(art.body) # <<>>
    BY <1>1, <1>2, <1>4, NormalizedIs
  <1>6. ExpansionAt'
    BY <1>2, <1>3 DEF ExpansionAt
  <1>7. StoreFine'
    <2>1. \A a \in store' : EmailFine(a)
      BY <1>2, <1>5 DEF MailInv, StoreFine, EmailFine
    <2>2. ASSUME NEW i \in 1..at PROVE WrittenAt(i)'
      <3>1. CASE i = at
        <4>1. art \in store' /\ Head(messages'[i]).ok /\ Normalized(Head(messages'[i]), i, mailbox') = art
          BY <1>1, <1>2, <3>1
        <4> QED BY <4>1 DEF WrittenAt
      <3>2. CASE i # at
        <4>1. i \in 1..(at - 1)
          BY <1>3, <3>2
        <4>2. WrittenAt(i)
          BY <4>1 DEF MailInv, StoreFine
        <4> QED BY <1>2, <4>2 DEF WrittenAt
      <3> QED BY <3>1, <3>2
    <2>3. at' - 1 = at
      BY <1>2, <1>3
    <2> QED BY <2>1, <2>2, <2>3 DEF StoreFine, EmailFine
  <1>8. PICK n : n = Len(Chunks(art.body))
    OBVIOUS
  <1>9. n \in Nat /\ n > 0 /\ DOMAIN Chunks(art.body) = 1..n
    <2>1. Chunks(art.body) \in Seq(Prose) /\ Len(Chunks(art.body)) > 0
      BY <1>5, ChunksKeep
    <2> QED BY <1>8, <2>1
  <1>10. new = [i \in 1..n |-> [ref |-> art, chunk |-> i]]
    BY <1>1, <1>8 DEF Emitted
  <1>11. Range(new) = {[ref |-> art, chunk |-> i] : i \in 1..n}
    BY <1>10 DEF Range
  <1>12. ItemsFine'
    <2>1. items \in Seq(ItemsOf(store')) /\ (\A it \in Range(items) : ItemFine(it))
      <3>1. items \in Seq(ItemsOf(store)) /\ \A it \in Range(items) : ItemFine(it)
        BY DEF MailInv, ItemsFine
      <3>2. ItemsOf(store) \subseteq ItemsOf(store')
        BY <1>2 DEF ItemsOf
      <3> QED BY <3>1, <3>2, SeqWider
    <2>2. new \in Seq(ItemsOf(store'))
      <3>1. \A i \in 1..n : [ref |-> art, chunk |-> i] \in ItemsOf(store')
        BY <1>2, <1>9 DEF ItemsOf
      <3> QED BY <1>9, <1>10, <3>1
    <2>3. items' = Cat(items, new)
      BY <1>2 DEF Cat
    <2>a. PICK Y : Y = ItemsOf(store')
      OBVIOUS
    <2>b. items \in Seq(Y) /\ new \in Seq(Y)
      BY <2>1, <2>2, <2>a
    <2>c. Cat(items, new) \in Seq(Y)
      BY <2>b, CatParts
    <2>d. Range(Cat(items, new)) = Range(items) \cup Range(new)
      BY <2>b, RangeCat
    <2>4. items' \in Seq(ItemsOf(store')) /\ Range(items') = Range(items) \cup Range(new)
      BY <2>3, <2>a, <2>c, <2>d
    <2>5. \A it \in Range(new) : ItemFine(it) /\ it.ref.index = at
      <3>1. \A i \in 1..n : ItemFine([ref |-> art, chunk |-> i]) /\ [ref |-> art, chunk |-> i].ref.index = at
        BY <1>5, <1>9 DEF ItemFine
      <3> QED BY <1>11, <3>1
    <2>6. \E it \in Range(new) : it.ref.index = at
      <3>1. [ref |-> art, chunk |-> 1] \in Range(new)
        BY <1>9, <1>11
      <3> QED BY <2>5, <3>1
    <2>7. {it.ref.index : it \in Range(items)} = 1..(at - 1)
      BY <1>2 DEF MailInv, ItemsFine
    <2>8. {it.ref.index : it \in Range(items) \cup Range(new)} = 1..at
      <3>1. {it.ref.index : it \in Range(items) \cup Range(new)} = (1..(at - 1)) \cup {at}
        BY <2>5, <2>6, <2>7
      <3>2. (1..(at - 1)) \cup {at} = 1..at
        BY <1>3
      <3> QED BY <3>1, <3>2
    <2>9. at' - 1 = at
      BY <1>2, <1>3
    <2>10. \A it \in Range(items') : ItemFine(it)
      BY <2>1, <2>4, <2>5
    <2> QED BY <2>4, <2>8, <2>9, <2>10 DEF ItemsFine, ItemFine
  <1>13. CacheFine'
    BY <1>2, CacheKept DEF MailInv
  <1>14. TasksFine'
    BY <1>2, AllIdle DEF MailInv
  <1> QED BY <1>6, <1>7, <1>12, <1>13, <1>14 DEF MailInv

\* A step of one caller.
LEMMA TaskMoves ==
    ASSUME MailInv, NEW k \in Tasks, NEW t, task' = [task EXCEPT ![k] = t], TaskFine(t),
           UNCHANGED <<file, phase, mailbox, messages, at, store, items>>, CacheFine'
    PROVE  MailInv'
  <1>1. /\ file' = file /\ phase' = phase /\ mailbox' = mailbox /\ messages' = messages
        /\ at' = at /\ store' = store /\ items' = items
    OBVIOUS
  <1>2. ExpansionAt'
    BY <1>1 DEF MailInv, ExpansionAt
  <1>3. StoreFine'
    BY <1>1 DEF MailInv, StoreFine, EmailFine, WrittenAt
  <1>4. ItemsFine'
    BY <1>1 DEF MailInv, ItemsFine, ItemFine, ItemsOf
  <1>5. TasksFine'
    <2>1. task = [j \in Tasks |-> task[j]] /\ \A j \in Tasks : TaskFine(task[j])
      BY DEF MailInv, TasksFine
    <2>2. task' = [j \in Tasks |-> task'[j]]
      BY <2>1
    <2>3. \A j \in Tasks : task'[j] = IF j = k THEN t ELSE task[j]
      BY <2>1
    <2>4. \A j \in Tasks : TaskFine(task'[j])
      BY <2>1, <2>3
    <2>5. \A j \in Tasks : TaskFine(task[j])'
      BY <1>1, <2>4 DEF TaskFine
    <2> QED BY <2>2, <2>5 DEF TasksFine
  <1> QED BY <1>2, <1>3, <1>4, <1>5 DEF MailInv

\* What is cached for an artifact is its chunks.
LEMMA CachedIs ==
    ASSUME CacheFine, NEW ref, NEW i \in Cached(ref)
    PROVE  cache[i].chunks = Chunks(ref.body)
  <1>1. i \in DOMAIN cache /\ cache[i].ref = ref
    BY DEF Cached
  <1>2. cache[i] \in ListsOf(store)
    BY <1>1 DEF CacheFine
  <1>3. PICK a \in store : cache[i] = [ref |-> a, chunks |-> Chunks(a.body)]
    BY <1>2 DEF ListsOf
  <1> QED BY <1>1, <1>3

\* Looking into the cache.
LEMMA LookupStays == \A k \in Tasks : MailInv /\ Lookup(k) => MailInv'
  <1> SUFFICES ASSUME NEW k \in Tasks, MailInv, Lookup(k) PROVE MailInv'
    OBVIOUS
  <1>1. PICK it \in Named :
          task' = [task EXCEPT ![k] =
              IF Cached(it.ref) = {} THEN [pc |-> "load", item |-> it]
              ELSE [pc |-> "get", item |-> it,
                    chunks |-> cache[CHOOSE i \in Cached(it.ref) : TRUE].chunks]]
    BY DEF Lookup
  <1>2. PICK t : t = IF Cached(it.ref) = {} THEN [pc |-> "load", item |-> it]
                     ELSE [pc |-> "get", item |-> it,
                           chunks |-> cache[CHOOSE i \in Cached(it.ref) : TRUE].chunks]
    OBVIOUS
  <1>3. /\ phase \in {"ok", "failed"} /\ cache' = cache /\ store' = store
        /\ UNCHANGED <<file, phase, mailbox, messages, at, store, items>>
    BY DEF Lookup
  <1>4. TaskFine(t)
    <2>1. CASE Cached(it.ref) = {}
      <3>1. t = [pc |-> "load", item |-> it]
        BY <1>2, <2>1
      <3>2. t.pc = "load"
        BY <3>1
      <3> QED BY <1>3, <3>2 DEF TaskFine
    <2>2. CASE Cached(it.ref) # {}
      <3>1. PICK i : i = CHOOSE j \in Cached(it.ref) : TRUE
        OBVIOUS
      <3>2. i \in Cached(it.ref)
        BY <2>2, <3>1
      <3>3. cache[i].chunks = Chunks(it.ref.body)
        BY <3>2, CachedIs DEF MailInv
      <3>4. t = [pc |-> "get", item |-> it, chunks |-> Chunks(it.ref.body)]
        BY <1>2, <2>2, <3>1, <3>3
      <3>5. t.pc = "get" /\ t.item = it /\ t.chunks = Chunks(it.ref.body)
        BY <3>4
      <3> QED BY <1>3, <3>5 DEF TaskFine
    <2> QED BY <2>1, <2>2
  <1>5. CacheFine'
    BY <1>3, CacheKept DEF MailInv
  <1> QED BY <1>1, <1>2, <1>3, <1>4, <1>5, TaskMoves

\* Loading an artifact.
LEMMA LoadStays == \A k \in Tasks : MailInv /\ Load(k) => MailInv'
  <1> SUFFICES ASSUME NEW k \in Tasks, MailInv, Load(k) PROVE MailInv'
    OBVIOUS
  <1>1. PICK it, t :
          /\ it = task[k].item
          /\ t = Loaded(it)
    OBVIOUS
  <1>2. task' = [task EXCEPT ![k] = t]
    BY <1>1 DEF Load
  <1>3. /\ task[k].pc = "load" /\ cache' = cache /\ store' = store
        /\ UNCHANGED <<file, phase, mailbox, messages, at, store, items>>
    BY DEF Load
  <1>4. phase \in {"ok", "failed"}
    BY <1>3 DEF MailInv, TasksFine, TaskFine
  <1>5. it \in Range(items) => it.ref.kind = "email" /\ it.ref \in store
    <2>1. items \in Seq(ItemsOf(store)) /\ \A x \in Range(items) : ItemFine(x)
      BY DEF MailInv, ItemsFine
    <2>2. \A x \in Range(items) : x \in ItemsOf(store)
      BY <2>1 DEF Range
    <2> QED BY <2>1, <2>2 DEF ItemFine, ItemsOf
  <1>6. TaskFine(t)
    <2>1. CASE it.ref.kind = "email" /\ it.ref \in store
      <3>1. t = [pc |-> "insert", item |-> it, chunks |-> Chunks(it.ref.body)]
        BY <1>1, <2>1 DEF Loaded
      <3>2. t.pc = "insert" /\ t.item = it /\ t.chunks = Chunks(it.ref.body)
        BY <3>1
      <3> QED BY <1>4, <2>1, <3>2 DEF TaskFine
    <2>2. CASE ~(it.ref.kind = "email" /\ it.ref \in store)
      <3>1. \E w : t = [pc |-> "error", item |-> it, why |-> w]
        BY <1>1, <2>2 DEF Loaded
      <3>2. t.pc = "error" /\ t.item = it
        BY <3>1
      <3> QED BY <1>4, <1>5, <2>2, <3>2 DEF TaskFine
    <2> QED BY <2>1, <2>2
  <1>7. CacheFine'
    BY <1>3, CacheKept DEF MailInv
  <1> QED BY <1>2, <1>3, <1>6, <1>7, TaskMoves

\* A read that fails is reported and nothing else.
LEMMA ReadFailsStays == \A k \in Tasks : MailInv /\ ReadFails(k) => MailInv'
  <1> SUFFICES ASSUME NEW k \in Tasks, MailInv, ReadFails(k) PROVE MailInv'
    OBVIOUS
  <1>1. PICK t : t = [pc |-> "error", item |-> task[k].item, why |-> "BlockStore"]
    OBVIOUS
  <1>2. task' = [task EXCEPT ![k] = t]
    BY <1>1 DEF ReadFails
  <1>3. /\ task[k].pc = "load" /\ cache' = cache /\ store' = store
        /\ UNCHANGED <<file, phase, mailbox, messages, at, store, items>>
    BY DEF ReadFails
  <1>4. phase \in {"ok", "failed"}
    BY <1>3 DEF MailInv, TasksFine, TaskFine
  <1>5. TaskFine(t)
    BY <1>1, <1>4 DEF TaskFine
  <1>6. CacheFine'
    BY <1>3, CacheKept DEF MailInv
  <1> QED BY <1>2, <1>3, <1>5, <1>6, TaskMoves

\* Keeping the chunks.
LEMMA InsertStays == \A k \in Tasks : MailInv /\ Insert(k) => MailInv'
  <1> SUFFICES ASSUME NEW k \in Tasks, MailInv, Insert(k) PROVE MailInv'
    OBVIOUS
  <1>1. PICK it, c, t :
          /\ it = task[k].item /\ c = task[k].chunks
          /\ t = [pc |-> "get", item |-> it,
                  chunks |-> IF Cached(it.ref) = {} THEN c
                             ELSE cache[CHOOSE i \in Cached(it.ref) : TRUE].chunks]
    OBVIOUS
  <1>2. /\ task' = [task EXCEPT ![k] = t] /\ task[k].pc = "insert"
        /\ cache' = IF Cached(it.ref) # {} THEN cache ELSE Append(cache, [ref |-> it.ref, chunks |-> c])
        /\ UNCHANGED <<file, phase, mailbox, messages, at, store, items>> /\ store' = store
    BY <1>1 DEF Insert
  <1>3. phase \in {"ok", "failed"} /\ c = Chunks(it.ref.body) /\ it.ref \in store
    BY <1>1, <1>2 DEF MailInv, TasksFine, TaskFine
  <1>4. TaskFine(t)
    <2>1. (IF Cached(it.ref) = {} THEN c ELSE cache[CHOOSE i \in Cached(it.ref) : TRUE].chunks) = Chunks(it.ref.body)
      <3>1. CASE Cached(it.ref) = {}
        BY <1>3, <3>1
      <3>2. CASE Cached(it.ref) # {}
        <4>1. PICK i : i = CHOOSE j \in Cached(it.ref) : TRUE
          OBVIOUS
        <4>2. i \in Cached(it.ref)
          BY <3>2, <4>1
        <4>3. cache[i].chunks = Chunks(it.ref.body)
          BY <4>2, CachedIs DEF MailInv
        <4> QED BY <3>2, <4>1, <4>3
      <3> QED BY <3>1, <3>2
    <2>2. t.pc = "get" /\ t.item = it /\ t.chunks = Chunks(it.ref.body)
      BY <1>1, <2>1
    <2> QED BY <1>3, <2>2 DEF TaskFine
  <1>5. CacheFine'
    <2>1. CASE Cached(it.ref) # {}
      BY <1>2, <2>1, CacheKept DEF MailInv
    <2>2. CASE Cached(it.ref) = {}
      <3>1. PICK e, L, n : e = [ref |-> it.ref, chunks |-> c] /\ L = ListsOf(store) /\ n = Len(cache)
        OBVIOUS
      <3>2. cache \in Seq(L) /\ \A i, j \in DOMAIN cache : cache[i].ref = cache[j].ref => i = j
        BY <3>1 DEF MailInv, CacheFine, OneListPerArtifact
      <3>3. e \in L /\ e.ref = it.ref
        BY <1>3, <3>1 DEF ListsOf
      <3>4. cache' = Append(cache, e)
        BY <1>2, <2>2, <3>1
      <3>5. n \in Nat /\ DOMAIN cache = 1..n
        BY <3>1, <3>2
      <3>6. cache' \in Seq(L) /\ Len(cache') = n + 1
        BY <3>1, <3>2, <3>3, <3>4
      <3>7. DOMAIN cache' = 1..(n + 1)
        BY <3>6
      <3>8. cache'[n + 1] = e /\ \A i \in 1..n : cache'[i] = cache[i]
        BY <3>1, <3>2, <3>3, <3>4
      <3>9. \A i \in 1..n : cache[i].ref # it.ref
        BY <2>2, <3>5 DEF Cached
      <3>10. ASSUME NEW i \in 1..(n + 1), NEW j \in 1..(n + 1), cache'[i].ref = cache'[j].ref
             PROVE  i = j
        <4>1. (i \in 1..n \/ i = n + 1) /\ (j \in 1..n \/ j = n + 1)
          BY <3>5
        <4>2. CASE i \in 1..n /\ j \in 1..n
          BY <3>2, <3>5, <3>8, <3>10, <4>2
        <4>3. CASE i = n + 1 /\ j \in 1..n
          BY <3>3, <3>8, <3>9, <3>10, <4>3
        <4>4. CASE i \in 1..n /\ j = n + 1
          BY <3>3, <3>8, <3>9, <3>10, <4>4
        <4> QED BY <4>1, <4>2, <4>3, <4>4
      <3>11. OneListPerArtifact'
        BY <3>7, <3>10 DEF OneListPerArtifact
      <3>12. cache' \in Seq(ListsOf(store'))
        BY <1>2, <3>1, <3>6
      <3> QED BY <3>11, <3>12 DEF CacheFine
    <2> QED BY <2>1, <2>2
  <1> QED BY <1>2, <1>4, <1>5, TaskMoves

\* Taking the chunk.
LEMMA GetStays == \A k \in Tasks : MailInv /\ GetChunk(k) => MailInv'
  <1> SUFFICES ASSUME NEW k \in Tasks, MailInv, GetChunk(k) PROVE MailInv'
    OBVIOUS
  <1>1. PICK it, c, t :
          /\ it = task[k].item /\ c = task[k].chunks
          /\ t = IF it.chunk \in DOMAIN c
                 THEN [pc |-> "text", item |-> it, text |-> c[it.chunk]]
                 ELSE [pc |-> "error", item |-> it, why |-> "MissingChunk"]
    OBVIOUS
  <1>2. task' = [task EXCEPT ![k] = t]
    BY <1>1 DEF GetChunk
  <1>3. /\ task[k].pc = "get" /\ cache' = cache /\ store' = store
        /\ UNCHANGED <<file, phase, mailbox, messages, at, store, items>>
    BY DEF GetChunk
  <1>4. phase \in {"ok", "failed"} /\ c = Chunks(it.ref.body)
    BY <1>1, <1>3 DEF MailInv, TasksFine, TaskFine
  <1>5. TaskFine(t)
    <2>1. CASE it.chunk \in DOMAIN c
      <3>1. t.pc = "text" /\ t.item = it /\ t.text = c[it.chunk]
        BY <1>1, <2>1
      <3> QED BY <1>4, <3>1 DEF TaskFine
    <2>2. CASE it.chunk \notin DOMAIN c
      <3>1. t.pc = "error" /\ t.item = it
        BY <1>1, <2>2
      <3>2. it \notin Range(items)
        BY <1>4, <2>2 DEF MailInv, ItemsFine, ItemFine
      <3> QED BY <1>4, <3>1, <3>2 DEF TaskFine
    <2> QED BY <2>1, <2>2
  <1>6. CacheFine'
    BY <1>3, CacheKept DEF MailInv
  <1> QED BY <1>2, <1>3, <1>5, <1>6, TaskMoves

\* Every step keeps the invariant.
LEMMA MailSteps == MailInv /\ [MailNext]_mailVars => MailInv'
  <1> SUFFICES ASSUME MailInv, [MailNext]_mailVars PROVE MailInv'
    OBVIOUS
  <1>1. CASE SplitMailbox
    BY <1>1, SplitStays
  <1>2. CASE ExpandMessage
    BY <1>2, MessageStays
  <1>3. CASE ExpandFails
    BY <1>3, FailureStays
  <1>4. ASSUME NEW k \in Tasks, Lookup(k) \/ Load(k) \/ ReadFails(k) \/ Insert(k) \/ GetChunk(k)
        PROVE  MailInv'
    BY <1>4, LookupStays, LoadStays, ReadFailsStays, InsertStays, GetStays
  <1>5. CASE UNCHANGED mailVars
    <2>1. /\ UNCHANGED <<file, phase, mailbox, messages, at, store, items, task, cache>>
      BY <1>5 DEF mailVars
    <2>2. ExpansionAt' /\ StoreFine' /\ ItemsFine'
      BY <2>1 DEF MailInv, ExpansionAt, StoreFine, EmailFine, WrittenAt, ItemsFine, ItemFine, ItemsOf
    <2>3. CacheFine'
      BY <2>1, CacheKept DEF MailInv
    <2>4. TasksFine'
      BY <2>1 DEF MailInv, TasksFine, TaskFine
    <2> QED BY <2>2, <2>3, <2>4 DEF MailInv
  <1> QED BY <1>1, <1>2, <1>3, <1>4, <1>5 DEF MailNext

\* The invariant implies what is promised of a mailbox.
LEMMA MailInvImplies == MailInv => MailSound
  <1> SUFFICES ASSUME MailInv PROVE MailSound
    OBVIOUS
  <1>1. ItemsCoverMessages
    <2>1. phase = "ok" => {it.ref.index : it \in Range(items)} = 1 .. Len(messages)
      <3>1. CASE phase = "ok"
        <4>1. at = Len(messages) + 1 /\ messages \in Seq(Seq(Messages) \ {<<>>})
          BY <3>1 DEF MailInv, ExpansionAt
        <4>2. at - 1 = Len(messages)
          BY <4>1
        <4> QED BY <3>1, <4>2 DEF MailInv, ItemsFine
      <3> QED BY <3>1
    <2>2. items \in Seq(ItemsOf(store))
      BY DEF MailInv, ItemsFine
    <2>3. \A it \in Range(items) : it \in ItemsOf(store)
      BY <2>2 DEF Range
    <2> QED BY <2>1, <2>3 DEF ItemsCoverMessages, ItemsOf
  <1>2. \A a \in Emails : a \in store /\ a.body \in Prose /\ Letters(a.body) # <<>>
    BY DEF MailInv, StoreFine, EmailFine, Emails
  <1>3. CoreIsWhatWasWritten
    <2> SUFFICES ASSUME NEW i \in 1 .. at - 1, LettersOf(KeptLines(PreferredBody(Head(messages[i])))) # <<>>
                 PROVE  \E a \in Emails : /\ a.index = i
                                          /\ Letters(a.body) = LettersOf(KeptLines(PreferredBody(Head(messages[i]))))
      BY DEF CoreIsWhatWasWritten
    <2>1. PICK m, a : m = Head(messages[i]) /\ a = Normalized(m, i, mailbox)
      OBVIOUS
    <2>2. m.ok /\ a \in store
      BY <2>1 DEF MailInv, StoreFine, WrittenAt
    <2>3. messages \in Seq(Seq(Messages) \ {<<>>}) /\ at \in 1..(Len(messages) + 1)
      BY DEF MailInv, ExpansionAt
    <2>4. i \in 1..Len(messages)
      BY <2>3
    <2>5. messages[i] \in Seq(Messages) /\ messages[i] # <<>>
      BY <2>3, <2>4
    <2>6. m \in Messages
      BY <2>1, <2>5
    <2>7. /\ a.kind = "email" /\ a.index = i
          /\ Letters(a.body) = LettersOf(KeptLines(PreferredBody(m)))
      BY <2>1, <2>2, <2>6, NormalizedIs
    <2>8. a \in Emails
      BY <2>2, <2>7 DEF Emails
    <2> QED BY <2>1, <2>7, <2>8
  <1>4. NoTextLost
    BY <1>2, ChunksKeep DEF NoTextLost
  <1>5. ChunksFit
    <2> SUFFICES ASSUME NEW a \in Emails, NEW n \in DOMAIN Chunks(a.body)
                 PROVE  /\ Chunks(a.body)[n] # <<>>
                        /\ Len(Chunks(a.body)[n]) > MaxChunk
                              => Chunks(a.body)[n] \in Range(SentenceUnits(a.body))
      BY DEF ChunksFit
    <2>1. Chunks(a.body) \in Seq(Prose) /\ AllFit(Chunks(a.body), Range(SentenceUnits(a.body)))
      BY <1>2, ChunksKeep
    <2>2. n \in 1..Len(Chunks(a.body))
      BY <2>1
    <2>3. Fits(Chunks(a.body)[n], Range(SentenceUnits(a.body)))
      BY <2>1, <2>2 DEF AllFit
    <2> QED BY <2>3 DEF Fits
  <1>6. ItemsResolve
    <2>1. \A k \in Tasks : TaskFine(task[k])
      BY DEF MailInv, TasksFine
    <2> QED BY <2>1 DEF ItemsResolve, TaskFine, ExpandedText
  <1>7. OneListPerArtifact
    BY DEF MailInv, CacheFine
  <1> QED BY <1>1, <1>3, <1>4, <1>5, <1>6, <1>7 DEF MailSound

\* For every mailbox file, every chunk length and any number of callers: every
\* message is stored with all the text its writer wrote, its chunks have all of
\* it, in order, and fit, and every item of a finished expansion whose artifact the
\* store can read resolves to its chunk, also while callers race to load and cache
\* the same artifact and reads of others fail
\* (expand_mailbox_item_with_stats, chunk_email_core, resolve_email_chunk).
THEOREM MailSafe == MailSpec => []MailSound
  <1>1. MailInit => MailInv
    BY MailStarts
  <1>2. MailInv /\ [MailNext]_mailVars => MailInv'
    BY MailSteps
  <1>3. MailInv => MailSound
    BY MailInvImplies
  <1> QED BY <1>1, <1>2, <1>3, PTL DEF MailSpec
=============================================================================
