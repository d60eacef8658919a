----------------------------- MODULE ReplayKeys ------------------------------
(***************************************************************************)
(* The identity of a replayed item.  An item of the request is ingested as *)
(* a leaf block and a replay-journal record; a later run orders the        *)
(* records by a digest of the record's key, reads each block, makes an item*)
(* of it and refuses the journal when the item's digest is not the one the *)
(* order carries.  Four pieces of code build that key: from a request's    *)
(* item, from a journal record, from a replayed block, and again from the  *)
(* record the replay writes (crates/lexonarchivebuilder-indexer/src/       *)
(* runtime.rs, config.rs and resolver.rs).                                 *)
(*                                                                         *)
(* A request may give an item any metadata, the fields that identify it    *)
(* included: the replay then reads the request's value as its own.         *)
(*                                                                         *)
(* Two items go through it side by side, so that their keys can be         *)
(* compared.  A text is a sequence of bytes out of a few; a digest is the  *)
(* byte sequence it is taken of (the hash is taken as injective).          *)
(***************************************************************************)
EXTENDS Naturals, Sequences, FiniteSets, SequencesExt

CONSTANTS
    Paths,      \* document paths of a request, resolved
    Mailboxes,  \* mailbox paths of a request, resolved
    Refs,       \* normalized email artifacts, as texts
    Indexes,    \* chunk numbers
    Metadata,   \* metadata of a request's item: functions from texts to texts
    PadWidth,   \* digits of a chunk number in a key (20)
    Rounds      \* bound on the replays of an item

Nul == 0
Slash == 47
Backslash == 92
Colon == 58
Digit(d) == 48 + d

\* The texts "document", "email" and the names of the fields a leaf's metadata
\* must have stand for themselves.
DocumentKind == <<1>>
EmailKind == <<2>>
SourceKind == <<3>>
SourcePath == <<4>>
ArtifactRef == <<5>>
ChunkIndex == <<6>>

\* n divided by 10 again and again.
Remaining(n) ==
    LET remaining[k \in 0 .. PadWidth] == IF k = 0 THEN n ELSE remaining[k - 1] \div 10
    IN  remaining

ASSUME KeysAssumption ==
    /\ PadWidth \in Nat /\ Rounds \in Nat \ {0}
    \* A chunk number has no more digits than the key has room for: the largest
    \* usize has 20.
    /\ Indexes \subseteq Nat /\ \A n \in Indexes : Remaining(n)[PadWidth] = 0
    /\ Paths \subseteq Seq(Nat) /\ Mailboxes \subseteq Seq(Nat) /\ Refs \subseteq Seq(Nat)
    /\ \A md \in Metadata :
          /\ IsFiniteSet(DOMAIN md) /\ DOMAIN md \subseteq Seq(Nat)
          /\ md \in [DOMAIN md -> Seq(Nat)]

Two == {1, 2}

VARIABLES
    asked,    \* the two items of the request
    place,       \* what has been done with each
    item,     \* its present form
    leaf,     \* metadata of its leaf block
    record,   \* its journal record
    ordered,  \* the digest the replay order carries
    rounds    \* replays so far

keysVars == <<asked, place, item, leaf, record, ordered, rounds>>

None == <<>>

----------------------------------------------------------------------------
\* Keys.

Normalize(p) == [i \in DOMAIN p |-> IF p[i] = Backslash THEN Slash ELSE p[i]]

\* Mutant: the zero byte is not escaped.
EscapedPlain(s) == s

\* append_comparable_sort_bytes: a zero byte becomes 0 1; what ends a text is 0 0.
Escaped(s) ==
    FlattenSeq([i \in DOMAIN s |-> IF s[i] = Nul THEN <<Nul, 1>> ELSE <<s[i]>>])
End == <<Nul, Nul>>

\* append_zero_padded_usize_decimal: the digits from the last one back, as those of
\* what remains of n after so many divisions.  Where nothing remains the digit is 0.
Padded(n) == [i \in 1 .. PadWidth |-> Digit(Remaining(n)[PadWidth - i] % 10)]

\* append_replay_content_sort_key_bytes and its twin for journal records.
ContentKey(kind, text, n) ==
    IF kind = "document"
    THEN DocumentKind \o <<Colon>> \o Escaped(Normalize(text)) \o End
    ELSE EmailKind \o <<Colon>> \o Escaped(text) \o <<Colon>> \o Padded(n) \o End

\* Byte order of two texts, as BTreeMap keeps its keys.
TextBefore(a, b) ==
    \/ IsStrictPrefix(a, b)
    \/ \E i \in DOMAIN a \cap DOMAIN b :
          a[i] < b[i] /\ \A j \in 1 .. i - 1 : a[j] = b[j]

\* The texts of a set in that order: the one with i - 1 of them before it is the i-th.
Before(k, S) == {j \in S : TextBefore(j, k)}
InOrder(S) == [i \in 1 .. Cardinality(S) |-> CHOOSE k \in S : Cardinality(Before(k, S)) = i - 1]

\* append_metadata_sort_key: the pairs in the order of their keys.
MetadataKey(md) ==
    LET keys == InOrder(DOMAIN md)
    IN  FlattenSeq([i \in DOMAIN keys |->
                      Escaped(keys[i]) \o End \o Escaped(md[keys[i]]) \o End])

\* An item or a record: [kind, text, n, md].
Digest(x) == ContentKey(x.kind, x.text, x.n) \o MetadataKey(x.md)

\* The resolver's fingerprint of an item.
Fingerprint(x) ==
    IF x.kind = "document" THEN <<"document", Normalize(x.text)>>
    ELSE <<"email-chunk", x.text, x.n>>

----------------------------------------------------------------------------
\* The way of an item.

Over(md, extra) == [k \in DOMAIN md \cup DOMAIN extra |->
                      IF k \in DOMAIN md THEN md[k] ELSE extra[k]]

\* metadata_to_lexongraph, read back as a map: of a field that is there twice the
\* last pair counts, so what it is given wins over its own two fields.
WithSource(md, kind, path) ==
    Over(md, [k \in {SourceKind, SourcePath} |-> IF k = SourceKind THEN kind ELSE Normalize(path)])

\* build_chunk_metadata: the fields of a chunk win over the request's.
ChunkMetadata(md, ref, n) ==
    Over([k \in {ArtifactRef, ChunkIndex} |-> IF k = ArtifactRef THEN ref ELSE <<n>>], md)

AskedItems ==
    {[kind |-> "document", text |-> p, n |-> 0, md |-> WithSource(md, DocumentKind, p)] :
        p \in Paths, md \in Metadata}
    \cup {[kind |-> "email", text |-> r, n |-> n,
            md |-> WithSource(ChunkMetadata(md, r, n), EmailKind, box)] :
        box \in Mailboxes, r \in Refs, n \in Indexes, md \in Metadata}

KeysStart(given) ==
    /\ asked = given
    /\ item = asked
    /\ place = [i \in Two |-> "asked"]
    /\ leaf = [i \in Two |-> None] /\ record = [i \in Two |-> None]
    /\ ordered = [i \in Two |-> None] /\ rounds = [i \in Two |-> 0]

KeysInit == \E given \in [Two -> AskedItems] : KeysStart(given)

\* replay_journal_record_from_item: the path is normalized.
RecordOf(x) == [x EXCEPT !.text = IF x.kind = "document" THEN Normalize(@) ELSE @]

\* The leaf block's metadata and the journal record of a new item.  The leaf keeps
\* the pairs of the metadata and their order (external), so they read back the same.
Ingest(i) ==
    /\ place[i] = "asked"
    /\ leaf' = [leaf EXCEPT ![i] = item[i].md]
    /\ record' = [record EXCEPT ![i] = RecordOf(item[i])]
    /\ place' = [place EXCEPT ![i] = "journaled"]
    /\ UNCHANGED <<asked, item, ordered, rounds>>

\* replay_journal_record_sort_key_digest, taken when the order is built.
Order(i) ==
    /\ place[i] = "journaled"
    /\ ordered' = [ordered EXCEPT ![i] = Digest(record[i])]
    /\ place' = [place EXCEPT ![i] = "ordered"]
    /\ UNCHANGED <<asked, item, leaf, record, rounds>>

\* replay_journal_record_to_item: the item a record stands for.
ItemOfRecord(r) == r

\* A chunk number is the text of a decimal number, or cannot be parsed.
Parsed(text) == {n \in Indexes : text = <<n>>}

\* replay_item_from_validated_block: the identity is read from the metadata, which
\* may name no item at all.
ItemsOfLeaf(md) ==
    IF md[SourceKind] = DocumentKind
    THEN {[kind |-> "document", text |-> md[SourcePath], n |-> 0, md |-> md]}
    ELSE IF md[SourceKind] = EmailKind /\ {ArtifactRef, ChunkIndex} \subseteq DOMAIN md
    THEN {[kind |-> "email", text |-> md[ArtifactRef], n |-> n, md |-> md] :
             n \in Parsed(md[ChunkIndex])}
    ELSE {}

\* load_replay_batch_entry_from_validated: the replay uses the block's item and
\* writes its record again, or refuses the journal (MissingReplayMetadata,
\* InvalidReplayJournalHead).
ReplayItem(i) ==
    /\ place[i] = "ordered" /\ rounds[i] < Rounds
    /\ \/ \E back \in ItemsOfLeaf(leaf[i]) :
             /\ Digest(back) = ordered[i]
             /\ item' = [item EXCEPT ![i] = back]
             /\ record' = [record EXCEPT ![i] = RecordOf(back)]
             /\ place' = [place EXCEPT ![i] = "journaled"]
       \/ /\ \A back \in ItemsOfLeaf(leaf[i]) : Digest(back) # ordered[i]
          /\ place' = [place EXCEPT ![i] = "refused"]
          /\ UNCHANGED <<item, record>>
    /\ rounds' = [rounds EXCEPT ![i] = @ + 1]
    /\ UNCHANGED <<asked, leaf, ordered>>

KeysNext == \E i \in Two : Ingest(i) \/ Order(i) \/ ReplayItem(i)

KeysSpec == KeysInit /\ [][KeysNext]_keysVars

----------------------------------------------------------------------------
\* Properties.

\* The metadata of an item say of it what it is.
NamesItself(x) ==
    IF x.kind = "document"
    THEN x.md[SourceKind] = DocumentKind /\ Normalize(x.md[SourcePath]) = Normalize(x.text)
    ELSE x.md[SourceKind] = EmailKind

\* A replay refuses the journal the archive builder wrote for exactly those items
\* whose request overrides what the metadata say the item is, another source_kind
\* or, for a document, another source_path, and it never takes such an item for the
\* other one (load_replay_batch_entry_from_validated).
JournalIsAccepted ==
    \A i \in Two :
        place[i] = "refused" <=> rounds[i] > 0 /\ ~NamesItself(asked[i])

\* What an item is: its text with one kind of slash, its number, its metadata.
Meaning(x) == [kind |-> x.kind, n |-> x.n, md |-> x.md,
               text |-> IF x.kind = "document" THEN Normalize(x.text) ELSE x.text]

\* Two items have one digest only when they are the same item: the deduplication
\* of the replay order drops nothing else (append_comparable_sort_bytes).
DigestsTellApart ==
    \A i, j \in Two :
        ordered[i] # None /\ ordered[i] = ordered[j] => Meaning(asked[i]) = Meaning(asked[j])

\* However often an item is replayed, its record is the one first written and
\* its fingerprint the one of the request's item
\* (replay_journal_record_from_item, fingerprint).
IdentitySurvivesReplay ==
    \A i \in Two :
        place[i] # "asked" =>
            /\ record[i] = RecordOf(asked[i])
            /\ Fingerprint(item[i]) = Fingerprint(asked[i])
            /\ Fingerprint(ItemOfRecord(record[i])) = Fingerprint(asked[i])

\* The four codings of an item's key agree on what an item is, and on nothing less
\* (append_replay_content_sort_key_bytes, replay_sort_key_digest, fingerprint).
KeysSound == JournalIsAccepted /\ DigestsTellApart /\ IdentitySurvivesReplay
=============================================================================
