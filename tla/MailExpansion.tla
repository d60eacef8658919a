---------------------------- MODULE MailExpansion ----------------------------
(***************************************************************************)
(* From a mailbox file to the text that is embedded                        *)
(* (crates/lexonarchivebuilder-indexer/src/mailbox.rs and resolver.rs).    *)
(* The expansion splits the file into messages, derives each message's     *)
(* core text, stores the file and each normalized message as artifacts and *)
(* emits one item per chunk of the core, naming the artifact and the       *)
(* chunk's number.  The chunk's text is not kept: the resolver, called by  *)
(* concurrent tasks, reads the artifact back, cuts its body into chunks    *)
(* again, and caches them.                                                 *)
(*                                                                         *)
(* A file is a sequence of lines, each Sep (a "From " line) or a fragment  *)
(* of a message; the first fragment of a message stands for all of it.     *)
(* Text is a sequence of characters: letters, ".", " ", and NL.  A body    *)
(* line is such a sequence, or one of the marked lines.  An artifact's id  *)
(* is its content.  Headers, metadata and the encoding of artifacts are    *)
(* left out, except the subject, which is what an empty body falls back on.*)
(***************************************************************************)
EXTENDS Naturals, Sequences, FiniteSets, SequencesExt

CONSTANTS
    Chars,        \* characters, each marked line being one of its own
    Files,        \* mailbox files considered
    Sep,          \* a "From " line
    MaxChunk,     \* MAX_CHUNK_CHARS
    Tasks,        \* concurrent callers of the resolver
    Foreign,      \* artifacts of other kinds that are in the store already
    EmptyBody     \* the text "(empty email body)"

NL == "nl"
Blank == " "
Ends == {".", "!", "?"}
White == {Blank, NL}

\* Marked lines: each is a one-character text of its own.
Intro == <<"On it wrote:">>
Sign == <<"--">>
Quote == <<">">>

\* Text, and what parse_mail finds in a fragment: a message that can be parsed
\* and is not made of parts has a body of its own.
Prose == Seq(Chars)
Messages ==
    {m \in [ok : BOOLEAN, subject : Prose, single : BOOLEAN,
            parts : Seq([type : {"plain", "html", "other"}, body : Seq(Prose)])] :
        m.ok /\ m.single => m.parts # <<>>}

ASSUME MailAssumption ==
    /\ MaxChunk \in Nat \ {0}
    /\ White \subseteq Chars
    /\ Files \subseteq Seq({Sep} \cup Messages)
    /\ EmptyBody \in Prose
    /\ EmptyBody # <<>> /\ EmptyBody[1] \notin White
    /\ \A a \in Foreign : a.kind \notin {"email", "mailbox"}

VARIABLES
    file,     \* the mailbox file
    phase,       \* the expansion: "split", "message", "ok", "failed", "empty"
    mailbox,  \* the stored mailbox artifact, in a one-element sequence
    messages, \* messages split off
    at,       \* next message
    store,    \* artifacts in the block store
    items,    \* emitted items
    cache,    \* the resolver's chunks by artifact
    task      \* what each caller is doing

mailVars == <<file, phase, mailbox, messages, at, store, items, cache, task>>

----------------------------------------------------------------------------
\* Text.

\* normalize_inline_text: runs of white space become one space, none at the ends.
InlineText(s) ==
    LET step(acc, ch) ==
            IF ch \in White THEN [acc EXCEPT !.gap = acc.out # <<>>]
            ELSE [out |-> acc.out \o (IF acc.gap THEN <<Blank>> ELSE <<>>) \o <<ch>>,
                  gap |-> FALSE]
    IN  FoldLeft(step, [out |-> <<>>, gap |-> FALSE], s).out

Trim(s) ==
    LET solid == {i \in DOMAIN s : s[i] \notin White}
    IN  IF solid = {} THEN <<>>
        ELSE SubSeq(s, CHOOSE i \in solid : \A j \in solid : i <= j,
                       CHOOSE i \in solid : \A j \in solid : i >= j)

JoinLines(ls) ==
    FoldLeft(LAMBDA acc, i : acc \o (IF i > 1 THEN <<NL>> ELSE <<>>) \o ls[i],
             <<>>, [i \in DOMAIN ls |-> i])

\* normalize_email_body: quoted lines are dropped, a reply intro or a signature
\* ends the body, blank lines collapse.
CoreOf(body) ==
    LET step(acc, line) ==
            LET text == Trim(line)
            IN  IF acc.stop THEN acc
                ELSE IF text = <<>>
                THEN [acc EXCEPT !.out = IF ~acc.blank /\ @ # <<>> THEN Append(@, <<>>)
                                         ELSE @,
                                 !.blank = TRUE]
                ELSE IF text \in {Intro, Sign} THEN [acc EXCEPT !.stop = TRUE]
                ELSE IF text = Quote THEN acc
                ELSE [acc EXCEPT !.out = Append(@, text), !.blank = FALSE]
        done == FoldLeft(step, [out |-> <<>>, blank |-> FALSE, stop |-> FALSE], body)
    IN  Trim(JoinLines(done.out))

\* strip_html_tags over the text of a part (its entities are left out), as lines: a
\* tag may go over the end of a line, which it then takes with it.
StripTags(body) ==
    LET step(acc, ch) ==
            IF ch = "<" THEN [acc EXCEPT !.inside = TRUE]
            ELSE IF ch = ">" THEN [acc EXCEPT !.inside = FALSE]
            ELSE IF acc.inside THEN acc
            ELSE IF ch = NL THEN [acc EXCEPT !.lines = Append(@, acc.cur), !.cur = <<>>]
            ELSE [acc EXCEPT !.cur = Append(@, ch)]
        end == FoldLeft(step, [lines |-> <<>>, cur |-> <<>>, inside |-> FALSE], JoinLines(body))
    IN  Append(end.lines, end.cur)

\* sentence_units: a piece ends at a sentence end or at an empty line.
SentenceUnits(text) ==
    LET close(acc) ==
            LET unit == InlineText(acc.cur)
            IN  [units |-> IF unit = <<>> THEN acc.units ELSE Append(acc.units, unit),
                 cur |-> <<>>, blanks |-> 0]
        step(acc, ch) ==
            LET next == [acc EXCEPT !.cur = Append(@, ch),
                                    !.blanks = IF ch = NL THEN @ + 1
                                               ELSE IF ch \notin White THEN 0 ELSE @]
            IN  IF ch \in Ends \/ next.blanks >= 2 THEN close(next) ELSE next
    IN  close(FoldLeft(step, [units |-> <<>>, cur |-> <<>>, blanks |-> 0], text)).units

\* Mutant: the joining space is not counted.
ChunksUncountedSpace(text) ==
    LET units == SentenceUnits(text)
        step(acc, unit) ==
            IF acc.cur = <<>> THEN [acc EXCEPT !.cur = unit]
            ELSE IF Len(acc.cur) + Len(unit) > MaxChunk
            THEN [done |-> Append(acc.done, acc.cur), cur |-> unit]
            ELSE [acc EXCEPT !.cur = @ \o <<Blank>> \o unit]
        end == FoldLeft(step, [done |-> <<>>, cur |-> <<>>], units)
    IN  IF units = <<>> THEN <<Trim(text)>> ELSE Append(end.done, end.cur)

\* chunk_email_core: pieces are joined while the chunk stays within MaxChunk.
Chunks(text) ==
    LET units == SentenceUnits(text)
        step(acc, unit) ==
            IF acc.cur = <<>> THEN [acc EXCEPT !.cur = unit]
            ELSE IF Len(acc.cur) + 1 + Len(unit) > MaxChunk
            THEN [done |-> Append(acc.done, acc.cur), cur |-> unit]
            ELSE [acc EXCEPT !.cur = @ \o <<Blank>> \o unit]
        end == FoldLeft(step, [done |-> <<>>, cur |-> <<>>], units)
    IN  IF units = <<>> THEN <<Trim(text)>> ELSE Append(end.done, end.cur)

----------------------------------------------------------------------------
\* Messages.

\* A message: [ok, subject, single, parts], parts being its leaf parts in the
\* order of the walk, each [type, body].

BodyOrFallback(m) ==
    IF m.core # <<>> THEN m.core
    ELSE IF InlineText(m.subject) # <<>> THEN InlineText(m.subject)
    ELSE EmptyBody

\* first_preferred_body: the only part as it is; else the first plain part, else
\* the first HTML part.
PreferredBody(m) ==
    LET plain == {i \in DOMAIN m.parts : m.parts[i].type = "plain"}
        html  == {i \in DOMAIN m.parts : m.parts[i].type = "html"}
        first(S) == m.parts[CHOOSE i \in S : \A j \in S : i <= j].body
    IN  IF m.single THEN m.parts[1].body
        ELSE IF plain # {} THEN first(plain)
        ELSE IF html # {} THEN StripTags(first(html))
        ELSE <<>>

\* normalize_email: the artifact of the i-th message of a mailbox.
Normalized(m, i, box) ==
    [kind |-> "email", mailbox |-> box, index |-> i,
     body |-> BodyOrFallback([core |-> CoreOf(PreferredBody(m)), subject |-> m.subject])]

\* split_mbox_messages: a file without separator is one message; an empty
\* stretch between separators is none.
Split(f) ==
    LET step(acc, line) ==
            IF line = Sep
            THEN [msgs |-> IF acc.cur = <<>> THEN acc.msgs ELSE Append(acc.msgs, acc.cur),
                  cur |-> <<>>]
            ELSE [acc EXCEPT !.cur = Append(@, line)]
        end == FoldLeft(step, [msgs |-> <<>>, cur |-> <<>>], f)
    IN  IF end.cur = <<>> THEN end.msgs ELSE Append(end.msgs, end.cur)

----------------------------------------------------------------------------
\* The expansion.

MailStart(given) ==
    /\ file = given
    /\ phase = "split" /\ mailbox = <<>> /\ messages = <<>> /\ at = 1
    /\ store = Foreign /\ items = <<>> /\ cache = <<>>
    /\ task = [k \in Tasks |-> [pc |-> "idle"]]

MailInit == \E given \in Files : MailStart(given)

\* expand_mailbox_item_with_stats up to its loop.
SplitMailbox ==
    /\ phase = "split"
    /\ IF Split(file) = <<>>
       THEN /\ phase' = "empty"
            /\ UNCHANGED <<mailbox, messages, store>>
       ELSE /\ phase' = "message"
            /\ messages' = Split(file)
            /\ mailbox' = <<[kind |-> "mailbox", content |-> file]>>
            /\ store' = store \cup {mailbox'[1]}
    /\ UNCHANGED <<file, at, items, cache, task>>

Emitted(ref, body) == [n \in 1 .. Len(Chunks(body)) |-> [ref |-> ref, chunk |-> n]]

\* One message: parsed, normalized, stored, and its items emitted.
ExpandMessage ==
    /\ phase = "message" /\ at <= Len(messages) /\ Head(messages[at]).ok
    /\ LET art == Normalized(Head(messages[at]), at, mailbox)
       IN  /\ store' = store \cup {art}
           /\ items' = items \o Emitted(art, art.body)
    /\ at' = at + 1
    /\ phase' = IF at = Len(messages) THEN "ok" ELSE "message"
    /\ UNCHANGED <<file, mailbox, messages, cache, task>>

\* validate_mailbox_path and the read of the file may fail.
Unreadable == phase = "split"

\* So may the building and the storing of any artifact.
Unstored == phase = "message" \/ (phase = "split" /\ Split(file) # <<>>)

\* Any of these, or a message that cannot be parsed, ends the expansion: no item
\* of the mailbox is used.
ExpandFails ==
    /\ \/ Unreadable
       \/ phase = "message" /\ ~Head(messages[at]).ok
       \/ Unstored
    /\ phase' = "failed" /\ items' = <<>>
    /\ UNCHANGED <<file, mailbox, messages, at, store, cache, task>>

----------------------------------------------------------------------------
\* The resolver.

Cached(ref) == {i \in DOMAIN cache : cache[i].ref = ref}

\* What a replayed record may name besides the items just emitted: an artifact
\* of another kind, one that is not in the store, and what is no block id.
Named == Range(items) \cup {[ref |-> r, chunk |-> 1] : r \in store}
         \cup {[ref |-> [kind |-> k], chunk |-> 1] : k \in {"absent", "no_id"}}

\* resolve_email_chunk: look into the cache under the lock.
Lookup(k) ==
    /\ phase \in {"ok", "failed"} /\ task[k].pc = "idle"
    /\ \E it \in Named :
          task' = [task EXCEPT ![k] =
              IF Cached(it.ref) = {} THEN [pc |-> "load", item |-> it]
              ELSE [pc |-> "get", item |-> it,
                    chunks |-> cache[CHOOSE i \in Cached(it.ref) : TRUE].chunks]]
    /\ UNCHANGED <<file, phase, mailbox, messages, at, store, items, cache>>

\* What into_typed_block, custom_block_payload, normalized_email_body and the checks
\* between them say of an artifact of each other kind.
Refusal(kind) ==
    CASE kind = "legacy"  -> "ArtifactLegacyVersion"
      [] kind \in {"leaf", "mailbox"} -> "ArtifactWrongType"
      [] kind = "other_media" -> "ArtifactWrongMediaType"
      [] kind = "no_payload" -> "ArtifactMissingContent"
      [] kind \in {"untyped", "not_a_map", "other_schema"} -> "ArtifactDecode"
      [] kind = "no_body" -> "ArtifactMissingBody"

\* load_email_chunks: the reference must be a block id, the artifact must be
\* there and be a normalized email.
Loaded(it) ==
    IF it.ref.kind = "no_id"
    THEN [pc |-> "error", item |-> it, why |-> "InvalidBlockHash"]
    ELSE IF it.ref \notin store
    THEN [pc |-> "error", item |-> it, why |-> "MissingArtifact"]
    ELSE IF it.ref.kind # "email"
    THEN [pc |-> "error", item |-> it, why |-> Refusal(it.ref.kind)]
    ELSE [pc |-> "insert", item |-> it, chunks |-> Chunks(it.ref.body)]

Load(k) ==
    /\ task[k].pc = "load"
    /\ task' = [task EXCEPT ![k] = Loaded(task[k].item)]
    /\ UNCHANGED <<file, phase, mailbox, messages, at, store, items, cache>>

\* get_decoded fails: the store cannot be read, or what it has does not decode.
ReadFails(k) ==
    /\ task[k].pc = "load" /\ task[k].item.ref.kind # "no_id"
    /\ task' = [task EXCEPT ![k] = [pc |-> "error", item |-> task[k].item, why |-> "BlockStore"]]
    /\ UNCHANGED <<file, phase, mailbox, messages, at, store, items, cache>>

\* entry(..).or_insert: the first task's chunks stay, whoever loaded again.
Insert(k) ==
    /\ task[k].pc = "insert"
    /\ LET it == task[k].item
           kept == Cached(it.ref)
       IN  /\ cache' = IF kept # {} THEN cache
                       ELSE Append(cache, [ref |-> it.ref, chunks |-> task[k].chunks])
           /\ task' = [task EXCEPT ![k] = [pc |-> "get", item |-> it,
                          chunks |-> IF kept = {} THEN task[k].chunks
                                     ELSE cache[CHOOSE i \in kept : TRUE].chunks]]
    /\ UNCHANGED <<file, phase, mailbox, messages, at, store, items>>

GetChunk(k) ==
    /\ task[k].pc = "get"
    /\ LET it == task[k].item
       IN  task' = [task EXCEPT ![k] =
              IF it.chunk \in DOMAIN task[k].chunks
              THEN [pc |-> "text", item |-> it, text |-> task[k].chunks[it.chunk]]
              ELSE [pc |-> "error", item |-> it, why |-> "MissingChunk"]]
    /\ UNCHANGED <<file, phase, mailbox, messages, at, store, items, cache>>

MailNext ==
    \/ SplitMailbox \/ ExpandMessage \/ ExpandFails
    \/ \E k \in Tasks : Lookup(k) \/ Load(k) \/ ReadFails(k) \/ Insert(k) \/ GetChunk(k)

MailSpec == MailInit /\ [][MailNext]_mailVars

----------------------------------------------------------------------------
\* Properties.

\* The text the expansion saw for an item.
ExpandedText(it) == Chunks(it.ref.body)[it.chunk]

\* An item of a finished expansion resolves to the text the expansion cut, whatever
\* other tasks load and cache meanwhile and whichever of their reads fail; it fails
\* only by a failed read of the store, its own, never by what the artifact holds
\* (resolve_email_chunk, load_email_chunks).
ItemsResolve ==
    \A k \in Tasks :
        task[k].pc \in {"text", "error"} /\ task[k].item \in Range(items) =>
            IF task[k].pc = "text" THEN task[k].text = ExpandedText(task[k].item)
            ELSE task[k].why = "BlockStore"

\* Two tasks that work on an artifact at once end with the one cached list, and
\* the cache holds one list for it (the or_insert of resolve_email_chunk).
OneListPerArtifact ==
    \A i, j \in DOMAIN cache : cache[i].ref = cache[j].ref => i = j

\* The letters of a text, and of pieces of text one after the other.
Letters(s) == FoldLeft(LAMBDA acc, ch : IF ch \in White THEN acc ELSE Append(acc, ch), <<>>, s)
LettersOf(pieces) == FoldLeft(LAMBDA acc, s : acc \o Letters(s), <<>>, pieces)
Emails == {a \in store : a.kind = "email"}

\* The chunks of a message hold all of its core text, in order
\* (sentence_units, chunk_email_core).
NoTextLost == \A a \in Emails : LettersOf(Chunks(a.body)) = Letters(a.body)

\* No chunk is empty, and one longer than MaxChunk is a single piece
\* (chunk_email_core, and normalize_email's fallbacks for an empty core).
ChunksFit ==
    \A a \in Emails :
        \A n \in DOMAIN Chunks(a.body) :
            LET c == Chunks(a.body)[n]
            IN  /\ c # <<>>
                /\ Len(c) > MaxChunk => c \in Range(SentenceUnits(a.body))

\* The core's letters are those of the lines before the first reply intro or
\* signature that are not quotes (normalize_email_body).
KeptLines(body) ==
    LET cuts == {i \in DOMAIN body : Trim(body[i]) \in {Intro, Sign}}
        upto == IF cuts = {} THEN Len(body)
                ELSE (CHOOSE i \in cuts : \A j \in cuts : i <= j) - 1
    IN  [i \in 1 .. upto |-> IF Trim(body[i]) = Quote THEN <<>> ELSE body[i]]
CoreIsWhatWasWritten ==
    \A i \in 1 .. at - 1 :
        LET m == Head(messages[i])
            kept == LettersOf(KeptLines(PreferredBody(m)))
        IN  kept # <<>> => \E a \in Emails : a.index = i /\ Letters(a.body) = kept

\* A mailbox is all or nothing, and its items name stored artifacts of every
\* one of its messages (expand_mailbox_item_with_stats).
ItemsCoverMessages ==
    /\ phase = "ok" => {it.ref.index : it \in Range(items)} = 1 .. Len(messages)
    /\ \A it \in Range(items) : it.ref \in store

\* Every text of a mailbox that its writer wrote is in an item, in chunks that fit,
\* and every item whose artifact can be read resolves to its chunk, also when tasks
\* share an artifact
\* (expand_mailbox_item_with_stats, chunk_email_core, resolve_email_chunk).
MailSound ==
    /\ ItemsCoverMessages /\ CoreIsWhatWasWritten /\ NoTextLost /\ ChunksFit
    /\ ItemsResolve /\ OneListPerArtifact
=============================================================================
