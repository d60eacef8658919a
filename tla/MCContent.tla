----------------------------- MODULE MCContent ------------------------------
(***************************************************************************)
(* What the indexer makes of content: the expansion of a mailbox and the   *)
(* resolution of its chunks ("mail"), the keys that name an item through   *)
(* its replays ("keys"), and the assessment of a stored tree ("quality").  *)
(* They share no state, so each behaviour runs one of them and leaves the  *)
(* others as they start.                                                   *)
(***************************************************************************)
EXTENDS MailExpansion, ReplayKeys, RootedQuality

VARIABLE part

contentVars == <<part, mailVars, keysVars, qualityVars>>

----------------------------------------------------------------------------
(* Mailboxes: every plain message of up to two body lines out of eight, or  *)
(* of three out of two, and a few files with several messages, several    *)
(* parts, empty stretches, a message that cannot be parsed and one with     *)
(* nothing to say.                                                          *)

MCChars == {"a", "b", "c", "d", "e", "h", "p", "s", "t", ".", "!", Blank, NL, "<", ">", "(", ")",
            Intro[1], Sign[1]}
Lines == {<<>>, Intro, Sign, Quote, <<"a">>, <<"b", ".", " ", "c">>,
          <<"!", " ", "c">>, <<" ", "d", "e">>}
Bodies == UNION {[1 .. n -> Lines] : n \in 0 .. 2}
          \cup [1 .. 3 -> {<<>>, <<"b", ".", " ", "c">>}]
Plain(body) == [ok |-> TRUE, subject |-> <<"s">>, single |-> TRUE,
                parts |-> <<[type |-> "plain", body |-> body]>>]
Multi(subject, parts) == [ok |-> TRUE, subject |-> subject, single |-> FALSE,
                          parts |-> parts]
Broken == [ok |-> FALSE, subject |-> <<>>, single |-> TRUE, parts |-> <<>>]
Html == [type |-> "html", body |-> <<<<"<", "p", ">", "h">>, <<"a", "<", "b">>, <<"c", ">", "d">>>>]
Text == [type |-> "plain", body |-> <<<<"t">>>>]
Silent == [type |-> "plain", body |-> <<Quote>>]
MCFiles ==
    {<<Plain(b)>> : b \in Bodies}
    \cup {<<>>, <<Sep>>, <<Sep, Plain(<<<<"a">>>>), Sep, Sep, Plain(<<<<"a">>>>)>>,
          <<Plain(<<<<"a">>>>), Sep, Plain(<<<<"b", ".", "c">>>>)>>,
          <<Sep, Plain(<<<<"a">>>>), Sep, Broken>>,
          <<Multi(<<>>, <<Html, Text>>)>>, <<Multi(<<>>, <<Html>>)>>,
          <<Multi(<<" ">>, <<Silent, Html>>)>>}
MCForeign == {[kind |-> k] : k \in {"legacy", "untyped", "leaf", "other_media", "no_payload", "no_body"}}
MCEmptyBody == <<"(", " ", ")">>

----------------------------------------------------------------------------
(* Keys: paths and artifact names of up to two bytes, the awkward ones      *)
(* among them (a zero byte, the bytes of the escape, both slashes, the      *)
(* colon, a digit), and metadata with up to two fields, or with the fields  *)
(* that say what an item is: all of another item's, or some of them.        *)

MCPaths == {<<Slash>>, <<Backslash>>, <<0>>, <<0, 1>>, <<1>>}
MCRefs == {<<7>>, <<7, Colon>>, <<7, Colon, 49>>}
MCMetadata == {[k \in {} |-> <<>>], [k \in {<<7>>} |-> <<0>>],
               [k \in {<<7, 0>>} |-> <<>>], [k \in {<<7>>, <<8>>} |-> <<0, 1>>],
               [k \in {SourceKind} |-> DocumentKind], [k \in {SourcePath} |-> <<Slash>>],
               [k \in {SourceKind} |-> EmailKind],
               [k \in {SourceKind, ArtifactRef, ChunkIndex} |->
                   CASE k = SourceKind -> EmailKind [] k = ArtifactRef -> <<7>>
                     [] k = ChunkIndex -> <<1>>]}
MCMailboxes == {<<Backslash>>}

----------------------------------------------------------------------------
(* Trees: two branches (1 the root, 2) and two leaves (3, 4).  Ways to give *)
(* the second branch up to two children, and for each graph the sound one   *)
(* and the ones with a single defect: a missing block, a level that does    *)
(* not fall, a foreign spec, an entry without length, two alike entries,    *)
(* one that cannot be decoded, an empty leaf; and some with one entry more  *)
(* than the exact heaps hold.                                               *)

MCBlocks == 1 .. 4
MCKids == {[b \in MCBlocks |-> IF b = 1 THEN r ELSE IF b = 2 THEN s ELSE <<>>] :
               r \in {<<2, 3>>, <<3, 2>>, <<2, 2>>, <<1, 3>>},
               s \in {<<>>, <<4>>, <<1, 4>>, <<3, 4>>, <<4, 4>>}}
          \cup {[b \in MCBlocks |-> <<>>]}
Sound == [stored |-> MCBlocks,
          level  |-> <<2, 1, 0, 0>>,
          spec   |-> <<1, 1, 1, 1>>,
          vals   |-> <<<<>>, <<>>, <<1, 4>>, <<2>>>>]
Variants ==
    {Sound} \cup {[Sound EXCEPT !.stored = @ \ {b}] : b \in {1, 2, 4}}
    \cup {[Sound EXCEPT !.level[2] = 2], [Sound EXCEPT !.spec[4] = 2]}
    \cup {[Sound EXCEPT !.vals[4] = v] : v \in {<<0, 2>>, <<2, 2>>, <<100>>, <<>>}}
    \cup {[Sound EXCEPT !.vals[3] = <<0>>, !.vals[4] = <<0>>]}
Crowded == [Sound EXCEPT !.vals[4] = <<7, 2>>]
MCGraphs ==
    {v[1] @@ [kids |-> v[2], leaf |-> <<FALSE, FALSE, TRUE, TRUE>>,
              acyclic |-> 1 \notin Range(v[2][1]) \cup Range(v[2][2])] :
        v \in Variants \X MCKids \cup {Crowded} \X {k \in MCKids : k[2] = <<4>>}}
MCBytes == <<3, 2, 4, 1>>
MCSpread == <<2, 3, 1, 2>>
MCKey(id) == (id[1] * 7 + id[2] * 5) % 11

RestingGraph == CHOOSE s \in MCGraphs : TRUE
RestingItem == CHOOSE x \in AskedItems : TRUE

----------------------------------------------------------------------------
ContentInit ==
    /\ part \in {"mail", "keys", "quality"}
    /\ IF part = "mail" THEN MailInit ELSE MailStart(<<>>)
    /\ IF part = "keys" THEN KeysInit ELSE KeysStart([i \in 1 .. 2 |-> RestingItem])
    /\ IF part = "quality" THEN QualityInit ELSE QualityStart(RestingGraph, 2, FALSE)

MailRuns == part = "mail" /\ UNCHANGED <<part, keysVars, qualityVars>>
KeysRun == part = "keys" /\ UNCHANGED <<part, mailVars, qualityVars>>
QualityRuns == part = "quality" /\ UNCHANGED <<part, mailVars, keysVars>>

ContentNext ==
    \/ MailRuns /\ MailNext
    \/ KeysRun /\ KeysNext
    \/ QualityRuns /\ QualityNext

\* The assessment is one thread that nothing blocks; the others need no fairness.
ContentSpec ==
    /\ ContentInit /\ [][ContentNext]_contentVars
    /\ WF_contentVars(QualityRuns /\ AssessStep)
=============================================================================
