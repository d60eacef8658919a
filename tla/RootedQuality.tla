---------------------------- MODULE RootedQuality ----------------------------
(***************************************************************************)
(* The rooted tree assessment (crates/lexonarchivebuilder-indexer/src/     *)
(* quality.rs): a depth-first walk of everything the root reaches, which   *)
(* collects findings, counts and a bounded sample of the leaf entries; a   *)
(* second walk for the exact neighbours of the sample; one search per      *)
(* sampled entry; and, instead of all that, the fast mode, which samples by*)
(* random walks from the root.                                             *)
(*                                                                         *)
(* The stored blocks are a graph chosen at the start: the assessment only  *)
(* reads.  The code does not rely on the graph having no cycle in the full *)
(* walk; a random walk does, so the fast mode starts on acyclic graphs     *)
(* (blocks are named by their hash).  An embedding is a number, 0 being a  *)
(* vector without length and Bad one that cannot be decoded; two entries   *)
(* are the nearer the closer their numbers are.  The hash that orders the  *)
(* sample is the constant KeyOf, the hash that steers a random walk is a   *)
(* free choice.                                                            *)
(***************************************************************************)
EXTENDS Integers, Sequences, FiniteSets, FiniteSetsExt, SequencesExt, Functions

CONSTANTS
    Blocks, Root, \* block ids, and the root that is assessed
    Graphs,       \* the stored graphs considered
    SampleSizes,  \* requested sample sizes
    MaxExact,     \* MAX_EXACT_NEIGHBORS
    RecallAt,     \* REQUIRED_RECALL_AT
    WalkFactor,   \* random walks tried for each requested sample (32)
    Window,       \* RTT_CWND_BYTES
    BytesOf,      \* size of each block
    SpreadOf,     \* mean centroid distance of each block
    KeyOf(_)      \* sample_key of a neighbour id

Bad == 100

ASSUME QualityAssumption ==
    /\ IsFiniteSet(Blocks) /\ Blocks \subseteq Nat /\ Root \in Blocks
    /\ Graphs \subseteq [kids : [Blocks -> Seq(Blocks)], leaf : [Blocks -> BOOLEAN],
                         stored : SUBSET Blocks, level : [Blocks -> Nat],
                         spec : [Blocks -> Nat], vals : [Blocks -> Seq(Nat)],
                         acyclic : BOOLEAN]
    /\ \A s \in Graphs : \A b \in Blocks : \A i \in DOMAIN s.vals[b] :
          KeyOf(<<b, s.vals[b][i]>>) \in Nat
    /\ SampleSizes \subseteq Nat /\ BytesOf \in [Blocks -> Nat]
    /\ MaxExact \in Nat \ {0} /\ Window \in Nat \ {0} /\ WalkFactor \in Nat \ {0}
    /\ RecallAt \subseteq 1 .. MaxExact /\ MaxExact \in RecallAt

VARIABLES
    g,         \* the stored graph: kids, leaf, stored, level, spec, vals
    size,      \* requested sample size
    fast,      \* fast_random_walk
    doing,        \* what the assessment is doing
    interrupt, \* the operator has pressed Ctrl-C
    t,         \* TraversalState
    stack,     \* the recursion: blocks entered and the next entry of each
    todo, seen,\* second walk: blocks still to read, blocks read
    queries,   \* the sampled entries, in order
    exact,     \* exact neighbours of each query (the bounded heaps)
    answers,   \* one record per answered query
    walk,      \* random walk: current block and attempts made
    report     \* what was returned

qualityVars == <<g, size, fast, doing, interrupt, t, stack, todo, seen, queries, exact,
          answers, walk, report>>

NoReport == [result |-> "none"]

\* An entry of a leaf as corpus_entry_from_leaf_result builds it: the id is a
\* hash over the leaf and the entry, so two alike entries of a leaf share it.
Corpus(b, v) == [id |-> <<b, v>>, val |-> v]

LeafVals(b) == g.vals[b]
Usable(b) ==
    FoldLeft(LAMBDA es, v : IF v = 0 THEN es ELSE Append(es, Corpus(b, v)), <<>>, LeafVals(b))

\* block_metrics: a leaf's entry that cannot be decoded makes the assessment fail.
Decodes(b) == g.leaf[b] => Bad \notin Range(LeafVals(b))

----------------------------------------------------------------------------
\* The bounded heaps.

SampleBefore(a, b) == KeyOf(a.id) < KeyOf(b.id)

\* The comparison of two neighbours of a query: nearest first, then leaf id,
\* then neighbour id.
Distance(a, b) == IF a.val >= b.val THEN a.val - b.val ELSE b.val - a.val
Nearer(q, a, b) ==
    \/ Distance(q, a) < Distance(q, b)
    \/ Distance(q, a) = Distance(q, b) /\ a.id[1] < b.id[1]
    \/ Distance(q, a) = Distance(q, b) /\ a.id[1] = b.id[1] /\ a.id[2] < b.id[2]

\* A heap is kept as its elements in order; peek is the last of them.
InsertBy(s, x, Before(_, _)) ==
    LET n == Cardinality({i \in DOMAIN s : ~Before(x, s[i])})
    IN  SubSeq(s, 1, n) \o <<x>> \o SubSeq(s, n + 1, Len(s))

\* For mutants: the capacity is tested without looking at the worst element.
PushFirstCome(heap, x, cap, Before(_, _)) ==
    IF Len(heap) < cap THEN InsertBy(heap, x, Before) ELSE heap

PushBounded(heap, x, cap, Before(_, _)) ==
    IF Len(heap) < cap \/ (heap # <<>> /\ Before(x, Last(heap)))
    THEN InsertBy(IF Len(heap) = cap THEN Front(heap) ELSE heap, x, Before)
    ELSE heap

PushBoundedSample(heap, x) == PushBounded(heap, x, size, SampleBefore)

----------------------------------------------------------------------------
\* The first walk.

Finding(kind, b, p) == [kind |-> kind, block |-> b, parent |-> p]

\* Mutant: once the sample is full, no entry enters it any more.
CollectFirstCome(s, b) ==
    [s EXCEPT
       !.corpus = @ + Len(Usable(b)),
       !.zero   = @ \/ 0 \in Range(LeafVals(b)),
       !.sample = FoldLeft(LAMBDA h, e : PushFirstCome(h, e, size, SampleBefore),
                           @, Usable(b))]

CollectCorpusEntries(s, b) ==
    [s EXCEPT
       !.corpus = @ + Len(Usable(b)),
       !.zero   = @ \/ 0 \in Range(LeafVals(b)),
       !.sample = FoldLeft(PushBoundedSample, @, Usable(b))]

EntryFindings(b, p) ==
    (IF g.level[b] >= g.level[p]
     THEN <<Finding("ChildLevelNotLowerThanParent", b, p)>> ELSE <<>>)
    \o (IF g.spec[b] # g.spec[p]
        THEN <<Finding("EmbeddingSpecMismatch", b, p)>> ELSE <<>>)

\* traverse_block up to its loop over the entries; p is empty for the root.
EnterBlock(s, b, p, d) ==
    LET entered == [s EXCEPT
                      !.depth    = Max({@, d}),
                      !.visited  = @ \cup {b},
                      !.blocks   = Append(@, b),
                      !.findings = @ \o (IF p = <<>> THEN <<>>
                                         ELSE EntryFindings(b, p[1]))]
    IN  IF g.leaf[b] THEN CollectCorpusEntries(entered, b) ELSE entered

Fail(why) ==
    /\ doing' = "done"
    /\ report' = [result |-> why]
    /\ UNCHANGED <<g, size, fast, interrupt, t, stack, todo, seen, queries,
                   exact, answers, walk>>

EmptyTraversal == [blocks |-> <<>>, findings |-> <<>>, kids |-> [b \in Blocks |-> <<>>],
                   visited |-> {}, sample |-> <<>>, corpus |-> 0, zero |-> FALSE,
                   edges |-> 0, depth |-> 0]

QualityStart(stored, samples, walks) ==
    /\ g = stored /\ size = samples /\ fast = walks
    /\ doing = "start" /\ interrupt = FALSE
    /\ t = EmptyTraversal
    /\ stack = <<>> /\ todo = <<>> /\ seen = {}
    /\ queries = <<>> /\ exact = <<>> /\ answers = <<>>
    /\ walk = [at |-> Root, tried |-> 0]
    /\ report = NoReport

QualityInit ==
    \E stored \in Graphs, samples \in SampleSizes, walks \in BOOLEAN :
        /\ walks => stored.acyclic
        /\ QualityStart(stored, samples, walks)

\* The command's Ctrl-C handler.
CtrlC ==
    /\ ~interrupt /\ doing # "done"
    /\ interrupt' = TRUE
    /\ UNCHANGED <<g, size, fast, doing, t, stack, todo, seen, queries, exact,
                   answers, walk, report>>

\* assess_rooted_tree_with_config up to the traversal.
Refused ==
    /\ doing = "start" /\ ~interrupt
    /\ \/ size = 0 /\ Fail("sample_size")
       \/ size # 0 /\ Root \notin g.stored /\ Fail("missing_root")
       \/ size # 0 /\ Root \in g.stored /\ ~Decodes(Root) /\ ~fast
          /\ Fail("undecodable")

StartTraversal ==
    /\ doing = "start" /\ ~interrupt /\ size # 0 /\ Root \in g.stored
    /\ ~fast /\ Decodes(Root)
    /\ doing' = "traverse"
    /\ t' = EnterBlock(t, Root, <<>>, 0)
    /\ stack' = <<[b |-> Root, i |-> 1]>>
    /\ UNCHANGED <<g, size, fast, interrupt, todo, seen, queries, exact,
                   answers, walk, report>>

StartWalk ==
    /\ doing = "start" /\ ~interrupt /\ size # 0 /\ Root \in g.stored /\ fast
    /\ doing' = "walk"
    /\ UNCHANGED <<g, size, fast, interrupt, t, stack, todo, seen, queries,
                   exact, answers, walk, report>>

Ancestry == {stack[i].b : i \in DOMAIN stack}
Frame == Last(stack)
HasEntry == stack # <<>> /\ Frame.i <= Len(g.kids[Frame.b])
Child == g.kids[Frame.b][Frame.i]

\* Mutant: only the ancestors are known, not the blocks of other branches.
EdgeDefectUnshared(c) ==
    IF c \in Ancestry THEN "CycleDetected"
    ELSE IF c \notin g.stored THEN "MissingChildBlock"
    ELSE "none"

\* What handle_child_entry finds about an edge, in the order of its tests.
EdgeDefect(c) ==
    IF c \in Ancestry THEN "CycleDetected"
    ELSE IF c \in t.visited THEN "SharedChildReference"
    ELSE IF c \notin g.stored THEN "MissingChildBlock"
    ELSE "none"

CountEdge(c) == 1

HandleChildEntry ==
    /\ doing = "traverse" /\ ~interrupt /\ HasEntry
    /\ LET c    == Child
           p    == Frame.b
           next == [stack EXCEPT ![Len(stack)].i = @ + 1]
           edge == [t EXCEPT !.edges = @ + CountEdge(c)]
       IN  \/ /\ EdgeDefect(c) # "none"
              /\ t' = [edge EXCEPT !.findings = Append(@, Finding(EdgeDefect(c), c, p))]
              /\ stack' = next
              /\ UNCHANGED <<doing, report>>
           \/ /\ EdgeDefect(c) = "none" /\ Decodes(c)
              /\ t' = EnterBlock([edge EXCEPT !.kids[p] = Append(@, c)], c, <<p>>,
                                 Len(stack))
              /\ stack' = Append(next, [b |-> c, i |-> 1])
              /\ UNCHANGED <<doing, report>>
           \/ /\ EdgeDefect(c) = "none" /\ ~Decodes(c)
              /\ doing' = "done" /\ report' = [result |-> "undecodable"]
              /\ UNCHANGED <<t, stack>>
    /\ UNCHANGED <<g, size, fast, interrupt, todo, seen, queries, exact,
                   answers, walk>>

\* The end of traverse_block's loop: ancestry.pop().
LeaveBlock ==
    /\ doing = "traverse" /\ stack # <<>> /\ ~HasEntry
    /\ stack' = Front(stack)
    /\ doing' = IF Len(stack) = 1 THEN "recall" ELSE "traverse"
    /\ UNCHANGED <<g, size, fast, interrupt, t, todo, seen, queries, exact,
                   answers, walk, report>>

----------------------------------------------------------------------------
\* The report's tables.

\* The sum of the values of a function.
Total(f) == FoldFunction(+, 0, f)

\* sibling_distances_by_layer: the pairs of siblings on a level.
SiblingPairs(s, l) ==
    LET on(p) == {i \in DOMAIN s.kids[p] : g.level[s.kids[p][i]] = l}
    IN  Total([p \in Blocks |-> Cardinality({ij \in on(p) \X on(p) : ij[1] < ij[2]})])

\* build_layer_metrics: per level, its blocks and the pairs of siblings on it.
Layers(s) ==
    [l \in {g.level[b] : b \in s.visited} |->
        [blocks |-> Cardinality({b \in s.visited : g.level[b] = l}),
         pairs  |-> SiblingPairs(s, l)]]

\* build_split_metrics: the children of a parent that spread wider than it.
Splits(s) ==
    [p \in {b \in Blocks : s.kids[b] # <<>>} |->
        [children  |-> Len(s.kids[p]),
         exceeding |-> Cardinality({i \in DOMAIN s.kids[p] :
                           SpreadOf[s.kids[p][i]] > SpreadOf[p]})]]

Summary(s) ==
    [blocks |-> Len(s.blocks), edges |-> s.edges, depth |-> s.depth,
     leaves |-> Cardinality({b \in s.visited : g.leaf[b]}),
     findings |-> s.findings, layers |-> Layers(s), splits |-> Splits(s)]

----------------------------------------------------------------------------
\* The recall report.

SpecMismatch(s) ==
    \E i \in DOMAIN s.findings : s.findings[i].kind = "EmbeddingSpecMismatch"

CanComputeRecall(s) == s.corpus >= 2 /\ ~SpecMismatch(s) /\ ~s.zero

MaxK == Min({MaxExact, t.corpus - 1})

ZeroedRecall ==
    /\ doing = "recall" /\ ~CanComputeRecall(t)
    /\ doing' = "done"
    /\ report' = [result |-> "report", summary |-> Summary(t), recall |-> [scored |-> FALSE]]
    /\ UNCHANGED <<g, size, fast, interrupt, t, stack, todo, seen, queries,
                   exact, answers, walk>>

StartRecall ==
    /\ doing = "recall" /\ CanComputeRecall(t)
    /\ doing' = "exact"
    /\ queries' = t.sample
    /\ exact' = [i \in DOMAIN t.sample |-> <<>>]
    /\ todo' = <<Root>>
    /\ UNCHANGED <<g, size, fast, interrupt, t, stack, seen, answers, walk, report>>

\* score_exact_batch: every entry of the leaf against every query but itself.
ScoreEntry(q, heap, e) ==
    IF e.id = q.id THEN heap
    ELSE PushBounded(heap, e, MaxExact, LAMBDA a, b : Nearer(q, a, b))

ScoreEntries(q, heap, entries) == FoldLeft(LAMBDA h, e : ScoreEntry(q, h, e), heap, entries)

ScoreBatch(heaps, entries) ==
    [q \in DOMAIN heaps |-> ScoreEntries(queries[q], heaps[q], entries)]

\* collect_exact_neighbors_from_block, one block a step.
CollectExact ==
    /\ doing = "exact" /\ ~interrupt /\ todo # <<>>
    /\ LET b == Head(todo)
           fresh == b \notin seen /\ b \in g.stored
       IN  /\ seen' = seen \cup {b}
           /\ todo' = (IF fresh THEN g.kids[b] ELSE <<>>) \o Tail(todo)
           /\ exact' = IF fresh /\ g.leaf[b] THEN ScoreBatch(exact, Usable(b)) ELSE exact
    /\ UNCHANGED <<g, size, fast, doing, interrupt, t, stack, queries, answers,
                   walk, report>>

ExactDone ==
    /\ doing = "exact" /\ todo = <<>>
    /\ doing' = "search"
    /\ UNCHANGED <<g, size, fast, interrupt, t, stack, todo, seen, queries,
                   exact, answers, walk, report>>

\* What the search library may return for a query: some entries of the
\* reachable leaves, nearest first, at most `n` of them.
LeafEntries ==
    {Corpus(e[1], e[2]) : e \in UNION {{b} \X (Range(LeafVals(b)) \ {0}) :
                                         b \in {c \in g.stored : g.leaf[c]}}}
Ranked(q, S) ==
    SetToSortSeq(S, LAMBDA a, b : Nearer(q, a, b))

\* The blocks the search reads through the counting store: those between the
\* root and the leaves of its hits.
Above(b) == {p \in g.stored : b \in Range(g.kids[p])}
Touched(hits) ==
    LET ls == {e.id[1] : e \in hits} IN  {Root} \cup ls \cup UNION {Above(l) : l \in ls}

\* estimate_rtts over the bytes of each level of a query.
LevelBytes(bs, l) == Total([b \in {c \in bs : g.level[c] = l} |-> BytesOf[b]])
Rtts(bs, l) == (LevelBytes(bs, l) + Window - 1) \div Window
LevelsOf(bs) == {g.level[b] : b \in bs}

\* approximate_neighbors: the query itself is dropped, then the first k kept.
Neighbors(q, hits, k) ==
    LET others == SelectSeq(Ranked(q, hits), LAMBDA e : e.id # q.id)
    IN  SubSeq(others, 1, Min({k, Len(others)}))

Take(s, k) == SubSeq(s, 1, Min({k, Len(s)}))
IdsOf(s) == {s[i].id : i \in DOMAIN s}

Matched(ex, approx, k) ==
    Min({Cardinality({i \in DOMAIN Take(ex, k) : ex[i].id \in IdsOf(Take(approx, k))}),
         Len(Take(ex, k))})

Answer(q, hits, k) ==
    [query   |-> q.id,
     approx  |-> Neighbors(q, hits, k),
     touched |-> Touched(hits)]

NextQuery == queries[Len(answers) + 1]

SearchQuery ==
    /\ doing = "search" /\ (fast \/ ~interrupt) /\ Len(answers) < Len(queries)
    /\ \E hits \in SUBSET LeafEntries :
          /\ Cardinality(hits) <= (IF fast THEN MaxExact ELSE MaxK) + 1
          /\ answers' = Append(answers,
                               Answer(NextQuery, hits, IF fast THEN MaxExact ELSE MaxK))
    /\ UNCHANGED <<g, size, fast, doing, interrupt, t, stack, todo, seen, queries,
                   exact, walk, report>>

\* An embedding that does not fit the root's spec, a hit without length, a
\* block that cannot be read: the search's error ends the assessment.
SearchFails ==
    /\ doing = "search" /\ (fast \/ ~interrupt) /\ Len(answers) < Len(queries)
    /\ Fail("search")

TouchedInAll == Cardinality(UNION {answers[i].touched : i \in DOMAIN answers})

\* summarize_query_accesses.
AccessSummary ==
    LET all == UNION {answers[i].touched : i \in DOMAIN answers}
    IN  [touched |-> TouchedInAll,
         rtts    |-> Total([i \in DOMAIN answers |->
                        Total([l \in LevelsOf(answers[i].touched) |->
                                  Rtts(answers[i].touched, l)])]),
         levels  |-> [l \in LevelsOf(all) |->
                        [touched |-> Cardinality({b \in all : g.level[b] = l}),
                         rtts |-> Total([i \in DOMAIN answers |->
                                            Rtts(answers[i].touched, l)])]]]

\* recalls_by_k and tnn_recall_metrics: matched counts and their denominator.
RecallRows ==
    [k \in RecallAt |->
        [denominator |-> Min({k, t.corpus - 1}),
         matched |-> [i \in DOMAIN answers |-> Matched(exact[i], answers[i].approx, k)]]]

Finish ==
    /\ doing = "search" /\ Len(answers) = Len(queries)
    /\ doing' = "done"
    /\ report' = IF fast
                 THEN [result |-> "report", recall |-> [scored |-> TRUE],
                       sampled |-> Len(queries), access |-> AccessSummary]
                 ELSE [result |-> "report", summary |-> Summary(t), access |-> AccessSummary,
                       recall |-> [scored |-> TRUE, rows |-> RecallRows]]
    /\ UNCHANGED <<g, size, fast, interrupt, t, stack, todo, seen, queries,
                   exact, answers, walk>>

----------------------------------------------------------------------------
\* The fast mode.

\* Mutant: a walk that ended without a sample does not count as an attempt.
NextWalkFreeMisses(got) ==
    /\ walk' = [at |-> Root, tried |-> walk.tried + Len(got)]
    /\ queries' = IF got # <<>> /\ got[1].id \notin IdsOf(queries)
                  THEN queries \o got ELSE queries
    /\ doing' = IF walk.tried + Len(got) >= size * WalkFactor \/ Len(queries') >= size
             THEN "search" ELSE "walk"

NextWalk(got) ==
    /\ walk' = [at |-> Root, tried |-> walk.tried + 1]
    /\ queries' = IF got # <<>> /\ got[1].id \notin IdsOf(queries)
                  THEN queries \o got ELSE queries
    /\ doing' = IF walk.tried + 1 >= size * WalkFactor \/ Len(queries') >= size
             THEN "search" ELSE "walk"

WalkUnchanged ==
    UNCHANGED <<g, size, fast, interrupt, t, stack, todo, seen, exact, answers>>

\* A branch: the walk goes on in one of its children, or fails on a missing one.
WalkDown ==
    /\ doing = "walk" /\ ~interrupt /\ ~g.leaf[walk.at]
    /\ \E c \in Range(g.kids[walk.at]) :
          \/ /\ c \in g.stored
             /\ walk' = [walk EXCEPT !.at = c]
             /\ UNCHANGED <<doing, report>>
          \/ /\ c \notin g.stored
             /\ doing' = "done" /\ report' = [result |-> "missing_child"]
             /\ UNCHANGED walk
    /\ WalkUnchanged /\ UNCHANGED queries

\* A leaf: one of its entries, unless it has no length.
WalkEnds ==
    /\ doing = "walk" /\ ~interrupt /\ g.leaf[walk.at]
    /\ \E v \in Range(LeafVals(walk.at)) :
          \/ /\ v = Bad
             /\ doing' = "done" /\ report' = [result |-> "undecodable"]
             /\ UNCHANGED <<walk, queries>>
          \/ /\ v # Bad
             /\ NextWalk(IF v = 0 THEN <<>> ELSE <<Corpus(walk.at, v)>>)
             /\ UNCHANGED report
    /\ WalkUnchanged

\* A block without entries ends the walk.
WalkEmpty ==
    /\ doing = "walk" /\ ~interrupt
    /\ IF g.leaf[walk.at] THEN LeafVals(walk.at) = <<>> ELSE g.kids[walk.at] = <<>>
    /\ NextWalk(<<>>)
    /\ WalkUnchanged /\ UNCHANGED report

\* interrupt::check_for_interrupt: made at the start, for each entry, block and query
\* of the full assessment and at every step of a random walk, but for no query of the
\* fast mode, and not while a report is put together.
Interrupted ==
    /\ interrupt
    /\ \/ doing \in {"start", "walk"}
       \/ doing = "traverse" /\ HasEntry
       \/ doing = "exact" /\ todo # <<>>
       \/ /\ doing = "search"
          /\ IF fast THEN answers = <<>> /\ walk.tried < size * WalkFactor
             ELSE Len(answers) < Len(queries)
    /\ Fail("interrupted")

\* The store cannot read a block, or a branch holds an embedding that cannot be
\* reconstructed.
BlockUnreadable ==
    /\ ~interrupt
    /\ \/ doing = "start" /\ size # 0
       \/ doing = "traverse" /\ HasEntry /\ EdgeDefect(Child) \in {"none", "MissingChildBlock"}
       \/ doing = "exact" /\ todo # <<>> /\ Head(todo) \notin seen
       \/ doing = "walk" /\ ~g.leaf[walk.at] /\ g.kids[walk.at] # <<>>
    /\ Fail("unreadable")

AssessStep ==
    \/ Interrupted \/ BlockUnreadable \/ Refused \/ StartTraversal \/ StartWalk
    \/ HandleChildEntry \/ LeaveBlock
    \/ ZeroedRecall \/ StartRecall \/ CollectExact \/ ExactDone
    \/ SearchQuery \/ SearchFails \/ Finish
    \/ WalkDown \/ WalkEnds \/ WalkEmpty

QualityNext == CtrlC \/ AssessStep

\* The assessment is one thread that nothing blocks: it keeps taking steps.
QualitySpec == QualityInit /\ [][QualityNext]_qualityVars /\ WF_qualityVars(AssessStep)

----------------------------------------------------------------------------
\* Properties.

Reported == report.result = "report"
FullReport == Reported /\ ~fast

\* What the root reaches through stored blocks, by definition.
ReachStep(S) == S \cup (g.stored \cap UNION {Range(g.kids[b]) : b \in S})
Reachable == LET R[n \in 0 .. Cardinality(Blocks)] ==
                    IF n = 0 THEN {Root} ELSE ReachStep(R[n - 1])
             IN  R[Cardinality(Blocks)]
EdgesFrom(S) == UNION {{p} \X (DOMAIN g.kids[p]) : p \in S}
EdgesInto(S, c) == {e \in EdgesFrom(S) : g.kids[e[1]][e[2]] = c}

IsSoundTree ==
    /\ EdgesInto(Reachable, Root) = {}
    /\ \A e \in EdgesFrom(Reachable) :
          LET c == g.kids[e[1]][e[2]]
          IN  /\ c \in g.stored
              /\ Cardinality(EdgesInto(Reachable, c)) = 1
              /\ g.level[c] < g.level[e[1]] /\ g.spec[c] = g.spec[e[1]]

\* A full report has no finding exactly when what the root reaches is a tree of
\* stored blocks with falling levels and one embedding spec
\* (traverse_block, handle_child_entry).
FindingsTellATree == FullReport => (report.summary.findings = <<>> <=> IsSoundTree)

\* A full report counts every reachable block once and every edge out of one
\* once, and every edge is either the one that entered its child or a finding
\* (traverse_block's edge_count, blocks, child_ids_by_parent).
ReportAddsUp ==
    FullReport =>
        LET s == report.summary
            defects == {i \in DOMAIN s.findings : s.findings[i].kind \in
                {"CycleDetected", "SharedChildReference", "MissingChildBlock"}}
            layered == Total([l \in DOMAIN s.layers |-> s.layers[l].blocks])
            split   == Total([p \in DOMAIN s.splits |-> s.splits[p].children])
        IN  /\ s.blocks = Cardinality(Reachable) /\ layered = s.blocks
            /\ s.edges = Cardinality(EdgesFrom(Reachable))
            /\ s.edges = split + Cardinality(defects) /\ split = s.blocks - 1

\* The sample is the requested number of entries with the smallest keys among
\* all reachable ones: the order of the walk does not show
\* (push_bounded_sample, selected_corpus_sample).
ReachableLeaves == {b \in Reachable : g.leaf[b]}
Entries == UNION {{<<b, i>> : i \in DOMAIN Usable(b)} : b \in ReachableLeaves}
SampleIsSmallest ==
    doing \in {"recall", "exact"} =>
        /\ Len(t.sample) = Min({size, Cardinality(Entries)})
        /\ \A x \in Entries :
              LET e == Usable(x[1])[x[2]]
              IN  \/ e \in Range(t.sample)
                  \/ \A i \in DOMAIN t.sample : KeyOf(t.sample[i].id) <= KeyOf(e.id)

\* After the second walk each query has the nearest other entries of the
\* corpus, at most MaxExact of them (collect_exact_neighbors, score_exact_batch).
OtherEntries(q) == {x \in Entries : Usable(x[1])[x[2]].id # queries[q].id}
ExactAreNearest ==
    doing = "search" /\ ~fast =>
        \A q \in DOMAIN queries :
            /\ Len(exact[q]) = Min({MaxExact, Cardinality(OtherEntries(q))})
            /\ \A x \in OtherEntries(q) :
                  LET e == Usable(x[1])[x[2]]
                  IN  \/ e \in Range(exact[q])
                      \/ ~\E i \in DOMAIN exact[q] : Nearer(queries[q], e, exact[q][i])

\* Recall is computed only over entries that have the spec the search is made
\* with, the root's (has_embedding_spec_mismatch, approximate_neighbors).
ScoredCorpusIsComparable ==
    doing \in {"exact", "search"} /\ ~fast =>
        \A b \in ReachableLeaves : g.spec[b] = g.spec[Root]

NoTwins == \A x, y \in Entries :
    x # y => Usable(x[1])[x[2]].id # Usable(y[1])[y[2]].id

\* No query scores above its denominator, and one whose search found its
\* nearest neighbours in full scores it exactly, unless a leaf holds two alike
\* entries (build_corpus_tnn_recall_report).
RecallIsAFraction ==
    FullReport /\ report.recall.scored =>
        \A k \in RecallAt :
            LET row == report.recall.rows[k]
            IN  \A i \in DOMAIN row.matched :
                   /\ row.matched[i] <= row.denominator
                   /\ NoTwins /\ Take(answers[i].approx, k) = Take(exact[i], k)
                         => row.matched[i] = row.denominator

\* The summary counts a block once however many queries read it, and its levels
\* add up to its totals (summarize_query_accesses).
AccessesAddUp ==
    Reported /\ report.recall.scored =>
        LET a == report.access
        IN  /\ a.touched = Total([l \in DOMAIN a.levels |-> a.levels[l].touched])
            /\ a.rtts = Total([l \in DOMAIN a.levels |-> a.levels[l].rtts])

\* An assessment that got past its first checks ends, on a cyclic graph and on
\* one whose leaves give the random walks nothing (traverse_block,
\* sample_random_walk_queries).
AssessmentEnds == doing # "start" ~> doing = "done"

\* The report of a tree is about the graph below its root, whatever its shape
\* (traverse_block, summarize_query_accesses).
TreeReportSound == FindingsTellATree /\ ReportAddsUp /\ AccessesAddUp

\* The recall is measured on what it claims: a sample that does not depend on the
\* walk, the true neighbours, comparable entries and a reachable denominator
\* (push_bounded_sample, score_exact_batch, build_corpus_tnn_recall_report).
RecallSound ==
    SampleIsSmallest /\ ExactAreNearest /\ ScoredCorpusIsComparable /\ RecallIsAFraction
=============================================================================
