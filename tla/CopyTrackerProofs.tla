-------------------------- MODULE CopyTrackerProofs --------------------------
(***************************************************************************)
(* What the operations of the failure tracker (CopyFailureTracker) do to   *)
(* its lists and to the roots it has associated, and a few facts about     *)
(* counting: what the proofs of both copies rest on.                       *)
(***************************************************************************)
EXTENDS CopyFailureTracker, FiniteSetTheorems, TLAPS

-----------------------------------------------------------------------------
(* The lists of the failure tracker, by how often an entry occurs in them. *)

Lists(X) == UNION {[S -> Nat \ {0}] : S \in SUBSET X}

\* A list of no entries, and of one occurrence of each of some entries.
LEMMA SetList ==
    ASSUME NEW X, NEW S \in SUBSET X
    PROVE  /\ SetToBag(S) \in Lists(X)
           /\ \A e : Occurrences(e, SetToBag(S)) = IF e \in S THEN 1 ELSE 0
  BY DEF SetToBag, Lists, Occurrences, BagIn, BagToSet

\* How often an entry occurs is a number, and positive when it is there.
LEMMA OccurrencesType ==
    ASSUME NEW X, NEW B \in Lists(X)
    PROVE  \A e : /\ Occurrences(e, B) \in Nat
                  /\ BagIn(e, B) <=> Occurrences(e, B) > 0
                  /\ BagIn(e, B) <=> e \in DOMAIN B
  BY DEF Lists, Occurrences, BagIn, BagToSet

\* Occurrences add up when a list is extended.
LEMMA JoinedLists ==
    ASSUME NEW X, NEW B \in Lists(X), NEW C \in Lists(X)
    PROVE  /\ B (+) C \in Lists(X)
           /\ \A e : Occurrences(e, B (+) C) = Occurrences(e, B) + Occurrences(e, C)
  BY DEF Lists, Occurrences, BagIn, BagToSet, (+)

-----------------------------------------------------------------------------
(* The operations of the failure tracker. *)

Failures == [root : Blocks, id : Blocks \cup {DestinationStore}, operation : Operations]

Trackers ==
    [block_roots         : [Blocks -> SUBSET Blocks],
     discovered_children : [Blocks -> SUBSET Blocks],
     failure_templates   : [Blocks -> Lists(Operations)],
     failures            : Lists(Failures)]

\* How often an operation on a block was recorded as failed, and how often the
\* report names it for a root.
TimesRecorded(t, b, o)    == Occurrences(o, t.failure_templates[b])
TimesReported(t, r, b, o) == Occurrences(Failure(r, b, o), t.failures)

\* Occurrences in the tracker's lists are numbers, positive for the entries present.
LEMMA CountsType ==
    ASSUME NEW t \in Trackers
    PROVE  /\ \A b \in Blocks : \A o : TimesRecorded(t, b, o) \in Nat
           /\ \A r, b, o : TimesReported(t, r, b, o) \in Nat
           /\ \A b \in Blocks : \A o : BagIn(o, t.failure_templates[b]) <=> TimesRecorded(t, b, o) > 0
           /\ \A r, b, o : BagIn(Failure(r, b, o), t.failures) <=> TimesReported(t, r, b, o) > 0
  <1>1. t.failures \in Lists(Failures) /\ \A b \in Blocks : t.failure_templates[b] \in Lists(Operations)
    BY DEF Trackers
  <1> QED BY <1>1, OccurrencesType DEF TimesRecorded, TimesReported

\* Extending the report by one list.
LEMMA ReportExtended ==
    ASSUME NEW t \in Trackers, NEW t2, NEW more \in Lists(Failures),
           t2.failures = t.failures (+) more
    PROVE  /\ t2.failures \in Lists(Failures)
           /\ \A r, b, o : TimesReported(t2, r, b, o)
                              = TimesReported(t, r, b, o) + Occurrences(Failure(r, b, o), more)
           /\ FailedIds(t) \subseteq FailedIds(t2)
  <1>1. t.failures \in Lists(Failures)
    BY DEF Trackers
  <1>2. /\ t2.failures \in Lists(Failures)
        /\ \A e : Occurrences(e, t2.failures) = Occurrences(e, t.failures) + Occurrences(e, more)
    BY <1>1, JoinedLists
  <1>3. DOMAIN t.failures \subseteq DOMAIN t2.failures
    BY DEF (+)
  <1> QED BY <1>2, <1>3 DEF TimesReported, FailedIds

\* Each recorded block gains one failure of the operation, the others none.
LEMMA RecordEachCounts ==
    ASSUME NEW t \in Trackers, NEW blocks \in SUBSET Blocks, NEW operation \in Operations,
           NEW t2, t2 = RecordEach(t, blocks, operation)
    PROVE  \A b \in Blocks :
              /\ t2.failure_templates[b] \in Lists(Operations)
              /\ \A o : TimesRecorded(t2, b, o) = TimesRecorded(t, b, o)
                            + (IF b \in blocks /\ o = operation THEN 1 ELSE 0)
  <1>1. t2.failure_templates = [b \in Blocks |->
               IF b \in blocks THEN t.failure_templates[b] (+) SetToBag({operation})
                               ELSE t.failure_templates[b]]
    BY DEF RecordEach, Trackers
  <1>2. /\ SetToBag({operation}) \in Lists(Operations)
        /\ \A o : Occurrences(o, SetToBag({operation})) = IF o = operation THEN 1 ELSE 0
    BY SetList
  <1>3. ASSUME NEW b \in Blocks
        PROVE  /\ t2.failure_templates[b] \in Lists(Operations)
               /\ \A o : TimesRecorded(t2, b, o) = TimesRecorded(t, b, o)
                            + (IF b \in blocks /\ o = operation THEN 1 ELSE 0)
    <2>1. t.failure_templates[b] \in Lists(Operations)
      BY DEF Trackers
    <2>2. CASE b \in blocks
      <3>1. t2.failure_templates[b] = t.failure_templates[b] (+) SetToBag({operation})
        BY <1>1, <2>2
      <3> DEFINE old == t.failure_templates[b]
                 one == SetToBag({operation})
      <3>2. old \in Lists(Operations) /\ one \in Lists(Operations)
        BY <1>2, <2>1
      <3>3. \A o : Occurrences(o, one) = IF o = operation THEN 1 ELSE 0
        BY <1>2
      <3> HIDE DEF old, one
      <3>4. /\ old (+) one \in Lists(Operations)
            /\ \A o : Occurrences(o, old (+) one) = Occurrences(o, old) + Occurrences(o, one)
        BY <3>2, JoinedLists
      <3>5. t2.failure_templates[b] = old (+) one
        BY <3>1 DEF old, one
      <3> QED BY <2>2, <3>3, <3>4, <3>5 DEF TimesRecorded, old
    <2>3. CASE b \notin blocks
      BY <1>1, <2>1, <2>3, OccurrencesType DEF TimesRecorded
    <2> QED BY <2>2, <2>3
  <1> QED BY <1>3

\* record: one more failure of that operation on those blocks, reported for each
\* root that is associated already.
LEMMA RecordEachFacts ==
    ASSUME NEW t \in Trackers, NEW blocks \in SUBSET Blocks, NEW operation \in Operations,
           NEW t2, t2 = RecordEach(t, blocks, operation)
    PROVE  /\ t2 \in Trackers
           /\ t2.block_roots = t.block_roots
           /\ t2.discovered_children = t.discovered_children
           /\ \A b \in Blocks, o \in Operations :
                 TimesRecorded(t2, b, o) = TimesRecorded(t, b, o)
                    + (IF b \in blocks /\ o = operation THEN 1 ELSE 0)
           /\ \A r, b \in Blocks, o \in Operations :
                 TimesReported(t2, r, b, o) = TimesReported(t, r, b, o)
                    + (IF b \in blocks /\ o = operation /\ r \in t.block_roots[b] THEN 1 ELSE 0)
           /\ FailedIds(t) \subseteq FailedIds(t2)
  <1> DEFINE entries == {f \in [root : Blocks, id : blocks, operation : {operation}] :
                            f.root \in t.block_roots[f.id]}
  <1>1. /\ t2.block_roots = t.block_roots
        /\ t2.discovered_children = t.discovered_children
        /\ t2.failures = t.failures (+) SetToBag(entries)
        /\ t2.failure_templates = [b \in Blocks |->
               IF b \in blocks THEN t.failure_templates[b] (+) SetToBag({operation})
                               ELSE t.failure_templates[b]]
        /\ t2 = [block_roots |-> t2.block_roots, discovered_children |-> t2.discovered_children,
                 failure_templates |-> t2.failure_templates, failures |-> t2.failures]
    BY DEF RecordEach, Trackers
  <1>2. entries \subseteq Failures
    BY DEF Failures, Failure
  <1>3. \A r, b \in Blocks, o \in Operations :
           Failure(r, b, o) \in entries <=> b \in blocks /\ o = operation /\ r \in t.block_roots[b]
    BY DEF Failure
  <1> HIDE DEF entries
  <1>4. /\ SetToBag(entries) \in Lists(Failures)
        /\ \A e : Occurrences(e, SetToBag(entries)) = IF e \in entries THEN 1 ELSE 0
    BY <1>2, SetList
  <1>5. /\ t2.failures \in Lists(Failures)
        /\ \A r, b, o : TimesReported(t2, r, b, o)
              = TimesReported(t, r, b, o) + (IF Failure(r, b, o) \in entries THEN 1 ELSE 0)
        /\ FailedIds(t) \subseteq FailedIds(t2)
    BY <1>1, <1>4, ReportExtended
  <1>7. ASSUME NEW b \in Blocks
        PROVE  /\ t2.failure_templates[b] \in Lists(Operations)
               /\ \A o : TimesRecorded(t2, b, o) = TimesRecorded(t, b, o)
                            + (IF b \in blocks /\ o = operation THEN 1 ELSE 0)
    BY RecordEachCounts
  <1>8. t2.failure_templates \in [Blocks -> Lists(Operations)]
    BY <1>1, <1>7
  <1>9. t2 \in Trackers
    BY <1>1, <1>5, <1>8 DEF Trackers
  <1> QED BY <1>1, <1>3, <1>5, <1>7, <1>9

\* Recording failures leaves the roots and the children known as they are.
LEMMA RecordEachKeeps ==
    ASSUME NEW t \in Trackers, NEW blocks \in SUBSET Blocks, NEW operation \in Operations
    PROVE  /\ RecordEach(t, blocks, operation) \in Trackers
           /\ RecordEach(t, blocks, operation).block_roots = t.block_roots
           /\ RecordEach(t, blocks, operation).discovered_children = t.discovered_children
  <1>1. PICK t2 : t2 = RecordEach(t, blocks, operation)
    OBVIOUS
  <1>2. t2 \in Trackers
    BY <1>1, RecordEachFacts
  <1>3. t2.block_roots = t.block_roots
    BY <1>1 DEF RecordEach, Trackers
  <1>4. t2.discovered_children = t.discovered_children
    BY <1>1 DEF RecordEach, Trackers
  <1> QED BY <1>1, <1>2, <1>3, <1>4

\* A failure of the destination store is reported under its own id.
LEMMA StoreFailureIs ==
    ASSUME NEW t \in Trackers, NEW roots \in SUBSET Blocks, DestinationStore \notin Blocks,
           NEW t2, t2 = RecordStoreFailure(t, roots, "CompactDestinationStore")
    PROVE  /\ t2 \in Trackers
           /\ t2.block_roots = t.block_roots
           /\ t2.discovered_children = t.discovered_children
           /\ t2.failure_templates = t.failure_templates
           /\ \A r, b \in Blocks, o \in Operations : TimesReported(t2, r, b, o) = TimesReported(t, r, b, o)
           /\ FailedIds(t) \subseteq FailedIds(t2)
           /\ roots # {} => DestinationStore \in FailedIds(t2)
  <1> DEFINE entries == {Failure(r, DestinationStore, "CompactDestinationStore") : r \in roots}
  <1>1. /\ t2.block_roots = t.block_roots
        /\ t2.discovered_children = t.discovered_children
        /\ t2.failure_templates = t.failure_templates
        /\ t2.failures = t.failures (+) SetToBag(entries)
        /\ t2 = [block_roots |-> t2.block_roots, discovered_children |-> t2.discovered_children,
                 failure_templates |-> t2.failure_templates, failures |-> t2.failures]
    BY DEF RecordStoreFailure, Trackers
  <1>2. roots \subseteq Blocks
    OBVIOUS
  <1>3. entries \subseteq Failures
    BY <1>2 DEF Failures, Failure, Operations
  <1>4. \A r, b \in Blocks, o \in Operations : Failure(r, b, o) \notin entries
    BY DEF Failure
  <1>5. \A r \in roots : /\ Failure(r, DestinationStore, "CompactDestinationStore") \in entries
                          /\ Failure(r, DestinationStore, "CompactDestinationStore").id
                                = DestinationStore
    BY DEF Failure
  <1>6. /\ SetToBag(entries) \in Lists(Failures)
        /\ \A e : Occurrences(e, SetToBag(entries)) = IF e \in entries THEN 1 ELSE 0
    BY <1>3, SetList
  <1>7. entries \subseteq DOMAIN t2.failures
    BY <1>1 DEF (+), SetToBag
  <1> HIDE DEF entries
  <1>8. /\ t2.failures \in Lists(Failures)
        /\ \A r, b, o : TimesReported(t2, r, b, o)
              = TimesReported(t, r, b, o) + (IF Failure(r, b, o) \in entries THEN 1 ELSE 0)
        /\ FailedIds(t) \subseteq FailedIds(t2)
    BY <1>1, <1>6, ReportExtended
  <1>9. t2 \in Trackers
    BY <1>1, <1>8 DEF Trackers
  <1>10. \A r, b \in Blocks, o \in Operations : TimesReported(t, r, b, o) \in Nat
    BY CountsType
  <1>11. roots # {} => DestinationStore \in FailedIds(t2)
    BY <1>5, <1>7 DEF FailedIds
  <1> QED BY <1>1, <1>4, <1>8, <1>9, <1>10, <1>11

\* associate_root_with_known_subgraph: the roots reach the starting blocks and,
\* with a block, its known children, and nothing beyond what is closed under that;
\* what failed on a block before is reported for its new roots.
Spreads(t, t2, roots, starts) ==
    /\ \A x \in Blocks : t.block_roots[x] \subseteq t2.block_roots[x]
    /\ \A x \in starts : roots \subseteq t2.block_roots[x]
    /\ \A x \in Blocks : \A r \in t2.block_roots[x] \ t.block_roots[x] :
          /\ r \in roots
          /\ \A c \in t.discovered_children[x] : r \in t2.block_roots[c]
    /\ \A S \in SUBSET Blocks : \A r \in roots :
          starts \subseteq S
          /\ (\A x \in S : r \notin t.block_roots[x] => t.discovered_children[x] \subseteq S)
             => \A x \in Blocks : r \in t2.block_roots[x] \ t.block_roots[x] => x \in S
    /\ \A r, x \in Blocks, o \in Operations :
          TimesReported(t2, r, x, o) = TimesReported(t, r, x, o)
             + (IF r \in t2.block_roots[x] \ t.block_roots[x] THEN TimesRecorded(t, x, o) ELSE 0)

\* What associate_root_with_known_subgraph does is what Spreads says.
LEMMA AssociationSpreads ==
    ASSUME NEW t \in Trackers, NEW roots \in SUBSET Blocks, NEW starts \in SUBSET Blocks,
           NEW t2, t2 = AssociateRoots(t, roots, starts)
    PROVE  /\ t2 \in Trackers
           /\ t2.failure_templates = t.failure_templates
           /\ t2.discovered_children = t.discovered_children
           /\ FailedIds(t) \subseteq FailedIds(t2)
           /\ Spreads(t, t2, roots, starts)
  <1>0. PICK new : new = [r \in roots |-> NewlyReached(t, r, starts)]
    OBVIOUS
  <1>1. /\ t2 \in Trackers
        /\ t2.failure_templates = t.failure_templates
        /\ t2.discovered_children = t.discovered_children
        /\ t2.block_roots = [b \in Blocks |-> t.block_roots[b] \cup {r \in roots : b \in new[r]}]
        /\ \A r, b \in Blocks, o \in Operations :
              TimesReported(t2, r, b, o) = TimesReported(t, r, b, o)
                 + (IF r \in roots /\ b \in new[r] THEN TimesRecorded(t, b, o) ELSE 0)
        /\ FailedIds(t) \subseteq FailedIds(t2)
    <2> DEFINE named   == {f \in [root : roots, id : Blocks, operation : Operations] :
                              /\ f.id \in new[f.root]
                              /\ BagIn(f.operation, t.failure_templates[f.id])}
               report  == [f \in named |-> t.failure_templates[f.id][f.operation]]
    <2>1. /\ t2.failure_templates = t.failure_templates
          /\ t2.discovered_children = t.discovered_children
          /\ t2.block_roots = [b \in Blocks |->
                   t.block_roots[b] \cup {r \in roots : b \in new[r]}]
          /\ t2.failures = t.failures (+) report
          /\ t2 = [block_roots |-> t2.block_roots, discovered_children |-> t2.discovered_children,
                   failure_templates |-> t2.failure_templates, failures |-> t2.failures]
      BY <1>0 DEF AssociateRoots, Trackers
    <2>2. \A b \in Blocks : t.failure_templates[b] \in Lists(Operations)
      BY DEF Trackers
    <2>3. named \in SUBSET Failures
      BY DEF Failures
    <2>4. \A f \in named : t.failure_templates[f.id][f.operation] \in Nat \ {0}
      BY <2>2 DEF Lists, BagIn, BagToSet
    <2>5. \A r, b \in Blocks, o \in Operations :
             /\ Failure(r, b, o) \in named <=> /\ r \in roots /\ b \in new[r]
                                              /\ BagIn(o, t.failure_templates[b])
             /\ Failure(r, b, o).id = b /\ Failure(r, b, o).operation = o
      BY DEF Failure
    <2> HIDE DEF named
    <2>6. report \in Lists(Failures)
      BY <2>3, <2>4 DEF Lists
    <2>7. ASSUME NEW r \in Blocks, NEW b \in Blocks, NEW o \in Operations
          PROVE  Occurrences(Failure(r, b, o), report)
                    = IF r \in roots /\ b \in new[r] THEN TimesRecorded(t, b, o) ELSE 0
      BY <2>5, <2>7 DEF Occurrences, TimesRecorded, BagIn, BagToSet
    <2> HIDE DEF report
    <2>8. /\ t2.failures \in Lists(Failures)
          /\ \A r, b, o : TimesReported(t2, r, b, o)
                = TimesReported(t, r, b, o) + Occurrences(Failure(r, b, o), report)
          /\ FailedIds(t) \subseteq FailedIds(t2)
      BY <2>1, <2>6, ReportExtended
    <2>9. t2.block_roots \in [Blocks -> SUBSET Blocks]
      BY <2>1 DEF Trackers
    <2>10. t2 \in Trackers
      BY <2>1, <2>8, <2>9 DEF Trackers
    <2> QED BY <2>1, <2>7, <2>8, <2>10
  <1>2. \A r \in roots : \A b \in new[r] : b \in Blocks /\ r \notin t.block_roots[b]
    BY <1>0 DEF NewlyReached
  <1>3. ASSUME NEW r \in roots, NEW x \in starts PROVE r \in t.block_roots[x] \/ x \in new[r]
    BY <1>0 DEF NewlyReached
  <1>4. ASSUME NEW r \in roots, NEW x \in new[r], NEW c \in t.discovered_children[x]
        PROVE  r \in t.block_roots[c] \/ c \in new[r]
    <2>1. c \in Blocks
      BY <1>2 DEF Trackers
    <2> QED BY <1>0, <2>1 DEF NewlyReached
  <1>5. ASSUME NEW r \in roots, NEW S \in SUBSET Blocks, starts \subseteq S,
               \A x \in S : r \notin t.block_roots[x] => t.discovered_children[x] \subseteq S,
               NEW x \in new[r]
        PROVE  x \in S
    BY <1>0, <1>5 DEF NewlyReached
  <1>6. \A r, x \in Blocks : r \in t2.block_roots[x] \ t.block_roots[x] <=> r \in roots /\ x \in new[r]
    BY <1>1, <1>2
  <1>7. \A x \in Blocks : t2.block_roots[x] \subseteq Blocks
    BY <1>1 DEF Trackers
  <1>8. \A x \in Blocks : t.block_roots[x] \subseteq t2.block_roots[x]
    BY <1>1
  <1>9. \A x \in starts : roots \subseteq t2.block_roots[x]
    BY <1>1, <1>3
  <1>10. ASSUME NEW x \in Blocks, NEW r \in t2.block_roots[x] \ t.block_roots[x]
         PROVE  r \in roots /\ \A c \in t.discovered_children[x] : r \in t2.block_roots[c]
    <2>1. r \in roots /\ x \in new[r]
      BY <1>6, <1>7
    <2>2. \A c \in t.discovered_children[x] : c \in Blocks
      BY DEF Trackers
    <2> QED BY <1>1, <1>4, <2>1, <2>2
  <1>11. ASSUME NEW S \in SUBSET Blocks, NEW r \in roots, starts \subseteq S,
                \A x \in S : r \notin t.block_roots[x] => t.discovered_children[x] \subseteq S,
                NEW x \in Blocks, r \in t2.block_roots[x] \ t.block_roots[x]
         PROVE  x \in S
    BY <1>5, <1>6, <1>11
  <1>12. \A r, x \in Blocks, o \in Operations :
            TimesReported(t2, r, x, o) = TimesReported(t, r, x, o)
               + (IF r \in t2.block_roots[x] \ t.block_roots[x] THEN TimesRecorded(t, x, o) ELSE 0)
    BY <1>1, <1>6
  <1> QED BY <1>1, <1>8, <1>9, <1>10, <1>11, <1>12 DEF Spreads

\* remember_children sets the children, then associates the block's roots.
LEMMA RememberFacts ==
    ASSUME NEW t \in Trackers, NEW b \in Blocks, NEW children \in SUBSET Blocks,
           NEW t2, t2 = RememberChildren(t, b, children)
    PROVE  \E t1 \in Trackers :
              /\ t1.block_roots = t.block_roots
              /\ t1.failure_templates = t.failure_templates /\ t1.failures = t.failures
              /\ t1.discovered_children = [t.discovered_children EXCEPT ![b] = children]
              /\ t2 \in Trackers
              /\ t2.failure_templates = t.failure_templates
              /\ t2.discovered_children = t1.discovered_children
              /\ FailedIds(t) \subseteq FailedIds(t2)
              /\ Spreads(t1, t2, t.block_roots[b], children)
  <1> DEFINE t1 == [t EXCEPT !.discovered_children[b] = children]
  <1>1. /\ t1 \in Trackers
        /\ t1.block_roots = t.block_roots
        /\ t1.failure_templates = t.failure_templates /\ t1.failures = t.failures
        /\ t1.discovered_children = [t.discovered_children EXCEPT ![b] = children]
    BY DEF Trackers
  <1>2. t.block_roots[b] \in SUBSET Blocks
    BY DEF Trackers
  <1>3. t2 = AssociateRoots(t1, t.block_roots[b], children)
    BY DEF RememberChildren
  <1> HIDE DEF t1
  <1>4. /\ t2 \in Trackers
        /\ t2.failure_templates = t1.failure_templates
        /\ t2.discovered_children = t1.discovered_children
        /\ FailedIds(t1) \subseteq FailedIds(t2)
        /\ Spreads(t1, t2, t.block_roots[b], children)
    BY <1>1, <1>2, <1>3, AssociationSpreads
  <1>5. FailedIds(t1) = FailedIds(t)
    BY <1>1 DEF FailedIds
  <1> QED BY <1>1, <1>4, <1>5

\* note_block_root associates one root with one block.
LEMMA NoteFacts ==
    ASSUME NEW t \in Trackers, NEW r \in Blocks, NEW b \in Blocks,
           NEW t2, t2 = NoteBlockRoot(t, r, b)
    PROVE  \E roots, starts \in SUBSET Blocks :
              /\ roots = {r} /\ starts = {b}
              /\ t2 \in Trackers
              /\ t2.failure_templates = t.failure_templates
              /\ t2.discovered_children = t.discovered_children
              /\ FailedIds(t) \subseteq FailedIds(t2)
              /\ Spreads(t, t2, roots, starts)
  <1>1. PICK roots, starts : roots = {r} /\ starts = {b}
    OBVIOUS
  <1>2. /\ roots \in SUBSET Blocks /\ starts \in SUBSET Blocks /\ t \in Trackers
        /\ t2 = AssociateRoots(t, roots, starts)
    BY <1>1 DEF NoteBlockRoot
  <1>3. t2 \in Trackers /\ Spreads(t, t2, roots, starts)
    BY <1>2, AssociationSpreads
  <1>4. /\ t2.failure_templates = t.failure_templates
        /\ t2.discovered_children = t.discovered_children
    BY <1>2, AssociationSpreads
  <1>5. FailedIds(t) \subseteq FailedIds(t2)
    BY <1>2, AssociationSpreads
  <1> QED BY <1>1, <1>2, <1>3, <1>4, <1>5

\* A report that is complete stays so when roots spread.
LEMMA SpreadReports ==
    ASSUME NEW t1, NEW t2, NEW roots, NEW starts, Spreads(t1, t2, roots, starts),
           t1 \in Trackers, t2.failure_templates = t1.failure_templates,
           \A r, b \in Blocks, o \in Operations :
              TimesReported(t1, r, b, o) = IF r \in t1.block_roots[b] THEN TimesRecorded(t1, b, o) ELSE 0
    PROVE  \A r, b \in Blocks, o \in Operations :
              TimesReported(t2, r, b, o) = IF r \in t2.block_roots[b] THEN TimesRecorded(t2, b, o) ELSE 0
  <1> SUFFICES ASSUME NEW r \in Blocks, NEW b \in Blocks, NEW o \in Operations
               PROVE  TimesReported(t2, r, b, o) = IF r \in t2.block_roots[b] THEN TimesRecorded(t2, b, o) ELSE 0
    OBVIOUS
  <1>1. TimesRecorded(t2, b, o) = TimesRecorded(t1, b, o)
    BY DEF TimesRecorded
  <1>2. TimesRecorded(t1, b, o) \in Nat
    BY CountsType
  <1>3. TimesReported(t2, r, b, o) = TimesReported(t1, r, b, o)
             + (IF r \in t2.block_roots[b] \ t1.block_roots[b] THEN TimesRecorded(t1, b, o) ELSE 0)
    BY DEF Spreads
  <1>4. t1.block_roots[b] \subseteq t2.block_roots[b]
    BY DEF Spreads
  <1>5. TimesReported(t1, r, b, o) = IF r \in t1.block_roots[b] THEN TimesRecorded(t1, b, o) ELSE 0
    OBVIOUS
  <1> QED BY <1>1, <1>2, <1>3, <1>4, <1>5

\* A new tracker knows nothing.
LEMMA NewTrackerFacts ==
    /\ NewTracker \in Trackers
    /\ \A b \in Blocks : /\ NewTracker.block_roots[b] = {}
                         /\ NewTracker.discovered_children[b] = {}
                         /\ \A o : TimesRecorded(NewTracker, b, o) = 0
    /\ \A r, b, o : TimesReported(NewTracker, r, b, o) = 0
    /\ FailedIds(NewTracker) = {}
  <1>1. \A X : EmptyBag \in Lists(X)
    <2> TAKE X
    <2>1. EmptyBag \in [{} -> Nat \ {0}] /\ {} \in SUBSET X
      BY DEF EmptyBag, SetToBag
    <2> QED BY <2>1 DEF Lists
  <1>2. DOMAIN EmptyBag = {}
    BY DEF EmptyBag, SetToBag
  <1>3. NewTracker \in Trackers
    BY <1>1 DEF NewTracker, Trackers
  <1>4. /\ \A b \in Blocks : /\ NewTracker.block_roots[b] = {}
                             /\ NewTracker.discovered_children[b] = {}
                             /\ NewTracker.failure_templates[b] = EmptyBag
        /\ NewTracker.failures = EmptyBag
    BY DEF NewTracker
  <1>5. \A e : Occurrences(e, EmptyBag) = 0
    BY <1>2 DEF Occurrences, BagIn, BagToSet
  <1> QED BY <1>2, <1>3, <1>4, <1>5 DEF TimesRecorded, TimesReported, FailedIds

-----------------------------------------------------------------------------
(* Counting. *)

\* A set keeps its size or shrinks when nothing is added to it.
LEMMA NoMore ==
    ASSUME NEW S, NEW T, IsFiniteSet(S), T \subseteq S
    PROVE  Cardinality(T) \in Nat /\ Cardinality(S) \in Nat /\ Cardinality(T) <= Cardinality(S)
  <1>1. IsFiniteSet(T) /\ Cardinality(T) <= Cardinality(S)
    BY FS_Subset
  <1> QED BY <1>1, FS_CardinalityType

\* A set that gains one element.
LEMMA OneMore ==
    ASSUME NEW S, NEW x, x \notin S, IsFiniteSet(S), NEW T, T = S \cup {x}
    PROVE  Cardinality(S) \in Nat /\ Cardinality(T) = Cardinality(S) + 1
  BY FS_AddElement, FS_CardinalityType

\* A set that loses one element.
LEMMA OneLess ==
    ASSUME NEW S, NEW x \in S, IsFiniteSet(S), NEW T, T = S \ {x}
    PROVE  Cardinality(S) \in Nat /\ Cardinality(T) \in Nat /\ Cardinality(S) = Cardinality(T) + 1
  <1>1. IsFiniteSet(T) /\ Cardinality(T) = Cardinality(S) - 1
    BY FS_RemoveElement
  <1> QED BY <1>1, FS_CardinalityType

\* The blocks at the positions of a batch are as many as the positions.
LEMMA OneToOne ==
    ASSUME NEW f, NEW S, IsFiniteSet(S), \A i, j \in S : f[i] = f[j] => i = j,
           NEW T, T = {f[i] : i \in S}
    PROVE  IsFiniteSet(T) /\ Cardinality(T) = Cardinality(S)
  <1>1. PICK g : g = [i \in S |-> f[i]]
    OBVIOUS
  <1>2. g \in [S -> T]
    BY <1>1
  <1>3. \A i, j \in S : g[i] = g[j] => i = j
    BY <1>1
  <1>4. \A t \in T : \E i \in S : g[i] = t
    BY <1>1
  <1>5. g \in Bijection(S, T)
    BY <1>2, <1>3, <1>4 DEF Bijection, Injection, IsInjective, Surjection
  <1> QED BY <1>5, FS_Bijection DEF ExistsBijection
=============================================================================
