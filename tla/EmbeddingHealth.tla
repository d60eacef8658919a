--------------------------- MODULE EmbeddingHealth ---------------------------
(***************************************************************************)
(* The embedding-health part of a clustering failure's diagnostics         *)
(* (runtime.rs, build_embedding_health_diagnostics).  The inputs of the    *)
(* failed attempt are looked up one by one, in order; counts, component    *)
(* sums and one observation per input are kept, and from them the repeated *)
(* groups and a small sample of suspicious inputs are made.                *)
(*                                                                         *)
(* An input is what looking it up gives: a failure, or a vector.  A vector *)
(* is its own fingerprint.  Components are small integers, so a variance   *)
(* is zero or not exactly; the norms are left out.                         *)
(***************************************************************************)
EXTENDS Naturals, Sequences, SequencesExt, FiniteSets, FiniteSetsExt

CONSTANTS
    Vectors,    \* decodable finite embeddings, all of the same dimension
    MaxInputs,  \* bound: inputs of the attempt
    Limit       \* SUSPICIOUS_INPUT_SAMPLE_LIMIT

ASSUME EmbeddingHealthAssumption ==
    /\ MaxInputs \in Nat /\ Limit \in Nat \ {0}
    /\ \A v, w \in Vectors : Len(v) = Len(w)

VARIABLES
    inputs,         \* what the lookup of each input gives
    seen,           \* inputs looked up
    observations,   \* what the report is made from
    counts,         \* the counters
    sums,           \* component_sums and component_square_sums
    report          \* the groups and the sample, once they are made

healthVars == <<inputs, seen, observations, counts, sums, report>>

\* Lookups that give no usable vector.  An input that cannot be resolved counts
\* as missing; the two last have bytes, hence a fingerprint.
Unusable == {<<"unresolved">>, <<"missing">>, <<"lookup_error">>, <<"undecodable">>, <<"non_finite">>}
Inputs == Unusable \cup Vectors
Dims == IF Vectors = {} THEN {} ELSE DOMAIN (CHOOSE v \in Vectors : TRUE)
IsZero(v) == \A d \in DOMAIN v : v[d] = 0
NoReport == [made |-> FALSE]

HealthStart(given) ==
    /\ inputs = given
    /\ seen = 0 /\ observations = <<>>
    /\ counts = [available |-> 0, missing |-> 0, lookup_error |-> 0, undecodable |-> 0,
                 non_finite |-> 0, zero |-> 0, finite |-> 0]
    /\ sums = [d \in Dims |-> [sum |-> 0, squares |-> 0]]
    /\ report = NoReport

HealthInit == \E given \in UNION {[1..n -> Inputs] : n \in 0..MaxInputs} : HealthStart(given)

\* The counters an input raises.
Counters(input) ==
    CASE input \in {<<"unresolved">>, <<"missing">>} -> {"missing"}
      [] input = <<"lookup_error">> -> {"lookup_error"}
      [] input = <<"undecodable">> -> {"available", "undecodable"}
      [] input = <<"non_finite">> -> {"available", "non_finite"}
      [] OTHER -> {"available", "finite"} \cup (IF IsZero(input) THEN {"zero"} ELSE {})

\* Every way out of the loop's body pushes an observation.
Observed(input) == <<input>>

\* One input of the attempt.
Observe ==
    /\ seen < Len(inputs)
    /\ seen' = seen + 1
    /\ LET input == inputs[seen + 1]
       IN /\ observations' = observations \o Observed(input)
          /\ counts' = [c \in DOMAIN counts |-> IF c \in Counters(input) THEN counts[c] + 1 ELSE counts[c]]
          /\ sums' = IF input \notin Vectors THEN sums
                     ELSE [d \in Dims |-> [sum |-> sums[d].sum + input[d],
                                           squares |-> sums[d].squares + input[d] * input[d]]]
    /\ UNCHANGED <<inputs, report>>

\* fingerprint_counts: of the finite vectors only.
Occurrences(v) == Cardinality({i \in DOMAIN observations : observations[i] = v})
Repeated == {v \in Vectors : Occurrences(v) > 1}

\* non_zero_variance_dimension_count: n * sum of squares > square of the sum.
SpreadDims == {d \in Dims : counts.finite * sums[d].squares > sums[d].sum * sums[d].sum}
Collapsed == counts.finite > 0 /\ Cardinality(SpreadDims) <= 1

\* The reasons to suspect an observed input; a collapsed population is only one
\* when there is no other.
OwnReasons(o) ==
    CASE o \in {<<"unresolved">>, <<"missing">>} -> {"missing-embedding"}
      [] o = <<"lookup_error">> -> {"embedding-lookup-error"}
      [] o = <<"undecodable">> -> {"undecodable-embedding"}
      [] o = <<"non_finite">> -> {"non-finite-embedding"}
      [] OTHER -> (IF IsZero(o) THEN {"zero-vector"} ELSE {})
                  \cup (IF o \in Repeated THEN {"repeated-embedding"} ELSE {})

Reasons(o) ==
    IF OwnReasons(o) = {} /\ Collapsed /\ o \in Vectors THEN {"collapsed-variance-population"}
    ELSE OwnReasons(o)

FirstFew(s) == SubSeq(s, 1, IF Len(s) < Limit THEN Len(s) ELSE Limit)

\* The positions, in order, of the observations of a set.
Where(S) == SelectSeq([i \in DOMAIN observations |-> i], LAMBDA i : observations[i] \in S)

\* The zip of inputs and observations: the sample stops when it is full, and
\* with it the sample of lookup errors.
SuspiciousSample == FirstFew(Where({o \in Range(observations) : Reasons(o) # {}}))
LookupErrorSample ==
    LET last == IF Len(SuspiciousSample) = Limit THEN Last(SuspiciousSample) ELSE Len(observations)
    IN FirstFew(SelectSeq(Where({<<"lookup_error">>}), LAMBDA i : i <= last))

\* top_repeated_embedding_groups: by count, largest first, then by fingerprint.
GroupOrder == CHOOSE s \in SetToSeqs(Repeated) :
    \A i \in 1..(Len(s) - 1) : Occurrences(s[i]) >= Occurrences(s[i + 1])
TopGroups ==
    [i \in 1..Len(FirstFew(GroupOrder)) |->
        [embedding |-> GroupOrder[i], count |-> Occurrences(GroupOrder[i]),
         sample |-> FirstFew(Where({GroupOrder[i]}))]]

MakeReport ==
    /\ seen = Len(inputs) /\ ~report.made
    /\ report' = [made |-> TRUE,
                  groups |-> TopGroups,
                  unique |-> Cardinality({v \in Vectors : Occurrences(v) > 0}),
                  repeated |-> MapThenSumSet(LAMBDA v : Occurrences(v) - 1, Repeated),
                  suspicious |-> [k \in DOMAIN SuspiciousSample |->
                                    [input |-> SuspiciousSample[k],
                                     reasons |-> Reasons(observations[SuspiciousSample[k]])]],
                  errors |-> LookupErrorSample]
    /\ UNCHANGED <<inputs, seen, observations, counts, sums>>

HealthNext == Observe \/ MakeReport
HealthSpec == HealthInit /\ [][HealthNext]_healthVars

----------------------------------------------------------------------------
(* Properties, against what the inputs themselves say.                      *)

\* Two finite inputs differ in this dimension.
Differ(d) == \E i, j \in DOMAIN inputs :
    inputs[i] \in Vectors /\ inputs[j] \in Vectors /\ inputs[i][d] # inputs[j][d]

Suspect(i) ==
    \/ inputs[i] \in Unusable
    \/ IsZero(inputs[i])
    \/ \E j \in DOMAIN inputs \ {i} : inputs[j] = inputs[i]
    \/ Cardinality({d \in Dims : Differ(d)}) <= 1

\* Every input is counted once at each level of the breakdown, and the distinct
\* and the repeated finite embeddings make up all of them.
CountsAddUp ==
    /\ counts.missing + counts.lookup_error + counts.available = seen
    /\ counts.available = counts.undecodable + counts.non_finite + counts.finite
    /\ report.made => report.unique + report.repeated = counts.finite

\* The sample names suspicious inputs only, the first ones of the attempt, as
\* many as there are or as fit: an observation is never put down to another
\* input than its own.
SampleTruthful ==
    report.made =>
        LET suspects == {i \in DOMAIN inputs : Suspect(i)}
            sample == {report.suspicious[k].input : k \in DOMAIN report.suspicious}
        IN /\ sample \subseteq suspects
           /\ Cardinality(sample) = Min({Limit, Cardinality(suspects)})
           /\ \A i \in sample, j \in suspects \ sample : i < j
           /\ \A k \in DOMAIN report.errors : inputs[report.errors[k]] = <<"lookup_error">>

\* The groups listed are the most frequent of the repeated embeddings, with
\* their true counts, and the inputs named for a group have its embedding.
TopGroupsTruthful ==
    report.made =>
        /\ \A g \in DOMAIN report.groups :
            LET group == report.groups[g]
                members == {i \in DOMAIN inputs : inputs[i] = group.embedding}
            IN group.count = Cardinality(members) /\ ToSet(group.sample) \subseteq members
        /\ \A v \in Vectors : \A g \in DOMAIN report.groups :
            (\A h \in DOMAIN report.groups : report.groups[h].embedding # v) =>
                Cardinality({i \in DOMAIN inputs : inputs[i] = v}) <= report.groups[g].count

\* The health report is the one of the inputs of the attempt
\* (build_embedding_health_diagnostics).
HealthSound == CountsAddUp /\ SampleTruthful /\ TopGroupsTruthful
=============================================================================
