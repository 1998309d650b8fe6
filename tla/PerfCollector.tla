--------------------------- MODULE PerfCollector ---------------------------
(***************************************************************************)
(* The PerfCollector wrapper of vboxshell.py over IPerformanceCollector.   *)
(*                                                                         *)
(* setup, enable and disable forward to the service's collector, whose     *)
(* documented effect (discard the samples, keep at most nsamples of them,  *)
(* collect while enabled) is the state below.  query() receives the        *)
(* collector's answer as parallel arrays -- every metric's samples         *)
(* concatenated in one flat array, with an index and a length per metric  *)
(* -- and rebuilds one record per metric: its samples, and its samples     *)
(* rendered for printing.  Numbers keep Python 2 semantics: int/int is     *)
(* floor division.                                                         *)
(***************************************************************************)
EXTENDS Integers, Sequences, FiniteSets

CONSTANTS
    Metrics,     \* metric names the collector offers (model values)
    Samples,     \* raw sample values a metric may take
    Scales,      \* scale divisors the collector reports
    MaxSamples   \* largest nsamples passed to setup

ASSUME PerfAssumption ==
    /\ Samples \subseteq Nat
    /\ Scales \subseteq Nat \ {0}
    /\ MaxSamples \in Nat \ {0}
    /\ IsFiniteSet(Metrics)

VARIABLES
    configured,  \* metrics set up (setupMetrics)
    enabled,     \* metrics being collected
    nsamples,    \* samples retained per metric
    data,        \* data[m]: the retained samples of m, oldest first
    scale,       \* the collector's scale divisor of each metric
    out          \* the list the last query() returned

vars == <<configured, enabled, nsamples, data, scale, out>>

-----------------------------------------------------------------------------
(* The collector's answer and query()'s rebuilding of it.                  *)

\* The 0-based offsets the collector may report (overridden for TLC).
Offsets == Nat

\* The lengths queryMetricsData reports: each metric's retained samples.
Lengths(names) == [i \in 1..Len(names) |-> Len(data[names[i]])]

\* The length of the flat values array: where the last metric's run ends.
Total(idx, len, n) == IF n = 0 THEN 0 ELSE idx[n] + len[n]

\* queryMetricsData's answer for the metrics in the order `names`: metric i
\* has len[i] samples and starts at 0-based offset idx[i] of the flat
\* array, right after metric i - 1 ...
Layout(names, idx, len) ==
    \A i \in 1..Len(names) :
        idx[i] = IF i = 1 THEN 0 ELSE idx[i - 1] + len[i - 1]

\* ... and the flat array vals holds there the samples of that metric.
Concatenates(names, vals, idx, len) ==
    \A i \in 1..Len(names) : \A k \in 1..len[i] :
        vals[idx[i] + k] = data[names[i]][k]

\* '%d %s' when scale is 1, else '%.2f%s' of int/scale: the integer part,
\* two decimals, and whether a space separates the unit.
Render(v, sc) ==
    IF sc # 1
    THEN [fixed |-> TRUE, whole |-> v \div sc, cents |-> 0, space |-> FALSE]
    ELSE [fixed |-> FALSE, whole |-> v, cents |-> 0, space |-> TRUE]

\* Mutant: xrange(indices[i], indices[i] + lengths[i] - 1).
QueryResultDropLast(names, vals, idx, len) ==
    LET samplesOf(i) == [k \in 1..len[i] - 1 |-> vals[idx[i] + k]]
    IN [i \in 1..Len(names) |->
          [name    |-> names[i],
           scale   |-> scale[names[i]],
           values  |-> samplesOf(i),
           display |-> [k \in 1..len[i] - 1 |->
                          Render(samplesOf(i)[k], scale[names[i]])]]]

\* The records query() builds from the arrays (xrange(indices[i],
\* indices[i] + lengths[i]) over the flat values).
QueryResult(names, vals, idx, len) ==
    LET samplesOf(i) == [k \in 1..len[i] |-> vals[idx[i] + k]]
    IN [i \in 1..Len(names) |->
          [name    |-> names[i],
           scale   |-> scale[names[i]],
           values  |-> samplesOf(i),
           display |-> [k \in 1..len[i] |->
                          Render(samplesOf(i)[k], scale[names[i]])]]]

-----------------------------------------------------------------------------
Init ==
    /\ configured = {}
    /\ enabled = {}
    /\ nsamples = [m \in Metrics |-> 0]
    /\ data = [m \in Metrics |-> <<>>]
    /\ scale \in [Metrics -> Scales]
    /\ out = <<>>

\* Mutant: setup replaces the configured set instead of adding to it.
SetupReplaces(ms, n) ==
    /\ configured' = ms
    /\ enabled' = enabled \cup ms
    /\ nsamples' = [m \in Metrics |-> IF m \in ms THEN n ELSE nsamples[m]]
    /\ data' = [m \in Metrics |-> IF m \in ms THEN <<>> ELSE data[m]]
    /\ UNCHANGED <<scale, out>>

\* setup(names, objects, period, nsamples): discard the samples of the
\* metrics, keep nsamples of them from now on, enable them.
Setup(ms, n) ==
    /\ configured' = configured \cup ms
    /\ enabled' = enabled \cup ms
    /\ nsamples' = [m \in Metrics |-> IF m \in ms THEN n ELSE nsamples[m]]
    /\ data' = [m \in Metrics |-> IF m \in ms THEN <<>> ELSE data[m]]
    /\ UNCHANGED <<scale, out>>

\* enable/disable: collection resumes or stops, parameters are kept.
Enable(ms) ==
    /\ enabled' = enabled \cup (ms \cap configured)
    /\ UNCHANGED <<configured, nsamples, data, scale, out>>

Disable(ms) ==
    /\ enabled' = enabled \ ms
    /\ UNCHANGED <<configured, nsamples, data, scale, out>>

\* The collector samples an enabled metric; the oldest sample beyond
\* nsamples is dropped.
Collect(m, v) ==
    /\ m \in enabled
    /\ LET s == Append(data[m], v)
       IN data' = [data EXCEPT ![m] =
                     IF Len(s) > nsamples[m] THEN Tail(s) ELSE s]
    /\ UNCHANGED <<configured, enabled, nsamples, scale, out>>

\* The orders in which the collector may list the metrics of S.
Orderings(S) ==
    {f \in [1..Cardinality(S) -> S] :
        \A j, k \in DOMAIN f : f[j] = f[k] => j = k}

\* query(names, objects): queryMetricsData answers for the configured
\* metrics among ms, in the order the collector chooses, and query()
\* rebuilds the records from the flat arrays.
Query(ms) ==
    /\ \E names \in Orderings(ms \cap configured) :
         LET len == Lengths(names) IN
         \E idx \in [1..Len(names) -> Offsets] :
            /\ Layout(names, idx, len)
            /\ \E vals \in [1..Total(idx, len, Len(names)) -> Samples] :
                  /\ Concatenates(names, vals, idx, len)
                  /\ out' = QueryResult(names, vals, idx, len)
    /\ UNCHANGED <<configured, enabled, nsamples, data, scale>>

\* The shell passes ['*'] to query (guestStats, hostCmd) and to setup.
Next ==
    \/ \E ms \in SUBSET Metrics \ {{}}, n \in 1..MaxSamples : Setup(ms, n)
    \/ \E ms \in SUBSET Metrics : Enable(ms) \/ Disable(ms)
    \/ Query(Metrics)
    \/ \E m \in Metrics, v \in Samples : Collect(m, v)

Spec == Init /\ [][Next]_vars

-----------------------------------------------------------------------------
(* Properties.                                                             *)

TypeOK ==
    /\ configured \subseteq Metrics
    /\ enabled \subseteq configured
    /\ nsamples \in [Metrics -> 0..MaxSamples]
    /\ \A m \in Metrics : data[m] \in Seq(Samples)
    /\ scale \in [Metrics -> Scales]
    /\ out \in Seq([name : Metrics, scale : Scales, values : Seq(Samples),
                    display : Seq([fixed : BOOLEAN, whole : Int,
                                   cents : 0..99, space : BOOLEAN])])

\* query(['*']) answers every configured metric exactly once, and each
\* record holds exactly that metric's retained samples, in order: the
\* index arithmetic over the flat array neither drops, shifts nor mixes up
\* samples of neighbouring metrics.
QueryReturnsRetainedSamples ==
    [][Query(Metrics) =>
         /\ {out'[i].name : i \in DOMAIN out'} = configured
         /\ Len(out') = Cardinality(configured)
         /\ \A i \in DOMAIN out' : out'[i].values = data[out'[i].name]
      ]_vars

\* Hundredths of v / sc, rounded half up.
Hundredths(v, sc) == (200 * v + sc) \div (2 * sc)

\* Spec 4.1 and 8: a scaled metric is shown as its value divided by the
\* scale with two decimals, followed by a space and the unit
\* (scale 100, value 250 -> "2.50 <unit>").
DisplayShowsScaledValue ==
    \A i \in DOMAIN out : \A k \in DOMAIN out[i].display :
        LET d == out[i].display[k]
        IN /\ d.whole * 100 + d.cents = Hundredths(out[i].values[k], out[i].scale)
           /\ d.space

=============================================================================
