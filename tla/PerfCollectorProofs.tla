------------------------- MODULE PerfCollectorProofs -------------------------
(***************************************************************************)
(* Proofs about the PerfCollector wrapper, for every set of metrics,       *)
(* samples, scales and nsamples bound allowed by PerfAssumption.           *)
(*                                                                         *)
(* query() reads metric i's samples at xrange(indices[i], indices[i] +     *)
(* lengths[i]) of the flat array; the collector puts them exactly there.   *)
(* So each record query() builds holds that metric's retained samples,     *)
(* and, since the collector lists every metric asked for once, a query of  *)
(* every metric returns one record per configured metric.  The second      *)
(* half needs a counting argument: an injective list of Cardinality(S)     *)
(* elements of a finite set S lists all of S.                              *)
(***************************************************************************)
EXTENDS PerfCollector, FiniteSetTheorems, TLAPS

\* The renderings of a sample, and the records query() may return.
Rendering == [fixed : BOOLEAN, whole : Int, cents : 0..99, space : BOOLEAN]

Record ==
    [name : Metrics, scale : Scales, values : Seq(Samples),
     display : Seq(Rendering)]

\* TypeOK, with data a function on the metrics (Collect updates data[m]
\* with EXCEPT, which changes nothing outside DOMAIN data).
IInv ==
    /\ TypeOK
    /\ data \in [Metrics -> Seq(Samples)]

-----------------------------------------------------------------------------
(* Lemmas on the operators.                                                *)

\* A sequence is the function on its indices, and a function on 1..n is a
\* sequence of length n.
LEMMA SeqEta ==
    ASSUME NEW S, NEW s \in Seq(S)
    PROVE  s = [k \in 1..Len(s) |-> s[k]]
OBVIOUS

LEMMA FunSeq ==
    ASSUME NEW S, NEW n \in Nat, NEW f \in [1..n -> S]
    PROVE  f \in Seq(S) /\ Len(f) = n
OBVIOUS

\* Rendering a sample (the '%d %s' or '%.2f%s' branch) gives a rendering.
LEMMA RenderTyped ==
    ASSUME NEW v \in Samples, NEW sc \in Scales
    PROVE  Render(v, sc) \in Rendering
<1>1. v \in Nat /\ sc \in Nat \ {0}
    BY PerfAssumption
<1>2. v \div sc \in Int
    BY <1>1
<1>3. QED
    BY <1>1, <1>2 DEF Render, Rendering

\* An ordering of a finite set S is a list of length Cardinality(S) that
\* lists every element of S.
LEMMA OrderingFacts ==
    ASSUME NEW S, IsFiniteSet(S), NEW names \in Orderings(S)
    PROVE  /\ names \in Seq(S)
           /\ Len(names) = Cardinality(S)
           /\ DOMAIN names = 1..Len(names)
           /\ {names[i] : i \in DOMAIN names} = S
<1> DEFINE n == Cardinality(S)
<1>1. n \in Nat
    BY FS_CardinalityType
<1>2. names \in [1..n -> S] /\ names \in Injection(1..n, S)
    BY <1>1 DEF Orderings, Injection, IsInjective
<1>3. Cardinality(1..n) = n
    BY <1>1, FS_Interval
<1>4. names \in Surjection(1..n, S)
    BY <1>2, <1>3, FS_Injection
<1>5. names \in Seq(S) /\ Len(names) = n
    BY <1>1, <1>2
<1>6. {names[i] : i \in DOMAIN names} = S
    BY <1>2, <1>4 DEF Surjection
<1>7. QED
    BY <1>1, <1>2, <1>5, <1>6

\* A record query() builds from the collector's answer holds, for the i-th
\* metric listed, exactly that metric's retained samples.
LEMMA DecodeSamples ==
    ASSUME NEW names \in Seq(Metrics),
           data \in [Metrics -> Seq(Samples)],
           NEW idx, NEW vals,
           Concatenates(names, vals, idx, Lengths(names)),
           NEW i \in 1..Len(names)
    PROVE  QueryResult(names, vals, idx, Lengths(names))[i].values
             = data[names[i]]
<1> DEFINE len == Lengths(names)
<1>1. len[i] = Len(data[names[i]])
    BY DEF Lengths, len
<1>2. \A k \in 1..len[i] : vals[idx[i] + k] = data[names[i]][k]
    BY DEF Concatenates, len
<1>3. data[names[i]] \in Seq(Samples)
    OBVIOUS
<1>4. QueryResult(names, vals, idx, len)[i].values
        = [k \in 1..len[i] |-> vals[idx[i] + k]]
    BY DEF QueryResult
<1>5. data[names[i]] = [k \in 1..Len(data[names[i]]) |-> data[names[i]][k]]
    BY <1>3, SeqEta
<1>6. QED
    BY <1>1, <1>2, <1>4, <1>5 DEF len

\* Every record query() builds is well typed.
LEMMA QueryResultTyped ==
    ASSUME NEW names \in Seq(Metrics),
           data \in [Metrics -> Seq(Samples)],
           scale \in [Metrics -> Scales],
           NEW idx, NEW vals,
           Concatenates(names, vals, idx, Lengths(names))
    PROVE  QueryResult(names, vals, idx, Lengths(names)) \in Seq(Record)
<1> DEFINE len == Lengths(names)
           res == QueryResult(names, vals, idx, len)
<1>1. ASSUME NEW i \in 1..Len(names)
      PROVE  res[i] \in Record
  <2>1. names[i] \in Metrics /\ scale[names[i]] \in Scales
    OBVIOUS
  <2>3. data[names[i]] \in Seq(Samples)
    OBVIOUS
  <2>2. res[i].values = data[names[i]] /\ data[names[i]] \in Seq(Samples)
    BY <2>3, DecodeSamples DEF res, len
  <2>4. res[i].display
          = [k \in 1..len[i] |-> Render(res[i].values[k], scale[names[i]])]
    BY DEF QueryResult, res
  <2>5. len[i] = Len(data[names[i]])
    BY DEF Lengths, len
  <2>6. \A k \in 1..len[i] : Render(res[i].values[k], scale[names[i]])
                                \in Rendering
    BY <2>1, <2>2, <2>5, RenderTyped
  <2>9. len[i] \in Nat
    BY <2>2, <2>5
  <2>10. res[i].display \in Seq(Rendering)
    BY <2>4, <2>6, <2>9, FunSeq
  <2>7. res[i] = [name |-> names[i], scale |-> scale[names[i]],
                  values |-> res[i].values, display |-> res[i].display]
    BY DEF QueryResult
  <2>8. QED
    BY <2>1, <2>2, <2>10, <2>7 DEF Record
<1>2. res = [i \in 1..Len(names) |-> res[i]]
    BY DEF QueryResult
<1>3. QED
    BY <1>1, <1>2

-----------------------------------------------------------------------------
(* The invariant.                                                          *)

LEMMA InitIInv == Init => IInv
BY PerfAssumption DEF Init, IInv, TypeOK

LEMMA NextIInv == IInv /\ [Next]_vars => IInv'
<1> SUFFICES ASSUME IInv, [Next]_vars PROVE IInv'
    OBVIOUS
<1>1. ASSUME NEW ms \in SUBSET Metrics \ {{}}, NEW n \in 1..MaxSamples,
             Setup(ms, n)
      PROVE  IInv'
    BY <1>1 DEF Setup, IInv, TypeOK
<1>2. ASSUME NEW ms \in SUBSET Metrics, Enable(ms) \/ Disable(ms)
      PROVE  IInv'
    BY <1>2 DEF Enable, Disable, IInv, TypeOK
<1>3. ASSUME NEW m \in Metrics, NEW v \in Samples, Collect(m, v)
      PROVE  IInv'
  <2> DEFINE s == Append(data[m], v)
  <2>1. s \in Seq(Samples)
    BY DEF IInv
  <2>2. (IF Len(s) > nsamples[m] THEN Tail(s) ELSE s) \in Seq(Samples)
    BY <2>1
  <2>3. QED
    BY <1>3, <2>2 DEF Collect, IInv, TypeOK
<1>4. ASSUME Query(Metrics)
      PROVE  IInv'
  <2>1. PICK names \in Orderings(Metrics \cap configured) :
             \E idx \in [1..Len(names) -> Offsets] :
               /\ Layout(names, idx, Lengths(names))
               /\ \E vals \in [1..Total(idx, Lengths(names), Len(names))
                                 -> Samples] :
                     /\ Concatenates(names, vals, idx, Lengths(names))
                     /\ out' = QueryResult(names, vals, idx, Lengths(names))
    BY <1>4 DEF Query
  <2>6. PICK idx :
             \E vals \in [1..Total(idx, Lengths(names), Len(names))
                           -> Samples] :
                /\ Concatenates(names, vals, idx, Lengths(names))
                /\ out' = QueryResult(names, vals, idx, Lengths(names))
    BY <2>1
  <2>7. PICK vals :
             /\ Concatenates(names, vals, idx, Lengths(names))
             /\ out' = QueryResult(names, vals, idx, Lengths(names))
    BY <2>6
  <2>2. IsFiniteSet(Metrics \cap configured)
    BY PerfAssumption, FS_Subset DEF IInv, TypeOK
  <2>3. names \in Seq(Metrics)
    BY <2>2, OrderingFacts
  <2>4. out' \in Seq(Record)
    BY <2>3, <2>7, QueryResultTyped DEF IInv, TypeOK
  <2>5. QED
    BY <1>4, <2>4 DEF Query, IInv, TypeOK, Record, Rendering
<1>5. CASE UNCHANGED vars
    BY <1>5 DEF vars, IInv, TypeOK
<1>6. QED
    BY <1>1, <1>2, <1>3, <1>4, <1>5 DEF Next

-----------------------------------------------------------------------------
(* Theorems.                                                               *)

\* Every reachable state of the collector and of the list query() last
\* returned is well typed: enabled metrics are configured, each metric
\* retains a list of samples, and every record query() built has a
\* configured name, its scale and lists of samples and renderings.
THEOREM TypeCorrect == Spec => []TypeOK
<1>1. Spec => []IInv
    BY InitIInv, NextIInv, PTL DEF Spec
<1>2. QED
    BY <1>1, PTL DEF IInv

\* What a query of every metric returns: one record per configured
\* metric, holding that metric's retained samples.
LEMMA QueryAnswers ==
  ASSUME IInv, Query(Metrics)
  PROVE  /\ {out'[i].name : i \in DOMAIN out'} = configured
         /\ Len(out') = Cardinality(configured)
         /\ \A i \in DOMAIN out' : out'[i].values = data[out'[i].name]
<1>1. Metrics \cap configured = configured
  BY DEF IInv, TypeOK
<1>2. PICK names \in Orderings(configured) :
           \E idx \in [1..Len(names) -> Offsets] :
             /\ Layout(names, idx, Lengths(names))
             /\ \E vals \in [1..Total(idx, Lengths(names), Len(names))
                               -> Samples] :
                   /\ Concatenates(names, vals, idx, Lengths(names))
                   /\ out' = QueryResult(names, vals, idx, Lengths(names))
  BY <1>1 DEF Query
<1>3. PICK idx :
           \E vals \in [1..Total(idx, Lengths(names), Len(names))
                         -> Samples] :
              /\ Concatenates(names, vals, idx, Lengths(names))
              /\ out' = QueryResult(names, vals, idx, Lengths(names))
  BY <1>2
<1>4. PICK vals :
           /\ Concatenates(names, vals, idx, Lengths(names))
           /\ out' = QueryResult(names, vals, idx, Lengths(names))
  BY <1>3
<1>5. IsFiniteSet(configured)
  BY PerfAssumption, FS_Subset DEF IInv, TypeOK
<1>6. /\ names \in Seq(configured)
       /\ Len(names) = Cardinality(configured)
       /\ {names[i] : i \in DOMAIN names} = configured
  BY <1>5, OrderingFacts
<1>7. /\ names \in Seq(Metrics)
      /\ Len(names) = Cardinality(configured)
      /\ {names[i] : i \in DOMAIN names} = configured
  BY <1>6 DEF IInv, TypeOK
<1>8. /\ DOMAIN out' = 1..Len(names)
      /\ \A i \in 1..Len(names) : out'[i].name = names[i]
  BY <1>4 DEF QueryResult
<1>9. out' \in Seq(Record)
  BY <1>4, <1>7, QueryResultTyped DEF IInv, TypeOK
<1>10. Len(out') = Len(names)
  BY <1>7, <1>8, <1>9
<1>11. ASSUME NEW i \in 1..Len(names)
       PROVE  out'[i].values = data[names[i]]
  <2>1. data \in [Metrics -> Seq(Samples)]
    BY DEF IInv
  <2>2. QueryResult(names, vals, idx, Lengths(names))[i].values
          = data[names[i]]
    <3>1. Concatenates(names, vals, idx, Lengths(names))
      BY <1>4
    <3>2. names \in Seq(Metrics)
      BY <1>7
    <3>3. QED
      BY <2>1, <3>1, <3>2, DecodeSamples
  <2>3. QED
    BY <2>2, <1>4
<1>12. QED
  BY <1>7, <1>8, <1>10, <1>11

\* A query of every metric answers every configured metric exactly once,
\* and each record holds exactly that metric's retained samples, in
\* order: query()'s index arithmetic over the flat array neither drops,
\* shifts nor mixes up samples of neighbouring metrics, for every number
\* of metrics and of samples.
THEOREM RetainedSamplesReturned == Spec => QueryReturnsRetainedSamples
<1>1. IInv => [Query(Metrics) =>
                 /\ {out'[i].name : i \in DOMAIN out'} = configured
                 /\ Len(out') = Cardinality(configured)
                 /\ \A i \in DOMAIN out' : out'[i].values = data[out'[i].name]
              ]_vars
    BY QueryAnswers
<1>2. QED
    BY <1>1, InitIInv, NextIInv, PTL DEF Spec, QueryReturnsRetainedSamples

=============================================================================
