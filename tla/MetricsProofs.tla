---------------------------- MODULE MetricsProofs ---------------------------
(***************************************************************************)
(* Proofs about Metrics and the labels of RequestLatency, for any          *)
(* goroutines, metrics, backends, labels, requests and answers; and, in    *)
(* the last section, about the counting of Events.                         *)
(*                                                                         *)
(* Typed, AgreeInv and CountInv are the inductive invariants of Metrics.   *)
(* The agreement of the backends is proved one series at a time, from what *)
(* a series sees of the calls, the vectors and the logs; the counting of   *)
(* requests by sums over the callers and over the requests made.           *)
(***************************************************************************)
EXTENDS Metrics, Events, WellFoundedInduction, FiniteSetTheorems, SequenceTheorems, TLAPS

-----------------------------------------------------------------------------
(* Sums.                                                                   *)

\* A set of natural numbers has a least element.
LEMMA Least ==
    ASSUME NEW T \in SUBSET Nat, T # {}
    PROVE  \E x \in T : \A y \in T : x <= y
<1>1. PICK x \in T : \A y \in T : ~(<<y, x>> \in OpToRel(<, Nat))
  BY NatLessThanWellFounded, WFMin
<1>2. \A y \in T : ~(y < x)
  BY <1>1 DEF OpToRel
<1> QED
  BY <1>2

\* Induction up to a bound, for a property given as the set of those that
\* have it.
LEMMA UpTo ==
    ASSUME NEW b \in Nat, NEW P, 0 \in P,
           \A n \in 1 .. b : n - 1 \in P => n \in P
    PROVE  b \in P
<1> DEFINE T == {n \in 0 .. b : n \notin P}
<1> SUFFICES ASSUME b \notin P PROVE FALSE
  OBVIOUS
<1>1. T \in SUBSET Nat /\ b \in T
  OBVIOUS
<1>2. PICK m \in T : \A y \in T : m <= y
  BY <1>1, Least
<1>3. m \in 1 .. b /\ m - 1 \notin T
  BY <1>2
<1> QED
  BY <1>3

\* The sums of the first elements of a sequence of length N.
Running(g, s, N) ==
    /\ g \in [0 .. N -> Int]
    /\ g[0] = 0
    /\ \A n \in 1 .. N : g[n] = g[n - 1] + s[n]

\* A sequence has its running sums.
LEMMA RunningExists ==
    ASSUME NEW N \in Nat, NEW s \in [1 .. N -> Int]
    PROVE  \E g : Running(g, s, N)
<1> DEFINE P == {n \in 0 .. N : \E g : Running(g, s, n)}
<1>1. 0 \in P
  <2>1. Running([k \in 0 .. 0 |-> 0], s, 0)
    BY DEF Running
  <2>2. \E g : Running(g, s, 0)
    BY <2>1
  <2> QED
    BY <2>2
<1>2. ASSUME NEW n \in 1 .. N, n - 1 \in P
      PROVE  n \in P
  <2>1. PICK g : Running(g, s, n - 1)
    BY <1>2
  <2> DEFINE h == [k \in 0 .. n |-> IF k = n THEN g[n - 1] + s[n] ELSE g[k]]
  <2>2. Running(h, s, n)
    <3>1. h \in [0 .. n -> Int] /\ h[0] = 0
      BY <2>1 DEF Running
    <3>2. \A k \in 1 .. n : h[k] = h[k - 1] + s[k]
      BY <2>1 DEF Running
    <3> QED
      BY <3>1, <3>2 DEF Running
  <2>3. \E f : Running(f, s, n)
    BY <2>2
  <2> QED
    BY <2>3
<1> HIDE DEF P
<1>3. N \in P
  BY <1>1, <1>2, UpTo
<1> QED
  BY <1>3 DEF P

\* Total is the last of the running sums.
LEMMA TotalIs ==
    ASSUME NEW N \in Nat, NEW s \in [1 .. N -> Int], NEW g, Running(g, s, N)
    PROVE  Total(s) = g[N] /\ Total(s) \in Int
<1>0. Len(s) = N
  OBVIOUS
<1>1. g = [n \in 0 .. N |-> IF n = 0 THEN 0 ELSE g[n - 1] + s[n]]
  BY DEF Running
<1> DEFINE f == Sums(s)
<1>2. f = [n \in 0 .. N |-> IF n = 0 THEN 0 ELSE f[n - 1] + s[n]]
  BY <1>0, <1>1, Zenon DEF Sums
<1>3. Total(s) = f[N]
  BY <1>0 DEF Total
<1> HIDE DEF f
<1> DEFINE P == {n \in 0 .. N : f[n] = g[n]}
<1>4. 0 \in P
  BY <1>2 DEF Running
<1>5. ASSUME NEW n \in 1 .. N, n - 1 \in P PROVE n \in P
  BY <1>2, <1>5 DEF Running
<1> HIDE DEF P
<1>6. N \in P
  BY <1>4, <1>5, UpTo
<1>7. f[N] = g[N] /\ g[N] \in Int
  BY <1>6 DEF P, Running
<1> QED
  BY <1>3, <1>7

\* A sum of integers is one.
LEMMA TotalType ==
    ASSUME NEW N \in Nat, NEW s \in [1 .. N -> Int]
    PROVE  Total(s) \in Int
BY RunningExists, TotalIs

\* A sum of nothing.
LEMMA TotalZero ==
    ASSUME NEW N \in Nat, NEW s \in [1 .. N -> Int], \A n \in 1 .. N : s[n] = 0
    PROVE  Total(s) = 0
<1> DEFINE g == [n \in 0 .. N |-> 0]
<1>1. Running(g, s, N) /\ g[N] = 0
  BY DEF Running
<1> HIDE DEF g
<1> QED
  BY <1>1, TotalIs

\* One more element at the end.
LEMMA TotalAppend ==
    ASSUME NEW N \in Nat, NEW s \in [1 .. N -> Int], NEW t \in [1 .. N + 1 -> Int],
           \A n \in 1 .. N : t[n] = s[n]
    PROVE  Total(t) = Total(s) + t[N + 1]
<1>1. PICK g : Running(g, s, N)
  BY RunningExists
<1> DEFINE h == [n \in 0 .. N + 1 |-> IF n = N + 1 THEN g[N] + t[N + 1] ELSE g[n]]
<1>2. Running(h, t, N + 1) /\ h[N + 1] = g[N] + t[N + 1]
  <2>1. h \in [0 .. N + 1 -> Int] /\ h[0] = 0 /\ h[N + 1] = g[N] + t[N + 1]
    BY <1>1 DEF Running
  <2>2. \A n \in 1 .. N + 1 : h[n] = h[n - 1] + t[n]
    BY <1>1 DEF Running
  <2> QED
    BY <2>1, <2>2 DEF Running
<1> HIDE DEF h
<1>3. Total(t) = h[N + 1]
  BY <1>2, TotalIs
<1>4. Total(s) = g[N]
  BY <1>1, TotalIs
<1> QED
  BY <1>2, <1>3, <1>4

\* One more element at the front.
LEMMA TotalTail ==
    ASSUME NEW N \in Nat, NEW s \in [1 .. N + 1 -> Int], NEW t \in [1 .. N -> Int],
           \A n \in 1 .. N : t[n] = s[n + 1]
    PROVE  Total(s) = s[1] + Total(t)
<1>1. PICK g : Running(g, t, N)
  BY RunningExists
<1> DEFINE h == [n \in 0 .. N + 1 |-> IF n = 0 THEN 0 ELSE s[1] + g[n - 1]]
<1>2. h \in [0 .. N + 1 -> Int] /\ h[0] = 0
  BY <1>1 DEF Running
<1>3. ASSUME NEW n \in 1 .. N + 1 PROVE h[n] = h[n - 1] + s[n]
  <2>1. CASE n = 1
    BY <1>1, <2>1 DEF Running
  <2>2. CASE n # 1
    <3>1. n - 1 \in 1 .. N /\ t[n - 1] = s[(n - 1) + 1]
      BY <2>2
    <3>2. t[n - 1] = s[n]
      BY <3>1
    <3>3. g[n - 1] = g[(n - 1) - 1] + t[n - 1] /\ g[(n - 1) - 1] \in Int
      BY <1>1, <3>1 DEF Running
    <3> QED
      BY <2>2, <3>2, <3>3
  <2> QED
    BY <2>1, <2>2
<1>4. h[N + 1] = s[1] + g[N]
  OBVIOUS
<1> HIDE DEF h
<1>5. Running(h, s, N + 1)
  BY <1>2, <1>3 DEF Running
<1>6. Total(s) = h[N + 1]
  BY <1>5, TotalIs
<1>7. Total(t) = g[N]
  BY <1>1, TotalIs
<1> QED
  BY <1>4, <1>6, <1>7

\* One element changes.
LEMMA TotalChange ==
    ASSUME NEW N \in Nat, NEW s \in [1 .. N -> Int], NEW t \in [1 .. N -> Int],
           NEW k \in 1 .. N, \A n \in 1 .. N : n # k => t[n] = s[n]
    PROVE  Total(t) = Total(s) + (t[k] - s[k])
<1>1. PICK g : Running(g, s, N)
  BY RunningExists
<1> DEFINE d == t[k] - s[k]
           h == [n \in 0 .. N |-> IF n < k THEN g[n] ELSE g[n] + d]
<1>2. d \in Int /\ t[k] = s[k] + d
  OBVIOUS
<1> HIDE DEF d
<1>3. h \in [0 .. N -> Int] /\ h[0] = 0 /\ h[N] = g[N] + d
  <2>0. d \in Int /\ g \in [0 .. N -> Int]
    BY <1>1, <1>2 DEF Running
  <2>1. \A n \in 0 .. N : g[n] \in Int /\ g[n] + d \in Int
    BY <2>0
  <2>2. g[0] = 0 /\ k > 0 /\ k <= N
    BY <1>1 DEF Running
  <2> QED
    BY <2>1, <2>2
<1>4. ASSUME NEW n \in 1 .. N PROVE h[n] = h[n - 1] + t[n]
  <2>1. g[n] = g[n - 1] + s[n] /\ g[n - 1] \in Int /\ s[n] \in Int /\ n - 1 \in 0 .. N
    BY <1>1 DEF Running
  <2>2. CASE n = k
    BY <1>2, <2>1, <2>2
  <2>3. CASE n < k
    BY <2>1, <2>3
  <2>4. CASE n > k
    <3>1. h[n] = g[n] + d /\ h[n - 1] = g[n - 1] + d /\ t[n] = s[n]
      BY <2>1, <2>4
    <3> QED
      BY <1>2, <2>1, <3>1
  <2> QED
    BY <2>2, <2>3, <2>4
<1> HIDE DEF h
<1>5. Total(t) = h[N]
  BY <1>3, <1>4, TotalIs DEF Running
<1>6. Total(s) = g[N]
  BY <1>1, TotalIs
<1> QED
  BY <1>3, <1>5, <1>6 DEF d

\* A sum of ones and zeros counts the ones.
LEMMA TotalCount ==
    ASSUME NEW N \in Nat, NEW s \in [1 .. N -> {0, 1}]
    PROVE  Total(s) = Cardinality({n \in 1 .. N : s[n] = 1})
<1> DEFINE Ones(n) == {k \in 1 .. n : s[k] = 1}
           g == [n \in 0 .. N |-> Cardinality(Ones(n))]
<1>1. ASSUME NEW n \in 0 .. N PROVE IsFiniteSet(Ones(n)) /\ Cardinality(Ones(n)) \in Nat
  <2>1. IsFiniteSet(1 .. n) /\ Ones(n) \in SUBSET (1 .. n)
    BY FS_Interval
  <2> HIDE DEF Ones
  <2> QED
    BY <2>1, FS_Subset, FS_CardinalityType
<1>2. Ones(0) = {} /\ Cardinality(Ones(0)) = 0
  BY FS_EmptySet
<1>3. ASSUME NEW n \in 1 .. N PROVE Cardinality(Ones(n)) = Cardinality(Ones(n - 1)) + s[n]
  <2>1. s[n] \in {0, 1} /\ n - 1 \in 0 .. N
    OBVIOUS
  <2>2. IsFiniteSet(Ones(n - 1)) /\ Cardinality(Ones(n - 1)) \in Nat
    BY <1>1, <2>1
  <2>3. s[n] = 0 => Ones(n) = Ones(n - 1)
    OBVIOUS
  <2>4. s[n] = 1 => Ones(n) = Ones(n - 1) \cup {n}
    OBVIOUS
  <2>5. n \notin Ones(n - 1)
    OBVIOUS
  <2> HIDE DEF Ones
  <2>6. Cardinality(Ones(n - 1) \cup {n}) = Cardinality(Ones(n - 1)) + 1
    BY <2>2, <2>5, FS_AddElement
  <2>7. CASE s[n] = 0
    BY <2>2, <2>3, <2>7
  <2>8. CASE s[n] = 1
    BY <2>4, <2>6, <2>8
  <2> QED
    BY <2>1, <2>7, <2>8
<1> HIDE DEF Ones
<1>4. Running(g, s, N)
  BY <1>1, <1>2, <1>3 DEF Running
<1>5. g[N] = Cardinality(Ones(N))
  OBVIOUS
<1>6. s \in [1 .. N -> Int]
  OBVIOUS
<1> HIDE DEF g
<1> QED
  BY <1>4, <1>5, <1>6, TotalIs DEF Ones

-----------------------------------------------------------------------------
(* Sums over the callers.                                                  *)

\* The number of callers.
NumCallers == Cardinality(Callers)

\* The callers in some order.
Order == CHOOSE b \in Bijection(1 .. NumCallers, Callers) : TRUE

\* What the callers have, in their order.
Along(f) == [k \in 1 .. NumCallers |-> f[Order[k]]]

\* The sum of what the callers have.
Over(f) == Total(Along(f))

\* There is an order of the callers, since they are finitely many.
LEMMA OrderType == NumCallers \in Nat /\ Order \in Bijection(1 .. NumCallers, Callers)
<1>1. NumCallers \in Nat /\ ExistsBijection(1 .. NumCallers, Callers)
  BY MetricsAssumption, FS_CardinalityType DEF NumCallers
<1> QED
  BY <1>1 DEF Order, ExistsBijection

\* There is one number for each caller.
LEMMA AlongType ==
    ASSUME NEW f \in [Callers -> Int]
    PROVE  Along(f) \in [1 .. NumCallers -> Int]
<1>1. \A k \in 1 .. NumCallers : Order[k] \in Callers
  BY OrderType DEF Bijection, Injection, IsInjective
<1> QED
  BY <1>1, OrderType DEF Along

\* The sum over the callers is an integer.
LEMMA OverType == ASSUME NEW f \in [Callers -> Int] PROVE Over(f) \in Int
BY OrderType, AlongType, TotalType DEF Over

\* Callers that have nothing have nothing together.
LEMMA OverZero ==
    ASSUME NEW f \in [Callers -> Int], \A c \in Callers : f[c] = 0
    PROVE  Over(f) = 0
<1>1. \A k \in 1 .. NumCallers : Order[k] \in Callers
  BY OrderType DEF Bijection, Injection, IsInjective
<1>2. \A k \in 1 .. NumCallers : Along(f)[k] = 0
  BY <1>1 DEF Along
<1> QED
  BY <1>2, OrderType, AlongType, TotalZero DEF Over

\* One caller's part changes.
LEMMA OverChange ==
    ASSUME NEW f \in [Callers -> Int], NEW g \in [Callers -> Int], NEW c \in Callers,
           \A e \in Callers \ {c} : g[e] = f[e]
    PROVE  Over(g) = Over(f) + (g[c] - f[c])
<1>1. PICK k \in 1 .. NumCallers : Order[k] = c
  BY OrderType DEF Bijection, Surjection
<1>2. \A n \in 1 .. NumCallers : Order[n] \in Callers /\ (n # k => Order[n] # c)
  BY <1>1, OrderType DEF Bijection, Injection, IsInjective
<1>3. Along(g)[k] = g[c] /\ Along(f)[k] = f[c]
  BY <1>1 DEF Along
<1>4. \A n \in 1 .. NumCallers : n # k => Along(g)[n] = Along(f)[n]
  BY <1>2 DEF Along
<1> QED
  BY <1>3, <1>4, OrderType, AlongType, TotalChange DEF Over

-----------------------------------------------------------------------------
(* The types of the state.                                                 *)

\* The steps a call consists of, by what they do.
Ops == {"Inc", "Add", "Observe", "Set"} \cup Drops

\* The codes that a request is answered with.
Codes == UNION {{codes[i] : i \in 1 .. Len(codes)} : codes \in Attempts}

\* The labels of all calls.
AnyLabels ==
    Labels \cup Patterns \cup {<<>>} \cup {ObservedLabels(r) : r \in Requests}
        \cup {[code |-> code, method |-> r.method] : code \in Codes, r \in Requests}

\* The steps of all calls.
Steps == [metric : Metrics, backend : Nat, op : Ops, labels : AnyLabels, v : Int]

\* What may be written to a log.
Entries == [fields : {withProperties(l) : l \in AnyLabels}, v : Int, dimensions : BOOLEAN]

\* A step of a call on a metric of the operator's; D are the series that have
\* been dropped.
DirectStep(s, D) ==
    /\ s.metric \in Metrics \ ClientMetrics
    /\ s.backend \in 1 .. Len(Backends[s.metric])
    /\ s.op \notin Drops => s.labels \in Labels /\ (s.op = "Set" <=> Kind[s.metric] = "gauge")
    /\ s.op \in Drops => \A l \in Labels : Hits(s, l) => <<s.metric, l>> \in D

\* A step of client-go's.
ClientStep(s) ==
    s.metric \in ClientMetrics /\ s.backend = 1 /\ s.op \in {"Inc", "Observe"} /\ s.v = 1

(***************************************************************************)
(* The first inductive invariant: the types of the state, and what the     *)
(* callers have left.  A direct call is on one metric and at one backend;  *)
(* if it drops series, they are known to have been dropped.  A request's   *)
(* steps are all on the client metrics.                                    *)
(***************************************************************************)
Typed ==
    /\ todo \in [Callers -> Seq(Steps)]
    /\ DOMAIN vec = Metrics /\ DOMAIN log = Metrics
    /\ \A m \in Metrics :
          /\ DOMAIN vec[m] = 1 .. Len(Backends[m])
          /\ DOMAIN log[m] = 1 .. Len(Backends[m])
          /\ \A i \in 1 .. Len(Backends[m]) :
                /\ \A l \in DOMAIN vec[m][i] : vec[m][i][l] \in Int
                /\ log[m][i] \in Seq(Entries)
    /\ served \in Seq([request : Requests, codes : Attempts])
    /\ \A c \in Callers :
          \/ Len(todo[c]) <= 1 /\ \A k \in 1 .. Len(todo[c]) : DirectStep(todo[c][k], dropped)
          \/ \A k \in 1 .. Len(todo[c]) : ClientStep(todo[c][k])

\* A metric has its backends in order, the client metrics Prometheus alone.
LEMMA BackendsType ==
    /\ \A m \in Metrics : /\ Backends[m] \in Seq({"prometheus", "emf"})
                          /\ Len(Backends[m]) \in Nat
                          /\ DOMAIN Backends[m] = 1 .. Len(Backends[m])
                          /\ \A i \in 1 .. Len(Backends[m]) : Backends[m][i] \in {"prometheus", "emf"}
    /\ \A m \in ClientMetrics : m \in Metrics /\ Len(Backends[m]) = 1 /\ Backends[m][1] = "prometheus"
<1>1. \A m \in Metrics : Backends[m] \in Seq({"prometheus", "emf"})
  BY MetricsAssumption
<1>2. ASSUME NEW m \in ClientMetrics
      PROVE  m \in Metrics /\ Len(Backends[m]) = 1 /\ Backends[m][1] = "prometheus"
  <2>1. m \in Metrics /\ Backends[m] = <<"prometheus">>
    BY ClientMetricsRegistered
  <2> QED
    BY <2>1
<1> QED
  BY <1>1, <1>2

\* A call that some method of a metric makes.
Sound(m, op, labels, v) ==
    /\ m \in Metrics \ ClientMetrics /\ op \in Ops /\ labels \in AnyLabels /\ v \in Int
    /\ op \notin Drops => labels \in Labels /\ (op = "Set" <=> Kind[m] = "gauge")

\* A caller makes a call on a metric of the operator's.
Called(c) == \E m, op, labels, v : Sound(m, op, labels, v) /\ Call(c, m, op, labels, v)

\* What a step of the metrics is.
LEMMA NextCases ==
    ASSUME Next
    PROVE  \E c \in Callers :
              \/ Called(c)
              \/ \E r \in Requests, codes \in Attempts : Request(c, r, codes)
              \/ Step(c)
<1>0. PICK c \in Callers :
        \/ Inc(c) \/ Add(c) \/ Set(c) \/ Observe(c)
        \/ Delete(c) \/ DeletePartialMatch(c) \/ Reset(c)
        \/ \E r \in Requests, codes \in Attempts : Request(c, r, codes)
        \/ Step(c)
  BY DEF Next
<1>1. Inc(c) => Called(c)
  <2>1. ASSUME NEW m \in Direct({"counter"}), NEW l \in Labels
        PROVE  Sound(m, "Inc", l, 1)
    BY MetricsAssumption DEF Sound, Direct, Ops, Drops, AnyLabels, AllKinds
  <2> QED
    BY <2>1 DEF Inc, Called
<1>2. Add(c) => Called(c)
  <2>1. ASSUME NEW m \in Direct({"counter"}), NEW l \in Labels, NEW v \in Values
        PROVE  Sound(m, "Add", l, v)
    BY MetricsAssumption DEF Sound, Direct, Ops, Drops, AnyLabels, AllKinds
  <2> QED
    BY <2>1 DEF Add, Called
<1>3. Set(c) => Called(c)
  <2>1. ASSUME NEW m \in Direct({"gauge"}), NEW l \in Labels, NEW v \in Values
        PROVE  Sound(m, "Set", l, v)
    BY MetricsAssumption DEF Sound, Direct, Ops, Drops, AnyLabels, AllKinds
  <2> QED
    BY <2>1 DEF Set, Called
<1>4. Observe(c) => Called(c)
  <2>1. ASSUME NEW m \in Direct({"observation"}), NEW l \in Labels
        PROVE  Sound(m, "Observe", l, 1)
    BY MetricsAssumption DEF Sound, Direct, Ops, Drops, AnyLabels, AllKinds
  <2> QED
    BY <2>1 DEF Observe, Called
<1>5. Delete(c) => Called(c)
  <2>1. ASSUME NEW m \in Direct(AllKinds), NEW l \in Labels
        PROVE  Sound(m, "Delete", l, 0)
    BY MetricsAssumption DEF Sound, Direct, Ops, Drops, AnyLabels, AllKinds
  <2> QED
    BY <2>1 DEF Delete, Called
<1>6. DeletePartialMatch(c) => Called(c)
  <2>1. ASSUME NEW m \in Direct(AllKinds), NEW p \in Patterns
        PROVE  Sound(m, "DeletePartialMatch", p, 0)
    BY MetricsAssumption DEF Sound, Direct, Ops, Drops, AnyLabels, AllKinds
  <2> QED
    BY <2>1 DEF DeletePartialMatch, Called
<1>7. Reset(c) => Called(c)
  <2>1. ASSUME NEW m \in Direct(AllKinds)
        PROVE  Sound(m, "Reset", <<>>, 0)
    BY MetricsAssumption DEF Sound, Direct, Ops, Drops, AnyLabels, AllKinds
  <2> QED
    BY <2>1 DEF Reset, Called
<1> QED
  BY <1>0, <1>1, <1>2, <1>3, <1>4, <1>5, <1>6, <1>7

\* Where a call goes on.
LEMMA OnwardType ==
    ASSUME NEW m \in Metrics, NEW i \in Nat, NEW op, NEW labels, NEW v
    PROVE  LET s == Update(m, i, op, labels, v)
               t == Update(m, i + 1, op, labels, v)
           IN  \/ i < Len(Backends[m]) /\ Onward(s) = <<t>>
               \/ i >= Len(Backends[m]) /\ Onward(s) = <<>>
<1>1. Len(Backends[m]) \in Nat
  BY BackendsType
<1> QED
  BY <1>1 DEF Onward, Update

\* A call at a backend is a step.
LEMMA UpdateType ==
    ASSUME NEW m \in Metrics, NEW i \in Nat, NEW op \in Ops, NEW labels \in AnyLabels, NEW v \in Int
    PROVE  LET s == Update(m, i, op, labels, v)
           IN  /\ s \in Steps /\ s.metric = m /\ s.backend = i /\ s.op = op
               /\ s.labels = labels /\ s.v = v
BY DEF Update, Steps

\* Sequences of one element and of none.
LEMMA ShortSeqs ==
    ASSUME NEW S
    PROVE  /\ \A x \in S : <<x>> \in Seq(S) /\ Len(<<x>>) = 1 /\ <<x>>[1] = x
           /\ <<>> \in Seq(S) /\ Len(<<>>) = 0
           /\ \A q \in Seq(S) : Len(q) = 0 => q = <<>>
BY EmptySeq

\* Whether a call hits a series does not depend on the backend it has come to.
LEMMA HitsSame ==
    ASSUME NEW s, NEW t, s.op = t.op, s.labels = t.labels, NEW l
    PROVE  Hits(s, l) <=> Hits(t, l)
BY DEF Hits

\* A call starts.
LEMMA CallEffect ==
    ASSUME Typed, NEW c \in Callers, NEW m, NEW op, NEW labels, NEW v,
           Sound(m, op, labels, v), Call(c, m, op, labels, v)
    PROVE  LET u == Update(m, 1, op, labels, v) IN
           /\ todo[c] = <<>> /\ UNCHANGED <<vec, log, served>>
           /\ \A d \in Callers \ {c} : todo'[d] = todo[d]
           /\ \/ Len(Backends[m]) > 0 /\ todo'[c] = <<u>>
              \/ Len(Backends[m]) = 0 /\ todo'[c] = <<>>
           /\ todo' \in [Callers -> Seq(Steps)]
           /\ dropped \subseteq dropped'
           /\ op \in Drops => \A l \in Labels : Hits(u, l) => <<m, l>> \in dropped'
<1> DEFINE s == Update(m, 0, op, labels, v)
           u == Update(m, 1, op, labels, v)
<1>1. /\ todo[c] = <<>> /\ UNCHANGED <<vec, log, served>>
      /\ todo' = [todo EXCEPT ![c] = Onward(s)]
  BY DEF Call
<1>2. m \in Metrics /\ op \in Ops /\ labels \in AnyLabels /\ v \in Int
  BY DEF Sound
<1>3. /\ u \in Steps /\ u.op = op /\ u.labels = labels
      /\ s.op = op /\ s.labels = labels
  BY <1>2, UpdateType
<1>4. Len(Backends[m]) \in Nat
  BY <1>2, BackendsType
<1>5. \/ Len(Backends[m]) > 0 /\ Onward(s) = <<u>>
      \/ Len(Backends[m]) = 0 /\ Onward(s) = <<>>
  BY <1>2, <1>4, OnwardType
<1>6. dropped \subseteq dropped'
  BY DEF Call
<1>7. op \in Drops => \A l \in Labels : Hits(s, l) => <<m, l>> \in dropped'
  BY DEF Call
<1> HIDE DEF s, u
<1>8. Onward(s) \in Seq(Steps)
  <2>1. <<u>> \in Seq(Steps) /\ <<>> \in Seq(Steps)
    BY <1>3, ShortSeqs
  <2> QED
    BY <1>5, <2>1
<1>9. \A l : Hits(s, l) <=> Hits(u, l)
  BY <1>3, HitsSame
<1>10. todo \in [Callers -> Seq(Steps)]
  BY DEF Typed
<1>11. todo' \in [Callers -> Seq(Steps)] /\ todo'[c] = Onward(s)
  BY <1>1, <1>8, <1>10
<1>12. \A d \in Callers \ {c} : todo'[d] = todo[d]
  BY <1>1, <1>10
<1> QED
  BY <1>1, <1>5, <1>6, <1>7, <1>9, <1>11, <1>12 DEF u

\* client-go makes a request.
LEMMA RequestEffect ==
    ASSUME Typed, NEW c \in Callers, NEW r \in Requests, NEW codes \in Attempts, Request(c, r, codes)
    PROVE  /\ todo[c] = <<>> /\ UNCHANGED <<vec, log, contended, dropped>>
           /\ \A d \in Callers \ {c} : todo'[d] = todo[d]
           /\ todo' \in [Callers -> Seq(Steps)]
           /\ todo'[c] = [i \in 1 .. Len(codes) |-> Increment(codes[i], r)] \o ObserveLatency(r)
           /\ \A k \in 1 .. Len(todo'[c]) : ClientStep(todo'[c][k])
           /\ served' = Append(served, [request |-> r, codes |-> codes])
<1>1. /\ todo[c] = <<>> /\ UNCHANGED <<vec, log, contended, dropped>>
      /\ served' = Append(served, [request |-> r, codes |-> codes])
  BY DEF Request
<1> DEFINE incs == [i \in 1 .. Len(codes) |-> Increment(codes[i], r)]
           Mine == {s \in Steps : ClientStep(s)}
<1>2. Len(codes) \in Nat /\ \A i \in 1 .. Len(codes) : codes[i] \in Codes
  BY MetricsAssumption DEF Codes
<1>3. {"latency", "result"} \subseteq Metrics
  BY ClientMetricsRegistered DEF ClientMetrics
<1>4. ASSUME NEW i \in 1 .. Len(codes) PROVE Increment(codes[i], r) \in Mine
  <2>1. [code |-> codes[i], method |-> r.method] \in AnyLabels
    BY <1>2 DEF AnyLabels
  <2> QED
    BY <1>3, <2>1 DEF Increment, Update, Steps, ClientStep, Ops, ClientMetrics
<1>5. incs \in Seq(Mine)
  BY <1>2, <1>4
<1>6. ObserveLatency(r) \in Seq(Mine)
  <2>1. ObservedLabels(r) \in AnyLabels
    BY DEF AnyLabels
  <2>2. Update("latency", 1, "Observe", ObservedLabels(r), 1) \in Mine
    BY <1>3, <2>1 DEF Update, Steps, ClientStep, Ops, ClientMetrics
  <2> HIDE DEF Mine
  <2> QED
    BY <2>2 DEF ObserveLatency
<1>7. todo' = [todo EXCEPT ![c] = incs \o ObserveLatency(r)] /\ todo \in [Callers -> Seq(Steps)]
  BY DEF Request, Typed
<1> HIDE DEF incs
<1>8. Mine \subseteq Steps /\ \A s \in Mine : ClientStep(s)
  OBVIOUS
<1> HIDE DEF Mine
<1>9. incs \o ObserveLatency(r) \in Seq(Mine)
  BY <1>5, <1>6
<1>10. todo'[c] = incs \o ObserveLatency(r)
  BY <1>7
<1>11. \A k \in 1 .. Len(todo'[c]) : ClientStep(todo'[c][k])
  BY <1>8, <1>9, <1>10
<1>12. incs \o ObserveLatency(r) \in Seq(Steps)
  BY <1>8, <1>9
<1>13. todo' \in [Callers -> Seq(Steps)] /\ \A d \in Callers \ {c} : todo'[d] = todo[d]
  BY <1>7, <1>12
<1> QED
  BY <1>1, <1>10, <1>11, <1>13 DEF incs

\* What a caller is at.
Now(c) == todo[c][1]

\* A call reaches a backend.
LEMMA StepEffect ==
    ASSUME Typed, NEW c \in Callers, Step(c)
    PROVE  LET s == Now(c)
               m == Now(c).metric
               i == Now(c).backend
           IN  /\ s \in Steps /\ todo[c] # <<>> /\ UNCHANGED <<calls, contended, dropped, served>>
               /\ m \in Metrics /\ i \in 1 .. Len(Backends[m])
               /\ todo' \in [Callers -> Seq(Steps)]
               /\ \A d \in Callers \ {c} : todo'[d] = todo[d]
               /\ \/ /\ DirectStep(s, dropped)
                     /\ \/ /\ i < Len(Backends[m])
                           /\ todo'[c] = <<Update(m, i + 1, s.op, s.labels, s.v)>>
                        \/ i = Len(Backends[m]) /\ todo'[c] = <<>>
                  \/ /\ ClientStep(s) /\ todo'[c] = Tail(todo[c])
                     /\ \A k \in 1 .. Len(todo[c]) : ClientStep(todo[c][k])
                     /\ \A k \in 1 .. Len(todo'[c]) : ClientStep(todo'[c][k])
<1> DEFINE s == Now(c)
           q == todo[c]
<1>1. q \in Seq(Steps) /\ q # <<>>
  BY DEF Typed, Step
<1>2. /\ Len(q) \in Nat \ {0} /\ Head(q) = q[1] /\ q[1] \in Steps
      /\ Tail(q) \in Seq(Steps) /\ Len(Tail(q)) = Len(q) - 1
      /\ \A k \in 1 .. Len(Tail(q)) : Tail(q)[k] = q[k + 1]
  BY <1>1, EmptySeq
<1>3. /\ todo' = [todo EXCEPT ![c] = Onward(s) \o Tail(q)]
      /\ UNCHANGED <<calls, contended, dropped, served>>
  BY <1>2 DEF Step, Now
<1>4. \/ Len(q) = 1 /\ DirectStep(s, dropped)
      \/ \A k \in 1 .. Len(q) : ClientStep(q[k])
  <2>1. \/ Len(q) <= 1 /\ \A k \in 1 .. Len(q) : DirectStep(q[k], dropped)
        \/ \A k \in 1 .. Len(q) : ClientStep(q[k])
    BY DEF Typed
  <2>2. Len(q) \in Nat \ {0}
    BY <1>2
  <2> HIDE DEF q
  <2>3. \A n \in Nat \ {0} : 1 \in 1 .. n /\ (n <= 1 => n = 1)
    OBVIOUS
  <2>4. s = q[1]
    BY DEF q, Now
  <2> HIDE DEF s
  <2> QED
    BY <2>1, <2>2, <2>3, <2>4
<1>5. s \in Steps /\ s = q[1]
  BY <1>2 DEF Now
<1>6. /\ s.metric \in Metrics /\ s.backend \in Nat /\ s.op \in Ops
      /\ s.labels \in AnyLabels /\ s.v \in Int
  BY <1>5 DEF Steps
<1>7. Len(Backends[s.metric]) \in Nat
  BY <1>6, BackendsType
<1> DEFINE t == Update(s.metric, s.backend + 1, s.op, s.labels, s.v)
<1>8. t \in Steps
  <2>1. s.backend + 1 \in Nat
    BY <1>6
  <2> HIDE DEF s
  <2> QED
    BY <1>6, <2>1 DEF Update, Steps
<1>9. \/ s.backend < Len(Backends[s.metric]) /\ Onward(s) = <<t>>
      \/ s.backend >= Len(Backends[s.metric]) /\ Onward(s) = <<>>
  <2>1. s.backend < Len(Backends[s.metric]) \/ s.backend >= Len(Backends[s.metric])
    BY <1>6, <1>7
  <2>2. s.backend >= Len(Backends[s.metric]) => ~(s.backend < Len(Backends[s.metric]))
    BY <1>6, <1>7
  <2>3. Onward(s) = IF s.backend < Len(Backends[s.metric]) THEN <<t>> ELSE <<>>
    BY DEF Onward
  <2> HIDE DEF s, t
  <2> QED
    BY <2>1, <2>2, <2>3
<1> HIDE DEF s, t, q
<1>10. CASE Len(q) = 1 /\ DirectStep(s, dropped)
  <2>1. Tail(q) = <<>> /\ s.backend \in 1 .. Len(Backends[s.metric])
    <3>1. Len(Tail(q)) = 0 /\ Tail(q) \in Seq(Steps)
      BY <1>2, <1>10
    <3> QED
      BY <1>10, <3>1, ShortSeqs DEF DirectStep
  <2>2. Onward(s) \o Tail(q) = Onward(s) /\ Onward(s) \in Seq(Steps)
    <3>1. <<t>> \in Seq(Steps) /\ <<>> \in Seq(Steps)
      BY <1>8, ShortSeqs
    <3>2. Onward(s) \in Seq(Steps)
      BY <1>9, <3>1
    <3> QED
      BY <2>1, <3>2, ConcatEmptySeq
  <2>3. /\ todo' \in [Callers -> Seq(Steps)] /\ todo'[c] = Onward(s)
        /\ \A d \in Callers \ {c} : todo'[d] = todo[d]
    BY <1>3, <2>2 DEF Typed
  <2>4. \/ s.backend < Len(Backends[s.metric]) /\ todo'[c] = <<t>>
        \/ s.backend = Len(Backends[s.metric]) /\ todo'[c] = <<>>
    BY <1>6, <1>7, <1>9, <2>1, <2>3
  <2> QED
    BY <1>1, <1>3, <1>5, <1>6, <1>10, <2>1, <2>3, <2>4 DEF s, t, q
<1>11. CASE \A k \in 1 .. Len(q) : ClientStep(q[k])
  <2>1. ClientStep(s)
    BY <1>2, <1>5, <1>11
  <2>2. s.backend = 1 /\ Len(Backends[s.metric]) = 1
    BY <2>1, BackendsType DEF ClientStep
  <2>3. Onward(s) = <<>>
    BY <1>9, <2>2
  <2>4. Onward(s) \o Tail(q) = Tail(q)
    BY <1>2, <2>3
  <2>5. /\ todo' \in [Callers -> Seq(Steps)] /\ todo'[c] = Tail(q)
        /\ \A d \in Callers \ {c} : todo'[d] = todo[d]
    BY <1>2, <1>3, <2>4 DEF Typed
  <2>6. \A k \in 1 .. Len(Tail(q)) : ClientStep(Tail(q)[k])
    BY <1>2, <1>11
  <2>7. s.backend \in 1 .. Len(Backends[s.metric])
    BY <2>2
  <2> QED
    BY <1>1, <1>3, <1>5, <1>6, <1>11, <2>1, <2>5, <2>6, <2>7 DEF s, q
<1> QED
  BY <1>4, <1>10, <1>11

\* Only the backend that a call reaches changes.
LEMMA StepData ==
    ASSUME Typed, NEW c \in Callers, Step(c)
    PROVE  LET s == Now(c)
               m == Now(c).metric
               i == Now(c).backend
           IN  /\ DOMAIN vec' = Metrics /\ DOMAIN log' = Metrics
               /\ \A n \in Metrics : /\ DOMAIN vec'[n] = 1 .. Len(Backends[n])
                                     /\ DOMAIN log'[n] = 1 .. Len(Backends[n])
               /\ \A n \in Metrics : \A j \in 1 .. Len(Backends[n]) :
                     n # m \/ j # i => vec'[n][j] = vec[n][j] /\ log'[n][j] = log[n][j]
               /\ \/ /\ Backends[m][i] = "prometheus"
                     /\ vec'[m][i] = Prometheus(vec[m][i], s) /\ log'[m][i] = log[m][i]
                  \/ /\ Backends[m][i] # "prometheus"
                     /\ log'[m][i] = EMF(log[m][i], s) /\ vec'[m][i] = vec[m][i]
<1> DEFINE s == Now(c)
           m == Now(c).metric
           i == Now(c).backend
<1>1. m \in Metrics /\ i \in 1 .. Len(Backends[m]) /\ todo[c] # <<>> /\ s.metric = m /\ s.backend = i
  BY StepEffect
<1>2. todo[c] \in Seq(Steps)
  BY DEF Typed
<1>3. Head(todo[c]) = s
  BY <1>1, <1>2 DEF Now
<1> HIDE DEF s, m, i
<1>4. /\ DOMAIN vec = Metrics /\ DOMAIN log = Metrics
      /\ \A n \in Metrics : /\ DOMAIN vec[n] = 1 .. Len(Backends[n])
                            /\ DOMAIN log[n] = 1 .. Len(Backends[n])
  BY DEF Typed
<1>5. CASE Backends[m][i] = "prometheus"
  <2>1. vec' = [vec EXCEPT ![m][i] = Prometheus(@, s)] /\ log' = log
    BY <1>1, <1>3, <1>5 DEF Step
  <2> QED
    BY <1>1, <1>4, <1>5, <2>1 DEF s, m, i
<1>6. CASE Backends[m][i] # "prometheus"
  <2>1. log' = [log EXCEPT ![m][i] = EMF(@, s)] /\ vec' = vec
    BY <1>1, <1>3, <1>6 DEF Step
  <2> QED
    BY <1>1, <1>4, <1>6, <2>1 DEF s, m, i
<1> QED
  BY <1>5, <1>6

\* A direct step remains one when more series have been dropped.
LEMMA DirectStepLater ==
    ASSUME NEW s, NEW D, NEW E, DirectStep(s, D), D \subseteq E
    PROVE  DirectStep(s, E)
BY DEF DirectStep

\* A direct call's step is one, on every backend it comes to.
LEMMA UpdateDirect ==
    ASSUME NEW m, NEW op, NEW labels, NEW v, Sound(m, op, labels, v),
           NEW i \in 1 .. Len(Backends[m]), NEW D,
           op \in Drops => \A l \in Labels : Hits(Update(m, i, op, labels, v), l) => <<m, l>> \in D
    PROVE  DirectStep(Update(m, i, op, labels, v), D)
<1>1. /\ Update(m, i, op, labels, v).metric = m /\ Update(m, i, op, labels, v).backend = i
      /\ Update(m, i, op, labels, v).op = op /\ Update(m, i, op, labels, v).labels = labels
  BY DEF Update
<1> QED
  BY <1>1 DEF DirectStep, Sound

\* The part of Typed about the data.
DataTyped ==
    /\ DOMAIN vec = Metrics /\ DOMAIN log = Metrics
    /\ \A m \in Metrics :
          /\ DOMAIN vec[m] = 1 .. Len(Backends[m])
          /\ DOMAIN log[m] = 1 .. Len(Backends[m])
          /\ \A i \in 1 .. Len(Backends[m]) :
                /\ \A l \in DOMAIN vec[m][i] : vec[m][i][l] \in Int
                /\ log[m][i] \in Seq(Entries)

\* The values of a vector are integers.
LEMMA PrometheusType ==
    ASSUME NEW series, \A l \in DOMAIN series : series[l] \in Int, NEW s, s.v \in Int
    PROVE  \A l \in DOMAIN Prometheus(series, s) : Prometheus(series, s)[l] \in Int
BY DEF Prometheus

\* What is written to a log is an entry.
LEMMA EMFType ==
    ASSUME NEW entries \in Seq(Entries), NEW s \in Steps
    PROVE  EMF(entries, s) \in Seq(Entries)
<1>1. Entry(s) \in Entries
  BY DEF Entry, Entries, Steps
<1> QED
  BY <1>1 DEF EMF

\* A call preserves Typed.
LEMMA TypedCall ==
    ASSUME Typed, NEW c \in Callers, NEW m, NEW op, NEW labels, NEW v,
           Sound(m, op, labels, v), Call(c, m, op, labels, v)
    PROVE  Typed'
<1> DEFINE u == Update(m, 1, op, labels, v)
<1>1. /\ UNCHANGED <<vec, log, served>>
      /\ \A d \in Callers \ {c} : todo'[d] = todo[d]
      /\ \/ Len(Backends[m]) > 0 /\ todo'[c] = <<u>>
         \/ Len(Backends[m]) = 0 /\ todo'[c] = <<>>
      /\ todo' \in [Callers -> Seq(Steps)]
      /\ dropped \subseteq dropped'
      /\ op \in Drops => \A l \in Labels : Hits(u, l) => <<m, l>> \in dropped'
  BY CallEffect
<1>2. Len(Backends[m]) > 0 => DirectStep(u, dropped')
  <2>1. Len(Backends[m]) \in Nat
    BY BackendsType DEF Sound
  <2>2. Len(Backends[m]) > 0 => 1 \in 1 .. Len(Backends[m])
    BY <2>1
  <2> QED
    BY <1>1, <2>2, UpdateDirect
<1> HIDE DEF u
<1>3. ASSUME NEW d \in Callers
      PROVE  \/ Len(todo'[d]) <= 1 /\ \A k \in 1 .. Len(todo'[d]) : DirectStep(todo'[d][k], dropped')
             \/ \A k \in 1 .. Len(todo'[d]) : ClientStep(todo'[d][k])
  <2>1. CASE d # c
    <3>1. todo'[d] = todo[d]
      BY <1>1, <2>1
    <3>2. \/ Len(todo[d]) <= 1 /\ \A k \in 1 .. Len(todo[d]) : DirectStep(todo[d][k], dropped)
          \/ \A k \in 1 .. Len(todo[d]) : ClientStep(todo[d][k])
      BY DEF Typed
    <3> QED
      BY <1>1, <3>1, <3>2, DirectStepLater
  <2>2. CASE d = c
    <3>1. CASE Len(Backends[m]) > 0 /\ todo'[c] = <<u>>
      <4>1. Len(<<u>>) = 1 /\ \A k \in 1 .. 1 : <<u>>[k] = u
        OBVIOUS
      <4> QED
        BY <1>2, <2>2, <3>1, <4>1
    <3>2. CASE todo'[c] = <<>>
      <4>1. Len(<<>>) = 0 /\ \A k \in 1 .. 0 : FALSE
        OBVIOUS
      <4> QED
        BY <2>2, <3>2, <4>1
    <3> QED
      BY <1>1, <3>1, <3>2
  <2> QED
    BY <2>1, <2>2
<1>4. DataTyped' /\ served' \in Seq([request : Requests, codes : Attempts])
  BY <1>1 DEF Typed, DataTyped
<1> QED
  BY <1>1, <1>3, <1>4 DEF Typed, DataTyped

\* A request preserves Typed.
LEMMA TypedRequest ==
    ASSUME Typed, NEW c \in Callers, NEW r \in Requests, NEW codes \in Attempts, Request(c, r, codes)
    PROVE  Typed'
<1>1. /\ UNCHANGED <<vec, log, contended, dropped>>
      /\ \A d \in Callers \ {c} : todo'[d] = todo[d]
      /\ todo' \in [Callers -> Seq(Steps)]
      /\ \A k \in 1 .. Len(todo'[c]) : ClientStep(todo'[c][k])
      /\ served' = Append(served, [request |-> r, codes |-> codes])
  BY RequestEffect
<1>2. served' \in Seq([request : Requests, codes : Attempts])
  BY <1>1 DEF Typed
<1>3. ASSUME NEW d \in Callers
      PROVE  \/ Len(todo'[d]) <= 1 /\ \A k \in 1 .. Len(todo'[d]) : DirectStep(todo'[d][k], dropped')
             \/ \A k \in 1 .. Len(todo'[d]) : ClientStep(todo'[d][k])
  <2>1. CASE d # c
    <3>1. todo'[d] = todo[d] /\ dropped' = dropped
      BY <1>1, <2>1
    <3> QED
      BY <3>1 DEF Typed
  <2>2. CASE d = c
    BY <1>1, <2>2
  <2> QED
    BY <2>1, <2>2
<1>4. DataTyped'
  BY <1>1 DEF Typed, DataTyped
<1> QED
  BY <1>1, <1>2, <1>3, <1>4 DEF Typed, DataTyped

\* A step of a call preserves Typed.
LEMMA TypedTakesStep ==
    ASSUME Typed, NEW c \in Callers, Step(c)
    PROVE  Typed'
<1> DEFINE s == Now(c)
           m == Now(c).metric
           i == Now(c).backend
           t == Update(m, i + 1, s.op, s.labels, s.v)
<1>1. /\ s \in Steps /\ UNCHANGED <<calls, contended, dropped, served>>
      /\ m \in Metrics /\ i \in 1 .. Len(Backends[m])
      /\ todo' \in [Callers -> Seq(Steps)]
      /\ \A d \in Callers \ {c} : todo'[d] = todo[d]
      /\ \/ /\ DirectStep(s, dropped)
            /\ \/ i < Len(Backends[m]) /\ todo'[c] = <<t>>
               \/ todo'[c] = <<>>
         \/ \A k \in 1 .. Len(todo'[c]) : ClientStep(todo'[c][k])
  BY StepEffect
<1>2. s.metric = m /\ s.backend = i /\ s.v \in Int
  BY <1>1 DEF Steps
<1>3. /\ DOMAIN vec' = Metrics /\ DOMAIN log' = Metrics
      /\ \A n \in Metrics : /\ DOMAIN vec'[n] = 1 .. Len(Backends[n])
                            /\ DOMAIN log'[n] = 1 .. Len(Backends[n])
      /\ \A n \in Metrics : \A j \in 1 .. Len(Backends[n]) :
            n # m \/ j # i => vec'[n][j] = vec[n][j] /\ log'[n][j] = log[n][j]
      /\ \/ vec'[m][i] = Prometheus(vec[m][i], s) /\ log'[m][i] = log[m][i]
         \/ log'[m][i] = EMF(log[m][i], s) /\ vec'[m][i] = vec[m][i]
  BY StepData
<1>4. i < Len(Backends[m]) /\ DirectStep(s, dropped) => DirectStep(t, dropped)
  <2>1. /\ t.metric = m /\ t.backend = i + 1 /\ t.op = s.op /\ t.labels = s.labels
    BY DEF Update
  <2>2. \A l : Hits(t, l) <=> Hits(s, l)
    BY <2>1, HitsSame
  <2>3. Len(Backends[m]) \in Nat
    BY <1>1, BackendsType
  <2> HIDE DEF t, s, m, i
  <2>4. i < Len(Backends[m]) => i + 1 \in 1 .. Len(Backends[m])
    BY <1>1, <2>3
  <2> QED
    BY <1>2, <2>1, <2>2, <2>4 DEF DirectStep
<1> HIDE DEF s, m, i, t
<1>5. ASSUME NEW d \in Callers
      PROVE  \/ Len(todo'[d]) <= 1 /\ \A k \in 1 .. Len(todo'[d]) : DirectStep(todo'[d][k], dropped')
             \/ \A k \in 1 .. Len(todo'[d]) : ClientStep(todo'[d][k])
  <2>1. CASE d # c
    <3>1. todo'[d] = todo[d] /\ dropped' = dropped
      BY <1>1, <2>1
    <3> QED
      BY <3>1 DEF Typed
  <2>2. CASE d = c
    <3>1. CASE DirectStep(s, dropped) /\ i < Len(Backends[m]) /\ todo'[c] = <<t>>
      <4>1. Len(<<t>>) = 1 /\ \A k \in 1 .. 1 : <<t>>[k] = t
        OBVIOUS
      <4> QED
        BY <1>1, <1>4, <2>2, <3>1, <4>1
    <3>2. CASE todo'[c] = <<>>
      <4>1. Len(<<>>) = 0 /\ \A k \in 1 .. 0 : FALSE
        OBVIOUS
      <4> QED
        BY <2>2, <3>2, <4>1
    <3>3. CASE \A k \in 1 .. Len(todo'[c]) : ClientStep(todo'[c][k])
      BY <2>2, <3>3
    <3> QED
      BY <1>1, <3>1, <3>2, <3>3
  <2> QED
    BY <2>1, <2>2
<1>6. DataTyped
  BY DEF Typed, DataTyped
<1>7. ASSUME NEW n \in Metrics, NEW j \in 1 .. Len(Backends[n])
      PROVE  /\ \A l \in DOMAIN vec'[n][j] : vec'[n][j][l] \in Int
             /\ log'[n][j] \in Seq(Entries)
  <2>1. /\ \A l \in DOMAIN vec[n][j] : vec[n][j][l] \in Int
        /\ log[n][j] \in Seq(Entries)
    BY <1>6 DEF DataTyped
  <2>2. CASE n # m \/ j # i
    BY <1>3, <2>1, <2>2
  <2>3. CASE n = m /\ j = i
    <3>1. EMF(log[n][j], s) \in Seq(Entries)
      BY <1>1, <2>1, EMFType
    <3>2. \A l \in DOMAIN Prometheus(vec[n][j], s) : Prometheus(vec[n][j], s)[l] \in Int
      BY <1>2, <2>1, PrometheusType
    <3> QED
      BY <1>3, <2>1, <2>3, <3>1, <3>2
  <2> QED
    BY <2>2, <2>3
<1>8. DataTyped'
  BY <1>3, <1>7 DEF DataTyped
<1>9. served' \in Seq([request : Requests, codes : Attempts])
  BY <1>1 DEF Typed
<1> QED
  BY <1>1, <1>5, <1>8, <1>9 DEF Typed, DataTyped

\* Typed is inductive.
LEMMA TypedStep ==
    ASSUME Typed, [Next]_vars
    PROVE  Typed'
<1>1. CASE Next
  BY <1>1, NextCases, TypedCall, TypedRequest, TypedTakesStep DEF Called
<1>2. CASE UNCHANGED vars
  BY <1>2 DEF vars, Typed
<1> QED
  BY <1>1, <1>2

\* Typed holds at the start.
LEMMA TypedInit == Init => Typed
<1> SUFFICES ASSUME Init PROVE Typed
  OBVIOUS
<1>1. /\ todo \in [Callers -> Seq(Steps)] /\ \A c \in Callers : Len(todo[c]) = 0
      /\ served \in Seq([request : Requests, codes : Attempts])
  BY ShortSeqs DEF Init
<1>2. DataTyped
  <2>1. <<>> \in Seq(Entries) /\ DOMAIN <<>> = {}
    BY ShortSeqs
  <2> QED
    BY <2>1, BackendsType DEF Init, DataTyped
<1>3. \A c \in Callers : \A k \in 1 .. Len(todo[c]) : FALSE
  BY <1>1
<1> QED
  BY <1>1, <1>2, <1>3 DEF Typed, DataTyped

-----------------------------------------------------------------------------
(* What a step does to one series.                                         *)

\* The steps after which a series does not depend on what it was before.
Overwrites == Drops \cup {"Set"}

\* What a step does to the series l of a vector.
LEMMA PrometheusEffect ==
    ASSUME NEW series, \A k \in DOMAIN series : series[k] \in Int, NEW s \in Steps, NEW l
    PROVE  LET after == Prometheus(series, s) IN
           /\ ~Hits(s, l) => /\ l \in DOMAIN after <=> l \in DOMAIN series
                             /\ l \in DOMAIN series => after[l] = series[l]
           /\ Hits(s, l) /\ s.op \in Drops => l \notin DOMAIN after
           /\ Hits(s, l) /\ s.op = "Set" => l \in DOMAIN after /\ after[l] = s.v
           /\ Hits(s, l) /\ s.op \notin Overwrites =>
                 /\ l \in DOMAIN after
                 /\ after[l] = (IF l \in DOMAIN series THEN series[l] ELSE 0) + s.v
<1>1. s.op \in Ops /\ s.v \in Int
  BY DEF Steps
<1>2. CASE s.op \in Drops
  BY <1>2 DEF Prometheus, Overwrites, Drops
<1>3. CASE s.op \notin Drops
  <2>1. Hits(s, l) <=> s.labels = l
    BY <1>3 DEF Hits, Drops
  <2>2. CASE s.op = "Set"
    BY <1>1, <1>3, <2>1, <2>2 DEF Prometheus, Overwrites
  <2>3. CASE s.op # "Set"
    BY <1>1, <1>3, <2>1, <2>3 DEF Prometheus, Overwrites
  <2> QED
    BY <2>2, <2>3
<1> QED
  BY <1>2, <1>3

\* An entry of a series extends that series only.
LEMMA EntryExtends ==
    ASSUME NEW k \in Labels, NEW l \in Labels
    PROVE  Extends(withProperties(k), l) <=> k = l
<1>1. Extends(k, l) <=> k = l
  BY LabelsAssumption DEF Extends
<1>2. Extends(withProperties(k), l) <=> Extends(k, l)
  <2>1. withProperties(k) =
          [x \in DOMAIN Properties \cup DOMAIN k |->
              IF x \in DOMAIN Properties THEN Properties[x] ELSE k[x]]
    BY DEF withProperties
  <2>2. \A x \in DOMAIN l : x \notin DOMAIN Properties
    BY LabelsAssumption
  <2> QED
    BY <2>1, <2>2 DEF Extends
<1> QED
  BY <1>1, <1>2

\* A set of numbers up to a bound has its maximum.
LEMMA Greatest ==
    ASSUME NEW n \in Nat, NEW S \in SUBSET (1 .. n), S # {}
    PROVE  Max(S) \in S /\ \A x \in S : Max(S) >= x
<1> DEFINE T == {k \in 0 .. n : n - k \in S}
<1>1. PICK x \in S : TRUE
  OBVIOUS
<1>2. T \in SUBSET Nat /\ T # {}
  <2>1. n - x \in T
    BY <1>1
  <2>2. \A k \in T : k \in Nat
    OBVIOUS
  <2> HIDE DEF T
  <2> QED
    BY <2>1, <2>2
<1>3. PICK k \in T : \A y \in T : k <= y
  BY <1>2, Least
<1>4. ASSUME NEW y \in S PROVE n - k >= y
  <2>1. n - y \in T
    OBVIOUS
  <2>2. k <= n - y
    BY <1>3, <2>1
  <2> QED
    BY <2>2
<1>5. n - k \in S
  BY <1>3
<1>6. \E z \in S : \A y \in S : z >= y
  BY <1>4, <1>5
<1> QED
  BY <1>6, Zenon DEF Max

\* What an entry adds to the series l.
Reading(entries, l) ==
    [n \in 1 .. Len(entries) |-> IF n \in About(entries, l) THEN entries[n].v ELSE 0]

\* Every entry adds an integer.
LEMMA ReadingType ==
    ASSUME NEW entries \in Seq(Entries), NEW l
    PROVE  /\ Len(entries) \in Nat
           /\ Reading(entries, l) \in [1 .. Len(entries) -> Int]
           /\ \A n \in 1 .. Len(entries) : entries[n].v \in Int
<1>1. Len(entries) \in Nat /\ \A n \in 1 .. Len(entries) : entries[n] \in Entries
  OBVIOUS
<1>2. \A n \in 1 .. Len(entries) : entries[n].v \in Int
  BY <1>1 DEF Entries
<1> QED
  BY <1>1, <1>2 DEF Reading

\* What a log says of a series is an integer.
LEMMA ReplayedType ==
    ASSUME NEW kind, NEW entries \in Seq(Entries), NEW l
    PROVE  Replayed(kind, entries, l) \in Int
<1>1. CASE kind # "gauge"
  BY <1>1, ReadingType, TotalType DEF Replayed, Reading
<1>2. CASE kind = "gauge"
  <2>1. About(entries, l) \in SUBSET (1 .. Len(entries))
    BY DEF About
  <2>2. About(entries, l) # {} => Max(About(entries, l)) \in 1 .. Len(entries)
    BY <2>1, ReadingType, Greatest
  <2> QED
    BY <1>2, <2>2, ReadingType DEF Replayed
<1> QED
  BY <1>1, <1>2

\* An empty log says nothing of any series.
LEMMA ReplayedEmpty ==
    ASSUME NEW kind, NEW l
    PROVE  Replayed(kind, <<>>, l) = 0
<1>1. Len(<<>>) = 0 /\ About(<<>>, l) = {}
  BY DEF About
<1>2. Reading(<<>>, l) \in [1 .. 0 -> Int] /\ \A n \in 1 .. 0 : Reading(<<>>, l)[n] = 0
  BY <1>1 DEF Reading
<1>3. Total(Reading(<<>>, l)) = 0
  BY <1>2, TotalZero
<1> QED
  BY <1>1, <1>3 DEF Replayed, Reading

\* One more entry.
LEMMA ReplayedAppend ==
    ASSUME NEW kind, NEW entries \in Seq(Entries), NEW e \in Entries, NEW l
    PROVE  LET after == Replayed(kind, Append(entries, e), l)
               before == Replayed(kind, entries, l)
           IN  /\ ~Extends(e.fields, l) => after = before
               /\ Extends(e.fields, l) /\ kind = "gauge" => after = e.v
               /\ Extends(e.fields, l) /\ kind # "gauge" => after = before + e.v
<1> DEFINE N == Len(entries)
           all == Append(entries, e)
<1>1. /\ N \in Nat /\ all \in Seq(Entries) /\ Len(all) = N + 1 /\ all[N + 1] = e
      /\ \A n \in 1 .. N : all[n] = entries[n]
  OBVIOUS
<1> HIDE DEF N, all
<1>2. About(all, l) = About(entries, l) \cup (IF Extends(e.fields, l) THEN {N + 1} ELSE {})
  <2>1. About(all, l) = {n \in 1 .. N + 1 : Extends(all[n].fields, l)}
    BY <1>1 DEF About
  <2>2. About(entries, l) = {n \in 1 .. N : Extends(entries[n].fields, l)}
    BY DEF About, N
  <2>3. 1 .. N + 1 = (1 .. N) \cup {N + 1}
    BY <1>1
  <2> QED
    BY <1>1, <2>1, <2>2, <2>3
<1>3. About(entries, l) \in SUBSET (1 .. N)
  BY DEF About, N
<1>4. e.v \in Int /\ \A n \in 1 .. N : entries[n].v \in Int
  BY ReadingType DEF Entries, N
<1>5. CASE kind # "gauge"
  <2>1. /\ Reading(all, l) \in [1 .. N + 1 -> Int]
        /\ Reading(entries, l) \in [1 .. N -> Int]
    BY <1>1, ReadingType DEF N
  <2>2. \A n \in 1 .. N : Reading(all, l)[n] = Reading(entries, l)[n]
    <3>1. Len(all) = N + 1 /\ Len(entries) = N
      BY <1>1 DEF N
    <3>2. \A n \in 1 .. N : n \in 1 .. N + 1 /\ n # N + 1
      BY <1>1
    <3>3. \A n \in 1 .. N : n \in About(all, l) <=> n \in About(entries, l)
      BY <1>2, <3>2
    <3> QED
      BY <1>1, <3>1, <3>2, <3>3 DEF Reading
  <2>3. Total(Reading(all, l)) = Total(Reading(entries, l)) + Reading(all, l)[N + 1]
    BY <1>1, <2>1, <2>2, TotalAppend
  <2>4. Reading(all, l)[N + 1] = IF Extends(e.fields, l) THEN e.v ELSE 0
    <3>1. N + 1 \in 1 .. Len(all) /\ N + 1 \notin 1 .. N
      BY <1>1
    <3>2. N + 1 \in About(all, l) <=> Extends(e.fields, l)
      BY <1>2, <1>3, <3>1
    <3> QED
      BY <1>1, <3>1, <3>2 DEF Reading
  <2>5. Total(Reading(entries, l)) \in Int
    BY <1>1, <2>1, TotalType
  <2>6. /\ Replayed(kind, all, l) = Total(Reading(all, l))
        /\ Replayed(kind, entries, l) = Total(Reading(entries, l))
    BY <1>5 DEF Replayed, Reading
  <2> QED
    BY <1>4, <1>5, <2>3, <2>4, <2>5, <2>6 DEF all
<1>6. CASE kind = "gauge" /\ Extends(e.fields, l)
  <2>1. About(all, l) \in SUBSET (1 .. N + 1) /\ N + 1 \in About(all, l)
    BY <1>1, <1>2, <1>3, <1>6
  <2>2. Max(About(all, l)) \in 1 .. N + 1 /\ Max(About(all, l)) >= N + 1
    <3>1. N + 1 \in Nat /\ About(all, l) # {}
      BY <1>1, <2>1
    <3>2. Max(About(all, l)) \in About(all, l) /\ \A x \in About(all, l) : Max(About(all, l)) >= x
      BY <2>1, <3>1, Greatest
    <3> QED
      BY <2>1, <3>2
  <2>3. Max(About(all, l)) = N + 1
    BY <1>1, <2>2
  <2> QED
    BY <1>1, <1>6, <2>1, <2>3 DEF Replayed, all
<1>7. CASE kind = "gauge" /\ ~Extends(e.fields, l)
  <2>1. About(all, l) = About(entries, l)
    BY <1>2, <1>7
  <2>2. About(entries, l) # {} => Max(About(entries, l)) \in 1 .. N
    BY <1>1, <1>3, Greatest
  <2> QED
    BY <1>1, <1>7, <2>1, <2>2 DEF Replayed, all
<1> QED
  BY <1>5, <1>6, <1>7

\* What a log says of a series after a step.
LEMMA EMFEffect ==
    ASSUME NEW kind, NEW entries \in Seq(Entries), NEW s \in Steps, NEW l \in Labels,
           s.op \notin Drops => s.labels \in Labels /\ (s.op = "Set" <=> kind = "gauge")
    PROVE  LET after == Replayed(kind, EMF(entries, s), l)
               before == Replayed(kind, entries, l)
           IN  /\ ~Hits(s, l) \/ s.op \in Drops => after = before
               /\ Hits(s, l) /\ s.op = "Set" => after = s.v
               /\ Hits(s, l) /\ s.op \notin Overwrites => after = before + s.v
<1>1. CASE s.op \in Drops
  BY <1>1 DEF EMF, Overwrites, Drops
<1>2. CASE s.op \notin Drops
  <2>1. Hits(s, l) <=> s.labels = l
    BY <1>2 DEF Hits, Drops
  <2>2. /\ Entry(s) \in Entries /\ Entry(s).v = s.v
        /\ Entry(s).fields = withProperties(s.labels)
    BY DEF Entry, Entries, Steps
  <2>3. Extends(Entry(s).fields, l) <=> Hits(s, l)
    BY <1>2, <2>1, <2>2, EntryExtends
  <2>4. EMF(entries, s) = Append(entries, Entry(s))
    BY <1>2 DEF EMF
  <2> HIDE DEF Entry
  <2>5. /\ ~Hits(s, l) => Replayed(kind, EMF(entries, s), l) = Replayed(kind, entries, l)
        /\ Hits(s, l) /\ kind = "gauge" => Replayed(kind, EMF(entries, s), l) = s.v
        /\ Hits(s, l) /\ kind # "gauge" =>
              Replayed(kind, EMF(entries, s), l) = Replayed(kind, entries, l) + s.v
    BY <2>2, <2>3, <2>4, ReplayedAppend
  <2> QED
    BY <1>2, <2>5 DEF Overwrites
<1> QED
  BY <1>1, <1>2

-----------------------------------------------------------------------------
(* The agreement of the backends on one series, which goes by the calls    *)
(* under way that hit it (w), whether each vector has it (has), what each  *)
(* backend says of it (says) and whether it was dropped (gone).            *)

\* The steps that add to a series.
Increments == {"Inc", "Add", "Observe"}

\* The number of backends.
Size(m) == Len(Backends[m])

\* Whether a backend is a Prometheus vector.
Vector(m, i) == Backends[m][i] = "prometheus"

\* A call on its way, as far as the series is concerned.
Task(op, backend, v) == [op |-> op, backend |-> backend, v |-> v]

\* No call on its way.
Idle == Task("none", 0, 0)

\* All calls, as far as a series is concerned.
Tasks == [op : Ops \cup {"none"}, backend : Nat, v : Int]

\* An increment or observation has still to come to backend i.
ComesTo(w, c, i) == w[c].op \in Increments /\ w[c].backend <= i

\* What the callers will still add at backend i.
Pend(w, i) == [c \in Callers |-> IF ComesTo(w, c, i) THEN w[c].v ELSE 0]

\* Whether a vector has the series, or will when the calls under way are over.
WillHave(w, has, i) == has[i] \/ \E c \in Callers : ComesTo(w, c, i)

\* A backend that a call which sets or drops the series has been at.
Shows(m, has, says, i, task) ==
    /\ task.op = "Set" => says[i] = task.v
    /\ Vector(m, i) => (has[i] <=> task.op = "Set")

\* A call sets or drops the series, and the backends behind it show it.
Sweeping(m, w, has, says) ==
    \E c \in Callers :
        /\ w[c].op \in Overwrites
        /\ \A i \in 1 .. Size(m) : i < w[c].backend => Shows(m, has, says, i, w[c])

\* The backends whose word counts: not a log that has not heard of a drop.
Counts(m, has, gone, i) ==
    \/ Vector(m, i)
    \/ Kind[m] = "gauge" /\ \E j \in 1 .. Size(m) : has[j]
    \/ Kind[m] # "gauge" /\ ~gone

\* With what is still to come to them, the backends say the same.
Even(m, w, has, says, gone) ==
    /\ \A c \in Callers : w[c].op # "Set"
    /\ \A c \in Callers : w[c].op \in Drops => \A i \in 1 .. Size(m) : ~has[i]
    /\ \A i, j \in 1 .. Size(m) :
          Vector(m, i) /\ Vector(m, j) => (WillHave(w, has, i) <=> WillHave(w, has, j))
    /\ \E t \in Int : \A i \in 1 .. Size(m) :
          Counts(m, has, gone, i) => says[i] + Over(Pend(w, i)) = t

\* The calls under way commute.
Uncrossed(w) ==
    \A c, d \in Callers :
        c # d /\ w[c].op # "none" /\ w[d].op # "none" => Commute(w[c].op, w[d].op)

\* What the calls under way do commutes; either one overwrites, or all are even.
Agreeing(m, w, has, says, gone) ==
    Uncrossed(w) /\ (Sweeping(m, w, has, says) \/ Even(m, w, has, says, gone))

\* What is true of a series whatever happens.
Sane(m, w, has, says, gone) ==
    /\ m \in Metrics
    /\ w \in [Callers -> Tasks]
    /\ has \in [1 .. Size(m) -> BOOLEAN]
    /\ says \in [1 .. Size(m) -> Int]
    /\ \A i \in 1 .. Size(m) : has[i] => Vector(m, i)
    /\ \A i \in 1 .. Size(m) : Vector(m, i) /\ ~has[i] => says[i] = 0
    /\ \A c \in Callers :
          /\ w[c].op # "none" => w[c].backend \in 1 .. Size(m)
          /\ w[c].op = "none" => w[c] = Idle
          /\ w[c].op = "Set" => Kind[m] = "gauge"
          /\ w[c].op \in Increments => Kind[m] # "gauge"
          /\ w[c].op \in Drops => gone

\* The steps overwrite a series or add to it, and not both.
LEMMA OpCases ==
    /\ Ops = Increments \cup Overwrites
    /\ Increments \cap Overwrites = {} /\ "none" \notin Ops
    /\ Overwrites = Drops \cup {"Set"} /\ "Set" \notin Drops
    /\ \A op1, op2 : Commute(op1, op2) <=>
          op1 # "Set" /\ op2 # "Set" /\ (op1 \in Drops <=> op2 \in Drops)
BY DEF Ops, Increments, Overwrites, Drops, Commute

\* What the callers will still add are integers.
LEMMA PendType ==
    ASSUME NEW w \in [Callers -> Tasks], NEW i
    PROVE  Pend(w, i) \in [Callers -> Int]
BY DEF Pend, Tasks

\* If no increment is under way, nothing will be added.
LEMMA PendZero ==
    ASSUME NEW w \in [Callers -> Tasks], NEW i, \A c \in Callers : w[c].op \notin Increments
    PROVE  Over(Pend(w, i)) = 0
<1>1. \A c \in Callers : Pend(w, i)[c] = 0
  BY DEF Pend, ComesTo
<1> QED
  BY <1>1, PendType, OverZero

\* A call that sets or drops the series starts, and meets no other.
LEMMA StartsOver ==
    ASSUME NEW m, NEW w, NEW has, NEW says, NEW gone, NEW x,
           Sane(m, w, has, says, gone), NEW c \in Callers, w[c] = Idle,
           NEW op \in Overwrites, NEW v \in Int,
           \A d \in Callers \ {c} : w[d].op # "none" => Commute(op, w[d].op),
           x = [w EXCEPT ![c] = Task(op, 1, v)]
    PROVE  \A gone2 : Agreeing(m, x, has, says, gone2)
<1>1. x[c].op = op /\ x[c].backend = 1 /\ \A d \in Callers \ {c} : x[d] = w[d]
  BY DEF Task, Sane
<1>2. Sweeping(m, x, has, says)
  <2>1. Size(m) \in Nat
    BY BackendsType DEF Sane, Size
  <2>2. \A i \in 1 .. Size(m) : ~(i < x[c].backend)
    BY <1>1, <2>1
  <2> QED
    BY <1>1, <2>2 DEF Sweeping
<1>3. Uncrossed(x)
  <2> SUFFICES ASSUME NEW d \in Callers, NEW e \in Callers, d # e,
                      x[d].op # "none", x[e].op # "none"
               PROVE  Commute(x[d].op, x[e].op)
    BY DEF Uncrossed
  <2>1. CASE d = c
    BY <1>1, <2>1
  <2>2. CASE e = c
    BY <1>1, <2>2, OpCases
  <2>3. CASE d # c /\ e # c
    BY <1>1, <2>3, OpCases
  <2> QED
    BY <2>1, <2>2, <2>3
<1> QED
  BY <1>2, <1>3 DEF Agreeing

\* An increment or observation starts.
LEMMA StartsIncrement ==
    ASSUME NEW m, NEW w, NEW has, NEW says, NEW gone, NEW x,
           Sane(m, w, has, says, gone), Agreeing(m, w, has, says, gone),
           NEW c \in Callers, w[c] = Idle, NEW op \in Increments, NEW v \in Int,
           \A d \in Callers \ {c} : w[d].op # "none" => Commute(op, w[d].op),
           x = [w EXCEPT ![c] = Task(op, 1, v)]
    PROVE  Agreeing(m, x, has, says, gone)
<1>0. /\ w \in [Callers -> Tasks] /\ Size(m) \in Nat /\ op # "none" /\ op \notin Overwrites
      /\ says \in [1 .. Size(m) -> Int] /\ w[c].op = "none"
  BY BackendsType, OpCases DEF Sane, Size, Idle, Task
<1>1. /\ x[c].op = op /\ x[c].backend = 1 /\ x[c].v = v
      /\ \A d \in Callers \ {c} : x[d] = w[d]
  BY <1>0 DEF Task
<1>2. x \in [Callers -> Tasks]
  BY <1>0, OpCases DEF Tasks, Task
<1>3. \A d \in Callers : w[d].op \notin Overwrites
  BY <1>0, OpCases
<1>4. Uncrossed(x)
  <2> SUFFICES ASSUME NEW d \in Callers, NEW e \in Callers, d # e,
                      x[d].op # "none", x[e].op # "none"
               PROVE  Commute(x[d].op, x[e].op)
    BY DEF Uncrossed
  <2>1. CASE d = c
    BY <1>1, <2>1
  <2>2. CASE e = c
    BY <1>1, <2>2, OpCases
  <2>3. CASE d # c /\ e # c
    BY <1>1, <2>3, OpCases DEF Agreeing, Uncrossed
  <2> QED
    BY <2>1, <2>2, <2>3
<1>5. Even(m, w, has, says, gone)
  BY <1>3 DEF Agreeing, Sweeping
<1>6. \A d \in Callers : x[d].op # "Set" /\ x[d].op \notin Drops
  BY <1>0, <1>1, <1>3, OpCases
<1>7. \A i \in 1 .. Size(m) : WillHave(x, has, i)
  BY <1>0, <1>1 DEF WillHave, ComesTo
<1>8. ASSUME NEW i \in 1 .. Size(m)
      PROVE  Over(Pend(x, i)) = Over(Pend(w, i)) + v /\ Over(Pend(w, i)) \in Int
  <2>1. Pend(w, i) \in [Callers -> Int] /\ Pend(x, i) \in [Callers -> Int]
    BY <1>0, <1>2, PendType
  <2>2. \A d \in Callers \ {c} : Pend(x, i)[d] = Pend(w, i)[d]
    BY <1>1 DEF Pend, ComesTo
  <2>3. Pend(x, i)[c] = v /\ Pend(w, i)[c] = 0
    BY <1>0, <1>1, OpCases DEF Pend, ComesTo
  <2>4. Over(Pend(w, i)) \in Int
    BY <2>1, OverType
  <2>5. Over(Pend(x, i)) = Over(Pend(w, i)) + (Pend(x, i)[c] - Pend(w, i)[c])
    BY <2>1, <2>2, OverChange
  <2> QED
    BY <2>3, <2>4, <2>5
<1>9. PICK t \in Int : \A i \in 1 .. Size(m) :
        Counts(m, has, gone, i) => says[i] + Over(Pend(w, i)) = t
  BY <1>5 DEF Even
<1>10. \A i \in 1 .. Size(m) : Counts(m, has, gone, i) => says[i] + Over(Pend(x, i)) = t + v
  <2> SUFFICES ASSUME NEW i \in 1 .. Size(m), Counts(m, has, gone, i)
               PROVE  says[i] + Over(Pend(x, i)) = t + v
    OBVIOUS
  <2>1. says[i] \in Int /\ says[i] + Over(Pend(w, i)) = t
    BY <1>0, <1>9
  <2>2. Over(Pend(x, i)) = Over(Pend(w, i)) + v /\ Over(Pend(w, i)) \in Int
    BY <1>8
  <2>3. \A a, b \in Int : a + b = t => a + (b + v) = t + v
    OBVIOUS
  <2> QED
    BY <2>1, <2>2, <2>3
<1>11. t + v \in Int
  OBVIOUS
<1>12. Even(m, x, has, says, gone)
  BY <1>6, <1>7, <1>10, <1>11 DEF Even
<1> QED
  BY <1>4, <1>12 DEF Agreeing

\* A drop is under way and no vector has the series.
LEMMA AllAbsent ==
    ASSUME NEW m, NEW x, NEW has, NEW says, NEW gone,
           m \in Metrics, x \in [Callers -> Tasks], says \in [1 .. Size(m) -> Int],
           \A i \in 1 .. Size(m) : ~has[i],
           \A i \in 1 .. Size(m) : Vector(m, i) => says[i] = 0,
           \A c \in Callers : x[c].op = "none" \/ x[c].op \in Drops,
           gone
    PROVE  Even(m, x, has, says, gone)
<1>1. \A c \in Callers : x[c].op \notin Increments /\ x[c].op # "Set"
  BY OpCases
<1>2. \A i : Over(Pend(x, i)) = 0
  BY <1>1, PendZero
<1>3. \A i \in 1 .. Size(m) : ~WillHave(x, has, i)
  BY <1>1 DEF WillHave, ComesTo
<1>4. \A i \in 1 .. Size(m) : Counts(m, has, gone, i) => says[i] + Over(Pend(x, i)) = 0
  BY <1>2 DEF Counts
<1>5. \E t \in Int : \A i \in 1 .. Size(m) : Counts(m, has, gone, i) => says[i] + Over(Pend(x, i)) = t
  <2>1. 0 \in Int
    OBVIOUS
  <2> QED
    BY <1>4, <2>1
<1> QED
  BY <1>1, <1>3, <1>5 DEF Even

\* A call that drops the series goes on.
LEMMA MovesDrop ==
    ASSUME NEW m, NEW w, NEW has, NEW says, NEW gone, NEW x, NEW has2, NEW says2,
           Sane(m, w, has, says, gone), Agreeing(m, w, has, says, gone),
           Sane(m, x, has2, says2, gone),
           NEW c \in Callers, w[c].op \in Drops, NEW i, i = w[c].backend,
           \A d \in Callers \ {c} : x[d] = w[d],
           \/ i < Size(m) /\ x[c] = Task(w[c].op, i + 1, w[c].v)
           \/ i = Size(m) /\ x[c] = Idle,
           \A j \in 1 .. Size(m) : j # i => has2[j] = has[j] /\ says2[j] = says[j],
           Vector(m, i) => ~has2[i]
    PROVE  Agreeing(m, x, has2, says2, gone)
<1>0. /\ m \in Metrics /\ Size(m) \in Nat /\ i \in 1 .. Size(m) /\ gone /\ w[c].op # "none"
      /\ w \in [Callers -> Tasks] /\ x \in [Callers -> Tasks]
      /\ says2 \in [1 .. Size(m) -> Int]
      /\ \A j \in 1 .. Size(m) : has2[j] => Vector(m, j)
      /\ \A j \in 1 .. Size(m) : Vector(m, j) /\ ~has2[j] => says2[j] = 0
  BY BackendsType, OpCases DEF Sane, Size
<1>1. \A d \in Callers : w[d].op = "none" \/ w[d].op \in Drops
  BY <1>0, OpCases DEF Agreeing, Uncrossed
<1>2. x[c].op = "none" \/ x[c].op = w[c].op
  BY DEF Task, Idle
<1>3. \A d \in Callers : x[d].op = "none" \/ x[d].op \in Drops
  BY <1>1, <1>2
<1>4. Uncrossed(x)
  BY <1>3, OpCases DEF Uncrossed
<1>5. ~has2[i]
  BY <1>0
<1>6. (\A j \in 1 .. Size(m) : ~has2[j]) => Even(m, x, has2, says2, gone)
  BY <1>0, <1>3, AllAbsent
<1>7. CASE Sweeping(m, w, has, says)
  <2>1. PICK e \in Callers :
          /\ w[e].op \in Overwrites
          /\ \A j \in 1 .. Size(m) : j < w[e].backend => Shows(m, has, says, j, w[e])
    BY <1>7 DEF Sweeping
  <2>2. w[e].op \in Drops /\ w[e].op # "Set"
    BY <1>1, <2>1, OpCases
  <2>3. \A j \in 1 .. Size(m) : j < w[e].backend => (Vector(m, j) => ~has[j])
    BY <2>1, <2>2 DEF Shows
  <2>4. CASE e # c
    <3>1. x[e] = w[e]
      BY <2>4
    <3>2. \A j \in 1 .. Size(m) : j < x[e].backend => Shows(m, has2, says2, j, x[e])
      BY <1>5, <2>2, <2>3, <3>1 DEF Shows
    <3> QED
      BY <1>4, <2>1, <3>1, <3>2 DEF Agreeing, Sweeping
  <2>5. CASE e = c /\ i = Size(m)
    <3>1. \A j \in 1 .. Size(m) : j # i => j < w[e].backend
      BY <1>0, <2>5
    <3>2. \A j \in 1 .. Size(m) : ~has2[j]
      BY <1>0, <1>5, <2>3, <3>1
    <3> QED
      BY <1>4, <1>6, <3>2 DEF Agreeing
  <2>6. CASE e = c /\ i < Size(m)
    <3>1. x[c].op = w[c].op /\ x[c].backend = i + 1
      BY <1>0, <2>6 DEF Task
    <3>2. \A j \in 1 .. Size(m) : j < i + 1 => j = i \/ j < i
      BY <1>0
    <3>3. \A j \in 1 .. Size(m) : j < i + 1 => (Vector(m, j) => ~has2[j])
      BY <1>5, <2>3, <2>6, <3>2
    <3>4. \A j \in 1 .. Size(m) : j < x[c].backend => Shows(m, has2, says2, j, x[c])
      BY <2>2, <2>6, <3>1, <3>3 DEF Shows
    <3> QED
      BY <1>4, <2>1, <2>6, <3>1, <3>4 DEF Agreeing, Sweeping
  <2> QED
    BY <1>0, <2>4, <2>5, <2>6
<1>8. CASE Even(m, w, has, says, gone)
  <2>1. \A j \in 1 .. Size(m) : ~has[j]
    BY <1>8 DEF Even
  <2>2. \A j \in 1 .. Size(m) : ~has2[j]
    BY <1>5, <2>1
  <2> QED
    BY <1>4, <1>6, <2>2 DEF Agreeing
<1> QED
  BY <1>7, <1>8 DEF Agreeing

\* A call that sets the series goes on.
LEMMA MovesSet ==
    ASSUME NEW m, NEW w, NEW has, NEW says, NEW gone, NEW x, NEW has2, NEW says2,
           Sane(m, w, has, says, gone), Agreeing(m, w, has, says, gone),
           Sane(m, x, has2, says2, gone),
           NEW c \in Callers, w[c].op = "Set", NEW i, i = w[c].backend,
           \A d \in Callers \ {c} : x[d] = w[d],
           \/ i < Size(m) /\ x[c] = Task(w[c].op, i + 1, w[c].v)
           \/ i = Size(m) /\ x[c] = Idle,
           \A j \in 1 .. Size(m) : j # i => has2[j] = has[j] /\ says2[j] = says[j],
           Vector(m, i) => has2[i],
           says2[i] = w[c].v
    PROVE  Agreeing(m, x, has2, says2, gone)
<1>0. /\ m \in Metrics /\ Size(m) \in Nat /\ i \in 1 .. Size(m)
      /\ w \in [Callers -> Tasks] /\ x \in [Callers -> Tasks] /\ w[c].v \in Int
      /\ says2 \in [1 .. Size(m) -> Int] /\ Kind[m] = "gauge"
  BY BackendsType, OpCases DEF Sane, Size, Tasks
<1>1. \A d \in Callers \ {c} : w[d].op = "none" /\ x[d].op = "none"
  BY OpCases DEF Agreeing, Uncrossed
<1>2. Uncrossed(x)
  BY <1>1 DEF Uncrossed
<1>3. \A j \in 1 .. Size(m) : j < i => Shows(m, has, says, j, w[c])
  <2>1. Sweeping(m, w, has, says)
    BY DEF Agreeing, Even
  <2>2. "none" \notin Overwrites
    BY OpCases
  <2> QED
    BY <1>1, <2>1, <2>2 DEF Sweeping
<1>4. \A j \in 1 .. Size(m) : j <= i => says2[j] = w[c].v /\ (Vector(m, j) => has2[j])
  <2>1. \A j \in 1 .. Size(m) : j <= i => j = i \/ (j # i /\ j < i)
    BY <1>0
  <2> QED
    BY <1>3, <2>1 DEF Shows
<1>5. CASE i < Size(m)
  <2>1. x[c].op = "Set" /\ x[c].backend = i + 1 /\ x[c].v = w[c].v
    BY <1>0, <1>5 DEF Task
  <2>2. \A j \in 1 .. Size(m) : j < i + 1 => j <= i
    BY <1>0
  <2>3. \A j \in 1 .. Size(m) : j < x[c].backend => Shows(m, has2, says2, j, x[c])
    BY <1>4, <2>1, <2>2 DEF Shows
  <2> QED
    BY <1>2, <2>1, <2>3, OpCases DEF Agreeing, Sweeping
<1>6. CASE i = Size(m)
  <2>1. x[c].op = "none"
    BY <1>0, <1>6 DEF Task, Idle
  <2>2. \A d \in Callers : x[d].op = "none"
    BY <1>1, <2>1
  <2>3. \A j : Over(Pend(x, j)) = 0
    BY <1>0, <2>2, OpCases, PendZero
  <2>4. \A j \in 1 .. Size(m) : says2[j] = w[c].v /\ (Vector(m, j) => has2[j])
    BY <1>0, <1>4, <1>6
  <2>5. \A j \in 1 .. Size(m) : says2[j] + Over(Pend(x, j)) = w[c].v
    BY <1>0, <2>3, <2>4
  <2>6. Even(m, x, has2, says2, gone)
    BY <1>0, <2>2, <2>4, <2>5, OpCases DEF Even, WillHave
  <2> QED
    BY <1>2, <2>6 DEF Agreeing
<1> QED
  BY <1>0, <1>5, <1>6

\* An increment or observation goes on.
LEMMA MovesIncrement ==
    ASSUME NEW m, NEW w, NEW has, NEW says, NEW gone, NEW x, NEW has2, NEW says2,
           Sane(m, w, has, says, gone), Agreeing(m, w, has, says, gone),
           Sane(m, x, has2, says2, gone),
           NEW c \in Callers, w[c].op \in Increments, NEW i, i = w[c].backend,
           \A d \in Callers \ {c} : x[d] = w[d],
           \/ i < Size(m) /\ x[c] = Task(w[c].op, i + 1, w[c].v)
           \/ i = Size(m) /\ x[c] = Idle,
           \A j \in 1 .. Size(m) : j # i => has2[j] = has[j] /\ says2[j] = says[j],
           Vector(m, i) => has2[i],
           says2[i] = says[i] + w[c].v
    PROVE  Agreeing(m, x, has2, says2, gone)
<1>0. /\ m \in Metrics /\ Size(m) \in Nat /\ i \in 1 .. Size(m) /\ w[c].op # "none"
      /\ w[c].op \notin Overwrites /\ w[c].op # "Set"
      /\ w \in [Callers -> Tasks] /\ x \in [Callers -> Tasks] /\ w[c].v \in Int
      /\ says \in [1 .. Size(m) -> Int] /\ says2 \in [1 .. Size(m) -> Int] /\ Kind[m] # "gauge"
  BY BackendsType, OpCases DEF Sane, Size, Tasks
<1>1. \A d \in Callers : w[d].op \notin Overwrites
  BY <1>0, OpCases DEF Agreeing, Uncrossed
<1>2. x[c].op = "none" \/ x[c].op = w[c].op
  BY DEF Task, Idle
<1>3. Uncrossed(x)
  BY <1>0, <1>2, OpCases DEF Agreeing, Uncrossed
<1>4. Even(m, w, has, says, gone)
  BY <1>1 DEF Agreeing, Sweeping
<1>5. \A d \in Callers : x[d].op # "Set" /\ x[d].op \notin Drops
  <2>1. \A d \in Callers : x[d].op = "none" \/ x[d].op = w[d].op
    BY <1>2
  <2>2. "none" \notin Overwrites /\ "Set" \in Overwrites /\ Drops \subseteq Overwrites
    BY OpCases
  <2> QED
    BY <1>1, <2>1, <2>2
<1>6. ASSUME NEW j \in 1 .. Size(m)
      PROVE  /\ ComesTo(w, c, j) <=> i <= j
             /\ ComesTo(x, c, j) <=> i < j
             /\ i < j => x[c].v = w[c].v
  <2>1. CASE i < Size(m)
    <3>1. x[c].op = w[c].op /\ x[c].backend = i + 1 /\ x[c].v = w[c].v
      BY <1>0, <2>1 DEF Task
    <3> QED
      BY <1>0, <3>1 DEF ComesTo
  <2>2. CASE i = Size(m)
    <3>1. x[c].op = "none"
      BY <1>0, <2>2 DEF Task, Idle
    <3>2. x[c].op \notin Increments
      BY <3>1, OpCases
    <3> QED
      BY <1>0, <2>2, <3>2 DEF ComesTo
  <2> QED
    BY <1>0, <2>1, <2>2
<1>7. \A j \in 1 .. Size(m) : Vector(m, j) => (WillHave(x, has2, j) <=> WillHave(w, has, j))
  <2> SUFFICES ASSUME NEW j \in 1 .. Size(m), Vector(m, j)
               PROVE  WillHave(x, has2, j) <=> WillHave(w, has, j)
    OBVIOUS
  <2>0. \A d \in Callers \ {c} : ComesTo(x, d, j) <=> ComesTo(w, d, j)
    BY DEF ComesTo
  <2>1. CASE j = i
    BY <1>0, <1>6, <2>1 DEF WillHave
  <2>2. CASE j # i
    <3>1. ComesTo(w, c, j) <=> ComesTo(x, c, j)
      BY <1>0, <1>6, <2>2
    <3> QED
      BY <2>0, <2>2, <3>1 DEF WillHave
  <2> QED
    BY <2>1, <2>2
<1>8. ASSUME NEW j \in 1 .. Size(m)
      PROVE  says2[j] + Over(Pend(x, j)) = says[j] + Over(Pend(w, j))
  <2>1. Pend(w, j) \in [Callers -> Int] /\ Pend(x, j) \in [Callers -> Int]
    BY <1>0, PendType
  <2>2. \A d \in Callers \ {c} : Pend(x, j)[d] = Pend(w, j)[d]
    BY DEF Pend, ComesTo
  <2>3. Over(Pend(w, j)) \in Int
    BY <2>1, OverType
  <2>4. Over(Pend(x, j)) = Over(Pend(w, j)) + (Pend(x, j)[c] - Pend(w, j)[c])
    BY <2>1, <2>2, OverChange
  <2>5. /\ Pend(w, j)[c] = IF i <= j THEN w[c].v ELSE 0
        /\ Pend(x, j)[c] = IF i < j THEN w[c].v ELSE 0
    BY <1>6 DEF Pend
  <2>6. CASE j = i
    <3>1. Over(Pend(x, j)) = Over(Pend(w, j)) + (0 - w[c].v)
      BY <1>0, <2>4, <2>5, <2>6
    <3>2. says[j] \in Int /\ says2[j] = says[j] + w[c].v
      BY <1>0, <2>6
    <3>3. \A a, b, v \in Int : (a + v) + (b + (0 - v)) = a + b
      OBVIOUS
    <3> QED
      BY <1>0, <2>3, <3>1, <3>2, <3>3
  <2>7. CASE j # i
    <3>1. Pend(x, j)[c] = Pend(w, j)[c] /\ Pend(w, j)[c] \in Int
      BY <1>0, <2>5, <2>7
    <3>2. \A b, v \in Int : b + (v - v) = b
      OBVIOUS
    <3>3. Over(Pend(x, j)) = Over(Pend(w, j))
      BY <2>3, <2>4, <3>1, <3>2
    <3> QED
      BY <2>7, <3>3
  <2> QED
    BY <2>6, <2>7
<1>9. \A j \in 1 .. Size(m) : Counts(m, has2, gone, j) <=> Counts(m, has, gone, j)
  BY <1>0 DEF Counts
<1>10. Even(m, x, has2, says2, gone)
  <2>1. \A j, k \in 1 .. Size(m) :
          Vector(m, j) /\ Vector(m, k) => (WillHave(x, has2, j) <=> WillHave(x, has2, k))
    BY <1>4, <1>7 DEF Even
  <2>2. PICK t \in Int : \A j \in 1 .. Size(m) :
          Counts(m, has, gone, j) => says[j] + Over(Pend(w, j)) = t
    BY <1>4 DEF Even
  <2>3. \A j \in 1 .. Size(m) : Counts(m, has2, gone, j) => says2[j] + Over(Pend(x, j)) = t
    BY <1>8, <1>9, <2>2
  <2> QED
    BY <1>5, <2>1, <2>3 DEF Even
<1> QED
  BY <1>3, <1>10 DEF Agreeing

-----------------------------------------------------------------------------
(* The agreement of the backends, as a property of the state.              *)

\* What a caller with steps q left is doing to a series.
TaskOf(q, m, l) ==
    IF q # <<>> /\ q[1].metric = m /\ Hits(q[1], l)
    THEN Task(q[1].op, q[1].backend, q[1].v) ELSE Idle

\* What the callers are doing to a series, with steps Q left.
Work(Q, m, l) == [c \in Callers |-> TaskOf(Q[c], m, l)]

\* The vectors that have a series, of a metric whose vectors are V.
Having(m, V, l) == [i \in 1 .. Size(m) |-> Vector(m, i) /\ l \in DOMAIN V[i]]

\* What the backends say of a series; L are the logs of the metric.
Saying(m, V, L, l) ==
    [i \in 1 .. Size(m) |->
        IF Vector(m, i) THEN (IF l \in DOMAIN V[i] THEN V[i][l] ELSE 0)
        ELSE Replayed(Kind[m], L[i], l)]

(***************************************************************************)
(* The second: a series that is not contended is Agreeing at every moment, *)
(* not only when its calls are over.  BackendsAgree alone is not           *)
(* inductive: it says nothing while a call is under way.                   *)
(***************************************************************************)
AgreeInv ==
    \A m \in Metrics \ ClientMetrics, l \in Labels :
        <<m, l>> \notin contended =>
            Agreeing(m, Work(todo, m, l), Having(m, vec[m], l), Saying(m, vec[m], log[m], l),
                     <<m, l>> \in dropped)

\* A caller with nothing left does nothing.
LEMMA TaskOfEmpty == ASSUME NEW m, NEW l PROVE TaskOf(<<>>, m, l) = Idle
BY DEF TaskOf

\* A caller with one step left is doing that.
LEMMA TaskOfOne ==
    ASSUME NEW s, NEW m, NEW l
    PROVE  TaskOf(<<s>>, m, l) =
              IF s.metric = m /\ Hits(s, l) THEN Task(s.op, s.backend, s.v) ELSE Idle
<1>1. <<s>> # <<>> /\ <<s>>[1] = s
  OBVIOUS
<1> QED
  BY <1>1 DEF TaskOf

\* A caller in a request of client-go's does nothing to the operator's metrics.
LEMMA TaskOfClient ==
    ASSUME NEW q \in Seq(Steps), \A k \in 1 .. Len(q) : ClientStep(q[k]),
           NEW m \in Metrics \ ClientMetrics, NEW l
    PROVE  TaskOf(q, m, l) = Idle
<1>1. q # <<>> => 1 \in 1 .. Len(q)
  <2>1. q # <<>> => Len(q) \in Nat \ {0}
    BY ShortSeqs
  <2>2. \A n \in Nat \ {0} : 1 \in 1 .. n
    OBVIOUS
  <2> QED
    BY <2>1, <2>2
<1>2. q # <<>> => q[1].metric # m
  BY <1>1 DEF ClientStep
<1> QED
  BY <1>2 DEF TaskOf

\* What a caller does to a series, by its queue.
LEMMA TaskOfSane ==
    ASSUME NEW q \in Seq(Steps), NEW D,
           \/ Len(q) <= 1 /\ \A k \in 1 .. Len(q) : DirectStep(q[k], D)
           \/ \A k \in 1 .. Len(q) : ClientStep(q[k]),
           NEW m \in Metrics \ ClientMetrics, NEW l \in Labels
    PROVE  LET t == TaskOf(q, m, l) IN
           /\ t \in Tasks
           /\ t.op # "none" => t.backend \in 1 .. Size(m)
           /\ t.op = "none" => t = Idle
           /\ t.op = "Set" => Kind[m] = "gauge"
           /\ t.op \in Increments => Kind[m] # "gauge"
           /\ t.op \in Drops => <<m, l>> \in D
<1> DEFINE t == TaskOf(q, m, l)
<1>0. Idle \in Tasks /\ Idle.op = "none"
  BY DEF Idle, Task, Tasks
<1>1. CASE t = Idle
  <2> HIDE DEF t
  <2> QED
    BY <1>0, <1>1, OpCases DEF t
<1>2. CASE q # <<>> /\ q[1].metric = m /\ Hits(q[1], l)
  <2>1. Len(q) \in Nat \ {0}
    BY <1>2, ShortSeqs
  <2>2. \A n \in Nat \ {0} : 1 \in 1 .. n
    OBVIOUS
  <2>3. q[1] \in Steps /\ 1 \in 1 .. Len(q)
    BY <2>1, <2>2
  <2>4. DirectStep(q[1], D)
    BY <1>2, <2>3 DEF ClientStep
  <2> DEFINE s == q[1]
  <2>5. s.op \in Ops /\ s.backend \in Nat /\ s.v \in Int
    BY <2>3 DEF Steps
  <2>6. t = Task(s.op, s.backend, s.v)
    BY <1>2 DEF TaskOf
  <2>7. s.metric = m /\ Hits(s, l) /\ DirectStep(s, D)
    BY <1>2, <2>4
  <2> HIDE DEF t, s
  <2>8. t \in Tasks /\ t.op = s.op /\ t.backend = s.backend
    BY <2>5, <2>6 DEF Task, Tasks
  <2>9. s.op # "none"
    BY <2>5, OpCases
  <2>10. s.op \in Increments => s.op \notin Drops /\ s.op # "Set"
    BY OpCases
  <2>11. s.op = "Set" => s.op \notin Drops
    BY OpCases
  <2> QED
    BY <2>7, <2>8, <2>9, <2>10, <2>11 DEF DirectStep, Size, t
<1> QED
  BY <1>1, <1>2 DEF TaskOf

\* The view of a series is what the lemmas about it suppose.
LEMMA SeriesSane ==
    ASSUME NEW m \in Metrics \ ClientMetrics, NEW l \in Labels, NEW V, NEW L, NEW Q, NEW D,
           Q \in [Callers -> Seq(Steps)],
           \A c \in Callers :
              \/ Len(Q[c]) <= 1 /\ \A k \in 1 .. Len(Q[c]) : DirectStep(Q[c][k], D)
              \/ \A k \in 1 .. Len(Q[c]) : ClientStep(Q[c][k]),
           \A i \in 1 .. Size(m) : /\ \A k \in DOMAIN V[i] : V[i][k] \in Int
                                   /\ L[i] \in Seq(Entries)
    PROVE  Sane(m, Work(Q, m, l), Having(m, V, l), Saying(m, V, L, l), <<m, l>> \in D)
<1> DEFINE w == Work(Q, m, l)
           has == Having(m, V, l)
           says == Saying(m, V, L, l)
<1>1. ASSUME NEW c \in Callers
      PROVE  /\ w[c] \in Tasks
             /\ w[c].op # "none" => w[c].backend \in 1 .. Size(m)
             /\ w[c].op = "none" => w[c] = Idle
             /\ w[c].op = "Set" => Kind[m] = "gauge"
             /\ w[c].op \in Increments => Kind[m] # "gauge"
             /\ w[c].op \in Drops => <<m, l>> \in D
  <2>1. /\ Q[c] \in Seq(Steps)
        /\ \/ Len(Q[c]) <= 1 /\ \A k \in 1 .. Len(Q[c]) : DirectStep(Q[c][k], D)
           \/ \A k \in 1 .. Len(Q[c]) : ClientStep(Q[c][k])
    OBVIOUS
  <2>2. w[c] = TaskOf(Q[c], m, l)
    BY DEF Work
  <2> HIDE DEF w
  <2> DEFINE q == Q[c]
             t == TaskOf(q, m, l)
  <2> HIDE DEF q
  <2>3. /\ q \in Seq(Steps)
        /\ \/ Len(q) <= 1 /\ \A k \in 1 .. Len(q) : DirectStep(q[k], D)
           \/ \A k \in 1 .. Len(q) : ClientStep(q[k])
    BY <2>1 DEF q
  <2>4. /\ t \in Tasks
        /\ t.op # "none" => t.backend \in 1 .. Size(m)
        /\ t.op = "none" => t = Idle
        /\ t.op = "Set" => Kind[m] = "gauge"
        /\ t.op \in Increments => Kind[m] # "gauge"
        /\ t.op \in Drops => <<m, l>> \in D
    BY <2>3, TaskOfSane
  <2>5. w[c] = t
    BY <2>2 DEF q
  <2> HIDE DEF t
  <2> QED
    BY <2>4, <2>5
<1>2. w \in [Callers -> Tasks]
  BY <1>1 DEF Work
<1>3. has \in [1 .. Size(m) -> BOOLEAN] /\ \A i \in 1 .. Size(m) : has[i] => Vector(m, i)
  BY DEF Having
<1>4. says \in [1 .. Size(m) -> Int]
  <2>1. \A i \in 1 .. Size(m) : Replayed(Kind[m], L[i], l) \in Int
    BY ReplayedType
  <2> QED
    BY <2>1 DEF Saying
<1>5. \A i \in 1 .. Size(m) : Vector(m, i) /\ ~has[i] => says[i] = 0
  BY DEF Having, Saying
<1> HIDE DEF w, has, says
<1>6. m \in Metrics
  OBVIOUS
<1>7. Sane(m, w, has, says, <<m, l>> \in D)
  BY <1>1, <1>2, <1>3, <1>4, <1>5, <1>6 DEF Sane
<1> QED
  BY <1>7 DEF w, has, says

\* So it is now.
LEMMA SaneNow ==
    ASSUME Typed, NEW m \in Metrics \ ClientMetrics, NEW l \in Labels
    PROVE  Sane(m, Work(todo, m, l), Having(m, vec[m], l), Saying(m, vec[m], log[m], l),
                <<m, l>> \in dropped)
BY SeriesSane DEF Typed, Size

\* So it is after a step.
LEMMA SaneNext ==
    ASSUME Typed', NEW m \in Metrics \ ClientMetrics, NEW l \in Labels
    PROVE  Sane(m, Work(todo', m, l), Having(m, vec'[m], l), Saying(m, vec'[m], log'[m], l),
                <<m, l>> \in dropped')
BY SeriesSane DEF Typed, Size

\* A metric without backends.
LEMMA NoBackends ==
    ASSUME NEW m, NEW w, NEW has, NEW says, NEW gone,
           Sane(m, w, has, says, gone), Size(m) = 0
    PROVE  \A gone2 : Agreeing(m, w, has, says, gone2)
<1>1. \A c \in Callers : w[c].op = "none"
  BY DEF Sane
<1>2. Uncrossed(w)
  BY <1>1 DEF Uncrossed
<1>3. 0 \in Int /\ 1 .. 0 = {}
  OBVIOUS
<1>4. \A gone2 : Even(m, w, has, says, gone2)
  BY <1>1, <1>3, OpCases DEF Even
<1> QED
  BY <1>2, <1>4 DEF Agreeing

\* What a caller does changes its own part of the view only.
LEMMA WorkChange ==
    ASSUME NEW P, NEW Q, NEW c \in Callers, \A d \in Callers \ {c} : Q[d] = P[d], NEW m, NEW l
    PROVE  /\ \A d \in Callers \ {c} : Work(Q, m, l)[d] = Work(P, m, l)[d]
           /\ Work(Q, m, l)[c] = TaskOf(Q[c], m, l) /\ Work(P, m, l)[c] = TaskOf(P[c], m, l)
           /\ Work(Q, m, l) = [Work(P, m, l) EXCEPT ![c] = TaskOf(Q[c], m, l)]
           /\ TaskOf(Q[c], m, l) = TaskOf(P[c], m, l) => Work(Q, m, l) = Work(P, m, l)
BY DEF Work

\* A call that is not contended meets only calls it commutes with.
LEMMA MeetsNone ==
    ASSUME Typed, NEW c \in Callers, NEW m, NEW op, NEW labels, NEW v,
           Sound(m, op, labels, v), Call(c, m, op, labels, v),
           NEW l \in Labels, Hits(Update(m, 1, op, labels, v), l), <<m, l>> \notin contended'
    PROVE  /\ \A d \in Callers \ {c} :
                 Work(todo, m, l)[d].op # "none" => Commute(op, Work(todo, m, l)[d].op)
           /\ op \notin Overwrites => <<m, l>> \notin contended
<1> DEFINE s == Update(m, 0, op, labels, v)
<1>1. s.metric = m /\ s.op = op /\ s.labels = labels
  BY DEF Update
<1>2. Hits(s, l)
  <2>1. /\ Update(m, 1, op, labels, v).op = op
        /\ Update(m, 1, op, labels, v).labels = labels
    BY DEF Update
  <2> QED
    BY <1>1, <2>1, HitsSame
<1>3. l \notin Clashes(c, s) /\ (op \notin Overwrites => <<m, l>> \notin contended)
  BY DEF Call, Overwrites
<1>4. ASSUME NEW d \in Callers \ {c}, Work(todo, m, l)[d].op # "none"
      PROVE  Commute(op, Work(todo, m, l)[d].op)
  <2>1. Work(todo, m, l)[d] = TaskOf(todo[d], m, l) /\ Idle.op = "none"
    BY DEF Work, Idle, Task
  <2>2. todo[d] # <<>> /\ todo[d][1].metric = m /\ Hits(todo[d][1], l)
    BY <1>4, <2>1 DEF TaskOf
  <2>3. Work(todo, m, l)[d].op = todo[d][1].op
    BY <2>1, <2>2 DEF TaskOf, Task
  <2>4. todo[d] \in Seq(Steps) /\ Len(todo[d]) \in Nat \ {0}
    BY <2>2, ShortSeqs DEF Typed
  <2>5. 1 \in DOMAIN todo[d]
    BY <2>4
  <2>6. todo[d][1] \in Range(todo[d])
    BY <2>5 DEF Range
  <2> HIDE DEF s
  <2> QED
    BY <1>1, <1>2, <1>3, <2>2, <2>3, <2>6 DEF Clashes
<1> QED
  BY <1>3, <1>4

\* A call preserves AgreeInv.
LEMMA AgreeCall ==
    ASSUME Typed, AgreeInv, NEW c \in Callers, NEW m, NEW op, NEW labels, NEW v,
           Sound(m, op, labels, v), Call(c, m, op, labels, v)
    PROVE  AgreeInv'
<1> DEFINE u == Update(m, 1, op, labels, v)
           s == Update(m, 0, op, labels, v)
<1>1. /\ todo[c] = <<>> /\ UNCHANGED <<vec, log, served>>
      /\ \A d \in Callers \ {c} : todo'[d] = todo[d]
      /\ \/ Len(Backends[m]) > 0 /\ todo'[c] = <<u>>
         \/ Len(Backends[m]) = 0 /\ todo'[c] = <<>>
  BY CallEffect
<1>2. m \in Metrics \ ClientMetrics /\ op \in Ops /\ v \in Int
  BY DEF Sound
<1>3. u.metric = m /\ u.op = op /\ u.labels = labels /\ u.backend = 1 /\ u.v = v
  BY DEF Update
<1>4. \A l : Hits(s, l) <=> Hits(u, l)
  <2>1. s.op = op /\ s.labels = labels
    BY DEF Update
  <2> HIDE DEF s, u
  <2> QED
    BY <1>3, <2>1, HitsSame
<1>5. \A n, l : n # m \/ ~Hits(u, l) =>
        /\ <<n, l>> \in contended' <=> <<n, l>> \in contended
        /\ <<n, l>> \in dropped' <=> <<n, l>> \in dropped
  <2>1. \A l : l \in Clashes(c, s) => Hits(s, l)
    BY DEF Clashes
  <2> HIDE DEF u
  <2>2. /\ contended' = (contended \ (IF op \in Drops \cup {"Set"} THEN {m} \X {l \in Labels : Hits(s, l)} ELSE {}))
                            \cup ({m} \X Clashes(c, s))
        /\ dropped' = IF op \in Drops THEN dropped \cup ({m} \X {l \in Labels : Hits(s, l)}) ELSE dropped
    BY DEF Call
  <2> HIDE DEF s
  <2> QED
    BY <1>4, <2>1, <2>2
<1>6. op \notin Drops => dropped' = dropped
  BY DEF Call
<1> SUFFICES ASSUME NEW n \in Metrics \ ClientMetrics, NEW l \in Labels, <<n, l>> \notin contended'
             PROVE  Agreeing(n, Work(todo', n, l), Having(n, vec[n], l), Saying(n, vec[n], log[n], l),
                             <<n, l>> \in dropped')
  BY <1>1 DEF AgreeInv
<1> DEFINE w == Work(todo, n, l)
           x == Work(todo', n, l)
           has == Having(n, vec[n], l)
           says == Saying(n, vec[n], log[n], l)
           gone == <<n, l>> \in dropped
<1>7. Sane(n, w, has, says, gone)
  BY SaneNow
<1>8. /\ x[c] = TaskOf(todo'[c], n, l) /\ w[c] = TaskOf(todo[c], n, l)
      /\ x = [w EXCEPT ![c] = TaskOf(todo'[c], n, l)]
      /\ TaskOf(todo'[c], n, l) = TaskOf(todo[c], n, l) => x = w
  BY <1>1, WorkChange
<1>9. w[c] = Idle
  BY <1>1, <1>8, TaskOfEmpty
<1>10. <<n, l>> \notin contended => Agreeing(n, w, has, says, gone)
  BY DEF AgreeInv
<1> HIDE DEF w, x, has, says, s
<1>11. CASE n # m \/ ~Hits(u, l)
  <2>1. TaskOf(todo'[c], n, l) = Idle
    <3> HIDE DEF u
    <3>1. TaskOf(<<u>>, n, l) = Idle
      BY <1>3, <1>11, TaskOfOne
    <3>2. TaskOf(<<>>, n, l) = Idle
      BY TaskOfEmpty
    <3> QED
      BY <1>1, <3>1, <3>2
  <2>2. x = w
    BY <1>8, <1>9, <2>1
  <2>3. Agreeing(n, x, has, says, gone) /\ (gone <=> <<n, l>> \in dropped')
    BY <1>5, <1>10, <1>11, <2>2
  <2> HIDE DEF gone
  <2>4. gone = (<<n, l>> \in dropped')
    BY <2>3 DEF gone
  <2> QED
    BY <2>3, <2>4 DEF x, has, says
<1>12. CASE n = m /\ Hits(u, l) /\ Len(Backends[m]) = 0
  <2>1. x = w
    <3>1. todo'[c] = todo[c]
      BY <1>1, <1>12
    <3> QED
      BY <1>8, <3>1
  <2>2. Agreeing(n, x, has, says, <<n, l>> \in dropped')
    BY <1>7, <1>12, <2>1, NoBackends DEF Size
  <2> QED
    BY <2>2 DEF x, has, says
<1>13. CASE n = m /\ Hits(u, l) /\ Len(Backends[m]) > 0
  <2>1. Len(Backends[m]) \in Nat /\ todo'[c] = <<u>>
    BY <1>1, <1>2, <1>13, BackendsType
  <2>2. x = [w EXCEPT ![c] = Task(op, 1, v)]
    BY <1>3, <1>8, <1>13, <2>1, TaskOfOne
  <2>3. /\ \A d \in Callers \ {c} : w[d].op # "none" => Commute(op, w[d].op)
        /\ op \notin Overwrites => <<m, l>> \notin contended
    BY <1>13, MeetsNone DEF w
  <2>4. CASE op \in Overwrites
    <3>1. Agreeing(n, x, has, says, <<n, l>> \in dropped')
      <4> HIDE DEF gone
      <4> QED
        BY <1>2, <1>7, <1>9, <2>2, <2>3, <2>4, StartsOver
    <3> QED
      BY <3>1 DEF x, has, says
  <2>5. CASE op \in Increments
    <3>1. Agreeing(n, w, has, says, gone) /\ dropped' = dropped
      BY <1>6, <1>10, <1>13, <2>3, <2>5, OpCases
    <3>2. Agreeing(n, x, has, says, gone)
      <4> HIDE DEF gone
      <4> QED
        BY <1>2, <1>7, <1>9, <2>2, <2>3, <2>5, <3>1, StartsIncrement
    <3> QED
      BY <3>1, <3>2 DEF x, has, says
  <2> QED
    BY <1>2, <2>4, <2>5, OpCases
<1>14. Len(Backends[m]) = 0 \/ Len(Backends[m]) > 0
  BY <1>1
<1> QED
  BY <1>11, <1>12, <1>13, <1>14

\* A request preserves AgreeInv: it concerns other metrics.
LEMMA AgreeRequest ==
    ASSUME Typed, AgreeInv, NEW c \in Callers, NEW r \in Requests, NEW codes \in Attempts,
           Request(c, r, codes)
    PROVE  AgreeInv'
<1>1. /\ todo[c] = <<>> /\ UNCHANGED <<vec, log, contended, dropped>>
      /\ \A d \in Callers \ {c} : todo'[d] = todo[d]
      /\ todo' \in [Callers -> Seq(Steps)]
      /\ \A k \in 1 .. Len(todo'[c]) : ClientStep(todo'[c][k])
  BY RequestEffect
<1>2. ASSUME NEW n \in Metrics \ ClientMetrics, NEW l \in Labels
      PROVE  Work(todo', n, l) = Work(todo, n, l)
  <2>1. TaskOf(todo[c], n, l) = Idle
    BY <1>1, TaskOfEmpty
  <2>2. TaskOf(todo'[c], n, l) = Idle
    BY <1>1, TaskOfClient
  <2>3. \A d \in Callers : TaskOf(todo'[d], n, l) = TaskOf(todo[d], n, l)
    BY <1>1, <2>1, <2>2
  <2> QED
    BY <2>3 DEF Work
<1> QED
  BY <1>1, <1>2 DEF AgreeInv

\* What a step of a direct call does to the data of a series.
LEMMA SeriesData ==
    ASSUME Typed, NEW c \in Callers, Step(c), DirectStep(Now(c), dropped),
           NEW m, m = Now(c).metric, NEW i, i = Now(c).backend, NEW l \in Labels
    PROVE  LET s == Now(c)
               has == Having(m, vec[m], l)
               has2 == Having(m, vec'[m], l)
               says == Saying(m, vec[m], log[m], l)
               says2 == Saying(m, vec'[m], log'[m], l)
           IN  /\ \A j \in 1 .. Size(m) :
                     j # i \/ ~Hits(s, l) => has2[j] = has[j] /\ says2[j] = says[j]
               /\ Hits(s, l) /\ s.op \in Drops =>
                     /\ Vector(m, i) => ~has2[i]
                     /\ ~Vector(m, i) => says2[i] = says[i]
               /\ Hits(s, l) /\ s.op = "Set" => (Vector(m, i) => has2[i]) /\ says2[i] = s.v
               /\ Hits(s, l) /\ s.op \in Increments =>
                     (Vector(m, i) => has2[i]) /\ says2[i] = says[i] + s.v
<1> DEFINE s == Now(c)
<1>1. s \in Steps /\ m \in Metrics /\ i \in 1 .. Size(m)
  BY StepEffect DEF Size
<1>2. /\ \A j \in 1 .. Size(m) : j # i => vec'[m][j] = vec[m][j] /\ log'[m][j] = log[m][j]
      /\ \/ /\ Vector(m, i)
            /\ vec'[m][i] = Prometheus(vec[m][i], s) /\ log'[m][i] = log[m][i]
         \/ /\ ~Vector(m, i)
            /\ log'[m][i] = EMF(log[m][i], s) /\ vec'[m][i] = vec[m][i]
  <2>1. m \in Metrics
    BY <1>1
  <2> QED
    BY <2>1, StepData DEF Size, Vector
<1>3. (\A k \in DOMAIN vec[m][i] : vec[m][i][k] \in Int) /\ log[m][i] \in Seq(Entries)
  BY <1>1 DEF Typed, Size
<1>4. s.op \notin Drops => s.labels \in Labels /\ (s.op = "Set" <=> Kind[m] = "gauge")
  BY DEF DirectStep
<1>5. /\ s.op \in Drops => s.op \notin Increments /\ s.op # "Set"
      /\ s.op = "Set" => s.op \notin Increments /\ s.op \notin Drops
      /\ s.op \in Increments => s.op \notin Overwrites /\ s.op \notin Drops /\ s.op # "Set"
  BY OpCases
<1> HIDE DEF s
<1> DEFINE has == Having(m, vec[m], l)
           has2 == Having(m, vec'[m], l)
           says == Saying(m, vec[m], log[m], l)
           says2 == Saying(m, vec'[m], log'[m], l)
<1>6. \A j \in 1 .. Size(m) : j # i => has2[j] = has[j] /\ says2[j] = says[j]
  BY <1>2 DEF Having, Saying
<1>7. CASE Vector(m, i)
  <2> DEFINE series == vec[m][i]
             after == Prometheus(series, s)
  <2>1. /\ ~Hits(s, l) => /\ l \in DOMAIN after <=> l \in DOMAIN series
                          /\ l \in DOMAIN series => after[l] = series[l]
        /\ Hits(s, l) /\ s.op \in Drops => l \notin DOMAIN after
        /\ Hits(s, l) /\ s.op = "Set" => l \in DOMAIN after /\ after[l] = s.v
        /\ Hits(s, l) /\ s.op \notin Overwrites =>
              /\ l \in DOMAIN after
              /\ after[l] = (IF l \in DOMAIN series THEN series[l] ELSE 0) + s.v
    BY <1>1, <1>3, PrometheusEffect
  <2>2. vec'[m][i] = after
    BY <1>2, <1>7
  <2> HIDE DEF after
  <2>3. /\ has[i] = (l \in DOMAIN series) /\ has2[i] = (l \in DOMAIN after)
        /\ says[i] = IF l \in DOMAIN series THEN series[l] ELSE 0
        /\ says2[i] = IF l \in DOMAIN after THEN after[l] ELSE 0
    BY <1>1, <1>7, <2>2 DEF Having, Saying
  <2> HIDE DEF series, has, has2, says, says2
  <2>4. ~Hits(s, l) => has2[i] = has[i] /\ says2[i] = says[i]
    BY <2>1, <2>3
  <2>5. Hits(s, l) /\ s.op \in Drops => ~has2[i]
    BY <2>1, <2>3
  <2>6. Hits(s, l) /\ s.op = "Set" => has2[i] /\ says2[i] = s.v
    BY <2>1, <2>3
  <2>7. Hits(s, l) /\ s.op \in Increments => has2[i] /\ says2[i] = says[i] + s.v
    BY <1>5, <2>1, <2>3
  <2> QED
    BY <1>6, <1>7, <2>4, <2>5, <2>6, <2>7 DEF has, has2, says, says2, s
<1>8. CASE ~Vector(m, i)
  <2> DEFINE before == Replayed(Kind[m], log[m][i], l)
             after == Replayed(Kind[m], EMF(log[m][i], s), l)
  <2>1. /\ ~Hits(s, l) \/ s.op \in Drops => after = before
        /\ Hits(s, l) /\ s.op = "Set" => after = s.v
        /\ Hits(s, l) /\ s.op \notin Overwrites => after = before + s.v
    BY <1>1, <1>3, <1>4, EMFEffect
  <2>2. says[i] = before /\ says2[i] = after /\ has2[i] = has[i]
    BY <1>1, <1>2, <1>8 DEF Having, Saying
  <2> HIDE DEF before, after, has, has2, says, says2
  <2> QED
    BY <1>5, <1>6, <1>8, <2>1, <2>2 DEF has, has2, says, says2, s
<1> QED
  BY <1>7, <1>8

\* A step of a call preserves AgreeInv.
LEMMA AgreeStep ==
    ASSUME Typed, AgreeInv, NEW c \in Callers, Step(c)
    PROVE  AgreeInv'
<1> DEFINE s == Now(c)
           m == Now(c).metric
           i == Now(c).backend
           t == Update(m, i + 1, s.op, s.labels, s.v)
<1>1. /\ s \in Steps /\ todo[c] # <<>> /\ UNCHANGED <<calls, contended, dropped, served>>
      /\ m \in Metrics /\ i \in 1 .. Len(Backends[m])
      /\ todo' \in [Callers -> Seq(Steps)]
      /\ \A d \in Callers \ {c} : todo'[d] = todo[d]
      /\ \/ /\ DirectStep(s, dropped)
            /\ \/ i < Len(Backends[m]) /\ todo'[c] = <<t>>
               \/ i = Len(Backends[m]) /\ todo'[c] = <<>>
         \/ /\ ClientStep(s)
            /\ \A k \in 1 .. Len(todo[c]) : ClientStep(todo[c][k])
            /\ \A k \in 1 .. Len(todo'[c]) : ClientStep(todo'[c][k])
  BY StepEffect
<1>2. Typed'
  BY TypedTakesStep
<1>3. \A n \in Metrics : \A j \in 1 .. Size(n) :
        n # m => vec'[n][j] = vec[n][j] /\ log'[n][j] = log[n][j]
  BY StepData DEF Size
<1>4. /\ s.metric = m /\ s.backend = i /\ s.op \in Ops /\ s.v \in Int
      /\ t.metric = m /\ t.backend = i + 1 /\ t.op = s.op /\ t.labels = s.labels /\ t.v = s.v
  BY <1>1 DEF Steps, Update
<1> HIDE DEF t
<1>5. \A l : Hits(t, l) <=> Hits(s, l)
  BY <1>4, HitsSame
<1> SUFFICES ASSUME NEW n \in Metrics \ ClientMetrics, NEW l \in Labels, <<n, l>> \notin contended
             PROVE  Agreeing(n, Work(todo', n, l), Having(n, vec'[n], l),
                             Saying(n, vec'[n], log'[n], l), <<n, l>> \in dropped)
  BY <1>1 DEF AgreeInv
<1> DEFINE w == Work(todo, n, l)
           x == Work(todo', n, l)
           has == Having(n, vec[n], l)
           has2 == Having(n, vec'[n], l)
           says == Saying(n, vec[n], log[n], l)
           says2 == Saying(n, vec'[n], log'[n], l)
           gone == <<n, l>> \in dropped
<1>6. Sane(n, w, has, says, gone) /\ Agreeing(n, w, has, says, gone)
  BY SaneNow DEF AgreeInv
<1>7. Sane(n, x, has2, says2, gone)
  <2>1. Sane(n, x, has2, says2, <<n, l>> \in dropped')
    BY <1>2, SaneNext
  <2> QED
    BY <1>1, <2>1
<1>8. /\ x[c] = TaskOf(todo'[c], n, l) /\ w[c] = TaskOf(todo[c], n, l)
      /\ \A d \in Callers \ {c} : x[d] = w[d]
      /\ TaskOf(todo'[c], n, l) = TaskOf(todo[c], n, l) => x = w
  BY <1>1, WorkChange
<1>9. w[c] = IF m = n /\ Hits(s, l) THEN Task(s.op, i, s.v) ELSE Idle
  <2>1. w[c] = TaskOf(todo[c], n, l) /\ todo[c] # <<>>
    BY <1>1, <1>8
  <2> QED
    BY <2>1 DEF TaskOf, Now
<1>10. has \in [1 .. Size(n) -> BOOLEAN] /\ has2 \in [1 .. Size(n) -> BOOLEAN]
       /\ says \in [1 .. Size(n) -> Int] /\ says2 \in [1 .. Size(n) -> Int]
  BY <1>6, <1>7 DEF Sane
<1>11. n # m => has2 = has /\ says2 = says
  BY <1>3 DEF Having, Saying
<1>12. TaskOf(<<>>, n, l) = Idle
  BY TaskOfEmpty
<1>13. TaskOf(<<t>>, n, l) = IF m = n /\ Hits(s, l) THEN Task(s.op, i + 1, s.v) ELSE Idle
  BY <1>4, <1>5, TaskOfOne
<1>14. ClientStep(s) /\ (\A k \in 1 .. Len(todo'[c]) : ClientStep(todo'[c][k])) =>
         n # m /\ x[c] = Idle
  <2>1. ClientStep(s) => n # m
    BY <1>4 DEF ClientStep
  <2>2. todo'[c] \in Seq(Steps)
    BY <1>1
  <2>3. (\A k \in 1 .. Len(todo'[c]) : ClientStep(todo'[c][k])) => TaskOf(todo'[c], n, l) = Idle
    BY <2>2, TaskOfClient
  <2> QED
    BY <1>8, <2>1, <2>3
<1>15. DirectStep(s, dropped) /\ n = m =>
         /\ \A j \in 1 .. Size(n) :
               j # i \/ ~Hits(s, l) => has2[j] = has[j] /\ says2[j] = says[j]
         /\ Hits(s, l) /\ s.op \in Drops =>
               /\ Vector(n, i) => ~has2[i]
               /\ ~Vector(n, i) => says2[i] = says[i]
         /\ Hits(s, l) /\ s.op = "Set" => (Vector(n, i) => has2[i]) /\ says2[i] = s.v
         /\ Hits(s, l) /\ s.op \in Increments =>
               (Vector(n, i) => has2[i]) /\ says2[i] = says[i] + s.v
  BY SeriesData
<1> HIDE DEF w, x, has, has2, says, says2, gone, s, m, i
<1>16. CASE n # m
  <2>1. x[c] = w[c]
    BY <1>1, <1>8, <1>9, <1>12, <1>13, <1>14, <1>16
  <2>2. x = w /\ has2 = has /\ says2 = says
    BY <1>8, <1>11, <1>16, <2>1
  <2> QED
    BY <1>6, <2>2 DEF x, has2, says2, gone
<1>17. CASE n = m /\ ~Hits(s, l)
  <2>1. x[c] = w[c]
    BY <1>1, <1>8, <1>9, <1>12, <1>13, <1>14, <1>17
  <2>2. DirectStep(s, dropped)
    BY <1>1, <1>14, <1>17
  <2>3. \A j \in 1 .. Size(n) : has2[j] = has[j] /\ says2[j] = says[j]
    BY <1>15, <1>17, <2>2
  <2>4. x = w
    BY <1>8, <2>1
  <2>5. has2 = has
    <3>1. /\ has2 = [j \in 1 .. Size(n) |-> has2[j]]
          /\ has = [j \in 1 .. Size(n) |-> has[j]]
      BY <1>10
    <3>2. [j \in 1 .. Size(n) |-> has2[j]] = [j \in 1 .. Size(n) |-> has[j]]
      BY <2>3
    <3> QED
      BY <3>1, <3>2
  <2>6. says2 = says
    <3>1. /\ says2 = [j \in 1 .. Size(n) |-> says2[j]]
          /\ says = [j \in 1 .. Size(n) |-> says[j]]
      BY <1>10
    <3>2. [j \in 1 .. Size(n) |-> says2[j]] = [j \in 1 .. Size(n) |-> says[j]]
      BY <2>3
    <3> QED
      BY <3>1, <3>2
  <2> QED
    BY <1>6, <2>4, <2>5, <2>6 DEF x, has2, says2, gone
<1>18. CASE n = m /\ Hits(s, l)
  <2>1. DirectStep(s, dropped)
    BY <1>1, <1>14, <1>18
  <2>2. w[c].op = s.op /\ w[c].backend = i /\ w[c].v = s.v
    BY <1>9, <1>18 DEF Task
  <2>3. \/ i < Size(n) /\ x[c] = Task(w[c].op, i + 1, w[c].v)
        \/ i = Size(n) /\ x[c] = Idle
    BY <1>1, <1>8, <1>12, <1>13, <1>14, <1>18, <2>2 DEF Size
  <2>4. \A j \in 1 .. Size(n) : j # i => has2[j] = has[j] /\ says2[j] = says[j]
    BY <1>15, <1>18, <2>1
  <2>5. CASE s.op \in Drops
    <3>1. Vector(n, i) => ~has2[i]
      BY <1>15, <1>18, <2>1, <2>5
    <3>2. Agreeing(n, x, has2, says2, gone)
      BY <1>6, <1>7, <1>8, <2>2, <2>3, <2>4, <2>5, <3>1, MovesDrop
    <3> QED
      BY <3>2 DEF x, has2, says2, gone
  <2>6. CASE s.op = "Set"
    <3>1. (Vector(n, i) => has2[i]) /\ says2[i] = w[c].v
      BY <1>15, <1>18, <2>1, <2>2, <2>6
    <3>2. Agreeing(n, x, has2, says2, gone)
      BY <1>6, <1>7, <1>8, <2>2, <2>3, <2>4, <2>6, <3>1, MovesSet
    <3> QED
      BY <3>2 DEF x, has2, says2, gone
  <2>7. CASE s.op \in Increments
    <3>1. (Vector(n, i) => has2[i]) /\ says2[i] = says[i] + w[c].v
      BY <1>15, <1>18, <2>1, <2>2, <2>7
    <3>2. Agreeing(n, x, has2, says2, gone)
      BY <1>6, <1>7, <1>8, <2>2, <2>3, <2>4, <2>7, <3>1, MovesIncrement
    <3> QED
      BY <3>2 DEF x, has2, says2, gone
  <2> QED
    BY <1>4, <2>5, <2>6, <2>7, OpCases
<1> QED
  BY <1>16, <1>17, <1>18

\* AgreeInv holds at the start.
LEMMA AgreeInit == ASSUME Init, Typed PROVE AgreeInv
<1> SUFFICES ASSUME NEW m \in Metrics \ ClientMetrics, NEW l \in Labels
             PROVE  Agreeing(m, Work(todo, m, l), Having(m, vec[m], l),
                             Saying(m, vec[m], log[m], l), <<m, l>> \in dropped)
  BY DEF AgreeInv
<1> DEFINE w == Work(todo, m, l)
           has == Having(m, vec[m], l)
           says == Saying(m, vec[m], log[m], l)
<1>1. w \in [Callers -> Tasks]
  BY SaneNow DEF Sane
<1>2. \A c \in Callers : w[c] = Idle
  BY TaskOfEmpty DEF Init, Work
<1>3. \A c \in Callers : w[c].op = "none"
  BY <1>2 DEF Idle, Task
<1>4. \A i \in 1 .. Size(m) : ~has[i] /\ says[i] = 0
  <2>1. /\ \A i \in 1 .. Size(m) : vec[m][i] = <<>> /\ log[m][i] = <<>>
        /\ DOMAIN <<>> = {}
    BY BackendsType DEF Init, Size
  <2> QED
    BY <2>1, ReplayedEmpty DEF Having, Saying
<1> HIDE DEF w, has, says
<1>5. Uncrossed(w)
  BY <1>3 DEF Uncrossed
<1>6. \A i : Over(Pend(w, i)) = 0
  BY <1>1, <1>3, OpCases, PendZero
<1>7. \A i \in 1 .. Size(m) : ~WillHave(w, has, i)
  BY <1>3, <1>4, OpCases DEF WillHave, ComesTo
<1>8. \A gone : Even(m, w, has, says, gone)
  <2>1. 0 \in Int /\ \A i \in 1 .. Size(m) : says[i] + Over(Pend(w, i)) = 0
    BY <1>4, <1>6
  <2> QED
    BY <1>3, <1>7, <2>1, OpCases DEF Even
<1> QED
  BY <1>5, <1>8 DEF Agreeing, w, has, says

\* When no call is on its way to the metric, the agreement is that of the run.
LEMMA AgreeImplies == ASSUME Typed, AgreeInv PROVE BackendsAgree
<1> SUFFICES ASSUME NEW m \in Metrics \ ClientMetrics, NEW l \in Labels,
                    Settled(m), <<m, l>> \notin contended
             PROVE  /\ \A i, j \in Of(m, "prometheus") :
                          /\ l \in DOMAIN vec[m][i] <=> l \in DOMAIN vec[m][j]
                          /\ ValueOf(m, i, l) = ValueOf(m, j, l)
                    /\ \A i \in Of(m, "prometheus"), e \in Of(m, "emf") :
                          l \in DOMAIN vec[m][i] /\ (Kind[m] = "gauge" \/ <<m, l>> \notin dropped)
                              => Replayed(Kind[m], log[m][e], l) = ValueOf(m, i, l)
  BY DEF BackendsAgree
<1> DEFINE w == Work(todo, m, l)
           has == Having(m, vec[m], l)
           says == Saying(m, vec[m], log[m], l)
           gone == <<m, l>> \in dropped
<1>1. Sane(m, w, has, says, gone) /\ Agreeing(m, w, has, says, gone)
  BY SaneNow DEF AgreeInv
<1>2. ASSUME NEW c \in Callers PROVE w[c] = Idle
  <2>1. todo[c] # <<>> => todo[c][1].metric # m
    <3>1. todo[c] \in Seq(Steps)
      BY DEF Typed
    <3>2. todo[c] # <<>> => 1 \in DOMAIN todo[c]
      BY <3>1, ShortSeqs
    <3>3. todo[c] # <<>> => todo[c][1] \in Range(todo[c])
      BY <3>2 DEF Range
    <3> QED
      BY <3>3 DEF Settled
  <2> QED
    BY <2>1 DEF Work, TaskOf
<1>3. \A i \in 1 .. Size(m) :
        /\ Vector(m, i) => /\ has[i] = (l \in DOMAIN vec[m][i])
                           /\ says[i] = ValueOf(m, i, l)
        /\ ~Vector(m, i) => says[i] = Replayed(Kind[m], log[m][i], l)
  BY DEF Having, Saying, ValueOf
<1>4. \A i : /\ i \in Of(m, "prometheus") => i \in 1 .. Size(m) /\ Vector(m, i)
             /\ i \in Of(m, "emf") => i \in 1 .. Size(m) /\ ~Vector(m, i)
  BY BackendsType DEF Of, Size, Vector
<1> HIDE DEF w, has, says, gone
<1>5. \A c \in Callers : w[c].op = "none"
  BY <1>2 DEF Idle, Task
<1>6. Even(m, w, has, says, gone)
  BY <1>1, <1>5, OpCases DEF Agreeing, Sweeping
<1>7. \A i : Over(Pend(w, i)) = 0
  BY <1>1, <1>5, OpCases, PendZero DEF Sane
<1>8. says \in [1 .. Size(m) -> Int]
  BY <1>1 DEF Sane
<1>9. PICK t \in Int : \A i \in 1 .. Size(m) :
        Counts(m, has, gone, i) => says[i] + Over(Pend(w, i)) = t
  BY <1>6 DEF Even
<1>10. \A i \in 1 .. Size(m) : Counts(m, has, gone, i) => says[i] = t
  BY <1>7, <1>8, <1>9
<1>11. \A i \in 1 .. Size(m) : WillHave(w, has, i) <=> has[i]
  BY <1>5, OpCases DEF WillHave, ComesTo
<1>12. \A i, j \in 1 .. Size(m) : Vector(m, i) /\ Vector(m, j) =>
         /\ has[i] <=> has[j]
         /\ says[i] = says[j]
  BY <1>6, <1>10, <1>11 DEF Even, Counts
<1>13. \A i, e \in 1 .. Size(m) :
         Vector(m, i) /\ ~Vector(m, e) /\ has[i] /\ (Kind[m] = "gauge" \/ ~gone)
             => says[e] = says[i]
  BY <1>10 DEF Counts
<1>14. ASSUME NEW i \in Of(m, "prometheus"), NEW j \in Of(m, "prometheus")
       PROVE  /\ l \in DOMAIN vec[m][i] <=> l \in DOMAIN vec[m][j]
              /\ ValueOf(m, i, l) = ValueOf(m, j, l)
  BY <1>3, <1>4, <1>12
<1>15. ASSUME NEW i \in Of(m, "prometheus"), NEW e \in Of(m, "emf"),
              l \in DOMAIN vec[m][i], Kind[m] = "gauge" \/ <<m, l>> \notin dropped
       PROVE  Replayed(Kind[m], log[m][e], l) = ValueOf(m, i, l)
  BY <1>3, <1>4, <1>13, <1>15 DEF gone
<1> QED
  BY <1>14, <1>15

\* AgreeInv is inductive, given Typed.
LEMMA AgreeInvStep ==
    ASSUME Typed, AgreeInv, [Next]_vars
    PROVE  AgreeInv'
<1>1. CASE Next
  BY <1>1, NextCases, AgreeCall, AgreeRequest, AgreeStep DEF Called
<1>2. CASE UNCHANGED vars
  BY <1>2 DEF vars, AgreeInv
<1> QED
  BY <1>1, <1>2

(***************************************************************************)
(* For any goroutines, metrics, backends in any order, labels and values,  *)
(* and without a bound on the calls that interleave: the backends of a     *)
(* metric agree on every series at which no two calls that do not commute  *)
(* have overlapped since it was last set or dropped, once the calls on the *)
(* metric are over (the loops of src/metrics/multi.go, the vectors of      *)
(* src/metrics/prometheus.go and the logs of src/aws/metrics/emf.go).      *)
(***************************************************************************)
THEOREM BackendsTellTheSame == Spec => []BackendsAgree
<1>1. Init => Typed /\ AgreeInv
  BY TypedInit, AgreeInit
<1>2. Typed /\ AgreeInv /\ [Next]_vars => (Typed /\ AgreeInv)'
  BY TypedStep, AgreeInvStep
<1>3. Typed /\ AgreeInv => BackendsAgree
  BY AgreeImplies
<1> QED
  BY <1>1, <1>2, <1>3, PTL DEF Spec

-----------------------------------------------------------------------------
(* Counting client-go's requests.                                          *)

\* Which of the steps q add one to a series.
Adding(q, m, l) == [k \in 1 .. Len(q) |-> IF q[k].metric = m /\ q[k].labels = l THEN 1 ELSE 0]

\* How much the steps q will add to a series of a client metric.
WillAdd(q, m, l) == Total(Adding(q, m, l))

\* What client-go calls for a request.
Asked(e) ==
    [i \in 1 .. Len(e.codes) |-> Increment(e.codes[i], e.request)] \o ObserveLatency(e.request)

\* What the calls under way will add, and what the requests made stand for.
Coming(Q, m, l) == [c \in Callers |-> WillAdd(Q[c], m, l)]

\* What is left of the callers' calls.
Queues == [Callers -> Seq(Steps)]

\* What each of the requests made stands for.
Due(all, m, l) == [n \in 1 .. Len(all) |-> WillAdd(Asked(all[n]), m, l)]

(***************************************************************************)
(* The third: what a series counts and what the calls under way will add   *)
(* to it are together what the requests made stand for.  RequestsCounted   *)
(* alone is not inductive, since it is about no call being under way.      *)
(***************************************************************************)
CountInv ==
    \A m \in ClientMetrics : \A l :
        ValueOf(m, 1, l) + Over(Coming(todo, m, l)) = Total(Due(served, m, l))

\* A step adds one or nothing.
LEMMA AddingType ==
    ASSUME NEW q, NEW S, q \in Seq(S), NEW m, NEW l
    PROVE  /\ Len(q) \in Nat /\ Adding(q, m, l) \in [1 .. Len(q) -> {0, 1}]
           /\ Adding(q, m, l) \in [1 .. Len(q) -> Int]
BY DEF Adding

\* The steps left add as often as one of them is on the series.
LEMMA WillAddType ==
    ASSUME NEW q, NEW S, q \in Seq(S), NEW m, NEW l
    PROVE  /\ WillAdd(q, m, l) \in Int
           /\ WillAdd(q, m, l) =
                 Cardinality({k \in 1 .. Len(q) : q[k].metric = m /\ q[k].labels = l})
<1>1. /\ Len(q) \in Nat /\ Adding(q, m, l) \in [1 .. Len(q) -> {0, 1}]
      /\ Adding(q, m, l) \in [1 .. Len(q) -> Int]
  BY AddingType
<1>2. WillAdd(q, m, l) \in Int
  BY <1>1, TotalType DEF WillAdd
<1>3. WillAdd(q, m, l) = Cardinality({k \in 1 .. Len(q) : Adding(q, m, l)[k] = 1})
  BY <1>1, TotalCount DEF WillAdd
<1>4. {k \in 1 .. Len(q) : Adding(q, m, l)[k] = 1} =
         {k \in 1 .. Len(q) : q[k].metric = m /\ q[k].labels = l}
  BY DEF Adding
<1> QED
  BY <1>2, <1>3, <1>4

\* Steps on other series add nothing.
LEMMA WillAddZero ==
    ASSUME NEW q \in Seq(Steps), NEW m, NEW l, \A k \in 1 .. Len(q) : q[k].metric # m
    PROVE  WillAdd(q, m, l) = 0
<1>1. \A k \in 1 .. Len(q) : Adding(q, m, l)[k] = 0
  BY DEF Adding
<1> QED
  BY <1>1, AddingType, TotalZero DEF WillAdd

\* No steps add nothing.
LEMMA WillAddEmpty == ASSUME NEW m, NEW l PROVE WillAdd(<<>>, m, l) = 0
<1>1. <<>> \in Seq(Steps) /\ \A k \in 1 .. Len(<<>>) : FALSE
  BY ShortSeqs
<1> QED
  BY <1>1, WillAddZero

\* The first step of a queue adds its part, the others theirs.
LEMMA WillAddTail ==
    ASSUME NEW q \in Seq(Steps), q # <<>>, NEW m, NEW l
    PROVE  WillAdd(q, m, l) =
              (IF q[1].metric = m /\ q[1].labels = l THEN 1 ELSE 0) + WillAdd(Tail(q), m, l)
<1> DEFINE t == Tail(q)
           N == Len(t)
<1>1. /\ N \in Nat /\ Len(q) = N + 1 /\ t \in Seq(Steps)
      /\ \A k \in 1 .. N : t[k] = q[k + 1]
  BY EmptySeq
<1> HIDE DEF t, N
<1>2. Len(t) = N
  BY DEF N
<1>3. Adding(q, m, l) \in [1 .. N + 1 -> Int] /\ Adding(t, m, l) \in [1 .. N -> Int]
  BY <1>1, <1>2, AddingType
<1>4. \A k \in 1 .. N : k + 1 \in 1 .. N + 1
  BY <1>1
<1>5. \A k \in 1 .. N : Adding(t, m, l)[k] = Adding(q, m, l)[k + 1]
  BY <1>1, <1>2, <1>4 DEF Adding
<1>6. Total(Adding(q, m, l)) = Adding(q, m, l)[1] + Total(Adding(t, m, l))
  BY <1>1, <1>3, <1>5, TotalTail
<1>7. Adding(q, m, l)[1] = IF q[1].metric = m /\ q[1].labels = l THEN 1 ELSE 0
  <2>1. 1 \in 1 .. N + 1
    BY <1>1
  <2> QED
    BY <1>1, <2>1 DEF Adding
<1> QED
  BY <1>6, <1>7 DEF WillAdd, t

\* What is coming are integers, one for each caller.
LEMMA ComingType ==
    ASSUME NEW Q \in [Callers -> Seq(Steps)], NEW m, NEW l
    PROVE  Coming(Q, m, l) \in [Callers -> Int] /\ Over(Coming(Q, m, l)) \in Int
<1>1. \A c \in Callers : WillAdd(Q[c], m, l) \in Int
  <2> SUFFICES ASSUME NEW c \in Callers PROVE WillAdd(Q[c], m, l) \in Int
    OBVIOUS
  <2>1. Q[c] \in Seq(Steps)
    OBVIOUS
  <2> QED
    BY <2>1, WillAddType
<1>2. Coming(Q, m, l) \in [Callers -> Int]
  BY <1>1 DEF Coming
<1> QED
  BY <1>2, OverType

\* One caller goes on.
LEMMA ComingChange ==
    ASSUME NEW P \in Queues, NEW Q \in Queues,
           NEW c \in Callers, \A d \in Callers \ {c} : Q[d] = P[d], NEW m, NEW l
    PROVE  Over(Coming(Q, m, l)) =
              Over(Coming(P, m, l)) + (WillAdd(Q[c], m, l) - WillAdd(P[c], m, l))
<1>1. Coming(P, m, l) \in [Callers -> Int] /\ Coming(Q, m, l) \in [Callers -> Int]
  BY ComingType DEF Queues
<1>2. \A d \in Callers \ {c} : Coming(Q, m, l)[d] = Coming(P, m, l)[d]
  BY DEF Coming
<1>3. /\ Coming(Q, m, l)[c] = WillAdd(Q[c], m, l)
      /\ Coming(P, m, l)[c] = WillAdd(P[c], m, l)
  BY DEF Coming
<1>4. Over(Coming(Q, m, l)) = Over(Coming(P, m, l)) + (Coming(Q, m, l)[c] - Coming(P, m, l)[c])
  BY <1>1, <1>2, OverChange
<1> QED
  BY <1>3, <1>4

\* The calls of a request: one for each answer, and one for its latency.
LEMMA AskedType ==
    ASSUME NEW r \in Requests, NEW codes \in Attempts
    PROVE  LET e == [request |-> r, codes |-> codes] IN
           /\ Len(codes) \in Nat
           /\ \E S : Asked(e) \in Seq(S)
           /\ \/ /\ ObservedLabels(r) = NoLabels
                 /\ Len(Asked(e)) = Len(codes)
              \/ /\ ObservedLabels(r) # NoLabels
                 /\ Len(Asked(e)) = Len(codes) + 1
                 /\ Asked(e)[Len(codes) + 1] = Update("latency", 1, "Observe", ObservedLabels(r), 1)
           /\ \A k \in 1 .. Len(codes) : Asked(e)[k] = Increment(codes[k], r)
<1> DEFINE e == [request |-> r, codes |-> codes]
           incs == [i \in 1 .. Len(codes) |-> Increment(codes[i], r)]
           last == Update("latency", 1, "Observe", ObservedLabels(r), 1)
           S == {Increment(codes[i], r) : i \in 1 .. Len(codes)} \cup {last}
           N == Len(codes)
<1>1. N \in Nat
  BY MetricsAssumption
<1>2. Asked(e) = incs \o ObserveLatency(r)
  BY DEF Asked
<1>3. incs \in Seq(S) /\ Len(incs) = N /\ \A k \in 1 .. N : incs[k] = Increment(codes[k], r)
  BY <1>1
<1>4. /\ ObservedLabels(r) = NoLabels => ObserveLatency(r) = <<>>
      /\ ObservedLabels(r) # NoLabels => ObserveLatency(r) = <<last>>
  BY DEF ObserveLatency
<1>5. <<last>> \in Seq(S) /\ Len(<<last>>) = 1 /\ <<last>>[1] = last
  <2>1. last \in S
    OBVIOUS
  <2> HIDE DEF last, S
  <2> QED
    BY <2>1, ShortSeqs
<1> HIDE DEF incs, last, S, N, e
<1>6. /\ incs \o <<>> = incs
      /\ incs \o <<last>> \in Seq(S) /\ Len(incs \o <<last>>) = N + 1
      /\ (incs \o <<last>>)[N + 1] = last
      /\ \A k \in 1 .. N : (incs \o <<last>>)[k] = incs[k]
  BY <1>1, <1>3, <1>5, ConcatEmptySeq
<1>7. CASE ObservedLabels(r) = NoLabels
  BY <1>1, <1>2, <1>3, <1>4, <1>6, <1>7 DEF e, N
<1>8. CASE ObservedLabels(r) # NoLabels
  BY <1>1, <1>2, <1>3, <1>4, <1>6, <1>8 DEF e, N, last
<1> QED
  BY <1>7, <1>8

\* A direct call's steps add nothing to the client metrics.
LEMMA WillAddDirect ==
    ASSUME NEW q \in Seq(Steps), NEW D, \A k \in 1 .. Len(q) : DirectStep(q[k], D),
           NEW m \in ClientMetrics, NEW l
    PROVE  WillAdd(q, m, l) = 0
<1>1. \A k \in 1 .. Len(q) : q[k].metric # m
  BY DEF DirectStep
<1> QED
  BY <1>1, WillAddZero

\* A direct call preserves CountInv.
LEMMA CountCall ==
    ASSUME Typed, CountInv, NEW c \in Callers, NEW m, NEW op, NEW labels, NEW v,
           Sound(m, op, labels, v), Call(c, m, op, labels, v)
    PROVE  CountInv'
<1> DEFINE u == Update(m, 1, op, labels, v)
<1>1. /\ todo[c] = <<>> /\ UNCHANGED <<vec, log, served>>
      /\ \A d \in Callers \ {c} : todo'[d] = todo[d]
      /\ todo'[c] = <<u>> \/ todo'[c] = <<>>
      /\ todo' \in [Callers -> Seq(Steps)]
  BY CallEffect
<1>2. u.metric = m /\ m \in Metrics \ ClientMetrics
  BY DEF Update, Sound
<1>3. todo \in [Callers -> Seq(Steps)]
  BY DEF Typed
<1> HIDE DEF u
<1> SUFFICES ASSUME NEW n \in ClientMetrics, NEW l
             PROVE  ValueOf(n, 1, l)' + Over(Coming(todo', n, l)) = Total(Due(served', n, l))
  BY DEF CountInv
<1>4. ValueOf(n, 1, l) + Over(Coming(todo, n, l)) = Total(Due(served, n, l))
  BY DEF CountInv
<1>5. WillAdd(todo[c], n, l) = 0 /\ WillAdd(<<>>, n, l) = 0
  BY <1>1, WillAddEmpty
<1>6. todo'[c] = <<u>> => WillAdd(todo'[c], n, l) = 0
  <2> SUFFICES ASSUME todo'[c] = <<u>> PROVE WillAdd(todo'[c], n, l) = 0
    OBVIOUS
  <2>1. todo'[c] \in Seq(Steps)
    BY <1>1
  <2>2. \A k \in 1 .. Len(todo'[c]) : todo'[c][k].metric # n
    BY <1>2
  <2> QED
    BY <2>1, <2>2, WillAddZero
<1>7. WillAdd(todo'[c], n, l) = 0
  BY <1>1, <1>5, <1>6
<1>8. Over(Coming(todo', n, l)) =
        Over(Coming(todo, n, l)) + (WillAdd(todo'[c], n, l) - WillAdd(todo[c], n, l))
  <2> DEFINE P == todo
             Q == todo'
  <2>1. /\ P \in Queues /\ Q \in Queues
        /\ \A d \in Callers \ {c} : Q[d] = P[d]
    BY <1>1, <1>3 DEF Queues
  <2> HIDE DEF P, Q
  <2>2. Over(Coming(Q, n, l)) = Over(Coming(P, n, l)) + (WillAdd(Q[c], n, l) - WillAdd(P[c], n, l))
    BY <2>1, ComingChange
  <2> QED
    BY <2>2 DEF P, Q
<1>9. Over(Coming(todo, n, l)) \in Int
  BY <1>3, ComingType
<1>10. Over(Coming(todo', n, l)) = Over(Coming(todo, n, l))
  BY <1>5, <1>7, <1>8, <1>9
<1>11. ValueOf(n, 1, l)' = ValueOf(n, 1, l) /\ served' = served
  BY <1>1 DEF ValueOf
<1> QED
  BY <1>4, <1>10, <1>11

\* What the requests stand for are integers.
LEMMA DueType ==
    ASSUME NEW all \in Seq([request : Requests, codes : Attempts]), NEW m, NEW l
    PROVE  Len(all) \in Nat /\ Due(all, m, l) \in [1 .. Len(all) -> Int]
<1>1. ASSUME NEW e \in [request : Requests, codes : Attempts]
      PROVE  WillAdd(Asked(e), m, l) \in Int
  <2>1. PICK r \in Requests, codes \in Attempts : e = [request |-> r, codes |-> codes]
    BY <1>1
  <2>2. \E S : Asked(e) \in Seq(S)
    BY <2>1, AskedType
  <2> QED
    BY <2>2, WillAddType
<1>2. \A n \in 1 .. Len(all) : all[n] \in [request : Requests, codes : Attempts]
  <2> DEFINE E == [request : Requests, codes : Attempts]
  <2>1. all \in Seq(E)
    OBVIOUS
  <2> HIDE DEF E
  <2>2. \A n \in 1 .. Len(all) : all[n] \in E
    BY <2>1
  <2> QED
    BY <2>2 DEF E
<1>3. \A n \in 1 .. Len(all) : WillAdd(Asked(all[n]), m, l) \in Int
  BY <1>1, <1>2
<1> QED
  BY <1>3 DEF Due

\* A request preserves CountInv: it is added to both sides.
LEMMA CountRequest ==
    ASSUME Typed, CountInv, NEW c \in Callers, NEW r \in Requests, NEW codes \in Attempts,
           Request(c, r, codes)
    PROVE  CountInv'
<1> DEFINE e == [request |-> r, codes |-> codes]
<1>1. /\ todo[c] = <<>> /\ UNCHANGED <<vec, log, contended, dropped>>
      /\ \A d \in Callers \ {c} : todo'[d] = todo[d]
      /\ todo' \in [Callers -> Seq(Steps)]
      /\ todo'[c] = Asked(e)
      /\ served' = Append(served, e)
  <2>1. e.codes = codes /\ e.request = r
    OBVIOUS
  <2>2. Asked(e) = [i \in 1 .. Len(codes) |-> Increment(codes[i], r)] \o ObserveLatency(r)
    BY <2>1 DEF Asked
  <2> QED
    BY <2>2, RequestEffect
<1>2. todo \in [Callers -> Seq(Steps)] /\ served \in Seq([request : Requests, codes : Attempts])
  BY DEF Typed
<1>3. e \in [request : Requests, codes : Attempts]
  OBVIOUS
<1> HIDE DEF e
<1> SUFFICES ASSUME NEW n \in ClientMetrics, NEW l
             PROVE  ValueOf(n, 1, l)' + Over(Coming(todo', n, l)) = Total(Due(served', n, l))
  BY DEF CountInv
<1>4. ValueOf(n, 1, l) + Over(Coming(todo, n, l)) = Total(Due(served, n, l))
  BY DEF CountInv
<1>5. WillAdd(todo[c], n, l) = 0
  BY <1>1, WillAddEmpty
<1>6. Over(Coming(todo', n, l)) =
        Over(Coming(todo, n, l)) + (WillAdd(Asked(e), n, l) - WillAdd(todo[c], n, l))
  <2> DEFINE P == todo
             Q == todo'
  <2>1. /\ P \in Queues /\ Q \in Queues
        /\ \A d \in Callers \ {c} : Q[d] = P[d]
    BY <1>1, <1>2 DEF Queues
  <2> HIDE DEF P, Q
  <2>2. Over(Coming(Q, n, l)) = Over(Coming(P, n, l)) + (WillAdd(Q[c], n, l) - WillAdd(P[c], n, l))
    BY <2>1, ComingChange
  <2> QED
    BY <1>1, <2>2 DEF P, Q
<1>7. Over(Coming(todo, n, l)) \in Int
  BY <1>2, ComingType
<1>8. Total(Due(served', n, l)) = Total(Due(served, n, l)) + WillAdd(Asked(e), n, l)
  <2> DEFINE N == Len(served)
  <2>1. /\ N \in Nat /\ Len(served') = N + 1 /\ served'[N + 1] = e
        /\ \A k \in 1 .. N : served'[k] = served[k]
        /\ served' \in Seq([request : Requests, codes : Attempts])
    BY <1>1, <1>2, <1>3
  <2>2. Due(served, n, l) \in [1 .. N -> Int]
    BY <1>2, DueType
  <2> HIDE DEF N
  <2>3. Due(served', n, l) \in [1 .. N + 1 -> Int]
    BY <2>1, DueType
  <2>4. \A k \in 1 .. N : Due(served', n, l)[k] = Due(served, n, l)[k]
    <3>1. \A k \in 1 .. N : k \in 1 .. N + 1
      BY <2>1
    <3> QED
      BY <2>1, <3>1 DEF Due, N
  <2>5. Due(served', n, l)[N + 1] = WillAdd(Asked(e), n, l)
    <3>1. N + 1 \in 1 .. N + 1
      BY <2>1
    <3> QED
      BY <2>1, <3>1 DEF Due
  <2>6. Total(Due(served', n, l)) = Total(Due(served, n, l)) + Due(served', n, l)[N + 1]
    BY <2>1, <2>2, <2>3, <2>4, TotalAppend
  <2> QED
    BY <2>5, <2>6
<1>9. WillAdd(Asked(e), n, l) \in Int
  <2>1. Asked(e) \in Seq(Steps)
    BY <1>1
  <2> QED
    BY <2>1, WillAddType
<1>10. ValueOf(n, 1, l)' = ValueOf(n, 1, l)
  BY <1>1 DEF ValueOf
<1>11. ValueOf(n, 1, l) \in Int
  <2>1. n \in Metrics /\ 1 \in 1 .. Len(Backends[n])
    BY BackendsType
  <2> QED
    BY <2>1 DEF ValueOf, Typed
<1> QED
  BY <1>4, <1>5, <1>6, <1>7, <1>8, <1>9, <1>10, <1>11

\* A step of a call preserves CountInv.
LEMMA CountStep ==
    ASSUME Typed, CountInv, NEW c \in Callers, Step(c)
    PROVE  CountInv'
<1> DEFINE s == Now(c)
           m == Now(c).metric
           i == Now(c).backend
           t == Update(m, i + 1, s.op, s.labels, s.v)
<1>1. /\ s \in Steps /\ todo[c] # <<>> /\ UNCHANGED <<calls, contended, dropped, served>>
      /\ m \in Metrics /\ i \in 1 .. Len(Backends[m])
      /\ todo' \in [Callers -> Seq(Steps)]
      /\ \A d \in Callers \ {c} : todo'[d] = todo[d]
      /\ \/ DirectStep(s, dropped)
         \/ ClientStep(s) /\ todo'[c] = Tail(todo[c])
  BY StepEffect
<1>2. todo \in [Callers -> Seq(Steps)] /\ s = todo[c][1] /\ s.metric = m /\ s.backend = i
  BY DEF Typed, Now
<1>3. /\ \A n \in Metrics : \A j \in 1 .. Len(Backends[n]) : n # m \/ j # i => vec'[n][j] = vec[n][j]
      /\ Backends[m][i] = "prometheus" => vec'[m][i] = Prometheus(vec[m][i], s)
  BY StepData
<1>4. DirectStep(s, dropped) =>
         m \notin ClientMetrics /\ \A k \in 1 .. Len(todo'[c]) : todo'[c][k].metric \notin ClientMetrics
  <2> SUFFICES ASSUME DirectStep(s, dropped)
               PROVE  m \notin ClientMetrics /\ \A k \in 1 .. Len(todo'[c]) : todo'[c][k].metric \notin ClientMetrics
    OBVIOUS
  <2>1. m \notin ClientMetrics
    BY DEF DirectStep
  <2>2. todo'[c] = <<t>> \/ todo'[c] = <<>>
    BY <1>1, <2>1, StepEffect DEF ClientStep
  <2>3. t.metric = m
    BY DEF Update
  <2> HIDE DEF t, m, i, s
  <2>4. Len(<<t>>) = 1 /\ <<t>>[1] = t /\ Len(<<>>) = 0
    OBVIOUS
  <2>5. \A k \in 1 .. 1 : k = 1
    OBVIOUS
  <2>6. \A k \in 1 .. 0 : FALSE
    OBVIOUS
  <2> QED
    BY <2>1, <2>2, <2>3, <2>4, <2>5, <2>6
<1> HIDE DEF s, m, i, t
<1> SUFFICES ASSUME NEW n \in ClientMetrics, NEW l
             PROVE  ValueOf(n, 1, l)' + Over(Coming(todo', n, l)) = Total(Due(served', n, l))
  BY DEF CountInv
<1> DEFINE one == IF m = n /\ s.labels = l THEN 1 ELSE 0
<1>5. ValueOf(n, 1, l) + Over(Coming(todo, n, l)) = Total(Due(served, n, l)) /\ served' = served
  BY <1>1 DEF CountInv
<1>6. Over(Coming(todo', n, l)) =
        Over(Coming(todo, n, l)) + (WillAdd(todo'[c], n, l) - WillAdd(todo[c], n, l))
  <2> DEFINE P == todo
             Q == todo'
  <2>1. /\ P \in Queues /\ Q \in Queues
        /\ \A d \in Callers \ {c} : Q[d] = P[d]
    BY <1>1, <1>2 DEF Queues
  <2> HIDE DEF P, Q
  <2>2. Over(Coming(Q, n, l)) = Over(Coming(P, n, l)) + (WillAdd(Q[c], n, l) - WillAdd(P[c], n, l))
    BY <2>1, ComingChange
  <2> QED
    BY <2>2 DEF P, Q
<1>7. todo[c] \in Seq(Steps) /\ todo'[c] \in Seq(Steps) /\ Tail(todo[c]) \in Seq(Steps)
  BY <1>1, <1>2, EmptySeq
<1>8. /\ Over(Coming(todo, n, l)) \in Int
      /\ WillAdd(todo[c], n, l) \in Int /\ WillAdd(todo'[c], n, l) \in Int
  BY <1>2, <1>7, ComingType, WillAddType
<1>9. n \in Metrics /\ Len(Backends[n]) = 1 /\ Backends[n][1] = "prometheus" /\ 1 \in 1 .. 1
  BY BackendsType
<1>10. (\A k \in DOMAIN vec[n][1] : vec[n][1][k] \in Int) /\ ValueOf(n, 1, l) \in Int
  <2>1. 1 \in 1 .. Len(Backends[n])
    BY <1>9
  <2>2. \A k \in DOMAIN vec[n][1] : vec[n][1][k] \in Int
    BY <1>9, <2>1 DEF Typed
  <2> QED
    BY <2>2 DEF ValueOf
<1>11. CASE ClientStep(s) /\ todo'[c] = Tail(todo[c])
  <2>1. WillAdd(todo[c], n, l) = one + WillAdd(todo'[c], n, l)
    BY <1>1, <1>2, <1>7, <1>11, WillAddTail
  <2>2. i = 1 /\ s.op \notin Overwrites /\ s.v = 1 /\ (Hits(s, l) <=> s.labels = l)
    BY <1>2, <1>11 DEF ClientStep, Overwrites, Drops, Hits
  <2>3. CASE m = n
    <3> DEFINE series == vec[n][1]
               after == Prometheus(series, s)
    <3>1. vec'[n][1] = after
      BY <1>3, <1>9, <2>2, <2>3
    <3>2. \A k \in DOMAIN series : series[k] \in Int
      BY <1>10
    <3>3. /\ ValueOf(n, 1, l) = IF l \in DOMAIN series THEN series[l] ELSE 0
          /\ ValueOf(n, 1, l)' = IF l \in DOMAIN after THEN after[l] ELSE 0
      BY <3>1 DEF ValueOf
    <3> HIDE DEF series
    <3>4. /\ ~Hits(s, l) => /\ l \in DOMAIN after <=> l \in DOMAIN series
                            /\ l \in DOMAIN series => after[l] = series[l]
          /\ Hits(s, l) /\ s.op \notin Overwrites =>
                /\ l \in DOMAIN after
                /\ after[l] = (IF l \in DOMAIN series THEN series[l] ELSE 0) + s.v
      BY <1>1, <3>2, PrometheusEffect
    <3> HIDE DEF after
    <3>5. ValueOf(n, 1, l)' = ValueOf(n, 1, l) + one
      BY <1>10, <2>2, <2>3, <3>3, <3>4
    <3> HIDE DEF one
    <3>6. one \in Int
      BY DEF one
    <3> QED
      BY <1>5, <1>6, <1>8, <1>10, <2>1, <3>5, <3>6
  <2>4. CASE m # n
    <3>1. vec'[n][1] = vec[n][1]
      BY <1>3, <1>9, <2>4
    <3>2. ValueOf(n, 1, l)' = ValueOf(n, 1, l) /\ one = 0
      BY <2>4, <3>1 DEF ValueOf
    <3> HIDE DEF one
    <3> QED
      BY <1>5, <1>6, <1>8, <1>10, <2>1, <3>2
  <2> QED
    BY <2>3, <2>4
<1>12. CASE DirectStep(s, dropped)
  <2>1. m # n /\ \A k \in 1 .. Len(todo'[c]) : todo'[c][k].metric # n
    BY <1>4, <1>12
  <2>2. WillAdd(todo'[c], n, l) = 0
    BY <1>7, <2>1, WillAddZero
  <2>3. WillAdd(todo[c], n, l) = 0
    <3>1. \/ \A k \in 1 .. Len(todo[c]) : DirectStep(todo[c][k], dropped)
          \/ \A k \in 1 .. Len(todo[c]) : ClientStep(todo[c][k])
      BY DEF Typed
    <3>2. 1 \in 1 .. Len(todo[c])
      <4>1. Len(todo[c]) \in Nat \ {0}
        BY <1>1, <1>7, ShortSeqs
      <4>2. \A k \in Nat \ {0} : 1 \in 1 .. k
        OBVIOUS
      <4> QED
        BY <4>1, <4>2
    <3>3. \A k \in 1 .. Len(todo[c]) : DirectStep(todo[c][k], dropped)
      BY <1>2, <1>4, <1>12, <3>1, <3>2 DEF ClientStep
    <3> QED
      BY <1>7, <3>3, WillAddDirect
  <2>4. ValueOf(n, 1, l)' = ValueOf(n, 1, l)
    <3>1. vec'[n][1] = vec[n][1]
      BY <1>3, <1>9, <2>1
    <3> QED
      BY <3>1 DEF ValueOf
  <2> QED
    BY <1>5, <1>6, <1>8, <2>2, <2>3, <2>4
<1> QED
  BY <1>1, <1>11, <1>12

\* CountInv holds at the start.
LEMMA CountInit == ASSUME Init PROVE CountInv
<1> SUFFICES ASSUME NEW m \in ClientMetrics, NEW l
             PROVE  ValueOf(m, 1, l) + Over(Coming(todo, m, l)) = Total(Due(served, m, l))
  BY DEF CountInv
<1>1. ValueOf(m, 1, l) = 0
  <2>1. m \in Metrics /\ 1 \in DOMAIN Backends[m] /\ DOMAIN <<>> = {}
    BY BackendsType
  <2> QED
    BY <2>1 DEF Init, ValueOf
<1>2. todo \in [Callers -> Seq(Steps)] /\ \A c \in Callers : WillAdd(todo[c], m, l) = 0
  BY ShortSeqs, WillAddEmpty DEF Init
<1>3. \A c \in Callers : Coming(todo, m, l)[c] = 0
  BY <1>2 DEF Coming
<1>4. Over(Coming(todo, m, l)) = 0
  BY <1>2, <1>3, ComingType, OverZero
<1>5. Len(served) = 0
  BY DEF Init
<1>6. Due(served, m, l) \in [1 .. 0 -> Int] /\ \A n \in 1 .. 0 : Due(served, m, l)[n] = 0
  BY <1>5 DEF Due
<1>7. Total(Due(served, m, l)) = 0
  BY <1>6, TotalZero
<1> QED
  BY <1>1, <1>4, <1>7

\* CountInv is inductive, given Typed.
LEMMA CountInvStep ==
    ASSUME Typed, CountInv, [Next]_vars
    PROVE  CountInv'
<1>1. CASE Next
  BY <1>1, NextCases, CountCall, CountRequest, CountStep DEF Called
<1>2. CASE UNCHANGED vars
  BY <1>2 DEF vars, CountInv, ValueOf
<1> QED
  BY <1>1, <1>2

-----------------------------------------------------------------------------
(* The labels of a request's latency.                                      *)

\* The marks of client-go's templates are no other parts of a path.
LEMMA Marks == Name \notin {"v1", "api", "apis", "namespaces", Namespace}
BY DEF Name, Namespace

\* One more segment, or none.
LEMMA Joined ==
    ASSUME NEW S, NEW s \in Seq(S), NEW b \in S
    PROVE  /\ s \o <<>> = s
           /\ s \o <<b>> \in Seq(S) /\ Len(s \o <<b>>) = Len(s) + 1
           /\ (s \o <<b>>)[Len(s) + 1] = b
           /\ \A k \in 1 .. Len(s) : (s \o <<b>>)[k] = s[k]
BY ConcatEmptySeq

\* Some arithmetic.
LEMMA Digits ==
    1 \in 1 .. 3 /\ 2 \in 1 .. 3 /\ 3 \in 1 .. 3 /\ 0 # 2 /\ 1 # 2 /\ 1 # 3 /\ 2 # 3
OBVIOUS

\* A sequence of two.
LEMMA Pair ==
    ASSUME NEW S, NEW x \in S, NEW y \in S
    PROVE  /\ <<x, y>> \in Seq(S) /\ Len(<<x, y>>) = 2 /\ <<x, y>>[1] = x
           /\ <<>> \in Seq(S) /\ Len(<<>>) = 0
BY EmptySeq

\* Where the version is in a path.
Core(r) == IF r.group = None THEN 1 ELSE 2

\* The segments of a path after the prefix of its group and version.
LEMMA PathThen ==
    ASSUME NEW r, r.group # Name, NEW S, NEW x \in Seq(S)
    PROVE  LET g == Core(r)
               p == Prefix(r) \o x
           IN  /\ g \in 1 .. 2 /\ Len(x) \in Nat /\ Len(p) = g + 1 + Len(x)
               /\ p[1] \in {"api", "apis"} /\ (p[1] = "api" <=> g = 1)
               /\ g = 2 => p[2] = r.group
               /\ g = 1 => r.group = None
               /\ p[g + 1] = "v1"
               /\ \A k \in 1 .. Len(x) : p[g + 1 + k] = x[k]
               /\ (\E i \in 1 .. Len(p) : p[i] = Name) <=>
                     (\E k \in 1 .. Len(x) : x[k] = Name)
<1> DEFINE T == S \cup {"api", "apis", "v1", r.group}
           pre == Prefix(r)
           p == pre \o x
           g == Core(r)
<1>1. /\ pre \in Seq(T) /\ g \in 1 .. 2 /\ Len(pre) = g + 1
      /\ pre[1] \in {"api", "apis"} /\ (pre[1] = "api" <=> g = 1)
      /\ g = 2 => pre[2] = r.group
      /\ pre[g + 1] = "v1"
      /\ \A k \in 1 .. g + 1 : pre[k] # Name
  <2>1. CASE r.group = None
    <3>1. pre = <<"api", "v1">> /\ g = 1
      BY <2>1 DEF Prefix, Core
    <3>2. {"api", "v1"} \subseteq T
      OBVIOUS
    <3> HIDE DEF pre, T, g
    <3>3. \A k \in 1 .. 2 : k = 1 \/ k = 2
      OBVIOUS
    <3>4. <<"api", "v1">> \in Seq(T)
      BY <3>2
    <3> QED
      BY <3>1, <3>3, <3>4, Marks
  <2>2. CASE r.group # None
    <3>1. pre = <<"apis", r.group, "v1">> /\ g = 2
      BY <2>2 DEF Prefix, Core
    <3>2. {"apis", r.group, "v1"} \subseteq T
      OBVIOUS
    <3>3. \A k \in 1 .. 3 : k = 1 \/ k = 2 \/ k = 3
      OBVIOUS
    <3> HIDE DEF pre, T, g
    <3>4. /\ <<"apis", r.group, "v1">>[1] = "apis" /\ <<"apis", r.group, "v1">>[2] = r.group
          /\ <<"apis", r.group, "v1">>[3] = "v1" /\ Len(<<"apis", r.group, "v1">>) = 3
      OBVIOUS
    <3>5. <<"apis", r.group, "v1">> \in Seq(T)
      BY <3>2
    <3> QED
      BY <3>1, <3>3, <3>4, <3>5, Marks
  <2> QED
    BY <2>1, <2>2
<1>2. x \in Seq(T)
  OBVIOUS
<1>3. g = 1 => r.group = None
  BY Digits, Zenon DEF Core
<1> HIDE DEF T, pre, g
<1>4. /\ Len(x) \in Nat /\ Len(p) = g + 1 + Len(x)
      /\ \A k \in 1 .. g + 1 : p[k] = pre[k]
      /\ \A k \in 1 .. Len(x) : p[g + 1 + k] = x[k]
  BY <1>1, <1>2
<1> HIDE DEF p
<1>5. (\E i \in 1 .. Len(p) : p[i] = Name) <=> (\E k \in 1 .. Len(x) : x[k] = Name)
  <2>1. ASSUME NEW i \in 1 .. Len(p), p[i] = Name
        PROVE  \E k \in 1 .. Len(x) : x[k] = Name
    <3>1. i \notin 1 .. g + 1
      BY <1>1, <1>4, <2>1
    <3>2. i - (g + 1) \in 1 .. Len(x) /\ g + 1 + (i - (g + 1)) = i
      BY <1>1, <1>4, <3>1
    <3> QED
      BY <1>4, <2>1, <3>2
  <2>2. ASSUME NEW k \in 1 .. Len(x), x[k] = Name
        PROVE  \E i \in 1 .. Len(p) : p[i] = Name
    <3>1. g + 1 + k \in 1 .. Len(p)
      BY <1>1, <1>4
    <3> QED
      BY <1>4, <2>2, <3>1
  <2> QED
    BY <2>1, <2>2
<1>6. p[1] = pre[1] /\ p[g + 1] = pre[g + 1] /\ (g = 2 => p[2] = pre[2])
  <2>1. 1 \in 1 .. g + 1 /\ g + 1 \in 1 .. g + 1 /\ 2 \in 1 .. g + 1
    BY <1>1
  <2> QED
    BY <1>4, <2>1
<1> QED
  BY <1>1, <1>3, <1>4, <1>5, <1>6 DEF p, pre, g

\* The path of a request is its prefix and x.
Below(r, x) == URLTemplate(r) = Prefix(r) \o x

\* The last segments that client-go keeps.
Kept(s) == s \in {"status", "finalize"}

\* Below the prefix: "namespaces" and the namespace if b is 2, and then n
\* segments of the kind, the name and the subresource.
Shape(r, x, b, n, name) ==
    /\ Len(x) = b + n
    /\ b = 2 => x[1] = "namespaces"
    /\ x[b + 1] = r.resource
    /\ n >= 2 => x[b + 2] = name
    /\ n = 3 => x[b + 3] = r.sub

\* The parts of a path joined.
LEMMA Joins ==
    ASSUME NEW S, NEW r, r.resource \in S, r.sub \in S, "some-name" \in S,
           NEW one \in Seq(S), NEW b \in {0, 2}, Len(one) = b, b = 2 => one[1] = "namespaces"
    PROVE  LET two == one \o <<r.resource>>
               three == two \o <<"some-name">>
               four == three \o <<r.sub>>
           IN  /\ two \in Seq(S) /\ three \in Seq(S) /\ four \in Seq(S)
               /\ two \o <<>> = two /\ three \o <<>> = three
               /\ Shape(r, two, b, 1, "some-name")
               /\ Shape(r, three, b, 2, "some-name")
               /\ Shape(r, four, b, 3, "some-name")
<1> DEFINE two == one \o <<r.resource>>
           three == two \o <<"some-name">>
           four == three \o <<r.sub>>
<1>1. /\ two \in Seq(S) /\ Len(two) = b + 1 /\ two[b + 1] = r.resource
      /\ \A k \in 1 .. b : two[k] = one[k]
  BY Joined
<1> HIDE DEF two
<1>2. /\ two \o <<>> = two
      /\ three \in Seq(S) /\ Len(three) = (b + 1) + 1 /\ three[(b + 1) + 1] = "some-name"
      /\ \A k \in 1 .. b + 1 : three[k] = two[k]
  BY <1>1, Joined
<1> HIDE DEF three
<1>3. /\ three \o <<>> = three
      /\ four \in Seq(S) /\ Len(four) = ((b + 1) + 1) + 1 /\ four[((b + 1) + 1) + 1] = r.sub
      /\ \A k \in 1 .. (b + 1) + 1 : four[k] = three[k]
  BY <1>2, Joined
<1> HIDE DEF four
<1>4. /\ (b + 1) + 1 = b + 2 /\ ((b + 1) + 1) + 1 = b + 3
      /\ 1 \in 1 .. b + 1 /\ b + 1 \in 1 .. b + 1
      /\ 1 \in 1 .. b + 2 /\ b + 1 \in 1 .. b + 2 /\ b + 2 \in 1 .. b + 2
      /\ b = 2 => 1 \in 1 .. b
  OBVIOUS
<1>5. Shape(r, two, b, 1, "some-name")
  BY <1>1, <1>4 DEF Shape
<1>6. Shape(r, three, b, 2, "some-name")
  BY <1>1, <1>2, <1>4 DEF Shape
<1>7. Shape(r, four, b, 3, "some-name")
  BY <1>1, <1>2, <1>3, <1>4 DEF Shape
<1> QED
  BY <1>1, <1>2, <1>3, <1>5, <1>6, <1>7 DEF two, three, four

\* The number of segments for the kind, the name and the subresource.
Named(r, n) == (n = 1 <=> ~r.named) /\ (n = 3 <=> r.sub # None) /\ n \in 1 .. 3

\* The shape of what is below the group and version.
LEMMA Rests ==
    ASSUME NEW r, WellFormed(r), r.resource # None
    PROVE  \E S : \E b \in {0, 2}, n \in 1 .. 3 :
              /\ Rest(r) \in Seq(S) /\ {Name, Namespace} \subseteq S
              /\ Shape(r, Rest(r), b, n, "some-name")
              /\ Named(r, n) /\ (b = 0 => ~r.namespaced)
<1> DEFINE S == {"namespaces", "some-namespace", "some-name", r.resource, r.sub, Name, Namespace}
<1>1. \E one \in Seq(S), b \in {0, 2} :
        /\ one = IF r.namespaced THEN <<"namespaces", "some-namespace">> ELSE <<>>
        /\ Len(one) = b /\ (b = 2 => one[1] = "namespaces") /\ (b = 0 => ~r.namespaced)
  <2>1. {"namespaces", "some-namespace"} \subseteq S
    OBVIOUS
  <2> HIDE DEF S
  <2> DEFINE q == <<"namespaces", "some-namespace">>
  <2>2. q \in Seq(S) /\ Len(q) = 2 /\ q[1] = "namespaces" /\ <<>> \in Seq(S) /\ Len(<<>>) = 0 /\ 0 # 2
    BY <2>1, Pair, Digits, Zenon
  <2> HIDE DEF q
  <2>3. CASE r.namespaced
    BY <2>2, <2>3, Zenon DEF q
  <2>4. CASE ~r.namespaced
    BY <2>2, <2>4, Zenon DEF q
  <2> QED
    BY <2>3, <2>4
<1>2. PICK one \in Seq(S), b \in {0, 2} :
        /\ one = IF r.namespaced THEN <<"namespaces", "some-namespace">> ELSE <<>>
        /\ Len(one) = b /\ (b = 2 => one[1] = "namespaces") /\ (b = 0 => ~r.namespaced)
  BY <1>1
<1>3. r.resource \in S /\ r.sub \in S /\ "some-name" \in S /\ {Name, Namespace} \subseteq S
  OBVIOUS
<1> DEFINE two == one \o <<r.resource>>
           three == two \o <<"some-name">>
           four == three \o <<r.sub>>
<1> HIDE DEF S
<1>4. /\ two \in Seq(S) /\ three \in Seq(S) /\ four \in Seq(S)
      /\ two \o <<>> = two /\ three \o <<>> = three
      /\ Shape(r, two, b, 1, "some-name")
      /\ Shape(r, three, b, 2, "some-name")
      /\ Shape(r, four, b, 3, "some-name")
  <2>1. Len(one) = b /\ (b = 2 => one[1] = "namespaces")
    BY <1>2
  <2> QED
    BY <1>3, <2>1, Joins
<1>5. Rest(r) = (two \o (IF r.named THEN <<"some-name">> ELSE <<>>))
                    \o (IF r.sub = None THEN <<>> ELSE <<r.sub>>)
  BY <1>2 DEF Rest
<1>6. r.sub # None => r.named
  BY DEF WellFormed
<1> HIDE DEF two, three, four
<1>7. CASE ~r.named
  <2>1. Rest(r) = two /\ Named(r, 1)
    BY <1>4, <1>5, <1>6, Digits, <1>7, Zenon DEF Named
  <2> QED
    BY <1>2, <1>3, <1>4, Digits, <2>1, Zenon
<1>8. CASE r.named /\ r.sub = None
  <2>1. Rest(r) = three /\ Named(r, 2)
    BY <1>4, <1>5, <1>6, Digits, <1>8, Zenon DEF Named, three
  <2> QED
    BY <1>2, <1>3, <1>4, Digits, <2>1, Zenon
<1>9. CASE r.named /\ r.sub # None
  <2>1. Rest(r) = four /\ Named(r, 3)
    BY <1>4, <1>5, <1>6, Digits, <1>9, Zenon DEF Named, three, four
  <2> QED
    BY <1>2, <1>3, <1>4, Digits, <2>1, Zenon
<1> QED
  BY <1>7, <1>8, <1>9

\* A name or a namespace replaced in a path.
LEMMA Replaced ==
    ASSUME NEW S, NEW s \in Seq(S), NEW k \in 1 .. Len(s), NEW v \in S
    PROVE  LET x == [s EXCEPT ![k] = v] IN
           /\ x \in Seq(S) /\ Len(x) = Len(s) /\ x[k] = v
           /\ \A j \in 1 .. Len(s) : j # k => x[j] = s[j]
BY ExceptSeq

\* The path that client-go gives a request of such a shape.
Template(r, S, b, n) ==
    \E x \in Seq(S) :
        /\ URLTemplate(r) = Prefix(r) \o x
        /\ Shape(r, x, b, n, Name) /\ (b = 2 => x[2] = Namespace)

\* The template has the shape of the path, with marks for the names.
LEMMA Templates ==
    ASSUME NEW r, NEW S, NEW rest \in Seq(S), Rest(r) = rest, Name \in S, Namespace \in S,
           NEW b \in {0, 2}, NEW n \in 1 .. 3, Shape(r, rest, b, n, "some-name"),
           ~Kept(r.resource), b = 0 /\ n = 3 => Kept(r.sub)
    PROVE  Template(r, S, b, n)
<1> USE DEF Template
<1>1. /\ Len(rest) = b + n /\ (b = 2 => rest[1] = "namespaces")
      /\ rest[b + 1] = r.resource /\ (n >= 2 => rest[b + 2] = "some-name")
      /\ (n = 3 => rest[b + 3] = r.sub)
  BY DEF Shape
<1>2. \A s : Kept(s) <=> s \in {"status", "finalize"}
  BY DEF Kept
<1>3. ~Kept("some-name")
  BY DEF Kept
<1>4. CASE b = 0 /\ n = 1
  <2>1. URLTemplate(r) = Prefix(r) \o rest
    BY <1>1, <1>4 DEF URLTemplate
  <2> QED
    BY <1>1, <1>4, <2>1 DEF Shape
<1>5. CASE b = 0 /\ n = 2
  <2> DEFINE x == [rest EXCEPT ![2] = Name]
  <2>1. URLTemplate(r) = Prefix(r) \o x
    BY <1>1, <1>5 DEF URLTemplate
  <2>2. x \in Seq(S) /\ Len(x) = 2 /\ x[1] = rest[1] /\ x[2] = Name
    <3>1. Len(rest) = 2 /\ 2 \in 1 .. Len(rest) /\ 1 \in 1 .. 2 /\ 2 \in 1 .. 2
      BY <1>1, <1>5
    <3>0. 2 \in 1 .. Len(rest)
      BY <3>1
    <3>2. /\ x \in Seq(S) /\ Len(x) = Len(rest) /\ x[2] = Name
          /\ \A j \in 1 .. Len(rest) : j # 2 => x[j] = rest[j]
      BY <3>0, Replaced
    <3> QED
      BY <3>1, <3>2
  <2> HIDE DEF x
  <2>3. Shape(r, x, b, n, Name)
    BY <1>1, <1>5, <2>2 DEF Shape
  <2>4. b # 2
    BY <1>5
  <2> QED
    BY <2>1, <2>2, <2>3, <2>4
<1>6. CASE b = 0 /\ n = 3
  <2> DEFINE x == [rest EXCEPT ![2] = Name]
  <2>1. URLTemplate(r) = Prefix(r) \o x
    <3>1. Len(rest) = 3 /\ rest[3] \in {"status", "finalize"}
      BY <1>1, <1>2, <1>6
    <3> QED
      BY <3>1 DEF URLTemplate
  <2>2. x \in Seq(S) /\ Len(x) = 3 /\ x[1] = rest[1] /\ x[2] = Name /\ x[3] = rest[3]
    <3>1. Len(rest) = 3 /\ 2 \in 1 .. Len(rest) /\ 1 \in 1 .. 3 /\ 3 \in 1 .. 3
      BY <1>1, <1>6
    <3>2. /\ x \in Seq(S) /\ Len(x) = Len(rest) /\ x[2] = Name
          /\ \A j \in 1 .. Len(rest) : j # 2 => x[j] = rest[j]
      BY <3>1, Replaced
    <3> QED
      BY <3>1, <3>2
  <2> HIDE DEF x
  <2>3. Shape(r, x, b, n, Name)
    BY <1>1, <1>6, <2>2 DEF Shape
  <2>4. b # 2
    BY <1>6
  <2> QED
    BY <2>1, <2>2, <2>3, <2>4
<1>7. CASE b = 2 /\ n = 1
  <2> DEFINE x == [rest EXCEPT ![2] = Namespace]
  <2>1. URLTemplate(r) = Prefix(r) \o x
    <3>1. Len(rest) = 3 /\ rest[3] \notin {"status", "finalize"}
      BY <1>1, <1>2, <1>7
    <3> QED
      BY <3>1 DEF URLTemplate
  <2>2. x \in Seq(S) /\ Len(x) = 3 /\ x[1] = rest[1] /\ x[2] = Namespace /\ x[3] = rest[3]
    <3>1. Len(rest) = 3 /\ 2 \in 1 .. Len(rest) /\ 1 \in 1 .. 3 /\ 3 \in 1 .. 3
      BY <1>1, <1>7
    <3>2. /\ x \in Seq(S) /\ Len(x) = Len(rest) /\ x[2] = Namespace
          /\ \A j \in 1 .. Len(rest) : j # 2 => x[j] = rest[j]
      BY <3>1, Replaced
    <3> QED
      BY <3>1, <3>2
  <2> HIDE DEF x
  <2>3. Shape(r, x, b, n, Name)
    BY <1>1, <1>7, <2>2 DEF Shape
  <2> QED
    BY <1>7, <2>1, <2>2, <2>3
<1>8. CASE b = 2 /\ n \in 2 .. 3
  <2> DEFINE x == [rest EXCEPT ![2] = Namespace, ![4] = Name]
  <2>1. URLTemplate(r) = Prefix(r) \o x
    <3>1. Len(rest) \in {4, 5} /\ rest[4] \notin {"status", "finalize"}
      BY <1>1, <1>2, <1>3, <1>8
    <3> QED
      BY <3>1 DEF URLTemplate
  <2>2. /\ x \in Seq(S) /\ Len(x) = b + n /\ x[1] = rest[1] /\ x[2] = Namespace /\ x[3] = rest[3]
        /\ x[4] = Name /\ (n = 3 => x[5] = rest[5])
    BY <1>1, <1>8
  <2> HIDE DEF x
  <2>3. Shape(r, x, b, n, Name)
    BY <1>1, <1>8, <2>2 DEF Shape
  <2> QED
    BY <1>8, <2>1, <2>2, <2>3
<1>9. n \in 2 .. 3 \/ n = 1
  OBVIOUS
<1>10. n \in 2 .. 3 => n = 2 \/ n = 3
  OBVIOUS
<1> QED
  BY <1>4, <1>5, <1>6, <1>7, <1>8, <1>9, <1>10

\* What Observe makes of such a path.
LEMMA Parsed ==
    ASSUME NEW r, NEW p, NEW g \in 1 .. 2, NEW b \in {0, 2}, NEW n \in 1 .. 3,
           Len(p) = g + 1 + (b + n), p[1] = IF g = 1 THEN "api" ELSE "apis",
           g = 2 => p[2] = r.group, g = 1 => r.group = None, p[g + 1] = "v1",
           b = 2 => p[g + 2] = "namespaces",
           b = 0 /\ n = 3 => r.resource # "namespaces",
           p[g + 1 + (b + 1)] = r.resource, n = 3 => p[g + 1 + (b + 3)] = r.sub,
           n # 3 => r.sub = None
    PROVE  parsePath(p) =
              [group |-> r.group, version |-> "v1", kind |-> r.resource, subresource |-> r.sub]
<1> DEFINE ns == p[g + 2] = "namespaces" /\ Len(p) > g + 3
           k == IF ns THEN g + 4 ELSE g + 2
<1>1. g = IF p[1] = "api" THEN 1 ELSE 2
  OBVIOUS
<1>2. ~(p[1] \notin {"api", "apis"} \/ Len(p) < g + 2)
  OBVIOUS
<1>3. k = g + 2 + b
  <2>1. CASE b = 2
    BY <2>1
  <2>2. CASE b = 0 /\ n # 3
    BY <2>2
  <2>3. CASE b = 0 /\ n = 3
    BY <2>3
  <2> QED
    BY <2>1, <2>2, <2>3
<1>4. parsePath(p) = [group |-> IF g = 1 THEN None ELSE p[g], version |-> p[g + 1],
                      kind |-> p[k], subresource |-> PathSubresource(p, k)]
  BY <1>1, <1>2 DEF parsePath
<1> HIDE DEF k
<1>5. g + 1 + (b + 1) = k /\ g + 1 + (b + 3) = k + 2
  BY <1>3
<1>6. PathSubresource(p, k) = r.sub
  BY <1>3, <1>5 DEF PathSubresource
<1>7. (IF g = 1 THEN None ELSE p[g]) = r.group
  OBVIOUS
<1> QED
  BY <1>4, <1>5, <1>6, <1>7

\* A request that is not ambiguous is counted as what it was.
LEMMA ObservedIsRequest ==
    ASSUME NEW r, WellFormed(r), ~Ambiguous(r)
    PROVE  ObservedLabels(r) = RequestLabels(r)
<1>1. CASE r.resource = None
  <2>1. ~r.namespaced /\ ~r.named /\ r.sub = None
    BY <1>1 DEF WellFormed
  <2>2. Rest(r) = <<>>
    BY <1>1, <2>1 DEF Rest
  <2>3. URLTemplate(r) = Prefix(r) \o <<>>
    BY <2>2 DEF URLTemplate
  <2>4. URLTemplate(r) = Prefix(r)
    BY <2>3 DEF Prefix
  <2>5. parsePath(URLTemplate(r)) = NoLabels
    <3>1. CASE r.group = None
      <4>1. URLTemplate(r) = <<"api", "v1">>
        BY <2>4, <3>1 DEF Prefix
      <4> QED
        BY <4>1 DEF parsePath
    <3>2. CASE r.group # None
      <4>1. URLTemplate(r) = <<"apis", r.group, "v1">>
        BY <2>4, <3>2 DEF Prefix
      <4> QED
        BY <4>1 DEF parsePath
    <3> QED
      BY <3>1, <3>2
  <2> QED
    BY <1>1, <2>5 DEF ObservedLabels, RequestLabels
<1>2. CASE r.resource # None
  <2>0. PICK S : \E b \in {0, 2}, n \in 1 .. 3 :
          /\ Rest(r) \in Seq(S) /\ {Name, Namespace} \subseteq S
          /\ Shape(r, Rest(r), b, n, "some-name")
          /\ Named(r, n) /\ (b = 0 => ~r.namespaced)
    BY <1>2, Rests
  <2>1. PICK b \in {0, 2}, n \in 1 .. 3 :
          /\ Rest(r) \in Seq(S) /\ {Name, Namespace} \subseteq S
          /\ Shape(r, Rest(r), b, n, "some-name")
          /\ Named(r, n) /\ (b = 0 => ~r.namespaced)
    BY <2>0
  <2>2. ~Kept(r.resource) /\ (b = 0 /\ n = 3 => Kept(r.sub))
    BY <2>1 DEF Kept, WellFormed, Ambiguous, Named
  <2>2a. Template(r, S, b, n)
    <3> DEFINE rest == Rest(r)
    <3>1. /\ rest \in Seq(S) /\ Rest(r) = rest /\ Name \in S /\ Namespace \in S
          /\ Shape(r, rest, b, n, "some-name")
      BY <2>1
    <3> HIDE DEF rest
    <3> QED
      BY <2>2, <3>1, Templates
  <2>3. PICK x \in Seq(S) :
          /\ URLTemplate(r) = Prefix(r) \o x
          /\ Shape(r, x, b, n, Name) /\ (b = 2 => x[2] = Namespace)
    BY <2>2a DEF Template
  <2>4. r.group # Name /\ r.resource # Name /\ r.sub # Name
    BY DEF WellFormed
  <2> DEFINE p == Prefix(r) \o x
             g == Core(r)
  <2>5. /\ g \in 1 .. 2 /\ Len(x) \in Nat /\ Len(p) = g + 1 + Len(x)
        /\ p[1] \in {"api", "apis"} /\ (p[1] = "api" <=> g = 1)
        /\ g = 2 => p[2] = r.group
        /\ g = 1 => r.group = None
        /\ p[g + 1] = "v1"
        /\ \A k \in 1 .. Len(x) : p[g + 1 + k] = x[k]
        /\ (\E i \in 1 .. Len(p) : p[i] = Name) <=>
              (\E k \in 1 .. Len(x) : x[k] = Name)
    BY <2>4, PathThen
  <2>6. p = URLTemplate(r)
    BY <2>3
  <2> HIDE DEF p, g
  <2>7. /\ Len(x) = b + n /\ (b = 2 => x[1] = "namespaces" /\ x[2] = Namespace)
        /\ x[b + 1] = r.resource /\ (n >= 2 => x[b + 2] = Name)
        /\ (n = 3 => x[b + 3] = r.sub)
    BY <2>3 DEF Shape
  <2>8. b = 0 /\ n = 3 => r.resource # "namespaces"
    BY <2>1 DEF Ambiguous, Named
  <2>9. n # 3 => r.sub = None
    BY <2>1 DEF Named
  <2>10. /\ b = 2 => p[g + 2] = "namespaces"
         /\ p[g + 1 + (b + 1)] = r.resource
         /\ n = 3 => p[g + 1 + (b + 3)] = r.sub
    <3>1. /\ b + 1 \in 1 .. Len(x) /\ (n = 3 => b + 3 \in 1 .. Len(x))
          /\ b = 2 => 1 \in 1 .. Len(x) /\ g + 1 + 1 = g + 2
      BY <2>5, <2>7
    <3> QED
      BY <2>5, <2>7, <3>1
  <2>11. parsePath(p) =
           [group |-> r.group, version |-> "v1", kind |-> r.resource, subresource |-> r.sub]
    BY <2>5, <2>7, <2>8, <2>9, <2>10, Parsed
  <2>12. (\E i \in 1 .. Len(p) : p[i] = Name) <=> r.named
    <3>1. n >= 2 <=> n # 1
      OBVIOUS
    <3>2. n # 1 => \E k \in 1 .. Len(x) : x[k] = Name
      <4>1. n # 1 => b + 2 \in 1 .. Len(x)
        BY <2>7
      <4> QED
        BY <2>7, <3>1, <4>1
    <3>3. n = 1 => \A k \in 1 .. Len(x) : x[k] # Name
      <4>1. CASE n = 1 /\ b = 0
        <5>1. \A k \in 1 .. Len(x) : k = 1
          BY <2>7, <4>1
        <5> QED
          BY <2>4, <2>7, <4>1, <5>1
      <4>2. CASE n = 1 /\ b = 2
        <5>1. \A k \in 1 .. Len(x) : k = 1 \/ k = 2 \/ k = 3
          BY <2>7, <4>2
        <5> QED
          BY <2>4, <2>7, <4>2, <5>1, Marks
      <4> QED
        BY <4>1, <4>2
    <3>4. n = 1 <=> ~r.named
      BY <2>1 DEF Named
    <3>5. (\E i \in 1 .. Len(p) : p[i] = Name) <=> n # 1
      BY <2>5, <3>2, <3>3
    <3> QED
      BY <3>4, <3>5
  <2>13. ObservedVerb(r.method, p) = RequestVerb(r)
    <3>1. r.method = "PUT" => r.named
      BY DEF WellFormed
    <3> QED
      BY <2>12, <3>1 DEF ObservedVerb, RequestVerb
  <2>14. parsePath(p) # NoLabels
    <3>1. "version" \in DOMAIN parsePath(p) /\ "version" \notin DOMAIN NoLabels
      BY <2>11 DEF NoLabels
    <3> QED
      BY <3>1
  <2> QED
    BY <1>2, <2>6, <2>11, <2>13, <2>14 DEF ObservedLabels, RequestLabels
<1> QED
  BY <1>1, <1>2

-----------------------------------------------------------------------------
(* Every request is counted once.                                          *)

\* A request stands for one observation, under the labels it is observed with.
LEMMA LatencyDue ==
    ASSUME NEW r \in Requests, NEW codes \in Attempts, NEW l, l # NoLabels
    PROVE  WillAdd(Asked([request |-> r, codes |-> codes]), "latency", l) =
              IF ObservedLabels(r) = l THEN 1 ELSE 0
<1> DEFINE q == Asked([request |-> r, codes |-> codes])
           N == Len(codes)
           Those == {k \in 1 .. Len(q) : q[k].metric = "latency" /\ q[k].labels = l}
<1>1. /\ N \in Nat
      /\ \E S : q \in Seq(S)
      /\ \/ ObservedLabels(r) = NoLabels /\ Len(q) = N
         \/ /\ ObservedLabels(r) # NoLabels
            /\ Len(q) = N + 1
            /\ q[N + 1] = Update("latency", 1, "Observe", ObservedLabels(r), 1)
      /\ \A k \in 1 .. N : q[k] = Increment(codes[k], r)
  BY AskedType
<1>2. WillAdd(q, "latency", l) = Cardinality(Those)
  BY <1>1, WillAddType
<1>3. \A k \in 1 .. N : q[k].metric # "latency"
  <2>1. \A k \in 1 .. N : Increment(codes[k], r).metric = "result"
    BY DEF Increment, Update
  <2> QED
    BY <1>1, <2>1
<1> HIDE DEF q, N
<1>4. CASE ObservedLabels(r) = l
  <2>1. Len(q) = N + 1 /\ q[N + 1].metric = "latency" /\ q[N + 1].labels = l
    BY <1>1, <1>4 DEF Update
  <2>2. \A k \in 1 .. N + 1 : k \in 1 .. N \/ k = N + 1
    BY <1>1
  <2>3. N + 1 \in 1 .. N + 1
    BY <1>1
  <2>4. Those = {N + 1}
    BY <1>3, <2>1, <2>2, <2>3
  <2>5. Cardinality({N + 1}) = 1
    BY FS_Singleton
  <2> QED
    BY <1>2, <1>4, <2>4, <2>5 DEF q
<1>5. CASE ObservedLabels(r) # l
  <2>1. \A k \in 1 .. Len(q) : ~(q[k].metric = "latency" /\ q[k].labels = l)
    <3>1. CASE Len(q) = N
      BY <1>3, <3>1
    <3>2. CASE Len(q) = N + 1 /\ q[N + 1] = Update("latency", 1, "Observe", ObservedLabels(r), 1)
      <4>1. q[N + 1].labels # l
        BY <1>5, <3>2 DEF Update
      <4>2. \A k \in 1 .. N + 1 : k \in 1 .. N \/ k = N + 1
        BY <1>1
      <4> QED
        BY <1>3, <3>2, <4>1, <4>2
    <3> QED
      BY <1>1, <3>1, <3>2
  <2>2. Those = {}
    BY <2>1
  <2>3. Cardinality({}) = 0
    BY FS_EmptySet
  <2> QED
    BY <1>2, <1>5, <2>2, <2>3 DEF q
<1> QED
  BY <1>4, <1>5

\* A request stands for as many results as it was answered.
LEMMA ResultDue ==
    ASSUME NEW r \in Requests, NEW codes \in Attempts, NEW code, NEW method
    PROVE  WillAdd(Asked([request |-> r, codes |-> codes]), "result",
                   [code |-> code, method |-> method]) =
              IF r.method = method THEN Answered(codes, code) ELSE 0
<1> DEFINE q == Asked([request |-> r, codes |-> codes])
           N == Len(codes)
           l == [code |-> code, method |-> method]
           Those == {k \in 1 .. Len(q) : q[k].metric = "result" /\ q[k].labels = l}
<1>1. /\ N \in Nat
      /\ \E S : q \in Seq(S)
      /\ \/ ObservedLabels(r) = NoLabels /\ Len(q) = N
         \/ /\ ObservedLabels(r) # NoLabels
            /\ Len(q) = N + 1
            /\ q[N + 1] = Update("latency", 1, "Observe", ObservedLabels(r), 1)
      /\ \A k \in 1 .. N : q[k] = Increment(codes[k], r)
  BY AskedType
<1>2. WillAdd(q, "result", l) = Cardinality(Those)
  <2> HIDE DEF l
  <2> QED
    BY <1>1, WillAddType
<1>3. \A k \in 1 .. N :
        q[k].metric = "result" /\ (q[k].labels = l <=> codes[k] = code /\ r.method = method)
  <2> SUFFICES ASSUME NEW k \in 1 .. N
               PROVE  q[k].metric = "result" /\ (q[k].labels = l <=> codes[k] = code /\ r.method = method)
    OBVIOUS
  <2> DEFINE L == [code |-> codes[k], method |-> r.method]
  <2>1. L = l <=> codes[k] = code /\ r.method = method
    <3>1. L.code = codes[k] /\ L.method = r.method /\ l.code = code /\ l.method = method
      OBVIOUS
    <3>2. codes[k] = code /\ r.method = method => L = l
      OBVIOUS
    <3> HIDE DEF L, l
    <3> QED
      BY <3>1, <3>2
  <2>2. Increment(codes[k], r).metric = "result" /\ Increment(codes[k], r).labels = L
    BY DEF Increment, Update
  <2>3. q[k] = Increment(codes[k], r)
    BY <1>1
  <2> HIDE DEF q, N, l, L
  <2> QED
    BY <2>1, <2>2, <2>3
<1> HIDE DEF q, N, l
<1>4. Those = {k \in 1 .. N : codes[k] = code /\ r.method = method}
  <2>1. \A k \in 1 .. Len(q) : q[k].metric = "result" => k \in 1 .. N
    <3>1. CASE Len(q) = N
      BY <3>1
    <3>2. CASE Len(q) = N + 1 /\ q[N + 1] = Update("latency", 1, "Observe", ObservedLabels(r), 1)
      <4>1. q[N + 1].metric # "result"
        BY <3>2 DEF Update
      <4>2. \A k \in 1 .. N + 1 : k \in 1 .. N \/ k = N + 1
        BY <1>1
      <4> QED
        BY <3>2, <4>1, <4>2
    <3> QED
      BY <1>1, <3>1, <3>2
  <2>2. \A k \in 1 .. N : k \in 1 .. Len(q)
    BY <1>1
  <2> QED
    BY <1>3, <2>1, <2>2
<1>5. CASE r.method = method
  <2>1. Those = {i \in 1 .. Len(codes) : codes[i] = code}
    BY <1>4, <1>5 DEF N
  <2> QED
    BY <1>2, <1>5, <2>1 DEF Answered, q, l
<1>6. CASE r.method # method
  <2>1. Those = {}
    BY <1>4, <1>6
  <2>2. Cardinality({}) = 0
    BY FS_EmptySet
  <2> QED
    BY <1>2, <1>6, <2>1, <2>2 DEF q, l
<1> QED
  BY <1>5, <1>6

\* With no call under way, CountInv is what the run checks.
LEMMA CountImplies == ASSUME Typed, CountInv PROVE RequestsCounted
<1> SUFFICES ASSUME \A c \in Callers : todo[c] = <<>>
             PROVE
        /\ \A l \in {RequestLabels(r) : r \in Requests} \cup DOMAIN vec["latency"][1] :
              LET made == {n \in 1 .. Len(served) : RequestLabels(served[n].request) = l}
                  mistaken == {n \in 1 .. Len(served) : Ambiguous(served[n].request)
                      /\ l \in {RequestLabels(served[n].request), ObservedLabels(served[n].request)}}
              IN  l # NoLabels /\ mistaken = {} => ValueOf("latency", 1, l) = Cardinality(made)
        /\ \A code \in UNION {Range(a) : a \in Attempts}, method \in {r.method : r \in Requests} :
              ValueOf("result", 1, [code |-> code, method |-> method]) =
                  Total([n \in 1 .. Len(served) |->
                            IF served[n].request.method = method
                            THEN Answered(served[n].codes, code) ELSE 0])
  BY DEF RequestsCounted
<1>1. /\ served \in Seq([request : Requests, codes : Attempts])
      /\ todo \in [Callers -> Seq(Steps)]
      /\ Len(served) \in Nat
  BY DEF Typed
<1>2. \A n \in 1 .. Len(served) :
        /\ served[n].request \in Requests /\ served[n].codes \in Attempts
        /\ served[n] = [request |-> served[n].request, codes |-> served[n].codes]
  <2> DEFINE E == [request : Requests, codes : Attempts]
  <2>1. served \in Seq(E)
    BY <1>1
  <2>2. \A e \in E : /\ e.request \in Requests /\ e.codes \in Attempts
                     /\ e = [request |-> e.request, codes |-> e.codes]
    OBVIOUS
  <2> HIDE DEF E
  <2>3. \A n \in 1 .. Len(served) : served[n] \in E
    BY <2>1
  <2> QED
    BY <2>2, <2>3
<1>3. ASSUME NEW m \in ClientMetrics, NEW l
      PROVE  ValueOf(m, 1, l) = Total(Due(served, m, l))
  <2>1. ValueOf(m, 1, l) + Over(Coming(todo, m, l)) = Total(Due(served, m, l))
    BY DEF CountInv
  <2>2. \A c \in Callers : Coming(todo, m, l)[c] = 0
    BY WillAddEmpty DEF Coming
  <2>3. Over(Coming(todo, m, l)) = 0
    BY <1>1, <2>2, ComingType, OverZero
  <2>4. ValueOf(m, 1, l) \in Int
    <3>1. m \in Metrics /\ 1 \in 1 .. Len(Backends[m])
      BY BackendsType
    <3> QED
      BY <3>1 DEF ValueOf, Typed
  <2> QED
    BY <2>1, <2>3, <2>4
<1>4. ASSUME NEW l, l # NoLabels,
             \A n \in 1 .. Len(served) : Ambiguous(served[n].request) =>
                l # RequestLabels(served[n].request) /\ l # ObservedLabels(served[n].request)
      PROVE  ValueOf("latency", 1, l) =
                Cardinality({n \in 1 .. Len(served) : RequestLabels(served[n].request) = l})
  <2> DEFINE due == Due(served, "latency", l)
             N == Len(served)
  <2>1. ASSUME NEW n \in 1 .. N
        PROVE  due[n] = IF RequestLabels(served[n].request) = l THEN 1 ELSE 0
    <3> DEFINE r == served[n].request
    <3>1. r \in Requests /\ WellFormed(r)
      BY <1>2, MetricsAssumption
    <3>2. due[n] = IF ObservedLabels(r) = l THEN 1 ELSE 0
      <4>1. due[n] = WillAdd(Asked(served[n]), "latency", l)
        BY DEF Due
      <4> DEFINE codes == served[n].codes
      <4>2. r \in Requests /\ codes \in Attempts /\ served[n] = [request |-> r, codes |-> codes]
        BY <1>2
      <4> HIDE DEF due, r, codes
      <4>3. WillAdd(Asked([request |-> r, codes |-> codes]), "latency", l) =
              IF ObservedLabels(r) = l THEN 1 ELSE 0
        BY <1>4, <4>2, LatencyDue
      <4> QED
        BY <4>1, <4>2, <4>3
    <3>3. ObservedLabels(r) = l <=> RequestLabels(r) = l
      BY <1>4, <3>1, ObservedIsRequest
    <3> QED
      BY <3>2, <3>3
  <2>2. due \in [1 .. N -> {0, 1}]
    BY <2>1 DEF Due
  <2>3. Total(due) = Cardinality({n \in 1 .. N : due[n] = 1})
    BY <1>1, <2>2, TotalCount
  <2> HIDE DEF due
  <2>4. {n \in 1 .. N : due[n] = 1} = {n \in 1 .. N : RequestLabels(served[n].request) = l}
    BY <2>1
  <2>5. ValueOf("latency", 1, l) = Total(due)
    BY <1>3 DEF due, ClientMetrics
  <2> QED
    BY <2>3, <2>4, <2>5
<1>5. ASSUME NEW code, NEW method
      PROVE  ValueOf("result", 1, [code |-> code, method |-> method]) =
                Total([n \in 1 .. Len(served) |->
                          IF served[n].request.method = method
                          THEN Answered(served[n].codes, code) ELSE 0])
  <2> DEFINE l == [code |-> code, method |-> method]
  <2>1. \A n \in 1 .. Len(served) :
          WillAdd(Asked(served[n]), "result", l) =
              IF served[n].request.method = method THEN Answered(served[n].codes, code) ELSE 0
    <3> SUFFICES ASSUME NEW n \in 1 .. Len(served)
                 PROVE  WillAdd(Asked(served[n]), "result", l) =
                           IF served[n].request.method = method
                           THEN Answered(served[n].codes, code) ELSE 0
      OBVIOUS
    <3> DEFINE r == served[n].request
               codes == served[n].codes
    <3>1. r \in Requests /\ codes \in Attempts /\ served[n] = [request |-> r, codes |-> codes]
      BY <1>2
    <3> HIDE DEF r, codes
    <3>2. WillAdd(Asked([request |-> r, codes |-> codes]), "result", l) =
            IF r.method = method THEN Answered(codes, code) ELSE 0
      BY <3>1, ResultDue
    <3> HIDE DEF l
    <3> QED
      BY <3>1, <3>2 DEF r, codes
  <2> HIDE DEF l
  <2>2. Due(served, "result", l) =
          [n \in 1 .. Len(served) |->
              IF served[n].request.method = method THEN Answered(served[n].codes, code) ELSE 0]
    BY <2>1 DEF Due
  <2>3. ValueOf("result", 1, l) = Total(Due(served, "result", l))
    BY <1>3 DEF ClientMetrics
  <2> QED
    BY <2>2, <2>3 DEF l
<1>6. ASSUME NEW l, l # NoLabels,
             {n \in 1 .. Len(served) : Ambiguous(served[n].request)
                 /\ l \in {RequestLabels(served[n].request), ObservedLabels(served[n].request)}} = {}
      PROVE  ValueOf("latency", 1, l) =
                Cardinality({n \in 1 .. Len(served) : RequestLabels(served[n].request) = l})
  <2>1. \A n \in 1 .. Len(served) : Ambiguous(served[n].request) =>
          l # RequestLabels(served[n].request) /\ l # ObservedLabels(served[n].request)
    BY <1>6
  <2> QED
    BY <1>4, <1>6, <2>1
<1> QED
  BY <1>5, <1>6

(***************************************************************************)
(* For any requests and answers, whatever the goroutines interleave: when  *)
(* no call is under way, every series of client-go's metrics counts the    *)
(* requests made under its labels, and the answers given with its code     *)
(* (LatencyAdapter.Observe, ResultAdapter.Increment and parsePath of       *)
(* src/metrics/metrics.go over the paths that client-go makes).            *)
(***************************************************************************)
THEOREM EveryRequestCounted == Spec => []RequestsCounted
<1>1. Init => Typed /\ CountInv
  BY TypedInit, CountInit
<1>2. Typed /\ CountInv /\ [Next]_vars => (Typed /\ CountInv)'
  BY TypedStep, CountInvStep
<1>3. Typed /\ CountInv => RequestsCounted
  BY CountImplies
<1> QED
  BY <1>1, <1>2, <1>3, PTL DEF Spec

-----------------------------------------------------------------------------
(* The counting of Events (Events.tla), for any replicas, Events and       *)
(* resolution of time: without standbys, a restart counts nothing again.   *)

\* Truncation to the second does not move an Event into the future.
LEMMA SecondType == ASSUME NEW t \in Nat PROVE Second(t) \in Nat /\ Second(t) <= t
BY EventsAssumption DEF Second

\* Type correctness is inductive.
LEMMA EventsTypeStep ==
    ASSUME TypeOK, [EventsNext]_eventsVars
    PROVE  TypeOK'
<1> USE EventsAssumption
<1>0. \A changed : Enqueue(changed) => queue' \in SUBSET Ours
  BY DEF Enqueue, TypeOK
<1>1. ASSUME NEW r \in Replicas, Construct(r) PROVE TypeOK'
  BY <1>1 DEF Construct, TypeOK, States
<1>2. ASSUME NEW r \in Replicas, Lead(r) \/ End(r) PROVE TypeOK'
  BY <1>0, <1>2 DEF Lead, End, TypeOK, States
<1>3. ASSUME NEW r \in Replicas, NEW e \in Names, Reconcile(r, e) PROVE TypeOK'
  <2>1. e \in Existing => events[e].occurred \in Nat
    BY DEF Existing, TypeOK
  <2>2. e \in Existing => [by |-> r, event |-> e, occurred |-> events[e].occurred] \in Occurrences
    BY <2>1 DEF Occurrences
  <2> QED
    BY <1>3, <2>2 DEF Reconcile, TypeOK
<1>4. ASSUME NEW e \in Names, Emit(e) PROVE TypeOK'
  <2>1. [occurred |-> now, lastTimestamp |-> Second(now)] \in [occurred : Nat, lastTimestamp : Nat]
    BY SecondType DEF TypeOK
  <2> QED
    BY <1>0, <1>4, <2>1 DEF Emit, TypeOK
<1>5. ASSUME NEW e \in Names, Expire(e) PROVE TypeOK'
  BY <1>0, <1>5 DEF Expire, TypeOK
<1>6. CASE Resync
  BY <1>0, <1>6 DEF Resync, TypeOK
<1>7. CASE Tick
  BY <1>7 DEF Tick, TypeOK
<1>8. CASE UNCHANGED eventsVars
  BY <1>8 DEF eventsVars, TypeOK
<1> QED
  BY <1>1, <1>2, <1>3, <1>4, <1>5, <1>6, <1>7, <1>8 DEF EventsNext

\* The clock, the replicas' states and start times, the Events, the queue and
\* what has been counted and skipped keep their types (src/events/controller.go).
THEOREM EventsTypeCorrect == EventsSpec => []TypeOK
<1>1. EventsInit => TypeOK
  BY EventsAssumption DEF EventsInit, TypeOK, States
<1> QED
  BY <1>1, EventsTypeStep, PTL DEF EventsSpec

\* Times of Events and of what was counted: nothing is in the future.
Times ==
    /\ \A e \in Existing : events[e].lastTimestamp <= events[e].occurred /\ events[e].occurred <= now
    /\ \A c \in counted : c.occurred <= now

\* A replica that runs alone has started after everything others counted.
StartedAfter ==
    \A r \in Live : \A c \in counted : c.by # r => c.occurred <= startTime[r]

\* One replica runs at a time.
Alone ==
    \A r, s \in Live : r = s

\* The inductive invariant: CountedByOne alone does not say why the next count
\* is new, which is that everything others counted was before the start.
EventsInv == TypeOK /\ Times /\ StartedAfter /\ Alone /\ CountedByOne

\* EventsInv is inductive where replicas start only after the last one has ended.
LEMMA EventsInvStep ==
    ASSUME ~Standbys, EventsInv, [EventsNext]_eventsVars
    PROVE  EventsInv'
<1> USE EventsAssumption DEF EventsInv
<1>0. TypeOK'
  BY EventsTypeStep
<1>1. ASSUME NEW r \in Replicas, Construct(r) PROVE EventsInv'
  <2>1. Live = {} /\ Live' = {r} /\ startTime'[r] = now
    BY <1>1 DEF Construct, Live, TypeOK
  <2>2. UNCHANGED <<now, events, queue, counted, skipped>>
    BY <1>1 DEF Construct
  <2>3. Existing' = Existing
    BY <2>2 DEF Existing
  <2> QED
    BY <1>0, <2>1, <2>2, <2>3 DEF Times, StartedAfter, Alone, CountedByOne
<1>2. ASSUME NEW r \in Replicas, Lead(r) \/ End(r) PROVE EventsInv'
  <2>1. Live' \subseteq Live
    BY <1>2 DEF Lead, End, Live, TypeOK
  <2>2. UNCHANGED <<now, startTime, events, counted, skipped>>
    BY <1>2 DEF Lead, End
  <2>3. Existing' = Existing
    BY <2>2 DEF Existing
  <2> QED
    BY <1>0, <2>1, <2>2, <2>3 DEF Times, StartedAfter, Alone, CountedByOne
<1>3. ASSUME NEW r \in Replicas, NEW e \in Names, Reconcile(r, e) PROVE EventsInv'
  <2>1. UNCHANGED <<now, state, startTime, events>> /\ r \in Live
    BY <1>3 DEF Reconcile, Live
  <2>2. Live' = Live /\ Existing' = Existing
    BY <2>1 DEF Live, Existing
  <2>3. CASE counted' = counted
    BY <1>0, <2>1, <2>2, <2>3 DEF Times, StartedAfter, Alone, CountedByOne
  <2>4. CASE counted' # counted
    <3> DEFINE seen == [by |-> r, event |-> e, occurred |-> events[e].occurred]
    <3>1. /\ counted' = counted \cup {seen}
          /\ e \in Existing /\ startTime[r] < events[e].lastTimestamp
      BY <1>3, <2>4 DEF Reconcile, InLifetime
    <3>2. seen.by = r /\ seen.event = e /\ seen.occurred = events[e].occurred
      OBVIOUS
    <3>3. /\ seen.occurred \in Nat /\ events[e].lastTimestamp \in Nat /\ startTime[r] \in Nat
          /\ events[e].lastTimestamp <= seen.occurred /\ seen.occurred <= now
      BY <3>1 DEF Times, TypeOK, Existing
    <3>4. startTime[r] < seen.occurred
      BY <3>1, <3>3
    <3>5. Live = {r}
      BY <2>1 DEF Alone
    <3>6. \A c \in counted : c.by # r => c.occurred # seen.occurred
      <4>1. \A c \in counted : c.by # r => c.occurred <= startTime[r] /\ c.occurred \in Nat
        BY <2>1 DEF StartedAfter, TypeOK, Occurrences
      <4> QED
        BY <3>3, <3>4, <4>1
    <3> HIDE DEF seen
    <3>7. CountedByOne'
      BY <3>1, <3>2, <3>6 DEF CountedByOne
    <3>8. StartedAfter' /\ Alone'
      BY <2>1, <2>2, <3>1, <3>2, <3>5 DEF StartedAfter, Alone
    <3>9. Times'
      BY <2>1, <2>2, <3>1, <3>3 DEF Times
    <3> QED
      BY <1>0, <3>7, <3>8, <3>9
  <2> QED
    BY <2>3, <2>4
<1>4. ASSUME NEW e \in Names, Emit(e) PROVE EventsInv'
  <2>1. UNCHANGED <<now, state, startTime, counted, skipped>> /\ now \in Nat
    BY <1>4 DEF Emit, TypeOK
  <2>2. Live' = Live
    BY <2>1 DEF Live
  <2>3. \A f \in Existing' : \/ f \in Existing /\ events'[f] = events[f]
                             \/ events'[f] = [occurred |-> now, lastTimestamp |-> Second(now)]
    BY <1>4 DEF Emit, Existing, TypeOK
  <2>4. Times'
    <3>1. Second(now) <= now
      BY <2>1, SecondType
    <3> QED
      BY <2>1, <2>3, <3>1 DEF Times
  <2> QED
    BY <1>0, <2>1, <2>2, <2>4 DEF StartedAfter, Alone, CountedByOne
<1>5. ASSUME NEW e \in Names, Expire(e) PROVE EventsInv'
  <2>1. UNCHANGED <<now, state, startTime, counted, skipped>>
    BY <1>5 DEF Expire
  <2>2. Live' = Live
    BY <2>1 DEF Live
  <2>3. \A f \in Existing' : f \in Existing /\ events'[f] = events[f]
    BY <1>5 DEF Expire, Existing, TypeOK
  <2> QED
    BY <1>0, <2>1, <2>2, <2>3 DEF Times, StartedAfter, Alone, CountedByOne
<1>6. CASE Resync \/ UNCHANGED eventsVars
  <2>1. UNCHANGED <<now, state, startTime, events, counted, skipped>>
    BY <1>6 DEF Resync, eventsVars
  <2>2. Live' = Live /\ Existing' = Existing
    BY <2>1 DEF Live, Existing
  <2> QED
    BY <1>0, <2>1, <2>2 DEF Times, StartedAfter, Alone, CountedByOne
<1>7. CASE Tick
  <2>1. UNCHANGED <<state, startTime, events, queue, counted, skipped>> /\ now' = now + 1
    BY <1>7 DEF Tick
  <2>2. Live' = Live /\ Existing' = Existing
    BY <2>1 DEF Live, Existing
  <2>3. \A e \in Existing : events[e].occurred \in Nat
    BY DEF Existing, TypeOK
  <2>4. now \in Nat /\ \A c \in counted : c.occurred \in Nat
    BY DEF TypeOK, Occurrences
  <2> QED
    BY <1>0, <2>1, <2>2, <2>3, <2>4 DEF Times, StartedAfter, Alone, CountedByOne
<1> QED
  BY <1>1, <1>2, <1>3, <1>4, <1>5, <1>6, <1>7 DEF EventsNext

\* Where a replica starts only after the last one has ended, no occurrence of
\* an Event is counted by two of them, however often the informer lists it.
THEOREM RestartCountsNothingTwice == ~Standbys => (EventsSpec => []CountedByOne)
<1> SUFFICES ASSUME ~Standbys PROVE EventsSpec => []CountedByOne
  OBVIOUS
<1>1. EventsInit => EventsInv
  BY EventsAssumption DEF EventsInit, EventsInv, TypeOK, States, Times, StartedAfter, Alone, CountedByOne, Live, Existing
<1>2. EventsInv /\ [EventsNext]_eventsVars => EventsInv'
  BY EventsInvStep
<1>3. EventsInv => CountedByOne
  BY DEF EventsInv
<1> QED
  BY <1>1, <1>2, <1>3, PTL DEF EventsSpec
=============================================================================
