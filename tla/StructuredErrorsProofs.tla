----------------------- MODULE StructuredErrorsProofs -----------------------
(***************************************************************************)
(* Proofs about StructuredErrors, for any keys and any number of errors,   *)
(* however they are nested.  The loops over an error are recursive         *)
(* functions; what they compute is proved by induction on the number of    *)
(* the error, as the least counterexample, since an error wraps earlier    *)
(* ones only.                                                              *)
(***************************************************************************)
EXTENDS StructuredErrors, WellFoundedInduction, FiniteSetTheorems, SequenceTheorems, TLAPS

-----------------------------------------------------------------------------
(* Induction and recursion over an interval.                               *)

\* A set of natural numbers has a least element.
LEMMA Least ==
    ASSUME NEW T \in SUBSET Nat, T # {}
    PROVE  \E x \in T : \A y \in T : x <= y
<1>1. PICK x \in T : \A y \in T : ~(<<y, x>> \in OpToRel(<, Nat))
  BY NatLessThanWellFounded, WFMin
<1>2. \A y \in T : ~(y < x)
  BY <1>1 DEF OpToRel
<1> QED
  BY <1>2

\* Induction over an interval, for a property given as the set of those that
\* have it.
LEMMA Induction ==
    ASSUME NEW a \in Nat, NEW b \in Nat, NEW P,
           \A i \in a .. b : (\A j \in a .. i - 1 : j \in P) => i \in P
    PROVE  \A i \in a .. b : i \in P
<1> DEFINE T == {i \in a .. b : i \notin P}
<1> SUFFICES ASSUME T # {} PROVE FALSE
  OBVIOUS
<1>1. T \in SUBSET Nat
  OBVIOUS
<1>2. PICK m \in T : \A y \in T : m <= y
  BY <1>1, Least
<1>3. \A j \in a .. m - 1 : j \in P
  BY <1>2
<1> QED
  BY <1>3

\* The values of f below i.
Below(f, a, i) == [j \in a .. i - 1 |-> f[j]]

\* G says what a function with values in V is at i, given its values below.
Continues(G, a, b, V) ==
    \A i \in a .. b : \A h \in [a .. i - 1 -> V] : G[<<i, h>>] \in V

Satisfies(f, a, b, G) == \A i \in a .. b : f[i] = G[<<i, Below(f, a, i)>>]

\* A function on an interval may be defined by its values below.
LEMMA Recursion ==
    ASSUME NEW a \in Nat, NEW b \in Nat, NEW V, NEW G, Continues(G, a, b, V)
    PROVE  \E f \in [a .. b -> V] : Satisfies(f, a, b, G)
<1> DEFINE Solves(f, i) == \A k \in a .. i : f[k] = G[<<k, Below(f, a, k)>>]
           P == {i \in a .. b : \E f \in [a .. i -> V] : Solves(f, i)}
           none == [j \in a .. a - 1 |-> j]
<1>1. ASSUME NEW i \in a .. b, \A j \in a .. i - 1 : j \in P
      PROVE  i \in P
  <2>1. \E f \in [a .. i - 1 -> V] : Solves(f, i - 1)
    <3>1. CASE i = a
      <4>1. none \in [a .. i - 1 -> V] /\ Solves(none, i - 1)
        BY <3>1
      <4> QED
        BY <4>1
    <3>2. CASE i # a
      <4>1. i - 1 \in a .. i - 1
        BY <3>2
      <4> QED
        BY <1>1, <4>1
    <3> QED
      BY <3>1, <3>2
  <2>2. PICK f \in [a .. i - 1 -> V] : Solves(f, i - 1)
    BY <2>1
  <2> DEFINE g == [j \in a .. i |-> IF j = i THEN G[<<i, f>>] ELSE f[j]]
  <2>3. g \in [a .. i -> V]
    <3>1. G[<<i, f>>] \in V
      BY DEF Continues
    <3> QED
      BY <3>1
  <2>4. \A k \in a .. i - 1 : Below(g, a, k) = Below(f, a, k) /\ g[k] = f[k]
    BY DEF Below
  <2>5. Below(g, a, i) = f /\ g[i] = G[<<i, f>>]
    BY DEF Below
  <2> HIDE DEF g
  <2>6. Solves(g, i)
    <3> SUFFICES ASSUME NEW k \in a .. i PROVE g[k] = G[<<k, Below(g, a, k)>>]
      OBVIOUS
    <3>1. CASE k = i
      BY <2>5, <3>1
    <3>2. CASE k # i
      <4>1. k \in a .. i - 1
        BY <3>2
      <4> QED
        BY <2>2, <2>4, <4>1
    <3> QED
      BY <3>1, <3>2
  <2> QED
    BY <2>3, <2>6
<1> HIDE DEF P
<1>2. \A i \in a .. b : i \in P
  BY <1>1, Induction
<1>3. CASE a <= b
  <2>1. b \in P
    BY <1>2, <1>3
  <2> QED
    BY <2>1 DEF P, Satisfies
<1>4. CASE ~(a <= b)
  <2>1. none \in [a .. b -> V] /\ Solves(none, b)
    BY <1>4
  <2> QED
    BY <2>1 DEF Satisfies
<1> QED
  BY <1>3, <1>4

-----------------------------------------------------------------------------
(* What errors are made of.                                                *)

Kinds == {"plain", "api", "fmt", "response", "join", "Error"}

Errs == [kind : Kinds, of : Seq(Nat), values : UNION {[D -> Nat] : D \in SUBSET AllKeys}, answer : Nat]

\* The i-th error wraps earlier ones: a join any, any other one at most.
Wraps(x, i) ==
    /\ \A n \in 1 .. Len(x.of) : x.of[n] \in 1 .. i - 1
    /\ x.kind # "join" => Len(x.of) <= 1

Built ==
    /\ ops \in Nat
    /\ errs \in Seq(Errs)
    /\ \A i \in 1 .. Len(errs) : Wraps(errs[i], i)

\* A new error joins the others.
LEMMA AddBuilt ==
    ASSUME Built, NEW x \in Errs, Wraps(x, Len(errs) + 1), Add(x), ops' = ops + 1
    PROVE  Built'
<1>1. errs' \in Seq(Errs) /\ Len(errs') = Len(errs) + 1 /\ Len(errs) \in Nat
  BY DEF Built, Add
<1>2. errs'[Len(errs) + 1] = x /\ \A i \in 1 .. Len(errs) : errs'[i] = errs[i]
  BY DEF Built, Add
<1>3. \A i \in 1 .. Len(errs') : Wraps(errs'[i], i)
  BY <1>1, <1>2 DEF Built
<1>4. ops' \in Nat
  BY DEF Built
<1> QED
  BY <1>1, <1>3, <1>4 DEF Built

\* Pairs are put in as values.
LEMMA PairsType ==
    ASSUME NEW D1 \in SUBSET AllKeys, NEW v \in [D1 -> Nat],
           NEW D2 \in SUBSET AllKeys, NEW w \in [D2 -> Nat]
    PROVE  /\ WithPairs(v, w) \in [D1 \cup D2 -> Nat]
           /\ D1 \cup D2 \in SUBSET AllKeys
BY DEF WithPairs

-----------------------------------------------------------------------------
(* The loops over an error.                                                *)

\* A loop goes back to an earlier error, or ends (0).
Back(next, n) == next \in [1 .. n -> Nat] /\ \A i \in 1 .. n : next[i] < i

\* What a loop collects from i on: pre[i], and then what it collects from the
\* next error on, if there is one.
Runs(f, n, pre, next) ==
    \A i \in 1 .. n : f[i] = pre[i] \o (IF next[i] = 0 THEN <<>> ELSE f[next[i]])

\* Such a function exists: a loop that goes back only is well defined.
LEMMA Loop ==
    ASSUME NEW n \in Nat, NEW D, NEW pre \in [1 .. n -> Seq(D)], NEW next, Back(next, n)
    PROVE  \E f \in [1 .. n -> Seq(D)] : Runs(f, n, pre, next)
<1> USE DEF Back
<1> DEFINE V == Seq(D)
           Hs == UNION {[1 .. j - 1 -> V] : j \in 1 .. n}
           G == [p \in (1 .. n) \X Hs |->
                    pre[p[1]] \o (IF next[p[1]] = 0 THEN <<>> ELSE p[2][next[p[1]]])]
<1>1. ASSUME NEW i \in 1 .. n, NEW h \in [1 .. i - 1 -> V]
      PROVE  /\ G[<<i, h>>] = pre[i] \o (IF next[i] = 0 THEN <<>> ELSE h[next[i]])
             /\ G[<<i, h>>] \in V
  <2>1. h \in Hs
    OBVIOUS
  <2>2. <<i, h>> \in (1 .. n) \X Hs
    BY <2>1
  <2>3. G[<<i, h>>] = pre[i] \o (IF next[i] = 0 THEN <<>> ELSE h[next[i]])
    BY <2>2
  <2>4. (IF next[i] = 0 THEN <<>> ELSE h[next[i]]) \in Seq(D) /\ pre[i] \in Seq(D)
    OBVIOUS
  <2>5. pre[i] \o (IF next[i] = 0 THEN <<>> ELSE h[next[i]]) \in Seq(D)
    BY <2>4, ConcatProperties
  <2> QED
    BY <2>3, <2>5
<1> HIDE DEF G
<1>2. PICK f \in [1 .. n -> V] : Satisfies(f, 1, n, G)
  <2>1. Continues(G, 1, n, V)
    BY <1>1 DEF Continues
  <2> HIDE DEF V
  <2> QED
    BY <2>1, Recursion
<1>3. ASSUME NEW i \in 1 .. n
      PROVE  f[i] = pre[i] \o (IF next[i] = 0 THEN <<>> ELSE f[next[i]])
  <2>1. Below(f, 1, i) \in [1 .. i - 1 -> V]
    BY DEF Below
  <2>2. f[i] = pre[i] \o (IF next[i] = 0 THEN <<>> ELSE Below(f, 1, i)[next[i]])
    BY <1>1, <1>2, <2>1 DEF Satisfies
  <2>3. next[i] # 0 => Below(f, 1, i)[next[i]] = f[next[i]]
    BY DEF Below
  <2> QED
    BY <2>2, <2>3
<1> QED
  BY <1>3 DEF Runs

\* There is one such function only.
LEMMA LoopUnique ==
    ASSUME NEW n \in Nat, NEW pre, NEW next, Back(next, n),
           NEW f, Runs(f, n, pre, next), NEW g, Runs(g, n, pre, next)
    PROVE  \A i \in 1 .. n : f[i] = g[i]
<1> USE DEF Back, Runs
<1> DEFINE P == {i \in 1 .. n : f[i] = g[i]}
<1>1. ASSUME NEW i \in 1 .. n, \A j \in 1 .. i - 1 : j \in P
      PROVE  i \in P
  <2>1. CASE next[i] = 0
    BY <2>1
  <2>2. CASE next[i] # 0
    <3>1. next[i] \in 1 .. i - 1
      BY <2>2
    <3>2. f[next[i]] = g[next[i]]
      BY <1>1, <3>1
    <3> QED
      BY <2>2, <3>2
  <2> QED
    BY <2>1, <2>2
<1> HIDE DEF P
<1>2. 1 \in Nat
  OBVIOUS
<1>3. \A i \in 1 .. n : i \in P
  BY <1>1, <1>2, Induction
<1> QED
  BY <1>3 DEF P

\* The error that errors.Unwrap returns is an earlier one.
LEMMA UnwrapEarlier ==
    ASSUME Built, NEW e \in 1 .. Len(errs), Unwrap(e) # <<>>
    PROVE  /\ Unwrap(e) = errs[e].of
           /\ errs[e].kind # "join"
           /\ Len(errs[e].of) = 1
           /\ Unwrap(e)[1] \in 1 .. e - 1
<1>1. errs[e] \in Errs /\ Wraps(errs[e], e)
  BY DEF Built
<1>2. errs[e].of \in Seq(Nat) /\ Unwrap(e) = errs[e].of /\ errs[e].kind # "join"
  BY <1>1 DEF Unwrap, Errs
<1>3. Len(errs[e].of) = 1
  <2> DEFINE k == Len(errs[e].of)
  <2>1. k \in Nat /\ k # 0
    BY <1>2, EmptySeq, LenProperties
  <2>2. k <= 1
    BY <1>1, <1>2 DEF Wraps
  <2> HIDE DEF k
  <2>3. k = 1
    BY <2>1, <2>2
  <2> QED
    BY <2>3 DEF k
<1> QED
  BY <1>1, <1>2, <1>3 DEF Wraps

\* The next error in the loop, 0 for none.
Following(e) == IF Unwrap(e) = <<>> THEN 0 ELSE Unwrap(e)[1]

\* The loop goes back only.
LEMMA FollowingEarlier ==
    ASSUME Built
    PROVE  \A e \in 1 .. Len(errs) :
              /\ Following(e) \in Nat /\ Following(e) < e
              /\ Following(e) = 0 <=> Unwrap(e) = <<>>
BY UnwrapEarlier DEF Following

\* chain is what its definition says.
ChainRuns ==
    /\ chain \in [1 .. Len(errs) -> Seq(1 .. Len(errs))]
    /\ \A e \in 1 .. Len(errs) :
          chain[e] = <<e>> \o (IF Following(e) = 0 THEN <<>> ELSE chain[Following(e)])

\* The recursive definition of chain determines it.
LEMMA ChainDefined == Built => ChainRuns
<1> SUFFICES ASSUME Built PROVE ChainRuns
  OBVIOUS
<1> DEFINE n == Len(errs)
           D == 1 .. n
           pre == [e \in 1 .. n |-> <<e>>]
           next == [e \in 1 .. n |-> Following(e)]
<1>1. n \in Nat
  BY DEF Built
<1>2. pre \in [1 .. n -> Seq(D)] /\ Back(next, n)
  BY FollowingEarlier DEF Back
<1>3. PICK f \in [1 .. n -> Seq(D)] : Runs(f, n, pre, next)
  <2> HIDE DEF n, D, pre, next
  <2> QED
    BY <1>1, <1>2, Loop
<1>4. f = [e \in 1 .. n |-> <<e>> \o (IF Unwrap(e) = <<>> THEN <<>> ELSE f[Unwrap(e)[1]])]
  <2>1. \A e \in 1 .. n : f[e] = <<e>> \o (IF Unwrap(e) = <<>> THEN <<>> ELSE f[Unwrap(e)[1]])
    BY <1>3, FollowingEarlier DEF Following, Runs
  <2> QED
    BY <2>1
<1>5. chain = [e \in 1 .. n |-> <<e>> \o (IF Unwrap(e) = <<>> THEN <<>> ELSE chain[Unwrap(e)[1]])]
  BY <1>4, Zenon DEF chain
<1>6. Runs(chain, n, pre, next)
  BY <1>5, FollowingEarlier DEF Following, Runs
<1>7. \A e \in 1 .. n : chain[e] = f[e]
  <2> HIDE DEF n, D, pre, next
  <2> QED
    BY <1>1, <1>2, <1>3, <1>6, LoopUnique
<1>8. DOMAIN chain = 1 .. n /\ chain = [e \in 1 .. n |-> chain[e]]
  BY <1>5
<1>9. chain \in [1 .. n -> Seq(D)]
  <2> HIDE DEF n, D
  <2> QED
    BY <1>7, <1>8
<1> QED
  BY <1>6, <1>9 DEF ChainRuns, Runs

\* A sequence is one over any set that has its entries.
LEMMA SeqOver ==
    ASSUME NEW S, NEW s \in Seq(S), NEW D, \A i \in 1 .. Len(s) : s[i] \in D
    PROVE  s \in Seq(D) /\ ToSet(s) \subseteq D /\ Len(s) \in Nat
<1>1. Len(s) \in Nat /\ s \in [1 .. Len(s) -> S]
  BY LenProperties
<1>2. s \in [1 .. Len(s) -> D]
  BY <1>1
<1> QED
  BY <1>1, <1>2 DEF ToSet

\* multierr.Errors returns errors that were made before or the error itself.
LEMMA ElementsType ==
    ASSUME Built, NEW e \in 1 .. Len(errs)
    PROVE  /\ Elements(e) \in Seq(1 .. Len(errs))
           /\ errs[e].of \in Seq(1 .. Len(errs))
<1>1. errs[e] \in Errs /\ Wraps(errs[e], e) /\ Len(errs) \in Nat
  BY DEF Built
<1>2. errs[e].of \in Seq(Nat)
  BY <1>1 DEF Errs
<1>3. \A i \in 1 .. Len(errs[e].of) : errs[e].of[i] \in 1 .. Len(errs)
  BY <1>1 DEF Wraps
<1>4. errs[e].of \in Seq(1 .. Len(errs))
  BY <1>2, <1>3, SeqOver
<1>5. <<e>> \in Seq(1 .. Len(errs))
  OBVIOUS
<1> QED
  BY <1>4, <1>5 DEF Elements

\* visited is what its definition says.
VisitedRuns ==
    /\ visited \in [1 .. Len(errs) -> Seq(1 .. Len(errs))]
    /\ \A e \in 1 .. Len(errs) :
          visited[e] = Elements(e) \o (IF Following(e) = 0 THEN <<>> ELSE visited[Following(e)])

\* The recursive definition of visited determines it.
LEMMA VisitedDefined == Built => VisitedRuns
<1> SUFFICES ASSUME Built PROVE VisitedRuns
  OBVIOUS
<1> DEFINE n == Len(errs)
           D == 1 .. n
           pre == [e \in 1 .. n |-> Elements(e)]
           next == [e \in 1 .. n |-> Following(e)]
<1>1. n \in Nat
  BY DEF Built
<1>2. pre \in [1 .. n -> Seq(D)] /\ Back(next, n)
  BY FollowingEarlier, ElementsType DEF Back
<1>3. PICK f \in [1 .. n -> Seq(D)] : Runs(f, n, pre, next)
  <2> HIDE DEF n, D, pre, next
  <2> QED
    BY <1>1, <1>2, Loop
<1>4. f = [e \in 1 .. n |-> Elements(e) \o (IF Unwrap(e) = <<>> THEN <<>> ELSE f[Unwrap(e)[1]])]
  <2>1. \A e \in 1 .. n : f[e] = Elements(e) \o (IF Unwrap(e) = <<>> THEN <<>> ELSE f[Unwrap(e)[1]])
    BY <1>3, FollowingEarlier DEF Following, Runs
  <2> QED
    BY <2>1
<1>5. visited = [e \in 1 .. n |-> Elements(e) \o (IF Unwrap(e) = <<>> THEN <<>> ELSE visited[Unwrap(e)[1]])]
  BY <1>4, Zenon DEF visited
<1>6. Runs(visited, n, pre, next)
  BY <1>5, FollowingEarlier DEF Following, Runs
<1>7. \A e \in 1 .. n : visited[e] = f[e]
  <2> HIDE DEF n, D, pre, next
  <2> QED
    BY <1>1, <1>2, <1>3, <1>6, LoopUnique
<1>8. DOMAIN visited = 1 .. n /\ visited = [e \in 1 .. n |-> visited[e]]
  BY <1>5
<1>9. visited \in [1 .. n -> Seq(D)]
  <2> HIDE DEF n, D
  <2> QED
    BY <1>7, <1>8
<1> QED
  BY <1>6, <1>9 DEF VisitedRuns, Runs

\* The errors that e wraps itself.
Parts(e) == ToSet(errs[e].of)

\* They were all made before e.
LEMMA PartsEarlier ==
    ASSUME Built
    PROVE  \A e \in 1 .. Len(errs) : Parts(e) \subseteq 1 .. e - 1
<1> SUFFICES ASSUME NEW e \in 1 .. Len(errs) PROVE Parts(e) \subseteq 1 .. e - 1
  OBVIOUS
<1>1. errs[e].of \in Seq(1 .. Len(errs))
  BY ElementsType
<1>2. \A i \in 1 .. Len(errs[e].of) : errs[e].of[i] \in 1 .. e - 1
  BY DEF Built, Wraps
<1> QED
  BY <1>1, <1>2, SeqOver DEF Parts

\* reach is what its definition says, and holds no later errors.
ReachRuns ==
    \A e \in 1 .. Len(errs) :
        /\ reach[e] = {e} \cup UNION {reach[j] : j \in Parts(e)}
        /\ reach[e] \subseteq 1 .. e

\* The recursive definition of reach determines it.
LEMMA ReachDefined == Built => ReachRuns
<1> SUFFICES ASSUME Built PROVE ReachRuns
  OBVIOUS
<1> DEFINE n == Len(errs)
           V == SUBSET (1 .. n)
           Hs == UNION {[1 .. j - 1 -> V] : j \in 1 .. n}
           G == [p \in (1 .. n) \X Hs |-> {p[1]} \cup UNION {p[2][j] : j \in Parts(p[1])}]
<1>0. n \in Nat
  BY DEF Built
<1>1. ASSUME NEW i \in 1 .. n, NEW h \in [1 .. i - 1 -> V]
      PROVE  /\ G[<<i, h>>] = {i} \cup UNION {h[j] : j \in Parts(i)}
             /\ G[<<i, h>>] \in V
  <2>1. h \in Hs
    OBVIOUS
  <2>2. <<i, h>> \in (1 .. n) \X Hs
    BY <2>1
  <2>3. G[<<i, h>>] = {i} \cup UNION {h[j] : j \in Parts(i)}
    BY <2>2
  <2>4. \A j \in Parts(i) : h[j] \in V
    BY PartsEarlier
  <2>5. {i} \cup UNION {h[j] : j \in Parts(i)} \in V
    BY <2>4
  <2> QED
    BY <2>3, <2>5
<1> HIDE DEF G
<1>2. PICK f \in [1 .. n -> V] : Satisfies(f, 1, n, G)
  <2>1. Continues(G, 1, n, V)
    BY <1>1 DEF Continues
  <2> HIDE DEF n, V
  <2> QED
    BY <1>0, <2>1, Recursion
<1>3. ASSUME NEW i \in 1 .. n
      PROVE  f[i] = {i} \cup UNION {f[j] : j \in Parts(i)}
  <2>1. Below(f, 1, i) \in [1 .. i - 1 -> V]
    BY DEF Below
  <2>2. f[i] = {i} \cup UNION {Below(f, 1, i)[j] : j \in Parts(i)}
    BY <1>1, <1>2, <2>1 DEF Satisfies
  <2>3. \A j \in Parts(i) : Below(f, 1, i)[j] = f[j]
    BY PartsEarlier DEF Below
  <2> QED
    BY <2>2, <2>3
<1>4. f = [e \in 1 .. n |-> {e} \cup UNION {f[j] : j \in Parts(e)}]
  BY <1>3
<1>5. reach = [e \in 1 .. n |-> {e} \cup UNION {reach[j] : j \in Parts(e)}]
  BY <1>4, Zenon DEF reach, Parts
<1>6. \A e \in 1 .. n : reach[e] = {e} \cup UNION {reach[j] : j \in Parts(e)}
  BY <1>5
<1> DEFINE P == {e \in 1 .. n : reach[e] \subseteq 1 .. e}
<1>7. ASSUME NEW e \in 1 .. n, \A j \in 1 .. e - 1 : j \in P
      PROVE  e \in P
  <2>1. \A j \in Parts(e) : reach[j] \subseteq 1 .. e
    BY <1>7, PartsEarlier
  <2> QED
    BY <1>6, <2>1
<1> HIDE DEF P
<1>8. \A e \in 1 .. n : e \in P
  <2> HIDE DEF n
  <2> QED
    BY <1>0, <1>7, Induction
<1> QED
  BY <1>6, <1>8 DEF ReachRuns, P

-----------------------------------------------------------------------------
(* What is collected from a sequence.                                      *)

\* c has the members of S among the first n entries of s, in their order.
Gathers(c, s, S, n) ==
    /\ \A i \in 1 .. Len(c) : \E p \in 1 .. n : c[i] = s[p] /\ s[p] \in S
    /\ \A p \in 1 .. n : s[p] \in S => \E i \in 1 .. Len(c) : c[i] = s[p]
    /\ \A i, j \in 1 .. Len(c) : i < j => \E p, q \in 1 .. n : p < q /\ c[i] = s[p] /\ c[j] = s[q]

\* One turn of the loop that collects.
LEMMA GathersNext ==
    ASSUME NEW D, NEW s \in Seq(D), NEW S, NEW n \in 1 .. Len(s),
           NEW c \in Seq(D), Gathers(c, s, S, n - 1),
           NEW d, d = IF s[n] \in S THEN Append(c, s[n]) ELSE c
    PROVE  d \in Seq(D) /\ Gathers(d, s, S, n)
<1> DEFINE m == Len(c)
<1>1. n \in Nat /\ m \in Nat /\ s[n] \in D
  OBVIOUS
<1>2. /\ \A i \in 1 .. m : \E p \in 1 .. n - 1 : c[i] = s[p] /\ s[p] \in S
      /\ \A p \in 1 .. n - 1 : s[p] \in S => \E i \in 1 .. m : c[i] = s[p]
      /\ \A i, j \in 1 .. m : i < j => \E p, q \in 1 .. n - 1 : p < q /\ c[i] = s[p] /\ c[j] = s[q]
  BY DEF Gathers
<1>3. CASE s[n] \notin S
  <2>1. d = c
    BY <1>3
  <2>2. \A p \in 1 .. n : s[p] \in S => p \in 1 .. n - 1
    BY <1>1, <1>3
  <2>3. \A p \in 1 .. n - 1 : p \in 1 .. n
    BY <1>1
  <2> QED
    BY <1>2, <2>1, <2>2, <2>3 DEF Gathers
<1>4. CASE s[n] \in S
  <2>1. d = Append(c, s[n])
    BY <1>4
  <2>2. d \in Seq(D) /\ Len(d) = m + 1 /\ d[m + 1] = s[n] /\ \A i \in 1 .. m : d[i] = c[i]
    BY <1>1, <2>1, AppendProperties
  <2> HIDE DEF m
  <2>3. ASSUME NEW i \in 1 .. m + 1
        PROVE  \E p \in 1 .. n : d[i] = s[p] /\ s[p] \in S
    <3>0. i = m + 1 \/ i \in 1 .. m
      BY <1>1
    <3>1. CASE i = m + 1
      BY <1>1, <1>4, <2>2, <3>1
    <3>2. CASE i \in 1 .. m
      <4>1. PICK p \in 1 .. n - 1 : c[i] = s[p] /\ s[p] \in S
        BY <1>2, <3>2
      <4>2. p \in 1 .. n
        BY <1>1
      <4> QED
        BY <2>2, <3>2, <4>1, <4>2
    <3> QED
      BY <3>0, <3>1, <3>2, Zenon
  <2>4. ASSUME NEW p \in 1 .. n, s[p] \in S
        PROVE  \E i \in 1 .. m + 1 : d[i] = s[p]
    <3>0. p = n \/ p \in 1 .. n - 1
      BY <1>1
    <3>1. CASE p = n
      <4>1. m + 1 \in 1 .. m + 1
        BY <1>1
      <4> QED
        BY <2>2, <3>1, <4>1
    <3>2. CASE p \in 1 .. n - 1
      <4>1. PICK i \in 1 .. m : c[i] = s[p]
        BY <1>2, <2>4, <3>2
      <4>2. i \in 1 .. m + 1
        BY <1>1
      <4> QED
        BY <2>2, <4>1, <4>2
    <3> QED
      BY <3>0, <3>1, <3>2, Zenon
  <2>5. ASSUME NEW i \in 1 .. m + 1, NEW j \in 1 .. m + 1, i < j
        PROVE  \E p, q \in 1 .. n : p < q /\ d[i] = s[p] /\ d[j] = s[q]
    <3>1. i \in 1 .. m /\ (j \in 1 .. m \/ j = m + 1)
      BY <1>1, <2>5
    <3>2. CASE j \in 1 .. m
      <4>1. PICK p \in 1 .. n - 1, q \in 1 .. n - 1 : p < q /\ c[i] = s[p] /\ c[j] = s[q]
        BY <1>2, <2>5, <3>1, <3>2
      <4>2. p \in 1 .. n /\ q \in 1 .. n
        BY <1>1
      <4> QED
        BY <2>2, <3>1, <3>2, <4>1, <4>2
    <3>3. CASE j = m + 1
      <4>1. PICK p \in 1 .. n - 1 : c[i] = s[p]
        BY <1>2, <3>1
      <4>2. p \in 1 .. n /\ p < n /\ n \in 1 .. n
        BY <1>1
      <4> QED
        BY <2>2, <3>1, <3>3, <4>1, <4>2
    <3> QED
      BY <3>1, <3>2, <3>3, Zenon
  <2>6. /\ \A i \in 1 .. Len(d) : \E p \in 1 .. n : d[i] = s[p] /\ s[p] \in S
        /\ \A p \in 1 .. n : s[p] \in S => \E i \in 1 .. Len(d) : d[i] = s[p]
    BY <2>2, <2>3, <2>4, Zenon
  <2>7. \A i, j \in 1 .. Len(d) : i < j => \E p, q \in 1 .. n : p < q /\ d[i] = s[p] /\ d[j] = s[q]
    <3>1. 1 .. Len(d) = 1 .. m + 1
      BY <2>2
    <3> SUFFICES ASSUME NEW i \in 1 .. Len(d), NEW j \in 1 .. Len(d), i < j
                 PROVE  \E p, q \in 1 .. n : p < q /\ d[i] = s[p] /\ d[j] = s[q]
      BY Zenon
    <3>2. i \in 1 .. m + 1 /\ j \in 1 .. m + 1
      BY <3>1, Zenon
    <3> QED
      BY <2>5, <3>2, Zenon
  <2> QED
    BY <2>2, <2>6, <2>7, Zenon DEF Gathers
<1> QED
  BY <1>3, <1>4

\* The loop appends every member of S it meets, once for each time.
LEMMA CollectedGathers ==
    ASSUME NEW D, NEW s \in Seq(D), NEW S
    PROVE  Collected(s, S) \in Seq(D) /\ Gathers(Collected(s, S), s, S, Len(s))
<1> DEFINE b == Len(s)
           V == Seq(D)
           collected[n \in 0 .. b] ==
              IF n = 0 THEN <<>>
              ELSE IF s[n] \in S THEN Append(collected[n - 1], s[n])
              ELSE collected[n - 1]
           Hs == UNION {[0 .. j - 1 -> V] : j \in 0 .. b}
           G == [p \in (0 .. b) \X Hs |->
                    IF p[1] = 0 THEN <<>>
                    ELSE IF s[p[1]] \in S THEN Append(p[2][p[1] - 1], s[p[1]])
                    ELSE p[2][p[1] - 1]]
<1>0. b \in Nat /\ 0 \in Nat /\ b \in 0 .. b
  OBVIOUS
<1>1. ASSUME NEW i \in 0 .. b, NEW h \in [0 .. i - 1 -> V]
      PROVE  /\ G[<<i, h>>] = IF i = 0 THEN <<>>
                              ELSE IF s[i] \in S THEN Append(h[i - 1], s[i])
                              ELSE h[i - 1]
             /\ G[<<i, h>>] \in V
  <2>1. h \in Hs
    OBVIOUS
  <2>2. <<i, h>> \in (0 .. b) \X Hs
    BY <2>1
  <2>3. G[<<i, h>>] = IF i = 0 THEN <<>>
                      ELSE IF s[i] \in S THEN Append(h[i - 1], s[i])
                      ELSE h[i - 1]
    BY <2>2
  <2>4. i # 0 => h[i - 1] \in Seq(D) /\ s[i] \in D
    OBVIOUS
  <2>5. i # 0 => Append(h[i - 1], s[i]) \in Seq(D)
    BY <2>4, AppendProperties
  <2> QED
    BY <2>3, <2>4, <2>5
<1> HIDE DEF G
<1>2. PICK f \in [0 .. b -> V] : Satisfies(f, 0, b, G)
  <2>1. Continues(G, 0, b, V)
    BY <1>1 DEF Continues
  <2> HIDE DEF b, V
  <2> QED
    BY <1>0, <2>1, Recursion
<1>3. ASSUME NEW i \in 0 .. b
      PROVE  f[i] = IF i = 0 THEN <<>>
                    ELSE IF s[i] \in S THEN Append(f[i - 1], s[i])
                    ELSE f[i - 1]
  <2>1. Below(f, 0, i) \in [0 .. i - 1 -> V]
    BY DEF Below
  <2>2. i # 0 => Below(f, 0, i)[i - 1] = f[i - 1]
    BY DEF Below
  <2> QED
    BY <1>1, <1>2, <2>1, <2>2 DEF Satisfies
<1>4. f = [i \in 0 .. b |-> IF i = 0 THEN <<>>
                            ELSE IF s[i] \in S THEN Append(f[i - 1], s[i])
                            ELSE f[i - 1]]
  BY <1>3
<1>5. collected = [n \in 0 .. b |-> IF n = 0 THEN <<>>
                                    ELSE IF s[n] \in S THEN Append(collected[n - 1], s[n])
                                    ELSE collected[n - 1]]
  BY <1>4, Zenon DEF collected
<1>6. Collected(s, S) = collected[b]
  BY DEF Collected
<1> HIDE DEF collected
<1> DEFINE P == {n \in 0 .. b : collected[n] \in Seq(D) /\ Gathers(collected[n], s, S, n)}
<1>7. ASSUME NEW n \in 0 .. b, \A j \in 0 .. n - 1 : j \in P
      PROVE  n \in P
  <2>1. CASE n = 0
    <3>1. collected[n] = <<>>
      BY <1>5, <2>1
    <3> QED
      BY <2>1, <3>1 DEF Gathers
  <2>2. CASE n # 0
    <3>1. n - 1 \in P /\ n \in 1 .. Len(s)
      BY <1>7, <2>2
    <3>2. collected[n - 1] \in Seq(D) /\ Gathers(collected[n - 1], s, S, n - 1)
      BY <3>1
    <3>3. collected[n] = IF s[n] \in S THEN Append(collected[n - 1], s[n]) ELSE collected[n - 1]
      BY <1>5, <2>2
    <3> QED
      BY <3>1, <3>2, <3>3, GathersNext
  <2> QED
    BY <2>1, <2>2
<1> HIDE DEF P
<1>8. \A n \in 0 .. b : n \in P
  <2> HIDE DEF b
  <2> QED
    BY <1>0, <1>7, Induction
<1>9. b \in P
  BY <1>0, <1>8
<1> QED
  BY <1>6, <1>9 DEF P

-----------------------------------------------------------------------------
(* What UnwrapValues looks at.                                             *)

\* The entries of a sequence.
LEMMA Entries ==
    ASSUME NEW D, NEW s \in Seq(D)
    PROVE  ToSet(s) = {s[i] : i \in 1 .. Len(s)}
BY DEF ToSet

\* An inner join is one of the outer error's too.
LEMMA TwiceOutside ==
    ASSUME NEW c, NEW f, NEW e, reach[f] \subseteq reach[e], JoinedTwice(c, f)
    PROVE  JoinedTwice(c, e)
BY DEF JoinedTwice

\* v shows the structured errors that e wraps, an outer one before those it
\* wraps, and none twice but those that are joined twice.
Shows(v, e) ==
    /\ \A p \in 1 .. Len(v) : v[p] \in reach[e]
    /\ \A i \in reach[e] : errs[i].kind = "Error" => \E p \in 1 .. Len(v) : v[p] = i
    /\ \A p, q \in 1 .. Len(v) : p < q =>
          (errs[v[p]].kind = "Error" =>
             v[p] \notin reach[v[q]] \/ (v[p] = v[q] /\ JoinedTwice(v[p], e)))

\* A join, whose elements are looked at.
LEMMA JoinShows ==
    ASSUME Built, VisitedRuns, ReachRuns, NEW e \in 1 .. Len(errs),
           errs[e].kind = "join", FlatJoins(e)
    PROVE  Shows(visited[e], e)
<1> DEFINE s == errs[e].of
<1>1. Unwrap(e) = <<>> /\ Following(e) = 0 /\ Elements(e) = s
  BY DEF Unwrap, Following, Elements
<1>2. s \in Seq(1 .. Len(errs))
  BY ElementsType
<1>3. visited[e] = s
  <2>1. visited[e] = s \o <<>>
    BY <1>1 DEF VisitedRuns
  <2> QED
    BY <1>2, <2>1, ConcatEmptySeq
<1>4. Parts(e) = {s[p] : p \in 1 .. Len(s)} /\ \A p \in 1 .. Len(s) : s[p] \in 1 .. Len(errs)
  <2>1. Parts(e) = ToSet(s)
    BY DEF Parts
  <2> HIDE DEF s
  <2>2. ToSet(s) = {s[p] : p \in 1 .. Len(s)}
    BY <1>2, Entries, Zenon
  <2>3. \A p \in 1 .. Len(s) : s[p] \in 1 .. Len(errs)
    BY <1>2
  <2> QED
    BY <2>1, <2>2, <2>3, Zenon
<1>t. \A p, q \in 1 .. Len(s) : p < q /\ s[p] = s[q] => JoinedTwice(s[p], e)
  <2>1. e \in reach[e]
    BY DEF ReachRuns
  <2> QED
    BY <2>1 DEF JoinedTwice
<1> HIDE DEF s
<1>5. \A c \in Parts(e) : c \in reach[c] /\ reach[c] \subseteq reach[e]
  BY <1>4 DEF ReachRuns
<1>6. \A c \in Parts(e) : \A i \in reach[c] \ {c} : errs[i].kind # "Error"
  BY DEF FlatJoins, Parts, ReachRuns
<1>7. reach[e] = {e} \cup UNION {reach[j] : j \in Parts(e)}
  BY DEF ReachRuns
<1>8. \A p \in 1 .. Len(s) : s[p] \in Parts(e)
  BY <1>4
<1>9. \A p \in 1 .. Len(s) : s[p] \in reach[e]
  BY <1>5, <1>8
<1>10. \A i \in reach[e] : errs[i].kind = "Error" => \E p \in 1 .. Len(s) : s[p] = i
  <2> SUFFICES ASSUME NEW i \in reach[e], errs[i].kind = "Error"
               PROVE  \E p \in 1 .. Len(s) : s[p] = i
    OBVIOUS
  <2>1. PICK c \in Parts(e) : i \in reach[c]
    BY <1>7
  <2>2. i = c
    BY <1>6, <2>1
  <2> QED
    BY <1>4, <2>2
<1>11. \A p, q \in 1 .. Len(s) : p < q =>
          (errs[s[p]].kind = "Error" =>
             s[p] \notin reach[s[q]] \/ (s[p] = s[q] /\ JoinedTwice(s[p], e)))
  <2> SUFFICES ASSUME NEW p \in 1 .. Len(s), NEW q \in 1 .. Len(s), p < q,
                      errs[s[p]].kind = "Error", s[p] \in reach[s[q]]
               PROVE  s[p] = s[q] /\ JoinedTwice(s[p], e)
    OBVIOUS
  <2>1. s[p] = s[q]
    BY <1>6, <1>8
  <2> QED
    BY <1>t, <2>1
<1> QED
  BY <1>3, <1>9, <1>10, <1>11 DEF Shows

\* An error that wraps at most one.
LEMMA LinkParts ==
    ASSUME Built, VisitedRuns, ReachRuns, NEW e \in 1 .. Len(errs), errs[e].kind # "join"
    PROVE  /\ Following(e) = 0 => Parts(e) = {} /\ visited[e] = <<e>> /\ reach[e] = {e}
           /\ Following(e) # 0 => /\ Parts(e) = {Following(e)}
                                  /\ visited[e] = <<e>> \o visited[Following(e)]
                                  /\ reach[e] = {e} \cup reach[Following(e)]
                                  /\ Following(e) \in 1 .. e - 1
<1>1. Elements(e) = <<e>> /\ Unwrap(e) = errs[e].of
  BY DEF Elements, Unwrap
<1>2. errs[e].of \in Seq(1 .. Len(errs))
  BY ElementsType
<1>3. CASE Following(e) = 0
  <2>1. Unwrap(e) = <<>>
    BY <1>3, FollowingEarlier
  <2>2. Parts(e) = {}
    BY <1>1, <2>1 DEF Parts, ToSet
  <2>3. visited[e] = <<e>> \o <<>>
    BY <1>1, <1>3 DEF VisitedRuns
  <2>4. visited[e] = <<e>>
    BY <2>3
  <2>5. reach[e] = {e} \cup UNION {reach[j] : j \in {}}
    BY <2>2 DEF ReachRuns
  <2>6. reach[e] = {e}
    BY <2>5
  <2> QED
    BY <1>3, <2>2, <2>4, <2>6
<1>4. CASE Following(e) # 0
  <2>1. Unwrap(e) # <<>>
    BY <1>4, FollowingEarlier
  <2>2. Len(errs[e].of) = 1 /\ Following(e) = errs[e].of[1] /\ Following(e) \in 1 .. e - 1
    BY <2>1, UnwrapEarlier DEF Following
  <2>3. Parts(e) = {errs[e].of[i] : i \in 1 .. 1}
    BY <1>2, <2>2, Entries DEF Parts
  <2>4. Parts(e) = {Following(e)}
    BY <2>2, <2>3
  <2>5. visited[e] = <<e>> \o visited[Following(e)]
    BY <1>1, <1>4 DEF VisitedRuns
  <2>6. reach[e] = {e} \cup UNION {reach[j] : j \in {Following(e)}}
    BY <2>4 DEF ReachRuns
  <2>7. reach[e] = {e} \cup reach[Following(e)]
    BY <2>6
  <2> QED
    BY <1>4, <2>2, <2>4, <2>5, <2>7
<1> QED
  BY <1>3, <1>4

\* The error in front of a sequence.
LEMMA InFront ==
    ASSUME NEW D, NEW e \in D, NEW w \in Seq(D), NEW v, v = <<e>> \o w
    PROVE  /\ v \in Seq(D)
           /\ Len(v) = Len(w) + 1
           /\ v[1] = e
           /\ \A p \in 1 .. Len(w) : v[p + 1] = w[p]
           /\ \A p \in 2 .. Len(v) : p - 1 \in 1 .. Len(w) /\ v[p] = w[p - 1]
           /\ 1 \in 1 .. Len(v)
           /\ \A p \in 1 .. Len(v) : p = 1 \/ p \in 2 .. Len(v)
OBVIOUS

\* An error that wraps at most one, given what is shown of that one.
LEMMA LinkShows ==
    ASSUME Built, VisitedRuns, ReachRuns, NEW e \in 1 .. Len(errs), errs[e].kind # "join",
           Following(e) # 0 => Shows(visited[Following(e)], Following(e))
    PROVE  Shows(visited[e], e)
<1>1. CASE Following(e) = 0
  <2>1. visited[e] = <<e>> /\ reach[e] = {e}
    BY <1>1, LinkParts
  <2>2. Len(<<e>>) = 1 /\ <<e>>[1] = e
    OBVIOUS
  <2> QED
    BY <2>1, <2>2 DEF Shows
<1>2. CASE Following(e) # 0
  <2> DEFINE f == Following(e)
             v == visited[e]
             w == visited[f]
  <2>1. v = <<e>> \o w /\ reach[e] = {e} \cup reach[f] /\ f \in 1 .. e - 1
    BY <1>2, LinkParts
  <2>2. w \in Seq(1 .. Len(errs)) /\ Len(w) \in Nat /\ f \in 1 .. Len(errs)
    BY <2>1 DEF VisitedRuns
  <2>3. Shows(w, f)
    BY <1>2
  <2> HIDE DEF f, v, w
  <2>4. /\ Len(v) = Len(w) + 1
        /\ v[1] = e
        /\ \A p \in 1 .. Len(w) : v[p + 1] = w[p]
        /\ \A p \in 2 .. Len(v) : p - 1 \in 1 .. Len(w) /\ v[p] = w[p - 1]
        /\ 1 \in 1 .. Len(v)
        /\ \A p \in 1 .. Len(v) : p = 1 \/ p \in 2 .. Len(v)
    BY <2>1, <2>2, InFront
  <2>5. \A i \in reach[f] : i \in 1 .. e - 1 /\ e \notin reach[i]
    <3> SUFFICES ASSUME NEW i \in reach[f] PROVE i \in 1 .. e - 1 /\ e \notin reach[i]
      OBVIOUS
    <3>1. i \in 1 .. f
      BY <2>2 DEF ReachRuns
    <3>2. i \in 1 .. e - 1 /\ i \in 1 .. Len(errs)
      BY <2>1, <3>1
    <3>3. reach[i] \subseteq 1 .. i
      BY <3>2 DEF ReachRuns
    <3> QED
      BY <3>2, <3>3
  <2>6. ASSUME NEW p \in 1 .. Len(v) PROVE v[p] \in reach[e]
    BY <2>1, <2>3, <2>4 DEF Shows
  <2>7. ASSUME NEW i \in reach[e], errs[i].kind = "Error"
        PROVE  \E p \in 1 .. Len(v) : v[p] = i
    <3>1. CASE i = e
      BY <2>4, <3>1
    <3>2. CASE i \in reach[f]
      <4>1. PICK p \in 1 .. Len(w) : w[p] = i
        BY <2>3, <2>7, <3>2 DEF Shows
      <4>2. p + 1 \in 1 .. Len(v)
        BY <2>2, <2>4
      <4> QED
        BY <2>4, <4>1, <4>2
    <3> QED
      BY <2>1, <3>1, <3>2
  <2>8. ASSUME NEW p \in 1 .. Len(v), NEW q \in 1 .. Len(v), p < q
        PROVE  errs[v[p]].kind = "Error" =>
                  v[p] \notin reach[v[q]] \/ (v[p] = v[q] /\ JoinedTwice(v[p], e))
    <3>1. q - 1 \in 1 .. Len(w) /\ v[q] = w[q - 1] /\ v[q] \in reach[f]
      <4>1. q \in 2 .. Len(v)
        BY <2>2, <2>4, <2>8
      <4> QED
        BY <2>3, <2>4, <4>1 DEF Shows
    <3>2. CASE p = 1
      BY <2>1, <2>4, <2>5, <3>1, <3>2
    <3>3. CASE p \in 2 .. Len(v)
      <4>1. p - 1 \in 1 .. Len(w) /\ v[p] = w[p - 1] /\ p - 1 < q - 1
        BY <2>4, <2>8, <3>3
      <4>2. errs[v[p]].kind = "Error" =>
               v[p] \notin reach[v[q]] \/ (v[p] = v[q] /\ JoinedTwice(v[p], f))
        BY <2>3, <3>1, <4>1 DEF Shows
      <4> QED
        BY <2>1, <4>2, TwiceOutside
    <3> QED
      BY <2>4, <3>2, <3>3
  <2>9. Shows(v, e)
    BY <2>6, <2>7, <2>8 DEF Shows
  <2> QED
    BY <2>9 DEF v
<1> QED
  BY <1>1, <1>2

\* With flat joins the loop looks at all structured errors.
LEMMA VisitedShows ==
    ASSUME Built, NEW e \in 1 .. Len(errs), FlatJoins(e)
    PROVE  Shows(visited[e], e)
<1> DEFINE n == Len(errs)
           P == {i \in 1 .. n : FlatJoins(i) => Shows(visited[i], i)}
<1>1. VisitedRuns /\ ReachRuns
  BY VisitedDefined, ReachDefined
<1>2. ASSUME NEW i \in 1 .. n, \A j \in 1 .. i - 1 : j \in P
      PROVE  i \in P
  <2> SUFFICES ASSUME FlatJoins(i) PROVE Shows(visited[i], i)
    OBVIOUS
  <2>1. CASE errs[i].kind = "join"
    BY <1>1, <2>1, JoinShows
  <2>2. CASE errs[i].kind # "join"
    <3>1. ASSUME Following(i) # 0
          PROVE  Shows(visited[Following(i)], Following(i))
      <4>1. Following(i) \in 1 .. i - 1 /\ reach[Following(i)] \subseteq reach[i]
        BY <1>1, <2>2, <3>1, LinkParts
      <4>2. FlatJoins(Following(i))
        BY <4>1 DEF FlatJoins
      <4> QED
        BY <1>2, <4>1, <4>2
    <3> QED
      BY <1>1, <2>2, <3>1, LinkShows
  <2> QED
    BY <2>1, <2>2
<1>3. n \in Nat /\ 1 \in Nat
  BY DEF Built
<1> HIDE DEF P
<1>4. \A i \in 1 .. n : i \in P
  <2> HIDE DEF n
  <2> QED
    BY <1>2, <1>3, Induction
<1> QED
  BY <1>4 DEF P

\* The values that are collected are then those of all of them.
LEMMA BuiltReports == Built => ReportsWrapped
<1> SUFFICES ASSUME Built, NEW e \in 1 .. Len(errs), NEW k \in AllKeys, FlatJoins(e),
                    NEW found, found = UnwrapValues(e, k)
             PROVE  /\ ToSet(found) = Carriers(e, k)
                    /\ \A i, j \in 1 .. Len(found) :
                          i < j => \/ found[i] \notin reach[found[j]]
                                   \/ found[i] = found[j] /\ JoinedTwice(found[i], e)
  BY DEF ReportsWrapped
<1> DEFINE v == visited[e]
           S == Carrying(k)
           D == 1 .. Len(errs)
<1>1. v \in Seq(D) /\ reach[e] \subseteq D
  BY VisitedDefined, ReachDefined DEF VisitedRuns, ReachRuns
<1>2. Shows(v, e)
  BY VisitedShows
<1>3. found = Collected(v, S)
  BY DEF UnwrapValues
<1> HIDE DEF v, D
<1>4. found \in Seq(D) /\ Gathers(found, v, S, Len(v))
  BY <1>1, <1>3, CollectedGathers
<1>5. \A i \in S : errs[i].kind = "Error"
  BY DEF Carrying
<1>6. Carriers(e, k) = reach[e] \cap S
  BY DEF Carriers
<1> HIDE DEF S
<1>7. ASSUME NEW i \in 1 .. Len(found)
      PROVE  found[i] \in reach[e] \cap S
  <2>1. PICK p \in 1 .. Len(v) : found[i] = v[p] /\ v[p] \in S
    BY <1>4 DEF Gathers
  <2> QED
    BY <1>2, <2>1 DEF Shows
<1>8. ASSUME NEW x \in reach[e] \cap S
      PROVE  \E i \in 1 .. Len(found) : found[i] = x
  <2>1. PICK p \in 1 .. Len(v) : v[p] = x
    BY <1>2, <1>5 DEF Shows
  <2> QED
    BY <1>4, <2>1 DEF Gathers
<1>9. ToSet(found) = reach[e] \cap S
  <2>1. ToSet(found) = {found[i] : i \in 1 .. Len(found)}
    BY <1>4, Entries
  <2> QED
    BY <1>7, <1>8, <2>1
<1>10. ASSUME NEW i \in 1 .. Len(found), NEW j \in 1 .. Len(found), i < j
       PROVE  \/ found[i] \notin reach[found[j]]
              \/ found[i] = found[j] /\ JoinedTwice(found[i], e)
  <2>1. PICK p \in 1 .. Len(v), q \in 1 .. Len(v) : p < q /\ found[i] = v[p] /\ found[j] = v[q]
    BY <1>4, <1>10 DEF Gathers
  <2>2. errs[v[p]].kind = "Error"
    BY <1>5, <1>7, <2>1
  <2>3. v[p] \notin reach[v[q]] \/ (v[p] = v[q] /\ JoinedTwice(v[p], e))
    BY <1>2, <2>1, <2>2 DEF Shows
  <2> QED
    BY <2>1, <2>3
<1> QED
  BY <1>6, <1>9, <1>10

-----------------------------------------------------------------------------
(* The steps.                                                              *)

\* A set of naturals with a bound has a greatest element.
LEMMA Greatest ==
    ASSUME NEW b \in Nat, NEW S \in SUBSET (0 .. b), S # {}
    PROVE  Max(S) \in S /\ \A y \in S : y <= Max(S)
<1> DEFINE T == {k \in 0 .. b : b - k \in S}
<1>1. PICK x \in S : TRUE
  OBVIOUS
<1>2. T \in SUBSET Nat /\ T # {}
  <2>1. b - x \in T
    BY <1>1
  <2> QED
    BY <2>1
<1>3. PICK k \in T : \A y \in T : k <= y
  BY <1>2, Least
<1>4. ASSUME NEW y \in S PROVE b - k >= y
  <2>1. b - y \in T
    OBVIOUS
  <2>2. k <= b - y
    BY <1>3, <2>1
  <2> QED
    BY <2>2
<1>5. b - k \in S
  BY <1>3
<1>6. \E z \in S : \A y \in S : z >= y
  BY <1>4, <1>5
<1>7. Max(S) \in S /\ \A y \in S : Max(S) >= y
  BY <1>6, Zenon DEF Max
<1> QED
  BY <1>7

\* The answer that the handler keeps is one that it met.
LEMMA AnswerMet ==
    ASSUME Built, NEW e \in 1 .. Len(errs), NEW kind, Met(e, kind) # {}
    PROVE  /\ Max(Met(e, kind)) \in Met(e, kind)
           /\ \A n \in Met(e, kind) : n <= Max(Met(e, kind))
           /\ Answer(e, kind) \in Nat
<1> DEFINE M == Met(e, kind)
           b == Len(chain[e])
<1>1. chain[e] \in Seq(1 .. Len(errs)) /\ b \in Nat
  BY ChainDefined DEF ChainRuns
<1>2. M \in SUBSET (0 .. b)
  BY <1>1 DEF Met
<1>3. Max(M) \in M /\ \A n \in M : n <= Max(M)
  <2> HIDE DEF M, b
  <2> QED
    BY <1>1, <1>2, Greatest DEF M
<1>4. chain[e][Max(M)] \in 1 .. Len(errs)
  <2>1. Max(M) \in 1 .. Len(chain[e])
    BY <1>3 DEF Met
  <2> QED
    BY <1>1, <2>1
<1>5. errs[chain[e][Max(M)]] \in Errs
  BY <1>4 DEF Built
<1> QED
  BY <1>3, <1>5 DEF Answer, Errs

\* x is what the handler makes of e.
Handles(x, e) ==
    /\ x.kind = "Error"
    /\ x.of = <<e>>
    /\ \A kind \in {"response", "api"} : Met(e, kind) # {} =>
          kind \in DOMAIN x.values /\ x.values[kind] = Answer(e, kind)

\* A new error, the last one.
Grows(x) ==
    /\ x \in Errs
    /\ Wraps(x, Len(errs) + 1)
    /\ x.answer = ops + 1
    /\ "operation" \in DOMAIN x.values => \E e \in 1 .. Len(errs) : Handles(x, e)
    /\ Add(x)

\* An error of another package that is no join.
LEMMA NodeGrows ==
    ASSUME Built, NEW kind \in Kinds \ {"join"}, NEW of \in Seq(1 .. Len(errs)), Len(of) <= 1,
           Add(Node(kind, of))
    PROVE  Grows(Node(kind, of))
<1> DEFINE x == Node(kind, of)
<1>1. Len(errs) \in Nat /\ ops \in Nat
  BY DEF Built
<1>2. NoValues \in [{} -> Nat] /\ {} \in SUBSET AllKeys /\ DOMAIN NoValues = {}
  BY DEF NoValues
<1>3. NoValues \in UNION {[D -> Nat] : D \in SUBSET AllKeys}
  BY <1>2
<1>4. x.kind = kind /\ x.of = of /\ x.values = NoValues /\ x.answer = ops + 1
  BY DEF Node
<1>5. of \in Seq(Nat) /\ \A n \in 1 .. Len(of) : of[n] \in 1 .. Len(errs)
  OBVIOUS
<1>6. x \in Errs
  BY <1>1, <1>3, <1>5 DEF Node, Errs
<1>7. Wraps(x, Len(errs) + 1)
  BY <1>1, <1>4, <1>5 DEF Wraps
<1> HIDE DEF x
<1>8. Grows(x)
  BY <1>2, <1>4, <1>6, <1>7 DEF Grows, x
<1> QED
  BY <1>8 DEF x

\* A join of two errors.
LEMMA JoinGrows ==
    ASSUME Built, NEW e \in 1 .. Len(errs), NEW f \in 1 .. Len(errs), Join(e, f)
    PROVE  \E x : Grows(x)
<1>1. PICK left \in {<<e>>, Elements(e)}, right \in {<<f>>, Elements(f)} :
         Add(Node("join", left \o right))
  BY DEF Join
<1> DEFINE of == left \o right
           x == Node("join", of)
<1>2. Len(errs) \in Nat /\ ops \in Nat
  BY DEF Built
<1>3. NoValues \in [{} -> Nat] /\ {} \in SUBSET AllKeys /\ DOMAIN NoValues = {}
  BY DEF NoValues
<1>4. NoValues \in UNION {[D -> Nat] : D \in SUBSET AllKeys}
  BY <1>3
<1>5. of \in Seq(1 .. Len(errs))
  <2>1. <<e>> \in Seq(1 .. Len(errs)) /\ <<f>> \in Seq(1 .. Len(errs))
    OBVIOUS
  <2>2. left \in Seq(1 .. Len(errs)) /\ right \in Seq(1 .. Len(errs))
    BY <2>1, ElementsType
  <2> QED
    BY <2>2, ConcatProperties
<1>6. Add(x)
  BY <1>1
<1> HIDE DEF of
<1>7. x.kind = "join" /\ x.of = of /\ x.values = NoValues /\ x.answer = ops + 1
  BY DEF Node
<1>8. of \in Seq(Nat) /\ \A n \in 1 .. Len(of) : of[n] \in 1 .. Len(errs)
  BY <1>5
<1>9. x \in Errs
  BY <1>2, <1>4, <1>8 DEF Node, Errs, Kinds
<1>10. Wraps(x, Len(errs) + 1)
  BY <1>2, <1>7, <1>8 DEF Wraps
<1> HIDE DEF x
<1>11. Grows(x)
  BY <1>3, <1>6, <1>7, <1>9, <1>10 DEF Grows
<1> QED
  BY <1>11

\* An error with values around e, whose operation key only the handler sets.
LEMMA WrapGrows ==
    ASSUME Built, NEW e \in 1 .. Len(errs), NEW D \in SUBSET AllKeys, NEW pairs \in [D -> Nat],
           Wrap(e, pairs),
           "operation" \in D => \A kind \in {"response", "api"} : Met(e, kind) # {} =>
              kind \in D /\ pairs[kind] = Answer(e, kind)
    PROVE  \E x : Grows(x)
<1> DEFINE w == WithPairs(NoValues, pairs)
           x == [Node("Error", <<e>>) EXCEPT !.values = w]
<1>1. Len(errs) \in Nat /\ ops \in Nat
  BY DEF Built
<1>2. w = pairs
  BY DEF WithPairs, NoValues
<1>3. pairs \in UNION {[E -> Nat] : E \in SUBSET AllKeys} /\ DOMAIN pairs = D
  OBVIOUS
<1>4. x = [kind |-> "Error", of |-> <<e>>, values |-> pairs, answer |-> ops + 1]
  BY <1>2 DEF Node
<1>5. x.kind = "Error" /\ x.of = <<e>> /\ x.values = pairs /\ x.answer = ops + 1
  BY <1>4
<1>6. <<e>> \in Seq(Nat) /\ Len(<<e>>) = 1 /\ <<e>>[1] = e
  OBVIOUS
<1>7. Add(x)
  BY DEF Wrap
<1> HIDE DEF x, w
<1>8. x \in Errs
  BY <1>1, <1>3, <1>4, <1>6 DEF Errs, Kinds
<1>9. Wraps(x, Len(errs) + 1)
  BY <1>1, <1>5, <1>6 DEF Wraps
<1>10. "operation" \in DOMAIN x.values => Handles(x, e)
  BY <1>3, <1>5 DEF Handles
<1>11. Grows(x)
  BY <1>5, <1>7, <1>8, <1>9, <1>10 DEF Grows
<1> QED
  BY <1>11

\* Values of the callers' keys are put into a structured error in place.
Changes(e) ==
    /\ errs[e].kind = "Error"
    /\ Len(errs') = Len(errs)
    /\ errs' \in Seq(Errs)
    /\ \A i \in 1 .. Len(errs) :
          /\ errs'[i].kind = errs[i].kind /\ errs'[i].of = errs[i].of /\ errs'[i].answer = errs[i].answer
          /\ \A k \in AllKeys \ Keys :
                /\ k \in DOMAIN errs'[i].values <=> k \in DOMAIN errs[i].values
                /\ k \in DOMAIN errs[i].values => errs'[i].values[k] = errs[i].values[k]

\* WithValues is such a change.
LEMMA WithValuesChanges ==
    ASSUME Built, NEW e \in 1 .. Len(errs), NEW k \in Keys, WithValues(e, [j \in {k} |-> ops + 1])
    PROVE  Changes(e)
<1> DEFINE pairs == [j \in {k} |-> ops + 1]
           w == WithPairs(errs[e].values, pairs)
           x == [errs[e] EXCEPT !.values = w]
<1>1. errs \in Seq(Errs) /\ errs[e] \in Errs /\ ops \in Nat /\ Len(errs) \in Nat
  BY DEF Built
<1>2. PICK D \in SUBSET AllKeys : errs[e].values \in [D -> Nat]
  BY <1>1 DEF Errs
<1>3. {k} \in SUBSET AllKeys /\ pairs \in [{k} -> Nat]
  BY <1>1 DEF AllKeys
<1>4. w \in [D \cup {k} -> Nat] /\ D \cup {k} \in SUBSET AllKeys
  <2> HIDE DEF pairs
  <2> QED
    BY <1>2, <1>3, PairsType
<1>5. ASSUME NEW j \in AllKeys \ Keys
      PROVE  /\ j \in DOMAIN w <=> j \in DOMAIN errs[e].values
             /\ j \in DOMAIN errs[e].values => w[j] = errs[e].values[j]
  <2>1. j # k
    OBVIOUS
  <2>2. DOMAIN w = D \cup {k} /\ DOMAIN errs[e].values = D
    BY <1>2, <1>4
  <2>3. j \in D => w[j] = errs[e].values[j]
    BY <1>2, <2>1 DEF WithPairs
  <2> QED
    BY <2>1, <2>2, <2>3
<1>6. errs' = [errs EXCEPT ![e] = x] /\ errs[e].kind = "Error"
  BY DEF WithValues
<1>7. x.kind = errs[e].kind /\ x.of = errs[e].of /\ x.answer = errs[e].answer /\ x.values = w
  BY <1>1 DEF Errs
<1>8. x \in Errs
  <2>1. w \in UNION {[E -> Nat] : E \in SUBSET AllKeys}
    BY <1>4
  <2> HIDE DEF w
  <2> QED
    BY <1>1, <2>1 DEF Errs
<1> HIDE DEF x, w
<1>9. errs' \in Seq(Errs) /\ Len(errs') = Len(errs)
  BY <1>1, <1>6, <1>8, ExceptSeq
<1>10. errs'[e] = x /\ \A i \in 1 .. Len(errs) : i # e => errs'[i] = errs[i]
  BY <1>1, <1>6, ExceptSeq
<1>11. ASSUME NEW i \in 1 .. Len(errs)
       PROVE  /\ errs'[i].kind = errs[i].kind /\ errs'[i].of = errs[i].of /\ errs'[i].answer = errs[i].answer
              /\ \A j \in AllKeys \ Keys :
                    /\ j \in DOMAIN errs'[i].values <=> j \in DOMAIN errs[i].values
                    /\ j \in DOMAIN errs[i].values => errs'[i].values[j] = errs[i].values[j]
  BY <1>5, <1>7, <1>10
<1> QED
  BY <1>6, <1>9, <1>11 DEF Changes

\* The handler makes a structured error with the answers it met.
LEMMA HandleGrows ==
    ASSUME Built, NEW e \in 1 .. Len(errs), HandleDeserialize(e)
    PROVE  \E x : Grows(x)
<1> DEFINE answered == {kind \in {"response", "api"} : Met(e, kind) # {}}
           D == answered \cup {"operation"}
           pairs == [k \in D |-> IF k = "operation" THEN ops + 1 ELSE Answer(e, k)]
<1>1. D \in SUBSET AllKeys
  BY DEF AllKeys
<1>2. pairs \in [D -> Nat]
  <2>1. \A k \in answered : Answer(e, k) \in Nat
    BY AnswerMet
  <2>2. ops + 1 \in Nat
    BY DEF Built
  <2> QED
    BY <2>1, <2>2
<1>3. Wrap(e, pairs)
  BY DEF HandleDeserialize
<1>4. \A kind \in {"response", "api"} : Met(e, kind) # {} =>
         kind \in D /\ pairs[kind] = Answer(e, kind)
  OBVIOUS
<1> HIDE DEF pairs, D
<1> QED
  BY <1>1, <1>2, <1>3, <1>4, WrapGrows

\* Every step makes an error or changes the values of one.
LEMMA StepShape ==
    ASSUME Built, Next
    PROVE  /\ ops' = ops + 1
           /\ (\E x : Grows(x)) \/ (\E e \in 1 .. Len(errs) : Changes(e))
<1>1. ops' = ops + 1
  BY DEF Next
<1>2. CASE New
  <2>1. PICK kind \in {"plain", "api"} : Add(Node(kind, <<>>))
    BY <1>2 DEF New
  <2>2. kind \in Kinds \ {"join"} /\ <<>> \in Seq(1 .. Len(errs)) /\ Len(<<>>) <= 1
    BY DEF Kinds
  <2> QED
    BY <1>1, <2>1, <2>2, NodeGrows
<1>3. ASSUME NEW e \in 1 .. Len(errs), WrapOne(e) PROVE \E x : Grows(x)
  <2>1. PICK kind \in {"fmt", "response"} : Add(Node(kind, <<e>>))
    BY <1>3 DEF WrapOne
  <2>2. kind \in Kinds \ {"join"} /\ <<e>> \in Seq(1 .. Len(errs)) /\ Len(<<e>>) <= 1
    BY DEF Kinds
  <2> QED
    BY <2>1, <2>2, NodeGrows
<1>4. ASSUME NEW e \in 1 .. Len(errs), NEW k \in Keys, Wrap(e, [j \in {k} |-> ops + 1])
      PROVE  \E x : Grows(x)
  <2> DEFINE pairs == [j \in {k} |-> ops + 1]
             D == {k}
  <2>1. D \in SUBSET AllKeys /\ pairs \in [D -> Nat] /\ "operation" \notin D
    BY KeysApart DEF Built, AllKeys
  <2>2. Wrap(e, pairs)
    BY <1>4
  <2> HIDE DEF pairs, D
  <2> QED
    BY <2>1, <2>2, WrapGrows
<1> QED
  BY <1>1, <1>2, <1>3, <1>4, JoinGrows, HandleGrows, WithValuesChanges DEF Next

\* What is there stays as it was made, but for its values.
Keeps ==
    /\ Len(errs) <= Len(errs')
    /\ \A i \in 1 .. Len(errs) :
          errs'[i].kind = errs[i].kind /\ errs'[i].of = errs[i].of /\ errs'[i].answer = errs[i].answer

\* A new error leaves the others alone.
LEMMA GrowsKeeps ==
    ASSUME Built, NEW x, Grows(x)
    PROVE  /\ Keeps
           /\ Len(errs') = Len(errs) + 1
           /\ errs'[Len(errs) + 1] = x
           /\ \A i \in 1 .. Len(errs) : errs'[i] = errs[i]
BY DEF Built, Grows, Add, Keeps

\* New values leave all else alone.
LEMMA ChangesKeeps ==
    ASSUME Built, NEW e, Changes(e)
    PROVE  Keeps
BY DEF Built, Changes, Keeps

\* Every step keeps the errors well built.
LEMMA BuiltStep ==
    ASSUME Built, Next
    PROVE  Built' /\ Keeps
<1>1. ops' = ops + 1 /\ ops' \in Nat
  BY StepShape DEF Built
<1>2. ASSUME NEW x, Grows(x) PROVE Built' /\ Keeps
  <2>1. Built'
    BY <1>1, <1>2, AddBuilt DEF Grows
  <2> QED
    BY <1>2, <2>1, GrowsKeeps
<1>3. ASSUME NEW e \in 1 .. Len(errs), Changes(e) PROVE Built' /\ Keeps
  <2>1. \A i \in 1 .. Len(errs') : errs'[i].kind = errs[i].kind /\ errs'[i].of = errs[i].of
    BY <1>3 DEF Changes
  <2>2. \A i \in 1 .. Len(errs') : Wraps(errs[i], i)
    BY <1>3 DEF Changes, Built
  <2>3. \A i \in 1 .. Len(errs') : Wraps(errs'[i], i)
    BY <2>1, <2>2 DEF Wraps
  <2>4. errs' \in Seq(Errs)
    BY <1>3 DEF Changes
  <2>5. Built'
    BY <1>1, <2>3, <2>4 DEF Built
  <2> QED
    BY <1>3, <2>5, ChangesKeeps
<1> QED
  BY <1>2, <1>3, StepShape

\* The first error wraps nothing.
LEMMA BuiltInit == Init => Built
<1> SUFFICES ASSUME Init PROVE Built
  OBVIOUS
<1> DEFINE x == Node("plain", <<>>)
<1>1. ops = 0 /\ errs = <<x>>
  BY DEF Init
<1>2. NoValues \in [{} -> Nat] /\ {} \in SUBSET AllKeys
  BY DEF NoValues
<1>3. NoValues \in UNION {[D -> Nat] : D \in SUBSET AllKeys}
  BY <1>2
<1>4. x \in Errs /\ x.of = <<>> /\ x.kind = "plain"
  BY <1>1, <1>3 DEF Node, Errs, Kinds
<1> HIDE DEF x
<1>5. errs \in Seq(Errs) /\ Len(errs) = 1 /\ errs[1] = x
  BY <1>1, <1>4
<1>6. Wraps(x, 1)
  BY <1>4 DEF Wraps
<1>7. \A i \in 1 .. Len(errs) : Wraps(errs[i], i)
  BY <1>5, <1>6
<1> QED
  BY <1>1, <1>5, <1>7 DEF Built

\* No error ever wraps a later one, so that no loop over an error is endless.
LEMMA BuiltAlways == Spec => []Built
<1>1. Built /\ [Next]_vars => Built'
  <2> SUFFICES ASSUME Built, [Next]_vars PROVE Built'
    OBVIOUS
  <2>1. CASE Next
    BY <2>1, BuiltStep
  <2>2. CASE UNCHANGED vars
    BY <2>2 DEF vars, Built
  <2> QED
    BY <2>1, <2>2
<1> QED
  BY <1>1, BuiltInit, PTL DEF Spec

\* UnwrapValues (src/serrors/serrors.go:67) misses and reverses nothing, and
\* repeats only what was joined with itself, for any number of errors and
\* however they wrap and join each other, as long as joins are flat.
THEOREM WrappedReported == Spec => []ReportsWrapped
BY BuiltAlways, BuiltReports, PTL

-----------------------------------------------------------------------------
(* The answers that the handler reports.                                   *)

\* The loop goes from later to earlier errors, and those of its errors that
\* are no joins are also looked at by UnwrapValues.
Falls(e) ==
    /\ \A p \in 1 .. Len(chain[e]) : chain[e][p] \in 1 .. e
    /\ \A p, q \in 1 .. Len(chain[e]) : p < q => chain[e][q] < chain[e][p]
    /\ \A p \in 1 .. Len(chain[e]) : errs[chain[e][p]].kind # "join" =>
          \E q \in 1 .. Len(visited[e]) : visited[e][q] = chain[e][p]

\* An error at which the loop ends.
LEMMA LastFalls ==
    ASSUME Built, ChainRuns, VisitedRuns, ReachRuns, NEW e \in 1 .. Len(errs), Following(e) = 0
    PROVE  Falls(e)
<1>1. chain[e] = <<e>>
  <2>1. chain[e] = <<e>> \o <<>>
    BY DEF ChainRuns
  <2> QED
    BY <2>1
<1>2. Len(chain[e]) = 1 /\ chain[e][1] = e
  BY <1>1
<1>3. errs[e].kind # "join" => Len(visited[e]) = 1 /\ visited[e][1] = e
  <2>1. errs[e].kind # "join" => visited[e] = <<e>>
    BY LinkParts
  <2>2. Len(<<e>>) = 1 /\ <<e>>[1] = e
    OBVIOUS
  <2> QED
    BY <2>1, <2>2
<1> QED
  BY <1>2, <1>3 DEF Falls

\* An error from which the loop goes on.
LEMMA NextFalls ==
    ASSUME Built, ChainRuns, VisitedRuns, ReachRuns, NEW e \in 1 .. Len(errs), Following(e) # 0,
           Falls(Following(e))
    PROVE  Falls(e)
<1> DEFINE D == 1 .. Len(errs)
           f == Following(e)
           c == chain[e]
           d == chain[f]
           v == visited[e]
           w == visited[f]
<1>1. errs[e].kind # "join"
  BY DEF Following, Unwrap
<1>2. f \in 1 .. e - 1 /\ f \in D /\ v = <<e>> \o w
  <2>1. Following(e) \in 1 .. e - 1 /\ visited[e] = <<e>> \o visited[Following(e)]
    BY <1>1, LinkParts, Zenon
  <2>2. f \in D
    BY <2>1
  <2> QED
    BY <2>1, <2>2
<1>3. c = <<e>> \o d
  BY DEF ChainRuns
<1>4. d \in Seq(D) /\ w \in Seq(D) /\ Len(d) \in Nat /\ Len(w) \in Nat
  BY <1>2 DEF ChainRuns, VisitedRuns
<1>5. /\ \A p \in 1 .. Len(d) : d[p] \in 1 .. f
      /\ \A p, q \in 1 .. Len(d) : p < q => d[q] < d[p]
      /\ \A p \in 1 .. Len(d) : errs[d[p]].kind # "join" => \E q \in 1 .. Len(w) : w[q] = d[p]
  BY DEF Falls
<1> HIDE DEF D, f, c, d, v, w
<1>6. e \in D
  BY DEF D
<1>7. /\ Len(c) = Len(d) + 1
      /\ c[1] = e
      /\ \A p \in 2 .. Len(c) : p - 1 \in 1 .. Len(d) /\ c[p] = d[p - 1]
      /\ \A p \in 1 .. Len(c) : p = 1 \/ p \in 2 .. Len(c)
  BY <1>3, <1>4, <1>6, InFront
<1>8. /\ Len(v) = Len(w) + 1
      /\ v[1] = e
      /\ \A p \in 1 .. Len(w) : v[p + 1] = w[p]
      /\ 1 \in 1 .. Len(v)
  BY <1>2, <1>4, <1>6, InFront
<1>9. ASSUME NEW p \in 1 .. Len(c) PROVE c[p] \in 1 .. e
  BY <1>2, <1>5, <1>7
<1>10. ASSUME NEW p \in 1 .. Len(c), NEW q \in 1 .. Len(c), p < q PROVE c[q] < c[p]
  <2>1. q - 1 \in 1 .. Len(d) /\ c[q] = d[q - 1] /\ c[q] \in 1 .. f
    <3>1. q \in 2 .. Len(c)
      BY <1>10
    <3> QED
      BY <1>5, <1>7, <3>1
  <2>2. CASE p = 1
    BY <1>2, <1>7, <2>1, <2>2
  <2>3. CASE p \in 2 .. Len(c)
    <3>1. p - 1 \in 1 .. Len(d) /\ c[p] = d[p - 1] /\ p - 1 < q - 1
      BY <1>7, <1>10, <2>3
    <3> QED
      BY <1>5, <2>1, <3>1
  <2> QED
    BY <1>7, <2>2, <2>3
<1>11. ASSUME NEW p \in 1 .. Len(c), errs[c[p]].kind # "join"
       PROVE  \E q \in 1 .. Len(v) : v[q] = c[p]
  <2>1. CASE p = 1
    BY <1>7, <1>8, <2>1
  <2>2. CASE p \in 2 .. Len(c)
    <3>1. PICK q \in 1 .. Len(w) : w[q] = c[p]
      BY <1>5, <1>7, <1>11, <2>2
    <3>2. q + 1 \in 1 .. Len(v)
      BY <1>4, <1>8
    <3> QED
      BY <1>8, <3>1, <3>2
  <2> QED
    BY <1>7, <2>1, <2>2
<1> QED
  BY <1>9, <1>10, <1>11 DEF Falls, c, v

\* The loop over any error.
LEMMA ChainFalls ==
    ASSUME Built
    PROVE  \A e \in 1 .. Len(errs) : Falls(e)
<1> DEFINE n == Len(errs)
           P == {i \in 1 .. n : Falls(i)}
<1>1. ChainRuns /\ VisitedRuns /\ ReachRuns
  BY ChainDefined, VisitedDefined, ReachDefined
<1>2. ASSUME NEW i \in 1 .. n, \A j \in 1 .. i - 1 : j \in P
      PROVE  i \in P
  <2>1. Following(i) # 0 => Following(i) \in 1 .. i - 1
    BY FollowingEarlier
  <2> QED
    BY <1>1, <1>2, <2>1, LastFalls, NextFalls
<1>3. n \in Nat /\ 1 \in Nat
  BY DEF Built
<1> HIDE DEF P
<1>4. \A i \in 1 .. n : i \in P
  <2> HIDE DEF n
  <2> QED
    BY <1>2, <1>3, Induction
<1> QED
  BY <1>4 DEF P

\* The loop over an error that stays does not change.
LEMMA ChainKept ==
    ASSUME Built, Built', Keeps
    PROVE  \A i \in 1 .. Len(errs) : chain'[i] = chain[i]
<1> DEFINE n == Len(errs)
           pre == [e \in 1 .. n |-> <<e>>]
           next == [e \in 1 .. n |-> Following(e)]
<1>1. ChainRuns /\ ChainRuns'
  <2>1. (Built => ChainRuns)'
    BY ChainDefined, PTL
  <2> QED
    BY <2>1, ChainDefined
<1>2. \A e \in 1 .. n : e \in 1 .. Len(errs') /\ Following(e)' = Following(e)
  BY DEF Keeps, Following, Unwrap, Built
<1>3. n \in Nat /\ Back(next, n)
  BY FollowingEarlier DEF Back, Built
<1>4. Runs(chain, n, pre, next)
  BY <1>1 DEF ChainRuns, Runs
<1>5. \A e \in 1 .. n : chain'[e] = <<e>> \o (IF Following(e) = 0 THEN <<>> ELSE chain'[Following(e)])
  BY <1>1, <1>2 DEF ChainRuns
<1>6. Runs(chain', n, pre, next)
  BY <1>5 DEF Runs
<1> HIDE DEF n, pre, next
<1>7. \A i \in 1 .. n : chain'[i] = chain[i]
  BY <1>3, <1>4, <1>6, LoopUnique
<1> QED
  BY <1>7 DEF n

\* Later errors have later answers.
Ordered ==
    /\ \A i \in 1 .. Len(errs) : errs[i].answer <= ops + 1
    /\ \A i, j \in 1 .. Len(errs) : i <= j => errs[i].answer <= errs[j].answer

\* A new answer is the latest, and no step changes one that is there.
LEMMA OrderedStep ==
    ASSUME Built, Built', Ordered, Next
    PROVE  Ordered'
<1>1. ops' = ops + 1 /\ ops \in Nat /\ Len(errs) \in Nat
  BY StepShape DEF Built
<1>2. \A i \in 1 .. Len(errs) : errs[i].answer \in Nat
  <2>1. \A i \in 1 .. Len(errs) : errs[i] \in Errs
    BY DEF Built
  <2> QED
    BY <2>1 DEF Errs
<1>3. ASSUME NEW x, Grows(x) PROVE Ordered'
  <2>1. /\ Len(errs') = Len(errs) + 1
        /\ errs'[Len(errs) + 1].answer = ops + 1
        /\ \A i \in 1 .. Len(errs) : errs'[i].answer = errs[i].answer
    BY <1>3, GrowsKeeps DEF Grows
  <2>2. \A i \in 1 .. Len(errs') : errs'[i].answer <= ops + 1 /\ errs'[i].answer \in Nat
    <3> SUFFICES ASSUME NEW i \in 1 .. Len(errs')
                 PROVE  errs'[i].answer <= ops + 1 /\ errs'[i].answer \in Nat
      OBVIOUS
    <3>1. i \in 1 .. Len(errs) \/ i = Len(errs) + 1
      BY <1>1, <2>1
    <3> QED
      BY <1>1, <1>2, <2>1, <3>1 DEF Ordered
  <2>3. ASSUME NEW i \in 1 .. Len(errs'), NEW j \in 1 .. Len(errs'), i <= j
        PROVE  errs'[i].answer <= errs'[j].answer
    <3>1. (i \in 1 .. Len(errs) /\ j \in 1 .. Len(errs)) \/ j = Len(errs) + 1
      BY <1>1, <2>1, <2>3
    <3> QED
      BY <2>1, <2>2, <2>3, <3>1 DEF Ordered
  <2>4. \A i \in 1 .. Len(errs') : errs'[i].answer <= ops' + 1
    BY <1>1, <2>2
  <2> QED
    BY <2>3, <2>4 DEF Ordered
<1>4. ASSUME NEW e, Changes(e) PROVE Ordered'
  <2>1. Len(errs') = Len(errs) /\ \A i \in 1 .. Len(errs) : errs'[i].answer = errs[i].answer
    BY <1>4 DEF Changes
  <2> QED
    BY <1>1, <1>2, <2>1 DEF Ordered
<1> QED
  BY <1>3, <1>4, StepShape

\* What m holds of the answers on the way that its handler went.
HandledAt(m) ==
    "operation" \in DOMAIN errs[m].values =>
        /\ errs[m].kind = "Error"
        /\ \A p \in 1 .. Len(chain[m]) : errs[chain[m][p]].kind \in {"response", "api"} =>
              LET i == chain[m][p]
              IN  /\ errs[i].kind \in DOMAIN errs[m].values
                  /\ errs[m].values[errs[i].kind] <= errs[i].answer

Handled == \A m \in 1 .. Len(errs) : HandledAt(m)

\* The innermost of the answers that the handler met is the earliest.
LEMMA AnswerEarliest ==
    ASSUME Built, Ordered, NEW e \in 1 .. Len(errs), NEW p \in 1 .. Len(chain[e]), NEW kind,
           errs[chain[e][p]].kind = kind
    PROVE  Met(e, kind) # {} /\ Answer(e, kind) <= errs[chain[e][p]].answer
<1> DEFINE q == Max(Met(e, kind))
<1>1. p \in Met(e, kind)
  BY DEF Met
<1>2. q \in Met(e, kind) /\ p <= q
  BY <1>1, AnswerMet
<1>3. q \in 1 .. Len(chain[e])
  BY <1>2 DEF Met
<1> HIDE DEF q
<1>4. chain[e] \in Seq(1 .. Len(errs)) /\ Len(errs) \in Nat /\ Len(chain[e]) \in Nat
  BY ChainDefined DEF ChainRuns, Built
<1>5. chain[e][p] \in 1 .. Len(errs) /\ chain[e][q] \in 1 .. Len(errs)
  BY <1>3, <1>4
<1>6. chain[e][q] <= chain[e][p]
  <2>1. CASE p = q
    BY <1>5, <2>1
  <2>2. CASE p < q
    <3>1. Falls(e)
      BY ChainFalls
    <3>2. chain[e][q] < chain[e][p]
      BY <1>3, <2>2, <3>1 DEF Falls
    <3> QED
      BY <1>5, <3>2
  <2> QED
    BY <1>2, <1>3, <1>4, <2>1, <2>2
<1>7. errs[chain[e][q]].answer <= errs[chain[e][p]].answer
  BY <1>5, <1>6 DEF Ordered
<1> QED
  BY <1>1, <1>7 DEF Answer, q

\* The error that the handler has just made.
LEMMA NewHandled ==
    ASSUME Built, Built', Ordered, NEW x, Grows(x), NEW m, m = Len(errs) + 1
    PROVE  HandledAt(m)'
<1>1. /\ Keeps /\ errs'[m] = x /\ Len(errs') = m /\ m \in 1 .. m
      /\ \A i \in 1 .. Len(errs) : errs'[i] = errs[i]
  BY GrowsKeeps DEF Built
<1> SUFFICES ASSUME "operation" \in DOMAIN x.values
             PROVE  /\ x.kind = "Error"
                    /\ \A p \in 1 .. Len(chain'[m]) : errs'[chain'[m][p]].kind \in {"response", "api"} =>
                          /\ errs'[chain'[m][p]].kind \in DOMAIN x.values
                          /\ x.values[errs'[chain'[m][p]].kind] <= errs'[chain'[m][p]].answer
  BY <1>1 DEF HandledAt
<1>2. PICK e \in 1 .. Len(errs) : Handles(x, e)
  BY DEF Grows
<1>3. x.kind = "Error" /\ x.of = <<e>>
  BY <1>2 DEF Handles
<1>4. Following(m)' = e /\ e # 0
  BY <1>1, <1>3 DEF Following, Unwrap
<1>5. chain'[m] = <<m>> \o chain'[e]
  <2>1. (Built => ChainRuns)'
    BY ChainDefined, PTL
  <2> QED
    BY <1>1, <1>4, <2>1 DEF ChainRuns
<1>6. chain'[e] = chain[e]
  BY <1>1, ChainKept
<1> DEFINE c == chain'[m]
           d == chain[e]
<1>7. d \in Seq(1 .. Len(errs)) /\ Len(d) \in Nat
  BY ChainDefined DEF ChainRuns
<1>8. d \in Seq(Nat) /\ m \in Nat /\ c = <<m>> \o d
  BY <1>1, <1>5, <1>6, <1>7 DEF Built
<1> HIDE DEF c, d
<1>9. /\ c[1] = m
      /\ \A p \in 2 .. Len(c) : p - 1 \in 1 .. Len(d) /\ c[p] = d[p - 1]
      /\ \A p \in 1 .. Len(c) : p = 1 \/ p \in 2 .. Len(c)
  BY <1>8, InFront
<1>10. ASSUME NEW p \in 1 .. Len(c), errs'[c[p]].kind \in {"response", "api"}
       PROVE  /\ errs'[c[p]].kind \in DOMAIN x.values
              /\ x.values[errs'[c[p]].kind] <= errs'[c[p]].answer
  <2>1. p # 1
    BY <1>1, <1>3, <1>9, <1>10
  <2>2. p - 1 \in 1 .. Len(d) /\ c[p] = d[p - 1]
    BY <1>9, <2>1
  <2>3. errs'[c[p]] = errs[d[p - 1]]
    <3>1. d[p - 1] \in 1 .. Len(errs)
      BY <1>7, <2>2
    <3> QED
      BY <1>1, <2>2, <3>1
  <2> DEFINE kind == errs[d[p - 1]].kind
             r == p - 1
  <2>4. kind \in {"response", "api"} /\ errs[d[r]].kind = kind /\ r \in 1 .. Len(d)
    BY <1>10, <2>2, <2>3
  <2> HIDE DEF kind, r
  <2>5. Met(e, kind) # {} /\ Answer(e, kind) <= errs[d[r]].answer
    BY <2>4, AnswerEarliest DEF d
  <2>6. kind \in DOMAIN x.values /\ x.values[kind] = Answer(e, kind)
    BY <1>2, <2>4, <2>5 DEF Handles
  <2> QED
    BY <2>3, <2>5, <2>6 DEF kind, r
<1> QED
  BY <1>3, <1>10 DEF c

\* No step takes away an answer that the handler reported, or gives the errors
\* on its way another one.
LEMMA HandledStep ==
    ASSUME Built, Built', Ordered, Handled, Next
    PROVE  Handled'
<1>1. Keeps /\ Len(errs) \in Nat
  BY BuiltStep DEF Built
<1>2. \A m \in 1 .. Len(errs) : chain'[m] = chain[m]
  BY <1>1, ChainKept
<1>3. \A m \in 1 .. Len(errs) : \A p \in 1 .. Len(chain[m]) : chain[m][p] \in 1 .. Len(errs)
  <2>1. \A m \in 1 .. Len(errs) : chain[m] \in Seq(1 .. Len(errs))
    BY ChainDefined DEF ChainRuns
  <2> QED
    BY <2>1
<1>4. ASSUME NEW x, Grows(x) PROVE Handled'
  <2>1. Len(errs') = Len(errs) + 1 /\ \A i \in 1 .. Len(errs) : errs'[i] = errs[i]
    BY <1>4, GrowsKeeps
  <2>2. ASSUME NEW m \in 1 .. Len(errs) PROVE HandledAt(m)'
    BY <1>2, <1>3, <2>1 DEF HandledAt, Handled
  <2>3. ASSUME NEW m, m = Len(errs) + 1 PROVE HandledAt(m)'
    BY <1>4, <2>3, NewHandled
  <2>4. \A m \in 1 .. Len(errs') : m \in 1 .. Len(errs) \/ m = Len(errs) + 1
    BY <1>1, <2>1
  <2> QED
    BY <2>2, <2>3, <2>4 DEF Handled
<1>5. ASSUME NEW e, Changes(e) PROVE Handled'
  <2>1. {"operation", "response", "api"} \subseteq AllKeys \ Keys
    BY KeysApart DEF AllKeys
  <2>2. Len(errs') = Len(errs)
    BY <1>5 DEF Changes
  <2>3. ASSUME NEW i \in 1 .. Len(errs)
        PROVE  /\ errs'[i].kind = errs[i].kind /\ errs'[i].answer = errs[i].answer
               /\ \A k \in {"operation", "response", "api"} :
                     /\ k \in DOMAIN errs'[i].values <=> k \in DOMAIN errs[i].values
                     /\ k \in DOMAIN errs[i].values => errs'[i].values[k] = errs[i].values[k]
    BY <1>5, <2>1 DEF Changes
  <2>4. ASSUME NEW m \in 1 .. Len(errs) PROVE HandledAt(m)'
    <3>1. HandledAt(m)
      BY DEF Handled
    <3> SUFFICES ASSUME "operation" \in DOMAIN errs'[m].values
                 PROVE  /\ errs'[m].kind = "Error"
                        /\ \A p \in 1 .. Len(chain[m]) : errs'[chain[m][p]].kind \in {"response", "api"} =>
                              /\ errs'[chain[m][p]].kind \in DOMAIN errs'[m].values
                              /\ errs'[m].values[errs'[chain[m][p]].kind] <= errs'[chain[m][p]].answer
      BY <1>2 DEF HandledAt
    <3>2. "operation" \in DOMAIN errs[m].values /\ errs'[m].kind = "Error"
      BY <2>3, <3>1 DEF HandledAt
    <3>3. ASSUME NEW p \in 1 .. Len(chain[m]), errs'[chain[m][p]].kind \in {"response", "api"}
          PROVE  /\ errs'[chain[m][p]].kind \in DOMAIN errs'[m].values
                 /\ errs'[m].values[errs'[chain[m][p]].kind] <= errs'[chain[m][p]].answer
      <4> DEFINE i == chain[m][p]
                 kind == errs[i].kind
      <4>1. i \in 1 .. Len(errs)
        BY <1>3
      <4>2. errs'[i].kind = kind /\ errs'[i].answer = errs[i].answer /\ kind \in {"response", "api"}
        BY <2>3, <3>3, <4>1
      <4>3. kind \in DOMAIN errs[m].values /\ errs[m].values[kind] <= errs[i].answer
        BY <3>1, <3>2, <4>2 DEF HandledAt
      <4> HIDE DEF kind
      <4>4. kind \in DOMAIN errs'[m].values /\ errs'[m].values[kind] = errs[m].values[kind]
        BY <2>3, <4>2, <4>3
      <4> QED
        BY <4>2, <4>3, <4>4
    <3> QED
      BY <3>2, <3>3
  <2> QED
    BY <2>2, <2>4 DEF Handled
<1> QED
  BY <1>4, <1>5, StepShape

\* At first there is one error, which nobody has handled.
LEMMA HandledInit == Init => Ordered /\ Handled
<1> SUFFICES ASSUME Init PROVE Ordered /\ Handled
  OBVIOUS
<1>1. Len(errs) = 1 /\ errs[1].answer = 1 /\ errs[1].values = NoValues /\ ops = 0
  BY DEF Init, Node
<1>2. "operation" \notin DOMAIN NoValues
  BY DEF NoValues
<1> QED
  BY <1>1, <1>2 DEF Ordered, Handled, HandledAt

\* The inductive invariant of AnswerReported.
LEMMA HandledAlways == Spec => [](Built /\ Ordered /\ Handled)
<1>1. Built /\ Ordered /\ Handled /\ [Next]_vars => Built' /\ Ordered' /\ Handled'
  <2> SUFFICES ASSUME Built, Ordered, Handled, [Next]_vars PROVE Built' /\ Ordered' /\ Handled'
    OBVIOUS
  <2>1. CASE Next
    BY <2>1, BuiltStep, OrderedStep, HandledStep
  <2>2. CASE UNCHANGED vars
    <3>1. errs' = errs /\ ops' = ops
      BY <2>2 DEF vars
    <3>2. Built'
      BY <3>1 DEF Built
    <3>3. Keeps
      BY <3>1 DEF Keeps, Built
    <3>4. \A i \in 1 .. Len(errs) : chain'[i] = chain[i]
      BY <3>2, <3>3, ChainKept
    <3>5. Handled'
      BY <3>1, <3>4 DEF Handled, HandledAt
    <3> QED
      BY <3>1, <3>2, <3>5 DEF Ordered
  <2> QED
    BY <2>1, <2>2
<1> QED
  BY <1>1, BuiltInit, HandledInit, PTL DEF Spec

\* What is handled is found from every error around it.
LEMMA HandledReports == Built /\ Handled => AnswerReported
<1> SUFFICES ASSUME Built, Handled, NEW e \in 1 .. Len(errs), NEW m \in 1 .. Len(errs),
                    m \in ToSet(chain[e]), "operation" \in DOMAIN errs[m].values,
                    NEW i \in ToSet(chain[m]), errs[i].kind \in {"response", "api"}
             PROVE  /\ m \in ToSet(UnwrapValues(e, errs[i].kind))
                    /\ errs[m].values[errs[i].kind] <= errs[i].answer
  BY DEF AnswerReported
<1> DEFINE D == 1 .. Len(errs)
           S == Carrying(errs[i].kind)
           v == visited[e]
           found == UnwrapValues(e, errs[i].kind)
<1>1. chain[e] \in Seq(D) /\ chain[m] \in Seq(D) /\ v \in Seq(D)
  BY ChainDefined, VisitedDefined DEF ChainRuns, VisitedRuns
<1>2. PICK r \in 1 .. Len(chain[m]) : chain[m][r] = i
  <2>1. ToSet(chain[m]) = {chain[m][j] : j \in 1 .. Len(chain[m])}
    BY <1>1, Entries, Zenon
  <2> QED
    BY <2>1
<1>3. PICK p \in 1 .. Len(chain[e]) : chain[e][p] = m
  <2>1. ToSet(chain[e]) = {chain[e][j] : j \in 1 .. Len(chain[e])}
    BY <1>1, Entries, Zenon
  <2> QED
    BY <2>1
<1>4. /\ errs[m].kind = "Error" /\ errs[i].kind \in DOMAIN errs[m].values
      /\ errs[m].values[errs[i].kind] <= errs[i].answer
  BY <1>2 DEF Handled, HandledAt
<1>5. PICK q \in 1 .. Len(v) : v[q] = m
  <2>1. Falls(e)
    BY ChainFalls
  <2> QED
    BY <1>3, <1>4, <2>1 DEF Falls
<1>6. m \in S
  BY <1>4 DEF Carrying
<1>7. found = Collected(v, S)
  BY DEF UnwrapValues
<1> HIDE DEF D, S, v, found
<1>8. found \in Seq(D) /\ Gathers(found, v, S, Len(v))
  BY <1>1, <1>7, CollectedGathers
<1>9. \E j \in 1 .. Len(found) : found[j] = m
  BY <1>5, <1>6, <1>8 DEF Gathers
<1>10. ToSet(found) = {found[j] : j \in 1 .. Len(found)}
  BY <1>8, Entries
<1>11. m \in ToSet(found)
  BY <1>9, <1>10
<1> QED
  BY <1>4, <1>11 DEF found

\* The innermost answer that the AWS middleware met (src/aws/middleware, the loop
\* of StructuredErrorHandler) is reported by the error it returned and by every
\* error around it, whatever values callers add later.
THEOREM AnswerKept == Spec => []AnswerReported
BY HandledAlways, HandledReports, PTL
=============================================================================
