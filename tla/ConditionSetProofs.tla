------------------------- MODULE ConditionSetProofs -------------------------
(***************************************************************************)
(* Proofs about ConditionSet for every choice of condition types, every    *)
(* number of generations and every clock.  The argument rests on one lemma *)
(* about Set, SetShape: whatever is set, the list afterwards is the stored *)
(* one with the root overwritten by the verdict about it.                  *)
(***************************************************************************)
EXTENDS ConditionSet, FiniteSetTheorems, TLAPS

Conds == [Types -> Condition \cup {NoCondition}]

Requests == [status : Status, reason : AllReasons, message : Messages]

\* What Set does to the conditions of the other types: nothing, unless the
\* object is being deleted.
Bumped(old, new) ==
    /\ old = NoCondition <=> new = NoCondition
    /\ old # NoCondition =>
          /\ new.status = old.status
          /\ new.reason = old.reason
          /\ new.message = old.message
          /\ new.lastTransitionTime = old.lastTransitionTime
          /\ new.observedGeneration = IF deleting THEN generation ELSE old.observedGeneration

\* Set stores a well-formed condition.
LEMMA StampedType ==
    ASSUME generation \in Nat, now \in Nat,
           NEW t \in Types, NEW cs \in Conds, NEW r \in Requests
    PROVE  /\ Stamped(cs, t, r) \in Condition
           /\ Stamped(cs, t, r) # NoCondition
BY TypesAssumption DEF Stamped, Condition, Conds, Requests, CreationTimestamp

\* What is stored for the type that is set and for the others.
LEMMA StoreType ==
    ASSUME generation \in Nat, now \in Nat,
           NEW t \in Types, NEW cs \in Conds, NEW r \in Requests
    PROVE  /\ Store(cs, t, r) \in Conds
           /\ Store(cs, t, r)[t] = Stamped(cs, t, r)
           /\ \A u \in Types \ {t} : Bumped(cs[u], Store(cs, t, r)[u])
<1> DEFINE S == Store(cs, t, r)
<1>1. Stamped(cs, t, r) \in Condition
  BY StampedType
<1>2. \A u \in Types : cs[u] # NoCondition =>
          [cs[u] EXCEPT !.observedGeneration = generation] \in Condition
  BY DEF Conds, Condition
<1>3. S \in Conds
  BY <1>1, <1>2 DEF Store, Conds
<1>4. S[t] = Stamped(cs, t, r)
  BY DEF Store
<1>5. ASSUME NEW u \in Types \ {t}
      PROVE  Bumped(cs[u], S[u])
  <2>1. S[u] = IF deleting /\ cs[u] # NoCondition
               THEN [cs[u] EXCEPT !.observedGeneration = generation]
               ELSE cs[u]
    BY DEF Store
  <2>2. CASE cs[u] = NoCondition
    BY <2>1, <2>2 DEF Bumped
  <2>3. CASE cs[u] # NoCondition
    <3>1. cs[u] \in Condition
      BY <2>3 DEF Conds
    <3> QED
      BY <2>1, <2>3, <3>1, <1>2, TypesAssumption DEF Condition, Bumped
  <2> QED
    BY <2>2, <2>3
<1> QED
  BY <1>3, <1>4, <1>5

\* recomputeRootCondition asks for a well-formed condition.
LEMMA VerdictType ==
    ASSUME NEW cs \in Conds, NEW g
    PROVE  /\ Verdict(cs, g) \in Requests
           /\ Verdict(cs, g).status = "True" <=> Unhealthy(cs, g) = {}
           /\ Verdict(cs, g).reason # "AwaitingReconciliation" \/ Verdict(cs, g).status = "True"
<1>1. {<<d, cs[d].status>> : d \in Unhealthy(cs, g)} \in Messages
  <2>1. \A d \in Unhealthy(cs, g) : d \in Dependents /\ cs[d].status \in Status
    BY DEF Unhealthy, Conds, Condition, Types, Known
  <2> QED
    BY <2>1 DEF Messages
<1>2. Root \in AllReasons
  BY DEF AllReasons, Types, Known
<1>3. {} \in Messages
  BY DEF Messages
<1> QED
  BY <1>1, <1>2, <1>3 DEF Verdict, Request, Requests, Status, AllReasons

\* The verdict looks at nothing but the dependents.
LEMMA VerdictReads ==
    ASSUME NEW c1, NEW c2, NEW g, \A d \in Dependents : c1[d] = c2[d]
    PROVE  Verdict(c1, g) = Verdict(c2, g) /\ Unhealthy(c1, g) = Unhealthy(c2, g)
<1>1. Unhealthy(c1, g) = Unhealthy(c2, g)
  BY DEF Unhealthy
<1>2. \A d \in Unhealthy(c1, g) : c1[d] = c2[d]
  BY DEF Unhealthy
<1>3. {<<d, c1[d].status>> : d \in Unhealthy(c1, g)} = {<<d, c2[d].status>> : d \in Unhealthy(c2, g)}
  BY <1>1, <1>2
<1>4. (\E d \in Unhealthy(c1, g) : c1[d].status = "False" /\ c1[d].observedGeneration = g)
        <=> (\E d \in Unhealthy(c2, g) : c2[d].status = "False" /\ c2[d].observedGeneration = g)
  BY <1>1, <1>2
<1> QED
  BY <1>1, <1>3, <1>4 DEF Verdict, Request

\* Setting any type but the root leaves the stored list, with the root
\* overwritten by the verdict about it, or, when nothing changes, the old one.
LEMMA SetShape ==
    ASSUME generation \in Nat, now \in Nat, deleting \in BOOLEAN,
           NEW t \in Types \ {Root}, NEW cs \in Conds, NEW r \in Requests,
           Modifies(cs, t, r)
    PROVE  LET S == Store(cs, t, r)
           IN  Set(cs, t, r) =
                 [u \in Types |-> IF u = Root THEN Stamped(S, Root, Verdict(S, generation)) ELSE S[u]]
<1> DEFINE S == Store(cs, t, r)
           v == Verdict(S, generation)
           F == [u \in Types |-> IF u = Root THEN Stamped(S, Root, v) ELSE S[u]]
<1>0. Root \in Types
  BY DEF Types, Known
<1>1. S \in Conds /\ v \in Requests
  BY StoreType, VerdictType
<1>2. Set(cs, t, r) = SetOne(S, Root, v)
  BY DEF Set
<1>3. CASE ~Modifies(S, Root, v)
  <2>1. Stamped(S, Root, v) = S[Root]
    BY <1>3 DEF Modifies
  <2>2. S = F
    BY <1>0, <1>1, <2>1 DEF Conds
  <2> QED
    BY <1>2, <1>3, <2>2 DEF SetOne
<1>4. CASE Modifies(S, Root, v)
  <2>1. Set(cs, t, r) = Store(S, Root, v)
    BY <1>2, <1>4 DEF SetOne
  <2>2. ASSUME NEW u \in Types \ {Root}, deleting, S[u] # NoCondition
        PROVE  [S[u] EXCEPT !.observedGeneration = generation] = S[u]
    <3>1. S[u] \in Condition
      BY <1>1, <2>2 DEF Conds
    <3>2. S[u].observedGeneration = generation
      <4>1. CASE u = t
        <5>1. S[t] = Stamped(cs, t, r)
          BY StoreType
        <5> QED
          BY <4>1, <5>1 DEF Stamped
      <4>2. CASE u # t
        <5>1. Bumped(cs[u], S[u])
          BY <4>2, StoreType
        <5> QED
          BY <2>2, <5>1 DEF Bumped
      <4> QED
        BY <4>1, <4>2
    <3> QED
      BY <3>1, <3>2 DEF Condition
  <2>3. Store(S, Root, v) = F
    BY <2>2 DEF Store
  <2> QED
    BY <2>1, <2>3
<1> QED
  BY <1>3, <1>4

\* What a Set that modifies its type leaves behind.
LEMMA AfterSet ==
    ASSUME generation \in Nat, now \in Nat, deleting \in BOOLEAN,
           NEW t \in Types, NEW cs \in Conds, NEW r \in Requests, Modifies(cs, t, r)
    PROVE  LET new == Set(cs, t, r)
           IN  /\ new \in Conds
               /\ new[t] = Stamped(cs, t, r)
               /\ \A u \in Types \ {t, Root} : Bumped(cs[u], new[u])
               /\ new[Root] # NoCondition
               /\ new[Root].observedGeneration = generation
               /\ t # Root =>
                    \E S \in Conds :
                       /\ Bumped(cs[Root], S[Root])
                       /\ new[Root] = Stamped(S, Root, Verdict(new, generation))
<1> DEFINE new == Set(cs, t, r)
           S == Store(cs, t, r)
<1>0. Root \in Types
  BY DEF Types, Known
<1>1. S \in Conds /\ S[t] = Stamped(cs, t, r)
  BY StoreType
<1>2. \A u \in Types \ {t} : Bumped(cs[u], S[u])
  BY StoreType
<1>3. CASE t = Root
  <2>1. new = S
    BY <1>3 DEF Set, SetOne
  <2>2. new[Root] # NoCondition
    BY <1>1, <1>3, <2>1, StampedType
  <2>3. new[Root].observedGeneration = generation
    BY <1>1, <1>3, <2>1 DEF Stamped
  <2> QED
    BY <1>1, <1>2, <1>3, <2>1, <2>2, <2>3
<1>4. CASE t # Root
  <2> DEFINE v == Verdict(S, generation)
  <2>1. new = [u \in Types |-> IF u = Root THEN Stamped(S, Root, v) ELSE S[u]]
    BY <1>4, SetShape
  <2>2. v \in Requests
    BY <1>1, VerdictType
  <2>3. Stamped(S, Root, v) \in Condition /\ Stamped(S, Root, v) # NoCondition
    BY <1>0, <1>1, <2>2, StampedType
  <2>4. new \in Conds
    BY <1>1, <2>1, <2>3 DEF Conds
  <2>5. new[Root] = Stamped(S, Root, v) /\ \A u \in Types \ {Root} : new[u] = S[u]
    BY <1>0, <2>1
  <2>6. v = Verdict(new, generation)
    <3>1. \A d \in Dependents : S[d] = new[d]
      BY <2>5, TypesAssumption DEF Types, Known
    <3> QED
      BY <3>1, VerdictReads
  <2>7. new[Root].observedGeneration = generation
    BY <2>5 DEF Stamped
  <2>8. Bumped(cs[Root], S[Root])
    BY <1>0, <1>2, <1>4
  <2>9. \E S1 \in Conds :
           /\ Bumped(cs[Root], S1[Root])
           /\ new[Root] = Stamped(S1, Root, Verdict(new, generation))
    BY <1>1, <2>5, <2>6, <2>8
  <2> QED
    BY <1>1, <1>2, <1>4, <2>3, <2>4, <2>5, <2>7, <2>9
<1> QED
  BY <1>3, <1>4

\* A Set that modifies nothing finds its type in the list and changes nothing.
LEMMA IdleSet ==
    ASSUME generation \in Nat, now \in Nat,
           NEW t \in Types, NEW cs \in Conds, NEW r \in Requests, ~Modifies(cs, t, r)
    PROVE  Set(cs, t, r) = cs /\ cs[t] # NoCondition
<1>1. Stamped(cs, t, r) # NoCondition
  BY StampedType
<1> QED
  BY <1>1 DEF Set, SetOne, Modifies

-----------------------------------------------------------------------------
(* The type invariant.                                                     *)

\* Set keeps the list well formed and stamps nothing from the future.
LEMMA SetType ==
    ASSUME TypeOK, NEW t \in Types, NEW r \in Requests,
           conds' = Set(conds, t, r), UNCHANGED <<generation, deleting, now>>
    PROVE  /\ conds' \in Conds
           /\ \A u \in Present(conds)' :
                 /\ conds'[u].observedGeneration <= generation
                 /\ conds'[u].lastTransitionTime <= now
<1> DEFINE Past(cs) == \A u \in Types : cs[u] # NoCondition =>
                           /\ cs[u].observedGeneration <= generation
                           /\ cs[u].lastTransitionTime <= now
<1>1. conds \in Conds /\ Past(conds) /\ generation \in Nat /\ now \in Nat /\ deleting \in BOOLEAN
  BY DEF TypeOK, Conds, Present
<1>2. Root \in Types
  BY DEF Types, Known
<1>3. ASSUME NEW cs \in Conds, Past(cs), NEW u \in Types, NEW q \in Requests
      PROVE  SetOne(cs, u, q) \in Conds /\ Past(SetOne(cs, u, q))
  <2> DEFINE S == Store(cs, u, q)
  <2>1. S \in Conds
    BY <1>1, StoreType
  <2>2. /\ Stamped(cs, u, q).observedGeneration = generation
        /\ Stamped(cs, u, q).lastTransitionTime <= now
    BY <1>1, <1>3 DEF Stamped, CreationTimestamp, Conds, Condition
  <2>3. ASSUME NEW w \in Types, S[w] # NoCondition
        PROVE  S[w].observedGeneration <= generation /\ S[w].lastTransitionTime <= now
    <3>1. CASE w = u
      <4>1. S[w] = Stamped(cs, u, q)
        BY <1>1, <3>1, StoreType
      <4> QED
        BY <1>1, <2>2, <4>1
    <3>2. CASE w # u
      <4>1. Bumped(cs[w], S[w])
        BY <1>1, <3>2, StoreType
      <4> QED
        BY <1>1, <1>3, <2>3, <4>1 DEF Bumped
    <3> QED
      BY <3>1, <3>2
  <2> QED
    BY <1>3, <2>1, <2>3 DEF SetOne
<1>4. Set(conds, t, r) \in Conds /\ Past(Set(conds, t, r))
  <2>1. CASE Modifies(conds, t, r) /\ t # Root
    <3> DEFINE S == Store(conds, t, r)
    <3>1. S = SetOne(conds, t, r)
      BY <2>1 DEF SetOne
    <3>2. S \in Conds /\ Past(S)
      BY <1>1, <1>3, <3>1
    <3>3. Verdict(S, generation) \in Requests
      BY <3>2, VerdictType
    <3>4. Set(conds, t, r) = SetOne(S, Root, Verdict(S, generation))
      BY <2>1 DEF Set
    <3> QED
      BY <1>2, <1>3, <3>2, <3>3, <3>4
  <2>2. CASE ~(Modifies(conds, t, r) /\ t # Root)
    <3>1. Set(conds, t, r) = SetOne(conds, t, r)
      BY <2>2 DEF Set
    <3> QED
      BY <1>1, <1>3, <3>1
  <2> QED
    BY <2>1, <2>2
<1> QED
  BY <1>4 DEF Present

\* The list that Clear leaves: without t, by name.
ByName(ord, t) == StableSort(ord, Others(ord, t), LAMBDA a, b : TypeRank[a] < TypeRank[b])

\* A step of For or of operator code that touches the conditions is a Set of
\* a type with a well-formed request, or a Clear of an independent type.
LEMMA StepShape ==
    ASSUME TypeOK, Next
    PROVE  \/ /\ UNCHANGED <<conds, order>>
              /\ todo' \in SUBSET Known
              /\ deleting' \in BOOLEAN
              /\ generation' \in Nat /\ generation' >= generation
              /\ now' \in Nat /\ now' >= now
              /\ UNCHANGED <<generation, deleting>> \/ generation' > generation
              /\ todo' = todo \/ (todo = {} /\ todo' = Known)
                    \/ (\E t \in todo : conds[t] # NoCondition /\ todo' = todo \ {t}
                                          /\ (Root \in todo => t = Root))
           \/ \E t \in Types, r \in Requests :
                 /\ conds' = Set(conds, t, r)
                 /\ order' = SetOrder(order, conds, t, r)
                 /\ UNCHANGED <<generation, deleting, now>>
                 /\ \/ HasConditionSet /\ t \in Settable /\ UNCHANGED todo
                    \/ /\ t \in todo /\ conds[t] = NoCondition /\ todo' = todo \ {t}
                       /\ Root \in todo => t = Root
                       /\ r = Request("Unknown", "AwaitingReconciliation", {})
           \/ \E t \in Independents :
                 /\ HasConditionSet
                 /\ conds' = [conds EXCEPT ![t] = NoCondition]
                 /\ order' = ByName(order, t)
                 /\ UNCHANGED <<todo, generation, deleting, now>>
<1>1. \A s \in Status, x \in AllReasons : Request(s, x, {}) \in Requests
  BY DEF Request, Requests, Messages
<1>2. CASE StatusConditions
  BY <1>2 DEF StatusConditions, TypeOK
<1>3. CASE ForNext
  <2>1. PICK t \in todo :
            /\ Root \in todo => t = Root
            /\ todo' = todo \ {t}
            /\ IF conds[t] = NoCondition
               THEN DoSet(t, "Unknown", "AwaitingReconciliation")
               ELSE UNCHANGED <<conds, order>>
            /\ UNCHANGED <<generation, deleting, now>>
    BY <1>3 DEF ForNext
  <2>2. t \in Types
    BY DEF TypeOK, Types
  <2>3. CASE conds[t] = NoCondition
    <3>1. Request("Unknown", "AwaitingReconciliation", {}) \in Requests
      BY <1>1 DEF Status, AllReasons
    <3>2. /\ conds' = Set(conds, t, Request("Unknown", "AwaitingReconciliation", {}))
          /\ order' = SetOrder(order, conds, t, Request("Unknown", "AwaitingReconciliation", {}))
      BY <2>1, <2>3 DEF DoSet
    <3> QED
      BY <2>1, <2>2, <2>3, <3>1, <3>2
  <2>4. CASE conds[t] # NoCondition
    BY <2>1, <2>4 DEF TypeOK
  <2> QED
    BY <2>3, <2>4
<1>4. ASSUME NEW t \in Settable, NEW s \in Status, NEW x \in AllReasons,
             HasConditionSet, DoSet(t, s, x), UNCHANGED <<todo, generation, deleting, now>>
      PROVE  \E u \in Types, r \in Requests :
                 /\ conds' = Set(conds, u, r)
                 /\ order' = SetOrder(order, conds, u, r)
                 /\ UNCHANGED <<generation, deleting, now>>
                 /\ HasConditionSet /\ u \in Settable /\ UNCHANGED todo
  BY <1>1, <1>4, TypesAssumption DEF DoSet
<1>5. ASSUME NEW t \in Settable, SetTrue(t) \/ SetUnknown(t)
      PROVE  \E s \in Status, x \in AllReasons :
                HasConditionSet /\ DoSet(t, s, x) /\ UNCHANGED <<todo, generation, deleting, now>>
  <2>1. t \in AllReasons
    BY TypesAssumption DEF AllReasons
  <2> QED
    BY <1>5, <2>1 DEF SetTrue, SetTrueWithReason, SetUnknown, SetUnknownWithReason, Status, AllReasons
<1>6. ASSUME NEW t \in Settable, NEW x \in Reasons,
             SetTrueWithReason(t, x) \/ SetUnknownWithReason(t, x) \/ SetFalse(t, x)
      PROVE  \E s \in Status, y \in AllReasons :
                HasConditionSet /\ DoSet(t, s, y) /\ UNCHANGED <<todo, generation, deleting, now>>
  <2>1. x \in AllReasons
    BY DEF AllReasons
  <2> QED
    BY <1>6, <2>1 DEF SetTrueWithReason, SetUnknownWithReason, SetFalse, Status
<1>7. ASSUME NEW t \in Settable, Clear(t)
      PROVE  /\ t \in Independents
             /\ HasConditionSet
             /\ conds' = [conds EXCEPT ![t] = NoCondition]
             /\ order' = ByName(order, t)
             /\ UNCHANGED <<todo, generation, deleting, now>>
  BY <1>7, TypesAssumption DEF ByName, Clear, IsDependentCondition, Types
<1>8. CASE UpdateSpec
  BY <1>8 DEF UpdateSpec, TypeOK
<1>9. CASE Delete
  <2>1. deleting' \in BOOLEAN
    BY <1>9 DEF Delete
  <2>2. /\ UNCHANGED <<conds, order, todo, now>>
        /\ generation' \in Nat /\ generation' > generation
    BY <1>9 DEF Delete, TypeOK
  <2>3. todo \in SUBSET Known /\ now \in Nat /\ now >= now /\ generation' >= generation
    BY <2>2 DEF TypeOK
  <2> QED
    BY <2>1, <2>2, <2>3
<1>10. CASE Tick
  BY <1>10 DEF Tick, TypeOK
<1> QED
  BY <1>2, <1>3, <1>4, <1>5, <1>6, <1>7, <1>8, <1>9, <1>10 DEF Next

\* A step that changes no condition moves the world, or the loop of For over
\* a type that is already there.
LEMMA StepShapeIdle ==
    ASSUME TypeOK, Next, UNCHANGED conds
    PROVE  /\ UNCHANGED <<generation, deleting>> \/ generation' > generation
           /\ \/ todo' = todo
              \/ todo = {} /\ todo' = Known
              \/ \E t \in todo : conds[t] # NoCondition /\ todo' = todo \ {t} /\ (Root \in todo => t = Root)
<1>1. ASSUME NEW t \in Types, NEW r \in Requests, conds' = Set(conds, t, r), conds[t] = NoCondition
      PROVE  FALSE
  <2>1. Set(conds, t, r)[t] # NoCondition
    <3>1. conds \in Conds /\ generation \in Nat /\ now \in Nat /\ deleting \in BOOLEAN
      BY DEF TypeOK, Conds
    <3>2. CASE Modifies(conds, t, r)
      BY <3>1, <3>2, AfterSet, StampedType
    <3>3. CASE ~Modifies(conds, t, r)
      BY <3>1, <3>3, IdleSet
    <3> QED
      BY <3>2, <3>3
  <2> QED
    BY <1>1, <2>1
<1> QED
  BY <1>1, StepShape

\* TypeOK is inductive on its own.
LEMMA TypeStep ==
    ASSUME TypeOK, [Next]_vars
    PROVE  TypeOK'
<1>1. CASE UNCHANGED vars
  BY <1>1 DEF vars, TypeOK, Present
<1>2. CASE Next
  <2>1. CASE UNCHANGED conds
    <3>1. generation' \in Nat /\ generation' >= generation /\ now' \in Nat /\ now' >= now
          /\ todo' \in SUBSET Known /\ deleting' \in BOOLEAN
      BY <1>2, <2>1, StepShape DEF TypeOK
    <3> QED
      BY <2>1, <3>1 DEF TypeOK, Present, Condition
  <2>2. ASSUME NEW t \in Types, NEW r \in Requests, conds' = Set(conds, t, r),
               UNCHANGED <<generation, deleting, now>>, todo' \subseteq todo
        PROVE  TypeOK'
    <3>1. /\ conds' \in Conds
          /\ \A u \in Present(conds)' :
                 /\ conds'[u].observedGeneration <= generation
                 /\ conds'[u].lastTransitionTime <= now
      BY <2>2, SetType
    <3> QED
      BY <2>2, <3>1 DEF TypeOK, Conds
  <2>3. ASSUME NEW t \in Independents, conds' = [conds EXCEPT ![t] = NoCondition],
               UNCHANGED <<todo, generation, deleting, now>>
        PROVE  TypeOK'
    BY <2>3 DEF TypeOK, Present
  <2> QED
    BY <1>2, <2>1, <2>2, <2>3, StepShape
<1> QED
  BY <1>1, <1>2

\* Type correctness, for every choice of the constants: no operation of a
\* ConditionSet leaves a condition from a future generation or a future time.
THEOREM TypeCorrect == Spec => []TypeOK
<1>1. Init => TypeOK
  <2> SUFFICES ASSUME Init PROVE TypeOK
    OBVIOUS
  <2>1. Present(conds) = {}
    BY DEF Init, Present
  <2> QED
    BY <2>1 DEF Init, TypeOK
<1>2. TypeOK /\ [Next]_vars => TypeOK'
  BY TypeStep
<1> QED
  BY <1>1, <1>2, PTL DEF Spec

-----------------------------------------------------------------------------
(* The safety invariant.                                                   *)

\* While For has not reached the root nothing else is visited.
RootVisitedFirst == todo # {} /\ conds[Root] = NoCondition => todo = Known

\* The inductive invariant that needs nothing of operator code.
Freshness ==
    /\ TypeOK
    /\ RootIsFreshest
    /\ DeletionBumpsTogether
    /\ KnownStayPresent
    /\ RootVisitedFirst

\* A Set happens only in a list that holds the root, or sets the root.
LEMMA RootPresent ==
    ASSUME Freshness, NEW t \in Types,
           HasConditionSet \/ (t \in todo /\ (Root \in todo => t = Root))
    PROVE  t = Root \/ conds[Root] # NoCondition
BY DEF Freshness, RootVisitedFirst, HasConditionSet, Present, Known, Types

\* Freshness is inductive.
LEMMA FreshnessStep ==
    ASSUME Freshness, [Next]_vars
    PROVE  Freshness'
<1>0. /\ TypeOK /\ TypeOK' /\ Root \in Types /\ conds \in Conds
      /\ generation \in Nat /\ now \in Nat /\ deleting \in BOOLEAN
  BY TypeStep DEF Freshness, Types, Known, TypeOK, Conds
<1> USE <1>0
<1>1. CASE UNCHANGED vars
  BY <1>1 DEF vars, Freshness, RootIsFreshest, DeletionBumpsTogether, KnownStayPresent,
              RootVisitedFirst, Present
<1>2. CASE UNCHANGED conds /\ Next
  <2>1. /\ UNCHANGED <<generation, deleting>> \/ generation' > generation
        /\ \/ todo' = todo
           \/ todo = {} /\ todo' = Known
           \/ \E t \in todo : conds[t] # NoCondition /\ todo' = todo \ {t} /\ (Root \in todo => t = Root)
    BY <1>2, StepShapeIdle
  <2>2. RootIsFreshest'
    BY <1>2 DEF Freshness, RootIsFreshest, Present
  <2>3. DeletionBumpsTogether'
    <3>1. CASE UNCHANGED <<generation, deleting>>
      BY <1>2, <3>1 DEF Freshness, DeletionBumpsTogether, Present
    <3>2. CASE generation' > generation
      <4>1. \A t \in Present(conds) : conds[t].observedGeneration <= generation
                                      /\ conds[t].observedGeneration \in Nat
        BY DEF TypeOK, Present, Condition
      <4>2. generation' \in Nat
        BY DEF TypeOK
      <4> QED
        BY <1>2, <3>2, <4>1, <4>2 DEF DeletionBumpsTogether, Present
    <3> QED
      BY <2>1, <3>1, <3>2
  <2>4. KnownStayPresent'
    BY <1>2, <2>1 DEF Freshness, KnownStayPresent, Present, Types
  <2>5. RootVisitedFirst'
    BY <1>2, <2>1 DEF Freshness, RootVisitedFirst, Known
  <2> QED
    BY <2>2, <2>3, <2>4, <2>5 DEF Freshness
<1>3. ASSUME NEW t \in Types, NEW r \in Requests, conds' = Set(conds, t, r), Modifies(conds, t, r),
             UNCHANGED <<generation, deleting, now>>,
             \/ HasConditionSet /\ UNCHANGED todo
             \/ t \in todo /\ todo' = todo \ {t} /\ (Root \in todo => t = Root)
      PROVE  Freshness'
  <2>1. /\ conds'[t] = Stamped(conds, t, r)
        /\ \A u \in Types \ {t, Root} : Bumped(conds[u], conds'[u])
        /\ conds'[Root] # NoCondition
        /\ conds'[Root].observedGeneration = generation
    BY <1>3, AfterSet
  <2>2. conds'[t] # NoCondition /\ conds'[t].observedGeneration = generation
    <3>1. Stamped(conds, t, r) # NoCondition
      BY StampedType
    <3> QED
      BY <2>1, <3>1 DEF Stamped
  <2>3. RootIsFreshest'
    BY <1>3, <2>1 DEF TypeOK, RootIsFreshest, Present
  <2>4. DeletionBumpsTogether'
    <3>1. ASSUME deleting, NEW u \in Types, conds'[u] # NoCondition
          PROVE  conds'[u].observedGeneration = generation
      <4>1. CASE u \in {t, Root}
        BY <2>1, <2>2, <4>1
      <4>2. CASE u \notin {t, Root}
        <5>1. Bumped(conds[u], conds'[u])
          BY <2>1, <4>2
        <5> QED
          BY <3>1, <5>1 DEF Bumped
      <4> QED
        BY <4>1, <4>2
    <3> QED
      BY <1>3, <3>1 DEF DeletionBumpsTogether, Present
  <2>5. KnownStayPresent'
    <3>1. ASSUME NEW u \in Known \ todo'
          PROVE  conds'[u] # NoCondition
      <4>1. CASE u \in {t, Root}
        BY <2>1, <2>2, <4>1
      <4>2. CASE u \notin {t, Root}
        <5>1. u \in Types \ {t, Root} /\ u \notin todo
          BY <1>3, <3>1, <4>2 DEF Types
        <5>2. t # Root \/ todo' # Known \ {Root}
          BY <3>1, <4>2
        <5>3. conds[Root] # NoCondition
          BY <1>3, <3>1, <4>2, <5>1, RootPresent DEF Freshness, RootVisitedFirst, HasConditionSet, Present, Known, Types
        <5>4. conds[u] # NoCondition
          BY <3>1, <5>1, <5>3 DEF Freshness, KnownStayPresent, Present
        <5> QED
          BY <2>1, <5>1, <5>4 DEF Bumped
      <4> QED
        BY <4>1, <4>2
    <3> QED
      BY <3>1 DEF KnownStayPresent, Present, Types
  <2>6. RootVisitedFirst'
    BY <2>1 DEF RootVisitedFirst
  <2> QED
    BY <2>3, <2>4, <2>5, <2>6 DEF Freshness
<1>4. ASSUME NEW t \in Independents, HasConditionSet, conds' = [conds EXCEPT ![t] = NoCondition],
             UNCHANGED <<todo, generation, deleting, now>>
      PROVE  Freshness'
  <2>1. t \notin Known /\ t \in Types
    BY TypesAssumption DEF Types
  <2>2. conds'[t] = NoCondition /\ \A u \in Types \ {t} : conds'[u] = conds[u]
    BY <1>4, <2>1 DEF Conds
  <2>3. Root # t
    BY <2>1 DEF Known
  <2>4. RootIsFreshest'
    BY <2>2, <2>3 DEF Freshness, RootIsFreshest, Present
  <2>5. DeletionBumpsTogether'
    BY <1>4, <2>2 DEF Freshness, DeletionBumpsTogether, Present
  <2>6. KnownStayPresent'
    BY <1>4, <2>1, <2>2, <2>3 DEF Freshness, KnownStayPresent, Present, Types
  <2>7. RootVisitedFirst'
    BY <1>4 DEF RootVisitedFirst, HasConditionSet
  <2> QED
    BY <2>4, <2>5, <2>6, <2>7 DEF Freshness
<1>5. ASSUME NEW t \in Types, NEW r \in Requests, conds' = Set(conds, t, r), ~Modifies(conds, t, r)
      PROVE  UNCHANGED conds
  BY <1>5, IdleSet
<1> QED
  BY <1>1, <1>2, <1>3, <1>4, <1>5, StepShape

\* Freshness holds of an object without conditions.
LEMMA FreshnessInit == Init => Freshness
<1> SUFFICES ASSUME Init PROVE Freshness
  OBVIOUS
<1>1. Present(conds) = {} /\ Root \in Types
  BY DEF Init, Present, Types, Known
<1>2. TypeOK
  BY <1>1 DEF Init, TypeOK
<1>3. RootIsFreshest /\ KnownStayPresent /\ DeletionBumpsTogether
  BY <1>1 DEF RootIsFreshest, KnownStayPresent, DeletionBumpsTogether
<1>4. RootVisitedFirst
  BY DEF Init, RootVisitedFirst
<1> QED
  BY <1>2, <1>3, <1>4 DEF Freshness

\* Freshness is an invariant.
LEMMA FreshnessHolds == Spec => []Freshness
<1>1. Init => Freshness
  BY FreshnessInit
<1>2. Freshness /\ [Next]_vars => Freshness'
  BY FreshnessStep
<1> QED
  BY <1>1, <1>2, PTL DEF Spec

\* The root is never behind any other condition, even where operator code
\* writes the root itself: Set always stamps the root last.
THEOREM RootFreshness == Spec => []RootIsFreshest
<1>1. Freshness => RootIsFreshest
  BY DEF Freshness
<1> QED
  BY <1>1, FreshnessHolds, PTL

\* The observed generations of a deleting object move together, through the
\* early return of Set, spec updates and repeated deletes.
THEOREM DeletionBump == Spec => []DeletionBumpsTogether
<1>1. Freshness => DeletionBumpsTogether
  BY DEF Freshness
<1> QED
  BY <1>1, FreshnessHolds, PTL

\* Once For has filled them in, the known types never leave the list.
THEOREM KnownPresence == Spec => []KnownStayPresent
<1>1. Freshness => KnownStayPresent
  BY DEF Freshness
<1> QED
  BY <1>1, FreshnessHolds, PTL

-----------------------------------------------------------------------------
(* The root means what its dependents mean.                                *)

\* The invariant that holds while nobody but this package writes the root.
RootIsDerived ==
    /\ Freshness
    /\ RootMatchesDependents
    /\ ReadySinceDependentsReady

\* RootIsDerived is inductive where operator code leaves the root alone.
LEMMA RootIsDerivedStep ==
    ASSUME RootDerived, RootIsDerived, [Next]_vars
    PROVE  RootIsDerived'
<1>0. /\ TypeOK /\ TypeOK' /\ Root \in Types /\ conds \in Conds /\ Freshness
      /\ generation \in Nat /\ now \in Nat /\ deleting \in BOOLEAN
      /\ Dependents \subseteq Types /\ Root \notin Dependents
  BY TypeStep, TypesAssumption DEF RootIsDerived, Freshness, Types, Known, TypeOK, Conds
<1> USE <1>0
<1>1. Freshness'
  BY FreshnessStep
<1>2. CASE UNCHANGED conds
  BY <1>1, <1>2 DEF RootIsDerived, RootMatchesDependents, ReadySinceDependentsReady, Present
<1>3. ASSUME NEW t \in Types \ {Root}, NEW r \in Requests, conds' = Set(conds, t, r),
             Modifies(conds, t, r), UNCHANGED <<generation, now>>, conds[Root] # NoCondition
      PROVE  RootIsDerived'
  <2> DEFINE v == Verdict(conds', generation)
  <2>1. /\ conds' \in Conds
        /\ conds'[t] = Stamped(conds, t, r)
        /\ \A u \in Types \ {t, Root} : Bumped(conds[u], conds'[u])
        /\ conds'[Root].observedGeneration = generation
    BY <1>3, AfterSet
  <2>2. PICK S \in Conds : Bumped(conds[Root], S[Root]) /\ conds'[Root] = Stamped(S, Root, v)
    BY <1>3, AfterSet
  <2>3. RootMatchesDependents'
    BY <2>1, <2>2 DEF RootMatchesDependents, Stamped
  <2>4. ASSUME conds'[Root].status = "True",
               NEW d \in Dependents, conds'[d] # NoCondition
        PROVE  conds'[d].lastTransitionTime <= conds'[Root].lastTransitionTime
    <3>1. v.status = "True"
      BY <2>2, <2>4 DEF Stamped
    <3>2. conds'[d].status = "True"
      <4>1. Unhealthy(conds', generation) = {}
        BY <2>1, <3>1, VerdictType
      <4>2. conds'[d].status \in Status
        BY <2>1, <2>4 DEF Conds, Condition
      <4> QED
        BY <2>4, <4>1, <4>2 DEF Unhealthy, Status
    <3>3. S[Root] # NoCondition /\ S[Root].status = conds[Root].status
          /\ S[Root].lastTransitionTime = conds[Root].lastTransitionTime
      BY <1>3, <2>2 DEF Bumped
    <3>4. CASE conds[Root].status # "True"
      <4>1. conds'[Root].lastTransitionTime = now
        BY <2>2, <3>1, <3>3, <3>4 DEF Stamped
      <4> QED
        BY <1>3, <2>4, <4>1 DEF TypeOK, Present
    <3>5. CASE conds[Root].status = "True"
      <4>1. conds'[Root].lastTransitionTime = conds[Root].lastTransitionTime
        BY <2>2, <3>1, <3>3, <3>5 DEF Stamped
      <4>2. conds[Root].lastTransitionTime \in Nat
        BY <1>3 DEF Conds, Condition
      <4>3. \A e \in Dependents : conds[e] # NoCondition =>
                /\ conds[e].status = "True"
                /\ conds[e].lastTransitionTime <= conds[Root].lastTransitionTime
        <5>1. \A e \in Dependents : conds[e] # NoCondition => conds[e].status \in Status
          BY DEF Conds, Condition
        <5>2. Unhealthy(conds, conds[Root].observedGeneration) = {}
          BY <1>3, <3>5, VerdictType DEF RootIsDerived, RootMatchesDependents, Awaiting, Present
        <5>3. \A e \in Dependents : conds[e] # NoCondition => conds[e].status = "True"
          BY <5>1, <5>2 DEF Unhealthy, Status
        <5> QED
          BY <1>3, <3>5, <5>3 DEF RootIsDerived, ReadySinceDependentsReady, Present
      <4>4. CASE d # t
        <5>1. Bumped(conds[d], conds'[d])
          BY <2>1, <4>4
        <5> QED
          BY <2>4, <4>1, <4>3, <5>1 DEF Bumped
      <4>5. CASE d = t
        <5>1. CASE conds[d] = NoCondition
          <6>1. conds'[d].lastTransitionTime = 0
            BY <2>1, <4>5, <5>1 DEF Stamped, IsDependentCondition, Known, CreationTimestamp
          <6> QED
            BY <4>1, <4>2, <6>1
        <5>2. CASE conds[d] # NoCondition
          <6>1. conds'[d].lastTransitionTime = conds[d].lastTransitionTime
            BY <2>1, <3>2, <4>3, <4>5, <5>2 DEF Stamped
          <6> QED
            BY <4>1, <4>3, <5>2, <6>1
        <5> QED
          BY <5>1, <5>2
      <4> QED
        BY <4>4, <4>5
    <3> QED
      BY <3>4, <3>5
  <2> QED
    BY <1>1, <2>3, <2>4 DEF RootIsDerived, ReadySinceDependentsReady, Present
<1>4. ASSUME NEW r \in Requests, r = Request("Unknown", "AwaitingReconciliation", {}),
             conds' = Set(conds, Root, r), Modifies(conds, Root, r), conds[Root] = NoCondition
      PROVE  RootIsDerived'
  <2>1. /\ conds'[Root] = Stamped(conds, Root, r)
        /\ \A u \in Types \ {Root} : Bumped(conds[u], conds'[u])
    BY <1>4, AfterSet
  <2>2. \A u \in Types : conds[u] = NoCondition
    BY <1>4 DEF Freshness, RootIsFreshest, Present
  <2>3. Dependents \cap Present(conds)' = {}
    BY <2>1, <2>2 DEF Bumped, Present
  <2>4. Awaiting(conds'[Root])
    BY <1>4, <2>1 DEF Stamped, Awaiting, Request
  <2> QED
    BY <1>1, <2>3, <2>4 DEF RootIsDerived, RootMatchesDependents, ReadySinceDependentsReady
<1>5. ASSUME NEW t \in Independents, conds' = [conds EXCEPT ![t] = NoCondition]
      PROVE  RootIsDerived'
  <2>1. t \in Types /\ t # Root /\ t \notin Dependents
    BY TypesAssumption DEF Types, Known
  <2>2. \A u \in Types \ {t} : conds'[u] = conds[u]
    BY <1>5 DEF Conds
  <2>3. conds'[Root] = conds[Root] /\ \A d \in Dependents : conds[d] = conds'[d]
    BY <2>1, <2>2
  <2>4. Verdict(conds', conds[Root].observedGeneration) = Verdict(conds, conds[Root].observedGeneration)
    BY <2>3, VerdictReads
  <2>5. Dependents \cap Present(conds)' = Dependents \cap Present(conds)
        /\ (Root \in Present(conds)' <=> Root \in Present(conds))
    BY <2>3 DEF Present
  <2>6. RootMatchesDependents'
    BY <2>3, <2>4, <2>5 DEF RootIsDerived, RootMatchesDependents
  <2>7. ReadySinceDependentsReady'
    BY <2>3, <2>5 DEF RootIsDerived, ReadySinceDependentsReady
  <2> QED
    BY <1>1, <2>6, <2>7 DEF RootIsDerived
<1>6. ASSUME NEW t \in Types, NEW r \in Requests, conds' = Set(conds, t, r),
             UNCHANGED <<generation, deleting, now>>,
             \/ HasConditionSet /\ t \in Settable /\ UNCHANGED todo
             \/ /\ t \in todo /\ conds[t] = NoCondition /\ todo' = todo \ {t}
                /\ Root \in todo => t = Root
                /\ r = Request("Unknown", "AwaitingReconciliation", {})
      PROVE  RootIsDerived'
  <2>1. CASE ~Modifies(conds, t, r)
    BY <1>2, <1>6, <2>1, IdleSet
  <2>2. CASE Modifies(conds, t, r) /\ t # Root
    <3>1. conds[Root] # NoCondition
      BY <1>6, <2>2, RootPresent
    <3> QED
      BY <1>3, <1>6, <2>2, <3>1
  <2>3. CASE Modifies(conds, t, r) /\ t = Root
    BY <1>4, <1>6, <2>3 DEF RootDerived
  <2> QED
    BY <2>1, <2>2, <2>3
<1>7. CASE UNCHANGED vars
  BY <1>2, <1>7 DEF vars
<1> QED
  BY <1>2, <1>5, <1>6, <1>7, StepShape

\* RootIsDerived is an invariant where operator code leaves the root alone.
LEMMA RootIsDerivedHolds == RootDerived => (Spec => []RootIsDerived)
<1> SUFFICES ASSUME RootDerived PROVE Spec => []RootIsDerived
  OBVIOUS
<1>1. Init => RootIsDerived
  <2>1. Init => conds[Root] = NoCondition
    BY DEF Init, Types, Known
  <2> QED
    BY <2>1, FreshnessInit DEF RootIsDerived, RootMatchesDependents, ReadySinceDependentsReady, Present
<1>2. RootIsDerived /\ [Next]_vars => RootIsDerived'
  BY RootIsDerivedStep
<1> QED
  BY <1>1, <1>2, PTL DEF Spec

\* While operator code leaves the root alone, the root's status, reason and
\* message are exactly the verdict about its dependents at the generation the
\* root observed: for any set of types and any interleaving of setters.
THEOREM RootVerdict == RootDerived => (Spec => []RootMatchesDependents)
<1>1. RootIsDerived => RootMatchesDependents
  BY DEF RootIsDerived
<1> QED
  BY <1>1, RootIsDerivedHolds, PTL

\* The root has not been True for longer than any of its dependents.
THEOREM RootSince == RootDerived => (Spec => []ReadySinceDependentsReady)
<1>1. RootIsDerived => ReadySinceDependentsReady
  BY DEF RootIsDerived
<1> QED
  BY <1>1, RootIsDerivedHolds, PTL

\* Ready for the current spec means: every dependent is.
THEOREM ReadyMeansReady == RootDerived => (Spec => []ReadyIffDependentsReady)
<1>1. ASSUME RootIsDerived PROVE ReadyIffDependentsReady
  <2> SUFFICES ASSUME HasConditionSet, Dependents # {}
               PROVE  (conds[Root].status = "True" /\ conds[Root].observedGeneration = generation)
                  <=> \A d \in Dependents :
                        conds[d].status = "True" /\ conds[d].observedGeneration = generation
    BY DEF ReadyIffDependentsReady
  <2>1. /\ conds \in Conds /\ generation \in Nat
        /\ \A t \in Known : t \in Types /\ conds[t] \in Condition /\ conds[t] # NoCondition
    BY <1>1 DEF RootIsDerived, Freshness, TypeOK, HasConditionSet, Present, Conds, Types
  <2>2. Root \in Known /\ Dependents \subseteq Known
    BY DEF Known
  <2>3. LET v == Verdict(conds, conds[Root].observedGeneration)
        IN  conds[Root].status = v.status
    BY <1>1, <2>1, <2>2 DEF RootIsDerived, RootMatchesDependents, Present
  <2>4. conds[Root].status = "True" <=> Unhealthy(conds, conds[Root].observedGeneration) = {}
    BY <2>1, <2>3, VerdictType
  <2>5. \A d \in Dependents : conds[d].status \in Status
    BY <2>1, <2>2 DEF Condition
  <2>6. \A g : Unhealthy(conds, g) = {} <=>
            \A d \in Dependents : conds[d].status = "True" /\ conds[d].observedGeneration = g
    BY <2>1, <2>2, <2>5 DEF Unhealthy, Status
  <2>7. ASSUME \A d \in Dependents : conds[d].status = "True" /\ conds[d].observedGeneration = generation
        PROVE  conds[Root].observedGeneration = generation
    <3>1. PICK d \in Dependents : TRUE
      OBVIOUS
    <3>2. /\ generation <= conds[Root].observedGeneration
          /\ conds[Root].observedGeneration <= generation
          /\ conds[Root].observedGeneration \in Nat
      BY <1>1, <2>1, <2>2, <2>7 DEF RootIsDerived, Freshness, RootIsFreshest, TypeOK, Present, Condition
    <3> QED
      BY <2>1, <3>2
  <2> QED
    BY <2>4, <2>6, <2>7
<1> QED
  BY <1>1, RootIsDerivedHolds, PTL

\* No step rewinds a generation or a transition time, and a transition time
\* moves exactly when the status does.
THEOREM Forward == Spec => NeverRewinds
<1> DEFINE Moves(old, new) ==
              /\ new.observedGeneration >= old.observedGeneration
              /\ IF new.status = old.status
                 THEN new.lastTransitionTime = old.lastTransitionTime
                 ELSE new.lastTransitionTime = now
           Steps == \A t \in Present(conds) \cap Present(conds)' : Moves(conds[t], conds'[t])
<1>1. ASSUME TypeOK, Next PROVE Steps
  <2>0. /\ conds \in Conds /\ generation \in Nat /\ now \in Nat /\ deleting \in BOOLEAN
        /\ \A u \in Present(conds) : conds[u] \in Condition /\ conds[u].observedGeneration <= generation
    BY <1>1 DEF TypeOK, Conds, Present
  <2>1. CASE UNCHANGED conds
    BY <2>0, <2>1 DEF Condition, Present
  <2>2. ASSUME NEW t \in Types, NEW r \in Requests, conds' = Set(conds, t, r), Modifies(conds, t, r)
        PROVE  Steps
    <3>1. /\ conds'[t] = Stamped(conds, t, r)
          /\ \A u \in Types \ {t, Root} : Bumped(conds[u], conds'[u])
          /\ t # Root => \E S \in Conds :
                           /\ Bumped(conds[Root], S[Root])
                           /\ conds'[Root] = Stamped(S, Root, Verdict(conds', generation))
      BY <2>0, <2>2, AfterSet
    <3>2. SUFFICES ASSUME NEW u \in Present(conds) PROVE Moves(conds[u], conds'[u])
      OBVIOUS
    <3>3. u \in Types /\ conds[u] # NoCondition /\ conds[u] \in Condition
          /\ conds[u].observedGeneration \in Nat /\ conds[u].observedGeneration <= generation
      BY <2>0 DEF Present, Condition
    <3>4. CASE u = t
      BY <2>0, <3>1, <3>3, <3>4 DEF Stamped
    <3>5. CASE u # t /\ u = Root
      <4>1. PICK S \in Conds : /\ Bumped(conds[Root], S[Root])
                               /\ conds'[Root] = Stamped(S, Root, Verdict(conds', generation))
        BY <3>1, <3>5
      <4> QED
        BY <2>0, <3>3, <3>5, <4>1 DEF Stamped, Bumped
    <3>6. CASE u # t /\ u # Root
      <4>1. Bumped(conds[u], conds'[u])
        BY <3>1, <3>3, <3>6
      <4> QED
        BY <2>0, <3>3, <4>1 DEF Bumped
    <3> QED
      BY <3>4, <3>5, <3>6
  <2>3. ASSUME NEW t \in Types, NEW r \in Requests, conds' = Set(conds, t, r), ~Modifies(conds, t, r)
        PROVE  UNCHANGED conds
    BY <2>0, <2>3, IdleSet
  <2>4. ASSUME NEW t \in Independents, conds' = [conds EXCEPT ![t] = NoCondition]
        PROVE  Steps
    BY <2>0, <2>4 DEF Conds, Present, Condition
  <2> QED
    BY <1>1, <2>1, <2>2, <2>3, <2>4, StepShape
<1>2. TypeOK /\ [Next]_vars => [Steps]_vars
  BY <1>1
<1> QED
  BY <1>2, TypeCorrect, PTL DEF Spec, NeverRewinds

-----------------------------------------------------------------------------
(* The order of the list.                                                  *)

\* R puts the members of K in a row.
StrictOrder(K, R) ==
    /\ \A i \in K : <<i, i>> \notin R
    /\ \A i, j \in K : i = j \/ <<i, j>> \in R \/ <<j, i>> \in R
    /\ \A i, j, k \in K : <<i, j>> \in R /\ <<j, k>> \in R => <<i, k>> \in R

\* The members of K that come before i.
Ahead(K, R, i) == {j \in K \ {i} : <<j, i>> \in R}

\* In a strict order of n things every place from 1 to n is taken, by one of
\* them: the later of two has more things ahead of it.
LEMMA PlacesDistinct ==
    ASSUME NEW K, IsFiniteSet(K), NEW R, StrictOrder(K, R)
    PROVE  [i \in K |-> Cardinality(Ahead(K, R, i)) + 1] \in Bijection(K, 1 .. Cardinality(K))
<1> DEFINE n == Cardinality(K)
           place == [i \in K |-> Cardinality(Ahead(K, R, i)) + 1]
<1>1. n \in Nat
  BY FS_CardinalityType
<1>2. ASSUME NEW i \in K
      PROVE  /\ IsFiniteSet(Ahead(K, R, i))
             /\ Cardinality(Ahead(K, R, i)) \in Nat
             /\ Cardinality(Ahead(K, R, i)) <= n - 1
  <2>1. IsFiniteSet(K \ {i}) /\ Cardinality(K \ {i}) = n - 1
    BY FS_RemoveElement
  <2>2. Ahead(K, R, i) \subseteq K \ {i}
    BY DEF Ahead
  <2> QED
    BY <2>1, <2>2, FS_Subset, FS_CardinalityType
<1>3. ASSUME NEW i \in K, NEW j \in K, <<i, j>> \in R
      PROVE  Cardinality(Ahead(K, R, i)) < Cardinality(Ahead(K, R, j))
  <2>1. Ahead(K, R, i) \subseteq Ahead(K, R, j)
    BY <1>3 DEF Ahead, StrictOrder
  <2>2. i \in Ahead(K, R, j) /\ i \notin Ahead(K, R, i)
    BY <1>3 DEF Ahead, StrictOrder
  <2>3. /\ Cardinality(Ahead(K, R, i)) <= Cardinality(Ahead(K, R, j))
        /\ Cardinality(Ahead(K, R, i)) # Cardinality(Ahead(K, R, j))
    BY <1>2, <2>1, <2>2, FS_Subset
  <2> QED
    BY <1>2, <2>3
<1>4. place \in [K -> 1 .. n]
  BY <1>1, <1>2
<1>5. \A i, j \in K : place[i] = place[j] => i = j
  <2> SUFFICES ASSUME NEW i \in K, NEW j \in K, i # j PROVE place[i] # place[j]
    OBVIOUS
  <2>1. <<i, j>> \in R \/ <<j, i>> \in R
    BY DEF StrictOrder
  <2>2. CASE <<i, j>> \in R
    BY <1>2, <1>3, <2>2
  <2>3. CASE <<j, i>> \in R
    BY <1>2, <1>3, <2>3
  <2> QED
    BY <2>1, <2>2, <2>3
<1>6. place \in Injection(K, 1 .. n)
  BY <1>4, <1>5 DEF Injection, IsInjective
<1>7. IsFiniteSet(1 .. n) /\ Cardinality(1 .. n) = n
  BY <1>1, FS_Interval
<1>8. place \in Surjection(K, 1 .. n)
  BY <1>6, <1>7, FS_Injection
<1> QED
  BY <1>6, <1>8 DEF Bijection

\* The list has every member of S, once.
Lists(list, S) ==
    /\ list \in Seq(S)
    /\ {list[i] : i \in DOMAIN list} = S
    /\ \A i, j \in DOMAIN list : list[i] = list[j] => i = j

\* The three parts of StableSort, for an order given as a relation.
Places(K, R) == {<<i, Cardinality(Ahead(K, R, i)) + 1>> : i \in K}

Arranged(s, K, places) ==
    [k \in 1 .. Cardinality(K) |-> s[CHOOSE i \in K : <<i, k>> \in places]]

Entries(s, K) == {s[i] : i \in K}

\* Whatever the order, arranging distinct entries neither loses nor repeats one.
LEMMA ArrangedLists ==
    ASSUME NEW K, IsFiniteSet(K), NEW R, StrictOrder(K, R),
           NEW s, \A i, j \in K : s[i] = s[j] => i = j
    PROVE  Lists(Arranged(s, K, Places(K, R)), Entries(s, K))
<1> DEFINE n == Cardinality(K)
           places == Places(K, R)
           S == Entries(s, K)
           place == [i \in K |-> Cardinality(Ahead(K, R, i)) + 1]
           At(k) == CHOOSE i \in K : <<i, k>> \in places
           list == [k \in 1 .. n |-> s[At(k)]]
<1> USE DEF Entries
<1>0. n \in Nat
  BY FS_CardinalityType
<1>1. place \in Bijection(K, 1 .. n)
  BY PlacesDistinct
<1>2. \A i \in K, k \in 1 .. n : <<i, k>> \in places <=> place[i] = k
  BY DEF Places
<1> HIDE DEF place
<1>3. /\ \A i \in K : place[i] \in 1 .. n
      /\ \A i, j \in K : place[i] = place[j] => i = j
      /\ \A k \in 1 .. n : \E i \in K : place[i] = k
  BY <1>1 DEF Bijection, Injection, Surjection, IsInjective
<1>4. \A k \in 1 .. n : At(k) \in K /\ place[At(k)] = k
  BY <1>2, <1>3
<1> HIDE DEF At
<1>5. \A i \in K : At(place[i]) = i
  BY <1>3, <1>4
<1>6. list \in Seq(S) /\ DOMAIN list = 1 .. n
  BY <1>0, <1>4
<1>7. {list[k] : k \in 1 .. n} = S
  <2>1. \A k \in 1 .. n : list[k] \in S
    BY <1>4
  <2>2. \A i \in K : place[i] \in 1 .. n /\ list[place[i]] = s[i]
    BY <1>3, <1>5
  <2> HIDE DEF list
  <2>3. \A x \in S : \E k \in 1 .. n : x = list[k]
    BY <2>2
  <2> QED
    BY <2>1, <2>3
<1>8. \A k, l \in 1 .. n : list[k] = list[l] => k = l
  BY <1>4
<1>9. Lists(list, S)
  BY <1>6, <1>7, <1>8 DEF Lists
<1> QED
  BY <1>9 DEF At, Arranged

\* Set's sort is by a strict order (transition times, positions, the root
\* last), so that it puts the new condition into the list and keeps the rest.
LEMMA PutLists ==
    ASSUME NEW S \in SUBSET Types, NEW ord, Lists(ord, S), NEW t \in Types,
           NEW cs, \A u \in S \cup {t} : cs[u].lastTransitionTime \in Nat
    PROVE  Lists(PutOrder(ord, t, cs), S \cup {t})
<1> DEFINE m == Len(ord)
           K == Others(ord, t) \cup {m + 1}
           s == Append(ord, t)
           time(i) == cs[s[i]].lastTransitionTime
           Before(i, j) == IF i < j THEN ~Earlier(cs, s[j], s[i]) ELSE Earlier(cs, s[i], s[j])
           R == {p \in K \X K : p[1] # p[2] /\ Before(p[1], p[2])}
           places == {<<i, Cardinality({j \in K \ {i} : Before(j, i)}) + 1>> : i \in K}
<1>1. m \in Nat /\ K \subseteq 1 .. m + 1 /\ m + 1 \in K
  BY DEF Others, Lists
<1>2. IsFiniteSet(K)
  <2>1. IsFiniteSet(1 .. m + 1)
    BY <1>1, FS_Interval
  <2> QED
    BY <1>1, <2>1, FS_Subset
<1>3. /\ \A i \in 1 .. m : s[i] = ord[i] /\ ord[i] \in S
      /\ s[m + 1] = t
      /\ \A i, j \in 1 .. m : ord[i] = ord[j] => i = j
      /\ \A x \in S : \E i \in 1 .. m : ord[i] = x
  BY DEF Lists
<1>4. \A i \in K : i = m + 1 \/ (i \in 1 .. m /\ ord[i] # t)
  BY DEF Others
<1>5. \A i \in 1 .. m : ord[i] # t => i \in K
  BY DEF Others
<1> HIDE DEF m, K, s
<1>6. \A i, j \in K : s[i] = s[j] => i = j
  BY <1>1, <1>3, <1>4
<1>7. Entries(s, K) = S \cup {t}
  <2>1. \A i \in K : s[i] \in S \cup {t}
    BY <1>3, <1>4
  <2>2. \A x \in S \cup {t} : \E i \in K : s[i] = x
    BY <1>1, <1>3, <1>5
  <2> QED
    BY <2>1, <2>2 DEF Entries
<1>8. StrictOrder(K, R)
  <2>1. \A i \in K : time(i) \in Nat /\ i \in Nat
    BY <1>1, <1>7 DEF Entries
  <2>2. \A i, j \in K : i # j =>
            (Before(i, j) <=>
                /\ s[i] # Root
                /\ s[j] # Root =>
                      \/ time(i) < time(j)
                      \/ time(i) = time(j) /\ i < j)
    BY <1>6, <2>1 DEF Earlier
  <2> HIDE DEF Before, time
  <2>3. \A i, j \in K : <<i, j>> \in R <=> i # j /\ Before(i, j)
    OBVIOUS
  <2> HIDE DEF R
  <2>4. ASSUME NEW i \in K, NEW j \in K, i # j
        PROVE  <<i, j>> \in R \/ <<j, i>> \in R
    <3>1. i < j \/ j < i
      BY <2>1, <2>4
    <3>2. s[i] # Root \/ s[j] # Root
      BY <1>6, <2>4
    <3>3. Before(i, j) \/ Before(j, i)
      BY <2>1, <2>2, <2>4, <3>1, <3>2
    <3> QED
      BY <2>3, <2>4, <3>3
  <2>5. \A i, j, k \in K : <<i, j>> \in R /\ <<j, k>> \in R => <<i, k>> \in R
    BY <1>6, <2>1, <2>2, <2>3
  <2> QED
    BY <2>3, <2>4, <2>5 DEF StrictOrder
<1>9. places = Places(K, R)
  <2> HIDE DEF Before
  <2>1. \A i \in K : {j \in K \ {i} : Before(j, i)} = Ahead(K, R, i)
    BY DEF Ahead
  <2> QED
    BY <2>1 DEF Places
<1> HIDE DEF R, places
<1>10. Lists(Arranged(s, K, places), S \cup {t})
  BY <1>2, <1>6, <1>7, <1>8, <1>9, ArrangedLists
<1> QED
  BY <1>10 DEF PutOrder, StableSort, m, K, s, places, Arranged

\* Clear's sort is by a strict order too (names), and takes t out.
LEMMA ByNameLists ==
    ASSUME NEW S \in SUBSET Types, NEW ord, Lists(ord, S), NEW t
    PROVE  Lists(ByName(ord, t), S \ {t})
<1> DEFINE m == Len(ord)
           K == Others(ord, t)
           rank(i) == TypeRank[ord[i]]
           Before(i, j) == IF i < j THEN ~(rank(j) < rank(i)) ELSE rank(i) < rank(j)
           R == {p \in K \X K : p[1] # p[2] /\ Before(p[1], p[2])}
           places == {<<i, Cardinality({j \in K \ {i} : Before(j, i)}) + 1>> : i \in K}
<1>1. m \in Nat /\ K \subseteq 1 .. m
  BY DEF Others, Lists
<1>2. IsFiniteSet(K)
  <2>1. IsFiniteSet(1 .. m)
    BY <1>1, FS_Interval
  <2> QED
    BY <1>1, <2>1, FS_Subset
<1>3. /\ \A i \in 1 .. m : ord[i] \in S
      /\ \A i, j \in 1 .. m : ord[i] = ord[j] => i = j
      /\ \A x \in S : \E i \in 1 .. m : ord[i] = x
  BY DEF Lists
<1>4. \A i \in 1 .. m : i \in K <=> ord[i] # t
  BY DEF Others
<1> HIDE DEF m, K
<1>5. \A i, j \in K : ord[i] = ord[j] => i = j
  BY <1>1, <1>3
<1>6. Entries(ord, K) = S \ {t}
  <2>1. \A i \in K : ord[i] \in S \ {t}
    BY <1>1, <1>3, <1>4
  <2>2. \A x \in S \ {t} : \E i \in K : ord[i] = x
    BY <1>3, <1>4
  <2> QED
    BY <2>1, <2>2 DEF Entries
<1>7. StrictOrder(K, R)
  <2>1. \A i \in K : rank(i) \in Nat /\ i \in Nat
    BY <1>1, <1>3, RankAssumption
  <2>2. \A i, j \in K : rank(i) = rank(j) => i = j
    BY <1>1, <1>3, <1>5, RankAssumption
  <2>3. \A i, j \in K : i # j => (Before(i, j) <=> rank(i) < rank(j))
    BY <2>1, <2>2
  <2> HIDE DEF Before, rank
  <2>4. \A i, j \in K : <<i, j>> \in R <=> i # j /\ rank(i) < rank(j)
    BY <2>3
  <2> HIDE DEF R
  <2> QED
    BY <2>1, <2>2, <2>4 DEF StrictOrder
<1>8. places = Places(K, R)
  <2> HIDE DEF Before
  <2>1. \A i \in K : {j \in K \ {i} : Before(j, i)} = Ahead(K, R, i)
    BY DEF Ahead
  <2> QED
    BY <2>1 DEF Places
<1> HIDE DEF R, places
<1>9. Lists(Arranged(ord, K, places), S \ {t})
  BY <1>2, <1>5, <1>6, <1>7, <1>8, ArrangedLists
<1> QED
  BY <1>9 DEF ByName, StableSort, K, places, Arranged

\* Storing one condition lists it.
LEMMA StoreLists ==
    ASSUME generation \in Nat, now \in Nat,
           NEW t \in Types, NEW cs \in Conds, NEW r \in Requests,
           NEW ord, Lists(ord, Present(cs))
    PROVE  LET stored == Store(cs, t, r)
           IN  Lists(PutOrder(ord, t, stored), Present(stored))
<1> DEFINE stored == Store(cs, t, r)
<1>1. /\ stored \in Conds
      /\ stored[t] # NoCondition
      /\ \A u \in Types \ {t} : stored[u] = NoCondition <=> cs[u] = NoCondition
  BY StoreType, StampedType DEF Bumped
<1> HIDE DEF stored
<1>2. Present(stored) = Present(cs) \cup {t}
  BY <1>1 DEF Present
<1>3. \A u \in Present(stored) : stored[u].lastTransitionTime \in Nat
  BY <1>1 DEF Present, Conds, Condition
<1>4. Present(cs) \in SUBSET Types
  BY DEF Present
<1>5. Lists(PutOrder(ord, t, stored), Present(cs) \cup {t})
  BY <1>2, <1>3, <1>4, PutLists
<1> QED
  BY <1>2, <1>5 DEF stored

\* So does the whole of Set, early returns and recomputed root included.
LEMMA SetLists ==
    ASSUME generation \in Nat, now \in Nat,
           NEW t \in Types, NEW cs \in Conds, NEW r \in Requests,
           NEW ord, Lists(ord, Present(cs))
    PROVE  Lists(SetOrder(ord, cs, t, r), Present(Set(cs, t, r)))
<1> DEFINE stored == Store(cs, t, r)
           verdict == Verdict(stored, generation)
           placed == PutOrder(ord, t, stored)
<1>1. CASE ~Modifies(cs, t, r)
  BY <1>1 DEF SetOrder, Set, SetOne
<1>2. CASE Modifies(cs, t, r)
  <2>1. Lists(placed, Present(stored))
    BY StoreLists
  <2>2. CASE t = Root
    BY <1>2, <2>1, <2>2 DEF SetOrder, Set, SetOne
  <2>3. CASE t # Root /\ ~Modifies(stored, Root, verdict)
    BY <1>2, <2>1, <2>3 DEF SetOrder, Set, SetOne
  <2>4. CASE t # Root /\ Modifies(stored, Root, verdict)
    <3>1. stored \in Conds /\ Root \in Types
      BY StoreType DEF Types, Known
    <3>2. verdict \in Requests
      BY <3>1, VerdictType
    <3>3. /\ SetOrder(ord, cs, t, r) = PutOrder(placed, Root, Store(stored, Root, verdict))
          /\ Set(cs, t, r) = Store(stored, Root, verdict)
      BY <1>2, <2>4 DEF SetOrder, Set, SetOne
    <3> HIDE DEF stored, verdict, placed
    <3> QED
      BY <2>1, <3>1, <3>2, <3>3, StoreLists
  <2> QED
    BY <2>2, <2>3, <2>4
<1> QED
  BY <1>1, <1>2

\* Whatever Set, its recomputed root and Clear did to the list, it has every
\* present type exactly once, for any number of types: neither the filters nor
\* the two sorts lose or repeat a condition.
THEOREM ListComplete == Spec => []ListsEveryCondition
<1> DEFINE Listed == Lists(order, Present(conds))
<1>1. Init => Listed
  <2> SUFFICES ASSUME Init PROVE Listed
    OBVIOUS
  <2>1. Present(conds) = {}
    BY DEF Init, Present
  <2> QED
    BY <2>1 DEF Init, Lists
<1>2. TypeOK /\ Listed /\ [Next]_vars => Listed'
  <2> SUFFICES ASSUME TypeOK, Listed, [Next]_vars PROVE Listed'
    OBVIOUS
  <2>0. conds \in Conds /\ generation \in Nat /\ now \in Nat
    BY DEF TypeOK, Conds
  <2>1. CASE UNCHANGED <<conds, order>>
    BY <2>1 DEF Present
  <2>2. ASSUME NEW t \in Types, NEW r \in Requests,
               conds' = Set(conds, t, r), order' = SetOrder(order, conds, t, r)
        PROVE  Listed'
    <3>1. Lists(SetOrder(order, conds, t, r), Present(Set(conds, t, r)))
      BY <2>0, SetLists
    <3>2. Present(conds)' = Present(Set(conds, t, r))
      BY <2>2 DEF Present
    <3> QED
      BY <2>2, <3>1, <3>2
  <2>3. ASSUME NEW t \in Independents,
               conds' = [conds EXCEPT ![t] = NoCondition], order' = ByName(order, t)
        PROVE  Listed'
    <3>1. Present(conds) \in SUBSET Types
      BY DEF Present
    <3>2. Present(conds)' = Present(conds) \ {t}
      BY <2>0, <2>3 DEF Present, Conds
    <3>3. Lists(ByName(order, t), Present(conds) \ {t})
      BY <3>1, ByNameLists
    <3> QED
      BY <2>3, <3>2, <3>3
  <2> QED
    BY <2>1, <2>2, <2>3, StepShape DEF vars
<1>3. Listed => ListsEveryCondition
  BY DEF Lists, ListsEveryCondition
<1> QED
  BY <1>1, <1>2, <1>3, TypeCorrect, PTL DEF Spec
=============================================================================
