--------------------- MODULE PartialUnstructuredProofs ----------------------
(***************************************************************************)
(* Proofs about PartialUnstructured for any objects, field paths of any    *)
(* length and any number of conversions.                                   *)
(***************************************************************************)
EXTENDS PartialUnstructured, TLAPS

\* Type correctness.
THEOREM TypeCorrect == Spec => []TypeOK
<1>1. ASSUME Init PROVE TypeOK
  <2>1. source \subseteq Paths
    BY <1>1, DocumentsAssumption DEF Init
  <2>2. typed \in BOOLEAN /\ panicked \in BOOLEAN
    BY <1>1, Zenon DEF Init
  <2> QED
    BY <1>1, <2>1, <2>2 DEF Init, TypeOK
<1>2. ASSUME TypeOK, [Next]_vars PROVE TypeOK'
  <2>1. CASE Convert
    BY <1>2, <2>1 DEF Convert, TypeOK, object
  <2>2. ASSUME NEW p \in todo, ExtractMissing(p) PROVE TypeOK'
    BY <1>2, <2>2 DEF ExtractMissing, TypeOK, object
  <2>3. ASSUME NEW p \in todo, ExtractTop(p) PROVE TypeOK'
    BY <1>2, <2>3 DEF ExtractTop, TypeOK, object, Put, At
  <2>4. ASSUME NEW p \in todo, ExtractNested(p) PROVE TypeOK'
    <3>1. panicked' \in BOOLEAN
      BY <2>4, Zenon DEF ExtractNested
    <3> QED
      BY <1>2, <2>4, <3>1 DEF ExtractNested, TypeOK, object, Put, At
  <2>5. CASE UNCHANGED vars
    BY <1>2, <2>5 DEF vars, object, TypeOK
  <2> QED
    BY <1>2, <2>1, <2>2, <2>3, <2>4, <2>5 DEF Next
<1> QED
  BY <1>1, <1>2, PTL DEF Spec

-----------------------------------------------------------------------------
(* Paths that the merge keeps apart.                                       *)

\* What has been extracted so far.
Extracted == {l \in original : \E p \in fields \ todo : Leads(p, l)}

\* The inductive invariant: the object is as it was, and the result is what
\* the paths that are done ask for.
SeparateInv ==
    Separate =>
        /\ source = original
        /\ ~panicked
        /\ whole \subseteq fields
        /\ calls > 0 => result = Extracted
        /\ calls = 0 => todo = {} /\ result = {}

\* Two paths that both lead to a leaf are not apart.
LEMMA Meeting ==
    ASSUME NEW p \in Paths, NEW q \in Paths, NEW l \in Paths, Leads(p, l), Leads(q, l)
    PROVE  ~Apart(p, q)
BY DEF Leads, Apart, Paths

\* What lies under the first two names of p meets p.
LEMMA MeetingKey ==
    ASSUME NEW p \in Paths, Len(p) > 1, NEW q \in Paths, NEW l \in Paths,
           Leads(<<p[1], p[2]>>, l), Leads(q, l)
    PROVE  ~Apart(p, q)
<1>1. p[1] = l[1] /\ p[2] = l[2] /\ q[1] = l[1]
  BY DEF Leads, Paths
<1>2. Len(q) > 1 => q[2] = l[2]
  BY DEF Leads, Paths
<1> QED
  BY <1>1, <1>2 DEF Apart

\* Merging the value of one more path adds it and takes nothing away.
LEMMA PutApart ==
    ASSUME TypeOK, Separate, result = Extracted, NEW p \in todo, NEW key \in {p, <<p[1], p[2]>>},
           key = p \/ Len(p) > 1
    PROVE  Put(result, key, At(original, p)) = {l \in original : \E q \in fields \ (todo \ {p}) : Leads(q, l)}
<1>1. p \in fields /\ p \in Paths /\ \A q \in fields : q \in Paths
  BY DocumentsAssumption DEF TypeOK
<1>2. \A l \in original : l \in Paths
  BY DocumentsAssumption DEF TypeOK
<1>3. ASSUME NEW l \in result, Leads(key, l) PROVE FALSE
  <2>1. PICK q \in fields \ todo : Leads(q, l)
    BY <1>3 DEF Extracted
  <2>2. l \in Paths /\ q \in Paths /\ q # p
    BY <1>1, <1>2 DEF Extracted
  <2>3. Apart(p, q)
    BY <1>1, <2>2 DEF Separate
  <2>4. CASE key = p
    BY <1>1, <1>3, <2>1, <2>2, <2>3, <2>4, Meeting
  <2>5. CASE Len(p) > 1 /\ key = <<p[1], p[2]>>
    BY <1>1, <1>3, <2>1, <2>2, <2>3, <2>5, MeetingKey
  <2> QED
    BY <2>4, <2>5
<1>4. Put(result, key, At(original, p)) = result \cup At(original, p)
  BY <1>3 DEF Put, At
<1> QED
  BY <1>1, <1>4 DEF At, Extracted

\* A path of several names is not one of a single name.
LEMMA Longer ==
    ASSUME NEW p, Len(p) > 1, NEW a
    PROVE  p # <<a>>
<1> SUFFICES ASSUME p = <<a>> PROVE FALSE
  OBVIOUS
<1>1. Len(<<a>>) = 1
  OBVIOUS
<1>2. Len(p) = 1
  BY <1>1, Zenon
<1> QED
  BY <1>2

\* The invariant is inductive.
LEMMA SeparateStep ==
    ASSUME TypeOK, SeparateInv, [Next]_vars
    PROVE  SeparateInv'
<1> SUFFICES ASSUME Separate' PROVE SeparateInv'
  BY DEF SeparateInv
<1>0. Separate /\ fields' = fields /\ original' = original
  BY DEF Separate, Next, Convert, ExtractMissing, ExtractTop, ExtractNested, vars, object
<1>1. source = original /\ ~panicked /\ whole \subseteq fields /\ calls \in Nat
  BY <1>0 DEF SeparateInv, TypeOK
<1>2. CASE Convert
  BY <1>0, <1>1, <1>2 DEF Convert, SeparateInv, Extracted, object
<1>3. ASSUME NEW p \in todo PROVE calls > 0 /\ result = Extracted /\ p \in fields
  BY <1>0, <1>1, <1>3 DEF SeparateInv, TypeOK
<1>4. ASSUME NEW p \in todo, ExtractMissing(p) PROVE SeparateInv'
  <2>1. result' = Extracted'
    BY <1>0, <1>1, <1>3, <1>4 DEF ExtractMissing, Extracted, At, object
  <2> QED
    BY <1>0, <1>1, <1>3, <1>4, <2>1 DEF ExtractMissing, SeparateInv, object
<1>5. ASSUME NEW p \in todo, ExtractTop(p) PROVE SeparateInv'
  <2>1. result' = Extracted'
    BY <1>0, <1>1, <1>3, <1>5, PutApart DEF ExtractTop, Extracted, object
  <2> QED
    BY <1>0, <1>1, <1>3, <1>5, <2>1 DEF ExtractTop, SeparateInv, object
<1>6. ASSUME NEW p \in todo, ExtractNested(p) PROVE SeparateInv'
  <2>1. <<p[1]>> \notin whole
    <3>1. SUFFICES ASSUME <<p[1]>> \in whole PROVE FALSE
      OBVIOUS
    <3>2. Len(p) > 1
      BY <1>6 DEF ExtractNested
    <3>3. <<p[1]>> \in fields /\ p \in fields
      BY <1>1, <1>3, <3>1
    <3>4. p # <<p[1]>>
      BY <3>2, Longer
    <3>5. Apart(p, <<p[1]>>)
      BY <1>0, <3>3, <3>4 DEF Separate
    <3> QED
      BY <3>5 DEF Apart
  <2>2. ~panicked'
    BY <1>6, <2>1, Zenon DEF ExtractNested
  <2>3. source' = source /\ whole' = whole /\ todo' = todo \ {p} /\ calls' = calls /\ Len(p) > 1
        /\ result' = Put(result, <<p[1], p[2]>>, At(original, p))
    BY <1>1, <1>6, <2>1 DEF ExtractNested
  <2>4. result' = Extracted'
    BY <1>0, <1>3, <2>3, PutApart DEF Extracted
  <2> QED
    BY <1>0, <1>1, <1>3, <2>2, <2>3, <2>4 DEF SeparateInv
<1>7. CASE UNCHANGED vars
  BY <1>0, <1>7 DEF vars, object, SeparateInv, Extracted
<1> QED
  BY <1>2, <1>4, <1>5, <1>6, <1>7 DEF Next

LEMMA SeparateInvariant == Spec => []SeparateInv
<1>1. Init => SeparateInv
  BY DEF Init, SeparateInv
<1> QED
  BY <1>1, SeparateStep, TypeCorrect, PTL DEF Spec

\* Any number of paths of any length that differ within their first two names
\* are converted exactly, in every order.
THEOREM Exact == Spec => []ConvertsExactly
<1>1. SeparateInv /\ TypeOK => ConvertsExactly
  <2> SUFFICES ASSUME SeparateInv, TypeOK, Separate, Finished
               PROVE  result = Requested /\ AdditionalMetricLabels = fields \cap original
    BY DEF ConvertsExactly
  <2>1. result = Requested
    BY DEF SeparateInv, Finished, Extracted, Requested
  <2>2. \A l \in fields : Leads(l, l)
    BY DocumentsAssumption DEF TypeOK, Leads, Paths
  <2> QED
    BY <2>1, <2>2 DEF Requested, AdditionalMetricLabels
<1> QED
  BY <1>1, SeparateInvariant, TypeCorrect, PTL

\* For such paths the conversion leaves the object alone and never panics.
THEOREM Pure == Spec => []ConversionIsPure
<1>1. SeparateInv => ConversionIsPure
  BY DEF SeparateInv, ConversionIsPure
<1> QED
  BY <1>1, SeparateInvariant, PTL

-----------------------------------------------------------------------------
(* All paths.                                                              *)

\* Whatever the paths, the result holds nothing that was not asked for and the
\* object gains nothing.
THEOREM NothingElse == Spec => []OnlyRequested
<1>1. Init => OnlyRequested
  BY DEF Init, OnlyRequested
<1>2. ASSUME TypeOK, OnlyRequested, [Next]_vars PROVE OnlyRequested'
  <2>1. CASE Convert
    BY <1>2, <2>1 DEF Convert, OnlyRequested, Requested, object
  <2>2. ASSUME NEW p \in todo, ExtractMissing(p) PROVE OnlyRequested'
    BY <1>2, <2>2 DEF ExtractMissing, OnlyRequested, Requested, object
  <2>3. ASSUME NEW p \in todo PROVE p \in fields /\ At(source, p) \subseteq Requested /\ At(source, p) \subseteq original
    BY <1>2, <2>3 DEF TypeOK, OnlyRequested, Requested, At
  <2>4. ASSUME NEW p \in todo, ExtractTop(p) PROVE OnlyRequested'
    BY <1>2, <2>3, <2>4 DEF ExtractTop, OnlyRequested, Requested, object, Put
  <2>5. ASSUME NEW p \in todo, ExtractNested(p) PROVE OnlyRequested'
    <3>1. result' \subseteq result \cup At(source, p) /\ source' \subseteq source \cup At(source, p)
      BY <2>5 DEF ExtractNested, Put
    <3>2. Requested' = Requested /\ original' = original
      BY <2>5 DEF ExtractNested, Requested, object
    <3> QED
      BY <1>2, <2>3, <3>1, <3>2 DEF OnlyRequested
  <2>6. CASE UNCHANGED vars
    BY <1>2, <2>6 DEF vars, object, OnlyRequested, Requested
  <2> QED
    BY <1>2, <2>1, <2>2, <2>4, <2>5, <2>6 DEF Next
<1> QED
  BY <1>1, <1>2, TypeCorrect, PTL DEF Spec
=============================================================================
