------------------------- MODULE MockFunctionProofs -------------------------
(***************************************************************************)
(* Proofs about MockFunction, for any number of callers, outputs, errors   *)
(* and invocations, and whether or not Reset runs next to Invoke.          *)
(***************************************************************************)
EXTENDS MockFunction, SequenceTheorems, FiniteSetTheorems, TLAPS

\* A value that is put into Output keeps the types of what it changes.
LEMMA OutputTypes ==
    ASSUME TypeOK, NEW o \in Outputs \cup {Nil}, Output(o)
    PROVE  /\ output' \in Outputs \cup {Nil}
           /\ during' \in [Callers -> SUBSET (Outputs \cup {Nil})]
<1>1. \A c \in Callers : during[c] \cup {o} \in SUBSET (Outputs \cup {Nil})
  BY DEF TypeOK
<1> QED
  BY <1>1 DEF Output, TypeOK

\* The steps of Invoke keep the types.
LEMMA InvokeTypes ==
    ASSUME TypeOK, NEW c \in Callers, Invoke(c)
    PROVE  TypeOK'
<1> USE DEF TypeOK, Steps
<1>1. CASE GetError(c)
  <2>1. owed' \in BOOLEAN
    BY <1>1, Zenon DEF GetError
  <2>2. errored' \in Nat /\ calls' \in Nat /\ invocations' \in Nat /\ pc' \in [Callers -> Steps]
    BY <1>1 DEF GetError, Step
  <2>3. during' \in [Callers -> SUBSET (Outputs \cup {Nil})]
    BY <1>1 DEF GetError
  <2> QED
    BY <1>1, <2>1, <2>2, <2>3 DEF GetError
<1>2. CASE CountFailure(c)
  BY <1>2 DEF CountFailure, Return, Step, history
<1>3. CASE Record(c)
  <2>1. inputs' \in Seq(Callers)
    BY <1>3, AppendProperties DEF Record
  <2> QED
    BY <1>3, <2>1 DEF Record, Step, history
<1>4. CASE CheckOutput(c)
  BY <1>4 DEF CheckOutput, Step, fields, history
<1>5. CASE CountSuccess(c)
  BY <1>5 DEF CountSuccess, Step, history
<1>6. CASE CloneOutput(c)
  BY <1>6 DEF CloneOutput, Cloned, Return, Step, fields, history
<1>7. CASE Transform(c)
  BY <1>7 DEF Transform, Return, Step, history
<1> QED
  BY <1>1, <1>2, <1>3, <1>4, <1>5, <1>6, <1>7 DEF Invoke

\* The steps of Reset keep the types.
LEMMA ResetTypes ==
    ASSUME TypeOK, Reset
    PROVE  TypeOK'
<1> USE DEF TypeOK, history
<1>1. CASE ResetOutput
  BY <1>1, OutputTypes DEF ResetOutput
<1>2. CASE ResetInputs
  BY <1>2 DEF ResetInputs
<1>3. CASE ResetError
  <2>1. owed' \in BOOLEAN
    BY <1>3, Zenon DEF ResetError
  <2> QED
    BY <1>3, <2>1 DEF ResetError
<1>4. CASE ResetSuccessfulCalls
  BY <1>4 DEF ResetSuccessfulCalls
<1>5. CASE ResetFailedCalls
  BY <1>5 DEF ResetFailedCalls
<1> QED
  BY <1>1, <1>2, <1>3, <1>4, <1>5 DEF Reset

\* Every field of mock.Function keeps its type; in particular the maximum of
\* Error stays 0 or 1, since Set raises it from 0 only.
THEOREM TypeCorrect == Spec => []TypeOK
<1>1. Init => TypeOK
  <2>1. Init => owed \in BOOLEAN
    BY Zenon DEF Init
  <2> QED
    BY <2>1 DEF Init, TypeOK, Steps
<1>2. TypeOK /\ [Next]_vars => TypeOK'
  <2> SUFFICES ASSUME TypeOK, [Next]_vars PROVE TypeOK'
    OBVIOUS
  <2>1. ASSUME NEW o \in Outputs \cup {Nil}, SetOutput(o) PROVE TypeOK'
    BY <2>1, OutputTypes DEF SetOutput, TypeOK
  <2>2. ASSUME NEW e \in Errors \cup {Nil}, SetError(e) PROVE TypeOK'
    <3>1. owed' \in BOOLEAN
      BY <2>2, Zenon DEF SetError
    <3> QED
      BY <2>2, <3>1 DEF SetError, TypeOK
  <2>3. CASE Pop
    <3>1. inputs' \in Seq(Callers)
      BY <2>3 DEF Pop, TypeOK
    <3> QED
      BY <2>3, <3>1 DEF Pop, TypeOK
  <2>4. CASE UNCHANGED vars
    BY <2>4 DEF vars, fields, history, TypeOK
  <2> QED
    BY <2>1, <2>2, <2>3, <2>4, InvokeTypes, ResetTypes DEF Next
<1> QED
  BY <1>1, <1>2, PTL DEF Spec

\* Get counts under the same lock under which it compares: the errors it has
\* returned are among the calls it has counted, of which there is one at most.
Counted == errored <= calls /\ calls <= maxCalls

\* However many goroutines call Invoke, the error that a test set reaches one
\* of them at most until Error.Reset, also when Reset runs next to them.
THEOREM ErrorReturnedOnce == Spec => []ErrorOnce
<1>1. Init => Counted
  BY DEF Init, Counted
<1>2. TypeOK /\ Counted /\ [Next]_vars => Counted'
  <2> SUFFICES ASSUME TypeOK, Counted, [Next]_vars PROVE Counted'
    OBVIOUS
  <2> USE DEF TypeOK, Counted
  <2>1. ASSUME NEW c \in Callers, Invoke(c) PROVE Counted'
    <3>1. CASE GetError(c)
      BY <3>1 DEF GetError, Remaining
    <3>2. CASE UNCHANGED <<calls, maxCalls, errored>>
      BY <3>2
    <3> QED
      BY <2>1, <3>1, <3>2 DEF Invoke, CountFailure, Record, CheckOutput, CountSuccess,
         CloneOutput, Transform, fields, history
  <2>2. CASE Reset
    <3>1. CASE ResetError
      BY <3>1 DEF ResetError
    <3>2. CASE UNCHANGED <<calls, maxCalls, errored>>
      BY <3>2
    <3> QED
      BY <2>2, <3>1, <3>2 DEF Reset, ResetOutput, ResetInputs, ResetSuccessfulCalls,
         ResetFailedCalls, history
  <2>3. ASSUME NEW e \in Errors \cup {Nil}, SetError(e) PROVE Counted'
    BY <2>3 DEF SetError
  <2>4. CASE UNCHANGED <<calls, maxCalls, errored>>
    BY <2>4
  <2> QED
    BY <2>1, <2>2, <2>3, <2>4 DEF Next, SetOutput, Pop, vars, fields, history
<1>3. TypeOK /\ Counted => ErrorOnce
  BY DEF TypeOK, Counted, ErrorOnce
<1> QED
  BY <1>1, <1>2, <1>3, TypeCorrect, PTL DEF Spec

-----------------------------------------------------------------------------
(* What Invoke returns, also next to Set and Reset.                        *)

\* What Invoke has seen of Output on its way is among what Output held during
\* the call.
Witnessed ==
    /\ \A c \in Callers : pc[c] # "idle" => output \in during[c]
    /\ \A c \in Callers : pc[c] \in {"succeeding", "cloning"} => during[c] \cap Outputs # {}
    /\ \A c \in Callers : pc[c] = "default" => Nil \in during[c]
    /\ ReturnsOutputOfCall

\* Set and Reset only add to what the calls in progress have seen.
LEMMA OutputWitnessed ==
    ASSUME TypeOK, Witnessed, NEW o \in Outputs \cup {Nil}, Output(o), UNCHANGED <<pc, result>>
    PROVE  Witnessed'
<1>1. \A c \in Callers : during[c] \subseteq during'[c]
  BY DEF Output, TypeOK
<1>2. \A c \in Callers : pc[c] # "idle" => output' \in during'[c]
  BY DEF Output, TypeOK
<1>3. \A c \in Callers : pc[c] = "idle" => during'[c] = during[c]
  BY DEF Output, TypeOK
<1>4. ReturnsOutputOfCall'
  BY <1>3 DEF Witnessed, ReturnsOutputOfCall
<1> QED
  BY <1>1, <1>2, <1>4 DEF Witnessed

\* A caller that moves on inside Invoke.
LEMMA MoveWitnessed ==
    ASSUME TypeOK, Witnessed, NEW c \in Callers, NEW to \in Steps \ {"idle"}, Step(c, to),
           pc[c] # "idle", UNCHANGED <<output, result, during>>,
           to \in {"succeeding", "cloning"} => during[c] \cap Outputs # {},
           to = "default" => Nil \in during[c]
    PROVE  Witnessed'
<1>1. \A d \in Callers : pc'[d] = IF d = c THEN to ELSE pc[d]
  BY DEF Step, TypeOK
<1>2. ReturnsOutputOfCall'
  BY <1>1 DEF Witnessed, ReturnsOutputOfCall
<1> QED
  BY <1>1, <1>2 DEF Witnessed

\* A caller that returns what the call accounts for.
LEMMA ReturnWitnessed ==
    ASSUME TypeOK, Witnessed, NEW c \in Callers, NEW v, Return(c, v), UNCHANGED <<output, during>>,
           v \in Outputs => v \in during[c],
           v = Default => Nil \in during[c],
           v = Zero => Nil \in during[c] /\ during[c] \cap Outputs # {}
    PROVE  Witnessed'
<1>1. \A d \in Callers : pc'[d] = IF d = c THEN "idle" ELSE pc[d]
  BY DEF Return, Step, TypeOK
<1>2. \A d \in Callers : result'[d] = IF d = c THEN v ELSE result[d]
  BY DEF Return, TypeOK
<1>3. ReturnsOutputOfCall'
  BY <1>1, <1>2 DEF Witnessed, ReturnsOutputOfCall
<1> QED
  BY <1>1, <1>3 DEF Witnessed

\* Every step of Invoke.
LEMMA InvokeWitnessed ==
    ASSUME TypeOK, Witnessed, NEW c \in Callers, Invoke(c)
    PROVE  Witnessed'
<1>1. CASE GetError(c)
  <2>1. PICK to \in {"failing", "unfailed"} : Step(c, to)
    BY <1>1 DEF GetError
  <2>2. \A d \in Callers : pc'[d] = IF d = c THEN to ELSE pc[d]
    BY <2>1 DEF Step, TypeOK
  <2>3. \A d \in Callers : during'[d] = IF d = c THEN {output} ELSE during[d]
    BY <1>1 DEF GetError, TypeOK
  <2>4. output' = output /\ result' = result
    BY <1>1 DEF GetError
  <2>5. ReturnsOutputOfCall'
    BY <2>1, <2>2, <2>3, <2>4 DEF Witnessed, ReturnsOutputOfCall
  <2> QED
    BY <2>1, <2>2, <2>3, <2>4, <2>5 DEF Witnessed
<1>2. CASE CountFailure(c)
  BY <1>2, ReturnWitnessed, MockAssumption DEF CountFailure, history
<1>3. CASE Record(c)
  BY <1>3, MoveWitnessed DEF Record, history, Steps
<1>4. CASE CheckOutput(c)
  <2>1. output \in during[c] /\ pc[c] # "idle" /\ UNCHANGED <<output, result, during>>
    BY <1>4 DEF CheckOutput, Witnessed, fields, history
  <2>2. CASE output # Nil /\ Step(c, "succeeding")
    <3>1. during[c] \cap Outputs # {}
      BY <2>1, <2>2 DEF TypeOK
    <3> QED
      BY <2>1, <2>2, <3>1, MoveWitnessed DEF Steps
  <2>3. CASE output = Nil /\ Step(c, "default")
    BY <2>1, <2>3, MoveWitnessed DEF Steps
  <2> QED
    BY <1>4, <2>2, <2>3 DEF CheckOutput
<1>5. CASE CountSuccess(c)
  BY <1>5, MoveWitnessed DEF CountSuccess, history, Steps, Witnessed
<1>6. CASE CloneOutput(c)
  <2>1. /\ output \in during[c] /\ during[c] \cap Outputs # {}
        /\ Return(c, Cloned(output)) /\ UNCHANGED <<output, during>>
    BY <1>6 DEF CloneOutput, Witnessed, fields, history
  <2>2. CASE output = Nil
    BY <2>1, <2>2, ReturnWitnessed, MockAssumption DEF Cloned
  <2>3. CASE output \in Outputs
    <3>1. Cloned(output) = output /\ output # Zero
      BY <2>3, MockAssumption DEF Cloned
    <3>2. output # Default
      BY <2>3, MockAssumption
    <3> QED
      BY <2>1, <3>1, <3>2, ReturnWitnessed
  <2> QED
    BY <2>2, <2>3 DEF TypeOK
<1>7. CASE Transform(c)
  <2>1. Nil \in during[c] /\ UNCHANGED <<output, during>>
    BY <1>7 DEF Transform, Witnessed, history
  <2>2. CASE Return(c, Default)
    BY <2>1, <2>2, ReturnWitnessed, MockAssumption
  <2>3. CASE Return(c, Nil)
    BY <2>1, <2>3, ReturnWitnessed, MockAssumption
  <2> QED
    BY <1>7, <2>2, <2>3 DEF Transform
<1> QED
  BY <1>1, <1>2, <1>3, <1>4, <1>5, <1>6, <1>7 DEF Invoke

\* Whatever Set, Set(nil) or Reset runs next to it, an Invoke returns what the
\* output was at some moment of the call, or what the default transformer made
\* while it was nil, or, where it was cleared in the middle, a zero value.
THEOREM OutputsAsSet == Spec => []ReturnsOutputOfCall
<1>1. Init => Witnessed
  BY MockAssumption DEF Init, Witnessed, ReturnsOutputOfCall
<1>2. TypeOK /\ Witnessed /\ [Next]_vars => Witnessed'
  <2> SUFFICES ASSUME TypeOK, Witnessed, [Next]_vars PROVE Witnessed'
    OBVIOUS
  <2>1. ASSUME NEW o \in Outputs \cup {Nil}, SetOutput(o) PROVE Witnessed'
    BY <2>1, OutputWitnessed DEF SetOutput
  <2>2. CASE ResetOutput
    BY <2>2, OutputWitnessed DEF ResetOutput
  <2>3. CASE UNCHANGED <<output, pc, result, during>>
    BY <2>3 DEF Witnessed, ReturnsOutputOfCall
  <2> QED
    BY <2>1, <2>2, <2>3, InvokeWitnessed DEF Next, SetError, Pop, Reset, ResetInputs,
       ResetError, ResetSuccessfulCalls, ResetFailedCalls, vars, fields, history
<1>3. Witnessed => ReturnsOutputOfCall
  BY DEF Witnessed
<1> QED
  BY <1>1, <1>2, <1>3, TypeCorrect, PTL DEF Spec

-----------------------------------------------------------------------------
(* Resets between calls.                                                   *)

\* While Reset is at work no caller is in Invoke.
Calm == resetting # 0 => \A c \in Callers : pc[c] = "idle"

\* No step of Invoke or of the test disturbs Calm when Reset keeps to the
\* times between calls.
LEMMA CalmStep ==
    ASSUME Quiescent, TypeOK, Calm, [Next]_vars
    PROVE  Calm'
<1> USE DEF TypeOK, Calm
<1>1. ASSUME NEW c \in Callers, Invoke(c) PROVE Calm'
  <2>1. resetting' = resetting
    BY <1>1 DEF Invoke, GetError, CountFailure, Record, CheckOutput, CountSuccess, CloneOutput, Transform
  <2>2. resetting = 0
    BY <1>1 DEF Invoke, GetError, CountFailure, Record, CheckOutput, CountSuccess, CloneOutput, Transform
  <2> QED
    BY <2>1, <2>2
<1>2. CASE Reset
  <2>1. CASE ResetOutput
    BY <2>1 DEF ResetOutput
  <2>2. CASE pc' = pc /\ resetting # 0
    BY <2>2
  <2> QED
    BY <1>2, <2>1, <2>2 DEF Reset, ResetInputs, ResetError, ResetSuccessfulCalls, ResetFailedCalls
<1>3. CASE UNCHANGED <<pc, resetting>>
  BY <1>3
<1> QED
  BY <1>1, <1>2, <1>3 DEF Next, SetOutput, SetError, Pop, vars

LEMMA CalmInvariant == Quiescent => (Spec => []Calm)
<1> SUFFICES ASSUME Quiescent PROVE Spec => []Calm
  OBVIOUS
<1>1. Init => Calm
  BY DEF Init, Calm
<1>2. TypeOK /\ Calm /\ [Next]_vars => Calm'
  BY CalmStep
<1> QED
  BY <1>1, <1>2, TypeCorrect, PTL DEF Spec

-----------------------------------------------------------------------------
(* The books of the calls.                                                 *)

\* What Reset has emptied so far stays empty until it is done.
Emptied ==
    /\ resetting \in {2, 3, 4} => inputs = <<>> /\ popped = 0
    /\ resetting \in {3, 4} => errored = 0
    /\ resetting = 4 => successfulCalls = 0

\* The callers whose outcome is still to be counted are finitely many.
Books == IsFiniteSet(Uncounted) /\ Emptied /\ CallsAccounted

\* One caller enters or leaves the uncounted ones.
LEMMA UncountedMoves ==
    ASSUME TypeOK, IsFiniteSet(Uncounted), NEW c \in Callers, NEW to \in Steps, Step(c, to)
    PROVE  /\ IsFiniteSet(Uncounted')
           /\ Cardinality(Uncounted) \in Nat
           /\ Cardinality(Uncounted') =
                Cardinality(Uncounted)
                    + (IF to \in {"failing", "recorded", "succeeding", "default"} THEN 1 ELSE 0)
                    - (IF c \in Uncounted THEN 1 ELSE 0)
<1> DEFINE Owing == {"failing", "recorded", "succeeding", "default"}
<1>1. Uncounted' = IF to \in Owing THEN Uncounted \cup {c} ELSE Uncounted \ {c}
  BY DEF Uncounted, Step, TypeOK
<1>2. Cardinality(Uncounted) \in Nat
  BY FS_CardinalityType
<1>3. CASE to \in Owing
  BY <1>1, <1>2, <1>3, FS_AddElement
<1>4. CASE to \notin Owing
  BY <1>1, <1>2, <1>4, FS_RemoveElement
<1> QED
  BY <1>2, <1>3, <1>4

\* Every step of Invoke keeps the books.
LEMMA InvokeBooks ==
    ASSUME Quiescent, TypeOK, TypeOK', Calm, Books, NEW c \in Callers, Invoke(c)
    PROVE  Books'
<1> USE DEF Books, Emptied, CallsAccounted
<1>0. resetting = 0 /\ resetting' = 0
  <2>1. resetting' = resetting
    BY DEF Invoke, GetError, CountFailure, Record, CheckOutput, CountSuccess, CloneOutput, Transform
  <2>2. CASE GetError(c)
    BY <2>1, <2>2 DEF GetError
  <2>3. CASE pc[c] # "idle"
    BY <2>1, <2>3 DEF Calm
  <2> QED
    BY <2>1, <2>2, <2>3 DEF Invoke, CountFailure, Record, CheckOutput, CountSuccess, CloneOutput, Transform
<1>t. /\ successfulCalls \in Nat /\ failedCalls \in Nat /\ popped \in Nat /\ errored \in Nat
      /\ Len(inputs) \in Nat
  BY DEF TypeOK
<1>1. CASE GetError(c)
  <2>1. c \notin Uncounted
    BY <1>1 DEF GetError, Uncounted
  <2>2. CASE Step(c, "failing") /\ errored' = errored + 1
    BY <1>0, <1>t, <1>1, <2>1, <2>2, UncountedMoves DEF GetError, Steps
  <2>3. CASE Step(c, "unfailed") /\ errored' = errored
    BY <1>0, <1>t, <1>1, <2>1, <2>3, UncountedMoves DEF GetError, Steps
  <2> QED
    BY <1>1, <2>2, <2>3 DEF GetError
<1>2. CASE CountFailure(c)
  <2>1. c \in Uncounted /\ Step(c, "idle")
    BY <1>2 DEF CountFailure, Uncounted, Return
  <2> QED
    BY <1>0, <1>t, <1>2, <2>1, UncountedMoves DEF CountFailure, Steps, history
<1>3. CASE Record(c)
  <2>1. c \notin Uncounted
    BY <1>3 DEF Record, Uncounted
  <2>2. Len(inputs') = Len(inputs) + 1
    BY <1>3 DEF Record, TypeOK
  <2>3. Step(c, "recorded") /\ "recorded" \in Steps
    BY <1>3 DEF Record, Steps
  <2>4. /\ IsFiniteSet(Uncounted')
        /\ Cardinality(Uncounted) \in Nat
        /\ Cardinality(Uncounted') = Cardinality(Uncounted) + 1
    BY <2>1, <2>3, UncountedMoves
  <2>5. UNCHANGED <<successfulCalls, failedCalls, errored, popped>>
    BY <1>3 DEF Record, history
  <2>6. CallsAccounted'
    BY <1>0, <1>t, <2>2, <2>4, <2>5
  <2> QED
    BY <1>0, <2>4, <2>6
<1>4. CASE CheckOutput(c)
  <2>1. c \in Uncounted
    BY <1>4 DEF CheckOutput, Uncounted
  <2>2. \E to \in {"succeeding", "default"} : Step(c, to)
    BY <1>4 DEF CheckOutput
  <2> QED
    BY <1>0, <1>t, <1>4, <2>1, <2>2, UncountedMoves DEF CheckOutput, Steps, fields, history
<1>5. CASE CountSuccess(c)
  <2>1. c \in Uncounted
    BY <1>5 DEF CountSuccess, Uncounted
  <2> QED
    BY <1>0, <1>t, <1>5, <2>1, UncountedMoves DEF CountSuccess, Steps, history
<1>6. CASE CloneOutput(c)
  <2>1. c \notin Uncounted /\ Step(c, "idle")
    BY <1>6 DEF CloneOutput, Uncounted, Return
  <2> QED
    BY <1>0, <1>t, <1>6, <2>1, UncountedMoves DEF CloneOutput, Steps, fields, history
<1>7. CASE Transform(c)
  <2>1. c \in Uncounted /\ Step(c, "idle")
    BY <1>7 DEF Transform, Uncounted, Return
  <2> QED
    BY <1>0, <1>t, <1>7, <2>1, UncountedMoves DEF Transform, Steps, history
<1> QED
  BY <1>1, <1>2, <1>3, <1>4, <1>5, <1>6, <1>7 DEF Invoke

\* So does every step of Reset: nobody calls meanwhile, and when it is done
\* all accounts are empty.
LEMMA ResetBooks ==
    ASSUME Quiescent, TypeOK, Calm, Books, Reset
    PROVE  Books'
<1> USE DEF Books, Emptied, CallsAccounted
<1>1. Uncounted' = Uncounted
  BY DEF Uncounted, Reset, ResetOutput, ResetInputs, ResetError, ResetSuccessfulCalls, ResetFailedCalls
<1>2. CASE ResetOutput
  BY <1>1, <1>2 DEF ResetOutput
<1>3. CASE ResetInputs
  BY <1>1, <1>3 DEF ResetInputs
<1>4. CASE ResetError
  BY <1>1, <1>4 DEF ResetError
<1>5. CASE ResetSuccessfulCalls
  BY <1>1, <1>5 DEF ResetSuccessfulCalls, history
<1>6. CASE ResetFailedCalls
  <2>1. Uncounted = {}
    BY <1>6 DEF ResetFailedCalls, Calm, Uncounted
  <2>2. Cardinality(Uncounted) = 0
    BY <2>1, FS_EmptySet
  <2>3. Len(inputs') = 0
    BY <1>6 DEF ResetFailedCalls
  <2> QED
    BY <1>1, <1>6, <2>2, <2>3 DEF ResetFailedCalls, history
<1> QED
  BY <1>2, <1>3, <1>4, <1>5, <1>6 DEF Reset

\* Pop shortens the list by one.
LEMMA DropLast ==
    ASSUME NEW S, NEW s \in Seq(S), s # <<>>
    PROVE  Len(SubSeq(s, 1, Len(s) - 1)) = Len(s) - 1 /\ Len(s) \in Nat
<1> DEFINE n == Len(s) - 1
<1>1. Len(s) \in Nat \ {0}
  BY EmptySeq, LenProperties
<1>2. n \in Nat /\ Len(s) = n + 1
  BY <1>1
<1> HIDE DEF n
<1>3. Len(SubSeq(s, 1, n)) = n
  BY <1>2
<1> QED
  BY <1>1, <1>3 DEF n

\* Whatever calls interleave, the counters of a mock that is reset between
\* calls agree with its list of inputs and the errors it returned, for any
\* number of callers and of resets.
THEOREM BooksBalance == Quiescent => (Spec => []CallsAccounted)
<1> SUFFICES ASSUME Quiescent PROVE Spec => []CallsAccounted
  OBVIOUS
<1>1. Init => Books
  <2> SUFFICES ASSUME Init PROVE Books
    OBVIOUS
  <2>1. Uncounted = {}
    BY DEF Init, Uncounted
  <2> QED
    BY <2>1, FS_EmptySet DEF Init, Books, Emptied, CallsAccounted
<1>2. TypeOK /\ TypeOK' /\ Calm /\ Books /\ [Next]_vars => Books'
  <2> SUFFICES ASSUME TypeOK, TypeOK', Calm, Books, [Next]_vars PROVE Books'
    OBVIOUS
  <2>1. CASE Pop
    <3>1. Uncounted' = Uncounted
      BY <2>1 DEF Pop, Uncounted
    <3>2. Len(inputs') = Len(inputs) - 1 /\ Len(inputs) \in Nat
      BY <2>1, DropLast DEF Pop, TypeOK
    <3>3. /\ successfulCalls \in Nat /\ failedCalls \in Nat /\ popped \in Nat /\ errored \in Nat
          /\ Cardinality(Uncounted) \in Nat
      BY FS_CardinalityType DEF TypeOK, Books
    <3>4. resetting = 0 /\ resetting' = 0 /\ popped' = popped + 1
      BY <2>1 DEF Pop
    <3>5. UNCHANGED <<successfulCalls, failedCalls, errored>>
      BY <2>1 DEF Pop
    <3>6. CallsAccounted'
      BY <3>1, <3>2, <3>3, <3>4, <3>5 DEF Books, CallsAccounted
    <3> QED
      BY <3>1, <3>4, <3>6 DEF Books, Emptied
  <2>2. CASE UNCHANGED <<inputs, successfulCalls, failedCalls, pc, resetting, errored, popped>>
    BY <2>2 DEF Books, Emptied, CallsAccounted, Uncounted
  <2> QED
    BY <2>1, <2>2, InvokeBooks, ResetBooks DEF Next, SetOutput, SetError, vars, fields, history
<1>3. Books => CallsAccounted
  BY DEF Books
<1> QED
  BY <1>1, <1>2, <1>3, TypeCorrect, CalmInvariant, PTL DEF Spec
=============================================================================
