---------------------------- MODULE MockFunction ----------------------------
(***************************************************************************)
(* mock.Function (src/mock/function.go) and the atomics it is made of      *)
(* (src/mock/atomic.go): a stand-in for a call to a service that tests     *)
(* script and that the code under test invokes from several goroutines.    *)
(*                                                                         *)
(* Every field is locked or atomic on its own, so each access to a field   *)
(* is one step; Invoke and Reset are sequences of such steps, and those of *)
(* different goroutines interleave.                                        *)
(***************************************************************************)
EXTENDS Integers, Sequences, FiniteSets

CONSTANTS
    Callers,         \* goroutines that call Invoke; each passes its own input
    Outputs,         \* outputs tests set
    Errors,          \* errors tests set
    Nil,
    Zero,            \* the zero value of the output type
    Default,         \* what the default transformer returns
    Quiescent,       \* whether tests call Reset only between calls
    MaxInvocations   \* bound on the calls

ASSUME MockAssumption ==
    /\ Nil \notin Outputs \cup Errors \cup {Zero, Default}
    /\ Zero \notin Outputs \cup Errors \cup {Default}
    /\ Default \notin Outputs
    /\ Quiescent \in BOOLEAN
    /\ MaxInvocations \in Nat

VARIABLES
    output,           \* Output.value
    inputs,           \* CalledWithInput.values
    err,              \* Error.err
    calls,            \* Error.calls
    maxCalls,         \* Error.maxCalls
    successfulCalls,
    failedCalls,
    pc,               \* where in Invoke each caller is
    result,           \* what each caller's last Invoke returned
    resetting,        \* how many steps of Reset are done, 0 outside it
    invocations,
    errored,          \* history: errors returned since Error.Reset
    popped,           \* history: inputs taken out since CalledWithInput.Reset
    owed,             \* history: an error was set and not returned since
    during            \* history: the outputs of each caller's last call, from
                      \* its start to its return

fields == <<output, inputs, err, calls, maxCalls, successfulCalls, failedCalls>>
history == <<errored, popped, owed, during>>
vars == <<fields, pc, result, resetting, invocations, history>>

Steps == {"idle", "failing", "unfailed", "recorded", "succeeding", "cloning", "default"}

Step(c, to) == pc' = [pc EXCEPT ![c] = to]
Return(c, value) == Step(c, "idle") /\ result' = [result EXCEPT ![c] = value]

\* The test or Reset puts o into Output, possibly nil, while calls are on.
Output(o) ==
    /\ output' = o
    /\ during' = [c \in Callers |-> IF pc[c] = "idle" THEN during[c] ELSE during[c] \cup {o}]

-----------------------------------------------------------------------------
(* Invoke, one access to a field at a time.                                *)

\* Plausible bug: off by one in the comparison with the maximum.
RemainingMutant == calls <= maxCalls

\* Error.Get: whether the error is still to be returned.
Remaining == calls < maxCalls

\* Invoke starts with Error.Get, which counts itself as a call.
GetError(c) ==
    /\ pc[c] = "idle"
    /\ invocations < MaxInvocations
    /\ Quiescent => resetting = 0
    /\ invocations' = invocations + 1
    /\ calls' = IF Remaining THEN calls + 1 ELSE calls
    /\ IF Remaining /\ err # Nil
       THEN Step(c, "failing") /\ errored' = errored + 1 /\ owed' = FALSE
       ELSE Step(c, "unfailed") /\ UNCHANGED <<errored, owed>>
    /\ during' = [during EXCEPT ![c] = {output}]
    /\ UNCHANGED <<output, inputs, err, maxCalls, successfulCalls, failedCalls, result, resetting, popped>>

\* Plausible bug: a call that fails is not counted.
CountFailureMutant(c) ==
    /\ pc[c] = "failing"
    /\ Return(c, Nil)
    /\ UNCHANGED <<fields, resetting, invocations, history>>

\* failedCalls.Add(1); the caller gets the error and no output.
CountFailure(c) ==
    /\ pc[c] = "failing"
    /\ failedCalls' = failedCalls + 1
    /\ Return(c, Nil)
    /\ UNCHANGED <<output, inputs, err, calls, maxCalls, successfulCalls, resetting, invocations, history>>

\* CalledWithInput.Add
Record(c) ==
    /\ pc[c] = "unfailed"
    /\ inputs' = Append(inputs, c)
    /\ Step(c, "recorded")
    /\ UNCHANGED <<output, err, calls, maxCalls, successfulCalls, failedCalls, result, resetting, invocations, history>>

\* Plausible bug: the check is left out.
CheckOutputMutant(c) ==
    /\ pc[c] = "recorded"
    /\ Step(c, "succeeding")
    /\ UNCHANGED <<fields, result, resetting, invocations, history>>

\* Output.IsNil
CheckOutput(c) ==
    /\ pc[c] = "recorded"
    /\ Step(c, IF output # Nil THEN "succeeding" ELSE "default")
    /\ UNCHANGED <<fields, result, resetting, invocations, history>>

CountSuccess(c) ==
    /\ pc[c] = "succeeding"
    /\ successfulCalls' = successfulCalls + 1
    /\ Step(c, "cloning")
    /\ UNCHANGED <<output, inputs, err, calls, maxCalls, failedCalls, result, resetting, invocations, history>>

\* Through JSON, nil becomes a pointer to the zero value.
Cloned(v) == IF v = Nil THEN Zero ELSE v

\* Output.Clone
CloneOutput(c) ==
    /\ pc[c] = "cloning"
    /\ Return(c, Cloned(output))
    /\ UNCHANGED <<fields, resetting, invocations, history>>

\* The default transformer succeeds or fails, and is counted accordingly.
Transform(c) ==
    /\ pc[c] = "default"
    /\ \/ successfulCalls' = successfulCalls + 1 /\ Return(c, Default) /\ UNCHANGED failedCalls
       \/ failedCalls' = failedCalls + 1 /\ Return(c, Nil) /\ UNCHANGED successfulCalls
    /\ UNCHANGED <<output, inputs, err, calls, maxCalls, resetting, invocations, history>>

-----------------------------------------------------------------------------
(* The test: it scripts the function, looks at it and resets it.           *)

\* Output.Set takes a pointer, and nil is one: the default transformer again.
SetOutput(o) ==
    /\ resetting = 0
    /\ Output(o)
    /\ UNCHANGED <<inputs, err, calls, maxCalls, successfulCalls, failedCalls, pc, result, resetting, invocations, errored, popped, owed>>

\* Plausible bug: every Set allows for one more.
SetErrorMutant(e) ==
    /\ resetting = 0
    /\ err' = e
    /\ maxCalls' = maxCalls + 1
    /\ owed' = (e # Nil)
    /\ UNCHANGED <<output, inputs, calls, successfulCalls, failedCalls, pc, result, resetting, invocations, errored, popped, during>>

\* Error.Set, which takes nil as well.  Options that set another maximum cannot be written outside
\* the package, and it has none.
SetError(e) ==
    /\ resetting = 0
    /\ err' = e
    /\ maxCalls' = IF maxCalls = 0 THEN 1 ELSE maxCalls
    /\ owed' = (e # Nil)
    /\ UNCHANGED <<output, inputs, calls, successfulCalls, failedCalls, pc, result, resetting, invocations, errored, popped, during>>

\* CalledWithInput.Pop, of a list that is not empty.
Pop ==
    /\ resetting = 0
    /\ inputs # <<>>
    /\ inputs' = SubSeq(inputs, 1, Len(inputs) - 1)
    /\ popped' = popped + 1
    /\ UNCHANGED <<output, err, calls, maxCalls, successfulCalls, failedCalls, pc, result, resetting, invocations, errored, owed, during>>

\* Reset: five fields one after the other.
ResetOutput ==
    /\ resetting = 0
    /\ Quiescent => \A c \in Callers : pc[c] = "idle"
    /\ Output(Nil)
    /\ resetting' = 1
    /\ UNCHANGED <<inputs, err, calls, maxCalls, successfulCalls, failedCalls, pc, result, invocations, errored, popped, owed>>

ResetInputs ==
    /\ resetting = 1
    /\ inputs' = <<>>
    /\ popped' = 0
    /\ resetting' = 2
    /\ UNCHANGED <<output, err, calls, maxCalls, successfulCalls, failedCalls, pc, result, invocations, errored, owed, during>>

ResetError ==
    /\ resetting = 2
    /\ err' = Nil /\ calls' = 0 /\ maxCalls' = 0
    /\ errored' = 0 /\ owed' = FALSE
    /\ resetting' = 3
    /\ UNCHANGED <<output, inputs, successfulCalls, failedCalls, pc, result, invocations, popped, during>>

ResetSuccessfulCalls ==
    /\ resetting = 3
    /\ successfulCalls' = 0
    /\ resetting' = 4
    /\ UNCHANGED <<output, inputs, err, calls, maxCalls, failedCalls, pc, result, invocations, history>>

ResetFailedCalls ==
    /\ resetting = 4
    /\ failedCalls' = 0
    /\ resetting' = 0
    /\ UNCHANGED <<output, inputs, err, calls, maxCalls, successfulCalls, pc, result, invocations, history>>

-----------------------------------------------------------------------------

Init ==
    /\ output = Nil
    /\ inputs = <<>>
    /\ err = Nil
    /\ calls = 0
    /\ maxCalls = 0
    /\ successfulCalls = 0
    /\ failedCalls = 0
    /\ pc = [c \in Callers |-> "idle"]
    /\ result = [c \in Callers |-> Nil]
    /\ resetting = 0
    /\ invocations = 0
    /\ errored = 0
    /\ popped = 0
    /\ owed = FALSE
    /\ during = [c \in Callers |-> {}]

Invoke(c) ==
    \/ GetError(c)
    \/ CountFailure(c)
    \/ Record(c)
    \/ CheckOutput(c)
    \/ CountSuccess(c)
    \/ CloneOutput(c)
    \/ Transform(c)

Reset ==
    \/ ResetOutput
    \/ ResetInputs
    \/ ResetError
    \/ ResetSuccessfulCalls
    \/ ResetFailedCalls

Next ==
    \/ \E c \in Callers : Invoke(c)
    \/ \E o \in Outputs \cup {Nil} : SetOutput(o)
    \/ \E e \in Errors \cup {Nil} : SetError(e)
    \/ Pop
    \/ Reset

Spec == Init /\ [][Next]_vars

-----------------------------------------------------------------------------
(* What tests rely on.                                                     *)

\* Every variable has its type.
TypeOK ==
    /\ output \in Outputs \cup {Nil}
    /\ inputs \in Seq(Callers)
    /\ err \in Errors \cup {Nil}
    /\ calls \in Nat
    /\ maxCalls \in {0, 1}
    /\ successfulCalls \in Nat
    /\ failedCalls \in Nat
    /\ pc \in [Callers -> Steps]
    /\ result \in [Callers -> Outputs \cup {Nil, Zero, Default}]
    /\ resetting \in 0 .. 4
    /\ invocations \in Nat
    /\ errored \in Nat
    /\ popped \in Nat
    /\ owed \in BOOLEAN
    /\ during \in [Callers -> SUBSET (Outputs \cup {Nil})]

\* However many callers race for it, an error that is set is returned to one
\* of them at most, until the function is reset (Get counts under the lock).
ErrorOnce == errored <= 1

\* Callers that have not been counted yet.
Uncounted == {c \in Callers : pc[c] \in {"failing", "recorded", "succeeding", "default"}}

\* Calls() and the list of inputs agree, whatever interleaves: every call that
\* got past Error.Get has left its input or the error, and is counted once as
\* successful or failed, or is about to be.  Resets between calls keep that.
CallsAccounted ==
    resetting = 0 =>
        successfulCalls + failedCalls + Cardinality(Uncounted) = Len(inputs) + popped + errored

\* Setting the output while calls are on: an Invoke returns an output that was
\* set at some moment of the call, what the default transformer made only if
\* the output was nil at some moment of it, and a zero value only if a Set(nil)
\* or a Reset met the call between its IsNil and its Clone: never an output of
\* before the call, and never a zero value when the output stood still.
ReturnsOutputOfCall ==
    \A c \in Callers :
        pc[c] = "idle" =>
            /\ result[c] \in Outputs => result[c] \in during[c]
            /\ result[c] = Default => Nil \in during[c]
            /\ result[c] = Zero => Nil \in during[c] /\ during[c] \cap Outputs # {}

\* "It makes setting and retrieving the values race free": of the two locks of
\* an Invoke each is, and yet a zero value that nobody set may be returned.
ReturnsWhatWasSet == \A c \in Callers : result[c] # Zero

\* "Error to return a certain number of times": an error that was set and not
\* returned since is what the next Invoke returns.
SetErrorReturned ==
    [][\A c \in Callers : owed /\ GetError(c) => pc'[c] = "failing"]_vars
=============================================================================
