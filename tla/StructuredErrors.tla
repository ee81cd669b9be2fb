-------------------------- MODULE StructuredErrors --------------------------
(***************************************************************************)
(* Structured errors (src/serrors), the values the logger takes from them  *)
(* and the AWS middleware that wraps the SDK's errors (src/aws/middleware).*)
(*                                                                         *)
(* Errors are built bottom-up, so errs is the sequence of all errors made  *)
(* so far and an error wraps earlier ones only.  An *Error carries values  *)
(* and is shared by all that wrap it: WithValues changes it in place.  A   *)
(* value is the number of the operation that made it.                      *)
(***************************************************************************)
EXTENDS Integers, SequencesExt

CONSTANTS
    Keys,    \* the keys that callers use
    MaxOps   \* bound on the operations

\* The keys that the AWS middleware uses are its own.
ASSUME KeysApart == Keys \cap {"operation", "response", "api"} = {}

VARIABLES errs, ops

vars == <<errs, ops>>

NoValues == [k \in {} |-> 0]

\* The AWS SDK's errors carry an answer: a request id or an error code.
Node(kind, of) == [kind |-> kind, of |-> of, values |-> NoValues, answer |-> ops + 1]

Add(node) == errs' = Append(errs, node)

-----------------------------------------------------------------------------
(* Errors of other packages.                                               *)

\* errors.New, smithy.GenericAPIError: they wrap nothing.
New == \E kind \in {"plain", "api"} : Add(Node(kind, <<>>))

\* fmt.Errorf with %w, http.ResponseError: they wrap one error.
WrapOne(e) == \E kind \in {"fmt", "response"} : Add(Node(kind, <<e>>))

\* Plausible bug: the elements of a join are not looked at.
ElementsMutant(e) == <<e>>

\* multierr.Errors: the elements of a join, else the error itself.
Elements(e) == IF errs[e].kind = "join" THEN errs[e].of ELSE <<e>>

\* errors.Join nests what it joins, multierr.Append takes over the elements of
\* other multierrs; either may join an error with itself.  errors.Unwrap of a
\* join is nil.
Join(e, f) ==
    \E left \in {<<e>>, Elements(e)}, right \in {<<f>>, Elements(f)} :
        Add(Node("join", left \o right))

-----------------------------------------------------------------------------
(* serrors.                                                                *)

\* The values of an error after WithValues: a key that is there is replaced.
WithPairs(values, pairs) ==
    [k \in DOMAIN values \cup DOMAIN pairs |-> IF k \in DOMAIN pairs THEN pairs[k] ELSE values[k]]

Wrap(e, pairs) == Add([Node("Error", <<e>>) EXCEPT !.values = WithPairs(NoValues, pairs)])

WithValues(e, pairs) ==
    /\ errs[e].kind = "Error"
    /\ errs' = [errs EXCEPT ![e].values = WithPairs(@, pairs)]

\* errors.Unwrap: the wrapped error, none of a join.
Unwrap(e) == IF errs[e].kind = "join" THEN <<>> ELSE errs[e].of

\* The errors that a loop over errors.Unwrap sees, from the outside in.
chain[e \in 1 .. Len(errs)] ==
    <<e>> \o (IF Unwrap(e) = <<>> THEN <<>> ELSE chain[Unwrap(e)[1]])

\* The errors that the loop of UnwrapValues looks at.
visited[e \in 1 .. Len(errs)] ==
    Elements(e) \o (IF Unwrap(e) = <<>> THEN <<>> ELSE visited[Unwrap(e)[1]])

\* The members of S in a sequence, appended one by one.
Collected(s, S) ==
    LET collected[n \in 0 .. Len(s)] ==
            IF n = 0 THEN <<>>
            ELSE IF s[n] \in S THEN Append(collected[n - 1], s[n])
            ELSE collected[n - 1]
    IN  collected[Len(s)]

\* Structured errors with a value for k.
Carrying(k) == {i \in 1 .. Len(errs) : errs[i].kind = "Error" /\ k \in DOMAIN errs[i].values}

\* The errors that UnwrapValues takes values for k from, in the order of the
\* list it makes; with two or more the key gets a plural s.
UnwrapValues(e, k) == Collected(visited[e], Carrying(k))

-----------------------------------------------------------------------------
(* StructuredErrorHandler.                                                 *)

\* The turns of the handler's loop that meet the SDK's errors of a kind.
Met(e, kind) == {n \in 1 .. Len(chain[e]) : errs[chain[e][n]].kind = kind}

\* Plausible bug: the loop stops at the first answer.
AnswerMutant(e, kind) == errs[chain[e][Min(Met(e, kind))]].answer

\* Of several answers the last one stays: pairs replace those before them.
Answer(e, kind) == errs[chain[e][Max(Met(e, kind))]].answer

\* The service and the operation are always among the values.
HandleDeserialize(e) ==
    LET answered == {kind \in {"response", "api"} : Met(e, kind) # {}}
    IN  Wrap(e, [k \in answered \cup {"operation"} |->
                    IF k = "operation" THEN ops + 1 ELSE Answer(e, k)])

-----------------------------------------------------------------------------

Init ==
    /\ ops = 0
    /\ errs = <<Node("plain", <<>>)>>

Next ==
    /\ ops < MaxOps
    /\ ops' = ops + 1
    /\ \/ New
       \/ \E e \in 1 .. Len(errs) :
             \/ WrapOne(e)
             \/ \E f \in 1 .. Len(errs) : Join(e, f)
             \/ \E k \in Keys : Wrap(e, [j \in {k} |-> ops + 1])
             \/ \E k \in Keys : WithValues(e, [j \in {k} |-> ops + 1])
             \/ HandleDeserialize(e)

Spec == Init /\ [][Next]_vars

-----------------------------------------------------------------------------
(* What must be reported.                                                  *)

AllKeys == Keys \cup {"operation", "response", "api"}

\* All that an error wraps, itself included.
reach[e \in 1 .. Len(errs)] == {e} \cup UNION {reach[j] : j \in ToSet(errs[e].of)}

Carriers(e, k) == reach[e] \cap Carrying(k)

\* No element of a join wraps a structured error in its turn.
FlatJoins(e) ==
    \A j \in reach[e] : errs[j].kind = "join" =>
        \A c \in ToSet(errs[j].of) : \A i \in reach[c] \ {c} : errs[i].kind # "Error"

\* Some join that e wraps has c among its elements more than once.
JoinedTwice(c, e) ==
    \E j \in reach[e] :
        /\ errs[j].kind = "join"
        /\ \E p, q \in 1 .. Len(errs[j].of) : p < q /\ errs[j].of[p] = c /\ errs[j].of[q] = c

\* UnwrapValues misses nothing, repeats only errors that were joined with
\* themselves, and lists the values of a key from the outermost error to the
\* innermost, however the errors were nested and changed after they were
\* wrapped, as long as joins are flat.
ReportsWrapped ==
    \A e \in 1 .. Len(errs), k \in AllKeys : FlatJoins(e) =>
        LET found == UnwrapValues(e, k)
        IN  /\ ToSet(found) = Carriers(e, k)
            /\ \A i, j \in 1 .. Len(found) : i < j =>
                  \/ found[i] \notin reach[found[j]]
                  \/ found[i] = found[j] /\ JoinedTwice(found[i], e)

\* "returns a combined set of keys and values from every wrapped error".
EveryWrapped ==
    \A e \in 1 .. Len(errs), k \in AllKeys : ToSet(UnwrapValues(e, k)) = Carriers(e, k)

\* An error that went through the middleware reports the innermost answer that
\* it wraps, however many answers there are on the way to it and whatever was
\* wrapped around it afterwards, as long as no join hides them.
AnswerReported ==
    \A e \in 1 .. Len(errs), m \in 1 .. Len(errs) :
        m \in ToSet(chain[e]) /\ "operation" \in DOMAIN errs[m].values =>
            \A i \in ToSet(chain[m]) :
                errs[i].kind \in {"response", "api"} =>
                    LET kind == errs[i].kind
                    IN  /\ m \in ToSet(UnwrapValues(e, kind))
                        /\ errs[m].values[kind] <= errs[i].answer
=============================================================================
