------------------------ MODULE PartialUnstructured -------------------------
(***************************************************************************)
(* The partial conversion of an object (src/unstructured/unstructured.go)  *)
(* and the metric labels that the status controller takes from it.         *)
(*                                                                         *)
(* A document is the set of the paths of its leaves.  Every field path is  *)
(* read from the object and merged into the result, one path after the     *)
(* other, in the order in which a Go map yields them, which is any order.  *)
(* The merge is shallow: it replaces what the result holds under the first *)
(* two names of the path.  A path of one name puts the object's own value  *)
(* into the result, and when that is a map a later merge writes into it.   *)
(***************************************************************************)
EXTENDS Integers, Sequences

CONSTANTS
    Names,      \* names of fields
    Documents,  \* the objects, as sets of paths
    FieldSets,  \* the sets of field paths that are asked for
    MaxCalls    \* bound on the conversions of one object

Paths == {p \in Seq(Names) : Len(p) > 0}

ASSUME DocumentsAssumption ==
    /\ \A d \in Documents : \A l \in d : l \in Paths
    /\ \A fs \in FieldSets : \A p \in fs : p \in Paths
    /\ MaxCalls \in Nat

VARIABLES
    original,  \* history: the object before the first conversion
    source,    \* the object
    typed,     \* whether it is a Go struct, not an Unstructured
    fields,    \* the field paths of the controller's options
    todo,      \* the paths that are still to be extracted
    result,
    whole,     \* paths of one name whose value is the object's own
    panicked,
    calls

object == <<original, typed, fields>>
vars == <<object, source, todo, result, whole, panicked, calls>>

-----------------------------------------------------------------------------
(* Documents.                                                              *)

\* Whether path p leads to l or to something that contains l.
Leads(p, l) == Len(p) <= Len(l) /\ \A i \in 1 .. Len(p) : p[i] = l[i]

\* The field at p with all that it contains, found by its Go or JSON name in
\* a struct, by its key in a map.
At(doc, p) == {l \in doc : Leads(p, l)}

\* Assign a value, given by its leaves, to the field at p.
Put(doc, p, value) == (doc \ At(doc, p)) \cup value

-----------------------------------------------------------------------------
(* ToPartialUnstructured.                                                  *)

Convert ==
    /\ calls < MaxCalls
    /\ todo = {}
    /\ ~panicked
    /\ calls' = calls + 1
    /\ todo' = fields
    /\ result' = {}
    /\ whole' = {}
    /\ UNCHANGED <<object, source, panicked>>

\* The field does not exist: the error is dropped, the result stays.
ExtractMissing(p) ==
    /\ p \in todo
    /\ At(source, p) = {}
    /\ todo' = todo \ {p}
    /\ UNCHANGED <<object, source, result, whole, panicked, calls>>

\* Plausible bug: every value is taken from the top of the object.
ExtractTopMutant(p) ==
    /\ p \in todo
    /\ At(source, p) # {}
    /\ todo' = todo \ {p}
    /\ result' = Put(result, <<p[1]>>, At(source, <<p[1]>>))
    /\ whole' = whole \cup {p}
    /\ UNCHANGED <<object, source, panicked, calls>>

\* A path of one name: the value itself goes into the result.
ExtractTop(p) ==
    /\ p \in todo
    /\ Len(p) = 1
    /\ At(source, p) # {}
    /\ todo' = todo \ {p}
    /\ result' = Put(result, p, At(source, p))
    /\ whole' = whole \cup {p}
    /\ UNCHANGED <<object, source, panicked, calls>>

\* Plausible bug: the maps on the way are those of the object, not new ones.
ExtractNestedShared(p) ==
    LET key == <<p[1], p[2]>>
        value == At(source, p)
    IN  /\ p \in todo
        /\ Len(p) > 1
        /\ value # {}
        /\ todo' = todo \ {p}
        /\ result' = Put(result, key, value)
        /\ source' = Put(source, key, value)
        /\ UNCHANGED <<object, whole, panicked, calls>>

\* Plausible bug: the merge replaces the whole field of the first name.
ExtractNestedMutant(p) ==
    /\ p \in todo
    /\ Len(p) > 1
    /\ At(source, p) # {}
    /\ todo' = todo \ {p}
    /\ result' = Put(result, <<p[1]>>, At(source, p))
    /\ UNCHANGED <<object, source, whole, panicked, calls>>

\* A longer path: the value, in maps of its own, replaces what the result has
\* under the first two names.  If the first name holds the object's own value,
\* that is no map in a struct and the merge panics; in an Unstructured it is,
\* and the merge changes the object.
ExtractNested(p) ==
    LET key == <<p[1], p[2]>>
        value == At(source, p)
        shared == <<p[1]>> \in whole
    IN  /\ p \in todo
        /\ Len(p) > 1
        /\ value # {}
        /\ todo' = todo \ {p}
        /\ panicked' = (shared /\ typed)
        /\ result' = IF shared /\ typed THEN result ELSE Put(result, key, value)
        /\ source' = IF shared /\ ~typed THEN Put(source, key, value) ELSE source
        /\ UNCHANGED <<object, whole, calls>>

\* toAdditionalMetricLabels: the fields whose label has a value, the others
\* get an empty one.
AdditionalMetricLabels == fields \cap result

Init ==
    /\ original \in Documents
    /\ source = original
    /\ typed \in BOOLEAN
    /\ fields \in FieldSets
    /\ todo = {}
    /\ result = {}
    /\ whole = {}
    /\ panicked = FALSE
    /\ calls = 0

Next ==
    \/ Convert
    \/ /\ ~panicked
       /\ \E p \in todo : ExtractMissing(p) \/ ExtractTop(p) \/ ExtractNested(p)

Spec == Init /\ [][Next]_vars

-----------------------------------------------------------------------------
(* What the conversion must satisfy.                                       *)

\* Every variable has its type.
TypeOK ==
    /\ original \in Documents
    /\ source \subseteq Paths
    /\ typed \in BOOLEAN
    /\ fields \in FieldSets
    /\ todo \subseteq fields
    /\ result \subseteq Paths
    /\ whole \subseteq fields
    /\ panicked \in BOOLEAN
    /\ calls \in Nat

Finished == calls > 0 /\ todo = {} /\ ~panicked

\* The part of the object that the fields ask for.
Requested == {l \in original : \E p \in fields : Leads(p, l)}

\* Two paths that the merge keeps apart.
Apart(p, q) ==
    \/ p[1] # q[1]
    \/ Len(p) > 1 /\ Len(q) > 1 /\ p[2] # q[2]

Separate == \A p, q \in fields : p = q \/ Apart(p, q)

\* Field paths that differ within their first two names are converted exactly,
\* however many there are and in whatever order the map yields them, so that
\* each evaluation of an object's labels gives the same ones.
ConvertsExactly ==
    Separate /\ Finished =>
        result = Requested /\ AdditionalMetricLabels = fields \cap original

\* For such paths the conversion neither panics nor changes the object, which
\* the controller goes on to use and to remember.
ConversionIsPure ==
    Separate => source = original /\ ~panicked

\* Whatever the paths, the order and the number of conversions, nothing comes
\* into the result that was not asked for or that the object did not have.
OnlyRequested == result \subseteq Requested /\ source \subseteq original

\* "converts an object to unstructured, but only converts specific field
\* paths": each of the paths that were asked for is converted.
FieldsConverted ==
    Finished => \A p \in fields : At(original, p) \subseteq result
=============================================================================
