----------------------------- MODULE Comparison -----------------------------
(***************************************************************************)
(* How the rest-dynamic-controller decides whether a resource is what its  *)
(* CR asks for: comparison.CompareExisting on the spec, or the part of it  *)
(* compareScope leaves, and on the observed body.                          *)
(*                                                                         *)
(* A JSON value is a node: its kind, the scalar it is, and its parts, by   *)
(* key for an object and by index for a list.  Keys are numbers, in the    *)
(* order sort.Strings puts them in.                                        *)
(***************************************************************************)
EXTENDS Integers, Sequences, SequencesExt

CONSTANTS
    Nodes,      \* the values that are compared, closed under their parts
    Inferred    \* what InferType takes the text of each value for

Null      == [kind |-> "null", is |-> "null", parts |-> <<>>]
Scalar(s) == [kind |-> "scalar", is |-> s, parts |-> <<>>]
List(f)   == [kind |-> "list", is |-> "list", parts |-> f]
Object(f) == [kind |-> "object", is |-> "object", parts |-> f]

\* A result names the path of the first difference, or of the shapes that cannot
\* be compared.
Equal          == [as |-> "equal", at |-> <<>>]
Differs        == [as |-> "differs", at |-> <<>>]
CannotCompare  == [as |-> "error", at |-> <<>>]
Under(k, r)    == [r EXCEPT !.at = <<k>> \o @]

\* InferType of what a value is printed as, as a table: a text is the number, the
\* truth value, the string, the list or the object it reads as, so several texts are
\* one value, and a scalar may read as a list does.
InferType(n) == Inferred[n]

\* CompareAny: a scalar and whatever is there, by their texts.
SameScalar(a, b) == InferType(a) = InferType(b)

\* Mutant of Settled: an object that was emptied is taken for having no opinion.
SettledLeniently(a, b) == a.kind = "list" /\ DOMAIN a.parts # DOMAIN b.parts

\* What decides before any part is looked at: a populated object against an empty
\* one, and lists of different lengths.
Settled(a, b) ==
    \/ a.kind = "object" /\ DOMAIN a.parts # {} /\ DOMAIN b.parts = {}
    \/ a.kind = "list" /\ DOMAIN a.parts # DOMAIN b.parts

\* The parts are walked in the order of their keys or indices, and the first that is
\* not equal is the answer.
FirstDifference(result) ==
    LET differing == {k \in DOMAIN result : result[k].as # "equal"}
        first     == CHOOSE k \in differing : \A l \in differing : k <= l
    IN  IF differing = {} THEN Equal ELSE Under(first, result[first])

\* A key only one side has is skipped.
CompareExisting[a \in Nodes, b \in Nodes] ==
    IF a.kind = "null" \/ b.kind = "null" THEN IF a.kind = b.kind THEN Equal ELSE Differs
    ELSE IF a.kind = "scalar" THEN IF SameScalar(a, b) THEN Equal ELSE Differs
    ELSE IF a.kind # b.kind THEN CannotCompare
    ELSE IF Settled(a, b) THEN Differs
    ELSE FirstDifference([k \in DOMAIN a.parts \cap DOMAIN b.parts |->
                             CompareExisting[a.parts[k], b.parts[k]]])

\* projectSpecFields: what is left of an object on the given paths.  A path that
\* is not there contributes nothing.
Missing == [kind |-> "missing", is |-> "missing", parts |-> <<>>]
NodeAt(node, path) ==
    FoldLeft(LAMBDA n, k : IF n.kind = "object" /\ k \in DOMAIN n.parts THEN n.parts[k] ELSE Missing,
             node, path)

ProjectSpecFields[node \in Nodes, paths \in SUBSET Seq(Int)] ==
    LET present == {p \in paths : NodeAt(node, p).kind # "missing"}
        kept    == {Head(p) : p \in present}
    IN  Object([k \in kept |->
            IF <<k>> \in present THEN node.parts[k]
            ELSE ProjectSpecFields[node.parts[k], {Tail(p) : p \in {q \in present : q[1] = k}}]])

-----------------------------------------------------------------------------
(* The reference: two documents differ where a path both have leads to     *)
(* values that cannot be the same, a scalar and one that does not read as  *)
(* it among them, and the first such path is reported.                     *)

PartOf(n, k)   == IF k \in DOMAIN n.parts THEN n.parts[k] ELSE Missing
Follow(n, p)   == FoldLeft(PartOf, n, p)

Clash(a, b) ==
    /\ a.kind # "missing" /\ b.kind # "missing"
    /\ IF a.kind = "scalar" /\ b.kind # "null" THEN Inferred[a] # Inferred[b]
       ELSE
       \/ a.kind # b.kind
       \/ a.kind = "object" /\ DOMAIN a.parts # {} /\ DOMAIN b.parts = {}
       \/ a.kind = "list" /\ DOMAIN a.parts # DOMAIN b.parts

Clashes(a, b, paths) == {p \in paths : Clash(Follow(a, p), Follow(b, p))}

\* p comes before q in the order the documents are walked.
Before(p, q) ==
    \/ IsPrefix(p, q)
    \/ \E i \in 1 .. Len(p) :
          /\ i <= Len(q) /\ p[i] < q[i]
          /\ \A j \in 1 .. i - 1 : p[j] = q[j]
=============================================================================
