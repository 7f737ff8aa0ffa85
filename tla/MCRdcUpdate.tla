---------------------------- MODULE MCRdcUpdate ----------------------------
(* RdcUpdate on documents of three fields: a scalar, an object and a list,  *)
(* and an API for each way an update can miss its mark.                     *)
EXTENDS RdcUpdate, TLC

CONSTANTS theSecret, fullSpec

Scalars == {"a", "a as a number", "[]", "tick", "tock"}

A == Scalar("a")
B == Scalar("[]")
Doc(f1, f2, f3) == Object(1 :> f1 @@ 2 :> f2 @@ 3 :> f3)
ItemA    == List(0 :> A)
NoItem   == List(<<>>)
ItemsAB  == List(0 :> A @@ 1 :> B)
SubA     == Object(1 :> A)
Empty    == Object(<<>>)

Asked      == Doc(A, SubA, ItemA)
AskedLater == Doc(B, SubA, NoItem)
TwoDocs    == {Asked, AskedLater}
AllPaths    == {<<>>, <<1>>, <<2>>, <<3>>, <<1, 1>>, <<2, 1>>, <<3, 0>>, <<3, 1>>}

\* What an API that does as it is told answers with.
Told(s) == [s EXCEPT !.parts[1] = IF @ = A THEN Scalar("a as a number") ELSE @]
But(k, v, s) == [Told(s) EXCEPT !.parts[k] = v]

\* A kind whose API answers Answer(spec) whatever the resource was.
Kind(bodies, Answer(_), scope) ==
    [bodies |-> bodies, created |-> [s \in TwoDocs |-> Answer(s)],
     updated |-> [x \in bodies \X TwoDocs |-> Answer(x[2])],
     moves |-> [x \in bodies |-> {}], scope |-> scope]

\* compareScope updatable, for an update whose body carries the last two fields.
LastTwo == {<<2, 1>>, <<3>>}

\* Obedient APIs, over a resource somebody else made and changes.
Reshaped(s)  == But(1, SubA, s)
Flattened(s) == But(2, A, s)
Hidden(s)    == Object([k \in {1, 3} |-> Told(s).parts[k]])
Strange      == {Reshaped(Asked), Flattened(Asked), Hidden(Asked), But(2, Empty, Asked),
                 But(2, Null, Asked), But(3, ItemsAB, Asked),
                 But(1, NoItem, AskedLater), But(1, ItemA, AskedLater)}

Obedient  == Kind(Strange \cup {Told(s) : s \in TwoDocs}, Told, fullSpec)

\* An API that answers in another shape than it is asked in; where compareScope
\* leaves the field out; and where the shapes cannot be compared.
Reshaping  == Kind({Reshaped(s) : s \in TwoDocs}, Reshaped, fullSpec)
Excluded   == Kind({Reshaped(s) : s \in TwoDocs}, Reshaped, LastTwo)
Flattening == Kind({Flattened(s) : s \in TwoDocs}, Flattened, fullSpec)

\* An API whose first field moves by itself, and never to what the spec says.
Ticking ==
    LET Tick(s)  == But(1, Scalar("tick"), s)
        Other(x) == [x EXCEPT !.parts[1] = Scalar(IF @.is = "tick" THEN "tock" ELSE "tick")]
        ticks    == {Tick(s) : s \in TwoDocs}
        bodies   == ticks \cup {Other(x) : x \in ticks}
    IN  [Kind(bodies, Tick, fullSpec) EXCEPT !.moves = [x \in bodies |-> {Other(x)}]]

\* An API on which setting one of two fields resets the other.
Alternating ==
    LET Set1(s) == But(3, IF s = Asked THEN NoItem ELSE ItemA, s)
        Set3(s) == But(1, IF s = Asked THEN B ELSE A, s)
        bodies  == {Set1(s) : s \in TwoDocs} \cup {Set3(s) : s \in TwoDocs}
    IN  [Kind(bodies, Set1, fullSpec) EXCEPT
            !.updated = [x \in bodies \X TwoDocs |->
                            IF x[1] = Set1(x[2]) THEN Set3(x[2]) ELSE Set1(x[2])]]

AllApis == [obedient |-> Obedient, reshaping |-> Reshaping, excluded |-> Excluded,
            flattening |-> Flattening, ticking |-> Ticking, alternating |-> Alternating]
AllKinds == DOMAIN AllApis

Documents == TwoDocs \cup {Object([k \in {2, 3} |-> s.parts[k]]) : s \in TwoDocs}
                      \cup UNION {AllApis[x].bodies : x \in AllKinds}
AllNodes  == Documents \cup UNION {{d.parts[k] : k \in DOMAIN d.parts} : d \in Documents}
                       \cup {Scalar(s) : s \in Scalars}

\* Inference makes one value of a text and of a number that reads the same, and of a
\* text and of the list that is printed so.
TypedNodes ==
    [n \in AllNodes |-> IF n = Scalar("a as a number") THEN "a"
                        ELSE IF n.kind = "scalar" THEN n.is
                        ELSE IF n = NoItem THEN "[]" ELSE "printed otherwise"]

AllSpecs  == {[doc |-> Asked, refs |-> {}], [doc |-> AskedLater, refs |-> {theSecret}]}
OneSecret == {theSecret}
=============================================================================
