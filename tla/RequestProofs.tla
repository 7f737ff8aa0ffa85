--------------------------- MODULE RequestProofs ----------------------------
(***************************************************************************)
(* Theorems about what a request of the controller is made from and what   *)
(* its answers are read for: KindContract, for every set of definitions    *)
(* and every bound, and FindByWalk, for every set of APIs and every bound. *)
(***************************************************************************)
EXTENDS KindContract, FindByWalk, TLAPS

-----------------------------------------------------------------------------
(***************************************************************************)
(* KindContract.  What a definition is made of.                            *)
(***************************************************************************)
\* The parts of a definition, one by one.
LEMMA DefinitionParts ==
    ASSUME NEW k \in Kinds
    PROVE  LET d == Def[k] IN
           /\ d.verbs \subseteq Actions
           /\ \A v \in Actions :
                 /\ d.document[v] \in Documents
                 /\ d.shared[v] \subseteq Params /\ d.params[v] \subseteq Params
                 /\ d.body[v] \subseteq Paths /\ d.bodyRequired[v] \subseteq Names
                 /\ d.answer[v] \subseteq Paths
           /\ d.mapped \subseteq Mappings /\ d.static \subseteq Statics
           /\ d.identifiers \subseteq Paths /\ d.additional \subseteq Paths
           /\ d.excluded \subseteq Paths /\ d.included \subseteq Paths
           /\ d.configured \subseteq Configurations
<1> DEFINE d == Def[k]
<1>1. d \in DefinitionRecords
  BY DefAssumption
<1>2. /\ d.verbs \in SUBSET Actions /\ d.document \in [Actions -> Documents]
      /\ d.shared \in [Actions -> SUBSET Params] /\ d.params \in [Actions -> SUBSET Params]
      /\ d.body \in [Actions -> SUBSET Paths] /\ d.bodyRequired \in [Actions -> SUBSET Names]
      /\ d.answer \in [Actions -> SUBSET Paths]
  BY <1>1 DEF DefinitionRecords
<1>3. /\ d.mapped \in SUBSET Mappings /\ d.static \in SUBSET Statics
      /\ d.identifiers \in SUBSET Paths /\ d.additional \in SUBSET Paths
      /\ d.excluded \in SUBSET Paths /\ d.included \in SUBSET Paths
      /\ d.configured \in SUBSET Configurations
  BY <1>1 DEF DefinitionRecords
<1> QED
  BY <1>2, <1>3

\* A path is its root and its leaf, and the path of a whole field covers only itself
\* among those of whole fields.
LEMMA PathFacts ==
    /\ \A n : Top(n).root = n /\ Top(n).leaf = Whole
    /\ \A n \in Roots : Top(n) \in Paths
    /\ \A q \in Paths : q.root \in Roots /\ (q.leaf = Whole => q = Top(q.root))
    /\ \A p \in Paths : \A n : Below(p, Top(n)) <=> p = Top(n)
<1>1. \A n : Top(n).root = n /\ Top(n).leaf = Whole
  BY DEF Top
<1>2. \A n \in Roots : Top(n) \in Paths
  BY DEF Top, Paths
<1>3. \A q \in Paths : q.root \in Roots /\ (q.leaf = Whole => q = Top(q.root))
  BY DEF Top, Paths
<1>4. \A p \in Paths : \A n : Below(p, Top(n)) <=> p = Top(n)
  BY DEF Below, Top, Paths
<1> QED
  BY <1>1, <1>2, <1>3, <1>4

\* Taking fields away leaves every whole field that is not named.
LEMMA WithoutFacts ==
    ASSUME NEW S, NEW P \in SUBSET Paths
    PROVE  /\ Without(S, P) \subseteq S
           /\ \A n : Top(n) \in S /\ Top(n) \notin P => Top(n) \in Without(S, P)
  BY PathFacts DEF Without

\* The parameters of a verb have names.
LEMMA ParametersTyped ==
    ASSUME NEW k \in Kinds, NEW v \in Actions
    PROVE  /\ ParamsOf(Def[k], v) \subseteq Params /\ Declared(Def[k], v) \subseteq Params
           /\ Own(Def[k], v) \subseteq Declared(Def[k], v)
           /\ RequiredOf(Own(Def[k], v)) \subseteq NamesOf(Own(Def[k], v))
           /\ NamesOf(Own(Def[k], v)) \subseteq Names
<1>1. ParamsOf(Def[k], v) \subseteq Params
  BY DefinitionParts DEF ParamsOf
<1>2. Declared(Def[k], v) \subseteq ParamsOf(Def[k], v)
  BY DEF Declared
<1>3. Own(Def[k], v) \subseteq Declared(Def[k], v)
  BY DEF Own
<1>4. \A p \in Params : p.name \in Names
  BY DEF Params
<1>5. RequiredOf(Own(Def[k], v)) \subseteq NamesOf(Own(Def[k], v))
  BY DEF RequiredOf, NamesOf
<1>6. NamesOf(Own(Def[k], v)) \subseteq Names
  BY <1>1, <1>2, <1>3, <1>4 DEF NamesOf
<1> QED
  BY <1>1, <1>2, <1>3, <1>5, <1>6

\* What a definition says of status, identifiers and the Configuration is made of paths.
LEMMA StatusTyped ==
    ASSUME NEW k \in Kinds
    PROVE  /\ StatusFields(Def[k]) \subseteq Paths /\ Selectors(Def[k]) \subseteq Paths
           /\ ConfiguredPaths(Def[k]) \subseteq Paths
           /\ Unmatchable(Def[k]) \subseteq Paths /\ Unanswered(Def[k]) \subseteq Paths
           /\ Base(Def[k]) \subseteq Paths /\ BaseRequired(Def[k]) \subseteq Names
<1>1. StatusFields(Def[k]) \subseteq Paths /\ Selectors(Def[k]) \subseteq Paths
  BY DefinitionParts DEF StatusFields, Selectors
<1>2. ConfiguredPaths(Def[k]) \subseteq Paths
  BY DefinitionParts, PathFacts DEF ConfiguredPaths, Configurations, Roots
<1>3. Unmatchable(Def[k]) \subseteq Paths
  BY DefinitionParts DEF Unmatchable
<1>4. Unanswered(Def[k]) \subseteq Paths
  BY <1>1 DEF Unanswered
<1>5. BaseVerb(Def[k]) \in Actions
  BY DEF BaseVerb, Actions
<1>6. Base(Def[k]) \subseteq Paths
  BY <1>5, DefinitionParts DEF Base
<1>7. BaseRequired(Def[k]) \subseteq Names
  BY <1>5, DefinitionParts DEF BaseRequired
<1> QED
  BY <1>1, <1>2, <1>3, <1>4, <1>6, <1>7

\* The warnings there are.
Codes == {"removed", "selector", "configured", "kept", "excluded", "shadowed", "source",
          "unmatchable", "status"}

\* A warning names a field.
LEMMA WarnTyped ==
    ASSUME NEW c \in Codes, NEW S \in SUBSET Roots
    PROVE  Warn(c, S) \subseteq Codes \X Roots
  BY DEF Warn

\* The roots of paths are roots.
LEMMA RootsTyped == ASSUME NEW S \in SUBSET Paths PROVE RootsOf(S) \subseteq Roots
  BY PathFacts DEF RootsOf


-----------------------------------------------------------------------------
(***************************************************************************)
(* KindContract.  Type correctness.                                        *)
(***************************************************************************)
\* What a definition's generation starts from.
LEMMA BeginTyped ==
    ASSUME NEW k \in Kinds
    PROVE  /\ Def[k].verbs \subseteq Actions
           /\ [n \in Names |-> NoOrigin]
                \in [Names -> {NoOrigin} \cup [document : Documents, type : Types]]
           /\ Base(Def[k]) \subseteq Paths /\ BaseRequired(Def[k]) \subseteq Roots
  BY DefinitionParts, StatusTyped DEF Roots

\* Merging the parameters of a verb keeps the types.
LEMMA AddParametersTyped ==
    ASSUME ContractTypeOK, NEW v \in Actions, AddParameters(v)
    PROVE  /\ stage' \in {"params", "refused"} /\ todo' \subseteq Actions
           /\ origin' \in [Names -> {NoOrigin} \cup [document : Documents, type : Types]]
           /\ spec' \subseteq Paths /\ required' \subseteq Roots /\ bound' \subseteq Names
           /\ UNCHANGED <<kind, warned>>
<1> USE DEF ContractTypeOK
<1>1. CASE Conflicting(v) # {}
  BY <1>1 DEF AddParameters
<1>2. CASE Conflicting(v) = {}
  <2>1. OriginAfter(v) \in [Names -> {NoOrigin} \cup [document : Documents, type : Types]]
    <3> DEFINE here(n) == {p \in Declared(D, v) : p.name = n}
               new(n) == IF Supplies(D, v, n) THEN origin[n] = NoOrigin ELSE Top(n) \notin spec
               first(n) == [document |-> D.document[v], type |-> (CHOOSE p \in here(n) : TRUE).type]
    <3>1. OriginAfter(v) = [n \in Names |-> IF here(n) # {} /\ new(n) THEN first(n) ELSE origin[n]]
      BY DEF OriginAfter
    <3>2. ASSUME NEW n \in Names, here(n) # {}
          PROVE  first(n) \in [document : Documents, type : Types]
      <4>1. (CHOOSE p \in here(n) : TRUE) \in here(n)
        BY <3>2
      <4>2. (CHOOSE p \in here(n) : TRUE) \in Params
        BY <4>1, ParametersTyped DEF D
      <4>3. (CHOOSE p \in here(n) : TRUE).type \in Types
        BY <4>2 DEF Params
      <4>4. D.document[v] \in Documents
        BY DefinitionParts DEF D
      <4> QED
        BY <4>3, <4>4
    <3>3. ASSUME NEW n \in Names
          PROVE  (IF here(n) # {} /\ new(n) THEN first(n) ELSE origin[n])
                   \in {NoOrigin} \cup [document : Documents, type : Types]
      <4> HIDE DEF here, new, first
      <4>1. CASE here(n) # {} /\ new(n)
        BY <3>2, <4>1
      <4>2. CASE ~(here(n) # {} /\ new(n))
        BY <4>2
      <4> QED
        BY <4>1, <4>2
    <3> HIDE DEF here, new, first
    <3> QED
      BY <3>1, <3>3
  <2>2. NamesOf(Own(D, v)) \subseteq Names /\ RequiredOf(Own(D, v)) \subseteq Names
    BY ParametersTyped DEF D
  <2>3. {Top(n) : n \in NamesOf(Own(D, v))} \subseteq Paths
    BY <2>2, PathFacts DEF Roots
  <2> QED
    BY <1>2, <2>1, <2>2, <2>3 DEF AddParameters, Roots
<1> QED
  BY <1>1, <1>2

\* Every step of the generation keeps the types.
LEMMA GenerateTyped ==
    ASSUME ContractTypeOK, Generate, UNCHANGED <<crd, crdRequired, resource, external, pruned>>
    PROVE  ContractTypeOK'
<1> USE DEF resource, external
<1>0. /\ kind \in Kinds /\ spec \subseteq Paths /\ required \subseteq Roots /\ bound \subseteq Names
      /\ warned \subseteq Codes \X Roots /\ stage # "served" /\ stage' # "served"
  BY DEF ContractTypeOK, Codes, Generate, AddParameters, AddReferences, RemoveConfigured,
         RemoveExcluded, RetainIncluded, Diagnose
<1>1. ASSUME NEW v \in Actions, AddParameters(v) PROVE ContractTypeOK'
  BY <1>0, <1>1, AddParametersTyped DEF ContractTypeOK
<1>2. CASE AddReferences
  <2>1. WithSelectors(D, spec) \subseteq Paths
    BY <1>0, StatusTyped, PathFacts DEF WithSelectors, D
  <2>2. Top(ConfigurationRef) \in Paths /\ ConfigurationRef \in Roots
    BY PathFacts DEF Roots
  <2>3. Removed(D, spec) \subseteq Roots
    BY DEF Removed, Roots
  <2>4. Unresolved(D, spec) \subseteq Roots
    BY StatusTyped, PathFacts, <1>0 DEF Unresolved, D
  <2>5. warned' \subseteq Codes \X Roots
    BY <1>2, <2>3, <2>4, WarnTyped DEF AddReferences, Codes
  <2> QED
    BY <1>0, <1>2, <2>1, <2>2, <2>5 DEF AddReferences, ContractTypeOK, Codes
<1>3. CASE RemoveConfigured
  <2>1. spec' \subseteq Paths
    BY <1>0, <1>3, StatusTyped, WithoutFacts DEF RemoveConfigured, D
  <2>2. {p.root : p \in ConfiguredPaths(D) \ spec} \subseteq Roots
    BY <1>0, StatusTyped, PathFacts DEF D
  <2>3. warned' \subseteq Codes \X Roots
    BY <1>0, <1>3, <2>2, WarnTyped DEF RemoveConfigured, Codes
  <2> QED
    BY <1>0, <1>3, <2>1, <2>3 DEF RemoveConfigured, ContractTypeOK, Codes
<1>4. CASE RemoveExcluded
  <2>1. D.excluded \subseteq Paths
    BY <1>0, DefinitionParts DEF D
  <2>2. spec' \subseteq Paths
    BY <1>0, <1>4, <2>1, WithoutFacts DEF RemoveExcluded
  <2>3. /\ RootsOf(Kept(D, bound)) \subseteq Roots
        /\ RootsOf(Idle(D, spec) \ Kept(D, bound)) \subseteq Roots
    BY <2>1, RootsTyped DEF Kept, Idle
  <2>4. warned' \subseteq Codes \X Roots
    BY <1>0, <1>4, <2>3, WarnTyped DEF RemoveExcluded, Codes
  <2> QED
    BY <1>0, <1>4, <2>2, <2>4 DEF RemoveExcluded, ContractTypeOK, Codes
<1>5. CASE RetainIncluded
  <2>1. Narrowed(D, bound, spec) \subseteq spec
    BY DEF Narrowed
  <2>2. spec' \subseteq Paths /\ required' \subseteq Roots
    BY <1>0, <1>5, <2>1 DEF RetainIncluded
  <2> QED
    BY <1>0, <1>5, <2>2 DEF RetainIncluded, ContractTypeOK, Codes
<1>6. CASE Diagnose
  <2>1. Shadowed(D, required) \subseteq Roots
    BY DEF Shadowed, Roots
  <2>2. Unresolvable(D, spec) \subseteq Roots
    BY <1>0, DefinitionParts, PathFacts DEF Unresolvable, Mappings, D
  <2>3. RootsOf(Unmatchable(D)) \subseteq Roots /\ RootsOf(Unanswered(D)) \subseteq Roots
    BY <1>0, StatusTyped, RootsTyped DEF D
  <2>4. warned' \subseteq Codes \X Roots
    BY <1>0, <1>6, <2>1, <2>2, <2>3, WarnTyped DEF Diagnose, Codes
  <2> QED
    BY <1>0, <1>6, <2>4 DEF Diagnose, ContractTypeOK, Codes
<1> QED
  BY <1>1, <1>2, <1>3, <1>4, <1>5, <1>6 DEF Generate

\* What an answer puts into status are paths.
LEMMA PopulatedTyped ==
    ASSUME kind \in Kinds, NEW v \in Actions
    PROVE  Populated(v) \subseteq Paths
<1>1. Normalised(v) \subseteq Paths
  BY DefinitionParts DEF Normalised, Mappings, D
<1>2. StatusFields(D) \subseteq Paths
  BY StatusTyped DEF D
<1> QED
  BY <1>1, <1>2, PathFacts DEF Populated

\* Every step keeps the types.
LEMMA ContractNextTyped == ContractTypeOK /\ [ContractNext]_contractVars => ContractTypeOK'
<1> SUFFICES ASSUME ContractTypeOK, [ContractNext]_contractVars PROVE ContractTypeOK'
  OBVIOUS
<1> USE DEF generation, resource, external
<1>0. kind \in Kinds
  BY DEF ContractTypeOK
<1>1. CASE Generate /\ UNCHANGED <<crd, crdRequired, resource, external, pruned>>
  BY <1>1, GenerateTyped
<1>2. CASE Serve
  <2>1. pruned' \subseteq Roots
    BY <1>2, PathFacts DEF Serve, ContractTypeOK
  <2> QED
    BY <1>2, <2>1 DEF Serve, ContractTypeOK
<1>3. CASE Author
  BY <1>3 DEF Author, ContractTypeOK
<1>4. CASE Change
  <2>1. PICK k \in Kinds : Redefine(k)
    BY <1>4 DEF Change
  <2>2. UNCHANGED <<crd, crdRequired, resource, external, pruned>>
    BY <1>4 DEF Change
  <2>3. kind' = k /\ stage' = "params" /\ bound' = {} /\ warned' = {}
    BY <2>1 DEF Redefine
  <2>4. /\ todo' \subseteq Actions /\ spec' \subseteq Paths /\ required' \subseteq Roots
        /\ origin' \in [Names -> {NoOrigin} \cup [document : Documents, type : Types]]
    BY <2>1, BeginTyped DEF Redefine
  <2> QED
    BY <2>2, <2>3, <2>4 DEF ContractTypeOK
<1>5. CASE Observe
  <2>1. Verdict \in {"absent", "found", "failed"}
    BY DEF Verdict
  <2>2. Populated("get") \subseteq Paths /\ Populated("findby") \subseteq Paths
    BY <1>0, PopulatedTyped DEF Actions
  <2>3. learnt' \subseteq Paths
    BY <1>5, <2>2 DEF Observe, Reader, ContractTypeOK
  <2>4. made' \in BOOLEAN
    BY <1>5 DEF Observe, ContractTypeOK
  <2> QED
    BY <1>5, <2>1, <2>3, <2>4 DEF Observe, ContractTypeOK
<1>6. CASE Create
  <2>1. Populated("create") \subseteq Paths
    BY <1>0, PopulatedTyped DEF Actions
  <2> QED
    BY <1>6, <2>1 DEF Create, ContractTypeOK
<1>7. CASE Update
  <2>1. Populated("update") \subseteq Paths
    BY <1>0, PopulatedTyped DEF Actions
  <2> QED
    BY <1>7, <2>1 DEF Update, ContractTypeOK
<1>8. CASE Delete
  BY <1>8 DEF Delete, ContractTypeOK
<1>9. CASE Vanish
  BY <1>9 DEF Vanish, ContractTypeOK
<1>10. CASE UNCHANGED contractVars
  BY <1>10 DEF contractVars, ContractTypeOK
<1> QED
  BY <1>1, <1>2, <1>3, <1>4, <1>5, <1>6, <1>7, <1>8, <1>9, <1>10 DEF ContractNext

\* ContractTypeOK, for every set of definitions, edits and documents: what is generated
\* are fields of the documents, and what is served is what was generated.
THEOREM ContractTypeCorrect == ContractSpec => []ContractTypeOK
<1>1. ContractInit => ContractTypeOK
  <2> SUFFICES ASSUME ContractInit PROVE ContractTypeOK
    OBVIOUS
  <2>1. PICK k \in Kinds : kind = k /\ Begin(k)
    BY DEF ContractInit
  <2> QED
    BY <2>1, BeginTyped DEF ContractInit, ContractTypeOK, Begin
<1> QED
  BY <1>1, ContractNextTyped, PTL DEF ContractSpec


-----------------------------------------------------------------------------
(***************************************************************************)
(* KindContract.  What the generation carries to its end.  One lemma per   *)
(* part of KindIsKept, one step per action.                                *)
(***************************************************************************)
\* Outside the generation nothing it makes changes, but that it may start again.
LEMMA OutsideGeneration ==
    ASSUME ContractTypeOK, [ContractNext]_contractVars, ~Generate
    PROVE  \/ UNCHANGED generation
           \/ Serve
           \/ \E k \in Kinds : Redefine(k)
  BY DEF ContractNext, contractVars, Author, Change, Observe, Create, Update, Delete, Vanish

\* A field some verb needs stays, unless the definition itself sends it elsewhere.
LEMMA BoundKept ==
    ASSUME ContractTypeOK, BoundIsCarried, [ContractNext]_contractVars PROVE BoundIsCarried'
<1>0. kind \in Kinds /\ spec \subseteq Paths /\ bound \subseteq Names /\ todo \subseteq Actions
  BY DEF ContractTypeOK
<1>a. /\ ConfiguredPaths(D) \subseteq Paths /\ D.excluded \subseteq Paths
      /\ D.verbs \subseteq Actions
  BY <1>0, StatusTyped, DefinitionParts DEF D
<1>1. ASSUME NEW v \in Actions, AddParameters(v) PROVE BoundIsCarried'
  <2>1. CASE Conflicting(v) # {}
    BY <1>1, <2>1 DEF AddParameters, BoundIsCarried
  <2>2. CASE Conflicting(v) = {}
    <3>1. /\ stage = "params" /\ stage' = "params" /\ kind' = kind /\ todo' = todo \ {v}
          /\ spec' = spec \cup {Top(n) : n \in NamesOf(Own(D, v))}
          /\ required' = required \cup RequiredOf(Own(D, v))
          /\ bound' = bound \cup RequiredOf(Own(D, v))
      BY <1>1, <2>2 DEF AddParameters
    <3>2. RequiredOf(Own(D, v)) \subseteq NamesOf(Own(D, v))
      BY <1>0, ParametersTyped DEF D
    <3>3. \A w \in D.verbs \ todo' : RequiredOf(Own(D, w)) \subseteq bound'
      BY <3>1 DEF BoundIsCarried
    <3>4. \A n \in bound' : Top(n) \in spec' /\ n \in required'
      BY <3>1, <3>2 DEF BoundIsCarried
    <3> QED
      BY <3>1, <3>3, <3>4 DEF BoundIsCarried, D, Own, Supplies, Declared
  <2> QED
    BY <2>1, <2>2
<1>2. CASE AddReferences
  <2>1. spec \subseteq WithSelectors(D, spec)
    BY DEF WithSelectors
  <2> QED
    BY <1>2, <2>1 DEF AddReferences, BoundIsCarried, D, Own, Supplies, Declared
<1>3. CASE RemoveConfigured
  <2>1. \A n \in bound : \/ Top(n) \in spec' /\ n \in required'
                         \/ Top(n) \in ConfiguredPaths(D)
    BY <1>0, <1>a, <1>3, WithoutFacts DEF RemoveConfigured, BoundIsCarried
  <2> QED
    BY <1>3, <2>1 DEF RemoveConfigured, BoundIsCarried, D, Own, Supplies, Declared
<1>4. CASE RemoveExcluded
  <2> DEFINE gone == D.excluded \ Kept(D, bound)
  <2>1. spec' = Without(spec, gone) /\ required' = {n \in required : Top(n) \notin gone}
    BY <1>4 DEF RemoveExcluded
  <2>2. gone \in SUBSET Paths
    BY <1>a
  <2>3. \A n \in bound : Top(n) \in gone => Top(n) \in D.excluded \cap StatusFields(D)
    BY PathFacts DEF Kept
  <2>4. \A n \in bound : \/ Top(n) \in spec' /\ n \in required'
                         \/ Top(n) \in ConfiguredPaths(D)
                         \/ Top(n) \in D.excluded \cap StatusFields(D)
    <3> HIDE DEF gone
    <3> QED
      BY <1>0, <1>4, <2>1, <2>2, <2>3, WithoutFacts DEF RemoveExcluded, BoundIsCarried
  <2> QED
    BY <1>4, <2>4 DEF RemoveExcluded, BoundIsCarried, D, Own, Supplies, Declared
<1>5. CASE RetainIncluded
  <2>1. \A n \in bound : Top(n) \in spec => Top(n) \in Narrowed(D, bound, spec)
    BY PathFacts DEF Narrowed, AlwaysKept
  <2> QED
    BY <1>5, <2>1 DEF RetainIncluded, BoundIsCarried, D, Own, Supplies, Declared
<1>6. CASE Diagnose
  BY <1>6 DEF Diagnose, BoundIsCarried, D, Own, Supplies, Declared
<1>7. CASE Serve
  BY <1>7 DEF Serve, BoundIsCarried, D, Own, Supplies, Declared
<1>8. ASSUME NEW k \in Kinds, Redefine(k) PROVE BoundIsCarried'
  BY <1>8 DEF Redefine, BoundIsCarried, D
<1>9. CASE UNCHANGED generation
  BY <1>9 DEF generation, BoundIsCarried, D, Own, Supplies, Declared
<1> QED
  BY <1>1, <1>2, <1>3, <1>4, <1>5, <1>6, <1>7, <1>8, <1>9, OutsideGeneration DEF Generate

\* Only the last step of the generation warns of what it warns of at its end.
LEMMA WarningsKept ==
    ASSUME ContractTypeOK, WarningsAreIn, [ContractNext]_contractVars PROVE WarningsAreIn'
<1>1. CASE Generate /\ ~Diagnose
  BY <1>1 DEF Generate, AddParameters, AddReferences, RemoveConfigured, RemoveExcluded,
     RetainIncluded, WarningsAreIn
<1>2. CASE Diagnose
  <2>1. /\ warned' = warned \cup Warn("shadowed", Shadowed(D, required))
                       \cup Warn("source", Unresolvable(D, spec))
                       \cup Warn("unmatchable", RootsOf(Unmatchable(D)))
                       \cup Warn("status", RootsOf(Unanswered(D)))
        /\ required' = required /\ D' = D
    BY <1>2 DEF Diagnose, D
  <2> QED
    BY <2>1 DEF WarningsAreIn
<1>3. CASE Serve
  <2>1. stage = "generated" /\ warned' = warned /\ required' = required /\ D' = D
    BY <1>3 DEF Serve, D
  <2> QED
    BY <2>1 DEF WarningsAreIn
<1>4. ASSUME NEW k \in Kinds, Redefine(k) PROVE WarningsAreIn'
  BY <1>4 DEF Redefine, WarningsAreIn
<1>5. CASE UNCHANGED generation
  <2>1. stage' = stage /\ warned' = warned /\ required' = required /\ D' = D
    BY <1>5 DEF generation, D
  <2> QED
    BY <2>1 DEF WarningsAreIn
<1> QED
  BY <1>1, <1>2, <1>3, <1>4, <1>5, OutsideGeneration


\* What the documents offer is not lost on the way without a word.
LEMMA OfferKept ==
    ASSUME ContractTypeOK, OfferIsCarried, [ContractNext]_contractVars PROVE OfferIsCarried'
<1>0. kind \in Kinds /\ spec \subseteq Paths
  BY DEF ContractTypeOK
<1>a. /\ ConfiguredPaths(D) \subseteq Paths /\ D.excluded \subseteq Paths
      /\ D.verbs \subseteq Actions
  BY <1>0, StatusTyped, DefinitionParts DEF D
<1>1. ASSUME NEW v \in Actions, AddParameters(v) PROVE OfferIsCarried'
  <2>1. CASE Conflicting(v) # {}
    BY <1>1, <2>1 DEF AddParameters, OfferIsCarried
  <2>2. CASE Conflicting(v) = {}
    <3>1. /\ stage = "params" /\ stage' = "params" /\ D' = D /\ todo' = todo \ {v}
          /\ spec' = spec \cup {Top(n) : n \in NamesOf(Own(D, v))}
      BY <1>1, <2>2 DEF AddParameters, D
    <3>2. \A p \in Own(D, v) : Top(p.name) \in spec'
      BY <3>1 DEF NamesOf
    <3> QED
      BY <3>1, <3>2 DEF OfferIsCarried
  <2> QED
    BY <2>1, <2>2
<1>2. CASE AddReferences
  <2>1. /\ stage = "params" /\ stage' = "configure" /\ todo = {} /\ D' = D
        /\ spec' = WithSelectors(D, spec)
                     \cup (IF NeedsConfiguration(D) THEN {Top(ConfigurationRef)} ELSE {})
        /\ Warn("removed", Removed(D, spec)) \subseteq warned'
    BY <1>2 DEF AddReferences, D
  <2>2. spec \subseteq spec'
    BY <2>1 DEF WithSelectors
  <2>3. ASSUME NEW n, Top(n) \in Base(D) PROVE Accounted(n)'
    BY <2>1, <2>2, <2>3 DEF OfferIsCarried, Accounted
  <2>4. ASSUME NEW v \in D.verbs, NEW n \in NamesOf(Declared(D, v)) PROVE Accounted(n)'
    <3>1. PICK p \in Declared(D, v) : p.name = n
      BY DEF NamesOf
    <3>2. CASE ~Supplies(D, v, n)
      BY <2>1, <2>2, <3>1, <3>2 DEF OfferIsCarried, Accounted, Own
    <3>3. CASE Supplies(D, v, n)
      <4>1. n \in Names
        BY <1>0, <1>a, <3>1, ParametersTyped DEF D, Params
      <4>2. \/ Top(n) \in spec \/ Top(n) \in D.excluded \/ n \in Removed(D, spec)
        BY <3>1, <3>3, <4>1 DEF Removed
      <4> QED
        BY <2>1, <2>2, <4>2 DEF Accounted, Warn
    <3> QED
      BY <3>2, <3>3
  <2>5. ASSUME NEW n \in RootsOf(Selectors(D)) PROVE Accounted(n)'
    <3>1. PICK q \in Selectors(D) : q.root = n
      BY DEF RootsOf
    <3>2. Top(n) \in WithSelectors(D, spec)
      BY <3>1, PathFacts DEF WithSelectors
    <3> QED
      BY <2>1, <3>2 DEF Accounted
  <2>6. NeedsConfiguration(D) => Accounted(ConfigurationRef)'
    BY <2>1 DEF Accounted
  <2>7. ASSUME NEW n \in Offered(D) PROVE Accounted(n)'
    <3>1. \/ Top(n) \in Base(D)
          \/ \E v \in D.verbs : n \in NamesOf(Declared(D, v))
          \/ n \in RootsOf(Selectors(D))
          \/ NeedsConfiguration(D) /\ n = ConfigurationRef
      BY DEF Offered
    <3>2. CASE Top(n) \in Base(D)
      BY <2>3, <3>2
    <3>3. CASE \E v \in D.verbs : n \in NamesOf(Declared(D, v))
      BY <2>4, <3>3
    <3>4. CASE n \in RootsOf(Selectors(D))
      BY <2>5, <3>4
    <3>5. CASE NeedsConfiguration(D) /\ n = ConfigurationRef
      BY <2>6, <3>5
    <3> QED
      BY <3>1, <3>2, <3>3, <3>4, <3>5
  <2> QED
    BY <2>1, <2>7 DEF OfferIsCarried
<1>3. CASE RemoveConfigured
  <2>1. /\ stage = "configure" /\ stage' = "exclude" /\ D' = D /\ warned \subseteq warned'
        /\ spec' = Without(spec, ConfiguredPaths(D))
    BY <1>3 DEF RemoveConfigured, D
  <2>2. \A n : Accounted(n) => Accounted(n)'
    BY <1>a, <2>1, WithoutFacts DEF Accounted
  <2> QED
    BY <2>1, <2>2 DEF OfferIsCarried
<1>4. CASE RemoveExcluded
  <2>1. /\ stage = "exclude" /\ stage' = "include" /\ D' = D /\ warned \subseteq warned'
        /\ spec' = Without(spec, D.excluded \ Kept(D, bound))
    BY <1>4 DEF RemoveExcluded, D
  <2>2. D.excluded \ Kept(D, bound) \in SUBSET Paths
    BY <1>a
  <2>3. \A n : Accounted(n) => Accounted(n)'
    BY <2>1, <2>2, WithoutFacts DEF Accounted
  <2> QED
    BY <2>1, <2>3 DEF OfferIsCarried
<1>5. CASE RetainIncluded
  <2>1. CASE stage' = "refused"
    BY <2>1 DEF OfferIsCarried
  <2>2. CASE stage' # "refused"
    <3>1. /\ stage = "include" /\ stage' = "diagnose" /\ D' = D /\ warned' = warned
          /\ spec' = Narrowed(D, bound, spec)
      BY <1>5, <2>2 DEF RetainIncluded, D
    <3>2. ASSUME NEW n, Top(n) \in spec
          PROVE  Top(n) \in spec' \/ (D.included # {} /\ Top(n) \notin D.included)
      BY <3>1, <3>2, PathFacts DEF Narrowed, Listed, Below
    <3>3. \A n : Accounted(n) => Accounted(n)'
      BY <3>1, <3>2 DEF Accounted
    <3> QED
      BY <3>1, <3>3 DEF OfferIsCarried
  <2> QED
    BY <2>1, <2>2
<1>6. CASE Diagnose
  <2>1. /\ stage = "diagnose" /\ stage' = "generated"
        /\ D' = D /\ warned \subseteq warned' /\ spec' = spec
    BY <1>6 DEF Diagnose, D
  <2>2. \A n : Accounted(n) => Accounted(n)'
    BY <2>1 DEF Accounted
  <2> QED
    BY <2>1, <2>2 DEF OfferIsCarried
<1>7. CASE Serve
  <2>1. stage = "generated" /\ stage' = "served" /\ D' = D /\ warned' = warned /\ spec' = spec
    BY <1>7 DEF Serve, D
  <2> QED
    BY <2>1 DEF OfferIsCarried, Accounted
<1>8. ASSUME NEW k \in Kinds, Redefine(k) PROVE OfferIsCarried'
  BY <1>8 DEF Redefine, OfferIsCarried, D
<1>9. CASE UNCHANGED generation
  <2>1. stage' = stage /\ D' = D /\ warned' = warned /\ spec' = spec /\ todo' = todo
    BY <1>9 DEF generation, D
  <2> QED
    BY <2>1 DEF OfferIsCarried, Accounted
<1> QED
  BY <1>1, <1>2, <1>3, <1>4, <1>5, <1>6, <1>7, <1>8, <1>9, OutsideGeneration DEF Generate

\* Status is filled with nothing but status fields.
LEMMA PopulatedFits == \A v : \A q \in Populated(v) : StatusKeeps(D, q)
  BY DEF Populated, StatusKeeps

\* The custom resource keeps to the schema of its kind.
LEMMA FitKept ==
    ASSUME ContractTypeOK, ResourceFits, [ContractNext]_contractVars PROVE ResourceFits'
<1> USE DEF generation, resource, external
<1>1. CASE Generate
  BY <1>1 DEF Generate, AddParameters, AddReferences, RemoveConfigured, RemoveExcluded,
     RetainIncluded, Diagnose, ResourceFits
<1>2. CASE Serve
  <2>1. \A n \in pruned' : Top(n) \notin crd'
    BY <1>2, PathFacts DEF Serve, ContractTypeOK
  <2>2. D' = D
    BY <1>2 DEF Serve, D
  <2> QED
    BY <1>2, <2>1, <2>2 DEF Serve, ResourceFits
<1>3. CASE Author
  <2>1. D' = D
    BY <1>3 DEF Author, D
  <2> QED
    BY <1>3, <2>1 DEF Author, ResourceFits
<1>4. CASE Change
  BY <1>4 DEF Change, Redefine, ResourceFits
<1>5. CASE Observe \/ Create \/ Update \/ Delete
  <2>1. /\ stage' = stage /\ crd' = crd /\ D' = D
        /\ pruned' \in {pruned, {}} /\ given' \in {given, {}}
    BY <1>5 DEF Observe, Create, Update, Delete, D
  <2>2. \A q \in learnt' : q \in learnt \/ \E v \in Actions : q \in Populated(v)
    BY <1>5 DEF Observe, Create, Update, Delete, Reader, Actions
  <2> QED
    BY <2>1, <2>2, PopulatedFits DEF ResourceFits
<1>6. CASE Vanish \/ UNCHANGED contractVars
  <2>1. D' = D /\ UNCHANGED <<stage, crd, given, learnt, pruned>>
    BY <1>6 DEF Vanish, contractVars, D
  <2> QED
    BY <2>1 DEF ResourceFits
<1> QED
  BY <1>1, <1>2, <1>3, <1>4, <1>5, <1>6 DEF ContractNext

\* Every reachable state is as the generation and the API server leave it.
LEMMA AlwaysKindIsKept == ContractSpec => [](ContractTypeOK /\ KindIsKept)
<1>1. ContractInit => KindIsKept
  <2> SUFFICES ASSUME ContractInit PROVE KindIsKept
    OBVIOUS
  <2>1. PICK k \in Kinds : kind = k /\ Begin(k)
    BY DEF ContractInit
  <2> QED
    BY <2>1 DEF Begin, KindIsKept, BoundIsCarried, WarningsAreIn, OfferIsCarried, ResourceFits, D
<1>2. ContractTypeOK /\ KindIsKept /\ [ContractNext]_contractVars => KindIsKept'
  BY BoundKept, WarningsKept, OfferKept, FitKept DEF KindIsKept
<1> QED
  BY <1>1, <1>2, ContractTypeCorrect, PTL DEF ContractSpec


-----------------------------------------------------------------------------
(***************************************************************************)
(* KindContract.  The promises.                                            *)
(***************************************************************************)
\* A parameter that is missing from a request is one its verb declares, and neither a
\* scalar nor an object of the spec has its name.
LEMMA MissingIsDeclared ==
    ASSUME NEW v, NEW p \in Missing(v)
    PROVE  /\ p \in Declared(D, v) /\ p.required
           /\ Top(p.name) \notin given
<1>1. /\ p \in ParamsOf(D, v) /\ p \notin Composites(v) /\ p.required
      /\ ~Filled(v, p) /\ ~SuppliedLater(p)
  BY DEF Missing
<1>2. ~IsAuthorization(p) /\ ~Withheld(p)
  BY <1>1, CredentialAssumption DEF SuppliedLater, IsAuthorization, Withheld
<1>3. ~Scalar(given, p.name) /\ ~IsObject(given, p.name)
  BY <1>1, <1>2 DEF Filled, Drawn, Composites
<1> QED
  BY <1>1, <1>2, <1>3 DEF Declared, Scalar

\* NothingIsMissing, for every set of definitions: whatever is merged, mapped, configured
\* or narrowed, a required parameter no declaration supplies is one the API server demands
\* of the author.
THEOREM NothingMissing == ContractSpec => []NothingIsMissing
<1>1. ContractTypeOK /\ KindIsKept => NothingIsMissing
  <2>1. SUFFICES ASSUME ContractTypeOK, BoundIsCarried, InForce,
                        NEW v \in D.verbs, NEW p \in Missing(v)
                 PROVE  \/ Supplies(D, v, p.name)
                        \/ Top(p.name) \in ConfiguredPaths(D)
                        \/ Top(p.name) \in D.excluded \cap StatusFields(D)
    BY DEF NothingIsMissing, KindIsKept
  <2>2. p \in Declared(D, v) /\ p.required /\ Top(p.name) \notin given
    BY MissingIsDeclared
  <2>3. CASE ~Supplies(D, v, p.name)
    <3>1. p.name \in RequiredOf(Own(D, v))
      BY <2>2, <2>3 DEF RequiredOf, NamesOf, Own
    <3>2. p.name \in bound
      BY <2>1, <3>1 DEF InForce, BoundIsCarried
    <3>3. p.name \notin required
      BY <2>1, <2>2 DEF InForce, ContractTypeOK
    <3> QED
      BY <2>1, <3>2, <3>3 DEF InForce, BoundIsCarried
  <2> QED
    BY <2>3
<1> QED
  BY <1>1, AlwaysKindIsKept, PTL

\* ObjectsAreForetold, for every set of definitions: a request the controller refuses to
\* build over an object in its URL is one the author was warned of, or could read in the
\* documents.
THEOREM ObjectsForetold == ContractSpec => []ObjectsAreForetold
<1>1. ContractTypeOK /\ KindIsKept => ObjectsAreForetold
  <2>1. SUFFICES ASSUME ContractTypeOK, WarningsAreIn, ResourceFits, InForce,
                        NEW v \in D.verbs, NEW p \in Composites(v),
                        ~IsObject(crd, p.name), Top(p.name) \notin StatusFields(D),
                        p.name \notin VerbSupplied(D, v)
                 PROVE  <<"shadowed", p.name>> \in warned
    BY DEF ObjectsAreForetold, KindIsKept
  <2>2. p \in ParamsOf(D, v) /\ ~Withheld(p) /\ ~Filled(v, p)
    BY DEF Composites
  <2>3. ~IsObject(given, p.name)
    BY <2>1 DEF ResourceFits, InForce, IsObject
  <2>4. PICK q \in learnt : q.root = p.name /\ q.leaf # Whole
    BY <2>3 DEF Composites, IsObject
  <2>5. PICK f \in StatusFields(D) : f.root = p.name /\ f.leaf \in {Whole, q.leaf}
    BY <2>1, <2>4, PathFacts DEF ResourceFits, InForce, StatusKeeps, Below
  <2>6. kind \in Kinds /\ v \in Actions
    BY <2>1, DefinitionParts DEF ContractTypeOK, D
  <2>7. f.leaf # Whole
    <3>1. f \in Paths
      BY <2>6, StatusTyped DEF D
    <3> QED
      BY <2>1, <2>5, <3>1, PathFacts
  <2>8. p \in Declared(D, v)
    BY <2>2, CredentialAssumption DEF Declared, IsAuthorization, Withheld
  <2>9. p.name \notin required
    <3>1. Top(p.name) \notin given
      BY <2>2, <2>3 DEF Filled, Drawn, Scalar
    <3> QED
      BY <2>1, <3>1 DEF InForce, ContractTypeOK
  <2>10. p.name \in Shadowed(D, required)
    <3>1. p.name \in Names
      BY <2>6, <2>8, ParametersTyped DEF D, Params
    <3> QED
      BY <2>1, <2>5, <2>7, <2>8, <2>9, <3>1 DEF Shadowed
  <2> QED
    BY <2>1, <2>10 DEF WarningsAreIn, InForce, Warn
<1> QED
  BY <1>1, AlwaysKindIsKept, PTL

\* DroppedFieldsAreAnnounced, for every set of definitions and every edit of them: what
\* the API server drops although its field is still offered was announced, or the author
\* said so.
THEOREM DroppedAnnounced == ContractSpec => []DroppedFieldsAreAnnounced
<1>1. ContractTypeOK /\ KindIsKept => DroppedFieldsAreAnnounced
  <2>1. SUFFICES ASSUME ContractTypeOK, OfferIsCarried, ResourceFits, stage = "served",
                        NEW n \in pruned \cap Offered(D)
                 PROVE  Accounted(n) /\ Top(n) \notin spec
    BY DEF DroppedFieldsAreAnnounced, KindIsKept, Accounted
  <2> QED
    BY <2>1 DEF OfferIsCarried, ResourceFits, ContractTypeOK
<1> QED
  BY <1>1, AlwaysKindIsKept, PTL

\* AbsenceIsForetold, for every set of definitions: findby takes a live resource for absent
\* only over an identifier that cannot be compared.
THEOREM AbsenceForetold == ContractSpec => []AbsenceIsForetold
<1>1. ContractTypeOK /\ KindIsKept => AbsenceIsForetold
  <2>1. SUFFICES ASSUME WarningsAreIn, InForce, live, Verdict = "absent",
                        \A i \in D.identifiers : i \in given \cup learnt,
                        D.identifiers # {}, Has("findby")
                 PROVE  \E i \in D.identifiers : <<"unmatchable", i.root>> \in warned
    BY DEF AbsenceIsForetold, KindIsKept
  <2>2. ~Matches
    BY <2>1 DEF Verdict
  <2>3. Comparable # D.identifiers
    BY <2>1, <2>2 DEF Matches
  <2>4. PICK i \in D.identifiers : i \notin D.answer["findby"]
    BY <2>1, <2>3 DEF Comparable
  <2>5. i \in Unmatchable(D)
    BY <2>1, <2>4 DEF Unmatchable, Has
  <2> QED
    BY <2>1, <2>5 DEF WarningsAreIn, InForce, Warn, RootsOf
<1> QED
  BY <1>1, AlwaysKindIsKept, PTL

\* A get request that can be sent can still be sent, or is refused, while nothing it is
\* filled from is forgotten.
LEMMA GetStays ==
    ASSUME ContractTypeOK, kind' = kind, given' = given,
           \A q \in FoundBy : q \in learnt => q \in learnt',
           Sends("get"), ~CannotBuild("get")'
    PROVE  Sends("get")'
<1>0. D' = D /\ kind \in Kinds /\ "get" \in Actions
  BY DEF D, ContractTypeOK, Actions
<1>1. SUFFICES ASSUME NEW p, p \in Missing("get")' PROVE FALSE
  BY <1>0 DEF Sends, Has
<1>2. p \in ParamsOf(D, "get") /\ p.required /\ ~Filled("get", p)' /\ ~SuppliedLater(p)
  BY <1>0, <1>1 DEF Missing, SuppliedLater
<1>3. p.name \in Names
  BY <1>0, <1>2, ParametersTyped DEF D, Params
<1>4. Filled("get", p)
  BY <1>2 DEF Sends, CannotBuild, Missing
<1>5. ~FromConfiguration("get", p) /\ ~Static("get", p)
  BY <1>0, <1>2 DEF Filled, FromConfiguration, Static
<1>6. CASE Drawn(p)
  <2>1. ~Withheld(p)
    BY <1>6 DEF Drawn
  <2>2. ~Scalar(given, p.name)
    BY <1>2, <2>1 DEF Filled, Drawn, Withheld
  <2>3. Top(p.name) \in learnt
    BY <1>6, <2>2 DEF Drawn, Scalar
  <2>4. Top(p.name) \in learnt'
    BY <1>2, <1>3, <2>3, PathFacts DEF FoundBy, Roots
  <2>5. IsObject(learnt', p.name)
    BY <1>2, <2>1, <2>4 DEF Filled, Drawn, Scalar, Withheld
  <2>6. p \in Composites("get")'
    BY <1>0, <1>2, <2>1, <2>5 DEF Composites, Withheld
  <2> QED
    BY <2>6 DEF CannotBuild
<1>7. CASE Mapped("get", p)
  <2>1. PICK m \in Applied("get") :
             m.to = Top(p.name) /\ m.in = p.in /\ Reads(m) /\ ~Unrenderable(m)
    BY <1>7 DEF Mapped
  <2>2. m \in Applied("get")'
    BY <1>0, <2>1 DEF Applied
  <2>3. m.from \in Paths
    BY <1>0, <2>1, DefinitionParts DEF Applied, D, Mappings
  <2>4. m.from \in FoundBy
    BY <2>1, <2>3 DEF FoundBy
  <2>5. Reads(m)'
    BY <2>1, <2>4 DEF Reads, Stanza
  <2>6. ~Unrenderable(m)'
    BY <2>2 DEF CannotBuild
  <2> QED
    BY <1>2, <2>1, <2>2, <2>5, <2>6 DEF Filled, Mapped
<1> QED
  BY <1>4, <1>5, <1>6, <1>7 DEF Filled

\* A resource that is there and was found is not taken for absent while nothing it is found
\* by is forgotten.
LEMMA FoundStays ==
    ASSUME ContractTypeOK, kind' = kind, given' = given, live', made => made',
           \A q \in FoundBy : q \in learnt => q \in learnt',
           Verdict = "found"
    PROVE  Verdict' # "absent"
<1>0. D' = D /\ kind \in Kinds
  BY DEF D, ContractTypeOK
<1>1. \A v : Has(v)' <=> Has(v)
  BY <1>0 DEF Has
<1>2. CASE Sends("get")
  <2>1. CASE CannotBuild("get")'
    BY <1>1, <1>2, <2>1 DEF Sends, Verdict
  <2>2. CASE ~CannotBuild("get")'
    <3>1. Sends("get")'
      BY <1>2, <2>2, GetStays
    <3> QED
      BY <2>2, <3>1 DEF Verdict
  <2> QED
    BY <2>1, <2>2
<1>3. CASE ~Sends("get") /\ ~Has("findby")
  <2>1. made'
    BY <1>3 DEF Verdict
  <2> QED
    BY <1>1, <1>3, <2>1 DEF Verdict
<1>4. CASE ~Sends("get") /\ Has("findby")
  <2>1. Matches
    BY <1>4 DEF Verdict
  <2>2. D.identifiers \subseteq FoundBy
    BY <1>0, DefinitionParts DEF FoundBy, D
  <2>3. Comparable \subseteq Comparable' /\ Comparable' \subseteq D.identifiers
    BY <1>0, <2>2 DEF Comparable
  <2>4. Matches'
    <3>1. CASE D.matchAll
      <4>1. Comparable = D.identifiers
        BY <2>1, <3>1 DEF Matches
      <4>2. Comparable' = D.identifiers
        BY <2>3, <4>1
      <4> QED
        BY <1>0, <3>1, <4>2 DEF Matches
    <3>2. CASE ~D.matchAll
      <4>1. Comparable # {}
        BY <2>1, <3>2 DEF Matches
      <4>2. Comparable' # {}
        BY <2>3, <4>1
      <4> QED
        BY <1>0, <3>2, <4>2 DEF Matches
    <3> QED
      BY <3>1, <3>2
  <2> QED
    BY <1>1, <1>4, <2>4 DEF Verdict
<1> QED
  BY <1>2, <1>3, <1>4

\* FoundIsNotLost, for every set of definitions: no observe, and no generation of the kind,
\* makes the controller lose a resource it found; a write does only by forgetting what the
\* resource is found by.
THEOREM FoundNotLost == ContractSpec => FoundIsNotLost
<1> DEFINE Forgets == \E q \in FoundBy : q \in learnt /\ q \notin learnt'
           Loses   == Unprovoked /\ Verdict = "found" /\ Verdict' = "absent"
<1>1. ContractTypeOK /\ [ContractNext]_contractVars
        => [Loses => (Update \/ Create) /\ Forgets]_contractVars
  <2>1. SUFFICES ASSUME ContractTypeOK, [ContractNext]_contractVars, Loses
                 PROVE  (Update \/ Create) /\ Forgets
    OBVIOUS
  <2>2. /\ stage = "served" /\ written /\ written' /\ live /\ live'
        /\ given' = given /\ kind' = kind
        /\ Verdict = "found" /\ Verdict' = "absent"
    BY <2>1 DEF Unprovoked, InForce
  <2>3. (made => made') => Forgets
    BY <2>1, <2>2, FoundStays
  <2>4. ~Generate /\ ~Serve /\ ~Author /\ ~Delete /\ ~Vanish
    BY <2>2 DEF Generate, AddParameters, AddReferences, RemoveConfigured, RemoveExcluded,
       RetainIncluded, Diagnose, Serve, Author, Delete, Vanish
  <2>5. ~Change /\ ~(UNCHANGED contractVars)
    BY <2>3 DEF Change, contractVars, resource, external
  <2>6. ~Observe
    BY <2>3 DEF Observe
  <2>7. Update \/ Create
    BY <2>1, <2>4, <2>5, <2>6 DEF ContractNext
  <2>8. made => made'
    BY <2>7 DEF Update, Create
  <2> QED
    BY <2>3, <2>7, <2>8
<1> QED
  BY <1>1, ContractTypeCorrect, PTL DEF ContractSpec, FoundIsNotLost

-----------------------------------------------------------------------------
(***************************************************************************)
(* FindByWalk.  The types of a walk.                                       *)
(***************************************************************************)
USE DEF ApiType

\* One page further is one page's items further.
LEMMA NextPage ==
    ASSUME NEW n \in Nat, NEW k \in Nat
    PROVE  (n + 1) * k = n * k + k /\ n * k \in Nat
OBVIOUS

\* What an API is, and where the walk stands in its collection.
LEMMA OffsetType ==
    ASSUME TypeOK
    PROVE  /\ api.strategy \in {"single", "number", "token"}
           /\ api.served \in Nat \ {0} /\ api.size \in Nat /\ api.maxPages \in Nat
           /\ Offset \in Nat
           /\ Upto = Offset + api.served
<1>1. api \in ApiType
  BY ApisAssumption DEF TypeOK
<1>2. api.strategy \in {"single", "number", "token"} /\ api.served \in Nat \ {0}
        /\ api.size \in Nat /\ api.maxPages \in Nat
  BY <1>1
<1>3. page * api.served \in Nat
  BY <1>2, NextPage DEF TypeOK
<1>4. token \in Nat
  BY BoundsAssumption DEF TypeOK
<1> QED
  BY <1>2, <1>3, <1>4 DEF Offset, Upto

-----------------------------------------------------------------------------
(* The type invariant.                                                     *)

\* A walk begins with its types.
LEMMA InitTyped == Init => TypeOK
  BY CeilingAssumption, BoundsAssumption DEF Init, TypeOK

\* Every step keeps the types.
LEMMA NextTyped == TypeOK /\ [Next]_vars => TypeOK'
<1> SUFFICES ASSUME TypeOK, [Next]_vars PROVE TypeOK'
  OBVIOUS
<1>0. count \in Nat /\ MaxItems \in Nat /\ where \in 0 .. count /\ count <= MaxItems
  BY BoundsAssumption DEF TypeOK
<1>1. CASE StartWalk
  BY <1>1, CeilingAssumption, BoundsAssumption DEF StartWalk, TypeOK, collection
<1>2. CASE RefuseDeclaration \/ StopAtCeiling
  BY <1>2 DEF RefuseDeclaration, StopAtCeiling, Answer, TypeOK, collection
<1>3. CASE PageFails \/ FindMatch \/ EndOfCollection \/ CannotTell
  <2>1. faults' \in 0 .. MaxFaults
    BY <1>3, BoundsAssumption
       DEF PageFails, FindMatch, EndOfCollection, CannotTell, Fault, TypeOK
  <2> QED
    BY <1>3, <2>1
       DEF PageFails, FindMatch, EndOfCollection, CannotTell, Answer, TypeOK, collection
<1>4. CASE TurnPage
  <2>1. api.served \in Nat \ {0} /\ Offset \in Nat /\ Upto = Offset + api.served
    BY OffsetType
  <2>2. token' \in 0 .. MaxItems
    BY <1>4, <1>0, <2>1 DEF TurnPage, TypeOK, MoreBehind
  <2>3. scanned' \in 0 .. Ceiling
    BY <1>4, CeilingAssumption DEF TurnPage, NoMatch, Walking, TypeOK
  <2> QED
    BY <1>4, <2>2, <2>3 DEF TurnPage, TypeOK, collection
<1>5. CASE AddItem
  BY <1>5, <1>0 DEF AddItem, TypeOK, walk
<1>6. CASE RemoveResource
  BY <1>6, <1>0 DEF RemoveResource, TypeOK, walk
<1>7. CASE RemoveOther
  <2>1. faults' \in 0 .. MaxFaults
    BY <1>7, BoundsAssumption DEF RemoveOther, Fault, TypeOK
  <2> QED
    BY <1>7, <1>0, <2>1 DEF RemoveOther, TypeOK, walk
<1>8. CASE UNCHANGED vars
  BY <1>8 DEF vars, collection, walk, TypeOK
<1> QED
  BY <1>1, <1>2, <1>3, <1>4, <1>5, <1>6, <1>7, <1>8 DEF Next, FindBy, Others

\* Every reachable state has its types: the walk reads at most the ceiling's pages
\* and its token points into the collection.
THEOREM TypeCorrect == Spec => []TypeOK
  BY InitTyped, NextTyped, PTL DEF Spec

-----------------------------------------------------------------------------
(* The bound that ends a walk.                                             *)

\* A page-number walk that may go on has read fewer pages than it may.
BoundInv == pc = "walk" /\ api.strategy = "number" /\ Accepted => scanned < api.maxPages

\* A walk begins with nothing read.
LEMMA InitBounded == Init => BoundInv
  BY OffsetType, InitTyped DEF Init, BoundInv, Accepted

\* Every step keeps the walk within the declared bound: TurnPage asks MayGoOn first.
LEMMA NextBounded == TypeOK /\ BoundInv /\ [Next]_vars => BoundInv'
<1> SUFFICES ASSUME TypeOK, BoundInv, [Next]_vars PROVE BoundInv'
  OBVIOUS
<1>0. scanned \in Nat /\ api.maxPages \in Nat
  BY OffsetType, CeilingAssumption DEF TypeOK
<1>1. CASE StartWalk
  BY <1>1, <1>0 DEF StartWalk, BoundInv, Accepted
<1>2. CASE RefuseDeclaration \/ StopAtCeiling \/ PageFails \/ FindMatch
             \/ EndOfCollection \/ CannotTell
  BY <1>2 DEF RefuseDeclaration, StopAtCeiling, PageFails, FindMatch, EndOfCollection,
              CannotTell, Answer, BoundInv
<1>3. CASE TurnPage
  BY <1>3, <1>0 DEF TurnPage, MayGoOn, BoundInv, Accepted
<1>4. CASE Others
  BY <1>4 DEF Others, AddItem, RemoveResource, RemoveOther, walk, BoundInv, Accepted
<1>5. CASE UNCHANGED vars
  BY <1>5 DEF vars, walk, BoundInv, Accepted
<1> QED
  BY <1>1, <1>2, <1>3, <1>4, <1>5 DEF Next, FindBy

\* The declared bound ends the walk of every page-number declaration, whatever the
\* ceiling: the factory's check of maxPages makes the loop's ceiling unreachable.
THEOREM BoundDecides == Spec => []DeclaredBoundDecides
<1>2. TypeOK /\ BoundInv => DeclaredBoundDecides
  BY OffsetType, CeilingAssumption DEF TypeOK, BoundInv, DeclaredBoundDecides, Accepted
<1> QED
  BY <1>2, InitBounded, TypeCorrect, NextBounded, PTL DEF Spec

\* A walk that can tell gives up only at the bound it may read to.
LEMMA StepGivesUp ==
    ASSUME TypeOK, BoundInv, Next, outcome = "none", outcome' = "error",
           Accepted, Judgeable, faults' = faults
    PROVE  IF api.strategy = "number" THEN scanned + 1 = api.maxPages ELSE scanned = Ceiling
<1>0. /\ scanned \in 0 .. Ceiling /\ Ceiling \in Nat /\ api.maxPages \in Nat
      /\ faults \in Nat
  BY OffsetType, CeilingAssumption, BoundsAssumption DEF TypeOK
<1>1. ASSUME NEW f, Fault(f) PROVE FALSE
  BY <1>0, <1>1 DEF Fault
<1>2. CASE StopAtCeiling
  <2>1. scanned = Ceiling
    BY <1>0, <1>2 DEF StopAtCeiling
  <2>2. api.strategy # "number"
    BY <1>0, <1>2, <2>1 DEF StopAtCeiling, BoundInv, Accepted
  <2> QED
    BY <2>1, <2>2
<1>3. CASE CannotTell
  <2>1. api.strategy = "number" /\ pc = "walk" /\ ~MayGoOn
    BY <1>1, <1>3 DEF CannotTell, NoMatch, Walking
  <2> QED
    BY <1>0, <2>1 DEF MayGoOn, BoundInv
<1>4. CASE StartWalk
  BY <1>4 DEF StartWalk
<1>5. CASE RefuseDeclaration
  BY <1>5 DEF RefuseDeclaration
<1>6. CASE PageFails
  BY <1>1, <1>6 DEF PageFails
<1>7. CASE FindMatch \/ EndOfCollection
  BY <1>7 DEF FindMatch, EndOfCollection, Answer
<1>8. CASE TurnPage
  BY <1>8 DEF TurnPage
<1>9. CASE Others
  BY <1>9 DEF Others, AddItem, RemoveResource, RemoveOther, walk
<1> QED
  BY <1>2, <1>3, <1>4, <1>5, <1>6, <1>7, <1>8, <1>9 DEF Next, FindBy

\* Without a disturbance, a walk whose declaration can be used ends without a conclusion
\* only when it read every page it may: the pages declared for a page-number walk, and
\* MaxFindByPages for any other.
THEOREM GivesUpAtItsBound == Spec => GivesUpOnlyAtItsBound
<1> DEFINE GivesUp == outcome = "none" /\ outcome' = "error"
           AtBound == IF api.strategy = "number" THEN scanned + 1 = api.maxPages
                                                 ELSE scanned = Ceiling
           Gives   == GivesUp /\ Accepted /\ Judgeable /\ faults' = faults => AtBound
<1>1. TypeOK /\ BoundInv /\ [Next]_vars => [Gives]_vars
  BY StepGivesUp
<1> QED
  BY <1>1, InitBounded, TypeCorrect, NextBounded, PTL DEF Spec, GivesUpOnlyAtItsBound

-----------------------------------------------------------------------------
(* The walk is one read.                                                   *)

\* Every step keeps what is behind the walk behind it: a page is turned only when nothing
\* on it matches and the collection goes on after it.
LEMMA NextBehind ==
    ASSUME Fitting, TypeOK, NothingIsBehind, [Next]_vars
    PROVE  NothingIsBehind'
<1>0. /\ count \in Nat /\ where \in 0 .. count /\ page \in Nat /\ scanned \in Nat /\ token \in Nat
      /\ api.strategy \in {"single", "number", "token"}
      /\ api.served \in Nat \ {0} /\ Offset \in Nat /\ Upto = Offset + api.served
      /\ api.size \in {0, api.served}
  BY OffsetType, BoundsAssumption, CeilingAssumption DEF TypeOK, Fitting
<1>1. CASE StartWalk
  <2>1. Offset' = 0
    BY <1>1, <1>0 DEF StartWalk, Offset
  <2> QED
    BY <1>1, <1>0, <2>1 DEF StartWalk, NothingIsBehind, collection
<1>2. CASE RefuseDeclaration \/ StopAtCeiling \/ PageFails \/ FindMatch
             \/ EndOfCollection \/ CannotTell
  BY <1>2 DEF RefuseDeclaration, StopAtCeiling, PageFails, FindMatch, EndOfCollection,
              CannotTell, Answer, NothingIsBehind
<1>3. CASE TurnPage
  <2>0. CASE ~kept
    BY <1>3, <2>0 DEF TurnPage, NothingIsBehind
  <2> SUFFICES ASSUME kept PROVE NothingIsBehind'
    BY <2>0
  <2>1. where = 0 \/ where > Upto
    BY <1>3, <1>0 DEF TurnPage, NoMatch, Walking, OnPage, NothingIsBehind
  <2>2. CASE api.strategy = "number"
    <3>1. Offset = page * api.served /\ Offset' = (page + 1) * api.served
      BY <1>3, <2>2 DEF TurnPage, Offset
    <3>2. Offset' = Upto
      BY <3>1, <1>0, NextPage
    <3>3. (scanned + 1) * api.served = Upto
      BY <3>1, <3>2, <2>2 DEF NothingIsBehind
    <3>4. Upto <= count
      <4>1. api \in ApiType
        BY ApisAssumption DEF TypeOK
      <4>2. api.signal \in {"short", "header", "totalPages", "totalItems"}
        BY <4>1
      <4>3. CASE api.signal = "short"
        BY <4>3, <1>3, <1>0, <2>2 DEF TurnPage, SaysMore, Short, Judgeable
      <4>4. CASE api.signal = "header"
        BY <4>4, <1>3, <1>0, <2>2 DEF TurnPage, SaysMore, MoreBehind
      <4>5. CASE api.signal = "totalPages"
        BY <4>5, <1>3, <1>0, <2>2, <3>3 DEF TurnPage, SaysMore
      <4>6. CASE api.signal = "totalItems"
        <5>1. api.size = api.served
          BY <4>6, <1>3, <1>0, <2>2 DEF TurnPage, Judgeable
        <5> QED
          BY <4>6, <5>1, <1>3, <1>0, <2>2, <3>3 DEF TurnPage, SaysMore
      <4> QED
        BY <4>2, <4>3, <4>4, <4>5, <4>6
    <3> QED
      BY <1>3, <2>1, <2>2, <3>2, <3>4 DEF TurnPage, NothingIsBehind, collection
  <2>3. CASE api.strategy = "token"
    <3>1. Offset' = IF MoreBehind THEN Upto ELSE count
      BY <1>3, <2>3 DEF TurnPage, Offset
    <3> QED
      BY <1>3, <1>0, <2>1, <2>3, <3>1 DEF TurnPage, NothingIsBehind, MoreBehind, collection
  <2>4. CASE api.strategy = "single"
    BY <1>3, <2>4 DEF TurnPage, SaysMore
  <2> QED
    BY <1>0, <2>2, <2>3, <2>4
<1>4. CASE AddItem
  <2>1. Offset' = Offset
    BY <1>4 DEF AddItem, walk, Offset
  <2> QED
    BY <1>4, <1>0, <2>1 DEF AddItem, walk, NothingIsBehind
<1>5. CASE RemoveResource
  <2>1. Offset' = Offset
    BY <1>5 DEF RemoveResource, walk, Offset
  <2> QED
    BY <1>5, <1>0, <2>1 DEF RemoveResource, walk, NothingIsBehind
<1>6. CASE RemoveOther
  BY <1>6 DEF RemoveOther, walk, NothingIsBehind
<1>7. CASE UNCHANGED vars
  BY <1>7 DEF vars, collection, walk, NothingIsBehind, Offset
<1> QED
  BY <1>1, <1>2, <1>3, <1>4, <1>5, <1>6, <1>7 DEF Next, FindBy, Others

\* A walk ends in a 404 only when the resource is not in the collection.
LEMMA AbsentIsAbsent ==
    ASSUME Fitting, TypeOK, NothingIsBehind, EndOfCollection, kept'
    PROVE  where = 0
<1>0. /\ count \in Nat /\ where \in 0 .. count /\ page \in Nat
      /\ api.strategy \in {"single", "number", "token"}
      /\ api.served \in Nat \ {0} /\ Offset \in Nat /\ Upto = Offset + api.served
      /\ api.size \in {0, api.served}
      /\ count <= MaxItems
      /\ api.strategy = "single" => MaxItems <= api.served
  BY OffsetType, BoundsAssumption DEF TypeOK, Fitting
<1>1. Judgeable /\ ~SaysMore /\ kept
  BY DEF EndOfCollection
<1>2. where = 0 \/ where > Upto
  BY <1>0, <1>1 DEF EndOfCollection, NoMatch, Walking, OnPage, NothingIsBehind
<1>3. CASE api.strategy = "number"
  <2>1. (scanned + 1) * api.served = Upto
    BY <1>0, <1>3, NextPage DEF NothingIsBehind, Offset
  <2>2. api \in ApiType
    BY ApisAssumption DEF TypeOK
  <2>3. api.signal \in {"short", "header", "totalPages", "totalItems"}
    BY <2>2
  <2>4. CASE api.signal = "short"
    BY <2>4, <1>0, <1>1, <1>2, <1>3 DEF Judgeable, SaysMore, Short
  <2>5. CASE api.signal = "header"
    BY <2>5, <1>0, <1>1, <1>2, <1>3 DEF SaysMore, MoreBehind
  <2>6. CASE api.signal = "totalPages"
    BY <2>6, <2>1, <1>0, <1>1, <1>2, <1>3 DEF SaysMore
  <2>7. CASE api.signal = "totalItems"
    <3>1. api.size = api.served
      BY <2>7, <1>0, <1>1, <1>3 DEF Judgeable
    <3> QED
      BY <2>7, <2>1, <3>1, <1>0, <1>1, <1>2, <1>3 DEF SaysMore
  <2> QED
    BY <2>3, <2>4, <2>5, <2>6, <2>7
<1>4. CASE api.strategy = "token"
  BY <1>0, <1>1, <1>2, <1>4 DEF SaysMore, MoreBehind
<1>5. CASE api.strategy = "single"
  <2>1. Offset = 0
    BY <1>5 DEF Offset
  <2> QED
    BY <2>1, <1>0, <1>2, <1>5, BoundsAssumption
<1> QED
  BY <1>0, <1>3, <1>4, <1>5

\* Every step of the walk is a step of the one read, or none.
LEMMA StepIsRead ==
    ASSUME Fitting, TypeOK, NothingIsBehind, [Next]_vars
    PROVE  [Read!Next]_(IF kept THEN outcome ELSE "none")
<1>0. where \in Nat /\ kept \in BOOLEAN
  BY BoundsAssumption DEF TypeOK
<1>1. CASE StartWalk
  BY <1>1 DEF StartWalk, NothingIsBehind, Read!Next, Read!Ask
<1>2. CASE RefuseDeclaration \/ StopAtCeiling \/ PageFails \/ CannotTell
  <2>1. outcome = "none" /\ outcome' = "error" /\ kept' = kept
    BY <1>2 DEF RefuseDeclaration, StopAtCeiling, PageFails, CannotTell, NoMatch, Walking,
                Answer, NothingIsBehind
  <2> QED
    BY <2>1 DEF Read!Next, Read!Answer
<1>3. CASE FindMatch
  <2>1. where # 0
    BY <1>3, <1>0, OffsetType DEF FindMatch, OnPage
  <2>2. outcome = "none" /\ outcome' = "found" /\ kept' = kept
    BY <1>3 DEF FindMatch, Walking, Answer, NothingIsBehind
  <2> QED
    BY <2>1, <2>2 DEF Read!Next, Read!Answer
<1>4. CASE EndOfCollection
  <2>1. outcome = "none" /\ outcome' = "absent"
    BY <1>4 DEF EndOfCollection, NoMatch, Walking, Answer, NothingIsBehind
  <2>2. CASE kept'
    <3>1. where = 0 /\ kept
      BY <1>4, <2>2, AbsentIsAbsent DEF EndOfCollection
    <3> QED
      BY <2>1, <2>2, <3>1 DEF Read!Next, Read!Answer
  <2>3. CASE ~kept'
    BY <2>1, <2>3
  <2> QED
    BY <2>2, <2>3
<1>5. CASE TurnPage
  BY <1>5 DEF TurnPage
<1>6. CASE AddItem \/ RemoveResource
  BY <1>6 DEF AddItem, RemoveResource, walk
<1>7. CASE RemoveOther
  <2>1. outcome' = outcome /\ kept' = (kept /\ pc = "idle")
    BY <1>7 DEF RemoveOther, walk
  <2>2. CASE pc = "idle"
    <3>1. kept' = kept
      BY <2>1, <2>2, <1>0, Zenon
    <3> QED
      BY <2>1, <3>1
  <2>3. CASE pc = "walk"
    <3>1. outcome = "none"
      BY <2>3 DEF NothingIsBehind
    <3>2. ~kept'
      BY <2>1, <2>3
    <3> QED
      BY <2>1, <3>1, <3>2
  <2> QED
    BY <2>2, <2>3 DEF TypeOK
<1>8. CASE UNCHANGED vars
  BY <1>8 DEF vars, walk
<1> QED
  BY <1>1, <1>2, <1>3, <1>4, <1>5, <1>6, <1>7, <1>8 DEF Next, FindBy, Others

\* Under a fitting declaration a walk is one read at one moment, unless the API drops a
\* token or moves items under it: it says absent only when the resource is not there,
\* and found only when it is.
THEOREM WalkIsOneRead ==
    ASSUME Fitting
    PROVE  Spec => AnswersAsOneRead
<1>1. Init => NothingIsBehind
  <2> SUFFICES ASSUME Init PROVE NothingIsBehind
    OBVIOUS
  <2>1. TypeOK
    BY InitTyped
  <2>2. Offset = 0
    BY <2>1, OffsetType DEF Init, Offset
  <2> QED
    BY <2>1, <2>2 DEF Init, NothingIsBehind, TypeOK
<1>2. TypeOK /\ NothingIsBehind /\ [Next]_vars => NothingIsBehind'
  BY Fitting, NextBehind
<1>3. TypeOK /\ NothingIsBehind /\ [Next]_vars => [Read!Next]_(IF kept THEN outcome ELSE "none")
  BY Fitting, StepIsRead
<1>4. Init => Read!Init
  BY DEF Init, Read!Init
<1> QED
  BY <1>1, <1>2, <1>3, <1>4, TypeCorrect, PTL DEF Spec, AnswersAsOneRead, Read!Spec
=============================================================================
