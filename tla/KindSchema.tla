----------------------------- MODULE KindSchema -----------------------------
(***************************************************************************)
(* How the provider makes the spec and status of a generated kind out of a *)
(* definition and the OpenAPI documents it refers to: a base schema from a *)
(* request body, merged with the parameters of every verb, then narrowed   *)
(* by what the definition configures, excludes or includes.  What can go   *)
(* wrong for the author is either refused or warned about.                 *)
(*                                                                         *)
(* A schema is the set of its field paths.  A path is a root and a leaf of *)
(* it, or the root as a whole; a field with leaves is an object.           *)
(***************************************************************************)
EXTENDS Integers, FiniteSets

CONSTANTS
    Kinds, Def,             \* the definitions, by name
    Edits,                  \* for each definition, those its author may turn it into
    Names, Leaves, Whole,   \* names of fields; parts of an object; the field as a whole
    ConfigurationRef,       \* the field that refers to a Configuration
    AuthorizationNames,     \* header names that contain "authorization"
    Documents, Types,       \* OpenAPI documents and the types of their parameters
    NoOrigin                \* no verb has contributed a parameter of this name

Actions   == {"create", "get", "findby", "update", "delete"}
Locations == {"path", "query", "header", "cookie"}
Roots     == Names \cup {ConfigurationRef}
Paths     == [root : Roots, leaf : Leaves \cup {Whole}]
Params    == [name : Names, in : Locations, required : BOOLEAN, type : Types]

Top(n)           == [root |-> n, leaf |-> Whole]
Below(p, q)      == p.root = q.root /\ p.leaf \in {Whole, q.leaf}
IsObject(S, n)   == \E q \in S : q.root = n /\ q.leaf # Whole
RootsOf(S)       == {q.root : q \in S}
Without(S, P)    == {q \in S : \A p \in P : ~Below(p, q)}
\* The dotted name of a path; only a top-level path is spelled like the field it names.
SpelledLike(p, n) == p = Top(n)

\* A mapping takes a path of the custom resource to a place of a verb's request, or of its answer.
Mappings == [verb : Actions, in : {"path", "query", "body", "response"}, to : Paths,
             stanza : {"spec", "status"}, from : Paths, resolver : BOOLEAN]
Statics        == [verb : Actions, in : {"query", "header"}, name : Names]
Configurations == [name : Names, in : Locations, actions : SUBSET Actions]

DefinitionRecords ==
    [verbs : SUBSET Actions, document : [Actions -> Documents],
     shared : [Actions -> SUBSET Params], params : [Actions -> SUBSET Params],
     body : [Actions -> SUBSET Paths], bodyRequired : [Actions -> SUBSET Names],
     answer : [Actions -> SUBSET Paths],
     mapped : SUBSET Mappings, static : SUBSET Statics,
     identifiers : SUBSET Paths, additional : SUBSET Paths,
     excluded : SUBSET Paths, included : SUBSET Paths,
     configured : SUBSET Configurations, secured : BOOLEAN, matchAll : BOOLEAN]

ASSUME NamesAssumption == ConfigurationRef \notin Names /\ AuthorizationNames \subseteq Names /\ Whole \notin Leaves
ASSUME OriginAssumption == NoOrigin \notin [document : Documents, type : Types]
ASSUME DefAssumption == \A k \in Kinds : Def[k] \in DefinitionRecords
ASSUME EditsAssumption == Edits \in [Kinds -> SUBSET Kinds]

----------------------------------------------------------------------------
(* What a definition says.                                                 *)

\* The parameters of a verb: its own, and those of its path that it does not override.
ParamsOf(d, v) ==
    d.params[v] \cup {p \in d.shared[v] : \A q \in d.params[v] : <<q.name, q.in>> # <<p.name, p.in>>}

IsAuthorization(p) == p.in = "header" /\ p.name \in AuthorizationNames
Declared(d, v) == {p \in ParamsOf(d, v) : ~IsAuthorization(p)}

\* A mapping whose source is the very field its target would be takes nothing away.
SelfReferential(m) == m.stanza = "spec" /\ m.from = m.to
Supplies(d, v, n)  == \E m \in d.mapped : /\ m.verb = v /\ m.in \in {"path", "query"}
                                          /\ m.to = Top(n) /\ ~SelfReferential(m)
AnySupplier(d, n)  == \E v \in Actions : Supplies(d, v, n)

BaseVerb(d) == IF "create" \in d.verbs THEN "create" ELSE "update"
Base(d)     == IF BaseVerb(d) \in d.verbs THEN d.body[BaseVerb(d)] ELSE {}
\* What a resolver puts into the body is not demanded of the author.
BaseRequired(d) ==
    IF BaseVerb(d) \in d.verbs
    THEN {n \in d.bodyRequired[BaseVerb(d)] :
             ~ \E m \in d.mapped : m.resolver /\ m.in = "body" /\ m.to = Top(n)}
    ELSE {}

StatusFields(d) == d.identifiers \cup d.additional
ObservedBy(d)   == IF "get" \in d.verbs /\ d.answer["get"] # {} THEN "get" ELSE "findby"
AnswerOf(d)     == IF ObservedBy(d) \in d.verbs THEN d.answer[ObservedBy(d)] ELSE {}
\* A response mapping relocates a field of the answer before status is made of it.
Relocated(d)    == {m \in d.mapped : m.in = "response" /\ m.verb \in {"get", "findby"}}
StatusRoots(d)  == RootsOf(StatusFields(d))
HasStatus(d)    == StatusFields(d) # {} /\ AnswerOf(d) # {}

----------------------------------------------------------------------------
(* Generating a kind.                                                      *)

VARIABLES
    kind,       \* the definition, by name
    stage,      \* how far the generation is
    todo,       \* the verbs whose parameters are still to be merged
    origin,     \* which document first contributed a parameter of each name, and its type
    spec,       \* the fields of the spec being built
    required,   \* its required fields
    bound,      \* the names of required parameters the spec is to carry
    warned      \* the warnings: a code and the name of a field

generation == <<kind, stage, todo, origin, spec, required, bound, warned>>

D == Def[kind]
Warn(code, ns) == {<<code, n>> : n \in ns}

\* The base schema: the body of create, or of update when nothing is ever created.
Begin(k) ==
    /\ stage = "params"
    /\ todo = Def[k].verbs
    /\ origin = [n \in Names |-> NoOrigin]
    /\ spec = Base(Def[k])
    /\ required = BaseRequired(Def[k])
    /\ bound = {}
    /\ warned = {}

\* The parameters of two documents that disagree cannot be one field.
Conflicting(v) == {p \in Declared(D, v) : /\ origin[p.name] # NoOrigin
                                          /\ origin[p.name].document # D.document[v]
                                          /\ origin[p.name].type # p.type}

\* The parameters of v that are the author's to give: it is this verb that asks for them.
OwnOfNobody(d, v) == {p \in Declared(d, v) : ~AnySupplier(d, p.name)}
Own(d, v) == {p \in Declared(d, v) : ~Supplies(d, v, p.name)}
NamesOf(P) == {p.name : p \in P}
RequiredOf(P) == NamesOf({p \in P : p.required})

OriginAfter(v) ==
    [n \in Names |->
        LET here == {p \in Declared(D, v) : p.name = n}
            new  == IF Supplies(D, v, n) THEN origin[n] = NoOrigin ELSE Top(n) \notin spec
        IN  IF here # {} /\ new
            THEN [document |-> D.document[v], type |-> (CHOOSE p \in here : TRUE).type]
            ELSE origin[n]]

AddParameters(v) ==
    /\ stage = "params" /\ v \in todo
    /\ IF Conflicting(v) # {}
       THEN /\ stage' = "refused"
            /\ UNCHANGED <<kind, todo, origin, spec, required, bound, warned>>
       ELSE /\ todo' = todo \ {v}
            /\ origin' = OriginAfter(v)
            /\ spec' = spec \cup {Top(n) : n \in NamesOf(Own(D, v))}
            /\ required' = required \cup RequiredOf(Own(D, v))
            /\ bound' = bound \cup RequiredOf(Own(D, v))
            /\ UNCHANGED <<kind, stage, warned>>

\* Once every verb is merged it is known which parameters no author can give any more.
RemovedUnidentified(d, S) ==
    {n \in Names : /\ \E v \in d.verbs : \E p \in Declared(d, v) : p.name = n /\ Supplies(d, v, n)
                   /\ Top(n) \notin S \cup d.excluded \cup d.identifiers}
Removed(d, S) == {n \in Names : /\ \E v \in d.verbs : \E p \in Declared(d, v) : p.name = n /\ Supplies(d, v, n)
                                /\ Top(n) \notin S /\ Top(n) \notin d.excluded}

\* An object that nobody creates is selected by its identifiers.  A leaf cannot be put under a
\* field that is there and is no object.
Selectors(d) == IF "create" \in d.verbs THEN {} ELSE d.identifiers
WithSelectors(d, S) ==
    {q \in S \cup Selectors(d) \cup {Top(q.root) : q \in Selectors(d)} :
        q \in S \/ Top(q.root) \notin S \/ IsObject(S, q.root)}
Unresolved(d, S) == {q.root : q \in {p \in Selectors(d) : p \notin AnswerOf(d) /\ ~(p.leaf = Whole /\ p \in S)}}

\* A field of the Configuration is a parameter some action it is meant for declares.
Found(d, c)        == \E a \in c.actions \cap d.verbs : \E q \in ParamsOf(d, a) : <<q.name, q.in>> = <<c.name, c.in>>
Configurable(d, v) == {c \in d.configured : v \in c.actions /\ Found(d, c)}
NeedsConfiguration(d) == d.configured # {} \/ d.secured

AddReferences ==
    /\ stage = "params" /\ todo = {}
    /\ spec' = WithSelectors(D, spec) \cup (IF NeedsConfiguration(D) THEN {Top(ConfigurationRef)} ELSE {})
    /\ required' = required \cup (IF NeedsConfiguration(D) THEN {ConfigurationRef} ELSE {})
    /\ warned' = Warn("removed", Removed(D, spec)) \cup Warn("selector", Unresolved(D, spec))
    /\ stage' = "configure"
    /\ UNCHANGED <<kind, todo, origin, bound>>

\* A field the Configuration gives is not the spec's.
ConfiguredPaths(d) == {Top(c.name) : c \in d.configured}
RemoveConfigured ==
    /\ stage = "configure"
    /\ spec' = Without(spec, ConfiguredPaths(D))
    /\ required' = {n \in required : Top(n) \notin ConfiguredPaths(D)}
    /\ warned' = warned \cup Warn("configured", {p.root : p \in ConfiguredPaths(D) \ spec})
    /\ stage' = "exclude"
    /\ UNCHANGED <<kind, todo, origin, bound>>

\* A required parameter stays, unless a field of that name in status can stand in for it.
Kept(d, B) == {p \in d.excluded : p.leaf = Whole /\ p.root \in B /\ p \notin StatusFields(d)}
Idle(d, S) == {p \in d.excluded \ S : ~(p.leaf = Whole /\ AnySupplier(d, p.root))}
RemoveExcluded ==
    LET gone == D.excluded \ Kept(D, bound)
    IN  /\ stage = "exclude"
        /\ spec' = Without(spec, gone)
        /\ required' = {n \in required : Top(n) \notin gone}
        /\ warned' = warned \cup Warn("kept", RootsOf(Kept(D, bound)))
                            \cup Warn("excluded", RootsOf(Idle(D, spec) \ Kept(D, bound)))
        /\ stage' = "include"
        /\ UNCHANGED <<kind, todo, origin, bound>>

\* An allowlist may not drop what the kind cannot do without.
AlwaysKept(d, B, n) == n \in B \cup {ConfigurationRef} \/ \E p \in Selectors(d) : SpelledLike(p, n)
Listed(d, q) == \E p \in d.included : Below(p, q) \/ (q.leaf = Whole /\ p.root = q.root)
Narrowed(d, B, S) ==
    IF d.included = {} THEN S ELSE {q \in S : AlwaysKept(d, B, q.root) \/ Listed(d, q)}

RetainIncluded ==
    /\ stage = "include"
    /\ IF D.included \subseteq spec
       THEN /\ spec' = Narrowed(D, bound, spec)
            /\ required' = IF D.included = {} THEN required
                           ELSE {n \in required : Top(n) \in Narrowed(D, bound, spec)}
            /\ stage' = "diagnose"
       ELSE stage' = "refused" /\ UNCHANGED <<spec, required>>
    /\ UNCHANGED <<kind, todo, origin, bound, warned>>

\* What a verb is given by its own declaration, whatever the custom resource holds.
VerbSupplied(d, v) ==
    {m.to.root : m \in {x \in d.mapped : x.verb = v /\ x.in \in {"path", "query"}}}
        \cup {s.name : s \in {x \in d.static : x.verb = v}}

ShadowedUnlessSupplied(d, R) ==
    {n \in Names : /\ \E f \in StatusFields(d) : f.root = n /\ f.leaf # Whole
                   /\ \E v \in d.verbs : \E p \in Declared(d, v) :
                         p.name = n /\ n \notin UNION {VerbSupplied(d, w) : w \in d.verbs} \cup R}
\* A dotted status field makes an object of a name that a verb wants in its URL.
Shadowed(d, R) ==
    {n \in Names : /\ \E f \in StatusFields(d) : f.root = n /\ f.leaf # Whole
                   /\ \E v \in d.verbs : \E p \in Declared(d, v) :
                         p.name = n /\ n \notin VerbSupplied(d, v) \cup R}

\* A mapping reads a field of a stanza that has it, or that the generator knows nothing of.
Resolves(d, S, m) ==
    IF m.stanza = "spec" THEN m.from.root \in RootsOf(S) ELSE HasStatus(d) => m.from.root \in StatusRoots(d)
Unresolvable(d, S) ==
    {m.to.root : m \in {x \in d.mapped : x.in # "response" /\ ~x.resolver /\ ~Resolves(d, S, x)}}

UnmatchableByGet(d) == d.identifiers \ AnswerOf(d)
\* Findby cannot compare an identifier that its items do not carry.
Unmatchable(d) == IF "findby" \in d.verbs THEN d.identifiers \ d.answer["findby"] ELSE {}

\* A status field that no answer is known to carry.
Unanswered(d) == {f \in StatusFields(d) : /\ HasStatus(d) /\ f \notin AnswerOf(d)
                                          /\ \A m \in Relocated(d) : m.from # f \/ m.to \notin AnswerOf(d)}

Diagnose ==
    /\ stage = "diagnose"
    /\ warned' = warned \cup Warn("shadowed", Shadowed(D, required))
                        \cup Warn("source", Unresolvable(D, spec))
                        \cup Warn("unmatchable", RootsOf(Unmatchable(D)))
                        \cup Warn("status", RootsOf(Unanswered(D)))
    /\ stage' = "generated"
    /\ UNCHANGED <<kind, todo, origin, spec, required, bound>>

Generate == \/ \E v \in Actions : AddParameters(v)
            \/ AddReferences \/ RemoveConfigured \/ RemoveExcluded \/ RetainIncluded \/ Diagnose

\* The author changes the definition, and its kind is generated anew.
Redefine(k) ==
    /\ stage \in {"served", "refused"} /\ k \in Edits[kind]
    /\ kind' = k
    /\ stage' = "params"
    /\ todo' = Def[k].verbs
    /\ origin' = [n \in Names |-> NoOrigin]
    /\ spec' = Base(Def[k])
    /\ required' = BaseRequired(Def[k])
    /\ bound' = {} /\ warned' = {}
=============================================================================
