---------------------------- MODULE KindContract ----------------------------
(***************************************************************************)
(* What a generated kind promises, kept by the controller that serves it.  *)
(* The provider generates the schema of the kind, an author writes a       *)
(* custom resource that the API server admits under it, and the controller *)
(* builds each verb's request from the Configuration, the static values of *)
(* the verb, the spec, what it learnt into status, and the mappings, in    *)
(* that order.  The definition may be changed while resources live.        *)
(***************************************************************************)
EXTENDS KindSchema

CONSTANTS
    CredentialNames     \* header names that carry a credential

ASSUME CredentialAssumption == AuthorizationNames \subseteq CredentialNames /\ CredentialNames \subseteq Names

VARIABLES
    crd,            \* the spec fields the API server admits
    crdRequired,    \* and those it demands
    written,        \* whether the author wrote a custom resource
    given,          \* the fields of its spec
    learnt,         \* the fields of its status
    live,           \* whether the external resource exists
    made,           \* whether the Creating or Available condition is set
    seen,           \* what the last Observe made of it
    pruned          \* the fields of spec the API server dropped when the kind was last replaced

resource == <<written, given, learnt>>
external == <<live, made, seen>>
contractVars == <<generation, crd, crdRequired, resource, external, pruned>>

ContractTypeOK ==
    /\ kind \in Kinds
    /\ stage \in {"params", "refused", "configure", "exclude", "include", "diagnose", "generated", "served"}
    /\ todo \subseteq Actions
    /\ origin \in [Names -> {NoOrigin} \cup [document : Documents, type : Types]]
    /\ spec \subseteq Paths /\ required \subseteq Roots /\ bound \subseteq Names
    /\ warned \subseteq {"removed", "selector", "configured", "kept", "excluded",
                         "shadowed", "source", "unmatchable", "status"} \X Roots
    /\ crd \subseteq Paths /\ crdRequired \subseteq Roots
    /\ written \in BOOLEAN /\ given \subseteq Paths /\ learnt \subseteq Paths
    /\ live \in BOOLEAN /\ made \in BOOLEAN
    /\ seen \in {"unknown", "absent", "found", "failed"}
    /\ pruned \subseteq Roots
    /\ stage = "served" => crd = spec /\ crdRequired = required

ContractInit ==
    /\ \E k \in Kinds : kind = k /\ Begin(k)
    /\ crd = {} /\ crdRequired = {}
    /\ written = FALSE /\ given = {} /\ learnt = {}
    /\ live \in BOOLEAN /\ made = FALSE /\ seen = "unknown"
    /\ pruned = {}

----------------------------------------------------------------------------
(* One verb's request.                                                     *)

Has(v) == v \in D.verbs
Scalar(S, n) == Top(n) \in S /\ ~IsObject(S, n)

\* What the Configuration holds is put where it belongs.
FromConfiguration(v, p) == \E c \in Configurable(D, v) : c.name = p.name /\ c.in = p.in
Static(v, p) == \E s \in D.static : s.verb = v /\ s.name = p.name /\ s.in = p.in

\* A credential is never taken from the custom resource.
Withheld(p) == p.in = "header" /\ p.name \in CredentialNames
Drawn(p)    == ~Withheld(p) /\ (Scalar(given, p.name) \/ Scalar(learnt, p.name))

\* Mappings are applied last.  What needs a Secret or a lookup is resolved for the writing verbs only.
Applied(v)  == {m \in D.mapped : /\ m.verb = v /\ m.in \in {"path", "query"}
                                 /\ m.resolver => v \in {"create", "update", "delete"}}
Stanza(m)   == IF m.stanza = "spec" THEN given ELSE learnt
Reads(m)    == m.from \in Stanza(m)
Unrenderable(m) == /\ ~m.resolver /\ Reads(m)
                   /\ m.from.leaf = Whole /\ IsObject(Stanza(m), m.from.root)
Mapped(v, p) == \E m \in Applied(v) : m.to = Top(p.name) /\ m.in = p.in /\ Reads(m) /\ ~Unrenderable(m)

Filled(v, p) == FromConfiguration(v, p) \/ Static(v, p) \/ Drawn(p) \/ Mapped(v, p)

\* An object cannot be put into a URL: what no later writer supplied is refused.
Composites(v) == {p \in ParamsOf(D, v) : /\ ~Withheld(p) /\ ~Filled(v, p)
                                         /\ IsObject(given, p.name) \/ IsObject(learnt, p.name)}
SuppliedLater(p) == p.in \in {"header", "cookie"} /\ p.name \in CredentialNames
Missing(v) == {p \in ParamsOf(D, v) \ Composites(v) : p.required /\ ~Filled(v, p) /\ ~SuppliedLater(p)}

CannotBuild(v) == Composites(v) # {} \/ \E m \in Applied(v) : Unrenderable(m)
Sends(v) == Has(v) /\ ~CannotBuild(v) /\ Missing(v) = {}
UnresolvedPathParams(v) == {p \in ParamsOf(D, v) : p.in = "path" /\ ~Filled(v, p)}

----------------------------------------------------------------------------
(* The API server and the author.                                          *)

\* The status schema has the status fields, and what lies above and below them.
StatusKeeps(d, q) == \E f \in StatusFields(d) : q = Top(f.root) \/ Below(f, q)

\* Mutant of Serve: what the old schema demanded is demanded still.
ServeFields ==
    /\ stage = "generated" /\ stage' = "served"
    /\ crd' = spec
    /\ given' = given \cap spec
    /\ learnt' = {q \in learnt : StatusKeeps(D, q)}
    /\ pruned' = {q.root : q \in {p \in given \ spec : p.leaf = Whole}}
    /\ UNCHANGED <<kind, todo, origin, spec, required, bound, warned, crdRequired, written, external>>

\* The new schema replaces the old one, and what it does not have is dropped from the resource.
Serve ==
    /\ stage = "generated" /\ stage' = "served"
    /\ crd' = spec /\ crdRequired' = required
    /\ given' = given \cap spec
    /\ learnt' = {q \in learnt : StatusKeeps(D, q)}
    /\ pruned' = {q.root : q \in {p \in given \ spec : p.leaf = Whole}}
    /\ UNCHANGED <<kind, todo, origin, spec, required, bound, warned, written, external>>

\* What the API server admits: nothing required is absent, and an object comes with its parts.
Admissible(S) ==
    /\ \A n \in crdRequired : Top(n) \in S
    /\ \A q \in S : /\ Top(q.root) \in S
                    /\ IsObject(crd, q.root) => IsObject(S, q.root)

Author ==
    /\ stage = "served"
    /\ \E S \in SUBSET crd : Admissible(S) /\ given' = S /\ (written => given' # given)
    /\ written' = TRUE
    /\ UNCHANGED <<generation, crd, crdRequired, learnt, external, pruned>>

Change ==
    /\ written /\ (\E k \in Kinds : Redefine(k))
    /\ UNCHANGED <<crd, crdRequired, resource, external, pruned>>

----------------------------------------------------------------------------
(* The controller.                                                         *)

\* A response mapping is applied to an answer before anything is read from it.
Normalised(v) == D.answer[v] \cup {m.from : m \in {x \in D.mapped :
                     x.verb = v /\ x.in = "response" /\ x.to \in D.answer[v]}}
Populated(v) ==
    LET fields == StatusFields(D) \cap Normalised(v)
    IN  {Top(f.root) : f \in fields} \cup {q \in Normalised(v) : \E f \in fields : Below(f, q)}

\* An identifier is compared with what the custom resource carries in spec or in status.
Comparable  == {i \in D.identifiers : i \in D.answer["findby"] /\ i \in given \cup learnt}
Matches     == IF D.matchAll THEN Comparable = D.identifiers ELSE Comparable # {}

\* Get is used when its request can be built, findby when its identity is not known yet.
Verdict ==
    IF Has("get") /\ CannotBuild("get") THEN "failed"
    ELSE IF Sends("get") THEN (IF live THEN "found" ELSE "absent")
    ELSE IF ~Has("findby") THEN (IF made THEN "found" ELSE "absent")
    ELSE IF ~Sends("findby") THEN "failed"
    ELSE IF live /\ Matches THEN "found" ELSE "absent"

Reader == IF Sends("get") THEN "get" ELSE "findby"

ObserveAnew ==
    /\ written
    /\ seen' = Verdict
    /\ learnt' = IF Verdict = "found" /\ Sends(Reader) THEN Populated(Reader) ELSE {}
    /\ made' = (made \/ Verdict = "found")
    /\ UNCHANGED <<generation, crd, crdRequired, written, given, live, pruned>>

Observe ==
    /\ written
    /\ seen' = Verdict
    /\ learnt' = IF Verdict = "found" /\ Sends(Reader) THEN learnt \cup Populated(Reader) ELSE learnt
    /\ made' = (made \/ Verdict = "found")
    /\ UNCHANGED <<generation, crd, crdRequired, written, given, live, pruned>>

\* A status is cleared before it is filled from the answer to a create.
Create ==
    /\ written /\ seen = "absent" /\ Sends("create")
    /\ live' = TRUE /\ made' = TRUE /\ seen' = "unknown"
    /\ learnt' = Populated("create")
    /\ UNCHANGED <<generation, crd, crdRequired, written, given, pruned>>

\* And before it is filled from the answer to an update, unless there is none.
Update ==
    /\ written /\ seen = "found" /\ live /\ Sends("update")
    /\ learnt' = IF D.answer["update"] = {} THEN learnt ELSE Populated("update")
    /\ seen' = "unknown"
    /\ UNCHANGED <<generation, crd, crdRequired, written, given, live, made, pruned>>

\* The custom resource goes once the API has deleted what it stands for.  What cannot be addressed,
\* or is not the API's to delete, is left behind.
Delete ==
    /\ written
    /\ \/ Sends("delete") /\ live' = FALSE
       \/ (Has("delete") => UnresolvedPathParams("delete") # {}) /\ UNCHANGED live
    /\ written' = FALSE /\ given' = {} /\ learnt' = {}
    /\ made' = FALSE /\ seen' = "unknown"
    /\ pruned' = {}
    /\ UNCHANGED <<generation, crd, crdRequired>>

\* Somebody removes the resource.
Vanish ==
    /\ written /\ live /\ live' = FALSE
    /\ UNCHANGED <<generation, crd, crdRequired, resource, made, seen, pruned>>

ContractNext ==
    \/ Generate /\ UNCHANGED <<crd, crdRequired, resource, external, pruned>>
    \/ Serve \/ Author \/ Change
    \/ Observe \/ Create \/ Update \/ Delete \/ Vanish
    \/ stage = "refused" /\ UNCHANGED contractVars

ContractSpec == ContractInit /\ [][ContractNext]_contractVars

----------------------------------------------------------------------------
(* The promises.                                                           *)

\* The API server has admitted the custom resource under the schema it serves.
InForce == stage = "served" /\ written /\ \A n \in crdRequired : Top(n) \in given

\* A required parameter a verb takes from the custom resource is there, in every request of every
\* verb, unless the definition says otherwise: a mapping of this verb gives it, the Configuration
\* does, or the author excluded it for a status field to stand in.  No order of merging, and no
\* narrowing of the spec, leaves a verb without what it asks for (spec_builder.go, builder.go).
NothingIsMissing ==
    InForce => \A v \in D.verbs : \A p \in Missing(v) :
        \/ Supplies(D, v, p.name)
        \/ Top(p.name) \in ConfiguredPaths(D)
        \/ Top(p.name) \in D.excluded \cap StatusFields(D)

\* A request the controller refuses to build, because an object would end up in a URL, is one the
\* author could know of: the generator warned of the dotted status field, or the documents
\* themselves make an object of the name, in the spec or in the answer a status field copies
\* (status_field_parameter_shadow.go, builder.go).
ObjectsAreForetold ==
    InForce => \A v \in D.verbs : \A p \in Composites(v) :
        \/ <<"shadowed", p.name>> \in warned
        \/ IsObject(crd, p.name)
        \/ Top(p.name) \in StatusFields(D)
        \/ p.name \in VerbSupplied(D, v)

\* The top-level fields a definition and its documents could give the spec of a kind.
Offered(d) ==
    {n \in Roots : \/ Top(n) \in Base(d)
                   \/ \E v \in d.verbs : n \in NamesOf(Declared(d, v))
                   \/ n \in RootsOf(Selectors(d))
                   \/ NeedsConfiguration(d) /\ n = ConfigurationRef}

\* A value the API server drops from a custom resource although the documents still offer its field
\* is announced, because a mapping of every verb that asks for it gives the parameter now, unless the
\* author excluded the field, left it to the Configuration or off the list (spec_builder.go).
DroppedFieldsAreAnnounced ==
    stage = "served" => \A n \in pruned \cap Offered(D) :
        \/ <<"removed", n>> \in warned
        \/ Top(n) \in D.excluded \cup ConfiguredPaths(D)
        \/ D.included # {} /\ Top(n) \notin D.included

\* A live resource is taken for absent, and so created a second time, only if its identifiers cannot
\* be compared: the author was warned that findby does not carry one, or the custom resource does not
\* hold one (identifier_matchability.go, restclient.go).
AbsenceIsForetold ==
    InForce /\ live /\ Verdict = "absent" =>
        \/ \E i \in D.identifiers : <<"unmatchable", i.root>> \in warned
        \/ \E i \in D.identifiers : i \notin given \cup learnt
        \/ D.identifiers = {} \/ ~Has("findby")

\* What the controller finds the resource by: its identifiers, and what the get request is filled from.
FoundBy ==
    {q \in Paths : \/ q \in D.identifiers
                   \/ \E p \in ParamsOf(D, "get") : q = Top(p.name)
                   \/ \E m \in Applied("get") : q = m.from}

\* Whoever was found stays found while neither the author nor the definition changes: only a write
\* makes the controller forget, when the answer does not repeat what it finds the resource by: an
\* update, or a create decided on before the author's last edit (restResources.go, builder.go).
Unprovoked == InForce /\ written' /\ live /\ live' /\ given' = given /\ kind' = kind
FoundIsNotLost ==
    [][Unprovoked /\ Verdict = "found" /\ Verdict' = "absent"
         => (Update \/ Create) /\ \E q \in FoundBy : q \in learnt /\ q \notin learnt']_contractVars

----------------------------------------------------------------------------
(* The inductive strengthenings the proofs use.                            *)

\* Where a parameter that a verb needs of the author may have gone, at each stage of the generation.
BoundIsCarried ==
    /\ stage \notin {"params", "refused"} => todo = {}
    /\ stage # "refused" => \A v \in D.verbs \ todo : RequiredOf(Own(D, v)) \subseteq bound
    /\ stage # "refused" => \A n \in bound :
          \/ Top(n) \in spec /\ n \in required
          \/ stage \notin {"params", "configure"} /\ Top(n) \in ConfiguredPaths(D)
          \/ stage \notin {"params", "configure", "exclude"} /\ Top(n) \in D.excluded \cap StatusFields(D)

\* What the finished generation has warned of.
WarningsAreIn ==
    stage \in {"generated", "served"} =>
        /\ Warn("shadowed", Shadowed(D, required)) \subseteq warned
        /\ Warn("unmatchable", RootsOf(Unmatchable(D))) \subseteq warned

\* A field that is offered is in the spec, or its absence is accounted for.
Accounted(n) ==
    \/ Top(n) \in spec
    \/ <<"removed", n>> \in warned
    \/ Top(n) \in D.excluded \cup ConfiguredPaths(D)
    \/ D.included # {} /\ Top(n) \notin D.included

OfferIsCarried ==
    /\ stage = "params" =>
          /\ Base(D) \subseteq spec
          /\ \A v \in D.verbs \ todo : \A p \in Own(D, v) : Top(p.name) \in spec
    /\ stage \notin {"params", "refused"} => \A n \in Offered(D) : Accounted(n)

\* What the custom resource holds is what its kind has.
ResourceFits ==
    stage = "served" =>
        /\ given \subseteq crd
        /\ \A q \in learnt : StatusKeeps(D, q)
        /\ \A n \in pruned : Top(n) \notin crd

KindIsKept == BoundIsCarried /\ WarningsAreIn /\ OfferIsCarried /\ ResourceFits
=================================================================
