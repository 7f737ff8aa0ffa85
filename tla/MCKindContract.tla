--------------------------- MODULE MCKindContract ---------------------------
(* Definitions of one API, /orgs/{org}/things/{id}: every way of naming its *)
(* identifiers, mapping its parameters and narrowing its spec.              *)
EXTENDS KindContract

MCNames  == {"org", "id", "name", "token", "meta"}
MCLeaves == {"x"}

Part(n) == [root |-> n, leaf |-> "x"]
Param(n, l, r) == [name |-> n, in |-> l, required |-> r, type |-> "string"]
Mapping(v, l, to, s, f) == [verb |-> v, in |-> l, to |-> to, stanza |-> s, from |-> f, resolver |-> FALSE]

\* All five verbs; none to find a thing by; get and findby only; findby in a document of its own.
Shapes      == {"things", "byid", "found", "split"}
Identities  == {"id", "name", "both", "part"}
MappingSets == {"none", "status", "spec", "self", "response"}
Narrowings  == {"none", "noid", "noorg", "only", "config", "partly"}
Answers     == {"full", "abridged", "object"}

\* Definitions that differ from the plainest of their shape by one choice, or two.
Plain   == <<"things", "id", "none", "none", "full">>
MCKinds == {k \in Shapes \X Identities \X MappingSets \X Narrowings \X Answers :
               Cardinality({i \in 2..5 : k[i] # Plain[i]}) <= (IF k[1] \in {"things", "found"} THEN 2 ELSE 1)}

ById3 == {"get", "update", "delete"}
DefOf(k) ==
    LET verbs == CASE k[1] = "found" -> {"get", "findby"}
                   [] k[1] = "byid"  -> {"create", "get", "update", "delete"}
                   [] OTHER -> Actions
    IN [verbs |-> verbs,
        document |-> [v \in Actions |-> IF k[1] = "split" /\ v = "findby" THEN "other" ELSE "main"],
        shared |-> [v \in Actions |-> IF v \in ById3 THEN {Param("org", "path", TRUE)} ELSE {}],
        params |-> [v \in Actions |->
            (IF v \in ById3 THEN {Param("id", "path", TRUE)} ELSE {Param("org", "path", TRUE)})
              \cup (IF v = "findby" THEN {Param("name", "query", FALSE),
                                      [Param("id", "query", FALSE) EXCEPT !.type = IF k[1] = "split" /\ k[4] = "only"
                                                                            THEN "integer" ELSE "string"]}
                    ELSE IF v = "update" THEN {Param("token", "header", TRUE)}
                    ELSE IF v = "get" THEN {Param("name", "query", FALSE)} ELSE {})],
        body |-> [v \in Actions |-> CASE v = "create" -> {Top("name")} \cup (IF k[2] = "part" THEN {Part("name")} ELSE {})
                                      [] v = "update" -> {Top("name")} [] OTHER -> {}],
        bodyRequired |-> [v \in Actions |-> IF v = "create" THEN {"name"} ELSE {}],
        answer |-> [v \in Actions |->
            CASE v = "get"    -> {Top("name"), Top("org")}
                                   \cup (IF k[5] = "object" THEN {Part("org")} ELSE {Top("id")})
                                   \cup (IF k[5] = "object" /\ k[1] = "found" THEN {Part("name")} ELSE {})
                                   \cup (IF k[2] = "part" THEN {Top("meta"), Part("meta")} ELSE {})
              [] v = "findby" -> {Top("name")} \cup (IF k[5] = "abridged" THEN {} ELSE {Top("id")})
              [] v = "create" -> IF k[2] = "part" THEN {Top("meta"), Part("meta")}
                                 ELSE IF k[5] = "abridged" THEN {} ELSE {Top("id"), Top("name")}
              [] v = "update" -> IF k[5] = "object" THEN {Top("name")} ELSE {}
              [] OTHER -> {}],
        mapped |-> CASE k[3] = "none" -> {}
                     [] k[3] = "status" -> {Mapping(v, "path", Top("id"), "status", Top("id")) : v \in ById3}
                     [] k[3] = "spec" -> {Mapping("get", "path", Top("org"), "spec", Top("name"))}
                     [] k[3] = "self" -> {Mapping(v, "path", Top("org"), "spec", Top("org")) : v \in Actions}
                     [] k[3] = "response" -> {Mapping("get", "response", Top("name"), "status", Top("org")),
                                              [Mapping("create", "body", Top("name"), "spec", Top("token"))
                                                 EXCEPT !.resolver = TRUE]},
        static |-> {[verb |-> "get", in |-> "query", name |-> "name"]},
        identifiers |-> CASE k[2] = "id" -> {Top("id")} [] k[2] = "name" -> {Top("name")}
                          [] k[2] = "both" -> {Top("id"), Top("name")} [] k[2] = "part" -> {Part("meta")},
        additional |-> IF k[2] = "name" THEN {Top("id")} ELSE IF k[5] # "object" THEN {}
                       ELSE {Part("org")} \cup (IF k[1] = "found" THEN {Part("name")} ELSE {}),
        excluded |-> CASE k[4] = "noid" -> {Top("id")} [] k[4] = "noorg" -> {Top("org"), Part("name")} [] OTHER -> {},
        included |-> IF k[4] # "only" THEN {} ELSE
            {Top("name")} \cup IF k[1] = "byid" THEN {Top("token")} ELSE IF k[5] = "object" THEN {Top("meta")} ELSE {},
        configured |-> CASE k[4] = "config" -> {[name |-> "org", in |-> "path", actions |-> Actions]}
                         [] k[4] = "partly" -> {[name |-> "org", in |-> "path", actions |-> {"create"}]}
                         [] OTHER -> {},
        secured |-> k[4] = "none", matchAll |-> k[2] = "both"]

MCDef == [k \in MCKinds |-> DefOf(k)]
MCEdits == [k \in MCKinds |->
    IF k[3] = "none" THEN {[k EXCEPT ![3] = m] : m \in {"status", "spec"}} \cap MCKinds ELSE {}]
=============================================================================
