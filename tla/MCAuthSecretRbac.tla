-------------------------- MODULE MCAuthSecretRbac --------------------------
(* Two definitions of one plural: one refers to Secrets of two namespaces,  *)
(* the other to one Secret next to them.                                    *)
EXTENDS AuthSecretRbac

CONSTANTS ours, theirs, near, far, key, cert

TwoDefinitions == {ours, theirs}
TwoNamespaces  == {near, far}
TwoSecrets     == {key, cert}
TwoConfigurations ==
    [d \in TwoDefinitions |->
        IF d = ours THEN {{}, {<<near, key>>, <<far, key>>}, {<<near, cert>>}}
        ELSE {{<<near, cert>>}}]
=============================================================================
