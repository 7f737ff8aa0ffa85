--------------------------- MODULE MCRdcLifecycle ---------------------------
(* RdcLifecycle on small instances: the kinds the repository's samples and  *)
(* tests declare, and the disturbances each run allows.                     *)
EXTENDS RdcLifecycle

Kind(verbs, traits) == [verbs |-> verbs, traits |-> traits]

Writes == {"create", "update", "delete"}

\* get by the identifier in status, findby before it is known.
ServerId  == Kind(Writes \cup {"get", "findby"}, {"echo"})
Silent    == Kind(Writes \cup {"get", "findby"}, {})
GetOnly   == Kind(Writes \cup {"get"}, {"echo"})
FindOnly  == Kind(Writes \cup {"findby"}, {"echo"})
\* get by a name from spec.
ByName    == Kind(Writes \cup {"get"}, {"named"})
WriteOnly == Kind(Writes, {"echo"})
NoWrites  == Kind({"get", "findby"}, {"echo"})
NoDelete  == Kind({"get", "findby", "create", "update"}, {"echo"})
CreateOnly == Kind({"get", "findby", "create", "delete"}, {"echo"})
Accepted  == Kind(Writes \cup {"get", "findby"}, {"echo", "async"})
AcceptedByName == Kind(Writes \cup {"get"}, {"named", "echo", "async"})
WithLookup == Kind(Writes \cup {"get", "findby"}, {"echo", "lookup"})
AcceptedWriteOnly == Kind(Writes, {"echo", "async"})

AllKinds == {ServerId, Silent, GetOnly, FindOnly, ByName, WriteOnly, NoWrites,
             NoDelete, CreateOnly, Accepted, AcceptedByName, AcceptedWriteOnly, WithLookup}

\* One kind for each way a create or a deletion can end.
EndingKinds == {ServerId, Silent, ByName, FindOnly, WriteOnly, Accepted, WithLookup}
=============================================================================
