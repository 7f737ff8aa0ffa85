----------------------------- MODULE FindByWalk -----------------------------
(***************************************************************************)
(* The findby verb of the rest-dynamic-controller: a walk over the pages   *)
(* of a collection in search of one resource.  FindBy asks for a page,     *)
(* looks for a match on it, and lets the declared paginator judge from the *)
(* answer whether the walk goes on, the collection ended, or nobody can    *)
(* tell.  Only the end of the collection becomes a 404, on which the       *)
(* reconciler creates; the collection changes while the walk goes on.      *)
(*                                                                         *)
(* The collection is `count` items in order; the resource looked for is    *)
(* the item in position `where`, 0 when it is not there.                   *)
(***************************************************************************)
EXTENDS Integers

CONSTANTS
    Apis,       \* the declarations and APIs considered, see ApiType
    Ceiling,    \* MaxFindByPages
    MaxItems,   \* the collection grows to this many items (a bound)
    Faults,     \* the kinds of disturbance that may happen
    MaxFaults   \* how many disturbances happen in all (a bound)

(***************************************************************************)
(* strategy, signal, size and maxPages are declared: how pages are asked   *)
(* for, how the last one is recognised, how many items one should have (0: *)
(* not declared) and how many may be read.  served is how many items the   *)
(* API puts on a page; an endless API sends a token on the last page too.  *)
(* Pages are counted from the declared startPage.                          *)
(***************************************************************************)
ApiType ==
    [strategy : {"single", "number", "token"},
     signal : {"short", "header", "totalPages", "totalItems"},
     size : Nat, maxPages : Nat, served : Nat \ {0}, endless : BOOLEAN]
FaultKinds == {"api", "omits", "drops", "shrinks"}

ASSUME ApisAssumption    == Apis \subseteq ApiType
ASSUME CeilingAssumption == Ceiling \in Nat \ {0}
ASSUME FaultsAssumption  == Faults \subseteq FaultKinds
ASSUME BoundsAssumption  == MaxItems \in Nat /\ MaxFaults \in Nat

VARIABLES
    api,       \* the declaration and the API it is about, fixed
    count,     \* how many items the collection has
    where,     \* the position of the resource in it
    pc,        \* idle or walk
    page,      \* pageNumberPaginator.page, from startPage
    token,     \* continuationTokenPaginator.nextToken: the last position read
    scanned,   \* pagesScanned
    outcome,   \* what the walk said: found, absent (404) or error
    kept,      \* history: the API kept to its declaration during this walk
    faults     \* disturbances so far

collection == <<count, where>>
walk       == <<pc, page, token, scanned, outcome>>
vars       == <<api, collection, walk, kept, faults>>

TypeOK ==
    /\ api \in Apis
    /\ count \in 0 .. MaxItems /\ where \in 0 .. count
    /\ pc \in {"idle", "walk"}
    /\ page \in Nat /\ token \in 0 .. MaxItems /\ scanned \in 0 .. Ceiling
    /\ outcome \in {"none", "found", "absent", "error"}
    /\ kept \in BOOLEAN
    /\ faults \in 0 .. MaxFaults

Init ==
    /\ api \in Apis
    /\ count \in 0 .. MaxItems /\ where \in 0 .. count
    /\ pc = "walk" /\ page = 0 /\ token = 0 /\ scanned = 0 /\ outcome = "none"
    /\ kept = TRUE /\ faults = 0

Fault(f) == f \in Faults /\ faults < MaxFaults /\ faults' = faults + 1

-----------------------------------------------------------------------------
(* A page and what the API says of it.                                     *)

Offset == IF api.strategy = "number" THEN page * api.served
          ELSE IF api.strategy = "token" THEN token ELSE 0
Upto       == Offset + api.served
OnPage     == Offset < where /\ where <= Upto
MoreBehind == Upto < count
Short      == count - Offset < api.size \/ api.served < api.size

\* The declared mechanism can be applied (a size to compare with, a bound).
Judgeable ==
    api.strategy = "number" /\ api.signal \in {"short", "totalItems"} => api.size > 0

\* Mutant of Accepted: the declared bound is not held against the ceiling.
AcceptedUnbounded == api.strategy = "number" => api.maxPages > 0

\* NewPaginator accepts the declaration.
Accepted == api.strategy = "number" => api.maxPages > 0 /\ api.maxPages <= Ceiling

\* hasMore and continuationToken's Next, when the signal is there to be read.
SaysMore ==
    CASE api.strategy = "single" -> FALSE
      [] api.strategy = "token"  -> MoreBehind \/ api.endless
      [] api.strategy = "number" ->
            CASE api.signal = "short"      -> ~Short
              [] api.signal = "header"     -> MoreBehind
              [] api.signal = "totalPages" -> (scanned + 1) * api.served < count
              [] api.signal = "totalItems" -> (scanned + 1) * api.size < count

-----------------------------------------------------------------------------
Walking == pc = "walk" /\ Accepted /\ scanned < Ceiling

Answer(a) == outcome' = a /\ pc' = "idle" /\ UNCHANGED <<page, token, scanned>>

\* A new paginator and its Init.
StartWalk ==
    /\ pc = "idle"
    /\ pc' = "walk" /\ page' = 0 /\ token' = 0 /\ scanned' = 0 /\ outcome' = "none"
    /\ kept' = TRUE
    /\ UNCHANGED <<api, collection, faults>>

RefuseDeclaration ==
    /\ pc = "walk" /\ ~Accepted
    /\ Answer("error")
    /\ UNCHANGED <<api, kept, collection, faults>>

StopAtCeiling ==
    /\ pc = "walk" /\ Accepted /\ scanned >= Ceiling
    /\ Answer("error")
    /\ UNCHANGED <<api, kept, collection, faults>>

PageFails ==
    /\ Walking /\ Fault("api")
    /\ Answer("error")
    /\ UNCHANGED <<api, kept, collection>>

FindMatch ==
    /\ Walking /\ OnPage
    /\ Answer("found")
    /\ UNCHANGED <<api, kept, collection, faults>>

NoMatch == Walking /\ ~OnPage

\* Mutant of MayGoOn: the page just read is not counted against the bound.
MayStillGoOn == api.strategy = "number" => scanned < api.maxPages

\* maxPages is consulted only once there is another page.
MayGoOn == api.strategy = "number" => scanned + 1 < api.maxPages

\* Mutant of TurnPage: the page is not counted.
TurnUncounted ==
    /\ NoMatch /\ Judgeable /\ SaysMore /\ MayGoOn
    /\ page' = IF api.strategy = "number" THEN page + 1 ELSE page
    /\ token' = IF api.strategy = "token" THEN IF MoreBehind THEN Upto ELSE count ELSE token
    /\ UNCHANGED <<pc, scanned, outcome, api, kept, collection, faults>>

\* MorePages.
TurnPage ==
    /\ NoMatch /\ Judgeable /\ SaysMore /\ MayGoOn
    /\ scanned' = scanned + 1
    /\ page' = IF api.strategy = "number" THEN page + 1 ELSE page
    /\ token' = IF api.strategy = "token" THEN IF MoreBehind THEN Upto ELSE count ELSE token
    /\ UNCHANGED <<pc, outcome, api, kept, collection, faults>>

\* Mutant of EndOfCollection: the bound on effort is taken for the end.
EndsAtBound ==
    /\ NoMatch /\ Judgeable /\ ~(SaysMore /\ MayGoOn)
    /\ Answer("absent")
    /\ UNCHANGED <<api, kept, collection, faults>>

\* Exhausted.  A continuation token that is not there is the end, whatever the
\* reason it is not there for.
EndOfCollection ==
    /\ NoMatch
    /\ \/ Judgeable /\ ~SaysMore /\ UNCHANGED <<kept, faults>>
       \/ api.strategy = "token" /\ Fault("drops") /\ kept' = FALSE
    /\ Answer("absent")
    /\ UNCHANGED <<api, collection>>

\* Indeterminate: nothing to compare with, the bound is reached, or the signal
\* that was declared is not in the answer.
CannotTell ==
    /\ NoMatch /\ api.strategy = "number"
    /\ \/ ~Judgeable /\ UNCHANGED faults
       \/ Judgeable /\ SaysMore /\ ~MayGoOn /\ UNCHANGED faults
       \/ api.signal # "short" /\ Fault("omits")
    /\ Answer("error")
    /\ UNCHANGED <<api, kept, collection>>

FindBy ==
    \/ StartWalk \/ RefuseDeclaration \/ StopAtCeiling \/ PageFails \/ FindMatch
    \/ TurnPage \/ EndOfCollection \/ CannotTell

-----------------------------------------------------------------------------
(* Others use the API too: items are added at the end and removed.         *)

AddItem ==
    /\ count < MaxItems
    /\ count' = count + 1
    /\ where' \in {where} \cup (IF where = 0 THEN {count + 1} ELSE {})
    /\ UNCHANGED <<api, kept, walk, faults>>

RemoveResource ==
    /\ where # 0
    /\ count' = count - 1 /\ where' = 0
    /\ UNCHANGED <<api, kept, walk, faults>>

\* The items behind a removed one move up.
RemoveOther ==
    /\ count > 0 /\ Fault("shrinks")
    /\ kept' = (kept /\ pc = "idle")
    /\ count' = count - 1
    /\ \/ where = 0 /\ where' = 0
       \/ where > 1 /\ where' = where - 1
       \/ where # 0 /\ where < count /\ where' = where
    /\ UNCHANGED <<api, walk>>

Others == AddItem \/ RemoveResource \/ RemoveOther

Next == FindBy \/ Others

\* The worker finishes the walk it began.
Spec     == Init /\ [][Next]_vars
FairSpec == Spec /\ WF_vars(FindBy /\ pc = "walk" /\ faults' = faults)

-----------------------------------------------------------------------------
(* Properties.                                                             *)

\* A declaration fits its API: a page has as many items as were asked for, and an
\* API whose declaration has no pages serves everything at once.
Fitting ==
    \A a \in Apis :
        /\ a.size \in {0, a.served}
        /\ a.strategy = "single" => MaxItems <= a.served

\* Under fitting declarations a walk over many pages answers as one read at one
\* moment would, even while items are added and the resource itself is removed,
\* unless the API drops a token or moves items under it: RdcLifecycle's ReadFound
\* and ReadNothing.
Read == INSTANCE OneRead WITH present <- where # 0, answer <- IF kept THEN outcome ELSE "none"
AnswersAsOneRead == Read!Spec

\* The bound a declaration states is the one that ends its walk: an accepted
\* page-number walk is never cut short by the ceiling (paginator.go).
DeclaredBoundDecides ==
    api.strategy = "number" /\ Accepted /\ pc = "walk" => scanned < Ceiling

\* Without disturbance, a walk whose declaration can be used ends without a
\* conclusion only when it read every page it was allowed to.
GivesUpOnlyAtItsBound ==
    [][outcome = "none" /\ outcome' = "error" /\ Accepted /\ Judgeable /\ faults' = faults
          => IF api.strategy = "number" THEN scanned + 1 = api.maxPages
                                        ELSE scanned = Ceiling]_vars

\* Every walk ends, however the API marks its pages.
WalkEnds == pc = "walk" ~> pc = "idle"

-----------------------------------------------------------------------------
(* The inductive strengthening the proofs use: what the walk has behind it *)
(* is in the collection and is not the resource.                           *)

NothingIsBehind ==
    /\ pc = "walk" <=> outcome = "none"
    /\ api.strategy = "number" => scanned = page
    /\ pc = "walk" /\ kept => Offset <= count /\ (where = 0 \/ where > Offset)
=============================================================================
