---------------------------- MODULE MCFindByWalk ----------------------------
(* FindByWalk on every kind of declaration, on both sides of the ceiling. *)
EXTENDS FindByWalk

Number(signals, sizes, bounds) ==
    [strategy : {"number"}, signal : signals, size : sizes, maxPages : bounds,
     served : {2}, endless : {FALSE}]

Tokens  == [strategy : {"token"}, signal : {"header"}, size : {0}, maxPages : {0},
            served : {1, 3}, endless : BOOLEAN]
OnePage == [strategy : {"single"}, signal : {"short"}, size : {0}, maxPages : {0},
            served : {MaxItems}, endless : {FALSE}]

AllApis ==
    Number({"short", "header", "totalPages", "totalItems"}, {0, 2}, 0 .. Ceiling + 1)
        \cup Tokens \cup OnePage
=============================================================================
