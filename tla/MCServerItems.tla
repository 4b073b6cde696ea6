---------------------------- MODULE MCServerItems ----------------------------
(* Objects for each test of processSyncItem(): one a little larger than    *)
(* declared, a newer version of it, one larger than the tolerance, one     *)
(* with the key of the first in another source, one larger than the limit, *)
(* one without data and without a name.                                    *)
EXTENDS ServerItems

Object(k, s, c, n, d) == [key |-> k, source |-> s, cmd |-> c, size |-> n, declared |-> d]

MCObjects ==
    {Object("a", 1, "Add", 106, 100), Object("a", 1, "Add", 50, 50),
     Object("b", 1, "Replace", 110, 100), Object("a", 2, "Add", 50, 50),
     Object("c", 2, "Replace", 130, 130),
     Object("none", 2, "Delete", 0, 0)}
=============================================================================
