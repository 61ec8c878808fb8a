-------------------------- MODULE MCGraphReconcile --------------------------
(***************************************************************************)
(* A module "m" whose class is renamed, refilled and emptied, and a second *)
(* file "c" of top-level code only, which calls into the first.            *)
(* (The fields of a symbol keep the order TLC sorts them in: the workers   *)
(* share these records.)                                                   *)
(***************************************************************************)
EXTENDS GraphReconcile

ModuleRoot(u) == [fqn |-> <<u>>, kind |-> "module", line |-> 0, body |-> 0]
Class(c, at) == [fqn |-> <<"m", c>>, kind |-> "class", line |-> at, body |-> 0]
Method(c, f, at) == [fqn |-> <<"m", c, f>>, kind |-> "method", line |-> at, body |-> 0]

MCUris == {"m", "c"}

MCTexts == [
    m |-> { <<>>,                                                    \* file removed
            << Class("A", 1), Method("A", "f", 2), ModuleRoot("m") >>,
            \* f renamed to g, just as far away as a rename is looked for
            << Class("A", 1), Method("A", "g", 5), ModuleRoot("m") >>,
            \* both methods, and the two with their places swapped
            << Class("A", 1), Method("A", "f", 2), Method("A", "g", 3), ModuleRoot("m") >>,
            << Class("A", 1), Method("A", "g", 2), Method("A", "f", 3), ModuleRoot("m") >>,
            \* an overload of f
            << Class("A", 1), Method("A", "f", 2), Method("A", "f", 3), ModuleRoot("m") >>,
            \* the class renamed, its method where it was
            << Class("B", 1), Method("B", "f", 2), ModuleRoot("m") >> },
    c |-> { << ModuleRoot("c") >> } ]

\* top-level code calls methods
MCCalls == {<<"module", "method">>}
=============================================================================
