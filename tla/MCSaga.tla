-------------------------------- MODULE MCSaga ---------------------------------
(* Small instances of Saga.                                                *)
EXTENDS Saga

CONSTANTS mod, ext      \* a module's origin and an external key's
CONSTANTS w1, w2        \* workers

IdOwner == [i \in Id |-> IF i = 2 THEN ext ELSE mod]
OriginCap == [o \in Origin |-> IF o = mod THEN 2 ELSE 1]

\* The module asks for work by a deadline under the default lease; the
\* external key for its own worker, with no deadline and no callback.
Asked ==
    [o \in Origin |->
        IF o = mod
        THEN {[reply |-> TRUE, spec |-> 2, max |-> 2, pinned |-> None,
               window |-> None, deadline |-> 2]}
        ELSE {[reply |-> FALSE, spec |-> 1, max |-> 1, pinned |-> w1,
               window |-> 2, deadline |-> None]}]
================================================================================
