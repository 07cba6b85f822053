--------------------------- MODULE ObjectRetention --------------------------
(***************************************************************************)
(* What retention promises about every immutable object, with the catalog, *)
(* the maintenance operations and the two directory trees left out: an     *)
(* object can be read ("live"), can be recovered ("aside") or is "gone".   *)
(* Only an object nothing protects is set aside, only an object that is    *)
(* aside and still unprotected is destroyed, and whatever a catalog record *)
(* refers to is never destroyed.  Maintenance.tla is shown to implement it.*)
(***************************************************************************)
CONSTANT Objects

VARIABLES
    place,   \* where the bytes of an object are
    rooted,  \* the objects a catalog record refers to
    kept     \* the objects under an operator hold

abstract == <<place, rooted, kept>>

Init == /\ place = [o \in Objects |-> "gone"]
        /\ rooted = {}
        /\ kept = {}

Unprotected(o) == o \notin rooted \union kept

Appear(o) ==
    /\ place[o] # "live"
    /\ place' = [place EXCEPT ![o] = "live"]
    /\ UNCHANGED <<rooted, kept>>

SetAside(o) ==
    /\ place[o] = "live"
    /\ Unprotected(o)
    /\ place' = [place EXCEPT ![o] = "aside"]
    /\ UNCHANGED <<rooted, kept>>

Destroy(o) ==
    /\ place[o] = "aside"
    /\ Unprotected(o)
    /\ place' = [place EXCEPT ![o] = "gone"]
    /\ UNCHANGED <<rooted, kept>>

\* A reference is only ever made to bytes that still exist somewhere.
Refer(o) ==
    /\ place[o] # "gone"
    /\ rooted' = rooted \union {o}
    /\ UNCHANGED <<place, kept>>

\* Holds come and go; what they guard against is Destroy and SetAside.
Hold ==
    /\ kept' \in SUBSET Objects
    /\ UNCHANGED <<place, rooted>>

Next ==
    \/ \E o \in Objects : Appear(o) \/ SetAside(o) \/ Destroy(o) \/ Refer(o)
    \/ Hold

Spec == Init /\ [][Next]_abstract

=============================================================================
