--------------------------- MODULE ArtifactStore ---------------------------
(***************************************************************************)
(* What managed artifacts promise: a row that manages bytes is created     *)
(* when they are stored in full, and they stay until no row points at      *)
(* them.                                                                   *)
(***************************************************************************)
CONSTANTS
    Digests,
    Ids

VARIABLES
    stored,     \* the digests whose bytes are stored in full
    catalog     \* catalog[a]: state and digest of the row a

vars == <<stored, catalog>>

Pointing(d) == {a \in Ids : catalog[a].state = "managed" /\ catalog[a].digest = d}

Init ==
    /\ stored = {}
    /\ \A a \in Ids : catalog[a].state = "unused"

Put(d) ==
    /\ stored' = stored \cup {d}
    /\ UNCHANGED catalog

Discard(d) ==
    /\ Pointing(d) = {}
    /\ stored' = stored \ {d}
    /\ UNCHANGED catalog

\* Only the row a changes, from one of the states "from" to the state "to".
Moves(a, from, to) ==
    /\ catalog[a].state \in from
    /\ catalog'[a].state = to
    /\ \A other \in Ids \ {a} : catalog'[other] = catalog[other]
    /\ UNCHANGED stored

Register(a, d) ==
    /\ d \in stored
    /\ Moves(a, {"unused"}, "managed")
    /\ catalog'[a].digest = d

RegisterReference(a) == Moves(a, {"unused"}, "reference")

Withdraw(a) == Moves(a, {"managed", "reference"}, "deleted")

Next ==
    \/ \E d \in Digests : Put(d) \/ Discard(d)
    \/ \E a \in Ids : \/ \E d \in Digests : Register(a, d)
                      \/ RegisterReference(a)
                      \/ Withdraw(a)

Spec == Init /\ [][Next]_vars
=============================================================================
