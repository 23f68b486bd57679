--------------------------- MODULE SessionRegister ---------------------------
(***************************************************************************)
(* What administrator sessions promise.  A session is opened once, by one  *)
(* sign-in, ends once and never opens again; its token is given out only   *)
(* when it has been opened; a request acts for a session only if that      *)
(* was open when the request was let through, by the token a client holds; *)
(* and a rotation of the password is complete only with every session that *)
(* is open ended.                                                          *)
(***************************************************************************)
CONSTANTS
    Ids,        \* ids of sessions
    Requests    \* requests in progress

VARIABLES
    phase,      \* phase[i]: whether the session i is yet to open, open or ended
    held,       \* the sessions whose token some client was given
    admitted,   \* the requests let through, each with its session
    rotating    \* whether a rotation has begun and is not complete

vars == <<phase, held, admitted, rotating>>

Opened == {i \in Ids : phase[i] = "open"}

\* What phase is when the sessions S have ended.
Ended(S) == [i \in Ids |-> IF i \in S THEN "ended" ELSE phase[i]]

\* Sessions may be left of an earlier time.
Init ==
    /\ phase \in [Ids -> {"unborn", "open", "ended"}]
    /\ held = {} /\ admitted = {}
    /\ rotating = FALSE

\* A sign-in, which may take the place of a session.
Open(i, S) ==
    /\ phase[i] = "unborn" /\ S \subseteq Opened
    /\ phase' = [Ended(S) EXCEPT ![i] = "open"]
    /\ UNCHANGED <<held, admitted, rotating>>

\* Signed out, expired, or withdrawn with others.
End(S) ==
    /\ S \subseteq Opened
    /\ phase' = Ended(S)
    /\ UNCHANGED <<held, admitted, rotating>>

HandOut(i) ==
    /\ phase[i] # "unborn"
    /\ held' = held \cup {i}
    /\ UNCHANGED <<phase, admitted, rotating>>

Admit(r, i) ==
    /\ i \in held /\ phase[i] = "open"
    /\ \A a \in admitted : a[1] # r
    /\ admitted' = admitted \cup {<<r, i>>}
    /\ UNCHANGED <<phase, held, rotating>>

\* Requests end, by themselves or with the server.
Leave ==
    /\ admitted' \in SUBSET admitted
    /\ UNCHANGED <<phase, held, rotating>>

BeginRotation ==
    /\ rotating' = TRUE
    /\ UNCHANGED <<phase, held, admitted>>

CompleteRotation ==
    /\ rotating /\ rotating' = FALSE
    /\ phase' = Ended(Opened)
    /\ UNCHANGED <<held, admitted>>

Next ==
    \/ \E i \in Ids, S \in SUBSET Ids : Open(i, S)
    \/ \E S \in SUBSET Ids : End(S)
    \/ \E i \in Ids : HandOut(i) \/ \E r \in Requests : Admit(r, i)
    \/ Leave
    \/ BeginRotation \/ CompleteRotation

Spec == Init /\ [][Next]_vars
=============================================================================
