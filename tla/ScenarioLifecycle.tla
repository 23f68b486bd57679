-------------------------- MODULE ScenarioLifecycle --------------------------
(***************************************************************************)
(* What the scenario engine promises a visitor: for each session and lab   *)
(* at most one runtime, which is started, remediated and verified in that  *)
(* order, and which may be discarded at any time.  Discarding covers the   *)
(* visitor's reset, the administrator's reset, archiving a lab, deleting   *)
(* a scenario and the removal of stale rows, so it may take several.       *)
(***************************************************************************)
CONSTANTS Sessions, Labs

VARIABLE stages      \* the set of runtimes: whose, on which lab, how far

Stage == [session: Sessions, lab: Labs,
          status: {"ACTIVE", "REMEDIATED", "VERIFIED"}]

Init == stages = {}

Of(s, l) == {x \in stages : x.session = s /\ x.lab = l}

Start(s, l) ==
    /\ Of(s, l) = {}
    /\ stages' = stages \cup {[session |-> s, lab |-> l, status |-> "ACTIVE"]}

Advance(s, l, from, to) ==
    /\ \E x \in Of(s, l) : x.status = from
    /\ stages' = (stages \ Of(s, l)) \cup {[session |-> s, lab |-> l, status |-> to]}

Remediate(s, l) == Advance(s, l, "ACTIVE", "REMEDIATED")

ConfirmRecovery(s, l) == Advance(s, l, "REMEDIATED", "VERIFIED")

Discard == stages' \in SUBSET stages

Next ==
    \/ \E s \in Sessions, l \in Labs :
          Start(s, l) \/ Remediate(s, l) \/ ConfirmRecovery(s, l)
    \/ Discard

Spec == Init /\ [][Next]_stages
=============================================================================
