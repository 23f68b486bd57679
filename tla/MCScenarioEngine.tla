-------------------------- MODULE MCScenarioEngine --------------------------
(***************************************************************************)
(* Small instances of the scenario engine for TLC.                         *)
(*                                                                         *)
(* Two action lists and two canonical states cover every way they relate:  *)
(* "cut" applies to both states and changes them; "probe" is an            *)
(* observation-only list, applies to "c1" alone and changes nothing.       *)
(***************************************************************************)
EXTENDS ScenarioEngine, TLC

MCCanonicals == {"c1", "c2"}
MCActionLists == {"cut", "probe"}

MCApply ==
    (<<"c1", "cut">> :> "c1 cut") @@ (<<"c2", "cut">> :> "c2 cut")
        @@ (<<"c1", "probe">> :> "c1")

\* On "c2" two mutations of "cut" hit the same record, so a check fails.
MCConfirmed == {<<"c1", "cut">>, <<"c1", "probe">>}

MCOneActionList == {"cut"}
MCCutApply == (<<"c1", "cut">> :> "c1 cut")
MCCutApplied == {<<"c1", "cut">>}

MCOneCanonical == {"c1"}
MCOneApply == (<<"c1", "cut">> :> "c1 cut") @@ (<<"c1", "probe">> :> "c1")

MCSymmetry == Permutations(Requests) \cup Permutations(Sessions)
=============================================================================
