-------------------------------- MODULE MCPages --------------------------------
(***************************************************************************)
(* Small instances, for TLC, of the page and the services that answer it:  *)
(* the analysis and the mutation of recorded states, the unified CLI, the  *)
(* administrator's console, the lab workspaces and a tab's sign-in.  They  *)
(* share no state, so a behaviour takes the steps of the one component its *)
(* initial state picks.                                                    *)
(***************************************************************************)
EXTENDS ScenarioMutations, NetworkPaths, UnifiedCli, OrchestratorConsole, LabWorkspace,
        PageSession, TLC

CONSTANTS None, NotAnAddress    \* for NoAddress and Malformed

VARIABLE component

pagesVars ==
    <<component, mutationsVars, pathsVars, cliVars, consoleVars,
      workspaceVars, pageVars>>

-----------------------------------------------------------------------------
\* A triangle with device 4 apart; an address each but for 2, and a malformed
\* one; device 2 is the router.
MCFrom == 1 :> 1 @@ 2 :> 2 @@ 3 :> 1
MCTo == 1 :> 2 @@ 2 :> 3 @@ 3 :> 3
MCAddress == 1 :> 2 @@ 2 :> None @@ 3 :> 2 @@ 4 :> NotAnAddress

RouteTo(n, l, ad, d) == [network |-> n, length |-> l, distance |-> ad, device |-> d]
RuleAt(d, k, dir, s, act) ==
    [device |-> d, link |-> k, direction |-> dir, sequence |-> s, action |-> act,
     matches |-> TRUE]

MCRoutes ==
    {<<>>, <<RouteTo(0, 0, 9, 0), RouteTo(2, 1, 5, 2), RouteTo(2, 1, 1, 0)>>,
     <<RouteTo(3, 2, 1, 0)>>, <<RouteTo(3, 2, 1, 0), RouteTo(0, 0, 1, 0)>>,
     <<RouteTo(2, 2, 7, 0), RouteTo(2, 0, 1, 0)>>}

MCRules ==
    {<<>>,
     <<RuleAt(2, 1, "IN", 20, "deny"), RuleAt(1, 0, "IN", 10, "permit"),
       RuleAt(3, 3, "OUT", 5, "deny")>>,
     <<RuleAt(2, 1, "OUT", 20, "permit"), RuleAt(2, 1, "IN", 30, "deny"),
       RuleAt(0, 1, "IN", 1, "permit")>>}

MCEnds == PathLinks \X PathDevices

\* Every combination of links with some devices and an interface down, and of
\* route tables and rules with all devices up.
MCRecorded ==
    {[up |-> u, links |-> l, ends |-> e, routes |-> <<>>, rules |-> <<>>] :
        u \in {{1, 2, 3, 4}, {1, 3, 4}, {2, 3, 4}}, l \in SUBSET PathLinks,
        e \in {MCEnds, MCEnds \ {<<3, 1>>}}}
    \cup {[up |-> PathDevices, links |-> l, ends |-> MCEnds, routes |-> t, rules |-> a] :
            l \in {{1, 2, 3}, {1, 2}}, t \in MCRoutes, a \in MCRules}

\* A chain of devices, an adjacency on its first link, a gateway group there.
MCEndsOfLink == "k1" :> {"d1", "d2"} @@ "k2" :> {"d2", "d3"}
MCNeighborEnds == "n1" :> {"d1", "d2"}
MCPriority == "d1" :> 110 @@ "d2" :> 100

MCTargetsIn == [l \in CliLabs |-> IF l = "a" THEN {"t"} ELSE {}]
MCCliDomain == [l \in CliLabs |-> "net"]
MCFirst(S) == IF "a" \in S THEN "a" ELSE "b"

MCFirstLab(S) == IF "a" \in S THEN "a" ELSE "b"

-----------------------------------------------------------------------------
PageComponents ==
    {"mutations", "paths", "cli", "console", "workspace", "session"}

\* What has several initial states keeps one of them while another component
\* is followed.
PagesInit ==
    /\ component \in PageComponents
    /\ component = "mutations" \/ baseline = CHOOSE b \in Baselines : TRUE
    /\ component = "paths" \/ recorded = CHOOSE r \in Recorded : TRUE
    /\ component = "console" \/ revision = [p \in ConsoleProjects |-> 0]
    /\ component = "workspace" \/ explorer = "console"
    /\ MutationsInit /\ PathsInit
    /\ component = "session" \/ jar = [auth |-> NoSession, csrf |-> NoToken]
    /\ CliInit /\ ConsoleInit /\ WorkspaceInit /\ PageInit
    /\ component = "console" \/ call[CHOOSE c \in Calls : TRUE].at = "lists"

PagesNext ==
    \/ /\ component = "mutations" /\ MutationsNext
       /\ UNCHANGED <<component, pathsVars, cliVars,
                      consoleVars, workspaceVars, pageVars>>
    \/ /\ component = "paths" /\ PathsNext
       /\ UNCHANGED <<component, mutationsVars, cliVars,
                      consoleVars, workspaceVars, pageVars>>
    \/ /\ component = "cli" /\ CliNext
       /\ UNCHANGED <<component, mutationsVars, pathsVars,
                      consoleVars, workspaceVars, pageVars>>
    \/ /\ component = "console" /\ ConsoleNext
       /\ UNCHANGED <<component, mutationsVars, pathsVars,
                      cliVars, workspaceVars, pageVars>>
    \/ /\ component = "workspace" /\ WorkspaceNext
       /\ UNCHANGED <<component, mutationsVars, pathsVars,
                      cliVars, consoleVars, pageVars>>
    \/ /\ component = "session" /\ PageNext
       /\ UNCHANGED <<component, mutationsVars, pathsVars,
                      cliVars, consoleVars, workspaceVars>>

PagesSpec == PagesInit /\ [][PagesNext]_pagesVars

\* Type correctness of every component, looked at where it is followed.
PagesTypeOK ==
    /\ component = "mutations" => MutationsTypeOK
    /\ component = "paths" => PathsTypeOK
    /\ component = "cli" => CliTypeOK
    /\ component = "console" => ConsoleTypeOK
    /\ component = "workspace" => WorkspaceTypeOK
    /\ component = "session" => PageTypeOK
=============================================================================
