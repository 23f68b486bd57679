------------------------------ MODULE MCContent ------------------------------
(***************************************************************************)
(* Small instances of what administrators edit outside the Orchestrator's  *)
(* lifecycle, for TLC: domains, inputs, topology, bundles, slugs and the   *)
(* seed.  They share no state here, so a behaviour takes the steps of the  *)
(* one component its initial state picks.                                  *)
(***************************************************************************)
EXTENDS LabDomains, LabInputs, LabTopology, BundleExchange, ImportSlugs,
        SeedReconciliation, TLC

VARIABLE component

contentVars ==
    <<component, domainsVars, inputVars, topologyVars, exchangeVars, slugVars, seedVars>>

-----------------------------------------------------------------------------
\* Requests that overlap in nodes and in a link, and one that has no link.
MCPayload ==
    "both" :> [nodes |-> {"a", "b"}, links |-> {"ab"}]
        @@ "one" :> [nodes |-> {"b"}, links |-> {}]
        @@ "other" :> [nodes |-> {"a"}, links |-> {}]

MCLinkEnds == "ab" :> {"a", "b"}

\* Links across nodes and from a node to itself.
MCLinkRows == {[key |-> "x", from |-> "a", to |-> "b"], [key |-> "y", from |-> "a", to |-> "a"]}

\* Inputs of every source, with none, one or two of them primary.
MCInputSets == [{"source", "packet"} -> {"none"} \cup Sources]

MCLabContents ==
    {[inputs |-> i, primary |-> p, nodes |-> n, links |-> l, runbook |-> {1},
      scenario |-> s, evidence |-> e] :
        i \in MCInputSets, p \in SUBSET {"source", "packet"}, n \in {{}, {"a", "b"}},
        l \in SUBSET MCLinkRows, s \in Scenarios,
        e \in {{"public"}, {"public of private", "hidden"}}}

MCContents == {c \in MCLabContents : \A k \in c.primary : c.inputs[k] # "none"}

\* "s" and two suffixes of it; another lab of a bundle may itself be called "s1".
MCSuffixed ==
    "s" :> <<"s", "s1", "s2">> @@ "s1" :> <<"s1", "s11">>
        @@ "s2" :> <<"s2">> @@ "s11" :> <<"s11">>

MCBundles == {<<"s">>, <<"s", "s">>, <<"s", "s1">>, <<"s1", "s">>}

MCSymmetry ==
    Permutations(Writers) \cup Permutations(Projects) \cup Permutations(Categories)

-----------------------------------------------------------------------------
Components == {"domains", "inputs", "topology", "exchange", "slugs", "seed"}

\* What the other components could begin with does not matter.
Init ==
    /\ component \in Components
    /\ DomainsInit /\ InputsInit /\ TopologyInit /\ ExchangeInit /\ SlugsInit
    /\ SeedInit
    /\ component = "domains" \/ category = [c \in Categories |-> CHOOSE d \in Domains : TRUE]
    /\ component = "exchange" \/ exported = CHOOSE c \in MCContents : TRUE
    /\ component = "seed" \/ projects["made"] = "absent"

Next ==
    \/ /\ component = "domains" /\ DomainsNext
       /\ UNCHANGED <<component, inputVars, topologyVars, exchangeVars, slugVars, seedVars>>
    \/ /\ component = "inputs" /\ InputsNext
       /\ UNCHANGED <<component, domainsVars, topologyVars, exchangeVars, slugVars, seedVars>>
    \/ /\ component = "topology" /\ TopologyNext
       /\ UNCHANGED <<component, domainsVars, inputVars, exchangeVars, slugVars, seedVars>>
    \/ /\ component = "exchange" /\ ExchangeNext
       /\ UNCHANGED <<component, domainsVars, inputVars, topologyVars, slugVars, seedVars>>
    \/ /\ component = "slugs" /\ SlugsNext
       /\ UNCHANGED <<component, domainsVars, inputVars, topologyVars, exchangeVars, seedVars>>
    \/ /\ component = "seed" /\ SeedNext
       /\ UNCHANGED <<component, domainsVars, inputVars, topologyVars, exchangeVars, slugVars>>

Spec == Init /\ [][Next]_contentVars

\* Type correctness of every component, looked at where it is followed.
ContentTypeOK ==
    /\ component = "domains" => DomainsTypeOK
    /\ component = "inputs" => InputsTypeOK
    /\ component = "topology" => TopologyTypeOK
    /\ component = "exchange" => ExchangeTypeOK
    /\ component = "slugs" => SlugsTypeOK
    /\ component = "seed" => SeedTypeOK
=============================================================================
