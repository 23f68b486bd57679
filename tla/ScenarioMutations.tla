-------------------------- MODULE ScenarioMutations --------------------------
(***************************************************************************)
(* What the whitelisted mutations of a scenario do to a clone of a Lab's   *)
(* recorded state (scenario-mutators.ts), what their verification then     *)
(* finds, and what the health checks of the three operations services      *)
(* report of the result.  A read clones the baseline and applies the       *)
(* runtime's list in order; a mutation that does not fit drops the clone.  *)
(***************************************************************************)
EXTENDS Naturals, Sequences, FiniteSets

CONSTANTS
    Devices, Links, EndsOfLink,  \* EndsOfLink[k]: the devices link k joins
    Neighbors, NeighborEnds,     \* NeighborEnds[n]: the devices adjacency n joins
    Members, Priority,           \* the gateway group's devices and priorities
    Services, Enabled,           \* systemd units; the enabled ones
    Targets, Ports, DefaultPort, \* mount targets, interfaces, the default route's
    PipelineStages,              \* of the pipeline
    Desired,                     \* replicas the workload asks for
    ListBound                    \* BOUND: mutations in one list

ASSUME MutationsAssumption ==
    /\ Members \subseteq Devices /\ IsFiniteSet(Members)
    /\ Priority \in [Members -> Nat]
    /\ \A k \in Links : EndsOfLink[k] \subseteq Devices
    /\ \A n \in Neighbors : NeighborEnds[n] \subseteq Devices
    /\ Enabled \subseteq Services
    /\ DefaultPort \in Ports
    /\ Desired \in Nat
    /\ ListBound \in Nat

VARIABLES
    baseline,   \* the recorded state the Lab's adapter built
    effective,  \* the clone of the read under way
    list,       \* the mutations applied to the clone so far
    warned      \* the overlay did not fit: the read returned the baseline

mutationsVars == <<baseline, effective, list, warned>>

-----------------------------------------------------------------------------
\* The recorded states.
Usable == {"UP", "DOWN"}
NetworkLab ==
    [device: [Devices -> Usable], link: [Links -> Usable],
     neighbor: [Neighbors -> {"FULL", "INIT", "DOWN"}],
     member: [Members -> {"UP", "STANDBY", "DOWN"}],
     role: [Members -> {"ACTIVE", "STANDBY", "LISTEN"}]]
HostLab ==
    [host: {"UP", "DEGRADED"},
     service: [Services -> {"ACTIVE", "INACTIVE", "FAILED"}],
     mount: [Targets -> {"MOUNTED", "UNMOUNTED", "DEGRADED"}],
     volume: [Targets -> {"MOUNTED", "UNMOUNTED", "DEGRADED"}],
     port: [Ports -> Usable],
     denials: SUBSET {"recorded", "injected"}]
DeliveryLab ==
    [stage: [PipelineStages -> {"SUCCESS", "RUNNING", "FAILED"}],
     pipeline: {"SUCCESS", "RUNNING", "FAILED"},
     drift: {"CLEAN", "DRIFTED", "ERROR"},
     ready: 0..Desired, workload: {"READY", "DEGRADED", "FAILED"},
     sync: {"SYNCED", "OUT_OF_SYNC"}, health: {"HEALTHY", "DEGRADED"},
     signal: {"PASS", "WARN", "FAIL"}]

\* `ready` is the count a mutation asks for; other mutations leave it out.
NetworkMutation ==
    [type: {"SET_LINK_STATUS"}, on: Links, to: Usable]
      \cup [type: {"SET_DEVICE_STATUS"}, on: Devices, to: Usable]
      \cup [type: {"SET_OSPF_NEIGHBOR_STATE"}, on: Neighbors,
            to: {"FULL", "INIT", "DOWN"}]
HostMutation ==
    [type: {"SET_SERVICE_STATE"}, on: Services,
     to: {"ACTIVE", "INACTIVE", "FAILED"}]
      \cup [type: {"ADD_RECORDED_AVC_DENIAL"}, on: {"host"}, to: {"injected"}]
      \cup [type: {"SET_MOUNT_STATE"}, on: Targets,
            to: {"MOUNTED", "UNMOUNTED", "DEGRADED"}]
      \cup [type: {"SET_INTERFACE_STATE"}, on: Ports, to: Usable]
DeliveryMutation ==
    [type: {"SET_PIPELINE_STAGE_STATUS"}, on: PipelineStages,
     to: {"SUCCESS", "RUNNING", "FAILED"}]
      \cup [type: {"SET_TERRAFORM_DRIFT_STATUS"}, on: {"terraform"},
            to: {"CLEAN", "DRIFTED", "ERROR"}]
      \cup [type: {"SET_WORKLOAD_READINESS"}, on: {"workload"},
            to: {"READY", "DEGRADED", "FAILED"}, ready: 0..Desired]
      \cup [type: {"SET_GITOPS_SYNC_STATUS"}, on: {"app"},
            to: {"SYNCED", "OUT_OF_SYNC"}]
      \cup [type: {"SET_OBSERVATION_STATUS"}, on: {"signal"},
            to: {"PASS", "WARN", "FAIL"}]

\* Type correctness: the clone, the baseline and the list are of one domain.
MutationsTypeOK ==
    /\ warned \in BOOLEAN
    /\ \/ {baseline, effective} \subseteq NetworkLab /\ list \in Seq(NetworkMutation)
       \/ {baseline, effective} \subseteq HostLab /\ list \in Seq(HostMutation)
       \/ {baseline, effective} \subseteq DeliveryLab /\ list \in Seq(DeliveryMutation)

\* Baselines: the gateway group has one active member at most, a device that
\* is down is down in the group and not active, and a host or a pipeline is
\* recorded without a fault (but for a denial the audit log recorded).
CleanNetwork(l) ==
    /\ l.link = [k \in Links |-> "UP"]
    /\ l.neighbor = [n \in Neighbors |-> "FULL"]
    /\ \E m \in Members : /\ l.role = [x \in Members |-> IF x = m THEN "ACTIVE"
                                                         ELSE "STANDBY"]
                          /\ l.member[m] = "UP"
    /\ \A m \in Members : l.device[m] = "DOWN" <=> l.member[m] = "DOWN"
Baselines ==
    {l \in NetworkLab : CleanNetwork(l)}
      \cup [host: {"UP"}, service: {[u \in Services |-> "ACTIVE"]},
            mount: {[t \in Targets |-> "MOUNTED"]},
            volume: {[t \in Targets |-> "MOUNTED"]},
            port: {[p \in Ports |-> "UP"]}, denials: SUBSET {"recorded"}]
      \cup [stage: {[s \in PipelineStages |-> "SUCCESS"]}, pipeline: {"SUCCESS"},
            drift: {"CLEAN"}, ready: {Desired}, workload: {"READY"},
            sync: {"SYNCED"}, health: {"HEALTHY"}, signal: {"PASS"}]

IsNetwork(l) == "role" \in DOMAIN l
IsHost(l) == "host" \in DOMAIN l
IsDelivery(l) == "pipeline" \in DOMAIN l

MutationsInit ==
    /\ baseline \in Baselines
    /\ effective = baseline
    /\ list = <<>>
    /\ warned = FALSE

-----------------------------------------------------------------------------
\* Networking.
Applied(m) ==
    /\ ~warned
    /\ Len(list) < ListBound
    /\ list' = Append(list, m)
    /\ UNCHANGED <<baseline, warned>>

\* A link that goes down takes the adjacencies between its ends with it.
\* Mutant: adjacencies at either end.
LinkSetEitherEnd(l, k, s) ==
    [l EXCEPT !.link[k] = s,
              !.neighbor = [n \in Neighbors |->
                  IF s = "DOWN" /\ NeighborEnds[n] \cap EndsOfLink[k] # {}
                  THEN "DOWN" ELSE @[n]]]
LinkSet(l, k, s) ==
    [l EXCEPT !.link[k] = s,
              !.neighbor = [n \in Neighbors |->
                  IF s = "DOWN" /\ NeighborEnds[n] \subseteq EndsOfLink[k]
                  THEN "DOWN" ELSE @[n]]]
SetLinkStatus ==
    /\ IsNetwork(effective)
    /\ \E k \in Links, s \in Usable :
          /\ Applied([type |-> "SET_LINK_STATUS", on |-> k, to |-> s])
          /\ effective' = LinkSet(effective, k, s)

SetOspfNeighborState ==
    /\ IsNetwork(effective)
    /\ \E n \in Neighbors, s \in {"FULL", "INIT", "DOWN"} :
          /\ Applied([type |-> "SET_OSPF_NEIGHBOR_STATE", on |-> n, to |-> s])
          /\ effective' = [effective EXCEPT !.neighbor[n] = s]

\* The member that takes over: the standing one of the highest priority.
\* Mutants: a member that is down takes over too; only one that is up does.
AnyHeirs(l, d) ==
    {m \in Members \ {d} : \A o \in Members \ {d} : Priority[o] <= Priority[m]}
UpHeirs(l, d) == {m \in Members \ {d} : l.member[m] = "UP"}
Heirs(l, d) ==
    LET standing == {m \in Members \ {d} : l.member[m] # "DOWN"}
    IN  {m \in standing : \A o \in standing : Priority[o] <= Priority[m]}

RoleAfter(l, d, heirs) ==
    [m \in Members |->
        IF l.role[d] # "ACTIVE" THEN l.role[m]
        ELSE IF m = d THEN "LISTEN"
        ELSE IF m \in heirs THEN "ACTIVE" ELSE l.role[m]]
MemberAfter(l, d, heirs) ==
    [m \in Members |->
        IF m = d THEN "DOWN"
        ELSE IF m \in heirs /\ l.role[d] = "ACTIVE" THEN "UP" ELSE l.member[m]]

\* A device that goes down takes its adjacencies with it and leaves the
\* gateway group to an heir; one that comes back changes nothing but itself.
SetDeviceDown ==
    /\ IsNetwork(effective)
    /\ \E d \in Devices :
          LET dropped == [effective EXCEPT !.device[d] = "DOWN",
                              !.neighbor = [n \in Neighbors |->
                                  IF d \in NeighborEnds[n] THEN "DOWN" ELSE @[n]]]
          IN  /\ Applied([type |-> "SET_DEVICE_STATUS", on |-> d, to |-> "DOWN"])
              /\ \/ d \notin Members /\ effective' = dropped
                 \/ /\ d \in Members
                    /\ \E heirs \in SUBSET Heirs(effective, d) :
                          /\ Cardinality(heirs) = 1 \/ Heirs(effective, d) = {}
                          /\ effective' = [dropped EXCEPT
                                        !.role = RoleAfter(effective, d, heirs),
                                        !.member = MemberAfter(effective, d, heirs)]
SetDeviceUp ==
    /\ IsNetwork(effective)
    /\ \E d \in Devices :
          /\ Applied([type |-> "SET_DEVICE_STATUS", on |-> d, to |-> "UP"])
          /\ effective' = [effective EXCEPT !.device[d] = "UP"]

-----------------------------------------------------------------------------
\* Linux: a fault degrades the host; nothing a mutation does restores it.
\* Mutant: a service's word for it.
DegradedFailed(l, fault) == IF fault THEN "FAILED" ELSE l.host
Degraded(l, fault) == IF fault THEN "DEGRADED" ELSE l.host

SetServiceState ==
    /\ IsHost(effective)
    /\ \E u \in Services, s \in {"ACTIVE", "INACTIVE", "FAILED"} :
          /\ Applied([type |-> "SET_SERVICE_STATE", on |-> u, to |-> s])
          /\ effective' = [effective EXCEPT !.service[u] = s,
                                !.host = Degraded(effective, s = "FAILED")]

AddRecordedAvcDenial ==
    /\ IsHost(effective)
    /\ Applied([type |-> "ADD_RECORDED_AVC_DENIAL", on |-> "host",
                to |-> "injected"])
    /\ effective' = [effective EXCEPT !.denials = @ \cup {"injected"}, !.host = "DEGRADED"]

\* Mutant: the volumes mounted there keep their state.
MountOnly(l, t, s) ==
    [l EXCEPT !.mount[t] = s]
MountSet(l, t, s) ==
    [l EXCEPT !.mount[t] = s, !.volume[t] = s]
SetMountState ==
    /\ IsHost(effective)
    /\ \E t \in Targets, s \in {"MOUNTED", "UNMOUNTED", "DEGRADED"} :
          /\ Applied([type |-> "SET_MOUNT_STATE", on |-> t, to |-> s])
          /\ effective' = [MountSet(effective, t, s) EXCEPT
                        !.host = Degraded(effective, s # "MOUNTED")]

SetInterfaceState ==
    /\ IsHost(effective)
    /\ \E p \in Ports, s \in Usable :
          /\ Applied([type |-> "SET_INTERFACE_STATE", on |-> p, to |-> s])
          /\ effective' = [effective EXCEPT !.port[p] = s,
                                !.host = Degraded(effective, s = "DOWN")]

-----------------------------------------------------------------------------
\* DevOps.  A pipeline that is not wholly successful takes the status of the
\* stage set last, so it can be recorded SUCCESS over a FAILED stage.
PipelineAfter(l, s, stages) ==
    IF s # "FAILED" /\ \A g \in PipelineStages : stages[g] = "SUCCESS" THEN "SUCCESS"
    ELSE s
SetPipelineStageStatus ==
    /\ IsDelivery(effective)
    /\ \E g \in PipelineStages, s \in {"SUCCESS", "RUNNING", "FAILED"} :
          LET stages == [effective.stage EXCEPT ![g] = s]
          IN  /\ Applied([type |-> "SET_PIPELINE_STAGE_STATUS", on |-> g,
                          to |-> s])
              /\ effective' = [effective EXCEPT !.stage = stages,
                                    !.pipeline = PipelineAfter(effective, s, stages)]

SetTerraformDriftStatus ==
    /\ IsDelivery(effective)
    /\ \E s \in {"CLEAN", "DRIFTED", "ERROR"} :
          /\ Applied([type |-> "SET_TERRAFORM_DRIFT_STATUS", on |-> "terraform",
                      to |-> s])
          /\ effective' = [effective EXCEPT !.drift = s]

SetWorkloadReadiness ==
    /\ IsDelivery(effective)
    /\ \E n \in 0..Desired, s \in {"READY", "DEGRADED", "FAILED"} :
          /\ Applied([type |-> "SET_WORKLOAD_READINESS", on |-> "workload",
                      to |-> s, ready |-> n])
          /\ effective' = [effective EXCEPT !.ready = n, !.workload = s]

SetGitopsSyncStatus ==
    /\ IsDelivery(effective)
    /\ \E s \in {"SYNCED", "OUT_OF_SYNC"} :
          /\ Applied([type |-> "SET_GITOPS_SYNC_STATUS", on |-> "app", to |-> s])
          /\ effective' = [effective EXCEPT !.sync = s,
                        !.health = IF s = "OUT_OF_SYNC" THEN "DEGRADED" ELSE @]

SetObservationStatus ==
    /\ IsDelivery(effective)
    /\ \E s \in {"PASS", "WARN", "FAIL"} :
          /\ Applied([type |-> "SET_OBSERVATION_STATUS", on |-> "signal",
                      to |-> s])
          /\ effective' = [effective EXCEPT !.signal = s]

-----------------------------------------------------------------------------
\* A mutation that names what the Lab no longer has, or a value outside its
\* list, throws: the clone is dropped and the read returns the baseline.
Unfit ==
    /\ ~warned
    /\ warned' = TRUE
    /\ effective' = baseline
    /\ list' = <<>>
    /\ UNCHANGED baseline

\* The next read starts over on a new clone.
ReadAgain ==
    /\ warned \/ list # <<>>
    /\ effective' = baseline
    /\ list' = <<>>
    /\ warned' = FALSE
    /\ UNCHANGED baseline

MutationsNext ==
    \/ SetLinkStatus \/ SetOspfNeighborState \/ SetDeviceDown \/ SetDeviceUp
    \/ SetServiceState \/ AddRecordedAvcDenial \/ SetMountState
    \/ SetInterfaceState
    \/ SetPipelineStageStatus \/ SetTerraformDriftStatus
    \/ SetWorkloadReadiness \/ SetGitopsSyncStatus \/ SetObservationStatus
    \/ Unfit \/ ReadAgain

MutationsSpec == MutationsInit /\ [][MutationsNext]_mutationsVars

-----------------------------------------------------------------------------
\* The verification of one mutation against a state.
Verified(l, m) ==
    CASE m.type = "SET_LINK_STATUS" -> l.link[m.on] = m.to
      [] m.type = "SET_DEVICE_STATUS" -> l.device[m.on] = m.to
      [] m.type = "SET_OSPF_NEIGHBOR_STATE" -> l.neighbor[m.on] = m.to
      [] m.type = "SET_SERVICE_STATE" -> l.service[m.on] = m.to
      [] m.type = "ADD_RECORDED_AVC_DENIAL" -> m.to \in l.denials
      [] m.type = "SET_MOUNT_STATE" -> l.mount[m.on] = m.to
      [] m.type = "SET_INTERFACE_STATE" -> l.port[m.on] = m.to
      [] m.type = "SET_PIPELINE_STAGE_STATUS" -> l.stage[m.on] = m.to
      [] m.type = "SET_TERRAFORM_DRIFT_STATUS" -> l.drift = m.to
      [] m.type = "SET_WORKLOAD_READINESS" -> l.ready = m.ready
      [] m.type = "SET_GITOPS_SYNC_STATUS" -> l.sync = m.to
      [] m.type = "SET_OBSERVATION_STATUS" -> l.signal = m.to

-----------------------------------------------------------------------------
\* Health checks: the set of their results, and the overall status.
When(fail, warn) == IF fail THEN "FAIL" ELSE IF warn THEN "WARN" ELSE "PASS"

GatewayCheck(l) ==
    LET active == {m \in Members : l.role[m] = "ACTIVE" /\ l.member[m] # "DOWN"}
        standby == {m \in Members : l.role[m] = "STANDBY" /\ l.member[m] # "DOWN"}
    IN  When(active = {}, standby = {})
NetworkChecks(l) ==
    {When(\E d \in Devices : l.device[d] = "DOWN", FALSE),
     When(\E k \in Links : l.link[k] = "DOWN", FALSE),
     GatewayCheck(l)}
      \cup {When(l.neighbor[n] # "FULL", FALSE) : n \in Neighbors}

\* The denial check looks for the words of an audit line ("avc: denied").  The
\* line a scenario adds says "AVC denial", which it does not match.
SelinuxCheck(l) == When(FALSE, "recorded" \in l.denials)
StorageCheck(l) ==
    LET states == {l.mount[t] : t \in Targets} \cup {l.volume[t] : t \in Targets}
    IN  When("UNMOUNTED" \in states, "DEGRADED" \in states)
PortCheck(l) ==
    LET down == {p \in Ports : l.port[p] = "DOWN"}
    IN  When(DefaultPort \in down \/ down = Ports, down # {})
HostChecks(l) ==
    {When(FALSE, l.host = "DEGRADED"),
     When(\E u \in Services : l.service[u] = "FAILED",
          \E u \in Enabled : l.service[u] = "INACTIVE"),
     StorageCheck(l), SelinuxCheck(l), PortCheck(l),
     When(FALSE, l.denials # {})}

\* Mutant: the pipeline check trusts the pipeline's own status.
PipelineStatusOnly(l) ==
    When(l.pipeline = "FAILED", l.pipeline = "RUNNING")
PipelineCheck(l) ==
    LET states == {l.pipeline} \cup {l.stage[g] : g \in PipelineStages}
    IN  When("FAILED" \in states, "RUNNING" \in states)
DeliveryChecks(l) ==
    {PipelineCheck(l),
     When(l.drift = "ERROR", l.drift = "DRIFTED"),
     When(l.workload = "FAILED", l.ready < Desired),
     When(l.health = "DEGRADED", l.sync = "OUT_OF_SYNC"),
     When(l.signal = "FAIL", l.signal = "WARN")}

Checks(l) == IF IsNetwork(l) THEN NetworkChecks(l)
             ELSE IF IsHost(l) THEN HostChecks(l) ELSE DeliveryChecks(l)
Overall(l) == IF "FAIL" \in Checks(l) THEN "CRITICAL"
              ELSE IF "WARN" \in Checks(l) THEN "DEGRADED" ELSE "HEALTHY"

-----------------------------------------------------------------------------
\* Mutation j of the list undoes what mutation i asked for.
Undoes(j, i) ==
    \/ j.type = i.type /\ j.on = i.on
    \/ /\ i.type = "SET_OSPF_NEIGHBOR_STATE"
       /\ j.type \in {"SET_LINK_STATUS", "SET_DEVICE_STATUS"}
       /\ j.to = "DOWN"
       /\ \/ j.type = "SET_LINK_STATUS" /\ NeighborEnds[i.on] \subseteq EndsOfLink[j.on]
          \/ j.type = "SET_DEVICE_STATUS" /\ j.on \in NeighborEnds[i.on]
Stands(i) == \A j \in (i + 1)..Len(list) : ~Undoes(list[j], list[i])

\* A verification fails of an applied list only at a mutation that a later one
\* of the list undid, by naming the same thing or by a link or device going
\* down under an adjacency (verifyScenarioActions after applyScenarioActions).
VerifiedUnlessUndone ==
    \A i \in DOMAIN list : Stands(i) => Verified(effective, list[i])

Faulty(m) ==
    \/ m.to \in {"DOWN", "INIT", "FAILED", "UNMOUNTED", "DRIFTED", "ERROR",
                 "OUT_OF_SYNC", "WARN", "FAIL", "injected"}
    \/ m.type = "SET_MOUNT_STATE" /\ m.to = "DEGRADED"

\* Every fault of the list that stands is reported: the overall status of the
\* read is CRITICAL or DEGRADED (buildHealthChecks, overallStatus), though a
\* later mutation may have set the pipeline, or the host's services, right.
FaultsShow ==
    \A i \in DOMAIN list :
       Stands(i) /\ Faulty(list[i]) => Overall(effective) # "HEALTHY"

\* At most one member of the gateway group is active, and it is not down:
\* neither in the group nor as a device.
OneActiveGateway ==
    IsNetwork(effective) =>
       \A m \in Members : effective.role[m] = "ACTIVE" =>
          /\ effective.member[m] # "DOWN"
          /\ effective.device[m] # "DOWN"
          /\ \A o \in Members : effective.role[o] = "ACTIVE" => o = m

\* While some member of the group is not down, one is active: whatever the
\* order in which devices fail and come back.
GatewayStands ==
    IsNetwork(effective) /\ (\E m \in Members : effective.member[m] # "DOWN") =>
       \E m \in Members : effective.role[m] = "ACTIVE"

\* A pipeline is recorded FAILED only over a stage that is FAILED, and the
\* volumes of a mount target are in the state of the mount.
NoPhantomFault ==
    /\ IsDelivery(effective) /\ effective.pipeline = "FAILED" =>
          \E g \in PipelineStages : effective.stage[g] = "FAILED"
    /\ IsHost(effective) => effective.volume = effective.mount

\* The group is led by exactly one member that works, while any can.
GatewayLed == OneActiveGateway /\ GatewayStands

\* What is reported fits the list: the verification fails only of what was undone,
\* and the checks report the faults that stand, and no other.
FaultsReported == VerifiedUnlessUndone /\ FaultsShow /\ NoPhantomFault
=============================================================================
