------------------------------ MODULE MCServices ------------------------------
(***************************************************************************)
(* Small instances, for TLC, of the services and what they must do in the  *)
(* end: administrator sessions, the limits of the login and the artifact   *)
(* store.  They share no state, so a behaviour takes the steps of the one  *)
(* component its initial state picks.                                      *)
(***************************************************************************)
EXTENDS AdminSessions, LoginLimiter, ManagedArtifacts, TLC

VARIABLE component

servicesVars ==
    <<component, sessionsVars, limiterVars, vars>>

-----------------------------------------------------------------------------
MCPrefixes == {"directory"}
MCPrefix == [d \in Digests |-> "directory"]

-----------------------------------------------------------------------------
ServicesComponents ==
    {"sessions", "limiter", "artifacts"}

ServicesInit ==
    /\ component \in ServicesComponents
    /\ SessionsInit /\ LimiterInit /\ Init

ServicesNext ==
    \/ /\ component = "sessions" /\ SessionsNext
       /\ UNCHANGED <<component, limiterVars, vars>>
    \/ /\ component = "limiter" /\ LimiterNext
       /\ UNCHANGED <<component, sessionsVars, vars>>
    \/ /\ component = "artifacts" /\ Next
       /\ UNCHANGED <<component, sessionsVars, limiterVars>>

\* The components' own fairness, of the component followed.
ServicesSpec ==
    /\ ServicesInit /\ [][ServicesNext]_servicesVars
    /\ \A h \in Handlers : WF_sessionsVars(component = "sessions" /\ HandlerStep(h))
    /\ WF_sessionsVars(component = "sessions" /\ ShutdownStep)
    /\ WF_sessionsVars(component = "sessions" /\ (RotateRevoke \/ RotateDies))
    /\ \A i \in SessionIds : WF_sessionsVars(component = "sessions" /\ SessionAges(i))
    /\ WF_sessionsVars(component = "sessions" /\ CleanSessions)
    /\ \A u \in Uploads : WF_vars(component = "artifacts" /\ UploadStep(u))
    /\ \A r \in Deletions : WF_vars(component = "artifacts" /\ DeletionStep(r))
    /\ WF_vars(component = "artifacts" /\ PruneStep)
    /\ \A d \in Digests : SF_vars(component = "artifacts" /\ Age(d))
=============================================================================
