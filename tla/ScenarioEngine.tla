--------------------------- MODULE ScenarioEngine ---------------------------
(***************************************************************************)
(* The session-scoped scenario engine: the LabScenarioRuntime table, the   *)
(* visitor's run / verify / remediate / reset requests, each split at its  *)
(* awaits, and the administrator's writes that the engine interacts with   *)
(* (canonical edits behind the active-runtime check, resets, publication). *)
(*                                                                         *)
(* An HTTP request is a slot of Requests.  Between two steps of a slot any *)
(* other slot may run: every await of scenario-engine.service.ts is a      *)
(* separate database round trip, and no transaction spans two of them.     *)
(***************************************************************************)
EXTENDS Integers, FiniteSets

CONSTANTS
    Sessions,       \* values of the X-Lab-Session header
    Labs,
    Scenarios,      \* scenario slugs, the same for every lab
    Canonicals,     \* canonical recorded states a lab may hold
    ActionLists,    \* values of LabScenario.actions
    Apply,          \* Apply[<<c, a>>]: the state applyScenarioActions returns;
                    \* a pair outside DOMAIN Apply makes it throw
    Confirmed,      \* the pairs for which every post-mutation check passes
    Requests,       \* slots for concurrent visitor requests
    Editors,        \* slots for concurrent administrator edits
    MaxStarts       \* bound: how many run requests are ever received

ASSUME EngineAssumption ==
    /\ MaxStarts \in Nat
    /\ DOMAIN Apply \subseteq Canonicals \X ActionLists
    /\ Confirmed \subseteq DOMAIN Apply

VARIABLES
    runtimes,       \* the rows of LabScenarioRuntime
    lab,            \* lab[l]: publicly readable?  its canonical state
    scenario,       \* scenario[l][c]: the LabScenario row
    request,        \* request[q]: what the visitor request in slot q has read
    edit,           \* edit[e]: the labs (at most one) editor e may now write
    starts          \* run requests received so far; source of row ids

vars == <<runtimes, lab, scenario, request, edit, starts>>

-----------------------------------------------------------------------------
(***************************************************************************)
(* Rows, requests and their fields.                                        *)
(***************************************************************************)
Statuses == {"ACTIVE", "REMEDIATED", "VERIFIED"}

\* LabScenarioRuntime.verification: absent, or the phase and its outcome.
Verifications == {"none", "state passed", "state failed",
                  "recovery passed", "recovery failed"}

Runtime == [id: 1..MaxStarts, session: Sessions, lab: Labs, scenario: Scenarios,
            actions: ActionLists, status: Statuses, verification: Verifications,
            remediatedAt: BOOLEAN, verifiedAt: BOOLEAN, aged: BOOLEAN]

\* "enabled" stands for isEnabled with non-null actions: both other cases are
\* refused by run with no effect.
ScenarioRow == [state: {"absent", "enabled", "disabled", "deleted"}, actions: ActionLists]

Lab == [public: BOOLEAN, canonical: Canonicals]

Idle == [step |-> "idle"]

PurgedRequest ==
    [op: {"run"}, step: {"purged"},
     session: Sessions, lab: Labs, scenario: Scenarios, id: 1..MaxStarts]

RunRequest ==
    [op: {"run"}, step: {"loaded", "vacant", "validated"},
     session: Sessions, lab: Labs, scenario: Scenarios, id: 1..MaxStarts,
     actions: ActionLists]

RowRequest ==
    [op: {"verify", "remediate", "reset"}, step: {"admitted"},
     session: Sessions, lab: Labs]

FoundRequest ==
    [op: {"verify", "remediate"}, step: {"found"},
     session: Sessions, lab: Labs, row: Runtime]

RecoveryRequest ==
    [op: {"verify"}, step: {"baselined"},
     session: Sessions, lab: Labs, row: Runtime, baseline: Canonicals]
    \cup
    [op: {"verify"}, step: {"reread"},
     session: Sessions, lab: Labs, row: Runtime, baseline: Canonicals, again: Canonicals]

JudgedRequest ==
    [op: {"verify"}, step: {"judged"},
     session: Sessions, lab: Labs, row: Runtime, status: Statuses,
     verification: Verifications]

Request == {Idle} \cup PurgedRequest \cup RunRequest \cup RowRequest
             \cup FoundRequest \cup RecoveryRequest \cup JudgedRequest

Busy(q) == request[q].step # "idle"

\* findUnique on the compound key sessionKey_labId.
RowsOf(s, l) == {r \in runtimes : r.session = s /\ r.lab = l}

ActiveRows(l) == {r \in runtimes : r.lab = l /\ r.status = "ACTIVE"}

\* updatedAt earlier than 24 hours ago.
Expired == {r \in runtimes : r.aged}

\* What ScenarioStateService.apply shows a session of a lab whose canonical
\* state is c: the overlay, the baseline, or the baseline with a warning.
Effective(s, l, c) ==
    {[state |-> IF <<c, r.actions>> \in DOMAIN Apply THEN Apply[<<c, r.actions>>] ELSE c,
      warned |-> <<c, r.actions>> \notin DOMAIN Apply] :
        r \in {x \in RowsOf(s, l) : x.status = "ACTIVE"}}

Baseline(c) == [state |-> c, warned |-> FALSE]

\* The session sees the recorded baseline: no overlay, or one without effect.
ShowsBaseline(s, l, c) == \A e \in Effective(s, l, c) : e = Baseline(c)

-----------------------------------------------------------------------------
Init ==
    /\ runtimes = {}
    /\ lab \in [Labs -> [public: {TRUE}, canonical: Canonicals]]
    /\ scenario \in [Labs -> [Scenarios -> [state: {"absent", "enabled"}, actions: ActionLists]]]
    /\ request = [q \in Requests |-> Idle]
    /\ edit = [e \in Editors |-> {}]
    /\ starts = 0

Become(q, r) == request' = [request EXCEPT ![q] = r]

Answer(q) == Become(q, Idle)

At(q, op, step) == Busy(q) /\ request[q].op = op /\ request[q].step = step

\* The tables a step of a request leaves alone when it only reads.
Tables == <<runtimes, lab, scenario, edit, starts>>

-----------------------------------------------------------------------------
(***************************************************************************)
(* run: purge, load the scenario, look for a runtime, validate the actions *)
(* against the baseline, insert.                                           *)
(***************************************************************************)
RunPurge(q, s, l, c) ==
    /\ ~Busy(q)
    /\ starts < MaxStarts
    /\ starts' = starts + 1
    /\ runtimes' = runtimes \ Expired
    /\ Become(q, [op |-> "run", step |-> "purged", session |-> s, lab |-> l,
                  scenario |-> c, id |-> starts'])
    /\ UNCHANGED <<lab, scenario, edit>>

RunLoad(q) ==
    LET r == request[q]
        row == scenario[r.lab][r.scenario] IN
    /\ At(q, "run", "purged")
    /\ IF lab[r.lab].public /\ row.state = "enabled"
          THEN Become(q, [op |-> "run", step |-> "loaded", session |-> r.session,
                          lab |-> r.lab, scenario |-> r.scenario, id |-> r.id,
                          actions |-> row.actions])
          ELSE Answer(q)
    /\ UNCHANGED Tables

RunFindExisting(q) ==
    LET r == request[q] IN
    /\ At(q, "run", "loaded")
    /\ IF RowsOf(r.session, r.lab) = {}
          THEN Become(q, [r EXCEPT !.step = "vacant"])
          ELSE Answer(q)
    /\ UNCHANGED Tables

RunValidate(q) ==
    LET r == request[q] IN
    /\ At(q, "run", "vacant")
    /\ IF lab[r.lab].public /\ <<lab[r.lab].canonical, r.actions>> \in DOMAIN Apply
          THEN Become(q, [r EXCEPT !.step = "validated"])
          ELSE Answer(q)
    /\ UNCHANGED Tables

NewRuntime(r) ==
    [id |-> r.id, session |-> r.session, lab |-> r.lab, scenario |-> r.scenario,
     actions |-> r.actions, status |-> "ACTIVE", verification |-> "none",
     remediatedAt |-> FALSE, verifiedAt |-> FALSE, aged |-> FALSE]

ScenarioExists(l, c) == scenario[l][c].state \in {"enabled", "disabled"}

\* Mutant: two rows for one session and lab (the unique index is dropped).
RunCreateUnindexed(q) ==
    LET r == request[q] IN
    /\ At(q, "run", "validated")
    /\ runtimes' = IF ScenarioExists(r.lab, r.scenario)
                     THEN runtimes \cup {NewRuntime(r)}
                     ELSE runtimes
    /\ Answer(q)
    /\ UNCHANGED <<lab, scenario, edit, starts>>

\* Mutant: the insert is an upsert.
RunCreateUpsert(q) ==
    LET r == request[q] IN
    /\ At(q, "run", "validated")
    /\ runtimes' = IF ScenarioExists(r.lab, r.scenario)
                     THEN (runtimes \ RowsOf(r.session, r.lab)) \cup {NewRuntime(r)}
                     ELSE runtimes
    /\ Answer(q)
    /\ UNCHANGED <<lab, scenario, edit, starts>>

\* The unique index on (sessionKey, labId) rejects the insert when a row exists
\* by now; the foreign key rejects it when the scenario has been deleted.
RunCreate(q) ==
    LET r == request[q] IN
    /\ At(q, "run", "validated")
    /\ runtimes' = IF /\ RowsOf(r.session, r.lab) = {}
                      /\ ScenarioExists(r.lab, r.scenario)
                     THEN runtimes \cup {NewRuntime(r)}
                     ELSE runtimes
    /\ Answer(q)
    /\ UNCHANGED <<lab, scenario, edit, starts>>

-----------------------------------------------------------------------------
(***************************************************************************)
(* verify, remediate and reset start alike: the lab must be public.        *)
(***************************************************************************)
Admit(q, op, s, l) ==
    /\ ~Busy(q)
    /\ lab[l].public
    /\ Become(q, [op |-> op, step |-> "admitted", session |-> s, lab |-> l])
    /\ UNCHANGED Tables

\* Mutant: remediate accepts a runtime in any status.
FindAnyStatus(q, op) ==
    LET r == request[q]
        usable == RowsOf(r.session, r.lab) IN
    /\ At(q, op, "admitted")
    /\ op \in {"verify", "remediate"}
    /\ \/ /\ usable = {}
          /\ Answer(q)
       \/ \E x \in usable :
             Become(q, [op |-> op, step |-> "found", session |-> r.session,
                        lab |-> r.lab, row |-> x])
    /\ UNCHANGED Tables

\* verify needs a runtime; remediate needs an ACTIVE one.
Find(q, op) ==
    LET r == request[q]
        usable == {x \in RowsOf(r.session, r.lab) : op = "verify" \/ x.status = "ACTIVE"} IN
    /\ At(q, op, "admitted")
    /\ op \in {"verify", "remediate"}
    /\ \/ /\ usable = {}
          /\ Answer(q)
       \/ \E x \in usable :
             Become(q, [op |-> op, step |-> "found", session |-> r.session,
                        lab |-> r.lab, row |-> x])
    /\ UNCHANGED Tables

\* updateState finds the row by session and lab again, whatever row that now
\* is, and overwrites the given columns; @updatedAt is refreshed.
UpdateState(s, l, rows) == runtimes' = (runtimes \ RowsOf(s, l)) \cup rows

\* Mutant: the state verdict survives remediation.
RemediatedKeepingVerdict(x) ==
    [x EXCEPT !.status = "REMEDIATED", !.remediatedAt = TRUE,
              !.verifiedAt = FALSE, !.aged = FALSE]

Remediated(x) ==
    [x EXCEPT !.status = "REMEDIATED", !.verification = "none",
              !.remediatedAt = TRUE, !.verifiedAt = FALSE, !.aged = FALSE]

RemediateWrite(q) ==
    LET r == request[q] IN
    /\ At(q, "remediate", "found")
    /\ UpdateState(r.session, r.lab, {Remediated(x) : x \in RowsOf(r.session, r.lab)})
    /\ Answer(q)
    /\ UNCHANGED <<lab, scenario, edit, starts>>

Judge(q, status, verification) ==
    LET r == request[q] IN
    Become(q, [op |-> "verify", step |-> "judged", session |-> r.session,
               lab |-> r.lab, row |-> r.row, status |-> status,
               verification |-> verification])

\* An ACTIVE runtime is judged on the baseline with its own actions applied;
\* the request fails if they no longer apply.
VerifyBaseline(q) ==
    LET r == request[q]
        pair == <<lab[r.lab].canonical, r.row.actions>> IN
    /\ At(q, "verify", "found")
    /\ \/ /\ \/ ~lab[r.lab].public
             \/ r.row.status = "ACTIVE" /\ pair \notin DOMAIN Apply
          /\ Answer(q)
       \/ /\ lab[r.lab].public
          /\ r.row.status = "ACTIVE"
          /\ pair \in DOMAIN Apply
          /\ Judge(q, "ACTIVE", IF pair \in Confirmed THEN "state passed" ELSE "state failed")
       \/ /\ lab[r.lab].public
          /\ r.row.status # "ACTIVE"
          /\ Become(q, [op |-> "verify", step |-> "baselined", session |-> r.session,
                        lab |-> r.lab, row |-> r.row, baseline |-> lab[r.lab].canonical])
    /\ UNCHANGED Tables

\* The effective state reads the lab a second time ...
VerifyReread(q) ==
    LET r == request[q] IN
    /\ At(q, "verify", "baselined")
    /\ IF lab[r.lab].public
          THEN Become(q, [op |-> "verify", step |-> "reread", session |-> r.session,
                          lab |-> r.lab, row |-> r.row, baseline |-> r.baseline,
                          again |-> lab[r.lab].canonical])
          ELSE Answer(q)
    /\ UNCHANGED Tables

\* Mutant: any recovery check moves the runtime to VERIFIED.
VerifyCompareUnchecked(q) ==
    LET r == request[q]
        passed == /\ r.again = r.baseline
                  /\ ShowsBaseline(r.session, r.lab, r.again) IN
    /\ At(q, "verify", "reread")
    /\ Judge(q, "VERIFIED", IF passed THEN "recovery passed" ELSE "recovery failed")
    /\ UNCHANGED Tables

\* ... and the runtime a second time.  The status to write is the one found
\* first unless recovery passed.
VerifyCompare(q) ==
    LET r == request[q]
        passed == /\ r.again = r.baseline
                  /\ ShowsBaseline(r.session, r.lab, r.again) IN
    /\ At(q, "verify", "reread")
    /\ IF passed
          THEN Judge(q, "VERIFIED", "recovery passed")
          ELSE Judge(q, r.row.status, "recovery failed")
    /\ UNCHANGED Tables

VerifyWrite(q) ==
    LET r == request[q]
        Judged(x) == [x EXCEPT !.status = r.status, !.verification = r.verification,
                               !.verifiedAt = @ \/ r.status = "VERIFIED", !.aged = FALSE] IN
    /\ At(q, "verify", "judged")
    /\ UpdateState(r.session, r.lab, {Judged(x) : x \in RowsOf(r.session, r.lab)})
    /\ Answer(q)
    /\ UNCHANGED <<lab, scenario, edit, starts>>

\* Mutant: reset looks at the lab again and gives up when it is not public.
ResetIfPublic(q) ==
    LET r == request[q] IN
    /\ At(q, "reset", "admitted")
    /\ runtimes' = IF lab[r.lab].public
                     THEN runtimes \ RowsOf(r.session, r.lab)
                     ELSE runtimes
    /\ Answer(q)
    /\ UNCHANGED <<lab, scenario, edit, starts>>


ResetDelete(q) ==
    LET r == request[q] IN
    /\ At(q, "reset", "admitted")
    /\ runtimes' = runtimes \ RowsOf(r.session, r.lab)
    /\ Answer(q)
    /\ UNCHANGED <<lab, scenario, edit, starts>>

-----------------------------------------------------------------------------
(***************************************************************************)
(* Administrator: an edit first counts the lab's ACTIVE runtimes, then     *)
(* writes in a later round trip.                                           *)
(***************************************************************************)
EditCheck(e, l) ==
    /\ edit[e] = {}
    /\ ActiveRows(l) = {}
    /\ edit' = [edit EXCEPT ![e] = {l}]
    /\ UNCHANGED <<runtimes, lab, scenario, request, starts>>

EditDone(e) == edit' = [edit EXCEPT ![e] = {}]

EditCanonical(e, c) ==
    /\ \E l \in edit[e] : lab' = [lab EXCEPT ![l].canonical = c]
    /\ EditDone(e)
    /\ UNCHANGED <<runtimes, scenario, request, starts>>

\* createScenario and updateScenario.  A deleted scenario's slug can be used
\* again, but by another row: another member of Scenarios.
EditScenario(e, c, state, a) ==
    /\ \E l \in edit[e] :
          /\ scenario[l][c].state # "deleted"
          /\ scenario' = [scenario EXCEPT ![l][c] = [state |-> state, actions |-> a]]
    /\ EditDone(e)
    /\ UNCHANGED <<runtimes, lab, request, starts>>

\* The scenario's runtimes go with it (onDelete: Cascade).
DeleteScenario(e, c) ==
    /\ \E l \in edit[e] :
          /\ ScenarioExists(l, c)
          /\ scenario' = [scenario EXCEPT ![l][c].state = "deleted"]
          /\ runtimes' = {r \in runtimes : ~(r.lab = l /\ r.scenario = c)}
    /\ EditDone(e)
    /\ UNCHANGED <<lab, request, starts>>

ResetLabRuntimes(l) ==
    /\ runtimes' = {r \in runtimes : r.lab # l}
    /\ UNCHANGED <<lab, scenario, request, edit, starts>>

\* archiveLab deletes the runtimes in its transaction; archiving, restoring or
\* publishing the project, and marking the lab ready, leave them in place.
ArchiveLab(l) ==
    /\ lab' = [lab EXCEPT ![l].public = FALSE]
    /\ runtimes' = {r \in runtimes : r.lab # l}
    /\ UNCHANGED <<scenario, request, edit, starts>>

SetPublic(l, public) ==
    /\ lab[l].public # public
    /\ lab' = [lab EXCEPT ![l].public = public]
    /\ UNCHANGED <<runtimes, scenario, request, edit, starts>>

\* The compatibility payload of PUT /api/projects/:id replaces the normalized
\* state of the project's lab without looking at its runtimes.
RewriteCanonical(l, c) ==
    /\ lab' = [lab EXCEPT ![l].canonical = c]
    /\ UNCHANGED <<runtimes, scenario, request, edit, starts>>

-----------------------------------------------------------------------------
(***************************************************************************)
(* Time and the scheduled cleanup.                                         *)
(***************************************************************************)
Age ==
    /\ \E r \in runtimes \ Expired :
          runtimes' = (runtimes \ {r}) \cup {[r EXCEPT !.aged = TRUE]}
    /\ UNCHANGED <<lab, scenario, request, edit, starts>>

\* Mutant: the cleanup spares ACTIVE runtimes.
CleanupInactive ==
    /\ \E r \in Expired : r.status # "ACTIVE"
    /\ runtimes' = {r \in runtimes : r.aged => r.status = "ACTIVE"}
    /\ UNCHANGED <<lab, scenario, request, edit, starts>>


Cleanup ==
    /\ Expired # {}
    /\ runtimes' = runtimes \ Expired
    /\ UNCHANGED <<lab, scenario, request, edit, starts>>

-----------------------------------------------------------------------------
Arrive(q) ==
    \E s \in Sessions, l \in Labs :
        \/ \E c \in Scenarios : RunPurge(q, s, l, c)
        \/ \E op \in {"verify", "remediate", "reset"} : Admit(q, op, s, l)

Step(q) ==
    \/ RunLoad(q) \/ RunFindExisting(q) \/ RunValidate(q) \/ RunCreate(q)
    \/ \E op \in {"verify", "remediate"} : Find(q, op)
    \/ RemediateWrite(q)
    \/ VerifyBaseline(q) \/ VerifyReread(q) \/ VerifyCompare(q) \/ VerifyWrite(q)
    \/ ResetDelete(q)

Edit(e) ==
    \/ \E l \in Labs : EditCheck(e, l)
    \/ \E c \in Canonicals : EditCanonical(e, c)
    \/ \E c \in Scenarios, state \in {"enabled", "disabled"}, a \in ActionLists :
          EditScenario(e, c, state, a)
    \/ \E c \in Scenarios : DeleteScenario(e, c)

Administer ==
    \E l \in Labs :
        \/ ResetLabRuntimes(l)
        \/ ArchiveLab(l)
        \/ \E public \in BOOLEAN : SetPublic(l, public)
        \/ \E c \in Canonicals : RewriteCanonical(l, c)

Next ==
    \/ \E q \in Requests : Arrive(q) \/ Step(q)
    \/ \E e \in Editors : Edit(e)
    \/ Administer
    \/ Age
    \/ Cleanup

\* The server runs every request it accepted to its answer, and the cleanup
\* script runs on a schedule.
Fairness == WF_vars(Cleanup) /\ \A q \in Requests : WF_vars(Step(q))

Spec == Init /\ [][Next]_vars

FairSpec == Spec /\ Fairness

(***************************************************************************)
(* One request at a time for each session and lab: what ScenarioControl-   *)
(* Panel does while its tab stays open (its buttons are disabled while     *)
(* busy, and the session key lives in the tab's sessionStorage).           *)
(***************************************************************************)
OneAtATime ==
    \A p, q \in Requests :
        (p # q /\ Busy(p) /\ Busy(q)) =>
            \/ request[p].session # request[q].session
            \/ request[p].lab # request[q].lab

SerialNext == Next /\ OneAtATime'

SerialSpec == Init /\ [][SerialNext]_vars

SerialFairSpec == SerialSpec /\ Fairness

-----------------------------------------------------------------------------
(***************************************************************************)
(* Properties.                                                             *)
(***************************************************************************)

\* Every row, request and lab has the shape the schema and the handlers give it.
TypeOK ==
    /\ runtimes \subseteq Runtime
    /\ lab \in [Labs -> Lab]
    /\ scenario \in [Labs -> [Scenarios -> ScenarioRow]]
    /\ request \in [Requests -> Request]
    /\ edit \in [Editors -> SUBSET Labs]
    /\ starts \in 0..MaxStarts

\* A session has at most one runtime per lab, however its requests overlap:
\* createActive relies on the unique index, not on the earlier lookup.
OneRuntimePerLab ==
    \A r1, r2 \in runtimes :
        (r1.session = r2.session /\ r1.lab = r2.lab) => r1 = r2

\* A concurrent start never overwrites a runtime, and the actions a runtime
\* was started with are the ones it keeps, whatever the administrator does to
\* its scenario meanwhile: a row gives way only to its own deletion.
RuntimeKeepsIdentity ==
    [][\A r \in runtimes, n \in runtimes' :
          (n.session = r.session /\ n.lab = r.lab) =>
              /\ n.id = r.id
              /\ n.scenario = r.scenario
              /\ n.actions = r.actions]_vars

\* The stored verdict and timestamps belong to the stored status: a state
\* verdict only on an ACTIVE runtime, a recovery verdict only after
\* remediation, VERIFIED only with both timestamps.
VerdictFitsStatus ==
    \A r \in runtimes :
        /\ r.status = "ACTIVE" =>
              /\ r.verification \in {"none", "state passed", "state failed"}
              /\ ~r.remediatedAt /\ ~r.verifiedAt
        /\ r.status = "REMEDIATED" =>
              /\ r.verification \in {"none", "recovery failed"}
              /\ r.remediatedAt /\ ~r.verifiedAt
        /\ r.status = "VERIFIED" =>
              /\ r.verification \in {"recovery passed", "recovery failed"}
              /\ r.remediatedAt /\ r.verifiedAt

\* A runtime becomes VERIFIED only from REMEDIATED and with a passing recovery
\* check, although the check spans five awaits in which the administrator may
\* edit, reset, archive and republish the lab.
VerifiedByPassingRecovery ==
    [][\A n \in runtimes' : n.status = "VERIFIED" =>
          \E r \in runtimes :
              /\ r.id = n.id
              /\ \/ r.status = "VERIFIED"
                 \/ r.status = "REMEDIATED" /\ n.verification = "recovery passed"]_vars

\* An admitted reset ends with the session seeing the canonical baseline, even
\* if the lab stops being public in between.
ResetTakesEffect ==
    \A q \in Requests, s \in Sessions, l \in Labs :
        (At(q, "reset", "admitted") /\ request[q].session = s /\ request[q].lab = l)
            ~> (RowsOf(s, l) = {})

\* A runtime nobody touches for 24 hours is eventually deleted, unless some
\* request still in flight refreshes it.
StaleRuntimesCollected ==
    \A i \in 1..MaxStarts :
        (\E r \in Expired : r.id = i) ~> (\A r \in Expired : r.id # i)

\* The stage of each runtime, and the specification its sequence must satisfy.
Stages == {[session |-> r.session, lab |-> r.lab, status |-> r.status] : r \in runtimes}

Lifecycle == INSTANCE ScenarioLifecycle WITH stages <- Stages

\* Every runtime is started, remediated and verified in that order, once each.
LifecycleSpec == Lifecycle!Spec

\* Remediation disables the overlay for good: the runtime's overlay never
\* comes back (docs/SCENARIO_ENGINE_ARCHITECTURE.md:96).
RemediationIsFinal ==
    [][\A r \in runtimes, n \in runtimes' :
          (n.id = r.id /\ r.status # "ACTIVE") => n.status # "ACTIVE"]_vars

\* Canonical state and scenarios do not change under an ACTIVE overlay
\* (docs/ADMIN_ORCHESTRATOR.md:38).
CanonicalFrozenWhileActive ==
    [][\A l \in Labs : ActiveRows(l) # {} =>
          /\ lab'[l].canonical = lab[l].canonical
          /\ scenario'[l] = scenario[l]]_vars
=============================================================================
