------------------------ MODULE ScenarioEngineProofs ------------------------
(***************************************************************************)
(* Proofs about the scenario engine, for every number of sessions, labs,   *)
(* scenarios, overlapping requests and editors.                            *)
(***************************************************************************)
EXTENDS ScenarioEngine, TLAPS

\* The step and operation of a request determine what it holds.
LEMMA RequestShape ==
    ASSUME NEW r \in Request
    PROVE  /\ r.step = "purged" => r \in PurgedRequest
           /\ r.step \in {"loaded", "vacant", "validated"} => r \in RunRequest
           /\ r.step = "admitted" => r \in RowRequest
           /\ r.step = "found" => r \in FoundRequest
           /\ r.step \in {"baselined", "reread"} => r \in RecoveryRequest
           /\ r.step = "judged" => r \in JudgedRequest
           /\ r.step \in {"idle", "purged", "loaded", "vacant", "validated", "admitted",
                          "found", "baselined", "reread", "judged"}
<1>1. CASE r = Idle
  BY <1>1 DEF Idle
<1>2. CASE r \in PurgedRequest
  BY <1>2 DEF PurgedRequest
<1>3. CASE r \in RunRequest
  BY <1>3 DEF RunRequest
<1>4. CASE r \in RowRequest
  BY <1>4 DEF RowRequest
<1>5. CASE r \in FoundRequest
  BY <1>5 DEF FoundRequest
<1>6. CASE r \in RecoveryRequest
  BY <1>6 DEF RecoveryRequest
<1>7. CASE r \in JudgedRequest
  BY <1>7 DEF JudgedRequest
<1> QED
  BY <1>1, <1>2, <1>3, <1>4, <1>5, <1>6, <1>7 DEF Request

\* A slot may take any well-formed request.
LEMMA BecomeTyped ==
    ASSUME NEW q \in Requests, NEW r \in Request, TypeOK, Become(q, r)
    PROVE  request' \in [Requests -> Request]
  BY DEF Become, TypeOK

LEMMA IdleTyped == Idle \in Request
  BY DEF Request

\* Type correctness: whatever requests and edits overlap, the table only holds
\* rows the schema allows, and every request holds what its step has read.
THEOREM TypeCorrect == Spec => []TypeOK
<1>1. Init => TypeOK
  <2> SUFFICES ASSUME Init PROVE TypeOK
    OBVIOUS
  <2>1. runtimes \subseteq Runtime /\ starts \in 0..MaxStarts
    BY EngineAssumption DEF Init
  <2>2. lab \in [Labs -> Lab]
    BY DEF Init, Lab
  <2>3. scenario \in [Labs -> [Scenarios -> ScenarioRow]]
    <3>1. [state: {"absent", "enabled"}, actions: ActionLists] \subseteq ScenarioRow
      BY DEF ScenarioRow
    <3> QED
      BY <3>1, Zenon DEF Init
  <2>4. request \in [Requests -> Request]
    BY IdleTyped DEF Init
  <2>5. edit \in [Editors -> SUBSET Labs]
    BY DEF Init
  <2> QED
    BY <2>1, <2>2, <2>3, <2>4, <2>5 DEF TypeOK
<1>2. TypeOK /\ [Next]_vars => TypeOK'
  <2> SUFFICES ASSUME TypeOK, [Next]_vars PROVE TypeOK'
    OBVIOUS
  <2> USE EngineAssumption DEF TypeOK
  <2>1. ASSUME NEW q \in Requests, NEW s \in Sessions, NEW l \in Labs, NEW c \in Scenarios,
               RunPurge(q, s, l, c)
        PROVE TypeOK'
    <3>1. [op |-> "run", step |-> "purged", session |-> s, lab |-> l,
           scenario |-> c, id |-> starts'] \in Request
      BY <2>1 DEF RunPurge, Request, PurgedRequest
    <3> QED
      BY <2>1, <3>1, BecomeTyped DEF RunPurge
  <2>2. ASSUME NEW q \in Requests, NEW s \in Sessions, NEW l \in Labs,
               NEW op \in {"verify", "remediate", "reset"}, Admit(q, op, s, l)
        PROVE TypeOK'
    <3>1. [op |-> op, step |-> "admitted", session |-> s, lab |-> l] \in Request
      BY DEF Request, RowRequest
    <3> QED
      BY <2>2, <3>1, BecomeTyped DEF Admit, Tables
  <2>3. ASSUME NEW q \in Requests, RunLoad(q) PROVE TypeOK'
    <3>1. request[q] \in PurgedRequest
      BY <2>3, RequestShape DEF RunLoad, At
    <3> DEFINE r == request[q]
               n == [op |-> "run", step |-> "loaded", session |-> r.session,
                     lab |-> r.lab, scenario |-> r.scenario, id |-> r.id,
                     actions |-> scenario[r.lab][r.scenario].actions]
    <3>2. n \in Request
      <4>1. scenario[r.lab][r.scenario] \in ScenarioRow
        BY <3>1 DEF PurgedRequest
      <4>2. n \in RunRequest
        BY <3>1, <4>1 DEF PurgedRequest, RunRequest, ScenarioRow
      <4> QED
        BY <4>2 DEF Request
    <3>3. Become(q, n) \/ Become(q, Idle)
      BY <2>3 DEF RunLoad, Answer
    <3>4. request' \in [Requests -> Request]
      BY <3>2, <3>3, IdleTyped, BecomeTyped
    <3> QED
      BY <2>3, <3>4 DEF RunLoad, Tables
  <2>4. ASSUME NEW q \in Requests, RunFindExisting(q) PROVE TypeOK'
    <3>1. request[q] \in RunRequest
      BY <2>4, RequestShape DEF RunFindExisting, At
    <3>2. [request[q] EXCEPT !.step = "vacant"] \in Request
      BY <3>1 DEF RunRequest, Request
    <3> QED
      BY <2>4, <3>2, BecomeTyped, IdleTyped DEF RunFindExisting, Tables, Answer
  <2>5. ASSUME NEW q \in Requests, RunValidate(q) PROVE TypeOK'
    <3>1. request[q] \in RunRequest
      BY <2>5, RequestShape DEF RunValidate, At
    <3>2. [request[q] EXCEPT !.step = "validated"] \in Request
      BY <3>1 DEF RunRequest, Request
    <3> QED
      BY <2>5, <3>2, BecomeTyped, IdleTyped DEF RunValidate, Tables, Answer
  <2>6. ASSUME NEW q \in Requests, RunCreate(q) PROVE TypeOK'
    <3>1. request[q] \in RunRequest
      BY <2>6, RequestShape DEF RunCreate, At
    <3>2. NewRuntime(request[q]) \in Runtime
      BY <3>1 DEF RunRequest, NewRuntime, Runtime, Statuses, Verifications
    <3> QED
      BY <2>6, <3>2, BecomeTyped, IdleTyped DEF RunCreate, Answer
  <2>7. ASSUME NEW q \in Requests, NEW op \in {"verify", "remediate"}, Find(q, op) PROVE TypeOK'
    <3>1. request[q] \in RowRequest
      BY <2>7, RequestShape DEF Find, At
    <3>2. ASSUME NEW x \in runtimes
          PROVE  [op |-> op, step |-> "found", session |-> request[q].session,
                  lab |-> request[q].lab, row |-> x] \in Request
      BY <3>1 DEF RowRequest, FoundRequest, Request
    <3>3. Become(q, Idle) \/ \E x \in runtimes :
             Become(q, [op |-> op, step |-> "found", session |-> request[q].session,
                  lab |-> request[q].lab, row |-> x])
      BY <2>7 DEF Find, RowsOf, Answer
    <3>4. request' \in [Requests -> Request]
      BY <3>2, <3>3, IdleTyped, BecomeTyped
    <3> QED
      BY <2>7, <3>4 DEF Find, Tables
  <2>8. ASSUME NEW q \in Requests, RemediateWrite(q) PROVE TypeOK'
    <3>1. ASSUME NEW x \in runtimes PROVE Remediated(x) \in Runtime
      BY DEF Remediated, Runtime, Statuses, Verifications
    <3>2. runtimes' \subseteq Runtime
      BY <2>8, <3>1 DEF RemediateWrite, UpdateState, RowsOf
    <3> QED
      BY <2>8, <3>2, BecomeTyped, IdleTyped DEF RemediateWrite, Answer
  <2>9. ASSUME NEW q \in Requests, VerifyBaseline(q) PROVE TypeOK'
    <3>1. request[q] \in FoundRequest
      BY <2>9, RequestShape DEF VerifyBaseline, At
    <3> DEFINE r == request[q]
    <3>2. ASSUME NEW status \in Statuses, NEW v \in Verifications, Judge(q, status, v)
          PROVE  request' \in [Requests -> Request]
      <4>1. [op |-> "verify", step |-> "judged", session |-> r.session, lab |-> r.lab,
             row |-> r.row, status |-> status, verification |-> v] \in Request
        BY <3>1 DEF FoundRequest, JudgedRequest, Request
      <4> QED
        BY <3>2, <4>1, BecomeTyped DEF Judge
    <3>3. [op |-> "verify", step |-> "baselined", session |-> r.session, lab |-> r.lab,
           row |-> r.row, baseline |-> lab[r.lab].canonical] \in Request
      <4>1. lab[r.lab].canonical \in Canonicals
        BY <3>1 DEF FoundRequest, Lab
      <4> QED
        BY <3>1, <4>1 DEF FoundRequest, RecoveryRequest, Request
    <3>4. request' \in [Requests -> Request]
      BY <2>9, <3>2, <3>3, BecomeTyped, IdleTyped
         DEF VerifyBaseline, Answer, Statuses, Verifications
    <3> QED
      BY <2>9, <3>4 DEF VerifyBaseline, Tables
  <2>10. ASSUME NEW q \in Requests, VerifyReread(q) PROVE TypeOK'
    <3> DEFINE r == request[q]
    <3>1. r \in RecoveryRequest /\ r.step = "baselined"
      BY <2>10, RequestShape DEF VerifyReread, At
    <3>2. lab[r.lab].canonical \in Canonicals
      BY <3>1 DEF RecoveryRequest, Lab
    <3>3. [op |-> "verify", step |-> "reread", session |-> r.session, lab |-> r.lab,
           row |-> r.row, baseline |-> r.baseline, again |-> lab[r.lab].canonical] \in Request
      BY <3>1, <3>2 DEF RecoveryRequest, Request
    <3> QED
      BY <2>10, <3>3, BecomeTyped, IdleTyped DEF VerifyReread, Tables, Answer
  <2>11. ASSUME NEW q \in Requests, VerifyCompare(q) PROVE TypeOK'
    <3> DEFINE r == request[q]
    <3>1. r \in RecoveryRequest
      BY <2>11, RequestShape DEF VerifyCompare, At
    <3>2. r.row.status \in Statuses
      BY <3>1 DEF RecoveryRequest, Runtime
    <3>3. ASSUME NEW status \in Statuses, NEW v \in Verifications, Judge(q, status, v)
          PROVE  request' \in [Requests -> Request]
      <4>1. [op |-> "verify", step |-> "judged", session |-> r.session, lab |-> r.lab,
             row |-> r.row, status |-> status, verification |-> v] \in Request
        BY <3>1 DEF RecoveryRequest, JudgedRequest, Request
      <4> QED
        BY <3>3, <4>1, BecomeTyped DEF Judge
    <3>4. request' \in [Requests -> Request]
      BY <2>11, <3>2, <3>3 DEF VerifyCompare, Statuses, Verifications
    <3> QED
      BY <2>11, <3>4 DEF VerifyCompare, Tables
  <2>12. ASSUME NEW q \in Requests, VerifyWrite(q) PROVE TypeOK'
    <3>1. request[q] \in JudgedRequest
      BY <2>12, RequestShape DEF VerifyWrite, At
    <3>2. ASSUME NEW x \in runtimes
          PROVE  [x EXCEPT !.status = request[q].status, !.verification = request[q].verification,
                    !.verifiedAt = @ \/ request[q].status = "VERIFIED", !.aged = FALSE] \in Runtime
      BY <3>1 DEF JudgedRequest, Runtime
    <3>3. runtimes' \subseteq Runtime
      BY <2>12, <3>2 DEF VerifyWrite, UpdateState, RowsOf
    <3> QED
      BY <2>12, <3>3, BecomeTyped, IdleTyped DEF VerifyWrite, Answer
  <2>13. ASSUME NEW q \in Requests, ResetDelete(q) PROVE TypeOK'
    BY <2>13, BecomeTyped, IdleTyped DEF ResetDelete, Answer
  <2>14. ASSUME NEW e \in Editors, Edit(e) PROVE TypeOK'
    <3>1. ASSUME NEW l \in Labs, EditCheck(e, l) PROVE TypeOK'
      BY <3>1 DEF EditCheck
    <3>2. ASSUME NEW c \in Canonicals, EditCanonical(e, c) PROVE TypeOK'
      BY <3>2 DEF EditCanonical, EditDone, Lab
    <3>3. ASSUME NEW c \in Scenarios, NEW state \in {"enabled", "disabled"},
                 NEW a \in ActionLists, EditScenario(e, c, state, a)
          PROVE TypeOK'
      <4>1. [state |-> state, actions |-> a] \in ScenarioRow
        BY DEF ScenarioRow
      <4> QED
        BY <3>3, <4>1 DEF EditScenario, EditDone
    <3>4. ASSUME NEW c \in Scenarios, DeleteScenario(e, c) PROVE TypeOK'
      <4>1. PICK l \in edit[e] :
               scenario' = [scenario EXCEPT ![l][c].state = "deleted"]
        BY <3>4 DEF DeleteScenario
      <4>2. [scenario[l][c] EXCEPT !.state = "deleted"] \in ScenarioRow
        <5>1. l \in Labs
          BY <4>1
        <5>2. scenario[l][c] \in ScenarioRow
          BY <5>1
        <5> QED
          BY <5>2 DEF ScenarioRow
      <4>3. [scenario[l] EXCEPT ![c] = [scenario[l][c] EXCEPT !.state = "deleted"]]
              \in [Scenarios -> ScenarioRow]
        BY <4>1, <4>2
      <4>4. scenario' = [scenario EXCEPT ![l] =
                [scenario[l] EXCEPT ![c] = [scenario[l][c] EXCEPT !.state = "deleted"]]]
        BY <4>1
      <4>5. scenario' \in [Labs -> [Scenarios -> ScenarioRow]]
        BY <4>1, <4>3, <4>4
      <4> QED
        BY <3>4, <4>5 DEF DeleteScenario, EditDone
    <3> QED
      BY <2>14, <3>1, <3>2, <3>3, <3>4 DEF Edit
  <2>15. CASE Administer
    <3>1. ASSUME NEW l \in Labs, NEW public \in BOOLEAN,
                 lab' = [lab EXCEPT ![l].public = public]
          PROVE lab' \in [Labs -> Lab]
      BY <3>1 DEF Lab
    <3>2. ASSUME NEW l \in Labs, ResetLabRuntimes(l) PROVE TypeOK'
      BY <3>2 DEF ResetLabRuntimes
    <3>3. ASSUME NEW l \in Labs, ArchiveLab(l) PROVE TypeOK'
      BY <3>3, <3>1 DEF ArchiveLab
    <3>4. ASSUME NEW l \in Labs, NEW public \in BOOLEAN, SetPublic(l, public) PROVE TypeOK'
      BY <3>4, <3>1 DEF SetPublic
    <3>5. ASSUME NEW l \in Labs, NEW c \in Canonicals, RewriteCanonical(l, c) PROVE TypeOK'
      BY <3>5 DEF RewriteCanonical, Lab
    <3> QED
      BY <2>15, <3>2, <3>3, <3>4, <3>5 DEF Administer
  <2>16. CASE Age
    BY <2>16 DEF Age, Runtime, Expired
  <2>17. CASE Cleanup
    BY <2>17 DEF Cleanup, Expired
  <2>18. CASE UNCHANGED vars
    BY <2>18 DEF vars
  <2> QED
    BY <2>1, <2>2, <2>3, <2>4, <2>5, <2>6, <2>7, <2>8, <2>9, <2>10, <2>11, <2>12, <2>13,
       <2>14, <2>15, <2>16, <2>17, <2>18 DEF Next, Arrive, Step
<1> QED
  BY <1>1, <1>2, PTL DEF Spec

-----------------------------------------------------------------------------
(***************************************************************************)
(* How the table changes.  Every step either inserts the row of a          *)
(* validated run where no row is, or rewrites rows one by one without      *)
(* touching what identifies them, and possibly deletes some.               *)
(***************************************************************************)
SameRuntime(r, n) ==
    /\ n.id = r.id /\ n.session = r.session /\ n.lab = r.lab
    /\ n.scenario = r.scenario /\ n.actions = r.actions

Insertion(q) ==
    /\ At(q, "run", "validated")
    /\ RowsOf(request[q].session, request[q].lab) = {}
    /\ runtimes' = runtimes \cup {NewRuntime(request[q])}

Rewriting ==
    \E G \in [runtimes -> Runtime] :
        /\ \A r \in runtimes : SameRuntime(r, G[r])
        /\ runtimes' \subseteq {G[r] : r \in runtimes}

\* The inserted row is the only one of its session and lab.
LEMMA InsertionIsFresh ==
    ASSUME NEW q, Insertion(q)
    PROVE  \E new : /\ runtimes' = runtimes \cup {new}
                    /\ \A x \in runtimes : ~(x.session = new.session /\ x.lab = new.lab)
<1>1. /\ NewRuntime(request[q]).session = request[q].session
      /\ NewRuntime(request[q]).lab = request[q].lab
  BY DEF NewRuntime
<1>2. \A x \in runtimes : ~(x.session = request[q].session /\ x.lab = request[q].lab)
  BY DEF Insertion, RowsOf
<1> QED
  BY <1>1, <1>2 DEF Insertion

\* Keeping or deleting rows is a rewriting.
LEMMA DeletionIsRewriting ==
    ASSUME TypeOK, runtimes' \subseteq runtimes
    PROVE  Rewriting
<1> DEFINE G == [r \in runtimes |-> r]
<1>1. G \in [runtimes -> Runtime]
  BY DEF TypeOK
<1>2. \A r \in runtimes : SameRuntime(r, G[r])
  BY DEF SameRuntime
<1>3. runtimes' \subseteq {G[r] : r \in runtimes}
  BY DEF TypeOK
<1> QED
  BY <1>1, <1>2, <1>3 DEF Rewriting

LEMMA RowStep ==
    ASSUME TypeOK, [Next]_vars
    PROVE  Rewriting \/ \E q \in Requests : Insertion(q)
<1>1. ASSUME NEW q \in Requests, RemediateWrite(q) PROVE Rewriting
  <2> DEFINE X == RowsOf(request[q].session, request[q].lab)
             G == [x \in runtimes |-> IF x \in X THEN Remediated(x) ELSE x]
  <2>1. G \in [runtimes -> Runtime]
    <3>1. \A x \in runtimes : Remediated(x) \in Runtime
      BY DEF TypeOK, Remediated, Runtime, Statuses, Verifications
    <3> QED
      BY <3>1 DEF TypeOK
  <2>2. \A x \in runtimes : SameRuntime(x, G[x])
    BY DEF SameRuntime, Remediated, TypeOK, Runtime
  <2>3. runtimes' = (runtimes \ X) \cup {Remediated(x) : x \in X}
    BY <1>1 DEF RemediateWrite, UpdateState
  <2>4. runtimes' \subseteq {G[r] : r \in runtimes}
    BY <2>3 DEF RowsOf
  <2> QED
    BY <2>1, <2>2, <2>4 DEF Rewriting
<1>2. ASSUME NEW q \in Requests, VerifyWrite(q) PROVE Rewriting
  <2> DEFINE r == request[q]
             X == RowsOf(r.session, r.lab)
             J(x) == [x EXCEPT !.status = r.status, !.verification = r.verification,
                               !.verifiedAt = @ \/ r.status = "VERIFIED", !.aged = FALSE]
             G == [x \in runtimes |-> IF x \in X THEN J(x) ELSE x]
  <2>1. r \in JudgedRequest
    BY <1>2, RequestShape DEF VerifyWrite, At, TypeOK
  <2>2. \A x \in runtimes : J(x) \in Runtime /\ SameRuntime(x, J(x))
    BY <2>1 DEF TypeOK, JudgedRequest, Runtime, SameRuntime
  <2>3. G \in [runtimes -> Runtime]
    BY <2>2 DEF TypeOK
  <2>4. \A x \in runtimes : SameRuntime(x, G[x])
    BY <2>2 DEF SameRuntime
  <2>5. runtimes' = (runtimes \ X) \cup {J(x) : x \in X}
    BY <1>2 DEF VerifyWrite, UpdateState
  <2>6. runtimes' \subseteq {G[x] : x \in runtimes}
    BY <2>5 DEF RowsOf
  <2> QED
    BY <2>3, <2>4, <2>6 DEF Rewriting
<1>3. ASSUME Age PROVE Rewriting
  <2>1. PICK r \in runtimes : runtimes' = (runtimes \ {r}) \cup {[r EXCEPT !.aged = TRUE]}
    BY <1>3 DEF Age
  <2> DEFINE G == [x \in runtimes |-> IF x = r THEN [r EXCEPT !.aged = TRUE] ELSE x]
  <2>2. G \in [runtimes -> Runtime]
    <3>1. [r EXCEPT !.aged = TRUE] \in Runtime
      BY DEF TypeOK, Runtime
    <3> QED
      BY <3>1 DEF TypeOK
  <2>3. \A x \in runtimes : SameRuntime(x, G[x])
    BY DEF SameRuntime, TypeOK, Runtime
  <2>4. runtimes' \subseteq {G[x] : x \in runtimes}
    BY <2>1
  <2> QED
    BY <2>2, <2>3, <2>4 DEF Rewriting
<1>4. ASSUME NEW q \in Requests, RunCreate(q) PROVE Rewriting \/ Insertion(q)
  BY <1>4, DeletionIsRewriting DEF RunCreate, Insertion
<1>5. ASSUME NEW q \in Requests, Arrive(q) PROVE Rewriting
  BY <1>5, DeletionIsRewriting DEF Arrive, RunPurge, Admit, Tables
<1>6. ASSUME NEW q \in Requests, Step(q) PROVE Rewriting \/ Insertion(q)
  <2>1. CASE RunLoad(q) \/ RunFindExisting(q) \/ RunValidate(q)
    BY <2>1, DeletionIsRewriting DEF RunLoad, RunFindExisting, RunValidate, Tables
  <2>2. CASE \E op \in {"verify", "remediate"} : Find(q, op)
    BY <2>2, DeletionIsRewriting DEF Find, Tables
  <2>3. CASE VerifyBaseline(q) \/ VerifyReread(q) \/ VerifyCompare(q)
    BY <2>3, DeletionIsRewriting DEF VerifyBaseline, VerifyReread, VerifyCompare, Tables
  <2>4. CASE ResetDelete(q)
    BY <2>4, DeletionIsRewriting DEF ResetDelete
  <2> QED
    BY <1>1, <1>2, <1>4, <1>6, <2>1, <2>2, <2>3, <2>4 DEF Step
<1>7. ASSUME NEW e \in Editors, Edit(e) PROVE Rewriting
  BY <1>7, DeletionIsRewriting DEF Edit, EditCheck, EditCanonical, EditScenario, DeleteScenario
<1>8. ASSUME Administer PROVE Rewriting
  BY <1>8, DeletionIsRewriting DEF Administer, ResetLabRuntimes, ArchiveLab, SetPublic,
     RewriteCanonical
<1>9. ASSUME Cleanup \/ UNCHANGED vars PROVE Rewriting
  BY <1>9, DeletionIsRewriting DEF Cleanup, vars
<1> QED
  BY <1>3, <1>5, <1>6, <1>7, <1>8, <1>9 DEF Next

\* However its requests overlap, a session never holds two runtimes of a lab.
THEOREM OneRuntime == Spec => []OneRuntimePerLab
<1>1. Init => OneRuntimePerLab
  BY DEF Init, OneRuntimePerLab
<1>2. TypeOK /\ OneRuntimePerLab /\ [Next]_vars => OneRuntimePerLab'
  <2> SUFFICES ASSUME TypeOK, OneRuntimePerLab, [Next]_vars,
                      NEW n1 \in runtimes', NEW n2 \in runtimes',
                      n1.session = n2.session, n1.lab = n2.lab
               PROVE  n1 = n2
    BY DEF OneRuntimePerLab
  <2>1. CASE Rewriting
    <3>1. PICK G \in [runtimes -> Runtime] :
             /\ \A r \in runtimes : SameRuntime(r, G[r])
             /\ runtimes' \subseteq {G[r] : r \in runtimes}
      BY <2>1 DEF Rewriting
    <3>2. PICK r1 \in runtimes : n1 = G[r1]
      BY <3>1
    <3>3. PICK r2 \in runtimes : n2 = G[r2]
      BY <3>1
    <3>4. r1.session = r2.session /\ r1.lab = r2.lab
      BY <3>1, <3>2, <3>3 DEF SameRuntime
    <3> QED
      BY <3>2, <3>3, <3>4 DEF OneRuntimePerLab
  <2>2. ASSUME NEW q \in Requests, Insertion(q) PROVE n1 = n2
    BY <2>2, InsertionIsFresh DEF OneRuntimePerLab
  <2> QED
    BY <2>1, <2>2, RowStep
<1> QED
  BY <1>1, <1>2, TypeCorrect, PTL DEF Spec

\* A start never replaces a runtime, and a runtime keeps the actions it was
\* started with.
THEOREM RuntimeIdentity == Spec => RuntimeKeepsIdentity
<1>1. TypeOK /\ OneRuntimePerLab /\ [Next]_vars =>
        [\A r \in runtimes, n \in runtimes' :
            (n.session = r.session /\ n.lab = r.lab) =>
              /\ n.id = r.id
              /\ n.scenario = r.scenario
              /\ n.actions = r.actions]_vars
  <2> SUFFICES ASSUME TypeOK, OneRuntimePerLab, [Next]_vars,
                      NEW r \in runtimes, NEW n \in runtimes',
                      n.session = r.session, n.lab = r.lab
               PROVE  SameRuntime(r, n)
    BY DEF SameRuntime
  <2>1. CASE Rewriting
    <3>1. PICK G \in [runtimes -> Runtime] :
             /\ \A x \in runtimes : SameRuntime(x, G[x])
             /\ runtimes' \subseteq {G[x] : x \in runtimes}
      BY <2>1 DEF Rewriting
    <3>2. PICK x \in runtimes : n = G[x]
      BY <3>1
    <3>3. x = r
      BY <3>1, <3>2 DEF SameRuntime, OneRuntimePerLab
    <3> QED
      BY <3>1, <3>2, <3>3
  <2>2. ASSUME NEW q \in Requests, Insertion(q) PROVE SameRuntime(r, n)
    BY <2>2, InsertionIsFresh DEF OneRuntimePerLab, SameRuntime
  <2> QED
    BY <2>1, <2>2, RowStep
<1> QED
  BY <1>1, TypeCorrect, OneRuntime, PTL DEF Spec, RuntimeKeepsIdentity
-----------------------------------------------------------------------------
(***************************************************************************)
(* What the ends of requests, resets and stale rows rest on beside the     *)
(* fairness: nothing that happens in between takes any of them back.       *)
(***************************************************************************)
\* How many steps a request has left, at most.
StepsLeft(step) ==
    IF step = "admitted" THEN 5
    ELSE IF step \in {"purged", "found"} THEN 4
    ELSE IF step \in {"loaded", "baselined"} THEN 3
    ELSE IF step \in {"vacant", "reread"} THEN 2
    ELSE IF step \in {"validated", "judged"} THEN 1
    ELSE 0

RequestsAdvance ==
    \A q \in Requests :
        Busy(q) /\ request'[q] # request[q] =>
            StepsLeft(request'[q].step) < StepsLeft(request[q].step)

\* An admitted reset ends only with no runtime of its session and lab left.
ResetsStand ==
    \A q \in Requests :
        At(q, "reset", "admitted") /\ request'[q] # request[q] =>
            \A n \in runtimes' :
                ~(n.session = request[q].session /\ n.lab = request[q].lab)

\* A row expired is renewed only by a request of its session and lab that
\* was in flight, and that ends with it.
ExpiredStay ==
    \A r \in Expired, n \in runtimes' :
        n.session = r.session /\ n.lab = r.lab /\ ~n.aged =>
            \E q \in Requests :
                /\ Busy(q) /\ request'[q] = Idle
                /\ request[q].session = r.session /\ request[q].lab = r.lab

LEMMA StepCounts ==
    /\ StepsLeft("admitted") = 5 /\ StepsLeft("purged") = 4 /\ StepsLeft("found") = 4
    /\ StepsLeft("loaded") = 3 /\ StepsLeft("baselined") = 3
    /\ StepsLeft("vacant") = 2 /\ StepsLeft("reread") = 2
    /\ StepsLeft("validated") = 1 /\ StepsLeft("judged") = 1
    /\ StepsLeft("idle") = 0
BY DEF StepsLeft

\* One slot moves on, the others stand.
LEMMA OneMoves ==
    ASSUME TypeOK, NEW q \in Requests, NEW r, Become(q, r)
    PROVE  request'[q] = r /\ \A p \in Requests \ {q} : request'[p] = request[p]
BY DEF TypeOK, Become

LEMMA OneAdvances ==
    ASSUME TypeOK, NEW q \in Requests, NEW r, Become(q, r),
           StepsLeft(r.step) < StepsLeft(request[q].step)
    PROVE  RequestsAdvance
<1>1. \A p \in Requests \ {q} : request'[p] = request[p]
  BY OneMoves
<1>2. request'[q] = r
  BY OneMoves
<1>3. QED
  BY <1>1, <1>2 DEF RequestsAdvance

LEMMA BusyHasSteps ==
    ASSUME TypeOK, NEW q \in Requests, Busy(q)
    PROVE  0 < StepsLeft(request[q].step)
<1>1. PICK s : s = request[q].step
  OBVIOUS
<1>2. request[q] \in Request
  BY DEF TypeOK
<1>3. s \in {"purged", "loaded", "vacant", "validated", "admitted",
             "found", "baselined", "reread", "judged"}
  BY <1>1, <1>2, RequestShape DEF Busy
<1>4. \/ StepsLeft(s) = 1 \/ StepsLeft(s) = 2 \/ StepsLeft(s) = 3 \/ StepsLeft(s) = 4
      \/ StepsLeft(s) = 5
  BY <1>3, StepCounts
<1>5. QED
  BY <1>1, <1>4

LEMMA AnswersAdvance ==
    ASSUME TypeOK, NEW q \in Requests, Busy(q), Answer(q)
    PROVE  RequestsAdvance
<1>1. PICK r : r = Idle
  OBVIOUS
<1>2. Become(q, r) /\ StepsLeft(r.step) = 0
  BY <1>1, StepCounts DEF Answer, Idle
<1>3. QED
  BY <1>2, BusyHasSteps, OneAdvances

\* From one step's name to the next one's.
LEMMA NamedAdvance ==
    ASSUME TypeOK, NEW q \in Requests, NEW r, Become(q, r),
           \/ request[q].step = "purged" /\ r.step = "loaded"
           \/ request[q].step = "loaded" /\ r.step = "vacant"
           \/ request[q].step = "vacant" /\ r.step = "validated"
           \/ request[q].step = "admitted" /\ r.step = "found"
           \/ request[q].step = "found" /\ r.step \in {"baselined", "judged"}
           \/ request[q].step = "baselined" /\ r.step = "reread"
           \/ request[q].step = "reread" /\ r.step = "judged"
    PROVE  RequestsAdvance
<1>1. PICK s : s = request[q].step
  OBVIOUS
<1>2. PICK t : t = r.step
  OBVIOUS
<1>3. \/ StepsLeft(s) = 4 /\ StepsLeft(t) = 3
      \/ StepsLeft(s) = 3 /\ StepsLeft(t) = 2
      \/ StepsLeft(s) = 2 /\ StepsLeft(t) = 1
      \/ StepsLeft(s) = 5 /\ StepsLeft(t) = 4
      \/ StepsLeft(s) = 4 /\ StepsLeft(t) = 1
  BY <1>1, <1>2, StepCounts
<1>4. StepsLeft(t) < StepsLeft(s)
  BY <1>3
<1>5. QED
  BY <1>1, <1>2, <1>4, OneAdvances

LEMMA JudgesNext ==
    ASSUME NEW q, NEW status, NEW verification, Judge(q, status, verification)
    PROVE  \E r : Become(q, r) /\ r.step = "judged"
<1>1. PICK r : r = [op |-> "verify", step |-> "judged", session |-> request[q].session,
                    lab |-> request[q].lab, row |-> request[q].row, status |-> status,
                    verification |-> verification]
  OBVIOUS
<1>2. r.step = "judged" /\ Become(q, r)
  BY <1>1 DEF Judge
<1>3. QED
  BY <1>2

LEMMA StepsAdvance ==
    ASSUME TypeOK, NEW q \in Requests, Step(q)
    PROVE  RequestsAdvance
<1>1. CASE RunLoad(q)
  <2>1. request[q] \in PurgedRequest /\ Busy(q) /\ request[q].step = "purged"
    BY <1>1, RequestShape DEF RunLoad, At, TypeOK
  <2>2. Answer(q) \/ \E r : Become(q, r) /\ r.step = "loaded"
    BY <1>1 DEF RunLoad
  <2>3. QED
    BY <2>1, <2>2, AnswersAdvance, NamedAdvance
<1>2. CASE RunFindExisting(q) \/ RunValidate(q)
  <2>1. /\ Busy(q) /\ request[q] \in RunRequest
        /\ request[q].step \in {"loaded", "vacant"}
    BY <1>2, RequestShape DEF RunFindExisting, RunValidate, At, TypeOK
  <2>2. PICK v : v = [request[q] EXCEPT !.step = "vacant"]
    OBVIOUS
  <2>3. PICK w : w = [request[q] EXCEPT !.step = "validated"]
    OBVIOUS
  <2>4. v.step = "vacant" /\ w.step = "validated"
    BY <2>1, <2>2, <2>3 DEF RunRequest
  <2>5. \/ Answer(q)
        \/ request[q].step = "loaded" /\ Become(q, v)
        \/ request[q].step = "vacant" /\ Become(q, w)
    BY <1>2, <2>2, <2>3 DEF RunFindExisting, RunValidate, At
  <2>6. QED
    BY <2>1, <2>4, <2>5, AnswersAdvance, NamedAdvance
<1>3. CASE RunCreate(q) \/ RemediateWrite(q) \/ VerifyWrite(q) \/ ResetDelete(q)
  <2>1. Busy(q) /\ Answer(q)
    BY <1>3 DEF RunCreate, RemediateWrite, VerifyWrite, ResetDelete, At
  <2>2. QED
    BY <2>1, AnswersAdvance
<1>4. CASE \E op \in {"verify", "remediate"} : Find(q, op)
  <2>1. Busy(q) /\ request[q].step = "admitted"
    BY <1>4 DEF Find, At
  <2> DEFINE F(op, x) == [op |-> op, step |-> "found", session |-> request[q].session,
                          lab |-> request[q].lab, row |-> x]
  <2>2. \A op, x : F(op, x).step = "found"
    OBVIOUS
  <2>3. Answer(q) \/ \E op, x : Become(q, F(op, x))
    BY <1>4 DEF Find
  <2> HIDE DEF F
  <2>4. QED
    BY <2>1, <2>2, <2>3, AnswersAdvance, NamedAdvance
<1>5. CASE VerifyBaseline(q)
  <2>1. Busy(q) /\ request[q].step = "found"
    BY <1>5 DEF VerifyBaseline, At
  <2>2. PICK b : b = [op |-> "verify", step |-> "baselined", session |-> request[q].session,
                      lab |-> request[q].lab, row |-> request[q].row,
                      baseline |-> lab[request[q].lab].canonical]
    OBVIOUS
  <2>3. b.step = "baselined"
    BY <2>2
  <2>4. Answer(q) \/ (\E status, v : Judge(q, status, v)) \/ Become(q, b)
    BY <1>5, <2>2 DEF VerifyBaseline
  <2>5. CASE \E status, v : Judge(q, status, v)
    BY <2>1, <2>5, JudgesNext, NamedAdvance
  <2>6. QED
    BY <2>1, <2>3, <2>4, <2>5, AnswersAdvance, NamedAdvance
<1>6. CASE VerifyReread(q)
  <2>1. Busy(q) /\ request[q].step = "baselined"
    BY <1>6 DEF VerifyReread, At
  <2>2. Answer(q) \/ \E r : Become(q, r) /\ r.step = "reread"
    BY <1>6 DEF VerifyReread
  <2>3. QED
    BY <2>1, <2>2, AnswersAdvance, NamedAdvance
<1>7. CASE VerifyCompare(q)
  <2>1. request[q].step = "reread"
    BY <1>7 DEF VerifyCompare, At
  <2>2. \E r : Become(q, r) /\ r.step = "judged"
    BY <1>7, JudgesNext DEF VerifyCompare
  <2>3. QED
    BY <2>1, <2>2, NamedAdvance
<1>8. QED
  BY <1>1, <1>2, <1>3, <1>4, <1>5, <1>6, <1>7 DEF Step

LEMMA RequestsAdvanceStep ==
    ASSUME TypeOK, [Next]_vars
    PROVE  RequestsAdvance
<1>1. ASSUME NEW q \in Requests, Arrive(q) PROVE RequestsAdvance
  <2>1. ~Busy(q) /\ \E r : Become(q, r)
    BY <1>1 DEF Arrive, RunPurge, Admit
  <2>2. QED
    BY <2>1, OneMoves DEF RequestsAdvance
<1>2. ASSUME request' = request PROVE RequestsAdvance
  BY <1>2 DEF RequestsAdvance
<1>3. QED
  BY <1>1, <1>2, StepsAdvance
     DEF Next, Edit, EditCheck, EditCanonical, EditScenario, DeleteScenario, Administer,
         ResetLabRuntimes, ArchiveLab, SetPublic, RewriteCanonical, Age, Cleanup, vars

LEMMA ResetsStandStep ==
    ASSUME TypeOK, [Next]_vars
    PROVE  ResetsStand
<1>1. SUFFICES ASSUME NEW q \in Requests, At(q, "reset", "admitted"),
                      request'[q] # request[q]
               PROVE  \A n \in runtimes' :
                         ~(n.session = request[q].session /\ n.lab = request[q].lab)
  BY DEF ResetsStand
<1>2. ASSUME NEW p \in Requests, Arrive(p) PROVE FALSE
  <2>1. ~Busy(p) /\ \E r : Become(p, r)
    BY <1>2 DEF Arrive, RunPurge, Admit
  <2>2. p # q
    BY <1>1, <2>1 DEF At
  <2>3. QED
    BY <1>1, <2>1, <2>2, OneMoves
<1>3. ASSUME NEW p \in Requests, Step(p) PROVE p = q
  <2>1. \E r : Become(p, r)
    BY <1>3 DEF Step, RunLoad, RunFindExisting, RunValidate, RunCreate, Find, RemediateWrite,
                VerifyBaseline, VerifyReread, VerifyCompare, VerifyWrite, ResetDelete,
                Answer, Judge
  <2>2. QED
    BY <1>1, <2>1, OneMoves
<1>4. Step(q) => ResetDelete(q)
  BY <1>1 DEF Step, RunLoad, RunFindExisting, RunValidate, RunCreate, Find, RemediateWrite,
              VerifyBaseline, VerifyReread, VerifyCompare, VerifyWrite, At
<1>5. Step(q)
  BY <1>1, <1>2, <1>3
     DEF Next, Edit, EditCheck, EditCanonical, EditScenario, DeleteScenario, Administer,
         ResetLabRuntimes, ArchiveLab, SetPublic, RewriteCanonical, Age, Cleanup, vars
<1>6. QED
  BY <1>4, <1>5 DEF ResetDelete, RowsOf

\* Rows that are kept are not renewed.
LEMMA KeptStay ==
    ASSUME OneRuntimePerLab, runtimes' \subseteq runtimes
    PROVE  ExpiredStay
BY DEF OneRuntimePerLab, ExpiredStay, Expired

\* A write renews the rows of the request's session and lab only, and ends it.
LEMMA WritesRenew ==
    ASSUME TypeOK, OneRuntimePerLab, NEW q \in Requests, Busy(q), Answer(q),
           NEW X, X = RowsOf(request[q].session, request[q].lab),
           \A n \in runtimes' : n \in runtimes \/ \E x \in X : SameRuntime(x, n)
    PROVE  ExpiredStay
<1>1. SUFFICES ASSUME NEW r \in Expired, NEW n \in runtimes',
                      n.session = r.session, n.lab = r.lab, ~n.aged
               PROVE  \E p \in Requests :
                         /\ Busy(p) /\ request'[p] = Idle
                         /\ request[p].session = r.session /\ request[p].lab = r.lab
  BY DEF ExpiredStay
<1>2. n \notin runtimes
  BY <1>1 DEF OneRuntimePerLab, Expired
<1>3. PICK x \in X : SameRuntime(x, n)
  BY <1>2
<1>4. request[q].session = r.session /\ request[q].lab = r.lab
  BY <1>1, <1>3 DEF SameRuntime, RowsOf
<1>5. request'[q] = Idle
  BY OneMoves DEF Answer
<1>6. QED
  BY <1>4, <1>5

LEMMA ExpiredStayStep ==
    ASSUME TypeOK, OneRuntimePerLab, [Next]_vars
    PROVE  ExpiredStay
<1>1. ASSUME NEW q \in Requests, RunCreate(q) PROVE ExpiredStay
  <2>1. CASE runtimes' \subseteq runtimes
    BY <2>1, KeptStay
  <2>2. CASE ~(runtimes' \subseteq runtimes)
    <3>1. Insertion(q)
      BY <1>1, <2>2 DEF RunCreate, Insertion
    <3>2. PICK new : /\ runtimes' = runtimes \cup {new}
                     /\ \A x \in runtimes : ~(x.session = new.session /\ x.lab = new.lab)
      BY <3>1, InsertionIsFresh
    <3>3. QED
      BY <3>2 DEF ExpiredStay, OneRuntimePerLab, Expired
  <2>3. QED
    BY <2>1, <2>2
<1>2. ASSUME NEW q \in Requests, RemediateWrite(q) PROVE ExpiredStay
  <2>1. PICK X : X = RowsOf(request[q].session, request[q].lab)
    OBVIOUS
  <2>2. \A x \in runtimes : SameRuntime(x, Remediated(x))
    BY DEF SameRuntime, Remediated, TypeOK, Runtime
  <2>3. runtimes' = (runtimes \ X) \cup {Remediated(x) : x \in X} /\ X \subseteq runtimes
    BY <1>2, <2>1 DEF RemediateWrite, UpdateState, RowsOf
  <2>4. Busy(q) /\ Answer(q)
    BY <1>2 DEF RemediateWrite, At
  <2>5. \A n \in runtimes' : n \in runtimes \/ \E x \in X : SameRuntime(x, n)
    BY <2>2, <2>3
  <2>6. QED
    BY <2>1, <2>4, <2>5, WritesRenew
<1>3. ASSUME NEW q \in Requests, VerifyWrite(q) PROVE ExpiredStay
  <2>1. PICK X : X = RowsOf(request[q].session, request[q].lab)
    OBVIOUS
  <2> DEFINE r == request[q]
             J(x) == [x EXCEPT !.status = r.status, !.verification = r.verification,
                               !.verifiedAt = @ \/ r.status = "VERIFIED", !.aged = FALSE]
  <2>2. \A x \in runtimes : SameRuntime(x, J(x))
    BY DEF SameRuntime, TypeOK, Runtime
  <2>3. runtimes' = (runtimes \ X) \cup {J(x) : x \in X} /\ X \subseteq runtimes
    BY <1>3, <2>1 DEF VerifyWrite, UpdateState, RowsOf
  <2>4. Busy(q) /\ Answer(q)
    BY <1>3 DEF VerifyWrite, At
  <2> HIDE DEF J
  <2>5. \A n \in runtimes' : n \in runtimes \/ \E x \in X : SameRuntime(x, n)
    BY <2>2, <2>3
  <2>6. QED
    BY <2>1, <2>4, <2>5, WritesRenew
<1>4. ASSUME Age PROVE ExpiredStay
  <2>1. PICK r \in runtimes : runtimes' = (runtimes \ {r}) \cup {[r EXCEPT !.aged = TRUE]}
    BY <1>4 DEF Age
  <2>2. [r EXCEPT !.aged = TRUE].aged
    BY DEF TypeOK, Runtime
  <2>3. QED
    BY <2>1, <2>2 DEF ExpiredStay, OneRuntimePerLab, Expired
<1>5. ASSUME NEW q \in Requests, Arrive(q) PROVE ExpiredStay
  BY <1>5, KeptStay DEF Arrive, RunPurge, Admit, Tables
<1>6. ASSUME NEW q \in Requests, Step(q) PROVE ExpiredStay
  BY <1>1, <1>2, <1>3, <1>6, KeptStay
     DEF Step, RunLoad, RunFindExisting, RunValidate, Find, VerifyBaseline, VerifyReread,
         VerifyCompare, ResetDelete, Tables
<1>7. ASSUME NEW e \in Editors, Edit(e) PROVE ExpiredStay
  BY <1>7, KeptStay DEF Edit, EditCheck, EditCanonical, EditScenario, DeleteScenario
<1>8. ASSUME Administer \/ Cleanup \/ UNCHANGED vars PROVE ExpiredStay
  BY <1>8, KeptStay DEF Administer, ResetLabRuntimes, ArchiveLab, SetPublic, RewriteCanonical,
                        Cleanup, vars
<1>9. QED
  BY <1>4, <1>5, <1>6, <1>7, <1>8 DEF Next

(***************************************************************************)
(* Every request comes closer to its answer with each of its steps, a      *)
(* reset admitted is carried out whatever becomes of the lab, and an       *)
(* expired row is renewed only by a request in flight, once.               *)
(***************************************************************************)
THEOREM EngineAdvances == Spec => [][RequestsAdvance /\ ResetsStand /\ ExpiredStay]_vars
<1>1. TypeOK /\ OneRuntimePerLab /\ [Next]_vars =>
         [RequestsAdvance /\ ResetsStand /\ ExpiredStay]_vars
  BY RequestsAdvanceStep, ResetsStandStep, ExpiredStayStep
<1>2. QED
  BY <1>1, TypeCorrect, OneRuntime, PTL DEF Spec
=============================================================================
