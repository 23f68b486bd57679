------------------------ MODULE ScenarioSerialProofs ------------------------
(***************************************************************************)
(* What holds when a tab sends one request at a time (SerialSpec): the     *)
(* stored verdict fits the stored status, a runtime becomes VERIFIED only  *)
(* through a passing recovery, and the engine implements                   *)
(* ScenarioLifecycle.                                                      *)
(*                                                                         *)
(* VerdictFitsStatus is not inductive: verify writes what it judged from a *)
(* row it read several awaits ago.  RequestFits says that the row read     *)
(* still has the status it had, because the only requests that change the  *)
(* status of a row are those of its own session and lab.                   *)
(***************************************************************************)
EXTENDS ScenarioEngineProofs

Judgement(r) ==
    \/ /\ r.status = "ACTIVE" /\ r.row.status = "ACTIVE"
       /\ r.verification \in {"state passed", "state failed"}
    \/ /\ r.status = "VERIFIED" /\ r.row.status # "ACTIVE"
       /\ r.verification = "recovery passed"
    \/ /\ r.status = r.row.status /\ r.row.status # "ACTIVE"
       /\ r.verification = "recovery failed"

HoldsRow(r) == r.step \in {"found", "baselined", "reread", "judged"}

RequestFits(q) ==
    LET r == request[q] IN
    /\ HoldsRow(r) => \A x \in RowsOf(r.session, r.lab) : x.status = r.row.status
    /\ r.step \in {"baselined", "reread"} => r.row.status # "ACTIVE"
    /\ r.step = "judged" => Judgement(r)
    /\ (r.step = "found" /\ r.op = "remediate") => r.row.status = "ACTIVE"

SerialInv == VerdictFitsStatus /\ \A q \in Requests : RequestFits(q)

-----------------------------------------------------------------------------
\* A serial behaviour is a behaviour, and never has two requests of one
\* session for one lab.
LEMMA SerialIsSpec == SerialSpec => Spec
<1>1. [SerialNext]_vars => [Next]_vars
  BY DEF SerialNext
<1> QED
  BY <1>1, PTL DEF SerialSpec, Spec

LEMMA SerialRequests == SerialSpec => []OneAtATime
<1>1. Init => OneAtATime
  BY DEF Init, OneAtATime, Busy, Idle
<1>2. OneAtATime /\ [SerialNext]_vars => OneAtATime'
  BY DEF SerialNext, vars, OneAtATime, Busy
<1> QED
  BY <1>1, <1>2, PTL DEF SerialSpec

-----------------------------------------------------------------------------
(***************************************************************************)
(* A step leaves every surviving row's status, verdict and timestamps      *)
(* alone, or it is the last step of a run, a remediate or a verify.        *)
(***************************************************************************)
SameStage(x, n) ==
    /\ SameRuntime(x, n)
    /\ n.status = x.status /\ n.verification = x.verification
    /\ n.remediatedAt = x.remediatedAt /\ n.verifiedAt = x.verifiedAt

Kept(n) == \E x \in runtimes : SameStage(x, n)

RowsKept == \A n \in runtimes' : Kept(n)

LEMMA StageStep ==
    ASSUME TypeOK, [Next]_vars
    PROVE  \/ RowsKept
           \/ \E q \in Requests : \/ Insertion(q) /\ Answer(q)
                                  \/ RemediateWrite(q)
                                  \/ VerifyWrite(q)
<1>1. ASSUME runtimes' \subseteq runtimes PROVE RowsKept
  BY <1>1 DEF RowsKept, Kept, SameStage, SameRuntime
<1>2. ASSUME Age PROVE RowsKept
  <2>1. PICK r \in runtimes : runtimes' = (runtimes \ {r}) \cup {[r EXCEPT !.aged = TRUE]}
    BY <1>2 DEF Age
  <2>2. SameStage(r, [r EXCEPT !.aged = TRUE])
    BY DEF SameStage, SameRuntime, TypeOK, Runtime
  <2>3. \A x \in runtimes : SameStage(x, x)
    BY DEF SameStage, SameRuntime
  <2> QED
    BY <2>1, <2>2, <2>3 DEF RowsKept, Kept
<1>3. ASSUME NEW q \in Requests, RunCreate(q) PROVE RowsKept \/ (Insertion(q) /\ Answer(q))
  BY <1>1, <1>3 DEF RunCreate, Insertion
<1>4. ASSUME NEW q \in Requests, Arrive(q) PROVE RowsKept
  BY <1>1, <1>4 DEF Arrive, RunPurge, Admit, Tables
<1>5. ASSUME NEW q \in Requests, Step(q)
      PROVE  \/ RowsKept \/ (Insertion(q) /\ Answer(q)) \/ RemediateWrite(q) \/ VerifyWrite(q)
  <2>1. CASE RunLoad(q) \/ RunFindExisting(q) \/ RunValidate(q)
    BY <1>1, <2>1 DEF RunLoad, RunFindExisting, RunValidate, Tables
  <2>2. CASE \E op \in {"verify", "remediate"} : Find(q, op)
    BY <1>1, <2>2 DEF Find, Tables
  <2>3. CASE VerifyBaseline(q) \/ VerifyReread(q) \/ VerifyCompare(q)
    BY <1>1, <2>3 DEF VerifyBaseline, VerifyReread, VerifyCompare, Tables
  <2>4. CASE ResetDelete(q)
    BY <1>1, <2>4 DEF ResetDelete
  <2> QED
    BY <1>3, <1>5, <2>1, <2>2, <2>3, <2>4 DEF Step
<1>6. ASSUME NEW e \in Editors, Edit(e) PROVE RowsKept
  BY <1>1, <1>6 DEF Edit, EditCheck, EditCanonical, EditScenario, DeleteScenario
<1>7. ASSUME Administer PROVE RowsKept
  BY <1>1, <1>7 DEF Administer, ResetLabRuntimes, ArchiveLab, SetPublic,
     RewriteCanonical
<1>8. ASSUME Cleanup \/ UNCHANGED vars PROVE RowsKept
  BY <1>1, <1>8 DEF Cleanup, vars
<1> QED
  BY <1>2, <1>4, <1>5, <1>6, <1>7, <1>8 DEF Next

\* A request gets to hold a row, or learns more about it, only by its own
\* reading steps, which leave the table alone.
LEMMA RequestStep ==
    ASSUME TypeOK, [Next]_vars, NEW q \in Requests
    PROVE  \/ request'[q] = request[q]
           \/ ~HoldsRow(request'[q])
           \/ /\ runtimes' = runtimes
              /\ \/ \E op \in {"verify", "remediate"} : Find(q, op)
                 \/ VerifyBaseline(q) \/ VerifyReread(q) \/ VerifyCompare(q)
<1> USE DEF TypeOK
<1>1. ASSUME NEW p \in Requests, NEW r, Become(p, r), ~HoldsRow(r)
      PROVE  request'[q] = request[q] \/ ~HoldsRow(request'[q])
  BY <1>1 DEF Become
<1>2. ASSUME NEW p \in Requests, Answer(p)
      PROVE  request'[q] = request[q] \/ ~HoldsRow(request'[q])
  BY <1>1, <1>2 DEF Answer, Idle, HoldsRow
<1>3. ASSUME NEW p \in Requests, NEW r, Become(p, r), p # q
      PROVE  request'[q] = request[q]
  BY <1>3 DEF Become
<1>4. ASSUME NEW p \in Requests, Arrive(p)
      PROVE  request'[q] = request[q] \/ ~HoldsRow(request'[q])
  BY <1>1, <1>4 DEF Arrive, RunPurge, Admit, HoldsRow
<1>5. ASSUME NEW p \in Requests, RunLoad(p)
      PROVE  request'[q] = request[q] \/ ~HoldsRow(request'[q])
  BY <1>1, <1>2, <1>5 DEF RunLoad, HoldsRow
<1>6. ASSUME NEW p \in Requests, RunFindExisting(p) \/ RunValidate(p)
      PROVE  request'[q] = request[q] \/ ~HoldsRow(request'[q])
  <2>1. request[p] \in RunRequest
    BY <1>6, RequestShape DEF RunFindExisting, RunValidate, At
  <2>2. ~HoldsRow([request[p] EXCEPT !.step = "vacant"])
        /\ ~HoldsRow([request[p] EXCEPT !.step = "validated"])
    BY <2>1 DEF RunRequest, HoldsRow
  <2> QED
    BY <1>1, <1>2, <1>6, <2>2 DEF RunFindExisting, RunValidate
<1>7. ASSUME NEW p \in Requests, RunCreate(p) \/ RemediateWrite(p) \/ VerifyWrite(p) \/ ResetDelete(p)
      PROVE  request'[q] = request[q] \/ ~HoldsRow(request'[q])
  BY <1>2, <1>7 DEF RunCreate, RemediateWrite, VerifyWrite, ResetDelete
<1>8. ASSUME NEW p \in Requests, p # q,
             \/ \E op \in {"verify", "remediate"} : Find(p, op)
             \/ VerifyBaseline(p) \/ VerifyReread(p) \/ VerifyCompare(p)
      PROVE  request'[q] = request[q]
  BY <1>3, <1>8 DEF Find, VerifyBaseline, VerifyReread, VerifyCompare, Judge, Answer
<1>9. ASSUME \/ \E op \in {"verify", "remediate"} : Find(q, op)
             \/ VerifyBaseline(q) \/ VerifyReread(q) \/ VerifyCompare(q)
      PROVE  runtimes' = runtimes
  BY <1>9 DEF Find, VerifyBaseline, VerifyReread, VerifyCompare, Tables
<1>10. ASSUME \/ \E e \in Editors : Edit(e)
              \/ Administer \/ Age \/ Cleanup \/ UNCHANGED vars
       PROVE  request' = request
  BY <1>10 DEF Edit, EditCheck, EditCanonical, EditScenario, DeleteScenario, Administer,
     ResetLabRuntimes, ArchiveLab, SetPublic, RewriteCanonical, Age, Cleanup, vars
<1> QED
  BY <1>4, <1>5, <1>6, <1>7, <1>8, <1>9, <1>10 DEF Next, Step

-----------------------------------------------------------------------------
(***************************************************************************)
(* The two writes, seen from the row they rewrite.                         *)
(***************************************************************************)
LEMMA RemediateRow ==
    ASSUME TypeOK, NEW q \in Requests, RemediateWrite(q), NEW n \in runtimes'
    PROVE  \/ /\ Kept(n)
              /\ ~(n.session = request[q].session /\ n.lab = request[q].lab)
           \/ \E x \in RowsOf(request[q].session, request[q].lab) :
                 /\ SameRuntime(x, n)
                 /\ n.status = "REMEDIATED" /\ n.verification = "none"
                 /\ n.remediatedAt /\ ~n.verifiedAt
<1> DEFINE X == RowsOf(request[q].session, request[q].lab)
<1>1. \/ n \in runtimes \ X
      \/ \E x \in X : n = Remediated(x)
  BY DEF RemediateWrite, UpdateState
<1>2. ASSUME n \in runtimes \ X
      PROVE  Kept(n) /\ ~(n.session = request[q].session /\ n.lab = request[q].lab)
  BY <1>2 DEF Kept, SameStage, SameRuntime, RowsOf
<1>3. ASSUME NEW x \in X, n = Remediated(x)
      PROVE  /\ SameRuntime(x, n)
             /\ n.status = "REMEDIATED" /\ n.verification = "none"
             /\ n.remediatedAt /\ ~n.verifiedAt
  BY <1>3 DEF Remediated, SameRuntime, TypeOK, Runtime, RowsOf
<1> QED
  BY <1>1, <1>2, <1>3

LEMMA VerifyRow ==
    ASSUME TypeOK, NEW q \in Requests, VerifyWrite(q), NEW n \in runtimes'
    PROVE  \/ /\ Kept(n)
              /\ ~(n.session = request[q].session /\ n.lab = request[q].lab)
           \/ \E x \in RowsOf(request[q].session, request[q].lab) :
                 /\ SameRuntime(x, n)
                 /\ n.status = request[q].status /\ n.verification = request[q].verification
                 /\ n.remediatedAt = x.remediatedAt
                 /\ n.verifiedAt <=> (x.verifiedAt \/ request[q].status = "VERIFIED")
<1> DEFINE r == request[q]
           X == RowsOf(r.session, r.lab)
           J(x) == [x EXCEPT !.status = r.status, !.verification = r.verification,
                             !.verifiedAt = @ \/ r.status = "VERIFIED", !.aged = FALSE]
<1>1. \/ n \in runtimes \ X
      \/ \E x \in X : n = J(x)
  BY DEF VerifyWrite, UpdateState
<1>2. ASSUME n \in runtimes \ X
      PROVE  Kept(n) /\ ~(n.session = r.session /\ n.lab = r.lab)
  BY <1>2 DEF Kept, SameStage, SameRuntime, RowsOf
<1>3. ASSUME NEW x \in X, n = J(x)
      PROVE  /\ SameRuntime(x, n)
             /\ n.status = r.status /\ n.verification = r.verification
             /\ n.remediatedAt = x.remediatedAt
             /\ n.verifiedAt <=> (x.verifiedAt \/ r.status = "VERIFIED")
  BY <1>3 DEF SameRuntime, TypeOK, Runtime, RowsOf
<1> QED
  BY <1>1, <1>2, <1>3

-----------------------------------------------------------------------------
Fits(r) ==
    /\ r.status = "ACTIVE" =>
          /\ r.verification \in {"none", "state passed", "state failed"}
          /\ ~r.remediatedAt /\ ~r.verifiedAt
    /\ r.status = "REMEDIATED" =>
          /\ r.verification \in {"none", "recovery failed"}
          /\ r.remediatedAt /\ ~r.verifiedAt
    /\ r.status = "VERIFIED" =>
          /\ r.verification \in {"recovery passed", "recovery failed"}
          /\ r.remediatedAt /\ r.verifiedAt

\* Every row of the table still fits after a step.
LEMMA VerdictStep ==
    ASSUME TypeOK, [Next]_vars, SerialInv
    PROVE  VerdictFitsStatus'
<1> SUFFICES ASSUME NEW n \in runtimes' PROVE Fits(n)
  BY DEF VerdictFitsStatus, Fits
<1>1. \A x \in runtimes : Fits(x)
  BY DEF SerialInv, VerdictFitsStatus, Fits
<1>2. ASSUME Kept(n) PROVE Fits(n)
  BY <1>1, <1>2 DEF Kept, SameStage, Fits
<1>3. CASE RowsKept
  BY <1>2, <1>3 DEF RowsKept
<1>4. ASSUME NEW q \in Requests, Insertion(q) PROVE Fits(n)
  <2>1. Fits(NewRuntime(request[q]))
    BY DEF Fits, NewRuntime
  <2> QED
    BY <1>1, <1>4, <2>1 DEF Insertion
<1>5. ASSUME NEW q \in Requests, RemediateWrite(q) PROVE Fits(n)
  BY <1>2, <1>5, RemediateRow DEF Fits
<1>6. ASSUME NEW q \in Requests, VerifyWrite(q) PROVE Fits(n)
  <2> DEFINE r == request[q]
  <2>1. r.step = "judged" /\ r \in JudgedRequest
    BY <1>6, RequestShape DEF VerifyWrite, At, TypeOK
  <2>2. /\ Judgement(r)
        /\ \A x \in RowsOf(r.session, r.lab) : x.status = r.row.status
    BY <2>1 DEF SerialInv, RequestFits, HoldsRow
  <2>3. r.row.status \in Statuses
    BY <2>1 DEF JudgedRequest, Runtime
  <2>4. ASSUME NEW x \in RowsOf(r.session, r.lab),
               n.status = r.status, n.verification = r.verification,
               n.remediatedAt = x.remediatedAt,
               n.verifiedAt <=> (x.verifiedAt \/ r.status = "VERIFIED")
        PROVE  Fits(n)
    <3>1. x.status = r.row.status /\ Fits(x)
      BY <1>1, <2>2 DEF RowsOf
    <3>2. CASE r.row.status = "ACTIVE"
      BY <2>2, <2>4, <3>1, <3>2 DEF Judgement, Fits
    <3>3. CASE r.row.status = "REMEDIATED"
      BY <2>2, <2>4, <3>1, <3>3 DEF Judgement, Fits
    <3>4. CASE r.row.status = "VERIFIED"
      BY <2>2, <2>4, <3>1, <3>4 DEF Judgement, Fits
    <3> QED
      BY <2>3, <3>2, <3>3, <3>4 DEF Statuses
  <2> QED
    BY <1>2, <1>6, <2>4, VerifyRow
<1> QED
  BY <1>3, <1>4, <1>5, <1>6, StageStep

\* A judgement that fits the row it was made on leaves a request that fits.
LEMMA JudgeFits ==
    ASSUME TypeOK, NEW p \in Requests, RequestFits(p), HoldsRow(request[p]),
           runtimes' = runtimes, NEW status, NEW v, Judge(p, status, v),
           \/ /\ status = "ACTIVE" /\ request[p].row.status = "ACTIVE"
              /\ v \in {"state passed", "state failed"}
           \/ /\ status = "VERIFIED" /\ request[p].row.status # "ACTIVE"
              /\ v = "recovery passed"
           \/ /\ status = request[p].row.status /\ request[p].row.status # "ACTIVE"
              /\ v = "recovery failed"
    PROVE  RequestFits(p)'
<1> DEFINE r == request[p]
           z == [op |-> "verify", step |-> "judged", session |-> r.session, lab |-> r.lab,
                 row |-> r.row, status |-> status, verification |-> v]
<1>1. request'[p] = z
  BY DEF Judge, Become, TypeOK
<1>2. /\ z.step = "judged" /\ z.row = r.row
      /\ z.session = r.session /\ z.lab = r.lab
      /\ z.status = status /\ z.verification = v
  OBVIOUS
<1> HIDE DEF z
<1>3. Judgement(z)
  BY <1>2 DEF Judgement
<1> QED
  BY <1>1, <1>2, <1>3 DEF RequestFits, RowsOf

\* A request that holds a row has its session and lab to itself, so the row
\* keeps the status it was found with.
LEMMA RequestFitsStep ==
    ASSUME TypeOK, OneRuntimePerLab, OneAtATime, [Next]_vars, SerialInv, NEW p \in Requests
    PROVE  RequestFits(p)'
<1> DEFINE r == request[p]
           Key == RowsOf(r.session, r.lab)
<1>0. RequestFits(p)
  BY DEF SerialInv
<1>1. ASSUME ~HoldsRow(request'[p]) PROVE RequestFits(p)'
  BY <1>1 DEF RequestFits, HoldsRow
<1>2. ASSUME request'[p] = r, HoldsRow(r) PROVE RequestFits(p)'
  <2>1. Busy(p)
    BY <1>2 DEF HoldsRow, Busy
  <2>2. ASSUME NEW n \in runtimes', n.session = r.session, n.lab = r.lab
        PROVE  n.status = r.row.status
    <3>1. ASSUME Kept(n) PROVE n.status = r.row.status
      BY <1>0, <1>2, <2>2, <3>1 DEF Kept, SameStage, SameRuntime, RequestFits, RowsOf
    <3>2. ASSUME NEW q \in Requests, Busy(q), Become(q, Idle)
          PROVE  /\ q # p
                 /\ ~(request[q].session = r.session /\ request[q].lab = r.lab)
      <4>1. q # p
        BY <1>2, <2>1, <3>2 DEF Become, Busy, Idle, TypeOK
      <4> QED
        BY <2>1, <3>2, <4>1 DEF OneAtATime
    <3>3. ASSUME NEW q \in Requests, Insertion(q), Answer(q) PROVE n.status = r.row.status
      <4>1. ~(request[q].session = r.session /\ request[q].lab = r.lab)
        BY <3>2, <3>3 DEF Insertion, At, Answer
      <4>2. /\ NewRuntime(request[q]).session = request[q].session
            /\ NewRuntime(request[q]).lab = request[q].lab
        BY DEF NewRuntime
      <4>3. n \in runtimes
        BY <2>2, <3>3, <4>1, <4>2 DEF Insertion
      <4> QED
        BY <3>1, <4>3 DEF Kept, SameStage, SameRuntime
    <3>4. ASSUME NEW q \in Requests, RemediateWrite(q) PROVE n.status = r.row.status
      <4>1. ~(request[q].session = r.session /\ request[q].lab = r.lab)
        BY <3>2, <3>4 DEF RemediateWrite, At, Answer
      <4> QED
        BY <2>2, <3>1, <3>4, <4>1, RemediateRow DEF RowsOf, SameRuntime
    <3>5. ASSUME NEW q \in Requests, VerifyWrite(q) PROVE n.status = r.row.status
      <4>1. ~(request[q].session = r.session /\ request[q].lab = r.lab)
        BY <3>2, <3>5 DEF VerifyWrite, At, Answer
      <4> QED
        BY <2>2, <3>1, <3>5, <4>1, VerifyRow DEF RowsOf, SameRuntime
    <3> QED
      BY <3>1, <3>3, <3>4, <3>5, StageStep DEF RowsKept
  <2> QED
    BY <1>0, <1>2, <2>2 DEF RequestFits, RowsOf
<1>3. ASSUME runtimes' = runtimes, NEW op \in {"verify", "remediate"}, Find(p, op)
      PROVE  RequestFits(p)'
  <2>1. \/ request'[p] = Idle
        \/ \E x \in Key : /\ op = "verify" \/ x.status = "ACTIVE"
                          /\ request'[p] = [op |-> op, step |-> "found",
                                             session |-> r.session, lab |-> r.lab, row |-> x]
    BY <1>3 DEF Find, Answer, Become, TypeOK
  <2>2. \A x, y \in Key : x = y
    BY DEF RowsOf, OneRuntimePerLab
  <2>3. CASE request'[p] = Idle
    BY <1>1, <2>3 DEF Idle, HoldsRow
  <2>4. ASSUME NEW x \in Key, op = "verify" \/ x.status = "ACTIVE",
               request'[p] = [op |-> op, step |-> "found", session |-> r.session,
                              lab |-> r.lab, row |-> x]
        PROVE  RequestFits(p)'
    <3>1. /\ request'[p].step = "found" /\ request'[p].session = r.session
          /\ request'[p].lab = r.lab /\ request'[p].row = x /\ request'[p].op = op
      BY <2>4
    <3> QED
      BY <1>3, <2>2, <2>4, <3>1 DEF RequestFits, RowsOf
  <2> QED
    BY <2>1, <2>3, <2>4
<1>4. ASSUME runtimes' = runtimes, VerifyBaseline(p) PROVE RequestFits(p)'
  <2>1. HoldsRow(r) /\ r.step = "found"
    BY <1>4 DEF VerifyBaseline, At, HoldsRow
  <2>2. CASE request'[p] = Idle
    BY <1>1, <2>2 DEF Idle, HoldsRow
  <2>3. ASSUME NEW v \in {"state passed", "state failed"}, r.row.status = "ACTIVE",
               Judge(p, "ACTIVE", v)
        PROVE  RequestFits(p)'
    BY <1>0, <1>4, <2>1, <2>3, JudgeFits
  <2>4. ASSUME r.row.status # "ACTIVE",
               request'[p] = [op |-> "verify", step |-> "baselined", session |-> r.session,
                              lab |-> r.lab, row |-> r.row, baseline |-> lab[r.lab].canonical]
        PROVE  RequestFits(p)'
    BY <1>0, <1>4, <2>1, <2>4 DEF RequestFits, RowsOf
  <2> QED
    BY <1>4, <2>2, <2>3, <2>4 DEF VerifyBaseline, Answer, Become, TypeOK
<1>5. ASSUME runtimes' = runtimes, VerifyReread(p) PROVE RequestFits(p)'
  <2>1. HoldsRow(r) /\ r.step = "baselined"
    BY <1>5 DEF VerifyReread, At, HoldsRow
  <2>2. CASE request'[p] = Idle
    BY <1>1, <2>2 DEF Idle, HoldsRow
  <2>3. ASSUME request'[p] = [op |-> "verify", step |-> "reread", session |-> r.session,
                              lab |-> r.lab, row |-> r.row, baseline |-> r.baseline,
                              again |-> lab[r.lab].canonical]
        PROVE  RequestFits(p)'
    BY <1>0, <1>5, <2>1, <2>3 DEF RequestFits, RowsOf
  <2> QED
    BY <1>5, <2>2, <2>3 DEF VerifyReread, Answer, Become, TypeOK
<1>6. ASSUME runtimes' = runtimes, VerifyCompare(p) PROVE RequestFits(p)'
  <2>1. HoldsRow(r) /\ r.step = "reread"
    BY <1>6 DEF VerifyCompare, At, HoldsRow
  <2>2. r.row.status # "ACTIVE"
    BY <1>0, <2>1 DEF RequestFits
  <2>3. CASE Judge(p, "VERIFIED", "recovery passed")
    BY <1>0, <1>6, <2>1, <2>2, <2>3, JudgeFits
  <2>4. CASE Judge(p, r.row.status, "recovery failed")
    BY <1>0, <1>6, <2>1, <2>2, <2>4, JudgeFits
  <2> QED
    BY <1>6, <2>3, <2>4 DEF VerifyCompare
<1> QED
  BY <1>1, <1>2, <1>3, <1>4, <1>5, <1>6, RequestStep

-----------------------------------------------------------------------------
LEMMA SerialInvariant == SerialSpec => []SerialInv
<1>1. Init => SerialInv
  BY DEF Init, SerialInv, VerdictFitsStatus, RequestFits, HoldsRow, Idle
<1>2. TypeOK /\ OneRuntimePerLab /\ OneAtATime /\ SerialInv /\ [Next]_vars => SerialInv'
  BY VerdictStep, RequestFitsStep DEF SerialInv
<1>3. [SerialNext]_vars => [Next]_vars
  BY DEF SerialNext
<1> QED
  BY <1>1, <1>2, <1>3, SerialIsSpec, SerialRequests, TypeCorrect, OneRuntime, PTL DEF SerialSpec

\* While a tab sends one request at a time, the verdict and the timestamps
\* stored with a runtime are those of its status.
THEOREM VerdictsFit == SerialSpec => []VerdictFitsStatus
<1>1. SerialInv => VerdictFitsStatus
  BY DEF SerialInv
<1> QED
  BY <1>1, SerialInvariant, PTL

\* A runtime is VERIFIED only after a recovery check that passed on a
\* REMEDIATED runtime, whatever the administrator does between the awaits.
THEOREM VerifiedRecovery == SerialSpec => VerifiedByPassingRecovery
<1> DEFINE Earned == \A n \in runtimes' : n.status = "VERIFIED" =>
                        \E r \in runtimes :
                          /\ r.id = n.id
                          /\ \/ r.status = "VERIFIED"
                             \/ r.status = "REMEDIATED" /\ n.verification = "recovery passed"
<1>1. TypeOK /\ SerialInv /\ [Next]_vars => Earned
  <2> SUFFICES ASSUME TypeOK, SerialInv, [Next]_vars,
                      NEW n \in runtimes', n.status = "VERIFIED"
               PROVE  \E r \in runtimes :
                        /\ r.id = n.id
                        /\ \/ r.status = "VERIFIED"
                           \/ r.status = "REMEDIATED" /\ n.verification = "recovery passed"
    OBVIOUS
  <2>1. CASE Kept(n)
    BY <2>1 DEF Kept, SameStage, SameRuntime
  <2>2. CASE RowsKept
    BY <2>1, <2>2 DEF RowsKept
  <2>3. ASSUME NEW q \in Requests, Insertion(q) PROVE Kept(n)
    <3>1. NewRuntime(request[q]).status = "ACTIVE"
      BY DEF NewRuntime
    <3> QED
      BY <2>3, <3>1 DEF Insertion, Kept, SameStage, SameRuntime
  <2>4. ASSUME NEW q \in Requests, RemediateWrite(q) PROVE Kept(n)
    BY <2>4, RemediateRow
  <2>5. ASSUME NEW q \in Requests, VerifyWrite(q), ~Kept(n)
        PROVE  \E r \in runtimes :
                 /\ r.id = n.id
                 /\ \/ r.status = "VERIFIED"
                    \/ r.status = "REMEDIATED" /\ n.verification = "recovery passed"
    <3> DEFINE r == request[q]
    <3>1. r.step = "judged" /\ r \in JudgedRequest
      BY <2>5, RequestShape DEF VerifyWrite, At, TypeOK
    <3>2. PICK x \in RowsOf(r.session, r.lab) :
             SameRuntime(x, n) /\ n.status = r.status /\ n.verification = r.verification
      BY <2>5, VerifyRow
    <3>3. x \in runtimes /\ x.id = n.id /\ x.status = r.row.status /\ Judgement(r)
      BY <3>1, <3>2 DEF SerialInv, RequestFits, HoldsRow, RowsOf, SameRuntime
    <3>4. x.status \in Statuses
      BY <3>3 DEF TypeOK, Runtime
    <3> QED
      BY <3>2, <3>3, <3>4 DEF Judgement, Statuses
  <2> QED
    BY <2>1, <2>2, <2>3, <2>4, <2>5, StageStep
<1>2. TypeOK /\ SerialInv /\ [SerialNext]_vars => [Earned]_vars
  BY <1>1 DEF SerialNext
<1> QED
  BY <1>2, SerialInvariant, SerialIsSpec, TypeCorrect, PTL
     DEF SerialSpec, VerifiedByPassingRecovery

-----------------------------------------------------------------------------
(***************************************************************************)
(* The engine implements ScenarioLifecycle.                                *)
(***************************************************************************)
StageOf(x) == [session |-> x.session, lab |-> x.lab, status |-> x.status]

\* The rows of one session and lab map to the stages of that session and lab.
LEMMA StagesOf ==
    ASSUME NEW s, NEW l
    PROVE  Lifecycle!Of(s, l) = {StageOf(x) : x \in RowsOf(s, l)}
  BY DEF Lifecycle!Of, Stages, StageOf, RowsOf

LEMMA KeptRefines ==
    ASSUME RowsKept
    PROVE  Lifecycle!Discard
<1>1. ASSUME NEW n \in runtimes' PROVE \E x \in runtimes : StageOf(n) = StageOf(x)
  BY <1>1 DEF RowsKept, Kept, SameStage, SameRuntime, StageOf
<1>2. Stages' \subseteq Stages
  BY <1>1 DEF Stages, StageOf
<1> QED
  BY <1>2 DEF Lifecycle!Discard

LEMMA InsertionRefines ==
    ASSUME NEW q \in Requests, Insertion(q)
    PROVE  Lifecycle!Start(request[q].session, request[q].lab)
<1> DEFINE r == request[q]
           new == [session |-> r.session, lab |-> r.lab, status |-> "ACTIVE"]
<1>1. Lifecycle!Of(r.session, r.lab) = {}
  BY StagesOf DEF Insertion
<1>2. StageOf(NewRuntime(r)) = new
  BY DEF StageOf, NewRuntime
<1>3. Stages' = Stages \cup {StageOf(NewRuntime(r))}
  BY DEF Stages, StageOf, Insertion
<1> QED
  BY <1>1, <1>2, <1>3 DEF Lifecycle!Start

\* Rewriting the row of a session and lab from one status to another.
LEMMA AdvanceRefines ==
    ASSUME NEW s, NEW l, NEW from, NEW to, NEW W,
           runtimes' = (runtimes \ RowsOf(s, l)) \cup W, W # {},
           \A n \in W : n.session = s /\ n.lab = l /\ n.status = to,
           NEW x \in RowsOf(s, l), x.status = from
    PROVE  Lifecycle!Advance(s, l, from, to)
<1> DEFINE X == RowsOf(s, l)
           new == [session |-> s, lab |-> l, status |-> to]
<1>1. StageOf(x) \in Lifecycle!Of(s, l) /\ StageOf(x).status = from
  BY StagesOf DEF StageOf
<1>2. \A n \in W : StageOf(n) = new
  BY DEF StageOf
<1>3. Stages' = {StageOf(y) : y \in runtimes \ X} \cup {new}
  <2>1. Stages' = {StageOf(n) : n \in runtimes'}
    BY DEF Stages, StageOf
  <2> QED
    BY <1>2, <2>1
<1>4. {StageOf(y) : y \in runtimes \ X} = Stages \ Lifecycle!Of(s, l)
  BY DEF Stages, StageOf, RowsOf, Lifecycle!Of
<1> QED
  BY <1>1, <1>3, <1>4 DEF Lifecycle!Advance

LEMMA RemediateRefines ==
    ASSUME TypeOK, SerialInv, NEW q \in Requests, RemediateWrite(q)
    PROVE  Lifecycle!Next
<1> DEFINE r == request[q]
           X == RowsOf(r.session, r.lab)
           W == {Remediated(x) : x \in X}
<1>1. /\ r.step = "found" /\ r.op = "remediate"
      /\ r.session \in Sessions /\ r.lab \in Labs
  BY RequestShape DEF RemediateWrite, At, TypeOK, FoundRequest
<1>2. \A x \in X : x.status = "ACTIVE"
  BY <1>1 DEF SerialInv, RequestFits, HoldsRow
<1>3. runtimes' = (runtimes \ X) \cup W
  BY DEF RemediateWrite, UpdateState
<1>4. CASE X = {}
  <2>1. RowsKept
    BY <1>3, <1>4 DEF RowsKept, Kept, SameStage, SameRuntime
  <2> QED
    BY <2>1, KeptRefines DEF Lifecycle!Next
<1>5. ASSUME NEW x \in X PROVE Lifecycle!Next
  <2>1. \A y \in X : /\ Remediated(y).session = r.session /\ Remediated(y).lab = r.lab
                     /\ Remediated(y).status = "REMEDIATED"
    BY DEF Remediated, RowsOf, TypeOK, Runtime
  <2>2. Lifecycle!Advance(r.session, r.lab, "ACTIVE", "REMEDIATED")
    <3>1. /\ W # {} /\ x \in RowsOf(r.session, r.lab) /\ x.status = "ACTIVE"
          /\ \A n \in W : n.session = r.session /\ n.lab = r.lab /\ n.status = "REMEDIATED"
          /\ runtimes' = (runtimes \ RowsOf(r.session, r.lab)) \cup W
      BY <1>2, <1>3, <1>5, <2>1
    <3> HIDE DEF W, X
    <3> QED
      BY <3>1, AdvanceRefines
  <2> QED
    BY <1>1, <2>2 DEF Lifecycle!Next, Lifecycle!Remediate
<1> QED
  BY <1>4, <1>5

\* verify moves REMEDIATED to VERIFIED or leaves the status as it was.
LEMMA VerifyRefines ==
    ASSUME TypeOK, SerialInv, OneRuntimePerLab, NEW q \in Requests, VerifyWrite(q)
    PROVE  Lifecycle!Next
<1> DEFINE r == request[q]
           X == RowsOf(r.session, r.lab)
           J(x) == [x EXCEPT !.status = r.status, !.verification = r.verification,
                             !.verifiedAt = @ \/ r.status = "VERIFIED", !.aged = FALSE]
           W == {J(x) : x \in X}
<1>0. At(q, "verify", "judged")
  BY DEF VerifyWrite
<1>1. /\ r.step = "judged" /\ r.session \in Sessions /\ r.lab \in Labs
      /\ r.row.status \in Statuses
  BY <1>0, RequestShape DEF At, TypeOK, JudgedRequest, Runtime
<1>2. Judgement(r) /\ \A x \in X : x.status = r.row.status
  BY <1>1 DEF SerialInv, RequestFits, HoldsRow
<1>3. runtimes' = (runtimes \ X) \cup W
  BY DEF VerifyWrite, UpdateState
<1>4. \A x \in X : /\ J(x).session = r.session /\ J(x).lab = r.lab
                   /\ J(x).status = r.status
  BY DEF RowsOf, TypeOK, Runtime
<1>5. ASSUME \A x \in X : x.status = r.status PROVE Lifecycle!Discard
  <2>1. ASSUME NEW n \in runtimes' PROVE \E x \in runtimes : StageOf(n) = StageOf(x)
    <3>1. CASE n \in runtimes
      BY <3>1
    <3>2. ASSUME NEW x \in X, n = J(x) PROVE x \in runtimes /\ StageOf(n) = StageOf(x)
      <4>1. x \in runtimes /\ x.session = r.session /\ x.lab = r.lab
        BY DEF RowsOf
      <4> QED
        BY <1>4, <1>5, <3>2, <4>1 DEF StageOf
    <3> QED
      BY <1>3, <3>1, <3>2
  <2>2. Stages' \subseteq Stages
    BY <2>1 DEF Stages, StageOf
  <2> QED
    BY <2>2 DEF Lifecycle!Discard
<1>6. CASE X = {} \/ r.status = r.row.status
  BY <1>2, <1>5, <1>6 DEF Lifecycle!Next
<1>7. ASSUME NEW x \in X, r.status # r.row.status PROVE Lifecycle!Next
  <2>1. /\ r.row.status = "REMEDIATED" \/ r.row.status = "VERIFIED"
        /\ r.status = "VERIFIED"
    BY <1>1, <1>2, <1>7 DEF Judgement, Statuses
  <2>2. \A y \in X : y.status = "REMEDIATED"
    BY <1>2, <1>7, <2>1
  <2>3. Lifecycle!Advance(r.session, r.lab, "REMEDIATED", "VERIFIED")
    <3>1. \A n \in W : n.session = r.session /\ n.lab = r.lab /\ n.status = "VERIFIED"
      BY <1>4, <2>1
    <3>2. W # {} /\ x \in RowsOf(r.session, r.lab) /\ x.status = "REMEDIATED"
      BY <1>7, <2>2
    <3>3. runtimes' = (runtimes \ RowsOf(r.session, r.lab)) \cup W
      BY <1>3
    <3> HIDE DEF W, X
    <3> QED
      BY <3>1, <3>2, <3>3, AdvanceRefines
  <2> QED
    BY <1>1, <2>3 DEF Lifecycle!Next, Lifecycle!ConfirmRecovery
<1> QED
  BY <1>6, <1>7

\* While a tab sends one request at a time, every visitor sees a runtime
\* started, remediated and verified in that order.
THEOREM EngineImplementsLifecycle == SerialSpec => LifecycleSpec
<1>1. Init => Lifecycle!Init
  BY DEF Init, Lifecycle!Init, Stages
<1>2. TypeOK /\ SerialInv /\ OneRuntimePerLab /\ [Next]_vars => [Lifecycle!Next]_Stages
  <2> SUFFICES ASSUME TypeOK, SerialInv, OneRuntimePerLab, [Next]_vars
               PROVE  Lifecycle!Next
    OBVIOUS
  <2>1. CASE RowsKept
    BY <2>1, KeptRefines DEF Lifecycle!Next
  <2>2. ASSUME NEW q \in Requests, Insertion(q) PROVE Lifecycle!Next
    <3>1. request[q].session \in Sessions /\ request[q].lab \in Labs
      BY <2>2, RequestShape DEF Insertion, At, TypeOK, RunRequest
    <3> QED
      BY <2>2, <3>1, InsertionRefines DEF Lifecycle!Next
  <2> QED
    BY <2>1, <2>2, RemediateRefines, VerifyRefines, StageStep
<1>3. [SerialNext]_vars => [Next]_vars
  BY DEF SerialNext
<1> QED
  BY <1>1, <1>2, <1>3, SerialInvariant, SerialIsSpec, TypeCorrect, OneRuntime, PTL
     DEF SerialSpec, LifecycleSpec, Lifecycle!Spec
=============================================================================
