----------------------- MODULE PortfolioReleaseProofs -----------------------
(***************************************************************************)
(* From the invariant of PortfolioProofs: a publication commits only what  *)
(* was validated, and, where nobody rewrites labs without a revision, the  *)
(* orchestrator implements PortfolioRelease.                               *)
(***************************************************************************)
EXTENDS PortfolioProofs

\* A commit finds the rows at the revisions it validated, so it publishes in one
\* step what was validated; artifacts that belong elsewhere may have changed.
Publishes(p, S) ==
    /\ project[p].status \in {"DRAFT", "PUBLISHED"}
    /\ project[p].lifecycle = "COMPLETED"
    /\ project[p].sound \/ p \in Strays
    /\ S # {}
    /\ \A l \in S : /\ lab[l].status \in {"DRAFT", "READY"}
                    /\ StillFit(l) /\ lab[l].project = p
    /\ project'[p].status = "PUBLISHED"
    /\ project'[p].lifecycle = "COMPLETED"
    /\ \A other \in Projects \ {p} : project'[other] = project[other]
    /\ Release!Released(S)
    /\ \A l \in Labs \ S : lab'[l] = lab[l]

LEMMA PublishCommitPublishes ==
    ASSUME Inv, NEW q \in Admins, PublishCommit(q)
    PROVE  /\ request[q].project \in Projects
           /\ request[q].selected \in SUBSET Labs
           /\ Publishes(request[q].project, request[q].selected)
<1> DEFINE r == request[q]
           p == r.project
           S == r.selected
           prow == [x \in {p} |-> [Bumped(project[x]) EXCEPT !.status = "PUBLISHED"]]
           lrow == [l \in S |-> [Bumped(lab[l]) EXCEPT !.status = "READY"]]
<1>1. r \in PublishRequest /\ r.step = "compared"
  BY SlotRecords DEF PublishCommit, Slots, Inv
<1>2. p \in Projects /\ S \in SUBSET Labs /\ S # {}
  BY <1>1 DEF PublishRequest
<1>3. PublishKnows(r)
  BY <1>1 DEF Inv, Pending, Knows, Request
<1>4. /\ CanBump({p}, S) /\ PutProjects({p}, prow) /\ PutLabs(S, lrow)
      /\ project[p].revision = r.revision
      /\ \A l \in S : lab[l].project = p /\ lab[l].revision = r.labs[l]
  BY DEF PublishCommit
<1>5. ProjectExists(p) /\ project[p] \in ProjectRow /\ TypeOK
  BY <1>2, <1>4, Rows DEF CanBump, Inv
<1>6. \A l \in S : LabExists(l) /\ lab[l] \in LabRow
  BY <1>2, <1>4, Rows DEF CanBump, Inv
<1>7. ASSUME NEW b \in ProjectRow
      PROVE  /\ [Bumped(b) EXCEPT !.status = "PUBLISHED"].status = "PUBLISHED"
             /\ [Bumped(b) EXCEPT !.status = "PUBLISHED"].lifecycle = b.lifecycle
  BY DEF Bumped, ProjectRow
<1>8. prow[p].status = "PUBLISHED" /\ prow[p].lifecycle = project[p].lifecycle
  BY <1>5, <1>7
<1>9. ASSUME NEW b \in LabRow
      PROVE  /\ [Bumped(b) EXCEPT !.status = "READY"].status = "READY"
             /\ [Bumped(b) EXCEPT !.status = "READY"].content = b.content
             /\ [Bumped(b) EXCEPT !.status = "READY"].project = b.project
  BY DEF Bumped, LabRow
<1>10. \A l \in S : /\ lrow[l].status = "READY" /\ lrow[l].content = lab[l].content
                    /\ lrow[l].project = lab[l].project
  BY <1>6, <1>9
<1>11. /\ project[p].lifecycle = "COMPLETED"
       /\ project[p].sound \/ p \in Strays
       /\ project[p].status \in {"DRAFT", "PUBLISHED"}
  BY <1>1, <1>3, <1>4, <1>5 DEF PublishKnows, ProjectRow
<1>12. \A l \in S : /\ lab[l].status \in {"DRAFT", "READY"}
                    /\ StillFit(l) /\ lab[l].project = p
  BY <1>1, <1>3, <1>4, <1>6 DEF PublishKnows, LabRow
<1> HIDE DEF r, p, S, prow, lrow
<1>13. /\ project'[p].status = "PUBLISHED" /\ project'[p].lifecycle = "COMPLETED"
       /\ \A other \in Projects \ {p} : project'[other] = project[other]
  BY <1>2, <1>4, <1>8, <1>11 DEF PutProjects
<1>14. \A l \in S : /\ lab'[l].status = "READY" /\ lab'[l].content = lab[l].content
                    /\ lab'[l].project = lab[l].project
  BY <1>2, <1>4, <1>10 DEF PutLabs
<1>15. \A l \in Labs \ S : lab'[l] = lab[l]
  BY <1>4 DEF PutLabs
<1>16. Publishes(p, S)
  BY <1>2, <1>11, <1>12, <1>13, <1>14, <1>15 DEF Publishes, Release!Released
<1>17. QED
  BY <1>2, <1>16 DEF p, S, r

LEMMA PublishCommitReleases ==
    ASSUME Inv, Strays = {}, NEW q \in Admins, PublishCommit(q)
    PROVE  /\ request[q].project \in Projects
           /\ request[q].selected \in SUBSET Labs
           /\ Release!Publish(request[q].project, request[q].selected)
<1>1. /\ request[q].project \in Projects
      /\ request[q].selected \in SUBSET Labs
      /\ Publishes(request[q].project, request[q].selected)
  BY PublishCommitPublishes
<1>2. QED
  BY <1>1 DEF Publishes, StillFit, Release!Publish, Release!Releasable

LEMMA ReadyCommitReleases ==
    ASSUME Inv, Strays = {}, NEW q \in Admins, ReadyCommit(q)
    PROVE  request[q].lab \in Labs /\ Release!MarkReady(request[q].lab)
<1> DEFINE r == request[q]
           l == r.lab
           row == [Bumped(lab[l]) EXCEPT !.status = "READY"]
<1>1. r \in LabRequest /\ r.op = "ready" /\ r \in Request /\ Pending(r)
  BY SlotRecords DEF ReadyCommit, Slots, Inv, TypeOK, Pending
<1>2. l \in Labs /\ ReadyKnows(r)
  BY <1>1 DEF Inv, Knows, LabRequest
<1>3. /\ LabExists(l) /\ lab[l].revision = r.revision /\ UNCHANGED project
      /\ lab' = [lab EXCEPT ![l] = row]
  BY DEF ReadyCommit, Matches, CanBump
<1>4. lab[l] \in LabRow /\ TypeOK
  BY <1>2, <1>3, Rows DEF Inv
<1>5. ASSUME NEW b \in LabRow
      PROVE  /\ [Bumped(b) EXCEPT !.status = "READY"].status = "READY"
             /\ [Bumped(b) EXCEPT !.status = "READY"].content = b.content
             /\ [Bumped(b) EXCEPT !.status = "READY"].project = b.project
  BY DEF Bumped, LabRow
<1>6. row.status = "READY" /\ row.content = lab[l].content /\ row.project = lab[l].project
  BY <1>4, <1>5
<1>7. lab[l].status \in {"DRAFT", "READY"} /\ lab[l].content \in Fit
  BY <1>2, <1>3, <1>4 DEF ReadyKnows, LabRow, StillFit
<1> HIDE DEF r, l, row
<1>8. lab'[l] = row /\ \A other \in Labs \ {l} : lab'[other] = lab[other]
  BY <1>2, <1>3, <1>4 DEF TypeOK
<1>9. Release!MarkReady(l)
  BY <1>3, <1>6, <1>7, <1>8 DEF Release!MarkReady, Release!Releasable, Release!Released
<1>10. QED
  BY <1>2, <1>9 DEF l, r

\* A quiet step releases nothing.
LEMMA QuietMaintains == ASSUME TypeOK, Quiet PROVE Release!Maintain
<1>1. ASSUME NEW l \in Labs PROVE lab'[l].status \in Release!Below(lab[l].status)
  <2>1. LabQuiet(l) /\ lab[l] \in NoRow \cup LabRow
    BY DEF Quiet, LabsQuiet, TypeOK
  <2>2. QED
    BY <2>1 DEF LabQuiet, LabStrays, LabExists, NoRow, LabRow, Release!Below
<1>2. ASSUME NEW p \in Projects
      PROVE  project'[p].status \in Release!Below(project[p].status)
                 \cup (IF project[p].status = "ARCHIVED" THEN {"DRAFT"} ELSE {})
  <2>1. ProjectQuiet(p) /\ project[p] \in NoRow \cup ProjectRow
    BY DEF Quiet, ProjectsQuiet, TypeOK
  <2>2. QED
    BY <2>1 DEF ProjectQuiet, ProjectStrays, ProjectExists, NoRow, ProjectRow, Release!Below
<1>3. QED
  BY <1>1, <1>2 DEF Release!Maintain

\* Every step is a release, a rewrite of a lab without a revision, or quiet.
LEMMA StepKinds ==
    ASSUME Inv, [Next]_vars
    PROVE  \/ \E q \in Admins : PublishCommit(q)
           \/ \E q \in Admins : ReadyCommit(q)
           \/ \E e \in Editors, content \in Contents : RewriteCommit(e, content)
           \/ Quiet
<1>0. TypeOK
  BY DEF Inv
<1>1. ASSUME NEW q \in Admins, AdminStep(q), ~PublishCommit(q), ~ReadyCommit(q) PROVE Quiet
  <2>1. q \in Slots
    BY DEF Slots
  <2>2. CASE UNCHANGED <<project, lab>>
    BY <1>0, <2>2, UnchangedQuiet DEF Quiet
  <2>3. CASE \/ \E content \in Contents : UpdateLabCommit(q, content)
             \/ DeleteLabCommit(q) \/ DeleteProjectCommit(q)
    BY <1>0, <2>1, <2>3, UpdateLabCommitQuiet, DeleteLabCommitQuiet, DeleteProjectCommitQuiet
  <2>4. QED
    BY <1>1, <2>2, <2>3
       DEF AdminStep, PublishLoad, PublishValidate, PublishCompare, ReadyValidate,
           UpdateLabLoad, DeleteLabCheck, DeleteProjectCheck, Refuse
<1>2. ASSUME NEW e \in Editors, EditorStep(e),
             ~ \E content \in Contents : RewriteCommit(e, content)
      PROVE  Quiet
  BY <1>0, <1>2, UnchangedQuiet DEF EditorStep, RewriteLoad, Refuse, Quiet
<1>3. CASE ProjectStep \/ ReorderStep \/ LabStep
  BY <1>0, <1>3, OutsideStep
<1>4. CASE UNCHANGED vars
  BY <1>0, <1>4, UnchangedQuiet DEF vars, Quiet
<1>5. QED
  BY <1>1, <1>2, <1>3, <1>4 DEF Next

-----------------------------------------------------------------------------
\* A project goes public only as it was validated, whoever else writes: also
\* with requests that rewrite labs without a revision.
THEOREM PublishesValidated == Spec => PublicationIsValidated
<1> DEFINE Good(p) ==
      Turns(project[p], project'[p], "PUBLISHED") =>
          /\ project[p].status = "DRAFT"
          /\ project[p].lifecycle = "COMPLETED"
          /\ project[p].sound \/ p \in Strays
          /\ \E l \in LabsOf(p) : lab'[l].status = "READY" /\ StillFit(l)
          /\ \A l \in Labs : Turns(lab[l], lab'[l], "READY") =>
                /\ lab[l].project = p /\ StillFit(l)
                /\ lab'[l].content = lab[l].content
<1>1. ASSUME Inv, [Next]_vars, NEW p \in Projects PROVE Good(p)
  <2>0. TypeOK
    BY <1>1 DEF Inv
  <2>1. ASSUME NEW q \in Admins, PublishCommit(q) PROVE Good(p)
    <3> DEFINE chosen == request[q].project
               S == request[q].selected
    <3>1. chosen \in Projects /\ S \in SUBSET Labs /\ Publishes(chosen, S)
      BY <1>1, <2>1, PublishCommitPublishes
    <3> HIDE DEF chosen, S
    <3>2. CASE p # chosen
      BY <1>1, <3>1, <3>2 DEF Publishes, Turns
    <3>3. CASE p = chosen
      <4>1. PICK l \in S : TRUE
        BY <3>1 DEF Publishes
      <4>2. /\ lab'[l].status = "READY" /\ StillFit(l) /\ lab[l].project = p
            /\ lab[l].status \in {"DRAFT", "READY"}
        BY <3>1, <3>3 DEF Publishes, Release!Released
      <4>3. l \in LabsOf(p)
        BY <3>1, <4>2 DEF LabsOf, LabExists, NoRow
      <4>4. ASSUME NEW x \in Labs, Turns(lab[x], lab'[x], "READY")
            PROVE  /\ lab[x].project = p /\ StillFit(x)
                   /\ lab'[x].content = lab[x].content
        BY <3>1, <3>3, <4>4 DEF Publishes, Release!Released, Turns
      <4>5. QED
        BY <3>1, <3>3, <4>2, <4>3, <4>4 DEF Publishes, Turns
    <3>4. QED
      BY <3>2, <3>3
  <2>2. CASE UNCHANGED project
    BY <2>2 DEF Turns
  <2>3. ASSUME Quiet PROVE Good(p)
    <3>1. ProjectQuiet(p) /\ project[p] \in NoRow \cup ProjectRow
      BY <2>0, <2>3 DEF Quiet, ProjectsQuiet, TypeOK
    <3>2. ~Turns(project[p], project'[p], "PUBLISHED")
      BY <3>1 DEF ProjectQuiet, ProjectStrays, ProjectExists, NoRow, ProjectRow, Turns
    <3>3. QED
      BY <3>2
  <2>4. QED
    BY <1>1, <2>1, <2>2, <2>3, StepKinds DEF ReadyCommit, RewriteCommit
<1>2. Inv /\ [Next]_vars => [\A p \in Projects : Good(p)]_vars
  BY <1>1
<1>3. QED
  BY <1>2, Invariance, PTL DEF Spec, PublicationIsValidated

\* Without the requests that carry no revision into a lab's status, and where
\* evidence refers to its own project's artifacts, the split,
\* overlapping requests of any number of administrators implement
\* PortfolioRelease: publishing and marking ready take effect as one atomic
\* judgement, and nothing else releases a project or a lab.
THEOREM OrchestratorImplementsRelease ==
    ASSUME Editors = {}, Strays = {} PROVE Spec => ReleaseSpec
<1>1. Init => Release!Init
  BY DEF Init, Release!Init
<1>2. Inv /\ [Next]_vars => [Release!Next]_(Release!vars)
  <2> SUFFICES ASSUME Inv, [Next]_vars PROVE [Release!Next]_(Release!vars)
    OBVIOUS
  <2>1. CASE \E q \in Admins : PublishCommit(q)
    BY <2>1, PublishCommitReleases DEF Release!Next
  <2>2. CASE \E q \in Admins : ReadyCommit(q)
    BY <2>2, ReadyCommitReleases DEF Release!Next
  <2>3. CASE Quiet
    BY <2>3, QuietMaintains DEF Release!Next, Inv
  <2>4. QED
    BY <2>1, <2>2, <2>3, StepKinds
<1>3. QED
  BY <1>1, <1>2, Invariance, PTL DEF Spec, ReleaseSpec, Release!Spec
=============================================================================
