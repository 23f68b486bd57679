-------------------------- MODULE PortfolioProofs --------------------------
(***************************************************************************)
(* Proofs about PortfolioLifecycle.  Every step but three is quiet: it     *)
(* keeps a row, creates it as DRAFT, deletes it, or increments its         *)
(* revision without releasing it.  From that follow the types, the         *)
(* monotonicity of revisions and, with it, that whatever a request learnt  *)
(* of a row holds as long as the row has the revision the request expects. *)
(***************************************************************************)
EXTENDS PortfolioLifecycle, TLAPS

LabStatuses == {"DRAFT", "READY", "ARCHIVED"}
ProjectStatuses == {"DRAFT", "PUBLISHED", "ARCHIVED"}

-----------------------------------------------------------------------------
\* Bumped increments the revision and nothing else, and what the handlers then
\* set leaves the row well formed.  "next" is the row a handler writes.
LabNext(row, next, status) ==
    next \in LabRow /\ next.revision = row.revision + 1 /\ next.status = status

ProjectNext(row, next, status) ==
    next \in ProjectRow /\ next.revision = row.revision + 1 /\ next.status = status

LEMMA LabBump ==
    ASSUME NEW row \in LabRow, row.revision < MaxRevision
    PROVE  LabNext(row, Bumped(row), row.status)
<1>1. row.revision \in Revisions /\ row.revision + 1 \in Revisions
  BY PortfolioAssumption DEF LabRow, Revisions
<1>2. QED
  BY <1>1 DEF Bumped, LabRow, LabNext

LEMMA LabContent ==
    ASSUME NEW row \in LabRow, row.revision < MaxRevision, NEW c \in Contents
    PROVE  LabNext(row, [Bumped(row) EXCEPT !.content = c], row.status)
<1>1. ASSUME NEW b \in LabRow
      PROVE  /\ [b EXCEPT !.content = c] \in LabRow
             /\ [b EXCEPT !.content = c].revision = b.revision
             /\ [b EXCEPT !.content = c].status = b.status
  BY DEF LabRow, LabStatuses
<1>2. LabNext(row, Bumped(row), row.status)
  BY LabBump
<1>3. QED
  BY <1>1, <1>2 DEF LabNext

LEMMA LabStatus ==
    ASSUME NEW row \in LabRow, row.revision < MaxRevision, NEW s \in LabStatuses
    PROVE  LabNext(row, [Bumped(row) EXCEPT !.status = s], s)
<1>1. ASSUME NEW b \in LabRow
      PROVE  /\ [b EXCEPT !.status = s] \in LabRow
             /\ [b EXCEPT !.status = s].revision = b.revision
             /\ [b EXCEPT !.status = s].status = s
  BY DEF LabRow, LabStatuses
<1>2. LabNext(row, Bumped(row), row.status)
  BY LabBump
<1>3. QED
  BY <1>1, <1>2 DEF LabNext

LEMMA LabRewrite ==
    ASSUME NEW row \in LabRow, row.revision < MaxRevision, NEW s \in LabStatuses,
           NEW c \in Contents, NEW p \in Projects
    PROVE  LabNext(row, [Bumped(row) EXCEPT !.status = s, !.content = c, !.project = p], s)
<1>1. ASSUME NEW b \in LabRow
      PROVE  /\ [b EXCEPT !.status = s, !.content = c, !.project = p] \in LabRow
             /\ [b EXCEPT !.status = s, !.content = c, !.project = p].revision = b.revision
             /\ [b EXCEPT !.status = s, !.content = c, !.project = p].status = s
  BY DEF LabRow, LabStatuses
<1>2. LabNext(row, Bumped(row), row.status)
  BY LabBump
<1>3. QED
  BY <1>1, <1>2 DEF LabNext

LEMMA ProjectBump ==
    ASSUME NEW row \in ProjectRow, row.revision < MaxRevision
    PROVE  ProjectNext(row, Bumped(row), row.status)
<1>1. row.revision \in Revisions /\ row.revision + 1 \in Revisions
  BY PortfolioAssumption DEF ProjectRow, Revisions
<1>2. QED
  BY <1>1 DEF Bumped, ProjectRow, ProjectNext

LEMMA ProjectSound ==
    ASSUME NEW row \in ProjectRow, row.revision < MaxRevision, NEW snd \in BOOLEAN
    PROVE  ProjectNext(row, [Bumped(row) EXCEPT !.sound = snd], row.status)
<1>1. ASSUME NEW b \in ProjectRow
      PROVE  /\ [b EXCEPT !.sound = snd] \in ProjectRow
             /\ [b EXCEPT !.sound = snd].revision = b.revision
             /\ [b EXCEPT !.sound = snd].status = b.status
  BY DEF ProjectRow, ProjectStatuses
<1>2. ProjectNext(row, Bumped(row), row.status)
  BY ProjectBump
<1>3. QED
  BY <1>1, <1>2 DEF ProjectNext

LEMMA ProjectFields ==
    ASSUME NEW row \in ProjectRow, row.revision < MaxRevision,
           NEW y \in Lifecycles, NEW snd \in BOOLEAN
    PROVE  ProjectNext(row, [Bumped(row) EXCEPT !.lifecycle = y, !.sound = snd], row.status)
<1>1. ASSUME NEW b \in ProjectRow
      PROVE  /\ [b EXCEPT !.lifecycle = y, !.sound = snd] \in ProjectRow
             /\ [b EXCEPT !.lifecycle = y, !.sound = snd].revision = b.revision
             /\ [b EXCEPT !.lifecycle = y, !.sound = snd].status = b.status
  BY DEF ProjectRow, ProjectStatuses
<1>2. ProjectNext(row, Bumped(row), row.status)
  BY ProjectBump
<1>3. QED
  BY <1>1, <1>2 DEF ProjectNext

LEMMA ProjectStatus ==
    ASSUME NEW row \in ProjectRow, row.revision < MaxRevision, NEW s \in ProjectStatuses
    PROVE  ProjectNext(row, [Bumped(row) EXCEPT !.status = s], s)
<1>1. ASSUME NEW b \in ProjectRow
      PROVE  /\ [b EXCEPT !.status = s] \in ProjectRow
             /\ [b EXCEPT !.status = s].revision = b.revision
             /\ [b EXCEPT !.status = s].status = s
  BY DEF ProjectRow, ProjectStatuses
<1>2. ProjectNext(row, Bumped(row), row.status)
  BY ProjectBump
<1>3. QED
  BY <1>1, <1>2 DEF ProjectNext

LEMMA ProjectClose ==
    ASSUME NEW row \in ProjectRow, row.revision < MaxRevision,
           NEW s \in ProjectStatuses, NEW y \in Lifecycles
    PROVE  ProjectNext(row, [Bumped(row) EXCEPT !.status = s, !.lifecycle = y], s)
<1>1. ASSUME NEW b \in ProjectRow
      PROVE  /\ [b EXCEPT !.status = s, !.lifecycle = y] \in ProjectRow
             /\ [b EXCEPT !.status = s, !.lifecycle = y].revision = b.revision
             /\ [b EXCEPT !.status = s, !.lifecycle = y].status = s
  BY DEF ProjectRow, ProjectStatuses
<1>2. ProjectNext(row, Bumped(row), row.status)
  BY ProjectBump
<1>3. QED
  BY <1>1, <1>2 DEF ProjectNext

-----------------------------------------------------------------------------
\* An artifact that belongs elsewhere changed: the revision stays, and only what
\* validation says of the row's evidence may differ.
LabStrays(l) ==
    /\ l \in Strays /\ LabExists(l) /\ lab'[l] \in LabRow
    /\ lab'[l].revision = lab[l].revision
    /\ lab'[l].status = lab[l].status
    /\ lab'[l].project = lab[l].project

ProjectStrays(p) ==
    /\ p \in Strays /\ ProjectExists(p) /\ project'[p] \in ProjectRow
    /\ project'[p].revision = project[p].revision
    /\ project'[p].status = project[p].status
    /\ project'[p].lifecycle = project[p].lifecycle

\* What a step may do to a lab or a project without releasing it.
LabQuiet(l) ==
    \/ lab'[l] = lab[l]
    \/ LabStrays(l)
    \/ /\ lab[l].status = "absent"
       /\ lab'[l] \in LabRow /\ lab'[l].status = "DRAFT"
    \/ LabExists(l) /\ lab'[l] = [status |-> "deleted"]
    \/ /\ LabExists(l) /\ lab'[l] \in LabRow
       /\ lab'[l].revision = lab[l].revision + 1
       /\ lab'[l].status \in {lab[l].status, "ARCHIVED"}

ProjectQuiet(p) ==
    \/ project'[p] = project[p]
    \/ ProjectStrays(p)
    \/ /\ project[p].status = "absent"
       /\ project'[p] \in ProjectRow /\ project'[p].status = "DRAFT"
    \/ ProjectExists(p) /\ project'[p] = [status |-> "deleted"]
    \/ /\ ProjectExists(p) /\ project'[p] \in ProjectRow
       /\ project'[p].revision = project[p].revision + 1
       /\ project'[p].status \in {project[p].status, "DRAFT", "ARCHIVED"}

LabsQuiet ==
    /\ lab' \in [Labs -> NoRow \cup LabRow]
    /\ \A l \in Labs : LabQuiet(l)

ProjectsQuiet ==
    /\ project' \in [Projects -> NoRow \cup ProjectRow]
    /\ \A p \in Projects : ProjectQuiet(p)

\* A row that is neither absent nor deleted is a full row.
LEMMA Rows ==
    ASSUME TypeOK
    PROVE  /\ \A l \in Labs : LabExists(l) => lab[l] \in LabRow
           /\ \A p \in Projects : ProjectExists(p) => project[p] \in ProjectRow
BY DEF TypeOK, LabExists, ProjectExists

LEMMA UnchangedQuiet ==
    ASSUME TypeOK
    PROVE  /\ lab' = lab => LabsQuiet
           /\ project' = project => ProjectsQuiet
BY DEF TypeOK, LabsQuiet, LabQuiet, ProjectsQuiet, ProjectQuiet

\* Labs L get rows that are each quiet, the others stay.
LEMMA PutLabsQuiet ==
    ASSUME TypeOK, NEW L \in SUBSET Labs, NEW row, PutLabs(L, row),
           \A l \in L : \/ lab[l].status = "absent" /\ row[l] \in LabRow
                              /\ row[l].status = "DRAFT"
                        \/ LabExists(l) /\ row[l] = [status |-> "deleted"]
                        \/ /\ LabExists(l) /\ row[l] \in LabRow
                           /\ row[l].revision = lab[l].revision + 1
                           /\ row[l].status \in {lab[l].status, "ARCHIVED"}
    PROVE  LabsQuiet
<1>1. ASSUME NEW l \in Labs PROVE LabQuiet(l) /\ lab'[l] \in NoRow \cup LabRow
  <2>1. CASE l \in L
    <3>1. lab'[l] = row[l]
      BY <2>1 DEF PutLabs
    <3>2. QED
      BY <2>1, <3>1 DEF LabQuiet, NoRow
  <2>2. CASE l \notin L
    BY <2>2 DEF PutLabs, LabQuiet, TypeOK
  <2>3. QED
    BY <2>1, <2>2
<1>2. lab' \in [Labs -> NoRow \cup LabRow]
  BY <1>1 DEF PutLabs
<1>3. QED
  BY <1>1, <1>2 DEF LabsQuiet

LEMMA PutProjectsQuiet ==
    ASSUME TypeOK, NEW P \in SUBSET Projects, NEW row, PutProjects(P, row),
           \A p \in P : /\ ProjectExists(p) /\ row[p] \in ProjectRow
                        /\ row[p].revision = project[p].revision + 1
                        /\ row[p].status \in {project[p].status, "DRAFT", "ARCHIVED"}
    PROVE  ProjectsQuiet
<1>1. ASSUME NEW p \in Projects PROVE ProjectQuiet(p) /\ project'[p] \in NoRow \cup ProjectRow
  <2>1. CASE p \in P
    <3>1. project'[p] = row[p]
      BY <2>1 DEF PutProjects
    <3>2. QED
      BY <2>1, <3>1 DEF ProjectQuiet
  <2>2. CASE p \notin P
    BY <2>2 DEF PutProjects, ProjectQuiet, TypeOK
  <2>3. QED
    BY <2>1, <2>2
<1>2. project' \in [Projects -> NoRow \cup ProjectRow]
  BY <1>1 DEF PutProjects
<1>3. QED
  BY <1>1, <1>2 DEF ProjectsQuiet

\* One lab, one project: the same for EXCEPT.
LEMMA OneLabQuiet ==
    ASSUME TypeOK, NEW l \in Labs, NEW row, lab' = [lab EXCEPT ![l] = row],
           \/ lab[l].status = "absent" /\ row \in LabRow /\ row.status = "DRAFT"
           \/ LabExists(l) /\ row = [status |-> "deleted"]
           \/ /\ LabExists(l) /\ row \in LabRow
              /\ row.revision = lab[l].revision + 1
              /\ row.status \in {lab[l].status, "ARCHIVED"}
    PROVE  LabsQuiet
<1>1. ASSUME NEW x \in Labs PROVE LabQuiet(x) /\ lab'[x] \in NoRow \cup LabRow
  BY DEF LabQuiet, TypeOK, NoRow
<1>2. lab' \in [Labs -> NoRow \cup LabRow]
  BY <1>1 DEF TypeOK
<1>3. QED
  BY <1>1, <1>2 DEF LabsQuiet

LEMMA OneProjectQuiet ==
    ASSUME TypeOK, NEW p \in Projects, NEW row, project' = [project EXCEPT ![p] = row],
           \/ project[p].status = "absent" /\ row \in ProjectRow /\ row.status = "DRAFT"
           \/ ProjectExists(p) /\ row = [status |-> "deleted"]
           \/ /\ ProjectExists(p) /\ row \in ProjectRow
              /\ row.revision = project[p].revision + 1
              /\ row.status \in {project[p].status, "DRAFT", "ARCHIVED"}
    PROVE  ProjectsQuiet
<1>1. ASSUME NEW x \in Projects PROVE ProjectQuiet(x) /\ project'[x] \in NoRow \cup ProjectRow
  BY DEF ProjectQuiet, TypeOK, NoRow
<1>2. project' \in [Projects -> NoRow \cup ProjectRow]
  BY <1>1 DEF TypeOK
<1>3. QED
  BY <1>1, <1>2 DEF ProjectsQuiet

-----------------------------------------------------------------------------
\* Quiet: neither the labs nor the projects are released.
Quiet == LabsQuiet /\ ProjectsQuiet

LEMMA LabContentQuiet ==
    ASSUME TypeOK, NEW l \in Labs, CanBump({}, {l}), NEW c \in Contents,
           lab' = [lab EXCEPT ![l] = [Bumped(@) EXCEPT !.content = c]]
    PROVE  LabsQuiet
<1>1. LabExists(l) /\ lab[l] \in LabRow /\ lab[l].revision < MaxRevision
  BY Rows DEF CanBump
<1> DEFINE row == [Bumped(lab[l]) EXCEPT !.content = c]
<1>2. LabNext(lab[l], row, lab[l].status)
  BY <1>1, LabContent
<1>3. lab' = [lab EXCEPT ![l] = row]
  OBVIOUS
<1> HIDE DEF row
<1>4. QED
  BY <1>1, <1>2, <1>3, OneLabQuiet DEF LabNext

LEMMA LabArchiveQuiet ==
    ASSUME TypeOK, NEW l \in Labs, CanBump({}, {l}),
           lab' = [lab EXCEPT ![l] = [Bumped(@) EXCEPT !.status = "ARCHIVED"]]
    PROVE  LabsQuiet
<1>1. LabExists(l) /\ lab[l] \in LabRow /\ lab[l].revision < MaxRevision
  BY Rows DEF CanBump
<1> DEFINE row == [Bumped(lab[l]) EXCEPT !.status = "ARCHIVED"]
<1>2. LabNext(lab[l], row, "ARCHIVED")
  BY <1>1, LabStatus DEF LabStatuses
<1>3. lab' = [lab EXCEPT ![l] = row]
  OBVIOUS
<1> HIDE DEF row
<1>4. QED
  BY <1>1, <1>2, <1>3, OneLabQuiet DEF LabNext

LEMMA ProjectBumpQuiet ==
    ASSUME TypeOK, NEW p \in Projects, CanBump({p}, {}), NEW row,
           project' = [project EXCEPT ![p] = row],
           \/ row = Bumped(project[p])
           \/ \E y \in Lifecycles, snd \in BOOLEAN :
                 row = [Bumped(project[p]) EXCEPT !.lifecycle = y, !.sound = snd]
           \/ \E y \in Lifecycles, s \in {"DRAFT", "ARCHIVED"} :
                 row = [Bumped(project[p]) EXCEPT !.status = s, !.lifecycle = y]
    PROVE  ProjectsQuiet
<1>1. ProjectExists(p) /\ project[p] \in ProjectRow /\ project[p].revision < MaxRevision
  BY Rows DEF CanBump
<1>2. \E s \in {project[p].status, "DRAFT", "ARCHIVED"} : ProjectNext(project[p], row, s)
  <2>1. CASE row = Bumped(project[p])
    BY <1>1, <2>1, ProjectBump
  <2>2. ASSUME NEW y \in Lifecycles, NEW snd \in BOOLEAN,
               row = [Bumped(project[p]) EXCEPT !.lifecycle = y, !.sound = snd]
        PROVE  ProjectNext(project[p], row, project[p].status)
    BY <1>1, <2>2, ProjectFields
  <2>3. ASSUME NEW y \in Lifecycles, NEW s \in {"DRAFT", "ARCHIVED"},
               row = [Bumped(project[p]) EXCEPT !.status = s, !.lifecycle = y]
        PROVE  ProjectNext(project[p], row, s)
    BY <1>1, <2>3, ProjectClose DEF ProjectStatuses
  <2>4. QED
    BY <2>1, <2>2, <2>3
<1>3. QED
  BY <1>1, <1>2, OneProjectQuiet DEF ProjectNext

\* A new lab is a well-formed DRAFT row.
LEMMA DraftLab ==
    ASSUME NEW p \in Projects, NEW c \in Contents, MaxRevision >= 1
    PROVE  /\ [status |-> "DRAFT", project |-> p, content |-> c, revision |-> 1] \in LabRow
           /\ [status |-> "DRAFT", project |-> p, content |-> c, revision |-> 1].status = "DRAFT"
BY PortfolioAssumption DEF LabRow, Revisions

LEMMA BornLabQuiet ==
    ASSUME TypeOK, NEW l \in Labs, lab[l].status = "absent", MaxRevision >= 1,
           NEW p \in Projects, NEW c \in Contents,
           lab' = [lab EXCEPT ![l] = [status |-> "DRAFT", project |-> p,
                                      content |-> c, revision |-> 1]]
    PROVE  LabsQuiet
BY DraftLab, OneLabQuiet

\* A project that can be bumped shows that revisions reach 1.
LEMMA BumpBound ==
    ASSUME TypeOK, NEW p \in Projects, CanBump({p}, {})
    PROVE  MaxRevision >= 1
BY Rows, PortfolioAssumption DEF CanBump, ProjectRow, Revisions

-----------------------------------------------------------------------------
(***************************************************************************)
(* The actions outside the request slots are quiet.                        *)
(***************************************************************************)
LEMMA LabStepQuiet == ASSUME TypeOK, LabStep PROVE Quiet
<1> PICK l \in Labs :
      \/ ArchiveLab(l) \/ DeleteLab(l)
      \/ \E content \in Contents :
            \/ WriteChild(l, content)
            \/ \E p \in Projects :
                  CreateLab(l, p, content) \/ CreateLabUnversioned(l, p, content)
  BY DEF LabStep
<1>1. CASE ArchiveLab(l)
  BY <1>1, LabArchiveQuiet, UnchangedQuiet DEF ArchiveLab, Quiet
<1>2. CASE DeleteLab(l)
  BY <1>2, OneLabQuiet, UnchangedQuiet DEF DeleteLab, Quiet
<1>3. ASSUME NEW content \in Contents, WriteChild(l, content) PROVE Quiet
  BY <1>3, LabContentQuiet, UnchangedQuiet DEF WriteChild, Quiet
<1>4. ASSUME NEW content \in Contents, NEW p \in Projects, CreateLab(l, p, content)
      PROVE  Quiet
  BY <1>4, BumpBound, BornLabQuiet, ProjectBumpQuiet DEF CreateLab, Quiet
<1>5. ASSUME NEW content \in Contents, NEW p \in Projects,
             CreateLabUnversioned(l, p, content)
      PROVE  Quiet
  BY <1>5, BornLabQuiet, UnchangedQuiet DEF CreateLabUnversioned, Quiet
<1>6. QED
  BY <1>1, <1>2, <1>3, <1>4, <1>5

LEMMA CreateProjectQuiet ==
    ASSUME TypeOK, NEW p \in Projects, NEW L \in SUBSET Labs,
           NEW contents \in [L -> Contents], NEW lifecycle \in Lifecycles,
           NEW sound \in BOOLEAN, CreateProject(p, contents, lifecycle, sound)
    PROVE  Quiet
<1> DEFINE row == [l \in L |-> [status |-> "DRAFT", project |-> p,
                               content |-> contents[l], revision |-> 1]]
           new == [status |-> "DRAFT", lifecycle |-> lifecycle, sound |-> sound, revision |-> 1]
<1>1. \A l \in L : lab[l].status = "absent" /\ row[l] \in LabRow /\ row[l].status = "DRAFT"
  BY DraftLab DEF CreateProject
<1>2. PutLabs(L, row)
  BY DEF CreateProject
<1>3. LabsQuiet
  <2> HIDE DEF row
  <2> QED BY <1>1, <1>2, PutLabsQuiet
<1>4. new \in ProjectRow /\ new.status = "DRAFT"
  BY PortfolioAssumption DEF CreateProject, ProjectRow, Revisions
<1>5. project' = [project EXCEPT ![p] = new] /\ project[p].status = "absent"
  BY DEF CreateProject
<1>6. ProjectsQuiet
  <2> HIDE DEF new
  <2> QED BY <1>4, <1>5, OneProjectQuiet
<1>7. QED
  BY <1>3, <1>6 DEF Quiet

LEMMA UnversionedQuiet ==
    ASSUME TypeOK, NEW p \in Projects, NEW lifecycle \in Lifecycles, NEW sound \in BOOLEAN,
           NEW L \in SUBSET Labs, NEW content \in Contents,
           UpdateProjectUnversioned(p, lifecycle, sound, L, content)
    PROVE  Quiet
<1>1. ProjectsQuiet
  BY ProjectBumpQuiet DEF UpdateProjectUnversioned
<1>2. CASE UNCHANGED lab
  BY <1>1, <1>2, UnchangedQuiet DEF Quiet
<1>3. ASSUME NEW l \in CompatibilityLabs(p), CanBump({}, {l}),
             lab' = [lab EXCEPT ![l] = [Bumped(@) EXCEPT !.content = content]]
      PROVE  Quiet
  <2>1. l \in Labs
    BY DEF CompatibilityLabs, LabsOf
  <2>2. QED
    BY <1>1, <1>3, <2>1, LabContentQuiet DEF Quiet
<1>4. ASSUME NEW l \in Labs, lab[l].status = "absent",
             lab' = [lab EXCEPT ![l] = [status |-> "DRAFT", project |-> p,
                                        content |-> content, revision |-> 1]]
      PROVE  Quiet
  BY <1>1, <1>4, BumpBound, BornLabQuiet DEF Quiet, UpdateProjectUnversioned
<1>5. QED
  BY <1>2, <1>3, <1>4 DEF UpdateProjectUnversioned

LEMMA ProjectStepQuiet == ASSUME TypeOK, ProjectStep PROVE Quiet
<1> PICK p \in Projects, sound \in BOOLEAN, lifecycle \in Lifecycles :
      \/ \E L \in SUBSET Labs : \E contents \in [L -> Contents] :
            CreateProject(p, contents, lifecycle, sound)
      \/ \E L \in SUBSET Labs, content \in Contents :
            UpdateProjectUnversioned(p, lifecycle, sound, L, content)
      \/ UpdateProject(p, lifecycle, sound)
      \/ RestoreProject(p, lifecycle)
  BY DEF ProjectStep
<1>1. CASE UpdateProject(p, lifecycle, sound)
  BY <1>1, ProjectBumpQuiet, UnchangedQuiet DEF UpdateProject, Quiet
<1>2. CASE RestoreProject(p, lifecycle)
  BY <1>2, ProjectBumpQuiet, UnchangedQuiet DEF RestoreProject, Quiet
<1>3. QED
  BY <1>1, <1>2, CreateProjectQuiet, UnversionedQuiet

LEMMA ReorderQuiet ==
    ASSUME TypeOK, NEW P \in SUBSET Projects, NEW L \in SUBSET Labs, CanBump(P, L)
    PROVE  /\ PutProjects(P, [p \in P |-> Bumped(project[p])]) => ProjectsQuiet
           /\ PutLabs(L, [l \in L |-> Bumped(lab[l])]) => LabsQuiet
<1>1. \A p \in P : ProjectExists(p) /\ project[p] \in ProjectRow
                     /\ project[p].revision < MaxRevision
  BY Rows DEF CanBump
<1>2. \A l \in L : LabExists(l) /\ lab[l] \in LabRow /\ lab[l].revision < MaxRevision
  BY Rows DEF CanBump
<1>3. ASSUME PutProjects(P, [p \in P |-> Bumped(project[p])]) PROVE ProjectsQuiet
  <2> DEFINE row == [p \in P |-> Bumped(project[p])]
  <2>1. \A p \in P : ProjectNext(project[p], row[p], project[p].status)
    BY <1>1, ProjectBump
  <2>2. PutProjects(P, row)
    BY <1>3
  <2> HIDE DEF row
  <2>3. QED
    BY <1>1, <2>1, <2>2, PutProjectsQuiet DEF ProjectNext
<1>4. ASSUME PutLabs(L, [l \in L |-> Bumped(lab[l])]) PROVE LabsQuiet
  <2> DEFINE row == [l \in L |-> Bumped(lab[l])]
  <2>1. \A l \in L : LabNext(lab[l], row[l], lab[l].status)
    BY <1>2, LabBump
  <2>2. PutLabs(L, row)
    BY <1>4
  <2> HIDE DEF row
  <2>3. QED
    BY <1>2, <2>1, <2>2, PutLabsQuiet DEF LabNext
<1>5. QED
  BY <1>3, <1>4

\* One row at a time: bumped, or looked at anew where it stands.
LEMMA StrayRows ==
    ASSUME NEW c \in Contents, NEW snd \in BOOLEAN
    PROVE  /\ \A b \in LabRow :
                 /\ [b EXCEPT !.content = c] \in LabRow
                 /\ [b EXCEPT !.content = c].revision = b.revision
                 /\ [b EXCEPT !.content = c].status = b.status
                 /\ [b EXCEPT !.content = c].project = b.project
           /\ \A b \in ProjectRow :
                 /\ [b EXCEPT !.sound = snd] \in ProjectRow
                 /\ [b EXCEPT !.sound = snd].revision = b.revision
                 /\ [b EXCEPT !.sound = snd].status = b.status
                 /\ [b EXCEPT !.sound = snd].lifecycle = b.lifecycle
<1>1. ASSUME NEW b \in LabRow
      PROVE  /\ [b EXCEPT !.content = c] \in LabRow
             /\ [b EXCEPT !.content = c].revision = b.revision
             /\ [b EXCEPT !.content = c].status = b.status
             /\ [b EXCEPT !.content = c].project = b.project
  BY DEF LabRow
<1>2. ASSUME NEW b \in ProjectRow
      PROVE  /\ [b EXCEPT !.sound = snd] \in ProjectRow
             /\ [b EXCEPT !.sound = snd].revision = b.revision
             /\ [b EXCEPT !.sound = snd].status = b.status
             /\ [b EXCEPT !.sound = snd].lifecycle = b.lifecycle
  BY DEF ProjectRow
<1>3. QED
  BY <1>1, <1>2

LEMMA EditArtifactQuiet ==
    ASSUME TypeOK, NEW P \in SUBSET Projects, NEW L \in SUBSET Labs, NEW X \in SUBSET Strays,
           NEW content \in Contents, NEW sound \in BOOLEAN,
           EditArtifact(P, L, X, content, sound)
    PROVE  Quiet
<1>1. ASSUME NEW l \in Labs PROVE LabQuiet(l) /\ lab'[l] \in NoRow \cup LabRow
  <2>1. CASE l \in L
    <3> DEFINE row == [Bumped(lab[l]) EXCEPT !.content = content]
    <3>1. LabExists(l) /\ lab[l] \in LabRow /\ lab[l].revision < MaxRevision
      BY <2>1, Rows DEF EditArtifact, CanBump
    <3>2. LabNext(lab[l], row, lab[l].status)
      BY <3>1, LabContent
    <3>3. lab'[l] = row
      BY <2>1 DEF EditArtifact
    <3> HIDE DEF row
    <3>4. QED
      BY <3>1, <3>2, <3>3 DEF LabNext, LabQuiet
  <2>2. CASE l \notin L /\ l \in X /\ LabExists(l)
    <3> DEFINE row == [lab[l] EXCEPT !.content = content]
    <3>1. lab[l] \in LabRow
      BY <2>2, Rows
    <3>2. /\ row \in LabRow /\ row.revision = lab[l].revision
          /\ row.status = lab[l].status /\ row.project = lab[l].project
      BY <3>1, StrayRows
    <3>3. lab'[l] = row
      BY <2>2 DEF EditArtifact
    <3> HIDE DEF row
    <3>4. QED
      BY <2>2, <3>2, <3>3 DEF LabQuiet, LabStrays
  <2>3. CASE l \notin L /\ ~(l \in X /\ LabExists(l))
    BY <2>3 DEF EditArtifact, LabQuiet, TypeOK
  <2>4. QED
    BY <2>1, <2>2, <2>3
<1>2. ASSUME NEW p \in Projects PROVE ProjectQuiet(p) /\ project'[p] \in NoRow \cup ProjectRow
  <2>1. CASE p \in P
    <3> DEFINE row == [Bumped(project[p]) EXCEPT !.sound = sound]
    <3>1. ProjectExists(p) /\ project[p] \in ProjectRow /\ project[p].revision < MaxRevision
      BY <2>1, Rows DEF EditArtifact, CanBump
    <3>2. ProjectNext(project[p], row, project[p].status)
      BY <3>1, ProjectSound
    <3>3. project'[p] = row
      BY <2>1 DEF EditArtifact
    <3> HIDE DEF row
    <3>4. QED
      BY <3>1, <3>2, <3>3 DEF ProjectNext, ProjectQuiet
  <2>2. CASE p \notin P /\ p \in X /\ ProjectExists(p)
    <3> DEFINE row == [project[p] EXCEPT !.sound = sound]
    <3>1. project[p] \in ProjectRow
      BY <2>2, Rows
    <3>2. /\ row \in ProjectRow /\ row.revision = project[p].revision
          /\ row.status = project[p].status /\ row.lifecycle = project[p].lifecycle
      BY <3>1, StrayRows
    <3>3. project'[p] = row
      BY <2>2 DEF EditArtifact
    <3> HIDE DEF row
    <3>4. QED
      BY <2>2, <3>2, <3>3 DEF ProjectQuiet, ProjectStrays
  <2>3. CASE p \notin P /\ ~(p \in X /\ ProjectExists(p))
    BY <2>3 DEF EditArtifact, ProjectQuiet, TypeOK
  <2>4. QED
    BY <2>1, <2>2, <2>3
<1>3. /\ lab' \in [Labs -> NoRow \cup LabRow]
      /\ project' \in [Projects -> NoRow \cup ProjectRow]
  BY <1>1, <1>2 DEF EditArtifact
<1>4. QED
  BY <1>1, <1>2, <1>3 DEF Quiet, LabsQuiet, ProjectsQuiet

LEMMA ReorderStepQuiet == ASSUME TypeOK, ReorderStep PROVE Quiet
<1>1. ASSUME NEW p \in Projects, ArchiveProject(p) PROVE Quiet
  <2>1. "ARCHIVED" \in Lifecycles
    BY DEF Lifecycles
  <2>2. QED
    BY <1>1, <2>1, ProjectBumpQuiet, UnchangedQuiet DEF ArchiveProject, Quiet
<1>2. ASSUME NEW P \in SUBSET Projects, ReorderProjects(P) PROVE Quiet
  <2>1. {} \in SUBSET Labs
    OBVIOUS
  <2>2. QED
    BY <1>2, <2>1, ReorderQuiet, UnchangedQuiet DEF ReorderProjects, Quiet
<1>3. ASSUME NEW p \in Projects, NEW L \in SUBSET Labs, ReorderLabs(p, L) PROVE Quiet
  <2>1. CanBump({p}, L) /\ CanBump({p}, {}) /\ CanBump({}, L)
    BY <1>3 DEF ReorderLabs, CanBump
  <2>2. LabsQuiet
    BY <1>3, <2>1, ReorderQuiet DEF ReorderLabs
  <2>3. ProjectsQuiet
    BY <1>3, <2>1, ProjectBumpQuiet DEF ReorderLabs
  <2>4. QED
    BY <2>2, <2>3 DEF Quiet
<1>4. ASSUME NEW P \in SUBSET Projects, NEW L \in SUBSET Labs, NEW X \in SUBSET Strays,
             NEW content \in Contents, NEW sound \in BOOLEAN,
             EditArtifact(P, L, X, content, sound)
      PROVE  Quiet
  BY <1>4, EditArtifactQuiet
<1>5. QED
  BY <1>1, <1>2, <1>3, <1>4 DEF ReorderStep

-----------------------------------------------------------------------------
(***************************************************************************)
(* What a pending request knows, as a function of the request r alone.     *)
(***************************************************************************)
PublishKnows(r) ==
    /\ project[r.project].status # "absent"
    /\ ProjectExists(r.project) => r.revision <= project[r.project].revision
    /\ (/\ r.step # "loaded" /\ ProjectExists(r.project)
        /\ project[r.project].revision = r.revision) =>
          /\ project[r.project].lifecycle = "COMPLETED"
          /\ project[r.project].status # "ARCHIVED"
          /\ project[r.project].sound \/ r.project \in Strays
    /\ \A l \in r.selected :
          /\ lab[l].status # "absent"
          /\ LabExists(l) => r.labs[l] <= lab[l].revision
          /\ (LabExists(l) /\ lab[l].revision = r.labs[l]) =>
                /\ lab[l].project = r.project
                /\ lab[l].status # "ARCHIVED"
                /\ r.step # "loaded" => StillFit(l)

ReadyKnows(r) ==
    /\ lab[r.lab].status # "absent"
    /\ LabExists(r.lab) => r.revision <= lab[r.lab].revision
    /\ (LabExists(r.lab) /\ lab[r.lab].revision = r.revision) =>
          lab[r.lab].status # "ARCHIVED" /\ StillFit(r.lab)

Knows(r) ==
    /\ r \in PublishRequest => PublishKnows(r)
    /\ (r \in LabRequest /\ r.op = "ready") => ReadyKnows(r)

Pending(r) == \E q \in Admins : request[q] = r

\* The inductive invariant.  ValidatedIsCurrent alone is not inductive: it says
\* nothing of revisions already past, nor of publications not yet validated.
Inv == TypeOK /\ \A r \in Request : Pending(r) => Knows(r)

\* How a row may change at all: its revision grows with every change but that of
\* an artifact elsewhere, and an id is not used again after its row was deleted.
LabEvolves(l) ==
    \/ lab'[l] = lab[l]
    \/ LabStrays(l)
    \/ lab[l].status = "absent"
    \/ lab'[l] = [status |-> "deleted"]
    \/ LabExists(l) /\ lab'[l] \in LabRow /\ lab'[l].revision > lab[l].revision

ProjectEvolves(p) ==
    \/ project'[p] = project[p]
    \/ ProjectStrays(p)
    \/ project[p].status = "absent"
    \/ project'[p] = [status |-> "deleted"]
    \/ ProjectExists(p) /\ project'[p] \in ProjectRow
         /\ project'[p].revision > project[p].revision

Evolves ==
    /\ \A l \in Labs : LabEvolves(l)
    /\ \A p \in Projects : ProjectEvolves(p)

LEMMA QuietEvolves == ASSUME TypeOK, Quiet PROVE Evolves
<1>1. ASSUME NEW l \in Labs PROVE LabEvolves(l)
  BY Rows DEF Quiet, LabsQuiet, LabQuiet, LabEvolves, LabRow, Revisions
<1>2. ASSUME NEW p \in Projects PROVE ProjectEvolves(p)
  BY Rows DEF Quiet, ProjectsQuiet, ProjectQuiet, ProjectEvolves, ProjectRow, Revisions
<1>3. QED
  BY <1>1, <1>2 DEF Evolves

\* What a request knows stays true whatever happens to the rows.
LEMMA KnowledgePersists ==
    ASSUME TypeOK, Evolves, NEW r \in Request, Knows(r)
    PROVE  Knows(r)'
<1>1. ASSUME r \in PublishRequest PROVE PublishKnows(r)'
  <2>1. PublishKnows(r) /\ r.project \in Projects /\ r.selected \subseteq Labs
        /\ r.revision \in Int /\ \A l \in Labs : r.labs[l] \in Int
    BY <1>1, PortfolioAssumption DEF Knows, PublishRequest, Revisions
  <2>2. /\ project[r.project].status # "absent" => project'[r.project].status # "absent"
        /\ project[r.project] \in NoRow \cup ProjectRow
        /\ ProjectEvolves(r.project)
    BY <2>1 DEF TypeOK, Evolves, ProjectEvolves, ProjectStrays, ProjectRow
  <2>3. /\ project'[r.project].status # "absent"
        /\ ProjectExists(r.project)' =>
              \/ project'[r.project] = project[r.project] /\ ProjectExists(r.project)
              \/ ProjectStrays(r.project)
              \/ project'[r.project].revision > r.revision
    <3>1. CASE project'[r.project] = project[r.project]
      BY <2>1, <3>1 DEF PublishKnows, ProjectExists
    <3>2. CASE project'[r.project] = [status |-> "deleted"]
      BY <3>2 DEF ProjectExists, NoRow
    <3>3. CASE ProjectExists(r.project) /\ project'[r.project] \in ProjectRow
                 /\ project'[r.project].revision > project[r.project].revision
      BY <2>1, <2>2, <3>3, Rows DEF PublishKnows, ProjectRow, Revisions
    <3>4. CASE ProjectStrays(r.project)
      BY <2>1, <2>2, <3>4 DEF PublishKnows
    <3>5. QED
      BY <2>1, <2>2, <3>1, <3>2, <3>3, <3>4 DEF ProjectEvolves, PublishKnows
  <2>4. ASSUME NEW l \in r.selected
        PROVE  /\ lab'[l].status # "absent"
               /\ LabExists(l)' => \/ lab'[l] = lab[l] /\ LabExists(l)
                                   \/ LabStrays(l)
                                   \/ lab'[l].revision > r.labs[l]
    <3>0. l \in Labs /\ LabEvolves(l) /\ lab[l].status # "absent"
      BY <2>1 DEF Evolves, PublishKnows
    <3>1. CASE lab'[l] = lab[l]
      BY <2>1, <3>1 DEF PublishKnows, LabExists
    <3>2. CASE lab'[l] = [status |-> "deleted"]
      BY <3>2 DEF LabExists, NoRow
    <3>3. CASE LabExists(l) /\ lab'[l] \in LabRow /\ lab'[l].revision > lab[l].revision
      BY <2>1, <3>0, <3>3, Rows DEF PublishKnows, LabRow, Revisions
    <3>4. CASE LabStrays(l)
      BY <3>0, <3>4 DEF LabStrays, LabRow
    <3>5. QED
      BY <3>0, <3>1, <3>2, <3>3, <3>4 DEF LabEvolves
  <2>5. \A l \in r.selected : LabExists(l) => lab[l].revision \in Int
    BY <2>1, Rows DEF LabRow, Revisions
  <2>6. /\ ProjectExists(r.project)' => r.revision <= project'[r.project].revision
        /\ (/\ r.step # "loaded" /\ ProjectExists(r.project)'
            /\ project'[r.project].revision = r.revision) =>
              /\ project'[r.project].lifecycle = "COMPLETED"
              /\ project'[r.project].status # "ARCHIVED"
              /\ project'[r.project].sound \/ r.project \in Strays
    <3>1. CASE project'[r.project] = project[r.project] /\ ProjectExists(r.project)
      BY <2>1, <3>1 DEF PublishKnows
    <3>2. CASE project'[r.project].revision > r.revision /\ ProjectExists(r.project)'
               /\ project'[r.project] # project[r.project]
      <4>1. project'[r.project] \in ProjectRow
        BY <2>1, <2>2, <3>2 DEF ProjectEvolves, ProjectStrays, ProjectExists, NoRow, PublishKnows
      <4>2. QED
        BY <2>1, <3>2, <4>1 DEF ProjectRow, Revisions
    <3>3. CASE ProjectStrays(r.project)
      BY <2>1, <3>3 DEF PublishKnows, ProjectStrays
    <3>4. QED
      BY <2>3, <3>1, <3>2, <3>3 DEF ProjectExists
  <2>7. ASSUME NEW l \in r.selected
        PROVE  /\ LabExists(l)' => r.labs[l] <= lab'[l].revision
               /\ (LabExists(l)' /\ lab'[l].revision = r.labs[l]) =>
                     /\ lab'[l].project = r.project
                     /\ lab'[l].status # "ARCHIVED"
                     /\ r.step # "loaded" => StillFit(l)'
    <3>1. CASE lab'[l] = lab[l] /\ LabExists(l)
      BY <2>1, <3>1 DEF PublishKnows, StillFit
    <3>2. CASE lab'[l].revision > r.labs[l] /\ LabExists(l)' /\ lab'[l] # lab[l]
      <4>1. l \in Labs /\ LabEvolves(l) /\ lab[l].status # "absent"
        BY <2>1 DEF Evolves, PublishKnows
      <4>2. lab'[l] \in LabRow
        BY <3>2, <4>1 DEF LabEvolves, LabStrays, LabExists, NoRow
      <4>3. QED
        BY <2>1, <3>2, <4>1, <4>2 DEF LabRow, Revisions
    <3>3. CASE LabStrays(l)
      BY <2>1, <3>3 DEF PublishKnows, LabStrays, StillFit
    <3>4. QED
      BY <2>4, <3>1, <3>2, <3>3 DEF LabExists
  <2>8. QED
    BY <2>3, <2>4, <2>6, <2>7 DEF PublishKnows
<1>2. ASSUME r \in LabRequest, r.op = "ready" PROVE ReadyKnows(r)'
  <2>1. ReadyKnows(r) /\ r.lab \in Labs /\ r.revision \in Int
    BY <1>2, PortfolioAssumption DEF Knows, LabRequest, Revisions
  <2>2. LabEvolves(r.lab) /\ lab[r.lab].status # "absent"
    BY <2>1 DEF Evolves, ReadyKnows
  <2>3. CASE lab'[r.lab] = lab[r.lab]
    BY <2>1, <2>3 DEF ReadyKnows, LabExists, StillFit
  <2>4. CASE lab'[r.lab] = [status |-> "deleted"]
    BY <2>4 DEF ReadyKnows, LabExists, NoRow
  <2>5. CASE LabExists(r.lab) /\ lab'[r.lab] \in LabRow
             /\ lab'[r.lab].revision > lab[r.lab].revision
    <3>1. lab'[r.lab].revision > r.revision /\ lab'[r.lab].revision \in Int
      BY <2>1, <2>5, Rows DEF ReadyKnows, LabRow, Revisions
    <3>2. lab'[r.lab].status # "absent"
      BY <2>5 DEF LabRow
    <3>3. QED
      BY <2>1, <3>1, <3>2 DEF ReadyKnows
  <2>6. CASE LabStrays(r.lab)
    BY <2>1, <2>6 DEF ReadyKnows, LabStrays, LabRow, StillFit
  <2>7. QED
    BY <2>2, <2>3, <2>4, <2>5, <2>6 DEF LabEvolves
<1>3. QED
  BY <1>1, <1>2 DEF Knows

-----------------------------------------------------------------------------
Slots == Admins \cup Editors

RowsTyped ==
    /\ project' \in [Projects -> NoRow \cup ProjectRow]
    /\ lab' \in [Labs -> NoRow \cup LabRow]

LEMMA IdleKnows == Idle \in Request /\ Knows(Idle)
BY DEF Idle, Request, Knows, PublishRequest, LabRequest

\* A step that answers a request, or leaves the requests alone, keeps Inv.
LEMMA AnswerPreserves ==
    ASSUME Inv, Evolves, RowsTyped, NEW q \in Slots, Answer(q) \/ UNCHANGED request
    PROVE  Inv'
<1>1. request' \in [Slots -> Request]
  BY IdleKnows DEF Inv, TypeOK, Answer, Slots
<1>2. TypeOK'
  BY <1>1 DEF TypeOK, RowsTyped, Slots
<1>3. ASSUME NEW r \in Request, Pending(r)' PROVE Knows(r)'
  <2>1. Pending(r) \/ r = Idle
    BY <1>3 DEF Pending, Answer, Inv, TypeOK, Slots
  <2>2. Knows(r)
    BY <2>1, IdleKnows DEF Inv
  <2>3. QED
    BY <2>2, KnowledgePersists DEF Inv
<1>4. QED
  BY <1>2, <1>3 DEF Inv

\* A step that only reads keeps Inv when it knows what it read.
LEMMA LoadPreserves ==
    ASSUME Inv, UNCHANGED <<project, lab>>, NEW q \in Slots, NEW new \in Request,
           Knows(new), request' = [request EXCEPT ![q] = new]
    PROVE  Inv'
<1>1. TypeOK'
  BY DEF Inv, TypeOK, Slots
<1>2. ASSUME NEW r \in Request, Pending(r)' PROVE Knows(r)'
  <2>1. Pending(r) \/ r = new
    BY <1>2 DEF Pending, Inv, TypeOK, Slots
  <2>2. Knows(r)
    BY <2>1 DEF Inv
  <2>3. QED
    BY <2>2 DEF Knows, PublishKnows, ReadyKnows, ProjectExists, LabExists, StillFit
<1>3. QED
  BY <1>1, <1>2 DEF Inv

LEMMA QuietPreserves ==
    ASSUME Inv, Quiet, NEW q \in Slots, Answer(q) \/ UNCHANGED request
    PROVE  Inv'
<1>1. RowsTyped /\ TypeOK
  BY DEF Quiet, LabsQuiet, ProjectsQuiet, RowsTyped, Inv
<1>2. Evolves
  BY <1>1, QuietEvolves
<1>3. QED
  BY <1>1, <1>2, AnswerPreserves

\* Which record a slot holds is told by its operation and step.
LEMMA SlotRecords ==
    ASSUME TypeOK, NEW q \in Slots
    PROVE  /\ \A step \in {"loaded", "validated", "compared"} : At(q, "publish", step) =>
                 request[q] \in PublishRequest /\ request[q].step = step
           /\ At(q, "ready", "checked") => request[q] \in LabRequest /\ request[q].op = "ready"
           /\ At(q, "edit", "checked") => request[q] \in LabRequest
           /\ At(q, "removeLab", "checked") => request[q].lab \in Labs
           /\ At(q, "removeProject", "checked") => request[q].project \in Projects
           /\ At(q, "rewrite", "checked") => request[q] \in RewriteRequest
<1>1. request[q] \in Request
  BY DEF TypeOK, Slots
<1>2. QED
  BY <1>1 DEF Request, At, FreeSlot, PublishRequest, LabRequest, RemoveRequest, RewriteRequest

-----------------------------------------------------------------------------
LEMMA PublishLoadInv ==
    ASSUME Inv, NEW q \in Admins, NEW p \in Projects, NEW S \in SUBSET Labs,
           PublishLoad(q, p, S)
    PROVE  Inv'
<1> DEFINE new == [op |-> "publish", step |-> "loaded", project |-> p, selected |-> S,
                   revision |-> project[p].revision, labs |-> LabRevisions(p)]
<1>1. project[p] \in ProjectRow /\ \A l \in LabsOf(p) : lab[l] \in LabRow
  BY Rows DEF Inv, PublishLoad, LabsOf
<1>2. LabRevisions(p) \in [Labs -> 0..MaxRevision]
  BY <1>1, PortfolioAssumption DEF LabRevisions, LabsOf, LabRow, Revisions
<1>3. new \in PublishRequest
  BY <1>1, <1>2 DEF PublishRequest, ProjectRow, PublishLoad
<1>4. /\ new.project = p /\ new.step = "loaded" /\ new.selected = S
      /\ new.revision = project[p].revision /\ new.labs = LabRevisions(p)
      /\ new.op = "publish"
  OBVIOUS
<1>5. \A l \in S : /\ LabExists(l) /\ lab[l].project = p /\ lab[l].status # "ARCHIVED"
                   /\ lab[l].status # "absent" /\ l \in Labs
                   /\ LabRevisions(p)[l] = lab[l].revision /\ lab[l].revision \in Int
  BY <1>1 DEF PublishLoad, LabsOf, LabRevisions, LabRow, Revisions
<1>6. project[p].status # "absent" /\ project[p].revision \in Int
  BY <1>1 DEF ProjectRow, Revisions
<1>7. q \in Slots /\ UNCHANGED <<project, lab>> /\ request' = [request EXCEPT ![q] = new]
  BY DEF PublishLoad, Slots
<1> HIDE DEF new
<1>8. PublishKnows(new)
  BY <1>4, <1>5, <1>6 DEF PublishKnows
<1>9. Knows(new) /\ new \in Request
  BY <1>3, <1>4, <1>8 DEF Knows, Request, LabRequest
<1>10. QED
  BY <1>7, <1>9, LoadPreserves

\* The two later steps of a publication that only read change its step alone.
LEMMA PublishStepRecord ==
    ASSUME NEW r \in PublishRequest, NEW step \in {"validated", "compared"}
    PROVE  LET new == [r EXCEPT !.step = step] IN
           /\ new \in PublishRequest /\ new.step = step /\ new.op = "publish"
           /\ new.project = r.project /\ new.selected = r.selected
           /\ new.revision = r.revision /\ new.labs = r.labs
BY DEF PublishRequest

LEMMA PublishValidateInv ==
    ASSUME Inv, NEW q \in Admins, PublishValidate(q)
    PROVE  Inv'
<1> DEFINE r == request[q]
           new == [r EXCEPT !.step = "validated"]
<1>1. q \in Slots /\ UNCHANGED <<project, lab>> /\ request' = [request EXCEPT ![q] = new]
  BY DEF PublishValidate, Slots
<1>2. r \in PublishRequest /\ r.step = "loaded"
  BY <1>1, SlotRecords DEF Inv, PublishValidate
<1>3. PublishKnows(r)
  BY <1>2 DEF Inv, Pending, Knows, Request
<1>4. /\ new \in PublishRequest /\ new.step = "validated" /\ new.op = "publish"
      /\ new.project = r.project /\ new.selected = r.selected
      /\ new.revision = r.revision /\ new.labs = r.labs
  BY <1>2, PublishStepRecord
<1>5. Publishable(r.project, r.selected) /\ r.selected \subseteq Labs
  BY <1>2 DEF PublishValidate, PublishRequest
<1> HIDE DEF r, new
<1>6. PublishKnows(new)
  <2>1. ASSUME NEW l \in r.selected, LabExists(l), lab[l].revision = r.labs[l]
        PROVE  lab[l].content \in Fit
    <3>1. lab[l].project = r.project /\ lab[l].status # "ARCHIVED"
      BY <1>3, <2>1 DEF PublishKnows
    <3>2. l \in r.selected \cap LabsOf(r.project)
      BY <1>5, <2>1, <3>1 DEF LabsOf
    <3>3. QED
      BY <1>5, <3>1, <3>2 DEF Publishable
  <2>2. QED
    BY <1>3, <1>4, <1>5, <2>1 DEF PublishKnows, Publishable, StillFit
<1>7. Knows(new) /\ new \in Request
  BY <1>4, <1>6 DEF Knows, Request, LabRequest
<1>8. QED
  BY <1>1, <1>7, LoadPreserves

LEMMA PublishCompareInv ==
    ASSUME Inv, NEW q \in Admins, PublishCompare(q)
    PROVE  Inv'
<1> DEFINE r == request[q]
           new == [r EXCEPT !.step = "compared"]
<1>1. q \in Slots /\ UNCHANGED <<project, lab>> /\ request' = [request EXCEPT ![q] = new]
  BY DEF PublishCompare, Slots
<1>2. r \in PublishRequest /\ r.step = "validated"
  BY <1>1, SlotRecords DEF Inv, PublishCompare
<1>3. PublishKnows(r)
  BY <1>2 DEF Inv, Pending, Knows, Request
<1>4. /\ new \in PublishRequest /\ new.step = "compared" /\ new.op = "publish"
      /\ new.project = r.project /\ new.selected = r.selected
      /\ new.revision = r.revision /\ new.labs = r.labs
  BY <1>2, PublishStepRecord
<1> HIDE DEF r, new
<1>5. PublishKnows(new)
  BY <1>2, <1>3, <1>4 DEF PublishKnows
<1>6. Knows(new) /\ new \in Request
  BY <1>4, <1>5 DEF Knows, Request, LabRequest
<1>7. QED
  BY <1>1, <1>6, LoadPreserves

LEMMA ReadyValidateInv ==
    ASSUME Inv, NEW q \in Admins, NEW l \in Labs, ReadyValidate(q, l)
    PROVE  Inv'
<1> DEFINE new == [op |-> "ready", step |-> "checked", lab |-> l, revision |-> lab[l].revision]
<1>1. lab[l] \in LabRow /\ LabExists(l) /\ lab[l].status # "ARCHIVED" /\ lab[l].content \in Fit
  BY Rows DEF Inv, ReadyValidate
<1>2. lab[l].revision \in Revisions /\ lab[l].revision \in Int /\ lab[l].status # "absent"
  BY <1>1 DEF LabRow, Revisions
<1>3. new \in LabRequest /\ new.lab = l /\ new.revision = lab[l].revision /\ new.op = "ready"
  BY <1>2 DEF LabRequest
<1>4. q \in Slots /\ UNCHANGED <<project, lab>> /\ request' = [request EXCEPT ![q] = new]
  BY DEF ReadyValidate, Slots
<1> HIDE DEF new
<1>5. ReadyKnows(new)
  BY <1>1, <1>2, <1>3 DEF ReadyKnows, StillFit
<1>6. Knows(new) /\ new \in Request
  BY <1>3, <1>5 DEF Knows, Request, PublishRequest
<1>7. QED
  BY <1>4, <1>6, LoadPreserves

\* The other checks learn nothing that a later step relies on.
LEMMA OtherLoadsInv ==
    ASSUME Inv, NEW q \in Slots,
           \/ \E l \in Labs : UpdateLabLoad(q, l) \/ DeleteLabCheck(q, l)
           \/ \E p \in Projects : DeleteProjectCheck(q, p)
           \/ \E l \in Labs, p \in Projects : RewriteLoad(q, l, p)
    PROVE  Inv'
<1>1. ASSUME NEW l \in Labs, UpdateLabLoad(q, l) PROVE Inv'
  <2> DEFINE new == [op |-> "edit", step |-> "checked", lab |-> l, revision |-> lab[l].revision]
  <2>1. lab[l] \in LabRow
    BY <1>1, Rows DEF Inv, UpdateLabLoad
  <2>2. new \in LabRequest /\ new.op = "edit"
    BY <2>1 DEF LabRequest, LabRow
  <2>3. UNCHANGED <<project, lab>> /\ request' = [request EXCEPT ![q] = new]
    BY <1>1 DEF UpdateLabLoad
  <2> HIDE DEF new
  <2>4. Knows(new) /\ new \in Request
    BY <2>2 DEF Knows, Request, PublishRequest
  <2>5. QED
    BY <2>3, <2>4, LoadPreserves
<1>2. ASSUME NEW l \in Labs, DeleteLabCheck(q, l) PROVE Inv'
  <2> DEFINE new == [op |-> "removeLab", step |-> "checked", lab |-> l]
  <2>1. new \in RemoveRequest /\ new.op = "removeLab"
    BY DEF RemoveRequest
  <2>2. UNCHANGED <<project, lab>> /\ request' = [request EXCEPT ![q] = new]
    BY <1>2 DEF DeleteLabCheck
  <2> HIDE DEF new
  <2>3. Knows(new) /\ new \in Request
    BY <2>1 DEF Knows, Request, PublishRequest, LabRequest
  <2>4. QED
    BY <2>2, <2>3, LoadPreserves
<1>3. ASSUME NEW p \in Projects, DeleteProjectCheck(q, p) PROVE Inv'
  <2> DEFINE new == [op |-> "removeProject", step |-> "checked", project |-> p]
  <2>1. new \in RemoveRequest /\ new.op = "removeProject"
    BY DEF RemoveRequest
  <2>2. UNCHANGED <<project, lab>> /\ request' = [request EXCEPT ![q] = new]
    BY <1>3 DEF DeleteProjectCheck
  <2> HIDE DEF new
  <2>3. Knows(new) /\ new \in Request
    BY <2>1 DEF Knows, Request, PublishRequest, LabRequest
  <2>4. QED
    BY <2>2, <2>3, LoadPreserves
<1>4. ASSUME NEW l \in Labs, NEW p \in Projects, RewriteLoad(q, l, p) PROVE Inv'
  <2> DEFINE new == [op |-> "rewrite", step |-> "checked", lab |-> l,
                     status |-> lab[l].status, project |-> p]
  <2>1. lab[l] \in LabRow
    BY <1>4, Rows DEF Inv, RewriteLoad
  <2>2. new \in RewriteRequest /\ new.op = "rewrite"
    BY <2>1 DEF RewriteRequest, LabRow
  <2>3. UNCHANGED <<project, lab>> /\ request' = [request EXCEPT ![q] = new]
    BY <1>4 DEF RewriteLoad
  <2> HIDE DEF new
  <2>4. Knows(new) /\ new \in Request
    BY <2>2 DEF Knows, Request, PublishRequest, LabRequest
  <2>5. QED
    BY <2>3, <2>4, LoadPreserves
<1>5. QED
  BY <1>1, <1>2, <1>3, <1>4

-----------------------------------------------------------------------------
\* The three commits that are not quiet still move every revision they write.
LEMMA PublishCommitRows ==
    ASSUME TypeOK, NEW q \in Admins, PublishCommit(q)
    PROVE  RowsTyped /\ Evolves
<1> DEFINE p == request[q].project
           S == request[q].selected
           prow == [x \in {p} |-> [Bumped(project[x]) EXCEPT !.status = "PUBLISHED"]]
           lrow == [l \in S |-> [Bumped(lab[l]) EXCEPT !.status = "READY"]]
<1>1. p \in Projects /\ S \in SUBSET Labs
  <2>1. request[q] \in PublishRequest
    BY SlotRecords DEF PublishCommit, Slots
  <2>2. QED
    BY <2>1 DEF PublishRequest
<1>2. CanBump({p}, S) /\ PutProjects({p}, prow) /\ PutLabs(S, lrow)
  BY DEF PublishCommit
<1>3. /\ ProjectExists(p) /\ project[p] \in ProjectRow
      /\ ProjectNext(project[p], prow[p], "PUBLISHED")
  BY <1>1, <1>2, Rows, ProjectStatus DEF CanBump, ProjectStatuses
<1>4. \A l \in S : /\ LabExists(l) /\ lab[l] \in LabRow
                   /\ LabNext(lab[l], lrow[l], "READY")
  BY <1>1, <1>2, Rows, LabStatus DEF CanBump, LabStatuses
<1> HIDE DEF p, S, prow, lrow
<1>5. ASSUME NEW x \in Projects
      PROVE  ProjectEvolves(x) /\ project'[x] \in NoRow \cup ProjectRow
  <2>1. CASE x = p
    BY <1>2, <1>3, <2>1 DEF PutProjects, ProjectEvolves, ProjectNext, ProjectRow, Revisions
  <2>2. CASE x # p
    BY <1>2, <2>2 DEF PutProjects, ProjectEvolves, TypeOK
  <2>3. QED
    BY <2>1, <2>2
<1>6. ASSUME NEW l \in Labs
      PROVE  LabEvolves(l) /\ lab'[l] \in NoRow \cup LabRow
  <2>1. CASE l \in S
    BY <1>2, <1>4, <2>1 DEF PutLabs, LabEvolves, LabNext, LabRow, Revisions
  <2>2. CASE l \notin S
    BY <1>2, <2>2 DEF PutLabs, LabEvolves, TypeOK
  <2>3. QED
    BY <2>1, <2>2
<1>7. RowsTyped
  BY <1>2, <1>5, <1>6 DEF RowsTyped, PutProjects, PutLabs
<1>8. QED
  BY <1>5, <1>6, <1>7 DEF Evolves

\* One lab gets a later row, the projects stay.
LEMMA OneLabEvolves ==
    ASSUME TypeOK, UNCHANGED project, NEW l \in Labs, NEW row \in LabRow,
           LabExists(l), row.revision = lab[l].revision + 1,
           lab' = [lab EXCEPT ![l] = row]
    PROVE  RowsTyped /\ Evolves
<1>1. lab[l] \in LabRow
  BY Rows
<1>2. ASSUME NEW x \in Labs PROVE LabEvolves(x)
  BY <1>1 DEF LabEvolves, LabRow, Revisions, TypeOK
<1>3. RowsTyped
  BY DEF RowsTyped, TypeOK
<1>4. QED
  BY <1>2, <1>3 DEF Evolves, ProjectEvolves

LEMMA ReadyCommitRows ==
    ASSUME TypeOK, NEW q \in Admins, ReadyCommit(q)
    PROVE  RowsTyped /\ Evolves
<1> DEFINE l == request[q].lab
           row == [Bumped(lab[l]) EXCEPT !.status = "READY"]
<1>1. l \in Labs
  <2>1. request[q] \in LabRequest
    BY SlotRecords DEF ReadyCommit, Slots
  <2>2. QED
    BY <2>1 DEF LabRequest
<1>2. LabExists(l) /\ LabNext(lab[l], row, "READY")
  BY <1>1, Rows, LabStatus DEF ReadyCommit, Matches, CanBump, LabStatuses
<1>3. lab' = [lab EXCEPT ![l] = row] /\ UNCHANGED project
  BY DEF ReadyCommit
<1> HIDE DEF l, row
<1>4. QED
  BY <1>1, <1>2, <1>3, OneLabEvolves DEF LabNext

LEMMA RewriteCommitRows ==
    ASSUME TypeOK, NEW e \in Editors, NEW content \in Contents, RewriteCommit(e, content)
    PROVE  RowsTyped /\ Evolves
<1> DEFINE r == request[e]
           row == [Bumped(lab[r.lab]) EXCEPT !.status = r.status, !.content = content,
                                            !.project = r.project]
<1>1. r.lab \in Labs /\ r.project \in Projects /\ r.status \in LabStatuses
  <2>1. r \in RewriteRequest
    BY SlotRecords DEF RewriteCommit, Slots
  <2>2. QED
    BY <2>1 DEF RewriteRequest, LabStatuses
<1>2. LabExists(r.lab) /\ LabNext(lab[r.lab], row, r.status)
  BY <1>1, Rows, LabRewrite DEF RewriteCommit, CanBump
<1>3. lab' = [lab EXCEPT ![r.lab] = row] /\ UNCHANGED project
  BY DEF RewriteCommit
<1> HIDE DEF r, row
<1>4. QED
  BY <1>1, <1>2, <1>3, OneLabEvolves DEF LabNext

-----------------------------------------------------------------------------
\* The other commits are quiet.
LEMMA UpdateLabCommitQuiet ==
    ASSUME TypeOK, NEW q \in Slots, NEW content \in Contents, UpdateLabCommit(q, content)
    PROVE  Quiet
<1>1. request[q].lab \in Labs
  BY SlotRecords DEF UpdateLabCommit, LabRequest
<1>2. QED
  BY <1>1, LabContentQuiet, UnchangedQuiet DEF UpdateLabCommit, Matches, Quiet

LEMMA DeleteLabCommitQuiet ==
    ASSUME TypeOK, NEW q \in Slots, DeleteLabCommit(q)
    PROVE  Quiet
<1>1. request[q].lab \in Labs
  BY SlotRecords DEF DeleteLabCommit
<1>2. QED
  BY <1>1, OneLabQuiet, UnchangedQuiet DEF DeleteLabCommit, Quiet

LEMMA DeleteProjectCommitQuiet ==
    ASSUME TypeOK, NEW q \in Slots, DeleteProjectCommit(q)
    PROVE  Quiet
<1> DEFINE p == request[q].project
           row == [l \in Labs |-> [status |-> "deleted"]]
<1>1. p \in Projects
  BY SlotRecords DEF DeleteProjectCommit
<1>2. \A l \in LabsOf(p) : LabExists(l) /\ row[l] = [status |-> "deleted"]
  BY DEF LabsOf
<1>3. PutLabs(LabsOf(p), row) /\ LabsOf(p) \in SUBSET Labs
  BY DEF DeleteProjectCommit, LabsOf
<1>4. ProjectExists(p) /\ project' = [project EXCEPT ![p] = [status |-> "deleted"]]
  BY DEF DeleteProjectCommit
<1> HIDE DEF p, row
<1>5. LabsQuiet
  BY <1>2, <1>3, PutLabsQuiet
<1>6. ProjectsQuiet
  BY <1>1, <1>4, OneProjectQuiet
<1>7. QED
  BY <1>5, <1>6 DEF Quiet

-----------------------------------------------------------------------------
(***************************************************************************)
(* The inductive invariant.                                                *)
(***************************************************************************)
LEMMA InvInit == Init => Inv
<1> SUFFICES ASSUME Init PROVE Inv
  OBVIOUS
<1>1. TypeOK
  BY IdleKnows DEF Init, TypeOK, NoRow
<1>2. ASSUME NEW r \in Request, Pending(r) PROVE Knows(r)
  <2>1. r = Idle
    BY <1>2 DEF Pending, Init
  <2>2. QED
    BY <2>1, IdleKnows
<1>3. QED
  BY <1>1, <1>2 DEF Inv

LEMMA AdminStepInv == ASSUME Inv, NEW q \in Admins, AdminStep(q) PROVE Inv'
<1>0. q \in Slots /\ TypeOK
  BY DEF Slots, Inv
<1>1. CASE \E p \in Projects, S \in SUBSET Labs : PublishLoad(q, p, S)
  BY <1>1, PublishLoadInv
<1>2. CASE PublishValidate(q)
  BY <1>2, PublishValidateInv
<1>3. CASE PublishCompare(q)
  BY <1>3, PublishCompareInv
<1>4. CASE PublishCommit(q)
  <2>1. Answer(q)
    BY <1>4 DEF PublishCommit
  <2>2. QED
    BY <1>0, <1>4, <2>1, PublishCommitRows, AnswerPreserves
<1>5. CASE \E l \in Labs : ReadyValidate(q, l)
  BY <1>5, ReadyValidateInv
<1>6. CASE ReadyCommit(q)
  <2>1. Answer(q)
    BY <1>6 DEF ReadyCommit
  <2>2. QED
    BY <1>0, <1>6, <2>1, ReadyCommitRows, AnswerPreserves
<1>7. CASE \/ \E l \in Labs : UpdateLabLoad(q, l) \/ DeleteLabCheck(q, l)
           \/ \E p \in Projects : DeleteProjectCheck(q, p)
  BY <1>0, <1>7, OtherLoadsInv
<1>8. CASE \E content \in Contents : UpdateLabCommit(q, content)
  <2>1. Quiet /\ Answer(q)
    BY <1>0, <1>8, UpdateLabCommitQuiet DEF UpdateLabCommit
  <2>2. QED
    BY <1>0, <2>1, QuietPreserves
<1>9. CASE DeleteLabCommit(q)
  <2>1. Quiet /\ Answer(q)
    BY <1>0, <1>9, DeleteLabCommitQuiet DEF DeleteLabCommit
  <2>2. QED
    BY <1>0, <2>1, QuietPreserves
<1>10. CASE DeleteProjectCommit(q)
  <2>1. Quiet /\ Answer(q)
    BY <1>0, <1>10, DeleteProjectCommitQuiet DEF DeleteProjectCommit
  <2>2. QED
    BY <1>0, <2>1, QuietPreserves
<1>11. CASE Refuse(q)
  <2>1. Quiet /\ Answer(q)
    BY <1>0, <1>11, UnchangedQuiet DEF Refuse, Quiet
  <2>2. QED
    BY <1>0, <2>1, QuietPreserves
<1>12. QED
  BY <1>1, <1>2, <1>3, <1>4, <1>5, <1>6, <1>7, <1>8, <1>9, <1>10, <1>11 DEF AdminStep

LEMMA EditorStepInv == ASSUME Inv, NEW e \in Editors, EditorStep(e) PROVE Inv'
<1>0. e \in Slots /\ TypeOK
  BY DEF Slots, Inv
<1>1. CASE \E l \in Labs, p \in Projects : RewriteLoad(e, l, p)
  BY <1>0, <1>1, OtherLoadsInv
<1>2. CASE \E content \in Contents : RewriteCommit(e, content)
  <2>1. Answer(e)
    BY <1>2 DEF RewriteCommit
  <2>2. QED
    BY <1>0, <1>2, <2>1, RewriteCommitRows, AnswerPreserves
<1>3. CASE Refuse(e)
  <2>1. Quiet /\ Answer(e)
    BY <1>0, <1>3, UnchangedQuiet DEF Refuse, Quiet
  <2>2. QED
    BY <1>0, <2>1, QuietPreserves
<1>4. QED
  BY <1>1, <1>2, <1>3 DEF EditorStep

\* Every step outside the request slots leaves the requests alone.
LEMMA OutsideStep ==
    ASSUME TypeOK, ProjectStep \/ ReorderStep \/ LabStep
    PROVE  Quiet /\ UNCHANGED request
<1>1. Quiet
  BY ProjectStepQuiet, ReorderStepQuiet, LabStepQuiet
<1>2. ASSUME ProjectStep PROVE UNCHANGED request
  BY <1>2 DEF ProjectStep, CreateProject, UpdateProjectUnversioned, UpdateProject, RestoreProject
<1>3. ASSUME ReorderStep PROVE UNCHANGED request
  BY <1>3 DEF ReorderStep, ArchiveProject, ReorderProjects, ReorderLabs, EditArtifact
<1>4. ASSUME LabStep PROVE UNCHANGED request
  BY <1>4 DEF LabStep, ArchiveLab, DeleteLab, WriteChild, CreateLab, CreateLabUnversioned
<1>5. QED
  BY <1>1, <1>2, <1>3, <1>4

LEMMA InvNext == Inv /\ [Next]_vars => Inv'
<1> SUFFICES ASSUME Inv, [Next]_vars PROVE Inv'
  OBVIOUS
<1>1. CASE \E q \in Admins : AdminStep(q)
  BY <1>1, AdminStepInv
<1>2. CASE \E e \in Editors : EditorStep(e)
  BY <1>2, EditorStepInv
<1>3. CASE ProjectStep \/ ReorderStep \/ LabStep
  <2>1. CASE Slots = {}
    <3>1. Quiet /\ UNCHANGED request
      BY <1>3, OutsideStep DEF Inv
    <3>2. TypeOK'
      BY <3>1 DEF Quiet, LabsQuiet, ProjectsQuiet, TypeOK, Inv
    <3>3. QED
      BY <2>1, <3>2 DEF Inv, Pending, Slots
  <2>2. ASSUME NEW q \in Slots PROVE Inv'
    BY <1>3, OutsideStep, QuietPreserves DEF Inv
  <2>3. QED
    BY <2>1, <2>2
<1>4. CASE UNCHANGED vars
  BY <1>4 DEF vars, Inv, TypeOK, Pending, Knows, PublishKnows, ReadyKnows, ProjectExists,
              LabExists, StillFit
<1>5. QED
  BY <1>1, <1>2, <1>3, <1>4 DEF Next

LEMMA Invariance == Spec => []Inv
BY InvInit, InvNext, PTL DEF Spec

-----------------------------------------------------------------------------
\* Rows and requests keep their shape, for any projects, labs and requests.
THEOREM TypeCorrect == Spec => []TypeOK
<1>1. Inv => TypeOK
  BY DEF Inv
<1>2. QED
  BY <1>1, Invariance, PTL

\* What validation established of a row holds while the row keeps the revision
\* the request expects: no writer changes a row without moving its revision, but
\* those of artifacts that belong elsewhere, which may make only the judgement of
\* the evidence wrong; so the optimistic check of the commit is enough.
THEOREM SnapshotSound == Spec => []ValidatedIsCurrent
<1>1. ASSUME Inv PROVE ValidatedIsCurrent
  <2> SUFFICES ASSUME NEW q \in Admins
               PROVE  /\ \A step \in {"validated", "compared"} : At(q, "publish", step) =>
                            LET p == request[q].project
                            IN  /\ (ProjectExists(p) /\ project[p].revision = request[q].revision) =>
                                      /\ project[p].lifecycle = "COMPLETED"
                                      /\ project[p].status # "ARCHIVED"
                                      /\ project[p].sound \/ p \in Strays
                                /\ \A l \in request[q].selected :
                                      (LabExists(l) /\ lab[l].revision = request[q].labs[l]) =>
                                          /\ lab[l].project = p
                                          /\ lab[l].status # "ARCHIVED"
                                          /\ StillFit(l)
                      /\ At(q, "ready", "checked") =>
                            LET l == request[q].lab
                            IN  (LabExists(l) /\ lab[l].revision = request[q].revision) =>
                                    lab[l].status # "ARCHIVED" /\ StillFit(l)
    BY DEF ValidatedIsCurrent
  <2>0. q \in Slots /\ TypeOK /\ request[q] \in Request /\ Pending(request[q])
    BY <1>1 DEF Inv, TypeOK, Slots, Pending
  <2>1. Knows(request[q])
    BY <1>1, <2>0 DEF Inv
  <2>2. ASSUME NEW step \in {"validated", "compared"}, At(q, "publish", step)
        PROVE  PublishKnows(request[q]) /\ request[q].step # "loaded"
    BY <2>0, <2>1, <2>2, SlotRecords DEF Knows
  <2>3. ASSUME At(q, "ready", "checked") PROVE ReadyKnows(request[q])
    BY <2>0, <2>1, <2>3, SlotRecords DEF Knows
  <2>4. QED
    BY <2>2, <2>3 DEF PublishKnows, ReadyKnows
<1>2. QED
  BY <1>1, Invariance, PTL
=============================================================================
