------------------------- MODULE PortfolioLifecycle -------------------------
(***************************************************************************)
(* Projects and labs between DRAFT, READY / PUBLISHED and ARCHIVED: the    *)
(* portfolio orchestrator with its revision checks, and the older content  *)
(* and lab routes that write the same rows without them.                   *)
(*                                                                         *)
(* An administrator's request is a slot of Admins, split where the handler *)
(* awaits a read it later relies on.  A handler whose write relies on no   *)
(* earlier read is one action.  Transactions run at PostgreSQL's default   *)
(* READ COMMITTED: the compare in publishProject's transaction is one      *)
(* statement, its conditional writes lock what they match until commit.    *)
(***************************************************************************)
EXTENDS Integers, FiniteSets

CONSTANTS
    Projects,       \* ids (cuid) projects may get; none is ever reused
    Labs,           \* ids labs may get
    Contents,       \* what a lab's aggregate may hold: fields, inputs, topology ...
    Fit,            \* the contents validateLabAggregate finds no error in
    OpenLifecycles, \* ProjectLifecycleStatus without ARCHIVED
    Admins,         \* slots for concurrent orchestrator requests
    Editors,        \* slots for concurrent PUT /api/labs/:id requests
    Strays,         \* rows whose evidence refers to an artifact that is not theirs
    MaxRevision     \* bound: revisions explored

ASSUME PortfolioAssumption ==
    /\ Fit \subseteq Contents
    /\ "COMPLETED" \in OpenLifecycles /\ "ARCHIVED" \notin OpenLifecycles
    /\ Admins \cap Editors = {}
    /\ Strays \subseteq Projects \cup Labs
    /\ MaxRevision \in Nat

VARIABLES
    project,        \* project[p]: the Project row
    lab,            \* lab[l]: the Lab row with everything validation reads of it
    request         \* request[q]: what the request in slot q has read

vars == <<project, lab, request>>

-----------------------------------------------------------------------------
(***************************************************************************)
(* Rows and requests.                                                      *)
(***************************************************************************)
Revisions == 1..MaxRevision

Lifecycles == OpenLifecycles \cup {"ARCHIVED"}

\* No row yet, and a row that was deleted.
NoRow == {[status |-> "absent"], [status |-> "deleted"]}

\* "sound": validateProjectFields and validateProjectEvidence find no error
\* other than those about status, lifecycle and the choice of labs.
ProjectRow == [status: {"DRAFT", "PUBLISHED", "ARCHIVED"}, lifecycle: Lifecycles,
               sound: BOOLEAN, revision: Revisions]

LabRow == [status: {"DRAFT", "READY", "ARCHIVED"}, project: Projects,
           content: Contents, revision: Revisions]

Idle == [step |-> "idle"]

\* labs[l] is the expected revision of l, 0 where l is not of the project.
PublishRequest ==
    [op: {"publish"}, step: {"loaded", "validated", "compared"},
     project: Projects, selected: (SUBSET Labs) \ {{}}, revision: Revisions,
     labs: [Labs -> 0..MaxRevision]]

LabRequest ==
    [op: {"ready", "edit"}, step: {"checked"}, lab: Labs, revision: Revisions]

RemoveRequest ==
    [op: {"removeLab"}, step: {"checked"}, lab: Labs]
    \cup [op: {"removeProject"}, step: {"checked"}, project: Projects]

RewriteRequest ==
    [op: {"rewrite"}, step: {"checked"}, lab: Labs,
     status: {"DRAFT", "READY", "ARCHIVED"}, project: Projects]

Request == {Idle} \cup PublishRequest \cup LabRequest \cup RemoveRequest \cup RewriteRequest

ProjectExists(p) == project[p] \notin NoRow

LabExists(l) == lab[l] \notin NoRow

LabsOf(p) == {l \in Labs : LabExists(l) /\ lab[l].project = p}

LabRevisions(p) ==
    [l \in Labs |-> IF l \in LabsOf(p) THEN lab[l].revision ELSE 0]

FreeSlot(q) == request[q] = Idle

At(q, op, step) ==
    /\ ~FreeSlot(q)
    /\ request[q].op = op
    /\ request[q].step = step

\* { revision: { increment: 1 } } on the projects P and the labs L.
CanBump(P, L) ==
    /\ \A p \in P : ProjectExists(p) /\ project[p].revision < MaxRevision
    /\ \A l \in L : LabExists(l) /\ lab[l].revision < MaxRevision

Bumped(row) == [row EXCEPT !.revision = @ + 1]

\* Projects P and labs L get the given rows; the others stay.
PutProjects(P, row) ==
    project' = [p \in Projects |-> IF p \in P THEN row[p] ELSE project[p]]

PutLabs(L, row) ==
    lab' = [l \in Labs |-> IF l \in L THEN row[l] ELSE lab[l]]

Answer(q) == request' = [request EXCEPT ![q] = Idle]

-----------------------------------------------------------------------------
Init ==
    /\ project = [p \in Projects |-> [status |-> "absent"]]
    /\ lab = [l \in Labs |-> [status |-> "absent"]]
    /\ request = [q \in Admins \cup Editors |-> Idle]

\* Every handler may answer with an error instead of going on: a field it
\* refuses, an ACTIVE scenario runtime, a revision conflict, a lost connection.
Refuse(q) ==
    /\ ~FreeSlot(q)
    /\ Answer(q)
    /\ UNCHANGED <<project, lab>>

-----------------------------------------------------------------------------
(***************************************************************************)
(* publishProject.                                                         *)
(***************************************************************************)

\* The aggregate is read; the client's expectations must equal what was read,
\* so the request carries them as the revisions read here.
PublishLoad(q, p, S) ==
    /\ FreeSlot(q)
    /\ ProjectExists(p)
    /\ S # {} /\ S \subseteq LabsOf(p)
    /\ \A l \in S : lab[l].status # "ARCHIVED"
    /\ \A l \in LabsOf(p) : lab[l].status = "READY" => l \in S
    /\ request' = [request EXCEPT ![q] =
          [op |-> "publish", step |-> "loaded", project |-> p, selected |-> S,
           revision |-> project[p].revision, labs |-> LabRevisions(p)]]
    /\ UNCHANGED <<project, lab>>

\* What validateProject(forPublication, selected) finds in a second read.
Publishable(p, S) ==
    /\ ProjectExists(p)
    /\ project[p].lifecycle = "COMPLETED"
    /\ project[p].status # "ARCHIVED"
    /\ project[p].sound
    /\ \E l \in S \cap LabsOf(p) : lab[l].status # "ARCHIVED"
    /\ \A l \in S \cap LabsOf(p) : lab[l].status = "ARCHIVED" \/ lab[l].content \in Fit

PublishValidate(q) ==
    /\ At(q, "publish", "loaded")
    /\ Publishable(request[q].project, request[q].selected)
    /\ request' = [request EXCEPT ![q].step = "validated"]
    /\ UNCHANGED <<project, lab>>

\* First statement of the transaction: the complete snapshot is compared.
PublishCompare(q) ==
    /\ At(q, "publish", "validated")
    /\ request[q].labs = LabRevisions(request[q].project)
    /\ request' = [request EXCEPT ![q].step = "compared"]
    /\ UNCHANGED <<project, lab>>

\* Mutant: the labs are written by id, without their expected revision.
PublishCommitUnconditional(q) ==
    /\ At(q, "publish", "compared")
    /\ LET p == request[q].project
           S == request[q].selected
       IN  /\ CanBump({p}, S)
           /\ project[p].revision = request[q].revision
           /\ PutProjects({p}, [x \in {p} |->
                 [Bumped(project[x]) EXCEPT !.status = "PUBLISHED"]])
           /\ PutLabs(S, [l \in S |-> [Bumped(lab[l]) EXCEPT !.status = "READY"]])
    /\ Answer(q)

\* The conditional writes and the commit.  Labs that were not selected are
\* neither read again nor locked.
PublishCommit(q) ==
    /\ At(q, "publish", "compared")
    /\ LET p == request[q].project
           S == request[q].selected
       IN  /\ CanBump({p}, S)
           /\ project[p].revision = request[q].revision
           /\ \A l \in S : /\ lab[l].project = p
                           /\ lab[l].revision = request[q].labs[l]
           /\ PutProjects({p}, [x \in {p} |->
                 [Bumped(project[x]) EXCEPT !.status = "PUBLISHED"]])
           /\ PutLabs(S, [l \in S |-> [Bumped(lab[l]) EXCEPT !.status = "READY"]])
    /\ Answer(q)

-----------------------------------------------------------------------------
(***************************************************************************)
(* Other orchestrator requests on one lab.  A client's expectedRevision is  *)
(* one it has read, so it never exceeds the current one; an older one is   *)
(* refused at the write, so only the current one is followed.              *)
(***************************************************************************)

ReadyValidate(q, l) ==
    /\ FreeSlot(q)
    /\ LabExists(l)
    /\ lab[l].status # "ARCHIVED" /\ lab[l].content \in Fit
    /\ ProjectExists(lab[l].project) /\ project[lab[l].project].sound
    /\ request' = [request EXCEPT ![q] =
          [op |-> "ready", step |-> "checked", lab |-> l, revision |-> lab[l].revision]]
    /\ UNCHANGED <<project, lab>>

\* updateMany where id and revision match.
Matches(q) ==
    /\ CanBump({}, {request[q].lab})
    /\ lab[request[q].lab].revision = request[q].revision

ReadyCommit(q) ==
    /\ At(q, "ready", "checked")
    /\ Matches(q)
    /\ lab' = [lab EXCEPT ![request[q].lab] = [Bumped(@) EXCEPT !.status = "READY"]]
    /\ Answer(q)
    /\ UNCHANGED project

UpdateLabLoad(q, l) ==
    /\ FreeSlot(q)
    /\ LabExists(l) /\ lab[l].status # "ARCHIVED"
    /\ request' = [request EXCEPT ![q] =
          [op |-> "edit", step |-> "checked", lab |-> l, revision |-> lab[l].revision]]
    /\ UNCHANGED <<project, lab>>

UpdateLabCommit(q, content) ==
    /\ At(q, "edit", "checked")
    /\ Matches(q)
    /\ lab' = [lab EXCEPT ![request[q].lab] = [Bumped(@) EXCEPT !.content = content]]
    /\ Answer(q)
    /\ UNCHANGED project

ArchiveLab(l) ==
    /\ CanBump({}, {l})
    /\ lab' = [lab EXCEPT ![l] = [Bumped(@) EXCEPT !.status = "ARCHIVED"]]
    /\ UNCHANGED <<project, request>>

\* deleteLabPermanent: the status is checked, then the row deleted whatever
\* it has become.
DeleteLabCheck(q, l) ==
    /\ FreeSlot(q)
    /\ LabExists(l) /\ lab[l].status \in {"DRAFT", "ARCHIVED"}
    /\ request' = [request EXCEPT ![q] =
          [op |-> "removeLab", step |-> "checked", lab |-> l]]
    /\ UNCHANGED <<project, lab>>

DeleteLabCommit(q) ==
    /\ At(q, "removeLab", "checked")
    /\ LabExists(request[q].lab)
    /\ lab' = [lab EXCEPT ![request[q].lab] = [status |-> "deleted"]]
    /\ Answer(q)
    /\ UNCHANGED project

-----------------------------------------------------------------------------
(***************************************************************************)
(* Orchestrator requests on projects.                                      *)
(***************************************************************************)

\* createProject, duplicateProject, importProjectBundle and the compatibility
\* create: a new project, with its labs where it has any.
CreateProject(p, contents, lifecycle, sound) ==
    /\ project[p].status = "absent"
    /\ \A l \in DOMAIN contents : lab[l].status = "absent"
    /\ MaxRevision >= 1
    /\ project' = [project EXCEPT ![p] =
          [status |-> "DRAFT", lifecycle |-> lifecycle, sound |-> sound, revision |-> 1]]
    /\ PutLabs(DOMAIN contents, [l \in DOMAIN contents |->
          [status |-> "DRAFT", project |-> p, content |-> contents[l], revision |-> 1]])
    /\ UNCHANGED request

\* createLab, duplicateLab and importLabBundle.  Only createLab looks at the
\* project's status, before its transaction.
CreateLab(l, p, content) ==
    /\ lab[l].status = "absent"
    /\ CanBump({p}, {})
    /\ lab' = [lab EXCEPT ![l] = [status |-> "DRAFT", project |-> p,
                                  content |-> content, revision |-> 1]]
    /\ project' = [project EXCEPT ![p] = Bumped(@)]
    /\ UNCHANGED request

\* Titles and texts are checked, so an update may repair the project's own
\* fields but not spoil them.
UpdateProject(p, lifecycle, sound) ==
    /\ CanBump({p}, {})
    /\ lifecycle \in OpenLifecycles \cup {project[p].lifecycle}
    /\ project[p].sound => sound
    /\ project' = [project EXCEPT ![p] =
          [Bumped(@) EXCEPT !.lifecycle = lifecycle, !.sound = sound]]
    /\ UNCHANGED <<lab, request>>

ArchiveProject(p) ==
    /\ CanBump({p}, {})
    /\ project' = [project EXCEPT ![p] =
          [Bumped(@) EXCEPT !.status = "ARCHIVED", !.lifecycle = "ARCHIVED"]]
    /\ UNCHANGED <<lab, request>>

\* The status restored from is not looked at.
RestoreProject(p, lifecycle) ==
    /\ CanBump({p}, {})
    /\ lifecycle \in OpenLifecycles
    /\ project' = [project EXCEPT ![p] =
          [Bumped(@) EXCEPT !.status = "DRAFT", !.lifecycle = lifecycle]]
    /\ UNCHANGED <<lab, request>>

DeleteProjectCheck(q, p) ==
    /\ FreeSlot(q)
    /\ ProjectExists(p) /\ project[p].status \in {"DRAFT", "ARCHIVED"}
    /\ request' = [request EXCEPT ![q] =
          [op |-> "removeProject", step |-> "checked", project |-> p]]
    /\ UNCHANGED <<project, lab>>

\* The labs go with the project (onDelete: Cascade).
DeleteProjectCommit(q) ==
    /\ At(q, "removeProject", "checked")
    /\ ProjectExists(request[q].project)
    /\ project' = [project EXCEPT ![request[q].project] = [status |-> "deleted"]]
    /\ PutLabs(LabsOf(request[q].project), [l \in Labs |-> [status |-> "deleted"]])
    /\ Answer(q)

\* reorderProjects: every item matches its revision or none is written.
ReorderProjects(P) ==
    /\ P # {}
    /\ CanBump(P, {})
    /\ PutProjects(P, [p \in P |-> Bumped(project[p])])
    /\ UNCHANGED <<lab, request>>

\* reorderLabs: also all or nothing; the project's revision moves with it.
ReorderLabs(p, L) ==
    /\ L # {} /\ L \subseteq LabsOf(p)
    /\ CanBump({p}, L)
    /\ PutLabs(L, [l \in L |-> Bumped(lab[l])])
    /\ project' = [project EXCEPT ![p] = Bumped(@)]
    /\ UNCHANGED request

\* updateArtifact and deleteArtifact move the revisions of the artifact's old
\* and new project and lab; what validation says of their evidence may change.
\* So it may for X, whose evidence still refers to the artifact, although it was
\* given to another project or lab; a delete by the media routes, which moves no
\* revision at all, changes nothing but X.
EditArtifact(P, L, X, content, sound) ==
    /\ P \cup X # {} /\ Cardinality(P) <= 2 /\ Cardinality(L) <= 2
    /\ CanBump(P, L)
    /\ project' = [p \in Projects |->
          IF p \in P THEN [Bumped(project[p]) EXCEPT !.sound = sound]
          ELSE IF p \in X /\ ProjectExists(p) THEN [project[p] EXCEPT !.sound = sound]
          ELSE project[p]]
    /\ lab' = [l \in Labs |->
          IF l \in L THEN [Bumped(lab[l]) EXCEPT !.content = content]
          ELSE IF l \in X /\ LabExists(l) THEN [lab[l] EXCEPT !.content = content]
          ELSE lab[l]]
    /\ UNCHANGED request

-----------------------------------------------------------------------------
(***************************************************************************)
(* Writers that carry no expected revision.                                *)
(***************************************************************************)

\* Mutant: the child row is written without the lab's revision.
WriteChildSilent(l, content) ==
    /\ LabExists(l)
    /\ lab' = [lab EXCEPT ![l] = [@ EXCEPT !.content = content]]
    /\ UNCHANGED <<project, request>>

\* Inputs, topology, scenarios, runbook and evidence of a lab: the child row
\* and the lab's revision in one transaction.
WriteChild(l, content) ==
    /\ CanBump({}, {l})
    /\ lab' = [lab EXCEPT ![l] = [Bumped(@) EXCEPT !.content = content]]
    /\ UNCHANGED <<project, request>>

\* LabService.update reads the lab, and writes back the status it read.
RewriteLoad(e, l, p) ==
    /\ FreeSlot(e)
    /\ LabExists(l) /\ ProjectExists(p)
    /\ request' = [request EXCEPT ![e] =
          [op |-> "rewrite", step |-> "checked", lab |-> l,
           status |-> lab[l].status, project |-> p]]
    /\ UNCHANGED <<project, lab>>

\* Mutant: the rewrite does not move the lab's revision.
RewriteCommitSilent(e, content) ==
    /\ At(e, "rewrite", "checked")
    /\ LabExists(request[e].lab) /\ ProjectExists(request[e].project)
    /\ lab' = [lab EXCEPT ![request[e].lab] =
          [@ EXCEPT !.status = request[e].status, !.content = content,
                    !.project = request[e].project]]
    /\ Answer(e)
    /\ UNCHANGED project

RewriteCommit(e, content) ==
    /\ At(e, "rewrite", "checked")
    /\ CanBump({}, {request[e].lab})
    /\ ProjectExists(request[e].project)
    /\ lab' = [lab EXCEPT ![request[e].lab] =
          [Bumped(@) EXCEPT !.status = request[e].status, !.content = content,
                            !.project = request[e].project]]
    /\ Answer(e)
    /\ UNCHANGED project

\* LabService.create: the project's revision does not move.
CreateLabUnversioned(l, p, content) ==
    /\ lab[l].status = "absent"
    /\ ProjectExists(p) /\ MaxRevision >= 1
    /\ lab' = [lab EXCEPT ![l] = [status |-> "DRAFT", project |-> p,
                                  content |-> content, revision |-> 1]]
    /\ UNCHANGED <<project, request>>

\* DELETE /api/labs/:id, whatever the lab's status.
DeleteLab(l) ==
    /\ LabExists(l)
    /\ lab' = [lab EXCEPT ![l] = [status |-> "deleted"]]
    /\ UNCHANGED <<project, request>>

\* The lab a compatibility payload goes to: the oldest of its kind that is
\* not archived, or else the oldest archived one.
CompatibilityLabs(p) ==
    LET open == {l \in LabsOf(p) : lab[l].status # "ARCHIVED"}
    IN  IF open # {} THEN open ELSE LabsOf(p)

\* PUT /api/projects/:id writes any lifecycle status; its payload rewrites one
\* lab, or creates one where the project has none of its kind.
UpdateProjectUnversioned(p, lifecycle, sound, L, content) ==
    /\ CanBump({p}, {})
    /\ project' = [project EXCEPT ![p] =
          [Bumped(@) EXCEPT !.lifecycle = lifecycle, !.sound = sound]]
    /\ \/ L = {} /\ UNCHANGED lab
       \/ \E l \in CompatibilityLabs(p) :
             /\ L = {l}
             /\ CanBump({}, L)
             /\ lab' = [lab EXCEPT ![l] = [Bumped(@) EXCEPT !.content = content]]
       \/ \E l \in Labs :
             /\ L = {l}
             /\ lab[l].status = "absent"
             /\ lab' = [lab EXCEPT ![l] = [status |-> "DRAFT", project |-> p,
                                           content |-> content, revision |-> 1]]
    /\ UNCHANGED request

-----------------------------------------------------------------------------
AdminStep(q) ==
    \/ \E p \in Projects, S \in SUBSET Labs : PublishLoad(q, p, S)
    \/ PublishValidate(q) \/ PublishCompare(q) \/ PublishCommit(q)
    \/ \E l \in Labs : ReadyValidate(q, l) \/ UpdateLabLoad(q, l)
    \/ ReadyCommit(q)
    \/ \E content \in Contents : UpdateLabCommit(q, content)
    \/ \E l \in Labs : DeleteLabCheck(q, l)
    \/ DeleteLabCommit(q)
    \/ \E p \in Projects : DeleteProjectCheck(q, p)
    \/ DeleteProjectCommit(q)
    \/ Refuse(q)

EditorStep(e) ==
    \/ \E l \in Labs, p \in Projects : RewriteLoad(e, l, p)
    \/ \E content \in Contents : RewriteCommit(e, content)
    \/ Refuse(e)

ProjectStep ==
    \E p \in Projects, sound \in BOOLEAN, lifecycle \in Lifecycles :
        \/ \E L \in SUBSET Labs : \E contents \in [L -> Contents] :
              CreateProject(p, contents, lifecycle, sound)
        \/ \E L \in SUBSET Labs, content \in Contents :
              UpdateProjectUnversioned(p, lifecycle, sound, L, content)
        \/ UpdateProject(p, lifecycle, sound)
        \/ RestoreProject(p, lifecycle)

ReorderStep ==
    \/ \E p \in Projects : ArchiveProject(p)
    \/ \E P \in SUBSET Projects : ReorderProjects(P)
    \/ \E p \in Projects, L \in SUBSET Labs : ReorderLabs(p, L)
    \/ \E P \in SUBSET Projects, L \in SUBSET Labs, X \in SUBSET Strays,
          content \in Contents, sound \in BOOLEAN : EditArtifact(P, L, X, content, sound)

LabStep ==
    \E l \in Labs :
        \/ ArchiveLab(l) \/ DeleteLab(l)
        \/ \E content \in Contents :
              \/ WriteChild(l, content)
              \/ \E p \in Projects :
                    CreateLab(l, p, content) \/ CreateLabUnversioned(l, p, content)

Next ==
    \/ \E q \in Admins : AdminStep(q)
    \/ \E e \in Editors : EditorStep(e)
    \/ ProjectStep
    \/ ReorderStep
    \/ LabStep

Spec == Init /\ [][Next]_vars

-----------------------------------------------------------------------------
(***************************************************************************)
(* Properties.                                                             *)
(***************************************************************************)

\* Rows and requests have the shape the schema and the handlers give them.
TypeOK ==
    /\ project \in [Projects -> NoRow \cup ProjectRow]
    /\ lab \in [Labs -> NoRow \cup LabRow]
    /\ request \in [Admins \cup Editors -> Request]

\* What validation accepted is still so, but for artifacts that belong elsewhere.
StillFit(l) == lab[l].content \in Fit \/ l \in Strays

\* Revision numbers name states: while a row still has the revision a request
\* expects, what the handler's earlier reads established of it still holds,
\* through every writer of the row and however the requests overlap; only of
\* artifacts that belong elsewhere it may have become wrong.
ValidatedIsCurrent ==
    \A q \in Admins :
        /\ \A step \in {"validated", "compared"} : At(q, "publish", step) =>
              LET p == request[q].project
              IN  /\ (ProjectExists(p) /\ project[p].revision = request[q].revision) =>
                        /\ project[p].lifecycle = "COMPLETED"
                        /\ project[p].status # "ARCHIVED"
                        /\ project[p].sound \/ p \in Strays
                  /\ \A l \in request[q].selected :
                        (LabExists(l) /\ lab[l].revision = request[q].labs[l]) =>
                            /\ lab[l].project = p
                            /\ lab[l].status # "ARCHIVED"
                            /\ StillFit(l)
        /\ At(q, "ready", "checked") =>
              LET l == request[q].lab
              IN  (LabExists(l) /\ lab[l].revision = request[q].revision) =>
                  /\ lab[l].status # "ARCHIVED"
                  /\ StillFit(l)

Release == INSTANCE PortfolioRelease

\* The orchestrator implements PortfolioRelease: each of its split requests has
\* the effect of one atomic step that judges what it releases.
ReleaseSpec == Release!Spec

Turns(row, after, status) == row.status # status /\ after.status = status

\* A project goes public only from DRAFT, completed and with sound fields, and
\* each lab that becomes READY with it holds content validation accepts,
\* unchanged by the publication; at least one does or already was.  What belongs
\* elsewhere may be wrong again (Strays).
PublicationIsValidated ==
    [][\A p \in Projects : Turns(project[p], project'[p], "PUBLISHED") =>
          /\ project[p].status = "DRAFT"
          /\ project[p].lifecycle = "COMPLETED"
          /\ project[p].sound \/ p \in Strays
          /\ \E l \in LabsOf(p) : lab'[l].status = "READY" /\ StillFit(l)
          /\ \A l \in Labs : Turns(lab[l], lab'[l], "READY") =>
                /\ lab[l].project = p /\ StillFit(l)
                /\ lab'[l].content = lab[l].content]_vars
=============================================================================
