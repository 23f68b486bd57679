----------------------------- MODULE LabDomains -----------------------------
(***************************************************************************)
(* The domain of categories, projects and labs, and the kind and the input *)
(* types that follow from it.  A category's domain is copied to its        *)
(* projects and a project's to its labs; services compare the copies with  *)
(* reads made earlier than the write, and the repositories' transactions   *)
(* run at READ COMMITTED: a statement sees what was committed before it,   *)
(* and a row a transaction wrote is locked until the transaction commits.  *)
(*                                                                         *)
(* Every domain has one lab kind and its own input types (the registry's   *)
(* types are disjoint), so both are represented by their domain.  Removal  *)
(* of rows is part of PortfolioLifecycle.                                  *)
(***************************************************************************)
EXTENDS FiniteSets

CONSTANTS
    Categories,
    Projects,       \* ids projects may get
    Labs,           \* ids labs may get
    Domains,
    Writers,        \* slots for concurrent administrator requests
    Payloads,       \* kinds of the specialised payloads clients send
    NoKind          \* no specialised payload

ASSUME DomainsAssumption == Payloads \subseteq Domains /\ NoKind \notin Domains

VARIABLES
    category,       \* category[c]: the domain of the Category row
    project,        \* project[p]: the Project row
    lab,            \* lab[l]: the Lab row with the types of its inputs
    writer,         \* writer[w]: what the request in slot w has read
    crossed,        \* auxiliary: requests that read what another one wrote since
    raced           \* auxiliary: whether such a request has written

domainsVars == <<category, project, lab, writer, crossed, raced>>

-----------------------------------------------------------------------------
ProjectRow == [category: Categories, domain: Domains]

\* Auxiliary misfit: made for a payload of another kind than the project's.
LabRow == [project: Projects, domain: Domains, kind: Domains, types: SUBSET Domains,
           misfit: BOOLEAN]

NoProject == [category |-> "absent"]
NoLab == [project |-> "absent"]

Waiting == [op |-> "idle"]

CategoryWriter ==
    [op: {"category read"}, category: Categories, domain: Domains, old: Domains]
    \cup [op: {"category written", "category checked"}, category: Categories,
          domain: Domains, ids: SUBSET Projects, rows: SUBSET Projects]

ProjectWriter ==
    [op: {"create project"}, project: Projects, category: Categories, domain: Domains,
     kind: Payloads \cup {NoKind}]
    \cup [op: {"project read", "project checked"}, project: Projects, sent: BOOLEAN,
          category: Categories, domain: Domains, old: Domains, kind: Payloads \cup {NoKind}]

LabWriter ==
    [op: {"create lab", "lab moved", "write lab"}, lab: Labs, project: Projects,
     domain: Domains]
    \cup [op: {"lab read"}, lab: Labs, from: Projects, project: Projects]
    \cup [op: {"write input"}, lab: Labs, type: Domains]

Writer == {Waiting} \cup CategoryWriter \cup ProjectWriter \cup LabWriter

DomainsTypeOK ==
    /\ category \in [Categories -> Domains]
    /\ project \in [Projects -> ProjectRow \cup {NoProject}]
    /\ lab \in [Labs -> LabRow \cup {NoLab}]
    /\ writer \in [Writers -> Writer]
    /\ crossed \subseteq Writers
    /\ raced \in BOOLEAN

HasProject(p) == project[p] # NoProject
HasLab(l) == lab[l] # NoLab
ProjectsOf(c) == {p \in Projects : HasProject(p) /\ project[p].category = c}
LabsIn(P) == {l \in Labs : HasLab(l) /\ lab[l].project \in P}

DomainsInit ==
    /\ category \in [Categories -> Domains]
    /\ project = [p \in Projects |-> NoProject]
    /\ lab = [l \in Labs |-> NoLab]
    /\ writer = [w \in Writers |-> Waiting]
    /\ crossed = {}
    /\ raced = FALSE

-----------------------------------------------------------------------------
(***************************************************************************)
(* Steps of a request.                                                     *)
(***************************************************************************)
In(w, op) == writer[w].op = op

Reads(w, r) ==
    /\ writer' = [writer EXCEPT ![w] = r]
    /\ UNCHANGED <<category, project, lab, crossed, raced>>

Begins(w, r) == In(w, "idle") /\ Reads(w, r)

\* What a request's write depends on.
Reach(w) ==
    LET r == writer[w] IN
    IF r \in CategoryWriter
    THEN {r.category} \cup ProjectsOf(r.category) \cup LabsIn(ProjectsOf(r.category))
    ELSE IF r \in ProjectWriter THEN {r.category, r.project} \cup LabsIn({r.project})
    ELSE IF r \in LabWriter THEN {r.lab} \cup (IF "project" \in DOMAIN r THEN {r.project} ELSE {})
    ELSE {}

\* The request answers after writing rows, or rows of them.
Answers(w, rows) ==
    /\ writer' = [writer EXCEPT ![w] = Waiting]
    /\ crossed' = (crossed \ {w}) \cup {v \in Writers \ {w} : Reach(v) \cap rows # {}}
    /\ raced' = (raced \/ w \in crossed)

\* A conflict, a field that is refused, a statement that fails.
Refused(w) ==
    /\ ~In(w, "idle")
    /\ writer' = [writer EXCEPT ![w] = Waiting]
    /\ crossed' = crossed \ {w}
    /\ UNCHANGED <<category, project, lab, raced>>

\* Rows a transaction has written and not committed yet.
CategoryLocked(c) ==
    \E w \in Writers : writer[w] \in CategoryWriter /\ ~In(w, "category read")
                       /\ writer[w].category = c
ProjectLocked(p) ==
    \E w \in Writers : \/ In(w, "category checked") /\ p \in writer[w].rows
                       \/ In(w, "project checked") /\ writer[w].project = p

-----------------------------------------------------------------------------
(***************************************************************************)
(* Category update: reads, writes the category, lists its projects, writes *)
(* their domain, looks for a lab of another kind, writes the labs' domain. *)
(***************************************************************************)
CategoryRead(w, c, d) ==
    Begins(w, [op |-> "category read", category |-> c, domain |-> d, old |-> category[c]])

CategoryWrite(w) ==
    LET r == writer[w] IN
    /\ In(w, "category read")
    /\ r.domain # r.old
    /\ ~CategoryLocked(r.category)
    /\ Reads(w, [op |-> "category written", category |-> r.category,
                 domain |-> r.domain, ids |-> ProjectsOf(r.category), rows |-> {}])

\* The cascade is left out if the domain was the same when it was read.
CategoryKeep(w) ==
    LET r == writer[w] IN
    /\ In(w, "category read")
    /\ r.domain = r.old
    /\ ~CategoryLocked(r.category)
    /\ category' = [category EXCEPT ![r.category] = r.domain]
    /\ UNCHANGED <<project, lab>>
    /\ Answers(w, Reach(w))

\* Mutant: labs of any kind follow.
AnyKind(labs, d) == TRUE
NoOtherKind(labs, d) == \A l \in labs : lab[l].kind = d

CategoryCheck(w) ==
    LET r == writer[w] IN
    /\ In(w, "category written")
    /\ \A p \in ProjectsOf(r.category) : ~ProjectLocked(p)
    /\ NoOtherKind(LabsIn(r.ids), r.domain)
    /\ Reads(w, [r EXCEPT !.op = "category checked", !.rows = ProjectsOf(r.category)])

LabsGet(labs, d) ==
    lab' = [l \in Labs |-> IF l \in labs THEN [lab[l] EXCEPT !.domain = d] ELSE lab[l]]

\* Mutant: the projects keep their domain.
CommitPassingProjects(w) ==
    LET r == writer[w] IN
    /\ In(w, "category checked")
    /\ category' = [category EXCEPT ![r.category] = r.domain]
    /\ UNCHANGED project
    /\ LabsGet(LabsIn(r.ids), r.domain)
    /\ Answers(w, Reach(w))
CategoryCommit(w) ==
    LET r == writer[w] IN
    /\ In(w, "category checked")
    /\ category' = [category EXCEPT ![r.category] = r.domain]
    /\ project' = [p \in Projects |->
                     IF p \in r.rows THEN [project[p] EXCEPT !.domain = r.domain]
                     ELSE project[p]]
    /\ LabsGet(LabsIn(r.ids), r.domain)
    /\ Answers(w, Reach(w))

-----------------------------------------------------------------------------
(***************************************************************************)
(* Project create and update with the specialised payload of older clients.*)
(***************************************************************************)
ProjectCreateRead(w, p, c, k) ==
    /\ ~HasProject(p)
    /\ \A v \in Writers : ~(In(v, "create project") /\ writer[v].project = p)
    /\ Begins(w, [op |-> "create project", project |-> p, category |-> c,
                  domain |-> category[c], kind |-> k])

NewLab(p, d, k) ==
    [project |-> p, domain |-> d, kind |-> k, types |-> {k}, misfit |-> k # d]

\* ensureCompatibilityInput: the lab of the payload's kind gets an input of
\* its type, or a lab is created for it, whatever the project's domain is.
\* Mutant: also without a payload.
PayloadAlways(p, d, k, labs) ==
    \E l \in Labs : ~HasLab(l) /\ lab' = [labs EXCEPT ![l] = NewLab(p, d, k)]
PayloadApplied(p, d, k, labs) ==
    \/ k = NoKind /\ lab' = labs
    \/ /\ k # NoKind
       /\ \E l \in LabsIn({p}) :
             /\ lab[l].kind = k
             /\ lab' = [labs EXCEPT ![l].types = @ \cup {k}]
    \/ /\ k # NoKind
       /\ ~ \E l \in LabsIn({p}) : lab[l].kind = k
       /\ \E l \in Labs : ~HasLab(l) /\ lab' = [labs EXCEPT ![l] = NewLab(p, d, k)]

ProjectInsert(w) ==
    LET r == writer[w] IN
    /\ In(w, "create project")
    /\ project' = [project EXCEPT ![r.project] =
                     [category |-> r.category, domain |-> r.domain]]
    /\ PayloadApplied(r.project, r.domain, r.kind, lab)
    /\ UNCHANGED category
    /\ Answers(w, Reach(w))

\* With a category in the request its domain is taken; without, the project's
\* own must be that of its category.
ProjectRead(w, p, c, sent, k) ==
    /\ HasProject(p)
    /\ sent \/ k # NoKind
    /\ ~sent => c = project[p].category /\ category[c] = project[p].domain
    /\ Begins(w, [op |-> "project read", project |-> p, sent |-> sent, category |-> c,
                  domain |-> category[c], old |-> project[p].domain, kind |-> k])

\* The row is written, then a changed domain must be that of every lab.
ProjectCheck(w) ==
    LET r == writer[w] IN
    /\ In(w, "project read")
    /\ ~ProjectLocked(r.project)
    /\ r.domain = r.old \/ NoOtherKind(LabsIn({r.project}), r.domain)
    /\ Reads(w, [r EXCEPT !.op = "project checked"])

ProjectCommit(w) ==
    LET r == writer[w]
        cascade == IF r.domain = r.old THEN {} ELSE LabsIn({r.project})
    IN
    /\ In(w, "project checked")
    /\ project' = IF r.sent
                  THEN [project EXCEPT ![r.project] =
                          [category |-> r.category, domain |-> r.domain]]
                  ELSE project
    /\ PayloadApplied(r.project, r.domain, r.kind,
                      [l \in Labs |-> IF l \in cascade THEN [lab[l] EXCEPT !.domain = r.domain]
                                      ELSE lab[l]])
    /\ UNCHANGED category
    /\ Answers(w, Reach(w))

-----------------------------------------------------------------------------
(***************************************************************************)
(* Labs and their inputs.                                                  *)
(***************************************************************************)
LabCreateRead(w, l, p) ==
    /\ ~HasLab(l) /\ HasProject(p)
    /\ \A v \in Writers : ~(In(v, "create lab") /\ writer[v].lab = l)
    /\ Begins(w, [op |-> "create lab", lab |-> l, project |-> p,
                  domain |-> project[p].domain])

LabInsert(w) ==
    LET r == writer[w] IN
    /\ In(w, "create lab")
    /\ ~HasLab(r.lab)
    /\ lab' = [lab EXCEPT ![r.lab] =
                 [project |-> r.project, domain |-> r.domain, kind |-> r.domain, types |-> {},
                  misfit |-> FALSE]]
    /\ UNCHANGED <<category, project>>
    /\ Answers(w, {r.lab, r.project})

LabRead(w, l, p) ==
    /\ HasLab(l)
    /\ Begins(w, [op |-> "lab read", lab |-> l, from |-> lab[l].project, project |-> p])

\* requireProject and validateLabInput: domain and kind must be the project's.
LabReadProject(w) ==
    LET r == writer[w] IN
    /\ In(w, "lab read")
    /\ HasProject(r.project)
    /\ Reads(w, [op |-> IF r.project = r.from THEN "write lab" ELSE "lab moved",
                 lab |-> r.lab, project |-> r.project,
                 domain |-> project[r.project].domain])

\* assertAggregateCompatibility, when the lab goes to another project.
\* Mutant: the inputs are not looked at.
LabMovedAnyway(w) ==
    /\ In(w, "lab moved")
    /\ Reads(w, [writer[w] EXCEPT !.op = "write lab"])
LabCompatible(w) ==
    LET r == writer[w] IN
    /\ In(w, "lab moved")
    /\ lab[r.lab].types \subseteq {r.domain}
    /\ Reads(w, [r EXCEPT !.op = "write lab"])

LabWrite(w) ==
    LET r == writer[w] IN
    /\ In(w, "write lab")
    /\ lab' = [lab EXCEPT ![r.lab] =
                 [@ EXCEPT !.project = r.project, !.domain = r.domain, !.kind = r.domain]]
    /\ UNCHANGED <<category, project>>
    /\ Answers(w, {r.lab, r.project, lab[r.lab].project})

\* createInput, updateInput: the type must be registered for the lab's domain.
InputRead(w, l) ==
    /\ HasLab(l)
    /\ Begins(w, [op |-> "write input", lab |-> l, type |-> lab[l].domain])

InputWrite(w) ==
    LET r == writer[w] IN
    /\ In(w, "write input")
    /\ lab' = [lab EXCEPT ![r.lab].types = @ \cup {r.type}]
    /\ UNCHANGED <<category, project>>
    /\ Answers(w, {r.lab})

\* deleteInput, or an update of the last input of a type.
InputGoes(w, l, t) ==
    /\ In(w, "idle")
    /\ HasLab(l) /\ t \in lab[l].types
    /\ lab' = [lab EXCEPT ![l].types = @ \ {t}]
    /\ UNCHANGED <<category, project>>
    /\ Answers(w, {l})

-----------------------------------------------------------------------------
CategoryStep(w) ==
    \/ \E c \in Categories, d \in Domains : CategoryRead(w, c, d)
    \/ CategoryWrite(w) \/ CategoryCheck(w) \/ CategoryCommit(w) \/ CategoryKeep(w)

ProjectStep(w) ==
    \/ \E p \in Projects, c \in Categories, k \in Payloads \cup {NoKind} :
          \/ ProjectCreateRead(w, p, c, k)
          \/ \E sent \in BOOLEAN : ProjectRead(w, p, c, sent, k)
    \/ ProjectInsert(w) \/ ProjectCheck(w) \/ ProjectCommit(w)

LabStep(w) ==
    \/ \E l \in Labs, p \in Projects : LabCreateRead(w, l, p) \/ LabRead(w, l, p)
    \/ LabInsert(w) \/ LabReadProject(w) \/ LabCompatible(w) \/ LabWrite(w)
    \/ \E l \in Labs : InputRead(w, l)
    \/ InputWrite(w)
    \/ \E l \in Labs, t \in Domains : InputGoes(w, l, t)

\* Bound: the first write that lost a race ends what is followed.
DomainsNext ==
    /\ ~raced
    /\ \E w \in Writers : CategoryStep(w) \/ ProjectStep(w) \/ LabStep(w) \/ Refused(w)

DomainsSpec == DomainsInit /\ [][DomainsNext]_domainsVars

-----------------------------------------------------------------------------
(***************************************************************************)
(* Properties: they hold until a request writes that read, before, what   *)
(* another one has written since.  Requests on unrelated rows may overlap. *)
(***************************************************************************)

\* A project has its category's domain, whatever is renamed or moved.
ProjectFollowsCategory ==
    raced \/ \A p \in Projects :
        HasProject(p) => project[p].domain = category[project[p].category]

\* A lab has its project's domain and the kind of that domain, through
\* cascades, moves and payloads.
LabFollowsProject ==
    raced \/ \A l \in Labs : HasLab(l) =>
        /\ lab[l].domain = project[lab[l].project].domain
        /\ lab[l].kind = lab[l].domain \/ lab[l].misfit

\* A lab's inputs are of types registered for its domain, also after it was
\* moved to a project of another domain.
InputsRegistered ==
    raced \/ \A l \in Labs :
        HasLab(l) => lab[l].types \subseteq {lab[l].domain} \/ lab[l].misfit

\* The domains of a category, its projects, their labs and the labs' kinds and
\* inputs agree, whatever cascades, moves and payloads did in between.
DomainsAgree == ProjectFollowsCategory /\ LabFollowsProject /\ InputsRegistered
=============================================================================
