-------------------------- MODULE SeedReconciliation --------------------------
(***************************************************************************)
(* The seed of the public baseline (prisma/seed.ts), run once on an empty  *)
(* database and again on what administrators have made of it.  It is one   *)
(* statement after another with no transaction around them: it may die     *)
(* anywhere, meet administrators' requests, or another run of itself.      *)
(*                                                                         *)
(* One category, project, lab and post: a run repeats the same statements  *)
(* for each, and they share no rows.  Of a row's content only counts       *)
(* whether it is what the seed writes.                                     *)
(***************************************************************************)
EXTENDS Naturals, Sequences, FiniteSets, SequencesExt

CONSTANTS
    Seeders,        \* slots for runs of the seed
    LabParts,       \* what follows the lab's row, in order (see NetworkParts)
    ActsBound       \* BOUND: what administrators do

VARIABLES
    titled,         \* titled[t][i]: rows of the tables sought by slug only
    projects,       \* projects[i]: Project rows
    seedLab,        \* the Lab row of the seed's slug
    steps,          \* steps[i]: rows a project's runbook has of one order
    seeder,         \* seeder[s]: a run of the seed
    adminActs,
    seedsMet        \* auxiliary: two runs have overlapped

seedVars == <<titled, projects, seedLab, steps, seeder, adminActs, seedsMet>>

-----------------------------------------------------------------------------
(***************************************************************************)
(* Rows.  The seed gives categories, projects and posts fixed ids; "made"  *)
(* is the id of a row of an administrator, or of an older installation.    *)
(***************************************************************************)
RowIds == {"seed", "made"}
NoId == "no id"

Tables == {"category", "post"}

\* Rows of the seed's slug as the seed writes them, or edited since; renamed,
\* with a slug of no interest.  The legacy slug is that of an older seed.
TitledRow == {"absent", "seeded", "edited", "renamed"}
ProjectRows == TitledRow \cup {"legacy"}
HasSlug == {"seeded", "edited"}

\* What the seed writes of a lab besides its row, by domain.
NetworkParts == <<"source", "topology", "reference", "scenario", "step">>
LinuxParts == <<"source", "topology", "reference", "scenario", "step">>
DevOpsParts == <<"source", "reference", "scenario", "step">>

ASSUME SeedAssumption ==
    /\ IsFiniteSet(Seeders)
    /\ LabParts \in {NetworkParts, LinuxParts, DevOpsParts}
    /\ ActsBound \in Nat

Parts == {"row"} \cup ToSet(LabParts)

\* fresh: the parts that are as the seed writes them; primary: the inputs
\* that are primary, "added" being one of an administrator.
SeedLab == [project: RowIds, fresh: SUBSET Parts,
            primary: SUBSET {"source", "reference", "added"}]
NoSeedLab == [project |-> NoId]

Holders(t) == {i \in RowIds : titled[t][i] \in HasSlug}
Canonical == {i \in RowIds : projects[i] \in HasSlug}
Legacy == {i \in RowIds : projects[i] = "legacy"}

\* The public baseline.
Baseline ==
    /\ \A t \in Tables : \E i \in RowIds : titled[t][i] = "seeded"
    /\ Legacy = {}
    /\ \E i \in RowIds :
          /\ projects[i] = "seeded"
          /\ steps[i] >= 1
          /\ seedLab # NoSeedLab /\ seedLab.project = i
    /\ seedLab.fresh = Parts
    /\ seedLab.primary \ {"added"} = {"source"}

\* What makes the seed give up rather than merge: an id of its own that stands
\* under another slug, or two projects to choose from.
Unmergeable ==
    \/ \E t \in Tables : titled[t]["seed"] = "renamed" /\ Holders(t) = {}
    \/ projects["seed"] = "renamed" /\ Canonical \cup Legacy = {}
    \/ Canonical # {} /\ Legacy # {}

-----------------------------------------------------------------------------
(***************************************************************************)
(* A run.                                                                  *)
(***************************************************************************)
RunSteps == {"idle", "category", "canonical", "legacy", "project", "lab", "parts",
             "find step", "write step", "post", "done", "failed"}

\* category, lab: whether those it upserted are still there, the category under
\* its slug; canonical: what the first of two reads found; next: the lab's part
\* it writes next.  Auxiliary: met, somebody wrote meanwhile; steady, the
\* baseline stood when it began.
SeedRun == [at: RunSteps, category: {"there", "renamed", "gone"},
            canonical: RowIds \cup {NoId}, project: RowIds \cup {NoId},
            lab: BOOLEAN, next: 1..5, step: {"none", "found", "lost"},
            met: BOOLEAN, steady: BOOLEAN]

NoRun == [at |-> "idle", category |-> "there", canonical |-> NoId, project |-> NoId,
          lab |-> FALSE, next |-> 1, step |-> "none", met |-> FALSE, steady |-> FALSE]

Running(s) == seeder[s].at \notin {"idle", "done", "failed"}

SeedTypeOK ==
    /\ titled \in [Tables -> [RowIds -> TitledRow]]
    /\ projects \in [RowIds -> ProjectRows]
    /\ seedLab \in SeedLab \cup {NoSeedLab}
    /\ steps \in [RowIds -> 0..Cardinality(Seeders)]
    /\ seeder \in [Seeders -> SeedRun]
    /\ adminActs \in 0..ActsBound
    /\ seedsMet \in BOOLEAN

\* An empty database, or one of an older seed.
SeedInit ==
    /\ titled = [t \in Tables |-> [i \in RowIds |-> "absent"]]
    /\ \E old \in {"absent", "legacy"} :
          projects = [i \in RowIds |-> IF i = "made" THEN old ELSE "absent"]
    /\ seedLab = NoSeedLab
    /\ steps = [i \in RowIds |-> 0]
    /\ seeder = [s \in Seeders |-> NoRun]
    /\ adminActs = 0
    /\ seedsMet = FALSE

-----------------------------------------------------------------------------
SeedAt(s, step) == seeder[s].at = step

\* The run goes on to r; the others have met a statement that wrote.
Proceeds(s, r) == seeder' = [seeder EXCEPT ![s] = r]
Writes(s, r) ==
    seeder' = [x \in Seeders |->
        IF x = s THEN r ELSE IF seeder[x] = NoRun THEN NoRun ELSE [seeder[x] EXCEPT !.met = TRUE]]

SeedFails(s) ==
    /\ Proceeds(s, [seeder[s] EXCEPT !.at = "failed"])
    /\ UNCHANGED <<titled, projects, seedLab, steps, adminActs, seedsMet>>

SeedBegins(s) ==
    /\ ~Running(s)
    /\ Proceeds(s, [NoRun EXCEPT !.at = "category", !.steady = Baseline])
    /\ seedsMet' = (seedsMet \/ \E x \in Seeders \ {s} : Running(x))
    /\ UNCHANGED <<titled, projects, seedLab, steps, adminActs>>

\* The process ends, or the database does not answer: as if it failed, but
\* whoever runs it again need not know why.
SeedDies(s) ==
    /\ Running(s)
    /\ Proceeds(s, NoRun)
    /\ UNCHANGED <<titled, projects, seedLab, steps, adminActs, seedsMet>>

\* An upsert by slug whose insert brings the seed's id.
\* Mutant: the row of the seed's id, under whichever slug.
UpsertById(t) == titled[t]["seed"] # "absent"
UpsertUpdates(t) == Holders(t) # {}

\* What a run writes into a category that was renamed is not the baseline.
Written(s) == IF seeder[s].category = "there" THEN "seeded" ELSE "edited"

UpsertTitled(s, t, r) ==
    LET ids == IF UpsertUpdates(t) THEN Holders(t) ELSE {"seed"}
        written == /\ UpsertUpdates(t) \/ titled[t]["seed"] = "absent"
                   /\ seeder[s].category # "gone"
    IN
    \/ /\ written
       /\ titled' = [titled EXCEPT ![t] =
             [i \in RowIds |-> IF i \in ids THEN Written(s) ELSE titled[t][i]]]
       /\ Writes(s, r)
       /\ UNCHANGED <<projects, seedLab, steps, adminActs, seedsMet>>
    \/ ~written /\ SeedFails(s)

UpsertCategory(s) ==
    SeedAt(s, "category") /\ UpsertTitled(s, "category", [seeder[s] EXCEPT !.at = "canonical"])

\* findProjectForReconciliation: two reads.
Found(ids) == IF ids = {} THEN NoId ELSE CHOOSE i \in ids : TRUE

FindCanonical(s) ==
    /\ SeedAt(s, "canonical")
    /\ Proceeds(s, [seeder[s] EXCEPT !.at = "legacy", !.canonical = Found(Canonical)])
    /\ UNCHANGED <<titled, projects, seedLab, steps, adminActs, seedsMet>>

\* Mutant: projects of the older seed are not looked for.
LegacyIgnored == {}
LegacyFound == Legacy

FindLegacy(s) ==
    LET canonical == seeder[s].canonical
        legacy == Found(LegacyFound)
    IN
    /\ SeedAt(s, "legacy")
    /\ \/ /\ canonical = NoId \/ legacy \in {NoId, canonical}
          /\ Proceeds(s, [seeder[s] EXCEPT !.at = "project", !.canonical = NoId,
                            !.project = IF canonical # NoId THEN canonical ELSE legacy])
          /\ UNCHANGED <<titled, projects, seedLab, steps, adminActs, seedsMet>>
       \/ /\ canonical # NoId /\ legacy \notin {NoId, canonical}
          /\ SeedFails(s)

\* An update by id, which gives back the canonical slug, or an insert with
\* the seed's id; either fails if the slug is another's by now.
UpsertProject(s) ==
    LET found == seeder[s].project
        id == IF found = NoId THEN "seed" ELSE found
        written == /\ Canonical \subseteq {id}
                   /\ found = NoId <=> projects[id] = "absent"
                   /\ seeder[s].category # "gone"
    IN
    /\ SeedAt(s, "project")
    /\ \/ /\ written
          /\ projects' = [projects EXCEPT ![id] = Written(s)]
          /\ Writes(s, [seeder[s] EXCEPT !.at = "lab", !.project = id])
          /\ UNCHANGED <<titled, seedLab, steps, adminActs, seedsMet>>
       \/ ~written /\ SeedFails(s)

\* An upsert by slug; a lab of another project is brought back.
UpsertLab(s) ==
    LET p == seeder[s].project IN
    /\ SeedAt(s, "lab")
    /\ \/ /\ projects[p] # "absent"
          /\ seedLab' = IF seedLab = NoSeedLab
                        THEN [project |-> p, fresh |-> {"row"}, primary |-> {}]
                        ELSE [seedLab EXCEPT !.project = p, !.fresh = @ \cup {"row"}]
          /\ Writes(s, [seeder[s] EXCEPT !.at = "parts", !.lab = TRUE, !.next = 1])
          /\ UNCHANGED <<titled, projects, steps, adminActs, seedsMet>>
       \/ projects[p] = "absent" /\ SeedFails(s)

\* The primary input of an administrator stays primary, too.
PrimaryAfter(part) ==
    CASE part = "source" -> seedLab.primary \cup {"source"}
      [] part = "reference" -> seedLab.primary \ {"reference"}
      [] OTHER -> seedLab.primary

Advanced(s) ==
    IF seeder[s].next = Len(LabParts)
    THEN [seeder[s] EXCEPT !.at = "find step", !.next = 1]
    ELSE [seeder[s] EXCEPT !.next = @ + 1]

SeedPart(s, part) ==
    /\ SeedAt(s, "parts")
    /\ LabParts[seeder[s].next] = part
    /\ seeder[s].lab
    /\ seedLab' = [seedLab EXCEPT !.fresh = @ \cup {part}, !.primary = PrimaryAfter(part)]
    /\ Writes(s, Advanced(s))
    /\ UNCHANGED <<titled, projects, steps, adminActs, seedsMet>>

SeedSource(s) == SeedPart(s, "source")
\* One transaction: upserts what is the seed's, deletes what is not.
SeedTopology(s) == SeedPart(s, "topology")
SeedReferences(s) == SeedPart(s, "reference")
SeedScenarios(s) == SeedPart(s, "scenario")
SeedLabRunbook(s) == SeedPart(s, "step")

\* The lab went: a statement for it fails, or writes to a lab that has another
\* slug by now and is not followed any more.
SeedPartElsewhere(s) ==
    /\ SeedAt(s, "parts")
    /\ ~seeder[s].lab
    /\ \/ SeedFails(s)
       \/ /\ Proceeds(s, Advanced(s))
          /\ UNCHANGED <<titled, projects, seedLab, steps, adminActs, seedsMet>>

\* upsertRunbook: a read and a write, and no index on a project's orders.
\* Bound: as many rows of one order as slots.
FindStep(s) ==
    /\ SeedAt(s, "find step")
    /\ Proceeds(s, [seeder[s] EXCEPT !.at = "write step",
                      !.step = IF steps[seeder[s].project] > 0 THEN "found" ELSE "none"])
    /\ UNCHANGED <<titled, projects, seedLab, steps, adminActs, seedsMet>>

StepMissing(s) == seeder[s].step = "none"

WriteStep(s) ==
    LET p == seeder[s].project
        written == IF StepMissing(s) THEN projects[p] # "absent" ELSE seeder[s].step = "found"
    IN
    /\ SeedAt(s, "write step")
    /\ \/ /\ written
          /\ steps' = IF StepMissing(s) /\ steps[p] < Cardinality(Seeders)
                      THEN [steps EXCEPT ![p] = @ + 1] ELSE steps
          /\ Writes(s, [seeder[s] EXCEPT !.at = "post", !.step = "none"])
          /\ UNCHANGED <<titled, projects, seedLab, adminActs, seedsMet>>
       \/ ~written /\ SeedFails(s)

\* Posts are upserted like categories; certifications, skills and tracks, which
\* follow, by the key they are inserted with, so that nothing is in the way.
UpsertPost(s) ==
    SeedAt(s, "post") /\ UpsertTitled(s, "post", [NoRun EXCEPT !.at = "done",
                        !.met = seeder[s].met, !.steady = seeder[s].steady])

SeedStep(s) ==
    \/ UpsertCategory(s) \/ FindCanonical(s) \/ FindLegacy(s) \/ UpsertProject(s)
    \/ UpsertLab(s) \/ SeedSource(s) \/ SeedTopology(s) \/ SeedReferences(s)
    \/ SeedScenarios(s) \/ SeedLabRunbook(s) \/ SeedPartElsewhere(s)
    \/ FindStep(s) \/ WriteStep(s) \/ UpsertPost(s)

-----------------------------------------------------------------------------
(***************************************************************************)
(* Administrators.                                                         *)
(***************************************************************************)
AdminActs ==
    /\ adminActs < ActsBound
    /\ adminActs' = adminActs + 1
    /\ UNCHANGED seedsMet

\* What administrators do is met by every run; Now(r) is a run r that has lost
\* what it relied on.
Meets(Now(_)) ==
    seeder' = [x \in Seeders |->
        IF seeder[x] = NoRun THEN NoRun ELSE [Now(seeder[x]) EXCEPT !.met = TRUE]]
AsBefore(r) == r

\* Created with the seed's slug, edited, or, posts only, deleted.
ChangeTitled(t, i) ==
    /\ AdminActs
    /\ \/ /\ i = "made" /\ titled[t][i] = "absent" /\ Holders(t) = {}
          /\ titled' = [titled EXCEPT ![t][i] = "edited"]
       \/ /\ titled[t][i] = "seeded"
          /\ titled' = [titled EXCEPT ![t][i] = "edited"]
       \/ /\ t = "post" /\ titled[t][i] # "absent"
          /\ titled' = [titled EXCEPT ![t][i] = "absent"]
       \/ /\ t = "post" /\ i = "seed" /\ titled[t][i] \in HasSlug
          /\ titled' = [titled EXCEPT ![t][i] = "renamed"]
    /\ Meets(AsBefore)
    /\ UNCHANGED <<projects, seedLab, steps>>

Edited(row) == IF row = "seeded" THEN "edited" ELSE row

\* What is in a renamed category is not the baseline any more; a category that
\* has projects or posts is not deleted.
CategoryGoes(i) ==
    LET row == titled["category"][i]
        renamed == IF i = "seed" THEN "renamed" ELSE "absent"
        posts == titled["post"]
    IN
    /\ AdminActs
    /\ row # "absent"
    /\ \/ /\ row \in HasSlug
          /\ titled' = [titled EXCEPT !["category"][i] = renamed,
                                      !["post"] = [j \in RowIds |-> Edited(posts[j])]]
          /\ projects' = [j \in RowIds |-> Edited(projects[j])]
          /\ Meets(LAMBDA r : [r EXCEPT !.category = IF r.at = "category" THEN @ ELSE "renamed"])
       \/ /\ row = "renamed" \/ \A j \in RowIds : "seeded" \notin {projects[j], posts[j]}
          /\ titled' = [titled EXCEPT !["category"][i] = "absent"]
          /\ Meets(LAMBDA r : [r EXCEPT !.category = IF r.at = "category" THEN @ ELSE "gone"])
          /\ UNCHANGED projects
    /\ UNCHANGED <<seedLab, steps>>

\* Created, edited, archived, renamed: also to the slug of the older seed.
ChangeProject(i) ==
    /\ AdminActs
    /\ \E row \in {"edited", "renamed", "legacy"} \ {projects[i]} :
          /\ projects[i] = "absent" =>
                /\ i = "made"
                /\ \A s \in Seeders : "made" \notin {seeder[s].project, seeder[s].canonical}
          /\ row \in HasSlug => Canonical \subseteq {i}
          /\ row = "legacy" => Legacy \subseteq {i}
          /\ projects' = [projects EXCEPT ![i] = row]
    /\ Meets(AsBefore)
    /\ UNCHANGED <<titled, seedLab, steps>>

\* Its labs and its runbook go with it.
DeleteSeeded(i) ==
    /\ AdminActs
    /\ projects[i] # "absent"
    /\ projects' = [projects EXCEPT ![i] = "absent"]
    /\ steps' = [steps EXCEPT ![i] = 0]
    /\ seedLab' = IF seedLab.project = i THEN NoSeedLab ELSE seedLab
    /\ Meets(LAMBDA r : [r EXCEPT !.lab = @ /\ seedLab.project # i,
                          !.step = IF r.project = i /\ @ = "found" THEN "lost" ELSE @])
    /\ UNCHANGED titled

\* A part is edited or deleted, the lab moved to another project, or another
\* input made primary after the seed's no longer is.
EditSeedLab ==
    /\ AdminActs
    /\ seedLab # NoSeedLab
    /\ \/ \E part \in seedLab.fresh : seedLab' = [seedLab EXCEPT !.fresh = @ \ {part}]
       \/ \E i \in RowIds \ {seedLab.project} :
             /\ projects[i] # "absent"
             /\ seedLab' = [seedLab EXCEPT !.project = i]
       \/ \E input \in {"reference", "added"} \ seedLab.primary :
             seedLab' = [seedLab EXCEPT !.primary = {input}, !.fresh = @ \ {"source"}]
    /\ Meets(AsBefore)
    /\ UNCHANGED <<titled, projects, steps>>

\* Deleted, or renamed and left alone by the seed from then on.
SeedLabGoes ==
    /\ AdminActs
    /\ seedLab # NoSeedLab
    /\ seedLab' = NoSeedLab
    /\ Meets(LAMBDA r : [r EXCEPT !.lab = FALSE])
    /\ UNCHANGED <<titled, projects, steps>>

AdminStep ==
    \/ \E i \in RowIds : \/ \E t \in Tables : ChangeTitled(t, i)
                         \/ CategoryGoes(i) \/ ChangeProject(i) \/ DeleteSeeded(i)
    \/ EditSeedLab \/ SeedLabGoes

SeedNext ==
    \/ \E s \in Seeders : SeedBegins(s) \/ SeedStep(s) \/ SeedDies(s)
    \/ AdminStep

SeedSpec == SeedInit /\ [][SeedNext]_seedVars

-----------------------------------------------------------------------------
(***************************************************************************)
(* Properties.  A run is alone if nobody else wrote while it ran; what was *)
(* written before it, also by a run that died anywhere, does not matter.   *)
(***************************************************************************)

\* A run that was alone and came to its end leaves the baseline, whatever it
\* found.
RunsConverge ==
    \A s \in Seeders : SeedAt(s, "done") /\ ~seeder[s].met =>
        Baseline

\* A run that was alone gives up only where it would have to merge rows.
FailureIsRefusal ==
    \A s \in Seeders : SeedAt(s, "failed") /\ ~seeder[s].met => Unmergeable

\* A run over the baseline that is alone keeps it, after every statement.
RerunKeepsBaseline ==
    \A s \in Seeders : seeder[s].steady /\ ~seeder[s].met => Baseline

\* No step of a project's runbook is there twice unless runs overlapped.
StepsAreSingle == seedsMet \/ \A i \in RowIds : steps[i] <= 1

SeedConverges ==
    RunsConverge /\ FailureIsRefusal /\ RerunKeepsBaseline /\ StepsAreSingle
=============================================================================
