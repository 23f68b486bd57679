# Verification of the portfolio platform

TLA+ models of this repository's server (`src/server`, with the Prisma schema
and the seed in `src/prisma`) and of the parts of its web client in which answers
may come in any order (`src/src`), model-checked with TLC, and proofs about them
checked with TLAPS. The models follow the code, not the documents: where the two
disagree, a run shows it, or the text says so (see *Disagreements*).

Contents: [the system](#the-system) · [modules](#modules) ·
[scenario engine](#scenario-engine) · [portfolio lifecycle](#portfolio-lifecycle) ·
[managed artifacts](#managed-artifacts) · [content](#content) ·
[services](#services) · [pages](#pages) · [runs](#runs-and-bounds) ·
[fairness](#fairness) · [proofs](#proofs) · [disagreements](#disagreements) ·
[not modelled](#not-modelled) · [plan](#plan)

## The system

One Express server over one PostgreSQL database, a directory of managed
artifact files, maintenance scripts run on a schedule, a seed and a bootstrap
script run by hand, and a React client. The server keeps no state in memory that
matters: every operation is a handler that alternates awaits on the database with
decisions taken in between. Handlers of different requests interleave at every
await. Transactions run at PostgreSQL's default READ COMMITTED (no
`isolationLevel` is set anywhere). The client's panels each fetch on their own
and write what they show when an answer comes, whichever was asked for first.

| Component | State | Operations | Interacts with | Hard behaviour |
|---|---|---|---|---|
| Scenario engine (`services/scenarios`) | `LabScenarioRuntime`: per session and lab at most one row, its status, actions and verdict | run, verify, remediate, reset; the overlay on every public read | labs and scenarios; the lab service's and the orchestrator's active-runtime check; the cleanup | overlapping requests of a session; verify spans five awaits; edits, resets and archiving between any two of them |
| Scenario mutators | none (pure) | apply an action list to a recorded state, verify its effect | scenario engine, readiness validation, health checks | several actions on one record |
| Portfolio orchestrator (`services/orchestrator`) | `Project` and `Lab` status, lifecycle, revision | create, edit, mark ready, publish, archive, restore, duplicate, reorder, delete | validation, labs, artifacts, runtimes | validation and write are apart; snapshot of many rows; older routes that write without a revision |
| Bundle import/export | none of its own | dry run, import, export | orchestrator | parser and export written apart; slug conflicts; all-or-nothing import |
| Lab platform (`services/labs`) | `Lab` and its inputs, nodes, links, scenarios, runbook, evidence | CRUD of each; manifest | orchestrator (revision), scenario engine (runtime check) | one primary input; topology replacement; stale read written back |
| Content | `Project`, `Category`, `BlogPost`, `Certification`, `Skill` | CRUD | labs through the compatibility payload; categories carry domains | domain of category, project and lab must agree |
| Managed artifacts (`services/media`) | `Artifact` rows and content-addressed files | upload, reference, download, verify, delete, prune | orchestrator, evidence, inputs, cleanup | two stores without a common transaction; deduplication against deletion |
| Administrator sessions (`services/auth`) | `User`, `AuthSession` | login, authenticate, logout, rotate, prune | rate limiting, shutdown | expiry, revocation and rotation between a handler's awaits |
| CSRF protection (`middleware`, `src/lib/api.ts`) | two cookies | mint, check, rotate at login and logout | sessions, the page | the token's header and cookie are taken at different times |
| Rate limiting (`security`) | `RateLimitBucket` | inspect, consume, clear, prune | login, contact, engines | counting under concurrency, window change |
| HTTP server (`runtime`, `server.ts`) | readiness, open connections | start, drain, stop | all | shutdown against requests and its own timeout |
| Scheduled cleanup (`scripts`) | none | delete stale runtimes, sessions, buckets, orphaned files | the above | runs beside live requests |
| Networking, Linux and DevOps engines | none (read-only) | route, ACL and path evaluation; health checks | lab manifests, overlay | route selection, path search, a second read |
| Unified CLI | none | resolve a context, answer a command in it | labs, engines, scenarios | what a context names may go between two reads |
| Web client | React state | console, workspaces, terminal, sign-in | all routes | answers in any order, cancelled effects |
| Seed (`prisma/seed.ts`) | none | reconcile the public baseline | content, labs | no transaction; dies or is run twice; administrators' edits |

What makes each correct:

- *Scenario engine*: a session has one runtime per lab; stages come in order;
  verdicts fit stages; a reset takes effect; stale runtimes go away; canonical
  state does not change below an overlay. *Mutators*: a fault that stands is
  reported and no other; a gateway group is led by one working member.
- *Orchestrator*: nothing becomes public that validation has not accepted in
  exactly that state; archived things stay archived until restored; nothing
  public is deleted. *Bundles*: what is ready travels and arrives as it left.
- *Lab platform and content*: every write moves the revision the orchestrator
  relies on; one primary input; a topology is replaced as a whole; domains agree.
- *Managed artifacts*: a row never outlives its bytes; unreferenced bytes go.
- *Sessions, CSRF, limiter, server*: expired or revoked sessions authenticate
  nobody; a signed-in page's changes are let through; no more than the limit passes
  in a window; an accepted request is answered or the process ends.
- *Engines and CLI*: paths and routes are those the recorded state has; a command
  fails only for what is gone.
- *Web client*: once every answer is in, one project, one lab, one user is shown,
  and nothing waits.
- *Seed*: a run that nobody disturbs leaves the baseline, whatever it found.

## Modules

| Module | What it is |
|---|---|
| `ScenarioEngine` | the runtime table and every request that touches it, split at its awaits |
| `ScenarioLifecycle` | abstract specification: start, remediate, verify, discard |
| `PortfolioLifecycle` | projects and labs, their revisions, and every writer of them |
| `PortfolioRelease` | abstract specification: what may go public, and by which step |
| `ManagedArtifacts` | artifact rows, the files they point at, and everything that creates or removes either |
| `ArtifactStore` | abstract specification: bytes are registered only when stored, and discarded only when unreferenced |
| `LabDomains` | domains, kinds and input types of categories, projects and labs, at READ COMMITTED |
| `LabInputs` | the inputs of a lab, of which one may be primary |
| `LabTopology` | concurrent transactions that replace a lab's topology |
| `BundleExchange` | a lab exported, edited as a file, dry run and imported |
| `ImportSlugs` | the slugs a dry run proposes and an import inserts |
| `SeedReconciliation` | runs of the seed, beside administrators and each other |
| `AdminSessions` | login, requests, logout, rotation, cleanup and the server's shutdown |
| `SessionRegister` | abstract specification: a session opens once, ends once, and admits requests only in between |
| `LoginLimiter` | both limits of the login across a window's end |
| `ScenarioMutations` | what mutations do, what is verified and what health checks report |
| `NetworkPaths` | path search, ACL assessment and route lookup |
| `UnifiedCli` | the CLI's contexts and reads, and the terminal |
| `OrchestratorConsole` | the React state of the orchestrator's console |
| `LabWorkspace` | the lab explorers with their scenario and operations panels |
| `PageSession` | a tab's sign-in, its cookies and CSRF tokens |
| `MCScenarioEngine`, `MCPortfolio`, `MCManagedArtifacts` | instances of the first three for TLC |
| `MCContent` | instances of `LabDomains`, `LabInputs`, `LabTopology`, `BundleExchange`, `ImportSlugs`, `SeedReconciliation` |
| `MCServices` | instances of `AdminSessions`, `LoginLimiter` and, for liveness, `ManagedArtifacts` |
| `MCPages` | instances of `ScenarioMutations`, `NetworkPaths`, `UnifiedCli`, `OrchestratorConsole`, `LabWorkspace`, `PageSession` |
| `ScenarioEngineProofs`, `ScenarioSerialProofs` | proofs for all requests, and for one request at a time |
| `PortfolioProofs`, `PortfolioReleaseProofs` | proofs of the invariant and of the release properties |
| `ManagedArtifactsProofs` | proofs of both regimes below |
| `ContentProofs`, `AccessProofs`, `PagesProofs` | proofs about the modules of `MCContent`, `MCServices` and `MCPages` |

The components of `MCContent`, `MCServices` and `MCPages` share no state, so a
behaviour takes the steps of the one component its initial state picks; what the
others could begin with is pinned, and a type is checked where its component is
followed. One run then asks what each of them promises.

Properties often have a proviso, since the code keeps a promise only as long as
requests do not cross. An auxiliary variable remembers exactly the crossing (it
is named below for each module), so that a property says both what holds and what
is the only way to lose it.

## Scenario engine

`runtimes` is the table `LabScenarioRuntime`; `lab` and `scenario` hold what the
engine reads of `Lab` (public or not, canonical state) and `LabScenario`.
`request[q]` is one HTTP request in progress and holds exactly what the handler
has read so far; each action is the code between two awaits of
`scenario-engine.service.ts`. `run` is `RunPurge`, `RunLoad`,
`RunFindExisting`, `RunValidate`, `RunCreate`; `verify` is `Admit`, `Find`,
and for a runtime no longer ACTIVE `VerifyBaseline`, `VerifyReread`,
`VerifyCompare`, then `VerifyWrite`; `remediate` and `reset` are `Admit`, `Find`,
`RemediateWrite` and `Admit`, `ResetDelete`. `edit` splits an administrator's
canonical write from the runtime count before it (`EditCheck`, then the write).
Writers with no such check are single actions (`ResetLabRuntimes`,
`ArchiveLab`, `SetPublic`, `RewriteCanonical`). `Age` and `Cleanup` model the
24 hour cutoff.

Abstractions. A lab's recorded state is a value of `Canonicals`, and
`scenario-mutators.ts` the constants `Apply` (what an action list does to a
state, outside its domain it throws) and `Confirmed` (whose checks all
pass): the engine tells nothing more of them apart. `updateState`'s lookup and
its update are one step: both go by session and lab, so a row replaced in between is
treated alike, and one deleted in between leaves nothing to write. `aged` stands for `updatedAt` older
than the cutoff; every write of a row clears it. Deleting a lab differs from archiving it only in what can come later, so
`ArchiveLab` covers it. Response bodies are not modelled.

## Portfolio lifecycle

`project` and `lab` are the rows; a project's `sound` and a lab's `content` are
what `portfolio-validation.service.ts` reads of them, and `Fit` the contents in
which it finds no error. `request[q]` is an administrator's request that relies on
an earlier read: publication is `PublishLoad` (the service's checks against the
aggregate), `PublishValidate`, `PublishCompare` (the first statement of the
transaction) and `PublishCommit` (its conditional writes). Marking ready,
editing a lab, and permanent deletion are split in two. Requests whose
write relies on no earlier read are one action each. `Editors` are
`PUT /api/labs/:id` requests, which read the lab and write its status back.

Abstractions. A client's `expectedRevision` is one it has read, hence
never a future one; older ones are refused at the write, so the actions follow
only the current one and `Refuse` stands for every error answer (conflicts,
refused fields, ACTIVE runtimes). Validation reads in several queries; they are one
read here, because a difference between them moves a revision and the commit
refuses it. `PublishCompare` is apart from `PublishCommit` because it locks
nothing; the conditional writes lock what they match until commit, so they and
the commit are one step. `createLab` checks the project's status before its transaction and
duplicates and imports do not check it at all, so `CreateLab` has no such guard.
Ids are cuids and are never reused. Categories and kinds are not part of this
model: `LabDomains` has them.

`Strays` are the rows whose evidence refers to an artifact of another project or
lab. The media routes and `moveArtifact` change such an artifact without moving
the revision of the row whose evidence uses it (`EditArtifact`), so every
property here excepts what validation read of a stray's evidence; nothing else
of it is excepted.

## Managed artifacts

`file[d]` is the object stored under the digest `d` (absent, half written, or
whole; older than the pruning's cutoff or not), `row[a]` the `Artifact` row,
`inputs` and `evidence` the rows referenced by `LabInput` and `Evidence`.
An upload (`registerManaged`) is `UploadBegin`, `StoreOpen`, then either
`StoreFinish`/`StoreFail` (it is copying) or `StoreCompare` (it found the
file), then `CreateRow` or `CreateFail`. `DELETE /api/media/:id` is `DeleteFind`,
`DeleteRow`, `DeleteCount`, `DeleteObject`; the orchestrator's `deleteArtifact` is
`TransactionCheck`, `TransactionDelete`, `TransactionCount`,
`TransactionCommit`, `DeleteObject`. The row's deletion shows at the commit: until
then other statements still count it, and those that need the row wait
(`Locked`). `cleanup-runtime-state.ts` is `PruneBegin` (it reads the keys),
`PruneList`, `PruneStat`, `PruneRemove`, `PruneEnd`, in a process of its own.
`Crash` ends the server's requests and keeps the files.

Abstractions. Requests that fail their checks, or before the copy, change
nothing, so `UploadBegin` starts where they have passed. Copying with
`COPYFILE_EXCL` is an exclusive open and a fill: a copy that fails unlinks by
name, and one whose file was unlinked meanwhile completes into nothing
(`writer`). Temporaries have names of their own which nothing but their upload
reads. Directories stay: `rm` without `recursive` refuses
one. `old` compares with a cutoff fixed when a pruning starts, so `Age` is
disabled during one; it is also disabled for bytes an upload has copied and
not yet registered, as no upload takes 24 hours. `copied` is auxiliary
and remembers whether a row's upload wrote the bytes or found them. A pruner that
dies is not modelled, but `PruneStat` ends it early where `stat` throws.
Downloads and integrity checks only read. The revisions that artifact changes
move are `EditArtifact` of `PortfolioLifecycle`.

Two regimes matter. `ApartSpec` has no upload overlap a pruning or a deletion of
the same bytes; nothing enforces this, and what fails without it is shown by
`artifact_reuse` (a deletion that counted before an upload's insert does the
same). `Spec` without deletions lets uploads and prunings overlap freely, and
then the 24 hours protect whoever wrote the bytes.

## Content

What administrators edit outside the orchestrator's lifecycle, the bundles that
carry it, and the seed.

**`LabDomains`** (`category.`, `project.`, `lab.repository.ts` and their services).
`category[c]`, `project[p]` and `lab[l]` hold the copies of one domain. A request
is split at its statements, because at READ COMMITTED each sees what was
committed before it: a category update is `CategoryRead`, `CategoryWrite` or
`CategoryKeep`, `CategoryCheck`, `CategoryCommit`; a project's `ProjectRead`,
`ProjectCheck`, `ProjectCommit`, with the compatibility payload in the same
transaction (`PayloadApplied`); a lab's `LabRead`, `LabReadProject`, `LabCompatible`,
`LabWrite`. `CategoryLocked` and `ProjectLocked` are the rows a transaction has
written and not committed, which others wait for. Each domain has one kind and
its own input types, so both are represented by the domain. `crossed` holds the requests
whose read was overtaken by another's write, `raced` that one of those has
written: from then on nothing is promised, and nothing more is followed.

**`LabInputs`** (`lab.service.ts`, `ensureCompatibilityInput`). `createInput` and
`updateInput` are a check against the aggregate they read (`InputChecked`) and a
write (`InputWritten`), met by a delete and by the payload's `BaselineWritten`,
which looks at no other input. `inputRaced`: a write over a stale read, or the
payload beside another primary input.

**`LabTopology`** (`replaceTopology`, `lab.repository.ts`). Each delete is a
snapshot (`CollectLinks`, `CollectNodes`) and its effect once the rows it
collected are no longer locked; inserts wait for the rows of an open
transaction in their way; the commit shows everything at once. `beside` holds the
transactions that ran beside each one.

**`BundleExchange`** (`portfolio-bundle.service.ts`, the companion manifest).
`LabContent` is what export, parser, validation and readiness look at: where an
input's bytes are, which are primary, nodes and links, the runbook's orders,
whether a scenario's actions verify, what evidence is public. `Bundle` and
`Companion` write the file, `EditFile` changes one thing of it (`edited`), `Valid`
is the parser with `validateLabBehavior`, `Insertable` and `Inserted` the rows.

**`ImportSlugs`** (`resolveLabSlug`). The dry run looks up one candidate at a time
(`ResolveSlug`) and the import inserts all labs or none (`ImportInserts`).
`rivalled` are the imports beside which another writer took a slug. Suffixes end
with `Suffixed[s]`; the code goes on for ever.

**`SeedReconciliation`** (`prisma/seed.ts`). One category, project, lab and post,
as the seed repeats the same statements for each and they share no rows; a row is
as the seed writes it, edited, or renamed, under the seed's id or another. One
action per statement, `SeedDies` anywhere; administrators create, edit, rename and
delete what it touches. `met`: somebody wrote during a run; `steady`: the baseline
stood when it began; `seedsMet`: two runs overlapped.

## Services

**`AdminSessions`** (`auth.service.ts`, `bootstrap-admin.ts`, `server.ts`,
`cleanup-runtime-state.ts`). A login is `LoginFind`, `LoginCompare`, `LoginCreate`,
`LoginAnswer`; any other request `CallAuthenticate`, `CallAct`; a logout
`LogoutRevoke`, `LogoutAnswer`. The bootstrap script is `RotateUpsert` and
`RotateRevoke`, or dies between (`RotateDies`). `SessionAges` and `RevocationAges` are
the passing of 7 days each. The server drains (`Shutdown`, `Drained`), or its
timeout closes the connections under handlers that run on (`ForceClose`), then
ends the pool and exits. `connected` are the requests whose connection is open: an answer
without one reaches nobody. A session row remembers the password compared
(`secret`) and whether the account was rotated between that login's read and its
insert (`crossed`); a request whether its session had ended before it arrived (`over`).
`touchSession` changes nothing that is followed. `Register` maps an id
without a row yet to an unborn session, a valid row to an open one and every other to one that
ended; the requests past `authenticateSession` are those admitted.

**`LoginLimiter`** (`rate-limit.service.ts`, `auth.routes.ts`). `attempts` and
`failures` hold the count of the current window and the two before, which is as
long as rows live. A request reads the time before it awaits the statement, so that a
window may pass in between (`age`). `CountAttempt` is the upsert that returns
the count it wrote; `InspectFailures` only reads; `RecordFailure` and
`ClearFailures` come after the comparison. Bound: no statement takes a whole
window, and a count is followed up to the first one refused.

## Pages

**`ScenarioMutations`** (`scenario-mutators.ts`, the three operations services).
`effective` is the clone a read makes of `baseline`, `list` the mutations applied
to it so far: one action per mutation type, `Unfit` where a mutation throws and the read returns
the baseline. `Verified` is `verifyScenarioActions`; `NetworkChecks`, `HostChecks`,
`DeliveryChecks` and `Overall` are `buildHealthChecks` and `overallStatus`.
`Stands(i)` says that no later mutation undid the `i`th.

**`NetworkPaths`** (`tracePath`, `analyzePath`, `lookupRoute`, `assessAcl`). The
search is one action per turn of the loop (`Visit`), then `Unwind`; an analysis
that finds nothing searches again over all links to name what is down (`Blocked`), and reads
the state once more for its route (`Lookup`), before which it may change
(`Edit`; `reread`). `Connected`, `InRange` and `Walks` are the reference definitions
the answers are held against.

**`UnifiedCli`** (`unified-cli.service.ts`, `TerminalEmulator.tsx`). Commands that
read alike are one verb. A call is followed read by read: the list (`ListLabs`),
the manifest of what it names (`FindContext`), the overlay (`ResolveMode`), the
act (`Act`, `ActScenario`) and a second read (`SecondRead`). The terminal's effect
on opening, closing and changing the category cancels the bootstrap in flight
and begins the next (`TerminalEffect`). `disturbed`: a lab or target went while
the call ran; `moved`: the overlay changed.

**`OrchestratorConsole`** (`usePortfolioOrchestrator.ts`). `console` is the hook's
state, `call` what is in flight; every answer writes the state as its `setState`
does, whichever project is wanted by then. Provisos: `readCrossed` (a read and a
change were in flight together), `behind` and `failed` (a load or refresh failed).

**`LabWorkspace`** (`NetworkingLabExplorer.tsx`, `LinuxLabExplorer.tsx`,
`DevOpsLabExplorer.tsx`, the scenario and operations panels). `fetches` are the calls
whose answer would still be let in: `Cancelled` removes what an effect's clean-up
cancels. `rendered` is what the effects last saw. Provisos: `overlapped` (the
user acted while something was in flight), `fetchFailed`.

**`PageSession`** (`api.ts`, `csrf.ts`, `PortfolioContext.tsx`). `jar` holds the
browser's two cookies, `minting` the one request for a token all calls wait for,
`sends` the calls: the header is the cookie's value when the call began, the
cookie sent is the jar's. Elsewhere (`Happens`): expiry of either cookie,
the session's end, rotated secrets, another tab. Provisos: `lapsed` (the session's
cookie ended, the secrets were rotated, or a token asked for under another session
arrived last), `unsure` (requests that sign in or out overlapped, one got no
answer of success, or the session ended or began elsewhere), and per call `sound`,
`caused` and `alone`. `PageRegister` maps the sessions accepted to open, those once
opened to ended; it has no requests, as they are the server's.

## Runs and bounds

Each run is `tlc -config <cfg> <module>`. `CHECK_DEADLOCK FALSE` is used for the
portfolio, the services, the content and the pages: no request or click need
ever come, and ids, revisions and bounds run out.

| Run | Shows | Bound and why it is enough |
|---|---|---|
| `scenario_overlap` | one runtime per session and lab; no start replaces one | one session and lab, two requests, one editor, two starts: the properties speak of one session and lab, and a conflict takes two requests |
| `scenario_serial` | verdicts, VERIFIED by a passing recovery, refinement of `ScenarioLifecycle`; resets take effect, stale runtimes are collected | two sessions, one request slot and an editor: requests of different sessions touch different rows and meet only in the lab, where the editor interferes more than they do; the safety half is proved for any number of requests |
| `portfolio_release` | refinement of `PortfolioRelease` | two labs (one selected, one not), revisions up to 3: created, edited, edited again |
| `portfolio_rewrite` | a matching revision means the validated state, and a project goes public only as validated, also against the editor and artifacts that belong elsewhere | two projects, between which the editor may move the lab; revisions up to 3 |
| `artifact_apart` | no row without its bytes; refinement of `ArtifactStore` | two rows of the same or different bytes, two uploads and two deletions overlapping, one row that may be referenced |
| `artifact_prune` | the pruning spares the bytes of whoever wrote them | three rows and two uploads: one row whose object an earlier one left, one that reuses it |
| `content` | `DomainsAgree`, `OnePrimary`, `TopologyReplaced`, `ExchangeSound`, `UnrivalledImportFits`, `SeedConverges` | two categories, projects and requests and one lab (a cascade needs a project that leaves or joins); three input keys and two requests; three replacements, two of which share a node; every content of two inputs, two nodes and two links, one edit of the file; four bundles of one or two labs with clashing suffixes, two importers; two runs of the seed and one act of an administrator |
| `services` | `OnlyCrossingsSurvive`, `ActsOnlyWithSession`, `PoolEndsUnobserved`, `LimitsHold`; `ServerFinishes` (requests and shutdowns end, rows are collected), `OrphansCollected`; refinement of `SessionRegister` | two passwords, one session id (ids are not reused, each property speaks of one session, and the refinement is proved for any number), two handlers; limits of 3 and 1 with two logins; one digest, two rows, two uploads, one deletion: with more digests every pruning might meet a file removed since its listing and end there |
| `pages` | `FaultsReported`, `GatewayLed`, `AnalysisIsRight`, `AnswerFits`, `NeverStuck`, `FlagsFit`, `ShowsOneProject`, `ShowsOneLab`, `NothingWaits`, `ChangesPass`, `UserFits` | lists of three mutations: one, what undoes it, and one more; four devices, one apart, under every combination of links; two labs, one with a target, one command in flight; two calls of the console, two projects; two user actions and one scenario operation on a workspace; two calls, two sessions, three tokens and two events elsewhere |
| `scenario_remediation`, `scenario_frozen`, `artifact_reuse` | the disagreements below | as small as the counterexample allows |

Bounds on what the code does not bound: `MaxStarts`, `MaxRevision` and `RevisionBound` (revisions
explored), `Ids` and `Attachable` (rows ever created, and referenced), `ListBound`,
`ActsBound`, `ActBound`, `OverlayBound`, `ChangeBound`, `UserBound`, `TokenBound`,
`EventBound` (what users, administrators and browsers do), `Calls`, `CommandSlots`,
`CliVerbs` (calls in flight and verbs entered), `Suffixed` (candidates for a
slug). Those stated in guards: the first lost race ends a behaviour of `LabDomains`,
one edit per file, no edit between two analyses, no statement that takes a whole
window of the limiter.

All digests share one directory (`MCPrefix`), the case in which a listing is stale
for the longest. Sets of labs, sessions, requests, writers, projects and categories are symmetric
where a cfg says so; no liveness run uses symmetry. Two contents (fit, unfit), two
canonical states and two action lists are all the code tells apart.

## Fairness

`Fairness` of `ScenarioEngine` is weak fairness of each request's `Step` (Node
runs every accepted request to its answer; an await always returns or throws) and
of `Cleanup` (`docs/AUTHENTICATION_RUNBOOK.md:89` has the maintenance scripts
scheduled). Arrivals, edits and ageing are not fair. The portfolio, the content
and the pages need no fairness: all their properties are safety.

Managed artifacts: weak fairness of each upload's and deletion's step and of
`PruneStep`, for the same reasons. Strong fairness of `Age` says that time passes
between two prunings; it has to be strong, because every pruning disables it.

`SessionsFairness`: weak fairness of each handler's step, of a shutdown's steps
(`server.close`, its timer and `process.exit`), of the bootstrap script going on
or dying, of each session's ageing, and of the cleanup. Nothing makes requests arrive,
passwords rotate or the server start again. `ServicesSpec` of `MCServices` states
the fairness of the component followed.

`SerialSpec` restricts the engine to one request at a time per session and lab.
`ScenarioControlPanel` disables its buttons while a request is under way
and keeps the session key in the tab's `sessionStorage`; nothing on the server
enforces it, so `OneRuntimePerLab` and `RuntimeKeepsIdentity` are checked and
proved without it, and `scenario_remediation` shows what fails without it.

## Proofs

`tlapm <module>` checks them. A theorem holds for all values of the constants that
satisfy its module's assumption, named below, each of which TLC evaluates in a run.

| Theorem | Module | Argument |
|---|---|---|
| `TypeCorrect` | `ScenarioEngineProofs` | every request holds what its step has read; one step per action |
| `OneRuntime`, `RuntimeIdentity` | `ScenarioEngineProofs` | the insert is guarded by the unique index and never touches another row |
| `VerdictsFit`, `VerifiedRecovery`, `EngineImplementsLifecycle` | `ScenarioSerialProofs` | `SerialInv`: stored verdicts fit, and what a request in flight has judged fits the row it will write as long as that row exists. Verdicts alone are not inductive, as the write happens steps after the judgement. Needs `OneAtATime` and a fresh id per start |
| `EngineAdvances` | `ScenarioEngineProofs` | the safety half of `ResetTakesEffect` and `StaleRuntimesCollected`, without `SerialSpec`: `RequestsAdvance` (`StepsLeft` falls), `ResetsStand` (an admitted reset leaves its step only by the deletion) and `ExpiredStay` (a row that has expired is renewed only by a write of a request of its session and lab, which ends it; needs `OneRuntime`) |
| `TypeCorrect` | `PortfolioProofs` | with `Inv` |
| `SnapshotSound` (`ValidatedIsCurrent`) | `PortfolioProofs` | `Inv`: a request's expected revision is never ahead of the row's, and while equal what was read holds. Every step either leaves a row, deletes it, or raises its revision (`Evolves`), so knowledge persists (`KnowledgePersists`). `ValidatedIsCurrent` alone says nothing of revisions already past and is not inductive |
| `PublishesValidated` | `PortfolioReleaseProofs` | every step is a commit, an editor's write or *quiet* (`StepKinds`); the commit finds the validated revisions |
| `OrchestratorImplementsRelease` | `PortfolioReleaseProofs` | publication maps to `Publish`, readiness to `MarkReady`, quiet steps to `Maintain`; assumes `Editors = {}` and `Strays = {}`, since `PUT /api/labs/:id` and artifacts given elsewhere really break it |
| `TypeCorrect` | `ManagedArtifactsProofs` | helpers typed once (`UploadGoesTyped`, `DeletionGoesTyped`), then one step per action |
| `ApartRowsHaveBytes`, `ArtifactsImplementStore` | `ManagedArtifactsProofs` | under `ApartSpec`, `ApartInv`: stored bytes wait for their row (`InFlight`), what a deletion has counted or a pruning has listed nobody points at (`RemovalSafe`, `PruneSafe`). The rows alone are not inductive, since storing, counting and listing happen steps before they are relied on. `LocksHold` (a transaction keeps its row until it commits) makes the commit a `Withdraw` |
| `ArtifactsAdvance` | `ManagedArtifactsProofs` | the safety half of `OrphansCollected`, in `Spec` with every overlap and crash: `UploadsAdvance` and `DeletionsAdvance` (`StepsLeft` falls), `PruneAdvances` (directories, files or victims left get fewer, in this order), `OldStay` (only the removal ends an object's age) |
| `PruningSparesCopies` | `ManagedArtifactsProofs` | with `Deletions = {}` only, `PruneInv`: copied bytes stay young until their row exists (`YoungCopies`), a pruning that has not seen a row finds its bytes young (`SafeRows`) and removes only old ones (`OldVictim`) |
| `SessionsTypeCorrect`, `RotationEndsSessions`, `ActsWithSession`, `PoolEndsLast` | `AccessProofs` | `SessionsInv`: what a handler has read still fits (`RequestsFit`), no two logins hold one id (`LoginsApart`), tokens handed out have rows, nobody is connected once the server closed (`NobodyWaits`). Rows only fade (`RowsFade`), which keeps what was read (`FitsStay`) |
| `EndedSessionsStayEnded` | `AccessProofs` | an action property: rows fade, and no login reuses an id |
| `SessionsImplementRegister` | `AccessProofs` | `RegisterInv`: `SessionsInv`, and a request about to be authenticated presents a token some client was given (`TokensGiven`). The insert maps to the opening, the last thing that makes a row invalid to its end, the rotation's revocation to all ends at once, `authenticateSession` to the admission; what changes a row that had ended, and everything the server does to connections, to a stutter |
| `SessionsAdvance` | `AccessProofs` | the safety half of `ServerFinishes`: the steps a request has left (`StepsLeft`), the changes a row has left (`ChangesLeft`) and the states a shutdown has left (`StatesLeft`) fall with every step that touches them, whoever takes it. With a step that stays enabled until it is taken, that is why each ends; that part is TLC's |
| `ServicesAreTheirComponents`, `ContentIsItsComponents`, `PagesAreTheirComponents` | `AccessProofs`, `ContentProofs`, `PagesProofs` | a step of the composition is a step of the component followed, or leaves a component's state alone; so the theorems about the components hold of what the runs check |
| `ContentTypeCorrect`, `PagesTypeCorrect` | `ContentProofs`, `PagesProofs` | from the components' own type theorems |
| `LimiterTypeCorrect`, `LoginLimitsHold` | `AccessProofs` | `FailuresInv`: a window's failures and the logins that may still record one (`Pending`, `Late`) are together below the limit plus the number of logins; a step moves a login from the one to the other |
| `InputsTypeCorrect`, `OnePrimaryInput` | `ContentProofs` | `InputsInv`: a request about to make an input primary has read it so and nothing changed since, or is marked |
| `SlugsTypeCorrect`, `ImportFits` | `ContentProofs` | `SlugsInv`: what an import proposes is free and without repetition, unless it is rivalled |
| `ExchangeTypeCorrect`, `LabsTravel` | `ContentProofs` | `ExchangeInv`: the file's shape, and while unedited it is the export. Lists of a set (`SetToSeq`) have each member once (`ListOfSet`), so the counts of parser and readiness agree |
| `TopologyTypeCorrect`, `ReplacedAsAWhole` | `ContentProofs` | `TopologyInv`: a transaction alone has collected and dropped every row there was (`AloneDeletesAll`), keeps its own, and its links have their nodes |
| `DomainsTypeCorrect`, `CopiesOfADomainAgree` | `ContentProofs` | `DomainsInv`: what a request that is not crossed has read still fits (`Fits`). Every action changes only rows in the reach of those it marks (`Frame`), so the others' knowledge stays |
| `SeedTypeCorrect`, `SeedReconciles` | `ContentProofs` | `SeedInv`: after each statement of a run that met nobody, what it has written stands (`AloneRun`); rows of a slug are single, and a step a run is about to add is free while runs have not overlapped |
| `PageTypeCorrect`, `ChangesGoThrough` | `PagesProofs` | `ChangesInv`: the jar fits itself or is `lapsed`, a token on its way fits the jar it was asked under, a sound call's header is its cookie |
| `PageShowsUser` | `PagesProofs` | `UserInv`: of the calls that sign in or out one is in flight, or the page is unsure; before it is handled and after, what is shown and what the jar holds differ by exactly its effect |
| `PageImplementsRegister` | `PagesProofs` | `PageTypeOK` is enough: a login opens a session that never was open, in the place of the one it ends, and whatever else takes a session out of `accepted` ends it |
| `ConsoleTypeCorrect`, `ConsoleFlagsFit`, `ConsoleShowsOneProject` | `PagesProofs` | `ConsoleInv`: the flags cover the calls in flight (`FlagsInv`), and selection, list and report are right or a call that will set them right is under way (`SelectionInv`, `ListInv`, `ReportInv`). At rest nothing is under way |
| `WorkspaceTypeCorrect`, `WorkspaceWaitsForNothing`, `WorkspaceShowsOneLab` | `PagesProofs` | `WorkspaceInv`: whatever waits has its fetch in flight (`WaitingInv`), and what is shown is the selection's or its fetch is coming (`LabInv`) |
| `CliTypeCorrect`, `CliNeverStuck`, `CliAnswersFit` | `PagesProofs` | `CliInv`: a busy terminal has a call in flight whose answer ends it (`KeyFits`, `BusyFits`), and each call undisturbed so far found what it relies on and has the overlay's mode (`CallSound`) |
| `MutationsTypeCorrect`, `GatewayIsLed`, `FaultsAreReported` | `PagesProofs` | `MutationsInv`: each mutation that stands still has its effect (`AllTook`); the group of a read is led (`Leads`), its volumes are as their mounts, a failed pipeline has a failed stage. `AllTook` is stronger than being verified, as a workload's status decides the check and not the verification. The heir of highest priority exists in any finite group (`Highest`: a least counterexample in the well-founded order of numbers) |
| `PathsTypeCorrect`, `AnalysisRight` | `PagesProofs` | `PathsIInv`: with some assignment of distances, what was met is a tree from the source (`Tree`), and the queue holds devices in the order of their distances, at most two of them, while what left it has only neighbours that were met, one step further at most (`Layers`). From an empty queue follows that what was met is closed (`ExhaustedIsClosed`); from the target's place in the queue, that no walk of fewer steps reaches it (`NoShorterWalk`: the first device of the walk that is further than its place). The path put together descends the tree (`Unwound`), and a walk stays in every closed region (`WalkConnects`). The answer alone is not inductive, as it is only given after all of this. `SelectsLongest`: equal quotients are the range of a prefix, and the best of finitely many routes exists |

Assumptions. `EngineAssumption`, `PortfolioAssumption`, `ArtifactAssumption`,
`LimiterAssumption` (finitely many logins, limits above 0), `SessionsAssumption`
(no password is the missing one), `DomainsAssumption` (payloads are of domains),
`InputsAssumption` (the payload's key is a key), `TopologyAssumption`
(`replaceTopology` refuses links to nodes that are not in the request),
`ExchangeAssumption` and `ContentsAssumption` (rows of a database are finitely many,
a lab's link keys unique, a primary input exists), `SlugsAssumption` (the
candidates for a slug begin with it), `SeedAssumption` (the parts are those of one of the
three domains), `PageAssumption`, `ConsoleAssumption`, `WorkspaceAssumption` and `CliAssumption`
(the lab listed first of some is one of them; no name is that of nothing; a lab's
domain is not the root), `MutationsAssumption` (group members, ends of links and
enabled units are devices and units of the lab, the group is finite),
`PathsAssumption` (finitely many devices and links, numbered in the order of their
names, at least one device), `PowersAssumption` (powers of two are positive: a fact of
arithmetic the provers lack, and the only one taken from outside them).

Only model-checked:

- `ResetTakesEffect`, `StaleRuntimesCollected`, `ServerFinishes`, `OrphansCollected`:
  liveness under fairness, out of the prover's reach. What they need besides the
  fairness and the steps being enabled is proved: `EngineAdvances`, `SessionsAdvance`,
  `ArtifactsAdvance`.
- The violations.

`PageRegisterSpec` is the other way round: proved, and part of no run.

## Disagreements

With a run:

| Run | Document | Code |
|---|---|---|
| `scenario_remediation` | `docs/SCENARIO_ENGINE_ARCHITECTURE.md:96` remediation disables the overlay | `verify` writes back the ACTIVE status it read |
| `scenario_frozen` | `docs/ADMIN_ORCHESTRATOR.md:38` canonical changes are blocked | the compatibility payload has no runtime check |
| `artifact_reuse` | `media.service.ts:214` maintenance safely removes unreferenced objects | the table is read once, and reuse does not renew the modification time |

The first needs two requests of one tab at the same time; the counterexamples are
printed by the runs.

Met while modelling, part of the models' behaviours or provisos, without a run of
their own:

- `docs/ADMIN_ORCHESTRATOR.md:32` only the Orchestrator marks READY:
  `lab.service.ts:152` writes back the status it read, so a lab archived meanwhile is READY
  again (`Editors`).
- `docs/ADMIN_ORCHESTRATOR.md:36` publication compares the complete revision
  snapshot: an artifact deleted by the media routes or given to another project
  changes evidence of rows whose revision does not move (`Strays`;
  `portfolio-orchestrator.repository.ts:1257-1289`, `media.service.ts:133-256`).
- `docs/ARTIFACT_STORAGE.md:11` referenced rows are conflict-protected:
  `DELETE /api/media/:id` (`media.service.ts:244`) checks no evidence, whose key is
  `SetNull` (`schema.prisma:434`).
- `docs/AUTHENTICATION_RUNBOOK.md:87`: a page whose session cookie expired, or
  whose server has new secrets, goes on using its living CSRF cookie, and every change
  of it, login and logout included, is refused until that cookie's 8 hours are over
  (`lapsed`).
- The page shows who is signed in by the last answer: the first `/me` may come
  after a login or logout, and a logout that failed hides the user all the same
  (`unsure`). `AdminModal.loadAdminData` lets every answer in.
- `previewLab` (`portfolio-preview.service.ts:114-131`) reads the record, and so the
  revision it answers with, after the manifest.
- `docs/UNIFIED_CLI_ARCHITECTURE.md`, *Phase 7 integration*: an ACTIVE runtime
  changes the mode. `ctx <context-id>` (`unified-cli.service.ts:442`) passes no session
  on and answers RECORDED_STATE.
- `docs/PHASE7_VALIDATION_RUNBOOK.md:32`: an operations panel that is open stays as
  it was when a scenario runs, until it is opened again.
- The line a scenario's AVC mutation adds says "AVC denial", which the audit
  filter (`linux-operations.service.ts:74`) does not match: its verification passes and the
  health check reports nothing.
- A login that read the account before a rotation inserts its session after the
  revocation and survives it (`crossed`).
- The seed sets archived projects and labs PUBLISHED and READY again without moving
  their revisions; an administrator's own primary input is left beside the seed's;
  a renamed row with a seed's id makes the seed refuse.

## Not modelled

- Blogs, certifications, skills, contact messages, settings: single-row reads and
  writes. The contact route's limit is that of `LoginLimiter`.
- Rendering, forms, a reload of the page; output and formatting of the CLI and the
  inspections; type files and input parsing; how the adapters normalise a lab's
  recorded state; the recorded ACL and route-policy values mutations write, which no check reads.
- Scripts that build or audit the repository; the seed's fixtures; the migrations'
  data definition.
- Database failures inside a transaction: the transaction has then no effect,
  which the refusing actions cover.

## Plan

Done: the modules above, one property per hazard at least, and the inductive
invariants of every component. Left are hazards without a property yet: a
permanent deletion after a publication that its check did not see; a publication
beside an unselected lab marked READY meanwhile; a lab created in a project
archived meanwhile; an upload's insert between a deletion's count and its removal;
the temporaries of an upload that died.
