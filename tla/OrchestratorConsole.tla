------------------------- MODULE OrchestratorConsole -------------------------
(***************************************************************************)
(* The administrator's console (usePortfolioOrchestrator and the buttons   *)
(* of AdminOrchestrator): one React state written by the answers of every  *)
(* call in flight.  Buttons that change something are disabled while       *)
(* `saving`, Reload also while `loading`; nothing ties an answer to the    *)
(* call that is wanted by now.                                             *)
(***************************************************************************)
EXTENDS Naturals, FiniteSets

CONSTANTS
    ConsoleProjects,
    Calls,          \* BOUND: calls in flight at a time
    NothingSelected,
    RevisionBound   \* BOUND: revisions of one project

ASSUME ConsoleAssumption ==
    /\ NothingSelected \notin ConsoleProjects
    /\ RevisionBound \in Nat \ {0}

VARIABLES
    revision,       \* revision[p] on the server; 0: no such project
    console,        \* the hook's state
    call,           \* call[c]: what call c is doing
    deleted,        \* auxiliary: projects this console deleted, by an answer it has
    behind,         \* auxiliary: a load or refresh failed and none succeeded since
    readCrossed,        \* auxiliary: a read and a change were in flight together
    failed          \* auxiliary: a load or refresh has failed

consoleVars == <<revision, console, call, deleted, behind, readCrossed, failed>>

-----------------------------------------------------------------------------
Shown == [project: ConsoleProjects \cup {NothingSelected}, revision: 0..RevisionBound]
Nothing == [project |-> NothingSelected, revision |-> 0]
ReadCalls == {"load", "lists", "aggregate"}
Changes == {"update", "delete", "create", "validate"}
CallState == [at: {"idle", "load", "lists", "aggregate"} \cup Changes,
         project: ConsoleProjects \cup {NothingSelected},
         listed: SUBSET ConsoleProjects,
         changing: BOOLEAN]     \* the refresh belongs to a change
NoCall == [at |-> "idle", project |-> NothingSelected, listed |-> {}, changing |-> FALSE]

\* Type correctness.
ConsoleTypeOK ==
    /\ revision \in [ConsoleProjects -> 0..RevisionBound]
    /\ console \in [selected: ConsoleProjects \cup {NothingSelected}, aggregate: Shown,
                    listed: SUBSET ConsoleProjects, validation: Shown,
                    loading: BOOLEAN, saving: BOOLEAN]
    /\ call \in [Calls -> CallState]
    /\ deleted \subseteq ConsoleProjects
    /\ {behind, readCrossed, failed} \subseteq BOOLEAN

Existing == {p \in ConsoleProjects : revision[p] # 0}
AtRest == \A c \in Calls : call[c].at = "idle"
Reading(c) == call[c].at \in ReadCalls /\ ~call[c].changing
IsChange(c) == call[c].at \in Changes \/ call[c].changing

\* The hook's first effect: refresh(null), nothing selected.
ConsoleInit ==
    /\ revision \in [ConsoleProjects -> {0, 1}]
    /\ console = [selected |-> NothingSelected, aggregate |-> Nothing, listed |-> {},
                  validation |-> Nothing, loading |-> TRUE, saving |-> FALSE]
    /\ \E c \in Calls :
          call = [x \in Calls |-> IF x = c THEN [NoCall EXCEPT !.at = "lists"] ELSE NoCall]
    /\ deleted = {} /\ behind = FALSE /\ readCrossed = FALSE /\ failed = FALSE

-----------------------------------------------------------------------------
\* What the buttons begin.
Begin(c, to) ==
    /\ call[c].at = "idle"
    /\ call' = [call EXCEPT ![c] = to]
    /\ UNCHANGED <<revision, deleted, behind, failed>>

CrossedBy(change) ==
    readCrossed' = (readCrossed \/ \E c \in Calls : IF change THEN Reading(c)
                                                ELSE IsChange(c))

\* Mutant: the report of the project shown before stays.
SelectedOnly(p) == [console EXCEPT !.selected = p, !.loading = TRUE]
Selecting(p) ==
    [console EXCEPT !.selected = p, !.loading = TRUE, !.validation = Nothing]

SelectProject(c) ==
    /\ ~console.saving
    /\ \E p \in console.listed :
          /\ Begin(c, [NoCall EXCEPT !.at = "load", !.project = p])
          /\ console' = Selecting(p)
    /\ CrossedBy(FALSE)

Reload(c) ==
    /\ ~console.saving /\ ~console.loading
    /\ Begin(c, [NoCall EXCEPT !.at = "lists", !.project = console.selected])
    /\ console' = [console EXCEPT !.loading = TRUE]
    /\ CrossedBy(FALSE)

\* Mutant: the buttons do not wait for the change before.
AlwaysEnabled == TRUE
ButtonsEnabled == ~console.saving
Change(c) ==
    /\ ButtonsEnabled
    /\ \E kind \in Changes, p \in ConsoleProjects :
          /\ \/ kind = "create" /\ p \notin deleted
             \/ kind # "create" /\ p = console.aggregate.project
          /\ Begin(c, [NoCall EXCEPT !.at = kind, !.project = p])
    /\ console' = [console EXCEPT !.saving = TRUE]
    /\ CrossedBy(TRUE)

-----------------------------------------------------------------------------
\* fail(error), of any call.
\* Mutant: a failed call leaves the console saving.
FailLoading == [console EXCEPT !.loading = FALSE]
Fail == [console EXCEPT !.loading = FALSE, !.saving = FALSE]
End(c) == call' = [call EXCEPT ![c] = NoCall]

CallFails(c) ==
    /\ call[c].at # "idle"
    /\ console' = Fail
    /\ End(c)
    /\ IF call[c].at \in ReadCalls THEN behind' = TRUE /\ failed' = TRUE
       ELSE UNCHANGED <<behind, failed>>
    /\ UNCHANGED <<revision, deleted, readCrossed>>

\* getOrchestratorProject for loadProject; a project that is gone fails.
LoadAnswered(c) ==
    /\ call[c].at = "load"
    /\ LET p == call[c].project
       IN  /\ revision[p] # 0
           /\ console' = [console EXCEPT !.selected = p, !.loading = FALSE,
                             !.aggregate = [project |-> p, revision |-> revision[p]]]
    /\ behind' = FALSE
    /\ End(c)
    /\ UNCHANGED <<revision, deleted, readCrossed, failed>>

\* The three lists of a refresh, and the project it goes on to load: the one
\* preferred or selected when it began, or the first.
ListsAnswered(c) ==
    /\ call[c].at = "lists"
    /\ \E p \in ConsoleProjects \cup {NothingSelected} :
          /\ IF call[c].project # NothingSelected THEN p = call[c].project
             ELSE IF Existing = {} THEN p = NothingSelected ELSE p \in Existing
          /\ call' = [call EXCEPT ![c].at = "aggregate", ![c].project = p,
                                  ![c].listed = Existing]
    /\ UNCHANGED <<revision, console, deleted, behind, readCrossed, failed>>

\* Mutant: the selection is not written back.
RefreshedKeeping(p, l) ==
    [console EXCEPT !.listed = l, !.loading = FALSE, !.saving = FALSE,
        !.aggregate = [project |-> p, revision |-> IF p = NothingSelected THEN 0
                                                   ELSE revision[p]]]
\* Mutant: the revision the next save will leave.
RefreshedAhead(p, l) ==
    [console EXCEPT !.listed = l, !.selected = p, !.loading = FALSE,
        !.saving = FALSE,
        !.aggregate = [project |-> p, revision |-> IF p = NothingSelected THEN 0
                                                   ELSE revision[p] + 1]]
Refreshed(p, l) ==
    [console EXCEPT !.listed = l, !.selected = p, !.loading = FALSE,
        !.saving = FALSE,
        !.aggregate = [project |-> p, revision |-> IF p = NothingSelected THEN 0
                                                   ELSE revision[p]]]
RefreshAnswered(c) ==
    /\ call[c].at = "aggregate"
    /\ LET p == call[c].project
       IN  /\ p # NothingSelected => revision[p] # 0
           /\ console' = Refreshed(p, call[c].listed)
    /\ behind' = FALSE
    /\ End(c)
    /\ UNCHANGED <<revision, deleted, readCrossed, failed>>

\* mutate(): the operation, and then a refresh that is not ended by its failure.
Refreshing(c, p) ==
    /\ call' = [call EXCEPT ![c] = [NoCall EXCEPT !.at = "lists", !.project = p,
                                                !.changing = TRUE]]
    /\ console' = [console EXCEPT !.loading = TRUE]
    /\ UNCHANGED <<behind, readCrossed, failed>>

UpdateAnswered(c) ==
    /\ call[c].at = "update"
    /\ LET p == call[c].project
       IN  /\ revision[p] \in 1..(RevisionBound - 1)
           /\ revision' = [revision EXCEPT ![p] = @ + 1]
           /\ Refreshing(c, p)
    /\ UNCHANGED deleted

\* The refresh after a deletion prefers what is selected: the deleted project.
DeleteAnswered(c) ==
    /\ call[c].at = "delete"
    /\ LET p == call[c].project
       IN  /\ revision[p] # 0
           /\ revision' = [revision EXCEPT ![p] = 0]
           /\ deleted' = deleted \cup {p}
    /\ Refreshing(c, console.selected)

CreateAnswered(c) ==
    /\ call[c].at = "create"
    /\ LET p == call[c].project
       IN  /\ revision[p] = 0 /\ p \notin deleted
           /\ revision' = [revision EXCEPT ![p] = 1]
    /\ Refreshing(c, console.selected)
    /\ UNCHANGED deleted

\* validateProject and previewProject: no refresh.
ValidateAnswered(c) ==
    /\ call[c].at = "validate"
    /\ LET p == call[c].project
       IN  /\ revision[p] # 0
           /\ console' = [console EXCEPT !.saving = FALSE,
                             !.validation = [project |-> p, revision |-> revision[p]]]
    /\ End(c)
    /\ UNCHANGED <<revision, deleted, behind, readCrossed, failed>>

ConsoleNext ==
    \E c \in Calls :
       \/ SelectProject(c) \/ Reload(c) \/ Change(c)
       \/ CallFails(c) \/ LoadAnswered(c) \/ ListsAnswered(c)
       \/ RefreshAnswered(c) \/ UpdateAnswered(c) \/ DeleteAnswered(c)
       \/ CreateAnswered(c) \/ ValidateAnswered(c)

ConsoleSpec == ConsoleInit /\ [][ConsoleNext]_consoleVars

-----------------------------------------------------------------------------
\* The console is busy only while a call is in flight: no order of answers and
\* failures leaves the spinner on or the buttons disabled for good.
NoSpinnerAtRest == AtRest => ~console.loading /\ ~console.saving

\* One change at a time, unless a read was in flight beside one: an answer or
\* a failure of the read enables the buttons under a change that still runs.
OneChangeUnlessCrossed ==
    readCrossed \/ Cardinality({c \in Calls : IsChange(c)}) <= 1

\* The two flags say what is in flight: no more at rest, no less during a change.
FlagsFit == NoSpinnerAtRest /\ OneChangeUnlessCrossed

\* At rest the project shown is the one selected, unless the last load or
\* refresh failed; and no project this console deleted is listed, unless a
\* refresh has failed (as the one after a deletion does, which asks for the
\* deleted project) or a read crossed a change.
ShowsWhatIsSelected ==
    AtRest =>
       /\ behind \/ console.selected = console.aggregate.project
       /\ readCrossed \/ failed \/ deleted \cap console.listed = {}

\* A validation report shown is of the project shown, unless reads and changes
\* crossed or a load failed before.
ReportIsOfTheProject ==
    AtRest /\ console.validation # Nothing =>
       \/ console.validation.project = console.aggregate.project
       \/ readCrossed \/ failed

\* At rest the console shows one project: selection, aggregate, list and report
\* are of the same one.
ShowsOneProject == ShowsWhatIsSelected /\ ReportIsOfTheProject
=============================================================================
