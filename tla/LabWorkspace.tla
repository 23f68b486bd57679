---------------------------- MODULE LabWorkspace ----------------------------
(***************************************************************************)
(* The three lab workspaces of the page: an explorer that shows one lab of *)
(* its domain, the scenario panel and the operations panel in it.  They    *)
(* fetch on their own, and what an answer may still write differs: the     *)
(* networking explorer and the scenario panel let every answer in, the     *)
(* Linux and DevOps explorers cancel the fetch of a selection that was     *)
(* left, but not the reload of the list.                                   *)
(***************************************************************************)
EXTENDS Naturals, FiniteSets

CONSTANTS
    WorkspaceLabs,
    FirstLab(_),    \* FirstLab(S): the lab listed first of the labs S
    NoLabShown,
    ChangeBound,    \* BOUND: scenario operations on a lab
    UserBound       \* BOUND: what the user does

ASSUME WorkspaceAssumption ==
    /\ NoLabShown \notin WorkspaceLabs
    /\ \A S \in SUBSET WorkspaceLabs : S # {} => FirstLab(S) \in S
    /\ ChangeBound \in Nat /\ UserBound \in Nat

VARIABLES
    explorer,       \* "networking", or "console" for Linux and DevOps
    public,         \* the labs the server lists
    overlay,        \* overlay[l]: scenario operations the session made on l
    view,           \* the explorer's state
    panel,          \* the scenario panel's state
    operations,     \* the operations panel's state
    fetches,        \* the calls in flight whose answer is let in
    rendered,       \* what the effects last saw: selection and lab shown
    userActs,       \* what the user did so far
    overlapped,     \* auxiliary: the user acted while something was in flight
    fetchFailed     \* auxiliary: a call failed since another lab was selected

workspaceVars == <<explorer, public, overlay, view, panel, operations, fetches, rendered,
                   userActs, overlapped, fetchFailed>>

-----------------------------------------------------------------------------
Unread == [read |-> FALSE]
Versions == 0..ChangeBound
Answer == {Unread} \cup [read: {TRUE}, version: Versions]

\* labs, state: loadLabs; load: loadLab; effect: the fetch of a selection;
\* scenario: the panel's load; change: a scenario operation; operations.
\* ends: whether the panel's button waits for it.
Fetch == [does: {"labs", "state", "load", "effect", "scenario", "change", "operations"},
          lab: WorkspaceLabs \cup {NoLabShown}, answer: Answer, ends: BOOLEAN]

WorkspaceTypeOK ==
    /\ explorer \in {"networking", "console"}
    /\ public \subseteq WorkspaceLabs
    /\ overlay \in [WorkspaceLabs -> Versions]
    /\ view \in [selected: WorkspaceLabs \cup {NoLabShown},
                 lab: WorkspaceLabs \cup {NoLabShown}, version: Versions, loading: BOOLEAN]
    /\ panel \in [lab: WorkspaceLabs \cup {NoLabShown}, busy: BOOLEAN]
    /\ operations \in [open: BOOLEAN, lab: WorkspaceLabs \cup {NoLabShown}, version: Versions]
    /\ fetches \subseteq Fetch
    /\ rendered \in [selected: WorkspaceLabs \cup {NoLabShown},
                     lab: WorkspaceLabs \cup {NoLabShown}, open: BOOLEAN]
    /\ userActs \in 0..UserBound
    /\ {overlapped, fetchFailed} \subseteq BOOLEAN

Begun(does, l) == [does |-> does, lab |-> l, answer |-> Unread, ends |-> FALSE]

NoPanel == [lab |-> NoLabShown, busy |-> FALSE]
NoOperations == [open |-> FALSE, lab |-> NoLabShown, version |-> 0]

\* The effect of the first render asks for the list.
WorkspaceInit ==
    /\ explorer \in {"networking", "console"}
    /\ public = WorkspaceLabs
    /\ overlay = [l \in WorkspaceLabs |-> 0]
    /\ view = [selected |-> NoLabShown, lab |-> NoLabShown, version |-> 0, loading |-> TRUE]
    /\ panel = NoPanel
    /\ operations = NoOperations
    /\ fetches = {Begun("labs", NoLabShown)}
    /\ rendered = [selected |-> NoLabShown, lab |-> NoLabShown, open |-> FALSE]
    /\ userActs = 0
    /\ overlapped = FALSE
    /\ fetchFailed = FALSE

-----------------------------------------------------------------------------
(***************************************************************************)
(* Effects run before anything else happens.                               *)
(***************************************************************************)
Settled ==
    rendered = [selected |-> view.selected, lab |-> view.lab, open |-> operations.open]

Moved == rendered.selected # view.selected \/ rendered.lab # view.lab

\* What the clean-ups cancel: the effect's fetch, that of the operations
\* panel when its lab changes or it closes, and all calls of a scenario panel
\* that is gone.
Cancelled ==
    {f \in fetches :
        \/ f.does = "effect" /\ Moved
        \/ f.does = "operations" /\ (rendered.lab # view.lab \/ ~operations.open)
        \/ f.does = "scenario" /\ view.lab = NoLabShown}

\* Explorer, scenario panel, operations panel.
\* Mutant: the explorer's effect runs for the first lab only.
EffectsFirst ==
    {Begun(IF explorer = "networking" THEN "load" ELSE "effect", l) :
        l \in {k \in {view.selected} \ {NoLabShown} : view.lab = NoLabShown}}
    \cup {Begun("scenario", l) : l \in {view.lab} \ {rendered.lab, NoLabShown}}
\* Mutant: the panel loads for the first lab only.
EffectsPanelFirst ==
    (IF explorer = "networking"
     THEN {Begun("load", l) : l \in {view.selected} \ {rendered.selected, NoLabShown}}
     ELSE {Begun("effect", l) : l \in {k \in {view.selected} \ {NoLabShown, view.lab} : Moved}})
    \cup {Begun("scenario", l) :
            l \in {k \in {view.lab} \ {NoLabShown} : rendered.lab = NoLabShown}}
Effects ==
    (IF explorer = "networking"
     THEN {Begun("load", l) : l \in {view.selected} \ {rendered.selected, NoLabShown}}
     ELSE {Begun("effect", l) : l \in {k \in {view.selected} \ {NoLabShown, view.lab} : Moved}})
    \cup {Begun("scenario", l) : l \in {view.lab} \ {rendered.lab, NoLabShown}}
    \cup {Begun("operations", l) :
            l \in {k \in {view.lab} \ {NoLabShown} :
                     operations.open /\ (~rendered.open \/ rendered.lab # view.lab)}}

Render ==
    /\ ~Settled
    /\ fetches' = (fetches \ Cancelled) \cup Effects
    /\ view' = IF \E f \in Effects : f.does \in {"load", "effect"}
               THEN [view EXCEPT !.loading = TRUE] ELSE view
    /\ panel' = IF view.lab = NoLabShown THEN NoPanel ELSE panel
    /\ operations' = IF view.lab = NoLabShown \/ ~operations.open THEN NoOperations
                     ELSE operations
    /\ rendered' = [selected |-> view.selected, lab |-> view.lab, open |-> operations'.open]
    /\ UNCHANGED <<explorer, public, overlay, userActs, overlapped, fetchFailed>>

-----------------------------------------------------------------------------
(***************************************************************************)
(* The user.                                                               *)
(***************************************************************************)
\* What an operations panel asks does not write what the others show.
InFlight == {f \in fetches : f.does # "operations"}

Acts == Settled /\ userActs < UserBound /\ userActs' = userActs + 1

SelectLab(l) ==
    /\ Acts
    /\ view.lab # NoLabShown \/ explorer = "networking"
    /\ l # view.selected /\ view.selected # NoLabShown
    /\ view' = [view EXCEPT !.selected = l]
    /\ overlapped' = (InFlight # {} \/ (overlapped /\ l = view.lab))
    /\ fetchFailed' = (fetchFailed /\ l = view.lab)
    /\ UNCHANGED <<explorer, public, overlay, panel, operations, fetches, rendered>>

\* loadLab of the selected lab, or loadLabs with the selection it was
\* rendered with.
ReloadWorkspace ==
    /\ Acts
    /\ explorer = "console" \/ view.selected # NoLabShown
    /\ fetches' = fetches \cup
          {Begun(IF explorer = "console" THEN "labs" ELSE "load", view.selected)}
    /\ view' = [view EXCEPT !.loading = TRUE]
    /\ overlapped' = (overlapped \/ InFlight # {})
    /\ UNCHANGED <<explorer, public, overlay, panel, operations, rendered, fetchFailed>>

\* Verify, run, remediate or reset: only the panel's own calls disable it.
ScenarioButton ==
    /\ Acts
    /\ view.lab # NoLabShown /\ panel.lab # NoLabShown /\ ~panel.busy
    /\ panel' = [panel EXCEPT !.busy = TRUE]
    /\ fetches' = fetches \cup {[Begun("change", view.lab) EXCEPT !.ends = TRUE]}
    /\ overlapped' = (overlapped \/ InFlight # {})
    /\ UNCHANGED <<explorer, public, overlay, view, operations, rendered, fetchFailed>>

ToggleOperations ==
    /\ Acts
    /\ view.lab # NoLabShown
    /\ operations' = [operations EXCEPT !.open = ~@]
    /\ UNCHANGED <<explorer, public, overlay, view, panel, fetches, rendered, overlapped,
                   fetchFailed>>

-----------------------------------------------------------------------------
(***************************************************************************)
(* The server.                                                             *)
(***************************************************************************)
WithdrawLab(l) ==
    /\ l \in public
    /\ public' = public \ {l}
    /\ UNCHANGED <<explorer, overlay, view, panel, operations, fetches, rendered,
                   userActs, overlapped, fetchFailed>>

\* The terminal over the page runs scenarios in the same session.
ScenarioInTerminal(l) ==
    /\ Acts
    /\ overlay[l] < ChangeBound
    /\ overlay' = [overlay EXCEPT ![l] = @ + 1]
    /\ overlapped' = TRUE
    /\ UNCHANGED <<explorer, public, view, panel, operations, fetches, rendered,
                   fetchFailed>>

Serve(f) ==
    /\ f.answer = Unread /\ f.does # "labs"
    /\ f.lab \in public
    /\ f.does = "change" => overlay[f.lab] < ChangeBound
    /\ overlay' = IF f.does = "change" THEN [overlay EXCEPT ![f.lab] = @ + 1] ELSE overlay
    /\ fetches' = (fetches \ {f}) \cup
          {[f EXCEPT !.answer = [read |-> TRUE, version |-> overlay'[f.lab]]]}
    /\ UNCHANGED <<explorer, public, view, panel, operations, rendered, overlapped,
                   fetchFailed, userActs>>

-----------------------------------------------------------------------------
(***************************************************************************)
(* Answers.                                                                *)
(***************************************************************************)
Arrived(f) == Settled /\ f.answer # Unread

\* The scenario panel waits for the reload its operation began.
PanelAfter(f) == IF f.ends THEN [panel EXCEPT !.busy = FALSE] ELSE panel

\* The list of loadLabs, or of the networking explorer's first effect.
LabsAnswered(f) ==
    LET next == IF f.lab \in public THEN f.lab ELSE FirstLab(public) IN
    /\ Settled /\ f.does = "labs"
    /\ IF public = {}
       THEN /\ view' = [view EXCEPT !.selected = NoLabShown, !.loading = FALSE,
                          !.lab = IF explorer = "console" THEN NoLabShown ELSE @]
            /\ fetches' = fetches \ {f}
            /\ panel' = PanelAfter(f)
       ELSE /\ view' = [view EXCEPT !.selected = next]
            /\ fetches' = (fetches \ {f}) \cup
                  (IF explorer = "console"
                   THEN {[f EXCEPT !.does = "state", !.lab = next]} ELSE {})
            /\ UNCHANGED panel
    /\ UNCHANGED <<explorer, public, overlay, operations, rendered, overlapped,
                   fetchFailed, userActs>>

\* Mutant: the lab is shown as it was before the reload.
ShowKeeping(f) == [view EXCEPT !.lab = f.lab, !.loading = FALSE]
\* Mutant: the version the next operation will leave.
ShowAhead(f) == [view EXCEPT !.lab = f.lab, !.version = f.answer.version + 1, !.loading = FALSE]
\* setState of loadLab, loadLabs or the effect.
Show(f) == [view EXCEPT !.lab = f.lab, !.version = f.answer.version, !.loading = FALSE]

StateAnswered(f) ==
    /\ Arrived(f) /\ f.does \in {"state", "load", "effect"}
    /\ view' = Show(f)
    /\ fetches' = fetches \ {f}
    /\ panel' = PanelAfter(f)
    /\ UNCHANGED <<explorer, public, overlay, operations, rendered, overlapped,
                   fetchFailed, userActs>>

ScenarioAnswered(f) ==
    /\ Arrived(f) /\ f.does = "scenario"
    /\ panel' = [panel EXCEPT !.lab = f.lab]
    /\ fetches' = fetches \ {f}
    /\ UNCHANGED <<explorer, public, overlay, view, operations, rendered, overlapped,
                   fetchFailed, userActs>>

\* onStateChange: loadLab of the lab, or loadLabs, as the button was rendered.
\* A panel that is gone goes on, but shows nothing.
ChangeAnswered(f) ==
    /\ Arrived(f) /\ f.does = "change"
    /\ panel' = IF view.lab = NoLabShown THEN panel ELSE [panel EXCEPT !.lab = f.lab]
    /\ view' = [view EXCEPT !.loading = TRUE]
    /\ fetches' = (fetches \ {f}) \cup
          {[Begun(IF explorer = "console" THEN "labs" ELSE "load", f.lab) EXCEPT !.ends = TRUE]}
    /\ UNCHANGED <<explorer, public, overlay, operations, rendered, overlapped,
                   fetchFailed, userActs>>

OperationsAnswered(f) ==
    /\ Arrived(f) /\ f.does = "operations"
    /\ operations' = [operations EXCEPT !.lab = f.lab, !.version = f.answer.version]
    /\ fetches' = fetches \ {f}
    /\ UNCHANGED <<explorer, public, overlay, view, panel, rendered, overlapped,
                   fetchFailed, userActs>>

\* Mutant: only an answer ends the panel's waiting.
FailedWaiting(f) == panel
\* A call that fails clears what it would have shown.
FailedPanel(f) == PanelAfter(f)

FetchFails(f) ==
    /\ Settled
    /\ view' = CASE f.does \in {"state", "load"} ->
                      [view EXCEPT !.lab = NoLabShown, !.loading = FALSE]
                 [] f.does = "labs" ->
                      [view EXCEPT !.loading = FALSE,
                         !.lab = IF explorer = "console" THEN NoLabShown ELSE @]
                 [] f.does = "effect" -> [view EXCEPT !.loading = FALSE]
                 [] OTHER -> view
    /\ panel' = FailedPanel(f)
    /\ fetches' = fetches \ {f}
    /\ fetchFailed' = TRUE
    /\ UNCHANGED <<explorer, public, overlay, operations, rendered, overlapped,
                   userActs>>

-----------------------------------------------------------------------------
WorkspaceNext ==
    \/ Render
    \/ \E l \in WorkspaceLabs : SelectLab(l) \/ WithdrawLab(l) \/ ScenarioInTerminal(l)
    \/ ReloadWorkspace \/ ScenarioButton \/ ToggleOperations
    \/ \E f \in fetches :
          \/ Serve(f) \/ LabsAnswered(f) \/ StateAnswered(f) \/ ScenarioAnswered(f)
          \/ ChangeAnswered(f) \/ OperationsAnswered(f) \/ FetchFails(f)

WorkspaceSpec == WorkspaceInit /\ [][WorkspaceNext]_workspaceVars

-----------------------------------------------------------------------------
(***************************************************************************)
(* Properties.                                                             *)
(***************************************************************************)
AtEase == Settled /\ fetches = {}

\* The user waited for every answer, and none failed.
Undisturbed == ~overlapped /\ ~fetchFailed

\* The lab shown is the one selected.
ShownIsSelected == AtEase /\ Undisturbed => view.lab = view.selected

\* The scenario panel offers the scenarios of the lab shown, not of the one
\* shown before, whose answer may come later.
PanelIsOfTheLab ==
    AtEase /\ Undisturbed /\ view.lab # NoLabShown => panel.lab = view.lab

\* After a scenario operation the explorer shows the lab under the overlay
\* the operation left.
OverlayIsShown ==
    AtEase /\ Undisturbed /\ view.lab # NoLabShown => view.version = overlay[view.lab]

\* Nothing waits for an answer that will not come: the panel's buttons never,
\* and the explorer only when the user left a selection of the console that
\* was loading, whose cancelled fetch does not end the loading.
NothingWaits ==
    AtEase => /\ ~panel.busy
              /\ view.loading => explorer = "console" /\ overlapped

\* Selection, explorer, scenario panel and overlay are of one lab, in whatever
\* order their fetches were answered.
ShowsOneLab == ShownIsSelected /\ PanelIsOfTheLab /\ OverlayIsShown
=============================================================================
