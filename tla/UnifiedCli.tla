----------------------------- MODULE UnifiedCli -----------------------------
(***************************************************************************)
(* The unified CLI: the service that answers a command in a context, read  *)
(* by read, and the terminal that keeps nothing but the context's id.      *)
(* Every command resolves its context anew, and what a context names - a   *)
(* public lab and one of its devices, hosts or pipelines - may go at any   *)
(* time; the scenario overlay of the session is changed by this terminal   *)
(* and by the workspaces next to it.                                       *)
(***************************************************************************)
EXTENDS Naturals, FiniteSets

CONSTANTS
    CliLabs,
    CliTargets,      \* devices, hosts and pipelines
    TargetsIn,       \* TargetsIn[l]: those the lab starts with
    CliDomain,       \* CliDomain[l]: the lab's domain
    PageCategories,      \* the page's categories: domains, and RootCategory
    RootCategory,
    FirstIn(_),      \* FirstIn(S): the lab listed first of the labs S
    NoName,          \* no lab, or no target
    OverlayBound,    \* BOUND: scenario operations of the session
    ActBound,        \* BOUND: what the user does with the terminal
    CliVerbs,        \* BOUND: the verbs entered
    CommandSlots     \* BOUND: commands in flight

\* What a command does, as far as its reads go.
\*   say: help, clear, whoami, bare ctx, what is unknown or refused unread
\*   list: ctx list          root: ctx root
\*   switch: ctx use, lab, target, <domain>      bare: ctx <context-id>
\*   show: show, targets, evidence, trace, route, the aliases
\*   inspect, health         status: scenario list, status, verify
\*   run                     restore: scenario remediate, reset
Verbs == {"say", "list", "root", "switch", "bare", "show", "inspect", "health",
          "status", "run", "restore"}

ASSUME CliAssumption ==
    /\ NoName \notin CliLabs \cup CliTargets \cup PageCategories
    /\ CliDomain \in [CliLabs -> PageCategories \ {RootCategory}]
    /\ TargetsIn \in [CliLabs -> SUBSET CliTargets]
    /\ RootCategory \in PageCategories
    /\ \A S \in SUBSET CliLabs : S # {} => FirstIn(S) \in S
    /\ CliVerbs \subseteq Verbs /\ "boot" \notin CommandSlots
    /\ {OverlayBound, ActBound} \subseteq Nat

VARIABLES
    listed,          \* listed[l]: the targets of the public lab l; see Public
    active,          \* the labs with an ACTIVE runtime of this session
    changes,         \* scenario operations made so far
    acts,            \* openings, closings, changes of category and commands so far
    terminal,        \* the terminal's state
    calls            \* the bootstrap and the commands in flight

cliVars == <<listed, active, changes, acts, terminal, calls>>

-----------------------------------------------------------------------------
Root == [lab |-> NoName, target |-> NoName]
Contexts ==
    {Root} \cup {c \in [lab: CliLabs, target: CliTargets \cup {NoName}] :
                    c.target # NoName => c.target \in TargetsIn[c.lab]}

\* Stages: which read the request awaits; "next" resolves the context the
\* command asks for, "current" that it is given.
CallStages == {"idle", "list", "find", "mode", "act", "second", "answered"}

Call == [stage: CallStages, verb: Verbs \cup {"bootstrap"}, resolving: {"current", "next"},
         category: PageCategories, given: Contexts, wanted: Contexts,
         seen: SUBSET CliLabs,
         context: Contexts, simulated: BOOLEAN,   \* the context resolved, its mode
         exit: {"ok", "refused", "failed"},       \* 0, 2 or 404
         disturbed: BOOLEAN,                      \* auxiliary: a lab or target went
         moved: BOOLEAN]                          \* auxiliary: the overlay changed

Slots == {"boot"} \cup CommandSlots
NoCallOf == [stage |-> "idle", verb |-> "say", resolving |-> "current",
             category |-> RootCategory, given |-> Root, wanted |-> Root, seen |-> {},
             context |-> Root, simulated |-> FALSE, exit |-> "ok", disturbed |-> FALSE, moved |-> FALSE]

CliTypeOK ==
    /\ listed \in [CliLabs -> {[public |-> FALSE]}
                              \cup [public: {TRUE}, targets: SUBSET CliTargets]]
    /\ active \subseteq CliLabs
    /\ changes \in 0..OverlayBound /\ acts \in 0..ActBound
    /\ terminal \in [open: BOOLEAN, category: PageCategories,
                     key: PageCategories \cup {NoName}, known: BOOLEAN, context: Contexts,
                     simulated: BOOLEAN, busy: BOOLEAN, rendered: BOOLEAN]
    /\ calls \in [Slots -> Call]

\* The terminal is closed when the page loads.
CliInit ==
    /\ listed = [l \in CliLabs |-> [public |-> TRUE, targets |-> TargetsIn[l]]]
    /\ active = {}
    /\ changes = 0 /\ acts = 0
    /\ terminal = [open |-> FALSE, category |-> RootCategory, key |-> NoName,
                   known |-> FALSE, context |-> Root, simulated |-> FALSE, busy |-> FALSE,
                   rendered |-> TRUE]
    /\ calls = [s \in Slots |-> NoCallOf]

Public == {l \in CliLabs : listed[l].public}

-----------------------------------------------------------------------------
(***************************************************************************)
(* What happens to the labs meanwhile.                                     *)
(***************************************************************************)
Busy(s) == calls[s].stage # "idle"
Disturb == calls' = [s \in Slots |-> [calls[s] EXCEPT !.disturbed = @ \/ Busy(s)]]

CliWithdraw(l) ==
    /\ l \in Public
    /\ listed' = [listed EXCEPT ![l] = [public |-> FALSE]]
    /\ Disturb
    /\ UNCHANGED <<active, changes, acts, terminal>>

CliRemoveTarget(l, t) ==
    /\ l \in Public /\ t \in listed[l].targets
    /\ listed' = [listed EXCEPT ![l].targets = @ \ {t}]
    /\ Disturb
    /\ UNCHANGED <<active, changes, acts, terminal>>

\* The scenario panel of the workspace.
PanelChanges(l) ==
    /\ l \in Public /\ changes < OverlayBound
    /\ changes' = changes + 1
    /\ \E a \in {active \cup {l}, active \ {l}} \ {active} : active' = a
    /\ calls' = [s \in Slots |-> [calls[s] EXCEPT !.moved = @ \/ Busy(s)]]
    /\ UNCHANGED <<listed, acts, terminal>>

-----------------------------------------------------------------------------
(***************************************************************************)
(* The terminal.                                                           *)
(***************************************************************************)
Settles == terminal.rendered

ToggleTerminal ==
    /\ Settles /\ acts < ActBound /\ acts' = acts + 1
    /\ terminal' = [terminal EXCEPT !.open = ~@, !.rendered = FALSE]
    /\ UNCHANGED <<listed, active, changes, calls>>

ChooseCategory(c) ==
    /\ Settles /\ acts < ActBound /\ acts' = acts + 1
    /\ c # terminal.category
    /\ terminal' = [terminal EXCEPT !.category = c, !.rendered = FALSE]
    /\ UNCHANGED <<listed, active, changes, calls>>

Commands == {s \in CommandSlots : Busy(s)}

\* Closing forgets which bootstrap was made.
KeyClosed == NoName

\* The effect of opening, closing or changing the category: its clean-up
\* cancels the bootstrap in flight, then it begins the next one.
TerminalEffect ==
    /\ ~terminal.rendered
    /\ IF ~terminal.open
       THEN /\ terminal' = [terminal EXCEPT !.key = KeyClosed, !.rendered = TRUE]
            /\ calls' = [calls EXCEPT !["boot"] = NoCallOf]
       ELSE IF terminal.key = terminal.category /\ terminal.known
       THEN /\ terminal' = [terminal EXCEPT !.rendered = TRUE]
            /\ calls' = [calls EXCEPT !["boot"] = NoCallOf]
       ELSE /\ terminal' = [terminal EXCEPT !.key = terminal.category, !.rendered = TRUE,
                              !.busy = TRUE]
            /\ calls' = [calls EXCEPT !["boot"] =
                  [NoCallOf EXCEPT !.verb = "bootstrap", !.stage = "list",
                     !.category = terminal.category]]
    /\ UNCHANGED <<listed, active, changes, acts>>

\* Enter: nothing while busy. A context never loaded leaves the server to
\* bootstrap one, which is that of the category.
EnterCommand(v, c) ==
    /\ Settles /\ terminal.open /\ ~terminal.busy /\ acts < ActBound
    /\ acts' = acts + 1
    /\ \E s \in CommandSlots \ Commands :
          /\ calls' = [calls EXCEPT ![s] =
                [NoCallOf EXCEPT !.verb = v, !.wanted = c, !.given = terminal.context,
                   !.category = IF terminal.known THEN @ ELSE terminal.category,
                   !.stage = IF terminal.known /\ terminal.context = Root THEN "act" ELSE "list"]]
    /\ terminal' = [terminal EXCEPT !.busy = TRUE]
    /\ UNCHANGED <<listed, active, changes>>

-----------------------------------------------------------------------------
(***************************************************************************)
(* The server: one step for each read of a request.                        *)
(***************************************************************************)
Serving(s, stage) == calls[s].stage = stage

\* What was asked for does not matter any more when it is answered.
Step(s, call) ==
    /\ calls' = [calls EXCEPT ![s] =
          IF call.stage = "answered" THEN [call EXCEPT !.wanted = Root, !.category = RootCategory]
          ELSE call]
    /\ UNCHANGED <<listed, active, changes, acts, terminal>>

\* Which context a call is resolving.
Sought(call) == IF call.resolving = "current" THEN call.given ELSE call.wanted

\* Mutant: what the handler throws is not caught.
Uncaught(call) == [call EXCEPT !.stage = "answered", !.exit = "failed"]
\* NotFoundError: of the context given it ends the request, of what the
\* command asks for it is the command's exit code.
NotFound(call) ==
    [call EXCEPT !.stage = "answered",
       !.exit = IF call.resolving = "next" \/ call.stage \in {"act", "second"}
                THEN "refused" ELSE "failed"]

\* listPublic: the rows first.
ListLabs(s) ==
    /\ Serving(s, "list")
    /\ Step(s, [calls[s] EXCEPT !.stage = "find",
          !.seen = {l \in Public :
              \/ Sought(calls[s]) = Root
              \/ CliDomain[l] = CliDomain[Sought(calls[s]).lab]}])

\* Whether the lab and the target are there to be read.
Found(context) ==
    /\ context.lab \in Public
    /\ context.target # NoName => context.target \in listed[context.lab].targets

\* Mutant: the first lab stands for the target, too.
BootstrappedTwice(call) ==
    LET own == {l \in call.seen : CliDomain[l] = call.category} IN
    IF own = {} THEN Root ELSE [lab |-> FirstIn(own), target |-> FirstIn(own)]
\* A bootstrap takes the category's first lab, or no lab.
Bootstrapped(call) ==
    LET own == {l \in call.seen : CliDomain[l] = call.category} IN
    IF own = {} THEN Root ELSE [lab |-> FirstIn(own), target |-> NoName]

\* ... then a manifest of each, one missing failing them all.  A bootstrap
\* resolves the lab it found; else the lab is sought among them, its state
\* read, the target sought in it, and the context read again.
FindContext(s) ==
    LET call == calls[s]
        sought == Sought(call)
        done == [call EXCEPT !.seen = {}]
    IN  /\ Serving(s, "find")
        /\ Step(s,
             IF ~(call.seen \subseteq Public) THEN NotFound(done)
             ELSE IF sought # Root
             THEN IF sought.lab \in call.seen /\ Found(sought)
                  THEN [done EXCEPT !.context = sought, !.stage = "mode"]
                  ELSE NotFound(done)
             ELSE IF call.resolving = "next" \* ctx list
             THEN [done EXCEPT !.stage = "answered"]
             ELSE IF Bootstrapped(call) # Root
             THEN [done EXCEPT !.given = Bootstrapped(call), !.stage = "list"]
             ELSE [done EXCEPT !.stage = IF call.verb = "bootstrap" THEN "answered" ELSE "act"])

\* Mutant: the overlay is not looked up.
ModeRecorded(call) == FALSE
\* withScenarioRuntime: ctx <context-id> passes no session on.
ModeOf(call) ==
    call.context.lab \in active /\ ~(call.verb = "bare" /\ call.resolving = "next")

ResolveMode(s) ==
    LET call == calls[s] IN
    /\ Serving(s, "mode")
    /\ Step(s, IF call.context.lab \notin Public THEN
                  NotFound([call EXCEPT !.context = IF call.resolving = "next" THEN call.given ELSE @])
               ELSE [call EXCEPT !.simulated = ModeOf(call),
                       !.stage = IF call.resolving = "next" \/ call.verb = "bootstrap"
                                 THEN "answered" ELSE "act"])

Answering(call, exit) == [call EXCEPT !.stage = "answered", !.exit = exit]
Resolving(call, context) ==
    [call EXCEPT !.stage = "list", !.resolving = "next", !.given = call.context,
       !.wanted = context]

\* A switch to PORTFOLIO reads nothing.
ToRoot(call) ==
    call.verb = "root" \/ (call.verb \in {"switch", "bare"} /\ call.wanted = Root)

Act(s) ==
    LET call == calls[s]
        here == call.context
    IN  /\ Serving(s, "act") /\ call.verb \notin {"run", "restore"}
        /\ Step(s,
             IF call.verb = "say" THEN Answering(call, "ok")
             ELSE IF ToRoot(call)
             THEN [Answering(call, "ok") EXCEPT !.context = Root, !.simulated = FALSE]
             ELSE IF call.verb \in {"list", "switch", "bare"} THEN Resolving(call, call.wanted)
             ELSE IF here = Root
             THEN Answering(call, IF call.verb = "inspect" THEN "ok" ELSE "refused")
             ELSE IF here.lab \notin Public \/ (call.verb = "show" /\ ~Found(here))
             THEN NotFound(call)
             ELSE CASE call.verb \in {"show", "inspect"} -> Answering(call, "ok")
                    [] call.verb = "status" -> Resolving(call, here)
                    [] OTHER -> [call EXCEPT !.stage = "second"])

\* scenario run, remediate, reset: a conflict, or the effect.
ActScenario(s) ==
    LET call == calls[s]
        lab == call.context.lab
        after == IF call.verb = "run" THEN active \cup {lab} ELSE active \ {lab}
    IN  /\ Serving(s, "act") /\ call.verb \in {"run", "restore"}
        /\ IF call.context = Root \/ lab \notin Public \/ after = active
           THEN Step(s, Answering(call, "refused"))
           ELSE /\ changes < OverlayBound
                /\ changes' = changes + 1
                /\ active' = after
                /\ calls' = [z \in Slots |->
                      IF z = s THEN Resolving(call, call.context)
                      ELSE [calls[z] EXCEPT !.moved = @ \/ Busy(z)]]
                /\ UNCHANGED <<listed, acts, terminal>>

\* show health, bgp, ospf, gateway: the operations read the state once more.
SecondRead(s) ==
    /\ Serving(s, "second")
    /\ Step(s, IF calls[s].context.lab \in Public THEN Answering(calls[s], "ok")
               ELSE NotFound(calls[s]))

-----------------------------------------------------------------------------
(***************************************************************************)
(* Answers: a request also may not arrive, or its answer may not.          *)
(***************************************************************************)
\* Mutant: one that fails leaves the terminal busy.
BootstrapShown ==
    LET call == calls["boot"] IN
    /\ Settles
    /\ \/ call.stage = "answered" /\ call.exit = "ok"
          /\ terminal' = [terminal EXCEPT !.context = call.context, !.simulated = call.simulated,
                            !.known = TRUE, !.busy = FALSE]
       \/ call.stage # "idle" /\ UNCHANGED terminal
    /\ calls' = [calls EXCEPT !["boot"] = NoCallOf]
    /\ UNCHANGED <<listed, active, changes, acts>>
BootstrapAnswered ==
    LET call == calls["boot"] IN
    /\ Settles
    /\ \/ call.stage = "answered" /\ call.exit = "ok"
          /\ terminal' = [terminal EXCEPT !.context = call.context, !.simulated = call.simulated,
                            !.known = TRUE, !.busy = FALSE]
       \/ call.stage # "idle" /\ terminal' = [terminal EXCEPT !.busy = FALSE]
    /\ calls' = [calls EXCEPT !["boot"] = NoCallOf]
    /\ UNCHANGED <<listed, active, changes, acts>>

CommandAnswered(s) ==
    LET call == calls[s] IN
    /\ Settles /\ s # "boot"
    /\ \/ call.stage = "answered" /\ call.exit # "failed"
          /\ terminal' = [terminal EXCEPT !.context = call.context, !.simulated = call.simulated,
                            !.known = TRUE, !.busy = FALSE]
       \/ call.stage # "idle"
          /\ terminal' = [terminal EXCEPT !.busy = FALSE]
    /\ calls' = [calls EXCEPT ![s] = NoCallOf]
    /\ UNCHANGED <<listed, active, changes, acts>>

-----------------------------------------------------------------------------
CliNext ==
    \/ \E l \in CliLabs : CliWithdraw(l) \/ PanelChanges(l)
                          \/ \E t \in CliTargets : CliRemoveTarget(l, t)
    \/ ToggleTerminal \/ TerminalEffect
    \/ \E c \in PageCategories : ChooseCategory(c)
    \/ \E v \in CliVerbs, c \in Contexts :
          (v \notin {"switch", "bare"} => c = Root) /\ EnterCommand(v, c)
    \/ \E s \in Slots :
          ListLabs(s) \/ FindContext(s) \/ ResolveMode(s) \/ Act(s) \/ ActScenario(s) \/ SecondRead(s)
    \/ BootstrapAnswered
    \/ \E s \in Slots : CommandAnswered(s)

CliSpec == CliInit /\ [][CliNext]_cliVars

-----------------------------------------------------------------------------
(***************************************************************************)
(* Properties.                                                             *)
(***************************************************************************)
Answered(s) == calls[s].stage = "answered"

\* A request fails only if the context it is given is gone, or goes while it
\* runs: what a command asks for and does not find is the command's failure,
\* shown with an exit code, and leaves the context alone.
FailureExplained ==
    \A s \in Slots : Answered(s) /\ calls[s].exit = "failed" =>
        calls[s].disturbed \/ ~Found(calls[s].given)

\* What a command was answered and the mode it is answered with are those of
\* one state of the session, unless the state changed while it ran; ctx
\* <context-id> apart.
ModeFits ==
    \A s \in Slots :
        Answered(s) /\ calls[s].exit = "ok" /\ ~calls[s].moved /\ calls[s].context # Root
        /\ calls[s].verb # "bare" => calls[s].simulated = (calls[s].context.lab \in active)

\* The terminal is not left busy: not by a bootstrap cancelled because it was
\* closed or the category changed, and not by one that is not begun.
NeverStuck ==
    terminal.open /\ terminal.rendered /\ (\A s \in Slots : calls[s].stage = "idle") =>
        ~terminal.busy

\* What a command is answered fits the session it was given in: its failure is
\* the context's, and its mode the overlay's.
AnswerFits == FailureExplained /\ ModeFits
=============================================================================
