-------------------------- MODULE PortfolioRelease --------------------------
(***************************************************************************)
(* What the portfolio promises about going public: only two operations     *)
(* release anything, each judges exactly the state it releases, and        *)
(* everything else can only hold back or withdraw.                         *)
(***************************************************************************)
CONSTANTS
    Projects,
    Labs,
    Fit         \* the lab contents validation finds no error in

VARIABLES
    project,    \* project[p]: status, lifecycle and soundness of its own fields
    lab         \* lab[l]: status, project and content

vars == <<project, lab>>

\* Statuses reached from s without a release.  A deleted id is never reused.
Below(s) ==
    CASE s = "absent"    -> {"absent", "DRAFT"}
      [] s = "DRAFT"     -> {"DRAFT", "ARCHIVED", "deleted"}
      [] s = "READY"     -> {"READY", "ARCHIVED", "deleted"}
      [] s = "PUBLISHED" -> {"PUBLISHED", "DRAFT", "ARCHIVED", "deleted"}
      [] s = "ARCHIVED"  -> {"ARCHIVED", "deleted"}
      [] s = "deleted"   -> {"deleted"}

Init ==
    /\ \A p \in Projects : project[p].status = "absent"
    /\ \A l \in Labs : lab[l].status = "absent"

\* A lab may be released when it is not archived and its content is fit.
Releasable(l) == lab[l].status \in {"DRAFT", "READY"} /\ lab[l].content \in Fit

\* S is released exactly as it stands.
Released(S) ==
    \A l \in S : /\ lab'[l].status = "READY"
                 /\ lab'[l].content = lab[l].content
                 /\ lab'[l].project = lab[l].project

Publish(p, S) ==
    /\ project[p].status \in {"DRAFT", "PUBLISHED"}
    /\ project[p].lifecycle = "COMPLETED"
    /\ project[p].sound
    /\ S # {}
    /\ \A l \in S : Releasable(l) /\ lab[l].project = p
    /\ project'[p].status = "PUBLISHED"
    /\ project'[p].lifecycle = "COMPLETED"
    /\ \A other \in Projects \ {p} : project'[other] = project[other]
    /\ Released(S)
    /\ \A l \in Labs \ S : lab'[l] = lab[l]

MarkReady(l) ==
    /\ Releasable(l)
    /\ Released({l})
    /\ \A other \in Labs \ {l} : lab'[other] = lab[other]
    /\ project' = project

\* Creation, edits, archiving, restoring a project to DRAFT and deletion.
Maintain ==
    /\ \A p \in Projects :
          project'[p].status \in Below(project[p].status)
              \cup (IF project[p].status = "ARCHIVED" THEN {"DRAFT"} ELSE {})
    /\ \A l \in Labs : lab'[l].status \in Below(lab[l].status)

Next ==
    \/ \E p \in Projects, S \in SUBSET Labs : Publish(p, S)
    \/ \E l \in Labs : MarkReady(l)
    \/ Maintain

Spec == Init /\ [][Next]_vars
=============================================================================
