---------------------------- MODULE MCPortfolio ----------------------------
(***************************************************************************)
(* Small instances of the portfolio lifecycle for TLC.  Two contents, one  *)
(* fit for release and one not, are all that validation tells apart.       *)
(***************************************************************************)
EXTENDS PortfolioLifecycle, TLC

MCContents == {"fit", "unfit"}
MCFit == {"fit"}

\* IN_PROGRESS and PLANNED differ in nothing these operations test.
MCOpenLifecycles == {"COMPLETED", "PLANNED"}

MCSymmetry == Permutations(Labs) \cup Permutations(Admins) \cup Permutations(Projects)
=============================================================================
