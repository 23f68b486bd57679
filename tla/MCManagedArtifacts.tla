------------------------ MODULE MCManagedArtifacts ------------------------
(***************************************************************************)
(* Small instances of the managed artifacts for TLC.                       *)
(***************************************************************************)
EXTENDS ManagedArtifacts, TLC

\* All digests share one directory, so that one listing covers several files.
MCPrefixes == {"directory"}
MCPrefix == [d \in Digests |-> "directory"]

MCSymmetry ==
    Permutations(Digests) \cup Permutations(Ids \ Attachable) \cup Permutations(Attachable)
    \cup Permutations(Uploads) \cup Permutations(Deletions)
=============================================================================
