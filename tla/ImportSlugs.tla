----------------------------- MODULE ImportSlugs -----------------------------
(***************************************************************************)
(* The slugs an import gives its labs.  The dry run looks every slug up,   *)
(* one read at a time, and in RENAME mode goes on to the first free suffix *)
(* not given to an earlier lab of the bundle; the import inserts all labs  *)
(* in one transaction, where the unique index has the last word.           *)
(***************************************************************************)
EXTENDS Naturals, Sequences, FiniteSets

CONSTANTS
    Slugs,          \* the slugs labs may have
    Suffixed,       \* Suffixed[s]: s and then its suffixes, in order
    Bundles,        \* sequences of the slugs of a bundle's labs
    Importers       \* slots for concurrent imports

ASSUME SlugsAssumption ==
    /\ Suffixed \in [Slugs -> Seq(Slugs)]
    /\ \A s \in Slugs : Suffixed[s] # <<>> /\ Suffixed[s][1] = s
    /\ \A b \in Bundles : b \in Seq(Slugs)

VARIABLES
    slugs,          \* the slugs of the Lab rows
    importer,       \* importer[i]: an import in progress
    rivalled,       \* auxiliary: imports beside which another slug was taken
    refusedFree     \* auxiliary: an unrivalled import met the unique index

slugVars == <<slugs, importer, rivalled, refusedFree>>

-----------------------------------------------------------------------------
NoImport == [at |-> "idle"]

\* proposed: slugs found for the labs so far; next: the candidate's place.
ImportInProgress ==
    [at: {"resolve", "insert"}, bundle: Bundles, rename: BOOLEAN,
     proposed: Seq(Slugs), next: Nat]

SlugsTypeOK ==
    /\ slugs \subseteq Slugs
    /\ importer \in [Importers -> {NoImport} \cup ImportInProgress]
    /\ rivalled \subseteq Importers /\ refusedFree \in BOOLEAN

SlugsInit ==
    /\ slugs = {}
    /\ importer = [i \in Importers |-> NoImport]
    /\ rivalled = {}
    /\ refusedFree = FALSE

\* Mutant: earlier labs of the bundle are not looked at.
ProposedNothing(i) == {}
Proposed(i) == {importer[i].proposed[n] : n \in DOMAIN importer[i].proposed}

DryRunBegins(i, b, rename) ==
    /\ importer[i] = NoImport
    /\ importer' = [importer EXCEPT ![i] =
          [at |-> "resolve", bundle |-> b, rename |-> rename, proposed |-> <<>>, next |-> 1]]
    /\ rivalled' = rivalled \ {i}
    /\ UNCHANGED <<slugs, refusedFree>>

\* Mutant: the slot is not given back.
EndsKeeping(i) == importer' = [importer EXCEPT ![i] = [at |-> "done"]]
Ends(i) == importer' = [importer EXCEPT ![i] = NoImport]

\* resolveLabSlug's next look-up.  Bound: the suffixes of Suffixed.
ResolveSlug(i) ==
    LET r == importer[i]
        candidates == Suffixed[r.bundle[Len(r.proposed) + 1]]
        taken == candidates[r.next] \in slugs \cup Proposed(i)
    IN
    /\ r.at = "resolve"
    /\ Len(r.proposed) < Len(r.bundle)
    /\ \/ /\ ~taken
          /\ importer' = [importer EXCEPT ![i].proposed = Append(@, candidates[r.next]),
                                          ![i].next = 1]
       \/ /\ taken /\ r.rename /\ r.next < Len(candidates)
          /\ importer' = [importer EXCEPT ![i].next = @ + 1]
       \/ /\ taken /\ (~r.rename \/ r.next = Len(candidates))
          /\ Ends(i)
    /\ UNCHANGED <<slugs, rivalled, refusedFree>>

DryRunAnswers(i) ==
    /\ importer[i].at = "resolve"
    /\ Len(importer[i].proposed) = Len(importer[i].bundle)
    /\ \/ importer' = [importer EXCEPT ![i].at = "insert"]
       \/ Ends(i)
    /\ UNCHANGED <<slugs, rivalled, refusedFree>>

Rivals(i) == {j \in Importers \ {i} : importer[j] # NoImport}

\* All labs or none.
ImportInserts(i) ==
    LET proposed == importer[i].proposed
        fits == /\ Proposed(i) \cap slugs = {}
                /\ \A m, n \in DOMAIN proposed : proposed[m] = proposed[n] => m = n
    IN
    /\ importer[i].at = "insert"
    /\ \/ /\ fits
          /\ slugs' = slugs \cup Proposed(i)
          /\ rivalled' = rivalled \cup Rivals(i)
          /\ UNCHANGED refusedFree
       \/ /\ ~fits
          /\ refusedFree' = (refusedFree \/ i \notin rivalled)
          /\ UNCHANGED <<slugs, rivalled>>
    /\ Ends(i)

\* A lab is created with a slug of its own, duplicated, renamed or deleted.
SlugTaken(s) ==
    /\ s \notin slugs
    /\ slugs' = slugs \cup {s}
    /\ rivalled' = rivalled \cup {i \in Importers : importer[i] # NoImport}
    /\ UNCHANGED <<importer, refusedFree>>

SlugFreed(s) ==
    /\ s \in slugs
    /\ slugs' = slugs \ {s}
    /\ UNCHANGED <<importer, rivalled, refusedFree>>

SlugsNext ==
    \/ \E i \in Importers :
          \/ \E b \in Bundles, rename \in BOOLEAN : DryRunBegins(i, b, rename)
          \/ ResolveSlug(i) \/ DryRunAnswers(i) \/ ImportInserts(i)
    \/ \E s \in Slugs : SlugTaken(s) \/ SlugFreed(s)

SlugsSpec == SlugsInit /\ [][SlugsNext]_slugVars

-----------------------------------------------------------------------------
\* An import whose dry run passed is inserted unless another writer took a
\* slug in between: the labs of one bundle never stand in each other's way.
UnrivalledImportFits == ~refusedFree
==============================================================================
