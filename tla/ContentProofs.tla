---------------------------- MODULE ContentProofs ----------------------------
(***************************************************************************)
(* Proofs about what administrators edit outside the Orchestrator's        *)
(* lifecycle: LabInputs, ImportSlugs, BundleExchange, LabTopology,         *)
(* LabDomains and SeedReconciliation.                                      *)
(*                                                                         *)
(* The arguments have one form: what a request, a transaction or a run has *)
(* read holds until somebody writes beside it, and the auxiliary variables *)
(* of these modules remember who did.  For each there is an invariant that *)
(* says what it has read and written so far unless one of them is set, and *)
(* a lemma per step that says what the step leaves of the others'.  The    *)
(* exchange of bundles needs no such care; its proof is about the lists a  *)
(* file has for a lab's sets, which the dry run checks and the import      *)
(* inserts.                                                                *)
(***************************************************************************)
EXTENDS MCContent, FiniteSetTheorems, SequenceTheorems, TLAPS

-----------------------------------------------------------------------------
(***************************************************************************)
(* The inputs of a lab.                                                    *)
(***************************************************************************)
\* A request that is to make its input primary, and read nothing stale, found
\* no other primary input and there is none still.
PrimaryToCome(w) ==
    inputWriter[w] # NoWriter /\ inputWriter[w].to = "primary" =>
        inputWriter[w].changed \/ NoOtherPrimary(inputWriter[w].key)

InputsInv ==
    /\ InputsTypeOK /\ OnePrimary
    /\ inputRaced \/ \A w \in InputWriters : PrimaryToCome(w)

\* A write leaves nothing that another request has read unmarked.
LEMMA ChangingMarks ==
    ASSUME InputsTypeOK, NEW S, inputWriter' = Changing(S)
    PROVE  /\ inputWriter' \in [InputWriters -> {NoWriter} \cup InputWriter]
           /\ \A v \in InputWriters : inputWriter'[v] # NoWriter => inputWriter'[v].changed
<1>1. inputWriter \in [InputWriters -> {NoWriter} \cup InputWriter]
  BY DEF InputsTypeOK
<1>2. ASSUME NEW v \in InputWriters, v \notin S, inputWriter[v] # NoWriter
      PROVE  [inputWriter[v] EXCEPT !.changed = TRUE] \in InputWriter
             /\ [inputWriter[v] EXCEPT !.changed = TRUE].changed
  BY <1>1, <1>2 DEF InputWriter
<1>3. QED
  BY <1>2 DEF Changing

LEMMA MarkedArePrimary ==
    ASSUME \A v \in InputWriters : inputWriter'[v] # NoWriter => inputWriter'[v].changed
    PROVE  \A w \in InputWriters : PrimaryToCome(w)'
BY DEF PrimaryToCome

LEMMA CheckedKeeps ==
    ASSUME InputsInv, NEW w \in InputWriters, NEW k \in InputKeys, NEW to \in {"other", "primary"},
           InputChecked(w, k, to)
    PROVE  InputsInv'
<1> DEFINE r == [op |-> "write", key |-> k, from |-> inputs[k], to |-> to, changed |-> FALSE]
<1>1. /\ InputsTypeOK /\ inputWriter' = [inputWriter EXCEPT ![w] = r]
      /\ UNCHANGED <<inputs, inputRaced>> /\ (to = "primary" => NoOtherPrimary(k))
  BY DEF InputsInv, InputChecked
<1>2. r \in InputWriter /\ r # NoWriter
  <2>1. inputs[k] \in InputStates
    BY <1>1 DEF InputsTypeOK
  <2>2. r.op = "write" /\ NoWriter.op = "idle"
    BY DEF NoWriter
  <2>3. r # NoWriter
    BY <2>2
  <2>4. QED
    BY <2>1, <2>3 DEF InputWriter
<1>3. r.key = k /\ r.to = to
  OBVIOUS
<1> HIDE DEF r
<1>4. /\ inputWriter' \in [InputWriters -> {NoWriter} \cup InputWriter] /\ inputWriter'[w] = r
      /\ \A v \in InputWriters \ {w} : inputWriter'[v] = inputWriter[v]
  BY <1>1, <1>2 DEF InputsTypeOK
<1>5. InputsTypeOK' /\ OnePrimary'
  BY <1>1, <1>4 DEF InputsInv, InputsTypeOK, OnePrimary
<1>6. inputRaced' \/ \A v \in InputWriters : PrimaryToCome(v)'
  BY <1>1, <1>3, <1>4 DEF InputsInv, PrimaryToCome, NoOtherPrimary
<1>7. QED
  BY <1>5, <1>6 DEF InputsInv

LEMMA WrittenKeeps ==
    ASSUME InputsInv, NEW w \in InputWriters, InputWritten(w)
    PROVE  InputsInv'
<1> DEFINE r == inputWriter[w]
<1>1. /\ InputsTypeOK /\ r # NoWriter /\ inputs' = [inputs EXCEPT ![r.key] = r.to]
      /\ inputWriter' = Changing({w}) /\ inputRaced' = (inputRaced \/ r.changed)
  BY DEF InputsInv, InputWritten
<1>2. r.key \in InputKeys /\ r.to \in {"other", "primary"} /\ r.changed \in BOOLEAN
  BY <1>1 DEF InputsTypeOK, InputWriter
<1>3. InputsTypeOK' /\ \A v \in InputWriters : inputWriter'[v] # NoWriter => inputWriter'[v].changed
  BY <1>1, <1>2, ChangingMarks DEF InputsTypeOK, InputStates
<1>4. ASSUME ~inputRaced'
      PROVE  \A i, j \in InputKeys : inputs'[i] = "primary" /\ inputs'[j] = "primary" => i = j
  <2>1. /\ \A i, j \in InputKeys : inputs[i] = "primary" /\ inputs[j] = "primary" => i = j
        /\ r.to = "primary" => NoOtherPrimary(r.key)
    BY <1>1, <1>4 DEF InputsInv, OnePrimary, PrimaryToCome
  <2>2. \A i \in InputKeys : inputs'[i] = IF i = r.key THEN r.to ELSE inputs[i]
    BY <1>1, <1>2 DEF InputsTypeOK
  <2>3. QED
    BY <1>2, <2>1, <2>2 DEF NoOtherPrimary
<1>5. QED
  BY <1>3, <1>4, MarkedArePrimary DEF InputsInv, OnePrimary

LEMMA InputRefusedKeeps ==
    ASSUME InputsInv, NEW w \in InputWriters, InputRefused(w)
    PROVE  InputsInv'
<1>1. /\ inputWriter \in [InputWriters -> {NoWriter} \cup InputWriter]
      /\ inputWriter' = [inputWriter EXCEPT ![w] = NoWriter] /\ UNCHANGED <<inputs, inputRaced>>
  BY DEF InputsInv, InputsTypeOK, InputRefused
<1>2. /\ inputWriter' \in [InputWriters -> {NoWriter} \cup InputWriter]
      /\ \A v \in InputWriters : inputWriter'[v] \in {NoWriter, inputWriter[v]}
  BY <1>1
<1>3. QED
  BY <1>1, <1>2 DEF InputsInv, InputsTypeOK, OnePrimary, PrimaryToCome, NoOtherPrimary

LEMMA DeletedKeeps ==
    ASSUME InputsInv, NEW k \in InputKeys, InputDeleted(k)
    PROVE  InputsInv'
<1>1. /\ InputsTypeOK /\ inputs' = [inputs EXCEPT ![k] = "none"] /\ inputRaced' = inputRaced
      /\ inputWriter' = Changing({})
  BY DEF InputsInv, InputDeleted
<1>2. InputsTypeOK' /\ \A v \in InputWriters : inputWriter'[v] # NoWriter => inputWriter'[v].changed
  BY <1>1, ChangingMarks DEF InputsTypeOK, InputStates
<1>3. OnePrimary'
  BY <1>1 DEF InputsInv, InputsTypeOK, OnePrimary
<1>4. QED
  BY <1>2, <1>3, MarkedArePrimary DEF InputsInv

LEMMA BaselineKeeps ==
    ASSUME InputsInv, BaselineWritten
    PROVE  InputsInv'
<1>1. /\ InputsTypeOK /\ inputs' = [inputs EXCEPT ![BaselineKey] = "primary"]
      /\ inputWriter' = Changing({}) /\ BaselineKey \in InputKeys
      /\ inputRaced' = (inputRaced \/ ~NoOtherPrimary(BaselineKey))
  BY InputsAssumption DEF InputsInv, BaselineWritten
<1>2. InputsTypeOK' /\ \A v \in InputWriters : inputWriter'[v] # NoWriter => inputWriter'[v].changed
  <2>1. inputRaced' \in BOOLEAN /\ inputs' \in [InputKeys -> InputStates]
    BY <1>1 DEF InputsTypeOK, InputStates
  <2>2. QED
    BY <1>1, <2>1, ChangingMarks DEF InputsTypeOK
<1>3. OnePrimary'
  BY <1>1 DEF InputsInv, InputsTypeOK, OnePrimary, NoOtherPrimary
<1>4. QED
  BY <1>2, <1>3, MarkedArePrimary DEF InputsInv

LEMMA InputsInvariant == InputsSpec => []InputsInv
<1>1. InputsInit => InputsInv
  BY DEF InputsInit, InputsInv, InputsTypeOK, InputStates, OnePrimary, PrimaryToCome
<1>2. InputsInv /\ [InputsNext]_inputVars => InputsInv'
  <2> SUFFICES ASSUME InputsInv, [InputsNext]_inputVars PROVE InputsInv'
    OBVIOUS
  <2>1. CASE UNCHANGED inputVars
    BY <2>1 DEF inputVars, InputsInv, InputsTypeOK, OnePrimary, PrimaryToCome, NoOtherPrimary
  <2>2. ASSUME NEW w \in InputWriters, NEW k \in InputKeys, NEW to \in {"other", "primary"},
               InputChecked(w, k, to)
        PROVE  InputsInv'
    BY <2>2, CheckedKeeps
  <2>3. ASSUME NEW w \in InputWriters, InputWritten(w) \/ InputRefused(w) PROVE InputsInv'
    BY <2>3, WrittenKeeps, InputRefusedKeeps
  <2>4. ASSUME NEW k \in InputKeys, InputDeleted(k) PROVE InputsInv'
    BY <2>4, DeletedKeeps
  <2>5. CASE BaselineWritten
    BY <2>5, BaselineKeeps
  <2>6. QED
    BY <2>1, <2>2, <2>3, <2>4, <2>5 DEF InputsNext
<1>3. QED
  BY <1>1, <1>2, PTL DEF InputsSpec

(***************************************************************************)
(* The inputs of a lab, and what requests hold of them, keep their shape.  *)
(***************************************************************************)
THEOREM InputsTypeCorrect == InputsSpec => []InputsTypeOK
<1>1. InputsInv => InputsTypeOK
  BY DEF InputsInv
<1>2. QED
  BY <1>1, InputsInvariant, PTL

(***************************************************************************)
(* A lab has one primary input at most, whatever requests on its inputs    *)
(* interleave, until one of them writes over a stale read.                 *)
(***************************************************************************)
THEOREM OnePrimaryInput == InputsSpec => []OnePrimary
<1>1. InputsInv => OnePrimary
  BY DEF InputsInv
<1>2. QED
  BY <1>1, InputsInvariant, PTL

-----------------------------------------------------------------------------
(***************************************************************************)
(* The slugs of an import.                                                 *)
(***************************************************************************)
\* What is proposed is free, each once.
ProposesFree(r) ==
    /\ {r.proposed[n] : n \in DOMAIN r.proposed} \cap slugs = {}
    /\ \A m, n \in DOMAIN r.proposed : r.proposed[m] = r.proposed[n] => m = n

\* The next look-up is of a slug or a suffix it has.
LooksUp(r) ==
    Len(r.proposed) < Len(r.bundle) =>
        r.next \in 1..Len(Suffixed[r.bundle[Len(r.proposed) + 1]])

\* An import beside which nothing was taken can still insert what it proposes.
ImportSound(i) ==
    importer[i] # NoImport =>
        LooksUp(importer[i]) /\ (i \notin rivalled => ProposesFree(importer[i]))

SlugsInv ==
    SlugsTypeOK /\ ~refusedFree /\ \A i \in Importers : ImportSound(i)

LEMMA ImportFields ==
    ASSUME NEW r \in ImportInProgress
    PROVE  /\ r.at \in {"resolve", "insert"} /\ r.bundle \in Bundles /\ r.rename \in BOOLEAN
           /\ r.proposed \in Seq(Slugs) /\ r.next \in Nat /\ r # NoImport
<1>1. r.at # NoImport.at
  BY DEF ImportInProgress, NoImport
<1>2. QED
  BY <1>1 DEF ImportInProgress

\* A step of one import that leaves the rows alone.
LEMMA OwnStep ==
    ASSUME SlugsInv, NEW i \in Importers, NEW r \in {NoImport} \cup ImportInProgress,
           importer' = [importer EXCEPT ![i] = r], slugs' = slugs,
           rivalled' \subseteq Importers,
           \A j \in Importers \ {i} : j \in rivalled => j \in rivalled',
           refusedFree' = FALSE,
           r # NoImport => LooksUp(r) /\ (i \notin rivalled' => ProposesFree(r))
    PROVE  SlugsInv'
<1>1. /\ importer' \in [Importers -> {NoImport} \cup ImportInProgress] /\ importer'[i] = r
      /\ \A j \in Importers \ {i} : importer'[j] = importer[j]
  BY DEF SlugsInv, SlugsTypeOK
<1>2. SlugsTypeOK'
  BY <1>1 DEF SlugsInv, SlugsTypeOK
<1>3. ImportSound(i)'
  BY <1>1 DEF ImportSound, LooksUp, ProposesFree
<1>4. \A j \in Importers \ {i} : ImportSound(j)'
  BY <1>1 DEF SlugsInv, ImportSound, LooksUp, ProposesFree
<1>5. QED
  BY <1>2, <1>3, <1>4 DEF SlugsInv

LEMMA FirstCandidate ==
    ASSUME NEW b \in Bundles, NEW k \in 1..Len(b)
    PROVE  /\ b[k] \in Slugs /\ Suffixed[b[k]] \in Seq(Slugs) /\ 1 \in 1..Len(Suffixed[b[k]])
<1>1. b \in Seq(Slugs)
  BY SlugsAssumption
<1>2. b[k] \in Slugs
  BY <1>1
<1>3. Suffixed[b[k]] \in Seq(Slugs) /\ Suffixed[b[k]] # <<>>
  BY <1>2, SlugsAssumption
<1>4. QED
  BY <1>2, <1>3

LEMMA ImportBeginsKeeps ==
    ASSUME SlugsInv, NEW i \in Importers, NEW b \in Bundles, NEW rename \in BOOLEAN,
           DryRunBegins(i, b, rename)
    PROVE  SlugsInv'
<1>1. PICK r : r = [at |-> "resolve", bundle |-> b, rename |-> rename, proposed |-> <<>>,
                    next |-> 1]
  OBVIOUS
<1>2. r \in ImportInProgress /\ r.proposed = <<>> /\ r.bundle = b /\ r.next = 1
  BY <1>1 DEF ImportInProgress
<1>3. /\ importer' = [importer EXCEPT ![i] = r] /\ rivalled' = rivalled \ {i}
      /\ UNCHANGED <<slugs, refusedFree>>
  BY <1>1 DEF DryRunBegins
<1>4. rivalled \subseteq Importers /\ refusedFree = FALSE
  BY DEF SlugsInv, SlugsTypeOK
<1>5. 0 < Len(b) => 1 \in 1..Len(Suffixed[b[0 + 1]])
  <2>1. b \in Seq(Slugs)
    BY SlugsAssumption
  <2>2. 0 < Len(b) => 1 \in 1..Len(b)
    BY <2>1
  <2>3. QED
    BY <2>2, FirstCandidate
<1>6. LooksUp(r) /\ ProposesFree(r)
  BY <1>2, <1>5 DEF LooksUp, ProposesFree
<1>7. QED
  BY <1>2, <1>3, <1>4, <1>6, OwnStep

LEMMA ResolveKeeps ==
    ASSUME SlugsInv, NEW i \in Importers, ResolveSlug(i)
    PROVE  SlugsInv'
<1>1. PICK r : r = importer[i]
  OBVIOUS
<1>2. PICK k : k = Len(r.proposed) + 1
  OBVIOUS
<1>3. PICK candidates : candidates = Suffixed[r.bundle[k]]
  OBVIOUS
<1>4. PICK c : c = candidates[r.next]
  OBVIOUS
<1>5. /\ importer \in [Importers -> {NoImport} \cup ImportInProgress]
      /\ rivalled \subseteq Importers /\ refusedFree = FALSE /\ ImportSound(i)
      /\ UNCHANGED <<slugs, rivalled, refusedFree>> /\ r.at = "resolve"
      /\ Len(r.proposed) < Len(r.bundle)
  BY <1>1 DEF SlugsInv, SlugsTypeOK, ResolveSlug
<1>6. r \in ImportInProgress /\ r # NoImport
  BY <1>1, <1>5 DEF NoImport
<1>7. /\ r.proposed \in Seq(Slugs) /\ r.next \in Nat /\ r.bundle \in Bundles
      /\ r.bundle \in Seq(Slugs)
  BY <1>6, ImportFields, SlugsAssumption
<1>8. k \in 1..Len(r.bundle) /\ k \in Nat \ {0}
  BY <1>2, <1>5, <1>7
<1>9. candidates \in Seq(Slugs) /\ r.next \in 1..Len(candidates)
  BY <1>1, <1>2, <1>3, <1>5, <1>6, <1>7, <1>8, FirstCandidate DEF ImportSound, LooksUp
<1>10. c \in Slugs
  BY <1>4, <1>9
<1>11. Proposed(i) = {r.proposed[n] : n \in DOMAIN r.proposed}
  BY <1>1 DEF Proposed
<1>12. i \notin rivalled =>
         /\ {r.proposed[n] : n \in DOMAIN r.proposed} \cap slugs = {}
         /\ \A m, n \in DOMAIN r.proposed : r.proposed[m] = r.proposed[n] => m = n
  BY <1>1, <1>5, <1>6 DEF ImportSound, ProposesFree
<1>13. CASE /\ c \notin slugs \cup Proposed(i)
            /\ importer' = [importer EXCEPT ![i].proposed = Append(@, c), ![i].next = 1]
  <2>1. PICK s : s = Append(r.proposed, c)
    OBVIOUS
  <2>2. /\ s \in Seq(Slugs) /\ Len(s) = k /\ DOMAIN s = 1..k /\ s[k] = c
        /\ DOMAIN r.proposed = 1..(k - 1)
        /\ \A n \in 1..(k - 1) : s[n] = r.proposed[n]
    BY <1>2, <1>7, <1>8, <1>10, <2>1
  <2>3. PICK q : q = [r EXCEPT !.proposed = s, !.next = 1]
    OBVIOUS
  <2>4. importer' = [importer EXCEPT ![i] = q]
    BY <1>1, <1>5, <1>13, <2>1, <2>3
  <2>5. q \in ImportInProgress /\ q.proposed = s /\ q.next = 1 /\ q.bundle = r.bundle
    BY <1>6, <2>2, <2>3 DEF ImportInProgress
  <2>6. k < Len(r.bundle) => 1 \in 1..Len(Suffixed[r.bundle[k + 1]])
    <3>1. k < Len(r.bundle) => k + 1 \in 1..Len(r.bundle)
      BY <1>7, <1>8
    <3>2. QED
      BY <1>7, <3>1, FirstCandidate
  <2>7. i \notin rivalled =>
          /\ {s[n] : n \in DOMAIN s} \cap slugs = {}
          /\ \A m, n \in DOMAIN s : s[m] = s[n] => m = n
    <3> SUFFICES ASSUME i \notin rivalled
                 PROVE  /\ {s[n] : n \in DOMAIN s} \cap slugs = {}
                        /\ \A m, n \in DOMAIN s : s[m] = s[n] => m = n
      OBVIOUS
    <3>1. \A n \in DOMAIN s : n = k \/ n \in DOMAIN r.proposed
      BY <1>8, <2>2
    <3>2. \A n \in DOMAIN r.proposed : s[n] = r.proposed[n] /\ r.proposed[n] \in Proposed(i)
      BY <1>11, <2>2
    <3>3. \A n \in DOMAIN s : s[n] \notin slugs
      BY <1>12, <1>13, <2>2, <3>1, <3>2
    <3>4. \A m, n \in DOMAIN s : s[m] = s[n] => m = n
      BY <1>12, <1>13, <2>2, <3>1, <3>2
    <3>5. QED
      BY <3>3, <3>4
  <2>8. Len(q.proposed) + 1 = k + 1
    BY <2>2, <2>5
  <2>9. LooksUp(q) /\ (i \notin rivalled' => ProposesFree(q))
    BY <1>5, <2>2, <2>5, <2>6, <2>7, <2>8 DEF LooksUp, ProposesFree
  <2>10. QED
    BY <1>5, <2>4, <2>5, <2>9, OwnStep
<1>14. CASE /\ r.next < Len(candidates)
            /\ importer' = [importer EXCEPT ![i].next = @ + 1]
  <2>1. PICK q : q = [r EXCEPT !.next = r.next + 1]
    OBVIOUS
  <2>2. importer' = [importer EXCEPT ![i] = q]
    BY <1>1, <1>5, <1>14, <2>1
  <2>3. /\ q \in ImportInProgress /\ q.proposed = r.proposed /\ q.next = r.next + 1
        /\ q.bundle = r.bundle
    BY <1>6, <1>7, <2>1 DEF ImportInProgress
  <2>4. q.next \in 1..Len(Suffixed[q.bundle[Len(q.proposed) + 1]])
    BY <1>2, <1>3, <1>7, <1>9, <1>14, <2>3
  <2>5. LooksUp(q) /\ (i \notin rivalled' => ProposesFree(q))
    BY <1>5, <1>12, <2>3, <2>4 DEF LooksUp, ProposesFree
  <2>6. QED
    BY <1>5, <2>2, <2>3, <2>5, OwnStep
<1>15. CASE Ends(i)
  BY <1>5, <1>15, OwnStep DEF Ends
<1>16. QED
  BY <1>1, <1>2, <1>3, <1>4, <1>13, <1>14, <1>15 DEF ResolveSlug

LEMMA AnswersKeeps ==
    ASSUME SlugsInv, NEW i \in Importers, DryRunAnswers(i)
    PROVE  SlugsInv'
<1>1. PICK r : r = importer[i]
  OBVIOUS
<1>2. /\ importer \in [Importers -> {NoImport} \cup ImportInProgress]
      /\ rivalled \subseteq Importers /\ refusedFree = FALSE /\ ImportSound(i)
      /\ UNCHANGED <<slugs, rivalled, refusedFree>> /\ r.at = "resolve"
      /\ Len(r.proposed) = Len(r.bundle)
  BY <1>1 DEF SlugsInv, SlugsTypeOK, DryRunAnswers
<1>3. r \in ImportInProgress /\ r # NoImport
  BY <1>1, <1>2 DEF NoImport
<1>4. CASE importer' = [importer EXCEPT ![i].at = "insert"]
  <2>1. PICK q : q = [r EXCEPT !.at = "insert"]
    OBVIOUS
  <2>2. importer' = [importer EXCEPT ![i] = q]
    BY <1>1, <1>2, <1>4, <2>1
  <2>3. q \in ImportInProgress /\ q.proposed = r.proposed /\ q.bundle = r.bundle
    BY <1>3, <2>1 DEF ImportInProgress
  <2>4. r.proposed \in Seq(Slugs)
    BY <1>3, ImportFields
  <2>5. ~(Len(q.proposed) < Len(q.bundle))
    BY <1>2, <2>3, <2>4
  <2>6. LooksUp(q) /\ (i \notin rivalled' => ProposesFree(q))
    BY <1>1, <1>2, <1>3, <2>3, <2>5 DEF ImportSound, LooksUp, ProposesFree
  <2>7. QED
    BY <1>2, <2>2, <2>3, <2>6, OwnStep
<1>5. CASE Ends(i)
  BY <1>2, <1>5, OwnStep DEF Ends
<1>6. QED
  BY <1>4, <1>5 DEF DryRunAnswers

LEMMA InsertsKeeps ==
    ASSUME SlugsInv, NEW i \in Importers, ImportInserts(i)
    PROVE  SlugsInv'
<1> DEFINE proposed == importer[i].proposed
           fits == /\ Proposed(i) \cap slugs = {}
                   /\ \A m, n \in DOMAIN proposed : proposed[m] = proposed[n] => m = n
<1>1. /\ importer \in [Importers -> {NoImport} \cup ImportInProgress] /\ slugs \subseteq Slugs
      /\ rivalled \subseteq Importers /\ refusedFree = FALSE /\ ImportSound(i)
      /\ importer[i] # NoImport
  BY DEF SlugsInv, SlugsTypeOK, ImportInserts, NoImport
<1>2. importer[i] \in ImportInProgress
  BY <1>1
<1>3. Ends(i)
  BY DEF ImportInserts
<1>4. CASE fits
  <2>1. /\ slugs' = slugs \cup Proposed(i) /\ rivalled' = rivalled \cup Rivals(i)
        /\ refusedFree' = refusedFree
    BY <1>4 DEF ImportInserts
  <2>2. /\ importer' \in [Importers -> {NoImport} \cup ImportInProgress]
        /\ importer'[i] = NoImport
        /\ \A j \in Importers \ {i} : importer'[j] = importer[j]
    BY <1>1, <1>3 DEF Ends
  <2>3. Proposed(i) \subseteq Slugs
    <3>1. importer[i].proposed \in Seq(Slugs)
      BY <1>2, ImportFields
    <3>2. QED
      BY <3>1 DEF Proposed
  <2>4. SlugsTypeOK'
    BY <1>1, <2>1, <2>2, <2>3 DEF SlugsTypeOK, Rivals
  <2>5. \A j \in Importers \ {i} : importer[j] # NoImport => j \in rivalled'
    BY <2>1 DEF Rivals
  <2>6. QED
    BY <1>1, <2>1, <2>2, <2>4, <2>5 DEF SlugsInv, ImportSound, LooksUp
<1>5. CASE ~fits
  <2>1. /\ refusedFree' = (refusedFree \/ i \notin rivalled) /\ UNCHANGED <<slugs, rivalled>>
    BY <1>5 DEF ImportInserts
  <2>2. i \in rivalled
    BY <1>1, <1>5 DEF ImportSound, ProposesFree, Proposed
  <2>3. QED
    BY <1>1, <1>3, <2>1, <2>2, OwnStep DEF Ends
<1>6. QED
  BY <1>4, <1>5

LEMMA SlugsInvariant == SlugsSpec => []SlugsInv
<1>1. SlugsInit => SlugsInv
  BY DEF SlugsInit, SlugsInv, SlugsTypeOK, ImportSound
<1>2. SlugsInv /\ [SlugsNext]_slugVars => SlugsInv'
  <2> SUFFICES ASSUME SlugsInv, [SlugsNext]_slugVars PROVE SlugsInv'
    OBVIOUS
  <2>1. CASE UNCHANGED slugVars
    BY <2>1 DEF slugVars, SlugsInv, SlugsTypeOK, ImportSound, ProposesFree, LooksUp
  <2>2. ASSUME NEW i \in Importers, NEW b \in Bundles, NEW rename \in BOOLEAN,
               DryRunBegins(i, b, rename)
        PROVE  SlugsInv'
    BY <2>2, ImportBeginsKeeps
  <2>3. ASSUME NEW i \in Importers, ResolveSlug(i) \/ DryRunAnswers(i) \/ ImportInserts(i)
        PROVE  SlugsInv'
    BY <2>3, ResolveKeeps, AnswersKeeps, InsertsKeeps
  <2>4. ASSUME NEW s \in Slugs, SlugTaken(s) PROVE SlugsInv'
    <3>1. /\ SlugsTypeOK /\ refusedFree = FALSE /\ importer' = importer
          /\ refusedFree' = refusedFree /\ slugs' = slugs \cup {s}
          /\ rivalled' = rivalled \cup {i \in Importers : importer[i] # NoImport}
      BY <2>4 DEF SlugTaken, SlugsInv
    <3>2. SlugsTypeOK'
      BY <3>1 DEF SlugsTypeOK
    <3>3. QED
      BY <3>1, <3>2 DEF SlugsInv, ImportSound, LooksUp
  <2>5. ASSUME NEW s \in Slugs, SlugFreed(s) PROVE SlugsInv'
    BY <2>5 DEF SlugFreed, SlugsInv, SlugsTypeOK, ImportSound, ProposesFree, LooksUp
  <2>6. QED
    BY <2>1, <2>2, <2>3, <2>4, <2>5 DEF SlugsNext
<1>3. QED
  BY <1>1, <1>2, PTL DEF SlugsSpec

(***************************************************************************)
(* Slugs taken and the imports in progress keep their shape.               *)
(***************************************************************************)
THEOREM SlugsTypeCorrect == SlugsSpec => []SlugsTypeOK
<1>1. SlugsInv => SlugsTypeOK
  BY DEF SlugsInv
<1>2. QED
  BY <1>1, SlugsInvariant, PTL

(***************************************************************************)
(* What the dry run of an import proposes can be inserted, whatever other  *)
(* imports do, unless another writer took a slug while it was in progress. *)
(***************************************************************************)
THEOREM ImportFits == SlugsSpec => []UnrivalledImportFits
<1>1. SlugsInv => UnrivalledImportFits
  BY DEF SlugsInv, UnrivalledImportFits
<1>2. QED
  BY <1>1, SlugsInvariant, PTL

-----------------------------------------------------------------------------
(***************************************************************************)
(* Labs carried as a file: its lists first.                                *)
(***************************************************************************)
LEMMA LengthOf ==
    ASSUME NEW S, NEW n \in Nat, NEW s \in [1..n -> S]
    PROVE  s \in Seq(S) /\ Len(s) = n
<1>1. s \in Seq(S)
  BY SeqDef
<1>2. DOMAIN s = 1..Len(s) /\ Len(s) \in Nat /\ DOMAIN s = 1..n
  BY <1>1, LenProperties
<1>3. PICK m : m = Len(s)
  OBVIOUS
<1>4. m \in Nat /\ 1..m = 1..n
  BY <1>2, <1>3
<1>5. m = n
  BY <1>4
<1>6. QED
  BY <1>1, <1>3, <1>5

\* A finite set as a list has each element once.
LEMMA ListOfSet ==
    ASSUME NEW S, IsFiniteSet(S), NEW s, s = SetToSeq(S)
    PROVE  s \in Seq(S) /\ Distinct(s) /\ ToSet(s) = S
<1>1. PICK n : n = Cardinality(S)
  OBVIOUS
<1>2. n \in Nat /\ ExistsBijection(1..n, S)
  BY <1>1, FS_CardinalityType
<1>3. \E f \in [1..n -> S] : IsInjective(f)
  BY <1>2 DEF ExistsBijection, Bijection, Injection
<1>4. s \in [1..n -> S] /\ IsInjective(s)
  BY <1>1, <1>3 DEF SetToSeq
<1>5. IsFiniteSet(1..n) /\ Cardinality(1..n) = n
  BY <1>2, FS_Interval
<1>6. s \in Surjection(1..n, S)
  <2>1. s \in Injection(1..n, S)
    BY <1>4 DEF Injection
  <2>2. QED
    BY <1>1, <1>5, <2>1, FS_Injection
<1>7. ToSet(s) = S
  BY <1>4, <1>6 DEF ToSet, Surjection
<1>8. QED
  BY <1>2, <1>4, <1>7, LengthOf DEF Distinct, IsInjective

\* So has the list of what each element is mapped to, if no two to the same.
LEMMA FiniteImage ==
    ASSUME NEW S, IsFiniteSet(S), NEW T, NEW f \in [S -> T], \A t \in T : \E x \in S : f[x] = t
    PROVE  IsFiniteSet(T)
<1>1. f \in Surjection(S, T)
  BY DEF Surjection
<1>2. QED
  BY <1>1, FS_Surjection

-----------------------------------------------------------------------------
(***************************************************************************)
(* The file.                                                               *)
(***************************************************************************)
InputOfFile ==
    [key: BundleKeys, source: Sources, payload: BOOLEAN, url: BOOLEAN, artifact: BOOLEAN,
     primary: BOOLEAN]

File ==
    [schema: {"bundle", "companion"}, inputs: Seq(InputOfFile), nodes: Seq(NodeKeys),
     links: Seq(LinkRows), runbook: Seq(Nat), scenario: Scenarios,
     evidence: SUBSET Evidences, packet: BOOLEAN]

AsExported(f) ==
    \/ f = Bundle(exported)
    \/ \E k \in exported.primary : f = Companion(exported, k)

ExchangeInv ==
    /\ ExchangeTypeOK /\ exported \in LabContents
    /\ exchange = "home" => ~edited
    /\ exchange # "home" =>
          /\ file \in File /\ (file.packet => file.schema = "companion")
          /\ edited \/ AsExported(file)
    /\ exchange \in {"accepted", "imported", "failed"} => Valid(file)
    /\ exchange = "refused" => ~Valid(file)
    /\ exchange = "failed" => ~Insertable(file)
    /\ exchange = "imported" => result = Inserted(file)

LEMMA ContentFields ==
    ASSUME NEW c \in LabContents
    PROVE  /\ c \in LabContent
           /\ c.inputs \in [BundleKeys -> {"none"} \cup Sources] /\ c.primary \subseteq BundleKeys
           /\ c.nodes \subseteq NodeKeys /\ c.links \subseteq LinkRows
           /\ c.runbook \subseteq Nat \ {0} /\ c.scenario \in Scenarios
           /\ c.evidence \subseteq Evidences
           /\ \A k \in c.primary : c.inputs[k] # "none"
           /\ IsFiniteSet(c.nodes) /\ IsFiniteSet(c.links) /\ IsFiniteSet(c.runbook)
           /\ \A a, b \in c.links : a.key = b.key => a = b
BY ContentsAssumption DEF LabContent

LEMMA FileInputIs ==
    ASSUME NEW c \in LabContents, NEW k \in BundleKeys, c.inputs[k] # "none",
           NEW r, r = FileInput(c, k)
    PROVE  /\ r \in InputOfFile /\ SourceParses(r)
           /\ r.key = k /\ r.source = c.inputs[k] /\ (r.primary <=> k \in c.primary)
<1>1. c.inputs[k] \in Sources
  BY ContentFields
<1>2. PICK payload \in BOOLEAN : payload = (c.inputs[k] = "INLINE")
  OBVIOUS
<1>3. PICK url \in BOOLEAN : url = (c.inputs[k] = "EXTERNAL")
  OBVIOUS
<1>4. PICK artifact \in BOOLEAN : artifact = (c.inputs[k] = "ARTIFACT_REFERENCE")
  OBVIOUS
<1>5. PICK primary \in BOOLEAN : primary = (k \in c.primary)
  <2>1. CASE k \in c.primary
    <3>1. TRUE = (k \in c.primary)
      BY <2>1
    <3>2. QED
      BY <3>1
  <2>2. CASE k \notin c.primary
    <3>1. FALSE = (k \in c.primary)
      BY <2>2
    <3>2. QED
      BY <3>1
  <2>3. QED
    BY <2>1, <2>2
<1>6. r = [key |-> k, source |-> c.inputs[k], payload |-> payload, url |-> url,
           artifact |-> artifact, primary |-> primary]
  BY <1>2, <1>3, <1>4, <1>5, Zenon DEF FileInput
<1>7. /\ r \in InputOfFile /\ r.key = k /\ r.source = c.inputs[k] /\ r.payload = payload
      /\ r.url = url /\ r.artifact = artifact /\ r.primary = primary
  BY <1>1, <1>6 DEF InputOfFile
<1>8. SourceParses(r)
  BY <1>1, <1>2, <1>3, <1>4, <1>7 DEF SourceParses, Sources
<1>9. QED
  BY <1>5, <1>7, <1>8

\* The list of a lab's inputs.
InputSet(c) == {FileInput(c, k) : k \in {j \in BundleKeys : c.inputs[j] # "none"}}

LEMMA InputListIs ==
    ASSUME NEW c \in LabContents, NEW s, s = SetToSeq(InputSet(c))
    PROVE  /\ s \in Seq(InputOfFile) /\ Distinct(KeysOf(s))
           /\ \A i \in DOMAIN s :
                 \E k \in BundleKeys : c.inputs[k] # "none" /\ s[i] = FileInput(c, k)
           /\ \A k \in BundleKeys :
                 c.inputs[k] # "none" => \E i \in DOMAIN s : s[i] = FileInput(c, k)
<1> DEFINE K == {j \in BundleKeys : c.inputs[j] # "none"}
<1>1. IsFiniteSet(K)
  BY ExchangeAssumption, FS_Subset
<1>2. IsFiniteSet(InputSet(c))
  <2>1. PICK f : f = [k \in K |-> FileInput(c, k)]
    OBVIOUS
  <2>2. f \in [K -> InputSet(c)] /\ \A t \in InputSet(c) : \E k \in K : f[k] = t
    BY <2>1 DEF InputSet
  <2>3. QED
    BY <1>1, <2>2, FiniteImage
<1>3. s \in Seq(InputSet(c)) /\ Distinct(s) /\ ToSet(s) = InputSet(c)
  BY <1>2, ListOfSet
<1>4. InputSet(c) \subseteq InputOfFile
  BY FileInputIs DEF InputSet
<1>5. s \in Seq(InputOfFile)
  BY <1>3, <1>4, SeqMonotonic
<1>6. \A i \in DOMAIN s : s[i] \in InputSet(c)
  BY <1>3 DEF ToSet
<1>7. \A i \in DOMAIN s : \E k \in BundleKeys : c.inputs[k] # "none" /\ s[i] = FileInput(c, k)
  BY <1>6 DEF InputSet
<1>8. \A k \in BundleKeys : c.inputs[k] # "none" => \E i \in DOMAIN s : s[i] = FileInput(c, k)
  BY <1>3 DEF ToSet, InputSet
<1>9. Distinct(KeysOf(s))
  <2>1. ASSUME NEW i \in DOMAIN s, NEW j \in DOMAIN s, s[i].key = s[j].key PROVE i = j
    <3>1. PICK k \in BundleKeys : c.inputs[k] # "none" /\ s[i] = FileInput(c, k)
      BY <1>7
    <3>2. PICK l \in BundleKeys : c.inputs[l] # "none" /\ s[j] = FileInput(c, l)
      BY <1>7
    <3>3. k = l
      BY <2>1, <3>1, <3>2, FileInputIs
    <3>4. QED
      BY <1>3, <3>1, <3>2, <3>3 DEF Distinct
  <2>2. QED
    BY <2>1 DEF Distinct, KeysOf
<1>10. QED
  BY <1>5, <1>7, <1>8, <1>9

\* The bundle of a lab lists what the lab has, each once.
BundleLists(c, f) ==
    /\ f \in File /\ f.schema = "bundle" /\ ~f.packet
    /\ f.scenario = c.scenario /\ f.evidence = c.evidence
    /\ Distinct(KeysOf(f.inputs))
    /\ \A i \in DOMAIN f.inputs :
          \E k \in BundleKeys : c.inputs[k] # "none" /\ f.inputs[i] = FileInput(c, k)
    /\ \A k \in BundleKeys :
          c.inputs[k] # "none" => \E i \in DOMAIN f.inputs : f.inputs[i] = FileInput(c, k)
    /\ Distinct(f.nodes) /\ ToSet(f.nodes) = c.nodes
    /\ Distinct(KeysOf(f.links)) /\ ToSet(f.links) = c.links
    /\ Distinct(f.runbook) /\ ToSet(f.runbook) = c.runbook

LEMMA BundleIs ==
    ASSUME NEW c \in LabContents, NEW f, f = Bundle(c)
    PROVE  BundleLists(c, f)
<1>1. PICK listed : listed = SetToSeq(InputSet(c))
  OBVIOUS
<1>2. PICK nodes : nodes = SetToSeq(c.nodes)
  OBVIOUS
<1>3. PICK links : links = SetToSeq(c.links)
  OBVIOUS
<1>4. PICK runbook : runbook = SetToSeq(c.runbook)
  OBVIOUS
<1>5. f = [schema |-> "bundle", inputs |-> listed, nodes |-> nodes, links |-> links,
           runbook |-> runbook, scenario |-> c.scenario, evidence |-> c.evidence,
           packet |-> FALSE]
  BY <1>1, <1>2, <1>3, <1>4 DEF Bundle, InputSet
<1>6. listed \in Seq(InputOfFile)
  BY <1>1, InputListIs
<1>7. nodes \in Seq(NodeKeys) /\ Distinct(nodes) /\ ToSet(nodes) = c.nodes
  <2>1. nodes \in Seq(c.nodes) /\ Distinct(nodes) /\ ToSet(nodes) = c.nodes
    BY <1>2, ContentFields, ListOfSet
  <2>2. QED
    BY <2>1, ContentFields, SeqMonotonic
<1>8. links \in Seq(LinkRows) /\ Distinct(links) /\ ToSet(links) = c.links
  <2>1. links \in Seq(c.links) /\ Distinct(links) /\ ToSet(links) = c.links
    BY <1>3, ContentFields, ListOfSet
  <2>2. QED
    BY <2>1, ContentFields, SeqMonotonic
<1>9. runbook \in Seq(Nat) /\ Distinct(runbook) /\ ToSet(runbook) = c.runbook
  <2>1. runbook \in Seq(c.runbook) /\ Distinct(runbook) /\ ToSet(runbook) = c.runbook
    BY <1>4, ContentFields, ListOfSet
  <2>2. c.runbook \subseteq Nat
    BY ContentFields
  <2>3. QED
    BY <2>1, <2>2, SeqMonotonic
<1>10. Distinct(KeysOf(links))
  <2>1. ASSUME NEW i \in DOMAIN links, NEW j \in DOMAIN links, links[i].key = links[j].key
        PROVE  i = j
    <3>1. links[i] \in c.links /\ links[j] \in c.links
      BY <1>8 DEF ToSet
    <3>2. links[i] = links[j]
      BY <2>1, <3>1, ContentFields
    <3>3. QED
      BY <1>8, <3>2 DEF Distinct
  <2>2. QED
    BY <2>1 DEF Distinct, KeysOf
<1>11. /\ f.schema = "bundle" /\ f.inputs = listed /\ f.nodes = nodes /\ f.links = links
       /\ f.runbook = runbook /\ f.scenario = c.scenario /\ f.evidence = c.evidence /\ ~f.packet
  BY <1>5
<1>12. f \in File
  BY <1>5, <1>6, <1>7, <1>8, <1>9, ContentFields DEF File
<1>13. QED
  BY <1>1, <1>7, <1>8, <1>9, <1>10, <1>11, <1>12, InputListIs DEF BundleLists

CompanionLists(c, k, f) ==
    /\ f \in File /\ f.schema = "companion" /\ f.scenario = "none"
    /\ f.inputs = <<FileInput(c, k)>> /\ f.runbook = <<>>
    /\ Distinct(f.nodes) /\ ToSet(f.nodes) = c.nodes
    /\ Distinct(KeysOf(f.links)) /\ ToSet(f.links) = c.links

LEMMA CompanionIs ==
    ASSUME NEW c \in LabContents, NEW k \in c.primary, NEW f, f = Companion(c, k)
    PROVE  CompanionLists(c, k, f)
<1>1. PICK b : b = Bundle(c)
  OBVIOUS
<1>2. BundleLists(c, b)
  BY <1>1, BundleIs
<1>3. PICK packet \in BOOLEAN : packet = (c.inputs[PacketKey] = "INLINE")
  OBVIOUS
<1>4. PICK listed : listed = <<FileInput(c, k)>>
  OBVIOUS
<1>5. f = [b EXCEPT !.schema = "companion", !.inputs = listed, !.runbook = <<>>,
                    !.scenario = "none", !.evidence = {}, !.packet = packet]
  BY <1>1, <1>3, <1>4, Zenon DEF Companion
<1>6. listed \in Seq(InputOfFile)
  <2>1. FileInput(c, k) \in InputOfFile
    BY ContentFields, FileInputIs
  <2>2. QED
    BY <1>4, <2>1
<1>7. PICK none : none = <<>>
  OBVIOUS
<1>8. none \in Seq(Nat)
  BY <1>7
<1>9. b \in File
  BY <1>2 DEF BundleLists
<1>10. /\ f \in File /\ f.schema = "companion" /\ f.scenario = "none" /\ f.inputs = listed
       /\ f.runbook = none /\ f.nodes = b.nodes /\ f.links = b.links
  BY <1>5, <1>6, <1>7, <1>8, <1>9 DEF File, Scenarios
<1>11. QED
  BY <1>2, <1>4, <1>7, <1>10 DEF BundleLists, CompanionLists

-----------------------------------------------------------------------------
(***************************************************************************)
(* The dry run of what was exported.                                       *)
(***************************************************************************)
LEMMA OnePrimaryOf ==
    ASSUME NEW c \in LabContents, Fit(c)
    PROVE  \E k \in BundleKeys : c.primary = {k} /\ c.inputs[k] # "none"
<1>1. c.primary \subseteq BundleKeys /\ IsFiniteSet(c.primary)
  BY ContentFields, ExchangeAssumption, FS_Subset
<1>2. PICK k : c.primary = {k}
  BY <1>1, FS_Singleton DEF Fit
<1>3. QED
  BY <1>1, <1>2, ContentFields

\* The checks of the dry run but for sources, duplicates and the primary input.
LEMMA RestIsValid ==
    ASSUME NEW c \in LabContents, Fit(c), NEW f \in File, f.scenario \in {"none", c.scenario},
           ToSet(f.nodes) = c.nodes, ToSet(f.links) = c.links
    PROVE  /\ \A i \in DOMAIN f.links :
                 /\ {f.links[i].from, f.links[i].to} \subseteq ToSet(f.nodes)
                 /\ f.links[i].from # f.links[i].to
           /\ f.scenario # "unsound"
BY DEF Fit, ToSet

LEMMA FitBundleValid ==
    ASSUME NEW c \in LabContents, Fit(c), NEW f, BundleLists(c, f)
    PROVE  Valid(f)
<1>1. /\ f \in File /\ Distinct(KeysOf(f.inputs)) /\ f.scenario = c.scenario
      /\ \A i \in DOMAIN f.inputs :
            \E k \in BundleKeys : c.inputs[k] # "none" /\ f.inputs[i] = FileInput(c, k)
      /\ \A k \in BundleKeys :
            c.inputs[k] # "none" => \E i \in DOMAIN f.inputs : f.inputs[i] = FileInput(c, k)
      /\ Distinct(f.nodes) /\ ToSet(f.nodes) = c.nodes
      /\ Distinct(KeysOf(f.links)) /\ ToSet(f.links) = c.links
      /\ Distinct(f.runbook) /\ ToSet(f.runbook) = c.runbook
  BY DEF BundleLists
<1>2. \A i \in DOMAIN f.inputs : SourceParses(f.inputs[i])
  BY <1>1, FileInputIs
<1>3. ExactlyOnePrimary(f)
  <2>1. PICK k \in BundleKeys : c.primary = {k} /\ c.inputs[k] # "none"
    BY OnePrimaryOf
  <2>2. PICK i \in DOMAIN f.inputs : f.inputs[i] = FileInput(c, k)
    BY <1>1, <2>1
  <2>3. f.inputs[i].key = k /\ f.inputs[i].primary
    BY <2>1, <2>2, FileInputIs
  <2>4. ASSUME NEW j \in DOMAIN f.inputs, f.inputs[j].primary PROVE j = i
    <3>1. PICK l \in BundleKeys : c.inputs[l] # "none" /\ f.inputs[j] = FileInput(c, l)
      BY <1>1
    <3>2. f.inputs[j].key = l /\ l \in c.primary
      BY <2>4, <3>1, FileInputIs
    <3>3. f.inputs[j].key = f.inputs[i].key
      BY <2>1, <2>3, <3>2
    <3>4. QED
      BY <1>1, <3>3 DEF Distinct, KeysOf
  <2>5. {j \in DOMAIN f.inputs : f.inputs[j].primary} = {i}
    BY <2>2, <2>3, <2>4
  <2>6. QED
    BY <2>5, FS_Singleton DEF ExactlyOnePrimary
<1>4. NoDuplicates(f)
  BY <1>1 DEF NoDuplicates
<1>5. StepsFromOne(f)
  <2>1. ASSUME NEW i \in DOMAIN f.runbook PROVE f.runbook[i] >= 1
    <3>1. f.runbook[i] \in c.runbook
      BY <1>1 DEF ToSet
    <3>2. f.runbook[i] \in Nat \ {0}
      BY <3>1, ContentFields
    <3>3. QED
      BY <3>2
  <2>2. QED
    BY <2>1 DEF StepsFromOne
<1>6. QED
  BY <1>1, <1>2, <1>3, <1>4, <1>5, RestIsValid DEF Valid

LEMMA FitCompanionValid ==
    ASSUME NEW c \in LabContents, Fit(c), NEW k \in c.primary, NEW f, CompanionLists(c, k, f)
    PROVE  Valid(f)
<1>1. /\ f \in File /\ f.scenario = "none"
      /\ f.inputs = <<FileInput(c, k)>> /\ f.runbook = <<>>
      /\ Distinct(f.nodes) /\ ToSet(f.nodes) = c.nodes
      /\ Distinct(KeysOf(f.links)) /\ ToSet(f.links) = c.links
  BY DEF CompanionLists
<1>2. DOMAIN f.inputs = {1} /\ f.inputs[1] = FileInput(c, k) /\ DOMAIN f.runbook = {}
  BY <1>1
<1>3. SourceParses(f.inputs[1]) /\ f.inputs[1].primary
  BY <1>2, ContentFields, FileInputIs
<1>4. ExactlyOnePrimary(f)
  <2>1. {j \in DOMAIN f.inputs : f.inputs[j].primary} = {1}
    BY <1>2, <1>3
  <2>2. QED
    BY <2>1, FS_Singleton DEF ExactlyOnePrimary
<1>5. NoDuplicates(f) /\ StepsFromOne(f)
  BY <1>1, <1>2 DEF NoDuplicates, StepsFromOne, Distinct, KeysOf
<1>6. QED
  BY <1>1, <1>2, <1>3, <1>4, <1>5, RestIsValid DEF Valid

-----------------------------------------------------------------------------
(***************************************************************************)
(* What an import inserts.                                                 *)
(***************************************************************************)
\* A bundle's rows are those of the lab it was exported from.
LEMMA InsertedFromBundle ==
    ASSUME NEW c \in LabContents, NEW f, BundleLists(c, f)
    PROVE  Inserted(f) = c
<1>1. /\ f \in File /\ ~f.packet /\ Distinct(KeysOf(f.inputs)) /\ f.scenario = c.scenario
      /\ f.evidence = c.evidence
      /\ \A i \in DOMAIN f.inputs :
            \E k \in BundleKeys : c.inputs[k] # "none" /\ f.inputs[i] = FileInput(c, k)
      /\ \A k \in BundleKeys :
            c.inputs[k] # "none" => \E i \in DOMAIN f.inputs : f.inputs[i] = FileInput(c, k)
      /\ ToSet(f.nodes) = c.nodes /\ ToSet(f.links) = c.links /\ ToSet(f.runbook) = c.runbook
  BY DEF BundleLists
<1>2. InsertedInputs(f) = f.inputs
  BY <1>1 DEF InsertedInputs
<1>3. PICK rows : rows = f.inputs
  OBVIOUS
<1>4. PICK listed : listed = [k \in BundleKeys |->
                       IF {i \in DOMAIN rows : rows[i].key = k} = {} THEN "none"
                       ELSE rows[CHOOSE i \in {i \in DOMAIN rows : rows[i].key = k} : TRUE].source]
  OBVIOUS
<1>5. PICK primary : primary = {rows[i].key : i \in {j \in DOMAIN rows : rows[j].primary}}
  OBVIOUS
<1>6. listed = c.inputs
  <2>1. ASSUME NEW k \in BundleKeys PROVE listed[k] = c.inputs[k]
    <3>1. CASE c.inputs[k] = "none"
      <4>1. \A i \in DOMAIN rows : rows[i].key # k
        BY <1>1, <1>3, <3>1, FileInputIs
      <4>2. QED
        BY <1>4, <3>1, <4>1
    <3>2. CASE c.inputs[k] # "none"
      <4>1. PICK i \in DOMAIN rows : rows[i] = FileInput(c, k)
        BY <1>1, <1>3, <3>2
      <4>2. rows[i].key = k /\ rows[i].source = c.inputs[k]
        BY <3>2, <4>1, FileInputIs
      <4>3. \A j \in DOMAIN rows : rows[j].key = k => j = i
        BY <1>1, <1>3, <4>2 DEF Distinct, KeysOf
      <4>4. {j \in DOMAIN rows : rows[j].key = k} = {i}
        BY <4>2, <4>3
      <4>5. QED
        BY <1>4, <4>2, <4>4
    <3>3. QED
      BY <3>1, <3>2
  <2>2. c.inputs \in [BundleKeys -> {"none"} \cup Sources]
    BY ContentFields
  <2>3. QED
    BY <1>4, <2>1, <2>2
<1>7. primary = c.primary
  <2>1. ASSUME NEW k \in primary PROVE k \in c.primary
    <3>1. PICK i \in DOMAIN rows : rows[i].primary /\ k = rows[i].key
      BY <1>5
    <3>2. QED
      BY <1>1, <1>3, <3>1, FileInputIs
  <2>2. ASSUME NEW k \in c.primary PROVE k \in primary
    <3>1. k \in BundleKeys /\ c.inputs[k] # "none"
      BY ContentFields
    <3>2. PICK i \in DOMAIN rows : rows[i] = FileInput(c, k)
      BY <1>1, <1>3, <3>1
    <3>3. rows[i].key = k /\ rows[i].primary
      BY <3>1, <3>2, FileInputIs
    <3>4. QED
      BY <1>5, <3>3
  <2>3. QED
    BY <2>1, <2>2
<1>8. Inserted(f) = [inputs |-> listed, primary |-> primary, nodes |-> ToSet(f.nodes),
                     links |-> ToSet(f.links), runbook |-> ToSet(f.runbook),
                     scenario |-> f.scenario, evidence |-> f.evidence]
  <2>1. rows = InsertedInputs(f)
    BY <1>2, <1>3
  <2>2. QED
    BY <1>4, <1>5, <2>1 DEF Inserted
<1>9. Inserted(f) = [inputs |-> c.inputs, primary |-> c.primary, nodes |-> c.nodes,
                     links |-> c.links, runbook |-> c.runbook, scenario |-> c.scenario,
                     evidence |-> c.evidence]
  BY <1>1, <1>6, <1>7, <1>8, Zenon
<1>10. c \in LabContent
  BY ContentFields
<1>11. QED
  BY <1>9, <1>10 DEF LabContent

FileFields(f) ==
    /\ f.schema \in {"bundle", "companion"} /\ f.inputs \in Seq(InputOfFile)
    /\ f.nodes \in Seq(NodeKeys) /\ f.links \in Seq(LinkRows) /\ f.runbook \in Seq(Nat)
    /\ f.scenario \in Scenarios /\ f.evidence \subseteq Evidences /\ f.packet \in BOOLEAN

LEMMA FieldsOfFile ==
    ASSUME NEW f \in File
    PROVE  FileFields(f)
BY DEF File, FileFields

\* The packet reference comes after the inputs of the file.
LEMMA InsertedInputsAre ==
    ASSUME NEW f \in File, NEW rows, rows = InsertedInputs(f)
    PROVE  /\ rows \in Seq(InputOfFile) /\ DOMAIN f.inputs \subseteq DOMAIN rows
           /\ \A i \in DOMAIN f.inputs : rows[i] = f.inputs[i]
           /\ \A i \in DOMAIN rows \ DOMAIN f.inputs : f.packet /\ rows[i] = PacketInput
<1>1. PICK s : s = f.inputs
  OBVIOUS
<1>2. s \in Seq(InputOfFile)
  BY <1>1, FieldsOfFile DEF FileFields
<1>3. CASE ~f.packet
  <2>1. rows = s
    BY <1>1, <1>3 DEF InsertedInputs
  <2>2. QED
    BY <1>1, <1>2, <2>1
<1>4. CASE f.packet
  <2>1. PacketInput \in InputOfFile
    BY ExchangeAssumption DEF PacketInput, InputOfFile, Sources
  <2>2. PICK n : n = Len(s)
    OBVIOUS
  <2>3. n \in Nat /\ DOMAIN s = 1..n
    BY <1>2, <2>2
  <2>4. rows = Append(s, PacketInput)
    BY <1>1, <1>4 DEF InsertedInputs
  <2>5. /\ rows \in Seq(InputOfFile) /\ Len(rows) = n + 1
        /\ \A i \in 1..n : rows[i] = s[i]
        /\ rows[n + 1] = PacketInput
    BY <1>2, <2>1, <2>2, <2>3, <2>4
  <2>6. DOMAIN rows = 1..(n + 1)
    BY <2>5
  <2>7. \A i \in 1..(n + 1) : i \notin 1..n => i = n + 1
    BY <2>3
  <2>8. 1..n \subseteq 1..(n + 1)
    BY <2>3
  <2>9. QED
    BY <1>1, <1>4, <2>3, <2>5, <2>6, <2>7, <2>8
<1>5. QED
  BY <1>3, <1>4, FieldsOfFile DEF FileFields

\* What the dry run accepted is inserted as a lab's content, fit to be READY
\* unless for its evidence.
LEMMA InsertedFits ==
    ASSUME NEW f \in File, Valid(f), NEW c, c = Inserted(f)
    PROVE  /\ c \in LabContent
           /\ Fit(c) \/ "public of private" \in c.evidence
<1>1. PICK rows : rows = InsertedInputs(f)
  OBVIOUS
<1>2. /\ rows \in Seq(InputOfFile) /\ DOMAIN f.inputs \subseteq DOMAIN rows
      /\ \A i \in DOMAIN f.inputs : rows[i] = f.inputs[i]
      /\ \A i \in DOMAIN rows \ DOMAIN f.inputs : rows[i] = PacketInput
  BY <1>1, InsertedInputsAre
<1>3. \A i \in DOMAIN rows : rows[i] \in InputOfFile
  BY <1>2, LenProperties, ElementOfSeq
<1>4. \A i \in DOMAIN rows : rows[i].key \in BundleKeys /\ rows[i].source \in Sources
  BY <1>3 DEF InputOfFile
<1>5. PICK listed : listed = [k \in BundleKeys |->
                       IF {i \in DOMAIN rows : rows[i].key = k} = {} THEN "none"
                       ELSE rows[CHOOSE i \in {i \in DOMAIN rows : rows[i].key = k} : TRUE].source]
  OBVIOUS
<1>6. PICK primary : primary = {rows[i].key : i \in {j \in DOMAIN rows : rows[j].primary}}
  OBVIOUS
<1>7. c = [inputs |-> listed, primary |-> primary, nodes |-> ToSet(f.nodes),
           links |-> ToSet(f.links), runbook |-> ToSet(f.runbook),
           scenario |-> f.scenario, evidence |-> f.evidence]
  BY <1>1, <1>5, <1>6 DEF Inserted
<1>8. listed \in [BundleKeys -> {"none"} \cup Sources]
  <2>1. ASSUME NEW k \in BundleKeys PROVE listed[k] \in {"none"} \cup Sources
    <3>1. CASE {i \in DOMAIN rows : rows[i].key = k} = {}
      BY <1>5, <3>1
    <3>2. CASE {i \in DOMAIN rows : rows[i].key = k} # {}
      <4>1. PICK i : i = CHOOSE j \in {j \in DOMAIN rows : rows[j].key = k} : TRUE
        OBVIOUS
      <4>2. i \in DOMAIN rows
        BY <3>2, <4>1
      <4>3. listed[k] = rows[i].source
        BY <1>5, <3>2, <4>1
      <4>4. QED
        BY <1>4, <4>2, <4>3
    <3>3. QED
      BY <3>1, <3>2
  <2>2. QED
    BY <1>5, <2>1
<1>9. \E k \in BundleKeys : primary = {k}
  <2>1. PICK chosen : chosen = {i \in DOMAIN f.inputs : f.inputs[i].primary}
    OBVIOUS
  <2>2. Cardinality(chosen) = 1
    BY <2>1 DEF Valid, ExactlyOnePrimary
  <2>3. IsFiniteSet(chosen)
    <3>1. PICK n : n = Len(f.inputs)
      OBVIOUS
    <3>2. n \in Nat /\ DOMAIN f.inputs = 1..n
      BY <3>1, FieldsOfFile, LenProperties DEF FileFields
    <3>3. IsFiniteSet(1..n)
      BY <3>2, FS_Interval
    <3>4. chosen \subseteq 1..n
      BY <2>1, <3>2
    <3>5. QED
      BY <3>3, <3>4, FS_Subset
  <2>4. PICK i : chosen = {i}
    BY <2>2, <2>3, FS_Singleton
  <2>5. i \in DOMAIN f.inputs /\ f.inputs[i].primary
    BY <2>1, <2>4
  <2>6. ~PacketInput.primary
    BY DEF PacketInput
  <2>7. {j \in DOMAIN rows : rows[j].primary} = {i}
    BY <1>2, <2>1, <2>4, <2>5, <2>6
  <2>8. primary = {rows[i].key}
    BY <1>6, <2>7
  <2>9. QED
    BY <1>2, <1>4, <2>5, <2>8
<1>10. /\ ToSet(f.nodes) \subseteq NodeKeys /\ ToSet(f.links) \subseteq LinkRows
       /\ ToSet(f.runbook) \subseteq Nat \ {0}
  <2>1. /\ \A i \in DOMAIN f.nodes : f.nodes[i] \in NodeKeys
        /\ \A i \in DOMAIN f.links : f.links[i] \in LinkRows
        /\ \A i \in DOMAIN f.runbook : f.runbook[i] \in Nat
    BY FieldsOfFile, LenProperties, ElementOfSeq DEF FileFields
  <2>2. \A i \in DOMAIN f.runbook : f.runbook[i] \in Nat \ {0}
    <3>1. ASSUME NEW i \in DOMAIN f.runbook PROVE f.runbook[i] \in Nat \ {0}
      <4>1. f.runbook[i] >= 1 /\ f.runbook[i] \in Nat
        BY <2>1 DEF Valid, StepsFromOne
      <4>2. QED
        BY <4>1
    <3>2. QED
      BY <3>1
  <2>3. QED
    BY <2>1, <2>2 DEF ToSet
<1>11. c \in LabContent
  BY <1>7, <1>8, <1>9, <1>10, FieldsOfFile DEF LabContent, FileFields
<1>12. /\ c.primary = primary /\ c.nodes = ToSet(f.nodes) /\ c.links = ToSet(f.links)
       /\ c.scenario = f.scenario /\ c.evidence = f.evidence
  BY <1>7
<1>13. Cardinality(c.primary) = 1
  BY <1>9, <1>12, FS_Singleton
<1>14. \A row \in c.links : {row.from, row.to} \subseteq c.nodes /\ row.from # row.to
  BY <1>12 DEF Valid, ToSet
<1>15. QED
  BY <1>11, <1>12, <1>13, <1>14 DEF Fit, Valid

\* What the dry run accepted meets an index only at the packet reference.
LEMMA RefusedAtPacket ==
    ASSUME NEW f \in File, Valid(f), ~Insertable(f)
    PROVE  f.packet /\ \E i \in DOMAIN f.inputs : f.inputs[i].key = PacketKey
<1>1. PICK rows : rows = InsertedInputs(f)
  OBVIOUS
<1>2. /\ rows \in Seq(InputOfFile) /\ DOMAIN f.inputs \subseteq DOMAIN rows
      /\ \A i \in DOMAIN f.inputs : rows[i] = f.inputs[i]
      /\ \A i \in DOMAIN rows \ DOMAIN f.inputs : f.packet /\ rows[i] = PacketInput
  BY <1>1, InsertedInputsAre
<1>3. /\ Distinct(KeysOf(f.inputs)) /\ Distinct(f.nodes) /\ Distinct(KeysOf(f.links))
      /\ Distinct(f.runbook)
  BY DEF Valid, NoDuplicates
<1>4. ~Distinct(KeysOf(rows))
  BY <1>1, <1>3 DEF Insertable
<1>5. PICK i \in DOMAIN rows, j \in DOMAIN rows : rows[i].key = rows[j].key /\ i # j
  BY <1>4 DEF Distinct, KeysOf
<1>6. ~(i \in DOMAIN f.inputs /\ j \in DOMAIN f.inputs)
  BY <1>2, <1>3, <1>5 DEF Distinct, KeysOf
<1>7. f.packet
  BY <1>2, <1>5, <1>6
<1>8. i \in DOMAIN f.inputs \/ j \in DOMAIN f.inputs
  <2>1. PICK n : n = Len(f.inputs)
    OBVIOUS
  <2>2. PICK s : s = f.inputs
    OBVIOUS
  <2>3. s \in Seq(InputOfFile) /\ n = Len(s) /\ n \in Nat /\ DOMAIN s = 1..n
    BY <2>1, <2>2, FieldsOfFile, LenProperties DEF FileFields
  <2>4. rows = Append(s, PacketInput)
    BY <1>1, <1>7, <2>2 DEF InsertedInputs
  <2>5. DOMAIN rows = 1..(n + 1)
    <3>1. PacketInput \in InputOfFile
      BY ExchangeAssumption DEF PacketInput, InputOfFile, Sources
    <3>2. QED
      BY <2>3, <2>4, <3>1
  <2>6. QED
    BY <1>5, <2>2, <2>3, <2>5
<1>9. PacketInput.key = PacketKey
  BY DEF PacketInput
<1>10. QED
  BY <1>2, <1>5, <1>6, <1>7, <1>8, <1>9

-----------------------------------------------------------------------------
(***************************************************************************)
(* Changes to the file.                                                    *)
(***************************************************************************)
LEMMA InputsReplaced ==
    ASSUME NEW f \in File, NEW t \in Seq(InputOfFile), NEW g, g = [f EXCEPT !.inputs = t]
    PROVE  g \in File /\ g.packet = f.packet /\ g.schema = f.schema
BY DEF File

LEMMA NodesReplaced ==
    ASSUME NEW f \in File, NEW t \in Seq(NodeKeys), NEW g, g = [f EXCEPT !.nodes = t]
    PROVE  g \in File /\ g.packet = f.packet /\ g.schema = f.schema
BY DEF File

LEMMA LinksReplaced ==
    ASSUME NEW f \in File, NEW t \in Seq(LinkRows), NEW g, g = [f EXCEPT !.links = t]
    PROVE  g \in File /\ g.packet = f.packet /\ g.schema = f.schema
BY DEF File

LEMMA RunbookReplaced ==
    ASSUME NEW f \in File, NEW t \in Seq(Nat), NEW g, g = [f EXCEPT !.runbook = t]
    PROVE  g \in File /\ g.packet = f.packet /\ g.schema = f.schema
BY DEF File

LEMMA RepeatedIs ==
    ASSUME NEW S, NEW s \in Seq(S), NEW i \in DOMAIN s
    PROVE  Append(s, s[i]) \in Seq(S)
<1>1. s[i] \in S
  BY LenProperties, ElementOfSeq
<1>2. QED
  BY <1>1

LEMMA InputChanged ==
    ASSUME NEW f \in File, NEW i \in DOMAIN f.inputs, NEW r \in InputOfFile,
           NEW g, g = [f EXCEPT !.inputs = [f.inputs EXCEPT ![i] = r]]
    PROVE  g \in File /\ g.packet = f.packet /\ g.schema = f.schema
<1>1. PICK s : s = f.inputs
  OBVIOUS
<1>2. s \in Seq(InputOfFile) /\ i \in 1..Len(s)
  BY <1>1, FieldsOfFile, LenProperties DEF FileFields
<1>3. PICK t : t = [s EXCEPT ![i] = r]
  OBVIOUS
<1>4. t \in Seq(InputOfFile)
  BY <1>2, <1>3, ExceptSeq
<1>5. g = [f EXCEPT !.inputs = t]
  BY <1>1, <1>3
<1>6. QED
  BY <1>4, <1>5, InputsReplaced

LEMMA EditedIs ==
    ASSUME NEW f \in File, f.packet => f.schema = "companion", NEW g \in Edits(f)
    PROVE  g \in File /\ (g.packet => g.schema = "companion")
<1>1. FileFields(f)
  BY FieldsOfFile
<1>2. ASSUME NEW i \in DOMAIN f.inputs PROVE f.inputs[i] \in InputOfFile
  BY <1>1, LenProperties, ElementOfSeq DEF FileFields
<1>3. ASSUME NEW i \in DOMAIN f.inputs, g = [f EXCEPT !.inputs = Append(f.inputs, f.inputs[i])]
      PROVE  g \in File /\ g.packet = f.packet /\ g.schema = f.schema
  <2>1. Append(f.inputs, f.inputs[i]) \in Seq(InputOfFile)
    BY <1>1, RepeatedIs DEF FileFields
  <2>2. QED
    BY <1>3, <2>1, InputsReplaced
<1>4. ASSUME NEW i \in DOMAIN f.inputs, NEW r,
             \/ r = [f.inputs[i] EXCEPT !.primary = ~f.inputs[i].primary]
             \/ r = [f.inputs[i] EXCEPT !.payload = ~f.inputs[i].payload]
             \/ r = [f.inputs[i] EXCEPT !.artifact = ~f.inputs[i].artifact],
             g = [f EXCEPT !.inputs = [f.inputs EXCEPT ![i] = r]]
      PROVE  g \in File /\ g.packet = f.packet /\ g.schema = f.schema
  <2>1. PICK q : q = f.inputs[i]
    OBVIOUS
  <2>2. q \in InputOfFile
    BY <1>2, <2>1
  <2>3. r \in InputOfFile
    <3>1. CASE r = [q EXCEPT !.primary = ~q.primary]
      BY <2>2, <3>1 DEF InputOfFile
    <3>2. CASE r = [q EXCEPT !.payload = ~q.payload]
      BY <2>2, <3>2 DEF InputOfFile
    <3>3. CASE r = [q EXCEPT !.artifact = ~q.artifact]
      BY <2>2, <3>3 DEF InputOfFile
    <3>4. QED
      BY <1>4, <2>1, <3>1, <3>2, <3>3
  <2>4. QED
    BY <1>4, <2>3, InputChanged
<1>5. ASSUME NEW i \in DOMAIN f.nodes,
             \/ g = [f EXCEPT !.nodes = Append(f.nodes, f.nodes[i])]
             \/ g = [f EXCEPT !.nodes = Tail(f.nodes)]
      PROVE  g \in File /\ g.packet = f.packet /\ g.schema = f.schema
  <2>1. Append(f.nodes, f.nodes[i]) \in Seq(NodeKeys)
    BY <1>1, RepeatedIs DEF FileFields
  <2>2. f.nodes # <<>>
    BY <1>5
  <2>3. Tail(f.nodes) \in Seq(NodeKeys)
    BY <1>1, <2>2, HeadTailProperties DEF FileFields
  <2>4. QED
    BY <1>5, <2>1, <2>3, NodesReplaced
<1>6. ASSUME NEW i \in DOMAIN f.links, g = [f EXCEPT !.links = Append(f.links, f.links[i])]
      PROVE  g \in File /\ g.packet = f.packet /\ g.schema = f.schema
  <2>1. Append(f.links, f.links[i]) \in Seq(LinkRows)
    BY <1>1, RepeatedIs DEF FileFields
  <2>2. QED
    BY <1>6, <2>1, LinksReplaced
<1>7. ASSUME NEW n \in 0..1, g = [f EXCEPT !.runbook = Append(f.runbook, n)]
      PROVE  g \in File /\ g.packet = f.packet /\ g.schema = f.schema
  <2>1. n \in Nat
    OBVIOUS
  <2>2. Append(f.runbook, n) \in Seq(Nat)
    BY <1>1, <2>1 DEF FileFields
  <2>3. QED
    BY <1>7, <2>2, RunbookReplaced
<1>8. ASSUME g = [f EXCEPT !.packet = f.schema = "companion"]
      PROVE  g \in File /\ (g.packet => g.schema = "companion")
  <2>1. PICK packet \in BOOLEAN : packet = (f.schema = "companion")
    OBVIOUS
  <2>2. g = [f EXCEPT !.packet = packet]
    BY <1>8, <2>1, Zenon
  <2>3. g \in File /\ g.packet = packet /\ g.schema = f.schema
    BY <2>1, <2>2 DEF File
  <2>4. QED
    BY <2>1, <2>3
<1>9. \/ \E i \in DOMAIN f.inputs : g = [f EXCEPT !.inputs = Append(f.inputs, f.inputs[i])]
      \/ \E i \in DOMAIN f.inputs : \E r :
            /\ \/ r = [f.inputs[i] EXCEPT !.primary = ~f.inputs[i].primary]
               \/ r = [f.inputs[i] EXCEPT !.payload = ~f.inputs[i].payload]
               \/ r = [f.inputs[i] EXCEPT !.artifact = ~f.inputs[i].artifact]
            /\ g = [f EXCEPT !.inputs = [f.inputs EXCEPT ![i] = r]]
      \/ \E i \in DOMAIN f.nodes : \/ g = [f EXCEPT !.nodes = Append(f.nodes, f.nodes[i])]
                                   \/ g = [f EXCEPT !.nodes = Tail(f.nodes)]
      \/ \E i \in DOMAIN f.links : g = [f EXCEPT !.links = Append(f.links, f.links[i])]
      \/ \E n \in 0..1 : g = [f EXCEPT !.runbook = Append(f.runbook, n)]
      \/ g = [f EXCEPT !.packet = f.schema = "companion"]
  BY DEF Edits
<1>10. QED
  BY <1>3, <1>4, <1>5, <1>6, <1>7, <1>8, <1>9

-----------------------------------------------------------------------------
LEMMA ExportsKeep ==
    ASSUME ExchangeInv, ExportBundle \/ ExportCompanion
    PROVE  ExchangeInv'
<1>1. /\ exported \in LabContents /\ ExchangeTypeOK /\ exchange = "home" /\ ~edited
      /\ exchange' = "file" /\ UNCHANGED <<exported, edited, result>>
  BY DEF ExchangeInv, ExportBundle, ExportCompanion
<1>2. /\ file' \in File /\ (file'.packet => file'.schema = "companion")
      /\ AsExported(file')
  <2>1. CASE file' = Bundle(exported)
    BY <1>1, <2>1, BundleIs DEF BundleLists, AsExported
  <2>2. CASE \E k \in exported.primary : file' = Companion(exported, k)
    <3>1. PICK k \in exported.primary : file' = Companion(exported, k)
      BY <2>2
    <3>2. CompanionLists(exported, k, file')
      BY <1>1, <3>1, CompanionIs
    <3>3. QED
      BY <3>1, <3>2 DEF CompanionLists, AsExported
  <2>3. QED
    BY <2>1, <2>2 DEF ExportBundle, ExportCompanion
<1>3. ExchangeTypeOK'
  BY <1>1 DEF ExchangeTypeOK
<1>4. AsExported(file)'
  BY <1>1, <1>2 DEF AsExported
<1>5. QED
  BY <1>1, <1>2, <1>3, <1>4 DEF ExchangeInv

LEMMA EditFileKeeps ==
    ASSUME ExchangeInv, EditFile
    PROVE  ExchangeInv'
<1>1. /\ exchange = "file" /\ file' \in Edits(file) /\ edited'
      /\ UNCHANGED <<exchange, exported, result>>
      /\ file \in File /\ (file.packet => file.schema = "companion")
  BY DEF ExchangeInv, EditFile
<1>2. file' \in File /\ (file'.packet => file'.schema = "companion")
  BY <1>1, EditedIs
<1>3. ExchangeTypeOK'
  BY <1>1 DEF ExchangeInv, ExchangeTypeOK, EditFile
<1>4. QED
  BY <1>1, <1>2, <1>3 DEF ExchangeInv

LEMMA DryRunKeeps ==
    ASSUME ExchangeInv, DryRun
    PROVE  ExchangeInv'
<1>1. /\ exchange = "file" /\ exchange' = IF Valid(file) THEN "accepted" ELSE "refused"
      /\ exported' = exported /\ file' = file /\ edited' = edited /\ result' = result
  BY DEF DryRun
<1>2. PICK f : f = file
  OBVIOUS
<1>3. /\ exported \in LabContents /\ f \in File /\ (f.packet => f.schema = "companion")
      /\ edited \/ AsExported(f)
  BY <1>1, <1>2 DEF ExchangeInv
<1>4. ExchangeTypeOK'
  BY <1>1 DEF ExchangeInv, ExchangeTypeOK
<1>5. edited' \/ AsExported(f)'
  BY <1>1, <1>3 DEF AsExported
<1>6. file' = f
  BY <1>1, <1>2
<1>7. QED
  BY <1>1, <1>2, <1>3, <1>4, <1>5, <1>6 DEF ExchangeInv

LEMMA ImportKeeps ==
    ASSUME ExchangeInv, Import
    PROVE  ExchangeInv'
<1>1. /\ exchange = "accepted" /\ exported' = exported /\ file' = file /\ edited' = edited
      /\ \/ Insertable(file) /\ exchange' = "imported" /\ result' = Inserted(file)
         \/ ~Insertable(file) /\ exchange' = "failed" /\ result' = result
  BY DEF Import
<1>2. PICK f : f = file
  OBVIOUS
<1>3. /\ exported \in LabContents /\ f \in File /\ (f.packet => f.schema = "companion")
      /\ edited \/ AsExported(f)
      /\ Valid(f) /\ file' = f
  BY <1>1, <1>2 DEF ExchangeInv
<1>4. edited' \/ AsExported(f)'
  BY <1>1, <1>3 DEF AsExported
<1>5. PICK c : c = Inserted(f)
  OBVIOUS
<1>6. c \in LabContent
  BY <1>3, <1>5, InsertedFits
<1>7. ExchangeTypeOK'
  BY <1>1, <1>2, <1>5, <1>6 DEF ExchangeInv, ExchangeTypeOK
<1>8. QED
  BY <1>1, <1>2, <1>3, <1>4, <1>7 DEF ExchangeInv

LEMMA ExchangeInvariant == ExchangeSpec => []ExchangeInv
<1>1. ExchangeInit => ExchangeInv
  <2>1. SUFFICES ASSUME ExchangeInit PROVE ExchangeInv
    OBVIOUS
  <2>2. exported \in LabContent
    BY <2>1, ContentsAssumption DEF ExchangeInit
  <2>3. QED
    BY <2>1, <2>2 DEF ExchangeInit, ExchangeInv, ExchangeTypeOK
<1>2. ExchangeInv /\ [ExchangeNext]_exchangeVars => ExchangeInv'
  <2>1. SUFFICES ASSUME ExchangeInv, [ExchangeNext]_exchangeVars PROVE ExchangeInv'
    OBVIOUS
  <2>2. CASE UNCHANGED exchangeVars
    <3>1. /\ exchange' = exchange /\ exported' = exported /\ file' = file
          /\ edited' = edited /\ result' = result
      BY <2>2 DEF exchangeVars
    <3>2. QED
      BY <2>1, <3>1 DEF ExchangeInv, ExchangeTypeOK, AsExported
  <2>3. QED
    BY <2>1, <2>2, ExportsKeep, EditFileKeeps, DryRunKeeps, ImportKeeps DEF ExchangeNext
<1>3. QED
  BY <1>1, <1>2, PTL DEF ExchangeSpec

-----------------------------------------------------------------------------
(***************************************************************************)
(* Whatever is imported, from an edited file or not, is a lab's content.   *)
(***************************************************************************)
THEOREM ExchangeTypeCorrect == ExchangeSpec => []ExchangeTypeOK
<1>1. ExchangeInv => ExchangeTypeOK
  BY DEF ExchangeInv
<1>2. QED
  BY <1>1, ExchangeInvariant, PTL

(***************************************************************************)
(* A lab that readiness accepts is accepted elsewhere, a bundle arrives as *)
(* it left, and what the dry run accepts is inserted, but for the packet   *)
(* reference, and may become READY: for any labs, keys and edits.          *)
(***************************************************************************)
THEOREM LabsTravel == ExchangeSpec => []ExchangeSound
<1>1. ASSUME ExchangeInv PROVE FitTravels
  <2>1. SUFFICES ASSUME exchange = "refused", ~edited, Fit(exported) PROVE FALSE
    BY DEF FitTravels
  <2>2. exported \in LabContents /\ AsExported(file) /\ ~Valid(file)
    BY <1>1, <2>1 DEF ExchangeInv
  <2>3. CASE file = Bundle(exported)
    BY <2>1, <2>2, <2>3, BundleIs, FitBundleValid
  <2>4. CASE \E k \in exported.primary : file = Companion(exported, k)
    BY <2>1, <2>2, <2>4, CompanionIs, FitCompanionValid
  <2>5. QED
    BY <2>2, <2>3, <2>4 DEF AsExported
<1>2. ASSUME ExchangeInv PROVE RoundTrip
  <2>1. SUFFICES ASSUME exchange = "imported", ~edited, file.schema = "bundle"
                 PROVE  result = exported
    BY DEF RoundTrip
  <2>2. exported \in LabContents /\ AsExported(file) /\ result = Inserted(file)
    BY <1>2, <2>1 DEF ExchangeInv
  <2>3. file = Bundle(exported)
    <3>1. ASSUME NEW k \in exported.primary PROVE file # Companion(exported, k)
      BY <2>1, <2>2, CompanionIs DEF CompanionLists
    <3>2. QED
      BY <2>2, <3>1 DEF AsExported
  <2>4. QED
    BY <2>2, <2>3, BundleIs, InsertedFromBundle
<1>3. ASSUME ExchangeInv PROVE AcceptedInserts
  BY <1>3, RefusedAtPacket DEF ExchangeInv, AcceptedInserts
<1>4. ASSUME ExchangeInv PROVE ImportedFit
  BY <1>4, InsertedFits DEF ExchangeInv, ImportedFit
<1>5. ExchangeInv => ExchangeSound
  BY <1>1, <1>2, <1>3, <1>4 DEF ExchangeSound
<1>6. QED
  BY <1>5, ExchangeInvariant, PTL

-----------------------------------------------------------------------------
(***************************************************************************)
(* The topology of a lab.                                                  *)
(***************************************************************************)
\* How far a transaction is.
LinksDropped(t) == replacing[t].at \in Steps \ {"links", "delete links"}
NodesDropped(t) == replacing[t].at \in {"insert nodes", "insert links", "commit"}

\* What a transaction has inserted so far.
KeepsItsRows(t) ==
    /\ At(t, "insert links") => replacing[t].kept = NodeRowsOf(t)
    /\ At(t, "commit") => replacing[t].kept = Rows(t)

\* Two open transactions are beside each other.
OpenBeside(t) == Open(t) => \A u \in Replacements \ {t} : Open(u) => u \in beside[t]

\* The links a transaction will not delete were committed beside it.
LinksAccounted(t) ==
    \A row \in topology \cap Link :
        /\ At(t, "delete links") => row \in replacing[t].seen \/ t \in beside[row.by]
        /\ LinksDropped(t) => row \in replacing[t].dropped \/ t \in beside[row.by]

\* A transaction that runs alone deletes all there is.
AloneDeletesAll(t) ==
    Open(t) /\ beside[t] = {} =>
        /\ At(t, "delete links") => topology \cap Link \subseteq replacing[t].seen
        /\ LinksDropped(t) => topology \cap Link \subseteq replacing[t].dropped
        /\ At(t, "delete nodes") => topology \cap Node \subseteq replacing[t].seen
        /\ NodesDropped(t) => topology \cap Node \subseteq replacing[t].dropped

TransactionInv(t) ==
    KeepsItsRows(t) /\ OpenBeside(t) /\ LinksAccounted(t) /\ AloneDeletesAll(t)

TopologyInv ==
    /\ TopologyTypeOK /\ TopologyReplaced
    /\ \A t \in Replacements : TransactionInv(t)
    /\ \A row \in topology : At(row.by, "done")
    /\ last # Nobody => At(last, "done")

\* A row of a request is of that request and either a node's or a link's.
LEMMA RowsAre ==
    ASSUME NEW t \in Replacements
    PROVE  /\ NodeRowsOf(t) \subseteq Node /\ LinkRowsOf(t) \subseteq Link /\ Rows(t) \subseteq Row
           /\ \A row \in Rows(t) : row.by = t
           /\ \A row \in Rows(t) \cap Link :
                 row.link \in Payload[t].links /\ LinkEnds[row.link] \subseteq Payload[t].nodes
           /\ Payload[t].nodes \subseteq {node.node : node \in NodeRowsOf(t)}
<1>1. NodeRowsOf(t) \subseteq Node /\ \A row \in NodeRowsOf(t) : row.by = t
  BY DEF NodeRowsOf, Node
<1>2. LinkRowsOf(t) \subseteq Link /\ \A row \in LinkRowsOf(t) : row.by = t
  BY DEF LinkRowsOf, Link
<1>3. ASSUME NEW row \in Rows(t) \cap Link
      PROVE  row.link \in Payload[t].links /\ LinkEnds[row.link] \subseteq Payload[t].nodes
  <2>1. row \notin NodeRowsOf(t)
    <3>1. DOMAIN row = {"link", "by"}
      BY DEF Link
    <3>2. row \in NodeRowsOf(t) => DOMAIN row = {"node", "by"}
      BY DEF NodeRowsOf
    <3>3. "node" \notin {"link", "by"}
      OBVIOUS
    <3>4. QED
      BY <3>1, <3>2, <3>3
  <2>2. PICK k \in Payload[t].links : row = [link |-> k, by |-> t]
    BY <2>1 DEF Rows, LinkRowsOf
  <2>3. QED
    BY <2>2, TopologyAssumption
<1>4. Payload[t].nodes \subseteq {node.node : node \in NodeRowsOf(t)}
  <2>1. ASSUME NEW k \in Payload[t].nodes
        PROVE  [node |-> k, by |-> t] \in NodeRowsOf(t) /\ [node |-> k, by |-> t].node = k
    BY DEF NodeRowsOf
  <2>2. QED
    BY <2>1
<1>5. QED
  BY <1>1, <1>2, <1>3, <1>4 DEF Rows, Row

LEMMA TransactionFields ==
    ASSUME TopologyTypeOK, NEW t \in Replacements
    PROVE  /\ replacing[t] \in Transaction /\ replacing[t].seen \subseteq Row
           /\ replacing[t].dropped \subseteq Row /\ replacing[t].kept \subseteq Row
           /\ beside[t] \subseteq Replacements
BY DEF TopologyTypeOK, Transaction

LEMMA RowsHaveOwners ==
    ASSUME TopologyTypeOK
    PROVE  \A row \in topology : row \in Row /\ row.by \in Replacements
BY DEF TopologyTypeOK, Row, Node, Link

\* A step of one open transaction by which nothing is committed.
LEMMA OwnStepKeeps ==
    ASSUME TopologyInv, NEW t \in Replacements, NEW r \in Transaction, Goes(t, r),
           Open(t), r.at \in Steps, TransactionInv(t)'
    PROVE  TopologyInv'
<1>1. /\ TopologyTypeOK /\ replacing' = [replacing EXCEPT ![t] = r]
      /\ UNCHANGED <<topology, beside, last>>
  BY DEF TopologyInv, Goes
<1>2. /\ replacing' \in [Replacements -> Transaction] /\ replacing'[t] = r
      /\ \A u \in Replacements \ {t} : replacing'[u] = replacing[u]
  BY <1>1 DEF TopologyTypeOK
<1>3. TopologyTypeOK'
  BY <1>1, <1>2 DEF TopologyTypeOK
<1>4. ASSUME NEW u \in Replacements \ {t} PROVE TransactionInv(u)'
  <2>1. TransactionInv(u) /\ replacing'[u] = replacing[u]
    BY <1>2 DEF TopologyInv
  <2>2. OpenBeside(u)'
    BY <1>1, <1>2, <2>1 DEF TransactionInv, OpenBeside, Open
  <2>3. QED
    BY <1>1, <2>1, <2>2
       DEF TransactionInv, KeepsItsRows, LinksAccounted, AloneDeletesAll, At, Open, LinksDropped,
           NodesDropped
<1>5. TopologyReplaced'
  BY <1>1 DEF TopologyInv, TopologyReplaced, LastStands, DanglingAfterOverlap
<1>6. last' # Nobody => At(last, "done")'
  BY <1>1, <1>2 DEF TopologyInv, TopologyTypeOK, At, Open, Steps
<1>7. \A row \in topology' : At(row.by, "done")'
  BY <1>1, <1>2, RowsHaveOwners DEF TopologyInv, At, Open, Steps
<1>8. QED
  BY <1>3, <1>4, <1>5, <1>6, <1>7 DEF TopologyInv

\* What a step of one transaction leaves as it was.
LEMMA StaysOpen ==
    ASSUME TopologyInv, NEW t \in Replacements, NEW r \in Transaction, Goes(t, r), Open(t)
    PROVE  /\ OpenBeside(t)' /\ replacing'[t] = r /\ UNCHANGED <<topology, beside>>
<1>1. /\ replacing \in [Replacements -> Transaction] /\ replacing' = [replacing EXCEPT ![t] = r]
      /\ UNCHANGED <<topology, beside, last>> /\ OpenBeside(t)
  BY DEF TopologyInv, TopologyTypeOK, Goes, TransactionInv
<1>2. /\ replacing'[t] = r /\ \A u \in Replacements \ {t} : replacing'[u] = replacing[u]
  BY <1>1
<1>3. QED
  BY <1>1, <1>2 DEF OpenBeside, Open

LEMMA CollectLinksKeeps ==
    ASSUME TopologyInv, NEW t \in Replacements, CollectLinks(t)
    PROVE  TopologyInv'
<1>1. PICK r : r = [replacing[t] EXCEPT !.at = "delete links", !.seen = topology \cap Link]
  OBVIOUS
<1>2. TopologyTypeOK /\ topology \subseteq Row /\ replacing[t] \in Transaction
  BY TransactionFields DEF TopologyInv, TopologyTypeOK
<1>3. /\ r \in Transaction /\ r.at = "delete links" /\ r.seen = topology \cap Link
  <2>1. topology \cap Link \in SUBSET Row
    BY <1>2
  <2>2. PICK s : s = topology \cap Link
    OBVIOUS
  <2>3. r = [replacing[t] EXCEPT !.at = "delete links", !.seen = s]
    BY <1>1, <2>2
  <2>4. s \in SUBSET Row
    BY <2>1, <2>2
  <2>5. QED
    BY <1>2, <2>2, <2>3, <2>4 DEF Transaction, Steps
<1>4. Goes(t, r) /\ Open(t)
  BY <1>1 DEF CollectLinks, At, Open, Steps
<1>5. OpenBeside(t)' /\ replacing'[t] = r /\ UNCHANGED <<topology, beside>>
  BY <1>3, <1>4, StaysOpen
<1>6. TransactionInv(t)'
  BY <1>3, <1>5 DEF TransactionInv, KeepsItsRows, LinksAccounted, AloneDeletesAll, At,
                    LinksDropped, NodesDropped, Steps
<1>7. QED
  BY <1>3, <1>4, <1>6, OwnStepKeeps DEF Steps

LEMMA DeleteLinksKeeps ==
    ASSUME TopologyInv, NEW t \in Replacements, DeleteLinks(t)
    PROVE  TopologyInv'
<1>1. PICK d : d = replacing[t].seen \cap topology
  OBVIOUS
<1>2. PICK r : r = [replacing[t] EXCEPT !.at = "nodes", !.seen = {}, !.dropped = d]
  OBVIOUS
<1>3. TopologyTypeOK /\ topology \subseteq Row /\ replacing[t] \in Transaction /\ TransactionInv(t)
  BY TransactionFields DEF TopologyInv, TopologyTypeOK
<1>4. r \in Transaction /\ r.at = "nodes" /\ r.dropped = d
  <2>1. d \in SUBSET Row /\ {} \in SUBSET Row
    BY <1>1, <1>3
  <2>2. QED
    BY <1>2, <1>3, <2>1 DEF Transaction, Steps
<1>5. Goes(t, r) /\ Open(t) /\ At(t, "delete links")
  BY <1>1, <1>2 DEF DeleteLinks, At, Open, Steps
<1>6. OpenBeside(t)' /\ replacing'[t] = r /\ UNCHANGED <<topology, beside>>
  BY <1>4, <1>5, StaysOpen DEF TopologyInv
<1>7. TransactionInv(t)'
  BY <1>1, <1>3, <1>4, <1>5, <1>6
     DEF TransactionInv, KeepsItsRows, LinksAccounted, AloneDeletesAll, At, Open, LinksDropped,
         NodesDropped, Steps
<1>8. QED
  BY <1>4, <1>5, <1>7, OwnStepKeeps DEF Steps

LEMMA CollectNodesKeeps ==
    ASSUME TopologyInv, NEW t \in Replacements, CollectNodes(t)
    PROVE  TopologyInv'
<1>1. PICK s : s = topology \cap Node
  OBVIOUS
<1>2. PICK r : r = [replacing[t] EXCEPT !.at = "delete nodes", !.seen = s]
  OBVIOUS
<1>3. TopologyTypeOK /\ topology \subseteq Row /\ replacing[t] \in Transaction /\ TransactionInv(t)
  BY TransactionFields DEF TopologyInv, TopologyTypeOK
<1>4. /\ r \in Transaction /\ r.at = "delete nodes" /\ r.seen = s
      /\ r.dropped = replacing[t].dropped
  <2>1. s \in SUBSET Row
    BY <1>1, <1>3
  <2>2. QED
    BY <1>2, <1>3, <2>1 DEF Transaction, Steps
<1>5. Goes(t, r) /\ Open(t) /\ At(t, "nodes")
  BY <1>1, <1>2 DEF CollectNodes, At, Open, Steps
<1>6. OpenBeside(t)' /\ replacing'[t] = r /\ UNCHANGED <<topology, beside>>
  BY <1>4, <1>5, StaysOpen DEF TopologyInv
<1>7. TransactionInv(t)'
  BY <1>1, <1>3, <1>4, <1>5, <1>6
     DEF TransactionInv, KeepsItsRows, LinksAccounted, AloneDeletesAll, At, Open, LinksDropped,
         NodesDropped, Steps
<1>8. QED
  BY <1>4, <1>5, <1>7, OwnStepKeeps DEF Steps

LEMMA DeleteNodesKeeps ==
    ASSUME TopologyInv, NEW t \in Replacements, DeleteNodes(t)
    PROVE  TopologyInv'
<1>1. PICK d : d = replacing[t].dropped \cup (replacing[t].seen \cap topology)
  OBVIOUS
<1>2. PICK r : r = [replacing[t] EXCEPT !.at = "insert nodes", !.seen = {}, !.dropped = d]
  OBVIOUS
<1>3. /\ TopologyTypeOK /\ topology \subseteq Row /\ replacing[t] \in Transaction
      /\ replacing[t].dropped \subseteq Row /\ TransactionInv(t)
  BY TransactionFields DEF TopologyInv, TopologyTypeOK
<1>4. r \in Transaction /\ r.at = "insert nodes" /\ r.dropped = d
  <2>1. d \in SUBSET Row /\ {} \in SUBSET Row
    BY <1>1, <1>3
  <2>2. QED
    BY <1>2, <1>3, <2>1 DEF Transaction, Steps
<1>5. Goes(t, r) /\ Open(t) /\ At(t, "delete nodes")
  BY <1>1, <1>2 DEF DeleteNodes, At, Open, Steps
<1>6. OpenBeside(t)' /\ replacing'[t] = r /\ UNCHANGED <<topology, beside>>
  BY <1>4, <1>5, StaysOpen DEF TopologyInv
<1>7. TransactionInv(t)'
  BY <1>1, <1>3, <1>4, <1>5, <1>6
     DEF TransactionInv, KeepsItsRows, LinksAccounted, AloneDeletesAll, At, Open, LinksDropped,
         NodesDropped, Steps
<1>8. QED
  BY <1>4, <1>5, <1>7, OwnStepKeeps DEF Steps

LEMMA InsertNodesKeeps ==
    ASSUME TopologyInv, NEW t \in Replacements, InsertNodes(t)
    PROVE  TopologyInv'
<1>1. PICK k : k = NodeRowsOf(t)
  OBVIOUS
<1>2. PICK r : r = [replacing[t] EXCEPT !.at = "insert links", !.kept = k]
  OBVIOUS
<1>3. TopologyTypeOK /\ replacing[t] \in Transaction /\ TransactionInv(t)
  BY TransactionFields DEF TopologyInv
<1>4. /\ r \in Transaction /\ r.at = "insert links" /\ r.kept = k
      /\ r.dropped = replacing[t].dropped
  <2>1. k \in SUBSET Row
    BY <1>1, RowsAre DEF Row
  <2>2. QED
    BY <1>2, <1>3, <2>1 DEF Transaction, Steps
<1>5. Goes(t, r) /\ Open(t) /\ At(t, "insert nodes")
  BY <1>1, <1>2 DEF InsertNodes, At, Open, Steps
<1>6. OpenBeside(t)' /\ replacing'[t] = r /\ UNCHANGED <<topology, beside>>
  BY <1>4, <1>5, StaysOpen DEF TopologyInv
<1>7. TransactionInv(t)'
  <2>1. KeepsItsRows(t)'
    BY <1>1, <1>4, <1>6 DEF KeepsItsRows, At
  <2>2. QED
    BY <1>3, <1>4, <1>5, <1>6, <2>1
       DEF TransactionInv, LinksAccounted, AloneDeletesAll, At, Open, LinksDropped, NodesDropped,
           Steps
<1>8. QED
  BY <1>4, <1>5, <1>7, OwnStepKeeps DEF Steps

LEMMA InsertLinksKeeps ==
    ASSUME TopologyInv, NEW t \in Replacements, InsertLinks(t)
    PROVE  TopologyInv'
<1>1. PICK k : k = replacing[t].kept \cup LinkRowsOf(t)
  OBVIOUS
<1>2. PICK r : r = [replacing[t] EXCEPT !.at = "commit", !.kept = k]
  OBVIOUS
<1>3. TopologyTypeOK /\ replacing[t] \in Transaction /\ TransactionInv(t)
  BY TransactionFields DEF TopologyInv
<1>4. Goes(t, r) /\ Open(t) /\ At(t, "insert links")
  BY <1>1, <1>2 DEF InsertLinks, At, Open, Steps
<1>5. k = Rows(t)
  BY <1>1, <1>3, <1>4 DEF TransactionInv, KeepsItsRows, Rows
<1>6. /\ r \in Transaction /\ r.at = "commit" /\ r.kept = k
      /\ r.dropped = replacing[t].dropped
  <2>1. k \in SUBSET Row
    BY <1>5, RowsAre
  <2>2. QED
    BY <1>2, <1>3, <2>1 DEF Transaction, Steps
<1>7. OpenBeside(t)' /\ replacing'[t] = r /\ UNCHANGED <<topology, beside>>
  BY <1>4, <1>6, StaysOpen DEF TopologyInv
<1>8. TransactionInv(t)'
  <2>1. KeepsItsRows(t)'
    BY <1>5, <1>6, <1>7 DEF KeepsItsRows, At
  <2>2. QED
    BY <1>3, <1>4, <1>6, <1>7, <2>1
       DEF TransactionInv, LinksAccounted, AloneDeletesAll, At, Open, LinksDropped, NodesDropped,
           Steps
<1>9. QED
  BY <1>4, <1>6, <1>8, OwnStepKeeps DEF Steps

LEMMA ReplacementBeginsKeeps ==
    ASSUME TopologyInv, NEW t \in Replacements, ReplaceBegins(t)
    PROVE  TopologyInv'
<1>1. /\ TopologyTypeOK /\ replacing' = [replacing EXCEPT ![t].at = "links"]
      /\ UNCHANGED <<topology, last>> /\ At(t, "unsent")
      /\ beside' = [u \in Replacements |->
                      IF u = t THEN {v \in Replacements : Open(v)}
                      ELSE IF Open(u) THEN beside[u] \cup {t} ELSE beside[u]]
  BY DEF TopologyInv, ReplaceBegins
<1>2. PICK r : r = [replacing[t] EXCEPT !.at = "links"]
  OBVIOUS
<1>3. r \in Transaction /\ r.at = "links"
  BY <1>1, <1>2, TransactionFields DEF Transaction, Steps
<1>4. /\ replacing' \in [Replacements -> Transaction] /\ replacing'[t] = r
      /\ \A u \in Replacements \ {t} : replacing'[u] = replacing[u]
  BY <1>1, <1>2, <1>3 DEF TopologyTypeOK
<1>5. ~Open(t) /\ Open(t)' /\ \A u \in Replacements \ {t} : Open(u)' = Open(u)
  BY <1>1, <1>3, <1>4 DEF At, Open, Steps
<1>6. /\ beside' \in [Replacements -> SUBSET Replacements]
      /\ \A u \in Replacements \ {t} : beside[u] \subseteq beside'[u]
      /\ \A u \in Replacements \ {t} : Open(u) => t \in beside'[u]
      /\ \A u \in Replacements \ {t} : ~Open(u) => beside'[u] = beside[u]
      /\ beside'[t] = {v \in Replacements : Open(v)}
  BY <1>1 DEF TopologyTypeOK
<1>7. TopologyTypeOK'
  BY <1>1, <1>4, <1>6 DEF TopologyTypeOK
<1>8. last' # Nobody => At(last, "done")' /\ last # t /\ ~Open(last) /\ last \in Replacements
  BY <1>1, <1>4 DEF TopologyInv, TopologyTypeOK, At, Open, Steps
<1>9. \A row \in topology :
        /\ At(row.by, "done")' /\ row.by \in Replacements \ {t}
        /\ beside'[row.by] = beside[row.by]
  <2> TAKE row \in topology
  <2>1. At(row.by, "done") /\ row.by \in Replacements
    BY <1>1, RowsHaveOwners DEF TopologyInv
  <2>2. row.by # t /\ ~Open(row.by)
    BY <1>1, <2>1 DEF At, Open, Steps
  <2>3. QED
    BY <1>4, <1>6, <2>1, <2>2 DEF At
<1>10. TransactionInv(t)'
  BY <1>3, <1>4, <1>5, <1>6
     DEF TransactionInv, KeepsItsRows, OpenBeside, LinksAccounted, AloneDeletesAll, At, Steps,
         LinksDropped, NodesDropped
<1>11. ASSUME NEW u \in Replacements \ {t} PROVE TransactionInv(u)'
  <2>1. TransactionInv(u) /\ replacing'[u] = replacing[u]
    BY <1>4 DEF TopologyInv
  <2>2. KeepsItsRows(u)'
    BY <2>1 DEF TransactionInv, KeepsItsRows, At
  <2>3. OpenBeside(u)'
    BY <1>5, <1>6, <2>1 DEF TransactionInv, OpenBeside
  <2>4. LinksAccounted(u)'
    BY <1>1, <1>9, <2>1 DEF TransactionInv, LinksAccounted, At, LinksDropped
  <2>5. AloneDeletesAll(u)'
    BY <1>5, <1>6 DEF AloneDeletesAll
  <2>6. QED
    BY <2>2, <2>3, <2>4, <2>5 DEF TransactionInv
<1>12. TopologyReplaced'
  <2>1. LastStands'
    BY <1>1, <1>6, <1>8 DEF TopologyInv, TopologyReplaced, LastStands
  <2>2. DanglingAfterOverlap'
    BY <1>1, <1>9 DEF TopologyInv, TopologyReplaced, DanglingAfterOverlap
  <2>3. QED
    BY <2>1, <2>2 DEF TopologyReplaced
<1>13. QED
  BY <1>1, <1>7, <1>8, <1>9, <1>10, <1>11, <1>12 DEF TopologyInv

LEMMA EndedFields ==
    ASSUME TopologyTypeOK, NEW t \in Replacements,
           replacing' = [replacing EXCEPT ![t] = Ended(t)]
    PROVE  /\ replacing' \in [Replacements -> Transaction] /\ At(t, "done")' /\ ~Open(t)'
           /\ \A u \in Replacements \ {t} : replacing'[u] = replacing[u]
<1>1. Ended(t) \in Transaction /\ Ended(t).at = "done"
  BY DEF Ended, Transaction
<1>2. /\ replacing' \in [Replacements -> Transaction] /\ replacing'[t] = Ended(t)
      /\ \A u \in Replacements \ {t} : replacing'[u] = replacing[u]
  BY <1>1 DEF TopologyTypeOK
<1>3. QED
  BY <1>1, <1>2 DEF At, Open, Steps

LEMMA CommitsKeeps ==
    ASSUME TopologyInv, NEW t \in Replacements, ReplaceCommits(t)
    PROVE  TopologyInv'
<1>1. /\ TopologyTypeOK /\ At(t, "commit") /\ TransactionInv(t)
      /\ topology' = (topology \ replacing[t].dropped) \cup replacing[t].kept
      /\ replacing' = [replacing EXCEPT ![t] = Ended(t)] /\ last' = t /\ beside' = beside
  BY DEF TopologyInv, ReplaceCommits
<1>2. /\ replacing[t].kept = Rows(t) /\ Open(t)
  BY <1>1 DEF TransactionInv, KeepsItsRows, At, Open, Steps
<1>3. /\ replacing' \in [Replacements -> Transaction] /\ At(t, "done")' /\ ~Open(t)'
      /\ \A u \in Replacements \ {t} : replacing'[u] = replacing[u]
  BY <1>1, EndedFields
<1>4. TopologyTypeOK'
  BY <1>1, <1>2, <1>3, RowsAre DEF TopologyTypeOK
<1>5. \A row \in topology' : At(row.by, "done")'
  <2> TAKE row \in topology'
  <2>1. CASE row \in Rows(t)
    BY <1>3, <2>1, RowsAre
  <2>2. CASE row \in topology
    <3>1. At(row.by, "done") /\ row.by \in Replacements
      BY <1>1, <2>2, RowsHaveOwners DEF TopologyInv
    <3>2. row.by # t
      BY <1>1, <3>1 DEF At
    <3>3. QED
      BY <1>3, <3>1, <3>2 DEF At
  <2>3. QED
    BY <1>1, <1>2, <2>1, <2>2
<1>6. TransactionInv(t)'
  BY <1>3 DEF TransactionInv, KeepsItsRows, OpenBeside, LinksAccounted, AloneDeletesAll, At,
              LinksDropped, NodesDropped, Steps
<1>7. ASSUME NEW u \in Replacements \ {t} PROVE TransactionInv(u)'
  <2>1. TransactionInv(u) /\ replacing'[u] = replacing[u]
    BY <1>3 DEF TopologyInv
  <2>2. KeepsItsRows(u)'
    BY <2>1 DEF TransactionInv, KeepsItsRows, At
  <2>3. OpenBeside(u)'
    BY <1>1, <1>3, <2>1 DEF TransactionInv, OpenBeside, Open
  <2>4. LinksAccounted(u)'
    <3>1. ASSUME NEW row \in topology' \cap Link
          PROVE  /\ At(u, "delete links")' => row \in replacing'[u].seen \/ u \in beside'[row.by]
                 /\ LinksDropped(u)' => row \in replacing'[u].dropped \/ u \in beside'[row.by]
      <4>1. CASE row \in topology
        BY <1>1, <2>1, <3>1, <4>1 DEF TransactionInv, LinksAccounted, At, LinksDropped
      <4>2. CASE row \in Rows(t)
        <5>1. row.by = t
          BY <4>2, RowsAre
        <5>2. Open(u) => u \in beside[t]
          BY <1>1, <1>2 DEF TransactionInv, OpenBeside
        <5>3. At(u, "delete links")' \/ LinksDropped(u)' => Open(u)
          BY <2>1 DEF At, LinksDropped, Open, Steps
        <5>4. QED
          BY <1>1, <5>1, <5>2, <5>3
      <4>3. QED
        BY <1>1, <1>2, <3>1, <4>1, <4>2
    <3>2. QED
      BY <3>1 DEF LinksAccounted
  <2>5. AloneDeletesAll(u)'
    BY <1>1, <1>2, <2>1 DEF TransactionInv, OpenBeside, AloneDeletesAll, Open
  <2>6. QED
    BY <2>2, <2>3, <2>4, <2>5 DEF TransactionInv
<1>8. LastStands'
  <2>1. Rows(t) \subseteq topology'
    BY <1>1, <1>2
  <2>2. beside[t] = {} => topology \subseteq replacing[t].dropped
    <3>1. topology \subseteq Node \cup Link
      BY <1>1 DEF TopologyTypeOK, Row
    <3>2. QED
      BY <1>1, <1>2, <3>1
         DEF TransactionInv, AloneDeletesAll, LinksDropped, NodesDropped, At, Steps
  <2>3. beside[t] = {} => topology' = Rows(t)
    BY <1>1, <1>2, <2>2
  <2>4. QED
    BY <1>1, <2>1, <2>3 DEF LastStands, Rows, NodeRowsOf, LinkRowsOf
<1>9. DanglingAfterOverlap'
  <2> SUFFICES ASSUME NEW row \in topology' \cap Link
               PROVE  LinkEnds[row.link] \subseteq {node.node : node \in topology' \cap Node}
                        \/ beside'[row.by] # {}
    BY DEF DanglingAfterOverlap
  <2>1. CASE row \in Rows(t)
    <3>1. LinkEnds[row.link] \subseteq {node.node : node \in NodeRowsOf(t)}
      BY <2>1, RowsAre
    <3>2. NodeRowsOf(t) \subseteq topology' \cap Node
      BY <1>1, <1>2, RowsAre DEF Rows
    <3>3. QED
      BY <3>1, <3>2
  <2>2. CASE row \in topology /\ row \notin replacing[t].dropped
    <3>1. t \in beside[row.by]
      BY <1>1, <2>2 DEF TransactionInv, LinksAccounted, LinksDropped, At, Steps
    <3>2. QED
      BY <1>1, <3>1
  <2>3. QED
    BY <1>1, <1>2, <2>1, <2>2
<1>10. QED
  BY <1>1, <1>3, <1>4, <1>5, <1>6, <1>7, <1>8, <1>9 DEF TopologyInv, TopologyReplaced

LEMMA FailsKeeps ==
    ASSUME TopologyInv, NEW t \in Replacements, ReplaceFails(t)
    PROVE  TopologyInv'
<1>1. /\ TopologyTypeOK /\ Open(t) /\ replacing' = [replacing EXCEPT ![t] = Ended(t)]
      /\ UNCHANGED <<topology, beside, last>>
  BY DEF TopologyInv, ReplaceFails
<1>2. /\ replacing' \in [Replacements -> Transaction] /\ At(t, "done")' /\ ~Open(t)'
      /\ \A u \in Replacements \ {t} : replacing'[u] = replacing[u]
  BY <1>1, EndedFields
<1>3. TopologyTypeOK'
  BY <1>1, <1>2 DEF TopologyTypeOK
<1>4. \A row \in topology' : At(row.by, "done")'
  BY <1>1, <1>2, RowsHaveOwners DEF TopologyInv, At
<1>5. TransactionInv(t)'
  BY <1>2 DEF TransactionInv, KeepsItsRows, OpenBeside, LinksAccounted, AloneDeletesAll, At,
              LinksDropped, NodesDropped, Steps
<1>6. ASSUME NEW u \in Replacements \ {t} PROVE TransactionInv(u)'
  <2>1. TransactionInv(u) /\ replacing'[u] = replacing[u]
    BY <1>2 DEF TopologyInv
  <2>2. OpenBeside(u)'
    BY <1>1, <1>2, <2>1 DEF TransactionInv, OpenBeside, Open
  <2>3. QED
    BY <1>1, <2>1, <2>2
       DEF TransactionInv, KeepsItsRows, LinksAccounted, AloneDeletesAll, At, Open, LinksDropped,
           NodesDropped
<1>7. TopologyReplaced'
  BY <1>1 DEF TopologyInv, TopologyReplaced, LastStands, DanglingAfterOverlap
<1>8. last' # Nobody => At(last, "done")'
  BY <1>1, <1>2 DEF TopologyInv, TopologyTypeOK, At
<1>9. QED
  BY <1>1, <1>3, <1>4, <1>5, <1>6, <1>7, <1>8 DEF TopologyInv

LEMMA TopologyKept == TopologyInv /\ [TopologyNext]_topologyVars => TopologyInv'
<1> SUFFICES ASSUME TopologyInv, [TopologyNext]_topologyVars PROVE TopologyInv'
  OBVIOUS
<1>1. CASE UNCHANGED topologyVars
  BY <1>1 DEF topologyVars, TopologyInv, TopologyTypeOK, TopologyReplaced, LastStands,
              DanglingAfterOverlap, TransactionInv, KeepsItsRows, OpenBeside, LinksAccounted,
              AloneDeletesAll, At, Open, LinksDropped, NodesDropped
<1>2. ASSUME NEW t \in Replacements, ReplaceBegins(t) PROVE TopologyInv'
  BY <1>2, ReplacementBeginsKeeps
<1>3. ASSUME NEW t \in Replacements, CollectLinks(t) \/ DeleteLinks(t) PROVE TopologyInv'
  BY <1>3, CollectLinksKeeps, DeleteLinksKeeps
<1>4. ASSUME NEW t \in Replacements, CollectNodes(t) \/ DeleteNodes(t) PROVE TopologyInv'
  BY <1>4, CollectNodesKeeps, DeleteNodesKeeps
<1>5. ASSUME NEW t \in Replacements, InsertNodes(t) \/ InsertLinks(t) PROVE TopologyInv'
  BY <1>5, InsertNodesKeeps, InsertLinksKeeps
<1>6. ASSUME NEW t \in Replacements, ReplaceCommits(t) \/ ReplaceFails(t) PROVE TopologyInv'
  BY <1>6, CommitsKeeps, FailsKeeps
<1>7. QED
  BY <1>1, <1>2, <1>3, <1>4, <1>5, <1>6 DEF TopologyNext, ReplaceStep

LEMMA TopologyInvariant == TopologySpec => []TopologyInv
<1>1. ASSUME TopologyInit PROVE TopologyInv
  <2>1. /\ topology = {} /\ last = Nobody
        /\ \A t \in Replacements :
              /\ replacing[t].at = "unsent" /\ replacing[t].seen = {}
              /\ replacing[t].dropped = {} /\ replacing[t].kept = {}
    BY <1>1 DEF TopologyInit
  <2>2. "unsent" \notin Steps
    BY DEF Steps
  <2>3. [at |-> "unsent", seen |-> {}, dropped |-> {}, kept |-> {}] \in Transaction
    BY DEF Transaction
  <2>4. TopologyTypeOK
    BY <1>1, <2>3 DEF TopologyInit, TopologyTypeOK
  <2>5. TopologyReplaced
    BY <2>1 DEF TopologyReplaced, LastStands, DanglingAfterOverlap
  <2>6. ASSUME NEW t \in Replacements PROVE TransactionInv(t)
    <3>1. ~Open(t) /\ ~LinksDropped(t) /\ \A step \in Steps : ~At(t, step)
      BY <2>1, <2>2 DEF Open, LinksDropped, At
    <3>2. KeepsItsRows(t) /\ LinksAccounted(t)
      BY <2>1, <3>1 DEF KeepsItsRows, LinksAccounted, Steps
    <3>3. QED
      BY <3>1, <3>2 DEF TransactionInv, OpenBeside, AloneDeletesAll
  <2>7. QED
    BY <2>1, <2>4, <2>5, <2>6 DEF TopologyInv
<1>2. QED
  BY <1>1, TopologyKept, PTL DEF TopologySpec

(***************************************************************************)
(* The rows, the transactions and what they collect keep their shape.      *)
(***************************************************************************)
THEOREM TopologyTypeCorrect == TopologySpec => []TopologyTypeOK
<1>1. TopologyInv => TopologyTypeOK
  BY DEF TopologyInv
<1>2. QED
  BY <1>1, TopologyInvariant, PTL

(***************************************************************************)
(* The replacement that committed last stands in full, alone unless others *)
(* ran beside it, and only such overlap leaves links without their nodes:  *)
(* for any requests, and however their statements interleave and fail.     *)
(***************************************************************************)
THEOREM ReplacedAsAWhole == TopologySpec => []TopologyReplaced
<1>1. TopologyInv => TopologyReplaced
  BY DEF TopologyInv
<1>2. QED
  BY <1>1, TopologyInvariant, PTL

-----------------------------------------------------------------------------
(***************************************************************************)
(* The domains of categories, projects and labs.                           *)
(***************************************************************************)
CategoryOps == {"category read", "category written", "category checked"}
ProjectOps == {"create project", "project read", "project checked"}
LabOps == {"create lab", "lab moved", "write lab", "lab read"}

Op(w, ops) == writer[w].op \in ops

\* The rows a request has found, which are there from then on.
HeldRows(r) ==
    /\ r.op = "create project" => ~HasProject(r.project)
    /\ r.op \in {"category written", "category checked"} =>
          \A p \in r.ids \cup r.rows : HasProject(p)
    /\ r.op \in {"project read", "project checked"} =>
          HasProject(r.project) /\ (r.sent \/ r.domain = r.old)
    /\ r.op \in {"create lab", "lab moved", "write lab"} => HasProject(r.project)
    /\ r.op \in {"lab read", "lab moved", "write lab", "write input"} => HasLab(r.lab)

\* Ids are given once.
CreatorsApart ==
    \A v, w \in Writers :
        v # w /\ In(v, "create project") /\ In(w, "create project") =>
            writer[v].project # writer[w].project

LabsHaveProjects == \A l \in Labs : HasLab(l) => HasProject(lab[l].project)

\* What a request has read and checked is so still.
Fits(r) ==
    /\ r.op = "category read" => r.old = category[r.category]
    /\ r.op \in {"category written", "category checked"} => r.ids = ProjectsOf(r.category)
    /\ r.op = "category checked" =>
          r.rows = r.ids /\ \A l \in LabsIn(r.ids) : lab[l].kind = r.domain
    /\ r.op \in {"create project", "project read", "project checked"} =>
          r.domain = category[r.category]
    /\ r.op \in {"project read", "project checked"} => r.old = project[r.project].domain
    /\ r.op = "project checked" =>
          r.domain = r.old \/ \A l \in LabsIn({r.project}) : lab[l].kind = r.domain
    /\ r.op \in {"create lab", "lab moved", "write lab"} => r.domain = project[r.project].domain
    /\ r.op = "lab read" => lab[r.lab].project = r.from
    /\ r.op = "write lab" => lab[r.lab].types \subseteq {r.domain} \/ lab[r.lab].misfit
    /\ r.op = "write input" => r.type = lab[r.lab].domain

DomainsInv ==
    /\ DomainsTypeOK /\ DomainsAgree
    /\ LabsHaveProjects /\ CreatorsApart
    /\ \A w \in Writers : HeldRows(writer[w]) /\ (raced \/ w \in crossed \/ Fits(writer[w]))

\* What a slot holds goes with the step its request is at.
LEMMA WriterIs ==
    ASSUME DomainsTypeOK, NEW w \in Writers
    PROVE  /\ writer[w].op \in {"idle", "write input"} \cup CategoryOps \cup ProjectOps \cup LabOps
           /\ writer[w] \in CategoryWriter <=> Op(w, CategoryOps)
           /\ writer[w] \in ProjectWriter <=> Op(w, ProjectOps)
           /\ writer[w] \in LabWriter <=> Op(w, LabOps \cup {"write input"})
<1>1. writer[w] \in Writer
  BY DEF DomainsTypeOK
<1>2. writer[w] = Waiting => writer[w].op = "idle"
  BY DEF Waiting
<1>3. writer[w] \in CategoryWriter => writer[w].op \in CategoryOps
  BY DEF CategoryWriter, CategoryOps
<1>4. writer[w] \in ProjectWriter => writer[w].op \in ProjectOps
  BY DEF ProjectWriter, ProjectOps
<1>5. writer[w] \in LabWriter => writer[w].op \in LabOps \cup {"write input"}
  BY DEF LabWriter, LabOps
<1>6. writer[w] = Waiting \/ writer[w] \in CategoryWriter \/ writer[w] \in ProjectWriter
      \/ writer[w] \in LabWriter
  BY <1>1 DEF Writer
<1>7. \A ops : Op(w, ops) <=> writer[w].op \in ops
  BY DEF Op
<1>8. QED
  BY <1>2, <1>3, <1>4, <1>5, <1>6, <1>7 DEF CategoryOps, ProjectOps, LabOps

LEMMA CategoryFields ==
    ASSUME DomainsTypeOK, NEW w \in Writers, Op(w, CategoryOps)
    PROVE  /\ writer[w].category \in Categories /\ writer[w].domain \in Domains
           /\ In(w, "category read") => writer[w].old \in Domains
           /\ Op(w, {"category written", "category checked"}) =>
                 writer[w].ids \subseteq Projects /\ writer[w].rows \subseteq Projects
BY WriterIs DEF CategoryWriter, Op, In

LEMMA ProjectFields ==
    ASSUME DomainsTypeOK, NEW w \in Writers, Op(w, ProjectOps)
    PROVE  /\ writer[w].project \in Projects /\ writer[w].category \in Categories
           /\ writer[w].domain \in Domains /\ writer[w].kind \in Payloads \cup {NoKind}
           /\ Op(w, {"project read", "project checked"}) =>
                 writer[w].sent \in BOOLEAN /\ writer[w].old \in Domains
BY WriterIs DEF ProjectWriter, Op, In

LEMMA LabFields ==
    ASSUME DomainsTypeOK, NEW w \in Writers
    PROVE  /\ Op(w, LabOps) => writer[w].lab \in Labs /\ writer[w].project \in Projects
           /\ Op(w, {"create lab", "lab moved", "write lab"}) => writer[w].domain \in Domains
           /\ In(w, "lab read") => writer[w].from \in Projects
           /\ In(w, "write input") => writer[w].lab \in Labs /\ writer[w].type \in Domains
BY WriterIs DEF LabWriter, Op, In, LabOps

\* What a request's write depends on, by the step it is at.
LEMMA ReachIs ==
    ASSUME DomainsTypeOK, NEW w \in Writers
    PROVE  /\ Op(w, CategoryOps) =>
                 Reach(w) = {writer[w].category} \cup ProjectsOf(writer[w].category)
                            \cup LabsIn(ProjectsOf(writer[w].category))
           /\ Op(w, ProjectOps) =>
                 Reach(w) = {writer[w].category, writer[w].project}
                            \cup LabsIn({writer[w].project})
           /\ Op(w, LabOps) => Reach(w) = {writer[w].lab, writer[w].project}
           /\ In(w, "write input") => Reach(w) = {writer[w].lab}
           /\ In(w, "idle") => Reach(w) = {}
<1>1. ASSUME Op(w, LabOps)
      PROVE  writer[w] \in LabWriter /\ "project" \in DOMAIN writer[w]
  BY <1>1, WriterIs DEF LabWriter, Op, LabOps
<1>2. ASSUME In(w, "write input")
      PROVE  writer[w] \in LabWriter /\ "project" \notin DOMAIN writer[w]
  <2>1. Op(w, LabOps \cup {"write input"})
    BY <1>2 DEF In, Op
  <2>2. writer[w] \in [op: {"write input"}, lab: Labs, type: Domains]
    BY <1>2, <2>1, WriterIs DEF LabWriter, In
  <2>3. DOMAIN writer[w] = {"op", "lab", "type"}
    BY <2>2
  <2>4. QED
    BY <2>1, <2>3, WriterIs
<1>3. QED
  BY <1>1, <1>2, WriterIs DEF Reach, Op, In, CategoryOps, ProjectOps, LabOps

\* A row that is there has the shape of its table.
LEMMA RowFields ==
    ASSUME DomainsTypeOK
    PROVE  /\ \A c \in Categories : category[c] \in Domains
           /\ \A p \in Projects : HasProject(p) =>
                 /\ project[p] \in ProjectRow /\ project[p].category \in Categories
                 /\ project[p].domain \in Domains
           /\ \A l \in Labs : HasLab(l) =>
                 /\ lab[l] \in LabRow /\ lab[l].project \in Projects /\ lab[l].domain \in Domains
                 /\ lab[l].kind \in Domains /\ lab[l].types \subseteq Domains
                 /\ lab[l].misfit \in BOOLEAN
BY DEF DomainsTypeOK, HasProject, HasLab, ProjectRow, LabRow

-----------------------------------------------------------------------------
(***************************************************************************)
(* A step by which a request only reads or checks.                         *)
(***************************************************************************)
ApartFrom(w, r) ==
    r.op = "create project" =>
        \A v \in Writers \ {w} : ~(In(v, "create project") /\ writer[v].project = r.project)

\* Where no row changes, what requests hold stays as it is.
LEMMA RowsStay ==
    ASSUME UNCHANGED <<category, project, lab>>
    PROVE  \A r : (HeldRows(r) => HeldRows(r)') /\ (Fits(r) => Fits(r)')
<1>1. /\ \A p : HasProject(p)' = HasProject(p)
      /\ \A l : HasLab(l)' = HasLab(l)
  BY DEF HasProject, HasLab
<1>2. (\A c : ProjectsOf(c)' = ProjectsOf(c)) /\ \A P : LabsIn(P)' = LabsIn(P)
  BY <1>1 DEF ProjectsOf, LabsIn
<1>3. ASSUME NEW r, HeldRows(r) PROVE HeldRows(r)'
  BY <1>1, <1>3 DEF HeldRows
<1>4. ASSUME NEW r, Fits(r) PROVE Fits(r)'
  <2>1. LabsIn(r.ids)' = LabsIn(r.ids) /\ LabsIn({r.project})' = LabsIn({r.project})
        /\ ProjectsOf(r.category)' = ProjectsOf(r.category)
    BY <1>2
  <2>2. QED
    BY <1>4, <2>1 DEF Fits
<1>5. QED
  BY <1>3, <1>4

LEMMA ReadsKeep ==
    ASSUME DomainsInv, NEW w \in Writers, NEW r \in Writer, Reads(w, r), ApartFrom(w, r),
           HeldRows(r), w \in crossed \/ Fits(r)
    PROVE  DomainsInv'
<1>1. /\ UNCHANGED <<category, project, lab, crossed, raced>>
      /\ writer' = [writer EXCEPT ![w] = r] /\ writer \in [Writers -> Writer]
  BY DEF DomainsInv, DomainsTypeOK, Reads
<1>2. /\ writer' \in [Writers -> Writer] /\ writer'[w] = r
      /\ \A v \in Writers \ {w} : writer'[v] = writer[v]
  BY <1>1
<1>3. DomainsTypeOK'
  BY <1>1, <1>2 DEF DomainsInv, DomainsTypeOK
<1>4. DomainsAgree' /\ LabsHaveProjects'
  BY <1>1 DEF DomainsInv, DomainsAgree, ProjectFollowsCategory, LabFollowsProject,
              InputsRegistered, LabsHaveProjects, HasProject, HasLab
<1>5. CreatorsApart'
  BY <1>2 DEF DomainsInv, CreatorsApart, ApartFrom, In
<1>6. ASSUME NEW v \in Writers
      PROVE  HeldRows(writer[v])' /\ (raced' \/ v \in crossed' \/ Fits(writer[v])')
  <2>1. PICK q : q = writer'[v]
    OBVIOUS
  <2>2. HeldRows(q) /\ (raced \/ v \in crossed \/ Fits(q))
    BY <1>2, <2>1 DEF DomainsInv
  <2>3. HeldRows(q)' /\ (raced \/ v \in crossed \/ Fits(q)')
    BY <1>1, <2>2, RowsStay
  <2>4. QED
    BY <1>1, <2>1, <2>3
<1>7. QED
  BY <1>3, <1>4, <1>5, <1>6 DEF DomainsInv

-----------------------------------------------------------------------------
(***************************************************************************)
(* A step by which a request writes and answers.                           *)
(***************************************************************************)
\* Nothing but the rows that are named is changed or joined.
Frame(rows) ==
    /\ \A c \in Categories \ rows : category'[c] = category[c]
    /\ \A p \in Projects :
          HasProject(p) => HasProject(p)' /\ (p \in rows \/ project'[p] = project[p])
    /\ \A p \in Projects : HasProject(p)' =>
          \/ HasProject(p) /\ project'[p].category = project[p].category
          \/ project'[p].category \in rows
    /\ \A l \in Labs : HasLab(l) => HasLab(l)' /\ (l \in rows \/ lab'[l] = lab[l])
    /\ \A l \in Labs : HasLab(l)' =>
          \/ HasLab(l) /\ lab'[l].project = lab[l].project
          \/ lab'[l].project \in rows

\* No row goes, and a new project is the request's own.
Grows(w) ==
    /\ \A p \in Projects : HasProject(p) => HasProject(p)'
    /\ \A l \in Labs : HasLab(l) => HasLab(l)'
    /\ \A p \in Projects : HasProject(p)' /\ ~HasProject(p) =>
          In(w, "create project") /\ writer[w].project = p

\* Projects and labs that are not touched stay together.
LEMMA ProjectsOfStay ==
    ASSUME NEW rows, Frame(rows), NEW c \in Categories, c \notin rows,
           ProjectsOf(c) \cap rows = {}
    PROVE  ProjectsOf(c)' = ProjectsOf(c) /\ category'[c] = category[c]
<1>1. ASSUME NEW p \in ProjectsOf(c) PROVE p \in ProjectsOf(c)'
  <2>1. p \in Projects /\ HasProject(p) /\ p \notin rows /\ project[p].category = c
    BY DEF ProjectsOf
  <2>2. HasProject(p)' /\ project'[p] = project[p]
    BY <2>1 DEF Frame
  <2>3. QED
    BY <2>1, <2>2 DEF ProjectsOf
<1>2. ASSUME NEW p \in ProjectsOf(c)' PROVE p \in ProjectsOf(c)
  <2>1. p \in Projects /\ HasProject(p)' /\ project'[p].category = c
    BY DEF ProjectsOf
  <2>2. HasProject(p) /\ project[p].category = c
    BY <2>1 DEF Frame
  <2>3. QED
    BY <2>1, <2>2 DEF ProjectsOf
<1>3. category'[c] = category[c]
  BY DEF Frame
<1>4. QED
  BY <1>1, <1>2, <1>3

LEMMA LabsInStay ==
    ASSUME NEW rows, Frame(rows), NEW P, P \cap rows = {}, LabsIn(P) \cap rows = {}
    PROVE  LabsIn(P)' = LabsIn(P) /\ \A l \in LabsIn(P) : lab'[l] = lab[l]
<1>1. ASSUME NEW l \in LabsIn(P) PROVE l \in LabsIn(P)' /\ lab'[l] = lab[l]
  <2>1. l \in Labs /\ HasLab(l) /\ l \notin rows /\ lab[l].project \in P
    BY DEF LabsIn
  <2>2. HasLab(l)' /\ lab'[l] = lab[l]
    BY <2>1 DEF Frame
  <2>3. QED
    BY <2>1, <2>2 DEF LabsIn
<1>2. ASSUME NEW l \in LabsIn(P)' PROVE l \in LabsIn(P)
  <2>1. l \in Labs /\ HasLab(l)' /\ lab'[l].project \in P
    BY DEF LabsIn
  <2>2. HasLab(l) /\ lab[l].project \in P
    BY <2>1 DEF Frame
  <2>3. QED
    BY <2>1, <2>2 DEF LabsIn
<1>3. QED
  BY <1>1, <1>2

\* What does not touch a request's rows leaves it right.
LEMMA FitsStay ==
    ASSUME DomainsTypeOK, NEW rows, Frame(rows),
           NEW v \in Writers, HeldRows(writer[v]), Fits(writer[v]),
           Reach(v) \cap rows = {}, writer'[v] = writer[v]
    PROVE  Fits(writer[v])'
<1>1. CASE Op(v, CategoryOps)
  <2>1. PICK r : r = writer[v] /\ r = writer'[v]
    OBVIOUS
  <2>2. /\ r.category \in Categories /\ r.category \notin rows
        /\ ProjectsOf(r.category) \cap rows = {}
        /\ LabsIn(ProjectsOf(r.category)) \cap rows = {}
        /\ r.op \in {"category read", "category written", "category checked"}
    BY <1>1, <2>1, CategoryFields, ReachIs DEF Op, CategoryOps
  <2>3. ProjectsOf(r.category)' = ProjectsOf(r.category)
        /\ category'[r.category] = category[r.category]
    BY <2>2, ProjectsOfStay
  <2>4. PICK P : P = ProjectsOf(r.category)
    OBVIOUS
  <2>5. LabsIn(P)' = LabsIn(P) /\ \A l \in LabsIn(P) : lab'[l] = lab[l]
    BY <2>2, <2>4, LabsInStay
  <2>6. r.op = "category read" => r.old = category'[r.category]
    BY <2>1, <2>3 DEF Fits, In
  <2>7. r.op \in {"category written", "category checked"} =>
          r.ids = P /\ r.ids = ProjectsOf(r.category)'
    BY <2>1, <2>3, <2>4 DEF Fits, Op
  <2>8. r.op = "category checked" =>
          r.rows = r.ids /\ \A l \in LabsIn(P) : lab[l].kind = r.domain
    BY <2>1, <2>7 DEF Fits, In
  <2>9. r.op = "category checked" => \A l \in LabsIn(r.ids)' : lab'[l].kind = r.domain
    BY <2>5, <2>7, <2>8
  <2>10. QED
    BY <2>1, <2>2, <2>6, <2>7, <2>8, <2>9 DEF Fits, Op, In
<1>2. CASE Op(v, ProjectOps)
  <2>1. PICK r : r = writer[v] /\ r = writer'[v]
    OBVIOUS
  <2>2. /\ r.project \in Projects /\ r.category \in Categories
        /\ r.category \notin rows /\ r.project \notin rows
        /\ {r.project} \cap rows = {} /\ LabsIn({r.project}) \cap rows = {}
        /\ r.op \in {"create project", "project read", "project checked"}
    BY <1>2, <2>1, ProjectFields, ReachIs DEF Op, ProjectOps
  <2>3. category'[r.category] = category[r.category]
    BY <2>2 DEF Frame
  <2>4. r.op \in {"project read", "project checked"} => project'[r.project] = project[r.project]
    BY <2>1, <2>2 DEF Frame, HeldRows, Op
  <2>5. PICK P : P = {r.project}
    OBVIOUS
  <2>6. LabsIn(P)' = LabsIn(P) /\ \A l \in LabsIn(P) : lab'[l] = lab[l]
    BY <2>2, <2>5, LabsInStay
  <2>7. r.domain = category'[r.category]
    BY <2>1, <2>2, <2>3 DEF Fits, Op
  <2>8. r.op \in {"project read", "project checked"} => r.old = project'[r.project].domain
    BY <2>1, <2>4 DEF Fits, Op
  <2>9. r.op = "project checked" => r.domain = r.old \/ \A l \in LabsIn(P) : lab[l].kind = r.domain
    BY <2>1, <2>5 DEF Fits, In
  <2>10. r.op = "project checked" =>
            r.domain = r.old \/ \A l \in LabsIn({r.project})' : lab'[l].kind = r.domain
    BY <2>5, <2>6, <2>9
  <2>11. QED
    BY <2>1, <2>2, <2>7, <2>8, <2>10 DEF Fits, Op, In
<1>3. CASE Op(v, LabOps)
  <2>1. PICK r : r = writer[v] /\ r = writer'[v]
    OBVIOUS
  <2>2. /\ r.project \in Projects /\ r.lab \in Labs /\ r.project \notin rows /\ r.lab \notin rows
        /\ r.op \in LabOps
    BY <1>3, <2>1, LabFields, ReachIs DEF Op
  <2>3. r.op \in {"create lab", "lab moved", "write lab"} =>
           project'[r.project] = project[r.project]
    BY <2>1, <2>2 DEF Frame, HeldRows, Op
  <2>4. r.op \in {"lab read", "lab moved", "write lab"} => lab'[r.lab] = lab[r.lab]
    BY <2>1, <2>2 DEF Frame, HeldRows, Op
  <2>5. /\ r.op \in {"create lab", "lab moved", "write lab"} => r.domain = project[r.project].domain
        /\ r.op = "lab read" => lab[r.lab].project = r.from
        /\ r.op = "write lab" => lab[r.lab].types \subseteq {r.domain} \/ lab[r.lab].misfit
    BY <2>1 DEF Fits, Op, In
  <2>6. /\ r.op \in {"create lab", "lab moved", "write lab"} =>
              r.domain = project'[r.project].domain
        /\ r.op = "lab read" => lab'[r.lab].project = r.from
        /\ r.op = "write lab" => lab'[r.lab].types \subseteq {r.domain} \/ lab'[r.lab].misfit
    BY <2>3, <2>4, <2>5
  <2>7. QED
    BY <2>1, <2>2, <2>6 DEF Fits, Op, In, LabOps
<1>4. CASE In(v, "write input")
  <2>1. PICK l : l = writer[v].lab
    OBVIOUS
  <2>2. l \in Labs /\ l \notin rows
    BY <1>4, <2>1, LabFields, ReachIs
  <2>3. lab'[l] = lab[l]
    BY <1>4, <2>1, <2>2 DEF Frame, HeldRows, Op, In
  <2>4. writer[v].type = lab[l].domain
    BY <1>4, <2>1 DEF Fits, In
  <2>5. QED
    BY <1>4, <2>1, <2>3, <2>4 DEF Fits, Op, In
<1>5. CASE In(v, "idle")
  BY <1>5 DEF Fits, Op, In
<1>6. QED
  BY <1>1, <1>2, <1>3, <1>4, <1>5, WriterIs DEF Op, In

\* The rows after a step are rows of their tables.
RowsAreTyped ==
    /\ category \in [Categories -> Domains]
    /\ project \in [Projects -> ProjectRow \cup {NoProject}]
    /\ lab \in [Labs -> LabRow \cup {NoLab}]

LEMMA AnswersKeep ==
    ASSUME DomainsInv, ~raced, NEW w \in Writers, NEW rows, Answers(w, rows), Grows(w),
           RowsAreTyped', LabsHaveProjects', w \notin crossed => Frame(rows) /\ DomainsAgree'
    PROVE  DomainsInv'
<1>1. /\ writer' = [writer EXCEPT ![w] = Waiting] /\ writer \in [Writers -> Writer]
      /\ raced' = (w \in crossed) /\ crossed \subseteq Writers
      /\ crossed' = (crossed \ {w}) \cup {v \in Writers \ {w} : Reach(v) \cap rows # {}}
  BY DEF DomainsInv, DomainsTypeOK, Answers
<1>2. /\ writer' \in [Writers -> Writer] /\ writer'[w].op = "idle"
      /\ \A v \in Writers \ {w} : writer'[v] = writer[v]
  BY <1>1 DEF Waiting, Writer
<1>3. DomainsTypeOK'
  BY <1>1, <1>2 DEF DomainsTypeOK, RowsAreTyped
<1>4. DomainsAgree'
  BY <1>1 DEF DomainsAgree, ProjectFollowsCategory, LabFollowsProject, InputsRegistered
<1>5. CreatorsApart'
  BY <1>2 DEF DomainsInv, CreatorsApart, In
<1>6. ASSUME NEW v \in Writers
      PROVE  HeldRows(writer[v])' /\ (raced' \/ v \in crossed' \/ Fits(writer[v])')
  <2>1. CASE v = w
    BY <1>2, <2>1 DEF HeldRows, Fits, Op, In
  <2>2. CASE v # w
    <3>1. HeldRows(writer[v]) /\ (v \in crossed \/ Fits(writer[v])) /\ writer'[v] = writer[v]
      BY <1>2, <2>2 DEF DomainsInv
    <3>2. HeldRows(writer[v])'
      <4>1. \A p \in Projects : HasProject(p) => HasProject(p)'
        BY DEF Grows
      <4>2. \A l \in Labs : HasLab(l) => HasLab(l)'
        BY DEF Grows
      <4>3. In(v, "create project") => ~HasProject(writer[v].project)'
        <5>1. In(v, "create project") =>
                writer[v].project \in Projects /\ ~HasProject(writer[v].project)
          BY <3>1, ProjectFields DEF DomainsInv, HeldRows, Op, In, ProjectOps
        <5>2. In(v, "create project") /\ In(w, "create project") =>
                writer[v].project # writer[w].project
          BY <2>2 DEF DomainsInv, CreatorsApart
        <5>3. \A p \in Projects : ~HasProject(p) /\ p # writer[w].project => ~HasProject(p)'
          BY DEF Grows
        <5>4. \A p \in Projects : ~HasProject(p) /\ ~In(w, "create project") => ~HasProject(p)'
          BY DEF Grows
        <5>5. PICK p : p = writer[v].project
          OBVIOUS
        <5>6. In(v, "create project") => ~HasProject(p)'
          BY <5>1, <5>2, <5>3, <5>4, <5>5
        <5>7. QED
          BY <3>1, <5>5, <5>6 DEF HasProject
      <4>4. Op(v, {"category written", "category checked"}) =>
              \A p \in writer[v].ids \cup writer[v].rows : p \in Projects /\ HasProject(p)
        BY <3>1, CategoryFields DEF DomainsInv, HeldRows, Op, CategoryOps
      <4>5. Op(v, {"project read", "project checked"}) =>
              /\ writer[v].project \in Projects /\ HasProject(writer[v].project)
              /\ writer[v].sent \/ writer[v].domain = writer[v].old
        BY <3>1, ProjectFields DEF DomainsInv, HeldRows, Op, ProjectOps
      <4>6. /\ Op(v, {"create lab", "lab moved", "write lab"}) =>
                 writer[v].project \in Projects /\ HasProject(writer[v].project)
            /\ Op(v, {"lab read", "lab moved", "write lab", "write input"}) =>
                 writer[v].lab \in Labs /\ HasLab(writer[v].lab)
        BY <3>1, LabFields DEF DomainsInv, HeldRows, Op, LabOps, In
      <4>7. QED
        BY <3>1, <4>1, <4>2, <4>3, <4>4, <4>5, <4>6 DEF HeldRows, Op, In, HasProject, HasLab
    <3>3. CASE raced' \/ v \in crossed'
      BY <3>2, <3>3
    <3>4. CASE ~(raced' \/ v \in crossed')
      <4>1. v \notin crossed /\ Reach(v) \cap rows = {} /\ Frame(rows)
        BY <1>1, <2>2, <3>4
      <4>2. QED
        BY <3>1, <3>2, <4>1, FitsStay DEF DomainsInv
    <3>5. QED
      BY <3>3, <3>4
  <2>3. QED
    BY <2>1, <2>2
<1>7. QED
  BY <1>3, <1>4, <1>5, <1>6 DEF DomainsInv

LEMMA DomainRefusedKeeps ==
    ASSUME DomainsInv, ~raced, NEW w \in Writers, Refused(w)
    PROVE  DomainsInv'
<1>1. /\ UNCHANGED <<category, project, lab, raced>> /\ crossed' = crossed \ {w}
      /\ writer' = [writer EXCEPT ![w] = Waiting] /\ writer \in [Writers -> Writer]
  BY DEF DomainsInv, DomainsTypeOK, Refused
<1>2. /\ writer' \in [Writers -> Writer] /\ writer'[w].op = "idle"
      /\ \A v \in Writers \ {w} : writer'[v] = writer[v]
  BY <1>1 DEF Waiting, Writer
<1>3. DomainsTypeOK'
  BY <1>1, <1>2 DEF DomainsInv, DomainsTypeOK
<1>4. DomainsAgree' /\ LabsHaveProjects'
  BY <1>1 DEF DomainsInv, DomainsAgree, ProjectFollowsCategory, LabFollowsProject,
              InputsRegistered, LabsHaveProjects, HasProject, HasLab
<1>5. CreatorsApart'
  BY <1>2 DEF DomainsInv, CreatorsApart, In
<1>6. ASSUME NEW v \in Writers
      PROVE  HeldRows(writer[v])' /\ (raced' \/ v \in crossed' \/ Fits(writer[v])')
  <2>1. CASE v = w
    BY <1>2, <2>1 DEF HeldRows, Fits, Op, In
  <2>2. CASE v # w
    <3>1. PICK q : q = writer[v] /\ q = writer'[v]
      BY <1>2, <2>2
    <3>2. HeldRows(q) /\ (raced \/ v \in crossed \/ Fits(q))
      BY <3>1 DEF DomainsInv
    <3>3. HeldRows(q)' /\ (raced \/ v \in crossed \/ Fits(q)')
      BY <1>1, <3>2, RowsStay
    <3>4. QED
      BY <1>1, <2>2, <3>1, <3>3
  <2>3. QED
    BY <2>1, <2>2
<1>7. QED
  BY <1>3, <1>4, <1>5, <1>6 DEF DomainsInv

-----------------------------------------------------------------------------
LEMMA CategoryReadsKeep ==
    ASSUME DomainsInv, ~raced, NEW w \in Writers,
           \/ \E c \in Categories, d \in Domains : CategoryRead(w, c, d)
           \/ CategoryWrite(w) \/ CategoryCheck(w)
    PROVE  DomainsInv'
<1>1. ASSUME NEW c \in Categories, NEW d \in Domains, CategoryRead(w, c, d) PROVE DomainsInv'
  <2>1. PICK r : r = [op |-> "category read", category |-> c, domain |-> d, old |-> category[c]]
    OBVIOUS
  <2>2. r \in Writer
    BY <2>1, RowFields DEF DomainsInv, Writer, CategoryWriter
  <2>3. HeldRows(r) /\ Fits(r) /\ ApartFrom(w, r)
    BY <2>1 DEF HeldRows, Fits, ApartFrom
  <2>4. Reads(w, r)
    BY <1>1, <2>1 DEF CategoryRead, Begins
  <2>5. QED
    BY <2>2, <2>3, <2>4, ReadsKeep
<1>2. ASSUME CategoryWrite(w) PROVE DomainsInv'
  <2>1. PICK r : r = [op |-> "category written", category |-> writer[w].category,
                      domain |-> writer[w].domain,
                      ids |-> ProjectsOf(writer[w].category), rows |-> {}]
    OBVIOUS
  <2>2. Op(w, CategoryOps)
    BY <1>2 DEF CategoryWrite, In, Op, CategoryOps
  <2>3. writer[w].category \in Categories /\ writer[w].domain \in Domains
        /\ ProjectsOf(writer[w].category) \subseteq Projects
    BY <2>2, CategoryFields DEF DomainsInv, ProjectsOf
  <2>4. r \in Writer
    BY <2>1, <2>3 DEF Writer, CategoryWriter
  <2>5. HeldRows(r) /\ Fits(r) /\ ApartFrom(w, r)
    BY <2>1 DEF HeldRows, Fits, ApartFrom, ProjectsOf
  <2>6. Reads(w, r)
    BY <1>2, <2>1 DEF CategoryWrite
  <2>7. QED
    BY <2>4, <2>5, <2>6, ReadsKeep
<1>3. ASSUME CategoryCheck(w) PROVE DomainsInv'
  <2>1. PICK q : q = writer[w]
    OBVIOUS
  <2>2. PICK r : r = [q EXCEPT !.op = "category checked", !.rows = ProjectsOf(q.category)]
    OBVIOUS
  <2>3. q.op = "category written" /\ Op(w, CategoryOps)
    BY <1>3, <2>1 DEF CategoryCheck, In, Op, CategoryOps
  <2>4. q \in [op: {"category written", "category checked"}, category: Categories,
               domain: Domains, ids: SUBSET Projects, rows: SUBSET Projects]
    BY <2>1, <2>3, WriterIs DEF DomainsInv, CategoryWriter
  <2>5. /\ r.op = "category checked" /\ r.category = q.category /\ r.domain = q.domain
        /\ r.ids = q.ids /\ r.rows = ProjectsOf(q.category)
        /\ r \in [op: {"category written", "category checked"}, category: Categories,
                  domain: Domains, ids: SUBSET Projects, rows: SUBSET Projects]
    BY <2>2, <2>4 DEF ProjectsOf
  <2>6. r \in Writer
    BY <2>5 DEF Writer, CategoryWriter
  <2>7. \A l \in LabsIn(q.ids) : lab[l].kind = q.domain
    BY <1>3, <2>1 DEF CategoryCheck, NoOtherKind
  <2>8. HeldRows(q) /\ (w \in crossed \/ Fits(q))
    BY <2>1 DEF DomainsInv
  <2>9. HeldRows(r) /\ (w \in crossed \/ Fits(r)) /\ ApartFrom(w, r)
    BY <2>3, <2>5, <2>7, <2>8 DEF HeldRows, Fits, ApartFrom, ProjectsOf
  <2>10. Reads(w, r)
    BY <1>3, <2>1, <2>2 DEF CategoryCheck
  <2>11. QED
    BY <2>6, <2>9, <2>10, ReadsKeep
<1>4. QED
  BY <1>1, <1>2, <1>3

LEMMA ProjectReadsKeep ==
    ASSUME DomainsInv, ~raced, NEW w \in Writers,
           \/ \E p \in Projects, c \in Categories, k \in Payloads \cup {NoKind} :
                 \/ ProjectCreateRead(w, p, c, k)
                 \/ \E sent \in BOOLEAN : ProjectRead(w, p, c, sent, k)
           \/ ProjectCheck(w)
    PROVE  DomainsInv'
<1>1. ASSUME NEW p \in Projects, NEW c \in Categories, NEW k \in Payloads \cup {NoKind},
             ProjectCreateRead(w, p, c, k)
      PROVE  DomainsInv'
  <2>1. PICK r : r = [op |-> "create project", project |-> p, category |-> c,
                      domain |-> category[c], kind |-> k]
    OBVIOUS
  <2>2. r \in Writer
    BY <2>1, RowFields DEF DomainsInv, Writer, ProjectWriter
  <2>3. ~HasProject(p) /\ \A v \in Writers : ~(In(v, "create project") /\ writer[v].project = p)
    BY <1>1 DEF ProjectCreateRead
  <2>4. HeldRows(r) /\ Fits(r) /\ ApartFrom(w, r)
    BY <2>1, <2>3 DEF HeldRows, Fits, ApartFrom
  <2>5. Reads(w, r)
    BY <1>1, <2>1 DEF ProjectCreateRead, Begins
  <2>6. QED
    BY <2>2, <2>4, <2>5, ReadsKeep
<1>2. ASSUME NEW p \in Projects, NEW c \in Categories, NEW k \in Payloads \cup {NoKind},
             NEW sent \in BOOLEAN, ProjectRead(w, p, c, sent, k)
      PROVE  DomainsInv'
  <2>1. PICK r : r = [op |-> "project read", project |-> p, sent |-> sent, category |-> c,
                      domain |-> category[c], old |-> project[p].domain, kind |-> k]
    OBVIOUS
  <2>2. HasProject(p) /\ (sent \/ category[c] = project[p].domain)
    BY <1>2 DEF ProjectRead
  <2>3. r \in Writer
    BY <2>1, <2>2, RowFields DEF DomainsInv, Writer, ProjectWriter
  <2>4. HeldRows(r) /\ Fits(r) /\ ApartFrom(w, r)
    BY <2>1, <2>2 DEF HeldRows, Fits, ApartFrom
  <2>5. Reads(w, r)
    BY <1>2, <2>1 DEF ProjectRead, Begins
  <2>6. QED
    BY <2>3, <2>4, <2>5, ReadsKeep
<1>3. ASSUME ProjectCheck(w) PROVE DomainsInv'
  <2>1. PICK q : q = writer[w]
    OBVIOUS
  <2>2. PICK r : r = [q EXCEPT !.op = "project checked"]
    OBVIOUS
  <2>3. q.op = "project read" /\ Op(w, ProjectOps)
    BY <1>3, <2>1 DEF ProjectCheck, In, Op, ProjectOps
  <2>4. q \in [op: {"project read", "project checked"}, project: Projects, sent: BOOLEAN,
               category: Categories, domain: Domains, old: Domains,
               kind: Payloads \cup {NoKind}]
    BY <2>1, <2>3, WriterIs DEF DomainsInv, ProjectWriter
  <2>5. /\ r.op = "project checked" /\ r.project = q.project /\ r.category = q.category
        /\ r.domain = q.domain /\ r.old = q.old /\ r.sent = q.sent
        /\ r \in [op: {"project read", "project checked"}, project: Projects, sent: BOOLEAN,
                  category: Categories, domain: Domains, old: Domains,
                  kind: Payloads \cup {NoKind}]
    BY <2>2, <2>4
  <2>6. r \in Writer
    BY <2>5 DEF Writer, ProjectWriter
  <2>7. q.domain = q.old \/ \A l \in LabsIn({q.project}) : lab[l].kind = q.domain
    BY <1>3, <2>1 DEF ProjectCheck, NoOtherKind
  <2>8. HeldRows(q) /\ (w \in crossed \/ Fits(q))
    BY <2>1 DEF DomainsInv
  <2>9. HeldRows(r) /\ ApartFrom(w, r)
    BY <2>3, <2>5, <2>8 DEF HeldRows, ApartFrom
  <2>10. Fits(q) => Fits(r)
    BY <2>3, <2>5, <2>7 DEF Fits
  <2>11. Reads(w, r)
    BY <1>3, <2>1, <2>2 DEF ProjectCheck
  <2>12. QED
    BY <2>6, <2>8, <2>9, <2>10, <2>11, ReadsKeep
<1>4. QED
  BY <1>1, <1>2, <1>3

LEMMA LabReadsKeep ==
    ASSUME DomainsInv, ~raced, NEW w \in Writers,
           \/ \E l \in Labs, p \in Projects : LabCreateRead(w, l, p) \/ LabRead(w, l, p)
           \/ LabReadProject(w) \/ LabCompatible(w)
           \/ \E l \in Labs : InputRead(w, l)
    PROVE  DomainsInv'
<1>1. ASSUME NEW l \in Labs, NEW p \in Projects, LabCreateRead(w, l, p) PROVE DomainsInv'
  <2>1. PICK r : r = [op |-> "create lab", lab |-> l, project |-> p,
                      domain |-> project[p].domain]
    OBVIOUS
  <2>2. HasProject(p) /\ Reads(w, r)
    BY <1>1, <2>1 DEF LabCreateRead, Begins
  <2>3. r \in Writer
    BY <2>1, <2>2, RowFields DEF DomainsInv, Writer, LabWriter
  <2>4. HeldRows(r) /\ Fits(r) /\ ApartFrom(w, r)
    BY <2>1, <2>2 DEF HeldRows, Fits, ApartFrom
  <2>5. QED
    BY <2>2, <2>3, <2>4, ReadsKeep
<1>2. ASSUME NEW l \in Labs, NEW p \in Projects, LabRead(w, l, p) PROVE DomainsInv'
  <2>1. PICK r : r = [op |-> "lab read", lab |-> l, from |-> lab[l].project, project |-> p]
    OBVIOUS
  <2>2. HasLab(l) /\ Reads(w, r)
    BY <1>2, <2>1 DEF LabRead, Begins
  <2>3. r \in Writer
    BY <2>1, <2>2, RowFields DEF DomainsInv, Writer, LabWriter
  <2>4. HeldRows(r) /\ Fits(r) /\ ApartFrom(w, r)
    BY <2>1, <2>2 DEF HeldRows, Fits, ApartFrom
  <2>5. QED
    BY <2>2, <2>3, <2>4, ReadsKeep
<1>3. ASSUME LabReadProject(w) PROVE DomainsInv'
  <2>1. PICK q : q = writer[w]
    OBVIOUS
  <2>2. PICK r : r = [op |-> IF q.project = q.from THEN "write lab" ELSE "lab moved",
                      lab |-> q.lab, project |-> q.project,
                      domain |-> project[q.project].domain]
    OBVIOUS
  <2>3. q.op = "lab read" /\ HasProject(q.project) /\ Reads(w, r)
    BY <1>3, <2>1, <2>2 DEF LabReadProject, In
  <2>4. q.lab \in Labs /\ q.project \in Projects /\ HasLab(q.lab)
    BY <2>1, <2>3, LabFields DEF DomainsInv, HeldRows, Op, LabOps
  <2>5. r \in Writer
    BY <2>2, <2>3, <2>4, RowFields DEF DomainsInv, Writer, LabWriter
  <2>6. HeldRows(r) /\ ApartFrom(w, r)
    BY <2>2, <2>3, <2>4 DEF HeldRows, ApartFrom
  <2>7. ASSUME w \notin crossed PROVE Fits(r)
    <3>1. lab[q.lab].project = q.from
      BY <2>1, <2>3, <2>7 DEF DomainsInv, Fits
    <3>2. q.project = q.from =>
            lab[q.lab].types \subseteq {project[q.project].domain} \/ lab[q.lab].misfit
      BY <2>4, <3>1 DEF DomainsInv, DomainsAgree, InputsRegistered, LabFollowsProject
    <3>3. QED
      BY <2>2, <3>2 DEF Fits
  <2>8. QED
    BY <2>3, <2>5, <2>6, <2>7, ReadsKeep
<1>4. ASSUME LabCompatible(w) PROVE DomainsInv'
  <2>1. PICK q : q = writer[w]
    OBVIOUS
  <2>2. PICK r : r = [q EXCEPT !.op = "write lab"]
    OBVIOUS
  <2>3. q.op = "lab moved" /\ lab[q.lab].types \subseteq {q.domain} /\ Reads(w, r)
    BY <1>4, <2>1, <2>2 DEF LabCompatible, In
  <2>4. q \in [op: {"create lab", "lab moved", "write lab"}, lab: Labs, project: Projects,
               domain: Domains]
    BY <2>1, <2>3, WriterIs DEF DomainsInv, LabWriter, Op, LabOps
  <2>5. /\ r.op = "write lab" /\ r.lab = q.lab /\ r.project = q.project /\ r.domain = q.domain
        /\ r \in [op: {"create lab", "lab moved", "write lab"}, lab: Labs, project: Projects,
                  domain: Domains]
    BY <2>2, <2>4
  <2>6. r \in Writer
    BY <2>5 DEF Writer, LabWriter
  <2>7. HeldRows(q) /\ (w \in crossed \/ Fits(q))
    BY <2>1 DEF DomainsInv
  <2>8. HeldRows(r) /\ ApartFrom(w, r)
    BY <2>3, <2>5, <2>7 DEF HeldRows, ApartFrom
  <2>9. Fits(q) => Fits(r)
    BY <2>3, <2>5 DEF Fits
  <2>10. QED
    BY <2>3, <2>6, <2>7, <2>8, <2>9, ReadsKeep
<1>5. ASSUME NEW l \in Labs, InputRead(w, l) PROVE DomainsInv'
  <2>1. PICK r : r = [op |-> "write input", lab |-> l, type |-> lab[l].domain]
    OBVIOUS
  <2>2. HasLab(l) /\ Reads(w, r)
    BY <1>5, <2>1 DEF InputRead, Begins
  <2>3. r \in Writer
    BY <2>1, <2>2, RowFields DEF DomainsInv, Writer, LabWriter
  <2>4. HeldRows(r) /\ Fits(r) /\ ApartFrom(w, r)
    BY <2>1, <2>2 DEF HeldRows, Fits, ApartFrom
  <2>5. QED
    BY <2>2, <2>3, <2>4, ReadsKeep
<1>6. QED
  BY <1>1, <1>2, <1>3, <1>4, <1>5

-----------------------------------------------------------------------------
LEMMA CategoryKeepKeeps ==
    ASSUME DomainsInv, ~raced, NEW w \in Writers, CategoryKeep(w)
    PROVE  DomainsInv'
<1>1. PICK r : r = writer[w]
  OBVIOUS
<1>2. PICK rows : rows = Reach(w)
  OBVIOUS
<1>3. /\ r.op = "category read" /\ r.domain = r.old /\ Answers(w, rows)
      /\ category' = [category EXCEPT ![r.category] = r.domain]
      /\ UNCHANGED <<project, lab>> /\ Op(w, CategoryOps)
  BY <1>1, <1>2 DEF CategoryKeep, In, Op, CategoryOps
<1>4. r.category \in Categories /\ r.domain \in Domains /\ r.category \in rows
  BY <1>1, <1>2, <1>3, CategoryFields, ReachIs DEF DomainsInv
<1>5. RowsAreTyped' /\ LabsHaveProjects' /\ Grows(w)
  BY <1>3, <1>4 DEF DomainsInv, DomainsTypeOK, RowsAreTyped, LabsHaveProjects, Grows, HasProject,
                    HasLab
<1>6. ASSUME w \notin crossed PROVE Frame(rows) /\ DomainsAgree'
  <2>1. r.old = category[r.category]
    BY <1>1, <1>3, <1>6 DEF DomainsInv, Fits
  <2>2. category' = category
    BY <1>3, <1>4, <2>1 DEF DomainsInv, DomainsTypeOK
  <2>3. QED
    BY <1>3, <2>2
       DEF DomainsInv, DomainsAgree, ProjectFollowsCategory, LabFollowsProject, InputsRegistered,
           Frame, HasProject, HasLab
<1>7. QED
  BY <1>3, <1>5, <1>6, AnswersKeep

\* What the cascade of a category's domain leaves.
LEMMA CascadeEffect ==
    ASSUME DomainsInv, NEW w \in Writers, CategoryCommit(w), NEW r, r = writer[w]
    PROVE  /\ r.category \in Categories /\ r.domain \in Domains /\ r.rows \subseteq Projects
           /\ category' = [category EXCEPT ![r.category] = r.domain]
           /\ \A p \in Projects :
                 /\ p \notin r.rows => project'[p] = project[p]
                 /\ p \in r.rows => /\ HasProject(p) /\ HasProject(p)' /\ project'[p] \in ProjectRow
                                    /\ project'[p].category = project[p].category
                                    /\ project'[p].domain = r.domain
           /\ \A l \in Labs :
                 /\ l \notin LabsIn(r.ids) => lab'[l] = lab[l]
                 /\ l \in LabsIn(r.ids) =>
                       /\ HasLab(l) /\ HasLab(l)' /\ lab'[l] \in LabRow
                       /\ lab'[l].domain = r.domain /\ lab'[l].project = lab[l].project
                       /\ lab'[l].kind = lab[l].kind /\ lab'[l].types = lab[l].types
                       /\ lab'[l].misfit = lab[l].misfit
           /\ RowsAreTyped'
<1>1. /\ r.op = "category checked" /\ Op(w, CategoryOps)
      /\ Op(w, {"category written", "category checked"})
      /\ category' = [category EXCEPT ![r.category] = r.domain]
      /\ project' = [p \in Projects |->
                       IF p \in r.rows THEN [project[p] EXCEPT !.domain = r.domain]
                       ELSE project[p]]
      /\ lab' = [l \in Labs |-> IF l \in LabsIn(r.ids) THEN [lab[l] EXCEPT !.domain = r.domain]
                                ELSE lab[l]]
  BY DEF CategoryCommit, LabsGet, In, Op, CategoryOps
<1>2. /\ r.category \in Categories /\ r.domain \in Domains /\ r.rows \subseteq Projects
      /\ \A p \in r.rows : HasProject(p)
  BY <1>1, CategoryFields DEF DomainsInv, HeldRows
<1>3. ASSUME NEW p \in r.rows
      PROVE  /\ HasProject(p) /\ HasProject(p)' /\ project'[p] \in ProjectRow
             /\ project'[p].category = project[p].category /\ project'[p].domain = r.domain
  <2>1. p \in Projects /\ HasProject(p) /\ project[p] \in ProjectRow
    BY <1>2, RowFields DEF DomainsInv
  <2>2. project'[p] = [project[p] EXCEPT !.domain = r.domain]
    BY <1>1, <2>1
  <2>3. /\ project'[p] \in ProjectRow /\ project'[p].category = project[p].category
        /\ project'[p].domain = r.domain
    BY <1>2, <2>1, <2>2 DEF ProjectRow
  <2>4. project'[p] # NoProject
    BY <2>3 DEF ProjectRow, NoProject
  <2>5. QED
    BY <2>1, <2>3, <2>4 DEF HasProject
<1>4. ASSUME NEW l \in LabsIn(r.ids)
      PROVE  /\ l \in Labs /\ HasLab(l) /\ HasLab(l)' /\ lab'[l] \in LabRow
             /\ lab'[l].domain = r.domain /\ lab'[l].project = lab[l].project
             /\ lab'[l].kind = lab[l].kind /\ lab'[l].types = lab[l].types
             /\ lab'[l].misfit = lab[l].misfit
  <2>1. l \in Labs /\ HasLab(l)
    BY DEF LabsIn
  <2>2. lab[l] \in LabRow
    BY <2>1, RowFields DEF DomainsInv
  <2>3. lab'[l] = [lab[l] EXCEPT !.domain = r.domain]
    BY <1>1, <2>1
  <2>4. /\ lab'[l] \in LabRow /\ lab'[l].domain = r.domain /\ lab'[l].project = lab[l].project
        /\ lab'[l].kind = lab[l].kind /\ lab'[l].types = lab[l].types
        /\ lab'[l].misfit = lab[l].misfit
    BY <1>2, <2>2, <2>3 DEF LabRow
  <2>5. lab'[l] # NoLab
    BY <2>4 DEF LabRow, NoLab
  <2>6. QED
    BY <2>1, <2>4, <2>5 DEF HasLab
<1>5. ASSUME NEW p \in Projects, p \notin r.rows PROVE project'[p] = project[p]
  BY <1>1, <1>5
<1>6. ASSUME NEW l \in Labs, l \notin LabsIn(r.ids) PROVE lab'[l] = lab[l]
  BY <1>1, <1>6
<1>7. RowsAreTyped'
  <2>1. category' \in [Categories -> Domains]
    BY <1>1, <1>2 DEF DomainsInv, DomainsTypeOK
  <2>2. project' \in [Projects -> ProjectRow \cup {NoProject}]
    <3>1. \A p \in Projects : project'[p] \in ProjectRow \cup {NoProject}
      BY <1>3, <1>5 DEF DomainsInv, DomainsTypeOK
    <3>2. QED
      BY <1>1, <3>1
  <2>3. lab' \in [Labs -> LabRow \cup {NoLab}]
    <3>1. \A l \in Labs : lab'[l] \in LabRow \cup {NoLab}
      BY <1>4, <1>6 DEF DomainsInv, DomainsTypeOK
    <3>2. QED
      BY <1>1, <3>1
  <2>4. QED
    BY <2>1, <2>2, <2>3 DEF RowsAreTyped
<1>8. QED
  BY <1>1, <1>2, <1>3, <1>4, <1>5, <1>6, <1>7

LEMMA CategoryCommitKeeps ==
    ASSUME DomainsInv, ~raced, NEW w \in Writers, CategoryCommit(w)
    PROVE  DomainsInv'
<1>1. PICK r : r = writer[w]
  OBVIOUS
<1>2. PICK rows : rows = Reach(w)
  OBVIOUS
<1>3. Answers(w, rows) /\ r.op = "category checked" /\ Op(w, CategoryOps)
  BY <1>1, <1>2 DEF CategoryCommit, In, Op, CategoryOps
<1>4. /\ r.category \in Categories /\ r.domain \in Domains /\ r.rows \subseteq Projects
      /\ category' = [category EXCEPT ![r.category] = r.domain] /\ RowsAreTyped'
  BY <1>1, CascadeEffect
<1>5. ASSUME NEW p \in Projects
      PROVE  /\ p \notin r.rows => project'[p] = project[p]
             /\ p \in r.rows => /\ HasProject(p) /\ HasProject(p)' /\ project'[p] \in ProjectRow
                                /\ project'[p].category = project[p].category
                                /\ project'[p].domain = r.domain
  BY <1>1, CascadeEffect
<1>6. ASSUME NEW l \in Labs
      PROVE  /\ l \notin LabsIn(r.ids) => lab'[l] = lab[l]
             /\ l \in LabsIn(r.ids) =>
                   /\ HasLab(l) /\ HasLab(l)' /\ lab'[l] \in LabRow
                   /\ lab'[l].domain = r.domain /\ lab'[l].project = lab[l].project
                   /\ lab'[l].kind = lab[l].kind /\ lab'[l].types = lab[l].types
                   /\ lab'[l].misfit = lab[l].misfit
  BY <1>1, CascadeEffect
<1>7. \A p \in Projects : HasProject(p)' <=> HasProject(p)
  BY <1>5 DEF HasProject
<1>8. \A l \in Labs : /\ HasLab(l)' <=> HasLab(l)
                      /\ lab'[l].project = lab[l].project
  BY <1>6 DEF HasLab
<1>9. LabsHaveProjects' /\ Grows(w)
  <2>1. \A l \in Labs : HasLab(l) => lab[l].project \in Projects /\ HasProject(lab[l].project)
    BY RowFields DEF DomainsInv, LabsHaveProjects
  <2>2. ASSUME NEW l \in Labs, HasLab(l)' PROVE HasProject(lab[l].project)'
    <3>1. PICK p : p = lab[l].project
      OBVIOUS
    <3>2. p \in Projects /\ HasProject(p) /\ lab'[l].project = p
      BY <1>8, <2>1, <2>2, <3>1
    <3>3. HasProject(p)'
      BY <1>7, <3>2
    <3>4. QED
      BY <3>2, <3>3 DEF HasProject
  <2>3. QED
    BY <1>7, <1>8, <2>2 DEF LabsHaveProjects, Grows
<1>10. ASSUME w \notin crossed PROVE Frame(rows) /\ DomainsAgree'
  <2>1. /\ r.ids = ProjectsOf(r.category) /\ r.rows = r.ids
        /\ \A l \in LabsIn(r.ids) : lab[l].kind = r.domain
    BY <1>1, <1>3, <1>10 DEF DomainsInv, Fits
  <2>2. rows = {r.category} \cup r.rows \cup LabsIn(r.ids)
    BY <1>1, <1>2, <1>3, <2>1, ReachIs DEF DomainsInv
  <2>3. \A c \in Categories \ {r.category} : category'[c] = category[c]
    BY <1>4
  <2>4. category'[r.category] = r.domain
    BY <1>4 DEF DomainsInv, DomainsTypeOK
  <2>5. Frame(rows)
    BY <1>4, <1>5, <1>6, <1>7, <1>8, <2>2, <2>3 DEF Frame
  <2>6. ASSUME NEW p \in Projects, HasProject(p)'
        PROVE  project'[p].domain = category'[project'[p].category]
    <3>1. HasProject(p) /\ project[p].category \in Categories
          /\ project[p].domain = category[project[p].category]
      BY <1>7, <2>6, RowFields DEF DomainsInv, DomainsAgree, ProjectFollowsCategory
    <3>2. CASE p \in r.rows
      BY <1>5, <2>1, <2>4, <3>1, <3>2 DEF ProjectsOf
    <3>3. CASE p \notin r.rows
      <4>1. project[p].category # r.category
        BY <2>1, <3>1, <3>3 DEF ProjectsOf
      <4>2. QED
        BY <1>5, <2>3, <3>1, <3>3, <4>1
    <3>4. QED
      BY <3>2, <3>3
  <2>7. ASSUME NEW l \in Labs, HasLab(l)'
        PROVE  /\ lab'[l].domain = project'[lab'[l].project].domain
               /\ lab'[l].kind = lab'[l].domain \/ lab'[l].misfit
               /\ lab'[l].types \subseteq {lab'[l].domain} \/ lab'[l].misfit
    <3>1. /\ HasLab(l) /\ lab[l].project \in Projects /\ HasProject(lab[l].project)
          /\ lab[l].domain = project[lab[l].project].domain
          /\ lab[l].kind = lab[l].domain \/ lab[l].misfit
          /\ lab[l].types \subseteq {lab[l].domain} \/ lab[l].misfit
      BY <1>8, <2>7, RowFields
         DEF DomainsInv, DomainsAgree, LabFollowsProject, InputsRegistered, LabsHaveProjects
    <3>2. CASE l \in LabsIn(r.ids)
      <4>1. lab[l].project \in r.rows /\ lab[l].kind = r.domain
        BY <2>1, <3>2 DEF LabsIn
      <4>2. QED
        BY <1>5, <1>6, <3>1, <3>2, <4>1
    <3>3. CASE l \notin LabsIn(r.ids)
      <4>1. lab[l].project \notin r.rows
        BY <2>1, <3>1, <3>3 DEF LabsIn
      <4>2. QED
        BY <1>5, <1>6, <3>1, <3>3, <4>1
    <3>4. QED
      BY <3>2, <3>3
  <2>8. QED
    BY <2>5, <2>6, <2>7
       DEF DomainsAgree, ProjectFollowsCategory, LabFollowsProject, InputsRegistered
<1>11. QED
  BY <1>3, <1>4, <1>9, <1>10, AnswersKeep

-----------------------------------------------------------------------------
\* A row that a request makes or updates.
LEMMA LabRowsAre ==
    /\ \A p \in Projects, d \in Domains, k \in Domains :
          LET row == NewLab(p, d, k) IN
          /\ row \in LabRow /\ row.project = p /\ row.domain = d
          /\ row.kind = d \/ row.misfit
          /\ row.types \subseteq {d} \/ row.misfit
    /\ \A row \in LabRow, d \in Domains :
          /\ [row EXCEPT !.domain = d] \in LabRow
          /\ [row EXCEPT !.types = @ \cup {d}] \in LabRow
          /\ [row EXCEPT !.types = @ \ {d}] \in LabRow
    /\ NoLab \notin LabRow /\ NoProject \notin ProjectRow
<1>1. ASSUME NEW p \in Projects, NEW d \in Domains, NEW k \in Domains
      PROVE  /\ NewLab(p, d, k) \in LabRow
             /\ NewLab(p, d, k).project = p /\ NewLab(p, d, k).domain = d
             /\ NewLab(p, d, k).kind = d \/ NewLab(p, d, k).misfit
             /\ NewLab(p, d, k).types \subseteq {d} \/ NewLab(p, d, k).misfit
  <2>1. CASE k = d
    BY <2>1 DEF NewLab, LabRow
  <2>2. CASE k # d
    <3>1. PICK b \in BOOLEAN : b = (k # d)
      OBVIOUS
    <3>2. NewLab(p, d, k) = [project |-> p, domain |-> d, kind |-> k, types |-> {k}, misfit |-> b]
      BY <3>1, Zenon DEF NewLab
    <3>3. NewLab(p, d, k).misfit = b /\ NewLab(p, d, k) \in LabRow
          /\ NewLab(p, d, k).project = p /\ NewLab(p, d, k).domain = d
      BY <3>2 DEF LabRow
    <3>4. b
      BY <2>2, <3>1
    <3>5. QED
      BY <3>3, <3>4
  <2>3. QED
    BY <2>1, <2>2
<1>2. ASSUME NEW row \in LabRow, NEW d \in Domains
      PROVE  /\ [row EXCEPT !.domain = d] \in LabRow
             /\ [row EXCEPT !.types = @ \cup {d}] \in LabRow
             /\ [row EXCEPT !.types = @ \ {d}] \in LabRow
  BY DEF LabRow
<1>3. NoLab \notin LabRow /\ NoProject \notin ProjectRow
  BY DEF LabRow, NoLab, ProjectRow, NoProject
<1>4. QED
  BY <1>1, <1>2, <1>3

GetsInput(l, p, k, labs) ==
    /\ HasLab(l) /\ lab[l].project = p /\ lab[l].kind = k /\ labs[l] \in LabRow
    /\ lab'[l] = [labs[l] EXCEPT !.types = @ \cup {k}] /\ k \in Domains

IsMade(l, p, d, k) == ~HasLab(l) /\ lab'[l] = NewLab(p, d, k) /\ k \in Domains

\* A payload gives a lab of its kind an input, makes a lab, or does nothing.
LEMMA PayloadEffect ==
    ASSUME DomainsTypeOK, NEW p \in Projects, NEW d \in Domains, NEW k \in Payloads \cup {NoKind},
           NEW labs \in [Labs -> LabRow \cup {NoLab}],
           \A l \in Labs : labs[l] # NoLab <=> HasLab(l), PayloadApplied(p, d, k, labs)
    PROVE  /\ lab' \in [Labs -> LabRow \cup {NoLab}]
           /\ \A l \in Labs :
                 \/ lab'[l] = labs[l]
                 \/ GetsInput(l, p, k, labs) \/ IsMade(l, p, d, k)
<1>1. k # NoKind => k \in Domains
  BY DomainsAssumption
<1>2. CASE k = NoKind
  BY <1>2 DEF PayloadApplied
<1>3. ASSUME k # NoKind, NEW m \in LabsIn({p}), lab[m].kind = k,
             lab' = [labs EXCEPT ![m].types = @ \cup {k}]
      PROVE  /\ lab' \in [Labs -> LabRow \cup {NoLab}]
             /\ \A l \in Labs :
                   \/ lab'[l] = labs[l]
                   \/ GetsInput(l, p, k, labs)
  <2>1. m \in Labs /\ HasLab(m) /\ lab[m].project = p /\ labs[m] \in LabRow
    BY <1>3 DEF LabsIn
  <2>2. lab'[m] = [labs[m] EXCEPT !.types = @ \cup {k}] /\ lab'[m] \in LabRow
    BY <1>1, <1>3, <2>1, LabRowsAre
  <2>3. \A l \in Labs \ {m} : lab'[l] = labs[l]
    BY <1>3
  <2>4. lab' \in [Labs -> LabRow \cup {NoLab}]
    BY <1>3, <2>2, <2>3
  <2>5. QED
    BY <1>1, <1>3, <2>1, <2>2, <2>3, <2>4 DEF GetsInput
<1>4. ASSUME k # NoKind, NEW m \in Labs, ~HasLab(m), lab' = [labs EXCEPT ![m] = NewLab(p, d, k)]
      PROVE  /\ lab' \in [Labs -> LabRow \cup {NoLab}]
             /\ \A l \in Labs :
                   \/ lab'[l] = labs[l]
                   \/ IsMade(l, p, d, k)
  <2>1. NewLab(p, d, k) \in LabRow
    BY <1>1, <1>4, LabRowsAre
  <2>2. lab'[m] = NewLab(p, d, k) /\ \A l \in Labs \ {m} : lab'[l] = labs[l]
    BY <1>4
  <2>3. QED
    BY <1>1, <1>4, <2>1, <2>2 DEF IsMade
<1>5. QED
  BY <1>2, <1>3, <1>4 DEF PayloadApplied

\* A step that only touches labs, by a request that knew where they belong.
LabsFit ==
    \A l \in Labs : HasLab(l) =>
        /\ lab[l].domain = project[lab[l].project].domain
        /\ lab[l].kind = lab[l].domain \/ lab[l].misfit
        /\ lab[l].types \subseteq {lab[l].domain} \/ lab[l].misfit

ProjectsFit ==
    \A p \in Projects : HasProject(p) => project[p].domain = category[project[p].category]

LEMMA AgreeIs ==
    /\ ~raced /\ DomainsAgree => ProjectsFit /\ LabsFit
    /\ ProjectsFit /\ LabsFit => DomainsAgree
BY DEF DomainsAgree, ProjectFollowsCategory, LabFollowsProject, InputsRegistered, ProjectsFit,
       LabsFit

LEMMA ProjectInsertKeeps ==
    ASSUME DomainsInv, ~raced, NEW w \in Writers, ProjectInsert(w)
    PROVE  DomainsInv'
<1>1. PICK r : r = writer[w]
  OBVIOUS
<1>2. PICK rows : rows = Reach(w)
  OBVIOUS
<1>3. /\ In(w, "create project") /\ r.op = "create project" /\ Op(w, ProjectOps)
      /\ Answers(w, rows)
      /\ project' = [project EXCEPT ![r.project] = [category |-> r.category, domain |-> r.domain]]
      /\ PayloadApplied(r.project, r.domain, r.kind, lab) /\ UNCHANGED category
  BY <1>1, <1>2 DEF ProjectInsert, In, Op, ProjectOps
<1>4. /\ r.project \in Projects /\ r.category \in Categories /\ r.domain \in Domains
      /\ r.kind \in Payloads \cup {NoKind} /\ ~HasProject(r.project)
  BY <1>1, <1>3, ProjectFields DEF DomainsInv, HeldRows
<1>5. {r.category, r.project} \subseteq rows
  BY <1>1, <1>2, <1>3, ReachIs DEF DomainsInv
<1>6. PICK row : row = [category |-> r.category, domain |-> r.domain]
  OBVIOUS
<1>7. /\ row \in ProjectRow /\ row.category = r.category /\ row.domain = r.domain
      /\ project'[r.project] = row
      /\ \A p \in Projects \ {r.project} : project'[p] = project[p]
      /\ project' \in [Projects -> ProjectRow \cup {NoProject}]
  BY <1>3, <1>4, <1>6 DEF DomainsInv, DomainsTypeOK, ProjectRow
<1>8. HasProject(r.project)' /\ \A p \in Projects \ {r.project} : HasProject(p)' <=> HasProject(p)
  BY <1>7, LabRowsAre DEF HasProject
<1>9. \A l \in Labs : HasLab(l) => HasProject(lab[l].project) /\ lab[l].project # r.project
                                   /\ lab[l].project \in Projects
  BY <1>4, RowFields DEF DomainsInv, LabsHaveProjects
<1>10. /\ lab' \in [Labs -> LabRow \cup {NoLab}]
       /\ \A l \in Labs :
             \/ lab'[l] = lab[l]
             \/ ~HasLab(l) /\ lab'[l] = NewLab(r.project, r.domain, r.kind) /\ r.kind \in Domains
  <2>1. PICK labs, p, d, k : /\ labs = lab /\ p = r.project /\ d = r.domain /\ k = r.kind
    OBVIOUS
  <2>2. /\ labs \in [Labs -> LabRow \cup {NoLab}] /\ \A l \in Labs : labs[l] # NoLab <=> HasLab(l)
        /\ PayloadApplied(p, d, k, labs) /\ p \in Projects /\ d \in Domains
        /\ k \in Payloads \cup {NoKind} /\ DomainsTypeOK
    BY <1>3, <1>4, <2>1 DEF DomainsInv, DomainsTypeOK, HasLab
  <2>3. /\ lab' \in [Labs -> LabRow \cup {NoLab}]
        /\ \A l \in Labs :
              \/ lab'[l] = labs[l]
              \/ GetsInput(l, p, k, labs) \/ IsMade(l, p, d, k)
    BY <2>2, PayloadEffect
  <2>4. QED
    BY <1>9, <2>1, <2>3 DEF GetsInput, IsMade
<1>11. ASSUME NEW l \in Labs
       PROVE  \/ lab'[l] = lab[l] /\ (HasLab(l)' <=> HasLab(l))
              \/ /\ ~HasLab(l) /\ HasLab(l)' /\ lab'[l].project = r.project
                 /\ lab'[l].domain = r.domain
                 /\ lab'[l].kind = r.domain \/ lab'[l].misfit
                 /\ lab'[l].types \subseteq {r.domain} \/ lab'[l].misfit
  <2>1. CASE lab'[l] = lab[l]
    BY <2>1 DEF HasLab
  <2>2. CASE ~HasLab(l) /\ lab'[l] = NewLab(r.project, r.domain, r.kind) /\ r.kind \in Domains
    <3>1. /\ lab'[l] \in LabRow /\ lab'[l].project = r.project /\ lab'[l].domain = r.domain
          /\ lab'[l].kind = r.domain \/ lab'[l].misfit
          /\ lab'[l].types \subseteq {r.domain} \/ lab'[l].misfit
      BY <1>4, <2>2, LabRowsAre
    <3>2. HasLab(l)'
      BY <3>1, LabRowsAre DEF HasLab
    <3>3. QED
      BY <2>2, <3>1, <3>2
  <2>3. QED
    BY <1>10, <2>1, <2>2
<1>12. LabsHaveProjects'
  <2>1. ASSUME NEW l \in Labs, HasLab(l)' PROVE HasProject(lab[l].project)'
    <3>1. PICK p : p = lab'[l].project
      OBVIOUS
    <3>2. p = r.project \/ (p \in Projects /\ HasProject(p))
      BY <1>9, <1>11, <2>1, <3>1
    <3>3. HasProject(p)'
      BY <1>8, <3>2
    <3>4. QED
      BY <3>1, <3>3 DEF HasProject
  <2>2. QED
    BY <2>1 DEF LabsHaveProjects
<1>13. RowsAreTyped' /\ Grows(w)
  BY <1>1, <1>3, <1>7, <1>8, <1>10, <1>11 DEF DomainsInv, DomainsTypeOK, RowsAreTyped, Grows
<1>14. ASSUME w \notin crossed PROVE Frame(rows) /\ DomainsAgree'
  <2>1. r.domain = category[r.category]
    BY <1>1, <1>3, <1>14 DEF DomainsInv, Fits
  <2>2. ProjectsFit /\ LabsFit
    BY AgreeIs DEF DomainsInv
  <2>3. Frame(rows)
    BY <1>3, <1>5, <1>7, <1>8, <1>11 DEF Frame
  <2>4. ProjectsFit'
    BY <1>3, <1>7, <1>8, <2>1, <2>2 DEF ProjectsFit
  <2>5. ASSUME NEW l \in Labs, HasLab(l)'
        PROVE  /\ lab'[l].domain = project'[lab'[l].project].domain
               /\ lab'[l].kind = lab'[l].domain \/ lab'[l].misfit
               /\ lab'[l].types \subseteq {lab'[l].domain} \/ lab'[l].misfit
    BY <1>7, <1>9, <1>11, <2>2, <2>5 DEF LabsFit
  <2>6. QED
    BY <2>3, <2>4, <2>5, AgreeIs DEF LabsFit, DomainsAgree, ProjectsFit, ProjectFollowsCategory,
                                     LabFollowsProject, InputsRegistered
<1>15. QED
  BY <1>3, <1>12, <1>13, <1>14, AnswersKeep

-----------------------------------------------------------------------------
\* What the update of a project leaves in its row and in its labs.
LEMMA ProjectEffect ==
    ASSUME DomainsInv, NEW w \in Writers, ProjectCommit(w), NEW r, r = writer[w]
    PROVE  /\ r.project \in Projects /\ r.category \in Categories /\ r.domain \in Domains
           /\ HasProject(r.project)
           /\ \A p \in Projects : /\ HasProject(p)' <=> HasProject(p)
                                  /\ p # r.project => project'[p] = project[p]
           /\ r.sent => /\ project'[r.project].category = r.category
                        /\ project'[r.project].domain = r.domain
           /\ ~r.sent => project' = project /\ r.domain = r.old
           /\ \A l \in Labs :
                 \/ ~HasLab(l) /\ lab'[l] = lab[l] /\ ~HasLab(l)'
                 \/ IsMade(l, r.project, r.domain, r.kind)
                 \/ /\ HasLab(l) /\ HasLab(l)' /\ lab'[l].project = lab[l].project
                    /\ lab'[l].kind = lab[l].kind /\ lab'[l].misfit = lab[l].misfit
                    /\ lab'[l].domain = IF lab[l].project = r.project /\ r.domain # r.old
                                        THEN r.domain ELSE lab[l].domain
                    /\ lab'[l].types \subseteq lab[l].types \cup {lab[l].kind}
                    /\ lab[l].project # r.project => lab'[l] = lab[l]
           /\ RowsAreTyped'
<1>1. PICK labs : labs = [l \in Labs |->
                            IF l \in (IF r.domain = r.old THEN {} ELSE LabsIn({r.project}))
                            THEN [lab[l] EXCEPT !.domain = r.domain] ELSE lab[l]]
  OBVIOUS
<1>2. /\ In(w, "project checked") /\ r.op = "project checked" /\ Op(w, ProjectOps)
      /\ Op(w, {"project read", "project checked"})
      /\ project' = IF r.sent
                    THEN [project EXCEPT ![r.project] =
                            [category |-> r.category, domain |-> r.domain]]
                    ELSE project
      /\ PayloadApplied(r.project, r.domain, r.kind, labs) /\ UNCHANGED category
  BY <1>1 DEF ProjectCommit, In, Op, ProjectOps
<1>3. /\ r.project \in Projects /\ r.category \in Categories /\ r.domain \in Domains
      /\ r.kind \in Payloads \cup {NoKind} /\ HasProject(r.project)
      /\ r.sent \in BOOLEAN
      /\ r.sent \/ r.domain = r.old
  BY <1>2, ProjectFields DEF DomainsInv, HeldRows
<1>4. PICK row : row = [category |-> r.category, domain |-> r.domain]
  OBVIOUS
<1>5. row \in ProjectRow /\ row.category = r.category /\ row.domain = r.domain
  BY <1>3, <1>4 DEF ProjectRow
<1>6. /\ project' \in [Projects -> ProjectRow \cup {NoProject}]
      /\ \A p \in Projects : p # r.project => project'[p] = project[p]
      /\ r.sent => project'[r.project] = row
      /\ ~r.sent => project' = project
  BY <1>2, <1>3, <1>4, <1>5 DEF DomainsInv, DomainsTypeOK
<1>7. \A p \in Projects : HasProject(p)' <=> HasProject(p)
  <2>1. r.sent => HasProject(r.project)'
    BY <1>5, <1>6, LabRowsAre DEF HasProject
  <2>2. QED
    BY <1>3, <1>6, <2>1 DEF HasProject
<1>8. ASSUME NEW l \in Labs, HasLab(l)
      PROVE  /\ labs[l] \in LabRow /\ labs[l].project = lab[l].project
             /\ labs[l].kind = lab[l].kind /\ labs[l].misfit = lab[l].misfit
             /\ labs[l].types = lab[l].types
             /\ labs[l].domain = IF lab[l].project = r.project /\ r.domain # r.old
                                 THEN r.domain ELSE lab[l].domain
             /\ lab[l].project # r.project => labs[l] = lab[l]
  <2>1. lab[l] \in LabRow
    BY <1>8, RowFields DEF DomainsInv
  <2>2. CASE lab[l].project = r.project /\ r.domain # r.old
    <3>1. labs[l] = [lab[l] EXCEPT !.domain = r.domain]
      BY <1>1, <1>8, <2>2 DEF LabsIn
    <3>2. QED
      BY <1>3, <2>1, <2>2, <3>1 DEF LabRow
  <2>3. CASE ~(lab[l].project = r.project /\ r.domain # r.old)
    BY <1>1, <2>1, <2>3 DEF LabsIn
  <2>4. QED
    BY <2>2, <2>3
<1>9. ASSUME NEW l \in Labs, ~HasLab(l) PROVE labs[l] = lab[l] /\ labs[l] = NoLab
  BY <1>1, <1>9 DEF LabsIn, HasLab
<1>10. labs \in [Labs -> LabRow \cup {NoLab}] /\ \A l \in Labs : labs[l] # NoLab <=> HasLab(l)
  <2>1. \A l \in Labs : labs[l] \in LabRow \cup {NoLab} /\ (labs[l] # NoLab <=> HasLab(l))
    BY <1>8, <1>9, LabRowsAre
  <2>2. QED
    BY <1>1, <2>1
<1>11. PICK p, d, k : p = r.project /\ d = r.domain /\ k = r.kind
  OBVIOUS
<1>12. /\ lab' \in [Labs -> LabRow \cup {NoLab}]
       /\ \A l \in Labs :
             \/ lab'[l] = labs[l]
             \/ GetsInput(l, p, k, labs) \/ IsMade(l, p, d, k)
  <2>1. /\ PayloadApplied(p, d, k, labs) /\ p \in Projects /\ d \in Domains
        /\ k \in Payloads \cup {NoKind} /\ DomainsTypeOK
    BY <1>2, <1>3, <1>11 DEF DomainsInv
  <2>2. QED
    BY <1>10, <2>1, PayloadEffect
<1>13. ASSUME NEW l \in Labs
       PROVE  \/ ~HasLab(l) /\ lab'[l] = lab[l] /\ ~HasLab(l)'
              \/ IsMade(l, r.project, r.domain, r.kind)
              \/ /\ HasLab(l) /\ HasLab(l)' /\ lab'[l].project = lab[l].project
                 /\ lab'[l].kind = lab[l].kind /\ lab'[l].misfit = lab[l].misfit
                 /\ lab'[l].domain = IF lab[l].project = r.project /\ r.domain # r.old
                                     THEN r.domain ELSE lab[l].domain
                 /\ lab'[l].types \subseteq lab[l].types \cup {lab[l].kind}
                 /\ lab[l].project # r.project => lab'[l] = lab[l]
  <2>1. CASE lab'[l] = labs[l]
    <3>1. CASE HasLab(l)
      <4>1. lab'[l] # NoLab
        BY <1>8, <2>1, <3>1, LabRowsAre
      <4>2. HasLab(l)'
        BY <4>1 DEF HasLab
      <4>3. QED
        BY <1>8, <2>1, <3>1, <4>2
    <3>2. CASE ~HasLab(l)
      BY <1>9, <2>1, <3>2 DEF HasLab
    <3>3. QED
      BY <3>1, <3>2
  <2>2. CASE GetsInput(l, p, k, labs)
    <3>1. /\ HasLab(l) /\ lab[l].project = p /\ lab[l].kind = k /\ labs[l] \in LabRow
          /\ k \in Domains /\ lab'[l] = [labs[l] EXCEPT !.types = @ \cup {k}]
      BY <2>2 DEF GetsInput
    <3>2. /\ lab'[l] \in LabRow /\ lab'[l].project = labs[l].project
          /\ lab'[l].domain = labs[l].domain /\ lab'[l].kind = labs[l].kind
          /\ lab'[l].misfit = labs[l].misfit /\ lab'[l].types = labs[l].types \cup {k}
      BY <3>1 DEF LabRow
    <3>3. HasLab(l)'
      BY <3>2, LabRowsAre DEF HasLab
    <3>4. QED
      BY <1>8, <1>11, <3>1, <3>2, <3>3
  <2>3. CASE IsMade(l, p, d, k)
    BY <1>11, <2>3
  <2>4. QED
    BY <1>12, <2>1, <2>2, <2>3
<1>14. RowsAreTyped'
  BY <1>2, <1>6, <1>12 DEF DomainsInv, DomainsTypeOK, RowsAreTyped
<1>15. QED
  BY <1>3, <1>5, <1>6, <1>7, <1>13, <1>14

LEMMA ProjectCommitKeeps ==
    ASSUME DomainsInv, ~raced, NEW w \in Writers, ProjectCommit(w)
    PROVE  DomainsInv'
<1>1. PICK r : r = writer[w]
  OBVIOUS
<1>2. PICK rows : rows = Reach(w)
  OBVIOUS
<1>3. /\ r.op = "project checked" /\ Op(w, ProjectOps) /\ Answers(w, rows) /\ UNCHANGED category
  BY <1>1, <1>2 DEF ProjectCommit, In, Op, ProjectOps
<1>4. /\ r.project \in Projects /\ r.category \in Categories /\ r.domain \in Domains
      /\ HasProject(r.project)
      /\ \A p \in Projects : /\ HasProject(p)' <=> HasProject(p)
                             /\ p # r.project => project'[p] = project[p]
      /\ r.sent => /\ project'[r.project].category = r.category
                   /\ project'[r.project].domain = r.domain
      /\ ~r.sent => project' = project /\ r.domain = r.old
      /\ RowsAreTyped'
  BY <1>1, ProjectEffect
<1>5. ASSUME NEW l \in Labs
      PROVE  \/ ~HasLab(l) /\ lab'[l] = lab[l] /\ ~HasLab(l)'
             \/ IsMade(l, r.project, r.domain, r.kind)
             \/ /\ HasLab(l) /\ HasLab(l)' /\ lab'[l].project = lab[l].project
                /\ lab'[l].kind = lab[l].kind /\ lab'[l].misfit = lab[l].misfit
                /\ lab'[l].domain = IF lab[l].project = r.project /\ r.domain # r.old
                                    THEN r.domain ELSE lab[l].domain
                /\ lab'[l].types \subseteq lab[l].types \cup {lab[l].kind}
                /\ lab[l].project # r.project => lab'[l] = lab[l]
  BY <1>1, ProjectEffect
<1>6. ASSUME NEW l \in Labs, IsMade(l, r.project, r.domain, r.kind)
      PROVE  /\ ~HasLab(l) /\ HasLab(l)' /\ lab'[l].project = r.project
             /\ lab'[l].domain = r.domain
             /\ lab'[l].kind = r.domain \/ lab'[l].misfit
             /\ lab'[l].types \subseteq {r.domain} \/ lab'[l].misfit
  <2>1. /\ ~HasLab(l) /\ lab'[l] \in LabRow /\ lab'[l].project = r.project
        /\ lab'[l].domain = r.domain
        /\ lab'[l].kind = r.domain \/ lab'[l].misfit
        /\ lab'[l].types \subseteq {r.domain} \/ lab'[l].misfit
    BY <1>4, <1>6, LabRowsAre DEF IsMade
  <2>2. HasLab(l)'
    BY <2>1, LabRowsAre DEF HasLab
  <2>3. QED
    BY <2>1, <2>2
<1>7. \A l \in Labs : HasLab(l) => /\ HasProject(lab[l].project) /\ lab[l].project \in Projects
  BY RowFields DEF DomainsInv, LabsHaveProjects
<1>8. LabsHaveProjects'
  <2>1. ASSUME NEW l \in Labs, HasLab(l)' PROVE HasProject(lab[l].project)'
    <3>1. PICK p : p = lab'[l].project
      OBVIOUS
    <3>2. p \in Projects /\ HasProject(p)
      BY <1>4, <1>5, <1>6, <1>7, <2>1, <3>1
    <3>3. HasProject(p)'
      BY <1>4, <3>2
    <3>4. QED
      BY <3>1, <3>3 DEF HasProject
  <2>2. QED
    BY <2>1 DEF LabsHaveProjects
<1>9. Grows(w)
  <2>1. \A l \in Labs : HasLab(l) => HasLab(l)'
    BY <1>5, <1>6
  <2>2. QED
    BY <1>4, <2>1 DEF Grows
<1>10. ASSUME w \notin crossed PROVE Frame(rows) /\ DomainsAgree'
  <2>1. /\ r.domain = category[r.category] /\ r.old = project[r.project].domain
        /\ r.domain = r.old \/ \A l \in LabsIn({r.project}) : lab[l].kind = r.domain
    BY <1>1, <1>3, <1>10 DEF DomainsInv, Fits
  <2>2. ProjectsFit /\ LabsFit
    BY AgreeIs DEF DomainsInv
  <2>3. rows = {r.category, r.project} \cup LabsIn({r.project})
    BY <1>1, <1>2, <1>3, ReachIs DEF DomainsInv
  <2>4. Frame(rows)
    <3>1. \A p \in Projects :
             HasProject(p) => HasProject(p)' /\ (p \in rows \/ project'[p] = project[p])
      BY <1>4, <2>3
    <3>2. \A p \in Projects : HasProject(p)' =>
             \/ HasProject(p) /\ project'[p].category = project[p].category
             \/ project'[p].category \in rows
      BY <1>4, <2>3
    <3>3. \A l \in Labs : HasLab(l) => HasLab(l)' /\ (l \in rows \/ lab'[l] = lab[l])
      BY <1>5, <1>6, <2>3 DEF LabsIn
    <3>4. \A l \in Labs : HasLab(l)' =>
             \/ HasLab(l) /\ lab'[l].project = lab[l].project
             \/ lab'[l].project \in rows
      BY <1>5, <1>6, <2>3
    <3>5. QED
      BY <1>3, <3>1, <3>2, <3>3, <3>4 DEF Frame
  <2>5. project'[r.project].domain = r.domain \/ (r.domain = r.old /\ project' = project)
    BY <1>4, <2>1
  <2>6. project'[r.project].domain = r.domain
    BY <2>1, <2>5
  <2>7. ASSUME NEW p \in Projects, HasProject(p)'
        PROVE  project'[p].domain = category'[project'[p].category]
    BY <1>3, <1>4, <2>1, <2>2, <2>7 DEF ProjectsFit
  <2>8. ASSUME NEW l \in Labs, HasLab(l)'
        PROVE  /\ lab'[l].domain = project'[lab'[l].project].domain
               /\ lab'[l].kind = lab'[l].domain \/ lab'[l].misfit
               /\ lab'[l].types \subseteq {lab'[l].domain} \/ lab'[l].misfit
    <3>1. CASE IsMade(l, r.project, r.domain, r.kind)
      BY <1>6, <2>6, <3>1
    <3>2. CASE HasLab(l)
      <4>1. /\ lab[l].project \in Projects
            /\ lab[l].domain = project[lab[l].project].domain
            /\ lab[l].kind = lab[l].domain \/ lab[l].misfit
            /\ lab[l].types \subseteq {lab[l].domain} \/ lab[l].misfit
        BY <1>7, <2>2, <3>2 DEF LabsFit
      <4>2. /\ lab'[l].project = lab[l].project
            /\ lab'[l].kind = lab[l].kind /\ lab'[l].misfit = lab[l].misfit
            /\ lab'[l].domain = IF lab[l].project = r.project /\ r.domain # r.old
                                THEN r.domain ELSE lab[l].domain
            /\ lab'[l].types \subseteq lab[l].types \cup {lab[l].kind}
            /\ lab[l].project # r.project => lab'[l] = lab[l]
        BY <1>5, <1>6, <3>2
      <4>3. CASE lab[l].project # r.project
        BY <1>4, <4>1, <4>2, <4>3
      <4>4. CASE lab[l].project = r.project /\ r.domain = r.old
        BY <2>1, <2>6, <4>1, <4>2, <4>4
      <4>5. CASE lab[l].project = r.project /\ r.domain # r.old
        <5>1. lab[l].kind = r.domain
          BY <2>1, <3>2, <4>5 DEF LabsIn
        <5>2. QED
          BY <2>6, <4>1, <4>2, <4>5, <5>1
      <4>6. QED
        BY <4>3, <4>4, <4>5
    <3>3. QED
      BY <1>5, <2>8, <3>1, <3>2
  <2>9. QED
    BY <2>4, <2>7, <2>8
       DEF DomainsAgree, ProjectFollowsCategory, LabFollowsProject, InputsRegistered
<1>11. QED
  BY <1>3, <1>4, <1>8, <1>9, <1>10, AnswersKeep

-----------------------------------------------------------------------------
(***************************************************************************)
(* A step that writes one lab, of a project that is there.                 *)
(***************************************************************************)
OneLab(w, m, rows) ==
    /\ UNCHANGED <<category, project>>
    /\ \A l \in Labs \ {m} : lab'[l] = lab[l]
    /\ lab' \in [Labs -> LabRow \cup {NoLab}] /\ lab'[m] # NoLab
    /\ lab'[m].project \in Projects /\ HasProject(lab'[m].project)
    /\ HasLab(m) => m \in rows
    /\ (HasLab(m) /\ lab'[m].project = lab[m].project) \/ lab'[m].project \in rows

RightLab(m) ==
    /\ lab'[m].domain = project[lab'[m].project].domain
    /\ lab'[m].kind = lab'[m].domain \/ lab'[m].misfit
    /\ lab'[m].types \subseteq {lab'[m].domain} \/ lab'[m].misfit

LEMMA OneLabKeeps ==
    ASSUME DomainsInv, ~raced, NEW w \in Writers, NEW m \in Labs, NEW rows, Answers(w, rows),
           OneLab(w, m, rows), w \notin crossed => RightLab(m)
    PROVE  DomainsInv'
<1>1. /\ UNCHANGED <<category, project>> /\ \A l \in Labs \ {m} : lab'[l] = lab[l]
      /\ lab' \in [Labs -> LabRow \cup {NoLab}] /\ lab'[m] # NoLab
      /\ lab'[m].project \in Projects /\ HasProject(lab'[m].project)
      /\ HasLab(m) => m \in rows
      /\ (HasLab(m) /\ lab'[m].project = lab[m].project) \/ lab'[m].project \in rows
  BY DEF OneLab
<1>2. /\ \A p : HasProject(p)' <=> HasProject(p)
      /\ \A l \in Labs \ {m} : HasLab(l)' <=> HasLab(l)
      /\ HasLab(m)'
  BY <1>1 DEF HasProject, HasLab
<1>3. RowsAreTyped' /\ Grows(w)
  BY <1>1, <1>2 DEF DomainsInv, DomainsTypeOK, RowsAreTyped, Grows
<1>4. LabsHaveProjects'
  <2>1. ASSUME NEW l \in Labs, HasLab(l)' PROVE HasProject(lab[l].project)'
    <3>1. PICK p : p = lab'[l].project
      OBVIOUS
    <3>2. HasProject(p)
      BY <1>1, <1>2, <2>1, <3>1 DEF DomainsInv, LabsHaveProjects
    <3>3. HasProject(p)'
      BY <1>2, <3>2
    <3>4. QED
      BY <3>1, <3>3 DEF HasProject
  <2>2. QED
    BY <2>1 DEF LabsHaveProjects
<1>5. Frame(rows)
  BY <1>1, <1>2 DEF Frame
<1>6. ASSUME w \notin crossed PROVE DomainsAgree'
  <2>1. ProjectsFit /\ LabsFit /\ RightLab(m)
    BY <1>6, AgreeIs DEF DomainsInv
  <2>2. \A p \in Projects : HasProject(p)' =>
           project'[p].domain = category'[project'[p].category]
    BY <1>1, <1>2, <2>1 DEF ProjectsFit
  <2>3. ASSUME NEW l \in Labs, HasLab(l)'
        PROVE  /\ lab'[l].domain = project'[lab'[l].project].domain
               /\ lab'[l].kind = lab'[l].domain \/ lab'[l].misfit
               /\ lab'[l].types \subseteq {lab'[l].domain} \/ lab'[l].misfit
    <3>1. CASE l = m
      BY <1>1, <2>1, <3>1 DEF RightLab
    <3>2. CASE l # m
      BY <1>1, <1>2, <2>1, <2>3, <3>2 DEF LabsFit
    <3>3. QED
      BY <3>1, <3>2
  <2>4. QED
    BY <2>2, <2>3 DEF DomainsAgree, ProjectFollowsCategory, LabFollowsProject, InputsRegistered
<1>7. QED
  BY <1>3, <1>4, <1>5, <1>6, AnswersKeep

LEMMA LabInsertKeeps ==
    ASSUME DomainsInv, ~raced, NEW w \in Writers, LabInsert(w)
    PROVE  DomainsInv'
<1>1. PICK r : r = writer[w]
  OBVIOUS
<1>2. PICK row : row = [project |-> r.project, domain |-> r.domain, kind |-> r.domain,
                        types |-> {}, misfit |-> FALSE]
  OBVIOUS
<1>3. PICK rows : rows = {r.lab, r.project}
  OBVIOUS
<1>4. /\ r.op = "create lab" /\ Op(w, LabOps) /\ Op(w, {"create lab", "lab moved", "write lab"})
      /\ ~HasLab(r.lab) /\ lab' = [lab EXCEPT ![r.lab] = row]
      /\ UNCHANGED <<category, project>> /\ Answers(w, rows)
  BY <1>1, <1>2, <1>3 DEF LabInsert, In, Op, LabOps
<1>5. /\ r.lab \in Labs /\ r.project \in Projects /\ r.domain \in Domains /\ HasProject(r.project)
  BY <1>1, <1>4, LabFields DEF DomainsInv, HeldRows
<1>6. /\ row \in LabRow /\ row.project = r.project /\ row.domain = r.domain
      /\ row.kind = r.domain /\ row.types = {}
  BY <1>2, <1>5 DEF LabRow
<1>7. lab'[r.lab] = row /\ \A l \in Labs \ {r.lab} : lab'[l] = lab[l]
  BY <1>4, <1>5 DEF DomainsInv, DomainsTypeOK
<1>8. lab' \in [Labs -> LabRow \cup {NoLab}]
  BY <1>4, <1>6 DEF DomainsInv, DomainsTypeOK
<1>9. OneLab(w, r.lab, rows)
  BY <1>3, <1>4, <1>5, <1>6, <1>7, <1>8, LabRowsAre DEF OneLab
<1>10. ASSUME w \notin crossed PROVE RightLab(r.lab)
  <2>1. r.domain = project[r.project].domain
    BY <1>1, <1>4, <1>10 DEF DomainsInv, Fits
  <2>2. QED
    BY <1>6, <1>7, <2>1 DEF RightLab
<1>11. QED
  BY <1>4, <1>5, <1>9, <1>10, OneLabKeeps

LEMMA LabWriteKeeps ==
    ASSUME DomainsInv, ~raced, NEW w \in Writers, LabWrite(w)
    PROVE  DomainsInv'
<1>1. PICK r, old : r = writer[w] /\ old = lab[r.lab]
  OBVIOUS
<1>2. PICK row : row = [old EXCEPT !.project = r.project, !.domain = r.domain, !.kind = r.domain]
  OBVIOUS
<1>3. PICK rows : rows = {r.lab, r.project, old.project}
  OBVIOUS
<1>4. /\ r.op = "write lab" /\ Op(w, LabOps) /\ Op(w, {"create lab", "lab moved", "write lab"})
      /\ lab' = [lab EXCEPT ![r.lab] = row]
      /\ UNCHANGED <<category, project>> /\ Answers(w, rows)
  BY <1>1, <1>2, <1>3 DEF LabWrite, In, Op, LabOps
<1>5. /\ r.lab \in Labs /\ r.project \in Projects /\ r.domain \in Domains
      /\ HasProject(r.project) /\ HasLab(r.lab)
  BY <1>1, <1>4, LabFields DEF DomainsInv, HeldRows
<1>6. /\ row \in LabRow /\ row.project = r.project /\ row.domain = r.domain
      /\ row.kind = r.domain /\ row.types = old.types /\ row.misfit = old.misfit
  BY <1>1, <1>2, <1>5, RowFields DEF DomainsInv, LabRow
<1>7. lab'[r.lab] = row /\ \A l \in Labs \ {r.lab} : lab'[l] = lab[l]
  BY <1>4, <1>5 DEF DomainsInv, DomainsTypeOK
<1>8. lab' \in [Labs -> LabRow \cup {NoLab}]
  BY <1>4, <1>6 DEF DomainsInv, DomainsTypeOK
<1>9. OneLab(w, r.lab, rows)
  BY <1>3, <1>4, <1>5, <1>6, <1>7, <1>8, LabRowsAre DEF OneLab
<1>10. ASSUME w \notin crossed PROVE RightLab(r.lab)
  <2>1. r.domain = project[r.project].domain
        /\ (old.types \subseteq {r.domain} \/ old.misfit)
    BY <1>1, <1>4, <1>10 DEF DomainsInv, Fits
  <2>2. QED
    BY <1>6, <1>7, <2>1 DEF RightLab
<1>11. QED
  BY <1>4, <1>5, <1>9, <1>10, OneLabKeeps

LEMMA InputWriteKeeps ==
    ASSUME DomainsInv, ~raced, NEW w \in Writers, InputWrite(w)
    PROVE  DomainsInv'
<1>1. PICK r, old : r = writer[w] /\ old = lab[r.lab]
  OBVIOUS
<1>2. PICK row : row = [old EXCEPT !.types = @ \cup {r.type}]
  OBVIOUS
<1>3. PICK rows : rows = {r.lab}
  OBVIOUS
<1>4. /\ In(w, "write input") /\ r.op = "write input" /\ Answers(w, rows)
      /\ lab' = [lab EXCEPT ![r.lab].types = @ \cup {r.type}]
      /\ UNCHANGED <<category, project>>
  BY <1>1, <1>3 DEF InputWrite, In
<1>5. r.lab \in Labs /\ r.type \in Domains /\ HasLab(r.lab) /\ old \in LabRow
  BY <1>1, <1>4, LabFields, RowFields DEF DomainsInv, HeldRows
<1>6. /\ row \in LabRow /\ row.project = old.project /\ row.domain = old.domain
      /\ row.kind = old.kind /\ row.types = old.types \cup {r.type} /\ row.misfit = old.misfit
  BY <1>2, <1>5 DEF LabRow
<1>7. lab'[r.lab] = row /\ \A l \in Labs \ {r.lab} : lab'[l] = lab[l]
  BY <1>1, <1>2, <1>4, <1>5 DEF DomainsInv, DomainsTypeOK
<1>8. lab' \in [Labs -> LabRow \cup {NoLab}]
  <2>1. \A l \in Labs : lab'[l] \in LabRow \cup {NoLab}
    BY <1>6, <1>7 DEF DomainsInv, DomainsTypeOK
  <2>2. QED
    BY <1>4, <2>1 DEF DomainsInv, DomainsTypeOK
<1>9. old.project \in Projects /\ HasProject(old.project)
  BY <1>1, <1>5, RowFields DEF DomainsInv, LabsHaveProjects
<1>10. OneLab(w, r.lab, rows)
  BY <1>1, <1>3, <1>4, <1>5, <1>6, <1>7, <1>8, <1>9, LabRowsAre DEF OneLab
<1>11. ASSUME w \notin crossed PROVE RightLab(r.lab)
  <2>1. r.type = old.domain
    BY <1>1, <1>4, <1>11 DEF DomainsInv, Fits
  <2>2. /\ old.domain = project[old.project].domain
        /\ old.kind = old.domain \/ old.misfit
        /\ old.types \subseteq {old.domain} \/ old.misfit
    BY <1>1, <1>5, AgreeIs DEF DomainsInv, LabsFit
  <2>3. QED
    BY <1>6, <1>7, <2>1, <2>2 DEF RightLab
<1>12. QED
  BY <1>4, <1>5, <1>10, <1>11, OneLabKeeps

LEMMA InputGoesKeeps ==
    ASSUME DomainsInv, ~raced, NEW w \in Writers, NEW m \in Labs, NEW t \in Domains,
           InputGoes(w, m, t)
    PROVE  DomainsInv'
<1>1. PICK old : old = lab[m]
  OBVIOUS
<1>2. PICK row : row = [old EXCEPT !.types = @ \ {t}]
  OBVIOUS
<1>3. PICK rows : rows = {m}
  OBVIOUS
<1>4. /\ HasLab(m) /\ Answers(w, rows) /\ lab' = [lab EXCEPT ![m].types = @ \ {t}]
      /\ UNCHANGED <<category, project>>
  BY <1>3 DEF InputGoes
<1>5. old \in LabRow
  BY <1>1, <1>4, RowFields DEF DomainsInv
<1>6. /\ row \in LabRow /\ row.project = old.project /\ row.domain = old.domain
      /\ row.kind = old.kind /\ row.types = old.types \ {t} /\ row.misfit = old.misfit
  BY <1>2, <1>5 DEF LabRow
<1>7. lab'[m] = row /\ \A l \in Labs \ {m} : lab'[l] = lab[l]
  BY <1>1, <1>2, <1>4 DEF DomainsInv, DomainsTypeOK
<1>8. lab' \in [Labs -> LabRow \cup {NoLab}]
  <2>1. \A l \in Labs : lab'[l] \in LabRow \cup {NoLab}
    BY <1>6, <1>7 DEF DomainsInv, DomainsTypeOK
  <2>2. QED
    BY <1>4, <2>1 DEF DomainsInv, DomainsTypeOK
<1>9. old.project \in Projects /\ HasProject(old.project)
  BY <1>1, <1>4, RowFields DEF DomainsInv, LabsHaveProjects
<1>10. OneLab(w, m, rows)
  BY <1>1, <1>3, <1>4, <1>6, <1>7, <1>8, <1>9, LabRowsAre DEF OneLab
<1>11. RightLab(m)
  <2>1. /\ old.domain = project[old.project].domain
        /\ old.kind = old.domain \/ old.misfit
        /\ old.types \subseteq {old.domain} \/ old.misfit
    BY <1>1, <1>4, AgreeIs DEF DomainsInv, LabsFit
  <2>2. QED
    BY <1>4, <1>6, <1>7, <2>1 DEF RightLab
<1>12. QED
  BY <1>4, <1>10, <1>11, OneLabKeeps

-----------------------------------------------------------------------------
LEMMA DomainsKept == DomainsInv /\ [DomainsNext]_domainsVars => DomainsInv'
<1> SUFFICES ASSUME DomainsInv, [DomainsNext]_domainsVars PROVE DomainsInv'
  OBVIOUS
<1>1. CASE UNCHANGED domainsVars
  <2>1. UNCHANGED <<category, project, lab, writer, crossed, raced>>
    BY <1>1 DEF domainsVars
  <2>2. \A r : (HeldRows(r) => HeldRows(r)') /\ (Fits(r) => Fits(r)')
    BY <2>1, RowsStay
  <2>3. ASSUME NEW w \in Writers
        PROVE  HeldRows(writer[w])' /\ (raced' \/ w \in crossed' \/ Fits(writer[w])')
    <3>1. PICK q : q = writer[w] /\ q = writer'[w]
      BY <2>1
    <3>2. HeldRows(q)' /\ (raced' \/ w \in crossed' \/ Fits(q)')
      BY <2>1, <2>2, <3>1 DEF DomainsInv
    <3>3. QED
      BY <3>1, <3>2
  <2>4. (DomainsTypeOK /\ DomainsAgree /\ LabsHaveProjects /\ CreatorsApart)'
    BY <2>1 DEF DomainsInv, DomainsTypeOK, DomainsAgree, ProjectFollowsCategory,
                LabFollowsProject, InputsRegistered, LabsHaveProjects, CreatorsApart,
                HasProject, HasLab, In
  <2>5. QED
    BY <2>3, <2>4 DEF DomainsInv
<1>2. ASSUME NEW w \in Writers, ~raced, CategoryStep(w) PROVE DomainsInv'
  BY <1>2, CategoryReadsKeep, CategoryKeepKeeps, CategoryCommitKeeps DEF CategoryStep
<1>3. ASSUME NEW w \in Writers, ~raced, ProjectStep(w) PROVE DomainsInv'
  BY <1>3, ProjectReadsKeep, ProjectInsertKeeps, ProjectCommitKeeps DEF ProjectStep
<1>4. ASSUME NEW w \in Writers, ~raced, LabStep(w) PROVE DomainsInv'
  BY <1>4, LabReadsKeep, LabInsertKeeps, LabWriteKeeps, InputWriteKeeps, InputGoesKeeps DEF LabStep
<1>5. ASSUME NEW w \in Writers, ~raced, Refused(w) PROVE DomainsInv'
  BY <1>5, DomainRefusedKeeps
<1>6. QED
  BY <1>1, <1>2, <1>3, <1>4, <1>5 DEF DomainsNext

LEMMA DomainsInvariant == DomainsSpec => []DomainsInv
<1>1. ASSUME DomainsInit PROVE DomainsInv
  <2>1. /\ category \in [Categories -> Domains]
        /\ \A p \in Projects : ~HasProject(p)
        /\ \A l \in Labs : ~HasLab(l)
        /\ \A w \in Writers : writer[w].op = "idle"
    BY <1>1 DEF DomainsInit, HasProject, HasLab, Waiting
  <2>2. DomainsTypeOK
    BY <1>1 DEF DomainsInit, DomainsTypeOK, Writer
  <2>3. DomainsAgree /\ LabsHaveProjects /\ CreatorsApart
    BY <2>1 DEF DomainsAgree, ProjectFollowsCategory, LabFollowsProject, InputsRegistered,
                LabsHaveProjects, CreatorsApart, In
  <2>4. \A w \in Writers : HeldRows(writer[w]) /\ Fits(writer[w])
    BY <2>1 DEF HeldRows, Fits
  <2>5. QED
    BY <2>2, <2>3, <2>4 DEF DomainsInv
<1>2. QED
  BY <1>1, DomainsKept, PTL DEF DomainsSpec

(***************************************************************************)
(* Rows, and what requests hold of them, keep their shape.                 *)
(***************************************************************************)
THEOREM DomainsTypeCorrect == DomainsSpec => []DomainsTypeOK
<1>1. DomainsInv => DomainsTypeOK
  BY DEF DomainsInv
<1>2. QED
  BY <1>1, DomainsInvariant, PTL

(***************************************************************************)
(* Through cascades, moves and payloads, for any number of requests and    *)
(* rows, the copies of a domain agree until a request writes that had read *)
(* what another one wrote since.                                           *)
(***************************************************************************)
THEOREM CopiesOfADomainAgree == DomainsSpec => []DomainsAgree
<1>1. DomainsInv => DomainsAgree
  BY DEF DomainsInv
<1>2. QED
  BY <1>1, DomainsInvariant, PTL

-----------------------------------------------------------------------------
(***************************************************************************)
(* The seed.                                                               *)
(***************************************************************************)
\* The steps after which a run has written the project.
AfterProject == {"lab", "parts", "find step", "write step", "post"}
AfterLab == AfterProject \ {"lab"}
AfterParts == {"find step", "write step", "post"}

RunShape(r) ==
    /\ r.at \in AfterProject => r.project \in RowIds
    /\ r.next <= Len(LabParts)

\* What a run that nobody met has read and written.
TitlesStand == \E i \in RowIds : titled["category"][i] = "seeded"

LabWritten(r) ==
    /\ "row" \in seedLab.fresh
    /\ \A j \in 1..5 : j < r.next =>
          /\ LabParts[j] \in seedLab.fresh
          /\ LabParts[j] = "reference" => "reference" \notin seedLab.primary
    /\ r.next > 1 => "source" \in seedLab.primary

AloneRun(r) ==
    /\ r.category = "there"
    /\ r.steady => Baseline
    /\ r.at \in {"canonical", "legacy", "project"} \cup AfterProject => TitlesStand
    /\ r.at = "legacy" => r.canonical = Found(Canonical)
    /\ r.at = "project" =>
          /\ r.project = IF Canonical # {} THEN Found(Canonical) ELSE Found(Legacy)
          /\ Canonical = {} \/ Legacy = {}
    /\ r.at \in AfterProject => projects[r.project] = "seeded" /\ Legacy = {}
    /\ r.at \in AfterLab => r.lab /\ seedLab # NoSeedLab /\ seedLab.project = r.project
    /\ r.at = "parts" => LabWritten(r)
    /\ r.at \in AfterParts => seedLab.fresh = Parts /\ seedLab.primary \ {"added"} = {"source"}
    /\ r.at = "write step" => r.step = IF steps[r.project] > 0 THEN "found" ELSE "none"
    /\ r.at = "post" => steps[r.project] >= 1
    /\ r.at = "done" => Baseline
    /\ r.at = "failed" => Unmergeable

\* A run that is about to add a step found none.
StepFree(r) == r.at = "write step" /\ r.step = "none" => steps[r.project] = 0

SingleRows ==
    /\ \A i, j \in RowIds : i \in Canonical /\ j \in Canonical => i = j
    /\ \A i, j \in RowIds : i \in Legacy /\ j \in Legacy => i = j

Serial == \A x, y \in Seeders : Running(x) /\ Running(y) => x = y

SeedInv ==
    /\ SeedTypeOK /\ SingleRows /\ StepsAreSingle
    /\ seedsMet \/ Serial
    /\ \A s \in Seeders :
          LET r == seeder[s] IN
          RunShape(r) /\ (r.met \/ AloneRun(r)) /\ (seedsMet \/ StepFree(r))

-----------------------------------------------------------------------------
(***************************************************************************)
(* Shapes.                                                                 *)
(***************************************************************************)
SeedRows == <<titled, projects, seedLab, steps>>

SeedRowsTyped ==
    /\ titled \in [Tables -> [RowIds -> TitledRow]]
    /\ projects \in [RowIds -> ProjectRows]
    /\ seedLab \in SeedLab \cup {NoSeedLab}
    /\ steps \in [RowIds -> 0..Cardinality(Seeders)]

\* The parts of a lab, by domain.
LEMMA PartsAre ==
    /\ Len(LabParts) \in 4..5 /\ LabParts[1] = "source"
    /\ DOMAIN LabParts = 1..Len(LabParts)
    /\ \A j \in 1..Len(LabParts) :
          LabParts[j] \in {"source", "topology", "reference", "scenario", "step"}
    /\ \E j \in 1..Len(LabParts) : LabParts[j] = "reference"
    /\ Parts = {"row"} \cup {LabParts[j] : j \in 1..Len(LabParts)}
<1>1. CASE LabParts = NetworkParts
  BY <1>1 DEF NetworkParts, Parts, ToSet
<1>2. CASE LabParts = LinuxParts
  BY <1>2 DEF LinuxParts, Parts, ToSet
<1>3. CASE LabParts = DevOpsParts
  BY <1>3 DEF DevOpsParts, Parts, ToSet
<1>4. QED
  BY <1>1, <1>2, <1>3, SeedAssumption

LEMMA RunFields ==
    ASSUME SeedTypeOK, NEW s \in Seeders
    PROVE  /\ seeder[s] \in SeedRun /\ seeder[s].at \in RunSteps
           /\ seeder[s].category \in {"there", "renamed", "gone"}
           /\ seeder[s].canonical \in RowIds \cup {NoId} /\ seeder[s].project \in RowIds \cup {NoId}
           /\ seeder[s].lab \in BOOLEAN /\ seeder[s].next \in 1..5
           /\ seeder[s].step \in {"none", "found", "lost"}
           /\ seeder[s].met \in BOOLEAN /\ seeder[s].steady \in BOOLEAN
BY DEF SeedTypeOK, SeedRun

LEMMA NoRunIs ==
    /\ NoRun \in SeedRun /\ NoRun.at = "idle" /\ ~NoRun.met /\ RunShape(NoRun)
    /\ NoRun.category = "there" /\ ~NoRun.steady
<1>1. NoRun \in SeedRun
  BY DEF NoRun, SeedRun, RunSteps
<1>2. QED
  BY <1>1, PartsAre DEF NoRun, RunShape, AfterProject

LEMMA NoRunIsAlone == AloneRun(NoRun) /\ StepFree(NoRun)
BY NoRunIs DEF AloneRun, StepFree, AfterProject, AfterLab, AfterParts

\* A row found is one of those looked for.
LEMMA FoundIs ==
    /\ Found(Canonical) \in RowIds \cup {NoId} /\ Found(Legacy) \in RowIds \cup {NoId}
    /\ Canonical # {} => Found(Canonical) \in Canonical /\ Found(Canonical) # NoId
    /\ Legacy # {} => Found(Legacy) \in Legacy /\ Found(Legacy) # NoId
    /\ Canonical = {} => Found(Canonical) = NoId
    /\ Legacy = {} => Found(Legacy) = NoId
<1>1. NoId \notin RowIds /\ Canonical \subseteq RowIds /\ Legacy \subseteq RowIds
  BY DEF NoId, RowIds, Canonical, Legacy
<1>2. Canonical # {} => Found(Canonical) \in Canonical
  BY DEF Found
<1>3. Legacy # {} => Found(Legacy) \in Legacy
  BY DEF Found
<1>4. QED
  BY <1>1, <1>2, <1>3 DEF Found

-----------------------------------------------------------------------------
(***************************************************************************)
(* What a step does to the runs.                                           *)
(***************************************************************************)
\* A step that writes no row.
LEMMA ReadingKeeps ==
    ASSUME SeedInv, NEW s \in Seeders, NEW r \in SeedRun, Proceeds(s, r),
           UNCHANGED <<titled, projects, seedLab, steps, adminActs>>,
           seedsMet' \in BOOLEAN, seedsMet => seedsMet',
           RunShape(r), r.met \/ AloneRun(r), seedsMet \/ StepFree(r),
           \/ seedsMet' \/ Running(s) \/ r.at \in {"idle", "done", "failed"}
           \/ \A x \in Seeders \ {s} : ~Running(x)
    PROVE  SeedInv'
<1>1. /\ seeder' = [seeder EXCEPT ![s] = r] /\ seeder \in [Seeders -> SeedRun]
      /\ UNCHANGED <<titled, projects, seedLab, steps, adminActs>>
  BY DEF Proceeds, SeedInv, SeedTypeOK
<1>2. /\ seeder' \in [Seeders -> SeedRun] /\ seeder'[s] = r
      /\ \A x \in Seeders \ {s} : seeder'[x] = seeder[x]
  BY <1>1
<1>3. SeedTypeOK' /\ SingleRows' /\ StepsAreSingle'
  BY <1>1, <1>2 DEF SeedInv, SeedTypeOK, SingleRows, StepsAreSingle, Canonical, Legacy
<1>4. seedsMet' \/ Serial'
  BY <1>1, <1>2 DEF SeedInv, Serial, Running
<1>5. \A q : /\ AloneRun(q) => AloneRun(q)'
             /\ StepFree(q) => StepFree(q)'
  <2>1. (Baseline => Baseline') /\ (Unmergeable => Unmergeable') /\ (TitlesStand => TitlesStand')
        /\ Canonical' = Canonical /\ Legacy' = Legacy
    BY <1>1 DEF Baseline, Unmergeable, TitlesStand, Canonical, Legacy, Holders
  <2>2. ASSUME NEW q, AloneRun(q) PROVE AloneRun(q)'
    <3>1. Found(Canonical)' = Found(Canonical) /\ Found(Legacy)' = Found(Legacy)
      BY <2>1 DEF Found
    <3>2. LabWritten(q) => LabWritten(q)'
      BY <1>1 DEF LabWritten
    <3>3. QED
      BY <1>1, <2>1, <2>2, <3>1, <3>2 DEF AloneRun
  <2>3. ASSUME NEW q, StepFree(q) PROVE StepFree(q)'
    BY <1>1, <2>3 DEF StepFree
  <2>4. QED
    BY <2>2, <2>3
<1>6. ASSUME NEW x \in Seeders, NEW q, q = seeder'[x]
      PROVE  RunShape(q) /\ (q.met \/ AloneRun(q)') /\ (seedsMet' \/ StepFree(q)')
  <2>1. RunShape(q) /\ (q.met \/ AloneRun(q)) /\ (seedsMet \/ StepFree(q))
    BY <1>2, <1>6 DEF SeedInv
  <2>2. QED
    BY <1>1, <1>5, <2>1
<1>7. ASSUME NEW x \in Seeders
      PROVE  /\ RunShape(seeder[x])' /\ (seeder'[x].met \/ AloneRun(seeder[x])')
             /\ seedsMet' \/ StepFree(seeder[x])'
  <2>1. PICK q : q = seeder'[x]
    OBVIOUS
  <2>2. RunShape(q) /\ (q.met \/ AloneRun(q)') /\ (seedsMet' \/ StepFree(q)')
    BY <1>6, <2>1
  <2>3. RunShape(q)' /\ (q.met \/ AloneRun(q)') /\ (seedsMet' \/ StepFree(q)')
    BY <2>2 DEF RunShape
  <2>4. QED
    BY <2>1, <2>3
<1>8. QED
  BY <1>3, <1>4, <1>7 DEF SeedInv

\* A statement that writes is met by the other runs.
LEMMA WritingKeeps ==
    ASSUME SeedInv, NEW s \in Seeders, NEW r \in SeedRun, Writes(s, r), Running(s),
           SeedRowsTyped', SingleRows', StepsAreSingle', UNCHANGED <<adminActs, seedsMet>>,
           RunShape(r), r.met \/ AloneRun(r)', seedsMet \/ StepFree(r)'
    PROVE  SeedInv'
<1>1. /\ seeder \in [Seeders -> SeedRun]
      /\ seeder' = [x \in Seeders |-> IF x = s THEN r ELSE IF seeder[x] = NoRun THEN NoRun
                                      ELSE [seeder[x] EXCEPT !.met = TRUE]]
  BY DEF Writes, SeedInv, SeedTypeOK
<1>2. seeder'[s] = r
  BY <1>1
<1>3. ASSUME NEW x \in Seeders \ {s}
      PROVE  /\ seeder'[x] \in SeedRun /\ RunShape(seeder'[x])
             /\ seeder'[x].at = seeder[x].at
             /\ seeder'[x] = NoRun \/ seeder'[x].met
  <2>1. seeder[x] \in SeedRun /\ RunShape(seeder[x])
    BY <1>1 DEF SeedInv
  <2>2. CASE seeder[x] = NoRun
    BY <1>1, <2>1, <2>2, NoRunIs
  <2>3. CASE seeder[x] # NoRun
    <3>1. seeder'[x] = [seeder[x] EXCEPT !.met = TRUE]
      BY <1>1, <2>3
    <3>2. /\ seeder'[x] \in SeedRun /\ seeder'[x].at = seeder[x].at /\ seeder'[x].met
          /\ seeder'[x].project = seeder[x].project /\ seeder'[x].next = seeder[x].next
      BY <2>1, <3>1 DEF SeedRun
    <3>3. QED
      BY <2>1, <3>2 DEF RunShape
  <2>4. QED
    BY <2>2, <2>3
<1>4. seeder' \in [Seeders -> SeedRun]
  BY <1>1, <1>2, <1>3
<1>5. SeedTypeOK'
  BY <1>4 DEF SeedInv, SeedTypeOK, SeedRowsTyped
<1>6. ASSUME ~seedsMet, NEW x \in Seeders \ {s} PROVE seeder[x].at \in {"idle", "done", "failed"}
  BY <1>6 DEF SeedInv, Serial, Running
<1>7. seedsMet' \/ Serial'
  BY <1>3, <1>6 DEF Serial, Running
<1>8. ASSUME NEW x \in Seeders
      PROVE  /\ RunShape(seeder[x])' /\ (seeder'[x].met \/ AloneRun(seeder[x])')
             /\ seedsMet' \/ StepFree(seeder[x])'
  <2>1. PICK q : q = seeder'[x]
    OBVIOUS
  <2>2. CASE x = s
    <3>1. q = r
      BY <1>2, <2>1, <2>2
    <3>2. RunShape(q)' /\ (q.met \/ AloneRun(q)') /\ (seedsMet' \/ StepFree(q)')
      BY <3>1 DEF RunShape
    <3>3. QED
      BY <2>1, <3>2
  <2>3. CASE x # s
    <3>1. RunShape(q) /\ (q = NoRun \/ q.met) /\ q.at = seeder[x].at
      BY <1>3, <2>1, <2>3
    <3>2. RunShape(q)'
      BY <3>1 DEF RunShape
    <3>3. q = NoRun => AloneRun(q)'
      BY NoRunIs DEF AloneRun, AfterProject, AfterLab, AfterParts
    <3>4. seedsMet' \/ StepFree(q)'
      BY <1>6, <2>3, <3>1 DEF StepFree
    <3>5. QED
      BY <2>1, <3>1, <3>2, <3>3, <3>4
  <2>4. QED
    BY <2>2, <2>3
<1>9. QED
  BY <1>5, <1>7, <1>8 DEF SeedInv

\* What administrators do is met by every run.
AllMet ==
    \A x \in Seeders :
        \/ seeder[x] = NoRun /\ seeder'[x] = NoRun
        \/ /\ seeder'[x] \in SeedRun /\ seeder'[x].met
           /\ seeder'[x].at = seeder[x].at /\ seeder'[x].next = seeder[x].next
           /\ seeder'[x].project = seeder[x].project
           /\ seeder'[x].step = "none" => seeder[x].step = "none"

LEMMA MeetingKeeps ==
    ASSUME SeedInv, AllMet, seeder' = [x \in Seeders |-> seeder'[x]], AdminActs,
           SeedRowsTyped', SingleRows', \A i \in RowIds : steps'[i] \in {steps[i], 0}
    PROVE  SeedInv'
<1>1. /\ adminActs < ActsBound /\ adminActs' = adminActs + 1 /\ seedsMet' = seedsMet
      /\ adminActs \in 0..ActsBound
  BY DEF AdminActs, SeedInv, SeedTypeOK
<1>2. ASSUME NEW x \in Seeders
      PROVE  /\ seeder'[x] \in SeedRun /\ RunShape(seeder'[x])
             /\ seeder'[x].at = seeder[x].at
             /\ seeder'[x] = NoRun \/ seeder'[x].met
  <2>1. RunShape(seeder[x])
    BY DEF SeedInv
  <2>2. QED
    BY <2>1, NoRunIs DEF AllMet, RunShape
<1>3. seeder' \in [Seeders -> SeedRun]
  BY <1>2
<1>4. SeedTypeOK'
  BY <1>1, <1>3, SeedAssumption DEF SeedInv, SeedTypeOK, SeedRowsTyped
<1>5. StepsAreSingle'
  BY <1>1 DEF SeedInv, StepsAreSingle, SeedTypeOK
<1>6. seedsMet' \/ Serial'
  BY <1>1, <1>2 DEF SeedInv, Serial, Running
<1>7. ASSUME NEW x \in Seeders
      PROVE  /\ RunShape(seeder[x])' /\ (seeder'[x].met \/ AloneRun(seeder[x])')
             /\ seedsMet' \/ StepFree(seeder[x])'
  <2>1. PICK q : q = seeder'[x]
    OBVIOUS
  <2>2. RunShape(q) /\ (q = NoRun \/ q.met) /\ q.at = seeder[x].at
    BY <1>2, <2>1
  <2>3. RunShape(q)'
    BY <2>2 DEF RunShape
  <2>4. q = NoRun => AloneRun(q)'
    BY NoRunIs DEF AloneRun, AfterProject, AfterLab, AfterParts
  <2>5. seedsMet' \/ StepFree(q)'
    <3>1. seedsMet \/ StepFree(seeder[x])
      BY DEF SeedInv
    <3>2. q.at = "write step" /\ q.step = "none" =>
             seeder[x].step = "none" /\ q.project = seeder[x].project /\ q.project \in RowIds
      BY <2>1, <2>2, NoRunIs DEF AllMet, RunShape, AfterProject
    <3>3. QED
      BY <1>1, <2>2, <3>1, <3>2 DEF StepFree
  <2>6. QED
    BY <2>1, <2>2, <2>3, <2>4, <2>5
<1>8. QED
  BY <1>4, <1>5, <1>6, <1>7 DEF SeedInv

-----------------------------------------------------------------------------
(***************************************************************************)
(* Steps of a run that only read, or end it.                               *)
(***************************************************************************)
LEMMA SeedFailsKeeps ==
    ASSUME SeedInv, NEW s \in Seeders, SeedFails(s), Running(s), seeder[s].met \/ Unmergeable
    PROVE  SeedInv'
<1>1. PICK q : q = seeder[s]
  OBVIOUS
<1>2. PICK r : r = [q EXCEPT !.at = "failed"]
  OBVIOUS
<1>3. q \in SeedRun /\ RunShape(q) /\ (q.met \/ (AloneRun(q) /\ Unmergeable))
  BY <1>1 DEF SeedInv, SeedTypeOK
<1>4. /\ r \in SeedRun /\ r.at = "failed" /\ r.next = q.next /\ r.met = q.met
      /\ r.category = q.category /\ r.steady = q.steady
  BY <1>2, <1>3 DEF SeedRun, RunSteps
<1>5. RunShape(r) /\ StepFree(r)
  BY <1>3, <1>4 DEF RunShape, StepFree, AfterProject
<1>6. r.met \/ AloneRun(r)
  BY <1>3, <1>4 DEF AloneRun, AfterProject, AfterLab, AfterParts
<1>7. Proceeds(s, r) /\ UNCHANGED <<titled, projects, seedLab, steps, adminActs, seedsMet>>
  BY <1>1, <1>2 DEF SeedFails
<1>8. QED
  BY <1>4, <1>5, <1>6, <1>7, ReadingKeeps DEF SeedInv, SeedTypeOK

LEMMA SeedBeginsKeeps ==
    ASSUME SeedInv, NEW s \in Seeders, SeedBegins(s)
    PROVE  SeedInv'
<1>1. PICK b \in BOOLEAN : b <=> Baseline
  OBVIOUS
<1>2. PICK r : r = [NoRun EXCEPT !.at = "category", !.steady = b]
  OBVIOUS
<1>3. Proceeds(s, r)
  <2>1. Baseline = b
    <3>1. Baseline \in BOOLEAN
      BY DEF Baseline
    <3>2. QED
      BY <1>1, <3>1, Zenon
  <2>2. Proceeds(s, [NoRun EXCEPT !.at = "category", !.steady = Baseline])
    BY Zenon DEF SeedBegins
  <2>3. QED
    BY <1>2, <2>1, <2>2, Zenon
<1>4. /\ r \in SeedRun /\ r.at = "category" /\ r.next = 1 /\ ~r.met /\ r.category = "there"
      /\ r.steady = b
  BY <1>2, NoRunIs DEF SeedRun, RunSteps, NoRun
<1>5. RunShape(r) /\ StepFree(r)
  BY <1>4, PartsAre DEF RunShape, StepFree, AfterProject
<1>6. AloneRun(r)
  BY <1>1, <1>4 DEF AloneRun, AfterProject, AfterLab, AfterParts
<1>7. /\ UNCHANGED <<titled, projects, seedLab, steps, adminActs>>
      /\ seedsMet' = (seedsMet \/ \E x \in Seeders \ {s} : Running(x))
  BY DEF SeedBegins
<1>8. QED
  BY <1>3, <1>4, <1>5, <1>6, <1>7, ReadingKeeps DEF SeedInv, SeedTypeOK

LEMMA SeedDiesKeeps ==
    ASSUME SeedInv, NEW s \in Seeders, SeedDies(s)
    PROVE  SeedInv'
BY NoRunIs, NoRunIsAlone, ReadingKeeps DEF SeedInv, SeedTypeOK, SeedDies

LEMMA FindCanonicalKeeps ==
    ASSUME SeedInv, NEW s \in Seeders, FindCanonical(s)
    PROVE  SeedInv'
<1>1. PICK q : q = seeder[s]
  OBVIOUS
<1>2. PICK r : r = [q EXCEPT !.at = "legacy", !.canonical = Found(Canonical)]
  OBVIOUS
<1>3. q \in SeedRun /\ RunShape(q) /\ (q.met \/ AloneRun(q)) /\ q.at = "canonical" /\ Running(s)
  BY <1>1 DEF SeedInv, SeedTypeOK, FindCanonical, SeedAt, Running
<1>4. /\ r \in SeedRun /\ r.at = "legacy" /\ r.next = q.next /\ r.met = q.met
      /\ r.category = q.category /\ r.steady = q.steady /\ r.canonical = Found(Canonical)
  BY <1>2, <1>3, FoundIs DEF SeedRun, RunSteps
<1>5. RunShape(r) /\ StepFree(r)
  BY <1>3, <1>4 DEF RunShape, StepFree, AfterProject
<1>6. r.met \/ AloneRun(r)
  BY <1>3, <1>4 DEF AloneRun, AfterProject, AfterLab, AfterParts
<1>7. Proceeds(s, r) /\ UNCHANGED <<titled, projects, seedLab, steps, adminActs, seedsMet>>
  BY <1>1, <1>2 DEF FindCanonical
<1>8. QED
  BY <1>3, <1>4, <1>5, <1>6, <1>7, ReadingKeeps DEF SeedInv, SeedTypeOK

LEMMA FindLegacyKeeps ==
    ASSUME SeedInv, NEW s \in Seeders, FindLegacy(s)
    PROVE  SeedInv'
<1>1. PICK q : q = seeder[s]
  OBVIOUS
<1>2. q \in SeedRun /\ RunShape(q) /\ (q.met \/ AloneRun(q)) /\ q.at = "legacy" /\ Running(s)
  BY <1>1 DEF SeedInv, SeedTypeOK, FindLegacy, SeedAt, Running
<1>3. PICK legacy : legacy = Found(Legacy)
  OBVIOUS
<1>4. ~q.met => q.canonical = Found(Canonical)
  BY <1>2 DEF AloneRun
<1>5. CASE SeedFails(s) /\ q.canonical # NoId /\ legacy \notin {NoId, q.canonical}
  <2>1. ~q.met => Canonical # {} /\ Legacy # {}
    BY <1>3, <1>4, <1>5, FoundIs
  <2>2. q.met \/ Unmergeable
    BY <2>1 DEF Unmergeable
  <2>3. QED
    BY <1>1, <1>2, <1>5, <2>2, SeedFailsKeeps
<1>6. CASE /\ q.canonical = NoId \/ legacy \in {NoId, q.canonical}
           /\ Proceeds(s, [q EXCEPT !.at = "project", !.canonical = NoId,
                             !.project = IF q.canonical # NoId THEN q.canonical ELSE legacy])
           /\ UNCHANGED <<titled, projects, seedLab, steps, adminActs, seedsMet>>
  <2>1. PICK r : r = [q EXCEPT !.at = "project", !.canonical = NoId,
                        !.project = IF q.canonical # NoId THEN q.canonical ELSE legacy]
    OBVIOUS
  <2>2. /\ r \in SeedRun /\ r.at = "project" /\ r.next = q.next /\ r.met = q.met
        /\ r.category = q.category /\ r.steady = q.steady
        /\ r.project = IF q.canonical # NoId THEN q.canonical ELSE legacy
    BY <1>2, <1>3, <2>1, FoundIs DEF SeedRun, RunSteps
  <2>3. RunShape(r) /\ StepFree(r)
    BY <1>2, <2>2 DEF RunShape, StepFree, AfterProject
  <2>4. ASSUME ~r.met PROVE AloneRun(r)
    <3>1. AloneRun(q) /\ q.canonical = Found(Canonical)
      BY <1>2, <1>4, <2>2, <2>4
    <3>2. r.project = IF Canonical # {} THEN Found(Canonical) ELSE Found(Legacy)
      BY <1>3, <2>2, <3>1, FoundIs
    <3>3. Canonical = {} \/ Legacy = {}
      <4>1. Canonical \cap Legacy = {}
        BY DEF Canonical, Legacy, HasSlug
      <4>2. QED
        BY <1>3, <1>6, <3>1, <4>1, FoundIs
    <3>4. QED
      BY <1>2, <2>2, <3>1, <3>2, <3>3 DEF AloneRun, AfterProject, AfterLab, AfterParts
  <2>5. QED
    BY <1>2, <1>6, <2>1, <2>2, <2>3, <2>4, ReadingKeeps DEF SeedInv, SeedTypeOK
<1>7. QED
  BY <1>1, <1>3, <1>5, <1>6 DEF FindLegacy, LegacyFound

LEMMA FindStepKeeps ==
    ASSUME SeedInv, NEW s \in Seeders, FindStep(s)
    PROVE  SeedInv'
<1>1. PICK q : q = seeder[s]
  OBVIOUS
<1>2. PICK r : r = [q EXCEPT !.at = "write step",
                      !.step = IF steps[q.project] > 0 THEN "found" ELSE "none"]
  OBVIOUS
<1>3. q \in SeedRun /\ RunShape(q) /\ (q.met \/ AloneRun(q)) /\ q.at = "find step" /\ Running(s)
  BY <1>1 DEF SeedInv, SeedTypeOK, FindStep, SeedAt, Running
<1>4. /\ r \in SeedRun /\ r.at = "write step" /\ r.next = q.next /\ r.met = q.met
      /\ r.category = q.category /\ r.steady = q.steady /\ r.project = q.project /\ r.lab = q.lab
      /\ r.step = IF steps[q.project] > 0 THEN "found" ELSE "none"
  BY <1>2, <1>3 DEF SeedRun, RunSteps
<1>5. q.project \in RowIds /\ steps[q.project] \in Nat
  <2>1. Cardinality(Seeders) \in Nat
    BY SeedAssumption, FS_CardinalityType
  <2>2. q.project \in RowIds
    BY <1>3 DEF RunShape, AfterProject
  <2>3. QED
    BY <2>1, <2>2 DEF SeedInv, SeedTypeOK
<1>6. RunShape(r) /\ StepFree(r)
  <2>1. RunShape(r)
    BY <1>3, <1>4, <1>5 DEF RunShape
  <2>2. steps[q.project] > 0 \/ steps[q.project] = 0
    BY <1>5
  <2>3. steps[q.project] > 0 => r.step = "found"
    BY <1>4
  <2>4. StepFree(r)
    BY <1>4, <2>2, <2>3 DEF StepFree
  <2>5. QED
    BY <2>1, <2>4
<1>7. r.met \/ AloneRun(r)
  BY <1>3, <1>4 DEF AloneRun, AfterProject, AfterLab, AfterParts
<1>8. Proceeds(s, r) /\ UNCHANGED <<titled, projects, seedLab, steps, adminActs, seedsMet>>
  BY <1>1, <1>2 DEF FindStep
<1>9. QED
  BY <1>3, <1>4, <1>6, <1>7, <1>8, ReadingKeeps DEF SeedInv, SeedTypeOK

-----------------------------------------------------------------------------
(***************************************************************************)
(* Statements of a run.                                                    *)
(***************************************************************************)
LEMMA TitledEffect ==
    ASSUME SeedInv, NEW s \in Seeders, NEW t \in Tables, NEW r, UpsertTitled(s, t, r)
    PROVE  \/ /\ Writes(s, r) /\ UNCHANGED <<projects, seedLab, steps, adminActs, seedsMet>>
              /\ titled' \in [Tables -> [RowIds -> TitledRow]]
              /\ \A u \in Tables \ {t} : titled'[u] = titled[u]
              /\ seeder[s].category = "there" => \E i \in RowIds : titled'[t][i] = "seeded"
           \/ SeedFails(s) /\ (seeder[s].category = "gone" \/ Unmergeable)
<1>1. PICK ids : ids = IF UpsertUpdates(t) THEN Holders(t) ELSE {"seed"}
  OBVIOUS
<1>2. PICK wrote : wrote = Written(s)
  OBVIOUS
<1>3. /\ wrote \in TitledRow /\ (seeder[s].category = "there" => wrote = "seeded")
      /\ ids # {} /\ ids \subseteq RowIds
  BY <1>1, <1>2 DEF Written, TitledRow, UpsertUpdates, Holders, RowIds
<1>4. titled[t] \in [RowIds -> TitledRow]
  BY DEF SeedInv, SeedTypeOK
<1>5. ASSUME titled' = [titled EXCEPT ![t] =
                [i \in RowIds |-> IF i \in ids THEN wrote ELSE titled[t][i]]]
      PROVE  /\ titled' \in [Tables -> [RowIds -> TitledRow]]
             /\ \A u \in Tables \ {t} : titled'[u] = titled[u]
             /\ seeder[s].category = "there" => \E i \in RowIds : titled'[t][i] = "seeded"
  <2>1. titled \in [Tables -> [RowIds -> TitledRow]]
    BY DEF SeedInv, SeedTypeOK
  <2>2. PICK new : new = [i \in RowIds |-> IF i \in ids THEN wrote ELSE titled[t][i]]
    OBVIOUS
  <2>3. new \in [RowIds -> TitledRow] /\ \A i \in ids : new[i] = wrote
    BY <1>3, <1>4, <2>2
  <2>4. titled'[t] = new /\ \A u \in Tables \ {t} : titled'[u] = titled[u]
    BY <1>5, <2>1, <2>2
  <2>5. titled' \in [Tables -> [RowIds -> TitledRow]]
    BY <1>5, <2>1, <2>2, <2>3
  <2>6. QED
    BY <1>3, <2>3, <2>4, <2>5
<1>6. ASSUME ~UpsertUpdates(t), titled[t]["seed"] # "absent" PROVE Unmergeable
  <2>1. Holders(t) = {} /\ titled[t]["seed"] \in TitledRow
    BY <1>4, <1>6 DEF UpsertUpdates, RowIds
  <2>2. titled[t]["seed"] = "renamed"
    BY <1>6, <2>1 DEF Holders, RowIds, TitledRow, HasSlug
  <2>3. QED
    BY <2>1, <2>2 DEF Unmergeable
<1>7. QED
  BY <1>1, <1>2, <1>5, <1>6 DEF UpsertTitled

LEMMA UpsertCategoryKeeps ==
    ASSUME SeedInv, NEW s \in Seeders, UpsertCategory(s)
    PROVE  SeedInv'
<1>1. PICK q : q = seeder[s]
  OBVIOUS
<1>2. PICK r : r = [q EXCEPT !.at = "canonical"]
  OBVIOUS
<1>3. q \in SeedRun /\ RunShape(q) /\ (q.met \/ AloneRun(q)) /\ q.at = "category" /\ Running(s)
  BY <1>1 DEF SeedInv, SeedTypeOK, UpsertCategory, SeedAt, Running
<1>4. /\ r \in SeedRun /\ r.at = "canonical" /\ r.next = q.next /\ r.met = q.met
      /\ r.category = q.category /\ r.steady = q.steady
  BY <1>2, <1>3 DEF SeedRun, RunSteps
<1>5. "category" \in Tables /\ UpsertTitled(s, "category", r)
  BY <1>1, <1>2 DEF UpsertCategory, Tables
<1>6. CASE SeedFails(s) /\ (q.category = "gone" \/ Unmergeable)
  <2>1. q.met \/ Unmergeable
    BY <1>3, <1>6 DEF AloneRun
  <2>2. QED
    BY <1>1, <1>3, <1>6, <2>1, SeedFailsKeeps
<1>7. CASE /\ Writes(s, r) /\ UNCHANGED <<projects, seedLab, steps, adminActs, seedsMet>>
           /\ titled' \in [Tables -> [RowIds -> TitledRow]]
           /\ \A u \in Tables \ {"category"} : titled'[u] = titled[u]
           /\ q.category = "there" => \E i \in RowIds : titled'["category"][i] = "seeded"
  <2>1. SeedRowsTyped' /\ SingleRows' /\ StepsAreSingle'
    BY <1>7 DEF SeedInv, SeedTypeOK, SeedRowsTyped, SingleRows, StepsAreSingle, Canonical, Legacy
  <2>2. RunShape(r) /\ StepFree(r)'
    BY <1>3, <1>4 DEF RunShape, StepFree, AfterProject
  <2>3. ASSUME ~r.met PROVE AloneRun(r)'
    <3>1. AloneRun(q) /\ q.category = "there"
      BY <1>3, <1>4, <2>3 DEF AloneRun
    <3>2. TitlesStand'
      BY <1>7, <3>1 DEF TitlesStand
    <3>3. Baseline => Baseline'
      BY <1>7, <3>1 DEF Baseline, Legacy
    <3>4. q.steady => Baseline
      BY <3>1 DEF AloneRun
    <3>5. QED
      BY <1>4, <3>1, <3>2, <3>3, <3>4 DEF AloneRun, AfterProject, AfterLab, AfterParts
  <2>4. QED
    BY <1>3, <1>4, <1>7, <2>1, <2>2, <2>3, WritingKeeps
<1>8. QED
  BY <1>1, <1>5, <1>6, <1>7, TitledEffect

LEMMA UpsertPostKeeps ==
    ASSUME SeedInv, NEW s \in Seeders, UpsertPost(s)
    PROVE  SeedInv'
<1>1. PICK q : q = seeder[s]
  OBVIOUS
<1>2. PICK r : r = [NoRun EXCEPT !.at = "done", !.met = q.met, !.steady = q.steady]
  OBVIOUS
<1>3. q \in SeedRun /\ RunShape(q) /\ (q.met \/ AloneRun(q)) /\ q.at = "post" /\ Running(s)
  BY <1>1 DEF SeedInv, SeedTypeOK, UpsertPost, SeedAt, Running
<1>4. /\ r \in SeedRun /\ r.at = "done" /\ r.next = NoRun.next /\ r.met = q.met
      /\ r.category = "there" /\ r.steady = q.steady
  BY <1>2, <1>3, NoRunIs DEF SeedRun, RunSteps
<1>5. "post" \in Tables /\ UpsertTitled(s, "post", r)
  BY <1>1, <1>2 DEF UpsertPost, Tables
<1>6. CASE SeedFails(s) /\ (q.category = "gone" \/ Unmergeable)
  <2>1. q.met \/ Unmergeable
    BY <1>3, <1>6 DEF AloneRun
  <2>2. QED
    BY <1>1, <1>3, <1>6, <2>1, SeedFailsKeeps
<1>7. CASE /\ Writes(s, r) /\ UNCHANGED <<projects, seedLab, steps, adminActs, seedsMet>>
           /\ titled' \in [Tables -> [RowIds -> TitledRow]]
           /\ \A u \in Tables \ {"post"} : titled'[u] = titled[u]
           /\ q.category = "there" => \E i \in RowIds : titled'["post"][i] = "seeded"
  <2>1. SeedRowsTyped' /\ SingleRows' /\ StepsAreSingle'
    BY <1>7 DEF SeedInv, SeedTypeOK, SeedRowsTyped, SingleRows, StepsAreSingle, Canonical, Legacy
  <2>2. RunShape(r) /\ StepFree(r)'
    BY <1>4, NoRunIs DEF RunShape, StepFree, AfterProject
  <2>3. ASSUME ~r.met PROVE AloneRun(r)'
    <3>1. AloneRun(q) /\ q.category = "there"
      BY <1>3, <1>4, <2>3 DEF AloneRun
    <3>2. \A t \in Tables : \E i \in RowIds : titled'[t][i] = "seeded"
      BY <1>3, <1>7, <3>1 DEF AloneRun, TitlesStand, Tables, AfterProject
    <3>3. /\ projects[q.project] = "seeded" /\ Legacy = {} /\ seedLab # NoSeedLab
          /\ seedLab.project = q.project /\ seedLab.fresh = Parts
          /\ seedLab.primary \ {"added"} = {"source"} /\ steps[q.project] >= 1
          /\ q.project \in RowIds
      BY <1>3, <3>1 DEF AloneRun, RunShape, AfterProject, AfterLab, AfterParts
    <3>4. Baseline'
      BY <1>7, <3>2, <3>3 DEF Baseline, Legacy
    <3>5. QED
      BY <1>4, <3>4 DEF AloneRun, AfterProject, AfterLab, AfterParts
  <2>4. QED
    BY <1>3, <1>4, <1>7, <2>1, <2>2, <2>3, WritingKeeps
<1>8. QED
  BY <1>1, <1>5, <1>6, <1>7, TitledEffect

LEMMA UpsertProjectKeeps ==
    ASSUME SeedInv, NEW s \in Seeders, UpsertProject(s)
    PROVE  SeedInv'
<1>1. PICK q : q = seeder[s]
  OBVIOUS
<1>2. PICK id : id = IF q.project = NoId THEN "seed" ELSE q.project
  OBVIOUS
<1>3. PICK r : r = [q EXCEPT !.at = "lab", !.project = id]
  OBVIOUS
<1>4. q \in SeedRun /\ RunShape(q) /\ (q.met \/ AloneRun(q)) /\ q.at = "project" /\ Running(s)
  BY <1>1 DEF SeedInv, SeedTypeOK, UpsertProject, SeedAt, Running
<1>5. id \in RowIds
  BY <1>2, <1>4 DEF SeedRun, RowIds
<1>6. /\ r \in SeedRun /\ r.at = "lab" /\ r.next = q.next /\ r.met = q.met
      /\ r.category = q.category /\ r.steady = q.steady /\ r.project = id
  BY <1>3, <1>4, <1>5 DEF SeedRun, RunSteps
<1>7. projects \in [RowIds -> ProjectRows]
  BY DEF SeedInv, SeedTypeOK
\* What an undisturbed run has found is still the only project there is.
<1>8. ASSUME ~q.met
      PROVE  /\ q.category = "there"
             /\ Canonical \subseteq {id} /\ Legacy \subseteq {id}
             /\ q.project # NoId => projects[id] # "absent"
             /\ q.project = NoId => Canonical \cup Legacy = {}
  <2>1. /\ AloneRun(q) /\ q.category = "there"
        /\ q.project = IF Canonical # {} THEN Found(Canonical) ELSE Found(Legacy)
        /\ Canonical = {} \/ Legacy = {}
    BY <1>4, <1>8 DEF AloneRun
  <2>2. CASE Canonical # {}
    <3>1. q.project \in Canonical /\ q.project # NoId /\ Legacy = {}
      BY <2>1, <2>2, FoundIs
    <3>2. Canonical \subseteq {q.project}
      BY <3>1 DEF SeedInv, SingleRows, Canonical
    <3>3. projects[q.project] # "absent"
      BY <3>1 DEF Canonical, HasSlug
    <3>4. QED
      BY <1>2, <2>1, <3>1, <3>2, <3>3
  <2>3. CASE Canonical = {} /\ Legacy # {}
    <3>1. q.project \in Legacy /\ q.project # NoId
      BY <2>1, <2>3, FoundIs
    <3>2. Legacy \subseteq {q.project}
      BY <3>1 DEF SeedInv, SingleRows, Legacy
    <3>3. projects[q.project] # "absent"
      BY <3>1 DEF Legacy
    <3>4. QED
      BY <1>2, <2>1, <2>3, <3>1, <3>2, <3>3
  <2>4. CASE Canonical = {} /\ Legacy = {}
    BY <2>1, <2>4, FoundIs
  <2>5. QED
    BY <2>2, <2>3, <2>4
<1>9. CASE /\ SeedFails(s)
           /\ ~(/\ Canonical \subseteq {id}
                /\ q.project = NoId <=> projects[id] = "absent"
                /\ q.category # "gone")
  <2>1. ASSUME ~q.met PROVE Unmergeable
    <3>1. q.project = NoId /\ projects["seed"] # "absent" /\ Canonical \cup Legacy = {}
      BY <1>2, <1>8, <1>9, <2>1
    <3>2. projects["seed"] \in ProjectRows /\ "seed" \in RowIds
      BY <1>7 DEF RowIds
    <3>3. projects["seed"] = "renamed"
      BY <3>1, <3>2 DEF Canonical, Legacy, HasSlug, ProjectRows, TitledRow
    <3>4. QED
      BY <3>1, <3>3 DEF Unmergeable
  <2>2. QED
    BY <1>1, <1>4, <1>9, <2>1, SeedFailsKeeps
<1>10. CASE /\ Canonical \subseteq {id}
            /\ projects' = [projects EXCEPT ![id] = Written(s)]
            /\ Writes(s, r) /\ UNCHANGED <<titled, seedLab, steps, adminActs, seedsMet>>
  <2>1. /\ projects'[id] = Written(s) /\ \A i \in RowIds \ {id} : projects'[i] = projects[i]
        /\ Written(s) \in HasSlug
    BY <1>5, <1>7, <1>10 DEF Written, HasSlug
  <2>2. projects' \in [RowIds -> ProjectRows]
    BY <1>7, <1>10, <2>1 DEF HasSlug, ProjectRows, TitledRow
  <2>3. Canonical' = {id} /\ Legacy' = Legacy \ {id}
    BY <1>5, <1>10, <2>1 DEF Canonical, Legacy, HasSlug
  <2>4. SeedRowsTyped' /\ SingleRows' /\ StepsAreSingle'
    <3>1. SingleRows'
      BY <2>3 DEF SeedInv, SingleRows
    <3>2. QED
      BY <1>10, <2>2, <3>1 DEF SeedInv, SeedTypeOK, SeedRowsTyped, StepsAreSingle
  <2>5. RunShape(r) /\ StepFree(r)'
    BY <1>4, <1>5, <1>6 DEF RunShape, StepFree
  <2>6. ASSUME ~r.met PROVE AloneRun(r)'
    <3>1. AloneRun(q) /\ q.category = "there" /\ Legacy \subseteq {id}
      BY <1>4, <1>6, <1>8, <2>6
    <3>2. projects'[id] = "seeded" /\ Legacy' = {}
      BY <1>1, <2>1, <2>3, <3>1 DEF Written
    <3>3. TitlesStand'
      BY <1>4, <1>10, <3>1 DEF AloneRun, TitlesStand
    <3>4. ASSUME Baseline PROVE Baseline'
      <4>1. PICK i \in RowIds : /\ projects[i] = "seeded" /\ steps[i] >= 1
                                /\ seedLab # NoSeedLab /\ seedLab.project = i
        BY <3>4 DEF Baseline
      <4>2. i = id
        BY <1>10, <4>1 DEF Canonical, HasSlug
      <4>3. QED
        BY <1>10, <3>2, <3>4, <4>1, <4>2 DEF Baseline
    <3>5. q.steady => Baseline
      BY <3>1 DEF AloneRun
    <3>6. QED
      BY <1>6, <3>1, <3>2, <3>3, <3>4, <3>5 DEF AloneRun, AfterLab, AfterProject, AfterParts
  <2>7. QED
    BY <1>4, <1>6, <1>10, <2>4, <2>5, <2>6, WritingKeeps
<1>11. QED
  BY <1>1, <1>2, <1>3, <1>9, <1>10 DEF UpsertProject

LEMMA LabFieldsOfSeed ==
    ASSUME SeedInv, seedLab # NoSeedLab
    PROVE  /\ seedLab \in SeedLab /\ seedLab.project \in RowIds /\ seedLab.fresh \subseteq Parts
           /\ seedLab.primary \subseteq {"source", "reference", "added"}
BY DEF SeedInv, SeedTypeOK, SeedLab

LEMMA SeedLabIsNot == NoSeedLab \notin SeedLab
BY DEF NoSeedLab, SeedLab, NoId, RowIds

LEMMA UpsertLabKeeps ==
    ASSUME SeedInv, NEW s \in Seeders, UpsertLab(s)
    PROVE  SeedInv'
<1>1. PICK q : q = seeder[s]
  OBVIOUS
<1>2. PICK r : r = [q EXCEPT !.at = "parts", !.lab = TRUE, !.next = 1]
  OBVIOUS
<1>3. q \in SeedRun /\ RunShape(q) /\ (q.met \/ AloneRun(q)) /\ q.at = "lab" /\ Running(s)
  BY <1>1 DEF SeedInv, SeedTypeOK, UpsertLab, SeedAt, Running
<1>4. /\ r \in SeedRun /\ r.at = "parts" /\ r.next = 1 /\ r.met = q.met /\ r.lab
      /\ r.category = q.category /\ r.steady = q.steady /\ r.project = q.project
  <2>1. 1 \in 1..5 /\ "parts" \in RunSteps
    BY DEF RunSteps
  <2>2. PICK n : n = 1
    OBVIOUS
  <2>3. n \in 1..5 /\ r = [q EXCEPT !.at = "parts", !.lab = TRUE, !.next = n]
    BY <1>2, <2>1, <2>2
  <2>4. /\ r \in SeedRun /\ r.at = "parts" /\ r.next = n /\ r.met = q.met /\ r.lab
        /\ r.category = q.category /\ r.steady = q.steady /\ r.project = q.project
    BY <1>3, <2>1, <2>3 DEF SeedRun
  <2>5. QED
    BY <2>2, <2>4
<1>5. q.project \in RowIds
  BY <1>3 DEF RunShape, AfterProject
<1>6. CASE SeedFails(s) /\ projects[q.project] = "absent"
  <2>1. q.met
    BY <1>3, <1>6 DEF AloneRun, AfterProject
  <2>2. QED
    BY <1>1, <1>3, <1>6, <2>1, SeedFailsKeeps
<1>7. CASE /\ seedLab' = IF seedLab = NoSeedLab
                         THEN [project |-> q.project, fresh |-> {"row"}, primary |-> {}]
                         ELSE [seedLab EXCEPT !.project = q.project, !.fresh = @ \cup {"row"}]
           /\ Writes(s, r) /\ UNCHANGED <<titled, projects, steps, adminActs, seedsMet>>
  <2>1. /\ seedLab' \in SeedLab /\ seedLab'.project = q.project /\ "row" \in seedLab'.fresh
        /\ seedLab # NoSeedLab => seedLab'.fresh = seedLab.fresh \cup {"row"}
                                  /\ seedLab'.primary = seedLab.primary
    <3>1. "row" \in Parts
      BY DEF Parts
    <3>2. CASE seedLab = NoSeedLab
      BY <1>5, <1>7, <3>1, <3>2 DEF SeedLab
    <3>3. CASE seedLab # NoSeedLab
      BY <1>5, <1>7, <3>1, <3>3, LabFieldsOfSeed DEF SeedLab
    <3>4. QED
      BY <3>2, <3>3
  <2>2. SeedRowsTyped' /\ SingleRows' /\ StepsAreSingle'
    BY <1>7, <2>1
       DEF SeedInv, SeedTypeOK, SeedRowsTyped, SingleRows, StepsAreSingle, Canonical, Legacy
  <2>3. RunShape(r) /\ StepFree(r)'
    BY <1>4, <1>5, PartsAre DEF RunShape, StepFree
  <2>4. ASSUME ~r.met PROVE AloneRun(r)'
    <3>1. /\ AloneRun(q) /\ q.category = "there" /\ projects[q.project] = "seeded" /\ Legacy = {}
          /\ TitlesStand
      BY <1>3, <1>4, <2>4 DEF AloneRun, AfterProject
    <3>2. TitlesStand' /\ Legacy' = {} /\ projects'[q.project] = "seeded"
      BY <1>7, <3>1 DEF TitlesStand, Legacy
    <3>3. LabWritten(r)'
      BY <1>4, <2>1 DEF LabWritten
    <3>4. seedLab' # NoSeedLab
      BY <2>1, SeedLabIsNot
    <3>5. ASSUME Baseline PROVE Baseline'
      <4>1. PICK i \in RowIds : /\ projects[i] = "seeded" /\ steps[i] >= 1
                                /\ seedLab # NoSeedLab /\ seedLab.project = i
        BY <3>5 DEF Baseline
      <4>2. i = q.project
        BY <1>5, <3>1, <4>1 DEF SeedInv, SingleRows, Canonical, HasSlug
      <4>3. /\ \A t \in Tables : \E j \in RowIds : titled'[t][j] = "seeded"
            /\ \E j \in RowIds : projects'[j] = "seeded" /\ steps'[j] >= 1
                                 /\ seedLab' # NoSeedLab /\ seedLab'.project = j
        BY <1>7, <2>1, <3>4, <3>5, <4>1, <4>2 DEF Baseline
      <4>4. seedLab'.fresh = Parts /\ seedLab'.primary \ {"added"} = {"source"}
        BY <2>1, <3>5, <4>1 DEF Baseline, Parts
      <4>5. QED
        BY <3>2, <4>3, <4>4 DEF Baseline, Parts
    <3>6. q.steady => Baseline
      BY <3>1 DEF AloneRun
    <3>7. QED
      BY <1>4, <2>1, <3>1, <3>2, <3>3, <3>4, <3>5, <3>6
         DEF AloneRun, AfterLab, AfterProject, AfterParts
  <2>5. QED
    BY <1>3, <1>4, <1>7, <2>2, <2>3, <2>4, WritingKeeps
<1>8. QED
  BY <1>1, <1>2, <1>6, <1>7 DEF UpsertLab

\* A part that is written advances the run.
LEMMA AdvancedIs ==
    ASSUME NEW s \in Seeders, NEW q \in SeedRun, q = seeder[s],
           q.next \in 1..Len(LabParts), q.at = "parts"
    PROVE  \E r \in SeedRun :
              /\ r = Advanced(s) /\ r.met = q.met /\ r.category = q.category /\ r.steady = q.steady
              /\ r.project = q.project /\ r.lab = q.lab
              /\ IF q.next = Len(LabParts) THEN r.at = "find step" /\ r.next = 1
                 ELSE r.at = "parts" /\ r.next = q.next + 1 /\ r.next <= Len(LabParts)
<1>1. CASE q.next = Len(LabParts)
  <2>1. PICK r : r = [q EXCEPT !.at = "find step", !.next = 1]
    OBVIOUS
  <2>2. /\ r \in SeedRun /\ r.met = q.met /\ r.category = q.category /\ r.steady = q.steady
        /\ r.project = q.project /\ r.lab = q.lab /\ r.at = "find step" /\ r.next = 1
    <3>1. 1 \in 1..5 /\ "find step" \in RunSteps
      BY DEF RunSteps
    <3>2. PICK n : n = 1
      OBVIOUS
    <3>3. n \in 1..5 /\ r = [q EXCEPT !.at = "find step", !.next = n]
      BY <2>1, <3>1, <3>2
    <3>4. /\ r \in SeedRun /\ r.met = q.met /\ r.category = q.category /\ r.steady = q.steady
          /\ r.project = q.project /\ r.lab = q.lab /\ r.at = "find step" /\ r.next = n
      BY <3>1, <3>3 DEF SeedRun
    <3>5. QED
      BY <3>2, <3>4
  <2>3. r = Advanced(s)
    BY <1>1, <2>1 DEF Advanced
  <2>4. QED
    BY <1>1, <2>2, <2>3
<1>2. CASE q.next # Len(LabParts)
  <2>1. PICK r : r = [q EXCEPT !.next = q.next + 1]
    OBVIOUS
  <2>2. q.next + 1 \in 1..5 /\ q.next + 1 <= Len(LabParts)
    <3>1. PICK n : n = Len(LabParts)
      OBVIOUS
    <3>2. n \in 4..5 /\ q.next \in 1..n /\ q.next # n
      BY <1>2, <3>1, PartsAre
    <3>3. q.next + 1 \in 1..5 /\ q.next + 1 <= n
      BY <3>2
    <3>4. QED
      BY <3>1, <3>3
  <2>3. /\ r \in SeedRun /\ r.met = q.met /\ r.category = q.category /\ r.steady = q.steady
        /\ r.project = q.project /\ r.lab = q.lab /\ r.at = "parts" /\ r.next = q.next + 1
    BY <2>1, <2>2 DEF SeedRun
  <2>4. r = Advanced(s)
    BY <1>2, <2>1 DEF Advanced
  <2>5. QED
    BY <1>2, <2>2, <2>3, <2>4
<1>3. QED
  BY <1>1, <1>2

LEMMA SeedPartKeeps ==
    ASSUME SeedInv, NEW s \in Seeders, NEW part, SeedPart(s, part)
    PROVE  SeedInv'
<1>1. PICK q : q = seeder[s]
  OBVIOUS
<1>2. /\ q \in SeedRun /\ RunShape(q) /\ (q.met \/ AloneRun(q)) /\ q.at = "parts" /\ Running(s)
      /\ q.lab /\ LabParts[q.next] = part
  BY <1>1 DEF SeedInv, SeedTypeOK, SeedPart, SeedAt, Running
<1>3. /\ q.next \in 1..5 /\ q.next \in 1..Len(LabParts)
      /\ part \in Parts /\ q.project \in RowIds
  BY <1>2, PartsAre DEF SeedRun, RunShape, AfterProject
<1>4. PICK r \in SeedRun :
              /\ r = Advanced(s) /\ r.met = q.met /\ r.category = q.category /\ r.steady = q.steady
              /\ r.project = q.project /\ r.lab = q.lab
              /\ IF q.next = Len(LabParts) THEN r.at = "find step" /\ r.next = 1
                 ELSE r.at = "parts" /\ r.next = q.next + 1 /\ r.next <= Len(LabParts)
  BY <1>1, <1>2, <1>3, AdvancedIs
<1>5. PICK primary : primary = PrimaryAfter(part)
  OBVIOUS
<1>6. /\ seedLab' = [seedLab EXCEPT !.fresh = @ \cup {part}, !.primary = primary]
      /\ Writes(s, r) /\ UNCHANGED <<titled, projects, steps, adminActs, seedsMet>>
  BY <1>4, <1>5 DEF SeedPart
<1>7. /\ part = "source" => primary = seedLab.primary \cup {"source"}
      /\ part = "reference" => primary = seedLab.primary \ {"reference"}
      /\ part \notin {"source", "reference"} => primary = seedLab.primary
  BY <1>5 DEF PrimaryAfter
<1>8. ASSUME seedLab # NoSeedLab
      PROVE  /\ seedLab' \in SeedLab /\ seedLab' # NoSeedLab /\ seedLab'.project = seedLab.project
             /\ seedLab'.fresh = seedLab.fresh \cup {part} /\ seedLab'.primary = primary
             /\ seedLab'.fresh \subseteq Parts
             /\ primary \subseteq {"source", "reference", "added"}
  <2>1. primary \subseteq {"source", "reference", "added"}
    BY <1>7, <1>8, LabFieldsOfSeed
  <2>2. /\ seedLab' \in SeedLab /\ seedLab'.project = seedLab.project
        /\ seedLab'.fresh = seedLab.fresh \cup {part} /\ seedLab'.primary = primary
        /\ seedLab'.fresh \subseteq Parts
    BY <1>3, <1>6, <1>8, <2>1, LabFieldsOfSeed DEF SeedLab
  <2>3. QED
    BY <2>1, <2>2, SeedLabIsNot
<1>9. seedLab = NoSeedLab => seedLab' = NoSeedLab
  BY <1>6 DEF NoSeedLab
<1>10. SeedRowsTyped' /\ SingleRows' /\ StepsAreSingle'
  BY <1>6, <1>8, <1>9
     DEF SeedInv, SeedTypeOK, SeedRowsTyped, SingleRows, StepsAreSingle, Canonical, Legacy
<1>11. RunShape(r) /\ StepFree(r)'
  <2>1. r.at # "write step" /\ r.project \in RowIds
    BY <1>3, <1>4
  <2>2. r.next <= Len(LabParts)
    <3>1. PICK n : n = Len(LabParts)
      OBVIOUS
    <3>2. n \in 4..5
      BY <3>1, PartsAre
    <3>3. r.next = 1 \/ r.next <= n
      BY <1>4, <3>1
    <3>4. 1 <= n
      BY <3>2
    <3>5. r.next <= n
      BY <3>3, <3>4
    <3>6. QED
      BY <3>1, <3>5
  <2>3. QED
    BY <2>1, <2>2 DEF RunShape, StepFree
<1>12. ASSUME ~r.met PROVE AloneRun(r)'
  <2>1. /\ AloneRun(q) /\ q.category = "there" /\ projects[q.project] = "seeded" /\ Legacy = {}
        /\ TitlesStand /\ seedLab # NoSeedLab /\ seedLab.project = q.project /\ LabWritten(q)
    BY <1>2, <1>4, <1>12 DEF AloneRun, AfterProject, AfterLab
  <2>2. /\ TitlesStand' /\ Legacy' = {} /\ projects'[q.project] = "seeded"
        /\ seedLab' # NoSeedLab /\ seedLab'.project = q.project
    BY <1>6, <1>8, <2>1 DEF TitlesStand, Legacy
  <2>3. "source" \in primary
    <3>1. CASE q.next = 1
      BY <1>2, <1>7, <3>1, PartsAre
    <3>2. CASE q.next > 1
      BY <1>7, <2>1, <3>2 DEF LabWritten
    <3>3. QED
      BY <1>3, <3>1, <3>2
  <2>4. ASSUME NEW j \in 1..5, j <= q.next
        PROVE  /\ LabParts[j] \in seedLab'.fresh
               /\ LabParts[j] = "reference" => "reference" \notin primary
    <3>1. CASE j = q.next
      BY <1>2, <1>7, <1>8, <2>1, <3>1
    <3>2. CASE j < q.next
      <4>1. /\ LabParts[j] \in seedLab.fresh
            /\ LabParts[j] = "reference" => "reference" \notin seedLab.primary
        BY <2>1, <3>2 DEF LabWritten
      <4>2. QED
        BY <1>7, <1>8, <2>1, <4>1
    <3>3. QED
      BY <1>3, <2>4, <3>1, <3>2
  <2>5. "row" \in seedLab'.fresh
    BY <1>8, <2>1 DEF LabWritten
  <2>6. CASE q.next = Len(LabParts)
    <3>1. seedLab'.fresh = Parts
      <4>1. \A j \in 1..Len(LabParts) : LabParts[j] \in seedLab'.fresh
        BY <2>4, <2>6, PartsAre
      <4>2. QED
        BY <1>8, <2>1, <2>5, <4>1, PartsAre
    <3>2. "reference" \notin primary
      BY <2>4, <2>6, PartsAre
    <3>3. seedLab'.primary \ {"added"} = {"source"}
      BY <1>8, <2>1, <2>3, <3>2
    <3>4. ASSUME Baseline PROVE Baseline'
      <4>1. /\ \A t \in Tables : \E j \in RowIds : titled'[t][j] = "seeded"
            /\ \E j \in RowIds : projects'[j] = "seeded" /\ steps'[j] >= 1
                                 /\ seedLab' # NoSeedLab /\ seedLab'.project = j
        BY <1>6, <2>1, <2>2, <3>4 DEF Baseline
      <4>2. QED
        BY <2>2, <3>1, <3>3, <4>1 DEF Baseline, Parts
    <3>5. q.steady => Baseline
      BY <2>1 DEF AloneRun
    <3>6. QED
      BY <1>2, <1>4, <2>1, <2>2, <2>6, <3>1, <3>3, <3>4, <3>5
         DEF AloneRun, AfterLab, AfterProject, AfterParts
  <2>7. CASE q.next # Len(LabParts)
    <3>1. r.at = "parts" /\ r.next = q.next + 1
      BY <1>4, <2>7
    <3>2. LabWritten(r)'
      <4>1. \A j \in 1..5 : j < r.next => j <= q.next
        BY <1>3, <3>1
      <4>2. QED
        BY <1>8, <2>1, <2>3, <2>4, <2>5, <4>1 DEF LabWritten
    <3>3. ASSUME Baseline PROVE Baseline'
      <4>1. /\ \A t \in Tables : \E j \in RowIds : titled'[t][j] = "seeded"
            /\ \E j \in RowIds : projects'[j] = "seeded" /\ steps'[j] >= 1
                                 /\ seedLab' # NoSeedLab /\ seedLab'.project = j
        BY <1>6, <2>1, <2>2, <3>3 DEF Baseline
      <4>2. seedLab'.fresh = Parts
        BY <1>3, <1>8, <2>1, <3>3 DEF Baseline
      <4>3. primary \ {"added"} = {"source"}
        <5>1. seedLab.primary \ {"added"} = {"source"}
          BY <3>3 DEF Baseline
        <5>2. QED
          BY <1>7, <5>1
      <4>4. QED
        BY <1>8, <2>1, <2>2, <4>1, <4>2, <4>3 DEF Baseline, Parts
    <3>4. q.steady => Baseline
      BY <2>1 DEF AloneRun
    <3>5. QED
      BY <1>2, <1>4, <2>1, <2>2, <3>1, <3>2, <3>3, <3>4
         DEF AloneRun, AfterLab, AfterProject, AfterParts
  <2>8. QED
    BY <2>6, <2>7
<1>13. QED
  BY <1>2, <1>4, <1>6, <1>10, <1>11, <1>12, WritingKeeps

LEMMA PartElsewhereKeeps ==
    ASSUME SeedInv, NEW s \in Seeders, SeedPartElsewhere(s)
    PROVE  SeedInv'
<1>1. PICK q : q = seeder[s]
  OBVIOUS
<1>2. /\ q \in SeedRun /\ RunShape(q) /\ (q.met \/ AloneRun(q)) /\ q.at = "parts" /\ Running(s)
      /\ ~q.lab
  BY <1>1 DEF SeedInv, SeedTypeOK, SeedPartElsewhere, SeedAt, Running
<1>3. q.met
  BY <1>2 DEF AloneRun, AfterLab, AfterProject
<1>4. q.next \in 1..Len(LabParts) /\ q.project \in RowIds
  <2>1. PICK n : n = Len(LabParts)
    OBVIOUS
  <2>2. n \in 4..5 /\ q.next \in 1..5 /\ q.next <= n
    BY <1>2, <2>1, PartsAre DEF SeedRun, RunShape
  <2>3. q.next \in 1..n
    BY <2>2
  <2>4. QED
    BY <1>2, <2>1, <2>3 DEF RunShape, AfterProject
<1>5. PICK r \in SeedRun :
              /\ r = Advanced(s) /\ r.met = q.met /\ r.category = q.category /\ r.steady = q.steady
              /\ r.project = q.project /\ r.lab = q.lab
              /\ IF q.next = Len(LabParts) THEN r.at = "find step" /\ r.next = 1
                 ELSE r.at = "parts" /\ r.next = q.next + 1 /\ r.next <= Len(LabParts)
  BY <1>1, <1>2, <1>4, AdvancedIs
<1>6. RunShape(r) /\ StepFree(r)
  <2>1. r.at # "write step" /\ r.project \in RowIds
    BY <1>4, <1>5
  <2>2. r.next <= Len(LabParts)
    <3>1. PICK n : n = Len(LabParts)
      OBVIOUS
    <3>2. n \in 4..5
      BY <3>1, PartsAre
    <3>3. r.next = 1 \/ r.next <= n
      BY <1>5, <3>1
    <3>4. 1 <= n
      BY <3>2
    <3>5. r.next <= n
      BY <3>3, <3>4
    <3>6. QED
      BY <3>1, <3>5
  <2>3. QED
    BY <2>1, <2>2 DEF RunShape, StepFree
<1>7. CASE SeedFails(s)
  BY <1>1, <1>2, <1>3, <1>7, SeedFailsKeeps
<1>8. CASE /\ Proceeds(s, r)
           /\ UNCHANGED <<titled, projects, seedLab, steps, adminActs, seedsMet>>
  BY <1>2, <1>3, <1>5, <1>6, <1>8, ReadingKeeps DEF SeedInv, SeedTypeOK
<1>9. QED
  BY <1>5, <1>7, <1>8 DEF SeedPartElsewhere

LEMMA SeedersCount ==
    ASSUME NEW s \in Seeders
    PROVE  Cardinality(Seeders) \in Nat \ {0}
<1>1. IsFiniteSet(Seeders) /\ Seeders # {}
  BY SeedAssumption
<1>2. QED
  BY <1>1, FS_CardinalityType, FS_EmptySet

LEMMA WriteStepKeeps ==
    ASSUME SeedInv, NEW s \in Seeders, WriteStep(s)
    PROVE  SeedInv'
<1>1. PICK q : q = seeder[s]
  OBVIOUS
<1>2. PICK r : r = [q EXCEPT !.at = "post", !.step = "none"]
  OBVIOUS
<1>3. /\ q \in SeedRun /\ RunShape(q) /\ (q.met \/ AloneRun(q)) /\ (seedsMet \/ StepFree(q))
      /\ q.at = "write step" /\ Running(s)
  BY <1>1 DEF SeedInv, SeedTypeOK, WriteStep, SeedAt, Running
<1>4. /\ r \in SeedRun /\ r.at = "post" /\ r.next = q.next /\ r.met = q.met
      /\ r.category = q.category /\ r.steady = q.steady /\ r.project = q.project /\ r.lab = q.lab
  BY <1>2, <1>3 DEF SeedRun, RunSteps
<1>5. q.project \in RowIds
  BY <1>3 DEF RunShape, AfterProject
<1>6. RunShape(r) /\ StepFree(r)'
  BY <1>3, <1>4, <1>5 DEF RunShape, StepFree
<1>7. PICK n : n = Cardinality(Seeders)
  OBVIOUS
<1>8. n \in Nat /\ n # 0
  BY <1>7, SeedersCount
<1>9. steps \in [RowIds -> 0..n] /\ steps[q.project] \in 0..n
  BY <1>5, <1>7 DEF SeedInv, SeedTypeOK
<1>10. CASE /\ SeedFails(s)
            /\ ~(IF q.step = "none" THEN projects[q.project] # "absent" ELSE q.step = "found")
  <2>1. q.met
    BY <1>3, <1>10 DEF AloneRun, AfterProject
  <2>2. QED
    BY <1>1, <1>3, <1>10, <2>1, SeedFailsKeeps
<1>11. CASE /\ steps' = IF q.step = "none" /\ steps[q.project] < n
                        THEN [steps EXCEPT ![q.project] = @ + 1] ELSE steps
            /\ Writes(s, r) /\ UNCHANGED <<titled, projects, seedLab, adminActs, seedsMet>>
  <2>1. /\ steps' \in [RowIds -> 0..n]
        /\ \A i \in RowIds \ {q.project} : steps'[i] = steps[i]
        /\ steps'[q.project] = IF q.step = "none" /\ steps[q.project] < n
                               THEN steps[q.project] + 1 ELSE steps[q.project]
    BY <1>5, <1>8, <1>9, <1>11
  <2>2. StepsAreSingle'
    <3>1. ASSUME ~seedsMet, NEW i \in RowIds PROVE steps'[i] <= 1
      <4>1. steps[i] <= 1
        BY <3>1 DEF SeedInv, StepsAreSingle
      <4>2. CASE i = q.project
        <5>1. PICK rows : rows = steps[q.project]
          OBVIOUS
        <5>2. rows \in 0..n /\ rows <= 1 /\ (q.step = "none" => rows = 0)
          BY <1>3, <1>9, <3>1, <4>1, <4>2, <5>1 DEF StepFree
        <5>3. steps'[i] = IF q.step = "none" /\ rows < n THEN rows + 1 ELSE rows
          BY <2>1, <4>2, <5>1
        <5>4. QED
          BY <5>2, <5>3
      <4>3. CASE i # q.project
        BY <2>1, <4>1, <4>3
      <4>4. QED
        BY <4>2, <4>3
    <3>2. QED
      BY <1>11, <3>1 DEF StepsAreSingle
  <2>3. SeedRowsTyped' /\ SingleRows'
    BY <1>7, <1>11, <2>1 DEF SeedInv, SeedTypeOK, SeedRowsTyped, SingleRows, Canonical, Legacy
  <2>4. ASSUME ~r.met PROVE AloneRun(r)'
    <3>1. /\ AloneRun(q) /\ q.category = "there" /\ projects[q.project] = "seeded" /\ Legacy = {}
          /\ TitlesStand /\ seedLab # NoSeedLab /\ seedLab.project = q.project /\ q.lab
          /\ seedLab.fresh = Parts /\ seedLab.primary \ {"added"} = {"source"}
          /\ q.step = IF steps[q.project] > 0 THEN "found" ELSE "none"
      BY <1>3, <1>4, <2>4 DEF AloneRun, AfterProject, AfterLab, AfterParts
    <3>2. steps'[q.project] >= 1
      BY <1>8, <1>9, <2>1, <3>1
    <3>3. TitlesStand' /\ Legacy' = {} /\ Parts' = Parts
      BY <1>11, <3>1 DEF TitlesStand, Legacy, Parts
    <3>4. ASSUME Baseline PROVE Baseline'
      <4>1. \E j \in RowIds : projects'[j] = "seeded" /\ steps'[j] >= 1
                              /\ seedLab' # NoSeedLab /\ seedLab'.project = j
        BY <1>5, <1>11, <3>1, <3>2
      <4>2. \A t \in Tables : \E j \in RowIds : titled'[t][j] = "seeded"
        BY <1>11, <3>4 DEF Baseline
      <4>3. seedLab'.fresh = Parts' /\ seedLab'.primary \ {"added"} = {"source"}
        BY <1>11, <3>1, <3>3
      <4>4. QED
        BY <3>3, <4>1, <4>2, <4>3 DEF Baseline
    <3>5. q.steady => Baseline
      BY <3>1 DEF AloneRun
    <3>6. QED
      BY <1>4, <1>11, <3>1, <3>2, <3>3, <3>4, <3>5
         DEF AloneRun, AfterLab, AfterProject, AfterParts
  <2>5. QED
    BY <1>3, <1>4, <1>6, <1>11, <2>2, <2>3, <2>4, WritingKeeps
<1>12. QED
  BY <1>1, <1>2, <1>7, <1>10, <1>11 DEF WriteStep, StepMissing

-----------------------------------------------------------------------------
(***************************************************************************)
(* What administrators do.                                                 *)
(***************************************************************************)
LEMMA MeetsAsBefore ==
    ASSUME SeedInv, Meets(AsBefore)
    PROVE  AllMet /\ seeder' = [x \in Seeders |-> seeder'[x]]
<1>1. seeder' = [x \in Seeders |->
          IF seeder[x] = NoRun THEN NoRun ELSE [seeder[x] EXCEPT !.met = TRUE]]
  BY DEF Meets, AsBefore
<1>2. ASSUME NEW x \in Seeders, seeder[x] # NoRun
      PROVE  /\ seeder'[x] \in SeedRun /\ seeder'[x].met
             /\ seeder'[x].at = seeder[x].at /\ seeder'[x].next = seeder[x].next
             /\ seeder'[x].project = seeder[x].project
             /\ seeder'[x].step = "none" => seeder[x].step = "none"
  <2>1. seeder[x] \in SeedRun /\ seeder'[x] = [seeder[x] EXCEPT !.met = TRUE]
    BY <1>1, <1>2 DEF SeedInv, SeedTypeOK
  <2>2. QED
    BY <2>1 DEF SeedRun
<1>3. AllMet
  BY <1>1, <1>2 DEF AllMet
<1>4. QED
  BY <1>1, <1>3

LEMMA ChangeTitledKeeps ==
    ASSUME SeedInv, NEW t \in Tables, NEW i \in RowIds, ChangeTitled(t, i)
    PROVE  SeedInv'
<1>1. AdminActs /\ Meets(AsBefore) /\ UNCHANGED <<projects, seedLab, steps>>
  BY DEF ChangeTitled
<1>2. \E row \in TitledRow : titled' = [titled EXCEPT ![t][i] = row]
  BY DEF ChangeTitled, TitledRow
<1>3. titled' \in [Tables -> [RowIds -> TitledRow]]
  BY <1>2 DEF SeedInv, SeedTypeOK
<1>4. SeedRowsTyped' /\ SingleRows'
  BY <1>1, <1>3 DEF SeedInv, SeedTypeOK, SeedRowsTyped, SingleRows, Canonical, Legacy
<1>5. \A j \in RowIds : steps'[j] \in {steps[j], 0}
  BY <1>1
<1>6. QED
  BY <1>1, <1>4, <1>5, MeetsAsBefore, MeetingKeeps

\* Editing keeps which rows have which slug.
LEMMA EditedKeeps ==
    ASSUME SeedInv, projects' = [j \in RowIds |-> Edited(projects[j])]
    PROVE  projects' \in [RowIds -> ProjectRows] /\ Canonical' = Canonical /\ Legacy' = Legacy
<1>1. ASSUME NEW j \in RowIds
      PROVE  /\ projects'[j] \in ProjectRows
             /\ projects'[j] \in HasSlug <=> projects[j] \in HasSlug
             /\ projects'[j] = "legacy" <=> projects[j] = "legacy"
  <2>1. projects[j] \in ProjectRows /\ projects'[j] = Edited(projects[j])
    BY DEF SeedInv, SeedTypeOK
  <2>2. QED
    BY <2>1 DEF Edited, HasSlug, ProjectRows, TitledRow
<1>2. projects' \in [RowIds -> ProjectRows]
  BY <1>1
<1>3. QED
  BY <1>1, <1>2 DEF Canonical, Legacy

LEMMA CategoryGoesMeets ==
    ASSUME SeedInv, NEW i \in RowIds, CategoryGoes(i)
    PROVE  AllMet /\ seeder' = [x \in Seeders |-> seeder'[x]]
<1>1. \E lost \in {"renamed", "gone"} :
         seeder' = [x \in Seeders |-> IF seeder[x] = NoRun THEN NoRun
            ELSE [[seeder[x] EXCEPT !.category = IF seeder[x].at = "category" THEN @ ELSE lost]
                     EXCEPT !.met = TRUE]]
  BY DEF CategoryGoes, Meets
<1>2. PICK lost \in {"renamed", "gone"} :
         seeder' = [x \in Seeders |-> IF seeder[x] = NoRun THEN NoRun
            ELSE [[seeder[x] EXCEPT !.category = IF seeder[x].at = "category" THEN @ ELSE lost]
                     EXCEPT !.met = TRUE]]
  BY <1>1
<1>3. ASSUME NEW x \in Seeders, seeder[x] # NoRun
      PROVE  /\ seeder'[x] \in SeedRun /\ seeder'[x].met
             /\ seeder'[x].at = seeder[x].at /\ seeder'[x].next = seeder[x].next
             /\ seeder'[x].project = seeder[x].project
             /\ seeder'[x].step = "none" => seeder[x].step = "none"
  <2>1. PICK q : q = seeder[x]
    OBVIOUS
  <2>2. PICK kept : kept = IF q.at = "category" THEN q.category ELSE lost
    OBVIOUS
  <2>3. PICK r : r = [[q EXCEPT !.category = kept] EXCEPT !.met = TRUE]
    OBVIOUS
  <2>4. q \in SeedRun /\ kept \in {"there", "renamed", "gone"}
    BY <2>1, <2>2 DEF SeedInv, SeedTypeOK, SeedRun
  <2>5. /\ r \in SeedRun /\ r.met /\ r.at = q.at /\ r.next = q.next /\ r.project = q.project
        /\ r.step = q.step
    BY <2>3, <2>4 DEF SeedRun
  <2>6. seeder'[x] = r
    BY <1>2, <1>3, <2>1, <2>2, <2>3
  <2>7. QED
    BY <2>1, <2>5, <2>6
<1>4. AllMet
  BY <1>2, <1>3 DEF AllMet
<1>5. QED
  BY <1>2, <1>4

LEMMA CategoryGoesKeeps ==
    ASSUME SeedInv, NEW i \in RowIds, CategoryGoes(i)
    PROVE  SeedInv'
<1>1. AdminActs /\ UNCHANGED <<seedLab, steps>>
  BY DEF CategoryGoes
<1>2. /\ titled \in [Tables -> [RowIds -> TitledRow]] /\ projects \in [RowIds -> ProjectRows]
      /\ "category" \in Tables /\ "post" \in Tables
      /\ "renamed" \in TitledRow /\ "absent" \in TitledRow
  BY DEF SeedInv, SeedTypeOK, Tables, TitledRow
<1>3. /\ titled' \in [Tables -> [RowIds -> TitledRow]]
      /\ \/ projects' = projects
         \/ projects' = [j \in RowIds |-> Edited(projects[j])]
  <2>1. CASE /\ titled' = [titled EXCEPT
                   !["category"][i] = IF i = "seed" THEN "renamed" ELSE "absent",
                   !["post"] = [j \in RowIds |-> Edited(titled["post"][j])]]
             /\ projects' = [j \in RowIds |-> Edited(projects[j])]
    <3>1. [j \in RowIds |-> Edited(titled["post"][j])] \in [RowIds -> TitledRow]
      BY <1>2 DEF Edited, TitledRow
    <3>2. PICK posts : posts = [j \in RowIds |-> Edited(titled["post"][j])]
      OBVIOUS
    <3>3. PICK row \in TitledRow : row = IF i = "seed" THEN "renamed" ELSE "absent"
      BY <1>2
    <3>4. titled' = [titled EXCEPT !["category"][i] = row, !["post"] = posts]
      BY <2>1, <3>2, <3>3
    <3>5. QED
      BY <1>2, <2>1, <3>1, <3>2, <3>4
  <2>2. CASE titled' = [titled EXCEPT !["category"][i] = "absent"] /\ projects' = projects
    BY <1>2, <2>2
  <2>3. QED
    BY <2>1, <2>2 DEF CategoryGoes
<1>4. projects' \in [RowIds -> ProjectRows] /\ Canonical' = Canonical /\ Legacy' = Legacy
  <2>1. CASE projects' = projects
    BY <1>2, <2>1 DEF Canonical, Legacy
  <2>2. CASE projects' = [j \in RowIds |-> Edited(projects[j])]
    BY <2>2, EditedKeeps
  <2>3. QED
    BY <1>3, <2>1, <2>2
<1>5. SeedRowsTyped' /\ SingleRows'
  BY <1>1, <1>3, <1>4 DEF SeedInv, SeedTypeOK, SeedRowsTyped, SingleRows
<1>6. \A j \in RowIds : steps'[j] \in {steps[j], 0}
  BY <1>1
<1>7. QED
  BY <1>1, <1>5, <1>6, CategoryGoesMeets, MeetingKeeps

LEMMA ChangeProjectKeeps ==
    ASSUME SeedInv, NEW i \in RowIds, ChangeProject(i)
    PROVE  SeedInv'
<1>1. AdminActs /\ Meets(AsBefore) /\ UNCHANGED <<titled, seedLab, steps>>
  BY DEF ChangeProject
<1>2. PICK row \in {"edited", "renamed", "legacy"} :
         /\ row \in HasSlug => Canonical \subseteq {i}
         /\ row = "legacy" => Legacy \subseteq {i}
         /\ projects' = [projects EXCEPT ![i] = row]
  BY DEF ChangeProject
<1>3. projects \in [RowIds -> ProjectRows]
  BY DEF SeedInv, SeedTypeOK
<1>4. projects' \in [RowIds -> ProjectRows]
  BY <1>2, <1>3 DEF ProjectRows, TitledRow
<1>5. /\ Canonical' \subseteq IF row \in HasSlug THEN {i} ELSE Canonical
      /\ Legacy' \subseteq IF row = "legacy" THEN {i} ELSE Legacy
  BY <1>2, <1>3 DEF Canonical, Legacy, HasSlug
<1>6. SingleRows'
  BY <1>5 DEF SeedInv, SingleRows
<1>7. SeedRowsTyped'
  BY <1>1, <1>4 DEF SeedInv, SeedTypeOK, SeedRowsTyped
<1>8. \A j \in RowIds : steps'[j] \in {steps[j], 0}
  BY <1>1
<1>9. QED
  BY <1>1, <1>6, <1>7, <1>8, MeetsAsBefore, MeetingKeeps

LEMMA DeleteSeededMeets ==
    ASSUME SeedInv, NEW i \in RowIds, DeleteSeeded(i)
    PROVE  AllMet /\ seeder' = [x \in Seeders |-> seeder'[x]]
<1>1. seeder' = [x \in Seeders |-> IF seeder[x] = NoRun THEN NoRun
         ELSE [[seeder[x] EXCEPT !.lab = @ /\ seedLab.project # i,
                  !.step = IF seeder[x].project = i /\ @ = "found" THEN "lost" ELSE @]
                  EXCEPT !.met = TRUE]]
  BY DEF DeleteSeeded, Meets
<1>2. ASSUME NEW x \in Seeders, seeder[x] # NoRun
      PROVE  /\ seeder'[x] \in SeedRun /\ seeder'[x].met
             /\ seeder'[x].at = seeder[x].at /\ seeder'[x].next = seeder[x].next
             /\ seeder'[x].project = seeder[x].project
             /\ seeder'[x].step = "none" => seeder[x].step = "none"
  <2>1. PICK q : q = seeder[x]
    OBVIOUS
  <2>2. PICK step : step = IF q.project = i /\ q.step = "found" THEN "lost" ELSE q.step
    OBVIOUS
  <2>3. PICK still \in BOOLEAN : still = (q.lab /\ seedLab.project # i)
    OBVIOUS
  <2>4. PICK r : r = [[q EXCEPT !.lab = still, !.step = step] EXCEPT !.met = TRUE]
    OBVIOUS
  <2>5. q \in SeedRun /\ step \in {"none", "found", "lost"} /\ (step = "none" => q.step = "none")
    BY <2>1, <2>2 DEF SeedInv, SeedTypeOK, SeedRun
  <2>6. /\ r \in SeedRun /\ r.met /\ r.at = q.at /\ r.next = q.next /\ r.project = q.project
        /\ r.step = step
    BY <2>3, <2>4, <2>5 DEF SeedRun
  <2>7. seeder'[x] = r
    <3>1. seeder'[x] = [[q EXCEPT !.lab = q.lab /\ seedLab.project # i,
                  !.step = IF q.project = i /\ q.step = "found" THEN "lost" ELSE q.step]
                  EXCEPT !.met = TRUE]
      BY <1>1, <1>2, <2>1
    <3>2. QED
      BY <2>2, <2>3, <2>4, <3>1, Zenon
  <2>8. QED
    BY <2>1, <2>5, <2>6, <2>7
<1>3. AllMet
  BY <1>1, <1>2 DEF AllMet
<1>4. QED
  BY <1>1, <1>3

LEMMA DeleteSeededKeeps ==
    ASSUME SeedInv, NEW i \in RowIds, DeleteSeeded(i)
    PROVE  SeedInv'
<1>1. /\ AdminActs /\ titled' = titled
      /\ projects' = [projects EXCEPT ![i] = "absent"] /\ steps' = [steps EXCEPT ![i] = 0]
      /\ seedLab' = IF seedLab.project = i THEN NoSeedLab ELSE seedLab
  BY DEF DeleteSeeded
<1>2. /\ projects \in [RowIds -> ProjectRows] /\ steps \in [RowIds -> 0..Cardinality(Seeders)]
      /\ seedLab \in SeedLab \cup {NoSeedLab}
  BY DEF SeedInv, SeedTypeOK
<1>3. 0 \in 0..Cardinality(Seeders)
  <2>1. PICK n : n = Cardinality(Seeders)
    OBVIOUS
  <2>2. n \in Nat
    BY <2>1, SeedAssumption, FS_CardinalityType
  <2>3. 0 \in 0..n
    BY <2>2
  <2>4. QED
    BY <2>1, <2>3
<1>4. PICK most : most = 0..Cardinality(Seeders)
  OBVIOUS
<1>5. steps' \in [RowIds -> most] /\ \A j \in RowIds : steps'[j] \in {steps[j], 0}
  BY <1>1, <1>2, <1>3, <1>4
<1>6. projects' \in [RowIds -> ProjectRows] /\ seedLab' \in SeedLab \cup {NoSeedLab}
  BY <1>1, <1>2 DEF ProjectRows, TitledRow
<1>7. Canonical' \subseteq Canonical /\ Legacy' \subseteq Legacy
  BY <1>1, <1>2 DEF Canonical, Legacy, HasSlug
<1>8. SeedRowsTyped' /\ SingleRows'
  BY <1>1, <1>4, <1>5, <1>6, <1>7 DEF SeedInv, SeedTypeOK, SeedRowsTyped, SingleRows
<1>9. QED
  BY <1>1, <1>5, <1>8, DeleteSeededMeets, MeetingKeeps

LEMMA EditSeedLabKeeps ==
    ASSUME SeedInv, EditSeedLab
    PROVE  SeedInv'
<1>1. AdminActs /\ Meets(AsBefore) /\ UNCHANGED <<titled, projects, steps>>
  BY DEF EditSeedLab
<1>2. /\ seedLab \in SeedLab /\ seedLab.fresh \subseteq Parts
      /\ seedLab.primary \subseteq {"source", "reference", "added"}
  BY LabFieldsOfSeed DEF EditSeedLab
<1>3. seedLab' \in SeedLab
  <2>1. CASE \E part \in seedLab.fresh : seedLab' = [seedLab EXCEPT !.fresh = @ \ {part}]
    BY <1>2, <2>1 DEF SeedLab
  <2>2. CASE \E i \in RowIds : seedLab' = [seedLab EXCEPT !.project = i]
    BY <1>2, <2>2 DEF SeedLab
  <2>3. CASE \E input \in {"reference", "added"} :
                seedLab' = [seedLab EXCEPT !.primary = {input}, !.fresh = @ \ {"source"}]
    BY <1>2, <2>3 DEF SeedLab
  <2>4. QED
    BY <2>1, <2>2, <2>3 DEF EditSeedLab
<1>4. SeedRowsTyped' /\ SingleRows'
  BY <1>1, <1>3 DEF SeedInv, SeedTypeOK, SeedRowsTyped, SingleRows, Canonical, Legacy
<1>5. \A j \in RowIds : steps'[j] \in {steps[j], 0}
  BY <1>1
<1>6. QED
  BY <1>1, <1>4, <1>5, MeetsAsBefore, MeetingKeeps

LEMMA SeedLabGoesKeeps ==
    ASSUME SeedInv, SeedLabGoes
    PROVE  SeedInv'
<1>1. /\ AdminActs /\ seedLab' = NoSeedLab /\ UNCHANGED <<titled, projects, steps>>
      /\ seeder' = [x \in Seeders |-> IF seeder[x] = NoRun THEN NoRun
                      ELSE [[seeder[x] EXCEPT !.lab = FALSE] EXCEPT !.met = TRUE]]
  BY DEF SeedLabGoes, Meets
<1>2. ASSUME NEW x \in Seeders, seeder[x] # NoRun
      PROVE  /\ seeder'[x] \in SeedRun /\ seeder'[x].met
             /\ seeder'[x].at = seeder[x].at /\ seeder'[x].next = seeder[x].next
             /\ seeder'[x].project = seeder[x].project
             /\ seeder'[x].step = "none" => seeder[x].step = "none"
  <2>1. /\ seeder[x] \in SeedRun
        /\ seeder'[x] = [[seeder[x] EXCEPT !.lab = FALSE] EXCEPT !.met = TRUE]
    BY <1>1, <1>2 DEF SeedInv, SeedTypeOK
  <2>2. QED
    BY <2>1 DEF SeedRun
<1>3. AllMet
  BY <1>1, <1>2 DEF AllMet
<1>4. SeedRowsTyped' /\ SingleRows'
  BY <1>1 DEF SeedInv, SeedTypeOK, SeedRowsTyped, SingleRows, Canonical, Legacy
<1>5. \A j \in RowIds : steps'[j] \in {steps[j], 0}
  BY <1>1
<1>6. QED
  BY <1>1, <1>3, <1>4, <1>5, MeetingKeeps

-----------------------------------------------------------------------------
\* Every step keeps the invariant: those of a run by what it knows if nobody
\* met it, those of an administrator because every run has met them.
LEMMA SeedKept ==
    ASSUME SeedInv, [SeedNext]_seedVars
    PROVE  SeedInv'
<1>1. ASSUME NEW s \in Seeders, SeedStep(s) PROVE SeedInv'
  BY <1>1, UpsertCategoryKeeps, FindCanonicalKeeps, FindLegacyKeeps, UpsertProjectKeeps,
     UpsertLabKeeps, SeedPartKeeps, PartElsewhereKeeps, FindStepKeeps, WriteStepKeeps,
     UpsertPostKeeps
     DEF SeedStep, SeedSource, SeedTopology, SeedReferences, SeedScenarios, SeedLabRunbook
<1>2. ASSUME AdminStep PROVE SeedInv'
  BY <1>2, ChangeTitledKeeps, CategoryGoesKeeps, ChangeProjectKeeps, DeleteSeededKeeps,
     EditSeedLabKeeps, SeedLabGoesKeeps DEF AdminStep
<1>3. CASE UNCHANGED seedVars
  <2>1. /\ titled' = titled /\ projects' = projects /\ seedLab' = seedLab /\ steps' = steps
        /\ seeder' = seeder /\ adminActs' = adminActs /\ seedsMet' = seedsMet
    BY <1>3 DEF seedVars
  <2>2. SeedTypeOK' /\ SingleRows' /\ StepsAreSingle' /\ (seedsMet' \/ Serial')
    BY <2>1 DEF SeedInv, SeedTypeOK, SingleRows, StepsAreSingle, Serial, Running,
       Canonical, Legacy
  <2>3. ASSUME NEW s \in Seeders
        PROVE  /\ RunShape(seeder[s])' /\ (seeder'[s].met \/ AloneRun(seeder[s])')
               /\ seedsMet' \/ StepFree(seeder[s])'
    <3>1. PICK q : q = seeder[s]
      OBVIOUS
    <3>2. RunShape(q) /\ (q.met \/ AloneRun(q)) /\ (seedsMet \/ StepFree(q))
      BY <3>1 DEF SeedInv
    <3>3. /\ Baseline' = Baseline /\ Unmergeable' = Unmergeable /\ TitlesStand' = TitlesStand
          /\ Canonical' = Canonical /\ Legacy' = Legacy
      BY <2>1 DEF Baseline, Unmergeable, TitlesStand, Canonical, Legacy, Holders
    <3>4. Found(Canonical)' = Found(Canonical) /\ Found(Legacy)' = Found(Legacy)
      BY <3>3 DEF Found
    <3>5. AloneRun(q) => AloneRun(q)'
      BY <2>1, <3>3, <3>4 DEF AloneRun, LabWritten
    <3>6. RunShape(q)' /\ (StepFree(q) => StepFree(q)')
      BY <2>1, <3>2 DEF RunShape, StepFree
    <3>7. QED
      BY <2>1, <3>1, <3>2, <3>5, <3>6
  <2>4. QED
    BY <2>2, <2>3 DEF SeedInv
<1>4. QED
  BY <1>1, <1>2, <1>3, SeedBeginsKeeps, SeedDiesKeeps DEF SeedNext

LEMMA SeedInvariant == SeedSpec => []SeedInv
<1>1. SeedInit => SeedInv
  <2>1. SUFFICES ASSUME SeedInit PROVE SeedInv
    OBVIOUS
  <2>2. PICK old \in {"absent", "legacy"} :
           projects = [i \in RowIds |-> IF i = "made" THEN old ELSE "absent"]
    BY <2>1 DEF SeedInit
  <2>3. PICK n : n = Cardinality(Seeders)
    OBVIOUS
  <2>4. n \in Nat
    BY <2>3, SeedAssumption, FS_CardinalityType
  <2>5. steps \in [RowIds -> 0..n]
    BY <2>1, <2>4 DEF SeedInit
  <2>6. seeder \in [Seeders -> SeedRun] /\ \A s \in Seeders : seeder[s] = NoRun
    BY <2>1, NoRunIs DEF SeedInit
  <2>7. adminActs \in 0..ActsBound
    BY <2>1, SeedAssumption DEF SeedInit
  <2>8. SeedTypeOK
    BY <2>1, <2>2, <2>3, <2>5, <2>6, <2>7
       DEF SeedInit, SeedTypeOK, Tables, TitledRow, ProjectRows
  <2>9. SingleRows /\ StepsAreSingle /\ Serial
    BY <2>1, <2>2, <2>6, NoRunIs
       DEF SeedInit, SingleRows, StepsAreSingle, Serial, Running, Canonical, Legacy, HasSlug
  <2>10. QED
    BY <2>6, <2>8, <2>9, NoRunIs, NoRunIsAlone DEF SeedInv
<1>2. SeedInv /\ [SeedNext]_seedVars => SeedInv'
  BY SeedKept
<1>3. QED
  BY <1>1, <1>2, PTL DEF SeedSpec

-----------------------------------------------------------------------------
(***************************************************************************)
(* The baseline's rows and the runs of the seed keep their shape.          *)
(***************************************************************************)
THEOREM SeedTypeCorrect == SeedSpec => []SeedTypeOK
<1>1. SeedInv => SeedTypeOK
  BY DEF SeedInv
<1>2. QED
  BY <1>1, SeedInvariant, PTL

(***************************************************************************)
(* A run of the seed that was alone leaves the baseline, whatever earlier  *)
(* runs and administrators left, or gives up where it would have to merge  *)
(* rows; over the baseline it keeps it at every statement; and no step of  *)
(* a runbook is doubled unless runs overlapped.  For any number of runs.   *)
(***************************************************************************)
THEOREM SeedReconciles == SeedSpec => []SeedConverges
<1>1. SeedInv => SeedConverges
  <2>1. ASSUME SeedInv, NEW s \in Seeders, ~seeder[s].met PROVE AloneRun(seeder[s])
    BY <2>1 DEF SeedInv
  <2>2. SUFFICES ASSUME SeedInv PROVE SeedConverges
    OBVIOUS
  <2>3. RunsConverge /\ FailureIsRefusal /\ RerunKeepsBaseline
    BY <2>1, <2>2 DEF RunsConverge, FailureIsRefusal, RerunKeepsBaseline, SeedAt, AloneRun
  <2>4. QED
    BY <2>2, <2>3 DEF SeedConverges, SeedInv
<1>2. QED
  BY <1>1, SeedInvariant, PTL

-----------------------------------------------------------------------------
(***************************************************************************)
(* The components together, as they are model-checked.                     *)
(***************************************************************************)
\* A step of the composition is one of the component followed, and none of
\* the others.
LEMMA ContentSteps ==
    ASSUME [Next]_contentVars
    PROVE  /\ [DomainsNext]_domainsVars /\ [InputsNext]_inputVars
           /\ [TopologyNext]_topologyVars /\ [ExchangeNext]_exchangeVars
           /\ [SlugsNext]_slugVars /\ [SeedNext]_seedVars
BY DEF Next, contentVars

(***************************************************************************)
(* Whichever component its initial state picks, a behaviour of the         *)
(* composition is one of each component: what is proved of a component     *)
(* holds where they are checked together.                                  *)
(***************************************************************************)
THEOREM ContentIsItsComponents ==
    Spec => /\ DomainsSpec /\ InputsSpec /\ TopologySpec
            /\ ExchangeSpec /\ SlugsSpec /\ SeedSpec
<1>1. Init => /\ DomainsInit /\ InputsInit /\ TopologyInit
              /\ ExchangeInit /\ SlugsInit /\ SeedInit
  BY DEF Init
<1>2. QED
  BY <1>1, ContentSteps, PTL
     DEF Spec, DomainsSpec, InputsSpec, TopologySpec, ExchangeSpec, SlugsSpec, SeedSpec

(***************************************************************************)
(* Every component's state keeps its types where it is followed.           *)
(***************************************************************************)
THEOREM ContentTypeCorrect == Spec => []ContentTypeOK
<1>1. Spec => [](/\ DomainsTypeOK /\ InputsTypeOK /\ TopologyTypeOK
                 /\ ExchangeTypeOK /\ SlugsTypeOK /\ SeedTypeOK)
  BY ContentIsItsComponents, DomainsTypeCorrect, InputsTypeCorrect, TopologyTypeCorrect,
     ExchangeTypeCorrect, SlugsTypeCorrect, SeedTypeCorrect, PTL
<1>2. (/\ DomainsTypeOK /\ InputsTypeOK /\ TopologyTypeOK
       /\ ExchangeTypeOK /\ SlugsTypeOK /\ SeedTypeOK) => ContentTypeOK
  BY DEF ContentTypeOK
<1>3. QED
  BY <1>1, <1>2, PTL
=============================================================================
