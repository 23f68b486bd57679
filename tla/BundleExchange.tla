--------------------------- MODULE BundleExchange ---------------------------
(***************************************************************************)
(* Labs carried from one installation to another as JSON: the export of a  *)
(* lab as a bundle or, for the networking desktop, as a companion manifest *)
(* of its primary input and topology; changes made to the file; the dry    *)
(* run that parses and validates it; and the rows the import inserts.      *)
(***************************************************************************)
EXTENDS Naturals, Sequences, FiniteSets, SequencesExt

CONSTANTS
    LabContents,    \* contents labs have (see LabContent)
    BundleKeys,
    PacketKey,      \* the key and type PACKET_TRACER an imported reference gets
    NodeKeys,
    LinkRows        \* links, records of key, from and to

ASSUME ExchangeAssumption == IsFiniteSet(BundleKeys) /\ PacketKey \in BundleKeys

VARIABLES
    exchange,       \* where the exchange is
    exported,       \* the content of the exported lab
    file,           \* the bundle, once exported
    edited,         \* auxiliary: whether the file is no longer the export
    result          \* the rows an import inserted

exchangeVars == <<exchange, exported, file, edited, result>>

-----------------------------------------------------------------------------
(***************************************************************************)
(* A lab's content, as far as export, import and readiness look at it.     *)
(***************************************************************************)
Sources == {"INLINE", "EXTERNAL", "ARTIFACT_REFERENCE"}

\* What assertions on a lab's enabled scenario say: its actions verify.
Scenarios == {"none", "sound", "unsound", "disabled"}

\* Evidence and the artifact behind it.
Evidences == {"public", "public of private", "hidden"}

LabContent ==
    [inputs: [BundleKeys -> {"none"} \cup Sources], primary: SUBSET BundleKeys,
     nodes: SUBSET NodeKeys, links: SUBSET LinkRows, runbook: SUBSET (Nat \ {0}),
     scenario: Scenarios, evidence: SUBSET Evidences]

\* Rows of a database: finitely many, the keys of a lab's links unique.
ASSUME ContentsAssumption ==
    \A c \in LabContents :
        /\ c \in LabContent
        /\ \A k \in c.primary : c.inputs[k] # "none"
        /\ IsFiniteSet(c.nodes) /\ IsFiniteSet(c.links) /\ IsFiniteSet(c.runbook)
        /\ \A a, b \in c.links : a.key = b.key => a = b

\* validateLabAggregate finds no error: the lab may become READY.
Fit(c) ==
    /\ Cardinality(c.primary) = 1
    /\ \A row \in c.links : {row.from, row.to} \subseteq c.nodes /\ row.from # row.to
    /\ c.scenario # "unsound"
    /\ "public of private" \notin c.evidence

-----------------------------------------------------------------------------
(***************************************************************************)
(* The file.  Lists may repeat a key once they are edited.                 *)
(***************************************************************************)
FileInput(c, k) ==
    [key |-> k, source |-> c.inputs[k], payload |-> c.inputs[k] = "INLINE",
     url |-> c.inputs[k] = "EXTERNAL", artifact |-> c.inputs[k] = "ARTIFACT_REFERENCE",
     primary |-> k \in c.primary]

\* labBundleFromAggregate.
\* Mutant: without the evidence.
BundleBare(c) ==
    [schema |-> "bundle",
     inputs |-> SetToSeq({FileInput(c, k) : k \in {j \in BundleKeys : c.inputs[j] # "none"}}),
     nodes |-> SetToSeq(c.nodes), links |-> SetToSeq(c.links),
     runbook |-> SetToSeq(c.runbook), scenario |-> c.scenario, evidence |-> {},
     packet |-> FALSE]
Bundle(c) ==
    [schema |-> "bundle",
     inputs |-> SetToSeq({FileInput(c, k) : k \in {j \in BundleKeys : c.inputs[j] # "none"}}),
     nodes |-> SetToSeq(c.nodes), links |-> SetToSeq(c.links),
     runbook |-> SetToSeq(c.runbook), scenario |-> c.scenario, evidence |-> c.evidence,
     packet |-> FALSE]

\* exportNetworkingCompanion: the first primary input and the topology, with
\* the packet reference if an input of that type has one inline.
Companion(c, k) ==
    [Bundle(c) EXCEPT !.schema = "companion", !.inputs = <<FileInput(c, k)>>,
                      !.runbook = <<>>, !.scenario = "none", !.evidence = {},
                      !.packet = c.inputs[PacketKey] = "INLINE"]

Distinct(s) == \A i, j \in DOMAIN s : s[i] = s[j] => i = j

KeysOf(s) == [i \in DOMAIN s |-> s[i].key]

\* parseLabBundle: the fields an input's source excludes or needs.
\* Mutant: whatever is not inline needs an address.
SourceNeedsUrl(input) ==
    /\ input.payload = (input.source = "INLINE")
    /\ ~input.payload => input.url
SourceParses(input) ==
    /\ input.payload = (input.source = "INLINE")
    /\ input.source = "INLINE" => ~input.url /\ ~input.artifact
    /\ input.source = "EXTERNAL" => input.url /\ ~input.artifact
    /\ input.source = "ARTIFACT_REFERENCE" => input.artifact /\ ~input.url

\* validateLabBehavior: its checks, and what has to be there once.
\* Mutant: one or more.
SomePrimary(f) == \E i \in DOMAIN f.inputs : f.inputs[i].primary
ExactlyOnePrimary(f) == Cardinality({i \in DOMAIN f.inputs : f.inputs[i].primary}) = 1

\* Mutant: the order of runbook steps is not looked at.
UniqueKeys(f) ==
    Distinct(KeysOf(f.inputs)) /\ Distinct(f.nodes) /\ Distinct(KeysOf(f.links))
NoDuplicates(f) ==
    /\ Distinct(KeysOf(f.inputs)) /\ Distinct(f.nodes) /\ Distinct(KeysOf(f.links))
    /\ Distinct(f.runbook)

\* Mutant: steps count from 0.
StepsFromZero(f) == \A i \in DOMAIN f.runbook : f.runbook[i] >= 0
StepsFromOne(f) == \A i \in DOMAIN f.runbook : f.runbook[i] >= 1

Valid(f) ==
    /\ \A i \in DOMAIN f.inputs : SourceParses(f.inputs[i])
    /\ ExactlyOnePrimary(f) /\ NoDuplicates(f) /\ StepsFromOne(f)
    /\ \A i \in DOMAIN f.links :
          /\ {f.links[i].from, f.links[i].to} \subseteq ToSet(f.nodes)
          /\ f.links[i].from # f.links[i].to
    /\ f.scenario # "unsound"

\* importNetworkingCompanion adds the reference as an input of its own.
PacketInput ==
    [key |-> PacketKey, source |-> "INLINE", payload |-> TRUE, url |-> FALSE,
     artifact |-> FALSE, primary |-> FALSE]

InsertedInputs(f) == IF f.packet THEN Append(f.inputs, PacketInput) ELSE f.inputs

\* The unique indexes createLabBundleRows meets.
Insertable(f) ==
    /\ Distinct(KeysOf(InsertedInputs(f)))
    /\ Distinct(f.nodes) /\ Distinct(KeysOf(f.links)) /\ Distinct(f.runbook)

\* createLabBundleRows.
Inserted(f) ==
    LET rows == InsertedInputs(f)
        Of(k) == {i \in DOMAIN rows : rows[i].key = k}
    IN  [inputs |-> [k \in BundleKeys |->
                       IF Of(k) = {} THEN "none" ELSE rows[CHOOSE i \in Of(k) : TRUE].source],
         primary |-> {rows[i].key : i \in {j \in DOMAIN rows : rows[j].primary}},
         nodes |-> ToSet(f.nodes), links |-> ToSet(f.links), runbook |-> ToSet(f.runbook),
         scenario |-> f.scenario, evidence |-> f.evidence]

-----------------------------------------------------------------------------
NoFile == [schema |-> "none"]
NoRows == [inputs |-> "none"]

ExchangeInit ==
    /\ exchange = "home"
    /\ exported \in LabContents
    /\ file = NoFile
    /\ edited = FALSE
    /\ result = NoRows

ExportBundle ==
    /\ exchange = "home"
    /\ exchange' = "file"
    /\ file' = Bundle(exported)
    /\ UNCHANGED <<exported, edited, result>>

ExportCompanion ==
    /\ exchange = "home"
    /\ exported.primary # {}
    /\ \E k \in exported.primary : file' = Companion(exported, k)
    /\ exchange' = "file"
    /\ UNCHANGED <<exported, edited, result>>

\* Bound: one change to the file.
Edits(f) ==
    {[f EXCEPT !.inputs = Append(@, @[i])] : i \in DOMAIN f.inputs}
    \cup {[f EXCEPT !.inputs[i].primary = ~@] : i \in DOMAIN f.inputs}
    \cup {[f EXCEPT !.inputs[i].payload = ~@] : i \in DOMAIN f.inputs}
    \cup {[f EXCEPT !.inputs[i].artifact = ~@] : i \in DOMAIN f.inputs}
    \cup {[f EXCEPT !.nodes = Append(@, @[i])] : i \in DOMAIN f.nodes}
    \cup {[f EXCEPT !.nodes = Tail(@)] : i \in DOMAIN f.nodes}
    \cup {[f EXCEPT !.links = Append(@, @[i])] : i \in DOMAIN f.links}
    \cup {[f EXCEPT !.runbook = Append(@, n)] : n \in 0..1}
    \cup {[f EXCEPT !.packet = f.schema = "companion"]}

EditFile ==
    /\ exchange = "file"
    /\ ~edited
    /\ file' \in Edits(file)
    /\ edited' = TRUE
    /\ UNCHANGED <<exchange, exported, result>>

DryRun ==
    /\ exchange = "file"
    /\ exchange' = IF Valid(file) THEN "accepted" ELSE "refused"
    /\ UNCHANGED <<exported, file, edited, result>>

Import ==
    /\ exchange = "accepted"
    /\ \/ Insertable(file) /\ exchange' = "imported" /\ result' = Inserted(file)
       \/ ~Insertable(file) /\ exchange' = "failed" /\ UNCHANGED result
    /\ UNCHANGED <<exported, file, edited>>

ExchangeNext == ExportBundle \/ ExportCompanion \/ EditFile \/ DryRun \/ Import

ExchangeSpec == ExchangeInit /\ [][ExchangeNext]_exchangeVars

-----------------------------------------------------------------------------
(***************************************************************************)
(* Properties.                                                             *)
(***************************************************************************)
ExchangeTypeOK ==
    /\ exchange \in {"home", "file", "accepted", "refused", "imported", "failed"}
    /\ exported \in LabContent
    /\ edited \in BOOLEAN
    /\ result \in LabContent \cup {NoRows}

\* A lab that may become READY is accepted elsewhere as it was exported.
FitTravels == exchange = "refused" /\ ~edited => ~Fit(exported)

\* A lab bundle arrives as it left.
RoundTrip ==
    exchange = "imported" /\ ~edited /\ file.schema = "bundle" => result = exported

\* The dry run foretells the import: what it accepts meets no unique index,
\* but for a companion whose input is itself keyed as the packet reference.
AcceptedInserts ==
    exchange = "failed" =>
        /\ file.schema = "companion" /\ file.packet
        /\ \E i \in DOMAIN file.inputs : file.inputs[i].key = PacketKey

\* What an import inserts, edited file or not, may become READY, unless it
\* publishes evidence of a private artifact.
ImportedFit ==
    exchange = "imported" => Fit(result) \/ "public of private" \in result.evidence

\* Export, parser and import, written apart, agree: what readiness accepts
\* travels and arrives unchanged, and what the dry run accepts is inserted and
\* may become READY.
ExchangeSound == FitTravels /\ RoundTrip /\ AcceptedInserts /\ ImportedFit
=============================================================================
