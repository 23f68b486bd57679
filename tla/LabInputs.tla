------------------------------ MODULE LabInputs ------------------------------
(***************************************************************************)
(* The inputs of one Lab, of which one may be primary.  createInput and    *)
(* updateInput compare with the aggregate they read before; the payload of *)
(* an older client is written in the project's own transaction.            *)
(***************************************************************************)
CONSTANTS
    InputKeys,      \* labId and inputKey are unique
    BaselineKey,    \* the key ensureCompatibilityInput writes
    InputWriters    \* slots for concurrent requests on inputs

ASSUME InputsAssumption == BaselineKey \in InputKeys

VARIABLES
    inputs,         \* inputs[k]: "none", "other" or "primary"
    inputWriter,    \* inputWriter[w]: a request on an input
    inputRaced      \* auxiliary: an input was written over a stale read

inputVars == <<inputs, inputWriter, inputRaced>>

-----------------------------------------------------------------------------
InputStates == {"none", "other", "primary"}

NoWriter == [op |-> "idle"]

\* changed: another request wrote an input since the aggregate was read.
InputWriter ==
    [op: {"write"}, key: InputKeys, from: InputStates, to: {"other", "primary"},
     changed: BOOLEAN]

InputsTypeOK ==
    /\ inputs \in [InputKeys -> InputStates]
    /\ inputWriter \in [InputWriters -> {NoWriter} \cup InputWriter]
    /\ inputRaced \in BOOLEAN

InputsInit ==
    /\ inputs = [k \in InputKeys |-> "none"]
    /\ inputWriter = [w \in InputWriters |-> NoWriter]
    /\ inputRaced = FALSE

-----------------------------------------------------------------------------
\* Mutant: only the input's own state counts.
NotPrimary(k) == inputs[k] # "primary"
NoOtherPrimary(k) == \A j \in InputKeys \ {k} : inputs[j] # "primary"

\* createInput (from "none") and updateInput: the checks on what was read.
InputChecked(w, k, to) ==
    /\ inputWriter[w] = NoWriter
    /\ to = "primary" => NoOtherPrimary(k)
    /\ inputWriter' = [inputWriter EXCEPT ![w] =
          [op |-> "write", key |-> k, from |-> inputs[k], to |-> to, changed |-> FALSE]]
    /\ UNCHANGED <<inputs, inputRaced>>

\* A write answers the requests in these slots and changes what the others
\* in progress have read.
Changing(slots) ==
    [v \in InputWriters |->
        IF v \in slots \/ inputWriter[v] = NoWriter THEN NoWriter
        ELSE [inputWriter[v] EXCEPT !.changed = TRUE]]

\* The unique index refuses a key created meanwhile; a row that is gone is
\* not found.
InputWritten(w) ==
    LET r == inputWriter[w] IN
    /\ r # NoWriter
    /\ \/ r.from = "none" /\ inputs[r.key] = "none"
       \/ r.from # "none" /\ inputs[r.key] # "none"
    /\ inputs' = [inputs EXCEPT ![r.key] = r.to]
    /\ inputWriter' = Changing({w})
    /\ inputRaced' = (inputRaced \/ r.changed)

InputRefused(w) ==
    /\ inputWriter[w] # NoWriter
    /\ inputWriter' = [inputWriter EXCEPT ![w] = NoWriter]
    /\ UNCHANGED <<inputs, inputRaced>>

\* Mutant: a deleted row answers as it was.
InputVoided(k) ==
    /\ inputs[k] # "none"
    /\ inputs' = [inputs EXCEPT ![k] = "gone"]
    /\ inputWriter' = Changing({})
    /\ UNCHANGED inputRaced
InputDeleted(k) ==
    /\ inputs[k] # "none"
    /\ inputs' = [inputs EXCEPT ![k] = "none"]
    /\ inputWriter' = Changing({})
    /\ UNCHANGED inputRaced

\* ensureCompatibilityInput: the baseline input becomes primary whichever
\* other input is.
BaselineWritten ==
    /\ inputs' = [inputs EXCEPT ![BaselineKey] = "primary"]
    /\ inputWriter' = Changing({})
    /\ inputRaced' = (inputRaced \/ ~NoOtherPrimary(BaselineKey))

-----------------------------------------------------------------------------
InputsNext ==
    \/ \E w \in InputWriters :
          \/ \E k \in InputKeys, to \in {"other", "primary"} : InputChecked(w, k, to)
          \/ InputWritten(w) \/ InputRefused(w)
    \/ \E k \in InputKeys : InputDeleted(k)
    \/ BaselineWritten

InputsSpec == InputsInit /\ [][InputsNext]_inputVars

-----------------------------------------------------------------------------
\* A lab has at most one primary input unless a write relied on a stale read
\* or an older client's payload was added beside another primary input.
OnePrimary ==
    inputRaced \/ \A j, k \in InputKeys : inputs[j] = "primary" /\ inputs[k] = "primary" => j = k
=============================================================================
