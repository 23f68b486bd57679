----------------------------- MODULE LabTopology -----------------------------
(***************************************************************************)
(* The topology of one Lab.  replaceTopology is a transaction of deletes   *)
(* and inserts at READ COMMITTED: a delete collects the rows its statement *)
(* sees, waits for those other transactions have deleted, and takes what   *)
(* is left; an insert waits for rows of the same key.                      *)
(***************************************************************************)
EXTENDS FiniteSets

CONSTANTS
    Replacements,   \* requests to replace the topology, each made once
    Payload,        \* Payload[t]: the nodes and links request t asks for
    LinkEnds,       \* LinkEnds[k]: the node keys link key k joins
    Nobody

\* replaceTopology refuses a link to a node that is not in its request.
ASSUME TopologyAssumption ==
    /\ Nobody \notin Replacements
    /\ \A t \in Replacements :
          \A k \in Payload[t].links : LinkEnds[k] \subseteq Payload[t].nodes

VARIABLES
    topology,       \* the committed LabNode and LabLink rows
    replacing,      \* replacing[t]: how far transaction t is
    beside,         \* auxiliary: transactions that ran beside t, for each t
    last            \* auxiliary: the replacement that committed last

topologyVars == <<topology, replacing, beside, last>>

-----------------------------------------------------------------------------
\* A row belongs to the transaction that inserted it.
Node == [node: UNION {Payload[t].nodes : t \in Replacements}, by: Replacements]
Link == [link: UNION {Payload[t].links : t \in Replacements}, by: Replacements]
Row == Node \cup Link

NodeRowsOf(t) == {[node |-> k, by |-> t] : k \in Payload[t].nodes}
LinkRowsOf(t) == {[link |-> k, by |-> t] : k \in Payload[t].links}
Rows(t) == NodeRowsOf(t) \cup LinkRowsOf(t)

Steps == {"links", "delete links", "nodes", "delete nodes", "insert nodes",
          "insert links", "commit"}

\* seen: rows the running delete collected; dropped: rows deleted; kept: rows
\* inserted.
Transaction ==
    [at: {"unsent", "done"} \cup Steps, seen: SUBSET Row, dropped: SUBSET Row,
     kept: SUBSET Row]

TopologyTypeOK ==
    /\ topology \subseteq Row
    /\ replacing \in [Replacements -> Transaction]
    /\ beside \in [Replacements -> SUBSET Replacements]
    /\ last \in Replacements \cup {Nobody}

TopologyInit ==
    /\ topology = {}
    /\ replacing = [t \in Replacements |->
                      [at |-> "unsent", seen |-> {}, dropped |-> {}, kept |-> {}]]
    /\ beside = [t \in Replacements |-> {}]
    /\ last = Nobody

-----------------------------------------------------------------------------
At(t, step) == replacing[t].at = step

Open(t) == replacing[t].at \in Steps

\* Rows the other transactions have deleted and not committed.
LockedFor(t) == UNION {replacing[u].dropped : u \in {v \in Replacements \ {t} : Open(v)}}

Goes(t, transaction) ==
    /\ replacing' = [replacing EXCEPT ![t] = transaction]
    /\ UNCHANGED <<topology, beside, last>>

ReplaceBegins(t) ==
    /\ At(t, "unsent")
    /\ replacing' = [replacing EXCEPT ![t].at = "links"]
    /\ beside' = [u \in Replacements |->
                    IF u = t THEN {v \in Replacements : Open(v)}
                    ELSE IF Open(u) THEN beside[u] \cup {t} ELSE beside[u]]
    /\ UNCHANGED <<topology, last>>

\* The statement's snapshot.
CollectLinks(t) ==
    /\ At(t, "links")
    /\ Goes(t, [replacing[t] EXCEPT !.at = "delete links", !.seen = topology \cap Link])

\* Mutant: the links are left to the nodes' deletion.
DeleteNoLinks(t) ==
    /\ At(t, "delete links")
    /\ Goes(t, [replacing[t] EXCEPT !.at = "nodes", !.seen = {}])
DeleteLinks(t) ==
    LET r == replacing[t] IN
    /\ At(t, "delete links")
    /\ r.seen \cap LockedFor(t) = {}
    /\ Goes(t, [r EXCEPT !.at = "nodes", !.seen = {}, !.dropped = r.seen \cap topology])

CollectNodes(t) ==
    /\ At(t, "nodes")
    /\ Goes(t, [replacing[t] EXCEPT !.at = "delete nodes", !.seen = topology \cap Node])

DeleteNodes(t) ==
    LET r == replacing[t] IN
    /\ At(t, "delete nodes")
    /\ r.seen \cap LockedFor(t) = {}
    /\ Goes(t, [r EXCEPT !.at = "insert nodes", !.seen = {},
                         !.dropped = r.dropped \cup (r.seen \cap topology)])

\* Rows in the way of an insert: of an open transaction it is waited for; a
\* committed one fails the statement (see ReplaceFails).
Same(row, other) ==
    \/ row \in Node /\ other \in Node /\ row.node = other.node
    \/ row \in Link /\ other \in Link /\ row.link = other.link

InTheWay(t, rows) ==
    {other \in (topology \ replacing[t].dropped)
               \cup UNION {replacing[u].kept : u \in {v \in Replacements \ {t} : Open(v)}} :
        \E row \in rows : Same(row, other)}

InsertNodes(t) ==
    LET r == replacing[t] IN
    /\ At(t, "insert nodes")
    /\ InTheWay(t, NodeRowsOf(t)) = {}
    /\ Goes(t, [r EXCEPT !.at = "insert links", !.kept = NodeRowsOf(t)])

\* Mutant: the links replace the nodes just inserted.
InsertOnlyLinks(t) ==
    LET r == replacing[t] IN
    /\ At(t, "insert links")
    /\ InTheWay(t, LinkRowsOf(t)) = {}
    /\ Goes(t, [r EXCEPT !.at = "commit", !.kept = LinkRowsOf(t)])
InsertLinks(t) ==
    LET r == replacing[t] IN
    /\ At(t, "insert links")
    /\ InTheWay(t, LinkRowsOf(t)) = {}
    /\ Goes(t, [r EXCEPT !.at = "commit", !.kept = r.kept \cup LinkRowsOf(t)])

\* Mutant: what was deleted is forgotten, not the step.
EndedRetrying(t) == [at |-> "retry", seen |-> {}, dropped |-> {}, kept |-> {}]
Ended(t) == [at |-> "done", seen |-> {}, dropped |-> {}, kept |-> {}]

\* The Lab row's revision is raised, which waits for nobody but another
\* committing transaction.
ReplaceCommits(t) ==
    /\ At(t, "commit")
    /\ topology' = (topology \ replacing[t].dropped) \cup replacing[t].kept
    /\ replacing' = [replacing EXCEPT ![t] = Ended(t)]
    /\ last' = t
    /\ UNCHANGED <<beside>>

\* A unique index, a deadlock PostgreSQL breaks, the transaction's timeout.
ReplaceFails(t) ==
    /\ Open(t)
    /\ replacing' = [replacing EXCEPT ![t] = Ended(t)]
    /\ UNCHANGED <<topology, beside, last>>

-----------------------------------------------------------------------------
ReplaceStep(t) ==
    \/ CollectLinks(t) \/ DeleteLinks(t) \/ CollectNodes(t) \/ DeleteNodes(t)
    \/ InsertNodes(t) \/ InsertLinks(t) \/ ReplaceCommits(t) \/ ReplaceFails(t)

TopologyNext == \E t \in Replacements : ReplaceBegins(t) \/ ReplaceStep(t)

TopologySpec == TopologyInit /\ [][TopologyNext]_topologyVars

-----------------------------------------------------------------------------
\* The replacement that committed last stands in full, with nothing else if
\* no other ran beside it, whatever those before it left.
LastStands ==
    last # Nobody =>
        /\ Rows(last) \subseteq topology
        /\ beside[last] = {} => topology = Rows(last)

\* Links whose nodes are gone are left only by replacements that overlapped.
DanglingAfterOverlap ==
    \A row \in topology \cap Link :
        LinkEnds[row.link] \subseteq {node.node : node \in topology \cap Node}
            \/ beside[row.by] # {}

\* A replacement is all or nothing, and what overlapping ones leave behind is
\* the only way to a link without its nodes.
TopologyReplaced == LastStands /\ DanglingAfterOverlap
=============================================================================
