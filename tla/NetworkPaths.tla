----------------------------- MODULE NetworkPaths -----------------------------
(***************************************************************************)
(* Reachability and forwarding analysis over the recorded state of a       *)
(* networking Lab: NetworkingService.tracePath and                         *)
(* NetworkingOperationsService.analyzePath, lookupRoute and assessAcl.  An *)
(* analysis reads the state, searches it in one go, and then reads it once *)
(* more for the route: the recorded state may have changed in between.     *)
(***************************************************************************)
EXTENDS Integers, Sequences, FiniteSets, FiniteSetsExt

CONSTANTS
    PathDevices, PathLinks,     \* keys: positive numbers, in the order of their names
    From, To,           \* the devices link k joins
    Routers,            \* routers and multilayer switches
    Bits,               \* width of an address
    Address,            \* Address[d]: what is recorded as d's address
    NoAddress, Malformed,
    Recorded            \* the recorded states the Lab goes through

Nowhere == 0

\* A recorded state: which devices, links and link ends are up, the route table
\* (device Nowhere: of no device in particular) and the ACL rules (link
\* Nowhere: bound to no interface).
Route == [network: 0..(2 ^ Bits - 1), length: 0..Bits, distance: Nat,
          device: PathDevices \cup {Nowhere}]
Rule == [device: PathDevices \cup {Nowhere}, link: PathLinks \cup {Nowhere},
         direction: {"IN", "OUT", "UNKNOWN"}, sequence: Nat,
         action: {"permit", "deny"}, matches: BOOLEAN]

ASSUME PathsAssumption ==
    /\ PathDevices \subseteq Nat \ {Nowhere} /\ PathDevices # {}
    /\ PathLinks \subseteq Nat \ {Nowhere}
    /\ IsFiniteSet(PathDevices) /\ IsFiniteSet(PathLinks)
    /\ From \in [PathLinks -> PathDevices] /\ To \in [PathLinks -> PathDevices]
    /\ Routers \subseteq PathDevices
    /\ Bits \in Nat \ {0}
    /\ Address \in [PathDevices -> 0..(2 ^ Bits - 1) \cup {NoAddress, Malformed}]
    /\ \A r \in Recorded :
          /\ r.up \subseteq PathDevices /\ r.links \subseteq PathLinks
          /\ r.ends \subseteq PathLinks \X PathDevices
          /\ r.routes \in Seq(Route) /\ r.rules \in Seq(Rule)

\* Powers of two are positive numbers: a fact of arithmetic the provers lack.
ASSUME PowersAssumption == \A n \in 0..Bits : 2 ^ n \in Nat \ {0}

VARIABLES
    recorded,   \* the state a read would return now, or "gone"
    request,    \* what is asked: kind, source, target
    phase,
    read,       \* what the first read returned
    queue, previous,    \* the search: devices to visit, and how each was found
    hops, traversed,      \* the path found, from `cursor` to the target
    cursor,
    blockers, answer,
    reread      \* auxiliary: the state changed between the two reads

searchVars == <<queue, previous, hops, traversed, cursor>>
pathsVars == <<recorded, request, phase, read, searchVars, blockers, answer, reread>>

Gone == [gone |-> TRUE]
Phases == {"idle", "search", "raw", "unwind", "unwind raw", "lookup", "answered"}
Statuses == {"PATH_FOUND", "UNREACHABLE", "BLOCKED", "INDETERMINATE",
             "FORWARDABLE", "not found", "invalid"}
NoRoute == [index |-> 0]
NoAnswer == [status |-> "none"]

\* Type correctness.
PathsTypeOK ==
    /\ recorded \in Recorded \cup {Gone}
    /\ request \in [kind: {"trace", "analyze"}, source: PathDevices, target: PathDevices]
    /\ phase \in Phases
    /\ read \in Recorded
    /\ queue \in Seq(PathDevices)
    /\ DOMAIN previous \subseteq PathDevices
    /\ \A d \in DOMAIN previous :
          previous[d] \in [device: PathDevices \cup {Nowhere}, link: PathLinks \cup {Nowhere}]
    /\ hops \in Seq(PathDevices) /\ traversed \in Seq(PathLinks)
    /\ cursor \in PathDevices \cup {Nowhere}
    /\ blockers \subseteq {"DEVICE_DOWN", "LINK_DOWN", "INTERFACE_DOWN",
                           "ROUTE_DATA_INCOMPLETE"}
    /\ answer # NoAnswer => answer.status \in Statuses
    /\ reread \in BOOLEAN

FirstRequest ==
    [kind |-> "trace", source |-> Min(PathDevices), target |-> Min(PathDevices)]

PathsInit ==
    /\ recorded \in Recorded
    /\ request = FirstRequest
    /\ phase = "idle"
    /\ read = recorded
    /\ queue = <<>> /\ previous = <<>>
    /\ hops = <<>> /\ traversed = <<>> /\ cursor = Nowhere
    /\ blockers = {} /\ answer = NoAnswer
    /\ reread = FALSE

-----------------------------------------------------------------------------
\* The links an operational path may cross: up, between devices that are up,
\* with neither end's interface down.
UsableLinks(r) ==
    {k \in r.links : /\ {From[k], To[k]} \subseteq r.up
                     /\ \A d \in {From[k], To[k]} : <<k, d>> \in r.ends}

Joins(k, d, e) == {From[k], To[k]} = {d, e}
Neighbours(links, d) == {e \in PathDevices : \E k \in links : Joins(k, d, e)}
FirstLink(links, d, e) == Min({k \in links : Joins(k, d, e)})

\* One turn of the breadth-first loop: the neighbours not met yet, in order.
\* Mutant: only the first of them.
FirstUnmet(links, d) ==
    LET unmet == Neighbours(links, d) \ DOMAIN previous
    IN  {e \in unmet : \A f \in unmet : e <= f}
Unmet(links, d) == Neighbours(links, d) \ DOMAIN previous

\* A set of devices, listed by name.
InOrder(S) ==
    CHOOSE s \in [1..Cardinality(S) -> S] :
        \A i, j \in 1..Cardinality(S) : i < j => s[i] < s[j]

VisitOver(links) ==
    LET d == Head(queue)
        found == Unmet(links, d)
    IN  /\ queue' = Tail(queue) \o InOrder(found)
        /\ previous' = [e \in DOMAIN previous \cup found |->
                          IF e \in found
                          THEN [device |-> d, link |-> FirstLink(links, d, e)]
                          ELSE previous[e]]

Met == request.target \in DOMAIN previous

-----------------------------------------------------------------------------
\* getPublic, and what is decided before the search.
StartsAt(s) ==
    /\ queue' = <<s>>
    /\ previous' = [e \in {s} |-> [device |-> Nowhere, link |-> Nowhere]]

Trace ==
    /\ phase = "idle"
    /\ recorded # Gone
    /\ read' = recorded
    /\ \E s, t \in PathDevices :
          /\ request' = [kind |-> "trace", source |-> s, target |-> t]
          /\ \/ /\ {s, t} \subseteq recorded.up
                /\ s # t
                /\ StartsAt(s)
                /\ phase' = "search"
                /\ UNCHANGED answer
             \/ /\ ~({s, t} \subseteq recorded.up)
                /\ answer' = [status |-> "UNREACHABLE", hops |-> <<>>]
                /\ phase' = "answered"
                /\ UNCHANGED <<queue, previous>>
             \/ /\ s = t /\ s \in recorded.up
                /\ answer' = [status |-> "PATH_FOUND", hops |-> <<s>>]
                /\ phase' = "answered"
                /\ UNCHANGED <<queue, previous>>
    /\ reread' = FALSE
    /\ UNCHANGED <<recorded, hops, traversed, cursor, blockers>>

Analyze ==
    /\ phase = "idle"
    /\ recorded # Gone
    /\ read' = recorded
    /\ \E s, t \in PathDevices :
          /\ request' = [kind |-> "analyze", source |-> s, target |-> t]
          /\ \/ {s, t} \subseteq recorded.up /\ StartsAt(s) /\ blockers' = {}
             \/ /\ ~({s, t} \subseteq recorded.up)
                /\ blockers' = {"DEVICE_DOWN"}
                /\ UNCHANGED <<queue, previous>>
    /\ phase' = "search"
    /\ reread' = FALSE
    /\ UNCHANGED <<recorded, hops, traversed, cursor, answer>>

AnalysisAnswered(a) ==
    /\ answer' = a
    /\ phase' = "answered"
    /\ UNCHANGED <<recorded, request, read, reread>>

Visit ==
    /\ phase \in {"search", "raw"}
    /\ ~Met
    /\ queue # <<>>
    /\ VisitOver(IF phase = "search" THEN UsableLinks(read) ELSE PathLinks)
    /\ UNCHANGED <<recorded, request, phase, read, hops, traversed, cursor,
                   blockers, answer, reread>>

PathFound ==
    /\ phase \in {"search", "raw"}
    /\ Met
    /\ phase' = IF phase = "search" THEN "unwind" ELSE "unwind raw"
    /\ cursor' = request.target
    /\ UNCHANGED <<recorded, request, read, queue, previous, hops, traversed,
                   blockers, answer, reread>>

\* No operational path: the analysis looks for one that ignores the statuses.
Exhausted ==
    /\ phase \in {"search", "raw"}
    /\ ~Met
    /\ queue = <<>>
    /\ \/ /\ request.kind = "analyze" /\ phase = "search"
          /\ StartsAt(request.source)
          /\ phase' = "raw"
          /\ UNCHANGED <<recorded, request, read, answer, reread>>
       \/ /\ request.kind = "trace" \/ phase = "raw"
          /\ AnalysisAnswered([status |-> "UNREACHABLE", hops |-> <<>>])
          /\ UNCHANGED <<queue, previous>>
    /\ UNCHANGED <<hops, traversed, cursor, blockers>>

\* while (cursor): the path is put together from its end.
Unwind ==
    /\ phase \in {"unwind", "unwind raw"}
    /\ cursor # Nowhere
    /\ LET entry == previous[cursor]
       IN  /\ hops' = <<cursor>> \o hops
           /\ traversed' = (IF entry.link = Nowhere THEN <<>> ELSE <<entry.link>>)
                           \o traversed
           /\ cursor' = entry.device
    /\ UNCHANGED <<recorded, request, phase, read, queue, previous, blockers,
                   answer, reread>>

-----------------------------------------------------------------------------
\* What stands in the way on the path that ignores the statuses.
\* Mutant: devices that are down are not named.
LinksOnly(r) ==
    (IF \E k \in Range(traversed) : k \notin r.links THEN {"LINK_DOWN"} ELSE {})
BlockersOn(r) ==
    (IF \E k \in Range(traversed) : k \notin r.links THEN {"LINK_DOWN"} ELSE {})
      \cup (IF \E k \in Range(traversed) : ~({From[k], To[k]} \subseteq r.up)
            THEN {"DEVICE_DOWN"} ELSE {})
      \cup (IF \E k \in Range(traversed) :
                  \E d \in {From[k], To[k]} : <<k, d>> \notin r.ends
            THEN {"INTERFACE_DOWN"} ELSE {})

Blocked ==
    /\ phase = "unwind raw"
    /\ cursor = Nowhere
    /\ blockers' = blockers \cup BlockersOn(read)
    /\ AnalysisAnswered([status |-> "BLOCKED", hops |-> hops, denied |-> FALSE,
                 route |-> NoRoute])
    /\ UNCHANGED searchVars

Traced ==
    /\ phase = "unwind"
    /\ cursor = Nowhere
    /\ request.kind = "trace"
    /\ AnalysisAnswered([status |-> "PATH_FOUND", hops |-> hops])
    /\ UNCHANGED <<searchVars, blockers>>

-----------------------------------------------------------------------------
\* Longest prefix match.  A shift by the whole width leaves a number as it is,
\* so the mask of a default route is a case of its own.
\* Mutant: it is not.
PrefixShifted(a, n) ==
    LET unit == 2 ^ ((Bits - n) % Bits) IN (a \div unit) * unit
PrefixOf(a, n) ==
    IF n = 0 THEN 0 ELSE LET unit == 2 ^ (Bits - n) IN (a \div unit) * unit

Scoped(r, d) == {i \in DOMAIN r.routes : r.routes[i].device \in {d, Nowhere}}
Candidates(r, d, a) ==
    {i \in Scoped(r, d) :
        PrefixOf(a, r.routes[i].length) = PrefixOf(r.routes[i].network, r.routes[i].length)}
\* The order of the sort: length, then distance, then the table's own.
Better(x, y) ==
    \/ x.length > y.length
    \/ x.length = y.length /\ x.distance < y.distance
Selected(r, d, a) ==
    LET c == Candidates(r, d, a)
    IN  IF c = {} THEN NoRoute
        ELSE [index |-> Min({i \in c : \A j \in c :
                                ~Better(r.routes[j], r.routes[i])})]

\* The first rule on the path that applies: by sequence, then as recorded.  IN
\* is the interface the path comes in by at the rule's device, OUT the one it
\* leaves by; there is none before the source or after the target.
Position(d) == CHOOSE i \in DOMAIN hops : hops[i] = d
OnInterface(rule) ==
    LET i == Position(rule.device)
    IN  \/ rule.link = Nowhere \/ rule.direction = "UNKNOWN"
        \/ /\ rule.direction = "OUT"
           /\ i \in DOMAIN traversed /\ traversed[i] = rule.link
        \/ /\ rule.direction = "IN"
           /\ i - 1 \in DOMAIN traversed /\ traversed[i - 1] = rule.link
Applies(rule) ==
    rule.device \in Range(hops) /\ rule.matches /\ OnInterface(rule)
Denied(r) ==
    /\ \A d \in {request.source, request.target} :
          Address[d] \notin {NoAddress, Malformed}
    /\ \E i \in DOMAIN r.rules :
          /\ Applies(r.rules[i])
          /\ r.rules[i].action = "deny"
          /\ \A j \in DOMAIN r.rules :
                Applies(r.rules[j]) =>
                   \/ r.rules[i].sequence < r.rules[j].sequence
                   \/ r.rules[i].sequence = r.rules[j].sequence /\ i <= j

\* Mutant: the ACL's word for it.
VerdictDenied(blocked, denied, route) ==
    [status |-> IF denied THEN "DENIED"
                ELSE IF blocked = {} THEN "FORWARDABLE" ELSE "INDETERMINATE",
     hops |-> hops, denied |-> denied, route |-> route]
Verdict(blocked, denied, route) ==
    [status |-> IF denied THEN "BLOCKED"
                ELSE IF blocked = {} THEN "FORWARDABLE" ELSE "INDETERMINATE",
     hops |-> hops, denied |-> denied, route |-> route]

\* The route is looked up from the first router of the path, if there is one.
FirstRouter ==
    IF \E i \in DOMAIN hops : hops[i] \in Routers
    THEN hops[Min({i \in DOMAIN hops : hops[i] \in Routers})] ELSE Nowhere
LooksUp ==
    /\ Address[request.target] # NoAddress
    /\ FirstRouter # Nowhere
    /\ read.routes # <<>>

PathAnalyzed ==
    /\ phase = "unwind"
    /\ cursor = Nowhere
    /\ request.kind = "analyze"
    /\ \/ /\ LooksUp
          /\ phase' = "lookup"
          /\ UNCHANGED <<recorded, request, read, answer, reread>>
       \/ /\ ~LooksUp
          /\ AnalysisAnswered(Verdict(blockers, Denied(read), NoRoute))
    /\ UNCHANGED <<searchVars, blockers>>

\* lookupRoute reads the Lab anew; whether its answer is held against the path
\* is decided by the routes of the first read.
Lookup ==
    /\ phase = "lookup"
    /\ \/ /\ recorded = Gone
          /\ AnalysisAnswered([status |-> "not found", hops |-> <<>>])
          /\ UNCHANGED blockers
       \/ /\ recorded # Gone
          /\ Address[request.target] = Malformed
          /\ AnalysisAnswered([status |-> "invalid", hops |-> <<>>])
          /\ UNCHANGED blockers
       \/ /\ recorded # Gone
          /\ Address[request.target] # Malformed
          /\ LET route == Selected(recorded, FirstRouter, Address[request.target])
                 missing == IF route = NoRoute /\ Scoped(read, FirstRouter) # {}
                            THEN {"ROUTE_DATA_INCOMPLETE"} ELSE {}
             IN  /\ blockers' = blockers \cup missing
                 /\ AnalysisAnswered(Verdict(blockers \cup missing, Denied(read), route))
    /\ UNCHANGED searchVars

\* A scenario, an edit or an archive changes what reads return while an
\* analysis waits for its second read.  Bound: not between two requests, each
\* of which starts anew; the first may find any recorded state.
Edit ==
    /\ phase = "lookup"
    /\ recorded' \in (Recorded \cup {Gone}) \ {recorded}
    /\ reread' = TRUE
    /\ UNCHANGED <<request, phase, read, searchVars, blockers, answer>>

Rest ==
    /\ phase = "answered"
    /\ phase' = "idle"
    /\ queue' = <<>> /\ previous' = <<>>
    /\ hops' = <<>> /\ traversed' = <<>> /\ cursor' = Nowhere
    /\ blockers' = {} /\ answer' = NoAnswer
    /\ reread' = FALSE
    /\ recorded' = IF recorded = Gone THEN read ELSE recorded
    /\ read' = recorded'
    /\ request' = FirstRequest

SearchStep == Visit \/ PathFound \/ Exhausted \/ Unwind \/ Blocked \/ Traced
                \/ PathAnalyzed \/ Lookup
PathsNext == Trace \/ Analyze \/ SearchStep \/ Edit \/ Rest

PathsSpec == PathsInit /\ [][PathsNext]_pathsVars

-----------------------------------------------------------------------------
\* Reference definitions.  Two devices are connected over `links` when every
\* set of devices closed under them that holds the one holds the other.
Connected(links, s, t) ==
    \A region \in SUBSET PathDevices :
       s \in region /\ (\A d \in region : Neighbours(links, d) \subseteq region)
          => t \in region
Operational == LET up == {request.source, request.target} \subseteq read.up
               IN  up /\ Connected(UsableLinks(read), request.source, request.target)
\* An address is in a prefix when it is in the prefix's range.
InRange(a, route) ==
    LET size == 2 ^ (Bits - route.length)
        first == route.network - (route.network % size)
    IN  first <= a /\ a < first + size
Walks(n) == [1..n -> PathDevices]

\* A trace finds a path exactly when there is an operational one.  An analysis
\* forwards, or leaves it to an ACL or to route data, exactly then; it says
\* BLOCKED for state when there is a path that only the state closes, and
\* UNREACHABLE when there is none (tracePath, analyzePath).
AnswersReachability ==
    phase = "answered" /\ answer.status \notin {"not found", "invalid"} =>
       IF request.kind = "trace"
       THEN answer.status = "PATH_FOUND" <=> Operational
       ELSE LET joined == Connected(PathLinks, request.source, request.target)
            IN  /\ answer.status = "UNREACHABLE" <=> ~joined
                /\ Operational => answer.status # "BLOCKED" \/ answer.denied
                /\ answer.status \in {"FORWARDABLE", "INDETERMINATE"} => Operational

\* The path of an answer goes from the source to the target along links, over
\* usable ones unless the answer is BLOCKED, and no walk is shorter.
PathIsShortest ==
    phase = "answered" /\ answer.hops # <<>> =>
       LET links == IF answer.status = "BLOCKED" /\ ~answer.denied THEN PathLinks
                    ELSE UsableLinks(read)
           Goes(w) == /\ w[1] = request.source /\ w[Len(w)] = request.target
                      /\ \A i \in 1..(Len(w) - 1) : w[i + 1] \in Neighbours(links, w[i])
       IN  /\ Goes(answer.hops)
           /\ \A n \in 1..(Len(answer.hops) - 1) : \A w \in Walks(n) : ~Goes(w)

\* An analysis that says BLOCKED for state names at least one thing that is
\* down (the blockers analyzePath collects over the path it reports).
BlockedIsExplained ==
    phase = "answered" /\ answer.status = "BLOCKED" =>
       answer.denied \/ blockers # {}

\* The route of an answer is the longest prefix the destination is in among the
\* routes of the reading it was looked up in; without an edit between the two
\* readings an analysis is INDETERMINATE exactly when the device has routes and
\* the destination is in none of them (lookupRoute).
LongestPrefixDecides ==
    phase = "answered" /\ ~reread
      /\ answer.status \in {"FORWARDABLE", "INDETERMINATE"} =>
       LET d == FirstRouter
           a == Address[request.target]
           fits == {i \in Scoped(read, d) : InRange(a, read.routes[i])}
       IN  IF ~LooksUp THEN answer.status = "FORWARDABLE"
           ELSE /\ answer.status = "INDETERMINATE" <=>
                      Scoped(read, d) # {} /\ fits = {}
                /\ fits # {} =>
                      /\ answer.route.index \in fits
                      /\ \A i \in fits : read.routes[i].length
                                           <= read.routes[answer.route.index].length

\* The analysis is right: it answers as the state is, by a shortest path and
\* the longest prefix, and names what is in the way.
AnalysisIsRight ==
    AnswersReachability /\ PathIsShortest /\ BlockedIsExplained /\ LongestPrefixDecides
=============================================================================
