---------------------------- MODULE AccessProofs ----------------------------
(***************************************************************************)
(* Proofs about AdminSessions and LoginLimiter.                            *)
(*                                                                         *)
(* Administrator sessions: beside the types, what is inductive is that a   *)
(* login's id names no row before its insert, and no other login, while    *)
(* whatever has been handed out or is being used does name one.  A session *)
(* that has ended can then not be made valid again, the whole keeps what   *)
(* SessionRegister promises, and no request, row or shutdown goes back.    *)
(*                                                                         *)
(* The limits on logins: what bounds the failures is inductive only with   *)
(* the requests that may still record one counted in.                      *)
(***************************************************************************)
EXTENDS MCServices, FiniteSetTheorems, TLAPS

-----------------------------------------------------------------------------
\* The shape of a request by the step it waits at.
LEMMA HandlerShapes ==
    ASSUME NEW r \in Handler
    PROVE  /\ r.at = "idle" => r = Idle
           /\ r.at = "find" => r \in [at: {"find"}, id: SessionIds, typed: Passwords]
           /\ r.at = "compare" => r \in [at: {"compare"}, id: SessionIds, typed: Passwords,
                                         hash: Passwords]
           /\ r.at \in {"create", "answer login"} =>
                 r \in [at: {"create", "answer login"}, id: SessionIds, typed: Passwords]
           /\ r.at \in {"authenticate", "act"} => r \in Call
           /\ r.at \in {"revoke", "answer logout"} => r \in Logout
           /\ r # Idle => r.id \in SessionIds
           /\ r \in Login <=> r.at \in {"find", "compare", "create", "answer login"}
<1>1. CASE r = Idle
  BY <1>1 DEF Idle, Login
<1>2. CASE r \in [at: {"find"}, id: SessionIds, typed: Passwords]
  BY <1>2 DEF Idle, Login
<1>3. CASE r \in [at: {"compare"}, id: SessionIds, typed: Passwords, hash: Passwords]
  BY <1>3 DEF Idle, Login
<1>4. CASE r \in [at: {"create", "answer login"}, id: SessionIds, typed: Passwords]
  BY <1>4 DEF Idle, Login
<1>5. CASE r \in Call
  BY <1>5 DEF Idle, Login, Call
<1>6. CASE r \in Logout
  BY <1>6 DEF Idle, Login, Logout
<1>7. QED
  BY <1>1, <1>2, <1>3, <1>4, <1>5, <1>6 DEF Handler, Login

-----------------------------------------------------------------------------
\* What rows may do: age, be revoked or be removed.  No such change makes a row
\* of an id without one, or a session valid that was not.
Fades(i) ==
    /\ session'[i] \in SessionRow \cup NoRow
    /\ session[i] = Unused <=> session'[i] = Unused
    /\ Valid(i)' => Valid(i)
    /\ Stored(i)' /\ session'[i].revoked = "no" =>
          /\ Stored(i) /\ session[i].revoked = "no"
          /\ session'[i].secret = session[i].secret
          /\ session'[i].crossed = session[i].crossed

\* Rows are removed, aged or revoked one at a time or all at once.
RowsFade ==
    /\ session' \in [SessionIds -> SessionRow \cup NoRow]
    /\ \A i \in SessionIds : Fades(i)

LEMMA RowOrNone ==
    ASSUME NEW r \in SessionRow \cup NoRow
    PROVE  /\ r.age \notin {"unused", "removed"} => r \in SessionRow
           /\ r.age = "unused" => r = Unused
           /\ r = Unused => r.age = "unused"
           /\ r \in SessionRow => r.age \notin {"unused", "removed"}
<1>1. CASE r \in SessionRow
  <2>1. r.age \in {"live", "expired", "stale"}
    BY <1>1 DEF SessionRow
  <2>2. QED
    BY <1>1, <2>1 DEF Unused
<1>2. CASE r \in NoRow
  <2>1. r = [age |-> r.age]
    BY <1>2 DEF NoRow
  <2>2. r \notin SessionRow
    BY <1>2 DEF NoRow, SessionRow
  <2>3. QED
    BY <1>2, <2>1, <2>2 DEF NoRow, Unused
<1>3. QED
  BY <1>1, <1>2

\* A row replaced by one that fades from it, the others as they are.
LEMMA OneFades ==
    ASSUME SessionsTypeOK, NEW i \in SessionIds, Stored(i), NEW r \in SessionRow,
           session' = [session EXCEPT ![i] = r],
           r.age = "live" => session[i].age = "live",
           r.revoked = "no" => session[i].revoked = "no",
           r.secret = session[i].secret, r.crossed = session[i].crossed
    PROVE  RowsFade
<1>1. session' \in [SessionIds -> SessionRow \cup NoRow]
  BY DEF SessionsTypeOK
<1>2. session'[i] = r /\ \A j \in SessionIds \ {i} : session'[j] = session[j]
  BY DEF SessionsTypeOK
<1>3. Fades(i)
  <2>1. session[i] # Unused /\ r # Unused
    BY RowOrNone DEF Stored, SessionsTypeOK, Unused
  <2>2. QED
    BY <1>2, <2>1 DEF Fades, Valid, Stored
<1>4. \A j \in SessionIds \ {i} : Fades(j)
  BY <1>1, <1>2 DEF Fades, Valid, Stored
<1>5. QED
  BY <1>1, <1>3, <1>4 DEF RowsFade

LEMMA StillRows ==
    ASSUME SessionsTypeOK, UNCHANGED session
    PROVE  RowsFade
BY DEF SessionsTypeOK, RowsFade, Fades, Valid, Stored

LEMMA AgesFade ==
    ASSUME SessionsTypeOK, NEW i \in SessionIds, SessionAges(i)
    PROVE  RowsFade
<1>1. session[i] \in SessionRow
  BY RowOrNone DEF SessionAges, SessionsTypeOK, Stored
<1> DEFINE a == IF session[i].age = "live" THEN "expired" ELSE "stale"
<1> DEFINE r == [session[i] EXCEPT !.age = a]
<1>2. session' = [session EXCEPT ![i] = r]
  BY DEF SessionAges, SessionsTypeOK
<1>3. a \in {"live", "expired", "stale"} /\ a # "live"
  OBVIOUS
<1> HIDE DEF a
<1>4. /\ r \in SessionRow /\ r.age = a /\ r.revoked = session[i].revoked
      /\ r.secret = session[i].secret /\ r.crossed = session[i].crossed
  BY <1>1, <1>3 DEF SessionRow
<1> HIDE DEF r
<1>5. QED
  BY <1>2, <1>3, <1>4, OneFades DEF SessionAges

LEMMA RevocationFades ==
    ASSUME SessionsTypeOK, NEW i \in SessionIds, Stored(i),
           NEW v \in {"lately", "long ago"},
           session' = [session EXCEPT ![i].revoked = v]
    PROVE  RowsFade
<1>1. session[i] \in SessionRow
  BY RowOrNone DEF SessionsTypeOK, Stored
<1> DEFINE r == [session[i] EXCEPT !.revoked = v]
<1>2. session' = [session EXCEPT ![i] = r]
  BY DEF SessionsTypeOK
<1>3. /\ r \in SessionRow /\ r.age = session[i].age /\ r.revoked = v
      /\ r.secret = session[i].secret /\ r.crossed = session[i].crossed
  BY <1>1 DEF SessionRow
<1> HIDE DEF r
<1>4. QED
  BY <1>2, <1>3, OneFades

LEMMA CleanFades ==
    ASSUME SessionsTypeOK, CleanSessions
    PROVE  RowsFade
<1>1. Removed \in NoRow /\ Removed # Unused /\ Removed.age = "removed"
  BY DEF Removed, NoRow, Unused
<1>2. session' \in [SessionIds -> SessionRow \cup NoRow]
  BY <1>1 DEF CleanSessions, SessionsTypeOK
<1>3. ASSUME NEW i \in SessionIds PROVE Fades(i)
  <2>1. CASE Stale(i)
    <3>1. session'[i] = Removed /\ session[i] # Unused
      BY <2>1, RowOrNone DEF CleanSessions, Stale, Stored, SessionsTypeOK
    <3>2. QED
      BY <1>1, <3>1 DEF Fades, Valid, Stored
  <2>2. CASE ~Stale(i)
    <3>1. session'[i] = session[i]
      BY <2>2 DEF CleanSessions, SessionsTypeOK
    <3>2. QED
      BY <1>2, <3>1 DEF Fades, Valid, Stored
  <2>3. QED
    BY <2>1, <2>2
<1>4. QED
  BY <1>2, <1>3 DEF RowsFade

LEMMA RotationFades ==
    ASSUME SessionsTypeOK, RotateRevoke
    PROVE  /\ RowsFade
           /\ \A i \in SessionIds : ~(Stored(i)' /\ session'[i].revoked = "no")
<1> DEFINE RevokedNow(i) == Stored(i) /\ session[i].revoked = "no"
<1>1. \A i \in SessionIds :
         session'[i] = IF RevokedNow(i) THEN [session[i] EXCEPT !.revoked = "lately"]
                       ELSE session[i]
  BY DEF RotateRevoke
<1>2. ASSUME NEW i \in SessionIds
      PROVE  Fades(i) /\ ~(Stored(i)' /\ session'[i].revoked = "no")
  <2>1. CASE RevokedNow(i)
    <3> DEFINE r == [session[i] EXCEPT !.revoked = "lately"]
    <3>1. session[i] \in SessionRow /\ session[i] # Unused
      BY <2>1, RowOrNone DEF SessionsTypeOK, Stored
    <3>2. /\ r \in SessionRow /\ r.age = session[i].age /\ r.revoked = "lately"
      BY <3>1 DEF SessionRow
    <3>3. session'[i] = r
      BY <1>1, <2>1
    <3>4. r # Unused
      BY <3>2, RowOrNone DEF Unused
    <3> HIDE DEF r
    <3>5. QED
      BY <2>1, <3>1, <3>2, <3>3, <3>4 DEF Fades, Valid, Stored
  <2>2. CASE ~RevokedNow(i)
    <3>1. session'[i] = session[i] /\ session[i] \in SessionRow \cup NoRow
      BY <1>1, <2>2 DEF SessionsTypeOK
    <3>2. QED
      BY <2>2, <3>1 DEF Fades, Valid, Stored
  <2>3. QED
    BY <2>1, <2>2
<1>3. session' \in [SessionIds -> SessionRow \cup NoRow]
  BY <1>2 DEF RotateRevoke, Fades
<1>4. QED
  BY <1>2, <1>3 DEF RowsFade

-----------------------------------------------------------------------------
\* Types.
LEMMA AcceptType ==
    ASSUME SessionsTypeOK, NEW h \in Handlers, NEW r \in Handler, Accept(h, r),
           UNCHANGED <<account, session, issued, rotation, server>>
    PROVE  SessionsTypeOK'
BY DEF SessionsTypeOK, Accept

LEMMA EndsType ==
    ASSUME SessionsTypeOK, NEW h \in Handlers, Ends(h),
           UNCHANGED <<account, session, rotation, server>>, issued' \subseteq SessionIds
    PROVE  SessionsTypeOK'
BY DEF SessionsTypeOK, Ends, Handler

LEMMA GoesType ==
    ASSUME SessionsTypeOK, NEW h \in Handlers, NEW r \in Handler, Goes(h, r),
           UNCHANGED <<account, issued, rotation, server>>,
           session' \in [SessionIds -> SessionRow \cup NoRow]
    PROVE  SessionsTypeOK'
BY DEF SessionsTypeOK, Goes

\* The requests that steps of handlers make of the request before.
LEMMA NextRequests ==
    ASSUME NEW i \in SessionIds
    PROVE  /\ \A p \in Passwords : [at |-> "find", id |-> i, typed |-> p] \in Handler
           /\ \A p \in Passwords, a \in Passwords :
                 [at |-> "compare", id |-> i, typed |-> p, hash |-> a] \in Handler
           /\ \A p \in Passwords : [at |-> "create", id |-> i, typed |-> p] \in Handler
           /\ \A p \in Passwords : [at |-> "answer login", id |-> i, typed |-> p] \in Handler
           /\ \A o \in BOOLEAN : [at |-> "authenticate", id |-> i, over |-> o] \in Handler
           /\ [at |-> "revoke", id |-> i] \in Handler
           /\ [at |-> "answer logout", id |-> i] \in Handler
<1>1. \A p \in Passwords : [at |-> "find", id |-> i, typed |-> p] \in Login
  BY DEF Login
<1>2. \A p \in Passwords, a \in Passwords :
         [at |-> "compare", id |-> i, typed |-> p, hash |-> a] \in Login
  BY DEF Login
<1>3. \A p \in Passwords : /\ [at |-> "create", id |-> i, typed |-> p] \in Login
                           /\ [at |-> "answer login", id |-> i, typed |-> p] \in Login
  BY DEF Login
<1>4. \A o \in BOOLEAN : [at |-> "authenticate", id |-> i, over |-> o] \in Call
  BY DEF Call
<1>5. [at |-> "revoke", id |-> i] \in Logout /\ [at |-> "answer logout", id |-> i] \in Logout
  BY DEF Logout
<1>6. QED
  BY <1>1, <1>2, <1>3, <1>4, <1>5 DEF Handler

\* The row a login inserts.
LEMMA InsertedRow ==
    ASSUME SessionsTypeOK, NEW h \in Handlers, LoginCreate(h)
    PROVE  /\ handler[h].id \in SessionIds /\ handler[h].typed \in Passwords
           /\ session' \in [SessionIds -> SessionRow \cup NoRow]
           /\ LET r == session'[handler[h].id]
              IN  /\ r \in SessionRow /\ r # Unused
                  /\ r.secret = handler[h].typed
                  /\ r.crossed = (account # handler[h].typed)
           /\ \A j \in SessionIds \ {handler[h].id} : session'[j] = session[j]
<1>1. handler[h] \in [at: {"create", "answer login"}, id: SessionIds, typed: Passwords]
  BY HandlerShapes DEF SessionsTypeOK, LoginCreate, Querying
<1>2. handler[h].id \in SessionIds /\ handler[h].typed \in Passwords
  BY <1>1
<1> DEFINE i == handler[h].id
<1> DEFINE c == (account # handler[h].typed)
<1> DEFINE r == [age |-> "live", revoked |-> "no", secret |-> handler[h].typed, crossed |-> c]
<1>3. c \in BOOLEAN
  OBVIOUS
<1>4. session' = [session EXCEPT ![i] = r]
  BY DEF LoginCreate
<1> HIDE DEF c
<1>5. r \in SessionRow /\ r.secret = handler[h].typed /\ r.crossed = c
  BY <1>2, <1>3 DEF SessionRow
<1> HIDE DEF r
<1>6. r # Unused
  BY <1>5, RowOrNone
<1>7. session'[i] = r
  BY <1>2, <1>4 DEF SessionsTypeOK
<1>8. /\ session' \in [SessionIds -> SessionRow \cup NoRow]
      /\ \A j \in SessionIds \ {i} : session'[j] = session[j]
  BY <1>2, <1>4, <1>5 DEF SessionsTypeOK
<1>9. QED
  BY <1>2, <1>5, <1>6, <1>7, <1>8 DEF c

LEMMA HandlerTypes ==
    ASSUME SessionsTypeOK, NEW h \in Handlers, HandlerStep(h)
    PROVE  SessionsTypeOK'
<1>0. handler[h] \in Handler
  BY DEF SessionsTypeOK
<1>1. CASE LoginFind(h)
  <2>1. CASE Ends(h)
    BY <1>1, <2>1, EndsType DEF LoginFind, SessionsTypeOK
  <2>2. CASE account # NoPassword /\ Goes(h, [at |-> "compare", id |-> handler[h].id,
                      typed |-> handler[h].typed, hash |-> account])
    <3>1. handler[h] \in [at: {"find"}, id: SessionIds, typed: Passwords]
      BY <1>0, <1>1, HandlerShapes DEF LoginFind, Querying
    <3>2. account \in Passwords
      BY <2>2 DEF SessionsTypeOK
    <3>3. handler[h].id \in SessionIds /\ handler[h].typed \in Passwords
      BY <3>1
    <3>4. [at |-> "compare", id |-> handler[h].id, typed |-> handler[h].typed,
           hash |-> account] \in Handler
      BY <3>2, <3>3, NextRequests
    <3>5. QED
      BY <1>1, <2>2, <3>4, GoesType DEF LoginFind, SessionsTypeOK
  <2>3. QED
    BY <1>1, <2>1, <2>2 DEF LoginFind
<1>2. CASE LoginCompare(h)
  <2>1. CASE Ends(h)
    BY <1>2, <2>1, EndsType DEF LoginCompare, SessionsTypeOK
  <2>2. CASE Goes(h, [at |-> "create", id |-> handler[h].id, typed |-> handler[h].typed])
    <3>1. handler[h] \in [at: {"compare"}, id: SessionIds, typed: Passwords, hash: Passwords]
      BY <1>0, <1>2, HandlerShapes DEF LoginCompare
    <3>2. handler[h].id \in SessionIds /\ handler[h].typed \in Passwords
      BY <3>1
    <3>3. [at |-> "create", id |-> handler[h].id, typed |-> handler[h].typed] \in Handler
      BY <3>2, NextRequests
    <3>4. QED
      BY <1>2, <2>2, <3>3, GoesType DEF LoginCompare, SessionsTypeOK
  <2>3. QED
    BY <1>2, <2>1, <2>2 DEF LoginCompare
<1>3. CASE LoginCreate(h)
  BY <1>3, InsertedRow, NextRequests, GoesType DEF LoginCreate
<1>4. CASE LoginAnswer(h)
  <2>1. handler[h] \in [at: {"create", "answer login"}, id: SessionIds, typed: Passwords]
    BY <1>0, <1>4, HandlerShapes DEF LoginAnswer
  <2>2. issued' \subseteq SessionIds
    BY <1>4, <2>1 DEF LoginAnswer, SessionsTypeOK
  <2>3. QED
    BY <1>4, <2>2, EndsType DEF LoginAnswer
<1>5. CASE CallAuthenticate(h)
  <2>1. CASE Ends(h)
    BY <1>5, <2>1, EndsType DEF CallAuthenticate, SessionsTypeOK
  <2>2. CASE Goes(h, [handler[h] EXCEPT !.at = "act"])
    <3>1. handler[h] \in Call
      BY <1>0, <1>5, HandlerShapes DEF CallAuthenticate, Querying
    <3>2. [handler[h] EXCEPT !.at = "act"] \in Call
      BY <3>1 DEF Call
    <3>3. QED
      BY <1>5, <2>2, <3>2, GoesType DEF CallAuthenticate, SessionsTypeOK, Handler
  <2>3. QED
    BY <1>5, <2>1, <2>2 DEF CallAuthenticate
<1>6. CASE CallAct(h)
  BY <1>6, EndsType DEF CallAct, SessionsTypeOK
<1>7. CASE LogoutRevoke(h)
  <2>1. handler[h] \in Logout
    BY <1>0, <1>7, HandlerShapes DEF LogoutRevoke, Querying
  <2>2. handler[h].id \in SessionIds
    BY <2>1 DEF Logout
  <2>3. RowsFade
    BY <1>7, <2>2, RevocationFades, StillRows DEF LogoutRevoke, Valid, Stored
  <2>4. QED
    BY <1>7, <2>2, <2>3, NextRequests, GoesType DEF LogoutRevoke, RowsFade
<1>8. CASE LogoutAnswer(h)
  BY <1>8, EndsType DEF LogoutAnswer, SessionsTypeOK
<1>9. CASE StatementFails(h)
  BY <1>9, EndsType DEF StatementFails, SessionsTypeOK
<1>10. QED
  BY <1>1, <1>2, <1>3, <1>4, <1>5, <1>6, <1>7, <1>8, <1>9 DEF HandlerStep

LEMMA ArrivalTypes ==
    ASSUME SessionsTypeOK, NEW h \in Handlers, Arrival(h)
    PROVE  SessionsTypeOK'
<1>1. ASSUME NEW p \in Passwords, NEW i \in SessionIds, LoginArrives(h, p, i)
      PROVE  SessionsTypeOK'
  BY <1>1, NextRequests, AcceptType DEF LoginArrives
<1>2. ASSUME NEW i \in SessionIds, CallArrives(h, i)
      PROVE  SessionsTypeOK'
  <2>1. (~Valid(i)) \in BOOLEAN
    BY DEF Valid
  <2>2. QED
    BY <1>2, <2>1, NextRequests, AcceptType DEF CallArrives
<1>3. ASSUME NEW i \in SessionIds, LogoutArrives(h, i)
      PROVE  SessionsTypeOK'
  BY <1>3, NextRequests, AcceptType DEF LogoutArrives
<1>4. QED
  BY <1>1, <1>2, <1>3 DEF Arrival

LEMMA ServerTypes ==
    ASSUME SessionsTypeOK,
           Shutdown \/ ShutdownStep \/ Killed \/ Start
    PROVE  SessionsTypeOK'
BY DEF SessionsTypeOK, Handler, Shutdown, ShutdownStep, Drained, ForceClose, Disconnect,
       ExitClosed, Exit, Killed, Start

\* The steps that touch the rows alone, or beside the rotation.
RowStep ==
    \/ RotateRevoke \/ CleanSessions
    \/ \E i \in SessionIds : SessionAges(i) \/ RevocationAges(i)

LEMMA RowStepsFade ==
    ASSUME SessionsTypeOK, RowStep
    PROVE  RowsFade /\ UNCHANGED <<account, issued, handler, connected, server>>
<1>1. CASE RotateRevoke
  BY <1>1, RotationFades DEF RotateRevoke
<1>2. CASE CleanSessions
  BY <1>2, CleanFades DEF CleanSessions
<1>3. ASSUME NEW i \in SessionIds, SessionAges(i)
      PROVE  RowsFade /\ UNCHANGED <<account, issued, handler, connected, server>>
  BY <1>3, AgesFade DEF SessionAges
<1>4. ASSUME NEW i \in SessionIds, RevocationAges(i)
      PROVE  RowsFade /\ UNCHANGED <<account, issued, handler, connected, server>>
  BY <1>4, RevocationFades DEF RevocationAges
<1>5. QED
  BY <1>1, <1>2, <1>3, <1>4 DEF RowStep

LEMMA SessionsTypeStep ==
    ASSUME SessionsTypeOK, [SessionsNext]_sessionsVars
    PROVE  SessionsTypeOK'
<1>1. ASSUME NEW h \in Handlers, Arrival(h) \/ HandlerStep(h) \/ ConnectionLost(h)
      PROVE  SessionsTypeOK'
  <2>1. CASE ConnectionLost(h)
    BY <2>1 DEF ConnectionLost, SessionsTypeOK
  <2>2. QED
    BY <1>1, <2>1, ArrivalTypes, HandlerTypes
<1>2. ASSUME NEW p \in Passwords, RotateUpsert(p)
      PROVE  SessionsTypeOK'
  BY <1>2 DEF RotateUpsert, SessionsTypeOK
<1>3. CASE RotateDies
  BY <1>3 DEF RotateDies, SessionsTypeOK
<1>4. CASE RowStep
  <2>1. rotation' \in {"none", "revoking", "abandoned"}
    BY <1>4 DEF RowStep, RotateRevoke, CleanSessions, SessionAges, RevocationAges,
                SessionsTypeOK
  <2>2. QED
    BY <1>4, <2>1, RowStepsFade DEF RowsFade, SessionsTypeOK
<1>5. CASE Shutdown \/ ShutdownStep \/ Killed \/ Start
  BY <1>5, ServerTypes
<1>6. CASE UNCHANGED sessionsVars
  BY <1>6 DEF sessionsVars, SessionsTypeOK
<1>7. QED
  BY <1>1, <1>2, <1>3, <1>4, <1>5, <1>6 DEF SessionsNext, RowStep

LEMMA SessionsTypeInit ==
    ASSUME SessionsInit
    PROVE  SessionsTypeOK
BY DEF SessionsInit, SessionsTypeOK, Unused, NoRow, Handler

(***************************************************************************)
(* The administrator sessions stay within their types: the shape of every  *)
(* request, row and state of the server, for any number of them.           *)
(***************************************************************************)
THEOREM SessionsTypeCorrect == SessionsSpec => []SessionsTypeOK
<1>1. SessionsInit => SessionsTypeOK
  BY SessionsTypeInit
<1>2. SessionsTypeOK /\ [SessionsNext]_sessionsVars => SessionsTypeOK'
  BY SessionsTypeStep
<1>3. QED
  BY <1>1, <1>2, PTL DEF SessionsSpec

-----------------------------------------------------------------------------
\* Where a request stands: its id has no row yet, or must have had one.
Unwritten(r) == r.at \in {"find", "compare", "create"}
Named(r) == r.at \in {"answer login", "authenticate", "act", "revoke", "answer logout"}

\* What a request's id may name, and what the request knows of it.
Fits(r) ==
    /\ Unwritten(r) => session[r.id] = Unused
    /\ Named(r) => session[r.id] # Unused
    /\ r.at = "authenticate" => ~r.over \/ ~Valid(r.id)
    /\ r.at = "act" => ~r.over

RequestsFit == \A h \in Handlers : Fits(handler[h])

LoginsApart ==
    \A g, h \in Handlers :
        g # h /\ Unwritten(handler[g]) /\ Unwritten(handler[h]) =>
            handler[g].id # handler[h].id

IssuedAreRows == \A i \in issued : session[i] # Unused

NobodyWaits == server \in {"closed", "disconnected"} => connected = {}

SessionsInv ==
    /\ SessionsTypeOK
    /\ RequestsFit /\ LoginsApart /\ IssuedAreRows
    /\ OnlyCrossingsSurvive
    /\ NobodyWaits

-----------------------------------------------------------------------------
LEMMA FitsStay ==
    ASSUME RowsFade, NEW r \in Handler, Fits(r)
    PROVE  Fits(r)'
<1>1. CASE r = Idle
  BY <1>1 DEF Idle, Fits, Unwritten, Named
<1>2. CASE r # Idle
  <2>1. r.id \in SessionIds /\ Fades(r.id)
    BY <1>2, HandlerShapes DEF RowsFade
  <2>2. QED
    BY <2>1 DEF Fits, Fades, Unwritten, Named
<1>3. QED
  BY <1>1, <1>2

\* One request goes on while the rows at most fade.
LEMMA OneMoves ==
    ASSUME SessionsTypeOK, RequestsFit, LoginsApart, RowsFade,
           NEW h \in Handlers, NEW r \in Handler, Fits(r),
           handler' = [handler EXCEPT ![h] = r],
           \A g \in Handlers \ {h} :
               Unwritten(r) /\ Unwritten(handler[g]) => handler[g].id # r.id
    PROVE  RequestsFit' /\ LoginsApart'
<1>1. handler'[h] = r /\ \A g \in Handlers \ {h} : handler'[g] = handler[g]
  BY DEF SessionsTypeOK
<1>2. Fits(handler[h])'
  BY <1>1, FitsStay DEF Fits, Unwritten, Named
<1>3. ASSUME NEW g \in Handlers \ {h} PROVE Fits(handler[g])'
  <2>1. handler'[g] = handler[g] /\ handler[g] \in Handler /\ Fits(handler[g])
    BY <1>1 DEF SessionsTypeOK, RequestsFit
  <2>2. QED
    BY <2>1, FitsStay DEF Fits, Unwritten, Named
<1>4. LoginsApart'
  BY <1>1 DEF LoginsApart
<1>5. QED
  BY <1>2, <1>3, <1>4 DEF RequestsFit

LEMMA OneEnds ==
    ASSUME SessionsTypeOK, RequestsFit, LoginsApart, RowsFade,
           NEW h \in Handlers, Ends(h)
    PROVE  RequestsFit' /\ LoginsApart'
<1>1. Idle \in Handler /\ Fits(Idle) /\ ~Unwritten(Idle)
  BY DEF Handler, Idle, Fits, Unwritten, Named
<1>2. QED
  BY <1>1, OneMoves DEF Ends

\* No request goes on.
LEMMA NoneMoves ==
    ASSUME SessionsTypeOK, RequestsFit, LoginsApart, RowsFade, UNCHANGED handler
    PROVE  RequestsFit' /\ LoginsApart'
<1>1. \A h \in Handlers : Fits(handler[h])'
  BY FitsStay DEF SessionsTypeOK, RequestsFit, Fits, Unwritten, Named
<1>2. QED
  BY <1>1 DEF RequestsFit, LoginsApart

LEMMA IssuedStay ==
    ASSUME SessionsTypeOK, IssuedAreRows, RowsFade, UNCHANGED issued
    PROVE  IssuedAreRows'
BY DEF SessionsTypeOK, IssuedAreRows, RowsFade, Fades

LEMMA CrossingsStay ==
    ASSUME OnlyCrossingsSurvive, RowsFade, UNCHANGED <<account, rotation>>
    PROVE  OnlyCrossingsSurvive'
BY DEF OnlyCrossingsSurvive, RowsFade, Fades

\* A login's insert: the one step that makes a row valid.
LEMMA InsertFits ==
    ASSUME SessionsInv, NEW h \in Handlers, LoginCreate(h)
    PROVE  /\ RequestsFit' /\ LoginsApart' /\ IssuedAreRows' /\ OnlyCrossingsSurvive'
           /\ session[handler[h].id] = Unused
<1> DEFINE i == handler[h].id
<1> DEFINE r == [at |-> "answer login", id |-> i, typed |-> handler[h].typed]
<1>1. handler[h].at = "create" /\ Unwritten(handler[h]) /\ session[i] = Unused
  BY DEF LoginCreate, Querying, Unwritten, SessionsInv, RequestsFit, Fits
<1>2. handler' = [handler EXCEPT ![h] = r] /\ UNCHANGED <<account, issued, rotation>>
  BY DEF LoginCreate, Goes
<1>3. handler'[h] = r /\ \A g \in Handlers \ {h} : handler'[g] = handler[g]
  BY <1>2 DEF SessionsInv, SessionsTypeOK
<1>4. /\ i \in SessionIds /\ session'[i] # Unused
      /\ \A j \in SessionIds \ {i} : session'[j] = session[j]
  BY InsertedRow DEF SessionsInv
<1>5. r.at = "answer login" /\ r.id = i
  OBVIOUS
<1>6. /\ session'[i].secret = handler[h].typed
      /\ session'[i].crossed = (account # handler[h].typed)
  BY InsertedRow DEF SessionsInv
<1>7. ASSUME NEW g \in Handlers \ {h} PROVE Fits(handler[g])'
  <2>1. handler'[g] = handler[g] /\ handler[g] \in Handler /\ Fits(handler[g])
    BY <1>3 DEF SessionsInv, SessionsTypeOK, RequestsFit
  <2>2. CASE Unwritten(handler[g]) \/ Named(handler[g])
    <3>1. handler[g].id # i
      BY <1>1, <2>1, <2>2 DEF SessionsInv, LoginsApart, Fits
    <3>2. handler[g].id \in SessionIds
      <4>1. handler[g].at # "idle" /\ Idle.at = "idle"
        BY <2>2 DEF Idle, Unwritten, Named
      <4>2. QED
        BY <2>1, <4>1, HandlerShapes
    <3>3. session'[handler[g].id] = session[handler[g].id]
      BY <1>4, <3>1, <3>2
    <3>4. QED
      BY <2>1, <3>3 DEF Fits, Valid, Unwritten, Named
  <2>3. CASE ~Unwritten(handler[g]) /\ ~Named(handler[g])
    BY <2>1, <2>3 DEF Fits, Unwritten, Named
  <2>4. QED
    BY <2>2, <2>3
<1>8. Fits(handler[h])'
  BY <1>3, <1>4, <1>5 DEF Fits, Unwritten, Named
<1>9. ~Unwritten(handler[h])'
  BY <1>3, <1>5 DEF Unwritten
<1> HIDE DEF r
<1>10. LoginsApart'
  BY <1>3, <1>9 DEF SessionsInv, LoginsApart, Unwritten
<1>11. IssuedAreRows'
  BY <1>1, <1>2, <1>4 DEF SessionsInv, SessionsTypeOK, IssuedAreRows
<1>12. OnlyCrossingsSurvive'
  <2>1. SUFFICES ASSUME rotation = "none", NEW j \in SessionIds,
                        Stored(j)', session'[j].revoked = "no"
                 PROVE  session'[j].secret = account \/ session'[j].crossed
    BY <1>2 DEF OnlyCrossingsSurvive
  <2>2. CASE j = i
    BY <1>6, <2>2
  <2>3. CASE j # i
    BY <1>4, <2>1, <2>3 DEF SessionsInv, OnlyCrossingsSurvive, Stored
  <2>4. QED
    BY <2>2, <2>3
<1>13. QED
  BY <1>1, <1>7, <1>8, <1>10, <1>11, <1>12 DEF RequestsFit

\* What the steps preserve of the requests, the tokens and the rotation.
Kept ==
    /\ RequestsFit' /\ LoginsApart' /\ IssuedAreRows' /\ OnlyCrossingsSurvive'

LEMMA HandlerSteps ==
    ASSUME SessionsInv, NEW h \in Handlers, HandlerStep(h)
    PROVE  Kept /\ (LoginCreate(h) \/ RowsFade)
<1>0. SessionsTypeOK /\ handler[h] \in Handler /\ RequestsFit /\ LoginsApart /\ Fits(handler[h])
  BY DEF SessionsInv, SessionsTypeOK, RequestsFit
<1>1. CASE LoginFind(h)
  <2>1. RowsFade
    BY <1>0, <1>1, StillRows DEF LoginFind
  <2>2. RequestsFit' /\ LoginsApart'
    <3>1. CASE Ends(h)
      BY <1>0, <2>1, <3>1, OneEnds
    <3>2. CASE account # NoPassword /\ Goes(h, [at |-> "compare", id |-> handler[h].id,
                        typed |-> handler[h].typed, hash |-> account])
      <4> DEFINE r == [at |-> "compare", id |-> handler[h].id, typed |-> handler[h].typed,
                       hash |-> account]
      <4>1. handler[h] \in [at: {"find"}, id: SessionIds, typed: Passwords]
        BY <1>0, <1>1, HandlerShapes DEF LoginFind, Querying
      <4>2. handler[h].id \in SessionIds /\ handler[h].typed \in Passwords
        BY <4>1
      <4>3. account \in Passwords
        BY <3>2 DEF SessionsInv, SessionsTypeOK
      <4>4. r \in Handler /\ r.at = "compare" /\ r.id = handler[h].id
        BY <4>2, <4>3, NextRequests
      <4>5. handler' = [handler EXCEPT ![h] = r]
        BY <3>2 DEF Goes
      <4> HIDE DEF r
      <4>6. Unwritten(handler[h])
        BY <4>1 DEF Unwritten
      <4>7. Fits(r)
        BY <1>0, <4>4, <4>6 DEF Fits, Unwritten, Named
      <4>8. \A g \in Handlers \ {h} : Unwritten(handler[g]) => handler[g].id # r.id
        BY <1>0, <4>4, <4>6 DEF LoginsApart
      <4>9. QED
        BY <1>0, <2>1, <4>4, <4>5, <4>7, <4>8, OneMoves
    <3>3. QED
      BY <1>1, <3>1, <3>2 DEF LoginFind
  <2>3. QED
    BY <1>1, <2>1, <2>2, IssuedStay, CrossingsStay DEF LoginFind, SessionsInv, Kept
<1>2. CASE LoginCompare(h)
  <2>1. RowsFade
    BY <1>0, <1>2, StillRows DEF LoginCompare
  <2>2. RequestsFit' /\ LoginsApart'
    <3>1. CASE Ends(h)
      BY <1>0, <2>1, <3>1, OneEnds
    <3>2. CASE Goes(h, [at |-> "create", id |-> handler[h].id, typed |-> handler[h].typed])
      <4> DEFINE r == [at |-> "create", id |-> handler[h].id, typed |-> handler[h].typed]
      <4>1. handler[h] \in [at: {"compare"}, id: SessionIds, typed: Passwords, hash: Passwords]
        BY <1>0, <1>2, HandlerShapes DEF LoginCompare
      <4>2. handler[h].id \in SessionIds /\ handler[h].typed \in Passwords
        BY <4>1
      <4>3. r \in Handler /\ r.at = "create" /\ r.id = handler[h].id
        BY <4>2, NextRequests
      <4>4. handler' = [handler EXCEPT ![h] = r]
        BY <3>2 DEF Goes
      <4> HIDE DEF r
      <4>5. Unwritten(handler[h])
        BY <4>1 DEF Unwritten
      <4>6. Fits(r)
        BY <1>0, <4>3, <4>5 DEF Fits, Unwritten, Named
      <4>7. \A g \in Handlers \ {h} : Unwritten(handler[g]) => handler[g].id # r.id
        BY <1>0, <4>3, <4>5 DEF LoginsApart
      <4>8. QED
        BY <1>0, <2>1, <4>3, <4>4, <4>6, <4>7, OneMoves
    <3>3. QED
      BY <1>2, <3>1, <3>2 DEF LoginCompare
  <2>3. QED
    BY <1>2, <2>1, <2>2, IssuedStay, CrossingsStay DEF LoginCompare, SessionsInv, Kept
<1>3. CASE LoginCreate(h)
  BY <1>3, InsertFits DEF Kept
<1>4. CASE LoginAnswer(h)
  <2>1. RowsFade
    BY <1>0, <1>4, StillRows DEF LoginAnswer
  <2>2. RequestsFit' /\ LoginsApart'
    BY <1>0, <1>4, <2>1, OneEnds DEF LoginAnswer
  <2>3. session[handler[h].id] # Unused
    BY <1>0, <1>4 DEF LoginAnswer, Fits, Named
  <2>4. IssuedAreRows'
    BY <1>4, <2>3 DEF LoginAnswer, SessionsInv, IssuedAreRows
  <2>5. QED
    BY <1>4, <2>1, <2>2, <2>4, CrossingsStay DEF LoginAnswer, SessionsInv, Kept
<1>5. CASE CallAuthenticate(h)
  <2>1. RowsFade
    BY <1>0, <1>5, StillRows DEF CallAuthenticate
  <2>2. RequestsFit' /\ LoginsApart'
    <3>1. CASE Ends(h)
      BY <1>0, <2>1, <3>1, OneEnds
    <3>2. CASE Valid(handler[h].id) /\ Goes(h, [handler[h] EXCEPT !.at = "act"])
      <4> DEFINE r == [handler[h] EXCEPT !.at = "act"]
      <4>1. handler[h] \in Call /\ handler[h].at = "authenticate"
        BY <1>0, <1>5, HandlerShapes DEF CallAuthenticate, Querying
      <4>2. r \in Call /\ r.at = "act" /\ r.id = handler[h].id /\ r.over = handler[h].over
        BY <4>1 DEF Call
      <4>3. handler' = [handler EXCEPT ![h] = r]
        BY <3>2 DEF Goes
      <4> HIDE DEF r
      <4>4. r \in Handler /\ Fits(r) /\ ~Unwritten(r)
        BY <1>0, <3>2, <4>1, <4>2 DEF Handler, Fits, Unwritten, Named
      <4>5. QED
        BY <1>0, <2>1, <4>3, <4>4, OneMoves
    <3>3. QED
      BY <1>5, <3>1, <3>2 DEF CallAuthenticate
  <2>3. QED
    BY <1>5, <2>1, <2>2, IssuedStay, CrossingsStay DEF CallAuthenticate, SessionsInv, Kept
<1>6. CASE CallAct(h)
  <2>1. RowsFade
    BY <1>0, <1>6, StillRows DEF CallAct
  <2>2. QED
    BY <1>0, <1>6, <2>1, OneEnds, IssuedStay, CrossingsStay DEF CallAct, SessionsInv, Kept
<1>7. CASE LogoutRevoke(h)
  <2> DEFINE r == [at |-> "answer logout", id |-> handler[h].id]
  <2>1. handler[h] \in Logout /\ handler[h].at = "revoke"
    BY <1>0, <1>7, HandlerShapes DEF LogoutRevoke, Querying
  <2>2. handler[h].id \in SessionIds
    BY <2>1 DEF Logout
  <2>3. RowsFade
    BY <1>0, <1>7, <2>2, RevocationFades, StillRows DEF LogoutRevoke, Valid, Stored
  <2>4. r \in Handler /\ r.at = "answer logout" /\ r.id = handler[h].id
    BY <2>2, NextRequests
  <2>5. handler' = [handler EXCEPT ![h] = r]
    BY <1>7 DEF LogoutRevoke, Goes
  <2> HIDE DEF r
  <2>6. Fits(r) /\ ~Unwritten(r)
    BY <1>0, <2>1, <2>4 DEF Fits, Unwritten, Named
  <2>7. RequestsFit' /\ LoginsApart'
    BY <1>0, <2>3, <2>4, <2>5, <2>6, OneMoves
  <2>8. QED
    BY <1>7, <2>3, <2>7, IssuedStay, CrossingsStay DEF LogoutRevoke, SessionsInv, Kept
<1>8. CASE LogoutAnswer(h)
  <2>1. RowsFade
    BY <1>0, <1>8, StillRows DEF LogoutAnswer
  <2>2. QED
    BY <1>0, <1>8, <2>1, OneEnds, IssuedStay, CrossingsStay DEF LogoutAnswer, SessionsInv, Kept
<1>9. CASE StatementFails(h)
  <2>1. RowsFade
    BY <1>0, <1>9, StillRows DEF StatementFails
  <2>2. QED
    BY <1>0, <1>9, <2>1, OneEnds, IssuedStay, CrossingsStay DEF StatementFails, SessionsInv, Kept
<1>10. QED
  BY <1>1, <1>2, <1>3, <1>4, <1>5, <1>6, <1>7, <1>8, <1>9 DEF HandlerStep

LEMMA Arrivals ==
    ASSUME SessionsInv, NEW h \in Handlers, Arrival(h)
    PROVE  Kept /\ RowsFade
<1>0. SessionsTypeOK /\ RequestsFit /\ LoginsApart
  BY DEF SessionsInv
<1>1. UNCHANGED <<account, session, issued, rotation, server>>
  BY DEF Arrival, LoginArrives, CallArrives, LogoutArrives
<1>2. RowsFade
  BY <1>0, <1>1, StillRows
<1>3. ASSUME NEW p \in Passwords, NEW i \in SessionIds, LoginArrives(h, p, i)
      PROVE  RequestsFit' /\ LoginsApart'
  <2> DEFINE r == [at |-> "find", id |-> i, typed |-> p]
  <2>1. r \in Handler /\ r.at = "find" /\ r.id = i
    BY NextRequests
  <2>2. handler' = [handler EXCEPT ![h] = r] /\ session[i] = Unused
    BY <1>3 DEF LoginArrives, Accept
  <2> HIDE DEF r
  <2>3. Fits(r)
    BY <2>1, <2>2 DEF Fits, Unwritten, Named
  <2>4. ASSUME NEW g \in Handlers, Unwritten(handler[g]) PROVE handler[g].id # r.id
    <3>1. handler[g] \in Login
      BY <1>0, <2>4, HandlerShapes DEF SessionsTypeOK, Unwritten
    <3>2. QED
      BY <1>3, <2>1, <3>1 DEF LoginArrives, Reserved
  <2>5. QED
    BY <1>0, <1>2, <2>1, <2>2, <2>3, <2>4, OneMoves
<1>4. ASSUME NEW i \in SessionIds, CallArrives(h, i)
      PROVE  RequestsFit' /\ LoginsApart'
  <2> DEFINE o == ~Valid(i)
  <2> DEFINE r == [at |-> "authenticate", id |-> i, over |-> o]
  <2>1. o \in BOOLEAN
    BY DEF Valid
  <2>2. r \in Handler /\ r.at = "authenticate" /\ r.id = i /\ r.over = o
    BY <2>1, NextRequests
  <2>3. handler' = [handler EXCEPT ![h] = r] /\ session[i] # Unused
    BY <1>4 DEF CallArrives, Accept, SessionsInv, IssuedAreRows
  <2> HIDE DEF r
  <2>4. Fits(r) /\ ~Unwritten(r)
    BY <2>2, <2>3 DEF Fits, Unwritten, Named
  <2>5. QED
    BY <1>0, <1>2, <2>2, <2>3, <2>4, OneMoves
<1>5. ASSUME NEW i \in SessionIds, LogoutArrives(h, i)
      PROVE  RequestsFit' /\ LoginsApart'
  <2> DEFINE r == [at |-> "revoke", id |-> i]
  <2>1. r \in Handler /\ r.at = "revoke" /\ r.id = i
    BY NextRequests
  <2>2. handler' = [handler EXCEPT ![h] = r] /\ session[i] # Unused
    BY <1>5 DEF LogoutArrives, Accept, SessionsInv, IssuedAreRows
  <2> HIDE DEF r
  <2>3. Fits(r) /\ ~Unwritten(r)
    BY <2>1, <2>2 DEF Fits, Unwritten, Named
  <2>4. QED
    BY <1>0, <1>2, <2>1, <2>2, <2>3, OneMoves
<1>6. RequestsFit' /\ LoginsApart'
  BY <1>3, <1>4, <1>5 DEF Arrival
<1>7. QED
  BY <1>1, <1>2, <1>6, IssuedStay, CrossingsStay DEF SessionsInv, Kept

LEMMA OtherSteps ==
    ASSUME SessionsInv, UNCHANGED <<session, issued>>,
           \/ \E p \in Passwords : RotateUpsert(p)
           \/ RotateDies
           \/ \E h \in Handlers : ConnectionLost(h)
           \/ Shutdown \/ ShutdownStep \/ Killed \/ Start
           \/ UNCHANGED sessionsVars
    PROVE  Kept /\ RowsFade
<1>1. RowsFade
  BY StillRows DEF SessionsInv
<1>2. CASE UNCHANGED handler
  <2>1. RequestsFit' /\ LoginsApart' /\ IssuedAreRows'
    BY <1>1, <1>2, NoneMoves, IssuedStay DEF SessionsInv
  <2>2. rotation' = "none" => UNCHANGED <<account, rotation>>
    BY DEF RotateUpsert, RotateDies, ConnectionLost, Shutdown, ShutdownStep, Drained,
           ForceClose, Disconnect, ExitClosed, Killed, Exit, Start, sessionsVars
  <2>3. OnlyCrossingsSurvive'
    BY <1>1, <2>2, CrossingsStay DEF SessionsInv, OnlyCrossingsSurvive
  <2>4. QED
    BY <1>1, <2>1, <2>3 DEF Kept
<1>3. CASE Exit
  <2>1. \A h \in Handlers : handler'[h] = Idle
    BY <1>3 DEF Exit
  <2>2. Fits(Idle)' /\ ~Unwritten(Idle)
    BY DEF Idle, Fits, Unwritten, Named
  <2>3. RequestsFit' /\ LoginsApart'
    BY <2>1, <2>2 DEF RequestsFit, LoginsApart, Fits, Unwritten, Named
  <2>4. QED
    BY <1>1, <1>3, <2>3, IssuedStay, CrossingsStay DEF Exit, SessionsInv, Kept
<1>4. QED
  BY <1>2, <1>3 DEF RotateUpsert, RotateDies, ConnectionLost, Shutdown, ShutdownStep, Drained,
           ForceClose, Disconnect, ExitClosed, Killed, Start, sessionsVars

LEMMA RowSteps ==
    ASSUME SessionsInv, RowStep
    PROVE  Kept /\ RowsFade
<1>1. RowsFade /\ UNCHANGED <<account, issued, handler, connected, server>>
  BY RowStepsFade DEF SessionsInv
<1>2. RequestsFit' /\ LoginsApart' /\ IssuedAreRows'
  BY <1>1, NoneMoves, IssuedStay DEF SessionsInv
<1>3. OnlyCrossingsSurvive'
  <2>1. CASE RotateRevoke
    BY <2>1, RotationFades DEF SessionsInv, OnlyCrossingsSurvive
  <2>2. CASE UNCHANGED rotation
    BY <1>1, <2>2, CrossingsStay DEF SessionsInv
  <2>3. QED
    BY <2>1, <2>2 DEF RowStep, CleanSessions, SessionAges, RevocationAges
<1>4. QED
  BY <1>1, <1>2, <1>3 DEF Kept

\* Nobody waits for a server that has closed: no request is accepted then.
LEMMA WaitersStep ==
    ASSUME NobodyWaits, [SessionsNext]_sessionsVars
    PROVE  NobodyWaits'
<1>1. ASSUME NEW h \in Handlers, Arrival(h) PROVE NobodyWaits'
  BY <1>1 DEF NobodyWaits, Arrival, LoginArrives, CallArrives, LogoutArrives, Accept
<1>2. ASSUME NEW h \in Handlers, HandlerStep(h) PROVE NobodyWaits'
  <2>1. server' = server /\ connected' \subseteq connected
    BY <1>2 DEF HandlerStep, LoginFind, LoginCompare, LoginCreate, LoginAnswer,
                CallAuthenticate, CallAct, LogoutRevoke, LogoutAnswer, StatementFails, Ends, Goes
  <2>2. QED
    BY <2>1 DEF NobodyWaits
<1>3. ASSUME NEW h \in Handlers, ConnectionLost(h) PROVE NobodyWaits'
  BY <1>3 DEF NobodyWaits, ConnectionLost
<1>4. ASSUME NEW p \in Passwords, RotateUpsert(p) PROVE NobodyWaits'
  BY <1>4 DEF NobodyWaits, RotateUpsert
<1>5. CASE RowStep
  BY <1>5 DEF NobodyWaits, RowStep, RotateRevoke, CleanSessions, SessionAges, RevocationAges
<1>6. CASE Shutdown \/ ShutdownStep \/ Killed \/ Start
  BY <1>6 DEF NobodyWaits, Shutdown, ShutdownStep, Drained, ForceClose, Disconnect,
              ExitClosed, Killed, Exit, Start
<1>7. CASE RotateDies \/ UNCHANGED sessionsVars
  BY <1>7 DEF NobodyWaits, RotateDies, sessionsVars
<1>8. QED
  BY <1>1, <1>2, <1>3, <1>4, <1>5, <1>6, <1>7 DEF SessionsNext, RowStep

LEMMA SessionsStep ==
    ASSUME SessionsInv, [SessionsNext]_sessionsVars
    PROVE  Kept /\ (RowsFade \/ \E h \in Handlers : LoginCreate(h))
<1>1. ASSUME NEW h \in Handlers, Arrival(h) \/ HandlerStep(h)
      PROVE  Kept /\ (RowsFade \/ LoginCreate(h))
  BY <1>1, Arrivals, HandlerSteps
<1>2. CASE RowStep
  BY <1>2, RowSteps
<1>3. CASE \/ \E p \in Passwords : RotateUpsert(p)
           \/ RotateDies
           \/ \E h \in Handlers : ConnectionLost(h)
           \/ Shutdown \/ ShutdownStep \/ Killed \/ Start
           \/ UNCHANGED sessionsVars
  <2>1. UNCHANGED <<session, issued>>
    BY <1>3 DEF RotateUpsert, RotateDies, ConnectionLost, Shutdown, ShutdownStep, Drained,
           ForceClose, Disconnect, ExitClosed, Killed, Exit, Start, sessionsVars
  <2>2. QED
    BY <1>3, <2>1, OtherSteps
<1>4. QED
  BY <1>1, <1>2, <1>3 DEF SessionsNext, RowStep

LEMMA SessionsInvariant == SessionsSpec => []SessionsInv
<1>1. SessionsInit => SessionsInv
  <2>1. ASSUME SessionsInit PROVE RequestsFit /\ LoginsApart
    <3>1. \A h \in Handlers : handler[h] = Idle
      BY <2>1 DEF SessionsInit
    <3>2. Fits(Idle) /\ ~Unwritten(Idle)
      BY DEF Idle, Fits, Unwritten, Named
    <3>3. QED
      BY <3>1, <3>2 DEF RequestsFit, LoginsApart
  <2>2. ASSUME SessionsInit PROVE OnlyCrossingsSurvive /\ IssuedAreRows /\ NobodyWaits
    BY <2>2 DEF SessionsInit, OnlyCrossingsSurvive, IssuedAreRows, NobodyWaits, Stored, Unused
  <2>3. QED
    BY <2>1, <2>2, SessionsTypeInit DEF SessionsInv
<1>2. SessionsInv /\ [SessionsNext]_sessionsVars => SessionsInv'
  <2>1. ASSUME SessionsInv, [SessionsNext]_sessionsVars PROVE SessionsTypeOK' /\ NobodyWaits'
    BY <2>1, SessionsTypeStep, WaitersStep DEF SessionsInv
  <2>2. ASSUME SessionsInv, [SessionsNext]_sessionsVars PROVE Kept
    BY <2>2, SessionsStep
  <2>3. QED
    BY <2>1, <2>2 DEF SessionsInv, Kept
<1>3. QED
  BY <1>1, <1>2, PTL DEF SessionsSpec

(***************************************************************************)
(* Once a rotation is complete, every session not revoked was logged in    *)
(* with the account's present password, or by a login that had read the    *)
(* account before the rotation (crossed).                                  *)
(***************************************************************************)
THEOREM RotationEndsSessions == SessionsSpec => []OnlyCrossingsSurvive
BY SessionsInvariant, PTL DEF SessionsInv

(***************************************************************************)
(* A request behind authenticateToken acts only for a session that had not *)
(* ended when the request arrived: what has ended stays so until the       *)
(* authentication reads it, since no login can reuse its id.               *)
(***************************************************************************)
THEOREM ActsWithSession == SessionsSpec => []ActsOnlyWithSession
<1>1. SessionsInv => ActsOnlyWithSession
  BY DEF SessionsInv, RequestsFit, Fits, ActsOnlyWithSession
<1>2. QED
  BY <1>1, SessionsInvariant, PTL

(***************************************************************************)
(* The server ends its database pool only when no client waits for an      *)
(* answer, also when the timeout cut the connections of running handlers.  *)
(***************************************************************************)
THEOREM PoolEndsLast == SessionsSpec => []PoolEndsUnobserved
<1>1. SessionsInv => PoolEndsUnobserved
  BY DEF SessionsInv, NobodyWaits, PoolEndsUnobserved
<1>2. QED
  BY <1>1, SessionsInvariant, PTL

(***************************************************************************)
(* A session whose token some client holds and that has expired or was     *)
(* revoked is never accepted again: no later step makes its row valid.     *)
(***************************************************************************)
THEOREM EndedSessionsStayEnded == SessionsSpec => EndedStaysEnded
<1>1. ASSUME SessionsInv, [SessionsNext]_sessionsVars, NEW i \in issued, ~Valid(i)
      PROVE  ~Valid(i)'
  <2>1. i \in SessionIds /\ session[i] # Unused
    BY <1>1 DEF SessionsInv, SessionsTypeOK, IssuedAreRows
  <2>2. CASE RowsFade
    BY <1>1, <2>1, <2>2 DEF RowsFade, Fades
  <2>3. ASSUME NEW h \in Handlers, LoginCreate(h) PROVE ~Valid(i)'
    <3>1. session[handler[h].id] = Unused /\ SessionsTypeOK
      BY <1>1, <2>3, InsertFits DEF SessionsInv
    <3>2. session'[i] = session[i]
      BY <2>1, <2>3, <3>1, InsertedRow
    <3>3. QED
      BY <1>1, <3>2 DEF Valid
  <2>4. QED
    BY <1>1, <2>2, <2>3, SessionsStep
<1>2. SessionsInv /\ [SessionsNext]_sessionsVars =>
         [\A i \in issued : ~Valid(i) => ~Valid(i)']_sessionsVars
  BY <1>1
<1>3. QED
  BY <1>2, SessionsInvariant, PTL DEF SessionsSpec, EndedStaysEnded

-----------------------------------------------------------------------------
(***************************************************************************)
(* AdminSessions implements SessionRegister.  Two facts join the invariant *)
(* above: a request presents a token some client was given, and what its   *)
(* rows say of a session moves as the register lets it.                    *)
(***************************************************************************)
TokensGiven ==
    \A h \in Handlers : handler[h].at = "authenticate" => handler[h].id \in issued

RegisterInv == SessionsInv /\ TokensGiven

\* The register's state, named to keep it whole where it is not looked into.
PhaseOf == [i \in SessionIds |-> Phase(i)]
Rotating == rotation # "none"

\* Only an arriving call begins to authenticate, and tokens are never taken back.
LEMMA TokensStay ==
    ASSUME RegisterInv, [SessionsNext]_sessionsVars
    PROVE  TokensGiven'
<1> DEFINE NoneBegins ==
       \A h \in Handlers : handler'[h].at = "authenticate" => handler'[h] = handler[h]
<1>0. handler \in [Handlers -> Handler]
  BY DEF RegisterInv, SessionsInv, SessionsTypeOK
<1>1. Idle.at # "authenticate"
  BY DEF Idle
<1>2. ASSUME NoneBegins, issued \subseteq issued' PROVE TokensGiven'
  BY <1>2 DEF RegisterInv, TokensGiven
<1>3. ASSUME NEW h \in Handlers, NEW r, handler' = [handler EXCEPT ![h] = r],
             r.at # "authenticate"
      PROVE  NoneBegins
  BY <1>0, <1>3
<1>4. ASSUME NEW h \in Handlers, HandlerStep(h) PROVE TokensGiven'
  <2>1. issued \subseteq issued'
    BY <1>4 DEF HandlerStep, LoginFind, LoginCompare, LoginCreate, LoginAnswer,
                CallAuthenticate, CallAct, LogoutRevoke, LogoutAnswer, StatementFails
  <2>2. CASE Ends(h)
    BY <1>1, <1>2, <1>3, <2>1, <2>2 DEF Ends
  <2>3. ASSUME NEW r, Goes(h, r), r.at # "authenticate" PROVE TokensGiven'
    BY <1>2, <1>3, <2>1, <2>3 DEF Goes
  <2>4. CASE CallAuthenticate(h) /\ Goes(h, [handler[h] EXCEPT !.at = "act"])
    <3>1. [handler[h] EXCEPT !.at = "act"].at # "authenticate"
      <4>1. handler[h] \in Call
        BY <1>0, <2>4, HandlerShapes DEF CallAuthenticate, Querying
      <4>2. QED
        BY <4>1 DEF Call
    <3>2. QED
      BY <2>3, <2>4, <3>1
  <2>5. QED
    BY <1>4, <2>2, <2>3, <2>4
       DEF HandlerStep, LoginFind, LoginCompare, LoginCreate, LoginAnswer,
           CallAuthenticate, CallAct, LogoutRevoke, LogoutAnswer, StatementFails
<1>5. ASSUME NEW h \in Handlers, Arrival(h) PROVE TokensGiven'
  <2>1. ASSUME NEW i \in SessionIds, CallArrives(h, i) PROVE TokensGiven'
    <3>1. PICK o : o = ~Valid(i)
      OBVIOUS
    <3>2. /\ handler' = [handler EXCEPT ![h] = [at |-> "authenticate", id |-> i, over |-> o]]
          /\ i \in issued /\ issued' = issued
      BY <2>1, <3>1 DEF CallArrives, Accept
    <3>3. QED
      BY <1>0, <3>2 DEF RegisterInv, TokensGiven
  <2>2. ASSUME NEW r, Accept(h, r), UNCHANGED issued, r.at # "authenticate"
        PROVE  TokensGiven'
    BY <1>2, <1>3, <2>2 DEF Accept
  <2>3. ASSUME NEW p \in Passwords, NEW i \in SessionIds, LoginArrives(h, p, i)
        PROVE  TokensGiven'
    BY <2>2, <2>3 DEF LoginArrives
  <2>4. ASSUME NEW i \in SessionIds, LogoutArrives(h, i) PROVE TokensGiven'
    BY <2>2, <2>4 DEF LogoutArrives
  <2>5. QED
    BY <1>5, <2>1, <2>3, <2>4 DEF Arrival
<1>6. CASE Exit
  BY <1>1, <1>2, <1>6 DEF Exit
<1>7. CASE UNCHANGED <<handler, issued>>
  BY <1>2, <1>7
<1>8. QED
  BY <1>4, <1>5, <1>6, <1>7
     DEF SessionsNext, ConnectionLost, RotateUpsert, RotateRevoke, RotateDies, SessionAges,
         RevocationAges, CleanSessions, Shutdown, ShutdownStep, Drained, ForceClose,
         Disconnect, ExitClosed, Killed, Start, sessionsVars

\* A session ends as its row fades, the others stay as they were.
LEMMA PhasesFade ==
    ASSUME SessionsTypeOK, RowsFade
    PROVE  \E S \in SUBSET SessionIds :
              /\ S = {i \in SessionIds : Valid(i) /\ ~Valid(i)'}
              /\ S \subseteq Register!Opened
              /\ PhaseOf' = Register!Ended(S)
<1> DEFINE S == {i \in SessionIds : Valid(i) /\ ~Valid(i)'}
<1>1. \A i \in SessionIds : Valid(i) => session[i] # Unused
  BY RowOrNone DEF SessionsTypeOK, Valid
<1>2. \A i \in SessionIds :
         /\ (session'[i] = Unused) <=> (session[i] = Unused)
         /\ Valid(i)' => Valid(i)
  BY DEF RowsFade, Fades
<1>3. S \subseteq Register!Opened
  BY <1>1 DEF Register!Opened, Phase
<1>4. ASSUME NEW i \in SessionIds
      PROVE  Phase(i)' = IF i \in S THEN "ended" ELSE Phase(i)
  BY <1>1, <1>2 DEF Phase
<1>5. PhaseOf' = Register!Ended(S)
  BY <1>4 DEF PhaseOf, Register!Ended
<1>6. QED
  BY <1>3, <1>5

\* Requests are let through one at a time, or leave.
LEMMA AdmittedStays ==
    ASSUME SessionsTypeOK, NEW h \in Handlers, NEW r, handler' = [handler EXCEPT ![h] = r],
           r.at # "act"
    PROVE  /\ Admitted' \subseteq Admitted
           /\ handler[h].at # "act" => Admitted' = Admitted
<1>1. handler'[h] = r /\ \A g \in Handlers \ {h} : handler'[g] = handler[g]
  BY DEF SessionsTypeOK
<1>2. QED
  BY <1>1 DEF Admitted

LEMMA AdmittedEnds ==
    ASSUME SessionsTypeOK, NEW h \in Handlers, Ends(h)
    PROVE  /\ Admitted' \subseteq Admitted
           /\ handler[h].at # "act" => Admitted' = Admitted
<1>1. Idle.at # "act"
  BY DEF Idle
<1>2. PICK r : r = Idle
  OBVIOUS
<1>3. handler' = [handler EXCEPT ![h] = r] /\ r.at # "act"
  BY <1>1, <1>2 DEF Ends
<1>4. QED
  BY <1>3, AdmittedStays

LEMMA AdmittedJoins ==
    ASSUME SessionsTypeOK, NEW h \in Handlers, handler[h].at # "act",
           NEW r, handler' = [handler EXCEPT ![h] = r], r.at = "act", r.id = handler[h].id
    PROVE  /\ Admitted' = Admitted \cup {<<h, r.id>>}
           /\ \A a \in Admitted : a[1] # h
<1>1. handler'[h] = r /\ \A g \in Handlers \ {h} : handler'[g] = handler[g]
  BY DEF SessionsTypeOK
<1>2. QED
  BY <1>1 DEF Admitted

LEMMA PhasesStay ==
    ASSUME UNCHANGED session
    PROVE  PhaseOf' = PhaseOf
BY DEF PhaseOf, Phase, Valid

\* The register's steps and variables, by the names they have here.
LEMMA RegisterSteps ==
    /\ PhaseOf' = PhaseOf /\ issued' = issued /\ Admitted' = Admitted /\ Rotating' = Rotating
          => UNCHANGED Register!vars
    /\ \A S \in SUBSET SessionIds : Register!End(S) => Register!Next
    /\ \A i \in SessionIds : Register!HandOut(i) => Register!Next
    /\ \A i \in SessionIds : \A h \in Handlers : Register!Admit(h, i) => Register!Next
    /\ Register!Leave \/ Register!BeginRotation \/ Register!CompleteRotation => Register!Next
    /\ \A i \in SessionIds : Register!Open(i, {}) => Register!Next
BY DEF Register!Next, Register!vars, PhaseOf, Rotating

\* A step of a request's, its rows at most fading.
LEMMA FadingStep ==
    ASSUME SessionsTypeOK, RowsFade,
           UNCHANGED <<issued, rotation>>, Admitted' = Admitted
    PROVE  Register!Next
<1>1. PICK S \in SUBSET SessionIds : S \subseteq Register!Opened /\ PhaseOf' = Register!Ended(S)
  BY PhasesFade
<1>2. Register!End(S)
  BY <1>1 DEF Register!End, PhaseOf
<1>3. QED
  BY <1>2, RegisterSteps

LEMMA LeavingStep ==
    ASSUME UNCHANGED <<session, issued, rotation>>, Admitted' \subseteq Admitted
    PROVE  Register!Next
<1>1. Register!Leave
  BY PhasesStay DEF Register!Leave, PhaseOf
<1>2. QED
  BY <1>1, RegisterSteps

LEMMA StandingStep ==
    ASSUME UNCHANGED <<session, issued, handler, rotation>>
    PROVE  UNCHANGED Register!vars
<1>1. Admitted' = Admitted /\ Rotating' = Rotating
  BY DEF Admitted, Rotating
<1>2. QED
  BY <1>1, PhasesStay, RegisterSteps

LEMMA InsertOpens ==
    ASSUME SessionsInv, NEW h \in Handlers, LoginCreate(h)
    PROVE  Register!Next
<1>1. PICK i : i = handler[h].id
  OBVIOUS
<1>2. i \in SessionIds /\ session[i] = Unused
      /\ \A j \in SessionIds \ {i} : session'[j] = session[j]
  BY <1>1, InsertFits, InsertedRow DEF SessionsInv
<1>3. session'[i] # Unused /\ Valid(i)'
  <2>1. PICK c : c = (account # handler[h].typed)
    OBVIOUS
  <2>2. PICK p : p = handler[h].typed
    OBVIOUS
  <2>3. session' = [session EXCEPT ![i] = [age |-> "live", revoked |-> "no", secret |-> p,
                                           crossed |-> c]]
    BY <1>1, <2>1, <2>2 DEF LoginCreate
  <2>4. session'[i] = [age |-> "live", revoked |-> "no", secret |-> p, crossed |-> c]
    BY <1>2, <2>3 DEF SessionsInv, SessionsTypeOK
  <2>5. session'[i] # Unused
    BY <1>1, InsertedRow DEF SessionsInv
  <2>6. QED
    BY <2>4, <2>5 DEF Valid
<1>4. Phase(i) = "unborn" /\ Phase(i)' = "open"
      /\ \A j \in SessionIds \ {i} : Phase(j)' = Phase(j)
  BY <1>2, <1>3 DEF Phase, Valid
<1>5. PhaseOf' = [Register!Ended({}) EXCEPT ![i] = "open"]
  BY <1>2, <1>4 DEF PhaseOf, Register!Ended
<1>6. Admitted' = Admitted /\ UNCHANGED <<issued, rotation>>
  <2>1. PICK r : r = [at |-> "answer login", id |-> handler[h].id, typed |-> handler[h].typed]
    OBVIOUS
  <2>2. handler' = [handler EXCEPT ![h] = r] /\ r.at # "act" /\ handler[h].at # "act"
    BY <2>1 DEF LoginCreate, Goes, Querying
  <2>3. QED
    BY <2>2, AdmittedStays DEF SessionsInv, LoginCreate, Goes
<1>7. Register!Open(i, {})
  BY <1>2, <1>4, <1>5, <1>6 DEF Register!Open, PhaseOf
<1>8. QED
  BY <1>2, <1>7, RegisterSteps

LEMMA AnswerHandsOut ==
    ASSUME SessionsInv, NEW h \in Handlers, LoginAnswer(h)
    PROVE  [Register!Next]_(Register!vars)
<1>1. PICK i : i = handler[h].id
  OBVIOUS
<1>2. i \in SessionIds /\ session[i] # Unused
  <2>1. handler[h] \in Handler /\ Fits(handler[h]) /\ handler[h].at = "answer login"
    BY DEF LoginAnswer, SessionsInv, SessionsTypeOK, RequestsFit
  <2>2. QED
    BY <1>1, <2>1, HandlerShapes DEF Fits, Named
<1>3. Admitted' = Admitted /\ UNCHANGED <<session, rotation>>
  BY AdmittedEnds DEF LoginAnswer, SessionsInv
<1>4. CASE issued' = issued
  <2>1. Rotating' = Rotating
    BY <1>3 DEF Rotating
  <2>2. QED
    BY <1>3, <1>4, <2>1, PhasesStay, RegisterSteps
<1>5. CASE issued' = issued \cup {i}
  <2>1. Phase(i) # "unborn"
    BY <1>2 DEF Phase
  <2>2. Register!HandOut(i)
    BY <1>2, <1>3, <1>5, <2>1, PhasesStay DEF Register!HandOut, PhaseOf
  <2>3. QED
    BY <1>2, <2>2, RegisterSteps
<1>6. QED
  BY <1>1, <1>4, <1>5 DEF LoginAnswer

LEMMA AuthenticationAdmits ==
    ASSUME RegisterInv, NEW h \in Handlers, CallAuthenticate(h)
    PROVE  Register!Next
<1>1. PICK i : i = handler[h].id
  OBVIOUS
<1>2. /\ SessionsTypeOK /\ handler[h] \in Call /\ handler[h].at = "authenticate"
      /\ i \in SessionIds /\ i \in issued
  <2>1. SessionsTypeOK /\ handler[h] \in Handler /\ handler[h].at = "authenticate"
    BY DEF CallAuthenticate, Querying, RegisterInv, SessionsInv, SessionsTypeOK
  <2>2. QED
    BY <1>1, <2>1, HandlerShapes DEF RegisterInv, TokensGiven, Call
<1>3. UNCHANGED <<session, issued, rotation>>
  BY DEF CallAuthenticate
<1>4. CASE Ends(h)
  BY <1>2, <1>3, <1>4, AdmittedEnds, LeavingStep
<1>5. CASE Valid(i) /\ Goes(h, [handler[h] EXCEPT !.at = "act"])
  <2>1. PICK r : r = [handler[h] EXCEPT !.at = "act"]
    OBVIOUS
  <2>2. handler' = [handler EXCEPT ![h] = r] /\ r.at = "act" /\ r.id = handler[h].id
    BY <1>2, <1>5, <2>1 DEF Goes, Call
  <2>3. Admitted' = Admitted \cup {<<h, i>>} /\ \A a \in Admitted : a[1] # h
    BY <1>1, <1>2, <2>2, AdmittedJoins
  <2>4. session[i] # Unused
    BY <1>2 DEF RegisterInv, SessionsInv, IssuedAreRows
  <2>5. Phase(i) = "open"
    BY <1>5, <2>4 DEF Phase
  <2>6. Register!Admit(h, i)
    BY <1>2, <1>3, <2>3, <2>5, PhasesStay DEF Register!Admit, PhaseOf
  <2>7. QED
    BY <1>2, <2>6, RegisterSteps
<1>6. QED
  BY <1>1, <1>4, <1>5 DEF CallAuthenticate

\* A request of any other step leaves, or goes on without being let through.
LEMMA HandlersRegister ==
    ASSUME RegisterInv, NEW h \in Handlers, HandlerStep(h)
    PROVE  [Register!Next]_(Register!vars)
<1>0. SessionsInv /\ SessionsTypeOK
  BY DEF RegisterInv, SessionsInv
<1>1. CASE LoginCreate(h)
  BY <1>0, <1>1, InsertOpens
<1>2. CASE LoginAnswer(h)
  BY <1>0, <1>2, AnswerHandsOut
<1>3. CASE CallAuthenticate(h)
  BY <1>3, AuthenticationAdmits
<1>4. CASE CallAct(h) \/ LogoutAnswer(h) \/ StatementFails(h)
  <2>1. Ends(h) /\ UNCHANGED <<session, issued, rotation>>
    BY <1>4 DEF CallAct, LogoutAnswer, StatementFails
  <2>2. QED
    BY <1>0, <2>1, AdmittedEnds, LeavingStep
<1>5. ASSUME NEW r, Goes(h, r), r.at # "act", handler[h].at # "act",
             UNCHANGED <<issued, rotation>>, RowsFade
      PROVE  Register!Next
  <2>1. Admitted' = Admitted
    BY <1>0, <1>5, AdmittedStays DEF Goes
  <2>2. QED
    BY <1>0, <1>5, <2>1, FadingStep
<1>6. RowsFade \/ LoginCreate(h)
  BY <1>0, HandlerSteps
<1>7. CASE LoginFind(h)
  <2>1. UNCHANGED <<session, issued, rotation>> /\ RowsFade
    BY <1>0, <1>7, StillRows DEF LoginFind
  <2>2. CASE Ends(h)
    BY <1>0, <2>1, <2>2, AdmittedEnds, LeavingStep
  <2>3. CASE ~Ends(h)
    <3>1. PICK r : r = [at |-> "compare", id |-> handler[h].id, typed |-> handler[h].typed,
                        hash |-> account]
      OBVIOUS
    <3>2. Goes(h, r) /\ r.at # "act" /\ handler[h].at # "act"
      BY <1>7, <2>3, <3>1 DEF LoginFind, Querying
    <3>3. QED
      BY <1>5, <2>1, <3>2
  <2>4. QED
    BY <2>2, <2>3
<1>8. CASE LoginCompare(h)
  <2>1. UNCHANGED <<session, issued, rotation>> /\ RowsFade
    BY <1>0, <1>8, StillRows DEF LoginCompare
  <2>2. CASE Ends(h)
    BY <1>0, <2>1, <2>2, AdmittedEnds, LeavingStep
  <2>3. CASE ~Ends(h)
    <3>1. PICK r : r = [at |-> "create", id |-> handler[h].id, typed |-> handler[h].typed]
      OBVIOUS
    <3>2. Goes(h, r) /\ r.at # "act" /\ handler[h].at # "act"
      BY <1>8, <2>3, <3>1 DEF LoginCompare
    <3>3. QED
      BY <1>5, <2>1, <3>2
  <2>4. QED
    BY <2>2, <2>3
<1>9. CASE LogoutRevoke(h)
  <2>1. PICK r : r = [at |-> "answer logout", id |-> handler[h].id]
    OBVIOUS
  <2>2. /\ Goes(h, r) /\ r.at # "act" /\ handler[h].at # "act"
        /\ UNCHANGED <<issued, rotation>>
    BY <1>9, <2>1 DEF LogoutRevoke, Querying
  <2>3. CASE RowsFade
    BY <1>5, <2>2, <2>3
  <2>4. QED
    BY <1>1, <1>6, <2>3
<1>10. QED
  BY <1>1, <1>2, <1>3, <1>4, <1>7, <1>8, <1>9 DEF HandlerStep

LEMMA ArrivalsRegister ==
    ASSUME SessionsTypeOK, NEW h \in Handlers, Arrival(h)
    PROVE  Register!Next
<1>1. UNCHANGED <<session, issued, rotation>>
  BY DEF Arrival, LoginArrives, CallArrives, LogoutArrives
<1>2. ASSUME NEW r, Accept(h, r), r.at # "act" PROVE Register!Next
  BY <1>1, <1>2, AdmittedStays, LeavingStep DEF Accept
<1>3. ASSUME NEW p \in Passwords, NEW i \in SessionIds, LoginArrives(h, p, i)
      PROVE  Register!Next
  BY <1>2, <1>3 DEF LoginArrives
<1>4. ASSUME NEW i \in SessionIds, CallArrives(h, i)
      PROVE  Register!Next
  <2>1. PICK r : r = [at |-> "authenticate", id |-> i, over |-> ~Valid(i)]
    OBVIOUS
  <2>2. Accept(h, r) /\ r.at # "act"
    BY <1>4, <2>1 DEF CallArrives
  <2>3. QED
    BY <1>2, <2>2
<1>5. ASSUME NEW i \in SessionIds, LogoutArrives(h, i)
      PROVE  Register!Next
  BY <1>2, <1>5 DEF LogoutArrives
<1>6. QED
  BY <1>3, <1>4, <1>5 DEF Arrival

\* The second statement of the bootstrap script ends every open session.
LEMMA RotationCompletes ==
    ASSUME SessionsTypeOK, RotateRevoke
    PROVE  Register!CompleteRotation
<1>1. PICK S \in SUBSET SessionIds :
         /\ S = {i \in SessionIds : Valid(i) /\ ~Valid(i)'}
         /\ S \subseteq Register!Opened
         /\ PhaseOf' = Register!Ended(S)
  BY PhasesFade, RotationFades
<1>2. ASSUME NEW i \in SessionIds PROVE ~Valid(i)'
  BY RotationFades DEF Valid, Stored
<1>3. Register!Opened = {i \in SessionIds : Phase(i) = "open"}
  BY DEF Register!Opened
<1>4. S = Register!Opened
  BY <1>1, <1>2, <1>3 DEF Phase
<1>5. Admitted' = Admitted /\ issued' = issued
  BY DEF RotateRevoke, Admitted
<1>6. rotation # "none" /\ (rotation # "none")' = FALSE
  BY DEF RotateRevoke
<1>7. QED
  BY <1>1, <1>4, <1>5, <1>6 DEF Register!CompleteRotation, PhaseOf

LEMMA RowsRegister ==
    ASSUME SessionsTypeOK, RowStep
    PROVE  Register!Next
<1>1. CASE RotateRevoke
  BY <1>1, RotationCompletes, RegisterSteps
<1>2. CASE UNCHANGED rotation
  <2>1. RowsFade /\ UNCHANGED <<issued, handler>>
    BY RowStepsFade
  <2>2. Admitted' = Admitted
    BY <2>1 DEF Admitted
  <2>3. QED
    BY <1>2, <2>1, <2>2, FadingStep
<1>3. QED
  BY <1>1, <1>2 DEF RowStep, CleanSessions, SessionAges, RevocationAges

LEMMA OthersRegister ==
    ASSUME SessionsTypeOK,
           \/ \E p \in Passwords : RotateUpsert(p)
           \/ RotateDies
           \/ \E h \in Handlers : ConnectionLost(h)
           \/ Shutdown \/ ShutdownStep \/ Killed \/ Start
           \/ UNCHANGED sessionsVars
    PROVE  [Register!Next]_(Register!vars)
<1>1. ASSUME NEW p \in Passwords, RotateUpsert(p) PROVE Register!Next
  <2>1. Admitted' = Admitted /\ issued' = issued /\ UNCHANGED session
    BY <1>1 DEF RotateUpsert, Admitted
  <2>2. (rotation # "none")' = TRUE
    BY <1>1 DEF RotateUpsert
  <2>3. Register!BeginRotation
    BY <2>1, <2>2, PhasesStay DEF Register!BeginRotation, PhaseOf
  <2>4. QED
    BY <2>3, RegisterSteps
<1>2. CASE RotateDies
  <2>1. /\ Admitted' = Admitted /\ issued' = issued /\ UNCHANGED session
        /\ Rotating' = Rotating
    BY <1>2 DEF RotateDies, Admitted, Rotating
  <2>2. QED
    BY <2>1, PhasesStay, RegisterSteps
<1>3. CASE Exit
  <2>1. \A h \in Handlers : handler'[h] = Idle
    BY <1>3 DEF Exit
  <2>2. Idle.at # "act"
    BY DEF Idle
  <2>3. Admitted' \subseteq Admitted
    BY <2>1, <2>2 DEF Admitted
  <2>4. QED
    BY <1>3, <2>3, LeavingStep DEF Exit
<1>4. CASE UNCHANGED <<session, issued, handler, rotation>>
  BY <1>4, StandingStep
<1>5. QED
  BY <1>1, <1>2, <1>3, <1>4
     DEF ConnectionLost, Shutdown, ShutdownStep, Drained, ForceClose, Disconnect,
         ExitClosed, Killed, Start, sessionsVars

(***************************************************************************)
(* The requests, the session rows, the bootstrap script and the server     *)
(* together keep what SessionRegister promises of sessions: no step opens  *)
(* one that was open before, lets a request through for one that is not    *)
(* open or whose token nobody was given, or completes a rotation with an   *)
(* older session open.                                                     *)
(***************************************************************************)
THEOREM SessionsImplementRegister == SessionsSpec => RegisterSpec
<1>1. SessionsInit => TokensGiven /\ Register!Init
  <2>1. SUFFICES ASSUME SessionsInit PROVE TokensGiven /\ Register!Init
    OBVIOUS
  <2>2. \A h \in Handlers : handler[h] = Idle
    BY <2>1 DEF SessionsInit
  <2>3. Idle.at = "idle"
    BY DEF Idle
  <2>4. TokensGiven /\ Admitted = {}
    BY <2>2, <2>3 DEF TokensGiven, Admitted
  <2>5. PhaseOf \in [SessionIds -> {"unborn", "open", "ended"}]
    BY DEF PhaseOf, Phase
  <2>6. issued = {} /\ (rotation # "none") = FALSE
    BY <2>1 DEF SessionsInit
  <2>7. QED
    BY <2>4, <2>5, <2>6 DEF Register!Init, PhaseOf
<1>2. SessionsSpec => []RegisterInv
  <2>1. SessionsInv /\ TokensGiven /\ [SessionsNext]_sessionsVars => TokensGiven'
    BY TokensStay DEF RegisterInv
  <2>2. QED
    BY <1>1, <2>1, SessionsInvariant, PTL DEF SessionsSpec, RegisterInv
<1>3. RegisterInv /\ [SessionsNext]_sessionsVars => [Register!Next]_(Register!vars)
  <2>1. SUFFICES ASSUME RegisterInv, [SessionsNext]_sessionsVars
                 PROVE  [Register!Next]_(Register!vars)
    OBVIOUS
  <2>2. SessionsTypeOK
    BY <2>1 DEF RegisterInv, SessionsInv
  <2>3. QED
    BY <2>1, <2>2, HandlersRegister, ArrivalsRegister, RowsRegister, OthersRegister
       DEF SessionsNext, RowStep
<1>4. QED
  BY <1>1, <1>2, <1>3, PTL DEF SessionsSpec, RegisterSpec, Register!Spec

-----------------------------------------------------------------------------
(***************************************************************************)
(* What ServerFinishes rests on beside the fairness: a request, a row or a *)
(* shutdown never goes back.                                               *)
(***************************************************************************)
\* How many steps a request, a session's row and the server have left.
StepsLeft(at) ==
    IF at = "find" THEN 4
    ELSE IF at = "compare" THEN 3
    ELSE IF at \in {"create", "authenticate", "revoke"} THEN 2
    ELSE IF at \in {"answer login", "act", "answer logout"} THEN 1
    ELSE 0

AgesLeft(age) == IF age = "live" THEN 3 ELSE IF age = "expired" THEN 2 ELSE 1
RevocationsLeft(revoked) == IF revoked = "no" THEN 2 ELSE IF revoked = "lately" THEN 1 ELSE 0
ChangesLeft(r) ==
    IF r \in SessionRow THEN AgesLeft(r.age) + RevocationsLeft(r.revoked) ELSE 0

StatesLeft(s) ==
    IF s = "listening" THEN 4
    ELSE IF s = "draining" THEN 3
    ELSE IF s = "closed" THEN 2
    ELSE IF s = "disconnected" THEN 1
    ELSE 0

RequestsAdvance ==
    \A h \in Handlers :
        Busy(h) /\ handler'[h] # handler[h] =>
            StepsLeft(handler'[h].at) < StepsLeft(handler[h].at)

RowsAdvance ==
    \A i \in SessionIds :
        Stored(i) /\ session'[i] # session[i] =>
            ChangesLeft(session'[i]) < ChangesLeft(session[i])

ServerAdvances ==
    server # "exited" /\ server' # server => StatesLeft(server') < StatesLeft(server)

LEMMA StepCounts ==
    /\ StepsLeft("find") = 4 /\ StepsLeft("compare") = 3
    /\ StepsLeft("create") = 2 /\ StepsLeft("authenticate") = 2 /\ StepsLeft("revoke") = 2
    /\ StepsLeft("answer login") = 1 /\ StepsLeft("act") = 1 /\ StepsLeft("answer logout") = 1
    /\ StepsLeft("idle") = 0
BY DEF StepsLeft

LEMMA OneAdvances ==
    ASSUME SessionsTypeOK, NEW h \in Handlers, NEW r, handler' = [handler EXCEPT ![h] = r],
           Busy(h) => StepsLeft(r.at) < StepsLeft(handler[h].at)
    PROVE  RequestsAdvance
<1>1. handler'[h] = r /\ \A g \in Handlers \ {h} : handler'[g] = handler[g]
  BY DEF SessionsTypeOK
<1>2. QED
  BY <1>1 DEF RequestsAdvance

LEMMA BusySteps ==
    ASSUME SessionsTypeOK, NEW h \in Handlers, Busy(h)
    PROVE  0 < StepsLeft(handler[h].at)
<1>1. handler[h] \in Handler /\ handler[h] # Idle
  BY DEF SessionsTypeOK, Busy
<1>2. handler[h].at \in {"find", "compare", "create", "answer login", "authenticate", "act",
                         "revoke", "answer logout"}
  BY <1>1 DEF Handler, Login, Call, Logout
<1>3. PICK a : a = handler[h].at
  OBVIOUS
<1>4. \/ StepsLeft(a) = 1 \/ StepsLeft(a) = 2 \/ StepsLeft(a) = 3 \/ StepsLeft(a) = 4
  BY <1>2, <1>3, StepCounts
<1>5. QED
  BY <1>3, <1>4

LEMMA HandlersAdvance ==
    ASSUME SessionsTypeOK, NEW h \in Handlers, HandlerStep(h)
    PROVE  RequestsAdvance
<1>1. StepsLeft(Idle.at) = 0
  BY StepCounts DEF Idle
<1>2. CASE Ends(h)
  <2>1. PICK r : r = Idle
    OBVIOUS
  <2>2. handler' = [handler EXCEPT ![h] = r] /\ StepsLeft(r.at) = 0
    BY <1>1, <1>2, <2>1 DEF Ends
  <2>3. QED
    BY <2>2, BusySteps, OneAdvances
<1>3. ASSUME NEW r, Goes(h, r), StepsLeft(r.at) < StepsLeft(handler[h].at)
      PROVE  RequestsAdvance
  BY <1>3, OneAdvances DEF Goes
<1>4. CASE LoginFind(h) /\ ~Ends(h)
  <2>1. PICK r : r = [at |-> "compare", id |-> handler[h].id, typed |-> handler[h].typed,
                      hash |-> account]
    OBVIOUS
  <2>2. Goes(h, r) /\ r.at = "compare" /\ handler[h].at = "find"
    BY <1>4, <2>1 DEF LoginFind, Querying
  <2>3. StepsLeft(r.at) = 3 /\ StepsLeft(handler[h].at) = 4
    BY <2>2, StepCounts
  <2>4. StepsLeft(r.at) < StepsLeft(handler[h].at)
    BY <2>3
  <2>5. QED
    BY <1>3, <2>2, <2>4
<1>5. CASE LoginCompare(h) /\ ~Ends(h)
  <2>1. PICK r : r = [at |-> "create", id |-> handler[h].id, typed |-> handler[h].typed]
    OBVIOUS
  <2>2. Goes(h, r) /\ r.at = "create" /\ handler[h].at = "compare"
    BY <1>5, <2>1 DEF LoginCompare
  <2>3. StepsLeft(r.at) = 2 /\ StepsLeft(handler[h].at) = 3
    BY <2>2, StepCounts
  <2>4. StepsLeft(r.at) < StepsLeft(handler[h].at)
    BY <2>3
  <2>5. QED
    BY <1>3, <2>2, <2>4
<1>6. CASE LoginCreate(h)
  <2>1. PICK r : r = [at |-> "answer login", id |-> handler[h].id, typed |-> handler[h].typed]
    OBVIOUS
  <2>2. Goes(h, r) /\ r.at = "answer login" /\ handler[h].at = "create"
    BY <1>6, <2>1 DEF LoginCreate, Querying
  <2>3. StepsLeft(r.at) = 1 /\ StepsLeft(handler[h].at) = 2
    BY <2>2, StepCounts
  <2>4. StepsLeft(r.at) < StepsLeft(handler[h].at)
    BY <2>3
  <2>5. QED
    BY <1>3, <2>2, <2>4
<1>7. CASE CallAuthenticate(h) /\ ~Ends(h)
  <2>1. PICK r : r = [handler[h] EXCEPT !.at = "act"]
    OBVIOUS
  <2>2. Goes(h, r) /\ handler[h].at = "authenticate"
    BY <1>7, <2>1 DEF CallAuthenticate, Querying
  <2>3. handler[h] \in Call
    BY <2>2, HandlerShapes DEF SessionsTypeOK
  <2>4. r.at = "act"
    BY <2>1, <2>3 DEF Call
  <2>5. StepsLeft(r.at) = 1 /\ StepsLeft(handler[h].at) = 2
    BY <2>2, <2>4, StepCounts
  <2>6. StepsLeft(r.at) < StepsLeft(handler[h].at)
    BY <2>5
  <2>7. QED
    BY <1>3, <2>2, <2>6
<1>8. CASE LogoutRevoke(h)
  <2>1. PICK r : r = [at |-> "answer logout", id |-> handler[h].id]
    OBVIOUS
  <2>2. Goes(h, r) /\ r.at = "answer logout" /\ handler[h].at = "revoke"
    BY <1>8, <2>1 DEF LogoutRevoke, Querying
  <2>3. StepsLeft(r.at) = 1 /\ StepsLeft(handler[h].at) = 2
    BY <2>2, StepCounts
  <2>4. StepsLeft(r.at) < StepsLeft(handler[h].at)
    BY <2>3
  <2>5. QED
    BY <1>3, <2>2, <2>4
<1>9. QED
  BY <1>2, <1>4, <1>5, <1>6, <1>7, <1>8
     DEF HandlerStep, LoginFind, LoginCompare, LoginAnswer, CallAuthenticate, CallAct,
         LogoutAnswer, StatementFails

LEMMA RequestsAdvanceStep ==
    ASSUME SessionsTypeOK, [SessionsNext]_sessionsVars
    PROVE  RequestsAdvance
<1>1. ASSUME NEW h \in Handlers, Arrival(h) PROVE RequestsAdvance
  <2>1. ~Busy(h) /\ \E r : handler' = [handler EXCEPT ![h] = r]
    BY <1>1 DEF Arrival, LoginArrives, CallArrives, LogoutArrives, Accept
  <2>2. PICK r : handler' = [handler EXCEPT ![h] = r]
    BY <2>1
  <2>3. QED
    BY <2>1, <2>2, OneAdvances
<1>2. CASE Exit
  <2>1. \A h \in Handlers : handler'[h] = Idle
    BY <1>2 DEF Exit
  <2>2. StepsLeft(Idle.at) = 0
    BY StepCounts DEF Idle
  <2>3. QED
    BY <2>1, <2>2, BusySteps DEF RequestsAdvance
<1>3. CASE UNCHANGED handler
  BY <1>3 DEF RequestsAdvance
<1>4. QED
  BY <1>1, <1>2, <1>3, HandlersAdvance
     DEF SessionsNext, ConnectionLost, RotateUpsert, RotateRevoke, RotateDies, SessionAges,
         RevocationAges, CleanSessions, Shutdown, ShutdownStep, Drained, ForceClose,
         Disconnect, ExitClosed, Killed, Start, sessionsVars

\* What a row's ages and revocations count, and that its removal ends both.
LEMMA RowCounts ==
    /\ AgesLeft("live") = 3 /\ AgesLeft("expired") = 2 /\ AgesLeft("stale") = 1
    /\ RevocationsLeft("no") = 2 /\ RevocationsLeft("lately") = 1
    /\ RevocationsLeft("long ago") = 0
    /\ ChangesLeft(Removed) = 0
    /\ \A r \in SessionRow :
          /\ AgesLeft(r.age) \in 1..3 /\ RevocationsLeft(r.revoked) \in 0..2
          /\ ChangesLeft(r) = AgesLeft(r.age) + RevocationsLeft(r.revoked)
<1>1. ChangesLeft(Removed) = 0
  <2>1. Removed \notin SessionRow
    BY DEF Removed, SessionRow
  <2>2. QED
    BY <2>1 DEF ChangesLeft
<1>2. ASSUME NEW r \in SessionRow
      PROVE  /\ AgesLeft(r.age) \in 1..3 /\ RevocationsLeft(r.revoked) \in 0..2
             /\ ChangesLeft(r) = AgesLeft(r.age) + RevocationsLeft(r.revoked)
  BY DEF AgesLeft, RevocationsLeft, ChangesLeft
<1>3. QED
  BY <1>1, <1>2 DEF AgesLeft, RevocationsLeft

LEMMA StoredRow ==
    ASSUME SessionsTypeOK, NEW i \in SessionIds, Stored(i)
    PROVE  session[i] \in SessionRow
BY RowOrNone DEF SessionsTypeOK, Stored

LEMMA FewerAdded ==
    ASSUME NEW a \in 1..3, NEW m \in 0..2, NEW n \in 0..2, m < n
    PROVE  a + m < a + n
OBVIOUS

\* A row revoked or aged, or removed.
LEMMA RowRevoked ==
    ASSUME NEW r \in SessionRow, NEW e \in {"lately", "long ago"},
           RevocationsLeft(e) < RevocationsLeft(r.revoked)
    PROVE  ChangesLeft([r EXCEPT !.revoked = e]) < ChangesLeft(r)
<1>1. PICK z : z = [r EXCEPT !.revoked = e]
  OBVIOUS
<1>2. z \in SessionRow /\ z.age = r.age /\ z.revoked = e
  BY <1>1 DEF SessionRow
<1>3. /\ ChangesLeft(z) = AgesLeft(r.age) + RevocationsLeft(e)
      /\ ChangesLeft(r) = AgesLeft(r.age) + RevocationsLeft(r.revoked)
      /\ AgesLeft(r.age) \in 1..3 /\ RevocationsLeft(r.revoked) \in 0..2
      /\ RevocationsLeft(e) \in 0..2
  BY <1>2, RowCounts
<1>4. AgesLeft(r.age) + RevocationsLeft(e) < AgesLeft(r.age) + RevocationsLeft(r.revoked)
  BY <1>3, FewerAdded, Zenon
<1>5. ChangesLeft(z) < ChangesLeft(r)
  BY <1>3, <1>4, Zenon
<1>6. QED
  BY <1>1, <1>5

LEMMA RowAged ==
    ASSUME NEW r \in SessionRow, NEW a \in {"expired", "stale"},
           AgesLeft(a) < AgesLeft(r.age)
    PROVE  ChangesLeft([r EXCEPT !.age = a]) < ChangesLeft(r)
<1>1. PICK z : z = [r EXCEPT !.age = a]
  OBVIOUS
<1>2. z \in SessionRow /\ z.age = a /\ z.revoked = r.revoked
  BY <1>1 DEF SessionRow
<1>3. /\ ChangesLeft(z) = AgesLeft(a) + RevocationsLeft(r.revoked)
      /\ ChangesLeft(r) = AgesLeft(r.age) + RevocationsLeft(r.revoked)
      /\ AgesLeft(r.age) \in 1..3 /\ RevocationsLeft(r.revoked) \in 0..2
      /\ AgesLeft(a) \in 1..3
  BY <1>2, RowCounts
<1>4. ChangesLeft(z) < ChangesLeft(r)
  BY <1>3
<1>5. QED
  BY <1>1, <1>4

LEMMA OneRowAdvances ==
    ASSUME SessionsTypeOK, NEW i \in SessionIds, NEW r, session' = [session EXCEPT ![i] = r],
           Stored(i) => ChangesLeft(r) < ChangesLeft(session[i])
    PROVE  RowsAdvance
<1>1. session'[i] = r /\ \A j \in SessionIds \ {i} : session'[j] = session[j]
  BY DEF SessionsTypeOK
<1>2. QED
  BY <1>1 DEF RowsAdvance

LEMMA RowStepsAdvance ==
    ASSUME SessionsTypeOK, RowStep
    PROVE  RowsAdvance
<1>1. CASE RotateRevoke
  <2>1. SUFFICES ASSUME NEW i \in SessionIds, Stored(i), session'[i] # session[i]
                 PROVE  ChangesLeft(session'[i]) < ChangesLeft(session[i])
    BY DEF RowsAdvance
  <2>2. PICK r : r = session[i]
    OBVIOUS
  <2>3. r \in SessionRow /\ r.revoked = "no" /\ session'[i] = [r EXCEPT !.revoked = "lately"]
    BY <1>1, <2>1, <2>2, StoredRow DEF RotateRevoke
  <2>4. RevocationsLeft("lately") < RevocationsLeft(r.revoked)
    <3>1. RevocationsLeft("lately") = 1 /\ RevocationsLeft(r.revoked) = 2
      BY <2>3, RowCounts
    <3>2. QED
      BY <3>1
  <2>5. QED
    BY <2>2, <2>3, <2>4, RowRevoked
<1>2. CASE CleanSessions
  <2>1. SUFFICES ASSUME NEW i \in SessionIds, Stored(i), session'[i] # session[i]
                 PROVE  ChangesLeft(session'[i]) < ChangesLeft(session[i])
    BY DEF RowsAdvance
  <2>2. session'[i] = Removed
    BY <1>2, <2>1 DEF CleanSessions
  <2>3. 0 < ChangesLeft(session[i])
    <3>1. PICK r : r = session[i]
      OBVIOUS
    <3>2. r \in SessionRow
      BY <2>1, <3>1, StoredRow
    <3>3. /\ AgesLeft(r.age) \in 1..3 /\ RevocationsLeft(r.revoked) \in 0..2
          /\ ChangesLeft(r) = AgesLeft(r.age) + RevocationsLeft(r.revoked)
      BY <3>2, RowCounts
    <3>4. QED
      BY <3>1, <3>3
  <2>4. QED
    BY <2>2, <2>3, RowCounts
<1>3. ASSUME NEW i \in SessionIds, SessionAges(i) PROVE RowsAdvance
  <2>1. PICK r : r = session[i]
    OBVIOUS
  <2>2. r \in SessionRow /\ r.age # "stale"
    BY <1>3, <2>1, StoredRow DEF SessionAges
  <2>3. PICK a : a = IF r.age = "live" THEN "expired" ELSE "stale"
    OBVIOUS
  <2>4. PICK z : z = [r EXCEPT !.age = a]
    OBVIOUS
  <2>5. session' = [session EXCEPT ![i] = z]
    BY <1>3, <2>1, <2>3, <2>4 DEF SessionAges, SessionsTypeOK
  <2>6. a \in {"expired", "stale"} /\ AgesLeft(a) < AgesLeft(r.age)
    <3>1. r.age \in {"live", "expired"}
      BY <2>2 DEF SessionRow
    <3>2. CASE r.age = "live"
      <4>1. a = "expired" /\ AgesLeft(a) = 2 /\ AgesLeft(r.age) = 3
        BY <2>3, <3>2, RowCounts
      <4>2. QED
        BY <4>1
    <3>3. CASE r.age = "expired"
      <4>1. a = "stale" /\ AgesLeft(a) = 1 /\ AgesLeft(r.age) = 2
        BY <2>3, <3>3, RowCounts
      <4>2. QED
        BY <4>1
    <3>4. QED
      BY <3>1, <3>2, <3>3
  <2>7. ChangesLeft(z) < ChangesLeft(r)
    BY <2>2, <2>4, <2>6, RowAged
  <2>8. QED
    BY <2>1, <2>5, <2>7, OneRowAdvances
<1>4. ASSUME NEW i \in SessionIds, RevocationAges(i) PROVE RowsAdvance
  <2>1. PICK r : r = session[i]
    OBVIOUS
  <2>2. r \in SessionRow /\ r.revoked = "lately"
    BY <1>4, <2>1, StoredRow DEF RevocationAges
  <2>3. PICK z : z = [r EXCEPT !.revoked = "long ago"]
    OBVIOUS
  <2>4. session' = [session EXCEPT ![i] = z]
    BY <1>4, <2>1, <2>3 DEF RevocationAges, SessionsTypeOK
  <2>5. RevocationsLeft("long ago") < RevocationsLeft(r.revoked)
    <3>1. RevocationsLeft("long ago") = 0
      BY RowCounts
    <3>2. RevocationsLeft(r.revoked) = 1
      BY <2>2, RowCounts
    <3>3. 0 < 1
      OBVIOUS
    <3>4. QED
      BY <3>1, <3>2, <3>3, Zenon
  <2>6. ChangesLeft(z) < ChangesLeft(r)
    BY <2>2, <2>3, <2>5, RowRevoked
  <2>7. QED
    BY <2>1, <2>4, <2>6, OneRowAdvances
<1>5. QED
  BY <1>1, <1>2, <1>3, <1>4 DEF RowStep

LEMMA RowsAdvanceStep ==
    ASSUME SessionsInv, [SessionsNext]_sessionsVars
    PROVE  RowsAdvance
<1>0. SessionsTypeOK
  BY DEF SessionsInv
<1>1. ASSUME NEW h \in Handlers, LoginCreate(h) PROVE RowsAdvance
  <2>1. /\ session[handler[h].id] = Unused
        /\ \A j \in SessionIds \ {handler[h].id} : session'[j] = session[j]
    BY <1>0, <1>1, InsertFits, InsertedRow
  <2>2. \A i \in SessionIds : Stored(i) => session'[i] = session[i]
    BY <2>1 DEF Stored, Unused
  <2>3. QED
    BY <2>2 DEF RowsAdvance
<1>2. ASSUME NEW h \in Handlers, LogoutRevoke(h) PROVE RowsAdvance
  <2>1. CASE session' = session
    BY <2>1 DEF RowsAdvance
  <2>2. CASE session' # session
    <3>1. PICK i : i = handler[h].id
      OBVIOUS
    <3>2. PICK r : r = session[i]
      OBVIOUS
    <3>3. i \in SessionIds
      <4>1. handler[h] \in Logout
        BY <1>0, <1>2, HandlerShapes DEF SessionsTypeOK, LogoutRevoke, Querying
      <4>2. QED
        BY <3>1, <4>1 DEF Logout
    <3>4. PICK z : z = [r EXCEPT !.revoked = "lately"]
      OBVIOUS
    <3>5. /\ r.age = "live" /\ r.revoked = "no"
          /\ session' = [session EXCEPT ![i] = z]
      BY <1>0, <1>2, <2>2, <3>1, <3>2, <3>3, <3>4 DEF LogoutRevoke, Valid, SessionsTypeOK
    <3>6. r \in SessionRow
      BY <1>0, <3>2, <3>3, <3>5, StoredRow DEF Stored
    <3>7. RevocationsLeft("lately") < RevocationsLeft(r.revoked)
      <4>1. RevocationsLeft("lately") = 1 /\ RevocationsLeft(r.revoked) = 2
        BY <3>5, RowCounts
      <4>2. QED
        BY <4>1
    <3>8. ChangesLeft(z) < ChangesLeft(r)
      BY <3>4, <3>6, <3>7, RowRevoked
    <3>9. QED
      BY <1>0, <3>2, <3>3, <3>5, <3>8, OneRowAdvances
  <2>3. QED
    BY <2>1, <2>2
<1>3. CASE RowStep
  BY <1>0, <1>3, RowStepsAdvance
<1>4. CASE UNCHANGED session
  BY <1>4 DEF RowsAdvance
<1>5. QED
  BY <1>1, <1>2, <1>3, <1>4
     DEF SessionsNext, RowStep, Arrival, LoginArrives, CallArrives, LogoutArrives, HandlerStep,
         LoginFind, LoginCompare, LoginAnswer, CallAuthenticate, CallAct, LogoutAnswer,
         StatementFails, ConnectionLost, RotateUpsert, RotateDies, Shutdown, ShutdownStep,
         Drained, ForceClose, Disconnect, ExitClosed, Killed, Exit, Start, sessionsVars

LEMMA ServerAdvancesStep ==
    ASSUME SessionsTypeOK, [SessionsNext]_sessionsVars
    PROVE  ServerAdvances
<1>1. CASE Shutdown \/ ShutdownStep \/ Killed
  <2>1. /\ StatesLeft("listening") = 4 /\ StatesLeft("draining") = 3 /\ StatesLeft("closed") = 2
        /\ StatesLeft("disconnected") = 1 /\ StatesLeft("exited") = 0
    BY DEF StatesLeft
  <2>2. \/ server = "listening" /\ server' = "draining"
        \/ server = "draining" /\ server' = "closed"
        \/ server = "closed" /\ server' = "disconnected"
        \/ server' = "exited"
    BY <1>1 DEF Shutdown, ShutdownStep, Drained, ForceClose, Disconnect, ExitClosed, Killed, Exit
  <2>3. server \in {"listening", "draining", "closed", "disconnected", "exited"}
    BY DEF SessionsTypeOK
  <2>4. QED
    BY <2>1, <2>2, <2>3 DEF ServerAdvances
<1>2. CASE server = "exited" \/ server' = server
  BY <1>2 DEF ServerAdvances
<1>3. QED
  BY <1>1, <1>2
     DEF SessionsNext, Arrival, LoginArrives, CallArrives, LogoutArrives, HandlerStep,
         LoginFind, LoginCompare, LoginCreate, LoginAnswer, CallAuthenticate, CallAct,
         LogoutRevoke, LogoutAnswer, StatementFails, ConnectionLost, RotateUpsert,
         RotateRevoke, RotateDies, SessionAges, RevocationAges, CleanSessions, Start, sessionsVars

(***************************************************************************)
(* No request, row or shutdown ever goes back: an answer is at most four   *)
(* steps of the request's away, a row's removal five changes, the end of   *)
(* the process three states from the signal, whatever the others do.       *)
(***************************************************************************)
THEOREM SessionsAdvance ==
    SessionsSpec => [][RequestsAdvance /\ RowsAdvance /\ ServerAdvances]_sessionsVars
<1>1. SessionsInv /\ [SessionsNext]_sessionsVars =>
         [RequestsAdvance /\ RowsAdvance /\ ServerAdvances]_sessionsVars
  BY RequestsAdvanceStep, RowsAdvanceStep, ServerAdvancesStep DEF SessionsInv
<1>2. QED
  BY <1>1, SessionsInvariant, PTL DEF SessionsSpec
-----------------------------------------------------------------------------
(***************************************************************************)
(* The limits on logins.  What bounds the failures is inductive only with  *)
(* the requests that may still record one counted in: those that passed    *)
(* the inspection, and those it let pass on the window before.             *)
(***************************************************************************)
LEMMA AtStep ==
    ASSUME LimiterTypeOK, NEW l \in Logins
    PROVE  /\ login[l] = NoLogin \/ login[l] \in
                [at: {"attempt", "inspect", "compare", "record", "clear"}, age: 0..1]
           /\ login[l].age \in 0..1
           /\ login[l].at = "idle" <=> login[l] = NoLogin
           /\ login[l].at = "idle" => login[l].age = 0
<1>1. CASE login[l] = NoLogin
  BY <1>1 DEF NoLogin
<1>2. CASE login[l] \in [at: {"attempt", "inspect", "compare", "record", "clear"}, age: 0..1]
  <2>1. /\ login[l].age \in 0..1
        /\ login[l].at \in {"attempt", "inspect", "compare", "record", "clear"}
    BY <1>2
  <2>2. NoLogin.at = "idle"
    BY DEF NoLogin
  <2>3. QED
    BY <1>2, <2>1, <2>2
<1>3. QED
  BY <1>1, <1>2 DEF LimiterTypeOK, LoginStep

\* A request at its next step, or done, and the others where they are.
LEMMA OneLogin ==
    ASSUME LimiterTypeOK, NEW l \in Logins,
           NEW at \in {"idle", "attempt", "inspect", "compare", "record", "clear"},
           \/ at # "idle" /\ LoginGoes(l, at)
           \/ at = "idle" /\ LoginEnds(l)
    PROVE  /\ login' \in [Logins -> LoginStep]
           /\ login'[l].at = at /\ login'[l].age = 0
           /\ \A k \in Logins \ {l} : login'[k] = login[k]
<1> DEFINE r == [at |-> at, age |-> 0]
<1>1. login' = [login EXCEPT ![l] = r]
  BY DEF LoginGoes, LoginEnds, NoLogin
<1>2. r \in LoginStep /\ r.at = at /\ r.age = 0
  BY DEF LoginStep, NoLogin
<1> HIDE DEF r
<1>3. QED
  BY <1>1, <1>2 DEF LimiterTypeOK

\* A window passes for the requests in progress.
LEMMA LoginsLate ==
    ASSUME LimiterTypeOK, WindowPasses
    PROVE  /\ login' \in [Logins -> LoginStep]
           /\ \A l \in Logins :
                 /\ login[l].age = 0 /\ login'[l].at = login[l].at
                 /\ login'[l].age = IF login[l].at = "idle" THEN 0 ELSE 1
<1>1. ASSUME NEW l \in Logins
      PROVE  /\ login'[l] \in LoginStep
             /\ login[l].age = 0 /\ login'[l].at = login[l].at
             /\ login'[l].age = IF login[l].at = "idle" THEN 0 ELSE 1
  <2>1. CASE login[l].at = "idle"
    BY <2>1, AtStep DEF WindowPasses, LoginStep, NoLogin
  <2>2. CASE login[l].at # "idle"
    <3> DEFINE r == [login[l] EXCEPT !.age = 1]
    <3>1. login[l] \in [at: {"attempt", "inspect", "compare", "record", "clear"}, age: 0..1]
      BY <2>2, AtStep
    <3>2. r \in LoginStep /\ r.at = login[l].at /\ r.age = 1
      BY <3>1 DEF LoginStep
    <3>3. login'[l] = r
      BY <2>2 DEF WindowPasses
    <3> HIDE DEF r
    <3>4. QED
      BY <2>2, <3>2, <3>3 DEF WindowPasses
  <2>3. QED
    BY <2>1, <2>2
<1>2. login' \in [Logins -> LoginStep]
  BY <1>1 DEF WindowPasses
<1>3. QED
  BY <1>1, <1>2

LEMMA BucketsShift ==
    ASSUME NEW rows \in [Ages -> Nat]
    PROVE  /\ Shifted(rows) \in [Ages -> Nat]
           /\ Shifted(rows)[0] = 0 /\ Shifted(rows)[1] = rows[0]
           /\ Unexpired(rows) \in [Ages -> Nat]
           /\ Unexpired(rows)[0] = rows[0] /\ Unexpired(rows)[1] = rows[1]
BY DEF Shifted, Unexpired, Ages

LEMMA LimiterTypeStep ==
    ASSUME LimiterTypeOK, [LimiterNext]_limiterVars
    PROVE  LimiterTypeOK'
<1>0. AttemptLimit \in Nat /\ FailLimit \in Nat
  BY LimiterAssumption
<1>1. ASSUME NEW l \in Logins, LoginBegins(l) PROVE LimiterTypeOK'
  BY <1>1, OneLogin DEF LoginBegins, LimiterTypeOK
<1>2. ASSUME NEW l \in Logins, CountAttempt(l) PROVE LimiterTypeOK'
  <2>1. login[l].age \in Ages
    BY AtStep DEF Ages
  <2>2. attempts' \in [Ages -> Nat]
    BY <1>0, <1>2, <2>1 DEF CountAttempt, LimiterTypeOK, Counted
  <2>3. admitted' \in [Ages -> Nat]
    BY <1>2, <2>1 DEF CountAttempt, LimiterTypeOK
  <2>4. login' \in [Logins -> LoginStep]
    BY <1>2, OneLogin DEF CountAttempt
  <2>5. QED
    BY <1>2, <2>2, <2>3, <2>4 DEF CountAttempt, LimiterTypeOK
<1>3. ASSUME NEW l \in Logins, InspectFailures(l) \/ ComparePassword(l) PROVE LimiterTypeOK'
  <2>1. login' \in [Logins -> LoginStep]
    BY <1>3, OneLogin DEF InspectFailures, ComparePassword
  <2>2. QED
    BY <1>3, <2>1 DEF InspectFailures, ComparePassword, LimiterTypeOK
<1>4. ASSUME NEW l \in Logins, RecordFailure(l) \/ ClearFailures(l) PROVE LimiterTypeOK'
  <2>1. login' \in [Logins -> LoginStep]
    BY <1>4, OneLogin DEF RecordFailure, ClearFailures
  <2>2. failures' \in [Ages -> Nat]
    BY <1>4, AtStep DEF RecordFailure, ClearFailures, NoBuckets, LimiterTypeOK, Ages
  <2>3. QED
    BY <1>4, <2>1, <2>2 DEF RecordFailure, ClearFailures, LimiterTypeOK
<1>5. CASE WindowPasses
  BY <1>5, LoginsLate, BucketsShift DEF WindowPasses, LimiterTypeOK
<1>6. CASE PruneBuckets
  BY <1>6, BucketsShift DEF PruneBuckets, LimiterTypeOK
<1>7. CASE UNCHANGED limiterVars
  BY <1>7 DEF limiterVars, LimiterTypeOK
<1>8. QED
  BY <1>1, <1>2, <1>3, <1>4, <1>5, <1>6, <1>7 DEF LimiterNext, LoginStepOf

-----------------------------------------------------------------------------
LEMMA AdmittedStep ==
    ASSUME LimiterTypeOK, AdmittedExactly, [LimiterNext]_limiterVars
    PROVE  AdmittedExactly'
<1>0. AttemptLimit \in Nat \ {0}
  BY LimiterAssumption
<1>1. ASSUME NEW l \in Logins, CountAttempt(l) PROVE AdmittedExactly'
  <2> DEFINE a == login[l].age
  <2>1. a \in Ages
    BY AtStep DEF Ages
  <2>2. attempts[a] \in Nat /\ admitted[a] \in Nat
    BY <2>1 DEF LimiterTypeOK
  <2>3. /\ attempts'[a] = Counted(attempts[a])
        /\ \A b \in Ages \ {a} : attempts'[b] = attempts[b]
    BY <1>1, <2>1 DEF CountAttempt, LimiterTypeOK
  <2>4. /\ admitted'[a] = IF attempts'[a] <= AttemptLimit THEN admitted[a] + 1 ELSE admitted[a]
        /\ \A b \in Ages \ {a} : admitted'[b] = admitted[b]
    BY <1>0, <1>1, <2>1, <2>2, <2>3 DEF CountAttempt, LimiterTypeOK, Counted
  <2> HIDE DEF a
  <2>5. \A b \in 0..1 : admitted'[b] = IF attempts'[b] > AttemptLimit
                                       THEN AttemptLimit ELSE attempts'[b]
    BY <1>0, <2>1, <2>2, <2>3, <2>4 DEF AdmittedExactly, Counted, Ages
  <2>6. QED
    BY <2>5 DEF AdmittedExactly
<1>2. CASE WindowPasses
  BY <1>0, <1>2, BucketsShift DEF WindowPasses, LimiterTypeOK, AdmittedExactly
<1>3. CASE PruneBuckets
  BY <1>3, BucketsShift DEF PruneBuckets, LimiterTypeOK, AdmittedExactly
<1>4. CASE UNCHANGED <<attempts, admitted>>
  BY <1>4 DEF AdmittedExactly
<1>5. QED
  BY <1>1, <1>2, <1>3, <1>4 DEF LimiterNext, LoginStepOf, LoginBegins, InspectFailures,
     ComparePassword, RecordFailure, ClearFailures, limiterVars

-----------------------------------------------------------------------------
\* The requests that may record a failure in the present window without being
\* looked at again, and those about to in the window before.
Pending ==
    {l \in Logins : \/ login[l].at \in {"compare", "record"} /\ login[l].age = 0
                    \/ login[l].at \in {"inspect", "compare"} /\ login[l].age = 1}

Late == {l \in Logins : login[l].at = "record" /\ login[l].age = 1}

FailuresInv ==
    /\ failures[0] + Cardinality(Pending) < FailLimit + Cardinality(Logins)
    /\ failures[1] + Cardinality(Late) < FailLimit + Cardinality(Logins)

LEMMA Sizes ==
    /\ Cardinality(Logins) \in Nat
    /\ IsFiniteSet(Pending) /\ Cardinality(Pending) \in 0..Cardinality(Logins)
    /\ IsFiniteSet(Late) /\ Cardinality(Late) \in 0..Cardinality(Logins)
<1>1. IsFiniteSet(Logins)
  BY LimiterAssumption
<1>2. Pending \subseteq Logins /\ Late \subseteq Logins
  BY DEF Pending, Late
<1>3. QED
  BY <1>1, <1>2, FS_Subset, FS_CardinalityType

\* Fewer requests, no more of them.
LEMMA Fewer ==
    ASSUME NEW S, NEW T, IsFiniteSet(T), S \subseteq T
    PROVE  Cardinality(S) <= Cardinality(T) /\ IsFiniteSet(S)
BY FS_Subset

LEMMA FailuresStep ==
    ASSUME LimiterTypeOK, FailuresInv, [LimiterNext]_limiterVars
    PROVE  FailuresInv'
<1>0. /\ FailLimit \in Nat \ {0} /\ failures[0] \in Nat /\ failures[1] \in Nat
      /\ IsFiniteSet(Logins) /\ Cardinality(Logins) \in Nat
      /\ Cardinality(Pending) \in Nat /\ Cardinality(Late) \in Nat
  BY LimiterAssumption, Sizes DEF LimiterTypeOK, Ages
<1>1. /\ IsFiniteSet(Pending') /\ IsFiniteSet(Late')
      /\ Cardinality(Pending') \in 0..Cardinality(Logins)
      /\ Cardinality(Late') \in 0..Cardinality(Logins)
  <2>1. Pending' \subseteq Logins /\ Late' \subseteq Logins
    BY DEF Pending, Late
  <2>2. QED
    BY <1>0, <2>1, FS_Subset, FS_CardinalityType
\* A request that was not pending and passes the inspection: the failures it
\* saw are below the limit, and all requests are no more than Logins.
<1>2. ASSUME NEW l \in Logins, LoginBegins(l) \/ InspectFailures(l) \/ ComparePassword(l)
             \/ CountAttempt(l)
      PROVE  FailuresInv'
  <2>1. failures' = failures
    BY <1>2 DEF LoginBegins, InspectFailures, ComparePassword, CountAttempt
  <2>2. PICK at \in {"idle", "attempt", "inspect", "compare", "record", "clear"} :
           \/ at # "idle" /\ LoginGoes(l, at)
           \/ at = "idle" /\ LoginEnds(l)
    BY <1>2 DEF LoginBegins, InspectFailures, ComparePassword, CountAttempt
  <2>3. /\ login'[l].at = at /\ login'[l].age = 0
        /\ \A k \in Logins \ {l} : login'[k] = login[k]
    BY <2>2, OneLogin
  <2>4. Cardinality(Late') <= Cardinality(Late)
    BY <2>3, Sizes, Fewer DEF Late
  <2>5. Pending' \subseteq Pending \/ failures[0] < FailLimit
    <3>1. CASE InspectFailures(l) /\ login[l].age = 0
      <4>1. CASE LoginEnds(l)
        <5>1. login'[l].at = "idle"
          BY <4>1, OneLogin
        <5>2. QED
          BY <2>3, <5>1 DEF Pending
      <4>2. QED
        BY <3>1, <4>1 DEF InspectFailures
    <3>2. CASE InspectFailures(l) /\ login[l].age = 1
      BY <3>2, <2>3 DEF InspectFailures, Pending
    <3>3. CASE ComparePassword(l)
      BY <3>3, <2>3, AtStep DEF ComparePassword, Pending
    <3>4. CASE LoginBegins(l) \/ CountAttempt(l)
      <4>1. login'[l].at \in {"idle", "attempt", "inspect"} /\ login'[l].age = 0
        BY <3>4, OneLogin DEF LoginBegins, CountAttempt
      <4>2. l \notin Pending'
        BY <4>1 DEF Pending
      <4>3. QED
        BY <2>3, <4>2 DEF Pending
    <3>5. QED
      BY <1>2, <3>1, <3>2, <3>3, <3>4, AtStep
  <2>6. CASE Pending' \subseteq Pending
    <3>1. Cardinality(Pending') <= Cardinality(Pending)
      BY <2>6, Sizes, Fewer
    <3>2. QED
      BY <1>0, <1>1, <2>1, <2>4, <3>1 DEF FailuresInv
  <2>7. CASE failures[0] < FailLimit
    BY <1>0, <1>1, <2>1, <2>4, <2>7 DEF FailuresInv
  <2>8. QED
    BY <2>5, <2>6, <2>7
<1>3. ASSUME NEW l \in Logins, RecordFailure(l) PROVE FailuresInv'
  <2>1. /\ login'[l].at = "idle" /\ login'[l].age = 0
        /\ \A k \in Logins \ {l} : login'[k] = login[k]
    BY <1>3, OneLogin DEF RecordFailure
  <2>2. CASE login[l].age = 0
    <3>1. l \in Pending /\ Pending' = Pending \ {l} /\ Late' = Late
      BY <1>3, <2>1, <2>2 DEF RecordFailure, Pending, Late
    <3>2. Cardinality(Pending') = Cardinality(Pending) - 1
      BY <3>1, Sizes, FS_RemoveElement
    <3>3. failures'[0] = failures[0] + 1 /\ failures'[1] = failures[1]
      BY <1>3, <2>2 DEF RecordFailure, LimiterTypeOK, Ages
    <3>4. QED
      BY <1>0, <3>1, <3>2, <3>3 DEF FailuresInv
  <2>3. CASE login[l].age = 1
    <3>1. l \in Late /\ Late' = Late \ {l} /\ Pending' = Pending
      BY <1>3, <2>1, <2>3 DEF RecordFailure, Pending, Late
    <3>2. Cardinality(Late') = Cardinality(Late) - 1
      BY <3>1, Sizes, FS_RemoveElement
    <3>3. failures'[1] = failures[1] + 1 /\ failures'[0] = failures[0]
      BY <1>3, <2>3 DEF RecordFailure, LimiterTypeOK, Ages
    <3>4. QED
      BY <1>0, <3>1, <3>2, <3>3 DEF FailuresInv
  <2>4. QED
    BY <2>2, <2>3, AtStep
<1>4. ASSUME NEW l \in Logins, ClearFailures(l) PROVE FailuresInv'
  <2>1. failures'[0] = 0 /\ failures'[1] = 0
    BY <1>4 DEF ClearFailures, NoBuckets, Ages
  <2>2. QED
    BY <1>0, <1>1, <2>1 DEF FailuresInv
<1>5. CASE WindowPasses
  <2>1. failures'[0] = 0 /\ failures'[1] = failures[0]
    BY <1>5, BucketsShift DEF WindowPasses, LimiterTypeOK
  <2>2. Late' \subseteq Pending
    BY <1>5, LoginsLate DEF Late, Pending
  <2>3. Cardinality(Late') <= Cardinality(Pending)
    BY <2>2, Sizes, Fewer
  <2>4. QED
    BY <1>0, <1>1, <2>1, <2>3 DEF FailuresInv
<1>6. CASE PruneBuckets
  <2>1. failures'[0] = failures[0] /\ failures'[1] = failures[1] /\ login' = login
    BY <1>6, BucketsShift DEF PruneBuckets, LimiterTypeOK
  <2>2. Pending' = Pending /\ Late' = Late
    BY <2>1 DEF Pending, Late
  <2>3. QED
    BY <2>1, <2>2 DEF FailuresInv
<1>7. CASE UNCHANGED limiterVars
  BY <1>7 DEF limiterVars, FailuresInv, Pending, Late
<1>8. QED
  BY <1>2, <1>3, <1>4, <1>5, <1>6, <1>7 DEF LimiterNext, LoginStepOf

LEMMA LimiterInitially ==
    ASSUME LimiterInit
    PROVE  LimiterTypeOK /\ AdmittedExactly /\ FailuresInv
<1>0. AttemptLimit \in Nat \ {0} /\ FailLimit \in Nat \ {0}
  BY LimiterAssumption
<1>1. LimiterTypeOK
  BY DEF LimiterInit, LimiterTypeOK, NoBuckets, Ages, LoginStep
<1>2. AdmittedExactly
  BY <1>0 DEF LimiterInit, AdmittedExactly, NoBuckets, Ages
<1>3. Pending = {} /\ Late = {}
  BY DEF LimiterInit, Pending, Late, NoLogin
<1>4. failures[0] = 0 /\ failures[1] = 0
  BY DEF LimiterInit, NoBuckets, Ages
<1>5. FailuresInv
  BY <1>0, <1>3, <1>4, Sizes, FS_EmptySet DEF FailuresInv
<1>6. QED
  BY <1>1, <1>2, <1>5

(***************************************************************************)
(* For every limit and any number of concurrent requests: a window lets    *)
(* through exactly the attempts counted in it up to the limit, and counts  *)
(* at most as many failures beyond theirs as there are other requests.     *)
(***************************************************************************)
THEOREM LoginLimitsHold == LimiterSpec => []LimitsHold
<1> DEFINE Inv == LimiterTypeOK /\ AdmittedExactly /\ FailuresInv
<1>1. LimiterInit => Inv
  BY LimiterInitially
<1>2. Inv /\ [LimiterNext]_limiterVars => Inv'
  BY LimiterTypeStep, AdmittedStep, FailuresStep
<1>3. Inv => LimitsHold
  <2>1. SUFFICES ASSUME LimiterTypeOK, AdmittedExactly, FailuresInv PROVE FailuresBounded
    BY DEF LimitsHold
  <2>2. failures[0] \in Nat /\ failures[1] \in Nat /\ FailLimit \in Nat
    BY <2>1, LimiterAssumption DEF LimiterTypeOK, Ages
  <2>3. QED
    BY <2>1, <2>2, Sizes DEF FailuresInv, FailuresBounded
<1>4. QED
  BY <1>1, <1>2, <1>3, PTL DEF LimiterSpec

(***************************************************************************)
(* The attempts and failures counted, and the requests, keep their types.  *)
(***************************************************************************)
THEOREM LimiterTypeCorrect == LimiterSpec => []LimiterTypeOK
<1>1. LimiterInit => LimiterTypeOK
  BY LimiterInitially
<1>2. LimiterTypeOK /\ [LimiterNext]_limiterVars => LimiterTypeOK'
  BY LimiterTypeStep
<1>3. QED
  BY <1>1, <1>2, PTL DEF LimiterSpec

-----------------------------------------------------------------------------
(***************************************************************************)
(* The services together, as they are model-checked.                       *)
(***************************************************************************)
\* A step of the composition is one of the service followed, and none of the
\* others.
LEMMA ServicesSteps ==
    ASSUME [ServicesNext]_servicesVars
    PROVE  /\ [SessionsNext]_sessionsVars /\ [LimiterNext]_limiterVars /\ [Next]_vars
BY DEF ServicesNext, servicesVars

(***************************************************************************)
(* Whichever service its initial state picks, a behaviour of the           *)
(* composition is one of each: what is proved of the sessions, the limits  *)
(* and the artifacts holds where they are checked together.                *)
(***************************************************************************)
THEOREM ServicesAreTheirComponents ==
    ServicesSpec => SessionsSpec /\ LimiterSpec /\ Spec
<1>1. ServicesInit => SessionsInit /\ LimiterInit /\ Init
  BY DEF ServicesInit
<1>2. QED
  BY <1>1, ServicesSteps, PTL DEF ServicesSpec, SessionsSpec, LimiterSpec, Spec
=============================================================================
