--------------------------- MODULE AdminSessions ---------------------------
(***************************************************************************)
(* Administrator sessions and the server process that serves them.         *)
(*                                                                         *)
(* A login reads the account, compares the password, inserts a session and *)
(* answers with its token: four awaits, between which the account may be   *)
(* rotated by auth:bootstrap-admin, rows may be revoked or pruned, and the *)
(* server may drain, lose its database pool or die.  Every action is the   *)
(* code between two awaits.                                                *)
(***************************************************************************)
EXTENDS Naturals, FiniteSets

CONSTANTS
    Passwords,      \* passwords an administrator may configure or type
    SessionIds,     \* ids (cuid) sessions may get; none is ever reused
    Handlers,       \* slots for concurrent requests
    NoPassword      \* the account before the first bootstrap

ASSUME SessionsAssumption == NoPassword \notin Passwords

VARIABLES
    account,        \* the password whose hash the User row holds
    session,        \* session[i]: the AuthSession row i
    issued,         \* the sessions whose token some client received
    handler,        \* handler[h]: a request in progress
    connected,      \* the requests whose connection is still open
    rotation,       \* how far the bootstrap script got
    server          \* the server process

sessionsVars == <<account, session, issued, handler, connected, rotation, server>>

-----------------------------------------------------------------------------
(***************************************************************************)
(* State.                                                                  *)
(***************************************************************************)

\* age: within its 7 days, past them, or past them by the 7 days of the
\* cleanup; revoked: not, lately, or more than 7 days ago.  Auxiliary:
\* secret, the password compared by the login; crossed, whether the account
\* had been rotated between that login's reading of it and its insert.
SessionRow ==
    [age: {"live", "expired", "stale"}, revoked: {"no", "lately", "long ago"},
     secret: Passwords, crossed: BOOLEAN]

\* A row not yet inserted, or removed.
NoRow == [age: {"unused", "removed"}]

Unused == [age |-> "unused"]
Removed == [age |-> "removed"]

Idle == [at |-> "idle"]

Login == [at: {"find"}, id: SessionIds, typed: Passwords]
         \cup [at: {"compare"}, id: SessionIds, typed: Passwords, hash: Passwords]
         \cup [at: {"create", "answer login"}, id: SessionIds, typed: Passwords]

\* "over": the session had ended before the request arrived.
Call == [at: {"authenticate", "act"}, id: SessionIds, over: BOOLEAN]

Logout == [at: {"revoke", "answer logout"}, id: SessionIds]

Handler == {Idle} \cup Login \cup Call \cup Logout

SessionsTypeOK ==
    /\ account \in Passwords \cup {NoPassword}
    /\ session \in [SessionIds -> SessionRow \cup NoRow]
    /\ issued \subseteq SessionIds
    /\ handler \in [Handlers -> Handler]
    /\ connected \subseteq Handlers
    /\ rotation \in {"none", "revoking", "abandoned"}
    /\ server \in {"listening", "draining", "closed", "disconnected", "exited"}

Busy(h) == handler[h] # Idle

Stored(i) == session[i].age \notin {"unused", "removed"}

\* authenticateSession accepts it; the token expires with the row.
Valid(i) == session[i].age = "live" /\ session[i].revoked = "no"

\* Ids of the logins in progress, which their inserts will use.
Reserved == {handler[h].id : h \in {g \in Handlers : handler[g] \in Login}}

SessionsInit ==
    /\ account = NoPassword
    /\ session = [i \in SessionIds |-> Unused]
    /\ issued = {}
    /\ handler = [h \in Handlers |-> Idle]
    /\ connected = {}
    /\ rotation = "none"
    /\ server = "listening"

-----------------------------------------------------------------------------
(***************************************************************************)
(* Requests.  One arrives on a new connection, or on a kept-alive one even *)
(* while the server drains.                                                *)
(***************************************************************************)
Accept(h, r) ==
    /\ server \in {"listening", "draining"}
    /\ ~Busy(h)
    /\ handler' = [handler EXCEPT ![h] = r]
    /\ connected' = connected \cup {h}

Ends(h) ==
    /\ handler' = [handler EXCEPT ![h] = Idle]
    /\ connected' = connected \ {h}

\* A statement needs the pool; without it the handler throws.
Querying(h, step) == handler[h].at = step /\ server # "disconnected"

Goes(h, r) == handler' = [handler EXCEPT ![h] = r] /\ UNCHANGED connected

\* The client went away, or a socket timeout destroyed its connection.
ConnectionLost(h) ==
    /\ h \in connected
    /\ connected' = connected \ {h}
    /\ UNCHANGED <<account, session, issued, handler, rotation, server>>

\* A statement failed, or the pool has ended: the error middleware answers.
\* Before it answers, a login clears the limiter's rows: a statement too.
StatementFails(h) ==
    /\ Busy(h)
    /\ handler[h].at \in {"find", "create", "answer login", "authenticate", "revoke"}
    /\ Ends(h)
    /\ UNCHANGED <<account, session, issued, rotation, server>>

\* POST /api/auth/login, past the rate limits.
LoginArrives(h, p, i) ==
    /\ session[i] = Unused /\ i \notin Reserved
    /\ Accept(h, [at |-> "find", id |-> i, typed |-> p])
    /\ UNCHANGED <<account, session, issued, rotation, server>>

\* Mutant: an account that is not there is not refused.
LoginFindAny(h) ==
    /\ Querying(h, "find")
    /\ Goes(h, [at |-> "compare", id |-> handler[h].id,
                typed |-> handler[h].typed, hash |-> account])
    /\ UNCHANGED <<account, session, issued, rotation, server>>
LoginFind(h) ==
    /\ Querying(h, "find")
    /\ \/ /\ account = NoPassword
          /\ Ends(h)
       \/ /\ account # NoPassword
          /\ Goes(h, [at |-> "compare", id |-> handler[h].id,
                      typed |-> handler[h].typed, hash |-> account])
    /\ UNCHANGED <<account, session, issued, rotation, server>>

\* Mutant: a wrong password is not answered.
LoginCompareSilent(h) ==
    /\ handler[h].at = "compare"
    /\ handler[h].typed = handler[h].hash
    /\ Goes(h, [at |-> "create", id |-> handler[h].id, typed |-> handler[h].typed])
    /\ UNCHANGED <<account, session, issued, rotation, server>>
LoginCompare(h) ==
    /\ handler[h].at = "compare"
    /\ \/ /\ handler[h].typed # handler[h].hash
          /\ Ends(h)
       \/ /\ handler[h].typed = handler[h].hash
          /\ Goes(h, [at |-> "create", id |-> handler[h].id, typed |-> handler[h].typed])
    /\ UNCHANGED <<account, session, issued, rotation, server>>

LoginCreate(h) ==
    /\ Querying(h, "create")
    /\ session' = [session EXCEPT ![handler[h].id] =
                     [age |-> "live", revoked |-> "no", secret |-> handler[h].typed,
                      crossed |-> account # handler[h].typed]]
    /\ Goes(h, [at |-> "answer login", id |-> handler[h].id, typed |-> handler[h].typed])
    /\ UNCHANGED <<account, issued, rotation, server>>

\* The token leaves with the answer, if anybody is still there to take it.
LoginAnswer(h) ==
    /\ handler[h].at = "answer login"
    /\ issued' = IF h \in connected THEN issued \cup {handler[h].id} ELSE issued
    /\ Ends(h)
    /\ UNCHANGED <<account, session, rotation, server>>

\* Any request behind authenticateToken.
CallArrives(h, i) ==
    /\ i \in issued
    /\ Accept(h, [at |-> "authenticate", id |-> i, over |-> ~Valid(i)])
    /\ UNCHANGED <<account, session, issued, rotation, server>>

\* Mutant: a row is enough, also a revoked one.
AuthenticateRow(h) ==
    /\ Querying(h, "authenticate")
    /\ IF Stored(handler[h].id) THEN Goes(h, [handler[h] EXCEPT !.at = "act"]) ELSE Ends(h)
    /\ UNCHANGED <<account, session, issued, rotation, server>>
CallAuthenticate(h) ==
    /\ Querying(h, "authenticate")
    /\ \/ /\ Valid(handler[h].id)
          /\ Goes(h, [handler[h] EXCEPT !.at = "act"])
       \/ /\ ~Valid(handler[h].id)
          /\ Ends(h)
    /\ UNCHANGED <<account, session, issued, rotation, server>>

CallAct(h) ==
    /\ handler[h].at = "act"
    /\ Ends(h)
    /\ UNCHANGED <<account, session, issued, rotation, server>>

\* POST /api/auth/logout.
LogoutArrives(h, i) ==
    /\ i \in issued
    /\ Accept(h, [at |-> "revoke", id |-> i])
    /\ UNCHANGED <<account, session, issued, rotation, server>>

\* An expired token does not verify; a row revoked before is left as it is.
LogoutRevoke(h) ==
    /\ Querying(h, "revoke")
    /\ session' = IF Valid(handler[h].id)
                  THEN [session EXCEPT ![handler[h].id].revoked = "lately"]
                  ELSE session
    /\ Goes(h, [at |-> "answer logout", id |-> handler[h].id])
    /\ UNCHANGED <<account, issued, rotation, server>>

LogoutAnswer(h) ==
    /\ handler[h].at = "answer logout"
    /\ Ends(h)
    /\ UNCHANGED <<account, session, issued, rotation, server>>

-----------------------------------------------------------------------------
(***************************************************************************)
(* auth:bootstrap-admin: two statements of a process of its own, which may *)
(* die between them and be run again.                                      *)
(***************************************************************************)
RotateUpsert(p) ==
    /\ rotation # "revoking"
    /\ account' = p
    /\ rotation' = "revoking"
    /\ UNCHANGED <<session, issued, handler, connected, server>>

\* Mutant: no session is revoked.
RotateOnly ==
    /\ rotation = "revoking" /\ rotation' = "none"
    /\ UNCHANGED <<account, session, issued, handler, connected, server>>
\* revokeAllSessionsForUser.
RotateRevoke ==
    /\ rotation = "revoking"
    /\ session' = [i \in SessionIds |->
                     IF Stored(i) /\ session[i].revoked = "no"
                     THEN [session[i] EXCEPT !.revoked = "lately"]
                     ELSE session[i]]
    /\ rotation' = "none"
    /\ UNCHANGED <<account, issued, handler, connected, server>>

RotateDies ==
    /\ rotation = "revoking"
    /\ rotation' = "abandoned"
    /\ UNCHANGED <<account, session, issued, handler, connected, server>>

-----------------------------------------------------------------------------
(***************************************************************************)
(* Time and the scheduled cleanup.                                         *)
(***************************************************************************)
SessionAges(i) ==
    /\ Stored(i) /\ session[i].age # "stale"
    /\ session' = [session EXCEPT ![i].age = IF @ = "live" THEN "expired" ELSE "stale"]
    /\ UNCHANGED <<account, issued, handler, connected, rotation, server>>

\* A session lives as long as the cleanup's retention, so a revocation is not
\* past the retention before the session has expired.
RevocationAges(i) ==
    /\ Stored(i) /\ session[i].revoked = "lately" /\ session[i].age # "live"
    /\ session' = [session EXCEPT ![i].revoked = "long ago"]
    /\ UNCHANGED <<account, issued, handler, connected, rotation, server>>

\* Mutant: only revoked sessions are removed.
StaleRevoked(i) == Stored(i) /\ session[i].revoked = "long ago"
\* What deleteStaleSessions removes.
Stale(i) == Stored(i) /\ (session[i].age = "stale" \/ session[i].revoked = "long ago")

CleanSessions ==
    /\ \E i \in SessionIds : Stale(i)
    /\ session' = [i \in SessionIds |-> IF Stale(i) THEN Removed ELSE session[i]]
    /\ UNCHANGED <<account, issued, handler, connected, rotation, server>>

-----------------------------------------------------------------------------
(***************************************************************************)
(* The server process: startServer's close, on a signal or an error no     *)
(* handler caught.                                                         *)
(***************************************************************************)
Shutdown ==
    /\ server = "listening"
    /\ server' = "draining"
    /\ UNCHANGED <<account, session, issued, handler, connected, rotation>>

\* server.close calls back once every connection is gone.
Drained ==
    /\ server = "draining"
    /\ connected = {}
    /\ server' = "closed"
    /\ UNCHANGED <<account, session, issued, handler, connected, rotation>>

\* Mutants: there is no timeout; the connections are left open.
ForceNever == FALSE /\ UNCHANGED sessionsVars
ForceLeaving ==
    /\ server = "draining"
    /\ server' = "closed"
    /\ UNCHANGED <<account, session, issued, handler, connected, rotation>>
\* SHUTDOWN_TIMEOUT_MS: closeAllConnections.  The handlers run on.
ForceClose ==
    /\ server = "draining"
    /\ server' = "closed"
    /\ connected' = {}
    /\ UNCHANGED <<account, session, issued, handler, rotation>>

Disconnect ==
    /\ server = "closed"
    /\ server' = "disconnected"
    /\ UNCHANGED <<account, session, issued, handler, connected, rotation>>

\* process.exit after the close, or the process dying at any other time.
Exit ==
    /\ server' = "exited"
    /\ handler' = [h \in Handlers |-> Idle]
    /\ connected' = {}
    /\ UNCHANGED <<account, session, issued, rotation>>

ExitClosed == server = "disconnected" /\ Exit

Killed == server # "exited" /\ Exit

Start ==
    /\ server = "exited"
    /\ server' = "listening"
    /\ UNCHANGED <<account, session, issued, handler, connected, rotation>>

-----------------------------------------------------------------------------
HandlerStep(h) ==
    \/ LoginFind(h) \/ LoginCompare(h) \/ LoginCreate(h) \/ LoginAnswer(h)
    \/ CallAuthenticate(h) \/ CallAct(h)
    \/ LogoutRevoke(h) \/ LogoutAnswer(h)
    \/ StatementFails(h)

Arrival(h) ==
    \/ \E p \in Passwords, i \in SessionIds : LoginArrives(h, p, i)
    \/ \E i \in SessionIds : CallArrives(h, i) \/ LogoutArrives(h, i)

ShutdownStep == Drained \/ ForceClose \/ Disconnect \/ ExitClosed

SessionsNext ==
    \/ \E h \in Handlers : Arrival(h) \/ HandlerStep(h) \/ ConnectionLost(h)
    \/ \E p \in Passwords : RotateUpsert(p)
    \/ RotateRevoke \/ RotateDies
    \/ \E i \in SessionIds : SessionAges(i) \/ RevocationAges(i)
    \/ CleanSessions
    \/ Shutdown \/ ShutdownStep \/ Killed \/ Start

SessionsSpec == SessionsInit /\ [][SessionsNext]_sessionsVars

\* Handlers run to their answer, a shutdown that began goes on, the bootstrap
\* script goes on or dies, days pass and the cleanup is scheduled.  Nothing
\* makes requests arrive, passwords rotate or the server start again.
SessionsFairness ==
    /\ \A h \in Handlers : WF_sessionsVars(HandlerStep(h))
    /\ WF_sessionsVars(ShutdownStep)
    /\ WF_sessionsVars(RotateRevoke \/ RotateDies)
    /\ \A i \in SessionIds : WF_sessionsVars(SessionAges(i))
    /\ WF_sessionsVars(CleanSessions)

SessionsFairSpec == SessionsSpec /\ SessionsFairness

-----------------------------------------------------------------------------
(***************************************************************************)
(* Properties.                                                             *)
(***************************************************************************)

\* A rotation leaves valid only what was logged in with the new password, and
\* the logins that had read the account before it: one that comes after the
\* rotation cannot use the old password, and no older session survives.
OnlyCrossingsSurvive ==
    rotation = "none" =>
        \A i \in SessionIds :
            Stored(i) /\ session[i].revoked = "no" =>
                session[i].secret = account \/ session[i].crossed

\* A request acts only for a session that had not ended when the request
\* arrived, whatever was revoked, expired, pruned or rotated in between.
ActsOnlyWithSession ==
    \A h \in Handlers : handler[h].at = "act" => ~handler[h].over

\* The pool ends only when nobody waits for an answer any more.
PoolEndsUnobserved == server = "disconnected" => connected = {}

\* A session whose token was handed out and that has ended never becomes
\* valid again.
EndedStaysEnded ==
    [][\A i \in issued : ~Valid(i) => ~Valid(i)']_sessionsVars

\* Every request ends, and a shutdown ends the process, also when handlers
\* outlive their connections or find the pool ended.
RequestsEnd == \A h \in Handlers : Busy(h) ~> ~Busy(h)
ShutdownEnds == server = "draining" ~> server = "exited"

\* Every session row goes in the end, the ones whose token nobody received
\* included.
RowsCollected == \A i \in SessionIds : Stored(i) ~> session[i] = Removed

\* Nothing stays for ever: neither a request nor a shutdown, nor a row.
ServerFinishes == RequestsEnd /\ ShutdownEnds /\ RowsCollected

\* How far each session has come, and the requests let through for one.
Phase(i) ==
    IF session[i] = Unused THEN "unborn" ELSE IF Valid(i) THEN "open" ELSE "ended"
Admitted == {<<h, handler[h].id>> : h \in {g \in Handlers : handler[g].at = "act"}}

Register == INSTANCE SessionRegister WITH
    Ids <- SessionIds, Requests <- Handlers,
    phase <- [i \in SessionIds |-> Phase(i)], held <- issued,
    admitted <- Admitted, rotating <- rotation # "none"

\* What the register of sessions promises: each opens and ends once, requests
\* are let through for open ones whose token was given out, and a rotation is
\* complete with all of them ended, whatever dies, fails or overlaps.
RegisterSpec == Register!Spec
=============================================================================
