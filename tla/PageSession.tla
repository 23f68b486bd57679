----------------------------- MODULE PageSession -----------------------------
(***************************************************************************)
(* One tab's sign-in and the cookies it shares with the browser's other    *)
(* tabs.                                                                   *)
(*                                                                         *)
(* Every change a page asks for carries a CSRF token: the server signs it  *)
(* for the session cookie, sends it as a second cookie and expects that    *)
(* cookie and a header of the same value back.  The page takes the header  *)
(* from the cookie and asks for a token only when there is none, one       *)
(* request for all calls that wait.  Its own notion of who is signed in    *)
(* comes from the answers to login, logout and the /me asked at the start. *)
(***************************************************************************)
EXTENDS Naturals

CONSTANTS
    PageSessions,   \* ids of sessions; none is reused
    PageCalls,      \* slots for the page's calls
    NoSession,      \* no session cookie: the binding "anonymous"
    TokenBound,     \* bound: tokens minted
    EventBound      \* bound: what happens elsewhere

ASSUME PageAssumption ==
    /\ PageSessions # {} /\ NoSession \notin PageSessions
    /\ {TokenBound, EventBound} \subseteq Nat /\ TokenBound > 0

VARIABLES
    jar,            \* the browser's two cookies
    accepted,       \* the sessions the server accepts
    opened,         \* the sessions it ever made
    secretAge,      \* how often the secrets were rotated
    tokens,         \* how many tokens were minted
    minting,        \* the shared request for a token
    sends,          \* sends[c]: a change, login or logout in progress
    me,             \* the page's first request
    showsUser,      \* whether the page shows an administrator signed in
    events,         \* what happened elsewhere so far
    lapsed,         \* auxiliary: why the cookies may not fit each other
    unsure          \* auxiliary: whether the page may be wrong about the session

pageVars ==
    <<jar, accepted, opened, secretAge, tokens, minting, sends, me, showsUser, events,
      lapsed, unsure>>

-----------------------------------------------------------------------------
Bindings == PageSessions \cup {NoSession}

Token == [of: Bindings, nonce: 1..TokenBound, age: 0..1]

\* No cookie, no header.
NoToken == [of |-> NoSession, nonce |-> 0, age |-> 0]

NoSend == [at |-> "none"]

\* "sound": auxiliary, nothing came between the token and the sending;
\* "caused": auxiliary, the token was not refused, or for a cause;
\* "alone": auxiliary, nothing else signed in or out, or ended, meanwhile.
Op == {"change", "login", "logout"}
PageCall ==
    {NoSend}
    \cup [at: {"token"}, op: Op, alone: BOOLEAN]
    \cup [at: {"sent"}, op: Op, alone: BOOLEAN, auth: Bindings,
          cookie: Token \cup {NoToken}, header: Token \cup {NoToken},
          sound: BOOLEAN, age: 0..1]
    \cup [at: {"answered"}, op: Op, alone: BOOLEAN, ok: BOOLEAN, auth: Bindings,
          cookie: Token]
    \cup [at: {"arrived"}, op: Op, alone: BOOLEAN, ok: BOOLEAN, caused: BOOLEAN]

PageTypeOK ==
    /\ jar \in [auth: Bindings, csrf: Token \cup {NoToken}]
    /\ accepted \subseteq opened /\ opened \subseteq PageSessions
    /\ secretAge \in 0..1 /\ tokens \in 0..TokenBound
    /\ minting \in [at: {"none", "refused", "lost"}] \cup [at: {"asked"}, auth: Bindings]
                   \cup [at: {"answered"}, auth: Bindings, token: Token]
                   \cup [at: {"arrived"}, token: Token, kept: BOOLEAN]
    /\ sends \in [PageCalls -> PageCall]
    /\ me \in [at: {"asked"}, auth: Bindings, alone: BOOLEAN]
              \cup [at: {"yes", "no"}, alone: BOOLEAN] \cup [at: {"done"}]
    /\ events \in 0..EventBound /\ showsUser \in BOOLEAN /\ lapsed \in BOOLEAN /\ unsure \in BOOLEAN

\* validSignedToken, for the session cookie that came with it.
ValidToken(token, auth) == token.nonce > 0 /\ token.of = auth /\ token.age = secretAge

\* Mutant: the token is signed for no session, whoever asks.
MintAnonymous(of) == [of |-> NoSession, nonce |-> tokens + 1, age |-> secretAge]

\* createToken.
Minted(of) == [of |-> of, nonce |-> tokens + 1, age |-> secretAge]

CanMint == tokens < TokenBound

\* Ids are random: which one a new session gets makes no difference.
NewSessions ==
    IF PageSessions \subseteq opened THEN {} ELSE {CHOOSE s \in PageSessions \ opened : TRUE}

\* The cookies of a browser that was here before: none, a session's or
\* an anonymous token.
PageInit ==
    /\ \E in \in BOOLEAN, held \in BOOLEAN :
       LET s == CHOOSE s \in PageSessions : TRUE IN
          /\ opened = IF held THEN {s} ELSE {}
          /\ accepted = IF held /\ in THEN {s} ELSE {}
          /\ jar \in [auth: {IF held THEN s ELSE NoSession},
                      csrf: {NoToken, [of |-> IF held THEN s ELSE NoSession,
                                       nonce |-> 1, age |-> 0]}]
    /\ secretAge = 0 /\ tokens = 1
    /\ minting = [at |-> "none"]
    /\ sends = [c \in PageCalls |-> NoSend]
    /\ me = [at |-> "asked", auth |-> jar.auth, alone |-> TRUE]
    /\ showsUser = FALSE /\ events = 0 /\ lapsed = FALSE /\ unsure = TRUE

-----------------------------------------------------------------------------
(***************************************************************************)
(* Tokens.                                                                 *)
(***************************************************************************)
Sending(r, header, sound) ==
    [at |-> "sent", op |-> r.op, alone |-> r.alone, auth |-> jar.auth,
     cookie |-> jar.csrf, header |-> header, sound |-> sound, age |-> secretAge]

SendEnded(c, ok) ==
    [at |-> "arrived", op |-> sends[c].op, alone |-> sends[c].alone, ok |-> ok, caused |-> TRUE]

Signs(op) == op \in {"login", "logout"}

Signing == me.at # "done" \/ \E c \in PageCalls : sends[c] # NoSend /\ Signs(sends[c].op)

\* Something happened that what is under way may not know of.
Disturbed(f) ==
    [c \in PageCalls |->
        IF f[c] # NoSend /\ Signs(f[c].op) THEN [f[c] EXCEPT !.alone = FALSE] ELSE f[c]]

MeDisturbed == IF me.at = "done" THEN me ELSE [me EXCEPT !.alone = FALSE]

\* requestWithMeta: the form signs in whom the page shows signed out, the panel
\* signs out whom it shows signed in; changes come from either.
BeginCall(c, op) ==
    /\ sends[c] = NoSend
    /\ op = "login" =>
          ~showsUser /\ \A d \in PageCalls : sends[d] # NoSend => sends[d].op # "login"
    /\ op = "logout" => showsUser
    /\ LET new == [at |-> "token", op |-> op, alone |-> Signs(op) => ~Signing]
           others == IF Signs(op) THEN Disturbed(sends) ELSE sends
       IN  \/ /\ jar.csrf # NoToken
              /\ sends' = [others EXCEPT ![c] = Sending(new, jar.csrf, ~lapsed)]
              /\ UNCHANGED minting
           \/ /\ jar.csrf = NoToken
              /\ sends' = [others EXCEPT ![c] = new]
              /\ minting' = IF minting.at = "none" THEN [at |-> "asked", auth |-> jar.auth]
                            ELSE minting
    /\ me' = IF Signs(op) THEN MeDisturbed ELSE me
    /\ unsure' = (unsure \/ (Signs(op) /\ Signing))
    /\ UNCHANGED <<jar, accepted, opened, secretAge, tokens, showsUser, events, lapsed>>

\* issueCsrfToken: no valid cookie came with the request.
MintHandled ==
    /\ minting.at = "asked" /\ CanMint
    /\ minting' = [at |-> "answered", auth |-> minting.auth, token |-> Minted(minting.auth)]
    /\ tokens' = tokens + 1
    /\ UNCHANGED <<jar, accepted, opened, secretAge, sends, me, showsUser, events,
                   lapsed, unsure>>

MintArrives ==
    /\ minting.at = "answered"
    /\ jar' = [jar EXCEPT !.csrf = minting.token]
    /\ minting' = [at |-> "arrived", token |-> minting.token, kept |-> TRUE]
    /\ lapsed' = (minting.auth # jar.auth \/ minting.token.age # secretAge)
    /\ UNCHANGED <<accepted, opened, secretAge, tokens, sends, me, showsUser, events, unsure>>

\* Refused, for being one of too many or by a fault of the server, or lost, on
\* the way or when its body is read.
MintFails ==
    /\ \/ minting.at = "asked" /\ minting' = [at |-> "refused"]
       \/ minting.at \in {"asked", "answered", "arrived"} /\ minting' = [at |-> "lost"]
    /\ UNCHANGED <<jar, accepted, opened, secretAge, tokens, sends, me, showsUser, events,
                   lapsed, unsure>>

\* Every call that waited takes the token for its header, the cookie goes along
\* as the jar then has it; refused a token, they go on without one, and with
\* the request for it they all fail.
MintResolves ==
    /\ minting.at \in {"arrived", "refused", "lost"}
    /\ LET header == IF minting.at = "arrived" THEN minting.token ELSE NoToken
           sound == minting.at = "arrived" /\ minting.kept /\ ~lapsed
       IN  sends' = [c \in PageCalls |->
              IF sends[c].at # "token" THEN sends[c]
              ELSE IF minting.at = "lost" THEN SendEnded(c, FALSE)
              ELSE Sending(sends[c], header, sound)]
    /\ minting' = [at |-> "none"]
    /\ unsure' = (unsure \/ (minting.at = "lost"
                            /\ \E c \in PageCalls : sends[c].at = "token" /\ Signs(sends[c].op)))
    /\ UNCHANGED <<jar, accepted, opened, secretAge, tokens, me, showsUser, events, lapsed>>

\* The jar changed otherwise, after the token arrived and before it is used.
MintOverridden ==
    IF minting.at = "arrived" THEN [minting EXCEPT !.kept = FALSE] ELSE minting

-----------------------------------------------------------------------------
(***************************************************************************)
(* The server, and what its answers do.                                    *)
(***************************************************************************)

\* createCsrfProtection: cookie and header are equal, and valid for the session.
Passes(r) == ValidToken(r.cookie, r.auth) /\ r.header = r.cookie

Becomes(c, r) == sends' = [sends EXCEPT ![c] = r]

CsrfRefuses(c) ==
    /\ sends[c].at = "sent" /\ ~Passes(sends[c])
    /\ Becomes(c, [SendEnded(c, FALSE) EXCEPT
                     !.caused = ~sends[c].sound \/ sends[c].age # secretAge])
    /\ UNCHANGED <<jar, accepted, opened, secretAge, tokens, minting, me, showsUser, events,
                   lapsed, unsure>>

\* Anything else that is not an answer of success: 401, 429, 500 ...; a change
\* answers nothing the cookies or the session depend on.
Answers(c) ==
    /\ sends[c].at = "sent" /\ Passes(sends[c])
    /\ \/ sends[c].op # "logout" /\ Becomes(c, SendEnded(c, FALSE))
       \/ sends[c].op = "change" /\ Becomes(c, SendEnded(c, TRUE))
    /\ UNCHANGED <<jar, accepted, opened, secretAge, tokens, minting, me, showsUser, events,
                   lapsed, unsure>>

\* Mutant: the token a login answers with is not bound to the new session.
TokenUnbound(s) == Minted(NoSession)

\* POST /login: a new session, and a token bound to it.
LoginToken(s) == Minted(s)
LoginHandled(c, s) ==
    /\ sends[c].at = "sent" /\ sends[c].op = "login" /\ Passes(sends[c])
    /\ s \in NewSessions /\ CanMint
    /\ opened' = opened \cup {s} /\ accepted' = accepted \cup {s}
    /\ tokens' = tokens + 1
    /\ Becomes(c, [at |-> "answered", op |-> "login", alone |-> sends[c].alone, ok |-> TRUE,
                   auth |-> s, cookie |-> LoginToken(s)])
    /\ UNCHANGED <<jar, secretAge, minting, me, showsUser, events,
                   lapsed, unsure>>

\* Mutants: a logout leaves the session's cookie; it leaves the token bound to it.
CookieLeft(s) == s
TokenLeft(s) == Minted(s)

\* POST /logout: the cookies are cleared even if the session's row cannot be
\* revoked, which the answer then says.
LogoutAuth(s) == NoSession
LogoutToken(s) == Minted(NoSession)
LogoutHandled(c) ==
    /\ sends[c].at = "sent" /\ sends[c].op = "logout" /\ Passes(sends[c])
    /\ CanMint /\ tokens' = tokens + 1
    /\ \E ok \in BOOLEAN :
          /\ accepted' = IF ok THEN accepted \ {sends[c].auth} ELSE accepted
          /\ Becomes(c, [at |-> "answered", op |-> "logout", alone |-> sends[c].alone,
                         ok |-> ok, auth |-> LogoutAuth(sends[c].auth),
                         cookie |-> LogoutToken(sends[c].auth)])
    /\ UNCHANGED <<jar, opened, secretAge, minting, me, showsUser, events,
                   lapsed, unsure>>

\* The browser stores both cookies with the answer's headers.
AnswerArrives(c) ==
    /\ sends[c].at = "answered"
    /\ jar' = [auth |-> sends[c].auth, csrf |-> sends[c].cookie]
    /\ lapsed' = (sends[c].cookie.age # secretAge)
    /\ minting' = MintOverridden
    /\ Becomes(c, SendEnded(c, sends[c].ok))
    /\ UNCHANGED <<accepted, opened, secretAge, tokens, me, showsUser, events, unsure>>

\* No answer, before or after it was handled.
CallLost(c) ==
    /\ sends[c].at \in {"sent", "answered"}
    /\ Becomes(c, SendEnded(c, FALSE))
    /\ unsure' = (unsure \/ Signs(sends[c].op))
    /\ UNCHANGED <<jar, accepted, opened, secretAge, tokens, minting, me, showsUser, events, lapsed>>

\* Mutant: a logout leaves the user shown.
UserLeft(op, ok) == IF op = "login" THEN showsUser \/ ok ELSE showsUser

\* A login that succeeded shows the user, a logout hides it however it ended.
Shows(op, ok) ==
    CASE op = "change" -> showsUser
      [] op = "login" -> showsUser \/ ok
      [] op = "logout" -> FALSE

\* The call's caller goes on.
CallContinues(c) ==
    /\ sends[c].at = "arrived"
    /\ Becomes(c, NoSend)
    /\ showsUser' = Shows(sends[c].op, sends[c].ok)
    /\ unsure' = CASE sends[c].op = "change" -> unsure
                   [] sends[c].op = "login" ->
                        unsure /\ ~(sends[c].ok /\ sends[c].alone)
                   [] sends[c].op = "logout" ->
                        ~sends[c].ok \/ (unsure /\ ~sends[c].alone)
    /\ UNCHANGED <<jar, accepted, opened, secretAge, tokens, minting, me, events, lapsed>>

\* GET /me needs no token.
MeHandled ==
    /\ me.at = "asked"
    /\ me' = [at |-> IF me.auth \in accepted THEN "yes" ELSE "no", alone |-> me.alone]
    /\ UNCHANGED <<jar, accepted, opened, secretAge, tokens, minting, sends, showsUser, events,
                   lapsed, unsure>>

\* Without an answer the page takes it for a no.
MeFails ==
    /\ me.at # "done"
    /\ me' = [at |-> "done"] /\ showsUser' = FALSE /\ unsure' = TRUE
    /\ UNCHANGED <<jar, accepted, opened, secretAge, tokens, minting, sends, events, lapsed>>

MeContinues ==
    /\ me.at \in {"yes", "no"}
    /\ me' = [at |-> "done"]
    /\ showsUser' = (me.at = "yes")
    /\ unsure' = (unsure /\ ~me.alone)
    /\ UNCHANGED <<jar, accepted, opened, secretAge, tokens, minting, sends, events, lapsed>>

-----------------------------------------------------------------------------
(***************************************************************************)
(* What happens elsewhere.                                                 *)
(***************************************************************************)
Happens == events < EventBound /\ events' = events + 1

Disturbs ==
    /\ sends' = Disturbed(sends)
    /\ me' = MeDisturbed
    /\ unsure' = TRUE
    /\ UNCHANGED showsUser

\* After 8 hours, unless it was set anew.
CsrfCookieExpires ==
    /\ Happens
    /\ jar.csrf # NoToken
    /\ jar' = [jar EXCEPT !.csrf = NoToken]
    /\ lapsed' = FALSE
    /\ minting' = MintOverridden
    /\ UNCHANGED <<accepted, opened, secretAge, tokens, sends, me, showsUser, unsure>>

\* After 7 days, with the session; the other cookie is left as it is.
AuthCookieExpires ==
    /\ Happens
    /\ jar.auth # NoSession
    /\ jar' = [jar EXCEPT !.auth = NoSession]
    /\ accepted' = accepted \ {jar.auth}
    /\ lapsed' = (jar.csrf # NoToken)
    /\ minting' = MintOverridden
    /\ Disturbs
    /\ UNCHANGED <<opened, secretAge, tokens>>

\* The bootstrap script, another browser or the cleanup ended it.
SessionEnds(s) ==
    /\ Happens
    /\ s \in accepted
    /\ accepted' = accepted \ {s}
    /\ Disturbs
    /\ UNCHANGED <<jar, opened, secretAge, tokens, minting, lapsed>>

\* A restart with new secrets: no session cookie or token is valid any more.
RotateSecrets ==
    /\ Happens
    /\ secretAge = 0
    /\ secretAge' = 1 /\ accepted' = {}
    /\ lapsed' = (jar.csrf # NoToken)
    /\ Disturbs
    /\ UNCHANGED <<jar, opened, tokens, minting>>

\* Another tab signed in or out.
OtherTab(s) ==
    /\ Happens
    /\ CanMint /\ tokens' = tokens + 1
    /\ s \in NewSessions \cup {NoSession}
    /\ accepted' = (accepted \ {jar.auth}) \cup ({s} \ {NoSession})
    /\ opened' = opened \cup ({s} \ {NoSession})
    /\ jar' = [auth |-> s, csrf |-> Minted(s)]
    /\ lapsed' = FALSE
    /\ minting' = MintOverridden
    /\ Disturbs
    /\ UNCHANGED secretAge

PageNext ==
    \/ \E c \in PageCalls :
          \/ \E op \in Op : BeginCall(c, op)
          \/ CsrfRefuses(c) \/ Answers(c)
          \/ \E s \in PageSessions : LoginHandled(c, s)
          \/ LogoutHandled(c) \/ AnswerArrives(c) \/ CallLost(c) \/ CallContinues(c)
    \/ MintHandled \/ MintArrives \/ MintFails \/ MintResolves
    \/ MeHandled \/ MeFails \/ MeContinues
    \/ CsrfCookieExpires \/ AuthCookieExpires \/ RotateSecrets
    \/ \E s \in PageSessions : SessionEnds(s)
    \/ \E s \in Bindings : OtherTab(s)

PageSpec == PageInit /\ [][PageNext]_pageVars

-----------------------------------------------------------------------------
(***************************************************************************)
(* Properties.                                                             *)
(***************************************************************************)

\* The two cookies fit each other, unless the session's ended, the secrets were
\* rotated, or a token asked for under another session arrived since they did.
CookiesFit == jar.csrf # NoToken => lapsed \/ ValidToken(jar.csrf, jar.auth)

\* A call is refused for its token only if it was sent with cookies that do not
\* fit, or its token overtaken, or the secrets were rotated while it was sent.
RefusedForCause ==
    \A c \in PageCalls : sends[c].at = "arrived" => sends[c].caused

ChangesPass == CookiesFit /\ RefusedForCause

\* Once every answer is in, the page shows an administrator signed in exactly if
\* the browser holds an accepted session, unless requests that sign in or out
\* overlapped each other or the first /me, one of them got no answer of success,
\* or the session ended or began elsewhere.
UserFits ==
    (~Signing /\ ~unsure) => (showsUser <=> jar.auth \in accepted)

\* How far each session has come, as the server has it.
SessionPhase(s) ==
    IF s \in accepted THEN "open" ELSE IF s \in opened THEN "ended" ELSE "unborn"

PageRegister == INSTANCE SessionRegister WITH
    Ids <- PageSessions, Requests <- PageCalls,
    phase <- [s \in PageSessions |-> SessionPhase(s)],
    held <- {}, admitted <- {}, rotating <- FALSE

\* Of what AdminSessions implements, the part this module has: a session opens
\* once, at most in another's place, and ends once.
PageRegisterSpec == PageRegister!Spec
=============================================================================
