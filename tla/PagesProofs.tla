---------------------------- MODULE PagesProofs ----------------------------
(***************************************************************************)
(* Proofs about the page and the services that answer it: PageSession,     *)
(* OrchestratorConsole, LabWorkspace, UnifiedCli, ScenarioMutations,       *)
(* NetworkPaths.                                                           *)
(*                                                                         *)
(* That a change goes through rests on what each call and the request for  *)
(* a token carry: a token is bound to the session it was answered for, and *)
(* a call that was sent with cookies that fit passes until the secrets are *)
(* rotated.  That the page shows the right user rests on at most one       *)
(* request of those that sign in or out being alone, the others leaving    *)
(* the page unsure.  Its sessions are those of SessionRegister, which the  *)
(* server implements too.  What a console or a workspace shows at rest     *)
(* rests on what the calls in flight will still write: which of them end a *)
(* spinner or disable a button, and that those which may write the         *)
(* selection, the list or the lab shown are of what is selected unless     *)
(* they crossed. What the CLI answers rests on what each request in flight *)
(* has read, and on labs and targets only going; what a list of mutations  *)
(* shows rests on each of them standing until a later one undoes it.  That *)
(* a path is a shortest one rests on the layers of the search: the queue   *)
(* is in the order of the distances, at most two of them, and what left it *)
(* has only neighbours that were met, one step further at most.            *)
(***************************************************************************)
EXTENDS MCPages, FiniteSetTheorems, SequenceTheorems, WellFoundedInduction, TLAPS

-----------------------------------------------------------------------------
Jars == [auth: Bindings, csrf: Token \cup {NoToken}]

AskedMints == [at: {"asked"}, auth: Bindings]
AnsweredMints == [at: {"answered"}, auth: Bindings, token: Token]
ArrivedMints == [at: {"arrived"}, token: Token, kept: BOOLEAN]
Mints == [at: {"none", "refused", "lost"}] \cup AskedMints \cup AnsweredMints \cup ArrivedMints

TokenCalls == [at: {"token"}, op: Op, alone: BOOLEAN]
SentCalls ==
    [at: {"sent"}, op: Op, alone: BOOLEAN, auth: Bindings, cookie: Token \cup {NoToken},
     header: Token \cup {NoToken}, sound: BOOLEAN, age: 0..1]
AnsweredCalls ==
    [at: {"answered"}, op: Op, alone: BOOLEAN, ok: BOOLEAN, auth: Bindings, cookie: Token]
ArrivedCalls == [at: {"arrived"}, op: Op, alone: BOOLEAN, ok: BOOLEAN, caused: BOOLEAN]

AskedMes == [at: {"asked"}, auth: Bindings, alone: BOOLEAN]
ToldMes == [at: {"yes", "no"}, alone: BOOLEAN]
Mes == AskedMes \cup ToldMes \cup [at: {"done"}]

LEMMA PageTypes ==
    PageTypeOK <=>
        /\ jar \in Jars
        /\ accepted \subseteq opened /\ opened \subseteq PageSessions
        /\ secretAge \in 0..1 /\ tokens \in 0..TokenBound
        /\ minting \in Mints
        /\ sends \in [PageCalls -> PageCall]
        /\ me \in Mes
        /\ events \in 0..EventBound /\ showsUser \in BOOLEAN
        /\ lapsed \in BOOLEAN /\ unsure \in BOOLEAN
BY DEF PageTypeOK, Jars, Mints, AskedMints, AnsweredMints, ArrivedMints, Mes, AskedMes, ToldMes

LEMMA PageTypesNext ==
    PageTypeOK' <=>
        /\ jar' \in Jars
        /\ accepted' \subseteq opened' /\ opened' \subseteq PageSessions
        /\ secretAge' \in 0..1 /\ tokens' \in 0..TokenBound
        /\ minting' \in Mints
        /\ sends' \in [PageCalls -> PageCall]
        /\ me' \in Mes
        /\ events' \in 0..EventBound /\ showsUser' \in BOOLEAN
        /\ lapsed' \in BOOLEAN /\ unsure' \in BOOLEAN
BY DEF PageTypeOK, Jars, Mints, AskedMints, AnsweredMints, ArrivedMints, Mes, AskedMes, ToldMes

LEMMA CallShapes ==
    ASSUME NEW r \in PageCall
    PROVE  /\ r.at = "none" <=> r = NoSend
           /\ r.at = "token" => r \in TokenCalls
           /\ r.at = "sent" => r \in SentCalls
           /\ r.at = "answered" => r \in AnsweredCalls
           /\ r.at = "arrived" => r \in ArrivedCalls
           /\ r.at \in {"none", "token", "sent", "answered", "arrived"}
           /\ r # NoSend => r.op \in Op /\ r.alone \in BOOLEAN
<1>0. NoSend.at = "none"
  BY DEF NoSend
<1>1. CASE r = NoSend
  BY <1>0, <1>1
<1>2. CASE r \in TokenCalls
  <2>1. r.at = "token" /\ r.op \in Op /\ r.alone \in BOOLEAN
    BY <1>2 DEF TokenCalls
  <2>2. QED
    BY <1>0, <1>2, <2>1
<1>3. CASE r \in SentCalls
  <2>1. r.at = "sent" /\ r.op \in Op /\ r.alone \in BOOLEAN
    BY <1>3 DEF SentCalls
  <2>2. QED
    BY <1>0, <1>3, <2>1
<1>4. CASE r \in AnsweredCalls
  <2>1. r.at = "answered" /\ r.op \in Op /\ r.alone \in BOOLEAN
    BY <1>4 DEF AnsweredCalls
  <2>2. QED
    BY <1>0, <1>4, <2>1
<1>5. CASE r \in ArrivedCalls
  <2>1. r.at = "arrived" /\ r.op \in Op /\ r.alone \in BOOLEAN
    BY <1>5 DEF ArrivedCalls
  <2>2. QED
    BY <1>0, <1>5, <2>1
<1>6. QED
  BY <1>1, <1>2, <1>3, <1>4, <1>5 DEF PageCall, TokenCalls, SentCalls, AnsweredCalls, ArrivedCalls

LEMMA MintShapes ==
    ASSUME NEW m \in Mints
    PROVE  /\ m.at = "asked" => m \in AskedMints
           /\ m.at = "answered" => m \in AnsweredMints
           /\ m.at = "arrived" => m \in ArrivedMints
<1>1. CASE m \in [at: {"none", "refused", "lost"}]
  BY <1>1
<1>2. CASE m \in AskedMints
  BY <1>2 DEF AskedMints
<1>3. CASE m \in AnsweredMints
  BY <1>3 DEF AnsweredMints
<1>4. CASE m \in ArrivedMints
  BY <1>4 DEF ArrivedMints
<1>5. QED
  BY <1>1, <1>2, <1>3, <1>4 DEF Mints

LEMMA MeShapes ==
    ASSUME NEW m \in Mes
    PROVE  /\ m.at = "asked" => m \in AskedMes
           /\ m.at \in {"yes", "no"} => m \in ToldMes
           /\ m.at \in {"asked", "yes", "no", "done"}
           /\ m.at # "done" => m.alone \in BOOLEAN
<1>1. CASE m \in AskedMes
  BY <1>1 DEF AskedMes
<1>2. CASE m \in ToldMes
  BY <1>2 DEF ToldMes
<1>3. CASE m \in [at: {"done"}]
  BY <1>3
<1>4. QED
  BY <1>1, <1>2, <1>3 DEF Mes

LEMMA Tokens ==
    /\ NoToken \notin Token /\ ~(NoToken.nonce > 0) /\ NoToken.of = NoSession
    /\ \A t \in Token : /\ t # NoToken /\ t.nonce > 0 /\ t.of \in Bindings /\ t.age \in 0..1
    /\ \A b \in Bindings : tokens \in 0..TokenBound /\ secretAge \in 0..1 /\ CanMint =>
          /\ Minted(b) \in Token /\ Minted(b).of = b /\ Minted(b).age = secretAge
<1>0. TokenBound \in Nat
  BY PageAssumption
<1>1. NoToken.nonce = 0 /\ NoToken.of = NoSession
  BY DEF NoToken
<1>2. \A t \in Token : t.nonce \in 1..TokenBound /\ t.of \in Bindings /\ t.age \in 0..1
  BY DEF Token
<1>3. \A t \in Token : t.nonce > 0 /\ t.nonce # 0
  BY <1>0, <1>2
<1>4. ASSUME NEW b \in Bindings, tokens \in 0..TokenBound, secretAge \in 0..1, CanMint
      PROVE  /\ Minted(b) \in Token /\ Minted(b).of = b /\ Minted(b).age = secretAge
  <2>1. tokens + 1 \in 1..TokenBound
    BY <1>0, <1>4 DEF CanMint
  <2>2. QED
    BY <1>4, <2>1 DEF Minted, Token
<1>5. QED
  BY <1>1, <1>2, <1>3, <1>4

-----------------------------------------------------------------------------
\* Calls in progress, told that something happened beside them.
LEMMA DisturbedCalls ==
    ASSUME NEW f \in [PageCalls -> PageCall], NEW c \in PageCalls
    PROVE  LET r == f[c]
               q == Disturbed(f)[c]
           IN  /\ q \in PageCall /\ q.at = r.at
               /\ q = NoSend <=> r = NoSend
               /\ r # NoSend => q.op = r.op /\ (q.alone => r.alone)
               /\ r # NoSend /\ Signs(r.op) => ~q.alone
               /\ r.at = "sent" => /\ q.auth = r.auth /\ q.cookie = r.cookie
                                   /\ q.header = r.header /\ q.sound = r.sound
                                   /\ q.age = r.age
               /\ r.at = "answered" => q.auth = r.auth /\ q.cookie = r.cookie /\ q.ok = r.ok
               /\ r.at = "arrived" => q.ok = r.ok /\ q.caused = r.caused
<1> DEFINE r == f[c]
<1> DEFINE q == Disturbed(f)[c]
<1>0. r \in PageCall /\ NoSend.at = "none" /\ NoSend \in PageCall
  BY DEF NoSend, PageCall
<1>1. q = IF r # NoSend /\ Signs(r.op) THEN [r EXCEPT !.alone = FALSE] ELSE r
  BY DEF Disturbed
<1>2. CASE ~(r # NoSend /\ Signs(r.op))
  BY <1>0, <1>1, <1>2
<1>3. CASE r # NoSend /\ Signs(r.op)
  <2>1. q = [r EXCEPT !.alone = FALSE]
    BY <1>1, <1>3
  <2> HIDE DEF r, q
  <2>2. CASE r.at = "token"
    <3>1. r \in TokenCalls
      BY <1>0, <2>2, CallShapes
    <3>2. q \in TokenCalls /\ q.at = r.at /\ q.op = r.op /\ q.alone = FALSE
      BY <2>1, <3>1 DEF TokenCalls
    <3>3. QED
      BY <1>0, <1>3, <2>2, <3>2 DEF r, q, PageCall, TokenCalls
  <2>3. CASE r.at = "sent"
    <3>1. r \in SentCalls
      BY <1>0, <2>3, CallShapes
    <3>2. /\ q \in SentCalls /\ q.at = r.at /\ q.op = r.op /\ q.alone = FALSE
          /\ q.auth = r.auth /\ q.cookie = r.cookie /\ q.header = r.header
          /\ q.sound = r.sound /\ q.age = r.age
      BY <2>1, <3>1 DEF SentCalls
    <3>3. q \in PageCall
      BY <3>2 DEF PageCall, SentCalls
    <3>4. QED
      BY <1>0, <1>3, <2>3, <3>2, <3>3 DEF r, q
  <2>4. CASE r.at = "answered"
    <3>1. r \in AnsweredCalls
      BY <1>0, <2>4, CallShapes
    <3>2. /\ q \in AnsweredCalls /\ q.at = r.at /\ q.op = r.op /\ q.alone = FALSE
          /\ q.auth = r.auth /\ q.cookie = r.cookie /\ q.ok = r.ok
      BY <2>1, <3>1 DEF AnsweredCalls
    <3>3. q \in PageCall
      BY <3>2 DEF PageCall, AnsweredCalls
    <3>4. QED
      BY <1>0, <1>3, <2>4, <3>2, <3>3 DEF r, q
  <2>5. CASE r.at = "arrived"
    <3>1. r \in ArrivedCalls
      BY <1>0, <2>5, CallShapes
    <3>2. /\ q \in ArrivedCalls /\ q.at = r.at /\ q.op = r.op /\ q.alone = FALSE
          /\ q.ok = r.ok /\ q.caused = r.caused
      BY <2>1, <3>1 DEF ArrivedCalls
    <3>3. q \in PageCall
      BY <3>2 DEF PageCall, ArrivedCalls
    <3>4. QED
      BY <1>0, <1>3, <2>5, <3>2, <3>3 DEF r, q
  <2>6. QED
    BY <1>0, <1>3, <2>2, <2>3, <2>4, <2>5, CallShapes
<1>4. QED
  BY <1>2, <1>3

LEMMA DisturbedMe ==
    ASSUME me \in Mes
    PROVE  /\ MeDisturbed \in Mes /\ MeDisturbed.at = me.at
           /\ me.at # "done" => ~MeDisturbed.alone
<1> DEFINE q == MeDisturbed
<1>1. CASE me.at = "done"
  BY <1>1 DEF MeDisturbed
<1>2. CASE me \in AskedMes
  <2>1. q = [me EXCEPT !.alone = FALSE]
    BY <1>2 DEF MeDisturbed, AskedMes
  <2> HIDE DEF q
  <2>2. q \in AskedMes /\ q.at = me.at /\ q.alone = FALSE
    BY <1>2, <2>1 DEF AskedMes
  <2>3. QED
    BY <2>2 DEF q, Mes
<1>3. CASE me \in ToldMes
  <2>1. q = [me EXCEPT !.alone = FALSE]
    BY <1>3 DEF MeDisturbed, ToldMes
  <2> HIDE DEF q
  <2>2. q \in ToldMes /\ q.at = me.at /\ q.alone = FALSE
    BY <1>3, <2>1 DEF ToldMes
  <2>3. QED
    BY <2>2 DEF q, Mes
<1>4. QED
  BY <1>1, <1>2, <1>3, MeShapes

\* The records a call and the jar become.
LEMMA SentRecord ==
    ASSUME PageTypeOK, NEW r \in TokenCalls, NEW h \in Token \cup {NoToken}, NEW b \in BOOLEAN
    PROVE  LET q == Sending(r, h, b)
           IN  /\ q \in PageCall /\ q # NoSend /\ q.at = "sent" /\ q.op = r.op
               /\ q.alone = r.alone
               /\ q.auth = jar.auth /\ q.cookie = jar.csrf /\ q.header = h
               /\ q.sound = b /\ q.age = secretAge
<1> DEFINE q == Sending(r, h, b)
<1>1. jar.auth \in Bindings /\ jar.csrf \in Token \cup {NoToken} /\ secretAge \in 0..1
  BY PageTypes DEF Jars
<1>2. r.op \in Op /\ r.alone \in BOOLEAN
  BY DEF TokenCalls
<1>3. /\ q.at = "sent" /\ q.op = r.op /\ q.alone = r.alone
      /\ q.auth = jar.auth /\ q.cookie = jar.csrf /\ q.header = h
      /\ q.sound = b /\ q.age = secretAge
  BY DEF Sending
<1>4. q \in SentCalls
  BY <1>1, <1>2 DEF Sending, SentCalls
<1> HIDE DEF q
<1>5. q \in PageCall
  BY <1>4 DEF SentCalls, PageCall
<1>6. QED
  BY <1>3, <1>5, CallShapes DEF q

LEMMA EndedRecord ==
    ASSUME PageTypeOK, NEW c \in PageCalls, sends[c] # NoSend, NEW ok \in BOOLEAN
    PROVE  /\ LET q == SendEnded(c, ok)
              IN  /\ q \in PageCall /\ q # NoSend /\ q.at = "arrived" /\ q.op = sends[c].op
                  /\ q.alone = sends[c].alone /\ q.ok = ok /\ q.caused
           /\ \A b \in BOOLEAN :
              LET q == [SendEnded(c, ok) EXCEPT !.caused = b]
              IN  /\ q \in PageCall /\ q # NoSend /\ q.at = "arrived" /\ q.op = sends[c].op
                  /\ q.alone = sends[c].alone /\ q.ok = ok /\ q.caused = b
<1>1. sends[c].op \in Op /\ sends[c].alone \in BOOLEAN
  BY PageTypes, CallShapes
<1>2. ASSUME NEW b \in BOOLEAN,
             NEW q, q = [at |-> "arrived", op |-> sends[c].op, alone |-> sends[c].alone,
                         ok |-> ok, caused |-> b]
      PROVE  /\ q \in PageCall /\ q # NoSend /\ q.at = "arrived" /\ q.op = sends[c].op
             /\ q.alone = sends[c].alone /\ q.ok = ok /\ q.caused = b
  <2>1. q \in ArrivedCalls /\ q.at = "arrived"
    BY <1>1, <1>2 DEF ArrivedCalls
  <2>2. q \in PageCall
    BY <2>1 DEF ArrivedCalls, PageCall
  <2>3. QED
    BY <1>2, <2>1, <2>2, CallShapes
<1>3. SendEnded(c, ok) = [at |-> "arrived", op |-> sends[c].op, alone |-> sends[c].alone,
                          ok |-> ok, caused |-> TRUE]
  BY DEF SendEnded
<1>4. \A b \in BOOLEAN : [SendEnded(c, ok) EXCEPT !.caused = b]
         = [at |-> "arrived", op |-> sends[c].op, alone |-> sends[c].alone,
            ok |-> ok, caused |-> b]
  BY DEF SendEnded
<1>5. QED
  BY <1>2, <1>3, <1>4

LEMMA AnsweredRecord ==
    ASSUME NEW op \in Op, NEW alone \in BOOLEAN, NEW ok \in BOOLEAN, NEW b \in Bindings,
           NEW t \in Token
    PROVE  LET q == [at |-> "answered", op |-> op, alone |-> alone, ok |-> ok, auth |-> b,
                     cookie |-> t]
           IN  /\ q \in PageCall /\ q # NoSend /\ q.at = "answered" /\ q.op = op
               /\ q.alone = alone /\ q.ok = ok /\ q.auth = b /\ q.cookie = t
<1> DEFINE q == [at |-> "answered", op |-> op, alone |-> alone, ok |-> ok, auth |-> b,
                 cookie |-> t]
<1>1. /\ q \in AnsweredCalls /\ q.at = "answered" /\ q.op = op
      /\ q.alone = alone /\ q.ok = ok /\ q.auth = b /\ q.cookie = t
  BY DEF AnsweredCalls
<1> HIDE DEF q
<1>2. q \in PageCall
  BY <1>1 DEF AnsweredCalls, PageCall
<1>3. QED
  BY <1>1, <1>2, CallShapes DEF q

\* One call becomes another record, the others stay.
LEMMA CallBecomes ==
    ASSUME PageTypeOK, NEW c \in PageCalls, NEW q \in PageCall, Becomes(c, q)
    PROVE  /\ sends' \in [PageCalls -> PageCall]
           /\ sends'[c] = q /\ \A d \in PageCalls \ {c} : sends'[d] = sends[d]
BY PageTypes DEF Becomes

LEMMA JarBecomes ==
    ASSUME PageTypeOK
    PROVE  /\ \A t \in Token \cup {NoToken} : jar' = [jar EXCEPT !.csrf = t] =>
                 jar' \in Jars /\ jar'.csrf = t /\ jar'.auth = jar.auth
           /\ jar' = [jar EXCEPT !.auth = NoSession] =>
                 jar' \in Jars /\ jar'.csrf = jar.csrf /\ jar'.auth = NoSession
           /\ \A b \in Bindings, t \in Token : jar' = [auth |-> b, csrf |-> t] =>
                 jar' \in Jars /\ jar'.csrf = t /\ jar'.auth = b
<1>1. jar \in Jars /\ NoSession \in Bindings
  BY PageTypes DEF Bindings
<1>2. QED
  BY <1>1 DEF Jars

LEMMA Overridden ==
    ASSUME minting \in Mints
    PROVE  /\ MintOverridden \in Mints /\ MintOverridden.at = minting.at
           /\ minting.at = "arrived" => ~MintOverridden.kept
           /\ minting.at # "arrived" => MintOverridden = minting
<1> DEFINE q == MintOverridden
<1>1. CASE minting.at = "arrived"
  <2>1. minting \in ArrivedMints
    BY <1>1, MintShapes
  <2>2. q = [minting EXCEPT !.kept = FALSE]
    BY <1>1 DEF MintOverridden
  <2> HIDE DEF q
  <2>3. q \in ArrivedMints /\ q.at = "arrived" /\ q.kept = FALSE
    BY <2>1, <2>2 DEF ArrivedMints
  <2>4. QED
    BY <1>1, <2>3 DEF q, Mints
<1>2. CASE minting.at # "arrived"
  BY <1>2 DEF MintOverridden
<1>3. QED
  BY <1>1, <1>2

-----------------------------------------------------------------------------
\* Why a call's token is accepted: it was sent with cookies that fit, the header
\* the cookie's, and no secret has been rotated since.
CallFits(r) ==
    /\ r.at = "sent" => r.age <= secretAge /\ (r.sound /\ r.age = secretAge => Passes(r))
    /\ r.at = "answered" => r.cookie.of = r.auth
    /\ r.at = "arrived" => r.caused

CallsFit == \A c \in PageCalls : CallFits(sends[c])

MintFits ==
    /\ minting.at = "answered" => minting.token.of = minting.auth
    /\ minting.at = "arrived" => (minting.kept => jar.csrf = minting.token)

ChangesInv == PageTypeOK /\ CookiesFit /\ MintFits /\ CallsFit

LEMMA CallsStay ==
    ASSUME PageTypeOK, CallsFit, UNCHANGED secretAge,
           \A c \in PageCalls : \/ sends'[c] = sends[c]
                                \/ sends'[c] = Disturbed(sends)[c]
                                \/ CallFits(sends'[c])
    PROVE  CallsFit'
<1>1. ASSUME NEW c \in PageCalls PROVE CallFits(sends'[c])
  <2>1. CASE sends'[c] = Disturbed(sends)[c]
    <3> DEFINE q == Disturbed(sends)[c]
    <3>1. /\ q.at = sends[c].at
          /\ sends[c].at = "sent" => /\ q.auth = sends[c].auth /\ q.cookie = sends[c].cookie
                                     /\ q.header = sends[c].header
                                     /\ q.sound = sends[c].sound /\ q.age = sends[c].age
          /\ sends[c].at = "answered" => q.auth = sends[c].auth /\ q.cookie = sends[c].cookie
          /\ sends[c].at = "arrived" => q.caused = sends[c].caused
      BY PageTypes, DisturbedCalls
    <3> HIDE DEF q
    <3>2. CallFits(sends[c])
      BY DEF CallsFit
    <3>3. CallFits(q)
      BY <3>1, <3>2 DEF CallFits, Passes
    <3>4. QED
      BY <2>1, <3>3 DEF q
  <2>2. CASE sends'[c] = sends[c]
    BY <2>2 DEF CallsFit
  <2>3. QED
    BY <2>1, <2>2
<1>2. QED
  BY <1>1 DEF CallsFit, CallFits, Passes, ValidToken

LEMMA DisturbedTypes ==
    ASSUME PageTypeOK, Disturbs
    PROVE  /\ sends' \in [PageCalls -> PageCall] /\ me' \in Mes
           /\ unsure' \in BOOLEAN /\ showsUser' \in BOOLEAN
<1>1. Disturbed(sends) = [c \in PageCalls |-> Disturbed(sends)[c]]
  BY DEF Disturbed
<1>2. \A c \in PageCalls : Disturbed(sends)[c] \in PageCall
  BY PageTypes, DisturbedCalls
<1>3. Disturbed(sends) \in [PageCalls -> PageCall]
  BY <1>1, <1>2
<1>4. QED
  BY <1>3, PageTypes, DisturbedMe DEF Disturbs

-----------------------------------------------------------------------------
\* What a call begins as.
LEMMA BeginRecord ==
    ASSUME ChangesInv, NEW c \in PageCalls, NEW op \in Op, BeginCall(c, op)
    PROVE  /\ sends' \in [PageCalls -> PageCall]
           /\ \A d \in PageCalls \ {c} :
                 sends'[d] = IF Signs(op) THEN Disturbed(sends)[d] ELSE sends[d]
           /\ sends'[c] # NoSend /\ sends'[c].at \in {"token", "sent"} /\ sends'[c].op = op
           /\ Signs(op) => sends'[c].alone = ~Signing
           /\ CallFits(sends'[c])
           /\ minting' \in Mints /\ (minting' = minting \/ minting'.at = "asked")
<1> DEFINE alone == Signs(op) => ~Signing
<1> DEFINE new == [at |-> "token", op |-> op, alone |-> alone]
<1> DEFINE others == IF Signs(op) THEN Disturbed(sends) ELSE sends
<1> DEFINE fresh == ~lapsed
<1> DEFINE sent == Sending(new, jar.csrf, fresh)
<1>0. PageTypeOK
  BY DEF ChangesInv
<1>1. alone \in BOOLEAN /\ (Signs(op) => alone = ~Signing)
  BY DEF Signing, Signs
<1>2. new \in TokenCalls /\ new.at = "token" /\ new.op = op /\ new.alone = alone
  BY <1>1 DEF TokenCalls
<1>3. new \in PageCall /\ new # NoSend
  BY <1>2, CallShapes DEF TokenCalls, PageCall
<1>4. others \in [PageCalls -> PageCall]
  <2>1. Disturbed(sends) = [d \in PageCalls |-> Disturbed(sends)[d]]
    BY DEF Disturbed
  <2>2. \A d \in PageCalls : Disturbed(sends)[d] \in PageCall
    BY <1>0, PageTypes, DisturbedCalls
  <2>3. Disturbed(sends) \in [PageCalls -> PageCall]
    BY <2>1, <2>2
  <2>4. QED
    BY <1>0, <2>3, PageTypes
<1>5. CASE jar.csrf # NoToken
  <2>1. sends' = [others EXCEPT ![c] = sent] /\ minting' = minting
    BY <1>5 DEF BeginCall
  <2>2. jar.csrf \in Token \cup {NoToken} /\ fresh \in BOOLEAN /\ (fresh => ~lapsed)
    BY <1>0, PageTypes DEF Jars
  <2> HIDE DEF others, new, alone, fresh
  <2>3. /\ sent \in PageCall /\ sent # NoSend /\ sent.at = "sent" /\ sent.op = op
        /\ sent.alone = alone
        /\ sent.auth = jar.auth /\ sent.cookie = jar.csrf /\ sent.header = jar.csrf
        /\ sent.sound = fresh /\ sent.age = secretAge
    BY <1>0, <1>2, <2>2, SentRecord
  <2> HIDE DEF sent
  <2>4. fresh => Passes(sent)
    BY <1>5, <2>2, <2>3 DEF Passes, ChangesInv, CookiesFit
  <2>5. secretAge <= secretAge
    BY <1>0, PageTypes
  <2>6. CallFits(sent)
    BY <2>3, <2>4, <2>5 DEF CallFits
  <2>7. sends' \in [PageCalls -> PageCall] /\ sends'[c] = sent
        /\ \A d \in PageCalls \ {c} : sends'[d] = others[d]
    BY <1>4, <2>1, <2>3
  <2>8. QED
    BY <1>0, <1>1, <2>1, <2>3, <2>6, <2>7, PageTypes DEF others
<1>6. CASE jar.csrf = NoToken
  <2>1. /\ sends' = [others EXCEPT ![c] = new]
        /\ minting' = IF minting.at = "none" THEN [at |-> "asked", auth |-> jar.auth]
                      ELSE minting
    BY <1>6 DEF BeginCall
  <2>2. minting' \in Mints /\ (minting' = minting \/ minting'.at = "asked")
    BY <1>0, <2>1, PageTypes DEF Mints, AskedMints, Jars
  <2> HIDE DEF others, new, alone
  <2>3. CallFits(new)
    BY <1>2 DEF CallFits
  <2>4. sends' \in [PageCalls -> PageCall] /\ sends'[c] = new
        /\ \A d \in PageCalls \ {c} : sends'[d] = others[d]
    BY <1>3, <1>4, <2>1
  <2>5. QED
    BY <1>1, <1>2, <1>3, <2>2, <2>3, <2>4 DEF others
<1>7. QED
  BY <1>5, <1>6

LEMMA BeginChanges ==
    ASSUME ChangesInv, NEW c \in PageCalls, NEW op \in Op, BeginCall(c, op)
    PROVE  ChangesInv'
<1>0. PageTypeOK
  BY DEF ChangesInv
<1>1. me' \in Mes /\ unsure' \in BOOLEAN
  BY <1>0, PageTypes, DisturbedMe DEF BeginCall, Signs, Signing
<1>2. PageTypeOK'
  BY <1>0, <1>1, PageTypes, PageTypesNext, BeginRecord DEF BeginCall
<1>3. CookiesFit'
  BY DEF BeginCall, ChangesInv, CookiesFit, ValidToken
<1>4. MintFits'
  BY BeginRecord DEF BeginCall, ChangesInv, MintFits
<1>5. CallsFit'
  <2>1. \A d \in PageCalls : \/ sends'[d] = sends[d]
                             \/ sends'[d] = Disturbed(sends)[d]
                             \/ CallFits(sends'[d])
    BY BeginRecord
  <2>2. UNCHANGED secretAge
    BY DEF BeginCall
  <2>3. QED
    BY <1>0, <2>1, <2>2, CallsStay DEF ChangesInv
<1>6. QED
  BY <1>2, <1>3, <1>4, <1>5 DEF ChangesInv

-----------------------------------------------------------------------------
\* How a call ends: refused for its token, refused otherwise, lost, or heard.
Ended(c, ok) ==
    /\ sends[c] # NoSend
    /\ sends' \in [PageCalls -> PageCall]
    /\ sends'[c].at = "arrived" /\ sends'[c].op = sends[c].op /\ sends'[c] # NoSend
    /\ sends'[c].alone = sends[c].alone /\ sends'[c].ok = ok
    /\ \A d \in PageCalls \ {c} : sends'[d] = sends[d]

LEMMA EndedCall ==
    ASSUME PageTypeOK, NEW c \in PageCalls, sends[c].at \in {"sent", "answered"},
           NEW ok \in BOOLEAN, Becomes(c, SendEnded(c, ok))
    PROVE  Ended(c, ok) /\ CallFits(sends'[c])
<1>1. sends[c] # NoSend
  BY DEF NoSend
<1> DEFINE q == SendEnded(c, ok)
<1>2. /\ q \in PageCall /\ q # NoSend /\ q.at = "arrived" /\ q.op = sends[c].op
      /\ q.alone = sends[c].alone /\ q.ok = ok /\ q.caused
  BY <1>1, EndedRecord
<1> HIDE DEF q
<1>3. sends' \in [PageCalls -> PageCall] /\ sends'[c] = q
      /\ \A d \in PageCalls \ {c} : sends'[d] = sends[d]
  BY <1>2, CallBecomes DEF q
<1>4. QED
  BY <1>1, <1>2, <1>3 DEF Ended, CallFits

LEMMA RefusedCall ==
    ASSUME PageTypeOK, CallsFit, NEW c \in PageCalls, CsrfRefuses(c)
    PROVE  Ended(c, FALSE) /\ CallFits(sends'[c])
<1>1. sends[c].at = "sent" /\ sends[c] # NoSend /\ CallFits(sends[c])
  BY DEF CsrfRefuses, NoSend, CallsFit
<1> DEFINE b == ~sends[c].sound \/ sends[c].age # secretAge
<1> DEFINE q == [SendEnded(c, FALSE) EXCEPT !.caused = b]
<1>2. b \in BOOLEAN /\ b
  BY <1>1 DEF CallFits, CsrfRefuses
<1>3. /\ q \in PageCall /\ q # NoSend /\ q.at = "arrived" /\ q.op = sends[c].op
      /\ q.alone = sends[c].alone /\ q.ok = FALSE /\ q.caused = b
  <2> HIDE DEF b
  <2>1. QED
    BY <1>1, <1>2, EndedRecord
<1>4. Becomes(c, q)
  BY DEF CsrfRefuses
<1> HIDE DEF b, q
<1>5. sends' \in [PageCalls -> PageCall] /\ sends'[c] = q
      /\ \A d \in PageCalls \ {c} : sends'[d] = sends[d]
  BY <1>3, <1>4, CallBecomes
<1>6. QED
  BY <1>1, <1>2, <1>3, <1>5 DEF Ended, CallFits

LEMMA RefusedChanges ==
    ASSUME ChangesInv, NEW c \in PageCalls,
           \/ CsrfRefuses(c)
           \/ Answers(c) \/ CallLost(c)
    PROVE  /\ ChangesInv'
           /\ \E ok \in BOOLEAN : Ended(c, ok) /\ (ok => Answers(c) /\ sends[c].op = "change")
<1>0. PageTypeOK /\ CallsFit
  BY DEF ChangesInv
<1>1. \E ok \in BOOLEAN : /\ Ended(c, ok) /\ CallFits(sends'[c])
                          /\ ok => Answers(c) /\ sends[c].op = "change"
  <2>1. CASE CsrfRefuses(c)
    BY <1>0, <2>1, RefusedCall
  <2>2. CASE Answers(c)
    BY <1>0, <2>2, EndedCall DEF Answers
  <2>3. CASE CallLost(c)
    BY <1>0, <2>3, EndedCall DEF CallLost
  <2>4. QED
    BY <2>1, <2>2, <2>3
<1>2. /\ sends' \in [PageCalls -> PageCall] /\ CallFits(sends'[c])
      /\ \A d \in PageCalls \ {c} : sends'[d] = sends[d]
  BY <1>1 DEF Ended
<1>3. /\ UNCHANGED <<jar, accepted, opened, secretAge, tokens, minting, me, showsUser, events,
                     lapsed>>
      /\ unsure' \in BOOLEAN
  BY <1>0, PageTypes DEF CsrfRefuses, Answers, CallLost, Signs
<1>4. PageTypeOK'
  BY <1>0, <1>2, <1>3, PageTypes, PageTypesNext
<1>5. CallsFit'
  BY <1>0, <1>2, <1>3, CallsStay
<1>6. CookiesFit' /\ MintFits'
  BY <1>3 DEF ChangesInv, CookiesFit, MintFits, ValidToken
<1>7. QED
  BY <1>1, <1>4, <1>5, <1>6 DEF ChangesInv

\* A login or a logout that the server handled.
AnsweredAs(c, ok, b, t) ==
    /\ sends[c].at = "sent" /\ sends[c] # NoSend
    /\ sends' \in [PageCalls -> PageCall]
    /\ sends'[c].at = "answered" /\ sends'[c].op = sends[c].op /\ sends'[c] # NoSend
    /\ sends'[c].alone = sends[c].alone /\ sends'[c].ok = ok
    /\ sends'[c].auth = b /\ sends'[c].cookie = t
    /\ \A d \in PageCalls \ {c} : sends'[d] = sends[d]

LEMMA AnsweredCall ==
    ASSUME PageTypeOK, NEW c \in PageCalls, sends[c].at = "sent", NEW ok \in BOOLEAN,
           NEW b \in Bindings, NEW t \in Token,
           Becomes(c, [at |-> "answered", op |-> sends[c].op, alone |-> sends[c].alone,
                       ok |-> ok, auth |-> b, cookie |-> t])
    PROVE  AnsweredAs(c, ok, b, t)
<1>1. sends[c] # NoSend /\ sends[c] \in PageCall
  BY PageTypes DEF NoSend
<1>2. sends[c].op \in Op /\ sends[c].alone \in BOOLEAN
  BY <1>1, CallShapes
<1> DEFINE q == [at |-> "answered", op |-> sends[c].op, alone |-> sends[c].alone,
                 ok |-> ok, auth |-> b, cookie |-> t]
<1>3. /\ q \in PageCall /\ q # NoSend /\ q.at = "answered" /\ q.op = sends[c].op
      /\ q.alone = sends[c].alone /\ q.ok = ok /\ q.auth = b /\ q.cookie = t
  BY <1>2, AnsweredRecord
<1> HIDE DEF q
<1>4. sends' \in [PageCalls -> PageCall] /\ sends'[c] = q
      /\ \A d \in PageCalls \ {c} : sends'[d] = sends[d]
  BY <1>3, CallBecomes DEF q
<1>5. QED
  BY <1>1, <1>3, <1>4 DEF AnsweredAs

LEMMA LoginChanges ==
    ASSUME ChangesInv, NEW c \in PageCalls, NEW s \in PageSessions, LoginHandled(c, s)
    PROVE  /\ ChangesInv'
           /\ AnsweredAs(c, TRUE, s, Minted(s)) /\ sends[c].op = "login" /\ s \in accepted'
<1>0. PageTypeOK /\ CallsFit /\ s \in Bindings
  BY DEF ChangesInv, Bindings
<1>1. Minted(s) \in Token /\ Minted(s).of = s
  BY <1>0, Tokens, PageTypes DEF LoginHandled
<1>2. AnsweredAs(c, TRUE, s, Minted(s))
  BY <1>0, <1>1, AnsweredCall DEF LoginHandled, LoginToken
<1>3. CallFits(sends'[c])
  BY <1>1, <1>2 DEF AnsweredAs, CallFits
<1>4. CallsFit'
  BY <1>0, <1>2, <1>3, CallsStay DEF LoginHandled, AnsweredAs
<1>5. accepted' \subseteq opened' /\ opened' \subseteq PageSessions /\ s \in accepted'
  BY <1>0, PageTypes DEF LoginHandled
<1>6. tokens' \in 0..TokenBound
  BY <1>0, PageTypes, PageAssumption DEF LoginHandled, CanMint
<1>7. PageTypeOK'
  BY <1>0, <1>2, <1>5, <1>6, PageTypes, PageTypesNext DEF LoginHandled, AnsweredAs
<1>8. CookiesFit' /\ MintFits'
  BY DEF LoginHandled, ChangesInv, CookiesFit, MintFits, ValidToken
<1>9. QED
  BY <1>2, <1>4, <1>5, <1>7, <1>8 DEF ChangesInv, LoginHandled

LEMMA LogoutChanges ==
    ASSUME ChangesInv, NEW c \in PageCalls, LogoutHandled(c)
    PROVE  /\ ChangesInv'
           /\ \E ok \in BOOLEAN : AnsweredAs(c, ok, NoSession, Minted(NoSession))
           /\ sends[c].op = "logout" /\ accepted' \subseteq accepted
<1>0. PageTypeOK /\ CallsFit /\ NoSession \in Bindings
  BY DEF ChangesInv, Bindings
<1>1. Minted(NoSession) \in Token /\ Minted(NoSession).of = NoSession
  BY <1>0, Tokens, PageTypes DEF LogoutHandled
<1>2. PICK ok \in BOOLEAN :
         /\ accepted' = IF ok THEN accepted \ {sends[c].auth} ELSE accepted
         /\ Becomes(c, [at |-> "answered", op |-> "logout", alone |-> sends[c].alone,
                        ok |-> ok, auth |-> NoSession, cookie |-> Minted(NoSession)])
  BY DEF LogoutHandled, LogoutAuth, LogoutToken
<1>3. AnsweredAs(c, ok, NoSession, Minted(NoSession))
  BY <1>0, <1>1, <1>2, AnsweredCall DEF LogoutHandled
<1>4. CallFits(sends'[c])
  BY <1>1, <1>3 DEF AnsweredAs, CallFits
<1>5. CallsFit'
  BY <1>0, <1>3, <1>4, CallsStay DEF LogoutHandled, AnsweredAs
<1>6. accepted' \subseteq accepted
  BY <1>2
<1>7. tokens' \in 0..TokenBound
  BY <1>0, PageTypes, PageAssumption DEF LogoutHandled, CanMint
<1>8. PageTypeOK'
  BY <1>0, <1>3, <1>6, <1>7, PageTypes, PageTypesNext DEF LogoutHandled, AnsweredAs
<1>9. CookiesFit' /\ MintFits'
  BY DEF LogoutHandled, ChangesInv, CookiesFit, MintFits, ValidToken
<1>10. QED
  BY <1>3, <1>5, <1>6, <1>8, <1>9 DEF ChangesInv, LogoutHandled

LEMMA ArrivalChanges ==
    ASSUME ChangesInv, NEW c \in PageCalls, AnswerArrives(c)
    PROVE  /\ ChangesInv'
           /\ Ended(c, sends[c].ok) /\ jar'.auth = sends[c].auth
<1>0. PageTypeOK /\ CallsFit /\ sends[c] \in PageCall
  BY PageTypes DEF ChangesInv
<1>1. sends[c] \in AnsweredCalls
  BY <1>0, CallShapes DEF AnswerArrives
<1>2. sends[c].ok \in BOOLEAN /\ sends[c].auth \in Bindings /\ sends[c].cookie \in Token
  BY <1>1 DEF AnsweredCalls
<1>3. Ended(c, sends[c].ok) /\ CallFits(sends'[c])
  BY <1>0, <1>2, EndedCall DEF AnswerArrives
<1>4. jar' \in Jars /\ jar'.csrf = sends[c].cookie /\ jar'.auth = sends[c].auth
  BY <1>0, <1>2, JarBecomes DEF AnswerArrives
<1>5. minting' \in Mints /\ MintFits'
  BY <1>0, PageTypes, Overridden DEF AnswerArrives, ChangesInv, MintFits
<1>6. CookiesFit'
  <2>1. sends[c].cookie.of = sends[c].auth
    BY DEF AnswerArrives, ChangesInv, CallsFit, CallFits
  <2>2. sends[c].cookie.nonce > 0
    BY <1>2, Tokens
  <2>3. QED
    BY <1>4, <2>1, <2>2 DEF AnswerArrives, CookiesFit, ValidToken
<1>7. CallsFit'
  BY <1>0, <1>3, CallsStay DEF AnswerArrives, Ended
<1>8. lapsed' \in BOOLEAN
  BY DEF AnswerArrives
<1>9. PageTypeOK'
  BY <1>0, <1>3, <1>4, <1>5, <1>8, PageTypes, PageTypesNext DEF AnswerArrives, Ended
<1>10. QED
  BY <1>3, <1>4, <1>5, <1>6, <1>7, <1>9 DEF ChangesInv

LEMMA ContinueChanges ==
    ASSUME ChangesInv, NEW c \in PageCalls, CallContinues(c)
    PROVE  /\ ChangesInv'
           /\ sends[c] \in ArrivedCalls /\ sends[c] # NoSend
           /\ sends'[c] = NoSend /\ \A d \in PageCalls \ {c} : sends'[d] = sends[d]
           /\ sends' \in [PageCalls -> PageCall]
<1>0. PageTypeOK /\ CallsFit /\ sends[c] \in PageCall /\ NoSend \in PageCall
  BY PageTypes DEF ChangesInv, PageCall
<1>1. sends[c] \in ArrivedCalls /\ sends[c] # NoSend
  BY <1>0, CallShapes DEF CallContinues, NoSend
<1>2. sends[c].op \in Op /\ sends[c].ok \in BOOLEAN /\ sends[c].alone \in BOOLEAN
  BY <1>1 DEF ArrivedCalls
<1>3. /\ sends' \in [PageCalls -> PageCall] /\ sends'[c] = NoSend
      /\ \A d \in PageCalls \ {c} : sends'[d] = sends[d]
  BY <1>0, CallBecomes DEF CallContinues
<1>4. CallFits(NoSend)
  BY DEF CallFits, NoSend
<1>5. CallsFit'
  BY <1>0, <1>3, <1>4, CallsStay DEF CallContinues
<1>6. showsUser \in BOOLEAN /\ unsure \in BOOLEAN
  BY <1>0, PageTypes
<1>7. showsUser' \in BOOLEAN /\ unsure' \in BOOLEAN
  <2>1. CASE sends[c].op = "change"
    BY <1>6, <2>1 DEF CallContinues, Shows
  <2>2. CASE sends[c].op = "login"
    BY <1>2, <1>6, <2>2 DEF CallContinues, Shows
  <2>3. CASE sends[c].op = "logout"
    BY <1>2, <1>6, <2>3 DEF CallContinues, Shows
  <2>4. QED
    BY <1>2, <2>1, <2>2, <2>3 DEF Op
<1>8. PageTypeOK'
  BY <1>0, <1>3, <1>7, PageTypes, PageTypesNext DEF CallContinues
<1>9. CookiesFit' /\ MintFits'
  BY DEF CallContinues, ChangesInv, CookiesFit, MintFits, ValidToken
<1>10. QED
  BY <1>1, <1>3, <1>5, <1>8, <1>9 DEF ChangesInv

-----------------------------------------------------------------------------
LEMMA MintChanges ==
    ASSUME ChangesInv, MintHandled \/ MintArrives \/ MintFails
    PROVE  /\ ChangesInv'
           /\ jar'.auth = jar.auth
           /\ UNCHANGED <<accepted, sends, me, showsUser, unsure>>
<1>0. PageTypeOK /\ CallsFit /\ minting \in Mints
  BY PageTypes DEF ChangesInv
<1>1. UNCHANGED <<accepted, opened, secretAge, sends, me, showsUser, events, unsure>>
  BY DEF MintHandled, MintArrives, MintFails
<1>2. CallsFit'
  BY <1>0, <1>1, CallsStay
<1>3. CASE MintHandled
  <2>1. minting.auth \in Bindings
    BY <1>0, <1>3, MintShapes DEF MintHandled, AskedMints
  <2>2. Minted(minting.auth) \in Token /\ Minted(minting.auth).of = minting.auth
    BY <1>0, <1>3, <2>1, Tokens, PageTypes DEF MintHandled
  <2> DEFINE t == Minted(minting.auth)
  <2>3. minting' = [at |-> "answered", auth |-> minting.auth, token |-> t]
    BY <1>3 DEF MintHandled
  <2> HIDE DEF t
  <2>4. minting' \in AnsweredMints /\ minting'.at = "answered" /\ minting'.auth = minting.auth
        /\ minting'.token = t
    BY <2>1, <2>2, <2>3 DEF AnsweredMints, t
  <2>5. minting' \in Mints /\ MintFits'
    BY <2>2, <2>4 DEF Mints, MintFits, t
  <2>6. tokens' \in 0..TokenBound /\ UNCHANGED <<jar, lapsed>>
    BY <1>0, <1>3, PageTypes, PageAssumption DEF MintHandled, CanMint
  <2>7. PageTypeOK' /\ CookiesFit'
    BY <1>0, <1>1, <2>5, <2>6, PageTypes, PageTypesNext DEF ChangesInv, CookiesFit, ValidToken
  <2>8. QED
    BY <1>1, <1>2, <2>5, <2>6, <2>7 DEF ChangesInv
<1>4. CASE MintArrives
  <2>1. minting \in AnsweredMints /\ minting.at = "answered"
    BY <1>0, <1>4, MintShapes DEF MintArrives
  <2>2. minting.token \in Token /\ minting.auth \in Bindings /\ minting.token.of = minting.auth
    BY <2>1 DEF AnsweredMints, ChangesInv, MintFits
  <2>3. jar' \in Jars /\ jar'.csrf = minting.token /\ jar'.auth = jar.auth
    BY <1>0, <1>4, <2>2, JarBecomes DEF MintArrives
  <2>4. minting' = [at |-> "arrived", token |-> minting.token, kept |-> TRUE]
        /\ lapsed' = (minting.auth # jar.auth \/ minting.token.age # secretAge)
        /\ UNCHANGED tokens
    BY <1>4 DEF MintArrives
  <2>5. minting' \in ArrivedMints /\ minting'.at = "arrived" /\ minting'.token = minting.token
    BY <2>2, <2>4 DEF ArrivedMints
  <2>6. minting' \in Mints /\ MintFits'
    BY <2>3, <2>5 DEF Mints, MintFits
  <2>7. CookiesFit'
    BY <1>1, <2>2, <2>3, <2>4, Tokens DEF CookiesFit, ValidToken
  <2>8. PageTypeOK'
    BY <1>0, <1>1, <2>3, <2>4, <2>6, PageTypes, PageTypesNext
  <2>9. QED
    BY <1>1, <1>2, <2>3, <2>6, <2>7, <2>8 DEF ChangesInv
<1>5. CASE MintFails
  <2>1. minting' \in Mints /\ minting'.at \notin {"answered", "arrived"}
    BY <1>5 DEF MintFails, Mints
  <2>2. UNCHANGED <<jar, lapsed, tokens>>
    BY <1>5 DEF MintFails
  <2>3. PageTypeOK' /\ CookiesFit' /\ MintFits'
    BY <1>0, <1>1, <2>1, <2>2, PageTypes, PageTypesNext
       DEF ChangesInv, CookiesFit, ValidToken, MintFits
  <2>4. QED
    BY <1>1, <1>2, <2>2, <2>3 DEF ChangesInv
<1>6. QED
  BY <1>3, <1>4, <1>5

\* The calls that waited for a token go on, or fail with the request for it.
LEMMA ResolveChanges ==
    ASSUME ChangesInv, MintResolves
    PROVE  /\ ChangesInv'
           /\ UNCHANGED <<jar, accepted, me, showsUser>>
           /\ \A c \in PageCalls :
                 \/ sends[c].at # "token" /\ sends'[c] = sends[c]
                 \/ /\ sends[c].at = "token" /\ sends[c] # NoSend /\ sends'[c] # NoSend
                    /\ sends'[c].op = sends[c].op /\ sends'[c].alone = sends[c].alone
                    /\ \/ sends'[c].at = "sent"
                       \/ minting.at = "lost" /\ sends'[c].at = "arrived" /\ ~sends'[c].ok
<1>0. PageTypeOK /\ CallsFit /\ minting \in Mints
  BY PageTypes DEF ChangesInv
<1> DEFINE header == IF minting.at = "arrived" THEN minting.token ELSE NoToken
<1> DEFINE sound == minting.at = "arrived" /\ minting.kept /\ ~lapsed
<1>1. sends' = [c \in PageCalls |->
              IF sends[c].at # "token" THEN sends[c]
              ELSE IF minting.at = "lost" THEN SendEnded(c, FALSE)
              ELSE Sending(sends[c], header, sound)]
  BY DEF MintResolves
<1>2. header \in Token \cup {NoToken}
  BY <1>0, MintShapes DEF ArrivedMints
<1>3. sound \in BOOLEAN
  OBVIOUS
<1>4. sound => header = jar.csrf /\ ValidToken(jar.csrf, jar.auth)
  <2>1. SUFFICES ASSUME minting.at = "arrived", minting.kept, ~lapsed
                 PROVE  minting.token = jar.csrf /\ ValidToken(jar.csrf, jar.auth)
    OBVIOUS
  <2>2. minting.token \in Token
    BY <1>0, <2>1, MintShapes DEF ArrivedMints
  <2>3. minting.token = jar.csrf /\ jar.csrf # NoToken
    BY <2>1, <2>2, Tokens DEF ChangesInv, MintFits
  <2>4. QED
    BY <2>1, <2>3 DEF ChangesInv, CookiesFit
<1> HIDE DEF header, sound
<1>5. ASSUME NEW c \in PageCalls
      PROVE  /\ sends'[c] \in PageCall
             /\ sends'[c] = sends[c] \/ CallFits(sends'[c])
             /\ \/ sends[c].at # "token" /\ sends'[c] = sends[c]
                \/ /\ sends[c].at = "token" /\ sends[c] # NoSend /\ sends'[c] # NoSend
                   /\ sends'[c].op = sends[c].op /\ sends'[c].alone = sends[c].alone
                   /\ \/ sends'[c].at = "sent"
                      \/ minting.at = "lost" /\ sends'[c].at = "arrived" /\ ~sends'[c].ok
  <2>0. sends[c] \in PageCall
    BY <1>0, PageTypes
  <2>1. CASE sends[c].at # "token"
    <3>1. sends'[c] = sends[c]
      BY <1>1, <2>1
    <3>2. QED
      BY <2>0, <2>1, <3>1
  <2>2. CASE sends[c].at = "token"
    <3>1. sends[c] \in TokenCalls /\ sends[c] # NoSend
      BY <2>0, <2>2, CallShapes DEF NoSend
    <3>2. CASE minting.at = "lost"
      <4> DEFINE q == SendEnded(c, FALSE)
      <4>1. sends'[c] = q
        BY <1>1, <2>2, <3>2
      <4>2. /\ q \in PageCall /\ q # NoSend /\ q.at = "arrived" /\ q.op = sends[c].op
            /\ q.alone = sends[c].alone /\ q.ok = FALSE /\ q.caused
        BY <1>0, <3>1, EndedRecord
      <4> HIDE DEF q
      <4>3. CallFits(q)
        BY <4>2 DEF CallFits
      <4>4. QED
        BY <2>2, <3>1, <3>2, <4>1, <4>2, <4>3
    <3>3. CASE minting.at # "lost"
      <4> DEFINE q == Sending(sends[c], header, sound)
      <4>1. sends'[c] = q
        BY <1>1, <2>2, <3>3
      <4>2. /\ q \in PageCall /\ q # NoSend /\ q.at = "sent" /\ q.op = sends[c].op
            /\ q.alone = sends[c].alone
            /\ q.auth = jar.auth /\ q.cookie = jar.csrf /\ q.header = header
            /\ q.sound = sound /\ q.age = secretAge
        BY <1>0, <1>2, <1>3, <3>1, SentRecord
      <4> HIDE DEF q
      <4>3. sound => Passes(q)
        BY <1>4, <4>2 DEF Passes
      <4>4. secretAge <= secretAge
        BY <1>0, PageTypes
      <4>5. CallFits(q)
        BY <4>2, <4>3, <4>4 DEF CallFits
      <4>6. QED
        BY <2>2, <3>1, <4>1, <4>2, <4>5
    <3>4. QED
      BY <3>2, <3>3
  <2>3. QED
    BY <2>1, <2>2
<1>6. sends' \in [PageCalls -> PageCall]
  <2>1. sends' = [c \in PageCalls |-> sends'[c]]
    BY <1>1
  <2>2. QED
    BY <1>5, <2>1
<1>7. /\ UNCHANGED <<jar, accepted, opened, secretAge, tokens, me, showsUser, events, lapsed>>
      /\ minting' = [at |-> "none"] /\ unsure' \in BOOLEAN
  BY <1>0, PageTypes DEF MintResolves
<1>8. minting' \in Mints /\ minting'.at = "none"
  BY <1>7 DEF Mints
<1>9. CallsFit'
  BY <1>0, <1>5, <1>7, CallsStay
<1>10. PageTypeOK'
  BY <1>0, <1>6, <1>7, <1>8, PageTypes, PageTypesNext
<1>11. CookiesFit' /\ MintFits'
  BY <1>7, <1>8 DEF ChangesInv, CookiesFit, MintFits, ValidToken
<1>12. QED
  BY <1>5, <1>7, <1>9, <1>10, <1>11 DEF ChangesInv

LEMMA MeChanges ==
    ASSUME ChangesInv, MeHandled \/ MeFails \/ MeContinues
    PROVE  /\ ChangesInv'
           /\ UNCHANGED <<jar, accepted, sends>>
           /\ MeHandled => /\ me'.at = IF me.auth \in accepted THEN "yes" ELSE "no"
                           /\ me'.alone = me.alone
           /\ ~MeHandled => me'.at = "done"
<1>0. PageTypeOK /\ CallsFit /\ me \in Mes
  BY PageTypes DEF ChangesInv
<1>1. UNCHANGED <<jar, accepted, opened, secretAge, tokens, minting, sends, events, lapsed>>
  BY DEF MeHandled, MeFails, MeContinues
<1>2. showsUser' \in BOOLEAN /\ unsure' \in BOOLEAN
  BY <1>0, PageTypes DEF MeHandled, MeFails, MeContinues
<1>3. me' \in Mes
      /\ (MeHandled => /\ me'.at = IF me.auth \in accepted THEN "yes" ELSE "no"
                       /\ me'.alone = me.alone)
      /\ (~MeHandled => me'.at = "done")
  <2>1. CASE MeHandled
    <3>1. me.alone \in BOOLEAN
      BY <1>0, <2>1, MeShapes DEF MeHandled
    <3> DEFINE a == IF me.auth \in accepted THEN "yes" ELSE "no"
    <3>2. me' = [at |-> a, alone |-> me.alone] /\ a \in {"yes", "no"}
      BY <2>1 DEF MeHandled
    <3> HIDE DEF a
    <3>3. me' \in ToldMes /\ me'.at = a /\ me'.alone = me.alone
      BY <3>1, <3>2 DEF ToldMes
    <3>4. QED
      BY <2>1, <3>3 DEF Mes, a
  <2>2. CASE MeFails \/ MeContinues
    <3>1. me' = [at |-> "done"] /\ ~MeHandled
      <4>1. me' = [at |-> "done"]
        BY <2>2 DEF MeFails, MeContinues
      <4>2. ~MeHandled
        BY <4>1 DEF MeHandled
      <4>3. QED
        BY <4>1, <4>2
    <3>2. QED
      BY <3>1 DEF Mes
  <2>3. QED
    BY <2>1, <2>2
<1>4. PageTypeOK' /\ CookiesFit' /\ MintFits'
  BY <1>0, <1>1, <1>2, <1>3, PageTypes, PageTypesNext
     DEF ChangesInv, CookiesFit, MintFits, ValidToken
<1>5. CallsFit'
  BY <1>0, <1>1, CallsStay
<1>6. QED
  BY <1>1, <1>3, <1>4, <1>5 DEF ChangesInv

-----------------------------------------------------------------------------
LEMMA ExpiryChanges ==
    ASSUME ChangesInv, CsrfCookieExpires
    PROVE  /\ ChangesInv'
           /\ jar'.auth = jar.auth
           /\ UNCHANGED <<accepted, sends, me, showsUser, unsure>>
<1>0. PageTypeOK /\ CallsFit /\ minting \in Mints
  BY PageTypes DEF ChangesInv
<1>1. jar' \in Jars /\ jar'.csrf = NoToken /\ jar'.auth = jar.auth
  BY <1>0, JarBecomes DEF CsrfCookieExpires
<1>2. minting' \in Mints /\ MintFits'
  BY <1>0, Overridden DEF CsrfCookieExpires, ChangesInv, MintFits
<1>3. events' \in 0..EventBound
  BY <1>0, PageTypes, PageAssumption DEF CsrfCookieExpires, Happens
<1>4. PageTypeOK' /\ CookiesFit'
  BY <1>0, <1>1, <1>2, <1>3, PageTypes, PageTypesNext DEF CsrfCookieExpires, CookiesFit
<1>5. CallsFit'
  BY <1>0, CallsStay DEF CsrfCookieExpires
<1>6. QED
  BY <1>1, <1>2, <1>4, <1>5 DEF ChangesInv, CsrfCookieExpires

\* What happens elsewhere and disturbs what is under way.
Elsewhere ==
    \/ AuthCookieExpires \/ RotateSecrets
    \/ \E s \in PageSessions : SessionEnds(s)
    \/ \E s \in Bindings : OtherTab(s)

LEMMA ElsewhereChanges ==
    ASSUME ChangesInv, Elsewhere
    PROVE  ChangesInv' /\ Disturbs
<1>0. PageTypeOK /\ CallsFit /\ minting \in Mints /\ NoSession \notin PageSessions
  BY PageTypes, PageAssumption DEF ChangesInv
<1>1. Disturbs
  BY DEF Elsewhere, AuthCookieExpires, RotateSecrets, SessionEnds, OtherTab
<1>2. /\ sends' \in [PageCalls -> PageCall] /\ me' \in Mes
      /\ unsure' \in BOOLEAN /\ showsUser' \in BOOLEAN
  BY <1>0, <1>1, DisturbedTypes
<1>3. events' \in 0..EventBound
  BY <1>0, PageTypes, PageAssumption
     DEF Elsewhere, AuthCookieExpires, RotateSecrets, SessionEnds, OtherTab, Happens
<1>4. \A c \in PageCalls : sends'[c] = Disturbed(sends)[c]
  BY <1>1 DEF Disturbs
<1>5. CASE AuthCookieExpires
  <2>1. jar' \in Jars /\ jar'.csrf = jar.csrf /\ lapsed' = (jar.csrf # NoToken)
    BY <1>0, <1>5, JarBecomes DEF AuthCookieExpires
  <2>2. minting' \in Mints /\ MintFits'
    BY <1>0, <1>5, Overridden DEF AuthCookieExpires, ChangesInv, MintFits
  <2>3. PageTypeOK'
    BY <1>0, <1>2, <1>3, <1>5, <2>1, <2>2, PageTypes, PageTypesNext DEF AuthCookieExpires
  <2>4. CookiesFit' /\ CallsFit'
    BY <1>0, <1>4, <1>5, <2>1, CallsStay DEF AuthCookieExpires, CookiesFit
  <2>5. QED
    BY <1>1, <2>2, <2>3, <2>4 DEF ChangesInv
<1>6. CASE RotateSecrets
  <2>1. jar' = jar /\ minting' = minting /\ lapsed' = (jar.csrf # NoToken)
        /\ secretAge = 0 /\ secretAge' = 1
    BY <1>6 DEF RotateSecrets
  <2>2. PageTypeOK'
    BY <1>0, <1>2, <1>3, <1>6, <2>1, PageTypes, PageTypesNext DEF RotateSecrets
  <2>3. CookiesFit' /\ MintFits'
    BY <2>1 DEF ChangesInv, CookiesFit, MintFits
  <2>4. ASSUME NEW c \in PageCalls PROVE CallFits(sends[c])'
    <3> DEFINE q == Disturbed(sends)[c]
    <3>1. /\ sends[c].at = "sent" => q.age = sends[c].age
          /\ sends[c].at = "answered" => q.auth = sends[c].auth /\ q.cookie = sends[c].cookie
          /\ sends[c].at = "arrived" => q.caused = sends[c].caused
          /\ q.at = sends[c].at
      BY <1>0, PageTypes, DisturbedCalls
    <3>2. sends'[c] = q
      BY <1>4
    <3> HIDE DEF q
    <3>3. /\ sends[c].at = "sent" => sends[c].age \in 0..1 /\ sends[c].age <= secretAge
          /\ sends[c].at = "answered" => sends[c].cookie.of = sends[c].auth
          /\ sends[c].at = "arrived" => sends[c].caused
      <4>1. sends[c].at = "sent" => sends[c] \in SentCalls
        BY <1>0, PageTypes, CallShapes
      <4>2. QED
        BY <1>0, <4>1 DEF CallsFit, CallFits, SentCalls
    <3>4. /\ sends'[c].at = "sent" => sends'[c].age = 0
          /\ sends'[c].at = "answered" => sends'[c].cookie.of = sends'[c].auth
          /\ sends'[c].at = "arrived" => sends'[c].caused
      BY <2>1, <3>1, <3>2, <3>3
    <3>5. QED
      BY <2>1, <3>4 DEF CallFits
  <2>5. QED
    BY <1>1, <2>2, <2>3, <2>4 DEF ChangesInv, CallsFit
<1>7. ASSUME NEW s \in PageSessions, SessionEnds(s) PROVE ChangesInv'
  <2>1. UNCHANGED <<jar, opened, secretAge, tokens, minting, lapsed>>
    BY <1>7 DEF SessionEnds
  <2>2. PageTypeOK'
    BY <1>0, <1>2, <1>3, <1>7, <2>1, PageTypes, PageTypesNext DEF SessionEnds
  <2>3. CookiesFit' /\ MintFits'
    BY <2>1 DEF ChangesInv, CookiesFit, MintFits, ValidToken
  <2>4. CallsFit'
    BY <1>0, <1>4, <2>1, CallsStay
  <2>5. QED
    BY <2>2, <2>3, <2>4 DEF ChangesInv
<1>8. ASSUME NEW s \in Bindings, OtherTab(s) PROVE ChangesInv'
  <2>1. Minted(s) \in Token /\ Minted(s).of = s /\ Minted(s).age = secretAge
    BY <1>0, <1>8, Tokens, PageTypes DEF OtherTab
  <2>2. jar' \in Jars /\ jar'.csrf = Minted(s) /\ jar'.auth = s
    BY <1>0, <1>8, <2>1, JarBecomes DEF OtherTab
  <2>3. minting' \in Mints /\ MintFits'
    BY <1>0, <1>8, Overridden DEF OtherTab, ChangesInv, MintFits
  <2>4. tokens' \in 0..TokenBound
    BY <1>0, <1>8, PageTypes, PageAssumption DEF OtherTab, CanMint
  <2>5. accepted' \subseteq opened' /\ opened' \subseteq PageSessions
    BY <1>0, <1>8, PageTypes DEF OtherTab, Bindings
  <2>6. PageTypeOK'
    BY <1>0, <1>2, <1>3, <1>8, <2>2, <2>3, <2>4, <2>5, PageTypes, PageTypesNext DEF OtherTab
  <2>7. CookiesFit'
    BY <1>8, <2>1, <2>2, Tokens DEF OtherTab, CookiesFit, ValidToken
  <2>8. CallsFit'
    BY <1>0, <1>4, <1>8, CallsStay DEF OtherTab
  <2>9. QED
    BY <2>3, <2>6, <2>7, <2>8 DEF ChangesInv
<1>9. QED
  BY <1>1, <1>5, <1>6, <1>7, <1>8 DEF Elsewhere

LEMMA ChangesStep ==
    ASSUME ChangesInv, [PageNext]_pageVars
    PROVE  ChangesInv'
<1>1. ASSUME NEW c \in PageCalls,
             \/ \E op \in Op : BeginCall(c, op)
             \/ CsrfRefuses(c) \/ Answers(c)
             \/ \E s \in PageSessions : LoginHandled(c, s)
             \/ LogoutHandled(c) \/ AnswerArrives(c) \/ CallLost(c) \/ CallContinues(c)
      PROVE  ChangesInv'
  BY <1>1, BeginChanges, RefusedChanges, LoginChanges, LogoutChanges, ArrivalChanges,
     ContinueChanges
<1>2. CASE MintHandled \/ MintArrives \/ MintFails \/ MintResolves
  BY <1>2, MintChanges, ResolveChanges
<1>3. CASE MeHandled \/ MeFails \/ MeContinues
  BY <1>3, MeChanges
<1>4. CASE CsrfCookieExpires \/ Elsewhere
  BY <1>4, ExpiryChanges, ElsewhereChanges
<1>5. CASE UNCHANGED pageVars
  <2>1. PageTypeOK' /\ CookiesFit' /\ MintFits'
    BY <1>5 DEF pageVars, ChangesInv, PageTypeOK, CookiesFit, MintFits, ValidToken
  <2>2. CallsFit'
    BY <1>5, CallsStay DEF pageVars, ChangesInv
  <2>3. QED
    BY <2>1, <2>2 DEF ChangesInv
<1>6. QED
  BY <1>1, <1>2, <1>3, <1>4, <1>5 DEF PageNext, Elsewhere

LEMMA PageInitially ==
    ASSUME PageInit
    PROVE  ChangesInv
<1>0. /\ NoSession \notin PageSessions /\ PageSessions # {}
      /\ TokenBound \in Nat \ {0} /\ EventBound \in Nat
  BY PageAssumption
<1>1. PICK in \in BOOLEAN, held \in BOOLEAN :
       LET s == CHOOSE s \in PageSessions : TRUE IN
          /\ opened = IF held THEN {s} ELSE {}
          /\ accepted = IF held /\ in THEN {s} ELSE {}
          /\ jar \in [auth: {IF held THEN s ELSE NoSession},
                      csrf: {NoToken, [of |-> IF held THEN s ELSE NoSession,
                                       nonce |-> 1, age |-> 0]}]
  BY DEF PageInit
<1> DEFINE s == CHOOSE s \in PageSessions : TRUE
<1> DEFINE b == IF held THEN s ELSE NoSession
<1> DEFINE t == [of |-> b, nonce |-> 1, age |-> 0]
<1>2. opened = (IF held THEN {s} ELSE {}) /\ accepted \subseteq opened
      /\ jar \in [auth: {b}, csrf: {NoToken, t}]
  BY <1>1
<1>3. s \in PageSessions /\ b \in Bindings /\ (held => b = s)
  BY <1>0 DEF Bindings
<1>4. t \in Token /\ t.of = b /\ t.age = 0 /\ t.nonce > 0
  <2>1. 1 \in 1..TokenBound /\ 0 \in 0..1 /\ 1 > 0
    BY <1>0
  <2>2. QED
    BY <1>3, <2>1 DEF Token
<1> HIDE DEF t, s, b
<1>5. jar \in Jars /\ jar.auth = b /\ jar.csrf \in {NoToken, t}
  BY <1>2, <1>3, <1>4 DEF Jars
<1>6. /\ secretAge = 0 /\ tokens = 1 /\ minting = [at |-> "none"]
      /\ sends = [c \in PageCalls |-> NoSend]
      /\ me = [at |-> "asked", auth |-> jar.auth, alone |-> TRUE]
      /\ showsUser = FALSE /\ events = 0 /\ lapsed = FALSE /\ unsure = TRUE
  BY DEF PageInit
<1>7. minting \in Mints /\ minting.at = "none"
  BY <1>6 DEF Mints
<1>8. me \in Mes
  <2>1. me \in AskedMes
    BY <1>3, <1>5, <1>6 DEF AskedMes
  <2>2. QED
    BY <2>1 DEF Mes
<1>9. sends \in [PageCalls -> PageCall]
  BY <1>6 DEF PageCall
<1>10. PageTypeOK
  <2>1. opened \subseteq PageSessions /\ accepted \subseteq opened
    BY <1>2, <1>3
  <2>2. secretAge \in 0..1 /\ tokens \in 0..TokenBound /\ events \in 0..EventBound
    BY <1>0, <1>6
  <2>3. QED
    BY <1>5, <1>6, <1>7, <1>8, <1>9, <2>1, <2>2, PageTypes
<1>11. CookiesFit
  BY <1>4, <1>5, <1>6 DEF CookiesFit, ValidToken
<1>12. MintFits /\ CallsFit
  BY <1>6, <1>7 DEF MintFits, CallsFit, CallFits, NoSend
<1>13. QED
  BY <1>10, <1>11, <1>12 DEF ChangesInv

(***************************************************************************)
(* The token and the session's cookie fit each other, and a change, login  *)
(* or logout is refused for its token only for one of the causes that      *)
(* CookiesFit and RefusedForCause name.                                    *)
(***************************************************************************)
THEOREM ChangesGoThrough == PageSpec => []ChangesPass
<1>1. PageInit => ChangesInv
  BY PageInitially
<1>2. ChangesInv /\ [PageNext]_pageVars => ChangesInv'
  BY ChangesStep
<1>3. ChangesInv => ChangesPass
  BY DEF ChangesInv, ChangesPass, CallsFit, CallFits, RefusedForCause
<1>4. QED
  BY <1>1, <1>2, <1>3, PTL DEF PageSpec

(***************************************************************************)
(* The cookies, tokens and calls of the page keep their types.             *)
(***************************************************************************)
THEOREM PageTypeCorrect == PageSpec => []PageTypeOK
<1>1. PageInit => ChangesInv
  BY PageInitially
<1>2. ChangesInv /\ [PageNext]_pageVars => ChangesInv'
  BY ChangesStep
<1>3. ChangesInv => PageTypeOK
  BY DEF ChangesInv
<1>4. QED
  BY <1>1, <1>2, <1>3, PTL DEF PageSpec

-----------------------------------------------------------------------------
\* Whom the page shows: a login, a logout or the first /me that nothing came
\* across tells the page what the browser holds; a page that has been told so
\* is right for as long as nothing else happens.
SignsAt(c) == sends[c] # NoSend /\ Signs(sends[c].op)

Holds == jar.auth \in accepted

OneSigns ==
    /\ \A c \in PageCalls : SignsAt(c) /\ sends[c].alone =>
          me.at = "done" /\ \A d \in PageCalls \ {c} : ~SignsAt(d)
    /\ me.at # "done" /\ me.alone => \A c \in PageCalls : ~SignsAt(c)

OthersUnsure ==
    /\ \A c \in PageCalls : SignsAt(c) /\ ~sends[c].alone => unsure
    /\ me.at # "done" /\ ~me.alone => unsure

StillTells(r) ==
    \/ r.at \in {"token", "sent"}
    \/ r.at = "arrived" /\ ~r.ok /\ r.op = "login"

BeforeFits ==
    \A c \in PageCalls : SignsAt(c) /\ ~unsure /\ StillTells(sends[c]) => (showsUser <=> Holds)

AnswersFit ==
    \A c \in PageCalls :
       /\ sends[c].at = "answered" =>
             \/ sends[c].op = "login" /\ sends[c].ok
                /\ (sends[c].alone => sends[c].auth \in accepted)
             \/ sends[c].op = "logout" /\ sends[c].auth = NoSession
       /\ sends[c].at = "arrived" /\ sends[c].ok /\ sends[c].alone =>
             (sends[c].op = "login" => Holds) /\ (sends[c].op = "logout" => ~Holds)

MeFits ==
    me.at # "done" /\ me.alone =>
       /\ me.at = "asked" => me.auth = jar.auth
       /\ me.at = "yes" => Holds
       /\ me.at = "no" => ~Holds

UserInv ==
    /\ UserFits /\ OneSigns /\ OthersUnsure /\ BeforeFits /\ AnswersFit /\ MeFits

LEMMA UserStays ==
    ASSUME UserInv, jar'.auth = jar.auth, UNCHANGED <<accepted, sends, me, showsUser, unsure>>
    PROVE  UserInv'
BY DEF UserInv, UserFits, OneSigns, OthersUnsure, BeforeFits, AnswersFit, MeFits, SignsAt, Holds,
       StillTells, Signing

LEMMA BeginUser ==
    ASSUME ChangesInv, UserInv, NEW c \in PageCalls, NEW op \in Op, BeginCall(c, op)
    PROVE  UserInv'
<1>0. PageTypeOK /\ me \in Mes /\ sends \in [PageCalls -> PageCall]
  BY PageTypes DEF ChangesInv
<1>1. /\ \A d \in PageCalls \ {c} :
            sends'[d] = IF Signs(op) THEN Disturbed(sends)[d] ELSE sends[d]
      /\ sends'[c] # NoSend /\ sends'[c].at \in {"token", "sent"} /\ sends'[c].op = op
      /\ Signs(op) => sends'[c].alone = ~Signing
  BY BeginRecord
<1>2. /\ UNCHANGED <<jar, accepted, showsUser>>
      /\ unsure' = (unsure \/ (Signs(op) /\ Signing))
      /\ me' = IF Signs(op) THEN MeDisturbed ELSE me
      /\ sends[c] = NoSend
  BY DEF BeginCall
<1>3. CASE ~Signs(op)
  <2>1. UNCHANGED me /\ \A d \in PageCalls \ {c} : sends'[d] = sends[d]
    BY <1>1, <1>2, <1>3
  <2>2. unsure' <=> unsure
    BY <1>2, <1>3
  <2>3. \A d \in PageCalls : SignsAt(d)' <=> SignsAt(d)
    BY <1>1, <1>2, <1>3, <2>1 DEF SignsAt
  <2>4. Signing' <=> Signing
    BY <2>1, <2>3 DEF Signing, SignsAt
  <2>5. QED
    BY <1>1, <1>2, <1>3, <2>1, <2>2, <2>3, <2>4
       DEF UserInv, UserFits, OneSigns, OthersUnsure, BeforeFits, AnswersFit, MeFits, Holds,
           StillTells, SignsAt
<1>4. CASE Signs(op)
  <2>1. Signing' /\ SignsAt(c)' /\ StillTells(sends[c])'
    BY <1>1, <1>4 DEF Signing, SignsAt, StillTells
  <2>2. ASSUME NEW d \in PageCalls \ {c}
        PROVE  /\ SignsAt(d)' <=> SignsAt(d)
               /\ SignsAt(d)' => ~sends'[d].alone
               /\ sends'[d].at = sends[d].at /\ (sends[d] = NoSend <=> sends'[d] = NoSend)
               /\ sends[d] # NoSend => sends'[d].op = sends[d].op
                                       /\ (sends'[d].alone => sends[d].alone)
               /\ sends[d].at = "answered" => sends'[d].ok = sends[d].ok
                                              /\ sends'[d].auth = sends[d].auth
               /\ sends[d].at = "arrived" => sends'[d].ok = sends[d].ok
    <3> DEFINE q == Disturbed(sends)[d]
    <3>1. /\ q.at = sends[d].at /\ (q = NoSend <=> sends[d] = NoSend)
          /\ sends[d] # NoSend => q.op = sends[d].op /\ (q.alone => sends[d].alone)
          /\ sends[d] # NoSend /\ Signs(sends[d].op) => ~q.alone
          /\ sends[d].at = "answered" => q.ok = sends[d].ok /\ q.auth = sends[d].auth
          /\ sends[d].at = "arrived" => q.ok = sends[d].ok
      BY <1>0, DisturbedCalls
    <3>2. sends'[d] = q
      BY <1>1, <1>4
    <3> HIDE DEF q
    <3>3. QED
      BY <3>1, <3>2 DEF SignsAt, Signs
  <2>3. me'.at = me.at /\ (me.at # "done" => ~me'.alone)
    BY <1>0, <1>2, <1>4, DisturbedMe
  <2>4. unsure' <=> unsure \/ Signing
    BY <1>2, <1>4
  <2>5. sends'[c].alone <=> ~Signing
    BY <1>1, <1>4
  <2>6. \A d \in PageCalls \ {c} : SignsAt(d) => Signing
    BY DEF Signing, SignsAt
  <2>7. me.at # "done" => Signing
    BY DEF Signing
  <2>8. UserFits' /\ OneSigns' /\ OthersUnsure'
    BY <2>1, <2>2, <2>3, <2>4, <2>5, <2>6, <2>7 DEF UserFits, OneSigns, OthersUnsure
  <2>9. BeforeFits'
    <3>1. SUFFICES ASSUME ~unsure' PROVE showsUser' <=> Holds'
      BY DEF BeforeFits
    <3>2. ~unsure /\ ~Signing
      BY <2>4, <3>1
    <3>3. QED
      BY <1>2, <3>2 DEF UserInv, UserFits, Holds
  <2>10. AnswersFit'
    <3>1. ASSUME NEW d \in PageCalls \ {c}, sends[d].at = "answered"
          PROVE  \/ sends'[d].op = "login" /\ sends'[d].ok /\ ~sends'[d].alone
                 \/ sends'[d].op = "logout" /\ sends'[d].auth = NoSession
      <4>1. sends[d] # NoSend
        BY <3>1 DEF NoSend
      <4>2. sends'[d].op = sends[d].op /\ sends'[d].ok = sends[d].ok
            /\ sends'[d].auth = sends[d].auth
        BY <2>2, <3>1, <4>1
      <4>3. \/ sends[d].op = "login" /\ sends[d].ok
            \/ sends[d].op = "logout" /\ sends[d].auth = NoSession
        BY <3>1 DEF UserInv, AnswersFit
      <4>4. ~sends'[d].alone
        BY <2>2, <4>1, <4>3 DEF SignsAt, Signs
      <4>5. QED
        BY <4>2, <4>3, <4>4
    <3>2. ASSUME NEW d \in PageCalls \ {c}, sends[d].at = "arrived", sends'[d].alone
          PROVE  sends'[d].op \notin {"login", "logout"}
      <4>1. sends[d] # NoSend
        BY <3>2 DEF NoSend
      <4>2. QED
        BY <2>2, <3>2, <4>1 DEF SignsAt, Signs
    <3>3. sends'[c].at \notin {"answered", "arrived"}
      BY <1>1
    <3>4. \A d \in PageCalls \ {c} : sends'[d].at = sends[d].at
      BY <2>2
    <3>5. QED
      BY <3>1, <3>2, <3>3, <3>4 DEF AnswersFit
  <2>11. MeFits'
    BY <2>3 DEF MeFits
  <2>12. QED
    BY <2>8, <2>9, <2>10, <2>11 DEF UserInv
<1>5. QED
  BY <1>3, <1>4

\* Of two that sign in or out neither is alone.
LEMMA OthersApart ==
    ASSUME UserInv, NEW c \in PageCalls, SignsAt(c)
    PROVE  /\ me.at # "done" => ~me.alone
           /\ \A d \in PageCalls \ {c} : SignsAt(d) => unsure /\ ~sends[c].alone /\ ~sends[d].alone
           /\ Signing /\ (~sends[c].alone => unsure)
BY DEF UserInv, OneSigns, OthersUnsure, Signing, SignsAt

\* A call that signs in or out goes on from where it may still tell the page to
\* where it told the browser; what the browser holds depends on no other.
LEMMA SignerMoves ==
    ASSUME UserInv, NEW c \in PageCalls, SignsAt(c),
           \A d \in PageCalls \ {c} : sends'[d] = sends[d],
           SignsAt(c)', sends'[c].op = sends[c].op, sends'[c].alone = sends[c].alone,
           UNCHANGED <<me, showsUser, unsure>>,
           ~unsure /\ StillTells(sends[c])' => (showsUser <=> Holds'),
           sends'[c].at = "answered" =>
              \/ sends'[c].op = "login" /\ sends'[c].ok
                 /\ (sends'[c].alone => sends'[c].auth \in accepted')
              \/ sends'[c].op = "logout" /\ sends'[c].auth = NoSession,
           sends'[c].at = "arrived" /\ sends'[c].ok /\ sends'[c].alone =>
              (sends'[c].op = "login" => Holds') /\ (sends'[c].op = "logout" => ~Holds')
    PROVE  UserInv'
<1>1. \A d \in PageCalls : SignsAt(d)' <=> SignsAt(d)
  BY DEF SignsAt
<1>2. Signing' /\ UserFits'
  BY <1>1 DEF Signing, SignsAt, UserFits
<1>3. OneSigns' /\ OthersUnsure'
  BY <1>1 DEF UserInv, OneSigns, OthersUnsure
<1>4. BeforeFits'
  BY <1>1, OthersApart DEF BeforeFits
<1>5. AnswersFit'
  <2>1. ASSUME NEW d \in PageCalls \ {c}, sends[d].at = "answered"
        PROVE  \/ sends'[d].op = "login" /\ sends'[d].ok /\ ~sends'[d].alone
               \/ sends'[d].op = "logout" /\ sends'[d].auth = NoSession
    <3>1. SignsAt(d)
      BY <2>1 DEF UserInv, AnswersFit, SignsAt, Signs, NoSend
    <3>2. QED
      BY <2>1, <3>1, OthersApart DEF UserInv, AnswersFit
  <2>2. ASSUME NEW d \in PageCalls \ {c}, sends[d].at = "arrived",
               sends[d].op \in {"login", "logout"}
        PROVE  ~sends'[d].alone
    <3>1. SignsAt(d)
      BY <2>2 DEF SignsAt, Signs, NoSend
    <3>2. QED
      BY <3>1, OthersApart
  <2>3. QED
    BY <2>1, <2>2 DEF AnswersFit
<1>6. MeFits'
  BY OthersApart DEF MeFits
<1>7. QED
  BY <1>2, <1>3, <1>4, <1>5, <1>6 DEF UserInv

LEMMA RefusedUser ==
    ASSUME ChangesInv, UserInv, NEW c \in PageCalls,
           CsrfRefuses(c) \/ Answers(c) \/ CallLost(c)
    PROVE  UserInv'
<1>1. PICK ok \in BOOLEAN : Ended(c, ok) /\ (ok => sends[c].op = "change")
  BY RefusedChanges
<1>2. /\ UNCHANGED <<jar, accepted, me, showsUser>>
      /\ unsure' <=> unsure \/ (CallLost(c) /\ Signs(sends[c].op))
      /\ sends[c].at = "sent" \/ (CallLost(c) /\ sends[c].at = "answered")
  <2>1. CASE CallLost(c)
    BY <2>1 DEF CallLost
  <2>2. CASE ~CallLost(c)
    <3>1. UNCHANGED <<jar, accepted, me, showsUser, unsure>> /\ sends[c].at = "sent"
      BY <2>2 DEF CsrfRefuses, Answers
    <3>2. QED
      BY <2>2, <3>1
  <2>3. QED
    BY <2>1, <2>2
<1>3. /\ sends'[c].op = sends[c].op /\ sends'[c].alone = sends[c].alone
      /\ sends'[c].at = "arrived" /\ sends'[c] # NoSend /\ sends[c] # NoSend
      /\ sends'[c].ok = ok
      /\ \A d \in PageCalls \ {c} : sends'[d] = sends[d]
  BY <1>1 DEF Ended
<1>4. \A d \in PageCalls : /\ SignsAt(d)' <=> SignsAt(d)
                           /\ SignsAt(d) => sends'[d].alone = sends[d].alone
  BY <1>3 DEF SignsAt
<1>5. Signing' <=> Signing
  BY <1>2, <1>4 DEF Signing, SignsAt
<1>6. UserFits' /\ OneSigns' /\ OthersUnsure' /\ MeFits'
  BY <1>2, <1>4, <1>5 DEF UserInv, UserFits, OneSigns, OthersUnsure, MeFits, Holds
<1>7. BeforeFits'
  <2>1. ASSUME SignsAt(c), ~unsure' PROVE showsUser <=> Holds
    BY <1>2, <2>1 DEF UserInv, BeforeFits, StillTells, SignsAt
  <2>2. ASSUME NEW d \in PageCalls \ {c}, SignsAt(d), ~unsure', StillTells(sends[d])
        PROVE  showsUser <=> Holds
    BY <1>2, <2>2 DEF UserInv, BeforeFits
  <2>3. QED
    BY <1>2, <1>3, <1>4, <2>1, <2>2 DEF BeforeFits, Holds, StillTells
<1>8. AnswersFit'
  <2>1. ok => sends'[c].op = "change"
    BY <1>1, <1>3
  <2>2. QED
    BY <1>2, <1>3, <2>1 DEF UserInv, AnswersFit, Holds
<1>9. QED
  BY <1>6, <1>7, <1>8 DEF UserInv

LEMMA LoginUser ==
    ASSUME ChangesInv, UserInv, NEW c \in PageCalls, NEW s \in PageSessions, LoginHandled(c, s)
    PROVE  UserInv'
<1>1. /\ sends[c].op = "login" /\ s \in accepted' /\ sends[c] # NoSend
      /\ sends'[c].at = "answered" /\ sends'[c].op = sends[c].op /\ sends'[c] # NoSend
      /\ sends'[c].alone = sends[c].alone /\ sends'[c].ok = TRUE /\ sends'[c].auth = s
      /\ \A d \in PageCalls \ {c} : sends'[d] = sends[d]
  BY LoginChanges DEF AnsweredAs
<1>2. UNCHANGED <<me, showsUser, unsure>>
  BY DEF LoginHandled
<1>3. SignsAt(c) /\ SignsAt(c)' /\ ~StillTells(sends[c])'
  BY <1>1 DEF SignsAt, Signs, StillTells
<1>4. QED
  BY <1>1, <1>2, <1>3, SignerMoves

LEMMA LogoutUser ==
    ASSUME ChangesInv, UserInv, NEW c \in PageCalls, LogoutHandled(c)
    PROVE  UserInv'
<1>1. /\ sends[c].op = "logout" /\ sends[c] # NoSend
      /\ sends'[c].at = "answered" /\ sends'[c].op = sends[c].op /\ sends'[c] # NoSend
      /\ sends'[c].alone = sends[c].alone /\ sends'[c].auth = NoSession
      /\ \A d \in PageCalls \ {c} : sends'[d] = sends[d]
  BY LogoutChanges DEF AnsweredAs
<1>2. UNCHANGED <<me, showsUser, unsure>>
  BY DEF LogoutHandled
<1>3. SignsAt(c) /\ SignsAt(c)' /\ ~StillTells(sends[c])'
  BY <1>1 DEF SignsAt, Signs, StillTells
<1>4. QED
  BY <1>1, <1>2, <1>3, SignerMoves

LEMMA ArrivalUser ==
    ASSUME ChangesInv, UserInv, NEW c \in PageCalls, AnswerArrives(c)
    PROVE  UserInv'
<1>1. /\ sends[c] # NoSend /\ sends[c].at = "answered"
      /\ sends'[c].at = "arrived" /\ sends'[c].op = sends[c].op /\ sends'[c] # NoSend
      /\ sends'[c].alone = sends[c].alone /\ sends'[c].ok = sends[c].ok
      /\ \A d \in PageCalls \ {c} : sends'[d] = sends[d]
      /\ jar'.auth = sends[c].auth
  BY ArrivalChanges DEF Ended, AnswerArrives
<1>2. UNCHANGED <<me, showsUser, unsure, accepted>>
  BY DEF AnswerArrives
<1>3. \/ sends[c].op = "login" /\ sends[c].ok /\ (sends[c].alone => sends[c].auth \in accepted)
      \/ sends[c].op = "logout" /\ sends[c].auth = NoSession
  BY <1>1 DEF UserInv, AnswersFit
<1>4. NoSession \notin accepted
  BY PageAssumption, PageTypes DEF ChangesInv
<1>5. SignsAt(c) /\ SignsAt(c)' /\ ~StillTells(sends[c])'
  BY <1>1, <1>3 DEF SignsAt, Signs, StillTells
<1>6. QED
  BY <1>1, <1>2, <1>3, <1>4, <1>5, SignerMoves DEF Holds

LEMMA ContinueUser ==
    ASSUME ChangesInv, UserInv, NEW c \in PageCalls, CallContinues(c)
    PROVE  UserInv'
<1>1. /\ sends[c] \in ArrivedCalls /\ sends[c] # NoSend /\ sends[c].at = "arrived"
      /\ sends'[c] = NoSend /\ sends'[c].at = "none"
      /\ \A d \in PageCalls \ {c} : sends'[d] = sends[d]
  <2>1. NoSend.at = "none"
    BY DEF NoSend
  <2>2. QED
    BY <2>1, ContinueChanges DEF CallContinues
<1>2. UNCHANGED <<jar, accepted, me>>
  BY DEF CallContinues
<1>3. /\ sends[c].op \in Op /\ sends[c].ok \in BOOLEAN /\ sends[c].alone \in BOOLEAN
      /\ unsure \in BOOLEAN /\ showsUser \in BOOLEAN
  BY <1>1, PageTypes DEF ArrivedCalls, ChangesInv
<1>4. ~SignsAt(c)' /\ \A d \in PageCalls \ {c} : SignsAt(d)' <=> SignsAt(d)
  BY <1>1 DEF SignsAt
<1>5. OneSigns'
  BY <1>1, <1>2, <1>4 DEF UserInv, OneSigns
<1>6. AnswersFit' /\ MeFits'
  BY <1>1, <1>2 DEF UserInv, AnswersFit, MeFits, Holds
<1>7. CASE sends[c].op = "change"
  <2>1. UNCHANGED <<showsUser, unsure>>
    BY <1>7 DEF CallContinues, Shows
  <2>2. Signing' <=> Signing
    BY <1>1, <1>2, <1>4, <1>7 DEF Signing, SignsAt, Signs
  <2>3. UserFits' /\ OthersUnsure' /\ BeforeFits'
    BY <1>1, <1>2, <1>4, <2>1, <2>2
       DEF UserInv, UserFits, OthersUnsure, BeforeFits, Holds, StillTells
  <2>4. QED
    BY <1>5, <1>6, <2>3 DEF UserInv
<1>8. CASE sends[c].op # "change"
  <2>1. SignsAt(c)
    BY <1>1, <1>3, <1>8 DEF SignsAt, Signs, Op
  <2>2. ~sends[c].alone => unsure'
    <3>1. ~sends[c].alone => unsure
      BY <2>1, OthersApart
    <3>2. CASE sends[c].op = "login"
      BY <1>3, <3>1, <3>2 DEF CallContinues
    <3>3. CASE sends[c].op = "logout"
      BY <1>3, <3>1, <3>3 DEF CallContinues
    <3>4. QED
      BY <1>3, <1>8, <3>2, <3>3 DEF Op
  <2>3. sends[c].alone => me.at = "done" /\ \A d \in PageCalls \ {c} : ~SignsAt(d)
    BY <2>1 DEF UserInv, OneSigns
  <2>4. OthersUnsure'
    <3>1. me.at # "done" => ~sends[c].alone
      BY <2>3
    <3>2. \A d \in PageCalls \ {c} : SignsAt(d) => ~sends[c].alone
      BY <2>3
    <3>3. QED
      BY <1>2, <1>3, <1>4, <2>2, <3>1, <3>2 DEF OthersUnsure
  <2>5. ~unsure' => (showsUser' <=> Holds)
    <3>1. SUFFICES ASSUME ~unsure' PROVE showsUser' <=> Holds
      OBVIOUS
    <3>2. sends[c].alone
      BY <1>3, <2>2, <3>1
    <3>3. CASE sends[c].op = "login"
      <4>1. showsUser' = (showsUser \/ sends[c].ok)
            /\ unsure' = (unsure /\ ~(sends[c].ok /\ sends[c].alone))
        BY <3>3 DEF CallContinues, Shows
      <4>2. CASE sends[c].ok
        <5>1. Holds
          BY <1>1, <3>2, <3>3, <4>2 DEF UserInv, AnswersFit
        <5>2. QED
          BY <1>3, <4>1, <4>2, <5>1
      <4>3. CASE ~sends[c].ok
        <5>1. ~unsure /\ StillTells(sends[c])
          BY <1>1, <3>1, <3>3, <4>1, <4>3 DEF StillTells
        <5>2. showsUser <=> Holds
          BY <2>1, <5>1 DEF UserInv, BeforeFits
        <5>3. QED
          BY <4>1, <4>3, <5>2
      <4>4. QED
        BY <4>2, <4>3
    <3>4. CASE sends[c].op = "logout"
      <4>1. showsUser' = FALSE /\ unsure' = (~sends[c].ok \/ (unsure /\ ~sends[c].alone))
        BY <3>4 DEF CallContinues, Shows
      <4>2. sends[c].ok
        BY <3>1, <4>1
      <4>3. ~Holds
        BY <1>1, <3>2, <3>4, <4>2 DEF UserInv, AnswersFit
      <4>4. QED
        BY <4>1, <4>3
    <3>5. QED
      BY <1>3, <1>8, <3>3, <3>4 DEF Op
  <2>6. UserFits' /\ BeforeFits'
    BY <1>2, <2>5 DEF UserFits, BeforeFits, Holds
  <2>7. QED
    BY <1>5, <1>6, <2>4, <2>6 DEF UserInv
<1>9. QED
  BY <1>7, <1>8

LEMMA ResolveUser ==
    ASSUME ChangesInv, UserInv, MintResolves
    PROVE  UserInv'
<1>1. /\ UNCHANGED <<jar, accepted, me, showsUser>>
      /\ \A c \in PageCalls :
            \/ sends[c].at # "token" /\ sends'[c] = sends[c]
            \/ /\ sends[c].at = "token" /\ sends[c] # NoSend /\ sends'[c] # NoSend
               /\ sends'[c].op = sends[c].op /\ sends'[c].alone = sends[c].alone
               /\ \/ sends'[c].at = "sent"
                  \/ minting.at = "lost" /\ sends'[c].at = "arrived" /\ ~sends'[c].ok
  BY ResolveChanges
<1>2. unsure' <=> \/ unsure
                  \/ /\ minting.at = "lost"
                     /\ \E c \in PageCalls : sends[c].at = "token" /\ Signs(sends[c].op)
  BY DEF MintResolves
<1>3. \A c \in PageCalls : SignsAt(c)' <=> SignsAt(c)
  BY <1>1 DEF SignsAt
<1>4. Signing' <=> Signing
  BY <1>1, <1>3 DEF Signing, SignsAt
<1>5. \A c \in PageCalls : sends'[c].alone = sends[c].alone
  BY <1>1
<1>6. UserFits' /\ OneSigns' /\ OthersUnsure' /\ MeFits'
  BY <1>1, <1>2, <1>3, <1>4, <1>5 DEF UserInv, UserFits, OneSigns, OthersUnsure, MeFits, Holds
<1>7. BeforeFits'
  <2>1. ASSUME NEW c \in PageCalls, SignsAt(c), ~unsure', StillTells(sends'[c])
        PROVE  StillTells(sends[c])
    BY <1>1, <1>2, <2>1 DEF StillTells
  <2>2. QED
    BY <1>1, <1>2, <1>3, <2>1 DEF UserInv, BeforeFits, Holds, StillTells
<1>8. AnswersFit'
  <2>1. ASSUME NEW c \in PageCalls
        PROVE  /\ sends'[c].at = "answered" => sends'[c] = sends[c]
               /\ sends'[c].at = "arrived" /\ sends'[c].ok => sends'[c] = sends[c]
    BY <1>1
  <2>2. QED
    BY <1>1, <2>1 DEF UserInv, AnswersFit, Holds
<1>9. QED
  BY <1>6, <1>7, <1>8 DEF UserInv

LEMMA MeUser ==
    ASSUME ChangesInv, UserInv, MeHandled \/ MeFails \/ MeContinues
    PROVE  UserInv'
<1>1. /\ UNCHANGED <<jar, accepted, sends>>
      /\ MeHandled => /\ me'.at = IF me.auth \in accepted THEN "yes" ELSE "no"
                      /\ me'.alone = me.alone
      /\ ~MeHandled => me'.at = "done"
  BY MeChanges
<1>2. me \in Mes /\ unsure \in BOOLEAN
  BY PageTypes DEF ChangesInv
<1>3. AnswersFit' /\ \A c \in PageCalls : SignsAt(c)' <=> SignsAt(c)
  BY <1>1 DEF UserInv, AnswersFit, SignsAt, Holds
<1>4. CASE MeHandled
  <2>1. me.at = "asked" /\ UNCHANGED <<showsUser, unsure>>
    BY <1>4 DEF MeHandled
  <2>2. Signing'
    BY <1>1, <1>4 DEF Signing
  <2>3. UserFits' /\ OneSigns' /\ OthersUnsure'
    BY <1>1, <1>3, <1>4, <2>1, <2>2 DEF UserInv, UserFits, OneSigns, OthersUnsure
  <2>4. BeforeFits'
    BY <1>1, <1>3, <2>1 DEF UserInv, BeforeFits, Holds, StillTells
  <2>5. MeFits'
    BY <1>1, <1>4, <2>1 DEF UserInv, MeFits, Holds
  <2>6. QED
    BY <1>3, <2>3, <2>4, <2>5 DEF UserInv
<1>5. CASE ~MeHandled
  <2>1. me'.at = "done"
    BY <1>1, <1>5
  <2>2. MeFits'
    BY <2>1 DEF MeFits
  <2>3. OneSigns'
    BY <1>1, <1>3, <2>1 DEF UserInv, OneSigns
  <2>4. CASE MeFails
    <3>1. unsure' = TRUE
      BY <2>4 DEF MeFails
    <3>2. QED
      BY <1>3, <2>1, <2>2, <2>3, <3>1 DEF UserInv, UserFits, OthersUnsure, BeforeFits
  <2>5. CASE MeContinues
    <3>1. /\ me.at \in {"yes", "no"} /\ showsUser' = (me.at = "yes")
          /\ unsure' = (unsure /\ ~me.alone)
      BY <2>5 DEF MeContinues
    <3>2. me.at # "done" /\ me.alone \in BOOLEAN
      BY <1>2, <3>1, MeShapes
    <3>3. CASE me.alone
      <4>1. \A c \in PageCalls : ~SignsAt(c)
        BY <3>2, <3>3 DEF UserInv, OneSigns
      <4>2. showsUser' <=> Holds
        BY <3>1, <3>2, <3>3 DEF UserInv, MeFits
      <4>3. QED
        BY <1>1, <1>3, <2>1, <2>2, <2>3, <4>1, <4>2
           DEF UserInv, UserFits, OthersUnsure, BeforeFits, Holds
    <3>4. CASE ~me.alone
      <4>1. unsure
        BY <3>2, <3>4 DEF UserInv, OthersUnsure
      <4>2. unsure'
        BY <3>1, <3>4, <4>1
      <4>3. QED
        BY <1>3, <2>1, <2>2, <2>3, <4>2 DEF UserInv, UserFits, OthersUnsure, BeforeFits
    <3>5. QED
      BY <3>3, <3>4
  <2>6. QED
    BY <1>5, <2>4, <2>5
<1>6. QED
  BY <1>4, <1>5

LEMMA ElsewhereUser ==
    ASSUME ChangesInv, UserInv, Disturbs
    PROVE  UserInv'
<1>0. sends \in [PageCalls -> PageCall] /\ me \in Mes
  BY PageTypes DEF ChangesInv
<1>1. unsure' = TRUE /\ \A d \in PageCalls : sends'[d] = Disturbed(sends)[d]
  BY DEF Disturbs
<1>2. me'.at = me.at /\ (me.at # "done" => ~me'.alone)
  BY <1>0, DisturbedMe DEF Disturbs
<1>3. ASSUME NEW d \in PageCalls
      PROVE  /\ sends'[d].at = sends[d].at /\ (sends[d] = NoSend <=> sends'[d] = NoSend)
             /\ SignsAt(d)' => ~sends'[d].alone
             /\ sends[d].at = "answered" => /\ sends'[d].ok = sends[d].ok
                                            /\ sends'[d].op = sends[d].op
                                            /\ sends'[d].auth = sends[d].auth
             /\ sends[d].at = "arrived" => sends'[d].ok = sends[d].ok
  <2> DEFINE q == Disturbed(sends)[d]
  <2>1. /\ q.at = sends[d].at /\ (q = NoSend <=> sends[d] = NoSend)
        /\ sends[d] # NoSend => q.op = sends[d].op
        /\ sends[d] # NoSend /\ Signs(sends[d].op) => ~q.alone
        /\ sends[d].at = "answered" => q.ok = sends[d].ok /\ q.auth = sends[d].auth
        /\ sends[d].at = "arrived" => q.ok = sends[d].ok
    BY <1>0, DisturbedCalls
  <2>2. sends'[d] = q
    BY <1>1
  <2> HIDE DEF q
  <2>3. sends[d].at = "answered" => sends[d] # NoSend
    BY DEF NoSend
  <2>4. QED
    BY <2>1, <2>2, <2>3 DEF SignsAt, Signs
<1>4. UserFits' /\ OneSigns' /\ OthersUnsure' /\ BeforeFits' /\ MeFits'
  BY <1>1, <1>2, <1>3 DEF UserFits, OneSigns, OthersUnsure, BeforeFits, MeFits
<1>5. AnswersFit'
  <2>1. ASSUME NEW d \in PageCalls, sends[d].at = "answered"
        PROVE  \/ sends'[d].op = "login" /\ sends'[d].ok /\ ~sends'[d].alone
               \/ sends'[d].op = "logout" /\ sends'[d].auth = NoSession
    <3>1. \/ sends[d].op = "login" /\ sends[d].ok
          \/ sends[d].op = "logout" /\ sends[d].auth = NoSession
      BY <2>1 DEF UserInv, AnswersFit
    <3>2. sends'[d].op = sends[d].op /\ sends'[d] # NoSend
      BY <1>3, <2>1 DEF NoSend
    <3>3. ~sends'[d].alone
      BY <1>3, <3>1, <3>2 DEF SignsAt, Signs
    <3>4. QED
      BY <1>3, <2>1, <3>1, <3>2, <3>3
  <2>2. ASSUME NEW d \in PageCalls, sends'[d].at = "arrived", sends'[d].alone
        PROVE  sends'[d].op \notin {"login", "logout"}
    <3>1. sends'[d] # NoSend
      BY <2>2 DEF NoSend
    <3>2. QED
      BY <1>3, <2>2, <3>1 DEF SignsAt, Signs
  <2>3. QED
    BY <1>3, <2>1, <2>2 DEF AnswersFit
<1>6. QED
  BY <1>4, <1>5 DEF UserInv

LEMMA UserStep ==
    ASSUME ChangesInv, UserInv, [PageNext]_pageVars
    PROVE  UserInv'
<1>1. ASSUME NEW c \in PageCalls,
             \/ \E op \in Op : BeginCall(c, op)
             \/ CsrfRefuses(c) \/ Answers(c)
             \/ \E s \in PageSessions : LoginHandled(c, s)
             \/ LogoutHandled(c) \/ AnswerArrives(c) \/ CallLost(c) \/ CallContinues(c)
      PROVE  UserInv'
  BY <1>1, BeginUser, RefusedUser, LoginUser, LogoutUser, ArrivalUser, ContinueUser
<1>2. CASE MintHandled \/ MintArrives \/ MintFails
  BY <1>2, MintChanges, UserStays
<1>3. CASE MintResolves
  BY <1>3, ResolveUser
<1>4. CASE MeHandled \/ MeFails \/ MeContinues
  BY <1>4, MeUser
<1>5. CASE CsrfCookieExpires
  BY <1>5, ExpiryChanges, UserStays
<1>6. CASE Elsewhere
  BY <1>6, ElsewhereChanges, ElsewhereUser
<1>7. CASE UNCHANGED pageVars
  BY <1>7, UserStays DEF pageVars
<1>8. QED
  BY <1>1, <1>2, <1>3, <1>4, <1>5, <1>6, <1>7 DEF PageNext, Elsewhere

LEMMA UserInitially ==
    ASSUME PageInit
    PROVE  UserInv
<1>1. /\ sends = [c \in PageCalls |-> NoSend] /\ unsure = TRUE
      /\ me = [at |-> "asked", auth |-> jar.auth, alone |-> TRUE]
  BY DEF PageInit
<1>2. \A c \in PageCalls : ~SignsAt(c)
  BY <1>1 DEF SignsAt
<1>3. \A c \in PageCalls : sends[c].at = "none"
  BY <1>1 DEF NoSend
<1>4. QED
  BY <1>1, <1>2, <1>3
     DEF UserInv, UserFits, OneSigns, OthersUnsure, BeforeFits, AnswersFit, MeFits

(***************************************************************************)
(* Once every answer is in, and nothing made the page unsure, it shows an  *)
(* administrator signed in exactly if the browser holds an accepted        *)
(* session.                                                                *)
(***************************************************************************)
THEOREM PageShowsUser == PageSpec => []UserFits
<1>1. PageInit => ChangesInv /\ UserInv
  BY PageInitially, UserInitially
<1>2. ChangesInv /\ UserInv /\ [PageNext]_pageVars => ChangesInv' /\ UserInv'
  BY ChangesStep, UserStep
<1>3. UserInv => UserFits
  BY DEF UserInv
<1>4. QED
  BY <1>1, <1>2, <1>3, PTL DEF PageSpec

-----------------------------------------------------------------------------
(***************************************************************************)
(* PageSession implements SessionRegister, as AdminSessions does: what the *)
(* two modules say of a session agrees.                                    *)
(***************************************************************************)
\* The register's state, named to keep it whole where it is not looked into.
SessionPhases == [s \in PageSessions |-> SessionPhase(s)]

\* The register's steps, by the names they have here.
LEMMA PageRegisterSteps ==
    /\ SessionPhases' = SessionPhases => UNCHANGED PageRegister!vars
    /\ \A S \in SUBSET PageSessions : PageRegister!End(S) => PageRegister!Next
    /\ \A i \in PageSessions : \A S \in SUBSET PageSessions :
          PageRegister!Open(i, S) => PageRegister!Next
BY DEF PageRegister!Next, PageRegister!vars, SessionPhases

\* Sessions end, or one opens, as those the server accepts or ever made change.
LEMMA AcceptedEnd ==
    ASSUME PageTypeOK, NEW S \in SUBSET accepted, accepted' = accepted \ S, opened' = opened
    PROVE  PageRegister!Next
<1>1. S \subseteq PageRegister!Opened
  BY DEF PageTypeOK, PageRegister!Opened, SessionPhase
<1>2. SessionPhases' = PageRegister!Ended(S)
  BY DEF PageTypeOK, SessionPhases, SessionPhase, PageRegister!Ended
<1>3. PageRegister!End(S)
  BY <1>1, <1>2 DEF PageRegister!End, SessionPhases
<1>4. QED
  BY <1>3, PageRegisterSteps DEF PageTypeOK

LEMMA OneOpens ==
    ASSUME PageTypeOK, NEW s \in PageSessions \ opened, NEW S \in SUBSET accepted,
           accepted' = (accepted \ S) \cup {s}, opened' = opened \cup {s}
    PROVE  PageRegister!Next
<1>1. S \subseteq PageRegister!Opened
  BY DEF PageTypeOK, PageRegister!Opened, SessionPhase
<1>2. SessionPhases' = [PageRegister!Ended(S) EXCEPT ![s] = "open"]
  BY DEF PageTypeOK, SessionPhases, SessionPhase, PageRegister!Ended
<1>3. SessionPhase(s) = "unborn"
  BY DEF PageTypeOK, SessionPhase
<1>4. PageRegister!Open(s, S)
  BY <1>1, <1>2, <1>3 DEF PageRegister!Open, SessionPhases
<1>5. QED
  BY <1>4, PageRegisterSteps DEF PageTypeOK

LEMMA NewIsUnopened ==
    ASSUME NEW s \in NewSessions
    PROVE  s \in PageSessions \ opened
<1>1. ~(PageSessions \subseteq opened) /\ s = CHOOSE t \in PageSessions \ opened : TRUE
  BY DEF NewSessions
<1>2. \E t \in PageSessions \ opened : TRUE
  BY <1>1
<1>3. QED
  BY <1>1, <1>2

LEMMA PageRegisterStep ==
    ASSUME PageTypeOK, [PageNext]_pageVars
    PROVE  [PageRegister!Next]_(PageRegister!vars)
<1>1. ASSUME NEW c \in PageCalls, NEW s \in PageSessions, LoginHandled(c, s)
      PROVE  PageRegister!Next
  <2>1. s \in PageSessions \ opened
    BY <1>1, NewIsUnopened DEF LoginHandled
  <2>2. accepted' = (accepted \ {}) \cup {s} /\ opened' = opened \cup {s}
    BY <1>1 DEF LoginHandled
  <2>3. QED
    BY <2>1, <2>2, OneOpens
<1>2. ASSUME NEW S, accepted' = accepted \ S, opened' = opened
      PROVE  PageRegister!Next
  <2>1. accepted' = accepted \ (S \cap accepted)
    BY <1>2
  <2>2. QED
    BY <1>2, <2>1, AcceptedEnd
<1>3. ASSUME NEW c \in PageCalls, LogoutHandled(c) PROVE PageRegister!Next
  <2>1. opened' = opened
    BY <1>3 DEF LogoutHandled
  <2>2. PICK S : S = {sends[c].auth}
    OBVIOUS
  <2>3. accepted' = accepted \ S \/ accepted' = accepted \ {}
    BY <1>3, <2>2 DEF LogoutHandled
  <2>4. QED
    BY <1>2, <2>1, <2>3
<1>4. CASE AuthCookieExpires
  BY <1>2, <1>4 DEF AuthCookieExpires
<1>5. ASSUME NEW s \in PageSessions, SessionEnds(s) PROVE PageRegister!Next
  BY <1>2, <1>5 DEF SessionEnds
<1>6. CASE RotateSecrets
  <2>1. accepted' = accepted \ accepted /\ opened' = opened
    BY <1>6 DEF RotateSecrets
  <2>2. QED
    BY <1>2, <2>1
<1>7. ASSUME NEW s \in Bindings, OtherTab(s) PROVE PageRegister!Next
  <2>1. /\ s \in NewSessions \cup {NoSession}
        /\ accepted' = (accepted \ {jar.auth}) \cup ({s} \ {NoSession})
        /\ opened' = opened \cup ({s} \ {NoSession})
    BY <1>7 DEF OtherTab
  <2>2. CASE s = NoSession
    BY <1>2, <2>1, <2>2
  <2>3. CASE s # NoSession
    <3>1. s \in PageSessions \ opened
      BY <2>1, <2>3, NewIsUnopened
    <3>2. PICK S \in SUBSET accepted : S = {jar.auth} \cap accepted
      OBVIOUS
    <3>3. accepted' = (accepted \ S) \cup {s} /\ opened' = opened \cup {s}
      BY <2>1, <2>3, <3>2
    <3>4. QED
      BY <3>1, <3>3, OneOpens
  <2>4. QED
    BY <2>2, <2>3
<1>8. CASE UNCHANGED <<accepted, opened>>
  <2>1. SessionPhases' = SessionPhases
    BY <1>8 DEF SessionPhases, SessionPhase
  <2>2. QED
    BY <2>1, PageRegisterSteps
<1>9. QED
  BY <1>1, <1>3, <1>4, <1>5, <1>6, <1>7, <1>8
     DEF PageNext, BeginCall, CsrfRefuses, Answers, AnswerArrives, CallLost, CallContinues,
         MintHandled, MintArrives, MintFails, MintResolves, MeHandled, MeFails, MeContinues,
         CsrfCookieExpires, pageVars

(***************************************************************************)
(* The sessions the page signs in to, out of and loses are those of        *)
(* SessionRegister: no answer, other tab or rotation of the secrets makes  *)
(* one accepted again that had ended.                                      *)
(***************************************************************************)
THEOREM PageImplementsRegister == PageSpec => PageRegisterSpec
<1>1. PageInit => PageRegister!Init
  <2>1. SessionPhases \in [PageSessions -> {"unborn", "open", "ended"}]
    BY DEF SessionPhases, SessionPhase
  <2>2. QED
    BY <2>1 DEF PageRegister!Init, SessionPhases
<1>2. PageTypeOK /\ [PageNext]_pageVars => [PageRegister!Next]_(PageRegister!vars)
  BY PageRegisterStep
<1>3. QED
  BY <1>1, <1>2, PageTypeCorrect, PTL DEF PageSpec, PageRegisterSpec, PageRegister!Spec

-----------------------------------------------------------------------------
(***************************************************************************)
(* The administrator's console.                                            *)
(***************************************************************************)
Consoles ==
    [selected: ConsoleProjects \cup {NothingSelected}, aggregate: Shown,
     listed: SUBSET ConsoleProjects, validation: Shown, loading: BOOLEAN, saving: BOOLEAN]

LEMMA ConsoleTypes ==
    /\ ConsoleTypeOK <=>
        /\ revision \in [ConsoleProjects -> 0..RevisionBound]
        /\ console \in Consoles
        /\ call \in [Calls -> CallState]
        /\ deleted \subseteq ConsoleProjects
        /\ behind \in BOOLEAN /\ readCrossed \in BOOLEAN /\ failed \in BOOLEAN
    /\ ConsoleTypeOK' <=>
        /\ revision' \in [ConsoleProjects -> 0..RevisionBound]
        /\ console' \in Consoles
        /\ call' \in [Calls -> CallState]
        /\ deleted' \subseteq ConsoleProjects
        /\ behind' \in BOOLEAN /\ readCrossed' \in BOOLEAN /\ failed' \in BOOLEAN
BY DEF ConsoleTypeOK, Consoles

\* What a load or a change asks for is a project, and what belongs to a change
\* is a refresh.
CallsNamed ==
    \A c \in Calls :
       /\ call[c].at \in {"load"} \cup Changes => call[c].project \in ConsoleProjects
       /\ call[c].changing => call[c].at \in {"lists", "aggregate"}

Shaped == ConsoleTypeOK /\ CallsNamed

LEMMA NothingShown ==
    /\ Nothing \in Shown /\ Nothing.project = NothingSelected
    /\ NoCall \in CallState /\ NoCall.at = "idle" /\ ~NoCall.changing
BY ConsoleAssumption DEF Nothing, Shown, NoCall, CallState

LEMMA ConsoleCallBecomes ==
    ASSUME Shaped, NEW c \in Calls, NEW r \in CallState, call' = [call EXCEPT ![c] = r]
    PROVE  /\ \A d \in Calls \ {c} : call'[d] = call[d]
           /\ call' \in [Calls -> CallState] /\ call'[c] = r
BY ConsoleTypes DEF Shaped

LEMMA CallEnds ==
    ASSUME Shaped, NEW c \in Calls, End(c)
    PROVE  /\ \A d \in Calls \ {c} : call'[d] = call[d]
           /\ call' \in [Calls -> CallState]
           /\ call'[c].at = "idle" /\ ~call'[c].changing
<1>1. call \in [Calls -> CallState] /\ call' = [call EXCEPT ![c] = NoCall]
  BY ConsoleTypes DEF End, Shaped
<1>2. QED
  BY <1>1, NothingShown

LEMMA NamedStep ==
    ASSUME CallsNamed, NEW c \in Calls, \A d \in Calls \ {c} : call'[d] = call[d],
           call'[c].at \in {"load"} \cup Changes => call'[c].project \in ConsoleProjects,
           call'[c].changing => call'[c].at \in {"lists", "aggregate"}
    PROVE  CallsNamed'
BY DEF CallsNamed

-----------------------------------------------------------------------------
\* What each step does, seen by the fields of the console's state.
LEMMA SelectEffect ==
    ASSUME Shaped, NEW c \in Calls, SelectProject(c)
    PROVE  /\ Shaped'
           /\ \A d \in Calls \ {c} : call'[d] = call[d]
           /\ call[c].at = "idle" /\ call'[c].at = "load" /\ ~call'[c].changing
           /\ console'.loading /\ ~console.saving /\ ~console'.saving
           /\ console'.aggregate = console.aggregate /\ console'.listed = console.listed
           /\ console'.validation = Nothing
           /\ UNCHANGED <<revision, deleted, behind, failed>>
           /\ readCrossed' <=> readCrossed \/ \E x \in Calls : IsChange(x)
<1>1. PICK p \in console.listed :
         /\ call' = [call EXCEPT ![c] = [NoCall EXCEPT !.at = "load", !.project = p]]
         /\ console' = Selecting(p)
  BY DEF SelectProject, Begin
<1>2. p \in ConsoleProjects /\ console \in Consoles
  BY ConsoleTypes DEF Shaped, Consoles
<1> DEFINE r == [NoCall EXCEPT !.at = "load", !.project = p]
<1>3. r \in CallState /\ r.at = "load" /\ r.project = p /\ ~r.changing
  BY <1>1, <1>2 DEF NoCall, CallState, Changes
<1>4. /\ \A d \in Calls \ {c} : call'[d] = call[d]
      /\ call' \in [Calls -> CallState] /\ call'[c] = r
  <2>1. call' = [call EXCEPT ![c] = r]
    BY <1>1
  <2> HIDE DEF r
  <2>2. QED
    BY <1>3, <2>1, ConsoleCallBecomes
<1> HIDE DEF r
<1>5. /\ console' \in Consoles /\ console'.loading /\ console'.saving = console.saving
      /\ console'.aggregate = console.aggregate /\ console'.listed = console.listed
      /\ console'.validation = Nothing
  BY <1>1, <1>2, NothingShown DEF Selecting, Consoles
<1>6. /\ UNCHANGED <<revision, deleted, behind, failed>> /\ call[c].at = "idle"
      /\ ~console.saving
      /\ readCrossed' = (readCrossed \/ \E x \in Calls : IsChange(x))
  BY DEF SelectProject, Begin, CrossedBy
<1>7. readCrossed' \in BOOLEAN
  BY <1>6
<1>8. CallsNamed'
  BY <1>2, <1>3, <1>4, <1>5, <1>6, <1>7, NamedStep DEF Shaped, Changes
<1>9. QED
  BY <1>2, <1>3, <1>4, <1>5, <1>6, <1>7, <1>8, ConsoleTypes DEF Shaped

LEMMA ReloadEffect ==
    ASSUME Shaped, NEW c \in Calls, Reload(c)
    PROVE  /\ Shaped'
           /\ \A d \in Calls \ {c} : call'[d] = call[d]
           /\ call[c].at = "idle" /\ call'[c].at = "lists" /\ ~call'[c].changing
           /\ call'[c].project = console.selected
           /\ console'.loading /\ ~console.saving /\ ~console'.saving
           /\ console'.aggregate = console.aggregate /\ console'.listed = console.listed
           /\ console'.validation = console.validation
           /\ console'.selected = console.selected
           /\ UNCHANGED <<revision, deleted, behind, failed>>
           /\ readCrossed' <=> readCrossed \/ \E x \in Calls : IsChange(x)
<1>1. /\ call' = [call EXCEPT ![c] = [NoCall EXCEPT !.at = "lists",
                                                     !.project = console.selected]]
      /\ console' = [console EXCEPT !.loading = TRUE]
  BY DEF Reload, Begin
<1>2. console \in Consoles /\ console.selected \in ConsoleProjects \cup {NothingSelected}
  BY ConsoleTypes DEF Shaped, Consoles
<1> DEFINE r == [NoCall EXCEPT !.at = "lists", !.project = console.selected]
<1>3. r \in CallState /\ r.at = "lists" /\ r.project = console.selected /\ ~r.changing
  BY <1>1, <1>2 DEF NoCall, CallState, Changes
<1>4. /\ \A d \in Calls \ {c} : call'[d] = call[d]
      /\ call' \in [Calls -> CallState] /\ call'[c] = r
  <2>1. call' = [call EXCEPT ![c] = r]
    BY <1>1
  <2> HIDE DEF r
  <2>2. QED
    BY <1>3, <2>1, ConsoleCallBecomes
<1> HIDE DEF r
<1>5. /\ console' \in Consoles /\ console'.loading /\ console'.saving = console.saving
      /\ console'.aggregate = console.aggregate /\ console'.listed = console.listed
      /\ console'.validation = console.validation /\ console'.selected = console.selected
  BY <1>1, <1>2 DEF Consoles
<1>6. /\ UNCHANGED <<revision, deleted, behind, failed>> /\ call[c].at = "idle"
      /\ ~console.saving
      /\ readCrossed' = (readCrossed \/ \E x \in Calls : IsChange(x))
  BY DEF Reload, Begin, CrossedBy
<1>7. readCrossed' \in BOOLEAN
  BY <1>6
<1>8. CallsNamed'
  BY <1>3, <1>4, <1>5, <1>6, <1>7, NamedStep DEF Shaped, Changes
<1>9. QED
  BY <1>3, <1>4, <1>5, <1>6, <1>7, <1>8, ConsoleTypes DEF Shaped

LEMMA ChangeEffect ==
    ASSUME Shaped, NEW c \in Calls, Change(c)
    PROVE  /\ Shaped'
           /\ \A d \in Calls \ {c} : call'[d] = call[d]
           /\ call[c].at = "idle" /\ call'[c].at \in Changes /\ ~call'[c].changing
           /\ call'[c].project \in ConsoleProjects
           /\ call'[c].at # "create" => call'[c].project = console.aggregate.project
           /\ console'.saving /\ ~console.saving /\ console'.loading = console.loading
           /\ console'.aggregate = console.aggregate /\ console'.listed = console.listed
           /\ console'.validation = console.validation
           /\ console'.selected = console.selected
           /\ UNCHANGED <<revision, deleted, behind, failed>>
           /\ readCrossed' <=> readCrossed \/ \E x \in Calls : Reading(x)
<1>1. PICK kind \in Changes, p \in ConsoleProjects :
         /\ kind # "create" => p = console.aggregate.project
         /\ call' = [call EXCEPT ![c] = [NoCall EXCEPT !.at = kind, !.project = p]]
  BY DEF Change, Begin
<1>2. console \in Consoles /\ console' = [console EXCEPT !.saving = TRUE] /\ p # NothingSelected
  BY ConsoleTypes, ConsoleAssumption DEF Shaped, Change
<1> DEFINE r == [NoCall EXCEPT !.at = kind, !.project = p]
<1>3. r \in CallState /\ r.at = kind /\ r.project = p /\ ~r.changing
  BY <1>1, <1>2 DEF NoCall, CallState, Changes
<1>4. /\ \A d \in Calls \ {c} : call'[d] = call[d]
      /\ call' \in [Calls -> CallState] /\ call'[c] = r
  <2>1. call' = [call EXCEPT ![c] = r]
    BY <1>1
  <2> HIDE DEF r
  <2>2. QED
    BY <1>3, <2>1, ConsoleCallBecomes
<1> HIDE DEF r
<1>5. /\ console' \in Consoles /\ console'.loading = console.loading /\ console'.saving
      /\ console'.aggregate = console.aggregate /\ console'.listed = console.listed
      /\ console'.validation = console.validation /\ console'.selected = console.selected
  BY <1>2 DEF Consoles
<1>6. /\ UNCHANGED <<revision, deleted, behind, failed>> /\ call[c].at = "idle"
      /\ ~console.saving
      /\ readCrossed' = (readCrossed \/ \E x \in Calls : Reading(x))
  BY DEF Change, Begin, CrossedBy, ButtonsEnabled
<1>7. readCrossed' \in BOOLEAN
  BY <1>6
<1>8. CallsNamed'
  BY <1>1, <1>2, <1>3, <1>4, <1>5, <1>6, <1>7, NamedStep DEF Shaped, Changes
<1>9. QED
  BY <1>1, <1>2, <1>3, <1>4, <1>5, <1>6, <1>7, <1>8, ConsoleTypes DEF Shaped

LEMMA FailEffect ==
    ASSUME Shaped, NEW c \in Calls, CallFails(c)
    PROVE  /\ Shaped'
           /\ \A d \in Calls \ {c} : call'[d] = call[d]
           /\ call[c].at # "idle" /\ call'[c].at = "idle" /\ ~call'[c].changing
           /\ ~console'.saving /\ ~console'.loading
           /\ console'.aggregate = console.aggregate /\ console'.listed = console.listed
           /\ console'.validation = console.validation
           /\ console'.selected = console.selected
           /\ UNCHANGED <<revision, deleted, readCrossed>>
           /\ IF call[c].at \in ReadCalls THEN behind' /\ failed'
              ELSE UNCHANGED <<behind, failed>>
<1>1. console \in Consoles /\ console' = [console EXCEPT !.loading = FALSE, !.saving = FALSE]
  BY ConsoleTypes DEF Shaped, CallFails, Fail
<1>2. /\ console' \in Consoles /\ ~console'.loading /\ ~console'.saving
      /\ console'.aggregate = console.aggregate /\ console'.listed = console.listed
      /\ console'.validation = console.validation /\ console'.selected = console.selected
  BY <1>1 DEF Consoles
<1>3. /\ \A d \in Calls \ {c} : call'[d] = call[d]
      /\ call' \in [Calls -> CallState]
      /\ call'[c].at = "idle" /\ ~call'[c].changing
  BY CallEnds DEF CallFails
<1>4. /\ call[c].at # "idle" /\ UNCHANGED <<revision, deleted, readCrossed>>
      /\ IF call[c].at \in ReadCalls THEN behind' = TRUE /\ failed' = TRUE
         ELSE UNCHANGED <<behind, failed>>
  BY DEF CallFails
<1>5. behind' \in BOOLEAN /\ failed' \in BOOLEAN
  BY <1>4, ConsoleTypes DEF Shaped
<1>6. CallsNamed'
  BY <1>2, <1>3, <1>4, <1>5, NamedStep DEF Shaped, Changes
<1>7. QED
  BY <1>2, <1>3, <1>4, <1>5, <1>6, ConsoleTypes DEF Shaped

LEMMA LoadEffect ==
    ASSUME Shaped, NEW c \in Calls, LoadAnswered(c)
    PROVE  /\ Shaped'
           /\ \A d \in Calls \ {c} : call'[d] = call[d]
           /\ call[c].at = "load" /\ call'[c].at = "idle" /\ ~call'[c].changing
           /\ ~console'.loading /\ console'.saving = console.saving
           /\ console'.selected = console'.aggregate.project
           /\ console'.listed = console.listed /\ console'.validation = console.validation
           /\ ~behind' /\ UNCHANGED <<revision, deleted, readCrossed, failed>>
<1> DEFINE p == call[c].project
<1>1. /\ call[c].at = "load" /\ revision[p] # 0
      /\ console' = [console EXCEPT !.selected = p, !.loading = FALSE,
                        !.aggregate = [project |-> p, revision |-> revision[p]]]
      /\ behind' = FALSE /\ End(c) /\ UNCHANGED <<revision, deleted, readCrossed, failed>>
  BY DEF LoadAnswered
<1>2. console \in Consoles /\ p \in ConsoleProjects
  BY <1>1, ConsoleTypes DEF Shaped, CallsNamed
<1>3. [project |-> p, revision |-> revision[p]] \in Shown
  BY <1>2, ConsoleTypes DEF Shaped, Shown
<1>4. /\ console' \in Consoles /\ ~console'.loading /\ console'.saving = console.saving
      /\ console'.selected = p /\ console'.aggregate.project = p
      /\ console'.listed = console.listed /\ console'.validation = console.validation
  BY <1>1, <1>2, <1>3 DEF Consoles
<1>5. /\ \A d \in Calls \ {c} : call'[d] = call[d]
      /\ call' \in [Calls -> CallState]
      /\ call'[c].at = "idle" /\ ~call'[c].changing
  BY <1>1, CallEnds
<1>6. CallsNamed'
  BY <1>1, <1>4, <1>5, NamedStep DEF Shaped, Changes
<1>7. QED
  BY <1>1, <1>4, <1>5, <1>6, ConsoleTypes DEF Shaped

LEMMA ListsEffect ==
    ASSUME Shaped, NEW c \in Calls, ListsAnswered(c)
    PROVE  /\ Shaped'
           /\ \A d \in Calls \ {c} : call'[d] = call[d]
           /\ call[c].at = "lists" /\ call'[c].at = "aggregate"
           /\ call'[c].changing = call[c].changing /\ call'[c].listed = Existing
           /\ call[c].project # NothingSelected => call'[c].project = call[c].project
           /\ UNCHANGED <<revision, console, deleted, behind, readCrossed, failed>>
<1>1. PICK p \in ConsoleProjects \cup {NothingSelected} :
         /\ call[c].project # NothingSelected => p = call[c].project
         /\ call' = [call EXCEPT ![c].at = "aggregate", ![c].project = p,
                                 ![c].listed = Existing]
  BY DEF ListsAnswered
<1>2. call \in [Calls -> CallState] /\ call[c] \in CallState /\ Existing \in SUBSET ConsoleProjects
  BY ConsoleTypes DEF Shaped, Existing
<1> DEFINE r == [call[c] EXCEPT !.at = "aggregate", !.project = p, !.listed = Existing]
<1>3. /\ r \in CallState /\ r.at = "aggregate" /\ r.project = p /\ r.listed = Existing
      /\ r.changing = call[c].changing
  BY <1>2 DEF CallState
<1>4. call' = [call EXCEPT ![c] = r]
  BY <1>1, <1>2
<1> HIDE DEF r
<1>5. /\ \A d \in Calls \ {c} : call'[d] = call[d]
      /\ call' \in [Calls -> CallState] /\ call'[c] = r
  BY <1>3, <1>4, ConsoleCallBecomes
<1>6. /\ call[c].at = "lists"
      /\ UNCHANGED <<revision, console, deleted, behind, readCrossed, failed>>
  BY DEF ListsAnswered
<1>7. CallsNamed'
  BY <1>3, <1>5, NamedStep DEF Shaped, Changes
<1>8. QED
  BY <1>1, <1>3, <1>5, <1>6, <1>7, ConsoleTypes DEF Shaped

LEMMA RefreshEffect ==
    ASSUME Shaped, NEW c \in Calls, RefreshAnswered(c)
    PROVE  /\ Shaped'
           /\ \A d \in Calls \ {c} : call'[d] = call[d]
           /\ call[c].at = "aggregate" /\ call'[c].at = "idle" /\ ~call'[c].changing
           /\ ~console'.loading /\ ~console'.saving
           /\ console'.selected = call[c].project /\ console'.aggregate.project = call[c].project
           /\ console'.listed = call[c].listed /\ console'.validation = console.validation
           /\ ~behind' /\ UNCHANGED <<revision, deleted, readCrossed, failed>>
<1> DEFINE p == call[c].project
<1> DEFINE a == [project |-> p, revision |-> IF p = NothingSelected THEN 0 ELSE revision[p]]
<1>1. /\ call[c].at = "aggregate"
      /\ console' = [console EXCEPT !.listed = call[c].listed, !.selected = p,
                        !.loading = FALSE, !.saving = FALSE, !.aggregate = a]
      /\ behind' = FALSE /\ End(c) /\ UNCHANGED <<revision, deleted, readCrossed, failed>>
  BY DEF RefreshAnswered, Refreshed
<1>2. /\ console \in Consoles /\ p \in ConsoleProjects \cup {NothingSelected}
      /\ call[c].listed \in SUBSET ConsoleProjects
  BY ConsoleTypes DEF Shaped, CallState
<1>3. a \in Shown /\ a.project = p
  <2>1. (IF p = NothingSelected THEN 0 ELSE revision[p]) \in 0..RevisionBound
    BY <1>2, ConsoleTypes, ConsoleAssumption DEF Shaped
  <2>2. QED
    BY <1>2, <2>1 DEF Shown
<1> HIDE DEF a
<1>4. /\ console' \in Consoles /\ ~console'.loading /\ ~console'.saving
      /\ console'.selected = p /\ console'.aggregate.project = p
      /\ console'.listed = call[c].listed /\ console'.validation = console.validation
  BY <1>1, <1>2, <1>3 DEF Consoles
<1>5. /\ \A d \in Calls \ {c} : call'[d] = call[d]
      /\ call' \in [Calls -> CallState]
      /\ call'[c].at = "idle" /\ ~call'[c].changing
  BY <1>1, CallEnds
<1>6. CallsNamed'
  BY <1>5, NamedStep DEF Shaped, Changes
<1>7. QED
  BY <1>1, <1>4, <1>5, <1>6, ConsoleTypes DEF Shaped

\* The changes a refresh follows.
LEMMA MutatedEffect ==
    ASSUME Shaped, NEW c \in Calls, UpdateAnswered(c) \/ DeleteAnswered(c) \/ CreateAnswered(c)
    PROVE  /\ Shaped'
           /\ \A d \in Calls \ {c} : call'[d] = call[d]
           /\ call[c].at \in {"update", "delete", "create"} /\ ~call[c].changing
           /\ call'[c].at = "lists" /\ call'[c].changing
           /\ call'[c].project =
                 IF call[c].at = "update" THEN call[c].project ELSE console.selected
           /\ console'.loading /\ console'.saving = console.saving
           /\ console'.aggregate = console.aggregate /\ console'.listed = console.listed
           /\ console'.validation = console.validation
           /\ console'.selected = console.selected
           /\ UNCHANGED <<behind, readCrossed, failed>>
           /\ (\A p \in deleted : revision[p] = 0) => (\A p \in deleted' : revision'[p] = 0)
<1> DEFINE kind == call[c].at
<1> DEFINE p == call[c].project
<1> DEFINE to == IF kind = "update" THEN p ELSE console.selected
<1>1. kind \in {"update", "delete", "create"} /\ Refreshing(c, to)
  BY DEF UpdateAnswered, DeleteAnswered, CreateAnswered
<1>2. /\ console \in Consoles /\ p \in ConsoleProjects /\ ~call[c].changing
      /\ deleted \subseteq ConsoleProjects
  BY <1>1, ConsoleTypes DEF Shaped, CallsNamed, Changes
<1>3. to \in ConsoleProjects \cup {NothingSelected}
  BY <1>2 DEF Consoles
<1> HIDE DEF to
<1> DEFINE r == [NoCall EXCEPT !.at = "lists", !.project = to, !.changing = TRUE]
<1>4. r \in CallState /\ r.at = "lists" /\ r.project = to /\ r.changing
  BY <1>3 DEF NoCall, CallState
<1>5. call' = [call EXCEPT ![c] = r] /\ console' = [console EXCEPT !.loading = TRUE]
      /\ UNCHANGED <<behind, readCrossed, failed>>
  BY <1>1 DEF Refreshing
<1> HIDE DEF r
<1>6. /\ \A d \in Calls \ {c} : call'[d] = call[d]
      /\ call' \in [Calls -> CallState] /\ call'[c] = r
  BY <1>4, <1>5, ConsoleCallBecomes
<1>7. /\ console' \in Consoles /\ console'.loading /\ console'.saving = console.saving
      /\ console'.aggregate = console.aggregate /\ console'.listed = console.listed
      /\ console'.validation = console.validation /\ console'.selected = console.selected
  BY <1>2, <1>5 DEF Consoles
<1>8. /\ revision' \in [ConsoleProjects -> 0..RevisionBound] /\ deleted' \subseteq ConsoleProjects
      /\ (\A q \in deleted : revision[q] = 0) => (\A q \in deleted' : revision'[q] = 0)
  <2>0. revision \in [ConsoleProjects -> 0..RevisionBound] /\ RevisionBound \in Nat \ {0}
    BY ConsoleTypes, ConsoleAssumption DEF Shaped
  <2>1. CASE UpdateAnswered(c)
    <3>1. /\ revision[p] \in 1..(RevisionBound - 1) /\ deleted' = deleted
          /\ revision' = [revision EXCEPT ![p] = revision[p] + 1]
      BY <2>1 DEF UpdateAnswered
    <3>2. revision[p] # 0 /\ revision[p] + 1 \in 0..RevisionBound
      BY <2>0, <3>1
    <3>3. QED
      BY <1>2, <2>0, <3>1, <3>2
  <2>2. CASE DeleteAnswered(c)
    <3>1. deleted' = deleted \cup {p} /\ revision' = [revision EXCEPT ![p] = 0]
      BY <2>2 DEF DeleteAnswered
    <3>2. 0 \in 0..RevisionBound
      BY <2>0
    <3>3. QED
      BY <1>2, <2>0, <3>1, <3>2
  <2>3. CASE CreateAnswered(c)
    <3>1. p \notin deleted /\ deleted' = deleted /\ revision' = [revision EXCEPT ![p] = 1]
      BY <2>3 DEF CreateAnswered
    <3>2. 1 \in 0..RevisionBound
      BY <2>0
    <3>3. QED
      BY <1>2, <2>0, <3>1, <3>2
  <2>4. QED
    BY <2>1, <2>2, <2>3
<1>9. CallsNamed'
  BY <1>4, <1>6, NamedStep DEF Shaped, Changes
<1>10. QED
  BY <1>1, <1>2, <1>4, <1>5, <1>6, <1>7, <1>8, <1>9, ConsoleTypes DEF Shaped, to

LEMMA ValidateEffect ==
    ASSUME Shaped, NEW c \in Calls, ValidateAnswered(c)
    PROVE  /\ Shaped'
           /\ \A d \in Calls \ {c} : call'[d] = call[d]
           /\ call[c].at = "validate" /\ call'[c].at = "idle" /\ ~call'[c].changing
           /\ ~call[c].changing /\ call[c].project # NothingSelected
           /\ console'.loading = console.loading /\ ~console'.saving
           /\ console'.aggregate = console.aggregate /\ console'.listed = console.listed
           /\ console'.validation.project = call[c].project
           /\ console'.selected = console.selected
           /\ UNCHANGED <<revision, deleted, behind, readCrossed, failed>>
<1> DEFINE p == call[c].project
<1>1. /\ call[c].at = "validate"
      /\ console' = [console EXCEPT !.saving = FALSE,
                        !.validation = [project |-> p, revision |-> revision[p]]]
      /\ End(c) /\ UNCHANGED <<revision, deleted, behind, readCrossed, failed>>
  BY DEF ValidateAnswered
<1>2. console \in Consoles /\ p \in ConsoleProjects /\ ~call[c].changing
  BY <1>1, ConsoleTypes DEF Shaped, CallsNamed, Changes
<1>3. [project |-> p, revision |-> revision[p]] \in Shown /\ p # NothingSelected
  BY <1>2, ConsoleTypes, ConsoleAssumption DEF Shaped, Shown
<1>4. /\ console' \in Consoles /\ ~console'.saving /\ console'.loading = console.loading
      /\ console'.aggregate = console.aggregate /\ console'.listed = console.listed
      /\ console'.selected = console.selected /\ console'.validation.project = p
  BY <1>1, <1>2, <1>3 DEF Consoles
<1>5. /\ \A d \in Calls \ {c} : call'[d] = call[d]
      /\ call' \in [Calls -> CallState]
      /\ call'[c].at = "idle" /\ ~call'[c].changing
  BY <1>1, CallEnds
<1>6. CallsNamed'
  BY <1>5, NamedStep DEF Shaped, Changes
<1>7. QED
  BY <1>1, <1>2, <1>3, <1>4, <1>5, <1>6, ConsoleTypes DEF Shaped

-----------------------------------------------------------------------------
\* Loading waits for a read, saving for a change; unless a read and a change
\* were in flight together, a change runs alone and the buttons wait for it.
ReadsAt(c) == call[c].at \in ReadCalls

FlagsInv ==
    /\ console.loading => \E c \in Calls : ReadsAt(c)
    /\ console.saving => \E c \in Calls : IsChange(c)
    /\ readCrossed \/ \A c \in Calls : IsChange(c) =>
          console.saving /\ \A d \in Calls \ {c} : call[d].at = "idle"

\* What is selected and not shown is being read, or was lost.
SelectionInv ==
    /\ behind => failed
    /\ behind \/ console.selected = console.aggregate.project \/ \E c \in Calls : ReadsAt(c)

\* What was deleted is gone, and from the list with the refresh that follows.
ListInv ==
    /\ \A p \in deleted : revision[p] = 0
    /\ readCrossed \/ \A c \in Calls :
          call[c].at = "aggregate" => call[c].listed \cap deleted = {}
    /\ \/ readCrossed \/ failed \/ deleted \cap console.listed = {}
       \/ \E c \in Calls : call[c].at \in {"lists", "aggregate"} /\ call[c].changing

\* A report is of the project shown and selected, and nothing reads another.
ReportInv ==
    \/ readCrossed \/ failed
    \/ /\ \A c \in Calls : call[c].at \in {"update", "delete", "validate"} =>
             call[c].project = console.aggregate.project
       /\ console.validation # Nothing =>
             /\ console.validation.project # NothingSelected
             /\ console.validation.project = console.aggregate.project
             /\ console.validation.project = console.selected
             /\ \A c \in Calls : /\ call[c].at # "load"
                                 /\ ReadsAt(c) => call[c].project = console.selected

ConsoleInv == Shaped /\ FlagsInv /\ SelectionInv /\ ListInv /\ ReportInv

LEMMA AtStates ==
    ASSUME Shaped, NEW c \in Calls
    PROVE  /\ call[c].at = "idle" \/ call[c].at \in ReadCalls \/ call[c].at \in Changes
           /\ ReadsAt(c) => IsChange(c) \/ Reading(c)
           /\ call[c].at = "load" => Reading(c)
BY ConsoleTypes DEF Shaped, CallsNamed, CallState, ReadsAt, IsChange, Reading, ReadCalls, Changes

LEMMA SelectInv ==
    ASSUME ConsoleInv, NEW c \in Calls, SelectProject(c)
    PROVE  ConsoleInv'
<1>1. Shaped' /\ ReadsAt(c)' /\ ~IsChange(c)' /\ call'[c].at = "load"
  BY SelectEffect DEF ConsoleInv, ReadsAt, IsChange, ReadCalls, Changes
<1>2. \A d \in Calls \ {c} : (ReadsAt(d)' <=> ReadsAt(d)) /\ (IsChange(d)' <=> IsChange(d))
  BY SelectEffect DEF ConsoleInv, ReadsAt, IsChange
<1>3. FlagsInv'
  BY <1>1, <1>2, SelectEffect DEF ConsoleInv, FlagsInv
<1>4. SelectionInv'
  BY <1>1, SelectEffect DEF ConsoleInv, SelectionInv
<1>5. ListInv'
  BY <1>1, SelectEffect DEF ConsoleInv, ListInv
<1>6. ReportInv'
  BY <1>1, SelectEffect DEF ConsoleInv, ReportInv
<1>7. QED
  BY <1>1, <1>3, <1>4, <1>5, <1>6 DEF ConsoleInv

LEMMA ReloadInv ==
    ASSUME ConsoleInv, NEW c \in Calls, Reload(c)
    PROVE  ConsoleInv'
<1>1. Shaped' /\ ReadsAt(c)' /\ ~IsChange(c)' /\ call'[c].at = "lists"
  BY ReloadEffect DEF ConsoleInv, ReadsAt, IsChange, ReadCalls, Changes
<1>2. \A d \in Calls \ {c} : (ReadsAt(d)' <=> ReadsAt(d)) /\ (IsChange(d)' <=> IsChange(d))
  BY ReloadEffect DEF ConsoleInv, ReadsAt, IsChange
<1>3. FlagsInv'
  BY <1>1, <1>2, ReloadEffect DEF ConsoleInv, FlagsInv
<1>4. SelectionInv'
  BY <1>1, ReloadEffect DEF ConsoleInv, SelectionInv
<1>5. ListInv'
  BY <1>1, ReloadEffect DEF ConsoleInv, ListInv
<1>6. ReportInv'
  BY <1>1, <1>2, ReloadEffect DEF ConsoleInv, ReportInv
<1>7. QED
  BY <1>1, <1>3, <1>4, <1>5, <1>6 DEF ConsoleInv

LEMMA ChangeInv ==
    ASSUME ConsoleInv, NEW c \in Calls, Change(c)
    PROVE  ConsoleInv'
<1>1. Shaped' /\ ~ReadsAt(c)' /\ IsChange(c)' /\ call'[c].at \in Changes
  BY ChangeEffect DEF ConsoleInv, ReadsAt, IsChange, ReadCalls, Changes
<1>2. \A d \in Calls \ {c} : (ReadsAt(d)' <=> ReadsAt(d)) /\ (IsChange(d)' <=> IsChange(d))
  BY ChangeEffect DEF ConsoleInv, ReadsAt, IsChange
<1>3. ~readCrossed' => \A d \in Calls \ {c} : call'[d].at = "idle"
  <2>1. ASSUME ~readCrossed', NEW d \in Calls \ {c} PROVE call[d].at = "idle"
    <3>1. ~readCrossed /\ ~Reading(d)
      BY <2>1, ChangeEffect DEF ConsoleInv
    <3>2. ~IsChange(d)
      BY <3>1, ChangeEffect DEF ConsoleInv, FlagsInv
    <3>3. QED
      BY <3>1, <3>2, AtStates DEF ConsoleInv, IsChange, ReadsAt
  <2>2. QED
    BY <2>1, ChangeEffect DEF ConsoleInv
<1>4. ~ReadsAt(c)
  BY ChangeEffect DEF ConsoleInv, ReadsAt, ReadCalls
<1>5. FlagsInv'
  <2>1. ASSUME ~readCrossed', NEW d \in Calls, IsChange(d)' PROVE d = c
    BY <1>3, <2>1, AtStates, ChangeEffect DEF ConsoleInv, IsChange, FlagsInv, CallsNamed
  <2>2. QED
    BY <1>1, <1>2, <1>3, <1>4, <2>1, ChangeEffect DEF ConsoleInv, FlagsInv
<1>6. SelectionInv'
  BY <1>1, <1>2, <1>4, ChangeEffect DEF ConsoleInv, SelectionInv
<1>7. ListInv'
  BY <1>1, ChangeEffect DEF ConsoleInv, ListInv, Changes
<1>8. ReportInv'
  BY <1>1, <1>2, ChangeEffect DEF ConsoleInv, ReportInv, Changes
<1>9. QED
  BY <1>1, <1>5, <1>6, <1>7, <1>8 DEF ConsoleInv

\* Where a change runs and nothing crossed, nothing else does.
LEMMA AloneUncrossed ==
    ASSUME ConsoleInv, ~readCrossed, NEW c \in Calls, NEW d \in Calls \ {c}, IsChange(c)
    PROVE  call[d].at = "idle" /\ ~ReadsAt(d) /\ ~Reading(d)
BY DEF ConsoleInv, FlagsInv, ReadsAt, Reading, ReadCalls

\* Call c ends, and the flags it may have cleared were its own.
LEMMA FlagsAfter ==
    ASSUME ConsoleInv, NEW c \in Calls, \A d \in Calls \ {c} : call'[d] = call[d],
           ~ReadsAt(c)', ~IsChange(c)', UNCHANGED readCrossed,
           console'.loading => console.loading /\ ~ReadsAt(c),
           console'.saving => console.saving /\ ~IsChange(c),
           ReadsAt(c) \/ IsChange(c)
    PROVE  FlagsInv'
<1>1. \A d \in Calls \ {c} : (ReadsAt(d)' <=> ReadsAt(d)) /\ (IsChange(d)' <=> IsChange(d))
  BY DEF ReadsAt, IsChange
<1>2. ASSUME ~readCrossed, NEW d \in Calls \ {c} PROVE ~IsChange(d)
  <2>1. SUFFICES ASSUME IsChange(d) PROVE FALSE
    OBVIOUS
  <2>2. ~ReadsAt(c)
    BY <1>2, <2>1, AloneUncrossed
  <2>3. call[d].at = "idle"
    BY <1>2, <2>2, AloneUncrossed
  <2>4. QED
    BY <2>1, <2>3 DEF ConsoleInv, Shaped, CallsNamed, IsChange, Changes
<1>3. QED
  BY <1>1, <1>2 DEF ConsoleInv, FlagsInv

LEMMA FailInv ==
    ASSUME ConsoleInv, NEW c \in Calls, CallFails(c)
    PROVE  ConsoleInv'
<1>1. Shaped' /\ ~ReadsAt(c)' /\ ~IsChange(c)'
  BY FailEffect DEF ConsoleInv, ReadsAt, IsChange, ReadCalls, Changes
<1>2. \A d \in Calls \ {c} : (ReadsAt(d)' <=> ReadsAt(d)) /\ (IsChange(d)' <=> IsChange(d))
  BY FailEffect DEF ConsoleInv, ReadsAt, IsChange
<1>3. ReadsAt(c) \/ IsChange(c)
  BY FailEffect, AtStates DEF ConsoleInv, ReadsAt, IsChange
<1>4. FlagsInv'
  BY <1>1, <1>3, FailEffect, FlagsAfter DEF ConsoleInv
<1>5. SelectionInv'
  BY <1>1, <1>2, FailEffect DEF ConsoleInv, SelectionInv, ReadsAt
<1>6. ListInv'
  <2>1. ~failed' => call[c].at \notin {"lists", "aggregate"}
    BY FailEffect DEF ConsoleInv, ReadCalls
  <2>2. failed => failed'
    BY FailEffect DEF ConsoleInv
  <2>3. QED
    BY <2>1, <2>2, FailEffect DEF ConsoleInv, ListInv
<1>7. ReportInv'
  <2>1. failed => failed'
    BY FailEffect DEF ConsoleInv
  <2>2. QED
    BY <1>1, <1>2, <2>1, FailEffect DEF ConsoleInv, ReportInv
<1>8. QED
  BY <1>1, <1>4, <1>5, <1>6, <1>7 DEF ConsoleInv

LEMMA LoadInv ==
    ASSUME ConsoleInv, NEW c \in Calls, LoadAnswered(c)
    PROVE  ConsoleInv'
<1>1. /\ Shaped' /\ ~ReadsAt(c)' /\ ~IsChange(c)' /\ ReadsAt(c) /\ ~IsChange(c) /\ Reading(c)
      /\ call[c].at = "load"
  BY LoadEffect, AtStates
     DEF ConsoleInv, ReadsAt, IsChange, ReadCalls, Changes, Shaped, CallsNamed
<1>2. \A d \in Calls \ {c} : (ReadsAt(d)' <=> ReadsAt(d)) /\ (IsChange(d)' <=> IsChange(d))
  BY LoadEffect DEF ConsoleInv, ReadsAt, IsChange
<1>3. FlagsInv'
  BY <1>1, LoadEffect, FlagsAfter DEF ConsoleInv
<1>4. SelectionInv'
  BY LoadEffect DEF ConsoleInv, SelectionInv
<1>5. ListInv'
  BY <1>1, LoadEffect DEF ConsoleInv, ListInv
<1>6. ReportInv'
  <2>1. SUFFICES ASSUME ~readCrossed, ~failed PROVE ReportInv'
    BY LoadEffect DEF ConsoleInv, ReportInv
  <2>2. \A d \in Calls \ {c} : ~IsChange(d)
    BY <1>1, <2>1, AloneUncrossed
  <2>3. console'.validation = Nothing
    BY <1>1, <2>1, LoadEffect DEF ConsoleInv, ReportInv
  <2>4. \A d \in Calls : call'[d].at \notin {"update", "delete", "validate"}
    BY <1>1, <2>2, LoadEffect DEF ConsoleInv, IsChange, Changes
  <2>5. QED
    BY <2>3, <2>4 DEF ReportInv
<1>7. QED
  BY <1>1, <1>3, <1>4, <1>5, <1>6 DEF ConsoleInv

LEMMA ListsInv ==
    ASSUME ConsoleInv, NEW c \in Calls, ListsAnswered(c)
    PROVE  ConsoleInv'
<1>1. /\ Shaped' /\ ReadsAt(c)' /\ ReadsAt(c) /\ (IsChange(c)' <=> IsChange(c))
      /\ call'[c].at = "aggregate"
  BY ListsEffect DEF ConsoleInv, ReadsAt, IsChange, ReadCalls, Changes
<1>2. \A d \in Calls \ {c} : (ReadsAt(d)' <=> ReadsAt(d)) /\ (IsChange(d)' <=> IsChange(d))
  BY ListsEffect DEF ConsoleInv, ReadsAt, IsChange
<1>3. FlagsInv'
  <2>1. \A d \in Calls : call'[d].at = "idle" <=> call[d].at = "idle"
    BY ListsEffect DEF ConsoleInv
  <2>2. QED
    BY <1>1, <1>2, <2>1, ListsEffect DEF ConsoleInv, FlagsInv
<1>4. SelectionInv'
  BY <1>1, <1>2, ListsEffect DEF ConsoleInv, SelectionInv
<1>5. ListInv'
  <2>1. \A p \in deleted : revision[p] = 0
    BY DEF ConsoleInv, ListInv
  <2>2. Existing \cap deleted = {}
    BY <2>1 DEF Existing
  <2>3. QED
    BY <1>1, <2>2, ListsEffect DEF ConsoleInv, ListInv
<1>6. ReportInv'
  BY <1>1, <1>2, ListsEffect DEF ConsoleInv, ReportInv
<1>7. QED
  BY <1>1, <1>3, <1>4, <1>5, <1>6 DEF ConsoleInv

LEMMA RefreshInv ==
    ASSUME ConsoleInv, NEW c \in Calls, RefreshAnswered(c)
    PROVE  ConsoleInv'
<1>1. /\ Shaped' /\ ~ReadsAt(c)' /\ ~IsChange(c)' /\ ReadsAt(c)
      /\ call[c].at = "aggregate" /\ (IsChange(c) \/ Reading(c))
  BY RefreshEffect, AtStates DEF ConsoleInv, ReadsAt, IsChange, ReadCalls, Changes
<1>2. \A d \in Calls \ {c} : (ReadsAt(d)' <=> ReadsAt(d)) /\ (IsChange(d)' <=> IsChange(d))
  BY RefreshEffect DEF ConsoleInv, ReadsAt, IsChange
<1>3. FlagsInv'
  BY <1>1, RefreshEffect, FlagsAfter DEF ConsoleInv
<1>4. SelectionInv'
  BY RefreshEffect DEF ConsoleInv, SelectionInv
<1>5. ListInv'
  BY <1>1, RefreshEffect DEF ConsoleInv, ListInv
<1>6. ReportInv'
  <2>1. SUFFICES ASSUME ~readCrossed, ~failed PROVE ReportInv'
    BY RefreshEffect DEF ConsoleInv, ReportInv
  <2>2. \A d \in Calls \ {c} : ~IsChange(d)
    BY <1>1, <2>1, AloneUncrossed
  <2>3. \A d \in Calls : call'[d].at \notin {"update", "delete", "validate"}
    BY <1>1, <2>2, RefreshEffect DEF ConsoleInv, IsChange, Changes
  <2>4. console.validation # Nothing => call[c].project = console.selected
    BY <1>1, <2>1 DEF ConsoleInv, ReportInv
  <2>5. QED
    BY <1>1, <1>2, <2>1, <2>3, <2>4, RefreshEffect DEF ConsoleInv, ReportInv
<1>7. QED
  BY <1>1, <1>3, <1>4, <1>5, <1>6 DEF ConsoleInv

LEMMA MutatedInv ==
    ASSUME ConsoleInv, NEW c \in Calls, UpdateAnswered(c) \/ DeleteAnswered(c) \/ CreateAnswered(c)
    PROVE  ConsoleInv'
<1>1. /\ Shaped' /\ ReadsAt(c)' /\ IsChange(c)' /\ ~ReadsAt(c) /\ IsChange(c)
      /\ call'[c].at = "lists" /\ call'[c].changing
  BY MutatedEffect DEF ConsoleInv, ReadsAt, IsChange, ReadCalls, Changes
<1>2. \A d \in Calls \ {c} : (ReadsAt(d)' <=> ReadsAt(d)) /\ (IsChange(d)' <=> IsChange(d))
  BY MutatedEffect DEF ConsoleInv, ReadsAt, IsChange
<1>3. ~readCrossed => \A d \in Calls \ {c} : call'[d].at = "idle"
  BY <1>1, AloneUncrossed, MutatedEffect DEF ConsoleInv
<1>4. FlagsInv'
  <2>1. ASSUME ~readCrossed, NEW d \in Calls \ {c} PROVE ~IsChange(d)'
    BY <1>1, <1>3, <2>1 DEF Shaped, CallsNamed, IsChange, Changes
  <2>2. ~readCrossed => console'.saving
    BY <1>1, MutatedEffect DEF ConsoleInv, FlagsInv
  <2>3. QED
    BY <1>1, <1>2, <1>3, <2>1, <2>2, MutatedEffect DEF ConsoleInv, FlagsInv
<1>5. SelectionInv'
  BY <1>1, MutatedEffect DEF ConsoleInv, SelectionInv
<1>6. ListInv'
  <2>1. ~readCrossed' => \A d \in Calls : call'[d].at # "aggregate"
    BY <1>1, <1>3, MutatedEffect DEF ConsoleInv
  <2>2. QED
    BY <1>1, <2>1, MutatedEffect DEF ConsoleInv, ListInv
<1>7. ReportInv'
  <2>1. SUFFICES ASSUME ~readCrossed, ~failed PROVE ReportInv'
    BY MutatedEffect DEF ConsoleInv, ReportInv
  <2>2. \A d \in Calls : call'[d].at \notin {"update", "delete", "validate", "load"}
    BY <1>1, <1>3, <2>1
  <2>3. console.validation # Nothing => call'[c].project = console.selected
    BY <2>1, MutatedEffect DEF ConsoleInv, ReportInv
  <2>4. \A d \in Calls \ {c} : ~ReadsAt(d)'
    BY <1>3, <2>1 DEF ReadsAt, ReadCalls
  <2>5. QED
    BY <2>1, <2>2, <2>3, <2>4, MutatedEffect DEF ConsoleInv, ReportInv
<1>8. QED
  BY <1>1, <1>4, <1>5, <1>6, <1>7 DEF ConsoleInv

LEMMA ValidateInv ==
    ASSUME ConsoleInv, NEW c \in Calls, ValidateAnswered(c)
    PROVE  ConsoleInv'
<1>1. Shaped' /\ ~ReadsAt(c)' /\ ~IsChange(c)' /\ ~ReadsAt(c) /\ IsChange(c)
  BY ValidateEffect DEF ConsoleInv, ReadsAt, IsChange, ReadCalls, Changes
<1>2. \A d \in Calls \ {c} : (ReadsAt(d)' <=> ReadsAt(d)) /\ (IsChange(d)' <=> IsChange(d))
  BY ValidateEffect DEF ConsoleInv, ReadsAt, IsChange
<1>3. ~readCrossed => \A d \in Calls : call'[d].at = "idle" /\ ~ReadsAt(d)
  BY <1>1, AloneUncrossed, ValidateEffect DEF ConsoleInv
<1>4. FlagsInv'
  BY <1>1, ValidateEffect, FlagsAfter DEF ConsoleInv
<1>5. SelectionInv'
  BY <1>1, <1>2, ValidateEffect DEF ConsoleInv, SelectionInv
<1>6. ListInv'
  BY <1>1, ValidateEffect DEF ConsoleInv, ListInv
<1>7. ReportInv'
  <2>1. SUFFICES ASSUME ~readCrossed, ~failed PROVE ReportInv'
    BY ValidateEffect DEF ConsoleInv, ReportInv
  <2>2. call[c].project = console.aggregate.project
    BY <2>1, ValidateEffect DEF ConsoleInv, ReportInv
  <2>3. console.selected = console.aggregate.project
    BY <1>3, <2>1 DEF ConsoleInv, SelectionInv
  <2>4. \A d \in Calls : call'[d].at = "idle" /\ ~ReadsAt(d)'
    BY <1>3, <2>1 DEF ReadsAt, ReadCalls
  <2>5. QED
    BY <2>2, <2>3, <2>4, ValidateEffect DEF ConsoleInv, ReportInv
<1>8. QED
  BY <1>1, <1>4, <1>5, <1>6, <1>7 DEF ConsoleInv

-----------------------------------------------------------------------------
LEMMA ConsoleInitially ==
    ASSUME ConsoleInit
    PROVE  ConsoleInv
<1>1. PICK c \in Calls :
         call = [x \in Calls |-> IF x = c THEN [NoCall EXCEPT !.at = "lists"] ELSE NoCall]
  BY DEF ConsoleInit
<1>2. /\ revision \in [ConsoleProjects -> {0, 1}]
      /\ console = [selected |-> NothingSelected, aggregate |-> Nothing, listed |-> {},
                    validation |-> Nothing, loading |-> TRUE, saving |-> FALSE]
      /\ deleted = {} /\ behind = FALSE /\ readCrossed = FALSE /\ failed = FALSE
  BY DEF ConsoleInit
<1> DEFINE r == [NoCall EXCEPT !.at = "lists"]
<1>3. r \in CallState /\ r.at = "lists" /\ ~r.changing
  BY DEF NoCall, CallState
<1>4. call = [x \in Calls |-> IF x = c THEN r ELSE NoCall]
  BY <1>1
<1> HIDE DEF r
<1>5. /\ call \in [Calls -> CallState] /\ call[c].at = "lists" /\ ~call[c].changing
      /\ \A d \in Calls \ {c} : call[d].at = "idle" /\ ~call[d].changing
  BY <1>3, <1>4, NothingShown
<1>6. ConsoleTypeOK
  <2>1. revision \in [ConsoleProjects -> 0..RevisionBound]
    BY <1>2, ConsoleAssumption
  <2>2. console \in Consoles
    BY <1>2, NothingShown DEF Consoles
  <2>3. QED
    BY <1>2, <1>5, <2>1, <2>2, ConsoleTypes
<1>7. CallsNamed
  BY <1>5 DEF CallsNamed, Changes
<1>8. /\ console.loading /\ ~console.saving /\ console.selected = console.aggregate.project
      /\ console.listed = {} /\ console.validation = Nothing
  BY <1>2, NothingShown
<1>9. ReadsAt(c) /\ \A d \in Calls : ~IsChange(d)
  BY <1>5 DEF ReadsAt, IsChange, ReadCalls, Changes
<1>10. FlagsInv /\ SelectionInv /\ ListInv /\ ReportInv
  BY <1>2, <1>5, <1>8, <1>9 DEF FlagsInv, SelectionInv, ListInv, ReportInv
<1>11. QED
  BY <1>6, <1>7, <1>10 DEF ConsoleInv, Shaped

LEMMA ConsoleStep ==
    ASSUME ConsoleInv, [ConsoleNext]_consoleVars
    PROVE  ConsoleInv'
<1>1. CASE ConsoleNext
  BY <1>1, SelectInv, ReloadInv, ChangeInv, FailInv, LoadInv, ListsInv, RefreshInv, MutatedInv,
     ValidateInv DEF ConsoleNext
<1>2. CASE UNCHANGED consoleVars
  BY <1>2 DEF consoleVars, ConsoleInv, Shaped, ConsoleTypeOK, CallsNamed, FlagsInv, SelectionInv,
              ListInv, ReportInv, ReadsAt, IsChange
<1>3. QED
  BY <1>1, <1>2

\* A set whose members are all the same has at most one.
LEMMA OneChange ==
    ASSUME ConsoleInv, ~readCrossed
    PROVE  Cardinality({c \in Calls : IsChange(c)}) <= 1
<1>1. ASSUME NEW c \in Calls, NEW d \in Calls, IsChange(c), IsChange(d) PROVE c = d
  BY <1>1, AloneUncrossed DEF ConsoleInv, Shaped, CallsNamed, IsChange, Changes
<1>2. CASE {c \in Calls : IsChange(c)} = {}
  BY <1>2, FS_EmptySet
<1>3. CASE {c \in Calls : IsChange(c)} # {}
  <2>1. PICK c \in Calls : IsChange(c)
    BY <1>3
  <2>2. {x \in Calls : IsChange(x)} = {c}
    BY <1>1, <2>1
  <2>3. Cardinality({c}) = 1
    BY FS_Singleton
  <2>4. QED
    BY <2>2, <2>3
<1>4. QED
  BY <1>2, <1>3

(***************************************************************************)
(* The console, its calls and the projects keep their types.               *)
(***************************************************************************)
THEOREM ConsoleTypeCorrect == ConsoleSpec => []ConsoleTypeOK
<1>1. ConsoleInit => ConsoleInv
  BY ConsoleInitially
<1>2. ConsoleInv /\ [ConsoleNext]_consoleVars => ConsoleInv'
  BY ConsoleStep
<1>3. ConsoleInv => ConsoleTypeOK
  BY DEF ConsoleInv, Shaped
<1>4. QED
  BY <1>1, <1>2, <1>3, PTL DEF ConsoleSpec

(***************************************************************************)
(* However the answers of any number of calls come in: at rest the console *)
(* neither waits nor keeps its buttons disabled, and one change runs at a  *)
(* time unless a read was in flight beside one.                            *)
(***************************************************************************)
THEOREM ConsoleFlagsFit == ConsoleSpec => []FlagsFit
<1>1. ConsoleInit => ConsoleInv
  BY ConsoleInitially
<1>2. ConsoleInv /\ [ConsoleNext]_consoleVars => ConsoleInv'
  BY ConsoleStep
<1>3. ConsoleInv => FlagsFit
  <2>1. SUFFICES ASSUME ConsoleInv PROVE FlagsFit
    OBVIOUS
  <2>2. AtRest => \A c \in Calls : ~ReadsAt(c) /\ ~IsChange(c)
    BY <2>1 DEF AtRest, ReadsAt, IsChange, ReadCalls, Changes, ConsoleInv, Shaped, CallsNamed
  <2>3. NoSpinnerAtRest
    BY <2>1, <2>2 DEF NoSpinnerAtRest, ConsoleInv, FlagsInv
  <2>4. OneChangeUnlessCrossed
    BY <2>1, OneChange DEF OneChangeUnlessCrossed
  <2>5. QED
    BY <2>3, <2>4 DEF FlagsFit
<1>4. QED
  BY <1>1, <1>2, <1>3, PTL DEF ConsoleSpec

(***************************************************************************)
(* At rest the project shown, the one selected, the list and the report    *)
(* belong together, unless a read failed or crossed a change.              *)
(***************************************************************************)
THEOREM ConsoleShowsOneProject == ConsoleSpec => []ShowsOneProject
<1>1. ConsoleInit => ConsoleInv
  BY ConsoleInitially
<1>2. ConsoleInv /\ [ConsoleNext]_consoleVars => ConsoleInv'
  BY ConsoleStep
<1>3. ConsoleInv => ShowsOneProject
  <2>1. SUFFICES ASSUME ConsoleInv, AtRest PROVE ShowsOneProject
    BY DEF ShowsOneProject, ShowsWhatIsSelected, ReportIsOfTheProject
  <2>2. \A c \in Calls : ~ReadsAt(c) /\ call[c].at \notin {"lists", "aggregate"}
    BY <2>1 DEF AtRest, ReadsAt, ReadCalls
  <2>3. ShowsWhatIsSelected
    BY <2>1, <2>2 DEF ShowsWhatIsSelected, ConsoleInv, SelectionInv, ListInv
  <2>4. ReportIsOfTheProject
    BY <2>1 DEF ReportIsOfTheProject, ConsoleInv, ReportInv
  <2>5. QED
    BY <2>3, <2>4 DEF ShowsOneProject
<1>4. QED
  BY <1>1, <1>2, <1>3, PTL DEF ConsoleSpec

-----------------------------------------------------------------------------
(***************************************************************************)
(* The lab workspaces.                                                     *)
(***************************************************************************)
LabOrNone == WorkspaceLabs \cup {NoLabShown}
Views == [selected: LabOrNone, lab: LabOrNone, version: Versions, loading: BOOLEAN]
Panels == [lab: LabOrNone, busy: BOOLEAN]
OperationPanels == [open: BOOLEAN, lab: LabOrNone, version: Versions]
Renders == [selected: LabOrNone, lab: LabOrNone, open: BOOLEAN]

LEMMA WorkspaceTypes ==
    /\ WorkspaceTypeOK <=>
        /\ explorer \in {"networking", "console"} /\ public \subseteq WorkspaceLabs
        /\ overlay \in [WorkspaceLabs -> Versions] /\ view \in Views /\ panel \in Panels
        /\ operations \in OperationPanels /\ fetches \subseteq Fetch /\ rendered \in Renders
        /\ userActs \in 0..UserBound /\ overlapped \in BOOLEAN /\ fetchFailed \in BOOLEAN
    /\ WorkspaceTypeOK' <=>
        /\ explorer' \in {"networking", "console"} /\ public' \subseteq WorkspaceLabs
        /\ overlay' \in [WorkspaceLabs -> Versions] /\ view' \in Views /\ panel' \in Panels
        /\ operations' \in OperationPanels /\ fetches' \subseteq Fetch /\ rendered' \in Renders
        /\ userActs' \in 0..UserBound /\ overlapped' \in BOOLEAN /\ fetchFailed' \in BOOLEAN
BY DEF WorkspaceTypeOK, Views, Panels, OperationPanels, Renders, LabOrNone

LEMMA FetchFields ==
    ASSUME NEW f \in Fetch
    PROVE  /\ f.lab \in LabOrNone /\ f.ends \in BOOLEAN /\ f.answer \in Answer
           /\ f.answer # Unread => f.answer.version \in Versions
BY DEF Fetch, LabOrNone, Answer

LEMMA BegunFetch ==
    ASSUME NEW l \in LabOrNone, NEW d,
           d \in {"labs", "state", "load", "effect", "scenario", "change", "operations"}
    PROVE  /\ Begun(d, l) \in Fetch /\ Begun(d, l).does = d /\ Begun(d, l).lab = l
           /\ Begun(d, l).answer = Unread /\ ~Begun(d, l).ends
<1>1. Unread \in Answer
  BY DEF Answer
<1>2. QED
  BY <1>1 DEF Begun, Fetch, LabOrNone

LEMMA WaitingEnds ==
    ASSUME panel \in Panels, NEW f \in Fetch
    PROVE  /\ PanelAfter(f) \in Panels /\ PanelAfter(f).lab = panel.lab
           /\ PanelAfter(f).busy <=> panel.busy /\ ~f.ends
BY DEF PanelAfter, Panels, Fetch

\* What a fetch may be: which ones the panel waits for, which explorer makes
\* it, and that the networking explorer lists its labs once, before it selects.
FetchKind(f) ==
    /\ f.ends => f.does \in {"labs", "state", "load", "change"}
    /\ explorer = "networking" => f.does \notin {"state", "effect"}
    /\ explorer = "networking" /\ f.does = "labs" =>
          /\ ~f.ends /\ f.lab = NoLabShown
          /\ view.selected = NoLabShown /\ rendered.selected = NoLabShown
    /\ f.does = "labs" => f.answer = Unread
FetchKinds == \A f \in fetches : FetchKind(f)

\* An effect is about to fetch.
Starts ==
    IF explorer = "networking" THEN view.selected \notin {rendered.selected, NoLabShown}
    ELSE Moved /\ view.selected \notin {NoLabShown, view.lab}

\* Something that will end the explorer's loading is in flight or about to be.
Coming ==
    \/ \E f \in fetches : f.does \in {"labs", "state", "load"}
    \/ ~Moved /\ \E f \in fetches : f.does = "effect"
    \/ Starts

WaitingInv ==
    /\ panel.busy => \E f \in fetches : f.ends
    /\ view.loading => Coming \/ (explorer = "console" /\ overlapped)

\* While the user waits, a list or a scenario operation is alone in flight and
\* of the lab shown, and every other answer is of the selected lab and reads
\* the overlay as it is.
FetchFits(f) ==
    /\ f.does \in {"change", "labs"} =>
          ~Moved /\ f.lab = view.lab /\ view.lab = view.selected /\ InFlight = {f}
    /\ f.does \in {"state", "load", "effect"} =>
          f.lab = view.selected /\ (f.answer # Unread => f.answer.version = overlay[f.lab])
    /\ f.does = "scenario" => f.lab = view.lab /\ view.lab = view.selected

PanelFits ==
    \/ view.lab \in {NoLabShown, panel.lab} \/ view.lab # rendered.lab
    \/ view.lab # view.selected
    \/ \E f \in fetches : f.does = "scenario"

VersionFits ==
    view.lab \in WorkspaceLabs /\ view.lab = view.selected =>
      \/ view.version = overlay[view.lab]
      \/ \E f \in fetches :
            f.does \in {"labs", "state", "load"} \/ (f.does = "change" /\ f.answer # Unread)

LabInv ==
    Undisturbed =>
      /\ \A f \in fetches : FetchFits(f)
      /\ view.lab = view.selected \/ Coming
      /\ view.lab \in {rendered.lab, NoLabShown, view.selected}
      /\ PanelFits /\ VersionFits

WorkspaceInv == WorkspaceTypeOK /\ FetchKinds /\ WaitingInv /\ LabInv

LEMMA SettledFields ==
    ASSUME Settled
    PROVE  /\ rendered.selected = view.selected /\ rendered.lab = view.lab
           /\ ~Moved /\ ~Starts
<1>1. rendered.selected = view.selected /\ rendered.lab = view.lab
  BY DEF Settled
<1>2. QED
  BY <1>1 DEF Moved, Starts

-----------------------------------------------------------------------------
LEMMA WorkspaceInitially == WorkspaceInit => WorkspaceInv
<1> SUFFICES ASSUME WorkspaceInit PROVE WorkspaceInv
  OBVIOUS
<1> DEFINE g == Begun("labs", NoLabShown)
<1>1. /\ g \in Fetch /\ g.does = "labs" /\ g.lab = NoLabShown /\ g.answer = Unread /\ ~g.ends
  BY BegunFetch DEF LabOrNone
<1>2. 0 \in Versions /\ 0 \in 0..UserBound
  BY WorkspaceAssumption DEF Versions
<1>3. fetches = {g}
  BY DEF WorkspaceInit
<1> HIDE DEF g
<1>4. WorkspaceTypeOK
  BY <1>1, <1>2, <1>3 DEF WorkspaceInit, WorkspaceTypeOK, NoPanel, NoOperations
<1>5. /\ view.selected = NoLabShown /\ view.lab = NoLabShown /\ rendered.selected = NoLabShown
      /\ rendered.lab = NoLabShown /\ ~panel.busy
  BY DEF WorkspaceInit, NoPanel
<1>6. FetchKinds
  BY <1>1, <1>3, <1>5 DEF FetchKinds, FetchKind
<1>7. Coming /\ ~Moved
  BY <1>1, <1>3, <1>5 DEF Coming, Moved
<1>8. InFlight = {g}
  BY <1>1, <1>3 DEF InFlight
<1>9. LabInv
  BY <1>1, <1>3, <1>5, <1>7, <1>8, WorkspaceAssumption
     DEF LabInv, FetchFits, PanelFits, VersionFits
<1>10. QED
  BY <1>4, <1>5, <1>6, <1>7, <1>9 DEF WorkspaceInv, WaitingInv

-----------------------------------------------------------------------------
LEMMA RenderEffect ==
    ASSUME WorkspaceInv, Render
    PROVE  /\ WorkspaceTypeOK'
           /\ view'.selected = view.selected /\ view'.lab = view.lab
           /\ view'.version = view.version
           /\ view'.loading => view.loading \/ \E f \in Effects : f.does \in {"load", "effect"}
           /\ panel'.busy => panel.busy
           /\ view.lab = NoLabShown \/ panel'.lab = panel.lab
           /\ rendered'.selected = view.selected /\ rendered'.lab = view.lab /\ ~Moved'
           /\ UNCHANGED <<explorer, public, overlay, userActs, overlapped, fetchFailed>>
           /\ \A f \in Effects :
                 /\ f \in Fetch /\ f.answer = Unread /\ ~f.ends
                 /\ \/ /\ f.does = "load" /\ explorer = "networking" /\ f.lab = view.selected
                       /\ Moved
                    \/ /\ f.does = "effect" /\ explorer = "console" /\ f.lab = view.selected
                       /\ Moved
                    \/ /\ f.does = "scenario" /\ f.lab = view.lab /\ view.lab # NoLabShown
                       /\ view.lab # rendered.lab /\ Moved
                    \/ f.does = "operations"
           /\ \A f \in Cancelled : /\ f.does \in {"effect", "operations", "scenario"}
                                   /\ f.does = "effect" => Moved
                                   /\ f.does = "scenario" => view.lab = NoLabShown
           /\ Starts => \E f \in Effects : f.does = IF explorer = "networking" THEN "load"
                                                    ELSE "effect"
           /\ view.lab \notin {rendered.lab, NoLabShown} =>
                 \E f \in Effects : f.does = "scenario"
<1>0. WorkspaceTypeOK
  BY DEF WorkspaceInv
<1>1. /\ view \in Views /\ view.selected \in LabOrNone /\ view.lab \in LabOrNone
      /\ explorer \in {"networking", "console"}
  BY <1>0, WorkspaceTypes DEF Views
<1>2. \A f \in Effects :
         \/ /\ explorer = "networking" /\ f = Begun("load", view.selected)
            /\ view.selected \notin {rendered.selected, NoLabShown}
         \/ /\ explorer = "console" /\ f = Begun("effect", view.selected) /\ Moved
         \/ /\ f = Begun("scenario", view.lab) /\ view.lab \notin {rendered.lab, NoLabShown}
         \/ f = Begun("operations", view.lab)
  BY <1>1 DEF Effects
<1>3. \A f \in Effects :
                 /\ f \in Fetch /\ f.answer = Unread /\ ~f.ends
                 /\ \/ /\ f.does = "load" /\ explorer = "networking" /\ f.lab = view.selected
                       /\ Moved
                    \/ /\ f.does = "effect" /\ explorer = "console" /\ f.lab = view.selected
                       /\ Moved
                    \/ /\ f.does = "scenario" /\ f.lab = view.lab /\ view.lab # NoLabShown
                       /\ view.lab # rendered.lab /\ Moved
                    \/ f.does = "operations"
  <2> TAKE f \in Effects
  <2>1. CASE /\ explorer = "networking" /\ f = Begun("load", view.selected)
             /\ view.selected \notin {rendered.selected, NoLabShown}
    BY <1>1, <2>1, BegunFetch DEF Moved
  <2>2. CASE explorer = "console" /\ f = Begun("effect", view.selected) /\ Moved
    BY <1>1, <2>2, BegunFetch
  <2>3. CASE f = Begun("scenario", view.lab) /\ view.lab \notin {rendered.lab, NoLabShown}
    BY <1>1, <2>3, BegunFetch DEF Moved
  <2>4. CASE f = Begun("operations", view.lab)
    BY <1>1, <2>4, BegunFetch
  <2>5. QED
    BY <1>2, <2>1, <2>2, <2>3, <2>4
<1>4. \A f \in Cancelled : /\ f.does \in {"effect", "operations", "scenario"}
                           /\ f.does = "effect" => Moved
                           /\ f.does = "scenario" => view.lab = NoLabShown
  BY DEF Cancelled
<1>5. Starts => \E f \in Effects : f.does = IF explorer = "networking" THEN "load" ELSE "effect"
  <2> SUFFICES ASSUME Starts
               PROVE  \E f \in Effects : f.does = IF explorer = "networking" THEN "load"
                                                  ELSE "effect"
    OBVIOUS
  <2>1. CASE explorer = "networking"
    <3>1. Begun("load", view.selected) \in Effects
      BY <1>1, <2>1 DEF Starts, Effects
    <3>2. QED
      BY <1>1, <2>1, <3>1, BegunFetch
  <2>2. CASE explorer # "networking"
    <3>1. Begun("effect", view.selected) \in Effects
      BY <1>1, <2>2 DEF Starts, Effects
    <3>2. QED
      BY <1>1, <2>2, <3>1, BegunFetch
  <2>3. QED
    BY <2>1, <2>2
<1>6. view.lab \notin {rendered.lab, NoLabShown} => \E f \in Effects : f.does = "scenario"
  <2>1. view.lab \notin {rendered.lab, NoLabShown} => Begun("scenario", view.lab) \in Effects
    BY DEF Effects
  <2>2. QED
    BY <1>1, <2>1, BegunFetch
<1>7. /\ view' \in Views /\ view'.selected = view.selected /\ view'.lab = view.lab
      /\ view'.version = view.version
      /\ view'.loading => view.loading \/ \E f \in Effects : f.does \in {"load", "effect"}
  BY <1>1 DEF Render, Views
<1>8. panel' \in Panels /\ (panel'.busy => panel.busy)
      /\ (view.lab = NoLabShown \/ panel'.lab = panel.lab)
  BY <1>0, WorkspaceTypes DEF Render, NoPanel, Panels, LabOrNone
<1>9. operations' \in OperationPanels
  BY <1>0, WorkspaceTypes, WorkspaceAssumption
     DEF Render, NoOperations, OperationPanels, LabOrNone, Versions
<1>10. /\ rendered' \in Renders
       /\ rendered'.selected = view.selected /\ rendered'.lab = view.lab
  <2>1. rendered' = [selected |-> view.selected, lab |-> view.lab, open |-> operations'.open]
    BY DEF Render
  <2>2. operations'.open \in BOOLEAN
    BY <1>9 DEF OperationPanels
  <2>3. QED
    BY <1>1, <2>1, <2>2 DEF Renders
<1>11. fetches' \subseteq Fetch
  BY <1>0, <1>3, WorkspaceTypes DEF Render
<1>12. ~Moved'
  BY <1>7, <1>10 DEF Moved
<1>13. UNCHANGED <<explorer, public, overlay, userActs, overlapped, fetchFailed>>
  BY DEF Render
<1>14. WorkspaceTypeOK'
  BY <1>0, <1>7, <1>8, <1>9, <1>10, <1>11, <1>13, WorkspaceTypes
<1>15. QED
  BY <1>3, <1>4, <1>5, <1>6, <1>7, <1>8, <1>10, <1>12, <1>13, <1>14

LEMMA RenderKeeps ==
    ASSUME WorkspaceInv, Render
    PROVE  WorkspaceInv'
<1>1. fetches' = (fetches \ Cancelled) \cup Effects
  BY DEF Render
<1>2. FetchKinds'
  <2>1. \A f \in fetches' : FetchKind(f)'
    <3> SUFFICES ASSUME NEW f \in fetches' PROVE FetchKind(f)'
      OBVIOUS
    <3>1. CASE f \in Effects
      BY <3>1, RenderEffect DEF FetchKind
    <3>2. CASE f \in fetches
      BY <3>2, RenderEffect DEF WorkspaceInv, FetchKinds, FetchKind
    <3>3. QED
      BY <1>1, <3>1, <3>2
  <2>2. QED
    BY <2>1 DEF FetchKinds
<1>3. Coming => Coming'
  <2>1. ASSUME NEW f \in fetches, f.does \in {"labs", "state", "load"} PROVE Coming'
    <3>1. f \notin Cancelled
      BY <2>1, RenderEffect
    <3>2. QED
      BY <1>1, <2>1, <3>1 DEF Coming
  <2>2. ASSUME ~Moved, NEW f \in fetches, f.does = "effect" PROVE Coming'
    <3>1. f \notin Cancelled
      BY <2>2, RenderEffect
    <3>2. QED
      BY <1>1, <2>2, <3>1, RenderEffect DEF Coming
  <2>3. ASSUME Starts PROVE Coming'
    BY <1>1, <2>3, RenderEffect DEF Coming
  <2>4. QED
    BY <2>1, <2>2, <2>3 DEF Coming
<1>4. WaitingInv'
  <2>1. panel'.busy => \E f \in fetches' : f.ends
    <3> SUFFICES ASSUME panel'.busy PROVE \E f \in fetches' : f.ends
      OBVIOUS
    <3>1. PICK f \in fetches : f.ends
      BY RenderEffect DEF WorkspaceInv, WaitingInv
    <3>2. f.does \in {"labs", "state", "load", "change"}
      BY <3>1 DEF WorkspaceInv, FetchKinds, FetchKind
    <3>3. f \notin Cancelled
      BY <3>2, RenderEffect
    <3>4. QED
      BY <1>1, <3>1, <3>3
  <2>2. view'.loading => Coming' \/ (explorer' = "console" /\ overlapped')
    <3>1. ASSUME NEW f \in Effects, f.does \in {"load", "effect"} PROVE Coming'
      BY <1>1, <3>1, RenderEffect DEF Coming
    <3>2. QED
      BY <1>3, <3>1, RenderEffect DEF WorkspaceInv, WaitingInv
  <2>3. QED
    BY <2>1, <2>2 DEF WaitingInv
<1>5. LabInv'
  <2> SUFFICES ASSUME Undisturbed'
               PROVE  /\ \A f \in fetches' : FetchFits(f)'
                      /\ view'.lab = view'.selected \/ Coming'
                      /\ view'.lab \in {rendered'.lab, NoLabShown, view'.selected}
                      /\ PanelFits' /\ VersionFits'
    BY DEF LabInv
  <2>1. Undisturbed
    BY RenderEffect DEF Undisturbed
  <2>2. /\ \A f \in fetches : FetchFits(f)
        /\ view.lab = view.selected \/ Coming
        /\ view.lab \in {rendered.lab, NoLabShown, view.selected}
        /\ PanelFits /\ VersionFits
    BY <2>1 DEF WorkspaceInv, LabInv
  <2>3. ASSUME NEW f \in fetches' PROVE FetchFits(f)'
    <3>1. CASE f \in Effects
      BY <2>2, <3>1, RenderEffect DEF FetchFits
    <3>2. CASE f \in fetches /\ f \notin Cancelled
      <4>1. CASE f.does \in {"change", "labs"}
        <5>1. ~Moved /\ f.lab = view.lab /\ view.lab = view.selected /\ InFlight = {f}
          BY <2>2, <3>2, <4>1 DEF FetchFits
        <5>2. \A g \in Effects : g.does = "operations"
          BY <5>1, RenderEffect
        <5>3. InFlight' = {f}
          BY <1>1, <3>2, <4>1, <5>1, <5>2 DEF InFlight
        <5>4. QED
          BY <4>1, <5>1, <5>3, RenderEffect DEF FetchFits
      <4>2. CASE f.does \notin {"change", "labs"}
        BY <2>2, <3>2, <4>2, RenderEffect DEF FetchFits
      <4>3. QED
        BY <4>1, <4>2
    <3>3. QED
      BY <1>1, <3>1, <3>2
  <2>4. view'.lab = view'.selected \/ Coming'
    BY <1>3, <2>2, RenderEffect
  <2>5. view'.lab \in {rendered'.lab, NoLabShown, view'.selected}
    BY RenderEffect
  <2>6. PanelFits'
    <3>1. CASE view.lab \in {NoLabShown, panel.lab} \/ view.lab # view.selected
      BY <3>1, RenderEffect DEF PanelFits
    <3>2. CASE view.lab # rendered.lab /\ view.lab # NoLabShown
      BY <1>1, <3>2, RenderEffect DEF PanelFits
    <3>3. ASSUME NEW f \in fetches, f.does = "scenario", view.lab # NoLabShown
          PROVE  PanelFits'
      <4>1. f \notin Cancelled
        BY <3>3, RenderEffect
      <4>2. QED
        BY <1>1, <3>3, <4>1 DEF PanelFits
    <3>4. QED
      BY <2>2, <3>1, <3>2, <3>3 DEF PanelFits
  <2>7. VersionFits'
    <3>1. ASSUME NEW f \in fetches,
                 f.does \in {"labs", "state", "load"} \/ (f.does = "change" /\ f.answer # Unread)
          PROVE  f \in fetches'
      <4>1. f \notin Cancelled
        BY <3>1, RenderEffect
      <4>2. QED
        BY <1>1, <4>1
    <3>2. QED
      BY <2>2, <3>1, RenderEffect DEF VersionFits
  <2>8. QED
    BY <2>3, <2>4, <2>5, <2>6, <2>7
<1>6. QED
  BY <1>2, <1>4, <1>5, RenderEffect DEF WorkspaceInv

-----------------------------------------------------------------------------
\* The steps of the user.
LEMMA SelectKeeps ==
    ASSUME WorkspaceInv, NEW l \in WorkspaceLabs, SelectLab(l)
    PROVE  WorkspaceInv'
<1>1. /\ WorkspaceTypeOK /\ FetchKinds /\ WaitingInv /\ LabInv
      /\ l # NoLabShown /\ l # view.selected /\ view.selected # NoLabShown
      /\ UNCHANGED <<explorer, public, overlay, panel, operations, fetches, rendered>>
  BY WorkspaceAssumption DEF WorkspaceInv, SelectLab
<1>2. /\ rendered.selected = view.selected /\ rendered.lab = view.lab /\ ~Moved /\ ~Starts
  BY SettledFields DEF SelectLab, Acts
<1>3. /\ view' \in Views /\ view'.selected = l /\ view'.lab = view.lab
      /\ view'.version = view.version /\ view'.loading = view.loading
  BY <1>1, WorkspaceTypes DEF SelectLab, Views, LabOrNone
<1>4. /\ overlapped' = (InFlight # {} \/ (overlapped /\ l = view.lab))
      /\ fetchFailed' = (fetchFailed /\ l = view.lab)
      /\ userActs < UserBound /\ userActs' = userActs + 1
  BY DEF SelectLab, Acts
<1>5. userActs' \in 0..UserBound
  BY <1>1, <1>4, WorkspaceTypes, WorkspaceAssumption
<1>6. WorkspaceTypeOK'
  BY <1>1, <1>3, <1>4, <1>5, WorkspaceTypes
<1>7. FetchKinds'
  BY <1>1 DEF FetchKinds, FetchKind
<1>8. InFlight' = InFlight
  BY <1>1 DEF InFlight
<1>9. l # view.lab \/ explorer = "networking" => Starts' /\ Coming'
  BY <1>1, <1>2, <1>3 DEF Starts, Moved, Coming
<1>10. WaitingInv'
  <2>1. panel'.busy => \E f \in fetches' : f.ends
    BY <1>1 DEF WaitingInv
  <2>2. ASSUME NEW f \in fetches, f.does \in {"labs", "state", "load"} PROVE Coming'
    BY <1>1, <2>2 DEF Coming
  <2>3. ASSUME NEW f \in fetches, f.does = "effect"
        PROVE  explorer' = "console" /\ overlapped'
    <3>1. f \in InFlight
      BY <2>3 DEF InFlight
    <3>2. explorer = "console"
      BY <1>1, <2>3, WorkspaceTypes DEF FetchKinds, FetchKind
    <3>3. QED
      BY <1>1, <1>4, <3>1, <3>2
  <2>4. ASSUME explorer = "console", overlapped
        PROVE  Coming' \/ (explorer' = "console" /\ overlapped')
    BY <1>1, <1>4, <1>9, <2>4
  <2>5. view.loading => Coming' \/ (explorer' = "console" /\ overlapped')
    BY <1>1, <1>2, <2>2, <2>3, <2>4 DEF WaitingInv, Coming
  <2>6. QED
    BY <1>3, <2>1, <2>5 DEF WaitingInv
<1>11. LabInv'
  <2> SUFFICES ASSUME Undisturbed'
               PROVE  /\ \A f \in fetches' : FetchFits(f)'
                      /\ view'.lab = view'.selected \/ Coming'
                      /\ view'.lab \in {rendered'.lab, NoLabShown, view'.selected}
                      /\ PanelFits' /\ VersionFits'
    BY DEF LabInv
  <2>1. InFlight = {}
    BY <1>4 DEF Undisturbed
  <2>2. \A f \in fetches : f.does = "operations"
    BY <2>1 DEF InFlight
  <2>3. l # view.lab
    <3> SUFFICES ASSUME l = view.lab PROVE FALSE
      OBVIOUS
    <3>1. Undisturbed
      BY <1>4 DEF Undisturbed
    <3>2. Coming
      BY <1>1, <3>1 DEF LabInv
    <3>3. QED
      BY <1>2, <2>2, <3>2 DEF Coming
  <2>4. \A f \in fetches' : FetchFits(f)'
    BY <1>1, <2>2 DEF FetchFits
  <2>5. PanelFits' /\ VersionFits'
    BY <1>3, <2>3 DEF PanelFits, VersionFits
  <2>6. QED
    BY <1>1, <1>2, <1>3, <1>9, <2>3, <2>4, <2>5
<1>12. QED
  BY <1>6, <1>7, <1>10, <1>11 DEF WorkspaceInv

\* What the user finds when nothing is in flight.
LEMMA NothingInFlight ==
    ASSUME WorkspaceInv, Settled, Undisturbed, InFlight = {}
    PROVE  /\ \A f \in fetches : f.does = "operations"
           /\ view.lab = view.selected
           /\ view.lab \in WorkspaceLabs => view.version = overlay[view.lab]
<1>1. \A f \in fetches : f.does = "operations"
  BY DEF InFlight
<1>2. ~Coming
  BY <1>1, SettledFields DEF Coming
<1>3. view.lab = view.selected /\ VersionFits
  BY <1>2 DEF WorkspaceInv, LabInv
<1>4. QED
  BY <1>1, <1>3 DEF VersionFits

LEMMA ReloadKeeps ==
    ASSUME WorkspaceInv, ReloadWorkspace
    PROVE  WorkspaceInv'
<1> DEFINE d == IF explorer = "console" THEN "labs" ELSE "load"
<1> DEFINE g == Begun(d, view.selected)
<1>1. /\ WorkspaceTypeOK /\ FetchKinds /\ WaitingInv /\ LabInv /\ Settled
      /\ UNCHANGED <<explorer, public, overlay, panel, operations, rendered, fetchFailed>>
      /\ fetches' = fetches \cup {g} /\ overlapped' = (overlapped \/ InFlight # {})
      /\ userActs < UserBound /\ userActs' = userActs + 1
  BY DEF WorkspaceInv, ReloadWorkspace, Acts
<1>2. /\ view \in Views /\ view.selected \in LabOrNone
      /\ explorer \in {"networking", "console"}
  BY <1>1, WorkspaceTypes DEF Views
<1>3. /\ g \in Fetch /\ g.does = d /\ g.lab = view.selected /\ g.answer = Unread /\ ~g.ends
  BY <1>2, BegunFetch
<1> HIDE DEF g
<1>4. /\ view' \in Views /\ view'.selected = view.selected /\ view'.lab = view.lab
      /\ view'.version = view.version
  BY <1>2 DEF ReloadWorkspace, Views
<1>5. userActs' \in 0..UserBound
  BY <1>1, WorkspaceTypes, WorkspaceAssumption
<1>6. WorkspaceTypeOK'
  BY <1>1, <1>3, <1>4, <1>5, WorkspaceTypes
<1>7. FetchKinds'
  <2>1. explorer = "networking" => g.does = "load"
    BY <1>3
  <2>2. QED
    BY <1>1, <1>3, <1>4, <2>1 DEF FetchKinds, FetchKind
<1>8. Coming'
  BY <1>1, <1>3 DEF Coming
<1>9. WaitingInv'
  BY <1>1, <1>8 DEF WaitingInv
<1>10. LabInv'
  <2> SUFFICES ASSUME Undisturbed'
               PROVE  /\ \A f \in fetches' : FetchFits(f)'
                      /\ view'.lab = view'.selected \/ Coming'
                      /\ view'.lab \in {rendered'.lab, NoLabShown, view'.selected}
                      /\ PanelFits' /\ VersionFits'
    BY DEF LabInv
  <2>1. Undisturbed /\ InFlight = {}
    BY <1>1 DEF Undisturbed
  <2>2. /\ \A f \in fetches : f.does = "operations"
        /\ view.lab = view.selected
    BY <1>1, <2>1, NothingInFlight
  <2>3. ~Moved'
    BY <1>1, <1>4, SettledFields DEF Moved
  <2>4. InFlight' = {g}
    BY <1>1, <1>3, <2>2 DEF InFlight
  <2>5. \A f \in fetches' : FetchFits(f)'
    BY <1>1, <1>3, <1>4, <2>2, <2>3, <2>4 DEF FetchFits
  <2>6. PanelFits'
    BY <1>1, <1>4, <2>1 DEF LabInv, PanelFits
  <2>7. VersionFits'
    BY <1>1, <1>3 DEF VersionFits
  <2>8. QED
    BY <1>4, <1>8, <2>2, <2>5, <2>6, <2>7
<1>11. QED
  BY <1>6, <1>7, <1>9, <1>10 DEF WorkspaceInv

LEMMA ButtonKeeps ==
    ASSUME WorkspaceInv, ScenarioButton
    PROVE  WorkspaceInv'
<1> DEFINE g == [Begun("change", view.lab) EXCEPT !.ends = TRUE]
<1>1. /\ WorkspaceTypeOK /\ FetchKinds /\ WaitingInv /\ LabInv /\ Settled
      /\ UNCHANGED <<explorer, public, overlay, view, operations, rendered, fetchFailed>>
      /\ fetches' = fetches \cup {g} /\ overlapped' = (overlapped \/ InFlight # {})
      /\ userActs < UserBound /\ userActs' = userActs + 1
  BY DEF WorkspaceInv, ScenarioButton, Acts
<1>2. view \in Views /\ view.lab \in LabOrNone
  BY <1>1, WorkspaceTypes DEF Views
<1>3. /\ g \in Fetch /\ g.does = "change" /\ g.lab = view.lab /\ g.answer = Unread /\ g.ends
  <2>1. Unread \in Answer
    BY DEF Answer
  <2>2. QED
    BY <1>2, <2>1 DEF Begun, Fetch, LabOrNone
<1> HIDE DEF g
<1>4. panel' \in Panels /\ panel'.lab = panel.lab
  BY <1>1, WorkspaceTypes DEF ScenarioButton, Panels
<1>5. userActs' \in 0..UserBound
  BY <1>1, WorkspaceTypes, WorkspaceAssumption
<1>6. WorkspaceTypeOK'
  BY <1>1, <1>3, <1>4, <1>5, WorkspaceTypes
<1>7. FetchKinds'
  BY <1>1, <1>3 DEF FetchKinds, FetchKind
<1>8. Coming => Coming'
  BY <1>1 DEF Coming, Moved, Starts
<1>9. WaitingInv'
  BY <1>1, <1>3, <1>8 DEF WaitingInv
<1>10. LabInv'
  <2> SUFFICES ASSUME Undisturbed'
               PROVE  /\ \A f \in fetches' : FetchFits(f)'
                      /\ view'.lab = view'.selected \/ Coming'
                      /\ view'.lab \in {rendered'.lab, NoLabShown, view'.selected}
                      /\ PanelFits' /\ VersionFits'
    BY DEF LabInv
  <2>1. Undisturbed /\ InFlight = {}
    BY <1>1 DEF Undisturbed
  <2>2. /\ \A f \in fetches : f.does = "operations"
        /\ view.lab = view.selected
        /\ view.lab \in WorkspaceLabs => view.version = overlay[view.lab]
    BY <1>1, <2>1, NothingInFlight
  <2>3. ~Moved'
    BY <1>1, SettledFields DEF Moved
  <2>4. InFlight' = {g}
    BY <1>1, <1>3, <2>2 DEF InFlight
  <2>5. \A f \in fetches' : FetchFits(f)'
    BY <1>1, <1>3, <2>2, <2>3, <2>4 DEF FetchFits
  <2>6. PanelFits'
    BY <1>1, <1>4, <2>1 DEF LabInv, PanelFits
  <2>7. VersionFits'
    BY <1>1, <2>2 DEF VersionFits
  <2>8. QED
    BY <1>1, <2>2, <2>5, <2>6, <2>7
<1>11. QED
  BY <1>6, <1>7, <1>9, <1>10 DEF WorkspaceInv

\* What neither the explorer's view nor a fetch, the panel or the overlay has
\* part in.
LEMMA NothingSeen ==
    ASSUME WorkspaceInv, WorkspaceTypeOK',
           UNCHANGED <<explorer, overlay, view, panel, fetches, rendered, overlapped, fetchFailed>>
    PROVE  WorkspaceInv'
<1>1. FetchKinds'
  BY DEF WorkspaceInv, FetchKinds, FetchKind
<1>2. Coming' = Coming /\ InFlight' = InFlight /\ Moved' = Moved
  BY DEF Coming, Moved, Starts, InFlight
<1>3. WaitingInv'
  BY <1>2 DEF WorkspaceInv, WaitingInv
<1>4. LabInv'
  BY <1>2 DEF WorkspaceInv, LabInv, FetchFits, PanelFits, VersionFits, Undisturbed
<1>5. QED
  BY <1>1, <1>3, <1>4 DEF WorkspaceInv

LEMMA ToggleKeeps ==
    ASSUME WorkspaceInv, ToggleOperations
    PROVE  WorkspaceInv'
<1>1. WorkspaceTypeOK
  BY DEF WorkspaceInv
<1>2. operations' \in OperationPanels
  BY <1>1, WorkspaceTypes DEF ToggleOperations, OperationPanels
<1>3. userActs' \in 0..UserBound
  BY <1>1, WorkspaceTypes, WorkspaceAssumption DEF ToggleOperations, Acts
<1>4. UNCHANGED <<explorer, public, overlay, view, panel, fetches, rendered, overlapped,
                  fetchFailed>>
  BY DEF ToggleOperations
<1>5. WorkspaceTypeOK'
  BY <1>1, <1>2, <1>3, <1>4, WorkspaceTypes
<1>6. QED
  BY <1>4, <1>5, NothingSeen

-----------------------------------------------------------------------------
\* The steps of the server.
LEMMA WithdrawKeeps ==
    ASSUME WorkspaceInv, NEW l \in WorkspaceLabs, WithdrawLab(l)
    PROVE  WorkspaceInv'
<1>1. WorkspaceTypeOK'
  BY WorkspaceTypes DEF WithdrawLab, WorkspaceInv
<1>2. QED
  BY <1>1, NothingSeen DEF WithdrawLab

LEMMA TerminalKeeps ==
    ASSUME WorkspaceInv, NEW l \in WorkspaceLabs, ScenarioInTerminal(l)
    PROVE  WorkspaceInv'
<1>1. /\ WorkspaceTypeOK /\ FetchKinds /\ WaitingInv
      /\ UNCHANGED <<explorer, public, view, panel, operations, fetches, rendered, fetchFailed>>
      /\ overlapped' = TRUE /\ overlay[l] < ChangeBound
      /\ overlay' = [overlay EXCEPT ![l] = @ + 1]
      /\ userActs < UserBound /\ userActs' = userActs + 1
  BY DEF ScenarioInTerminal, WorkspaceInv, Acts
<1>2. overlay' \in [WorkspaceLabs -> Versions]
  <2>1. overlay \in [WorkspaceLabs -> Versions]
    BY <1>1, WorkspaceTypes
  <2>2. overlay[l] + 1 \in Versions
    BY <1>1, <2>1, WorkspaceAssumption DEF Versions
  <2>3. QED
    BY <1>1, <2>1, <2>2
<1>3. userActs' \in 0..UserBound
  BY <1>1, WorkspaceTypes, WorkspaceAssumption
<1>4. WorkspaceTypeOK'
  BY <1>1, <1>2, <1>3, WorkspaceTypes
<1>5. FetchKinds' /\ Coming' = Coming
  BY <1>1 DEF FetchKinds, FetchKind, Coming, Moved, Starts
<1>6. WaitingInv'
  BY <1>1, <1>5 DEF WaitingInv
<1>7. LabInv'
  BY <1>1 DEF LabInv, Undisturbed
<1>8. QED
  BY <1>4, <1>5, <1>6, <1>7 DEF WorkspaceInv

LEMMA ServeKeeps ==
    ASSUME WorkspaceInv, NEW f \in fetches, Serve(f)
    PROVE  WorkspaceInv'
<1> DEFINE g == [f EXCEPT !.answer = [read |-> TRUE, version |-> overlay'[f.lab]]]
<1>1. /\ WorkspaceTypeOK /\ FetchKinds /\ WaitingInv /\ LabInv
      /\ f.answer = Unread /\ f.does # "labs" /\ f.lab \in WorkspaceLabs
      /\ f.does = "change" => overlay[f.lab] < ChangeBound
      /\ overlay' = IF f.does = "change" THEN [overlay EXCEPT ![f.lab] = @ + 1] ELSE overlay
      /\ fetches' = (fetches \ {f}) \cup {g}
      /\ UNCHANGED <<explorer, public, view, panel, operations, rendered, overlapped,
                     fetchFailed, userActs>>
  <2>1. WorkspaceTypeOK
    BY DEF WorkspaceInv
  <2>2. public \subseteq WorkspaceLabs
    BY <2>1, WorkspaceTypes
  <2>3. QED
    BY <2>2 DEF Serve, WorkspaceInv
<1>2. overlay' \in [WorkspaceLabs -> Versions]
  <2>1. overlay \in [WorkspaceLabs -> Versions]
    BY <1>1, WorkspaceTypes
  <2>2. f.does = "change" => overlay[f.lab] + 1 \in Versions
    BY <1>1, <2>1, WorkspaceAssumption DEF Versions
  <2>3. QED
    BY <1>1, <2>1, <2>2
<1>3. /\ g \in Fetch /\ g.does = f.does /\ g.lab = f.lab /\ g.ends = f.ends
      /\ g.answer # Unread /\ g.answer.version = overlay'[f.lab]
  <2>1. f \in Fetch
    BY <1>1, WorkspaceTypes
  <2> DEFINE a == [read |-> TRUE, version |-> overlay'[f.lab]]
  <2>2. a \in Answer /\ a # Unread /\ a.version = overlay'[f.lab]
    <3>1. overlay'[f.lab] \in Versions
      BY <1>1, <1>2
    <3>2. a.read = TRUE /\ Unread.read = FALSE
      BY DEF Unread
    <3>3. a # Unread
      BY <3>2
    <3>4. QED
      BY <3>1, <3>3 DEF Answer
  <2> HIDE DEF a
  <2>3. g = [f EXCEPT !.answer = a]
    BY DEF a
  <2> HIDE DEF g
  <2>4. QED
    BY <2>1, <2>2, <2>3 DEF Fetch
<1> HIDE DEF g
<1>4. WorkspaceTypeOK'
  BY <1>1, <1>2, <1>3, WorkspaceTypes
<1>5. FetchKinds'
  <2>1. FetchKind(f)
    BY <1>1 DEF FetchKinds
  <2>2. QED
    BY <1>1, <1>3, <2>1 DEF FetchKinds, FetchKind
<1>6. Coming => Coming'
  BY <1>1, <1>3 DEF Coming, Moved, Starts
<1>7. WaitingInv'
  <2>1. panel'.busy => \E h \in fetches' : h.ends
    BY <1>1, <1>3 DEF WaitingInv
  <2>2. QED
    BY <1>1, <1>6, <2>1 DEF WaitingInv
<1>8. LabInv'
  <2> SUFFICES ASSUME Undisturbed'
               PROVE  /\ \A h \in fetches' : FetchFits(h)'
                      /\ view'.lab = view'.selected \/ Coming'
                      /\ view'.lab \in {rendered'.lab, NoLabShown, view'.selected}
                      /\ PanelFits' /\ VersionFits'
    BY DEF LabInv
  <2>1. /\ \A h \in fetches : FetchFits(h)
        /\ view.lab = view.selected \/ Coming
        /\ view.lab \in {rendered.lab, NoLabShown, view.selected}
        /\ PanelFits /\ VersionFits
    BY <1>1 DEF LabInv, Undisturbed
  <2>2. Moved' = Moved
    BY <1>1 DEF Moved
  <2>3. f.does = "change" => InFlight = {f}
    BY <2>1 DEF FetchFits
  <2>4. ASSUME NEW h \in fetches' PROVE FetchFits(h)'
    <3>1. CASE h = g
      <4>1. f.does = "change" => InFlight' = {g}
        BY <1>1, <1>3, <2>3 DEF InFlight
      <4>2. FetchFits(f)
        BY <2>1
      <4>3. QED
        BY <1>1, <1>3, <2>2, <3>1, <4>1, <4>2 DEF FetchFits
    <3>2. CASE h \in fetches /\ h # f
      <4>1. FetchFits(h)
        BY <2>1, <3>2
      <4>2. CASE h.does \in {"change", "labs"}
        <5>1. InFlight = {h}
          BY <4>1, <4>2 DEF FetchFits
        <5>2. f.does = "operations"
          BY <3>2, <5>1 DEF InFlight
        <5>3. InFlight' = {h}
          BY <1>1, <1>3, <5>1, <5>2 DEF InFlight
        <5>4. QED
          BY <1>1, <2>2, <4>1, <4>2, <5>3 DEF FetchFits
      <4>3. CASE h.does \in {"state", "load", "effect", "scenario"}
        <5>1. h \in InFlight
          BY <3>2, <4>3 DEF InFlight
        <5>2. overlay' = overlay
          BY <1>1, <2>3, <3>2, <5>1
        <5>3. QED
          BY <1>1, <4>1, <4>3, <5>2 DEF FetchFits
      <4>4. CASE h.does \notin {"change", "labs", "state", "load", "effect", "scenario"}
        BY <4>4 DEF FetchFits
      <4>5. QED
        BY <4>2, <4>3, <4>4
    <3>3. QED
      BY <1>1, <3>1, <3>2
  <2>5. PanelFits'
    <3>1. CASE f.does = "scenario"
      BY <1>1, <1>3, <3>1 DEF PanelFits
    <3>2. CASE f.does # "scenario"
      BY <1>1, <2>1, <3>2 DEF PanelFits
    <3>3. QED
      BY <3>1, <3>2
  <2>6. VersionFits'
    <3>1. CASE f.does \in {"change", "state", "load"}
      BY <1>1, <1>3, <3>1 DEF VersionFits
    <3>2. CASE f.does \notin {"change", "state", "load"}
      <4>1. overlay' = overlay
        BY <1>1, <3>2
      <4>2. QED
        BY <1>1, <2>1, <3>2, <4>1 DEF VersionFits
    <3>3. QED
      BY <3>1, <3>2
  <2>7. QED
    BY <1>1, <1>6, <2>1, <2>4, <2>5, <2>6
<1>9. QED
  BY <1>4, <1>5, <1>7, <1>8 DEF WorkspaceInv

-----------------------------------------------------------------------------
\* The answers.
LEMMA LabsKeeps ==
    ASSUME WorkspaceInv, NEW f \in fetches, LabsAnswered(f)
    PROVE  WorkspaceInv'
<1>1. /\ WorkspaceTypeOK /\ FetchKinds /\ WaitingInv /\ LabInv /\ f.does = "labs"
      /\ rendered.selected = view.selected /\ rendered.lab = view.lab /\ ~Moved
      /\ UNCHANGED <<explorer, public, overlay, operations, rendered, overlapped, fetchFailed,
                     userActs>>
  BY SettledFields DEF WorkspaceInv, LabsAnswered
<1>2. /\ view \in Views /\ panel \in Panels /\ f \in Fetch /\ public \subseteq WorkspaceLabs
      /\ explorer \in {"networking", "console"}
  BY <1>1, WorkspaceTypes
<1>3. /\ FetchKind(f) /\ f.answer = Unread
  BY <1>1 DEF FetchKinds, FetchKind
<1>4. Undisturbed =>
        /\ InFlight = {f} /\ view.lab = view.selected
        /\ \A h \in fetches \ {f} : h.does = "operations"
  BY <1>1 DEF LabInv, FetchFits, InFlight
<1>5. explorer = "networking" =>
        /\ ~f.ends /\ view.selected = NoLabShown
        /\ \A h \in fetches \ {f} : h.does # "labs"
  <2> SUFFICES ASSUME explorer = "networking"
               PROVE  /\ ~f.ends /\ view.selected = NoLabShown
                      /\ \A h \in fetches \ {f} : h.does # "labs"
    OBVIOUS
  <2>1. ASSUME NEW h \in fetches, h.does = "labs" PROVE h = f
    <3>1. FetchKind(h) /\ h \in Fetch
      BY <1>1, WorkspaceTypes DEF FetchKinds
    <3>2. h.lab = NoLabShown /\ ~h.ends /\ h.answer = Unread
      BY <2>1, <3>1 DEF FetchKind
    <3>3. f.lab = NoLabShown /\ ~f.ends /\ f.answer = Unread
      BY <1>1, <1>3 DEF FetchKind
    <3>4. QED
      BY <1>1, <1>2, <2>1, <3>1, <3>2, <3>3 DEF Fetch
  <2>2. QED
    BY <1>1, <1>3, <2>1 DEF FetchKind
<1>6. CASE public = {}
  <2>1. /\ view' \in Views /\ view'.selected = NoLabShown /\ ~view'.loading
        /\ view'.lab = IF explorer = "console" THEN NoLabShown ELSE view.lab
    BY <1>2, <1>6 DEF LabsAnswered, Views, LabOrNone
  <2>2. /\ fetches' = fetches \ {f}
        /\ panel' \in Panels /\ panel'.lab = panel.lab /\ (panel'.busy <=> panel.busy /\ ~f.ends)
    BY <1>2, <1>6, WaitingEnds DEF LabsAnswered
  <2>3. WorkspaceTypeOK'
    BY <1>1, <2>1, <2>2, WorkspaceTypes
  <2>4. FetchKinds'
    BY <1>1, <2>1, <2>2 DEF FetchKinds, FetchKind
  <2>5. WaitingInv'
    BY <1>1, <2>1, <2>2 DEF WaitingInv
  <2>6. LabInv'
    <3> SUFFICES ASSUME Undisturbed'
                 PROVE  /\ \A h \in fetches' : FetchFits(h)'
                        /\ view'.lab = view'.selected \/ Coming'
                        /\ view'.lab \in {rendered'.lab, NoLabShown, view'.selected}
                        /\ PanelFits' /\ VersionFits'
      BY DEF LabInv
    <3>1. view.lab = view.selected /\ \A h \in fetches' : h.does = "operations"
      BY <1>1, <1>4, <2>2 DEF Undisturbed
    <3>2. view'.lab = NoLabShown
      BY <1>2, <1>5, <2>1, <3>1
    <3>3. QED
      BY <2>1, <3>1, <3>2, WorkspaceAssumption DEF FetchFits, PanelFits, VersionFits
  <2>7. QED
    BY <2>3, <2>4, <2>5, <2>6 DEF WorkspaceInv
<1>7. CASE public # {}
  <2> DEFINE next == IF f.lab \in public THEN f.lab ELSE FirstLab(public)
  <2>1. next \in WorkspaceLabs
    BY <1>2, <1>7, WorkspaceAssumption
  <2>2. PICK g : g = [f EXCEPT !.does = "state", !.lab = next]
    OBVIOUS
  <2>3. /\ view' = [view EXCEPT !.selected = next] /\ panel' = panel
        /\ fetches' = (fetches \ {f}) \cup (IF explorer = "console" THEN {g} ELSE {})
    BY <1>7, <2>2 DEF LabsAnswered
  <2> HIDE DEF next
  <2>4. /\ view' \in Views /\ view'.selected = next /\ view'.loading = view.loading
        /\ view'.lab = view.lab /\ view'.version = view.version
    BY <1>2, <2>1, <2>3 DEF Views, LabOrNone
  <2>5. /\ g \in Fetch /\ g.does = "state" /\ g.lab = next /\ g.ends = f.ends
        /\ g.answer = Unread
    BY <1>2, <1>3, <2>1, <2>2 DEF Fetch
  <2>6. WorkspaceTypeOK'
    BY <1>1, <2>3, <2>4, <2>5, WorkspaceTypes
  <2>7. FetchKinds'
    BY <1>1, <1>2, <1>5, <2>3, <2>4, <2>5 DEF FetchKinds, FetchKind
  <2>8. Coming'
    <3>1. CASE explorer = "console"
      BY <2>3, <2>5, <3>1 DEF Coming
    <3>2. CASE explorer = "networking"
      BY <1>1, <1>5, <2>1, <2>4, <3>2, WorkspaceAssumption DEF Coming, Starts
    <3>3. QED
      BY <1>2, <3>1, <3>2
  <2>9. WaitingInv'
    <3>1. panel.busy => \E h \in fetches' : h.ends
      <4>1. CASE explorer = "console"
        BY <1>1, <2>3, <2>5, <4>1 DEF WaitingInv
      <4>2. CASE explorer = "networking"
        BY <1>1, <1>5, <2>3, <4>2 DEF WaitingInv
      <4>3. QED
        BY <1>2, <4>1, <4>2
    <3>2. QED
      BY <2>3, <2>8, <3>1 DEF WaitingInv
  <2>10. LabInv'
    <3> SUFFICES ASSUME Undisturbed'
                 PROVE  /\ \A h \in fetches' : FetchFits(h)'
                        /\ view'.lab = view'.selected \/ Coming'
                        /\ view'.lab \in {rendered'.lab, NoLabShown, view'.selected}
                        /\ PanelFits' /\ VersionFits'
      BY DEF LabInv
    <3>1. /\ Undisturbed /\ InFlight = {f} /\ view.lab = view.selected
          /\ \A h \in fetches \ {f} : h.does = "operations"
      BY <1>1, <1>4 DEF Undisturbed
    <3>2. \A h \in fetches' : FetchFits(h)'
      BY <1>1, <2>3, <2>4, <2>5, <3>1 DEF FetchFits
    <3>3. PanelFits'
      <4>1. view.lab \in {NoLabShown, panel.lab}
        BY <1>1, <3>1 DEF LabInv, PanelFits
      <4>2. QED
        BY <2>3, <2>4, <4>1 DEF PanelFits
    <3>4. VersionFits'
      <4>1. CASE explorer = "console"
        BY <2>3, <2>5, <4>1 DEF VersionFits
      <4>2. CASE explorer = "networking"
        BY <1>5, <2>4, <3>1, <4>2, WorkspaceAssumption DEF VersionFits
      <4>3. QED
        BY <1>2, <4>1, <4>2
    <3>5. QED
      BY <1>1, <2>4, <2>8, <3>2, <3>3, <3>4
  <2>11. QED
    BY <2>6, <2>7, <2>9, <2>10 DEF WorkspaceInv
<1>8. QED
  BY <1>6, <1>7

LEMMA StateKeeps ==
    ASSUME WorkspaceInv, NEW f \in fetches, StateAnswered(f)
    PROVE  WorkspaceInv'
<1>1. /\ WorkspaceTypeOK /\ FetchKinds /\ WaitingInv /\ LabInv
      /\ f.does \in {"state", "load", "effect"} /\ f.answer # Unread
      /\ rendered.selected = view.selected /\ rendered.lab = view.lab /\ ~Moved
      /\ fetches' = fetches \ {f}
      /\ UNCHANGED <<explorer, public, overlay, operations, rendered, overlapped, fetchFailed,
                     userActs>>
  BY SettledFields DEF WorkspaceInv, StateAnswered, Arrived
<1>2. /\ view \in Views /\ panel \in Panels /\ f \in Fetch /\ f.lab \in LabOrNone
      /\ f.answer.version \in Versions
  BY <1>1, WorkspaceTypes, FetchFields
<1>3. /\ view' \in Views /\ view'.selected = view.selected /\ view'.lab = f.lab
      /\ view'.version = f.answer.version /\ ~view'.loading
  BY <1>2 DEF StateAnswered, Show, Views
<1>4. panel' \in Panels /\ panel'.lab = panel.lab /\ (panel'.busy <=> panel.busy /\ ~f.ends)
  BY <1>2, WaitingEnds DEF StateAnswered
<1>5. WorkspaceTypeOK'
  BY <1>1, <1>3, <1>4, WorkspaceTypes
<1>6. FetchKinds'
  BY <1>1, <1>3 DEF FetchKinds, FetchKind
<1>7. WaitingInv'
  BY <1>1, <1>3, <1>4 DEF WaitingInv
<1>8. LabInv'
  <2> SUFFICES ASSUME Undisturbed'
               PROVE  /\ \A h \in fetches' : FetchFits(h)'
                      /\ view'.lab = view'.selected \/ Coming'
                      /\ view'.lab \in {rendered'.lab, NoLabShown, view'.selected}
                      /\ PanelFits' /\ VersionFits'
    BY DEF LabInv
  <2>1. /\ \A h \in fetches : FetchFits(h)
        /\ PanelFits
    BY <1>1 DEF LabInv, Undisturbed
  <2>2. f.lab = view.selected /\ f.answer.version = overlay[f.lab]
    BY <1>1, <2>1 DEF FetchFits
  <2>3. ASSUME NEW h \in fetches' PROVE FetchFits(h)'
    <3>1. FetchFits(h) /\ h # f
      BY <1>1, <2>1, <2>3
    <3>2. h.does \notin {"change", "labs"}
      BY <1>1, <3>1 DEF FetchFits, InFlight
    <3>3. QED
      BY <1>1, <1>3, <2>2, <3>1, <3>2 DEF FetchFits
  <2>4. PanelFits'
    BY <1>1, <1>3, <1>4, <2>1, <2>2 DEF PanelFits
  <2>5. VersionFits'
    BY <1>1, <1>3, <2>2 DEF VersionFits
  <2>6. QED
    BY <1>3, <2>2, <2>3, <2>4, <2>5
<1>9. QED
  BY <1>5, <1>6, <1>7, <1>8 DEF WorkspaceInv

LEMMA ScenarioKeeps ==
    ASSUME WorkspaceInv, NEW f \in fetches, ScenarioAnswered(f)
    PROVE  WorkspaceInv'
<1>1. /\ WorkspaceTypeOK /\ FetchKinds /\ WaitingInv /\ LabInv /\ f.does = "scenario"
      /\ fetches' = fetches \ {f}
      /\ UNCHANGED <<explorer, public, overlay, view, operations, rendered, overlapped,
                     fetchFailed, userActs>>
  BY DEF WorkspaceInv, ScenarioAnswered
<1>2. panel \in Panels /\ f \in Fetch /\ f.lab \in LabOrNone
  BY <1>1, WorkspaceTypes, FetchFields
<1>3. panel' \in Panels /\ panel'.lab = f.lab /\ panel'.busy = panel.busy
  BY <1>2 DEF ScenarioAnswered, Panels
<1>4. WorkspaceTypeOK'
  BY <1>1, <1>3, WorkspaceTypes
<1>5. FetchKinds' /\ ~f.ends
  BY <1>1 DEF FetchKinds, FetchKind
<1>6. Coming => Coming'
  BY <1>1 DEF Coming, Moved, Starts
<1>7. WaitingInv'
  BY <1>1, <1>3, <1>5, <1>6 DEF WaitingInv
<1>8. LabInv'
  <2> SUFFICES ASSUME Undisturbed'
               PROVE  /\ \A h \in fetches' : FetchFits(h)'
                      /\ view'.lab = view'.selected \/ Coming'
                      /\ view'.lab \in {rendered'.lab, NoLabShown, view'.selected}
                      /\ PanelFits' /\ VersionFits'
    BY DEF LabInv
  <2>1. /\ \A h \in fetches : FetchFits(h)
        /\ view.lab = view.selected \/ Coming
        /\ view.lab \in {rendered.lab, NoLabShown, view.selected}
        /\ VersionFits
    BY <1>1 DEF LabInv, Undisturbed
  <2>2. ASSUME NEW h \in fetches' PROVE FetchFits(h)'
    <3>1. FetchFits(h) /\ h # f
      BY <1>1, <2>1, <2>2
    <3>2. h.does \notin {"change", "labs"}
      BY <1>1, <3>1 DEF FetchFits, InFlight
    <3>3. QED
      BY <1>1, <3>1, <3>2 DEF FetchFits
  <2>3. PanelFits'
    BY <1>1, <1>3, <2>1 DEF FetchFits, PanelFits
  <2>4. VersionFits'
    BY <1>1, <2>1 DEF VersionFits
  <2>5. QED
    BY <1>1, <1>6, <2>1, <2>2, <2>3, <2>4
<1>9. QED
  BY <1>4, <1>5, <1>7, <1>8 DEF WorkspaceInv

LEMMA ChangeKeeps ==
    ASSUME WorkspaceInv, NEW f \in fetches, ChangeAnswered(f)
    PROVE  WorkspaceInv'
<1> DEFINE d == IF explorer = "console" THEN "labs" ELSE "load"
<1>1. PICK g : g = [Begun(d, f.lab) EXCEPT !.ends = TRUE]
  OBVIOUS
<1>2. /\ WorkspaceTypeOK /\ FetchKinds /\ WaitingInv /\ LabInv /\ f.does = "change"
      /\ ~Moved /\ rendered.lab = view.lab
      /\ fetches' = (fetches \ {f}) \cup {g}
      /\ UNCHANGED <<explorer, public, overlay, operations, rendered, overlapped, fetchFailed,
                     userActs>>
  BY <1>1, SettledFields DEF WorkspaceInv, ChangeAnswered, Arrived
<1>3. /\ view \in Views /\ panel \in Panels /\ f \in Fetch /\ f.lab \in LabOrNone
      /\ explorer \in {"networking", "console"}
  BY <1>2, WorkspaceTypes, FetchFields
<1>4. /\ g \in Fetch /\ g.does = d /\ g.lab = f.lab /\ g.answer = Unread /\ g.ends
  <2>1. Unread \in Answer
    BY DEF Answer
  <2>2. QED
    BY <1>1, <1>3, <2>1 DEF Begun, Fetch, LabOrNone
<1>5. g.does \in {"labs", "load"} /\ (explorer = "networking" => g.does = "load")
  BY <1>3, <1>4
<1> HIDE DEF d
<1>6. /\ view' \in Views /\ view'.selected = view.selected /\ view'.lab = view.lab
      /\ view'.version = view.version
  BY <1>3 DEF ChangeAnswered, Views
<1>7. /\ panel' \in Panels /\ panel'.busy = panel.busy
      /\ view.lab = NoLabShown \/ panel'.lab = f.lab
  BY <1>3 DEF ChangeAnswered, Panels
<1>8. WorkspaceTypeOK'
  BY <1>2, <1>4, <1>6, <1>7, WorkspaceTypes
<1>9. FetchKinds'
  BY <1>2, <1>4, <1>5, <1>6 DEF FetchKinds, FetchKind
<1>10. Coming'
  BY <1>2, <1>5 DEF Coming
<1>11. WaitingInv'
  BY <1>2, <1>4, <1>10 DEF WaitingInv
<1>12. LabInv'
  <2> SUFFICES ASSUME Undisturbed'
               PROVE  /\ \A h \in fetches' : FetchFits(h)'
                      /\ view'.lab = view'.selected \/ Coming'
                      /\ view'.lab \in {rendered'.lab, NoLabShown, view'.selected}
                      /\ PanelFits' /\ VersionFits'
    BY DEF LabInv
  <2>1. FetchFits(f)
    BY <1>2 DEF LabInv, Undisturbed
  <2>2. /\ f.lab = view.lab /\ view.lab = view.selected /\ InFlight = {f}
        /\ \A h \in fetches \ {f} : h.does = "operations"
    BY <1>2, <2>1 DEF FetchFits, InFlight
  <2>3. InFlight' = {g} /\ ~Moved'
    BY <1>2, <1>5, <1>6, <2>2 DEF InFlight, Moved
  <2>4. \A h \in fetches' : FetchFits(h)'
    BY <1>2, <1>4, <1>5, <1>6, <2>2, <2>3 DEF FetchFits
  <2>5. PanelFits' /\ VersionFits'
    BY <1>2, <1>5, <1>6, <1>7, <2>2 DEF PanelFits, VersionFits
  <2>6. QED
    BY <1>2, <1>6, <1>10, <2>2, <2>4, <2>5
<1>13. QED
  BY <1>8, <1>9, <1>11, <1>12 DEF WorkspaceInv

LEMMA OperationsKeeps ==
    ASSUME WorkspaceInv, NEW f \in fetches, OperationsAnswered(f)
    PROVE  WorkspaceInv'
<1>1. /\ WorkspaceTypeOK /\ FetchKinds /\ WaitingInv /\ LabInv /\ f.does = "operations"
      /\ f.answer # Unread /\ fetches' = fetches \ {f}
      /\ UNCHANGED <<explorer, public, overlay, view, panel, rendered, overlapped, fetchFailed,
                     userActs>>
  BY DEF WorkspaceInv, OperationsAnswered, Arrived
<1>2. operations' \in OperationPanels
  <2>1. f.lab \in LabOrNone /\ f.answer.version \in Versions /\ operations \in OperationPanels
    BY <1>1, WorkspaceTypes, FetchFields
  <2>2. QED
    BY <2>1 DEF OperationsAnswered, OperationPanels
<1>3. WorkspaceTypeOK'
  BY <1>1, <1>2, WorkspaceTypes
<1>4. FetchKinds' /\ ~f.ends
  BY <1>1 DEF FetchKinds, FetchKind
<1>5. (Coming => Coming') /\ InFlight' = InFlight /\ Moved' = Moved
  BY <1>1 DEF Coming, Moved, Starts, InFlight
<1>6. WaitingInv'
  BY <1>1, <1>4, <1>5 DEF WaitingInv
<1>7. LabInv'
  BY <1>1, <1>5 DEF LabInv, FetchFits, PanelFits, VersionFits, Undisturbed
<1>8. QED
  BY <1>3, <1>4, <1>6, <1>7 DEF WorkspaceInv

LEMMA FailKeeps ==
    ASSUME WorkspaceInv, NEW f \in fetches, FetchFails(f)
    PROVE  WorkspaceInv'
<1>1. /\ WorkspaceTypeOK /\ FetchKinds /\ WaitingInv
      /\ fetches' = fetches \ {f} /\ fetchFailed' = TRUE
      /\ UNCHANGED <<explorer, public, overlay, operations, rendered, overlapped, userActs>>
  BY DEF WorkspaceInv, FetchFails
<1>2. view \in Views /\ panel \in Panels /\ f \in Fetch
  BY <1>1, WorkspaceTypes
<1>3. /\ view' \in Views /\ view'.selected = view.selected
      /\ f.does \in {"labs", "state", "load", "effect"} => ~view'.loading
      /\ f.does \notin {"labs", "state", "load", "effect"} => view' = view
  <2>1. CASE f.does \in {"state", "load"}
    BY <1>2, <2>1 DEF FetchFails, Views, LabOrNone
  <2>2. CASE f.does = "labs"
    BY <1>2, <2>2 DEF FetchFails, Views, LabOrNone
  <2>3. CASE f.does = "effect"
    BY <1>2, <2>3 DEF FetchFails, Views, LabOrNone
  <2>4. CASE f.does \notin {"labs", "state", "load", "effect"}
    BY <1>2, <2>4 DEF FetchFails
  <2>5. QED
    BY <2>1, <2>2, <2>3, <2>4
<1>4. panel' \in Panels /\ (panel'.busy <=> panel.busy /\ ~f.ends)
  BY <1>2, WaitingEnds DEF FetchFails, FailedPanel
<1>5. WorkspaceTypeOK'
  BY <1>1, <1>3, <1>4, WorkspaceTypes
<1>6. FetchKinds'
  BY <1>1, <1>3 DEF FetchKinds, FetchKind
<1>7. WaitingInv'
  <2>1. panel'.busy => \E h \in fetches' : h.ends
    BY <1>1, <1>4 DEF WaitingInv
  <2>2. f.does \notin {"labs", "state", "load", "effect"} => (Coming => Coming')
    BY <1>1, <1>3 DEF Coming, Moved, Starts
  <2>3. QED
    BY <1>1, <1>3, <2>1, <2>2 DEF WaitingInv
<1>8. LabInv'
  BY <1>1 DEF LabInv, Undisturbed
<1>9. QED
  BY <1>5, <1>6, <1>7, <1>8 DEF WorkspaceInv

-----------------------------------------------------------------------------
LEMMA WorkspaceKept == WorkspaceInv /\ [WorkspaceNext]_workspaceVars => WorkspaceInv'
<1> SUFFICES ASSUME WorkspaceInv, [WorkspaceNext]_workspaceVars PROVE WorkspaceInv'
  OBVIOUS
<1>1. CASE UNCHANGED workspaceVars
  <2>1. WorkspaceTypeOK'
    BY <1>1 DEF WorkspaceInv, WorkspaceTypeOK, workspaceVars
  <2>2. QED
    BY <1>1, <2>1, NothingSeen DEF workspaceVars
<1>2. CASE Render
  BY <1>2, RenderKeeps
<1>3. ASSUME NEW l \in WorkspaceLabs, SelectLab(l) \/ WithdrawLab(l) \/ ScenarioInTerminal(l)
      PROVE  WorkspaceInv'
  BY <1>3, SelectKeeps, WithdrawKeeps, TerminalKeeps
<1>4. CASE ReloadWorkspace \/ ScenarioButton \/ ToggleOperations
  BY <1>4, ReloadKeeps, ButtonKeeps, ToggleKeeps
<1>5. ASSUME NEW f \in fetches,
             \/ Serve(f) \/ LabsAnswered(f) \/ StateAnswered(f) \/ ScenarioAnswered(f)
             \/ ChangeAnswered(f) \/ OperationsAnswered(f) \/ FetchFails(f)
      PROVE  WorkspaceInv'
  BY <1>5, ServeKeeps, LabsKeeps, StateKeeps, ScenarioKeeps, ChangeKeeps, OperationsKeeps,
     FailKeeps
<1>6. QED
  BY <1>1, <1>2, <1>3, <1>4, <1>5 DEF WorkspaceNext

LEMMA WorkspaceInvariant == WorkspaceSpec => []WorkspaceInv
BY WorkspaceInitially, WorkspaceKept, PTL DEF WorkspaceSpec

\* The explorer's, the panels' and the calls' state has the shape the page
\* gives it.
THEOREM WorkspaceTypeCorrect == WorkspaceSpec => []WorkspaceTypeOK
<1>1. WorkspaceInv => WorkspaceTypeOK
  BY DEF WorkspaceInv
<1>2. QED
  BY <1>1, WorkspaceInvariant, PTL

\* Once nothing is in flight no button of a scenario panel waits, and an
\* explorer waits only when the user left a selection that was loading.
THEOREM WorkspaceWaitsForNothing == WorkspaceSpec => []NothingWaits
<1>1. WorkspaceInv => NothingWaits
  <2> SUFFICES ASSUME WorkspaceInv, AtEase
               PROVE  ~panel.busy /\ (view.loading => explorer = "console" /\ overlapped)
    BY DEF NothingWaits
  <2>1. ~Coming
    BY SettledFields DEF AtEase, Coming
  <2>2. QED
    BY <2>1 DEF AtEase, WorkspaceInv, WaitingInv
<1>2. QED
  BY <1>1, WorkspaceInvariant, PTL

\* Selection, explorer, scenario panel and overlay are of one lab once every
\* answer is in, when the user waited for them and none failed.
THEOREM WorkspaceShowsOneLab == WorkspaceSpec => []ShowsOneLab
<1>1. WorkspaceInv => ShowsOneLab
  <2> SUFFICES ASSUME WorkspaceInv, AtEase, Undisturbed
               PROVE  /\ view.lab = view.selected
                      /\ view.lab # NoLabShown =>
                            panel.lab = view.lab /\ view.version = overlay[view.lab]
    BY DEF ShowsOneLab, ShownIsSelected, PanelIsOfTheLab, OverlayIsShown
  <2>1. InFlight = {} /\ rendered.lab = view.lab
    BY SettledFields DEF AtEase, InFlight
  <2>2. /\ view.lab = view.selected
        /\ view.lab \in WorkspaceLabs => view.version = overlay[view.lab]
    BY <2>1, NothingInFlight DEF AtEase
  <2>3. view.lab \in LabOrNone
    BY WorkspaceTypes DEF WorkspaceInv, Views
  <2>4. view.lab \in {NoLabShown, panel.lab}
    BY <2>1, <2>2 DEF WorkspaceInv, LabInv, PanelFits, AtEase
  <2>5. QED
    BY <2>2, <2>3, <2>4 DEF LabOrNone
<1>2. QED
  BY <1>1, WorkspaceInvariant, PTL

-----------------------------------------------------------------------------
\* The unified CLI.
Terminals ==
    [open: BOOLEAN, category: PageCategories, key: PageCategories \cup {NoName},
     known: BOOLEAN, context: Contexts, simulated: BOOLEAN, busy: BOOLEAN, rendered: BOOLEAN]
Listings == {[public |-> FALSE]} \cup [public: {TRUE}, targets: SUBSET CliTargets]

\* The context a call has resolved and its mode are of one state of the session.
ModeSettled(c) ==
    ~c.moved /\ c.context # Root /\ c.verb # "bare" => c.simulated = (c.context.lab \in active)

\* What a call has read so far, while it is being answered: the labs it lists
\* are all that may be sought among them, what fails has lost its context.
SeenFits(c) ==
    c.stage = "find" =>
        /\ c.disturbed \/ c.seen \subseteq Public
        /\ \A l \in Public :
              Sought(c) # Root /\ CliDomain[l] = CliDomain[Sought(c).lab] => l \in c.seen
ContextFits(c) ==
    /\ c.stage \in {"list", "find"} /\ c.resolving = "current" => c.context = Root
    /\ c.stage = "mode" /\ c.resolving = "current" => c.context = c.given
FailedFits(c) ==
    c.exit = "failed" => c.stage = "answered" /\ (c.disturbed \/ ~Found(c.given))
SettledFits(c) ==
    \/ c.stage \in {"act", "second"}
    \/ c.stage \in {"list", "find"} /\ c.resolving = "next" /\ c.wanted = Root
    \/ c.stage = "answered" /\ c.exit = "ok"
    => ModeSettled(c)

CallSound(c) == SeenFits(c) /\ ContextFits(c) /\ FailedFits(c) /\ SettledFits(c)

\* The key follows what the terminal's effect has seen.
KeyFits ==
    /\ terminal.rendered /\ terminal.open => terminal.key = terminal.category
    /\ terminal.rendered /\ ~terminal.open => terminal.key = NoName
    /\ ~terminal.rendered /\ terminal.open => terminal.key # terminal.category
BusyFits ==
    terminal.open /\ terminal.rendered /\ terminal.busy =>
        \E s \in Slots : calls[s].stage # "idle"

CliInv ==
    /\ CliTypeOK
    /\ KeyFits /\ BusyFits
    /\ \A s \in Slots : CallSound(calls[s])

LEMMA CliTypes ==
    CliTypeOK <=>
        /\ listed \in [CliLabs -> Listings]
        /\ active \subseteq CliLabs
        /\ changes \in 0..OverlayBound /\ acts \in 0..ActBound
        /\ terminal \in Terminals /\ calls \in [Slots -> Call]
BY DEF CliTypeOK, Terminals, Listings

LEMMA RootContext ==
    /\ Root \in Contexts
    /\ \A l \in CliLabs : [lab |-> l, target |-> NoName] \in Contexts
    /\ \A c \in Contexts : c # Root => c.lab \in CliLabs
    /\ \A c \in Contexts : c = Root <=> c.lab = NoName
    /\ \A l \in CliLabs : [lab |-> l, target |-> NoName] # Root
BY CliAssumption DEF Contexts, Root

LEMMA NoCallTyped == NoCallOf \in Call
BY RootContext, CliAssumption DEF NoCallOf, Call, CallStages, Verbs

\* What begins, or is given up, carries nothing yet.
LEMMA FreshCall ==
    ASSUME NEW c \in Call, c.stage \in {"idle", "list", "act"}, c.resolving = "current",
           c.context = Root, c.exit = "ok"
    PROVE  CallSound(c)
BY DEF CallSound, SeenFits, ContextFits, FailedFits, SettledFits, ModeSettled

LEMMA CliInitially == CliInit => CliInv
<1> SUFFICES ASSUME CliInit PROVE CliInv
  OBVIOUS
<1>1. listed \in [CliLabs -> Listings]
  BY CliAssumption DEF CliInit, Listings
<1>2. terminal \in Terminals
  BY CliAssumption, RootContext DEF CliInit, Terminals
<1>3. calls \in [Slots -> Call]
  BY NoCallTyped DEF CliInit
<1>4. CliTypeOK
  BY <1>1, <1>2, <1>3, CliTypes, CliAssumption DEF CliInit
<1>5. KeyFits /\ BusyFits
  BY DEF CliInit, KeyFits, BusyFits
<1>6. \A s \in Slots : CallSound(calls[s])
  BY NoCallTyped, FreshCall DEF CliInit, NoCallOf
<1> QED
  BY <1>4, <1>5, <1>6 DEF CliInv

-----------------------------------------------------------------------------
\* The public labs and their targets only become fewer, and a call that runs
\* meanwhile knows.
LEMMA DisturbKeeps ==
    ASSUME CliInv, Disturb, UNCHANGED <<active, changes, acts, terminal>>,
           listed' \in [CliLabs -> Listings], Public' \subseteq Public,
           \A l \in Public' : listed'[l].targets \subseteq listed[l].targets
    PROVE  CliInv'
<1>t. CliTypeOK /\ KeyFits /\ BusyFits /\ \A s \in Slots : CallSound(calls[s])
  BY DEF CliInv
<1>c. calls \in [Slots -> Call]
  BY <1>t, CliTypes
<1>1. \A s \in Slots : calls'[s] = [calls[s] EXCEPT !.disturbed = @ \/ Busy(s)]
  BY DEF Disturb
<1>2. ASSUME NEW s \in Slots
      PROVE  /\ calls'[s] \in Call
             /\ CallSound(calls[s])
             /\ calls'[s].stage = calls[s].stage /\ calls'[s].verb = calls[s].verb
             /\ calls'[s].resolving = calls[s].resolving /\ calls'[s].given = calls[s].given
             /\ calls'[s].wanted = calls[s].wanted /\ calls'[s].seen = calls[s].seen
             /\ calls'[s].context = calls[s].context /\ calls'[s].exit = calls[s].exit
             /\ calls'[s].simulated = calls[s].simulated /\ calls'[s].moved = calls[s].moved
             /\ calls[s].stage # "idle" => calls'[s].disturbed
  <2>1. PICK b \in BOOLEAN : b = (calls[s].disturbed \/ Busy(s))
    BY <1>c DEF Call
  <2>2. calls'[s] = [calls[s] EXCEPT !.disturbed = b]
    BY <1>1, <2>1
  <2>3. calls[s].stage # "idle" => b = TRUE
    BY <2>1 DEF Busy
  <2> QED
    BY <1>t, <1>c, <2>2, <2>3 DEF Call
<1>3. calls' \in [Slots -> Call]
  BY <1>2 DEF Disturb
<1>4. CliTypeOK'
  BY <1>3, <1>t, CliTypes, CliTypes DEF CliTypeOK, Listings
<1>5. (KeyFits /\ BusyFits)'
  BY <1>t, <1>2 DEF KeyFits, BusyFits
<1>6. ASSUME NEW s \in Slots
      PROVE  CallSound(calls[s])'
  <2>1. SeenFits(calls[s])'
    BY <1>2 DEF CallSound, SeenFits, Sought
  <2>2. ContextFits(calls[s])'
    BY <1>2 DEF CallSound, ContextFits
  <2>3. ~Found(calls[s].given) => ~Found(calls[s].given)'
    BY <1>2 DEF Found
  <2>4. FailedFits(calls[s])'
    BY <1>2, <2>3 DEF CallSound, FailedFits
  <2>5. SettledFits(calls[s])'
    BY <1>2 DEF CallSound, SettledFits, ModeSettled
  <2> QED
    BY <2>1, <2>2, <2>4, <2>5 DEF CallSound
<1> QED
  BY <1>4, <1>5, <1>6 DEF CliInv

LEMMA WithdrawCli == \A l \in CliLabs : CliInv /\ CliWithdraw(l) => CliInv'
<1> SUFFICES ASSUME NEW l \in CliLabs, CliInv, CliWithdraw(l) PROVE CliInv'
  OBVIOUS
<1>0. listed \in [CliLabs -> Listings]
  BY CliTypes DEF CliInv
<1>1. listed' = [listed EXCEPT ![l] = [public |-> FALSE]]
  BY DEF CliWithdraw
<1>2. listed' \in [CliLabs -> Listings]
  BY <1>0, <1>1 DEF Listings
<1>3. \A k \in CliLabs : k # l => listed'[k] = listed[k]
  BY <1>0, <1>1
<1>4. ~listed'[l].public
  BY <1>0, <1>1
<1>5. Public' \subseteq Public /\ l \notin Public'
  BY <1>3, <1>4 DEF Public
<1>6. \A k \in Public' : listed'[k].targets \subseteq listed[k].targets
  BY <1>3, <1>5 DEF Public
<1> QED
  BY <1>2, <1>5, <1>6, DisturbKeeps DEF CliWithdraw

LEMMA RemoveTargetCli ==
    \A l \in CliLabs, t \in CliTargets : CliInv /\ CliRemoveTarget(l, t) => CliInv'
<1> SUFFICES ASSUME NEW l \in CliLabs, NEW t \in CliTargets, CliInv, CliRemoveTarget(l, t)
             PROVE  CliInv'
  OBVIOUS
<1>0. listed \in [CliLabs -> Listings]
  BY CliTypes DEF CliInv
<1>1. listed[l] \in [public: {TRUE}, targets: SUBSET CliTargets]
  <2>1. listed[l] \in Listings /\ listed[l].public
    BY <1>0 DEF CliRemoveTarget, Public
  <2>2. listed[l] # [public |-> FALSE]
    BY <2>1
  <2> QED
    BY <2>1, <2>2 DEF Listings
<1>3. PICK row : row = [listed[l] EXCEPT !.targets = listed[l].targets \ {t}]
  OBVIOUS
<1>4. /\ row \in [public: {TRUE}, targets: SUBSET CliTargets]
      /\ row.targets \subseteq listed[l].targets
  BY <1>1, <1>3
<1>5. listed' = [listed EXCEPT ![l] = row]
  BY <1>3 DEF CliRemoveTarget
<1>6. listed' \in [CliLabs -> Listings]
  BY <1>0, <1>4, <1>5 DEF Listings
<1>7. \A k \in CliLabs : k # l => listed'[k] = listed[k]
  BY <1>0, <1>5
<1>8. listed'[l] = row
  BY <1>0, <1>5
<1>9. Public' \subseteq Public
  BY <1>7, <1>1 DEF Public
<1>10. \A k \in Public' : listed'[k].targets \subseteq listed[k].targets
  BY <1>4, <1>7, <1>8 DEF Public
<1> QED
  BY <1>6, <1>9, <1>10, DisturbKeeps DEF CliRemoveTarget

\* A command that ran while the overlay changed knows.
LEMMA MovedCall ==
    ASSUME NEW c \in Call, NEW b \in BOOLEAN, NEW d, d = [c EXCEPT !.moved = b]
    PROVE  /\ d \in Call
           /\ d.stage = c.stage /\ d.verb = c.verb /\ d.resolving = c.resolving
           /\ d.given = c.given /\ d.wanted = c.wanted /\ d.seen = c.seen
           /\ d.context = c.context /\ d.exit = c.exit /\ d.simulated = c.simulated
           /\ d.disturbed = c.disturbed /\ d.moved = b
BY DEF Call

LEMMA MovedKeeps ==
    ASSUME CliInv, NEW s \in Slots, UNCHANGED listed,
           calls'[s] = [calls[s] EXCEPT !.moved = @ \/ Busy(s)]
    PROVE  /\ calls'[s] \in Call
           /\ calls'[s].stage = calls[s].stage
           /\ CallSound(calls[s])'
<1>c. calls[s] \in Call /\ CallSound(calls[s])
  BY CliTypes DEF CliInv
<1>1. PICK b \in BOOLEAN : b = (calls[s].moved \/ Busy(s))
  BY <1>c DEF Call
<1>2. PICK d : d = [calls[s] EXCEPT !.moved = b]
  OBVIOUS
<1>3. calls'[s] = d
  BY <1>1, <1>2
<1>4. /\ d \in Call
      /\ d.stage = calls[s].stage /\ d.verb = calls[s].verb
      /\ d.resolving = calls[s].resolving
      /\ d.given = calls[s].given /\ d.wanted = calls[s].wanted /\ d.seen = calls[s].seen
      /\ d.context = calls[s].context /\ d.exit = calls[s].exit
      /\ d.simulated = calls[s].simulated
      /\ d.disturbed = calls[s].disturbed /\ d.moved = b
  BY <1>c, <1>2, MovedCall
<1>5. calls[s].stage # "idle" => b = TRUE
  BY <1>1 DEF Busy
<1>6. Public' = Public
  BY DEF Public
<1>7. SeenFits(calls[s])'
  BY <1>c, <1>3, <1>4, <1>6 DEF CallSound, SeenFits, Sought
<1>8. ContextFits(calls[s])'
  BY <1>c, <1>3, <1>4 DEF CallSound, ContextFits
<1>9. FailedFits(calls[s])'
  BY <1>c, <1>3, <1>4, <1>6 DEF CallSound, FailedFits, Found
<1>10. SettledFits(calls[s])'
  BY <1>3, <1>4, <1>5 DEF SettledFits, ModeSettled
<1> QED
  BY <1>3, <1>4, <1>7, <1>8, <1>9, <1>10 DEF CallSound

LEMMA PanelCli == \A l \in CliLabs : CliInv /\ PanelChanges(l) => CliInv'
<1> SUFFICES ASSUME NEW l \in CliLabs, CliInv, PanelChanges(l) PROVE CliInv'
  OBVIOUS
<1>t. CliTypeOK /\ KeyFits /\ BusyFits
  BY DEF CliInv
<1>1. ASSUME NEW s \in Slots
      PROVE  /\ calls'[s] \in Call /\ calls'[s].stage = calls[s].stage
             /\ CallSound(calls[s])'
  BY MovedKeeps DEF PanelChanges
<1>2. calls' \in [Slots -> Call]
  BY <1>1 DEF PanelChanges
<1>3. active' \subseteq CliLabs
  BY <1>t DEF PanelChanges, CliTypeOK
<1>4. changes' \in 0..OverlayBound
  BY <1>t, CliAssumption DEF PanelChanges, CliTypeOK
<1>5. CliTypeOK'
  BY <1>t, <1>2, <1>3, <1>4, CliTypes DEF PanelChanges, CliTypeOK, Listings
<1>6. (KeyFits /\ BusyFits)'
  BY <1>t, <1>1 DEF PanelChanges, KeyFits, BusyFits
<1> QED
  BY <1>1, <1>5, <1>6 DEF CliInv

-----------------------------------------------------------------------------
\* What only the terminal does: the calls are those they were, but for one that
\* begins or is given up.
LEMMA TerminalChanges ==
    ASSUME CliInv, UNCHANGED <<listed, active, changes>>, acts' \in 0..ActBound,
           terminal' \in Terminals, calls' \in [Slots -> Call],
           KeyFits', BusyFits',
           \A s \in Slots :
              \/ calls'[s] = calls[s]
              \/ /\ calls'[s].stage \in {"idle", "list", "act"}
                 /\ calls'[s].resolving = "current"
                 /\ calls'[s].context = Root /\ calls'[s].exit = "ok"
    PROVE  CliInv'
<1>1. CliTypeOK'
  BY CliTypes DEF CliInv, CliTypeOK, Terminals
<1>2. Public' = Public
  BY DEF Public
<1>3. ASSUME NEW s \in Slots PROVE CallSound(calls[s])'
  <2>1. CASE calls'[s] = calls[s]
    BY <1>2, <2>1 DEF CliInv, CallSound, SeenFits, ContextFits, FailedFits, SettledFits,
                 ModeSettled, Found, Sought
  <2>2. CASE /\ calls'[s].stage \in {"idle", "list", "act"}
             /\ calls'[s].resolving = "current"
             /\ calls'[s].context = Root /\ calls'[s].exit = "ok"
    BY <2>2 DEF CallSound, SeenFits, ContextFits, FailedFits, SettledFits, ModeSettled
  <2> QED
    BY <2>1, <2>2
<1> QED
  BY <1>1, <1>3 DEF CliInv

LEMMA ToggleCli == CliInv /\ ToggleTerminal => CliInv'
<1> SUFFICES ASSUME CliInv, ToggleTerminal PROVE CliInv'
  OBVIOUS
<1>t. terminal \in Terminals /\ calls \in [Slots -> Call] /\ KeyFits /\ acts \in 0..ActBound
  BY CliTypes DEF CliInv
<1>1. PICK b \in BOOLEAN : b = ~terminal.open
  BY <1>t DEF Terminals
<1>2. PICK z : z = [terminal EXCEPT !.open = b, !.rendered = FALSE]
  OBVIOUS
<1>3. terminal' = z
  BY <1>1, <1>2 DEF ToggleTerminal
<1>4. /\ z \in Terminals /\ z.open = b /\ ~z.rendered /\ z.key = terminal.key
      /\ z.category = terminal.category
  BY <1>t, <1>2 DEF Terminals
<1>5. acts' \in 0..ActBound
  BY <1>t, CliAssumption DEF ToggleTerminal
<1>6. KeyFits'
  BY <1>t, <1>1, <1>3, <1>4, CliAssumption DEF KeyFits, ToggleTerminal, Settles, Terminals
<1>7. BusyFits'
  BY <1>3, <1>4 DEF BusyFits
<1> QED
  BY <1>t, <1>3, <1>4, <1>5, <1>6, <1>7, TerminalChanges DEF ToggleTerminal

LEMMA CategoryCli == \A c \in PageCategories : CliInv /\ ChooseCategory(c) => CliInv'
<1> SUFFICES ASSUME NEW c \in PageCategories, CliInv, ChooseCategory(c) PROVE CliInv'
  OBVIOUS
<1>t. terminal \in Terminals /\ calls \in [Slots -> Call] /\ KeyFits /\ acts \in 0..ActBound
  BY CliTypes DEF CliInv
<1>2. PICK z : z = [terminal EXCEPT !.category = c, !.rendered = FALSE]
  OBVIOUS
<1>3. terminal' = z
  BY <1>2 DEF ChooseCategory
<1>4. /\ z \in Terminals /\ z.open = terminal.open /\ ~z.rendered /\ z.key = terminal.key
      /\ z.category = c
  BY <1>t, <1>2 DEF Terminals
<1>5. acts' \in 0..ActBound
  BY <1>t, CliAssumption DEF ChooseCategory
<1>6. KeyFits'
  BY <1>t, <1>3, <1>4 DEF KeyFits, ChooseCategory, Settles
<1>7. BusyFits'
  BY <1>3, <1>4 DEF BusyFits
<1> QED
  BY <1>t, <1>3, <1>4, <1>5, <1>6, <1>7, TerminalChanges DEF ChooseCategory

LEMMA EffectCli == CliInv /\ TerminalEffect => CliInv'
<1> SUFFICES ASSUME CliInv, TerminalEffect PROVE CliInv'
  OBVIOUS
<1>t. terminal \in Terminals /\ calls \in [Slots -> Call] /\ KeyFits /\ acts \in 0..ActBound
  BY CliTypes DEF CliInv
<1>s. "boot" \in Slots
  BY DEF Slots
<1>1. CASE ~terminal.open
  <2>2. PICK z : z = [terminal EXCEPT !.key = NoName, !.rendered = TRUE]
    OBVIOUS
  <2>3. terminal' = z /\ calls' = [calls EXCEPT !["boot"] = NoCallOf]
    BY <1>1, <2>2 DEF TerminalEffect, KeyClosed
  <2>4. z \in Terminals /\ ~z.open /\ z.key = NoName
    BY <1>t, <1>1, <2>2 DEF Terminals
  <2>5. (KeyFits /\ BusyFits)'
    BY <2>3, <2>4 DEF KeyFits, BusyFits
  <2>6. \A s \in Slots : calls'[s] = calls[s] \/ calls'[s] = NoCallOf
    BY <1>t, <2>3
  <2> QED
    BY <1>t, <2>3, <2>4, <2>5, <2>6, NoCallTyped, TerminalChanges DEF TerminalEffect, NoCallOf
<1>2. CASE terminal.open
  <2>1. terminal.key # terminal.category
    BY <1>t, <1>2 DEF TerminalEffect, KeyFits
  <2>2. PICK z : z = [terminal EXCEPT !.key = terminal.category, !.rendered = TRUE,
                        !.busy = TRUE]
    OBVIOUS
  <2>3. PICK c : c = [NoCallOf EXCEPT !.verb = "bootstrap", !.stage = "list",
                        !.category = terminal.category]
    OBVIOUS
  <2>4. terminal' = z /\ calls' = [calls EXCEPT !["boot"] = c]
    BY <1>2, <2>1, <2>2, <2>3 DEF TerminalEffect
  <2>5. z \in Terminals /\ z.open /\ z.rendered /\ z.key = z.category
    BY <1>t, <1>2, <2>2 DEF Terminals
  <2>6. /\ c \in Call /\ c.stage = "list" /\ c.resolving = "current" /\ c.context = Root
        /\ c.exit = "ok"
    BY <1>t, <2>3, NoCallTyped DEF NoCallOf, Call, CallStages, Terminals
  <2>7. calls' \in [Slots -> Call] /\ calls'["boot"] = c
    BY <1>t, <1>s, <2>4, <2>6
  <2>8. (KeyFits /\ BusyFits)'
    BY <1>s, <2>4, <2>5, <2>6, <2>7 DEF KeyFits, BusyFits
  <2>9. \A s \in Slots : calls'[s] = calls[s] \/ calls'[s] = c
    BY <1>t, <2>4
  <2> QED
    BY <1>t, <2>4, <2>5, <2>6, <2>7, <2>8, <2>9, TerminalChanges DEF TerminalEffect
<1> QED
  BY <1>1, <1>2, <1>t DEF Terminals

LEMMA EnterCli ==
    \A v \in CliVerbs, x \in Contexts : CliInv /\ EnterCommand(v, x) => CliInv'
<1> SUFFICES ASSUME NEW v \in CliVerbs, NEW x \in Contexts, CliInv, EnterCommand(v, x)
             PROVE  CliInv'
  OBVIOUS
<1>t. terminal \in Terminals /\ calls \in [Slots -> Call] /\ KeyFits /\ acts \in 0..ActBound
  BY CliTypes DEF CliInv
<1>1. PICK k \in CommandSlots \ Commands :
         calls' = [calls EXCEPT ![k] =
                [NoCallOf EXCEPT !.verb = v, !.wanted = x, !.given = terminal.context,
                   !.category = IF terminal.known THEN @ ELSE terminal.category,
                   !.stage = IF terminal.known /\ terminal.context = Root THEN "act"
                             ELSE "list"]]
  BY DEF EnterCommand
<1>2. PICK w \in PageCategories :
         w = IF terminal.known THEN NoCallOf.category ELSE terminal.category
  BY <1>t, NoCallTyped DEF Terminals, Call
<1>3. PICK a \in {"act", "list"} :
         a = IF terminal.known /\ terminal.context = Root THEN "act" ELSE "list"
  OBVIOUS
<1>4. PICK c : c = [NoCallOf EXCEPT !.verb = v, !.wanted = x, !.given = terminal.context,
                      !.category = w, !.stage = a]
  OBVIOUS
<1>5. calls' = [calls EXCEPT ![k] = c]
  BY <1>1, <1>2, <1>3, <1>4
<1>6. /\ c \in Call /\ c.stage = a /\ c.resolving = "current" /\ c.context = Root
      /\ c.exit = "ok"
  BY <1>t, <1>4, NoCallTyped, CliAssumption DEF NoCallOf, Call, CallStages, Terminals
<1>7. k \in Slots
  BY <1>1 DEF Slots
<1>8. calls' \in [Slots -> Call] /\ calls'[k] = c
  BY <1>t, <1>5, <1>6, <1>7
<1>9. \A s \in Slots : calls'[s] = calls[s] \/ calls'[s] = c
  BY <1>t, <1>5
<1>10. PICK z : z = [terminal EXCEPT !.busy = TRUE]
  OBVIOUS
<1>11. terminal' = z
  BY <1>10 DEF EnterCommand
<1>12. z \in Terminals /\ z.open = terminal.open /\ z.rendered = terminal.rendered
       /\ z.key = terminal.key /\ z.category = terminal.category
  BY <1>t, <1>10 DEF Terminals
<1>13. KeyFits'
  BY <1>t, <1>11, <1>12 DEF KeyFits
<1>14. BusyFits'
  BY <1>6, <1>7, <1>8 DEF BusyFits
<1>15. acts' \in 0..ActBound
  BY <1>t, CliAssumption DEF EnterCommand
<1> QED
  BY <1>6, <1>8, <1>9, <1>11, <1>12, <1>13, <1>14, <1>15, TerminalChanges DEF EnterCommand

\* An answer, or its failure, is shown or dropped: the terminal is busy no more.
LEMMA ShownCli ==
    ASSUME CliInv, NEW s \in Slots, terminal.rendered, UNCHANGED <<listed, active, changes, acts>>,
           calls' = [calls EXCEPT ![s] = NoCallOf],
           \/ terminal' = [terminal EXCEPT !.context = calls[s].context,
                             !.simulated = calls[s].simulated, !.known = TRUE, !.busy = FALSE]
           \/ terminal' = [terminal EXCEPT !.busy = FALSE]
    PROVE  CliInv'
<1>t. terminal \in Terminals /\ calls \in [Slots -> Call] /\ KeyFits /\ acts \in 0..ActBound
  BY CliTypes DEF CliInv
<1>1. /\ terminal' \in Terminals /\ terminal'.open = terminal.open
      /\ terminal'.rendered = terminal.rendered /\ terminal'.busy = FALSE
      /\ terminal'.key = terminal.key /\ terminal'.category = terminal.category
  <2>1. CASE terminal' = [terminal EXCEPT !.busy = FALSE]
    BY <1>t, <2>1 DEF Terminals
  <2>2. CASE terminal' = [terminal EXCEPT !.context = calls[s].context,
                            !.simulated = calls[s].simulated, !.known = TRUE, !.busy = FALSE]
    <3>1. calls[s].context \in Contexts /\ calls[s].simulated \in BOOLEAN
      BY <1>t DEF Call
    <3> QED
      BY <1>t, <2>2, <3>1 DEF Terminals
  <2> QED
    BY <2>1, <2>2
<1>2. (KeyFits /\ BusyFits)'
  BY <1>t, <1>1 DEF KeyFits, BusyFits
<1>3. calls' \in [Slots -> Call] /\ \A r \in Slots : calls'[r] = calls[r] \/ calls'[r] = NoCallOf
  BY <1>t, NoCallTyped
<1> QED
  BY <1>t, <1>1, <1>2, <1>3, TerminalChanges DEF NoCallOf

LEMMA BootstrapCli == CliInv /\ BootstrapAnswered => CliInv'
BY ShownCli DEF BootstrapAnswered, Settles, Slots

LEMMA CommandCli == \A s \in Slots : CliInv /\ CommandAnswered(s) => CliInv'
BY ShownCli DEF CommandAnswered, Settles

-----------------------------------------------------------------------------
\* What the server has read does not change the session nor the terminal: only
\* the call it serves has to be looked at.
LEMMA ServedKeeps ==
    ASSUME CliInv, NEW s \in Slots, NEW c \in Call, c.stage # "idle", CallSound(c),
           UNCHANGED <<listed, active, changes, acts, terminal>>,
           calls' = [calls EXCEPT ![s] = c]
    PROVE  CliInv'
<1>t. terminal \in Terminals /\ calls \in [Slots -> Call] /\ KeyFits /\ BusyFits
  BY CliTypes DEF CliInv
<1>1. calls' \in [Slots -> Call] /\ calls'[s] = c
  BY <1>t
<1>2. CliTypeOK'
  BY <1>1, CliTypes DEF CliInv, CliTypeOK
<1>3. \A r \in Slots : calls'[r] = calls[r] \/ calls'[r] = c
  BY <1>t
<1>4. (KeyFits /\ BusyFits)'
  BY <1>t, <1>3 DEF KeyFits, BusyFits
<1>5. Public' = Public
  BY DEF Public
<1>6. ASSUME NEW r \in Slots PROVE CallSound(calls[r])'
  <2>1. CallSound(calls'[r])
    BY <1>3 DEF CliInv
  <2> QED
    BY <1>5, <2>1 DEF CallSound, SeenFits, ContextFits, FailedFits, SettledFits,
                 ModeSettled, Found, Sought
<1> QED
  BY <1>2, <1>4, <1>6 DEF CliInv

LEMMA StepKeeps ==
    ASSUME CliInv, NEW s \in Slots, NEW c \in Call, c.stage # "idle", CallSound(c), Step(s, c)
    PROVE  CliInv'
<1>1. CASE c.stage = "answered"
  <2>1. PICK d : d = [c EXCEPT !.wanted = Root, !.category = RootCategory]
    OBVIOUS
  <2>2. /\ d \in Call /\ d.stage = "answered" /\ d.exit = c.exit /\ d.given = c.given
        /\ d.disturbed = c.disturbed /\ d.moved = c.moved /\ d.context = c.context
        /\ d.verb = c.verb /\ d.simulated = c.simulated
    BY <1>1, <2>1, RootContext, CliAssumption DEF Call
  <2>3. CallSound(d)
    BY <1>1, <2>2 DEF CallSound, SeenFits, ContextFits, FailedFits, SettledFits, ModeSettled
  <2>4. calls' = [calls EXCEPT ![s] = d]
    BY <1>1, <2>1 DEF Step
  <2> QED
    BY <2>2, <2>3, <2>4, ServedKeeps DEF Step
<1>2. CASE c.stage # "answered"
  BY <1>2, ServedKeeps DEF Step
<1> QED
  BY <1>1, <1>2

\* Until it is answered a call has failed in nothing.
LEMMA Serves ==
    ASSUME CliInv, NEW s \in Slots, NEW stage, Serving(s, stage), stage # "answered"
    PROVE  /\ calls[s] \in Call /\ CallSound(calls[s]) /\ calls[s].stage = stage
           /\ calls[s].exit # "failed"
BY CliTypes DEF CliInv, Serving, CallSound, FailedFits

LEMMA ListCli == \A s \in Slots : CliInv /\ ListLabs(s) => CliInv'
<1> SUFFICES ASSUME NEW s \in Slots, CliInv, ListLabs(s) PROVE CliInv'
  OBVIOUS
<1>1. /\ calls[s] \in Call /\ CallSound(calls[s])
      /\ calls[s].stage = "list" /\ calls[s].exit # "failed"
  BY Serves DEF ListLabs
<1>2. PICK f : f = {l \in Public : \/ Sought(calls[s]) = Root
                                   \/ CliDomain[l] = CliDomain[Sought(calls[s]).lab]}
  OBVIOUS
<1>3. f \subseteq Public /\ Public \subseteq CliLabs
  BY <1>2 DEF Public
<1>4. PICK c : c = [calls[s] EXCEPT !.stage = "find", !.seen = f]
  OBVIOUS
<1>5. /\ c \in Call /\ c.stage = "find" /\ c.seen = f /\ c.resolving = calls[s].resolving
      /\ c.given = calls[s].given /\ c.wanted = calls[s].wanted
      /\ c.context = calls[s].context /\ c.exit = calls[s].exit /\ c.verb = calls[s].verb
      /\ c.simulated = calls[s].simulated /\ c.moved = calls[s].moved
  BY <1>1, <1>3, <1>4 DEF Call, CallStages
<1>6. Sought(c) = Sought(calls[s])
  BY <1>5 DEF Sought
<1>7. SeenFits(c)
  BY <1>2, <1>3, <1>5, <1>6 DEF SeenFits
<1>8. ContextFits(c) /\ FailedFits(c) /\ SettledFits(c)
  BY <1>1, <1>5 DEF CallSound, ContextFits, FailedFits, SettledFits, ModeSettled
<1>9. Step(s, c)
  BY <1>2, <1>4 DEF ListLabs
<1> QED
  BY <1>5, <1>7, <1>8, <1>9, StepKeeps DEF CallSound

\* What a call that fails, or is refused, leaves.
LEMMA NotFoundSound ==
    ASSUME NEW c \in Call, FailedFits(c),
           c.resolving = "next" \/ c.stage \in {"act", "second"}
             \/ c.disturbed \/ ~Found(c.given)
    PROVE  NotFound(c) \in Call /\ NotFound(c).stage = "answered" /\ CallSound(NotFound(c))
<1>1. PICK x \in {"refused", "failed"} :
         x = IF c.resolving = "next" \/ c.stage \in {"act", "second"} THEN "refused"
             ELSE "failed"
  OBVIOUS
<1>2. PICK d : d = [c EXCEPT !.stage = "answered", !.exit = x]
  OBVIOUS
<1>3. NotFound(c) = d
  BY <1>1, <1>2 DEF NotFound
<1>4. /\ d \in Call /\ d.stage = "answered" /\ d.exit = x /\ d.given = c.given
      /\ d.disturbed = c.disturbed
  BY <1>2 DEF Call, CallStages
<1>5. CallSound(d)
  BY <1>1, <1>4 DEF CallSound, SeenFits, ContextFits, FailedFits, SettledFits
<1> QED
  BY <1>3, <1>4, <1>5

LEMMA FindCli == \A s \in Slots : CliInv /\ FindContext(s) => CliInv'
<1> SUFFICES ASSUME NEW s \in Slots, CliInv, FindContext(s) PROVE CliInv'
  OBVIOUS
<1> DEFINE k == calls[s]
           own == {l \in k.seen : CliDomain[l] = k.category}
<1>1. k \in Call /\ CallSound(k) /\ k.stage = "find" /\ k.exit # "failed"
  BY Serves DEF FindContext
<1>2. PICK c : c = [k EXCEPT !.seen = {}]
  OBVIOUS
<1>3. /\ c \in Call /\ c.stage = "find" /\ c.seen = {} /\ c.resolving = k.resolving
      /\ c.given = k.given /\ c.wanted = k.wanted /\ c.verb = k.verb
      /\ c.context = k.context /\ c.exit = k.exit /\ c.disturbed = k.disturbed
      /\ c.simulated = k.simulated /\ c.moved = k.moved /\ c.category = k.category
  BY <1>1, <1>2 DEF Call, CallStages
<1>4. FailedFits(c) /\ c.exit # "failed"
  BY <1>1, <1>3 DEF FailedFits
<1>5. Sought(k) \in Contexts
  BY <1>1 DEF Sought, Call
<1>6. CASE ~(k.seen \subseteq Public)
  <2>1. c.disturbed
    BY <1>1, <1>3, <1>6 DEF CallSound, SeenFits
  <2>2. Step(s, NotFound(c))
    BY <1>2, <1>6 DEF FindContext
  <2> QED
    BY <1>3, <1>4, <2>1, <2>2, NotFoundSound, StepKeeps
<1>7. CASE k.seen \subseteq Public /\ Sought(k) # Root
            /\ ~(Sought(k).lab \in k.seen /\ Found(Sought(k)))
  <2>1. Step(s, NotFound(c))
    BY <1>2, <1>7 DEF FindContext
  <2>2. ASSUME c.resolving # "next" PROVE ~Found(c.given)
    <3>1. c.resolving = "current" /\ Sought(k) = c.given
      BY <1>1, <1>3, <2>2 DEF Sought, Call
    <3>2. ASSUME Found(c.given) PROVE FALSE
      <4>1. c.given.lab \in Public
        BY <3>2 DEF Found
      <4>2. c.given.lab \in k.seen
        BY <1>1, <1>7, <3>1, <4>1 DEF CallSound, SeenFits
      <4> QED
        BY <1>7, <3>1, <3>2, <4>2
    <3> QED
      BY <3>2
  <2> QED
    BY <1>3, <1>4, <2>1, <2>2, NotFoundSound, StepKeeps
<1>8. CASE k.seen \subseteq Public /\ Sought(k) # Root
            /\ Sought(k).lab \in k.seen /\ Found(Sought(k))
  <2>1. PICK d : d = [c EXCEPT !.context = Sought(k), !.stage = "mode"]
    OBVIOUS
  <2>2. Step(s, d)
    BY <1>2, <1>8, <2>1 DEF FindContext
  <2>3. /\ d \in Call /\ d.stage = "mode" /\ d.context = Sought(k) /\ d.given = k.given
        /\ d.resolving = k.resolving /\ d.exit = k.exit
    BY <1>3, <1>5, <2>1 DEF Call, CallStages
  <2>4. CallSound(d)
    BY <1>1, <2>3 DEF CallSound, SeenFits, ContextFits, FailedFits, SettledFits, Sought
  <2> QED
    BY <2>2, <2>3, <2>4, StepKeeps
<1>9. CASE k.seen \subseteq Public /\ Sought(k) = Root /\ k.resolving = "next"
  <2>1. PICK d : d = [c EXCEPT !.stage = "answered"]
    OBVIOUS
  <2>2. Step(s, d)
    BY <1>2, <1>9, <2>1 DEF FindContext
  <2>3. /\ d \in Call /\ d.stage = "answered" /\ d.context = k.context /\ d.exit = k.exit
        /\ d.moved = k.moved /\ d.verb = k.verb /\ d.simulated = k.simulated
    BY <1>3, <2>1 DEF Call, CallStages
  <2>4. ModeSettled(k)
    BY <1>1, <1>9 DEF CallSound, SettledFits, Sought
  <2>5. CallSound(d)
    BY <1>1, <2>3, <2>4 DEF CallSound, SeenFits, ContextFits, FailedFits, SettledFits,
                 ModeSettled
  <2> QED
    BY <2>2, <2>3, <2>5, StepKeeps
<1>10. CASE k.seen \subseteq Public /\ Sought(k) = Root /\ k.resolving # "next"
  <2>0. k.resolving = "current" /\ k.context = Root
    BY <1>1, <1>10 DEF Call, CallSound, ContextFits
  <2>1. CASE own # {}
    <3>1. own \subseteq CliLabs
      BY <1>10 DEF Public
    <3>2. FirstIn(own) \in CliLabs
      BY <2>1, <3>1, CliAssumption
    <3>3. PICK b : b = [lab |-> FirstIn(own), target |-> NoName]
      OBVIOUS
    <3>4. Bootstrapped(k) = b
      BY <2>1, <3>3 DEF Bootstrapped
    <3>5. b \in Contexts /\ b # Root
      BY <3>2, <3>3, RootContext
    <3>6. PICK d : d = [c EXCEPT !.given = b, !.stage = "list"]
      OBVIOUS
    <3>7. Step(s, d)
      BY <1>2, <1>10, <3>4, <3>5, <3>6 DEF FindContext
    <3>8. /\ d \in Call /\ d.stage = "list" /\ d.resolving = "current" /\ d.context = Root
          /\ d.exit = k.exit
      BY <1>3, <2>0, <3>5, <3>6 DEF Call, CallStages
    <3>9. CallSound(d)
      BY <1>1, <3>8 DEF CallSound, SeenFits, ContextFits, FailedFits, SettledFits
    <3> QED
      BY <3>7, <3>8, <3>9, StepKeeps
  <2>2. CASE own = {}
    <3>1. Bootstrapped(k) = Root
      BY <2>2 DEF Bootstrapped
    <3>2. PICK a \in {"answered", "act"} : a = IF k.verb = "bootstrap" THEN "answered" ELSE "act"
      OBVIOUS
    <3>3. PICK d : d = [c EXCEPT !.stage = a]
      OBVIOUS
    <3>4. Step(s, d)
      BY <1>2, <1>3, <1>10, <3>1, <3>2, <3>3 DEF FindContext
    <3>5. d \in Call /\ d.stage = a /\ d.context = Root /\ d.exit = k.exit
      BY <1>3, <2>0, <3>3 DEF Call, CallStages
    <3>6. CallSound(d)
      BY <1>1, <3>5 DEF CallSound, SeenFits, ContextFits, FailedFits, SettledFits, ModeSettled
    <3> QED
      BY <3>4, <3>5, <3>6, StepKeeps
  <2> QED
    BY <2>1, <2>2
<1> QED
  BY <1>6, <1>7, <1>8, <1>9, <1>10

LEMMA ModeCli == \A s \in Slots : CliInv /\ ResolveMode(s) => CliInv'
<1> SUFFICES ASSUME NEW s \in Slots, CliInv, ResolveMode(s) PROVE CliInv'
  OBVIOUS
<1> DEFINE k == calls[s]
<1>1. k \in Call /\ CallSound(k) /\ k.stage = "mode" /\ k.exit # "failed"
  BY Serves DEF ResolveMode
<1>2. CASE k.context.lab \notin Public
  <2>1. PICK x \in Contexts : x = IF k.resolving = "next" THEN k.given ELSE k.context
    BY <1>1 DEF Call
  <2>2. PICK c : c = [k EXCEPT !.context = x]
    OBVIOUS
  <2>3. /\ c \in Call /\ c.stage = "mode" /\ c.resolving = k.resolving /\ c.given = k.given
        /\ c.exit = k.exit
    BY <1>1, <2>2 DEF Call
  <2>4. Step(s, NotFound(c))
    BY <1>2, <2>1, <2>2 DEF ResolveMode
  <2>5. c.resolving # "next" => ~Found(c.given)
    BY <1>1, <1>2, <2>3 DEF CallSound, ContextFits, Call, Found
  <2> QED
    BY <1>1, <2>3, <2>4, <2>5, NotFoundSound, StepKeeps DEF FailedFits
<1>3. CASE k.context.lab \in Public
  <2>1. PICK a \in {"answered", "act"} :
           a = IF k.resolving = "next" \/ k.verb = "bootstrap" THEN "answered" ELSE "act"
    OBVIOUS
  <2>2. PICK m \in BOOLEAN : m = ModeOf(k)
    BY DEF ModeOf
  <2>3. PICK d : d = [k EXCEPT !.simulated = m, !.stage = a]
    OBVIOUS
  <2>4. Step(s, d)
    BY <1>3, <2>1, <2>2, <2>3 DEF ResolveMode
  <2>5. /\ d \in Call /\ d.stage = a /\ d.exit = k.exit /\ d.context = k.context
        /\ d.simulated = m /\ d.verb = k.verb
    BY <1>1, <2>3 DEF Call, CallStages
  <2>6. ModeSettled(d)
    BY <2>2, <2>5 DEF ModeSettled, ModeOf
  <2>7. CallSound(d)
    BY <1>1, <2>5, <2>6 DEF CallSound, SeenFits, ContextFits, FailedFits, SettledFits
  <2> QED
    BY <2>4, <2>5, <2>7, StepKeeps
<1> QED
  BY <1>2, <1>3

LEMMA AnsweringSound ==
    ASSUME NEW c \in Call, NEW e \in {"ok", "refused"}, e = "ok" => ModeSettled(c)
    PROVE  /\ Answering(c, e) \in Call /\ Answering(c, e).stage = "answered"
           /\ CallSound(Answering(c, e))
<1>1. PICK d : d = [c EXCEPT !.stage = "answered", !.exit = e]
  OBVIOUS
<1>2. Answering(c, e) = d
  BY <1>1 DEF Answering
<1>3. /\ d \in Call /\ d.stage = "answered" /\ d.exit = e /\ d.context = c.context
      /\ d.moved = c.moved /\ d.verb = c.verb /\ d.simulated = c.simulated
  BY <1>1 DEF Call, CallStages
<1>4. CallSound(d)
  BY <1>3 DEF CallSound, SeenFits, ContextFits, FailedFits, SettledFits, ModeSettled
<1> QED
  BY <1>2, <1>3, <1>4

\* A command that resolves its next context keeps its mode only where that is
\* no other than before: ctx list.
LEMMA ResolvingRecord ==
    ASSUME NEW c \in Call, NEW x \in Contexts, c.exit # "failed"
    PROVE  /\ Resolving(c, x) \in Call
           /\ Resolving(c, x).stage = "list" /\ Resolving(c, x).resolving = "next"
           /\ Resolving(c, x).wanted = x /\ Resolving(c, x).exit = c.exit
           /\ Resolving(c, x).context = c.context /\ Resolving(c, x).moved = c.moved
           /\ Resolving(c, x).verb = c.verb /\ Resolving(c, x).simulated = c.simulated
BY DEF Resolving, Call, CallStages

LEMMA ResolvingSound ==
    ASSUME NEW c \in Call, NEW x \in Contexts, c.exit # "failed", x = Root => ModeSettled(c)
    PROVE  CallSound(Resolving(c, x))
BY ResolvingRecord DEF CallSound, SeenFits, ContextFits, FailedFits, SettledFits, ModeSettled

LEMMA SecondCli == \A s \in Slots : CliInv /\ SecondRead(s) => CliInv'
<1> SUFFICES ASSUME NEW s \in Slots, CliInv, SecondRead(s) PROVE CliInv'
  OBVIOUS
<1>1. /\ calls[s] \in Call /\ CallSound(calls[s]) /\ calls[s].stage = "second"
      /\ calls[s].exit # "failed"
  BY Serves DEF SecondRead
<1>2. ModeSettled(calls[s]) /\ FailedFits(calls[s])
  BY <1>1 DEF CallSound, SettledFits
<1>3. CASE calls[s].context.lab \in Public
  <2>1. Step(s, Answering(calls[s], "ok"))
    BY <1>3 DEF SecondRead
  <2> QED
    BY <1>1, <1>2, <2>1, AnsweringSound, StepKeeps
<1>4. CASE calls[s].context.lab \notin Public
  <2>1. Step(s, NotFound(calls[s]))
    BY <1>4 DEF SecondRead
  <2> QED
    BY <1>1, <1>2, <2>1, NotFoundSound, StepKeeps
<1> QED
  BY <1>3, <1>4

LEMMA ActCli == \A s \in Slots : CliInv /\ Act(s) => CliInv'
<1> SUFFICES ASSUME NEW s \in Slots, CliInv, Act(s) PROVE CliInv'
  OBVIOUS
<1> DEFINE k == calls[s]
<1>1. k \in Call /\ CallSound(k) /\ k.stage = "act" /\ k.exit # "failed"
  BY Serves DEF Act
<1>2. ModeSettled(k) /\ FailedFits(k) /\ k.context \in Contexts /\ k.wanted \in Contexts
  BY <1>1 DEF CallSound, SettledFits, Call
<1>3. CASE k.verb = "say"
  <2>1. Step(s, Answering(k, "ok"))
    BY <1>3 DEF Act
  <2> QED
    BY <1>1, <1>2, <2>1, AnsweringSound, StepKeeps
<1>4. CASE k.verb # "say" /\ ToRoot(k)
  <2>1. PICK d : d = [k EXCEPT !.stage = "answered", !.exit = "ok", !.context = Root,
                        !.simulated = FALSE]
    OBVIOUS
  <2>2. [Answering(k, "ok") EXCEPT !.context = Root, !.simulated = FALSE] = d
    BY <1>1, <2>1 DEF Answering, Call
  <2>3. Step(s, d)
    BY <1>4, <2>2 DEF Act
  <2>4. d \in Call /\ d.stage = "answered" /\ d.exit = "ok" /\ d.context = Root
    BY <1>1, <2>1, RootContext DEF Call, CallStages
  <2>5. CallSound(d)
    BY <2>4 DEF CallSound, SeenFits, ContextFits, FailedFits, SettledFits, ModeSettled
  <2> QED
    BY <2>3, <2>4, <2>5, StepKeeps
<1>5. CASE k.verb \in {"list", "switch", "bare"} /\ ~ToRoot(k)
  <2>1. Step(s, Resolving(k, k.wanted))
    BY <1>5 DEF Act
  <2> QED
    BY <1>1, <1>2, <2>1, ResolvingRecord, ResolvingSound, StepKeeps
<1>6. CASE k.verb \notin {"say", "list", "switch", "bare"} /\ ~ToRoot(k) /\ k.context = Root
  <2>1. PICK e \in {"ok", "refused"} : e = IF k.verb = "inspect" THEN "ok" ELSE "refused"
    OBVIOUS
  <2>2. Step(s, Answering(k, e))
    BY <1>6, <2>1 DEF Act
  <2> QED
    BY <1>1, <1>2, <2>2, AnsweringSound, StepKeeps
<1>7. CASE k.verb \notin {"say", "list", "switch", "bare"} /\ ~ToRoot(k) /\ k.context # Root
  <2>1. CASE k.context.lab \notin Public \/ (k.verb = "show" /\ ~Found(k.context))
    <3>1. Step(s, NotFound(k))
      BY <1>7, <2>1 DEF Act
    <3> QED
      BY <1>1, <1>2, <3>1, NotFoundSound, StepKeeps
  <2>2. CASE /\ ~(k.context.lab \notin Public \/ (k.verb = "show" /\ ~Found(k.context)))
             /\ k.verb \in {"show", "inspect"}
    <3>1. Step(s, Answering(k, "ok"))
      BY <1>7, <2>2 DEF Act
    <3> QED
      BY <1>1, <1>2, <3>1, AnsweringSound, StepKeeps
  <2>3. CASE /\ ~(k.context.lab \notin Public \/ (k.verb = "show" /\ ~Found(k.context)))
             /\ k.verb = "status"
    <3>1. Step(s, Resolving(k, k.context))
      BY <1>7, <2>3 DEF Act
    <3> QED
      BY <1>1, <1>2, <3>1, ResolvingRecord, ResolvingSound, StepKeeps
  <2>4. CASE /\ ~(k.context.lab \notin Public \/ (k.verb = "show" /\ ~Found(k.context)))
             /\ k.verb \notin {"show", "inspect", "status"}
    <3>1. PICK d : d = [k EXCEPT !.stage = "second"]
      OBVIOUS
    <3>2. Step(s, d)
      BY <1>7, <2>4, <3>1 DEF Act
    <3>3. /\ d \in Call /\ d.stage = "second" /\ d.exit = k.exit /\ d.context = k.context
          /\ d.moved = k.moved /\ d.verb = k.verb /\ d.simulated = k.simulated
      BY <1>1, <3>1 DEF Call, CallStages
    <3>4. CallSound(d)
      BY <1>1, <1>2, <3>3 DEF CallSound, SeenFits, ContextFits, FailedFits, SettledFits,
                     ModeSettled
    <3> QED
      BY <3>2, <3>3, <3>4, StepKeeps
  <2> QED
    BY <2>1, <2>2, <2>3, <2>4
<1> QED
  BY <1>3, <1>4, <1>5, <1>6, <1>7

LEMMA ScenarioCli == \A s \in Slots : CliInv /\ ActScenario(s) => CliInv'
<1> SUFFICES ASSUME NEW s \in Slots, CliInv, ActScenario(s) PROVE CliInv'
  OBVIOUS
<1> DEFINE k == calls[s]
           after == IF k.verb = "run" THEN active \cup {k.context.lab}
                    ELSE active \ {k.context.lab}
<1>1. k \in Call /\ CallSound(k) /\ k.stage = "act" /\ k.exit # "failed"
  BY Serves DEF ActScenario
<1>2. k.context \in Contexts
  BY <1>1 DEF Call
<1>3. CASE k.context = Root \/ k.context.lab \notin Public \/ after = active
  <2>1. Step(s, Answering(k, "refused"))
    BY <1>3 DEF ActScenario
  <2> QED
    BY <1>1, <2>1, AnsweringSound, StepKeeps
<1>4. CASE k.context # Root /\ k.context.lab \in Public /\ after # active
  <2>t. CliTypeOK /\ KeyFits /\ BusyFits /\ calls \in [Slots -> Call]
    BY CliTypes DEF CliInv
  <2>1. /\ active' = after /\ changes < OverlayBound /\ changes' = changes + 1
        /\ UNCHANGED <<listed, acts, terminal>>
        /\ calls' = [z \in Slots |->
              IF z = s THEN Resolving(k, k.context)
              ELSE [calls[z] EXCEPT !.moved = @ \/ Busy(z)]]
    BY <1>4 DEF ActScenario
  <2>2. calls'[s] = Resolving(k, k.context)
    BY <2>1
  <2>3. /\ calls'[s] \in Call /\ calls'[s].stage = "list" /\ calls'[s].resolving = "next"
        /\ calls'[s].wanted = k.context /\ calls'[s].exit = k.exit
    BY <1>1, <1>2, <2>2, ResolvingRecord
  <2>4. CallSound(calls[s])'
    BY <1>1, <1>4, <2>3 DEF CallSound, SeenFits, ContextFits, FailedFits, SettledFits
  <2>5. ASSUME NEW z \in Slots, z # s
        PROVE  /\ calls'[z] \in Call /\ calls'[z].stage = calls[z].stage
               /\ CallSound(calls[z])'
    <3>1. calls'[z] = [calls[z] EXCEPT !.moved = @ \/ Busy(z)]
      BY <2>1, <2>5
    <3> QED
      BY <2>1, <3>1, MovedKeeps
  <2>6. calls' \in [Slots -> Call]
    <3>1. \A z \in Slots : calls'[z] \in Call
      BY <2>3, <2>5
    <3>2. calls' = [z \in Slots |-> calls'[z]]
      BY <2>1
    <3> QED
      BY <3>1, <3>2
  <2>7. active' \subseteq CliLabs
    BY <1>4, <2>1, <2>t DEF CliTypeOK, Public
  <2>8. changes' \in 0..OverlayBound
    BY <2>1, <2>t, CliAssumption DEF CliTypeOK
  <2>9. CliTypeOK'
    BY <2>1, <2>6, <2>7, <2>8, <2>t DEF CliTypeOK
  <2>10. (KeyFits /\ BusyFits)'
    BY <2>1, <2>3, <2>5, <2>t DEF KeyFits, BusyFits
  <2> QED
    BY <2>4, <2>5, <2>9, <2>10 DEF CliInv
<1> QED
  BY <1>3, <1>4

LEMMA CliKept == CliInv /\ [CliNext]_cliVars => CliInv'
<1> SUFFICES ASSUME CliInv, [CliNext]_cliVars PROVE CliInv'
  OBVIOUS
<1>1. CASE UNCHANGED cliVars
  <2>1. /\ UNCHANGED <<listed, active, changes, acts, terminal, calls>>
    BY <1>1 DEF cliVars
  <2>2. acts \in 0..ActBound /\ terminal \in Terminals /\ calls \in [Slots -> Call]
    BY CliTypes DEF CliInv
  <2>3. (KeyFits /\ BusyFits)'
    BY <2>1 DEF CliInv, KeyFits, BusyFits
  <2> QED
    BY <2>1, <2>2, <2>3, TerminalChanges
<1>2. CASE CliNext
  BY <1>2, WithdrawCli, PanelCli, RemoveTargetCli, ToggleCli, EffectCli, CategoryCli, EnterCli,
     ListCli, FindCli, ModeCli, ActCli, ScenarioCli, SecondCli, BootstrapCli, CommandCli
  DEF CliNext
<1> QED
  BY <1>1, <1>2

LEMMA CliInvariant == CliSpec => []CliInv
BY CliInitially, CliKept, PTL DEF CliSpec

-----------------------------------------------------------------------------
\* The unified CLI's state is of its types, whatever comes and goes meanwhile.
THEOREM CliTypeCorrect == CliSpec => []CliTypeOK
<1>1. CliInv => CliTypeOK
  BY DEF CliInv
<1> QED
  BY <1>1, CliInvariant, PTL

\* A terminal that is open and waits for no answer takes commands: neither a
\* bootstrap that was cancelled nor one that fails leaves it busy
\* (TerminalEmulator's effect and handlers).
THEOREM CliNeverStuck == CliSpec => []NeverStuck
<1>1. CliInv => NeverStuck
  BY DEF CliInv, BusyFits, NeverStuck
<1> QED
  BY <1>1, CliInvariant, PTL

\* A request fails only where its context is gone or something went while it
\* ran, and the mode it answers with is the session's unless the overlay
\* changed meanwhile (UnifiedCliService.execute).
THEOREM CliAnswersFit == CliSpec => []AnswerFits
<1>1. CliInv => AnswerFits
  <2> SUFFICES ASSUME CliInv PROVE AnswerFits
    OBVIOUS
  <2>1. FailureExplained
    BY DEF CliInv, CallSound, FailedFits, FailureExplained, Answered
  <2>2. ModeFits
    BY DEF CliInv, CallSound, SettledFits, ModeSettled, ModeFits, Answered
  <2> QED
    BY <2>1, <2>2 DEF AnswerFits
<1> QED
  BY <1>1, CliInvariant, PTL

-----------------------------------------------------------------------------
\* Every nonempty set of numbers has a least one.
LEMMA LeastNumber ==
    ASSUME NEW T \in SUBSET Nat, T # {}
    PROVE  \E n \in T : \A k \in T : n <= k
<1>1. PICK n \in T : \A k \in T : ~(<<k, n>> \in OpToRel(<, Nat))
  BY NatLessThanWellFounded, WFMin
<1>2. \A k \in T : ~(k < n)
  <2> SUFFICES ASSUME NEW k \in T, k < n PROVE FALSE
    OBVIOUS
  <2>1. <<k, n>> \in OpToRel(<, Nat)
    BY DEF OpToRel
  <2> QED
    BY <1>1, <2>1
<1> QED
  BY <1>2

\* A finite nonempty set has an element of the highest priority.
LEMMA Highest ==
    ASSUME NEW f, NEW S, IsFiniteSet(S), S # {}, \A x \in S : f[x] \in Nat
    PROVE  \E x \in S : \A y \in S : f[y] <= f[x]
<1> DEFINE Bad(n) == \E Z \in SUBSET S : /\ IsFiniteSet(Z) /\ Z # {} /\ Cardinality(Z) = n
                                         /\ ~\E x \in Z : \A y \in Z : f[y] <= f[x]
           T == {n \in Nat : Bad(n)}
<1> SUFFICES ASSUME ~\E x \in S : \A y \in S : f[y] <= f[x] PROVE FALSE
  OBVIOUS
<1>1. T # {}
  <2>1. Cardinality(S) \in Nat
    BY FS_CardinalityType
  <2>2. Bad(Cardinality(S))
    OBVIOUS
  <2> QED
    BY <2>1, <2>2
<1>2. PICK n \in T : \A k \in T : n <= k
  BY <1>1, LeastNumber
<1>3. PICK Z \in SUBSET S : /\ IsFiniteSet(Z) /\ Z # {} /\ Cardinality(Z) = n
                            /\ ~\E x \in Z : \A y \in Z : f[y] <= f[x]
  BY <1>2
<1>4. PICK z : z \in Z
  BY <1>3
<1>5. PICK R : R = Z \ {z}
  OBVIOUS
<1>6. IsFiniteSet(R) /\ Cardinality(R) = n - 1 /\ R \subseteq S
  BY <1>3, <1>4, <1>5, FS_RemoveElement
<1>7. R # {}
  <2> SUFFICES ASSUME R = {} PROVE FALSE
    OBVIOUS
  <2>1. Z = {z}
    BY <1>4, <1>5
  <2>2. \A y \in Z : f[y] <= f[z]
    BY <2>1
  <2> QED
    BY <1>3, <1>4, <2>2
<1>8. n - 1 \notin T
  BY <1>2
<1>9. n - 1 \in Nat
  BY <1>6, FS_CardinalityType
<1>10. ~Bad(n - 1)
  BY <1>8, <1>9
<1>11. PICK x \in R : \A y \in R : f[y] <= f[x]
  BY <1>6, <1>7, <1>10
<1>12. x \in Z /\ x \in S /\ z \in S /\ \A y \in Z : f[y] \in Nat
  BY <1>3, <1>4, <1>5
<1>13. CASE f[z] <= f[x]
  <2>1. \A y \in Z : f[y] <= f[x]
    BY <1>5, <1>11, <1>13
  <2> QED
    BY <1>3, <1>12, <2>1
<1>14. CASE f[x] <= f[z]
  <2>1. \A y \in Z : f[y] <= f[z]
    BY <1>5, <1>11, <1>12, <1>14
  <2> QED
    BY <1>3, <1>4, <2>1
<1> QED
  BY <1>12, <1>13, <1>14

-----------------------------------------------------------------------------
\* A mutation has taken: its verification finds it, and a workload is in the
\* status asked for, which the verification does not look at.
Took(l, m) == Verified(l, m) /\ (m.type = "SET_WORKLOAD_READINESS" => l.workload = m.to)
AllTook == \A i \in DOMAIN list : Stands(i) => Took(effective, list[i])

\* The gateway group of a state is led by a member that works, while any does.
Leads(l) ==
    /\ \A m \in Members : l.member[m] # "DOWN" => l.device[m] = "UP"
    /\ \A m \in Members : l.role[m] = "ACTIVE" =>
          l.member[m] # "DOWN" /\ \A o \in Members : l.role[o] = "ACTIVE" => o = m
    /\ (\E m \in Members : l.member[m] # "DOWN") => \E m \in Members : l.role[m] = "ACTIVE"

NetworkRead(l, s) == l \in NetworkLab /\ s \in Seq(NetworkMutation) /\ Leads(l)
HostRead(l, s) == l \in HostLab /\ s \in Seq(HostMutation) /\ l.volume = l.mount
DeliveryRead(l, s) ==
    /\ l \in DeliveryLab /\ s \in Seq(DeliveryMutation)
    /\ l.pipeline = "FAILED" => \E g \in PipelineStages : l.stage[g] = "FAILED"

MutationsInv ==
    /\ warned \in BOOLEAN
    /\ \/ NetworkRead(baseline, <<>>) /\ NetworkRead(effective, list)
       \/ HostRead(baseline, <<>>) /\ HostRead(effective, list)
       \/ DeliveryRead(baseline, <<>>) /\ DeliveryRead(effective, list)
    /\ AllTook

LEMMA Domains ==
    /\ \A l \in NetworkLab : IsNetwork(l) /\ ~IsHost(l) /\ ~IsDelivery(l)
    /\ \A l \in HostLab : ~IsNetwork(l) /\ IsHost(l) /\ ~IsDelivery(l)
    /\ \A l \in DeliveryLab : ~IsNetwork(l) /\ ~IsHost(l) /\ IsDelivery(l)
BY DEF NetworkLab, HostLab, DeliveryLab, IsNetwork, IsHost, IsDelivery

LEMMA NetworkBaselines == \A l \in NetworkLab : CleanNetwork(l) => Leads(l)
<1> SUFFICES ASSUME NEW l \in NetworkLab, CleanNetwork(l) PROVE Leads(l)
  OBVIOUS
<1>1. PICK m \in Members : /\ l.role = [x \in Members |-> IF x = m THEN "ACTIVE" ELSE "STANDBY"]
                           /\ l.member[m] = "UP"
  BY DEF CleanNetwork
<1>2. \A x \in Members : l.role[x] = "ACTIVE" <=> x = m
  BY <1>1
<1>3. \A x \in Members : l.device[x] \in {"UP", "DOWN"}
  BY MutationsAssumption DEF NetworkLab, Usable
<1>4. \A x \in Members : l.device[x] = "DOWN" <=> l.member[x] = "DOWN"
  BY DEF CleanNetwork
<1> QED
  BY <1>1, <1>2, <1>3, <1>4 DEF Leads

LEMMA BaselineReads ==
    ASSUME baseline \in Baselines
    PROVE  \/ NetworkRead(baseline, <<>>)
           \/ HostRead(baseline, <<>>)
           \/ DeliveryRead(baseline, <<>>)
<1>1. CASE baseline \in {l \in NetworkLab : CleanNetwork(l)}
  BY <1>1, NetworkBaselines DEF NetworkRead
<1>2. CASE baseline \in [host: {"UP"}, service: {[u \in Services |-> "ACTIVE"]},
            mount: {[t \in Targets |-> "MOUNTED"]},
            volume: {[t \in Targets |-> "MOUNTED"]},
            port: {[p \in Ports |-> "UP"]}, denials: SUBSET {"recorded"}]
  BY <1>2 DEF HostRead, HostLab, Usable
<1>3. CASE baseline \in [stage: {[s \in PipelineStages |-> "SUCCESS"]}, pipeline: {"SUCCESS"},
            drift: {"CLEAN"}, ready: {Desired}, workload: {"READY"},
            sync: {"SYNCED"}, health: {"HEALTHY"}, signal: {"PASS"}]
  BY <1>3, MutationsAssumption DEF DeliveryRead, DeliveryLab
<1> QED
  BY <1>1, <1>2, <1>3 DEF Baselines

LEMMA MutationsInitially == MutationsInit => MutationsInv
<1> SUFFICES ASSUME MutationsInit PROVE MutationsInv
  OBVIOUS
<1>1. effective = baseline /\ list = <<>> /\ warned = FALSE /\ baseline \in Baselines
  BY DEF MutationsInit
<1>2. AllTook
  BY <1>1 DEF AllTook
<1> QED
  BY <1>1, <1>2, BaselineReads DEF MutationsInv

LEMMA ReadsAgain ==
    ASSUME MutationsInv, effective' = baseline, list' = <<>>, warned' \in BOOLEAN,
           UNCHANGED baseline
    PROVE  MutationsInv'
<1>1. AllTook'
  BY DEF AllTook
<1> QED
  BY <1>1 DEF MutationsInv, NetworkRead, HostRead, DeliveryRead

\* One more mutation: those that it does not undo still stand.
LEMMA AppendTook ==
    ASSUME NEW M, list \in Seq(M), NEW m \in M, list' = Append(list, m), AllTook,
           \A x \in M : Took(effective, x) /\ ~Undoes(m, x) => Took(effective', x),
           Took(effective', m)
    PROVE  AllTook' /\ list' \in Seq(M)
<1>1. PICK n \in Nat : n = Len(list)
  OBVIOUS
<1>2. /\ DOMAIN list = 1..n /\ Len(list') = n + 1 /\ DOMAIN list' = 1..(n + 1)
      /\ \A i \in 1..n : list'[i] = list[i] /\ list[i] \in M
      /\ list'[n + 1] = m
  BY <1>1
<1>3. ASSUME NEW i \in 1..(n + 1), Stands(i)'
      PROVE  Took(effective', list'[i])
  <2>1. CASE i = n + 1
    BY <1>2, <2>1
  <2>2. CASE i \in 1..n
    <3>1. \A j \in (i + 1)..(n + 1) : ~Undoes(list'[j], list'[i])
      BY <1>2, <1>3 DEF Stands, Undoes
    <3>2. ~Undoes(m, list[i])
      BY <1>2, <2>2, <3>1
    <3>3. \A j \in (i + 1)..n : ~Undoes(list[j], list[i])
      BY <1>2, <2>2, <3>1
    <3>4. Stands(i)
      BY <1>1, <3>3 DEF Stands
    <3>5. Took(effective, list[i]) /\ list[i] \in M
      BY <1>2, <2>2, <3>4 DEF AllTook
    <3>6. list'[i] = list[i]
      BY <1>2, <2>2
    <3>7. Took(effective', list[i])
      BY <3>2, <3>5
    <3> QED
      BY <3>6, <3>7
  <2>3. i = n + 1 \/ i \in 1..n
    OBVIOUS
  <2> QED
    BY <2>1, <2>2, <2>3
<1>4. list' \in Seq(M)
  OBVIOUS
<1>5. AllTook'
  BY <1>2, <1>3 DEF AllTook, Took, Verified
<1> QED
  BY <1>4, <1>5

-----------------------------------------------------------------------------
\* Networking.
LEMMA TookNetwork ==
    ASSUME NEW l, NEW x \in NetworkMutation
    PROVE  /\ x.type \in {"SET_LINK_STATUS", "SET_DEVICE_STATUS", "SET_OSPF_NEIGHBOR_STATE"}
           /\ x.type = "SET_LINK_STATUS" => x.on \in Links /\ x.to \in Usable
           /\ x.type = "SET_DEVICE_STATUS" => x.on \in Devices /\ x.to \in Usable
           /\ x.type = "SET_OSPF_NEIGHBOR_STATE" => x.on \in Neighbors
           /\ Took(l, x) <=> /\ x.type = "SET_LINK_STATUS" => l.link[x.on] = x.to
                             /\ x.type = "SET_DEVICE_STATUS" => l.device[x.on] = x.to
                             /\ x.type = "SET_OSPF_NEIGHBOR_STATE" => l.neighbor[x.on] = x.to
<1>1. CASE x \in [type: {"SET_LINK_STATUS"}, on: Links, to: Usable]
  BY <1>1 DEF Took, Verified
<1>2. CASE x \in [type: {"SET_DEVICE_STATUS"}, on: Devices, to: Usable]
  BY <1>2 DEF Took, Verified
<1>3. CASE x \in [type: {"SET_OSPF_NEIGHBOR_STATE"}, on: Neighbors, to: {"FULL", "INIT", "DOWN"}]
  BY <1>3 DEF Took, Verified
<1> QED
  BY <1>1, <1>2, <1>3 DEF NetworkMutation

\* What a networking mutation has to show for the invariant to stand.
LEMMA NetworkKeeps ==
    ASSUME MutationsInv, effective \in NetworkLab, NEW m \in NetworkMutation, Applied(m),
           effective' \in NetworkLab, Leads(effective) => Leads(effective'),
           \A x \in NetworkMutation : Took(effective, x) /\ ~Undoes(m, x) => Took(effective', x),
           Took(effective', m)
    PROVE  MutationsInv'
<1>1. NetworkRead(baseline, <<>>) /\ NetworkRead(effective, list)
  BY Domains DEF MutationsInv, HostRead, DeliveryRead
<1>2. list' = Append(list, m) /\ UNCHANGED <<baseline, warned>>
  BY DEF Applied
<1>3. AllTook' /\ list' \in Seq(NetworkMutation)
  BY <1>1, <1>2, AppendTook DEF MutationsInv, NetworkRead
<1>4. NetworkRead(baseline, <<>>)' /\ NetworkRead(effective, list)'
  BY <1>1, <1>2, <1>3 DEF NetworkRead
<1> QED
  BY <1>2, <1>3, <1>4 DEF MutationsInv

LEMMA IsInNetwork ==
    MutationsInv /\ IsNetwork(effective) => effective \in NetworkLab /\ Leads(effective)
BY Domains DEF MutationsInv, NetworkRead, HostRead, DeliveryRead

LEMMA LinkMutation == MutationsInv /\ SetLinkStatus => MutationsInv'
<1> SUFFICES ASSUME MutationsInv, SetLinkStatus PROVE MutationsInv'
  OBVIOUS
<1>t. effective \in NetworkLab /\ Leads(effective)
  BY IsInNetwork DEF SetLinkStatus
<1>1. PICK k \in Links, s \in Usable :
          /\ Applied([type |-> "SET_LINK_STATUS", on |-> k, to |-> s])
          /\ effective' = LinkSet(effective, k, s)
  BY DEF SetLinkStatus
<1>2. PICK m : m = [type |-> "SET_LINK_STATUS", on |-> k, to |-> s]
  OBVIOUS
<1>3. /\ m \in NetworkMutation /\ m.type = "SET_LINK_STATUS" /\ m.on = k /\ m.to = s
  BY <1>2 DEF NetworkMutation
<1>4. PICK f : f = [n \in Neighbors |->
                  IF s = "DOWN" /\ NeighborEnds[n] \subseteq EndsOfLink[k]
                  THEN "DOWN" ELSE effective.neighbor[n]]
  OBVIOUS
<1>5. effective' = [effective EXCEPT !.link[k] = s, !.neighbor = f]
  BY <1>t, <1>1, <1>4 DEF LinkSet, NetworkLab
<1>6. f \in [Neighbors -> {"FULL", "INIT", "DOWN"}]
  BY <1>t, <1>4 DEF NetworkLab
<1>7. /\ effective' \in NetworkLab
      /\ effective'.link = [effective.link EXCEPT ![k] = s] /\ effective'.neighbor = f
      /\ effective'.device = effective.device /\ effective'.member = effective.member
      /\ effective'.role = effective.role
  BY <1>t, <1>5, <1>6 DEF NetworkLab
<1>8. Leads(effective')
  BY <1>t, <1>7 DEF Leads
<1>9. ASSUME NEW x \in NetworkMutation, Took(effective, x), ~Undoes(m, x)
      PROVE  Took(effective', x)
  <2>1. CASE x.type = "SET_LINK_STATUS"
    <3>1. x.on # k
      BY <1>3, <1>9, <2>1 DEF Undoes
    <3> QED
      BY <1>t, <1>7, <1>9, <2>1, <3>1, TookNetwork DEF NetworkLab
  <2>2. CASE x.type = "SET_DEVICE_STATUS"
    BY <1>7, <1>9, <2>2, TookNetwork
  <2>3. CASE x.type = "SET_OSPF_NEIGHBOR_STATE"
    <3>1. x.on \in Neighbors /\ ~(s = "DOWN" /\ NeighborEnds[x.on] \subseteq EndsOfLink[k])
      BY <1>3, <1>9, <2>3, TookNetwork DEF Undoes
    <3>2. f[x.on] = effective.neighbor[x.on]
      BY <1>4, <3>1
    <3> QED
      BY <1>7, <1>9, <2>3, <3>2, TookNetwork
  <2> QED
    BY <2>1, <2>2, <2>3, TookNetwork
<1>10. Took(effective', m)
  BY <1>t, <1>3, <1>7, TookNetwork DEF NetworkLab
<1> QED
  BY <1>t, <1>1, <1>2, <1>3, <1>7, <1>8, <1>9, <1>10, NetworkKeeps

LEMMA NeighborMutation == MutationsInv /\ SetOspfNeighborState => MutationsInv'
<1> SUFFICES ASSUME MutationsInv, SetOspfNeighborState PROVE MutationsInv'
  OBVIOUS
<1>t. effective \in NetworkLab /\ Leads(effective)
  BY IsInNetwork DEF SetOspfNeighborState
<1>1. PICK n \in Neighbors, s \in {"FULL", "INIT", "DOWN"} :
          /\ Applied([type |-> "SET_OSPF_NEIGHBOR_STATE", on |-> n, to |-> s])
          /\ effective' = [effective EXCEPT !.neighbor[n] = s]
  BY DEF SetOspfNeighborState
<1>2. PICK m : m = [type |-> "SET_OSPF_NEIGHBOR_STATE", on |-> n, to |-> s]
  OBVIOUS
<1>3. m \in NetworkMutation /\ m.type = "SET_OSPF_NEIGHBOR_STATE" /\ m.on = n /\ m.to = s
  BY <1>2 DEF NetworkMutation
<1>4. /\ effective' \in NetworkLab
      /\ effective'.neighbor = [effective.neighbor EXCEPT ![n] = s]
      /\ effective'.link = effective.link
      /\ effective'.device = effective.device /\ effective'.member = effective.member
      /\ effective'.role = effective.role
  BY <1>t, <1>1 DEF NetworkLab
<1>5. Leads(effective')
  BY <1>t, <1>4 DEF Leads
<1>6. ASSUME NEW x \in NetworkMutation, Took(effective, x), ~Undoes(m, x)
      PROVE  Took(effective', x)
  <2>1. CASE x.type # "SET_OSPF_NEIGHBOR_STATE"
    BY <1>4, <1>6, <2>1, TookNetwork
  <2>2. CASE x.type = "SET_OSPF_NEIGHBOR_STATE"
    <3>1. x.on # n
      BY <1>3, <1>6, <2>2 DEF Undoes
    <3> QED
      BY <1>t, <1>4, <1>6, <2>2, <3>1, TookNetwork DEF NetworkLab
  <2> QED
    BY <2>1, <2>2
<1>7. Took(effective', m)
  BY <1>t, <1>3, <1>4, TookNetwork DEF NetworkLab
<1> QED
  BY <1>t, <1>1, <1>2, <1>3, <1>4, <1>5, <1>6, <1>7, NetworkKeeps

LEMMA UpMutation == MutationsInv /\ SetDeviceUp => MutationsInv'
<1> SUFFICES ASSUME MutationsInv, SetDeviceUp PROVE MutationsInv'
  OBVIOUS
<1>t. effective \in NetworkLab /\ Leads(effective)
  BY IsInNetwork DEF SetDeviceUp
<1>1. PICK d \in Devices :
          /\ Applied([type |-> "SET_DEVICE_STATUS", on |-> d, to |-> "UP"])
          /\ effective' = [effective EXCEPT !.device[d] = "UP"]
  BY DEF SetDeviceUp
<1>2. PICK m : m = [type |-> "SET_DEVICE_STATUS", on |-> d, to |-> "UP"]
  OBVIOUS
<1>3. m \in NetworkMutation /\ m.type = "SET_DEVICE_STATUS" /\ m.on = d /\ m.to = "UP"
  BY <1>2 DEF NetworkMutation, Usable
<1>4. /\ effective' \in NetworkLab
      /\ effective'.device = [effective.device EXCEPT ![d] = "UP"]
      /\ effective'.link = effective.link
      /\ effective'.neighbor = effective.neighbor /\ effective'.member = effective.member
      /\ effective'.role = effective.role
  BY <1>t, <1>1 DEF NetworkLab, Usable
<1>5. Leads(effective')
  BY <1>t, <1>4, MutationsAssumption DEF Leads, NetworkLab
<1>6. ASSUME NEW x \in NetworkMutation, Took(effective, x), ~Undoes(m, x)
      PROVE  Took(effective', x)
  <2>1. CASE x.type # "SET_DEVICE_STATUS"
    BY <1>4, <1>6, <2>1, TookNetwork
  <2>2. CASE x.type = "SET_DEVICE_STATUS"
    <3>1. x.on # d
      BY <1>3, <1>6, <2>2 DEF Undoes
    <3> QED
      BY <1>t, <1>4, <1>6, <2>2, <3>1, TookNetwork DEF NetworkLab
  <2> QED
    BY <2>1, <2>2
<1>7. Took(effective', m)
  BY <1>t, <1>3, <1>4, TookNetwork DEF NetworkLab
<1> QED
  BY <1>t, <1>1, <1>2, <1>3, <1>4, <1>5, <1>6, <1>7, NetworkKeeps

\* The member that takes over leads again; without one nobody is left to.
LEMMA Succession ==
    ASSUME NEW l \in NetworkLab, Leads(l), NEW d \in Members,
           NEW heirs \in SUBSET Heirs(l, d), Cardinality(heirs) = 1 \/ Heirs(l, d) = {},
           NEW l2 \in NetworkLab, l2.device = [l.device EXCEPT ![d] = "DOWN"],
           l2.role = RoleAfter(l, d, heirs), l2.member = MemberAfter(l, d, heirs)
    PROVE  Leads(l2)
<1> DEFINE standing == {m \in Members \ {d} : l.member[m] # "DOWN"}
<1>1. /\ l2.member[d] = "DOWN" /\ l2.device[d] = "DOWN"
      /\ \A m \in Members : m # d => l2.device[m] = l.device[m]
  BY MutationsAssumption DEF MemberAfter, NetworkLab
<1>2. heirs \subseteq standing /\ Heirs(l, d) \subseteq standing
  BY DEF Heirs
<1>3. CASE l.role[d] # "ACTIVE"
  <2>1. \A m \in Members : l2.role[m] = l.role[m] /\ (m # d => l2.member[m] = l.member[m])
    BY <1>3 DEF RoleAfter, MemberAfter
  <2> QED
    BY <1>1, <1>3, <2>1 DEF Leads
<1>4. CASE l.role[d] = "ACTIVE"
  <2>1. \A m \in Members : /\ l2.role[m] = IF m = d THEN "LISTEN"
                                           ELSE IF m \in heirs THEN "ACTIVE" ELSE l.role[m]
                           /\ m # d => l2.member[m] = IF m \in heirs THEN "UP"
                                                      ELSE l.member[m]
    BY <1>4 DEF RoleAfter, MemberAfter
  <2>2. \A m \in Members : l.role[m] = "ACTIVE" => m = d
    BY <1>4 DEF Leads
  <2>3. \A m \in Members : l2.role[m] = "ACTIVE" <=> m \in heirs
    BY <1>2, <2>1, <2>2
  <2>4. CASE standing = {}
    <3>1. heirs = {} /\ \A m \in Members : l2.member[m] = "DOWN"
      BY <1>1, <1>2, <2>1, <2>4
    <3> QED
      BY <2>3, <3>1 DEF Leads
  <2>5. CASE standing # {}
    <3>1. IsFiniteSet(standing) /\ \A m \in standing : Priority[m] \in Nat
      BY MutationsAssumption, FS_Subset
    <3>2. \E m \in standing : \A o \in standing : Priority[o] <= Priority[m]
      BY <2>5, <3>1, Highest
    <3>3. Heirs(l, d) # {}
      BY <3>2 DEF Heirs
    <3>4. IsFiniteSet(heirs)
      BY <1>2, <3>1, FS_Subset
    <3>5. PICK h : heirs = {h}
      BY <3>3, <3>4, FS_Singleton
    <3>6. h \in Members /\ h # d /\ l.member[h] # "DOWN"
      BY <1>2, <3>5
    <3>7. l2.role[h] = "ACTIVE" /\ l2.member[h] = "UP" /\ l2.device[h] = "UP"
      BY <1>1, <2>1, <3>5, <3>6 DEF Leads
    <3>8. \A m \in Members : l2.member[m] # "DOWN" => l2.device[m] = "UP"
      BY <1>1, <2>1, <3>5, <3>7 DEF Leads
    <3> QED
      BY <2>3, <3>5, <3>6, <3>7, <3>8 DEF Leads
  <2> QED
    BY <2>4, <2>5
<1> QED
  BY <1>3, <1>4

LEMMA DownMutation == MutationsInv /\ SetDeviceDown => MutationsInv'
<1> SUFFICES ASSUME MutationsInv, SetDeviceDown PROVE MutationsInv'
  OBVIOUS
<1>t. effective \in NetworkLab /\ Leads(effective)
  BY IsInNetwork DEF SetDeviceDown
<1>1. PICK d \in Devices :
          LET dropped == [effective EXCEPT !.device[d] = "DOWN",
                              !.neighbor = [n \in Neighbors |->
                                  IF d \in NeighborEnds[n] THEN "DOWN" ELSE @[n]]]
          IN  /\ Applied([type |-> "SET_DEVICE_STATUS", on |-> d, to |-> "DOWN"])
              /\ \/ d \notin Members /\ effective' = dropped
                 \/ /\ d \in Members
                    /\ \E heirs \in SUBSET Heirs(effective, d) :
                          /\ Cardinality(heirs) = 1 \/ Heirs(effective, d) = {}
                          /\ effective' = [dropped EXCEPT
                                        !.role = RoleAfter(effective, d, heirs),
                                        !.member = MemberAfter(effective, d, heirs)]
  BY DEF SetDeviceDown
<1>2. PICK m : m = [type |-> "SET_DEVICE_STATUS", on |-> d, to |-> "DOWN"]
  OBVIOUS
<1>3. m \in NetworkMutation /\ m.type = "SET_DEVICE_STATUS" /\ m.on = d /\ m.to = "DOWN"
  BY <1>2 DEF NetworkMutation, Usable
<1>4. PICK f : f = [n \in Neighbors |->
                      IF d \in NeighborEnds[n] THEN "DOWN" ELSE effective.neighbor[n]]
  OBVIOUS
<1>5. f \in [Neighbors -> {"FULL", "INIT", "DOWN"}]
  BY <1>t, <1>4 DEF NetworkLab
<1>6. PICK dropped : dropped = [effective EXCEPT !.device[d] = "DOWN", !.neighbor = f]
  OBVIOUS
<1>7. /\ dropped \in NetworkLab
      /\ dropped.device = [effective.device EXCEPT ![d] = "DOWN"] /\ dropped.neighbor = f
      /\ dropped.link = effective.link /\ dropped.member = effective.member
      /\ dropped.role = effective.role
  BY <1>t, <1>5, <1>6 DEF NetworkLab, Usable
<1>8. \/ d \notin Members /\ effective' = dropped
      \/ /\ d \in Members
         /\ \E heirs \in SUBSET Heirs(effective, d) :
               /\ Cardinality(heirs) = 1 \/ Heirs(effective, d) = {}
               /\ effective' = [dropped EXCEPT
                             !.role = RoleAfter(effective, d, heirs),
                             !.member = MemberAfter(effective, d, heirs)]
  BY <1>t, <1>1, <1>4, <1>6 DEF NetworkLab
<1>9. /\ effective' \in NetworkLab /\ Leads(effective')
      /\ effective'.device = dropped.device /\ effective'.neighbor = f
      /\ effective'.link = effective.link
  <2>1. CASE d \notin Members /\ effective' = dropped
    <3>1. \A x \in Members : dropped.device[x] = effective.device[x]
      BY <1>t, <1>7, <2>1, MutationsAssumption DEF NetworkLab
    <3>2. Leads(dropped)
      BY <1>t, <1>7, <3>1 DEF Leads
    <3> QED
      BY <1>7, <2>1, <3>2
  <2>2. CASE d \in Members
    <3>1. PICK heirs \in SUBSET Heirs(effective, d) :
               /\ Cardinality(heirs) = 1 \/ Heirs(effective, d) = {}
               /\ effective' = [dropped EXCEPT
                             !.role = RoleAfter(effective, d, heirs),
                             !.member = MemberAfter(effective, d, heirs)]
      BY <1>8, <2>2
    <3>2. RoleAfter(effective, d, heirs) \in [Members -> {"ACTIVE", "STANDBY", "LISTEN"}]
      BY <1>t DEF RoleAfter, NetworkLab
    <3>3. MemberAfter(effective, d, heirs) \in [Members -> {"UP", "STANDBY", "DOWN"}]
      BY <1>t DEF MemberAfter, NetworkLab
    <3>4. PICK r \in [Members -> {"ACTIVE", "STANDBY", "LISTEN"}],
               b \in [Members -> {"UP", "STANDBY", "DOWN"}] :
             r = RoleAfter(effective, d, heirs) /\ b = MemberAfter(effective, d, heirs)
      BY <3>2, <3>3
    <3>5. effective' = [dropped EXCEPT !.role = r, !.member = b]
      BY <3>1, <3>4
    <3>6. /\ effective' \in NetworkLab /\ effective'.device = dropped.device
          /\ effective'.neighbor = f /\ effective'.link = effective.link
          /\ effective'.role = r /\ effective'.member = b
      BY <1>7, <3>5 DEF NetworkLab
    <3>7. Leads(effective')
      <4>1. PICK e : e = effective'
        OBVIOUS
      <4>2. /\ e \in NetworkLab /\ e.device = [effective.device EXCEPT ![d] = "DOWN"]
            /\ e.role = RoleAfter(effective, d, heirs)
            /\ e.member = MemberAfter(effective, d, heirs)
        BY <1>7, <3>4, <3>6, <4>1
      <4>3. Leads(e)
        BY <1>t, <2>2, <3>1, <4>2, Succession
      <4> QED
        BY <4>1, <4>3
    <3> QED
      BY <3>6, <3>7
  <2> QED
    BY <1>8, <2>1, <2>2
<1>10. ASSUME NEW x \in NetworkMutation, Took(effective, x), ~Undoes(m, x)
       PROVE  Took(effective', x)
  <2>1. CASE x.type = "SET_LINK_STATUS"
    BY <1>9, <1>10, <2>1, TookNetwork
  <2>2. CASE x.type = "SET_DEVICE_STATUS"
    <3>1. x.on # d
      BY <1>3, <1>10, <2>2 DEF Undoes
    <3> QED
      BY <1>t, <1>7, <1>9, <1>10, <2>2, <3>1, TookNetwork DEF NetworkLab
  <2>3. CASE x.type = "SET_OSPF_NEIGHBOR_STATE"
    <3>1. x.on \in Neighbors /\ d \notin NeighborEnds[x.on]
      BY <1>3, <1>10, <2>3, TookNetwork DEF Undoes
    <3>2. f[x.on] = effective.neighbor[x.on]
      BY <1>4, <3>1
    <3> QED
      BY <1>9, <1>10, <2>3, <3>2, TookNetwork
  <2> QED
    BY <2>1, <2>2, <2>3, TookNetwork
<1>11. Took(effective', m)
  <2>1. effective'.device[d] = "DOWN"
    BY <1>t, <1>7, <1>9 DEF NetworkLab
  <2> QED
    BY <1>3, <2>1, TookNetwork
<1>12. Applied(m)
  BY <1>1, <1>2
<1> QED
  BY <1>t, <1>3, <1>9, <1>10, <1>11, <1>12, NetworkKeeps

-----------------------------------------------------------------------------
\* Linux.
LEMMA TookHost ==
    ASSUME NEW l, NEW x \in HostMutation
    PROVE  /\ x.type \in {"SET_SERVICE_STATE", "ADD_RECORDED_AVC_DENIAL", "SET_MOUNT_STATE",
                          "SET_INTERFACE_STATE"}
           /\ x.type = "SET_SERVICE_STATE" => x.on \in Services
           /\ x.type = "ADD_RECORDED_AVC_DENIAL" => x.on = "host" /\ x.to = "injected"
           /\ x.type = "SET_MOUNT_STATE" => x.on \in Targets
           /\ x.type = "SET_INTERFACE_STATE" => x.on \in Ports
           /\ Took(l, x) <=> /\ x.type = "SET_SERVICE_STATE" => l.service[x.on] = x.to
                             /\ x.type = "ADD_RECORDED_AVC_DENIAL" => x.to \in l.denials
                             /\ x.type = "SET_MOUNT_STATE" => l.mount[x.on] = x.to
                             /\ x.type = "SET_INTERFACE_STATE" => l.port[x.on] = x.to
<1>1. CASE x \in [type: {"SET_SERVICE_STATE"}, on: Services, to: {"ACTIVE", "INACTIVE", "FAILED"}]
  BY <1>1 DEF Took, Verified
<1>2. CASE x \in [type: {"ADD_RECORDED_AVC_DENIAL"}, on: {"host"}, to: {"injected"}]
  BY <1>2 DEF Took, Verified
<1>3. CASE x \in [type: {"SET_MOUNT_STATE"}, on: Targets,
                  to: {"MOUNTED", "UNMOUNTED", "DEGRADED"}]
  BY <1>3 DEF Took, Verified
<1>4. CASE x \in [type: {"SET_INTERFACE_STATE"}, on: Ports, to: Usable]
  BY <1>4 DEF Took, Verified
<1> QED
  BY <1>1, <1>2, <1>3, <1>4 DEF HostMutation

LEMMA HostKeeps ==
    ASSUME MutationsInv, effective \in HostLab, NEW m \in HostMutation, Applied(m),
           effective' \in HostLab,
           effective.volume = effective.mount => effective'.volume = effective'.mount,
           \A x \in HostMutation : Took(effective, x) /\ ~Undoes(m, x) => Took(effective', x),
           Took(effective', m)
    PROVE  MutationsInv'
<1>1. HostRead(baseline, <<>>) /\ HostRead(effective, list)
  BY Domains DEF MutationsInv, NetworkRead, DeliveryRead
<1>2. list' = Append(list, m) /\ UNCHANGED <<baseline, warned>>
  BY DEF Applied
<1>3. AllTook' /\ list' \in Seq(HostMutation)
  BY <1>1, <1>2, AppendTook DEF MutationsInv, HostRead
<1>4. HostRead(baseline, <<>>)' /\ HostRead(effective, list)'
  BY <1>1, <1>2, <1>3 DEF HostRead
<1> QED
  BY <1>2, <1>3, <1>4 DEF MutationsInv

LEMMA IsOnHost == MutationsInv /\ IsHost(effective) => effective \in HostLab
BY Domains DEF MutationsInv, NetworkRead, HostRead, DeliveryRead

LEMMA DegradedHost ==
    ASSUME NEW l \in HostLab, NEW fault \in BOOLEAN
    PROVE  Degraded(l, fault) \in {"UP", "DEGRADED"}
BY DEF Degraded, HostLab

LEMMA ServiceMutation == MutationsInv /\ SetServiceState => MutationsInv'
<1> SUFFICES ASSUME MutationsInv, SetServiceState PROVE MutationsInv'
  OBVIOUS
<1>t. effective \in HostLab
  BY IsOnHost DEF SetServiceState
<1>1. PICK u \in Services, s \in {"ACTIVE", "INACTIVE", "FAILED"} :
          /\ Applied([type |-> "SET_SERVICE_STATE", on |-> u, to |-> s])
          /\ effective' = [effective EXCEPT !.service[u] = s,
                                !.host = Degraded(effective, s = "FAILED")]
  BY DEF SetServiceState
<1>2. PICK m : m = [type |-> "SET_SERVICE_STATE", on |-> u, to |-> s]
  OBVIOUS
<1>3. m \in HostMutation /\ m.type = "SET_SERVICE_STATE" /\ m.on = u /\ m.to = s
  BY <1>2 DEF HostMutation
<1>4. PICK h \in {"UP", "DEGRADED"} : h = Degraded(effective, s = "FAILED")
  BY <1>t, DegradedHost
<1>5. effective' = [effective EXCEPT !.service[u] = s, !.host = h]
  BY <1>1, <1>4
<1>6. /\ effective' \in HostLab
      /\ effective'.service = [effective.service EXCEPT ![u] = s]
      /\ effective'.mount = effective.mount /\ effective'.volume = effective.volume
      /\ effective'.port = effective.port /\ effective'.denials = effective.denials
  BY <1>t, <1>5 DEF HostLab
<1>7. ASSUME NEW x \in HostMutation, Took(effective, x), ~Undoes(m, x)
      PROVE  Took(effective', x)
  <2>1. CASE x.type # "SET_SERVICE_STATE"
    BY <1>6, <1>7, <2>1, TookHost
  <2>2. CASE x.type = "SET_SERVICE_STATE"
    <3>1. x.on # u
      BY <1>3, <1>7, <2>2 DEF Undoes
    <3> QED
      BY <1>t, <1>6, <1>7, <2>2, <3>1, TookHost DEF HostLab
  <2> QED
    BY <2>1, <2>2
<1>8. Took(effective', m)
  BY <1>t, <1>3, <1>6, TookHost DEF HostLab
<1> QED
  BY <1>t, <1>1, <1>2, <1>3, <1>6, <1>7, <1>8, HostKeeps

LEMMA DenialMutation == MutationsInv /\ AddRecordedAvcDenial => MutationsInv'
<1> SUFFICES ASSUME MutationsInv, AddRecordedAvcDenial PROVE MutationsInv'
  OBVIOUS
<1>t. effective \in HostLab
  BY IsOnHost DEF AddRecordedAvcDenial
<1>2. PICK m : m = [type |-> "ADD_RECORDED_AVC_DENIAL", on |-> "host", to |-> "injected"]
  OBVIOUS
<1>3. m \in HostMutation /\ m.type = "ADD_RECORDED_AVC_DENIAL" /\ m.on = "host" /\ m.to = "injected"
  BY <1>2 DEF HostMutation
<1>5. effective' = [effective EXCEPT !.denials = effective.denials \cup {"injected"},
                      !.host = "DEGRADED"]
  BY DEF AddRecordedAvcDenial
<1>6. /\ effective' \in HostLab
      /\ effective'.service = effective.service
      /\ effective'.mount = effective.mount /\ effective'.volume = effective.volume
      /\ effective'.port = effective.port
      /\ effective'.denials = effective.denials \cup {"injected"}
  BY <1>t, <1>5 DEF HostLab
<1>7. ASSUME NEW x \in HostMutation, Took(effective, x), ~Undoes(m, x)
      PROVE  Took(effective', x)
  BY <1>6, <1>7, TookHost
<1>8. Took(effective', m)
  BY <1>3, <1>6, TookHost
<1> QED
  BY <1>t, <1>2, <1>3, <1>6, <1>7, <1>8, HostKeeps DEF AddRecordedAvcDenial

LEMMA MountMutation == MutationsInv /\ SetMountState => MutationsInv'
<1> SUFFICES ASSUME MutationsInv, SetMountState PROVE MutationsInv'
  OBVIOUS
<1>t. effective \in HostLab
  BY IsOnHost DEF SetMountState
<1>1. PICK t \in Targets, s \in {"MOUNTED", "UNMOUNTED", "DEGRADED"} :
          /\ Applied([type |-> "SET_MOUNT_STATE", on |-> t, to |-> s])
          /\ effective' = [MountSet(effective, t, s) EXCEPT
                        !.host = Degraded(effective, s # "MOUNTED")]
  BY DEF SetMountState
<1>2. PICK m : m = [type |-> "SET_MOUNT_STATE", on |-> t, to |-> s]
  OBVIOUS
<1>3. m \in HostMutation /\ m.type = "SET_MOUNT_STATE" /\ m.on = t /\ m.to = s
  BY <1>2 DEF HostMutation
<1>4. PICK h \in {"UP", "DEGRADED"} : h = Degraded(effective, s # "MOUNTED")
  BY <1>t, DegradedHost
<1>5. PICK l : l = [effective EXCEPT !.mount[t] = s, !.volume[t] = s]
  OBVIOUS
<1>6. /\ l \in HostLab
      /\ l.service = effective.service
      /\ l.mount = [effective.mount EXCEPT ![t] = s]
      /\ l.volume = [effective.volume EXCEPT ![t] = s]
      /\ l.port = effective.port /\ l.denials = effective.denials
  BY <1>t, <1>5 DEF HostLab
<1>7. effective' = [l EXCEPT !.host = h]
  BY <1>1, <1>4, <1>5 DEF MountSet
<1>8. /\ effective' \in HostLab
      /\ effective'.service = effective.service
      /\ effective'.mount = [effective.mount EXCEPT ![t] = s]
      /\ effective'.volume = [effective.volume EXCEPT ![t] = s]
      /\ effective'.port = effective.port /\ effective'.denials = effective.denials
  BY <1>6, <1>7 DEF HostLab
<1>9. ASSUME NEW x \in HostMutation, Took(effective, x), ~Undoes(m, x)
      PROVE  Took(effective', x)
  <2>1. CASE x.type # "SET_MOUNT_STATE"
    BY <1>8, <1>9, <2>1, TookHost
  <2>2. CASE x.type = "SET_MOUNT_STATE"
    <3>1. x.on # t
      BY <1>3, <1>9, <2>2 DEF Undoes
    <3> QED
      BY <1>t, <1>8, <1>9, <2>2, <3>1, TookHost DEF HostLab
  <2> QED
    BY <2>1, <2>2
<1>10. Took(effective', m)
  BY <1>t, <1>3, <1>8, TookHost DEF HostLab
<1>11. effective.volume = effective.mount => effective'.volume = effective'.mount
  BY <1>8
<1>12. Applied(m)
  BY <1>1, <1>2
<1> QED
  BY <1>t, <1>3, <1>8, <1>9, <1>10, <1>11, <1>12, HostKeeps

LEMMA InterfaceMutation == MutationsInv /\ SetInterfaceState => MutationsInv'
<1> SUFFICES ASSUME MutationsInv, SetInterfaceState PROVE MutationsInv'
  OBVIOUS
<1>t. effective \in HostLab
  BY IsOnHost DEF SetInterfaceState
<1>1. PICK p \in Ports, s \in Usable :
          /\ Applied([type |-> "SET_INTERFACE_STATE", on |-> p, to |-> s])
          /\ effective' = [effective EXCEPT !.port[p] = s,
                                !.host = Degraded(effective, s = "DOWN")]
  BY DEF SetInterfaceState
<1>2. PICK m : m = [type |-> "SET_INTERFACE_STATE", on |-> p, to |-> s]
  OBVIOUS
<1>3. m \in HostMutation /\ m.type = "SET_INTERFACE_STATE" /\ m.on = p /\ m.to = s
  BY <1>2 DEF HostMutation
<1>4. PICK h \in {"UP", "DEGRADED"} : h = Degraded(effective, s = "DOWN")
  BY <1>t, DegradedHost
<1>5. effective' = [effective EXCEPT !.port[p] = s, !.host = h]
  BY <1>1, <1>4
<1>6. /\ effective' \in HostLab
      /\ effective'.service = effective.service
      /\ effective'.mount = effective.mount /\ effective'.volume = effective.volume
      /\ effective'.port = [effective.port EXCEPT ![p] = s]
      /\ effective'.denials = effective.denials
  BY <1>t, <1>5 DEF HostLab
<1>7. ASSUME NEW x \in HostMutation, Took(effective, x), ~Undoes(m, x)
      PROVE  Took(effective', x)
  <2>1. CASE x.type # "SET_INTERFACE_STATE"
    BY <1>6, <1>7, <2>1, TookHost
  <2>2. CASE x.type = "SET_INTERFACE_STATE"
    <3>1. x.on # p
      BY <1>3, <1>7, <2>2 DEF Undoes
    <3> QED
      BY <1>t, <1>6, <1>7, <2>2, <3>1, TookHost DEF HostLab
  <2> QED
    BY <2>1, <2>2
<1>8. Took(effective', m)
  BY <1>t, <1>3, <1>6, TookHost DEF HostLab
<1> QED
  BY <1>t, <1>1, <1>2, <1>3, <1>6, <1>7, <1>8, HostKeeps

-----------------------------------------------------------------------------
\* DevOps.
LEMMA TookDelivery ==
    ASSUME NEW l, NEW x \in DeliveryMutation
    PROVE  /\ x.type \in {"SET_PIPELINE_STAGE_STATUS", "SET_TERRAFORM_DRIFT_STATUS",
                          "SET_WORKLOAD_READINESS", "SET_GITOPS_SYNC_STATUS",
                          "SET_OBSERVATION_STATUS"}
           /\ x.type = "SET_PIPELINE_STAGE_STATUS" => x.on \in PipelineStages
           /\ x.type = "SET_TERRAFORM_DRIFT_STATUS" => x.on = "terraform"
           /\ x.type = "SET_WORKLOAD_READINESS" => x.on = "workload"
           /\ x.type = "SET_GITOPS_SYNC_STATUS" => x.on = "app"
           /\ x.type = "SET_OBSERVATION_STATUS" => x.on = "signal"
           /\ Took(l, x) <=> /\ x.type = "SET_PIPELINE_STAGE_STATUS" => l.stage[x.on] = x.to
                             /\ x.type = "SET_TERRAFORM_DRIFT_STATUS" => l.drift = x.to
                             /\ x.type = "SET_WORKLOAD_READINESS" =>
                                   l.ready = x.ready /\ l.workload = x.to
                             /\ x.type = "SET_GITOPS_SYNC_STATUS" => l.sync = x.to
                             /\ x.type = "SET_OBSERVATION_STATUS" => l.signal = x.to
<1>1. CASE x \in [type: {"SET_PIPELINE_STAGE_STATUS"}, on: PipelineStages,
                  to: {"SUCCESS", "RUNNING", "FAILED"}]
  BY <1>1 DEF Took, Verified
<1>2. CASE x \in [type: {"SET_TERRAFORM_DRIFT_STATUS"}, on: {"terraform"},
                  to: {"CLEAN", "DRIFTED", "ERROR"}]
  BY <1>2 DEF Took, Verified
<1>3. CASE x \in [type: {"SET_WORKLOAD_READINESS"}, on: {"workload"},
                  to: {"READY", "DEGRADED", "FAILED"}, ready: 0..Desired]
  BY <1>3 DEF Took, Verified
<1>4. CASE x \in [type: {"SET_GITOPS_SYNC_STATUS"}, on: {"app"}, to: {"SYNCED", "OUT_OF_SYNC"}]
  BY <1>4 DEF Took, Verified
<1>5. CASE x \in [type: {"SET_OBSERVATION_STATUS"}, on: {"signal"}, to: {"PASS", "WARN", "FAIL"}]
  BY <1>5 DEF Took, Verified
<1> QED
  BY <1>1, <1>2, <1>3, <1>4, <1>5 DEF DeliveryMutation

FailedStage(l) == l.pipeline = "FAILED" => \E g \in PipelineStages : l.stage[g] = "FAILED"

LEMMA DeliveryKeeps ==
    ASSUME MutationsInv, effective \in DeliveryLab, NEW m \in DeliveryMutation, Applied(m),
           effective' \in DeliveryLab, FailedStage(effective) => FailedStage(effective'),
           \A x \in DeliveryMutation : Took(effective, x) /\ ~Undoes(m, x) => Took(effective', x),
           Took(effective', m)
    PROVE  MutationsInv'
<1>1. DeliveryRead(baseline, <<>>) /\ DeliveryRead(effective, list)
  BY Domains DEF MutationsInv, NetworkRead, HostRead
<1>2. list' = Append(list, m) /\ UNCHANGED <<baseline, warned>>
  BY DEF Applied
<1>3. AllTook' /\ list' \in Seq(DeliveryMutation)
  BY <1>1, <1>2, AppendTook DEF MutationsInv, DeliveryRead
<1>4. DeliveryRead(baseline, <<>>)' /\ DeliveryRead(effective, list)'
  BY <1>1, <1>2, <1>3 DEF DeliveryRead, FailedStage
<1> QED
  BY <1>2, <1>3, <1>4 DEF MutationsInv

LEMMA IsDelivered == MutationsInv /\ IsDelivery(effective) => effective \in DeliveryLab
BY Domains DEF MutationsInv, NetworkRead, HostRead, DeliveryRead

LEMMA StageMutation == MutationsInv /\ SetPipelineStageStatus => MutationsInv'
<1> SUFFICES ASSUME MutationsInv, SetPipelineStageStatus PROVE MutationsInv'
  OBVIOUS
<1>t. effective \in DeliveryLab
  BY IsDelivered DEF SetPipelineStageStatus
<1>1. PICK g \in PipelineStages, s \in {"SUCCESS", "RUNNING", "FAILED"} :
          LET stages == [effective.stage EXCEPT ![g] = s]
          IN  /\ Applied([type |-> "SET_PIPELINE_STAGE_STATUS", on |-> g, to |-> s])
              /\ effective' = [effective EXCEPT !.stage = stages,
                                    !.pipeline = PipelineAfter(effective, s, stages)]
  BY DEF SetPipelineStageStatus
<1>2. PICK m : m = [type |-> "SET_PIPELINE_STAGE_STATUS", on |-> g, to |-> s]
  OBVIOUS
<1>3. m \in DeliveryMutation /\ m.type = "SET_PIPELINE_STAGE_STATUS" /\ m.on = g /\ m.to = s
  BY <1>2 DEF DeliveryMutation
<1>4. PICK f : f = [effective.stage EXCEPT ![g] = s]
  OBVIOUS
<1>5. f \in [PipelineStages -> {"SUCCESS", "RUNNING", "FAILED"}] /\ f[g] = s
      /\ \A z \in PipelineStages : z # g => f[z] = effective.stage[z]
  BY <1>t, <1>4 DEF DeliveryLab
<1>6. PICK p \in {"SUCCESS", "RUNNING", "FAILED"} :
         p = PipelineAfter(effective, s, f) /\ (p = "FAILED" => s = "FAILED")
  BY DEF PipelineAfter
<1>7. effective' = [effective EXCEPT !.stage = f, !.pipeline = p]
  BY <1>1, <1>4, <1>6
<1>8. /\ effective' \in DeliveryLab /\ effective'.stage = f /\ effective'.pipeline = p
      /\ effective'.drift = effective.drift /\ effective'.ready = effective.ready
      /\ effective'.workload = effective.workload /\ effective'.sync = effective.sync
      /\ effective'.signal = effective.signal
  BY <1>t, <1>5, <1>7 DEF DeliveryLab
<1>9. FailedStage(effective')
  BY <1>5, <1>6, <1>8 DEF FailedStage
<1>10. ASSUME NEW x \in DeliveryMutation, Took(effective, x), ~Undoes(m, x)
       PROVE  Took(effective', x)
  <2>1. CASE x.type # "SET_PIPELINE_STAGE_STATUS"
    BY <1>8, <1>10, <2>1, TookDelivery
  <2>2. CASE x.type = "SET_PIPELINE_STAGE_STATUS"
    <3>1. x.on # g
      BY <1>3, <1>10, <2>2 DEF Undoes
    <3> QED
      BY <1>5, <1>8, <1>10, <2>2, <3>1, TookDelivery
  <2> QED
    BY <2>1, <2>2
<1>11. Took(effective', m)
  BY <1>3, <1>5, <1>8, TookDelivery
<1>12. Applied(m)
  BY <1>1, <1>2
<1> QED
  BY <1>t, <1>3, <1>8, <1>9, <1>10, <1>11, <1>12, DeliveryKeeps

LEMMA DriftMutation == MutationsInv /\ SetTerraformDriftStatus => MutationsInv'
<1> SUFFICES ASSUME MutationsInv, SetTerraformDriftStatus PROVE MutationsInv'
  OBVIOUS
<1>t. effective \in DeliveryLab
  BY IsDelivered DEF SetTerraformDriftStatus
<1>1. PICK s \in {"CLEAN", "DRIFTED", "ERROR"} :
          /\ Applied([type |-> "SET_TERRAFORM_DRIFT_STATUS", on |-> "terraform", to |-> s])
          /\ effective' = [effective EXCEPT !.drift = s]
  BY DEF SetTerraformDriftStatus
<1>2. PICK m : m = [type |-> "SET_TERRAFORM_DRIFT_STATUS", on |-> "terraform", to |-> s]
  OBVIOUS
<1>3. /\ m \in DeliveryMutation /\ m.type = "SET_TERRAFORM_DRIFT_STATUS"
      /\ m.on = "terraform" /\ m.to = s
  BY <1>2 DEF DeliveryMutation
<1>4. /\ effective' \in DeliveryLab /\ effective'.stage = effective.stage
      /\ effective'.pipeline = effective.pipeline
      /\ effective'.drift = s /\ effective'.ready = effective.ready
      /\ effective'.workload = effective.workload /\ effective'.sync = effective.sync
      /\ effective'.signal = effective.signal
  BY <1>t, <1>1 DEF DeliveryLab
<1>5. FailedStage(effective) => FailedStage(effective')
  BY <1>4 DEF FailedStage
<1>6. ASSUME NEW x \in DeliveryMutation, Took(effective, x), ~Undoes(m, x)
      PROVE  Took(effective', x)
  BY <1>3, <1>4, <1>6, TookDelivery DEF Undoes
<1>7. Took(effective', m)
  BY <1>3, <1>4, TookDelivery
<1> QED
  BY <1>t, <1>1, <1>2, <1>3, <1>4, <1>5, <1>6, <1>7, DeliveryKeeps

LEMMA ReadinessMutation == MutationsInv /\ SetWorkloadReadiness => MutationsInv'
<1> SUFFICES ASSUME MutationsInv, SetWorkloadReadiness PROVE MutationsInv'
  OBVIOUS
<1>t. effective \in DeliveryLab
  BY IsDelivered DEF SetWorkloadReadiness
<1>1. PICK n \in 0..Desired, s \in {"READY", "DEGRADED", "FAILED"} :
          /\ Applied([type |-> "SET_WORKLOAD_READINESS", on |-> "workload",
                      to |-> s, ready |-> n])
          /\ effective' = [effective EXCEPT !.ready = n, !.workload = s]
  BY DEF SetWorkloadReadiness
<1>2. PICK m : m = [type |-> "SET_WORKLOAD_READINESS", on |-> "workload", to |-> s, ready |-> n]
  OBVIOUS
<1>3. /\ m \in DeliveryMutation /\ m.type = "SET_WORKLOAD_READINESS" /\ m.on = "workload"
      /\ m.to = s /\ m.ready = n
  BY <1>2 DEF DeliveryMutation
<1>4. /\ effective' \in DeliveryLab /\ effective'.stage = effective.stage
      /\ effective'.pipeline = effective.pipeline
      /\ effective'.drift = effective.drift /\ effective'.ready = n
      /\ effective'.workload = s /\ effective'.sync = effective.sync
      /\ effective'.signal = effective.signal
  BY <1>t, <1>1 DEF DeliveryLab
<1>5. FailedStage(effective) => FailedStage(effective')
  BY <1>4 DEF FailedStage
<1>6. ASSUME NEW x \in DeliveryMutation, Took(effective, x), ~Undoes(m, x)
      PROVE  Took(effective', x)
  BY <1>3, <1>4, <1>6, TookDelivery DEF Undoes
<1>7. Took(effective', m)
  BY <1>3, <1>4, TookDelivery
<1> QED
  BY <1>t, <1>1, <1>2, <1>3, <1>4, <1>5, <1>6, <1>7, DeliveryKeeps

LEMMA SyncMutation == MutationsInv /\ SetGitopsSyncStatus => MutationsInv'
<1> SUFFICES ASSUME MutationsInv, SetGitopsSyncStatus PROVE MutationsInv'
  OBVIOUS
<1>t. effective \in DeliveryLab
  BY IsDelivered DEF SetGitopsSyncStatus
<1>1. PICK s \in {"SYNCED", "OUT_OF_SYNC"} :
          /\ Applied([type |-> "SET_GITOPS_SYNC_STATUS", on |-> "app", to |-> s])
          /\ effective' = [effective EXCEPT !.sync = s,
                        !.health = IF s = "OUT_OF_SYNC" THEN "DEGRADED" ELSE effective.health]
  BY DEF SetGitopsSyncStatus
<1>2. PICK m : m = [type |-> "SET_GITOPS_SYNC_STATUS", on |-> "app", to |-> s]
  OBVIOUS
<1>3. m \in DeliveryMutation /\ m.type = "SET_GITOPS_SYNC_STATUS" /\ m.on = "app" /\ m.to = s
  BY <1>2 DEF DeliveryMutation
<1>4. PICK h \in {"HEALTHY", "DEGRADED"} :
         h = IF s = "OUT_OF_SYNC" THEN "DEGRADED" ELSE effective.health
  BY <1>t DEF DeliveryLab
<1>5. effective' = [effective EXCEPT !.sync = s, !.health = h]
  BY <1>1, <1>4
<1>6. /\ effective' \in DeliveryLab /\ effective'.stage = effective.stage
      /\ effective'.pipeline = effective.pipeline
      /\ effective'.drift = effective.drift /\ effective'.ready = effective.ready
      /\ effective'.workload = effective.workload /\ effective'.sync = s
      /\ effective'.signal = effective.signal
  BY <1>t, <1>5 DEF DeliveryLab
<1>7. FailedStage(effective) => FailedStage(effective')
  BY <1>6 DEF FailedStage
<1>8. ASSUME NEW x \in DeliveryMutation, Took(effective, x), ~Undoes(m, x)
      PROVE  Took(effective', x)
  BY <1>3, <1>6, <1>8, TookDelivery DEF Undoes
<1>9. Took(effective', m)
  BY <1>3, <1>6, TookDelivery
<1>10. Applied(m)
  BY <1>1, <1>2
<1> QED
  BY <1>t, <1>3, <1>6, <1>7, <1>8, <1>9, <1>10, DeliveryKeeps

LEMMA SignalMutation == MutationsInv /\ SetObservationStatus => MutationsInv'
<1> SUFFICES ASSUME MutationsInv, SetObservationStatus PROVE MutationsInv'
  OBVIOUS
<1>t. effective \in DeliveryLab
  BY IsDelivered DEF SetObservationStatus
<1>1. PICK s \in {"PASS", "WARN", "FAIL"} :
          /\ Applied([type |-> "SET_OBSERVATION_STATUS", on |-> "signal", to |-> s])
          /\ effective' = [effective EXCEPT !.signal = s]
  BY DEF SetObservationStatus
<1>2. PICK m : m = [type |-> "SET_OBSERVATION_STATUS", on |-> "signal", to |-> s]
  OBVIOUS
<1>3. m \in DeliveryMutation /\ m.type = "SET_OBSERVATION_STATUS" /\ m.on = "signal" /\ m.to = s
  BY <1>2 DEF DeliveryMutation
<1>4. /\ effective' \in DeliveryLab /\ effective'.stage = effective.stage
      /\ effective'.pipeline = effective.pipeline
      /\ effective'.drift = effective.drift /\ effective'.ready = effective.ready
      /\ effective'.workload = effective.workload /\ effective'.sync = effective.sync
      /\ effective'.signal = s
  BY <1>t, <1>1 DEF DeliveryLab
<1>5. FailedStage(effective) => FailedStage(effective')
  BY <1>4 DEF FailedStage
<1>6. ASSUME NEW x \in DeliveryMutation, Took(effective, x), ~Undoes(m, x)
      PROVE  Took(effective', x)
  BY <1>3, <1>4, <1>6, TookDelivery DEF Undoes
<1>7. Took(effective', m)
  BY <1>3, <1>4, TookDelivery
<1> QED
  BY <1>t, <1>1, <1>2, <1>3, <1>4, <1>5, <1>6, <1>7, DeliveryKeeps

LEMMA MutationsKept == MutationsInv /\ [MutationsNext]_mutationsVars => MutationsInv'
<1> SUFFICES ASSUME MutationsInv, [MutationsNext]_mutationsVars PROVE MutationsInv'
  OBVIOUS
<1>1. CASE UNCHANGED mutationsVars
  <2>1. UNCHANGED <<baseline, effective, list, warned>>
    BY <1>1 DEF mutationsVars
  <2>2. AllTook'
    BY <2>1 DEF MutationsInv, AllTook, Stands
  <2> QED
    BY <2>1, <2>2 DEF MutationsInv, NetworkRead, HostRead, DeliveryRead
<1>2. CASE Unfit \/ ReadAgain
  BY <1>2, ReadsAgain DEF Unfit, ReadAgain
<1>3. CASE MutationsNext /\ ~(Unfit \/ ReadAgain)
  BY <1>3, LinkMutation, NeighborMutation, DownMutation, UpMutation, ServiceMutation,
     DenialMutation, MountMutation, InterfaceMutation, StageMutation, DriftMutation,
     ReadinessMutation, SyncMutation, SignalMutation
  DEF MutationsNext
<1> QED
  BY <1>1, <1>2, <1>3

LEMMA MutationsInvariant == MutationsSpec => []MutationsInv
BY MutationsInitially, MutationsKept, PTL DEF MutationsSpec

-----------------------------------------------------------------------------
\* What is faulty and has taken shows in a check.
LEMMA NetworkFaults ==
    ASSUME NEW l \in NetworkLab, NEW x \in NetworkMutation, Took(l, x), Faulty(x)
    PROVE  Overall(l) # "HEALTHY"
<1>1. Checks(l) = NetworkChecks(l)
  BY Domains DEF Checks
<1>2. "FAIL" \in NetworkChecks(l)
  <2>1. CASE x.type = "SET_LINK_STATUS"
    <3>1. x.on \in Links /\ l.link[x.on] = "DOWN"
      BY <2>1, TookNetwork DEF Faulty, Usable
    <3>2. When(\E k \in Links : l.link[k] = "DOWN", FALSE) = "FAIL"
      BY <3>1 DEF When
    <3> QED
      BY <3>2 DEF NetworkChecks
  <2>2. CASE x.type = "SET_DEVICE_STATUS"
    <3>1. x.on \in Devices /\ l.device[x.on] = "DOWN"
      BY <2>2, TookNetwork DEF Faulty, Usable
    <3>2. When(\E d \in Devices : l.device[d] = "DOWN", FALSE) = "FAIL"
      BY <3>1 DEF When
    <3> QED
      BY <3>2 DEF NetworkChecks
  <2>3. CASE x.type = "SET_OSPF_NEIGHBOR_STATE"
    <3>1. x.on \in Neighbors /\ l.neighbor[x.on] = x.to /\ x.to # "FULL"
      BY <2>3, TookNetwork DEF Faulty
    <3>2. When(l.neighbor[x.on] # "FULL", FALSE) = "FAIL"
      BY <3>1 DEF When
    <3> QED
      BY <3>1, <3>2 DEF NetworkChecks
  <2> QED
    BY <2>1, <2>2, <2>3, TookNetwork
<1> QED
  BY <1>1, <1>2 DEF Overall

LEMMA HostFaults ==
    ASSUME NEW l \in HostLab, NEW x \in HostMutation, Took(l, x), Faulty(x)
    PROVE  Overall(l) # "HEALTHY"
<1>1. Checks(l) = HostChecks(l)
  BY Domains DEF Checks
<1>2. "FAIL" \in HostChecks(l) \/ "WARN" \in HostChecks(l)
  <2>1. CASE x.type = "SET_SERVICE_STATE"
    <3>1. x.on \in Services /\ l.service[x.on] = "FAILED"
      <4>1. x.to \in {"ACTIVE", "INACTIVE", "FAILED"}
        BY <2>1 DEF HostMutation
      <4> QED
        BY <2>1, <4>1, TookHost DEF Faulty
    <3>2. When(\E u \in Services : l.service[u] = "FAILED",
               \E u \in Enabled : l.service[u] = "INACTIVE") = "FAIL"
      BY <3>1 DEF When
    <3> QED
      BY <3>2 DEF HostChecks
  <2>2. CASE x.type = "ADD_RECORDED_AVC_DENIAL"
    <3>1. "injected" \in l.denials
      BY <2>2, TookHost
    <3>2. When(FALSE, l.denials # {}) = "WARN"
      BY <3>1 DEF When
    <3> QED
      BY <3>2 DEF HostChecks
  <2>3. CASE x.type = "SET_MOUNT_STATE"
    <3>1. x.on \in Targets /\ l.mount[x.on] \in {"UNMOUNTED", "DEGRADED"}
      <4>1. x.to \in {"MOUNTED", "UNMOUNTED", "DEGRADED"}
        BY <2>3 DEF HostMutation
      <4> QED
        BY <2>3, <4>1, TookHost DEF Faulty
    <3>2. StorageCheck(l) \in {"FAIL", "WARN"}
      BY <3>1 DEF StorageCheck, When
    <3> QED
      BY <3>2 DEF HostChecks
  <2>4. CASE x.type = "SET_INTERFACE_STATE"
    <3>1. x.on \in Ports /\ l.port[x.on] = "DOWN"
      <4>1. x.to \in Usable
        BY <2>4 DEF HostMutation
      <4> QED
        BY <2>4, <4>1, TookHost DEF Faulty, Usable
    <3>2. PortCheck(l) \in {"FAIL", "WARN"}
      BY <3>1 DEF PortCheck, When
    <3> QED
      BY <3>2 DEF HostChecks
  <2> QED
    BY <2>1, <2>2, <2>3, <2>4, TookHost
<1> QED
  BY <1>1, <1>2 DEF Overall

LEMMA DeliveryFaults ==
    ASSUME NEW l \in DeliveryLab, NEW x \in DeliveryMutation, Took(l, x), Faulty(x)
    PROVE  Overall(l) # "HEALTHY"
<1>1. Checks(l) = DeliveryChecks(l)
  BY Domains DEF Checks
<1>2. "FAIL" \in DeliveryChecks(l) \/ "WARN" \in DeliveryChecks(l)
  <2>1. CASE x.type = "SET_PIPELINE_STAGE_STATUS"
    <3>1. x.on \in PipelineStages /\ l.stage[x.on] = "FAILED"
      <4>1. x.to \in {"SUCCESS", "RUNNING", "FAILED"}
        BY <2>1 DEF DeliveryMutation
      <4> QED
        BY <2>1, <4>1, TookDelivery DEF Faulty
    <3>2. PipelineCheck(l) = "FAIL"
      BY <3>1 DEF PipelineCheck, When
    <3> QED
      BY <3>2 DEF DeliveryChecks
  <2>2. CASE x.type = "SET_TERRAFORM_DRIFT_STATUS"
    <3>1. l.drift \in {"DRIFTED", "ERROR"}
      <4>1. x.to \in {"CLEAN", "DRIFTED", "ERROR"}
        BY <2>2 DEF DeliveryMutation
      <4> QED
        BY <2>2, <4>1, TookDelivery DEF Faulty
    <3>2. When(l.drift = "ERROR", l.drift = "DRIFTED") \in {"FAIL", "WARN"}
      BY <3>1 DEF When
    <3> QED
      BY <3>2 DEF DeliveryChecks
  <2>3. CASE x.type = "SET_WORKLOAD_READINESS"
    <3>1. l.workload = "FAILED"
      <4>1. x.to \in {"READY", "DEGRADED", "FAILED"}
        BY <2>3 DEF DeliveryMutation
      <4> QED
        BY <2>3, <4>1, TookDelivery DEF Faulty
    <3>2. When(l.workload = "FAILED", l.ready < Desired) = "FAIL"
      BY <3>1 DEF When
    <3> QED
      BY <3>2 DEF DeliveryChecks
  <2>4. CASE x.type = "SET_GITOPS_SYNC_STATUS"
    <3>1. l.sync = "OUT_OF_SYNC"
      <4>1. x.to \in {"SYNCED", "OUT_OF_SYNC"}
        BY <2>4 DEF DeliveryMutation
      <4> QED
        BY <2>4, <4>1, TookDelivery DEF Faulty
    <3>2. When(l.health = "DEGRADED", l.sync = "OUT_OF_SYNC") \in {"FAIL", "WARN"}
      BY <3>1 DEF When
    <3> QED
      BY <3>2 DEF DeliveryChecks
  <2>5. CASE x.type = "SET_OBSERVATION_STATUS"
    <3>1. l.signal \in {"WARN", "FAIL"}
      <4>1. x.to \in {"PASS", "WARN", "FAIL"}
        BY <2>5 DEF DeliveryMutation
      <4> QED
        BY <2>5, <4>1, TookDelivery DEF Faulty
    <3>2. When(l.signal = "FAIL", l.signal = "WARN") \in {"FAIL", "WARN"}
      BY <3>1 DEF When
    <3> QED
      BY <3>2 DEF DeliveryChecks
  <2> QED
    BY <2>1, <2>2, <2>3, <2>4, <2>5, TookDelivery
<1> QED
  BY <1>1, <1>2 DEF Overall

LEMMA ListedMutations ==
    ASSUME NEW M, list \in Seq(M), NEW i \in DOMAIN list
    PROVE  list[i] \in M
OBVIOUS

\* A scenario's clone, its baseline and the list applied to it stay of one
\* domain and of their types.
THEOREM MutationsTypeCorrect == MutationsSpec => []MutationsTypeOK
<1>1. MutationsInv => MutationsTypeOK
  BY DEF MutationsInv, MutationsTypeOK, NetworkRead, HostRead, DeliveryRead
<1> QED
  BY <1>1, MutationsInvariant, PTL

\* The gateway group of a mutated state is led by exactly one member, which
\* works, while any member does, for every list of mutations and every group
\* (setDeviceStatus's hand-over).
THEOREM GatewayIsLed == MutationsSpec => []GatewayLed
<1>1. MutationsInv => GatewayLed
  <2> SUFFICES ASSUME MutationsInv, IsNetwork(effective) PROVE GatewayLed
    BY DEF GatewayLed, OneActiveGateway, GatewayStands
  <2>1. Leads(effective)
    BY IsInNetwork
  <2> QED
    BY <2>1 DEF Leads, GatewayLed, OneActiveGateway, GatewayStands
<1> QED
  BY <1>1, MutationsInvariant, PTL

\* A mutation that stands is verified, a fault that stands is reported by the
\* health checks, and what is recorded as a consequence has its cause, for
\* every list of mutations (applyScenarioActions, verifyScenarioActions,
\* buildHealthChecks).
THEOREM FaultsAreReported == MutationsSpec => []FaultsReported
<1>1. MutationsInv => FaultsReported
  <2> SUFFICES ASSUME MutationsInv PROVE FaultsReported
    OBVIOUS
  <2>1. VerifiedUnlessUndone
    BY DEF MutationsInv, AllTook, Took, VerifiedUnlessUndone
  <2>2. FaultsShow
    <3> SUFFICES ASSUME NEW i \in DOMAIN list, Stands(i), Faulty(list[i])
                 PROVE  Overall(effective) # "HEALTHY"
      BY DEF FaultsShow
    <3>1. Took(effective, list[i])
      BY DEF MutationsInv, AllTook
    <3>2. CASE NetworkRead(effective, list)
      BY <3>1, <3>2, ListedMutations, NetworkFaults DEF NetworkRead
    <3>3. CASE HostRead(effective, list)
      BY <3>1, <3>3, ListedMutations, HostFaults DEF HostRead
    <3>4. CASE DeliveryRead(effective, list)
      BY <3>1, <3>4, ListedMutations, DeliveryFaults DEF DeliveryRead
    <3> QED
      BY <3>2, <3>3, <3>4 DEF MutationsInv
  <2>3. NoPhantomFault
    BY Domains DEF MutationsInv, NoPhantomFault, NetworkRead, HostRead, DeliveryRead
  <2> QED
    BY <2>1, <2>2, <2>3 DEF FaultsReported
<1> QED
  BY <1>1, MutationsInvariant, PTL

-----------------------------------------------------------------------------
(***************************************************************************)
(* NetworkPaths: numbers and lists.                                        *)
(***************************************************************************)
LEMMA MinIsLeast ==
    ASSUME NEW T \in SUBSET Nat, T # {}
    PROVE  Min(T) \in T /\ \A k \in T : Min(T) <= k
BY LeastNumber DEF Min

\* A finite set of numbers can be listed in order.
LEMMA CanBeOrdered ==
    ASSUME NEW S \in SUBSET Nat, IsFiniteSet(S)
    PROVE  \E f \in [1..Cardinality(S) -> S] :
              \A i, j \in 1..Cardinality(S) : i < j => f[i] < f[j]
<1> DEFINE Listed(Z, n) == \E f \in [1..n -> Z] : \A i, j \in 1..n : i < j => f[i] < f[j]
           Bad(n) == \E Z \in SUBSET S : IsFiniteSet(Z) /\ Cardinality(Z) = n /\ ~Listed(Z, n)
           T == {n \in Nat : Bad(n)}
<1> SUFFICES ASSUME ~Listed(S, Cardinality(S)) PROVE FALSE
  OBVIOUS
<1>1. T # {}
  <2>1. Cardinality(S) \in Nat
    BY FS_CardinalityType
  <2>2. Bad(Cardinality(S))
    OBVIOUS
  <2> QED
    BY <2>1, <2>2
<1>2. PICK n \in T : \A k \in T : n <= k
  <2> HIDE DEF T
  <2> QED
    BY <1>1, LeastNumber DEF T
<1>3. PICK Z \in SUBSET S : IsFiniteSet(Z) /\ Cardinality(Z) = n /\ ~Listed(Z, n)
  BY <1>2
<1>4. Z # {}
  <2> SUFFICES ASSUME Z = {} PROVE FALSE
    OBVIOUS
  <2>1. n = 0
    BY <1>3, FS_EmptySet
  <2>2. PICK f : f = [i \in 1..n |-> i]
    OBVIOUS
  <2>3. 1..n = {}
    BY <2>1
  <2>4. f \in [1..n -> Z] /\ \A i, j \in 1..n : i < j => f[i] < f[j]
    BY <2>2, <2>3
  <2> QED
    BY <1>3, <2>4
<1>5. PICK z \in Z : \A y \in Z : y <= z
  <2>1. PICK f : f = [x \in Z |-> x]
    OBVIOUS
  <2>2. \A x \in Z : f[x] = x /\ f[x] \in Nat
    BY <1>3, <2>1
  <2>3. PICK z \in Z : \A y \in Z : f[y] <= f[z]
    BY <1>3, <1>4, <2>2, Highest
  <2> QED
    BY <2>2, <2>3
<1>6. PICK R : R = Z \ {z}
  OBVIOUS
<1>7. IsFiniteSet(R) /\ Cardinality(R) = n - 1 /\ R \subseteq S
  BY <1>3, <1>5, <1>6, FS_RemoveElement
<1>8. n - 1 \in Nat /\ n \in Nat
  BY <1>2, <1>7, FS_CardinalityType
<1>9. ~Bad(n - 1)
  <2>1. n - 1 \notin T
    BY <1>2, <1>8
  <2> QED
    BY <1>8, <2>1
<1>10. PICK f \in [1..(n - 1) -> R] : \A i, j \in 1..(n - 1) : i < j => f[i] < f[j]
  BY <1>7, <1>9
<1>11. PICK g : g = [i \in 1..n |-> IF i = n THEN z ELSE f[i]]
  OBVIOUS
<1>12. g \in [1..n -> Z]
  BY <1>5, <1>6, <1>8, <1>10, <1>11
<1>13. ASSUME NEW i \in 1..n, NEW j \in 1..n, i < j PROVE g[i] < g[j]
  <2>0. i \in 1..(n - 1) /\ i # n
    BY <1>8, <1>13
  <2>1. g[i] = f[i] /\ f[i] \in R /\ f[i] \in Nat /\ z \in Nat
    <3>1. g[i] = f[i] /\ f[i] \in R
      BY <1>10, <1>11, <2>0
    <3> QED
      BY <1>3, <1>5, <1>7, <3>1
  <2>2. CASE j = n
    BY <1>5, <1>6, <1>11, <2>1, <2>2
  <2>3. CASE j # n
    <3>1. j \in 1..(n - 1) /\ g[j] = f[j]
      BY <1>8, <1>11, <2>3
    <3> QED
      BY <1>10, <1>13, <2>0, <2>1, <3>1
  <2> QED
    BY <2>2, <2>3
<1> QED
  BY <1>3, <1>12, <1>13

LEMMA LengthOf ==
    ASSUME NEW n \in Nat, NEW S, NEW s \in [1..n -> S]
    PROVE  s \in Seq(S) /\ Len(s) = n
<1>1. s \in Seq(S)
  BY SeqDef
<1>2. DOMAIN s = 1..Len(s) /\ Len(s) \in Nat /\ DOMAIN s = 1..n
  BY <1>1, LenProperties
<1>3. PICK m : m = Len(s)
  OBVIOUS
<1>4. m \in Nat /\ 1..m = 1..n
  BY <1>2, <1>3
<1>5. m = n
  BY <1>4
<1>6. QED
  BY <1>1, <1>3, <1>5

LEMMA InOrderLists ==
    ASSUME NEW S \in SUBSET Nat, IsFiniteSet(S), NEW s, s = InOrder(S)
    PROVE  s \in Seq(S) /\ \A x \in S : \E i \in 1..Len(s) : s[i] = x
<1>1. PICK n : n = Cardinality(S)
  OBVIOUS
<1>2. n \in Nat
  BY <1>1, FS_CardinalityType
<1>3. s \in [1..n -> S] /\ \A i, j \in 1..n : i < j => s[i] < s[j]
  BY <1>1, CanBeOrdered DEF InOrder
<1>4. IsFiniteSet(1..n) /\ Cardinality(1..n) = n
  BY <1>2, FS_Interval
<1>5. \A i, j \in 1..n : s[i] = s[j] => i = j
  <2> SUFFICES ASSUME NEW i \in 1..n, NEW j \in 1..n, s[i] = s[j], i # j PROVE FALSE
    OBVIOUS
  <2>1. i < j \/ j < i
    BY <1>2
  <2>2. PICK a \in S : a = s[i]
    BY <1>3
  <2>3. a \in Nat /\ ~(a < a)
    OBVIOUS
  <2> QED
    BY <1>3, <2>1, <2>2, <2>3
<1>6. s \in Surjection(1..n, S)
  <2>1. s \in Injection(1..n, S)
    BY <1>3, <1>5 DEF Injection, IsInjective
  <2> QED
    BY <1>1, <1>4, <2>1, FS_Injection
<1>7. s \in Seq(S) /\ Len(s) = n
  BY <1>2, <1>3, LengthOf
<1> QED
  BY <1>3, <1>6, <1>7 DEF Surjection

-----------------------------------------------------------------------------
(***************************************************************************)
(* NetworkPaths: what the search has found.                                *)
(***************************************************************************)
\* Every device met but the source was found over a link, from a device one
\* step nearer.
Tree(L, s, prev, depth) ==
    /\ DOMAIN prev \subseteq PathDevices /\ s \in DOMAIN prev
    /\ depth \in [DOMAIN prev -> Nat]
    /\ prev[s] = [device |-> Nowhere, link |-> Nowhere] /\ depth[s] = 0
    /\ \A d \in DOMAIN prev : prev[d] \in [device: PathDevices \cup {Nowhere},
                                           link: PathLinks \cup {Nowhere}]
    /\ \A d \in DOMAIN prev : d # s =>
          /\ prev[d].device \in DOMAIN prev /\ prev[d].link \in L
          /\ Joins(prev[d].link, prev[d].device, d)
          /\ depth[d] = depth[prev[d].device] + 1

Waits(q, d) == \E i \in 1..Len(q) : q[i] = d

\* The queue is in the order of the distances, at most two of them; what left it
\* is no further, and its neighbours have been met.
Layers(L, prev, q, depth) ==
    /\ q \in Seq(DOMAIN prev)
    /\ \A i, j \in 1..Len(q) : i <= j => depth[q[i]] <= depth[q[j]]
                                          /\ depth[q[j]] <= depth[q[1]] + 1
    /\ \A d \in DOMAIN prev : ~Waits(q, d) =>
          /\ \A i \in 1..Len(q) : depth[d] <= depth[q[i]]
          /\ \A e \in Neighbours(L, d) : e \in DOMAIN prev /\ depth[e] <= depth[d] + 1

\* The path from `c` on: one step nearer to the target with every device.
Unwound(L, t, prev, depth, hs, ks, c) ==
    /\ t \in DOMAIN prev
    /\ hs \in Seq(DOMAIN prev) /\ ks \in Seq(L)
    /\ \A i \in 1..(Len(hs) - 1) : \E k \in Range(ks) : Joins(k, hs[i], hs[i + 1])
    /\ hs = <<>> => c = t
    /\ hs # <<>> =>
          /\ hs[Len(hs)] = t
          /\ c = prev[hs[1]].device
          /\ depth[hs[1]] + Len(hs) = depth[t] + 1
          /\ c # Nowhere => \E k \in Range(ks) : Joins(k, c, hs[1])

Goes(L, s, t, w) ==
    /\ w[1] = s /\ w[Len(w)] = t
    /\ \A i \in 1..(Len(w) - 1) : w[i + 1] \in Neighbours(L, w[i])
Shortest(L, s, t, w) ==
    /\ w \in Seq(PathDevices) /\ w # <<>>
    /\ Goes(L, s, t, w)
    /\ \A n \in 1..(Len(w) - 1) : \A v \in Walks(n) : ~Goes(L, s, t, v)

LEMMA JoinsBothWays ==
    ASSUME NEW k, NEW d, NEW e
    PROVE  Joins(k, d, e) <=> Joins(k, e, d)
BY DEF Joins

LEMMA NeighboursGrow ==
    ASSUME NEW L, NEW M, L \subseteq M, NEW d
    PROVE  Neighbours(L, d) \subseteq Neighbours(M, d)
BY DEF Neighbours

\* A device alone, before the first turn.
LEMMA StartsWell ==
    ASSUME NEW L, NEW s \in PathDevices, NEW prev, NEW q,
           q = <<s>>, prev = [e \in {s} |-> [device |-> Nowhere, link |-> Nowhere]]
    PROVE  \E depth : Tree(L, s, prev, depth) /\ Layers(L, prev, q, depth)
<1>1. PICK depth : depth = [e \in {s} |-> 0]
  OBVIOUS
<1>2. DOMAIN prev = {s} /\ prev[s] = [device |-> Nowhere, link |-> Nowhere]
  OBVIOUS
<1>3. depth \in [DOMAIN prev -> Nat] /\ depth[s] = 0
  BY <1>1, <1>2
<1>4. Tree(L, s, prev, depth)
  BY <1>2, <1>3, PathsAssumption DEF Tree, Nowhere
<1>5. Len(q) = 1 /\ q[1] = s /\ q \in Seq({s})
  OBVIOUS
<1>6. Waits(q, s)
  BY <1>5 DEF Waits
<1>7. \A i \in 1..Len(q) : i = 1 /\ q[i] = s
  BY <1>5
<1>8. Layers(L, prev, q, depth)
  BY <1>2, <1>3, <1>5, <1>6, <1>7 DEF Layers
<1> QED
  BY <1>4, <1>8

\* A walk stays in every region that is closed under its links.
LEMMA WalkConnects ==
    ASSUME NEW L, NEW s, NEW t, NEW w \in Seq(PathDevices), w # <<>>, Goes(L, s, t, w)
    PROVE  Connected(L, s, t)
<1> SUFFICES ASSUME NEW region \in SUBSET PathDevices, s \in region,
                    \A d \in region : Neighbours(L, d) \subseteq region
             PROVE  t \in region
  BY DEF Connected
<1> DEFINE T == {i \in 1..Len(w) : w[i] \notin region}
<1>0. Len(w) \in Nat /\ 1 <= Len(w)
  OBVIOUS
<1>1. T = {}
  <2> SUFFICES ASSUME T # {} PROVE FALSE
    OBVIOUS
  <2>1. T \in SUBSET Nat
    BY <1>0
  <2>2. PICK i \in T : \A j \in T : i <= j
    <3> HIDE DEF T
    <3> QED
      BY <2>1, LeastNumber
  <2>3. i # 1
    BY <2>2 DEF Goes
  <2>4. i - 1 \in 1..(Len(w) - 1) /\ i - 1 \in 1..Len(w) /\ i - 1 < i
    BY <1>0, <2>2, <2>3
  <2>5. w[i - 1] \in region
    BY <2>1, <2>2, <2>4
  <2>6. w[i - 1 + 1] \in Neighbours(L, w[i - 1])
    BY <2>4 DEF Goes
  <2>7. i - 1 + 1 = i
    BY <2>1, <2>2
  <2> QED
    BY <2>2, <2>5, <2>6, <2>7
<1> QED
  BY <1>0, <1>1 DEF Goes

\* With nothing left to visit, what was met is all there is.
LEMMA ExhaustedIsClosed ==
    ASSUME NEW L, NEW s, NEW t, NEW prev, NEW q, NEW depth, q = <<>>,
           Tree(L, s, prev, depth), Layers(L, prev, q, depth), t \notin DOMAIN prev
    PROVE  ~Connected(L, s, t)
<1>1. \A d \in DOMAIN prev : ~Waits(q, d)
  BY DEF Waits
<1>2. \A d \in DOMAIN prev : Neighbours(L, d) \subseteq DOMAIN prev
  BY <1>1 DEF Layers
<1>3. DOMAIN prev \in SUBSET PathDevices /\ s \in DOMAIN prev
  BY DEF Tree
<1> QED
  BY <1>2, <1>3 DEF Connected

\* What is met when the target waits is nearer by at most one step.
LEMMA WaitsAtTheEdge ==
    ASSUME NEW L, NEW s, NEW t, NEW prev, NEW q, NEW depth,
           Tree(L, s, prev, depth), Layers(L, prev, q, depth), Waits(q, t),
           NEW d \in DOMAIN prev, depth[d] + 1 < depth[t]
    PROVE  \A e \in Neighbours(L, d) : e \in DOMAIN prev /\ depth[e] <= depth[d] + 1
<1>1. PICK j \in 1..Len(q) : q[j] = t
  BY DEF Waits
<1>2. Len(q) \in Nat /\ 1 \in 1..Len(q) /\ \A i \in 1..Len(q) : q[i] \in DOMAIN prev
  BY <1>1 DEF Layers
<1>3. \A e \in DOMAIN prev : depth[e] \in Nat
  BY DEF Tree
<1>4. ~Waits(q, d)
  <2> SUFFICES ASSUME NEW i \in 1..Len(q), q[i] = d PROVE FALSE
    BY DEF Waits
  <2>1. 1 <= i /\ j <= j
    BY <1>1
  <2>2. depth[q[1]] <= depth[q[i]] /\ depth[q[j]] <= depth[q[1]] + 1
    BY <1>1, <1>2, <2>1 DEF Layers
  <2>3. PICK x, y, z \in Nat : x = depth[q[1]] /\ y = depth[d] /\ z = depth[t]
    BY <1>1, <1>2, <1>3
  <2> QED
    BY <1>1, <2>2, <2>3
<1> QED
  BY <1>4 DEF Layers

\* No walk gets to the target in fewer steps than its distance.
LEMMA NoShorterWalk ==
    ASSUME NEW L, NEW s, NEW t, NEW prev, NEW q, NEW depth,
           Tree(L, s, prev, depth), Layers(L, prev, q, depth), Waits(q, t), t \in DOMAIN prev,
           NEW n \in Nat, 1 <= n, n <= depth[t], NEW v \in Walks(n)
    PROVE  ~Goes(L, s, t, v)
<1> SUFFICES ASSUME Goes(L, s, t, v) PROVE FALSE
  OBVIOUS
<1>0. v \in [1..n -> PathDevices] /\ v \in Seq(PathDevices) /\ Len(v) = n
  BY LengthOf DEF Walks
<1>1. \A e \in DOMAIN prev : depth[e] \in Nat
  BY DEF Tree
<1> DEFINE T == {i \in 1..n : ~(v[i] \in DOMAIN prev /\ depth[v[i]] <= i - 1)}
<1>2. T = {}
  <2> SUFFICES ASSUME T # {} PROVE FALSE
    OBVIOUS
  <2>1. T \in SUBSET Nat
    OBVIOUS
  <2>2. PICK i \in T : \A j \in T : i <= j
    <3> HIDE DEF T
    <3> QED
      BY <2>1, LeastNumber
  <2>3. i # 1
    BY <2>2 DEF Goes, Tree
  <2>4. PICK h \in Nat : h = i - 1
    BY <2>2, <2>3
  <2>5. h \in 1..(n - 1) /\ h \in 1..n /\ h < i /\ i = h + 1
    BY <2>1, <2>2, <2>3, <2>4
  <2>6. v[h] \in DOMAIN prev /\ depth[v[h]] <= h - 1
    BY <2>2, <2>5
  <2>7. depth[v[h]] + 1 < depth[t]
    BY <1>1, <2>5, <2>6
  <2>8. v[i] \in Neighbours(L, v[h])
    BY <1>0, <2>5 DEF Goes
  <2>9. v[i] \in DOMAIN prev /\ depth[v[i]] <= depth[v[h]] + 1
    BY <2>6, <2>7, <2>8, WaitsAtTheEdge
  <2> QED
    BY <1>1, <2>2, <2>5, <2>6, <2>9
<1>3. v[n] \in DOMAIN prev /\ depth[v[n]] <= n - 1
  BY <1>2
<1> QED
  BY <1>0, <1>1, <1>3 DEF Goes

\* The path put together is a walk of shortest length.
LEMMA UnwoundIsShortest ==
    ASSUME NEW L, NEW s, NEW t, NEW prev, NEW q, NEW depth, NEW hs, NEW ks, NEW c,
           Tree(L, s, prev, depth), Layers(L, prev, q, depth), Waits(q, t),
           Unwound(L, t, prev, depth, hs, ks, c), c = Nowhere
    PROVE  /\ Shortest(L, s, t, hs)
           /\ Goes(Range(ks), s, t, hs)
           /\ Range(ks) \subseteq L
<1>1. t \in DOMAIN prev /\ DOMAIN prev \subseteq PathDevices /\ t # Nowhere
  BY PathsAssumption DEF Tree, Unwound
<1>2. hs # <<>>
  BY <1>1 DEF Unwound
<1>3. hs \in Seq(DOMAIN prev) /\ Len(hs) \in Nat /\ 1 <= Len(hs) /\ hs \in Seq(PathDevices)
  BY <1>1, <1>2 DEF Unwound
<1>4. hs[1] \in DOMAIN prev /\ \A i \in 1..Len(hs) : hs[i] \in DOMAIN prev
  BY <1>3
<1>5. hs[1] = s
  <2> SUFFICES ASSUME hs[1] # s PROVE FALSE
    OBVIOUS
  <2>1. prev[hs[1]].device \in DOMAIN prev
    BY <1>4 DEF Tree
  <2> QED
    BY <1>1, <1>2, <2>1, PathsAssumption DEF Unwound
<1>6. depth[t] \in Nat /\ Len(hs) = depth[t] + 1
  <2>1. depth[t] \in Nat /\ depth[s] = 0
    BY <1>1 DEF Tree
  <2>2. depth[hs[1]] + Len(hs) = depth[t] + 1
    BY <1>2 DEF Unwound
  <2> QED
    BY <1>3, <1>5, <2>1, <2>2
<1>7. Range(ks) \subseteq L
  BY DEF Unwound, Range
<1>8. Goes(Range(ks), s, t, hs)
  <2>1. ASSUME NEW i \in 1..(Len(hs) - 1) PROVE hs[i + 1] \in Neighbours(Range(ks), hs[i])
    <3>1. \E k \in Range(ks) : Joins(k, hs[i], hs[i + 1])
      BY <2>1 DEF Unwound
    <3>2. hs[i + 1] \in PathDevices
      BY <1>3, <2>1
    <3> QED
      BY <3>1, <3>2 DEF Neighbours
  <2> QED
    BY <1>2, <1>5, <2>1 DEF Goes, Unwound
<1>9. Goes(L, s, t, hs)
  BY <1>7, <1>8, NeighboursGrow DEF Goes
<1>10. ASSUME NEW n \in 1..(Len(hs) - 1), NEW v \in Walks(n) PROVE ~Goes(L, s, t, v)
  <2>1. n \in Nat /\ 1 <= n /\ n <= depth[t]
    BY <1>3, <1>6, <1>10
  <2> QED
    BY <1>1, <1>10, <2>1, NoShorterWalk
<1> QED
  BY <1>2, <1>3, <1>7, <1>8, <1>9, <1>10 DEF Shortest

\* One turn of `while (cursor)`.
UnwindsTo(prev, hs, ks, c, hn, kn, cn) ==
    /\ hn = <<c>> \o hs
    /\ kn = (IF prev[c].link = Nowhere THEN <<>> ELSE <<prev[c].link>>) \o ks
    /\ cn = prev[c].device

LEMMA UnwindsOneStep ==
    ASSUME NEW L, NEW s, NEW t, NEW prev, NEW depth, NEW hs, NEW ks, NEW c,
           Tree(L, s, prev, depth), Unwound(L, t, prev, depth, hs, ks, c), c # Nowhere,
           NEW hn, NEW kn, NEW cn, UnwindsTo(prev, hs, ks, c, hn, kn, cn),
           L \subseteq PathLinks
    PROVE  Unwound(L, t, prev, depth, hn, kn, cn) /\ c \in DOMAIN prev
<1>0. /\ hn = <<c>> \o hs
      /\ kn = (IF prev[c].link = Nowhere THEN <<>> ELSE <<prev[c].link>>) \o ks
      /\ cn = prev[c].device
  BY DEF UnwindsTo
<1>1. DOMAIN prev \subseteq PathDevices /\ t \in DOMAIN prev
  BY DEF Tree, Unwound
<1>2. hs \in Seq(DOMAIN prev) /\ ks \in Seq(L)
  BY DEF Unwound
<1>3. hs # <<>> => hs[1] \in DOMAIN prev /\ hs[1] # s /\ depth[c] + 1 = depth[hs[1]]
                     /\ c \in DOMAIN prev
  <2> SUFFICES ASSUME hs # <<>>
               PROVE  hs[1] \in DOMAIN prev /\ hs[1] # s /\ depth[c] + 1 = depth[hs[1]]
                        /\ c \in DOMAIN prev
    OBVIOUS
  <2>1. hs[1] \in DOMAIN prev /\ c = prev[hs[1]].device
    BY <1>2 DEF Unwound
  <2>2. hs[1] # s
    BY <2>1 DEF Tree
  <2> QED
    BY <2>1, <2>2 DEF Tree
<1>4. c \in DOMAIN prev
  BY <1>1, <1>3 DEF Unwound
<1>5. Len(hn) = Len(hs) + 1 /\ hn[1] = c /\ hn \in Seq(DOMAIN prev) /\ hn # <<>>
  BY <1>0, <1>2, <1>4
<1>6. \A i \in 2..Len(hn) : hn[i] = hs[i - 1]
  BY <1>0, <1>2, <1>5
<1>7. PICK one : one = IF prev[c].link = Nowhere THEN <<>> ELSE <<prev[c].link>>
  OBVIOUS
<1>8. one \in Seq(L) /\ kn = one \o ks /\ (c # s => one = <<prev[c].link>>)
  <2>1. CASE c = s
    BY <1>0, <1>7, <2>1 DEF Tree
  <2>2. CASE c # s
    <3>1. prev[c].link \in L /\ prev[c].link # Nowhere
      BY <1>4, <2>2, PathsAssumption DEF Tree
    <3> QED
      BY <1>0, <1>7, <3>1
  <2> QED
    BY <2>1, <2>2
<1>9. kn \in Seq(L) /\ Range(ks) \subseteq Range(kn) /\ (c # s => prev[c].link \in Range(kn))
  <2>1. /\ Len(kn) = Len(one) + Len(ks) /\ kn \in Seq(L)
        /\ \A i \in 1..(Len(one) + Len(ks)) :
              kn[i] = IF i <= Len(one) THEN one[i] ELSE ks[i - Len(one)]
        /\ Len(one) \in Nat /\ Len(ks) \in Nat
    <3>1. kn = one \o ks /\ one \in Seq(L) /\ ks \in Seq(L)
      BY <1>2, <1>8
    <3>2. Len(one) \in Nat /\ Len(ks) \in Nat
      BY <3>1, LenProperties
    <3>3. /\ one \o ks \in Seq(L) /\ Len(one \o ks) = Len(one) + Len(ks)
          /\ \A i \in 1..(Len(one) + Len(ks)) :
                (one \o ks)[i] = IF i <= Len(one) THEN one[i] ELSE ks[i - Len(one)]
      BY <3>1, ConcatProperties, Zenon
    <3> QED
      BY <3>1, <3>2, <3>3, Zenon
  <2>2. ASSUME NEW i \in 1..Len(ks) PROVE ks[i] \in Range(kn)
    <3>1. PICK j \in Nat : j = Len(one) + i
      BY <2>1, <2>2
    <3>2. j \in 1..Len(kn) /\ ~(j <= Len(one)) /\ j - Len(one) = i
      BY <2>1, <2>2, <3>1
    <3>3. kn[j] = ks[i] /\ j \in DOMAIN kn
      BY <2>1, <3>2, LenProperties
    <3> QED
      BY <3>3 DEF Range
  <2>3. c # s => prev[c].link \in Range(kn)
    <3> SUFFICES ASSUME c # s PROVE prev[c].link \in Range(kn)
      OBVIOUS
    <3>1. Len(one) = 1 /\ one[1] = prev[c].link
      BY <1>8
    <3>2. 1 \in 1..Len(kn) /\ kn[1] = prev[c].link /\ 1 \in DOMAIN kn
      BY <2>1, <3>1, LenProperties
    <3> QED
      BY <3>2 DEF Range
  <2>4. Range(ks) \subseteq Range(kn)
    <3> SUFFICES ASSUME NEW x \in Range(ks) PROVE x \in Range(kn)
      OBVIOUS
    <3>1. PICK i \in 1..Len(ks) : x = ks[i]
      BY <1>2, LenProperties DEF Range
    <3> QED
      BY <2>2, <3>1
  <2> QED
    BY <2>1, <2>3, <2>4
<1>10. ASSUME NEW i \in 1..(Len(hn) - 1) PROVE \E k \in Range(kn) : Joins(k, hn[i], hn[i + 1])
  <2>1. CASE i = 1
    <3>1. hs # <<>> /\ hn[2] = hs[1]
      BY <1>0, <1>2, <1>5, <1>6, <1>10, <2>1
    <3>2. \E k \in Range(ks) : Joins(k, c, hs[1])
      BY <3>1 DEF Unwound
    <3> QED
      BY <1>5, <1>9, <2>1, <3>1, <3>2
  <2>2. CASE i # 1
    <3>1. i - 1 \in 1..(Len(hs) - 1) /\ hn[i] = hs[i - 1] /\ hn[i + 1] = hs[i - 1 + 1]
      <4>1. i \in 2..Len(hn) /\ i + 1 \in 2..Len(hn) /\ i + 1 - 1 = i - 1 + 1
        BY <1>2, <1>5, <1>10, <2>2
      <4> QED
        BY <1>2, <1>5, <1>6, <1>10, <4>1
    <3>2. \E k \in Range(ks) : Joins(k, hs[i - 1], hs[i - 1 + 1])
      BY <3>1 DEF Unwound
    <3> QED
      BY <1>9, <3>1, <3>2
  <2> QED
    BY <2>1, <2>2
<1>11. hn[Len(hn)] = t
  <2>1. CASE hs = <<>>
    BY <1>0, <1>2, <1>5, <2>1 DEF Unwound
  <2>2. CASE hs # <<>>
    <3>1. Len(hs) \in Nat /\ Len(hs) >= 1
      BY <1>2, <2>2
    <3>2. hn[Len(hn)] = hs[Len(hs)]
      BY <1>5, <1>6, <3>1
    <3> QED
      BY <2>2, <3>2 DEF Unwound
  <2> QED
    BY <2>1, <2>2
<1>12. depth[hn[1]] + Len(hn) = depth[t] + 1
  <2>0. depth[c] \in Nat /\ depth[t] \in Nat
    BY <1>1, <1>4 DEF Tree
  <2>1. CASE hs = <<>>
    <3>1. c = t /\ Len(hs) = 0
      BY <2>1 DEF Unwound
    <3> QED
      BY <1>5, <2>0, <3>1
  <2>2. CASE hs # <<>>
    <3>1. depth[hs[1]] + Len(hs) = depth[t] + 1
      BY <2>2 DEF Unwound
    <3>2. Len(hs) \in Nat
      BY <1>2
    <3>3. PICK a \in Nat : a = depth[c]
      BY <2>0
    <3>4. depth[hs[1]] = a + 1
      BY <1>3, <2>2, <3>3
    <3>5. depth[hn[1]] = a
      BY <1>5, <3>3
    <3>6. a + 1 + Len(hs) = a + Len(hn)
      <4>1. PICK m \in Nat : m = Len(hs)
        BY <3>2
      <4>2. Len(hn) = m + 1
        BY <1>5, <4>1
      <4>3. a + 1 + m = a + (m + 1)
        OBVIOUS
      <4> QED
        BY <4>1, <4>2, <4>3, Zenon
    <3> QED
      BY <3>1, <3>4, <3>5, <3>6
  <2> QED
    BY <2>1, <2>2
<1>13. cn # Nowhere => \E k \in Range(kn) : Joins(k, cn, hn[1])
  <2> SUFFICES ASSUME cn # Nowhere PROVE \E k \in Range(kn) : Joins(k, cn, hn[1])
    OBVIOUS
  <2>1. c # s
    BY <1>0 DEF Tree
  <2>2. Joins(prev[c].link, prev[c].device, c)
    BY <1>4, <2>1 DEF Tree
  <2> QED
    BY <1>0, <1>5, <1>9, <2>1, <2>2
<1> QED
  BY <1>0, <1>1, <1>4, <1>5, <1>9, <1>10, <1>11, <1>12, <1>13 DEF Unwound

LEMMA SeqGrows ==
    ASSUME NEW S, NEW Z, S \subseteq Z, NEW x \in Seq(S)
    PROVE  x \in Seq(Z)
<1>1. PICK n \in Nat : x \in [1..n -> S]
  BY SeqDef
<1>2. x \in [1..n -> Z]
  BY <1>1
<1> QED
  BY <1>2, SeqDef

\* What the queue is after one turn of the breadth-first loop.
TurnsTo(q, found, qn) == qn = Tail(q) \o InOrder(found)
Enqueued(q, found, qn, m, p, n) ==
    /\ m \in Nat /\ p \in Nat /\ n \in Nat
    /\ Len(q) = m + 1 /\ Len(qn) = n /\ n = m + p
    /\ \A i \in 1..m : qn[i] = q[i + 1]
    /\ \A i \in (m + 1)..n : qn[i] \in found
    /\ \A x \in found : \E i \in (m + 1)..n : qn[i] = x

LEMMA VisitEnqueues ==
    ASSUME NEW Z, NEW q, q \in Seq(Z), q # <<>>,
           NEW found, found \in SUBSET Nat, IsFiniteSet(found),
           NEW qn, TurnsTo(q, found, qn)
    PROVE  /\ qn \in Seq(Z \cup found)
           /\ \E m, p, n : Enqueued(q, found, qn, m, p, n)
<1>1. PICK m \in Nat : Len(q) = m + 1
  <2>1. Len(q) \in Nat /\ Len(q) # 0
    OBVIOUS
  <2>2. PICK k \in Nat : k = Len(q)
    BY <2>1
  <2>3. k - 1 \in Nat /\ k = (k - 1) + 1
    BY <2>1, <2>2
  <2> QED
    BY <2>2, <2>3, Zenon
<1>2. PICK tl : tl = Tail(q)
  OBVIOUS
<1>3. tl \in Seq(Z) /\ Len(tl) = m /\ \A i \in 1..m : tl[i] = q[i + 1]
  BY <1>1, <1>2
<1>4. PICK z : z = InOrder(found)
  OBVIOUS
<1>5. z \in Seq(found) /\ \A x \in found : \E i \in 1..Len(z) : z[i] = x
  BY <1>4, InOrderLists
<1>6. PICK p \in Nat : Len(z) = p
  BY <1>5
<1>7. PICK S : S = Z \cup found
  OBVIOUS
<1>8. qn = tl \o z /\ tl \in Seq(S) /\ z \in Seq(S)
  <2>1. Z \subseteq S /\ found \subseteq S
    BY <1>7
  <2>2. qn = tl \o z
    BY <1>2, <1>4, Zenon DEF TurnsTo
  <2>3. tl \in Seq(S)
    BY <1>3, <2>1, SeqGrows, Zenon
  <2>4. z \in Seq(S)
    BY <1>5, <2>1, SeqGrows, Zenon
  <2> QED
    BY <2>2, <2>3, <2>4
<1>9. PICK n \in Nat : n = m + p
  OBVIOUS
<1>10. qn \in Seq(S) /\ Len(qn) = n
       /\ \A i \in 1..n : qn[i] = IF i <= m THEN tl[i] ELSE z[i - m]
  <2>1. tl \o z \in Seq(S) /\ Len(tl \o z) = Len(tl) + Len(z)
        /\ \A i \in 1..(Len(tl) + Len(z)) :
             (tl \o z)[i] = IF i <= Len(tl) THEN tl[i] ELSE z[i - Len(tl)]
    BY <1>8, ConcatProperties, Zenon
  <2> QED
    BY <1>3, <1>6, <1>8, <1>9, <2>1, Zenon
<1>11. ASSUME NEW i \in 1..m PROVE qn[i] = q[i + 1]
  <2>1. i \in 1..n /\ i <= m
    BY <1>9, <1>11
  <2> QED
    BY <1>3, <1>10, <1>11, <2>1, Zenon
<1>12. ASSUME NEW i \in (m + 1)..n PROVE qn[i] \in found
  <2>1. PICK j \in Nat : j = i - m
    BY <1>12
  <2>2. j \in 1..p /\ i \in 1..n /\ ~(i <= m)
    BY <1>9, <1>12, <2>1
  <2>3. qn[i] = z[j]
    BY <1>10, <2>1, <2>2, Zenon
  <2>4. z[j] \in found
    BY <1>5, <1>6, <2>2
  <2> QED
    BY <2>3, <2>4, Zenon
<1>13. ASSUME NEW x \in found PROVE \E i \in (m + 1)..n : qn[i] = x
  <2>1. PICK j \in 1..p : z[j] = x
    BY <1>5, <1>6, <1>13
  <2>2. PICK i \in Nat : i = m + j
    OBVIOUS
  <2>3. i \in (m + 1)..n /\ i \in 1..n /\ ~(i <= m) /\ i - m = j
    BY <1>9, <2>1, <2>2
  <2>4. qn[i] = x
    BY <1>10, <2>1, <2>3, Zenon
  <2> QED
    BY <2>3, <2>4, Zenon
<1> QED
  <2>1. Enqueued(q, found, qn, m, p, n)
    BY <1>1, <1>9, <1>10, <1>11, <1>12, <1>13, Zenon DEF Enqueued
  <2> QED
    BY <1>7, <1>10, <2>1

\* One turn of the breadth-first loop.
Records(L, h, prev, found, pn) ==
    /\ \A e : e \in found <=> e \in Neighbours(L, h) /\ e \notin DOMAIN prev
    /\ DOMAIN pn = DOMAIN prev \cup found
    /\ \A e \in DOMAIN prev : pn[e] = prev[e]
    /\ \A e \in found : pn[e] = [device |-> h, link |-> FirstLink(L, h, e)]

LEMMA VisitKeepsLayers ==
    ASSUME NEW L, L \subseteq PathLinks, NEW s, NEW prev, NEW q, NEW depth,
           Tree(L, s, prev, depth), Layers(L, prev, q, depth),
           NEW h, h = q[1], NEW found, NEW qn, NEW pn,
           NEW m, NEW p, NEW n, Enqueued(q, found, qn, m, p, n),
           qn \in Seq(DOMAIN prev \cup found),
           Records(L, h, prev, found, pn)
    PROVE  /\ \E dn : Tree(L, s, pn, dn) /\ Layers(L, pn, qn, dn)
           /\ \A e \in DOMAIN pn : e \notin DOMAIN prev => Waits(qn, e)
<1> USE DEF Enqueued, Records
<1>1. DOMAIN prev \subseteq PathDevices /\ s \in DOMAIN prev
      /\ \A e \in DOMAIN prev : depth[e] \in Nat
  BY DEF Tree
<1>2. q \in Seq(DOMAIN prev) /\ \A i \in 1..Len(q) : q[i] \in DOMAIN prev
  BY DEF Layers
<1>4. h \in DOMAIN prev
  BY <1>2
<1>7. found \subseteq PathDevices
  BY DEF Neighbours
<1>11. PICK S : S = DOMAIN prev \cup found
  OBVIOUS
<1>13. qn \in Seq(S) /\ Len(qn) = m + p
  BY <1>11
<1>14. PICK dn : dn = [e \in S |-> IF e \in found THEN depth[h] + 1 ELSE depth[e]]
  OBVIOUS
<1>15. DOMAIN pn = S /\ DOMAIN dn = S /\ found \cap DOMAIN prev = {}
  BY <1>11, <1>14
<1>16. PICK D \in Nat : D = depth[h]
  BY <1>1, <1>4
<1>17. /\ \A e \in DOMAIN prev : e \in S /\ dn[e] = depth[e] /\ pn[e] = prev[e]
       /\ \A e \in found : e \in S /\ dn[e] = D + 1
                           /\ pn[e] = [device |-> h, link |-> FirstLink(L, h, e)]
  BY <1>11, <1>14, <1>15, <1>16
<1>18. dn \in [S -> Nat]
  <2>1. \A e \in S : dn[e] \in Nat
    <3>1. D + 1 \in Nat
      OBVIOUS
    <3> QED
      BY <1>1, <1>11, <1>17, <3>1
  <2> QED
    BY <1>14, <2>1
<1>19. ASSUME NEW e \in found
       PROVE  FirstLink(L, h, e) \in L /\ Joins(FirstLink(L, h, e), h, e)
  <2>1. PICK K : K = {k \in L : Joins(k, h, e)}
    OBVIOUS
  <2>2. K # {} /\ K \in SUBSET Nat
    <3>1. K # {}
      BY <1>19, <2>1 DEF Neighbours
    <3> QED
      BY <2>1, <3>1, PathsAssumption
  <2>3. Min(K) \in K
    BY <2>2, MinIsLeast
  <2> QED
    BY <2>1, <2>3 DEF FirstLink
<1>20. Tree(L, s, pn, dn)
  <2>1. pn[s] = [device |-> Nowhere, link |-> Nowhere] /\ dn[s] = 0
    BY <1>1, <1>17 DEF Tree
  <2>2. ASSUME NEW e \in S, e # s
        PROVE  /\ pn[e].device \in S /\ pn[e].link \in L
               /\ Joins(pn[e].link, pn[e].device, e)
               /\ dn[e] = dn[pn[e].device] + 1
    <3>1. CASE e \in found
      BY <1>4, <1>16, <1>17, <1>19, <3>1
    <3>2. CASE e \in DOMAIN prev
      <4>1. prev[e].device \in DOMAIN prev /\ prev[e].link \in L
            /\ Joins(prev[e].link, prev[e].device, e)
            /\ depth[e] = depth[prev[e].device] + 1
        BY <2>2, <3>2 DEF Tree
      <4> QED
        BY <1>17, <3>2, <4>1
    <3> QED
      BY <1>11, <2>2, <3>1, <3>2
  <2>3. ASSUME NEW e \in S
        PROVE  pn[e] \in [device: PathDevices \cup {Nowhere}, link: PathLinks \cup {Nowhere}]
    <3>1. CASE e \in found
      BY <1>1, <1>4, <1>17, <1>19, <3>1
    <3>2. CASE e \in DOMAIN prev
      BY <1>17, <3>2 DEF Tree
    <3> QED
      BY <1>11, <2>3, <3>1, <3>2
  <2>4. S \subseteq PathDevices /\ s \in S
    BY <1>1, <1>7, <1>11
  <2> QED
    BY <1>15, <1>18, <2>1, <2>2, <2>3, <2>4 DEF Tree
<1>21. \A i \in 1..Len(q) : D <= depth[q[i]] /\ depth[q[i]] <= D + 1
  <2> SUFFICES ASSUME NEW i \in 1..Len(q) PROVE D <= depth[q[i]] /\ depth[q[i]] <= D + 1
    OBVIOUS
  <2>1. 1 \in 1..Len(q) /\ 1 <= i
    BY <1>2
  <2> QED
    BY <1>4, <1>16, <2>1 DEF Layers
<1>22. ASSUME NEW i \in 1..Len(qn)
       PROVE  /\ i <= m => i + 1 \in 1..Len(q) /\ qn[i] = q[i + 1]
                             /\ dn[qn[i]] = depth[q[i + 1]]
              /\ ~(i <= m) => qn[i] \in found /\ dn[qn[i]] = D + 1
  <2>1. CASE i <= m
    <3>1. i \in 1..m /\ i + 1 \in 1..Len(q)
      BY <1>22, <2>1
    <3>2. qn[i] = q[i + 1]
      BY <3>1
    <3>3. q[i + 1] \in DOMAIN prev
      BY <1>2, <3>1
    <3> QED
      BY <1>17, <2>1, <3>1, <3>2, <3>3
  <2>2. CASE ~(i <= m)
    <3>1. i \in (m + 1)..n
      BY <1>22, <2>2
    <3> QED
      BY <1>17, <2>2, <3>1
  <2> QED
    BY <2>1, <2>2
<1>23. \A i \in 1..Len(qn) : dn[qn[i]] \in Nat /\ D <= dn[qn[i]] /\ dn[qn[i]] <= D + 1
  <2> SUFFICES ASSUME NEW i \in 1..Len(qn)
               PROVE  dn[qn[i]] \in Nat /\ D <= dn[qn[i]] /\ dn[qn[i]] <= D + 1
    OBVIOUS
  <2>1. CASE i <= m
    <3>1. i + 1 \in 1..Len(q) /\ dn[qn[i]] = depth[q[i + 1]]
      BY <1>22, <2>1
    <3>2. q[i + 1] \in DOMAIN prev
      BY <1>2, <3>1
    <3> QED
      BY <1>1, <1>21, <3>1, <3>2
  <2>2. CASE ~(i <= m)
    <3>1. dn[qn[i]] = D + 1
      BY <1>22, <2>2
    <3> QED
      BY <3>1
  <2> QED
    BY <2>1, <2>2
<1>24. ASSUME NEW i \in 1..Len(qn), NEW j \in 1..Len(qn), i <= j
       PROVE  dn[qn[i]] <= dn[qn[j]] /\ dn[qn[j]] <= dn[qn[1]] + 1
  <2>1. 1 \in 1..Len(qn)
    <3>1. PICK k \in Nat : k = Len(qn)
      BY <1>13
    <3>2. i \in 1..k
      BY <1>24, <3>1
    <3> QED
      BY <3>1, <3>2
  <2>2. dn[qn[j]] <= dn[qn[1]] + 1
    <3>1. /\ dn[qn[1]] \in Nat /\ D <= dn[qn[1]]
          /\ dn[qn[j]] \in Nat /\ dn[qn[j]] <= D + 1
      BY <1>23, <1>24, <2>1
    <3> QED
      BY <1>16, <3>1
  <2>3. CASE ~(j <= m)
    <3>1. dn[qn[j]] = D + 1 /\ dn[qn[i]] <= D + 1
      BY <1>22, <1>23, <1>24, <2>3
    <3> QED
      BY <2>2, <3>1
  <2>4. CASE j <= m
    <3>1. i <= m /\ i + 1 <= j + 1 /\ i + 1 \in 1..Len(q) /\ j + 1 \in 1..Len(q)
      <4>1. i \in Nat /\ j \in Nat /\ i <= j
        BY <1>13, <1>24
      <4>2. i <= m /\ i + 1 <= j + 1
        BY <2>4, <4>1
      <4> QED
        BY <1>22, <1>24, <2>4, <4>2
    <3>2. depth[q[i + 1]] <= depth[q[j + 1]]
      BY <3>1 DEF Layers
    <3> QED
      BY <1>22, <1>24, <2>2, <2>4, <3>1, <3>2
  <2> QED
    BY <2>3, <2>4
<1>25. ASSUME NEW e \in found PROVE Waits(qn, e)
  <2>1. PICK i \in (m + 1)..n : qn[i] = e
    BY <1>25
  <2>2. i \in 1..Len(qn)
    BY <2>1
  <2> QED
    BY <2>1, <2>2 DEF Waits
<1>26. ASSUME NEW e \in DOMAIN prev, Waits(q, e), e # h PROVE Waits(qn, e)
  <2>1. PICK j \in 1..Len(q) : q[j] = e
    BY <1>26 DEF Waits
  <2>2. j # 1
    BY <1>26, <2>1
  <2>3. PICK i \in Nat : i = j - 1
    BY <2>1, <2>2
  <2>4. i \in 1..m /\ i + 1 = j /\ i \in 1..Len(qn)
    BY <2>1, <2>2, <2>3
  <2>5. qn[i] = e
    BY <2>1, <2>4
  <2> QED
    BY <2>4, <2>5 DEF Waits
<1>27. ASSUME NEW d \in S, ~Waits(qn, d)
       PROVE  /\ \A i \in 1..Len(qn) : dn[d] <= dn[qn[i]]
              /\ \A e \in Neighbours(L, d) : e \in S /\ dn[e] <= dn[d] + 1
  <2>1. d \in DOMAIN prev /\ dn[d] = depth[d]
    BY <1>11, <1>17, <1>25, <1>27
  <2>2. CASE Waits(q, d)
    <3>1. d = h /\ dn[d] = D
      BY <1>16, <1>26, <1>27, <2>1, <2>2
    <3>2. ASSUME NEW e \in Neighbours(L, d), e \notin found
          PROVE  e \in S /\ dn[e] <= dn[d] + 1
      <4>1. e \in DOMAIN prev
        BY <3>1, <3>2
      <4>2. depth[e] <= D + 1
        <5>1. CASE Waits(q, e)
          BY <1>21, <5>1 DEF Waits
        <5>2. CASE ~Waits(q, e)
          <6>1. depth[e] <= depth[q[1]] /\ depth[e] \in Nat
            BY <1>1, <1>2, <4>1, <5>2 DEF Layers
          <6> QED
            BY <1>4, <1>16, <6>1
        <5> QED
          BY <5>1, <5>2
      <4> QED
        BY <1>17, <3>1, <4>1, <4>2
    <3>3. \A e \in found : e \in S /\ dn[e] <= dn[d] + 1
      <4>1. D + 1 <= D + 1
        OBVIOUS
      <4> QED
        BY <1>17, <3>1, <4>1
    <3> QED
      BY <1>23, <3>1, <3>2, <3>3
  <2>3. CASE ~Waits(q, d)
    <3>1. /\ depth[d] <= depth[q[1]]
          /\ \A e \in Neighbours(L, d) : e \in DOMAIN prev /\ depth[e] <= depth[d] + 1
      BY <1>2, <2>1, <2>3 DEF Layers
    <3>2. depth[d] \in Nat /\ depth[d] <= D
      BY <1>1, <1>4, <1>16, <2>1, <3>1
    <3>3. \A i \in 1..Len(qn) : dn[d] <= dn[qn[i]]
      <4> SUFFICES ASSUME NEW i \in 1..Len(qn) PROVE dn[d] <= dn[qn[i]]
        OBVIOUS
      <4>1. D <= dn[qn[i]] /\ dn[qn[i]] \in Nat
        BY <1>23
      <4> QED
        BY <2>1, <3>2, <4>1
    <3>4. \A e \in Neighbours(L, d) : e \in S /\ dn[e] <= dn[d] + 1
      BY <1>17, <2>1, <3>1
    <3> QED
      BY <3>3, <3>4
  <2> QED
    BY <2>2, <2>3
<1>28. Layers(L, pn, qn, dn)
  BY <1>13, <1>15, <1>24, <1>27 DEF Layers
<1>29. \A e \in DOMAIN pn : e \notin DOMAIN prev => Waits(qn, e)
  BY <1>11, <1>15, <1>25
<1> QED
  BY <1>20, <1>28, <1>29

-----------------------------------------------------------------------------
(***************************************************************************)
(* NetworkPaths: the longest prefix.                                       *)
(***************************************************************************)
LEMMA SameQuotient ==
    ASSUME NEW u \in Nat \ {0}, NEW a \in Nat, NEW b \in Nat
    PROVE  (a \div u) * u = (b \div u) * u
             <=> b - (b % u) <= a /\ a < b - (b % u) + u
OBVIOUS

LEMMA PrefixIsRange ==
    ASSUME NEW a \in 0..(2 ^ Bits - 1), NEW route \in Route
    PROVE  PrefixOf(a, route.length) = PrefixOf(route.network, route.length)
             <=> InRange(a, route)
<1>1. Bits \in Nat /\ 2 ^ Bits \in Nat \ {0}
  BY PathsAssumption, PowersAssumption
<1>2. PICK w \in Nat \ {0} : w = 2 ^ Bits
  BY <1>1
<1>3. PICK b : b = route.network
  OBVIOUS
<1>4. PICK n : n = route.length
  OBVIOUS
<1>5. a \in 0..(w - 1) /\ b \in 0..(w - 1) /\ n \in 0..Bits
  BY <1>2, <1>3, <1>4 DEF Route
<1>6. CASE n = 0
  <2>1. Bits - n = Bits
    BY <1>1, <1>6
  <2>2. b % w = b
    BY <1>5
  <2>3. InRange(a, route) <=> b - b <= a /\ a < b - b + w
    BY <1>2, <1>3, <1>4, <2>1, <2>2 DEF InRange
  <2>4. b - b <= a /\ a < b - b + w
    BY <1>5
  <2> QED
    BY <1>4, <1>6, <2>3, <2>4 DEF PrefixOf
<1>7. CASE n # 0
  <2>1. Bits - n \in 0..Bits
    BY <1>1, <1>5
  <2>2. PICK u \in Nat \ {0} : u = 2 ^ (Bits - n)
    BY <2>1, PowersAssumption
  <2>3. PrefixOf(a, n) = (a \div u) * u /\ PrefixOf(b, n) = (b \div u) * u
    BY <1>7, <2>2 DEF PrefixOf
  <2>4. InRange(a, route) <=> b - (b % u) <= a /\ a < b - (b % u) + u
    BY <1>3, <1>4, <2>2 DEF InRange
  <2>5. a \in Nat /\ b \in Nat
    BY <1>5
  <2> QED
    BY <1>3, <1>4, <2>3, <2>4, <2>5, SameQuotient
<1> QED
  BY <1>6, <1>7

\* Some route is better than every other: no route is better than it.
LEMMA SomeRouteIsBest ==
    ASSUME NEW rs \in Seq(Route), NEW c \in SUBSET DOMAIN rs, c # {}
    PROVE  \E i \in c : \A j \in c : ~Better(rs[j], rs[i])
<1>0. Bits \in Nat
  BY PathsAssumption
<1>1. \A i \in c : rs[i].length \in 0..Bits /\ rs[i].distance \in Nat
  <2> SUFFICES ASSUME NEW i \in c PROVE rs[i].length \in 0..Bits /\ rs[i].distance \in Nat
    OBVIOUS
  <2>1. rs[i] \in Route
    BY LenProperties
  <2> QED
    BY <2>1 DEF Route
<1>2. PICK G : G = {Bits - rs[i].length : i \in c}
  OBVIOUS
<1>3. PICK g \in G : \A k \in G : g <= k
  <2>1. G # {}
    BY <1>2
  <2>2. G \in SUBSET Nat
    BY <1>0, <1>1, <1>2
  <2> QED
    BY <2>1, <2>2, LeastNumber
<1>4. PICK H : H = {rs[i].distance : i \in {k \in c : Bits - rs[k].length = g}}
  OBVIOUS
<1>5. PICK h \in H : \A k \in H : h <= k
  <2>1. H # {}
    BY <1>2, <1>3, <1>4
  <2>2. H \in SUBSET Nat
    BY <1>1, <1>4
  <2> QED
    BY <2>1, <2>2, LeastNumber
<1>6. PICK i \in c : Bits - rs[i].length = g /\ rs[i].distance = h
  BY <1>4, <1>5
<1>7. ASSUME NEW j \in c PROVE ~Better(rs[j], rs[i])
  <2>1. g <= Bits - rs[j].length
    BY <1>2, <1>3, <1>7
  <2>2. ~(rs[j].length > rs[i].length)
    BY <1>0, <1>1, <1>6, <1>7, <2>1
  <2>3. rs[j].length = rs[i].length => h <= rs[j].distance
    BY <1>4, <1>5, <1>6, <1>7
  <2>4. ~(rs[j].length = rs[i].length /\ rs[j].distance < rs[i].distance)
    BY <1>1, <1>6, <1>7, <2>3
  <2> QED
    BY <2>2, <2>4 DEF Better
<1> QED
  BY <1>6, <1>7

Fits(r, d, a) == {i \in Scoped(r, d) : InRange(a, r.routes[i])}

LEMMA SelectsLongest ==
    ASSUME NEW r \in Recorded, NEW d, NEW a \in 0..(2 ^ Bits - 1)
    PROVE  /\ Selected(r, d, a) = NoRoute <=> Fits(r, d, a) = {}
           /\ Fits(r, d, a) # {} =>
                 /\ Selected(r, d, a).index \in Fits(r, d, a)
                 /\ \A i \in Fits(r, d, a) :
                       r.routes[i].length <= r.routes[Selected(r, d, a).index].length
<1>1. PICK rs : rs = r.routes
  OBVIOUS
<1>2. rs \in Seq(Route)
  BY <1>1, PathsAssumption
<1>3. \A i \in DOMAIN rs : rs[i] \in Route /\ i \in Nat /\ i # 0
  BY <1>2, LenProperties
<1>4. PICK c : c = Candidates(r, d, a)
  OBVIOUS
<1>5. c \in SUBSET DOMAIN rs
  BY <1>1, <1>4 DEF Candidates, Scoped
<1>6. c = Fits(r, d, a)
  <2>1. Scoped(r, d) \subseteq DOMAIN rs
    BY <1>1 DEF Scoped
  <2>2. \A i \in Scoped(r, d) :
           PrefixOf(a, rs[i].length) = PrefixOf(rs[i].network, rs[i].length)
             <=> InRange(a, rs[i])
    BY <1>3, <2>1, PrefixIsRange
  <2> QED
    BY <1>1, <1>4, <2>2, Zenon DEF Candidates, Fits
<1>7. CASE c = {}
  BY <1>4, <1>6, <1>7 DEF Selected
<1>8. CASE c # {}
  <2>1. PICK B : B = {i \in c : \A j \in c : ~Better(rs[j], rs[i])}
    OBVIOUS
  <2>2. B # {} /\ B \subseteq c
    BY <1>2, <1>5, <1>8, <2>1, SomeRouteIsBest
  <2>3. B \in SUBSET Nat
    BY <1>3, <1>5, <2>2
  <2>4. PICK m : m = Min(B)
    OBVIOUS
  <2>5. m \in B
    BY <2>2, <2>3, <2>4, MinIsLeast
  <2>6. Selected(r, d, a) = [index |-> m]
    BY <1>1, <1>4, <1>8, <2>1, <2>4 DEF Selected
  <2>7. m # 0 /\ m \in c
    BY <1>3, <1>5, <2>2, <2>5
  <2>8. [index |-> m] # NoRoute
    <3>1. [index |-> m].index = m /\ NoRoute.index = 0
      BY DEF NoRoute
    <3> QED
      BY <2>7, <3>1
  <2>9. ASSUME NEW i \in c PROVE rs[i].length <= rs[m].length
    <3>1. ~(rs[i].length > rs[m].length)
      BY <2>1, <2>5, <2>9 DEF Better
    <3>2. rs[i].length \in Nat /\ rs[m].length \in Nat
      <4>1. rs[i] \in Route /\ rs[m] \in Route /\ Bits \in Nat
        BY <1>3, <1>5, <2>7, <2>9, PathsAssumption
      <4> QED
        BY <4>1 DEF Route
    <3> QED
      BY <3>1, <3>2
  <2> QED
    BY <1>1, <1>6, <1>8, <2>6, <2>7, <2>8, <2>9
<1> QED
  BY <1>7, <1>8

-----------------------------------------------------------------------------
(***************************************************************************)
(* NetworkPaths: what is in the way.                                       *)
(***************************************************************************)
\* With nothing named every link of the path is usable.
LEMMA UnblockedIsUsable ==
    ASSUME NEW r, BlockersOn(r) = {}, Range(traversed) \subseteq PathLinks
    PROVE  Range(traversed) \subseteq UsableLinks(r)
<1>1. \A k \in Range(traversed) : k \in r.links
  BY DEF BlockersOn
<1>2. \A k \in Range(traversed) : {From[k], To[k]} \subseteq r.up
  BY DEF BlockersOn
<1>3. \A k \in Range(traversed) : \A d \in {From[k], To[k]} : <<k, d>> \in r.ends
  BY DEF BlockersOn
<1> QED
  BY <1>1, <1>2, <1>3 DEF UsableLinks

-----------------------------------------------------------------------------
(***************************************************************************)
(* NetworkPaths: the invariant.                                            *)
(***************************************************************************)
Over == IF phase \in {"raw", "unwind raw"} THEN PathLinks ELSE UsableLinks(read)
BothUp == {request.source, request.target} \subseteq read.up

FoundSoFar(depth) ==
    /\ Tree(Over, request.source, previous, depth)
    /\ Layers(Over, previous, queue, depth)
    /\ Met => Waits(queue, request.target)
    /\ phase \in {"search", "raw"} =>
          hops = <<>> /\ traversed = <<>> /\ cursor = Nowhere
    /\ phase \in {"unwind", "unwind raw"} =>
          /\ Met
          /\ Unwound(Over, request.target, previous, depth, hops, traversed, cursor)

\* A search that has not begun: a device is down.
NotBegun ==
    /\ phase = "search" /\ ~BothUp /\ request.kind = "analyze" /\ blockers # {}
    /\ previous = <<>> /\ queue = <<>>
    /\ hops = <<>> /\ traversed = <<>> /\ cursor = Nowhere

SearchGoesRight ==
    phase \in {"search", "raw", "unwind", "unwind raw"} =>
       \/ NotBegun
       \/ /\ \E depth : FoundSoFar(depth)
          /\ phase \in {"search", "unwind"} => BothUp /\ blockers = {}
          /\ phase \in {"raw", "unwind raw"} =>
                request.kind = "analyze" /\ ~Operational /\ (BothUp \/ blockers # {})

PathIsKnown ==
    phase = "lookup" =>
       /\ request.kind = "analyze" /\ BothUp /\ blockers = {} /\ LooksUp
       /\ Shortest(UsableLinks(read), request.source, request.target, hops)

ReadingFits == phase # "answered" /\ ~reread => recorded = read

StartsClean ==
    phase = "idle" =>
       /\ hops = <<>> /\ traversed = <<>> /\ cursor = Nowhere
       /\ queue = <<>> /\ previous = <<>> /\ blockers = {} /\ answer = NoAnswer

PathsIInv ==
    /\ PathsTypeOK /\ SearchGoesRight /\ PathIsKnown /\ ReadingFits /\ StartsClean
    /\ AnalysisIsRight

LEMMA UsableAreLinks ==
    ASSUME NEW r \in Recorded
    PROVE  UsableLinks(r) \subseteq PathLinks
BY PathsAssumption DEF UsableLinks

LEMMA FoundIsTyped ==
    ASSUME NEW L, NEW s, NEW prev, NEW q, NEW depth,
           Tree(L, s, prev, depth), Layers(L, prev, q, depth)
    PROVE  /\ q \in Seq(PathDevices) /\ DOMAIN prev \subseteq PathDevices
           /\ \A d \in DOMAIN prev :
                 prev[d] \in [device: PathDevices \cup {Nowhere},
                              link: PathLinks \cup {Nowhere}]
BY SeqGrows DEF Tree, Layers

\* The device the search starts at, in the next state.
LEMMA StartsAtFinds ==
    ASSUME NEW L, NEW s \in PathDevices, StartsAt(s)
    PROVE  /\ \E depth : Tree(L, s, previous', depth) /\ Layers(L, previous', queue', depth)
           /\ \A e \in DOMAIN previous' : Waits(queue', e)
<1>1. PICK q : q = queue'
  OBVIOUS
<1>2. PICK prev : prev = previous'
  OBVIOUS
<1>3. q = <<s>> /\ prev = [e \in {s} |-> [device |-> Nowhere, link |-> Nowhere]]
  BY <1>1, <1>2 DEF StartsAt
<1>4. \E depth : Tree(L, s, prev, depth) /\ Layers(L, prev, q, depth)
  BY <1>3, StartsWell
<1>5. \A e \in DOMAIN prev : Waits(q, e)
  <2>1. DOMAIN prev = {s} /\ Len(q) = 1 /\ q[1] = s
    BY <1>3
  <2> QED
    BY <2>1 DEF Waits
<1> QED
  BY <1>1, <1>2, <1>4, <1>5

\* Nothing is claimed of an analysis that has not answered.
LEMMA UnansweredIsRight ==
    ASSUME phase' # "answered"
    PROVE  AnalysisIsRight'
BY DEF AnalysisIsRight, AnswersReachability, PathIsShortest, BlockedIsExplained,
       LongestPrefixDecides

LEMMA PathsStartRight ==
    PathsInit => PathsIInv
<1> SUFFICES ASSUME PathsInit PROVE PathsIInv
  OBVIOUS
<1>1. Min(PathDevices) \in PathDevices
  <2>1. PathDevices # {} /\ PathDevices \in SUBSET Nat
    BY PathsAssumption
  <2> QED
    BY <2>1, MinIsLeast
<1>2. PathsTypeOK
  <2>1. request \in [kind: {"trace", "analyze"}, source: PathDevices, target: PathDevices]
    BY <1>1 DEF PathsInit, FirstRequest
  <2>2. DOMAIN previous = {}
    BY DEF PathsInit
  <2>3. queue \in Seq(PathDevices) /\ hops \in Seq(PathDevices) /\ traversed \in Seq(PathLinks)
    BY DEF PathsInit
  <2> QED
    BY <2>1, <2>2, <2>3 DEF PathsInit, PathsTypeOK, Phases
<1>3. AnalysisIsRight
  BY DEF PathsInit, AnalysisIsRight, AnswersReachability, PathIsShortest, BlockedIsExplained,
         LongestPrefixDecides
<1> QED
  BY <1>2, <1>3 DEF PathsInit, PathsIInv, SearchGoesRight, PathIsKnown, ReadingFits, StartsClean

LEMMA TraceKeeps ==
    ASSUME PathsIInv, Trace
    PROVE  PathsIInv'
<1>1. PICK s, t \in PathDevices :
          /\ request' = [kind |-> "trace", source |-> s, target |-> t]
          /\ \/ /\ {s, t} \subseteq recorded.up
                /\ s # t
                /\ StartsAt(s)
                /\ phase' = "search"
                /\ UNCHANGED answer
             \/ /\ ~({s, t} \subseteq recorded.up)
                /\ answer' = [status |-> "UNREACHABLE", hops |-> <<>>]
                /\ phase' = "answered"
                /\ UNCHANGED <<queue, previous>>
             \/ /\ s = t /\ s \in recorded.up
                /\ answer' = [status |-> "PATH_FOUND", hops |-> <<s>>]
                /\ phase' = "answered"
                /\ UNCHANGED <<queue, previous>>
  BY DEF Trace
<1>2. /\ phase = "idle" /\ recorded # Gone /\ read' = recorded /\ reread' = FALSE
      /\ UNCHANGED <<recorded, hops, traversed, cursor, blockers>>
  BY DEF Trace
<1>3. PathsTypeOK /\ hops = <<>> /\ traversed = <<>> /\ cursor = Nowhere
      /\ queue = <<>> /\ previous = <<>> /\ blockers = {} /\ answer = NoAnswer
  BY <1>2 DEF PathsIInv, StartsClean
<1>4. recorded \in Recorded
  BY <1>2, <1>3 DEF PathsTypeOK
<1>5. request' \in [kind: {"trace", "analyze"}, source: PathDevices, target: PathDevices]
      /\ request'.kind = "trace" /\ request'.source = s /\ request'.target = t
  BY <1>1
<1>6. ASSUME queue' \in Seq(PathDevices), DOMAIN previous' \subseteq PathDevices,
             \A d \in DOMAIN previous' :
                previous'[d] \in [device: PathDevices \cup {Nowhere},
                                  link: PathLinks \cup {Nowhere}],
             answer' # NoAnswer => answer'.status \in Statuses
      PROVE  PathsTypeOK'
  <2>1. phase' \in Phases
    BY <1>1 DEF Phases
  <2> QED
    BY <1>2, <1>3, <1>4, <1>5, <1>6, <2>1 DEF PathsTypeOK
<1>7. ReadingFits' /\ (PathIsKnown /\ StartsClean)'
  BY <1>1, <1>2 DEF ReadingFits, PathIsKnown, StartsClean
<1>8. CASE {s, t} \subseteq recorded.up /\ s # t /\ StartsAt(s) /\ phase' = "search"
           /\ UNCHANGED answer
  <2>1. PICK L : L = UsableLinks(read')
    OBVIOUS
  <2>2. PICK depth : Tree(L, s, previous', depth) /\ Layers(L, previous', queue', depth)
    BY <1>8, StartsAtFinds
  <2>3. \A e \in DOMAIN previous' : Waits(queue', e)
    BY <1>8, StartsAtFinds
  <2>4. Over' = L
    BY <1>8, <2>1 DEF Over
  <2>5. FoundSoFar(depth)'
    BY <1>2, <1>3, <1>5, <1>8, <2>2, <2>3, <2>4 DEF FoundSoFar, Met
  <2>6. BothUp'
    BY <1>2, <1>5, <1>8 DEF BothUp
  <2>7. SearchGoesRight'
    BY <1>2, <1>3, <1>8, <2>5, <2>6 DEF SearchGoesRight
  <2>8. PathsTypeOK'
    <3>1. PICK q : q = queue'
      OBVIOUS
    <3>2. PICK prev : prev = previous'
      OBVIOUS
    <3>3. /\ q \in Seq(PathDevices) /\ DOMAIN prev \subseteq PathDevices
          /\ \A d \in DOMAIN prev :
                 prev[d] \in [device: PathDevices \cup {Nowhere},
                              link: PathLinks \cup {Nowhere}]
      BY <2>2, <3>1, <3>2, FoundIsTyped
    <3> QED
      BY <1>3, <1>6, <1>8, <3>1, <3>2, <3>3
  <2>9. AnalysisIsRight'
    BY <1>8, UnansweredIsRight
  <2> QED
    BY <1>7, <2>7, <2>8, <2>9 DEF PathsIInv
<1>9. CASE phase' = "answered" /\ UNCHANGED <<queue, previous>>
           /\ (\/ ~({s, t} \subseteq recorded.up)
                  /\ answer' = [status |-> "UNREACHABLE", hops |-> <<>>]
               \/ s = t /\ s \in recorded.up /\ answer' = [status |-> "PATH_FOUND", hops |-> <<s>>])
  <2>1. PathsTypeOK'
    <3>1. answer'.status \in Statuses
      <4>1. PICK a : a = answer'
        OBVIOUS
      <4>2. a = [status |-> "UNREACHABLE", hops |-> <<>>]
              \/ a = [status |-> "PATH_FOUND", hops |-> <<s>>]
        BY <1>9, <4>1
      <4>3. a.status = "UNREACHABLE" \/ a.status = "PATH_FOUND"
        BY <4>2
      <4> QED
        BY <4>1, <4>3 DEF Statuses
    <3> QED
      BY <1>3, <1>6, <1>9, <3>1 DEF PathsTypeOK
  <2>2. SearchGoesRight'
    BY <1>9 DEF SearchGoesRight
  <2>3. AnswersReachability'
    <3>1. Operational' <=> {s, t} \subseteq recorded.up /\ Connected(UsableLinks(recorded), s, t)
      BY <1>2, <1>5 DEF Operational
    <3>2. s = t => Connected(UsableLinks(recorded), s, t)
      BY DEF Connected
    <3>3. answer'.status = "PATH_FOUND" <=> Operational'
      BY <1>9, <3>1, <3>2
    <3> QED
      BY <1>5, <3>3 DEF AnswersReachability
  <2>4. PathIsShortest'
    <3>1. CASE answer'.hops = <<>>
      BY <3>1 DEF PathIsShortest
    <3>2. CASE answer'.hops = <<s>> /\ s = t
      <4>1. PICK w : w = answer'.hops
        OBVIOUS
      <4>2. Len(w) = 1 /\ w[1] = s /\ w[Len(w)] = t /\ 1..(Len(w) - 1) = {}
        BY <3>2, <4>1
      <4> QED
        BY <1>5, <4>1, <4>2 DEF PathIsShortest
    <3> QED
      BY <1>9, <3>1, <3>2
  <2>5. answer'.status # "BLOCKED" /\ answer'.status \notin {"FORWARDABLE", "INDETERMINATE"}
    BY <1>9
  <2>6. AnalysisIsRight'
    BY <2>3, <2>4, <2>5 DEF AnalysisIsRight, BlockedIsExplained, LongestPrefixDecides
  <2> QED
    BY <1>7, <2>1, <2>2, <2>6 DEF PathsIInv
<1> QED
  BY <1>1, <1>8, <1>9

LEMMA AnalyzeKeeps ==
    ASSUME PathsIInv, Analyze
    PROVE  PathsIInv'
<1>1. PICK s, t \in PathDevices :
          /\ request' = [kind |-> "analyze", source |-> s, target |-> t]
          /\ \/ {s, t} \subseteq recorded.up /\ StartsAt(s) /\ blockers' = {}
             \/ /\ ~({s, t} \subseteq recorded.up)
                /\ blockers' = {"DEVICE_DOWN"}
                /\ UNCHANGED <<queue, previous>>
  BY DEF Analyze
<1>2. /\ phase = "idle" /\ recorded # Gone /\ read' = recorded /\ reread' = FALSE
      /\ phase' = "search"
      /\ UNCHANGED <<recorded, hops, traversed, cursor, answer>>
  BY DEF Analyze
<1>3. PathsTypeOK /\ hops = <<>> /\ traversed = <<>> /\ cursor = Nowhere
      /\ queue = <<>> /\ previous = <<>>
  BY <1>2 DEF PathsIInv, StartsClean
<1>4. recorded \in Recorded
  BY <1>2, <1>3 DEF PathsTypeOK
<1>5. request' \in [kind: {"trace", "analyze"}, source: PathDevices, target: PathDevices]
      /\ request'.kind = "analyze" /\ request'.source = s /\ request'.target = t
  BY <1>1
<1>6. ASSUME queue' \in Seq(PathDevices), DOMAIN previous' \subseteq PathDevices,
             \A d \in DOMAIN previous' :
                previous'[d] \in [device: PathDevices \cup {Nowhere},
                                  link: PathLinks \cup {Nowhere}]
      PROVE  PathsTypeOK'
  <2>1. phase' \in Phases
    BY <1>2 DEF Phases
  <2> QED
    BY <1>1, <1>2, <1>3, <1>4, <1>5, <1>6, <2>1 DEF PathsTypeOK
<1>7. ReadingFits' /\ (PathIsKnown /\ StartsClean)' /\ AnalysisIsRight'
  BY <1>1, <1>2, UnansweredIsRight DEF ReadingFits, PathIsKnown, StartsClean
<1>8. CASE {s, t} \subseteq recorded.up /\ StartsAt(s) /\ blockers' = {}
  <2>1. PICK L : L = UsableLinks(read')
    OBVIOUS
  <2>2. PICK depth : Tree(L, s, previous', depth) /\ Layers(L, previous', queue', depth)
    BY <1>8, StartsAtFinds
  <2>3. \A e \in DOMAIN previous' : Waits(queue', e)
    BY <1>8, StartsAtFinds
  <2>4. Over' = L
    BY <1>2, <2>1 DEF Over
  <2>5. FoundSoFar(depth)'
    BY <1>2, <1>3, <1>5, <1>8, <2>2, <2>3, <2>4 DEF FoundSoFar, Met
  <2>6. BothUp'
    BY <1>2, <1>5, <1>8 DEF BothUp
  <2>7. SearchGoesRight'
    BY <1>2, <1>3, <1>8, <2>5, <2>6 DEF SearchGoesRight
  <2>8. PathsTypeOK'
    <3>1. PICK q : q = queue'
      OBVIOUS
    <3>2. PICK prev : prev = previous'
      OBVIOUS
    <3>3. /\ q \in Seq(PathDevices) /\ DOMAIN prev \subseteq PathDevices
          /\ \A d \in DOMAIN prev :
                 prev[d] \in [device: PathDevices \cup {Nowhere},
                              link: PathLinks \cup {Nowhere}]
      BY <2>2, <3>1, <3>2, FoundIsTyped
    <3> QED
      BY <1>6, <3>1, <3>2, <3>3
  <2> QED
    BY <1>7, <2>7, <2>8 DEF PathsIInv
<1>9. CASE ~({s, t} \subseteq recorded.up) /\ blockers' = {"DEVICE_DOWN"}
           /\ UNCHANGED <<queue, previous>>
  <2>1. PathsTypeOK'
    BY <1>3, <1>6, <1>9 DEF PathsTypeOK
  <2>2. ~BothUp' /\ blockers' # {}
    BY <1>2, <1>5, <1>9 DEF BothUp
  <2>3. NotBegun'
    BY <1>2, <1>3, <1>5, <1>9, <2>2 DEF NotBegun
  <2> QED
    BY <1>7, <2>1, <2>3 DEF PathsIInv, SearchGoesRight
<1> QED
  BY <1>1, <1>8, <1>9

LEMMA VisitKeeps ==
    ASSUME PathsIInv, Visit
    PROVE  PathsIInv'
<1>1. /\ phase \in {"search", "raw"} /\ ~Met /\ queue # <<>>
      /\ VisitOver(IF phase = "search" THEN UsableLinks(read) ELSE PathLinks)
      /\ UNCHANGED <<recorded, request, phase, read, hops, traversed, cursor,
                     blockers, answer, reread>>
  BY DEF Visit
<1>2. PathsTypeOK /\ SearchGoesRight
  BY DEF PathsIInv
<1>3. ~NotBegun
  BY <1>1 DEF NotBegun
<1>4. PICK depth : FoundSoFar(depth)
  BY <1>1, <1>2, <1>3 DEF SearchGoesRight
<1>5. /\ phase = "search" => BothUp /\ blockers = {}
      /\ phase = "raw" =>
            request.kind = "analyze" /\ ~Operational /\ (BothUp \/ blockers # {})
  BY <1>1, <1>2, <1>3 DEF SearchGoesRight
<1>6. PICK L : L = Over
  OBVIOUS
<1>7. Over' = L /\ VisitOver(L) /\ L \subseteq PathLinks
  <2>1. read \in Recorded
    BY <1>2 DEF PathsTypeOK
  <2>2. Over = IF phase = "search" THEN UsableLinks(read) ELSE PathLinks
    BY <1>1 DEF Over
  <2>3. Over' = Over
    BY <1>1 DEF Over
  <2> QED
    BY <1>1, <1>6, <2>1, <2>2, <2>3, UsableAreLinks
<1>8. PICK s : s = request.source
  OBVIOUS
<1>9. Tree(L, s, previous, depth) /\ Layers(L, previous, queue, depth)
  BY <1>4, <1>6, <1>8 DEF FoundSoFar
<1>10. PICK prev : prev = previous
  OBVIOUS
<1>11. PICK q : q = queue
  OBVIOUS
<1>12. Tree(L, s, prev, depth) /\ Layers(L, prev, q, depth) /\ q # <<>>
  BY <1>1, <1>9, <1>10, <1>11
<1>13. q \in Seq(DOMAIN prev) /\ DOMAIN prev \subseteq PathDevices
  BY <1>12 DEF Tree, Layers
<1>14. PICK h : h = Head(q)
  OBVIOUS
<1>15. PICK found : found = Unmet(L, h)
  OBVIOUS
<1>16. /\ \A e : e \in found <=> e \in Neighbours(L, h) /\ e \notin DOMAIN prev
       /\ found \subseteq PathDevices
  BY <1>10, <1>15 DEF Unmet, Neighbours
<1>17. found \in SUBSET Nat /\ IsFiniteSet(found)
  BY <1>16, PathsAssumption, FS_Subset
<1>18. PICK qn : qn = queue'
  OBVIOUS
<1>19. PICK pn : pn = previous'
  OBVIOUS
<1>20. qn = Tail(q) \o InOrder(found)
  BY <1>7, <1>11, <1>14, <1>15, <1>18 DEF VisitOver
<1>21. pn = [e \in DOMAIN prev \cup found |->
               IF e \in found THEN [device |-> h, link |-> FirstLink(L, h, e)]
               ELSE prev[e]]
  BY <1>7, <1>10, <1>11, <1>14, <1>15, <1>19 DEF VisitOver
<1>22. Records(L, h, prev, found, pn)
  <2>1. \A e \in DOMAIN prev : e \notin found
    BY <1>16
  <2> QED
    BY <1>16, <1>21, <2>1 DEF Records
<1>23. /\ qn \in Seq(DOMAIN prev \cup found)
       /\ \E m, p, n : Enqueued(q, found, qn, m, p, n)
  <2>1. TurnsTo(q, found, qn)
    BY <1>20, Zenon DEF TurnsTo
  <2> QED
    BY <1>12, <1>13, <1>17, <2>1, VisitEnqueues, Zenon
<1>23a. PICK m, p, n : Enqueued(q, found, qn, m, p, n)
  BY <1>23
<1>24. h = q[1]
  BY <1>12, <1>13, <1>14
<1>25. /\ \E dn : Tree(L, s, pn, dn) /\ Layers(L, pn, qn, dn)
       /\ \A e \in DOMAIN pn : e \notin DOMAIN prev => Waits(qn, e)
  BY <1>7, <1>12, <1>22, <1>23, <1>23a, <1>24, VisitKeepsLayers, Zenon
<1>26. PICK dn : Tree(L, s, pn, dn) /\ Layers(L, pn, qn, dn)
  BY <1>25
<1>27. Met' => Waits(queue', request'.target)
  BY <1>1, <1>10, <1>18, <1>19, <1>25 DEF Met
<1>28. FoundSoFar(dn)'
  BY <1>1, <1>4, <1>7, <1>8, <1>18, <1>19, <1>26, <1>27 DEF FoundSoFar
<1>29. BothUp' = BothUp /\ Operational' = Operational
  BY <1>1 DEF BothUp, Operational
<1>30. SearchGoesRight'
  BY <1>1, <1>5, <1>28, <1>29 DEF SearchGoesRight
<1>31. PathsTypeOK'
  <2>1. /\ qn \in Seq(PathDevices) /\ DOMAIN pn \subseteq PathDevices
        /\ \A d \in DOMAIN pn :
               pn[d] \in [device: PathDevices \cup {Nowhere},
                          link: PathLinks \cup {Nowhere}]
    BY <1>26, FoundIsTyped
  <2> QED
    BY <1>1, <1>2, <1>18, <1>19, <2>1 DEF PathsTypeOK
<1>32. AnalysisIsRight'
  BY <1>1, UnansweredIsRight
<1>33. ReadingFits' /\ PathIsKnown' /\ StartsClean'
  BY <1>1 DEF PathsIInv, ReadingFits, PathIsKnown, StartsClean
<1> QED
  BY <1>30, <1>31, <1>32, <1>33 DEF PathsIInv

LEMMA PathFoundKeeps ==
    ASSUME PathsIInv, PathFound
    PROVE  PathsIInv'
<1>1. /\ phase \in {"search", "raw"} /\ Met
      /\ phase' = IF phase = "search" THEN "unwind" ELSE "unwind raw"
      /\ cursor' = request.target
      /\ UNCHANGED <<recorded, request, read, queue, previous, hops, traversed,
                     blockers, answer, reread>>
  BY DEF PathFound
<1>2. PathsTypeOK /\ SearchGoesRight
  BY DEF PathsIInv
<1>3. ~NotBegun
  <2>1. previous = <<>> => DOMAIN previous = {}
    OBVIOUS
  <2> QED
    BY <1>1, <2>1 DEF NotBegun, Met
<1>4. PICK depth : FoundSoFar(depth)
  BY <1>1, <1>2, <1>3 DEF SearchGoesRight
<1>5. Over' = Over /\ BothUp' = BothUp /\ Operational' = Operational /\ Met' = Met
  BY <1>1 DEF Over, BothUp, Operational, Met
<1>6. Unwound(Over, request.target, previous, depth, hops, traversed, request.target)
  <2>1. hops = <<>> /\ traversed = <<>>
    BY <1>1, <1>4 DEF FoundSoFar
  <2>2. Len(hops) = 0 /\ hops \in Seq(DOMAIN previous) /\ traversed \in Seq(Over)
    BY <2>1
  <2>3. 1..(Len(hops) - 1) = {}
    BY <2>2
  <2> QED
    BY <1>1, <2>1, <2>2, <2>3 DEF Unwound, Met
<1>7. FoundSoFar(depth)'
  BY <1>1, <1>4, <1>5, <1>6 DEF FoundSoFar
<1>8. SearchGoesRight'
  BY <1>1, <1>2, <1>3, <1>5, <1>7 DEF SearchGoesRight
<1>9. PathsTypeOK'
  <2>1. phase' \in Phases
    BY <1>1 DEF Phases
  <2> QED
    BY <1>1, <1>2, <2>1 DEF PathsTypeOK
<1>10. AnalysisIsRight'
  BY <1>1, UnansweredIsRight
<1>11. ReadingFits' /\ PathIsKnown' /\ StartsClean'
  BY <1>1 DEF PathsIInv, ReadingFits, PathIsKnown, StartsClean
<1> QED
  BY <1>8, <1>9, <1>10, <1>11 DEF PathsIInv

LEMMA ExhaustedKeeps ==
    ASSUME PathsIInv, Exhausted
    PROVE  PathsIInv'
<1>1. /\ phase \in {"search", "raw"} /\ ~Met /\ queue = <<>>
      /\ UNCHANGED <<recorded, request, read, reread, hops, traversed, cursor, blockers>>
      /\ \/ /\ request.kind = "analyze" /\ phase = "search"
            /\ StartsAt(request.source)
            /\ phase' = "raw"
            /\ UNCHANGED answer
         \/ /\ request.kind = "trace" \/ phase = "raw"
            /\ answer' = [status |-> "UNREACHABLE", hops |-> <<>>]
            /\ phase' = "answered"
            /\ UNCHANGED <<queue, previous>>
  BY DEF Exhausted, AnalysisAnswered
<1>2. PathsTypeOK /\ SearchGoesRight
  BY DEF PathsIInv
<1>3. PICK s : s = request.source
  OBVIOUS
<1>4. PICK t : t = request.target
  OBVIOUS
<1>5. s \in PathDevices /\ t \in PathDevices
  BY <1>2, <1>3, <1>4 DEF PathsTypeOK
<1>6. hops = <<>> /\ traversed = <<>> /\ cursor = Nowhere
  BY <1>1, <1>2 DEF SearchGoesRight, NotBegun, FoundSoFar
<1>7. ASSUME ~NotBegun PROVE ~Connected(Over, s, t)
  <2>1. PICK depth : FoundSoFar(depth)
    BY <1>1, <1>2, <1>7 DEF SearchGoesRight
  <2>2. PICK L : L = Over
    OBVIOUS
  <2>3. PICK prev : prev = previous
    OBVIOUS
  <2>4. PICK q : q = queue
    OBVIOUS
  <2>5. Tree(L, s, prev, depth) /\ Layers(L, prev, q, depth) /\ q = <<>> /\ t \notin DOMAIN prev
    BY <1>1, <1>3, <1>4, <2>1, <2>2, <2>3, <2>4 DEF FoundSoFar, Met
  <2>6. ~Connected(L, s, t)
    BY <2>5, ExhaustedIsClosed
  <2> QED
    BY <2>2, <2>6
<1>8. CASE request.kind = "analyze" /\ phase = "search" /\ StartsAt(s)
           /\ phase' = "raw" /\ UNCHANGED answer
  <2>1. PICK L : L = PathLinks
    OBVIOUS
  <2>2. PICK depth : Tree(L, s, previous', depth) /\ Layers(L, previous', queue', depth)
    BY <1>5, <1>8, StartsAtFinds
  <2>3. \A e \in DOMAIN previous' : Waits(queue', e)
    BY <1>5, <1>8, StartsAtFinds
  <2>4. Over' = L
    BY <1>8, <2>1 DEF Over
  <2>5. FoundSoFar(depth)'
    BY <1>1, <1>3, <1>6, <1>8, <2>2, <2>3, <2>4 DEF FoundSoFar, Met
  <2>6. ~Operational /\ (BothUp \/ blockers # {})
    <3>1. CASE NotBegun
      BY <3>1 DEF NotBegun, BothUp, Operational
    <3>2. CASE ~NotBegun
      <4>1. Over = UsableLinks(read)
        BY <1>8 DEF Over
      <4>2. ~Connected(UsableLinks(read), s, t)
        BY <1>7, <3>2, <4>1
      <4> QED
        BY <1>1, <1>2, <1>3, <1>4, <1>8, <3>2, <4>2 DEF Operational, SearchGoesRight
    <3> QED
      BY <3>1, <3>2
  <2>7. Operational' = Operational /\ BothUp' = BothUp
    BY <1>1 DEF Operational, BothUp
  <2>8. SearchGoesRight'
    BY <1>1, <1>8, <2>5, <2>6, <2>7 DEF SearchGoesRight
  <2>9. PathsTypeOK'
    <3>1. PICK q : q = queue'
      OBVIOUS
    <3>2. PICK prev : prev = previous'
      OBVIOUS
    <3>3. /\ q \in Seq(PathDevices) /\ DOMAIN prev \subseteq PathDevices
          /\ \A d \in DOMAIN prev :
                 prev[d] \in [device: PathDevices \cup {Nowhere},
                              link: PathLinks \cup {Nowhere}]
      BY <2>2, <3>1, <3>2, FoundIsTyped
    <3>4. phase' \in Phases
      BY <1>8 DEF Phases
    <3> QED
      BY <1>1, <1>2, <1>8, <3>1, <3>2, <3>3, <3>4 DEF PathsTypeOK
  <2>10. AnalysisIsRight'
    BY <1>8, UnansweredIsRight
  <2>11. ReadingFits' /\ PathIsKnown' /\ StartsClean'
    BY <1>1, <1>8 DEF PathsIInv, ReadingFits, PathIsKnown, StartsClean
  <2> QED
    BY <2>8, <2>9, <2>10, <2>11 DEF PathsIInv
<1>9. CASE (request.kind = "trace" \/ phase = "raw")
           /\ answer' = [status |-> "UNREACHABLE", hops |-> <<>>]
           /\ phase' = "answered" /\ UNCHANGED <<queue, previous>>
  <2>1. PICK a : a = answer'
    OBVIOUS
  <2>2. a.status = "UNREACHABLE" /\ a.hops = <<>>
    BY <1>9, <2>1
  <2>3. PathsTypeOK'
    <3>1. answer'.status \in Statuses /\ phase' \in Phases
      BY <1>9, <2>1, <2>2 DEF Statuses, Phases
    <3> QED
      BY <1>1, <1>2, <1>9, <3>1 DEF PathsTypeOK
  <2>4. ~NotBegun
    BY <1>9 DEF NotBegun
  <2>5. ~Connected(Over, s, t)
    BY <1>7, <2>4
  <2>6. AnswersReachability'
    <3>1. Operational' = Operational
      BY <1>1 DEF Operational
    <3>2. CASE request.kind = "trace"
      <4>1. phase = "search"
        BY <1>1, <1>2, <2>4, <3>2 DEF SearchGoesRight
      <4>2. ~Operational
        BY <1>3, <1>4, <2>5, <4>1 DEF Operational, Over
      <4> QED
        BY <1>1, <2>1, <2>2, <3>1, <3>2, <4>2 DEF AnswersReachability
    <3>3. CASE request.kind # "trace"
      <4>1. phase = "raw"
        BY <1>9, <3>3
      <4>2. ~Operational /\ ~Connected(PathLinks, s, t)
        BY <1>2, <2>4, <2>5, <4>1 DEF Over, SearchGoesRight
      <4> QED
        BY <1>1, <1>3, <1>4, <2>1, <2>2, <3>1, <3>3, <4>2 DEF AnswersReachability
    <3> QED
      BY <3>2, <3>3
  <2>7. AnalysisIsRight'
    BY <2>1, <2>2, <2>6 DEF AnalysisIsRight, PathIsShortest, BlockedIsExplained,
                            LongestPrefixDecides
  <2>8. SearchGoesRight' /\ ReadingFits' /\ PathIsKnown' /\ StartsClean'
    BY <1>9 DEF SearchGoesRight, ReadingFits, PathIsKnown, StartsClean
  <2> QED
    BY <2>3, <2>7, <2>8 DEF PathsIInv
<1> QED
  BY <1>1, <1>3, <1>8, <1>9

LEMMA UnwindKeeps ==
    ASSUME PathsIInv, Unwind
    PROVE  PathsIInv'
<1>1. /\ phase \in {"unwind", "unwind raw"} /\ cursor # Nowhere
      /\ hops' = <<cursor>> \o hops
      /\ traversed' = (IF previous[cursor].link = Nowhere THEN <<>>
                       ELSE <<previous[cursor].link>>) \o traversed
      /\ cursor' = previous[cursor].device
      /\ UNCHANGED <<recorded, request, phase, read, queue, previous, blockers,
                     answer, reread>>
  BY DEF Unwind
<1>2. PathsTypeOK /\ SearchGoesRight /\ ~NotBegun
  BY <1>1 DEF PathsIInv, NotBegun
<1>3. PICK depth : FoundSoFar(depth)
  BY <1>1, <1>2 DEF SearchGoesRight
<1>4. PICK L : L = Over
  OBVIOUS
<1>5. L \subseteq PathLinks /\ Over' = L
  <2>1. read \in Recorded
    BY <1>2 DEF PathsTypeOK
  <2> QED
    BY <1>1, <1>4, <2>1, UsableAreLinks DEF Over
<1>6. PICK prev : prev = previous
  OBVIOUS
<1>7. PICK hs : hs = hops
  OBVIOUS
<1>8. PICK ks : ks = traversed
  OBVIOUS
<1>9. PICK c : c = cursor
  OBVIOUS
<1>10. PICK s : s = request.source
  OBVIOUS
<1>11. PICK t : t = request.target
  OBVIOUS
<1>12. Tree(L, s, prev, depth) /\ Unwound(L, t, prev, depth, hs, ks, c) /\ c # Nowhere
  BY <1>1, <1>3, <1>4, <1>6, <1>7, <1>8, <1>9, <1>10, <1>11 DEF FoundSoFar
<1>13. PICK hn : hn = hops'
  OBVIOUS
<1>14. PICK kn : kn = traversed'
  OBVIOUS
<1>15. PICK cn : cn = cursor'
  OBVIOUS
<1>16. /\ hn = <<c>> \o hs
       /\ kn = (IF prev[c].link = Nowhere THEN <<>> ELSE <<prev[c].link>>) \o ks
       /\ cn = prev[c].device
  BY <1>1, <1>6, <1>7, <1>8, <1>9, <1>13, <1>14, <1>15, Zenon
<1>16a. UnwindsTo(prev, hs, ks, c, hn, kn, cn)
  BY <1>16, Zenon DEF UnwindsTo
<1>17. Unwound(L, t, prev, depth, hn, kn, cn) /\ c \in DOMAIN prev
  BY <1>5, <1>12, <1>16a, UnwindsOneStep, Zenon
<1>18. FoundSoFar(depth)'
  BY <1>1, <1>3, <1>4, <1>5, <1>6, <1>11, <1>13, <1>14, <1>15, <1>17, Zenon DEF FoundSoFar, Met
<1>19. SearchGoesRight'
  <2>1. BothUp' = BothUp /\ Operational' = Operational
    BY <1>1 DEF BothUp, Operational
  <2> QED
    BY <1>1, <1>2, <1>18, <2>1 DEF SearchGoesRight
<1>20. PathsTypeOK'
  <2>1. DOMAIN prev \subseteq PathDevices
    BY <1>12 DEF Tree
  <2>2. hn \in Seq(DOMAIN prev) /\ kn \in Seq(L)
    BY <1>17 DEF Unwound
  <2>3. hn \in Seq(PathDevices) /\ kn \in Seq(PathLinks)
    BY <1>5, <2>1, <2>2, SeqGrows
  <2>4. cn \in PathDevices \cup {Nowhere}
    BY <1>12, <1>16, <1>17 DEF Tree
  <2> QED
    BY <1>1, <1>2, <1>13, <1>14, <1>15, <2>3, <2>4 DEF PathsTypeOK
<1>21. AnalysisIsRight'
  BY <1>1, UnansweredIsRight
<1>22. ReadingFits' /\ PathIsKnown' /\ StartsClean'
  BY <1>1 DEF PathsIInv, ReadingFits, PathIsKnown, StartsClean
<1> QED
  BY <1>19, <1>20, <1>21, <1>22 DEF PathsIInv

\* What is known of a path that is complete.
LEMMA PathIsComplete ==
    ASSUME PathsIInv, phase \in {"unwind", "unwind raw"}, cursor = Nowhere
    PROVE  /\ Shortest(Over, request.source, request.target, hops)
           /\ Goes(Range(traversed), request.source, request.target, hops)
           /\ Range(traversed) \subseteq Over
           /\ Over \subseteq PathLinks
           /\ Connected(Over, request.source, request.target)
           /\ Connected(PathLinks, request.source, request.target)
<1>1. PathsTypeOK /\ SearchGoesRight /\ ~NotBegun
  BY DEF PathsIInv, NotBegun
<1>2. PICK depth : FoundSoFar(depth)
  BY <1>1 DEF SearchGoesRight
<1>3. PICK L : L = Over
  OBVIOUS
<1>4. L \subseteq PathLinks
  <2>1. read \in Recorded
    BY <1>1 DEF PathsTypeOK
  <2> QED
    BY <1>3, <2>1, UsableAreLinks DEF Over
<1>5. PICK prev : prev = previous
  OBVIOUS
<1>6. PICK hs : hs = hops
  OBVIOUS
<1>7. PICK ks : ks = traversed
  OBVIOUS
<1>8. PICK q : q = queue
  OBVIOUS
<1>9. PICK s : s = request.source
  OBVIOUS
<1>10. PICK t : t = request.target
  OBVIOUS
<1>11. /\ Tree(L, s, prev, depth) /\ Layers(L, prev, q, depth) /\ Waits(q, t)
       /\ Unwound(L, t, prev, depth, hs, ks, Nowhere)
  BY <1>2, <1>3, <1>5, <1>6, <1>7, <1>8, <1>9, <1>10 DEF FoundSoFar
<1>12. Shortest(L, s, t, hs) /\ Goes(Range(ks), s, t, hs) /\ Range(ks) \subseteq L
  BY <1>11, UnwoundIsShortest
<1>13. hs \in Seq(PathDevices) /\ hs # <<>> /\ Goes(L, s, t, hs)
  BY <1>12 DEF Shortest
<1>14. Goes(PathLinks, s, t, hs)
  BY <1>4, <1>13, NeighboursGrow DEF Goes
<1>15. Connected(L, s, t) /\ Connected(PathLinks, s, t)
  BY <1>13, <1>14, WalkConnects
<1> QED
  BY <1>3, <1>4, <1>6, <1>7, <1>9, <1>10, <1>12, <1>15

LEMMA TracedKeeps ==
    ASSUME PathsIInv, Traced
    PROVE  PathsIInv'
<1>1. /\ phase = "unwind" /\ cursor = Nowhere /\ request.kind = "trace"
      /\ answer' = [status |-> "PATH_FOUND", hops |-> hops]
      /\ phase' = "answered"
      /\ UNCHANGED <<recorded, request, read, reread, queue, previous, hops, traversed,
                     cursor, blockers>>
  BY DEF Traced, AnalysisAnswered, searchVars
<1>2. PathsTypeOK /\ SearchGoesRight /\ ~NotBegun
  BY <1>1 DEF PathsIInv, NotBegun
<1>3. PICK a : a = answer'
  OBVIOUS
<1>4. a.status = "PATH_FOUND" /\ a.hops = hops
  BY <1>1, <1>3
<1>5. Over = UsableLinks(read)
  BY <1>1 DEF Over
<1>6. /\ Shortest(UsableLinks(read), request.source, request.target, hops)
      /\ Connected(UsableLinks(read), request.source, request.target)
  BY <1>1, <1>5, PathIsComplete
<1>7. BothUp
  BY <1>1, <1>2 DEF SearchGoesRight
<1>8. PathsTypeOK'
  <2>1. answer'.status \in Statuses /\ phase' \in Phases
    BY <1>1, <1>3, <1>4 DEF Statuses, Phases
  <2> QED
    BY <1>1, <1>2, <2>1 DEF PathsTypeOK
<1>9. AnswersReachability'
  <2>1. Operational'
    BY <1>1, <1>6, <1>7 DEF Operational, BothUp
  <2> QED
    BY <1>1, <1>3, <1>4, <2>1 DEF AnswersReachability
<1>10. PathIsShortest'
  <2>1. ~(a.status = "BLOCKED" /\ ~a.denied)
    BY <1>4
  <2>2. UsableLinks(read)' = UsableLinks(read)
    BY <1>1
  <2> QED
    BY <1>1, <1>3, <1>4, <1>6, <2>1, <2>2 DEF PathIsShortest, Shortest, Goes
<1>11. AnalysisIsRight'
  BY <1>3, <1>4, <1>9, <1>10 DEF AnalysisIsRight, BlockedIsExplained, LongestPrefixDecides
<1>12. SearchGoesRight' /\ ReadingFits' /\ PathIsKnown' /\ StartsClean'
  BY <1>1 DEF SearchGoesRight, ReadingFits, PathIsKnown, StartsClean
<1> QED
  BY <1>8, <1>11, <1>12 DEF PathsIInv

LEMMA BlockedKeeps ==
    ASSUME PathsIInv, Blocked
    PROVE  PathsIInv'
<1>1. /\ phase = "unwind raw" /\ cursor = Nowhere
      /\ blockers' = blockers \cup BlockersOn(read)
      /\ answer' = [status |-> "BLOCKED", hops |-> hops, denied |-> FALSE, route |-> NoRoute]
      /\ phase' = "answered"
      /\ UNCHANGED <<recorded, request, read, reread, queue, previous, hops, traversed,
                     cursor>>
  BY DEF Blocked, AnalysisAnswered, searchVars
<1>2. PathsTypeOK /\ SearchGoesRight /\ ~NotBegun
  BY <1>1 DEF PathsIInv, NotBegun
<1>3. PICK a : a = answer'
  OBVIOUS
<1>4. a.status = "BLOCKED" /\ a.hops = hops /\ a.denied = FALSE
  BY <1>1, <1>3
<1>5. Over = PathLinks
  BY <1>1 DEF Over
<1>6. /\ Shortest(PathLinks, request.source, request.target, hops)
      /\ Connected(PathLinks, request.source, request.target)
      /\ Goes(Range(traversed), request.source, request.target, hops)
      /\ Range(traversed) \subseteq PathLinks
  BY <1>1, <1>5, PathIsComplete
<1>7. request.kind = "analyze" /\ ~Operational /\ (BothUp \/ blockers # {})
  BY <1>1, <1>2 DEF SearchGoesRight
<1>8. blockers' # {}
  <2> SUFFICES ASSUME blockers = {}, BlockersOn(read) = {} PROVE FALSE
    BY <1>1
  <2>1. PICK L : L = UsableLinks(read)
    OBVIOUS
  <2>2. PICK M : M = Range(traversed)
    OBVIOUS
  <2>3. M \subseteq L
    BY <1>6, <2>1, <2>2, UnblockedIsUsable
  <2>4. PICK s, t, w : s = request.source /\ t = request.target /\ w = hops
    OBVIOUS
  <2>5. Goes(L, s, t, w)
    <3>1. Goes(M, s, t, w)
      BY <1>6, <2>2, <2>4
    <3> QED
      BY <2>3, <3>1, NeighboursGrow DEF Goes
  <2>6. w \in Seq(PathDevices) /\ w # <<>>
    BY <1>6, <2>4 DEF Shortest
  <2>7. Connected(L, s, t)
    BY <2>5, <2>6, WalkConnects
  <2> QED
    BY <1>7, <2>1, <2>4, <2>7 DEF Operational, BothUp
<1>9. PathsTypeOK'
  <2>1. answer'.status \in Statuses /\ phase' \in Phases
    BY <1>1, <1>3, <1>4 DEF Statuses, Phases
  <2>2. BlockersOn(read) \subseteq {"DEVICE_DOWN", "LINK_DOWN", "INTERFACE_DOWN",
                                    "ROUTE_DATA_INCOMPLETE"}
    BY DEF BlockersOn
  <2> QED
    BY <1>1, <1>2, <2>1, <2>2 DEF PathsTypeOK
<1>10. AnswersReachability'
  <2>1. ~Operational'
    BY <1>1, <1>7 DEF Operational
  <2> QED
    BY <1>1, <1>3, <1>4, <1>6, <1>7, <2>1 DEF AnswersReachability
<1>11. PathIsShortest'
  BY <1>1, <1>3, <1>4, <1>6 DEF PathIsShortest, Shortest, Goes
<1>12. AnalysisIsRight'
  BY <1>3, <1>4, <1>8, <1>10, <1>11 DEF AnalysisIsRight, BlockedIsExplained,
                                        LongestPrefixDecides
<1>13. SearchGoesRight' /\ ReadingFits' /\ PathIsKnown' /\ StartsClean'
  BY <1>1 DEF SearchGoesRight, ReadingFits, PathIsKnown, StartsClean
<1> QED
  BY <1>9, <1>12, <1>13 DEF PathsIInv

\* What a verdict on a path that is known makes of reachability and the path.
LEMMA VerdictIsRight ==
    ASSUME PathsTypeOK, request.kind = "analyze", BothUp,
           Shortest(UsableLinks(read), request.source, request.target, hops),
           NEW blocked, NEW denied \in BOOLEAN, NEW route,
           answer' = Verdict(blocked, denied, route), phase' = "answered",
           UNCHANGED <<request, read>>
    PROVE  /\ AnswersReachability' /\ PathIsShortest' /\ BlockedIsExplained'
           /\ answer'.status \in Statuses
           /\ answer'.status = "INDETERMINATE" => ~denied /\ blocked # {}
           /\ answer'.status = "FORWARDABLE" => ~denied /\ blocked = {}
           /\ answer'.route = route
<1>1. PICK a : a = answer'
  OBVIOUS
<1>2. PICK st : st = IF denied THEN "BLOCKED"
                     ELSE IF blocked = {} THEN "FORWARDABLE" ELSE "INDETERMINATE"
  OBVIOUS
<1>3. a = [status |-> st, hops |-> hops, denied |-> denied, route |-> route]
  BY <1>1, <1>2 DEF Verdict
<1>4. a.status = st /\ a.hops = hops /\ a.denied = denied /\ a.route = route
  BY <1>3
<1>5. PICK L, s, t, w : L = UsableLinks(read) /\ s = request.source /\ t = request.target
                        /\ w = hops
  OBVIOUS
<1>6. w \in Seq(PathDevices) /\ w # <<>> /\ Goes(L, s, t, w)
  BY <1>5 DEF Shortest
<1>7. L \subseteq PathLinks
  BY <1>5, UsableAreLinks DEF PathsTypeOK
<1>8. Goes(PathLinks, s, t, w)
  BY <1>6, <1>7, NeighboursGrow DEF Goes
<1>9. Connected(L, s, t) /\ Connected(PathLinks, s, t)
  BY <1>6, <1>8, WalkConnects
<1>10. Operational'
  BY <1>5, <1>9 DEF Operational, BothUp
<1>11. st # "UNREACHABLE" /\ (st = "BLOCKED" => denied)
  BY <1>2
<1>12. AnswersReachability'
  BY <1>1, <1>4, <1>5, <1>9, <1>10, <1>11 DEF AnswersReachability
<1>13. PathIsShortest'
  <2>1. ~(a.status = "BLOCKED" /\ ~a.denied)
    BY <1>4, <1>11
  <2> QED
    BY <1>1, <1>4, <2>1 DEF PathIsShortest, Shortest, Goes
<1>14. BlockedIsExplained'
  BY <1>1, <1>4, <1>11 DEF BlockedIsExplained
<1>15. st \in Statuses
  BY <1>2 DEF Statuses
<1> QED
  BY <1>1, <1>2, <1>4, <1>12, <1>13, <1>14, <1>15

LEMMA PathAnalyzedKeeps ==
    ASSUME PathsIInv, PathAnalyzed
    PROVE  PathsIInv'
<1>1. /\ phase = "unwind" /\ cursor = Nowhere /\ request.kind = "analyze"
      /\ UNCHANGED <<recorded, request, read, reread, queue, previous, hops, traversed,
                     cursor, blockers>>
      /\ \/ LooksUp /\ phase' = "lookup" /\ UNCHANGED answer
         \/ /\ ~LooksUp /\ phase' = "answered"
            /\ answer' = Verdict(blockers, Denied(read), NoRoute)
  BY DEF PathAnalyzed, AnalysisAnswered, searchVars
<1>2. PathsTypeOK /\ SearchGoesRight /\ ~NotBegun
  BY <1>1 DEF PathsIInv, NotBegun
<1>3. BothUp /\ blockers = {}
  BY <1>1, <1>2 DEF SearchGoesRight
<1>4. Shortest(UsableLinks(read), request.source, request.target, hops)
  <2>1. Over = UsableLinks(read)
    BY <1>1 DEF Over
  <2> QED
    BY <1>1, <2>1, PathIsComplete
<1>5. LooksUp' = LooksUp
  BY <1>1 DEF LooksUp, FirstRouter
<1>6. CASE LooksUp /\ phase' = "lookup" /\ UNCHANGED answer
  <2>1. PathsTypeOK'
    <3>1. phase' \in Phases
      BY <1>6 DEF Phases
    <3> QED
      BY <1>1, <1>2, <1>6, <3>1 DEF PathsTypeOK
  <2>2. PathIsKnown'
    BY <1>1, <1>3, <1>4, <1>5, <1>6 DEF PathIsKnown, BothUp
  <2>3. AnalysisIsRight'
    BY <1>6, UnansweredIsRight
  <2>4. SearchGoesRight' /\ ReadingFits' /\ StartsClean'
    BY <1>1, <1>6 DEF PathsIInv, SearchGoesRight, ReadingFits, StartsClean
  <2> QED
    BY <2>1, <2>2, <2>3, <2>4 DEF PathsIInv
<1>7. CASE ~LooksUp /\ phase' = "answered"
           /\ answer' = Verdict(blockers, Denied(read), NoRoute)
  <2>1. PICK den \in BOOLEAN : den = Denied(read)
    BY DEF Denied
  <2>2. answer' = Verdict(blockers, den, NoRoute)
    BY <1>7, <2>1
  <2>3. /\ AnswersReachability' /\ PathIsShortest' /\ BlockedIsExplained'
        /\ answer'.status \in Statuses
        /\ answer'.status = "INDETERMINATE" => ~den /\ blockers # {}
    BY <1>1, <1>2, <1>3, <1>4, <1>7, <2>2, VerdictIsRight
  <2>4. LongestPrefixDecides'
    BY <1>3, <1>5, <1>7, <2>3 DEF LongestPrefixDecides
  <2>5. PathsTypeOK'
    <3>1. phase' \in Phases
      BY <1>7 DEF Phases
    <3> QED
      BY <1>1, <1>2, <2>3, <3>1 DEF PathsTypeOK
  <2>6. SearchGoesRight' /\ ReadingFits' /\ PathIsKnown' /\ StartsClean'
    BY <1>7 DEF SearchGoesRight, ReadingFits, PathIsKnown, StartsClean
  <2> QED
    BY <2>3, <2>4, <2>5, <2>6 DEF PathsIInv, AnalysisIsRight
<1> QED
  BY <1>1, <1>6, <1>7

LEMMA LookupKeeps ==
    ASSUME PathsIInv, Lookup
    PROVE  PathsIInv'
<1>1. /\ phase = "lookup" /\ phase' = "answered"
      /\ UNCHANGED <<recorded, request, read, reread, queue, previous, hops, traversed,
                     cursor>>
  BY DEF Lookup, AnalysisAnswered, searchVars
<1>2. PathsTypeOK /\ request.kind = "analyze" /\ BothUp /\ blockers = {} /\ LooksUp
      /\ Shortest(UsableLinks(read), request.source, request.target, hops)
      /\ (~reread => recorded = read)
  BY <1>1 DEF PathsIInv, PathIsKnown, ReadingFits
<1>3. SearchGoesRight' /\ ReadingFits' /\ PathIsKnown' /\ StartsClean'
  BY <1>1 DEF SearchGoesRight, ReadingFits, PathIsKnown, StartsClean
<1>4. ASSUME answer'.status \in Statuses,
             blockers' \subseteq {"DEVICE_DOWN", "LINK_DOWN", "INTERFACE_DOWN",
                                  "ROUTE_DATA_INCOMPLETE"}
      PROVE  PathsTypeOK'
  <2>1. phase' \in Phases
    BY <1>1 DEF Phases
  <2> QED
    BY <1>1, <1>2, <1>4, <2>1 DEF PathsTypeOK
<1>5. CASE UNCHANGED blockers
           /\ (\/ answer' = [status |-> "not found", hops |-> <<>>]
               \/ answer' = [status |-> "invalid", hops |-> <<>>])
  <2>1. PICK a : a = answer'
    OBVIOUS
  <2>2. a.status \in {"not found", "invalid"} /\ a.hops = <<>>
    <3>1. a = [status |-> "not found", hops |-> <<>>]
          \/ a = [status |-> "invalid", hops |-> <<>>]
      BY <1>5, <2>1
    <3>2. CASE a = [status |-> "not found", hops |-> <<>>]
      <4>1. a.status = "not found" /\ a.hops = <<>>
        BY <3>2
      <4> QED
        BY <4>1
    <3>3. CASE a = [status |-> "invalid", hops |-> <<>>]
      <4>1. a.status = "invalid" /\ a.hops = <<>>
        BY <3>3
      <4> QED
        BY <4>1
    <3> QED
      BY <3>1, <3>2, <3>3
  <2>3. AnalysisIsRight'
    BY <2>1, <2>2 DEF AnalysisIsRight, AnswersReachability, PathIsShortest,
                      BlockedIsExplained, LongestPrefixDecides
  <2>4. PathsTypeOK'
    BY <1>2, <1>4, <1>5, <2>1, <2>2 DEF Statuses
  <2> QED
    BY <1>3, <2>3, <2>4 DEF PathsIInv
<1>6. ASSUME NEW route, route = Selected(recorded, FirstRouter, Address[request.target]),
             NEW missing,
             missing = IF route = NoRoute /\ Scoped(read, FirstRouter) # {}
                       THEN {"ROUTE_DATA_INCOMPLETE"} ELSE {},
             recorded # Gone, Address[request.target] # Malformed,
             blockers' = blockers \cup missing,
             answer' = Verdict(blockers \cup missing, Denied(read), route)
      PROVE  PathsIInv'
  <2>1. PICK den \in BOOLEAN : den = Denied(read)
    BY DEF Denied
  <2>2. answer' = Verdict(missing, den, route) /\ blockers' = missing
    <3>1. blockers \cup missing = missing
      BY <1>2
    <3> QED
      BY <1>6, <2>1, <3>1
  <2>3. /\ AnswersReachability' /\ PathIsShortest' /\ BlockedIsExplained'
        /\ answer'.status \in Statuses
        /\ answer'.status = "INDETERMINATE" => ~den /\ missing # {}
        /\ answer'.status = "FORWARDABLE" => ~den /\ missing = {}
        /\ answer'.route = route
    BY <1>1, <1>2, <2>2, VerdictIsRight
  <2>4. PathsTypeOK'
    BY <1>4, <1>6, <2>2, <2>3
  <2>5. PICK d : d = FirstRouter
    OBVIOUS
  <2>6. PICK a : a = Address[request.target]
    OBVIOUS
  <2>7. a \in 0..(2 ^ Bits - 1)
    <3>1. request.target \in PathDevices
      BY <1>2 DEF PathsTypeOK
    <3>2. Address[request.target] # NoAddress
      BY <1>2 DEF LooksUp
    <3> QED
      BY <1>6, <2>6, <3>1, <3>2, PathsAssumption
  <2>8. ASSUME ~reread
        PROVE  /\ missing # {} <=> Scoped(read, d) # {} /\ Fits(read, d, a) = {}
               /\ Fits(read, d, a) # {} =>
                     /\ route.index \in Fits(read, d, a)
                     /\ \A i \in Fits(read, d, a) :
                           read.routes[i].length <= read.routes[route.index].length
    <3>1. PICK r \in Recorded : r = read
      BY <1>2 DEF PathsTypeOK
    <3>2. route = Selected(r, d, a)
      BY <1>2, <1>6, <2>5, <2>6, <2>8, <3>1
    <3>3. /\ route = NoRoute <=> Fits(r, d, a) = {}
          /\ Fits(r, d, a) # {} =>
                /\ route.index \in Fits(r, d, a)
                /\ \A i \in Fits(r, d, a) :
                      r.routes[i].length <= r.routes[route.index].length
      BY <2>7, <3>2, SelectsLongest
    <3>4. missing # {} <=> route = NoRoute /\ Scoped(r, d) # {}
      BY <1>6, <2>5, <3>1
    <3> QED
      BY <3>1, <3>3, <3>4
  <2>9. LongestPrefixDecides'
    <3>1. reread' = reread /\ LooksUp' = LooksUp /\ FirstRouter' = d
          /\ Address[request.target]' = a /\ read' = read
      BY <1>1, <2>5, <2>6 DEF LooksUp, FirstRouter
    <3>2. PICK ans : ans = answer'
      OBVIOUS
    <3>3. SUFFICES ASSUME ~reread, ans.status \in {"FORWARDABLE", "INDETERMINATE"}
                   PROVE  /\ ans.status = "INDETERMINATE" <=>
                                Scoped(read, d) # {} /\ Fits(read, d, a) = {}
                          /\ Fits(read, d, a) # {} =>
                                /\ ans.route.index \in Fits(read, d, a)
                                /\ \A i \in Fits(read, d, a) :
                                      read.routes[i].length
                                        <= read.routes[ans.route.index].length
      BY <1>2, <3>1, <3>2 DEF LongestPrefixDecides, Fits
    <3>4. ans.status = "INDETERMINATE" <=> missing # {}
      BY <2>3, <3>2, <3>3
    <3> QED
      BY <2>3, <2>8, <3>2, <3>3, <3>4
  <2> QED
    BY <1>3, <2>3, <2>4, <2>9 DEF PathsIInv, AnalysisIsRight
<1>7. \/ /\ recorded = Gone
         /\ AnalysisAnswered([status |-> "not found", hops |-> <<>>])
         /\ UNCHANGED blockers
      \/ /\ recorded # Gone
         /\ Address[request.target] = Malformed
         /\ AnalysisAnswered([status |-> "invalid", hops |-> <<>>])
         /\ UNCHANGED blockers
      \/ \E route, missing :
            /\ route = Selected(recorded, FirstRouter, Address[request.target])
            /\ missing = IF route = NoRoute /\ Scoped(read, FirstRouter) # {}
                         THEN {"ROUTE_DATA_INCOMPLETE"} ELSE {}
            /\ recorded # Gone /\ Address[request.target] # Malformed
            /\ blockers' = blockers \cup missing
            /\ AnalysisAnswered(Verdict(blockers \cup missing, Denied(read), route))
  BY DEF Lookup
<1> QED
  BY <1>5, <1>6, <1>7 DEF AnalysisAnswered

LEMMA EditKeeps ==
    ASSUME PathsIInv, Edit
    PROVE  PathsIInv'
<1>1. /\ phase = "lookup" /\ recorded' \in Recorded \cup {Gone} /\ reread' = TRUE
      /\ UNCHANGED <<request, phase, read, queue, previous, hops, traversed, cursor,
                     blockers, answer>>
  BY DEF Edit, searchVars
<1>2. PathsTypeOK'
  BY <1>1 DEF PathsIInv, PathsTypeOK
<1>3. PathIsKnown'
  BY <1>1 DEF PathsIInv, PathIsKnown, BothUp, LooksUp, FirstRouter
<1>4. SearchGoesRight' /\ ReadingFits' /\ StartsClean' /\ AnalysisIsRight'
  BY <1>1, UnansweredIsRight DEF SearchGoesRight, ReadingFits, StartsClean
<1> QED
  BY <1>2, <1>3, <1>4 DEF PathsIInv

LEMMA RestKeeps ==
    ASSUME PathsIInv, Rest
    PROVE  PathsIInv'
<1>1. PathsTypeOK
  BY DEF PathsIInv
<1>2. FirstRequest \in [kind: {"trace", "analyze"}, source: PathDevices, target: PathDevices]
  <2>1. PathDevices # {} /\ PathDevices \in SUBSET Nat
    BY PathsAssumption
  <2>2. Min(PathDevices) \in PathDevices
    BY <2>1, MinIsLeast
  <2> QED
    BY <2>2 DEF FirstRequest
<1>3. recorded' \in Recorded /\ read' = recorded'
  BY <1>1 DEF Rest, PathsTypeOK
<1>4. PathsTypeOK'
  <2>1. DOMAIN previous' = {} /\ queue' \in Seq(PathDevices) /\ hops' \in Seq(PathDevices)
        /\ traversed' \in Seq(PathLinks)
    BY DEF Rest
  <2>2. phase' \in Phases /\ request' = FirstRequest
    BY DEF Rest, Phases
  <2> QED
    BY <1>2, <1>3, <2>1, <2>2 DEF Rest, PathsTypeOK
<1>5. AnalysisIsRight'
  BY UnansweredIsRight DEF Rest
<1>6. SearchGoesRight' /\ PathIsKnown' /\ ReadingFits' /\ StartsClean'
  BY <1>3 DEF Rest, SearchGoesRight, PathIsKnown, ReadingFits, StartsClean
<1> QED
  BY <1>4, <1>5, <1>6 DEF PathsIInv

LEMMA PathsStaysRight ==
    PathsIInv /\ [PathsNext]_pathsVars => PathsIInv'
<1> SUFFICES ASSUME PathsIInv, [PathsNext]_pathsVars PROVE PathsIInv'
  OBVIOUS
<1>1. CASE UNCHANGED pathsVars
  <2> USE <1>1 DEF pathsVars, searchVars
  <2>1. PathsTypeOK'
    BY DEF PathsIInv, PathsTypeOK
  <2>2. SearchGoesRight'
    BY DEF PathsIInv, SearchGoesRight, NotBegun, FoundSoFar, Over, BothUp, Met, Operational
  <2>3. PathIsKnown' /\ ReadingFits' /\ StartsClean'
    BY DEF PathsIInv, PathIsKnown, ReadingFits, StartsClean, BothUp, LooksUp, FirstRouter
  <2>4. AnalysisIsRight'
    BY DEF PathsIInv, AnalysisIsRight, AnswersReachability, Operational, PathIsShortest,
           BlockedIsExplained, LongestPrefixDecides, LooksUp, FirstRouter
  <2> QED
    BY <2>1, <2>2, <2>3, <2>4 DEF PathsIInv
<1>2. CASE Trace
  BY <1>2, TraceKeeps
<1>3. CASE Analyze
  BY <1>3, AnalyzeKeeps
<1>4. CASE SearchStep
  BY <1>4, VisitKeeps, PathFoundKeeps, ExhaustedKeeps, UnwindKeeps, BlockedKeeps, TracedKeeps,
     PathAnalyzedKeeps, LookupKeeps DEF SearchStep
<1>5. CASE Edit
  BY <1>5, EditKeeps
<1>6. CASE Rest
  BY <1>6, RestKeeps
<1> QED
  BY <1>1, <1>2, <1>3, <1>4, <1>5, <1>6 DEF PathsNext

LEMMA PathsInvariant == PathsSpec => []PathsIInv
<1>1. PathsInit => PathsIInv
  BY PathsStartRight
<1>2. PathsIInv /\ [PathsNext]_pathsVars => PathsIInv'
  BY PathsStaysRight
<1> QED
  BY <1>1, <1>2, PTL DEF PathsSpec

\* The queue, the previous devices, the path and the answer of a search keep
\* their types (tracePath, analyzePath).
THEOREM PathsTypeCorrect == PathsSpec => []PathsTypeOK
<1>1. PathsIInv => PathsTypeOK
  BY DEF PathsIInv
<1> QED
  BY <1>1, PathsInvariant, PTL

\* Whatever the topology and its state, a trace or an analysis answers as the
\* state it read is, by a path no walk is shorter than, names what stands in
\* the way, and holds the path against the longest prefix the destination is in.
THEOREM AnalysisRight == PathsSpec => []AnalysisIsRight
<1>1. PathsIInv => AnalysisIsRight
  BY DEF PathsIInv
<1> QED
  BY <1>1, PathsInvariant, PTL

-----------------------------------------------------------------------------
(***************************************************************************)
(* The components together, as they are model-checked.                     *)
(***************************************************************************)
\* A step of the composition is one of the component followed, and none of
\* the others.
LEMMA PagesSteps ==
    ASSUME [PagesNext]_pagesVars
    PROVE  /\ [MutationsNext]_mutationsVars /\ [PathsNext]_pathsVars /\ [CliNext]_cliVars
           /\ [ConsoleNext]_consoleVars /\ [WorkspaceNext]_workspaceVars /\ [PageNext]_pageVars
BY DEF PagesNext, pagesVars

(***************************************************************************)
(* Whichever component its initial state picks, a behaviour of the         *)
(* composition is one of each component: what is proved of a component     *)
(* holds where they are checked together.                                  *)
(***************************************************************************)
THEOREM PagesAreTheirComponents ==
    PagesSpec => /\ MutationsSpec /\ PathsSpec /\ CliSpec
                 /\ ConsoleSpec /\ WorkspaceSpec /\ PageSpec
<1>1. PagesInit => /\ MutationsInit /\ PathsInit /\ CliInit
                   /\ ConsoleInit /\ WorkspaceInit /\ PageInit
  BY DEF PagesInit
<1>2. QED
  BY <1>1, PagesSteps, PTL
     DEF PagesSpec, MutationsSpec, PathsSpec, CliSpec, ConsoleSpec, WorkspaceSpec, PageSpec

(***************************************************************************)
(* Every component's state keeps its types where it is followed.           *)
(***************************************************************************)
THEOREM PagesTypeCorrect == PagesSpec => []PagesTypeOK
<1>1. PagesSpec => [](/\ MutationsTypeOK /\ PathsTypeOK /\ CliTypeOK
                      /\ ConsoleTypeOK /\ WorkspaceTypeOK /\ PageTypeOK)
  BY PagesAreTheirComponents, MutationsTypeCorrect, PathsTypeCorrect, CliTypeCorrect,
     ConsoleTypeCorrect, WorkspaceTypeCorrect, PageTypeCorrect, PTL
<1>2. (/\ MutationsTypeOK /\ PathsTypeOK /\ CliTypeOK
       /\ ConsoleTypeOK /\ WorkspaceTypeOK /\ PageTypeOK) => PagesTypeOK
  BY DEF PagesTypeOK
<1>3. QED
  BY <1>1, <1>2, PTL
=============================================================================
