---------------------------- MODULE LoginLimiter ----------------------------
(***************************************************************************)
(* The two limits of POST /api/auth/login, kept in RateLimitBucket rows    *)
(* that all server processes share: every attempt of an address is counted *)
(* before it is looked at, failed ones of an address and e-mail after, and *)
(* the limit on failures is inspected in between.  One address and one     *)
(* e-mail: rows of different keys never meet.                              *)
(***************************************************************************)
EXTENDS Naturals, FiniteSets

CONSTANTS
    Logins,         \* slots for concurrent login requests
    AttemptLimit,   \* attempts per window (20)
    FailLimit       \* failures per window before attempts are refused (5)

ASSUME LimiterAssumption ==
    /\ IsFiniteSet(Logins)
    /\ AttemptLimit \in Nat \ {0}
    /\ FailLimit \in Nat \ {0}

VARIABLES
    attempts,       \* attempts[a]: count of the window a windows ago, 0: no row
    failures,       \* the same of the failed attempts
    login,          \* login[l]: a request in progress
    admitted        \* auxiliary: attempts let through, per window

limiterVars == <<attempts, failures, login, admitted>>

-----------------------------------------------------------------------------
\* Rows live for two windows (expiresAt), so three ages are told apart.
Ages == 0..2

NoLogin == [at |-> "idle", age |-> 0]

\* age: windows that passed since the request read the time for the statement
\* it waits for.  Bound: no statement takes a whole window (15 minutes).
LoginStep == {NoLogin}
             \cup [at: {"attempt", "inspect", "compare", "record", "clear"}, age: 0..1]

LimiterTypeOK ==
    /\ attempts \in [Ages -> Nat]
    /\ failures \in [Ages -> Nat]
    /\ login \in [Logins -> LoginStep]
    /\ admitted \in [Ages -> Nat]

NoBuckets == [a \in Ages |-> 0]

LimiterInit ==
    /\ attempts = NoBuckets
    /\ failures = NoBuckets
    /\ login = [l \in Logins |-> NoLogin]
    /\ admitted = NoBuckets

\* Bound: a count is followed up to the first one that is refused.
Counted(count) == IF count > AttemptLimit THEN count ELSE count + 1

LoginGoes(l, at) == login' = [login EXCEPT ![l] = [at |-> at, age |-> 0]]

LoginEnds(l) == login' = [login EXCEPT ![l] = NoLogin]

-----------------------------------------------------------------------------
LoginBegins(l) ==
    /\ login[l].at = "idle"
    /\ LoginGoes(l, "attempt")
    /\ UNCHANGED <<attempts, failures, admitted>>

\* Mutant: the last attempt allowed is refused.
CountBelow(l) ==
    LET a == login[l].age IN
    /\ login[l].at = "attempt"
    /\ attempts' = [attempts EXCEPT ![a] = Counted(@)]
    /\ IF attempts'[a] < AttemptLimit
       THEN LoginGoes(l, "inspect") /\ admitted' = [admitted EXCEPT ![a] = @ + 1]
       ELSE LoginEnds(l) /\ UNCHANGED admitted
    /\ UNCHANGED failures
\* consume: the upsert increments and returns the count it wrote.
CountAttempt(l) ==
    LET a == login[l].age IN
    /\ login[l].at = "attempt"
    /\ attempts' = [attempts EXCEPT ![a] = Counted(@)]
    /\ \/ /\ attempts'[a] <= AttemptLimit
          /\ LoginGoes(l, "inspect")
          /\ admitted' = [admitted EXCEPT ![a] = @ + 1]
       \/ /\ attempts'[a] > AttemptLimit
          /\ LoginEnds(l)
          /\ UNCHANGED admitted
    /\ UNCHANGED failures

\* Mutant: failures are recorded but not looked at.
InspectNothing(l) ==
    /\ login[l].at = "inspect"
    /\ LoginGoes(l, "compare")
    /\ UNCHANGED <<attempts, failures, admitted>>
\* inspect: only reads.
InspectFailures(l) ==
    /\ login[l].at = "inspect"
    /\ \/ /\ failures[login[l].age] < FailLimit
          /\ LoginGoes(l, "compare")
       \/ /\ failures[login[l].age] >= FailLimit
          /\ LoginEnds(l)
    /\ UNCHANGED <<attempts, failures, admitted>>

\* AuthService.login succeeds, answers Unauthorized, or throws otherwise.
ComparePassword(l) ==
    /\ login[l].at = "compare"
    /\ LoginGoes(l, "clear") \/ LoginGoes(l, "record") \/ LoginEnds(l)
    /\ UNCHANGED <<attempts, failures, admitted>>

RecordFailure(l) ==
    /\ login[l].at = "record"
    /\ failures' = [failures EXCEPT ![login[l].age] = @ + 1]
    /\ LoginEnds(l)
    /\ UNCHANGED <<attempts, admitted>>

\* clear deletes the rows of all windows.
ClearFailures(l) ==
    /\ login[l].at = "clear"
    /\ failures' = NoBuckets
    /\ LoginEnds(l)
    /\ UNCHANGED <<attempts, admitted>>

-----------------------------------------------------------------------------
\* A new window begins: it has no row.
Shifted(rows) == [a \in Ages |-> IF a = 0 THEN 0 ELSE rows[a - 1]]

WindowPasses ==
    /\ \A l \in Logins : login[l].age = 0
    /\ attempts' = Shifted(attempts)
    /\ failures' = Shifted(failures)
    /\ admitted' = Shifted(admitted)
    /\ login' = [l \in Logins |->
                   IF login[l].at = "idle" THEN NoLogin ELSE [login[l] EXCEPT !.age = 1]]

\* prune: rows whose expiresAt, two windows after their start, has passed.
Unexpired(rows) == [a \in Ages |-> IF a < 2 THEN rows[a] ELSE 0]

PruneBuckets ==
    /\ attempts' = Unexpired(attempts)
    /\ failures' = Unexpired(failures)
    /\ UNCHANGED <<login, admitted>>

LoginStepOf(l) ==
    \/ CountAttempt(l) \/ InspectFailures(l) \/ ComparePassword(l)
    \/ RecordFailure(l) \/ ClearFailures(l)

LimiterNext ==
    \/ \E l \in Logins : LoginBegins(l) \/ LoginStepOf(l)
    \/ WindowPasses
    \/ PruneBuckets

LimiterSpec == LimiterInit /\ [][LimiterNext]_limiterVars

-----------------------------------------------------------------------------
(***************************************************************************)
(* Properties.                                                             *)
(***************************************************************************)

\* The attempts let through in a window are those counted, up to the limit:
\* never more, and none refused before, also when a request's statement runs
\* after its window has ended or beside the pruning.
AdmittedExactly ==
    \A a \in 0..1 :
        admitted[a] = IF attempts[a] > AttemptLimit THEN AttemptLimit ELSE attempts[a]

\* Inspecting and recording are apart, so concurrent requests exceed the
\* limit on failures, but by no more than their own number less one.
FailuresBounded ==
    \A a \in 0..1 : failures[a] < FailLimit + Cardinality(Logins)

\* The two limits of a login, under concurrent requests and a window's end.
LimitsHold == AdmittedExactly /\ FailuresBounded
=============================================================================
