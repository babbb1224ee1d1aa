------------------------------ MODULE Accounts ------------------------------
(***************************************************************************)
(* One e-mail address: its account, sign-in sessions, refresh tokens and   *)
(* password reset codes, as AuthService and PasswordResetService keep them *)
(* in the rows of users and auth_sessions.                                 *)
(*                                                                         *)
(* None of the requests but the last step of a reset runs in a             *)
(* transaction of its own: each reads a row, decides, and writes later.    *)
(* A request is a job; a refused one ends without a trace.  Passwords,     *)
(* tokens and codes are numbers, counted up as they are made.              *)
(***************************************************************************)
EXTENDS Naturals, FiniteSets

CONSTANTS
    Sessions,     \* rows of auth_sessions
    Handlers,     \* requests under way at the same time
    MaxAttempts,  \* PASSWORD_RESET_MAX_ATTEMPTS
    MaxTokens,    \* bound: refresh tokens made
    MaxCodes,     \* bound: reset codes made
    MaxPasswords, \* bound: passwords set
    MaxGuesses    \* bound: wrong guesses at one code

ASSUME ConstantsAssumption ==
    /\ IsFiniteSet(Handlers)
    /\ MaxAttempts \in Nat \ {0}
    /\ {MaxTokens, MaxCodes, MaxPasswords, MaxGuesses} \subseteq Nat
    /\ MaxPasswords # 0 \* to register sets the first

VARIABLES
    accounts, \* rows of users with the address
    password, \* the number of the password that is stored, 0 before any
    session,  \* auth_sessions: [status, token], and the password it was opened with
    reset,    \* the columns password_reset_*: [code, attempts, age]
    job,      \* what every handler is doing
    tokens,   \* tokens made
    codes,    \* codes made
    spent,    \* ghost: how often this token was exchanged for the next
    guesses   \* ghost: resets that compared with this code and failed

account == <<accounts, password, session, reset>>
ghosts == <<spent, guesses>>
vars == <<account, job, tokens, codes, ghosts>>

Idle == [pc |-> "idle", id |-> 0, read |-> 0, stale |-> FALSE]

NoCode == [code |-> 0, attempts |-> 0, age |-> "new"]

Init ==
    /\ accounts = 0
    /\ password = 0
    /\ session = [s \in Sessions |->
                    [status |-> "free", token |-> 0, password |-> 0, stale |-> FALSE]]
    /\ reset = NoCode
    /\ job = [h \in Handlers |-> Idle]
    /\ tokens = 0
    /\ codes = 0
    /\ spent = [t \in 1..MaxTokens |-> 0]
    /\ guesses = [c \in 1..MaxCodes |-> 0]

Begin(h, next) ==
    /\ job[h].pc = "idle"
    /\ job' = [job EXCEPT ![h] = next]

End(h) == job' = [job EXCEPT ![h] = Idle]

(* How many requests are about to take one of these steps.                 *)
Doing(steps) == Cardinality({h \in Handlers : job[h].pc \in steps})

-----------------------------------------------------------------------------
(* register: the look-up, then the insertion. The unique index on the      *)
(* address is what refuses the second of two.                              *)
StartRegister(h) ==
    /\ accounts = 0
    /\ Begin(h, [Idle EXCEPT !.pc = "register"])
    /\ UNCHANGED <<account, tokens, codes, ghosts>>

IsUniqueConflict == accounts > 0

(* Faulty variant: nothing but the look-up keeps addresses apart.          *)
InsertUncheckedUser(h) ==
    /\ job[h].pc = "register"
    /\ accounts' = accounts + 1
    /\ password' = 1
    /\ End(h)
    /\ UNCHANGED <<session, reset, tokens, codes, ghosts>>

InsertUser(h) ==
    /\ job[h].pc = "register"
    /\ IF IsUniqueConflict THEN UNCHANGED <<accounts, password>>
       ELSE /\ accounts' = accounts + 1
            /\ password' = 1
    /\ End(h)
    /\ UNCHANGED <<session, reset, tokens, codes, ghosts>>

-----------------------------------------------------------------------------
(* login: the password given is the one that is read.                      *)
StartLogin(h, s) ==
    /\ accounts > 0
    /\ session[s].status = "free"
    /\ \A g \in Handlers : ~(job[g].pc = "login" /\ job[g].id = s)
    /\ Doing({"login", "rotate"}) + tokens < MaxTokens
    /\ Begin(h, [Idle EXCEPT !.pc = "login", !.id = s, !.read = password])
    /\ UNCHANGED <<account, tokens, codes, ghosts>>

InsertSession(h) ==
    LET s == job[h].id
    IN  /\ job[h].pc = "login"
        /\ tokens' = tokens + 1
        /\ session' = [session EXCEPT ![s] =
               [status |-> "live", token |-> tokens + 1, password |-> job[h].read,
                stale |-> job[h].stale]]
        /\ End(h)
        /\ UNCHANGED <<accounts, password, reset, codes, ghosts>>

(* refresh: the row is found by the token and must be good. No request     *)
(* ever makes an account other than active, so that test cannot refuse.    *)
StartRefresh(h, s) ==
    /\ session[s].status = "live"
    /\ Doing({"login", "rotate"}) + tokens < MaxTokens
    /\ Begin(h, [Idle EXCEPT !.pc = "rotate", !.id = s, !.read = session[s].token])
    /\ UNCHANGED <<account, tokens, codes, ghosts>>

(* The rotation is written by id, to a row that may be neither live nor    *)
(* the holder of that token any more: the expiry moves, revoked_at does    *)
(* not.                                                                    *)
RotatedStatus(status) == IF status = "expired" THEN "live" ELSE status

(* Faulty variant: only the expiry is written.                             *)
SameToken(s) == session[s].token

NextToken(s) == tokens + 1

Rotate(h) ==
    LET s == job[h].id
    IN  /\ job[h].pc = "rotate"
        /\ tokens' = tokens + 1
        /\ session' = [session EXCEPT ![s].token = NextToken(s),
                                      ![s].status = RotatedStatus(@)]
        /\ spent' = [spent EXCEPT ![job[h].read] = @ + 1]
        /\ End(h)
        /\ UNCHANGED <<accounts, password, reset, codes, guesses>>

(* verifyJwt: a token that is signed was made for a session that was       *)
(* opened.                                                                 *)
VerifyJwt(s) == session[s].token > 0

(* verifyAccessToken: whatever else the token says, the session behind it  *)
(* must be good when a request begins, and is not looked at again.         *)
Authenticated(s) == VerifyJwt(s) /\ session[s].status = "live"

(* logout: the guard, then the row is revoked unless it is already.        *)
StartLogout(h, s) ==
    /\ Authenticated(s)
    /\ Begin(h, [Idle EXCEPT !.pc = "logout", !.id = s])
    /\ UNCHANGED <<account, tokens, codes, ghosts>>

Revoked(row) == IF row.status = "free" THEN row ELSE [row EXCEPT !.status = "revoked"]

Revoke(h) ==
    LET s == job[h].id
    IN  /\ job[h].pc = "logout"
        /\ session' = [session EXCEPT ![s] = Revoked(@)]
        /\ End(h)
        /\ UNCHANGED <<accounts, password, reset, tokens, codes, ghosts>>

-----------------------------------------------------------------------------
(* findUserByEmail *)
UserFound == accounts > 0

(* forgotPassword: refused silently while the last code is new. Whether    *)
(* the mail goes out makes no difference to the row.                       *)
IsOnCooldown == reset.code # 0 /\ reset.age = "new"

StartForgot(h) ==
    /\ UserFound
    /\ ~IsOnCooldown
    /\ Doing({"issue"}) + codes < MaxCodes
    /\ Begin(h, [Idle EXCEPT !.pc = "issue"])
    /\ UNCHANGED <<account, tokens, codes, ghosts>>

IssueCode(h) ==
    /\ job[h].pc = "issue"
    /\ codes' = codes + 1
    /\ reset' = [code |-> codes + 1, attempts |-> 0, age |-> "new"]
    /\ End(h)
    /\ UNCHANGED <<accounts, password, session, tokens, ghosts>>

(* resetPassword: what becomes of the request is decided on the row as it  *)
(* is read; right tells whether the code given is the one that is stored.  *)
ResetOutcome(right) ==
    CASE reset.age = "expired" -> "clear"
      [] reset.age # "expired" /\ reset.attempts >= MaxAttempts -> "clear"
      [] OTHER -> IF right THEN "set" ELSE "count"

StartReset(h, right) ==
    /\ UserFound
    /\ reset.code # 0
    /\ right => password + Doing({"set"}) < MaxPasswords
    /\ ~right => guesses[reset.code] + Doing({"count"}) < MaxGuesses
    /\ Begin(h, [Idle EXCEPT !.pc = ResetOutcome(right), !.id = reset.code])
    /\ UNCHANGED <<account, tokens, codes, ghosts>>

ClearResetState(h) ==
    /\ job[h].pc = "clear"
    /\ reset' = NoCode
    /\ End(h)
    /\ UNCHANGED <<accounts, password, session, tokens, codes, ghosts>>

(* Faulty variant: the counter is written as it was read.                  *)
UncountedFailure == reset.attempts

CountedFailure == reset.attempts + 1

(* The counter is that of the code stored now, whichever was compared.     *)
CountAttempt(h) ==
    /\ job[h].pc = "count"
    /\ reset' = [reset EXCEPT !.attempts = CountedFailure]
    /\ guesses' = [guesses EXCEPT ![job[h].id] = @ + 1]
    /\ End(h)
    /\ UNCHANGED <<accounts, password, session, tokens, codes, spent>>

(* Faulty variant: the sessions outlive the password.                      *)
KeptSessions == session

RevokedSessions == [s \in Sessions |-> Revoked(session[s])]

(* The transaction: password, reset columns, every session. A login that   *)
(* has read the old password meanwhile is marked for the properties.       *)
SetPassword(h) ==
    /\ job[h].pc = "set"
    /\ password' = password + 1
    /\ reset' = NoCode
    /\ session' = RevokedSessions
    /\ job' = [g \in Handlers |->
                 CASE g = h -> Idle
                   [] g # h /\ job[g].pc = "login" -> [job[g] EXCEPT !.stale = TRUE]
                   [] OTHER -> job[g]]
    /\ UNCHANGED <<accounts, tokens, codes, ghosts>>

-----------------------------------------------------------------------------
(* Time: a code leaves its cooldown and then its time to live, a session   *)
(* its own; or the database fails a request that has read.                 *)
AgeCode ==
    /\ reset.code # 0 /\ reset.age # "expired"
    /\ reset' = [reset EXCEPT !.age = IF @ = "new" THEN "valid" ELSE "expired"]
    /\ UNCHANGED <<accounts, password, session, job, tokens, codes, ghosts>>

ExpireSession(s) ==
    /\ session[s].status = "live"
    /\ session' = [session EXCEPT ![s].status = "expired"]
    /\ UNCHANGED <<accounts, password, reset, job, tokens, codes, ghosts>>

Fail(h) ==
    /\ job[h].pc # "idle"
    /\ End(h)
    /\ UNCHANGED <<account, tokens, codes, ghosts>>

Start(h) ==
    \/ StartRegister(h)
    \/ \E s \in Sessions : StartLogin(h, s) \/ StartRefresh(h, s) \/ StartLogout(h, s)
    \/ StartForgot(h)
    \/ \E right \in BOOLEAN : StartReset(h, right)

Continue(h) ==
    \/ InsertUser(h)
    \/ InsertSession(h)
    \/ Rotate(h)
    \/ Revoke(h)
    \/ IssueCode(h)
    \/ ClearResetState(h)
    \/ CountAttempt(h)
    \/ SetPassword(h)
    \/ Fail(h)

Next ==
    \/ \E h \in Handlers : Start(h) \/ Continue(h)
    \/ AgeCode
    \/ \E s \in Sessions : ExpireSession(s)

Spec == Init /\ [][Next]_vars

-----------------------------------------------------------------------------
(* Numbers of passwords, tokens and codes stay below what was made.        *)
TypeOK ==
    /\ accounts \in {0, 1}
    /\ password \in 0..MaxPasswords
    /\ tokens \in 0..MaxTokens
    /\ codes \in 0..MaxCodes
    /\ session \in [Sessions -> [status : {"free", "live", "expired", "revoked"},
                                 token : 0..tokens, password : 0..password, stale : BOOLEAN]]
    /\ reset \in [code : 0..codes, attempts : Nat, age : {"new", "valid", "expired"}]
    /\ job \in [Handlers ->
         [pc : {"idle", "register", "login", "rotate", "logout", "issue", "clear", "count", "set"},
          id : Sessions \cup 0..codes, read : 0..(tokens + password), stale : BOOLEAN]]
    /\ spent \in [1..MaxTokens -> Nat]
    /\ guesses \in [1..MaxCodes -> Nat]

(* resetPassword sets the password and revokes the sessions in one         *)
(* transaction: what a session that still works was opened with is the     *)
(* password that holds now, whatever rotations were under way. The one     *)
(* exception is a login that had verified the old password when the        *)
(* transaction committed, and inserts its session after it.                *)
OldPasswordOpensNothingLater ==
    \A s \in Sessions :
        session[s].status \in {"live", "expired"} =>
            session[s].password = password \/ session[s].stale

(* However requests overlap and fail, a refresh token is exchanged by no   *)
(* more requests than can have read its row before the first rotation.     *)
TokenExchangesBounded == \A t \in 1..MaxTokens : spent[t] <= Cardinality(Handlers)

(* PASSWORD_RESET_MAX_ATTEMPTS is compared with a row read earlier, so     *)
(* requests that overlap pass it; no more than one per request under way,  *)
(* because the counter itself is incremented in the database.              *)
GuessesBounded == \A c \in 1..MaxCodes : guesses[c] < MaxAttempts + Cardinality(Handlers)
=============================================================================
