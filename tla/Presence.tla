------------------------------ MODULE Presence ------------------------------
(***************************************************************************)
(* Who is online: PresenceService, with the handlers of RealtimeGateway    *)
(* that call it.  The live connections of a user are kept in Redis, the    *)
(* status in the users table.  All handlers share one Redis connection,    *)
(* which answers in order, and each awaits an answer before its next       *)
(* command: their commands take turns.  Statements on users go through a   *)
(* pool and may take any time.                                             *)
(***************************************************************************)
EXTENDS Naturals, Sequences, FiniteSets

CONSTANTS
    Users,       \* accounts
    Connections, \* socket ids, each used once
    Owner,       \* the account behind each socket
    Handlers,    \* handlers of socket events that may run at once
    Sweeps,      \* presence sweeps that may run at once
    Desired,     \* the statuses users choose by PATCH /users/me/presence
    None

Jobs == Handlers \cup Sweeps

(* idle and busy are treated as online is. *)
Statuses == {"online", "invisible", "offline"}

ASSUME ConstantsAssumption ==
    /\ Owner \in [Connections -> Users]
    /\ Handlers \cap Sweeps = {}
    /\ Desired \subseteq Statuses
    /\ None \notin Users \cup Connections

VARIABLES
    socket,     \* phase of each connection
    status,     \* users.presence_status
    tracked,    \* Redis set presence:user:<id>:connections
    expiration, \* Redis sorted set presence:connection_expirations
    candidate,  \* Redis sorted set presence:offline_candidates
    queue,      \* the jobs that await Redis, in the order of their commands
    job,        \* what each handler or sweep is doing
    excused     \* history: users of whom the records were given up

redis == <<tracked, expiration, candidate>>
program == <<socket, status, redis, queue, job>>
vars == <<program, excused>>

-----------------------------------------------------------------------------

(* A score in a sorted set is not a clock value but whether it has passed.  *)
Score == {"none", "pending", "due"}

(* A socket is "new" until handleConnection has verified its token, and     *)
(* "lost" if it closed before that.                                         *)
Phases == {"new", "lost", "open", "closed"}

(* Steps that await Redis: those of storeConnection (the first four and     *)
(* "unmark"), those shared by markDisconnected and the first loops of the   *)
(* sweep, and those of the rest of the sweep.                               *)
RedisSteps == {"set", "sadd", "expire", "zadd", "unmark",
               "srem", "del", "zrem", "scard", "mark",
               "expired", "candidates", "count", "remove"}

(* Steps that await the database: getPresenceRow and setPresenceStatus.     *)
DatabaseSteps == {"read", "write"}

(* A job: its step; the connection and user it works on; for a sweep the    *)
(* expired connections, the users affected and the candidates it has still  *)
(* to visit, and the users to be put offline at the end.                    *)
Job == [kind    : {"none", "track", "beat", "drop", "sweep"},
        pc      : {"idle"} \cup RedisSteps \cup DatabaseSteps,
        conn    : Connections \cup {None},
        user    : Users \cup {None},
        expired : SUBSET Connections,
        users   : SUBSET Users,
        due     : SUBSET Users,
        ready   : SUBSET Users]

IdleJob == [kind |-> "none", pc |-> "idle", conn |-> None, user |-> None,
            expired |-> {}, users |-> {}, due |-> {}, ready |-> {}]

ProgramTypeOK ==
    /\ socket \in [Connections -> Phases]
    /\ status \in [Users -> Statuses]
    /\ tracked \in [Users -> SUBSET Connections]
    /\ expiration \in [Connections -> Score]
    /\ candidate \in [Users -> Score]
    /\ queue \in Seq(Jobs)
    /\ job \in [Jobs -> Job]

TypeOK == ProgramTypeOK /\ excused \subseteq Users

Init ==
    /\ socket = [c \in Connections |-> "new"]
    /\ status = [u \in Users |-> "offline"]
    /\ tracked = [u \in Users |-> {}]
    /\ expiration = [c \in Connections |-> "none"]
    /\ candidate = [u \in Users |-> "none"]
    /\ queue = <<>>
    /\ job = [j \in Jobs |-> IdleJob]
    /\ excused = {}

(* A new job sends its first command behind those already sent. *)
Start(j, kind, pc, c) ==
    /\ job[j].pc = "idle"
    /\ job' = [job EXCEPT ![j] =
                 [IdleJob EXCEPT !.kind = kind, !.pc = pc, !.conn = c,
                                 !.user = IF c = None THEN None ELSE Owner[c]]]
    /\ queue' = Append(queue, j)

(* Redis executes the command of job j. *)
Answer(j, pc) ==
    /\ queue # <<>>
    /\ Head(queue) = j
    /\ job[j].pc = pc

(* Job j reads the answer and goes on as record r says. *)
Proceed(j, r) ==
    /\ job' = [job EXCEPT ![j] = r]
    /\ queue' = IF r.pc \in RedisSteps THEN Append(Tail(queue), j) ELSE Tail(queue)

GoTo(j, pc) == Proceed(j, [job[j] EXCEPT !.pc = pc])

(* Job j goes on after an answer of the database. *)
ProceedUnqueued(j, r) ==
    /\ job' = [job EXCEPT ![j] = r]
    /\ UNCHANGED queue

-----------------------------------------------------------------------------
(* Sockets.                                                                 *)

(* The token is good: socket.data.user is set and trackConnection called,   *)
(* whether or not the socket is still there.                                *)
Accept(h, c) ==
    /\ socket[c] \in {"new", "lost"}
    /\ Start(h, "track", "set", c)
    /\ socket' = [socket EXCEPT ![c] = IF @ = "lost" THEN "closed" ELSE "open"]
    /\ UNCHANGED <<status, redis>>

(* The token is bad or the account disabled. *)
Refuse(c) ==
    /\ socket[c] \in {"new", "lost"}
    /\ socket' = [socket EXCEPT ![c] = "closed"]
    /\ UNCHANGED <<status, redis, queue, job>>

(* handleDisconnect before socket.data.user is set returns at once. *)
Lose(c) ==
    /\ socket[c] = "new"
    /\ socket' = [socket EXCEPT ![c] = "lost"]
    /\ UNCHANGED <<status, redis, queue, job>>

(* The history: the code gives up the records of a user it still shows.  No *)
(* step depends on it.                                                      *)
Excuse(u, lost) == excused' = IF lost THEN excused \cup {u} ELSE excused

Tracking(c) == \E h \in Handlers : job[h].kind = "track" /\ job[h].conn = c

(* handleDisconnect calls markDisconnected, perhaps while trackConnection   *)
(* still runs for the socket and writes the status afterwards.              *)
Disconnect(h, c) ==
    /\ socket[c] = "open"
    /\ Start(h, "drop", "srem", c)
    /\ socket' = [socket EXCEPT ![c] = "closed"]
    /\ Excuse(Owner[c], Tracking(c))
    /\ UNCHANGED <<status, redis>>

(* handleHeartbeat: storeConnection and nothing else. *)
Heartbeat(h, c) ==
    /\ socket[c] = "open"
    /\ Start(h, "beat", "set", c)
    /\ UNCHANGED <<socket, status, redis>>

(* updatePresence: the request needs an access token and no socket. *)
UpdatePresence(u, s) ==
    /\ status' = [status EXCEPT ![u] = s]
    /\ Excuse(u, s # "offline" /\ tracked[u] = {})
    /\ UNCHANGED <<socket, redis, queue, job>>

-----------------------------------------------------------------------------
(* storeConnection.                                                         *)

(* SET and EXPIRE: nothing reads the key of a connection, and the set of a  *)
(* user lives on beyond the scores of its connections.                      *)
Set(j) ==
    /\ \/ Answer(j, "set") /\ GoTo(j, "sadd")
       \/ Answer(j, "expire") /\ GoTo(j, "zadd")
    /\ UNCHANGED <<socket, status, redis>>

(* Faulty variant: the user's id is added in place of the connection's. *)
SaddUser(j) ==
    /\ Answer(j, "sadd")
    /\ tracked' = [tracked EXCEPT ![job[j].user] = @ \cup {job[j].user}]
    /\ GoTo(j, "expire")
    /\ UNCHANGED <<socket, status, expiration, candidate>>

Sadd(j) ==
    /\ Answer(j, "sadd")
    /\ tracked' = [tracked EXCEPT ![job[j].user] = @ \cup {job[j].conn}]
    /\ GoTo(j, "expire")
    /\ UNCHANGED <<socket, status, expiration, candidate>>

Zadd(j) ==
    /\ Answer(j, "zadd")
    /\ expiration' = [expiration EXCEPT ![job[j].conn] = "pending"]
    /\ GoTo(j, "unmark")
    /\ UNCHANGED <<socket, status, tracked, candidate>>

(* ZREM of the candidate; then trackConnection reads the status. *)
Unmark(j) ==
    /\ Answer(j, "unmark")
    /\ candidate' = [candidate EXCEPT ![job[j].user] = "none"]
    /\ Proceed(j, IF job[j].kind = "track" THEN [job[j] EXCEPT !.pc = "read"]
                                           ELSE IdleJob)
    /\ UNCHANGED <<socket, status, tracked, expiration>>

-----------------------------------------------------------------------------
(* The commands of markDisconnected, which the sweep issues as well for     *)
(* each expired connection and then for each user affected.                 *)

(* Where the sweep goes after its last command on r.conn or r.user. *)
Visit(r) ==
    IF r.expired # {}
      THEN {[r EXCEPT !.pc = "srem", !.conn = c, !.expired = @ \ {c},
                      !.users = @ \cup {Owner[c]}] : c \in r.expired}
    ELSE IF r.users # {}
      THEN {[r EXCEPT !.pc = "scard", !.user = u, !.users = @ \ {u}] : u \in r.users}
    ELSE {[r EXCEPT !.pc = "candidates"]}

(* Faulty variant: the sweep removes the scores only. *)
SremByDrop(j) ==
    /\ Answer(j, "srem")
    /\ tracked' = [tracked EXCEPT ![Owner[job[j].conn]] =
                     IF job[j].kind = "drop" THEN @ \ {job[j].conn} ELSE @]
    /\ GoTo(j, "del")
    /\ UNCHANGED <<socket, status, expiration, candidate>>

Srem(j) ==
    /\ Answer(j, "srem")
    /\ tracked' = [tracked EXCEPT ![Owner[job[j].conn]] = @ \ {job[j].conn}]
    /\ GoTo(j, "del")
    /\ UNCHANGED <<socket, status, expiration, candidate>>

Del(j) ==
    /\ Answer(j, "del")
    /\ GoTo(j, "zrem")
    /\ UNCHANGED <<socket, status, redis>>

Zrem(j) ==
    /\ Answer(j, "zrem")
    /\ expiration' = [expiration EXCEPT ![job[j].conn] = "none"]
    /\ \/ job[j].kind = "drop" /\ GoTo(j, "scard")
       \/ job[j].kind = "sweep" /\ \E r \in Visit(job[j]) : Proceed(j, r)
    /\ UNCHANGED <<socket, status, tracked, candidate>>

(* A drop ends here, a sweep goes on with the next user. *)
Leave(j) ==
    \/ job[j].kind = "drop" /\ Proceed(j, IdleJob)
    \/ job[j].kind = "sweep" /\ \E r \in Visit(job[j]) : Proceed(j, r)

Scard(j) ==
    /\ Answer(j, "scard")
    /\ IF tracked[job[j].user] = {} THEN GoTo(j, "mark") ELSE Leave(j)
    /\ UNCHANGED <<socket, status, redis>>

(* Faulty variant: the sweep marks no candidate. *)
MarkByDrop(j) ==
    /\ Answer(j, "mark")
    /\ candidate' = [candidate EXCEPT ![job[j].user] =
                       IF job[j].kind = "drop" THEN "pending" ELSE @]
    /\ Leave(j)
    /\ UNCHANGED <<socket, status, tracked, expiration>>

(* ZADD of the candidate, due after PRESENCE_OFFLINE_GRACE_MS. *)
Mark(j) ==
    /\ Answer(j, "mark")
    /\ candidate' = [candidate EXCEPT ![job[j].user] = "pending"]
    /\ Leave(j)
    /\ UNCHANGED <<socket, status, tracked, expiration>>

-----------------------------------------------------------------------------
(* sweepExpiredPresence.                                                    *)

SweepStart(s) ==
    /\ Start(s, "sweep", "expired", None)
    /\ UNCHANGED <<socket, status, redis>>

(* ZRANGEBYSCORE of the expired connections. *)
SweepExpired(s) ==
    /\ Answer(s, "expired")
    /\ LET expired == {c \in Connections : expiration[c] = "due"}
       IN  \E r \in Visit([job[s] EXCEPT !.expired = expired]) : Proceed(s, r)
    /\ UNCHANGED <<socket, status, redis>>

(* Where the sweep goes after its last step on a candidate, and then, with  *)
(* the list complete, on a user it puts offline.                            *)
VisitCandidate(r) ==
    IF r.due # {}
      THEN {[r EXCEPT !.pc = "count", !.user = u, !.due = @ \ {u}] : u \in r.due}
    ELSE IF r.ready # {}
      THEN {[r EXCEPT !.pc = "read", !.user = u, !.ready = @ \ {u}] : u \in r.ready}
    ELSE {IdleJob}

(* Faulty variant: ZRANGEBYSCORE with its bounds swapped finds nobody. *)
SweepCandidatesSwapped(s) ==
    /\ Answer(s, "candidates")
    /\ \E r \in VisitCandidate(job[s]) : Proceed(s, r)
    /\ UNCHANGED <<socket, status, redis>>

(* ZRANGEBYSCORE of the candidates. *)
SweepCandidates(s) ==
    /\ Answer(s, "candidates")
    /\ LET due == {u \in Users : candidate[u] = "due"}
       IN  \E r \in VisitCandidate([job[s] EXCEPT !.due = due]) : Proceed(s, r)
    /\ UNCHANGED <<socket, status, redis>>

SweepCount(s) ==
    /\ Answer(s, "count")
    /\ Proceed(s, [job[s] EXCEPT !.pc = "remove",
                     !.ready = IF tracked[job[s].user] = {} THEN @ \cup {job[s].user} ELSE @])
    /\ UNCHANGED <<socket, status, redis>>

SweepRemove(s) ==
    /\ Answer(s, "remove")
    /\ candidate' = [candidate EXCEPT ![job[s].user] = "none"]
    /\ \E r \in VisitCandidate(job[s]) : Proceed(s, r)
    /\ UNCHANGED <<socket, status, tracked, expiration>>

-----------------------------------------------------------------------------
(* The status: trackConnection brings a user online who is offline,         *)
(* finalizeOffline one offline who is not.                                  *)

Target(j) == IF job[j].kind = "track" THEN "online" ELSE "offline"

Concerns(j) ==
    IF job[j].kind = "track" THEN status[job[j].user] = "offline"
                             ELSE status[job[j].user] # "offline"

(* Where the job goes when it is done with the status of its user. *)
AfterStatus(r) == IF r.kind = "track" THEN {IdleJob} ELSE VisitCandidate(r)

ReadStatus(j) ==
    /\ job[j].pc = "read"
    /\ IF Concerns(j)
         THEN ProceedUnqueued(j, [job[j] EXCEPT !.pc = "write"])
         ELSE \E r \in AfterStatus(job[j]) : ProceedUnqueued(j, r)
    /\ UNCHANGED <<socket, status, redis>>

WriteStatus(j) ==
    /\ job[j].pc = "write"
    /\ status' = [status EXCEPT ![job[j].user] = Target(j)]
    /\ \E r \in AfterStatus(job[j]) : ProceedUnqueued(j, r)
    /\ UNCHANGED <<socket, redis>>

-----------------------------------------------------------------------------
(* Failures.                                                                *)

(* A statement fails: trackConnection throws, the sweep, which has removed  *)
(* the candidate, logs and goes on.                                         *)
DatabaseFails(j) ==
    /\ job[j].pc \in DatabaseSteps
    /\ \E r \in AfterStatus(job[j]) : ProceedUnqueued(j, r)
    /\ Excuse(job[j].user, job[j].kind = "sweep" /\ status[job[j].user] # "offline")
    /\ UNCHANGED <<socket, status, redis>>

AtRest == \A j \in Jobs : job[j].pc = "idle"

(* The API process stops between two handlers and starts again: the sockets *)
(* are gone and no disconnect handler has run.                              *)
Restart ==
    /\ AtRest
    /\ socket' = [c \in Connections |-> IF socket[c] = "new" THEN "new" ELSE "closed"]
    /\ UNCHANGED <<status, redis, queue, job>>

-----------------------------------------------------------------------------
(* Time.                                                                    *)

(* The TTL of 75 s and the grace period of 45 s are longer than a handler   *)
(* takes; and a sweep compares all scores with the time it began at.        *)
MayPass(u) ==
    /\ \A h \in Handlers : job[h].user # u
    /\ \A s \in Sweeps : job[s].pc \notin RedisSteps

ExpirationDue(c) ==
    /\ expiration[c] = "pending"
    /\ MayPass(Owner[c])
    /\ expiration' = [expiration EXCEPT ![c] = "due"]
    /\ UNCHANGED <<socket, status, tracked, candidate, queue, job>>

CandidateDue(u) ==
    /\ candidate[u] = "pending"
    /\ MayPass(u)
    /\ candidate' = [candidate EXCEPT ![u] = "due"]
    /\ UNCHANGED <<socket, status, tracked, expiration, queue, job>>

(* The key of a user's set expires a minute after the last score set with it.*)
TrackedExpires(u) ==
    /\ tracked[u] # {}
    /\ \A c \in Connections : Owner[c] = u => expiration[c] # "pending"
    /\ \A h \in Handlers : job[h].user = u => job[h].pc # "zadd"
    /\ tracked' = [tracked EXCEPT ![u] = {}]
    /\ UNCHANGED <<socket, status, expiration, candidate, queue, job>>

-----------------------------------------------------------------------------

SocketEvent ==
    \/ \E c \in Connections : Refuse(c) \/ Lose(c)
    \/ \E h \in Handlers, c \in Connections : Accept(h, c) \/ Heartbeat(h, c)

StoreStep(j) == Set(j) \/ Sadd(j) \/ Zadd(j) \/ Unmark(j)
DropStep(j) == Srem(j) \/ Del(j) \/ Zrem(j) \/ Scard(j) \/ Mark(j)
StatusStep(j) == ReadStatus(j) \/ WriteStatus(j)

SweepStep(s) ==
    SweepExpired(s) \/ SweepCandidates(s) \/ SweepCount(s) \/ SweepRemove(s)

TimePasses ==
    \/ \E c \in Connections : ExpirationDue(c)
    \/ \E u \in Users : CandidateDue(u) \/ TrackedExpires(u)

(* The steps that leave the history alone. *)
Plain ==
    \/ SocketEvent
    \/ \E j \in Jobs : StoreStep(j) \/ DropStep(j) \/ StatusStep(j)
    \/ \E s \in Sweeps : SweepStart(s) \/ SweepStep(s)
    \/ Restart
    \/ TimePasses

Next ==
    \/ Plain /\ UNCHANGED excused
    \/ \E h \in Handlers, c \in Connections : Disconnect(h, c)
    \/ \E u \in Users, s \in Desired : UpdatePresence(u, s)
    \/ \E j \in Jobs : DatabaseFails(j)

Spec == Init /\ [][Next]_vars

(* Redis and the database answer, the interval timer keeps firing, time     *)
(* passes.  Nothing is assumed of clients: a heartbeat may always be late.  *)
Fairness ==
    /\ \A j \in Jobs : WF_program(StoreStep(j) \/ DropStep(j) \/ StatusStep(j))
    /\ \A s \in Sweeps : WF_program(SweepStart(s)) /\ WF_program(SweepStep(s))
    /\ \A c \in Connections : SF_program(socket[c] = "closed" /\ ExpirationDue(c))
    /\ \A u \in Users : SF_program(CandidateDue(u))

FairSpec == Spec /\ Fairness

-----------------------------------------------------------------------------
(* Properties.                                                              *)

SocketsOf(u) == {c \in Connections : Owner[c] = u}

(* The job is between the SADD and the ZADD of the connection. *)
Storing(j, c) == job[j].conn = c /\ job[j].pc \in {"expire", "zadd"}

(* The sweep can empty a user's set only of the connections it finds by     *)
(* their scores.  storeConnection, markDisconnected and the sweep write the *)
(* two by separate commands and may work on one connection at once; still   *)
(* none leaves a connection in the set without a score: it has one, or      *)
(* storeConnection is about to give it one.                                 *)
TrackedHasScore ==
    \A u \in Users : \A c \in tracked[u] :
        expiration[c] # "none" \/ \E j \in Jobs : Storing(j, c)

(* A user who is shown as anything but offline is known to Redis, by a      *)
(* score or as a candidate, so a later sweep will find the user when the    *)
(* last socket is gone.  The code gives this up, and with it what           *)
(* 10-test-acceptance.md:49 asks for, in the three cases excused records:   *)
(* a PATCH of the status while Redis has no connection of the user, a       *)
(* socket that closes while trackConnection runs for it, and a statement of *)
(* the sweep that fails.                                                    *)
NobodyForgotten ==
    AtRest => \A u \in Users \ excused : status[u] # "offline" =>
        \/ candidate[u] # "none"
        \/ \E c \in SocketsOf(u) : expiration[c] # "none"

(* A user who has no open socket any more is put offline in the end,        *)
(* however connects, disconnects, heartbeats, requests and sweeps           *)
(* overlapped before, but for the users excused as above.                   *)
GoneGoesOffline ==
    \A u \in Users :
        <>[](u \notin excused /\ \A c \in SocketsOf(u) : socket[c] # "open")
            => <>[](status[u] = "offline")

=============================================================================
