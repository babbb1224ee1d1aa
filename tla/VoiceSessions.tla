--------------------------- MODULE VoiceSessions ---------------------------
(***************************************************************************)
(* The life of the rows of table voice_sessions, as the handlers of        *)
(* VoiceService, MediaSignalingService.produce, ChannelsService and the    *)
(* worker-death handler read and write them.  A handler is an async        *)
(* function: every await is a point where the others may run, so a handler *)
(* is a job whose record holds what it has read so far.  A transaction is  *)
(* read committed: its reads see the committed rows when they are made and *)
(* its writes appear at its commit.                                        *)
(***************************************************************************)
EXTENDS Naturals, FiniteSets

CONSTANTS
    Users,            \* accounts
    Channels,         \* voice channels of one server
    Sessions,         \* ids that voice_sessions rows may take
    Handlers,         \* requests of users in flight
    Moderators,       \* requests in flight that change a channel or somebody's roles
    Background,       \* timers and callbacks: negotiation sweep, presence, worker death
    MaxParticipants,  \* VOICE_MAX_PARTICIPANTS_PER_ROOM
    ClientStatuses,   \* the connection_status values a client sends to updateState
    None              \* SQL NULL and "no previous session"

Jobs == Handlers \cup Moderators \cup Background

ConnStatuses == {"CONNECTING", "CONNECTED", "RECONNECTING", "DISCONNECTED"}

ASSUME ConstantsAssumption ==
    /\ Handlers \cap (Moderators \cup Background) = {}
    /\ Moderators \cap Background = {}
    /\ Sessions \subseteq Nat
    /\ IsFiniteSet(Handlers)
    /\ MaxParticipants \in Nat \ {0}
    /\ ClientStatuses \subseteq ConnStatuses
    /\ None \notin Users \cup Channels \cup Sessions

VARIABLES
    row,      \* the committed voice_sessions row of each id
    live,     \* channels whose status is 'active'
    allowed,  \* <<user, channel>> pairs the permission service admits
    job       \* what each handler is doing and what it has read

vars == <<row, live, allowed, job>>

-----------------------------------------------------------------------------

(* The columns of a row.  status stands for the row's existence and its     *)
(* ended_at; a deadline is not a clock value but whether NOW() is past it.  *)
(* overlapped is history: whether the join that inserted the row had read   *)
(* the previous session during another join of the same user.               *)
Row == [status   : {"absent", "active", "ended"},
        user     : Users \cup {None},
        channel  : Channels \cup {None},
        conn     : ConnStatuses,
        media    : {"IDLE", "NEGOTIATING", "CONNECTED", "FAILED"},
        deadline : {"none", "pending", "passed"},
        producer : BOOLEAN,
        overlapped : BOOLEAN]

NoRow == [status |-> "absent", user |-> None, channel |-> None,
          conn |-> "DISCONNECTED", media |-> "IDLE", deadline |-> "none",
          producer |-> FALSE, overlapped |-> FALSE]

(* The columns insertVoiceSession writes. *)
NewRow(u, c, overlaps) ==
    [status |-> "active", user |-> u, channel |-> c, conn |-> "CONNECTING",
     media |-> "NEGOTIATING", deadline |-> "pending", producer |-> FALSE,
     overlapped |-> overlaps]

Steps == {"idle", "joinCapacity", "joinTx", "joinWrite", "end", "update",
          "produce", "recheck", "recheckMember", "outerCommit"}

(* A job: the step it is at; the user, channel and session it works on; the *)
(* sessions it has read as to be ended; the status it will write back; the  *)
(* transaction it runs inside of, if any ("delete" a channel, "overwrite"   *)
(* its permissions, change somebody's "roles"), and the step there once the *)
(* sessions are ended; and as history whether a join overlaps another.      *)
Job == [pc      : Steps,
        user    : Users \cup {None},
        channel : Channels \cup {None},
        session : Sessions \cup {None},
        doomed  : SUBSET Sessions,
        conn    : ConnStatuses,
        outer   : {"none", "delete", "overwrite", "roles"},
        after   : {"idle", "recheck", "outerCommit"},
        overlaps : BOOLEAN]

IdleJob == [pc |-> "idle", user |-> None, channel |-> None, session |-> None,
            doomed |-> {}, conn |-> "DISCONNECTED", outer |-> "none",
            after |-> "idle", overlaps |-> FALSE]

Active(s) == row[s].status = "active"

(* listActiveSessionsForChannel: no condition on the channel's status. *)
ActiveIn(c) == {s \in Sessions : Active(s) /\ row[s].channel = c}

(* findActiveSessionForUser joins channels: a session in a deleted channel  *)
(* is not found.                                                            *)
ActiveOf(u) == {s \in Sessions : Active(s) /\ row[s].user = u
                                           /\ row[s].channel \in live}

EndedRow(r, media) ==
    [r EXCEPT !.status = "ended", !.conn = "DISCONNECTED", !.media = media,
              !.deadline = "none"]

(* endSession on each of S: UPDATE ... WHERE id = s AND ended_at IS NULL.   *)
EndSessions(rows, S) ==
    [s \in Sessions |-> IF s \in S /\ rows[s].status = "active"
                          THEN EndedRow(rows[s], "IDLE") ELSE rows[s]]

Become(j, record) == job' = [job EXCEPT ![j] = record]
Finish(j) == Become(j, IdleJob)

-----------------------------------------------------------------------------

TypeOK ==
    /\ row \in [Sessions -> Row]
    /\ live \subseteq Channels
    /\ allowed \subseteq Users \X Channels
    /\ job \in [Jobs -> Job]

Init ==
    /\ row = [s \in Sessions |-> NoRow]
    /\ live = Channels
    /\ allowed = Users \X Channels
    /\ job = [j \in Jobs |-> IdleJob]

(* The joins of user u between their read and their commit. *)
Writing(u) == {h \in Handlers : job[h].pc = "joinWrite" /\ job[h].user = u}

-----------------------------------------------------------------------------
(* joinChannel.                                                             *)

(* assertAllowed(JoinVoice) and getActiveVoiceChannel. *)
JoinAuthorize(h, u, c) ==
    /\ job[h].pc = "idle"
    /\ c \in live
    /\ <<u, c>> \in allowed
    /\ Become(h, [IdleJob EXCEPT !.pc = "joinCapacity", !.user = u, !.channel = c])
    /\ UNCHANGED <<row, live, allowed>>

(* assertRoomCapacity counts the other users' active sessions, outside any  *)
(* transaction.                                                             *)
OthersIn(c, u) == {s \in ActiveIn(c) : row[s].user # u}

(* Faulty variant: > for >=. *)
RoomIsFullOffByOne(c, u) == Cardinality(OthersIn(c, u)) > MaxParticipants

RoomIsFull(c, u) == Cardinality(OthersIn(c, u)) >= MaxParticipants

(* The check passes and the media service provides a router for the channel.*)
JoinPrepare(h) ==
    /\ job[h].pc = "joinCapacity"
    /\ ~RoomIsFull(job[h].channel, job[h].user)
    /\ Become(h, [job[h] EXCEPT !.pc = "joinTx"])
    /\ UNCHANGED <<row, live, allowed>>

(* The room is full (409) or the media service is unavailable (503). *)
JoinRefuse(h) ==
    /\ job[h].pc = "joinCapacity"
    /\ Finish(h)
    /\ UNCHANGED <<row, live, allowed>>

(* First statement of the transaction: the user's session, LIMIT 1. *)
JoinReadPrevious(h) ==
    /\ job[h].pc = "joinTx"
    /\ LET found == ActiveOf(job[h].user)
       IN  \E S \in SUBSET found :
             /\ S = {} <=> found = {}
             /\ \A s, t \in S : s = t
             /\ Become(h, [job[h] EXCEPT !.pc = "joinWrite", !.doomed = S,
                                         !.overlaps = Writing(job[h].user) # {}])
    /\ UNCHANGED <<row, live, allowed>>

(* The id of the next row: a UUID carries no meaning, so ids are handed out *)
(* in order.                                                                *)
IsNextId(s) ==
    /\ row[s].status = "absent"
    /\ \A t \in Sessions : row[t].status = "absent" => s <= t

(* Faulty variant: the previous session is left alone. *)
JoinCommitKeepsPrevious(h) ==
    /\ job[h].pc = "joinWrite"
    /\ \E s \in Sessions :
         /\ IsNextId(s)
         /\ row' = [row EXCEPT ![s] = NewRow(job[h].user, job[h].channel, job[h].overlaps)]
    /\ Finish(h)
    /\ UNCHANGED <<live, allowed>>

(* Faulty variant: the row of the previous session is taken again. *)
JoinCommitReusesRow(h) ==
    /\ job[h].pc = "joinWrite"
    /\ \E s \in Sessions :
         /\ s \in job[h].doomed \/ (job[h].doomed = {} /\ IsNextId(s))
         /\ row' = [row EXCEPT ![s] = NewRow(job[h].user, job[h].channel, job[h].overlaps)]
    /\ Finish(h)
    /\ UNCHANGED <<live, allowed>>

(* The commit: the previous session ended, the new one inserted. *)
JoinCommit(h) ==
    /\ job[h].pc = "joinWrite"
    /\ \E s \in Sessions :
         /\ IsNextId(s)
         /\ row' = [EndSessions(row, job[h].doomed)
                      EXCEPT ![s] = NewRow(job[h].user, job[h].channel, job[h].overlaps)]
    /\ Finish(h)
    /\ UNCHANGED <<live, allowed>>

(* The transaction fails: nothing it wrote or queued remains. *)
Rollback(j) ==
    /\ job[j].pc \in {"joinTx", "joinWrite", "end", "update", "recheck", "recheckMember",
                     "outerCommit"}
    /\ Finish(j)
    /\ UNCHANGED <<row, live, allowed>>

-----------------------------------------------------------------------------
(* Ending sessions.  Each caller first reads, outside the transaction, the  *)
(* sessions to end; the transaction ends those still active.                *)

BeginEnd(j, u, S) ==
    Become(j, [IdleJob EXCEPT !.pc = "end", !.user = u, !.doomed = S])

(* leaveSession: the client names one of its own sessions. *)
LeaveSession(h, u) ==
    /\ job[h].pc = "idle"
    /\ \E s \in ActiveOf(u) : BeginEnd(h, u, {s})
    /\ UNCHANGED <<row, live, allowed>>

(* releaseUserActiveSession (presence sweep) and                            *)
(* releaseUserActiveSessionForServer (member left or removed).              *)
ReleaseUser(b, u) ==
    /\ job[b].pc = "idle"
    /\ \E s \in ActiveOf(u) : BeginEnd(b, u, {s})
    /\ UNCHANGED <<row, live, allowed>>

(* Faulty variant: the wrong media state is looked for. *)
ExpiredReconnecting == {s \in Sessions : Active(s) /\ row[s].media = "RECONNECTING"
                                                   /\ row[s].deadline = "passed"}

(* findExpiredNegotiations; it accepts RECONNECTING as well, which nothing  *)
(* ever stores.                                                             *)
Expired == {s \in Sessions : Active(s) /\ row[s].media = "NEGOTIATING"
                                       /\ row[s].deadline = "passed"}

(* sweepNegotiationTimeouts; its LIMIT 50 is never reached here. *)
SweepNegotiations(b) ==
    /\ job[b].pc = "idle"
    /\ Expired # {}
    /\ BeginEnd(b, None, Expired)
    /\ UNCHANGED <<row, live, allowed>>

(* The commit of endSession for every session of the list. *)
EndCommit(j) ==
    /\ job[j].pc = "end"
    /\ row' = EndSessions(row, job[j].doomed)
    /\ Become(j, IF job[j].after = "idle" THEN IdleJob
                   ELSE [job[j] EXCEPT !.pc = job[j].after, !.doomed = {}, !.after = "idle"])
    /\ UNCHANGED <<live, allowed>>

(* Faulty variant: the sessions are marked for reconnection but not ended. *)
WorkerDiedReconnecting(b, c) ==
    /\ job[b].pc = "idle"
    /\ ActiveIn(c) # {}
    /\ row' = [s \in Sessions |-> IF s \in ActiveIn(c)
                                    THEN [row[s] EXCEPT !.media = "RECONNECTING"] ELSE row[s]]
    /\ UNCHANGED <<live, allowed, job>>

(* handleWorkerDied, for one channel of the registry. *)
WorkerDied(b, c) ==
    /\ job[b].pc = "idle"
    /\ ActiveIn(c) # {}
    /\ row' = [s \in Sessions |-> IF s \in ActiveIn(c)
                                    THEN EndedRow(row[s], "FAILED") ELSE row[s]]
    /\ UNCHANGED <<live, allowed, job>>

-----------------------------------------------------------------------------
(* updateState: the columns the request does not name are written back as   *)
(* they were read before the transaction.                                   *)

UpdateRead(h, u) ==
    /\ job[h].pc = "idle"
    /\ \E s \in ActiveOf(u) : \E status \in ClientStatuses \cup {row[s].conn} :
         Become(h, [IdleJob EXCEPT !.pc = "update", !.user = u, !.session = s,
                                   !.conn = status])
    /\ UNCHANGED <<row, live, allowed>>

(* updateVoiceSessionState *)
UpdatedRow(r, status) == [r EXCEPT !.conn = status]

(* Faulty variant: UPDATE without ended_at IS NULL. *)
UpdateCommitUnguarded(h) ==
    /\ job[h].pc = "update"
    /\ row' = [row EXCEPT ![job[h].session].conn = job[h].conn]
    /\ Finish(h)
    /\ UNCHANGED <<live, allowed>>

(* UPDATE ... WHERE ended_at IS NULL; when it returns no row the event is   *)
(* built from undefined and the transaction rolls back.                     *)
UpdateCommit(h) ==
    /\ job[h].pc = "update"
    /\ Active(job[h].session)
    /\ row' = [row EXCEPT ![job[h].session] = UpdatedRow(@, job[h].conn)]
    /\ Finish(h)
    /\ UNCHANGED <<live, allowed>>

-----------------------------------------------------------------------------
(* produce: the gateway reads the session, the service checks SpeakVoice,   *)
(* the media worker answers, and an UPDATE records the producer.            *)

ProduceAuthorize(h, u) ==
    /\ job[h].pc = "idle"
    /\ \E s \in ActiveOf(u) :
         /\ <<u, row[s].channel>> \in allowed
         /\ Become(h, [IdleJob EXCEPT !.pc = "produce", !.user = u, !.session = s])
    /\ UNCHANGED <<row, live, allowed>>

(* Faulty variant: negotiation_deadline is not cleared. *)
ProducingRowKeepsDeadline(r) ==
    [r EXCEPT !.conn = "CONNECTED", !.media = "CONNECTED", !.producer = TRUE]

ProducingRow(r) ==
    [r EXCEPT !.conn = "CONNECTED", !.media = "CONNECTED", !.producer = TRUE,
              !.deadline = "none"]

ProduceUpdate(h) ==
    /\ job[h].pc = "produce"
    /\ row' = IF Active(job[h].session)
                THEN [row EXCEPT ![job[h].session] = ProducingRow(row[job[h].session])]
                ELSE row
    /\ Finish(h)
    /\ UNCHANGED <<live, allowed>>

(* The worker reports an error, or it exits and the request is rejected. *)
ProduceFails(h) ==
    /\ job[h].pc = "produce"
    /\ Finish(h)
    /\ UNCHANGED <<row, live, allowed>>

-----------------------------------------------------------------------------
(* Changes to a channel or to roles.  Inside its own transaction, before    *)
(* that commits, ChannelsService or ServersService calls the voice service, *)
(* whose queries run on another connection and see the channel and the      *)
(* permissions as they still are.                                           *)

(* The sessions found are ended, if there are any, before the next step. *)
EndFirst(j, S, next) ==
    IF S = {} THEN [j EXCEPT !.pc = next]
    ELSE [j EXCEPT !.pc = "end", !.doomed = S, !.after = next]

(* releaseChannelActiveSessions *)
ReleasingChannel(j, c) == EndFirst(j, ActiveIn(c), "recheck")

(* deleteChannel: releaseChannelActiveSessions, then enqueuePermissionChanged.*)
DeleteChannel(h, c) ==
    /\ job[h].pc = "idle"
    /\ c \in live
    /\ Become(h, ReleasingChannel([IdleJob EXCEPT !.channel = c, !.outer = "delete"], c))
    /\ UNCHANGED <<row, live, allowed>>

(* updateChannel with permission overwrites that shut user u out. *)
OverwriteChannel(h, c, u) ==
    /\ job[h].pc = "idle"
    /\ c \in live
    /\ Become(h, [IdleJob EXCEPT !.pc = "recheck", !.user = u, !.channel = c,
                                 !.outer = "overwrite"])
    /\ UNCHANGED <<row, live, allowed>>

(* The users listUsersWithChannelPermission does not return. *)
Denied(c) == {u \in Users : c \notin live \/ <<u, c>> \notin allowed}

(* enqueuePermissionChanged: releaseUsersActiveSessionsForChannel for the   *)
(* users denied by the committed permissions.                               *)
RecheckChannel(h) ==
    /\ job[h].pc = "recheck"
    /\ LET c == job[h].channel
           targeted == {s \in ActiveIn(c) : row[s].user \in Denied(c)}
       IN  Become(h, EndFirst(job[h], targeted, "outerCommit"))
    /\ UNCHANGED <<row, live, allowed>>

(* assignRole, removeRole, updateRole, deleteRole, updateMember: user u     *)
(* loses JoinVoice in the server.                                           *)
ChangeRoles(h, u) ==
    /\ job[h].pc = "idle"
    /\ Become(h, [IdleJob EXCEPT !.pc = "recheckMember", !.user = u, !.outer = "roles"])
    /\ UNCHANGED <<row, live, allowed>>

(* listActiveSessionsForUsersInServer, with one affected user. *)
HeldByMember(u) == ActiveOf(u)

(* releaseUsersActiveSessionsWithoutJoinPermission: JoinVoice is asked of   *)
(* the committed permissions for the channel of each session.               *)
RecheckMember(h) ==
    /\ job[h].pc = "recheckMember"
    /\ LET u == job[h].user
           toRelease == {s \in HeldByMember(u) : <<u, row[s].channel>> \notin allowed}
       IN  Become(h, EndFirst(job[h], toRelease, "outerCommit"))
    /\ UNCHANGED <<row, live, allowed>>

(* The moderator's own transaction commits. *)
OuterCommit(h) ==
    /\ job[h].pc = "outerCommit"
    /\ LET c == job[h].channel
       IN  \/ /\ job[h].outer = "delete"
              /\ live' = live \ {c}
              /\ UNCHANGED allowed
           \/ /\ job[h].outer = "overwrite"
              /\ allowed' = allowed \ {<<job[h].user, c>>}
              /\ UNCHANGED live
           \/ /\ job[h].outer = "roles"
              /\ allowed' = allowed \ ({job[h].user} \X Channels)
              /\ UNCHANGED live
    /\ Finish(h)
    /\ UNCHANGED row

-----------------------------------------------------------------------------
(* NOW() passes a row's negotiation_deadline, which only a timer looks at. *)
DeadlinePasses(s) ==
    /\ Background # {}
    /\ Active(s)
    /\ row[s].deadline = "pending"
    /\ row' = [row EXCEPT ![s].deadline = "passed"]
    /\ UNCHANGED <<live, allowed, job>>

(* One step of a request. *)
RequestStep(h) ==
    \/ \E u \in Users, c \in Channels : JoinAuthorize(h, u, c)
    \/ JoinPrepare(h)
    \/ JoinRefuse(h)
    \/ JoinReadPrevious(h)
    \/ JoinCommit(h)
    \/ \E u \in Users : LeaveSession(h, u)
    \/ \E u \in Users : UpdateRead(h, u)
    \/ UpdateCommit(h)
    \/ \E u \in Users : ProduceAuthorize(h, u)
    \/ ProduceUpdate(h)
    \/ ProduceFails(h)

(* One step of a change to a channel or to roles. *)
ChannelStep(m) ==
    \/ \E c \in Channels : DeleteChannel(m, c)
    \/ \E c \in Channels, u \in Users : OverwriteChannel(m, c, u)
    \/ RecheckChannel(m)
    \/ \E u \in Users : ChangeRoles(m, u)
    \/ RecheckMember(m)
    \/ OuterCommit(m)

(* One step of a timer or callback. *)
BackgroundStep(b) ==
    \/ SweepNegotiations(b)
    \/ \E u \in Users : ReleaseUser(b, u)
    \/ \E c \in Channels : WorkerDied(b, c)

(* The steps both kinds share. *)
TransactionStep(j) ==
    \/ EndCommit(j)
    \/ Rollback(j)

Next ==
    \/ \E h \in Handlers : RequestStep(h)
    \/ \E m \in Moderators : ChannelStep(m)
    \/ \E b \in Background : BackgroundStep(b)
    \/ \E j \in Jobs : TransactionStep(j)
    \/ \E s \in Sessions : DeadlinePasses(s)

Spec == Init /\ [][Next]_vars

(* The interval timer keeps firing, a transaction that is tried again and   *)
(* again commits at last, and time passes.  Nothing is assumed of clients.  *)
Fairness ==
    /\ \A b \in Background : /\ SF_vars(SweepNegotiations(b))
                             /\ SF_vars(EndCommit(b))
                             /\ WF_vars(TransactionStep(b))
    /\ \A s \in Sessions : WF_vars(DeadlinePasses(s))

FairSpec == Spec /\ Fairness

-----------------------------------------------------------------------------
(* Properties.                                                              *)

(* Every writer of a row guards its UPDATE with ended_at IS NULL although   *)
(* it decided on an older read: once a session has ended nothing brings     *)
(* back a live connection status, media state or deadline.                  *)
EndedIsClosed ==
    \A s \in Sessions :
        row[s].status = "ended" =>
            /\ row[s].conn = "DISCONNECTED"
            /\ row[s].media \in {"IDLE", "FAILED"}
            /\ row[s].deadline = "none"

(* An active session is either negotiating under a deadline, so the sweep   *)
(* will find it, or connected with a producer and no deadline, so the sweep *)
(* will not: no interleaving of produce with the others leaves it between.  *)
NegotiatingOrProducing ==
    \A s \in Sessions :
        Active(s) =>
            \/ row[s].media = "NEGOTIATING" /\ row[s].deadline # "none"
            \/ row[s].media = "CONNECTED" /\ row[s].deadline = "none" /\ row[s].producer

(* The sessions of user u, over or not, that overlapping joins inserted.    *)
OverlappedOf(u) == {s \in Sessions : row[s].user = u /\ row[s].overlapped}

(* 03-module-design.md:194 allows a user one session at a time.  No index   *)
(* enforces that, and a join ends one session only (LIMIT 1), so joins that *)
(* overlap leave sessions behind; but nothing else does: every active       *)
(* session beyond the first is paid for by a join that read the previous    *)
(* session between the read and the commit of another join of the user.     *)
ExtraSessionsOverlapped ==
    \A u \in Users : Cardinality(ActiveOf(u)) <= 1 + Cardinality(OverlappedOf(u))

UsersIn(c) == {row[s].user : s \in ActiveIn(c)}

Overshoot == Cardinality(Handlers) - 1

(* assertRoomCapacity is not atomic with the insert; overlapping joins may  *)
(* exceed the limit, by at most one user per other request in flight.       *)
CapacityOvershootBounded ==
    \A c \in Channels : Cardinality(UsersIn(c)) <= MaxParticipants + Overshoot

Phase ==
    [s \in Sessions |-> IF row[s].status = "active"
                          THEN IF row[s].media = "CONNECTED" THEN "connected"
                                                             ELSE "negotiating"
                          ELSE row[s].status]

Holder ==
    [s \in Sessions |-> IF row[s].status = "absent" THEN None
                          ELSE <<row[s].user, row[s].channel>>]

Lifecycle == INSTANCE VoiceLifecycle WITH phase <- Phase, holder <- Holder

(* Every step is one of the life cycle's or changes nothing it can see: no  *)
(* session is revived, handed to another user, or ended by another's join.  *)
ImplementsLifecycle == Lifecycle!Spec

(* A session that starts negotiating is connected or ended in the end: the  *)
(* sweep catches every client that never finishes, whatever requests and    *)
(* rollbacks interleave with it.                                            *)
NegotiationResolves ==
    \A s \in Sessions :
        (Active(s) /\ row[s].media = "NEGOTIATING")
            ~> ~(Active(s) /\ row[s].media = "NEGOTIATING")
=============================================================================
