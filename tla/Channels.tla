------------------------------ MODULE Channels ------------------------------
(***************************************************************************)
(* The channels of one server: their rows, their permission overwrites,    *)
(* and the sockets in their rooms, as ChannelsService, RealtimeGateway and *)
(* PersistenceCoordinator keep them.                                       *)
(*                                                                         *)
(* A request is a job.  A transaction holds the row of its channel from    *)
(* the first statement on and what it writes becomes visible when it       *)
(* commits; what permission changes entail is worked out before, by        *)
(* queries on other connections, which see the rows as committed.  After   *)
(* the commit come the audits and then the events.  Releasing voice        *)
(* sessions, which happens in the same step, is VoiceSessions' subject.    *)
(***************************************************************************)
EXTENDS Permissions, FiniteSets

CONSTANTS
    Users, Owner,  \* the members of the server, and its owner
    RolesOf,       \* the roles every user holds
    BitsOf,        \* the bits of every role
    Channels,      \* the ids of channels
    Types,         \* kinds of channel that requests ask for
    OverwriteSets, \* what requests ask for: sets of [target, allow, deny]; a bit that
                   \* stands for nothing decides nothing and is left out
    Handlers,      \* requests under way at the same time
    MaxRequests,   \* bound: requests in a behaviour
    None           \* nothing

ASSUME ConstantsAssumption ==
    /\ Owner \in Users
    /\ RolesOf \in [Users -> SUBSET DOMAIN BitsOf]
    /\ BitsOf \in [DOMAIN BitsOf -> SUBSET Bits]
    /\ Types \subseteq {"text", "voice"}
    /\ \A rows \in OverwriteSets : \A r \in rows : r.allow \cup r.deny \subseteq Bits
    /\ MaxRequests \in Nat

VARIABLES
    member,     \* memberships.member_status
    channel,    \* channels: [status, type]
    overwrites, \* permission_overwrites of every channel, and the request they are from
    room,       \* who has a socket in the room of a channel
    notified,   \* notifications with the dedupe key of a channel and user
    job,        \* what every handler is doing
    requests,   \* requests begun
    version,    \* ghost: commits that changed the channel
    announced,  \* ghost: the last of them that was followed by ChannelChanged
    told,       \* ghost: NotificationCreated events of a channel and user
    lost        \* ghost: an audit failed and the events after it were lost

tables == <<member, channel, overwrites, notified>>
ghosts == <<version, announced, told, lost>>
vars == <<tables, room, job, requests, ghosts>>

Idle == [pc |-> "idle", op |-> None, channel |-> None, user |-> None, to |-> None,
         rows |-> {}, gone |-> {}, new |-> {}, keys |-> {}, id |-> 0]

-----------------------------------------------------------------------------
(* Queries: each sees what is committed.                                   *)

(* loadServerContext *)
Context(u) ==
    [owner |-> u = Owner, status |-> member[u], roles |-> RolesOf[u],
     bits |-> UNION {BitsOf[r] : r \in RolesOf[u]}, rank |-> {}]

(* The rows that computeChannelPermissionBits reads.                       *)
Rules(c) ==
    [t \in {row.target : row \in overwrites[c]} |->
        CHOOSE row \in overwrites[c] : row.target = t]

Allowed(u, c, action) == AllowedOnChannel(Context(u), u, channel[c], Rules(c), action)

(* listServerActiveUserIds *)
ServerUsers == {u \in Users : Here(member[u])}

(* listUsersWithChannelPermission, with nobody disabled: one instant, for  *)
(* what is a query per member.                                             *)
UsersWithPermission(c) == {u \in ServerUsers : Allowed(u, c, "ViewChannel")}

(* findActiveChannelForMember *)
ActiveChannelFor(u, c) == channel[c].status = "active" /\ Here(member[u])

(* Faulty variant: the overwrites are replaced before the channel's row is *)
(* written, so nothing makes a second transaction wait.                    *)
NeverLocked(c) == FALSE

InTransaction == {"overwrites", "enqueue", "commit"}

(* The row is locked by the UPDATE that every transaction begins with.     *)
RowLocked(c) == \E h \in Handlers : job[h].pc \in InTransaction /\ job[h].channel = c

Ready(h) == requests < MaxRequests /\ job[h].pc = "idle"

Begin(h, next) ==
    /\ requests' = requests + 1
    /\ job' = [job EXCEPT ![h] = [next EXCEPT !.id = requests + 1]]
    /\ UNCHANGED <<tables, room, ghosts>>

Goto(h, pc) == job' = [job EXCEPT ![h].pc = pc]

End(h) == job' = [job EXCEPT ![h] = Idle]

Init ==
    /\ member = [u \in Users |-> "active"]
    /\ channel = [c \in Channels |-> [status |-> "unused", type |-> "text"]]
    /\ overwrites = [c \in Channels |-> {}]
    /\ room = [c \in Channels |-> {}]
    /\ notified = {}
    /\ job = [h \in Handlers |-> Idle]
    /\ requests = 0
    /\ version = [c \in Channels |-> 0]
    /\ announced = [c \in Channels |-> 0]
    /\ told = [cu \in Channels \X Users |-> 0]
    /\ lost = FALSE

-----------------------------------------------------------------------------
(* normalizePermissionOverwrites refuses two rows for one target.          *)
Normalized(rows) == \A r, s \in rows : r.target = s.target => r = s

(* createChannel: nobody else knows the id before the commit.              *)
StartCreate(h, u, c) ==
    /\ Ready(h)
    /\ channel[c].status = "unused"
    /\ \A g \in Handlers : job[g].channel # c
    /\ AllowedOnServer(Context(u), "ManageChannel")
    /\ \E type \in Types, rows \in OverwriteSets :
          /\ Normalized(rows)
          /\ Begin(h, [Idle EXCEPT !.pc = "overwrites", !.op = "create", !.user = u, !.channel = c,
                                   !.to = type, !.rows = rows])

(* updateChannel: rows is None when the request leaves the overwrites and  *)
(* type is None when it leaves the type as it is. The permission, then the *)
(* current row; then the transaction, which writes every column.           *)
StartUpdate(h, u, c) ==
    /\ Ready(h)
    /\ Allowed(u, c, "ManageChannel")
    /\ \E type \in Types \cup {None}, rows \in OverwriteSets \cup {None} :
          /\ rows # None => Normalized(rows)
          /\ Begin(h, [Idle EXCEPT !.pc = "current", !.op = "update", !.user = u, !.channel = c,
                                   !.to = type, !.rows = rows])

StartDelete(h, u, c) ==
    /\ Ready(h)
    /\ Allowed(u, c, "ManageChannel")
    /\ Begin(h, [Idle EXCEPT !.pc = "current", !.op = "delete", !.user = u, !.channel = c])

(* Faulty variant: a type that is not given is not filled in.              *)
GivenType(c, type) == type

TypeOrCurrent(c, type) == IF type = None THEN channel[c].type ELSE type

(* getActiveChannel *)
ReadCurrent(h) ==
    LET c == job[h].channel
    IN  /\ job[h].pc = "current"
        /\ IF ActiveChannelFor(job[h].user, c)
           THEN job' = [job EXCEPT ![h].pc = "row", ![h].to = TypeOrCurrent(c, @)]
           ELSE End(h)
        /\ UNCHANGED <<tables, room, requests, ghosts>>

(* The UPDATE of the channel's row, which waits for who holds it.          *)
WriteRow(h) ==
    /\ job[h].pc = "row"
    /\ ~RowLocked(job[h].channel)
    /\ Goto(h, CASE job[h].op = "delete" -> "enqueue"
                 [] job[h].op = "update" /\ job[h].rows = None -> "commit"
                 [] OTHER -> "overwrites")
    /\ UNCHANGED <<tables, room, requests, ghosts>>

(* findRoleInServer; findActiveMembership.                                 *)
RoleInServer(t) == t \in DOMAIN BitsOf

ActiveMember(t) == t \in Users /\ Here(member[t])

(* validatePermissionOverwriteTargets                                      *)
ValidTarget(t) == RoleInServer(t) \/ ActiveMember(t)

Stamp(rows, id) ==
    {[target |-> r.target, allow |-> r.allow, deny |-> r.deny, from |-> id] : r \in rows}

(* replacePermissionOverwrites: the rows deleted are those committed.      *)
ReplaceOverwrites(h) ==
    LET j == job[h]
    IN  /\ j.pc = "overwrites"
        /\ IF \A r \in j.rows : ValidTarget(r.target)
           THEN job' = [job EXCEPT
                   ![h].gone = overwrites[j.channel],
                   ![h].new = Stamp(j.rows, j.id),
                   ![h].pc = IF j.op = "create" /\ j.rows = {} THEN "commit" ELSE "enqueue"]
           ELSE End(h)
        /\ UNCHANGED <<tables, room, requests, ghosts>>

(* enqueuePermissionChanged: whoever is denied by what is committed leaves *)
(* the room at once; every user gets a notification, on a connection of    *)
(* its own, unless there is one with that dedupe key already.              *)
DeniedUsers(c) == ServerUsers \ UsersWithPermission(c)

(* Faulty variant: one event per user, whether or not a row was inserted.  *)
AnyKey(keys) == keys

CreatedKeys(keys) == keys \ notified

EnqueuePermissionChanged(h) ==
    LET c == job[h].channel
        keys == {c} \X ServerUsers
    IN  /\ job[h].pc = "enqueue"
        /\ room' = [room EXCEPT ![c] = @ \ DeniedUsers(c)]
        /\ notified' = notified \cup keys
        /\ job' = [job EXCEPT ![h].pc = "commit", ![h].keys = CreatedKeys(keys)]
        /\ UNCHANGED <<member, channel, overwrites, requests, ghosts>>

Written(j) ==
    CASE j.op = "delete" -> [channel[j.channel] EXCEPT !.status = "deleted"]
      [] j.op = "update" -> [channel[j.channel] EXCEPT !.type = j.to]
      [] OTHER -> [status |-> "active", type |-> j.to]

(* Faulty variant: the flush does not wait for the commit.                 *)
CommitAfterFlush(h) ==
    LET j == job[h]
        c == j.channel
    IN  /\ j.pc = "commit"
        /\ channel' = [channel EXCEPT ![c] = Written(j)]
        /\ overwrites' = [overwrites EXCEPT ![c] = (@ \ j.gone) \cup j.new]
        /\ announced' = [announced EXCEPT ![c] = version[c]]
        /\ version' = [version EXCEPT ![c] = @ + 1]
        /\ End(h)
        /\ UNCHANGED <<member, notified, room, requests, told, lost>>

Commit(h) ==
    LET j == job[h]
        c == j.channel
    IN  /\ j.pc = "commit"
        /\ channel' = [channel EXCEPT ![c] = Written(j)]
        /\ overwrites' = [overwrites EXCEPT ![c] = (@ \ j.gone) \cup j.new]
        /\ version' = [version EXCEPT ![c] = @ + 1]
        /\ Goto(h, "audit")
        /\ UNCHANGED <<member, notified, room, requests, announced, told, lost>>

(* An error, or a broken connection: rows are as they were, what was done  *)
(* on other connections stays.                                             *)
Rollback(h) ==
    /\ job[h].pc \in InTransaction
    /\ End(h)
    /\ UNCHANGED <<tables, room, requests, ghosts>>

-----------------------------------------------------------------------------
(* EventCollector.flush: the audits first, and no event once one failed.   *)
FlushAudits(h) ==
    /\ job[h].pc = "audit"
    /\ \/ /\ Goto(h, "publish")
          /\ UNCHANGED lost
       \/ /\ End(h)
          /\ lost' = TRUE
    /\ UNCHANGED <<tables, room, requests, version, announced, told>>

PublishEvents(h) ==
    LET j == job[h]
    IN  /\ j.pc = "publish"
        /\ announced' = [announced EXCEPT ![j.channel] = version[j.channel]]
        /\ told' = [cu \in DOMAIN told |-> told[cu] + IF cu \in j.keys THEN 1 ELSE 0]
        /\ End(h)
        /\ UNCHANGED <<tables, room, requests, version, lost>>

-----------------------------------------------------------------------------
(* handleSubscribe: the check, then the join. handleUnsubscribe.           *)
StartSubscribe(h, u, c) ==
    /\ Ready(h)
    /\ u \notin room[c]
    /\ \A g \in Handlers : ~(job[g].pc = "join" /\ job[g].user = u /\ job[g].channel = c)
    /\ Allowed(u, c, "SubscribeRealtime")
    /\ Begin(h, [Idle EXCEPT !.pc = "join", !.user = u, !.channel = c])

JoinRoom(h) ==
    /\ job[h].pc = "join"
    /\ room' = [room EXCEPT ![job[h].channel] = @ \cup {job[h].user}]
    /\ End(h)
    /\ UNCHANGED <<tables, requests, ghosts>>

Unsubscribe(u, c) ==
    /\ u \in room[c]
    /\ room' = [room EXCEPT ![c] = @ \ {u}]
    /\ UNCHANGED <<tables, job, requests, ghosts>>

(* manageMember, as far as it concerns channels (the hierarchy of roles is *)
(* in Servers): who is removed leaves the rooms before the transaction     *)
(* commits.                                                                *)
StartManageMember(h, u, target, status) ==
    /\ Ready(h)
    /\ AllowedOnServer(Context(u), "ManageMember")
    /\ target \notin {Owner, u}
    /\ member[target] # status
    /\ Begin(h, [Idle EXCEPT !.pc = IF status = "removed" THEN "leave" ELSE "member",
                             !.user = target, !.to = status])

(* forceMemberLeaveServerRooms: the rooms of the active channels that the   *)
(* database lists, of no deleted one.                                      *)
LeaveServerRooms(h) ==
    /\ job[h].pc = "leave"
    /\ room' = [c \in Channels |-> IF channel[c].status = "active"
                                     THEN room[c] \ {job[h].user} ELSE room[c]]
    /\ Goto(h, "member")
    /\ UNCHANGED <<tables, requests, ghosts>>

CommitMember(h) ==
    /\ job[h].pc = "member"
    /\ member' = [member EXCEPT ![job[h].user] = job[h].to]
    /\ End(h)
    /\ UNCHANGED <<channel, overwrites, notified, room, requests, ghosts>>

-----------------------------------------------------------------------------
Start(h) ==
    \/ \E u \in Users, c \in Channels :
          StartCreate(h, u, c) \/ StartUpdate(h, u, c) \/ StartDelete(h, u, c)
          \/ StartSubscribe(h, u, c)
    \/ \E u, target \in Users, status \in {"active", "muted", "removed"} :
          StartManageMember(h, u, target, status)

Continue(h) ==
    \/ ReadCurrent(h)
    \/ WriteRow(h)
    \/ ReplaceOverwrites(h)
    \/ EnqueuePermissionChanged(h)
    \/ Commit(h)
    \/ Rollback(h)
    \/ FlushAudits(h)
    \/ PublishEvents(h)
    \/ JoinRoom(h)
    \/ LeaveServerRooms(h)
    \/ CommitMember(h)

Next ==
    \/ \E h \in Handlers : Start(h) \/ Continue(h)
    \/ \E u \in Users, c \in Channels : Unsubscribe(u, c)

Spec == Init /\ [][Next]_vars

-----------------------------------------------------------------------------
(* A job holds the row of its channel alone, and its rows are well formed. *)
TypeOK ==
    /\ member \in [Users -> {"active", "muted", "removed"}]
    /\ channel \in [Channels -> [status : {"unused", "active", "deleted"},
                                 type : {"text", "voice"}]]
    /\ \A c \in Channels : \A row \in overwrites[c] :
          /\ row.target \in Users \cup DOMAIN BitsOf
          /\ row.allow \cup row.deny \subseteq Bits
          /\ row.from \in 1..requests
    /\ room \in [Channels -> SUBSET Users]
    /\ notified \subseteq Channels \X Users
    /\ DOMAIN job = Handlers
    /\ requests \in 0..MaxRequests
    /\ \A c \in Channels : announced[c] \in 0..version[c]
    /\ lost \in BOOLEAN

(* replacePermissionOverwrites deletes and inserts one by one: requests    *)
(* that overlap never leave a channel with rows of two of them, because    *)
(* each has written the channel's row before.                              *)
OverwritesComeFromOneRequest ==
    \A c \in Channels : \A r, s \in overwrites[c] : r.from = s.from

(* The rules of docs/dev/07-permission-security.md for one bit: a denial   *)
(* of the member decides, then an allowance of the member, then a denial   *)
(* of any role, then an allowance of any role, then the roles' own bits.   *)
Documented(u, c, bit) ==
    LET own == {r \in overwrites[c] : r.target = u}
        roles == {r \in overwrites[c] : r.target \in RolesOf[u]}
    IN  /\ \A r \in own : bit \notin r.deny
        /\ \/ \E r \in own : bit \in r.allow
           \/ /\ \A r \in roles : bit \notin r.deny
              /\ \/ \E r \in roles : bit \in r.allow
                 \/ \E r \in RolesOf[u] : bit \in BitsOf[r]

(* computeChannelPermissionBits gives exactly the documented bits for      *)
(* whatever overwrites requests have put together, but for sending by the  *)
(* muted, which no overwrite can give back.                                *)
AccessIsAsDocumented ==
    \A u \in Users, c \in Channels :
        ChannelBits(Context(u), u, Rules(c)) =
            {bit \in Bits : Documented(u, c, bit)}
                \ (IF member[u] = "muted" THEN {"SendMessage"} ELSE {})

Quiet(c) == \A h \in Handlers : job[h].channel # c

(* A client fetches the channels anew on ChannelChanged. Requests commit   *)
(* and publish in any order, but each publishes after it has committed: as *)
(* long as no audit fails, the last change of a channel is followed by an  *)
(* event. PermissionChanged is published for every such change; the        *)
(* notification beside it has the dedupe key permission:<channel>:<user>,  *)
(* so that at most one NotificationCreated per channel and user is ever    *)
(* published, whoever makes the changes.                                   *)
EventsMatchCommits ==
    /\ \A c \in Channels : Quiet(c) /\ ~lost => announced[c] = version[c]
    /\ \A cu \in DOMAIN told : told[cu] <= IF cu \in notified THEN 1 ELSE 0

(* docs/dev/02-system-architecture.md: after a change of permissions the   *)
(* server removes the connections from the rooms their users may not see.  *)
RoomsFollowPermissions ==
    \A c \in Channels :
        channel[c].status = "active" /\ (\A h \in Handlers : job[h].pc = "idle") =>
            \A u \in room[c] : Allowed(u, c, "ViewChannel")
=============================================================================
