--------------------------- MODULE Conversations ---------------------------
(***************************************************************************)
(* Friend requests, the direct conversations they open, the notifications  *)
(* of both, and the files that messages in conversations carry, as         *)
(* FriendsService, NotificationsService, AttachmentsService, UsersService  *)
(* and MessagesService keep them in rows and in object storage.            *)
(*                                                                         *)
(* A request is a job that decides on what it read and writes later; one   *)
(* that is refused leaves no trace.  Users are numbers because a           *)
(* conversation orders its two participants.                               *)
(***************************************************************************)
EXTENDS Naturals, FiniteSets

CONSTANTS
    Users,       \* their ids, compared as strings in the code
    Friendships, \* rows of friendships
    Attachments, \* rows of attachments
    Messages,    \* direct messages
    Handlers,    \* requests under way at the same time
    MaxRequests, \* bound: requests in a behaviour
    None         \* nothing

ASSUME ConstantsAssumption ==
    /\ Users \subseteq Nat
    /\ IsFiniteSet(Handlers)
    /\ MaxRequests \in Nat
    /\ None \notin Attachments
    /\ None \notin Messages

VARIABLES
    friendship,    \* [status, from, to]
    conversations, \* direct_conversations: pairs of participants
    readStates,    \* read_states of conversations: [user, conversation]
    notifications, \* the dedupe keys of notifications, with their user
    attachment,    \* attachments: [status, owner, purpose]
    object,        \* external: what was last put at the key of an attachment
    message,       \* [status, sender, conversation, attached]
    avatar,        \* users.avatar_attachment_id
    job,           \* what every handler is doing
    requests,      \* requests begun
    granted        \* ghost: who was given a download URL of which attachment

relations == <<friendship, conversations, readStates, notifications>>
files == <<attachment, object, message, avatar>>
vars == <<relations, files, job, requests, granted>>

Idle == [pc |-> "idle", user |-> 0, other |-> 0, id |-> None, status |-> "none",
         conversation |-> <<>>, attached |-> {}]

Init ==
    /\ friendship = [f \in Friendships |-> [status |-> "unused", from |-> 0, to |-> 0]]
    /\ conversations = {}
    /\ readStates = {}
    /\ notifications = {}
    /\ attachment = [x \in Attachments |-> [status |-> "unused", owner |-> 0, purpose |-> "none"]]
    /\ object = [x \in Attachments |-> "none"]
    /\ message = [m \in Messages |->
                    [status |-> "unused", sender |-> 0, conversation |-> <<>>, attached |-> {}]]
    /\ avatar = [u \in Users |-> None]
    /\ job = [h \in Handlers |-> Idle]
    /\ requests = 0
    /\ granted = {}

Begin(h, next) ==
    /\ job[h].pc = "idle"
    /\ requests < MaxRequests
    /\ requests' = requests + 1
    /\ job' = [job EXCEPT ![h] = next]

End(h) == job' = [job EXCEPT ![h] = Idle]

Proceed(h, next) ==
    /\ job' = [job EXCEPT ![h] = next]
    /\ UNCHANGED requests

-----------------------------------------------------------------------------
(* Faulty variant: only requests in the same direction are looked for.     *)
Asked(u, v) ==
    {f \in Friendships : /\ friendship[f].status \in {"pending", "accepted"}
                         /\ friendship[f].from = u /\ friendship[f].to = v}

(* The relations of two users that a request looks for, in both directions.*)
Active(u, v) ==
    {f \in Friendships : /\ friendship[f].status \in {"pending", "accepted"}
                         /\ {friendship[f].from, friendship[f].to} = {u, v}}

(* createNotification: the dedupe key admits one row. Every message and    *)
(* friendship has its own, so nothing is ever refused.                     *)
Notify(user, kind, f) ==
    notifications' = notifications \cup {[user |-> user, key |-> <<kind, f>>]}

(* createFriendRequest: nobody asks himself, and the pair has no relation  *)
(* that is pending or accepted. The insertion comes later, and no index    *)
(* keeps a second one out.                                                 *)
StartAsk(h, u, v) ==
    /\ u # v
    /\ Active(u, v) = {}
    /\ Begin(h, [Idle EXCEPT !.pc = "ask", !.user = u, !.other = v])
    /\ UNCHANGED <<relations, files, granted>>

InsertFriendship(h, f) ==
    /\ job[h].pc = "ask"
    /\ friendship[f].status = "unused"
    /\ friendship' = [friendship EXCEPT ![f] =
           [status |-> "pending", from |-> job[h].user, to |-> job[h].other]]
    /\ Notify(job[h].other, "request", f)
    /\ End(h)
    /\ UNCHANGED <<conversations, readStates, files, requests, granted>>

(* Faulty variant: the row is read without FOR UPDATE.                     *)
NeverLocked(f) == FALSE

(* getFriendshipForUpdate: the row is locked until the job commits.        *)
FriendshipLocked(f) == \E h \in Handlers : job[h].pc = "decide" /\ job[h].id = f

(* acceptFriendRequest, rejectFriendRequest: the addressee handles a       *)
(* request that is pending.                                                *)
StartHandle(h, f, status) ==
    /\ friendship[f].status = "pending"
    /\ ~FriendshipLocked(f)
    /\ Begin(h, [Idle EXCEPT !.pc = "decide", !.user = friendship[f].to, !.id = f,
                             !.status = status])
    /\ UNCHANGED <<relations, files, granted>>

(* Faulty variant: the participants are kept as they come.                 *)
GivenPair(u, v) == <<u, v>>

OrderedPair(u, v) == IF u < v THEN <<u, v>> ELSE <<v, u>>

(* createOrReuseDirectConversation *)
OpenConversation(u, v) ==
    LET c == OrderedPair(u, v)
    IN  /\ conversations' = conversations \cup {c}
        /\ readStates' = readStates \cup {[user |-> u, conversation |-> c],
                                          [user |-> v, conversation |-> c]}

(* updateFriendRequestStatus, from the update to the commit.               *)
Decide(h) ==
    LET f == job[h].id
    IN  /\ job[h].pc = "decide"
        /\ friendship' = [friendship EXCEPT ![f].status = job[h].status]
        /\ IF job[h].status = "accepted"
           THEN /\ OpenConversation(friendship[f].from, friendship[f].to)
                /\ Notify(friendship[f].from, "accepted", f)
           ELSE UNCHANGED <<conversations, readStates, notifications>>
        /\ End(h)
        /\ UNCHANGED <<files, requests, granted>>

-----------------------------------------------------------------------------
(* initAttachment: one statement. The URL that is returned lets its owner  *)
(* put anything at the key, once or more, for as long as it is valid.      *)
InitAttachment(u, x, purpose) ==
    /\ attachment[x].status = "unused"
    /\ attachment' = [attachment EXCEPT ![x] =
           [status |-> "pending", owner |-> u, purpose |-> purpose]]
    /\ UNCHANGED <<relations, object, message, avatar, job, requests, granted>>

(* External: size and type are those that were announced, or are not. What *)
(* is put later, while the URL is still valid, no request reads.           *)
PutObject(x, content) ==
    /\ attachment[x].status = "pending"
    /\ object[x] # content
    /\ object' = [object EXCEPT ![x] = content]
    /\ UNCHANGED <<relations, attachment, message, avatar, job, requests, granted>>

(* completeAttachment: getOwnedAttachment, headObject, the update.         *)
StartComplete(h, x) ==
    /\ attachment[x].status = "pending"
    /\ Begin(h, [Idle EXCEPT !.pc = "head", !.user = attachment[x].owner, !.id = x])
    /\ UNCHANGED <<relations, files, granted>>

HeadObject(h) ==
    /\ job[h].pc = "head"
    /\ Proceed(h, IF object[job[h].id] = "right" THEN [job[h] EXCEPT !.pc = "complete"]
                  ELSE Idle)
    /\ UNCHANGED <<relations, files, granted>>

CompleteAttachment(h) ==
    /\ job[h].pc = "complete"
    /\ attachment' = [attachment EXCEPT ![job[h].id].status = "ready"]
    /\ End(h)
    /\ UNCHANGED <<relations, object, message, avatar, requests, granted>>

Ready(u, x, purpose) == attachment[x] = [status |-> "ready", owner |-> u, purpose |-> purpose]

-----------------------------------------------------------------------------
Participants(c) == {c[1], c[2]}

(* Faulty variant: whose file it is does not matter.                       *)
AnybodysFiles(u) == {x \in Attachments : attachment[x].status = "ready"}

(* assertReadyMessageAttachments *)
Attachable(u) == {x \in Attachments : Ready(u, x, "message")}

(* sendDirectMessage: the checks, and the insertions that become visible   *)
(* with the commit. ReadStates has the rest of it.                         *)
StartSend(h, u, c, attached) ==
    /\ u \in Participants(c)
    /\ attached \subseteq Attachable(u)
    /\ Begin(h, [Idle EXCEPT !.pc = "send", !.user = u, !.conversation = c,
                             !.attached = attached])
    /\ UNCHANGED <<relations, files, granted>>

CommitSend(h, m) ==
    /\ job[h].pc = "send"
    /\ message[m].status = "unused"
    /\ message' = [message EXCEPT ![m] =
           [status |-> "visible", sender |-> job[h].user,
            conversation |-> job[h].conversation, attached |-> job[h].attached]]
    /\ End(h)
    /\ UNCHANGED <<relations, attachment, object, avatar, requests, granted>>

(* deleteMessage: in a conversation the sender alone retracts. The second  *)
(* of two retractions finds no visible row to update.                      *)
StartRetract(h, m) ==
    /\ message[m].status = "visible"
    /\ Begin(h, [Idle EXCEPT !.pc = "retract", !.user = message[m].sender, !.id = m])
    /\ UNCHANGED <<relations, files, granted>>

CommitRetract(h) ==
    /\ job[h].pc = "retract"
    /\ message' = [message EXCEPT ![job[h].id].status = "retracted"]
    /\ End(h)
    /\ UNCHANGED <<relations, attachment, object, avatar, requests, granted>>

-----------------------------------------------------------------------------
(* getAttachmentAccess. A file belongs to one of the messages it was ever  *)
(* sent with, whichever the database returns first.                        *)
StartAccess(h, u, x) ==
    /\ attachment[x].status = "ready"
    /\ Begin(h, [Idle EXCEPT !.pc = "context", !.user = u, !.id = x])
    /\ UNCHANGED <<relations, files, granted>>

(* getMessageAttachmentContext: LIMIT 1 and no order.                      *)
Contexts(x) == {m \in Messages : x \in message[m].attached}

Grant(u, x) == granted' = granted \cup {[user |-> u, attachment |-> x]}

(* Faulty variant: a file that was sent with no message is anybody's.      *)
AnybodyReads(u, x) == TRUE

(* Without a message only the owner reads.                                 *)
OwnerReads(u, x) == attachment[x].owner = u

ReadContext(h, m) ==
    LET x == job[h].id
    IN  /\ job[h].pc = "context"
        /\ m \in Contexts(x)
        /\ Proceed(h, IF message[m].status = "visible"
                      THEN [job[h] EXCEPT !.pc = "permission",
                                          !.conversation = message[m].conversation]
                      ELSE Idle)
        /\ UNCHANGED <<relations, files, granted>>

ReadUnattached(h) ==
    LET u == job[h].user
        x == job[h].id
    IN  /\ job[h].pc = "context"
        /\ Contexts(x) = {}
        /\ IF OwnerReads(u, x) THEN Grant(u, x) ELSE UNCHANGED granted
        /\ End(h)
        /\ UNCHANGED <<relations, files, requests>>

(* checkDirectConversationParticipant *)
CheckParticipant(h) ==
    /\ job[h].pc = "permission"
    /\ IF job[h].user \in Participants(job[h].conversation)
       THEN Grant(job[h].user, job[h].id)
       ELSE UNCHANGED granted
    /\ End(h)
    /\ UNCHANGED <<relations, files, requests>>

-----------------------------------------------------------------------------
(* updateProfile reads the row, checks the avatar the request names, if it *)
(* names one, and writes every column: what the request left out, as it    *)
(* was read.                                                               *)
StartProfile(h, u, x) ==
    /\ Ready(u, x, "avatar")
    /\ Begin(h, [Idle EXCEPT !.pc = "profile", !.user = u, !.id = x])
    /\ UNCHANGED <<relations, files, granted>>

StartOtherProfile(h, u) ==
    /\ Begin(h, [Idle EXCEPT !.pc = "profile", !.user = u, !.id = avatar[u]])
    /\ UNCHANGED <<relations, files, granted>>

StartClearAvatar(h, u) ==
    /\ Begin(h, [Idle EXCEPT !.pc = "profile", !.user = u])
    /\ UNCHANGED <<relations, files, granted>>

WriteProfile(h) ==
    /\ job[h].pc = "profile"
    /\ avatar' = [avatar EXCEPT ![job[h].user] = job[h].id]
    /\ End(h)
    /\ UNCHANGED <<relations, attachment, object, message, requests, granted>>

-----------------------------------------------------------------------------
StartRequest(h) ==
    \/ \E u, v \in Users : StartAsk(h, u, v)
    \/ \E f \in Friendships, status \in {"accepted", "rejected"} : StartHandle(h, f, status)
    \/ \E x \in Attachments : StartComplete(h, x)
    \/ \E u \in Users, c \in conversations, attached \in SUBSET Attachments :
          StartSend(h, u, c, attached)
    \/ \E m \in Messages : StartRetract(h, m)
    \/ \E u \in Users, x \in Attachments : StartAccess(h, u, x) \/ StartProfile(h, u, x)
    \/ \E u \in Users : StartOtherProfile(h, u) \/ StartClearAvatar(h, u)

Continue(h) ==
    \/ \E f \in Friendships : InsertFriendship(h, f)
    \/ Decide(h)
    \/ HeadObject(h)
    \/ CompleteAttachment(h)
    \/ \E m \in Messages : CommitSend(h, m) \/ ReadContext(h, m)
    \/ CommitRetract(h)
    \/ ReadUnattached(h)
    \/ CheckParticipant(h)
    \/ WriteProfile(h)

Next ==
    \/ \E h \in Handlers : StartRequest(h) \/ Continue(h)
    \/ \E u \in Users, x \in Attachments, purpose \in {"message", "avatar"} :
          InitAttachment(u, x, purpose)
    \/ \E x \in Attachments, content \in {"right", "wrong"} : PutObject(x, content)

Spec == Init /\ [][Next]_vars
-----------------------------------------------------------------------------
Conversation == {OrderedPair(u, v) : u, v \in Users}

(* Rows name what they must.                                               *)
TypeOK ==
    /\ friendship \in [Friendships ->
           [status : {"unused", "pending", "accepted", "rejected"},
            from : Users \cup {0}, to : Users \cup {0}]]
    /\ conversations \subseteq Conversation
    /\ readStates \subseteq [user : Users, conversation : conversations]
    /\ notifications \subseteq
           [user : Users, key : {"request", "accepted"} \X Friendships]
    /\ attachment \in [Attachments ->
           [status : {"unused", "pending", "ready"}, owner : Users \cup {0},
            purpose : {"none", "message", "avatar"}]]
    /\ object \in [Attachments -> {"none", "right", "wrong"}]
    /\ DOMAIN message = Messages
    /\ \A m \in Messages :
          message[m].status # "unused" =>
              /\ message[m].conversation \in conversations
              /\ message[m].sender \in Participants(message[m].conversation)
              /\ \A x \in message[m].attached : Ready(message[m].sender, x, "message")
    /\ \A u \in Users : avatar[u] # None => Ready(u, avatar[u], "avatar")
    /\ DOMAIN job = Handlers
    /\ requests \in 0..MaxRequests
    /\ granted \subseteq [user : Users, attachment : Attachments]

(* getFriendshipSummary: the conversation of two friends is found by the   *)
(* lesser and the greater of their ids.                                    *)
FriendshipSummary(f) ==
    LET ids == {friendship[f].from, friendship[f].to}
    IN  {c \in conversations : Participants(c) = ids /\ c[1] < c[2]}

(* listFriends: the relations of a user, each with its conversation.       *)
ListFriends(u) ==
    LET mine == {f \in Friendships : /\ friendship[f].status # "unused"
                                     /\ u \in {friendship[f].from, friendship[f].to}}
    IN  [f \in mine |-> FriendshipSummary(f)]

(* listDirectConversations: those of a user with another.                  *)
DirectConversations(u, v) == {c \in conversations : {u, v} = Participants(c)}

(* Two friends share one conversation, however many of their requests were *)
(* accepted and in whichever direction: the one that both find in the list *)
(* of friends is the only one in their lists of conversations, and each    *)
(* has a position to read from in it.                                      *)
FriendsShareOneConversation ==
    \A f \in Friendships : friendship[f].status = "accepted" =>
        \E c \in conversations :
            /\ DirectConversations(friendship[f].from, friendship[f].to) = {c}
            /\ \A u \in {friendship[f].from, friendship[f].to} :
                  /\ ListFriends(u)[f] = {c}
                  /\ [user |-> u, conversation |-> c] \in readStates

(* A friend request is decided once: of two answers that overlap the later *)
(* is refused, and a decision stands.                                      *)
DecidedOnce ==
    [][\A f \in Friendships : friendship[f].status \in {"accepted", "rejected"} =>
           friendship'[f].status = friendship[f].status]_vars

(* docs/dev/04-data-model.md allows a pair one relation that is pending or *)
(* accepted. Requests that cross get past the look-up together: what the   *)
(* code does guarantee is no more relations than requests run at once.     *)
FewActiveRelations ==
    \A u, v \in Users : u # v =>
        Cardinality({f \in Friendships :
                        /\ friendship[f].status \in {"pending", "accepted"}
                        /\ {friendship[f].from, friendship[f].to} = {u, v}})
            <= Cardinality(Handlers)

(* A download URL goes to the owner of a file, or to a participant of a    *)
(* conversation in which the file was sent.                                *)
FilesStayInConversations ==
    \A g \in granted :
        \/ attachment[g.attachment].owner = g.user
        \/ \E m \in Contexts(g.attachment) : g.user \in Participants(message[m].conversation)
=============================================================================
