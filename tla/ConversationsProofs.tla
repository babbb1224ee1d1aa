----------------------- MODULE ConversationsProofs -----------------------
(***************************************************************************)
(* Theorems about Conversations for any users, rows and requests: friend   *)
(* requests are decided once, the friends they make share one              *)
(* conversation, and files stay with their owner and in the conversations  *)
(* they were sent in.                                                      *)
(***************************************************************************)
EXTENDS Conversations, FiniteSetTheorems, TLAPS

Steps == {"idle", "ask", "decide", "head", "complete", "send", "retract",
          "context", "permission", "profile"}

Jobs == [pc : Steps, user : Users \cup {0}, other : Users \cup {0},
         id : Friendships \cup Attachments \cup Messages \cup {None},
         status : {"none", "accepted", "rejected"},
         conversation : Conversation \cup {<<>>}, attached : SUBSET Attachments]

(* What a job that goes on relies on: what it checked when it began is     *)
(* still so, for a row is locked or only moves on.                         *)
Sound(j) ==
    /\ j.pc = "ask" => j.user \in Users /\ j.other \in Users /\ j.user # j.other
    /\ j.pc = "decide" =>
          /\ j.id \in Friendships
          /\ friendship[j.id].status = "pending"
          /\ j.status \in {"accepted", "rejected"}
    /\ j.pc \in {"head", "complete", "context", "permission"} =>
          j.id \in Attachments /\ attachment[j.id].status # "unused"
    /\ j.pc = "send" =>
          /\ j.conversation \in conversations
          /\ j.user \in Participants(j.conversation)
          /\ \A x \in j.attached : Ready(j.user, x, "message")
    /\ j.pc = "retract" => j.id \in Messages /\ message[j.id].status # "unused"
    /\ j.pc \in {"context", "permission", "profile"} => j.user \in Users
    /\ j.pc = "permission" =>
          \E m \in Contexts(j.id) : message[m].conversation = j.conversation
    /\ j.pc = "profile" /\ j.id # None =>
          j.id \in Attachments /\ Ready(j.user, j.id, "avatar")

JobInv == \A h \in Handlers : job[h] \in Jobs /\ Sound(job[h])

(* FOR UPDATE: nobody else decides on the row.                             *)
LockInv ==
    \A h, k \in Handlers :
        job[h].pc = "decide" /\ job[k].pc = "decide" /\ job[h].id = job[k].id => h = k

FriendshipInv ==
    \A f \in Friendships :
        LET u == friendship[f].from
            v == friendship[f].to
            c == OrderedPair(u, v)
        IN  /\ friendship[f].status # "unused" => u \in Users /\ v \in Users /\ u # v
            /\ friendship[f].status = "accepted" =>
                  /\ c \in conversations
                  /\ [user |-> u, conversation |-> c] \in readStates
                  /\ [user |-> v, conversation |-> c] \in readStates

MessageInv ==
    /\ message \in [Messages ->
           [status : {"unused", "visible", "retracted"}, sender : Users \cup {0},
            conversation : Conversation \cup {<<>>}, attached : SUBSET Attachments]]
    /\ \A m \in Messages : message[m].status = "unused" => message[m].attached = {}

AvatarInv == avatar \in [Users -> Attachments \cup {None}]

GrantedInv ==
    \A g \in granted :
        /\ g.attachment \in Attachments
        /\ attachment[g.attachment].status # "unused"
        /\ \/ attachment[g.attachment].owner = g.user
           \/ \E m \in Contexts(g.attachment) :
                 g.user \in Participants(message[m].conversation)

(* The requests that have found no relation of a pair and are about to     *)
(* insert one count with the relations of the pair.                        *)
Asking(u, v) ==
    {h \in Handlers : job[h].pc = "ask" /\ {job[h].user, job[h].other} = {u, v}}

CountInv ==
    \A u, v \in Users : u # v =>
        /\ IsFiniteSet(Active(u, v))
        /\ Cardinality(Active(u, v)) + Cardinality(Asking(u, v)) <= Cardinality(Handlers)

IInv ==
    /\ TypeOK
    /\ JobInv
    /\ LockInv
    /\ FriendshipInv
    /\ MessageInv
    /\ AvatarInv
    /\ GrantedInv
    /\ CountInv

(* A step gives one handler a job that is sound; one that is not over has  *)
(* written nothing yet.                                                    *)
Moves(h, next) ==
    /\ job' = [job EXCEPT ![h] = next]
    /\ next \in Jobs
    /\ Sound(next)
    /\ next.pc = "decide" => ~FriendshipLocked(next.id)
    /\ next.pc = "ask" => Active(next.user, next.other) = {}
    /\ next.pc = "idle" \/ UNCHANGED <<relations, files, granted>>

-----------------------------------------------------------------------------
LEMMA IdleMoves == Idle \in Jobs /\ Sound(Idle) /\ Idle.pc = "idle"
BY DEF Idle, Jobs, Sound, Steps

LEMMA EndMoves ==
  ASSUME NEW h \in Handlers, End(h)
  PROVE  Moves(h, Idle)
BY IdleMoves DEF End, Moves

LEMMA PairInConversation ==
  ASSUME NEW u \in Users, NEW v \in Users
  PROVE  OrderedPair(u, v) \in Conversation
BY DEF Conversation

LEMMA ConversationIsPair ==
  ASSUME NEW c \in Conversation
  PROVE  \E u, v \in Users : c = OrderedPair(u, v)
BY DEF Conversation

-----------------------------------------------------------------------------
LEMMA JobTypes ==
  ASSUME IInv, NEW h \in Handlers
  PROVE  job[h] \in Jobs /\ Sound(job[h])
BY DEF IInv, JobInv

LEMMA AskMoves ==
  ASSUME IInv, NEW h \in Handlers, NEW u \in Users, NEW v \in Users, StartAsk(h, u, v)
  PROVE  \E next \in Jobs : Moves(h, next)
<1>. DEFINE next == [Idle EXCEPT !.pc = "ask", !.user = u, !.other = v]
<1>1. next \in Jobs
  BY DEF Idle, Jobs, Steps
<1>2. next.pc = "ask" /\ next.user = u /\ next.other = v
  BY DEF Idle
<1>3. Sound(next)
  BY <1>2 DEF Sound, StartAsk
<1>. HIDE DEF next
<1>4. job' = [job EXCEPT ![h] = next]
  BY DEF next, StartAsk, Begin
<1>. QED
  BY <1>1, <1>2, <1>3, <1>4 DEF StartAsk, Moves

LEMMA HandleMoves ==
  ASSUME IInv, NEW h \in Handlers, NEW f \in Friendships,
         NEW status \in {"accepted", "rejected"}, StartHandle(h, f, status)
  PROVE  \E next \in Jobs : Moves(h, next)
<1>. DEFINE next == [Idle EXCEPT !.pc = "decide", !.user = friendship[f].to, !.id = f,
                                 !.status = status]
<1>1. friendship[f].to \in Users \cup {0}
  BY DEF IInv, TypeOK
<1>2. next \in Jobs
  BY <1>1 DEF Idle, Jobs, Steps
<1>3. next.pc = "decide" /\ next.id = f /\ next.status = status
  BY DEF Idle
<1>4. Sound(next)
  BY <1>3 DEF Sound, StartHandle
<1>. HIDE DEF next
<1>5. job' = [job EXCEPT ![h] = next]
  BY DEF next, StartHandle, Begin
<1>. QED
  BY <1>2, <1>3, <1>4, <1>5 DEF StartHandle, Moves

LEMMA CompleteMoves ==
  ASSUME IInv, NEW h \in Handlers
  PROVE  /\ \A x \in Attachments : StartComplete(h, x) => \E next \in Jobs : Moves(h, next)
         /\ HeadObject(h) => \E next \in Jobs : Moves(h, next)
<1>1. ASSUME NEW x \in Attachments, StartComplete(h, x)
      PROVE  \E next \in Jobs : Moves(h, next)
  <2>. DEFINE next == [Idle EXCEPT !.pc = "head", !.user = attachment[x].owner, !.id = x]
  <2>1. attachment[x].owner \in Users \cup {0}
    BY DEF IInv, TypeOK
  <2>2. next \in Jobs
    BY <2>1 DEF Idle, Jobs, Steps
  <2>3. next.pc = "head" /\ next.id = x
    BY DEF Idle
  <2>4. Sound(next)
    BY <1>1, <2>3 DEF Sound, StartComplete
  <2>. HIDE DEF next
  <2>5. job' = [job EXCEPT ![h] = next]
    BY <1>1 DEF next, StartComplete, Begin
  <2>. QED
    BY <1>1, <2>2, <2>3, <2>4, <2>5 DEF StartComplete, Moves
<1>2. ASSUME HeadObject(h)
      PROVE  \E next \in Jobs : Moves(h, next)
  <2>. DEFINE next == [job[h] EXCEPT !.pc = "complete"]
  <2>1. next \in Jobs /\ next.pc = "complete" /\ next.id = job[h].id
    BY JobTypes DEF Jobs, Steps
  <2>2. Sound(next)
    BY <1>2, <2>1, JobTypes DEF Sound, HeadObject
  <2>. HIDE DEF next
  <2>3. CASE object[job[h].id] = "right"
    <3>1. job' = [job EXCEPT ![h] = next]
      BY <1>2, <2>3 DEF next, HeadObject, Proceed
    <3>. QED
      BY <1>2, <2>1, <2>2, <3>1 DEF HeadObject, Moves
  <2>4. CASE object[job[h].id] # "right"
    BY <1>2, <2>4, IdleMoves DEF HeadObject, Proceed, Moves
  <2>. QED
    BY <2>3, <2>4
<1>. QED
  BY <1>1, <1>2

LEMMA MessageMoves ==
  ASSUME IInv, NEW h \in Handlers
  PROVE  /\ \A u \in Users, c \in conversations, attached \in SUBSET Attachments :
               StartSend(h, u, c, attached) => \E next \in Jobs : Moves(h, next)
         /\ \A m \in Messages : StartRetract(h, m) => \E next \in Jobs : Moves(h, next)
<1>1. ASSUME NEW u \in Users, NEW c \in conversations, NEW attached \in SUBSET Attachments,
             StartSend(h, u, c, attached)
      PROVE  \E next \in Jobs : Moves(h, next)
  <2>. DEFINE next == [Idle EXCEPT !.pc = "send", !.user = u, !.conversation = c,
                                   !.attached = attached]
  <2>1. c \in Conversation
    BY DEF IInv, TypeOK
  <2>2. next \in Jobs
    BY <2>1 DEF Idle, Jobs, Steps
  <2>3. next.pc = "send" /\ next.user = u /\ next.conversation = c /\ next.attached = attached
    BY DEF Idle
  <2>4. \A x \in attached : Ready(u, x, "message")
    BY <1>1 DEF StartSend, Attachable
  <2>5. u \in Participants(c)
    BY <1>1 DEF StartSend
  <2>. HIDE DEF next
  <2>6. Sound(next)
    BY <2>3, <2>4, <2>5 DEF Sound
  <2>7. job' = [job EXCEPT ![h] = next]
    BY <1>1 DEF next, StartSend, Begin
  <2>. QED
    BY <1>1, <2>2, <2>3, <2>6, <2>7 DEF StartSend, Moves
<1>2. ASSUME NEW m \in Messages, StartRetract(h, m)
      PROVE  \E next \in Jobs : Moves(h, next)
  <2>. DEFINE next == [Idle EXCEPT !.pc = "retract", !.user = message[m].sender, !.id = m]
  <2>1. message[m].sender \in Users \cup {0}
    BY DEF IInv, MessageInv
  <2>2. next \in Jobs
    BY <2>1 DEF Idle, Jobs, Steps
  <2>3. next.pc = "retract" /\ next.id = m
    BY DEF Idle
  <2>4. Sound(next)
    BY <1>2, <2>3 DEF Sound, StartRetract
  <2>. HIDE DEF next
  <2>5. job' = [job EXCEPT ![h] = next]
    BY <1>2 DEF next, StartRetract, Begin
  <2>. QED
    BY <1>2, <2>2, <2>3, <2>4, <2>5 DEF StartRetract, Moves
<1>. QED
  BY <1>1, <1>2

LEMMA AccessMoves ==
  ASSUME IInv, NEW h \in Handlers
  PROVE  /\ \A u \in Users, x \in Attachments :
               StartAccess(h, u, x) => \E next \in Jobs : Moves(h, next)
         /\ \A m \in Messages : ReadContext(h, m) => \E next \in Jobs : Moves(h, next)
<1>1. ASSUME NEW u \in Users, NEW x \in Attachments, StartAccess(h, u, x)
      PROVE  \E next \in Jobs : Moves(h, next)
  <2>. DEFINE next == [Idle EXCEPT !.pc = "context", !.user = u, !.id = x]
  <2>1. next \in Jobs
    BY DEF Idle, Jobs, Steps
  <2>2. next.pc = "context" /\ next.user = u /\ next.id = x
    BY DEF Idle
  <2>3. Sound(next)
    BY <1>1, <2>2 DEF Sound, StartAccess
  <2>. HIDE DEF next
  <2>4. job' = [job EXCEPT ![h] = next]
    BY <1>1 DEF next, StartAccess, Begin
  <2>. QED
    BY <1>1, <2>1, <2>2, <2>3, <2>4 DEF StartAccess, Moves
<1>2. ASSUME NEW m \in Messages, ReadContext(h, m)
      PROVE  \E next \in Jobs : Moves(h, next)
  <2>. DEFINE next == [job[h] EXCEPT !.pc = "permission",
                                     !.conversation = message[m].conversation]
  <2>1. message[m].conversation \in Conversation \cup {<<>>}
    BY DEF IInv, MessageInv
  <2>2. next \in Jobs
    BY <2>1, JobTypes DEF Jobs, Steps
  <2>3. /\ next.pc = "permission" /\ next.id = job[h].id /\ next.user = job[h].user
        /\ next.conversation = message[m].conversation
    BY JobTypes DEF Jobs
  <2>4. m \in Contexts(job[h].id)
    BY <1>2 DEF ReadContext
  <2>. HIDE DEF next
  <2>5. Sound(next)
    BY <1>2, <2>3, <2>4, JobTypes DEF Sound, ReadContext
  <2>6. CASE message[m].status = "visible"
    <3>1. job' = [job EXCEPT ![h] = next]
      BY <1>2, <2>6 DEF next, ReadContext, Proceed
    <3>. QED
      BY <1>2, <2>2, <2>3, <2>5, <3>1 DEF ReadContext, Moves
  <2>7. CASE message[m].status # "visible"
    BY <1>2, <2>7, IdleMoves DEF ReadContext, Proceed, Moves
  <2>. QED
    BY <2>6, <2>7
<1>. QED
  BY <1>1, <1>2

LEMMA ProfileMoves ==
  ASSUME IInv, NEW h \in Handlers
  PROVE  /\ \A u \in Users, x \in Attachments :
               StartProfile(h, u, x) => \E next \in Jobs : Moves(h, next)
         /\ \A u \in Users : StartOtherProfile(h, u) => \E next \in Jobs : Moves(h, next)
         /\ \A u \in Users : StartClearAvatar(h, u) => \E next \in Jobs : Moves(h, next)
<1>. DEFINE Named(u, id) == [Idle EXCEPT !.pc = "profile", !.user = u, !.id = id]
<1>1. ASSUME NEW next \in Jobs, next.pc = "profile", next.user \in Users,
             next.id # None =>
                 next.id \in Attachments /\ Ready(next.user, next.id, "avatar"),
             Begin(h, next), UNCHANGED <<relations, files, granted>>
      PROVE  \E n \in Jobs : Moves(h, n)
  <2>1. Sound(next)
    BY <1>1 DEF Sound
  <2>. QED
    BY <1>1, <2>1 DEF Begin, Moves
<1>2. ASSUME NEW u \in Users, NEW x \in Attachments \cup {None}
      PROVE  /\ Named(u, x) \in Jobs
             /\ Named(u, x).pc = "profile" /\ Named(u, x).user = u /\ Named(u, x).id = x
  BY DEF Idle, Jobs, Steps
<1>3. ASSUME NEW u \in Users, NEW x \in Attachments, StartProfile(h, u, x)
      PROVE  \E next \in Jobs : Moves(h, next)
  <2>1. Begin(h, Named(u, x)) /\ Ready(u, x, "avatar") /\ UNCHANGED <<relations, files, granted>>
    BY <1>3 DEF StartProfile
  <2>. HIDE DEF Named
  <2>. QED
    BY <1>1, <1>2, <2>1
<1>4. ASSUME NEW u \in Users, StartOtherProfile(h, u)
      PROVE  \E next \in Jobs : Moves(h, next)
  <2>1. Begin(h, Named(u, avatar[u])) /\ UNCHANGED <<relations, files, granted>>
    BY <1>4 DEF StartOtherProfile
  <2>2. avatar[u] # None => Ready(u, avatar[u], "avatar")
    BY DEF IInv, TypeOK
  <2>3. avatar[u] \in Attachments \cup {None}
    BY DEF IInv, AvatarInv
  <2>. HIDE DEF Named
  <2>. QED
    BY <1>1, <1>2, <2>1, <2>2, <2>3
<1>5. ASSUME NEW u \in Users, StartClearAvatar(h, u)
      PROVE  \E next \in Jobs : Moves(h, next)
  <2>. DEFINE next == [Idle EXCEPT !.pc = "profile", !.user = u]
  <2>1. next \in Jobs /\ next.pc = "profile" /\ next.user = u /\ next.id = None
    BY DEF Idle, Jobs, Steps
  <2>2. Begin(h, next) /\ UNCHANGED <<relations, files, granted>>
    BY <1>5 DEF StartClearAvatar
  <2>. HIDE DEF next
  <2>. QED
    BY <1>1, <2>1, <2>2
<1>. QED
  BY <1>3, <1>4, <1>5

LEMMA StartMoves ==
  ASSUME IInv, NEW h \in Handlers, StartRequest(h)
  PROVE  \E next \in Jobs : Moves(h, next)
BY AskMoves, HandleMoves, CompleteMoves, MessageMoves, AccessMoves, ProfileMoves
DEF StartRequest

LEMMA ContinueMoves ==
  ASSUME IInv, NEW h \in Handlers, Continue(h)
  PROVE  \E next \in Jobs : Moves(h, next)
<1>1. ASSUME End(h)
      PROVE  \E next \in Jobs : Moves(h, next)
  BY <1>1, EndMoves, IdleMoves
<1>2. CASE \E f \in Friendships : InsertFriendship(h, f)
  BY <1>1, <1>2 DEF InsertFriendship
<1>3. CASE Decide(h)
  BY <1>1, <1>3 DEF Decide
<1>4. CASE HeadObject(h)
  BY <1>4, CompleteMoves
<1>5. CASE CompleteAttachment(h)
  BY <1>1, <1>5 DEF CompleteAttachment
<1>6. CASE \E m \in Messages : CommitSend(h, m)
  BY <1>1, <1>6 DEF CommitSend
<1>7. CASE \E m \in Messages : ReadContext(h, m)
  BY <1>7, AccessMoves
<1>8. CASE CommitRetract(h)
  BY <1>1, <1>8 DEF CommitRetract
<1>9. CASE ReadUnattached(h)
  BY <1>1, <1>9 DEF ReadUnattached
<1>10. CASE CheckParticipant(h)
  BY <1>1, <1>10 DEF CheckParticipant
<1>11. CASE WriteProfile(h)
  BY <1>1, <1>11 DEF WriteProfile
<1>. QED
  BY <1>2, <1>3, <1>4, <1>5, <1>6, <1>7, <1>8, <1>9, <1>10, <1>11 DEF Continue

(* External steps and stuttering leave the jobs alone.                     *)
LEMMA StepMoves ==
  ASSUME IInv, [Next]_vars
  PROVE  UNCHANGED job \/ \E h \in Handlers : \E next \in Jobs : Moves(h, next)
<1>1. CASE \E h \in Handlers : StartRequest(h) \/ Continue(h)
  BY <1>1, StartMoves, ContinueMoves
<1>2. CASE \E u \in Users, x \in Attachments, purpose \in {"message", "avatar"} :
              InitAttachment(u, x, purpose)
  BY <1>2 DEF InitAttachment
<1>3. CASE \E x \in Attachments, content \in {"right", "wrong"} : PutObject(x, content)
  BY <1>3 DEF PutObject
<1>4. CASE UNCHANGED vars
  BY <1>4 DEF vars
<1>. QED
  BY <1>1, <1>2, <1>3, <1>4 DEF Next

-----------------------------------------------------------------------------
(* Which steps write which table.                                          *)
LEMMA RelationWriters ==
  ASSUME [Next]_vars
  PROVE  \/ UNCHANGED relations
         \/ \E h \in Handlers, f \in Friendships : InsertFriendship(h, f)
         \/ \E h \in Handlers : Decide(h)
<1>1. ASSUME NEW h \in Handlers, StartRequest(h)
      PROVE  UNCHANGED relations
  BY <1>1 DEF StartRequest, StartAsk, StartHandle, StartComplete, StartSend, StartRetract,
     StartAccess, StartProfile, StartOtherProfile, StartClearAvatar
<1>2. ASSUME NEW h \in Handlers, Continue(h)
      PROVE  \/ UNCHANGED relations
             \/ \E f \in Friendships : InsertFriendship(h, f)
             \/ Decide(h)
  BY <1>2 DEF Continue, HeadObject, CompleteAttachment, CommitSend, ReadContext,
     CommitRetract, ReadUnattached, CheckParticipant, WriteProfile
<1>. QED
  BY <1>1, <1>2 DEF Next, InitAttachment, PutObject, vars

LEMMA FileWriters ==
  ASSUME [Next]_vars
  PROVE  /\ \/ UNCHANGED attachment
            \/ \E u \in Users, x \in Attachments, purpose \in {"message", "avatar"} :
                  InitAttachment(u, x, purpose)
            \/ \E h \in Handlers : CompleteAttachment(h)
         /\ \/ UNCHANGED message
            \/ \E h \in Handlers, m \in Messages : CommitSend(h, m)
            \/ \E h \in Handlers : CommitRetract(h)
         /\ \/ UNCHANGED avatar
            \/ \E h \in Handlers : WriteProfile(h)
         /\ \/ UNCHANGED object
            \/ \E x \in Attachments, content \in {"right", "wrong"} : PutObject(x, content)
         /\ \/ UNCHANGED granted
            \/ \E h \in Handlers : ReadUnattached(h) \/ CheckParticipant(h)
<1>1. ASSUME NEW h \in Handlers, StartRequest(h)
      PROVE  UNCHANGED <<attachment, message, avatar, object, granted>>
  BY <1>1 DEF StartRequest, StartAsk, StartHandle, StartComplete, StartSend, StartRetract,
     StartAccess, StartProfile, StartOtherProfile, StartClearAvatar, files
<1>2. ASSUME NEW h \in Handlers, Continue(h)
      PROVE  /\ UNCHANGED attachment \/ CompleteAttachment(h)
             /\ \/ UNCHANGED message
                \/ \E m \in Messages : CommitSend(h, m)
                \/ CommitRetract(h)
             /\ UNCHANGED avatar \/ WriteProfile(h)
             /\ UNCHANGED object
             /\ UNCHANGED granted \/ ReadUnattached(h) \/ CheckParticipant(h)
  BY <1>2 DEF Continue, InsertFriendship, Decide, HeadObject, CompleteAttachment, CommitSend,
     ReadContext, CommitRetract, ReadUnattached, CheckParticipant, WriteProfile, files
<1>. QED
  BY <1>1, <1>2 DEF Next, InitAttachment, PutObject, vars, files

-----------------------------------------------------------------------------
(* Rows only move on: nothing that a request checked is taken back.        *)
Grows ==
    /\ conversations \subseteq conversations'
    /\ readStates \subseteq readStates'
    /\ granted \subseteq granted'
    /\ \A x \in Attachments : attachment[x].status # "unused" =>
          /\ attachment'[x].status \in {attachment[x].status, "ready"}
          /\ attachment'[x].owner = attachment[x].owner
          /\ attachment'[x].purpose = attachment[x].purpose
    /\ \A m \in Messages : message[m].status # "unused" =>
          /\ message'[m].status # "unused"
          /\ message'[m].sender = message[m].sender
          /\ message'[m].conversation = message[m].conversation
          /\ message'[m].attached = message[m].attached

AttachmentRow == [status : {"unused", "pending", "ready"}, owner : Users \cup {0},
                  purpose : {"none", "message", "avatar"}]

MessageRow == [status : {"unused", "visible", "retracted"}, sender : Users \cup {0},
               conversation : Conversation \cup {<<>>}, attached : SUBSET Attachments]

FriendshipRow == [status : {"unused", "pending", "accepted", "rejected"},
                  from : Users \cup {0}, to : Users \cup {0}]

LEMMA RowTypes ==
  ASSUME IInv
  PROVE  /\ attachment \in [Attachments -> AttachmentRow]
         /\ message \in [Messages -> MessageRow]
         /\ friendship \in [Friendships -> FriendshipRow]
         /\ object \in [Attachments -> {"none", "right", "wrong"}]
<1>1. message \in [Messages -> MessageRow]
  BY DEF IInv, MessageInv, MessageRow
<1>2. attachment \in [Attachments -> AttachmentRow]
  BY DEF IInv, TypeOK, AttachmentRow
<1>3. friendship \in [Friendships -> FriendshipRow]
  BY DEF IInv, TypeOK, FriendshipRow
<1>4. object \in [Attachments -> {"none", "right", "wrong"}]
  BY DEF IInv, TypeOK
<1>. QED
  BY <1>1, <1>2, <1>3, <1>4

LEMMA AttachmentStep ==
  ASSUME IInv, [Next]_vars
  PROVE  /\ attachment' \in [Attachments -> AttachmentRow]
         /\ \A x \in Attachments : attachment[x].status # "unused" =>
               /\ attachment'[x].status \in {attachment[x].status, "ready"}
               /\ attachment'[x].owner = attachment[x].owner
               /\ attachment'[x].purpose = attachment[x].purpose
<1>1. CASE UNCHANGED attachment
  BY <1>1, RowTypes
<1>2. ASSUME NEW u \in Users, NEW x \in Attachments, NEW purpose \in {"message", "avatar"},
             InitAttachment(u, x, purpose)
      PROVE  /\ attachment' \in [Attachments -> AttachmentRow]
             /\ \A y \in Attachments : attachment[y].status # "unused" =>
                   attachment'[y] = attachment[y]
  BY <1>2, RowTypes DEF InitAttachment, AttachmentRow
<1>3. ASSUME NEW h \in Handlers, CompleteAttachment(h)
      PROVE  /\ attachment' \in [Attachments -> AttachmentRow]
             /\ \A x \in Attachments :
                   /\ attachment'[x].status \in {attachment[x].status, "ready"}
                   /\ attachment'[x].owner = attachment[x].owner
                   /\ attachment'[x].purpose = attachment[x].purpose
  <2>1. job[h].id \in Attachments
    BY <1>3, JobTypes DEF CompleteAttachment, Sound
  <2>. QED
    BY <1>3, <2>1, RowTypes DEF CompleteAttachment, AttachmentRow
<1>. QED
  BY <1>1, <1>2, <1>3, FileWriters

LEMMA MessageStep ==
  ASSUME IInv, [Next]_vars
  PROVE  /\ message' \in [Messages -> MessageRow]
         /\ \A m \in Messages : message[m].status # "unused" =>
               /\ message'[m].status # "unused"
               /\ message'[m].sender = message[m].sender
               /\ message'[m].conversation = message[m].conversation
               /\ message'[m].attached = message[m].attached
         /\ \A m \in Messages : message[m].status = "unused" =>
               \/ message'[m] = message[m]
               \/ /\ message'[m].status = "visible"
                  /\ message'[m].conversation \in conversations
                  /\ message'[m].sender \in Participants(message'[m].conversation)
                  /\ \A x \in message'[m].attached : Ready(message'[m].sender, x, "message")
<1>1. CASE UNCHANGED message
  BY <1>1, RowTypes
<1>2. ASSUME NEW h \in Handlers, NEW m \in Messages, CommitSend(h, m)
      PROVE  /\ message' \in [Messages -> MessageRow]
             /\ message[m].status = "unused"
             /\ \A n \in Messages \ {m} : message'[n] = message[n]
             /\ message'[m].status = "visible"
             /\ message'[m].conversation \in conversations
             /\ message'[m].sender \in Participants(message'[m].conversation)
             /\ \A x \in message'[m].attached : Ready(message'[m].sender, x, "message")
  <2>. DEFINE row == [status |-> "visible", sender |-> job[h].user,
                      conversation |-> job[h].conversation, attached |-> job[h].attached]
  <2>1. message' = [message EXCEPT ![m] = row] /\ message[m].status = "unused"
    BY <1>2 DEF CommitSend
  <2>2. row \in MessageRow
    BY JobTypes DEF Jobs, MessageRow
  <2>3. /\ row.status = "visible" /\ row.sender = job[h].user
        /\ row.conversation = job[h].conversation /\ row.attached = job[h].attached
    OBVIOUS
  <2>4. /\ job[h].conversation \in conversations
        /\ job[h].user \in Participants(job[h].conversation)
        /\ \A x \in job[h].attached : Ready(job[h].user, x, "message")
    BY <1>2, JobTypes DEF CommitSend, Sound
  <2>. HIDE DEF row
  <2>5. message' \in [Messages -> MessageRow] /\ message'[m] = row
    BY <2>1, <2>2, RowTypes
  <2>6. \A n \in Messages \ {m} : message'[n] = message[n]
    BY <2>1, RowTypes
  <2>. QED
    BY <2>1, <2>3, <2>4, <2>5, <2>6
<1>3. ASSUME NEW h \in Handlers, CommitRetract(h)
      PROVE  /\ message' \in [Messages -> MessageRow]
             /\ \A m \in Messages : message[m].status # "unused" =>
                   /\ message'[m].status # "unused"
                   /\ message'[m].sender = message[m].sender
                   /\ message'[m].conversation = message[m].conversation
                   /\ message'[m].attached = message[m].attached
             /\ \A m \in Messages : message[m].status = "unused" => message'[m] = message[m]
  <2>1. job[h].id \in Messages /\ message[job[h].id].status # "unused"
    BY <1>3, JobTypes DEF CommitRetract, Sound
  <2>. QED
    BY <1>3, <2>1, RowTypes DEF CommitRetract, MessageRow
<1>. QED
  <2>1. CASE \E h \in Handlers, m \in Messages : CommitSend(h, m)
    BY <2>1, <1>2
  <2>2. CASE \E h \in Handlers : CommitRetract(h)
    BY <2>2, <1>3
  <2>. QED
    BY <1>1, <2>1, <2>2, FileWriters

LEMMA ConversationStep ==
  ASSUME IInv, [Next]_vars
  PROVE  conversations \subseteq conversations' /\ readStates \subseteq readStates'
<1>1. ASSUME NEW h \in Handlers, Decide(h)
      PROVE  conversations \subseteq conversations' /\ readStates \subseteq readStates'
  <2>1. CASE job[h].status = "accepted"
    BY <1>1, <2>1 DEF Decide, OpenConversation
  <2>2. CASE job[h].status # "accepted"
    BY <1>1, <2>2 DEF Decide
  <2>. QED
    BY <2>1, <2>2
<1>2. ASSUME NEW h \in Handlers, NEW f \in Friendships, InsertFriendship(h, f)
      PROVE  conversations \subseteq conversations' /\ readStates \subseteq readStates'
  BY <1>2 DEF InsertFriendship
<1>. QED
  BY <1>1, <1>2, RelationWriters DEF relations

LEMMA StepGrows ==
  ASSUME IInv, [Next]_vars
  PROVE  Grows
<1>1. granted \subseteq granted'
  BY FileWriters DEF ReadUnattached, CheckParticipant, Grant
<1>. QED
  BY <1>1, AttachmentStep, MessageStep, ConversationStep DEF Grows

LEMMA ReadyStays ==
  ASSUME IInv, Grows, attachment' \in [Attachments -> AttachmentRow], NEW u, NEW purpose,
         NEW x \in Attachments, Ready(u, x, purpose)
  PROVE  Ready(u, x, purpose)'
BY RowTypes DEF Ready, Grows, AttachmentRow

LEMMA SoundStays ==
  ASSUME IInv, Grows, attachment' \in [Attachments -> AttachmentRow],
         NEW j \in Jobs, Sound(j),
         j.pc = "decide" => friendship'[j.id].status = "pending"
  PROVE  Sound(j)'
<1>1. j.pc \in {"head", "complete", "context", "permission"} =>
          j.id \in Attachments /\ attachment'[j.id].status # "unused"
  BY DEF Sound, Grows
<1>2. j.pc = "send" =>
          /\ j.conversation \in conversations'
          /\ j.user \in Participants(j.conversation)
          /\ \A x \in j.attached : Ready(j.user, x, "message")'
  <2>1. j.attached \subseteq Attachments
    BY DEF Jobs
  <2>. QED
    BY <2>1, ReadyStays DEF Sound, Grows
<1>3. j.pc = "retract" => j.id \in Messages /\ message'[j.id].status # "unused"
  BY DEF Sound, Grows
<1>4. j.pc = "permission" =>
          \E m \in Contexts(j.id)' : message'[m].conversation = j.conversation
  <2>. SUFFICES ASSUME j.pc = "permission"
                PROVE  \E m \in Contexts(j.id)' : message'[m].conversation = j.conversation
    OBVIOUS
  <2>1. PICK m \in Contexts(j.id) : message[m].conversation = j.conversation
    BY DEF Sound
  <2>2. m \in Messages /\ j.id \in message[m].attached
    BY DEF Contexts
  <2>3. message[m].status # "unused"
    BY <2>2 DEF IInv, MessageInv
  <2>. QED
    BY <2>1, <2>2, <2>3 DEF Grows, Contexts
<1>5. j.pc = "profile" /\ j.id # None =>
          j.id \in Attachments /\ Ready(j.user, j.id, "avatar")'
  BY ReadyStays DEF Sound
<1>. QED
  BY <1>1, <1>2, <1>3, <1>4, <1>5 DEF Sound

-----------------------------------------------------------------------------
(* A request that is decided stays so, and deciding takes the row's lock.  *)
LEMMA FriendshipStep ==
  ASSUME IInv, [Next]_vars
  PROVE  /\ friendship' \in [Friendships -> FriendshipRow]
         /\ \A f \in Friendships :
               \/ friendship'[f] = friendship[f]
               \/ /\ friendship[f].status = "unused"
                  /\ friendship'[f].status = "pending"
                  /\ friendship'[f].from \in Users
                  /\ friendship'[f].to \in Users
                  /\ friendship'[f].from # friendship'[f].to
               \/ /\ friendship[f].status = "pending"
                  /\ friendship'[f].status \in {"accepted", "rejected"}
                  /\ friendship'[f].from = friendship[f].from
                  /\ friendship'[f].to = friendship[f].to
                  /\ \E h \in Handlers :
                        Decide(h) /\ job[h].id = f /\ job[h].status = friendship'[f].status
<1>1. CASE UNCHANGED relations
  BY <1>1, RowTypes DEF relations
<1>2. ASSUME NEW h \in Handlers, NEW f \in Friendships, InsertFriendship(h, f)
      PROVE  /\ friendship' \in [Friendships -> FriendshipRow]
             /\ \A g \in Friendships \ {f} : friendship'[g] = friendship[g]
             /\ friendship[f].status = "unused"
             /\ friendship'[f].status = "pending"
             /\ friendship'[f].from \in Users
             /\ friendship'[f].to \in Users
             /\ friendship'[f].from # friendship'[f].to
  <2>1. job[h].user \in Users /\ job[h].other \in Users /\ job[h].user # job[h].other
    BY <1>2, JobTypes DEF InsertFriendship, Sound
  <2>. DEFINE row == [status |-> "pending", from |-> job[h].user, to |-> job[h].other]
  <2>2. friendship' = [friendship EXCEPT ![f] = row] /\ friendship[f].status = "unused"
    BY <1>2 DEF InsertFriendship
  <2>3. row \in FriendshipRow
    BY <2>1 DEF FriendshipRow
  <2>4. row.status = "pending" /\ row.from = job[h].user /\ row.to = job[h].other
    OBVIOUS
  <2>. HIDE DEF row
  <2>. QED
    BY <2>1, <2>2, <2>3, <2>4, RowTypes
<1>3. ASSUME NEW h \in Handlers, Decide(h)
      PROVE  /\ friendship' \in [Friendships -> FriendshipRow]
             /\ \A g \in Friendships \ {job[h].id} : friendship'[g] = friendship[g]
             /\ job[h].id \in Friendships
             /\ friendship[job[h].id].status = "pending"
             /\ friendship'[job[h].id].status = job[h].status
             /\ job[h].status \in {"accepted", "rejected"}
             /\ friendship'[job[h].id].from = friendship[job[h].id].from
             /\ friendship'[job[h].id].to = friendship[job[h].id].to
  <2>1. /\ job[h].id \in Friendships /\ friendship[job[h].id].status = "pending"
        /\ job[h].status \in {"accepted", "rejected"}
    BY <1>3, JobTypes DEF Decide, Sound
  <2>2. friendship' = [friendship EXCEPT ![job[h].id].status = job[h].status]
    BY <1>3 DEF Decide
  <2>. QED
    BY <2>1, <2>2, RowTypes DEF FriendshipRow
<1>. QED
  <2>1. CASE \E h \in Handlers, f \in Friendships : InsertFriendship(h, f)
    BY <2>1, <1>2
  <2>2. CASE \E h \in Handlers : Decide(h)
    BY <2>2, <1>3
  <2>. QED
    BY <1>1, <2>1, <2>2, RelationWriters

LEMMA OtherDecisionsStand ==
  ASSUME IInv, [Next]_vars, NEW k \in Handlers, job[k].pc = "decide", job'[k] = job[k]
  PROVE  friendship'[job[k].id].status = "pending"
<1>1. job[k].id \in Friendships /\ friendship[job[k].id].status = "pending"
  BY JobTypes DEF Sound
<1>2. ASSUME NEW h \in Handlers, Decide(h), job[h].id = job[k].id
      PROVE  FALSE
  <2>1. h = k
    BY <1>2 DEF Decide, IInv, LockInv
  <2>2. job'[k] = Idle
    BY <1>2, <2>1, JobTypes DEF Decide, End, IInv, TypeOK
  <2>. QED
    BY <2>2, IdleMoves
<1>. QED
  BY <1>1, <1>2, FriendshipStep

LEMMA JobsAfter ==
  ASSUME IInv, NEW h \in Handlers, NEW next \in Jobs, Moves(h, next)
  PROVE  /\ DOMAIN job' = Handlers
         /\ job'[h] = next
         /\ \A k \in Handlers \ {h} : job'[k] = job[k]
BY DEF IInv, TypeOK, Moves

LEMMA JobsStaySound ==
  ASSUME IInv, [Next]_vars
  PROVE  JobInv' /\ (DOMAIN job = Handlers)'
<1>1. ASSUME NEW k \in Handlers, job'[k] = job[k]
      PROVE  (job[k] \in Jobs /\ Sound(job[k]))'
  <2>1. PICK j \in Jobs : j = job[k]
    BY JobTypes
  <2>2. Sound(j)
    BY <2>1, JobTypes
  <2>3. j.pc = "decide" => friendship'[j.id].status = "pending"
    BY <1>1, <2>1, OtherDecisionsStand
  <2>4. Sound(j)'
    BY <2>2, <2>3, SoundStays, StepGrows, AttachmentStep
  <2>. QED
    BY <1>1, <2>1, <2>4 DEF Sound
<1>2. ASSUME NEW h \in Handlers, NEW next \in Jobs, Moves(h, next)
      PROVE  Sound(next)'
  <2>1. CASE next.pc = "idle"
    BY <2>1 DEF Sound
  <2>2. CASE UNCHANGED <<relations, files, granted>>
    BY <1>2, <2>2 DEF Moves, Sound, Ready, Contexts, relations, files
  <2>. QED
    BY <1>2, <2>1, <2>2 DEF Moves
<1>3. CASE UNCHANGED job
  <2>1. \A k \in Handlers : (job[k] \in Jobs /\ Sound(job[k]))'
    BY <1>1, <1>3
  <2>. QED
    BY <1>3, <2>1 DEF IInv, TypeOK, JobInv
<1>4. ASSUME NEW h \in Handlers, NEW next \in Jobs, Moves(h, next)
      PROVE  JobInv' /\ (DOMAIN job = Handlers)'
  <2>1. DOMAIN job' = Handlers /\ job'[h] = next /\ \A k \in Handlers \ {h} : job'[k] = job[k]
    BY <1>4, JobsAfter
  <2>2. (job[h] \in Jobs /\ Sound(job[h]))'
    BY <1>2, <1>4, <2>1 DEF Sound
  <2>3. \A k \in Handlers \ {h} : (job[k] \in Jobs /\ Sound(job[k]))'
    BY <1>1, <2>1
  <2>. QED
    BY <2>1, <2>2, <2>3 DEF JobInv
<1>. QED
  BY <1>3, <1>4, StepMoves

LEMMA LocksStay ==
  ASSUME IInv, [Next]_vars
  PROVE  LockInv'
<1>1. CASE UNCHANGED job
  BY <1>1 DEF IInv, LockInv
<1>2. ASSUME NEW h \in Handlers, NEW next \in Jobs, Moves(h, next)
      PROVE  LockInv'
  <2>1. job'[h] = next /\ \A k \in Handlers \ {h} : job'[k] = job[k]
    BY <1>2, JobsAfter
  <2>2. next.pc = "decide" => \A k \in Handlers : job[k].pc = "decide" => job[k].id # next.id
    BY <1>2 DEF Moves, FriendshipLocked
  <2>. QED
    BY <2>1, <2>2 DEF IInv, LockInv
<1>. QED
  BY <1>1, <1>2, StepMoves

-----------------------------------------------------------------------------
LEMMA OpenedConversation ==
  ASSUME IInv, NEW h \in Handlers, Decide(h), job[h].status = "accepted"
  PROVE  LET u == friendship[job[h].id].from
             v == friendship[job[h].id].to
             c == OrderedPair(u, v)
         IN  /\ u \in Users /\ v \in Users
             /\ conversations' = conversations \cup {c}
             /\ readStates' = readStates \cup {[user |-> u, conversation |-> c],
                                               [user |-> v, conversation |-> c]}
<1>1. job[h].id \in Friendships /\ friendship[job[h].id].status = "pending"
  BY JobTypes DEF Decide, Sound
<1>2. friendship[job[h].id].from \in Users /\ friendship[job[h].id].to \in Users
  BY <1>1 DEF IInv, FriendshipInv
<1>. QED
  BY <1>2 DEF Decide, OpenConversation

LEMMA FriendshipsStaySound ==
  ASSUME IInv, [Next]_vars
  PROVE  FriendshipInv'
<1>. SUFFICES ASSUME NEW f \in Friendships
     PROVE  LET u == friendship'[f].from
                v == friendship'[f].to
                c == OrderedPair(u, v)
            IN  /\ friendship'[f].status # "unused" => u \in Users /\ v \in Users /\ u # v
                /\ friendship'[f].status = "accepted" =>
                      /\ c \in conversations'
                      /\ [user |-> u, conversation |-> c] \in readStates'
                      /\ [user |-> v, conversation |-> c] \in readStates'
  BY DEF FriendshipInv, OrderedPair
<1>1. CASE friendship'[f] = friendship[f]
  BY <1>1, ConversationStep DEF IInv, FriendshipInv
<1>2. CASE /\ friendship[f].status = "unused"
           /\ friendship'[f].status = "pending"
           /\ friendship'[f].from \in Users
           /\ friendship'[f].to \in Users
           /\ friendship'[f].from # friendship'[f].to
  BY <1>2
<1>3. ASSUME NEW h \in Handlers, Decide(h), job[h].id = f,
             job[h].status = friendship'[f].status,
             friendship[f].status = "pending",
             friendship'[f].from = friendship[f].from,
             friendship'[f].to = friendship[f].to
      PROVE  /\ friendship'[f].from \in Users
             /\ friendship'[f].to \in Users
             /\ friendship'[f].from # friendship'[f].to
             /\ friendship'[f].status = "accepted" =>
                  LET u == friendship'[f].from
                      v == friendship'[f].to
                      c == OrderedPair(u, v)
                  IN  /\ c \in conversations'
                      /\ [user |-> u, conversation |-> c] \in readStates'
                      /\ [user |-> v, conversation |-> c] \in readStates'
  <2>1. friendship[f].from \in Users /\ friendship[f].to \in Users
        /\ friendship[f].from # friendship[f].to
    BY <1>3 DEF IInv, FriendshipInv
  <2>. QED
    BY <1>3, <2>1, OpenedConversation
<1>. QED
  BY <1>1, <1>2, <1>3, FriendshipStep

LEMMA MessagesStaySound ==
  ASSUME IInv, [Next]_vars
  PROVE  MessageInv'
<1>1. message' \in [Messages -> MessageRow]
  BY MessageStep
<1>2. ASSUME NEW m \in Messages, message'[m].status = "unused"
      PROVE  message'[m].attached = {}
  BY <1>2, MessageStep DEF IInv, MessageInv
<1>. QED
  BY <1>1, <1>2 DEF MessageInv, MessageRow

LEMMA AvatarStep ==
  ASSUME IInv, [Next]_vars
  PROVE  /\ AvatarInv'
         /\ \A u \in Users : avatar'[u] # None => Ready(u, avatar'[u], "avatar")
<1>1. CASE UNCHANGED avatar
  BY <1>1 DEF IInv, TypeOK, AvatarInv
<1>2. ASSUME NEW h \in Handlers, WriteProfile(h)
      PROVE  /\ AvatarInv'
             /\ \A u \in Users : avatar'[u] # None => Ready(u, avatar'[u], "avatar")
  <2>1. avatar' = [avatar EXCEPT ![job[h].user] = job[h].id]
    BY <1>2 DEF WriteProfile
  <2>2. job[h].user \in Users
        /\ (job[h].id # None => job[h].id \in Attachments /\ Ready(job[h].user, job[h].id, "avatar"))
    BY <1>2, JobTypes DEF WriteProfile, Sound
  <2>3. \A u \in Users : avatar[u] # None => Ready(u, avatar[u], "avatar")
    BY DEF IInv, TypeOK
  <2>. QED
    BY <2>1, <2>2, <2>3 DEF IInv, AvatarInv
<1>. QED
  BY <1>1, <1>2, FileWriters

-----------------------------------------------------------------------------
LEMMA GrantedStaySound ==
  ASSUME IInv, [Next]_vars
  PROVE  GrantedInv' /\ (granted \subseteq [user : Users, attachment : Attachments])'
<1>1. ASSUME NEW x \in Attachments, NEW m \in Contexts(x)
      PROVE  m \in Contexts(x)' /\ message'[m].conversation = message[m].conversation
  <2>1. m \in Messages /\ x \in message[m].attached /\ message[m].status # "unused"
    BY DEF Contexts, IInv, MessageInv
  <2>. QED
    BY <2>1, StepGrows DEF Grows, Contexts
<1>2. ASSUME NEW g, g.attachment \in Attachments,
             attachment[g.attachment].status # "unused",
             \/ attachment[g.attachment].owner = g.user
             \/ \E m \in Contexts(g.attachment) :
                   g.user \in Participants(message[m].conversation)
      PROVE  /\ attachment'[g.attachment].status # "unused"
             /\ \/ attachment'[g.attachment].owner = g.user
                \/ \E m \in Contexts(g.attachment)' :
                      g.user \in Participants(message'[m].conversation)
  BY <1>1, <1>2, StepGrows DEF Grows
<1>3. ASSUME NEW h \in Handlers, ReadUnattached(h) \/ CheckParticipant(h),
             NEW g \in granted' \ granted
      PROVE  /\ g \in [user : Users, attachment : Attachments]
             /\ attachment[g.attachment].status # "unused"
             /\ \/ attachment[g.attachment].owner = g.user
                \/ \E m \in Contexts(g.attachment) :
                      g.user \in Participants(message[m].conversation)
  <2>1. /\ job[h].user \in Users /\ job[h].id \in Attachments
        /\ attachment[job[h].id].status # "unused"
    BY <1>3, JobTypes DEF ReadUnattached, CheckParticipant, Sound
  <2>2. g = [user |-> job[h].user, attachment |-> job[h].id]
    BY <1>3 DEF ReadUnattached, CheckParticipant, Grant
  <2>3. CASE ReadUnattached(h)
    BY <1>3, <2>1, <2>2, <2>3 DEF ReadUnattached, OwnerReads, Grant
  <2>4. CASE CheckParticipant(h)
    <3>1. job[h].user \in Participants(job[h].conversation)
      BY <1>3, <2>4 DEF CheckParticipant
    <3>2. \E m \in Contexts(job[h].id) : message[m].conversation = job[h].conversation
      BY <2>4, JobTypes DEF CheckParticipant, Sound
    <3>. QED
      BY <2>1, <2>2, <3>1, <3>2
  <2>. QED
    BY <1>3, <2>3, <2>4
<1>4. \A g \in granted' \ granted :
         /\ g \in [user : Users, attachment : Attachments]
         /\ attachment[g.attachment].status # "unused"
         /\ \/ attachment[g.attachment].owner = g.user
            \/ \E m \in Contexts(g.attachment) :
                  g.user \in Participants(message[m].conversation)
  BY <1>3, FileWriters
<1>5. granted \subseteq [user : Users, attachment : Attachments] /\ GrantedInv
  BY DEF IInv, TypeOK
<1>6. granted' \subseteq [user : Users, attachment : Attachments]
  BY <1>4, <1>5
<1>7. \A g \in granted' :
         /\ g.attachment \in Attachments
         /\ attachment[g.attachment].status # "unused"
         /\ \/ attachment[g.attachment].owner = g.user
            \/ \E m \in Contexts(g.attachment) :
                  g.user \in Participants(message[m].conversation)
  BY <1>4, <1>5 DEF GrantedInv
<1>. QED
  BY <1>2, <1>6, <1>7 DEF GrantedInv

-----------------------------------------------------------------------------
(* The requests that are past the look-up count with the relations: a step *)
(* turns one into the other, and the look-up lets nobody past it while     *)
(* there is a relation.                                                    *)
LEMMA AskingIsFinite ==
  ASSUME NEW u \in Users, NEW v \in Users
  PROVE  /\ IsFiniteSet(Asking(u, v)) /\ Cardinality(Asking(u, v)) \in Nat
         /\ Cardinality(Asking(u, v)) <= Cardinality(Handlers)
         /\ Cardinality(Handlers) \in Nat
<1>1. IsFiniteSet(Handlers)
  BY ConstantsAssumption
<1>2. Asking(u, v) \in SUBSET Handlers
  BY DEF Asking
<1>. QED
  BY <1>1, <1>2, FS_Subset, FS_CardinalityType

LEMMA InsertionCounts ==
  ASSUME IInv, NEW u \in Users, NEW v \in Users, u # v,
         NEW h \in Handlers, NEW f \in Friendships, InsertFriendship(h, f)
  PROVE  \/ Active(u, v)' = Active(u, v) /\ Asking(u, v)' = Asking(u, v)
         \/ /\ Active(u, v)' = Active(u, v) \cup {f}
            /\ f \notin Active(u, v)
            /\ Asking(u, v)' = Asking(u, v) \ {h}
            /\ h \in Asking(u, v)
<1>1. Moves(h, Idle)
  BY EndMoves DEF InsertFriendship
<1>2. job'[h].pc = "idle" /\ \A k \in Handlers \ {h} : job'[k] = job[k]
  BY <1>1, JobsAfter, IdleMoves
<1>3. Asking(u, v)' = Asking(u, v) \ {h}
  BY <1>2 DEF Asking
<1>4. h \in Asking(u, v) <=> {job[h].user, job[h].other} = {u, v}
  BY DEF Asking, InsertFriendship
<1>. DEFINE row == [status |-> "pending", from |-> job[h].user, to |-> job[h].other]
<1>5. friendship' = [friendship EXCEPT ![f] = row] /\ friendship[f].status = "unused"
  BY DEF InsertFriendship
<1>6. row.status = "pending" /\ row.from = job[h].user /\ row.to = job[h].other
  OBVIOUS
<1>. HIDE DEF row
<1>7. f \notin Active(u, v)
  BY <1>5 DEF Active
<1>8. friendship'[f] = row /\ \A g \in Friendships \ {f} : friendship'[g] = friendship[g]
  BY <1>5, RowTypes
<1>9. CASE {job[h].user, job[h].other} = {u, v}
  <2>1. Active(u, v)' = Active(u, v) \cup {f}
    BY <1>6, <1>8, <1>9 DEF Active
  <2>. QED
    BY <1>3, <1>4, <1>7, <1>9, <2>1
<1>10. CASE {job[h].user, job[h].other} # {u, v}
  <2>1. Active(u, v)' = Active(u, v)
    BY <1>6, <1>7, <1>8, <1>10 DEF Active
  <2>. QED
    BY <1>3, <1>4, <1>10, <2>1
<1>. QED
  BY <1>9, <1>10

LEMMA CountsStay ==
  ASSUME IInv, [Next]_vars
  PROVE  CountInv'
<1>. SUFFICES ASSUME NEW u \in Users, NEW v \in Users, u # v
     PROVE  /\ IsFiniteSet(Active(u, v)')
            /\ Cardinality(Active(u, v)') + Cardinality(Asking(u, v)') <= Cardinality(Handlers)
  BY DEF CountInv
<1>1. /\ IsFiniteSet(Active(u, v)) /\ Cardinality(Active(u, v)) \in Nat
      /\ Cardinality(Active(u, v)) + Cardinality(Asking(u, v)) <= Cardinality(Handlers)
  BY FS_CardinalityType DEF IInv, CountInv
<1>2. IsFiniteSet(Asking(u, v)) /\ Cardinality(Asking(u, v)) \in Nat
      /\ Cardinality(Handlers) \in Nat
  BY AskingIsFinite
<1>3. Asking(u, v)' \in SUBSET Handlers
  BY DEF Asking
<1>4. /\ IsFiniteSet(Asking(u, v)') /\ Cardinality(Asking(u, v)') \in Nat
      /\ Cardinality(Asking(u, v)') <= Cardinality(Handlers)
  BY <1>3, ConstantsAssumption, FS_Subset, FS_CardinalityType
<1>5. ASSUME NEW h \in Handlers, NEW f \in Friendships, InsertFriendship(h, f)
      PROVE  /\ IsFiniteSet(Active(u, v)')
             /\ Cardinality(Active(u, v)') + Cardinality(Asking(u, v)') <= Cardinality(Handlers)
  <2>1. CASE Active(u, v)' = Active(u, v) /\ Asking(u, v)' = Asking(u, v)
    BY <1>1, <2>1
  <2>2. CASE /\ Active(u, v)' = Active(u, v) \cup {f}
             /\ f \notin Active(u, v)
             /\ Asking(u, v)' = Asking(u, v) \ {h}
             /\ h \in Asking(u, v)
    <3>1. IsFiniteSet(Active(u, v)') /\ Cardinality(Active(u, v)') = Cardinality(Active(u, v)) + 1
      BY <1>1, <2>2, FS_AddElement
    <3>2. Cardinality(Asking(u, v)') = Cardinality(Asking(u, v)) - 1
      BY <1>2, <2>2, FS_RemoveElement
    <3>. QED
      BY <1>1, <1>2, <3>1, <3>2
  <2>. QED
    BY <1>5, <2>1, <2>2, InsertionCounts
<1>6. ASSUME NEW A \in SUBSET Active(u, v), Active(u, v)' = A,
             NEW B \in SUBSET Asking(u, v), Asking(u, v)' = B
      PROVE  /\ IsFiniteSet(Active(u, v)')
             /\ Cardinality(Active(u, v)') + Cardinality(Asking(u, v)') <= Cardinality(Handlers)
  <2>1. /\ IsFiniteSet(A) /\ Cardinality(A) \in Nat
        /\ Cardinality(A) <= Cardinality(Active(u, v))
    BY <1>1, FS_Subset, FS_CardinalityType
  <2>2. Cardinality(B) \in Nat /\ Cardinality(B) <= Cardinality(Asking(u, v))
    BY <1>2, FS_Subset, FS_CardinalityType
  <2>. QED
    BY <1>1, <1>2, <1>6, <2>1, <2>2
<1>7. ASSUME NEW h \in Handlers, Decide(h)
      PROVE  /\ IsFiniteSet(Active(u, v)')
             /\ Cardinality(Active(u, v)') + Cardinality(Asking(u, v)') <= Cardinality(Handlers)
  <2>1. Active(u, v)' \subseteq Active(u, v)
    <3>1. job[h].id \in Friendships /\ friendship[job[h].id].status = "pending"
      BY <1>7, JobTypes DEF Decide, Sound
    <3>2. \A f \in Friendships :
             \/ friendship'[f] = friendship[f]
             \/ /\ friendship[f].status = "pending"
                /\ friendship'[f].from = friendship[f].from
                /\ friendship'[f].to = friendship[f].to
      <4>1. friendship' = [friendship EXCEPT ![job[h].id].status = job[h].status]
        BY <1>7 DEF Decide
      <4>. QED
        BY <3>1, <4>1, RowTypes DEF FriendshipRow
    <3>. QED
      BY <3>2 DEF Active
  <2>2. Asking(u, v)' \subseteq Asking(u, v)
    <3>1. Moves(h, Idle)
      BY <1>7, EndMoves DEF Decide
    <3>. QED
      BY <3>1, JobsAfter, IdleMoves DEF Asking
  <2>. QED
    BY <1>6, <2>1, <2>2
<1>8. ASSUME UNCHANGED relations
      PROVE  /\ IsFiniteSet(Active(u, v)')
             /\ Cardinality(Active(u, v)') + Cardinality(Asking(u, v)') <= Cardinality(Handlers)
  <2>1. Active(u, v)' = Active(u, v)
    BY <1>8 DEF Active, relations
  <2>2. CASE UNCHANGED job
    <3>1. Asking(u, v)' = Asking(u, v)
      BY <2>2 DEF Asking
    <3>. QED
      BY <1>1, <2>1, <3>1
  <2>3. ASSUME NEW h \in Handlers, NEW next \in Jobs, Moves(h, next)
        PROVE  \/ Asking(u, v)' \subseteq Asking(u, v)
               \/ Active(u, v) = {}
    <3>1. job'[h] = next /\ \A k \in Handlers \ {h} : job'[k] = job[k]
      BY <2>3, JobsAfter
    <3>2. CASE next.pc = "ask" /\ {next.user, next.other} = {u, v}
      BY <2>3, <3>2 DEF Moves, Active
    <3>3. CASE ~(next.pc = "ask" /\ {next.user, next.other} = {u, v})
      BY <3>1, <3>3 DEF Asking
    <3>. QED
      BY <3>2, <3>3
  <2>4. CASE Asking(u, v)' \subseteq Asking(u, v)
    BY <1>6, <2>1, <2>4
  <2>5. CASE Active(u, v) = {}
    <3>1. Cardinality(Active(u, v)') = 0
      BY <2>1, <2>5, FS_EmptySet
    <3>. QED
      BY <1>1, <1>4, <2>1, <3>1
  <2>. QED
    BY <2>2, <2>3, <2>4, <2>5, StepMoves
<1>. QED
  BY <1>5, <1>7, <1>8, RelationWriters

-----------------------------------------------------------------------------
RelationsTyped ==
    /\ conversations \subseteq Conversation
    /\ readStates \subseteq [user : Users, conversation : conversations]
    /\ notifications \subseteq [user : Users, key : {"request", "accepted"} \X Friendships]

LEMMA RelationsStayTyped ==
  ASSUME IInv, [Next]_vars
  PROVE  RelationsTyped'
<1>1. RelationsTyped
  BY DEF IInv, TypeOK, RelationsTyped
<1>2. ASSUME NEW h \in Handlers, NEW f \in Friendships, InsertFriendship(h, f)
      PROVE  RelationsTyped'
  <2>1. job[h].other \in Users
    BY <1>2, JobTypes DEF InsertFriendship, Sound
  <2>. QED
    BY <1>1, <1>2, <2>1 DEF InsertFriendship, Notify, RelationsTyped
<1>3. ASSUME NEW h \in Handlers, Decide(h)
      PROVE  RelationsTyped'
  <2>1. CASE job[h].status = "accepted"
    <3>. DEFINE f == job[h].id
                u == friendship[f].from
                v == friendship[f].to
                c == OrderedPair(u, v)
    <3>1. f \in Friendships
      BY <1>3, JobTypes DEF Decide, Sound
    <3>2. /\ u \in Users /\ v \in Users
          /\ conversations' = conversations \cup {c}
          /\ readStates' = readStates \cup {[user |-> u, conversation |-> c],
                                            [user |-> v, conversation |-> c]}
      BY <1>3, <2>1, OpenedConversation
    <3>3. c \in Conversation
      BY <3>2, PairInConversation
    <3>4. notifications' = notifications \cup {[user |-> u, key |-> <<"accepted", f>>]}
      BY <1>3, <2>1 DEF Decide, Notify
    <3>. HIDE DEF c, u, v, f
    <3>5. notifications' \subseteq [user : Users, key : {"request", "accepted"} \X Friendships]
      BY <1>1, <3>1, <3>2, <3>4 DEF RelationsTyped
    <3>6. readStates' \subseteq [user : Users, conversation : conversations']
      BY <1>1, <3>2 DEF RelationsTyped
    <3>. QED
      BY <1>1, <3>2, <3>3, <3>5, <3>6 DEF RelationsTyped
  <2>2. CASE job[h].status # "accepted"
    BY <1>1, <1>3, <2>2 DEF Decide, RelationsTyped
  <2>. QED
    BY <2>1, <2>2
<1>4. CASE UNCHANGED relations
  BY <1>1, <1>4 DEF relations, RelationsTyped
<1>. QED
  BY <1>2, <1>3, <1>4, RelationWriters

LEMMA RequestsStayTyped ==
  ASSUME IInv, [Next]_vars
  PROVE  requests' \in 0..MaxRequests
<1>1. requests \in 0..MaxRequests /\ MaxRequests \in Nat
  BY ConstantsAssumption DEF IInv, TypeOK
<1>2. ASSUME NEW h \in Handlers, NEW next, Begin(h, next)
      PROVE  requests' \in 0..MaxRequests
  BY <1>1, <1>2 DEF Begin
<1>3. ASSUME NEW h \in Handlers, StartRequest(h)
      PROVE  \E next : Begin(h, next)
  BY <1>3 DEF StartRequest, StartAsk, StartHandle, StartComplete, StartSend, StartRetract,
     StartAccess, StartProfile, StartOtherProfile, StartClearAvatar
<1>4. ASSUME NEW h \in Handlers, Continue(h)
      PROVE  UNCHANGED requests
  BY <1>4 DEF Continue, InsertFriendship, Decide, HeadObject, CompleteAttachment, CommitSend,
     ReadContext, CommitRetract, ReadUnattached, CheckParticipant, WriteProfile, Proceed
<1>. QED
  BY <1>1, <1>2, <1>3, <1>4 DEF Next, InitAttachment, PutObject, vars

LEMMA TypesStay ==
  ASSUME IInv, [Next]_vars
  PROVE  TypeOK'
<1>1. (friendship \in [Friendships ->
           [status : {"unused", "pending", "accepted", "rejected"},
            from : Users \cup {0}, to : Users \cup {0}]])'
  BY FriendshipStep DEF FriendshipRow
<1>2. (attachment \in [Attachments ->
           [status : {"unused", "pending", "ready"}, owner : Users \cup {0},
            purpose : {"none", "message", "avatar"}]])'
  BY AttachmentStep DEF AttachmentRow
<1>3. object' \in [Attachments -> {"none", "right", "wrong"}]
  BY RowTypes, FileWriters DEF PutObject
<1>4. DOMAIN message' = Messages
  BY MessageStep
<1>5. ASSUME NEW m \in Messages, message'[m].status # "unused"
      PROVE  /\ message'[m].conversation \in conversations'
             /\ message'[m].sender \in Participants(message'[m].conversation)
             /\ \A x \in message'[m].attached :
                   attachment'[x] = [status |-> "ready", owner |-> message'[m].sender,
                                     purpose |-> "message"]
  <2>1. message'[m].attached \subseteq Attachments
    BY MessageStep DEF MessageRow
  <2>2. /\ message'[m].conversation \in conversations
        /\ message'[m].sender \in Participants(message'[m].conversation)
        /\ \A x \in message'[m].attached : Ready(message'[m].sender, x, "message")
    <3>1. message[m].status # "unused" =>
             /\ message[m].conversation \in conversations
             /\ message[m].sender \in Participants(message[m].conversation)
             /\ \A x \in message[m].attached : Ready(message[m].sender, x, "message")
      BY DEF IInv, TypeOK
    <3>. QED
      BY <1>5, <3>1, MessageStep
  <2>. QED
    BY <2>1, <2>2, ReadyStays, StepGrows, AttachmentStep, ConversationStep DEF Ready
<1>6. ASSUME NEW u \in Users, avatar'[u] # None
      PROVE  attachment'[avatar'[u]] = [status |-> "ready", owner |-> u, purpose |-> "avatar"]
  <2>1. avatar'[u] \in Attachments /\ Ready(u, avatar'[u], "avatar")
    BY <1>6, AvatarStep DEF AvatarInv
  <2>. QED
    BY <2>1, ReadyStays, StepGrows, AttachmentStep DEF Ready
<1>7. DOMAIN job' = Handlers
  BY JobsStaySound
<1>8. granted' \subseteq [user : Users, attachment : Attachments]
  BY GrantedStaySound
<1>. QED
  BY <1>1, <1>2, <1>3, <1>4, <1>5, <1>6, <1>7, <1>8, RelationsStayTyped, RequestsStayTyped
  DEF TypeOK, RelationsTyped, Ready

-----------------------------------------------------------------------------
LEMMA InitIInv == Init => IInv
<1>. SUFFICES ASSUME Init PROVE IInv
  OBVIOUS
<1>1. TypeOK
  BY ConstantsAssumption DEF Init, TypeOK
<1>2. \A h \in Handlers : job[h] = Idle
  BY DEF Init
<1>3. JobInv /\ LockInv
  BY <1>2, IdleMoves DEF JobInv, LockInv
<1>4. FriendshipInv
  BY DEF Init, FriendshipInv
<1>5. MessageInv
  BY DEF Init, MessageInv
<1>6. AvatarInv /\ GrantedInv
  BY DEF Init, AvatarInv, GrantedInv
<1>7. CountInv
  <2>. SUFFICES ASSUME NEW u \in Users, NEW v \in Users
       PROVE  /\ IsFiniteSet(Active(u, v))
              /\ Cardinality(Active(u, v)) + Cardinality(Asking(u, v)) <= Cardinality(Handlers)
    BY DEF CountInv
  <2>1. Active(u, v) = {} /\ Asking(u, v) = {}
    BY <1>2, IdleMoves DEF Init, Active, Asking
  <2>2. Cardinality(Handlers) \in Nat
    BY AskingIsFinite
  <2>. QED
    BY <2>1, <2>2, FS_EmptySet
<1>. QED
  BY <1>1, <1>3, <1>4, <1>5, <1>6, <1>7 DEF IInv

LEMMA NextIInv == IInv /\ [Next]_vars => IInv'
<1>. SUFFICES ASSUME IInv, [Next]_vars PROVE IInv'
  OBVIOUS
<1>. QED
  BY TypesStay, JobsStaySound, LocksStay, FriendshipsStaySound, MessagesStaySound, AvatarStep,
     GrantedStaySound, CountsStay DEF IInv

LEMMA AlwaysIInv == Spec => []IInv
BY InitIInv, NextIInv, PTL DEF Spec

(* Rows name what they must: in particular a message carries only files of *)
(* its sender that were uploaded, and an avatar is an uploaded file of its *)
(* user, whatever was checked long before it was written.                  *)
THEOREM TypesHold == Spec => []TypeOK
<1>1. IInv => TypeOK
  BY DEF IInv
<1>. QED
  BY <1>1, AlwaysIInv, PTL

(* Two friends find the same single conversation (getFriendshipSummary,    *)
(* listFriends, listDirectConversations), with a position for each.        *)
THEOREM FriendsAlwaysShareOneConversation == Spec => []FriendsShareOneConversation
<1>1. IInv => FriendsShareOneConversation
  <2>. SUFFICES ASSUME IInv, NEW f \in Friendships, friendship[f].status = "accepted"
       PROVE  \E c \in conversations :
                 /\ DirectConversations(friendship[f].from, friendship[f].to) = {c}
                 /\ \A u \in {friendship[f].from, friendship[f].to} :
                       /\ ListFriends(u)[f] = {c}
                       /\ [user |-> u, conversation |-> c] \in readStates
    BY DEF FriendsShareOneConversation
  <2>. DEFINE u == friendship[f].from
              v == friendship[f].to
              c == OrderedPair(u, v)
  <2>1. /\ u \in Users /\ v \in Users /\ u # v /\ c \in conversations
        /\ [user |-> u, conversation |-> c] \in readStates
        /\ [user |-> v, conversation |-> c] \in readStates
    BY DEF IInv, FriendshipInv
  <2>2. u \in Nat /\ v \in Nat
    BY <2>1, ConstantsAssumption
  <2>3. ASSUME NEW d \in conversations, Participants(d) = {u, v}
        PROVE  d = c
    <3>1. PICK a \in Users, b \in Users : d = OrderedPair(a, b)
      BY ConversationIsPair DEF IInv, TypeOK
    <3>2. a \in Nat /\ b \in Nat
      BY ConstantsAssumption
    <3>3. {a, b} = {u, v}
      BY <2>3, <3>1 DEF Participants, OrderedPair
    <3>4. (a = u /\ b = v) \/ (a = v /\ b = u)
      <4>1. a \in {u, v} /\ b \in {u, v} /\ u \in {a, b} /\ v \in {a, b}
        BY <3>3
      <4>. QED
        BY <2>1, <4>1
    <3>. QED
      BY <2>2, <3>1, <3>4 DEF OrderedPair
  <2>4. Participants(c) = {u, v} /\ c[1] < c[2]
    BY <2>1, <2>2 DEF Participants, OrderedPair
  <2>. HIDE DEF c
  <2>5. DirectConversations(u, v) = {c} /\ FriendshipSummary(f) = {c}
    BY <2>1, <2>3, <2>4 DEF DirectConversations, FriendshipSummary
  <2>6. \A w \in {u, v} : ListFriends(w)[f] = {c}
    BY <2>5 DEF ListFriends
  <2>. QED
    BY <2>1, <2>5, <2>6
<1>. QED
  BY <1>1, AlwaysIInv, PTL

(* createFriendRequest has no index behind its look-up: requests that      *)
(* cross leave several relations of a pair, and never more than there are  *)
(* requests at a time.                                                     *)
THEOREM RelationsOfAPairAreFew == Spec => []FewActiveRelations
<1>1. IInv => FewActiveRelations
  <2>. SUFFICES ASSUME IInv, NEW u \in Users, NEW v \in Users, u # v
       PROVE  Cardinality(Active(u, v)) <= Cardinality(Handlers)
    BY DEF FewActiveRelations, Active
  <2>1. /\ IsFiniteSet(Active(u, v))
        /\ Cardinality(Active(u, v)) + Cardinality(Asking(u, v)) <= Cardinality(Handlers)
    BY DEF IInv, CountInv
  <2>2. Cardinality(Active(u, v)) \in Nat
    BY <2>1, FS_CardinalityType
  <2>. QED
    BY <2>1, <2>2, AskingIsFinite
<1>. QED
  BY <1>1, AlwaysIInv, PTL

(* getAttachmentAccess: a download URL goes to the owner of a file or to a *)
(* participant of a conversation it was sent in, although the check takes  *)
(* any one of the messages and acts on it later.                           *)
THEOREM FilesAlwaysStayInConversations == Spec => []FilesStayInConversations
<1>1. IInv => FilesStayInConversations
  BY DEF IInv, GrantedInv, FilesStayInConversations
<1>. QED
  BY <1>1, AlwaysIInv, PTL

(* getFriendshipForUpdate: of two answers to one request the later is      *)
(* refused, and a decision stands.                                         *)
THEOREM RequestsAreDecidedOnce == Spec => DecidedOnce
<1>1. IInv /\ [Next]_vars =>
        [\A f \in Friendships : friendship[f].status \in {"accepted", "rejected"} =>
             friendship'[f].status = friendship[f].status]_vars
  BY FriendshipStep
<1>. QED
  BY <1>1, AlwaysIInv, PTL DEF Spec, DecidedOnce
=============================================================================
