----------------------------- MODULE ReadStates -----------------------------
(***************************************************************************)
(* Messages of one channel or direct conversation and the read_states rows *)
(* of its readers: sendChannelMessage, sendDirectMessage, markRead and     *)
(* deleteMessage of MessagesService with the statements of                 *)
(* MessagesRepository.  Each statement reads the rows committed when it    *)
(* starts, and waits for a row another transaction has written; what a     *)
(* transaction writes appears at its commit.  The readers stay the same,   *)
(* and each has the row that joining or creating the channel seeds.        *)
(***************************************************************************)
EXTENDS Naturals, FiniteSets

CONSTANTS
    Users,             \* readers of the channel, or the two participants
    Keys,              \* client_message_id values
    Requests,          \* requests in flight
    MaxMessages,       \* bound on the messages ever sent
    Truncated,         \* the start of the millisecond of each time
    Direct,            \* a direct conversation instead of a channel
    SerialUsers,       \* users who wait for one answer before the next request
    Conversation,      \* the row of direct_conversations
    None

(* A message is named by its created_at, the time its transaction began: no *)
(* two transactions begin in the same microsecond.  Time 0, before them     *)
(* all, is also the NULL of last_read_message_id.                           *)
Ids == 1 .. MaxMessages
Times == 0 .. MaxMessages

ASSUME ConstantsAssumption ==
    /\ IsFiniteSet(Users)
    /\ MaxMessages \in Nat
    /\ Direct \in BOOLEAN
    /\ SerialUsers \subseteq Users
    /\ None \notin Users \cup Keys
    /\ Conversation \notin Users

(* A column of type timestamptz(6) reaches JavaScript as a Date, in         *)
(* milliseconds.                                                            *)
ASSUME TruncationAssumption ==
    /\ Truncated \in [Times -> Times]
    /\ \A t \in Times : Truncated[t] <= t
    /\ \A s, t \in Times : s <= t => Truncated[s] <= Truncated[t]

VARIABLES
    message, \* the committed row of each message
    state,   \* the committed read_states row of each user
    clock,   \* the last time a send began
    job      \* what each request is doing

vars == <<message, state, clock, job>>

-----------------------------------------------------------------------------

Message == [status : {"absent", "visible", "retracted", "deleted"},
            sender : Users \cup {None},
            key    : Keys \cup {None}]

ReadState == [read : Times, unread : Nat]

Steps == {"idle", "insert", "touch", "markOwn", "count", "check", "recount",
          "upsert", "delete", "recompute"}

(* A job: its step, user and message (the one it sends, marks or deletes);  *)
(* the rows it has locked; the messages its last statement sees, and those  *)
(* of them that are visible; the visibility a deletion writes.              *)
Job == [pc      : Steps,
        user    : Users \cup {None},
        key     : Keys \cup {None},
        message : Times,
        locked  : SUBSET (Users \cup {Conversation}),
        stored  : SUBSET Ids,
        visible : SUBSET Ids,
        as      : {"retracted", "deleted"}]

IdleJob == [pc |-> "idle", user |-> None, key |-> None, message |-> 0,
            locked |-> {}, stored |-> {}, visible |-> {}, as |-> "deleted"]

TypeOK ==
    /\ message \in [Ids -> Message]
    /\ state \in [Users -> ReadState]
    /\ clock \in Times
    /\ job \in [Requests -> Job]

Init ==
    /\ message = [m \in Ids |-> [status |-> "absent", sender |-> None, key |-> None]]
    /\ state = [u \in Users |-> [read |-> 0, unread |-> 0]]
    /\ clock = 0
    /\ job = [h \in Requests |-> IdleJob]

Stored == {m \in Ids : message[m].status # "absent"}
Visible == {m \in Ids : message[m].status = "visible"}

Free(h, r) == \A g \in Requests \ {h} : r \notin job[g].locked

Become(h, record) == job' = [job EXCEPT ![h] = record]
Finish(h) == Become(h, IdleJob)

MayRequest(h, u) ==
    /\ job[h].pc = "idle"
    /\ u \in SerialUsers => \A g \in Requests : job[g].user # u

(* The request fails and its transaction, if it has one, rolls back: a       *)
(* refusal, a unique violation, a statement timeout, or the deadlock        *)
(* detector choosing it.                                                    *)
Fail(h) ==
    /\ job[h].pc # "idle"
    /\ Finish(h)
    /\ UNCHANGED <<message, state, clock>>

-----------------------------------------------------------------------------
(* Sending.                                                                 *)

(* findExistingChannelMessage, findExistingDirectMessage. *)
Existing(u, k) == {m \in Stored : message[m].sender = u /\ message[m].key = k}

(* The transaction begins and the lookup returns no row; had it returned    *)
(* one, the request would answer with it and change nothing.                *)
SendBegin(h, u, k) ==
    /\ MayRequest(h, u)
    /\ clock < MaxMessages
    /\ k = None \/ Existing(u, k) = {}
    /\ clock' = clock + 1
    /\ Become(h, [IdleJob EXCEPT !.pc = "insert", !.user = u, !.key = k,
                                 !.message = clock + 1])
    /\ UNCHANGED <<message, state>>

(* Steps of a send whose row of messages is inserted but not committed.     *)
Inserted == {"touch", "markOwn", "count"}

SameKey(h, u, k) == k # None /\ job[h].user = u /\ job[h].key = k

(* Faulty variant: the indexes on the key are not unique. *)
KeyIsFreeAlways(u, k) == TRUE

(* The unique indexes on (sender, channel or conversation, key): an insert  *)
(* waits for another that has not committed and fails after one that has.   *)
KeyIsFree(u, k) ==
    /\ \A m \in Stored : k = None \/ message[m].sender # u \/ message[m].key # k
    /\ \A g \in Requests : job[g].pc \in Inserted => ~SameKey(g, u, k)

(* insertMessage; only a direct message goes on to touch the conversation.  *)
SendInsert(h) ==
    /\ job[h].pc = "insert"
    /\ KeyIsFree(job[h].user, job[h].key)
    /\ Become(h, [job[h] EXCEPT !.pc = IF Direct THEN "touch" ELSE "markOwn"])
    /\ UNCHANGED <<message, state, clock>>

(* Faulty variant: the conversation is left alone. *)
SendSkipsConversation(h) ==
    /\ job[h].pc = "touch"
    /\ Become(h, [job[h] EXCEPT !.pc = "markOwn"])
    /\ UNCHANGED <<message, state, clock>>

(* updateDirectConversationLastMessage. *)
SendTouchConversation(h) ==
    /\ job[h].pc = "touch"
    /\ Free(h, Conversation)
    /\ Become(h, [job[h] EXCEPT !.pc = "markOwn", !.locked = {Conversation}])
    /\ UNCHANGED <<message, state, clock>>

(* markSenderReadChannel, markSenderReadDirect: the sender's own row. *)
SendMarkOwn(h) ==
    /\ job[h].pc = "markOwn"
    /\ Free(h, job[h].user)
    /\ Become(h, [job[h] EXCEPT !.pc = "count", !.locked = @ \cup {job[h].user}])
    /\ UNCHANGED <<message, state, clock>>

(* incrementChannelUnread, incrementDirectUnread: the rows of the others,   *)
(* in the order the readers were listed, which no ORDER BY fixes.           *)
SendCount(h, u) ==
    /\ job[h].pc = "count"
    /\ u \notin job[h].locked
    /\ Free(h, u)
    /\ Become(h, [job[h] EXCEPT !.locked = @ \cup {u}])
    /\ UNCHANGED <<message, state, clock>>

(* The row a send leaves to user u. *)
AfterSend(s, u, sender, m) ==
    IF u = sender THEN [read |-> m, unread |-> 0]
                  ELSE [read |-> s.read, unread |-> s.unread + 1]

SendCommit(h) ==
    /\ job[h].pc = "count"
    /\ Users \subseteq job[h].locked
    /\ message' = [message EXCEPT ![job[h].message] =
                     [status |-> "visible", sender |-> job[h].user, key |-> job[h].key]]
    /\ state' = [u \in Users |-> AfterSend(state[u], u, job[h].user, job[h].message)]
    /\ Finish(h)
    /\ UNCHANGED clock

-----------------------------------------------------------------------------
(* Marking as read.  markRead opens a transaction, but its statements run   *)
(* outside of it, each on its own.                                          *)

(* findMessageInScope. *)
InScope == {m \in Ids : message[m].status = "visible"}

(* The target is found. *)
MarkFind(h, u, m) ==
    /\ MayRequest(h, u)
    /\ m \in InScope
    /\ Become(h, [IdleJob EXCEPT !.pc = "check", !.user = u, !.message = m])
    /\ UNCHANGED <<message, state, clock>>

(* Faulty variant: the current position is not looked at. *)
MarkCheckNothing(h) ==
    /\ job[h].pc = "check"
    /\ Become(h, [job[h] EXCEPT !.pc = "recount"])
    /\ UNCHANGED <<message, state, clock>>

(* findCurrentReadState: the time of the message last read, as JavaScript    *)
(* has it.                                                                  *)
Position(u) == Truncated[state[u].read]

(* A position that would move backwards is refused. *)
MarkCheck(h) ==
    /\ job[h].pc = "check"
    /\ Position(job[h].user) <= Truncated[job[h].message]
    /\ Become(h, [job[h] EXCEPT !.pc = "recount"])
    /\ UNCHANGED <<message, state, clock>>

(* upsertChannelReadStateAtMessage, upsertDirectReadStateAtMessage begin:   *)
(* the messages the subquery counts are those committed now.                *)
MarkRecount(h) ==
    /\ job[h].pc = "recount"
    /\ Become(h, [job[h] EXCEPT !.pc = "upsert", !.visible = Visible])
    /\ UNCHANGED <<message, state, clock>>

(* Faulty variant: what the mark covers is subtracted from the count. *)
MarkUpsertSubtracts(h) ==
    /\ job[h].pc = "upsert"
    /\ LET u == job[h].user
           covered == {m \in job[h].visible : /\ m > state[u].read
                                              /\ m <= job[h].message
                                              /\ message[m].sender # u}
       IN  /\ Free(h, u)
           /\ state' = [state EXCEPT ![u] =
                          [read |-> job[h].message,
                           unread |-> state[u].unread - Cardinality(covered)]]
    /\ Finish(h)
    /\ UNCHANGED <<message, clock>>

(* The upsert gets the row.  The target's time came from JavaScript. *)
MarkUpsert(h) ==
    /\ job[h].pc = "upsert"
    /\ LET u == job[h].user
           later == {m \in job[h].visible : /\ m > Truncated[job[h].message]
                                            /\ message[m].sender # u}
       IN  /\ Free(h, u)
           /\ state' = [state EXCEPT ![u] = [read |-> job[h].message,
                                             unread |-> Cardinality(later)]]
    /\ Finish(h)
    /\ UNCHANGED <<message, clock>>

-----------------------------------------------------------------------------
(* Deleting.                                                                *)

(* findVisibleMessageWithDeletion and the authorization: senders retract    *)
(* their own; whoever manages the channel deletes any.                      *)
DeleteFind(h, u, m) ==
    /\ MayRequest(h, u)
    /\ m \in Visible
    /\ \E as \in {"retracted", "deleted"} :
         /\ IF as = "retracted" THEN message[m].sender = u ELSE ~Direct
         /\ Become(h, [IdleJob EXCEPT !.pc = "delete", !.user = u, !.message = m,
                                      !.as = as])
    /\ UNCHANGED <<message, state, clock>>

(* markMessageDeleted, which waits for another deletion of the message, and *)
(* the start of the recount that follows.                                   *)
DeleteMark(h) ==
    /\ job[h].pc = "delete"
    /\ job[h].message \in Visible
    /\ \A g \in Requests : job[g].pc = "recompute" => job[g].message # job[h].message
    /\ Become(h, [job[h] EXCEPT !.pc = "recompute", !.stored = Stored,
                                !.visible = Visible \ {job[h].message}])
    /\ UNCHANGED <<message, state, clock>>

(* recomputeChannelUnreadAfterDelete, recomputeDirectUnreadAfterDelete      *)
(* reach the next row, in any order.                                        *)
DeleteRecompute(h, u) ==
    /\ job[h].pc = "recompute"
    /\ u \notin job[h].locked
    /\ Free(h, u)
    /\ Become(h, [job[h] EXCEPT !.locked = @ \cup {u}])
    /\ UNCHANGED <<message, state, clock>>

(* A position that the statement does not see compares as NULL. *)
Recomputed(u, stored, visible) ==
    Cardinality({m \in visible : /\ message[m].sender # u
                                 /\ state[u].read \in stored \cup {0}
                                 /\ m > state[u].read})

DeleteCommit(h) ==
    /\ job[h].pc = "recompute"
    /\ Users \subseteq job[h].locked
    /\ message' = [message EXCEPT ![job[h].message].status = job[h].as]
    /\ state' = [u \in Users |->
                   [read |-> state[u].read,
                    unread |-> Recomputed(u, job[h].stored, job[h].visible)]]
    /\ Finish(h)
    /\ UNCHANGED clock

-----------------------------------------------------------------------------

(* One step of sendChannelMessage or sendDirectMessage. *)
Send(h) ==
    \/ \E u \in Users, k \in Keys \cup {None} : SendBegin(h, u, k)
    \/ SendInsert(h)
    \/ SendTouchConversation(h)
    \/ SendMarkOwn(h)
    \/ \E u \in Users : SendCount(h, u)
    \/ SendCommit(h)

(* One step of markRead. *)
Mark(h) ==
    \/ \E u \in Users, m \in Ids : MarkFind(h, u, m)
    \/ MarkCheck(h)
    \/ MarkRecount(h)
    \/ MarkUpsert(h)

(* One step of deleteMessage. *)
Delete(h) ==
    \/ \E u \in Users, m \in Ids : DeleteFind(h, u, m)
    \/ DeleteMark(h)
    \/ \E u \in Users : DeleteRecompute(h, u)
    \/ DeleteCommit(h)

Next == \E h \in Requests : Send(h) \/ Mark(h) \/ Delete(h) \/ Fail(h)

Spec == Init /\ [][Next]_vars

-----------------------------------------------------------------------------
(* Properties.                                                              *)

(* A message sent again under its client_message_id, after a lost answer or *)
(* while the first attempt still runs, is stored once: the lookup alone     *)
(* could not promise it, the index and its waiting insert do.               *)
StoredOnce ==
    \A m, n \in Stored :
        /\ message[m].sender = message[n].sender
        /\ message[m].key = message[n].key
        /\ message[m].key # None
        => m = n

(* "A read position moving backwards is refused" (03-module-design.md:147): *)
(* whatever sends, marks and deletions of others interleave, no step takes  *)
(* the position of a user with one request at a time to an earlier          *)
(* millisecond.                                                             *)
ReadPositionAdvances ==
    [][\A u \in SerialUsers : Truncated[state[u].read] <= Truncated[state'[u].read]]_vars

WaitsFor(g, h) ==
    /\ g # h
    /\ \/ job[g].pc = "touch" /\ Conversation \in job[h].locked
       \/ job[g].pc = "markOwn" /\ job[g].user \in job[h].locked
       \/ job[g].pc = "count" /\ (Users \ job[g].locked) \cap job[h].locked # {}

Sending == {h \in Requests : job[h].pc \in {"touch", "markOwn", "count"}}

(* Two direct messages crossing each other take the two read states in      *)
(* opposite orders; the conversation row, taken first, keeps them from      *)
(* waiting for each other.                                                  *)
CrossingMessagesPass ==
    Direct => \A g, h \in Sending : ~(WaitsFor(g, h) /\ WaitsFor(h, g))
=============================================================================
