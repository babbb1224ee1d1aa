---------------------------- MODULE VoiceProofs ----------------------------
(***************************************************************************)
(* Theorems about voice: of the server, VoiceSessions, for any sets of     *)
(* users, channels, session ids and jobs; and of the client, VoiceClient,  *)
(* for any number of starts, any producers of others and any number of     *)
(* requests to consume them.  The two specifications share no state: what  *)
(* is of the client is named so.                                           *)
(***************************************************************************)
EXTENDS VoiceSessions, VoiceClient, FiniteSetTheorems, TLAPS

(***************************************************************************)
(* The server.                                                             *)
(***************************************************************************)

(* Each action that changes row, alone in its disjunct.                     *)
LEMMA RowSteps ==
  ASSUME [Next]_vars
  PROVE  \/ row' = row
         \/ \E h \in Handlers : JoinCommit(h)
         \/ \E h \in Handlers : UpdateCommit(h)
         \/ \E h \in Handlers : ProduceUpdate(h)
         \/ \E j \in Jobs : EndCommit(j)
         \/ \E b \in Background, c \in Channels : WorkerDied(b, c)
         \/ \E s \in Sessions : DeadlinePasses(s)
<1>1. CASE UNCHANGED vars
  BY <1>1 DEF vars
<1>2. ASSUME NEW h \in Handlers, RequestStep(h)
      PROVE  row' = row \/ JoinCommit(h) \/ UpdateCommit(h) \/ ProduceUpdate(h)
  BY <1>2 DEF RequestStep, JoinAuthorize, JoinPrepare, JoinRefuse, JoinReadPrevious,
              LeaveSession, UpdateRead, ProduceAuthorize, ProduceFails
<1>3. ASSUME NEW m \in Moderators, ChannelStep(m)
      PROVE  row' = row
  BY <1>3 DEF ChannelStep, DeleteChannel, OverwriteChannel, RecheckChannel,
              ChangeRoles, RecheckMember, OuterCommit
<1>4. ASSUME NEW b \in Background, BackgroundStep(b)
      PROVE  row' = row \/ \E c \in Channels : WorkerDied(b, c)
  BY <1>4 DEF BackgroundStep, SweepNegotiations, ReleaseUser
<1>5. ASSUME NEW j \in Jobs, TransactionStep(j)
      PROVE  row' = row \/ EndCommit(j)
  BY <1>5 DEF TransactionStep, Rollback
<1>. QED
  BY <1>1, <1>2, <1>3, <1>4, <1>5 DEF Next

-----------------------------------------------------------------------------
(* Types.                                                                   *)

LEMMA EndedRowType ==
  ASSUME NEW r \in Row, NEW ended \in {"IDLE", "FAILED"}
  PROVE  EndedRow(r, ended) \in Row
BY DEF EndedRow, Row, ConnStatuses

LEMMA EndSessionsType ==
  ASSUME NEW rows \in [Sessions -> Row], NEW S
  PROVE  EndSessions(rows, S) \in [Sessions -> Row]
BY EndedRowType DEF EndSessions

LEMMA IdleJobType == IdleJob \in Job
BY DEF IdleJob, Job, Steps, ConnStatuses

LEMMA BecomeType ==
  ASSUME job \in [Jobs -> Job], NEW j \in Jobs, NEW record \in Job, Become(j, record)
  PROVE  job' \in [Jobs -> Job]
BY DEF Become

LEMMA BeginEndType ==
  ASSUME job \in [Jobs -> Job], NEW j \in Jobs,
         NEW u \in Users \cup {None}, NEW S \in SUBSET Sessions, BeginEnd(j, u, S)
  PROVE  job' \in [Jobs -> Job]
<1>. [IdleJob EXCEPT !.pc = "end", !.user = u, !.doomed = S] \in Job
  BY IdleJobType DEF Job, Steps
<1>. QED
  BY BecomeType DEF BeginEnd

LEMMA FinishType ==
  ASSUME job \in [Jobs -> Job], NEW j \in Jobs, Finish(j)
  PROVE  job' \in [Jobs -> Job]
BY BecomeType, IdleJobType DEF Finish

LEMMA RowTypeStep ==
  ASSUME TypeOK, [Next]_vars
  PROVE  row' \in [Sessions -> Row]
<1>. USE DEF TypeOK
<1>1. ASSUME NEW h \in Handlers, JoinCommit(h)
      PROVE  row' \in [Sessions -> Row]
  <2>. NewRow(job[h].user, job[h].channel, job[h].overlaps) \in Row
    BY DEF NewRow, Row, ConnStatuses, Job, Jobs
  <2>. QED
    BY <1>1, EndSessionsType DEF JoinCommit
<1>2. ASSUME NEW h \in Handlers, UpdateCommit(h)
      PROVE  row' \in [Sessions -> Row]
  <2>. job[h].conn \in ConnStatuses
    BY DEF Job, Jobs
  <2>. ASSUME NEW r \in Row, NEW conn \in ConnStatuses
       PROVE  UpdatedRow(r, conn) \in Row
    BY DEF UpdatedRow, Row
  <2>. QED
    BY <1>2 DEF UpdateCommit
<1>3. ASSUME NEW h \in Handlers, ProduceUpdate(h)
      PROVE  row' \in [Sessions -> Row]
  <2>. ASSUME NEW r \in Row PROVE ProducingRow(r) \in Row
    BY DEF ProducingRow, Row, ConnStatuses
  <2>. QED
    BY <1>3 DEF ProduceUpdate
<1>4. ASSUME NEW j \in Jobs, EndCommit(j)
      PROVE  row' \in [Sessions -> Row]
  BY <1>4, EndSessionsType DEF EndCommit
<1>5. ASSUME NEW b \in Background, NEW c \in Channels, WorkerDied(b, c)
      PROVE  row' \in [Sessions -> Row]
  BY <1>5, EndedRowType DEF WorkerDied
<1>6. ASSUME NEW s \in Sessions, DeadlinePasses(s)
      PROVE  row' \in [Sessions -> Row]
  BY <1>6 DEF DeadlinePasses, Row
<1>. QED
  BY <1>1, <1>2, <1>3, <1>4, <1>5, <1>6, RowSteps

LEMMA JobTypeRequest ==
  ASSUME TypeOK, NEW h \in Handlers, RequestStep(h)
  PROVE  job' \in [Jobs -> Job]
<1>. h \in Jobs /\ job \in [Jobs -> Job] /\ job[h] \in Job
  BY DEF TypeOK, Jobs
<1>1. ASSUME NEW u \in Users, NEW c \in Channels, JoinAuthorize(h, u, c)
      PROVE  job' \in [Jobs -> Job]
  <2>. [IdleJob EXCEPT !.pc = "joinCapacity", !.user = u, !.channel = c] \in Job
    BY IdleJobType DEF Job, Steps
  <2>. QED
    BY <1>1, BecomeType DEF JoinAuthorize
<1>2. CASE JoinPrepare(h)
  <2>. [job[h] EXCEPT !.pc = "joinTx"] \in Job
    BY DEF Job, Steps
  <2>. QED
    BY <1>2, BecomeType DEF JoinPrepare
<1>3. CASE JoinReadPrevious(h)
  <2>1. ASSUME NEW S \in SUBSET Sessions, NEW o \in BOOLEAN
        PROVE  [job[h] EXCEPT !.pc = "joinWrite", !.doomed = S, !.overlaps = o] \in Job
    BY DEF Job, Steps
  <2>. QED
    BY <1>3, <2>1, BecomeType DEF JoinReadPrevious, ActiveOf
<1>4. ASSUME NEW u \in Users, LeaveSession(h, u)
      PROVE  job' \in [Jobs -> Job]
  BY <1>4, BeginEndType DEF LeaveSession, ActiveOf
<1>5. ASSUME NEW u \in Users, UpdateRead(h, u)
      PROVE  job' \in [Jobs -> Job]
  <2>1. PICK s \in ActiveOf(u) : \E conn \in ClientStatuses \cup {row[s].conn} :
         Become(h, [IdleJob EXCEPT !.pc = "update", !.user = u, !.session = s,
                                   !.conn = conn])
    BY <1>5 DEF UpdateRead
  <2>2. s \in Sessions /\ ClientStatuses \cup {row[s].conn} \subseteq ConnStatuses
    BY ConstantsAssumption DEF ActiveOf, TypeOK, Row
  <2>3. ASSUME NEW conn \in ConnStatuses
        PROVE  [IdleJob EXCEPT !.pc = "update", !.user = u, !.session = s,
                               !.conn = conn] \in Job
    BY <2>2, IdleJobType DEF Job, Steps
  <2>. QED
    BY <2>1, <2>2, <2>3, BecomeType
<1>6. ASSUME NEW u \in Users, ProduceAuthorize(h, u)
      PROVE  job' \in [Jobs -> Job]
  <2>. ASSUME NEW s \in Sessions
       PROVE  [IdleJob EXCEPT !.pc = "produce", !.user = u, !.session = s] \in Job
    BY IdleJobType DEF Job, Steps
  <2>. QED
    BY <1>6, BecomeType DEF ProduceAuthorize, ActiveOf
<1>7. CASE Finish(h)
  BY <1>7, FinishType
<1>. QED
  BY <1>1, <1>2, <1>3, <1>4, <1>5, <1>6, <1>7
  DEF RequestStep, JoinRefuse, JoinCommit, UpdateCommit, ProduceUpdate, ProduceFails

LEMMA EndFirstType ==
  ASSUME NEW j \in Job, NEW S \in SUBSET Sessions, NEW next \in {"recheck", "outerCommit"}
  PROVE  EndFirst(j, S, next) \in Job
<1>1. [j EXCEPT !.pc = next] \in Job
  BY DEF Job, Steps
<1>2. [j EXCEPT !.pc = "end", !.doomed = S, !.after = next] \in Job
  BY DEF Job, Steps
<1>. QED
  BY <1>1, <1>2 DEF EndFirst

LEMMA JobTypeChannel ==
  ASSUME TypeOK, NEW m \in Moderators, ChannelStep(m)
  PROVE  job' \in [Jobs -> Job]
<1>. m \in Jobs /\ job \in [Jobs -> Job] /\ job[m] \in Job
  BY DEF TypeOK, Jobs
<1>1. ASSUME NEW c \in Channels, DeleteChannel(m, c)
      PROVE  job' \in [Jobs -> Job]
  <2>1. [IdleJob EXCEPT !.channel = c, !.outer = "delete"] \in Job
    BY IdleJobType DEF Job
  <2>2. ActiveIn(c) \in SUBSET Sessions
    BY DEF ActiveIn
  <2>. QED
    BY <1>1, <2>1, <2>2, EndFirstType, BecomeType DEF DeleteChannel, ReleasingChannel
<1>2. ASSUME NEW c \in Channels, NEW u \in Users, OverwriteChannel(m, c, u)
      PROVE  job' \in [Jobs -> Job]
  <2>. [IdleJob EXCEPT !.pc = "recheck", !.user = u, !.channel = c,
                       !.outer = "overwrite"] \in Job
    BY IdleJobType DEF Job, Steps
  <2>. QED
    BY <1>2, BecomeType DEF OverwriteChannel
<1>3. CASE RecheckChannel(m)
  BY <1>3, EndFirstType, BecomeType DEF RecheckChannel, ActiveIn
<1>4. CASE OuterCommit(m)
  BY <1>4, FinishType DEF OuterCommit
<1>5. ASSUME NEW u \in Users, ChangeRoles(m, u)
      PROVE  job' \in [Jobs -> Job]
  <2>. [IdleJob EXCEPT !.pc = "recheckMember", !.user = u, !.outer = "roles"] \in Job
    BY IdleJobType DEF Job, Steps
  <2>. QED
    BY <1>5, BecomeType DEF ChangeRoles
<1>6. CASE RecheckMember(m)
  BY <1>6, EndFirstType, BecomeType DEF RecheckMember, HeldByMember, ActiveOf
<1>. QED
  BY <1>1, <1>2, <1>3, <1>4, <1>5, <1>6 DEF ChannelStep

LEMMA JobTypeStep ==
  ASSUME TypeOK, [Next]_vars
  PROVE  job' \in [Jobs -> Job]
<1>. job \in [Jobs -> Job]
  BY DEF TypeOK
<1>1. ASSUME NEW b \in Background, BackgroundStep(b)
      PROVE  job' \in [Jobs -> Job]
  <2>. b \in Jobs
    BY DEF Jobs
  <2>1. CASE SweepNegotiations(b)
    BY <2>1, BeginEndType DEF SweepNegotiations, Expired
  <2>2. ASSUME NEW u \in Users, ReleaseUser(b, u)
        PROVE  job' \in [Jobs -> Job]
    BY <2>2, BeginEndType DEF ReleaseUser, ActiveOf
  <2>. QED
    BY <1>1, <2>1, <2>2 DEF BackgroundStep, WorkerDied
<1>2. ASSUME NEW j \in Jobs, TransactionStep(j)
      PROVE  job' \in [Jobs -> Job]
  <2>1. CASE EndCommit(j)
    <3>. PICK record : record \in Job /\ Become(j, record)
      <4>1. job[j] \in Job /\ job[j].after \in Steps
        BY DEF Job, Steps
      <4>2. ASSUME NEW x \in Job, NEW pc \in Steps
            PROVE  [x EXCEPT !.pc = pc, !.doomed = {}, !.after = "idle"] \in Job
        BY DEF Job
      <4>. QED
        BY <2>1, <4>1, <4>2, IdleJobType DEF EndCommit
    <3>. QED
      BY BecomeType
  <2>2. CASE Rollback(j)
    BY <2>2, FinishType DEF Rollback
  <2>. QED
    BY <1>2, <2>1, <2>2 DEF TransactionStep
<1>3. ASSUME NEW s \in Sessions, DeadlinePasses(s)
      PROVE  job' \in [Jobs -> Job]
  BY <1>3 DEF DeadlinePasses
<1>. QED
  BY <1>1, <1>2, <1>3, JobTypeRequest, JobTypeChannel DEF Next, vars

LEMMA ChannelsShrink ==
  ASSUME [Next]_vars
  PROVE  live' \subseteq live /\ allowed' \subseteq allowed
<1>1. ASSUME NEW m \in Moderators, ChannelStep(m)
      PROVE  live' \subseteq live /\ allowed' \subseteq allowed
  BY <1>1 DEF ChannelStep, DeleteChannel, OverwriteChannel, RecheckChannel,
              ChangeRoles, RecheckMember, OuterCommit
<1>2. ASSUME NEW h \in Handlers, RequestStep(h)
      PROVE  UNCHANGED <<live, allowed>>
  BY <1>2 DEF RequestStep, JoinAuthorize, JoinPrepare, JoinRefuse, JoinReadPrevious,
              JoinCommit, LeaveSession, UpdateRead, UpdateCommit, ProduceAuthorize,
              ProduceUpdate, ProduceFails
<1>3. ASSUME NEW b \in Background, BackgroundStep(b)
      PROVE  UNCHANGED <<live, allowed>>
  BY <1>3 DEF BackgroundStep, SweepNegotiations, ReleaseUser, WorkerDied
<1>. QED
  BY <1>1, <1>2, <1>3 DEF Next, vars, TransactionStep, EndCommit, Rollback, DeadlinePasses

LEMMA TypeStep ==
  ASSUME TypeOK, [Next]_vars
  PROVE  TypeOK'
BY RowTypeStep, JobTypeStep, ChannelsShrink DEF TypeOK

(* The types of the rows, of the channel and permission state and of what   *)
(* every handler has read: no interleaving puts a value in a column that    *)
(* the schema does not have.                                                *)
THEOREM TypesHold == Spec => []TypeOK
<1>1. Init => TypeOK
  BY IdleJobType DEF Init, TypeOK, NoRow, Row, ConnStatuses
<1>2. TypeOK /\ [Next]_vars => TypeOK'
  BY TypeStep
<1>. QED
  BY <1>1, <1>2, PTL DEF Spec

-----------------------------------------------------------------------------
(* The rows: every writer guards its UPDATE with ended_at IS NULL.          *)

(* What each writer leaves of one row.                                      *)
LEMMA RowEffect ==
  ASSUME TypeOK, [Next]_vars, NEW s \in Sessions
  PROVE  \/ row'[s] = row[s]
         \/ /\ row[s].status = "absent"
            /\ \E h \in Handlers : /\ JoinCommit(h)
                                   /\ row'[s] = NewRow(job[h].user, job[h].channel, job[h].overlaps)
         \/ /\ Active(s)
            /\ \/ \E ended \in {"IDLE", "FAILED"} : row'[s] = EndedRow(row[s], ended)
               \/ \E conn \in ConnStatuses : row'[s] = [row[s] EXCEPT !.conn = conn]
               \/ row'[s] = ProducingRow(row[s])
               \/ /\ row[s].deadline = "pending"
                  /\ row'[s] = [row[s] EXCEPT !.deadline = "passed"]
<1>. row \in [Sessions -> Row]
  BY DEF TypeOK
<1>1. ASSUME NEW h \in Handlers, JoinCommit(h)
      PROVE  \/ row'[s] = row[s]
             \/ row[s].status = "absent" /\ row'[s] = NewRow(job[h].user, job[h].channel, job[h].overlaps)
             \/ Active(s) /\ row'[s] = EndedRow(row[s], "IDLE")
  BY <1>1 DEF JoinCommit, IsNextId, EndSessions, Active
<1>2. ASSUME NEW h \in Handlers, UpdateCommit(h)
      PROVE  \/ row'[s] = row[s]
             \/ Active(s) /\ row'[s] = [row[s] EXCEPT !.conn = job[h].conn]
  BY <1>2 DEF UpdateCommit, UpdatedRow
<1>3. ASSUME NEW h \in Handlers, ProduceUpdate(h)
      PROVE  \/ row'[s] = row[s]
             \/ Active(s) /\ row'[s] = ProducingRow(row[s])
  BY <1>3 DEF ProduceUpdate
<1>4. ASSUME NEW j \in Jobs, EndCommit(j)
      PROVE  \/ row'[s] = row[s]
             \/ Active(s) /\ row'[s] = EndedRow(row[s], "IDLE")
  BY <1>4 DEF EndCommit, EndSessions, Active
<1>5. ASSUME NEW b \in Background, NEW c \in Channels, WorkerDied(b, c)
      PROVE  \/ row'[s] = row[s]
             \/ Active(s) /\ row'[s] = EndedRow(row[s], "FAILED")
  BY <1>5 DEF WorkerDied, ActiveIn
<1>6. ASSUME NEW t \in Sessions, DeadlinePasses(t)
      PROVE  \/ row'[s] = row[s]
             \/ /\ Active(s)
                /\ row[s].deadline = "pending"
                /\ row'[s] = [row[s] EXCEPT !.deadline = "passed"]
  BY <1>6 DEF DeadlinePasses
<1>7. ASSUME NEW h \in Handlers
      PROVE  job[h].conn \in ConnStatuses
  BY DEF TypeOK, Job, Jobs
<1>. QED
  BY <1>1, <1>2, <1>3, <1>4, <1>5, <1>6, <1>7, RowSteps

(* An active row was active, for the same user in the same channel, or a    *)
(* join has just inserted it.                                               *)
LEMMA ActiveRowSteps ==
  ASSUME TypeOK, [Next]_vars, NEW s \in Sessions, row'[s].status = "active"
  PROVE  \/ /\ row[s].status = "active"
            /\ row[s].user = row'[s].user
            /\ row[s].channel = row'[s].channel
         \/ \E h \in Handlers : /\ JoinCommit(h)
                                /\ row'[s] = NewRow(job[h].user, job[h].channel, job[h].overlaps)
<1>1. ASSUME NEW ended, row'[s] = EndedRow(row[s], ended)
      PROVE  FALSE
  BY <1>1 DEF EndedRow, TypeOK, Row
<1>2. ASSUME \/ \E conn : row'[s] = [row[s] EXCEPT !.conn = conn]
             \/ row'[s] = ProducingRow(row[s])
             \/ row'[s] = [row[s] EXCEPT !.deadline = "passed"]
      PROVE  row'[s].user = row[s].user /\ row'[s].channel = row[s].channel
  BY <1>2 DEF ProducingRow, TypeOK, Row
<1>. QED
  BY <1>1, <1>2, RowEffect DEF Active

(* Whatever reads are stale when a handler writes, an ended session shows   *)
(* no live connection, media state or deadline again.                       *)
THEOREM EndedStaysClosed == Spec => []EndedIsClosed
<1>1. Init => EndedIsClosed
  BY DEF Init, EndedIsClosed, NoRow
<1>2. ASSUME TypeOK, EndedIsClosed, [Next]_vars
      PROVE  EndedIsClosed'
  <2>. SUFFICES ASSUME NEW s \in Sessions, row'[s].status = "ended"
                PROVE  /\ row'[s].conn = "DISCONNECTED"
                       /\ row'[s].media \in {"IDLE", "FAILED"}
                       /\ row'[s].deadline = "none"
    BY DEF EndedIsClosed
  <2>. row[s] \in Row
    BY <1>2 DEF TypeOK
  <2>1. CASE row'[s] = row[s]
    BY <1>2, <2>1 DEF EndedIsClosed
  <2>2. ASSUME NEW h \in Handlers, row'[s] = NewRow(job[h].user, job[h].channel, job[h].overlaps)
        PROVE  FALSE
    BY <2>2 DEF NewRow
  <2>3. ASSUME NEW ended \in {"IDLE", "FAILED"}, row'[s] = EndedRow(row[s], ended)
        PROVE  /\ row'[s].conn = "DISCONNECTED"
               /\ row'[s].media = ended
               /\ row'[s].deadline = "none"
    BY <2>3 DEF EndedRow, Row
  <2>4. ASSUME Active(s), \/ \E conn : row'[s] = [row[s] EXCEPT !.conn = conn]
                         \/ row'[s] = ProducingRow(row[s])
                         \/ row'[s] = [row[s] EXCEPT !.deadline = "passed"]
        PROVE  FALSE
    BY <2>4 DEF ProducingRow, Active, Row
  <2>. QED
    BY <1>2, <2>1, <2>2, <2>3, <2>4, RowEffect
<1>. QED
  BY <1>1, <1>2, TypesHold, PTL DEF Spec

(* No interleaving of produce with the sweep and the releases leaves an     *)
(* active session that neither has a producer nor is bound to be swept.     *)
THEOREM NegotiatesOrProduces == Spec => []NegotiatingOrProducing
<1>1. Init => NegotiatingOrProducing
  BY DEF Init, NegotiatingOrProducing, NoRow, Active
<1>2. ASSUME TypeOK, NegotiatingOrProducing, [Next]_vars
      PROVE  NegotiatingOrProducing'
  <2>. DEFINE NegotiatesOrProducesIn(r) ==
                \/ r.media = "NEGOTIATING" /\ r.deadline # "none"
                \/ r.media = "CONNECTED" /\ r.deadline = "none" /\ r.producer
  <2>. SUFFICES ASSUME NEW s \in Sessions, row'[s].status = "active"
                PROVE  NegotiatesOrProducesIn(row'[s])
    BY DEF NegotiatingOrProducing, Active
  <2>. HIDE DEF NegotiatesOrProducesIn
  <2>. row[s] \in Row
    BY <1>2 DEF TypeOK
  <2>1. CASE row'[s] = row[s]
    BY <1>2, <2>1 DEF NegotiatingOrProducing, Active, NegotiatesOrProducesIn
  <2>2. ASSUME NEW h \in Handlers, row'[s] = NewRow(job[h].user, job[h].channel, job[h].overlaps)
        PROVE  NegotiatesOrProducesIn(row'[s])
    BY <2>2 DEF NewRow, NegotiatesOrProducesIn
  <2>3. ASSUME NEW ended, row'[s] = EndedRow(row[s], ended)
        PROVE  FALSE
    BY <2>3 DEF EndedRow, Row
  <2>4. ASSUME Active(s), NEW conn, row'[s] = [row[s] EXCEPT !.conn = conn]
        PROVE  NegotiatesOrProducesIn(row'[s])
    <3>. /\ row'[s].media = row[s].media
         /\ row'[s].deadline = row[s].deadline
         /\ row'[s].producer = row[s].producer
      BY <2>4 DEF Row
    <3>. QED
      BY <1>2, <2>4 DEF NegotiatingOrProducing, NegotiatesOrProducesIn
  <2>5. ASSUME row'[s] = ProducingRow(row[s])
        PROVE  NegotiatesOrProducesIn(row'[s])
    BY <2>5 DEF ProducingRow, Row, NegotiatesOrProducesIn
  <2>6. ASSUME Active(s), row[s].deadline = "pending",
               row'[s] = [row[s] EXCEPT !.deadline = "passed"]
        PROVE  NegotiatesOrProducesIn(row'[s])
    <3>. row'[s].media = row[s].media /\ row'[s].deadline = "passed"
      BY <2>6 DEF Row
    <3>. QED
      BY <1>2, <2>6 DEF NegotiatingOrProducing, NegotiatesOrProducesIn
  <2>. QED
    BY <1>2, <2>1, <2>2, <2>3, <2>4, <2>5, <2>6, RowEffect
<1>. QED
  BY <1>1, <1>2, TypesHold, PTL DEF Spec

-----------------------------------------------------------------------------
(* What the handlers have read, and of whom.                                *)

Joining == {"joinCapacity", "joinTx", "joinWrite"}

(* Handler h takes a request of u: none starts past its first checks.       *)
Admits(h, u) ==
    /\ job[h].pc = "idle"
    /\ job'[h].user = u
    /\ job'[h].pc \notin {"joinTx", "joinWrite"}
    /\ job'[h].pc \in Joining => job'[h].channel \in Channels
    /\ job'[h].pc = "produce" => job'[h].session \in Sessions

(* A join goes on, for the user and channel it was authorised for.          *)
Continues(h) ==
    /\ job'[h].user = job[h].user
    /\ job'[h].channel = job[h].channel
    /\ \/ JoinPrepare(h) /\ job'[h].pc = "joinTx"
       \/ /\ job[h].pc = "joinTx" /\ job'[h].pc = "joinWrite"
          /\ row' = row /\ live' = live
          /\ job'[h].doomed \subseteq ActiveOf(job[h].user)
          /\ job'[h].doomed = {} => ActiveOf(job[h].user) = {}
          /\ job'[h].overlaps = (Writing(job[h].user) # {})

(* A request ends, or a transaction goes on to its next step.               *)
Concludes(h) ==
    /\ job'[h].pc \notin Joining \cup {"produce"}
    /\ job'[h].user \in {job[h].user, None}

LEMMA OwnJobMoves ==
  /\ \A h \in Handlers : RequestStep(h) => \E record : Become(h, record)
  /\ \A m \in Moderators : ChannelStep(m) => \E record : Become(m, record)
  /\ \A b \in Background : BackgroundStep(b)
                              => job' = job \/ \E record : Become(b, record)
  /\ \A j \in Jobs : TransactionStep(j) => \E record : Become(j, record)
<1>1. ASSUME NEW h \in Handlers, RequestStep(h)
      PROVE  \E record : Become(h, record)
  BY <1>1 DEF RequestStep, JoinAuthorize, JoinPrepare, JoinRefuse, JoinReadPrevious,
              JoinCommit, LeaveSession, UpdateRead, UpdateCommit, ProduceAuthorize,
              ProduceUpdate, ProduceFails, Finish, BeginEnd
<1>2. ASSUME NEW m \in Moderators, ChannelStep(m)
      PROVE  \E record : Become(m, record)
  BY <1>2 DEF ChannelStep, DeleteChannel, OverwriteChannel, RecheckChannel, ChangeRoles,
              RecheckMember, OuterCommit, Finish
<1>3. ASSUME NEW b \in Background, BackgroundStep(b)
      PROVE  job' = job \/ \E record : Become(b, record)
  BY <1>3 DEF BackgroundStep, SweepNegotiations, ReleaseUser, WorkerDied, BeginEnd
<1>4. ASSUME NEW j \in Jobs, TransactionStep(j)
      PROVE  \E record : Become(j, record)
  BY <1>4 DEF TransactionStep, EndCommit, Rollback, Finish
<1>. QED
  BY <1>1, <1>2, <1>3, <1>4

LEMMA OneJobMoves ==
  ASSUME [Next]_vars
  PROVE  job' = job \/ \E j \in Jobs : \E record : Become(j, record)
BY OwnJobMoves DEF Next, vars, DeadlinePasses, Jobs

LEMMA HandlerSteps ==
  ASSUME TypeOK, [Next]_vars, NEW i \in Handlers
  PROVE  \/ job'[i] = job[i]
         \/ \E u \in Users : Admits(i, u)
         \/ Continues(i)
         \/ Concludes(i)
<1>. job \in [Jobs -> Job] /\ i \in Jobs /\ job[i] \in Job
  BY DEF TypeOK, Jobs
<1>1. ASSUME NEW j \in Jobs, j # i, NEW record, Become(j, record)
      PROVE  job'[i] = job[i]
  BY <1>1 DEF Become
<1>2. ASSUME Finish(i)
      PROVE  Concludes(i)
  BY <1>2 DEF Finish, Become, IdleJob, Concludes, Joining
<1>3. ASSUME RequestStep(i)
      PROVE  (\E u \in Users : Admits(i, u)) \/ Continues(i) \/ Concludes(i)
  <2>1. ASSUME NEW u \in Users, NEW c \in Channels, JoinAuthorize(i, u, c)
        PROVE  Admits(i, u)
    BY <2>1 DEF JoinAuthorize, Become, IdleJob, Admits, Joining
  <2>2. CASE JoinPrepare(i)
    <3>. job'[i] = [job[i] EXCEPT !.pc = "joinTx"]
      BY <2>2 DEF JoinPrepare, Become
    <3>. QED
      BY <2>2 DEF Continues, Job
  <2>3. CASE JoinReadPrevious(i)
    <3>1. PICK S \in SUBSET ActiveOf(job[i].user) :
            /\ S = {} <=> ActiveOf(job[i].user) = {}
            /\ Become(i, [job[i] EXCEPT !.pc = "joinWrite", !.doomed = S,
                                        !.overlaps = Writing(job[i].user) # {}])
      BY <2>3 DEF JoinReadPrevious
    <3>2. job'[i] = [job[i] EXCEPT !.pc = "joinWrite", !.doomed = S,
                                   !.overlaps = Writing(job[i].user) # {}]
      BY <3>1 DEF Become
    <3>. QED
      BY <2>3, <3>1, <3>2 DEF JoinReadPrevious, Continues, Job
  <2>4. ASSUME NEW u \in Users, LeaveSession(i, u)
        PROVE  Admits(i, u)
    BY <2>4 DEF LeaveSession, BeginEnd, Become, IdleJob, Admits, Joining
  <2>5. ASSUME NEW u \in Users, UpdateRead(i, u)
        PROVE  Admits(i, u)
    BY <2>5 DEF UpdateRead, Become, IdleJob, Admits, Joining
  <2>6. ASSUME NEW u \in Users, ProduceAuthorize(i, u)
        PROVE  Admits(i, u)
    BY <2>6 DEF ProduceAuthorize, Become, IdleJob, Admits, Joining, ActiveOf
  <2>. QED
    BY <1>2, <1>3, <2>1, <2>2, <2>3, <2>4, <2>5, <2>6
    DEF RequestStep, JoinRefuse, JoinCommit, UpdateCommit, ProduceUpdate, ProduceFails
<1>4. ASSUME TransactionStep(i)
      PROVE  Concludes(i)
  <2>1. CASE EndCommit(i) /\ job[i].after # "idle"
    <3>1. job'[i] = [job[i] EXCEPT !.pc = job[i].after, !.doomed = {}, !.after = "idle"]
      BY <2>1 DEF EndCommit, Become
    <3>. QED
      BY <3>1 DEF Concludes, Joining, Job
  <2>. QED
    BY <1>2, <1>4, <2>1 DEF TransactionStep, EndCommit, Rollback, Finish
<1>. QED
  <2>1. ASSUME NEW h \in Handlers, h # i, RequestStep(h)
        PROVE  job'[i] = job[i]
    BY <2>1, <1>1, OwnJobMoves DEF Jobs
  <2>2. ASSUME NEW m \in Moderators, ChannelStep(m)
        PROVE  job'[i] = job[i]
    BY <2>2, <1>1, OwnJobMoves, ConstantsAssumption DEF Jobs
  <2>3. ASSUME NEW b \in Background, BackgroundStep(b)
        PROVE  job'[i] = job[i]
    BY <2>3, <1>1, OwnJobMoves, ConstantsAssumption DEF Jobs
  <2>4. ASSUME NEW j \in Jobs, j # i, TransactionStep(j)
        PROVE  job'[i] = job[i]
    BY <2>4, <1>1, OwnJobMoves
  <2>. QED
    BY <1>3, <1>4, <2>1, <2>2, <2>3, <2>4 DEF Next, vars, DeadlinePasses

-----------------------------------------------------------------------------
(* Every active session of a user beyond the first is a row that a join     *)
(* inserted which had overlapped another of the same user's.                *)

(* Only a commit of joinChannel gives a user an active session.             *)
LEMMA ActiveOfSteps ==
  ASSUME TypeOK, [Next]_vars, NEW u
  PROVE  \/ ActiveOf(u)' \subseteq ActiveOf(u)
         \/ \E h \in Handlers, s \in Sessions :
              /\ JoinCommit(h)
              /\ job[h].user = u
              /\ row[s].status = "absent"
              /\ row'[s] = NewRow(u, job[h].channel, job[h].overlaps)
              /\ ActiveOf(u)' \subseteq (ActiveOf(u) \ job[h].doomed) \cup {s}
<1>. row \in [Sessions -> Row]
  BY DEF TypeOK
<1>1. ASSUME NEW h \in Handlers, JoinCommit(h)
      PROVE  \E s \in Sessions :
               /\ row[s].status = "absent"
               /\ row'[s] = NewRow(job[h].user, job[h].channel, job[h].overlaps)
               /\ ActiveOf(u)' \subseteq (ActiveOf(u) \ job[h].doomed) \cup {s}
               /\ job[h].user # u => s \notin ActiveOf(u)'
  <2>1. PICK s \in Sessions :
          /\ row[s].status = "absent"
          /\ row' = [EndSessions(row, job[h].doomed)
                       EXCEPT ![s] = NewRow(job[h].user, job[h].channel, job[h].overlaps)]
    BY <1>1 DEF JoinCommit, IsNextId
  <2>2. /\ row'[s] = NewRow(job[h].user, job[h].channel, job[h].overlaps)
        /\ row'[s].user = job[h].user
    BY <2>1 DEF EndSessions, NewRow
  <2>3. ASSUME NEW t \in ActiveOf(u)', t # s
        PROVE  t \in ActiveOf(u) \ job[h].doomed
    <3>1. row'[t] = EndSessions(row, job[h].doomed)[t] /\ row'[t].status = "active"
      BY <2>1, <2>3 DEF ActiveOf, Active, EndSessions
    <3>2. t \in Sessions /\ EndedRow(row[t], "IDLE").status # "active"
      BY <2>3 DEF ActiveOf, EndedRow, Row
    <3>3. row'[t] = row[t] /\ t \notin job[h].doomed
      BY <3>1, <3>2 DEF EndSessions
    <3>. QED
      BY <2>3, <3>3, ChannelsShrink DEF ActiveOf, Active
  <2>. QED
    BY <2>1, <2>2, <2>3 DEF ActiveOf
<1>2. ASSUME ~ \E h \in Handlers : JoinCommit(h)
      PROVE  ActiveOf(u)' \subseteq ActiveOf(u)
  <2>. SUFFICES ASSUME NEW s \in ActiveOf(u)'
                PROVE  s \in ActiveOf(u)
    OBVIOUS
  <2>1. s \in Sessions /\ row'[s].status = "active" /\ row'[s].user = u
    BY DEF ActiveOf, Active
  <2>2. row[s].status = "active" /\ row[s].user = row'[s].user
                                /\ row[s].channel = row'[s].channel
    BY <1>2, <2>1, ActiveRowSteps
  <2>. QED
    BY <2>1, <2>2, ChannelsShrink DEF ActiveOf, Active
<1>. QED
  BY <1>1, <1>2

(* A row tells of an overlap only once a join has inserted it.              *)
AbsentInv == \A s \in Sessions : row[s].status = "absent" => ~row[s].overlapped

(* What a row tells of the join that inserted it, no later writer changes.  *)
LEMMA HistoryKept ==
  ASSUME TypeOK, [Next]_vars, NEW s \in Sessions
  PROVE  \/ /\ row'[s].status # "absent" \/ row[s].status = "absent"
            /\ row'[s].user = row[s].user
            /\ row'[s].overlapped = row[s].overlapped
         \/ /\ row[s].status = "absent"
            /\ \E h \in Handlers :
                 /\ JoinCommit(h)
                 /\ row'[s] = NewRow(job[h].user, job[h].channel, job[h].overlaps)
<1>1. ASSUME \/ \E ended : row'[s] = EndedRow(row[s], ended)
             \/ \E conn : row'[s] = [row[s] EXCEPT !.conn = conn]
             \/ row'[s] = ProducingRow(row[s])
             \/ row'[s] = [row[s] EXCEPT !.deadline = "passed"],
             Active(s)
      PROVE  /\ row'[s].status # "absent"
             /\ row'[s].user = row[s].user
             /\ row'[s].overlapped = row[s].overlapped
  BY <1>1 DEF EndedRow, ProducingRow, TypeOK, Row, Active
<1>. QED
  BY <1>1, RowEffect

LEMMA AbsentInvStep ==
  ASSUME TypeOK, AbsentInv, [Next]_vars
  PROVE  AbsentInv'
<1>. SUFFICES ASSUME NEW s \in Sessions, row'[s].status = "absent"
              PROVE  ~row'[s].overlapped
  BY DEF AbsentInv
<1>1. ASSUME NEW u, NEW c, NEW o
      PROVE  NewRow(u, c, o).status # "absent"
  BY DEF NewRow
<1>. QED
  BY <1>1, HistoryKept DEF AbsentInv

LEMMA OverlappedSteps ==
  ASSUME TypeOK, AbsentInv, [Next]_vars, NEW u
  PROVE  /\ OverlappedOf(u) \subseteq OverlappedOf(u)'
         /\ \E s : OverlappedOf(u)' \subseteq OverlappedOf(u) \cup {s}
<1>1. OverlappedOf(u) \subseteq OverlappedOf(u)'
  BY HistoryKept DEF OverlappedOf, AbsentInv
<1>2. ASSUME NEW h \in Handlers, JoinCommit(h)
      PROVE  \E s : OverlappedOf(u)' \subseteq OverlappedOf(u) \cup {s}
  <2>1. PICK s \in Sessions :
          row' = [EndSessions(row, job[h].doomed)
                    EXCEPT ![s] = NewRow(job[h].user, job[h].channel, job[h].overlaps)]
    BY <1>2 DEF JoinCommit
  <2>2. ASSUME NEW t \in OverlappedOf(u)', t # s
        PROVE  t \in OverlappedOf(u)
    <3>1. t \in Sessions /\ row'[t] \in {row[t], EndedRow(row[t], "IDLE")}
      BY <2>1, <2>2 DEF OverlappedOf, EndSessions
    <3>2. row'[t].user = row[t].user /\ row'[t].overlapped = row[t].overlapped
      BY <3>1 DEF EndedRow, TypeOK, Row
    <3>. QED
      BY <2>2, <3>1, <3>2 DEF OverlappedOf
  <2>. QED
    BY <2>2
<1>3. ASSUME ~ \E h \in Handlers : JoinCommit(h)
      PROVE  OverlappedOf(u)' \subseteq OverlappedOf(u)
  BY <1>3, HistoryKept DEF OverlappedOf
<1>. QED
  BY <1>1, <1>2, <1>3

(* A join that overlapped no other has read a session to end, if there was  *)
(* one; those that read after it overlap it, and pay for what they insert.  *)
(* So such a join is alone, and finds at its commit, besides what it ends,  *)
(* no more sessions than overlapping joins have inserted.                   *)
Alone(h, u) == h \in Writing(u) /\ ~job[h].overlaps

OverlapInv ==
    \A u \in Users :
        /\ IsFiniteSet(ActiveOf(u))
        /\ IsFiniteSet(OverlappedOf(u))
        /\ Cardinality(ActiveOf(u)) <= 1 + Cardinality(OverlappedOf(u))
        /\ \A h, i \in Handlers : Alone(h, u) /\ Alone(i, u) => h = i
        /\ \A h \in Handlers : Alone(h, u)
             => Cardinality(ActiveOf(u) \ job[h].doomed) <= Cardinality(OverlappedOf(u))

(* A join that writes alone was alone already, or has just read.            *)
LEMMA AloneSteps ==
  ASSUME TypeOK, [Next]_vars, NEW u \in Users, NEW h \in Handlers, Alone(h, u)'
  PROVE  \/ Alone(h, u) /\ job'[h] = job[h]
         \/ /\ Writing(u) = {}
            /\ row' = row /\ live' = live
            /\ job'[h].doomed \subseteq ActiveOf(u)
            /\ job'[h].doomed = {} => ActiveOf(u) = {}
<1>1. job'[h].pc = "joinWrite" /\ job'[h].user = u /\ ~job'[h].overlaps
  BY DEF Alone, Writing
<1>2. CASE job'[h] = job[h]
  BY <1>1, <1>2 DEF Alone, Writing
<1>3. CASE Continues(h)
  BY <1>1, <1>3 DEF Continues
<1>. QED
  BY <1>1, <1>2, <1>3, HandlerSteps DEF Admits, Concludes, Joining

LEMMA AloneIsUnique ==
  ASSUME TypeOK, OverlapInv, [Next]_vars, NEW u \in Users,
         NEW h \in Handlers, NEW i \in Handlers, Alone(h, u)', Alone(i, u)'
  PROVE  h = i
<1>. SUFFICES ASSUME h # i
              PROVE  FALSE
  OBVIOUS
<1>1. job'[h] = job[h] \/ job'[i] = job[i]
  BY OneJobMoves DEF Become, TypeOK, Jobs
<1>2. (Alone(h, u) \/ Alone(i, u)) /\ Writing(u) # {}
  BY <1>1 DEF Alone, Writing
<1>. QED
  BY <1>2, AloneSteps DEF OverlapInv

(* Cardinalities of finite sets, as they are needed below.                  *)
LEMMA FewerElements ==
  ASSUME NEW T, IsFiniteSet(T), NEW S \in SUBSET T
  PROVE  /\ IsFiniteSet(S)
         /\ Cardinality(S) \in Nat /\ Cardinality(T) \in Nat
         /\ Cardinality(S) <= Cardinality(T)
BY FS_Subset, FS_CardinalityType

LEMMA OneMoreElement ==
  ASSUME NEW T, IsFiniteSet(T), NEW x
  PROVE  /\ IsFiniteSet(T \cup {x})
         /\ Cardinality(T) \in Nat /\ Cardinality(T \cup {x}) \in Nat
         /\ x \notin T => Cardinality(T \cup {x}) = Cardinality(T) + 1
         /\ Cardinality(T \cup {x}) <= Cardinality(T) + 1
BY FS_AddElement, FS_CardinalityType

LEMMA OneLessElement ==
  ASSUME NEW T, IsFiniteSet(T), NEW S \in SUBSET T, S # {}
  PROVE  /\ Cardinality(T \ S) \in Nat /\ Cardinality(T) \in Nat
         /\ Cardinality(T \ S) <= Cardinality(T) - 1
<1>1. PICK x : x \in S
  OBVIOUS
<1>2. IsFiniteSet(T \ {x}) /\ Cardinality(T \ {x}) = Cardinality(T) - 1
  BY <1>1, FS_RemoveElement
<1>. QED
  BY <1>1, <1>2, FewerElements

LEMMA OverlapInvStep ==
  ASSUME TypeOK, AbsentInv, OverlapInv, [Next]_vars
  PROVE  OverlapInv'
<1>. SUFFICES ASSUME NEW u \in Users
              PROVE  /\ IsFiniteSet(ActiveOf(u)')
                     /\ IsFiniteSet(OverlappedOf(u)')
                     /\ Cardinality(ActiveOf(u)') <= 1 + Cardinality(OverlappedOf(u)')
                     /\ \A h \in Handlers : Alone(h, u)' =>
                          Cardinality(ActiveOf(u)' \ job'[h].doomed)
                            <= Cardinality(OverlappedOf(u)')
  BY AloneIsUnique DEF OverlapInv
<1>. DEFINE A == ActiveOf(u)   A1 == ActiveOf(u)'
            O == OverlappedOf(u)   O1 == OverlappedOf(u)'
<1>1. /\ IsFiniteSet(A) /\ IsFiniteSet(O)
      /\ Cardinality(A) <= 1 + Cardinality(O)
  BY DEF OverlapInv
<1>2. PICK s : O \subseteq O1 /\ O1 \subseteq O \cup {s}
  BY OverlappedSteps
<1>. HIDE DEF A, A1, O, O1
<1>3. IsFiniteSet(O1) /\ Cardinality(O) \in Nat /\ Cardinality(O1) \in Nat
                      /\ Cardinality(O) <= Cardinality(O1)
  BY <1>1, <1>2, OneMoreElement, FewerElements
<1>4. CASE A1 \subseteq A
  <2>1. /\ IsFiniteSet(A1) /\ Cardinality(A1) \in Nat /\ Cardinality(A) \in Nat
        /\ Cardinality(A1) <= Cardinality(A)
    BY <1>1, <1>4, FewerElements
  <2>2. ASSUME NEW h \in Handlers, Alone(h, u)'
        PROVE  Cardinality(A1 \ job'[h].doomed) <= Cardinality(O1)
    <3>1. CASE Alone(h, u) /\ job'[h] = job[h]
      <4>1. Cardinality(A \ job[h].doomed) <= Cardinality(O)
        BY <3>1 DEF OverlapInv, A, O
      <4>2. IsFiniteSet(A \ job[h].doomed)
        BY <1>1, FewerElements
      <4>3. /\ Cardinality(A1 \ job[h].doomed) <= Cardinality(A \ job[h].doomed)
            /\ Cardinality(A1 \ job[h].doomed) \in Nat
            /\ Cardinality(A \ job[h].doomed) \in Nat
        BY <1>4, <4>2, FewerElements
      <4>. QED
        BY <1>3, <3>1, <4>1, <4>3
    <3>2. CASE /\ row' = row /\ live' = live
               /\ job'[h].doomed \subseteq A
               /\ job'[h].doomed = {} => A = {}
      <4>1. A1 = A
        BY <3>2 DEF A, A1, ActiveOf, Active
      <4>2. CASE job'[h].doomed = {}
        BY <1>3, <3>2, <4>1, <4>2, FS_EmptySet
      <4>3. CASE job'[h].doomed # {}
        <5>1. /\ Cardinality(A \ job'[h].doomed) \in Nat /\ Cardinality(A) \in Nat
              /\ Cardinality(A \ job'[h].doomed) <= Cardinality(A) - 1
          BY <1>1, <3>2, <4>3, OneLessElement
        <5>. QED
          BY <1>1, <1>3, <4>1, <5>1
      <4>. QED
        BY <4>2, <4>3
    <3>. QED
      BY <2>2, <3>1, <3>2, AloneSteps DEF A
  <2>. QED
    BY <1>1, <1>3, <2>1, <2>2 DEF A1, O1
<1>5. ASSUME NEW k \in Handlers, NEW t \in Sessions, JoinCommit(k), job[k].user = u,
             row[t].status = "absent",
             row'[t] = NewRow(u, job[k].channel, job[k].overlaps),
             A1 \subseteq (A \ job[k].doomed) \cup {t}
      PROVE  /\ IsFiniteSet(A1)
             /\ Cardinality(A1) <= 1 + Cardinality(O1)
             /\ \A h \in Handlers : Alone(h, u)' =>
                  Cardinality(A1 \ job'[h].doomed) <= Cardinality(O1)
  <2>1. k \in Writing(u)
    BY <1>5 DEF JoinCommit, Writing
  <2>2. ASSUME NEW h \in Handlers, Alone(h, u)'
        PROVE  h # k /\ Alone(h, u) /\ job'[h] = job[h]
    <3>1. Alone(h, u) /\ job'[h] = job[h]
      BY <2>1, <2>2, AloneSteps
    <3>2. job'[k].pc # "joinWrite"
      BY <1>5 DEF JoinCommit, Finish, Become, IdleJob, TypeOK, Jobs
    <3>. QED
      BY <2>2, <3>1, <3>2 DEF Alone, Writing
  <2>3. CASE job[k].overlaps
    <3>1. t \notin O /\ O \cup {t} \subseteq O1
      <4>1. t \notin O
        BY <1>5 DEF O, OverlappedOf, AbsentInv
      <4>2. t \in O1
        BY <1>5, <2>3 DEF O1, OverlappedOf, NewRow
      <4>. QED
        BY <1>2, <4>1, <4>2
    <3>2. Cardinality(O1) >= Cardinality(O) + 1
      <4>1. IsFiniteSet(O \cup {t}) /\ Cardinality(O \cup {t}) = Cardinality(O) + 1
        BY <1>1, <3>1, OneMoreElement
      <4>2. Cardinality(O \cup {t}) <= Cardinality(O1)
        BY <1>3, <3>1, FewerElements
      <4>. QED
        BY <4>1, <4>2
    <3>3. ASSUME NEW D
          PROVE  /\ IsFiniteSet(A1 \ D)
                 /\ Cardinality(A1 \ D) \in Nat /\ Cardinality(A \ D) \in Nat
                 /\ Cardinality(A1 \ D) <= Cardinality(A \ D) + 1
      <4>1. IsFiniteSet(A \ D)
        BY <1>1, FewerElements
      <4>. A1 \ D \subseteq (A \ D) \cup {t}
        BY <1>5
      <4>2. /\ IsFiniteSet((A \ D) \cup {t})
            /\ Cardinality(A \ D) \in Nat /\ Cardinality((A \ D) \cup {t}) \in Nat
            /\ Cardinality((A \ D) \cup {t}) <= Cardinality(A \ D) + 1
        BY <4>1, OneMoreElement
      <4>3. /\ IsFiniteSet(A1 \ D) /\ Cardinality(A1 \ D) \in Nat
            /\ Cardinality(A1 \ D) <= Cardinality((A \ D) \cup {t})
        BY <4>1, <4>2, FewerElements
      <4>. QED
        BY <4>2, <4>3
    <3>4. IsFiniteSet(A1) /\ Cardinality(A1) <= 1 + Cardinality(O1)
      <4>. A1 \ {} = A1 /\ A \ {} = A
        OBVIOUS
      <4>1. /\ IsFiniteSet(A1) /\ Cardinality(A1) \in Nat /\ Cardinality(A) \in Nat
            /\ Cardinality(A1) <= Cardinality(A) + 1
        BY <3>3
      <4>. QED
        BY <1>1, <1>3, <3>2, <4>1
    <3>5. ASSUME NEW h \in Handlers, Alone(h, u)'
          PROVE  Cardinality(A1 \ job'[h].doomed) <= Cardinality(O1)
      <4>1. Cardinality(A \ job[h].doomed) <= Cardinality(O) /\ job'[h] = job[h]
        BY <2>2, <3>5 DEF OverlapInv, A, O
      <4>2. /\ Cardinality(A1 \ job[h].doomed) \in Nat
            /\ Cardinality(A \ job[h].doomed) \in Nat
            /\ Cardinality(A1 \ job[h].doomed) <= Cardinality(A \ job[h].doomed) + 1
        BY <3>3
      <4>3. Cardinality(A1 \ job[h].doomed) <= Cardinality(O1)
        BY <1>3, <3>2, <4>1, <4>2
      <4>. QED
        BY <4>1, <4>3
    <3>. QED
      BY <3>4, <3>5
  <2>4. CASE ~job[k].overlaps
    <3>1. Alone(k, u) /\ Cardinality(A \ job[k].doomed) <= Cardinality(O)
      BY <2>1, <2>4 DEF Alone, OverlapInv, A, O
    <3>2. IsFiniteSet(A \ job[k].doomed)
      BY <1>1, FewerElements
    <3>3. /\ IsFiniteSet((A \ job[k].doomed) \cup {t})
          /\ Cardinality(A \ job[k].doomed) \in Nat
          /\ Cardinality((A \ job[k].doomed) \cup {t}) \in Nat
          /\ Cardinality((A \ job[k].doomed) \cup {t}) <= Cardinality(A \ job[k].doomed) + 1
      BY <3>2, OneMoreElement
    <3>4. /\ IsFiniteSet(A1) /\ Cardinality(A1) \in Nat
          /\ Cardinality(A1) <= Cardinality((A \ job[k].doomed) \cup {t})
      BY <1>5, <3>3, FewerElements
    <3>5. ASSUME NEW h \in Handlers, Alone(h, u)'
          PROVE  FALSE
      BY <2>2, <3>1, <3>5 DEF OverlapInv
    <3>. QED
      BY <1>3, <3>1, <3>3, <3>4, <3>5
  <2>. QED
    BY <2>3, <2>4
<1>. QED
  BY <1>3, <1>4, <1>5, ActiveOfSteps DEF A, A1, O1

(* joinChannel, with leave, release, sweep, worker death and the changes of *)
(* channels and roles beside it: however many requests of a user overlap,   *)
(* the user has no more active sessions than one and, for each join that    *)
(* read the previous session while another join of the user was under way,  *)
(* one more. In particular one who never joins twice at a time has one.     *)
THEOREM ExtraSessionsAreOverlapped == Spec => []ExtraSessionsOverlapped
<1>. DEFINE IInv == AbsentInv /\ OverlapInv
<1>1. Init => IInv
  <2>. SUFFICES ASSUME Init
                PROVE  IInv
    OBVIOUS
  <2>1. AbsentInv
    BY DEF Init, AbsentInv, NoRow
  <2>2. ASSUME NEW u \in Users
        PROVE  /\ ActiveOf(u) = {} /\ OverlappedOf(u) = {}
               /\ \A h \in Handlers : ~Alone(h, u)
    BY DEF Init, ActiveOf, Active, OverlappedOf, Alone, Writing, NoRow, IdleJob, Jobs
  <2>. QED
    BY <2>1, <2>2, FS_EmptySet DEF OverlapInv
<1>2. TypeOK /\ IInv /\ [Next]_vars => IInv'
  BY AbsentInvStep, OverlapInvStep
<1>3. IInv => ExtraSessionsOverlapped
  BY DEF OverlapInv, ExtraSessionsOverlapped
<1>. HIDE DEF IInv
<1>. QED
  BY <1>1, <1>2, <1>3, TypesHold, PTL DEF Spec

-----------------------------------------------------------------------------
(* The capacity of a room, which joins check before they write.             *)

(* The joins into c that have passed the check and not yet committed.       *)
Joiners(c) == {h \in Handlers : /\ job[h].pc \in {"joinTx", "joinWrite"}
                                /\ job[h].channel = c}

Entering(c) == {job[h].user : h \in Joiners(c)}

(* Whoever the check has let into c. It admits a join on sight of the       *)
(* others in the room alone, so of these at most one for each handler is    *)
(* beyond the limit.                                                        *)
Admitted(c) == UsersIn(c) \cup Entering(c)

CapacityInv ==
    \A c \in Channels :
        /\ IsFiniteSet(ActiveIn(c))
        /\ IsFiniteSet(Admitted(c))
        /\ Cardinality(Admitted(c)) <= MaxParticipants + Overshoot

(* The users of finitely many rows, or of finitely many jobs.               *)
LEMMA FewerUsersThanHolders ==
  ASSUME NEW S, IsFiniteSet(S), NEW holds
  PROVE  LET held == {holds[s].user : s \in S}
         IN  IsFiniteSet(held) /\ Cardinality(held) <= Cardinality(S)
<1>. DEFINE held == {holds[s].user : s \in S}
            f == [s \in S |-> holds[s].user]
<1>. f \in Surjection(S, held)
  BY DEF Surjection
<1>. QED
  BY FS_Surjection

LEMMA ActiveInSteps ==
  ASSUME TypeOK, [Next]_vars, NEW c \in Channels
  PROVE  \E s : ActiveIn(c)' \subseteq ActiveIn(c) \cup {s}
<1>. row \in [Sessions -> Row]
  BY DEF TypeOK
<1>1. ASSUME NEW h \in Handlers, JoinCommit(h)
      PROVE  \E s : ActiveIn(c)' \subseteq ActiveIn(c) \cup {s}
  <2>1. PICK s \in Sessions :
          row' = [EndSessions(row, job[h].doomed)
                    EXCEPT ![s] = NewRow(job[h].user, job[h].channel, job[h].overlaps)]
    BY <1>1 DEF JoinCommit
  <2>2. ASSUME NEW t \in ActiveIn(c)', t # s
        PROVE  t \in ActiveIn(c)
    <3>1. row'[t] = EndSessions(row, job[h].doomed)[t] /\ row'[t].status = "active"
      BY <2>1, <2>2 DEF ActiveIn, Active, EndSessions
    <3>2. t \in Sessions /\ EndedRow(row[t], "IDLE").status # "active"
      BY <2>2 DEF ActiveIn, EndedRow, Row
    <3>3. row'[t] = row[t]
      BY <3>1, <3>2 DEF EndSessions
    <3>. QED
      BY <2>2, <3>3 DEF ActiveIn, Active
  <2>. QED
    BY <2>2
<1>2. ASSUME ~ \E h \in Handlers : JoinCommit(h)
      PROVE  ActiveIn(c)' \subseteq ActiveIn(c)
  <2>. SUFFICES ASSUME NEW s \in ActiveIn(c)'
                PROVE  s \in ActiveIn(c)
    OBVIOUS
  <2>1. s \in Sessions /\ row'[s].status = "active" /\ row'[s].channel = c
    BY DEF ActiveIn, Active
  <2>2. row[s].status = "active" /\ row[s].channel = c
    BY <1>2, <2>1, ActiveRowSteps
  <2>. QED
    BY <2>1, <2>2 DEF ActiveIn, Active
<1>. QED
  BY <1>1, <1>2

(* Only the check admits anybody: a commit moves its user from those        *)
(* entering to those in the room.                                           *)
LEMMA AdmittedSteps ==
  ASSUME TypeOK, [Next]_vars, NEW c \in Channels
  PROVE  \/ Admitted(c)' \subseteq Admitted(c)
         \/ \E h \in Handlers : /\ JoinPrepare(h)
                                /\ job[h].channel = c
<1>. SUFFICES ASSUME \A h \in Handlers : JoinPrepare(h) => job[h].channel # c
              PROVE  Admitted(c)' \subseteq Admitted(c)
  OBVIOUS
<1>1. ASSUME NEW s \in ActiveIn(c)'
      PROVE  row'[s].user \in Admitted(c)
  <2>1. s \in Sessions /\ row'[s].status = "active" /\ row'[s].channel = c
    BY DEF ActiveIn, Active
  <2>2. ASSUME NEW h \in Handlers, JoinCommit(h),
               row'[s] = NewRow(job[h].user, job[h].channel, job[h].overlaps)
        PROVE  row'[s].user \in Entering(c)
    <3>. row'[s].user = job[h].user /\ h \in Joiners(c)
      BY <2>1, <2>2 DEF NewRow, JoinCommit, Joiners
    <3>. QED
      BY DEF Entering
  <2>3. ASSUME row[s].status = "active", row[s].user = row'[s].user, row[s].channel = c
        PROVE  row'[s].user \in UsersIn(c)
    BY <2>1, <2>3 DEF UsersIn, ActiveIn, Active
  <2>. QED
    BY <2>1, <2>2, <2>3, ActiveRowSteps DEF Admitted
<1>2. ASSUME NEW h \in Joiners(c)'
      PROVE  job'[h].user \in Entering(c)
  <2>1. h \in Handlers /\ job'[h].pc \in {"joinTx", "joinWrite"} /\ job'[h].channel = c
    BY DEF Joiners
  <2>2. h \in Joiners(c) /\ job'[h].user = job[h].user
    BY <2>1, HandlerSteps DEF Joiners, Admits, Continues, Concludes, Joining
  <2>. QED
    BY <2>2 DEF Entering
<1>. QED
  BY <1>1, <1>2 DEF Admitted, UsersIn, Entering

(* A join passes the check while fewer than MaxParticipants others are      *)
(* there: with everybody else still on the way in, that makes at most one   *)
(* per handler more.                                                        *)
LEMMA CheckAdmitsFew ==
  ASSUME TypeOK, [Next]_vars, CapacityInv,
         NEW h \in Handlers, JoinPrepare(h), NEW c \in Channels, job[h].channel = c
  PROVE  /\ IsFiniteSet(Admitted(c)')
         /\ Cardinality(Admitted(c)') <= MaxParticipants + Overshoot
<1>. DEFINE u == job[h].user
            others == {row[s].user : s \in OthersIn(c, u)}
            joiners == Joiners(c)'
            entering == Entering(c)'
<1>1. /\ IsFiniteSet(OthersIn(c, u))
      /\ Cardinality(OthersIn(c, u)) \in Nat
      /\ Cardinality(OthersIn(c, u)) < MaxParticipants
  <2>1. IsFiniteSet(OthersIn(c, u))
    BY FS_Subset DEF CapacityInv, OthersIn
  <2>2. Cardinality(OthersIn(c, u)) \in Nat
    BY <2>1, FS_CardinalityType
  <2>3. ~(Cardinality(OthersIn(c, u)) >= MaxParticipants)
    BY DEF JoinPrepare, RoomIsFull
  <2>. QED
    BY <2>1, <2>2, <2>3, ConstantsAssumption
<1>2. IsFiniteSet(others) /\ Cardinality(others) <= Cardinality(OthersIn(c, u))
  BY <1>1, FewerUsersThanHolders
<1>3. IsFiniteSet(joiners) /\ Cardinality(joiners) <= Cardinality(Handlers)
  BY ConstantsAssumption, FS_Subset DEF Joiners
<1>4. IsFiniteSet(entering) /\ Cardinality(entering) <= Cardinality(joiners)
  BY <1>3, FewerUsersThanHolders DEF Entering
<1>5. Admitted(c)' \subseteq others \cup entering
  <2>1. row' = row
    BY DEF JoinPrepare
  <2>2. u \in entering
    <3>. job'[h] = [job[h] EXCEPT !.pc = "joinTx"] /\ job[h] \in Job
      BY DEF JoinPrepare, Become, TypeOK, Jobs
    <3>. h \in Joiners(c)' /\ job'[h].user = u
      BY DEF Joiners, Job
    <3>. QED
      BY DEF Entering
  <2>3. UsersIn(c)' = UsersIn(c)
    BY <2>1 DEF UsersIn, ActiveIn, Active
  <2>4. UsersIn(c) \subseteq others \cup {u}
    BY DEF UsersIn, OthersIn
  <2>. QED
    BY <2>2, <2>3, <2>4 DEF Admitted
<1>. HIDE DEF others, joiners, entering
<1>6. IsFiniteSet(others \cup entering)
      /\ Cardinality(others \cup entering) <= Cardinality(others) + Cardinality(entering)
  <2>1. IsFiniteSet(others \cup entering)
    BY <1>2, <1>4, FS_Union
  <2>2. Cardinality(others \cup entering)
          = Cardinality(others) + Cardinality(entering) - Cardinality(others \cap entering)
    BY <1>2, <1>4, FS_Union
  <2>3. IsFiniteSet(others \cap entering)
    BY <1>2, FS_Subset
  <2>. QED
    BY <1>2, <1>4, <2>1, <2>2, <2>3, FS_CardinalityType
<1>7. IsFiniteSet(Admitted(c)')
      /\ Cardinality(Admitted(c)') <= Cardinality(others \cup entering)
  BY <1>5, <1>6, FS_Subset
<1>. QED
  <2>1. /\ Cardinality(others) \in Nat
        /\ Cardinality(joiners) \in Nat
        /\ Cardinality(entering) \in Nat
        /\ Cardinality(Handlers) \in Nat
        /\ Cardinality(others \cup entering) \in Nat
        /\ Cardinality(Admitted(c)') \in Nat
    BY <1>2, <1>3, <1>4, <1>6, <1>7, ConstantsAssumption, FS_CardinalityType
  <2>2. MaxParticipants \in Nat
    BY ConstantsAssumption
  <2>. QED
    BY <1>1, <1>2, <1>3, <1>4, <1>6, <1>7, <2>1, <2>2 DEF Overshoot

LEMMA CapacityInvStep ==
  ASSUME TypeOK, CapacityInv, [Next]_vars
  PROVE  CapacityInv'
<1>. SUFFICES ASSUME NEW c \in Channels
              PROVE  /\ IsFiniteSet(ActiveIn(c)')
                     /\ IsFiniteSet(Admitted(c)')
                     /\ Cardinality(Admitted(c)') <= MaxParticipants + Overshoot
  BY DEF CapacityInv, Overshoot
<1>1. IsFiniteSet(ActiveIn(c)')
  <2>1. PICK s : ActiveIn(c)' \subseteq ActiveIn(c) \cup {s}
    BY ActiveInSteps
  <2>2. IsFiniteSet(ActiveIn(c) \cup {s})
    BY FS_AddElement DEF CapacityInv
  <2>. QED
    BY <2>1, <2>2, FS_Subset
<1>2. CASE Admitted(c)' \subseteq Admitted(c)
  <2>1. /\ IsFiniteSet(Admitted(c))
        /\ Cardinality(Admitted(c)) <= MaxParticipants + Overshoot
    BY DEF CapacityInv
  <2>2. /\ IsFiniteSet(Admitted(c)')
        /\ Cardinality(Admitted(c)') <= Cardinality(Admitted(c))
    BY <1>2, <2>1, FS_Subset
  <2>3. /\ Cardinality(Admitted(c)) \in Nat
        /\ Cardinality(Admitted(c)') \in Nat
        /\ Cardinality(Handlers) \in Nat
        /\ MaxParticipants \in Nat
    BY <2>1, <2>2, ConstantsAssumption, FS_CardinalityType
  <2>. QED
    BY <1>1, <2>1, <2>2, <2>3 DEF Overshoot
<1>. QED
  BY <1>1, <1>2, AdmittedSteps, CheckAdmitsFew

(* The check of a room's capacity is not atomic with the insert: whatever   *)
(* joins overlap it, a room holds at most one user more than its limit for  *)
(* every other request that may be in flight.                               *)
THEOREM OvershootIsBounded == Spec => []CapacityOvershootBounded
<1>1. Init => CapacityInv
  <2>. SUFFICES ASSUME Init, NEW c \in Channels
                PROVE  /\ IsFiniteSet(ActiveIn(c))
                       /\ IsFiniteSet(Admitted(c))
                       /\ Cardinality(Admitted(c)) <= MaxParticipants + Overshoot
    BY DEF CapacityInv
  <2>1. ActiveIn(c) = {}
    BY DEF Init, ActiveIn, Active, NoRow
  <2>2. Joiners(c) = {}
    BY DEF Init, Joiners, IdleJob, Jobs
  <2>3. Admitted(c) = {}
    BY <2>1, <2>2 DEF Admitted, UsersIn, Entering
  <2>4. MaxParticipants \in Nat \ {0} /\ Cardinality(Handlers) \in Nat
    BY ConstantsAssumption, FS_CardinalityType
  <2>. QED
    BY <2>1, <2>3, <2>4, FS_EmptySet DEF Overshoot
<1>2. TypeOK /\ CapacityInv /\ [Next]_vars => CapacityInv'
  BY CapacityInvStep
<1>3. CapacityInv => CapacityOvershootBounded
  <2>. SUFFICES ASSUME CapacityInv, NEW c \in Channels
                PROVE  Cardinality(UsersIn(c)) <= MaxParticipants + Overshoot
    BY DEF CapacityOvershootBounded
  <2>1. /\ IsFiniteSet(Admitted(c))
        /\ Cardinality(Admitted(c)) <= MaxParticipants + Overshoot
    BY DEF CapacityInv
  <2>2. /\ IsFiniteSet(UsersIn(c))
        /\ Cardinality(UsersIn(c)) <= Cardinality(Admitted(c))
    BY <2>1, FS_Subset DEF Admitted
  <2>3. /\ Cardinality(UsersIn(c)) \in Nat
        /\ Cardinality(Admitted(c)) \in Nat
        /\ Cardinality(Handlers) \in Nat
        /\ MaxParticipants \in Nat
    BY <2>1, <2>2, ConstantsAssumption, FS_CardinalityType
  <2>. QED
    BY <2>1, <2>2, <2>3 DEF Overshoot
<1>. QED
  BY <1>1, <1>2, <1>3, TypesHold, PTL DEF Spec

-----------------------------------------------------------------------------
(* The life cycle of VoiceLifecycle is implemented.                         *)

(* Whom a job works for, and whose the rows are that it has read.           *)
JobInv ==
    \A h \in Handlers :
        /\ job[h].pc \in Joining => job[h].user \in Users /\ job[h].channel \in Channels
        /\ job[h].pc = "produce" => job[h].session \in Sessions

OwnerInv ==
    \A s \in Sessions : row[s].status # "absent"
        => row[s].user \in Users /\ row[s].channel \in Channels

DoomedInv ==
    \A h \in Handlers : job[h].pc = "joinWrite"
        => \A s \in job[h].doomed : /\ row[s].status # "absent"
                                    /\ row[s].user = job[h].user

MappingInv == TypeOK /\ JobInv /\ OwnerInv /\ DoomedInv

LEMMA JobInvStep ==
  ASSUME TypeOK, JobInv, [Next]_vars
  PROVE  JobInv'
<1>. SUFFICES ASSUME NEW h \in Handlers
              PROVE  /\ job'[h].pc \in Joining => /\ job'[h].user \in Users
                                                 /\ job'[h].channel \in Channels
                     /\ job'[h].pc = "produce" => job'[h].session \in Sessions
  BY DEF JobInv
<1>. QED
  BY HandlerSteps DEF JobInv, Admits, Continues, Concludes, Joining, JoinPrepare

(* A row once inserted stays with its user and channel.                     *)
LEMMA OwnerKept ==
  ASSUME TypeOK, [Next]_vars, NEW s \in Sessions, row[s].status # "absent"
  PROVE  /\ row'[s].status # "absent"
         /\ row'[s].user = row[s].user
         /\ row'[s].channel = row[s].channel
<1>1. ASSUME \/ \E ended : row'[s] = EndedRow(row[s], ended)
             \/ \E conn : row'[s] = [row[s] EXCEPT !.conn = conn]
             \/ row'[s] = ProducingRow(row[s])
             \/ row'[s] = [row[s] EXCEPT !.deadline = "passed"],
             Active(s)
      PROVE  /\ row'[s].status # "absent"
             /\ row'[s].user = row[s].user
             /\ row'[s].channel = row[s].channel
  BY <1>1 DEF EndedRow, ProducingRow, TypeOK, Row, Active
<1>. QED
  BY <1>1, RowEffect

LEMMA OwnerInvStep ==
  ASSUME TypeOK, JobInv, OwnerInv, [Next]_vars
  PROVE  OwnerInv'
<1>. SUFFICES ASSUME NEW s \in Sessions, row'[s].status # "absent"
              PROVE  row'[s].user \in Users /\ row'[s].channel \in Channels
  BY DEF OwnerInv
<1>1. CASE row[s].status # "absent"
  BY <1>1, OwnerKept DEF OwnerInv
<1>2. CASE row[s].status = "absent"
  <2>1. PICK h \in Handlers : /\ JoinCommit(h)
                              /\ row'[s] = NewRow(job[h].user, job[h].channel, job[h].overlaps)
    BY <1>2, RowEffect DEF Active
  <2>. QED
    BY <2>1 DEF JoinCommit, JobInv, Joining, NewRow
<1>. QED
  BY <1>1, <1>2

LEMMA DoomedInvStep ==
  ASSUME TypeOK, DoomedInv, [Next]_vars
  PROVE  DoomedInv'
<1>. SUFFICES ASSUME NEW h \in Handlers, job'[h].pc = "joinWrite", NEW s \in job'[h].doomed
              PROVE  row'[s].status # "absent" /\ row'[s].user = job'[h].user
  BY DEF DoomedInv
<1>1. CASE job'[h] = job[h]
  <2>. s \in Sessions
    BY <1>1 DEF TypeOK, Job, Jobs
  <2>. QED
    BY <1>1, OwnerKept DEF DoomedInv
<1>2. CASE Continues(h)
  BY <1>2 DEF Continues, ActiveOf, Active
<1>. QED
  BY <1>1, <1>2, HandlerSteps DEF Admits, Concludes, Joining

LEMMA MappingInvHolds == Spec => []MappingInv
<1>1. Init => MappingInv
  <2>. Init => TypeOK
    BY IdleJobType DEF Init, TypeOK, NoRow, Row, ConnStatuses
  <2>. QED
    BY DEF Init, MappingInv, JobInv, OwnerInv, DoomedInv, NoRow, IdleJob, Joining, Jobs
<1>2. MappingInv /\ [Next]_vars => MappingInv'
  BY TypeStep, JobInvStep, OwnerInvStep, DoomedInvStep DEF MappingInv
<1>. QED
  BY <1>1, <1>2, PTL DEF Spec

(* What one row shows of itself.                                            *)
LEMMA RowShows ==
  ASSUME NEW s \in Sessions
  PROVE  /\ row[s].status = "absent" => Phase[s] = "absent" /\ Holder[s] = None
         /\ row[s].status = "ended" => Phase[s] = "ended"
         /\ Active(s) => Lifecycle!Open(s)
         /\ Active(s) /\ row[s].media # "CONNECTED" => Phase[s] = "negotiating"
         /\ Active(s) /\ row[s].media = "CONNECTED" => Phase[s] = "connected"
         /\ row[s].status # "absent" => Holder[s] = <<row[s].user, row[s].channel>>
BY DEF Phase, Holder, Active, Lifecycle!Open

(* Ending some active sessions is a Close.                                  *)
LEMMA EndingCloses ==
  ASSUME TypeOK, NEW S \in SUBSET Sessions, NEW ended,
         \A s \in S : Active(s),
         row' = [s \in Sessions |-> IF s \in S THEN EndedRow(row[s], ended) ELSE row[s]]
  PROVE  Lifecycle!Close(S)
<1>1. ASSUME NEW s \in S
      PROVE  /\ row'[s].status = "ended"
             /\ row'[s].user = row[s].user
             /\ row'[s].channel = row[s].channel
  <2>. row[s] \in Row /\ row'[s] = EndedRow(row[s], ended)
    BY DEF TypeOK
  <2>. QED
    BY DEF EndedRow, Row
<1>2. \A s \in S : Lifecycle!Open(s)
  BY RowShows
<1>3. Phase' = [x \in Sessions |-> IF x \in S THEN "ended" ELSE Phase[x]]
  BY <1>1 DEF Phase
<1>4. Holder' = Holder
  BY <1>1 DEF Holder, Active
<1>. QED
  BY <1>2, <1>3, <1>4 DEF Lifecycle!Close

(* A commit of joinChannel is a Begin that replaces the sessions it ends.   *)
LEMMA JoinBegins ==
  ASSUME MappingInv, NEW h \in Handlers, JoinCommit(h)
  PROVE  \E s \in Sessions, u \in Users, c \in Channels, replaced \in SUBSET Sessions :
            Lifecycle!Begin(s, u, c, replaced)
<1>. DEFINE u == job[h].user
            c == job[h].channel
            replaced == {x \in job[h].doomed : Active(x)}
<1>. TypeOK /\ row \in [Sessions -> Row] /\ u \in Users /\ c \in Channels
     /\ replaced \in SUBSET Sessions
  BY DEF MappingInv, TypeOK, JobInv, JoinCommit, Joining, Job, Jobs
<1>1. PICK s \in Sessions :
        /\ row[s].status = "absent"
        /\ row' = [EndSessions(row, job[h].doomed) EXCEPT ![s] = NewRow(u, c, job[h].overlaps)]
  BY DEF JoinCommit, IsNextId
<1>2. /\ row'[s].status = "active" /\ row'[s].media = "NEGOTIATING"
      /\ row'[s].user = u /\ row'[s].channel = c
  BY <1>1 DEF EndSessions, NewRow
<1>3. ASSUME NEW x \in Sessions, x # s
      PROVE  /\ x \in replaced => /\ row'[x].status = "ended"
                                 /\ row'[x].user = row[x].user
                                 /\ row'[x].channel = row[x].channel
             /\ x \notin replaced => row'[x] = row[x]
  <2>1. row[x] \in Row /\ row'[x] = EndSessions(row, job[h].doomed)[x]
    BY <1>1, <1>3 DEF EndSessions
  <2>2. x \in replaced => row'[x] = EndedRow(row[x], "IDLE")
    BY <1>3, <2>1 DEF EndSessions, Active
  <2>3. x \notin replaced => row'[x] = row[x]
    BY <1>3, <2>1 DEF EndSessions, Active
  <2>. QED
    BY <2>1, <2>2, <2>3 DEF EndedRow, Row
<1>4. s \notin replaced
  BY <1>1 DEF Active
<1>5. Phase[s] = "absent"
  BY <1>1, RowShows
<1>6. ASSUME NEW r \in replaced
      PROVE  Lifecycle!Open(r) /\ Holder[r] \in {u} \X Channels
  <2>1. r \in Sessions /\ row[r].status = "active" /\ r \in job[h].doomed
    BY DEF Active
  <2>2. row[r].user = u
    BY <2>1 DEF MappingInv, DoomedInv, JoinCommit
  <2>3. row[r].channel \in Channels
    BY <2>1 DEF MappingInv, OwnerInv
  <2>4. Lifecycle!Open(r) /\ Holder[r] = <<row[r].user, row[r].channel>>
    BY <2>1, RowShows DEF Active
  <2>. QED
    BY <2>2, <2>3, <2>4
<1>7. Phase' = [x \in Sessions |-> IF x = s THEN "negotiating"
                                   ELSE IF x \in replaced THEN "ended" ELSE Phase[x]]
  BY <1>2, <1>3, <1>4 DEF Phase
<1>8. Holder' = [Holder EXCEPT ![s] = <<u, c>>]
  <2>1. Holder'[s] = <<u, c>>
    BY <1>2 DEF Holder
  <2>2. ASSUME NEW x \in Sessions, x # s
        PROVE  Holder'[x] = Holder[x]
    BY <1>3, <2>2 DEF Holder, Active
  <2>. QED
    BY <2>1, <2>2 DEF Holder
<1>. QED
  BY <1>5, <1>6, <1>7, <1>8 DEF Lifecycle!Begin

LEMMA LifecycleStep ==
  ASSUME MappingInv, [Next]_vars
  PROVE  [Lifecycle!Next]_(Lifecycle!vars)
<1>. TypeOK /\ row \in [Sessions -> Row]
  BY DEF MappingInv, TypeOK
<1>1. CASE row' = row
  BY <1>1 DEF Lifecycle!vars, Phase, Holder
<1>2. ASSUME NEW h \in Handlers, JoinCommit(h)
      PROVE  Lifecycle!Next
  BY <1>2, JoinBegins DEF Lifecycle!Next
<1>3. ASSUME NEW h \in Handlers, UpdateCommit(h)
      PROVE  UNCHANGED Lifecycle!vars
  <2>. ASSUME NEW s \in Sessions
       PROVE  /\ row'[s].status = row[s].status /\ row'[s].media = row[s].media
              /\ row'[s].user = row[s].user /\ row'[s].channel = row[s].channel
    BY <1>3 DEF UpdateCommit, UpdatedRow, Row
  <2>. QED
    BY DEF Lifecycle!vars, Phase, Holder
<1>4. ASSUME NEW h \in Handlers, ProduceUpdate(h)
      PROVE  UNCHANGED Lifecycle!vars \/ Lifecycle!Next
  <2>. DEFINE s == job[h].session
  <2>1. s \in Sessions
    BY <1>4 DEF MappingInv, JobInv, ProduceUpdate
  <2>2. CASE ~Active(s)
    BY <1>1, <1>4, <2>2 DEF ProduceUpdate, Lifecycle!vars, Phase, Holder
  <2>3. CASE Active(s)
    <3>1. row' = [row EXCEPT ![s] = ProducingRow(row[s])]
      BY <1>4, <2>3 DEF ProduceUpdate
    <3>2. /\ row'[s].status = "active" /\ row'[s].media = "CONNECTED"
          /\ row'[s].user = row[s].user /\ row'[s].channel = row[s].channel
      BY <2>1, <2>3, <3>1 DEF ProducingRow, Active, Row
    <3>3. \A x \in Sessions : x # s => row'[x] = row[x]
      BY <2>1, <3>1
    <3>4. Holder' = Holder
      BY <2>3, <3>2, <3>3 DEF Holder, Active
    <3>5. Phase' = [Phase EXCEPT ![s] = "connected"]
      BY <3>2, <3>3 DEF Phase
    <3>6. CASE row[s].media = "CONNECTED"
      <4>. Phase' = Phase
        BY <2>1, <2>3, <3>2, <3>3, <3>6 DEF Phase, Active
      <4>. QED
        BY <3>4 DEF Lifecycle!vars
    <3>7. CASE row[s].media # "CONNECTED"
      <4>. Phase[s] = "negotiating"
        BY <2>1, <2>3, <3>7, RowShows
      <4>. Lifecycle!Connect(s)
        BY <3>4, <3>5 DEF Lifecycle!Connect
      <4>. QED
        BY <2>1 DEF Lifecycle!Next
    <3>. QED
      BY <3>6, <3>7
  <2>. QED
    BY <2>2, <2>3
<1>5. ASSUME NEW j \in Jobs, EndCommit(j)
      PROVE  Lifecycle!Next
  <2>. DEFINE S == {s \in Sessions : s \in job[j].doomed /\ Active(s)}
  <2>. row' = [s \in Sessions |-> IF s \in S THEN EndedRow(row[s], "IDLE") ELSE row[s]]
    BY <1>5 DEF EndCommit, EndSessions, Active
  <2>. Lifecycle!Close(S)
    BY EndingCloses
  <2>. QED
    BY DEF Lifecycle!Next
<1>6. ASSUME NEW b \in Background, NEW c \in Channels, WorkerDied(b, c)
      PROVE  Lifecycle!Next
  <2>. Lifecycle!Close(ActiveIn(c))
    BY <1>6, EndingCloses DEF WorkerDied, ActiveIn
  <2>. QED
    BY DEF Lifecycle!Next, ActiveIn
<1>7. ASSUME NEW s \in Sessions, DeadlinePasses(s)
      PROVE  UNCHANGED Lifecycle!vars
  <2>. ASSUME NEW x \in Sessions
       PROVE  /\ row'[x].status = row[x].status /\ row'[x].media = row[x].media
              /\ row'[x].user = row[x].user /\ row'[x].channel = row[x].channel
    BY <1>7 DEF DeadlinePasses, Row
  <2>. QED
    BY DEF Lifecycle!vars, Phase, Holder
<1>. QED
  BY <1>1, <1>2, <1>3, <1>4, <1>5, <1>6, <1>7, RowSteps

(* The handlers, timers and callbacks together implement the life cycle:    *)
(* no session is opened twice, revived, given to another user, connected    *)
(* twice, or ended by another user's join.                                  *)
THEOREM LifecycleImplemented == Spec => ImplementsLifecycle
<1>1. Init => Lifecycle!Init
  BY DEF Init, Lifecycle!Init, Phase, Holder, NoRow
<1>2. MappingInv /\ [Next]_vars => [Lifecycle!Next]_(Lifecycle!vars)
  BY LifecycleStep
<1>. QED
  BY <1>1, <1>2, MappingInvHolds, PTL DEF Spec, ImplementsLifecycle, Lifecycle!Spec

-----------------------------------------------------------------------------
(***************************************************************************)
(* The client: what is shown as connected sends, and what is not started   *)
(* is silent or shown.                                                     *)
(***************************************************************************)

Calls == [pc : {"done", "refused", "create", "resume"}, on : 0..starts, for : 0..starts]

Negotiations == [pc : {"done", "refused", "router", "load", "transports", "microphone", "produce"},
                 on : 0..starts, known : SUBSET Producers]

Receivers == [on : 0..starts, for : 0..starts]

CallInv ==
    /\ negotiation \in [Starts -> Negotiations]
    /\ consuming \in [Slots -> Calls]
    /\ consumers \in [Producers -> Receivers]
    /\ liveSession \in 0..starts
    /\ \A n \in Starts : Waiting(n) => n <= starts

(* Whatever overlaps: a producer is never left on closed transports, and   *)
(* what is open while the client is not started is the matter of a         *)
(* negotiation that has not ended, or shows.                               *)
MediaInv ==
    /\ producer # 0 => producer \in open
    /\ transports = 0 => mic = 0
    /\ status = "connected" => producer # 0
    /\ session = 0 /\ transports # 0
         => status = "connected" \/ \E n \in Starts : Waiting(n)

(* While no start found anything left of the one before, one negotiation   *)
(* at a time fills the variables in its order, and whatever clears them    *)
(* closes what it goes on with.                                            *)
AloneInv ==
    ~overlapped =>
        /\ \A m, n \in Starts : Waiting(m) /\ Waiting(n) => m = n
        /\ open \subseteq {transports}
        /\ capturing \subseteq {mic}
        /\ producer # 0 => mic # 0
        /\ \A n \in Starts :
              /\ negotiation[n].pc \in {"router", "load", "transports"} => transports = 0
              /\ negotiation[n].pc \in {"router", "load", "transports", "microphone"} => mic = 0
              /\ negotiation[n].pc = "produce" /\ negotiation[n].on \in open => mic # 0

ClientInv ==
    /\ ClientTypeOK
    /\ CallInv
    /\ MediaInv
    /\ AloneInv

-----------------------------------------------------------------------------
(* Typing, piece by piece.                                                 *)
LEMMA Numbers ==
  ASSUME ClientInv
  PROVE  /\ starts \in Nat /\ MaxStarts \in Nat /\ starts <= MaxStarts
         /\ session \in 0..starts /\ device \in 0..starts /\ transports \in 0..starts
         /\ producer \in 0..starts /\ mic \in 0..starts
         /\ open \subseteq 1..starts /\ capturing \subseteq 1..starts
         /\ transports # 0 => transports \in open
         /\ mic # 0 => mic \in capturing
BY ClientConstants DEF ClientInv, ClientTypeOK

LEMMA CallsTyped ==
  ASSUME CallInv
  PROVE  /\ \A n \in Starts : /\ negotiation[n].on \in 0..starts
                              /\ negotiation[n].known \subseteq Producers
         /\ \A s \in Slots : consuming[s].on \in 0..starts /\ consuming[s].for \in 0..starts
         /\ \A p \in Producers : consumers[p].on \in 0..starts /\ consumers[p].for \in 0..starts
         /\ liveSession \in 0..starts
BY DEF CallInv, Negotiations, Calls, Receivers

LEMMA NothingIsTyped ==
  ASSUME starts \in Nat
  PROVE  /\ NoConsumer \in Receivers
         /\ NoCall \in Calls
         /\ NoNegotiation \in Negotiations
BY DEF NoConsumer, Receivers, NoCall, Calls, NoNegotiation, Negotiations

(* The calls of consumeRemoteProducer that a step begins are for the       *)
(* session of the moment.                                                  *)
LEMMA ConsumeTyped ==
  ASSUME ClientInv, NEW ps, Consume(ps)
  PROVE  consuming' \in [Slots -> Calls]
<1>1. \A p : [pc |-> Asking("create", MayConsume(p, session)), on |-> 0, for |-> session] \in Calls
  BY Numbers DEF Calls, Asking
<1>2. consuming \in [Slots -> Calls]
  BY DEF ClientInv, CallInv
<1>. QED
  BY <1>1, <1>2 DEF Consume

LEMMA QueueTyped ==
  ASSUME ClientInv, NEW ps \in SUBSET Producers, NEW queued \in SUBSET Producers,
         QueueOrConsume(ps, queued)
  PROVE  consuming' \in [Slots -> Calls] /\ pending' \subseteq Producers
<1>1. CASE HasReceiver
  BY <1>1, ConsumeTyped DEF QueueOrConsume
<1>2. CASE ~HasReceiver
  BY <1>2 DEF QueueOrConsume, Wanted, ClientInv, CallInv
<1>. QED
  BY <1>1, <1>2

-----------------------------------------------------------------------------
(* Steps that leave the client's media and its negotiations alone: they    *)
(* matter to the types only.                                               *)
LEMMA MediaUntouched ==
  ASSUME ClientInv,
         UNCHANGED <<status, session, media, starts, negotiation, overlapped>>,
         consuming' \in [Slots -> Calls],
         consumers' \in [Producers -> Receivers],
         liveSession' \in 0..starts,
         pending' \subseteq Producers
  PROVE  ClientInv'
<1>1. CallInv'
  BY DEF ClientInv, CallInv, Waiting, Calls, Receivers, Negotiations
<1>2. ClientTypeOK'
  <2>1. liveSession' \in 0..starts'
    OBVIOUS
  <2>2. \A p \in Producers : consumers'[p].on \in 0..starts' /\ consumers'[p].for \in 0..starts'
    BY DEF Receivers
  <2>. QED
    BY <2>1, <2>2 DEF ClientInv, ClientTypeOK, media
<1>3. MediaInv' /\ AloneInv'
  BY DEF ClientInv, MediaInv, AloneInv, media, Waiting
<1>. QED
  BY <1>1, <1>2, <1>3 DEF ClientInv

(* Whatever clears the variables closes what they hold: teardownMedia, by  *)
(* a stop, a failure or the loss of the worker, whatever negotiations end  *)
(* with it.                                                                *)
LEMMA TornDown ==
  ASSUME ClientInv, TeardownMedia,
         session' = 0,
         status' \in {"idle", "reconnecting", "failed"},
         UNCHANGED <<starts, consuming, overlapped>>,
         liveSession' \in 0..starts,
         pending' \subseteq Producers,
         negotiation' \in [Starts -> Negotiations],
         \A n \in Starts : negotiation'[n] \in {negotiation[n], NoNegotiation}
  PROVE  ClientInv'
<1>0. \A n \in Starts :
         negotiation'[n].pc # "done" => negotiation'[n] = negotiation[n] /\ Waiting(n)
  BY DEF NoNegotiation, Waiting
<1>1. CallInv'
  <2>1. consumers' \in [Producers -> Receivers]
    BY Numbers, NothingIsTyped DEF TeardownMedia
  <2>2. \A n \in Starts : Waiting(n)' => n <= starts'
    BY <1>0 DEF ClientInv, CallInv, Waiting
  <2>. QED
    BY <2>1, <2>2 DEF ClientInv, CallInv, Calls, Receivers, Negotiations
<1>2. ClientTypeOK'
  <2>1. liveSession' \in 0..starts'
    OBVIOUS
  <2>2. \A p \in Producers : consumers'[p].on \in 0..starts' /\ consumers'[p].for \in 0..starts'
    BY Numbers DEF TeardownMedia, NoConsumer
  <2>3. /\ starts' \in 0..MaxStarts /\ session' \in 0..starts'
        /\ {device', transports', producer', mic'} \subseteq 0..starts'
        /\ transports' = 0 /\ mic' = 0
        /\ open' \cup capturing' \subseteq 1..starts'
    BY Numbers DEF TeardownMedia
  <2>. QED
    BY <2>1, <2>2, <2>3 DEF ClientTypeOK
<1>3. MediaInv'
  BY DEF TeardownMedia, MediaInv
<1>4. AloneInv'
  <2>. SUFFICES ASSUME ~overlapped PROVE AloneInv'
    BY DEF AloneInv
  <2>1. open' = {} /\ capturing' = {}
    BY DEF TeardownMedia, ClientInv, AloneInv
  <2>2. \A m, n \in Starts : Waiting(m)' /\ Waiting(n)' => m = n
    BY <1>0 DEF ClientInv, AloneInv, Waiting
  <2>. QED
    BY <2>1, <2>2 DEF TeardownMedia, AloneInv
<1>. QED
  BY <1>1, <1>2, <1>3, <1>4 DEF ClientInv

-----------------------------------------------------------------------------
(* The page's calls                                                        *)

(* A start that finds nothing left begins with empty variables.            *)
LEMMA StartKeeps ==
  ASSUME ClientInv, Start
  PROVE  ClientInv'
<1>. DEFINE n == starts + 1
            call == [pc |-> "router", on |-> 0, known |-> ActiveProducers]
<1>0. /\ n \in Starts /\ starts' = n /\ n # 0
      /\ negotiation' = [negotiation EXCEPT ![n] = call]
      /\ call.pc = "router"
      /\ negotiation \in [Starts -> Negotiations]
  BY Numbers DEF Start, ClientInv, CallInv
<1>1. /\ negotiation'[n] = call
      /\ \A m \in Starts \ {n} : negotiation'[m] = negotiation[m]
  BY <1>0
<1>2. CallInv'
  <2>1. starts' \in Nat /\ 0..starts \subseteq 0..starts'
    BY Numbers, <1>0
  <2>2. call \in Negotiations'
    BY <2>1 DEF Negotiations, ActiveProducers
  <2>3. negotiation' \in [Starts -> Negotiations']
    <3>1. Negotiations \subseteq Negotiations'
      BY <2>1 DEF Negotiations
    <3>. HIDE DEF call
    <3>. QED
      BY <1>0, <3>1, <2>2
  <2>4. consuming' \in [Slots -> Calls']
    <3>1. Calls \subseteq Calls'
      BY <2>1 DEF Calls
    <3>. QED
      BY <3>1 DEF ClientInv, CallInv, Start
  <2>5. consumers' \in [Producers -> Receivers']
    <3>1. Receivers \subseteq Receivers'
      BY <2>1 DEF Receivers
    <3>. QED
      BY <3>1 DEF ClientInv, CallInv, Start
  <2>6. liveSession' \in 0..starts'
    BY <2>1, <1>0 DEF Start
  <2>7. \A m \in Starts : Waiting(m)' => m <= starts'
    BY <1>0, <1>1, Numbers DEF ClientInv, CallInv, Waiting, Starts
  <2>. QED
    BY <2>3, <2>4, <2>5, <2>6, <2>7 DEF CallInv
<1>3. ClientTypeOK'
  <2>1. starts' \in 0..MaxStarts /\ session' \in 0..starts' /\ 0..starts \subseteq 0..starts'
        /\ 1..starts \subseteq 1..starts'
    BY Numbers, <1>0 DEF Start, Starts
  <2>2. /\ liveSession' \in 0..starts'
        /\ \A p \in Producers : consumers'[p].on \in 0..starts' /\ consumers'[p].for \in 0..starts'
    BY <1>2 DEF CallInv, Receivers
  <2>3. UNCHANGED media /\ pending' = {} /\ status' = "negotiating"
    BY DEF Start
  <2>. QED
    BY <2>1, <2>2, <2>3 DEF ClientInv, ClientTypeOK, media
<1>4. MediaInv'
  <2>1. session' # 0 /\ status' = "negotiating" /\ UNCHANGED media
    BY <1>0 DEF Start
  <2>. QED
    BY <2>1 DEF ClientInv, MediaInv, media
<1>5. AloneInv'
  <2>. SUFFICES ASSUME ~overlapped' PROVE AloneInv'
    BY DEF AloneInv
  <2>1. ~overlapped /\ transports = 0 /\ \A m \in Starts : ~Waiting(m)
    BY DEF Start
  <2>2. open = {} /\ mic = 0 /\ capturing = {} /\ producer = 0
    BY <2>1, Numbers DEF ClientInv, AloneInv, MediaInv
  <2>3. \A m \in Starts : negotiation'[m].pc # "done" => m = n /\ negotiation'[m].pc = "router"
    BY <2>1, <1>1, <1>0 DEF Waiting
  <2>. QED
    BY <2>1, <2>2, <2>3 DEF Start, media, AloneInv, Waiting
<1>. QED
  BY <1>2, <1>3, <1>4, <1>5 DEF ClientInv

LEMMA StopKeeps ==
  ASSUME ClientInv, Stop
  PROVE  ClientInv'
<1>1. /\ TeardownMedia /\ session' = 0 /\ status' = "idle" /\ pending' = {}
      /\ UNCHANGED <<starts, calls, liveSession, overlapped>>
  BY DEF Stop, Unstart, server
<1>. QED
  BY <1>1, TornDown DEF ClientInv, CallInv, calls

LEMMA WorkerDiedKeeps ==
  ASSUME ClientInv, HandleWorkerDied
  PROVE  ClientInv'
<1>1. /\ TeardownMedia /\ session' = 0 /\ status' = "reconnecting"
      /\ UNCHANGED <<starts, calls, pending, overlapped>>
      /\ liveSession' \in {liveSession, 0}
  BY DEF HandleWorkerDied, Unstart
<1>2. liveSession' \in 0..starts /\ pending' \subseteq Producers
  BY <1>1, Numbers, NothingIsTyped DEF ClientInv, CallInv, ClientTypeOK
<1>. QED
  BY <1>1, <1>2, TornDown DEF ClientInv, CallInv, calls

-----------------------------------------------------------------------------
(* negotiate                                                               *)

(* A negotiation that fails closes what the variables hold.                *)
LEMMA FailureKeeps ==
  ASSUME ClientInv, NEW n \in Starts, TeardownMedia, Fail(n)
  PROVE  ClientInv'
<1>1. /\ session' = 0 /\ status' = "failed" /\ pending' = {}
      /\ UNCHANGED <<starts, consuming, liveSession, overlapped>>
      /\ negotiation' = [negotiation EXCEPT ![n] = NoNegotiation]
  BY DEF Fail, Unstart, server
<1>2. /\ negotiation' \in [Starts -> Negotiations]
      /\ \A m \in Starts : negotiation'[m] \in {negotiation[m], NoNegotiation}
  BY <1>1, Numbers, NothingIsTyped DEF ClientInv, CallInv
<1>. QED
  BY <1>1, <1>2, TornDown DEF ClientInv, CallInv

(* A step of negotiation n that leaves the transports, the producer and the *)
(* microphone alone, before any of them is made.                           *)
LEMMA BeforeTransports ==
  ASSUME ClientInv, NEW n \in Starts, NEW next \in Negotiations,
         negotiation[n].pc \in {"router", "load"},
         next.pc \in {"load", "transports", "refused"},
         negotiation' = [negotiation EXCEPT ![n] = next],
         UNCHANGED <<status, session, transports, producer, mic, open, capturing, consumers,
                     starts, consuming, liveSession, overlapped>>,
         device' \in 0..starts,
         pending' \subseteq Producers
  PROVE  ClientInv'
<1>1. /\ negotiation' \in [Starts -> Negotiations]
      /\ negotiation'[n].pc \in {"load", "transports", "refused"}
      /\ \A m \in Starts \ {n} : negotiation'[m] = negotiation[m]
  BY DEF ClientInv, CallInv
<1>2. \A m \in Starts : Waiting(m)' <=> Waiting(m)
  BY <1>1 DEF Waiting
<1>3. CallInv'
  BY <1>1, <1>2 DEF ClientInv, CallInv, Calls, Receivers, Negotiations
<1>4. ClientTypeOK'
  BY Numbers DEF ClientInv, ClientTypeOK
<1>5. MediaInv'
  BY <1>2 DEF ClientInv, MediaInv
<1>6. AloneInv'
  BY <1>1, <1>2 DEF ClientInv, AloneInv
<1>. QED
  BY <1>3, <1>4, <1>5, <1>6 DEF ClientInv

LEMMA MakeDeviceKeeps ==
  ASSUME ClientInv, NEW n \in Starts, MakeDevice(n)
  PROVE  ClientInv'
<1>. DEFINE next == [negotiation[n] EXCEPT !.pc = "load"]
<1>0. /\ negotiation[n].pc = "router" /\ n \in 0..starts
      /\ negotiation[n] \in Negotiations
  BY Numbers DEF MakeDevice, ClientInv, CallInv, Waiting, Starts
<1>1. next \in Negotiations /\ next.pc = "load"
  BY <1>0 DEF Negotiations
<1>2. pending' \subseteq Producers
  BY DEF MakeDevice, ClientInv, ClientTypeOK
<1>3. /\ negotiation' = [negotiation EXCEPT ![n] = next]
      /\ UNCHANGED <<status, session, transports, producer, mic, open, capturing, consumers,
                     starts, consuming, liveSession, overlapped>>
      /\ device' = n
  BY DEF MakeDevice, Proceed, server, ghosts
<1>. HIDE DEF next
<1>. QED
  BY <1>0, <1>1, <1>2, <1>3, BeforeTransports

LEMMA LoadDeviceKeeps ==
  ASSUME ClientInv, NEW n \in Starts, LoadDevice(n)
  PROVE  ClientInv'
<1>. DEFINE pc == Asking("transports", n = liveSession)
            next == [negotiation[n] EXCEPT !.pc = pc, !.known = {}]
<1>0. /\ negotiation[n].pc = "load" /\ pc \in {"transports", "refused"}
      /\ negotiation[n] \in Negotiations
  BY DEF LoadDevice, ClientInv, CallInv, Asking
<1>1. next \in Negotiations /\ next.pc \in {"transports", "refused"}
  <2>. HIDE DEF pc
  <2>. QED
    BY <1>0 DEF Negotiations
<1>2. pending' \subseteq Producers /\ device' \in 0..starts
  <2>1. negotiation[n].known \subseteq Producers /\ pending \subseteq Producers
    BY CallsTyped DEF ClientInv, ClientTypeOK
  <2>. QED
    BY <2>1, Numbers DEF LoadDevice, media
<1>3. /\ negotiation' = [negotiation EXCEPT ![n] = next]
      /\ UNCHANGED <<status, session, transports, producer, mic, open, capturing, consumers,
                     starts, consuming, liveSession, overlapped>>
  BY DEF LoadDevice, Proceed, server, ghosts, media
<1>. HIDE DEF next
<1>. QED
  BY <1>0, <1>1, <1>2, <1>3, BeforeTransports

(* The transports of a negotiation that is alone find none before them.    *)
LEMMA CreateTransportsKeeps ==
  ASSUME ClientInv, NEW n \in Starts, CreateTransports(n)
  PROVE  ClientInv'
<1>1. CASE ~DeviceLoaded
  BY <1>1, FailureKeeps DEF CreateTransports
<1>2. CASE DeviceLoaded
  <2>. DEFINE next == [negotiation[n] EXCEPT !.pc = "microphone"]
  <2>0. /\ negotiation[n].pc = "transports" /\ n \in 1..starts /\ n # 0
        /\ negotiation[n] \in Negotiations
    BY Numbers DEF CreateTransports, ClientInv, CallInv, Waiting, Starts
  <2>1. next \in Negotiations /\ next.pc = "microphone"
    BY <2>0 DEF Negotiations
  <2>. HIDE DEF next
  <2>2. /\ negotiation' = [negotiation EXCEPT ![n] = next]
        /\ UNCHANGED <<status, session, device, producer, mic, capturing, consumers, pending,
                       starts, consuming, liveSession, overlapped>>
        /\ transports' = n
        /\ open' = open \cup {n}
    BY <1>2 DEF CreateTransports, Proceed, next, server, ghosts
  <2>3. /\ negotiation' \in [Starts -> Negotiations]
        /\ negotiation'[n].pc = "microphone"
        /\ \A m \in Starts \ {n} : negotiation'[m] = negotiation[m]
    BY <2>1, <2>2 DEF ClientInv, CallInv
  <2>4. \A m \in Starts : Waiting(m)' <=> Waiting(m)
    BY <2>0, <2>3 DEF Waiting
  <2>5. CallInv'
    BY <2>2, <2>3, <2>4 DEF ClientInv, CallInv, Calls, Receivers, Negotiations
  <2>6. ClientTypeOK'
    BY <2>0, <2>2, Numbers DEF ClientInv, ClientTypeOK
  <2>7. MediaInv'
    <3>1. Waiting(n)'
      BY <2>3 DEF Waiting
    <3>. QED
      BY <2>0, <2>2, <3>1 DEF ClientInv, MediaInv
  <2>8. AloneInv'
    <3>. SUFFICES ASSUME ~overlapped PROVE AloneInv'
      BY <2>2 DEF AloneInv
    <3>1. transports = 0 /\ mic = 0 /\ producer = 0
      BY <2>0 DEF ClientInv, AloneInv
    <3>2. open' = {n} /\ capturing' = {}
      BY <2>2, <3>1, Numbers DEF ClientInv, AloneInv
    <3>3. \A m \in Starts : negotiation'[m].pc # "done" => m = n /\ negotiation'[m].pc = "microphone"
      BY <2>0, <2>3 DEF ClientInv, AloneInv, Waiting
    <3>. QED
      BY <2>2, <3>1, <3>2, <3>3 DEF AloneInv, Waiting
  <2>. QED
    BY <2>5, <2>6, <2>7, <2>8 DEF ClientInv
<1>. QED
  BY <1>1, <1>2

(* Without transports there was no microphone either: what this clears of  *)
(* the variables is all teardownMedia would close.                         *)
LEMMA OpenMicrophoneKeeps ==
  ASSUME ClientInv, NEW n \in Starts, OpenMicrophone(n)
  PROVE  ClientInv'
<1>1. CASE transports = 0
  <2>1. mic = 0
    BY <1>1 DEF ClientInv, MediaInv
  <2>2. open = open \ {0} /\ capturing = capturing \ {0}
    BY Numbers
  <2>3. TeardownMedia /\ Fail(n)
    BY <1>1, <2>1, <2>2 DEF OpenMicrophone, TeardownMedia
  <2>. QED
    BY <2>3, FailureKeeps
<1>2. CASE transports # 0
  <2>. DEFINE pc == Asking("produce", transports = liveSession)
              next == [negotiation[n] EXCEPT !.pc = pc, !.on = transports]
  <2>0. /\ negotiation[n].pc = "microphone" /\ n \in 1..starts /\ n # 0
        /\ negotiation[n] \in Negotiations
    BY Numbers DEF OpenMicrophone, ClientInv, CallInv, Waiting, Starts
  <2>1. next \in Negotiations /\ next.pc \in {"produce", "refused"}
    <3>. pc \in {"produce", "refused"}
      BY DEF Asking
    <3>. HIDE DEF pc
    <3>. QED
      BY <2>0, Numbers DEF Negotiations
  <2>. HIDE DEF next
  <2>2. /\ negotiation' = [negotiation EXCEPT ![n] = next]
        /\ UNCHANGED <<status, session, device, transports, producer, open, consumers, pending,
                       starts, consuming, liveSession, overlapped>>
        /\ mic' = n
        /\ capturing' = capturing \cup {n}
    BY <1>2 DEF OpenMicrophone, Proceed, next, server, ghosts
  <2>3. /\ negotiation' \in [Starts -> Negotiations]
        /\ negotiation'[n].pc \in {"produce", "refused"}
        /\ \A m \in Starts \ {n} : negotiation'[m] = negotiation[m]
    BY <2>1, <2>2 DEF ClientInv, CallInv
  <2>4. \A m \in Starts : Waiting(m)' <=> Waiting(m)
    BY <2>0, <2>3 DEF Waiting
  <2>5. CallInv'
    BY <2>2, <2>3, <2>4 DEF ClientInv, CallInv, Calls, Receivers, Negotiations
  <2>6. ClientTypeOK'
    BY <2>0, <2>2, Numbers DEF ClientInv, ClientTypeOK
  <2>7. MediaInv'
    BY <1>2, <2>2, <2>4 DEF ClientInv, MediaInv
  <2>8. AloneInv'
    <3>. SUFFICES ASSUME ~overlapped PROVE AloneInv'
      BY <2>2 DEF AloneInv
    <3>1. mic = 0
      BY <2>0 DEF ClientInv, AloneInv
    <3>2. capturing' = {n} /\ open' \subseteq {transports'}
      BY <2>2, <3>1, Numbers DEF ClientInv, AloneInv
    <3>3. \A m \in Starts : negotiation'[m].pc # "done"
                            => m = n /\ negotiation'[m].pc \in {"produce", "refused"}
      BY <2>0, <2>3 DEF ClientInv, AloneInv, Waiting
    <3>. QED
      BY <2>0, <2>2, <3>2, <3>3 DEF AloneInv, Waiting
  <2>. QED
    BY <2>5, <2>6, <2>7, <2>8 DEF ClientInv
<1>. QED
  BY <1>1, <1>2

(* What a negotiation produces on is open, and while it is alone the       *)
(* microphone it opened still is.                                          *)
LEMMA ProduceKeeps ==
  ASSUME ClientInv, NEW n \in Starts, Produce(n)
  PROVE  ClientInv'
<1>. DEFINE t == negotiation[n].on
<1>0. negotiation[n].pc = "produce" /\ t \in open /\ t \in 1..starts /\ t # 0
  BY Numbers DEF Produce
<1>1. /\ negotiation' = [negotiation EXCEPT ![n] = NoNegotiation]
      /\ UNCHANGED <<session, device, transports, mic, open, capturing, consumers, starts,
                     liveSession, overlapped>>
      /\ producer' = t /\ status' = "connected" /\ pending' = {}
  BY DEF Produce, Proceed, server
<1>. HIDE DEF t
<1>2. consuming' \in [Slots -> Calls]
  <2>1. consuming \in [Slots -> Calls]
    BY DEF ClientInv, CallInv
  <2>. QED
    BY <2>1, ConsumeTyped DEF Produce, ConsumeQueued
<1>3. /\ negotiation' \in [Starts -> Negotiations]
      /\ negotiation'[n].pc = "done"
      /\ \A m \in Starts \ {n} : negotiation'[m] = negotiation[m]
  <2>1. NoNegotiation.pc = "done" /\ NoNegotiation \in Negotiations
    BY Numbers, NothingIsTyped DEF NoNegotiation
  <2>. QED
    BY <1>1, <2>1 DEF ClientInv, CallInv
<1>4. \A m \in Starts : Waiting(m)' => Waiting(m)
  BY <1>0, <1>3 DEF Waiting
<1>5. liveSession' \in 0..starts
  BY <1>1 DEF ClientInv, CallInv
<1>6. CallInv'
  BY <1>1, <1>2, <1>3, <1>4, <1>5 DEF ClientInv, CallInv, Calls, Receivers, Negotiations
<1>7. ClientTypeOK'
  <2>1. liveSession' \in 0..starts'
    BY <1>1, <1>5 
  <2>. QED
    BY <1>0, <1>1, <2>1, Numbers DEF ClientInv, ClientTypeOK
<1>8. MediaInv'
  BY <1>0, <1>1 DEF ClientInv, MediaInv
<1>9. AloneInv'
  <2>. SUFFICES ASSUME ~overlapped PROVE AloneInv'
    BY <1>1 DEF AloneInv
  <2>1. mic # 0
    BY <1>0 DEF ClientInv, AloneInv, t
  <2>2. \A m \in Starts : ~Waiting(m)'
    BY <1>0, <1>3 DEF ClientInv, AloneInv, Waiting
  <2>. QED
    BY <1>1, <2>1, <2>2 DEF ClientInv, AloneInv, Waiting
<1>. QED
  BY <1>6, <1>7, <1>8, <1>9 DEF ClientInv

-----------------------------------------------------------------------------
(* Others' producers, and the server                                       *)

LEMMA ConsumeStepsKeep ==
  ASSUME ClientInv, NEW s \in Slots, CreateConsumer(s) \/ ResumeConsumer(s) \/ ConsumeFails(s)
  PROVE  ClientInv'
<1>0. /\ consuming \in [Slots -> Calls] /\ consuming[s] \in Calls
      /\ consumers \in [Producers -> Receivers]
      /\ liveSession \in 0..starts /\ pending \subseteq Producers
      /\ s[1] \in Producers
  BY DEF ClientInv, CallInv, ClientTypeOK, Slots
<1>1. CASE CreateConsumer(s)
  <2>. DEFINE pc == Asking("resume", MayResume(s[1], consuming[s].for))
  <2>0. pc \in {"resume", "refused"}
    BY DEF Asking
  <2>1. consuming' = [consuming EXCEPT ![s].pc = pc, ![s].on = transports]
    BY <1>1 DEF CreateConsumer
  <2>. HIDE DEF pc
  <2>2. consuming' \in [Slots -> Calls]
    BY <1>0, <2>0, <2>1, Numbers DEF Calls
  <2>. QED
    BY <1>0, <1>1, <2>2, MediaUntouched DEF CreateConsumer, server, ghosts
<1>2. CASE ResumeConsumer(s)
  <2>1. [on |-> consuming[s].on, for |-> consuming[s].for] \in Receivers
    BY <1>0 DEF Calls, Receivers
  <2>2. consuming' \in [Slots -> Calls] /\ consumers' \in [Producers -> Receivers]
    BY <1>0, <1>2, <2>1, Numbers, NothingIsTyped DEF ResumeConsumer
  <2>. QED
    BY <1>0, <1>2, <2>2, MediaUntouched DEF ResumeConsumer, server, ghosts
<1>3. CASE ConsumeFails(s)
  <2>1. consuming' \in [Slots -> Calls]
    BY <1>0, <1>3, Numbers, NothingIsTyped DEF ConsumeFails
  <2>. QED
    BY <1>0, <1>3, <2>1, MediaUntouched DEF ConsumeFails, server
<1>. QED
  BY <1>1, <1>2, <1>3

LEMMA EventsKeep ==
  ASSUME ClientInv, NEW p \in Producers, NEW event,
         DeliverCreated(p) \/ DeliverClosed(p) \/ LoseEvent(p, event)
  PROVE  ClientInv'
<1>0. /\ consuming \in [Slots -> Calls] /\ consumers \in [Producers -> Receivers]
      /\ liveSession \in 0..starts /\ pending \subseteq Producers
      /\ NoConsumer \in Receivers
  BY Numbers, NothingIsTyped DEF ClientInv, CallInv, ClientTypeOK
<1>1. CASE DeliverCreated(p)
  <2>1. consuming' \in [Slots -> Calls] /\ pending' \subseteq Producers
    BY <1>0, <1>1, QueueTyped DEF DeliverCreated
  <2>. QED
    BY <1>0, <1>1, <2>1, MediaUntouched DEF DeliverCreated, Deliver, ghosts
<1>2. CASE DeliverClosed(p)
  <2>1. consumers' \in [Producers -> Receivers] /\ pending' \subseteq Producers
    BY <1>0, <1>2 DEF DeliverClosed
  <2>. QED
    BY <1>0, <1>2, <2>1, MediaUntouched DEF DeliverClosed, Deliver, ghosts
<1>3. CASE LoseEvent(p, event)
  BY <1>0, <1>3, MediaUntouched DEF LoseEvent, Deliver, ghosts
<1>. QED
  BY <1>1, <1>2, <1>3

LEMMA PollsKeep ==
  ASSUME ClientInv, Poll \/ TakePoll
  PROVE  ClientInv'
<1>0. /\ consuming \in [Slots -> Calls] /\ consumers \in [Producers -> Receivers]
      /\ liveSession \in 0..starts /\ pending \subseteq Producers
      /\ NoConsumer \in Receivers
  BY Numbers, NothingIsTyped DEF ClientInv, CallInv, ClientTypeOK
<1>1. CASE Poll
  BY <1>0, <1>1, MediaUntouched DEF Poll, calls, ghosts
<1>2. CASE TakePoll
  <2>1. /\ consuming' \in [Slots -> Calls] /\ pending' \subseteq Producers
        /\ consumers' \in [Producers -> Receivers]
    <3>1. CASE IgnorePoll
      BY <1>0, <3>1 DEF IgnorePoll
    <3>2. CASE Sync /\ session # 0
      <4>1. Listed \in SUBSET Producers /\ pending \cap Listed \in SUBSET Producers
        BY <1>0 DEF Listed
      <4>2. consuming' \in [Slots -> Calls] /\ pending' \subseteq Producers
        BY <3>2, <4>1, QueueTyped DEF Sync
      <4>3. consumers' \in [Producers -> Receivers]
        BY <1>0, <3>2 DEF Sync, ReconciledConsumers
      <4>. QED
        BY <4>2, <4>3
    <3>3. CASE Sync /\ session = 0
      BY <1>0, <3>3 DEF Sync
    <3>. QED
      BY <1>2, <3>1, <3>2, <3>3 DEF TakePoll
  <2>. QED
    BY <1>0, <1>2, <2>1, MediaUntouched DEF TakePoll, ghosts
<1>. QED
  BY <1>1, <1>2

(* A connection that is lost shows as reconnecting; one that is made shows *)
(* as connected where there is a producer.                                 *)
LEMMA ConnectionsKeep ==
  ASSUME ClientInv, LoseTransport \/ ConnectTransport
  PROVE  ClientInv'
<1>1. /\ UNCHANGED <<session, media, consumers, pending, starts, calls, server, ghosts>>
      /\ status' \in {"connected", "reconnecting"}
      /\ status' = "connected" => producer # 0
      /\ session = 0 => status' = "connected"
  BY DEF LoseTransport, ConnectTransport, HasMedia
<1>2. ClientTypeOK'
  BY <1>1 DEF ClientInv, ClientTypeOK, media, server
<1>3. CallInv'
  BY <1>1 DEF ClientInv, CallInv, calls, server, Waiting, Calls, Receivers, Negotiations
<1>4. MediaInv' /\ AloneInv'
  BY <1>1 DEF ClientInv, MediaInv, AloneInv, media, calls, ghosts, Waiting
<1>. QED
  BY <1>2, <1>3, <1>4 DEF ClientInv

LEMMA ServerKeeps ==
  ASSUME ClientInv, EndSession \/ \E p \in Producers : RemoteProduces(p) \/ RemoteLeaves(p) \/ RemoteCloses(p)
  PROVE  ClientInv'
<1>1. /\ UNCHANGED <<status, session, media, consumers, pending, starts, calls, overlapped>>
      /\ liveSession' \in {liveSession, 0}
  BY DEF EndSession, RemoteProduces, RemoteLeaves, RemoteCloses, ghosts
<1>2. /\ consuming \in [Slots -> Calls] /\ consumers \in [Producers -> Receivers]
      /\ liveSession' \in 0..starts /\ pending \subseteq Producers
  BY <1>1, Numbers, NothingIsTyped DEF ClientInv, CallInv, ClientTypeOK
<1>. QED
  BY <1>1, <1>2, MediaUntouched DEF calls

-----------------------------------------------------------------------------
LEMMA InitClientInv == ClientInit => ClientInv
<1>. SUFFICES ASSUME ClientInit PROVE ClientInv
  OBVIOUS
<1>0. starts = 0 /\ \A n \in Starts : ~Waiting(n)
  BY DEF ClientInit, Waiting, NoNegotiation
<1>1. ClientTypeOK
  BY ClientConstants DEF ClientInit, ClientTypeOK, NoConsumer
<1>2. CallInv
  BY <1>0, NothingIsTyped DEF ClientInit, CallInv
<1>3. MediaInv /\ AloneInv
  BY <1>0 DEF ClientInit, MediaInv, AloneInv, Waiting
<1>. QED
  BY <1>1, <1>2, <1>3 DEF ClientInv

LEMMA NextClientInv == ClientInv /\ [ClientNext]_clientVars => ClientInv'
<1>. SUFFICES ASSUME ClientInv, [ClientNext]_clientVars PROVE ClientInv'
  OBVIOUS
<1>1. CASE UNCHANGED clientVars
  <2>1. UNCHANGED <<status, session, media, starts, negotiation, overlapped, consuming,
                    consumers, liveSession, pending>>
    BY <1>1 DEF clientVars, calls, server, ghosts
  <2>. QED
    BY <2>1, MediaUntouched DEF ClientInv, CallInv, ClientTypeOK
<1>2. CASE Start \/ Stop \/ HandleWorkerDied
  BY <1>2, StartKeeps, StopKeeps, WorkerDiedKeeps
<1>3. ASSUME NEW n \in Starts,
             \/ MakeDevice(n) \/ LoadDevice(n) \/ CreateTransports(n) \/ OpenMicrophone(n)
             \/ Produce(n) \/ NegotiationFails(n)
      PROVE  ClientInv'
  <2>1. CASE NegotiationFails(n)
    BY <2>1, FailureKeeps DEF NegotiationFails
  <2>. QED
    BY <1>3, <2>1, MakeDeviceKeeps, LoadDeviceKeeps, CreateTransportsKeeps, OpenMicrophoneKeeps, ProduceKeeps
<1>4. ASSUME NEW s \in Slots, ConsumeStep(s)
      PROVE  ClientInv'
  BY <1>4, ConsumeStepsKeep DEF ConsumeStep
<1>5. ASSUME NEW p \in Producers,
             \/ DeliverCreated(p) \/ DeliverClosed(p)
             \/ \E event \in {"created", "closed"} : LoseEvent(p, event)
             \/ RemoteProduces(p) \/ RemoteLeaves(p) \/ RemoteCloses(p)
      PROVE  ClientInv'
  BY <1>5, EventsKeep, ServerKeeps
<1>6. CASE Poll \/ TakePoll
  BY <1>6, PollsKeep
<1>7. CASE EndSession \/ LoseTransport \/ ConnectTransport
  BY <1>7, ServerKeeps, ConnectionsKeep
<1>. QED
  BY <1>1, <1>2, <1>3, <1>4, <1>5, <1>6, <1>7 DEF ClientNext

LEMMA AlwaysClientInv == ClientSpec => []ClientInv
BY InitClientInv, NextClientInv, PTL DEF ClientSpec

-----------------------------------------------------------------------------
(* The variables of the client hold what one of its starts made, and what  *)
(* they hold is not closed.                                                *)
THEOREM ClientTypesHold == ClientSpec => []ClientTypeOK
<1>1. ClientInv => ClientTypeOK
  BY DEF ClientInv
<1>. QED
  BY <1>1, AlwaysClientInv, PTL

(* However starts, stops, failures and the loss of a worker cross: what is *)
(* shown as connected has a producer on open transports, and a microphone  *)
(* that feeds it unless negotiations overlapped.                           *)
THEOREM ConnectedAlwaysSends == ClientSpec => []ConnectedMeansSending
<1>1. ClientInv => ConnectedMeansSending
  BY DEF ClientInv, ClientTypeOK, MediaInv, AloneInv, ConnectedMeansSending
<1>. QED
  BY <1>1, AlwaysClientInv, PTL

(* When starts do not overlap, a client that is not started and whose last *)
(* negotiation has ended holds nothing open, or shows as connected what a  *)
(* negotiation went on to open that it was stopped in the middle of.       *)
THEOREM StoppedIsSilentOrShown == ClientSpec => []SilentOrShown
<1>1. ASSUME ClientInv, AtRest, ~overlapped, status # "connected"
      PROVE  Silent
  <2>1. transports = 0 /\ mic = 0
    BY <1>1 DEF AtRest, ClientInv, MediaInv
  <2>. QED
    BY <1>1, <2>1, Numbers DEF ClientInv, AloneInv, Silent
<1>2. ClientInv => SilentOrShown
  BY <1>1 DEF SilentOrShown
<1>. QED
  BY <1>2, AlwaysClientInv, PTL
=============================================================================
