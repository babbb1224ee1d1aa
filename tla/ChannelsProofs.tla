--------------------------- MODULE ChannelsProofs ---------------------------
(***************************************************************************)
(* Theorems about Channels for any members, roles, channels and overwrites *)
(* that requests may ask for: the row of a channel keeps its overwrites    *)
(* whole, they decide as documented, and events follow commits.            *)
(***************************************************************************)
EXTENDS Channels, TLAPS

Targets == Users \cup DOMAIN BitsOf

Stamped == [target : Targets, allow : SUBSET Bits, deny : SUBSET Bits, from : Nat]

ChannelSteps == {"current", "row", "overwrites", "enqueue", "commit", "audit", "publish"}

Steps == ChannelSteps \cup {"idle", "join", "leave", "member"}

Statuses == {"active", "muted", "removed"}

Jobs == [pc : Steps, op : {"create", "update", "delete", None}, channel : Channels \cup {None},
         user : Users \cup {None}, to : Statuses \cup {"text", "voice", None},
         rows : OverwriteSets \cup {None, {}}, gone : SUBSET Stamped, new : SUBSET Stamped,
         keys : SUBSET (Channels \X Users), id : Nat]

(* Rows of one request, no two of them for the same target.                *)
Composed(rows) ==
    /\ Normalized(rows)
    /\ \A r, s \in rows : r.from = s.from

(* What a request relies on, the last of n, between its statements.        *)
Sound(j, n) ==
    /\ j.pc # "idle" => j.id \in 1..n
    /\ j.pc \in ChannelSteps \cup {"join"} => j.channel \in Channels
    /\ j.pc \in {"current", "join", "leave", "member"} => j.user \in Users
    /\ j.pc \in {"leave", "member"} => j.to \in Statuses
    /\ j.pc \in {"current", "row"} =>
          /\ j.op \in {"update", "delete"}
          /\ j.op = "update" /\ j.rows # None => j.rows \in OverwriteSets /\ Normalized(j.rows)
    /\ j.pc \in ChannelSteps /\ j.op = "update" => j.to \in {"text", "voice", None}
    /\ j.pc \in {"row", "overwrites", "enqueue", "commit"} =>
          /\ j.op \in {"create", "update", "delete"}
          /\ j.op # "delete" => j.to \in {"text", "voice"}
    /\ j.pc \in {"current", "row", "overwrites"} => j.gone = {} /\ j.new = {}
    /\ j.pc = "overwrites" => j.rows \in OverwriteSets /\ Normalized(j.rows)
    /\ j.pc \in {"enqueue", "commit"} =>
          /\ Normalized(j.new)
          /\ \A r \in j.new : r.from = j.id

JobInv ==
    /\ job \in [Handlers -> Jobs]
    /\ \A h \in Handlers : Sound(job[h], requests)

TableInv ==
    /\ requests \in 0..MaxRequests
    /\ member \in [Users -> Statuses]
    /\ channel \in [Channels -> [status : {"unused", "active", "deleted"},
                                 type : {"text", "voice"}]]
    /\ overwrites \in [Channels -> SUBSET Stamped]
    /\ room \in [Channels -> SUBSET Users]
    /\ notified \subseteq Channels \X Users
    /\ lost \in BOOLEAN

RowInv ==
    \A c \in Channels :
        /\ Composed(overwrites[c])
        /\ \A row \in overwrites[c] : row.from \in 1..requests

(* Transactions hold the rows of different channels, so the overwrites one *)
(* has found are those it replaces when it commits.                        *)
LockInv ==
    /\ \A g, h \in Handlers :
          /\ job[g].pc \in InTransaction /\ job[h].pc \in InTransaction
          /\ job[g].channel = job[h].channel
          => g = h
    /\ \A h \in Handlers :
          job[h].pc \in {"enqueue", "commit"} =>
              \/ job[h].gone = {} /\ job[h].new = {}
              \/ job[h].gone = overwrites[job[h].channel]

(* Who is about to be told of a notification was not told before, and by   *)
(* one request only.                                                       *)
KeyInv ==
    /\ told \in [Channels \X Users -> {0, 1}]
    /\ \A cu \in Channels \X Users :
          /\ told[cu] = 1 => cu \in notified
          /\ \A h \in Handlers : cu \in job[h].keys => cu \in notified /\ told[cu] = 0
          /\ \A g, h \in Handlers : cu \in job[g].keys /\ cu \in job[h].keys => g = h

(* A change that has not been announced is about to be.                    *)
Announcing(c) ==
    \E h \in Handlers : job[h].pc \in {"audit", "publish"} /\ job[h].channel = c

VersionInv ==
    /\ version \in [Channels -> Nat]
    /\ announced \in [Channels -> Nat]
    /\ \A c \in Channels :
          /\ announced[c] <= version[c]
          /\ ~lost /\ announced[c] # version[c] => Announcing(c)

IInv ==
    /\ TableInv
    /\ JobInv
    /\ RowInv
    /\ LockInv
    /\ KeyInv
    /\ VersionInv

(* A step gives one handler a job: what it says of rows, locks and keys.   *)
Moves(h, next) ==
    /\ job' = [job EXCEPT ![h] = next]
    /\ requests' \in requests..MaxRequests
    /\ next \in Jobs
    /\ Sound(next, requests')
    /\ next.keys \subseteq job[h].keys
    /\ next.pc \in InTransaction =>
          \/ job[h].pc \in InTransaction /\ next.channel = job[h].channel
          \/ \A g \in Handlers : job[g].pc \in InTransaction => job[g].channel # next.channel
    /\ next.pc \in {"enqueue", "commit"} =>
          \/ next.gone = {} /\ next.new = {}
          \/ next.gone = overwrites[next.channel]

(* It leaves no change that it was to announce.                            *)
Remains(h, next) ==
    job[h].pc \in {"audit", "publish"} =>
        next.pc \in {"audit", "publish"} /\ next.channel = job[h].channel

-----------------------------------------------------------------------------
LEMMA JobTypes ==
  ASSUME IInv, NEW h \in Handlers
  PROVE  /\ job[h] \in Jobs
         /\ Sound(job[h], requests)
         /\ requests \in 0..MaxRequests /\ MaxRequests \in Nat
         /\ requests \in requests..MaxRequests
BY ConstantsAssumption DEF IInv, JobInv, TableInv

LEMMA IdleIsSound ==
  /\ Idle \in Jobs
  /\ Idle.pc = "idle" /\ Idle.keys = {} /\ Idle.gone = {} /\ Idle.new = {}
  /\ \A n \in Nat : Sound(Idle, n)
BY DEF Idle, Jobs, Steps, ChannelSteps, Sound

LEMMA EndMoves ==
  ASSUME IInv, NEW h \in Handlers, End(h), UNCHANGED requests
  PROVE  Moves(h, Idle)
<1>1. /\ requests \in Nat /\ requests' \in requests..MaxRequests
      /\ Idle.pc \notin InTransaction \cup {"enqueue", "commit"}
  BY JobTypes, IdleIsSound DEF InTransaction
<1>. QED
  BY <1>1, IdleIsSound DEF End, Moves

(* More requests do not make a job unsound.                                *)
LEMMA SoundLater ==
  ASSUME NEW j \in Jobs, NEW m \in Nat, NEW n \in m..MaxRequests, Sound(j, m)
  PROVE  Sound(j, n)
<1>1. j.id \in 1..m => j.id \in 1..n
  BY ConstantsAssumption
<1>. QED
  BY <1>1 DEF Sound

(* What the jobs, the rows and the locks keep when one job moves.          *)
LEMMA MoveKeepsJobs ==
  ASSUME IInv, NEW h \in Handlers, NEW next \in Jobs, Moves(h, next), UNCHANGED overwrites
  PROVE  JobInv' /\ RowInv' /\ LockInv'
<1>1. /\ job \in [Handlers -> Jobs]
      /\ job' \in [Handlers -> Jobs]
      /\ job'[h] = next
      /\ \A g \in Handlers \ {h} : job'[g] = job[g]
  BY DEF IInv, JobInv, Moves
<1>2. requests \in Nat /\ requests' \in requests..MaxRequests
  BY JobTypes DEF Moves
<1>3. JobInv'
  <2>1. ASSUME NEW g \in Handlers PROVE Sound(job'[g], requests')
    <3>1. CASE g = h
      BY <3>1, <1>1 DEF Moves
    <3>2. CASE g # h
      <4>1. job[g] \in Jobs /\ Sound(job[g], requests)
        BY JobTypes
      <4>2. Sound(job[g], requests')
        BY <4>1, <1>2, SoundLater
      <4>. QED
        BY <3>2, <1>1, <4>2
    <3>. QED
      BY <3>1, <3>2
  <2>. QED
    BY <1>1, <2>1 DEF JobInv
<1>4. RowInv'
  <2>1. 1..requests \subseteq 1..requests'
    BY <1>2, ConstantsAssumption
  <2>. QED
    BY <2>1 DEF IInv, RowInv
<1>5. LockInv'
  <2>1. ASSUME NEW f \in Handlers, NEW g \in Handlers,
               job'[f].pc \in InTransaction, job'[g].pc \in InTransaction,
               job'[f].channel = job'[g].channel
        PROVE  f = g
    BY <2>1, <1>1 DEF IInv, LockInv, Moves
  <2>2. ASSUME NEW g \in Handlers, job'[g].pc \in {"enqueue", "commit"}
        PROVE  \/ job'[g].gone = {} /\ job'[g].new = {}
               \/ job'[g].gone = overwrites'[job'[g].channel]
    BY <2>2, <1>1 DEF IInv, LockInv, Moves
  <2>. QED
    BY <2>1, <2>2 DEF LockInv
<1>. QED
  BY <1>3, <1>4, <1>5

LEMMA MoveKeepsKeys ==
  ASSUME IInv, NEW h \in Handlers, NEW next \in Jobs, Moves(h, next), UNCHANGED <<notified, told>>
  PROVE  KeyInv'
<1>1. /\ job'[h] = next /\ next.keys \subseteq job[h].keys
      /\ \A g \in Handlers \ {h} : job'[g] = job[g]
  BY DEF IInv, JobInv, Moves
<1>2. \A g \in Handlers : job'[g].keys \subseteq job[g].keys
  BY <1>1
<1>. QED
  BY <1>2 DEF IInv, KeyInv

LEMMA MoveKeepsVersions ==
  ASSUME IInv, NEW h \in Handlers, NEW next \in Jobs, Moves(h, next),
         UNCHANGED <<version, announced>>,
         lost' \in {lost, TRUE},
         lost' \/ Remains(h, next)
  PROVE  VersionInv'
<1>1. /\ job'[h] = next
      /\ \A g \in Handlers \ {h} : job'[g] = job[g]
  BY DEF IInv, JobInv, Moves
<1>2. ASSUME NEW c \in Channels, ~lost', Announcing(c)
      PROVE  Announcing(c)'
  <2>1. PICK g \in Handlers : job[g].pc \in {"audit", "publish"} /\ job[g].channel = c
    BY <1>2 DEF Announcing
  <2>2. job'[g].pc \in {"audit", "publish"} /\ job'[g].channel = c
    BY <2>1, <1>1, <1>2 DEF Remains
  <2>. QED
    BY <2>2 DEF Announcing
<1>3. lost \in BOOLEAN
  BY DEF IInv, TableInv
<1>4. ~lost' => ~lost
  BY <1>3
<1>. QED
  BY <1>2, <1>4 DEF IInv, VersionInv

(* A step that moves one job, and whom it lets into a room or makes a      *)
(* member of the server.                                                   *)
LEMMA MoveKeeps ==
  ASSUME IInv, NEW h \in Handlers, NEW next \in Jobs, Moves(h, next),
         UNCHANGED <<channel, overwrites, notified, version, announced, told>>,
         room' \in [Channels -> SUBSET Users],
         member' \in [Users -> Statuses],
         lost' \in {lost, TRUE},
         lost' \/ Remains(h, next)
  PROVE  IInv'
<1>1. requests' \in 0..MaxRequests
  BY JobTypes DEF Moves
<1>2. TableInv'
  BY <1>1 DEF IInv, TableInv
<1>. QED
  BY <1>2, MoveKeepsJobs, MoveKeepsKeys, MoveKeepsVersions DEF IInv

-----------------------------------------------------------------------------
(* Requests begin                                                          *)

LEMMA BeginKeeps ==
  ASSUME IInv, NEW h \in Handlers, Ready(h), NEW start \in Jobs, Begin(h, start),
         start.keys = {}, start.pc \notin {"enqueue", "commit"},
         NEW given, given = [start EXCEPT !.id = requests + 1],
         Sound(given, requests + 1),
         start.pc \in InTransaction =>
             \A g \in Handlers : job[g].pc \in InTransaction => job[g].channel # start.channel
  PROVE  IInv'
<1>1. /\ requests + 1 \in requests..MaxRequests /\ requests + 1 \in Nat
  BY JobTypes DEF Ready
<1>2. /\ given \in Jobs
      /\ given.pc = start.pc /\ given.channel = start.channel /\ given.keys = {}
  BY <1>1 DEF Jobs
<1>3. requests' = requests + 1 /\ job' = [job EXCEPT ![h] = given]
  BY DEF Begin
<1>4. Moves(h, given)
  BY <1>1, <1>2, <1>3 DEF Moves
<1>5. Remains(h, given)
  BY DEF Ready, Remains
<1>6. /\ UNCHANGED <<channel, overwrites, notified, version, announced, told, lost, room, member>>
      /\ room \in [Channels -> SUBSET Users] /\ member \in [Users -> Statuses]
  BY DEF Begin, tables, ghosts, IInv, TableInv
<1>. QED
  BY <1>2, <1>4, <1>5, <1>6, MoveKeeps

LEMMA CreateKeeps ==
  ASSUME IInv, NEW h \in Handlers, NEW u \in Users, NEW c \in Channels, StartCreate(h, u, c)
  PROVE  IInv'
<1>1. PICK type \in Types, rows \in OverwriteSets :
         /\ Normalized(rows)
         /\ Begin(h, [Idle EXCEPT !.pc = "overwrites", !.op = "create", !.user = u, !.channel = c,
                                  !.to = type, !.rows = rows])
  BY DEF StartCreate
<1>. DEFINE start == [Idle EXCEPT !.pc = "overwrites", !.op = "create", !.user = u, !.channel = c,
                                  !.to = type, !.rows = rows]
            given == [start EXCEPT !.id = requests + 1]
<1>2. /\ start \in Jobs /\ start.keys = {} /\ start.pc = "overwrites" /\ start.channel = c
  BY ConstantsAssumption DEF Idle, Jobs, Steps, ChannelSteps
<1>3. /\ given.pc = "overwrites" /\ given.op = "create" /\ given.channel = c
      /\ given.to = type /\ given.rows = rows /\ given.gone = {} /\ given.new = {}
      /\ given.id = requests + 1
  BY DEF Idle
<1>4. Ready(h) /\ \A g \in Handlers : job[g].channel # c
  BY DEF StartCreate
<1>5. Begin(h, start) /\ given = [start EXCEPT !.id = requests + 1]
  BY <1>1
<1>. HIDE DEF start, given
<1>6. requests + 1 \in 1..(requests + 1)
  BY JobTypes
<1>7. Sound(given, requests + 1)
  BY <1>1, <1>3, <1>6, ConstantsAssumption DEF Sound
<1>. QED
  BY <1>2, <1>4, <1>5, <1>7, BeginKeeps

LEMMA UpdateKeeps ==
  ASSUME IInv, NEW h \in Handlers, NEW u \in Users, NEW c \in Channels, StartUpdate(h, u, c)
  PROVE  IInv'
<1>1. PICK type \in Types \cup {None}, rows \in OverwriteSets \cup {None} :
         /\ rows # None => Normalized(rows)
         /\ Begin(h, [Idle EXCEPT !.pc = "current", !.op = "update", !.user = u, !.channel = c,
                                  !.to = type, !.rows = rows])
  BY DEF StartUpdate
<1>. DEFINE start == [Idle EXCEPT !.pc = "current", !.op = "update", !.user = u, !.channel = c,
                                  !.to = type, !.rows = rows]
            given == [start EXCEPT !.id = requests + 1]
<1>2. /\ start \in Jobs /\ start.keys = {} /\ start.pc = "current" /\ start.channel = c
  BY ConstantsAssumption DEF Idle, Jobs, Steps, ChannelSteps
<1>3. /\ given.pc = "current" /\ given.op = "update" /\ given.channel = c /\ given.user = u
      /\ given.to = type /\ given.rows = rows /\ given.gone = {} /\ given.new = {}
      /\ given.id = requests + 1
  BY DEF Idle
<1>4. Ready(h)
  BY DEF StartUpdate
<1>5. Begin(h, start) /\ given = [start EXCEPT !.id = requests + 1]
  BY <1>1
<1>. HIDE DEF start, given
<1>6. requests + 1 \in 1..(requests + 1)
  BY JobTypes
<1>7. Sound(given, requests + 1)
  BY <1>1, <1>3, <1>6, ConstantsAssumption DEF Sound
<1>8. start.pc \notin InTransaction
  BY <1>2 DEF InTransaction
<1>. QED
  BY <1>2, <1>4, <1>5, <1>7, <1>8, BeginKeeps

LEMMA DeleteKeeps ==
  ASSUME IInv, NEW h \in Handlers, NEW u \in Users, NEW c \in Channels, StartDelete(h, u, c)
  PROVE  IInv'
<1>. DEFINE start == [Idle EXCEPT !.pc = "current", !.op = "delete", !.user = u, !.channel = c]
            given == [start EXCEPT !.id = requests + 1]
<1>2. /\ start \in Jobs /\ start.keys = {} /\ start.pc = "current" /\ start.channel = c
  BY DEF Idle, Jobs, Steps, ChannelSteps
<1>3. /\ given.pc = "current" /\ given.op = "delete" /\ given.channel = c /\ given.user = u
      /\ given.gone = {} /\ given.new = {} /\ given.id = requests + 1
  BY DEF Idle
<1>4. Ready(h)
  BY DEF StartDelete
<1>5. Begin(h, start) /\ given = [start EXCEPT !.id = requests + 1]
  BY DEF StartDelete
<1>. HIDE DEF start, given
<1>6. requests + 1 \in 1..(requests + 1)
  BY JobTypes
<1>7. Sound(given, requests + 1)
  BY <1>3, <1>6 DEF Sound
<1>8. start.pc \notin InTransaction
  BY <1>2 DEF InTransaction
<1>. QED
  BY <1>2, <1>4, <1>5, <1>7, <1>8, BeginKeeps

LEMMA SubscribeKeeps ==
  ASSUME IInv, NEW h \in Handlers, NEW u \in Users, NEW c \in Channels, StartSubscribe(h, u, c)
  PROVE  IInv'
<1>. DEFINE start == [Idle EXCEPT !.pc = "join", !.user = u, !.channel = c]
            given == [start EXCEPT !.id = requests + 1]
<1>2. /\ start \in Jobs /\ start.keys = {} /\ start.pc = "join" /\ start.channel = c
  BY DEF Idle, Jobs, Steps, ChannelSteps
<1>3. /\ given.pc = "join" /\ given.channel = c /\ given.user = u /\ given.id = requests + 1
  BY DEF Idle
<1>4. Ready(h)
  BY DEF StartSubscribe
<1>5. Begin(h, start) /\ given = [start EXCEPT !.id = requests + 1]
  BY DEF StartSubscribe
<1>. HIDE DEF start, given
<1>6. requests + 1 \in 1..(requests + 1)
  BY JobTypes
<1>7. Sound(given, requests + 1)
  BY <1>3, <1>6 DEF Sound, ChannelSteps
<1>8. start.pc \notin InTransaction
  BY <1>2 DEF InTransaction
<1>. QED
  BY <1>2, <1>4, <1>5, <1>7, <1>8, BeginKeeps

LEMMA ManageMemberKeeps ==
  ASSUME IInv, NEW h \in Handlers, NEW u \in Users, NEW target \in Users,
         NEW status \in {"active", "muted", "removed"}, StartManageMember(h, u, target, status)
  PROVE  IInv'
<1>. DEFINE step == IF status = "removed" THEN "leave" ELSE "member"
            start == [Idle EXCEPT !.pc = step, !.user = target, !.to = status]
            given == [start EXCEPT !.id = requests + 1]
<1>1. step \in {"leave", "member"}
  OBVIOUS
<1>. HIDE DEF step
<1>2. /\ start \in Jobs /\ start.keys = {} /\ start.pc = step
  BY <1>1 DEF Idle, Jobs, Steps, ChannelSteps, Statuses
<1>3. /\ given.pc = step /\ given.to = status /\ given.user = target
      /\ given.id = requests + 1
  BY DEF Idle
<1>4. Ready(h)
  BY DEF StartManageMember
<1>5. Begin(h, start) /\ given = [start EXCEPT !.id = requests + 1]
  BY DEF StartManageMember, step
<1>. HIDE DEF start, given
<1>6. requests + 1 \in 1..(requests + 1)
  BY JobTypes
<1>7. Sound(given, requests + 1)
  BY <1>1, <1>3, <1>6 DEF Sound, ChannelSteps, Statuses
<1>8. start.pc \notin InTransaction
  BY <1>1, <1>2 DEF InTransaction
<1>. QED
  BY <1>1, <1>2, <1>4, <1>5, <1>7, <1>8, BeginKeeps

-----------------------------------------------------------------------------
(* Statements of a transaction                                             *)

(* Everything but the job of h and what it may remain to announce.         *)
LEMMA StepKeeps ==
  ASSUME IInv, NEW h \in Handlers, NEW next \in Jobs, Moves(h, next), Remains(h, next),
         UNCHANGED <<tables, room, ghosts>>
  PROVE  IInv'
<1>1. /\ UNCHANGED <<channel, overwrites, notified, version, announced, told, lost, room, member>>
      /\ room \in [Channels -> SUBSET Users] /\ member \in [Users -> Statuses]
  BY DEF tables, ghosts, IInv, TableInv
<1>. QED
  BY <1>1, MoveKeeps

LEMMA ReadCurrentKeeps ==
  ASSUME IInv, NEW h \in Handlers, ReadCurrent(h)
  PROVE  IInv'
<1>. DEFINE c == job[h].channel
            to == TypeOrCurrent(c, job[h].to)
            next == [job[h] EXCEPT !.pc = "row", !.to = to]
<1>0. /\ job[h].pc = "current" /\ UNCHANGED <<tables, room, ghosts, requests>>
      /\ job[h] \in Jobs /\ Sound(job[h], requests) /\ job \in [Handlers -> Jobs]
  BY JobTypes DEF ReadCurrent, IInv, JobInv
<1>1. CASE End(h)
  BY <1>0, <1>1, EndMoves, IdleIsSound, StepKeeps DEF Remains
<1>2. CASE job' = [job EXCEPT ![h].pc = "row", ![h].to = TypeOrCurrent(c, @)]
  <2>1. c \in Channels /\ channel[c].type \in {"text", "voice"}
    BY <1>0 DEF Sound, ChannelSteps, IInv, TableInv
  <2>2. to \in {channel[c].type, job[h].to}
        /\ (job[h].op = "update" => to \in {"text", "voice"})
    BY <1>0, <2>1 DEF TypeOrCurrent, Sound, ChannelSteps
  <2>3. job' = [job EXCEPT ![h] = next]
    BY <1>0, <1>2 DEF Jobs
  <2>. HIDE DEF to
  <2>4. /\ next \in Jobs /\ next.pc = "row" /\ next.to = to
        /\ next.op = job[h].op /\ next.channel = c /\ next.rows = job[h].rows
        /\ next.gone = job[h].gone /\ next.new = job[h].new /\ next.keys = job[h].keys
        /\ next.id = job[h].id
    BY <1>0, <2>1, <2>2 DEF Jobs, Steps, ChannelSteps
  <2>. HIDE DEF next, c
  <2>5. Sound(next, requests)
    BY <1>0, <2>1, <2>2, <2>4 DEF Sound, ChannelSteps
  <2>6. Moves(h, next) /\ Remains(h, next)
    BY <1>0, <2>3, <2>4, <2>5, JobTypes DEF Moves, Remains, InTransaction
  <2>. QED
    BY <1>0, <2>4, <2>6, StepKeeps
<1>. QED
  BY <1>1, <1>2 DEF ReadCurrent

(* The row is free: no other transaction is of this channel.               *)
LEMMA WriteRowKeeps ==
  ASSUME IInv, NEW h \in Handlers, WriteRow(h)
  PROVE  IInv'
<1>. DEFINE j == job[h]
            step == CASE job[h].op = "delete" -> "enqueue"
                      [] job[h].op = "update" /\ job[h].rows = None -> "commit"
                      [] OTHER -> "overwrites"
            next == [job[h] EXCEPT !.pc = step]
<1>0. /\ j.pc = "row" /\ UNCHANGED <<tables, room, ghosts, requests>>
      /\ j \in Jobs /\ Sound(j, requests) /\ job \in [Handlers -> Jobs]
      /\ \A g \in Handlers : job[g].pc \in InTransaction => job[g].channel # j.channel
  BY JobTypes DEF WriteRow, IInv, JobInv, RowLocked
<1>1. /\ step \in {"enqueue", "commit", "overwrites"}
      /\ step = "overwrites" => j.rows \in OverwriteSets /\ Normalized(j.rows)
  BY <1>0 DEF Sound
<1>2. job' = [job EXCEPT ![h] = next]
  BY <1>0 DEF WriteRow, Goto, Jobs
<1>. HIDE DEF step
<1>3. /\ next \in Jobs /\ next.pc = step /\ next.to = j.to /\ next.op = j.op
      /\ next.channel = j.channel /\ next.rows = j.rows /\ next.keys = j.keys
      /\ next.gone = {} /\ next.new = {} /\ next.id = j.id
  BY <1>0, <1>1 DEF Jobs, Steps, ChannelSteps, Sound
<1>. HIDE DEF next
<1>4. Sound(next, requests)
  BY <1>0, <1>1, <1>3 DEF Sound, ChannelSteps, Normalized
<1>5. Moves(h, next)
  BY <1>0, <1>2, <1>3, <1>4, JobTypes DEF Moves
<1>6. Remains(h, next)
  BY <1>0 DEF Remains
<1>. QED
  BY <1>0, <1>3, <1>5, <1>6, StepKeeps

(* The rows of one request, each for another target.                       *)
LEMMA StampedRows ==
  ASSUME NEW rows \in OverwriteSets, NEW id \in Nat, Normalized(rows),
         \A r \in rows : ValidTarget(r.target)
  PROVE  /\ Stamp(rows, id) \in SUBSET Stamped
         /\ Normalized(Stamp(rows, id))
         /\ \A r \in Stamp(rows, id) : r.from = id
<1>1. \A r \in rows : r.target \in Targets /\ r.allow \in SUBSET Bits /\ r.deny \in SUBSET Bits
  BY ConstantsAssumption DEF ValidTarget, RoleInServer, ActiveMember, Targets
<1>2. ASSUME NEW s \in Stamp(rows, id)
      PROVE  \E r \in rows :
                s = [target |-> r.target, allow |-> r.allow, deny |-> r.deny, from |-> id]
  BY DEF Stamp
<1>3. Stamp(rows, id) \in SUBSET Stamped /\ \A r \in Stamp(rows, id) : r.from = id
  BY <1>1, <1>2 DEF Stamped
<1>4. ASSUME NEW a \in Stamp(rows, id), NEW b \in Stamp(rows, id), a.target = b.target
      PROVE  a = b
  <2>1. PICK r \in rows :
           a = [target |-> r.target, allow |-> r.allow, deny |-> r.deny, from |-> id]
    BY <1>2
  <2>2. PICK s \in rows :
           b = [target |-> s.target, allow |-> s.allow, deny |-> s.deny, from |-> id]
    BY <1>2
  <2>3. r = s
    BY <1>4, <2>1, <2>2 DEF Normalized
  <2>. QED
    BY <2>1, <2>2, <2>3
<1>. QED
  BY <1>3, <1>4 DEF Normalized

LEMMA ReplaceOverwritesKeeps ==
  ASSUME IInv, NEW h \in Handlers, ReplaceOverwrites(h)
  PROVE  IInv'
<1>. DEFINE j == job[h]
            step == IF j.op = "create" /\ j.rows = {} THEN "commit" ELSE "enqueue"
            gone == overwrites[j.channel]
            new == Stamp(j.rows, j.id)
            next == [job[h] EXCEPT !.gone = gone, !.new = new, !.pc = step]
<1>0. /\ j.pc = "overwrites" /\ UNCHANGED <<tables, room, ghosts, requests>>
      /\ j \in Jobs /\ Sound(j, requests) /\ job \in [Handlers -> Jobs]
  BY JobTypes DEF ReplaceOverwrites, IInv, JobInv
<1>1. CASE End(h)
  BY <1>0, <1>1, EndMoves, IdleIsSound, StepKeeps DEF Remains
<1>2. CASE /\ \A r \in j.rows : ValidTarget(r.target)
           /\ job' = [job EXCEPT ![h].gone = gone, ![h].new = new, ![h].pc = step]
  <2>1. /\ j.rows \in OverwriteSets /\ Normalized(j.rows) /\ j.id \in Nat
        /\ j.channel \in Channels
    BY <1>0 DEF Sound, ChannelSteps, Jobs
  <2>2. /\ new \in SUBSET Stamped /\ Normalized(new) /\ \A r \in new : r.from = j.id
    BY <1>2, <2>1, StampedRows
  <2>3. gone \in SUBSET Stamped /\ step \in {"commit", "enqueue"}
    BY <2>1 DEF IInv, TableInv
  <2>4. job' = [job EXCEPT ![h] = next]
    BY <1>0, <1>2 DEF Jobs
  <2>. HIDE DEF step, new
  <2>5. /\ next \in Jobs /\ next.pc = step /\ next.to = j.to /\ next.op = j.op
        /\ next.channel = j.channel /\ next.rows = j.rows /\ next.keys = j.keys
        /\ next.gone = gone /\ next.new = new /\ next.id = j.id
    BY <1>0, <2>2, <2>3 DEF Jobs, Steps, ChannelSteps
  <2>. HIDE DEF next
  <2>6. Sound(next, requests)
    BY <1>0, <2>2, <2>3, <2>5 DEF Sound, ChannelSteps
  <2>7. j.pc \in InTransaction
    BY <1>0 DEF InTransaction
  <2>8. Moves(h, next)
    BY <1>0, <2>4, <2>5, <2>6, <2>7, JobTypes DEF Moves
  <2>9. Remains(h, next)
    BY <1>0 DEF Remains
  <2>. QED
    BY <1>0, <2>5, <2>8, <2>9, StepKeeps
<1>. QED
  BY <1>1, <1>2 DEF ReplaceOverwrites

LEMMA RollbackKeeps ==
  ASSUME IInv, NEW h \in Handlers, Rollback(h)
  PROVE  IInv'
<1>1. End(h) /\ UNCHANGED <<tables, room, ghosts, requests>> /\ job[h].pc \in InTransaction
  BY DEF Rollback
<1>2. Remains(h, Idle)
  BY <1>1 DEF Remains, InTransaction
<1>. QED
  BY <1>1, <1>2, EndMoves, IdleIsSound, StepKeeps

-----------------------------------------------------------------------------
(* Whoever gets a notification has not had one of this channel.            *)
LEMMA EnqueueKeeps ==
  ASSUME IInv, NEW h \in Handlers, EnqueuePermissionChanged(h)
  PROVE  IInv'
<1>. DEFINE j == job[h]
            keys == {j.channel} \X ServerUsers
            created == CreatedKeys(keys)
            next == [job[h] EXCEPT !.pc = "commit", !.keys = created]
<1>0. /\ j.pc = "enqueue" /\ UNCHANGED <<member, channel, overwrites, requests, ghosts>>
      /\ j \in Jobs /\ Sound(j, requests) /\ job \in [Handlers -> Jobs]
      /\ j.channel \in Channels
  BY JobTypes DEF EnqueuePermissionChanged, IInv, JobInv, Sound, ChannelSteps
<1>1. /\ keys \subseteq Channels \X Users
      /\ created \subseteq keys /\ \A cu \in created : cu \notin notified
  BY <1>0 DEF ServerUsers, CreatedKeys
<1>2. job' = [job EXCEPT ![h] = next] /\ notified' = notified \cup keys
  BY <1>0 DEF EnqueuePermissionChanged, Jobs
<1>3. room' \in [Channels -> SUBSET Users]
  BY DEF EnqueuePermissionChanged, IInv, TableInv
<1>. HIDE DEF created
<1>4. /\ next \in Jobs /\ next.pc = "commit" /\ next.to = j.to /\ next.op = j.op
      /\ next.channel = j.channel /\ next.rows = j.rows /\ next.keys = created
      /\ next.gone = j.gone /\ next.new = j.new /\ next.id = j.id
  BY <1>0, <1>1 DEF Jobs, Steps, ChannelSteps
<1>. DEFINE quiet == [job[h] EXCEPT !.pc = "commit"]
<1>. HIDE DEF next
<1>5. /\ job' \in [Handlers -> Jobs] /\ job'[h] = next
      /\ \A g \in Handlers \ {h} : job'[g] = job[g]
  BY <1>0, <1>2, <1>4
<1>6. Sound(next, requests)
  BY <1>0, <1>4 DEF Sound, ChannelSteps
<1>7. TableInv'
  BY <1>0, <1>1, <1>2, <1>3 DEF IInv, TableInv, ghosts
<1>8. JobInv'
  BY <1>0, <1>5, <1>6 DEF IInv, JobInv
<1>9. RowInv'
  BY <1>0 DEF IInv, RowInv
<1>10. LockInv'
  <2>1. \A g \in Handlers : /\ job'[g].channel = job[g].channel
                            /\ job'[g].pc \in InTransaction <=> job[g].pc \in InTransaction
                            /\ job'[g].pc \in {"enqueue", "commit"} => job[g].pc \in {"enqueue", "commit"}
                            /\ job'[g].gone = job[g].gone /\ job'[g].new = job[g].new
    BY <1>0, <1>4, <1>5 DEF InTransaction
  <2>. QED
    BY <1>0, <2>1 DEF IInv, LockInv
<1>11. KeyInv'
  <2>1. UNCHANGED told /\ notified \subseteq notified' /\ keys \subseteq notified'
    BY <1>0, <1>2 DEF ghosts
  <2>2. ASSUME NEW cu \in created
        PROVE  /\ told[cu] = 0 /\ cu \in notified' /\ \A g \in Handlers : cu \notin job[g].keys
    BY <1>1, <2>1 DEF IInv, KeyInv
  <2>. HIDE DEF keys
  <2>. QED
    BY <1>4, <1>5, <2>1, <2>2 DEF IInv, KeyInv
<1>12. VersionInv'
  <2>1. \A c \in Channels : Announcing(c) => Announcing(c)'
    BY <1>0, <1>5 DEF Announcing
  <2>. QED
    BY <1>0, <2>1 DEF IInv, VersionInv, ghosts
<1>. QED
  BY <1>7, <1>8, <1>9, <1>10, <1>11, <1>12 DEF IInv

(* The rows deleted are all there are, or none is deleted and none added:  *)
(* nobody else has written since this transaction took the channel's row.  *)
LEMMA CommitKeeps ==
  ASSUME IInv, NEW h \in Handlers, Commit(h)
  PROVE  IInv'
<1>. DEFINE j == job[h]
            c == job[h].channel
            next == [job[h] EXCEPT !.pc = "audit"]
            rows == (overwrites[c] \ j.gone) \cup j.new
<1>0. /\ j.pc = "commit" /\ UNCHANGED <<member, notified, room, requests, announced, told, lost>>
      /\ j \in Jobs /\ Sound(j, requests) /\ job \in [Handlers -> Jobs]
      /\ c \in Channels
  BY JobTypes DEF Commit, IInv, JobInv, Sound, ChannelSteps
<1>1. /\ job' = [job EXCEPT ![h] = next]
      /\ channel' = [channel EXCEPT ![c] = Written(j)]
      /\ overwrites' = [overwrites EXCEPT ![c] = rows]
      /\ version' = [version EXCEPT ![c] = version[c] + 1]
  BY <1>0 DEF Commit, Goto, Jobs, IInv, TableInv, VersionInv
<1>2. /\ next \in Jobs /\ next.pc = "audit" /\ next.op = j.op /\ next.to = j.to
      /\ next.channel = c /\ next.keys = j.keys /\ next.id = j.id
  BY <1>0 DEF Jobs, Steps, ChannelSteps
<1>3. Sound(next, requests)
  <2>1. j.op = "update" => j.to \in {"text", "voice", None}
    BY <1>0 DEF Sound, ChannelSteps
  <2>. QED
    BY <1>0, <1>2, <2>1 DEF Sound, ChannelSteps
<1>. HIDE DEF next
<1>4. /\ job' \in [Handlers -> Jobs] /\ job'[h] = next
      /\ \A g \in Handlers \ {h} : job'[g] = job[g]
  BY <1>0, <1>1, <1>2
<1>5. Written(j) \in [status : {"unused", "active", "deleted"}, type : {"text", "voice"}]
  <2>1. /\ channel[c] \in [status : {"unused", "active", "deleted"}, type : {"text", "voice"}]
        /\ j.op \in {"create", "update", "delete"}
        /\ j.op # "delete" => j.to \in {"text", "voice"}
    BY <1>0 DEF IInv, TableInv, Sound
  <2>2. CASE j.op = "delete"
    BY <2>1, <2>2 DEF Written
  <2>3. CASE j.op = "update"
    BY <2>1, <2>3 DEF Written
  <2>4. CASE j.op = "create"
    BY <2>1, <2>4 DEF Written
  <2>. QED
    BY <2>1, <2>2, <2>3, <2>4
<1>6. rows = overwrites[c] \/ rows = j.new
  BY <1>0 DEF IInv, LockInv
<1>7. rows \in SUBSET Stamped /\ Composed(rows) /\ \A row \in rows : row.from \in 1..requests
  <2>1. CASE rows = overwrites[c]
    BY <2>1, <1>0 DEF IInv, TableInv, RowInv
  <2>2. CASE rows = j.new
    <3>1. j.new \in SUBSET Stamped /\ Normalized(j.new) /\ \A r \in j.new : r.from = j.id
      BY <1>0 DEF Sound, Jobs
    <3>2. j.id \in 1..requests
      BY <1>0 DEF Sound
    <3>. HIDE DEF rows, j
    <3>. QED
      BY <2>2, <3>1, <3>2 DEF Composed
  <2>. QED
    BY <1>6, <2>1, <2>2
<1>. HIDE DEF rows
<1>8. TableInv'
  BY <1>0, <1>1, <1>5, <1>7 DEF IInv, TableInv
<1>9. JobInv'
  BY <1>0, <1>3, <1>4 DEF IInv, JobInv
<1>10. RowInv'
  BY <1>0, <1>1, <1>7 DEF IInv, RowInv, TableInv
<1>11. LockInv'
  <2>1. ASSUME NEW g \in Handlers, job'[g].pc \in InTransaction
        PROVE  g # h /\ job[g].pc \in InTransaction /\ job[g].channel # c
    BY <2>1, <1>0, <1>2, <1>4 DEF IInv, LockInv, InTransaction
  <2>2. ASSUME NEW g \in Handlers, job'[g].pc \in {"enqueue", "commit"}
        PROVE  /\ job'[g] = job[g] /\ job[g].channel # c /\ job[g].channel \in Channels
               /\ job[g].pc \in {"enqueue", "commit"}
    <3>1. g # h /\ job[g].channel # c
      BY <2>1, <2>2 DEF InTransaction
    <3>2. job'[g] = job[g]
      BY <3>1, <1>4
    <3>3. Sound(job[g], requests)
      BY JobTypes
    <3>. QED
      BY <3>1, <3>2, <3>3, <2>2 DEF Sound, ChannelSteps
  <2>3. ASSUME NEW g \in Handlers, job'[g].pc \in {"enqueue", "commit"}
        PROVE  \/ job'[g].gone = {} /\ job'[g].new = {}
               \/ job'[g].gone = overwrites'[job'[g].channel]
    <3>1. overwrites'[job[g].channel] = overwrites[job[g].channel]
      BY <2>2, <2>3, <1>1 DEF IInv, TableInv
    <3>. QED
      BY <2>2, <2>3, <3>1 DEF IInv, LockInv
  <2>4. ASSUME NEW f \in Handlers, NEW g \in Handlers,
               job'[f].pc \in InTransaction, job'[g].pc \in InTransaction,
               job'[f].channel = job'[g].channel
        PROVE  f = g
    BY <2>1, <2>4, <1>4 DEF IInv, LockInv
  <2>. QED
    BY <2>3, <2>4 DEF LockInv
<1>12. KeyInv'
  <2>1. \A g \in Handlers : job'[g].keys = job[g].keys
    BY <1>2, <1>4
  <2>. QED
    BY <1>0, <2>1 DEF IInv, KeyInv
<1>13. VersionInv'
  <2>1. /\ version \in [Channels -> Nat] /\ announced \in [Channels -> Nat]
        /\ \A d \in Channels : announced[d] <= version[d]
        /\ \A d \in Channels : ~lost /\ announced[d] # version[d] => Announcing(d)
    BY DEF IInv, VersionInv
  <2>2. \E g \in Handlers : job'[g].pc \in {"audit", "publish"} /\ job'[g].channel = c
    BY <1>2, <1>4
  <2>3. \A d \in Channels : Announcing(d) => Announcing(d)'
    BY <1>0, <1>4 DEF Announcing
  <2>4. c \in Channels /\ UNCHANGED <<announced, lost>>
        /\ version' = [version EXCEPT ![c] = version[c] + 1]
    BY <1>0, <1>1
  <2>. HIDE DEF c
  <2>5. /\ version' \in [Channels -> Nat]
        /\ version'[c] = version[c] + 1
        /\ \A d \in Channels \ {c} : version'[d] = version[d]
    BY <2>1, <2>4
  <2>6. \A d \in Channels : announced'[d] <= version'[d]
    BY <2>1, <2>4, <2>5
  <2>7. ASSUME NEW d \in Channels, ~lost', announced'[d] # version'[d]
        PROVE  Announcing(d)'
    <3>1. CASE d = c
      BY <3>1, <2>2 DEF Announcing
    <3>2. CASE d # c
      BY <3>2, <2>1, <2>3, <2>4, <2>5, <2>7
    <3>. QED
      BY <3>1, <3>2
  <2>. QED
    BY <2>1, <2>4, <2>5, <2>6, <2>7 DEF VersionInv
<1>. QED
  BY <1>8, <1>9, <1>10, <1>11, <1>12, <1>13 DEF IInv

-----------------------------------------------------------------------------
(* After the commit                                                        *)

LEMMA FlushAuditsKeeps ==
  ASSUME IInv, NEW h \in Handlers, FlushAudits(h)
  PROVE  IInv'
<1>0. /\ job[h].pc = "audit"
      /\ UNCHANGED <<channel, overwrites, notified, version, announced, told, requests>>
      /\ room' \in [Channels -> SUBSET Users] /\ member' \in [Users -> Statuses]
      /\ job[h] \in Jobs /\ Sound(job[h], requests) /\ job \in [Handlers -> Jobs]
  BY JobTypes DEF FlushAudits, tables, IInv, TableInv, JobInv
<1>1. CASE Goto(h, "publish") /\ UNCHANGED lost
  <2>. DEFINE next == [job[h] EXCEPT !.pc = "publish"]
  <2>1. /\ next \in Jobs /\ next.pc = "publish" /\ next.channel = job[h].channel
        /\ next.keys = job[h].keys /\ next.id = job[h].id /\ next.op = job[h].op
        /\ next.to = job[h].to
    BY <1>0 DEF Jobs, Steps, ChannelSteps
  <2>2. job' = [job EXCEPT ![h] = next]
    BY <1>0, <1>1 DEF Goto, Jobs
  <2>. HIDE DEF next
  <2>3. Sound(next, requests)
    BY <1>0, <2>1 DEF Sound, ChannelSteps
  <2>4. Moves(h, next) /\ Remains(h, next)
    BY <1>0, <2>1, <2>2, <2>3, JobTypes DEF Moves, Remains, InTransaction
  <2>. QED
    BY <1>0, <1>1, <2>1, <2>4, MoveKeeps
<1>2. CASE End(h) /\ lost' = TRUE
  BY <1>0, <1>2, EndMoves, IdleIsSound, MoveKeeps
<1>. QED
  BY <1>1, <1>2 DEF FlushAudits

(* The events of a channel say its last version, whoever else is about to  *)
(* publish; those of notifications go to who was not told before.          *)
LEMMA PublishKeeps ==
  ASSUME IInv, NEW h \in Handlers, PublishEvents(h)
  PROVE  IInv'
<1>. DEFINE c == job[h].channel
            keys == job[h].keys
<1>0. /\ job[h].pc = "publish" /\ End(h) /\ UNCHANGED <<tables, room, requests, version, lost>>
      /\ announced' = [announced EXCEPT ![c] = version[c]]
      /\ told' = [cu \in DOMAIN told |-> told[cu] + IF cu \in keys THEN 1 ELSE 0]
      /\ c \in Channels
  BY JobTypes DEF PublishEvents, Sound, ChannelSteps
<1>1. Moves(h, Idle)
  BY <1>0, EndMoves
<1>2. /\ job'[h] = Idle /\ Idle.keys = {} /\ Idle.pc = "idle"
      /\ \A g \in Handlers \ {h} : job'[g] = job[g]
  BY <1>0, IdleIsSound DEF End, IInv, JobInv
<1>3. JobInv' /\ RowInv' /\ LockInv'
  BY <1>0, <1>1, IdleIsSound, MoveKeepsJobs DEF tables
<1>4. TableInv'
  BY <1>0 DEF IInv, TableInv, tables
<1>5. KeyInv'
  <2>1. /\ told \in [Channels \X Users -> {0, 1}] /\ UNCHANGED notified
        /\ \A cu \in Channels \X Users : cu \in keys => cu \in notified /\ told[cu] = 0
    BY <1>0 DEF IInv, KeyInv, tables
  <2>2. told' = [cu \in Channels \X Users |-> told[cu] + IF cu \in keys THEN 1 ELSE 0]
    BY <1>0, <2>1
  <2>3. ASSUME NEW cu \in Channels \X Users
        PROVE  \/ cu \notin keys /\ told'[cu] = told[cu]
               \/ cu \in keys /\ told'[cu] = 1
    BY <2>1, <2>2
  <2>4. told' \in [Channels \X Users -> {0, 1}]
    BY <2>1, <2>2, <2>3
  <2>5. ASSUME NEW cu \in Channels \X Users, NEW g \in Handlers, cu \in job'[g].keys
        PROVE  g # h /\ cu \in job[g].keys /\ cu \notin keys
    <3>1. g # h /\ cu \in job[g].keys
      BY <2>5, <1>2
    <3>. QED
      BY <3>1 DEF IInv, KeyInv
  <2>. HIDE DEF keys
  <2>6. ASSUME NEW cu \in Channels \X Users
        PROVE  /\ told'[cu] = 1 => cu \in notified'
               /\ \A g \in Handlers : cu \in job'[g].keys => cu \in notified' /\ told'[cu] = 0
               /\ \A f, g \in Handlers : cu \in job'[f].keys /\ cu \in job'[g].keys => f = g
    BY <2>1, <2>3, <2>5 DEF IInv, KeyInv
  <2>. QED
    BY <2>4, <2>6 DEF KeyInv
<1>6. VersionInv'
  <2>1. /\ version \in [Channels -> Nat] /\ announced \in [Channels -> Nat]
        /\ \A d \in Channels : announced[d] <= version[d]
    BY DEF IInv, VersionInv
  <2>2. /\ announced' \in [Channels -> Nat] /\ announced'[c] = version[c]
        /\ \A d \in Channels \ {c} : announced'[d] = announced[d]
    BY <2>1, <1>0
  <2>3. \A d \in Channels \ {c} : Announcing(d) => Announcing(d)'
    BY <1>2 DEF Announcing
  <2>. QED
    BY <1>0, <2>1, <2>2, <2>3 DEF IInv, VersionInv
<1>. QED
  BY <1>3, <1>4, <1>5, <1>6 DEF IInv

-----------------------------------------------------------------------------
(* Rooms and members                                                       *)

LEMMA RoomsKeep ==
  ASSUME IInv, NEW h \in Handlers, JoinRoom(h) \/ LeaveServerRooms(h) \/ CommitMember(h)
  PROVE  IInv'
<1>0. /\ job[h] \in Jobs /\ Sound(job[h], requests) /\ job \in [Handlers -> Jobs]
      /\ room \in [Channels -> SUBSET Users] /\ member \in [Users -> Statuses]
  BY JobTypes DEF IInv, JobInv, TableInv
<1>1. CASE JoinRoom(h)
  <2>1. job[h].user \in Users /\ job[h].pc = "join"
    BY <1>0, <1>1 DEF JoinRoom, Sound
  <2>2. room' \in [Channels -> SUBSET Users]
    BY <1>0, <1>1, <2>1 DEF JoinRoom
  <2>3. End(h) /\ UNCHANGED <<tables, requests, ghosts>> /\ Remains(h, Idle)
    BY <1>1, <2>1 DEF JoinRoom, Remains
  <2>. QED
    BY <1>0, <2>2, <2>3, EndMoves, IdleIsSound, MoveKeeps DEF tables, ghosts
<1>2. CASE LeaveServerRooms(h)
  <2>. DEFINE next == [job[h] EXCEPT !.pc = "member"]
  <2>1. /\ next \in Jobs /\ next.pc = "member" /\ next.user = job[h].user
        /\ next.to = job[h].to /\ next.keys = job[h].keys /\ next.id = job[h].id
    BY <1>0 DEF Jobs, Steps
  <2>2. job' = [job EXCEPT ![h] = next]
    BY <1>0, <1>2 DEF LeaveServerRooms, Goto, Jobs
  <2>. HIDE DEF next
  <2>3. job[h].pc = "leave" /\ UNCHANGED <<tables, requests, ghosts>>
    BY <1>2 DEF LeaveServerRooms
  <2>4. Sound(next, requests)
    BY <1>0, <2>1, <2>3 DEF Sound, ChannelSteps
  <2>5. Moves(h, next) /\ Remains(h, next)
    BY <1>0, <2>1, <2>2, <2>3, <2>4, JobTypes DEF Moves, Remains, InTransaction
  <2>6. room' \in [Channels -> SUBSET Users]
    BY <1>0, <1>2 DEF LeaveServerRooms
  <2>. QED
    BY <1>0, <2>1, <2>3, <2>5, <2>6, MoveKeeps DEF tables, ghosts
<1>3. CASE CommitMember(h)
  <2>1. job[h].user \in Users /\ job[h].to \in Statuses /\ job[h].pc = "member"
    BY <1>0, <1>3 DEF CommitMember, Sound
  <2>2. member' \in [Users -> Statuses]
    BY <1>0, <1>3, <2>1 DEF CommitMember
  <2>3. /\ End(h) /\ UNCHANGED <<channel, overwrites, notified, room, requests, ghosts>>
        /\ Remains(h, Idle)
    BY <1>3, <2>1 DEF CommitMember, Remains
  <2>. QED
    BY <1>0, <2>2, <2>3, EndMoves, IdleIsSound, MoveKeeps DEF ghosts
<1>. QED
  BY <1>1, <1>2, <1>3

LEMMA UnsubscribeKeeps ==
  ASSUME IInv, NEW u \in Users, NEW c \in Channels, Unsubscribe(u, c)
  PROVE  IInv'
<1>1. room' \in [Channels -> SUBSET Users] /\ UNCHANGED <<tables, job, requests, ghosts>>
  BY DEF Unsubscribe, IInv, TableInv
<1>. QED
  BY <1>1 DEF IInv, TableInv, JobInv, RowInv, LockInv, KeyInv, VersionInv, Announcing, tables, ghosts

-----------------------------------------------------------------------------
LEMMA InitIInv == Init => IInv
<1>. SUFFICES ASSUME Init PROVE IInv
  OBVIOUS
<1>1. TableInv
  <2>1. MaxRequests \in Nat
    BY ConstantsAssumption
  <2>2. requests \in 0..MaxRequests
    BY <2>1 DEF Init
  <2>. QED
    BY <2>2 DEF Init, TableInv, Statuses
<1>2. RowInv
  BY DEF Init, RowInv, Composed, Normalized
<1>3. VersionInv
  BY DEF Init, VersionInv
<1>4. JobInv /\ LockInv /\ KeyInv
  BY IdleIsSound DEF Init, JobInv, LockInv, KeyInv, InTransaction
<1>. QED
  BY <1>1, <1>2, <1>3, <1>4 DEF IInv

LEMMA NextIInv == IInv /\ [Next]_vars => IInv'
<1>. SUFFICES ASSUME IInv, [Next]_vars PROVE IInv'
  OBVIOUS
<1>1. CASE UNCHANGED vars
  BY <1>1
  DEF vars, tables, ghosts, IInv, TableInv, JobInv, RowInv, LockInv, KeyInv, VersionInv, Announcing
<1>2. ASSUME NEW h \in Handlers, Start(h)
      PROVE  IInv'
  BY <1>2, CreateKeeps, UpdateKeeps, DeleteKeeps, SubscribeKeeps, ManageMemberKeeps DEF Start
<1>3. ASSUME NEW h \in Handlers, Continue(h)
      PROVE  IInv'
  BY <1>3, ReadCurrentKeeps, WriteRowKeeps, ReplaceOverwritesKeeps, EnqueueKeeps, CommitKeeps,
     RollbackKeeps, FlushAuditsKeeps, PublishKeeps, RoomsKeep DEF Continue
<1>. QED
  BY <1>1, <1>2, <1>3, UnsubscribeKeeps DEF Next

LEMMA AlwaysIInv == Spec => []IInv
BY InitIInv, NextIInv, PTL DEF Spec

-----------------------------------------------------------------------------
(* Channels, members, rooms and rows hold what requests have put in them.  *)
THEOREM TypesHold == Spec => []TypeOK
<1>1. ASSUME IInv PROVE TypeOK
  <2>1. \A c \in Channels : \A row \in overwrites[c] :
           /\ row.target \in Users \cup DOMAIN BitsOf
           /\ row.allow \cup row.deny \subseteq Bits
           /\ row.from \in 1..requests
    BY <1>1 DEF IInv, TableInv, RowInv, Stamped, Targets
  <2>2. \A c \in Channels : announced[c] \in 0..version[c]
    BY <1>1 DEF IInv, VersionInv
  <2>3. DOMAIN job = Handlers
    BY <1>1 DEF IInv, JobInv
  <2>. QED
    BY <1>1, <2>1, <2>2, <2>3 DEF IInv, TableInv, Statuses, TypeOK
<1>. QED
  BY <1>1, AlwaysIInv, PTL

(* However updates of a channel overlap, its overwrites are all of one of  *)
(* them: the row of the channel makes the transactions wait.               *)
THEOREM OverwritesAlwaysComeFromOneRequest == Spec => []OverwritesComeFromOneRequest
<1>1. IInv => OverwritesComeFromOneRequest
  BY DEF IInv, RowInv, Composed, OverwritesComeFromOneRequest
<1>. QED
  BY <1>1, AlwaysIInv, PTL

(* After every commit that no failed audit silences an event follows, and  *)
(* a user hears of one permission change of a channel at most.             *)
THEOREM EventsAlwaysMatchCommits == Spec => []EventsMatchCommits
<1>1. ASSUME IInv PROVE EventsMatchCommits
  <2>1. ASSUME NEW c \in Channels, Quiet(c), ~lost
        PROVE  announced[c] = version[c]
    BY <1>1, <2>1 DEF IInv, VersionInv, Announcing, Quiet
  <2>2. ASSUME NEW cu \in DOMAIN told
        PROVE  told[cu] <= IF cu \in notified THEN 1 ELSE 0
    BY <1>1 DEF IInv, KeyInv
  <2>. QED
    BY <2>1, <2>2 DEF EventsMatchCommits
<1>. QED
  BY <1>1, AlwaysIInv, PTL

-----------------------------------------------------------------------------
(* What the rows of a channel decide                                       *)

(* With one row per target, that row is what the target is looked up by.   *)
LEMMA RulesAreRows ==
  ASSUME NEW c \in Channels, Normalized(overwrites[c])
  PROVE  /\ DOMAIN Rules(c) = {row.target : row \in overwrites[c]}
         /\ \A row \in overwrites[c] : Rules(c)[row.target] = row
<1>1. DOMAIN Rules(c) = {row.target : row \in overwrites[c]}
  BY DEF Rules
<1>2. ASSUME NEW row \in overwrites[c]
      PROVE  Rules(c)[row.target] = row
  <2>. DEFINE found == CHOOSE r \in overwrites[c] : r.target = row.target
  <2>1. found \in overwrites[c] /\ found.target = row.target
    OBVIOUS
  <2>2. found = row
    BY <2>1 DEF Normalized
  <2>3. Rules(c)[row.target] = found
    BY DEF Rules
  <2>. QED
    BY <2>2, <2>3
<1>. QED
  BY <1>1, <1>2

(* The bits that the arithmetic of computeChannelPermissionBits leaves are *)
(* those the documents' order of precedence gives, for any rows that do    *)
(* not repeat a target.                                                    *)
LEMMA BitsAreDocumented ==
  ASSUME IInv, NEW u \in Users, NEW c \in Channels
  PROVE  ChannelBits(Context(u), u, Rules(c)) =
            {bit \in Bits : Documented(u, c, bit)}
                \ (IF member[u] = "muted" THEN {"SendMessage"} ELSE {})
<1>. DEFINE rows == overwrites[c]
            rules == Rules(c)
            mine == RolesOf[u] \cap DOMAIN rules
            denied == UNION {rules[r].deny : r \in mine}
            allowed == UNION {rules[r].allow : r \in mine}
            bits == UNION {BitsOf[r] : r \in RolesOf[u]}
            byRoles == (bits \ denied) \cup (allowed \ denied)
            byMember == IF u \in DOMAIN rules
                        THEN (byRoles \cup rules[u].allow) \ rules[u].deny
                        ELSE byRoles
            muted == IF member[u] = "muted" THEN {"SendMessage"} ELSE {}
<1>1. /\ DOMAIN rules = {row.target : row \in rows}
      /\ \A row \in rows : rules[row.target] = row
      /\ \A row \in rows : row.allow \subseteq Bits /\ row.deny \subseteq Bits
  <2>1. Normalized(rows) /\ rows \in SUBSET Stamped
    BY DEF IInv, RowInv, Composed, TableInv
  <2>2. /\ DOMAIN rules = {row.target : row \in rows}
        /\ \A row \in rows : rules[row.target] = row
    BY <2>1, RulesAreRows
  <2>3. \A row \in rows : row.allow \subseteq Bits /\ row.deny \subseteq Bits
    BY <2>1 DEF Stamped
  <2>. QED
    BY <2>2, <2>3
<1>2. ChannelBits(Context(u), u, rules) = byMember \ muted
  <2>1. /\ Context(u).roles = RolesOf[u] /\ Context(u).bits = bits
        /\ Context(u).status = member[u]
    BY DEF Context
  <2>2. ChannelBits(Context(u), u, rules)
           = IF member[u] = "muted" THEN byMember \ {"SendMessage"} ELSE byMember
    BY <2>1 DEF ChannelBits
  <2>. HIDE DEF byMember
  <2>. QED
    BY <2>2
<1>3. bits \subseteq Bits
  BY ConstantsAssumption
<1>4. /\ \A bit : bit \in denied <=> \E r \in rows : r.target \in RolesOf[u] /\ bit \in r.deny
      /\ \A bit : bit \in allowed <=> \E r \in rows : r.target \in RolesOf[u] /\ bit \in r.allow
  BY <1>1
<1>5. \A bit : bit \in bits <=> \E r \in RolesOf[u] : bit \in BitsOf[r]
  OBVIOUS
<1>6. \A bit : bit \in byRoles <=>
         /\ ~\E r \in rows : r.target \in RolesOf[u] /\ bit \in r.deny
         /\ \/ \E r \in rows : r.target \in RolesOf[u] /\ bit \in r.allow
            \/ \E r \in RolesOf[u] : bit \in BitsOf[r]
  BY <1>4, <1>5
<1>7. \A bit : bit \in byMember <=>
         /\ \A r \in rows : r.target = u => bit \notin r.deny
         /\ \/ \E r \in rows : r.target = u /\ bit \in r.allow
            \/ bit \in byRoles
  <2>. HIDE DEF byRoles, rules, rows
  <2>1. CASE u \in DOMAIN rules
    <3>1. PICK row \in rows : row.target = u
      BY <1>1, <2>1
    <3>2. \A r \in rows : r.target = u <=> r = row
      BY <1>1, <3>1
    <3>3. rules[u] = row
      BY <1>1, <3>1
    <3>. QED
      BY <2>1, <3>1, <3>2, <3>3
  <2>2. CASE u \notin DOMAIN rules
    <3>1. \A r \in rows : r.target # u
      BY <1>1, <2>2
    <3>. QED
      BY <2>2, <3>1
  <2>. QED
    BY <2>1, <2>2
<1>8. \A bit : bit \in byMember <=> Documented(u, c, bit)
  <2>. HIDE DEF byMember, byRoles
  <2>. QED
    BY <1>6, <1>7 DEF Documented
<1>9. byMember \subseteq Bits
  <2>. HIDE DEF byMember, byRoles, rows
  <2>1. ASSUME NEW bit \in byMember PROVE bit \in Bits
    <3>1. \/ \E r \in rows : bit \in r.allow
          \/ \E r \in RolesOf[u] : bit \in BitsOf[r]
      BY <1>6, <1>7
    <3>. QED
      BY <3>1, <1>1, <1>3, <1>5
  <2>. QED
    BY <2>1
<1>. HIDE DEF byMember, muted
<1>10. byMember = {bit \in Bits : Documented(u, c, bit)}
  BY <1>8, <1>9
<1>. QED
  BY <1>2, <1>10 DEF muted

(* A member may in a channel exactly what the documents say, whatever      *)
(* roles, members and overwrites there are.                                *)
THEOREM AccessIsAlwaysAsDocumented == Spec => []AccessIsAsDocumented
<1>1. IInv => AccessIsAsDocumented
  BY BitsAreDocumented DEF AccessIsAsDocumented
<1>. QED
  BY <1>1, AlwaysIInv, PTL
=============================================================================
