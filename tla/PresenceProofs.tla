--------------------------- MODULE PresenceProofs ---------------------------
(***************************************************************************)
(* Theorems about Presence for any number of users, sockets, handlers and  *)
(* sweeps.  The argument follows the turns the jobs take at Redis: between *)
(* two commands of one job every other job that waits sends exactly one,   *)
(* so a ZREM that follows the SREM of a connection cannot overtake the     *)
(* ZADD that follows a later SADD of it.                                   *)
(***************************************************************************)
EXTENDS Presence, TLAPS

StoreSteps == {"set", "sadd", "expire", "zadd", "unmark"}

RemoveSteps == {"srem", "del", "zrem"}

CountSteps == {"scard", "mark"}

CandidateSteps == {"candidates", "count", "remove"}

(* What record r of job j can be: a handler works on one socket of one      *)
(* user, a sweep empties its lists one after the other.                     *)
Sound(j, r) ==
    /\ r.pc = "idle" => r = IdleJob
    /\ r.kind = "none" => r = IdleJob
    /\ j \in Handlers => r.kind # "sweep"
    /\ j \in Sweeps => r.kind \in {"none", "sweep"}
    /\ r.kind \in {"track", "beat", "drop"} =>
         /\ r.conn \in Connections
         /\ r.user = Owner[r.conn]
         /\ r.expired = {} /\ r.users = {} /\ r.due = {} /\ r.ready = {}
    /\ r.kind = "track" => r.pc \in StoreSteps \cup DatabaseSteps
    /\ r.kind = "beat" => r.pc \in StoreSteps
    /\ r.kind = "drop" => r.pc \in RemoveSteps \cup CountSteps
    /\ r.kind = "sweep" =>
         /\ r.pc \notin StoreSteps
         /\ r.pc \in RemoveSteps => r.conn \in Connections /\ Owner[r.conn] \in r.users
         /\ r.pc \in CountSteps => r.user \in Users /\ r.expired = {}
         /\ r.pc = "expired" => r.expired = {} /\ r.users = {}
         /\ r.pc \in {"expired"} \cup RemoveSteps \cup CountSteps => r.due = {} /\ r.ready = {}
         /\ r.pc \in CandidateSteps \cup DatabaseSteps => r.expired = {} /\ r.users = {}
         /\ r.pc = "candidates" => r.due = {} /\ r.ready = {}
         /\ r.pc \in {"count", "remove"} \cup DatabaseSteps => r.user \in Users
         /\ r.pc \in DatabaseSteps => r.due = {}

JobInv == \A j \in Jobs : Sound(j, job[j])

In(q, x) == \E n \in 1..Len(q) : q[n] = x

Once(q) == \A m, n \in 1..Len(q) : q[m] = q[n] => m = n

(* Whoever has sent a command to Redis is in the queue, once. *)
QueueInv ==
    /\ Once(queue)
    /\ \A j \in Jobs : job[j].pc \in RedisSteps <=> In(queue, j)

BaseInv == ProgramTypeOK /\ JobInv /\ QueueInv

(* The command of job i is answered before that of job j. *)
Precedes(q, i, j) == \E m, n \in 1..Len(q) : m < n /\ q[m] = i /\ q[n] = j

Before(i, j) == Precedes(queue, i, j)

(* The job is between the SREM and the ZREM of the connection. *)
Removing(j, c) == job[j].conn = c /\ job[j].pc \in {"del", "zrem"}

(* The ZADD of job j will come after the ZREM of job i. *)
Behind(i, j) ==
    \/ job[i].pc = "zrem" /\ job[j].pc = "expire"
    \/ job[i].pc = "del" /\ job[j].pc = "expire" /\ Before(i, j)
    \/ job[i].pc = "zrem" /\ job[j].pc = "zadd" /\ Before(i, j)

Covered(c) == expiration[c] # "none" \/ \E j \in Jobs : Storing(j, c)

(* A connection in a set has a score or will have one, and whoever is about *)
(* to take the score away does so before somebody sets it again.            *)
TrackedInv == \A u \in Users : \A c \in tracked[u] :
    /\ Owner[c] = u
    /\ Covered(c)
    /\ \A i \in Jobs : Removing(i, c) => \E j \in Jobs : Storing(j, c) /\ Behind(i, j)

-----------------------------------------------------------------------------
(* Sequences without repetition and the order of their elements.           *)

LEMMA AppendAdds ==
  ASSUME NEW q \in Seq(Jobs), NEW j \in Jobs, Once(q), ~In(q, j)
  PROVE  /\ Append(q, j) \in Seq(Jobs)
         /\ \A x : In(Append(q, j), x) <=> In(q, x) \/ x = j
         /\ Once(Append(q, j))
         /\ \A i, k : Precedes(q, i, k) => Precedes(Append(q, j), i, k)
         /\ \A i : In(q, i) => Precedes(Append(q, j), i, j)
<1>1. /\ Append(q, j) \in Seq(Jobs)
      /\ Len(q) \in Nat
      /\ Len(Append(q, j)) = Len(q) + 1
      /\ \A i \in 1..Len(q) : Append(q, j)[i] = q[i]
      /\ Append(q, j)[Len(q) + 1] = j
  OBVIOUS
<1>2. ASSUME NEW x
      PROVE  In(Append(q, j), x) <=> In(q, x) \/ x = j
  <2>1. ASSUME In(q, x)
        PROVE  In(Append(q, j), x)
    <3>. PICK i \in 1..Len(q) : q[i] = x
      BY <2>1 DEF In
    <3>. i \in 1..Len(Append(q, j)) /\ Append(q, j)[i] = x
      BY <1>1
    <3>. QED
      BY DEF In
  <2>2. In(Append(q, j), j)
    <3>. Len(q) + 1 \in 1..Len(Append(q, j))
      BY <1>1
    <3>. QED
      BY <1>1 DEF In
  <2>3. ASSUME In(Append(q, j), x), x # j
        PROVE  In(q, x)
    <3>. PICK i \in 1..Len(Append(q, j)) : Append(q, j)[i] = x
      BY <2>3 DEF In
    <3>. i \in 1..Len(q)
      BY <1>1, <2>3
    <3>. QED
      BY <1>1 DEF In
  <2>. QED
    BY <2>1, <2>2, <2>3
<1>3. Once(Append(q, j))
  <2>. SUFFICES ASSUME NEW i \in 1..Len(q) + 1, NEW k \in 1..Len(q) + 1,
                       Append(q, j)[i] = Append(q, j)[k]
                PROVE  i = k
    BY <1>1 DEF Once
  <2>1. CASE i \in 1..Len(q) /\ k \in 1..Len(q)
    BY <1>1, <2>1 DEF Once
  <2>2. CASE i = Len(q) + 1 /\ k \in 1..Len(q)
    BY <1>1, <2>2 DEF In
  <2>3. CASE k = Len(q) + 1 /\ i \in 1..Len(q)
    BY <1>1, <2>3 DEF In
  <2>. QED
    BY <2>1, <2>2, <2>3
<1>4. ASSUME NEW i, NEW k, Precedes(q, i, k)
      PROVE  Precedes(Append(q, j), i, k)
  <2>. PICK m \in 1..Len(q), n \in 1..Len(q) : m < n /\ q[m] = i /\ q[n] = k
    BY <1>4 DEF Precedes
  <2>. /\ m \in 1..Len(Append(q, j)) /\ n \in 1..Len(Append(q, j))
       /\ Append(q, j)[m] = i /\ Append(q, j)[n] = k
    BY <1>1
  <2>. QED
    BY DEF Precedes
<1>5. ASSUME NEW i, In(q, i)
      PROVE  Precedes(Append(q, j), i, j)
  <2>. PICK m \in 1..Len(q) : q[m] = i
    BY <1>5 DEF In
  <2>. /\ m \in 1..Len(Append(q, j)) /\ Len(q) + 1 \in 1..Len(Append(q, j))
       /\ m < Len(q) + 1
       /\ Append(q, j)[m] = i /\ Append(q, j)[Len(q) + 1] = j
    BY <1>1
  <2>. QED
    BY DEF Precedes
<1>. QED
  BY <1>1, <1>2, <1>3, <1>4, <1>5

LEMMA TailDrops ==
  ASSUME NEW q \in Seq(Jobs), q # <<>>, Once(q)
  PROVE  /\ Tail(q) \in Seq(Jobs)
         /\ Head(q) \in Jobs
         /\ In(q, Head(q))
         /\ \A x : In(Tail(q), x) <=> In(q, x) /\ x # Head(q)
         /\ Once(Tail(q))
         /\ \A i, k : Precedes(q, i, k) /\ i # Head(q) => Precedes(Tail(q), i, k)
         /\ \A i : ~Precedes(q, i, Head(q))
<1>1. /\ Tail(q) \in Seq(Jobs)
      /\ Len(q) > 0 /\ Len(q) \in Nat
      /\ Len(Tail(q)) = Len(q) - 1
      /\ \A i \in 1..Len(q) - 1 : Tail(q)[i] = q[i + 1]
      /\ Head(q) = q[1]
      /\ Head(q) \in Jobs
  OBVIOUS
<1>2. In(q, Head(q))
  BY <1>1 DEF In
<1>3. ASSUME NEW x, In(Tail(q), x)
      PROVE  In(q, x) /\ x # Head(q)
  <2>. PICK i \in 1..Len(q) - 1 : Tail(q)[i] = x
    BY <1>1, <1>3 DEF In
  <2>. i + 1 \in 1..Len(q) /\ 1 \in 1..Len(q) /\ q[i + 1] = x
    BY <1>1
  <2>1. In(q, x)
    BY DEF In
  <2>2. x # q[1]
    <3>. SUFFICES ASSUME q[i + 1] = q[1]
                  PROVE  FALSE
      OBVIOUS
    <3>. i + 1 = 1
      BY DEF Once
    <3>. QED
      OBVIOUS
  <2>. QED
    BY <1>1, <2>1, <2>2
<1>4. ASSUME NEW x, In(q, x), x # Head(q)
      PROVE  In(Tail(q), x)
  <2>. PICK i \in 1..Len(q) : q[i] = x
    BY <1>4 DEF In
  <2>. i # 1
    BY <1>1, <1>4
  <2>. i - 1 \in 1..Len(Tail(q)) /\ Tail(q)[i - 1] = x
    <3>1. i - 1 \in 1..Len(q) - 1 /\ (i - 1) + 1 = i
      BY <1>1
    <3>. QED
      BY <1>1, <3>1
  <2>. QED
    BY DEF In
<1>5. Once(Tail(q))
  <2>. SUFFICES ASSUME NEW i \in 1..Len(q) - 1, NEW k \in 1..Len(q) - 1, Tail(q)[i] = Tail(q)[k]
                PROVE  i = k
    BY <1>1 DEF Once
  <2>. /\ i + 1 \in 1..Len(q) /\ k + 1 \in 1..Len(q)
       /\ q[i + 1] = q[k + 1]
    BY <1>1
  <2>. i + 1 = k + 1
    BY DEF Once
  <2>. QED
    OBVIOUS
<1>6. ASSUME NEW i, NEW k, Precedes(q, i, k), i # Head(q)
      PROVE  Precedes(Tail(q), i, k)
  <2>. PICK m \in 1..Len(q), n \in 1..Len(q) : m < n /\ q[m] = i /\ q[n] = k
    BY <1>6 DEF Precedes
  <2>. m # 1
    BY <1>1, <1>6
  <2>1. /\ m - 1 \in 1..Len(q) - 1 /\ n - 1 \in 1..Len(q) - 1
        /\ (m - 1) + 1 = m /\ (n - 1) + 1 = n /\ m - 1 < n - 1
    BY <1>1
  <2>2. Tail(q)[m - 1] = i /\ Tail(q)[n - 1] = k
    BY <1>1, <2>1
  <2>. QED
    BY <1>1, <2>1, <2>2 DEF Precedes
<1>7. ASSUME NEW i, Precedes(q, i, Head(q))
      PROVE  FALSE
  <2>. PICK m \in 1..Len(q), n \in 1..Len(q) : m < n /\ q[m] = i /\ q[n] = Head(q)
    BY <1>7 DEF Precedes
  <2>. 1 \in 1..Len(q) /\ q[n] = q[1]
    BY <1>1
  <2>. n = 1
    BY DEF Once
  <2>. QED
    OBVIOUS
<1>. QED
  BY <1>1, <1>2, <1>3, <1>4, <1>5, <1>6, <1>7

-----------------------------------------------------------------------------
(* Turns: what a job does next it does as record r.                         *)

Begins(j, r) ==
    /\ job[j].pc = "idle"
    /\ r.pc \in RedisSteps
    /\ job' = [job EXCEPT ![j] = r]
    /\ queue' = Append(queue, j)

Continues(j, r) ==
    /\ queue # <<>>
    /\ Head(queue) = j
    /\ Proceed(j, r)

Resumes(j, r) ==
    /\ job[j].pc \in DatabaseSteps
    /\ r.pc \notin RedisSteps
    /\ ProceedUnqueued(j, r)

Turn(j, r) == Begins(j, r) \/ Continues(j, r) \/ Resumes(j, r)

(* What a turn leaves behind: the others in their order, and the job that   *)
(* moved last if it waits again.                                            *)
Turned(j, r) ==
    /\ job' = [job EXCEPT ![j] = r]
    /\ \A i \in Jobs : ~Before(i, j)
    /\ \A i, k \in Jobs : i # j /\ k # j /\ Before(i, k) => Before(i, k)'
    /\ r.pc \in RedisSteps =>
         \A i \in Jobs : i # j /\ job[i].pc \in RedisSteps => Before(i, j)'

LEMMA StepsDiffer ==
  /\ "idle" \notin RedisSteps
  /\ RedisSteps \cap DatabaseSteps = {}
BY DEF RedisSteps, DatabaseSteps

LEMMA QueueTurns ==
  ASSUME BaseInv, NEW j \in Jobs, NEW r \in Job, Turn(j, r)
  PROVE  queue' \in Seq(Jobs) /\ QueueInv' /\ Turned(j, r)
<1>. /\ queue \in Seq(Jobs) /\ Once(queue)
     /\ \A k \in Jobs : job[k].pc \in RedisSteps <=> In(queue, k)
     /\ job \in [Jobs -> Job]
  BY DEF BaseInv, ProgramTypeOK, QueueInv
<1>1. ASSUME NEW i, NEW k, Before(i, k)
      PROVE  In(queue, i) /\ In(queue, k)
  BY <1>1 DEF Before, Precedes, In
<1>2. CASE Begins(j, r)
  <2>1. ~In(queue, j) /\ job' = [job EXCEPT ![j] = r] /\ r.pc \in RedisSteps
        /\ queue' = Append(queue, j)
    BY <1>2, StepsDiffer DEF Begins
  <2>2. /\ queue' \in Seq(Jobs)
        /\ \A x : In(queue', x) <=> In(queue, x) \/ x = j
        /\ Once(queue')
        /\ \A i, k : Precedes(queue, i, k) => Precedes(queue', i, k)
        /\ \A i : In(queue, i) => Precedes(queue', i, j)
    BY <2>1, AppendAdds
  <2>3. QueueInv'
    BY <2>1, <2>2 DEF QueueInv
  <2>4. Turned(j, r)
    BY <1>1, <2>1, <2>2 DEF Turned, Before
  <2>. QED
    BY <2>2, <2>3, <2>4
<1>3. CASE Continues(j, r)
  <2>. DEFINE t == Tail(queue)
  <2>1. /\ queue # <<>> /\ Head(queue) = j
        /\ job' = [job EXCEPT ![j] = r]
        /\ queue' = IF r.pc \in RedisSteps THEN Append(t, j) ELSE t
    BY <1>3 DEF Continues, Proceed
  <2>2. /\ t \in Seq(Jobs)
        /\ In(queue, j)
        /\ \A x : In(t, x) <=> In(queue, x) /\ x # j
        /\ Once(t)
        /\ \A i, k : Precedes(queue, i, k) /\ i # j => Precedes(t, i, k)
        /\ \A i : ~Precedes(queue, i, j)
    BY <2>1, TailDrops
  <2>. HIDE DEF t
  <2>3. CASE r.pc \in RedisSteps
    <3>1. /\ queue' \in Seq(Jobs)
          /\ \A x : In(queue', x) <=> In(t, x) \/ x = j
          /\ Once(queue')
          /\ \A i, k : Precedes(t, i, k) => Precedes(queue', i, k)
          /\ \A i : In(t, i) => Precedes(queue', i, j)
      BY <2>1, <2>2, <2>3, AppendAdds
    <3>2. QueueInv'
      BY <2>1, <2>2, <2>3, <3>1 DEF QueueInv
    <3>3. Turned(j, r)
      BY <2>1, <2>2, <2>3, <3>1 DEF Turned, Before
    <3>. QED
      BY <3>1, <3>2, <3>3
  <2>4. CASE r.pc \notin RedisSteps
    <3>1. QueueInv'
      BY <2>1, <2>2, <2>4 DEF QueueInv
    <3>2. Turned(j, r)
      BY <2>1, <2>2, <2>4 DEF Turned, Before
    <3>. QED
      BY <2>1, <2>2, <2>4, <3>1, <3>2
  <2>. QED
    BY <2>3, <2>4
<1>4. CASE Resumes(j, r)
  <2>1. ~In(queue, j) /\ job' = [job EXCEPT ![j] = r] /\ r.pc \notin RedisSteps
        /\ queue' = queue
    BY <1>4, StepsDiffer DEF Resumes, ProceedUnqueued
  <2>2. QueueInv'
    BY <2>1 DEF QueueInv
  <2>3. Turned(j, r)
    BY <1>1, <2>1 DEF Turned, Before
  <2>. QED
    BY <2>1, <2>2, <2>3
<1>. QED
  BY <1>2, <1>3, <1>4 DEF Turn

(* A turn to a sound record keeps types, jobs and the queue. *)
LEMMA TurnIsSound ==
  ASSUME BaseInv, NEW j \in Jobs, NEW r \in Job, Turn(j, r), Sound(j, r),
         socket' \in [Connections -> Phases],
         status' \in [Users -> Statuses],
         tracked' \in [Users -> SUBSET Connections],
         expiration' \in [Connections -> Score],
         candidate' \in [Users -> Score]
  PROVE  BaseInv' /\ Turned(j, r)
<1>1. queue' \in Seq(Jobs) /\ QueueInv' /\ Turned(j, r)
  BY QueueTurns
<1>2. job \in [Jobs -> Job] /\ JobInv
  BY DEF BaseInv, ProgramTypeOK
<1>3. job' \in [Jobs -> Job]
  BY <1>1, <1>2 DEF Turned
<1>4. JobInv'
  BY <1>1, <1>2 DEF Turned, JobInv
<1>. QED
  BY <1>1, <1>3, <1>4 DEF BaseInv, ProgramTypeOK

-----------------------------------------------------------------------------
(* The records a job goes through.                                          *)

LEMMA Kinds ==
  ASSUME BaseInv, NEW j \in Jobs
  PROVE  /\ job[j] \in Job /\ Sound(j, job[j])
         /\ job[j].pc \in StoreSteps => job[j].kind \in {"track", "beat"}
         /\ job[j].pc \in RemoveSteps \cup CountSteps => job[j].kind \in {"drop", "sweep"}
         /\ job[j].pc \in {"expired"} \cup CandidateSteps => job[j].kind = "sweep"
         /\ job[j].pc \in DatabaseSteps => job[j].kind \in {"track", "sweep"}
         /\ job[j].pc = "idle" => job[j] = IdleJob
<1>1. job[j] \in Job /\ Sound(j, job[j])
  BY DEF BaseInv, ProgramTypeOK, JobInv
<1>2. job[j].kind \in {"none", "track", "beat", "drop", "sweep"}
  BY <1>1 DEF Job
<1>3. job[j].kind = "none" => job[j].pc = "idle"
  BY <1>1 DEF Sound, IdleJob
<1>. QED
  BY <1>1, <1>2, <1>3
     DEF Sound, StoreSteps, RemoveSteps, CountSteps, CandidateSteps, DatabaseSteps

LEMMA IdleIsSound ==
  ASSUME NEW j
  PROVE  /\ IdleJob \in Job /\ Sound(j, IdleJob)
         /\ IdleJob.kind = "none" /\ IdleJob.pc = "idle" /\ IdleJob.conn = None
         /\ IdleJob.expired = {} /\ IdleJob.users = {} /\ IdleJob.ready = {}
BY DEF IdleJob, Job, Sound, StoreSteps, RemoveSteps, CountSteps, CandidateSteps, DatabaseSteps,
       RedisSteps

LEMMA GoToFields ==
  ASSUME NEW r \in Job, NEW pc \in RedisSteps \cup DatabaseSteps
  PROVE  /\ [r EXCEPT !.pc = pc] \in Job
         /\ [r EXCEPT !.pc = pc].pc = pc
         /\ [r EXCEPT !.pc = pc].kind = r.kind
         /\ [r EXCEPT !.pc = pc].conn = r.conn
         /\ [r EXCEPT !.pc = pc].user = r.user
         /\ [r EXCEPT !.pc = pc].expired = r.expired
         /\ [r EXCEPT !.pc = pc].users = r.users
         /\ [r EXCEPT !.pc = pc].due = r.due
         /\ [r EXCEPT !.pc = pc].ready = r.ready
BY DEF Job

(* Record r differs from job j by its step only. *)
Goes(j, r, pc) ==
    /\ r \in Job /\ r.pc = pc /\ r.kind = job[j].kind /\ r.conn = job[j].conn
    /\ r.user = job[j].user /\ r.expired = job[j].expired /\ r.users = job[j].users
    /\ r.due = job[j].due /\ r.ready = job[j].ready

LEMMA GoToTurns ==
  ASSUME BaseInv, NEW j \in Jobs, NEW pc \in RedisSteps, queue # <<>>, Head(queue) = j,
         GoTo(j, pc)
  PROVE  \E r \in Job : Turn(j, r) /\ Goes(j, r, pc)
<1>. DEFINE r == [job[j] EXCEPT !.pc = pc]
<1>1. Goes(j, r, pc) /\ r \in Job
  BY Kinds, GoToFields DEF Goes
<1>2. Turn(j, r)
  BY DEF GoTo, Turn, Continues
<1>. QED
  BY <1>1, <1>2

LEMMA StartTurns ==
  ASSUME BaseInv, NEW j \in Jobs, NEW kind \in {"track", "beat", "drop", "sweep"},
         NEW pc \in RedisSteps, NEW c \in Connections \cup {None}, Start(j, kind, pc, c)
  PROVE  \E r \in Job :
           /\ Turn(j, r)
           /\ r.kind = kind /\ r.pc = pc /\ r.conn = c
           /\ r.user = IF c = None THEN None ELSE Owner[c]
           /\ r.expired = {} /\ r.users = {} /\ r.due = {} /\ r.ready = {}
<1>. DEFINE u == IF c = None THEN None ELSE Owner[c]
            r == [IdleJob EXCEPT !.kind = kind, !.pc = pc, !.conn = c, !.user = u]
<1>1. u \in Users \cup {None}
  BY ConstantsAssumption
<1>. HIDE DEF u
<1>2. /\ r \in Job
      /\ r.kind = kind /\ r.pc = pc /\ r.conn = c /\ r.user = u
      /\ r.expired = {} /\ r.users = {} /\ r.due = {} /\ r.ready = {}
  BY <1>1 DEF IdleJob, Job
<1>3. Turn(j, r)
  BY <1>2 DEF Start, Turn, Begins, u
<1>. HIDE DEF r
<1>. QED
  BY <1>2, <1>3 DEF u

(* After a command on a connection or a user the sweep visits the next; it  *)
(* forgets no user affected.                                                *)
LEMMA VisitSound ==
  ASSUME NEW s \in Sweeps, NEW r \in Job, r.kind = "sweep", r.due = {}, r.ready = {},
         NEW v \in Visit(r)
  PROVE  /\ v \in Job /\ Sound(s, v) /\ v.kind = "sweep"
         /\ v.pc \in {"srem", "scard", "candidates"}
         /\ \A u \in r.users : u \in v.users \/ (v.pc = "scard" /\ v.user = u)
         /\ v.ready = {}
         /\ v.conn = r.conn \/ v.conn \in r.expired
         /\ v.expired \subseteq r.expired
<1>. /\ s \notin Handlers
     /\ Owner \in [Connections -> Users]
  BY ConstantsAssumption
<1>1. CASE r.expired # {}
  <2>. PICK c \in r.expired :
         v = [r EXCEPT !.pc = "srem", !.conn = c, !.expired = @ \ {c},
                       !.users = @ \cup {Owner[c]}]
    BY <1>1 DEF Visit
  <2>. c \in Connections /\ Owner[c] \in Users
    BY DEF Job
  <2>1. /\ v.pc = "srem" /\ v.conn = c /\ v.kind = "sweep" /\ v.due = {} /\ v.ready = {}
        /\ v.expired = r.expired \ {c}
        /\ v.users = r.users \cup {Owner[c]}
        /\ v.user = r.user
    BY DEF Job
  <2>2. v \in Job
    BY DEF Job, RedisSteps
  <2>3. Sound(s, v)
    BY <2>1 DEF Sound, StoreSteps, RemoveSteps, CountSteps, CandidateSteps, DatabaseSteps
  <2>. QED
    BY <2>1, <2>2, <2>3
<1>2. CASE r.expired = {} /\ r.users # {}
  <2>. PICK u \in r.users : v = [r EXCEPT !.pc = "scard", !.user = u, !.users = @ \ {u}]
    BY <1>2 DEF Visit
  <2>. u \in Users
    BY DEF Job
  <2>1. /\ v.pc = "scard" /\ v.conn = r.conn /\ v.kind = "sweep" /\ v.due = {} /\ v.ready = {}
        /\ v.expired = {} /\ v.users = r.users \ {u} /\ v.user = u
    BY <1>2 DEF Job
  <2>2. v \in Job
    BY DEF Job, RedisSteps
  <2>3. Sound(s, v)
    BY <2>1 DEF Sound, StoreSteps, RemoveSteps, CountSteps, CandidateSteps, DatabaseSteps
  <2>. QED
    BY <2>1, <2>2, <2>3
<1>3. CASE r.expired = {} /\ r.users = {}
  <2>. v = [r EXCEPT !.pc = "candidates"]
    BY <1>3 DEF Visit
  <2>1. /\ v.pc = "candidates" /\ v.conn = r.conn /\ v.kind = "sweep" /\ v.due = {} /\ v.ready = {}
        /\ v.expired = {} /\ v.users = {} /\ v.user = r.user
    BY <1>3 DEF Job
  <2>2. v \in Job
    BY DEF Job, RedisSteps
  <2>3. Sound(s, v)
    BY <2>1 DEF Sound, StoreSteps, RemoveSteps, CountSteps, CandidateSteps, DatabaseSteps
  <2>. QED
    BY <1>3, <2>1, <2>2, <2>3
<1>. QED
  BY <1>1, <1>2, <1>3

(* After a step on a candidate or on a user to be put offline the sweep     *)
(* visits the next; it forgets nobody it has to put offline.                *)
LEMMA VisitCandidateSound ==
  ASSUME NEW s \in Sweeps, NEW r \in Job, r.kind = "sweep", r.expired = {}, r.users = {},
         NEW v \in VisitCandidate(r)
  PROVE  /\ v \in Job /\ Sound(s, v)
         /\ v.pc \in {"count", "read", "idle"}
         /\ r.due = {} => v.pc # "count"
         /\ \A u \in r.ready : u \in v.ready \/ (v.kind = "sweep" /\ v.pc = "read" /\ v.user = u)
         /\ v.expired = {} /\ v.users = {}
         /\ v.conn \in {r.conn, None}
<1>. s \notin Handlers
  BY ConstantsAssumption
<1>1. CASE r.due # {}
  <2>. PICK u \in r.due : v = [r EXCEPT !.pc = "count", !.user = u, !.due = @ \ {u}]
    BY <1>1 DEF VisitCandidate
  <2>. u \in Users
    BY DEF Job
  <2>1. /\ v.pc = "count" /\ v.conn = r.conn /\ v.kind = "sweep" /\ v.ready = r.ready
        /\ v.expired = {} /\ v.users = {} /\ v.user = u
    BY DEF Job
  <2>2. v \in Job
    BY DEF Job, RedisSteps
  <2>3. Sound(s, v)
    BY <2>1 DEF Sound, StoreSteps, RemoveSteps, CountSteps, CandidateSteps, DatabaseSteps
  <2>. QED
    BY <1>1, <2>1, <2>2, <2>3
<1>2. CASE r.due = {} /\ r.ready # {}
  <2>. PICK u \in r.ready : v = [r EXCEPT !.pc = "read", !.user = u, !.ready = @ \ {u}]
    BY <1>2 DEF VisitCandidate
  <2>. u \in Users
    BY DEF Job
  <2>1. /\ v.pc = "read" /\ v.conn = r.conn /\ v.kind = "sweep" /\ v.ready = r.ready \ {u}
        /\ v.expired = {} /\ v.users = {} /\ v.user = u /\ v.due = {}
    BY <1>2 DEF Job
  <2>2. v \in Job
    BY DEF Job, DatabaseSteps
  <2>3. Sound(s, v)
    BY <2>1 DEF Sound, StoreSteps, RemoveSteps, CountSteps, CandidateSteps, DatabaseSteps
  <2>. QED
    BY <1>2, <2>1, <2>2, <2>3
<1>3. CASE r.due = {} /\ r.ready = {}
  <2>. v = IdleJob
    BY <1>3 DEF VisitCandidate
  <2>. QED
    BY <1>3, IdleIsSound
<1>. QED
  BY <1>1, <1>2, <1>3

-----------------------------------------------------------------------------
(* One lemma per handler's step: the record it goes on with.                *)

LEMMA GoesIsSound ==
  ASSUME BaseInv, NEW j \in Jobs, NEW r, NEW pc \in RedisSteps, Goes(j, r, pc),
         \/ job[j].pc \in StoreSteps /\ pc \in StoreSteps
         \/ job[j].pc \in RemoveSteps /\ pc \in RemoveSteps
         \/ job[j].kind = "drop" /\ pc \in CountSteps
         \/ job[j].pc = "scard" /\ pc = "mark"
  PROVE  Sound(j, r)
BY Kinds DEF Goes, Sound, StoreSteps, RemoveSteps, CountSteps, CandidateSteps, DatabaseSteps,
             RedisSteps

LEMMA SetTurns ==
  ASSUME BaseInv, NEW j \in Jobs, Set(j)
  PROVE  \E r \in Job : /\ Turn(j, r) /\ Sound(j, r)
                        /\ \/ job[j].pc = "set" /\ Goes(j, r, "sadd")
                           \/ job[j].pc = "expire" /\ Goes(j, r, "zadd")
<1>1. ASSUME NEW pc, NEW next, <<pc, next>> \in {<<"set", "sadd">>, <<"expire", "zadd">>},
             Answer(j, pc), GoTo(j, next)
      PROVE  \E r \in Job : Turn(j, r) /\ Sound(j, r) /\ Goes(j, r, next) /\ job[j].pc = pc
  <2>1. next \in RedisSteps /\ job[j].pc = pc /\ queue # <<>> /\ Head(queue) = j
    BY <1>1 DEF RedisSteps, Answer
  <2>. PICK r \in Job : Turn(j, r) /\ Goes(j, r, next)
    BY <1>1, <2>1, GoToTurns
  <2>2. Sound(j, r)
    BY <1>1, <2>1, GoesIsSound DEF StoreSteps
  <2>. QED
    BY <2>1, <2>2
<1>2. CASE Answer(j, "set") /\ GoTo(j, "sadd")
  BY <1>1, <1>2
<1>3. CASE Answer(j, "expire") /\ GoTo(j, "zadd")
  BY <1>1, <1>3
<1>. QED
  BY <1>2, <1>3 DEF Set

LEMMA SaddTurns ==
  ASSUME BaseInv, NEW j \in Jobs, Sadd(j)
  PROVE  \E r \in Job : Turn(j, r) /\ Sound(j, r) /\ job[j].pc = "sadd" /\ Goes(j, r, "expire")
<1>1. /\ job[j].pc = "sadd" /\ queue # <<>> /\ Head(queue) = j
      /\ GoTo(j, "expire") /\ "expire" \in RedisSteps
  BY DEF Sadd, Answer, RedisSteps
<1>. PICK r \in Job : Turn(j, r) /\ Goes(j, r, "expire")
  BY <1>1, GoToTurns
<1>2. Sound(j, r)
  BY <1>1, GoesIsSound DEF StoreSteps
<1>. QED
  BY <1>1, <1>2

LEMMA ZaddTurns ==
  ASSUME BaseInv, NEW j \in Jobs, Zadd(j)
  PROVE  \E r \in Job : Turn(j, r) /\ Sound(j, r) /\ job[j].pc = "zadd" /\ Goes(j, r, "unmark")
<1>1. /\ job[j].pc = "zadd" /\ queue # <<>> /\ Head(queue) = j
      /\ GoTo(j, "unmark") /\ "unmark" \in RedisSteps
  BY DEF Zadd, Answer, RedisSteps
<1>. PICK r \in Job : Turn(j, r) /\ Goes(j, r, "unmark")
  BY <1>1, GoToTurns
<1>2. Sound(j, r)
  BY <1>1, GoesIsSound DEF StoreSteps
<1>. QED
  BY <1>1, <1>2

LEMMA UnmarkTurns ==
  ASSUME BaseInv, NEW j \in Jobs, Unmark(j)
  PROVE  \E r \in Job : /\ Turn(j, r) /\ Sound(j, r) /\ job[j].pc = "unmark"
                        /\ r = IdleJob \/ (job[j].kind = "track" /\ Goes(j, r, "read"))
<1>1. job[j].pc = "unmark" /\ queue # <<>> /\ Head(queue) = j
  BY DEF Unmark, Answer
<1>2. CASE job[j].kind = "track"
  <2>. DEFINE r == [job[j] EXCEPT !.pc = "read"]
  <2>1. Goes(j, r, "read") /\ r \in Job
    BY Kinds, GoToFields DEF Goes, DatabaseSteps
  <2>2. Turn(j, r)
    BY <1>1, <1>2 DEF Unmark, Turn, Continues
  <2>. HIDE DEF r
  <2>3. Sound(j, r)
    BY <1>2, <2>1, Kinds DEF Goes, Sound, DatabaseSteps
  <2>. QED
    BY <1>1, <1>2, <2>1, <2>2, <2>3
<1>3. CASE job[j].kind # "track"
  <2>1. Turn(j, IdleJob)
    BY <1>1, <1>3 DEF Unmark, Turn, Continues
  <2>. QED
    BY <1>1, <2>1, IdleIsSound
<1>. QED
  BY <1>2, <1>3

LEMMA SremTurns ==
  ASSUME BaseInv, NEW j \in Jobs, Srem(j)
  PROVE  \E r \in Job : Turn(j, r) /\ Sound(j, r) /\ job[j].pc = "srem" /\ Goes(j, r, "del")
<1>1. /\ job[j].pc = "srem" /\ queue # <<>> /\ Head(queue) = j
      /\ GoTo(j, "del") /\ "del" \in RedisSteps
  BY DEF Srem, Answer, RedisSteps
<1>. PICK r \in Job : Turn(j, r) /\ Goes(j, r, "del")
  BY <1>1, GoToTurns
<1>2. Sound(j, r)
  BY <1>1, GoesIsSound DEF RemoveSteps
<1>. QED
  BY <1>1, <1>2

LEMMA DelTurns ==
  ASSUME BaseInv, NEW j \in Jobs, Del(j)
  PROVE  \E r \in Job : Turn(j, r) /\ Sound(j, r) /\ job[j].pc = "del" /\ Goes(j, r, "zrem")
<1>1. /\ job[j].pc = "del" /\ queue # <<>> /\ Head(queue) = j
      /\ GoTo(j, "zrem") /\ "zrem" \in RedisSteps
  BY DEF Del, Answer, RedisSteps
<1>. PICK r \in Job : Turn(j, r) /\ Goes(j, r, "zrem")
  BY <1>1, GoToTurns
<1>2. Sound(j, r)
  BY <1>1, GoesIsSound DEF RemoveSteps
<1>. QED
  BY <1>1, <1>2

(* The sweep's job j goes on with record r: every user affected is still    *)
(* to be counted, and it works on a connection it has listed before.        *)
Visits(j, r) ==
    /\ j \in Sweeps
    /\ r.kind = "sweep"
    /\ r.pc \in {"srem", "scard", "candidates"}
    /\ \A u \in job[j].users : u \in r.users \/ (r.pc = "scard" /\ r.user = u)
    /\ r.ready = {}
    /\ r.conn = job[j].conn \/ r.conn \in job[j].expired
    /\ r.expired \subseteq job[j].expired

LEMMA VisitTurns ==
  ASSUME BaseInv, NEW j \in Jobs, queue # <<>>, Head(queue) = j, job[j].kind = "sweep",
         job[j].pc \in RemoveSteps \cup CountSteps,
         \E r \in Visit(job[j]) : Proceed(j, r)
  PROVE  \E r \in Job : Turn(j, r) /\ Sound(j, r) /\ Visits(j, r)
<1>1. job[j] \in Job /\ Sound(j, job[j]) /\ job[j].due = {} /\ job[j].ready = {}
  BY Kinds DEF Sound
<1>2. j \in Sweeps
  BY <1>1 DEF Sound, Jobs
<1>. PICK r \in Visit(job[j]) : Proceed(j, r)
  OBVIOUS
<1>3. r \in Job /\ Sound(j, r) /\ Visits(j, r)
  BY <1>1, <1>2, VisitSound DEF Visits
<1>4. Turn(j, r)
  BY DEF Turn, Continues
<1>. QED
  BY <1>3, <1>4

LEMMA ZremTurns ==
  ASSUME BaseInv, NEW j \in Jobs, Zrem(j)
  PROVE  \E r \in Job : /\ Turn(j, r) /\ Sound(j, r) /\ job[j].pc = "zrem"
                        /\ \/ job[j].kind = "drop" /\ Goes(j, r, "scard")
                           \/ job[j].kind = "sweep" /\ Visits(j, r)
<1>1. job[j].pc = "zrem" /\ queue # <<>> /\ Head(queue) = j
  BY DEF Zrem, Answer
<1>2. CASE job[j].kind = "drop" /\ GoTo(j, "scard")
  <2>1. "scard" \in RedisSteps
    BY DEF RedisSteps
  <2>. PICK r \in Job : Turn(j, r) /\ Goes(j, r, "scard")
    BY <1>1, <1>2, <2>1, GoToTurns
  <2>2. Sound(j, r)
    BY <1>1, <1>2, <2>1, GoesIsSound DEF CountSteps
  <2>. QED
    BY <1>1, <1>2, <2>2
<1>3. CASE job[j].kind = "sweep" /\ \E r \in Visit(job[j]) : Proceed(j, r)
  BY <1>1, <1>3, VisitTurns DEF RemoveSteps
<1>. QED
  BY <1>2, <1>3 DEF Zrem

LEMMA LeaveTurns ==
  ASSUME BaseInv, NEW j \in Jobs, queue # <<>>, Head(queue) = j, job[j].pc \in CountSteps, Leave(j)
  PROVE  \E r \in Job : /\ Turn(j, r) /\ Sound(j, r)
                        /\ \/ job[j].kind = "drop" /\ r = IdleJob
                           \/ job[j].kind = "sweep" /\ Visits(j, r)
<1>1. CASE job[j].kind = "drop" /\ Proceed(j, IdleJob)
  <2>1. Turn(j, IdleJob)
    BY <1>1 DEF Turn, Continues
  <2>. QED
    BY <1>1, <2>1, IdleIsSound
<1>2. CASE job[j].kind = "sweep" /\ \E r \in Visit(job[j]) : Proceed(j, r)
  BY <1>2, VisitTurns
<1>. QED
  BY <1>1, <1>2 DEF Leave

LEMMA ScardTurns ==
  ASSUME BaseInv, NEW j \in Jobs, Scard(j)
  PROVE  \E r \in Job :
           /\ Turn(j, r) /\ Sound(j, r) /\ job[j].pc = "scard"
           /\ \/ Goes(j, r, "mark")
              \/ /\ tracked[job[j].user] # {}
                 /\ \/ job[j].kind = "drop" /\ r = IdleJob
                    \/ job[j].kind = "sweep" /\ Visits(j, r)
<1>1. job[j].pc = "scard" /\ queue # <<>> /\ Head(queue) = j
  BY DEF Scard, Answer
<1>2. CASE tracked[job[j].user] = {} /\ GoTo(j, "mark")
  <2>1. "mark" \in RedisSteps
    BY DEF RedisSteps
  <2>. PICK r \in Job : Turn(j, r) /\ Goes(j, r, "mark")
    BY <1>1, <1>2, <2>1, GoToTurns
  <2>2. Sound(j, r)
    BY <1>1, <2>1, GoesIsSound
  <2>. QED
    BY <1>1, <2>2
<1>3. CASE tracked[job[j].user] # {} /\ Leave(j)
  BY <1>1, <1>3, LeaveTurns DEF CountSteps
<1>. QED
  BY <1>2, <1>3 DEF Scard

LEMMA MarkTurns ==
  ASSUME BaseInv, NEW j \in Jobs, Mark(j)
  PROVE  \E r \in Job : /\ Turn(j, r) /\ Sound(j, r) /\ job[j].pc = "mark"
                        /\ \/ job[j].kind = "drop" /\ r = IdleJob
                           \/ job[j].kind = "sweep" /\ Visits(j, r)
BY LeaveTurns DEF Mark, Answer, CountSteps

LEMMA SweepExpiredTurns ==
  ASSUME BaseInv, NEW s \in Sweeps, SweepExpired(s)
  PROVE  \E r \in Job :
           /\ Turn(s, r) /\ Sound(s, r) /\ job[s].pc = "expired"
           /\ r.kind = "sweep" /\ r.pc \in {"srem", "scard", "candidates"} /\ r.ready = {}
           /\ \A c \in r.expired \cup {r.conn} : expiration[c] = "due" \/ c = job[s].conn
<1>. DEFINE q == [job[s] EXCEPT !.expired = {c \in Connections : expiration[c] = "due"}]
<1>1. /\ job[s].pc = "expired" /\ queue # <<>> /\ Head(queue) = s
      /\ \E r \in Visit(q) : Proceed(s, r)
  BY DEF SweepExpired, Answer
<1>2. s \in Jobs /\ job[s] \in Job /\ job[s].kind = "sweep" /\ job[s].due = {} /\ job[s].ready = {}
  BY <1>1, Kinds DEF Jobs, Sound
<1>3. /\ q \in Job /\ q.kind = "sweep" /\ q.due = {} /\ q.ready = {} /\ q.conn = job[s].conn
      /\ q.expired = {c \in Connections : expiration[c] = "due"}
  BY <1>2 DEF Job
<1>. HIDE DEF q
<1>. PICK r \in Visit(q) : Proceed(s, r)
  BY <1>1
<1>4. /\ r \in Job /\ Sound(s, r) /\ r.kind = "sweep"
      /\ r.pc \in {"srem", "scard", "candidates"} /\ r.ready = {}
      /\ r.conn = q.conn \/ r.conn \in q.expired
      /\ r.expired \subseteq q.expired
  BY <1>3, VisitSound
<1>5. Turn(s, r)
  BY <1>1 DEF Turn, Continues
<1>. QED
  BY <1>1, <1>3, <1>4, <1>5

(* The sweep's job j goes on with record r: it still has to put offline     *)
(* whom it had to.                                                          *)
VisitsCandidate(j, r) ==
    /\ j \in Sweeps
    /\ r.pc \in {"count", "read", "idle"}
    /\ \A u \in job[j].ready : u \in r.ready \/ (r.kind = "sweep" /\ r.pc = "read" /\ r.user = u)
    /\ r.expired = {} /\ r.users = {}
    /\ r.conn \in {job[j].conn, None}

LEMMA SweepCandidatesTurns ==
  ASSUME BaseInv, NEW s \in Sweeps, SweepCandidates(s)
  PROVE  \E r \in Job : /\ Turn(s, r) /\ Sound(s, r) /\ job[s].pc = "candidates"
                        /\ VisitsCandidate(s, r)
<1>. DEFINE q == [job[s] EXCEPT !.due = {u \in Users : candidate[u] = "due"}]
<1>1. /\ job[s].pc = "candidates" /\ queue # <<>> /\ Head(queue) = s
      /\ \E r \in VisitCandidate(q) : Proceed(s, r)
  BY DEF SweepCandidates, Answer
<1>2. /\ s \in Jobs /\ job[s] \in Job /\ job[s].kind = "sweep"
      /\ job[s].expired = {} /\ job[s].users = {}
  BY <1>1, Kinds DEF Jobs, Sound, CandidateSteps
<1>3. /\ q \in Job /\ q.kind = "sweep" /\ q.expired = {} /\ q.users = {}
      /\ q.conn = job[s].conn /\ q.ready = job[s].ready
  BY <1>2 DEF Job
<1>. HIDE DEF q
<1>. PICK r \in VisitCandidate(q) : Proceed(s, r)
  BY <1>1
<1>4. r \in Job /\ Sound(s, r) /\ VisitsCandidate(s, r)
  BY <1>3, VisitCandidateSound DEF VisitsCandidate
<1>5. Turn(s, r)
  BY <1>1 DEF Turn, Continues
<1>. QED
  BY <1>1, <1>4, <1>5

LEMMA SweepCountTurns ==
  ASSUME BaseInv, NEW s \in Sweeps, SweepCount(s)
  PROVE  \E r \in Job :
           /\ Turn(s, r) /\ Sound(s, r) /\ job[s].pc = "count" /\ job[s].user \in Users
           /\ r.kind = "sweep" /\ r.pc = "remove" /\ r.user = job[s].user /\ r.conn = job[s].conn
           /\ r.expired = {} /\ r.users = {} /\ job[s].users = {}
           /\ job[s].ready \subseteq r.ready
           /\ tracked[r.user] # {} \/ r.user \in r.ready
<1>. DEFINE u == job[s].user
            ready == IF tracked[u] = {} THEN job[s].ready \cup {u} ELSE job[s].ready
            r == [job[s] EXCEPT !.pc = "remove", !.ready = ready]
<1>1. job[s].pc = "count" /\ queue # <<>> /\ Head(queue) = s /\ Proceed(s, r)
  BY DEF SweepCount, Answer
<1>2. /\ s \in Jobs /\ job[s] \in Job /\ job[s].kind = "sweep" /\ u \in Users
      /\ job[s].expired = {} /\ job[s].users = {}
  BY <1>1, Kinds DEF Jobs, Sound, CandidateSteps
<1>3. ready \in SUBSET Users
  BY <1>2 DEF Job
<1>4. job[s].ready \subseteq ready /\ (tracked[u] # {} \/ u \in ready)
  OBVIOUS
<1>5. Turn(s, r)
  BY <1>1 DEF Turn, Continues
<1>. HIDE DEF ready
<1>6. /\ r.kind = "sweep" /\ r.pc = "remove" /\ r.user = u /\ r.conn = job[s].conn
      /\ r.expired = {} /\ r.users = {} /\ r.due = job[s].due /\ r.ready = ready
  BY <1>2 DEF Job
<1>7. r \in Job
  BY <1>2, <1>3 DEF Job, RedisSteps
<1>. HIDE DEF r
<1>8. Sound(s, r)
  <2>. s \notin Handlers
    BY ConstantsAssumption
  <2>. QED
    BY <1>2, <1>6
       DEF Sound, StoreSteps, RemoveSteps, CountSteps, CandidateSteps, DatabaseSteps
<1>. QED
  BY <1>1, <1>2, <1>4, <1>5, <1>6, <1>7, <1>8

LEMMA SweepRemoveTurns ==
  ASSUME BaseInv, NEW s \in Sweeps, SweepRemove(s)
  PROVE  \E r \in Job : /\ Turn(s, r) /\ Sound(s, r) /\ job[s].pc = "remove"
                        /\ job[s].kind = "sweep" /\ job[s].user \in Users /\ job[s].users = {}
                        /\ VisitsCandidate(s, r)
<1>1. /\ job[s].pc = "remove" /\ queue # <<>> /\ Head(queue) = s
      /\ \E r \in VisitCandidate(job[s]) : Proceed(s, r)
  BY DEF SweepRemove, Answer
<1>2. /\ s \in Jobs /\ job[s] \in Job /\ job[s].kind = "sweep" /\ job[s].user \in Users
      /\ job[s].expired = {} /\ job[s].users = {}
  BY <1>1, Kinds DEF Jobs, Sound, CandidateSteps
<1>. PICK r \in VisitCandidate(job[s]) : Proceed(s, r)
  BY <1>1
<1>4. r \in Job /\ Sound(s, r) /\ VisitsCandidate(s, r)
  BY <1>2, VisitCandidateSound DEF VisitsCandidate
<1>5. Turn(s, r)
  BY <1>1 DEF Turn, Continues
<1>. QED
  BY <1>1, <1>2, <1>4, <1>5

(* The end of a job's work on the status of a user. *)
LEMMA AfterStatusTurns ==
  ASSUME BaseInv, NEW j \in Jobs, job[j].pc \in DatabaseSteps,
         \E r \in AfterStatus(job[j]) : ProceedUnqueued(j, r)
  PROVE  \E r \in Job : /\ Turn(j, r) /\ Sound(j, r) /\ job[j].user \in Users /\ job[j].users = {}
                        /\ \/ job[j].kind = "track" /\ r = IdleJob
                           \/ job[j].kind = "sweep" /\ VisitsCandidate(j, r)
<1>. PICK r \in AfterStatus(job[j]) : ProceedUnqueued(j, r)
  OBVIOUS
<1>1. job[j] \in Job /\ Sound(j, job[j])
  BY Kinds
<1>2. CASE job[j].kind = "track"
  <2>1. r = IdleJob /\ IdleJob.pc \notin RedisSteps
    BY <1>2, StepsDiffer, IdleIsSound DEF AfterStatus
  <2>2. Turn(j, r)
    BY <2>1 DEF Turn, Resumes
  <2>3. job[j].user \in Users /\ job[j].users = {}
    BY <1>1, <1>2, ConstantsAssumption DEF Sound
  <2>. QED
    BY <1>2, <2>1, <2>2, <2>3, IdleIsSound
<1>3. CASE job[j].kind = "sweep"
  <2>1. /\ job[j].expired = {} /\ job[j].users = {} /\ job[j].due = {} /\ job[j].user \in Users
        /\ j \in Sweeps
    BY <1>1, <1>3 DEF Sound, Jobs, CandidateSteps, DatabaseSteps
  <2>2. r \in VisitCandidate(job[j])
    BY <1>3 DEF AfterStatus
  <2>3. /\ r \in Job /\ Sound(j, r) /\ r.pc \in {"count", "read", "idle"} /\ r.pc # "count"
        /\ VisitsCandidate(j, r)
    BY <1>1, <1>3, <2>1, <2>2, VisitCandidateSound DEF VisitsCandidate
  <2>4. Turn(j, r)
    <3>. r.pc \notin RedisSteps
      BY <2>3 DEF RedisSteps
    <3>. QED
      BY DEF Turn, Resumes
  <2>. QED
    BY <1>3, <2>1, <2>3, <2>4
<1>. QED
  BY <1>2, <1>3, Kinds

LEMMA ReadStatusTurns ==
  ASSUME BaseInv, NEW j \in Jobs, ReadStatus(j)
  PROVE  \E r \in Job : /\ Turn(j, r) /\ Sound(j, r) /\ job[j].pc = "read"
                        /\ job[j].user \in Users /\ job[j].users = {}
                        /\ \/ Goes(j, r, "write")
                           \/ job[j].kind = "track" /\ r = IdleJob
                           \/ /\ job[j].kind = "sweep" /\ VisitsCandidate(j, r)
                              /\ status[job[j].user] = "offline"
<1>1. job[j].pc = "read" /\ job[j].pc \in DatabaseSteps
  BY DEF ReadStatus, DatabaseSteps
<1>2. CASE Concerns(j)
  <2>. DEFINE r == [job[j] EXCEPT !.pc = "write"]
  <2>1. Goes(j, r, "write") /\ r \in Job
    BY Kinds, GoToFields DEF Goes, DatabaseSteps
  <2>2. ProceedUnqueued(j, r)
    BY <1>2 DEF ReadStatus
  <2>. HIDE DEF r
  <2>3. Sound(j, r)
    BY <1>1, <2>1, Kinds
       DEF Goes, Sound, StoreSteps, RemoveSteps, CountSteps, CandidateSteps, DatabaseSteps
  <2>4. Turn(j, r)
    <3>. r.pc \notin RedisSteps
      BY <2>1 DEF Goes, RedisSteps
    <3>. QED
      BY <1>1, <2>2 DEF Turn, Resumes
  <2>5. job[j].user \in Users /\ job[j].users = {}
    <3>1. job[j].kind \in {"track", "sweep"} /\ Sound(j, job[j])
      BY <1>1, Kinds
    <3>2. CASE job[j].kind = "track"
      BY <3>1, <3>2, ConstantsAssumption DEF Sound
    <3>3. CASE job[j].kind = "sweep"
      BY <1>1, <3>1, <3>3 DEF Sound, CandidateSteps, DatabaseSteps
    <3>. QED
      BY <3>1, <3>2, <3>3
  <2>. QED
    BY <1>1, <2>1, <2>3, <2>4, <2>5
<1>3. CASE ~Concerns(j)
  <2>1. \E r \in AfterStatus(job[j]) : ProceedUnqueued(j, r)
    BY <1>3 DEF ReadStatus
  <2>. PICK r \in Job : /\ Turn(j, r) /\ Sound(j, r) /\ job[j].user \in Users /\ job[j].users = {}
                        /\ \/ job[j].kind = "track" /\ r = IdleJob
                           \/ job[j].kind = "sweep" /\ VisitsCandidate(j, r)
    BY <1>1, <2>1, AfterStatusTurns
  <2>2. job[j].kind = "sweep" => status[job[j].user] = "offline"
    BY <1>3 DEF Concerns
  <2>. QED
    BY <1>1, <2>2
<1>. QED
  BY <1>2, <1>3

(* A handler or a sweep begins. *)
LEMMA AcceptTurns ==
  ASSUME BaseInv, NEW h \in Handlers, NEW c \in Connections, Accept(h, c)
  PROVE  \E r \in Job :
           /\ Turn(h, r) /\ Sound(h, r)
           /\ job[h].pc = "idle" /\ r.pc = "set" /\ r.conn = c
           /\ r.kind = "track" /\ r.expired = {}
<1>1. Start(h, "track", "set", c) /\ h \in Jobs /\ h \notin Sweeps /\ c # None /\ "set" \in RedisSteps
  BY ConstantsAssumption DEF Accept, Jobs, RedisSteps
<1>. PICK r \in Job :
       /\ Turn(h, r)
       /\ r.kind = "track" /\ r.pc = "set" /\ r.conn = c
       /\ r.user = IF c = None THEN None ELSE Owner[c]
       /\ r.expired = {} /\ r.users = {} /\ r.due = {} /\ r.ready = {}
  BY <1>1, StartTurns
<1>2. Sound(h, r)
  BY <1>1 DEF Sound, StoreSteps
<1>. QED
  BY <1>1, <1>2 DEF Start

LEMMA HeartbeatTurns ==
  ASSUME BaseInv, NEW h \in Handlers, NEW c \in Connections, Heartbeat(h, c)
  PROVE  \E r \in Job :
           /\ Turn(h, r) /\ Sound(h, r)
           /\ job[h].pc = "idle" /\ r.pc = "set" /\ r.conn = c
           /\ r.kind = "beat" /\ r.expired = {}
<1>1. Start(h, "beat", "set", c) /\ h \in Jobs /\ h \notin Sweeps /\ c # None /\ "set" \in RedisSteps
  BY ConstantsAssumption DEF Heartbeat, Jobs, RedisSteps
<1>. PICK r \in Job :
       /\ Turn(h, r)
       /\ r.kind = "beat" /\ r.pc = "set" /\ r.conn = c
       /\ r.user = IF c = None THEN None ELSE Owner[c]
       /\ r.expired = {} /\ r.users = {} /\ r.due = {} /\ r.ready = {}
  BY <1>1, StartTurns
<1>2. Sound(h, r)
  BY <1>1 DEF Sound, StoreSteps
<1>. QED
  BY <1>1, <1>2 DEF Start

LEMMA DisconnectTurns ==
  ASSUME BaseInv, NEW h \in Handlers, NEW c \in Connections, Disconnect(h, c)
  PROVE  \E r \in Job :
           /\ Turn(h, r) /\ Sound(h, r)
           /\ job[h].pc = "idle" /\ r.pc = "srem" /\ r.conn = c
           /\ r.kind = "drop" /\ r.expired = {}
<1>1. Start(h, "drop", "srem", c) /\ h \in Jobs /\ h \notin Sweeps /\ c # None /\ "srem" \in RedisSteps
  BY ConstantsAssumption DEF Disconnect, Jobs, RedisSteps
<1>. PICK r \in Job :
       /\ Turn(h, r)
       /\ r.kind = "drop" /\ r.pc = "srem" /\ r.conn = c
       /\ r.user = IF c = None THEN None ELSE Owner[c]
       /\ r.expired = {} /\ r.users = {} /\ r.due = {} /\ r.ready = {}
  BY <1>1, StartTurns
<1>2. Sound(h, r)
  BY <1>1 DEF Sound, RemoveSteps
<1>. QED
  BY <1>1, <1>2 DEF Start

LEMMA SweepStartTurns ==
  ASSUME BaseInv, NEW s \in Sweeps, SweepStart(s)
  PROVE  \E r \in Job :
           /\ Turn(s, r) /\ Sound(s, r)
           /\ job[s].pc = "idle" /\ r.pc = "expired" /\ r.conn = None
           /\ r.kind = "sweep" /\ r.expired = {}
<1>1. /\ Start(s, "sweep", "expired", None) /\ s \in Jobs /\ s \notin Handlers
      /\ "expired" \in RedisSteps
  BY ConstantsAssumption DEF SweepStart, Jobs, RedisSteps
<1>. PICK r \in Job :
       /\ Turn(s, r)
       /\ r.kind = "sweep" /\ r.pc = "expired" /\ r.conn = None
       /\ r.expired = {} /\ r.users = {} /\ r.due = {} /\ r.ready = {}
  BY <1>1, StartTurns
<1>2. Sound(s, r)
  BY <1>1 DEF Sound, StoreSteps, RemoveSteps, CountSteps, CandidateSteps, DatabaseSteps
<1>. QED
  BY <1>1, <1>2 DEF Start

-----------------------------------------------------------------------------
(* Types, jobs and the queue.                                               *)

(* Events of sockets, and requests. *)
SocketStep ==
    \/ SocketEvent
    \/ \E h \in Handlers, c \in Connections : Disconnect(h, c)
    \/ \E u \in Users, s \in Desired : UpdatePresence(u, s)

(* The steps that move no job. *)
Still == UNCHANGED <<queue, job>>

LEMMA StillIsSound ==
  ASSUME BaseInv, Still,
         socket' \in [Connections -> Phases],
         status' \in [Users -> Statuses],
         tracked' \in [Users -> SUBSET Connections],
         expiration' \in [Connections -> Score],
         candidate' \in [Users -> Score]
  PROVE  BaseInv'
BY DEF BaseInv, Still, ProgramTypeOK, JobInv, QueueInv

LEMMA StoreTyped ==
  ASSUME BaseInv, NEW j \in Jobs, job[j].pc \in StoreSteps
  PROVE  /\ job[j].kind \in {"track", "beat"}
         /\ job[j].conn \in Connections /\ job[j].user = Owner[job[j].conn] /\ job[j].user \in Users
         /\ job[j].expired = {} /\ job[j].users = {} /\ job[j].ready = {}
BY Kinds, ConstantsAssumption DEF Sound

LEMMA RemoveTyped ==
  ASSUME BaseInv, NEW j \in Jobs, job[j].pc \in RemoveSteps
  PROVE  /\ job[j].conn \in Connections /\ Owner[job[j].conn] \in Users
         /\ job[j].ready = {}
         /\ \/ job[j].kind = "drop" /\ job[j].user = Owner[job[j].conn] /\ job[j].users = {}
                                    /\ job[j].expired = {}
            \/ job[j].kind = "sweep" /\ Owner[job[j].conn] \in job[j].users
<1>1. Sound(j, job[j]) /\ job[j].kind \in {"drop", "sweep"}
  BY Kinds
<1>2. job[j].conn \in Connections /\ job[j].ready = {}
  BY <1>1 DEF Sound
<1>. QED
  BY <1>1, <1>2, ConstantsAssumption DEF Sound

LEMMA CountTyped ==
  ASSUME BaseInv, NEW j \in Jobs, job[j].pc \in CountSteps
  PROVE  /\ job[j].user \in Users /\ job[j].ready = {} /\ job[j].expired = {}
         /\ job[j].kind = "drop" => job[j].users = {}
BY Kinds, ConstantsAssumption DEF Sound

LEMMA StoreBase ==
  ASSUME BaseInv, NEW j \in Jobs, StoreStep(j)
  PROVE  BaseInv'
<1>. ProgramTypeOK
  BY DEF BaseInv
<1>1. CASE Set(j)
  BY <1>1, SetTurns, TurnIsSound DEF Set, redis, ProgramTypeOK
<1>2. CASE Sadd(j)
  <2>. job[j].conn \in Connections /\ job[j].user \in Users
    BY <1>2, StoreTyped DEF Sadd, Answer, StoreSteps
  <2>. tracked' \in [Users -> SUBSET Connections]
    BY <1>2 DEF Sadd, ProgramTypeOK
  <2>. QED
    BY <1>2, SaddTurns, TurnIsSound DEF Sadd, ProgramTypeOK
<1>3. CASE Zadd(j)
  <2>. expiration' \in [Connections -> Score]
    BY <1>3 DEF Zadd, ProgramTypeOK, Score
  <2>. QED
    BY <1>3, ZaddTurns, TurnIsSound DEF Zadd, ProgramTypeOK
<1>4. CASE Unmark(j)
  <2>. candidate' \in [Users -> Score]
    BY <1>4 DEF Unmark, ProgramTypeOK, Score
  <2>. QED
    BY <1>4, UnmarkTurns, TurnIsSound DEF Unmark, ProgramTypeOK
<1>. QED
  BY <1>1, <1>2, <1>3, <1>4 DEF StoreStep

LEMMA DropBase ==
  ASSUME BaseInv, NEW j \in Jobs, DropStep(j)
  PROVE  BaseInv'
<1>. ProgramTypeOK
  BY DEF BaseInv
<1>1. CASE Srem(j)
  <2>. Owner[job[j].conn] \in Users
    BY <1>1, RemoveTyped DEF Srem, Answer, RemoveSteps
  <2>. tracked' \in [Users -> SUBSET Connections]
    BY <1>1 DEF Srem, ProgramTypeOK
  <2>. QED
    BY <1>1, SremTurns, TurnIsSound DEF Srem, ProgramTypeOK
<1>2. CASE Del(j)
  BY <1>2, DelTurns, TurnIsSound DEF Del, redis, ProgramTypeOK
<1>3. CASE Zrem(j)
  <2>. expiration' \in [Connections -> Score]
    BY <1>3 DEF Zrem, ProgramTypeOK, Score
  <2>. QED
    BY <1>3, ZremTurns, TurnIsSound DEF Zrem, ProgramTypeOK
<1>4. CASE Scard(j)
  BY <1>4, ScardTurns, TurnIsSound DEF Scard, redis, ProgramTypeOK
<1>5. CASE Mark(j)
  <2>. candidate' \in [Users -> Score]
    BY <1>5 DEF Mark, ProgramTypeOK, Score
  <2>. QED
    BY <1>5, MarkTurns, TurnIsSound DEF Mark, ProgramTypeOK
<1>. QED
  BY <1>1, <1>2, <1>3, <1>4, <1>5 DEF DropStep

LEMMA SweepBase ==
  ASSUME BaseInv, NEW s \in Sweeps, SweepStart(s) \/ SweepStep(s)
  PROVE  BaseInv'
<1>. ProgramTypeOK /\ s \in Jobs
  BY DEF BaseInv, Jobs
<1>1. CASE SweepStart(s)
  BY <1>1, SweepStartTurns, TurnIsSound DEF SweepStart, redis, ProgramTypeOK
<1>2. CASE SweepExpired(s)
  BY <1>2, SweepExpiredTurns, TurnIsSound DEF SweepExpired, redis, ProgramTypeOK
<1>3. CASE SweepCandidates(s)
  BY <1>3, SweepCandidatesTurns, TurnIsSound DEF SweepCandidates, redis, ProgramTypeOK
<1>4. CASE SweepCount(s)
  BY <1>4, SweepCountTurns, TurnIsSound DEF SweepCount, redis, ProgramTypeOK
<1>5. CASE SweepRemove(s)
  <2>. candidate' \in [Users -> Score]
    BY <1>5 DEF SweepRemove, ProgramTypeOK, Score
  <2>. QED
    BY <1>5, SweepRemoveTurns, TurnIsSound DEF SweepRemove, ProgramTypeOK
<1>. QED
  BY <1>1, <1>2, <1>3, <1>4, <1>5 DEF SweepStep

LEMMA StatusBase ==
  ASSUME BaseInv, NEW j \in Jobs, StatusStep(j) \/ DatabaseFails(j)
  PROVE  BaseInv'
<1>. ProgramTypeOK
  BY DEF BaseInv
<1>1. CASE ReadStatus(j)
  BY <1>1, ReadStatusTurns, TurnIsSound DEF ReadStatus, redis, ProgramTypeOK
<1>2. CASE WriteStatus(j)
  <2>. status' \in [Users -> Statuses]
    BY <1>2 DEF WriteStatus, Target, Statuses, ProgramTypeOK
  <2>. job[j].pc \in DatabaseSteps /\ \E r \in AfterStatus(job[j]) : ProceedUnqueued(j, r)
    BY <1>2 DEF WriteStatus, DatabaseSteps
  <2>. QED
    BY <1>2, AfterStatusTurns, TurnIsSound DEF WriteStatus, redis, ProgramTypeOK
<1>3. CASE DatabaseFails(j)
  BY <1>3, AfterStatusTurns, TurnIsSound DEF DatabaseFails, redis, ProgramTypeOK
<1>. QED
  BY <1>1, <1>2, <1>3 DEF StatusStep

LEMMA SocketBase ==
  ASSUME BaseInv, SocketStep \/ Restart
  PROVE  BaseInv'
<1>. ProgramTypeOK
  BY DEF BaseInv
<1>1. ASSUME NEW h \in Handlers, NEW c \in Connections,
             Accept(h, c) \/ Disconnect(h, c) \/ Heartbeat(h, c)
      PROVE  BaseInv'
  <2>. h \in Jobs
    BY DEF Jobs
  <2>1. CASE Accept(h, c)
    <3>. socket' \in [Connections -> Phases]
      BY <2>1 DEF Accept, ProgramTypeOK, Phases
    <3>. QED
      BY <2>1, AcceptTurns, TurnIsSound DEF Accept, redis, ProgramTypeOK
  <2>2. CASE Disconnect(h, c)
    <3>. socket' \in [Connections -> Phases]
      BY <2>2 DEF Disconnect, ProgramTypeOK, Phases
    <3>. QED
      BY <2>2, DisconnectTurns, TurnIsSound DEF Disconnect, redis, ProgramTypeOK
  <2>3. CASE Heartbeat(h, c)
    BY <2>3, HeartbeatTurns, TurnIsSound DEF Heartbeat, redis, ProgramTypeOK
  <2>. QED
    BY <1>1, <2>1, <2>2, <2>3
<1>2. ASSUME NEW c \in Connections, Refuse(c) \/ Lose(c)
      PROVE  BaseInv'
  <2>. socket' \in [Connections -> Phases]
    BY <1>2 DEF Refuse, Lose, ProgramTypeOK, Phases
  <2>. QED
    BY <1>2, StillIsSound DEF Refuse, Lose, Still, redis, ProgramTypeOK
<1>3. ASSUME NEW u \in Users, NEW s \in Desired, UpdatePresence(u, s)
      PROVE  BaseInv'
  <2>. status' \in [Users -> Statuses]
    BY <1>3, ConstantsAssumption DEF UpdatePresence, ProgramTypeOK
  <2>. QED
    BY <1>3, StillIsSound DEF UpdatePresence, Still, redis, ProgramTypeOK
<1>4. CASE Restart
  <2>. socket' \in [Connections -> Phases]
    BY <1>4 DEF Restart, ProgramTypeOK, Phases
  <2>. QED
    BY <1>4, StillIsSound DEF Restart, Still, redis, ProgramTypeOK
<1>. QED
  BY <1>1, <1>2, <1>3, <1>4 DEF SocketStep, SocketEvent

LEMMA TimeBase ==
  ASSUME BaseInv, TimePasses \/ UNCHANGED vars
  PROVE  BaseInv'
<1>. ProgramTypeOK
  BY DEF BaseInv
<1>1. ASSUME NEW c \in Connections, ExpirationDue(c)
      PROVE  BaseInv'
  <2>. expiration' \in [Connections -> Score]
    BY <1>1 DEF ExpirationDue, ProgramTypeOK, Score
  <2>. QED
    BY <1>1, StillIsSound DEF ExpirationDue, Still, ProgramTypeOK
<1>2. ASSUME NEW u \in Users, CandidateDue(u)
      PROVE  BaseInv'
  <2>. candidate' \in [Users -> Score]
    BY <1>2 DEF CandidateDue, ProgramTypeOK, Score
  <2>. QED
    BY <1>2, StillIsSound DEF CandidateDue, Still, ProgramTypeOK
<1>3. ASSUME NEW u \in Users, TrackedExpires(u)
      PROVE  BaseInv'
  <2>. tracked' \in [Users -> SUBSET Connections]
    BY <1>3 DEF TrackedExpires, ProgramTypeOK
  <2>. QED
    BY <1>3, StillIsSound DEF TrackedExpires, Still, ProgramTypeOK
<1>4. CASE UNCHANGED vars
  BY <1>4, StillIsSound DEF vars, program, redis, Still, ProgramTypeOK
<1>. QED
  BY <1>1, <1>2, <1>3, <1>4 DEF TimePasses

LEMMA BaseStep ==
  ASSUME BaseInv, [Next]_vars
  PROVE  BaseInv'
BY StoreBase, DropBase, SweepBase, StatusBase, SocketBase, TimeBase DEF Next, Plain, SocketStep

(* Only users are excused, and for good. *)
LEMMA ExcusedTyped ==
  ASSUME BaseInv, [Next]_vars
  PROVE  /\ excused \subseteq excused'
         /\ excused \subseteq Users => excused' \subseteq Users
<1>1. ASSUME NEW h \in Handlers, NEW c \in Connections, Disconnect(h, c)
      PROVE  excused' \in {excused, excused \cup {Owner[c]}}
  BY <1>1 DEF Disconnect, Excuse
<1>2. ASSUME NEW u \in Users, NEW s \in Desired, UpdatePresence(u, s)
      PROVE  excused' \in {excused, excused \cup {u}}
  BY <1>2 DEF UpdatePresence, Excuse
<1>3. ASSUME NEW j \in Jobs, DatabaseFails(j)
      PROVE  job[j].user \in Users /\ excused' \in {excused, excused \cup {job[j].user}}
  <2>1. job[j].pc \in DatabaseSteps
    BY <1>3 DEF DatabaseFails
  <2>2. Sound(j, job[j]) /\ job[j].kind \in {"track", "sweep"}
    BY <2>1, Kinds DEF DatabaseSteps
  <2>3. job[j].user \in Users
    BY <2>1, <2>2, ConstantsAssumption DEF Sound
  <2>. QED
    BY <1>3, <2>3 DEF DatabaseFails, Excuse
<1>4. CASE Plain /\ UNCHANGED excused
  BY <1>4
<1>5. CASE UNCHANGED vars
  BY <1>5 DEF vars
<1>. QED
  BY <1>1, <1>2, <1>3, <1>4, <1>5, ConstantsAssumption DEF Next

LEMMA BaseInit ==
  ASSUME Init
  PROVE  BaseInv
<1>1. ProgramTypeOK
  BY IdleIsSound DEF Init, ProgramTypeOK, Phases, Statuses, Score
<1>2. JobInv
  BY IdleIsSound DEF Init, JobInv
<1>3. QueueInv
  BY StepsDiffer, IdleIsSound DEF Init, QueueInv, Once, In
<1>. QED
  BY <1>1, <1>2, <1>3 DEF BaseInv

(* Whatever handlers and sweeps run at once: every job is in a state its    *)
(* handler can be in, and exactly the jobs that wait for Redis are in its   *)
(* queue, each once.                                                        *)
THEOREM TypesHold == Spec => []TypeOK
<1>. DEFINE Inv == BaseInv /\ excused \subseteq Users
<1>1. Init => Inv
  BY BaseInit DEF Init
<1>2. Inv /\ [Next]_vars => Inv'
  BY BaseStep, ExcusedTyped
<1>3. Inv => TypeOK
  BY DEF BaseInv, TypeOK
<1>. QED
  BY <1>1, <1>2, <1>3, PTL DEF Spec

-----------------------------------------------------------------------------
(* A connection in a set keeps its score or gets it back.                   *)

LEMMA TurnedJobs ==
  ASSUME BaseInv, NEW j \in Jobs, NEW r \in Job, Turned(j, r)
  PROVE  job'[j] = r /\ \A k \in Jobs : k # j => job'[k] = job[k]
BY DEF Turned, BaseInv, ProgramTypeOK

(* Job j neither begins nor ends to store a connection, nor does it begin   *)
(* to remove one that is in a set.                                          *)
LEMMA TrackedKept ==
  ASSUME BaseInv, TrackedInv, NEW j \in Jobs, NEW r \in Job, Turned(j, r),
         job[j].pc \notin {"expire", "zadd"}, r.pc \notin {"expire", "zadd", "zrem"},
         \A u \in Users : tracked'[u] \subseteq tracked[u],
         r.pc = "del" => \A u \in Users : r.conn \notin tracked'[u],
         \A c \in Connections : expiration[c] # "none" => expiration'[c] # "none" \/ Removing(j, c)
  PROVE  TrackedInv'
<1>. SUFFICES ASSUME NEW u \in Users, NEW c \in tracked'[u]
              PROVE  /\ Owner[c] = u
                     /\ Covered(c)'
                     /\ \A i \in Jobs : Removing(i, c)' =>
                          \E k \in Jobs : Storing(k, c)' /\ Behind(i, k)'
  BY DEF TrackedInv
<1>1. /\ Owner[c] = u /\ Covered(c) /\ c \in Connections
      /\ \A i \in Jobs : Removing(i, c) => \E k \in Jobs : Storing(k, c) /\ Behind(i, k)
  BY DEF TrackedInv, BaseInv, ProgramTypeOK
<1>2. job'[j] = r /\ \A k \in Jobs : k # j => job'[k] = job[k]
  BY TurnedJobs
<1>3. ASSUME NEW k \in Jobs, Storing(k, c)
      PROVE  k # j /\ Storing(k, c)'
  BY <1>2, <1>3 DEF Storing
<1>4. Covered(c)'
  <2>1. CASE expiration'[c] # "none"
    BY <2>1 DEF Covered
  <2>2. CASE expiration'[c] = "none"
    <3>1. \E k \in Jobs : Storing(k, c)
      BY <1>1, <2>2 DEF Covered
    <3>. QED
      BY <1>3, <3>1 DEF Covered
  <2>. QED
    BY <2>1, <2>2
<1>5. ASSUME NEW i \in Jobs, Removing(i, c)'
      PROVE  \E k \in Jobs : Storing(k, c)' /\ Behind(i, k)'
  <2>1. i # j /\ Removing(i, c)
    BY <1>2, <1>5 DEF Removing
  <2>. PICK k \in Jobs : Storing(k, c) /\ Behind(i, k)
    BY <1>1, <2>1
  <2>2. k # j /\ Storing(k, c)'
    BY <1>3
  <2>3. Behind(i, k)'
    BY <1>2, <2>1, <2>2 DEF Behind, Turned
  <2>. QED
    BY <2>2, <2>3
<1>. QED
  BY <1>1, <1>4, <1>5

LEMMA TrackedStill ==
  ASSUME BaseInv, TrackedInv, Still,
         \A u \in Users : tracked'[u] \subseteq tracked[u],
         \A c \in Connections : expiration[c] # "none" => expiration'[c] # "none"
  PROVE  TrackedInv'
<1>. SUFFICES ASSUME NEW u \in Users, NEW c \in tracked'[u]
              PROVE  /\ Owner[c] = u
                     /\ Covered(c)'
                     /\ \A i \in Jobs : Removing(i, c)' =>
                          \E k \in Jobs : Storing(k, c)' /\ Behind(i, k)'
  BY DEF TrackedInv
<1>1. c \in Connections /\ c \in tracked[u]
  BY DEF BaseInv, ProgramTypeOK
<1>2. job' = job /\ queue' = queue
  BY DEF Still
<1>. QED
  BY <1>1, <1>2 DEF TrackedInv, Covered, Storing, Removing, Behind, Before

(* After its SADD a job is behind whoever has sent an SREM before. *)
LEMMA TrackedSadd ==
  ASSUME BaseInv, TrackedInv, NEW j \in Jobs, Sadd(j)
  PROVE  TrackedInv'
<1>. PICK r \in Job : Turn(j, r) /\ Sound(j, r) /\ job[j].pc = "sadd" /\ Goes(j, r, "expire")
  BY SaddTurns
<1>. DEFINE d == job[j].conn
<1>1. Turned(j, r)
  BY QueueTurns
<1>2. job'[j] = r /\ \A k \in Jobs : k # j => job'[k] = job[k]
  BY <1>1, TurnedJobs
<1>3. d \in Connections /\ job[j].user = Owner[d] /\ Owner[d] \in Users
  BY StoreTyped DEF StoreSteps
<1>4. /\ expiration' = expiration
      /\ tracked' = [tracked EXCEPT ![Owner[d]] = @ \cup {d}]
      /\ tracked \in [Users -> SUBSET Connections]
  BY <1>3 DEF Sadd, BaseInv, ProgramTypeOK
<1>5. r.pc = "expire" /\ r.conn = d
  BY DEF Goes
<1>. SUFFICES ASSUME NEW u \in Users, NEW c \in tracked'[u]
              PROVE  /\ Owner[c] = u
                     /\ Covered(c)'
                     /\ \A i \in Jobs : Removing(i, c)' =>
                          \E k \in Jobs : Storing(k, c)' /\ Behind(i, k)'
  BY DEF TrackedInv
<1>6. CASE c = d
  <2>1. Owner[c] = u
    <3>1. CASE u = Owner[d]
      BY <1>6, <3>1
    <3>2. CASE u # Owner[d]
      BY <1>4, <3>2 DEF TrackedInv
    <3>. QED
      BY <3>1, <3>2
  <2>2. Storing(j, c)'
    BY <1>2, <1>5, <1>6 DEF Storing
  <2>3. ASSUME NEW i \in Jobs, Removing(i, c)'
        PROVE  Behind(i, j)'
    <3>1. i # j /\ job'[i] = job[i] /\ job[i].pc \in {"del", "zrem"}
      BY <1>2, <1>5, <2>3 DEF Removing
    <3>2. job[i].pc \in RedisSteps /\ r.pc \in RedisSteps
      BY <1>5, <3>1 DEF RedisSteps
    <3>3. Before(i, j)'
      BY <1>1, <3>1, <3>2 DEF Turned
    <3>. QED
      BY <1>2, <1>5, <3>1, <3>3 DEF Behind
  <2>. QED
    BY <2>1, <2>2, <2>3 DEF Covered
<1>7. CASE c # d
  <2>1. /\ c \in tracked[u] /\ Owner[c] = u /\ Covered(c)
        /\ \A i \in Jobs : Removing(i, c) => \E k \in Jobs : Storing(k, c) /\ Behind(i, k)
    BY <1>3, <1>4, <1>7 DEF TrackedInv
  <2>2. ASSUME NEW k \in Jobs, Storing(k, c)
        PROVE  k # j /\ Storing(k, c)'
    BY <1>2, <2>2 DEF Storing
  <2>3. Covered(c)'
    BY <1>4, <2>1, <2>2 DEF Covered
  <2>4. ASSUME NEW i \in Jobs, Removing(i, c)'
        PROVE  \E k \in Jobs : Storing(k, c)' /\ Behind(i, k)'
    <3>1. i # j /\ Removing(i, c)
      BY <1>2, <1>5, <2>4 DEF Removing
    <3>. PICK k \in Jobs : Storing(k, c) /\ Behind(i, k)
      BY <2>1, <3>1
    <3>2. k # j /\ Storing(k, c)'
      BY <2>2
    <3>3. Behind(i, k)'
      BY <1>1, <1>2, <3>1, <3>2 DEF Behind, Turned
    <3>. QED
      BY <3>2, <3>3
  <2>. QED
    BY <2>1, <2>3, <2>4
<1>. QED
  BY <1>6, <1>7

(* EXPIRE: whoever was behind stays behind, since the job that moves was    *)
(* the first and is now the last.                                           *)
LEMMA TrackedExpire ==
  ASSUME BaseInv, TrackedInv, NEW j \in Jobs, NEW r \in Job, Turned(j, r),
         job[j].pc = "expire", Goes(j, r, "zadd"), UNCHANGED redis
  PROVE  TrackedInv'
<1>2. job'[j] = r /\ \A k \in Jobs : k # j => job'[k] = job[k]
  BY TurnedJobs
<1>3. r.pc = "zadd" /\ r.conn = job[j].conn
  BY DEF Goes
<1>. SUFFICES ASSUME NEW u \in Users, NEW c \in tracked[u]
              PROVE  /\ Owner[c] = u
                     /\ Covered(c)'
                     /\ \A i \in Jobs : Removing(i, c)' =>
                          \E k \in Jobs : Storing(k, c)' /\ Behind(i, k)'
  BY DEF TrackedInv, redis
<1>4. ASSUME NEW k \in Jobs, Storing(k, c)
      PROVE  Storing(k, c)'
  BY <1>2, <1>3, <1>4 DEF Storing
<1>5. Owner[c] = u /\ Covered(c)'
  BY <1>4 DEF TrackedInv, Covered, redis
<1>6. ASSUME NEW i \in Jobs, Removing(i, c)'
      PROVE  \E k \in Jobs : Storing(k, c)' /\ Behind(i, k)'
  <2>1. i # j /\ Removing(i, c) /\ job'[i] = job[i]
    BY <1>2, <1>3, <1>6 DEF Removing
  <2>. PICK k \in Jobs : Storing(k, c) /\ Behind(i, k)
    BY <2>1 DEF TrackedInv
  <2>2. CASE k # j
    BY <1>2, <1>4, <2>1, <2>2 DEF Behind, Turned
  <2>3. CASE k = j
    <3>1. ~Before(i, j)
      BY DEF Turned
    <3>2. job[i].pc = "zrem"
      BY <2>3, <3>1 DEF Behind
    <3>3. job[i].pc \in RedisSteps /\ r.pc \in RedisSteps
      BY <1>3, <3>2 DEF RedisSteps
    <3>4. Before(i, j)'
      BY <2>1, <3>3 DEF Turned
    <3>5. Behind(i, j)'
      BY <1>2, <1>3, <2>1, <3>2, <3>4 DEF Behind
    <3>. QED
      BY <1>4, <2>3, <3>5
  <2>. QED
    BY <2>2, <2>3
<1>. QED
  BY <1>5, <1>6

(* ZADD: the job was the first in the queue, so it was behind nobody. *)
LEMMA TrackedZadd ==
  ASSUME BaseInv, TrackedInv, NEW j \in Jobs, Zadd(j)
  PROVE  TrackedInv'
<1>. PICK r \in Job : Turn(j, r) /\ Sound(j, r) /\ job[j].pc = "zadd" /\ Goes(j, r, "unmark")
  BY ZaddTurns
<1>1. Turned(j, r)
  BY QueueTurns
<1>2. job'[j] = r /\ \A k \in Jobs : k # j => job'[k] = job[k]
  BY <1>1, TurnedJobs
<1>3. r.pc = "unmark" /\ r.conn = job[j].conn
  BY DEF Goes
<1>4. /\ tracked' = tracked
      /\ expiration' = [expiration EXCEPT ![job[j].conn] = "pending"]
      /\ expiration \in [Connections -> Score]
  BY DEF Zadd, BaseInv, ProgramTypeOK
<1>. SUFFICES ASSUME NEW u \in Users, NEW c \in tracked[u]
              PROVE  /\ Owner[c] = u
                     /\ Covered(c)'
                     /\ \A i \in Jobs : Removing(i, c)' =>
                          \E k \in Jobs : Storing(k, c)' /\ Behind(i, k)'
  BY <1>4 DEF TrackedInv
<1>5. c \in Connections
  BY DEF BaseInv, ProgramTypeOK
<1>6. Owner[c] = u /\ Covered(c)'
  <2>1. CASE expiration[c] # "none"
    <3>. expiration'[c] # "none"
      BY <1>4, <1>5, <2>1
    <3>. QED
      BY DEF Covered, TrackedInv
  <2>2. CASE expiration[c] = "none"
    <3>. PICK k \in Jobs : Storing(k, c)
      BY <2>2 DEF TrackedInv, Covered
    <3>1. CASE k = j
      <4>. expiration'[c] = "pending"
        BY <1>4, <1>5, <3>1 DEF Storing
      <4>. QED
        BY DEF Covered, TrackedInv
    <3>2. CASE k # j
      <4>. Storing(k, c)'
        BY <1>2, <3>2 DEF Storing
      <4>. QED
        BY DEF Covered, TrackedInv
    <3>. QED
      BY <3>1, <3>2
  <2>. QED
    BY <2>1, <2>2
<1>7. ASSUME NEW i \in Jobs, Removing(i, c)'
      PROVE  \E k \in Jobs : Storing(k, c)' /\ Behind(i, k)'
  <2>1. i # j /\ Removing(i, c) /\ job'[i] = job[i]
    BY <1>2, <1>3, <1>7 DEF Removing
  <2>. PICK k \in Jobs : Storing(k, c) /\ Behind(i, k)
    BY <2>1 DEF TrackedInv
  <2>2. k # j
    BY <1>1 DEF Behind, Turned
  <2>. QED
    BY <1>1, <1>2, <2>1, <2>2 DEF Behind, Turned, Storing
<1>. QED
  BY <1>6, <1>7

(* DEL: whoever had sent its SADD after the SREM is behind the ZREM too. *)
LEMMA TrackedDel ==
  ASSUME BaseInv, TrackedInv, NEW j \in Jobs, Del(j)
  PROVE  TrackedInv'
<1>. PICK r \in Job : Turn(j, r) /\ Sound(j, r) /\ job[j].pc = "del" /\ Goes(j, r, "zrem")
  BY DelTurns
<1>1. Turned(j, r)
  BY QueueTurns
<1>2. job'[j] = r /\ \A k \in Jobs : k # j => job'[k] = job[k]
  BY <1>1, TurnedJobs
<1>3. r.pc = "zrem" /\ r.conn = job[j].conn
  BY DEF Goes
<1>. tracked' = tracked /\ expiration' = expiration
  BY DEF Del, redis
<1>. SUFFICES ASSUME NEW u \in Users, NEW c \in tracked[u]
              PROVE  /\ Owner[c] = u
                     /\ Covered(c)'
                     /\ \A i \in Jobs : Removing(i, c)' =>
                          \E k \in Jobs : Storing(k, c)' /\ Behind(i, k)'
  BY DEF TrackedInv
<1>4. ASSUME NEW k \in Jobs, Storing(k, c)
      PROVE  k # j /\ Storing(k, c)'
  BY <1>2, <1>4 DEF Storing
<1>5. Owner[c] = u /\ Covered(c)'
  BY <1>4 DEF TrackedInv, Covered
<1>6. ASSUME NEW i \in Jobs, Removing(i, c)'
      PROVE  \E k \in Jobs : Storing(k, c)' /\ Behind(i, k)'
  <2>1. Removing(i, c)
    BY <1>2, <1>3, <1>6 DEF Removing
  <2>. PICK k \in Jobs : Storing(k, c) /\ Behind(i, k)
    BY <2>1 DEF TrackedInv
  <2>2. k # j /\ Storing(k, c)' /\ job'[k] = job[k]
    BY <1>2, <1>4
  <2>3. CASE i = j
    <3>. job[k].pc = "expire"
      BY <2>3 DEF Behind
    <3>. QED
      BY <1>2, <1>3, <2>2, <2>3 DEF Behind
  <2>4. CASE i # j
    BY <1>1, <1>2, <2>2, <2>4 DEF Behind, Turned
  <2>. QED
    BY <2>3, <2>4
<1>. QED
  BY <1>5, <1>6

LEMMA TrackedStore ==
  ASSUME BaseInv, TrackedInv, NEW j \in Jobs, StoreStep(j)
  PROVE  TrackedInv'
<1>1. CASE Set(j)
  <2>. PICK r \in Job : /\ Turn(j, r) /\ Sound(j, r)
                        /\ \/ job[j].pc = "set" /\ Goes(j, r, "sadd")
                           \/ job[j].pc = "expire" /\ Goes(j, r, "zadd")
    BY <1>1, SetTurns
  <2>1. Turned(j, r)
    BY QueueTurns
  <2>2. CASE job[j].pc = "set" /\ Goes(j, r, "sadd")
    BY <1>1, <2>1, <2>2, TrackedKept DEF Goes, Set, redis
  <2>3. CASE job[j].pc = "expire" /\ Goes(j, r, "zadd")
    BY <1>1, <2>1, <2>3, TrackedExpire DEF Set
  <2>. QED
    BY <2>2, <2>3
<1>2. CASE Unmark(j)
  <2>. PICK r \in Job : /\ Turn(j, r) /\ Sound(j, r) /\ job[j].pc = "unmark"
                        /\ r = IdleJob \/ (job[j].kind = "track" /\ Goes(j, r, "read"))
    BY <1>2, UnmarkTurns
  <2>1. Turned(j, r) /\ r.pc \in {"idle", "read"}
    BY QueueTurns, IdleIsSound DEF Goes
  <2>. QED
    BY <1>2, <2>1, TrackedKept DEF Unmark
<1>. QED
  BY <1>1, <1>2, TrackedSadd, TrackedZadd DEF StoreStep

LEMMA TrackedDrop ==
  ASSUME BaseInv, TrackedInv, NEW j \in Jobs, DropStep(j)
  PROVE  TrackedInv'
<1>1. CASE Srem(j)
  <2>. PICK r \in Job : Turn(j, r) /\ Sound(j, r) /\ job[j].pc = "srem" /\ Goes(j, r, "del")
    BY <1>1, SremTurns
  <2>. DEFINE d == job[j].conn
  <2>1. Turned(j, r) /\ r.pc = "del" /\ r.conn = d
    BY QueueTurns DEF Goes
  <2>2. d \in Connections /\ Owner[d] \in Users
    BY RemoveTyped DEF RemoveSteps
  <2>3. /\ expiration' = expiration
        /\ tracked' = [tracked EXCEPT ![Owner[d]] = @ \ {d}]
        /\ tracked \in [Users -> SUBSET Connections]
    BY <1>1 DEF Srem, BaseInv, ProgramTypeOK
  <2>4. \A u \in Users : tracked'[u] \subseteq tracked[u]
    BY <2>2, <2>3
  <2>5. \A u \in Users : d \notin tracked'[u]
    BY <2>2, <2>3 DEF TrackedInv
  <2>. QED
    BY <2>1, <2>3, <2>4, <2>5, TrackedKept
<1>2. CASE Zrem(j)
  <2>. PICK r \in Job : /\ Turn(j, r) /\ Sound(j, r) /\ job[j].pc = "zrem"
                        /\ \/ job[j].kind = "drop" /\ Goes(j, r, "scard")
                           \/ job[j].kind = "sweep" /\ Visits(j, r)
    BY <1>2, ZremTurns
  <2>1. Turned(j, r) /\ r.pc \in {"srem", "scard", "candidates"}
    BY QueueTurns DEF Goes, Visits
  <2>2. \A c \in Connections : expiration[c] # "none" => expiration'[c] # "none" \/ Removing(j, c)
    BY <1>2 DEF Zrem, Removing, BaseInv, ProgramTypeOK
  <2>. QED
    BY <1>2, <2>1, <2>2, TrackedKept DEF Zrem
<1>3. CASE Scard(j)
  <2>. PICK r \in Job :
           /\ Turn(j, r) /\ Sound(j, r) /\ job[j].pc = "scard"
           /\ \/ Goes(j, r, "mark")
              \/ /\ tracked[job[j].user] # {}
                 /\ \/ job[j].kind = "drop" /\ r = IdleJob
                    \/ job[j].kind = "sweep" /\ Visits(j, r)
    BY <1>3, ScardTurns
  <2>1. Turned(j, r) /\ r.pc \in {"mark", "idle", "srem", "scard", "candidates"}
    BY QueueTurns, IdleIsSound DEF Goes, Visits
  <2>. QED
    BY <1>3, <2>1, TrackedKept DEF Scard, redis
<1>4. CASE Mark(j)
  <2>. PICK r \in Job : /\ Turn(j, r) /\ Sound(j, r) /\ job[j].pc = "mark"
                        /\ \/ job[j].kind = "drop" /\ r = IdleJob
                           \/ job[j].kind = "sweep" /\ Visits(j, r)
    BY <1>4, MarkTurns
  <2>1. Turned(j, r) /\ r.pc \in {"idle", "srem", "scard", "candidates"}
    BY QueueTurns, IdleIsSound DEF Visits
  <2>. QED
    BY <1>4, <2>1, TrackedKept DEF Mark
<1>. QED
  BY <1>1, <1>2, <1>3, <1>4, TrackedDel DEF DropStep

LEMMA TrackedSweep ==
  ASSUME BaseInv, TrackedInv, NEW s \in Sweeps, SweepStart(s) \/ SweepStep(s)
  PROVE  TrackedInv'
<1>. s \in Jobs
  BY DEF Jobs
<1>1. /\ \E r \in Job : /\ Turn(s, r)
                        /\ job[s].pc \notin {"expire", "zadd"}
                        /\ r.pc \notin {"expire", "zadd", "del", "zrem"}
      /\ tracked' = tracked /\ expiration' = expiration
  <2>1. CASE SweepStart(s)
    BY <2>1, SweepStartTurns DEF SweepStart, redis
  <2>2. CASE SweepExpired(s)
    BY <2>2, SweepExpiredTurns DEF SweepExpired, redis
  <2>3. CASE SweepCandidates(s)
    BY <2>3, SweepCandidatesTurns DEF SweepCandidates, VisitsCandidate, redis
  <2>4. CASE SweepCount(s)
    BY <2>4, SweepCountTurns DEF SweepCount, redis
  <2>5. CASE SweepRemove(s)
    BY <2>5, SweepRemoveTurns DEF SweepRemove, VisitsCandidate
  <2>. QED
    BY <2>1, <2>2, <2>3, <2>4, <2>5 DEF SweepStep
<1>. PICK r \in Job : /\ Turn(s, r)
                      /\ job[s].pc \notin {"expire", "zadd"}
                      /\ r.pc \notin {"expire", "zadd", "del", "zrem"}
  BY <1>1
<1>. QED
  BY <1>1, QueueTurns, TrackedKept

LEMMA TrackedStatus ==
  ASSUME BaseInv, TrackedInv, NEW j \in Jobs, StatusStep(j) \/ DatabaseFails(j)
  PROVE  TrackedInv'
<1>1. /\ \E r \in Job : /\ Turn(j, r)
                        /\ job[j].pc \notin {"expire", "zadd"}
                        /\ r.pc \notin {"expire", "zadd", "del", "zrem"}
      /\ tracked' = tracked /\ expiration' = expiration
  <2>1. CASE ReadStatus(j)
    BY <2>1, ReadStatusTurns, IdleIsSound DEF ReadStatus, Goes, VisitsCandidate, redis
  <2>2. CASE WriteStatus(j) \/ DatabaseFails(j)
    <3>1. /\ job[j].pc \in DatabaseSteps /\ \E r \in AfterStatus(job[j]) : ProceedUnqueued(j, r)
          /\ tracked' = tracked /\ expiration' = expiration
      BY <2>2 DEF WriteStatus, DatabaseFails, DatabaseSteps, redis
    <3>. QED
      BY <3>1, AfterStatusTurns, IdleIsSound DEF VisitsCandidate, DatabaseSteps
  <2>. QED
    BY <2>1, <2>2 DEF StatusStep
<1>. PICK r \in Job : /\ Turn(j, r)
                      /\ job[j].pc \notin {"expire", "zadd"}
                      /\ r.pc \notin {"expire", "zadd", "del", "zrem"}
  BY <1>1
<1>. QED
  BY <1>1, QueueTurns, TrackedKept

LEMMA TrackedSocket ==
  ASSUME BaseInv, TrackedInv, SocketStep \/ Restart \/ TimePasses \/ UNCHANGED vars
  PROVE  TrackedInv'
<1>1. ASSUME NEW h \in Handlers, NEW c \in Connections,
             Accept(h, c) \/ Disconnect(h, c) \/ Heartbeat(h, c)
      PROVE  TrackedInv'
  <2>. h \in Jobs
    BY DEF Jobs
  <2>1. /\ \E r \in Job : Turn(h, r) /\ job[h].pc = "idle" /\ r.pc \in {"set", "srem"}
        /\ tracked' = tracked /\ expiration' = expiration
    BY <1>1, AcceptTurns, DisconnectTurns, HeartbeatTurns DEF Accept, Disconnect, Heartbeat, redis
  <2>. PICK r \in Job : Turn(h, r) /\ job[h].pc = "idle" /\ r.pc \in {"set", "srem"}
    BY <2>1
  <2>. QED
    BY <2>1, QueueTurns, TrackedKept
<1>2. ASSUME NEW c \in Connections, Refuse(c) \/ Lose(c)
      PROVE  TrackedInv'
  BY <1>2, TrackedStill DEF Refuse, Lose, Still, redis
<1>3. ASSUME NEW u \in Users, NEW s \in Desired, UpdatePresence(u, s)
      PROVE  TrackedInv'
  BY <1>3, TrackedStill DEF UpdatePresence, Still, redis
<1>4. CASE Restart
  BY <1>4, TrackedStill DEF Restart, Still, redis
<1>5. ASSUME NEW c \in Connections, ExpirationDue(c)
      PROVE  TrackedInv'
  <2>. \A d \in Connections : expiration[d] # "none" => expiration'[d] # "none"
    BY <1>5 DEF ExpirationDue, BaseInv, ProgramTypeOK
  <2>. QED
    BY <1>5, TrackedStill DEF ExpirationDue, Still
<1>6. ASSUME NEW u \in Users, CandidateDue(u)
      PROVE  TrackedInv'
  BY <1>6, TrackedStill DEF CandidateDue, Still
<1>7. ASSUME NEW u \in Users, TrackedExpires(u)
      PROVE  TrackedInv'
  <2>. \A v \in Users : tracked'[v] \subseteq tracked[v]
    BY <1>7 DEF TrackedExpires, BaseInv, ProgramTypeOK
  <2>. QED
    BY <1>7, TrackedStill DEF TrackedExpires, Still
<1>8. CASE UNCHANGED vars
  BY <1>8, TrackedStill DEF vars, program, Still, redis
<1>. QED
  BY <1>1, <1>2, <1>3, <1>4, <1>5, <1>6, <1>7, <1>8 DEF SocketStep, SocketEvent, TimePasses

LEMMA TrackedStep ==
  ASSUME BaseInv, TrackedInv, [Next]_vars
  PROVE  TrackedInv'
BY TrackedStore, TrackedDrop, TrackedSweep, TrackedStatus, TrackedSocket DEF Next, Plain, SocketStep

(* Whatever interleaves, and however often: storeConnection,                *)
(* markDisconnected and the sweep leave no connection in a user's set that  *)
(* the sweep could not find by its score.                                   *)
THEOREM TrackedIsScored == Spec => []TrackedHasScore
<1>1. Init => BaseInv /\ TrackedInv
  <2>. SUFFICES ASSUME Init
                PROVE  BaseInv /\ TrackedInv
    OBVIOUS
  <2>. QED
    BY BaseInit DEF Init, TrackedInv
<1>2. BaseInv /\ TrackedInv /\ [Next]_vars => (BaseInv /\ TrackedInv)'
  BY BaseStep, TrackedStep
<1>3. BaseInv /\ TrackedInv => TrackedHasScore
  BY DEF TrackedInv, Covered, TrackedHasScore
<1>. QED
  BY <1>1, <1>2, <1>3, PTL DEF Spec

-----------------------------------------------------------------------------
(* Nobody is forgotten.                                                     *)

(* A job with record r will count the connections of user u, and mark the   *)
(* user a candidate if there are none.                                      *)
WillCount(r, u) ==
    \/ u \in r.users
    \/ r.kind = "drop" /\ r.pc \in RemoveSteps /\ r.user = u
    \/ r.pc \in CountSteps /\ r.user = u

(* A sweep with record r will put user u offline. *)
WillEnd(r, u) ==
    \/ u \in r.ready
    \/ r.kind = "sweep" /\ r.pc \in DatabaseSteps /\ r.user = u

Scored(u) == \E c \in Connections : Owner[c] = u /\ Covered(c)

Known(u) ==
    \/ candidate[u] # "none"
    \/ Scored(u)
    \/ \E j \in Jobs : WillCount(job[j], u) \/ WillEnd(job[j], u)

OnlineInv == \A u \in Users \ excused : status[u] # "offline" => Known(u)

(* The next command takes the candidate away, and not to put it offline. *)
Withdraws(r) ==
    \/ r.pc = "unmark"
    \/ r.pc = "remove" /\ r.user \notin r.ready

(* By then the user has a score, or somebody has taken it away since and    *)
(* will count after that command.                                           *)
HeldInv == \A j \in Jobs : Withdraws(job[j]) =>
    \/ Scored(job[j].user)
    \/ \E i \in Jobs : Before(j, i) /\ WillCount(job[i], job[j].user)

LEMMA CandidateTyped ==
  ASSUME BaseInv, NEW j \in Jobs, job[j].pc \in CandidateSteps
  PROVE  /\ job[j].kind = "sweep" /\ job[j].users = {} /\ job[j].expired = {}
         /\ job[j].pc \in {"count", "remove"} => job[j].user \in Users
BY Kinds DEF Sound, CandidateSteps

LEMMA WithdrawsTyped ==
  ASSUME BaseInv, NEW j \in Jobs, Withdraws(job[j])
  PROVE  job[j].user \in Users /\ job[j].users = {} /\ job[j].pc \in RedisSteps
<1>1. CASE job[j].pc = "unmark"
  BY <1>1, StoreTyped DEF StoreSteps, RedisSteps
<1>2. CASE job[j].pc = "remove"
  BY <1>2, CandidateTyped DEF CandidateSteps, RedisSteps
<1>. QED
  BY <1>1, <1>2 DEF Withdraws

LEMMA TrackedIsKnown ==
  ASSUME BaseInv, TrackedInv, NEW u \in Users, tracked[u] # {}
  PROVE  Scored(u)
BY DEF TrackedInv, Scored, BaseInv, ProgramTypeOK

(* A turn loses no score, unless its job will count. *)
KeepsScores(r) == \A u \in Users :
    Scored(u) => Scored(u)' \/ (WillCount(r, u) /\ r.pc \in RedisSteps)

LEMMA HeldKept ==
  ASSUME BaseInv, HeldInv, NEW j \in Jobs, NEW r \in Job, Turned(j, r), KeepsScores(r),
         Withdraws(r) => Scored(r.user)'
  PROVE  HeldInv'
<1>1. job'[j] = r /\ \A k \in Jobs : k # j => job'[k] = job[k]
  BY TurnedJobs
<1>. SUFFICES ASSUME NEW k \in Jobs, Withdraws(job'[k])
              PROVE  \/ Scored(job[k].user)'
                     \/ \E i \in Jobs : Before(k, i)' /\ WillCount(job'[i], job'[k].user)
  BY DEF HeldInv, Withdraws, WillCount
<1>2. CASE k = j
  BY <1>1, <1>2 DEF Scored
<1>3. CASE k # j
  <2>1. Withdraws(job[k]) /\ job'[k] = job[k]
    BY <1>1, <1>3
  <2>2. job[k].user \in Users /\ job[k].pc \in RedisSteps
    BY <2>1, WithdrawsTyped
  <2>3. CASE Scored(job[k].user)
    <3>1. CASE Scored(job[k].user)'
      BY <3>1
    <3>2. CASE WillCount(r, job[k].user) /\ r.pc \in RedisSteps
      <4>. Before(k, j)'
        BY <1>3, <2>2, <3>2 DEF Turned
      <4>. QED
        BY <1>1, <2>1, <3>2
    <3>3. Scored(job[k].user)' \/ (WillCount(r, job[k].user) /\ r.pc \in RedisSteps)
      BY <2>1, <2>2, <2>3 DEF KeepsScores, Scored
    <3>. QED
      BY <3>1, <3>2, <3>3
  <2>4. CASE \E i \in Jobs : Before(k, i) /\ WillCount(job[i], job[k].user)
    <3>. PICK i \in Jobs : Before(k, i) /\ WillCount(job[i], job[k].user)
      BY <2>4
    <3>1. i # j /\ Before(k, i)'
      BY <1>3 DEF Turned
    <3>. QED
      BY <1>1, <2>1, <3>1
  <2>. QED
    BY <2>1, <2>3, <2>4 DEF HeldInv
<1>. QED
  BY <1>2, <1>3

LEMMA OnlineKept ==
  ASSUME BaseInv, OnlineInv, NEW j \in Jobs, NEW r \in Job, Turned(j, r), excused \subseteq excused', KeepsScores(r),
         \A u \in Users : WillCount(job[j], u) =>
            WillCount(r, u) \/ Scored(u)' \/ candidate'[u] # "none",
         \A u \in Users : WillEnd(job[j], u) =>
            WillEnd(r, u) \/ status'[u] = "offline" \/ u \in excused',
         \A u \in Users : candidate[u] # "none" => candidate'[u] # "none" \/ Known(u)',
         \A u \in Users : status'[u] # "offline" =>
            status[u] # "offline" \/ Known(u)' \/ u \in excused'
  PROVE  OnlineInv'
<1>1. job'[j] = r /\ \A k \in Jobs : k # j => job'[k] = job[k]
  BY TurnedJobs
<1>. SUFFICES ASSUME NEW u \in Users, u \notin excused', status'[u] # "offline"
              PROVE  Known(u)'
  BY DEF OnlineInv
<1>. u \notin excused
  OBVIOUS
<1>2. CASE status[u] = "offline"
  BY <1>2
<1>3. CASE status[u] # "offline"
  <2>1. CASE candidate[u] # "none"
    BY <2>1 DEF Known
  <2>2. CASE Scored(u)
    BY <1>1, <2>2 DEF Known, KeepsScores
  <2>3. ASSUME NEW k \in Jobs, WillCount(job[k], u) \/ WillEnd(job[k], u)
        PROVE  Known(u)'
    <3>1. CASE k # j
      <4>. WillCount(job'[k], u) \/ WillEnd(job'[k], u)
        BY <1>1, <2>3, <3>1
      <4>. QED
        BY DEF Known
    <3>2. CASE k = j
      <4>1. WillCount(r, u) \/ Scored(u)' \/ candidate'[u] # "none" \/ WillEnd(r, u)
        BY <2>3, <3>2
      <4>. QED
        BY <1>1, <4>1 DEF Known
    <3>. QED
      BY <3>1, <3>2
  <2>. QED
    BY <1>3, <2>1, <2>2, <2>3 DEF OnlineInv, Known
<1>. QED
  BY <1>2, <1>3

(* A candidate withdrawn by the job that moves is known otherwise. *)
LEMMA WithdrawnIsKnown ==
  ASSUME BaseInv, HeldInv, NEW j \in Jobs, NEW r \in Job, Turned(j, r),
         Withdraws(job[j]), KeepsScores(r), NEW u, u = job[j].user
  PROVE  Known(u)'
<1>1. job'[j] = r /\ \A k \in Jobs : k # j => job'[k] = job[k]
  BY TurnedJobs
<1>2. u \in Users
  BY WithdrawsTyped
<1>3. CASE Scored(u)
  <2>. Scored(u)' \/ WillCount(job'[j], u)
    BY <1>1, <1>2, <1>3 DEF KeepsScores
  <2>. QED
    BY DEF Known
<1>4. ASSUME NEW i \in Jobs, Before(j, i), WillCount(job[i], u)
      PROVE  Known(u)'
  <2>. i # j
    BY <1>4 DEF Turned
  <2>. WillCount(job'[i], u)
    BY <1>1, <1>4
  <2>. QED
    BY DEF Known
<1>. QED
  BY <1>3, <1>4, WithdrawsTyped DEF HeldInv

LEMMA ScoresKept ==
  ASSUME BaseInv, NEW j \in Jobs, NEW r \in Job, Turned(j, r),
         job[j].pc \notin {"expire", "zadd"},
         \A c \in Connections : expiration[c] # "none" => expiration'[c] # "none"
  PROVE  \A u \in Users : Scored(u) => Scored(u)'
<1>1. job'[j] = r /\ \A k \in Jobs : k # j => job'[k] = job[k]
  BY TurnedJobs
<1>2. ASSUME NEW c \in Connections, Covered(c)
      PROVE  Covered(c)'
  <2>1. ASSUME NEW k \in Jobs, Storing(k, c)
        PROVE  Storing(k, c)'
    BY <1>1, <2>1 DEF Storing
  <2>. QED
    BY <1>2, <2>1 DEF Covered
<1>. QED
  BY <1>2 DEF Scored

(* What the steps have to keep so that nobody is forgotten. *)
LEMMA EndKept ==
  ASSUME BaseInv, HeldInv, OnlineInv, NEW j \in Jobs, NEW r \in Job, Turned(j, r), excused \subseteq excused',
         KeepsScores(r),
         Withdraws(r) => Scored(r.user)',
         \A u \in Users : WillCount(job[j], u) =>
            WillCount(r, u) \/ Scored(u)' \/ candidate'[u] # "none",
         \A u \in Users : WillEnd(job[j], u) =>
            WillEnd(r, u) \/ status'[u] = "offline" \/ u \in excused',
         \A u \in Users : candidate[u] # "none" => candidate'[u] # "none" \/ Known(u)',
         \A u \in Users : status'[u] # "offline" =>
            status[u] # "offline" \/ Known(u)' \/ u \in excused'
  PROVE  HeldInv' /\ OnlineInv'
BY HeldKept, OnlineKept

LEMMA StoreEndsNothing ==
  ASSUME BaseInv, NEW j \in Jobs, job[j].pc \in StoreSteps \cup {"idle"}
  PROVE  \A u : ~WillCount(job[j], u) /\ ~WillEnd(job[j], u)
<1>1. CASE job[j].pc \in StoreSteps
  BY <1>1, StoreTyped DEF WillCount, WillEnd, StoreSteps, RemoveSteps, CountSteps, DatabaseSteps
<1>2. CASE job[j].pc = "idle"
  BY <1>2, Kinds, IdleIsSound DEF WillCount, WillEnd, RemoveSteps, CountSteps, DatabaseSteps
<1>. QED
  BY <1>1, <1>2

LEMMA StoreEnd ==
  ASSUME BaseInv, HeldInv, OnlineInv, excused \subseteq excused', NEW j \in Jobs, StoreStep(j)
  PROVE  HeldInv' /\ OnlineInv'
<1>1. CASE Set(j)
  <2>. PICK r \in Job : /\ Turn(j, r) /\ Sound(j, r)
                        /\ \/ job[j].pc = "set" /\ Goes(j, r, "sadd")
                           \/ job[j].pc = "expire" /\ Goes(j, r, "zadd")
    BY <1>1, SetTurns
  <2>1. Turned(j, r) /\ status' = status /\ candidate' = candidate /\ expiration' = expiration
    BY <1>1, QueueTurns DEF Set, redis
  <2>2. \A u \in Users : Scored(u) => Scored(u)'
    <3>1. CASE job[j].pc = "set"
      BY <2>1, <3>1, ScoresKept
    <3>2. CASE Goes(j, r, "zadd") /\ job[j].pc = "expire"
      <4>1. ASSUME NEW k \in Jobs, NEW c \in Connections, Storing(k, c)
            PROVE  Storing(k, c)'
        BY <2>1, <3>2, <4>1, TurnedJobs DEF Storing, Goes
      <4>. QED
        BY <2>1, <4>1 DEF Scored, Covered
    <3>. QED
      BY <3>1, <3>2
  <2>3. ~Withdraws(r) /\ job[j].pc \in StoreSteps
    BY DEF Withdraws, Goes, StoreSteps
  <2>4. KeepsScores(r)
    BY <2>2 DEF KeepsScores
  <2>. QED
    BY <2>1, <2>3, <2>4, StoreEndsNothing, EndKept
<1>2. CASE Sadd(j)
  <2>. PICK r \in Job : Turn(j, r) /\ Sound(j, r) /\ job[j].pc = "sadd" /\ Goes(j, r, "expire")
    BY <1>2, SaddTurns
  <2>1. Turned(j, r) /\ status' = status /\ candidate' = candidate /\ expiration' = expiration
    BY <1>2, QueueTurns DEF Sadd
  <2>2. KeepsScores(r)
    BY <2>1, ScoresKept DEF KeepsScores
  <2>3. ~Withdraws(r) /\ job[j].pc \in StoreSteps
    BY DEF Withdraws, Goes, StoreSteps
  <2>. QED
    BY <2>1, <2>2, <2>3, StoreEndsNothing, EndKept
<1>3. CASE Zadd(j)
  <2>. PICK r \in Job : Turn(j, r) /\ Sound(j, r) /\ job[j].pc = "zadd" /\ Goes(j, r, "unmark")
    BY <1>3, ZaddTurns
  <2>. DEFINE d == job[j].conn
  <2>1. Turned(j, r) /\ status' = status /\ candidate' = candidate
    BY <1>3, QueueTurns DEF Zadd
  <2>2. job[j].pc \in StoreSteps
    BY DEF StoreSteps
  <2>3. d \in Connections /\ r.user = Owner[d]
    BY <2>2, StoreTyped DEF Goes
  <2>4. /\ expiration'[d] = "pending"
        /\ \A c \in Connections : c # d => expiration'[c] = expiration[c]
    BY <1>3, <2>3 DEF Zadd, BaseInv, ProgramTypeOK
  <2>5. ASSUME NEW c \in Connections, Covered(c)
        PROVE  Covered(c)'
    <3>1. ASSUME NEW k \in Jobs, Storing(k, c), c # d
          PROVE  Storing(k, c)'
      BY <2>1, <3>1, TurnedJobs DEF Storing
    <3>. QED
      BY <2>4, <2>5, <3>1 DEF Covered
  <2>6. KeepsScores(r)
    BY <2>5 DEF KeepsScores, Scored
  <2>7. Scored(r.user)'
    BY <2>3, <2>4 DEF Scored, Covered
  <2>. QED
    BY <2>1, <2>2, <2>6, <2>7, StoreEndsNothing, EndKept
<1>4. CASE Unmark(j)
  <2>. PICK r \in Job : /\ Turn(j, r) /\ Sound(j, r) /\ job[j].pc = "unmark"
                        /\ r = IdleJob \/ (job[j].kind = "track" /\ Goes(j, r, "read"))
    BY <1>4, UnmarkTurns
  <2>1. Turned(j, r) /\ status' = status /\ expiration' = expiration
    BY <1>4, QueueTurns DEF Unmark
  <2>2. KeepsScores(r)
    BY <2>1, ScoresKept DEF KeepsScores
  <2>3. ~Withdraws(r) /\ job[j].pc \in StoreSteps /\ Withdraws(job[j])
    BY IdleIsSound DEF Withdraws, Goes, StoreSteps
  <2>4. ASSUME NEW u \in Users, candidate[u] # "none"
        PROVE  candidate'[u] # "none" \/ Known(u)'
    <3>1. CASE u = job[j].user
      BY <2>1, <2>2, <2>3, <3>1, WithdrawnIsKnown
    <3>2. CASE u # job[j].user
      BY <1>4, <2>4, <3>2 DEF Unmark, BaseInv, ProgramTypeOK
    <3>. QED
      BY <3>1, <3>2
  <2>. QED
    BY <2>1, <2>2, <2>3, <2>4, StoreEndsNothing, EndKept
<1>. QED
  BY <1>1, <1>2, <1>3, <1>4 DEF StoreStep

LEMMA DropEnd ==
  ASSUME BaseInv, TrackedInv, HeldInv, OnlineInv, excused \subseteq excused', NEW j \in Jobs, DropStep(j)
  PROVE  HeldInv' /\ OnlineInv'
<1>1. ASSUME Srem(j) \/ Del(j)
      PROVE  HeldInv' /\ OnlineInv'
  <2>1. \E r \in Job : /\ Turn(j, r) /\ job[j].pc \in RemoveSteps
                       /\ \/ Goes(j, r, "del")
                          \/ Goes(j, r, "zrem")
    BY <1>1, SremTurns, DelTurns DEF RemoveSteps
  <2>. PICK r \in Job : /\ Turn(j, r) /\ job[j].pc \in RemoveSteps
                        /\ \/ Goes(j, r, "del")
                           \/ Goes(j, r, "zrem")
    BY <2>1
  <2>2. /\ Turned(j, r) /\ status' = status /\ candidate' = candidate /\ expiration' = expiration
    BY <1>1, QueueTurns DEF Srem, Del, redis
  <2>3. KeepsScores(r)
    BY <2>2, ScoresKept DEF KeepsScores, RemoveSteps
  <2>4. ~Withdraws(r)
    BY DEF Withdraws, Goes
  <2>5. \A u : WillCount(job[j], u) => WillCount(r, u)
    BY DEF WillCount, Goes, RemoveSteps, CountSteps
  <2>6. \A u : ~WillEnd(job[j], u)
    BY RemoveTyped DEF WillEnd, RemoveSteps, DatabaseSteps
  <2>. QED
    BY <2>2, <2>3, <2>4, <2>5, <2>6, EndKept
<1>2. CASE Zrem(j)
  <2>. PICK r \in Job : /\ Turn(j, r) /\ Sound(j, r) /\ job[j].pc = "zrem"
                        /\ \/ job[j].kind = "drop" /\ Goes(j, r, "scard")
                           \/ job[j].kind = "sweep" /\ Visits(j, r)
    BY <1>2, ZremTurns
  <2>. DEFINE d == job[j].conn
  <2>1. Turned(j, r) /\ status' = status /\ candidate' = candidate
    BY <1>2, QueueTurns DEF Zrem
  <2>2. /\ d \in Connections /\ Owner[d] \in Users /\ job[j].ready = {}
        /\ \/ job[j].kind = "drop" /\ job[j].user = Owner[d] /\ job[j].users = {}
           \/ job[j].kind = "sweep" /\ Owner[d] \in job[j].users
    BY RemoveTyped DEF RemoveSteps
  <2>3. \A c \in Connections : c # d => expiration'[c] = expiration[c]
    BY <1>2, <2>2 DEF Zrem, BaseInv, ProgramTypeOK
  <2>4. r.pc \in {"srem", "scard", "candidates"} /\ r.pc \in RedisSteps /\ ~Withdraws(r)
    BY DEF Goes, Visits, RedisSteps, Withdraws
  <2>5. \A u : WillCount(job[j], u) => WillCount(r, u)
    BY <2>2 DEF WillCount, Goes, Visits, RemoveSteps, CountSteps
  <2>6. WillCount(r, Owner[d])
    BY <2>2 DEF WillCount, Goes, Visits, RemoveSteps, CountSteps
  <2>7. KeepsScores(r)
    <3>. SUFFICES ASSUME NEW u \in Users, Scored(u), u # Owner[d]
                  PROVE  Scored(u)'
      BY <2>4, <2>6 DEF KeepsScores
    <3>. PICK c \in Connections : Owner[c] = u /\ Covered(c)
      BY DEF Scored
    <3>1. ASSUME NEW k \in Jobs, Storing(k, c)
          PROVE  Storing(k, c)'
      BY <2>1, <3>1, TurnedJobs DEF Storing
    <3>2. Covered(c)'
      BY <2>3, <3>1 DEF Covered
    <3>. QED
      BY <3>2 DEF Scored
  <2>8. \A u : ~WillEnd(job[j], u)
    BY <2>2 DEF WillEnd, DatabaseSteps
  <2>. QED
    BY <2>1, <2>4, <2>5, <2>7, <2>8, EndKept
<1>3. CASE Scard(j)
  <2>. PICK r \in Job :
           /\ Turn(j, r) /\ Sound(j, r) /\ job[j].pc = "scard"
           /\ \/ Goes(j, r, "mark")
              \/ /\ tracked[job[j].user] # {}
                 /\ \/ job[j].kind = "drop" /\ r = IdleJob
                    \/ job[j].kind = "sweep" /\ Visits(j, r)
    BY <1>3, ScardTurns
  <2>1. /\ Turned(j, r) /\ status' = status /\ candidate' = candidate /\ expiration' = expiration
    BY <1>3, QueueTurns DEF Scard, redis
  <2>2. \A u \in Users : Scored(u) => Scored(u)'
    BY <2>1, ScoresKept
  <2>3. KeepsScores(r)
    BY <2>2 DEF KeepsScores
  <2>4. ~Withdraws(r)
    BY IdleIsSound DEF Withdraws, Goes, Visits
  <2>5. /\ job[j].user \in Users /\ job[j].ready = {}
        /\ job[j].kind = "drop" => job[j].users = {}
    BY CountTyped DEF CountSteps
  <2>6. ASSUME NEW u \in Users, WillCount(job[j], u)
        PROVE  WillCount(r, u) \/ Scored(u)'
    <3>1. CASE Goes(j, r, "mark")
      BY <2>6, <3>1 DEF WillCount, Goes, RemoveSteps, CountSteps
    <3>2. CASE tracked[job[j].user] # {} /\ u = job[j].user
      BY <2>2, <3>2, TrackedIsKnown
    <3>3. CASE job[j].kind = "drop" /\ u # job[j].user
      BY <2>5, <2>6, <3>3 DEF WillCount
    <3>4. CASE job[j].kind = "sweep" /\ Visits(j, r) /\ u # job[j].user
      BY <2>6, <3>4 DEF WillCount, Visits, CountSteps
    <3>. QED
      BY <3>1, <3>2, <3>3, <3>4
  <2>7. \A u : ~WillEnd(job[j], u)
    BY <2>5 DEF WillEnd, DatabaseSteps
  <2>. QED
    BY <2>1, <2>3, <2>4, <2>6, <2>7, EndKept
<1>4. CASE Mark(j)
  <2>. PICK r \in Job : /\ Turn(j, r) /\ Sound(j, r) /\ job[j].pc = "mark"
                        /\ \/ job[j].kind = "drop" /\ r = IdleJob
                           \/ job[j].kind = "sweep" /\ Visits(j, r)
    BY <1>4, MarkTurns
  <2>1. /\ Turned(j, r) /\ status' = status /\ expiration' = expiration
    BY <1>4, QueueTurns DEF Mark
  <2>2. KeepsScores(r)
    BY <2>1, ScoresKept DEF KeepsScores
  <2>3. ~Withdraws(r)
    BY IdleIsSound DEF Withdraws, Visits
  <2>4. /\ job[j].user \in Users /\ job[j].ready = {}
        /\ job[j].kind = "drop" => job[j].users = {}
    BY CountTyped DEF CountSteps
  <2>5. /\ candidate'[job[j].user] = "pending"
        /\ \A u \in Users : candidate[u] # "none" => candidate'[u] # "none"
    BY <1>4, <2>4 DEF Mark, BaseInv, ProgramTypeOK
  <2>6. ASSUME NEW u \in Users, WillCount(job[j], u)
        PROVE  WillCount(r, u) \/ candidate'[u] # "none"
    <3>2. CASE u = job[j].user
      BY <2>5, <3>2
    <3>3. CASE job[j].kind = "drop" /\ u # job[j].user
      BY <2>4, <2>6, <3>3 DEF WillCount
    <3>4. CASE job[j].kind = "sweep" /\ Visits(j, r) /\ u # job[j].user
      BY <2>6, <3>4 DEF WillCount, Visits, CountSteps
    <3>. QED
      BY <3>2, <3>3, <3>4
  <2>7. \A u : ~WillEnd(job[j], u)
    BY <2>4 DEF WillEnd, DatabaseSteps
  <2>. QED
    BY <2>1, <2>2, <2>3, <2>5, <2>6, <2>7, EndKept
<1>. QED
  BY <1>1, <1>2, <1>3, <1>4 DEF DropStep

LEMMA SweepEnd ==
  ASSUME BaseInv, TrackedInv, HeldInv, OnlineInv, excused \subseteq excused', NEW s \in Sweeps, SweepStart(s) \/ SweepStep(s)
  PROVE  HeldInv' /\ OnlineInv'
<1>. s \in Jobs
  BY DEF Jobs
<1>1. CASE SweepStart(s)
  <2>. PICK r \in Job :
         /\ Turn(s, r) /\ Sound(s, r)
         /\ job[s].pc = "idle" /\ r.pc = "expired" /\ r.conn = None
         /\ r.kind = "sweep" /\ r.expired = {}
    BY <1>1, SweepStartTurns
  <2>1. /\ Turned(s, r) /\ status' = status /\ candidate' = candidate /\ expiration' = expiration
    BY <1>1, QueueTurns DEF SweepStart, redis
  <2>2. KeepsScores(r)
    BY <2>1, ScoresKept DEF KeepsScores
  <2>3. ~Withdraws(r)
    BY DEF Withdraws
  <2>. QED
    BY <2>1, <2>2, <2>3, StoreEndsNothing, EndKept
<1>2. CASE SweepExpired(s)
  <2>. PICK r \in Job :
           /\ Turn(s, r) /\ Sound(s, r) /\ job[s].pc = "expired"
           /\ r.kind = "sweep" /\ r.pc \in {"srem", "scard", "candidates"} /\ r.ready = {}
    BY <1>2, SweepExpiredTurns
  <2>1. /\ Turned(s, r) /\ status' = status /\ candidate' = candidate /\ expiration' = expiration
    BY <1>2, QueueTurns DEF SweepExpired, redis
  <2>2. KeepsScores(r)
    BY <2>1, ScoresKept DEF KeepsScores
  <2>3. ~Withdraws(r)
    BY DEF Withdraws
  <2>4. \A u : ~WillCount(job[s], u) /\ ~WillEnd(job[s], u)
    BY Kinds DEF Sound, WillCount, WillEnd, RemoveSteps, CountSteps, DatabaseSteps
  <2>. QED
    BY <2>1, <2>2, <2>3, <2>4, EndKept
<1>3. CASE SweepCandidates(s)
  <2>. PICK r \in Job : /\ Turn(s, r) /\ Sound(s, r) /\ job[s].pc = "candidates"
                        /\ VisitsCandidate(s, r)
    BY <1>3, SweepCandidatesTurns
  <2>1. /\ Turned(s, r) /\ status' = status /\ candidate' = candidate /\ expiration' = expiration
    BY <1>3, QueueTurns DEF SweepCandidates, redis
  <2>2. KeepsScores(r)
    BY <2>1, ScoresKept DEF KeepsScores
  <2>3. ~Withdraws(r)
    BY DEF Withdraws, VisitsCandidate
  <2>4. \A u : ~WillCount(job[s], u) /\ ~WillEnd(job[s], u)
    BY Kinds DEF Sound, WillCount, WillEnd, RemoveSteps, CountSteps, CandidateSteps, DatabaseSteps
  <2>. QED
    BY <2>1, <2>2, <2>3, <2>4, EndKept
<1>4. CASE SweepCount(s)
  <2>. PICK r \in Job :
           /\ Turn(s, r) /\ Sound(s, r) /\ job[s].pc = "count" /\ job[s].user \in Users
           /\ r.kind = "sweep" /\ r.pc = "remove" /\ r.user = job[s].user /\ r.conn = job[s].conn
           /\ r.expired = {} /\ r.users = {} /\ job[s].users = {}
           /\ job[s].ready \subseteq r.ready
           /\ tracked[r.user] # {} \/ r.user \in r.ready
    BY <1>4, SweepCountTurns
  <2>1. /\ Turned(s, r) /\ status' = status /\ candidate' = candidate /\ expiration' = expiration
    BY <1>4, QueueTurns DEF SweepCount, redis
  <2>2. \A u \in Users : Scored(u) => Scored(u)'
    BY <2>1, ScoresKept
  <2>3. KeepsScores(r)
    BY <2>2 DEF KeepsScores
  <2>4. Withdraws(r) => Scored(r.user)'
    BY <2>2, TrackedIsKnown DEF Withdraws
  <2>5. \A u : ~WillCount(job[s], u)
    BY Kinds DEF Sound, WillCount, RemoveSteps, CountSteps
  <2>6. \A u : WillEnd(job[s], u) => WillEnd(r, u)
    BY DEF WillEnd, DatabaseSteps
  <2>. QED
    BY <2>1, <2>3, <2>4, <2>5, <2>6, EndKept
<1>5. CASE SweepRemove(s)
  <2>. PICK r \in Job : /\ Turn(s, r) /\ Sound(s, r) /\ job[s].pc = "remove"
                        /\ job[s].kind = "sweep" /\ job[s].user \in Users /\ job[s].users = {}
                        /\ VisitsCandidate(s, r)
    BY <1>5, SweepRemoveTurns
  <2>1. /\ Turned(s, r) /\ status' = status /\ expiration' = expiration
    BY <1>5, QueueTurns DEF SweepRemove
  <2>2. KeepsScores(r)
    BY <2>1, ScoresKept DEF KeepsScores
  <2>3. ~Withdraws(r)
    BY DEF Withdraws, VisitsCandidate
  <2>4. \A u : ~WillCount(job[s], u)
    BY DEF WillCount, RemoveSteps, CountSteps
  <2>5. \A u : WillEnd(job[s], u) => WillEnd(r, u)
    BY DEF WillEnd, VisitsCandidate, DatabaseSteps
  <2>6. ASSUME NEW u \in Users, candidate[u] # "none"
        PROVE  candidate'[u] # "none" \/ Known(u)'
    <3>1. CASE u = job[s].user /\ u \in job[s].ready
      <4>. WillEnd(job'[s], u)
        BY <2>1, <2>5, <3>1, TurnedJobs DEF WillEnd
      <4>. QED
        BY DEF Known
    <3>2. CASE u = job[s].user /\ u \notin job[s].ready
      <4>. Withdraws(job[s])
        BY <3>2 DEF Withdraws
      <4>. QED
        BY <2>1, <2>2, <3>2, WithdrawnIsKnown
    <3>3. CASE u # job[s].user
      BY <1>5, <2>6, <3>3 DEF SweepRemove, BaseInv, ProgramTypeOK
    <3>. QED
      BY <3>1, <3>2, <3>3
  <2>. QED
    BY <2>1, <2>2, <2>3, <2>4, <2>5, <2>6, EndKept
<1>. QED
  BY <1>1, <1>2, <1>3, <1>4, <1>5 DEF SweepStep

(* While trackConnection runs nobody else but a heartbeat works on its      *)
(* connection, so the score it has set stays; and nobody works on a         *)
(* connection before it is accepted.  A socket that closes while it is being*)
(* tracked makes the difference, so its user is excused.                    *)
Tracks(j) == job[j].kind = "track" /\ Owner[job[j].conn] \notin excused

FreshInv ==
    /\ \A c \in Connections : socket[c] \in {"new", "lost"} =>
         /\ expiration[c] = "none"
         /\ \A j \in Jobs : job[j].conn # c /\ c \notin job[j].expired
    /\ \A j \in Jobs : Tracks(j) =>
         /\ expiration[job[j].conn] # "due"
         /\ job[j].pc \in {"unmark"} \cup DatabaseSteps => expiration[job[j].conn] # "none"
         /\ \A i \in Jobs : job[i].conn = job[j].conn => job[i].kind = "beat" \/ i = j
         /\ \A i \in Jobs : job[j].conn \notin job[i].expired

LEMMA TrackTyped ==
  ASSUME BaseInv, NEW j \in Jobs, job[j].kind = "track"
  PROVE  /\ job[j].conn \in Connections /\ job[j].user = Owner[job[j].conn] /\ job[j].user \in Users
         /\ job[j].expired = {} /\ j \in Handlers /\ job[j].pc # "idle"
BY Kinds, ConstantsAssumption, IdleIsSound DEF Sound, Jobs

LEMMA StatusEnd ==
  ASSUME BaseInv, HeldInv, OnlineInv, excused \subseteq excused', FreshInv,
         NEW j \in Jobs, StatusStep(j) \/ DatabaseFails(j)
  PROVE  HeldInv' /\ OnlineInv'
<1>1. CASE ReadStatus(j)
  <2>. PICK r \in Job : /\ Turn(j, r) /\ Sound(j, r) /\ job[j].pc = "read"
                        /\ job[j].user \in Users /\ job[j].users = {}
                        /\ \/ Goes(j, r, "write")
                           \/ job[j].kind = "track" /\ r = IdleJob
                           \/ /\ job[j].kind = "sweep" /\ VisitsCandidate(j, r)
                              /\ status[job[j].user] = "offline"
    BY <1>1, ReadStatusTurns
  <2>1. /\ Turned(j, r) /\ status' = status /\ candidate' = candidate /\ expiration' = expiration
    BY <1>1, QueueTurns DEF ReadStatus, redis
  <2>2. KeepsScores(r)
    BY <2>1, ScoresKept DEF KeepsScores
  <2>3. ~Withdraws(r)
    BY IdleIsSound DEF Withdraws, Goes, VisitsCandidate
  <2>4. \A u : ~WillCount(job[j], u)
    BY DEF WillCount, RemoveSteps, CountSteps
  <2>5. ASSUME NEW u \in Users, WillEnd(job[j], u)
        PROVE  WillEnd(r, u) \/ status'[u] = "offline"
    <3>1. CASE Goes(j, r, "write")
      BY <2>5, <3>1 DEF WillEnd, Goes, DatabaseSteps
    <3>2. CASE job[j].kind = "track"
      BY <2>5, <3>2, Kinds DEF WillEnd, Sound
    <3>3. CASE VisitsCandidate(j, r) /\ status[job[j].user] = "offline"
      BY <2>1, <2>5, <3>3 DEF WillEnd, VisitsCandidate, DatabaseSteps
    <3>. QED
      BY <3>1, <3>2, <3>3
  <2>. QED
    BY <2>1, <2>2, <2>3, <2>4, <2>5, EndKept
<1>2. CASE WriteStatus(j) \/ DatabaseFails(j)
  <2>1. /\ job[j].pc \in DatabaseSteps
        /\ \E r \in AfterStatus(job[j]) : ProceedUnqueued(j, r)
        /\ candidate' = candidate /\ expiration' = expiration
    BY <1>2 DEF WriteStatus, DatabaseFails, DatabaseSteps, redis
  <2>. PICK r \in Job : /\ Turn(j, r) /\ Sound(j, r) /\ job[j].user \in Users /\ job[j].users = {}
                        /\ \/ job[j].kind = "track" /\ r = IdleJob
                           \/ job[j].kind = "sweep" /\ VisitsCandidate(j, r)
    BY <2>1, AfterStatusTurns
  <2>2. Turned(j, r)
    BY QueueTurns
  <2>3. \A u \in Users : Scored(u) => Scored(u)'
    BY <2>1, <2>2, ScoresKept DEF DatabaseSteps
  <2>4. KeepsScores(r)
    BY <2>3 DEF KeepsScores
  <2>5. ~Withdraws(r)
    BY IdleIsSound DEF Withdraws, VisitsCandidate
  <2>6. \A u : ~WillCount(job[j], u)
    BY <2>1 DEF WillCount, RemoveSteps, CountSteps, DatabaseSteps
  <2>7. CASE job[j].kind = "track" /\ r = IdleJob
    <3>1. \A u : ~WillEnd(job[j], u)
      BY <2>7, Kinds DEF WillEnd, Sound
    <3>2. Scored(job[j].user) \/ job[j].user \in excused
      BY <2>1, <2>7, TrackTyped DEF FreshInv, Tracks, Scored, Covered
    <3>3. \A u \in Users : status'[u] # status[u] => u = job[j].user
      BY <1>2 DEF WriteStatus, DatabaseFails, BaseInv, ProgramTypeOK
    <3>4. ASSUME NEW u \in Users
          PROVE  status'[u] # "offline" =>
                   status[u] # "offline" \/ Known(u)' \/ u \in excused'
      BY <2>3, <3>2, <3>3 DEF Known
    <3>. QED
      BY <2>1, <2>2, <2>4, <2>5, <2>6, <3>1, <3>4, EndKept
  <2>8. CASE job[j].kind = "sweep" /\ VisitsCandidate(j, r)
    <3>1. /\ status'[job[j].user] = "offline" \/ job[j].user \in excused'
          /\ \A u \in Users : u # job[j].user => status'[u] = status[u]
          /\ status'[job[j].user] \in {status[job[j].user], "offline"}
      BY <1>2, <2>8 DEF WriteStatus, DatabaseFails, Excuse, Target, BaseInv, ProgramTypeOK
    <3>2. ASSUME NEW u \in Users, WillEnd(job[j], u)
          PROVE  WillEnd(r, u) \/ status'[u] = "offline" \/ u \in excused'
      BY <2>8, <3>1, <3>2 DEF WillEnd, VisitsCandidate, DatabaseSteps
    <3>. QED
      BY <2>1, <2>2, <2>4, <2>5, <2>6, <3>1, <3>2, EndKept
  <2>. QED
    BY <2>7, <2>8
<1>. QED
  BY <1>1, <1>2 DEF StatusStep

LEMMA StillEnd ==
  ASSUME BaseInv, HeldInv, OnlineInv, excused \subseteq excused', Still,
         \A c \in Connections : expiration[c] # "none" => expiration'[c] # "none",
         \A u \in Users : candidate[u] # "none" => candidate'[u] # "none",
         \A u \in Users : status'[u] # "offline" => status[u] # "offline" \/ Scored(u) \/ u \in excused'
  PROVE  HeldInv' /\ OnlineInv'
<1>1. job' = job /\ queue' = queue
  BY DEF Still
<1>2. \A u : Scored(u) => Scored(u)'
  BY <1>1 DEF Scored, Covered, Storing
<1>3. HeldInv'
  <2>. SUFFICES ASSUME NEW j \in Jobs, Withdraws(job[j])
                PROVE  \/ Scored(job[j].user)'
                       \/ \E i \in Jobs : Before(j, i)' /\ WillCount(job[i], job[j].user)
    BY <1>1 DEF HeldInv
  <2>1. CASE Scored(job[j].user)
    BY <1>1, <1>2, <2>1 DEF Scored
  <2>2. ASSUME NEW i \in Jobs, Before(j, i), WillCount(job[i], job[j].user)
        PROVE  Before(j, i)' /\ WillCount(job[i], job[j].user)
    BY <1>1, <2>2 DEF Before
  <2>. QED
    BY <2>1, <2>2 DEF HeldInv
<1>4. OnlineInv'
  <2>. SUFFICES ASSUME NEW u \in Users, u \notin excused', status'[u] # "offline"
                PROVE  Known(u)'
    BY DEF OnlineInv
  <2>1. status[u] # "offline" => Known(u)
    BY DEF OnlineInv
  <2>2. Known(u) => Known(u)'
    BY <1>1, <1>2 DEF Known
  <2>3. Scored(u) => Known(u)
    BY DEF Known
  <2>. QED
    BY <2>1, <2>2, <2>3
<1>. QED
  BY <1>3, <1>4

LEMMA SocketEnd ==
  ASSUME BaseInv, TrackedInv, HeldInv, OnlineInv, excused \subseteq excused',
         SocketStep \/ Restart \/ TimePasses \/ UNCHANGED vars
  PROVE  HeldInv' /\ OnlineInv'
<1>1. ASSUME NEW h \in Handlers, NEW c \in Connections,
             Accept(h, c) \/ Disconnect(h, c) \/ Heartbeat(h, c)
      PROVE  HeldInv' /\ OnlineInv'
  <2>. h \in Jobs
    BY DEF Jobs
  <2>1. /\ \E r \in Job : Turn(h, r) /\ job[h].pc = "idle" /\ r.pc \in {"set", "srem"}
        /\ status' = status /\ candidate' = candidate /\ expiration' = expiration
    BY <1>1, AcceptTurns, DisconnectTurns, HeartbeatTurns DEF Accept, Disconnect, Heartbeat, redis
  <2>. PICK r \in Job : Turn(h, r) /\ job[h].pc = "idle" /\ r.pc \in {"set", "srem"}
    BY <2>1
  <2>2. Turned(h, r)
    BY QueueTurns
  <2>3. KeepsScores(r)
    BY <2>1, <2>2, ScoresKept DEF KeepsScores
  <2>4. ~Withdraws(r)
    BY DEF Withdraws
  <2>. QED
    BY <2>1, <2>2, <2>3, <2>4, StoreEndsNothing, EndKept
<1>2. ASSUME NEW c \in Connections, Refuse(c) \/ Lose(c)
      PROVE  HeldInv' /\ OnlineInv'
  BY <1>2, StillEnd DEF Refuse, Lose, Still, redis
<1>3. ASSUME NEW u \in Users, NEW s \in Desired, UpdatePresence(u, s)
      PROVE  HeldInv' /\ OnlineInv'
  <2>. status'[u] = s /\ \A v \in Users : v # u => status'[v] = status[v]
    BY <1>3 DEF UpdatePresence, BaseInv, ProgramTypeOK
  <2>. s = "offline" \/ Scored(u) \/ u \in excused'
    BY <1>3, TrackedIsKnown DEF UpdatePresence, Excuse
  <2>. QED
    BY <1>3, StillEnd DEF UpdatePresence, Still, redis
<1>4. CASE Restart
  BY <1>4, StillEnd DEF Restart, Still, redis
<1>5. ASSUME NEW c \in Connections, ExpirationDue(c)
      PROVE  HeldInv' /\ OnlineInv'
  <2>. \A d \in Connections : expiration[d] # "none" => expiration'[d] # "none"
    BY <1>5 DEF ExpirationDue, BaseInv, ProgramTypeOK
  <2>. QED
    BY <1>5, StillEnd DEF ExpirationDue, Still
<1>6. ASSUME NEW u \in Users, CandidateDue(u)
      PROVE  HeldInv' /\ OnlineInv'
  <2>. \A v \in Users : candidate[v] # "none" => candidate'[v] # "none"
    BY <1>6 DEF CandidateDue, BaseInv, ProgramTypeOK
  <2>. QED
    BY <1>6, StillEnd DEF CandidateDue, Still
<1>7. ASSUME NEW u \in Users, TrackedExpires(u)
      PROVE  HeldInv' /\ OnlineInv'
  BY <1>7, StillEnd DEF TrackedExpires, Still
<1>8. CASE UNCHANGED vars
  BY <1>8, StillEnd DEF vars, program, Still, redis
<1>. QED
  BY <1>1, <1>2, <1>3, <1>4, <1>5, <1>6, <1>7, <1>8 DEF SocketStep, SocketEvent, TimePasses

-----------------------------------------------------------------------------
(* The score of a connection that is being tracked.                         *)

LEMMA FreshKept ==
  ASSUME BaseInv, FreshInv, excused \subseteq excused', NEW j \in Jobs, NEW r \in Job, Turned(j, r), socket' = socket,
         r.kind = "track" => job[j].kind = "track" /\ r.conn = job[j].conn,
         r.conn \in {job[j].conn, None} \cup job[j].expired,
         r.conn = job[j].conn /\ r.conn # None => r.kind = job[j].kind,
         r.expired \subseteq job[j].expired,
         \A c \in Connections :
            \/ expiration'[c] = expiration[c]
            \/ expiration'[c] = "pending" /\ job[j].conn = c
            \/ expiration'[c] = "none" /\ job[j].conn = c /\ job[j].kind \in {"drop", "sweep"},
         r.kind = "track" /\ r.pc \in {"unmark"} \cup DatabaseSteps =>
            job[j].pc \in {"unmark"} \cup DatabaseSteps \/ expiration'[r.conn] = "pending"
  PROVE  FreshInv'
<1>1. job'[j] = r /\ \A k \in Jobs : k # j => job'[k] = job[k]
  BY TurnedJobs
<1>2. None \notin Connections
  BY ConstantsAssumption
<1>3. ASSUME NEW c \in Connections, socket[c] \in {"new", "lost"}
      PROVE  /\ expiration'[c] = "none"
             /\ \A k \in Jobs : job'[k].conn # c /\ c \notin job'[k].expired
  BY <1>1, <1>2, <1>3 DEF FreshInv
<1>4. ASSUME NEW k \in Jobs, Tracks(k)'
      PROVE  /\ Tracks(k) /\ job[k].kind = "track" /\ job'[k].conn = job[k].conn
             /\ job[k].conn \in Connections /\ job'[k].kind = "track"
  BY <1>1, <1>4, TrackTyped DEF Tracks
<1>5. ASSUME NEW k \in Jobs, Tracks(k)'
      PROVE  /\ expiration'[job'[k].conn] # "due"
             /\ job'[k].pc \in {"unmark"} \cup DatabaseSteps => expiration'[job'[k].conn] # "none"
  <2>. DEFINE c == job[k].conn
  <2>1. /\ Tracks(k) /\ job[k].kind = "track" /\ job'[k].kind = "track"
        /\ job'[k].conn = c /\ c \in Connections
    BY <1>4, <1>5
  <2>2. expiration'[c] \in {expiration[c], "pending"}
    BY <2>1 DEF FreshInv
  <2>3. /\ expiration[c] # "due"
        /\ job[k].pc \in {"unmark"} \cup DatabaseSteps => expiration[c] # "none"
    BY <2>1 DEF FreshInv
  <2>4. job'[k].pc \in {"unmark"} \cup DatabaseSteps =>
          job[k].pc \in {"unmark"} \cup DatabaseSteps \/ expiration'[c] = "pending"
    BY <1>1, <1>5, <2>1
  <2>. QED
    BY <2>1, <2>2, <2>3, <2>4
<1>6. ASSUME NEW k \in Jobs, Tracks(k)', NEW i \in Jobs
      PROVE  /\ job'[i].conn = job'[k].conn => job'[i].kind = "beat" \/ i = k
             /\ job'[k].conn \notin job'[i].expired
  <2>1. /\ Tracks(k) /\ job[k].kind = "track" /\ job'[k].kind = "track"
        /\ job'[k].conn = job[k].conn /\ job[k].conn \in Connections
    BY <1>4, <1>6
  <2>2. /\ job[i].conn = job[k].conn => job[i].kind = "beat" \/ i = k
        /\ job[k].conn \notin job[i].expired
    BY <2>1 DEF FreshInv
  <2>3. CASE i # j
    BY <1>1, <2>1, <2>2, <2>3
  <2>4. CASE i = j
    <3>1. r.conn = job[k].conn => r.conn = job[j].conn /\ r.kind = job[j].kind
      BY <1>2, <2>1, <2>2, <2>4
    <3>. QED
      BY <1>1, <2>1, <2>2, <2>4, <3>1
  <2>. QED
    BY <2>3, <2>4
<1>. QED
  BY <1>3, <1>5, <1>6 DEF FreshInv

LEMMA FreshStore ==
  ASSUME BaseInv, FreshInv, excused \subseteq excused', NEW j \in Jobs, StoreStep(j)
  PROVE  FreshInv'
<1>1. CASE Set(j)
  <2>1. \E r \in Job : /\ Turn(j, r)
                       /\ Goes(j, r, "sadd") \/ Goes(j, r, "zadd")
    BY <1>1, SetTurns
  <2>. PICK r \in Job : /\ Turn(j, r)
                        /\ Goes(j, r, "sadd") \/ Goes(j, r, "zadd")
    BY <2>1
  <2>2. Turned(j, r) /\ socket' = socket /\ expiration' = expiration
    BY <1>1, QueueTurns DEF Set, redis
  <2>. QED
    BY <2>2, FreshKept DEF Goes, DatabaseSteps
<1>2. CASE Sadd(j)
  <2>. PICK r \in Job : Turn(j, r) /\ Sound(j, r) /\ job[j].pc = "sadd" /\ Goes(j, r, "expire")
    BY <1>2, SaddTurns
  <2>2. Turned(j, r) /\ socket' = socket /\ expiration' = expiration
    BY <1>2, QueueTurns DEF Sadd
  <2>. QED
    BY <2>2, FreshKept DEF Goes, DatabaseSteps
<1>3. CASE Zadd(j)
  <2>. PICK r \in Job : Turn(j, r) /\ Sound(j, r) /\ job[j].pc = "zadd" /\ Goes(j, r, "unmark")
    BY <1>3, ZaddTurns
  <2>. DEFINE d == job[j].conn
  <2>1. d \in Connections
    BY StoreTyped DEF StoreSteps
  <2>2. /\ Turned(j, r) /\ socket' = socket
        /\ expiration'[d] = "pending"
        /\ \A c \in Connections : c # d => expiration'[c] = expiration[c]
    BY <1>3, <2>1, QueueTurns DEF Zadd, BaseInv, ProgramTypeOK
  <2>. QED
    BY <2>2, FreshKept DEF Goes
<1>4. CASE Unmark(j)
  <2>. PICK r \in Job : /\ Turn(j, r) /\ Sound(j, r) /\ job[j].pc = "unmark"
                        /\ r = IdleJob \/ (job[j].kind = "track" /\ Goes(j, r, "read"))
    BY <1>4, UnmarkTurns
  <2>2. Turned(j, r) /\ socket' = socket /\ expiration' = expiration
    BY <1>4, QueueTurns DEF Unmark
  <2>. QED
    BY <2>2, IdleIsSound, FreshKept DEF Goes
<1>. QED
  BY <1>1, <1>2, <1>3, <1>4 DEF StoreStep

LEMMA FreshDrop ==
  ASSUME BaseInv, FreshInv, excused \subseteq excused', NEW j \in Jobs, DropStep(j)
  PROVE  FreshInv'
<1>. IdleJob.kind = "none" /\ IdleJob.conn = None /\ IdleJob.expired = {}
  BY IdleIsSound
<1>1. CASE Zrem(j)
  <2>. PICK r \in Job : /\ Turn(j, r) /\ Sound(j, r) /\ job[j].pc = "zrem"
                        /\ \/ job[j].kind = "drop" /\ Goes(j, r, "scard")
                           \/ job[j].kind = "sweep" /\ Visits(j, r)
    BY <1>1, ZremTurns
  <2>. DEFINE d == job[j].conn
  <2>1. d \in Connections
    BY RemoveTyped DEF RemoveSteps
  <2>2. /\ Turned(j, r) /\ socket' = socket
        /\ expiration'[d] = "none"
        /\ \A c \in Connections : c # d => expiration'[c] = expiration[c]
    BY <1>1, <2>1, QueueTurns DEF Zrem, BaseInv, ProgramTypeOK
  <2>3. /\ r.kind = job[j].kind /\ r.kind # "track"
        /\ r.conn \in {d} \cup job[j].expired
        /\ r.expired \subseteq job[j].expired
    BY DEF Goes, Visits
  <2>. QED
    BY <2>2, <2>3, FreshKept
<1>2. ASSUME Srem(j) \/ Del(j) \/ Scard(j) \/ Mark(j)
      PROVE  FreshInv'
  <2>1. /\ \E r \in Job :
             /\ Turn(j, r)
             /\ \/ Goes(j, r, "del") \/ Goes(j, r, "zrem") \/ Goes(j, r, "mark")
                \/ r = IdleJob \/ (job[j].kind = "sweep" /\ Visits(j, r))
        /\ job[j].pc \in RemoveSteps \cup CountSteps
    <3>1. CASE Srem(j)
      BY <3>1, SremTurns DEF RemoveSteps
    <3>2. CASE Del(j)
      BY <3>2, DelTurns DEF RemoveSteps
    <3>3. CASE Scard(j)
      BY <3>3, ScardTurns DEF CountSteps
    <3>4. CASE Mark(j)
      BY <3>4, MarkTurns DEF CountSteps
    <3>. QED
      BY <1>2, <3>1, <3>2, <3>3, <3>4
  <2>. PICK r \in Job :
         /\ Turn(j, r)
         /\ \/ Goes(j, r, "del") \/ Goes(j, r, "zrem") \/ Goes(j, r, "mark")
            \/ r = IdleJob \/ (job[j].kind = "sweep" /\ Visits(j, r))
    BY <2>1
  <2>2. Turned(j, r) /\ socket' = socket /\ expiration' = expiration
    BY <1>2, QueueTurns DEF Srem, Del, Scard, Mark, redis
  <2>3. job[j].kind \in {"drop", "sweep"}
    BY <2>1, Kinds
  <2>4. CASE r = IdleJob
    BY <2>2, <2>4, FreshKept
  <2>5. CASE r # IdleJob
    <3>. /\ r.kind = job[j].kind /\ r.kind # "track"
         /\ r.conn \in {job[j].conn} \cup job[j].expired
         /\ r.expired \subseteq job[j].expired
      BY <2>3, <2>5 DEF Goes, Visits
    <3>. QED
      BY <2>2, FreshKept
  <2>. QED
    BY <2>4, <2>5
<1>. QED
  BY <1>1, <1>2 DEF DropStep

(* The sweep lists a connection only when its score is due. *)
LEMMA FreshListed ==
  ASSUME BaseInv, FreshInv, excused \subseteq excused', NEW s \in Sweeps, SweepExpired(s)
  PROVE  FreshInv'
<1>. PICK r \in Job :
           /\ Turn(s, r) /\ Sound(s, r) /\ job[s].pc = "expired"
           /\ r.kind = "sweep" /\ r.pc \in {"srem", "scard", "candidates"} /\ r.ready = {}
           /\ \A c \in r.expired \cup {r.conn} : expiration[c] = "due" \/ c = job[s].conn
  BY SweepExpiredTurns
<1>. s \in Jobs
  BY DEF Jobs
<1>1. Turned(s, r) /\ socket' = socket /\ expiration' = expiration
  BY QueueTurns DEF SweepExpired, redis
<1>2. job'[s] = r /\ \A k \in Jobs : k # s => job'[k] = job[k]
  BY <1>1, TurnedJobs
<1>3. job[s].kind = "sweep"
  BY Kinds
<1>4. ASSUME NEW c \in Connections, socket[c] \in {"new", "lost"}
      PROVE  /\ expiration[c] = "none"
             /\ \A k \in Jobs : job'[k].conn # c /\ c \notin job'[k].expired
  BY <1>2, <1>4 DEF FreshInv
<1>5. ASSUME NEW k \in Jobs, Tracks(k)', NEW i \in Jobs
      PROVE  /\ Tracks(k) /\ job[k].kind = "track" /\ job'[k] = job[k]
             /\ job[i].conn = job[k].conn => job[i].kind = "beat" \/ i = k
             /\ job'[i].conn = job[k].conn => job'[i].kind = "beat" \/ i = k
             /\ job[k].conn \notin job'[i].expired
  <2>1. Tracks(k) /\ job[k].kind = "track" /\ job'[k] = job[k] /\ k # s
    BY <1>2, <1>5 DEF Tracks
  <2>2. /\ expiration[job[k].conn] # "due"
        /\ job[k].conn # job[s].conn
        /\ job[i].conn = job[k].conn => job[i].kind = "beat" \/ i = k
        /\ job[k].conn \notin job[i].expired
    BY <1>3, <2>1 DEF FreshInv
  <2>. QED
    BY <1>2, <2>1, <2>2
<1>6. ASSUME NEW k \in Jobs, Tracks(k)'
      PROVE  /\ expiration[job'[k].conn] # "due"
             /\ job'[k].pc \in {"unmark"} \cup DatabaseSteps => expiration[job'[k].conn] # "none"
  BY <1>5, <1>6 DEF FreshInv
<1>. QED
  BY <1>1, <1>4, <1>5, <1>6 DEF FreshInv

LEMMA FreshSweep ==
  ASSUME BaseInv, FreshInv, excused \subseteq excused', NEW s \in Sweeps, SweepStart(s) \/ SweepStep(s)
  PROVE  FreshInv'
<1>. s \in Jobs
  BY DEF Jobs
<1>1. CASE SweepStart(s)
  <2>. PICK r \in Job :
         /\ Turn(s, r) /\ Sound(s, r)
         /\ job[s].pc = "idle" /\ r.pc = "expired" /\ r.conn = None
         /\ r.kind = "sweep" /\ r.expired = {}
    BY <1>1, SweepStartTurns
  <2>1. Turned(s, r) /\ socket' = socket /\ expiration' = expiration
    BY <1>1, QueueTurns DEF SweepStart, redis
  <2>. QED
    BY <2>1, FreshKept
<1>2. ASSUME SweepCandidates(s) \/ SweepCount(s) \/ SweepRemove(s)
      PROVE  FreshInv'
  <2>1. \E r \in Job : /\ Turn(s, r) /\ Sound(s, r) /\ job[s].pc \in CandidateSteps
                       /\ r.expired = {} /\ r.conn \in {job[s].conn, None}
    <3>1. CASE SweepCandidates(s)
      BY <3>1, SweepCandidatesTurns DEF VisitsCandidate, CandidateSteps
    <3>2. CASE SweepCount(s)
      BY <3>2, SweepCountTurns DEF CandidateSteps
    <3>3. CASE SweepRemove(s)
      BY <3>3, SweepRemoveTurns DEF VisitsCandidate, CandidateSteps
    <3>. QED
      BY <1>2, <3>1, <3>2, <3>3
  <2>. PICK r \in Job : /\ Turn(s, r) /\ Sound(s, r) /\ job[s].pc \in CandidateSteps
                        /\ r.expired = {} /\ r.conn \in {job[s].conn, None}
    BY <2>1
  <2>2. Turned(s, r) /\ socket' = socket /\ expiration' = expiration
    BY <1>2, QueueTurns DEF SweepCandidates, SweepCount, SweepRemove, redis
  <2>3. job[s].kind = "sweep" /\ r.kind \in {"none", "sweep"}
    BY CandidateTyped DEF Sound
  <2>4. r.kind = "none" => r.conn = None
    BY IdleIsSound DEF Sound
  <2>. QED
    BY <2>2, <2>3, <2>4, FreshKept
<1>. QED
  BY <1>1, <1>2, FreshListed DEF SweepStep

LEMMA FreshStatus ==
  ASSUME BaseInv, FreshInv, excused \subseteq excused', NEW j \in Jobs, StatusStep(j) \/ DatabaseFails(j)
  PROVE  FreshInv'
<1>1. \E r \in Job : /\ Turn(j, r) /\ Sound(j, r) /\ job[j].pc \in DatabaseSteps
                     /\ \/ Goes(j, r, "write")
                        \/ r = IdleJob
                        \/ job[j].kind = "sweep" /\ VisitsCandidate(j, r)
  <2>1. CASE ReadStatus(j)
    BY <2>1, ReadStatusTurns DEF DatabaseSteps
  <2>2. CASE WriteStatus(j) \/ DatabaseFails(j)
    <3>1. job[j].pc \in DatabaseSteps /\ \E r \in AfterStatus(job[j]) : ProceedUnqueued(j, r)
      BY <2>2 DEF WriteStatus, DatabaseFails, DatabaseSteps
    <3>. QED
      BY <3>1, AfterStatusTurns
  <2>. QED
    BY <2>1, <2>2 DEF StatusStep
<1>. PICK r \in Job : /\ Turn(j, r) /\ Sound(j, r) /\ job[j].pc \in DatabaseSteps
                      /\ \/ Goes(j, r, "write")
                         \/ r = IdleJob
                         \/ job[j].kind = "sweep" /\ VisitsCandidate(j, r)
  BY <1>1
<1>2. Turned(j, r) /\ socket' = socket /\ expiration' = expiration
  BY QueueTurns DEF StatusStep, ReadStatus, WriteStatus, DatabaseFails, redis
<1>3. CASE Goes(j, r, "write")
  BY <1>2, <1>3, FreshKept DEF Goes
<1>4. CASE r = IdleJob
  BY <1>2, <1>4, IdleIsSound, FreshKept
<1>5. CASE job[j].kind = "sweep" /\ VisitsCandidate(j, r)
  <2>1. r.kind \in {"none", "sweep"} /\ (r.kind = "none" => r.conn = None)
    BY <1>5, IdleIsSound DEF Sound, VisitsCandidate
  <2>. QED
    BY <1>2, <1>5, <2>1, FreshKept DEF VisitsCandidate
<1>. QED
  BY <1>3, <1>4, <1>5

(* A handler begins on connection c. *)
LEMMA FreshBegins ==
  ASSUME BaseInv, FreshInv, excused \subseteq excused', NEW h \in Handlers, NEW c \in Connections, NEW r \in Job,
         Turned(h, r), job[h].pc = "idle", r.pc \in {"set", "srem"}, r.conn = c, r.expired = {},
         expiration' = expiration,
         socket'[c] \notin {"new", "lost"},
         \A d \in Connections : d # c => socket'[d] = socket[d],
         \/ r.kind = "track" /\ socket[c] \in {"new", "lost"}
         \/ r.kind = "beat"
         \/ r.kind = "drop" /\ \A i \in Jobs : Tracks(i) /\ job[i].conn = c => Owner[c] \in excused'
  PROVE  FreshInv'
<1>. h \in Jobs
  BY DEF Jobs
<1>1. job'[h] = r /\ \A k \in Jobs : k # h => job'[k] = job[k]
  BY TurnedJobs
<1>2. ASSUME NEW d \in Connections, socket'[d] \in {"new", "lost"}
      PROVE  /\ expiration'[d] = "none"
             /\ \A k \in Jobs : job'[k].conn # d /\ d \notin job'[k].expired
  <2>. d # c /\ socket[d] \in {"new", "lost"}
    BY <1>2
  <2>. QED
    BY <1>1 DEF FreshInv
<1>3. ASSUME NEW k \in Jobs, Tracks(k)'
      PROVE  /\ expiration'[job'[k].conn] # "due"
             /\ job'[k].pc \in {"unmark"} \cup DatabaseSteps => expiration'[job'[k].conn] # "none"
             /\ \A i \in Jobs : job'[i].conn = job'[k].conn => job'[i].kind = "beat" \/ i = k
             /\ \A i \in Jobs : job'[k].conn \notin job'[i].expired
  <2>1. CASE k = h
    <3>1. socket[c] \in {"new", "lost"} /\ job'[k] = r
      BY <1>1, <1>3, <2>1 DEF Tracks
    <3>2. /\ expiration[c] = "none"
          /\ \A i \in Jobs : job[i].conn # c /\ c \notin job[i].expired
      BY <3>1 DEF FreshInv
    <3>. QED
      BY <1>1, <2>1, <3>1, <3>2 DEF DatabaseSteps
  <2>2. CASE k # h
    <3>1. /\ job'[k] = job[k] /\ job[k].kind = "track" /\ job[k].conn \in Connections
          /\ Tracks(k) /\ Owner[job[k].conn] \notin excused'
      BY <1>1, <1>3, <2>2, TrackTyped DEF Tracks
    <3>2. r.kind # "beat" => job[k].conn # c
      BY <3>1 DEF FreshInv
    <3>. QED
      BY <1>1, <2>2, <3>1, <3>2 DEF FreshInv
  <2>. QED
    BY <2>1, <2>2
<1>. QED
  BY <1>2, <1>3 DEF FreshInv

LEMMA FreshStill ==
  ASSUME BaseInv, FreshInv, excused \subseteq excused', job' = job,
         \A c \in Connections : socket'[c] \in {"new", "lost"} => socket[c] \in {"new", "lost"},
         \A c \in Connections :
            expiration'[c] = expiration[c] \/
            /\ expiration[c] # "none" /\ expiration'[c] # "none"
            /\ \A j \in Jobs : job[j].kind = "track" => job[j].conn # c
  PROVE  FreshInv'
<1>1. ASSUME NEW c \in Connections, socket'[c] \in {"new", "lost"}
      PROVE  /\ expiration'[c] = "none"
             /\ \A k \in Jobs : job[k].conn # c /\ c \notin job[k].expired
  BY <1>1 DEF FreshInv
<1>2. ASSUME NEW k \in Jobs, Tracks(k)'
      PROVE  /\ expiration'[job[k].conn] # "due"
             /\ job[k].pc \in {"unmark"} \cup DatabaseSteps => expiration'[job[k].conn] # "none"
             /\ \A i \in Jobs : job[i].conn = job[k].conn => job[i].kind = "beat" \/ i = k
             /\ \A i \in Jobs : job[k].conn \notin job[i].expired
  <2>. Tracks(k) /\ job[k].kind = "track" /\ job[k].conn \in Connections
    BY <1>2, TrackTyped DEF Tracks
  <2>. expiration'[job[k].conn] = expiration[job[k].conn]
    BY <1>2
  <2>. QED
    BY <1>2 DEF FreshInv
<1>. QED
  BY <1>1, <1>2 DEF FreshInv

LEMMA FreshSocket ==
  ASSUME BaseInv, FreshInv, excused \subseteq excused',
         SocketStep \/ Restart \/ TimePasses \/ UNCHANGED vars
  PROVE  FreshInv'
<1>. socket \in [Connections -> Phases]
  BY DEF BaseInv, ProgramTypeOK
<1>1. ASSUME NEW h \in Handlers, NEW c \in Connections,
             Accept(h, c) \/ Disconnect(h, c) \/ Heartbeat(h, c)
      PROVE  FreshInv'
  <2>. h \in Jobs
    BY DEF Jobs
  <2>1. CASE Accept(h, c)
    <3>. PICK r \in Job :
           /\ Turn(h, r) /\ Sound(h, r)
           /\ job[h].pc = "idle" /\ r.pc = "set" /\ r.conn = c
           /\ r.kind = "track" /\ r.expired = {}
      BY <2>1, AcceptTurns
    <3>1. /\ Turned(h, r) /\ expiration' = expiration
          /\ socket[c] \in {"new", "lost"} /\ socket'[c] \notin {"new", "lost"}
          /\ \A d \in Connections : d # c => socket'[d] = socket[d]
      BY <2>1, QueueTurns DEF Accept, redis
    <3>. QED
      BY <3>1, FreshBegins
  <2>2. CASE Disconnect(h, c)
    <3>. PICK r \in Job :
           /\ Turn(h, r) /\ Sound(h, r)
           /\ job[h].pc = "idle" /\ r.pc = "srem" /\ r.conn = c
           /\ r.kind = "drop" /\ r.expired = {}
      BY <2>2, DisconnectTurns
    <3>1. /\ Turned(h, r) /\ expiration' = expiration
          /\ socket'[c] \notin {"new", "lost"}
          /\ \A d \in Connections : d # c => socket'[d] = socket[d]
      BY <2>2, QueueTurns DEF Disconnect, redis
    <3>2. \A i \in Jobs : Tracks(i) /\ job[i].conn = c => Owner[c] \in excused'
      BY <2>2, TrackTyped DEF Disconnect, Tracks, Tracking, Excuse
    <3>. QED
      BY <3>1, <3>2, FreshBegins
  <2>3. CASE Heartbeat(h, c)
    <3>. PICK r \in Job :
           /\ Turn(h, r) /\ Sound(h, r)
           /\ job[h].pc = "idle" /\ r.pc = "set" /\ r.conn = c
           /\ r.kind = "beat" /\ r.expired = {}
      BY <2>3, HeartbeatTurns
    <3>1. /\ Turned(h, r) /\ expiration' = expiration
          /\ socket'[c] \notin {"new", "lost"}
          /\ \A d \in Connections : d # c => socket'[d] = socket[d]
      BY <2>3, QueueTurns DEF Heartbeat, redis
    <3>. QED
      BY <3>1, FreshBegins
  <2>. QED
    BY <1>1, <2>1, <2>2, <2>3
<1>2. ASSUME NEW c \in Connections, Refuse(c) \/ Lose(c)
      PROVE  FreshInv'
  BY <1>2, FreshStill DEF Refuse, Lose, redis
<1>3. ASSUME NEW u \in Users, NEW s \in Desired, UpdatePresence(u, s)
      PROVE  FreshInv'
  BY <1>3, FreshStill DEF UpdatePresence, redis
<1>4. CASE Restart
  BY <1>4, FreshStill DEF Restart, redis
<1>5. ASSUME NEW c \in Connections, ExpirationDue(c)
      PROVE  FreshInv'
  <2>1. \A j \in Jobs : job[j].kind = "track" => job[j].conn # c
    BY <1>5, TrackTyped DEF ExpirationDue, MayPass
  <2>2. /\ expiration[c] = "pending" /\ expiration'[c] = "due"
        /\ \A d \in Connections : d # c => expiration'[d] = expiration[d]
    BY <1>5 DEF ExpirationDue, BaseInv, ProgramTypeOK
  <2>3. job' = job /\ socket' = socket
    BY <1>5 DEF ExpirationDue
  <2>. QED
    BY <2>1, <2>2, <2>3, FreshStill
<1>6. ASSUME NEW u \in Users, CandidateDue(u) \/ TrackedExpires(u)
      PROVE  FreshInv'
  BY <1>6, FreshStill DEF CandidateDue, TrackedExpires
<1>7. CASE UNCHANGED vars
  BY <1>7, FreshStill DEF vars, program, redis
<1>. QED
  BY <1>1, <1>2, <1>3, <1>4, <1>5, <1>6, <1>7 DEF SocketStep, SocketEvent, TimePasses

KnownInv == FreshInv /\ HeldInv /\ OnlineInv

LEMMA KnownStep ==
  ASSUME BaseInv, TrackedInv, KnownInv, [Next]_vars
  PROVE  KnownInv'
<1>. excused \subseteq excused'
  BY ExcusedTyped
<1>1. FreshInv'
  BY FreshStore, FreshDrop, FreshSweep, FreshStatus, FreshSocket
  DEF Next, Plain, SocketStep, KnownInv
<1>2. HeldInv' /\ OnlineInv'
  BY StoreEnd, DropEnd, SweepEnd, StatusEnd, SocketEnd
  DEF Next, Plain, SocketStep, KnownInv
<1>. QED
  BY <1>1, <1>2 DEF KnownInv

LEMMA KnownInit ==
  ASSUME Init
  PROVE  KnownInv
<1>. None \notin Connections
  BY ConstantsAssumption
<1>1. FreshInv
  BY IdleIsSound DEF Init, FreshInv, Tracks
<1>2. HeldInv
  BY IdleIsSound DEF Init, HeldInv, Withdraws
<1>3. OnlineInv
  BY DEF Init, OnlineInv
<1>. QED
  BY <1>1, <1>2, <1>3 DEF KnownInv

LEMMA KnownAtRest ==
  ASSUME BaseInv, OnlineInv
  PROVE  NobodyForgotten
<1>. SUFFICES ASSUME AtRest, NEW u \in Users, u \notin excused, status[u] # "offline"
              PROVE  \/ candidate[u] # "none"
                     \/ \E c \in SocketsOf(u) : expiration[c] # "none"
  BY DEF NobodyForgotten
<1>1. \A j \in Jobs : job[j] = IdleJob
  BY Kinds DEF AtRest
<1>2. \A j \in Jobs : ~WillCount(job[j], u) /\ ~WillEnd(job[j], u)
  BY <1>1, StoreEndsNothing, IdleIsSound
<1>3. \A j \in Jobs, c \in Connections : ~Storing(j, c)
  BY <1>1, IdleIsSound DEF Storing
<1>. QED
  BY <1>2, <1>3 DEF OnlineInv, Known, Scored, Covered, SocketsOf

(* However many sockets, handlers and sweeps overlap, whatever fails and    *)
(* whenever sockets close: when nothing runs, Redis knows every user who is *)
(* shown as anything but offline, but for those whose records the code gave *)
(* up: by a PATCH of somebody Redis has no connection of, a socket that     *)
(* closed while it was being tracked, or a statement of the sweep that      *)
(* failed when it had removed the candidate.                                *)
THEOREM NobodyIsForgotten == Spec => []NobodyForgotten
<1>1. Init => BaseInv /\ TrackedInv /\ KnownInv
  <2>. SUFFICES ASSUME Init
                PROVE  BaseInv /\ TrackedInv /\ KnownInv
    OBVIOUS
  <2>. QED
    BY BaseInit, KnownInit DEF Init, TrackedInv
<1>2. BaseInv /\ TrackedInv /\ KnownInv /\ [Next]_vars => (BaseInv /\ TrackedInv /\ KnownInv)'
  BY BaseStep, TrackedStep, KnownStep
<1>3. BaseInv /\ TrackedInv /\ KnownInv => NobodyForgotten
  BY KnownAtRest DEF KnownInv
<1>. QED
  BY <1>1, <1>2, <1>3, PTL DEF Spec

=============================================================================
