-------------------------- MODULE MediaPlaneProofs --------------------------
(***************************************************************************)
(* Theorems about MediaPlane for any sets of channels, sessions, routers,  *)
(* transports, requests, workers and deaths.                               *)
(***************************************************************************)
EXTENDS MediaPlane, TLAPS

-----------------------------------------------------------------------------
(* The queues between the three programs.                                   *)

In(q, j) == \E i \in 1..Len(q) : q[i] = j

Once(q) == \A i, k \in 1..Len(q) : q[i] = q[k] => i = k

(* A question that nobody has answered.                                     *)
Asked(r) == r.pc \in Questions /\ ~r.ok

(* A job awaits at most one answer, so it is in at most one place; and it   *)
(* is at the step that the others expect of it there.  Of queues m to the   *)
(* media process, w to its workers and a to the API, with jobs jb.          *)
Orderly(m, w, a, jb) ==
    /\ Once(m) /\ Once(a)
    /\ \A v \in Workers : Once(w[v])
    /\ \A j \in Jobs : In(m, j) => Asked(jb[j]) /\ ~In(a, j)
    /\ \A v \in Workers : \A j \in Jobs :
         In(w[v], j) => Asked(jb[j]) /\ ~In(m, j) /\ ~In(a, j)
    /\ \A v, x \in Workers : \A j \in Jobs : In(w[v], j) /\ In(w[x], j) => v = x
    /\ \A j \in Jobs : In(a, j) => jb[j].pc \in Questions \cup {"died"}

Unqueued(j, m, w, a) ==
    /\ ~In(m, j) /\ ~In(a, j)
    /\ \A v \in Workers : ~In(w[v], j)

QueueInv == Orderly(toMedia, toWorker, toApi, job)

(* A job whose answer has been read is in no queue.                         *)
SettledInv ==
    \A j \in settled :
        job[j].pc \in Questions /\ Unqueued(j, toMedia, toWorker, toApi)

-----------------------------------------------------------------------------
(* What the record of a job holds, depending on its step.                   *)

Creating == {"createTransport", "recordTransport"}
Producing == {"askProducer", "produce", "watch", "recordProducer"}

Sound(j, r) ==
    /\ j \in Handlers => r.pc \notin {"died", "endChannels"}
    /\ j \in Deaths => r.pc \in {"idle", "died", "endChannels"} /\ r.transport = None
    /\ r.pc = "observe" => r.router \in Routers
    /\ r.pc = "createRouter" /\ r.ok => r.router \in Routers
    /\ r.pc \in {"askTransport", "askProducer", "readEnded"} => ~r.ok
    /\ r.pc \in {"readEnded", "release"} => r.session \in Sessions
    /\ r.pc \in {"createRouter", "observe", "insert"} => r.channel \in Channels
    /\ r.transport # None => r.pc \in Creating \cup Producing
    /\ r.pc \in Producing => r.transport # None

JobInv == \A j \in Jobs : Sound(j, job[j])

(* A row is inserted with its channel.                                      *)
ChannelInv == \A s \in Sessions : row[s].status # "absent" => row[s].channel \in Channels

TypeInv == TypeOK /\ JobInv /\ ChannelInv

-----------------------------------------------------------------------------
(* Routers.                                                                 *)

(* The map of the media process has no router that is gone.                 *)
KnownInv ==
    \A c \in Channels : known[c] # None =>
        /\ router[known[c]].worker \in Workers
        /\ router[known[c]].channel = c

(* A worker is asked for observers of its own routers.                      *)
ObserveInv ==
    \A w \in Workers : \A j \in Jobs :
        In(toWorker[w], j) /\ job[j].pc = "observe" => router[job[j].router].worker = w

(* A result that makes the API store a router that is gone.                 *)
Stale(r, routers) == /\ r.pc = "observe"
                     /\ r.ok
                     /\ routers[r.router].worker = "gone"

(* Behind it, the API will read that a worker has died.                     *)
InOrder(a, jb, routers) ==
    \A i \in 1..Len(a) : Stale(jb[a[i]], routers) =>
        \E k \in i + 1..Len(a) : jb[a[k]].pc = "died"

OrderInv == InOrder(toApi, job, router)

Death == \E e \in Deaths : job[e].pc = "died"

(* The API has read such a result already: the news is yet to come, or has  *)
(* come in the same chunk.                                                  *)
ReadInv == \A j \in settled : Stale(job[j], router) => Death \/ job[j].router \in late

RouterInv == TypeInv /\ QueueInv /\ SettledInv /\ KnownInv /\ ObserveInv /\ OrderInv
                     /\ ReadInv /\ RegistryIsAlive

-----------------------------------------------------------------------------
(* Transports.                                                              *)

Holds(r, t) == t \in {r.send, r.recv, r.producer}

(* A transport that is not there yet is nowhere named.                      *)
AbsentInv ==
    \A t \in Transports : transport[t].status = "absent" =>
        /\ \A s \in Sessions : ~Holds(row[s], t)
        /\ \A j \in Jobs : job[j].transport # t

(* One row at most names a transport, and one job at most works on it.      *)
SingleInv ==
    \A t \in Transports :
        /\ \A s, q \in Sessions : Holds(row[s], t) /\ Holds(row[q], t) => s = q
        /\ \A j, k \in Jobs : job[j].transport = t /\ job[k].transport = t => j = k

(* Until the API has recorded it, no row names a new transport or producer. *)
UnrecordedInv ==
    \A j \in Jobs, s \in Sessions, t \in Transports : job[j].transport = t =>
        /\ job[j].pc \in Creating => ~Holds(row[s], t)
        /\ job[j].pc \in Producing =>
             /\ row[s].producer # t
             /\ Holds(row[s], t) => s = job[j].session

(* The row of an ended session does not change: what releaseSession has     *)
(* read of it stays true.                                                   *)
EndedInv ==
    \A j \in Jobs : job[j].pc \in {"readEnded", "release"} =>
        /\ row[job[j].session].status \in {"ended", "failed"}
        /\ job[j].pc = "release" => job[j].ended = row[job[j].session]

TransportInv == TypeInv /\ AbsentInv /\ SingleInv /\ UnrecordedInv /\ EndedInv
                        /\ RecordedIsReleased

-----------------------------------------------------------------------------
(* Sequences without repetition.                                            *)

LEMMA AppendAdds ==
  ASSUME NEW q \in Seq(Jobs), NEW j \in Jobs
  PROVE  /\ Append(q, j) \in Seq(Jobs)
         /\ \A x : In(Append(q, j), x) <=> In(q, x) \/ x = j
         /\ Once(q) /\ ~In(q, j) => Once(Append(q, j))
<1>1. /\ Append(q, j) \in Seq(Jobs)
      /\ Len(Append(q, j)) = Len(q) + 1
      /\ \A i \in 1..Len(q) : Append(q, j)[i] = q[i]
      /\ Append(q, j)[Len(q) + 1] = j
  OBVIOUS
<1>2. ASSUME NEW x
      PROVE  In(Append(q, j), x) <=> In(q, x) \/ x = j
  <2>1. ASSUME In(q, x)
        PROVE  In(Append(q, j), x)
    <3>. PICK i \in 1..Len(q) : q[i] = x
      BY <2>1 DEF In
    <3>. i \in 1..Len(Append(q, j)) /\ Append(q, j)[i] = x
      BY <1>1
    <3>. QED
      BY DEF In
  <2>2. In(Append(q, j), j)
    <3>. Len(q) + 1 \in 1..Len(Append(q, j))
      BY <1>1
    <3>. QED
      BY <1>1 DEF In
  <2>3. ASSUME In(Append(q, j), x), x # j
        PROVE  In(q, x)
    <3>. PICK i \in 1..Len(Append(q, j)) : Append(q, j)[i] = x
      BY <2>3 DEF In
    <3>. i \in 1..Len(q)
      BY <1>1, <2>3
    <3>. QED
      BY <1>1 DEF In
  <2>. QED
    BY <2>1, <2>2, <2>3
<1>3. ASSUME Once(q), ~In(q, j)
      PROVE  Once(Append(q, j))
  <2>. SUFFICES ASSUME NEW i \in 1..Len(q) + 1, NEW k \in 1..Len(q) + 1,
                       Append(q, j)[i] = Append(q, j)[k]
                PROVE  i = k
    BY <1>1 DEF Once
  <2>1. CASE i \in 1..Len(q) /\ k \in 1..Len(q)
    BY <1>1, <1>3, <2>1 DEF Once
  <2>2. CASE i = Len(q) + 1 /\ k \in 1..Len(q)
    BY <1>1, <1>3, <2>2 DEF In
  <2>3. CASE k = Len(q) + 1 /\ i \in 1..Len(q)
    BY <1>1, <1>3, <2>3 DEF In
  <2>. QED
    BY <2>1, <2>2, <2>3
<1>. QED
  BY <1>1, <1>2, <1>3

LEMMA TailDrops ==
  ASSUME NEW q \in Seq(Jobs), q # <<>>
  PROVE  /\ Tail(q) \in Seq(Jobs)
         /\ Head(q) \in Jobs
         /\ In(q, Head(q))
         /\ \A x : In(Tail(q), x) => In(q, x)
         /\ Once(q) => Once(Tail(q)) /\ ~In(Tail(q), Head(q))
<1>1. /\ Tail(q) \in Seq(Jobs)
      /\ Len(q) > 0 /\ Len(q) \in Nat
      /\ Len(Tail(q)) = Len(q) - 1
      /\ \A i \in 1..Len(q) - 1 : Tail(q)[i] = q[i + 1]
      /\ Head(q) = q[1]
      /\ Head(q) \in Jobs
  OBVIOUS
<1>2. In(q, Head(q))
  BY <1>1 DEF In
<1>3. ASSUME NEW x, In(Tail(q), x)
      PROVE  In(q, x)
  <2>. PICK i \in 1..Len(q) - 1 : Tail(q)[i] = x
    BY <1>1, <1>3 DEF In
  <2>. i + 1 \in 1..Len(q) /\ q[i + 1] = x
    BY <1>1
  <2>. QED
    BY DEF In
<1>4. ASSUME Once(q)
      PROVE  Once(Tail(q)) /\ ~In(Tail(q), Head(q))
  <2>1. ASSUME NEW i \in 1..Len(q) - 1, NEW k \in 1..Len(q) - 1, Tail(q)[i] = Tail(q)[k]
        PROVE  i = k
    <3>. /\ i + 1 \in 1..Len(q) /\ k + 1 \in 1..Len(q)
         /\ q[i + 1] = q[k + 1]
      BY <1>1, <2>1
    <3>. i + 1 = k + 1
      BY <1>4 DEF Once
    <3>. QED
      OBVIOUS
  <2>2. ASSUME NEW i \in 1..Len(q) - 1, Tail(q)[i] = Head(q)
        PROVE  FALSE
    <3>. /\ i + 1 \in 1..Len(q) /\ 1 \in 1..Len(q)
         /\ q[i + 1] = q[1]
      BY <1>1, <2>2
    <3>. i + 1 = 1
      BY <1>4 DEF Once
    <3>. QED
      OBVIOUS
  <2>. QED
    BY <1>1, <2>1, <2>2 DEF Once, In
<1>. QED
  BY <1>1, <1>2, <1>3, <1>4

LEMMA ConcatAdds ==
  ASSUME NEW q \in Seq(Jobs), NEW p \in Seq(Jobs)
  PROVE  /\ q \o p \in Seq(Jobs)
         /\ \A x : In(q \o p, x) => In(q, x) \/ In(p, x)
         /\ Once(q) /\ Once(p) /\ (\A x \in Jobs : ~(In(q, x) /\ In(p, x))) => Once(q \o p)
<1>1. /\ q \o p \in Seq(Jobs)
      /\ Len(q) \in Nat /\ Len(p) \in Nat
      /\ Len(q \o p) = Len(q) + Len(p)
      /\ \A i \in 1..Len(q) : (q \o p)[i] = q[i] /\ q[i] \in Jobs
      /\ \A i \in 1..Len(q) + Len(p) : i > Len(q) => (q \o p)[i] = p[i - Len(q)]
  OBVIOUS
<1>2. ASSUME NEW x, In(q \o p, x)
      PROVE  In(q, x) \/ In(p, x)
  <2>. PICK i \in 1..Len(q) + Len(p) : (q \o p)[i] = x
    BY <1>1, <1>2 DEF In
  <2>1. CASE i \in 1..Len(q)
    BY <1>1, <2>1 DEF In
  <2>2. CASE i > Len(q)
    <3>. i - Len(q) \in 1..Len(p) /\ p[i - Len(q)] = x
      BY <1>1, <2>2
    <3>. QED
      BY DEF In
  <2>. QED
    BY <1>1, <2>1, <2>2
<1>3. ASSUME Once(q), Once(p), \A x \in Jobs : ~(In(q, x) /\ In(p, x))
      PROVE  Once(q \o p)
  <2>. SUFFICES ASSUME NEW i \in 1..Len(q) + Len(p), NEW k \in 1..Len(q) + Len(p),
                       (q \o p)[i] = (q \o p)[k]
                PROVE  i = k
    BY <1>1 DEF Once
  <2>1. CASE i \in 1..Len(q) /\ k \in 1..Len(q)
    BY <1>1, <1>3, <2>1 DEF Once
  <2>2. CASE i > Len(q) /\ k > Len(q)
    <3>. /\ i - Len(q) \in 1..Len(p) /\ k - Len(q) \in 1..Len(p)
         /\ p[i - Len(q)] = p[k - Len(q)]
      BY <1>1, <2>2
    <3>. i - Len(q) = k - Len(q)
      BY <1>3 DEF Once
    <3>. QED
      BY <1>1
  <2>3. ASSUME NEW n \in 1..Len(q), NEW m \in 1..Len(q) + Len(p), m > Len(q),
               (q \o p)[n] = (q \o p)[m]
        PROVE  FALSE
    <3>. m - Len(q) \in 1..Len(p) /\ p[m - Len(q)] = q[n] /\ q[n] \in Jobs
      BY <1>1, <2>3
    <3>. In(p, q[n]) /\ In(q, q[n])
      BY DEF In
    <3>. QED
      BY <1>3
  <2>4. i \in 1..Len(q) \/ i > Len(q)
    BY <1>1
  <2>5. k \in 1..Len(q) \/ k > Len(q)
    BY <1>1
  <2>. QED
    BY <2>1, <2>2, <2>3, <2>4, <2>5
<1>. QED
  BY <1>1, <1>2, <1>3

-----------------------------------------------------------------------------
(* Taking a job out of its queue and putting it into another.               *)

LEMMA TakeFromMedia ==
  ASSUME NEW m \in Seq(Jobs), NEW w \in [Workers -> Seq(Jobs)], NEW a \in Seq(Jobs), NEW jb,
         Orderly(m, w, a, jb), m # <<>>
  PROVE  /\ Tail(m) \in Seq(Jobs)
         /\ Head(m) \in Jobs
         /\ Asked(jb[Head(m)])
         /\ Orderly(Tail(m), w, a, jb)
         /\ Unqueued(Head(m), Tail(m), w, a)
BY TailDrops DEF Orderly, Unqueued

LEMMA TakeFromApi ==
  ASSUME NEW m \in Seq(Jobs), NEW w \in [Workers -> Seq(Jobs)], NEW a \in Seq(Jobs), NEW jb,
         Orderly(m, w, a, jb), a # <<>>
  PROVE  /\ Tail(a) \in Seq(Jobs)
         /\ Head(a) \in Jobs
         /\ Orderly(m, w, Tail(a), jb)
         /\ Unqueued(Head(a), m, w, Tail(a))
BY TailDrops DEF Orderly, Unqueued

LEMMA TakeFromWorker ==
  ASSUME NEW m \in Seq(Jobs), NEW w \in [Workers -> Seq(Jobs)], NEW a \in Seq(Jobs), NEW jb,
         NEW v \in Workers, Orderly(m, w, a, jb), w[v] # <<>>
  PROVE  LET rest == [w EXCEPT ![v] = Tail(@)]
         IN  /\ rest \in [Workers -> Seq(Jobs)]
             /\ Head(w[v]) \in Jobs
             /\ In(w[v], Head(w[v]))
             /\ Asked(jb[Head(w[v])])
             /\ Orderly(m, rest, a, jb)
             /\ Unqueued(Head(w[v]), m, rest, a)
<1>. DEFINE rest == [w EXCEPT ![v] = Tail(@)]
            j == Head(w[v])
<1>1. /\ w[v] \in Seq(Jobs)
      /\ Tail(w[v]) \in Seq(Jobs)
      /\ j \in Jobs
      /\ In(w[v], j)
      /\ \A x : In(Tail(w[v]), x) => In(w[v], x)
      /\ Once(Tail(w[v])) /\ ~In(Tail(w[v]), j)
  BY TailDrops DEF Orderly
<1>2. /\ rest \in [Workers -> Seq(Jobs)]
      /\ rest[v] = Tail(w[v])
      /\ \A x \in Workers : x # v => rest[x] = w[x]
  BY <1>1
<1>3. \A x \in Workers : \A k : In(rest[x], k) => In(w[x], k)
  BY <1>1, <1>2
<1>4. Orderly(m, rest, a, jb)
  BY <1>1, <1>2, <1>3 DEF Orderly
<1>5. Unqueued(j, m, rest, a)
  BY <1>1, <1>2, <1>3 DEF Orderly, Unqueued
<1>. QED
  BY <1>1, <1>2, <1>4, <1>5 DEF Orderly

LEMMA PutToMedia ==
  ASSUME NEW m \in Seq(Jobs), NEW w \in [Workers -> Seq(Jobs)], NEW a \in Seq(Jobs),
         NEW jb \in [Jobs -> Job], Orderly(m, w, a, jb),
         NEW j \in Jobs, Unqueued(j, m, w, a), NEW r, Asked(r)
  PROVE  /\ Append(m, j) \in Seq(Jobs)
         /\ Orderly(Append(m, j), w, a, [jb EXCEPT ![j] = r])
BY AppendAdds DEF Orderly, Unqueued

LEMMA PutToApi ==
  ASSUME NEW m \in Seq(Jobs), NEW w \in [Workers -> Seq(Jobs)], NEW a \in Seq(Jobs),
         NEW jb \in [Jobs -> Job], Orderly(m, w, a, jb),
         NEW j \in Jobs, Unqueued(j, m, w, a), NEW r, r.pc \in Questions \cup {"died"}
  PROVE  /\ Append(a, j) \in Seq(Jobs)
         /\ Orderly(m, w, Append(a, j), [jb EXCEPT ![j] = r])
BY AppendAdds DEF Orderly, Unqueued

LEMMA PutToWorker ==
  ASSUME NEW m \in Seq(Jobs), NEW w \in [Workers -> Seq(Jobs)], NEW a \in Seq(Jobs),
         NEW jb \in [Jobs -> Job], Orderly(m, w, a, jb),
         NEW j \in Jobs, Unqueued(j, m, w, a), NEW r, Asked(r), NEW v \in Workers
  PROVE  LET more == [w EXCEPT ![v] = Append(@, j)]
         IN  /\ more \in [Workers -> Seq(Jobs)]
             /\ Orderly(m, more, a, [jb EXCEPT ![j] = r])
<1>. DEFINE more == [w EXCEPT ![v] = Append(@, j)]
            jobs == [jb EXCEPT ![j] = r]
<1>1. /\ w[v] \in Seq(Jobs)
      /\ Append(w[v], j) \in Seq(Jobs)
      /\ \A x : In(Append(w[v], j), x) <=> In(w[v], x) \/ x = j
      /\ Once(Append(w[v], j))
  BY AppendAdds DEF Orderly, Unqueued
<1>2. /\ more \in [Workers -> Seq(Jobs)]
      /\ more[v] = Append(w[v], j)
      /\ \A x \in Workers : x # v => more[x] = w[x]
  BY <1>1
<1>3. jobs[j] = r /\ \A k \in Jobs : k # j => jobs[k] = jb[k]
  OBVIOUS
<1>4. \A x \in Workers : \A k : In(more[x], k) => In(w[x], k) \/ (k = j /\ x = v)
  BY <1>1, <1>2
<1>5. \A x \in Workers : Once(more[x])
  BY <1>1, <1>2 DEF Orderly
<1>. HIDE DEF more, jobs
<1>6. Orderly(m, more, a, jobs)
  <2>1. \A x \in Workers : \A k \in Jobs :
          In(more[x], k) => Asked(jobs[k]) /\ ~In(m, k) /\ ~In(a, k)
    BY <1>3, <1>4 DEF Orderly, Unqueued
  <2>2. \A x, y \in Workers : \A k \in Jobs : In(more[x], k) /\ In(more[y], k) => x = y
    BY <1>4 DEF Orderly, Unqueued
  <2>3. /\ \A k \in Jobs : In(m, k) => Asked(jobs[k]) /\ ~In(a, k)
        /\ \A k \in Jobs : In(a, k) => jobs[k].pc \in Questions \cup {"died"}
    BY <1>3 DEF Orderly, Unqueued
  <2>. QED
    BY <1>5, <2>1, <2>2, <2>3 DEF Orderly
<1>. QED
  BY <1>2, <1>6 DEF more, jobs

(* The record of a job in no queue may be any.                              *)
LEMMA ChangeUnqueued ==
  ASSUME NEW m, NEW w, NEW a, NEW jb \in [Jobs -> Job], Orderly(m, w, a, jb),
         NEW j \in Jobs, Unqueued(j, m, w, a), NEW r
  PROVE  Orderly(m, w, a, [jb EXCEPT ![j] = r])
BY DEF Orderly, Unqueued

(* A job that awaits nothing of the media process is in no queue.           *)
LEMMA OthersAreUnqueued ==
  ASSUME NEW m, NEW w, NEW a, NEW jb, Orderly(m, w, a, jb),
         NEW j \in Jobs, jb[j].pc \notin Questions \cup {"died"}
  PROVE  Unqueued(j, m, w, a)
BY DEF Orderly, Unqueued, Asked

-----------------------------------------------------------------------------
(* Types, and what the record of a job holds.                               *)

(* Job j goes on to a record of its type, fit for its step.                 *)
Moves(j, r) == r \in Job /\ Sound(j, r) /\ Become(j, r)

LEMMA MovesKeep ==
  ASSUME TypeInv, NEW j \in Jobs, NEW r, Moves(j, r)
  PROVE  /\ job' \in [Jobs -> Job]
         /\ JobInv'
         /\ job'[j] = r
         /\ \A k \in Jobs : k # j => job'[k] = job[k]
BY DEF TypeInv, TypeOK, JobInv, Moves, Become

LEMMA IdleIsSound ==
  ASSUME NEW j
  PROVE  IdleJob \in Job /\ Sound(j, IdleJob)
BY ConstantsAssumption
DEF IdleJob, Job, Steps, Questions, Row, NoRow, Sound, Jobs, Creating, Producing

LEMMA NoNone ==
  /\ \A c \in Channels : c # None
  /\ \A r \in Routers : r # None
  /\ \A t \in Transports : t # None
  /\ \A w \in Workers : w # None /\ w # "gone"
  /\ \A h \in Handlers : h \notin Deaths
BY ConstantsAssumption

LEMMA GetOrCreateRouterMoves ==
  ASSUME TypeInv, NEW h \in Handlers, NEW r0 \in Job, GetOrCreateRouter(h, r0),
         r0.channel \in Channels, r0.pc = "idle", r0.transport = None, ~r0.ok
  PROVE  \/ \E q \in Routers \cup {None} : Moves(h, WithRouter([r0 EXCEPT !.router = q]))
                                           /\ UNCHANGED toMedia
         \/ Moves(h, [r0 EXCEPT !.pc = "createRouter"])
            /\ toMedia' = Append(toMedia, h)
<1>1. [r0 EXCEPT !.pc = "createRouter"] \in Job
      /\ Sound(h, [r0 EXCEPT !.pc = "createRouter"])
  BY NoNone DEF Job, Steps, Questions, Sound, Creating, Producing
<1>2. ASSUME NEW q \in Routers \cup {None}
      PROVE  /\ [r0 EXCEPT !.router = q, !.pc = "insert"] \in Job
             /\ Sound(h, [r0 EXCEPT !.router = q, !.pc = "insert"])
  BY NoNone DEF Job, Steps, Sound, Creating, Producing
<1>3. ASSUME NEW q
      PROVE  [[r0 EXCEPT !.router = q] EXCEPT !.pc = "insert"]
               = [r0 EXCEPT !.router = q, !.pc = "insert"]
  OBVIOUS
<1>4. registry[r0.channel] \in Routers \cup {None}
  BY DEF TypeInv, TypeOK
<1>5. ASSUME NEW q \in Routers \cup {None}
      PROVE  /\ WithRouter([r0 EXCEPT !.router = q]) \in Job
             /\ Sound(h, WithRouter([r0 EXCEPT !.router = q]))
  BY <1>2, <1>3, IdleIsSound DEF WithRouter
<1>. QED
  BY <1>1, <1>4, <1>5 DEF GetOrCreateRouter, Ask, Moves

LEMMA RequestMoves ==
  ASSUME TypeInv, NEW h \in Handlers, Request(h)
  PROVE  \E r : Moves(h, r)
<1>1. ASSUME NEW c \in Channels, Join(h, c)
      PROVE  \E r : Moves(h, r)
  <2>. DEFINE r0 == [IdleJob EXCEPT !.channel = c, !.joins = TRUE]
  <2>1. r0 \in Job /\ r0.channel = c /\ r0.pc = "idle" /\ r0.transport = None /\ ~r0.ok
    BY IdleIsSound DEF IdleJob, Job
  <2>. QED
    BY <1>1, <2>1, GetOrCreateRouterMoves DEF Join
<1>2. ASSUME NEW s \in Sessions, RouterCapabilities(h, s)
      PROVE  \E r : Moves(h, r)
  <2>. DEFINE r0 == [IdleJob EXCEPT !.channel = row[s].channel]
  <2>1. row[s].channel \in Channels
    BY <1>2 DEF RouterCapabilities, TypeInv, ChannelInv
  <2>2. r0 \in Job /\ r0.channel = row[s].channel
        /\ r0.pc = "idle" /\ r0.transport = None /\ ~r0.ok
    BY <2>1, IdleIsSound DEF IdleJob, Job
  <2>3. GetOrCreateRouter(h, r0)
    BY <1>2 DEF RouterCapabilities
  <2>. HIDE DEF r0
  <2>. QED
    BY <2>1, <2>2, <2>3, GetOrCreateRouterMoves
<1>3. ASSUME NEW s \in Sessions, Produce(h, s)
      PROVE  \E r : Moves(h, r)
  <2>. DEFINE r == [IdleJob EXCEPT !.pc = "askProducer", !.session = s,
                                   !.transport = row[s].send]
  <2>1. row[s].send \in Transports \cup {None}
    BY DEF TypeInv, TypeOK, Row
  <2>2. r \in Job
    BY <2>1, IdleIsSound DEF Job, Steps
  <2>3. r.pc = "askProducer" /\ r.transport # None /\ ~r.ok
    BY <1>3 DEF Produce, IdleJob
  <2>4. Sound(h, r)
    BY <2>3, NoNone DEF Sound, Creating, Producing
  <2>. QED
    BY <1>3, <2>2, <2>4 DEF Produce, Moves
<1>4. ASSUME NEW s \in Sessions, EndSession(h, s)
      PROVE  \E r : Moves(h, r)
  <2>. DEFINE r == [IdleJob EXCEPT !.pc = "readEnded", !.session = s]
  <2>1. r \in Job
    BY IdleIsSound DEF Job, Steps
  <2>2. Sound(h, r)
    BY NoNone DEF IdleJob, Sound, Creating, Producing
  <2>. QED
    BY <1>4, <2>1, <2>2 DEF EndSession, Moves
<1>5. ASSUME NEW s \in Sessions, NEW d \in Directions, CreateTransport(h, s, d)
      PROVE  \E r : Moves(h, r)
  <2>. DEFINE r == [IdleJob EXCEPT !.pc = "askTransport", !.session = s,
                                   !.direction = d, !.router = row[s].router]
  <2>1. row[s].router \in Routers \cup {None}
    BY DEF TypeInv, TypeOK, Row
  <2>2. r \in Job
    BY <2>1, ConstantsAssumption, IdleIsSound DEF Job, Steps
  <2>3. Sound(h, r)
    BY NoNone DEF IdleJob, Sound, Creating, Producing
  <2>. QED
    BY <1>5, <2>2, <2>3 DEF CreateTransport, Moves
<1>. QED
  BY <1>1, <1>2, <1>3, <1>4, <1>5 DEF Request

LEMMA EndChannelsJobIsSound ==
  ASSUME NEW j \in Jobs, j \notin Handlers, NEW S \in SUBSET Channels
  PROVE  EndChannelsJob(S) \in Job /\ Sound(j, EndChannelsJob(S))
<1>. DEFINE r == [IdleJob EXCEPT !.pc = "endChannels", !.channels = S]
<1>1. r \in Job
  BY IdleIsSound DEF Job, Steps
<1>2. Sound(j, r)
  BY DEF IdleJob, Sound, Creating, Producing
<1>. QED
  BY <1>1, <1>2, IdleIsSound DEF EndChannelsJob

LEMMA DatabaseMoves ==
  ASSUME TypeInv, NEW j \in Jobs, DatabaseStep(j)
  PROVE  \E r : Moves(j, r)
<1>. job[j] \in Job /\ Sound(j, job[j]) /\ row \in [Sessions -> Row]
  BY DEF TypeInv, TypeOK, JobInv
<1>1. ASSUME Become(j, IdleJob)
      PROVE  \E r : Moves(j, r)
  BY <1>1, IdleIsSound DEF Moves
<1>2. CASE AskTransport(j)
  <2>. DEFINE r == [job[j] EXCEPT !.pc = "createTransport"]
  <2>1. r \in Job
    BY DEF Job, Steps, Questions
  <2>2. r.pc = "createTransport" /\ r.transport = job[j].transport /\ r.ok = job[j].ok
    BY DEF Job
  <2>3. Sound(j, r)
    BY <1>2, <2>1, <2>2 DEF AskTransport, Sound, Jobs, Creating, Producing
  <2>. QED
    BY <1>2, <2>1, <2>3 DEF AskTransport, Ask, Moves
<1>3. CASE AskProducer(j)
  <2>. DEFINE r == [job[j] EXCEPT !.pc = "produce"]
  <2>1. r \in Job
    BY DEF Job, Steps, Questions
  <2>2. r.pc = "produce" /\ r.transport = job[j].transport /\ r.ok = job[j].ok
    BY DEF Job
  <2>3. Sound(j, r)
    BY <1>3, <2>1, <2>2 DEF AskProducer, Sound, Jobs, Creating, Producing
  <2>. QED
    BY <1>3, <2>1, <2>3 DEF AskProducer, Ask, Moves
<1>4. CASE ReadEnded(j)
  <2>. DEFINE r == [job[j] EXCEPT !.pc = "release", !.ended = row[job[j].session]]
  <2>1. job[j].pc = "readEnded" /\ job[j].session \in Sessions /\ j \notin Deaths
    BY <1>4 DEF ReadEnded, Sound
  <2>2. r \in Job
    BY <2>1 DEF Job, Steps, Questions
  <2>3. r.pc = "release" /\ r.transport = job[j].transport /\ r.session = job[j].session
    BY DEF Job
  <2>4. Sound(j, r)
    BY <2>1, <2>2, <2>3 DEF Sound, Creating, Producing
  <2>. QED
    BY <1>4, <2>2, <2>4 DEF ReadEnded, Ask, Moves
<1>5. CASE EndChannel(j)
  <2>1. job[j].pc = "endChannels" /\ j \notin Handlers /\ job[j].channels \subseteq Channels
    BY <1>5 DEF EndChannel, Sound, Job
  <2>2. \A c : EndChannelsJob(job[j].channels \ {c}) \in Job
               /\ Sound(j, EndChannelsJob(job[j].channels \ {c}))
    BY <2>1, EndChannelsJobIsSound
  <2>. QED
    BY <1>5, <2>2 DEF EndChannel, Moves
<1>. QED
  BY <1>1, <1>2, <1>3, <1>4, <1>5
  DEF DatabaseStep, Insert, RecordTransport, RecordProducer, Fail

(* An answer with a result or an error and nothing else.                    *)
LEMMA PlainReplyMoves ==
  ASSUME TypeInv, NEW j \in Jobs, NEW ok \in BOOLEAN, job[j].pc \in Questions,
         job[j].pc = "createRouter" => ~ok
  PROVE  LET r == [job[j] EXCEPT !.ok = ok]
         IN  r \in Job /\ Sound(j, r)
<1>. DEFINE r == [job[j] EXCEPT !.ok = ok]
<1>1. job[j] \in Job /\ Sound(j, job[j])
  BY DEF TypeInv, TypeOK, JobInv
<1>2. /\ r \in Job
      /\ r.pc = job[j].pc /\ r.ok = ok /\ r.router = job[j].router
      /\ r.channel = job[j].channel /\ r.transport = job[j].transport /\ r.session = job[j].session
  BY <1>1 DEF Job
<1>. HIDE DEF r
<1>3. Sound(j, r)
  BY <1>1, <1>2 DEF Sound, Questions
<1>. QED
  BY <1>2, <1>3 DEF r

LEMMA RouterReplyMoves ==
  ASSUME TypeInv, NEW j \in Jobs, job[j].pc = "createRouter", NEW q \in Routers
  PROVE  LET r == [Result(j) EXCEPT !.router = q]
         IN  r \in Job /\ Sound(j, r)
<1>. DEFINE r == [Result(j) EXCEPT !.router = q]
<1>1. job[j] \in Job /\ Sound(j, job[j])
  BY DEF TypeInv, TypeOK, JobInv
<1>2. /\ r \in Job
      /\ r.pc = job[j].pc /\ r.router = q /\ r.channel = job[j].channel
      /\ r.transport = job[j].transport /\ r.session = job[j].session
  BY <1>1 DEF Job, Result
<1>. HIDE DEF r
<1>3. Sound(j, r)
  BY <1>1, <1>2 DEF Sound
<1>. QED
  BY <1>2, <1>3 DEF r

LEMMA TransportReplyMoves ==
  ASSUME TypeInv, NEW j \in Jobs, job[j].pc = "createTransport", NEW t \in Transports
  PROVE  LET r == [Result(j) EXCEPT !.transport = t]
         IN  r \in Job /\ Sound(j, r)
<1>. DEFINE r == [Result(j) EXCEPT !.transport = t]
<1>1. job[j] \in Job /\ Sound(j, job[j])
  BY DEF TypeInv, TypeOK, JobInv
<1>2. /\ r \in Job
      /\ r.pc = "createTransport" /\ r.transport = t
  BY <1>1 DEF Job, Result
<1>. HIDE DEF r
<1>3. Sound(j, r)
  BY <1>1, <1>2 DEF Sound, Creating, Producing
<1>. QED
  BY <1>2, <1>3 DEF r

LEMMA MediaMoves ==
  ASSUME TypeInv, NEW j \in Jobs, MediaStep(j)
  PROVE  job' = job \/ \E r : Moves(j, r)
<1>1. ASSUME job[j].pc \in Questions, Reply(j, Failure(j)) \/ Reply(j, Result(j)),
             job[j].pc = "createRouter" => Reply(j, Failure(j))
      PROVE  \E r : Moves(j, r)
  BY <1>1, PlainReplyMoves DEF Reply, Failure, Result, Moves
<1>2. CASE ReadCreateRouter(j)
  <2>1. job[j].pc = "createRouter" /\ job[j].channel \in Channels
    BY <1>2 DEF ReadCreateRouter, Reads, TypeInv, JobInv, Sound
  <2>2. known[job[j].channel] \in Routers \cup {None}
    BY <2>1 DEF TypeInv, TypeOK
  <2>3. \A q \in Routers : Reply(j, [Result(j) EXCEPT !.router = q]) => \E r : Moves(j, r)
    BY <2>1, RouterReplyMoves DEF Reply, Moves
  <2>. QED
    BY <1>1, <1>2, <2>1, <2>2, <2>3 DEF ReadCreateRouter, AskWorker, Questions
<1>. QED
  BY <1>1, <1>2
  DEF MediaStep, ReadObserve, ReadCreateTransport, ReadProduce, ReadRelease, Reads,
      AskWorker, Questions

LEMMA WorkerMoves ==
  ASSUME TypeInv, NEW j \in Jobs, NEW w \in Workers, WorkerStep(j, w)
  PROVE  \E r : Moves(j, r)
<1>1. ASSUME job[j].pc \in Questions, Reply(j, Failure(j)) \/ Reply(j, Result(j)),
             job[j].pc = "createRouter" => Reply(j, Failure(j))
      PROVE  \E r : Moves(j, r)
  BY <1>1, PlainReplyMoves DEF Reply, Failure, Result, Moves
<1>2. CASE RouterCreated(j, w)
  BY <1>2, RouterReplyMoves DEF RouterCreated, WorkerAnswers, Reply, Moves
<1>3. CASE TransportCreated(j, w)
  BY <1>3, TransportReplyMoves DEF TransportCreated, WorkerAnswers, Reply, Moves
<1>4. ASSUME job[j].pc \in {"produce", "watch"}, NEW pc \in {"produce", "watch"},
             NEW ok \in BOOLEAN
      PROVE  LET r == [job[j] EXCEPT !.pc = pc, !.ok = ok]
             IN  r \in Job /\ Sound(j, r)
  <2>. DEFINE r == [job[j] EXCEPT !.pc = pc, !.ok = ok]
  <2>1. job[j] \in Job /\ Sound(j, job[j])
    BY DEF TypeInv, TypeOK, JobInv
  <2>2. r \in Job /\ r.pc = pc /\ r.transport = job[j].transport
    BY <2>1 DEF Job, Steps, Questions
  <2>. HIDE DEF r
  <2>3. Sound(j, r)
    BY <1>4, <2>1, <2>2 DEF Sound, Producing
  <2>. QED
    BY <2>2, <2>3 DEF r
<1>5. CASE ProducerToWatch(j, w)
  <2>1. [job[j] EXCEPT !.pc = "watch"] = [job[j] EXCEPT !.pc = "watch", !.ok = job[j].ok]
        /\ job[j].ok \in BOOLEAN
    BY DEF TypeInv, TypeOK, Job
  <2>. QED
    BY <1>4, <1>5, <2>1 DEF ProducerToWatch, Moves
<1>6. CASE ProducerWatched(j, w)
  <2>1. transport[job[j].transport].producing \in BOOLEAN
    <3>1. job[j] \in Job /\ Sound(j, job[j]) /\ job[j].pc = "watch"
      BY <1>6 DEF ProducerWatched, WorkerAnswers, TypeInv, TypeOK, JobInv
    <3>2. job[j].transport \in Transports
      BY <3>1 DEF Sound, Producing, Job
    <3>. QED
      BY <3>2 DEF TypeInv, TypeOK, Transport
  <2>. QED
    BY <1>4, <1>6, <2>1 DEF ProducerWatched, WorkerAnswers, Reply, Moves
<1>. QED
  BY <1>1, <1>2, <1>3, <1>5, <1>6
  DEF WorkerStep, ObserverCreated, ProducerCreated, WorkerRefuses, WorkerAnswers, Questions

LEMMA ApiMoves ==
  ASSUME TypeInv, NEW j \in Jobs, ApiStep(j)
  PROVE  \E r : Moves(j, r)
<1>. job[j] \in Job /\ Sound(j, job[j])
  BY DEF TypeInv, TypeOK, JobInv
<1>1. CASE GotRouter(j)
  <2>. DEFINE r == [job[j] EXCEPT !.pc = "observe", !.ok = FALSE]
  <2>1. job[j].pc = "createRouter" /\ job[j].ok
    BY <1>1 DEF GotRouter, Answered
  <2>2. /\ r \in Job /\ r.pc = "observe" /\ r.router = job[j].router
        /\ r.channel = job[j].channel /\ r.transport = job[j].transport
    BY DEF Job, Steps, Questions
  <2>3. Become(j, r)
    BY <1>1 DEF GotRouter, Ask
  <2>. HIDE DEF r
  <2>4. Sound(j, r)
    BY <2>1, <2>2 DEF Sound, Creating, Producing
  <2>. QED
    BY <2>2, <2>3, <2>4 DEF Moves
<1>2. CASE GotObserver(j)
  <2>. DEFINE r0 == [job[j] EXCEPT !.ok = FALSE]
              r == [r0 EXCEPT !.pc = "insert"]
  <2>1. job[j].pc = "observe"
    BY <1>2 DEF GotObserver, Answered
  <2>2. /\ r \in Job /\ r.pc = "insert" /\ r.ok = FALSE
        /\ r.channel = job[j].channel /\ r.transport = job[j].transport
    BY DEF Job, Steps
  <2>3. Become(j, r) \/ Become(j, IdleJob)
    BY <1>2 DEF GotObserver, WithRouter
  <2>. HIDE DEF r
  <2>4. Sound(j, r)
    BY <2>1, <2>2 DEF Sound, Creating, Producing
  <2>. QED
    BY <2>2, <2>3, <2>4, IdleIsSound DEF Moves
<1>3. CASE GotTransport(j)
  <2>. DEFINE r == [job[j] EXCEPT !.pc = "recordTransport"]
  <2>1. job[j].pc = "createTransport"
    BY <1>3 DEF GotTransport, Answered
  <2>2. r \in Job /\ r.pc = "recordTransport" /\ r.transport = job[j].transport
    BY DEF Job, Steps
  <2>3. Become(j, r)
    BY <1>3 DEF GotTransport
  <2>. HIDE DEF r
  <2>4. Sound(j, r)
    BY <2>1, <2>2 DEF Sound, Creating, Producing
  <2>. QED
    BY <2>2, <2>3, <2>4 DEF Moves
<1>4. CASE GotProducer(j)
  <2>. DEFINE r == [job[j] EXCEPT !.pc = "recordProducer"]
  <2>1. job[j].pc = "produce"
    BY <1>4 DEF GotProducer, Answered
  <2>2. r \in Job /\ r.pc = "recordProducer" /\ r.transport = job[j].transport
    BY DEF Job, Steps
  <2>3. Become(j, r)
    BY <1>4 DEF GotProducer
  <2>. HIDE DEF r
  <2>4. Sound(j, r)
    BY <2>1, <2>2 DEF Sound, Creating, Producing
  <2>. QED
    BY <2>2, <2>3, <2>4 DEF Moves
<1>5. CASE GotDeath(j)
  <2>1. j \notin Handlers /\ InRegistry \in SUBSET Channels
    BY <1>5 DEF GotDeath, ReadsDeath, Sound, InRegistry
  <2>. QED
    BY <1>5, <2>1, EndChannelsJobIsSound DEF GotDeath, ReadsDeath, Moves
<1>. QED
  BY <1>1, <1>2, <1>3, <1>4, <1>5, IdleIsSound
  DEF ApiStep, GotRelease, GotError, Moves

LEMMA WorkerDiesMoves ==
  ASSUME TypeInv, NEW e \in Deaths, NEW w \in Workers, WorkerDies(e, w)
  PROVE  \E r : Moves(e, r)
<1>. DEFINE r == [IdleJob EXCEPT !.pc = "died"]
<1>1. r \in Job
  BY IdleIsSound DEF Job, Steps
<1>2. Sound(e, r)
  BY NoNone DEF IdleJob, Sound, Creating, Producing
<1>. QED
  BY <1>1, <1>2 DEF WorkerDies, Moves

LEMMA MediaExitsMoves ==
  ASSUME TypeInv, NEW e \in Deaths, MediaExits(e)
  PROVE  /\ job' \in [Jobs -> Job]
         /\ JobInv'
<1>1. e \in Jobs /\ e \notin Handlers /\ InRegistry \in SUBSET Channels
  BY NoNone DEF Jobs, InRegistry
<1>2. EndChannelsJob(InRegistry) \in Job /\ Sound(e, EndChannelsJob(InRegistry))
  BY <1>1, EndChannelsJobIsSound
<1>. QED
  BY <1>2, IdleIsSound DEF MediaExits, TypeInv, TypeOK, JobInv

(* A step moves one job, or none, unless the media process exits.           *)
LEMMA OneJobMoves ==
  ASSUME TypeInv, [Next]_vars
  PROVE  \/ job' = job
         \/ \E j \in Jobs : \E r : Moves(j, r)
         \/ \E e \in Deaths : MediaExits(e)
BY RequestMoves, DatabaseMoves, MediaMoves, WorkerMoves, ApiMoves, WorkerDiesMoves
DEF Next, Callback, ChildStep, ReadAnswer, vars, Jobs

LEMMA JobInvStep ==
  ASSUME TypeInv, [Next]_vars
  PROVE  job' \in [Jobs -> Job] /\ JobInv'
<1>1. CASE job' = job
  BY <1>1 DEF TypeInv, TypeOK, JobInv
<1>. QED
  BY <1>1, OneJobMoves, MovesKeep, MediaExitsMoves

-----------------------------------------------------------------------------
(* Which actions change what.                                               *)

LEMMA RequestChanges ==
  ASSUME NEW h \in Handlers, Request(h)
  PROVE  /\ UNCHANGED <<registry, known, router, dead, observed, transport, toWorker, toApi>>
         /\ row' = row \/ \E s \in Sessions : EndSession(h, s)
BY DEF Request, Join, RouterCapabilities, Produce, EndSession, CreateTransport, media, queues

LEMMA DatabaseChanges ==
  ASSUME NEW j \in Jobs, DatabaseStep(j)
  PROVE  /\ UNCHANGED <<registry, known, router, dead, observed, transport, toWorker, toApi>>
         /\ row' = row \/ Insert(j) \/ RecordTransport(j) \/ RecordProducer(j) \/ EndChannel(j)
BY DEF DatabaseStep, Insert, AskTransport, RecordTransport, AskProducer, RecordProducer,
       ReadEnded, Fail, EndChannel, media, queues

LEMMA MediaChanges ==
  ASSUME NEW j \in Jobs, MediaStep(j)
  PROVE  /\ UNCHANGED <<row, registry, known, router, dead, observed>>
         /\ transport' = transport \/ ReadRelease(j)
BY DEF MediaStep, ReadCreateRouter, ReadObserve, ReadCreateTransport, ReadProduce,
       ReadRelease, media

LEMMA WorkerChanges ==
  ASSUME NEW j \in Jobs, NEW w \in Workers, WorkerStep(j, w)
  PROVE  /\ UNCHANGED <<row, registry, dead, toMedia>>
         /\ UNCHANGED <<router, known>> \/ RouterCreated(j, w)
         /\ observed' = observed \/ ObserverCreated(j, w)
         /\ \/ transport' = transport
            \/ TransportCreated(j, w) \/ ProducerCreated(j, w) \/ ProducerToWatch(j, w)
BY DEF WorkerStep, RouterCreated, ObserverCreated, TransportCreated, ProducerCreated,
       ProducerToWatch, ProducerWatched, WorkerRefuses, media

LEMMA ApiChanges ==
  ASSUME NEW j \in Jobs, ApiStep(j)
  PROVE  /\ UNCHANGED <<row, known, router, dead, observed, transport, toWorker>>
         /\ registry' = registry \/ GotObserver(j) \/ GotDeath(j)
BY DEF ApiStep, GotRouter, GotObserver, GotTransport, GotProducer, GotRelease, GotError,
       GotDeath, media

LEMMA RowSteps ==
  ASSUME [Next]_vars
  PROVE  \/ row' = row
         \/ \E h \in Handlers, s \in Sessions : EndSession(h, s)
         \/ \E j \in Jobs : Insert(j) \/ RecordTransport(j) \/ RecordProducer(j) \/ EndChannel(j)
BY RequestChanges, DatabaseChanges, MediaChanges, WorkerChanges, ApiChanges
DEF Next, Callback, ChildStep, ReadAnswer, vars, MediaExits, WorkerDies

LEMMA TransportSteps ==
  ASSUME [Next]_vars
  PROVE  \/ transport' = transport
         \/ \E j \in Jobs, w \in Workers :
              TransportCreated(j, w) \/ ProducerCreated(j, w) \/ ProducerToWatch(j, w)
         \/ \E j \in Jobs : ReadRelease(j)
         \/ \E e \in Deaths : MediaExits(e) \/ \E w \in Workers : WorkerDies(e, w)
BY RequestChanges, DatabaseChanges, MediaChanges, WorkerChanges, ApiChanges
DEF Next, Callback, ChildStep, ReadAnswer, vars, media

LEMMA RouterSteps ==
  ASSUME [Next]_vars
  PROVE  \/ UNCHANGED <<router, known>>
         \/ \E j \in Jobs, w \in Workers : RouterCreated(j, w)
         \/ \E e \in Deaths : MediaExits(e) \/ \E w \in Workers : WorkerDies(e, w)
BY RequestChanges, DatabaseChanges, MediaChanges, WorkerChanges, ApiChanges
DEF Next, Callback, ChildStep, ReadAnswer, vars, media

LEMMA RegistrySteps ==
  ASSUME [Next]_vars
  PROVE  \/ registry' = registry
         \/ \E j \in Jobs : GotObserver(j)
         \/ registry' = [c \in Channels |-> None]
BY RequestChanges, DatabaseChanges, MediaChanges, WorkerChanges, ApiChanges
DEF Next, Callback, ChildStep, ReadAnswer, vars, MediaExits, WorkerDies, GotDeath

LEMMA ObservedSteps ==
  ASSUME [Next]_vars
  PROVE  observed' \subseteq observed \/ \E j \in Jobs, w \in Workers : ObserverCreated(j, w)
<1>1. \/ observed' = observed
      \/ \E j \in Jobs, w \in Workers : ObserverCreated(j, w)
      \/ \E e \in Deaths : MediaExits(e) \/ \E w \in Workers : WorkerDies(e, w)
  BY RequestChanges, DatabaseChanges, MediaChanges, WorkerChanges, ApiChanges
  DEF Next, Callback, ChildStep, ReadAnswer, vars, media
<1>2. ASSUME NEW e \in Deaths, MediaExits(e) \/ \E w \in Workers : WorkerDies(e, w)
      PROVE  observed' \subseteq observed
  BY <1>2 DEF MediaExits, WorkerDies
<1>. QED
  BY <1>1, <1>2

LEMMA DeadSteps ==
  ASSUME TypeInv, [Next]_vars
  PROVE  dead' \subseteq Workers
<1>. dead \subseteq Workers
  BY DEF TypeInv, TypeOK
<1>1. \/ UNCHANGED dead
      \/ \E e \in Deaths : MediaExits(e) \/ \E w \in Workers : WorkerDies(e, w)
  BY RequestChanges, DatabaseChanges, MediaChanges, WorkerChanges, ApiChanges
  DEF Next, Callback, ChildStep, ReadAnswer, vars, media
<1>2. ASSUME NEW e \in Deaths, MediaExits(e)
      PROVE  dead' = {}
  BY <1>2 DEF MediaExits
<1>3. ASSUME NEW e \in Deaths, NEW w \in Workers, WorkerDies(e, w)
      PROVE  dead' = dead \cup {w}
  BY <1>3 DEF WorkerDies
<1>. QED
  BY <1>1, <1>2, <1>3

(* What the API reads and acts upon, and what leaves that alone.            *)
LEMMA ChunkSteps ==
  ASSUME [Next]_vars
  PROVE  \/ UNCHANGED vars
         \/ /\ settled = {} /\ UNCHANGED <<settled, late>>
            /\ \/ \E h \in Handlers : Request(h)
               \/ \E j \in Jobs : DatabaseStep(j) \/ MediaStep(j)
               \/ \E j \in Jobs, w \in Workers : WorkerStep(j, w)
               \/ \E e \in Deaths, w \in Workers : WorkerDies(e, w)
         \/ settled = {} /\ UNCHANGED settled /\ \E e \in Deaths : MediaExits(e)
         \/ \E j \in Jobs : ReadAnswer(j) \/ ApiStep(j)
BY DEF Next, Callback, ChildStep, chunk, MediaExits

(* A job goes on, or a death is read.                                       *)
LEMMA ApiReads ==
  ASSUME NEW j \in Jobs, ApiStep(j)
  PROVE  Continues(j) \/ GotDeath(j)
BY DEF ApiStep, GotRouter, GotObserver, GotTransport, GotProducer, GotRelease, GotError,
       Answered

-----------------------------------------------------------------------------
(* The types of the tables.                                                 *)

LEMMA RowTypeStep ==
  ASSUME TypeInv, [Next]_vars
  PROVE  row' \in [Sessions -> Row] /\ ChannelInv'
<1>. row \in [Sessions -> Row] /\ job \in [Jobs -> Job] /\ ChannelInv
     /\ \A j \in Jobs : job[j] \in Job /\ Sound(j, job[j])
  BY DEF TypeInv, TypeOK, JobInv
<1>1. CASE row' = row
  BY <1>1 DEF ChannelInv
<1>2. ASSUME NEW h \in Handlers, NEW s \in Sessions, EndSession(h, s)
      PROVE  row' \in [Sessions -> Row] /\ ChannelInv'
  <2>. DEFINE r == [row[s] EXCEPT !.status = "ended"]
  <2>1. r \in Row /\ r.channel = row[s].channel
    BY DEF Row
  <2>2. row' = [row EXCEPT ![s] = r] /\ row[s].status = "active"
    BY <1>2 DEF EndSession, Active
  <2>. HIDE DEF r
  <2>. QED
    BY <2>1, <2>2 DEF ChannelInv
<1>3. ASSUME NEW j \in Jobs, Insert(j)
      PROVE  row' \in [Sessions -> Row] /\ ChannelInv'
  <2>. DEFINE r == [NoRow EXCEPT !.status = "active", !.channel = job[j].channel,
                                 !.router = job[j].router]
  <2>1. job[j].channel \in Channels /\ job[j].router \in Routers \cup {None}
    BY <1>3 DEF Insert, Sound, Job
  <2>2. r \in Row /\ r.channel \in Channels
    BY <2>1 DEF NoRow, Row
  <2>3. \E s \in Sessions : row' = [row EXCEPT ![s] = r]
    BY <1>3 DEF Insert
  <2>. HIDE DEF r
  <2>. QED
    BY <2>2, <2>3 DEF ChannelInv
<1>4. ASSUME NEW j \in Jobs, RecordTransport(j)
      PROVE  row' \in [Sessions -> Row] /\ ChannelInv'
  <2>1. job[j].transport \in Transports \cup {None}
    BY DEF Job
  <2>2. ASSUME NEW r \in Row
        PROVE  /\ WithTransport(r, job[j].direction, job[j].transport) \in Row
               /\ WithTransport(r, job[j].direction, job[j].transport).channel = r.channel
               /\ WithTransport(r, job[j].direction, job[j].transport).status = r.status
    <3>1. ASSUME NEW t \in Transports \cup {None}
          PROVE  /\ [r EXCEPT !.send = t] \in Row /\ [r EXCEPT !.recv = t] \in Row
                 /\ [r EXCEPT !.send = t].channel = r.channel
                 /\ [r EXCEPT !.send = t].status = r.status
                 /\ [r EXCEPT !.recv = t].channel = r.channel
                 /\ [r EXCEPT !.recv = t].status = r.status
      BY DEF Row
    <3>. QED
      BY <2>1, <3>1 DEF WithTransport
  <2>3. row' = [row EXCEPT ![job[j].session] =
                  IF row[job[j].session].status = "active"
                    THEN WithTransport(row[job[j].session], job[j].direction, job[j].transport)
                    ELSE row[job[j].session]]
    BY <1>4 DEF RecordTransport
  <2>4. \/ row' = row
        \/ /\ job[j].session \in Sessions
           /\ row' = [row EXCEPT ![job[j].session] =
                        WithTransport(row[job[j].session], job[j].direction, job[j].transport)]
    BY <2>3
  <2>. QED
    BY <2>2, <2>4 DEF ChannelInv
<1>5. ASSUME NEW j \in Jobs, RecordProducer(j)
      PROVE  row' \in [Sessions -> Row] /\ ChannelInv'
  <2>. DEFINE s == job[j].session
  <2>1. job[j].transport \in Transports \cup {None}
    BY DEF Job
  <2>2. ASSUME NEW r \in Row, NEW t \in Transports \cup {None}
        PROVE  /\ [r EXCEPT !.producer = t] \in Row
               /\ [r EXCEPT !.producer = t].channel = r.channel
               /\ [r EXCEPT !.producer = t].status = r.status
    BY DEF Row
  <2>3. s \in Sessions => row[s].producer \in Transports \cup {None}
    BY DEF Row
  <2>4. row' = [row EXCEPT ![s] = [row[s] EXCEPT !.producer =
                  IF Active(s) THEN job[j].transport ELSE row[s].producer]]
    BY <1>5 DEF RecordProducer
  <2>. HIDE DEF s
  <2>5. CASE s \in Sessions
    BY <2>1, <2>2, <2>3, <2>4, <2>5 DEF ChannelInv
  <2>6. CASE s \notin Sessions
    <3>. row' = row
      BY <2>4, <2>6
    <3>. QED
      BY DEF ChannelInv
  <2>. QED
    BY <2>5, <2>6
<1>6. ASSUME NEW j \in Jobs, EndChannel(j)
      PROVE  row' \in [Sessions -> Row] /\ ChannelInv'
  <2>1. ASSUME NEW r \in Row
        PROVE  /\ [r EXCEPT !.status = "failed"] \in Row
               /\ [r EXCEPT !.status = "failed"].channel = r.channel
    BY DEF Row
  <2>2. ASSUME NEW c,
               row' = [s \in Sessions |-> IF Active(s) /\ row[s].channel = c
                                            THEN [row[s] EXCEPT !.status = "failed"] ELSE row[s]]
        PROVE  row' \in [Sessions -> Row] /\ ChannelInv'
    <3>1. row' \in [Sessions -> Row]
      BY <2>1, <2>2
    <3>2. ASSUME NEW s \in Sessions
          PROVE  row'[s].channel = row[s].channel /\ (row'[s] = row[s] \/ Active(s))
      BY <2>1, <2>2
    <3>. QED
      BY <3>1, <3>2 DEF ChannelInv, Active
  <2>. QED
    BY <1>1, <1>6, <2>2 DEF EndChannel
<1>. QED
  BY <1>1, <1>2, <1>3, <1>4, <1>5, <1>6, RowSteps

LEMMA ClosedType ==
  ASSUME NEW t \in Transport
  PROVE  Closed(t) \in Transport
BY DEF Closed, Transport

LEMMA TransportTypeStep ==
  ASSUME TypeInv, [Next]_vars
  PROVE  transport' \in [Transports -> Transport]
<1>. transport \in [Transports -> Transport] /\ \A j \in Jobs : job[j] \in Job
  BY DEF TypeInv, TypeOK
<1>1. ASSUME NEW j \in Jobs, NEW w \in Workers, TransportCreated(j, w)
      PROVE  transport' \in [Transports -> Transport]
  <2>. DEFINE new == [status |-> "open", router |-> job[j].router, producing |-> FALSE]
  <2>1. new \in Transport
    BY DEF Transport, Job
  <2>. HIDE DEF new
  <2>. QED
    BY <1>1, <2>1 DEF TransportCreated, new
<1>2. ASSUME NEW t, transport' = [transport EXCEPT ![t].producing =
                                    @ \/ transport[t].status = "open"]
      PROVE  transport' \in [Transports -> Transport]
  <2>1. CASE t \in Transports
    <3>. DEFINE b == transport[t].producing \/ transport[t].status = "open"
    <3>1. b \in BOOLEAN /\ transport[t] \in Transport
      BY <2>1
    <3>2. transport' = [transport EXCEPT ![t] = [transport[t] EXCEPT !.producing = b]]
      BY <1>2
    <3>. HIDE DEF b
    <3>3. [transport[t] EXCEPT !.producing = b] \in Transport
      BY <3>1 DEF Transport
    <3>. QED
      BY <3>2, <3>3
  <2>. QED
    BY <1>2, <2>1
<1>3. ASSUME NEW j \in Jobs, NEW w \in Workers,
             ProducerCreated(j, w) \/ ProducerToWatch(j, w)
      PROVE  transport' \in [Transports -> Transport]
  BY <1>2, <1>3 DEF ProducerCreated, ProducerToWatch
<1>4. ASSUME NEW j \in Jobs, ReadRelease(j)
      PROVE  transport' \in [Transports -> Transport]
  <2>. ASSUME NEW t \in Transport
       PROVE  [t EXCEPT !.producing = FALSE] \in Transport
    BY DEF Transport
  <2>. QED
    BY <1>4, ClosedType DEF ReadRelease
<1>5. ASSUME NEW e \in Deaths, MediaExits(e) \/ \E w \in Workers : WorkerDies(e, w)
      PROVE  transport' \in [Transports -> Transport]
  <2>1. CASE MediaExits(e)
    BY <2>1, ClosedType DEF MediaExits
  <2>2. ASSUME NEW w \in Workers, WorkerDies(e, w)
        PROVE  transport' \in [Transports -> Transport]
    <3>1. PICK lost \in SUBSET Routers :
            transport' = [t \in Transports |-> IF transport[t].router \in lost
                                                  THEN Closed(transport[t]) ELSE transport[t]]
      BY <2>2 DEF WorkerDies
    <3>. QED
      BY <3>1, ClosedType
  <2>. QED
    BY <1>5, <2>1, <2>2
<1>. QED
  BY <1>1, <1>3, <1>4, <1>5, TransportSteps

LEMMA RouterTypeStep ==
  ASSUME TypeInv, [Next]_vars
  PROVE  /\ router' \in [Routers -> Router]
         /\ known' \in [Channels -> Routers \cup {None}]
<1>. /\ router \in [Routers -> Router] /\ known \in [Channels -> Routers \cup {None}]
     /\ \A j \in Jobs : job[j] \in Job
  BY DEF TypeInv, TypeOK
<1>. ASSUME NEW r \in Router
     PROVE  [r EXCEPT !.worker = "gone"] \in Router
  BY DEF Router
<1>1. ASSUME NEW j \in Jobs, NEW w \in Workers, RouterCreated(j, w)
      PROVE  /\ router' \in [Routers -> Router]
             /\ known' \in [Channels -> Routers \cup {None}]
  <2>. DEFINE new == [worker |-> w, channel |-> job[j].channel]
  <2>1. new \in Router
    BY DEF Router, Job
  <2>. HIDE DEF new
  <2>. QED
    BY <1>1, <2>1 DEF RouterCreated, new
<1>2. ASSUME NEW e \in Deaths, NEW w \in Workers, WorkerDies(e, w)
      PROVE  /\ router' \in [Routers -> Router]
             /\ known' \in [Channels -> Routers \cup {None}]
  <2>1. router' \in [Routers -> Router]
    BY <1>2 DEF WorkerDies
  <2>2. known' \in [Channels -> Routers \cup {None}]
    BY <1>2 DEF WorkerDies
  <2>. QED
    BY <2>1, <2>2
<1>3. ASSUME NEW e \in Deaths, MediaExits(e)
      PROVE  /\ router' \in [Routers -> Router]
             /\ known' \in [Channels -> Routers \cup {None}]
  <2>. NoRouter \in Router
    BY DEF NoRouter, Router
  <2>. QED
    BY <1>3 DEF MediaExits
<1>. QED
  BY <1>1, <1>2, <1>3, RouterSteps

LEMMA RegistryTypeStep ==
  ASSUME TypeInv, [Next]_vars
  PROVE  /\ registry' \in [Channels -> Routers \cup {None}]
         /\ observed' \subseteq Routers
<1>. /\ registry \in [Channels -> Routers \cup {None}] /\ observed \subseteq Routers
     /\ \A j \in Jobs : job[j] \in Job /\ Sound(j, job[j])
  BY DEF TypeInv, TypeOK, JobInv
<1>1. ASSUME NEW j \in Jobs, GotObserver(j)
      PROVE  registry' \in [Channels -> Routers \cup {None}]
  <2>. job[j].router \in Routers \cup {None}
    BY DEF Job
  <2>. QED
    BY <1>1 DEF GotObserver
<1>2. ASSUME NEW j \in Jobs, NEW w \in Workers, ObserverCreated(j, w)
      PROVE  observed' \subseteq Routers
  BY <1>2 DEF ObserverCreated, WorkerAnswers, Sound
<1>. QED
  BY <1>1, <1>2, RegistrySteps, ObservedSteps

LEMMA ChunkTypeStep ==
  ASSUME TypeInv, [Next]_vars
  PROVE  settled' \subseteq Jobs /\ late' \subseteq Routers
<1>. settled \subseteq Jobs /\ late \subseteq Routers /\ \A j \in Jobs : Sound(j, job[j])
  BY DEF TypeInv, TypeOK, JobInv
<1>1. ASSUME NEW j \in Jobs, ReadAnswer(j)
      PROVE  settled' \subseteq Jobs /\ late' \subseteq Routers
  BY <1>1 DEF ReadAnswer
<1>2. ASSUME NEW j \in Jobs, Continues(j)
      PROVE  settled' \subseteq Jobs /\ late' \subseteq Routers
  BY <1>2 DEF Continues
<1>3. ASSUME NEW j \in Jobs, GotDeath(j)
      PROVE  settled' \subseteq Jobs /\ late' \subseteq Routers
  BY <1>3 DEF GotDeath, ReadsDeath, Returned, Sound
<1>4. ASSUME NEW e \in Deaths, MediaExits(e)
      PROVE  settled' \subseteq Jobs /\ late' \subseteq Routers
  BY <1>4 DEF MediaExits
<1>. QED
  BY <1>1, <1>2, <1>3, <1>4, ChunkSteps, ApiReads DEF vars, chunk

-----------------------------------------------------------------------------
(* The queues.                                                              *)

QueueTypes ==
    /\ toMedia \in Seq(Jobs) /\ toApi \in Seq(Jobs)
    /\ toWorker \in [Workers -> Seq(Jobs)]

LEMMA AskKeepsOrder ==
  ASSUME TypeInv, NEW m \in Seq(Jobs), NEW a \in Seq(Jobs), Orderly(toMedia, toWorker, a, job),
         NEW j \in Jobs, Unqueued(j, toMedia, toWorker, a),
         NEW r, Ask(j, r), r.pc \in Questions, ~r.ok,
         toWorker' = toWorker, toApi' = a
  PROVE  QueueTypes' /\ QueueInv'
BY PutToMedia DEF Ask, Become, Asked, TypeInv, TypeOK, QueueTypes, QueueInv

LEMMA RequestQueues ==
  ASSUME TypeInv, QueueInv, NEW h \in Handlers, Request(h)
  PROVE  QueueTypes' /\ QueueInv'
<1>. /\ toMedia \in Seq(Jobs) /\ toApi \in Seq(Jobs) /\ toWorker \in [Workers -> Seq(Jobs)]
     /\ job \in [Jobs -> Job] /\ h \in Jobs
     /\ UNCHANGED <<toWorker, toApi>>
  BY RequestChanges DEF TypeInv, TypeOK, Jobs
<1>1. job[h].pc = "idle"
  BY DEF Request, Join, RouterCapabilities, Produce, EndSession, CreateTransport
<1>2. Unqueued(h, toMedia, toWorker, toApi)
  BY <1>1, OthersAreUnqueued DEF QueueInv, Questions
<1>3. ASSUME NEW r, Become(h, r), UNCHANGED toMedia
      PROVE  QueueTypes' /\ QueueInv'
  BY <1>2, <1>3, ChangeUnqueued DEF Become, QueueTypes, QueueInv
<1>4. ASSUME NEW r, Ask(h, r), r.pc \in Questions, ~r.ok
      PROVE  QueueTypes' /\ QueueInv'
  BY <1>2, <1>4, AskKeepsOrder DEF QueueInv
<1>5. ASSUME NEW r0 \in Job, r0.ok = FALSE, GetOrCreateRouter(h, r0)
      PROVE  QueueTypes' /\ QueueInv'
  <2>. DEFINE r == [r0 EXCEPT !.pc = "createRouter"]
  <2>1. r.pc \in Questions /\ ~r.ok
    BY <1>5 DEF Job, Questions
  <2>. QED
    BY <1>3, <1>4, <1>5, <2>1 DEF GetOrCreateRouter
<1>6. ASSUME NEW c \in Channels, Join(h, c)
      PROVE  QueueTypes' /\ QueueInv'
  <2>. DEFINE r0 == [IdleJob EXCEPT !.channel = c, !.joins = TRUE]
  <2>1. r0 \in Job /\ r0.ok = FALSE
    BY IdleIsSound DEF IdleJob, Job
  <2>. QED
    BY <1>5, <1>6, <2>1 DEF Join
<1>7. ASSUME NEW s \in Sessions, RouterCapabilities(h, s)
      PROVE  QueueTypes' /\ QueueInv'
  <2>. DEFINE r0 == [IdleJob EXCEPT !.channel = row[s].channel]
  <2>1. r0 \in Job /\ r0.ok = FALSE
    BY IdleIsSound DEF IdleJob, Job, TypeInv, TypeOK, Row
  <2>. QED
    BY <1>5, <1>7, <2>1 DEF RouterCapabilities
<1>. QED
  BY <1>3, <1>6, <1>7
  DEF Request, Produce, EndSession, CreateTransport, queues

LEMMA DatabaseQueues ==
  ASSUME TypeInv, QueueInv, NEW j \in Jobs, DatabaseStep(j)
  PROVE  QueueTypes' /\ QueueInv'
<1>. /\ toMedia \in Seq(Jobs) /\ toApi \in Seq(Jobs) /\ toWorker \in [Workers -> Seq(Jobs)]
     /\ job \in [Jobs -> Job] /\ job[j] \in Job /\ Sound(j, job[j])
     /\ UNCHANGED <<toWorker, toApi>>
  BY DatabaseChanges DEF TypeInv, TypeOK, JobInv
<1>1. Unqueued(j, toMedia, toWorker, toApi)
  <2>. job[j].pc \notin Questions \cup {"died"}
    BY DEF DatabaseStep, Insert, AskTransport, RecordTransport, AskProducer, RecordProducer,
           ReadEnded, Fail, EndChannel, Questions
  <2>. QED
    BY OthersAreUnqueued DEF QueueInv
<1>2. ASSUME NEW r, Become(j, r), UNCHANGED toMedia
      PROVE  QueueTypes' /\ QueueInv'
  BY <1>1, <1>2, ChangeUnqueued DEF Become, QueueTypes, QueueInv
<1>3. ASSUME NEW r, Ask(j, r), r.pc \in Questions, ~r.ok
      PROVE  QueueTypes' /\ QueueInv'
  BY <1>1, <1>3, AskKeepsOrder DEF QueueInv
<1>4. CASE AskTransport(j)
  <2>. DEFINE r == [job[j] EXCEPT !.pc = "createTransport"]
  <2>1. r.pc \in Questions /\ ~r.ok
    BY <1>4 DEF AskTransport, Sound, Job, Questions
  <2>. QED
    BY <1>3, <1>4, <2>1 DEF AskTransport
<1>5. CASE AskProducer(j)
  <2>. DEFINE r == [job[j] EXCEPT !.pc = "produce"]
  <2>1. r.pc \in Questions /\ ~r.ok
    BY <1>5 DEF AskProducer, Sound, Job, Questions
  <2>. QED
    BY <1>3, <1>5, <2>1 DEF AskProducer
<1>6. CASE ReadEnded(j)
  <2>. DEFINE r == [job[j] EXCEPT !.pc = "release", !.ended = row[job[j].session]]
  <2>1. r.pc \in Questions /\ ~r.ok
    BY <1>6 DEF ReadEnded, Sound, Job, Questions
  <2>. QED
    BY <1>3, <1>6, <2>1 DEF ReadEnded
<1>. QED
  BY <1>2, <1>4, <1>5, <1>6
  DEF DatabaseStep, Insert, RecordTransport, RecordProducer, Fail, EndChannel, queues

LEMMA MediaQueues ==
  ASSUME TypeInv, QueueInv, NEW j \in Jobs, MediaStep(j)
  PROVE  QueueTypes' /\ QueueInv'
<1>. DEFINE m == Tail(toMedia)
<1>. /\ toMedia \in Seq(Jobs) /\ toApi \in Seq(Jobs) /\ toWorker \in [Workers -> Seq(Jobs)]
     /\ job \in [Jobs -> Job] /\ job[j] \in Job
  BY DEF TypeInv, TypeOK
<1>1. toMedia # <<>> /\ Head(toMedia) = j /\ toMedia' = m
  BY DEF MediaStep, ReadCreateRouter, ReadObserve, ReadCreateTransport, ReadProduce,
         ReadRelease, Reads
<1>2. /\ m \in Seq(Jobs)
      /\ Asked(job[j])
      /\ Orderly(m, toWorker, toApi, job)
      /\ Unqueued(j, m, toWorker, toApi)
  BY <1>1, TakeFromMedia DEF QueueInv
<1>. HIDE DEF m
<1>3. ASSUME NEW w, AskWorker(j, w)
      PROVE  QueueTypes' /\ QueueInv'
  <2>1. CASE w \in Workers
    <3>1. toWorker' = [toWorker EXCEPT ![w] = Append(@, j)] /\ toApi' = toApi /\ job' = job
      BY <1>3 DEF AskWorker
    <3>2. [job EXCEPT ![j] = job[j]] = job
      OBVIOUS
    <3>3. /\ [toWorker EXCEPT ![w] = Append(@, j)] \in [Workers -> Seq(Jobs)]
          /\ Orderly(m, [toWorker EXCEPT ![w] = Append(@, j)], toApi,
                     [job EXCEPT ![j] = job[j]])
      BY <1>2, <2>1, PutToWorker
    <3>. QED
      BY <1>1, <1>2, <3>1, <3>2, <3>3 DEF QueueTypes, QueueInv
  <2>2. CASE w \notin Workers
    <3>. toWorker' = toWorker /\ toApi' = toApi /\ job' = job
      BY <1>3, <2>2 DEF AskWorker
    <3>. QED
      BY <1>1, <1>2 DEF QueueTypes, QueueInv
  <2>. QED
    BY <2>1, <2>2
<1>4. ASSUME NEW r, r.pc = job[j].pc, Reply(j, r), UNCHANGED toWorker
      PROVE  QueueTypes' /\ QueueInv'
  BY <1>1, <1>2, <1>4, PutToApi DEF Reply, Become, Asked, QueueTypes, QueueInv
<1>5. /\ Result(j).pc = job[j].pc
      /\ Failure(j).pc = job[j].pc
      /\ \A q : [Result(j) EXCEPT !.router = q].pc = job[j].pc
  BY DEF Result, Failure, Job
<1>. QED
  BY <1>3, <1>4, <1>5
  DEF MediaStep, ReadCreateRouter, ReadObserve, ReadCreateTransport, ReadProduce, ReadRelease

LEMMA WorkerQueues ==
  ASSUME TypeInv, QueueInv, NEW j \in Jobs, NEW w \in Workers, WorkerStep(j, w)
  PROVE  QueueTypes' /\ QueueInv'
<1>. DEFINE rest == [toWorker EXCEPT ![w] = Tail(@)]
<1>. /\ toMedia \in Seq(Jobs) /\ toApi \in Seq(Jobs) /\ toWorker \in [Workers -> Seq(Jobs)]
     /\ job \in [Jobs -> Job] /\ job[j] \in Job /\ toMedia' = toMedia
  BY WorkerChanges DEF TypeInv, TypeOK
<1>1. toWorker[w] # <<>> /\ Head(toWorker[w]) = j
  BY DEF WorkerStep, RouterCreated, ObserverCreated, TransportCreated, ProducerCreated,
         ProducerToWatch, ProducerWatched, WorkerRefuses, WorkerAnswers
<1>2. /\ rest \in [Workers -> Seq(Jobs)]
      /\ Asked(job[j])
      /\ Orderly(toMedia, rest, toApi, job)
      /\ Unqueued(j, toMedia, rest, toApi)
  BY <1>1, TakeFromWorker DEF QueueInv
<1>3. ASSUME NEW r, r.pc \in Questions, Reply(j, r), toWorker' = rest
      PROVE  QueueTypes' /\ QueueInv'
  <2>. HIDE DEF rest
  <2>. QED
    BY <1>2, <1>3, PutToApi DEF Reply, Become, QueueTypes, QueueInv
<1>4. /\ Result(j).pc = job[j].pc
      /\ Failure(j).pc = job[j].pc
      /\ \A q : [Result(j) EXCEPT !.router = q].pc = job[j].pc
      /\ \A t : [Result(j) EXCEPT !.transport = t].pc = job[j].pc
      /\ job[j].pc \in Questions
  BY <1>2 DEF Result, Failure, Job, Asked
<1>5. CASE ProducerToWatch(j, w)
  <2>. DEFINE r == [job[j] EXCEPT !.pc = "watch"]
  <2>1. Asked(r)
    BY <1>2 DEF Asked, Job, Questions
  <2>2. toWorker' = [rest EXCEPT ![w] = Append(@, j)] /\ job' = [job EXCEPT ![j] = r]
        /\ toApi' = toApi
    BY <1>5 DEF ProducerToWatch, Become
  <2>. HIDE DEF rest, r
  <2>. QED
    BY <1>2, <2>1, <2>2, PutToWorker DEF QueueTypes, QueueInv
<1>6. CASE ProducerWatched(j, w)
  <2>. DEFINE r == [job[j] EXCEPT !.pc = "produce",
                                  !.ok = transport[job[j].transport].producing]
  <2>1. r.pc \in Questions
    BY DEF Job, Questions
  <2>. QED
    BY <1>3, <1>6, <2>1 DEF ProducerWatched, WorkerAnswers
<1>. QED
  BY <1>3, <1>4, <1>5, <1>6
  DEF WorkerStep, RouterCreated, ObserverCreated, TransportCreated, ProducerCreated,
      WorkerRefuses, WorkerAnswers

LEMMA ReadAnswerQueues ==
  ASSUME TypeInv, QueueInv, NEW j \in Jobs, ReadAnswer(j)
  PROVE  /\ QueueTypes' /\ QueueInv'
         /\ Unqueued(j, toMedia', toWorker', toApi')
BY TakeFromApi DEF ReadAnswer, TypeInv, TypeOK, QueueTypes, QueueInv

(* What is next of the queues when job j goes on from nowhere.              *)
LEMMA GoesOnQueues ==
  ASSUME TypeInv, NEW a \in Seq(Jobs), Orderly(toMedia, toWorker, a, job),
         NEW j \in Jobs, Unqueued(j, toMedia, toWorker, a), ApiStep(j), toApi' = a
  PROVE  QueueTypes' /\ QueueInv'
<1>. /\ toMedia \in Seq(Jobs) /\ toWorker \in [Workers -> Seq(Jobs)]
     /\ job \in [Jobs -> Job] /\ job[j] \in Job /\ toWorker' = toWorker
  BY ApiChanges DEF TypeInv, TypeOK
<1>1. ASSUME NEW r, Become(j, r), toMedia' = toMedia
      PROVE  QueueTypes' /\ QueueInv'
  BY <1>1, ChangeUnqueued DEF Become, QueueTypes, QueueInv
<1>2. CASE GotRouter(j)
  <2>. DEFINE r == [job[j] EXCEPT !.pc = "observe", !.ok = FALSE]
  <2>1. r.pc \in Questions /\ ~r.ok
    BY DEF Job, Questions
  <2>2. Ask(j, r)
    BY <1>2 DEF GotRouter
  <2>. HIDE DEF r
  <2>. QED
    BY <2>1, <2>2, AskKeepsOrder
<1>. QED
  BY <1>1, <1>2
  DEF ApiStep, GotObserver, GotTransport, GotProducer, GotRelease, GotError, GotDeath,
      ReadsDeath

LEMMA ApiQueues ==
  ASSUME TypeInv, QueueInv, SettledInv, NEW j \in Jobs, ApiStep(j)
  PROVE  QueueTypes' /\ QueueInv'
<1>1. CASE Continues(j)
  BY <1>1, GoesOnQueues DEF Continues, SettledInv, QueueInv, TypeInv, TypeOK
<1>2. CASE GotDeath(j)
  <2>1. toApi # <<>> /\ Head(toApi) = j /\ toApi' = Tail(toApi)
    BY <1>2 DEF GotDeath, ReadsDeath
  <2>2. /\ Tail(toApi) \in Seq(Jobs)
        /\ Orderly(toMedia, toWorker, Tail(toApi), job)
        /\ Unqueued(j, toMedia, toWorker, Tail(toApi))
    BY <2>1, TakeFromApi DEF QueueInv, TypeInv, TypeOK
  <2>. QED
    BY <2>1, <2>2, GoesOnQueues
<1>. QED
  BY <1>1, <1>2, ApiReads

LEMMA WorkerDiesQueues ==
  ASSUME TypeInv, QueueInv, NEW e \in Deaths, NEW w \in Workers, WorkerDies(e, w)
  PROVE  QueueTypes' /\ QueueInv'
<1>. DEFINE r == [IdleJob EXCEPT !.pc = "died"]
            a == toApi \o <<e>>
<1>. /\ toMedia \in Seq(Jobs) /\ toApi \in Seq(Jobs) /\ toWorker \in [Workers -> Seq(Jobs)]
     /\ job \in [Jobs -> Job] /\ e \in Jobs /\ toMedia' = toMedia
  BY DEF TypeInv, TypeOK, Jobs, WorkerDies
<1>1. Unqueued(e, toMedia, toWorker, toApi)
  <2>. job[e].pc = "idle"
    BY DEF WorkerDies
  <2>. QED
    BY OthersAreUnqueued DEF QueueInv, Questions
<1>2. /\ a \in Seq(Jobs)
      /\ Once(a)
      /\ \A x : In(a, x) => In(toApi, x) \/ x = e
  <2>1. a = Append(toApi, e)
    OBVIOUS
  <2>. HIDE DEF a
  <2>. QED
    BY <1>1, <2>1, AppendAdds DEF QueueInv, Orderly, Unqueued
<1>3. /\ toApi' \in Seq(Jobs)
      /\ Once(toApi')
      /\ \A x \in Jobs : In(toApi', x) => In(toApi, x) \/ x = e \/ In(toWorker[w], x)
  <2>1. toApi' = a \o toWorker[w]
    BY DEF WorkerDies
  <2>2. \A x \in Jobs : ~(In(a, x) /\ In(toWorker[w], x))
    BY <1>1, <1>2 DEF QueueInv, Orderly, Unqueued
  <2>3. Once(toWorker[w]) /\ toWorker[w] \in Seq(Jobs)
    BY DEF QueueInv, Orderly
  <2>. HIDE DEF a
  <2>. QED
    BY <1>2, <2>1, <2>2, <2>3, ConcatAdds
<1>4. /\ toWorker' \in [Workers -> Seq(Jobs)]
      /\ toWorker'[w] = <<>>
      /\ \A v \in Workers : v # w => toWorker'[v] = toWorker[v]
  BY DEF WorkerDies
<1>5. /\ Once(<<>>)
      /\ \A x : ~In(<<>>, x)
  BY DEF Once, In
<1>6. job'[e].pc = "died" /\ \A k \in Jobs : k # e => job'[k] = job[k]
  BY DEF WorkerDies, Become, IdleJob
<1>7. QueueInv'
  <2>1. /\ Once(toMedia') /\ Once(toApi')
        /\ \A v \in Workers : Once(toWorker'[v])
    BY <1>3, <1>4, <1>5 DEF QueueInv, Orderly
  <2>2. \A v \in Workers, k \in Jobs : In(toWorker'[v], k) => v # w /\ In(toWorker[v], k)
    BY <1>4, <1>5
  <2>3. ASSUME NEW k \in Jobs, In(toMedia', k)
        PROVE  Asked(job'[k]) /\ ~In(toApi', k)
    BY <1>1, <1>3, <1>6, <2>3 DEF QueueInv, Orderly, Unqueued
  <2>4. ASSUME NEW v \in Workers, NEW k \in Jobs, In(toWorker'[v], k)
        PROVE  Asked(job'[k]) /\ ~In(toMedia', k) /\ ~In(toApi', k)
    BY <1>1, <1>3, <1>6, <2>2, <2>4 DEF QueueInv, Orderly, Unqueued
  <2>5. \A v, x \in Workers : \A k \in Jobs : In(toWorker'[v], k) /\ In(toWorker'[x], k) => v = x
    BY <2>2 DEF QueueInv, Orderly
  <2>6. ASSUME NEW k \in Jobs, In(toApi', k)
        PROVE  job'[k].pc \in Questions \cup {"died"}
    BY <1>3, <1>6, <2>6 DEF QueueInv, Orderly, Asked
  <2>. QED
    BY <2>1, <2>3, <2>4, <2>5, <2>6 DEF QueueInv, Orderly
<1>. QED
  BY <1>3, <1>4, <1>7 DEF QueueTypes

LEMMA MediaExitsQueues ==
  ASSUME TypeInv, QueueInv, NEW e \in Deaths, MediaExits(e)
  PROVE  /\ QueueTypes' /\ QueueInv'
         /\ \A j \in Jobs : In(toApi', j) => job'[j].pc = "died"
<1>1. PICK n \in 0..Len(toApi) : \E order \in [1..n -> Reported] :
         /\ \A i, k \in 1..n : order[i] = order[k] => i = k
         /\ toApi' = order
  BY DEF MediaExits
<1>2. PICK order \in [1..n -> Reported] :
         /\ \A i, k \in 1..n : order[i] = order[k] => i = k
         /\ toApi' = order
  BY <1>1
<1>3. n \in Nat
  BY DEF TypeInv, TypeOK
<1>4. /\ toApi' \in Seq(Jobs) /\ Once(toApi')
      /\ \A j \in Jobs : In(toApi', j) => j \in Reported
  <2>1. order \in Seq(Reported) /\ Len(order) = n
    BY <1>3
  <2>2. Reported \subseteq Jobs
    BY DEF Reported, Jobs
  <2>. QED
    BY <1>2, <1>3, <2>1, <2>2 DEF Once, In
<1>5. /\ toMedia' = <<>>
      /\ toWorker' = [w \in Workers |-> <<>>]
      /\ \A j \in Reported : job'[j].pc = "died"
  BY DEF MediaExits, Reported, Jobs, Questions
<1>6. /\ Once(<<>>)
      /\ \A x : ~In(<<>>, x)
  BY DEF Once, In
<1>. QED
  BY <1>4, <1>5, <1>6 DEF QueueTypes, QueueInv, Orderly

LEMMA QueueInvStep ==
  ASSUME TypeInv, QueueInv, SettledInv, [Next]_vars
  PROVE  QueueTypes' /\ QueueInv'
<1>1. CASE UNCHANGED vars
  BY <1>1 DEF vars, queues, TypeInv, TypeOK, QueueTypes, QueueInv
<1>. QED
  BY <1>1, RequestQueues, DatabaseQueues, MediaQueues, WorkerQueues, ReadAnswerQueues, ApiQueues,
     WorkerDiesQueues, MediaExitsQueues, ChunkSteps DEF Jobs

LEMMA SettledInvStep ==
  ASSUME TypeInv, QueueInv, SettledInv, [Next]_vars
  PROVE  SettledInv'
<1>. /\ toMedia \in Seq(Jobs) /\ toApi \in Seq(Jobs) /\ toWorker \in [Workers -> Seq(Jobs)]
     /\ settled \subseteq Jobs
  BY DEF TypeInv, TypeOK
<1>1. CASE UNCHANGED vars
  BY <1>1 DEF vars, queues, chunk, SettledInv
<1>2. CASE settled = {} /\ UNCHANGED settled
  BY <1>2 DEF SettledInv
<1>3. ASSUME NEW j \in Jobs, ReadAnswer(j)
      PROVE  SettledInv'
  <2>1. \A x : In(Tail(toApi), x) => In(toApi, x)
    BY <1>3, TailDrops DEF ReadAnswer
  <2>2. Unqueued(j, toMedia', toWorker', toApi')
    BY <1>3, ReadAnswerQueues
  <2>. QED
    BY <1>3, <2>1, <2>2 DEF ReadAnswer, SettledInv, Unqueued
<1>4. ASSUME NEW j \in Jobs, ApiStep(j)
      PROVE  SettledInv'
  <2>1. \A k \in Jobs : k # j => job'[k] = job[k]
    BY <1>4, ApiMoves, MovesKeep
  <2>2. \A x \in Jobs : x # j /\ In(toMedia', x) => In(toMedia, x)
    BY <1>4, AppendAdds
    DEF ApiStep, GotRouter, Ask, GotObserver, GotTransport, GotProducer, GotRelease, GotError,
        GotDeath
  <2>3. toWorker' = toWorker
    BY <1>4, ApiChanges
  <2>4. CASE Continues(j)
    BY <2>1, <2>2, <2>3, <2>4 DEF Continues, SettledInv, Unqueued
  <2>5. CASE GotDeath(j)
    <3>1. /\ toApi # <<>> /\ toApi' = Tail(toApi) /\ job[j].pc = "died"
          /\ settled' = settled
      BY <2>5 DEF GotDeath, ReadsDeath
    <3>2. \A x : In(toApi', x) => In(toApi, x)
      BY <3>1, TailDrops
    <3>3. j \notin settled
      BY <3>1 DEF SettledInv, Questions
    <3>. QED
      BY <2>1, <2>2, <2>3, <3>1, <3>2, <3>3 DEF SettledInv, Unqueued
  <2>. QED
    BY <1>4, <2>4, <2>5, ApiReads
<1>. QED
  BY <1>1, <1>2, <1>3, <1>4, ChunkSteps

LEMMA TypeInvStep ==
  ASSUME TypeInv, QueueInv, SettledInv, [Next]_vars
  PROVE  TypeInv'
BY JobInvStep, RowTypeStep, TransportTypeStep, RouterTypeStep, RegistryTypeStep, DeadSteps,
   ChunkTypeStep, QueueInvStep DEF TypeInv, TypeOK, QueueTypes

-----------------------------------------------------------------------------
(* The types.                                                               *)

LEMMA NothingQueued ==
  ASSUME Init
  PROVE  QueueInv /\ SettledInv
BY DEF Init, QueueInv, SettledInv, Orderly, Once, In

LEMMA TypeInvInit ==
  ASSUME Init
  PROVE  TypeInv
<1>1. NoRow \in Row /\ NoRow.status = "absent" /\ NoTransport \in Transport /\ NoRouter \in Router
  BY DEF NoRow, Row, NoTransport, Transport, NoRouter, Router
<1>2. TypeOK
  BY <1>1, IdleIsSound DEF Init, TypeOK
<1>3. JobInv /\ ChannelInv
  BY <1>1, IdleIsSound DEF Init, JobInv, ChannelInv
<1>. QED
  BY <1>2, <1>3 DEF TypeInv

(* Every variable keeps its type.  A job is only told to ask what its       *)
(* record holds, and the questions are where the programs expect them.      *)
THEOREM TypesHold == Spec => []TypeOK
<1>1. Init => TypeInv /\ QueueInv /\ SettledInv
  BY TypeInvInit, NothingQueued
<1>2. TypeInv /\ QueueInv /\ SettledInv /\ [Next]_vars => (TypeInv /\ QueueInv /\ SettledInv)'
  BY TypeInvStep, QueueInvStep, SettledInvStep
<1>3. TypeInv => TypeOK
  BY DEF TypeInv
<1>. QED
  BY <1>1, <1>2, <1>3, PTL DEF Spec

-----------------------------------------------------------------------------
(* Routers.                                                                 *)

LEMMA KnownInvStep ==
  ASSUME TypeInv, KnownInv, [Next]_vars
  PROVE  KnownInv'
<1>. /\ router \in [Routers -> Router] /\ known \in [Channels -> Routers \cup {None}]
     /\ \A j \in Jobs : Sound(j, job[j])
  BY DEF TypeInv, TypeOK, JobInv
<1>1. CASE UNCHANGED <<router, known>>
  BY <1>1 DEF KnownInv
<1>2. ASSUME NEW j \in Jobs, NEW w \in Workers, RouterCreated(j, w)
      PROVE  KnownInv'
  <2>. DEFINE d == job[j].channel
  <2>1. PICK r \in Routers :
          /\ router[r] = NoRouter
          /\ router' = [router EXCEPT ![r] = [worker |-> w, channel |-> d]]
          /\ known' = [known EXCEPT ![d] = r]
    BY <1>2 DEF RouterCreated, IsNextRouter
  <2>2. d \in Channels
    BY <1>2 DEF RouterCreated, WorkerAnswers, Sound
  <2>3. \A c \in Channels : known[c] # r
    BY <2>1, NoNone DEF KnownInv, NoRouter
  <2>. HIDE DEF d
  <2>. QED
    BY <2>1, <2>2, <2>3 DEF KnownInv
<1>3. ASSUME NEW e \in Deaths, NEW w \in Workers, WorkerDies(e, w)
      PROVE  KnownInv'
  <2>1. PICK lost \in SUBSET Routers :
          /\ lost = {r \in Routers : router[r].worker = w}
          /\ router' = [r \in Routers |-> IF r \in lost THEN [router[r] EXCEPT !.worker = "gone"]
                                                       ELSE router[r]]
          /\ known' = [c \in Channels |-> IF \E r \in lost : router[r].channel = c
                                             THEN None ELSE known[c]]
    BY <1>3 DEF WorkerDies
  <2>2. ASSUME NEW c \in Channels, known'[c] # None
        PROVE  router'[known'[c]].worker \in Workers /\ router'[known'[c]].channel = c
    <3>1. known'[c] = known[c] /\ ~\E r \in lost : router[r].channel = c
      BY <2>1, <2>2
    <3>2. known[c] \in Routers /\ router[known[c]].worker \in Workers
          /\ router[known[c]].channel = c
      BY <2>2, <3>1 DEF KnownInv
    <3>3. known[c] \notin lost
      BY <3>1, <3>2
    <3>. QED
      BY <2>1, <3>1, <3>2, <3>3
  <2>. QED
    BY <2>2 DEF KnownInv
<1>4. ASSUME NEW e \in Deaths, MediaExits(e)
      PROVE  KnownInv'
  BY <1>4 DEF MediaExits, KnownInv
<1>. QED
  BY <1>1, <1>2, <1>3, <1>4, RouterSteps

(* What the API will read stays in order: as long as its jobs do not change *)
(* and no router goes, behind the first answer, and before one that makes   *)
(* it store no router that is gone.                                         *)
LEMMA OrderKept ==
  ASSUME NEW a \in Seq(Jobs), NEW jb, NEW jb2, NEW routers, NEW routers2,
         InOrder(a, jb, routers),
         \A j \in Jobs : In(a, j) =>
           jb2[j] = jb[j] /\ (Stale(jb[j], routers2) => Stale(jb[j], routers))
  PROVE  InOrder(a, jb2, routers2)
<1>. ASSUME NEW i \in 1..Len(a)
     PROVE  a[i] \in Jobs /\ In(a, a[i])
  BY DEF In
<1>. SUFFICES ASSUME NEW i \in 1..Len(a), Stale(jb2[a[i]], routers2)
              PROVE  \E k \in i + 1..Len(a) : jb2[a[k]].pc = "died"
  BY DEF InOrder
<1>1. Stale(jb[a[i]], routers)
  OBVIOUS
<1>2. PICK k \in i + 1..Len(a) : jb[a[k]].pc = "died"
  BY <1>1 DEF InOrder
<1>3. k \in 1..Len(a)
  OBVIOUS
<1>. QED
  BY <1>2, <1>3

LEMMA OrderOfTail ==
  ASSUME NEW a \in Seq(Jobs), a # <<>>, NEW jb, NEW routers, InOrder(a, jb, routers)
  PROVE  InOrder(Tail(a), jb, routers)
<1>1. /\ Len(a) \in Nat
      /\ Len(Tail(a)) = Len(a) - 1
      /\ \A i \in 1..Len(a) - 1 : Tail(a)[i] = a[i + 1]
  OBVIOUS
<1>. SUFFICES ASSUME NEW i \in 1..Len(a) - 1, Stale(jb[a[i + 1]], routers)
              PROVE  \E k \in i + 1..Len(a) - 1 : jb[Tail(a)[k]].pc = "died"
  BY <1>1 DEF InOrder
<1>2. PICK k \in (i + 1) + 1..Len(a) : jb[a[k]].pc = "died"
  BY <1>1 DEF InOrder
<1>3. k - 1 \in i + 1..Len(a) - 1 /\ Tail(a)[k - 1] = a[k]
  BY <1>1
<1>. QED
  BY <1>2, <1>3

LEMMA OrderOfAppend ==
  ASSUME NEW a \in Seq(Jobs), NEW j \in Jobs, NEW jb, NEW routers,
         InOrder(a, jb, routers), ~Stale(jb[j], routers)
  PROVE  InOrder(Append(a, j), jb, routers)
<1>1. /\ Len(a) \in Nat
      /\ Len(Append(a, j)) = Len(a) + 1
      /\ \A i \in 1..Len(a) : Append(a, j)[i] = a[i]
      /\ Append(a, j)[Len(a) + 1] = j
  OBVIOUS
<1>. SUFFICES ASSUME NEW i \in 1..Len(a) + 1, Stale(jb[Append(a, j)[i]], routers)
              PROVE  \E k \in i + 1..Len(a) + 1 : jb[Append(a, j)[k]].pc = "died"
  BY <1>1 DEF InOrder
<1>2. i \in 1..Len(a) /\ Stale(jb[a[i]], routers)
  BY <1>1
<1>3. PICK k \in i + 1..Len(a) : jb[a[k]].pc = "died"
  BY <1>2 DEF InOrder
<1>4. k \in i + 1..Len(a) + 1 /\ Append(a, j)[k] = a[k]
  BY <1>1, <1>2
<1>. QED
  BY <1>3, <1>4

LEMMA RegistrySame ==
  ASSUME RegistryIsAlive, UNCHANGED <<router, registry, late>>,
         \A e \in Deaths : job[e].pc = "died" => job'[e].pc = "died"
  PROVE  RegistryIsAlive'
BY DEF RegistryIsAlive

(* What happens to a job in no queue is no matter.                          *)
LEMMA UnqueuedKeepsRouters ==
  ASSUME TypeInv, QueueInv, ObserveInv, OrderInv, RegistryIsAlive,
         UNCHANGED <<router, registry, toWorker, toApi, late>>,
         NEW j \in Jobs, job[j].pc \notin Questions \cup {"died"},
         \A k \in Jobs : k # j => job'[k] = job[k]
  PROVE  ObserveInv' /\ OrderInv' /\ RegistryIsAlive'
<1>1. Unqueued(j, toMedia, toWorker, toApi)
  BY OthersAreUnqueued DEF QueueInv
<1>2. ObserveInv'
  BY <1>1 DEF ObserveInv, Unqueued
<1>3. OrderInv'
  BY <1>1, OrderKept DEF OrderInv, Unqueued, TypeInv, TypeOK
<1>4. RegistryIsAlive'
  BY RegistrySame DEF Jobs
<1>. QED
  BY <1>2, <1>3, <1>4

LEMMA RequestKeepsRouters ==
  ASSUME TypeInv, QueueInv, ObserveInv, OrderInv, RegistryIsAlive,
         NEW h \in Handlers, Request(h), UNCHANGED late
  PROVE  ObserveInv' /\ OrderInv' /\ RegistryIsAlive'
<1>1. job[h].pc = "idle" /\ h \in Jobs
  BY DEF Request, Join, RouterCapabilities, Produce, EndSession, CreateTransport, Jobs
<1>2. \A k \in Jobs : k # h => job'[k] = job[k]
  BY <1>1, RequestMoves, MovesKeep
<1>. QED
  BY <1>1, <1>2, UnqueuedKeepsRouters, RequestChanges DEF Questions

LEMMA DatabaseKeepsRouters ==
  ASSUME TypeInv, QueueInv, ObserveInv, OrderInv, RegistryIsAlive,
         NEW j \in Jobs, DatabaseStep(j), UNCHANGED late
  PROVE  ObserveInv' /\ OrderInv' /\ RegistryIsAlive'
<1>1. job[j].pc \notin Questions \cup {"died"}
  BY DEF DatabaseStep, Insert, AskTransport, RecordTransport, AskProducer, RecordProducer,
         ReadEnded, Fail, EndChannel, Questions
<1>2. \A k \in Jobs : k # j => job'[k] = job[k]
  BY DatabaseMoves, MovesKeep
<1>. QED
  BY <1>1, <1>2, UnqueuedKeepsRouters, DatabaseChanges

(* An answer that the API may act upon.                                     *)
LEMMA AnswerKeepsRouters ==
  ASSUME TypeInv, QueueInv, ObserveInv, OrderInv, RegistryIsAlive, QueueTypes',
         NEW j \in Jobs, Asked(job[j]), ~In(toApi, j),
         NEW r, Reply(j, r), ~Stale(r, router), UNCHANGED <<router, registry, late>>,
         \A w \in Workers, k \in Jobs : In(toWorker'[w], k) => k # j /\ In(toWorker[w], k)
  PROVE  ObserveInv' /\ OrderInv' /\ RegistryIsAlive'
<1>. /\ toApi \in Seq(Jobs) /\ job \in [Jobs -> Job]
     /\ job' = [job EXCEPT ![j] = r] /\ toApi' = Append(toApi, j)
  BY DEF TypeInv, TypeOK, Reply, Become
<1>1. job'[j] = r /\ \A k \in Jobs : k # j => job'[k] = job[k]
  OBVIOUS
<1>2. ObserveInv'
  BY <1>1 DEF ObserveInv
<1>3. OrderInv'
  <2>1. InOrder(toApi, job', router')
    BY <1>1, OrderKept DEF OrderInv
  <2>. QED
    BY <1>1, <2>1, OrderOfAppend DEF OrderInv
<1>4. RegistryIsAlive'
  BY <1>1, RegistrySame DEF Jobs, Asked, Questions
<1>. QED
  BY <1>2, <1>3, <1>4

LEMMA MediaKeepsRouters ==
  ASSUME TypeInv, QueueInv, KnownInv, ObserveInv, OrderInv, RegistryIsAlive, QueueTypes',
         NEW j \in Jobs, MediaStep(j), UNCHANGED late
  PROVE  ObserveInv' /\ OrderInv' /\ RegistryIsAlive'
<1>. /\ toMedia \in Seq(Jobs) /\ toApi \in Seq(Jobs) /\ toWorker \in [Workers -> Seq(Jobs)]
     /\ job \in [Jobs -> Job] /\ job[j] \in Job
     /\ UNCHANGED <<router, registry>>
  BY MediaChanges DEF TypeInv, TypeOK
<1>1. toMedia # <<>> /\ Head(toMedia) = j
  BY DEF MediaStep, ReadCreateRouter, ReadObserve, ReadCreateTransport, ReadProduce,
         ReadRelease, Reads
<1>2. /\ Asked(job[j]) /\ ~In(toApi, j)
      /\ \A w \in Workers : ~In(toWorker[w], j)
  BY <1>1, TakeFromMedia DEF QueueInv, Unqueued
<1>3. ASSUME NEW r, ~Stale(r, router), Reply(j, r), UNCHANGED toWorker
      PROVE  ObserveInv' /\ OrderInv' /\ RegistryIsAlive'
  BY <1>2, <1>3, AnswerKeepsRouters
<1>4. ASSUME NEW w, AskWorker(j, w), job[j].pc = "observe" => w = router[job[j].router].worker
      PROVE  ObserveInv' /\ OrderInv' /\ RegistryIsAlive'
  <2>1. \A v \in Workers, k \in Jobs :
          In(toWorker'[v], k) => In(toWorker[v], k) \/ (v = w /\ k = j)
    BY <1>4, AppendAdds DEF AskWorker
  <2>. QED
    BY <1>4, <2>1 DEF AskWorker, ObserveInv, OrderInv, RegistryIsAlive
<1>5. /\ ~Failure(j).ok
      /\ Result(j).pc = job[j].pc /\ Result(j).router = job[j].router
      /\ \A q : [Result(j) EXCEPT !.router = q].pc = job[j].pc
  BY DEF Failure, Result, Job
<1>6. CASE ReadObserve(j)
  <2>1. Known(job[j].router) => router[job[j].router].worker \in Workers
    BY <1>2, <1>6, NoNone DEF Known, KnownInv, Asked, ReadObserve, Reads, TypeInv, JobInv, Sound
  <2>. QED
    BY <1>3, <1>4, <1>5, <1>6, <2>1, NoNone DEF ReadObserve, Stale
<1>. QED
  BY <1>3, <1>4, <1>5, <1>6
  DEF MediaStep, ReadCreateRouter, ReadCreateTransport, ReadProduce, ReadRelease, Reads, Stale

LEMMA WorkerKeepsRouters ==
  ASSUME TypeInv, QueueInv, ObserveInv, OrderInv, RegistryIsAlive, QueueTypes',
         NEW j \in Jobs, NEW w \in Workers, WorkerStep(j, w), UNCHANGED late
  PROVE  ObserveInv' /\ OrderInv' /\ RegistryIsAlive'
<1>. DEFINE rest == [toWorker EXCEPT ![w] = Tail(@)]
<1>. /\ toMedia \in Seq(Jobs) /\ toApi \in Seq(Jobs) /\ toWorker \in [Workers -> Seq(Jobs)]
     /\ job \in [Jobs -> Job] /\ job[j] \in Job
     /\ router \in [Routers -> Router] /\ registry \in [Channels -> Routers \cup {None}]
     /\ registry' = registry
  BY WorkerChanges DEF TypeInv, TypeOK
<1>1. toWorker[w] # <<>> /\ Head(toWorker[w]) = j
  BY DEF WorkerStep, RouterCreated, ObserverCreated, TransportCreated, ProducerCreated,
         ProducerToWatch, ProducerWatched, WorkerRefuses, WorkerAnswers
<1>2. /\ rest \in [Workers -> Seq(Jobs)]
      /\ In(toWorker[w], j)
      /\ Asked(job[j]) /\ ~In(toApi, j)
      /\ \A v \in Workers : ~In(rest[v], j)
  BY <1>1, TakeFromWorker DEF QueueInv, Unqueued
<1>3. \A v \in Workers, k \in Jobs : In(rest[v], k) => k # j /\ In(toWorker[v], k)
  BY <1>1, <1>2, TailDrops
<1>. HIDE DEF rest
<1>4. ASSUME NEW r, ~Stale(r, router), Reply(j, r), toWorker' = rest, router' = router
      PROVE  ObserveInv' /\ OrderInv' /\ RegistryIsAlive'
  BY <1>2, <1>3, <1>4, AnswerKeepsRouters
<1>5. /\ ~Failure(j).ok
      /\ Result(j).pc = job[j].pc /\ Result(j).router = job[j].router
      /\ \A q : [Result(j) EXCEPT !.router = q].pc = job[j].pc
      /\ \A t : [Result(j) EXCEPT !.transport = t].pc = job[j].pc
      /\ \A ok : [job[j] EXCEPT !.pc = "produce", !.ok = ok].pc = "produce"
  BY DEF Failure, Result, Job
<1>6. CASE ObserverCreated(j, w)
  <2>1. router[job[j].router].worker = w
    BY <1>2, <1>6 DEF ObserverCreated, WorkerAnswers, ObserveInv
  <2>. QED
    BY <1>4, <1>5, <1>6, <2>1, NoNone DEF ObserverCreated, WorkerAnswers, Stale, rest
<1>7. CASE ProducerToWatch(j, w)
  <2>. DEFINE r == [job[j] EXCEPT !.pc = "watch"]
  <2>1. /\ toWorker' = [rest EXCEPT ![w] = Append(@, j)]
        /\ job' = [job EXCEPT ![j] = r] /\ job[j].pc = "produce"
        /\ UNCHANGED <<router, toApi>>
    BY <1>7 DEF ProducerToWatch, Become, rest
  <2>2. r.pc = "watch"
    BY DEF Job
  <2>. HIDE DEF r
  <2>3. \A v \in Workers, k \in Jobs : In(toWorker'[v], k) => In(rest[v], k) \/ k = j
    BY <1>2, <2>1, AppendAdds
  <2>4. job'[j].pc = "watch" /\ \A k \in Jobs : k # j => job'[k] = job[k]
    BY <2>1, <2>2
  <2>5. ObserveInv'
    BY <1>3, <2>1, <2>3, <2>4 DEF ObserveInv
  <2>6. OrderInv'
    BY <1>2, <2>1, <2>4, OrderKept DEF OrderInv
  <2>7. RegistryIsAlive'
    BY <2>1, <2>4, RegistrySame DEF Jobs
  <2>. QED
    BY <2>5, <2>6, <2>7
<1>8. CASE RouterCreated(j, w)
  <2>1. PICK q \in Routers :
          /\ router[q] = NoRouter
          /\ router' = [router EXCEPT ![q] = [worker |-> w, channel |-> job[j].channel]]
          /\ Reply(j, [Result(j) EXCEPT !.router = q])
    BY <1>8 DEF RouterCreated, IsNextRouter
  <2>. DEFINE r == [Result(j) EXCEPT !.router = q]
  <2>2. /\ job' = [job EXCEPT ![j] = r] /\ toApi' = Append(toApi, j)
        /\ toWorker' = rest /\ job[j].pc = "createRouter" /\ r.pc = "createRouter"
    BY <1>5, <1>8, <2>1 DEF Reply, Become, RouterCreated, WorkerAnswers, rest
  <2>. HIDE DEF r
  <2>3. job'[j].pc = "createRouter" /\ \A k \in Jobs : k # j => job'[k] = job[k]
    BY <2>2
  <2>4. router[q].worker = None /\ router'[q].worker = w
        /\ \A p \in Routers : p # q => router'[p] = router[p]
    BY <2>1 DEF NoRouter
  <2>5. ASSUME NEW v \in Workers, NEW k \in Jobs, In(toWorker'[v], k), job'[k].pc = "observe"
        PROVE  router'[job'[k].router].worker = v
    <3>1. k # j /\ job'[k] = job[k] /\ router[job[k].router].worker = v
      BY <1>3, <2>2, <2>3, <2>5 DEF ObserveInv
    <3>2. job[k].router \in Routers /\ job[k].router # q
      BY <2>4, <2>5, <3>1, NoNone DEF TypeInv, JobInv, Sound
    <3>. QED
      BY <2>4, <3>1, <3>2
  <2>6. OrderInv'
    <3>1. ASSUME NEW k \in Jobs, In(toApi, k)
          PROVE  job'[k] = job[k] /\ (Stale(job[k], router') => Stale(job[k], router))
      <4>1. k # j
        BY <1>2, <3>1
      <4>2. job[k].pc = "observe" => job[k].router \in Routers
        BY DEF TypeInv, JobInv, Sound
      <4>. QED
        BY <2>3, <2>4, <4>1, <4>2, NoNone DEF Stale
    <3>2. InOrder(toApi, job', router')
      BY <3>1, OrderKept DEF OrderInv
    <3>. QED
      BY <2>2, <2>3, <3>2, OrderOfAppend DEF OrderInv, Stale
  <2>7. RegistryIsAlive'
    <3>1. \A e \in Deaths : job[e].pc = "died" => job'[e].pc = "died"
      BY <2>2, <2>3 DEF Jobs
    <3>2. \A p \in Routers : router'[p].worker = "gone" => router[p].worker = "gone"
      BY <2>4, NoNone
    <3>. QED
      BY <3>1, <3>2 DEF RegistryIsAlive
  <2>. QED
    BY <2>5, <2>6, <2>7 DEF ObserveInv
<1>9. CASE TransportCreated(j, w) \/ ProducerCreated(j, w)
  BY <1>4, <1>5, <1>9 DEF TransportCreated, ProducerCreated, WorkerAnswers, Stale, rest
<1>10. CASE ProducerWatched(j, w)
  BY <1>4, <1>5, <1>10 DEF ProducerWatched, WorkerAnswers, Stale, rest, media
<1>11. CASE WorkerRefuses(j, w)
  BY <1>4, <1>5, <1>11, WorkerChanges DEF WorkerRefuses, WorkerAnswers, Stale, rest, media
<1>. QED
  BY <1>6, <1>7, <1>8, <1>9, <1>10, <1>11 DEF WorkerStep

LEMMA ReadAnswerKeepsRouters ==
  ASSUME TypeInv, ObserveInv, OrderInv, ReadInv, RegistryIsAlive, NEW j \in Jobs, ReadAnswer(j)
  PROVE  ObserveInv' /\ OrderInv' /\ ReadInv' /\ RegistryIsAlive'
<1>. /\ toApi \in Seq(Jobs) /\ toApi # <<>> /\ Head(toApi) = j /\ toApi' = Tail(toApi)
     /\ UNCHANGED <<job, router, registry, late, toWorker>> /\ settled' = settled \cup {j}
  BY DEF ReadAnswer, TypeInv, TypeOK, media
<1>1. ASSUME Stale(job[j], router)
      PROVE  Death
  <2>1. Len(toApi) \in Nat /\ 1 \in 1..Len(toApi) /\ toApi[1] = j
    OBVIOUS
  <2>2. PICK k \in 1 + 1..Len(toApi) : job[toApi[k]].pc = "died"
    BY <1>1, <2>1 DEF OrderInv, InOrder
  <2>3. toApi[k] \in Jobs
    BY <2>1
  <2>. QED
    BY <2>2, <2>3 DEF TypeInv, JobInv, Sound, Jobs, Death
<1>2. OrderInv'
  BY OrderOfTail DEF OrderInv
<1>3. ReadInv'
  BY <1>1 DEF ReadInv, Death
<1>. QED
  BY <1>2, <1>3 DEF ObserveInv, RegistryIsAlive

(* A job that goes on stores a router that is gone only if it is late.      *)
LEMMA ContinuesKeepsRouters ==
  ASSUME TypeInv, SettledInv, ObserveInv, OrderInv, ReadInv, RegistryIsAlive,
         NEW j \in Jobs, ApiStep(j), Continues(j)
  PROVE  ObserveInv' /\ OrderInv' /\ ReadInv' /\ RegistryIsAlive'
<1>. /\ toApi \in Seq(Jobs) /\ registry \in [Channels -> Routers \cup {None}]
     /\ settled' = settled \ {j} /\ settled \subseteq Jobs
     /\ UNCHANGED <<router, toWorker, toApi, late>>
  BY ApiChanges DEF Continues, TypeInv, TypeOK
<1>1. \A k \in Jobs : k # j => job'[k] = job[k]
  BY ApiMoves, MovesKeep
<1>2. /\ ~In(toApi, j) /\ \A w \in Workers : ~In(toWorker[w], j)
      /\ job[j].pc # "died"
  BY DEF Continues, SettledInv, Unqueued, Questions
<1>3. ObserveInv' /\ OrderInv'
  BY <1>1, <1>2, OrderKept DEF ObserveInv, OrderInv
<1>4. \A e \in Deaths : job[e].pc = "died" => job'[e].pc = "died"
  BY <1>1, <1>2 DEF Jobs
<1>5. ReadInv'
  <2>. SUFFICES ASSUME NEW k \in settled, k # j, Stale(job'[k], router)
                PROVE  Death' \/ job'[k].router \in late
    BY DEF ReadInv
  <2>1. job'[k] = job[k]
    BY <1>1
  <2>. QED
    BY <1>4, <2>1 DEF ReadInv, Death
<1>6. RegistryIsAlive'
  <2>1. CASE GotObserver(j)
    <3>1. /\ job[j].pc = "observe" /\ job[j].ok
          /\ registry' = [registry EXCEPT ![job[j].channel] = job[j].router]
      BY <2>1 DEF GotObserver, Answered
    <3>2. router[job[j].router].worker = "gone" => Death \/ job[j].router \in late
      BY <3>1 DEF ReadInv, Stale, Continues
    <3>. QED
      BY <1>4, <3>1, <3>2 DEF RegistryIsAlive, Death
  <2>2. CASE registry' = registry
    BY <1>4, <2>2, RegistrySame
  <2>3. ~GotDeath(j)
    BY <1>2 DEF GotDeath, ReadsDeath
  <2>. QED
    BY <2>1, <2>2, <2>3, ApiChanges
<1>. QED
  BY <1>3, <1>5, <1>6

LEMMA DeathKeepsRouters ==
  ASSUME TypeInv, QueueInv, SettledInv, ObserveInv, OrderInv, NEW j \in Jobs, GotDeath(j)
  PROVE  ObserveInv' /\ OrderInv' /\ ReadInv' /\ RegistryIsAlive'
<1>. DEFINE a == Tail(toApi)
<1>. /\ toMedia \in Seq(Jobs) /\ toApi \in Seq(Jobs) /\ toWorker \in [Workers -> Seq(Jobs)]
     /\ UNCHANGED <<router, toWorker, settled>> /\ late' = Returned
     /\ settled \subseteq Jobs /\ job[j].pc = "died"
  BY DEF GotDeath, ReadsDeath, TypeInv, TypeOK, media
<1>1. toApi # <<>> /\ Head(toApi) = j /\ toApi' = a
  BY DEF GotDeath, ReadsDeath
<1>2. /\ a \in Seq(Jobs)
      /\ ~In(a, j)
      /\ \A w \in Workers : ~In(toWorker[w], j)
      /\ InOrder(a, job, router)
  BY <1>1, TakeFromApi, OrderOfTail DEF QueueInv, Unqueued, OrderInv
<1>3. \A k \in Jobs : k # j => job'[k] = job[k]
  BY ApiMoves, MovesKeep DEF ApiStep
<1>. HIDE DEF a
<1>4. ObserveInv'
  BY <1>2, <1>3 DEF ObserveInv
<1>5. OrderInv'
  BY <1>1, <1>2, <1>3, OrderKept DEF OrderInv
<1>6. ReadInv'
  <2>1. \A k \in settled : job'[k] = job[k]
    BY <1>3 DEF SettledInv, Questions
  <2>. QED
    BY <2>1 DEF ReadInv, Stale, Returned
<1>7. RegistryIsAlive'
  BY DEF GotDeath, RegistryIsAlive
<1>. QED
  BY <1>4, <1>5, <1>6, <1>7

(* The questions a dead worker had fail behind the news of its death.       *)
LEMMA WorkerDiesKeepsRouters ==
  ASSUME TypeInv, QueueInv, ObserveInv, OrderInv, RegistryIsAlive, QueueTypes',
         NEW e \in Deaths, NEW w \in Workers, WorkerDies(e, w), UNCHANGED late
  PROVE  ObserveInv' /\ OrderInv' /\ RegistryIsAlive'
<1>. /\ toApi \in Seq(Jobs) /\ toWorker \in [Workers -> Seq(Jobs)]
     /\ toWorker[w] \in Seq(Jobs)
     /\ job \in [Jobs -> Job] /\ e \in Jobs /\ registry' = registry
  BY DEF TypeInv, TypeOK, Jobs, WorkerDies
<1>1. Unqueued(e, toMedia, toWorker, toApi)
  <2>. job[e].pc = "idle"
    BY DEF WorkerDies
  <2>. QED
    BY OthersAreUnqueued DEF QueueInv, Questions
<1>2. job'[e].pc = "died" /\ \A k \in Jobs : k # e => job'[k] = job[k]
  BY DEF WorkerDies, Become, IdleJob
<1>3. /\ toWorker'[w] = <<>>
      /\ \A v \in Workers : v # w => toWorker'[v] = toWorker[v]
      /\ \A x : ~In(<<>>, x)
  BY DEF WorkerDies, In
<1>4. \A r \in Routers : router'[r].worker = router[r].worker \/ router[r].worker = w
  BY DEF WorkerDies, TypeInv, TypeOK
<1>5. ASSUME NEW v \in Workers, NEW j \in Jobs, In(toWorker'[v], j), job'[j].pc = "observe"
      PROVE  router'[job'[j].router].worker = v
  <2>1. v # w /\ In(toWorker[v], j) /\ job'[j] = job[j] /\ job[j].pc = "observe"
    BY <1>1, <1>2, <1>3, <1>5 DEF Unqueued
  <2>2. router[job[j].router].worker = v /\ job[j].router \in Routers
    BY <2>1 DEF ObserveInv, TypeInv, JobInv, Sound
  <2>. QED
    BY <1>4, <2>1, <2>2
<1>6. OrderInv'
  <2>1. /\ Len(toApi) \in Nat /\ Len(toWorker[w]) \in Nat
        /\ toApi' = (toApi \o <<e>>) \o toWorker[w]
        /\ Len(toApi') = Len(toApi) + 1 + Len(toWorker[w])
        /\ toApi'[Len(toApi) + 1] = e
    BY DEF WorkerDies
  <2>2. \A i \in 1..Len(toWorker[w]) : toApi'[Len(toApi) + 1 + i] = toWorker[w][i]
    BY <2>1
  <2>. SUFFICES ASSUME NEW i \in 1..Len(toApi'), Stale(job'[toApi'[i]], router')
                PROVE  \E k \in i + 1..Len(toApi') : job'[toApi'[k]].pc = "died"
    BY DEF OrderInv, InOrder
  <2>3. CASE i \in 1..Len(toApi)
    <3>. Len(toApi) + 1 \in i + 1..Len(toApi')
      BY <2>1, <2>3
    <3>. QED
      BY <1>2, <2>1
  <2>4. CASE i = Len(toApi) + 1
    BY <1>2, <2>1, <2>4 DEF Stale
  <2>5. CASE i > Len(toApi) + 1
    <3>. DEFINE n == i - (Len(toApi) + 1)
                j == toWorker[w][n]
    <3>1. n \in 1..Len(toWorker[w]) /\ i = Len(toApi) + 1 + n
      BY <2>1, <2>5
    <3>2. toApi'[i] = j /\ j \in Jobs /\ In(toWorker[w], j)
      BY <2>2, <3>1 DEF In
    <3>. HIDE DEF n, j
    <3>3. ~job[j].ok /\ j # e
      BY <1>1, <3>2 DEF QueueInv, Orderly, Asked, Unqueued
    <3>. QED
      BY <1>2, <3>2, <3>3 DEF Stale
  <2>6. i \in 1..Len(toApi) + 1 + Len(toWorker[w])
    BY <2>1
  <2>7. i \in 1..Len(toApi) \/ i = Len(toApi) + 1 \/ i > Len(toApi) + 1
    BY <2>1, <2>6
  <2>. QED
    BY <2>3, <2>4, <2>5, <2>7
<1>7. RegistryIsAlive'
  BY <1>2 DEF RegistryIsAlive
<1>. QED
  BY <1>5, <1>6, <1>7 DEF ObserveInv

LEMMA MediaExitsKeepsRouters ==
  ASSUME TypeInv, QueueInv, QueueTypes', NEW e \in Deaths, MediaExits(e)
  PROVE  ObserveInv' /\ OrderInv' /\ RegistryIsAlive'
<1>1. ObserveInv'
  <2>. \A w \in Workers : toWorker'[w] = <<>>
    BY DEF MediaExits
  <2>. \A x : ~In(<<>>, x)
    BY DEF In
  <2>. QED
    BY DEF ObserveInv
<1>2. OrderInv'
  <2>. \A i \in 1..Len(toApi') : toApi'[i] \in Jobs /\ In(toApi', toApi'[i])
    BY DEF QueueTypes, In
  <2>. QED
    BY MediaExitsQueues DEF OrderInv, InOrder, Stale
<1>3. RegistryIsAlive'
  BY DEF MediaExits, RegistryIsAlive
<1>. QED
  BY <1>1, <1>2, <1>3

LEMMA RouterInvStep ==
  ASSUME RouterInv, [Next]_vars
  PROVE  RouterInv'
<1>. /\ TypeInv /\ QueueInv /\ SettledInv /\ KnownInv /\ ObserveInv /\ OrderInv
     /\ ReadInv /\ RegistryIsAlive
  BY DEF RouterInv
<1>1. TypeInv' /\ QueueInv' /\ SettledInv' /\ QueueTypes' /\ KnownInv'
  BY TypeInvStep, QueueInvStep, SettledInvStep, KnownInvStep
<1>2. CASE UNCHANGED vars
  BY <1>1, <1>2
  DEF vars, media, queues, chunk, RouterInv, ObserveInv, OrderInv, ReadInv, Death,
      RegistryIsAlive
<1>3. ASSUME settled = {} /\ UNCHANGED settled
      PROVE  ReadInv'
  BY <1>3 DEF ReadInv
<1>4. ASSUME NEW j \in Jobs, ApiStep(j)
      PROVE  ObserveInv' /\ OrderInv' /\ ReadInv' /\ RegistryIsAlive'
  BY <1>4, ApiReads, ContinuesKeepsRouters, DeathKeepsRouters
<1>. QED
  BY <1>1, <1>2, <1>3, <1>4, RequestKeepsRouters, DatabaseKeepsRouters, MediaKeepsRouters,
     WorkerKeepsRouters, ReadAnswerKeepsRouters, WorkerDiesKeepsRouters, MediaExitsKeepsRouters,
     ChunkSteps
  DEF RouterInv

LEMMA RouterInvInit ==
  ASSUME Init
  PROVE  RouterInv
<1>1. KnownInv /\ ObserveInv /\ OrderInv /\ ReadInv /\ RegistryIsAlive
  BY DEF Init, KnownInv, ObserveInv, OrderInv, ReadInv, InOrder, RegistryIsAlive, In
<1>. QED
  BY <1>1, TypeInvInit, NothingQueued DEF RouterInv

(* A router that the API hands out is there, or the API has yet to read     *)
(* that its worker died, or the answer that put it back came in one chunk   *)
(* with the news: the media process answers in the order in which things    *)
(* happen to it, so no later answer names a router that is gone.            *)
THEOREM RegistryStaysAlive == Spec => []RegistryIsAlive
<1>1. RouterInv => RegistryIsAlive
  BY DEF RouterInv
<1>. QED
  BY <1>1, RouterInvInit, RouterInvStep, PTL DEF Spec

-----------------------------------------------------------------------------
(* Transports.                                                              *)

(* How jobs, rows and transports change, as far as names of transports and  *)
(* releases go.  A job that drops its transport, without starting a release. *)
Blank(r) == r.transport = None /\ r.pc \notin {"readEnded", "release"}

(* A job that goes on with what it works on.                                *)
GoesOn(r, q) ==
    /\ q.transport = r.transport /\ q.session = r.session /\ q.ended = r.ended
    /\ q.pc \in Creating => r.pc \in Creating
    /\ q.pc \in Producing => r.pc \in Producing
    /\ q.pc \in {"readEnded", "release"} => q.pc = r.pc

Starts(j) ==
    \/ j \in Handlers /\ \E s \in Sessions : Produce(j, s) \/ EndSession(j, s)
    \/ \E w \in Workers : TransportCreated(j, w)
    \/ ReadEnded(j)

LEMMA IdleIsBlank ==
  /\ Blank(IdleJob)
  /\ \A S : Blank(EndChannelsJob(S))
<1>. ASSUME NEW S
     PROVE  Blank([IdleJob EXCEPT !.pc = "endChannels", !.channels = S])
  BY DEF Blank, IdleJob
<1>. QED
  BY DEF Blank, IdleJob, EndChannelsJob

LEMMA RequestOfJob ==
  ASSUME TypeInv, NEW h \in Handlers, Request(h)
  PROVE  Blank(job'[h]) \/ Starts(h)
<1>. job \in [Jobs -> Job] /\ h \in Jobs
  BY DEF TypeInv, TypeOK, Jobs
<1>1. ASSUME NEW r, Become(h, r), Blank(r)
      PROVE  Blank(job'[h])
  BY <1>1 DEF Become
<1>2. ASSUME NEW r0 \in Job, GetOrCreateRouter(h, r0), r0.transport = None
      PROVE  Blank(job'[h])
  <2>1. ASSUME NEW q
        PROVE  Blank(WithRouter([r0 EXCEPT !.router = q]))
    <3>. DEFINE r == [r0 EXCEPT !.router = q]
    <3>1. [r EXCEPT !.pc = "insert"].transport = None /\ [r EXCEPT !.pc = "insert"].pc = "insert"
      BY <1>2 DEF Job
    <3>. QED
      BY <3>1, IdleIsBlank DEF WithRouter, Blank
  <2>2. Blank([r0 EXCEPT !.pc = "createRouter"])
    BY <1>2 DEF Blank, Job
  <2>. QED
    BY <1>1, <1>2, <2>1, <2>2 DEF GetOrCreateRouter, Ask
<1>3. ASSUME NEW c \in Channels, Join(h, c)
      PROVE  Blank(job'[h])
  <2>. DEFINE r0 == [IdleJob EXCEPT !.channel = c, !.joins = TRUE]
  <2>1. r0 \in Job /\ r0.transport = None
    BY IdleIsSound DEF IdleJob, Job
  <2>. QED
    BY <1>2, <1>3, <2>1 DEF Join
<1>4. ASSUME NEW s \in Sessions, RouterCapabilities(h, s)
      PROVE  Blank(job'[h])
  <2>. DEFINE r0 == [IdleJob EXCEPT !.channel = row[s].channel]
  <2>1. r0 \in Job /\ r0.transport = None
    BY IdleIsSound DEF IdleJob, Job, TypeInv, TypeOK, Row
  <2>2. GetOrCreateRouter(h, r0)
    BY <1>4 DEF RouterCapabilities
  <2>. HIDE DEF r0
  <2>. QED
    BY <1>2, <2>1, <2>2
<1>5. ASSUME NEW s \in Sessions, NEW d \in Directions, CreateTransport(h, s, d)
      PROVE  Blank(job'[h])
  <2>. DEFINE r == [IdleJob EXCEPT !.pc = "askTransport", !.session = s,
                                   !.direction = d, !.router = row[s].router]
  <2>1. Blank(r)
    BY DEF Blank, IdleJob
  <2>. QED
    BY <1>1, <1>5, <2>1 DEF CreateTransport
<1>. QED
  BY <1>3, <1>4, <1>5 DEF Request, Starts

LEMMA DatabaseOfJob ==
  ASSUME TypeInv, NEW j \in Jobs, DatabaseStep(j)
  PROVE  Blank(job'[j]) \/ GoesOn(job[j], job'[j]) \/ Starts(j)
<1>. job \in [Jobs -> Job] /\ job[j] \in Job /\ Sound(j, job[j])
  BY DEF TypeInv, TypeOK, JobInv
<1>1. CASE AskTransport(j)
  <2>1. job'[j] = [job[j] EXCEPT !.pc = "createTransport"] /\ job[j].pc = "askTransport"
    BY <1>1 DEF AskTransport, Ask, Become
  <2>2. job'[j].transport = job[j].transport /\ job'[j].pc = "createTransport"
    BY <2>1 DEF Job
  <2>. QED
    BY <2>1, <2>2 DEF Blank, Sound, Creating, Producing
<1>2. CASE AskProducer(j)
  <2>1. job'[j] = [job[j] EXCEPT !.pc = "produce"] /\ job[j].pc = "askProducer"
    BY <1>2 DEF AskProducer, Ask, Become
  <2>. QED
    BY <2>1 DEF GoesOn, Creating, Producing, Job
<1>3. ASSUME Become(j, IdleJob) \/ \E S : Become(j, EndChannelsJob(S))
      PROVE  Blank(job'[j])
  BY <1>3, IdleIsBlank DEF Become
<1>. QED
  BY <1>1, <1>2, <1>3
  DEF DatabaseStep, Insert, RecordTransport, RecordProducer, Fail, EndChannel, Starts

LEMMA ReplyGoesOn ==
  ASSUME TypeInv, NEW j \in Jobs
  PROVE  /\ GoesOn(job[j], job[j])
         /\ GoesOn(job[j], Result(j)) /\ GoesOn(job[j], Failure(j))
         /\ \A q : GoesOn(job[j], [Result(j) EXCEPT !.router = q])
BY DEF GoesOn, Result, Failure, Job, TypeInv, TypeOK

LEMMA MediaOfJob ==
  ASSUME TypeInv, NEW j \in Jobs, MediaStep(j)
  PROVE  GoesOn(job[j], job'[j])
<1>1. ASSUME NEW r, Reply(j, r), GoesOn(job[j], r)
      PROVE  GoesOn(job[j], job'[j])
  BY <1>1 DEF Reply, Become, TypeInv, TypeOK
<1>. QED
  BY <1>1, ReplyGoesOn
  DEF MediaStep, ReadCreateRouter, ReadObserve, ReadCreateTransport, ReadProduce,
      ReadRelease, AskWorker

LEMMA WorkerOfJob ==
  ASSUME TypeInv, NEW j \in Jobs, NEW w \in Workers, WorkerStep(j, w)
  PROVE  GoesOn(job[j], job'[j]) \/ Starts(j)
<1>. job \in [Jobs -> Job] /\ job[j] \in Job
  BY DEF TypeInv, TypeOK
<1>1. CASE ProducerToWatch(j, w)
  <2>1. job'[j] = [job[j] EXCEPT !.pc = "watch"] /\ job[j].pc = "produce"
    BY <1>1 DEF ProducerToWatch, Become
  <2>. QED
    BY <2>1 DEF GoesOn, Creating, Producing, Job
<1>2. CASE ProducerWatched(j, w)
  <2>1. job'[j] = [job[j] EXCEPT !.pc = "produce", !.ok = transport[job[j].transport].producing]
        /\ job[j].pc = "watch"
    BY <1>2 DEF ProducerWatched, WorkerAnswers, Reply, Become
  <2>. QED
    BY <2>1 DEF GoesOn, Creating, Producing, Job
<1>3. ASSUME NEW r, Reply(j, r), GoesOn(job[j], r)
      PROVE  GoesOn(job[j], job'[j])
  BY <1>3 DEF Reply, Become
<1>. QED
  BY <1>1, <1>2, <1>3, ReplyGoesOn
  DEF WorkerStep, RouterCreated, ObserverCreated, ProducerCreated, WorkerRefuses, Starts

LEMMA ApiOfJob ==
  ASSUME TypeInv, NEW j \in Jobs, ApiStep(j)
  PROVE  Blank(job'[j]) \/ GoesOn(job[j], job'[j])
<1>. job \in [Jobs -> Job] /\ job[j] \in Job
  BY DEF TypeInv, TypeOK
<1>1. CASE GotRouter(j)
  <2>1. job'[j] = [job[j] EXCEPT !.pc = "observe", !.ok = FALSE]
    BY <1>1 DEF GotRouter, Ask, Become
  <2>. QED
    BY <2>1 DEF GoesOn, Creating, Producing, Job
<1>2. CASE GotObserver(j)
  <2>1. job'[j] = [[job[j] EXCEPT !.ok = FALSE] EXCEPT !.pc = "insert"] \/ job'[j] = IdleJob
    BY <1>2 DEF GotObserver, WithRouter, Become
  <2>2. GoesOn(job[j], [[job[j] EXCEPT !.ok = FALSE] EXCEPT !.pc = "insert"])
    BY DEF GoesOn, Creating, Producing, Job
  <2>. QED
    BY <2>1, <2>2, IdleIsBlank
<1>3. CASE GotTransport(j)
  <2>1. job'[j] = [job[j] EXCEPT !.pc = "recordTransport"] /\ job[j].pc = "createTransport"
    BY <1>3 DEF GotTransport, Answered, Become
  <2>. QED
    BY <2>1 DEF GoesOn, Creating, Producing, Job
<1>4. CASE GotProducer(j)
  <2>1. job'[j] = [job[j] EXCEPT !.pc = "recordProducer"] /\ job[j].pc = "produce"
    BY <1>4 DEF GotProducer, Answered, Become
  <2>. QED
    BY <2>1 DEF GoesOn, Creating, Producing, Job
<1>. QED
  BY <1>1, <1>2, <1>3, <1>4, IdleIsBlank
  DEF ApiStep, GotRelease, GotError, GotDeath, ReadsDeath, Become

LEMMA JobSteps ==
  ASSUME TypeInv, [Next]_vars, NEW k \in Jobs
  PROVE  Blank(job'[k]) \/ GoesOn(job[k], job'[k]) \/ Starts(k)
<1>1. CASE job'[k] = job[k]
  BY <1>1, ReplyGoesOn
<1>2. CASE \E h \in Handlers : Request(h)
  BY <1>1, <1>2, RequestOfJob, RequestMoves, MovesKeep DEF Jobs
<1>3. CASE \E j \in Jobs : DatabaseStep(j)
  BY <1>1, <1>3, DatabaseOfJob, DatabaseMoves, MovesKeep
<1>4. CASE \E j \in Jobs : MediaStep(j)
  BY <1>1, <1>4, MediaOfJob, MediaMoves, MovesKeep
<1>5. CASE \E j \in Jobs, w \in Workers : WorkerStep(j, w)
  BY <1>1, <1>5, WorkerOfJob, WorkerMoves, MovesKeep
<1>6. CASE \E j \in Jobs : ApiStep(j)
  BY <1>1, <1>6, ApiOfJob, ApiMoves, MovesKeep
<1>7. ASSUME NEW e \in Deaths, NEW w \in Workers, WorkerDies(e, w)
      PROVE  Blank(job'[k]) \/ job'[k] = job[k]
  <2>. Blank([IdleJob EXCEPT !.pc = "died"])
    BY DEF Blank, IdleJob
  <2>. QED
    BY <1>7 DEF WorkerDies, Become, TypeInv, TypeOK
<1>8. ASSUME NEW e \in Deaths, MediaExits(e)
      PROVE  Blank(job'[k]) \/ job'[k] = job[k]
  BY <1>8, IdleIsBlank DEF MediaExits
<1>9. ASSUME NEW j \in Jobs, ReadAnswer(j)
      PROVE  job' = job
  BY <1>9 DEF ReadAnswer
<1>. QED
  BY <1>1, <1>2, <1>3, <1>4, <1>5, <1>6, <1>7, <1>8, <1>9, ChunkSteps DEF vars

(* Rows name no more than they did, unless a job records what it has.       *)
LEMMA RowNames ==
  ASSUME TypeInv, [Next]_vars, ~\E j \in Jobs : RecordTransport(j) \/ RecordProducer(j),
         NEW s \in Sessions
  PROVE  \/ /\ row'[s].send = row[s].send
            /\ row'[s].recv = row[s].recv
            /\ row'[s].producer = row[s].producer
         \/ /\ row'[s].send = None
            /\ row'[s].recv = None
            /\ row'[s].producer = None
<1>. row \in [Sessions -> Row] /\ \A q \in Sessions : row[q] \in Row
  BY DEF TypeInv, TypeOK
<1>. USE DEF Row
<1>1. ASSUME NEW h \in Handlers, NEW q \in Sessions, EndSession(h, q)
      PROVE  /\ row'[s].send = row[s].send
             /\ row'[s].recv = row[s].recv
             /\ row'[s].producer = row[s].producer
  BY <1>1 DEF EndSession
<1>2. ASSUME NEW j \in Jobs, EndChannel(j)
      PROVE  /\ row'[s].send = row[s].send
             /\ row'[s].recv = row[s].recv
             /\ row'[s].producer = row[s].producer
  <2>. row'[s] = row[s] \/ row'[s] = [row[s] EXCEPT !.status = "failed"]
    BY <1>2 DEF EndChannel
  <2>. QED
    OBVIOUS
<1>3. ASSUME NEW j \in Jobs, Insert(j)
      PROVE  \/ row'[s] = row[s]
             \/ /\ row'[s].send = None
                /\ row'[s].recv = None
                /\ row'[s].producer = None
  BY <1>3 DEF Insert, NoRow
<1>. QED
  BY <1>1, <1>2, <1>3, RowSteps

(* The row of a session that has ended is left alone.                       *)
LEMMA EndedRowStays ==
  ASSUME TypeInv, [Next]_vars, NEW s \in Sessions, row[s].status \in {"ended", "failed"}
  PROVE  row'[s] = row[s]
<1>. row \in [Sessions -> Row] /\ row[s] \in Row /\ ~Active(s)
  BY DEF TypeInv, TypeOK, Active
<1>1. ASSUME NEW h \in Handlers, NEW q \in Sessions, EndSession(h, q)
      PROVE  row'[s] = row[s]
  BY <1>1 DEF EndSession
<1>2. ASSUME NEW j \in Jobs, EndChannel(j)
      PROVE  row'[s] = row[s]
  BY <1>2 DEF EndChannel
<1>3. ASSUME NEW j \in Jobs, Insert(j)
      PROVE  row'[s] = row[s]
  BY <1>3 DEF Insert, IsNextSession
<1>4. ASSUME NEW j \in Jobs, RecordTransport(j)
      PROVE  row'[s] = row[s]
  BY <1>4 DEF RecordTransport, Active
<1>5. ASSUME NEW j \in Jobs, RecordProducer(j)
      PROVE  row'[s] = row[s]
  <2>1. [row[s] EXCEPT !.producer = row[s].producer] = row[s]
    BY DEF Row
  <2>. QED
    BY <1>5, <2>1 DEF RecordProducer
<1>. QED
  BY <1>1, <1>2, <1>3, <1>4, <1>5, RowSteps

(* A transport is there, and is closed, once and for all; only a producer   *)
(* that a job asked for makes it produce again.                             *)
Later(old, new) ==
    /\ old.status = "absent" \/ new.status # "absent"
    /\ old.status = "closed" => new.status = "closed"
    /\ new.producing => old.producing

LEMMA ClosedIsLater ==
  ASSUME NEW t \in Transport
  PROVE  Later(t, Closed(t)) /\ Later(t, [t EXCEPT !.producing = FALSE]) /\ Later(t, t)
<1>1. /\ [t EXCEPT !.producing = FALSE].status = t.status
      /\ [t EXCEPT !.producing = FALSE].producing = FALSE
  BY DEF Transport
<1>2. /\ Closed(t).status = IF t.status = "open" THEN "closed" ELSE t.status
      /\ Closed(t).producing = FALSE
  BY DEF Closed, Transport
<1>. QED
  BY <1>1, <1>2 DEF Later

LEMMA TransportGoesOn ==
  ASSUME TypeInv, [Next]_vars, NEW t \in Transports
  PROVE  \/ Later(transport[t], transport'[t])
         \/ /\ transport[t].status = "absent"
            /\ \E j \in Jobs, w \in Workers : TransportCreated(j, w)
         \/ /\ transport'[t].status = transport[t].status
            /\ \E j \in Jobs : job[j].transport = t /\ job[j].pc = "produce"
<1>. /\ transport \in [Transports -> Transport] /\ transport[t] \in Transport
     /\ transport' \in [Transports -> Transport]
  BY TransportTypeStep DEF TypeInv, TypeOK
<1>1. CASE transport' = transport
  BY <1>1, ClosedIsLater
<1>2. ASSUME NEW j \in Jobs, NEW w \in Workers, TransportCreated(j, w)
      PROVE  Later(transport[t], transport'[t]) \/ transport[t].status = "absent"
  BY <1>2, ClosedIsLater DEF TransportCreated, IsNextTransport
<1>3. ASSUME NEW j \in Jobs, NEW w \in Workers, ProducerCreated(j, w) \/ ProducerToWatch(j, w)
      PROVE  \/ transport'[t] = transport[t]
             \/ /\ transport'[t].status = transport[t].status
                /\ job[j].transport = t /\ job[j].pc = "produce"
  <2>1. /\ job[j].pc = "produce"
        /\ transport' = [transport EXCEPT ![job[j].transport].producing =
                           @ \/ transport[job[j].transport].status = "open"]
    BY <1>3 DEF ProducerCreated, ProducerToWatch, WorkerAnswers
  <2>2. CASE job[j].transport = t
    <3>. DEFINE b == transport[t].producing \/ transport[t].status = "open"
    <3>1. transport'[t] = [transport[t] EXCEPT !.producing = b]
      BY <2>1, <2>2
    <3>. HIDE DEF b
    <3>2. transport'[t].status = transport[t].status
      BY <3>1 DEF Transport
    <3>. QED
      BY <2>1, <2>2, <3>2
  <2>3. CASE job[j].transport # t
    BY <2>1, <2>3
  <2>. QED
    BY <2>2, <2>3
<1>4. ASSUME NEW j \in Jobs, ReadRelease(j)
      PROVE  Later(transport[t], transport'[t])
  BY <1>4, ClosedIsLater DEF ReadRelease
<1>5. ASSUME NEW e \in Deaths, MediaExits(e) \/ \E w \in Workers : WorkerDies(e, w)
      PROVE  Later(transport[t], transport'[t])
  <2>1. transport'[t] = transport[t] \/ transport'[t] = Closed(transport[t])
    <3>1. CASE MediaExits(e)
      BY <3>1 DEF MediaExits
    <3>2. ASSUME NEW w \in Workers, WorkerDies(e, w)
          PROVE  transport'[t] = transport[t] \/ transport'[t] = Closed(transport[t])
      <4>1. PICK lost \in SUBSET Routers :
              transport' = [u \in Transports |-> IF transport[u].router \in lost
                                                    THEN Closed(transport[u]) ELSE transport[u]]
        BY <3>2 DEF WorkerDies
      <4>. QED
        BY <4>1
    <3>. QED
      BY <1>5, <3>1, <3>2
  <2>. QED
    BY <2>1, ClosedIsLater
<1>. QED
  BY <1>1, <1>2, <1>3, <1>4, <1>5, ClosedIsLater, TransportSteps

LEMMA AbsentStays ==
  ASSUME TypeInv, [Next]_vars, NEW t \in Transports, transport'[t].status = "absent"
  PROVE  transport[t].status = "absent"
BY TransportGoesOn DEF Later

-----------------------------------------------------------------------------
(* The names of transports.                                                 *)

NamesInv == AbsentInv /\ SingleInv /\ UnrecordedInv

(* A job that starts something with a transport.                            *)
LEMMA ProduceKeepsNames ==
  ASSUME TypeInv, NamesInv, [Next]_vars, NEW h \in Handlers, NEW s \in Sessions, Produce(h, s)
  PROVE  NamesInv'
<1>. DEFINE t == row[s].send
            r == [IdleJob EXCEPT !.pc = "askProducer", !.session = s, !.transport = t]
<1>. /\ job \in [Jobs -> Job] /\ h \in Jobs /\ h \notin Deaths
     /\ row' = row /\ transport' = transport
     /\ AbsentInv /\ SingleInv /\ UnrecordedInv
  BY NoNone DEF TypeInv, TypeOK, Jobs, Produce, NamesInv, media
<1>1. /\ row[s].producer # t /\ Holds(row[s], t)
      /\ t # None /\ t \in Transports
      /\ job' = [job EXCEPT ![h] = r]
  BY DEF Produce, Become, Holds, TypeInv, TypeOK, Row
<1>2. r.pc = "askProducer" /\ r.session = s /\ r.transport = t
  BY DEF IdleJob
<1>3. \A j \in Jobs : job[j].transport # t
  BY <1>1 DEF Produce, Jobs, TypeInv, JobInv, Sound
<1>. HIDE DEF t, r
<1>4. job'[h] = r /\ \A j \in Jobs : j # h => job'[j] = job[j]
  BY <1>1
<1>5. AbsentInv'
  BY <1>1, <1>2, <1>4 DEF AbsentInv
<1>6. SingleInv'
  BY <1>1, <1>2, <1>3, <1>4 DEF SingleInv
<1>7. \A q \in Sessions : Holds(row[q], t) => q = s
  BY <1>1 DEF SingleInv
<1>8. \A q \in Sessions : row[q].producer # t
  BY <1>1, <1>7 DEF Holds
<1>9. UnrecordedInv'
  <2>. SUFFICES ASSUME NEW j \in Jobs, NEW q \in Sessions, NEW u \in Transports,
                       job'[j].transport = u
                PROVE  /\ job'[j].pc \in Creating => ~Holds(row[q], u)
                       /\ job'[j].pc \in Producing =>
                            /\ row[q].producer # u
                            /\ Holds(row[q], u) => q = job'[j].session
    BY DEF UnrecordedInv
  <2>1. CASE j = h
    BY <1>2, <1>4, <1>7, <1>8, <2>1 DEF Creating
  <2>2. CASE j # h
    BY <1>4, <2>2 DEF UnrecordedInv
  <2>. QED
    BY <2>1, <2>2
<1>. QED
  BY <1>5, <1>6, <1>9 DEF NamesInv

LEMMA TransportCreatedKeepsNames ==
  ASSUME TypeInv, NamesInv, [Next]_vars, NEW j \in Jobs, NEW w \in Workers,
         TransportCreated(j, w)
  PROVE  NamesInv'
<1>. /\ job \in [Jobs -> Job] /\ transport \in [Transports -> Transport]
     /\ job[j] \in Job /\ row' = row
     /\ AbsentInv /\ SingleInv /\ UnrecordedInv
  BY DEF TypeInv, TypeOK, TransportCreated, NamesInv
<1>1. PICK t \in Transports :
        /\ transport[t].status = "absent"
        /\ transport' = [transport EXCEPT ![t] =
                           [status |-> "open", router |-> job[j].router, producing |-> FALSE]]
        /\ job' = [job EXCEPT ![j] = [Result(j) EXCEPT !.transport = t]]
  BY DEF TransportCreated, IsNextTransport, Reply, Become
<1>. DEFINE r == [Result(j) EXCEPT !.transport = t]
<1>2. r.pc = "createTransport" /\ r.transport = t
  BY DEF TransportCreated, WorkerAnswers, Result, Job
<1>3. job' = [job EXCEPT ![j] = r]
  BY <1>1
<1>. HIDE DEF r
<1>4. job'[j] = r /\ \A k \in Jobs : k # j => job'[k] = job[k]
  BY <1>3
<1>5. transport'[t].status = "open" /\ \A u \in Transports : u # t => transport'[u] = transport[u]
  BY <1>1
<1>6. /\ \A s \in Sessions : ~Holds(row[s], t)
      /\ \A k \in Jobs : job[k].transport # t
  BY <1>1 DEF AbsentInv
<1>7. AbsentInv'
  BY <1>2, <1>4, <1>5 DEF AbsentInv
<1>8. SingleInv'
  BY <1>2, <1>4, <1>6 DEF SingleInv
<1>9. UnrecordedInv'
  <2>. SUFFICES ASSUME NEW k \in Jobs, NEW q \in Sessions, NEW u \in Transports,
                       job'[k].transport = u
                PROVE  /\ job'[k].pc \in Creating => ~Holds(row[q], u)
                       /\ job'[k].pc \in Producing =>
                            /\ row[q].producer # u
                            /\ Holds(row[q], u) => q = job'[k].session
    BY DEF UnrecordedInv
  <2>1. CASE k = j
    BY <1>2, <1>4, <1>6, <2>1 DEF Producing
  <2>2. CASE k # j
    BY <1>4, <2>2 DEF UnrecordedInv
  <2>. QED
    BY <2>1, <2>2
<1>. QED
  BY <1>7, <1>8, <1>9 DEF NamesInv

(* A job that records what it has in the row of its session.                *)
LEMMA RecordKeepsNames ==
  ASSUME TypeInv, NamesInv, [Next]_vars, NEW j \in Jobs,
         RecordTransport(j) \/ RecordProducer(j)
  PROVE  NamesInv'
<1>. DEFINE t == job[j].transport
            s == job[j].session
<1>. /\ job \in [Jobs -> Job] /\ row \in [Sessions -> Row]
     /\ transport' = transport /\ job' = [job EXCEPT ![j] = IdleJob]
     /\ AbsentInv /\ SingleInv /\ UnrecordedInv
  BY DEF TypeInv, TypeOK, RecordTransport, RecordProducer, Become, NamesInv, media
<1>1. job'[j].transport = None /\ \A k \in Jobs : k # j => job'[k] = job[k]
  BY DEF IdleJob
<1>2. \A u \in Transports : u # None
  BY NoNone
<1>3. ASSUME NEW q \in Sessions, NEW u \in Transports
      PROVE  /\ Holds(row'[q], u) => Holds(row[q], u) \/ (u = t /\ q = s)
             /\ row'[q].producer = u => row[q].producer = u \/ u = t
  <2>. row[q] \in Row
    OBVIOUS
  <2>1. CASE RecordTransport(j)
    <3>1. row'[q] = row[q] \/ (q = s /\ row'[q] = WithTransport(row[q], job[j].direction, t))
      BY <2>1 DEF RecordTransport
    <3>. HIDE DEF s, t
    <3>. QED
      BY <3>1 DEF WithTransport, Holds, Row
  <2>2. CASE RecordProducer(j)
    <3>1. \/ row'[q] = row[q]
          \/ q = s /\ row'[q] = [row[q] EXCEPT !.producer = t]
          \/ q = s /\ row'[q] = [row[q] EXCEPT !.producer = row[q].producer]
      BY <2>2 DEF RecordProducer
    <3>. HIDE DEF s, t
    <3>. QED
      BY <3>1 DEF Holds, Row
  <2>. QED
    BY <2>1, <2>2
<1>4. \A q \in Sessions : t \in Transports /\ Holds(row[q], t) => q = s
  BY DEF UnrecordedInv, RecordTransport, RecordProducer, Creating, Producing
<1>5. \A k \in Jobs : t \in Transports /\ k # j => job'[k].transport # t
  BY <1>1 DEF SingleInv
<1>. HIDE DEF s
<1>6. AbsentInv'
  <2>. SUFFICES ASSUME NEW u \in Transports, transport[u].status = "absent"
                PROVE  /\ \A q \in Sessions : ~Holds(row'[q], u)
                       /\ \A k \in Jobs : job'[k].transport # u
    BY DEF AbsentInv
  <2>. u # t /\ (\A q \in Sessions : ~Holds(row[q], u)) /\ \A k \in Jobs : job[k].transport # u
    BY DEF AbsentInv
  <2>. HIDE DEF t
  <2>. QED
    BY <1>1, <1>2, <1>3
<1>7. SingleInv'
  <2>. SUFFICES ASSUME NEW u \in Transports
                PROVE  /\ \A p, q \in Sessions : Holds(row'[p], u) /\ Holds(row'[q], u) => p = q
                       /\ \A i, k \in Jobs :
                            job'[i].transport = u /\ job'[k].transport = u => i = k
    BY DEF SingleInv
  <2>. /\ \A p, q \in Sessions : Holds(row[p], u) /\ Holds(row[q], u) => p = q
       /\ \A i, k \in Jobs : job[i].transport = u /\ job[k].transport = u => i = k
    BY DEF SingleInv
  <2>. HIDE DEF t
  <2>. QED
    BY <1>1, <1>2, <1>3, <1>4
<1>8. UnrecordedInv'
  <2>. SUFFICES ASSUME NEW k \in Jobs, NEW q \in Sessions, NEW u \in Transports,
                       job'[k].transport = u
                PROVE  /\ job'[k].pc \in Creating => ~Holds(row'[q], u)
                       /\ job'[k].pc \in Producing =>
                            /\ row'[q].producer # u
                            /\ Holds(row'[q], u) => q = job'[k].session
    BY DEF UnrecordedInv
  <2>1. k # j /\ job'[k] = job[k]
    BY <1>1, <1>2
  <2>2. u # t
    BY <1>5, <2>1
  <2>. HIDE DEF t
  <2>. QED
    BY <1>3, <2>1, <2>2 DEF UnrecordedInv
<1>. QED
  BY <1>6, <1>7, <1>8 DEF NamesInv

LEMMA NamesInvStep ==
  ASSUME TypeInv, NamesInv, [Next]_vars
  PROVE  NamesInv'
<1>1. CASE \/ \E h \in Handlers, s \in Sessions : Produce(h, s)
           \/ \E j \in Jobs, w \in Workers : TransportCreated(j, w)
           \/ \E j \in Jobs : RecordTransport(j) \/ RecordProducer(j)
  BY <1>1, ProduceKeepsNames, TransportCreatedKeepsNames, RecordKeepsNames
<1>2. CASE /\ ~\E h \in Handlers, s \in Sessions : Produce(h, s)
           /\ ~\E j \in Jobs, w \in Workers : TransportCreated(j, w)
           /\ ~\E j \in Jobs : RecordTransport(j) \/ RecordProducer(j)
  <2>. AbsentInv /\ SingleInv /\ UnrecordedInv
    BY DEF NamesInv
  <2>1. ASSUME NEW k \in Jobs, NEW t \in Transports, job'[k].transport = t
        PROVE  GoesOn(job[k], job'[k])
    <3>1. ASSUME NEW s \in Sessions, EndSession(k, s)
          PROVE  job'[k].transport = None
      BY <3>1 DEF EndSession, Become, IdleJob, TypeInv, TypeOK
    <3>2. ASSUME ReadEnded(k)
          PROVE  job'[k].transport = None
      <4>1. job[k].transport = None
        BY <3>2 DEF ReadEnded, TypeInv, JobInv, Sound, Creating, Producing
      <4>2. job'[k] = [job[k] EXCEPT !.pc = "release", !.ended = row[job[k].session]]
        BY <3>2 DEF ReadEnded, Ask, Become, TypeInv, TypeOK
      <4>. QED
        BY <4>1, <4>2 DEF TypeInv, TypeOK, Job
    <3>. QED
      BY <1>2, <2>1, <3>1, <3>2, JobSteps, NoNone DEF Starts, Blank
  <2>2. ASSUME NEW s \in Sessions, NEW t \in Transports
        PROVE  /\ Holds(row'[s], t) => Holds(row[s], t)
               /\ row'[s].producer = t => row[s].producer = t
    BY <1>2, RowNames, NoNone DEF Holds
  <2>3. AbsentInv'
    <3>. SUFFICES ASSUME NEW t \in Transports, transport'[t].status = "absent"
                  PROVE  /\ \A s \in Sessions : ~Holds(row'[s], t)
                         /\ \A k \in Jobs : job'[k].transport # t
      BY DEF AbsentInv
    <3>. /\ \A s \in Sessions : ~Holds(row[s], t)
         /\ \A k \in Jobs : job[k].transport # t
      BY AbsentStays DEF AbsentInv
    <3>. QED
      BY <2>1, <2>2 DEF GoesOn
  <2>4. SingleInv'
    <3>. SUFFICES ASSUME NEW t \in Transports
                  PROVE  /\ \A s, q \in Sessions : Holds(row'[s], t) /\ Holds(row'[q], t) => s = q
                         /\ \A j, k \in Jobs :
                              job'[j].transport = t /\ job'[k].transport = t => j = k
      BY DEF SingleInv
    <3>. /\ \A s, q \in Sessions : Holds(row[s], t) /\ Holds(row[q], t) => s = q
         /\ \A j, k \in Jobs : job[j].transport = t /\ job[k].transport = t => j = k
      BY DEF SingleInv
    <3>. QED
      BY <2>1, <2>2 DEF GoesOn
  <2>5. UnrecordedInv'
    <3>. SUFFICES ASSUME NEW k \in Jobs, NEW s \in Sessions, NEW t \in Transports,
                         job'[k].transport = t
                  PROVE  /\ job'[k].pc \in Creating => ~Holds(row'[s], t)
                         /\ job'[k].pc \in Producing =>
                              /\ row'[s].producer # t
                              /\ Holds(row'[s], t) => s = job'[k].session
      BY DEF UnrecordedInv
    <3>1. GoesOn(job[k], job'[k])
      BY <2>1
    <3>. QED
      BY <2>2, <3>1 DEF GoesOn, UnrecordedInv
  <2>. QED
    BY <2>3, <2>4, <2>5 DEF NamesInv
<1>. QED
  BY <1>1, <1>2

-----------------------------------------------------------------------------
(* Releases.                                                                *)

LEMMA EndedInvStep ==
  ASSUME TypeInv, EndedInv, [Next]_vars
  PROVE  EndedInv'
<1>. /\ job \in [Jobs -> Job] /\ row \in [Sessions -> Row]
     /\ \A j \in Jobs : job[j] \in Job /\ Sound(j, job[j])
  BY DEF TypeInv, TypeOK, JobInv
<1>. SUFFICES ASSUME NEW j \in Jobs, job'[j].pc \in {"readEnded", "release"}
              PROVE  /\ row'[job'[j].session].status \in {"ended", "failed"}
                     /\ job'[j].pc = "release" => job'[j].ended = row'[job'[j].session]
  BY DEF EndedInv
<1>1. CASE GoesOn(job[j], job'[j])
  <2>1. /\ job'[j].pc = job[j].pc /\ job'[j].session = job[j].session
        /\ job'[j].ended = job[j].ended /\ job[j].session \in Sessions
    BY <1>1 DEF GoesOn, Sound
  <2>2. /\ row[job[j].session].status \in {"ended", "failed"}
        /\ job[j].pc = "release" => job[j].ended = row[job[j].session]
    BY <2>1 DEF EndedInv
  <2>3. row'[job[j].session] = row[job[j].session]
    BY <2>1, <2>2, EndedRowStays
  <2>. QED
    BY <2>1, <2>2, <2>3
<1>2. ASSUME NEW s \in Sessions, EndSession(j, s)
      PROVE  /\ row'[job'[j].session].status \in {"ended", "failed"}
             /\ job'[j].pc = "readEnded"
  <2>1. job'[j] = [IdleJob EXCEPT !.pc = "readEnded", !.session = s]
        /\ row' = [row EXCEPT ![s].status = "ended"]
    BY <1>2 DEF EndSession, Become
  <2>2. job'[j].session = s /\ job'[j].pc = "readEnded" /\ row'[s].status = "ended"
    BY <2>1 DEF IdleJob, Row
  <2>. QED
    BY <2>2
<1>3. CASE ReadEnded(j)
  <2>1. /\ job'[j] = [job[j] EXCEPT !.pc = "release", !.ended = row[job[j].session]]
        /\ job[j].pc = "readEnded" /\ row' = row
    BY <1>3 DEF ReadEnded, Ask, Become
  <2>2. job'[j].session = job[j].session /\ job'[j].ended = row[job[j].session]
    BY <2>1 DEF Job
  <2>. QED
    BY <2>1, <2>2 DEF EndedInv
<1>4. ASSUME NEW s, Produce(j, s)
      PROVE  FALSE
  BY <1>4 DEF Produce, Become, IdleJob
<1>5. ASSUME NEW w, TransportCreated(j, w)
      PROVE  FALSE
  <2>. job'[j].pc = "createTransport"
    BY <1>5 DEF TransportCreated, WorkerAnswers, Reply, Become, Result, Job
  <2>. QED
    OBVIOUS
<1>. QED
  BY <1>1, <1>2, <1>3, <1>4, <1>5, JobSteps DEF Blank, Starts

(* A release is answered by the media process, which closes what it names.  *)
LEMMA ReleaseIsAnswered ==
  ASSUME TypeInv, [Next]_vars, NEW h \in Handlers, job[h].pc = "release",
         job'[h].pc = "release", job'[h].ok
  PROVE  job[h].ok \/ ReadRelease(h)
<1>. /\ job \in [Jobs -> Job] /\ job[h] \in Job /\ h \in Jobs /\ h \notin Deaths
  BY NoNone DEF TypeInv, TypeOK, Jobs
<1>1. CASE job'[h] = job[h]
  BY <1>1
<1>2. ASSUME NEW i \in Handlers, Request(i)
      PROVE  job'[h] = job[h]
  <2>. job[i].pc = "idle" /\ i \in Jobs
    BY <1>2 DEF Request, Join, RouterCapabilities, Produce, EndSession, CreateTransport, Jobs
  <2>. QED
    BY <1>2, RequestMoves, MovesKeep
<1>3. ASSUME NEW j \in Jobs, DatabaseStep(j)
      PROVE  job'[h] = job[h]
  <2>. job[j].pc # "release"
    BY <1>3 DEF DatabaseStep, Insert, AskTransport, RecordTransport, AskProducer,
                RecordProducer, ReadEnded, Fail, EndChannel
  <2>. QED
    BY <1>3, DatabaseMoves, MovesKeep
<1>4. ASSUME NEW j \in Jobs, MediaStep(j)
      PROVE  job'[h] = job[h] \/ ReadRelease(h)
  <2>1. CASE j # h
    BY <1>4, <2>1, MediaMoves, MovesKeep
  <2>2. CASE j = h
    BY <1>4, <2>2
    DEF MediaStep, ReadCreateRouter, ReadObserve, ReadCreateTransport, ReadProduce, Reads
  <2>. QED
    BY <2>1, <2>2
<1>5. ASSUME NEW j \in Jobs, NEW w \in Workers, WorkerStep(j, w)
      PROVE  job'[h] = job[h]
  <2>1. CASE j # h
    BY <1>5, <2>1, WorkerMoves, MovesKeep
  <2>2. CASE j = h
    <3>1. WorkerRefuses(h, w)
      BY <1>5, <2>2
      DEF WorkerStep, RouterCreated, ObserverCreated, TransportCreated, ProducerCreated,
          ProducerToWatch, ProducerWatched, WorkerAnswers
    <3>2. job'[h] = Failure(h)
      BY <3>1 DEF WorkerRefuses, Reply, Become
    <3>3. ~Failure(h).ok
      BY DEF Failure, Job
    <3>. QED
      BY <3>2, <3>3
  <2>. QED
    BY <2>1, <2>2
<1>6. ASSUME NEW j \in Jobs, ApiStep(j)
      PROVE  job'[h] = job[h]
  <2>1. CASE j # h
    BY <1>6, <2>1, ApiMoves, MovesKeep
  <2>2. CASE j = h
    <3>. job'[h] = IdleJob
      BY <1>6, <2>2
      DEF ApiStep, GotRouter, GotObserver, GotTransport, GotProducer, GotRelease, GotError,
          GotDeath, ReadsDeath, Answered, Become
    <3>. QED
      BY DEF IdleJob
  <2>. QED
    BY <2>1, <2>2
<1>7. ASSUME NEW e \in Deaths, NEW w \in Workers, WorkerDies(e, w)
      PROVE  job'[h] = job[h]
  BY <1>7 DEF WorkerDies, Become
<1>8. ASSUME NEW e \in Deaths, MediaExits(e)
      PROVE  FALSE
  <2>. job'[h] = IdleJob
    BY <1>8 DEF MediaExits, Questions
  <2>. QED
    BY DEF IdleJob
<1>9. ASSUME NEW j \in Jobs, ReadAnswer(j)
      PROVE  job'[h] = job[h]
  BY <1>9 DEF ReadAnswer
<1>. QED
  BY <1>1, <1>2, <1>3, <1>4, <1>5, <1>6, <1>7, <1>8, <1>9, ChunkSteps DEF vars

LEMMA ReleasedStep ==
  ASSUME TypeInv, NamesInv, EndedInv, RecordedIsReleased, [Next]_vars
  PROVE  RecordedIsReleased'
<1>. /\ job \in [Jobs -> Job] /\ row \in [Sessions -> Row]
     /\ transport \in [Transports -> Transport]
     /\ \A j \in Jobs : job[j] \in Job /\ Sound(j, job[j])
     /\ AbsentInv /\ SingleInv /\ UnrecordedInv
  BY DEF TypeInv, TypeOK, JobInv, NamesInv
<1>. SUFFICES ASSUME NEW h \in Handlers, job'[h].pc = "release", job'[h].ok
              PROVE  LET r == row'[job'[h].session]
                     IN  /\ \A t \in {r.send, r.recv} \ {None} : transport'[t].status = "closed"
                         /\ r.producer # None => ~transport'[r.producer].producing
  BY DEF RecordedIsReleased
<1>. h \in Jobs
  BY DEF Jobs
<1>1. GoesOn(job[h], job'[h])
  <2>1. ASSUME NEW s, EndSession(h, s)
        PROVE  FALSE
    BY <2>1 DEF EndSession, Become, IdleJob
  <2>2. ASSUME ReadEnded(h)
        PROVE  FALSE
    <3>1. ~job[h].ok
      BY <2>2 DEF ReadEnded, Sound
    <3>2. job'[h] = [job[h] EXCEPT !.pc = "release", !.ended = row[job[h].session]]
      BY <2>2 DEF ReadEnded, Ask, Become
    <3>. QED
      BY <3>1, <3>2 DEF Job
  <2>3. ASSUME NEW s, Produce(h, s)
        PROVE  FALSE
    BY <2>3 DEF Produce, Become, IdleJob
  <2>4. ASSUME NEW w, TransportCreated(h, w)
        PROVE  FALSE
    <3>. job'[h].pc = "createTransport"
      BY <2>4 DEF TransportCreated, WorkerAnswers, Reply, Become, Result, Job
    <3>. QED
      OBVIOUS
  <2>. QED
    BY <2>1, <2>2, <2>3, <2>4, JobSteps DEF Blank, Starts
<1>. DEFINE s == job[h].session
            r == row[s]
<1>2. /\ job[h].pc = "release" /\ job'[h].session = s /\ s \in Sessions
      /\ r.status \in {"ended", "failed"} /\ job[h].ended = r
  BY <1>1 DEF GoesOn, Sound, EndedInv
<1>3. row'[s] = r /\ r \in Row
  BY <1>2, EndedRowStays
<1>4. job[h].ok \/ ReadRelease(h)
  BY <1>2, ReleaseIsAnswered
<1>. HIDE DEF s
<1>5. ASSUME NEW t \in Transports, t \in {r.send, r.recv}
      PROVE  transport'[t].status = "closed"
  <2>1. transport[t].status # "absent" /\ Holds(row[s], t)
    BY <1>2, <1>5 DEF AbsentInv, Holds
  <2>2. CASE ReadRelease(h)
    <3>1. transport'[t] = Closed(transport[t])
      BY <1>2, <1>5, <2>2 DEF ReadRelease
    <3>. QED
      BY <2>1, <3>1 DEF Closed, Transport
  <2>3. CASE job[h].ok
    <3>1. transport[t].status = "closed"
      BY <1>2, <1>5, <2>3, NoNone DEF RecordedIsReleased, s
    <3>. QED
      BY <2>1, <3>1, TransportGoesOn DEF Later
  <2>. QED
    BY <1>4, <2>2, <2>3
<1>6. ASSUME r.producer # None
      PROVE  ~transport'[r.producer].producing
  <2>. DEFINE t == r.producer
  <2>1. t \in Transports /\ Holds(row[s], t)
    BY <1>3, <1>6 DEF Holds, Row
  <2>2. transport[t].status # "absent"
    BY <1>2, <2>1 DEF AbsentInv
  <2>3. ~\E j \in Jobs : job[j].transport = t /\ job[j].pc = "produce"
    BY <1>2, <2>1 DEF UnrecordedInv, Producing
  <2>4. CASE ReadRelease(h)
    <3>1. \/ transport'[t] = Closed(transport[t])
          \/ transport'[t] = [transport[t] EXCEPT !.producing = FALSE]
      BY <1>2, <2>1, <2>4 DEF ReadRelease
    <3>. QED
      BY <2>1, <3>1 DEF Closed, Transport
  <2>5. CASE job[h].ok
    <3>1. ~transport[t].producing
      BY <1>2, <1>6, <2>5 DEF RecordedIsReleased, s
    <3>. QED
      BY <2>1, <2>2, <2>3, <3>1, TransportGoesOn DEF Later
  <2>. QED
    BY <1>4, <2>4, <2>5
<1>. QED
  BY <1>2, <1>3, <1>5, <1>6 DEF Row

LEMMA TransportInvStep ==
  ASSUME TransportInv, [Next]_vars, TypeInv'
  PROVE  TransportInv'
BY NamesInvStep, EndedInvStep, ReleasedStep DEF TransportInv, NamesInv

LEMMA TransportInvInit ==
  ASSUME Init
  PROVE  TransportInv
<1>1. /\ \A j \in Jobs : job[j].transport = None /\ job[j].pc = "idle"
      /\ \A s \in Sessions : row[s].send = None /\ row[s].recv = None /\ row[s].producer = None
  BY DEF Init, IdleJob, NoRow
<1>2. AbsentInv /\ SingleInv /\ UnrecordedInv
  BY <1>1, NoNone DEF AbsentInv, SingleInv, UnrecordedInv, Holds
<1>3. EndedInv /\ RecordedIsReleased
  BY <1>1 DEF EndedInv, RecordedIsReleased, Jobs
<1>. QED
  BY <1>2, <1>3, TypeInvInit DEF TransportInv

(* An answered release has closed everything that the row of its session    *)
(* names, and nothing is recorded there or produces again afterwards: what  *)
(* releaseSession read before it asked is still all there is.               *)
THEOREM ReleaseIsComplete == Spec => []RecordedIsReleased
<1>1. Init => TransportInv /\ QueueInv /\ SettledInv
  BY TransportInvInit, NothingQueued
<1>2. TransportInv /\ QueueInv /\ SettledInv /\ [Next]_vars
        => (TransportInv /\ QueueInv /\ SettledInv)'
  <2>1. TransportInv => TypeInv
    BY DEF TransportInv
  <2>. QED
    BY <2>1, TypeInvStep, QueueInvStep, SettledInvStep, TransportInvStep
<1>3. TransportInv => RecordedIsReleased
  BY DEF TransportInv
<1>. QED
  BY <1>1, <1>2, <1>3, PTL DEF Spec

=============================================================================
