----------------------------- MODULE MediaPlane -----------------------------
(***************************************************************************)
(* Media resources of voice sessions.  MediaSignalingService and           *)
(* MediasoupRouterRegistry, in the API, ask the media process, their child,*)
(* by lines on its stdin and stdout; the media process asks mediasoup      *)
(* workers.  Each of these ways keeps its order.  Both programs are        *)
(* single-threaded with awaits, so between a question and its answer       *)
(* anything else may happen: sessions end, a worker dies, the child exits. *)
(* The lines of one chunk are handled one after the other before any of    *)
(* the API's requests that they answer goes on.                            *)
(***************************************************************************)
EXTENDS Naturals, Sequences

CONSTANTS
    Channels,   \* voice channels
    Sessions,   \* ids that voice_sessions rows may take
    Routers,    \* ids that mediasoup routers may take
    Transports, \* ids that mediasoup transports may take
    Handlers,   \* requests in flight at the API
    Deaths,     \* runs of handleWorkerDied in progress
    Workers,    \* mediasoup workers of the media process
    Directions, \* directions clients ask transports for
    None

Jobs == Handlers \cup Deaths

ASSUME ConstantsAssumption ==
    /\ Sessions \subseteq Nat /\ Routers \subseteq Nat /\ Transports \subseteq Nat
    /\ Workers # {}
    /\ Directions \subseteq {"send", "recv"}
    /\ Handlers \cap Deaths = {}
    /\ None \notin Channels \cup Sessions \cup Routers \cup Transports \cup Workers
    /\ "gone" \notin Workers

VARIABLES
    row,       \* the media columns of each voice_sessions row
    registry,  \* the router of each channel, in the API
    known,     \* the router of each channel, in the media process
    router,    \* each router: its channel, and its worker until that is gone
    dead,      \* workers of the media process that have died
    observed,  \* routers with an audio level observer
    transport, \* the transports of the media process, each with its producer
    toMedia,   \* jobs whose question is on its way to the media process
    toWorker,  \* jobs whose question is with each worker
    toApi,     \* jobs whose answer is on its way back
    settled,   \* jobs whose answer the API has read, and which have yet to go on
    job,       \* what each handler is doing
    late       \* ghost: routers in an answer read before the last death, and not yet acted upon

media == <<known, router, dead, observed, transport>>
queues == <<toMedia, toWorker, toApi>>
chunk == <<settled, late>>
vars == <<row, registry, media, queues, job, chunk>>

-----------------------------------------------------------------------------

(* A row is failed when worker death ended it (media_state FAILED). *)
Row == [status   : {"absent", "active", "ended", "failed"},
        channel  : Channels \cup {None},
        router   : Routers \cup {None},
        send     : Transports \cup {None},
        recv     : Transports \cup {None},
        producer : Transports \cup {None}]

NoRow == [status |-> "absent", channel |-> None, router |-> None,
          send |-> None, recv |-> None, producer |-> None]

Router == [worker : Workers \cup {None, "gone"}, channel : Channels \cup {None}]

NoRouter == [worker |-> None, channel |-> None]

(* A client produces once on a transport, so a producer needs no id of its own.*)
Transport == [status : {"absent", "open", "closed"},
              router : Routers \cup {None},
              producing : BOOLEAN]

NoTransport == [status |-> "absent", router |-> None, producing |-> FALSE]

(* Steps at which a job awaits the media process, and the others.           *)
Questions == {"createRouter", "observe", "createTransport", "produce", "watch", "release"}
Steps == {"idle", "insert", "askTransport", "recordTransport", "askProducer",
          "recordProducer", "readEnded", "died", "endChannels"} \cup Questions

(* A job: its step, what it works on, whether it joins (or only asks for    *)
(* the router), whether its answer is a result or an error, the row it has  *)
(* read in order to release it, and the channels whose sessions it ends.    *)
Job == [pc        : Steps,
        channel   : Channels \cup {None},
        session   : Sessions \cup {None},
        direction : {"send", "recv"},
        router    : Routers \cup {None},
        transport : Transports \cup {None},
        joins     : BOOLEAN,
        ok        : BOOLEAN,
        ended     : Row,
        channels  : SUBSET Channels]

IdleJob == [pc |-> "idle", channel |-> None, session |-> None,
            direction |-> "send", router |-> None, transport |-> None,
            joins |-> FALSE, ok |-> FALSE, ended |-> NoRow, channels |-> {}]

TypeOK ==
    /\ row \in [Sessions -> Row]
    /\ registry \in [Channels -> Routers \cup {None}]
    /\ known \in [Channels -> Routers \cup {None}]
    /\ router \in [Routers -> Router]
    /\ dead \subseteq Workers
    /\ observed \subseteq Routers
    /\ transport \in [Transports -> Transport]
    /\ toMedia \in Seq(Jobs) /\ toApi \in Seq(Jobs)
    /\ toWorker \in [Workers -> Seq(Jobs)]
    /\ settled \subseteq Jobs
    /\ job \in [Jobs -> Job]
    /\ late \subseteq Routers

Init ==
    /\ row = [s \in Sessions |-> NoRow]
    /\ registry = [c \in Channels |-> None]
    /\ known = [c \in Channels |-> None]
    /\ router = [r \in Routers |-> NoRouter]
    /\ dead = {}
    /\ observed = {}
    /\ transport = [t \in Transports |-> NoTransport]
    /\ toMedia = <<>> /\ toApi = <<>>
    /\ toWorker = [w \in Workers |-> <<>>]
    /\ settled = {}
    /\ job = [j \in Jobs |-> IdleJob]
    /\ late = {}

(* Ids carry no meaning: they are handed out in order. *)
IsNextRouter(r) ==
    /\ router[r] = NoRouter
    /\ \A q \in Routers : router[q] = NoRouter => r <= q

IsNextTransport(t) ==
    /\ transport[t].status = "absent"
    /\ \A u \in Transports : transport[u].status = "absent" => t <= u

IsNextSession(s) ==
    /\ row[s].status = "absent"
    /\ \A q \in Sessions : row[q].status = "absent" => s <= q

Active(s) == row[s].status = "active"

-----------------------------------------------------------------------------
(* Moving on.                                                               *)

(* Job j goes on as record r says, to an await on the database or to its end.*)
Become(j, r) == job' = [job EXCEPT ![j] = r]

(* MediasoupWorkerClient.request: a line to the media process. *)
Ask(j, r) ==
    /\ Become(j, r)
    /\ toMedia' = Append(toMedia, j)

(* The media process reads the question of job j. *)
Reads(j, question) ==
    /\ toMedia # <<>>
    /\ Head(toMedia) = j
    /\ job[j].pc = question
    /\ toMedia' = Tail(toMedia)

(* It asks worker w in turn. *)
AskWorker(j, w) ==
    /\ toWorker' = [toWorker EXCEPT ![w] = Append(@, j)]
    /\ UNCHANGED <<toApi, job>>

(* Worker w answers it. *)
WorkerAnswers(j, w, question) ==
    /\ toWorker[w] # <<>>
    /\ Head(toWorker[w]) = j
    /\ job[j].pc = question
    /\ toWorker' = [toWorker EXCEPT ![w] = Tail(@)]

(* The media process writes its answer. *)
Reply(j, r) ==
    /\ Become(j, r)
    /\ toApi' = Append(toApi, j)

Result(j) == [job[j] EXCEPT !.ok = TRUE]
Failure(j) == [job[j] EXCEPT !.ok = FALSE]

(* The API reads an answer: handleLine settles the promise of the request.  *)
ReadAnswer(j) ==
    /\ toApi # <<>>
    /\ Head(toApi) = j
    /\ job[j].pc \in Questions
    /\ toApi' = Tail(toApi)
    /\ settled' = settled \cup {j}
    /\ UNCHANGED <<row, registry, media, toMedia, toWorker, job, late>>

(* Its caller goes on. *)
Continues(j) ==
    /\ j \in settled
    /\ settled' = settled \ {j}
    /\ UNCHANGED <<toApi, late>>

(* The answer is no error. *)
Answered(j, question) ==
    /\ Continues(j)
    /\ job[j].pc = question
    /\ job[j].ok

-----------------------------------------------------------------------------
(* Routers.                                                                 *)

(* What job r does with the router it has. *)
WithRouter(r) == IF r.joins THEN [r EXCEPT !.pc = "insert"] ELSE IdleJob

(* getOrCreateRouter: the registry has one, or the media process is asked.  *)
GetOrCreateRouter(h, r) ==
    LET c == r.channel
    IN  \/ /\ registry[c] # None
           /\ Become(h, WithRouter([r EXCEPT !.router = registry[c]]))
           /\ UNCHANGED toMedia
        \/ /\ registry[c] = None
           /\ Ask(h, [r EXCEPT !.pc = "createRouter"])

(* joinChannel, once the request is authorised. *)
Join(h, c) ==
    /\ job[h].pc = "idle"
    /\ GetOrCreateRouter(h, [IdleJob EXCEPT !.channel = c, !.joins = TRUE])
    /\ UNCHANGED <<row, registry, media, toWorker, toApi>>

(* VoiceRouterCapabilities; the session may have ended since the gateway    *)
(* looked it up.                                                            *)
RouterCapabilities(h, s) ==
    /\ job[h].pc = "idle"
    /\ row[s].status # "absent"
    /\ registry[row[s].channel] = None
    /\ GetOrCreateRouter(h, [IdleJob EXCEPT !.channel = row[s].channel])
    /\ UNCHANGED <<row, registry, media, toWorker, toApi>>

(* createRouter in the media process: its map has a router of the channel,  *)
(* or some worker is asked for one; pickWorker takes them in turn, the dead *)
(* ones, which can only fail, as well.                                      *)
ReadCreateRouter(j) ==
    /\ Reads(j, "createRouter")
    /\ LET r == known[job[j].channel]
       IN  \/ /\ r # None
              /\ Reply(j, [Result(j) EXCEPT !.router = r])
              /\ UNCHANGED toWorker
           \/ /\ r = None
              /\ \E w \in Workers \ dead : AskWorker(j, w)
          \/ /\ r = None /\ dead # {}
              /\ Reply(j, Failure(j))
              /\ UNCHANGED toWorker
    /\ UNCHANGED <<row, registry, media>>

(* The worker has made the router; routers.set replaces whatever was there. *)
RouterCreated(j, w) ==
    /\ WorkerAnswers(j, w, "createRouter")
    /\ \E r \in Routers :
         /\ IsNextRouter(r)
         /\ router' = [router EXCEPT ![r] = [worker |-> w, channel |-> job[j].channel]]
         /\ known' = [known EXCEPT ![job[j].channel] = r]
         /\ Reply(j, [Result(j) EXCEPT !.router = r])
    /\ UNCHANGED <<row, registry, dead, observed, transport, toMedia>>

(* The API asks for an observer of the router it got. *)
GotRouter(h) ==
    /\ Answered(h, "createRouter")
    /\ Ask(h, [job[h] EXCEPT !.pc = "observe", !.ok = FALSE])
    /\ UNCHANGED <<row, registry, media, toWorker>>

(* getRouterById finds router r only while it is some channel's router. *)
Known(r) == \E c \in Channels : known[c] = r

(* createAudioLevelObserver. *)
ReadObserve(j) ==
    /\ Reads(j, "observe")
    /\ LET r == job[j].router
       IN  \/ /\ ~Known(r)
              /\ Reply(j, Failure(j))
              /\ UNCHANGED toWorker
           \/ /\ Known(r) /\ r \in observed
              /\ Reply(j, Result(j))
              /\ UNCHANGED toWorker
           \/ /\ Known(r) /\ r \notin observed
              /\ AskWorker(j, router[r].worker)
    /\ UNCHANGED <<row, registry, media>>

(* Faulty variant: createAudioLevelObserver with its arguments swapped. *)
ObserverCreatedSwapped(j, w) ==
    /\ WorkerAnswers(j, w, "observe")
    /\ observed' = observed \cup {job[j].channel}
    /\ Reply(j, Result(j))
    /\ UNCHANGED <<row, registry, known, router, dead, transport, toMedia>>

ObserverCreated(j, w) ==
    /\ WorkerAnswers(j, w, "observe")
    /\ observed' = observed \cup {job[j].router}
    /\ Reply(j, Result(j))
    /\ UNCHANGED <<row, registry, known, router, dead, transport, toMedia>>

(* The router is complete: this.routers.set. *)
GotObserver(h) ==
    /\ Answered(h, "observe")
    /\ registry' = [registry EXCEPT ![job[h].channel] = job[h].router]
    /\ Become(h, WithRouter([job[h] EXCEPT !.ok = FALSE]))
    /\ UNCHANGED <<row, media, toMedia, toWorker>>

(* The commit of insertVoiceSession. *)
Insert(h) ==
    /\ job[h].pc = "insert"
    /\ \E s \in Sessions :
         /\ IsNextSession(s)
         /\ row' = [row EXCEPT ![s] = [NoRow EXCEPT !.status = "active",
                                         !.channel = job[h].channel,
                                         !.router = job[h].router]]
    /\ Become(h, IdleJob)
    /\ UNCHANGED <<registry, media, queues>>

-----------------------------------------------------------------------------
(* Transports and producers.                                                *)

(* getActiveSessionForUser, for VoiceTransportCreated. *)
CreateTransport(h, s, direction) ==
    /\ job[h].pc = "idle"
    /\ Active(s)
    /\ Become(h, [IdleJob EXCEPT !.pc = "askTransport", !.session = s,
                                 !.direction = direction, !.router = row[s].router])
    /\ UNCHANGED <<row, registry, media, queues>>

(* The user is allowed to; every row has a router since it was inserted. *)
AskTransport(h) ==
    /\ job[h].pc = "askTransport"
    /\ Ask(h, [job[h] EXCEPT !.pc = "createTransport"])
    /\ UNCHANGED <<row, registry, media, toWorker, toApi>>

ReadCreateTransport(j) ==
    /\ Reads(j, "createTransport")
    /\ LET r == job[j].router
       IN  \/ ~Known(r) /\ Reply(j, Failure(j)) /\ UNCHANGED toWorker
           \/ Known(r) /\ AskWorker(j, router[r].worker)
    /\ UNCHANGED <<row, registry, media>>

TransportCreated(j, w) ==
    /\ WorkerAnswers(j, w, "createTransport")
    /\ \E t \in Transports :
         /\ IsNextTransport(t)
         /\ transport' = [transport EXCEPT ![t] =
                            [status |-> "open", router |-> job[j].router, producing |-> FALSE]]
         /\ Reply(j, [Result(j) EXCEPT !.transport = t])
    /\ UNCHANGED <<row, registry, known, router, dead, observed, toMedia>>

GotTransport(h) ==
    /\ Answered(h, "createTransport")
    /\ Become(h, [job[h] EXCEPT !.pc = "recordTransport"])
    /\ UNCHANGED <<row, registry, media, toMedia, toWorker>>

WithTransport(r, direction, t) ==
    IF direction = "send" THEN [r EXCEPT !.send = t] ELSE [r EXCEPT !.recv = t]

(* Faulty variant: UPDATE without ended_at IS NULL. *)
RecordTransportAlways(h) ==
    /\ job[h].pc = "recordTransport"
    /\ row' = [row EXCEPT ![job[h].session] =
                 WithTransport(@, job[h].direction, job[h].transport)]
    /\ Become(h, IdleJob)
    /\ UNCHANGED <<registry, media, queues>>

RecordTransport(h) ==
    /\ job[h].pc = "recordTransport"
    /\ row' = [row EXCEPT ![job[h].session] =
                 IF @.status = "active"
                   THEN WithTransport(@, job[h].direction, job[h].transport) ELSE @]
    /\ Become(h, IdleJob)
    /\ UNCHANGED <<registry, media, queues>>

(* getActiveSessionForUser, for VoiceProducerCreated on the send transport. *)
Produce(h, s) ==
    /\ job[h].pc = "idle"
    /\ Active(s)
    /\ row[s].send # None
    /\ row[s].producer # row[s].send
    /\ \A i \in Handlers : job[i].transport # row[s].send
    /\ Become(h, [IdleJob EXCEPT !.pc = "askProducer", !.session = s,
                                 !.transport = row[s].send])
    /\ UNCHANGED <<row, registry, media, queues>>

AskProducer(h) ==
    /\ job[h].pc = "askProducer"
    /\ Ask(h, [job[h] EXCEPT !.pc = "produce"])
    /\ UNCHANGED <<row, registry, media, toWorker, toApi>>

ReadProduce(j) ==
    /\ Reads(j, "produce")
    /\ LET t == transport[job[j].transport]
       IN  \/ t.status # "open" /\ Reply(j, Failure(j)) /\ UNCHANGED toWorker
           \/ t.status = "open" /\ AskWorker(j, router[t.router].worker)
    /\ UNCHANGED <<row, registry, media>>

(* A producer of a transport closed meanwhile is closed with it.  The       *)
(* observer of the channel's router, if there is one, is asked to watch the *)
(* producer, and refuses one that is on another router.                     *)
ProducerCreated(j, w) ==
    /\ WorkerAnswers(j, w, "produce")
    /\ LET t == job[j].transport
           r == known[row[job[j].session].channel]
       IN  /\ transport' = [transport EXCEPT ![t].producing = @ \/ transport[t].status = "open"]
           /\ \/ r \notin observed /\ Reply(j, Result(j))
              \/ r \in observed /\ r # transport[t].router /\ Reply(j, Failure(j))
    /\ UNCHANGED <<row, registry, known, router, dead, observed, toMedia>>

ProducerToWatch(j, w) ==
    /\ toWorker[w] # <<>>
    /\ Head(toWorker[w]) = j
    /\ job[j].pc = "produce"
    /\ LET t == job[j].transport
           r == known[row[job[j].session].channel]
       IN  /\ r \in observed /\ r = transport[t].router
           /\ transport' = [transport EXCEPT ![t].producing = @ \/ transport[t].status = "open"]
    /\ toWorker' = [toWorker EXCEPT ![w] = Append(Tail(@), j)]
    /\ Become(j, [job[j] EXCEPT !.pc = "watch"])
    /\ UNCHANGED <<row, registry, known, router, dead, observed, toMedia, toApi>>

ProducerWatched(j, w) ==
    /\ WorkerAnswers(j, w, "watch")
    /\ Reply(j, [job[j] EXCEPT !.pc = "produce", !.ok = transport[job[j].transport].producing])
    /\ UNCHANGED <<row, registry, media, toMedia>>

GotProducer(h) ==
    /\ Answered(h, "produce")
    /\ Become(h, [job[h] EXCEPT !.pc = "recordProducer"])
    /\ UNCHANGED <<row, registry, media, toMedia, toWorker>>

RecordProducer(h) ==
    /\ job[h].pc = "recordProducer"
    /\ row' = [row EXCEPT ![job[h].session].producer =
                 IF Active(job[h].session) THEN job[h].transport ELSE @]
    /\ Become(h, IdleJob)
    /\ UNCHANGED <<registry, media, queues>>

-----------------------------------------------------------------------------
(* Release.                                                                 *)

(* Some operation of the voice module ends session s (VoiceSessions says    *)
(* which) and calls releaseSession after its commit.                        *)
EndSession(h, s) ==
    /\ job[h].pc = "idle"
    /\ Active(s)
    /\ row' = [row EXCEPT ![s].status = "ended"]
    /\ Become(h, [IdleJob EXCEPT !.pc = "readEnded", !.session = s])
    /\ UNCHANGED <<registry, media, queues>>

(* getActiveOrEndedSession. *)
ReadEnded(h) ==
    /\ job[h].pc = "readEnded"
    /\ Ask(h, [job[h] EXCEPT !.pc = "release", !.ended = row[job[h].session]])
    /\ UNCHANGED <<row, registry, media, toWorker, toApi>>

Closed(t) == [t EXCEPT !.status = IF @ = "open" THEN "closed" ELSE @, !.producing = FALSE]

(* closeProducer and closeTransport, which closes the producers it carries. *)
ReadRelease(j) ==
    /\ Reads(j, "release")
    /\ LET r == job[j].ended
       IN  transport' = [t \in Transports |->
                           IF t \in {r.send, r.recv} THEN Closed(transport[t])
                           ELSE IF t = r.producer THEN [transport[t] EXCEPT !.producing = FALSE]
                           ELSE transport[t]]
    /\ Reply(j, Result(j))
    /\ UNCHANGED <<row, registry, known, router, dead, observed, toWorker>>

GotRelease(h) ==
    /\ Answered(h, "release")
    /\ Become(h, IdleJob)
    /\ UNCHANGED <<row, registry, media, toMedia, toWorker>>

(* The answer is an error, and the request fails with it. *)
GotError(h) ==
    /\ Continues(h)
    /\ ~job[h].ok
    /\ Become(h, IdleJob)
    /\ UNCHANGED <<row, registry, media, toMedia, toWorker>>

(* A worker answers with an error: it has no port or no room left.          *)
WorkerRefuses(j, w) ==
    /\ \E question \in Questions : WorkerAnswers(j, w, question)
    /\ Reply(j, Failure(j))
    /\ UNCHANGED <<row, registry, media, toMedia>>

(* A permission is missing, or a statement of the database fails. *)
Fail(h) ==
    /\ job[h].pc \in {"insert", "askTransport", "askProducer",
                      "recordTransport", "recordProducer", "readEnded"}
    /\ Become(h, IdleJob)
    /\ UNCHANGED <<row, registry, media, queues>>

-----------------------------------------------------------------------------
(* A worker dies, or the whole media process exits.  handleWorkerDied ends  *)
(* the sessions of all channels that were in the registry, one statement    *)
(* per channel.                                                             *)

EndChannelsJob(channels) ==
    IF channels = {} THEN IdleJob
                     ELSE [IdleJob EXCEPT !.pc = "endChannels", !.channels = channels]

InRegistry == {c \in Channels : registry[c] # None}

(* Every router w had closes, with its observer, and deletes what the map   *)
(* has of its channel, another router perhaps; the questions w had fail     *)
(* after the event.                                                         *)
WorkerDies(e, w) ==
    /\ job[e].pc = "idle"
    /\ w \notin dead
    /\ dead' = dead \cup {w}
    /\ LET lost == {r \in Routers : router[r].worker = w}
       IN  /\ router' = [r \in Routers |-> IF r \in lost THEN [router[r] EXCEPT !.worker = "gone"]
                                                       ELSE router[r]]
           /\ known' = [c \in Channels |-> IF \E r \in lost : router[r].channel = c
                                              THEN None ELSE known[c]]
           /\ transport' = [t \in Transports |-> IF transport[t].router \in lost
                                                    THEN Closed(transport[t]) ELSE transport[t]]
           /\ observed' = observed \ lost
    /\ toApi' = toApi \o <<e>> \o toWorker[w]
    /\ toWorker' = [toWorker EXCEPT ![w] = <<>>]
    /\ Become(e, [IdleJob EXCEPT !.pc = "died"])
    /\ UNCHANGED <<row, registry, toMedia>>

(* Routers that getOrCreateRouter is about to store. *)
Returned == {job[j].router : j \in {k \in settled : job[k].pc = "observe" /\ job[k].ok}}

ReadsDeath(e) ==
    /\ toApi # <<>>
    /\ Head(toApi) = e
    /\ job[e].pc = "died"
    /\ toApi' = Tail(toApi)
    /\ Become(e, EndChannelsJob(InRegistry))
    /\ late' = Returned
    /\ UNCHANGED settled

(* Faulty variant: the registry is cleared when the sessions have ended. *)
GotDeathKeepsRouters(e) ==
    /\ ReadsDeath(e)
    /\ UNCHANGED <<row, registry, media, toMedia, toWorker>>

GotDeath(e) ==
    /\ ReadsDeath(e)
    /\ registry' = [c \in Channels |-> None]
    /\ UNCHANGED <<row, media, toMedia, toWorker>>

Reported == {d \in Deaths : job[d].pc = "died"}

(* The child exits: its questions are rejected, and answers that are still  *)
(* read find nobody waiting.  Deaths it has reported are still read, and    *)
(* being all alike in any order.  The next request starts another child.    *)
MediaExits(e) ==
    /\ job[e].pc = "idle"
    /\ known' = [c \in Channels |-> None]
    /\ router' = [r \in Routers |-> IF router[r] = NoRouter THEN NoRouter
                                     ELSE [router[r] EXCEPT !.worker = "gone"]]
    /\ dead' = {}
    /\ transport' = [t \in Transports |-> Closed(transport[t])]
    /\ toMedia' = <<>>
    /\ toWorker' = [w \in Workers |-> <<>>]
    /\ \E n \in 0..Len(toApi) : \E order \in [1..n -> Reported] :
         /\ \A d \in Reported : \E i \in 1..n : order[i] = d
         /\ \A i, k \in 1..n : order[i] = order[k] => i = k
         /\ toApi' = order
    /\ registry' = [c \in Channels |-> None]
    /\ job' = [j \in Jobs |-> IF j = e THEN EndChannelsJob(InRegistry)
                              ELSE IF job[j].pc \in Questions THEN IdleJob
                              ELSE job[j]]
    /\ observed' = {}
    /\ late' = {}
    /\ UNCHANGED <<row, settled>>

(* The statement for one channel; its failure is logged. *)
EndChannel(e) ==
    /\ job[e].pc = "endChannels"
    /\ \E c \in job[e].channels :
         /\ \/ row' = [s \in Sessions |-> IF Active(s) /\ row[s].channel = c
                                            THEN [row[s] EXCEPT !.status = "failed"] ELSE row[s]]
            \/ UNCHANGED row
         /\ Become(e, EndChannelsJob(job[e].channels \ {c}))
    /\ UNCHANGED <<registry, media, queues>>

-----------------------------------------------------------------------------

Request(h) ==
    \/ \E c \in Channels : Join(h, c)
    \/ \E s \in Sessions : RouterCapabilities(h, s) \/ Produce(h, s) \/ EndSession(h, s)
    \/ \E s \in Sessions, d \in Directions : CreateTransport(h, s, d)

(* The database answers a job. *)
DatabaseStep(j) ==
    \/ Insert(j) \/ AskTransport(j) \/ RecordTransport(j) \/ AskProducer(j)
    \/ RecordProducer(j) \/ ReadEnded(j) \/ Fail(j) \/ EndChannel(j)

(* The media process takes a question up. *)
MediaStep(j) ==
    \/ ReadCreateRouter(j) \/ ReadObserve(j) \/ ReadCreateTransport(j)
    \/ ReadProduce(j) \/ ReadRelease(j)

WorkerStep(j, w) ==
    \/ RouterCreated(j, w) \/ ObserverCreated(j, w) \/ TransportCreated(j, w)
    \/ ProducerCreated(j, w) \/ ProducerToWatch(j, w) \/ ProducerWatched(j, w)
    \/ WorkerRefuses(j, w)

ApiStep(j) ==
    \/ GotRouter(j) \/ GotObserver(j) \/ GotTransport(j) \/ GotProducer(j)
    \/ GotRelease(j) \/ GotError(j) \/ GotDeath(j)

(* A client or the database calls the API back.                             *)
Callback ==
    \/ \E h \in Handlers : Request(h)
    \/ \E j \in Jobs : DatabaseStep(j)

ChildStep ==
    \/ \E j \in Jobs : MediaStep(j)
    \/ \E j \in Jobs, w \in Workers : WorkerStep(j, w)
    \/ \E e \in Deaths, w \in Workers : WorkerDies(e, w)

(* The API is called back when all that was answered has gone on. Nor does  *)
(* the child do anything before that: it is another process, but what it    *)
(* writes meanwhile is not in the chunk that is being read, and whoever     *)
(* goes on only writes to the end of its queue.                             *)
Next ==
    \/ settled = {} /\ (Callback \/ ChildStep) /\ UNCHANGED chunk
    \/ settled = {} /\ \E e \in Deaths : MediaExits(e)
    \/ \E j \in Jobs : ReadAnswer(j) \/ ApiStep(j)

Spec == Init /\ [][Next]_vars

-----------------------------------------------------------------------------
(* Properties.                                                              *)

(* The API hands out no router that is gone, once it has been told, but in  *)
(* one case: getOrCreateRouter, which awaits two answers before it stores a *)
(* router, puts back one that handleWorkerDied has cleared only if the      *)
(* answer came in one chunk with the news, ahead of it.                     *)
RegistryIsAlive ==
    \A c \in Channels : registry[c] # None =>
        \/ router[registry[c]].worker # "gone"
        \/ \E e \in Deaths : job[e].pc = "died"
        \/ registry[c] \in late

(* When a release is answered, all that the row says its session had is     *)
(* closed: no transport or producer is recorded after releaseSession has    *)
(* read the row, whenever the media process answered for it.                *)
RecordedIsReleased ==
    \A h \in Handlers : (job[h].pc = "release" /\ job[h].ok) =>
        LET r == row[job[h].session]
        IN  /\ \A t \in {r.send, r.recv} \ {None} : transport[t].status = "closed"
            /\ r.producer # None => ~transport[r.producer].producing
=============================================================================
