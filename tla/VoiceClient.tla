---------------------------- MODULE VoiceClient ----------------------------
(***************************************************************************)
(* The voice client of the web application, voice-client.ts with the page  *)
(* that drives it, and what the server answers to its requests.            *)
(*                                                                         *)
(* The client keeps its device, transports, producer and microphone in     *)
(* variables that every call shares.  start() negotiates across several    *)
(* awaits, consumeRemoteProducer() across three; stop() and the failure of *)
(* a negotiation clear the variables, but nothing tells a negotiation that *)
(* is waiting: it goes on with whatever the variables hold when its answer *)
(* comes.  Everything a negotiation makes is named by the number of its    *)
(* start, which also names the session it is for; 0 is null.               *)
(*                                                                         *)
(* The specification is ClientSpec, for VoiceProofs extends VoiceSessions  *)
(* too.                                                                    *)
(***************************************************************************)
EXTENDS Naturals, FiniteSets

CONSTANTS
    MaxStarts, \* bound: sessions joined
    Producers, \* producers of others in the channel
    MaxPending \* bound: requests to consume the same producer under way at once

ASSUME ClientConstants == MaxStarts \in Nat /\ MaxPending \in Nat \ {0}

Starts == 1..MaxStarts

Slots == Producers \X (1..MaxPending)

VARIABLES
    status,     \* the state the page shows
    session,    \* startInput, and with it whether started
    device,     \* device, made by that start
    transports, \* sendTransport and recvTransport
    producer,   \* producer: the transports it sends on
    mic,        \* micStream
    consumers,  \* consumers: the transports a producer is received on, and for which session
    pending,    \* pendingProducers
    starts,     \* starts made
    negotiation,\* what every call of negotiate is waiting for
    consuming,  \* what every call of consumeRemoteProducer is waiting for
    open,       \* transports that are not closed
    capturing,  \* microphone streams that are not stopped
    liveSession,\* server: the session that has not ended
    producing,  \* server: producers before their time, in it, after their row's, and after their own
    events,     \* events on their way to the client, by producer
    listed,     \* the answer to a poll of the sessions, on its way
    seen,       \* the sessions the page last acted on
    overlapped, \* ghost: a start found an earlier negotiation under way, or what it left behind
    refused     \* ghost: producers a request to consume has failed for in this session

media == <<device, transports, producer, mic, open, capturing>>
room == <<producing, events>>
polls == <<listed, seen>>
server == <<liveSession, room, polls>>
ghosts == <<overlapped, refused>>
calls == <<negotiation, consuming>>
clientVars == <<status, session, media, consumers, pending, starts, calls, server, ghosts>>

NoConsumer == [on |-> 0, for |-> 0]

NoCall == [pc |-> "done", on |-> 0, for |-> 0]

NoNegotiation == [pc |-> "done", on |-> 0, known |-> {}]

(* Where a call waits. Neither a session nor a producer that has ended      *)
(* comes back: a request is refused if the server would refuse it when it   *)
(* is sent, and else may be answered, the answer coming however late.       *)
Asking(pc, granted) == IF granted THEN pc ELSE "refused"

(* listActiveProducerRowsForChannel                                        *)
ActiveProducers == {p \in Producers : producing[p] = "active"}

(* What a poll answers. The page is handed a new list only when it differs *)
(* from the one before: a producer that comes and goes between two polls   *)
(* need not show. Rows without a producer are left out.                    *)
Rows == ActiveProducers

NoRows == {"not fetched"}

Listed == Producers \cap listed

Waiting(n) == negotiation[n].pc # "done"

ClientInit ==
    /\ status = "idle"
    /\ session = 0 /\ device = 0 /\ transports = 0 /\ producer = 0 /\ mic = 0
    /\ consumers = [p \in Producers |-> NoConsumer]
    /\ pending = {}
    /\ starts = 0
    /\ negotiation = [n \in Starts |-> NoNegotiation]
    /\ consuming = [s \in Slots |-> NoCall]
    /\ open = {} /\ capturing = {} /\ liveSession = 0
    /\ producing = [p \in Producers |-> "unused"]
    /\ events = [p \in Producers |-> {}]
    /\ listed = NoRows /\ seen = NoRows
    /\ overlapped = FALSE /\ refused = {}

-----------------------------------------------------------------------------
(* Faulty variant: the microphone is left on.                              *)
TeardownTransports ==
    /\ consumers' = [p \in Producers |-> NoConsumer]
    /\ producer' = 0 /\ transports' = 0 /\ mic' = 0 /\ device' = 0
    /\ open' = open \ {transports}
    /\ UNCHANGED capturing

(* Faulty variant: the transports closed stay in their variables.          *)
ForgetfulTeardown ==
    /\ consumers' = [p \in Producers |-> NoConsumer]
    /\ producer' = 0 /\ mic' = 0 /\ device' = 0
    /\ open' = open \ {transports}
    /\ capturing' = capturing \ {mic}
    /\ UNCHANGED transports

(* teardownMedia closes what the variables hold, and only that.            *)
TeardownMedia ==
    /\ consumers' = [p \in Producers |-> NoConsumer]
    /\ producer' = 0 /\ transports' = 0 /\ mic' = 0 /\ device' = 0
    /\ open' = open \ {transports}
    /\ capturing' = capturing \ {mic}

(* The page starts the client when a join has been answered and the client *)
(* is not started. A join tells the producers there are.                   *)
Start ==
    LET n == starts + 1
    IN  /\ session = 0
        /\ n \in Starts
        /\ starts' = n
        /\ session' = n
        /\ status' = "negotiating"
        /\ pending' = {}
        /\ negotiation' = [negotiation EXCEPT ![n] =
               [pc |-> "router", on |-> 0, known |-> ActiveProducers]]
        /\ liveSession' = n
        /\ overlapped' = (overlapped \/ transports # 0 \/ \E m \in Starts : Waiting(m))
        /\ refused' = {}
        /\ UNCHANGED <<media, consumers, consuming, room, polls>>

(* started and startInput are cleared; the listeners come off.             *)
Unstart ==
    /\ session' = 0
    /\ refused' = {}
    /\ UNCHANGED overlapped

(* stop: leaving, the page's unmounting.                                   *)
Stop ==
    /\ Unstart
    /\ pending' = {}
    /\ TeardownMedia
    /\ status' = "idle"
    /\ UNCHANGED <<starts, calls, server>>

(* handleWorkerDied: the server has ended the session and said so, and the *)
(* page joins anew.                                                        *)
HandleWorkerDied ==
    /\ session # 0
    /\ liveSession' = IF liveSession = session THEN 0 ELSE liveSession
    /\ Unstart
    /\ TeardownMedia
    /\ status' = "reconnecting"
    /\ UNCHANGED <<pending, starts, calls, room, polls>>

(* What the catch of start() leaves, after the answer to negotiation n has *)
(* been dealt with as far as it went.                                      *)
Fail(n) ==
    /\ Unstart
    /\ pending' = {}
    /\ status' = "failed"
    /\ negotiation' = [negotiation EXCEPT ![n] = NoNegotiation]
    /\ UNCHANGED <<starts, consuming, server>>

(* A request is refused, times out or loses its connection, the device     *)
(* does not load, the user refuses the microphone.                         *)
NegotiationFails(n) ==
    /\ Waiting(n)
    /\ TeardownMedia
    /\ Fail(n)

-----------------------------------------------------------------------------
(* negotiate, await by await.                                               *)
Proceed(n, call) == negotiation' = [negotiation EXCEPT ![n] = call]

(* The capabilities have come: the device is stored before it is loaded.   *)
MakeDevice(n) ==
    /\ negotiation[n].pc = "router"
    /\ device' = n
    /\ Proceed(n, [negotiation[n] EXCEPT !.pc = "load"])
    /\ UNCHANGED <<status, session, transports, producer, mic, open, capturing, consumers,
                   pending, starts, consuming, server, ghosts>>

(* The producers the join told of are queued, the transports asked for.    *)
LoadDevice(n) ==
    /\ negotiation[n].pc = "load"
    /\ pending' = pending \cup negotiation[n].known
    /\ Proceed(n, [negotiation[n] EXCEPT !.pc = Asking("transports", n = liveSession),
                                         !.known = {}])
    /\ UNCHANGED <<status, session, media, consumers, starts, consuming, server, ghosts>>

(* device.loaded                                                           *)
DeviceLoaded == device # 0 /\ negotiation[device].pc # "load"

(* Without a device that is loaded the creation throws.                    *)
CreateTransports(n) ==
    /\ negotiation[n].pc = "transports"
    /\ IF ~DeviceLoaded THEN TeardownMedia /\ Fail(n)
       ELSE /\ transports' = n
            /\ open' = open \cup {n}
            /\ Proceed(n, [negotiation[n] EXCEPT !.pc = "microphone"])
            /\ UNCHANGED <<status, session, device, producer, mic, capturing, consumers, pending,
                           starts, consuming, server, ghosts>>

(* getUserMedia has the user's consent. Without transports produce throws, *)
(* and the stream just stored is torn down.                                *)
OpenMicrophone(n) ==
    /\ negotiation[n].pc = "microphone"
    /\ IF transports = 0
       THEN /\ device' = 0 /\ mic' = 0 /\ producer' = 0
            /\ consumers' = [p \in Producers |-> NoConsumer]
            /\ UNCHANGED <<transports, open, capturing>>
            /\ Fail(n)
       ELSE /\ mic' = n
            /\ capturing' = capturing \cup {n}
            /\ Proceed(n, [negotiation[n] EXCEPT
                   !.pc = Asking("produce", transports = liveSession), !.on = transports])
            /\ UNCHANGED <<status, session, device, transports, producer, open, consumers,
                           pending, starts, consuming, server, ghosts>>

(* The producer is in the media process, also when its row has ended.      *)
InWorker(p) == producing[p] \in {"active", "ended"}

(* consume, on the server: the router knows the producer.                  *)
MayConsume(p, for) == for = liveSession /\ InWorker(p)

(* resumeConsumer, on the server: a consumer ends with its producer, and   *)
(* belongs to the transport of one session.                                *)
MayResume(p, for) == for = liveSession /\ InWorker(p)

(* The calls of consumeRemoteProducer for ps that find what they need.     *)
(* Bound: no more than MaxPending of them are under way for one producer.  *)
Free(p) == {i \in 1..MaxPending : consuming[<<p, i>>].pc = "done"}

Wanted(ps) == {p \in ps : consumers[p] = NoConsumer}

Consume(ps) ==
    /\ \A p \in Wanted(ps) : Free(p) # {}
    /\ consuming' = [s \in Slots |->
           IF s[1] \in Wanted(ps) /\ s[2] = CHOOSE i \in Free(s[1]) : TRUE
           THEN [pc |-> Asking("create", MayConsume(s[1], session)), on |-> 0, for |-> session]
           ELSE consuming[s]]

HasReceiver == DeviceLoaded /\ transports # 0

(* What was queued is consumed, if there is a session, a device and a      *)
(* transport. The capabilities of a device not loaded cannot be read.      *)
ConsumeQueued ==
    IF session = 0 \/ device = 0 \/ transports = 0 THEN UNCHANGED <<consuming, refused>>
    ELSE IF DeviceLoaded THEN Consume(pending) /\ UNCHANGED refused
    ELSE /\ refused' = refused \cup Wanted(pending)
         /\ UNCHANGED consuming

(* sendTransport.produce returns, unless that transport was closed; what   *)
(* was queued is consumed, and start() says connected, even after a stop.  *)
Produce(n) ==
    LET t == negotiation[n].on
    IN  /\ negotiation[n].pc = "produce"
        /\ t \in open
        /\ producer' = t
        /\ status' = "connected"
        /\ pending' = {}
        /\ Proceed(n, NoNegotiation)
        /\ ConsumeQueued
        /\ UNCHANGED <<session, device, transports, mic, open, capturing, consumers, starts,
                       server, overlapped>>

-----------------------------------------------------------------------------
(* consumeRemoteProducer, await by await.                                  *)

(* The consumer is made on the transport there is by now, if there is one, *)
(* and resumed for the session there is by now.                            *)
CreateConsumer(s) ==
    /\ consuming[s].pc = "create"
    /\ transports # 0 /\ session # 0
    /\ consuming' = [consuming EXCEPT ![s].pc = Asking("resume", MayResume(s[1], consuming[s].for)),
                                     ![s].on = transports]
    /\ UNCHANGED <<status, session, media, consumers, pending, starts, negotiation, server,
                   ghosts>>

(* It is recorded whatever has become meanwhile of the transport, of the   *)
(* session and of the producer.                                            *)
ResumeConsumer(s) ==
    /\ consuming[s].pc = "resume"
    /\ consumers' = [consumers EXCEPT ![s[1]] =
           [on |-> consuming[s].on, for |-> consuming[s].for]]
    /\ consuming' = [consuming EXCEPT ![s] = NoCall]
    /\ UNCHANGED <<status, session, media, pending, starts, negotiation, server, ghosts>>

(* Refused, timed out, disconnected, or the transport was closed: a        *)
(* warning is logged, and nothing else is done about it.                   *)
ConsumeFails(s) ==
    /\ consuming[s].pc # "done"
    /\ consuming' = [consuming EXCEPT ![s] = NoCall]
    /\ refused' = IF consuming[s].for = session THEN refused \cup {s[1]} ELSE refused
    /\ UNCHANGED <<status, session, media, consumers, pending, starts, negotiation, server,
                   overlapped>>

-----------------------------------------------------------------------------
(* queueOrConsumeRemoteProducer, for each of ps.                           *)
QueueOrConsume(ps, queued) ==
    IF HasReceiver THEN /\ Consume(ps)
                        /\ pending' = queued
    ELSE /\ pending' = queued \cup Wanted(ps)
         /\ UNCHANGED consuming

Deliver(p, event) ==
    /\ event \in events[p]
    /\ event = "closed" => "created" \notin events[p]
    /\ events' = [events EXCEPT ![p] = @ \ {event}]
    /\ UNCHANGED <<status, session, media, starts, negotiation, liveSession, producing, polls,
                   ghosts>>

(* handleRemoteProducerCreated *)
DeliverCreated(p) ==
    /\ Deliver(p, "created")
    /\ IF session # 0 THEN QueueOrConsume({p}, pending) ELSE UNCHANGED <<consuming, pending>>
    /\ UNCHANGED consumers

(* handleRemoteProducerClosed *)
DeliverClosed(p) ==
    /\ Deliver(p, "closed")
    /\ IF session # 0
       THEN /\ pending' = pending \ {p}
            /\ consumers' = [consumers EXCEPT ![p] = NoConsumer]
       ELSE UNCHANGED <<pending, consumers>>
    /\ UNCHANGED consuming

(* A socket that is not connected, or not yet in the room, gets nothing.   *)
LoseEvent(p, event) ==
    /\ Deliver(p, event)
    /\ UNCHANGED <<consumers, pending, consuming>>

(* The sessions are polled every second. The answer may be old.            *)
Poll ==
    /\ listed = NoRows
    /\ listed' = Rows
    /\ UNCHANGED <<status, session, media, consumers, pending, starts, calls, liveSession, room, seen,
                   ghosts>>


(* Producers that are not listed are dropped.                              *)
ReconciledConsumers ==
    [p \in Producers |-> IF p \in Listed THEN consumers[p] ELSE NoConsumer]

(* The same rows are the same list to the page, and nothing runs.          *)
IgnorePoll ==
    /\ listed = seen
    /\ UNCHANGED <<consuming, pending, consumers>>

(* syncRemoteProducers, if the client is started. Rows and columns left    *)
(* out, someone's mute, make another list of the same producers.           *)
Sync ==
    IF session # 0
    THEN /\ QueueOrConsume(Listed, pending \cap Listed)
         /\ consumers' = ReconciledConsumers
    ELSE UNCHANGED <<consuming, pending, consumers>>

TakePoll ==
    /\ listed # NoRows
    /\ IgnorePoll \/ Sync
    /\ seen' = listed
    /\ listed' = NoRows
    /\ UNCHANGED <<status, session, media, starts, negotiation, liveSession, room, ghosts>>

-----------------------------------------------------------------------------
(* handleTransportStateChange, for transports of any start.                *)
LoseTransport ==
    /\ open # {}
    /\ session # 0 /\ status = "connected"
    /\ status' = "reconnecting"
    /\ UNCHANGED <<session, media, consumers, pending, starts, calls, server, ghosts>>

(* Faulty variant: connected transports will do.                           *)
HasTransports == transports # 0

(* Both transports and a producer.                                         *)
HasMedia == transports # 0 /\ producer # 0

ConnectTransport ==
    /\ open # {}
    /\ status # "connected"
    /\ HasMedia
    /\ status' = "connected"
    /\ UNCHANGED <<session, media, consumers, pending, starts, calls, server, ghosts>>

(* The server ends the session: left, moderated, out of time, lost.        *)
EndSession ==
    /\ liveSession # 0
    /\ liveSession' = 0
    /\ UNCHANGED <<status, session, media, consumers, pending, starts, calls, room, polls,
                   ghosts>>

(* Others begin to speak and cease.                                        *)
RemoteProduces(p) ==
    /\ producing[p] = "unused"
    /\ producing' = [producing EXCEPT ![p] = "active"]
    /\ events' = [events EXCEPT ![p] = {"created"}]
    /\ UNCHANGED <<status, session, media, consumers, pending, starts, calls, liveSession, polls,
                   ghosts>>

(* Their row ends: the commit of leaving, or of a release.                 *)
RemoteLeaves(p) ==
    /\ producing[p] = "active"
    /\ producing' = [producing EXCEPT ![p] = "ended"]
    /\ UNCHANGED <<status, session, media, consumers, pending, starts, calls, liveSession, events,
                   polls, ghosts>>

(* releaseSession, later: the media process closes the producer, and the   *)
(* room is told.                                                           *)
RemoteCloses(p) ==
    /\ producing[p] = "ended"
    /\ producing' = [producing EXCEPT ![p] = "gone"]
    /\ events' = [events EXCEPT ![p] = @ \cup {"closed"}]
    /\ UNCHANGED <<status, session, media, consumers, pending, starts, calls, liveSession, polls,
                   ghosts>>

ConsumeStep(s) ==
    \/ CreateConsumer(s)
    \/ ResumeConsumer(s)
    \/ ConsumeFails(s)

ClientNext ==
    \/ Start \/ Stop \/ HandleWorkerDied
    \/ \E n \in Starts :
          \/ MakeDevice(n) \/ LoadDevice(n) \/ CreateTransports(n) \/ OpenMicrophone(n)
          \/ Produce(n) \/ NegotiationFails(n)
    \/ \E s \in Slots : ConsumeStep(s)
    \/ \E p \in Producers :
          \/ DeliverCreated(p) \/ DeliverClosed(p)
          \/ \E event \in {"created", "closed"} : LoseEvent(p, event)
          \/ RemoteProduces(p) \/ RemoteLeaves(p) \/ RemoteCloses(p)
    \/ Poll \/ TakePoll \/ EndSession
    \/ LoseTransport \/ ConnectTransport

(* The page polls and takes every answer, in turn, and a request ends:     *)
(* answered, or by its timer.                                              *)
ClientFairness ==
    /\ WF_clientVars(Poll \/ TakePoll)
    /\ \A s \in Slots : WF_clientVars(ConsumeStep(s))

ClientSpec == ClientInit /\ [][ClientNext]_clientVars /\ ClientFairness

-----------------------------------------------------------------------------
(* Variables hold what was made, and a transport in use is not closed.     *)
ClientTypeOK ==
    /\ status \in {"idle", "negotiating", "connected", "reconnecting", "failed"}
    /\ session \in 0..starts
    /\ starts \in 0..MaxStarts
    /\ {device, transports, producer, mic} \subseteq 0..starts
    /\ transports # 0 => transports \in open
    /\ mic # 0 => mic \in capturing
    /\ open \cup capturing \subseteq 1..starts
    /\ liveSession \in 0..starts
    /\ pending \subseteq Producers
    /\ \A p \in Producers : consumers[p].on \in 0..starts /\ consumers[p].for \in 0..starts

(* What the page shows as connected sends: there is a producer on open     *)
(* transports, however starts, stops, failures and the loss of a worker    *)
(* cross, and a microphone feeds it when no two negotiations overlapped.   *)
ConnectedMeansSending ==
    status = "connected" => /\ producer # 0 /\ producer \in open
                            /\ ~overlapped => mic # 0 /\ mic \in capturing

Silent == open = {} /\ capturing = {}

(* Nobody has started the client, and no negotiation is under way.         *)
AtRest == session = 0 /\ \A n \in Starts : ~Waiting(n)

(* docs/dev/08-frontend-design.md:156 closes all transports and releases   *)
(* the microphone on leaving. The code does not, when it is stopped while  *)
(* a negotiation waits and the session lives on for a while.               *)
LeavingClosesMedia == AtRest => Silent

(* What it does give, unless starts overlapped: a negotiation that is      *)
(* stopped in the middle either closes in the end all it has opened, or    *)
(* shows the user, who has left, as connected. No stop, failure or loss of *)
(* a worker leaves a transport or the microphone open behind any other     *)
(* status.                                                                 *)
SilentOrShown == AtRest /\ ~overlapped => Silent \/ status = "connected"

(* A session in which nothing is left over from an earlier one.            *)
Clean ==
    /\ session # 0 /\ status = "connected" /\ session = liveSession
    /\ {device, transports, producer} = {session} /\ DeviceLoaded
    /\ \A p \in Producers : consumers[p] \in {NoConsumer, [on |-> session, for |-> session]}

=============================================================================
