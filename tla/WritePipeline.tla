---------------------------- MODULE WritePipeline ----------------------------
(***************************************************************************)
(* The write side of the Firestore client that inclass/miles links: the    *)
(* mutation queues on disk (LocalStore, LevelDbMutationQueue), the write   *)
(* pipeline and the write stream (RemoteStore, Stream, WriteStream), the   *)
(* answers to the app (SyncEngine) and the credentials of the stream       *)
(* (FirebaseCredentialsProvider over FIRAuth).                             *)
(*                                                                         *)
(* The client's code runs on one worker queue: an action is one task of    *)
(* it.  The main queue, FIRAuth's queue, the connection and the server run *)
(* beside it.  The n-th write the app makes is the number n.               *)
(***************************************************************************)
EXTENDS Naturals, Sequences, FiniteSets

CONSTANTS
    Users,              \* who may be signed in ("nobody" is such a user)
    FirstUser,          \* the user of the first start
    MaxPendingWrites,   \* kMaxPendingWrites
    MaxWrites,          \* bound on the writes the app makes
    MaxEvents           \* bound on the disturbances: see Event

ASSUME PipelineAssumption ==
    /\ FirstUser \in Users
    /\ MaxPendingWrites \in Nat \ {0}
    /\ MaxWrites \in Nat
    /\ MaxEvents \in Nat

VARIABLES
    authUser,   \* FIRAuth: the user signed in
    counter,    \* credentials provider: token_counter
    asked,      \* requests for a token FIRAuth is working on
    mainQueue,  \* blocks FIRAuth dispatched to the main queue
    inbox,      \* tasks those blocks enqueued on the worker queue
    user,       \* sync engine: current_user_, and whose mutation queue is open
    network,    \* remote store: is_network_enabled_
    pipeline,   \* remote store: write_pipeline_
    callbacks,  \* sync engine: mutation_callbacks_
    waiters,    \* sync engine: pending_writes_callbacks_
    nextId,     \* mutation queue: next_batch_id_
    stream,     \* write stream: state_
    handshake,  \* write stream: handshake_complete_
    idle,       \* write stream: is idleness_timer_ running?
    closes,     \* write stream: close_count_
    token,      \* write stream: whose stream last_stream_token_ comes from
    queue,      \* disk: the mutation batches of each user
    saved,      \* disk: the stream token of each user's queue
    creds,      \* the credentials the open connection was made with
    up,         \* requests on their way to the server
    down,       \* responses the client has not handled
    closing,    \* the status the server or the network ended the stream with
    behind,     \* is the read of the next response due after a failing send?
    committed,  \* the server: writes applied at least once
    last,       \* the server: each user's write applied last
    refused,    \* the server: writes it has answered with a permanent error
    issued,     \* history: who made each write
    told,       \* history: what the app has been told of each write
    events      \* disturbances so far

authVars   == <<authUser, counter, mainQueue, inbox>>
appVars    == <<callbacks, waiters>>
diskVars   == <<nextId, queue, saved>>
connVars   == <<creds, up, down, closing, behind>>
serverVars == <<committed, last, refused>>
streamVars == <<stream, handshake, idle, closes, token>>

vars == <<authVars, asked, user, network, pipeline, appVars, streamVars,
          diskVars, connVars, serverVars, issued, told, events>>

Nobody  == "no token"
Batch   == [id : Nat, write : Nat]
Hello   == [id |-> 0, write |-> 0]      \* the handshake and its answer
Error   == {"unavailable", "aborted", "permanent"}
Request == [counter : Nat, closes : Nat, owner : Users \cup {Nobody}]
Task    == [kind : {"user"}, user : Users]
               \cup [kind : {"token"}, closes : Nat, owner : Users,
                     status : Error \cup {"ok"}]

Init ==
    /\ authUser = FirstUser
    /\ counter = 0
    /\ asked = {}
    /\ mainQueue = << >>
    /\ inbox = << >>
    /\ user = FirstUser
    /\ network = TRUE
    /\ pipeline = << >>
    /\ callbacks = {}
    /\ waiters = {}
    /\ nextId = 1
    /\ stream = "Initial"
    /\ handshake = FALSE
    /\ idle = FALSE
    /\ closes = 0
    /\ token = Nobody
    /\ queue = [u \in Users |-> << >>]
    /\ saved = [u \in Users |-> Nobody]
    /\ creds = Nobody
    /\ up = << >>
    /\ down = << >>
    /\ closing = "ok"
    /\ behind = FALSE
    /\ committed = {}
    /\ last = [u \in Users |-> 0]
    /\ refused = {}
    /\ issued = << >>
    /\ told = [w \in 1..MaxWrites |-> "nothing"]
    /\ events = 0

\* A disturbance: a sign-in, a wait for the pending writes, the network
\* switched off or on, a crash, a failing token request, an error of the
\* server, a lost connection.
Event == events < MaxEvents /\ events' = events + 1

-----------------------------------------------------------------------------
(* The mutation queue of one user: batches by increasing id.               *)

\* LevelDB's Seek: the first place with an id of at least id.
Seek(q, id) ==
    CHOOSE i \in 1..(Len(q) + 1) : /\ i <= Len(q) => q[i].id >= id
                                   /\ \A j \in 1..(i - 1) : q[j].id < id

\* RemoveMutationBatch: the row that Seek finds.
Without(q, id) == SubSeq(q, 1, Seek(q, id) - 1)
                      \o SubSeq(q, Seek(q, id) + 1, Len(q))

\* Mutant: ids are given from 1 in every process.
NextIdOfMutant(qs) == 0

\* LoadNextBatchIdFromDb: over the queues of all users.
NextIdOf(qs) ==
    LET ids == UNION {{qs[u][i].id : i \in 1..Len(qs[u])} : u \in Users}
    IN  CHOOSE n \in {0} \cup ids : \A m \in ids : m <= n

Highest(q) == q[Len(q)].id

\* Mutant: off by one.
FillMutant(p, q) ==
    LET lastId == IF p = << >> THEN 0 ELSE p[Len(p)].id
        from   == Seek(q, lastId + 2)
        room   == MaxPendingWrites - Len(p)
        to     == IF from + room - 1 < Len(q) THEN from + room - 1 ELSE Len(q)
    IN  p \o SubSeq(q, from, to)

(* The pipeline after FillWritePipeline: what NextMutationBatchAfterBatchId *)
(* gives after the last batch of p, until p is full.                       *)
Fill(p, q) ==
    LET lastId == IF p = << >> THEN 0 ELSE p[Len(p)].id
        from   == Seek(q, lastId + 1)
        room   == MaxPendingWrites - Len(p)
        to     == IF from + room - 1 < Len(q) THEN from + room - 1 ELSE Len(q)
    IN  p \o SubSeq(q, from, to)

-----------------------------------------------------------------------------
(* The write stream.                                                       *)

IsStarted(s) == s \in {"Starting", "Open", "Backoff"}

\* Mutant: a stream that has failed is not started again.
ShouldStartWriteStreamMutant(on, s, p) == on /\ s = "Initial" /\ p # << >>

ShouldStartWriteStream(on, s, p) == on /\ ~IsStarted(s) /\ p # << >>

(* The pipeline becomes p while the stream is in state s: start the stream *)
(* if that is needed; after an error that takes a backoff first.           *)
StartIfNeeded(on, s, p) ==
    LET starts == ShouldStartWriteStream(on, s, p)
    IN  /\ pipeline' = p
        /\ stream' = IF ~starts THEN s
                     ELSE IF s = "Error" THEN "Backoff" ELSE "Starting"
        /\ asked' = IF starts /\ s # "Error"
                    THEN asked \cup {[counter |-> counter, closes |-> closes',
                                      owner |-> Nobody]}
                    ELSE asked

\* Mutant: batches are sent before the handshake.
FillWritePipelineMutant(on, p, q) ==
    LET next == IF on THEN Fill(p, q) ELSE p
        sent == IF stream = "Open" THEN SubSeq(next, Len(p) + 1, Len(next))
                                   ELSE << >>
    IN  /\ StartIfNeeded(on, stream, next)
        /\ up' = up \o sent
        /\ idle' = IF sent # << >> THEN FALSE
                   ELSE idle \/ (on /\ stream = "Open" /\ next = << >>)

(* FillWritePipeline after the pipeline has become p and the queue q: an   *)
(* open stream is sent what is new, or its idle timer is started when      *)
(* nothing is left.                                                        *)
FillWritePipeline(on, p, q) ==
    LET next == IF on THEN Fill(p, q) ELSE p
        sent == IF stream = "Open" /\ handshake
                THEN SubSeq(next, Len(p) + 1, Len(next)) ELSE << >>
    IN  /\ StartIfNeeded(on, stream, next)
        /\ up' = up \o sent
        /\ idle' = IF sent # << >> THEN FALSE
                   ELSE idle \/ (on /\ stream = "Open" /\ next = << >>)

Disconnected ==
    /\ handshake' = FALSE
    /\ idle' = FALSE
    /\ creds' = Nobody
    /\ up' = << >>
    /\ down' = << >>
    /\ closing' = "ok"
    /\ behind' = FALSE

\* Stop: a stream that is not started keeps its state, an error included.
StateAfterStop == IF IsStarted(stream) THEN "Initial" ELSE stream
Stop ==
    /\ closes' = IF IsStarted(stream) THEN closes + 1 ELSE closes
    /\ Disconnected

-----------------------------------------------------------------------------
(* What the app is told.                                                   *)

Called(id) == {c \in callbacks : c.user = user /\ c.id = id}

(* HandleSuccessfulWrite, HandleRejectedWrite: the batch leaves the queue, *)
(* its callback is called, and so are those that wait for it.              *)
Settle(id, outcome) ==
    /\ queue' = [queue EXCEPT ![user] = Without(@, id)]
    /\ callbacks' = callbacks \ Called(id)
    /\ told' = [w \in 1..MaxWrites |->
                   IF \E c \in Called(id) : c.write = w THEN outcome
                                                        ELSE told[w]]
    /\ waiters' = {x \in waiters : x.awaits # id}

\* Mutant: what was aborted is refused.
IsPermanentWriteErrorMutant(e) == e \in {"permanent", "aborted"}

IsPermanentError(e)      == e \in {"permanent", "aborted"}
IsPermanentWriteError(e) == e = "permanent"

(* OnStreamFinish, up to and including OnWriteStreamClose.  A permanent    *)
(* error is put down to the first batch once the handshake is complete,    *)
(* and to the stream token before that.                                    *)
OnStreamFinish(e) ==
    LET blamed == handshake /\ pipeline # << >> /\ IsPermanentWriteError(e)
        stale  == ~handshake /\ pipeline # << >> /\ IsPermanentError(e)
    IN  /\ closes' = closes + 1
        /\ Disconnected
        /\ token' = IF stale THEN Nobody ELSE token
        /\ saved' = IF stale THEN [saved EXCEPT ![user] = Nobody] ELSE saved
        /\ IF blamed
           THEN /\ Settle(Head(pipeline).id, "failed")
                /\ StartIfNeeded(network, "Initial",
                                 Fill(Tail(pipeline), queue'[user]))
           ELSE /\ StartIfNeeded(network, "Error", pipeline)
                /\ UNCHANGED <<queue, callbacks, told, waiters>>
        /\ UNCHANGED <<authUser, counter, mainQueue, user, network, nextId,
                       serverVars, issued>>

-----------------------------------------------------------------------------
(* The app.                                                                *)

\* WriteMutations.  A callback is inserted, it does not replace another.
Write ==
    LET w == Len(issued) + 1
        q == Append(queue[user], [id |-> nextId, write |-> w])
    IN  /\ w <= MaxWrites
        /\ issued' = Append(issued, user)
        /\ queue' = [queue EXCEPT ![user] = q]
        /\ nextId' = nextId + 1
        /\ callbacks' = IF Called(nextId) # {} THEN callbacks
                        ELSE callbacks \cup
                                 {[user |-> user, id |-> nextId, write |-> w]}
        /\ closes' = closes
        /\ FillWritePipeline(network, pipeline, q)
        /\ UNCHANGED <<authVars, user, network, waiters, handshake, token,
                       saved, creds, down, closing, behind, serverVars, told,
                       events>>

\* RegisterPendingWritesCallback, when there is something to wait for.
WaitForPendingWrites ==
    /\ Event
    /\ queue[user] # << >>
    /\ waiters' = waiters \cup
           {[awaits |-> Highest(queue[user]),
             writes |-> {queue[user][i].write : i \in 1..Len(queue[user])}]}
    /\ UNCHANGED <<authVars, asked, user, network, pipeline, callbacks,
                   streamVars, diskVars, connVars, serverVars, issued, told>>

\* Mutant: the pipeline is not filled.
EnableNetworkMutant ==
    /\ IF network THEN Event ELSE UNCHANGED events
    /\ network' = TRUE
    /\ token' = saved[user]
    /\ closes' = closes
    /\ FillWritePipeline(network, pipeline, queue[user])
    /\ UNCHANGED <<authVars, user, appVars, handshake, diskVars, creds, down,
                   closing, behind, serverVars, issued, told>>

EnableNetwork ==
    /\ IF network THEN Event ELSE UNCHANGED events
    /\ network' = TRUE
    /\ token' = saved[user]
    /\ closes' = closes
    /\ FillWritePipeline(TRUE, pipeline, queue[user])
    /\ UNCHANGED <<authVars, user, appVars, handshake, diskVars, creds, down,
                   closing, behind, serverVars, issued, told>>

DisableNetwork ==
    /\ Event
    /\ network
    /\ network' = FALSE
    /\ Stop
    /\ StartIfNeeded(FALSE, StateAfterStop, << >>)
    /\ UNCHANGED <<authVars, user, appVars, token, diskVars, serverVars,
                   issued, told>>

(* The process ends and is started again: what is on disk and who is       *)
(* signed in remain, callbacks are lost.                                   *)
Restart ==
    /\ Event
    /\ counter' = 0
    /\ mainQueue' = << >>
    /\ inbox' = << >>
    /\ user' = authUser
    /\ network' = TRUE
    /\ callbacks' = {}
    /\ waiters' = {}
    /\ nextId' = NextIdOf(queue) + 1
    /\ closes' = 0
    /\ token' = saved[authUser]
    /\ Disconnected
    /\ pipeline' = Fill(<< >>, queue[authUser])
    /\ stream' = IF pipeline' = << >> THEN "Initial" ELSE "Starting"
    /\ asked' = IF pipeline' = << >> THEN {}
                ELSE {[counter |-> 0, closes |-> 0, owner |-> Nobody]}
    /\ UNCHANGED <<authUser, queue, saved, serverVars, issued, told>>

-----------------------------------------------------------------------------
(* Credentials.                                                            *)

\* updateCurrentUser, on FIRAuth's queue.
SignIn(u) ==
    /\ Event
    /\ u # authUser
    /\ authUser' = u
    /\ mainQueue' = Append(mainQueue, [kind |-> "user", user |-> u])
    /\ UNCHANGED <<counter, asked, inbox, user, network, pipeline, appVars,
                   streamVars, diskVars, connVars, serverVars, issued, told>>

\* getTokenForcingRefresh takes up a request: the token will be authUser's.
TakeUp(r) ==
    /\ r.owner = Nobody
    /\ asked' = (asked \ {r}) \cup {[r EXCEPT !.owner = authUser]}
    /\ UNCHANGED <<authVars, user, network, pipeline, appVars, streamVars,
                   diskVars, connVars, serverVars, issued, told, events>>

\* Mutant: a request is answered before FIRAuth has taken it up.
AnswerTokenMutant(r, status) ==
    /\ asked' = asked \ {r}
    /\ mainQueue' = Append(mainQueue,
           [kind |-> "token", counter |-> r.counter, closes |-> r.closes,
            owner |-> r.owner, status |-> status])
    /\ UNCHANGED <<authUser, counter, inbox, user, network, pipeline, appVars,
                   streamVars, diskVars, connVars, serverVars, issued, told>>

\* The token is there, or an error: the callback is due on the main queue.
AnswerToken(r, status) ==
    /\ r.owner # Nobody
    /\ asked' = asked \ {r}
    /\ mainQueue' = Append(mainQueue,
           [kind |-> "token", counter |-> r.counter, closes |-> r.closes,
            owner |-> r.owner, status |-> status])
    /\ UNCHANGED <<authUser, counter, inbox, user, network, pipeline, appVars,
                   streamVars, diskVars, connVars, serverVars, issued, told>>

TokenArrives(r) == AnswerToken(r, "ok") /\ UNCHANGED events
TokenFails(r)   == Event /\ AnswerToken(r, "unavailable")

(* The next block of the main queue: the notification of a new user, or    *)
(* the answer to GetToken, which is discarded if the user changed since.   *)
RunMainQueue ==
    /\ mainQueue # << >>
    /\ mainQueue' = Tail(mainQueue)
    /\ LET m == Head(mainQueue)
       IN  IF m.kind = "user"
           THEN /\ counter' = counter + 1
                /\ inbox' = Append(inbox, m)
           ELSE /\ counter' = counter
                /\ inbox' = Append(inbox,
                       [kind |-> "token", closes |-> m.closes,
                        owner |-> m.owner,
                        status |-> IF m.counter # counter THEN "aborted"
                                                          ELSE m.status])
    /\ UNCHANGED <<authUser, asked, user, network, pipeline, appVars,
                   streamVars, diskVars, connVars, serverVars, issued, told,
                   events>>

\* Mutant: the stream token of the user before is kept.
HandleCredentialChangeMutant ==
    /\ inbox # << >>
    /\ Head(inbox).kind = "user"
    /\ inbox' = Tail(inbox)
    /\ user' = Head(inbox).user
    /\ waiters' = IF user' # user THEN {} ELSE waiters
    /\ nextId' = IF user' # user THEN NextIdOf(queue) + 1 ELSE nextId
    /\ IF network
       THEN Stop /\ StartIfNeeded(TRUE, StateAfterStop, Fill(<< >>, queue[user']))
       ELSE UNCHANGED <<stream, handshake, idle, closes, asked, pipeline, connVars>>
    /\ UNCHANGED <<authUser, counter, mainQueue, network, callbacks, queue,
                   token, saved, serverVars, issued, told, events>>

(* HandleCredentialChange of the sync engine, the local store and the      *)
(* remote store.                                                           *)
HandleCredentialChange ==
    /\ inbox # << >>
    /\ Head(inbox).kind = "user"
    /\ inbox' = Tail(inbox)
    /\ user' = Head(inbox).user
    /\ waiters' = IF user' # user THEN {} ELSE waiters
    /\ nextId' = IF user' # user THEN NextIdOf(queue) + 1 ELSE nextId
    /\ IF network
       THEN /\ Stop
            /\ token' = saved[user']
            /\ StartIfNeeded(TRUE, StateAfterStop,
                             Fill(<< >>, queue[user']))
       ELSE UNCHANGED <<stream, handshake, idle, closes, token, asked,
                        pipeline, connVars>>
    /\ UNCHANGED <<authUser, counter, mainQueue, network, callbacks, queue,
                   saved, serverVars, issued, told, events>>

\* The answer to RequestCredentials, for this start of the stream.
Answered == inbox # << >> /\ Head(inbox).kind = "token"
Current  == Answered /\ Head(inbox).closes = closes

IgnoreCredentials ==
    /\ Answered
    /\ ~Current
    /\ inbox' = Tail(inbox)
    /\ UNCHANGED <<authUser, counter, asked, mainQueue, user, network,
                   pipeline, appVars, streamVars, diskVars, connVars,
                   serverVars, issued, told, events>>

\* ResumeStartWithCredentials: the stream opens and sends its handshake.
OpenStream ==
    /\ Current
    /\ Head(inbox).status = "ok"
    /\ inbox' = Tail(inbox)
    /\ stream' = "Open"
    /\ creds' = Head(inbox).owner
    /\ up' = <<Hello>>
    /\ UNCHANGED <<authUser, counter, asked, mainQueue, user, network,
                   pipeline, appVars, handshake, idle, closes, token,
                   diskVars, down, closing, behind, serverVars, issued, told,
                   events>>

RequestFails ==
    /\ Current
    /\ Head(inbox).status # "ok"
    /\ inbox' = Tail(inbox)
    /\ OnStreamFinish(Head(inbox).status)
    /\ UNCHANGED events

BackoffElapses ==
    /\ stream = "Backoff"
    /\ stream' = "Starting"
    /\ asked' = asked \cup {[counter |-> counter, closes |-> closes,
                             owner |-> Nobody]}
    /\ UNCHANGED <<authVars, user, network, pipeline, appVars, handshake,
                   idle, closes, token, diskVars, connVars, serverVars,
                   issued, told, events>>

-----------------------------------------------------------------------------
(* The connection.                                                         *)

\* OnWriteStreamHandshakeComplete: the whole pipeline is sent.
HandshakeCompletes ==
    /\ stream = "Open"
    /\ down # << >>
    /\ ~handshake
    /\ down' = Tail(down)
    /\ behind' = (behind \/ (closing # "ok" /\ up # << >>))
    /\ handshake' = TRUE
    /\ token' = creds
    /\ saved' = [saved EXCEPT ![user] = creds]
    /\ up' = up \o pipeline
    /\ idle' = (idle /\ pipeline = << >>)
    /\ UNCHANGED <<authVars, asked, user, network, pipeline, appVars, stream,
                   closes, nextId, queue, creds, closing, serverVars, issued,
                   told, events>>

(* OnWriteStreamMutationResult: an answer carries no name, it is taken to  *)
(* be for the first batch.                                                 *)
MutationResult ==
    /\ stream = "Open"
    /\ down # << >>
    /\ handshake
    /\ down' = Tail(down)
    /\ behind' = (behind \/ (closing # "ok" /\ up # << >>))
    /\ token' = creds
    /\ saved' = [saved EXCEPT ![user] = creds]
    /\ Settle(Head(pipeline).id, "ok")
    /\ closes' = closes
    /\ FillWritePipeline(network, Tail(pipeline), queue'[user])
    /\ UNCHANGED <<authVars, user, network, handshake, nextId, creds,
                   closing, serverVars, issued, events>>

(* The end of the stream is handled when the responses before it are, or   *)
(* when a request that was still being sent fails.  The next response is   *)
(* read only once the one before has been handled: it is lost when the     *)
(* request has failed by then.                                             *)
StreamFinishes ==
    /\ stream = "Open"
    /\ closing # "ok"
    /\ down = << >> \/ behind
    /\ OnStreamFinish(closing)
    /\ UNCHANGED <<inbox, events>>

\* The idle timer: Stop.
IdleElapses ==
    /\ idle
    /\ Stop
    /\ StartIfNeeded(network, StateAfterStop, pipeline)
    /\ UNCHANGED <<authVars, user, network, appVars, token, diskVars,
                   serverVars, issued, told, events>>

-----------------------------------------------------------------------------
(* The server answers the requests of a stream in their order and drops    *)
(* those of a stream that is over.                                         *)

Serving == closing = "ok" /\ up # << >>

ServerGreets ==
    /\ Serving
    /\ Head(up) = Hello
    /\ up' = Tail(up)
    /\ down' = Append(down, Hello)
    /\ UNCHANGED <<authVars, asked, user, network, pipeline, appVars,
                   streamVars, diskVars, creds, closing, behind, serverVars,
                   issued, told, events>>

ServerCommits ==
    /\ Serving
    /\ Head(up) # Hello
    /\ up' = Tail(up)
    /\ down' = Append(down, Head(up))
    /\ committed' = committed \cup {Head(up).write}
    /\ last' = [last EXCEPT ![creds] = Head(up).write]
    /\ UNCHANGED <<authVars, asked, user, network, pipeline, appVars,
                   streamVars, diskVars, creds, closing, behind, refused,
                   issued, told, events>>

ServerRefuses(e) ==
    /\ Event
    /\ Serving
    /\ closing' = e
    /\ up' = Tail(up)
    /\ refused' = IF e = "permanent" /\ Head(up) # Hello
                  THEN refused \cup {Head(up).write} ELSE refused
    /\ UNCHANGED <<authVars, asked, user, network, pipeline, appVars,
                   streamVars, diskVars, creds, down, behind, committed, last,
                   issued, told>>

\* Of the responses on their way only the first n arrive.
ConnectionLost ==
    /\ Event
    /\ stream = "Open"
    /\ closing = "ok"
    /\ closing' = "unavailable"
    /\ \E n \in 0..Len(down) : down' = SubSeq(down, 1, n)
    /\ UNCHANGED <<authVars, asked, user, network, pipeline, appVars,
                   streamVars, diskVars, creds, up, behind, serverVars,
                   issued, told>>

-----------------------------------------------------------------------------
Worker ==
    \/ HandleCredentialChange \/ IgnoreCredentials \/ OpenStream
    \/ RequestFails \/ BackoffElapses \/ HandshakeCompletes
    \/ MutationResult \/ StreamFinishes

Server == ServerGreets \/ ServerCommits

Auth == \E r \in asked : TakeUp(r) \/ TokenArrives(r)

Next ==
    \/ Write \/ WaitForPendingWrites \/ EnableNetwork \/ DisableNetwork
    \/ Restart \/ IdleElapses \/ RunMainQueue \/ Worker \/ Server \/ Auth
    \/ \E u \in Users : SignIn(u)
    \/ \E r \in asked : TokenFails(r)
    \/ \E e \in Error : ServerRefuses(e)
    \/ ConnectionLost

Spec == Init /\ [][Next]_vars

(* The worker queue, the main queue and FIRAuth's queue run what they have *)
(* to run, timers elapse and a server that is reachable answers.           *)
Fairness == WF_vars(Worker) /\ WF_vars(Server) /\ WF_vars(RunMainQueue)
                /\ WF_vars(Auth)

FairSpec == Spec /\ Fairness

-----------------------------------------------------------------------------
(* Properties.                                                             *)

Callback == [user : Users, id : Nat, write : Nat]
Waiter   == [awaits : Nat, writes : SUBSET (1..MaxWrites)]
Block    == [kind : {"user"}, user : Users]
                \cup [kind : {"token"}, counter : Nat, closes : Nat,
                      owner : Users, status : Error \cup {"ok"}]

\* The types of the variables.
TypeOK ==
    /\ authUser \in Users /\ user \in Users
    /\ counter \in Nat /\ closes \in Nat /\ nextId \in Nat
    /\ asked \subseteq Request
    /\ mainQueue \in Seq(Block)
    /\ inbox \in Seq(Task)
    /\ network \in BOOLEAN /\ handshake \in BOOLEAN /\ idle \in BOOLEAN
    /\ behind \in BOOLEAN
    /\ pipeline \in Seq(Batch)
    /\ callbacks \subseteq Callback
    /\ waiters \subseteq Waiter
    /\ stream \in {"Initial", "Starting", "Open", "Backoff", "Error"}
    /\ token \in Users \cup {Nobody} /\ creds \in Users \cup {Nobody}
    /\ queue \in [Users -> Seq(Batch)]
    /\ saved \in [Users -> Users \cup {Nobody}]
    /\ up \in Seq(Batch) /\ down \in Seq(Batch)
    /\ closing \in Error \cup {"ok"}
    /\ committed \subseteq 1..MaxWrites /\ refused \subseteq 1..MaxWrites
    /\ last \in [Users -> 0..MaxWrites]
    /\ issued \in Seq(Users) /\ Len(issued) <= MaxWrites
    /\ told \in [1..MaxWrites -> {"nothing", "ok", "failed"}]
    /\ events \in 0..MaxEvents

(* The pipeline holds the oldest batches of the signed-in user's queue, as *)
(* many as it has room for, whatever user changes, errors and restarts     *)
(* there were; with the network off it is empty.                           *)
PipelineIsOldest ==
    pipeline = IF network THEN Fill(<< >>, queue[user]) ELSE << >>

(* Answers carry no name; they are right because what has been sent and    *)
(* not answered is at every moment the pipeline.                           *)
AnswersMatch ==
    stream = "Open" =>
        IF closing = "ok"
        THEN down \o up = IF handshake THEN pipeline ELSE <<Hello>>
        ELSE /\ handshake => /\ Len(down) <= Len(pipeline)
                             /\ down = SubSeq(pipeline, 1, Len(down))
             /\ ~handshake => down \in {<< >>, <<Hello>>}

\* The pipeline is at every moment what it has to be, seen from the disk and
\* from the stream.
PipelineIsRight == PipelineIsOldest /\ AnswersMatch

(* As long as there is something in the pipeline the stream is on its way: *)
(* no handler forgets to start it again.                                   *)
NeverStalls == pipeline # << >> => IsStarted(stream)

(* The assertions of the client (HARD_ASSERT): the stream is only idle     *)
(* while nothing is to be sent; credentials answer a stream that is        *)
(* starting, with no handshake behind it, and are not those of a user who  *)
(* is gone; a result finds its batch, first in the queue on disk.          *)
AssertionsHold ==
    /\ idle => stream = "Open" /\ pipeline = << >>
    /\ Current => /\ stream = "Starting" /\ ~handshake
                  /\ Head(inbox).status # "aborted"
    /\ stream = "Open" /\ handshake /\ down # << >> =>
           /\ pipeline # << >>
           /\ queue[user] # << >>
           /\ Head(queue[user]) = Head(pipeline)

\* Every handler leaves the stream as the pipeline wants it.
StreamIsRight == NeverStalls /\ AssertionsHold

(* Nothing is written on behalf of another user: the open stream has the   *)
(* credentials of the user whose queue it sends, the stream token kept     *)
(* with a queue is of that user's streams, and the server has seen each    *)
(* write from the user who made it.                                        *)
OneIdentity ==
    /\ stream = "Open" => creds = user
    /\ \A u \in Users : saved[u] \in {Nobody, u}
    /\ network => token \in {Nobody, user}
    /\ \A u \in Users : last[u] # 0 => issued[last[u]] = u

(* Every callback has its batch in the queue, and its own: batch ids are   *)
(* given anew after each start and user change, but never to a batch whose *)
(* id somebody still waits for.                                            *)
CallbacksMatch ==
    /\ \A c \in callbacks :
           [id |-> c.id, write |-> c.write] \in
               {queue[c.user][i] : i \in 1..Len(queue[c.user])}
    /\ \A x \in waiters :
           \E i \in 1..Len(queue[user]) : queue[user][i].id = x.awaits

(* waitForPendingWrites answers when everything that was pending at the    *)
(* call has left the queue, not before.                                    *)
WaitersAreRight ==
    [][\A x \in waiters \ waiters' :
          user' = user /\ ~Restart =>
              \A i \in 1..Len(queue'[user]) : queue'[user][i].write \notin x.writes]_vars

\* Callbacks are called for their own batch, and no sooner than it is done.
CallbacksAreRight == []CallbacksMatch /\ WaitersAreRight

Queued(w) == \E u \in Users : \E i \in 1..Len(queue[u]) : queue[u][i].write = w

\* A write leaves the disk only when the server has dealt with it.
NothingDropped ==
    \A w \in 1..Len(issued) : Queued(w) \/ w \in committed \cup refused

(* A write reported as a success has been applied, and neither it nor a    *)
(* later write of its user is ever undone by an older one sent again.      *)
SuccessIsTrue ==
    \A w \in 1..Len(issued) :
        told[w] = "ok" => w \in committed /\ last[issued[w]] >= w

\* No write is lost, and none is reported to have been made that was not.
WritesAreKept == NothingDropped /\ SuccessIsTrue

(* A write reported as failed was refused: "the request itself was the     *)
(* problem".  It does not hold, see StreamFinishes.                        *)
FailureIsTrue == \A w \in 1..Len(issued) : told[w] = "failed" => w \in refused

(* With the network on in the end, the queue of the user signed in empties *)
(* and everybody who waits for one of its writes is called.                *)
Drains ==
    <>[]network => <>[](/\ queue[user] = << >>
                        /\ waiters = {}
                        /\ \A c \in callbacks : c.user # user)

\* The client keeps what WriteLedger promises.
Ledger == INSTANCE WriteLedger
LedgerSpec == Ledger!Spec
=============================================================================
