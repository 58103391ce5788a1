------------------------- MODULE WriteLedger_proofs -------------------------
(***************************************************************************)
(* What the write side of the Firestore client promises the app, for any   *)
(* users and any number of writes: it implements WriteLedger, acts for no  *)
(* other user, and calls the app's callbacks rightly.                      *)
(*                                                                         *)
(* To IndInv, which says where a write is, LedgerInv adds what has become  *)
(* of it: a write is queued or the server has dealt with it, the responses *)
(* on their way are true of the front of the queue, and what the app has   *)
(* been told of is no longer queued.                                       *)
(***************************************************************************)
EXTENDS WritePipeline_proofs

-----------------------------------------------------------------------------
(* The second invariant.                                                   *)

\* The server has seen each user's last write from that user.
Seen == \A u \in Users : last[u] # 0 => /\ last[u] \in 1..Len(issued)
                                        /\ issued[last[u]] = u

\* What a response on its way says is true: the first batches have been
\* applied, and the one after them was refused if the stream ends with that.
Done ==
    /\ handshake => \A i \in 1..Len(down) : /\ down[i].write \in committed
                                            /\ down[i].write <= last[user]
    /\ handshake /\ closing = "permanent" =>
           /\ Len(down) + 1 \in 1..Len(queue[user])
           /\ queue[user][Len(down) + 1].write \in refused
    /\ ~handshake /\ closing = "permanent" => down = << >>

\* The app has been told of writes that are no longer queued, and with a
\* success only when all that its user still has queued is newer.
Told ==
    \A w \in 1..MaxWrites :
        /\ told[w] # "nothing" => w \in 1..Len(issued) /\ ~Queued(w)
        /\ told[w] = "ok" =>
               /\ w \in committed /\ last[issued[w]] >= w
               /\ \A i \in 1..Len(queue[issued[w]]) : queue[issued[w]][i].write > w

\* What somebody waits for has no id greater than the one that is awaited.
Awaited ==
    \A x \in waiters :
        /\ x.writes \subseteq 1..Len(issued)
        /\ \A i \in 1..Len(queue[user]) :
               queue[user][i].write \in x.writes => queue[user][i].id <= x.awaits

\* The second invariant, beside IndInv.
LedgerInv == Seen /\ NothingDropped /\ Done /\ Told /\ CallbacksMatch /\ Awaited

\* The step that WaitersAreRight asks for.
WaitStep ==
    \A x \in waiters \ waiters' :
        user' = user /\ ~Restart =>
            \A i \in 1..Len(queue'[user]) : queue'[user][i].write \notin x.writes

\* A step of the ledger, or none.
LedgerStep == Ledger!Next \/ UNCHANGED <<issued, committed, refused, told>>

\* What has to be shown of every step.
Faithful == LedgerInv' /\ WaitStep /\ LedgerStep

-----------------------------------------------------------------------------
(* Steps that leave the queues alone.                                      *)

\* In a queue neither an id nor a write is there twice.
LEMMA OneBatch ==
    ASSUME NEW q \in Seq(Batch), Grows(q),
           NEW i \in 1..Len(q), NEW j \in 1..Len(q)
    PROVE  /\ q[i].id = q[j].id => i = j
           /\ q[i].id <= q[j].id => i <= j
           /\ q[i].write = q[j].write => i = j
           /\ q[i].write < q[j].write => i < j
<1>1. Len(q) \in Nat /\ i \in Nat /\ j \in Nat
  OBVIOUS
<1>2. /\ q[i].id \in Nat /\ q[j].id \in Nat
      /\ q[i].write \in Nat /\ q[j].write \in Nat
  BY BatchFacts
<1>3. /\ i < j => q[i].id < q[j].id /\ q[i].write < q[j].write
      /\ j < i => q[j].id < q[i].id /\ q[j].write < q[i].write
  BY DEF Grows
<1>4. i < j \/ j < i \/ i = j
  BY <1>1
<1>5. CASE i < j
  BY <1>1, <1>2, <1>3, <1>5
<1>6. CASE j < i
  BY <1>1, <1>2, <1>3, <1>6
<1>7. CASE i = j
  BY <1>1, <1>2, <1>7
<1> QED
  BY <1>4, <1>5, <1>6, <1>7

\* Nothing that the ledger or a callback is about changes.
LEMMA QuietStep ==
    ASSUME LedgerInv, Done',
           UNCHANGED <<issued, queue, user, callbacks, waiters, last, told,
                       committed, refused>>
    PROVE  Faithful
<1>1. Seen' /\ NothingDropped' /\ Told' /\ CallbacksMatch' /\ Awaited'
  BY DEF LedgerInv, Seen, NothingDropped, Queued, Told, CallbacksMatch, Awaited
<1>2. WaitStep /\ LedgerStep
  BY DEF WaitStep, LedgerStep
<1> QED
  BY <1>1, <1>2 DEF LedgerInv, Faithful

\* Done depends on the responses, the queue and the server alone.
LEMMA SameAnswers ==
    ASSUME Done, UNCHANGED <<handshake, down, closing, queue, user, committed,
                             refused, last>>
    PROVE  Done'
BY DEF Done

\* Without a handshake no response is due.
LEMMA NoAnswers ==
    ASSUME handshake' = FALSE, closing' # "permanent"
    PROVE  Done'
BY DEF Done

\* The app's other calls, FIRAuth, the main queue and the network switch.
LEMMA OutsideSteps ==
    ASSUME LedgerInv,
           \/ EnableNetwork \/ DisableNetwork \/ IdleElapses \/ RunMainQueue
           \/ \E u \in Users : SignIn(u)
           \/ \E r \in asked : TakeUp(r) \/ TokenArrives(r) \/ TokenFails(r)
    PROVE  Faithful
<1>1. Done
  BY DEF LedgerInv
<1>2. CASE EnableNetwork
  <2>1. /\ UNCHANGED <<issued, queue, user, callbacks, waiters, last, told,
                       committed, refused>>
        /\ UNCHANGED <<handshake, down, closing>>
    BY <1>2 DEF EnableNetwork, appVars, diskVars, serverVars
  <2> QED
    BY <1>1, <2>1, SameAnswers, QuietStep
<1>3. CASE DisableNetwork \/ IdleElapses
  <2>1. /\ UNCHANGED <<issued, queue, user, callbacks, waiters, last, told,
                       committed, refused>>
        /\ handshake' = FALSE /\ closing' = "ok"
    BY <1>3 DEF DisableNetwork, IdleElapses, Stop, Disconnected,
       appVars, diskVars, serverVars
  <2> QED
    BY <2>1, NoAnswers, QuietStep
<1>4. CASE RunMainQueue
  <2>1. /\ UNCHANGED <<issued, queue, user, callbacks, waiters, last, told,
                       committed, refused>>
        /\ UNCHANGED <<handshake, down, closing>>
    BY <1>4 DEF RunMainQueue, appVars, diskVars, serverVars, streamVars, connVars
  <2> QED
    BY <1>1, <2>1, SameAnswers, QuietStep
<1>5. CASE \E u \in Users : SignIn(u)
  <2>1. /\ UNCHANGED <<issued, queue, user, callbacks, waiters, last, told,
                       committed, refused>>
        /\ UNCHANGED <<handshake, down, closing>>
    BY <1>5 DEF SignIn, appVars, diskVars, serverVars, streamVars, connVars
  <2> QED
    BY <1>1, <2>1, SameAnswers, QuietStep
<1>6. CASE \E r \in asked : TakeUp(r) \/ TokenArrives(r) \/ TokenFails(r)
  <2>1. /\ UNCHANGED <<issued, queue, user, callbacks, waiters, last, told,
                       committed, refused>>
        /\ UNCHANGED <<handshake, down, closing>>
    BY <1>6 DEF TakeUp, TokenArrives, TokenFails, AnswerToken,
       appVars, diskVars, serverVars, streamVars, connVars
  <2> QED
    BY <1>1, <2>1, SameAnswers, QuietStep
<1> QED
  BY <1>2, <1>3, <1>4, <1>5, <1>6

\* A stream that is being opened, or was lost before it was.
LEMMA OpeningSteps ==
    ASSUME IndInv, LedgerInv,
           \/ IgnoreCredentials \/ OpenStream \/ RequestFails
           \/ BackoffElapses \/ HandshakeCompletes \/ ServerGreets
           \/ ConnectionLost
    PROVE  Faithful
<1>1. Done /\ TypeOK /\ Stored /\ Piped /\ Started /\ Connected /\ Sent /\ Credentials
  BY DEF LedgerInv, IndInv
<1>2. CASE IgnoreCredentials \/ BackoffElapses
  <2>1. /\ UNCHANGED <<issued, queue, user, callbacks, waiters, last, told,
                       committed, refused>>
        /\ UNCHANGED <<handshake, down, closing>>
    BY <1>2 DEF IgnoreCredentials, BackoffElapses,
       appVars, diskVars, serverVars, streamVars, connVars
  <2> QED
    BY <1>1, <2>1, SameAnswers, QuietStep
<1>3. ASSUME Current PROVE stream = "Starting" /\ ~handshake /\ closing = "ok"
  <2>1. inbox # << >> /\ Answers(Head(inbox), closes)
    BY <1>3 DEF Current, Answered, Answers
  <2>2. stream = "Starting"
    BY <1>1, <2>1, AuthTypes, AuthHead DEF Credentials
  <2> QED
    BY <1>1, <2>2 DEF Connected
<1>4. CASE OpenStream
  <2>1. Current
    BY <1>4 DEF OpenStream
  <2>2. /\ UNCHANGED <<issued, queue, user, callbacks, waiters, last, told,
                       committed, refused>>
        /\ UNCHANGED <<handshake, closing>>
    BY <1>4 DEF OpenStream, appVars, diskVars, serverVars
  <2>3. handshake' = FALSE /\ closing' # "permanent"
    BY <1>1, <1>3, <2>1, <2>2 DEF TypeOK
  <2> QED
    BY <2>2, <2>3, NoAnswers, QuietStep
<1>5. CASE RequestFails
  <2>1. Current /\ OnStreamFinish(Head(inbox).status)
    BY <1>5 DEF RequestFails
  <2>2. ~handshake
    BY <1>3, <2>1
  <2>3. /\ UNCHANGED <<issued, queue, user, callbacks, waiters, last, told,
                       committed, refused>>
        /\ handshake' = FALSE /\ closing' = "ok"
    BY <2>1, <2>2 DEF OnStreamFinish, Disconnected, serverVars
  <2> QED
    BY <2>3, NoAnswers, QuietStep
<1>6. CASE HandshakeCompletes
  <2>1. /\ UNCHANGED <<issued, queue, user, callbacks, waiters, last, told,
                       committed, refused>>
        /\ ~handshake /\ down # << >> /\ down' = Tail(down) /\ closing' = closing
        /\ stream = "Open"
    BY <1>6 DEF HandshakeCompletes, appVars, serverVars
  <2>2. down = <<Hello>>
    BY <1>1, <2>1 DEF Sent, Greeting
  <2>3. down' = << >> /\ Len(down') = 0
    BY <2>1, <2>2
  <2>4. closing' # "permanent"
    BY <1>1, <2>1 DEF Done
  <2>5. Done'
    BY <2>3, <2>4 DEF Done
  <2> QED
    BY <2>1, <2>5, QuietStep
<1>7. CASE ServerGreets
  <2>1. /\ UNCHANGED <<issued, queue, user, callbacks, waiters, last, told,
                       committed, refused>>
        /\ Serving /\ Head(up) = Hello /\ UNCHANGED <<handshake, closing>>
    BY <1>7 DEF ServerGreets, appVars, diskVars, serverVars, streamVars
  <2>2. ~handshake /\ closing = "ok"
    BY <1>1, <2>1, ServerHead
  <2>3. handshake' = FALSE /\ closing' # "permanent"
    BY <1>1, <2>1, <2>2 DEF TypeOK
  <2> QED
    BY <2>1, <2>3, NoAnswers, QuietStep
<1>8. CASE ConnectionLost
  <2>1. /\ UNCHANGED <<issued, queue, user, callbacks, waiters, last, told,
                       committed, refused>>
        /\ closing' = "unavailable" /\ handshake' = handshake
        /\ \E n \in 0..Len(down) : down' = SubSeq(down, 1, n)
    BY <1>8 DEF ConnectionLost, appVars, diskVars, serverVars, streamVars
  <2>2. PICK n \in 0..Len(down) : down' = SubSeq(down, 1, n)
    BY <2>1
  <2>3. down \in Seq(Batch)
    BY <1>1 DEF TypeOK
  <2>4. /\ Len(down') = n /\ \A i \in 1..n : down'[i] = down[i]
        /\ \A i \in 1..n : i \in 1..Len(down)
    BY <2>2, <2>3
  <2>5. Done'
    BY <1>1, <2>1, <2>4 DEF Done
  <2> QED
    BY <2>1, <2>5, QuietStep
<1> QED
  BY <1>2, <1>4, <1>5, <1>6, <1>7, <1>8

-----------------------------------------------------------------------------
(* Waiting, restarts and other users.                                      *)

\* The queues are what they were; callbacks and waiters may be forgotten.
LEMMA ForgetfulStep ==
    ASSUME LedgerInv, handshake' = FALSE, closing' # "permanent",
           UNCHANGED <<issued, queue, last, told, committed, refused>>,
           callbacks' \subseteq callbacks,
           \/ waiters' = {} /\ (Restart \/ user' # user)
           \/ waiters' = waiters /\ user' = user
    PROVE  Faithful
<1>1. Seen' /\ NothingDropped' /\ Told' /\ Done'
  <2>1. Seen' /\ NothingDropped'
    BY DEF LedgerInv, Seen, NothingDropped, Queued
  <2>2. Told'
    BY DEF LedgerInv, Queued, Told
  <2> QED
    BY <2>1, <2>2, NoAnswers
<1>2. CallbacksMatch'
  BY DEF LedgerInv, CallbacksMatch
<1>3. Awaited'
  BY DEF LedgerInv, Awaited
<1>4. WaitStep
  BY DEF WaitStep
<1>5. LedgerStep
  BY DEF LedgerStep
<1> QED
  BY <1>1, <1>2, <1>3, <1>4, <1>5 DEF LedgerInv, Faithful

\* The process ends and starts again.
LEMMA RestartStep ==
    ASSUME LedgerInv, Restart
    PROVE  Faithful
<1>1. /\ UNCHANGED <<issued, queue, last, told, committed, refused>>
      /\ callbacks' \subseteq callbacks /\ waiters' = {}
      /\ handshake' = FALSE /\ closing' # "permanent"
  BY DEF Restart, Disconnected, serverVars
<1> QED
  BY <1>1, ForgetfulStep

\* The client takes up another user.
LEMMA UserChangeStep ==
    ASSUME IndInv, LedgerInv, HandleCredentialChange
    PROVE  Faithful
<1>1. /\ UNCHANGED <<issued, queue, last, told, committed, refused, callbacks>>
      /\ \/ waiters' = {} /\ user' # user
         \/ waiters' = waiters /\ user' = user
  BY DEF HandleCredentialChange, serverVars
<1>2. handshake' = FALSE /\ closing' # "permanent"
  <2>1. CASE network
    BY <2>1 DEF HandleCredentialChange, Stop, Disconnected
  <2>2. CASE ~network
    <3>1. stream # "Open"
      BY <2>2 DEF IndInv, Started, IsStarted
    <3>2. handshake = FALSE /\ closing = "ok"
      BY <3>1 DEF IndInv, Connected, TypeOK
    <3> QED
      BY <2>2, <3>2 DEF HandleCredentialChange, connVars
  <2> QED
    BY <2>1, <2>2
<1> QED
  BY <1>1, <1>2, ForgetfulStep

\* The app waits for what is queued, all of it.
LEMMA WaitForStep ==
    ASSUME IndInv, LedgerInv, WaitForPendingWrites
    PROVE  Faithful
<1> DEFINE q == queue[user]
           y == [awaits |-> Highest(q), writes |-> {q[i].write : i \in 1..Len(q)}]
<1>1. /\ q # << >> /\ waiters' = waiters \cup {y}
      /\ UNCHANGED <<issued, queue, user, callbacks, last, told,
                     committed, refused>>
      /\ UNCHANGED <<handshake, down, closing>>
  BY DEF WaitForPendingWrites, diskVars, serverVars, streamVars, connVars
<1>2. /\ q \in Seq(Batch) /\ Len(q) \in Nat /\ Grows(q)
      /\ \A i \in 1..Len(q) : q[i].write \in 1..Len(issued)
  <2>1. TypeOK /\ Stored /\ user \in Users
    BY DEF IndInv, TypeOK
  <2> QED
    BY <2>1, QueueTypes
<1>3. Len(q) \in 1..Len(q)
  <2>1. Len(q) # 0
    BY <1>1, <1>2, EmptyLen
  <2> QED
    BY <1>2, <2>1
<1> HIDE DEF q
<1>4. y.awaits = q[Len(q)].id /\ y.writes = {q[i].write : i \in 1..Len(q)}
  BY DEF Highest
<1>5. \A i \in 1..Len(q) : q[i].id <= q[Len(q)].id
  <2> SUFFICES ASSUME NEW i \in 1..Len(q) PROVE q[i].id <= q[Len(q)].id
    OBVIOUS
  <2>1. CASE i < Len(q)
    <3>1. q[i].id < q[Len(q)].id
      BY <1>2, <1>3, <2>1 DEF Grows
    <3>2. q[i].id \in Nat /\ q[Len(q)].id \in Nat
      BY <1>2, <1>3, BatchFacts
    <3> QED
      BY <3>1, <3>2
  <2>2. CASE i = Len(q)
    <3>1. q[i].id \in Nat
      BY <1>2, BatchFacts
    <3> QED
      BY <2>2, <3>1
  <2> QED
    BY <1>2, <2>1, <2>2
<1> HIDE DEF y
<1>6. y.writes \subseteq 1..Len(issued)
  BY <1>2, <1>4
<1>7. Seen' /\ NothingDropped' /\ Told' /\ Done'
  BY <1>1, SameAnswers DEF LedgerInv, Seen, NothingDropped, Queued, Told
<1>8. CallbacksMatch'
  <2>1. \A x \in waiters' : \E i \in 1..Len(q) : q[i].id = x.awaits
    BY <1>1, <1>3, <1>4 DEF LedgerInv, CallbacksMatch, q
  <2>2. q = queue'[user']
    BY <1>1 DEF q
  <2> QED
    BY <1>1, <2>1, <2>2 DEF LedgerInv, CallbacksMatch
<1>9. Awaited'
  <2>1. ASSUME NEW x \in waiters'
        PROVE  /\ x.writes \subseteq 1..Len(issued)
               /\ \A i \in 1..Len(q) : q[i].write \in x.writes => q[i].id <= x.awaits
    <3>1. CASE x \in waiters
      BY <3>1 DEF LedgerInv, Awaited, q
    <3>2. CASE x = y
      BY <1>4, <1>5, <1>6, <3>2
    <3> QED
      BY <1>1, <3>1, <3>2
  <2>2. q = queue'[user']
    BY <1>1 DEF q
  <2> QED
    BY <1>1, <2>1, <2>2 DEF Awaited
<1>10. WaitStep /\ LedgerStep
  BY <1>1 DEF WaitStep, LedgerStep
<1> QED
  BY <1>7, <1>8, <1>9, <1>10 DEF LedgerInv, Faithful

\* A new write: it is told of nothing yet, and is queued last.
LEMMA WriteStep ==
    ASSUME PipelineAssumption, IndInv, LedgerInv, Write
    PROVE  Faithful
<1> DEFINE w == Len(issued) + 1
           b == [id |-> nextId, write |-> w]
           r == Append(queue[user], b)
<1>1. /\ TypeOK /\ Stored /\ user \in Users /\ issued \in Seq(Users)
      /\ Len(issued) \in Nat /\ MaxWrites \in Nat
      /\ queue \in [Users -> Seq(Batch)]
  <2>1. TypeOK /\ Stored
    BY DEF IndInv
  <2>2. user \in Users /\ issued \in Seq(Users) /\ queue \in [Users -> Seq(Batch)]
    BY <2>1 DEF TypeOK
  <2>3. MaxWrites \in Nat
    BY DEF PipelineAssumption
  <2> QED
    BY <2>1, <2>2, <2>3
<1>2. /\ w <= MaxWrites /\ issued' = Append(issued, user)
      /\ queue' = [queue EXCEPT ![user] = r]
      /\ callbacks' \subseteq callbacks \cup
             {[user |-> user, id |-> nextId, write |-> w]}
      /\ UNCHANGED <<user, waiters, handshake, down, closing, committed, last,
                     refused, told>>
  BY DEF Write, serverVars
<1>3. /\ Len(issued') = w /\ issued'[w] = user
      /\ \A v \in 1..Len(issued) : issued'[v] = issued[v]
  BY <1>1, <1>2, AppendFacts
<1>4. /\ r \in Seq(Batch) /\ Grows(r) /\ Prefix(queue[user], r)
      /\ Len(r) = Len(queue[user]) + 1 /\ r[Len(r)] = b
  BY <1>1, AppendGrows
<1>5. /\ queue'[user] = r
      /\ \A u \in Users \ {user} : queue'[u] = queue[u]
  <2> HIDE DEF r
  <2> QED
    BY <1>1, <1>2
<1>6. /\ w \in Nat /\ w \notin 1..Len(issued)
      /\ \A v \in 1..Len(issued) : v \in 1..w
      /\ \A v \in 1..w : v \in 1..Len(issued) \/ v = w
      /\ w \in 1..MaxWrites
  BY <1>1, <1>2
<1>7. b.id = nextId /\ b.write = w
  OBVIOUS
<1> HIDE DEF w, b, r
<1>8. /\ Len(queue[user]) \in Nat
      /\ \A i \in 1..Len(queue[user]) : i \in 1..Len(r) /\ r[i] = queue[user][i]
      /\ \A i \in 1..Len(r) : i \in 1..Len(queue[user]) \/ i = Len(r)
      /\ Len(r) \in 1..Len(r)
  <2>1. Len(queue[user]) \in Nat
    BY <1>1
  <2> QED
    BY <1>4, <2>1 DEF Prefix
\* Whose queue it is, what was queued is in the same place.
<1>9. ASSUME NEW u \in Users, NEW i \in 1..Len(queue[u])
      PROVE  i \in 1..Len(queue'[u]) /\ queue'[u][i] = queue[u][i]
  <2>1. CASE u = user
    BY <1>5, <1>8, <2>1
  <2>2. CASE u # user
    BY <1>5, <2>2
  <2> QED
    BY <2>1, <2>2
<1>10. ASSUME NEW u \in Users, NEW i \in 1..Len(queue'[u])
       PROVE  \/ i \in 1..Len(queue[u]) /\ queue'[u][i] = queue[u][i]
              \/ u = user /\ queue'[u][i] = b
  <2>1. CASE u = user
    BY <1>4, <1>5, <1>8, <2>1
  <2>2. CASE u # user
    BY <1>5, <2>2
  <2> QED
    BY <2>1, <2>2
<1>11. Seen'
  <2>1. \A u \in Users : last[u] # 0 =>
            /\ last[u] \in 1..w /\ issued'[last[u]] = u
    BY <1>3, <1>6 DEF LedgerInv, Seen
  <2> QED
    BY <1>2, <1>3, <2>1 DEF Seen
<1>12. NothingDropped'
  <2>1. ASSUME NEW v \in 1..w
        PROVE  \/ \E u \in Users : \E i \in 1..Len(queue'[u]) : queue'[u][i].write = v
               \/ v \in committed \cup refused
    <3>1. CASE v \in 1..Len(issued)
      <4>1. CASE v \in committed \cup refused
        BY <4>1
      <4>2. CASE \E u \in Users : \E i \in 1..Len(queue[u]) : queue[u][i].write = v
        BY <1>9, <4>2
      <4> QED
        BY <3>1, <4>1, <4>2 DEF LedgerInv, NothingDropped, Queued
    <3>2. CASE v = w
      <4>1. Len(r) \in 1..Len(queue'[user]) /\ queue'[user][Len(r)].write = v
        BY <1>4, <1>5, <1>7, <1>8, <3>2
      <4> QED
        BY <1>1, <4>1
    <3> QED
      BY <1>6, <3>1, <3>2
  <2> QED
    BY <1>2, <1>3, <2>1 DEF NothingDropped, Queued
<1>13. Done'
  <2>1. user' = user /\ closing' = closing /\ handshake' = handshake /\ down' = down
    BY <1>2
  <2>2. ASSUME handshake, closing = "permanent"
        PROVE  /\ Len(down) + 1 \in 1..Len(queue'[user])
               /\ queue'[user][Len(down) + 1].write \in refused
    BY <1>1, <1>9, <2>2 DEF LedgerInv, Done
  <2> QED
    BY <1>2, <2>1, <2>2 DEF LedgerInv, Done
<1>14. Told'
  <2>1. ASSUME NEW v \in 1..MaxWrites, told[v] # "nothing"
        PROVE  v \in 1..Len(issued) /\ v # w
               /\ \A u \in Users : \A i \in 1..Len(queue'[u]) : queue'[u][i].write # v
    <3>1. v \in 1..Len(issued) /\ ~Queued(v)
      BY <2>1 DEF LedgerInv, Told
    <3>2. v # w
      BY <1>6, <3>1
    <3>3. \A u \in Users : \A i \in 1..Len(queue'[u]) : queue'[u][i].write # v
      BY <1>7, <1>10, <3>1, <3>2 DEF Queued
    <3> QED
      BY <3>1, <3>2, <3>3
  <2>2. ASSUME NEW v \in 1..MaxWrites, told[v] = "ok"
        PROVE  /\ v \in committed /\ last[issued'[v]] >= v
               /\ \A i \in 1..Len(queue'[issued'[v]]) : queue'[issued'[v]][i].write > v
    <3>1. /\ v \in 1..Len(issued) /\ v \in committed /\ last[issued[v]] >= v
          /\ \A i \in 1..Len(queue[issued[v]]) : queue[issued[v]][i].write > v
      BY <2>2 DEF LedgerInv, Told
    <3>2. issued'[v] = issued[v] /\ issued[v] \in Users
      BY <1>1, <1>3, <3>1
    <3>3. w > v
      BY <1>1, <3>1 DEF w
    <3>4. ASSUME NEW i \in 1..Len(queue'[issued[v]])
          PROVE  queue'[issued[v]][i].write > v
      BY <1>7, <1>10, <3>1, <3>2, <3>3
    <3> QED
      BY <3>1, <3>2, <3>4
  <2> QED
    BY <1>2, <1>3, <1>6, <2>1, <2>2 DEF Told, Queued
<1>15. CallbacksMatch'
  <2>1. ASSUME NEW c \in callbacks'
        PROVE  [id |-> c.id, write |-> c.write] \in
                   {queue'[c.user][i] : i \in 1..Len(queue'[c.user])}
    <3>1. CASE c \in callbacks
      <4>1. c.user \in Users
        BY <1>1, <3>1 DEF TypeOK, Callback
      <4>2. PICK i \in 1..Len(queue[c.user]) :
                     queue[c.user][i] = [id |-> c.id, write |-> c.write]
        BY <3>1 DEF LedgerInv, CallbacksMatch
      <4> QED
        BY <1>9, <4>1, <4>2
    <3>2. CASE c = [user |-> user, id |-> nextId, write |-> w]
      <4>1. c.user = user /\ [id |-> c.id, write |-> c.write] = b
        BY <3>2 DEF b
      <4>2. Len(r) \in 1..Len(queue'[user]) /\ queue'[user][Len(r)] = b
        BY <1>4, <1>5, <1>8
      <4> QED
        BY <4>1, <4>2
    <3> QED
      BY <1>2, <3>1, <3>2
  <2>2. ASSUME NEW x \in waiters
        PROVE  \E i \in 1..Len(queue'[user]) : queue'[user][i].id = x.awaits
    <3>1. PICK i \in 1..Len(queue[user]) : queue[user][i].id = x.awaits
      BY DEF LedgerInv, CallbacksMatch
    <3> QED
      BY <1>1, <1>9, <3>1
  <2> QED
    BY <1>2, <2>1, <2>2 DEF CallbacksMatch
<1>16. Awaited'
  <2>1. ASSUME NEW x \in waiters
        PROVE  /\ x.writes \subseteq 1..w
               /\ \A i \in 1..Len(queue'[user]) :
                      queue'[user][i].write \in x.writes => queue'[user][i].id <= x.awaits
    <3>1. /\ x.writes \subseteq 1..Len(issued)
          /\ \A i \in 1..Len(queue[user]) :
                 queue[user][i].write \in x.writes => queue[user][i].id <= x.awaits
      BY DEF LedgerInv, Awaited
    <3>2. w \notin x.writes
      BY <1>6, <3>1
    <3>3. x.writes \subseteq 1..w
      BY <1>6, <3>1
    <3>4. ASSUME NEW i \in 1..Len(queue'[user]), queue'[user][i].write \in x.writes
          PROVE  queue'[user][i].id <= x.awaits
      <4>1. queue'[user][i] # b
        BY <1>7, <3>2, <3>4
      <4>2. i \in 1..Len(queue[user]) /\ queue'[user][i] = queue[user][i]
        BY <1>1, <1>10, <4>1
      <4> QED
        BY <3>1, <3>4, <4>2
    <3> QED
      BY <3>3, <3>4
  <2> QED
    BY <1>2, <1>3, <2>1 DEF Awaited
<1>17. WaitStep
  BY <1>2 DEF WaitStep
<1>18. LedgerStep
  <2>1. Len(issued) < MaxWrites
    BY <1>1, <1>2 DEF w
  <2>2. Ledger!Issue(user)
    BY <1>2, <2>1 DEF Ledger!Issue
  <2> QED
    BY <1>1, <2>2 DEF LedgerStep, Ledger!Next
<1> QED
  BY <1>11, <1>12, <1>13, <1>14, <1>15, <1>16, <1>17, <1>18 DEF LedgerInv, Faithful

-----------------------------------------------------------------------------
(* The server.                                                             *)

\* What the server takes next is due: all that its user wrote before has been
\* answered, or was before this stream.
LEMMA NextIsDue ==
    ASSUME IndInv, LedgerInv, Serving, handshake
    PROVE  /\ Head(up).write \in 1..Len(issued)
           /\ Ledger!Due(Head(up).write)
<1> DEFINE n == Len(down) + 1
           w == Head(up).write
<1>1. TypeOK /\ Stored /\ Piped /\ Started /\ Connected /\ Sent
  BY DEF IndInv
<1>2. /\ user \in Users /\ down \in Seq(Batch) /\ Len(down) \in Nat
      /\ OnTheWay(down, up, pipeline) /\ network
      /\ n \in 1..Len(pipeline) /\ n \in 1..Len(queue[user])
      /\ w = queue[user][n].write
      /\ w \in 1..Len(issued) /\ issued[w] = user
  <2>1. user \in Users /\ down \in Seq(Batch)
    BY <1>1, ServerHead
  <2>2. Len(down) \in Nat
    BY <2>1
  <2> QED
    BY <1>1, <2>1, <2>2, ServerHead
<1>3. /\ queue[user] \in Seq(Batch) /\ Grows(queue[user]) /\ Len(issued) \in Nat
      /\ Prefix(pipeline, queue[user]) /\ Len(pipeline) \in Nat
      /\ \A u \in Users : \A i \in 1..Len(queue[u]) : issued[queue[u][i].write] = u
  BY <1>1, <1>2, QueueTypes, PipeTypes
<1> HIDE DEF w, n
<1>4. ASSUME NEW v \in 1..(w - 1), issued[v] = issued[w]
      PROVE  v \in committed \cup refused
  <2>1. v \in 1..Len(issued) /\ v < w
    BY <1>2, <1>3
  <2>2. CASE v \in committed \cup refused
    BY <2>2
  <2>3. CASE \E u \in Users : \E i \in 1..Len(queue[u]) : queue[u][i].write = v
    <3>0. PICK u \in Users : \E i \in 1..Len(queue[u]) : queue[u][i].write = v
      BY <2>3
    <3>1. PICK i \in 1..Len(queue[u]) : queue[u][i].write = v
      BY <3>0
    <3>2. u = user
      BY <1>2, <1>3, <1>4, <3>1
    <3>3. i < n
      BY <1>2, <1>3, <2>1, <3>1, <3>2, OneBatch
    <3>4. i \in 1..Len(down) /\ i \in 1..Len(pipeline)
      BY <1>2, <1>3, <3>3 DEF n
    <3>5. down[i] = queue[user][i]
      BY <1>2, <1>3, <3>4 DEF OnTheWay, Prefix
    <3>6. down[i].write \in committed
      BY <3>4 DEF LedgerInv, Done
    <3> QED
      BY <3>1, <3>2, <3>5, <3>6
  <2> QED
    BY <2>1, <2>2, <2>3 DEF LedgerInv, NothingDropped, Queued
<1> QED
  BY <1>2, <1>4 DEF Ledger!Due, w

\* The server applies a write.
LEMMA CommitStep ==
    ASSUME IndInv, LedgerInv, ServerCommits
    PROVE  Faithful
<1> DEFINE n == Len(down) + 1
           w == Head(up).write
<1>1. TypeOK /\ Stored /\ Piped /\ Started /\ Connected /\ Sent
  BY DEF IndInv
<1>2. /\ Serving /\ Head(up) # Hello
      /\ up' = Tail(up) /\ down' = Append(down, Head(up))
      /\ committed' = committed \cup {w}
      /\ last' = [last EXCEPT ![creds] = w]
      /\ UNCHANGED <<issued, queue, user, callbacks, waiters, told, refused,
                     handshake, closing>>
  BY DEF ServerCommits, appVars, diskVars, streamVars
<1>3. /\ handshake /\ creds = user /\ user \in Users /\ closing = "ok"
      /\ down \in Seq(Batch) /\ up \in Seq(Batch) /\ up # << >>
      /\ OnTheWay(down, up, pipeline) /\ network
      /\ n \in 1..Len(pipeline) /\ n \in 1..Len(queue[user])
      /\ Head(up) = queue[user][n]
      /\ w \in 1..Len(issued) /\ issued[w] = user
  BY <1>1, <1>2, ServerHead
<1>4. /\ queue[user] \in Seq(Batch) /\ Grows(queue[user])
      /\ Prefix(pipeline, queue[user]) /\ Len(pipeline) \in Nat
  BY <1>1, <1>3, QueueTypes, PipeTypes
<1>5. /\ Len(down) \in Nat /\ Len(down') = Len(down) + 1
      /\ \A i \in 1..Len(down) : down'[i] = down[i]
      /\ down'[n] = Head(up)
  <2>1. Head(up) \in Batch
    BY <1>3, TailFacts
  <2> QED
    BY <1>2, <1>3, <2>1, AppendFacts
<1>6. Ledger!Due(w)
  BY <1>2, <1>3, NextIsDue
<1>7. /\ last' \in [Users -> Nat] /\ last'[user] = w
      /\ \A u \in Users \ {user} : last'[u] = last[u]
      /\ last \in [Users -> Nat]
  <2>1. w \in Nat
    BY <1>3
  <2> HIDE DEF w
  <2>2. last \in [Users -> Nat]
    <3>1. last \in [Users -> 0..MaxWrites]
      BY <1>1 DEF TypeOK
    <3> QED
      BY <3>1
  <2> QED
    BY <1>2, <1>3, <2>1, <2>2
<1> HIDE DEF n, w
<1>8. w \in Nat /\ w # 0
  BY <1>3
\* A write told as a success is older than what is still queued.
<1>9. ASSUME NEW v \in 1..MaxWrites, told[v] = "ok"
      PROVE  /\ v \in 1..Len(issued) /\ v \in committed /\ last'[issued[v]] >= v
             /\ \A i \in 1..Len(queue[issued[v]]) : queue[issued[v]][i].write > v
  <2>1. /\ v \in 1..Len(issued) /\ v \in committed /\ last[issued[v]] >= v
        /\ \A i \in 1..Len(queue[issued[v]]) : queue[issued[v]][i].write > v
    BY <1>9 DEF LedgerInv, Told
  <2>2. issued[v] \in Users
    BY <1>1, <2>1 DEF TypeOK
  <2>3. CASE issued[v] = user
    <3>1. w > v
      BY <1>3, <2>1, <2>3 DEF w
    <3>2. v \in Nat
      OBVIOUS
    <3> QED
      BY <1>7, <1>8, <2>1, <2>3, <3>1, <3>2
  <2>4. CASE issued[v] # user
    BY <1>7, <2>1, <2>2, <2>4
  <2> QED
    BY <2>3, <2>4
<1>10. Seen'
  <2>1. \A u \in Users : last'[u] # 0 => /\ last'[u] \in 1..Len(issued)
                                         /\ issued[last'[u]] = u
    BY <1>3, <1>7 DEF LedgerInv, Seen
  <2> QED
    BY <1>2, <2>1 DEF Seen
<1>11. NothingDropped'
  BY <1>2 DEF LedgerInv, NothingDropped, Queued
<1>12. Done'
  <2>1. ASSUME NEW i \in 1..Len(down')
        PROVE  down'[i].write \in committed' /\ down'[i].write <= last'[user]
    <3>1. CASE i \in 1..Len(down)
      <4>1. down'[i] = down[i] /\ down[i].write \in committed
        BY <1>3, <1>5, <3>1 DEF LedgerInv, Done
      <4>2. i \in 1..Len(pipeline) /\ i \in 1..Len(queue[user]) /\ i < n
        BY <1>3, <1>4, <1>5, <3>1 DEF n, Prefix
      <4>3. down[i] = queue[user][i]
        BY <1>3, <1>4, <3>1, <4>2 DEF OnTheWay, Prefix
      <4>4. queue[user][i].write < w
        BY <1>3, <1>4, <4>2 DEF Grows, w
      <4>5. queue[user][i].write \in Nat
        BY <1>4, <4>2, BatchFacts
      <4> QED
        BY <1>2, <1>7, <1>8, <4>1, <4>3, <4>4, <4>5
    <3>2. CASE i = n
      BY <1>2, <1>5, <1>7, <1>8, <3>2 DEF w
    <3> QED
      BY <1>5, <3>1, <3>2 DEF n
  <2>2. user' = user /\ closing' = "ok" /\ handshake' = handshake
    BY <1>2, <1>3
  <2> QED
    BY <1>3, <2>1, <2>2 DEF Done
<1>13. Told'
  <2>1. \A v \in 1..MaxWrites : told[v] # "nothing" =>
            v \in 1..Len(issued) /\ ~Queued(v)
    BY DEF LedgerInv, Told
  <2>2. \A v : Queued(v)' <=> Queued(v)
    BY <1>2 DEF Queued
  <2> QED
    BY <1>2, <1>9, <2>1, <2>2 DEF Told
<1>14. CallbacksMatch' /\ Awaited'
  BY <1>2 DEF LedgerInv, CallbacksMatch, Awaited
<1>15. WaitStep
  BY <1>2 DEF WaitStep
<1>16. LedgerStep
  <2>1. Ledger!Commit(w)
    BY <1>2, <1>6 DEF Ledger!Commit
  <2> QED
    BY <1>3, <2>1 DEF LedgerStep, Ledger!Next
<1> QED
  BY <1>10, <1>11, <1>12, <1>13, <1>14, <1>15, <1>16 DEF LedgerInv, Faithful

\* The server ends the stream.
LEMMA RefuseStep ==
    ASSUME IndInv, LedgerInv, NEW e \in Error, ServerRefuses(e)
    PROVE  Faithful
<1> DEFINE n == Len(down) + 1
           w == Head(up).write
<1>1. TypeOK /\ Stored /\ Piped /\ Started /\ Connected /\ Sent
  BY DEF IndInv
<1>2. /\ Serving /\ closing' = e
      /\ refused' = IF e = "permanent" /\ Head(up) # Hello
                    THEN refused \cup {w} ELSE refused
      /\ UNCHANGED <<issued, queue, user, callbacks, waiters, told, committed,
                     last, handshake, down>>
  BY DEF ServerRefuses, appVars, diskVars, streamVars
<1>3. /\ closing = "ok"
      /\ handshake => /\ n \in 1..Len(queue[user])
                      /\ Head(up) = queue[user][n] /\ Head(up) # Hello
      /\ ~handshake => down = << >> /\ Head(up) = Hello
  BY <1>1, <1>2, ServerHead
<1>4. handshake => w \in 1..Len(issued) /\ Ledger!Due(w)
  BY <1>2, NextIsDue
<1> HIDE DEF w, n
<1>5. refused \subseteq refused'
  BY <1>2
<1>6. Seen' /\ NothingDropped'
  BY <1>2, <1>5 DEF LedgerInv, Seen, NothingDropped, Queued
<1>7. Told'
  BY <1>2 DEF LedgerInv, Told, Queued
<1>8. Done'
  <2>1. ASSUME handshake, e = "permanent" PROVE queue[user][n].write \in refused'
    BY <1>2, <1>3, <2>1 DEF w
  <2> QED
    BY <1>2, <1>3, <2>1 DEF LedgerInv, Done, n
<1>9. CallbacksMatch' /\ Awaited'
  BY <1>2 DEF LedgerInv, CallbacksMatch, Awaited
<1>10. WaitStep
  BY <1>2 DEF WaitStep
<1>11. LedgerStep
  <2>1. CASE handshake /\ e = "permanent"
    <3>1. Ledger!Refuse(w)
      BY <1>2, <1>3, <1>4, <2>1 DEF Ledger!Refuse
    <3> QED
      BY <1>4, <2>1, <3>1 DEF LedgerStep, Ledger!Next
  <2>2. CASE ~(handshake /\ e = "permanent")
    BY <1>2, <1>3, <2>2 DEF LedgerStep
  <2> QED
    BY <2>1, <2>2
<1> QED
  BY <1>6, <1>7, <1>8, <1>9, <1>10, <1>11 DEF LedgerInv, Faithful

-----------------------------------------------------------------------------
(* Answers to the app.                                                     *)

\* The first batch has been dealt with: it leaves the queue and the app is told.
LEMMA SettleStep ==
    ASSUME PipelineAssumption, IndInv, LedgerInv, network, pipeline # << >>,
           NEW outcome \in {"ok", "failed"},
           Settle(Head(pipeline).id, outcome),
           UNCHANGED <<user, nextId, issued, committed, refused, last>>,
           Head(pipeline).write \in committed \cup refused,
           outcome = "ok" => /\ Head(pipeline).write \in committed
                             /\ Head(pipeline).write <= last[user],
           Done'
    PROVE  Faithful
<1> DEFINE q == queue[user]
           h == Head(pipeline)
           w == h.write
<1>1. TypeOK /\ Stored /\ Piped
  BY DEF IndInv
<1>2. /\ q # << >> /\ Head(q) = h
      /\ queue'[user] = Tail(q)
      /\ \A u \in Users \ {user} : queue'[u] = queue[u]
  BY <1>1, SettleFacts
<1>3. /\ user \in Users /\ q \in Seq(Batch) /\ Grows(q)
      /\ \A u \in Users : \A i \in 1..Len(queue[u]) :
             /\ queue[u][i].write \in 1..Len(issued)
             /\ issued[queue[u][i].write] = u
  <2>1. user \in Users
    BY <1>1 DEF TypeOK
  <2> QED
    BY <1>1, <2>1, QueueTypes
<1> HIDE DEF h, w, q
<1>4. /\ Len(q) \in Nat /\ 1 \in 1..Len(q) /\ q[1] = h
      /\ Len(Tail(q)) = Len(q) - 1
      /\ \A i \in 1..(Len(q) - 1) : Tail(q)[i] = q[i + 1]
  <2>1. /\ Head(q) = q[1] /\ Len(q) \in Nat /\ Len(q) > 0
        /\ Len(Tail(q)) = Len(q) - 1
        /\ \A i \in 1..(Len(q) - 1) : Tail(q)[i] = q[i + 1]
    BY <1>2, <1>3, TailFacts
  <2>2. 1 \in 1..Len(q)
    BY <2>1
  <2> QED
    BY <1>2, <2>1, <2>2
<1>5. /\ w \in Nat /\ h.id \in Nat /\ w \in 1..Len(issued) /\ issued[w] = user
      /\ q[1].write = w /\ q[1].id = h.id
  <2>1. q[1].write = w /\ q[1].id = h.id
    BY <1>4 DEF w
  <2>2. q[1].id \in Nat /\ q[1].write \in Nat
    BY <1>3, <1>4, BatchFacts
  <2>3. q[1].write \in 1..Len(issued) /\ issued[q[1].write] = user
    BY <1>3, <1>4 DEF q
  <2> QED
    BY <2>1, <2>2, <2>3
\* What is queued still was queued, and is newer than h if it is the user's.
<1>6. ASSUME NEW u \in Users, NEW i \in 1..Len(queue'[u])
      PROVE  \E j \in 1..Len(queue[u]) :
                 /\ queue'[u][i] = queue[u][j]
                 /\ u = user => queue[u][j].write > w /\ queue[u][j].id > h.id
  <2>1. CASE u = user
    <3>1. queue[u] = q /\ queue'[u] = Tail(q)
      BY <1>2, <2>1 DEF q
    <3>2. i + 1 \in 1..Len(q) /\ i \in 1..(Len(q) - 1) /\ 1 < i + 1
      BY <1>4, <3>1
    <3>3. queue'[u][i] = q[i + 1]
      BY <1>4, <3>1, <3>2
    <3>4. q[1].write < q[i + 1].write /\ q[1].id < q[i + 1].id
      BY <1>3, <1>4, <3>2 DEF Grows
    <3>5. q[i + 1].write \in Nat /\ q[i + 1].id \in Nat
      BY <1>3, <3>2, BatchFacts
    <3>6. q[i + 1].write > w /\ q[i + 1].id > h.id
      BY <1>5, <3>4, <3>5
    <3> QED
      BY <3>1, <3>2, <3>3, <3>6
  <2>2. CASE u # user
    BY <1>2, <2>2
  <2> QED
    BY <2>1, <2>2
\* What was queued is queued still, but for h.
<1>7. ASSUME NEW u \in Users, NEW j \in 1..Len(queue[u]),
             u # user \/ queue[u][j].id # h.id
      PROVE  \E i \in 1..Len(queue'[u]) : queue'[u][i] = queue[u][j]
  <2>1. CASE u = user
    <3>1. queue[u] = q /\ queue'[u] = Tail(q)
      BY <1>2, <2>1 DEF q
    <3>2. j # 1
      BY <1>5, <1>7, <2>1, <3>1
    <3>3. /\ j - 1 \in 1..(Len(q) - 1) /\ (j - 1) + 1 = j
          /\ j - 1 \in 1..Len(queue'[u])
      BY <1>4, <3>1, <3>2
    <3>4. Tail(q)[j - 1] = q[(j - 1) + 1]
      BY <1>4, <3>3
    <3> QED
      BY <3>1, <3>3, <3>4
  <2>2. CASE u # user
    BY <1>2, <2>2
  <2> QED
    BY <2>1, <2>2
<1>8. ASSUME NEW c \in Called(h.id) PROVE c.write = w
  <2>1. c \in callbacks /\ c.user = user /\ c.id = h.id
    BY DEF Called
  <2>2. PICK i \in 1..Len(q) : q[i] = [id |-> c.id, write |-> c.write]
    BY <2>1 DEF LedgerInv, CallbacksMatch, q
  <2>3. q[i].id = q[1].id
    BY <1>5, <2>1, <2>2
  <2>4. i = 1
    BY <1>3, <1>4, <2>3, OneBatch
  <2> QED
    BY <1>5, <2>2, <2>4
<1>9. /\ told \in [1..MaxWrites -> {"nothing", "ok", "failed"}]
      /\ told' = [v \in 1..MaxWrites |->
                     IF \E c \in Called(h.id) : c.write = v THEN outcome
                                                            ELSE told[v]]
  BY <1>1 DEF TypeOK, Settle, h
<1>10. /\ \A v \in 1..MaxWrites : told'[v] = told[v] \/ (v = w /\ told'[v] = outcome)
       /\ \A v \in 1..MaxWrites : v # w => told'[v] = told[v]
  BY <1>8, <1>9
<1>11. told' = told \/ told' = [told EXCEPT ![w] = outcome]
  <2>1. CASE Called(h.id) = {}
    <3>1. \A v \in 1..MaxWrites : told'[v] = told[v]
      BY <1>9, <2>1
    <3>2. told' = [v \in 1..MaxWrites |-> told[v]]
      BY <1>9, <2>1
    <3> QED
      BY <1>9, <3>2
  <2>2. CASE Called(h.id) # {}
    <3>1. \E c \in Called(h.id) : c.write = w
      BY <1>8, <2>2
    <3>2. \A v : (\E c \in Called(h.id) : c.write = v) <=> v = w
      BY <1>8, <3>1
    <3>3. told' = [v \in 1..MaxWrites |-> IF v = w THEN outcome ELSE told[v]]
      BY <1>9, <3>2
    <3> QED
      BY <1>9, <3>3
  <2> QED
    BY <2>1, <2>2
<1>12. Queued(w)
  BY <1>3, <1>4, <1>5 DEF Queued, q
<1>13. ASSUME NEW v, Queued(v)'
       PROVE  Queued(v) /\ v # w
  <2>1. PICK u \in Users : \E i \in 1..Len(queue'[u]) : queue'[u][i].write = v
    BY <1>13 DEF Queued
  <2>2. PICK i \in 1..Len(queue'[u]) : queue'[u][i].write = v
    BY <2>1
  <2>3. PICK j \in 1..Len(queue[u]) :
                 /\ queue'[u][i] = queue[u][j]
                 /\ u = user => queue[u][j].write > w /\ queue[u][j].id > h.id
    BY <1>6
  <2>4. queue[u][j].write = v /\ v \in 1..Len(issued) /\ issued[v] = u
    BY <1>3, <2>2, <2>3
  <2>5. Queued(v)
    BY <2>4 DEF Queued
  <2>6. CASE u = user
    <3>1. v > w /\ v \in Nat
      BY <2>3, <2>4, <2>6
    <3> QED
      BY <1>5, <2>5, <3>1
  <2>7. CASE u # user
    BY <1>5, <2>4, <2>5, <2>7
  <2> QED
    BY <2>6, <2>7
<1>14. Seen'
  BY DEF LedgerInv, Seen
<1>15. NothingDropped'
  <2>1. ASSUME NEW v \in 1..Len(issued)
        PROVE  \/ \E u \in Users : \E i \in 1..Len(queue'[u]) : queue'[u][i].write = v
               \/ v \in committed \cup refused
    <3>1. CASE v \in committed \cup refused
      BY <3>1
    <3>2. CASE \E u \in Users : \E j \in 1..Len(queue[u]) : queue[u][j].write = v
      <4>1. PICK u \in Users : \E j \in 1..Len(queue[u]) : queue[u][j].write = v
        BY <3>2
      <4>2. PICK j \in 1..Len(queue[u]) : queue[u][j].write = v
        BY <4>1
      <4>3. CASE u # user \/ queue[u][j].id # h.id
        BY <1>7, <4>2, <4>3
      <4>4. CASE u = user /\ queue[u][j].id = h.id
        <5>1. j \in 1..Len(q) /\ q[j].id = q[1].id
          BY <1>5, <4>4 DEF q
        <5>2. j = 1
          BY <1>3, <1>4, <5>1, OneBatch
        <5>3. v = w
          BY <1>5, <4>2, <4>4, <5>2 DEF q
        <5> QED
          BY <5>3 DEF w, h
      <4> QED
        BY <4>3, <4>4
    <3> QED
      BY <3>1, <3>2 DEF LedgerInv, NothingDropped, Queued
  <2> QED
    BY <2>1 DEF NothingDropped, Queued
<1>16. Told'
  <2>1. ASSUME NEW v \in 1..MaxWrites, told'[v] # "nothing"
        PROVE  v \in 1..Len(issued) /\ ~(Queued(v)')
    <3>1. CASE v = w
      BY <1>5, <1>13, <3>1
    <3>2. CASE v # w
      <4>1. told[v] # "nothing"
        BY <1>10, <2>1, <3>2
      <4>2. v \in 1..Len(issued) /\ ~Queued(v)
        BY <4>1 DEF LedgerInv, Told
      <4> QED
        BY <1>13, <4>2
    <3> QED
      BY <3>1, <3>2
  <2>2. ASSUME NEW v \in 1..MaxWrites, told'[v] = "ok"
        PROVE  /\ v \in committed /\ last[issued[v]] >= v
               /\ \A i \in 1..Len(queue'[issued[v]]) : queue'[issued[v]][i].write > v
    <3>1. CASE told[v] = "ok"
      <4>1. /\ v \in committed /\ last[issued[v]] >= v
            /\ \A i \in 1..Len(queue[issued[v]]) : queue[issued[v]][i].write > v
        BY <3>1 DEF LedgerInv, Told
      <4>2. issued[v] \in Users
        <5>1. v \in 1..Len(issued)
          BY <3>1 DEF LedgerInv, Told
        <5> QED
          BY <1>1, <5>1 DEF TypeOK
      <4> QED
        BY <1>6, <4>1, <4>2
    <3>2. CASE told[v] # "ok"
      <4>1. v = w /\ outcome = "ok"
        BY <1>10, <2>2, <3>2
      <4>2. w \in committed /\ w <= last[user]
        BY <4>1 DEF w, h
      <4>3. last[user] \in Nat
        <5>1. last \in [Users -> 0..MaxWrites]
          BY <1>1 DEF TypeOK
        <5> QED
          BY <1>3, <5>1
      <4>4. \A i \in 1..Len(queue'[user]) : queue'[user][i].write > w
        BY <1>3, <1>6
      <4> QED
        BY <1>5, <4>1, <4>2, <4>3, <4>4
    <3> QED
      BY <3>1, <3>2
  <2> QED
    BY <2>1, <2>2 DEF Told
<1>17. CallbacksMatch'
  <2>1. ASSUME NEW c \in callbacks'
        PROVE  [id |-> c.id, write |-> c.write] \in
                   {queue'[c.user][i] : i \in 1..Len(queue'[c.user])}
    <3>1. c \in callbacks /\ ~(c.user = user /\ c.id = h.id)
      BY DEF Settle, Called, h
    <3>2. c.user \in Users
      BY <1>1, <3>1 DEF TypeOK, Callback
    <3>3. PICK j \in 1..Len(queue[c.user]) :
                   queue[c.user][j] = [id |-> c.id, write |-> c.write]
      BY <3>1 DEF LedgerInv, CallbacksMatch
    <3>4. c.user # user \/ queue[c.user][j].id # h.id
      BY <3>1, <3>3
    <3>5. PICK i \in 1..Len(queue'[c.user]) : queue'[c.user][i] = queue[c.user][j]
      BY <1>7, <3>2, <3>4
    <3> QED
      BY <3>3, <3>5
  <2>2. ASSUME NEW x \in waiters'
        PROVE  \E i \in 1..Len(queue'[user]) : queue'[user][i].id = x.awaits
    <3>1. x \in waiters /\ x.awaits # h.id
      BY DEF Settle, h
    <3>2. PICK j \in 1..Len(queue[user]) : queue[user][j].id = x.awaits
      BY <3>1 DEF LedgerInv, CallbacksMatch
    <3>3. PICK i \in 1..Len(queue'[user]) : queue'[user][i] = queue[user][j]
      BY <1>3, <1>7, <3>1, <3>2
    <3> QED
      BY <3>2, <3>3
  <2> QED
    BY <2>1, <2>2 DEF CallbacksMatch
<1>18. Awaited'
  <2>1. ASSUME NEW x \in waiters'
        PROVE  /\ x.writes \subseteq 1..Len(issued)
               /\ \A i \in 1..Len(queue'[user]) :
                      queue'[user][i].write \in x.writes => queue'[user][i].id <= x.awaits
    <3>1. x \in waiters
      BY DEF Settle
    <3>2. /\ x.writes \subseteq 1..Len(issued)
          /\ \A i \in 1..Len(queue[user]) :
                 queue[user][i].write \in x.writes => queue[user][i].id <= x.awaits
      BY <3>1 DEF LedgerInv, Awaited
    <3> QED
      BY <1>3, <1>6, <3>2
  <2> QED
    BY <2>1 DEF Awaited
\* Who waited for h waited for nothing that is newer.
<1>19. WaitStep
  <2>1. ASSUME NEW x \in waiters \ waiters', NEW i \in 1..Len(queue'[user])
        PROVE  queue'[user][i].write \notin x.writes
    <3>1. x \in waiters /\ x.awaits = h.id
      BY DEF Settle, h
    <3>2. PICK j \in 1..Len(queue[user]) :
                   /\ queue'[user][i] = queue[user][j]
                   /\ queue[user][j].id > h.id
      BY <1>3, <1>6
    <3>3. queue[user][j].id \in Nat
      BY <1>3, BatchFacts DEF q
    <3>4. ~(queue[user][j].id <= x.awaits)
      BY <1>5, <3>1, <3>2, <3>3
    <3> QED
      BY <3>1, <3>2, <3>4 DEF LedgerInv, Awaited
  <2> QED
    BY <2>1 DEF WaitStep
<1>20. LedgerStep
  <2>1. CASE told' = told
    BY <2>1 DEF LedgerStep
  <2>2. CASE told' = [told EXCEPT ![w] = outcome]
    <3>1. w \in 1..MaxWrites
      <4>1. Len(issued) <= MaxWrites /\ Len(issued) \in Nat /\ MaxWrites \in Nat
        <5>1. issued \in Seq(Users) /\ Len(issued) <= MaxWrites
          BY <1>1 DEF TypeOK
        <5>2. MaxWrites \in Nat
          BY DEF PipelineAssumption
        <5> QED
          BY <5>1, <5>2
      <4> QED
        BY <1>5, <4>1
    <3>2. told[w] = "nothing"
      BY <1>12, <3>1 DEF LedgerInv, Told
    <3>3. w \in IF outcome = "ok" THEN committed ELSE committed \cup refused
      BY DEF w, h
    <3>4. Ledger!Tell(w, outcome)
      BY <2>2, <3>2, <3>3 DEF Ledger!Tell
    <3> QED
      BY <1>5, <3>4 DEF LedgerStep, Ledger!Next
  <2> QED
    BY <1>11, <2>1, <2>2
<1> QED
  BY <1>14, <1>15, <1>16, <1>17, <1>18, <1>19, <1>20 DEF LedgerInv, Faithful

\* A response that is there is for the first batch, and is true.
LEMMA FirstAnswer ==
    ASSUME IndInv, LedgerInv, stream = "Open", handshake, down # << >>
    PROVE  /\ network /\ pipeline # << >>
           /\ Head(pipeline) = down[1] /\ Len(down) \in Nat /\ Len(down) > 0
           /\ Head(pipeline).write \in committed
           /\ Head(pipeline).write <= last[user]
<1>1. TypeOK /\ Started /\ Sent
  BY DEF IndInv
<1>2. pipeline \in Seq(Batch) /\ down \in Seq(Batch) /\ up \in Seq(Batch)
  BY <1>1 DEF TypeOK
<1>3. Len(pipeline) \in Nat /\ Len(down) \in Nat /\ Len(up) \in Nat
  BY <1>2
<1>4. Len(down) > 0
  <2>1. Len(down) # 0
    BY <1>2, EmptyLen
  <2> QED
    BY <1>3, <2>1
<1>5. Len(down) <= Len(pipeline) /\ \A i \in 1..Len(down) : down[i] = pipeline[i]
  BY <1>1, <1>3 DEF Sent, OnTheWay, Prefix
<1>6. 1 \in 1..Len(down) /\ Len(pipeline) > 0
  BY <1>3, <1>4, <1>5
<1>7. pipeline # << >>
  BY <1>2, <1>3, <1>6, EmptyLen
<1>8. Head(pipeline) = down[1]
  BY <1>2, <1>5, <1>6, <1>7, TailFacts
<1>9. down[1].write \in committed /\ down[1].write <= last[user]
  BY <1>6 DEF LedgerInv, Done
<1> QED
  BY <1>1, <1>3, <1>4, <1>7, <1>8, <1>9 DEF Started, IsStarted

\* A result settles the first batch.
LEMMA ResultStep ==
    ASSUME PipelineAssumption, IndInv, LedgerInv, MutationResult
    PROVE  Faithful
<1>1. TypeOK /\ Stored /\ Piped
  BY DEF IndInv
<1>2. /\ stream = "Open" /\ down # << >> /\ handshake
      /\ down' = Tail(down) /\ Settle(Head(pipeline).id, "ok")
      /\ UNCHANGED <<user, nextId, issued, committed, refused, last>>
      /\ UNCHANGED <<handshake, closing>>
  BY DEF MutationResult, serverVars
<1>3. /\ network /\ pipeline # << >>
      /\ Head(pipeline).write \in committed
      /\ Head(pipeline).write <= last[user]
      /\ Len(down) \in Nat /\ Len(down) > 0
  BY <1>2, FirstAnswer
<1>4. /\ queue[user] # << >> /\ queue'[user] = Tail(queue[user])
  BY <1>1, <1>2, <1>3, SettleFacts
<1>5. /\ Len(queue[user]) \in Nat /\ Len(Tail(queue[user])) = Len(queue[user]) - 1
      /\ \A i \in 1..(Len(queue[user]) - 1) : Tail(queue[user])[i] = queue[user][i + 1]
  BY <1>1, <1>4, PipeTypes, TailFacts
<1>6. /\ Len(down') = Len(down) - 1
      /\ \A i \in 1..(Len(down) - 1) : down'[i] = down[i + 1]
  <2>1. down \in Seq(Batch)
    BY <1>1 DEF TypeOK
  <2> QED
    BY <1>2, <2>1, TailFacts
<1>7. ASSUME NEW i \in 1..Len(down')
      PROVE  down'[i].write \in committed /\ down'[i].write <= last[user]
  <2>1. i \in 1..(Len(down) - 1) /\ i + 1 \in 1..Len(down)
    BY <1>3, <1>6
  <2>2. down[i + 1].write \in committed /\ down[i + 1].write <= last[user]
    BY <1>2, <2>1 DEF LedgerInv, Done
  <2> QED
    BY <1>6, <2>1, <2>2
<1>8. ASSUME closing = "permanent"
      PROVE  /\ Len(down') + 1 \in 1..Len(queue'[user])
             /\ queue'[user][Len(down') + 1].write \in refused
  <2>1. /\ Len(down) + 1 \in 1..Len(queue[user])
        /\ queue[user][Len(down) + 1].write \in refused
    BY <1>2, <1>8 DEF LedgerInv, Done
  <2>2. /\ Len(down') + 1 = Len(down)
        /\ Len(down) \in 1..(Len(queue[user]) - 1)
    BY <1>3, <1>5, <1>6, <2>1
  <2> QED
    BY <1>4, <1>5, <2>1, <2>2
<1>9. Done'
  BY <1>2, <1>7, <1>8 DEF Done
<1> QED
  BY <1>2, <1>3, <1>9, SettleStep

\* The first batch is blamed for the end of the stream only when it has been
\* answered or refused.
LEMMA FinishStep ==
    ASSUME PipelineAssumption, IndInv, LedgerInv, StreamFinishes
    PROVE  Faithful
<1> DEFINE blamed == handshake /\ pipeline # << >> /\ closing = "permanent"
<1>1. TypeOK /\ Piped /\ Started
  BY DEF IndInv
<1>2. /\ stream = "Open"
      /\ handshake' = FALSE /\ closing' = "ok"
      /\ UNCHANGED <<user, nextId, issued, committed, refused, last>>
      /\ blamed => Settle(Head(pipeline).id, "failed")
      /\ ~blamed => UNCHANGED <<queue, callbacks, told, waiters>>
  BY DEF StreamFinishes, OnStreamFinish, Disconnected, IsPermanentWriteError,
     serverVars
<1>3. Done'
  BY <1>2, NoAnswers
<1>4. CASE blamed
  <2>1. network
    BY <1>1, <1>2 DEF Started, IsStarted
  <2>2. Head(pipeline).write \in committed \cup refused
    <3>1. CASE down = << >>
      <4>1. Len(down) + 1 = 1
        BY <3>1
      <4>2. queue[user][1].write \in refused
        BY <1>4, <4>1 DEF LedgerInv, Done
      <4>3. queue[user] # << >> /\ Head(queue[user]) = Head(pipeline)
        BY <1>1, <1>4, <2>1, PipeTypes, TailPrefix
      <4>4. Head(queue[user]) = queue[user][1]
        BY <1>1, <4>3, PipeTypes, TailFacts
      <4> QED
        BY <4>2, <4>3, <4>4
    <3>2. CASE down # << >>
      BY <1>2, <1>4, <3>2, FirstAnswer
    <3> QED
      BY <3>1, <3>2
  <2> QED
    BY <1>2, <1>3, <1>4, <2>1, <2>2, SettleStep
<1>5. CASE ~blamed
  BY <1>2, <1>3, <1>5, QuietStep
<1> QED
  BY <1>4, <1>5

-----------------------------------------------------------------------------
(* The theorems.                                                           *)

\* The client as it is first started.
LEMMA StartIsFaithful ==
    ASSUME PipelineAssumption, Init
    PROVE  LedgerInv /\ Ledger!Init
<1>1. /\ issued = << >> /\ Len(issued) = 0 /\ handshake = FALSE /\ closing = "ok"
      /\ callbacks = {} /\ waiters = {} /\ MaxWrites \in Nat
  BY DEF Init, PipelineAssumption
<1>2. \A w \in 1..MaxWrites : told[w] = "nothing"
  BY DEF Init
<1>3. \A u \in Users : last[u] = 0
  BY DEF Init
<1>4. Seen /\ NothingDropped
  BY <1>1, <1>3 DEF Seen, NothingDropped
<1>5. Done /\ CallbacksMatch /\ Awaited
  BY <1>1 DEF Done, CallbacksMatch, Awaited
<1>6. Told
  BY <1>2 DEF Told
<1>7. Ledger!Init
  BY DEF Init, Ledger!Init
<1> QED
  BY <1>4, <1>5, <1>6, <1>7 DEF LedgerInv

\* One lemma for each action above.
LEMMA EveryStep ==
    ASSUME PipelineAssumption, IndInv, LedgerInv, [Next]_vars
    PROVE  Faithful
<1>1. CASE Next
  <2>1. CASE Write \/ WaitForPendingWrites \/ Restart
    BY <2>1, WriteStep, WaitForStep, RestartStep
  <2>2. CASE EnableNetwork \/ DisableNetwork \/ IdleElapses \/ RunMainQueue
                \/ \E u \in Users : SignIn(u)
    BY <2>2, OutsideSteps
  <2>3. CASE Auth \/ \E r \in asked : TokenFails(r)
    <3>1. \E r \in asked : TakeUp(r) \/ TokenArrives(r) \/ TokenFails(r)
      BY <2>3 DEF Auth
    <3> QED
      BY <3>1, OutsideSteps
  <2>4. CASE Worker
    BY <2>4, UserChangeStep, OpeningSteps, ResultStep, FinishStep DEF Worker
  <2>5. CASE Server
    BY <2>5, OpeningSteps, CommitStep DEF Server
  <2>6. CASE \E e \in Error : ServerRefuses(e)
    BY <2>6, RefuseStep
  <2>7. CASE ConnectionLost
    BY <2>7, OpeningSteps
  <2> QED
    BY <1>1, <2>1, <2>2, <2>3, <2>4, <2>5, <2>6, <2>7 DEF Next
<1>2. CASE UNCHANGED vars
  <2>1. /\ UNCHANGED <<issued, queue, user, callbacks, waiters, last, told,
                       committed, refused>>
        /\ UNCHANGED <<handshake, down, closing>>
    BY <1>2 DEF vars, appVars, diskVars, serverVars, streamVars, connVars
  <2> QED
    BY <2>1, SameAnswers, QuietStep DEF LedgerInv
<1> QED
  BY <1>1, <1>2

\* Every reachable state is one of both invariants.
THEOREM LedgerInductive == Spec => [](IndInv /\ LedgerInv)
<1>1. Init => LedgerInv
  BY StartIsFaithful, PipelineAssumption
<1>2. IndInv /\ LedgerInv /\ [Next]_vars => LedgerInv'
  BY EveryStep, PipelineAssumption DEF Faithful
<1> QED
  BY <1>1, <1>2, Inductive, PTL DEF Spec

(* FirebaseCredentialsProvider, Stream, LocalStore: whoever signs in and   *)
(* out, nothing is written on behalf of another user.                      *)
THEOREM IdentityCorrect == Spec => []OneIdentity
<1>1. IndInv /\ LedgerInv => OneIdentity
  BY DEF IndInv, LedgerInv, Connected, Tokens, Seen, OneIdentity
<1> QED
  BY <1>1, LedgerInductive, PTL

(* LocalStore, RemoteStore, SyncEngine: a write leaves the disk only when  *)
(* the server has dealt with it, and one reported as a success has been    *)
(* applied and is not undone by an older one.                              *)
THEOREM WritesCorrect == Spec => []WritesAreKept
<1>1. IndInv /\ LedgerInv => SuccessIsTrue
  <2> SUFFICES ASSUME IndInv, LedgerInv, NEW w \in 1..Len(issued), told[w] = "ok"
               PROVE  w \in committed /\ last[issued[w]] >= w
    BY DEF SuccessIsTrue
  <2>1. issued \in Seq(Users) /\ Len(issued) <= MaxWrites
    BY DEF IndInv, TypeOK
  <2>2. MaxWrites \in Nat
    BY PipelineAssumption DEF PipelineAssumption
  <2>3. w \in 1..MaxWrites
    BY <2>1, <2>2
  <2> QED
    BY <2>3 DEF LedgerInv, Told
<1>2. IndInv /\ LedgerInv => WritesAreKept
  BY <1>1 DEF LedgerInv, WritesAreKept
<1> QED
  BY <1>2, LedgerInductive, PTL

(* SyncEngine: a callback is called for its own batch, although ids are    *)
(* given anew, and waitForPendingWrites does not answer too soon.          *)
THEOREM CallbacksCorrect == Spec => CallbacksAreRight
<1>1. IndInv /\ LedgerInv => CallbacksMatch
  BY DEF LedgerInv
<1>2. IndInv /\ LedgerInv /\ [Next]_vars => WaitStep
  BY EveryStep, PipelineAssumption DEF Faithful
<1>3. Spec => [][WaitStep]_vars
  BY <1>2, LedgerInductive, PTL DEF Spec
<1>4. Spec => WaitersAreRight
  BY <1>3 DEF WaitersAreRight, WaitStep
<1> QED
  BY <1>1, <1>4, LedgerInductive, PTL DEF CallbacksAreRight

(* The write side of the client keeps what WriteLedger promises the app.   *)
THEOREM PipelineImplementsLedger == Spec => LedgerSpec
<1>1. Init => Ledger!Init
  BY StartIsFaithful, PipelineAssumption
<1>2. IndInv /\ LedgerInv /\ [Next]_vars => [Ledger!Next]_(Ledger!ledger)
  BY EveryStep, PipelineAssumption DEF Faithful, LedgerStep, Ledger!ledger
<1> QED
  BY <1>1, <1>2, LedgerInductive, PTL DEF Spec, LedgerSpec, Ledger!Spec
=============================================================================
