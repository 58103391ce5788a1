------------------------------- MODULE RunLog -------------------------------
(***************************************************************************)
(* The runs of inclass/miles: RunDataController listens to one collection  *)
(* of Firestore and adds documents to it, and the table shows what the     *)
(* last snapshot has.  Below it the client joins three sources: the        *)
(* mutation queue, the cache of remote documents (LocalStore) and the      *)
(* watch stream (WatchChangeAggregator), into a view (View), which puts    *)
(* documents it cannot account for in limbo (SyncEngine).                  *)
(*                                                                         *)
(* How writes reach the server is in WritePipeline, how the stream is kept *)
(* up in WatchListen: here a write is committed, and acknowledged or not,  *)
(* and the stream is open or not.  The user is signed in.                  *)
(***************************************************************************)
EXTENDS Naturals, FiniteSets, Sequences, SequencesExt

CONSTANTS
    Runs,           \* the documents
    MaxSaves,       \* bound on the runs saved here
    MaxEvents       \* bound on the disturbances: see Event

ASSUME RunLogAssumption == MaxSaves \in Nat /\ MaxEvents \in Nat

VARIABLES
    log,        \* the server: its writes, in the order of their versions
    refused,    \* history: the runs whose write the server has refused, or is
                \* taken to have refused
    saved,      \* the runs saved here
    queue,      \* disk: the mutation queue, one run each
    cache,      \* disk: remote_document_cache_
    keys,       \* disk: matching keys of the target, also the view's
                \* synced_documents_
    resume,     \* disk: the version of the target's resume token
    lastRemote, \* disk: last remote snapshot version
    listening,  \* has the table's listener been added?
    docs,       \* view: document_set_, and what the table shows
    mutated,    \* view: mutated_keys_
    current,    \* view: current_
    limbo,      \* view: limbo_documents_, each listened to
    token,      \* remote store: the target's resume token
    acks,       \* answers to the first writes of the queue, on their way
    watching,   \* is the target added to an open watch stream?
    sent,       \* the server: the version it has sent the target up to
    down,       \* snapshots on their way
    events      \* disturbances so far

diskVars  == <<queue, cache, keys, resume, lastRemote>>
viewVars  == <<docs, mutated, current, limbo>>
watchVars == <<watching, sent, down>>

vars == <<log, refused, saved, diskVars, listening, viewVars, token, acks,
          watchVars, events>>

(* The content of a run: as it was saved here, as another device has it,   *)
(* deleted.  The text "unknown" is that of a document not in the cache.    *)
Text   == {"mine", "other", "gone"}
Doc    == [text : {"mine", "other", "none"},
           state : {"none", "local", "committed", "synced"}]
NoDoc  == [text |-> "none", state |-> "none"]
Absent == [ver |-> 0, text |-> "unknown", committed |-> FALSE]

Init ==
    /\ log = << >>
    /\ refused = {}
    /\ saved = {}
    /\ queue = << >>
    /\ cache = [k \in Runs |-> Absent]
    /\ keys = {}
    /\ resume = 0
    /\ lastRemote = 0
    /\ listening = FALSE
    /\ docs = [k \in Runs |-> NoDoc]
    /\ mutated = {}
    /\ current = FALSE
    /\ limbo = {}
    /\ token = 0
    /\ acks = << >>
    /\ watching = FALSE
    /\ sent = 0
    /\ down = << >>
    /\ events = 0

\* A disturbance: another device writes, a write is refused, a connection is
\* lost, the process ends.
Event == events < MaxEvents /\ events' = events + 1

-----------------------------------------------------------------------------
(* The server.                                                             *)

\* What the server has of run k at version v, with the version it is from.
At(k, v) ==
    LET writes == {i \in 1..v : log[i].run = k}
    IN  IF writes = {} THEN [ver |-> 0, text |-> "gone"]
        ELSE LET i == CHOOSE i \in writes : \A j \in writes : j <= i
             IN  [ver |-> i, text |-> log[i].text]

Now == Len(log)
Alive(k, v) == At(k, v).text # "gone"

-----------------------------------------------------------------------------
(* The view.                                                               *)

\* Mutant: a document known to be deleted is taken for one that exists
LocalMutant(k, q, c) ==
    IF Contains(q, k) THEN [text |-> "mine", state |-> "local"]
    ELSE IF c[k].text = "unknown" THEN NoDoc
    ELSE [text |-> c[k].text,
          state |-> IF c[k].committed THEN "committed" ELSE "synced"]

\* LocalDocumentsView: the remote document under the pending mutations.
Local(k, q, c) ==
    IF Contains(q, k) THEN [text |-> "mine", state |-> "local"]
    ELSE IF c[k].text \in {"unknown", "gone"} THEN NoDoc
    ELSE [text |-> c[k].text,
          state |-> IF c[k].committed THEN "committed" ELSE "synced"]

\* Mutant: only contents are compared
AppliedMutant(k, new) == docs[k].text # new.text

(* ComputeDocumentChanges: is the change of k to the document new applied? *)
(* While the old document has a local mutation that has been committed     *)
(* the view waits for the watch stream.                                    *)
Applied(k, new) ==
    LET old     == docs[k]
        pending == new.state = "local"
                       \/ (k \in mutated /\ new.state = "committed")
    IN  IF old = NoDoc \/ new = NoDoc THEN old # new
        ELSE IF old.text # new.text
        THEN ~(old.state = "local" /\ new.state = "committed")
        ELSE (k \in mutated) # pending

\* Mutant: documents the target has not named are not asked for
ViewOfMutant(ks, cur) ==
    LET new(k) == Local(k, queue', cache')
        hits   == {k \in ks : Applied(k, new(k))}
    IN  /\ docs' = [k \in Runs |-> IF k \in hits THEN new(k) ELSE docs[k]]
        /\ mutated' = (mutated \ hits)
                          \cup {k \in hits : new(k).state = "local"}
        /\ current' = cur
        /\ limbo' = {}

\* Mutant: the first view has the documents of the target and those that are
\* pending
ViewOfMutant2(ks, cur) ==
    LET new(k) == Local(k, queue', cache')
        hits   == {k \in IF listening THEN ks ELSE keys' \cup ToSet(queue') :
                       Applied(k, new(k))}
    IN  /\ docs' = [k \in Runs |-> IF k \in hits THEN new(k) ELSE docs[k]]
        /\ mutated' = (mutated \ hits)
                          \cup {k \in hits : new(k).state = "local"}
        /\ current' = cur
        /\ limbo' = IF cur THEN {k \in Runs \ keys' :
                                     docs'[k].state \in {"committed", "synced"}}
                    ELSE limbo

(* The view after a change of the documents ks, with the target current or *)
(* not (ApplyChanges, UpdateLimboDocuments).  The first view of a listener *)
(* comes from nothing, so every document it finds is applied.              *)
ViewOf(ks, cur) ==
    LET new(k) == Local(k, queue', cache')
        hits   == {k \in ks : Applied(k, new(k))}
    IN  /\ docs' = [k \in Runs |-> IF k \in hits THEN new(k) ELSE docs[k]]
        /\ mutated' = (mutated \ hits)
                          \cup {k \in hits : new(k).state = "local"}
        /\ current' = cur
        /\ limbo' = IF cur THEN {k \in Runs \ keys' :
                                     docs'[k].state \in {"committed", "synced"}}
                    ELSE limbo

-----------------------------------------------------------------------------
(* The app.                                                                *)

\* viewDidLoad, loadData: the listener is added and answered from the disk.
Open ==
    /\ ~listening
    /\ listening' = TRUE
    /\ UNCHANGED <<log, refused, saved, diskVars, token, acks, watchVars,
                   events>>
    /\ ViewOf(Runs, FALSE)

\* unwindSegue, writeData: addDocument makes a new id.
Save(k) ==
    /\ listening
    /\ Cardinality(saved) < MaxSaves
    /\ k \notin saved /\ \A i \in 1..Now : log[i].run # k
    /\ saved' = saved \cup {k}
    /\ queue' = Append(queue, k)
    /\ UNCHANGED <<log, refused, cache, keys, resume, lastRemote, listening,
                   token, acks, watchVars, events>>
    /\ ViewOf({k}, current)

\* The process ends and is started again.
Restart ==
    /\ Event
    /\ listening
    /\ listening' = FALSE
    /\ docs' = [k \in Runs |-> NoDoc]
    /\ mutated' = {}
    /\ current' = FALSE
    /\ limbo' = {}
    /\ token' = resume
    /\ acks' = << >>
    /\ watching' = FALSE
    /\ down' = << >>
    /\ UNCHANGED <<log, refused, saved, diskVars, sent>>

-----------------------------------------------------------------------------
(* Writes.                                                                 *)

(* The server answers the write after those it has answered already; with  *)
(* a refusal it ends the stream.                                           *)
Answers(ver) ==
    /\ Len(acks) < Len(queue)
    /\ ~Contains(acks, 0)
    /\ acks' = Append(acks, ver)
    /\ UNCHANGED <<saved, diskVars, listening, viewVars, token, watchVars>>

NextWrite == queue[Len(acks) + 1]

\* A write sent again is applied again.
ServerCommits ==
    /\ Answers(Now + 1)
    /\ log' = Append(log, [run |-> NextWrite, text |-> "mine"])
    /\ UNCHANGED <<refused, events>>

ServerRefuses ==
    /\ Event
    /\ Answers(0)
    /\ refused' = refused \cup {NextWrite}
    /\ UNCHANGED log

\* Mutant: a refused write is kept like a committed one
AcknowledgedMutant(k, ver) ==
    IF cache[k].ver <= ver
    THEN [cache EXCEPT ![k] = [ver |-> ver, text |-> "mine", committed |-> TRUE]]
    ELSE cache

(* HandleSuccessfulWrite, AcknowledgeBatch: the cache gets the document,   *)
(* with committed mutations, unless it has the same or a later version.    *)
Acknowledged(k, ver) ==
    IF cache[k].ver < ver
    THEN [cache EXCEPT ![k] = [ver |-> ver, text |-> "mine", committed |-> TRUE]]
    ELSE cache

\* The write stream's next answer; version 0 is a refusal (RejectBatch).
HandleWriteResult ==
    /\ acks # << >>
    /\ acks' = Tail(acks)
    /\ queue' = Tail(queue)
    /\ cache' = Acknowledged(Head(queue), Head(acks))
    /\ UNCHANGED <<log, refused, saved, keys, resume, lastRemote, listening,
                   token, watchVars, events>>
    /\ IF listening THEN ViewOf({Head(queue)}, current) ELSE UNCHANGED viewVars

(* The stream ends with a refusal before the answers ahead of it are read: *)
(* they are lost, and the refusal is taken to be of the first write (see   *)
(* StreamFinishes in WritePipeline).                                       *)
AnswersCutShort ==
    /\ Contains(acks, 0) /\ Head(acks) # 0
    /\ acks' = <<0>>
    /\ refused' = refused \cup {Head(queue)}
    /\ UNCHANGED <<log, saved, diskVars, listening, viewVars, token, watchVars,
                   events>>

WriteStreamLost ==
    /\ Event
    /\ acks # << >>
    /\ acks' = << >>
    /\ UNCHANGED <<log, refused, saved, diskVars, listening, viewVars, token,
                   watchVars>>

-----------------------------------------------------------------------------
(* The watch stream.                                                       *)

\* The stream opens and asks for what has changed since the resume token.
OpenWatch ==
    /\ listening
    /\ ~watching
    /\ watching' = TRUE
    /\ sent' = token
    /\ UNCHANGED <<log, refused, saved, diskVars, listening, viewVars, token,
                   acks, down, events>>

WatchLost ==
    /\ Event
    /\ watching
    /\ watching' = FALSE
    /\ down' = << >>
    /\ UNCHANGED <<log, refused, saved, diskVars, listening, viewVars, token,
                   acks, sent>>

\* ApplyOnlineStateChange: the stream cannot be opened, the client is offline.
GoOffline ==
    /\ ~watching
    /\ current
    /\ UNCHANGED <<log, refused, saved, diskVars, listening, token, acks,
                   watchVars, events>>
    /\ ViewOf({}, FALSE)

(* The server sends a snapshot at version v, not before one the client     *)
(* knows: what has come, changed or gone since the last one and, of the    *)
(* documents the client asks for because they are in limbo, which do not   *)
(* exist.  Of a document that has come and gone since it says nothing.     *)
(* Or, the token being too old, it sends a reset and all there is.         *)
ServerSnapshot(v, reset) ==
    /\ watching
    /\ v >= sent /\ v >= lastRemote
    /\ down = << >> => v > sent \/ ~current \/ limbo # {}
    /\ down # << >> => v > sent
    /\ reset => down = << >> /\ sent = token /\ ~current
    /\ sent' = v
    /\ down' = Append(down,
           [version |-> v,
            reset |-> reset,
            docs |-> {[run |-> k, at |-> At(k, v)] : k \in
                         {k \in Runs : IF reset THEN Alive(k, v)
                                       ELSE /\ At(k, v).ver > sent
                                            /\ Alive(k, v) \/ Alive(k, sent)}},
            lacks |-> {k \in limbo : ~Alive(k, v)}])
    /\ UNCHANGED <<log, refused, saved, diskVars, listening, viewVars, token,
                   acks, watching, events>>

(* What the cache gets of a snapshot (LocalStore::ApplyRemoteEvent): a     *)
(* document unless it has a later version, or the same one watched.  A     *)
(* document in limbo that does not exist is deleted at the snapshot's      *)
(* version (CreateRemoteEvent).                                            *)
Updates(m) ==
    m.docs \cup {[run |-> k, at |-> [ver |-> m.version, text |-> "gone"]] :
                     k \in (m.lacks \cap limbo) \ {d.run : d \in m.docs}}

\* Mutant: a document with committed mutations gives way to any watched one
NewerMutant(d) ==
    LET c == cache[d.run]
    IN  c.text = "unknown" \/ d.at.ver > c.ver \/ c.committed

Newer(d) ==
    LET c == cache[d.run]
    IN  c.text = "unknown" \/ d.at.ver > c.ver
            \/ (d.at.ver = c.ver /\ c.committed)

Cached(ds) ==
    [k \in Runs |->
        IF \E d \in ds : d.run = k /\ Newer(d)
        THEN LET d == CHOOSE d \in ds : d.run = k
             IN  [ver |-> d.at.ver, text |-> d.at.text, committed |-> FALSE]
        ELSE cache[k]]

(* RaiseWatchSnapshot and SyncEngine::ApplyRemoteEvent.  The resume token  *)
(* is written down with changes, without any only now and then.            *)
HandleSnapshot ==
    /\ down # << >>
    /\ LET m    == Head(down)
           come == {d.run : d \in {d \in m.docs : d.at.text # "gone"}}
           gone == {d.run : d \in m.docs} \ come
           stay == IF m.reset THEN {} ELSE keys \ gone
           hits == {d.run : d \in {d \in Updates(m) : Newer(d)}}
       IN  /\ down' = Tail(down)
           /\ keys' = stay \cup come
           /\ cache' = Cached(Updates(m))
           /\ token' = m.version
           /\ resume' \in IF resume = 0 \/ come # {} \/ keys' # keys
                          THEN {m.version} ELSE {resume, m.version}
           /\ lastRemote' = m.version
           /\ UNCHANGED <<log, refused, saved, queue, listening, acks,
                          watching, sent, events>>
           /\ ViewOf(hits, TRUE)

-----------------------------------------------------------------------------
\* Another device adds a run, changes one or deletes it.
OtherWrites(k, text) ==
    /\ Event
    /\ IF Alive(k, Now) THEN TRUE
       ELSE text = "other" /\ k \notin saved /\ \A i \in 1..Now : log[i].run # k
    /\ log' = Append(log, [run |-> k, text |-> text])
    /\ UNCHANGED <<refused, saved, diskVars, listening, viewVars, token, acks,
                   watchVars>>

Next ==
    \/ Open \/ Restart \/ OpenWatch \/ WatchLost \/ GoOffline
    \/ ServerCommits \/ ServerRefuses \/ HandleWriteResult \/ AnswersCutShort
    \/ WriteStreamLost \/ HandleSnapshot
    \/ \E k \in Runs : Save(k) \/ OtherWrites(k, "other") \/ OtherWrites(k, "gone")
    \/ \E v \in 0..Now, reset \in BOOLEAN : ServerSnapshot(v, reset)

Spec == Init /\ [][Next]_vars

(* The worker queue runs, writes are sent, a lost stream is opened again   *)
(* (WritePipeline, WatchListen), and the server answers and tells in the   *)
(* end of what it has.                                                     *)
Fairness ==
    /\ WF_vars(Open) /\ WF_vars(OpenWatch)
    /\ WF_vars(ServerCommits) /\ WF_vars(HandleWriteResult)
    /\ WF_vars(HandleSnapshot) /\ WF_vars(ServerSnapshot(Now, FALSE))

FairSpec == Spec /\ Fairness

-----------------------------------------------------------------------------
(* Properties.                                                             *)

Change == [run : Runs, at : [ver : Nat, text : Text]]

\* The types of the variables.
TypeOK ==
    /\ log \in Seq([run : Runs, text : Text])
    /\ saved \subseteq Runs /\ refused \subseteq saved
    /\ queue \in Seq(saved) /\ acks \in Seq(Nat) /\ Len(acks) <= Len(queue)
    /\ cache \in [Runs -> [ver : Nat, text : Text \cup {"unknown"},
                           committed : BOOLEAN]]
    /\ keys \subseteq Runs /\ limbo \subseteq Runs /\ mutated \subseteq Runs
    /\ docs \in [Runs -> Doc]
    /\ listening \in BOOLEAN /\ current \in BOOLEAN /\ watching \in BOOLEAN
    /\ resume \in Nat /\ token \in Nat /\ sent \in Nat /\ lastRemote \in Nat
    /\ down \in Seq([version : Nat, reset : BOOLEAN, docs : SUBSET Change,
                     lacks : SUBSET Runs])
    /\ events \in 0..MaxEvents

Shown(k) == docs[k] # NoDoc

(* A run that has been saved stays in the table, through its commit, the   *)
(* acknowledgement and the watch stream in any order, until somebody       *)
(* deletes it, the server refuses it (or is taken to) or the process ends. *)
NoFlicker ==
    [][\A k \in Runs :
          Shown(k) /\ ~Shown(k)' =>
              \/ k \in refused
              \/ \E i \in 1..Now : log[i] = [run |-> k, text |-> "gone"]
              \/ ~listening']_vars

(* While there is a table it has every run that has ever been saved here,  *)
(* however often the process ended since and wherever the write was then   *)
(* between the queue, the acknowledgement and the watch stream, except     *)
(* those that somebody deleted and those the server refused (or is taken   *)
(* to have refused).                                                       *)
SavedIsShown ==
    listening =>
        \A k \in saved \ refused :
            \/ Shown(k)
            \/ \E i \in 1..Now : log[i] = [run |-> k, text |-> "gone"]

FromCache == ~current \/ limbo # {}

(* A snapshot that is not from the cache shows of every run without local  *)
(* changes what the server had at the version of the snapshot, or a newer  *)
(* state of it; a deleted run does not linger in it.                       *)
SyncedIsServer ==
    ~FromCache =>
        \A k \in Runs \ mutated :
            \E v \in lastRemote..Now :
                IF Shown(k) THEN At(k, v).text = docs[k].text ELSE ~Alive(k, v)

(* A run is shown as the server's, without changes of this device that are *)
(* pending, only when the server has it.                                   *)
PendingUntilCommitted ==
    \A k \in Runs : Shown(k) /\ k \notin mutated =>
        \E i \in 1..Now : log[i].run = k

(* The view waits for the watch stream to say something of a document      *)
(* whose write has been acknowledged (ComputeDocumentChanges,              *)
(* ShouldWaitForSyncedDocument).                                           *)
Waits(k) ==
    docs[k].state = "local" /\ ~Contains(queue, k) /\ cache[k].committed

\* What a snapshot's metadata says, pending writes and from cache, is true.
MetadataIsTrue == SyncedIsServer /\ PendingUntilCommitted

(* The table shows what the server has, and as pending only the documents  *)
(* the view still waits for; what the server does not have is one of them. *)
ShowsServer ==
    /\ mutated = {k \in Runs : Waits(k)}
    /\ \A k \in Runs :
           IF Alive(k, Now) THEN docs[k].text = At(k, Now).text
           ELSE Shown(k) => Waits(k)

(* Once the queue is empty, the stream has said all there is and nothing   *)
(* is in limbo, whatever led there, the table shows what the server has.   *)
QuietIsRight ==
    /\ queue = << >>
    /\ watching /\ sent = Now /\ down = << >>
    /\ ~FromCache
    => ShowsServer

(* In the end nothing is pending and nothing in limbo, and the table shows *)
(* what the server has.                                                    *)
Converges == <>[](queue = << >> /\ ~FromCache /\ ShowsServer)

(* What the client promises of runs that were saved and of runs that were  *)
(* seen (read your writes, monotonic reads): a run is waiting while its    *)
(* write is in the queue, and the version that is seen of it is that in    *)
(* the cache.                                                              *)
Table == INSTANCE RunTable
             WITH open <- listening, waiting <- ToSet(queue),
                  seen <- [k \in Runs |-> cache[k].ver],
                  table <- [k \in Runs |-> docs[k].text]
ImplementsRunTable == Table!Spec

(* What the header of the snapshot's metadata says: a run with pending     *)
(* writes is shown without them once they have been committed.             *)
PendingEnds == \A k \in Runs : k \in mutated ~> k \notin mutated
=============================================================================
