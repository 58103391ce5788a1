---------------------------- MODULE RunLog_proofs ----------------------------
(***************************************************************************)
(* What the runs of miles and the local view below them guarantee for any  *)
(* runs, any number of saves and any number of disturbances.               *)
(*                                                                         *)
(* The inductive invariant IndInv relates what the client has to the log   *)
(* of the server: the cache (CacheTrue), the answers on their way          *)
(* (AcksTrue), the snapshots on their way (Chain), the keys of the target  *)
(* (Versions); and the view to what the client has (ViewTrue).  Owned adds *)
(* what is known of the texts and the queue of the runs saved here, Kept   *)
(* that none of them is lost.                                              *)
(***************************************************************************)
EXTENDS RunLog, WellFoundedInduction, TLAPS

-----------------------------------------------------------------------------
(* What a log has of a run at a version.                                   *)

\* A write in a log.
Entry == [run : Runs, text : Text]

\* At and Alive, of the log L.
AtOf(L, k, v) ==
    LET writes == {i \in 1..v : L[i].run = k}
    IN  IF writes = {} THEN [ver |-> 0, text |-> "gone"]
        ELSE LET i == CHOOSE i \in writes : \A j \in writes : j <= i
             IN  [ver |-> i, text |-> L[i].text]

\* A run is there at a version.
AliveOf(L, k, v) == AtOf(L, k, v).text # "gone"

\* A log that goes on from L.
Extends(M, L) == Len(L) <= Len(M) /\ \A i \in 1..Len(L) : M[i] = L[i]

\* The order the library takes for the naturals.
Below == {ss \in Nat \X Nat : ss[1] < ss[2]}

\* Every set of naturals has a least element.
LEMMA BelowIsWellFounded == IsWellFoundedOn(Below, Nat)
BY NatLessThanWellFounded DEF OpToRel, Below

\* A bounded set of numbers has a greatest one.
LEMMA Greatest ==
    ASSUME NEW n \in Nat, NEW S \in SUBSET (0..n), S # {}
    PROVE  \E x \in S : \A y \in S : y <= x
<1> DEFINE T == {n - x : x \in S}
<1>1. T \in SUBSET Nat /\ T # {}
  <2>1. \A x \in S : x \in Nat /\ n - x \in Nat
    OBVIOUS
  <2> QED
    BY <2>1
<1>2. PICK t \in T : \A y \in T : ~(<<y, t>> \in Below)
  BY <1>1, BelowIsWellFounded, WFMin
<1>3. PICK x \in S : t = n - x
  BY <1>2
<1>4. \A y \in S : y <= x
  <2> TAKE y \in S
  <2>1. n - y \in T /\ n - y \in Nat /\ n - x \in Nat
    OBVIOUS
  <2>2. ~(n - y < n - x)
    BY <1>2, <1>3, <2>1 DEF Below
  <2> QED
    BY <2>2
<1> QED
  BY <1>4

\* The members of a log.
LEMMA EntryFacts ==
    ASSUME NEW L \in Seq(Entry)
    PROVE  /\ Len(L) \in Nat
           /\ \A i \in 1..Len(L) : L[i].run \in Runs /\ L[i].text \in Text
           /\ \A i \in 1..Len(L) : L[i] = [run |-> L[i].run, text |-> L[i].text]
<1>1. \A e \in Entry : e.run \in Runs /\ e.text \in Text
                       /\ e = [run |-> e.run, text |-> e.text]
  BY DEF Entry
<1> QED
  BY <1>1

\* AtOf is the last write up to that version, if there is one.
LEMMA AtFacts ==
    ASSUME NEW L \in Seq(Entry), NEW k, NEW v \in 0..Len(L)
    PROVE  LET a == AtOf(L, k, v)
           IN  /\ a = [ver |-> a.ver, text |-> a.text]
               /\ a.ver \in 0..v /\ a.text \in Text
               /\ a.ver = 0 => a.text = "gone"
               /\ a.ver > 0 => L[a.ver].run = k /\ a.text = L[a.ver].text
               /\ \A j \in 1..v : L[j].run = k => j <= a.ver
<1> DEFINE W == {i \in 1..v : L[i].run = k}
           a == AtOf(L, k, v)
<1>1. Len(L) \in Nat /\ v \in Nat
  OBVIOUS
<1>2. CASE W = {}
  <2>1. a = [ver |-> 0, text |-> "gone"]
    BY <1>2 DEF AtOf
  <2>2. \A j \in 1..v : L[j].run # k
    BY <1>2
  <2> QED
    BY <1>1, <2>1, <2>2 DEF Text
<1>3. CASE W # {}
  <2> DEFINE i == CHOOSE i \in W : \A j \in W : j <= i
  <2>1. \E x \in W : \A y \in W : y <= x
    <3>1. W \in SUBSET (0..v)
      BY <1>1
    <3> HIDE DEF W
    <3> QED
      BY <1>1, <1>3, <3>1, Greatest
  <2>2. i \in W /\ \A j \in W : j <= i
    BY <2>1
  <2>3. a = [ver |-> i, text |-> L[i].text]
    BY <1>3 DEF AtOf
  <2> HIDE DEF i
  <2>4. i \in 1..v /\ i \in 1..Len(L) /\ L[i].run = k
    BY <1>1, <2>2
  <2>5. L[i].text \in Text
    BY <2>4, EntryFacts
  <2> HIDE DEF a
  <2>6. a.ver = i /\ a.text = L[i].text
    BY <2>3
  <2> QED
    BY <1>1, <2>2, <2>3, <2>4, <2>5, <2>6 DEF a
<1> QED
  BY <1>2, <1>3

\* And nothing else is.
LEMMA AtIs ==
    ASSUME NEW L \in Seq(Entry), NEW k, NEW v \in 0..Len(L), NEW i \in 0..v,
           i > 0 => L[i].run = k, \A j \in 1..v : L[j].run = k => j <= i
    PROVE  AtOf(L, k, v) = [ver |-> i, text |-> IF i = 0 THEN "gone" ELSE L[i].text]
<1> DEFINE a == AtOf(L, k, v)
<1>1. /\ a = [ver |-> a.ver, text |-> a.text]
      /\ a.ver \in 0..v
      /\ a.ver = 0 => a.text = "gone"
      /\ a.ver > 0 => L[a.ver].run = k /\ a.text = L[a.ver].text
      /\ \A j \in 1..v : L[j].run = k => j <= a.ver
  BY AtFacts
<1> HIDE DEF a
<1>2. v \in Nat /\ a.ver \in Nat /\ i \in Nat
  <2>1. Len(L) \in Nat
    OBVIOUS
  <2> QED
    BY <1>1, <2>1
<1>3. a.ver <= i
  <2>1. CASE a.ver = 0
    BY <1>2, <2>1
  <2>2. CASE a.ver > 0
    <3>1. a.ver \in 1..v
      BY <1>1, <1>2, <2>2
    <3> QED
      BY <1>1, <2>2, <3>1
  <2> QED
    BY <1>2, <2>1, <2>2
<1>4. i <= a.ver
  <2>1. CASE i = 0
    BY <1>2, <2>1
  <2>2. CASE i > 0
    <3>1. i \in 1..v
      BY <1>2, <2>2
    <3> QED
      BY <1>1, <2>2, <3>1
  <2> QED
    BY <1>2, <2>1, <2>2
<1>5. a.ver = i
  BY <1>2, <1>3, <1>4
<1>6. a.text = IF i = 0 THEN "gone" ELSE L[i].text
  BY <1>1, <1>2, <1>5
<1>7. a = [ver |-> i, text |-> IF i = 0 THEN "gone" ELSE L[i].text]
  BY <1>1, <1>5, <1>6
<1> QED
  BY <1>7 DEF a

\* Nothing has changed since the last write.
LEMMA AtBetween ==
    ASSUME NEW L \in Seq(Entry), NEW k, NEW w \in 0..Len(L), NEW v \in 0..w,
           AtOf(L, k, w).ver <= v
    PROVE  AtOf(L, k, v) = AtOf(L, k, w)
<1> DEFINE a == AtOf(L, k, w)
           i == a.ver
<1>1. /\ a = [ver |-> i, text |-> a.text]
      /\ i \in 0..w
      /\ i = 0 => a.text = "gone"
      /\ i > 0 => L[i].run = k /\ a.text = L[i].text
      /\ \A j \in 1..w : L[j].run = k => j <= i
  BY AtFacts
<1>2. i <= v
  OBVIOUS
<1> HIDE DEF i, a
<1>3. w \in Nat /\ v \in Nat /\ v \in 0..Len(L) /\ i \in 0..v
  <2>1. Len(L) \in Nat
    OBVIOUS
  <2> QED
    BY <1>1, <1>2, <2>1
<1>4. \A j \in 1..v : j \in 1..w
  BY <1>3
<1>5. AtOf(L, k, v) = [ver |-> i, text |-> IF i = 0 THEN "gone" ELSE L[i].text]
  BY <1>1, <1>3, <1>4, AtIs
<1>6. a = [ver |-> i, text |-> IF i = 0 THEN "gone" ELSE L[i].text]
  BY <1>1, <1>3
<1> QED
  BY <1>5, <1>6 DEF a

\* What a log has at a version does not change when the log goes on.
LEMMA AtStable ==
    ASSUME NEW L \in Seq(Entry), NEW M \in Seq(Entry), Extends(M, L),
           NEW k, NEW v \in 0..Len(L)
    PROVE  AtOf(M, k, v) = AtOf(L, k, v) /\ AliveOf(M, k, v) = AliveOf(L, k, v)
<1> DEFINE a == AtOf(L, k, v)
           i == a.ver
<1>1. /\ a = [ver |-> i, text |-> a.text]
      /\ i \in 0..v
      /\ i = 0 => a.text = "gone"
      /\ i > 0 => L[i].run = k /\ a.text = L[i].text
      /\ \A j \in 1..v : L[j].run = k => j <= i
  BY AtFacts
<1> HIDE DEF i, a
<1>2. /\ Len(L) \in Nat /\ Len(M) \in Nat /\ v \in Nat /\ i \in Nat
      /\ v \in 0..Len(M)
      /\ \A j \in 1..v : j \in 1..Len(L)
      /\ i > 0 => i \in 1..Len(L)
  <2>1. Len(L) \in Nat /\ Len(M) \in Nat
    OBVIOUS
  <2> QED
    BY <1>1, <2>1 DEF Extends
<1>3. /\ \A j \in 1..v : M[j] = L[j]
      /\ i > 0 => M[i] = L[i]
  BY <1>2 DEF Extends
<1>4. AtOf(M, k, v) = [ver |-> i, text |-> IF i = 0 THEN "gone" ELSE M[i].text]
  BY <1>1, <1>2, <1>3, AtIs
<1>5. a = [ver |-> i, text |-> IF i = 0 THEN "gone" ELSE M[i].text]
  BY <1>1, <1>2, <1>3
<1> QED
  BY <1>4, <1>5 DEF a, AliveOf

\* What was there and is not has been deleted by a write.
LEMMA AtGone ==
    ASSUME NEW L \in Seq(Entry), NEW k, NEW v \in 0..Len(L),
           ~AliveOf(L, k, v), NEW j \in 1..v, L[j].run = k
    PROVE  \E i \in 1..Len(L) : L[i] = [run |-> k, text |-> "gone"]
<1> DEFINE a == AtOf(L, k, v)
           i == a.ver
<1>1. /\ i \in 0..v /\ j <= i /\ a.text = "gone"
      /\ i > 0 => L[i].run = k /\ a.text = L[i].text
  BY AtFacts DEF AliveOf
<1> HIDE DEF i, a
<1>2. i \in 1..Len(L) /\ i > 0
  <2>1. Len(L) \in Nat
    OBVIOUS
  <2> QED
    BY <1>1, <2>1
<1>3. L[i] = [run |-> k, text |-> "gone"]
  BY <1>1, <1>2, EntryFacts
<1> QED
  BY <1>2, <1>3

\* What is there has been written.
LEMMA AtAlive ==
    ASSUME NEW L \in Seq(Entry), NEW k, NEW v \in 0..Len(L), AliveOf(L, k, v)
    PROVE  \E i \in 1..v : L[i].run = k
<1> DEFINE i == AtOf(L, k, v).ver
<1>1. i \in 0..v /\ i # 0 /\ (i > 0 => L[i].run = k)
  BY AtFacts DEF AliveOf
<1>2. i \in 1..v /\ i > 0
  <2>1. Len(L) \in Nat
    OBVIOUS
  <2> HIDE DEF i
  <2> QED
    BY <1>1, <2>1
<1> QED
  BY <1>1, <1>2

-----------------------------------------------------------------------------
(* The invariant.                                                          *)

\* What the cache has of a run is what the server had of it at that version.
CacheTrue ==
    \A k \in Runs :
        /\ cache[k].ver \in 0..Len(log)
        /\ cache[k].text = "unknown" => cache[k].ver = 0
        /\ cache[k].text # "unknown" =>
               AtOf(log, k, cache[k].ver).text = cache[k].text

\* An answer on its way is for the write that is as far in the queue.
AcksTrue ==
    \A i \in 1..Len(acks) :
        /\ acks[i] \in 0..Len(log)
        /\ acks[i] = 0 => queue[i] \in refused
        /\ acks[i] > 0 => log[acks[i]] = [run |-> queue[i], text |-> "mine"]

\* The runs a snapshot at version v names to one who knows version s.
Named(L, s, v) ==
    {k \in Runs : /\ AtOf(L, k, v).ver > s
                  /\ AliveOf(L, k, v) \/ AliveOf(L, k, s)}

\* The snapshot m says what has changed since version s, or all there is.
Follows(L, m, s) ==
    /\ m.version \in s..Len(L)
    /\ m.docs = {[run |-> k, at |-> AtOf(L, k, m.version)] :
                     k \in IF m.reset THEN {k \in Runs : AliveOf(L, k, m.version)}
                           ELSE Named(L, s, m.version)}
    /\ \A k \in m.lacks : ~AliveOf(L, k, m.version)

\* The version before the i-th snapshot on its way.
Before(i) == IF i = 1 THEN token ELSE down[i - 1].version

\* Each snapshot on its way goes on from the one before.
Chain ==
    /\ \A i \in 1..Len(down) : Follows(log, down[i], Before(i))
    /\ watching => listening /\ sent = Before(Len(down) + 1)
    /\ ~watching => down = << >>

\* The keys are the runs the server had at version v, and the cache has them
\* as they were then, or newer.
Keyed(v) ==
    \A k \in Runs :
        /\ k \in keys <=> AliveOf(log, k, v)
        /\ k \in keys => /\ cache[k].text # "unknown"
                         /\ cache[k].ver >= AtOf(log, k, v).ver

\* The keys are those of the resume token, the one in memory and the one on
\* disk, although that may be older.
Versions ==
    /\ token \in 0..Len(log) /\ resume \in 0..Len(log)
    /\ lastRemote \in 0..Len(log)
    /\ current => token = lastRemote
    /\ Keyed(token) /\ Keyed(resume)

\* The document d of the view, mutated or not, is as good as new.
Fits(d, mut, new) ==
    /\ d # NoDoc <=> new # NoDoc
    /\ d.state = "none" => d = NoDoc
    /\ mut <=> d.state = "local"
    /\ mut => new.state \in {"local", "committed"}
    /\ ~mut /\ d # NoDoc => d.text = new.text /\ new.state # "local"

\* The view and its limbo are as the disk wants them.
ViewTrue ==
    /\ listening =>
           \A k \in Runs : Fits(docs[k], k \in mutated, Local(k, queue, cache))
    /\ current => limbo = {k \in Runs \ keys :
                               docs[k].state \in {"committed", "synced"}}
    /\ ~listening => docs = [k \in Runs |-> NoDoc] /\ mutated = {} /\ ~current

\* The inductive invariant.
IndInv == TypeOK /\ CacheTrue /\ AcksTrue /\ Chain /\ Versions /\ ViewTrue

\* What the cache has of a run, and a snapshot on its way.
Cacheable == [ver : Nat, text : Text \cup {"unknown"}, committed : BOOLEAN]
Message   == [version : Nat, reset : BOOLEAN, docs : SUBSET Change,
              lacks : SUBSET Runs]

-----------------------------------------------------------------------------
(* What an invariant depends on.                                           *)

\* At and Alive are those of the log.
LEMMA AtLog == \A k, v : At(k, v) = AtOf(log, k, v) /\ (Alive(k, v) <=> AliveOf(log, k, v))
BY DEF At, AtOf, Alive, AliveOf

\* The types, one by one.
LEMMA Types ==
    ASSUME TypeOK
    PROVE  /\ log \in Seq(Entry) /\ Len(log) \in Nat
           /\ saved \in SUBSET Runs /\ queue \in Seq(saved) /\ Len(queue) \in Nat
           /\ \A i \in 1..Len(queue) : queue[i] \in Runs /\ queue[i] \in saved
           /\ acks \in Seq(Nat) /\ Len(acks) \in Nat /\ Len(acks) <= Len(queue)
           /\ cache \in [Runs -> Cacheable]
           /\ keys \in SUBSET Runs /\ limbo \in SUBSET Runs
           /\ mutated \in SUBSET Runs /\ docs \in [Runs -> Doc]
           /\ down \in Seq(Message) /\ Len(down) \in Nat
           /\ token \in Nat /\ resume \in Nat /\ lastRemote \in Nat /\ sent \in Nat
           /\ listening \in BOOLEAN /\ current \in BOOLEAN /\ watching \in BOOLEAN
<1>1. /\ log \in Seq(Entry) /\ saved \in SUBSET Runs /\ queue \in Seq(saved)
      /\ acks \in Seq(Nat) /\ Len(acks) <= Len(queue)
      /\ cache \in [Runs -> Cacheable]
      /\ keys \in SUBSET Runs /\ limbo \in SUBSET Runs
      /\ mutated \in SUBSET Runs /\ docs \in [Runs -> Doc]
      /\ down \in Seq(Message)
      /\ token \in Nat /\ resume \in Nat /\ lastRemote \in Nat /\ sent \in Nat
      /\ listening \in BOOLEAN /\ current \in BOOLEAN /\ watching \in BOOLEAN
  BY DEF TypeOK, Entry, Cacheable, Message
<1>2. Len(log) \in Nat /\ Len(queue) \in Nat /\ Len(acks) \in Nat /\ Len(down) \in Nat
  BY <1>1
<1>3. \A i \in 1..Len(queue) : queue[i] \in saved
  BY <1>1
<1> QED
  BY <1>1, <1>2, <1>3

\* The fields of what the cache has.
LEMMA CacheTypes ==
    ASSUME NEW c \in [Runs -> Cacheable], NEW k \in Runs
    PROVE  /\ c[k].ver \in Nat /\ c[k].text \in Text \cup {"unknown"}
           /\ c[k].committed \in BOOLEAN
BY DEF Cacheable

\* Disturbances are bounded.
LEMMA Counted ==
    ASSUME TypeOK, Event
    PROVE  events' \in 0..MaxEvents
BY RunLogAssumption DEF TypeOK, Event

\* CacheTrue depends on the log and the cache alone.
LEMMA CacheStill ==
    ASSUME CacheTrue, UNCHANGED <<log, cache>>
    PROVE  CacheTrue'
BY DEF CacheTrue

\* AcksTrue depends on the writes and their answers alone.
LEMMA AcksStill ==
    ASSUME AcksTrue, UNCHANGED <<log, acks, queue>>, refused \subseteq refused'
    PROVE  AcksTrue'
BY DEF AcksTrue

\* Chain depends on the watch stream alone.
LEMMA ChainStill ==
    ASSUME Chain, UNCHANGED <<log, down, token, watching, sent>>,
           watching => listening'
    PROVE  Chain'
BY DEF Chain, Before

\* Versions depends on the target's keys and the cache alone.
LEMMA VersionsStill ==
    ASSUME Versions, UNCHANGED <<log, keys, cache, token, resume, lastRemote>>,
           current' => current
    PROVE  Versions'
BY DEF Versions, Keyed

\* ViewTrue depends on the view and what it shows alone.
LEMMA ViewStill ==
    ASSUME ViewTrue, UNCHANGED <<listening, viewVars, queue, cache, keys>>
    PROVE  ViewTrue'
BY DEF ViewTrue, viewVars, Local

\* The log grows, and all that has been said of it remains true.
LEMMA LogGrows ==
    ASSUME TypeOK, CacheTrue, Chain, Versions, ViewTrue,
           NEW e \in Entry, log' = Append(log, e),
           UNCHANGED <<diskVars, listening, viewVars, token, watchVars>>
    PROVE  /\ log' \in Seq(Entry) /\ Len(log') = Len(log) + 1
           /\ \A i \in 1..Len(log) : log'[i] = log[i]
           /\ log'[Len(log) + 1] = e
           /\ CacheTrue' /\ Chain' /\ Versions' /\ ViewTrue'
<1>1. /\ log \in Seq(Entry) /\ Len(log) \in Nat /\ cache \in [Runs -> Cacheable]
      /\ down \in Seq(Message) /\ Len(down) \in Nat /\ token \in Nat
  BY Types
<1>2. /\ log' \in Seq(Entry) /\ Len(log') = Len(log) + 1
      /\ \A i \in 1..Len(log) : log'[i] = log[i]
      /\ log'[Len(log) + 1] = e
  BY <1>1
<1>3. Extends(log', log)
  BY <1>1, <1>2 DEF Extends
<1>4. \A k : \A v \in 0..Len(log) :
          AtOf(log', k, v) = AtOf(log, k, v) /\ AliveOf(log', k, v) = AliveOf(log, k, v)
  BY <1>1, <1>2, <1>3, AtStable
<1>5. \A v \in 0..Len(log) : v \in 0..Len(log')
  BY <1>1, <1>2
<1>6. UNCHANGED <<queue, cache, keys, resume, lastRemote, listening, docs,
                  mutated, current, limbo, token, watching, sent, down>>
  BY DEF diskVars, viewVars, watchVars
<1>7. CacheTrue'
  BY <1>4, <1>5, <1>6 DEF CacheTrue
<1>8. ASSUME NEW i \in 1..Len(down) PROVE Follows(log', down[i], Before(i))
  <2> DEFINE m == down[i]
             s == Before(i)
  <2>0. down[i] \in Message
    BY <1>1
  <2>1. m \in Message /\ m.version \in Nat
    BY <2>0 DEF Message
  <2>2. s \in Nat
    <3>1. CASE i = 1
      BY <1>1, <3>1 DEF Before
    <3>2. CASE i # 1
      <4>1. i - 1 \in 1..Len(down)
        BY <1>1, <3>2
      <4>2. down[i - 1] \in Message
        BY <1>1, <4>1
      <4> QED
        BY <3>2, <4>2 DEF Before, Message
    <3> QED
      BY <3>1, <3>2
  <2>3. Follows(log, m, s)
    BY DEF Chain
  <2> HIDE DEF m, s
  <2>4. /\ m.version \in s..Len(log)
        /\ m.version \in 0..Len(log) /\ s \in 0..Len(log)
        /\ m.version \in s..Len(log')
    BY <1>1, <1>2, <2>1, <2>2, <2>3 DEF Follows
  <2>5. /\ Named(log', s, m.version) = Named(log, s, m.version)
        /\ \A k : AtOf(log', k, m.version) = AtOf(log, k, m.version)
        /\ \A k : AliveOf(log', k, m.version) = AliveOf(log, k, m.version)
    BY <1>4, <2>4 DEF Named
  <2>6. m.docs = {[run |-> k, at |-> AtOf(log', k, m.version)] :
                     k \in IF m.reset THEN {k \in Runs : AliveOf(log', k, m.version)}
                           ELSE Named(log', s, m.version)}
    BY <2>3, <2>5 DEF Follows
  <2>7. \A k \in m.lacks : ~AliveOf(log', k, m.version)
    BY <2>3, <2>5 DEF Follows
  <2>8. Follows(log', m, s)
    BY <2>4, <2>6, <2>7 DEF Follows
  <2> QED
    BY <2>8 DEF m, s
<1>9. Chain'
  BY <1>6, <1>8 DEF Chain, Before
<1>10. ASSUME NEW v \in 0..Len(log), Keyed(v) PROVE Keyed(v)'
  BY <1>4, <1>6, <1>10 DEF Keyed
<1>11. Versions'
  <2>1. Keyed(token)' /\ Keyed(resume)'
    <3>1. /\ \A k \in Runs :
                /\ k \in keys <=> AliveOf(log', k, token)
                /\ k \in keys => /\ cache[k].text # "unknown"
                                 /\ cache[k].ver >= AtOf(log', k, token).ver
          /\ \A k \in Runs :
                /\ k \in keys <=> AliveOf(log', k, resume)
                /\ k \in keys => /\ cache[k].text # "unknown"
                                 /\ cache[k].ver >= AtOf(log', k, resume).ver
      BY <1>4 DEF Versions, Keyed
    <3> QED
      BY <1>6, <3>1 DEF Keyed
  <2> QED
    BY <1>5, <1>6, <2>1 DEF Versions
<1>12. ViewTrue'
  BY <1>6, ViewStill DEF viewVars
<1> QED
  BY <1>2, <1>7, <1>9, <1>11, <1>12

-----------------------------------------------------------------------------
(* The view.                                                               *)

\* What LocalDocumentsView has of a run.
LEMMA LocalFacts ==
    ASSUME NEW q, NEW c \in [Runs -> Cacheable], NEW k \in Runs
    PROVE  /\ Local(k, q, c) \in Doc
           /\ Local(k, q, c).state = "none" => Local(k, q, c) = NoDoc
           /\ Local(k, q, c).state = "local" <=> Contains(q, k)
           /\ ~Contains(q, k) =>
                  /\ Local(k, q, c) = NoDoc <=> c[k].text \in {"unknown", "gone"}
                  /\ Local(k, q, c) # NoDoc => Local(k, q, c).text = c[k].text
<1> DEFINE new == Local(k, q, c)
<1>1. c[k].text \in {"mine", "other", "gone", "unknown"}
  BY CacheTypes DEF Text
<1>2. CASE Contains(q, k)
  BY <1>2 DEF Local, Doc, NoDoc
<1>3. CASE ~Contains(q, k) /\ c[k].text \in {"unknown", "gone"}
  BY <1>3 DEF Local, Doc, NoDoc
<1>4. CASE ~Contains(q, k) /\ c[k].text \in {"mine", "other"}
  <2>1. CASE c[k].committed
    <3>1. new = [text |-> c[k].text, state |-> "committed"]
      BY <1>4, <2>1 DEF Local
    <3> QED
      BY <1>4, <3>1 DEF Doc, NoDoc
  <2>2. CASE ~c[k].committed
    <3>1. new = [text |-> c[k].text, state |-> "synced"]
      BY <1>4, <2>2 DEF Local
    <3> QED
      BY <1>4, <3>1 DEF Doc, NoDoc
  <2> QED
    BY <2>1, <2>2
<1> QED
  BY <1>1, <1>2, <1>3, <1>4

\* Two documents are the same if their texts and states are.
LEMMA SameDoc ==
    ASSUME NEW d \in Doc, NEW e \in Doc, d.text = e.text, d.state = e.state
    PROVE  d = e
BY DEF Doc

\* ComputeDocumentChanges leaves a document as good as the new one, whether
\* it applies the change or not.
LEMMA AppliedFits ==
    ASSUME NEW k \in Runs, NEW new \in Doc, docs[k] \in Doc,
           new.state = "none" => new = NoDoc,
           docs[k].state = "none" => docs[k] = NoDoc,
           k \in mutated <=> docs[k].state = "local"
    PROVE  /\ Applied(k, new) => Fits(new, new.state = "local", new)
           /\ ~Applied(k, new) => Fits(docs[k], k \in mutated, new)
<1>1. NoDoc.state = "none" /\ NoDoc.text = "none"
  BY DEF NoDoc
<1>2. Fits(new, new.state = "local", new)
  BY <1>1 DEF Fits
<1>3. ASSUME ~Applied(k, new) PROVE Fits(docs[k], k \in mutated, new)
  <2>1. CASE docs[k] = NoDoc \/ new = NoDoc
    <3>1. docs[k] = NoDoc /\ new = NoDoc
      BY <1>3, <2>1 DEF Applied
    <3> QED
      BY <1>1, <3>1 DEF Fits
  <2>2. CASE docs[k] # NoDoc /\ new # NoDoc /\ docs[k].text # new.text
    <3>1. docs[k].state = "local" /\ new.state = "committed"
      BY <1>3, <2>2 DEF Applied
    <3> QED
      BY <2>2, <3>1 DEF Fits
  <2>3. CASE docs[k] # NoDoc /\ new # NoDoc /\ docs[k].text = new.text
    <3>1. (k \in mutated) <=>
              (new.state = "local" \/ (k \in mutated /\ new.state = "committed"))
      BY <1>3, <2>3 DEF Applied
    <3> QED
      BY <2>3, <3>1 DEF Fits
  <2> QED
    BY <2>1, <2>2, <2>3
<1> QED
  BY <1>2, <1>3

\* A new view fits all documents: those it has been told of, and the others
\* if they have not changed.
LEMMA ViewFacts ==
    ASSUME NEW ks \in SUBSET Runs, NEW cur \in BOOLEAN, TypeOK,
           cache' \in [Runs -> Cacheable], ViewOf(ks, cur),
           \A k \in Runs : /\ docs[k].state = "none" => docs[k] = NoDoc
                           /\ k \in mutated <=> docs[k].state = "local",
           \A k \in Runs \ ks :
               Fits(docs[k], k \in mutated, Local(k, queue', cache'))
    PROVE  /\ docs' \in [Runs -> Doc] /\ mutated' \in SUBSET Runs
           /\ limbo' \in SUBSET Runs /\ current' = cur
           /\ \A k \in Runs :
                  Fits(docs'[k], k \in mutated', Local(k, queue', cache'))
           /\ cur => limbo' = {k \in Runs \ keys' :
                                   docs'[k].state \in {"committed", "synced"}}
<1> DEFINE New(k) == Local(k, queue', cache')
           hits == {k \in ks : Applied(k, New(k))}
<1>1. docs \in [Runs -> Doc] /\ mutated \in SUBSET Runs /\ limbo \in SUBSET Runs
  BY Types
<1>2. \A k \in Runs : New(k) \in Doc /\ (New(k).state = "none" => New(k) = NoDoc)
  BY LocalFacts
<1>3. /\ docs' = [k \in Runs |-> IF k \in hits THEN New(k) ELSE docs[k]]
      /\ mutated' = (mutated \ hits) \cup {k \in hits : New(k).state = "local"}
      /\ current' = cur
      /\ limbo' = IF cur THEN {k \in Runs \ keys' :
                                   docs'[k].state \in {"committed", "synced"}}
                  ELSE limbo
  BY DEF ViewOf
<1>4. hits \in SUBSET ks
  OBVIOUS
<1>5. \A k \in ks : k \in hits <=> Applied(k, New(k))
  OBVIOUS
<1> HIDE DEF hits, New
<1>6. docs' \in [Runs -> Doc] /\ mutated' \in SUBSET Runs /\ limbo' \in SUBSET Runs
  <2>1. docs' \in [Runs -> Doc]
    BY <1>1, <1>2, <1>3
  <2>2. mutated' \in SUBSET Runs
    BY <1>1, <1>3, <1>4
  <2>3. limbo' \in SUBSET Runs
    BY <1>1, <1>3
  <2> QED
    BY <2>1, <2>2, <2>3
<1>7. ASSUME NEW k \in Runs PROVE Fits(docs'[k], k \in mutated', New(k))
  <2>1. CASE k \in hits
    <3>1. docs'[k] = New(k) /\ (k \in mutated' <=> New(k).state = "local")
      BY <1>3, <2>1
    <3>2. Fits(New(k), New(k).state = "local", New(k))
      BY <1>1, <1>2, <1>4, <1>5, <2>1, AppliedFits
    <3> QED
      BY <3>1, <3>2 DEF Fits
  <2>2. CASE k \notin hits
    <3>1. docs'[k] = docs[k] /\ (k \in mutated' <=> k \in mutated)
      BY <1>3, <2>2
    <3>2. Fits(docs[k], k \in mutated, New(k))
      <4>1. CASE k \in ks
        BY <1>1, <1>2, <1>5, <2>2, <4>1, AppliedFits
      <4>2. CASE k \notin ks
        BY <4>2 DEF New
      <4> QED
        BY <4>1, <4>2
    <3> QED
      BY <3>1, <3>2 DEF Fits
  <2> QED
    BY <2>1, <2>2
<1> QED
  BY <1>3, <1>6, <1>7 DEF New

-----------------------------------------------------------------------------
(* Steps of the server and of the streams.                                 *)

\* The server's answer is for the write that is as far in the queue.
LEMMA NextWriteFacts ==
    ASSUME TypeOK, Len(acks) < Len(queue)
    PROVE  /\ Len(acks) + 1 \in 1..Len(queue)
           /\ NextWrite = queue[Len(acks) + 1]
           /\ NextWrite \in saved /\ NextWrite \in Runs
<1>1. Len(acks) + 1 \in 1..Len(queue)
  BY Types
<1> QED
  BY <1>1, Types DEF NextWrite

\* An answer more is on its way.
LEMMA AnswersKeep ==
    ASSUME TypeOK, AcksTrue, NEW ver \in Nat, Answers(ver),
           log' \in Seq(Entry), Len(log') \in Nat, Len(log) <= Len(log'),
           \A i \in 1..Len(log) : log'[i] = log[i],
           refused \subseteq refused', ver \in 0..Len(log'),
           ver = 0 => NextWrite \in refused',
           ver > 0 => log'[ver] = [run |-> NextWrite, text |-> "mine"]
    PROVE  /\ acks' \in Seq(Nat) /\ Len(acks') <= Len(queue')
           /\ AcksTrue'
<1>1. /\ acks \in Seq(Nat) /\ Len(acks) \in Nat /\ Len(queue) \in Nat
      /\ log \in Seq(Entry) /\ Len(log) \in Nat
  BY Types
<1>2. Len(acks) < Len(queue) /\ acks' = Append(acks, ver) /\ queue' = queue
  BY DEF Answers, diskVars
<1>3. /\ acks' \in Seq(Nat) /\ Len(acks') = Len(acks) + 1
      /\ \A i \in 1..Len(acks) : acks'[i] = acks[i]
      /\ acks'[Len(acks) + 1] = ver
  BY <1>1, <1>2
<1>4. ASSUME NEW i \in 1..Len(acks')
      PROVE  /\ acks'[i] \in 0..Len(log')
             /\ acks'[i] = 0 => queue'[i] \in refused'
             /\ acks'[i] > 0 => log'[acks'[i]] = [run |-> queue'[i], text |-> "mine"]
  <2>1. CASE i \in 1..Len(acks)
    <3> DEFINE a == acks[i]
    <3>1. /\ a \in 0..Len(log)
          /\ a = 0 => queue[i] \in refused
          /\ a > 0 => log[a] = [run |-> queue[i], text |-> "mine"]
      BY <2>1 DEF AcksTrue
    <3>2. acks'[i] = a
      BY <1>3, <2>1
    <3> HIDE DEF a
    <3>3. a \in 0..Len(log') /\ (a > 0 => a \in 1..Len(log))
      BY <1>1, <3>1
    <3> QED
      BY <1>2, <3>1, <3>2, <3>3
  <2>2. CASE i = Len(acks) + 1
    <3>1. acks'[i] = ver /\ queue'[i] = NextWrite
      BY <1>2, <1>3, <2>2 DEF NextWrite
    <3> QED
      BY <3>1
  <2>3. i \in 1..Len(acks) \/ i = Len(acks) + 1
    BY <1>1, <1>3
  <2> QED
    BY <2>1, <2>2, <2>3
<1>5. AcksTrue'
  BY <1>4 DEF AcksTrue
<1>6. Len(acks') <= Len(queue')
  BY <1>1, <1>2, <1>3
<1> QED
  BY <1>3, <1>5, <1>6

\* A commit adds the write to the log and its version to the answers.
LEMMA ServerCommitsKeeps ==
    ASSUME IndInv, ServerCommits
    PROVE  IndInv'
<1> USE DEF IndInv
<1>1. log \in Seq(Entry) /\ Len(log) \in Nat
  BY Types
<1> DEFINE e == [run |-> NextWrite, text |-> "mine"]
<1>2. e \in Entry
  <2>1. NextWrite \in Runs
    BY NextWriteFacts DEF ServerCommits, Answers
  <2> QED
    BY <2>1 DEF Entry, Text
<1>3. /\ log' = Append(log, e) /\ Answers(Len(log) + 1)
      /\ UNCHANGED <<refused, events, saved, diskVars, listening, viewVars,
                     token, watchVars>>
  BY DEF ServerCommits, Answers, Now
<1> HIDE DEF IndInv
<1> HIDE DEF e
<1>4. /\ log' \in Seq(Entry) /\ Len(log') = Len(log) + 1
      /\ \A i \in 1..Len(log) : log'[i] = log[i]
      /\ log'[Len(log) + 1] = e
      /\ CacheTrue' /\ Chain' /\ Versions' /\ ViewTrue'
  BY <1>2, <1>3, LogGrows DEF IndInv
<1>5. /\ Len(log) + 1 \in Nat /\ Len(log') \in Nat /\ Len(log) <= Len(log')
      /\ Len(log) + 1 \in 0..Len(log') /\ Len(log) + 1 # 0
  BY <1>1, <1>4
<1>6. acks' \in Seq(Nat) /\ Len(acks') <= Len(queue') /\ AcksTrue'
  <2>1. TypeOK /\ AcksTrue
    BY DEF IndInv
  <2>2. refused \subseteq refused'
    BY <1>3
  <2> QED
    BY <1>3, <1>4, <1>5, <2>1, <2>2, AnswersKeep DEF e
<1>7. TypeOK'
  BY <1>3, <1>4, <1>6 DEF IndInv, TypeOK, Entry, diskVars, viewVars, watchVars
<1> QED
  BY <1>4, <1>6, <1>7 DEF IndInv

\* A refusal adds an answer without a version.
LEMMA ServerRefusesKeeps ==
    ASSUME IndInv, ServerRefuses
    PROVE  IndInv'
<1>1. /\ TypeOK /\ CacheTrue /\ AcksTrue /\ Chain /\ Versions /\ ViewTrue
  BY DEF IndInv
<1>2. log \in Seq(Entry) /\ Len(log) \in Nat
  BY <1>1, Types
<1>3. /\ Answers(0) /\ Event /\ refused' = refused \cup {NextWrite}
      /\ UNCHANGED <<log, saved, queue, cache, keys, resume, lastRemote, listening,
                     docs, mutated, current, limbo, token, watching, sent, down>>
  BY DEF ServerRefuses, Answers, diskVars, viewVars, watchVars
<1>4. NextWrite \in saved
  BY <1>1, <1>3, NextWriteFacts DEF Answers
<1>5. acks' \in Seq(Nat) /\ Len(acks') <= Len(queue') /\ AcksTrue'
  <2>1. 0 \in Nat /\ 0 \in 0..Len(log')
    BY <1>2, <1>3
  <2> QED
    BY <1>1, <1>2, <1>3, <2>1, AnswersKeep
<1>6. TypeOK'
  <2>1. events' \in 0..MaxEvents
    BY <1>1, <1>3, Counted
  <2> QED
    BY <1>1, <1>3, <1>4, <1>5, <2>1 DEF TypeOK
<1>7. CacheTrue' /\ Chain' /\ Versions' /\ ViewTrue'
  <2>1. CacheTrue'
    BY <1>1, <1>3, CacheStill
  <2>2. Chain'
    <3>1. watching => listening'
      BY <1>1, <1>3 DEF Chain
    <3> QED
      BY <1>1, <1>3, <3>1, ChainStill
  <2>3. Versions'
    BY <1>1, <1>3, VersionsStill
  <2>4. ViewTrue'
    BY <1>1, <1>3, ViewStill DEF viewVars
  <2> QED
    BY <2>1, <2>2, <2>3, <2>4
<1> QED
  BY <1>5, <1>6, <1>7 DEF IndInv

\* A refusal that takes the place of the answers before it is one of a write
\* that counts as refused.
LEMMA AnswersCutShortKeeps ==
    ASSUME IndInv, AnswersCutShort
    PROVE  IndInv'
<1>1. /\ TypeOK /\ CacheTrue /\ AcksTrue /\ Chain /\ Versions /\ ViewTrue
  BY DEF IndInv
<1>2. /\ Contains(acks, 0) /\ acks' = <<0>> /\ refused' = refused \cup {Head(queue)}
      /\ UNCHANGED <<log, saved, queue, cache, keys, resume, lastRemote, listening,
                     docs, mutated, current, limbo, token, watching, sent, down,
                     events>>
  BY DEF AnswersCutShort, diskVars, viewVars, watchVars
<1>3. /\ 1 \in 1..Len(queue) /\ Head(queue) = queue[1] /\ Head(queue) \in saved
      /\ Len(log) \in Nat
  <2>1. /\ acks \in Seq(Nat) /\ Len(acks) \in Nat /\ Len(queue) \in Nat
        /\ Len(acks) <= Len(queue) /\ queue \in Seq(saved) /\ Len(log) \in Nat
    BY <1>1, Types
  <2>2. \E i \in 1..Len(acks) : acks[i] = 0
    BY <1>2 DEF Contains
  <2>3. 1 \in 1..Len(queue)
    BY <2>1, <2>2
  <2>4. queue[1] \in saved /\ Head(queue) = queue[1]
    BY <2>1, <2>3
  <2> QED
    BY <2>1, <2>3, <2>4
<1>4. acks' \in Seq(Nat) /\ Len(acks') = 1 /\ acks'[1] = 0
  BY <1>2
<1>5. TypeOK'
  <2>1. Len(acks') <= Len(queue')
    <3>1. Len(queue) \in Nat
      BY <1>1, Types
    <3> QED
      BY <1>2, <1>3, <1>4, <3>1
  <2> QED
    BY <1>1, <1>2, <1>3, <1>4, <2>1 DEF TypeOK
<1>6. AcksTrue'
  <2>1. ASSUME NEW i \in 1..Len(acks')
        PROVE  /\ acks'[i] \in 0..Len(log')
               /\ acks'[i] = 0 => queue'[i] \in refused'
               /\ acks'[i] > 0 => log'[acks'[i]] = [run |-> queue'[i], text |-> "mine"]
    <3>1. i = 1 /\ acks'[i] = 0 /\ queue'[i] \in refused'
      BY <1>2, <1>3, <1>4
    <3>2. acks'[i] \in 0..Len(log') /\ ~(acks'[i] > 0)
      BY <1>2, <1>3, <3>1
    <3> QED
      BY <3>1, <3>2
  <2> QED
    BY <2>1 DEF AcksTrue
<1>7. CacheTrue' /\ Chain' /\ Versions' /\ ViewTrue'
  <2>1. CacheTrue'
    BY <1>1, <1>2, CacheStill
  <2>2. Chain'
    <3>1. watching => listening'
      BY <1>1, <1>2 DEF Chain
    <3> QED
      BY <1>1, <1>2, <3>1, ChainStill
  <2>3. Versions'
    BY <1>1, <1>2, VersionsStill
  <2>4. ViewTrue'
    BY <1>1, <1>2, ViewStill DEF viewVars
  <2> QED
    BY <2>1, <2>2, <2>3, <2>4
<1> QED
  BY <1>5, <1>6, <1>7 DEF IndInv

\* Without the stream no answer is on its way.
LEMMA WriteStreamLostKeeps ==
    ASSUME IndInv, WriteStreamLost
    PROVE  IndInv'
<1>1. /\ TypeOK /\ CacheTrue /\ AcksTrue /\ Chain /\ Versions /\ ViewTrue
  BY DEF IndInv
<1>2. /\ Event /\ acks' = << >>
      /\ UNCHANGED <<log, refused, saved, queue, cache, keys, resume, lastRemote,
                     listening, docs, mutated, current, limbo, token, watching,
                     sent, down>>
  BY DEF WriteStreamLost, diskVars, viewVars, watchVars
<1>3. TypeOK'
  <2>1. events' \in 0..MaxEvents
    BY <1>1, <1>2, Counted
  <2>2. Len(queue) \in Nat
    BY <1>1, Types
  <2>3. acks' \in Seq(Nat) /\ Len(acks') <= Len(queue')
    BY <1>2, <2>2
  <2> QED
    BY <1>1, <1>2, <2>1, <2>3 DEF TypeOK
<1>4. AcksTrue'
  <2>1. Len(acks') = 0
    BY <1>2
  <2> QED
    BY <2>1 DEF AcksTrue
<1>5. CacheTrue' /\ Chain' /\ Versions' /\ ViewTrue'
  <2>1. CacheTrue'
    BY <1>1, <1>2, CacheStill
  <2>2. Chain'
    <3>1. watching => listening'
      BY <1>1, <1>2 DEF Chain
    <3> QED
      BY <1>1, <1>2, <3>1, ChainStill
  <2>3. Versions'
    BY <1>1, <1>2, VersionsStill
  <2>4. ViewTrue'
    BY <1>1, <1>2, ViewStill DEF viewVars
  <2> QED
    BY <2>1, <2>2, <2>3, <2>4
<1> QED
  BY <1>3, <1>4, <1>5 DEF IndInv

\* A stream that opens is told the resume token.
LEMMA OpenWatchKeeps ==
    ASSUME IndInv, OpenWatch
    PROVE  IndInv'
<1>1. /\ TypeOK /\ CacheTrue /\ AcksTrue /\ Chain /\ Versions /\ ViewTrue
  BY DEF IndInv
<1>2. /\ listening /\ ~watching /\ watching' = TRUE /\ sent' = token
      /\ UNCHANGED <<log, refused, saved, queue, cache, keys, resume, lastRemote,
                     listening, docs, mutated, current, limbo, token, acks, down,
                     events>>
  BY DEF OpenWatch, diskVars, viewVars
<1>3. TypeOK'
  BY <1>1, <1>2 DEF TypeOK
<1>4. AcksTrue'
  BY <1>1, <1>2, AcksStill
<1>5. Chain'
  <2>1. down' = << >> /\ Len(down') = 0
    BY <1>1, <1>2 DEF Chain
  <2>2. sent' = Before(Len(down) + 1)'
    BY <1>2, <2>1 DEF Before
  <2>3. \A i \in 1..Len(down') : FALSE
    BY <2>1
  <2> QED
    BY <1>2, <2>1, <2>2, <2>3 DEF Chain
<1>6. CacheTrue' /\ Versions' /\ ViewTrue'
  BY <1>1, <1>2, CacheStill, VersionsStill, ViewStill DEF viewVars
<1> QED
  BY <1>3, <1>4, <1>5, <1>6 DEF IndInv

\* Without the stream no snapshot is on its way.
LEMMA WatchLostKeeps ==
    ASSUME IndInv, WatchLost
    PROVE  IndInv'
<1>1. /\ TypeOK /\ CacheTrue /\ AcksTrue /\ Chain /\ Versions /\ ViewTrue
  BY DEF IndInv
<1>2. /\ Event /\ watching' = FALSE /\ down' = << >>
      /\ UNCHANGED <<log, refused, saved, queue, cache, keys, resume, lastRemote,
                     listening, docs, mutated, current, limbo, token, acks, sent>>
  BY DEF WatchLost, diskVars, viewVars
<1>3. TypeOK'
  <2>1. events' \in 0..MaxEvents
    BY <1>1, <1>2, Counted
  <2>2. down' \in Seq(Message)
    BY <1>2
  <2> QED
    BY <1>1, <1>2, <2>1, <2>2 DEF TypeOK, Message
<1>4. AcksTrue'
  BY <1>1, <1>2, AcksStill
<1>5. Chain'
  <2>1. Len(down') = 0
    BY <1>2
  <2>2. \A i \in 1..Len(down') : FALSE
    BY <2>1
  <2> QED
    BY <1>2, <2>2 DEF Chain
<1>6. CacheTrue' /\ Versions' /\ ViewTrue'
  BY <1>1, <1>2, CacheStill, VersionsStill, ViewStill DEF viewVars
<1> QED
  BY <1>3, <1>4, <1>5, <1>6 DEF IndInv

\* What is left of the process is what is on disk.
LEMMA RestartKeeps ==
    ASSUME IndInv, Restart
    PROVE  IndInv'
<1>1. /\ TypeOK /\ CacheTrue /\ AcksTrue /\ Chain /\ Versions /\ ViewTrue
  BY DEF IndInv
<1>2. /\ Event /\ listening' = FALSE /\ docs' = [k \in Runs |-> NoDoc]
      /\ mutated' = {} /\ current' = FALSE /\ limbo' = {} /\ token' = resume
      /\ acks' = << >> /\ watching' = FALSE /\ down' = << >>
      /\ UNCHANGED <<log, refused, saved, queue, cache, keys, resume, lastRemote,
                     sent>>
  BY DEF Restart, diskVars
<1>3. Len(acks') = 0 /\ Len(down') = 0
  BY <1>2
<1>4. TypeOK'
  <2>1. events' \in 0..MaxEvents
    BY <1>1, <1>2, Counted
  <2>2. down' \in Seq(Message) /\ acks' \in Seq(Nat) /\ Len(acks') <= Len(queue')
    <3>1. Len(queue) \in Nat
      BY <1>1, Types
    <3> QED
      BY <1>2, <1>3, <3>1
  <2>3. docs' \in [Runs -> Doc]
    BY <1>2 DEF Doc, NoDoc
  <2> QED
    BY <1>1, <1>2, <2>1, <2>2, <2>3 DEF TypeOK, Message
<1>5. AcksTrue'
  BY <1>3 DEF AcksTrue
<1>6. Chain'
  <2>1. \A i \in 1..Len(down') : FALSE
    BY <1>3
  <2> QED
    BY <1>2, <2>1 DEF Chain
<1>7. CacheTrue'
  BY <1>1, <1>2, CacheStill
<1>8. Versions'
  BY <1>1, <1>2 DEF Versions, Keyed
<1>9. ViewTrue'
  BY <1>2 DEF ViewTrue
<1> QED
  BY <1>4, <1>5, <1>6, <1>7, <1>8, <1>9 DEF IndInv

\* Another device's write is one more in the log.
LEMMA OtherWritesKeeps ==
    ASSUME IndInv, NEW k \in Runs, NEW text \in {"other", "gone"},
           OtherWrites(k, text)
    PROVE  IndInv'
<1>1. /\ TypeOK /\ CacheTrue /\ AcksTrue /\ Chain /\ Versions /\ ViewTrue
  BY DEF IndInv
<1> DEFINE e == [run |-> k, text |-> text]
<1>2. e \in Entry
  BY DEF Entry, Text
<1>3. /\ Event /\ log' = Append(log, e)
      /\ UNCHANGED <<refused, saved, diskVars, listening, viewVars, token, acks,
                     watchVars>>
  BY DEF OtherWrites
<1> HIDE DEF e
<1>4. /\ log' \in Seq(Entry) /\ Len(log') = Len(log) + 1
      /\ \A i \in 1..Len(log) : log'[i] = log[i]
      /\ CacheTrue' /\ Chain' /\ Versions' /\ ViewTrue'
  BY <1>1, <1>2, <1>3, LogGrows
<1>5. TypeOK'
  <2>1. events' \in 0..MaxEvents
    BY <1>1, <1>3, Counted
  <2> QED
    BY <1>1, <1>3, <1>4, <2>1 DEF TypeOK, Entry, diskVars, viewVars, watchVars
<1>6. AcksTrue'
  <2>1. queue' = queue /\ acks' = acks /\ refused' = refused /\ Len(log) \in Nat
    BY <1>1, <1>3, Types DEF diskVars
  <2>2. ASSUME NEW i \in 1..Len(acks)
        PROVE  /\ acks[i] \in 0..Len(log')
               /\ acks[i] = 0 => queue[i] \in refused
               /\ acks[i] > 0 => log'[acks[i]] = [run |-> queue[i], text |-> "mine"]
    <3> DEFINE a == acks[i]
    <3>1. /\ a \in 0..Len(log)
          /\ a = 0 => queue[i] \in refused
          /\ a > 0 => log[a] = [run |-> queue[i], text |-> "mine"]
      BY <1>1 DEF AcksTrue
    <3> HIDE DEF a
    <3>2. a \in 0..Len(log') /\ (a > 0 => a \in 1..Len(log))
      BY <1>4, <2>1, <3>1
    <3>3. a > 0 => log'[a] = log[a]
      BY <1>4, <3>2
    <3> QED
      BY <3>1, <3>2, <3>3 DEF a
  <2> QED
    BY <2>1, <2>2 DEF AcksTrue
<1> QED
  BY <1>4, <1>5, <1>6 DEF IndInv

\* What the server has of a run at a version is a change.
LEMMA ChangeFacts ==
    ASSUME NEW L \in Seq(Entry), NEW k \in Runs, NEW v \in 0..Len(L)
    PROVE  [run |-> k, at |-> AtOf(L, k, v)] \in Change
<1> DEFINE a == AtOf(L, k, v)
<1>1. /\ a = [ver |-> a.ver, text |-> a.text]
      /\ a.ver \in 0..v /\ a.text \in Text
  BY AtFacts
<1> HIDE DEF a
<1>2. v \in Nat /\ a.ver \in Nat
  <2>1. Len(L) \in Nat
    OBVIOUS
  <2> QED
    BY <1>1, <2>1
<1>3. a \in [ver : Nat, text : Text]
  BY <1>1, <1>2
<1> QED
  BY <1>3 DEF Change, a

\* A snapshot goes on from the one the server has sent before.
LEMMA ServerSnapshotKeeps ==
    ASSUME IndInv, NEW v \in 0..Now, NEW reset \in BOOLEAN,
           ServerSnapshot(v, reset)
    PROVE  IndInv'
<1>1. /\ TypeOK /\ CacheTrue /\ AcksTrue /\ Chain /\ Versions /\ ViewTrue
  BY DEF IndInv
<1>2. /\ log \in Seq(Entry) /\ Len(log) \in Nat /\ v \in 0..Len(log) /\ v \in Nat
      /\ limbo \in SUBSET Runs /\ down \in Seq(Message) /\ Len(down) \in Nat
      /\ sent \in Nat
  <2>1. Len(log) \in Nat
    BY <1>1, Types
  <2> QED
    BY <1>1, <2>1, Types DEF Now
<1> DEFINE names == IF reset THEN {k \in Runs : AliveOf(log, k, v)}
                    ELSE Named(log, sent, v)
           m == [version |-> v, reset |-> reset,
                 docs |-> {[run |-> k, at |-> AtOf(log, k, v)] : k \in names},
                 lacks |-> {k \in limbo : ~AliveOf(log, k, v)}]
<1>3. /\ watching /\ v >= sent /\ sent' = v
      /\ UNCHANGED <<log, refused, saved, queue, cache, keys, resume, lastRemote,
                     listening, docs, mutated, current, limbo, token, acks,
                     watching, events>>
  BY DEF ServerSnapshot, diskVars, viewVars
<1>4. down' = Append(down, m)
  <2> DEFINE ns == {k \in Runs : IF reset THEN Alive(k, v)
                                 ELSE /\ At(k, v).ver > sent
                                      /\ Alive(k, v) \/ Alive(k, sent)}
  <2>1. down' = Append(down, [version |-> v, reset |-> reset,
                              docs |-> {[run |-> k, at |-> At(k, v)] : k \in ns},
                              lacks |-> {k \in limbo : ~Alive(k, v)}])
    BY DEF ServerSnapshot
  <2>2. ns = names
    BY AtLog DEF Named
  <2>3. \A k : At(k, v) = AtOf(log, k, v)
    BY AtLog
  <2>4. {k \in limbo : ~Alive(k, v)} = {k \in limbo : ~AliveOf(log, k, v)}
    BY AtLog
  <2> HIDE DEF ns, names
  <2>5. {[run |-> k, at |-> At(k, v)] : k \in ns}
            = {[run |-> k, at |-> AtOf(log, k, v)] : k \in names}
    BY <2>2, <2>3
  <2> QED
    BY <2>1, <2>4, <2>5
<1>5. m \in Message
  <2>1. names \in SUBSET Runs
    BY DEF Named
  <2> HIDE DEF names
  <2>2. \A k \in names : [run |-> k, at |-> AtOf(log, k, v)] \in Change
    BY <1>2, <2>1, ChangeFacts
  <2>3. {[run |-> k, at |-> AtOf(log, k, v)] : k \in names} \in SUBSET Change
    BY <2>2
  <2>4. {k \in limbo : ~AliveOf(log, k, v)} \in SUBSET Runs
    BY <1>2
  <2> QED
    BY <1>2, <2>3, <2>4 DEF Message
<1>6. Follows(log, m, sent)
  <2>1. m.version \in sent..Len(log)
    BY <1>2, <1>3
  <2> QED
    BY <2>1 DEF Follows
<1>7. m.version = v
  OBVIOUS
<1> HIDE DEF m
<1>8. /\ down' \in Seq(Message) /\ Len(down') = Len(down) + 1
      /\ \A i \in 1..Len(down) : down'[i] = down[i]
      /\ down'[Len(down) + 1] = m
  BY <1>2, <1>4, <1>5
<1>9. TypeOK'
  BY <1>1, <1>2, <1>3, <1>8 DEF TypeOK, Message
<1>10. Chain'
  <2>1. ASSUME NEW i \in 1..Len(down) PROVE Before(i)' = Before(i)
    <3>1. CASE i = 1
      BY <1>3, <3>1 DEF Before
    <3>2. CASE i # 1
      <4>1. i - 1 \in 1..Len(down)
        BY <1>2, <3>2
      <4> QED
        BY <1>8, <3>2, <4>1 DEF Before
    <3> QED
      BY <3>1, <3>2
  <2>2. ASSUME NEW n \in Nat, n = Len(down) + 1 PROVE Before(n)' = sent
    <3>1. sent = Before(n)
      BY <1>1, <1>3, <2>2 DEF Chain
    <3>2. CASE n = 1
      BY <1>3, <3>1, <3>2 DEF Before
    <3>3. CASE n # 1
      <4>1. n - 1 \in 1..Len(down)
        BY <1>2, <2>2, <3>3
      <4> QED
        BY <1>8, <3>1, <3>3, <4>1 DEF Before
    <3> QED
      BY <3>2, <3>3
  <2>3. ASSUME NEW i \in 1..Len(down') PROVE Follows(log', down'[i], Before(i)')
    <3>1. CASE i \in 1..Len(down)
      <4>1. Follows(log, down[i], Before(i))
        BY <1>1, <3>1 DEF Chain
      <4> QED
        BY <1>3, <1>8, <2>1, <3>1, <4>1
    <3>2. CASE i = Len(down) + 1
      <4>1. i \in Nat
        BY <1>2, <3>2
      <4>2. Before(i)' = sent
        BY <2>2, <3>2, <4>1
      <4> QED
        BY <1>3, <1>6, <1>8, <3>2, <4>2
    <3> QED
      BY <1>2, <1>8, <3>1, <3>2
  <2>4. ASSUME NEW n \in Nat, n = Len(down') + 1 PROVE sent' = Before(n)'
    <3>1. n # 1 /\ n - 1 = Len(down) + 1
      BY <1>2, <1>8, <2>4
    <3> QED
      BY <1>3, <1>7, <1>8, <3>1 DEF Before
  <2>5. Len(down') + 1 \in Nat
    BY <1>2, <1>8
  <2>6. sent' = Before(Len(down) + 1)'
    BY <2>4, <2>5
  <2> QED
    BY <1>1, <1>3, <2>3, <2>6 DEF Chain
<1>11. AcksTrue'
  BY <1>1, <1>3, AcksStill
<1>12. CacheTrue'
  BY <1>1, <1>3, CacheStill
<1>13. Versions'
  BY <1>1, <1>3, VersionsStill
<1>14. ViewTrue'
  BY <1>1, <1>3, ViewStill DEF viewVars
<1> QED
  BY <1>9, <1>10, <1>11, <1>12, <1>13, <1>14 DEF IndInv

\* The invariant holds in the beginning.
LEMMA InitHolds ==
    ASSUME Init
    PROVE  IndInv
<1>1. Len(log) = 0 /\ Len(acks) = 0 /\ Len(queue) = 0 /\ Len(down) = 0
  BY DEF Init
<1>2. TypeOK
  <2>1. /\ log \in Seq([run : Runs, text : Text]) /\ queue \in Seq(saved)
        /\ acks \in Seq(Nat) /\ down \in Seq(Message)
    BY DEF Init
  <2>2. /\ cache \in [Runs -> Cacheable] /\ docs \in [Runs -> Doc]
    BY DEF Init, Absent, NoDoc, Cacheable, Doc, Text
  <2>3. events \in 0..MaxEvents
    BY RunLogAssumption DEF Init
  <2>4. Len(acks) <= Len(queue)
    BY <1>1
  <2> QED
    BY <2>1, <2>2, <2>3, <2>4 DEF Init, TypeOK, Cacheable, Message
<1>3. \A k : ~AliveOf(log, k, 0)
  <2> TAKE k
  <2>1. {i \in 1..0 : log[i].run = k} = {}
    OBVIOUS
  <2> QED
    BY <2>1 DEF AliveOf, AtOf
<1>4. CacheTrue
  BY <1>1 DEF CacheTrue, Init, Absent
<1>5. AcksTrue
  BY <1>1 DEF AcksTrue
<1>6. Chain
  <2>1. \A i \in 1..Len(down) : FALSE
    BY <1>1
  <2> QED
    BY <2>1 DEF Chain, Init
<1>7. Versions
  BY <1>1, <1>3 DEF Versions, Keyed, Init
<1>8. ViewTrue
  BY DEF ViewTrue, Init
<1> QED
  BY <1>2, <1>4, <1>5, <1>6, <1>7, <1>8 DEF IndInv

-----------------------------------------------------------------------------
(* Steps of the view.                                                      *)

\* What the view has is marked as it should be.
LEMMA ViewMarks ==
    ASSUME ViewTrue
    PROVE  \A k \in Runs : /\ docs[k].state = "none" => docs[k] = NoDoc
                           /\ k \in mutated <=> docs[k].state = "local"
<1>1. CASE listening
  BY <1>1 DEF ViewTrue, Fits
<1>2. CASE ~listening
  BY <1>2 DEF ViewTrue, NoDoc
<1> QED
  BY <1>1, <1>2

\* Where queue and cache are the same, so is the document under them.
LEMMA LocalStill ==
    ASSUME NEW q, NEW r, NEW c, NEW d, NEW k,
           Contains(q, k) <=> Contains(r, k), c[k] = d[k]
    PROVE  Local(k, q, c) = Local(k, r, d)
BY DEF Local

\* A new listener's view is what the disk has.
LEMMA OpenKeeps ==
    ASSUME IndInv, Open
    PROVE  IndInv'
<1>1. /\ TypeOK /\ CacheTrue /\ AcksTrue /\ Chain /\ Versions /\ ViewTrue
  BY DEF IndInv
<1>2. /\ listening' = TRUE /\ ViewOf(Runs, FALSE)
      /\ UNCHANGED <<log, refused, saved, queue, cache, keys, resume, lastRemote,
                     token, acks, watching, sent, down, events>>
  BY DEF Open, diskVars, watchVars
<1>3. /\ docs' \in [Runs -> Doc] /\ mutated' \in SUBSET Runs
      /\ limbo' \in SUBSET Runs /\ current' = FALSE
      /\ \A k \in Runs : Fits(docs'[k], k \in mutated', Local(k, queue', cache'))
  <2>1. cache' \in [Runs -> Cacheable]
    BY <1>1, <1>2, Types
  <2> QED
    BY <1>1, <1>2, <2>1, ViewMarks, ViewFacts
<1>4. TypeOK'
  BY <1>1, <1>2, <1>3 DEF TypeOK
<1>5. ViewTrue'
  BY <1>2, <1>3 DEF ViewTrue
<1>6. CacheTrue'
  BY <1>1, <1>2, CacheStill
<1>7. AcksTrue'
  BY <1>1, <1>2, AcksStill
<1>8. Chain'
  BY <1>1, <1>2, ChainStill
<1>9. Versions'
  BY <1>1, <1>2, <1>3, VersionsStill
<1> QED
  BY <1>4, <1>5, <1>6, <1>7, <1>8, <1>9 DEF IndInv

\* Off line the view is not current.
LEMMA GoOfflineKeeps ==
    ASSUME IndInv, GoOffline
    PROVE  IndInv'
<1>1. /\ TypeOK /\ CacheTrue /\ AcksTrue /\ Chain /\ Versions /\ ViewTrue
  BY DEF IndInv
<1>2. /\ current /\ ViewOf({}, FALSE)
      /\ UNCHANGED <<log, refused, saved, queue, cache, keys, resume, lastRemote,
                     listening, token, acks, watching, sent, down, events>>
  BY DEF GoOffline, diskVars, watchVars
<1>3. listening
  BY <1>1, <1>2 DEF ViewTrue
<1>4. /\ docs' \in [Runs -> Doc] /\ mutated' \in SUBSET Runs
      /\ limbo' \in SUBSET Runs /\ current' = FALSE
      /\ \A k \in Runs : Fits(docs'[k], k \in mutated', Local(k, queue', cache'))
  <2>1. cache' \in [Runs -> Cacheable]
    BY <1>1, <1>2, Types
  <2>2. \A k \in Runs : Fits(docs[k], k \in mutated, Local(k, queue', cache'))
    BY <1>1, <1>2, <1>3 DEF ViewTrue
  <2> QED
    BY <1>1, <1>2, <2>1, <2>2, ViewMarks, ViewFacts
<1>5. TypeOK'
  BY <1>1, <1>2, <1>4 DEF TypeOK
<1>6. ViewTrue'
  BY <1>2, <1>3, <1>4 DEF ViewTrue
<1>7. CacheTrue'
  BY <1>1, <1>2, CacheStill
<1>8. AcksTrue'
  BY <1>1, <1>2, AcksStill
<1>9. Chain'
  <2>1. watching => listening'
    BY <1>2, <1>3
  <2> QED
    BY <1>1, <1>2, <2>1, ChainStill
<1>10. Versions'
  BY <1>1, <1>2, <1>4, VersionsStill
<1> QED
  BY <1>5, <1>6, <1>7, <1>8, <1>9, <1>10 DEF IndInv

\* A run saved is at the end of the queue.
LEMMA SaveQueue ==
    ASSUME NEW q, q \in Seq(Runs), NEW k \in Runs
    PROVE  \A j : Contains(Append(q, k), j) <=> (Contains(q, j) \/ j = k)
<1>1. /\ Len(q) \in Nat /\ Len(Append(q, k)) = Len(q) + 1
      /\ \A i \in 1..Len(q) : Append(q, k)[i] = q[i]
      /\ Append(q, k)[Len(q) + 1] = k
  OBVIOUS
<1> DEFINE r == Append(q, k)
<1>2. Len(r) = Len(q) + 1 /\ r[Len(q) + 1] = k /\ \A i \in 1..Len(q) : r[i] = q[i]
  BY <1>1
<1> HIDE DEF r
<1>3. ASSUME NEW j, Contains(r, j) PROVE Contains(q, j) \/ j = k
  <2>1. PICK i \in 1..Len(r) : r[i] = j
    BY <1>3 DEF Contains
  <2>2. i \in 1..Len(q) \/ i = Len(q) + 1
    BY <1>1, <1>2, <2>1
  <2> QED
    BY <1>2, <2>1, <2>2 DEF Contains
<1>4. ASSUME NEW j, Contains(q, j) \/ j = k PROVE Contains(r, j)
  <2>1. CASE Contains(q, j)
    <3>1. PICK i \in 1..Len(q) : q[i] = j
      BY <2>1 DEF Contains
    <3>2. i \in 1..Len(r)
      BY <1>1, <1>2, <3>1
    <3> QED
      BY <1>2, <3>1, <3>2 DEF Contains
  <2>2. CASE j = k
    <3>1. Len(q) + 1 \in 1..Len(r)
      BY <1>1, <1>2
    <3> QED
      BY <1>2, <2>2, <3>1 DEF Contains
  <2> QED
    BY <1>4, <2>1, <2>2
<1> QED
  BY <1>3, <1>4 DEF r

\* A run saved is shown, and no other is concerned.
LEMMA SaveKeeps ==
    ASSUME IndInv, NEW k \in Runs, Save(k)
    PROVE  IndInv'
<1>1. /\ TypeOK /\ CacheTrue /\ AcksTrue /\ Chain /\ Versions /\ ViewTrue
  BY DEF IndInv
<1>2. /\ listening /\ saved' = saved \cup {k} /\ queue' = Append(queue, k)
      /\ ViewOf({k}, current)
      /\ UNCHANGED <<log, refused, cache, keys, resume, lastRemote, listening,
                     token, acks, watching, sent, down, events>>
  BY DEF Save, watchVars
<1>3. /\ queue \in Seq(saved) /\ Len(queue) \in Nat /\ saved \in SUBSET Runs
      /\ acks \in Seq(Nat) /\ Len(acks) \in Nat /\ Len(acks) <= Len(queue)
      /\ current \in BOOLEAN /\ cache' \in [Runs -> Cacheable]
  BY <1>1, <1>2, Types
<1>4. queue \in Seq(Runs) /\ queue \in Seq(saved') /\ k \in saved'
  <2>1. saved \subseteq saved' /\ k \in saved'
    BY <1>2
  <2>2. queue \in Seq(saved')
    BY <1>3, <2>1
  <2>3. queue \in Seq(Runs)
    BY <1>3
  <2> QED
    BY <2>1, <2>2, <2>3
<1>5. /\ queue' \in Seq(saved') /\ Len(queue') = Len(queue) + 1
      /\ \A i \in 1..Len(queue) : queue'[i] = queue[i]
  BY <1>2, <1>4
<1>6. \A j : j # k => (Contains(queue', j) <=> Contains(queue, j))
  BY <1>2, <1>4, SaveQueue
<1>7. /\ docs' \in [Runs -> Doc] /\ mutated' \in SUBSET Runs
      /\ limbo' \in SUBSET Runs /\ current' = current
      /\ \A j \in Runs : Fits(docs'[j], j \in mutated', Local(j, queue', cache'))
      /\ current => limbo' = {j \in Runs \ keys' :
                                  docs'[j].state \in {"committed", "synced"}}
  <2>1. ASSUME NEW j \in Runs \ {k}
        PROVE  Fits(docs[j], j \in mutated, Local(j, queue', cache'))
    <3>1. Fits(docs[j], j \in mutated, Local(j, queue, cache))
      BY <1>1, <1>2 DEF ViewTrue
    <3>2. Local(j, queue', cache') = Local(j, queue, cache)
      BY <1>2, <1>6, LocalStill
    <3> QED
      BY <3>1, <3>2
  <2>2. {k} \in SUBSET Runs
    OBVIOUS
  <2> QED
    BY <1>1, <1>2, <1>3, <2>1, <2>2, ViewMarks, ViewFacts
<1>8. TypeOK'
  <2>1. Len(acks') <= Len(queue')
    BY <1>2, <1>3, <1>5
  <2>2. saved' \subseteq Runs /\ refused' \subseteq saved'
    BY <1>1, <1>2, <1>3 DEF TypeOK
  <2> QED
    BY <1>1, <1>2, <1>5, <1>7, <2>1, <2>2 DEF TypeOK
<1>9. ViewTrue'
  BY <1>2, <1>7 DEF ViewTrue
<1>10. AcksTrue'
  <2>1. \A i \in 1..Len(acks) : queue'[i] = queue[i]
    <3>1. \A i \in 1..Len(acks) : i \in 1..Len(queue)
      BY <1>3
    <3> QED
      BY <1>5, <3>1
  <2> QED
    BY <1>1, <1>2, <2>1 DEF AcksTrue
<1>11. CacheTrue'
  BY <1>1, <1>2, CacheStill
<1>12. Chain'
  BY <1>1, <1>2, ChainStill
<1>13. Versions'
  BY <1>1, <1>2, <1>7, VersionsStill
<1> QED
  BY <1>8, <1>9, <1>10, <1>11, <1>12, <1>13 DEF IndInv

-----------------------------------------------------------------------------
(* The answer to a write.                                                  *)

\* What the cache gets is as new as what it has.
Grown ==
    \A k \in Runs : /\ cache'[k].ver >= cache[k].ver
                    /\ cache[k].text # "unknown" => cache'[k].text # "unknown"

\* The rest of a queue.
LEMMA TailQueue ==
    ASSUME NEW S, NEW q, q \in Seq(S), q # << >>
    PROVE  /\ Tail(q) \in Seq(S) /\ Len(q) \in Nat /\ Len(q) >= 1
           /\ Len(Tail(q)) = Len(q) - 1
           /\ Head(q) = q[1] /\ Head(q) \in S
           /\ \A i \in 1..Len(Tail(q)) : i + 1 \in 1..Len(q) /\ Tail(q)[i] = q[i + 1]
<1>1. Len(q) \in Nat /\ Len(q) # 0
  OBVIOUS
<1>2. Tail(q) \in Seq(S) /\ Len(Tail(q)) = Len(q) - 1
  BY <1>1
<1>3. Head(q) = q[1] /\ q[1] \in S
  BY <1>1
<1>4. \A i \in 1..Len(Tail(q)) : i + 1 \in 1..Len(q) /\ Tail(q)[i] = q[i + 1]
  BY <1>1, <1>2
<1> QED
  BY <1>1, <1>2, <1>3, <1>4

\* Only the head leaves a queue.
LEMMA TailContains ==
    ASSUME NEW S, NEW q, q \in Seq(S), q # << >>, NEW k, k # Head(q)
    PROVE  Contains(Tail(q), k) <=> Contains(q, k)
<1> DEFINE r == Tail(q)
<1>1. /\ Len(q) \in Nat /\ Len(r) = Len(q) - 1 /\ Head(q) = q[1]
      /\ \A i \in 1..Len(r) : i + 1 \in 1..Len(q) /\ r[i] = q[i + 1]
  BY TailQueue
<1> HIDE DEF r
<1>2. ASSUME Contains(r, k) PROVE Contains(q, k)
  BY <1>1, <1>2 DEF Contains
<1>3. ASSUME Contains(q, k) PROVE Contains(r, k)
  <2>1. PICK i \in 1..Len(q) : q[i] = k
    BY <1>3 DEF Contains
  <2>2. i # 1
    BY <1>1, <2>1
  <2>3. i - 1 \in 1..Len(r) /\ (i - 1) + 1 = i
    BY <1>1, <2>1, <2>2
  <2>4. r[i - 1] = k
    BY <1>1, <2>1, <2>3
  <2> QED
    BY <2>3, <2>4 DEF Contains
<1> QED
  BY <1>2, <1>3 DEF r

\* The keys have their documents in a cache that has grown.
LEMMA KeyedGrows ==
    ASSUME NEW v \in 0..Len(log), TypeOK, Keyed(v), Grown,
           cache' \in [Runs -> Cacheable], UNCHANGED <<log, keys>>
    PROVE  Keyed(v)'
<1>1. log \in Seq(Entry) /\ Len(log) \in Nat /\ cache \in [Runs -> Cacheable]
  BY Types
<1>2. ASSUME NEW k \in Runs, k \in keys
      PROVE  cache'[k].text # "unknown" /\ cache'[k].ver >= AtOf(log, k, v).ver
  <2> DEFINE a == AtOf(log, k, v).ver
             c == cache[k].ver
             d == cache'[k].ver
  <2>1. a \in 0..v
    BY <1>1, AtFacts
  <2>2. c \in Nat /\ d \in Nat
    BY <1>1, CacheTypes
  <2>3. d >= c /\ c >= a /\ cache[k].text # "unknown"
    BY <1>2 DEF Grown, Keyed
  <2> HIDE DEF a, c, d
  <2>4. d >= a
    <3>1. a \in Nat
      BY <1>1, <2>1
    <3> QED
      BY <2>2, <2>3, <3>1
  <2>5. cache'[k].text # "unknown"
    BY <2>3 DEF Grown
  <2> QED
    BY <2>4, <2>5 DEF a, d
<1> QED
  BY <1>2 DEF Keyed

\* What an acknowledgement does to the cache: the run gets the text that was
\* saved, or has something as new.
LEMMA AcknowledgedFacts ==
    ASSUME IndInv, HandleWriteResult
    PROVE  /\ Head(queue) \in Runs /\ queue # << >>
           /\ cache' \in [Runs -> Cacheable] /\ CacheTrue' /\ Grown
           /\ \A k \in Runs : k # Head(queue) => cache'[k] = cache[k]
           /\ Head(acks) = 0 => Head(queue) \in refused
           /\ \/ cache'[Head(queue)].text = "mine"
              \/ cache' = cache /\ Head(acks) <= cache[Head(queue)].ver
           /\ Head(acks) \in 0..Len(log)
           /\ Head(acks) > 0 =>
                  log[Head(acks)] = [run |-> Head(queue), text |-> "mine"]
<1>1. TypeOK /\ CacheTrue /\ AcksTrue
  BY DEF IndInv
<1>2. /\ log \in Seq(Entry) /\ Len(log) \in Nat /\ cache \in [Runs -> Cacheable]
      /\ queue \in Seq(saved) /\ Len(queue) \in Nat /\ saved \in SUBSET Runs
      /\ acks \in Seq(Nat) /\ Len(acks) \in Nat /\ Len(acks) <= Len(queue)
  BY <1>1, Types
<1> DEFINE k == Head(queue)
           v == Head(acks)
<1>3. acks # << >> /\ cache' = Acknowledged(k, v) /\ log' = log
  BY DEF HandleWriteResult
<1>4. 1 \in 1..Len(acks) /\ v = acks[1]
  BY <1>2, <1>3, TailQueue
<1>5. queue # << >> /\ k = queue[1] /\ k \in Runs
  <2>1. Len(queue) # 0
    BY <1>2, <1>4
  <2>2. queue # << >>
    BY <2>1
  <2> QED
    BY <1>2, <2>2, TailQueue
<1>6. /\ v \in 0..Len(log)
      /\ v = 0 => k \in refused
      /\ v > 0 => log[v] = [run |-> k, text |-> "mine"]
  <2>1. /\ acks[1] \in 0..Len(log)
        /\ acks[1] = 0 => queue[1] \in refused
        /\ acks[1] > 0 => log[acks[1]] = [run |-> queue[1], text |-> "mine"]
    BY <1>1, <1>4 DEF AcksTrue
  <2> QED
    BY <1>4, <1>5, <2>1
<1> HIDE DEF k, v
<1>7. cache[k].ver \in Nat /\ v \in Nat
  BY <1>2, <1>5, <1>6, CacheTypes
<1>8. CASE cache[k].ver < v
  <2> DEFINE new == [ver |-> v, text |-> "mine", committed |-> TRUE]
  <2>1. cache' = [cache EXCEPT ![k] = new]
    BY <1>3, <1>8 DEF Acknowledged
  <2>2. new \in Cacheable
    BY <1>7 DEF Cacheable, Text
  <2>3. new.ver = v /\ new.text = "mine"
    OBVIOUS
  <2> HIDE DEF new
  <2>4. /\ cache' \in [Runs -> Cacheable] /\ cache'[k] = new
        /\ \A j \in Runs : j # k => cache'[j] = cache[j]
    BY <1>2, <1>5, <2>1, <2>2
  <2>5. AtOf(log, k, v).text = "mine"
    <3> DEFINE a == AtOf(log, k, v)
    <3>1. v > 0 /\ v \in 1..v /\ log[v].run = k /\ log[v].text = "mine"
      BY <1>6, <1>7, <1>8
    <3>2. /\ a.ver \in 0..v /\ v <= a.ver
          /\ a.ver > 0 => a.text = log[a.ver].text
      BY <1>2, <1>6, <3>1, AtFacts
    <3> HIDE DEF a
    <3>3. a.ver = v
      BY <1>7, <3>2
    <3> QED
      BY <3>1, <3>2, <3>3 DEF a
  <2>6. CacheTrue'
    <3>1. ASSUME NEW j \in Runs
          PROVE  /\ cache'[j].ver \in 0..Len(log)
                 /\ cache'[j].text = "unknown" => cache'[j].ver = 0
                 /\ cache'[j].text # "unknown" =>
                        AtOf(log, j, cache'[j].ver).text = cache'[j].text
      <4>1. CASE j = k
        BY <1>6, <2>3, <2>4, <2>5, <4>1
      <4>2. CASE j # k
        BY <1>1, <2>4, <4>2 DEF CacheTrue
      <4> QED
        BY <4>1, <4>2
    <3> QED
      BY <1>3, <3>1 DEF CacheTrue
  <2>7. Grown
    <3>1. ASSUME NEW j \in Runs
          PROVE  /\ cache'[j].ver >= cache[j].ver
                 /\ cache[j].text # "unknown" => cache'[j].text # "unknown"
      <4>1. CASE j = k
        BY <1>7, <1>8, <2>3, <2>4, <4>1
      <4>2. CASE j # k
        <5>1. cache[j].ver \in Nat
          BY <1>2, CacheTypes
        <5> QED
          BY <2>4, <4>2, <5>1
      <4> QED
        BY <4>1, <4>2
    <3> QED
      BY <3>1 DEF Grown
  <2>8. cache'[k].text = "mine"
    BY <2>3, <2>4
  <2> QED
    BY <1>5, <1>6, <2>4, <2>6, <2>7, <2>8 DEF k, v
<1>9. CASE ~(cache[k].ver < v)
  <2>1. cache' = cache
    BY <1>3, <1>9 DEF Acknowledged
  <2>2. CacheTrue'
    BY <1>1, <1>3, <2>1, CacheStill
  <2>3. Grown
    <3>1. \A j \in Runs : cache[j].ver \in Nat
      BY <1>2, CacheTypes
    <3> QED
      BY <2>1, <3>1 DEF Grown
  <2>4. v <= cache[k].ver
    BY <1>7, <1>9
  <2> QED
    BY <1>2, <1>5, <1>6, <2>1, <2>2, <2>3, <2>4 DEF k, v
<1> QED
  BY <1>8, <1>9

\* The write leaves the queue and the document of the cache is shown.
LEMMA HandleWriteResultKeeps ==
    ASSUME IndInv, HandleWriteResult
    PROVE  IndInv'
<1>1. /\ TypeOK /\ CacheTrue /\ AcksTrue /\ Chain /\ Versions /\ ViewTrue
  BY DEF IndInv
<1>2. /\ log \in Seq(Entry) /\ Len(log) \in Nat /\ current \in BOOLEAN
      /\ queue \in Seq(saved) /\ Len(queue) \in Nat /\ saved \in SUBSET Runs
      /\ acks \in Seq(Nat) /\ Len(acks) \in Nat /\ Len(acks) <= Len(queue)
  BY <1>1, Types
<1>3. /\ acks # << >> /\ acks' = Tail(acks) /\ queue' = Tail(queue)
      /\ UNCHANGED <<log, refused, saved, keys, resume, lastRemote, listening,
                     token, watching, sent, down, events>>
      /\ IF listening THEN ViewOf({Head(queue)}, current)
         ELSE UNCHANGED <<docs, mutated, current, limbo>>
  BY DEF HandleWriteResult, watchVars, viewVars
<1>4. /\ Head(queue) \in Runs /\ queue # << >>
      /\ cache' \in [Runs -> Cacheable] /\ CacheTrue' /\ Grown
      /\ \A k \in Runs : k # Head(queue) => cache'[k] = cache[k]
  BY AcknowledgedFacts
<1>5. /\ queue' \in Seq(saved') /\ acks' \in Seq(Nat)
      /\ Len(queue') = Len(queue) - 1 /\ Len(acks') = Len(acks) - 1
      /\ \A i \in 1..Len(queue') : i + 1 \in 1..Len(queue) /\ queue'[i] = queue[i + 1]
      /\ \A i \in 1..Len(acks') : i + 1 \in 1..Len(acks) /\ acks'[i] = acks[i + 1]
  BY <1>2, <1>3, <1>4, TailQueue
<1>6. AcksTrue'
  <2>1. ASSUME NEW i \in 1..Len(acks')
        PROVE  i \in 1..Len(queue') /\ i + 1 \in 1..Len(acks)
               /\ acks'[i] = acks[i + 1] /\ queue'[i] = queue[i + 1]
    <3>1. i \in 1..Len(queue')
      BY <1>2, <1>5
    <3> QED
      BY <1>5, <3>1
  <2> QED
    BY <1>1, <1>3, <2>1 DEF AcksTrue
<1>7. ASSUME listening
      PROVE  /\ docs' \in [Runs -> Doc] /\ mutated' \in SUBSET Runs
             /\ limbo' \in SUBSET Runs /\ current' = current
             /\ \A j \in Runs :
                    Fits(docs'[j], j \in mutated', Local(j, queue', cache'))
             /\ current => limbo' = {j \in Runs \ keys' :
                                         docs'[j].state \in {"committed", "synced"}}
  <2>1. ASSUME NEW j \in Runs \ {Head(queue)}
        PROVE  Fits(docs[j], j \in mutated, Local(j, queue', cache'))
    <3>1. Fits(docs[j], j \in mutated, Local(j, queue, cache))
      BY <1>1, <1>7 DEF ViewTrue
    <3>2. Contains(queue', j) <=> Contains(queue, j)
      BY <1>2, <1>3, <1>4, TailContains
    <3>3. Local(j, queue', cache') = Local(j, queue, cache)
      BY <1>4, <3>2, LocalStill
    <3> QED
      BY <3>1, <3>3
  <2>2. {Head(queue)} \in SUBSET Runs
    BY <1>4
  <2> QED
    BY <1>1, <1>2, <1>3, <1>4, <1>7, <2>1, <2>2, ViewMarks, ViewFacts
<1>8. ASSUME ~listening
      PROVE  UNCHANGED <<docs, mutated, current, limbo>>
  BY <1>3, <1>8
<1>9. ViewTrue'
  <2>1. CASE listening
    BY <1>3, <1>7, <2>1 DEF ViewTrue
  <2>2. CASE ~listening
    BY <1>1, <1>3, <1>8, <2>2 DEF ViewTrue
  <2> QED
    BY <2>1, <2>2
<1>10. /\ docs' \in [Runs -> Doc] /\ mutated' \in SUBSET Runs
       /\ limbo' \in SUBSET Runs /\ current' = current
  <2>1. CASE ~listening
    BY <1>1, <1>8, <2>1, Types
  <2>2. CASE listening
    BY <1>7, <2>2
  <2> QED
    BY <2>1, <2>2
<1>11. TypeOK'
  <2>1. Len(acks') <= Len(queue')
    BY <1>2, <1>5
  <2> QED
    BY <1>1, <1>3, <1>4, <1>5, <1>10, <2>1 DEF TypeOK, Cacheable
<1>12. Chain'
  <2>1. watching => listening'
    BY <1>1, <1>3 DEF Chain
  <2> QED
    BY <1>1, <1>3, <2>1, ChainStill
<1>13. Versions'
  <2>1. Keyed(token)' /\ Keyed(resume)'
    <3>1. \A v \in 0..Len(log) : Keyed(v) => Keyed(v)'
      BY <1>1, <1>3, <1>4, KeyedGrows
    <3> QED
      BY <1>1, <1>3, <3>1 DEF Versions, Keyed
  <2> QED
    BY <1>1, <1>3, <1>10, <2>1 DEF Versions
<1> QED
  BY <1>4, <1>6, <1>9, <1>11, <1>12, <1>13 DEF IndInv

-----------------------------------------------------------------------------
(* The snapshot of the watch stream.                                       *)

\* The next snapshot goes on from the token.
LEMMA NextSnapshot ==
    ASSUME IndInv, down # << >>
    PROVE  /\ Head(down) \in Message /\ Head(down) = down[1]
           /\ Follows(log, Head(down), token)
           /\ Head(down).version \in Nat /\ token \in Nat
           /\ Head(down).version \in 0..Len(log) /\ token \in 0..Head(down).version
<1>1. TypeOK /\ Chain
  BY DEF IndInv
<1>2. down \in Seq(Message) /\ token \in Nat /\ Len(log) \in Nat
  BY <1>1, Types
<1>3. /\ Len(down) \in Nat /\ Len(down) >= 1
      /\ Head(down) = down[1] /\ Head(down) \in Message
  BY <1>2, TailQueue
<1> DEFINE m == Head(down)
<1>4. Follows(log, m, token)
  <2>1. 1 \in 1..Len(down)
    BY <1>3
  <2>2. Follows(log, down[1], Before(1))
    BY <1>1, <2>1 DEF Chain
  <2> QED
    BY <1>3, <2>2 DEF Before
<1>5. m \in Message /\ m = down[1]
  BY <1>3
<1> HIDE DEF m
<1>6. m.version \in Nat /\ m.version \in token..Len(log)
  BY <1>4, <1>5 DEF Follows, Message
<1>7. m.version \in 0..Len(log) /\ token \in 0..m.version
  BY <1>2, <1>6
<1> QED
  BY <1>2, <1>4, <1>5, <1>6, <1>7 DEF m

\* What a snapshot brings, of each run one thing, was so at its version.
LEMMA UpdatesFacts ==
    ASSUME IndInv, down # << >>
    PROVE  /\ \A d \in Updates(Head(down)) :
                  /\ d.run \in Runs /\ d.at.ver \in 0..Len(log) /\ d.at.ver \in Nat
                  /\ d.at.text \in Text
                  /\ AtOf(log, d.run, d.at.ver).text = d.at.text
           /\ \A d, e \in Updates(Head(down)) : d.run = e.run => d = e
<1> DEFINE m == Head(down)
           v == m.version
           names == IF m.reset THEN {k \in Runs : AliveOf(log, k, v)}
                    ELSE Named(log, token, v)
           dead == (m.lacks \cap limbo) \ {d.run : d \in m.docs}
           Dead(k) == [run |-> k, at |-> [ver |-> v, text |-> "gone"]]
           Live(k) == [run |-> k, at |-> AtOf(log, k, v)]
<1>1. /\ log \in Seq(Entry) /\ Len(log) \in Nat /\ limbo \in SUBSET Runs
  BY Types DEF IndInv
<1>2. v \in 0..Len(log) /\ v \in Nat /\ Follows(log, m, token)
  BY NextSnapshot
<1>3. m.docs = {Live(k) : k \in names}
  BY <1>2 DEF Follows
<1>4. Updates(m) = m.docs \cup {Dead(k) : k \in dead}
  BY DEF Updates
<1>5. names \in SUBSET Runs /\ dead \in SUBSET Runs
  BY <1>1 DEF Named
<1>6. \A k \in dead : ~AliveOf(log, k, v) /\ \A d \in m.docs : d.run # k
  BY <1>2 DEF Follows
<1>7. \A k : Live(k).run = k /\ Dead(k).run = k /\ Live(k).at = AtOf(log, k, v)
             /\ Dead(k).at.ver = v /\ Dead(k).at.text = "gone"
  OBVIOUS
<1> HIDE DEF names, dead, Live, Dead, v, m
<1>8. ASSUME NEW k \in Runs
      PROVE  /\ AtOf(log, k, v).ver \in 0..Len(log) /\ AtOf(log, k, v).ver \in Nat
             /\ AtOf(log, k, v).text \in Text
             /\ AtOf(log, k, AtOf(log, k, v).ver).text = AtOf(log, k, v).text
  <2> DEFINE a == AtOf(log, k, v)
             i == a.ver
  <2>1. i \in 0..v /\ a.text \in Text
    BY <1>1, <1>2, AtFacts
  <2>2. i <= v /\ i \in Nat /\ i \in 0..Len(log)
    <3> HIDE DEF i
    <3> QED
      BY <1>1, <1>2, <2>1
  <2>3. AtOf(log, k, i) = AtOf(log, k, v)
    <3>1. AtOf(log, k, v).ver <= i
      BY <2>2
    <3> HIDE DEF i
    <3> QED
      BY <1>1, <1>2, <2>1, <3>1, AtBetween
  <2> QED
    BY <2>1, <2>2, <2>3
<1>9. ASSUME NEW d \in Updates(m)
      PROVE  /\ d.run \in Runs /\ d.at.ver \in 0..Len(log) /\ d.at.ver \in Nat
             /\ d.at.text \in Text
             /\ AtOf(log, d.run, d.at.ver).text = d.at.text
  <2>1. CASE d \in m.docs
    <3>1. PICK k \in names : d = Live(k)
      BY <1>3, <2>1
    <3>2. k \in Runs /\ d.run = k /\ d.at = AtOf(log, k, v)
      BY <1>5, <1>7, <3>1
    <3> QED
      BY <1>8, <3>2
  <2>2. CASE d \notin m.docs
    <3>1. PICK k \in dead : d = Dead(k)
      BY <1>4, <2>2
    <3>2. k \in Runs /\ d.run = k /\ d.at.ver = v /\ d.at.text = "gone"
      BY <1>5, <1>7, <3>1
    <3>3. AtOf(log, k, v).text = "gone"
      BY <1>6 DEF AliveOf
    <3> QED
      BY <1>2, <3>2, <3>3 DEF Text
  <2> QED
    BY <2>1, <2>2
<1>10. ASSUME NEW d \in Updates(m), NEW e \in Updates(m), d.run = e.run
       PROVE  d = e
  <2>1. CASE d \in m.docs /\ e \in m.docs
    BY <1>3, <1>7, <1>10, <2>1
  <2>2. CASE d \notin m.docs /\ e \notin m.docs
    BY <1>4, <1>7, <1>10, <2>2
  <2>3. CASE d \in m.docs /\ e \notin m.docs
    BY <1>4, <1>6, <1>7, <1>10, <2>3
  <2>4. CASE d \notin m.docs /\ e \in m.docs
    BY <1>4, <1>6, <1>7, <1>10, <2>4
  <2> QED
    BY <2>1, <2>2, <2>3, <2>4
<1> QED
  BY <1>9, <1>10 DEF m

\* The cache gets what is newer than what it has, of each run.
LEMMA SnapshotCache ==
    ASSUME IndInv, down # << >>, cache' = Cached(Updates(Head(down))), log' = log
    PROVE  /\ cache' \in [Runs -> Cacheable] /\ CacheTrue' /\ Grown
           /\ \A k \in Runs :
                  (\A d \in Updates(Head(down)) : d.run = k => ~Newer(d))
                      => cache'[k] = cache[k]
           /\ \A d \in Updates(Head(down)) :
                  /\ cache'[d.run].text # "unknown"
                  /\ cache'[d.run].ver >= d.at.ver
<1> DEFINE U == Updates(Head(down))
           New(d) == [ver |-> d.at.ver, text |-> d.at.text, committed |-> FALSE]
<1>1. /\ log \in Seq(Entry) /\ Len(log) \in Nat /\ cache \in [Runs -> Cacheable]
      /\ CacheTrue
  BY Types DEF IndInv
<1>2. /\ \A d \in U : /\ d.run \in Runs /\ d.at.ver \in 0..Len(log) /\ d.at.ver \in Nat
                      /\ d.at.text \in Text
                      /\ AtOf(log, d.run, d.at.ver).text = d.at.text
      /\ \A d, e \in U : d.run = e.run => d = e
  BY UpdatesFacts
<1> DEFINE Known(k) == \E d \in U : d.run = k /\ Newer(d)
           The(k) == CHOOSE d \in U : d.run = k
<1>3. cache' = [k \in Runs |-> IF Known(k) THEN New(The(k)) ELSE cache[k]]
  BY DEF Cached
<1>4. \A d \in U : New(d).ver = d.at.ver /\ New(d).text = d.at.text
                   /\ New(d) \in Cacheable
  BY <1>2 DEF Cacheable
<1> HIDE DEF U, New
<1>5. \A d \in U : The(d.run) = d
  BY <1>2
<1>6. \A k : Known(k) => The(k) \in U /\ The(k).run = k /\ Newer(The(k))
  <2> TAKE k
  <2>1. HAVE Known(k)
  <2>2. PICK d \in U : d.run = k /\ Newer(d)
    BY <2>1
  <2> HIDE DEF The
  <2>3. The(k) = d
    BY <1>5, <2>2
  <2> QED
    BY <2>2, <2>3
<1>7. \A d \in U : Newer(d) => Known(d.run)
  OBVIOUS
<1> HIDE DEF Known, The
<1>8. cache' \in [Runs -> Cacheable]
  BY <1>1, <1>3, <1>4, <1>6
<1>9. \A k \in Runs : cache'[k] = IF Known(k) THEN New(The(k)) ELSE cache[k]
  BY <1>3
<1>10. \A k \in Runs : cache[k].ver \in Nat /\ (cache[k].text = "unknown" => cache[k].ver = 0)
  BY <1>1, CacheTypes DEF CacheTrue
<1>11. CacheTrue'
  <2>1. ASSUME NEW k \in Runs
        PROVE  /\ cache'[k].ver \in 0..Len(log)
               /\ cache'[k].text = "unknown" => cache'[k].ver = 0
               /\ cache'[k].text # "unknown" =>
                      AtOf(log, k, cache'[k].ver).text = cache'[k].text
    <3>1. CASE Known(k)
      <4> DEFINE d == The(k)
      <4>1. d \in U /\ d.run = k
        BY <1>6, <3>1
      <4>2. cache'[k].ver = d.at.ver /\ cache'[k].text = d.at.text
        BY <1>4, <1>9, <3>1, <4>1
      <4>3. d.at.text # "unknown"
        BY <1>2, <4>1 DEF Text
      <4> HIDE DEF d
      <4> QED
        BY <1>2, <4>1, <4>2, <4>3
    <3>2. CASE ~Known(k)
      BY <1>1, <1>9, <3>2 DEF CacheTrue
    <3> QED
      BY <3>1, <3>2
  <2> QED
    BY <2>1 DEF CacheTrue
<1>12. \A d \in U : Newer(d) => d.at.ver >= cache[d.run].ver
  <2> TAKE d \in U
  <2>1. d.at.ver \in Nat /\ d.run \in Runs
    BY <1>2
  <2>2. cache[d.run].ver \in Nat /\ (cache[d.run].text = "unknown" => cache[d.run].ver = 0)
    BY <1>10, <2>1
  <2> QED
    BY <2>1, <2>2 DEF Newer
<1>13. Grown
  <2>1. ASSUME NEW k \in Runs
        PROVE  /\ cache'[k].ver >= cache[k].ver
               /\ cache[k].text # "unknown" => cache'[k].text # "unknown"
    <3>1. CASE Known(k)
      <4> DEFINE d == The(k)
      <4>1. d \in U /\ d.run = k /\ Newer(d)
        BY <1>6, <3>1
      <4>2. cache'[k].ver = d.at.ver /\ cache'[k].text = d.at.text
        BY <1>4, <1>9, <3>1, <4>1
      <4>3. d.at.text # "unknown"
        BY <1>2, <4>1 DEF Text
      <4> HIDE DEF d
      <4> QED
        BY <1>12, <4>1, <4>2, <4>3
    <3>2. CASE ~Known(k)
      BY <1>9, <1>10, <3>2
    <3> QED
      BY <3>1, <3>2
  <2> QED
    BY <2>1 DEF Grown
<1>14. ASSUME NEW k \in Runs, \A d \in U : d.run = k => ~Newer(d)
       PROVE  cache'[k] = cache[k]
  <2>1. ~Known(k)
    BY <1>6, <1>14
  <2> QED
    BY <1>9, <2>1
<1>15. ASSUME NEW d \in U
       PROVE  /\ cache'[d.run].text # "unknown"
              /\ cache'[d.run].ver >= d.at.ver
  <2>1. d.run \in Runs /\ d.at.ver \in Nat /\ d.at.text # "unknown"
    BY <1>2 DEF Text
  <2>2. cache[d.run].ver \in Nat
    BY <1>10, <2>1
  <2>3. CASE Newer(d)
    <3>1. cache'[d.run] = New(d)
      BY <1>5, <1>7, <1>9, <2>1, <2>3
    <3>2. cache'[d.run].text = d.at.text /\ cache'[d.run].ver = d.at.ver
      BY <1>4, <3>1
    <3> QED
      BY <2>1, <3>2
  <2>4. CASE ~Newer(d)
    <3>1. cache[d.run].text # "unknown" /\ ~(d.at.ver > cache[d.run].ver)
      BY <2>4 DEF Newer
    <3>2. cache'[d.run] = cache[d.run]
      <4>1. \A e \in U : e.run = d.run => ~Newer(e)
        BY <1>2, <2>4
      <4> QED
        BY <1>14, <2>1, <4>1
    <3> QED
      BY <2>1, <2>2, <3>1, <3>2
  <2> QED
    BY <2>3, <2>4
<1> QED
  BY <1>8, <1>11, <1>13, <1>14, <1>15 DEF U

\* A document the server has as it was before.
LEMMA AtUnnamed ==
    ASSUME NEW L \in Seq(Entry), NEW k, NEW v \in 0..Len(L), NEW s \in 0..v,
           ~(AtOf(L, k, v).ver > s)
    PROVE  AtOf(L, k, v) = AtOf(L, k, s) /\ AliveOf(L, k, v) = AliveOf(L, k, s)
<1> DEFINE i == AtOf(L, k, v).ver
<1>1. i \in 0..v
  BY AtFacts
<1>2. i <= s
  <2>1. Len(L) \in Nat
    OBVIOUS
  <2> HIDE DEF i
  <2>2. i \in Nat /\ s \in Nat
    BY <1>1, <2>1
  <2>3. ~(i > s)
    BY DEF i
  <2> QED
    BY <2>2, <2>3
<1>3. AtOf(L, k, s) = AtOf(L, k, v)
  BY <1>2, AtBetween
<1> QED
  BY <1>3 DEF AliveOf

\* After a snapshot the keys are the runs there were at its version, and the
\* cache has them.
LEMMA SnapshotKeys ==
    ASSUME IndInv, down # << >>, HandleSnapshot
    PROVE  /\ keys' \in SUBSET Runs
           /\ \A k \in Runs :
                  /\ k \in keys' <=> AliveOf(log, k, Head(down).version)
                  /\ k \in keys' =>
                         /\ cache'[k].text # "unknown"
                         /\ cache'[k].ver >= AtOf(log, k, Head(down).version).ver
<1> DEFINE m == Head(down)
           v == m.version
           come == {d.run : d \in {d \in m.docs : d.at.text # "gone"}}
           gone == {d.run : d \in m.docs} \ come
           stay == IF m.reset THEN {} ELSE keys \ gone
           names == IF m.reset THEN {k \in Runs : AliveOf(log, k, v)}
                    ELSE Named(log, token, v)
           Live(k) == [run |-> k, at |-> AtOf(log, k, v)]
<1>1. /\ log \in Seq(Entry) /\ Len(log) \in Nat /\ cache \in [Runs -> Cacheable]
      /\ keys \in SUBSET Runs
  BY Types DEF IndInv
<1>2. /\ v \in 0..Len(log) /\ v \in Nat /\ Follows(log, m, token)
      /\ token \in Nat /\ token \in 0..v
  BY NextSnapshot
<1>3. /\ keys' = stay \cup come /\ cache' = Cached(Updates(m)) /\ log' = log
  BY DEF HandleSnapshot
<1>4. m.docs = {Live(k) : k \in names}
  BY <1>2 DEF Follows
<1>5. names \in SUBSET Runs
  BY DEF Named
<1>6. \A k : Live(k).run = k /\ Live(k).at = AtOf(log, k, v)
  OBVIOUS
<1>7. m.docs \subseteq Updates(m)
  BY DEF Updates
<1>8. /\ cache' \in [Runs -> Cacheable] /\ Grown
      /\ \A d \in Updates(m) : /\ cache'[d.run].text # "unknown"
                               /\ cache'[d.run].ver >= d.at.ver
  BY <1>3, SnapshotCache
<1>9. Keyed(token)
  BY DEF IndInv, Versions
<1>10. {d.run : d \in m.docs} = names
  <2> HIDE DEF m, v, names, Live
  <2> QED
    BY <1>4, <1>6
<1>11. come = {k \in names : AliveOf(log, k, v)}
  <2> HIDE DEF m, v, names, Live
  <2>1. ASSUME NEW k \in come PROVE k \in names /\ AliveOf(log, k, v)
    <3>1. PICK d \in m.docs : d.at.text # "gone" /\ d.run = k
      OBVIOUS
    <3>2. PICK j \in names : d = Live(j)
      BY <1>4, <3>1
    <3>3. j = k /\ d.at = AtOf(log, k, v)
      BY <1>6, <3>1, <3>2
    <3> QED
      BY <3>1, <3>2, <3>3 DEF AliveOf
  <2>2. ASSUME NEW k \in names, AliveOf(log, k, v) PROVE k \in come
    <3>1. Live(k) \in m.docs
      BY <1>4
    <3>2. Live(k).run = k /\ Live(k).at.text # "gone"
      BY <1>6, <2>2 DEF AliveOf
    <3> QED
      BY <3>1, <3>2
  <2> QED
    BY <2>1, <2>2
<1>12. gone = {k \in names : ~AliveOf(log, k, v)}
  <2> HIDE DEF m, v, names, come
  <2> QED
    BY <1>10, <1>11
<1>13. \A k \in Runs : k \in keys <=> AliveOf(log, k, token)
  BY <1>9 DEF Keyed
<1>14. ASSUME NEW k \in Runs, ~m.reset, k \notin names
       PROVE  AliveOf(log, k, v) = AliveOf(log, k, token)
  <2>1. ~(AtOf(log, k, v).ver > token)
          \/ (~AliveOf(log, k, v) /\ ~AliveOf(log, k, token))
    BY <1>14 DEF Named
  <2>2. CASE ~(AtOf(log, k, v).ver > token)
    <3> HIDE DEF v, names
    <3> QED
      BY <1>1, <1>2, <2>2, AtUnnamed
  <2>3. CASE ~AliveOf(log, k, v) /\ ~AliveOf(log, k, token)
    BY <2>3 DEF AliveOf
  <2> QED
    BY <2>1, <2>2, <2>3
<1>15. m.reset => names = {k \in Runs : AliveOf(log, k, v)}
  OBVIOUS
<1>16. m.reset => stay = {}
  OBVIOUS
<1>17. ~m.reset => stay = keys \ gone
  OBVIOUS
<1> HIDE DEF names, come, gone, stay, v, Live
<1>18. ASSUME NEW k \in Runs PROVE k \in keys' <=> AliveOf(log, k, v)
  <2>1. CASE m.reset
    BY <1>3, <1>11, <1>15, <1>16, <2>1
  <2>2. CASE ~m.reset /\ k \in names
    <3>1. k \in gone <=> ~AliveOf(log, k, v)
      BY <1>12, <2>2
    <3>2. k \in come <=> AliveOf(log, k, v)
      BY <1>11, <2>2
    <3> QED
      BY <1>3, <1>17, <2>2, <3>1, <3>2
  <2>3. CASE ~m.reset /\ k \notin names
    <3>1. k \notin gone /\ k \notin come
      BY <1>11, <1>12, <2>3
    <3>2. k \in keys' <=> k \in keys
      BY <1>3, <1>17, <2>3, <3>1
    <3> QED
      BY <1>13, <1>14, <2>3, <3>2
  <2> QED
    BY <2>1, <2>2, <2>3
<1>19. ASSUME NEW k \in Runs, k \in keys'
       PROVE  /\ cache'[k].text # "unknown"
              /\ cache'[k].ver >= AtOf(log, k, v).ver
  <2>1. CASE k \in names
    <3>1. Live(k) \in Updates(m) /\ Live(k).run = k /\ Live(k).at = AtOf(log, k, v)
      BY <1>4, <1>6, <1>7, <2>1
    <3> QED
      BY <1>8, <3>1
  <2>2. CASE k \notin names
    <3>1. k \notin come
      BY <1>11, <2>2
    <3>2. ~m.reset /\ k \in keys
      BY <1>3, <1>16, <1>17, <1>19, <3>1
    <3>3. AliveOf(log, k, v)
      BY <1>18, <1>19
    <3>4. ~(AtOf(log, k, v).ver > token)
      BY <2>2, <3>2, <3>3 DEF names, Named, v
    <3>5. AtOf(log, k, v) = AtOf(log, k, token)
      BY <1>1, <1>2, <3>4, AtUnnamed
    <3> DEFINE a == AtOf(log, k, token).ver
               c == cache[k].ver
               d == cache'[k].ver
    <3>6. c >= a /\ cache[k].text # "unknown"
      BY <1>9, <3>2 DEF Keyed
    <3>7. d >= c /\ cache'[k].text # "unknown"
      BY <1>8, <3>6 DEF Grown
    <3>8. c \in Nat /\ d \in Nat /\ a \in 0..token
      <4>1. token \in 0..Len(log)
        BY <1>1, <1>2
      <4>2. a \in 0..token
        BY <1>1, <4>1, AtFacts
      <4>3. c \in Nat
        BY <1>1, CacheTypes
      <4>4. d \in Nat
        BY <1>8, CacheTypes
      <4> QED
        BY <4>2, <4>3, <4>4
    <3>9. d >= a
      <4> HIDE DEF a, c, d
      <4>1. a \in Nat
        BY <1>2, <3>8
      <4> QED
        BY <3>6, <3>7, <3>8, <4>1
    <3> QED
      BY <3>5, <3>7, <3>9
  <2> QED
    BY <2>1, <2>2
<1>20. keys' \in SUBSET Runs
  <2>1. stay \in SUBSET Runs
    BY <1>1, <1>16, <1>17
  <2> QED
    BY <1>3, <1>5, <1>11, <2>1
<1> QED
  BY <1>18, <1>19, <1>20 DEF v

\* A snapshot handled is in the cache and the keys, and the view is current.
LEMMA HandleSnapshotKeeps ==
    ASSUME IndInv, HandleSnapshot
    PROVE  IndInv'
<1>1. /\ TypeOK /\ CacheTrue /\ AcksTrue /\ Chain /\ Versions /\ ViewTrue
  BY DEF IndInv
<1> DEFINE m == Head(down)
           v == m.version
           hits == {d.run : d \in {d \in Updates(m) : Newer(d)}}
<1>2. /\ down # << >> /\ down' = Tail(down) /\ cache' = Cached(Updates(m))
      /\ token' = v
      /\ lastRemote' = v /\ ViewOf(hits, TRUE)
      /\ UNCHANGED <<log, refused, saved, queue, listening, acks, watching, sent,
                     events>>
  BY DEF HandleSnapshot
<1>3. resume' = v \/ (resume' = resume /\ keys' = keys)
  BY DEF HandleSnapshot
<1>4. /\ log \in Seq(Entry) /\ Len(log) \in Nat /\ v \in 0..Len(log) /\ v \in Nat
      /\ m = down[1]
  BY <1>1, <1>2, Types, NextSnapshot
<1>5. /\ keys' \in SUBSET Runs
      /\ \A k \in Runs : /\ k \in keys' <=> AliveOf(log, k, v)
                         /\ k \in keys' => /\ cache'[k].text # "unknown"
                                           /\ cache'[k].ver >= AtOf(log, k, v).ver
  BY <1>2, SnapshotKeys
<1>6. /\ cache' \in [Runs -> Cacheable] /\ CacheTrue' /\ Grown
      /\ \A k \in Runs : (\A d \in Updates(m) : d.run = k => ~Newer(d))
                             => cache'[k] = cache[k]
  BY <1>2, SnapshotCache
<1>7. hits \in SUBSET Runs
  <2>1. \A d \in Updates(m) : d.run \in Runs
    BY <1>2, UpdatesFacts
  <2> HIDE DEF m
  <2> QED
    BY <2>1
<1>8. \A k \in Runs \ hits : cache'[k] = cache[k]
  <2> HIDE DEF m
  <2> QED
    BY <1>6
<1>9. /\ down' \in Seq(Message) /\ Len(down') = Len(down) - 1 /\ Len(down) \in Nat
      /\ \A i \in 1..Len(down') : i + 1 \in 1..Len(down) /\ down'[i] = down[i + 1]
  <2>1. down \in Seq(Message)
    BY <1>1, Types
  <2> QED
    BY <1>2, <2>1, TailQueue
<1> HIDE DEF hits, m
<1>10. watching /\ listening
  BY <1>1, <1>2 DEF Chain
<1>11. /\ docs' \in [Runs -> Doc] /\ mutated' \in SUBSET Runs
       /\ limbo' \in SUBSET Runs /\ current' = TRUE
       /\ \A k \in Runs : Fits(docs'[k], k \in mutated', Local(k, queue', cache'))
       /\ limbo' = {k \in Runs \ keys' :
                        docs'[k].state \in {"committed", "synced"}}
  <2>1. ASSUME NEW k \in Runs \ hits
        PROVE  Fits(docs[k], k \in mutated, Local(k, queue', cache'))
    <3>1. Fits(docs[k], k \in mutated, Local(k, queue, cache))
      BY <1>1, <1>10 DEF ViewTrue
    <3>2. Local(k, queue', cache') = Local(k, queue, cache)
      BY <1>2, <1>8, LocalStill
    <3> QED
      BY <3>1, <3>2
  <2> QED
    BY <1>1, <1>2, <1>6, <1>7, <2>1, ViewMarks, ViewFacts
<1>12. resume' \in Nat
  BY <1>1, <1>3, <1>4, Types
<1>13. TypeOK'
  BY <1>1, <1>2, <1>4, <1>5, <1>6, <1>9, <1>11, <1>12 DEF TypeOK, Cacheable, Message
<1>14. AcksTrue'
  BY <1>1, <1>2, AcksStill
<1>15. ViewTrue'
  BY <1>2, <1>10, <1>11 DEF ViewTrue
<1>16. Versions'
  <2>1. \A k \in Runs : k \in keys' => /\ cache'[k].text # "unknown"
                                       /\ cache'[k].ver >= AtOf(log, k, v).ver
    BY <1>5
  <2>2. Keyed(token)'
    BY <1>2, <1>5 DEF Keyed
  <2>3. Keyed(resume)'
    <3>1. CASE resume' = v
      BY <1>2, <1>5, <3>1 DEF Keyed
    <3>2. CASE resume' = resume /\ keys' = keys
      <4>1. resume \in 0..Len(log) /\ Keyed(resume)
        BY <1>1 DEF Versions
      <4>2. \A w \in 0..Len(log) : Keyed(w) => Keyed(w)'
        BY <1>1, <1>2, <1>6, <3>2, KeyedGrows
      <4> QED
        BY <1>2, <3>2, <4>1, <4>2 DEF Keyed
    <3> QED
      BY <1>3, <3>1, <3>2
  <2>4. resume' \in 0..Len(log')
    BY <1>1, <1>2, <1>3, <1>4 DEF Versions
  <2> QED
    BY <1>2, <1>4, <2>2, <2>3, <2>4 DEF Versions
<1>17. Chain'
  <2>1. ASSUME NEW i \in 1..Len(down) PROVE Before(i)' = Before(i + 1)
    <3>1. i + 1 # 1 /\ (i + 1) - 1 = i
      BY <1>9
    <3>2. Before(i + 1) = down[i].version
      BY <3>1 DEF Before
    <3>3. CASE i = 1
      BY <1>2, <1>4, <3>2, <3>3 DEF Before
    <3>4. CASE i # 1
      <4>1. i - 1 \in 1..Len(down') /\ (i - 1) + 1 = i
        BY <1>9, <3>4
      <4> QED
        BY <1>9, <3>2, <3>4, <4>1 DEF Before
    <3> QED
      BY <3>3, <3>4
  <2>2. ASSUME NEW i \in 1..Len(down') PROVE Follows(log', down'[i], Before(i)')
    <3>1. i \in 1..Len(down) /\ i + 1 \in 1..Len(down) /\ down'[i] = down[i + 1]
      BY <1>9
    <3>2. Follows(log, down[i + 1], Before(i + 1))
      BY <1>1, <3>1 DEF Chain
    <3> QED
      BY <1>2, <2>1, <3>1, <3>2
  <2>3. ASSUME NEW n \in Nat, n = Len(down') + 1 PROVE sent' = Before(n)'
    <3>1. n = Len(down)
      BY <1>9, <2>3
    <3>2. n \in 1..Len(down)
      BY <1>9, <2>3, <3>1
    <3>3. sent = Before(n + 1)
      BY <1>1, <1>10, <3>1 DEF Chain
    <3> QED
      BY <1>2, <2>1, <3>2, <3>3
  <2>4. Len(down') + 1 \in Nat
    BY <1>9
  <2>5. sent' = Before(Len(down) + 1)'
    BY <2>3, <2>4
  <2> QED
    BY <1>2, <1>10, <2>2, <2>5 DEF Chain
<1> QED
  BY <1>6, <1>13, <1>14, <1>15, <1>16, <1>17 DEF IndInv

-----------------------------------------------------------------------------
(* The theorems.                                                           *)

\* Every step keeps the invariant.
LEMMA StepKeeps ==
    ASSUME IndInv, [Next]_vars
    PROVE  IndInv'
<1>1. CASE Open
  BY <1>1, OpenKeeps
<1>2. CASE Restart
  BY <1>2, RestartKeeps
<1>3. CASE OpenWatch
  BY <1>3, OpenWatchKeeps
<1>4. CASE WatchLost
  BY <1>4, WatchLostKeeps
<1>5. CASE GoOffline
  BY <1>5, GoOfflineKeeps
<1>6. CASE ServerCommits
  BY <1>6, ServerCommitsKeeps
<1>7. CASE ServerRefuses
  BY <1>7, ServerRefusesKeeps
<1>8. CASE HandleWriteResult
  BY <1>8, HandleWriteResultKeeps
<1>9. CASE WriteStreamLost
  BY <1>9, WriteStreamLostKeeps
<1>10. CASE HandleSnapshot
  BY <1>10, HandleSnapshotKeeps
<1>11. ASSUME NEW k \in Runs, Save(k) PROVE IndInv'
  BY <1>11, SaveKeeps
<1>12. ASSUME NEW k \in Runs, NEW text \in {"other", "gone"}, OtherWrites(k, text)
       PROVE  IndInv'
  BY <1>12, OtherWritesKeeps
<1>13. ASSUME NEW v \in 0..Now, NEW reset \in BOOLEAN, ServerSnapshot(v, reset)
       PROVE  IndInv'
  BY <1>13, ServerSnapshotKeeps
<1>14. CASE UNCHANGED vars
  <2>1. /\ TypeOK /\ CacheTrue /\ AcksTrue /\ Chain /\ Versions /\ ViewTrue
    BY DEF IndInv
  <2>2. UNCHANGED <<log, refused, saved, queue, cache, keys, resume, lastRemote,
                    listening, docs, mutated, current, limbo, token, acks,
                    watching, sent, down, events>>
    BY <1>14 DEF vars, diskVars, viewVars, watchVars
  <2>3. TypeOK'
    BY <2>1, <2>2 DEF TypeOK
  <2>4. CacheTrue'
    BY <2>1, <2>2, CacheStill
  <2>5. AcksTrue'
    BY <2>1, <2>2, AcksStill
  <2>6. Chain'
    <3>1. watching => listening'
      BY <2>1, <2>2 DEF Chain
    <3> QED
      BY <2>1, <2>2, <3>1, ChainStill
  <2>7. Versions'
    BY <2>1, <2>2, VersionsStill
  <2>8. ViewTrue'
    BY <2>1, <2>2, ViewStill DEF viewVars
  <2> QED
    BY <2>3, <2>4, <2>5, <2>6, <2>7, <2>8 DEF IndInv
<1>15. CASE AnswersCutShort
  BY <1>15, AnswersCutShortKeeps
<1> QED
  BY <1>1, <1>2, <1>3, <1>4, <1>5, <1>6, <1>7, <1>8, <1>9, <1>10, <1>11,
     <1>12, <1>13, <1>14, <1>15 DEF Next

\* What is shown without local changes is what the cache has.
LEMMA ShownIsCached ==
    ASSUME IndInv, listening, NEW k \in Runs, k \notin mutated
    PROVE  /\ Shown(k) => /\ cache[k].text \notin {"unknown", "gone"}
                          /\ docs[k].text = cache[k].text
                          /\ docs[k].state \in {"committed", "synced"}
           /\ ~Shown(k) => cache[k].text \in {"unknown", "gone"}
<1>1. cache \in [Runs -> Cacheable] /\ docs[k] \in Doc
  BY Types DEF IndInv
<1> DEFINE new == Local(k, queue, cache)
<1>2. Fits(docs[k], FALSE, new)
  <2>1. Fits(docs[k], k \in mutated, new)
    BY DEF IndInv, ViewTrue
  <2>2. (k \in mutated) = FALSE
    OBVIOUS
  <2> QED
    BY <2>1, <2>2 DEF Fits
<1>3. /\ new.state = "local" <=> Contains(queue, k)
      /\ ~Contains(queue, k) =>
             /\ new = NoDoc <=> cache[k].text \in {"unknown", "gone"}
             /\ new # NoDoc => new.text = cache[k].text
  BY <1>1, LocalFacts
<1> HIDE DEF new
<1>4. CASE Shown(k)
  <2>1. /\ new # NoDoc /\ docs[k].text = new.text /\ new.state # "local"
        /\ docs[k].state # "local" /\ docs[k].state # "none"
    BY <1>2, <1>4 DEF Fits, Shown
  <2>2. docs[k].state \in {"committed", "synced"}
    BY <1>1, <2>1 DEF Doc
  <2> QED
    BY <1>3, <1>4, <2>1, <2>2
<1>5. CASE ~Shown(k)
  <2>1. new = NoDoc
    BY <1>2, <1>5 DEF Fits, Shown
  <2> QED
    BY <1>3, <1>5, <2>1 DEF NoDoc
<1> QED
  BY <1>4, <1>5

\* The invariant says that the metadata are true.
LEMMA MetadataFollows ==
    ASSUME IndInv
    PROVE  MetadataIsTrue
<1>1. /\ TypeOK /\ CacheTrue /\ AcksTrue /\ Chain /\ Versions /\ ViewTrue
  BY DEF IndInv
<1>2. /\ log \in Seq(Entry) /\ Len(log) \in Nat /\ cache \in [Runs -> Cacheable]
  BY <1>1, Types
<1>3. ASSUME NEW k \in Runs, Shown(k), k \notin mutated
      PROVE  \E i \in 1..Now : log[i].run = k
  <2>1. listening
    BY <1>1, <1>3 DEF ViewTrue, Shown
  <2> DEFINE v == cache[k].ver
  <2>2. v \in 0..Len(log) /\ AtOf(log, k, v).text = cache[k].text
        /\ cache[k].text # "gone"
    BY <1>1, <1>3, <2>1, ShownIsCached DEF CacheTrue
  <2> HIDE DEF v
  <2>3. PICK i \in 1..v : log[i].run = k
    BY <1>2, <2>2, AtAlive DEF AliveOf
  <2> QED
    BY <1>2, <2>2, <2>3 DEF Now
<1>4. ASSUME ~FromCache, NEW k \in Runs \ mutated
      PROVE  \E v \in lastRemote..Now :
                 IF Shown(k) THEN At(k, v).text = docs[k].text ELSE ~Alive(k, v)
  <2>1. current /\ limbo = {}
    BY <1>4 DEF FromCache
  <2>2. listening
    BY <1>1, <2>1 DEF ViewTrue
  <2>3. /\ Shown(k) => /\ cache[k].text \notin {"unknown", "gone"}
                       /\ docs[k].text = cache[k].text
                       /\ docs[k].state \in {"committed", "synced"}
        /\ ~Shown(k) => cache[k].text \in {"unknown", "gone"}
    BY <2>2, ShownIsCached
  <2> DEFINE c == cache[k].ver
  <2>4. /\ c \in 0..Len(log)
        /\ cache[k].text # "unknown" => AtOf(log, k, c).text = cache[k].text
    BY <1>1 DEF CacheTrue
  <2>5. /\ lastRemote \in 0..Len(log) /\ token = lastRemote
        /\ k \in keys <=> AliveOf(log, k, lastRemote)
        /\ k \in keys => /\ cache[k].text # "unknown"
                         /\ c >= AtOf(log, k, lastRemote).ver
    BY <1>1, <2>1 DEF Versions, Keyed
  <2>6. Shown(k) => k \in keys
    BY <1>1, <2>1, <2>3 DEF ViewTrue
  <2> HIDE DEF c
  <2>7. c \in Nat /\ lastRemote \in Nat
    BY <1>2, <2>4, <2>5
  <2>8. CASE k \in keys /\ c >= lastRemote
    <3>1. c \in lastRemote..Now
      BY <1>2, <2>4, <2>7, <2>8 DEF Now
    <3>2. AtOf(log, k, c).text = cache[k].text
      BY <2>4, <2>5, <2>8
    <3>3. IF Shown(k) THEN At(k, c).text = docs[k].text ELSE ~Alive(k, c)
      BY <2>3, <2>5, <2>8, <3>2, AtLog DEF AliveOf
    <3> QED
      BY <3>1, <3>3
  <2>9. CASE k \in keys /\ ~(c >= lastRemote)
    <3> DEFINE a == AtOf(log, k, lastRemote)
    <3>1. a.ver \in 0..lastRemote /\ a.ver <= c
      <4>1. a.ver \in 0..lastRemote /\ c >= a.ver
        BY <1>2, <2>5, <2>9, AtFacts
      <4> HIDE DEF a
      <4> QED
        BY <2>7, <4>1
    <3>2. c \in 0..lastRemote
      BY <2>7, <2>9
    <3>3. AtOf(log, k, c) = a
      BY <1>2, <2>5, <3>1, <3>2, AtBetween
    <3>4. AtOf(log, k, c).text = cache[k].text /\ a.text # "gone"
      BY <2>4, <2>5, <2>9 DEF AliveOf
    <3>5. Shown(k)
      BY <2>3, <2>5, <2>9, <3>3, <3>4
    <3>6. At(k, lastRemote).text = docs[k].text
      BY <2>3, <3>3, <3>4, <3>5, AtLog
    <3>7. lastRemote \in lastRemote..Now
      BY <1>2, <2>5, <2>7 DEF Now
    <3> QED
      BY <3>5, <3>6, <3>7
  <2>10. CASE k \notin keys
    <3>1. ~Shown(k) /\ ~Alive(k, lastRemote)
      BY <2>5, <2>6, <2>10, AtLog
    <3>2. lastRemote \in lastRemote..Now
      BY <1>2, <2>5, <2>7 DEF Now
    <3> QED
      BY <3>1, <3>2
  <2> QED
    BY <2>8, <2>9, <2>10
<1> QED
  BY <1>3, <1>4 DEF MetadataIsTrue, SyncedIsServer, PendingUntilCommitted

\* A document in the cache of which the cache says later that it is gone has
\* been deleted.
LEMMA CacheGone ==
    ASSUME TypeOK, CacheTrue, CacheTrue', UNCHANGED log,
           cache' \in [Runs -> Cacheable], Grown,
           NEW k \in Runs, cache[k].text \notin {"unknown", "gone"},
           cache'[k].text \in {"unknown", "gone"}
    PROVE  \E i \in 1..Now : log[i] = [run |-> k, text |-> "gone"]
<1>1. log \in Seq(Entry) /\ Len(log) \in Nat /\ cache \in [Runs -> Cacheable]
  BY Types
<1> DEFINE c == cache[k].ver
           d == cache'[k].ver
<1>2. /\ c \in 0..Len(log) /\ AtOf(log, k, c).text = cache[k].text
      /\ d \in 0..Len(log)
      /\ cache'[k].text # "unknown" => AtOf(log, k, d).text = cache'[k].text
  BY DEF CacheTrue
<1>3. d >= c /\ cache'[k].text = "gone"
  BY DEF Grown
<1> HIDE DEF c, d
<1>4. PICK j \in 1..c : log[j].run = k
  BY <1>1, <1>2, AtAlive DEF AliveOf
<1>5. j \in 1..d
  BY <1>1, <1>2, <1>3
<1>6. ~AliveOf(log, k, d)
  BY <1>2, <1>3 DEF AliveOf
<1> QED
  BY <1>1, <1>2, <1>4, <1>5, <1>6, AtGone DEF Now

\* A run is no longer on the disk's side of the view only when it has been
\* refused or deleted.
LEMMA LocalGone ==
    ASSUME IndInv, Next, NEW k \in Runs,
           Local(k, queue, cache) # NoDoc, Local(k, queue', cache') = NoDoc
    PROVE  \/ k \in refused
           \/ \E i \in 1..Now : log[i] = [run |-> k, text |-> "gone"]
<1>1. /\ TypeOK /\ CacheTrue
      /\ log \in Seq(Entry) /\ Len(log) \in Nat /\ cache \in [Runs -> Cacheable]
      /\ queue \in Seq(saved) /\ saved \in SUBSET Runs
  BY Types DEF IndInv
<1>2. /\ ~Contains(queue, k) => cache[k].text \notin {"unknown", "gone"}
  BY <1>1, LocalFacts
<1>3. CASE UNCHANGED <<queue, cache>>
  BY <1>3 DEF Local
<1>4. ASSUME NEW j \in Runs, Save(j) PROVE FALSE
  <2>1. queue' = Append(queue, j) /\ cache' = cache
    BY <1>4 DEF Save
  <2>2. queue \in Seq(Runs)
    BY <1>1
  <2>3. Contains(queue, k) => Contains(queue', k)
    BY <2>1, <2>2, SaveQueue
  <2>4. ~Contains(queue', k)
    BY DEF Local, NoDoc
  <2>5. Local(k, queue', cache') = Local(k, queue, cache)
    BY <2>1, <2>3, <2>4, LocalStill
  <2> QED
    BY <2>5
<1>5. CASE HandleSnapshot
  <2>1. /\ down # << >> /\ queue' = queue /\ log' = log
        /\ cache' = Cached(Updates(Head(down)))
    BY <1>5 DEF HandleSnapshot
  <2>2. cache' \in [Runs -> Cacheable] /\ CacheTrue' /\ Grown
    BY <2>1, SnapshotCache
  <2>3. ~Contains(queue, k)
    BY <2>1 DEF Local, NoDoc
  <2>4. cache'[k].text \in {"unknown", "gone"}
    BY <2>1, <2>2, <2>3, LocalFacts
  <2> QED
    BY <1>1, <1>2, <2>1, <2>2, <2>3, <2>4, CacheGone
<1>6. CASE HandleWriteResult
  <2>1. queue' = Tail(queue) /\ log' = log
    BY <1>6 DEF HandleWriteResult
  <2>2. /\ Head(queue) \in Runs /\ queue # << >>
        /\ cache' \in [Runs -> Cacheable] /\ CacheTrue' /\ Grown
        /\ Head(acks) = 0 => Head(queue) \in refused
        /\ \/ cache'[Head(queue)].text = "mine"
           \/ cache' = cache /\ Head(acks) <= cache[Head(queue)].ver
        /\ Head(acks) \in 0..Len(log)
        /\ Head(acks) > 0 =>
               log[Head(acks)] = [run |-> Head(queue), text |-> "mine"]
    BY <1>6, AcknowledgedFacts
  <2>3. ~Contains(queue', k)
    BY DEF Local, NoDoc
  <2>4. cache'[k].text \in {"unknown", "gone"}
    BY <2>2, <2>3, LocalFacts
  <2>5. CASE ~Contains(queue, k)
    BY <1>1, <1>2, <2>1, <2>2, <2>4, <2>5, CacheGone
  <2>6. CASE Contains(queue, k)
    <3>1. k = Head(queue)
      BY <1>1, <2>1, <2>2, <2>3, <2>6, TailContains
    <3> DEFINE v == Head(acks)
               c == cache[k].ver
    <3>2. /\ cache' = cache /\ v <= c /\ v \in 0..Len(log)
          /\ v = 0 => k \in refused
          /\ v > 0 => log[v] = [run |-> k, text |-> "mine"]
      BY <2>2, <2>4, <3>1
    <3>3. CASE v = 0
      BY <3>2, <3>3
    <3>4. CASE v # 0
      <4>1. /\ c \in 0..Len(log)
            /\ cache[k].text = "unknown" => c = 0
            /\ cache[k].text # "unknown" => AtOf(log, k, c).text = cache[k].text
        BY <1>1 DEF CacheTrue
      <4>2. cache[k].text \in {"unknown", "gone"}
        BY <2>4, <3>2
      <4> HIDE DEF v, c
      <4>3. v \in 1..c /\ v > 0 /\ c # 0
        BY <1>1, <3>2, <3>4, <4>1
      <4>4. ~AliveOf(log, k, c)
        BY <4>1, <4>2, <4>3 DEF AliveOf
      <4>5. log[v].run = k
        BY <3>2, <4>3
      <4> QED
        BY <1>1, <4>1, <4>3, <4>4, <4>5, AtGone DEF Now
    <3> QED
      BY <3>3, <3>4
  <2> QED
    BY <2>5, <2>6
<1>7. \/ UNCHANGED <<queue, cache>> \/ HandleSnapshot \/ HandleWriteResult
      \/ \E j \in Runs : Save(j)
  BY DEF Next, Open, Restart, OpenWatch, WatchLost, GoOffline, ServerCommits,
         ServerRefuses, AnswersCutShort, WriteStreamLost, OtherWrites, ServerSnapshot, Answers,
         diskVars
<1> QED
  BY <1>3, <1>4, <1>5, <1>6, <1>7

\* IndInv is an invariant.
THEOREM Inductive == Spec => []IndInv
<1>1. Init => IndInv
  BY InitHolds
<1>2. IndInv /\ [Next]_vars => IndInv'
  BY StepKeeps
<1> QED
  BY <1>1, <1>2, PTL DEF Spec

\* The variables have their types.
THEOREM TypeCorrect == Spec => []TypeOK
<1>1. IndInv => TypeOK
  BY DEF IndInv
<1> QED
  BY <1>1, Inductive, PTL

\* What a snapshot's metadata says, pending writes and from cache, is true.
THEOREM MetadataCorrect == Spec => []MetadataIsTrue
<1>1. IndInv => MetadataIsTrue
  BY MetadataFollows
<1> QED
  BY <1>1, Inductive, PTL

\* A run that has been saved stays in the table until somebody deletes it, the
\* server refuses it or the process ends.
THEOREM NoFlickerHolds == Spec => NoFlicker
<1> DEFINE Stays(k) ==
        Shown(k) /\ ~Shown(k)' =>
            \/ k \in refused
            \/ \E i \in 1..Now : log[i] = [run |-> k, text |-> "gone"]
            \/ ~listening'
<1>1. IndInv /\ IndInv' /\ [Next]_vars => [\A k \in Runs : Stays(k)]_vars
  <2> SUFFICES ASSUME IndInv, IndInv', Next, NEW k \in Runs,
                      Shown(k), ~Shown(k)', listening'
               PROVE  \/ k \in refused
                      \/ \E i \in 1..Now : log[i] = [run |-> k, text |-> "gone"]
    OBVIOUS
  <2>1. docs[k] # NoDoc /\ docs'[k] = NoDoc
    BY DEF Shown
  <2>2. listening
    BY <2>1 DEF IndInv, ViewTrue
  <2>3. Local(k, queue, cache) # NoDoc
    BY <2>1, <2>2 DEF IndInv, ViewTrue, Fits
  <2>4. Local(k, queue', cache') = NoDoc
    BY <2>1 DEF IndInv, ViewTrue, Fits
  <2> QED
    BY <2>3, <2>4, LocalGone
<1> QED
  BY <1>1, Inductive, PTL DEF Spec, NoFlicker

-----------------------------------------------------------------------------
(* The texts of the runs saved here.                                       *)

\* The write of a run is in the queue once.
Once == \A i, j \in 1..Len(queue) : queue[i] = queue[j] => i = j

\* What has been saved here, and not watched since, has the text it was saved
\* with.
Mine ==
    \A k \in Runs : /\ cache[k].committed => cache[k].text = "mine"
                    /\ docs[k].state = "local" => docs[k].text = "mine"

\* A document under a pending mutation has the text that was saved.
LEMMA LocalIsMine ==
    ASSUME NEW q, NEW c, NEW k, Local(k, q, c).state = "local"
    PROVE  Local(k, q, c).text = "mine"
<1>1. CASE Contains(q, k)
  BY <1>1 DEF Local
<1>2. CASE ~Contains(q, k)
  BY <1>2 DEF Local, NoDoc
<1> QED
  BY <1>1, <1>2

\* A new view has local documents from the queue or from the old view.
LEMMA ViewIsMine ==
    ASSUME TypeOK, Mine, NEW ks, NEW cur, ViewOf(ks, cur),
           NEW k \in Runs, docs'[k].state = "local"
    PROVE  docs'[k].text = "mine"
<1> DEFINE New(j) == Local(j, queue', cache')
           hits   == {j \in ks : Applied(j, New(j))}
<1>1. docs' = [j \in Runs |-> IF j \in hits THEN New(j) ELSE docs[j]]
  BY DEF ViewOf
<1> HIDE DEF hits
<1>2. CASE k \in hits
  <2>1. docs'[k] = New(k)
    BY <1>1, <1>2
  <2> QED
    BY <2>1, LocalIsMine
<1>3. CASE k \notin hits
  <2>1. docs'[k] = docs[k]
    BY <1>1, <1>3
  <2> QED
    BY <2>1 DEF Mine
<1> QED
  BY <1>2, <1>3

\* Only an acknowledgement marks what the cache has as committed.
LEMMA CacheIsMine ==
    ASSUME IndInv, IndInv', Mine, [Next]_vars, NEW k \in Runs, cache'[k].committed
    PROVE  cache'[k].text = "mine"
<1>1. cache \in [Runs -> Cacheable]
  BY Types DEF IndInv
<1>2. CASE UNCHANGED cache
  BY <1>2 DEF Mine
<1>3. CASE HandleWriteResult
  <2> DEFINE j == Head(queue)
             v == Head(acks)
  <2>1. cache' = Acknowledged(j, v)
    BY <1>3 DEF HandleWriteResult
  <2> HIDE DEF j, v
  <2>2. CASE cache[j].ver < v
    <3>1. cache' = [cache EXCEPT ![j] = [ver |-> v, text |-> "mine", committed |-> TRUE]]
      BY <2>1, <2>2 DEF Acknowledged
    <3>2. CASE k = j
      BY <1>1, <3>1, <3>2
    <3>3. CASE k # j
      <4>1. cache'[k] = cache[k]
        BY <1>1, <3>1, <3>3
      <4> QED
        BY <4>1 DEF Mine
    <3> QED
      BY <3>2, <3>3
  <2>3. CASE ~(cache[j].ver < v)
    <3>1. cache' = cache
      BY <2>1, <2>3 DEF Acknowledged
    <3> QED
      BY <3>1 DEF Mine
  <2> QED
    BY <2>2, <2>3
<1>4. CASE HandleSnapshot
  <2> DEFINE U == Updates(Head(down))
             hit == \E d \in U : d.run = k /\ Newer(d)
             one == CHOOSE d \in U : d.run = k
  <2>1. cache' = Cached(U)
    BY <1>4 DEF HandleSnapshot
  <2>2. cache'[k] = IF hit
                    THEN [ver |-> one.at.ver, text |-> one.at.text, committed |-> FALSE]
                    ELSE cache[k]
    BY <2>1 DEF Cached
  <2> HIDE DEF hit, one, U
  <2>3. ~hit
    BY <2>2
  <2>4. cache'[k] = cache[k]
    BY <2>2, <2>3
  <2> QED
    BY <2>4 DEF Mine
<1> QED
  BY <1>2, <1>3, <1>4
     DEF Next, vars, Open, Restart, OpenWatch, WatchLost, GoOffline, ServerCommits,
         ServerRefuses, AnswersCutShort, WriteStreamLost, Save, OtherWrites,
         ServerSnapshot, Answers, diskVars

\* The view's local documents come from the queue.
LEMMA DocsAreMine ==
    ASSUME IndInv, Mine, [Next]_vars, NEW k \in Runs, docs'[k].state = "local"
    PROVE  docs'[k].text = "mine"
<1>1. TypeOK
  BY DEF IndInv
<1>2. CASE UNCHANGED docs
  BY <1>2 DEF Mine
<1>3. CASE Restart
  BY <1>3 DEF Restart, NoDoc
<1>4. ASSUME NEW ks, NEW cur, ViewOf(ks, cur) PROVE docs'[k].text = "mine"
  BY <1>1, <1>4, ViewIsMine
<1>5. CASE Open
  BY <1>4, <1>5 DEF Open
<1>6. CASE GoOffline
  BY <1>4, <1>6 DEF GoOffline
<1>7. ASSUME NEW j \in Runs, Save(j) PROVE docs'[k].text = "mine"
  BY <1>4, <1>7 DEF Save
<1>8. CASE HandleWriteResult
  <2>1. ViewOf({Head(queue)}, current) \/ docs' = docs
    BY <1>8 DEF HandleWriteResult, viewVars
  <2> QED
    BY <1>2, <1>4, <2>1
<1>9. CASE HandleSnapshot
  <2>1. \E ks : ViewOf(ks, TRUE)
    BY <1>9 DEF HandleSnapshot
  <2> QED
    BY <1>4, <2>1
<1> QED
  BY <1>2, <1>3, <1>5, <1>6, <1>7, <1>8, <1>9
     DEF Next, vars, OpenWatch, WatchLost, ServerCommits, ServerRefuses,
         AnswersCutShort, WriteStreamLost, OtherWrites, ServerSnapshot, Answers,
         viewVars

\* A run is saved once, and leaves the queue from its head.
LEMMA OnceKeeps ==
    ASSUME IndInv, Once, [Next]_vars
    PROVE  Once'
<1>1. /\ queue \in Seq(saved) /\ Len(queue) \in Nat /\ saved \in SUBSET Runs
      /\ \A i \in 1..Len(queue) : queue[i] \in saved
  BY Types DEF IndInv
<1>2. CASE UNCHANGED queue
  BY <1>2 DEF Once
<1>3. ASSUME NEW k \in Runs, Save(k) PROVE Once'
  <2>1. queue' = Append(queue, k) /\ k \notin saved
    BY <1>3 DEF Save
  <2>2. queue \in Seq(Runs)
    BY <1>1
  <2>3. /\ Len(queue') = Len(queue) + 1 /\ queue'[Len(queue) + 1] = k
        /\ \A i \in 1..Len(queue) : queue'[i] = queue[i]
    BY <2>1, <2>2
  <2>4. ASSUME NEW i \in 1..Len(queue'), NEW j \in 1..Len(queue'),
               queue'[i] = queue'[j]
        PROVE  i = j
    <3>1. /\ i \in 1..Len(queue) \/ i = Len(queue) + 1
          /\ j \in 1..Len(queue) \/ j = Len(queue) + 1
      BY <1>1, <2>3
    <3>2. CASE i \in 1..Len(queue) /\ j \in 1..Len(queue)
      BY <2>3, <2>4, <3>2 DEF Once
    <3>3. CASE i \in 1..Len(queue) /\ j = Len(queue) + 1
      BY <1>1, <2>1, <2>3, <2>4, <3>3
    <3>4. CASE i = Len(queue) + 1 /\ j \in 1..Len(queue)
      BY <1>1, <2>1, <2>3, <2>4, <3>4
    <3> QED
      BY <3>1, <3>2, <3>3, <3>4
  <2> QED
    BY <2>4 DEF Once
<1>4. CASE HandleWriteResult
  <2>1. queue' = Tail(queue) /\ queue # << >>
    BY <1>4, AcknowledgedFacts DEF HandleWriteResult
  <2>2. /\ Len(queue') = Len(queue) - 1
        /\ \A i \in 1..Len(queue') : i + 1 \in 1..Len(queue) /\ queue'[i] = queue[i + 1]
    BY <1>1, <2>1, TailQueue
  <2>3. ASSUME NEW i \in 1..Len(queue'), NEW j \in 1..Len(queue'),
               queue'[i] = queue'[j]
        PROVE  i = j
    <3>1. i + 1 = j + 1
      BY <2>2, <2>3 DEF Once
    <3> QED
      BY <1>1, <2>2, <3>1
  <2> QED
    BY <2>3 DEF Once
<1> QED
  BY <1>2, <1>3, <1>4
     DEF Next, vars, Open, Restart, OpenWatch, WatchLost, GoOffline, ServerCommits,
         ServerRefuses, AnswersCutShort, WriteStreamLost, HandleSnapshot, OtherWrites,
         ServerSnapshot, Answers, diskVars

\* The invariant with what it says of the runs saved here.
Owned == IndInv /\ Once /\ Mine

\* Owned is an invariant.
THEOREM OwnedHolds == Spec => []Owned
<1>1. Init => Owned
  <2>1. Init => Once
    BY DEF Init, Once
  <2>2. Init => Mine
    BY DEF Init, Mine, Absent, NoDoc
  <2> QED
    BY <2>1, <2>2, InitHolds DEF Owned
<1>2. Owned /\ [Next]_vars => Owned'
  <2> SUFFICES ASSUME Owned, [Next]_vars PROVE Owned'
    OBVIOUS
  <2>1. IndInv /\ Once /\ Mine
    BY DEF Owned
  <2>2. IndInv'
    BY <2>1, StepKeeps
  <2>3. Once'
    BY <2>1, OnceKeeps
  <2>4. Mine'
    <3>1. \A k \in Runs : cache'[k].committed => cache'[k].text = "mine"
      BY <2>1, <2>2, CacheIsMine
    <3>2. \A k \in Runs : docs'[k].state = "local" => docs'[k].text = "mine"
      BY <2>1, DocsAreMine
    <3> QED
      BY <3>1, <3>2 DEF Mine
  <2> QED
    BY <2>2, <2>3, <2>4 DEF Owned
<1> QED
  BY <1>1, <1>2, PTL DEF Spec

\* When the stream has said all there is, the cache has every run there is as
\* the server has it now.
LEMMA CacheIsNow ==
    ASSUME IndInv, watching, sent = Now, down = << >>, NEW k \in Runs,
           Alive(k, Now)
    PROVE  cache[k].text = At(k, Now).text
<1>1. /\ TypeOK /\ CacheTrue /\ Chain /\ Versions
  BY DEF IndInv
<1>2. log \in Seq(Entry) /\ Len(log) \in Nat
  BY <1>1, Types
<1>3. token = Len(log)
  <2>1. Len(down) + 1 = 1
    OBVIOUS
  <2> QED
    BY <1>1, <2>1 DEF Chain, Before, Now
<1> DEFINE a == AtOf(log, k, Len(log))
           c == cache[k].ver
<1>4. At(k, Now) = a /\ a.text # "gone"
  BY AtLog DEF Now, AliveOf
<1>5. k \in keys /\ cache[k].text # "unknown" /\ c >= a.ver
  <2>1. Keyed(Len(log)) /\ AliveOf(log, k, Len(log))
    BY <1>1, <1>3, <1>4 DEF Versions, AliveOf
  <2> QED
    BY <2>1 DEF Keyed
<1>6. c \in 0..Len(log) /\ AtOf(log, k, c).text = cache[k].text
  BY <1>1, <1>5 DEF CacheTrue
<1>7. a.ver <= c
  <2>1. a.ver \in 0..Len(log)
    BY <1>2, AtFacts
  <2> HIDE DEF a, c
  <2> QED
    BY <1>2, <1>5, <1>6, <2>1
<1>8. AtOf(log, k, c) = a
  <2> HIDE DEF c
  <2>1. Len(log) \in 0..Len(log)
    BY <1>2
  <2> QED
    BY <1>2, <1>6, <1>7, <2>1, AtBetween
<1> QED
  BY <1>4, <1>6, <1>8

\* What is pending without a write in the queue waits for the watch stream.
LEMMA PendingWaits ==
    ASSUME IndInv, listening, NEW k \in Runs
    PROVE  /\ Waits(k) => k \in mutated
           /\ k \in mutated /\ ~Contains(queue, k) =>
                  /\ Waits(k) /\ cache[k].text \notin {"unknown", "gone"}
<1> DEFINE new == Local(k, queue, cache)
<1>1. cache \in [Runs -> Cacheable]
  BY Types DEF IndInv
<1>2. Fits(docs[k], k \in mutated, new)
  BY DEF IndInv, ViewTrue
<1>3. Waits(k) => k \in mutated
  BY <1>2 DEF Fits, Waits
<1>4. ASSUME k \in mutated, ~Contains(queue, k)
      PROVE  Waits(k) /\ cache[k].text \notin {"unknown", "gone"}
  <2>1. docs[k].state = "local" /\ new.state \in {"local", "committed"}
    BY <1>2, <1>4 DEF Fits
  <2>2. new.state = "committed"
    BY <1>1, <1>4, <2>1, LocalFacts
  <2>3. cache[k].committed /\ cache[k].text \notin {"unknown", "gone"}
    BY <1>4, <2>2 DEF Local, NoDoc
  <2> QED
    BY <1>4, <2>1, <2>3 DEF Waits
<1> QED
  BY <1>3, <1>4

\* The invariant says that a quiet table is right.
LEMMA QuietFollows ==
    ASSUME Owned
    PROVE  QuietIsRight
<1> SUFFICES ASSUME queue = << >>, watching, sent = Now, down = << >>, ~FromCache
             PROVE  ShowsServer
  BY DEF QuietIsRight
<1>1. IndInv /\ Mine /\ TypeOK /\ mutated \subseteq Runs
  BY Types DEF Owned, IndInv
<1>2. listening
  BY <1>1 DEF IndInv, Chain
<1>3. \A k \in Runs : ~Contains(queue, k)
  BY DEF Contains
<1>4. mutated = {k \in Runs : Waits(k)}
  BY <1>1, <1>2, <1>3, PendingWaits
<1>5. ASSUME NEW k \in Runs, Alive(k, Now)
      PROVE  docs[k].text = At(k, Now).text
  <2>1. cache[k].text = At(k, Now).text /\ cache[k].text # "gone"
    BY <1>1, <1>5, CacheIsNow DEF Alive
  <2>2. CASE k \in mutated
    <3>1. Waits(k)
      BY <1>4, <2>2
    <3>2. docs[k].text = "mine" /\ cache[k].text = "mine"
      BY <1>1, <3>1 DEF Waits, Mine
    <3> QED
      BY <2>1, <3>2
  <2>3. CASE k \notin mutated
    <3>1. cache[k].text # "unknown"
      <4>1. At(k, Now).text \in Text
        <5>1. log \in Seq(Entry) /\ Len(log) \in Nat
          BY <1>1, Types
        <5>2. Len(log) \in 0..Len(log)
          BY <5>1
        <5> QED
          BY <5>1, <5>2, AtFacts, AtLog DEF Now
      <4> QED
        BY <2>1, <4>1 DEF Text
    <3> QED
      BY <1>1, <1>2, <2>1, <2>3, <3>1, ShownIsCached
  <2> QED
    BY <2>2, <2>3
<1>6. ASSUME NEW k \in Runs, ~Alive(k, Now), Shown(k)
      PROVE  Waits(k)
  <2>1. CASE k \in mutated
    BY <1>4, <2>1
  <2>2. CASE k \notin mutated
    <3>1. PICK v \in lastRemote..Now : At(k, v).text = docs[k].text
      BY <1>1, <1>6, <2>2, MetadataFollows DEF MetadataIsTrue, SyncedIsServer
    <3>2. lastRemote = Len(log) /\ Len(log) \in Nat
      <4>1. Chain /\ Versions
        BY <1>1 DEF IndInv
      <4>2. Len(down) + 1 = 1
        OBVIOUS
      <4>3. token = Len(log)
        BY <4>1, <4>2 DEF Chain, Before, Now
      <4>4. token = lastRemote
        BY <4>1 DEF Versions, FromCache
      <4> QED
        BY <1>1, <4>3, <4>4, Types
    <3>3. v = Now
      BY <3>1, <3>2 DEF Now
    <3>4. docs[k].text = "gone"
      BY <1>6, <3>1, <3>3 DEF Alive
    <3>5. docs[k] \in Doc
      BY <1>1, Types
    <3> QED
      BY <3>4, <3>5 DEF Doc
  <2> QED
    BY <2>1, <2>2
<1> QED
  BY <1>4, <1>5, <1>6 DEF ShowsServer

\* Once the queue is empty, the stream has said all there is and nothing is in
\* limbo, the table shows what the server has.
THEOREM QuietCorrect == Spec => []QuietIsRight
<1>1. Owned => QuietIsRight
  BY QuietFollows
<1> QED
  BY <1>1, OwnedHolds, PTL

-----------------------------------------------------------------------------
(* The promise of RunTable.                                                *)

\* What a queue contains, as a set.
LEMMA WaitingFacts ==
    ASSUME NEW S, NEW q, q \in Seq(S)
    PROVE  \A k : k \in ToSet(q) <=> Contains(q, k)
BY DEF ToSet, Contains

\* The last write of a run, as RunTable has it.
LEMMA HasFacts ==
    ASSUME log \in Seq(Entry), Len(log) \in Nat, NEW k \in Runs, NEW v \in 0..Len(log)
    PROVE  /\ AliveOf(log, k, v) => Table!Has(k, v, AtOf(log, k, v).text)
           /\ ~AliveOf(log, k, v) => Table!Missing(k, v)
<1> DEFINE a == AtOf(log, k, v)
           i == a.ver
<1>1. /\ i \in 0..v /\ (i = 0 => a.text = "gone")
      /\ i > 0 => log[i].run = k /\ a.text = log[i].text
      /\ \A j \in 1..v : log[j].run = k => j <= i
  BY AtFacts
<1> HIDE DEF i
<1>2. v \in Nat /\ i \in Nat /\ v <= Len(log)
  BY <1>1
<1>3. CASE i = 0
  <2>1. \A j \in 1..v : log[j].run # k
    BY <1>1, <1>2, <1>3
  <2>2. Table!Missing(k, v)
    BY <2>1 DEF Table!Missing
  <2> QED
    BY <1>1, <1>3, <2>2 DEF AliveOf
<1>4. CASE i # 0
  <2>1. i \in 1..v /\ i > 0 /\ i \in 1..Len(log)
    BY <1>1, <1>2, <1>4
  <2>2. log[i] = [run |-> k, text |-> a.text]
    BY <1>1, <2>1, EntryFacts
  <2>3. \A j \in (i + 1)..v : log[j].run # k
    <3> SUFFICES ASSUME NEW j \in (i + 1)..v, log[j].run = k PROVE FALSE
      OBVIOUS
    <3>1. j \in 1..v /\ ~(j <= i)
      BY <1>2
    <3> QED
      BY <1>1, <3>1
  <2>4. Table!Has(k, v, a.text)
    BY <2>1, <2>2, <2>3 DEF Table!Has
  <2> QED
    BY <2>4 DEF Table!Missing, AliveOf
<1> QED
  BY <1>3, <1>4

\* The table shows what is waiting as it was saved, and the rest as the cache
\* has it.
LEMMA ShownText ==
    ASSUME Owned, listening, NEW k \in Runs
    PROVE  /\ Contains(queue, k) => docs[k].text = "mine"
           /\ ~Contains(queue, k) =>
                  \/ docs[k].text = cache[k].text /\ cache[k].text \in {"mine", "other"}
                  \/ docs[k].text = "none" /\ cache[k].text \in {"unknown", "gone"}
<1>1. IndInv /\ Mine /\ cache \in [Runs -> Cacheable]
  BY Types DEF Owned, IndInv
<1>2. cache[k].text \in {"mine", "other", "gone", "unknown"}
  BY <1>1, CacheTypes DEF Text
<1>3. CASE Contains(queue, k)
  <2> DEFINE new == Local(k, queue, cache)
  <2>1. Fits(docs[k], k \in mutated, new)
    BY <1>1 DEF IndInv, ViewTrue
  <2>2. new.state = "local" /\ new # NoDoc
    BY <1>1, <1>3, LocalFacts DEF NoDoc
  <2> HIDE DEF new
  <2>3. docs[k].state = "local"
    BY <2>1, <2>2 DEF Fits
  <2> QED
    BY <1>1, <1>3, <2>3 DEF Mine
<1>4. CASE ~Contains(queue, k) /\ k \in mutated
  <2>1. Waits(k) /\ cache[k].text \notin {"unknown", "gone"}
    BY <1>1, <1>4, PendingWaits
  <2>2. docs[k].text = "mine" /\ cache[k].text = "mine"
    BY <1>1, <2>1 DEF Waits, Mine
  <2> QED
    BY <1>4, <2>2
<1>5. CASE ~Contains(queue, k) /\ k \notin mutated
  <2>1. /\ Shown(k) => /\ cache[k].text \notin {"unknown", "gone"}
                       /\ docs[k].text = cache[k].text
        /\ ~Shown(k) => cache[k].text \in {"unknown", "gone"}
    BY <1>1, <1>5, ShownIsCached
  <2>2. ~Shown(k) => docs[k].text = "none"
    BY DEF Shown, NoDoc
  <2> QED
    BY <1>2, <1>5, <2>1, <2>2
<1> QED
  BY <1>3, <1>4, <1>5

\* The table is what RunTable says.
LEMMA TableShows ==
    ASSUME Owned
    PROVE  Table!Shows
<1>1. /\ IndInv /\ CacheTrue /\ ViewTrue /\ log \in Seq(Entry) /\ Len(log) \in Nat
      /\ queue \in Seq(saved)
  BY Types DEF Owned, IndInv
<1> SUFFICES ASSUME NEW k \in Runs
             PROVE  IF ~listening THEN docs[k].text = "none"
                    ELSE IF k \in ToSet(queue) THEN docs[k].text = "mine"
                    ELSE IF docs[k].text = "none" THEN Table!Missing(k, cache[k].ver)
                    ELSE docs[k].text # "gone"
                         /\ Table!Has(k, cache[k].ver, docs[k].text)
  BY DEF Table!Shows
<1>2. k \in ToSet(queue) <=> Contains(queue, k)
  BY <1>1, WaitingFacts
<1>3. CASE ~listening
  BY <1>1, <1>3 DEF ViewTrue, NoDoc
<1>4. CASE listening /\ Contains(queue, k)
  BY <1>2, <1>4, ShownText
<1>5. CASE listening /\ ~Contains(queue, k)
  <2> DEFINE c == cache[k].ver
  <2>1. /\ c \in 0..Len(log) /\ (cache[k].text = "unknown" => c = 0)
        /\ cache[k].text # "unknown" => AtOf(log, k, c).text = cache[k].text
    BY <1>1 DEF CacheTrue
  <2>2. \/ docs[k].text = cache[k].text /\ cache[k].text \in {"mine", "other"}
        \/ docs[k].text = "none" /\ cache[k].text \in {"unknown", "gone"}
    BY <1>5, ShownText
  <2>3. /\ AliveOf(log, k, c) => Table!Has(k, c, AtOf(log, k, c).text)
        /\ ~AliveOf(log, k, c) => Table!Missing(k, c)
    BY <1>1, <2>1, HasFacts
  <2>4. c = 0 => ~AliveOf(log, k, c)
    <3>1. 0 \in 0..Len(log)
      BY <1>1
    <3>2. AtOf(log, k, 0).ver = 0 /\ AtOf(log, k, 0).text = "gone"
      <4>1. AtOf(log, k, 0).ver \in 0..0
        BY <1>1, <3>1, AtFacts
      <4>2. AtOf(log, k, 0).ver = 0
        BY <4>1
      <4> QED
        BY <1>1, <3>1, <4>2, AtFacts
    <3> QED
      BY <3>2 DEF AliveOf
  <2> HIDE DEF c
  <2>5. CASE docs[k].text = "none"
    <3>1. ~AliveOf(log, k, c)
      BY <2>1, <2>2, <2>4, <2>5 DEF AliveOf
    <3> QED
      BY <1>2, <1>5, <2>3, <2>5, <3>1 DEF c
  <2>6. CASE docs[k].text # "none"
    <3>1. /\ docs[k].text = cache[k].text /\ docs[k].text # "gone"
          /\ AtOf(log, k, c).text = docs[k].text
      BY <2>1, <2>2, <2>6
    <3>2. AliveOf(log, k, c)
      BY <3>1 DEF AliveOf
    <3> QED
      BY <1>2, <1>5, <2>3, <2>6, <3>1, <3>2 DEF c
  <2> QED
    BY <2>5, <2>6
<1> QED
  BY <1>3, <1>4, <1>5

\* The initial states are initial states of RunTable.
LEMMA TableInit ==
    ASSUME Init
    PROVE  Table!Init
<1>1. /\ log = << >> /\ refused = {} /\ listening = FALSE /\ queue = << >>
      /\ cache = [k \in Runs |-> Absent] /\ docs = [k \in Runs |-> NoDoc]
  BY DEF Init
<1>2. ToSet(queue) = {}
  BY <1>1 DEF ToSet
<1>3. [k \in Runs |-> cache[k].ver] = [k \in Runs |-> 0]
  BY <1>1 DEF Absent
<1>4. [k \in Runs |-> docs[k].text] = [k \in Runs |-> "none"]
  BY <1>1 DEF NoDoc
<1> QED
  BY <1>1, <1>2, <1>3, <1>4 DEF Table!Init

\* A cache that has grown has seen a later state of the server.
LEMMA SeesLater ==
    ASSUME IndInv, IndInv', Grown, UNCHANGED log
    PROVE  Table!Later
<1>1. /\ Len(log) \in Nat /\ cache \in [Runs -> Cacheable] /\ CacheTrue'
      /\ cache' \in [Runs -> Cacheable]
  <2>1. cache' \in [Runs -> Cacheable]
    BY DEF IndInv, TypeOK, Cacheable
  <2> QED
    BY <2>1, Types DEF IndInv
<1>2. ASSUME NEW k \in Runs
      PROVE  cache'[k].ver \in (cache[k].ver)..Len(log)
  <2>1. cache[k].ver \in Nat /\ cache'[k].ver \in Nat
    BY <1>1, CacheTypes
  <2>2. cache'[k].ver \in 0..Len(log') /\ Len(log') = Len(log)
    BY <1>1 DEF CacheTrue
  <2>3. cache'[k].ver >= cache[k].ver
    BY DEF Grown
  <2> QED
    BY <1>1, <2>1, <2>2, <2>3
<1> QED
  BY <1>2 DEF Table!Later

\* A run that is saved waits.
LEMMA SaveIsSave ==
    ASSUME IndInv, NEW k \in Runs, Save(k)
    PROVE  Table!Save(k)
<1>1. /\ queue \in Seq(saved) /\ saved \in SUBSET Runs
      /\ \A i \in 1..Len(queue) : queue[i] \in saved
  BY Types DEF IndInv
<1>2. /\ listening /\ k \notin saved /\ \A i \in 1..Now : log[i].run # k
      /\ queue' = Append(queue, k)
      /\ UNCHANGED <<log, refused, listening, cache>>
  BY DEF Save
<1>3. k \notin ToSet(queue)
  BY <1>1, <1>2, WaitingFacts DEF Contains
<1>4. ToSet(queue') = ToSet(queue) \cup {k}
  <2>1. queue \in Seq(Runs) /\ queue' \in Seq(Runs)
    BY <1>1, <1>2
  <2>2. \A j : Contains(queue', j) <=> (Contains(queue, j) \/ j = k)
    BY <1>2, <2>1, SaveQueue
  <2> QED
    BY <2>1, <2>2, WaitingFacts
<1> QED
  BY <1>2, <1>3, <1>4 DEF Table!Save, Now

\* The server's next write is waiting.
LEMMA NextWaits ==
    ASSUME IndInv, Len(acks) < Len(queue)
    PROVE  NextWrite \in ToSet(queue) /\ NextWrite \in Runs
<1>1. /\ Len(acks) + 1 \in 1..Len(queue) /\ NextWrite = queue[Len(acks) + 1]
      /\ NextWrite \in Runs /\ queue \in Seq(saved)
  BY NextWriteFacts, Types DEF IndInv
<1> QED
  BY <1>1, WaitingFacts DEF Contains

\* What is seen of the run whose answer comes is its write or later, or it is
\* refused.
LEMMA ResultIsSeen ==
    ASSUME IndInv, HandleWriteResult
    PROVE  LET k == Head(queue)
           IN  k \in refused \/ \E i \in 1..(cache'[k].ver) :
                                    log[i] = [run |-> k, text |-> "mine"]
<1> DEFINE k == Head(queue)
           v == Head(acks)
<1>1. cache \in [Runs -> Cacheable] /\ Len(log) \in Nat
  BY Types DEF IndInv
<1>2. /\ k \in Runs
      /\ v = 0 => k \in refused
      /\ v \in 0..Len(log)
      /\ v > 0 => log[v] = [run |-> k, text |-> "mine"]
  BY AcknowledgedFacts
<1>3. cache' = Acknowledged(k, v)
  BY DEF HandleWriteResult
<1> HIDE DEF v
<1>4. CASE v = 0
  BY <1>2, <1>4
<1>5. CASE v # 0
  <2>1. cache[k].ver \in Nat
    BY <1>1, <1>2, CacheTypes
  <2>2. cache'[k].ver >= v /\ cache'[k].ver \in Nat
    <3>1. CASE cache[k].ver < v
      <4>1. cache'[k].ver = v
        BY <1>1, <1>2, <1>3, <3>1 DEF Acknowledged
      <4> QED
        BY <1>2, <4>1
    <3>2. CASE ~(cache[k].ver < v)
      <4>1. cache'[k] = cache[k]
        BY <1>3, <3>2 DEF Acknowledged
      <4> QED
        BY <1>2, <2>1, <3>2, <4>1
    <3> QED
      BY <3>1, <3>2
  <2>3. v \in 1..(cache'[k].ver)
    BY <1>2, <1>5, <2>2
  <2> QED
    BY <1>2, <1>5, <2>3
<1> QED
  BY <1>4, <1>5

\* The answer settles the first write that waits: what is seen of its run then
\* is the write or later, or it is refused.
LEMMA ResultSettles ==
    ASSUME Owned, IndInv', HandleWriteResult
    PROVE  \E k \in Runs : Table!Settle(k)
<1> DEFINE k == Head(queue)
           v == Head(acks)
<1>1. /\ IndInv /\ Once /\ queue \in Seq(saved) /\ saved \in SUBSET Runs
      /\ cache \in [Runs -> Cacheable] /\ Len(log) \in Nat
  BY Types DEF Owned, IndInv
<1>2. /\ k \in Runs /\ queue # << >> /\ Grown
      /\ v = 0 => k \in refused
      /\ v \in 0..Len(log)
      /\ v > 0 => log[v] = [run |-> k, text |-> "mine"]
  BY <1>1, AcknowledgedFacts
<1>3. /\ queue' = Tail(queue) /\ cache' = Acknowledged(k, v)
      /\ UNCHANGED <<log, refused, listening>>
  BY DEF HandleWriteResult
<1> HIDE DEF v
<1>4. /\ Len(queue) \in Nat /\ Len(queue') = Len(queue) - 1 /\ Len(queue) >= 1
      /\ k = queue[1] /\ queue' \in Seq(saved)
      /\ \A i \in 1..Len(queue') : i + 1 \in 1..Len(queue) /\ queue'[i] = queue[i + 1]
  BY <1>1, <1>2, <1>3, TailQueue
<1>5. k \in ToSet(queue)
  <2>1. 1 \in 1..Len(queue)
    BY <1>4
  <2> QED
    BY <1>1, <1>4, <2>1, WaitingFacts DEF Contains
<1>6. ToSet(queue') = ToSet(queue) \ {k}
  <2>1. ~Contains(queue', k)
    <3> SUFFICES ASSUME NEW i \in 1..Len(queue'), queue'[i] = k PROVE FALSE
      BY DEF Contains
    <3>1. i + 1 \in 1..Len(queue) /\ queue[i + 1] = queue[1] /\ 1 \in 1..Len(queue)
      BY <1>4
    <3>2. i + 1 = 1
      BY <1>1, <3>1 DEF Once
    <3> QED
      BY <1>4, <3>2
  <2>2. \A j : j # k => (Contains(queue', j) <=> Contains(queue, j))
    BY <1>1, <1>2, <1>3, TailContains
  <2> QED
    BY <1>1, <1>4, <2>1, <2>2, WaitingFacts
<1>7. Table!Later
  BY <1>1, <1>2, <1>3, SeesLater
<1>8. k \in refused \/ \E i \in 1..(cache'[k].ver) : log[i] = [run |-> k, text |-> "mine"]
  BY <1>1, ResultIsSeen
<1> HIDE DEF k
<1> QED
  BY <1>2, <1>3, <1>5, <1>6, <1>7, <1>8 DEF Table!Settle

\* A snapshot brings later states of the runs.
LEMMA SnapshotIsHeard ==
    ASSUME IndInv, IndInv', HandleSnapshot
    PROVE  Table!Hear
<1>1. /\ down # << >> /\ cache' = Cached(Updates(Head(down)))
      /\ UNCHANGED <<log, refused, listening, queue>>
  BY DEF HandleSnapshot
<1>2. Grown
  BY <1>1, SnapshotCache
<1>3. Table!Later
  BY <1>1, <1>2, SeesLater
<1> QED
  BY <1>1, <1>3 DEF Table!Hear

\* What RunTable sees does not change when these do not.
LEMMA TableStill ==
    ASSUME UNCHANGED <<log, refused, listening, queue, cache, docs>>
    PROVE  UNCHANGED Table!tableVars
BY DEF Table!tableVars

\* A step of the runs is a step of RunTable or changes nothing there.
LEMMA TableStep ==
    ASSUME Owned, IndInv', (Table!Shows)', [Next]_vars
    PROVE  [Table!Next]_Table!tableVars
<1>1. IndInv /\ queue \in Seq(saved)
  BY Types DEF Owned, IndInv
<1> DEFINE Rest == \/ Table!StartOrEnd \/ Table!Hear
                   \/ \E k \in Runs : \/ Table!Save(k) \/ Table!Commit(k)
                                      \/ Table!Refuse(k) \/ Table!Settle(k)
                   \/ \E k \in Runs : Table!Change(k, "other") \/ Table!Change(k, "gone")
<1>2. ASSUME Rest PROVE Table!Next
  BY <1>2 DEF Table!Next
<1>3. ASSUME Open \/ Restart PROVE Rest
  <2>1. listening' = ~listening /\ UNCHANGED <<log, refused, queue, cache>>
    BY <1>1, <1>3, Types DEF IndInv, Open, Restart, diskVars
  <2>2. Table!StartOrEnd
    BY <2>1 DEF Table!StartOrEnd
  <2> QED
    BY <2>2
<1>4. ASSUME \/ OpenWatch \/ WatchLost \/ GoOffline \/ WriteStreamLost
             \/ UNCHANGED vars
             \/ \E v \in 0..Now, reset \in BOOLEAN : ServerSnapshot(v, reset)
      PROVE  UNCHANGED Table!tableVars
  <2>1. CASE GoOffline
    <3>1. docs' = docs
      <4>1. docs' = [k \in Runs |-> IF k \in {j \in {} : Applied(j, Local(j, queue', cache'))}
                                    THEN Local(k, queue', cache') ELSE docs[k]]
        BY <2>1 DEF GoOffline, ViewOf
      <4>2. docs \in [Runs -> Doc]
        BY <1>1, Types DEF IndInv
      <4> QED
        BY <4>1, <4>2
    <3> QED
      BY <2>1, <3>1, TableStill DEF GoOffline, diskVars
  <2>2. CASE ~GoOffline
    <3>1. UNCHANGED <<log, refused, listening, queue, cache, docs>>
      BY <1>4, <2>2 DEF vars, OpenWatch, WatchLost, WriteStreamLost,
                        ServerSnapshot, diskVars, viewVars
    <3> QED
      BY <3>1, TableStill
  <2> QED
    BY <2>1, <2>2
<1>5. ASSUME ServerCommits PROVE Rest
  <2>1. /\ Len(acks) < Len(queue)
        /\ log' = Append(log, [run |-> NextWrite, text |-> "mine"])
        /\ UNCHANGED <<refused, listening, queue, cache>>
    BY <1>5 DEF ServerCommits, Answers, diskVars
  <2>2. NextWrite \in ToSet(queue) /\ NextWrite \in Runs
    BY <1>1, <2>1, NextWaits
  <2>3. Table!Commit(NextWrite)
    BY <2>1, <2>2 DEF Table!Commit
  <2> QED
    BY <2>2, <2>3
<1>6. ASSUME ServerRefuses PROVE Rest
  <2>1. /\ Len(acks) < Len(queue) /\ refused' = refused \cup {NextWrite}
        /\ UNCHANGED <<log, listening, queue, cache>>
    BY <1>6 DEF ServerRefuses, Answers, diskVars
  <2>2. NextWrite \in ToSet(queue) /\ NextWrite \in Runs
    BY <1>1, <2>1, NextWaits
  <2>3. Table!Refuse(NextWrite)
    BY <2>1, <2>2 DEF Table!Refuse
  <2> QED
    BY <2>2, <2>3
<1>7. ASSUME AnswersCutShort PROVE Rest
  <2>1. /\ Contains(acks, 0) /\ refused' = refused \cup {Head(queue)}
        /\ UNCHANGED <<log, listening, queue, cache>>
    BY <1>7 DEF AnswersCutShort, diskVars
  <2>2. /\ acks \in Seq(Nat) /\ Len(acks) \in Nat /\ Len(queue) \in Nat
        /\ Len(acks) <= Len(queue) /\ saved \in SUBSET Runs
        /\ \A i \in 1..Len(queue) : queue[i] \in saved
    BY <1>1, Types DEF IndInv
  <2>3. 1 \in 1..Len(queue)
    BY <2>1, <2>2 DEF Contains
  <2>4. Head(queue) = queue[1]
    BY <1>1, <2>3
  <2>5. Head(queue) \in ToSet(queue) /\ Head(queue) \in Runs
    BY <1>1, <2>2, <2>3, <2>4, WaitingFacts DEF Contains
  <2>6. Table!Refuse(Head(queue))
    BY <2>1, <2>5 DEF Table!Refuse
  <2> QED
    BY <2>5, <2>6
<1>8. ASSUME HandleWriteResult PROVE Rest
  BY <1>8, ResultSettles
<1>9. ASSUME HandleSnapshot PROVE Rest
  BY <1>1, <1>9, SnapshotIsHeard
<1>10. ASSUME NEW k \in Runs, Save(k) PROVE Rest
  BY <1>1, <1>10, SaveIsSave
<1>11. ASSUME NEW k \in Runs, NEW text \in {"other", "gone"}, OtherWrites(k, text)
       PROVE  Rest
  <2>1. /\ log' = Append(log, [run |-> k, text |-> text])
        /\ UNCHANGED <<refused, listening, queue, cache>>
    BY <1>11 DEF OtherWrites, diskVars
  <2>2. Table!Change(k, text)
    BY <2>1 DEF Table!Change
  <2> QED
    BY <2>2
<1> HIDE DEF Rest
<1> QED
  BY <1>2, <1>3, <1>4, <1>5, <1>6, <1>7, <1>8, <1>9, <1>10, <1>11 DEF Next

\* What the client does is what RunTable promises: of the runs saved here and
\* of those seen, through every order of commits, answers, snapshots, crashes and
\* lost streams, no older state is shown than was saved or seen.
THEOREM RunLogImplementsRunTable == Spec => ImplementsRunTable
<1>1. Init => Table!Init
  BY TableInit
<1>2. Owned => Table!Shows
  BY TableShows
<1>3. Owned => IndInv
  BY DEF Owned
<1>4. Owned /\ IndInv' /\ (Table!Shows)' /\ [Next]_vars => [Table!Next]_Table!tableVars
  BY TableStep
<1> QED
  BY <1>1, <1>2, <1>3, <1>4, OwnedHolds, PTL DEF Spec, ImplementsRunTable, Table!Spec

-----------------------------------------------------------------------------
(* What has been saved is kept.                                            *)

\* The cache has seen the write of run k, and maybe more.
Seen(k) == \E i \in 1..(cache[k].ver) : log[i] = [run |-> k, text |-> "mine"]

\* A run saved here is in the queue or has come to the cache, unless it was
\* refused.
Kept == \A k \in saved : k \in refused \/ Contains(queue, k) \/ Seen(k)

\* What the cache has seen it has seen when it grows.
LEMMA SeenStays ==
    ASSUME NEW k \in Runs, Seen(k), Grown, IndInv, IndInv', Extends(log', log)
    PROVE  Seen(k)'
<1>1. /\ cache[k].ver \in 0..Len(log) /\ cache[k].ver \in Nat /\ Len(log) \in Nat
      /\ cache'[k].ver \in Nat
  <2>1. cache \in [Runs -> Cacheable] /\ Len(log) \in Nat /\ CacheTrue
    BY Types DEF IndInv
  <2>2. cache' \in [Runs -> Cacheable]
    BY DEF IndInv, TypeOK, Cacheable
  <2> QED
    BY <2>1, <2>2, CacheTypes DEF CacheTrue
<1>2. PICK i \in 1..(cache[k].ver) : log[i] = [run |-> k, text |-> "mine"]
  BY DEF Seen
<1>3. cache'[k].ver >= cache[k].ver
  BY DEF Grown
<1>4. i \in 1..(cache'[k].ver) /\ i \in 1..Len(log)
  BY <1>1, <1>2, <1>3
<1>5. log'[i] = log[i]
  BY <1>4 DEF Extends
<1> QED
  BY <1>2, <1>4, <1>5 DEF Seen

\* Every step lets the cache grow, and the log of the server.
LEMMA StepGrows ==
    ASSUME IndInv, [Next]_vars
    PROVE  Grown /\ Extends(log', log)
<1>1. /\ cache \in [Runs -> Cacheable] /\ log \in Seq(Entry) /\ Len(log) \in Nat
      /\ \A k \in Runs : cache[k].ver \in Nat
  BY Types, CacheTypes DEF IndInv
<1>2. cache' = cache => Grown
  BY <1>1 DEF Grown
<1>3. log' = log => Extends(log', log)
  BY <1>1 DEF Extends
<1>4. ASSUME NEW e \in Entry, log' = Append(log, e) PROVE Extends(log', log)
  <2>1. Len(log') = Len(log) + 1 /\ \A i \in 1..Len(log) : log'[i] = log[i]
    BY <1>1, <1>4
  <2> QED
    BY <1>1, <2>1 DEF Extends
<1>5. CASE ServerCommits
  <2>1. log' = Append(log, [run |-> NextWrite, text |-> "mine"]) /\ cache' = cache
    BY <1>5 DEF ServerCommits, Answers, diskVars
  <2>2. Len(acks) < Len(queue)
    BY <1>5 DEF ServerCommits, Answers
  <2>3. [run |-> NextWrite, text |-> "mine"] \in Entry
    BY <2>2, NextWaits DEF Entry, Text
  <2> QED
    BY <1>2, <1>4, <2>1, <2>3
<1>6. ASSUME NEW k \in Runs, NEW text \in {"other", "gone"}, OtherWrites(k, text)
      PROVE  Grown /\ Extends(log', log)
  <2>1. log' = Append(log, [run |-> k, text |-> text]) /\ cache' = cache
    BY <1>6 DEF OtherWrites, diskVars
  <2>2. [run |-> k, text |-> text] \in Entry
    BY DEF Entry, Text
  <2> QED
    BY <1>2, <1>4, <2>1, <2>2
<1>7. CASE HandleWriteResult
  BY <1>3, <1>7, AcknowledgedFacts DEF HandleWriteResult
<1>8. CASE HandleSnapshot
  <2>1. down # << >> /\ cache' = Cached(Updates(Head(down))) /\ log' = log
    BY <1>8 DEF HandleSnapshot
  <2> QED
    BY <1>3, <2>1, SnapshotCache
<1>9. CASE UNCHANGED <<log, cache>>
  BY <1>2, <1>3, <1>9
<1> QED
  BY <1>5, <1>6, <1>7, <1>8, <1>9
     DEF Next, vars, Open, Save, Restart, OpenWatch, WatchLost, GoOffline,
         ServerRefuses, AnswersCutShort, WriteStreamLost, ServerSnapshot, Answers,
         diskVars

\* Every step keeps what has been saved.
LEMMA KeptStays ==
    ASSUME IndInv, IndInv', Kept, [Next]_vars
    PROVE  Kept'
<1>1. Grown /\ Extends(log', log)
  BY StepGrows
<1>2. queue \in Seq(saved) /\ saved \in SUBSET Runs /\ queue \in Seq(Runs)
  BY Types DEF IndInv
<1>3. refused \subseteq refused'
  BY DEF Next, vars, Open, Save, Restart, OpenWatch, WatchLost, GoOffline,
         ServerCommits, ServerRefuses, AnswersCutShort, HandleWriteResult,
         WriteStreamLost, HandleSnapshot, OtherWrites, ServerSnapshot, Answers,
         diskVars
<1>4. ASSUME NEW k \in saved, ~Contains(queue, k)
      PROVE  k \in refused' \/ Seen(k)'
  <2>1. k \in Runs /\ (k \in refused \/ Seen(k))
    BY <1>2, <1>4 DEF Kept
  <2> QED
    BY <1>1, <1>3, <2>1, SeenStays
<1>5. CASE UNCHANGED <<saved, queue>>
  <2> SUFFICES ASSUME NEW k \in saved
               PROVE  k \in refused' \/ Contains(queue, k) \/ Seen(k)'
    BY <1>5 DEF Kept
  <2> QED
    BY <1>4
<1>6. ASSUME NEW r \in Runs, Save(r) PROVE Kept'
  <2>1. saved' = saved \cup {r} /\ queue' = Append(queue, r)
    BY <1>6 DEF Save
  <2>2. \A k : Contains(queue', k) <=> (Contains(queue, k) \/ k = r)
    BY <1>2, <2>1, SaveQueue
  <2> SUFFICES ASSUME NEW k \in saved'
               PROVE  k \in refused' \/ Contains(queue', k) \/ Seen(k)'
    BY DEF Kept
  <2> QED
    BY <1>4, <2>1, <2>2
<1>7. CASE HandleWriteResult
  <2>1. /\ UNCHANGED <<saved, log, refused>> /\ queue' = Tail(queue)
    BY <1>7 DEF HandleWriteResult
  <2>2. queue # << >>
    BY <1>7, AcknowledgedFacts
  <2> SUFFICES ASSUME NEW k \in saved
               PROVE  k \in refused' \/ Contains(queue', k) \/ Seen(k)'
    BY <2>1 DEF Kept
  <2>3. CASE k = Head(queue)
    BY <1>7, <2>1, <2>3, ResultIsSeen DEF Seen
  <2>4. CASE k # Head(queue)
    <3>1. Contains(queue', k) <=> Contains(queue, k)
      BY <1>2, <2>1, <2>2, <2>4, TailContains
    <3> QED
      BY <1>4, <3>1
  <2> QED
    BY <2>3, <2>4
<1> QED
  BY <1>5, <1>6, <1>7
     DEF Next, vars, Open, Restart, OpenWatch, WatchLost, GoOffline, ServerCommits,
         ServerRefuses, AnswersCutShort, WriteStreamLost, HandleSnapshot, OtherWrites,
         ServerSnapshot, Answers, diskVars

\* What is kept is shown, if nobody has deleted it.
LEMMA KeptIsShown ==
    ASSUME IndInv, Kept
    PROVE  SavedIsShown
<1>1. /\ log \in Seq(Entry) /\ Len(log) \in Nat /\ cache \in [Runs -> Cacheable]
      /\ saved \in SUBSET Runs /\ CacheTrue /\ ViewTrue
  BY Types DEF IndInv
<1> SUFFICES ASSUME listening, NEW k \in saved, k \notin refused, ~Shown(k)
             PROVE  \E i \in 1..Len(log) : log[i] = [run |-> k, text |-> "gone"]
  BY DEF SavedIsShown, Now
<1>2. k \in Runs /\ Fits(docs[k], k \in mutated, Local(k, queue, cache))
  BY <1>1 DEF ViewTrue
<1>3. Local(k, queue, cache) = NoDoc
  BY <1>2 DEF Fits, Shown
<1>4. /\ ~Contains(queue, k)
      /\ cache[k].text \in {"unknown", "gone"}
  BY <1>1, <1>2, <1>3, LocalFacts DEF NoDoc
<1>5. PICK j \in 1..(cache[k].ver) : log[j] = [run |-> k, text |-> "mine"]
  BY <1>4 DEF Kept, Seen
<1>6. cache[k].ver \in 0..Len(log) /\ (cache[k].text = "unknown" => cache[k].ver = 0)
  BY <1>1, <1>2 DEF CacheTrue
<1>7. cache[k].text = "gone"
  BY <1>4, <1>5, <1>6
<1>8. ~AliveOf(log, k, cache[k].ver)
  BY <1>1, <1>2, <1>7 DEF CacheTrue, AliveOf
<1>9. log[j].run = k
  BY <1>5
<1> QED
  BY <1>1, <1>5, <1>6, <1>8, <1>9, AtGone

\* What has been saved is shown whenever there is a table, however often the
\* process has ended, unless it was deleted or refused.
THEOREM SavedStaysShown == Spec => []SavedIsShown
<1>1. Init => IndInv /\ Kept
  <2>1. Init => Kept
    BY DEF Init, Kept
  <2> QED
    BY <2>1, InitHolds
<1>2. IndInv /\ Kept /\ [Next]_vars => (IndInv /\ Kept)'
  BY StepKeeps, KeptStays
<1>3. IndInv /\ Kept => SavedIsShown
  BY KeptIsShown
<1> QED
  BY <1>1, <1>2, <1>3, PTL DEF Spec
==============================================================================
