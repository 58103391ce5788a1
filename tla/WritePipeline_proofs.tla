------------------------ MODULE WritePipeline_proofs ------------------------
(***************************************************************************)
(* What the write side of the Firestore client guarantees for any users,   *)
(* any number of writes, any size of the pipeline and any order of what    *)
(* the app, FIRAuth, the network and the server do.                        *)
(*                                                                         *)
(* The inductive invariant IndInv has four parts besides the types: the    *)
(* queues on disk (Stored), the pipeline as their front (Piped), what is   *)
(* on its way on the stream (Started, Connected, Sent), and the requests   *)
(* for a token (Credentials).  The last is the longest: a stream that      *)
(* starts is answered with the token of whoever is signed in then, or not  *)
(* at all, and this goes through three queues (see AuthInv).               *)
(***************************************************************************)
EXTENDS WritePipeline, SequenceTheorems, WellFoundedInduction, TLAPS

(* Sequences of batches.                                                   *)

\* The order the library takes for the naturals.
Below == {ss \in Nat \X Nat : ss[1] < ss[2]}

\* Every set of naturals has a least element.
LEMMA BelowIsWellFounded == IsWellFoundedOn(Below, Nat)
BY NatLessThanWellFounded DEF OpToRel, Below

\* A nonempty set of naturals has a least element.
LEMMA Least ==
    ASSUME NEW S \in SUBSET Nat, S # {}
    PROVE  \E x \in S : \A y \in S : x <= y
<1>1. PICK x \in S : \A y \in S : ~(<<y, x>> \in Below)
  BY BelowIsWellFounded, WFMin
<1>2. \A y \in S : ~(y < x)
  BY <1>1 DEF Below
<1> QED
  BY <1>2

\* A bounded set of numbers has a greatest one.
LEMMA Greatest ==
    ASSUME NEW n \in Nat, NEW S \in SUBSET (0..n), S # {}
    PROVE  \E x \in S : \A y \in S : y <= x
<1> DEFINE T == {n - x : x \in S}
<1>1. T \in SUBSET Nat /\ T # {}
  <2>1. \A x \in S : x \in Nat /\ n - x \in Nat
    OBVIOUS
  <2> QED
    BY <2>1
<1>2. PICK t \in T : \A y \in T : t <= y
  BY <1>1, Least
<1>3. PICK x \in S : t = n - x
  BY <1>2
<1>4. \A y \in S : y <= x
  <2> TAKE y \in S
  <2>1. n - y \in T
    OBVIOUS
  <2>2. n - x <= n - y
    BY <1>2, <1>3, <2>1
  <2> QED
    BY <2>2
<1> QED
  BY <1>4

\* The members of a queue are batches.
LEMMA BatchFacts ==
    ASSUME NEW q \in Seq(Batch)
    PROVE  /\ Len(q) \in Nat
           /\ \A i \in 1..Len(q) : q[i] \in Batch
           /\ \A i \in 1..Len(q) : q[i].id \in Nat /\ q[i].write \in Nat
<1>1. Len(q) \in Nat /\ \A i \in 1..Len(q) : q[i] \in Batch
  OBVIOUS
<1>2. \A b \in Batch : b.id \in Nat /\ b.write \in Nat
  BY DEF Batch
<1> QED
  BY <1>1, <1>2

\* p is the front of q.
Prefix(p, q) == Len(p) <= Len(q) /\ \A i \in 1..Len(p) : p[i] = q[i]

\* p is as much of the front of q as there is room for.
IsOldest(p, q) ==
    /\ Prefix(p, q)
    /\ Len(p) <= MaxPendingWrites
    /\ Len(p) = MaxPendingWrites \/ Len(p) = Len(q)

\* Ids and writes increase along q, and ids are not 0.
Grows(q) ==
    /\ \A i \in 1..Len(q) : q[i].id > 0
    /\ \A i, j \in 1..Len(q) :
           i < j => q[i].id < q[j].id /\ q[i].write < q[j].write

\* Seek finds the first place with an id of at least id.
LEMMA SeekFacts ==
    ASSUME NEW q \in Seq(Batch), NEW id \in Nat
    PROVE  /\ Seek(q, id) \in 1..(Len(q) + 1)
           /\ Seek(q, id) <= Len(q) => q[Seek(q, id)].id >= id
           /\ \A j \in 1..(Seek(q, id) - 1) : q[j].id < id
<1> DEFINE S == {i \in 1..(Len(q) + 1) : i <= Len(q) => q[i].id >= id}
<1>1. Len(q) + 1 \in S /\ S \in SUBSET Nat
  OBVIOUS
<1>2. PICK i \in S : \A j \in S : i <= j
  BY <1>1, Least
<1>3. \A j \in 1..(i - 1) : q[j].id < id
  <2> TAKE j \in 1..(i - 1)
  <2>1. j \in 1..Len(q) /\ ~(i <= j)
    BY <1>1, <1>2
  <2>2. j \notin S
    BY <1>2, <2>1
  <2>3. ~(q[j].id >= id)
    BY <2>1, <2>2
  <2> QED
    BY <2>1, <2>3, BatchFacts
<1>4. \E k \in 1..(Len(q) + 1) : /\ k <= Len(q) => q[k].id >= id
                                 /\ \A j \in 1..(k - 1) : q[j].id < id
  BY <1>2, <1>3
<1> QED
  BY <1>4 DEF Seek

\* Removing the first batch by its id takes the first batch.
LEMMA WithoutHead ==
    ASSUME NEW q \in Seq(Batch), q # << >>
    PROVE  Without(q, Head(q).id) = Tail(q)
<1>1. q[1] = Head(q) /\ Head(q).id \in Nat /\ Len(q) \in Nat /\ Len(q) > 0
  <2>1. q[1] = Head(q) /\ Len(q) \in Nat /\ Len(q) > 0
    OBVIOUS
  <2> QED
    BY <2>1, BatchFacts
<1>2. Seek(q, Head(q).id) = 1
  <2> DEFINE k == Seek(q, Head(q).id)
  <2>1. k \in 1..(Len(q) + 1) /\ \A j \in 1..(k - 1) : q[j].id < Head(q).id
    BY <1>1, SeekFacts
  <2> HIDE DEF k
  <2>2. CASE k > 1
    <3>1. q[1].id < Head(q).id
      BY <1>1, <2>1, <2>2
    <3> QED
      BY <1>1, <3>1
  <2> QED
    BY <1>1, <2>1, <2>2 DEF k
<1>3. SubSeq(q, 1, 0) \o SubSeq(q, 2, Len(q)) = Tail(q)
  BY <1>1
<1> QED
  BY <1>2, <1>3 DEF Without

\* What is left of q after its first n.
LEMMA SentFacts ==
    ASSUME NEW q \in Seq(Batch), NEW n \in Nat, n <= Len(q)
    PROVE  /\ SubSeq(q, n + 1, Len(q)) \in Seq(Batch)
           /\ Len(SubSeq(q, n + 1, Len(q))) = Len(q) - n
           /\ \A i \in 1..(Len(q) - n) : SubSeq(q, n + 1, Len(q))[i] = q[n + i]
OBVIOUS

\* FillWritePipeline continues a front of the queue, as far as there is room.
LEMMA FillFacts ==
    ASSUME PipelineAssumption, NEW p \in Seq(Batch), NEW q \in Seq(Batch),
           Prefix(p, q), Len(p) <= MaxPendingWrites, Grows(q)
    PROVE  /\ Fill(p, q) \in Seq(Batch)
           /\ IsOldest(Fill(p, q), q)
           /\ Len(p) <= Len(Fill(p, q))
           /\ \A i \in 1..Len(p) : Fill(p, q)[i] = p[i]
<1> DEFINE lastId == IF p = << >> THEN 0 ELSE p[Len(p)].id
           from   == Seek(q, lastId + 1)
           room   == MaxPendingWrites - Len(p)
           to     == IF from + room - 1 < Len(q) THEN from + room - 1 ELSE Len(q)
           rest   == SubSeq(q, from, to)
<1>1. /\ Len(p) \in Nat /\ Len(q) \in Nat /\ MaxPendingWrites \in Nat
      /\ Len(p) <= Len(q)
  BY DEF PipelineAssumption, Prefix
<1>2. lastId \in Nat /\ \A i \in 1..Len(q) : q[i].id \in Nat
  <2>1. p # << >> => Len(p) \in 1..Len(p)
    OBVIOUS
  <2> QED
    BY <2>1, BatchFacts
<1>3. from = Len(p) + 1
  <2> HIDE DEF lastId
  <2>1. /\ from \in 1..(Len(q) + 1)
        /\ from <= Len(q) => q[from].id >= lastId + 1
        /\ \A j \in 1..(from - 1) : q[j].id < lastId + 1
    <3>1. lastId + 1 \in Nat
      BY <1>2
    <3> QED
      BY <3>1, SeekFacts
  <2> HIDE DEF from
  <2>2. CASE p = << >>
    <3>1. lastId = 0 /\ Len(p) = 0
      BY <2>2 DEF lastId
    <3>2. CASE from > 1
      <4>1. q[1].id < 1 /\ q[1].id > 0 /\ q[1].id \in Nat
        BY <1>1, <1>2, <2>1, <3>1, <3>2 DEF Grows
      <4> QED
        BY <4>1
    <3> QED
      BY <1>1, <2>1, <3>1, <3>2
  <2>3. CASE p # << >>
    <3>1. lastId = q[Len(p)].id /\ Len(p) > 0
      BY <1>1, <2>3 DEF lastId, Prefix
    <3>2. CASE from <= Len(p)
      <4>1. q[from].id >= q[Len(p)].id + 1
        BY <1>1, <2>1, <3>1, <3>2
      <4>2. from = Len(p) \/ q[from].id < q[Len(p)].id
        BY <1>1, <2>1, <3>1, <3>2 DEF Grows
      <4> QED
        BY <1>1, <1>2, <2>1, <3>1, <3>2, <4>1, <4>2
    <3>3. CASE from > Len(p) + 1
      <4>1. Len(p) + 1 \in 1..(from - 1) /\ Len(p) + 1 \in 1..Len(q)
        BY <1>1, <2>1, <3>3
      <4>2. q[Len(p) + 1].id < q[Len(p)].id + 1
        BY <2>1, <3>1, <4>1
      <4>3. q[Len(p)].id < q[Len(p) + 1].id
        BY <1>1, <3>1, <4>1 DEF Grows
      <4> QED
        BY <1>1, <1>2, <3>1, <4>1, <4>2, <4>3
    <3> QED
      BY <1>1, <2>1, <3>2, <3>3
  <2> QED
    BY <2>2, <2>3
<1>4. to \in Nat /\ to <= Len(q) /\ to >= Len(p) /\ to <= MaxPendingWrites
      /\ (to = MaxPendingWrites \/ to = Len(q))
  BY <1>1, <1>3
<1> HIDE DEF to, from
<1>5. /\ rest \in Seq(Batch) /\ Len(rest) = to - Len(p)
      /\ \A i \in 1..(to - Len(p)) : rest[i] = q[Len(p) + i]
  BY <1>1, <1>3, <1>4
<1> HIDE DEF rest
<1>6. /\ p \o rest \in Seq(Batch) /\ Len(p \o rest) = to
      /\ \A i \in 1..Len(p) : (p \o rest)[i] = p[i]
      /\ \A i \in 1..to : (p \o rest)[i] = q[i]
  <2>1. p \o rest \in Seq(Batch) /\ Len(p \o rest) = Len(p) + Len(rest)
    BY <1>5, ConcatProperties
  <2>2. \A i \in 1..Len(p) : (p \o rest)[i] = p[i]
    BY <1>1, <1>5
  <2>3. \A i \in 1..to : (p \o rest)[i] = q[i]
    <3> TAKE i \in 1..to
    <3>1. CASE i <= Len(p)
      <4>1. i \in 1..Len(p)
        BY <1>1, <1>4, <3>1
      <4>2. p[i] = q[i]
        BY <4>1 DEF Prefix
      <4>3. (p \o rest)[i] = p[i]
        BY <2>2, <4>1
      <4> QED
        BY <4>2, <4>3
    <3>2. CASE i > Len(p)
      <4>1. (p \o rest)[i] = rest[i - Len(p)] /\ i - Len(p) \in 1..(to - Len(p))
        BY <1>1, <1>4, <1>5, <3>2
      <4>2. rest[i - Len(p)] = q[Len(p) + (i - Len(p))]
        BY <1>5, <4>1
      <4>3. Len(p) + (i - Len(p)) = i
        BY <1>1, <1>4
      <4> QED
        BY <4>1, <4>2, <4>3
    <3>3. i <= Len(p) \/ i > Len(p)
      BY <1>1, <1>4
    <3> QED
      BY <3>1, <3>2, <3>3, Zenon
  <2> QED
    BY <1>1, <1>4, <1>5, <2>1, <2>2, <2>3
<1>7. Fill(p, q) = p \o rest
  BY DEF Fill, rest, to, from
<1> QED
  BY <1>1, <1>4, <1>6, <1>7 DEF IsOldest, Prefix

\* A front of the queue that fills the room is what Fill gives from nothing.
LEMMA OldestIsFill ==
    ASSUME PipelineAssumption, NEW p \in Seq(Batch), NEW q \in Seq(Batch),
           IsOldest(p, q), Grows(q)
    PROVE  p = Fill(<< >>, q)
<1>1. << >> \in Seq(Batch) /\ Prefix(<< >>, q) /\ Len(<< >>) <= MaxPendingWrites
  BY DEF Prefix, PipelineAssumption
<1> DEFINE f == Fill(<< >>, q)
<1>2. f \in Seq(Batch) /\ IsOldest(f, q)
  BY <1>1, FillFacts
<1> HIDE DEF f
<1>3. /\ Len(p) \in Nat /\ Len(q) \in Nat /\ Len(f) \in Nat
      /\ MaxPendingWrites \in Nat
  BY <1>2 DEF PipelineAssumption
<1>4. Len(p) = Len(f)
  BY <1>2, <1>3 DEF IsOldest, Prefix
<1>5. \A i \in 1..Len(p) : p[i] = f[i]
  BY <1>2, <1>4 DEF IsOldest, Prefix
<1>6. p = f
  BY <1>2, <1>3, <1>4, <1>5
<1> QED
  BY <1>6 DEF f

\* The greatest id on disk is the id of a batch, or 0.
LEMMA NextIdFacts ==
    ASSUME NEW n \in Nat, NEW qs,
           \A u \in Users : /\ qs[u] \in Seq(Batch)
                            /\ \A i \in 1..Len(qs[u]) : qs[u][i].id \in 0..n
    PROVE  /\ NextIdOf(qs) \in 0..n
           /\ \A u \in Users : \A i \in 1..Len(qs[u]) : qs[u][i].id <= NextIdOf(qs)
<1> DEFINE ids == UNION {{qs[u][i].id : i \in 1..Len(qs[u])} : u \in Users}
           S   == {0} \cup ids
<1>1. ids \in SUBSET (0..n)
  OBVIOUS
<1>2. \A u \in Users : \A i \in 1..Len(qs[u]) : qs[u][i].id \in ids
  OBVIOUS
<1> HIDE DEF ids
<1>3. S \in SUBSET (0..n) /\ S # {}
  BY <1>1
<1>4. \E x \in S : \A y \in S : y <= x
  BY <1>3, Greatest
<1>5. NextIdOf(qs) = CHOOSE x \in S : \A y \in ids : y <= x
  BY DEF NextIdOf, ids
<1>6. NextIdOf(qs) \in S /\ \A y \in ids : y <= NextIdOf(qs)
  BY <1>4, <1>5
<1> QED
  BY <1>2, <1>3, <1>6

-----------------------------------------------------------------------------
(* The requests for a token and their answers.                             *)

\* t answers the request of the n-th start of the stream.
Answers(t, n) == t.kind = "token" /\ t.closes = n

\* The first n of s are not about a new user.
NoUser(s, n) == \A i \in 1..n : s[i].kind # "user"

\* Among the first n of s, o is the latest user; u is the one before them.
Latest(s, n, u, o) ==
    \/ NoUser(s, n) /\ o = u
    \/ \E i \in 1..n : /\ s[i].kind = "user" /\ s[i].user = o
                       /\ \A j \in (i + 1)..n : s[j].kind # "user"

\* No request of the n-th start is on its way.
NoneDue(A, M, I, n) ==
    /\ \A r \in A : r.closes # n
    /\ \A i \in 1..Len(M) : ~Answers(M[i], n)
    /\ \A i \in 1..Len(I) : ~Answers(I[i], n)

(* One request is on its way at most, and only while the stream is being   *)
(* started.                                                                *)
Requested(A, M, I, n, st) ==
    /\ \A r \in A : r.closes <= n
    /\ \A i \in 1..Len(M) : M[i].kind = "token" => M[i].closes <= n
    /\ \A i \in 1..Len(I) : I[i].kind = "token" => I[i].closes <= n
    /\ st = "Starting" \/ NoneDue(A, M, I, n)
    /\ \A r, s \in A : r.closes = n /\ s.closes = n => r = s
    /\ \A i, j \in 1..Len(M) : Answers(M[i], n) /\ Answers(M[j], n) => i = j
    /\ \A i, j \in 1..Len(I) : Answers(I[i], n) /\ Answers(I[j], n) => i = j
    /\ \A r \in A, i \in 1..Len(M) : ~(r.closes = n /\ Answers(M[i], n))
    /\ \A r \in A, i \in 1..Len(I) : ~(r.closes = n /\ Answers(I[i], n))
    /\ \A i \in 1..Len(M), j \in 1..Len(I) : ~(Answers(M[i], n) /\ Answers(I[j], n))

\* A request of the present start is discarded only for a user change that
\* the worker queue still has before it.
Discarded(A, M, I, n, c) ==
    /\ NoUser(I, Len(I)) =>
           /\ \A r \in A : r.closes = n => r.counter = c
           /\ \A i \in 1..Len(M) : Answers(M[i], n) => M[i].counter = c
    /\ \A i \in 1..Len(M) : M[i].kind = "token" => M[i].status # "aborted"
    /\ \A i \in 1..Len(I) :
           Answers(I[i], n) /\ I[i].status = "aborted" => ~NoUser(I, i)

\* FIRAuth is ahead of the client by the user changes on their way.
SignedIn(a, M, I, u) ==
    IF NoUser(M, Len(M)) THEN Latest(I, Len(I), u, a)
                         ELSE Latest(M, Len(M), u, a)

\* A token that will be accepted is that of the user at the time.
Owned(A, M, I, c, u) ==
    /\ \A r \in A :
           /\ r.counter <= c
           /\ r.counter = c /\ r.owner # Nobody /\ NoUser(M, Len(M)) =>
                  Latest(I, Len(I), u, r.owner)
    /\ \A i \in 1..Len(M) : M[i].kind = "token" =>
           /\ M[i].counter <= c
           /\ M[i].counter = c /\ NoUser(M, i) => Latest(I, Len(I), u, M[i].owner)
    /\ \A i \in 1..Len(I) :
           I[i].kind = "token" /\ I[i].status = "ok" => Latest(I, i, u, I[i].owner)

\* All of it: user a signed in, counter c, requests A, main queue M, inbox I,
\* the client's user u, and its stream closed n times and in state st.
AuthInv(a, c, A, M, I, u, n, st) ==
    /\ Requested(A, M, I, n, st)
    /\ Discarded(A, M, I, n, c)
    /\ SignedIn(a, M, I, u)
    /\ Owned(A, M, I, c, u)

\* The fields of a block of the main queue.
LEMMA BlockFacts ==
    ASSUME NEW m \in Block
    PROVE  /\ m.kind \in {"user", "token"}
           /\ m.kind = "user" => m.user \in Users /\ m \in Task
           /\ m.kind = "token" => /\ m.closes \in Nat /\ m.counter \in Nat
                                  /\ m.owner \in Users
                                  /\ m.status \in Error \cup {"ok"}
BY DEF Block, Task

\* The fields of a task of the worker queue.
LEMMA TaskFacts ==
    ASSUME NEW m \in Task
    PROVE  /\ m.kind \in {"user", "token"}
           /\ m.kind = "user" => m.user \in Users
           /\ m.kind = "token" => /\ m.closes \in Nat
                                  /\ m.owner \in Users \cup {Nobody}
                                  /\ m.status \in Error \cup {"ok"}
BY DEF Task

\* Append, member by member.
LEMMA AppendFacts ==
    ASSUME NEW S, NEW s \in Seq(S), NEW e \in S
    PROVE  /\ Append(s, e) \in Seq(S)
           /\ Len(s) \in Nat
           /\ Len(Append(s, e)) = Len(s) + 1
           /\ \A i \in 1..Len(s) : Append(s, e)[i] = s[i]
           /\ Append(s, e)[Len(s) + 1] = e
OBVIOUS

\* Head and Tail, member by member.
LEMMA TailFacts ==
    ASSUME NEW S, NEW s \in Seq(S), s # << >>
    PROVE  /\ Tail(s) \in Seq(S) /\ Head(s) \in S /\ Head(s) = s[1]
           /\ Len(s) \in Nat /\ Len(s) > 0
           /\ Len(Tail(s)) = Len(s) - 1
           /\ \A i \in 1..(Len(s) - 1) : Tail(s)[i] = s[i + 1]
OBVIOUS

-----------------------------------------------------------------------------
(* How the latest user of a queue changes.                                 *)

\* A change of the user is due after Append when it was, or is appended.
LEMMA NoUserAppend ==
    ASSUME NEW S, NEW s \in Seq(S), NEW e \in S
    PROVE  /\ NoUser(Append(s, e), Len(s)) <=> NoUser(s, Len(s))
           /\ NoUser(Append(s, e), Len(s) + 1) <=>
                  NoUser(s, Len(s)) /\ e.kind # "user"
           /\ \A n \in 1..Len(s) : NoUser(Append(s, e), n) <=> NoUser(s, n)
<1> DEFINE t == Append(s, e)
<1>1. /\ Len(s) \in Nat /\ t[Len(s) + 1] = e
      /\ \A i \in 1..Len(s) : t[i] = s[i]
  BY AppendFacts
<1> HIDE DEF t
<1>2. /\ NoUser(t, Len(s)) <=> NoUser(s, Len(s))
      /\ NoUser(t, Len(s) + 1) <=> NoUser(s, Len(s)) /\ e.kind # "user"
      /\ \A n \in 1..Len(s) : NoUser(t, n) <=> NoUser(s, n)
  BY <1>1 DEF NoUser
<1> QED
  BY <1>2 DEF t

\* What is appended is newer than the rest.
LEMMA LatestAppend ==
    ASSUME NEW S, NEW s \in Seq(S), NEW e \in S, NEW u, NEW o
    PROVE  /\ \A n \in 0..Len(s) :
                  Latest(Append(s, e), n, u, o) <=> Latest(s, n, u, o)
           /\ e.kind # "user" =>
                  (Latest(Append(s, e), Len(s) + 1, u, o) <=> Latest(s, Len(s), u, o))
           /\ e.kind = "user" /\ e.user = o => Latest(Append(s, e), Len(s) + 1, u, o)
<1> DEFINE t == Append(s, e)
<1>1. /\ Len(s) \in Nat /\ t[Len(s) + 1] = e
      /\ \A i \in 1..Len(s) : t[i] = s[i]
  BY AppendFacts
<1> HIDE DEF t
<1>2. \A n \in 0..Len(s) : Latest(t, n, u, o) <=> Latest(s, n, u, o)
  <2> TAKE n \in 0..Len(s)
  <2>1. \A i \in 1..n : t[i] = s[i]
    BY <1>1
  <2> QED
    BY <2>1 DEF Latest, NoUser
<1>3. ASSUME e.kind # "user"
      PROVE  Latest(t, Len(s) + 1, u, o) <=> Latest(s, Len(s), u, o)
  <2>1. ASSUME Latest(t, Len(s) + 1, u, o)
        PROVE  Latest(s, Len(s), u, o)
    BY <1>1, <1>3, <2>1 DEF Latest, NoUser
  <2>2. ASSUME Latest(s, Len(s), u, o)
        PROVE  Latest(t, Len(s) + 1, u, o)
    BY <1>1, <1>3, <2>2 DEF Latest, NoUser
  <2> QED
    BY <2>1, <2>2
<1>4. ASSUME e.kind = "user", e.user = o
      PROVE  Latest(t, Len(s) + 1, u, o)
  BY <1>1, <1>4 DEF Latest
<1> QED
  BY <1>2, <1>3, <1>4 DEF t

\* The head of the queue becomes the client's user, if it is a user.
LEMMA LatestTail ==
    ASSUME NEW S, NEW s \in Seq(S), s # << >>, NEW u, NEW o, NEW n \in 1..Len(s),
           Latest(s, n, u, o)
    PROVE  /\ s[1].kind = "user" => Latest(Tail(s), n - 1, s[1].user, o)
           /\ s[1].kind # "user" => Latest(Tail(s), n - 1, u, o)
           /\ n = 1 /\ s[1].kind # "user" => o = u
<1> DEFINE t == Tail(s)
<1>1. /\ Len(s) \in Nat /\ \A i \in 1..(Len(s) - 1) : t[i] = s[i + 1]
  BY TailFacts
<1> HIDE DEF t
<1>2. n \in Nat /\ n - 1 \in Nat /\ \A i \in 1..(n - 1) : t[i] = s[i + 1]
  BY <1>1
<1>3. CASE NoUser(s, n) /\ o = u
  <2>1. s[1].kind # "user" /\ NoUser(t, n - 1)
    BY <1>2, <1>3 DEF NoUser
  <2> QED
    BY <1>3, <2>1 DEF Latest, t
<1>4. CASE ~(NoUser(s, n) /\ o = u)
  <2>1. PICK i \in 1..n : /\ s[i].kind = "user" /\ s[i].user = o
                          /\ \A j \in (i + 1)..n : s[j].kind # "user"
    BY <1>4 DEF Latest
  <2>2. CASE i = 1
    <3>1. s[1].kind = "user" /\ s[1].user = o /\ NoUser(t, n - 1)
      BY <1>2, <2>1, <2>2 DEF NoUser
    <3> QED
      BY <3>1 DEF Latest, t
  <2>3. CASE i # 1
    <3>1. i - 1 \in 1..(n - 1) /\ t[i - 1] = s[i]
      BY <1>2, <2>1, <2>3
    <3>2. \A j \in ((i - 1) + 1)..(n - 1) : t[j].kind # "user"
      BY <1>2, <2>1, <2>3
    <3>3. \A v : Latest(t, n - 1, v, o)
      BY <2>1, <3>1, <3>2 DEF Latest
    <3>4. n # 1
      BY <2>1, <2>3
    <3> QED
      BY <3>3, <3>4 DEF t
  <2> QED
    BY <2>2, <2>3
<1> QED
  BY <1>3, <1>4

-----------------------------------------------------------------------------
(* What happens to requests.                                               *)

\* The fields of a request for a token.
LEMMA RequestFacts ==
    ASSUME NEW r \in Request
    PROVE  /\ r.counter \in Nat /\ r.closes \in Nat
           /\ r.owner \in Users \cup {Nobody}
BY DEF Request

\* The elements of the queues.
LEMMA QueueFacts ==
    ASSUME NEW M \in Seq(Block), NEW I \in Seq(Task)
    PROVE  /\ Len(M) \in Nat /\ Len(I) \in Nat
           /\ \A i \in 1..Len(M) : M[i] \in Block
           /\ \A i \in 1..Len(I) : I[i] \in Task
OBVIOUS

\* A start without anything on its way.
LEMMA AuthStart ==
    ASSUME NEW u \in Users, NEW c \in Nat, NEW n \in Nat, NEW st
    PROVE  AuthInv(u, c, {}, << >>, << >>, u, n, st)
<1>1. Len(<< >>) = 0
  OBVIOUS
<1> QED
  BY <1>1 DEF AuthInv, Requested, Discarded, SignedIn, Owned, NoneDue, NoUser,
              Latest

\* The stream is closed: its request, if there is one, is of an earlier start.
LEMMA AuthClose ==
    ASSUME NEW a \in Users, NEW c \in Nat, NEW A \in SUBSET Request,
           NEW M \in Seq(Block), NEW I \in Seq(Task), NEW u \in Users,
           NEW n \in Nat, NEW st, NEW st2,
           AuthInv(a, c, A, M, I, u, n, st)
    PROVE  /\ AuthInv(a, c, A, M, I, u, n + 1, st2)
           /\ NoneDue(A, M, I, n + 1)
<1>1. /\ \A r \in A : r.closes \in Nat /\ r.closes <= n
      /\ \A i \in 1..Len(M) : M[i].kind = "token" => M[i].closes \in Nat /\ M[i].closes <= n
      /\ \A i \in 1..Len(I) : I[i].kind = "token" => I[i].closes \in Nat /\ I[i].closes <= n
  BY RequestFacts, QueueFacts, BlockFacts, TaskFacts DEF AuthInv, Requested
<1>2. NoneDue(A, M, I, n + 1)
  BY <1>1 DEF NoneDue, Answers
<1>3. Requested(A, M, I, n + 1, st2)
  BY <1>1, <1>2 DEF Requested, NoneDue
<1>4. Discarded(A, M, I, n + 1, c)
  BY <1>2 DEF AuthInv, Discarded, NoneDue
<1> QED
  BY <1>2, <1>3, <1>4 DEF AuthInv

\* Without a request on its way the stream may be in any state.
LEMMA AuthState ==
    ASSUME NEW a, NEW c, NEW A, NEW M, NEW I, NEW u, NEW n, NEW st, NEW st2,
           AuthInv(a, c, A, M, I, u, n, st),
           st # "Starting" \/ NoneDue(A, M, I, n) \/ st2 = st
    PROVE  /\ AuthInv(a, c, A, M, I, u, n, st2)
           /\ st2 # st => NoneDue(A, M, I, n)
BY DEF AuthInv, Requested

\* The stream is started.
LEMMA AuthAsk ==
    ASSUME NEW a \in Users, NEW c \in Nat, NEW A \in SUBSET Request,
           NEW M \in Seq(Block), NEW I \in Seq(Task), NEW u \in Users,
           NEW n \in Nat, NEW st,
           AuthInv(a, c, A, M, I, u, n, st), NoneDue(A, M, I, n)
    PROVE  AuthInv(a, c,
                   A \cup {[counter |-> c, closes |-> n, owner |-> Nobody]},
                   M, I, u, n, "Starting")
<1> DEFINE new == [counter |-> c, closes |-> n, owner |-> Nobody]
           B   == A \cup {new}
<1>1. new.counter = c /\ new.closes = n /\ new.owner = Nobody
  OBVIOUS
<1> HIDE DEF new
<1>2. Requested(B, M, I, n, "Starting")
  <2>1. \A r \in B : r.closes <= n
    BY <1>1 DEF AuthInv, Requested
  <2>2. \A r, s \in B : r.closes = n /\ s.closes = n => r = s
    BY <1>1 DEF NoneDue
  <2> QED
    BY <1>1, <2>1, <2>2 DEF AuthInv, Requested, NoneDue
<1>3. Discarded(B, M, I, n, c)
  BY <1>1 DEF AuthInv, Discarded, NoneDue
<1>4. Owned(B, M, I, c, u)
  BY <1>1 DEF AuthInv, Owned
<1>5. AuthInv(a, c, B, M, I, u, n, "Starting")
  BY <1>2, <1>3, <1>4 DEF AuthInv
<1> QED
  BY <1>5 DEF new

\* FIRAuth signs in v, and will tell.
LEMMA AuthSignIn ==
    ASSUME NEW a \in Users, NEW c \in Nat, NEW A \in SUBSET Request,
           NEW M \in Seq(Block), NEW I \in Seq(Task), NEW u \in Users,
           NEW n \in Nat, NEW st, NEW m \in Block, m.kind = "user",
           AuthInv(a, c, A, M, I, u, n, st)
    PROVE  AuthInv(m.user, c, A, Append(M, m), I, u, n, st)
<1> DEFINE N == Append(M, m)
<1>1. /\ Len(M) \in Nat /\ Len(N) = Len(M) + 1 /\ N[Len(M) + 1] = m
      /\ \A i \in 1..Len(M) : N[i] = M[i]
  BY AppendFacts
<1>2. /\ \A i \in 1..Len(M) : NoUser(N, i) <=> NoUser(M, i)
      /\ ~NoUser(N, Len(N))
      /\ Latest(N, Len(N), u, m.user)
  <2>1. /\ \A i \in 1..Len(M) : NoUser(N, i) <=> NoUser(M, i)
        /\ ~NoUser(N, Len(N))
    BY <1>1, NoUserAppend
  <2>2. Latest(N, Len(M) + 1, u, m.user)
    BY LatestAppend
  <2> QED
    BY <1>1, <2>1, <2>2
<1> HIDE DEF N
<1>3. /\ \A k : Answers(N[Len(N)], k) <=> FALSE
      /\ \A i \in 1..Len(N) : i = Len(N) \/ i \in 1..Len(M)
  BY <1>1 DEF Answers
<1>4. Requested(A, N, I, n, st)
  BY <1>1, <1>3 DEF AuthInv, Requested, NoneDue
<1>5. Discarded(A, N, I, n, c)
  BY <1>1, <1>3 DEF AuthInv, Discarded
<1>6. SignedIn(m.user, N, I, u)
  BY <1>2 DEF SignedIn
<1>7. Owned(A, N, I, c, u)
  BY <1>1, <1>2, <1>3 DEF AuthInv, Owned
<1>8. AuthInv(m.user, c, A, N, I, u, n, st)
  BY <1>4, <1>5, <1>6, <1>7 DEF AuthInv
<1> QED
  BY <1>8 DEF N

\* FIRAuth takes up a request.
LEMMA AuthTake ==
    ASSUME NEW a \in Users, NEW c \in Nat, NEW A \in SUBSET Request,
           NEW M \in Seq(Block), NEW I \in Seq(Task), NEW u \in Users,
           NEW n \in Nat, NEW st, NEW r \in A,
           AuthInv(a, c, A, M, I, u, n, st)
    PROVE  AuthInv(a, c, (A \ {r}) \cup {[r EXCEPT !.owner = a]}, M, I, u, n, st)
<1> DEFINE new == [r EXCEPT !.owner = a]
           B   == (A \ {r}) \cup {new}
<1>1. new.counter = r.counter /\ new.closes = r.closes /\ new.owner = a
  BY DEF Request
<1> HIDE DEF new
<1>2. Requested(B, M, I, n, st)
  <2>1. NoneDue(A, M, I, n) => NoneDue(B, M, I, n)
    BY <1>1 DEF NoneDue
  <2>2. \A s, t \in B : s.closes = n /\ t.closes = n => s = t
    BY <1>1 DEF AuthInv, Requested
  <2> QED
    BY <1>1, <2>1, <2>2 DEF AuthInv, Requested
<1>3. Discarded(B, M, I, n, c)
  BY <1>1 DEF AuthInv, Discarded
<1>4. Owned(B, M, I, c, u)
  BY <1>1 DEF AuthInv, Owned, SignedIn
<1>5. AuthInv(a, c, B, M, I, u, n, st)
  BY <1>2, <1>3, <1>4 DEF AuthInv
<1> QED
  BY <1>5 DEF new

\* FIRAuth answers a request.
LEMMA AuthAnswer ==
    ASSUME NEW a \in Users, NEW c \in Nat, NEW A \in SUBSET Request,
           NEW M \in Seq(Block), NEW I \in Seq(Task), NEW u \in Users,
           NEW n \in Nat, NEW st, NEW r \in A, r.owner # Nobody,
           NEW m \in Block, m.kind = "token", m.counter = r.counter,
           m.closes = r.closes, m.owner = r.owner, m.status # "aborted",
           AuthInv(a, c, A, M, I, u, n, st)
    PROVE  AuthInv(a, c, A \ {r}, Append(M, m), I, u, n, st)
<1> DEFINE N == Append(M, m)
           B == A \ {r}
<1>1. /\ Len(M) \in Nat /\ Len(N) = Len(M) + 1 /\ N[Len(N)] = m
      /\ \A i \in 1..Len(M) : N[i] = M[i]
  BY AppendFacts
<1>2. /\ \A i \in 1..Len(M) : NoUser(N, i) <=> NoUser(M, i)
      /\ NoUser(N, Len(N)) <=> NoUser(M, Len(M))
      /\ \A o : Latest(N, Len(N), u, o) <=> Latest(M, Len(M), u, o)
  BY <1>1, NoUserAppend, LatestAppend
<1> HIDE DEF N
<1>3. /\ Answers(m, n) <=> r.closes = n
      /\ \A i \in 1..Len(N) : (i = Len(N) /\ N[i] = m)
                                  \/ (i \in 1..Len(M) /\ N[i] = M[i])
  BY <1>1 DEF Answers
<1>4. Requested(B, N, I, n, st)
  <2>1. NoneDue(A, M, I, n) => NoneDue(B, N, I, n)
    BY <1>3 DEF NoneDue
  <2>2. /\ \A s \in B : s.closes <= n
        /\ \A i \in 1..Len(N) : N[i].kind = "token" => N[i].closes <= n
    BY <1>3 DEF AuthInv, Requested
  <2>3. \A i, j \in 1..Len(N) : Answers(N[i], n) /\ Answers(N[j], n) => i = j
    BY <1>3 DEF AuthInv, Requested
  <2>4. \A s \in B, i \in 1..Len(N) : ~(s.closes = n /\ Answers(N[i], n))
    BY <1>3 DEF AuthInv, Requested
  <2>5. \A i \in 1..Len(N), j \in 1..Len(I) : ~(Answers(N[i], n) /\ Answers(I[j], n))
    BY <1>3 DEF AuthInv, Requested
  <2> QED
    BY <2>1, <2>2, <2>3, <2>4, <2>5 DEF AuthInv, Requested
<1>5. Discarded(B, N, I, n, c)
  BY <1>3 DEF AuthInv, Discarded
<1>6. SignedIn(a, N, I, u)
  BY <1>2 DEF AuthInv, SignedIn
<1>7. Owned(B, N, I, c, u)
  <2>1. \A s \in B : /\ s.counter <= c
                     /\ s.counter = c /\ s.owner # Nobody /\ NoUser(N, Len(N)) =>
                            Latest(I, Len(I), u, s.owner)
    BY <1>2 DEF AuthInv, Owned
  <2>2. \A i \in 1..Len(N) : N[i].kind = "token" =>
           /\ N[i].counter <= c
           /\ N[i].counter = c /\ NoUser(N, i) => Latest(I, Len(I), u, N[i].owner)
    <3> TAKE i \in 1..Len(N)
    <3>1. CASE i = Len(N) /\ N[i] = m
      BY <1>2, <3>1 DEF AuthInv, Owned
    <3>2. CASE i \in 1..Len(M) /\ N[i] = M[i]
      BY <1>2, <3>2 DEF AuthInv, Owned
    <3> QED
      BY <1>3, <3>1, <3>2
  <2> QED
    BY <2>1, <2>2 DEF AuthInv, Owned
<1>8. AuthInv(a, c, B, N, I, u, n, st)
  BY <1>4, <1>5, <1>6, <1>7 DEF AuthInv
<1> QED
  BY <1>8 DEF N

\* The task that a block of the main queue enqueues, and the counter after it.
TaskOf(m, c) ==
    IF m.kind = "user" THEN m
    ELSE [kind |-> "token", closes |-> m.closes, owner |-> m.owner,
          status |-> IF m.counter # c THEN "aborted" ELSE m.status]

\* NotifyCredentialChanged counts the users.
CounterAfter(m, c) == IF m.kind = "user" THEN c + 1 ELSE c

\* The next block of the main queue is run.
LEMMA AuthRun ==
    ASSUME NEW a \in Users, NEW c \in Nat, NEW A \in SUBSET Request,
           NEW M \in Seq(Block), NEW I \in Seq(Task), NEW u \in Users,
           NEW n \in Nat, NEW st, M # << >>,
           AuthInv(a, c, A, M, I, u, n, st)
    PROVE  /\ TaskOf(Head(M), c) \in Task
           /\ AuthInv(a, CounterAfter(Head(M), c), A, Tail(M),
                      Append(I, TaskOf(Head(M), c)), u, n, st)
<1> DEFINE m == Head(M)
           t == TaskOf(m, c)
           d == CounterAfter(m, c)
           N == Tail(M)
           J == Append(I, t)
<1>1. /\ m = M[1] /\ m \in Block /\ N \in Seq(Block)
      /\ Len(M) \in Nat /\ Len(M) > 0 /\ Len(N) = Len(M) - 1
      /\ \A i \in 1..Len(N) : N[i] = M[i + 1]
  BY TailFacts
<1>2. /\ m.kind \in {"user", "token"}
      /\ m.kind = "user" => m \in Task /\ m.user \in Users
      /\ m.kind = "token" => /\ m.closes \in Nat /\ m.counter \in Nat
                             /\ m.owner \in Users
                             /\ m.status \in Error \cup {"ok"}
  BY <1>1, BlockFacts
<1> HIDE DEF m, N
<1>3. /\ t.kind = m.kind
      /\ m.kind = "user" => t = m
      /\ m.kind = "token" => /\ t.closes = m.closes /\ t.owner = m.owner
                             /\ t.status = "ok" => m.counter = c
                             /\ m.counter = c => t.status = m.status
  BY <1>2 DEF TaskOf
<1>4. t \in Task
  <2>1. CASE m.kind = "user"
    BY <1>2, <2>1 DEF TaskOf
  <2>2. CASE m.kind = "token"
    <3>1. t = [kind |-> "token", closes |-> m.closes, owner |-> m.owner,
               status |-> IF m.counter # c THEN "aborted" ELSE m.status]
      BY <2>2 DEF TaskOf
    <3>2. (IF m.counter # c THEN "aborted" ELSE m.status) \in Error \cup {"ok"}
      BY <1>2, <2>2 DEF Error
    <3> QED
      BY <1>2, <2>2, <3>1, <3>2 DEF Task
  <2> QED
    BY <1>2, <2>1, <2>2
<1>5. /\ m.kind = "user" => d = c + 1
      /\ m.kind = "token" => d = c
      /\ d \in Nat /\ c <= d
  BY <1>2 DEF CounterAfter
<1> HIDE DEF t, d
<1>6. /\ J \in Seq(Task) /\ Len(I) \in Nat /\ Len(J) = Len(I) + 1 /\ J[Len(J)] = t
      /\ \A i \in 1..Len(I) : J[i] = I[i]
  BY <1>4, AppendFacts
<1>7. /\ NoUser(J, Len(J)) <=> NoUser(I, Len(I)) /\ m.kind # "user"
      /\ \A i \in 1..Len(I) : NoUser(J, i) <=> NoUser(I, i)
  BY <1>3, <1>4, <1>6, NoUserAppend
<1>8. ASSUME NEW o
      PROVE  /\ \A i \in 0..Len(I) : Latest(J, i, u, o) <=> Latest(I, i, u, o)
             /\ m.kind = "token" => (Latest(J, Len(J), u, o) <=> Latest(I, Len(I), u, o))
             /\ m.kind = "user" /\ m.user = o => Latest(J, Len(J), u, o)
  <2>1. \A i \in 0..Len(I) : Latest(J, i, u, o) <=> Latest(I, i, u, o)
    BY <1>4, LatestAppend
  <2>2. t.kind # "user" => (Latest(J, Len(I) + 1, u, o) <=> Latest(I, Len(I), u, o))
    BY <1>4, LatestAppend
  <2>3. t.kind = "user" /\ t.user = o => Latest(J, Len(I) + 1, u, o)
    BY <1>4, LatestAppend
  <2> HIDE DEF J
  <2> QED
    BY <1>2, <1>3, <1>6, <2>1, <2>2, <2>3
<1> HIDE DEF J
<1>9. /\ \A i \in 1..Len(J) : (i = Len(J) /\ J[i] = t)
                                  \/ (i \in 1..Len(I) /\ J[i] = I[i])
      /\ \A i \in 1..Len(N) : i + 1 \in 1..Len(M) /\ N[i] = M[i + 1]
      /\ 1 \in 1..Len(M)
      /\ \A k : Answers(t, k) <=> Answers(m, k)
  <2>1. \A i \in 1..Len(J) : (i = Len(J) /\ J[i] = t)
                                  \/ (i \in 1..Len(I) /\ J[i] = I[i])
    BY <1>6
  <2>2. /\ \A i \in 1..Len(N) : i + 1 \in 1..Len(M) /\ N[i] = M[i + 1]
        /\ 1 \in 1..Len(M)
    BY <1>1
  <2>3. \A k : Answers(t, k) <=> Answers(m, k)
    BY <1>2, <1>3 DEF Answers
  <2> QED
    BY <2>1, <2>2, <2>3
<1>10. NoUser(M, Len(M)) <=> NoUser(N, Len(N)) /\ m.kind # "user"
  <2>1. NoUser(M, Len(M)) => NoUser(N, Len(N)) /\ m.kind # "user"
    BY <1>1, <1>9 DEF NoUser
  <2>2. ASSUME NoUser(N, Len(N)), m.kind # "user" PROVE NoUser(M, Len(M))
    <3> SUFFICES ASSUME NEW i \in 1..Len(M) PROVE M[i].kind # "user"
      BY DEF NoUser
    <3>1. CASE i = 1
      BY <1>1, <2>2, <3>1
    <3>2. CASE i # 1
      <4>1. i - 1 \in 1..Len(N) /\ (i - 1) + 1 = i
        BY <1>1, <3>2
      <4>2. N[i - 1].kind # "user" /\ N[i - 1] = M[(i - 1) + 1]
        BY <1>9, <2>2, <4>1 DEF NoUser
      <4> QED
        BY <4>1, <4>2
    <3> QED
      BY <3>1, <3>2
  <2> QED
    BY <2>1, <2>2
<1>11. \A i \in 1..Len(N) : m.kind # "user" /\ NoUser(N, i) => NoUser(M, i + 1)
  <2> SUFFICES ASSUME NEW i \in 1..Len(N), m.kind # "user", NoUser(N, i),
                      NEW k \in 1..(i + 1)
               PROVE  M[k].kind # "user"
    BY DEF NoUser
  <2>1. CASE k = 1
    BY <1>1, <2>1
  <2>2. CASE k # 1
    <3>1. k - 1 \in 1..i /\ k - 1 \in 1..Len(N) /\ (k - 1) + 1 = k
      BY <1>1, <2>2
    <3>2. N[k - 1].kind # "user" /\ N[k - 1] = M[(k - 1) + 1]
      BY <1>9, <3>1 DEF NoUser
    <3> QED
      BY <3>1, <3>2
  <2> QED
    BY <2>1, <2>2
<1>12. Requested(A, N, J, n, st)
  <2>1. NoneDue(A, M, I, n) => NoneDue(A, N, J, n)
    BY <1>1, <1>9 DEF NoneDue
  <2>2. /\ \A i \in 1..Len(N) : N[i].kind = "token" => N[i].closes <= n
        /\ \A i \in 1..Len(J) : J[i].kind = "token" => J[i].closes <= n
    <3>1. \A i \in 1..Len(N) : N[i].kind = "token" => N[i].closes <= n
      BY <1>9 DEF AuthInv, Requested
    <3>2. t.kind = "token" => t.closes <= n
      BY <1>1, <1>3, <1>9 DEF AuthInv, Requested
    <3>3. \A i \in 1..Len(I) : I[i].kind = "token" => I[i].closes <= n
      BY DEF AuthInv, Requested
    <3> QED
      BY <1>9, <3>1, <3>2, <3>3
  <2>3. \A i, j \in 1..Len(N) : Answers(N[i], n) /\ Answers(N[j], n) => i = j
    <3> SUFFICES ASSUME NEW i \in 1..Len(N), NEW j \in 1..Len(N),
                        Answers(N[i], n), Answers(N[j], n)
                 PROVE  i = j
      OBVIOUS
    <3>1. i + 1 = j + 1
      BY <1>9 DEF AuthInv, Requested
    <3> QED
      BY <1>1, <3>1
  <2>4. \A i, j \in 1..Len(J) : Answers(J[i], n) /\ Answers(J[j], n) => i = j
    BY <1>1, <1>9 DEF AuthInv, Requested
  <2>5. /\ \A r \in A, i \in 1..Len(N) : ~(r.closes = n /\ Answers(N[i], n))
        /\ \A r \in A, i \in 1..Len(J) : ~(r.closes = n /\ Answers(J[i], n))
    BY <1>1, <1>9 DEF AuthInv, Requested
  <2>6. \A i \in 1..Len(N), j \in 1..Len(J) : ~(Answers(N[i], n) /\ Answers(J[j], n))
    <3> SUFFICES ASSUME NEW i \in 1..Len(N), NEW j \in 1..Len(J),
                        Answers(N[i], n), Answers(J[j], n)
                 PROVE  FALSE
      OBVIOUS
    <3>1. i + 1 \in 1..Len(M) /\ Answers(M[i + 1], n)
      BY <1>9
    <3>2. CASE J[j] = t
      <4>1. i + 1 = 1
        BY <1>1, <1>9, <3>1, <3>2 DEF AuthInv, Requested
      <4> QED
        BY <1>1, <4>1
    <3>3. CASE j \in 1..Len(I) /\ J[j] = I[j]
      BY <3>1, <3>3 DEF AuthInv, Requested
    <3> QED
      BY <1>9, <3>2, <3>3
  <2> QED
    BY <2>1, <2>2, <2>3, <2>4, <2>5, <2>6 DEF AuthInv, Requested
<1>13. Discarded(A, N, J, n, d)
  <2>1. ASSUME NoUser(J, Len(J))
        PROVE  /\ \A r \in A : r.closes = n => r.counter = d
               /\ \A i \in 1..Len(N) : Answers(N[i], n) => N[i].counter = d
    BY <1>2, <1>5, <1>7, <1>9, <2>1 DEF AuthInv, Discarded
  <2>2. ASSUME NEW i \in 1..Len(J), Answers(J[i], n), J[i].status = "aborted"
        PROVE  ~NoUser(J, i)
    <3>1. CASE i = Len(J) /\ J[i] = t
      <4>1. m.kind = "token" /\ Answers(M[1], n)
        BY <1>1, <1>2, <1>3, <1>9, <2>2, <3>1 DEF Answers
      <4>2. m.status # "aborted"
        BY <1>1, <1>9, <4>1 DEF AuthInv, Discarded
      <4>3. M[1].counter # c
        BY <1>1, <1>3, <2>2, <3>1, <4>1, <4>2
      <4> QED
        BY <1>7, <1>9, <3>1, <4>1, <4>3 DEF AuthInv, Discarded
    <3>2. CASE i \in 1..Len(I) /\ J[i] = I[i]
      BY <1>7, <2>2, <3>2 DEF AuthInv, Discarded
    <3> QED
      BY <1>9, <3>1, <3>2
  <2>3. \A i \in 1..Len(N) : N[i].kind = "token" => N[i].status # "aborted"
    BY <1>9 DEF AuthInv, Discarded
  <2> QED
    BY <2>1, <2>2, <2>3 DEF Discarded
<1>14. SignedIn(a, N, J, u)
  <2>1. CASE m.kind = "token"
    <3>1. CASE NoUser(N, Len(N))
      BY <1>8, <1>10, <2>1, <3>1 DEF AuthInv, SignedIn
    <3>2. CASE ~NoUser(N, Len(N))
      <4>1. Latest(M, Len(M), u, a)
        BY <1>10, <3>2 DEF AuthInv, SignedIn
      <4>2. Latest(N, Len(M) - 1, u, a)
        BY <1>1, <2>1, <4>1, LatestTail DEF N
      <4> QED
        BY <1>1, <3>2, <4>2 DEF SignedIn
    <3> QED
      BY <3>1, <3>2
  <2>2. CASE m.kind = "user"
    <3>1. Latest(M, Len(M), u, a)
      BY <1>10, <2>2 DEF AuthInv, SignedIn
    <3>2. Latest(N, Len(N), m.user, a)
      BY <1>1, <2>2, <3>1, LatestTail DEF N
    <3>3. CASE NoUser(N, Len(N))
      <4>1. a = m.user
        BY <3>2, <3>3 DEF Latest, NoUser
      <4> QED
        BY <1>8, <2>2, <3>3, <4>1 DEF SignedIn
    <3>4. CASE ~NoUser(N, Len(N))
      <4>1. Latest(N, Len(N), u, a)
        BY <3>2, <3>4 DEF Latest
      <4> QED
        BY <3>4, <4>1 DEF SignedIn
    <3> QED
      BY <3>3, <3>4
  <2> QED
    BY <1>2, <2>1, <2>2
<1>15. Owned(A, N, J, d, u)
  <2>1. ASSUME NEW r \in A
        PROVE  /\ r.counter <= d
               /\ r.counter = d /\ r.owner # Nobody /\ NoUser(N, Len(N)) =>
                      Latest(J, Len(J), u, r.owner)
    <3>1. r.counter \in Nat /\ r.counter <= c
      BY RequestFacts DEF AuthInv, Owned
    <3>2. CASE m.kind = "user"
      BY <1>5, <3>1, <3>2
    <3>3. CASE m.kind = "token"
      BY <1>5, <1>8, <1>10, <3>1, <3>3 DEF AuthInv, Owned
    <3> QED
      BY <1>2, <3>2, <3>3
  <2>2. ASSUME NEW i \in 1..Len(N), N[i].kind = "token"
        PROVE  /\ N[i].counter <= d
               /\ N[i].counter = d /\ NoUser(N, i) =>
                      Latest(J, Len(J), u, N[i].owner)
    <3>1. i + 1 \in 1..Len(M) /\ N[i] = M[i + 1] /\ N[i] \in Block
      BY <1>1, <1>9
    <3>2. N[i].counter \in Nat /\ N[i].counter <= c
      BY <2>2, <3>1, BlockFacts DEF AuthInv, Owned
    <3>3. CASE m.kind = "user"
      BY <1>5, <3>2, <3>3
    <3>4. CASE m.kind = "token"
      <4>1. NoUser(N, i) => NoUser(M, i + 1)
        BY <1>11, <3>4
      <4> QED
        BY <1>5, <1>8, <2>2, <3>1, <3>2, <3>4, <4>1 DEF AuthInv, Owned
    <3> QED
      BY <1>2, <3>3, <3>4
  <2>3. ASSUME NEW i \in 1..Len(J), J[i].kind = "token", J[i].status = "ok"
        PROVE  Latest(J, i, u, J[i].owner)
    <3>1. CASE i = Len(J) /\ J[i] = t
      <4>1. m.kind = "token" /\ M[1].counter = c /\ t.owner = M[1].owner
        BY <1>1, <1>3, <2>3, <3>1
      <4>2. NoUser(M, 1)
        BY <1>1, <4>1 DEF NoUser
      <4>3. Latest(I, Len(I), u, M[1].owner)
        BY <1>1, <1>9, <4>1, <4>2 DEF AuthInv, Owned
      <4> QED
        BY <1>8, <3>1, <4>1, <4>3
    <3>2. CASE i \in 1..Len(I) /\ J[i] = I[i]
      <4>1. Latest(I, i, u, I[i].owner) /\ i \in 0..Len(I)
        BY <1>6, <2>3, <3>2 DEF AuthInv, Owned
      <4> QED
        BY <1>8, <3>2, <4>1
    <3> QED
      BY <1>9, <3>1, <3>2
  <2> QED
    BY <2>1, <2>2, <2>3 DEF Owned
<1>16. AuthInv(a, d, A, N, J, u, n, st)
  BY <1>12, <1>13, <1>14, <1>15 DEF AuthInv
<1> QED
  BY <1>4, <1>16 DEF m, t, d, N, J

\* The worker queue runs a task: a user change only finds the stream closed.
LEMMA AuthPop ==
    ASSUME NEW a \in Users, NEW c \in Nat, NEW A \in SUBSET Request,
           NEW M \in Seq(Block), NEW I \in Seq(Task), NEW u \in Users,
           NEW n \in Nat, NEW st, I # << >>,
           AuthInv(a, c, A, M, I, u, n, st),
           Head(I).kind = "user" => NoneDue(A, M, I, n)
    PROVE  /\ Head(I).kind = "user" =>
                  /\ AuthInv(a, c, A, M, Tail(I), Head(I).user, n, st)
                  /\ NoneDue(A, M, Tail(I), n)
           /\ Head(I).kind = "token" => AuthInv(a, c, A, M, Tail(I), u, n, st)
           /\ Answers(Head(I), n) => NoneDue(A, M, Tail(I), n)
<1> DEFINE t == Head(I)
           J == Tail(I)
           v == IF t.kind = "user" THEN t.user ELSE u
<1>1. /\ t = I[1] /\ t \in Task /\ J \in Seq(Task)
      /\ Len(I) \in Nat /\ Len(I) > 0 /\ Len(J) = Len(I) - 1
      /\ \A i \in 1..Len(J) : J[i] = I[i + 1]
  BY TailFacts
<1>2. t.kind \in {"user", "token"}
  BY <1>1, TaskFacts
<1>3. ASSUME NEW o, NEW i \in 1..Len(I), Latest(I, i, u, o)
      PROVE  Latest(J, i - 1, v, o)
  BY <1>1, <1>3, LatestTail
<1> HIDE DEF t, J
<1>4. /\ \A i \in 1..Len(J) : i + 1 \in 1..Len(I) /\ J[i] = I[i + 1] /\ (i + 1) - 1 = i
      /\ 1 \in 1..Len(I) /\ Len(I) \in 1..Len(I)
  BY <1>1
<1>5. NoneDue(A, M, I, n) => NoneDue(A, M, J, n)
  BY <1>4 DEF NoneDue
<1>6. Answers(t, n) => NoneDue(A, M, J, n)
  <2> SUFFICES ASSUME Answers(I[1], n) PROVE NoneDue(A, M, J, n)
    BY <1>1
  <2>1. \A r \in A : r.closes # n
    BY <1>4 DEF AuthInv, Requested
  <2>2. \A i \in 1..Len(M) : ~Answers(M[i], n)
    BY <1>4 DEF AuthInv, Requested
  <2>3. ASSUME NEW i \in 1..Len(J), Answers(J[i], n) PROVE FALSE
    <3>1. i + 1 = 1
      BY <1>4, <2>3 DEF AuthInv, Requested
    <3> QED
      BY <1>1, <3>1
  <2> QED
    BY <2>1, <2>2, <2>3 DEF NoneDue
<1>7. \A i \in 1..Len(J) : t.kind # "user" /\ NoUser(J, i) => NoUser(I, i + 1)
  <2> SUFFICES ASSUME NEW i \in 1..Len(J), t.kind # "user", NoUser(J, i),
                      NEW k \in 1..(i + 1)
               PROVE  I[k].kind # "user"
    BY DEF NoUser
  <2>1. CASE k = 1
    BY <1>1, <2>1
  <2>2. CASE k # 1
    <3>1. k - 1 \in 1..i /\ k - 1 \in 1..Len(J) /\ (k - 1) + 1 = k
      BY <1>1, <2>2
    <3>2. J[k - 1].kind # "user" /\ J[k - 1] = I[(k - 1) + 1]
      BY <1>4, <3>1 DEF NoUser
    <3> QED
      BY <3>1, <3>2
  <2> QED
    BY <2>1, <2>2
<1>8. t.kind # "user" /\ NoUser(J, Len(J)) => NoUser(I, Len(I))
  <2>1. CASE Len(J) = 0
    <3>1. Len(I) = 1
      BY <1>1, <2>1
    <3>2. ~(t.kind # "user") \/ I[1].kind # "user"
      BY <1>1
    <3> QED
      BY <3>1, <3>2 DEF NoUser
  <2>2. CASE Len(J) # 0
    <3>1. Len(J) \in 1..Len(J) /\ Len(J) + 1 = Len(I)
      BY <1>1, <2>2
    <3> QED
      BY <1>7, <3>1
  <2> QED
    BY <2>1, <2>2
<1>9. Requested(A, M, J, n, st)
  <2>1. \A i \in 1..Len(J) : J[i].kind = "token" => J[i].closes <= n
    BY <1>4 DEF AuthInv, Requested
  <2>2. \A i, j \in 1..Len(J) : Answers(J[i], n) /\ Answers(J[j], n) => i = j
    <3> SUFFICES ASSUME NEW i \in 1..Len(J), NEW j \in 1..Len(J),
                        Answers(J[i], n), Answers(J[j], n)
                 PROVE  i = j
      OBVIOUS
    <3>1. i + 1 = j + 1
      BY <1>4 DEF AuthInv, Requested
    <3> QED
      BY <1>1, <3>1
  <2>3. \A r \in A, i \in 1..Len(J) : ~(r.closes = n /\ Answers(J[i], n))
    BY <1>4 DEF AuthInv, Requested
  <2>4. \A i \in 1..Len(M), j \in 1..Len(J) : ~(Answers(M[i], n) /\ Answers(J[j], n))
    BY <1>4 DEF AuthInv, Requested
  <2> QED
    BY <1>5, <2>1, <2>2, <2>3, <2>4 DEF AuthInv, Requested
<1>10. Discarded(A, M, J, n, c)
  <2>1. CASE t.kind = "user"
    <3>1. NoneDue(A, M, J, n)
      BY <1>5, <2>1 DEF t
    <3> QED
      BY <3>1 DEF AuthInv, Discarded, NoneDue
  <2>2. CASE t.kind = "token"
    <3>1. \A i \in 1..Len(J) : Answers(J[i], n) /\ J[i].status = "aborted" => ~NoUser(J, i)
      BY <1>4, <1>7, <2>2 DEF AuthInv, Discarded
    <3> QED
      BY <1>8, <2>2, <3>1 DEF AuthInv, Discarded
  <2> QED
    BY <1>2, <2>1, <2>2
<1>11. ASSUME NEW o, Latest(I, Len(I), u, o) PROVE Latest(J, Len(J), v, o)
  BY <1>1, <1>3, <1>4, <1>11
<1> HIDE DEF v
<1>12. SignedIn(a, M, J, v)
  <2>1. CASE NoUser(M, Len(M))
    BY <1>11, <2>1 DEF AuthInv, SignedIn
  <2>2. CASE ~NoUser(M, Len(M))
    BY <2>2 DEF AuthInv, SignedIn, Latest
  <2> QED
    BY <2>1, <2>2
<1>13. Owned(A, M, J, c, v)
  <2>1. ASSUME NEW i \in 1..Len(J), J[i].kind = "token", J[i].status = "ok"
        PROVE  Latest(J, i, v, J[i].owner)
    <3>1. Latest(I, i + 1, u, I[i + 1].owner)
      BY <1>4, <2>1 DEF AuthInv, Owned
    <3>2. Latest(J, (i + 1) - 1, v, I[i + 1].owner)
      BY <1>3, <1>4, <3>1
    <3> QED
      BY <1>4, <3>2
  <2> QED
    BY <1>11, <2>1 DEF AuthInv, Owned
<1>14. AuthInv(a, c, A, M, J, v, n, st)
  BY <1>9, <1>10, <1>12, <1>13 DEF AuthInv
<1>15. Head(I).kind = "user" => NoneDue(A, M, J, n)
  BY <1>5
<1> QED
  BY <1>6, <1>14, <1>15 DEF v, t, J

\* What the credentials of the stream are when they come.
LEMMA AuthHead ==
    ASSUME NEW a \in Users, NEW c \in Nat, NEW A \in SUBSET Request,
           NEW M \in Seq(Block), NEW I \in Seq(Task), NEW u \in Users,
           NEW n \in Nat, NEW st, I # << >>,
           AuthInv(a, c, A, M, I, u, n, st), Answers(Head(I), n)
    PROVE  /\ st = "Starting"
           /\ Head(I).status # "aborted"
           /\ Head(I).status = "ok" => Head(I).owner = u
<1>1. Head(I) = I[1] /\ 1 \in 1..Len(I) /\ I[1].kind = "token"
  BY TailFacts DEF Answers
<1>2. NoUser(I, 1)
  BY <1>1 DEF NoUser
<1>3. st = "Starting"
  BY <1>1 DEF AuthInv, Requested, NoneDue
<1>4. I[1].status # "aborted"
  BY <1>1, <1>2 DEF AuthInv, Discarded
<1>5. I[1].status = "ok" => I[1].owner = u
  <2>1. \A o : Latest(I, 1, u, o) => o = u
    BY <1>2 DEF Latest, NoUser
  <2> QED
    BY <1>1, <2>1 DEF AuthInv, Owned
<1> QED
  BY <1>1, <1>3, <1>4, <1>5

-----------------------------------------------------------------------------
(* The invariant.                                                          *)

\* The queues on disk are in the order of their ids and of their writes, hold
\* only writes of their user, and the next id is greater than all.
Stored ==
    /\ nextId \in 1..(Len(issued) + 1)
    /\ \A u \in Users :
           /\ Grows(queue[u])
           /\ \A i \in 1..Len(queue[u]) :
                  /\ queue[u][i].id \in 1..(nextId - 1)
                  /\ queue[u][i].write \in 1..Len(issued)
                  /\ issued[queue[u][i].write] = u

\* With the network on, the pipeline is the front of the user's queue.
Piped == IF network THEN IsOldest(pipeline, queue[user]) ELSE pipeline = << >>

\* The stream is on its way exactly when there is something to send, or was.
Started ==
    /\ IsStarted(stream) => network
    /\ pipeline # << >> => IsStarted(stream)
    /\ IsStarted(stream) /\ ~handshake => pipeline # << >>
    /\ idle => pipeline = << >>

\* An open stream is that of the user; there is nothing without one.
Connected ==
    IF stream = "Open" THEN creds = user
    ELSE /\ ~handshake /\ ~idle /\ ~behind
         /\ creds = Nobody /\ up = << >> /\ down = << >> /\ closing = "ok"

\* The responses d and the requests u together are p.
OnTheWay(d, u, p) ==
    /\ Len(p) = Len(d) + Len(u)
    /\ \A i \in 1..Len(d) : d[i] = p[i]
    /\ \A i \in 1..Len(u) : u[i] = p[Len(d) + i]

\* The handshake is on its way to the server, or back.
Greeting(d, u) == \/ d = << >> /\ u = <<Hello>>
                  \/ d = <<Hello>> /\ u = << >>

\* What is on its way is the pipeline, or the handshake.
Sent ==
    stream = "Open" =>
        /\ handshake /\ closing = "ok" => OnTheWay(down, up, pipeline)
        /\ handshake /\ closing # "ok" => Prefix(down, pipeline)
        /\ ~handshake /\ closing = "ok" => Greeting(down, up)
        /\ ~handshake /\ closing # "ok" => down \in {<< >>, <<Hello>>}

\* Stream tokens are of the user they are kept for.
Tokens ==
    /\ \A u \in Users : saved[u] \in {Nobody, u}
    /\ network => token \in {Nobody, user}

\* The requests for a token.
Credentials ==
    AuthInv(authUser, counter, asked, mainQueue, inbox, user, closes, stream)

\* The inductive invariant.
IndInv == TypeOK /\ Stored /\ Piped /\ Started /\ Connected /\ Sent /\ Tokens
              /\ Credentials

\* The states of the stream.
State == {"Initial", "Starting", "Open", "Backoff", "Error"}

-----------------------------------------------------------------------------
(* The contracts of the handlers' parts.                                   *)

\* A sequence is empty when its length is zero.
LEMMA EmptyLen ==
    ASSUME NEW S, NEW s \in Seq(S)
    PROVE  s = << >> <=> Len(s) = 0
OBVIOUS

\* The handshake has an id no batch has.
LEMMA HelloFacts == Hello \in Batch /\ Hello.id = 0
BY DEF Hello, Batch

\* StartIfNeeded starts what has to be started, and asks for one token then.
LEMMA StartFacts ==
    ASSUME NEW on \in BOOLEAN, NEW s \in State, NEW p, StartIfNeeded(on, s, p)
    PROVE  /\ pipeline' = p
           /\ stream' \in State
           /\ on /\ p # << >> => IsStarted(stream')
           /\ ~on \/ p = << >> => stream' = s
           /\ IsStarted(s) => stream' = s
           /\ s # "Open" => stream' # "Open"
           /\ ~IsStarted(s) /\ IsStarted(stream') => on /\ p # << >>
<1>1. CASE ShouldStartWriteStream(on, s, p)
  BY <1>1 DEF StartIfNeeded, ShouldStartWriteStream, IsStarted, State
<1>2. CASE ~ShouldStartWriteStream(on, s, p)
  BY <1>2 DEF StartIfNeeded, ShouldStartWriteStream, IsStarted, State
<1> QED
  BY <1>1, <1>2

\* Its request is the only one of the present start.
LEMMA StartAuth ==
    ASSUME NEW on \in BOOLEAN, NEW s \in State, NEW p, StartIfNeeded(on, s, p),
           NEW a \in Users, counter \in Nat, asked \in SUBSET Request,
           NEW M \in Seq(Block), NEW I \in Seq(Task), NEW u \in Users,
           closes' \in Nat, AuthInv(a, counter, asked, M, I, u, closes', s)
    PROVE  /\ asked' \in SUBSET Request
           /\ AuthInv(a, counter, asked', M, I, u, closes', stream')
<1> DEFINE new == [counter |-> counter, closes |-> closes', owner |-> Nobody]
<1>1. new \in Request
  BY DEF Request
<1>2. IsStarted(s) \/ NoneDue(asked, M, I, closes')
  BY DEF AuthInv, Requested, IsStarted
<1>3. CASE ShouldStartWriteStream(on, s, p) /\ s # "Error"
  <2>1. asked' = asked \cup {new} /\ stream' = "Starting"
    BY <1>3 DEF StartIfNeeded
  <2>2. NoneDue(asked, M, I, closes')
    BY <1>2, <1>3 DEF ShouldStartWriteStream
  <2>3. AuthInv(a, counter, asked \cup {new}, M, I, u, closes', "Starting")
    BY <2>2, AuthAsk
  <2> QED
    BY <1>1, <2>1, <2>3
<1>4. CASE ~(ShouldStartWriteStream(on, s, p) /\ s # "Error")
  <2>1. /\ asked' = asked
        /\ stream' = s \/ ~IsStarted(s)
    BY <1>4 DEF StartIfNeeded, ShouldStartWriteStream
  <2>2. s # "Starting" \/ stream' = s
    BY <2>1 DEF IsStarted
  <2>3. AuthInv(a, counter, asked, M, I, u, closes', stream')
    BY <2>2, AuthState
  <2> QED
    BY <2>1, <2>3
<1> QED
  BY <1>3, <1>4

\* FillWritePipeline: the pipeline is as full as can be, and what is new in it
\* is sent.
LEMMA FillPipelineFacts ==
    ASSUME PipelineAssumption, NEW on \in BOOLEAN,
           NEW p \in Seq(Batch), NEW q \in Seq(Batch), Grows(q),
           on => Prefix(p, q) /\ Len(p) <= MaxPendingWrites,
           ~on => p = << >>,
           up \in Seq(Batch), idle \in BOOLEAN,
           idle => stream = "Open" /\ handshake /\ p = << >>,
           FillWritePipeline(on, p, q)
    PROVE  /\ StartIfNeeded(on, stream, pipeline')
           /\ pipeline' \in Seq(Batch)
           /\ on => IsOldest(pipeline', q)
           /\ ~on => pipeline' = << >>
           /\ Len(p) <= Len(pipeline')
           /\ \A i \in 1..Len(p) : pipeline'[i] = p[i]
           /\ up' \in Seq(Batch)
           /\ ~(stream = "Open" /\ handshake) => up' = up
           /\ stream = "Open" /\ handshake =>
                  /\ Len(up') = Len(up) + (Len(pipeline') - Len(p))
                  /\ \A i \in 1..Len(up) : up'[i] = up[i]
                  /\ \A i \in 1..(Len(pipeline') - Len(p)) :
                         up'[Len(up) + i] = pipeline'[Len(p) + i]
           /\ idle' \in BOOLEAN
           /\ idle' => stream = "Open" /\ pipeline' = << >>
<1> DEFINE next == IF on THEN Fill(p, q) ELSE p
           sent == IF stream = "Open" /\ handshake
                   THEN SubSeq(next, Len(p) + 1, Len(next)) ELSE << >>
<1>1. /\ next \in Seq(Batch) /\ Len(p) <= Len(next)
      /\ \A i \in 1..Len(p) : next[i] = p[i]
      /\ on => IsOldest(next, q)
      /\ ~on => next = << >>
      /\ Len(next) \in Nat /\ Len(p) \in Nat
  <2>1. CASE on
    BY <2>1, FillFacts
  <2>2. CASE ~on
    BY <2>2
  <2> QED
    BY <2>1, <2>2
<1>2. /\ StartIfNeeded(on, stream, next)
      /\ up' = up \o sent
      /\ idle' = IF sent # << >> THEN FALSE
                 ELSE idle \/ (on /\ stream = "Open" /\ next = << >>)
  BY DEF FillWritePipeline
<1>3. pipeline' = next
  BY <1>2 DEF StartIfNeeded
<1> HIDE DEF next
<1>4. /\ SubSeq(next, Len(p) + 1, Len(next)) \in Seq(Batch)
      /\ Len(SubSeq(next, Len(p) + 1, Len(next))) = Len(next) - Len(p)
      /\ \A i \in 1..(Len(next) - Len(p)) :
             SubSeq(next, Len(p) + 1, Len(next))[i] = next[Len(p) + i]
  BY <1>1, SentFacts
<1>5. CASE stream = "Open" /\ handshake
  <2>1. /\ sent \in Seq(Batch) /\ Len(sent) = Len(next) - Len(p)
        /\ \A i \in 1..(Len(next) - Len(p)) : sent[i] = next[Len(p) + i]
    BY <1>4, <1>5
  <2> HIDE DEF sent
  <2>2. /\ up' \in Seq(Batch) /\ Len(up) \in Nat
        /\ Len(up') = Len(up) + Len(sent)
        /\ \A i \in 1..Len(up) : up'[i] = up[i]
        /\ \A i \in 1..Len(sent) : up'[Len(up) + i] = sent[i]
    <3>1. Len(up) \in Nat /\ Len(sent) \in Nat
      BY <2>1
    <3>2. /\ up \o sent \in Seq(Batch) /\ Len(up \o sent) = Len(up) + Len(sent)
          /\ \A i \in 1..(Len(up) + Len(sent)) : (up \o sent)[i] =
                 IF i <= Len(up) THEN up[i] ELSE sent[i - Len(up)]
      BY <2>1, ConcatProperties
    <3>3. \A i \in 1..Len(up) : i \in 1..(Len(up) + Len(sent)) /\ i <= Len(up)
      BY <3>1
    <3>4. \A i \in 1..Len(sent) : /\ Len(up) + i \in 1..(Len(up) + Len(sent))
                                  /\ ~(Len(up) + i <= Len(up))
                                  /\ (Len(up) + i) - Len(up) = i
      BY <3>1
    <3> QED
      BY <1>2, <3>1, <3>2, <3>3, <3>4
  <2>3. /\ Len(up') = Len(up) + (Len(next) - Len(p))
        /\ \A i \in 1..(Len(next) - Len(p)) : up'[Len(up) + i] = next[Len(p) + i]
    BY <2>1, <2>2
  <2>4. idle' \in BOOLEAN
    BY <1>2
  <2>5. ASSUME idle' PROVE next = << >>
    <3>1. sent = << >> /\ (idle \/ next = << >>)
      BY <1>2, <2>5
    <3>2. CASE idle
      <4>1. Len(sent) = 0 /\ Len(p) = 0
        BY <3>1, <3>2, <2>1, EmptyLen
      <4>2. Len(next) = 0
        BY <1>1, <2>1, <4>1
      <4> QED
        BY <1>1, <4>2, EmptyLen
    <3> QED
      BY <3>1, <3>2
  <2> QED
    BY <1>1, <1>2, <1>3, <1>5, <2>2, <2>3, <2>4, <2>5
<1>6. CASE ~(stream = "Open" /\ handshake)
  <2>1. sent = << >>
    BY <1>6
  <2>2. up' = up
    BY <1>2, <2>1, ConcatEmptySeq
  <2>3. idle' = (idle \/ (on /\ stream = "Open" /\ next = << >>)) /\ ~idle
    BY <1>2, <1>6, <2>1
  <2> QED
    BY <1>1, <1>2, <1>3, <1>6, <2>2, <2>3
<1> QED
  BY <1>5, <1>6

\* The queues on disk and the pipeline, as the lemmas want them.
LEMMA QueueTypes ==
    ASSUME TypeOK, Stored, NEW u \in Users
    PROVE  /\ queue[u] \in Seq(Batch) /\ Len(queue[u]) \in Nat
           /\ Grows(queue[u])
           /\ \A i \in 1..Len(queue[u]) :
                  /\ queue[u][i] \in Batch
                  /\ queue[u][i].id \in Nat /\ queue[u][i].id < nextId
                  /\ queue[u][i].write \in 1..Len(issued)
                  /\ issued[queue[u][i].write] = u
           /\ nextId \in Nat /\ nextId > 0 /\ Len(issued) \in Nat
<1>1. queue[u] \in Seq(Batch) /\ nextId \in Nat /\ issued \in Seq(Users)
  BY DEF TypeOK
<1>2. Len(issued) \in Nat
  BY <1>1
<1>3. nextId > 0
  BY <1>1, <1>2 DEF Stored
<1> QED
  BY <1>1, <1>2, <1>3, BatchFacts DEF Stored

\* The types of the pipeline and of the queue behind it.
LEMMA PipeTypes ==
    ASSUME TypeOK, Piped
    PROVE  /\ pipeline \in Seq(Batch) /\ Len(pipeline) \in Nat
           /\ user \in Users /\ queue[user] \in Seq(Batch)
           /\ network => /\ Prefix(pipeline, queue[user])
                         /\ Len(pipeline) <= MaxPendingWrites
           /\ ~network => pipeline = << >>
BY DEF TypeOK, Piped, IsOldest

\* After a refill of the pipeline the stream is as it has to be.
LEMMA StartedAgain ==
    ASSUME NEW on \in BOOLEAN, stream \in State, Started,
           StartIfNeeded(on, stream, pipeline'),
           network' = on, network => on, handshake' = handshake,
           ~on => pipeline' = << >>,
           pipeline # << >> /\ ~handshake => pipeline' # << >>,
           idle' => pipeline' = << >>
    PROVE  Started'
<1>1. /\ stream' \in State
      /\ on /\ pipeline' # << >> => IsStarted(stream')
      /\ ~IsStarted(stream) /\ IsStarted(stream') => on /\ pipeline' # << >>
      /\ IsStarted(stream) => stream' = stream
  BY StartFacts
<1>2. IsStarted(stream') => network'
  BY <1>1 DEF Started
<1>3. pipeline' # << >> => IsStarted(stream')
  BY <1>1
<1>4. IsStarted(stream') /\ ~handshake' => pipeline' # << >>
  BY <1>1 DEF Started
<1> QED
  BY <1>2, <1>3, <1>4 DEF Started

\* An open stream stays open, another one is not opened.
LEMMA ConnectedStill ==
    ASSUME NEW on \in BOOLEAN, stream \in State, Connected,
           StartIfNeeded(on, stream, pipeline'),
           handshake' = handshake, creds' = creds, user' = user,
           closing' = closing, stream # "Open" => down' = down /\ behind' = behind,
           ~(stream = "Open" /\ handshake) => up' = up,
           idle' => stream = "Open", idle' \in BOOLEAN
    PROVE  Connected' /\ (stream' = "Open" <=> stream = "Open")
<1>1. stream' = "Open" <=> stream = "Open"
  BY StartFacts DEF IsStarted
<1> QED
  BY <1>1 DEF Connected

\* What has been sent follows the pipeline.
LEMMA SentStill ==
    ASSUME TypeOK, TypeOK', Sent, stream' = "Open" <=> stream = "Open",
           handshake' = handshake, closing' = closing, down' = down,
           ~(stream = "Open" /\ handshake) => up' = up,
           Len(pipeline) <= Len(pipeline'),
           \A i \in 1..Len(pipeline) : pipeline'[i] = pipeline[i],
           stream = "Open" /\ handshake =>
               /\ Len(up') = Len(up) + (Len(pipeline') - Len(pipeline))
               /\ \A i \in 1..Len(up) : up'[i] = up[i]
               /\ \A i \in 1..(Len(pipeline') - Len(pipeline)) :
                      up'[Len(up) + i] = pipeline'[Len(pipeline) + i]
    PROVE  Sent'
<1> SUFFICES ASSUME stream = "Open"
             PROVE  /\ handshake /\ closing = "ok" => OnTheWay(down, up', pipeline')
                    /\ handshake /\ closing # "ok" => Prefix(down, pipeline')
                    /\ ~handshake /\ closing = "ok" => Greeting(down, up')
                    /\ ~handshake /\ closing # "ok" => down \in {<< >>, <<Hello>>}
  BY DEF Sent
<1>1. /\ Len(pipeline) \in Nat /\ Len(pipeline') \in Nat /\ Len(up) \in Nat
      /\ Len(up') \in Nat /\ Len(down) \in Nat
  <2>1. /\ pipeline \in Seq(Batch) /\ up \in Seq(Batch) /\ down \in Seq(Batch)
    BY DEF TypeOK
  <2>2. pipeline' \in Seq(Batch) /\ up' \in Seq(Batch)
    BY DEF TypeOK
  <2> QED
    BY <2>1, <2>2
<1>2. ASSUME handshake, closing = "ok" PROVE OnTheWay(down, up', pipeline')
  <2>1. /\ Len(pipeline) = Len(down) + Len(up)
        /\ \A i \in 1..Len(down) : down[i] = pipeline[i]
        /\ \A i \in 1..Len(up) : up[i] = pipeline[Len(down) + i]
    BY <1>2 DEF Sent, OnTheWay
  <2>2. Len(pipeline') = Len(down) + Len(up')
    BY <1>1, <1>2, <2>1
  <2>3. \A i \in 1..Len(down) : down[i] = pipeline'[i]
    <3>1. \A i \in 1..Len(down) : i \in 1..Len(pipeline)
      BY <1>1, <2>1
    <3> QED
      BY <2>1, <3>1
  <2>4. ASSUME NEW i \in 1..Len(up') PROVE up'[i] = pipeline'[Len(down) + i]
    <3>1. CASE i <= Len(up)
      <4>1. i \in 1..Len(up) /\ Len(down) + i \in 1..Len(pipeline)
        BY <1>1, <2>1, <3>1
      <4> QED
        BY <1>2, <2>1, <4>1
    <3>2. CASE i > Len(up)
      <4>1. /\ i - Len(up) \in 1..(Len(pipeline') - Len(pipeline))
            /\ Len(up) + (i - Len(up)) = i
            /\ Len(pipeline) + (i - Len(up)) = Len(down) + i
        BY <1>1, <1>2, <2>1, <3>2
      <4>2. up'[Len(up) + (i - Len(up))] = pipeline'[Len(pipeline) + (i - Len(up))]
        BY <1>2, <4>1
      <4> QED
        BY <4>1, <4>2
    <3>3. i <= Len(up) \/ i > Len(up)
      BY <1>1
    <3> QED
      BY <3>1, <3>2, <3>3
  <2> QED
    BY <2>2, <2>3, <2>4 DEF OnTheWay
<1>3. ASSUME handshake, closing # "ok" PROVE Prefix(down, pipeline')
  <2>1. Len(down) <= Len(pipeline) /\ \A i \in 1..Len(down) : down[i] = pipeline[i]
    BY <1>3 DEF Sent, Prefix
  <2>2. \A i \in 1..Len(down) : i \in 1..Len(pipeline)
    BY <1>1, <2>1
  <2>3. Len(down) <= Len(pipeline')
    BY <1>1, <2>1
  <2> QED
    BY <2>1, <2>2, <2>3 DEF Prefix
<1> QED
  BY <1>2, <1>3 DEF Sent

\* EnableNetwork.
LEMMA EnableKeeps ==
    ASSUME PipelineAssumption, IndInv, EnableNetwork
    PROVE  IndInv'
<1> DEFINE q == queue[user]
<1>1. /\ TypeOK /\ Stored /\ Piped /\ Started /\ Connected /\ Sent /\ Tokens
      /\ Credentials
  BY DEF IndInv
<1>2. /\ q \in Seq(Batch) /\ Grows(q) /\ pipeline \in Seq(Batch)
      /\ Prefix(pipeline, q) /\ Len(pipeline) <= MaxPendingWrites
      /\ user \in Users /\ up \in Seq(Batch) /\ idle \in BOOLEAN /\ stream \in State
  <2>1. /\ user \in Users /\ up \in Seq(Batch) /\ idle \in BOOLEAN /\ stream \in State
    BY <1>1 DEF TypeOK, State
  <2>2. pipeline = << >> => Prefix(pipeline, q) /\ Len(pipeline) <= MaxPendingWrites
    BY <1>1, <2>1, QueueTypes DEF Prefix, PipelineAssumption
  <2> QED
    BY <1>1, <2>1, <2>2, PipeTypes, QueueTypes
<1>3. idle => stream = "Open" /\ handshake /\ pipeline = << >>
  BY <1>1 DEF Started, Connected, IsStarted
<1>4. /\ network' = TRUE /\ token' = saved[user] /\ closes' = closes
      /\ FillWritePipeline(TRUE, pipeline, q)
      /\ events' \in {events, events + 1} /\ (events' # events => events < MaxEvents)
      /\ UNCHANGED <<authVars, user, appVars, handshake, diskVars, creds, down,
                   closing, behind, serverVars, issued, told>>
  BY DEF EnableNetwork, Event
<1>5. /\ StartIfNeeded(TRUE, stream, pipeline')
      /\ pipeline' \in Seq(Batch) /\ IsOldest(pipeline', q)
      /\ Len(pipeline) <= Len(pipeline')
      /\ \A i \in 1..Len(pipeline) : pipeline'[i] = pipeline[i]
      /\ up' \in Seq(Batch)
      /\ ~(stream = "Open" /\ handshake) => up' = up
      /\ stream = "Open" /\ handshake =>
             /\ Len(up') = Len(up) + (Len(pipeline') - Len(pipeline))
             /\ \A i \in 1..Len(up) : up'[i] = up[i]
             /\ \A i \in 1..(Len(pipeline') - Len(pipeline)) :
                    up'[Len(up) + i] = pipeline'[Len(pipeline) + i]
      /\ idle' \in BOOLEAN /\ (idle' => stream = "Open" /\ pipeline' = << >>)
  BY <1>2, <1>3, <1>4, FillPipelineFacts
<1>6. asked' \in SUBSET Request /\ Credentials' /\ stream' \in State
  <2>1. /\ authUser \in Users /\ counter \in Nat /\ asked \in SUBSET Request
        /\ mainQueue \in Seq(Block) /\ inbox \in Seq(Task) /\ closes \in Nat
    BY <1>1 DEF TypeOK
  <2>2. AuthInv(authUser, counter, asked, mainQueue, inbox, user, closes', stream)
    BY <1>1, <1>4 DEF Credentials
  <2>3. /\ asked' \in SUBSET Request
        /\ AuthInv(authUser, counter, asked', mainQueue, inbox, user, closes', stream')
    BY <1>2, <1>4, <1>5, <2>1, <2>2, StartAuth
  <2>4. stream' \in State
    BY <1>2, <1>5, StartFacts
  <2> QED
    BY <1>4, <2>3, <2>4 DEF Credentials, authVars
<1>7. TypeOK'
  <2>1. events' \in 0..MaxEvents
    BY <1>1, <1>4 DEF TypeOK, PipelineAssumption
  <2> QED
    BY <1>1, <1>4, <1>5, <1>6, <2>1 DEF TypeOK, State, authVars, appVars, diskVars, serverVars
<1>8. Stored'
  BY <1>1, <1>4 DEF Stored, diskVars
<1>9. Piped'
  BY <1>4, <1>5 DEF Piped, diskVars
<1>10. Started'
  <2>1. pipeline # << >> => pipeline' # << >>
    BY <1>2, <1>5, EmptyLen
  <2> QED
    BY <1>1, <1>2, <1>4, <1>5, <2>1, StartedAgain
<1>11. Connected' /\ (stream' = "Open" <=> stream = "Open")
  BY <1>1, <1>2, <1>4, <1>5, ConnectedStill
<1>12. Sent'
  BY <1>1, <1>4, <1>5, <1>7, <1>11, SentStill
<1>13. Tokens'
  BY <1>1, <1>2, <1>4 DEF Tokens, diskVars
<1> QED
  BY <1>6, <1>7, <1>8, <1>9, <1>10, <1>11, <1>12, <1>13 DEF IndInv

\* A new write at the end of its queue.
LEMMA AppendGrows ==
    ASSUME TypeOK, Stored, NEW u \in Users, NEW w, w = Len(issued) + 1
    PROVE  LET b == [id |-> nextId, write |-> w]
               q == Append(queue[u], b)
           IN  /\ q \in Seq(Batch) /\ Grows(q) /\ Prefix(queue[u], q)
               /\ Len(q) = Len(queue[u]) + 1 /\ q[Len(q)] = b
<1> DEFINE b == [id |-> nextId, write |-> w]
           q == Append(queue[u], b)
<1>1. /\ queue[u] \in Seq(Batch) /\ Len(queue[u]) \in Nat
      /\ Grows(queue[u])
      /\ \A i \in 1..Len(queue[u]) :
             /\ queue[u][i].id \in Nat /\ queue[u][i].id < nextId
             /\ queue[u][i].write \in 1..Len(issued)
      /\ nextId \in Nat /\ nextId > 0 /\ Len(issued) \in Nat
  BY QueueTypes
<1>2. b \in Batch /\ b.id = nextId /\ b.write = w /\ w \in Nat
  BY <1>1 DEF Batch
<1> HIDE DEF b
<1>3. /\ q \in Seq(Batch) /\ Len(q) = Len(queue[u]) + 1
      /\ q[Len(queue[u]) + 1] = b
      /\ \A i \in 1..Len(queue[u]) : q[i] = queue[u][i]
  BY <1>1, <1>2, AppendFacts
<1> HIDE DEF q
<1>4. \A i \in 1..Len(q) : \/ i \in 1..Len(queue[u]) /\ q[i] = queue[u][i]
                           \/ i = Len(queue[u]) + 1 /\ q[i] = b
  BY <1>1, <1>3
<1>5. \A i \in 1..Len(q) : q[i].id > 0
  BY <1>1, <1>2, <1>4 DEF Grows
<1>6. ASSUME NEW i \in 1..Len(q), NEW j \in 1..Len(q), i < j
      PROVE  q[i].id < q[j].id /\ q[i].write < q[j].write
  <2>1. i \in 1..Len(queue[u]) /\ q[i] = queue[u][i]
    BY <1>1, <1>3, <1>4, <1>6
  <2>2. CASE j \in 1..Len(queue[u]) /\ q[j] = queue[u][j]
    BY <1>6, <2>1, <2>2, <1>1 DEF Grows
  <2>3. CASE q[j] = b
    BY <1>1, <1>2, <2>1, <2>3
  <2> QED
    BY <1>4, <2>2, <2>3
<1>7. Grows(q)
  BY <1>5, <1>6 DEF Grows
<1>8. Prefix(queue[u], q)
  <2>1. Len(queue[u]) <= Len(q)
    BY <1>1, <1>3
  <2>2. \A i \in 1..Len(queue[u]) : queue[u][i] = q[i]
    BY <1>3
  <2> QED
    BY <2>1, <2>2 DEF Prefix
<1> QED
  BY <1>3, <1>7, <1>8 DEF b, q

\* The front of a front is a front.
LEMMA PrefixTrans ==
    ASSUME NEW p \in Seq(Batch), NEW q \in Seq(Batch), NEW r \in Seq(Batch),
           Prefix(p, q), Prefix(q, r)
    PROVE  Prefix(p, r)
BY DEF Prefix

\* The app writes.
LEMMA WriteKeeps ==
    ASSUME PipelineAssumption, IndInv, Write
    PROVE  IndInv'
<1> DEFINE w == Len(issued) + 1
           b == [id |-> nextId, write |-> w]
           q == Append(queue[user], b)
<1>1. /\ TypeOK /\ Stored /\ Piped /\ Started /\ Connected /\ Sent /\ Tokens
      /\ Credentials
  BY DEF IndInv
<1>2. /\ user \in Users /\ up \in Seq(Batch) /\ idle \in BOOLEAN /\ stream \in State
      /\ network \in BOOLEAN
  BY <1>1 DEF TypeOK, State
<1>3. /\ q \in Seq(Batch) /\ Grows(q) /\ Prefix(queue[user], q)
      /\ Len(q) = Len(queue[user]) + 1 /\ q[Len(q)] = b
  BY <1>1, <1>2, AppendGrows
<1>4. /\ w <= MaxWrites /\ closes' = closes
      /\ issued' = Append(issued, user)
      /\ queue' = [queue EXCEPT ![user] = q]
      /\ nextId' = nextId + 1
      /\ FillWritePipeline(network, pipeline, q)
      /\ UNCHANGED <<authVars, user, network, waiters, handshake, token,
                       saved, creds, down, closing, behind, serverVars, told,
                       events>>
      /\ callbacks' \in {callbacks, callbacks \cup
                                 {[user |-> user, id |-> nextId, write |-> w]}}
  BY DEF Write
<1> HIDE DEF q
<1>5. /\ pipeline \in Seq(Batch) /\ queue[user] \in Seq(Batch)
      /\ network => Prefix(pipeline, q) /\ Len(pipeline) <= MaxPendingWrites
      /\ ~network => pipeline = << >>
  BY <1>1, <1>3, PipeTypes, PrefixTrans
<1>6. idle => stream = "Open" /\ handshake /\ pipeline = << >>
  BY <1>1 DEF Started, Connected, IsStarted
<1>7. /\ StartIfNeeded(network, stream, pipeline')
      /\ pipeline' \in Seq(Batch)
      /\ network => IsOldest(pipeline', q)
      /\ ~network => pipeline' = << >>
      /\ Len(pipeline) <= Len(pipeline')
      /\ \A i \in 1..Len(pipeline) : pipeline'[i] = pipeline[i]
      /\ up' \in Seq(Batch)
      /\ ~(stream = "Open" /\ handshake) => up' = up
      /\ stream = "Open" /\ handshake =>
             /\ Len(up') = Len(up) + (Len(pipeline') - Len(pipeline))
             /\ \A i \in 1..Len(up) : up'[i] = up[i]
             /\ \A i \in 1..(Len(pipeline') - Len(pipeline)) :
                    up'[Len(up) + i] = pipeline'[Len(pipeline) + i]
      /\ idle' \in BOOLEAN /\ (idle' => stream = "Open" /\ pipeline' = << >>)
  BY <1>2, <1>3, <1>4, <1>5, <1>6, FillPipelineFacts
<1>8. asked' \in SUBSET Request /\ Credentials' /\ stream' \in State
  <2>1. /\ authUser \in Users /\ counter \in Nat /\ asked \in SUBSET Request
        /\ mainQueue \in Seq(Block) /\ inbox \in Seq(Task) /\ closes \in Nat
    BY <1>1 DEF TypeOK
  <2>2. AuthInv(authUser, counter, asked, mainQueue, inbox, user, closes', stream)
    BY <1>1, <1>4 DEF Credentials
  <2>3. /\ asked' \in SUBSET Request
        /\ AuthInv(authUser, counter, asked', mainQueue, inbox, user, closes', stream')
    BY <1>2, <1>4, <1>7, <2>1, <2>2, StartAuth
  <2>4. stream' \in State
    BY <1>2, <1>7, StartFacts
  <2> QED
    BY <1>4, <2>3, <2>4 DEF Credentials, authVars
<1>9. /\ nextId \in Nat /\ nextId > 0 /\ Len(issued) \in Nat /\ w \in Nat
      /\ issued \in Seq(Users) /\ queue \in [Users -> Seq(Batch)]
  BY <1>1, <1>2, QueueTypes DEF TypeOK
<1>10. /\ issued' \in Seq(Users) /\ Len(issued') = w /\ issued'[w] = user
       /\ \A i \in 1..Len(issued) : issued'[i] = issued[i]
  BY <1>2, <1>4, <1>9, AppendFacts
<1>11. /\ queue' \in [Users -> Seq(Batch)] /\ queue'[user] = q
       /\ \A u \in Users \ {user} : queue'[u] = queue[u]
  BY <1>2, <1>3, <1>4, <1>9
<1>12. TypeOK'
  <2>1. callbacks' \subseteq Callback
    <3>1. [user |-> user, id |-> nextId, write |-> w] \in Callback
      BY <1>2, <1>9 DEF Callback
    <3>2. callbacks \subseteq Callback
      BY <1>1 DEF TypeOK
    <3> QED
      BY <1>4, <3>1, <3>2
  <2>2. nextId' \in Nat /\ Len(issued') <= MaxWrites
    BY <1>4, <1>9, <1>10
  <2> QED
    BY <1>1, <1>4, <1>7, <1>8, <1>10, <1>11, <2>1, <2>2
    DEF TypeOK, State, authVars, serverVars
<1>13. Stored'
  <2>1. nextId' \in 1..(Len(issued') + 1)
    BY <1>1, <1>4, <1>9, <1>10 DEF Stored
  <2>2. ASSUME NEW u \in Users
        PROVE  /\ Grows(queue'[u])
               /\ \A i \in 1..Len(queue'[u]) :
                      /\ queue'[u][i].id \in 1..(nextId' - 1)
                      /\ queue'[u][i].write \in 1..Len(issued')
                      /\ issued'[queue'[u][i].write] = u
    <3>0. /\ Grows(queue[u])
          /\ \A i \in 1..Len(queue[u]) :
                 /\ queue[u][i].id \in 1..(nextId - 1)
                 /\ queue[u][i].write \in 1..Len(issued)
                 /\ issued[queue[u][i].write] = u
      BY <1>1 DEF Stored
    <3>1. \A i \in 1..Len(queue[u]) :
                      /\ queue[u][i].id \in 1..(nextId' - 1)
                      /\ queue[u][i].write \in 1..Len(issued')
                      /\ issued'[queue[u][i].write] = u
      BY <1>4, <1>9, <1>10, <3>0
    <3>2. CASE u # user
      BY <1>11, <3>0, <3>1, <3>2
    <3>3. CASE u = user
      <4>1. \A i \in 1..Len(q) : \/ i \in 1..Len(queue[u]) /\ q[i] = queue[u][i]
                                 \/ q[i] = b
        BY <1>2, <1>3, <1>5, <3>3 DEF Prefix
      <4>2. /\ b.id \in 1..(nextId' - 1) /\ b.write \in 1..Len(issued')
            /\ issued'[b.write] = u
        BY <1>4, <1>9, <1>10, <3>3
      <4> QED
        BY <1>3, <1>11, <3>1, <3>3, <4>1, <4>2
    <3> QED
      BY <3>2, <3>3
  <2> QED
    BY <2>1, <2>2 DEF Stored
<1>14. Piped'
  BY <1>4, <1>7, <1>11 DEF Piped
<1>15. Started'
  <2>1. pipeline # << >> => pipeline' # << >>
    BY <1>5, <1>7, EmptyLen
  <2> QED
    BY <1>1, <1>2, <1>4, <1>7, <2>1, StartedAgain
<1>16. Connected' /\ (stream' = "Open" <=> stream = "Open")
  BY <1>1, <1>2, <1>4, <1>7, ConnectedStill
<1>17. Sent'
  BY <1>1, <1>4, <1>7, <1>12, <1>16, SentStill
<1>18. Tokens'
  BY <1>1, <1>4 DEF Tokens
<1> QED
  BY <1>8, <1>12, <1>13, <1>14, <1>15, <1>16, <1>17, <1>18 DEF IndInv

-----------------------------------------------------------------------------
(* Steps that leave most of the invariant alone.                           *)

\* Stored depends on the queues alone.
LEMMA StoredStill ==
    ASSUME Stored, UNCHANGED <<nextId, issued, queue>>
    PROVE  Stored'
BY DEF Stored

\* Piped depends on the pipeline and its queue alone.
LEMMA PipedStill ==
    ASSUME Piped, UNCHANGED <<network, pipeline, queue, user>>
    PROVE  Piped'
BY DEF Piped

\* The stream's invariants depend on the connection and the pipeline alone.
LEMMA StreamStill ==
    ASSUME Started, Connected, Sent,
           UNCHANGED <<network, stream, pipeline, user, handshake, idle, connVars>>
    PROVE  Started' /\ Connected' /\ Sent'
BY DEF Started, Connected, Sent, connVars

\* Tokens depends on the stream tokens alone.
LEMMA TokensStill ==
    ASSUME Tokens, UNCHANGED <<network, token, user, saved>>
    PROVE  Tokens'
BY DEF Tokens

\* Credentials depends on the requests alone.
LEMMA CredentialsStill ==
    ASSUME Credentials,
           UNCHANGED <<authVars, asked, user, closes, stream>>
    PROVE  Credentials'
BY DEF Credentials, authVars

\* Disturbances are bounded.
LEMMA Counted ==
    ASSUME PipelineAssumption, TypeOK, Event
    PROVE  events' \in 0..MaxEvents
BY DEF TypeOK, Event, PipelineAssumption

\* The types of what AuthInv is about.
LEMMA AuthTypes ==
    ASSUME TypeOK
    PROVE  /\ authUser \in Users /\ user \in Users /\ counter \in Nat
           /\ asked \in SUBSET Request /\ mainQueue \in Seq(Block)
           /\ inbox \in Seq(Task) /\ closes \in Nat /\ stream \in State
BY DEF TypeOK, State

\* Nothing happens.
LEMMA StutterKeeps ==
    ASSUME IndInv, UNCHANGED vars
    PROVE  IndInv'
<1>1. TypeOK'
  BY DEF IndInv, TypeOK, vars, authVars, appVars, streamVars, diskVars,
         connVars, serverVars
<1> QED
  BY <1>1, StoredStill, PipedStill, StreamStill, TokensStill, CredentialsStill
  DEF IndInv, vars, authVars, streamVars, diskVars, connVars

\* The app waits for its writes.
LEMMA WaitKeeps ==
    ASSUME PipelineAssumption, IndInv, WaitForPendingWrites
    PROVE  IndInv'
<1>1. TypeOK /\ Stored
  BY DEF IndInv
<1>2. events' \in 0..MaxEvents
  BY <1>1, Counted DEF WaitForPendingWrites
<1>3. /\ queue[user] \in Seq(Batch) /\ Len(queue[user]) \in Nat
      /\ \A i \in 1..Len(queue[user]) :
             queue[user][i].id \in Nat /\ queue[user][i].write \in 1..Len(issued)
      /\ Len(issued) \in Nat /\ Len(issued) <= MaxWrites /\ MaxWrites \in Nat
  BY <1>1, QueueTypes DEF TypeOK, PipelineAssumption
<1>4. queue[user] # << >>
  BY DEF WaitForPendingWrites
<1>5. Highest(queue[user]) \in Nat
  <2>1. Len(queue[user]) \in 1..Len(queue[user])
    BY <1>3, <1>4, EmptyLen
  <2> QED
    BY <1>3, <2>1 DEF Highest
<1>6. {queue[user][i].write : i \in 1..Len(queue[user])} \in SUBSET (1..MaxWrites)
  BY <1>3
<1>7. waiters' \subseteq Waiter
  <2>1. waiters \subseteq Waiter
    BY <1>1 DEF TypeOK
  <2> QED
    BY <1>5, <1>6, <2>1 DEF WaitForPendingWrites, Waiter
<1>8. TypeOK'
  BY <1>1, <1>2, <1>7
  DEF WaitForPendingWrites, TypeOK, authVars, streamVars, diskVars, connVars,
      serverVars
<1> QED
  BY <1>8, StoredStill, PipedStill, StreamStill, TokensStill, CredentialsStill
  DEF IndInv, WaitForPendingWrites, authVars, streamVars, diskVars, connVars

\* A user signs in.
LEMMA SignInKeeps ==
    ASSUME PipelineAssumption, IndInv, NEW u \in Users, SignIn(u)
    PROVE  IndInv'
<1> DEFINE m == [kind |-> "user", user |-> u]
<1>1. TypeOK /\ Credentials
  BY DEF IndInv
<1>2. events' \in 0..MaxEvents
  BY <1>1, Counted DEF SignIn
<1>3. m \in Block /\ m.kind = "user" /\ m.user = u
  BY DEF Block
<1>4. /\ authUser' = u /\ mainQueue' = Append(mainQueue, m)
      /\ UNCHANGED <<counter, asked, inbox, user, network, pipeline, appVars,
                   streamVars, diskVars, connVars, serverVars, issued, told>>
  BY DEF SignIn
<1> HIDE DEF m
<1>5. mainQueue' \in Seq(Block)
  BY <1>1, <1>3, <1>4, AuthTypes, AppendFacts
<1>6. TypeOK'
  BY <1>1, <1>2, <1>4, <1>5
  DEF TypeOK, appVars, streamVars, diskVars, connVars, serverVars
<1>7. Credentials'
  <2>1. AuthInv(m.user, counter, asked, Append(mainQueue, m), inbox, user,
                closes, stream)
    BY <1>1, <1>3, AuthTypes, AuthSignIn DEF Credentials
  <2> QED
    BY <1>3, <1>4, <2>1 DEF Credentials, streamVars
<1> QED
  BY <1>4, <1>6, <1>7, StoredStill, PipedStill, StreamStill, TokensStill
  DEF IndInv, streamVars, diskVars, connVars

\* FIRAuth takes a request up, for whoever is signed in.
LEMMA TakeUpKeeps ==
    ASSUME IndInv, NEW r \in asked, TakeUp(r)
    PROVE  IndInv'
<1>1. TypeOK /\ Credentials
  BY DEF IndInv
<1>2. /\ asked' = (asked \ {r}) \cup {[r EXCEPT !.owner = authUser]}
      /\ UNCHANGED <<authVars, user, network, pipeline, appVars, streamVars,
                   diskVars, connVars, serverVars, issued, told, events>>
  BY DEF TakeUp
<1>3. asked' \in SUBSET Request
  <2>1. r \in Request /\ authUser \in Users
    BY <1>1, AuthTypes
  <2>2. [r EXCEPT !.owner = authUser] \in Request
    BY <2>1 DEF Request
  <2> QED
    BY <1>1, <1>2, <2>2, AuthTypes
<1>4. TypeOK'
  BY <1>1, <1>2, <1>3
  DEF TypeOK, authVars, appVars, streamVars, diskVars, connVars, serverVars
<1>5. Credentials'
  <2>1. AuthInv(authUser, counter,
                (asked \ {r}) \cup {[r EXCEPT !.owner = authUser]}, mainQueue,
                inbox, user, closes, stream)
    BY <1>1, AuthTypes, AuthTake DEF Credentials
  <2> QED
    BY <1>2, <2>1 DEF Credentials, authVars, streamVars
<1> QED
  BY <1>2, <1>4, <1>5, StoredStill, PipedStill, StreamStill, TokensStill
  DEF IndInv, streamVars, diskVars, connVars

\* FIRAuth answers a request.
LEMMA AnswerKeeps ==
    ASSUME PipelineAssumption, IndInv, NEW r \in asked,
           TokenArrives(r) \/ TokenFails(r)
    PROVE  IndInv'
<1>1. TypeOK /\ Credentials
  BY DEF IndInv
<1>2. /\ events' \in 0..MaxEvents
      /\ \E status \in {"ok", "unavailable"} : AnswerToken(r, status)
  <2>1. CASE TokenArrives(r)
    BY <1>1, <2>1 DEF TokenArrives, TypeOK
  <2>2. CASE TokenFails(r)
    BY <1>1, <2>2, Counted DEF TokenFails
  <2> QED
    BY <2>1, <2>2
<1>3. PICK status \in {"ok", "unavailable"} : AnswerToken(r, status)
  BY <1>2
<1> DEFINE m == [kind |-> "token", counter |-> r.counter, closes |-> r.closes,
                 owner |-> r.owner, status |-> status]
<1>4. /\ r.owner # Nobody
      /\ asked' = asked \ {r}
      /\ mainQueue' = Append(mainQueue, m)
      /\ UNCHANGED <<authUser, counter, inbox, user, network, pipeline, appVars,
                   streamVars, diskVars, connVars, serverVars, issued, told>>
  BY <1>3 DEF AnswerToken
<1>5. r \in Request
  BY <1>1, AuthTypes
<1>6. /\ m \in Block /\ m.kind = "token" /\ m.counter = r.counter
      /\ m.closes = r.closes /\ m.owner = r.owner /\ m.status # "aborted"
  <2>1. r.counter \in Nat /\ r.closes \in Nat /\ r.owner \in Users
    BY <1>4, <1>5, RequestFacts
  <2> QED
    BY <2>1 DEF Block, Error
<1> HIDE DEF m
<1>7. mainQueue' \in Seq(Block) /\ asked' \in SUBSET Request
  BY <1>1, <1>4, <1>6, AuthTypes, AppendFacts
<1>8. TypeOK'
  BY <1>1, <1>2, <1>4, <1>7
  DEF TypeOK, appVars, streamVars, diskVars, connVars, serverVars
<1>9. Credentials'
  <2>1. AuthInv(authUser, counter, asked \ {r}, Append(mainQueue, m), inbox,
                user, closes, stream)
    BY <1>1, <1>4, <1>6, AuthTypes, AuthAnswer DEF Credentials
  <2> QED
    BY <1>4, <2>1 DEF Credentials, streamVars
<1> QED
  BY <1>4, <1>8, <1>9, StoredStill, PipedStill, StreamStill, TokensStill
  DEF IndInv, streamVars, diskVars, connVars

\* The main queue runs its next block.
LEMMA RunKeeps ==
    ASSUME IndInv, RunMainQueue
    PROVE  IndInv'
<1> DEFINE m == Head(mainQueue)
<1>1. TypeOK /\ Credentials
  BY DEF IndInv
<1>2. /\ mainQueue # << >> /\ mainQueue' = Tail(mainQueue)
      /\ counter' = CounterAfter(m, counter)
      /\ inbox' = Append(inbox, TaskOf(m, counter))
      /\ UNCHANGED <<authUser, asked, user, network, pipeline, appVars,
                   streamVars, diskVars, connVars, serverVars, issued, told,
                   events>>
  BY DEF RunMainQueue, TaskOf, CounterAfter
<1>3. /\ TaskOf(m, counter) \in Task
      /\ AuthInv(authUser, CounterAfter(m, counter), asked, Tail(mainQueue),
                 Append(inbox, TaskOf(m, counter)), user, closes, stream)
  BY <1>1, <1>2, AuthTypes, AuthRun DEF Credentials
<1>4. /\ mainQueue' \in Seq(Block) /\ inbox' \in Seq(Task) /\ counter' \in Nat
  <2>1. counter' \in Nat
    BY <1>1, <1>2, AuthTypes DEF CounterAfter
  <2>2. mainQueue' \in Seq(Block)
    BY <1>1, <1>2, AuthTypes, TailFacts
  <2>3. inbox' \in Seq(Task)
    BY <1>1, <1>2, <1>3, AuthTypes, AppendFacts
  <2> QED
    BY <2>1, <2>2, <2>3
<1>5. TypeOK'
  BY <1>1, <1>2, <1>4
  DEF TypeOK, appVars, streamVars, diskVars, connVars, serverVars
<1>6. Credentials'
  BY <1>2, <1>3 DEF Credentials, streamVars
<1> QED
  BY <1>2, <1>5, <1>6, StoredStill, PipedStill, StreamStill, TokensStill
  DEF IndInv, streamVars, diskVars, connVars

\* An answer for an earlier start of the stream is dropped.
LEMMA IgnoreKeeps ==
    ASSUME IndInv, IgnoreCredentials
    PROVE  IndInv'
<1>1. TypeOK /\ Credentials
  BY DEF IndInv
<1>2. /\ inbox # << >> /\ Head(inbox).kind = "token" /\ inbox' = Tail(inbox)
      /\ UNCHANGED <<authUser, counter, asked, mainQueue, user, network,
                   pipeline, appVars, streamVars, diskVars, connVars,
                   serverVars, issued, told, events>>
  BY DEF IgnoreCredentials, Answered
<1>3. AuthInv(authUser, counter, asked, mainQueue, Tail(inbox), user, closes, stream)
  BY <1>1, <1>2, AuthTypes, AuthPop DEF Credentials
<1>4. inbox' \in Seq(Task)
  BY <1>1, <1>2, AuthTypes, TailFacts
<1>5. TypeOK'
  BY <1>1, <1>2, <1>4
  DEF TypeOK, appVars, streamVars, diskVars, connVars, serverVars
<1>6. Credentials'
  BY <1>2, <1>3 DEF Credentials, streamVars
<1> QED
  BY <1>2, <1>5, <1>6, StoredStill, PipedStill, StreamStill, TokensStill
  DEF IndInv, streamVars, diskVars, connVars

\* The backoff is over: a token is asked for.
LEMMA BackoffKeeps ==
    ASSUME IndInv, BackoffElapses
    PROVE  IndInv'
<1>1. TypeOK /\ Credentials /\ Started /\ Connected /\ Sent
  BY DEF IndInv
<1>2. /\ stream = "Backoff" /\ stream' = "Starting"
      /\ asked' = asked \cup {[counter |-> counter, closes |-> closes,
                               owner |-> Nobody]}
      /\ UNCHANGED <<authVars, user, network, pipeline, appVars, handshake,
                   idle, closes, token, diskVars, connVars, serverVars,
                   issued, told, events>>
  BY DEF BackoffElapses
<1>3. NoneDue(asked, mainQueue, inbox, closes)
  BY <1>1, <1>2 DEF Credentials, AuthInv, Requested
<1>4. Credentials'
  BY <1>1, <1>2, <1>3, AuthTypes, AuthAsk DEF Credentials, authVars
<1>5. asked' \in SUBSET Request
  <2>1. [counter |-> counter, closes |-> closes, owner |-> Nobody] \in Request
    BY <1>1, AuthTypes DEF Request
  <2> QED
    BY <1>1, <1>2, <2>1, AuthTypes
<1>6. TypeOK'
  BY <1>1, <1>2, <1>5
  DEF TypeOK, authVars, appVars, diskVars, connVars, serverVars
<1>7. Started' /\ Connected' /\ Sent'
  BY <1>1, <1>2 DEF Started, Connected, Sent, IsStarted, connVars
<1> QED
  BY <1>2, <1>4, <1>6, <1>7, StoredStill, PipedStill, TokensStill
  DEF IndInv, diskVars

-----------------------------------------------------------------------------
(* Closing the stream.                                                     *)

\* A stopped stream is due no answer.
LEMMA StopFacts ==
    ASSUME TypeOK, Credentials, Stop
    PROVE  /\ closes' \in Nat
           /\ StateAfterStop \in State /\ ~IsStarted(StateAfterStop)
           /\ AuthInv(authUser, counter, asked, mainQueue, inbox, user, closes',
                      StateAfterStop)
           /\ NoneDue(asked, mainQueue, inbox, closes')
           /\ Disconnected
<1>1. CASE IsStarted(stream)
  <2>1. closes' = closes + 1 /\ StateAfterStop = "Initial" /\ Disconnected
    BY <1>1 DEF Stop, StateAfterStop
  <2>2. /\ AuthInv(authUser, counter, asked, mainQueue, inbox, user, closes + 1,
                   "Initial")
        /\ NoneDue(asked, mainQueue, inbox, closes + 1)
    BY AuthTypes, AuthClose DEF Credentials
  <2>3. closes' \in Nat
    BY <2>1, AuthTypes
  <2> QED
    BY <2>1, <2>2, <2>3 DEF State, IsStarted
<1>2. CASE ~IsStarted(stream)
  <2>1. closes' = closes /\ StateAfterStop = stream /\ Disconnected
    BY <1>2 DEF Stop, StateAfterStop
  <2>2. NoneDue(asked, mainQueue, inbox, closes)
    BY <1>2 DEF Credentials, AuthInv, Requested, IsStarted
  <2> QED
    BY <1>2, <2>1, <2>2, AuthTypes DEF Credentials
<1> QED
  BY <1>1, <1>2

\* Nothing is on its way without a connection.
LEMMA DisconnectedTypes ==
    ASSUME Disconnected
    PROVE  /\ handshake' = FALSE /\ idle' = FALSE /\ behind' = FALSE
           /\ creds' = Nobody /\ closing' = "ok" /\ up' = << >> /\ down' = << >>
           /\ up' \in Seq(Batch) /\ down' \in Seq(Batch)
BY DEF Disconnected

\* A stream that is not open has nothing on its way.
LEMMA SilentStream ==
    ASSUME Disconnected, stream' # "Open"
    PROVE  Connected' /\ Sent'
BY DEF Disconnected, Connected, Sent

\* A stream that was closed is started again for the pipeline it needs.
LEMMA StartedAnew ==
    ASSUME NEW on \in BOOLEAN, NEW s \in State, ~IsStarted(s),
           StartIfNeeded(on, s, pipeline'), network' = on,
           ~on => pipeline' = << >>, Disconnected
    PROVE  Started' /\ Connected' /\ Sent'
<1>1. /\ on /\ pipeline' # << >> => IsStarted(stream')
      /\ IsStarted(stream') => on /\ pipeline' # << >>
      /\ stream' # "Open"
  BY StartFacts DEF IsStarted
<1>2. idle' = FALSE
  BY DEF Disconnected
<1> QED
  BY <1>1, <1>2, SilentStream DEF Started

\* An empty pipeline is filled from the start of the queue.
LEMMA FreshFill ==
    ASSUME PipelineAssumption, TypeOK, Stored, NEW u \in Users
    PROVE  /\ Fill(<< >>, queue[u]) \in Seq(Batch)
           /\ IsOldest(Fill(<< >>, queue[u]), queue[u])
<1>1. queue[u] \in Seq(Batch) /\ Grows(queue[u]) /\ Len(queue[u]) \in Nat
  BY QueueTypes
<1>2. /\ << >> \in Seq(Batch) /\ Prefix(<< >>, queue[u])
      /\ Len(<< >>) <= MaxPendingWrites
  BY <1>1 DEF Prefix, PipelineAssumption
<1> QED
  BY <1>1, <1>2, FillFacts

\* LoadNextBatchIdFromDb: above all ids on disk.
LEMMA Renumbered ==
    ASSUME TypeOK, Stored, nextId' = NextIdOf(queue) + 1,
           UNCHANGED <<queue, issued>>
    PROVE  nextId' \in Nat /\ Stored'
<1>1. Len(issued) \in Nat /\ nextId \in 1..(Len(issued) + 1)
  BY DEF TypeOK, Stored
<1>2. \A u \in Users : /\ queue[u] \in Seq(Batch)
                       /\ \A i \in 1..Len(queue[u]) : queue[u][i].id \in 0..Len(issued)
  <2> TAKE u \in Users
  <2>1. queue[u] \in Seq(Batch)
    BY DEF TypeOK
  <2>2. ASSUME NEW i \in 1..Len(queue[u]) PROVE queue[u][i].id \in 0..Len(issued)
    <3>1. queue[u][i].id \in 1..(nextId - 1)
      BY DEF Stored
    <3> QED
      BY <1>1, <3>1
  <2> QED
    BY <2>1, <2>2
<1>3. /\ NextIdOf(queue) \in 0..Len(issued)
      /\ \A u \in Users : \A i \in 1..Len(queue[u]) : queue[u][i].id <= NextIdOf(queue)
  BY <1>1, <1>2, NextIdFacts
<1>4. nextId' \in Nat /\ nextId' \in 1..(Len(issued) + 1)
  BY <1>1, <1>3
<1>5. ASSUME NEW u \in Users, NEW i \in 1..Len(queue[u])
      PROVE  queue[u][i].id \in 1..(nextId' - 1)
  <2>1. queue[u][i].id \in 1..(nextId - 1) /\ queue[u][i].id <= NextIdOf(queue)
    BY <1>3 DEF Stored
  <2> QED
    BY <1>1, <1>3, <2>1
<1> QED
  BY <1>4, <1>5 DEF Stored

\* The network is switched off.
LEMMA DisableKeeps ==
    ASSUME PipelineAssumption, IndInv, DisableNetwork
    PROVE  IndInv'
<1>1. TypeOK /\ Stored /\ Tokens /\ Credentials
  BY DEF IndInv
<1>2. /\ events' \in 0..MaxEvents /\ network' = FALSE /\ Stop
      /\ StartIfNeeded(FALSE, StateAfterStop, << >>)
      /\ UNCHANGED <<authVars, user, appVars, token, diskVars, serverVars,
                   issued, told>>
  BY <1>1, Counted DEF DisableNetwork
<1>3. /\ closes' \in Nat /\ Disconnected
      /\ StateAfterStop \in State /\ ~IsStarted(StateAfterStop)
      /\ AuthInv(authUser, counter, asked, mainQueue, inbox, user, closes',
                 StateAfterStop)
  BY <1>1, <1>2, StopFacts
<1>4. pipeline' = << >> /\ stream' \in State
  BY <1>2, <1>3, StartFacts
<1>5. /\ asked' \in SUBSET Request
      /\ AuthInv(authUser, counter, asked', mainQueue, inbox, user, closes', stream')
  BY <1>1, <1>2, <1>3, AuthTypes, StartAuth
<1>6. TypeOK'
  <2>1. << >> \in Seq(Batch)
    OBVIOUS
  <2> QED
    BY <1>1, <1>2, <1>3, <1>4, <1>5, <2>1, DisconnectedTypes
    DEF TypeOK, State, authVars, appVars, diskVars, serverVars
<1>7. Started' /\ Connected' /\ Sent'
  BY <1>2, <1>3, <1>4, StartedAnew
<1>8. Credentials'
  BY <1>2, <1>5 DEF Credentials, authVars
<1>9. Stored' /\ Piped' /\ Tokens'
  BY <1>1, <1>2, <1>4, StoredStill DEF Piped, Tokens, diskVars
<1> QED
  BY <1>6, <1>7, <1>8, <1>9 DEF IndInv

\* The idle timer elapses.
LEMMA IdleKeeps ==
    ASSUME IndInv, IdleElapses
    PROVE  IndInv'
<1>1. TypeOK /\ Stored /\ Piped /\ Tokens /\ Credentials /\ Started /\ Connected
  BY DEF IndInv
<1>2. /\ idle /\ Stop /\ StartIfNeeded(network, StateAfterStop, pipeline)
      /\ UNCHANGED <<authVars, user, network, appVars, token, diskVars,
                   serverVars, issued, told, events>>
  BY DEF IdleElapses
<1>3. /\ closes' \in Nat /\ Disconnected
      /\ StateAfterStop \in State /\ ~IsStarted(StateAfterStop)
      /\ AuthInv(authUser, counter, asked, mainQueue, inbox, user, closes',
                 StateAfterStop)
  BY <1>1, <1>2, StopFacts
<1>4. network \in BOOLEAN /\ pipeline \in Seq(Batch)
  BY <1>1 DEF TypeOK
<1>5. pipeline' = pipeline /\ stream' \in State
  BY <1>2, <1>3, <1>4, StartFacts
<1>6. /\ asked' \in SUBSET Request
      /\ AuthInv(authUser, counter, asked', mainQueue, inbox, user, closes', stream')
  BY <1>1, <1>2, <1>3, <1>4, AuthTypes, StartAuth
<1>7. TypeOK'
  BY <1>1, <1>2, <1>3, <1>5, <1>6, DisconnectedTypes
  DEF TypeOK, State, authVars, appVars, diskVars, serverVars
<1>8. Started' /\ Connected' /\ Sent'
  <2>1. ~network => pipeline' = << >>
    BY <1>1, <1>5 DEF Piped
  <2>2. StartIfNeeded(network, StateAfterStop, pipeline')
    BY <1>2, <1>5
  <2>3. network' = network
    BY <1>2
  <2> QED
    BY <1>3, <1>4, <2>1, <2>2, <2>3, StartedAnew
<1>9. Credentials'
  BY <1>2, <1>6 DEF Credentials, authVars
<1>10. Stored' /\ Piped' /\ Tokens'
  BY <1>1, <1>2, <1>5, StoredStill, PipedStill DEF Tokens, diskVars
<1> QED
  BY <1>7, <1>8, <1>9, <1>10 DEF IndInv

\* The process ends and starts again.
LEMMA RestartKeeps ==
    ASSUME PipelineAssumption, IndInv, Restart
    PROVE  IndInv'
<1> DEFINE p == Fill(<< >>, queue[authUser])
           new == [counter |-> 0, closes |-> 0, owner |-> Nobody]
<1>1. TypeOK /\ Stored /\ Tokens
  BY DEF IndInv
<1>2. /\ events' \in 0..MaxEvents
      /\ counter' = 0 /\ mainQueue' = << >> /\ inbox' = << >>
      /\ user' = authUser /\ network' = TRUE /\ callbacks' = {} /\ waiters' = {}
      /\ nextId' = NextIdOf(queue) + 1 /\ closes' = 0
      /\ token' = saved[authUser] /\ Disconnected
      /\ pipeline' = p
      /\ stream' = IF p = << >> THEN "Initial" ELSE "Starting"
      /\ asked' = IF p = << >> THEN {} ELSE {new}
      /\ UNCHANGED <<authUser, queue, saved, serverVars, issued, told>>
  BY <1>1, Counted DEF Restart
<1>3. p \in Seq(Batch) /\ IsOldest(p, queue[authUser]) /\ authUser \in Users
  BY <1>1, AuthTypes, FreshFill
<1> HIDE DEF p
<1>4. nextId' \in Nat /\ Stored'
  BY <1>1, <1>2, Renumbered
<1>5. asked' \in SUBSET Request
  BY <1>2 DEF Request
<1>6. TypeOK'
  <2>1. << >> \in Seq(Block) /\ << >> \in Seq(Task)
    OBVIOUS
  <2> QED
    BY <1>1, <1>2, <1>3, <1>4, <1>5, <2>1, DisconnectedTypes
    DEF TypeOK, serverVars
<1>7. Credentials'
  <2>1. /\ << >> \in Seq(Block) /\ << >> \in Seq(Task) /\ {} \in SUBSET Request
        /\ 0 \in Nat
    OBVIOUS
  <2>2. \A st : AuthInv(authUser, 0, {}, << >>, << >>, authUser, 0, st)
    BY <1>3, <2>1, AuthStart
  <2>3. NoneDue({}, << >>, << >>, 0)
    <3>1. Len(<< >>) = 0
      OBVIOUS
    <3> QED
      BY <3>1 DEF NoneDue
  <2>4. AuthInv(authUser, 0, {} \cup {new}, << >>, << >>, authUser, 0, "Starting")
    BY <1>3, <2>1, <2>2, <2>3, AuthAsk
  <2>5. {} \cup {new} = {new}
    OBVIOUS
  <2> HIDE DEF new
  <2> QED
    BY <1>2, <2>2, <2>4, <2>5 DEF Credentials
<1>8. Started' /\ Connected' /\ Sent'
  <2>1. stream' # "Open"
    BY <1>2
  <2>2. Started'
    BY <1>2, DisconnectedTypes DEF Started, IsStarted
  <2> QED
    BY <1>2, <2>1, <2>2, SilentStream
<1>9. Piped' /\ Tokens'
  BY <1>1, <1>2, <1>3 DEF Piped, Tokens
<1> QED
  BY <1>4, <1>6, <1>7, <1>8, <1>9 DEF IndInv

\* The client takes up another user.
LEMMA UserChangeKeeps ==
    ASSUME PipelineAssumption, IndInv, HandleCredentialChange
    PROVE  IndInv'
<1> DEFINE v == Head(inbox).user
           p == Fill(<< >>, queue[v])
<1>1. /\ TypeOK /\ Stored /\ Piped /\ Started /\ Connected /\ Sent /\ Tokens
      /\ Credentials
  BY DEF IndInv
<1>2. /\ inbox # << >> /\ Head(inbox).kind = "user" /\ inbox' = Tail(inbox)
      /\ user' = v
      /\ waiters' \subseteq waiters
      /\ nextId' = nextId \/ nextId' = NextIdOf(queue) + 1
      /\ UNCHANGED <<authUser, counter, mainQueue, network, callbacks, queue,
                   saved, serverVars, issued, told, events>>
  BY DEF HandleCredentialChange
<1>3. /\ v \in Users /\ inbox' \in Seq(Task)
  <2>1. Head(inbox) \in Task /\ inbox' \in Seq(Task)
    BY <1>1, <1>2, AuthTypes, TailFacts
  <2> QED
    BY <1>2, <2>1, TaskFacts
<1>4. nextId' \in Nat /\ Stored'
  <2>1. CASE nextId' = nextId
    BY <1>1, <1>2, <2>1, StoredStill DEF TypeOK
  <2>2. CASE nextId' = NextIdOf(queue) + 1
    BY <1>1, <1>2, <2>2, Renumbered
  <2> QED
    BY <1>2, <2>1, <2>2
<1>5. p \in Seq(Batch) /\ IsOldest(p, queue[v])
  BY <1>1, <1>3, FreshFill
<1>6. CASE network
  <2>1. /\ Stop /\ token' = saved[v] /\ StartIfNeeded(TRUE, StateAfterStop, p)
    BY <1>2, <1>6 DEF HandleCredentialChange
  <2> HIDE DEF p, v
  <2>2. /\ closes' \in Nat /\ Disconnected
        /\ StateAfterStop \in State /\ ~IsStarted(StateAfterStop)
        /\ AuthInv(authUser, counter, asked, mainQueue, inbox, user, closes',
                   StateAfterStop)
        /\ NoneDue(asked, mainQueue, inbox, closes')
    BY <1>1, <2>1, StopFacts
  <2>3. AuthInv(authUser, counter, asked, mainQueue, inbox', v, closes',
                StateAfterStop)
    BY <1>1, <1>2, <2>2, AuthTypes, AuthPop DEF v
  <2>4. pipeline' = p /\ stream' \in State
    BY <2>1, <2>2, StartFacts
  <2>5. /\ asked' \in SUBSET Request
        /\ AuthInv(authUser, counter, asked', mainQueue, inbox', v, closes', stream')
    BY <1>1, <1>3, <2>1, <2>2, <2>3, AuthTypes, StartAuth
  <2>6. TypeOK'
    BY <1>1, <1>2, <1>3, <1>4, <1>5, <2>1, <2>2, <2>4, <2>5, DisconnectedTypes
    DEF TypeOK, State, serverVars
  <2>7. Started' /\ Connected' /\ Sent'
    BY <1>2, <1>6, <2>1, <2>2, <2>4, StartedAnew
  <2>8. Credentials'
    BY <1>2, <2>5 DEF Credentials
  <2>9. Piped' /\ Tokens'
    BY <1>1, <1>2, <1>3, <1>5, <1>6, <2>1, <2>4 DEF Piped, Tokens
  <2> QED
    BY <1>4, <2>6, <2>7, <2>8, <2>9 DEF IndInv
<1>7. CASE ~network
  <2>1. UNCHANGED <<stream, handshake, idle, closes, token, asked,
                    pipeline, connVars>>
    BY <1>7 DEF HandleCredentialChange
  <2>2. ~IsStarted(stream)
    BY <1>1, <1>7 DEF Started
  <2>3. NoneDue(asked, mainQueue, inbox, closes)
    BY <1>1, <2>2 DEF Credentials, AuthInv, Requested, IsStarted
  <2> HIDE DEF p, v
  <2>4. AuthInv(authUser, counter, asked, mainQueue, inbox', v, closes, stream)
    BY <1>1, <1>2, <2>3, AuthTypes, AuthPop DEF v, Credentials
  <2>5. TypeOK'
    BY <1>1, <1>2, <1>3, <1>4, <2>1 DEF TypeOK, serverVars, connVars
  <2>6. Started' /\ Connected' /\ Sent'
    BY <1>1, <1>2, <1>7, <2>1, <2>2
    DEF Started, Connected, Sent, IsStarted, connVars
  <2>7. Credentials'
    BY <1>2, <2>1, <2>4 DEF Credentials
  <2>8. Piped' /\ Tokens'
    BY <1>1, <1>2, <1>7, <2>1 DEF Piped, Tokens
  <2> QED
    BY <1>4, <2>5, <2>6, <2>7, <2>8 DEF IndInv
<1> QED
  BY <1>6, <1>7

\* The stream opens with the token of the client's user.
LEMMA OpenKeeps ==
    ASSUME IndInv, OpenStream
    PROVE  IndInv'
<1>1. /\ TypeOK /\ Stored /\ Piped /\ Started /\ Connected /\ Sent /\ Tokens
      /\ Credentials
  BY DEF IndInv
<1>2. /\ inbox # << >> /\ Answers(Head(inbox), closes)
      /\ Head(inbox).status = "ok"
      /\ inbox' = Tail(inbox) /\ stream' = "Open"
      /\ creds' = Head(inbox).owner /\ up' = <<Hello>>
      /\ UNCHANGED <<authUser, counter, asked, mainQueue, user, network,
                   pipeline, appVars, handshake, idle, closes, token,
                   diskVars, down, closing, behind, serverVars, issued, told,
                   events>>
  BY DEF OpenStream, Current, Answered, Answers
<1>3. stream = "Starting" /\ Head(inbox).owner = user
  BY <1>1, <1>2, AuthTypes, AuthHead DEF Credentials
<1>4. /\ AuthInv(authUser, counter, asked, mainQueue, inbox', user, closes, stream)
      /\ NoneDue(asked, mainQueue, inbox', closes)
  BY <1>1, <1>2, AuthTypes, AuthPop DEF Credentials, Answers
<1>5. Credentials'
  BY <1>2, <1>4, AuthState DEF Credentials
<1>6. inbox' \in Seq(Task) /\ user \in Users /\ up' \in Seq(Batch)
  BY <1>1, <1>2, AuthTypes, TailFacts, HelloFacts
<1>7. TypeOK'
  BY <1>1, <1>2, <1>3, <1>6 DEF TypeOK, appVars, diskVars, serverVars
<1>8. Started'
  BY <1>1, <1>2, <1>3 DEF Started, Connected, IsStarted
<1>9. Connected' /\ Sent'
  BY <1>1, <1>2, <1>3 DEF Connected, Sent, Greeting
<1> QED
  BY <1>1, <1>2, <1>5, <1>7, <1>8, <1>9, StoredStill, PipedStill, TokensStill
  DEF IndInv, diskVars

-----------------------------------------------------------------------------
(* Answers to writes.                                                      *)

\* A queue without its first batch still grows.
LEMMA TailGrows ==
    ASSUME NEW q \in Seq(Batch), q # << >>, Grows(q)
    PROVE  Grows(Tail(q))
<1> DEFINE r == Tail(q)
<1>1. /\ Len(q) \in Nat /\ Len(r) = Len(q) - 1
      /\ \A i \in 1..Len(r) : r[i] = q[i + 1]
  BY TailFacts
<1> HIDE DEF r
<1>2. \A i \in 1..Len(r) : i + 1 \in 1..Len(q) /\ r[i] = q[i + 1]
  BY <1>1
<1>3. \A i, j \in 1..Len(r) : i < j => i + 1 < j + 1
  BY <1>1
<1>4. Grows(r)
  BY <1>2, <1>3 DEF Grows
<1> QED
  BY <1>4 DEF r

\* Without their first batch a front is still the front of its queue.
LEMMA TailPrefix ==
    ASSUME NEW p \in Seq(Batch), NEW q \in Seq(Batch), p # << >>, Prefix(p, q)
    PROVE  /\ q # << >> /\ Head(q) = Head(p)
           /\ Prefix(Tail(p), Tail(q))
<1>1. Len(p) \in Nat /\ Len(q) \in Nat /\ Len(p) > 0 /\ Len(q) > 0
  BY EmptyLen DEF Prefix
<1>2. q # << >>
  BY <1>1, EmptyLen
<1>3. /\ Head(p) = p[1] /\ Head(q) = q[1]
      /\ Len(Tail(p)) = Len(p) - 1 /\ Len(Tail(q)) = Len(q) - 1
      /\ \A i \in 1..(Len(p) - 1) : Tail(p)[i] = p[i + 1]
      /\ \A i \in 1..(Len(q) - 1) : Tail(q)[i] = q[i + 1]
  BY <1>2, TailFacts
<1>4. p[1] = q[1]
  BY <1>1 DEF Prefix
<1>5. Len(Tail(p)) <= Len(Tail(q))
  BY <1>1, <1>3 DEF Prefix
<1>6. ASSUME NEW i \in 1..Len(Tail(p)) PROVE Tail(p)[i] = Tail(q)[i]
  <2>1. i \in 1..(Len(p) - 1) /\ i \in 1..(Len(q) - 1) /\ i + 1 \in 1..Len(p)
    BY <1>1, <1>3, <1>5
  <2>2. p[i + 1] = q[i + 1]
    BY <2>1 DEF Prefix
  <2> QED
    BY <1>3, <2>1, <2>2
<1> QED
  BY <1>2, <1>3, <1>4, <1>5, <1>6 DEF Prefix

\* Settle: the first batch leaves its queue, and the pipeline's rest is the
\* front of what is left.
LEMMA SettleFacts ==
    ASSUME TypeOK, Stored, Piped, network, pipeline # << >>,
           NEW outcome \in {"ok", "failed"},
           Settle(Head(pipeline).id, outcome), UNCHANGED <<nextId, issued>>
    PROVE  /\ queue[user] # << >> /\ Head(queue[user]) = Head(pipeline)
           /\ queue' \in [Users -> Seq(Batch)]
           /\ queue'[user] = Tail(queue[user])
           /\ \A u \in Users \ {user} : queue'[u] = queue[u]
           /\ callbacks' \subseteq Callback /\ waiters' \subseteq Waiter
           /\ told' \in [1..MaxWrites -> {"nothing", "ok", "failed"}]
           /\ Tail(pipeline) \in Seq(Batch)
           /\ Len(Tail(pipeline)) <= MaxPendingWrites
           /\ Prefix(Tail(pipeline), queue'[user])
           /\ Grows(queue'[user])
           /\ Stored'
<1> DEFINE q == queue[user]
<1>1. /\ user \in Users /\ q \in Seq(Batch) /\ Grows(q)
      /\ pipeline \in Seq(Batch) /\ Len(pipeline) \in Nat
      /\ Prefix(pipeline, q) /\ Len(pipeline) <= MaxPendingWrites
      /\ queue \in [Users -> Seq(Batch)]
  <2>1. user \in Users
    BY DEF TypeOK
  <2> QED
    BY <2>1, PipeTypes, QueueTypes DEF TypeOK
<1>2. /\ q # << >> /\ Head(q) = Head(pipeline)
      /\ Prefix(Tail(pipeline), Tail(q))
  BY <1>1, TailPrefix
<1>3. Without(q, Head(pipeline).id) = Tail(q) /\ Tail(q) \in Seq(Batch)
  BY <1>1, <1>2, WithoutHead, TailFacts
<1>4. /\ queue' \in [Users -> Seq(Batch)]
      /\ queue'[user] = Tail(q)
      /\ \A u \in Users \ {user} : queue'[u] = queue[u]
  <2>1. queue' = [queue EXCEPT ![user] = Without(queue[user], Head(pipeline).id)]
    BY DEF Settle
  <2> HIDE DEF q
  <2>2. queue' = [queue EXCEPT ![user] = Tail(q)]
    BY <1>3, <2>1 DEF q
  <2> QED
    BY <1>1, <1>3, <2>2
<1>5. /\ callbacks' \subseteq Callback /\ waiters' \subseteq Waiter
      /\ told' \in [1..MaxWrites -> {"nothing", "ok", "failed"}]
  <2>1. /\ callbacks \subseteq Callback /\ waiters \subseteq Waiter
        /\ told \in [1..MaxWrites -> {"nothing", "ok", "failed"}]
    BY DEF TypeOK
  <2>2. /\ callbacks' \subseteq callbacks /\ waiters' \subseteq waiters
    BY DEF Settle
  <2>3. told' = [w \in 1..MaxWrites |->
                   IF \E c \in Called(Head(pipeline).id) : c.write = w
                   THEN outcome ELSE told[w]]
    BY DEF Settle
  <2>4. \A w \in 1..MaxWrites :
            (IF \E c \in Called(Head(pipeline).id) : c.write = w
             THEN outcome ELSE told[w]) \in {"nothing", "ok", "failed"}
    BY <2>1
  <2>5. told' \in [1..MaxWrites -> {"nothing", "ok", "failed"}]
    BY <2>3, <2>4
  <2> QED
    BY <2>1, <2>2, <2>5
<1>6. Tail(pipeline) \in Seq(Batch) /\ Len(Tail(pipeline)) <= MaxPendingWrites
  <2>1. Tail(pipeline) \in Seq(Batch) /\ Len(Tail(pipeline)) = Len(pipeline) - 1
        /\ Len(pipeline) > 0
    BY <1>1, TailFacts
  <2>2. MaxPendingWrites \in Nat
    BY PipelineAssumption DEF PipelineAssumption
  <2> QED
    BY <1>1, <2>1, <2>2
<1>7. Grows(Tail(q))
  BY <1>1, <1>2, TailGrows
<1>8. Stored'
  <2>1. /\ Len(q) \in Nat /\ Len(q) > 0 /\ Len(Tail(q)) = Len(q) - 1
        /\ \A i \in 1..(Len(q) - 1) : Tail(q)[i] = q[i + 1]
    BY <1>1, <1>2, TailFacts
  <2>2. \A i \in 1..Len(Tail(q)) : i + 1 \in 1..Len(q) /\ Tail(q)[i] = q[i + 1]
    BY <2>1
  <2> HIDE DEF q
  <2>3. ASSUME NEW u \in Users
        PROVE  /\ Grows(queue'[u])
               /\ \A i \in 1..Len(queue'[u]) :
                  /\ queue'[u][i].id \in 1..(nextId - 1)
                  /\ queue'[u][i].write \in 1..Len(issued)
                  /\ issued[queue'[u][i].write] = u
    <3>0. /\ Grows(queue[u])
          /\ \A i \in 1..Len(queue[u]) :
                 /\ queue[u][i].id \in 1..(nextId - 1)
                 /\ queue[u][i].write \in 1..Len(issued)
                 /\ issued[queue[u][i].write] = u
      BY DEF Stored
    <3>1. CASE u = user
      <4>1. queue[u] = q /\ queue'[u] = Tail(q)
        BY <1>4, <3>1 DEF q
      <4>2. \A i \in 1..Len(queue'[u]) : /\ i + 1 \in 1..Len(queue[u])
                                         /\ queue'[u][i] = queue[u][i + 1]
        BY <2>2, <4>1
      <4>3. Grows(queue'[u])
        BY <1>7, <4>1 DEF q
      <4> QED
        BY <3>0, <4>2, <4>3
    <3>2. CASE u # user
      <4>1. queue'[u] = queue[u]
        BY <1>4, <3>2
      <4> QED
        BY <3>0, <4>1
    <3> QED
      BY <3>1, <3>2
  <2> QED
    BY <2>3 DEF Stored
<1> QED
  BY <1>2, <1>3, <1>4, <1>5, <1>6, <1>7, <1>8

\* OnStreamFinish.
LEMMA FinishKeeps ==
    ASSUME PipelineAssumption, IndInv, NEW e \in Error, IsStarted(stream),
           OnStreamFinish(e), inbox' \in Seq(Task), events' \in 0..MaxEvents,
           AuthInv(authUser, counter, asked, mainQueue, inbox', user, closes, stream)
    PROVE  IndInv'
<1> DEFINE blamed == handshake /\ pipeline # << >> /\ IsPermanentWriteError(e)
           stale  == ~handshake /\ pipeline # << >> /\ IsPermanentError(e)
<1>1. /\ TypeOK /\ Stored /\ Piped /\ Started /\ Tokens /\ network
  BY DEF IndInv, Started
<1>2. /\ closes' = closes + 1 /\ Disconnected
      /\ token' = IF stale THEN Nobody ELSE token
      /\ saved' = IF stale THEN [saved EXCEPT ![user] = Nobody] ELSE saved
      /\ blamed => /\ Settle(Head(pipeline).id, "failed")
                   /\ StartIfNeeded(network, "Initial",
                                    Fill(Tail(pipeline), queue'[user]))
      /\ ~blamed => /\ StartIfNeeded(network, "Error", pipeline)
                    /\ UNCHANGED <<queue, callbacks, told, waiters>>
      /\ UNCHANGED <<authUser, counter, mainQueue, user, network, nextId,
                       serverVars, issued>>
  BY DEF OnStreamFinish
<1>3. pipeline \in Seq(Batch) /\ user \in Users
  BY <1>1 DEF TypeOK
<1>4. PICK s \in {"Initial", "Error"} :
          /\ StartIfNeeded(TRUE, s, pipeline')
          /\ pipeline' \in Seq(Batch) /\ IsOldest(pipeline', queue'[user])
          /\ queue' \in [Users -> Seq(Batch)] /\ Stored'
          /\ callbacks' \subseteq Callback /\ waiters' \subseteq Waiter
          /\ told' \in [1..MaxWrites -> {"nothing", "ok", "failed"}]
  <2>1. CASE blamed
    <3> DEFINE p == Fill(Tail(pipeline), queue'[user])
    <3>1. /\ queue' \in [Users -> Seq(Batch)] /\ Stored'
          /\ callbacks' \subseteq Callback /\ waiters' \subseteq Waiter
          /\ told' \in [1..MaxWrites -> {"nothing", "ok", "failed"}]
          /\ Tail(pipeline) \in Seq(Batch)
          /\ Len(Tail(pipeline)) <= MaxPendingWrites
          /\ Prefix(Tail(pipeline), queue'[user])
          /\ Grows(queue'[user])
      BY <1>1, <1>2, <2>1, SettleFacts
    <3>2. p \in Seq(Batch) /\ IsOldest(p, queue'[user])
      BY <1>3, <3>1, FillFacts
    <3> HIDE DEF p
    <3>3. StartIfNeeded(network, "Initial", p)
      BY <1>2, <2>1 DEF p
    <3>4. pipeline' = p /\ network = TRUE
      BY <1>1, <3>3 DEF StartIfNeeded, TypeOK
    <3> QED
      BY <3>1, <3>2, <3>3, <3>4
  <2>2. CASE ~blamed
    <3>1. StartIfNeeded(network, "Error", pipeline) /\ Stored'
      BY <1>1, <1>2, <2>2, StoredStill
    <3>2. pipeline' = pipeline /\ network = TRUE
      BY <1>1, <3>1 DEF StartIfNeeded, TypeOK
    <3> QED
      BY <1>1, <1>2, <1>3, <2>2, <3>1, <3>2 DEF TypeOK, Piped
  <2> QED
    BY <2>1, <2>2
<1>5. s \in State /\ ~IsStarted(s)
  BY DEF State, IsStarted
<1>6. closes' \in Nat
  BY <1>1, <1>2, AuthTypes
<1>7. AuthInv(authUser, counter, asked, mainQueue, inbox', user, closes', s)
  BY <1>1, <1>2, AuthTypes, AuthClose
<1>8. /\ asked' \in SUBSET Request
      /\ AuthInv(authUser, counter, asked', mainQueue, inbox', user, closes', stream')
  BY <1>1, <1>4, <1>5, <1>6, <1>7, AuthTypes, StartAuth
<1>9. stream' \in State
  BY <1>4, <1>5, StartFacts
<1>10. /\ saved' \in [Users -> Users \cup {Nobody}] /\ token' \in Users \cup {Nobody}
       /\ Tokens'
  BY <1>1, <1>2, <1>3 DEF TypeOK, Tokens
<1>11. TypeOK'
  BY <1>1, <1>2, <1>4, <1>6, <1>8, <1>9, <1>10, DisconnectedTypes
  DEF TypeOK, State, serverVars
<1>12. Started' /\ Connected' /\ Sent'
  BY <1>1, <1>2, <1>4, <1>5, StartedAnew
<1>13. Credentials'
  BY <1>2, <1>8 DEF Credentials
<1>14. Piped'
  BY <1>1, <1>2, <1>4 DEF Piped
<1> QED
  BY <1>4, <1>10, <1>11, <1>12, <1>13, <1>14 DEF IndInv

\* The stream cannot be opened.
LEMMA RequestFailsKeeps ==
    ASSUME PipelineAssumption, IndInv, RequestFails
    PROVE  IndInv'
<1>1. TypeOK /\ Credentials
  BY DEF IndInv
<1>2. /\ inbox # << >> /\ Answers(Head(inbox), closes)
      /\ Head(inbox).kind = "token" /\ Head(inbox).status # "ok"
      /\ inbox' = Tail(inbox) /\ OnStreamFinish(Head(inbox).status)
      /\ events' = events
  BY DEF RequestFails, Current, Answered, Answers
<1>3. stream = "Starting"
  BY <1>1, <1>2, AuthTypes, AuthHead DEF Credentials
<1>4. AuthInv(authUser, counter, asked, mainQueue, inbox', user, closes, stream)
  BY <1>1, <1>2, AuthTypes, AuthPop DEF Credentials
<1>5. inbox' \in Seq(Task) /\ Head(inbox) \in Task
  BY <1>1, <1>2, AuthTypes, TailFacts
<1>6. Head(inbox).status \in Error
  BY <1>2, <1>5, TaskFacts
<1>7. IsStarted(stream) /\ events' \in 0..MaxEvents
  BY <1>1, <1>2, <1>3 DEF IsStarted, TypeOK
<1> QED
  BY <1>2, <1>4, <1>5, <1>6, <1>7, FinishKeeps

\* An open stream ends.
LEMMA StreamFinishesKeeps ==
    ASSUME PipelineAssumption, IndInv, StreamFinishes
    PROVE  IndInv'
<1>1. TypeOK /\ Credentials
  BY DEF IndInv
<1>2. /\ stream = "Open" /\ closing # "ok" /\ OnStreamFinish(closing)
      /\ UNCHANGED <<inbox, events>>
  BY DEF StreamFinishes
<1>3. closing \in Error /\ IsStarted(stream)
  BY <1>1, <1>2 DEF TypeOK, IsStarted
<1>4. inbox' \in Seq(Task) /\ events' \in 0..MaxEvents
  BY <1>1, <1>2 DEF TypeOK
<1> QED
  BY <1>1, <1>2, <1>3, <1>4, FinishKeeps DEF Credentials

-----------------------------------------------------------------------------
(* The start, the handshake and the results.                               *)

\* The client as it is first started.
LEMMA InitHolds ==
    ASSUME PipelineAssumption, Init
    PROVE  IndInv
<1>1. /\ FirstUser \in Users /\ MaxWrites \in Nat /\ MaxEvents \in Nat
  BY DEF PipelineAssumption
<1>2. TypeOK
  <2>1. told \in [1..MaxWrites -> {"nothing", "ok", "failed"}]
    BY DEF Init
  <2>2. last \in [Users -> 0..MaxWrites]
    BY <1>1 DEF Init
  <2>3. queue \in [Users -> Seq(Batch)] /\ saved \in [Users -> Users \cup {Nobody}]
    BY DEF Init
  <2>4. /\ mainQueue \in Seq(Block) /\ inbox \in Seq(Task)
        /\ pipeline \in Seq(Batch) /\ up \in Seq(Batch) /\ down \in Seq(Batch)
        /\ issued \in Seq(Users) /\ Len(issued) <= MaxWrites
    BY <1>1 DEF Init
  <2>5. /\ asked \subseteq Request /\ callbacks \subseteq Callback
        /\ waiters \subseteq Waiter
        /\ committed \subseteq 1..MaxWrites /\ refused \subseteq 1..MaxWrites
    BY DEF Init
  <2>6. /\ authUser \in Users /\ user \in Users
        /\ counter \in Nat /\ closes \in Nat /\ nextId \in Nat
        /\ events \in 0..MaxEvents
    BY <1>1 DEF Init
  <2>7. /\ network \in BOOLEAN /\ handshake \in BOOLEAN /\ idle \in BOOLEAN
        /\ behind \in BOOLEAN
        /\ stream \in {"Initial", "Starting", "Open", "Backoff", "Error"}
        /\ token \in Users \cup {Nobody} /\ creds \in Users \cup {Nobody}
        /\ closing \in Error \cup {"ok"}
    BY DEF Init
  <2> QED
    BY <2>1, <2>2, <2>3, <2>4, <2>5, <2>6, <2>7 DEF TypeOK
<1>3. \A u \in Users : queue[u] = << >>
  BY DEF Init
<1>4. Stored
  BY <1>3 DEF Init, Stored, Grows
<1>5. Piped
  <2>1. network /\ pipeline = << >> /\ queue[user] = << >>
    BY <1>1, <1>3 DEF Init
  <2>2. MaxPendingWrites \in Nat
    BY DEF PipelineAssumption
  <2> QED
    BY <2>1, <2>2 DEF Piped, IsOldest, Prefix
<1>6. Started /\ Connected /\ Sent /\ Tokens
  BY DEF Init, Started, Connected, Sent, Tokens, IsStarted
<1>7. Credentials
  BY <1>1, AuthStart DEF Init, Credentials
<1> QED
  BY <1>2, <1>4, <1>5, <1>6, <1>7 DEF IndInv

\* The handshake is complete, the pipeline is sent.
LEMMA HandshakeKeeps ==
    ASSUME IndInv, HandshakeCompletes
    PROVE  IndInv'
<1>1. TypeOK /\ Stored /\ Piped /\ Started /\ Connected /\ Sent /\ Tokens /\ Credentials
  BY DEF IndInv
<1>2. /\ stream = "Open" /\ down # << >> /\ ~handshake
      /\ down' = Tail(down) /\ behind' = (behind \/ (closing # "ok" /\ up # << >>))
      /\ handshake' = TRUE /\ token' = creds
      /\ saved' = [saved EXCEPT ![user] = creds]
      /\ up' = up \o pipeline /\ idle' = (idle /\ pipeline = << >>)
      /\ UNCHANGED <<authVars, asked, user, network, pipeline, appVars, stream,
                   closes, nextId, queue, creds, closing, serverVars, issued,
                   told, events>>
  BY DEF HandshakeCompletes
<1>3. /\ pipeline \in Seq(Batch) /\ Len(pipeline) \in Nat /\ user \in Users
      /\ up \in Seq(Batch) /\ down \in Seq(Batch) /\ creds = user
      /\ pipeline # << >> /\ Len(pipeline) > 0
  <2>1. creds = user /\ pipeline # << >>
    BY <1>1, <1>2 DEF Connected, Started, IsStarted
  <2> QED
    BY <1>1, <2>1, EmptyLen DEF TypeOK
<1>4. down = <<Hello>> /\ (closing = "ok" => up = << >>)
  BY <1>1, <1>2 DEF Sent, Greeting
<1>5. down' = << >> /\ Len(down') = 0 /\ Prefix(down', pipeline)
  BY <1>2, <1>3, <1>4 DEF Prefix
<1>6. up' \in Seq(Batch) /\ down' \in Seq(Batch)
  BY <1>2, <1>3, <1>5, ConcatProperties
<1>7. closing = "ok" => up' = pipeline
  BY <1>2, <1>3, <1>4, ConcatEmptySeq
<1>8. TypeOK'
  BY <1>1, <1>2, <1>3, <1>6 DEF TypeOK, authVars, appVars, serverVars
<1>9. Stored' /\ Piped'
  BY <1>1, <1>2, StoredStill, PipedStill
<1>10. Started'
  BY <1>1, <1>2 DEF Started
<1>11. Connected'
  BY <1>1, <1>2 DEF Connected
<1>12. Sent'
  <2>1. closing' = "ok" => OnTheWay(down', up', pipeline')
    <3>1. ASSUME closing = "ok" PROVE OnTheWay(down', pipeline, pipeline)
      <4>1. \A i \in 1..Len(pipeline) : Len(down') + i = i
        BY <1>3, <1>5
      <4>2. Len(pipeline) = Len(down') + Len(pipeline)
        BY <1>3, <1>5
      <4>3. \A i \in 1..Len(down') : down'[i] = pipeline[i]
        BY <1>5 DEF Prefix
      <4> QED
        BY <4>1, <4>2, <4>3 DEF OnTheWay
    <3> QED
      BY <1>2, <1>7, <3>1
  <2>2. Prefix(down', pipeline')
    BY <1>2, <1>5
  <2> QED
    BY <1>2, <2>1, <2>2 DEF Sent
<1>13. Tokens'
  BY <1>1, <1>2, <1>3 DEF Tokens, TypeOK
<1>14. Credentials'
  BY <1>1, <1>2, CredentialsStill
<1> QED
  BY <1>8, <1>9, <1>10, <1>11, <1>12, <1>13, <1>14 DEF IndInv

\* A result is taken for the first batch.
LEMMA ResultKeeps ==
    ASSUME PipelineAssumption, IndInv, MutationResult
    PROVE  IndInv'
<1>1. TypeOK /\ Stored /\ Piped /\ Started /\ Connected /\ Sent /\ Tokens /\ Credentials
  BY DEF IndInv
<1>2. /\ stream = "Open" /\ down # << >> /\ handshake
      /\ down' = Tail(down) /\ behind' = (behind \/ (closing # "ok" /\ up # << >>))
      /\ token' = creds /\ saved' = [saved EXCEPT ![user] = creds]
      /\ Settle(Head(pipeline).id, "ok") /\ closes' = closes
      /\ FillWritePipeline(network, Tail(pipeline), queue'[user])
      /\ UNCHANGED <<authVars, user, network, handshake, nextId, creds,
                   closing, serverVars, issued, events>>
  BY DEF MutationResult
<1>3. network /\ creds = user
  BY <1>1, <1>2 DEF Connected, Started, IsStarted
<1>4. /\ pipeline \in Seq(Batch) /\ Len(pipeline) \in Nat /\ user \in Users
      /\ up \in Seq(Batch) /\ Len(up) \in Nat
      /\ down \in Seq(Batch) /\ Len(down) \in Nat /\ Len(down) > 0
      /\ idle \in BOOLEAN
  <2>1. /\ pipeline \in Seq(Batch) /\ user \in Users /\ up \in Seq(Batch)
        /\ down \in Seq(Batch) /\ idle \in BOOLEAN
    BY <1>1 DEF TypeOK
  <2>2. Len(pipeline) \in Nat /\ Len(up) \in Nat /\ Len(down) \in Nat
    BY <2>1
  <2>3. Len(down) # 0
    BY <1>2, <2>1, EmptyLen
  <2> QED
    BY <2>1, <2>2, <2>3
<1>5. /\ Len(down) <= Len(pipeline)
      /\ \A i \in 1..Len(down) : down[i] = pipeline[i]
  BY <1>1, <1>2, <1>4 DEF Sent, OnTheWay, Prefix
<1>6. pipeline # << >> /\ ~idle
  <2>1. Len(pipeline) > 0
    BY <1>4, <1>5
  <2> QED
    BY <1>1, <1>4, <2>1, EmptyLen DEF Started
<1> DEFINE p == Tail(pipeline)
           q == queue'[user]
<1>7. /\ queue' \in [Users -> Seq(Batch)]
      /\ callbacks' \subseteq Callback /\ waiters' \subseteq Waiter
      /\ told' \in [1..MaxWrites -> {"nothing", "ok", "failed"}]
      /\ p \in Seq(Batch) /\ Len(p) <= MaxPendingWrites
      /\ Prefix(p, q) /\ Grows(q) /\ Stored'
  BY <1>1, <1>2, <1>3, <1>6, SettleFacts
<1>8. /\ Len(p) = Len(pipeline) - 1
      /\ \A i \in 1..(Len(pipeline) - 1) : p[i] = pipeline[i + 1]
      /\ down' \in Seq(Batch) /\ Len(down') = Len(down) - 1
      /\ \A i \in 1..(Len(down) - 1) : down'[i] = down[i + 1]
  BY <1>2, <1>4, <1>6, TailFacts
<1>9. q \in Seq(Batch)
  BY <1>4, <1>7
<1> HIDE DEF p, q
<1>10. FillWritePipeline(network, p, q)
  BY <1>2 DEF p, q
<1>11. /\ StartIfNeeded(TRUE, stream, pipeline')
       /\ pipeline' \in Seq(Batch)
       /\ IsOldest(pipeline', q)
       /\ Len(p) <= Len(pipeline')
       /\ \A i \in 1..Len(p) : pipeline'[i] = p[i]
       /\ up' \in Seq(Batch)
       /\ Len(up') = Len(up) + (Len(pipeline') - Len(p))
       /\ \A i \in 1..Len(up) : up'[i] = up[i]
       /\ \A i \in 1..(Len(pipeline') - Len(p)) : up'[Len(up) + i] = pipeline'[Len(p) + i]
       /\ idle' \in BOOLEAN
       /\ idle' => stream = "Open" /\ pipeline' = << >>
  <2>1. network = TRUE
    BY <1>1, <1>3 DEF TypeOK
  <2> QED
    BY <1>2, <1>4, <1>6, <1>7, <1>9, <1>10, <2>1, FillPipelineFacts
<1>12. stream' = "Open" /\ asked' = asked
  BY <1>2, <1>11 DEF StartIfNeeded, ShouldStartWriteStream, IsStarted
<1>13. TypeOK'
  BY <1>1, <1>2, <1>3, <1>4, <1>7, <1>8, <1>11, <1>12
  DEF TypeOK, authVars, serverVars
<1>14. Piped'
  BY <1>2, <1>3, <1>11 DEF Piped, q
<1>15. Started'
  BY <1>2, <1>3, <1>11, <1>12 DEF Started, IsStarted
<1>16. Connected'
  BY <1>2, <1>3, <1>12 DEF Connected
<1>17. Sent'
  <2>0. Len(pipeline') \in Nat /\ Len(p) \in Nat /\ Len(up') \in Nat /\ Len(down') \in Nat
    BY <1>7, <1>8, <1>11
  <2>1. \A i \in 1..Len(down') : /\ i \in 1..Len(p) /\ i \in 1..(Len(pipeline) - 1)
                                 /\ i \in 1..(Len(down) - 1)
                                 /\ i + 1 \in 1..Len(down)
    BY <1>4, <1>5, <1>8
  <2>2. \A i \in 1..Len(down') : down'[i] = pipeline'[i]
    BY <1>5, <1>8, <1>11, <2>1
  <2>3. Len(down') <= Len(pipeline')
    BY <1>4, <1>5, <1>8, <1>11, <2>0
  <2>4. ASSUME closing = "ok" PROVE OnTheWay(down', up', pipeline')
    <3>1. /\ Len(pipeline) = Len(down) + Len(up)
          /\ \A i \in 1..Len(up) : up[i] = pipeline[Len(down) + i]
      BY <1>1, <1>2, <2>4 DEF Sent, OnTheWay
    <3>2. Len(pipeline') = Len(down') + Len(up')
      BY <1>4, <1>8, <1>11, <2>0, <3>1
    <3>3. ASSUME NEW i \in 1..Len(up') PROVE up'[i] = pipeline'[Len(down') + i]
      <4>1. CASE i <= Len(up)
        <5>1. /\ i \in 1..Len(up)
              /\ Len(down') + i \in 1..(Len(pipeline) - 1)
              /\ Len(down') + i \in 1..Len(p)
              /\ (Len(down') + i) + 1 = Len(down) + i
          BY <1>4, <1>8, <3>1, <4>1
        <5>2. up'[i] = pipeline[Len(down) + i]
          BY <1>11, <3>1, <5>1
        <5>3. pipeline'[Len(down') + i] = p[Len(down') + i]
          BY <1>11, <5>1
        <5>4. p[Len(down') + i] = pipeline[(Len(down') + i) + 1]
          BY <1>8, <5>1
        <5> QED
          BY <5>1, <5>2, <5>3, <5>4
      <4>2. CASE i > Len(up)
        <5> DEFINE k == i - Len(up)
        <5>1. /\ k \in 1..(Len(pipeline') - Len(p))
              /\ Len(up) + k = i
              /\ Len(p) + k = Len(down') + i
          BY <1>4, <1>8, <1>11, <2>0, <3>1, <4>2
        <5> HIDE DEF k
        <5>2. up'[Len(up) + k] = pipeline'[Len(p) + k]
          BY <1>11, <5>1
        <5> QED
          BY <5>1, <5>2
      <4>3. i \in Nat
        BY <2>0
      <4> QED
        BY <1>4, <4>1, <4>2, <4>3
    <3> QED
      BY <2>2, <3>2, <3>3 DEF OnTheWay
  <2> QED
    BY <1>2, <2>2, <2>3, <2>4 DEF Sent, Prefix
<1>18. Tokens'
  BY <1>1, <1>2, <1>3, <1>4 DEF Tokens, TypeOK
<1>19. Credentials'
  BY <1>1, <1>2, <1>12, CredentialsStill
<1> QED
  BY <1>7, <1>13, <1>14, <1>15, <1>16, <1>17, <1>18, <1>19 DEF IndInv

-----------------------------------------------------------------------------
(* The server and the connection.                                          *)

\* What the server takes next: the handshake, or the first batch that has not
\* been answered, which is one of the stream's user.
LEMMA ServerHead ==
    ASSUME TypeOK, Stored, Piped, Started, Connected, Sent, Serving
    PROVE  /\ stream = "Open" /\ closing = "ok" /\ creds = user /\ user \in Users
           /\ up \in Seq(Batch) /\ up # << >> /\ down \in Seq(Batch)
           /\ handshake =>
                  LET n == Len(down) + 1
                  IN  /\ network /\ OnTheWay(down, up, pipeline)
                      /\ n \in 1..Len(pipeline) /\ n \in 1..Len(queue[user])
                      /\ Head(up) = pipeline[n] /\ Head(up) = queue[user][n]
                      /\ Head(up) # Hello
                      /\ Head(up).write \in 1..Len(issued)
                      /\ issued[Head(up).write] = user
           /\ ~handshake => /\ down = << >> /\ up = <<Hello>>
                            /\ Head(up) = Hello /\ Tail(up) = << >>
<1>1. closing = "ok" /\ up # << >>
  BY DEF Serving
<1>2. /\ stream = "Open" /\ creds = user
  BY <1>1 DEF Connected
<1>3. user \in Users /\ up \in Seq(Batch) /\ down \in Seq(Batch)
  BY DEF TypeOK
<1>4. ASSUME handshake
      PROVE  LET n == Len(down) + 1
             IN  /\ network /\ OnTheWay(down, up, pipeline)
                 /\ n \in 1..Len(pipeline) /\ n \in 1..Len(queue[user])
                 /\ Head(up) = pipeline[n] /\ Head(up) = queue[user][n]
                 /\ Head(up) # Hello
                 /\ Head(up).write \in 1..Len(issued)
                 /\ issued[Head(up).write] = user
  <2> DEFINE n == Len(down) + 1
  <2>1. network /\ OnTheWay(down, up, pipeline)
    BY <1>1, <1>2, <1>4 DEF Started, IsStarted, Sent
  <2>2. Head(up) = up[1] /\ Len(up) \in Nat /\ Len(up) > 0 /\ Len(down) \in Nat
    BY <1>1, <1>3, TailFacts
  <2>3. /\ Len(pipeline) \in Nat /\ Prefix(pipeline, queue[user])
        /\ Len(queue[user]) \in Nat /\ Grows(queue[user])
    BY <1>3, <2>1, PipeTypes, QueueTypes
  <2>4. /\ n \in 1..Len(pipeline) /\ n \in 1..Len(queue[user])
        /\ 1 \in 1..Len(up)
    BY <2>1, <2>2, <2>3 DEF OnTheWay, Prefix
  <2>5. up[1] = pipeline[n]
    BY <2>1, <2>4 DEF OnTheWay
  <2>6. pipeline[n] = queue[user][n]
    BY <2>3, <2>4 DEF Prefix
  <2> HIDE DEF n
  <2>7. /\ queue[user][n].id > 0
        /\ queue[user][n].write \in 1..Len(issued)
        /\ issued[queue[user][n].write] = user
    BY <1>3, <2>3, <2>4, QueueTypes DEF Grows
  <2>8. queue[user][n] # Hello
    BY <2>7, HelloFacts
  <2>9. Head(up) = queue[user][n] /\ Head(up) = pipeline[n]
    BY <2>2, <2>5, <2>6
  <2>10. Head(up).write \in 1..Len(issued) /\ issued[Head(up).write] = user
    BY <2>7, <2>9
  <2> QED
    BY <2>1, <2>4, <2>8, <2>9, <2>10 DEF n
<1>5. ASSUME ~handshake
      PROVE  /\ down = << >> /\ up = <<Hello>>
             /\ Head(up) = Hello /\ Tail(up) = << >>
  <2>1. down = << >> /\ up = <<Hello>>
    BY <1>1, <1>2, <1>5 DEF Sent, Greeting
  <2> QED
    BY <2>1
<1> QED
  BY <1>1, <1>2, <1>3, <1>4, <1>5

\* The server answers the next request.
LEMMA PassedOn ==
    ASSUME NEW d \in Seq(Batch), NEW u \in Seq(Batch), NEW p \in Seq(Batch),
           u # << >>, OnTheWay(d, u, p)
    PROVE  OnTheWay(Append(d, Head(u)), Tail(u), p)
<1> DEFINE e == Append(d, Head(u))
           v == Tail(u)
<1>1. /\ Head(u) = u[1] /\ Head(u) \in Batch /\ Len(u) \in Nat /\ Len(u) > 0
      /\ Len(v) = Len(u) - 1 /\ \A i \in 1..(Len(u) - 1) : v[i] = u[i + 1]
  BY TailFacts
<1>2. /\ Len(d) \in Nat /\ Len(e) = Len(d) + 1
      /\ \A i \in 1..Len(d) : e[i] = d[i]
      /\ e[Len(d) + 1] = u[1]
  BY <1>1, AppendFacts
<1> HIDE DEF e, v
<1>3. /\ Len(p) = Len(d) + Len(u)
      /\ \A i \in 1..Len(d) : d[i] = p[i]
      /\ \A i \in 1..Len(u) : u[i] = p[Len(d) + i]
  BY DEF OnTheWay
<1>4. Len(p) = Len(e) + Len(v)
  BY <1>1, <1>2, <1>3
<1>5. ASSUME NEW i \in 1..Len(e) PROVE e[i] = p[i]
  <2>1. CASE i \in 1..Len(d)
    BY <1>2, <1>3, <2>1
  <2>2. CASE i = Len(d) + 1
    <3>1. 1 \in 1..Len(u)
      BY <1>1
    <3> QED
      BY <1>2, <1>3, <2>2, <3>1
  <2> QED
    BY <1>2, <2>1, <2>2
<1>6. ASSUME NEW i \in 1..Len(v) PROVE v[i] = p[Len(e) + i]
  <2>1. i \in 1..(Len(u) - 1) /\ i + 1 \in 1..Len(u) /\ Len(d) + (i + 1) = Len(e) + i
    BY <1>1, <1>2
  <2>2. u[i + 1] = p[Len(d) + (i + 1)]
    BY <1>3, <2>1
  <2> QED
    BY <1>1, <2>1, <2>2
<1>7. OnTheWay(e, v, p)
  BY <1>4, <1>5, <1>6 DEF OnTheWay
<1> QED
  BY <1>7 DEF e, v

\* The server answers the handshake.
LEMMA GreetsKeeps ==
    ASSUME IndInv, ServerGreets
    PROVE  IndInv'
<1>1. TypeOK /\ Stored /\ Piped /\ Started /\ Connected /\ Sent /\ Tokens /\ Credentials
  BY DEF IndInv
<1>2. /\ Serving /\ Head(up) = Hello
      /\ up' = Tail(up) /\ down' = Append(down, Hello)
      /\ UNCHANGED <<authVars, asked, user, network, pipeline, appVars,
                   streamVars, diskVars, creds, closing, behind, serverVars,
                   issued, told, events>>
  BY DEF ServerGreets
<1>3. /\ stream = "Open" /\ closing = "ok" /\ ~handshake
      /\ down = << >> /\ up = <<Hello>>
  BY <1>1, <1>2, ServerHead
<1>4. up' = << >> /\ down' = <<Hello>>
  BY <1>2, <1>3
<1>5. up' \in Seq(Batch) /\ down' \in Seq(Batch)
  BY <1>4, HelloFacts
<1>6. TypeOK'
  BY <1>1, <1>2, <1>5
  DEF TypeOK, authVars, appVars, streamVars, diskVars, serverVars
<1>7. Stored' /\ Piped' /\ Tokens' /\ Credentials'
  BY <1>1, <1>2, StoredStill, PipedStill, TokensStill, CredentialsStill
  DEF streamVars, diskVars
<1>8. Started'
  BY <1>1, <1>2 DEF Started, streamVars
<1>9. Connected'
  BY <1>1, <1>2, <1>3 DEF Connected, streamVars
<1>10. Sent'
  BY <1>2, <1>3, <1>4 DEF Sent, Greeting, streamVars
<1> QED
  BY <1>6, <1>7, <1>8, <1>9, <1>10 DEF IndInv

\* The server applies a write.
LEMMA CommitsKeeps ==
    ASSUME IndInv, ServerCommits
    PROVE  IndInv'
<1>1. TypeOK /\ Stored /\ Piped /\ Started /\ Connected /\ Sent /\ Tokens /\ Credentials
  BY DEF IndInv
<1>2. /\ Serving /\ Head(up) # Hello
      /\ up' = Tail(up) /\ down' = Append(down, Head(up))
      /\ committed' = committed \cup {Head(up).write}
      /\ last' = [last EXCEPT ![creds] = Head(up).write]
      /\ UNCHANGED <<authVars, asked, user, network, pipeline, appVars,
                   streamVars, diskVars, creds, closing, behind, refused,
                   issued, told, events>>
  BY DEF ServerCommits
<1>3. /\ stream = "Open" /\ closing = "ok" /\ handshake /\ creds = user
      /\ OnTheWay(down, up, pipeline)
      /\ up \in Seq(Batch) /\ up # << >> /\ down \in Seq(Batch)
      /\ user \in Users
      /\ Head(up).write \in 1..Len(issued)
  BY <1>1, <1>2, ServerHead
<1>4. up' \in Seq(Batch) /\ down' \in Seq(Batch)
  BY <1>2, <1>3, TailFacts, AppendFacts
<1>5. committed' \subseteq 1..MaxWrites /\ last' \in [Users -> 0..MaxWrites]
  <2>1. /\ committed \subseteq 1..MaxWrites /\ last \in [Users -> 0..MaxWrites]
        /\ Len(issued) <= MaxWrites /\ issued \in Seq(Users)
    BY <1>1 DEF TypeOK
  <2>2. Len(issued) \in Nat
    BY <2>1
  <2>3. MaxWrites \in Int
    BY <1>1, PipelineAssumption DEF PipelineAssumption
  <2>4. Head(up).write \in 1..MaxWrites /\ Head(up).write \in 0..MaxWrites
    BY <1>3, <2>1, <2>2, <2>3
  <2> QED
    BY <1>2, <2>1, <2>4
<1>6. TypeOK'
  BY <1>1, <1>2, <1>4, <1>5
  DEF TypeOK, authVars, appVars, streamVars, diskVars
<1>7. Stored' /\ Piped' /\ Tokens' /\ Credentials'
  BY <1>1, <1>2, StoredStill, PipedStill, TokensStill, CredentialsStill
  DEF streamVars, diskVars
<1>8. Started'
  BY <1>1, <1>2 DEF Started, streamVars
<1>9. Connected'
  BY <1>1, <1>2, <1>3 DEF Connected, streamVars
<1>10. OnTheWay(down', up', pipeline)
  <2>1. pipeline \in Seq(Batch)
    BY <1>1 DEF TypeOK
  <2> QED
    BY <1>2, <1>3, <2>1, PassedOn
<1>11. Sent'
  BY <1>2, <1>3, <1>10 DEF Sent, streamVars
<1> QED
  BY <1>6, <1>7, <1>8, <1>9, <1>11 DEF IndInv

\* The server ends the stream.
LEMMA RefusesKeeps ==
    ASSUME PipelineAssumption, IndInv, NEW e \in Error, ServerRefuses(e)
    PROVE  IndInv'
<1>1. TypeOK /\ Stored /\ Piped /\ Started /\ Connected /\ Sent /\ Tokens /\ Credentials
  BY DEF IndInv
<1>2. /\ Event /\ Serving /\ closing' = e /\ up' = Tail(up)
      /\ refused' = IF e = "permanent" /\ Head(up) # Hello
                    THEN refused \cup {Head(up).write} ELSE refused
      /\ UNCHANGED <<authVars, asked, user, network, pipeline, appVars,
                   streamVars, diskVars, creds, down, behind, committed, last,
                   issued, told>>
  BY DEF ServerRefuses
<1>3. /\ stream = "Open" /\ closing = "ok" /\ creds = user
      /\ up \in Seq(Batch) /\ up # << >> /\ down \in Seq(Batch)
      /\ handshake => OnTheWay(down, up, pipeline) /\ Head(up).write \in 1..Len(issued)
      /\ ~handshake => down = << >> /\ Head(up) = Hello
  BY <1>1, <1>2, ServerHead
<1>4. up' \in Seq(Batch)
  BY <1>2, <1>3, TailFacts
<1>5. refused' \subseteq 1..MaxWrites
  <2>1. /\ refused \subseteq 1..MaxWrites
        /\ Len(issued) <= MaxWrites /\ issued \in Seq(Users)
    BY <1>1 DEF TypeOK
  <2>2. Len(issued) \in Nat /\ MaxWrites \in Int
    BY <2>1 DEF PipelineAssumption
  <2>3. Head(up) # Hello => Head(up).write \in 1..MaxWrites
    BY <1>3, <2>1, <2>2
  <2> QED
    BY <1>2, <2>1, <2>3
<1>6. events' \in 0..MaxEvents
  BY <1>1, <1>2, Counted
<1>7. TypeOK'
  BY <1>1, <1>2, <1>4, <1>5, <1>6
  DEF TypeOK, authVars, appVars, streamVars, diskVars
<1>8. Stored' /\ Piped' /\ Tokens' /\ Credentials'
  BY <1>1, <1>2, StoredStill, PipedStill, TokensStill, CredentialsStill
  DEF streamVars, diskVars
<1>9. Started'
  BY <1>1, <1>2 DEF Started, streamVars
<1>10. Connected'
  BY <1>1, <1>2, <1>3 DEF Connected, streamVars
<1>11. handshake => Prefix(down, pipeline)
  <2>1. pipeline \in Seq(Batch)
    BY <1>1 DEF TypeOK
  <2>2. Len(pipeline) \in Nat /\ Len(down) \in Nat /\ Len(up) \in Nat
    BY <1>3, <2>1
  <2> QED
    BY <1>3, <2>2 DEF OnTheWay, Prefix
<1>12. closing' # "ok"
  BY <1>2 DEF Error
<1>13. Sent'
  BY <1>2, <1>3, <1>11, <1>12 DEF Sent, streamVars
<1> QED
  BY <1>7, <1>8, <1>9, <1>10, <1>13 DEF IndInv

\* The connection is lost.
LEMMA LossKeeps ==
    ASSUME PipelineAssumption, IndInv, ConnectionLost
    PROVE  IndInv'
<1>1. TypeOK /\ Stored /\ Piped /\ Started /\ Connected /\ Sent /\ Tokens /\ Credentials
  BY DEF IndInv
<1>2. /\ Event /\ stream = "Open" /\ closing = "ok" /\ closing' = "unavailable"
      /\ UNCHANGED <<authVars, asked, user, network, pipeline, appVars,
                   streamVars, diskVars, creds, up, behind, serverVars,
                   issued, told>>
  BY DEF ConnectionLost
<1>3. PICK n \in 0..Len(down) : down' = SubSeq(down, 1, n)
  BY DEF ConnectionLost
<1>4. /\ down \in Seq(Batch) /\ Len(down) \in Nat
      /\ up \in Seq(Batch) /\ Len(up) \in Nat
      /\ pipeline \in Seq(Batch) /\ Len(pipeline) \in Nat
  <2>1. down \in Seq(Batch) /\ up \in Seq(Batch) /\ pipeline \in Seq(Batch)
    BY <1>1 DEF TypeOK
  <2> QED
    BY <2>1
<1>5. /\ down' \in Seq(Batch) /\ Len(down') = n /\ n \in Nat /\ n <= Len(down)
      /\ \A i \in 1..n : down'[i] = down[i]
  BY <1>3, <1>4
<1>6. events' \in 0..MaxEvents
  BY <1>1, <1>2, Counted
<1>7. TypeOK'
  BY <1>1, <1>2, <1>5, <1>6
  DEF TypeOK, authVars, appVars, streamVars, diskVars, serverVars, Error
<1>8. Stored' /\ Piped' /\ Tokens' /\ Credentials'
  BY <1>1, <1>2, StoredStill, PipedStill, TokensStill, CredentialsStill
  DEF streamVars, diskVars
<1>9. Started'
  BY <1>1, <1>2 DEF Started, streamVars
<1>10. Connected'
  BY <1>1, <1>2 DEF Connected, streamVars
<1>11. ASSUME handshake PROVE Prefix(down', pipeline)
  <2>1. /\ Len(down) <= Len(pipeline)
        /\ \A i \in 1..Len(down) : down[i] = pipeline[i]
    BY <1>1, <1>2, <1>4, <1>11 DEF Sent, OnTheWay
  <2>2. \A i \in 1..Len(down') : i \in 1..n /\ i \in 1..Len(down)
    BY <1>4, <1>5
  <2> QED
    BY <1>4, <1>5, <2>1, <2>2 DEF Prefix
<1>12. ASSUME ~handshake PROVE down' \in {<< >>, <<Hello>>}
  <2>1. down \in {<< >>, <<Hello>>}
    BY <1>1, <1>2, <1>12 DEF Sent, Greeting
  <2>2. CASE n = 0
    <3>1. down' = << >>
      BY <1>5, <2>2, EmptyLen
    <3> QED
      BY <3>1
  <2>3. CASE n # 0
    <3>1. down = <<Hello>> /\ n = 1
      BY <1>5, <2>1, <2>3
    <3>2. down[1] = Hello /\ down'[1] = down[1] /\ Len(down') = 1
      BY <1>5, <3>1
    <3>3. down' = <<Hello>>
      BY <1>5, <3>2
    <3> QED
      BY <3>3
  <2> QED
    BY <2>2, <2>3
<1>13. Sent'
  BY <1>2, <1>11, <1>12 DEF Sent, streamVars
<1> QED
  BY <1>7, <1>8, <1>9, <1>10, <1>13 DEF IndInv

\* One lemma for each action above.
LEMMA StepKeeps ==
    ASSUME PipelineAssumption, IndInv, [Next]_vars
    PROVE  IndInv'
<1>1. CASE Next
  <2>1. CASE Write \/ WaitForPendingWrites \/ EnableNetwork \/ DisableNetwork
                \/ Restart \/ IdleElapses \/ RunMainQueue \/ ConnectionLost
    BY <2>1, WriteKeeps, WaitKeeps, EnableKeeps, DisableKeeps, RestartKeeps,
       IdleKeeps, RunKeeps, LossKeeps
  <2>2. CASE Worker
    BY <2>2, UserChangeKeeps, IgnoreKeeps, OpenKeeps, RequestFailsKeeps,
       BackoffKeeps, HandshakeKeeps, ResultKeeps, StreamFinishesKeeps DEF Worker
  <2>3. CASE Server
    BY <2>3, GreetsKeeps, CommitsKeeps DEF Server
  <2>4. CASE Auth
    BY <2>4, TakeUpKeeps, AnswerKeeps DEF Auth
  <2>5. CASE \E u \in Users : SignIn(u)
    BY <2>5, SignInKeeps
  <2>6. CASE \E r \in asked : TokenFails(r)
    BY <2>6, AnswerKeeps
  <2>7. CASE \E e \in Error : ServerRefuses(e)
    BY <2>7, RefusesKeeps
  <2> QED
    BY <1>1, <2>1, <2>2, <2>3, <2>4, <2>5, <2>6, <2>7 DEF Next
<1>2. CASE UNCHANGED vars
  BY <1>2, StutterKeeps
<1> QED
  BY <1>1, <1>2

-----------------------------------------------------------------------------
(* The theorems.                                                           *)

\* Responses and requests in one sequence.
LEMMA Joined ==
    ASSUME NEW d \in Seq(Batch), NEW u \in Seq(Batch), NEW p \in Seq(Batch),
           OnTheWay(d, u, p)
    PROVE  d \o u = p
<1>1. /\ Len(d) \in Nat /\ Len(u) \in Nat /\ Len(p) = Len(d) + Len(u)
      /\ \A i \in 1..Len(d) : d[i] = p[i]
      /\ \A i \in 1..Len(u) : u[i] = p[Len(d) + i]
  BY DEF OnTheWay
<1>2. /\ d \o u \in Seq(Batch) /\ Len(d \o u) = Len(d) + Len(u)
      /\ \A i \in 1..(Len(d) + Len(u)) :
             (d \o u)[i] = IF i <= Len(d) THEN d[i] ELSE u[i - Len(d)]
  BY ConcatProperties
<1>3. ASSUME NEW i \in 1..Len(p) PROVE (d \o u)[i] = p[i]
  <2>1. CASE i <= Len(d)
    <3>1. i \in 1..Len(d) /\ i \in 1..(Len(d) + Len(u))
      BY <1>1, <2>1
    <3> QED
      BY <1>1, <1>2, <2>1, <3>1
  <2>2. CASE ~(i <= Len(d))
    <3>1. /\ i - Len(d) \in 1..Len(u) /\ i \in 1..(Len(d) + Len(u))
          /\ Len(d) + (i - Len(d)) = i
      BY <1>1, <2>2
    <3> QED
      BY <1>1, <1>2, <2>2, <3>1
  <2> QED
    BY <2>1, <2>2
<1>4. Len(d \o u) = Len(p)
  BY <1>1, <1>2
<1> QED
  BY <1>2, <1>3, <1>4, SeqEqual

\* IndInv and the pipeline.
LEMMA PipelineRight ==
    ASSUME PipelineAssumption, IndInv
    PROVE  PipelineIsRight
<1>1. TypeOK /\ Stored /\ Piped /\ Sent
  BY DEF IndInv
<1>2. /\ pipeline \in Seq(Batch) /\ user \in Users /\ queue[user] \in Seq(Batch)
      /\ Len(pipeline) \in Nat
      /\ up \in Seq(Batch) /\ down \in Seq(Batch) /\ Len(down) \in Nat
  BY <1>1, PipeTypes DEF TypeOK
<1>3. PipelineIsOldest
  <2>1. ASSUME network PROVE pipeline = Fill(<< >>, queue[user])
    <3>1. IsOldest(pipeline, queue[user]) /\ Grows(queue[user])
      BY <1>1, <1>2, <2>1, QueueTypes DEF Piped
    <3> QED
      BY <1>2, <3>1, OldestIsFill
  <2> QED
    BY <1>1, <2>1 DEF PipelineIsOldest, Piped
<1>4. ASSUME stream = "Open"
      PROVE  IF closing = "ok"
             THEN down \o up = IF handshake THEN pipeline ELSE <<Hello>>
             ELSE /\ handshake => /\ Len(down) <= Len(pipeline)
                                  /\ down = SubSeq(pipeline, 1, Len(down))
                  /\ ~handshake => down \in {<< >>, <<Hello>>}
  <2>1. CASE closing = "ok" /\ handshake
    <3>1. OnTheWay(down, up, pipeline)
      BY <1>1, <1>4, <2>1 DEF Sent
    <3>2. down \o up = pipeline
      BY <1>2, <3>1, Joined
    <3> QED
      BY <2>1, <3>2
  <2>2. CASE closing = "ok" /\ ~handshake
    <3>1. Greeting(down, up)
      BY <1>1, <1>4, <2>2 DEF Sent
    <3>2. CASE down = << >> /\ up = <<Hello>>
      <4>1. << >> \o up = up
        BY <1>2, ConcatEmptySeq
      <4> QED
        BY <2>2, <3>2, <4>1
    <3>3. CASE down = <<Hello>> /\ up = << >>
      <4>1. down \o << >> = down
        BY <1>2, ConcatEmptySeq
      <4> QED
        BY <2>2, <3>3, <4>1
    <3> QED
      BY <3>1, <3>2, <3>3 DEF Greeting
  <2>3. CASE closing # "ok" /\ handshake
    <3>1. Prefix(down, pipeline)
      BY <1>1, <1>4, <2>3 DEF Sent
    <3>2. Len(down) <= Len(pipeline) /\ \A i \in 1..Len(down) : down[i] = pipeline[i]
      BY <3>1 DEF Prefix
    <3>3. /\ SubSeq(pipeline, 1, Len(down)) \in Seq(Batch)
          /\ Len(SubSeq(pipeline, 1, Len(down))) = Len(down)
          /\ \A i \in 1..Len(down) : SubSeq(pipeline, 1, Len(down))[i] = pipeline[i]
      <4>1. \A i \in 1..Len(down) : i \in 1..Len(pipeline)
        BY <1>2, <3>2
      <4> QED
        BY <1>2, <3>2, <4>1
    <3>4. down = SubSeq(pipeline, 1, Len(down))
      BY <1>2, <3>2, <3>3, SeqEqual
    <3> QED
      BY <2>3, <3>2, <3>4
  <2>4. CASE closing # "ok" /\ ~handshake
    BY <1>1, <1>4, <2>4 DEF Sent
  <2> QED
    BY <2>1, <2>2, <2>3, <2>4
<1>5. AnswersMatch
  BY <1>4 DEF AnswersMatch
<1> QED
  BY <1>3, <1>5 DEF PipelineIsRight

\* IndInv and the stream.
LEMMA StreamRight ==
    ASSUME PipelineAssumption, IndInv
    PROVE  StreamIsRight
<1>1. TypeOK /\ Stored /\ Piped /\ Started /\ Connected /\ Sent /\ Credentials
  BY DEF IndInv
<1>2. NeverStalls
  BY <1>1 DEF Started, NeverStalls
<1>3. idle => stream = "Open" /\ pipeline = << >>
  BY <1>1 DEF Started, Connected
<1>4. ASSUME Current
      PROVE  stream = "Starting" /\ ~handshake /\ Head(inbox).status # "aborted"
  <2>1. inbox # << >> /\ Answers(Head(inbox), closes)
    BY <1>4 DEF Current, Answered, Answers
  <2>2. stream = "Starting" /\ Head(inbox).status # "aborted"
    BY <1>1, <2>1, AuthTypes, AuthHead DEF Credentials
  <2> QED
    BY <1>1, <2>2 DEF Connected
<1>5. ASSUME stream = "Open", handshake, down # << >>
      PROVE  /\ pipeline # << >>
             /\ queue[user] # << >>
             /\ Head(queue[user]) = Head(pipeline)
  <2>1. /\ pipeline \in Seq(Batch) /\ Len(pipeline) \in Nat
        /\ queue[user] \in Seq(Batch) /\ network
        /\ Prefix(pipeline, queue[user])
    BY <1>1, <1>5, PipeTypes DEF Started, IsStarted
  <2>2. down \in Seq(Batch) /\ Len(down) \in Nat /\ Len(down) > 0 /\ Len(up) \in Nat
    <3>1. down \in Seq(Batch) /\ up \in Seq(Batch)
      BY <1>1 DEF TypeOK
    <3>2. Len(down) # 0
      BY <1>5, <3>1, EmptyLen
    <3> QED
      BY <3>1, <3>2
  <2>3. Len(pipeline) > 0
    BY <1>1, <1>5, <2>1, <2>2 DEF Sent, OnTheWay, Prefix
  <2>4. pipeline # << >>
    BY <2>1, <2>3, EmptyLen
  <2> QED
    BY <2>1, <2>4, TailPrefix
<1>6. AssertionsHold
  BY <1>3, <1>4, <1>5 DEF AssertionsHold
<1> QED
  BY <1>2, <1>6 DEF StreamIsRight

\* What the proofs below start from: every reachable state is one of IndInv.
THEOREM Inductive == Spec => []IndInv
<1>1. Init => IndInv
  BY InitHolds, PipelineAssumption
<1>2. IndInv /\ [Next]_vars => IndInv'
  BY StepKeeps, PipelineAssumption
<1> QED
  BY <1>1, <1>2, PTL DEF Spec

\* Every variable keeps its type, whatever the app, FIRAuth, the network and
\* the server do.
THEOREM TypeCorrect == Spec => []TypeOK
<1>1. IndInv => TypeOK
  BY DEF IndInv
<1> QED
  BY <1>1, Inductive, PTL

(* RemoteStore: the pipeline is the front of the signed-in user's queue,   *)
(* as long as there is room, and what has been sent and not been answered  *)
(* is the pipeline: an answer without a name is for its first batch.       *)
THEOREM PipelineCorrect == Spec => []PipelineIsRight
<1>1. IndInv => PipelineIsRight
  BY PipelineRight, PipelineAssumption
<1> QED
  BY <1>1, Inductive, PTL

(* WriteStream: no handler leaves the stream stopped while the pipeline    *)
(* has something to send, and no assertion of the client fails.            *)
THEOREM StreamCorrect == Spec => []StreamIsRight
<1>1. IndInv => StreamIsRight
  BY StreamRight, PipelineAssumption
<1> QED
  BY <1>1, Inductive, PTL
=============================================================================
