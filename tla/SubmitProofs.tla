---------------------------- MODULE SubmitProofs ----------------------------
(***************************************************************************)
(* Proofs that the unique indexes decide the race the check before the     *)
(* work leaves open: whatever the requests, their keys and their targets,  *)
(* a key has one batch and a derived key one job, every target of a stored *)
(* batch is served, and what a client is told is true.                     *)
(***************************************************************************)
EXTENDS Submit, FiniteSetTheorems, SequenceTheorems, WellFoundedInduction, TLAPS

(* InsertMany inserts jobs of its own request whose keys are new, and of   *)
(* two with one key only the first.                                        *)
LEMMA InsertedAreNew ==
  ASSUME NEW r \in Request, NEW j \in InsertMany(r), JobKey(j) # <<>>
  PROVE  /\ \A k \in jobs : JobKey(k) # JobKey(j)
         /\ \A k \in InsertMany(r) : JobKey(k) = JobKey(j) => k = j
<1>1. \A k \in jobs : JobKey(k) # JobKey(j)
  BY DEF InsertMany
<1>2. ASSUME NEW k \in InsertMany(r), JobKey(k) = JobKey(j)
      PROVE  k = j
  <2>1. PICK i \in DOMAIN Targets[r] : j = <<r, i>>
    BY DEF InsertMany, NewJobs
  <2>2. PICK n \in DOMAIN Targets[r] : k = <<r, n>>
    BY DEF InsertMany, NewJobs
  <2>3. i \in Nat /\ n \in Nat
    BY SubmitAssumption
  <2>4. k \in NewJobs(r) /\ j \in NewJobs(r)
    BY DEF InsertMany
  <2>5. ~(n < i) /\ ~(i < n)
    <3>1. ~(k[2] < j[2])
      BY <1>2, <2>4 DEF InsertMany
    <3>2. ~(j[2] < k[2])
      BY <1>2, <2>4 DEF InsertMany
    <3> QED
      BY <2>1, <2>2, <3>1, <3>2
  <2> QED
    BY <2>1, <2>2, <2>3, <2>5
<1> QED
  BY <1>1, <1>2

(* A step changes the tables only by the commit of one request whose key   *)
(* has no batch.                                                           *)
LEMMA TableChange ==
  ASSUME [Next]_vars
  PROVE  \/ UNCHANGED <<created, jobs>>
         \/ \E r \in Request : /\ ~KeyTaken(Key[r])
                               /\ created' = created \cup {r}
                               /\ jobs' = jobs \cup InsertMany(r)
BY DEF Next, vars, FindsDuplicate, FindsNothing, Expand, Commit, CommitConflicts, RequestFails,
       Answer, ServerCrash

(* One batch per idempotency key, however submissions interleave.          *)
THEOREM KeysHaveOneBatch == Spec => []OneBatchPerKey
<1>1. Init => OneBatchPerKey
  BY DEF Init, OneBatchPerKey
<1>2. OneBatchPerKey /\ [Next]_vars => OneBatchPerKey'
  <2> SUFFICES ASSUME OneBatchPerKey, [Next]_vars
               PROVE  OneBatchPerKey'
    OBVIOUS
  <2>1. CASE UNCHANGED <<created, jobs>>
    BY <2>1 DEF OneBatchPerKey
  <2>2. ASSUME NEW r \in Request, ~KeyTaken(Key[r]), created' = created \cup {r}
        PROVE  OneBatchPerKey'
    <3>1. Key[r] = <<>> \/ \A b \in created : Key[b] # Key[r]
      BY <2>2 DEF KeyTaken, FindByIdempotencyKey
    <3> QED
      BY <2>2, <3>1 DEF OneBatchPerKey
  <2> QED
    BY <2>1, <2>2, TableChange
<1> QED
  BY <1>1, <1>2, PTL DEF Spec

(* One job per derived key: nothing is enqueued twice, in one submission   *)
(* or in two.                                                              *)
THEOREM KeysHaveOneJob == Spec => []OneJobPerKey
<1>1. Init => OneJobPerKey
  BY DEF Init, OneJobPerKey
<1>2. OneJobPerKey /\ [Next]_vars => OneJobPerKey'
  <2> SUFFICES ASSUME OneJobPerKey, [Next]_vars
               PROVE  OneJobPerKey'
    OBVIOUS
  <2>1. CASE UNCHANGED <<created, jobs>>
    BY <2>1 DEF OneJobPerKey
  <2>2. ASSUME NEW r \in Request, jobs' = jobs \cup InsertMany(r)
        PROVE  OneJobPerKey'
    <3> SUFFICES ASSUME NEW j \in jobs', NEW k \in jobs',
                        JobKey(j) # <<>>, JobKey(j) = JobKey(k)
                 PROVE  j = k
      BY DEF OneJobPerKey
    <3>1. CASE j \in jobs /\ k \in jobs
      BY <3>1 DEF OneJobPerKey
    <3>2. CASE j \in InsertMany(r)
      BY <2>2, <3>2, InsertedAreNew
    <3>3. CASE k \in InsertMany(r)
      BY <2>2, <3>3, InsertedAreNew
    <3> QED
      BY <2>2, <3>1, <3>2, <3>3
  <2> QED
    BY <2>1, <2>2, TableChange
<1> QED
  BY <1>1, <1>2, PTL DEF Spec

-----------------------------------------------------------------------------
(* What one submission inserts. *)
LEMMA InsertedAreOwn ==
  ASSUME NEW r \in Request
  PROVE  /\ InsertMany(r) \subseteq NewJobs(r) /\ \A j \in InsertMany(r) : j[1] = r
         /\ IsFiniteSet(InsertMany(r)) /\ Enqueued(r) \in Nat
<1>1. InsertMany(r) \subseteq NewJobs(r) /\ \A j \in InsertMany(r) : j[1] = r
  BY DEF InsertMany, NewJobs
<1>2. IsFiniteSet(DOMAIN Targets[r])
  <2>1. DOMAIN Targets[r] = 1 .. Len(Targets[r]) /\ Len(Targets[r]) \in Nat
    BY SubmitAssumption
  <2> QED
    BY <2>1, FS_Interval
<1>3. IsFiniteSet(NewJobs(r))
  <2> DEFINE f == [i \in DOMAIN Targets[r] |-> <<r, i>>]
  <2>1. f \in Surjection(DOMAIN Targets[r], NewJobs(r))
    BY DEF NewJobs, Surjection
  <2> QED
    BY <1>2, <2>1, FS_Surjection
<1>4. IsFiniteSet(InsertMany(r))
  BY <1>1, <1>3, FS_Subset
<1> QED
  BY <1>1, <1>4, FS_CardinalityType DEF Enqueued

(* A request that is still under way has stored nothing, and what was      *)
(* answered is true.                                                       *)
NothingStored(r) == r \notin created /\ \A j \in jobs : j[1] # r

RequestInv ==
  /\ TypeOK
  /\ \A r \in Request : pc[r] \in {"new", "expand", "commit"} => NothingStored(r)
  /\ ReplyIsTrue

TrueOf(r, answer) ==
  answer.status = "accepted" =>
    /\ answer.batch \in created
    /\ Key[answer.batch] = Key[r]
    /\ answer.duplicate <=> answer.batch # r
    /\ answer.enqueued = Cardinality({j \in jobs : j[1] = r})

(* A step that stores nothing and tells one client at most something true. *)
LEMMA TruthKept ==
  ASSUME RequestInv, UNCHANGED <<created, jobs>>, TypeOK',
         \A r \in Request : pc'[r] \in {"new", "expand", "commit"} =>
           pc[r] \in {"new", "expand", "commit"},
         \A r \in Request : reply'[r] = reply[r] \/ TrueOf(r, reply'[r])
  PROVE  RequestInv'
<1>1. ReplyIsTrue'
  <2> SUFFICES ASSUME NEW r \in Request, reply'[r] # NoReply, reply'[r].status = "accepted"
               PROVE  /\ reply'[r].batch \in created
                      /\ Key[reply'[r].batch] = Key[r]
                      /\ reply'[r].duplicate <=> reply'[r].batch # r
                      /\ reply'[r].enqueued = Cardinality({j \in jobs : j[1] = r})
    BY Zenon DEF ReplyIsTrue
  <2>1. TrueOf(r, reply[r]) \/ reply[r] = NoReply
    BY Zenon DEF RequestInv, ReplyIsTrue, TrueOf
  <2>2. TrueOf(r, reply'[r])
    BY <2>1
  <2> QED
    BY <2>2, Zenon DEF TrueOf
<1> QED
  BY <1>1 DEF RequestInv, NothingStored

LEMMA CommitIsTrue ==
  ASSUME RequestInv, NEW r \in Request, Commit(r)
  PROVE  RequestInv'
<1>1. /\ pc[r] = "commit" /\ pc' = [pc EXCEPT ![r] = "answer"]
      /\ created' = created \cup {r} /\ jobs' = jobs \cup InsertMany(r)
      /\ reply' = [reply EXCEPT ![r] = [status |-> "accepted", batch |-> r,
                                        enqueued |-> Enqueued(r), duplicate |-> FALSE]]
  BY DEF Commit
<1>2. TypeOK /\ NothingStored(r) /\ ReplyIsTrue
  BY <1>1 DEF RequestInv
<1>3. TypeOK'
  BY <1>1, <1>2, InsertedAreOwn DEF TypeOK, Accepted
<1>4. ASSUME NEW q \in Request, q # r
      PROVE  {j \in jobs' : j[1] = q} = {j \in jobs : j[1] = q}
  BY <1>1, <1>4, InsertedAreOwn
<1>5. {j \in jobs' : j[1] = r} = InsertMany(r)
  BY <1>1, <1>2, InsertedAreOwn DEF NothingStored
<1>6. \A q \in Request : pc'[q] \in {"new", "expand", "commit"} => NothingStored(q)'
  <2> SUFFICES ASSUME NEW q \in Request, pc'[q] \in {"new", "expand", "commit"}
               PROVE  NothingStored(q)'
    OBVIOUS
  <2>1. q # r /\ pc'[q] = pc[q]
    BY <1>1, <1>2 DEF TypeOK
  <2>2. NothingStored(q)
    BY <2>1 DEF RequestInv
  <2> QED
    BY <1>1, <2>1, <2>2, InsertedAreOwn DEF NothingStored
<1>7. ReplyIsTrue'
  <2> SUFFICES ASSUME NEW q \in Request, reply'[q] # NoReply, reply'[q].status = "accepted"
               PROVE  /\ reply'[q].batch \in created'
                      /\ Key[reply'[q].batch] = Key[q]
                      /\ reply'[q].duplicate <=> reply'[q].batch # q
                      /\ reply'[q].enqueued = Cardinality({j \in jobs' : j[1] = q})
    BY DEF ReplyIsTrue
  <2>1. CASE q = r
    BY <1>1, <1>2, <1>5, <2>1 DEF TypeOK, Enqueued
  <2>2. CASE q # r
    BY <1>1, <1>2, <1>4, <2>2 DEF TypeOK, ReplyIsTrue
  <2> QED
    BY <2>1, <2>2
<1> QED
  BY <1>3, <1>6, <1>7 DEF RequestInv

LEMMA RequestInvStep == RequestInv /\ [Next]_vars => RequestInv'
<1> SUFFICES ASSUME RequestInv, [Next]_vars PROVE RequestInv'
  OBVIOUS
<1> USE DEF RequestInv, TypeOK
<1>1. ASSUME NEW r \in Request, FindsDuplicate(r) PROVE RequestInv'
  <2>1. PICK b \in created : Key[b] = Key[r]
          /\ reply' = [reply EXCEPT ![r] = [status |-> "accepted", batch |-> b, enqueued |-> 0,
                                            duplicate |-> TRUE]]
    BY <1>1 DEF FindsDuplicate, FindByIdempotencyKey
  <2>2. pc[r] = "new" /\ pc' = [pc EXCEPT ![r] = "answer"] /\ UNCHANGED <<created, jobs>>
    BY <1>1 DEF FindsDuplicate
  <2>3. TypeOK'
    BY <2>1, <2>2 DEF Accepted
  <2>4. {j \in jobs : j[1] = r} = {} /\ b # r
    BY <2>2 DEF NothingStored
  <2>5. Cardinality({}) = 0
    BY FS_EmptySet
  <2>6. TrueOf(r, reply'[r])
    BY <2>1, <2>4, <2>5 DEF TrueOf
  <2> QED
    BY <2>1, <2>2, <2>3, <2>6, TruthKept
<1>2. ASSUME NEW r \in Request, FindsNothing(r) \/ Expand(r) \/ Answer(r) PROVE RequestInv'
  BY <1>2, TruthKept DEF FindsNothing, Expand, Answer
<1>3. ASSUME NEW r \in Request, CommitConflicts(r) \/ RequestFails(r) PROVE RequestInv'
  <2>1. PICK status \in {"conflict", "error"} : reply' = [reply EXCEPT ![r] = Failed(status)]
    BY <1>3 DEF CommitConflicts, RequestFails
  <2>2. pc' = [pc EXCEPT ![r] = "answer"] /\ UNCHANGED <<created, jobs>>
    BY <1>3 DEF CommitConflicts, RequestFails
  <2>3. Failed(status) \in Failure /\ TrueOf(r, Failed(status))
    BY DEF Failed, Failure, TrueOf
  <2>4. TypeOK'
    BY <2>1, <2>2, <2>3
  <2> QED
    BY <2>1, <2>2, <2>3, <2>4, TruthKept
<1>4. CASE ServerCrash
  <2>1. Failed("lost") \in Failure /\ \A r \in Request : TrueOf(r, Failed("lost"))
    BY DEF Failed, Failure, TrueOf
  <2>2. UNCHANGED <<created, jobs>>
    BY <1>4 DEF ServerCrash
  <2>3. \A r \in Request : /\ pc'[r] \in {pc[r], "done"}
                           /\ reply'[r] \in {reply[r], Failed("lost")}
    BY <1>4 DEF ServerCrash
  <2>4. TypeOK'
    BY <1>4, <2>1, <2>2 DEF ServerCrash
  <2> QED
    BY <2>1, <2>2, <2>3, <2>4, TruthKept
<1>5. CASE UNCHANGED vars
  BY <1>5, TruthKept DEF vars
<1> QED
  BY <1>1, <1>2, <1>3, <1>4, <1>5, CommitIsTrue DEF Next

LEMMA RequestInvAlways == Spec => []RequestInv
<1>1. Init => RequestInv
  BY DEF Init, RequestInv, TypeOK, NothingStored, ReplyIsTrue
<1> QED
  BY <1>1, RequestInvStep, PTL DEF Spec

(* The type invariant of submission. *)
THEOREM SubmitTypeCorrect == Spec => []TypeOK
BY RequestInvAlways, PTL DEF RequestInv

(* The reply to an accepted submission is true when it is made and stays   *)
(* so: its batch, and how many jobs of it are in the table                 *)
(* (submit_batch.go:110).                                                  *)
THEOREM RepliesAreTrue == Spec => []ReplyIsTrue
BY RequestInvAlways, PTL DEF RequestInv

-----------------------------------------------------------------------------
(* Of the targets with one derived key the first is inserted, unless a job *)
(* has the key already.                                                    *)
LEMMA TargetIsServed ==
  ASSUME NEW r \in Request, NEW j \in NewJobs(r), j \notin InsertMany(r)
  PROVE  JobKey(j) # <<>> /\ \E k \in jobs \cup InsertMany(r) : JobKey(k) = JobKey(j)
<1>1. JobKey(j) # <<>>
  BY DEF InsertMany
<1> DEFINE T == {i \in DOMAIN Targets[r] : JobKey(<<r, i>>) = JobKey(j)}
<1>2. T \subseteq Nat /\ T # {}
  <2>1. DOMAIN Targets[r] \subseteq Nat
    BY SubmitAssumption
  <2> QED
    BY <2>1 DEF NewJobs
<1>3. PICK m \in T : \A i \in T : ~(<<i, m>> \in OpToRel(<, Nat))
  <2> HIDE DEF T
  <2> QED
    BY <1>2, NatLessThanWellFounded, WFMin
<1>4. \A i \in T : ~(i < m)
  BY <1>2, <1>3 DEF OpToRel
<1>5. <<r, m>> \in NewJobs(r) /\ JobKey(<<r, m>>) = JobKey(j)
  BY DEF NewJobs
<1>6. ASSUME NEW k \in NewJobs(r), k[2] < m PROVE JobKey(k) # JobKey(j)
  <2>1. PICK i \in DOMAIN Targets[r] : k = <<r, i>>
    BY DEF NewJobs
  <2> QED
    BY <1>4, <1>6, <2>1
<1>7. CASE \E k \in jobs : JobKey(k) = JobKey(j)
  BY <1>1, <1>7
<1>8. CASE \A k \in jobs : JobKey(k) # JobKey(j)
  <2>1. <<r, m>> \in InsertMany(r)
    BY <1>5, <1>6, <1>8 DEF InsertMany
  <2> QED
    BY <1>1, <1>5, <2>1
<1> QED
  BY <1>7, <1>8

(* Each target of a stored batch has a job with its derived key, however   *)
(* often a request names it and whichever requests race (submit_batch.go:  *)
(* 142, job_repo.go:26).                                                   *)
THEOREM TargetsHaveJobs == Spec => []EveryTargetHasItsJob
<1>1. Init => EveryTargetHasItsJob
  BY DEF Init, EveryTargetHasItsJob
<1>2. EveryTargetHasItsJob /\ [Next]_vars => EveryTargetHasItsJob'
  <2> SUFFICES ASSUME EveryTargetHasItsJob, [Next]_vars PROVE EveryTargetHasItsJob'
    OBVIOUS
  <2>1. CASE UNCHANGED <<created, jobs>>
    BY <2>1 DEF EveryTargetHasItsJob
  <2>2. ASSUME NEW r \in Request, created' = created \cup {r}, jobs' = jobs \cup InsertMany(r)
        PROVE  EveryTargetHasItsJob'
    <3> SUFFICES ASSUME NEW q \in created', NEW j \in NewJobs(q)
                 PROVE  j \in jobs' \/ (JobKey(j) # <<>> /\ \E k \in jobs' : JobKey(k) = JobKey(j))
      BY DEF EveryTargetHasItsJob
    <3>1. CASE q \in created
      BY <2>2, <3>1 DEF EveryTargetHasItsJob
    <3>2. CASE q = r
      BY <2>2, <3>2, TargetIsServed
    <3> QED
      BY <2>2, <3>1, <3>2
  <2> QED
    BY <2>1, <2>2, TableChange
<1> QED
  BY <1>1, <1>2, PTL DEF Spec

-----------------------------------------------------------------------------
(* A derived key begins with its batch's key and a colon. *)
LEMMA DerivedKeyBegins ==
  ASSUME NEW T, ":" \in T, NEW K \in Seq(T), NEW kind \in Seq(T),
         NEW ref \in Seq(T), K # <<>>
  PROVE  LET key == deriveIdempotencyKey(K, kind, ref)
         IN key[Len(K) + 1] = ":" /\ \A i \in 1 .. Len(K) : key[i] = K[i]
<1> DEFINE a == K \o <<":">>
           b == a \o kind
           c == b \o <<":">>
           d == c \o ref
<1>0. <<":">> \in Seq(T) /\ Len(<<":">>) = 1 /\ <<":">>[1] = ":" /\ Len(K) \in Nat
  OBVIOUS
<1>1. a \in Seq(T) /\ Len(a) = Len(K) + 1 /\ a[Len(K) + 1] = ":"
      /\ \A i \in 1 .. Len(K) : a[i] = K[i]
  BY <1>0, ConcatProperties
<1> HIDE DEF a
<1>2. b \in Seq(T) /\ Len(b) >= Len(a) /\ \A i \in 1 .. Len(a) : b[i] = a[i]
  BY <1>1, ConcatProperties
<1> HIDE DEF b
<1>3. c \in Seq(T) /\ Len(c) >= Len(b) /\ \A i \in 1 .. Len(b) : c[i] = b[i]
  BY <1>0, <1>2, ConcatProperties
<1> HIDE DEF c
<1>4. \A i \in 1 .. Len(c) : d[i] = c[i]
  BY <1>3, ConcatProperties
<1>5. d = deriveIdempotencyKey(K, kind, ref)
  BY DEF a, b, c, deriveIdempotencyKey
<1> HIDE DEF d
<1>6. Len(a) \in Nat /\ Len(b) \in Nat /\ Len(c) \in Nat
  BY <1>1, <1>2, <1>3
<1>7. \A i \in 1 .. Len(a) : d[i] = a[i]
  <2> SUFFICES ASSUME NEW i \in 1 .. Len(a) PROVE d[i] = a[i]
    OBVIOUS
  <2>1. i \in 1 .. Len(b) /\ i \in 1 .. Len(c)
    BY <1>2, <1>3, <1>6
  <2> QED
    BY <1>2, <1>3, <1>4, <2>1
<1> QED
  BY <1>0, <1>1, <1>5, <1>7

(* Keys without a colon are told apart by it.                              *)
LEMMA PlainKeysTellApart ==
  ASSUME NEW T, ":" \in T, NEW K \in Seq(T), NEW kind \in Seq(T), NEW ref \in Seq(T),
         NEW L \in Seq(T), NEW kind2 \in Seq(T), NEW ref2 \in Seq(T),
         Plain(K), Plain(L),
         deriveIdempotencyKey(K, kind, ref) = deriveIdempotencyKey(L, kind2, ref2)
  PROVE  K = L
<1> DEFINE key == deriveIdempotencyKey(K, kind, ref)
<1>1. key[Len(K) + 1] = ":" /\ \A i \in 1 .. Len(K) : key[i] = K[i]
  BY DerivedKeyBegins DEF Plain
<1>2. key[Len(L) + 1] = ":" /\ \A i \in 1 .. Len(L) : key[i] = L[i]
  BY DerivedKeyBegins DEF Plain
<1> HIDE DEF key
<1>3. Len(K) \in Nat /\ Len(L) \in Nat
  OBVIOUS
<1>4. \A i \in 1 .. Len(K) : K[i] # ":"
  BY DEF Plain
<1>5. \A i \in 1 .. Len(L) : L[i] # ":"
  BY DEF Plain
<1>6. ~(Len(K) < Len(L))
  <2> SUFFICES ASSUME Len(K) < Len(L) PROVE FALSE
    OBVIOUS
  <2>1. Len(K) + 1 \in 1 .. Len(L)
    BY <1>3
  <2> QED
    BY <1>1, <1>2, <1>5, <2>1
<1>7. ~(Len(L) < Len(K))
  <2> SUFFICES ASSUME Len(L) < Len(K) PROVE FALSE
    OBVIOUS
  <2>1. Len(L) + 1 \in 1 .. Len(K)
    BY <1>3
  <2> QED
    BY <1>1, <1>2, <1>4, <2>1
<1>8. Len(K) = Len(L)
  BY <1>3, <1>6, <1>7
<1> QED
  BY <1>1, <1>2, <1>8, SeqEqual

(* Batches of different keys without a colon never share a derived key.    *)
(* (submit_batch.go:136)                                                   *)
THEOREM KeysStayApart == Spec => []KeysDoNotInterfere
<1> DEFINE Owned == \A k \in jobs : k[1] \in created
<1>1. Init => Owned
  BY DEF Init
<1>2. Owned /\ [Next]_vars => Owned'
  <2> SUFFICES ASSUME Owned, [Next]_vars PROVE Owned'
    OBVIOUS
  <2> QED
    BY TableChange, InsertedAreOwn
<1>3. Owned /\ TypeOK /\ OneBatchPerKey => KeysDoNotInterfere
  <2> SUFFICES ASSUME Owned, TypeOK, OneBatchPerKey,
                      NEW r \in created, NEW j \in NewJobs(r), NEW k \in jobs,
                      Plain(Key[r]), Plain(Key[k[1]]), JobKey(k) = JobKey(j)
               PROVE  k[1] = r
    BY DEF KeysDoNotInterfere
  <2>1. k[1] \in created /\ created \subseteq Request
    BY DEF TypeOK
  <2>2. PICK q \in Request : k \in NewJobs(q)
    BY DEF TypeOK
  <2>3. PICK i \in DOMAIN Targets[r] : j = <<r, i>>
    BY DEF NewJobs
  <2>4. PICK n \in DOMAIN Targets[q] : k = <<q, n>>
    BY <2>2 DEF NewJobs
  <2>5. Targets[r][i] \in Seq(STRING) /\ Targets[q][n] \in Seq(STRING) /\ q = k[1]
    BY <2>1, <2>4, SubmitAssumption
  <2>6. deriveIdempotencyKey(Key[q], Kind[q], Targets[q][n])
          = deriveIdempotencyKey(Key[r], Kind[r], Targets[r][i])
    BY <2>3, <2>4 DEF JobKey
  <2>7. Key[q] = Key[r]
    <3> DEFINE T == STRING \cup {":"}  \* the provers do not know ":" for a string
    <3>1. /\ Key[q] \in Seq(T) /\ Kind[q] \in Seq(T) /\ Targets[q][n] \in Seq(T)
          /\ Key[r] \in Seq(T) /\ Kind[r] \in Seq(T) /\ Targets[r][i] \in Seq(T)
      BY <2>1, <2>5, SubmitAssumption, SeqMonotonic
    <3>2. ":" \in T /\ Plain(Key[q]) /\ Plain(Key[r])
      BY <2>5
    <3> HIDE DEF T
    <3> QED
      BY <2>6, <3>1, <3>2, PlainKeysTellApart
  <2> QED
    BY <2>1, <2>5, <2>7 DEF OneBatchPerKey, Plain
<1> QED
  BY <1>1, <1>2, <1>3, KeysHaveOneBatch, SubmitTypeCorrect, PTL DEF Spec

-----------------------------------------------------------------------------
(* The refinement: a request takes effect at its commit or its lookup.     *)

(* A request is answered exactly when it is no longer under way.           *)
Deciding(r) == pc[r] \in {"new", "expand", "commit"}
AnswersInv == \A r \in Request : Deciding(r) <=> reply[r] = NoReply

LEMMA AnswersAreReplies ==
  /\ \A status \in {"error", "conflict", "lost"} : Failed(status) # NoReply
  /\ \A b \in Request, n \in Nat, d \in BOOLEAN :
       [status |-> "accepted", batch |-> b, enqueued |-> n, duplicate |-> d] # NoReply
BY SubmitAssumption DEF Failed, Accepted, Failure

LEMMA AnswersInvStep ==
  ASSUME TypeOK, AnswersInv, [Next]_vars
  PROVE  AnswersInv'
<1> USE DEF TypeOK, AnswersInv, Deciding
<1>1. ASSUME NEW r \in Request, FindsDuplicate(r) PROVE AnswersInv'
  <2>1. PICK b \in Request :
          reply' = [reply EXCEPT ![r] = [status |-> "accepted", batch |-> b, enqueued |-> 0,
                                         duplicate |-> TRUE]]
    BY <1>1 DEF FindsDuplicate, FindByIdempotencyKey
  <2>2. pc' = [pc EXCEPT ![r] = "answer"] /\ reply'[r] # NoReply
    BY <1>1, <2>1, AnswersAreReplies DEF FindsDuplicate
  <2> QED
    BY <2>1, <2>2
<1>2. ASSUME NEW r \in Request, FindsNothing(r) \/ Expand(r) \/ Answer(r) PROVE AnswersInv'
  BY <1>2 DEF FindsNothing, Expand, Answer
<1>3. ASSUME NEW r \in Request, Commit(r) PROVE AnswersInv'
  <2>1. reply' = [reply EXCEPT ![r] = [status |-> "accepted", batch |-> r,
                                       enqueued |-> Enqueued(r), duplicate |-> FALSE]]
    BY <1>3 DEF Commit
  <2>2. pc' = [pc EXCEPT ![r] = "answer"] /\ reply'[r] # NoReply
    BY <1>3, <2>1, AnswersAreReplies, InsertedAreOwn DEF Commit
  <2> QED
    BY <2>1, <2>2
<1>4. ASSUME NEW r \in Request, CommitConflicts(r) \/ RequestFails(r) PROVE AnswersInv'
  <2>1. PICK status \in {"error", "conflict"} : reply' = [reply EXCEPT ![r] = Failed(status)]
    BY <1>4 DEF CommitConflicts, RequestFails
  <2>2. pc' = [pc EXCEPT ![r] = "answer"] /\ reply'[r] # NoReply
    BY <1>4, <2>1, AnswersAreReplies DEF CommitConflicts, RequestFails
  <2> QED
    BY <2>1, <2>2
<1>5. CASE ServerCrash
  BY <1>5, AnswersAreReplies DEF ServerCrash
<1>6. CASE UNCHANGED vars
  BY <1>6 DEF vars
<1> QED
  BY <1>1, <1>2, <1>3, <1>4, <1>5, <1>6 DEF Next

(* The clients for whom it is over.                                        *)
Heard == {r \in Request : pc[r] = "done"}

LEMMA StaysUnheard ==
  ASSUME TypeOK, NEW r \in Request, pc[r] # "done", pc' = [pc EXCEPT ![r] = "answer"]
  PROVE  Heard' = Heard
BY DEF TypeOK, Heard

LEMMA CommitAccepts ==
  ASSUME RequestInv, AnswersInv, NEW r \in Request, Commit(r)
  PROVE  Told!Accept(r)
<1> DEFINE new == InsertMany(r)
<1>1. /\ pc[r] = "commit" /\ ~KeyTaken(Key[r]) /\ pc' = [pc EXCEPT ![r] = "answer"]
      /\ created' = created \cup {r} /\ jobs' = jobs \cup new
      /\ reply' = [reply EXCEPT ![r] = [status |-> "accepted", batch |-> r,
                                        enqueued |-> Cardinality(new), duplicate |-> FALSE]]
  BY DEF Commit, Enqueued
<1>2. r \notin Heard /\ reply[r] = NoReply /\ Heard' = Heard
  BY <1>1, StaysUnheard DEF Heard, AnswersInv, Deciding, RequestInv
<1>3. {b \in created : Key[r] # <<>> /\ Key[b] = Key[r]} = {}
  BY <1>1 DEF KeyTaken, FindByIdempotencyKey
<1>4. new \in SUBSET ({r} \X DOMAIN Targets[r])
  BY InsertedAreOwn DEF NewJobs
<1>5. Told!Cardinality(new) = Cardinality(new)
  BY DEF Cardinality, Told!Cardinality
<1> HIDE DEF new
<1> QED
  BY <1>1, <1>2, <1>3, <1>4, <1>5 DEF Told!Accept, Told!Undecided, Told!WithKeyOf, Heard

LEMMA TellStep ==
  ASSUME RequestInv, AnswersInv, [Next]_vars
  PROVE  [Told!Next]_(Told!vars)
<1> TypeOK
  BY DEF RequestInv
<1>1. ASSUME NEW r \in Request, FindsDuplicate(r) PROVE Told!Repeat(r)
  <2>1. /\ pc[r] = "new" /\ Key[r] # <<>> /\ pc' = [pc EXCEPT ![r] = "answer"]
        /\ UNCHANGED <<created, jobs>>
    BY <1>1 DEF FindsDuplicate
  <2>2. PICK b \in created : Key[b] = Key[r]
          /\ reply' = [reply EXCEPT ![r] = [status |-> "accepted", batch |-> b, enqueued |-> 0,
                                            duplicate |-> TRUE]]
    BY <1>1 DEF FindsDuplicate, FindByIdempotencyKey
  <2>3. r \notin Heard /\ reply[r] = NoReply /\ Heard' = Heard
    BY <2>1, StaysUnheard DEF Heard, AnswersInv, Deciding
  <2> QED
    BY <2>1, <2>2, <2>3 DEF Told!Repeat, Told!Undecided, Told!WithKeyOf, Heard
<1>2. ASSUME NEW r \in Request, CommitConflicts(r) \/ RequestFails(r) PROVE Told!Refuse(r)
  <2>1. /\ Deciding(r) /\ pc[r] # "done" /\ pc' = [pc EXCEPT ![r] = "answer"]
        /\ UNCHANGED <<created, jobs>>
    BY <1>2 DEF CommitConflicts, RequestFails, Deciding
  <2>2. \/ reply' = [reply EXCEPT ![r] = [status |-> "error"]]
        \/ KeyTaken(Key[r]) /\ reply' = [reply EXCEPT ![r] = [status |-> "conflict"]]
    BY <1>2 DEF CommitConflicts, RequestFails, Failed
  <2>3. r \notin Heard /\ reply[r] = NoReply /\ Heard' = Heard
    BY <2>1, StaysUnheard DEF Heard, AnswersInv
  <2>4. KeyTaken(Key[r]) => {b \in created : Key[r] # <<>> /\ Key[b] = Key[r]} # {}
    BY DEF KeyTaken, FindByIdempotencyKey
  <2> QED
    BY <2>1, <2>2, <2>3, <2>4 DEF Told!Refuse, Told!Undecided, Told!WithKeyOf, Heard
<1>3. ASSUME NEW r \in Request, Answer(r) PROVE Told!Hear(r)
  <2>1. /\ pc[r] = "answer" /\ pc' = [pc EXCEPT ![r] = "done"]
        /\ UNCHANGED <<created, jobs, reply>>
    BY <1>3 DEF Answer
  <2>2. r \notin Heard /\ reply[r] # NoReply /\ Heard' = Heard \cup {r}
    BY <2>1 DEF Heard, AnswersInv, Deciding, TypeOK
  <2> QED
    BY <2>1, <2>2 DEF Told!Hear, Heard
<1>4. ASSUME ServerCrash PROVE \E S \in SUBSET Request : Told!Cut(S)
  <2> DEFINE cut == {r \in Request : pc[r] \in {"expand", "commit", "answer"}}
  <2>1. /\ pc' = [r \in Request |-> IF r \in cut THEN "done" ELSE pc[r]]
        /\ reply' = [r \in Request |-> IF r \in cut THEN [status |-> "lost"] ELSE reply[r]]
        /\ UNCHANGED <<created, jobs>>
    BY <1>4 DEF ServerCrash, Failed
  <2>2. cut \cap Heard = {} /\ Heard' = Heard \cup cut
    BY <2>1 DEF Heard
  <2> cut \in SUBSET Request
    OBVIOUS
  <2> HIDE DEF cut
  <2>3. Told!Cut(cut)
    BY <2>1, <2>2 DEF Told!Cut, Heard
  <2> QED
    BY <2>3 DEF Told!Cut
<1>5. ASSUME NEW r \in Request, FindsNothing(r) \/ Expand(r) PROVE UNCHANGED Told!vars
  <2>1. UNCHANGED <<created, jobs, reply>>
    BY <1>5 DEF FindsNothing, Expand
  <2>2. Heard' = Heard
    BY <1>5 DEF FindsNothing, Expand, Heard, TypeOK
  <2> QED
    BY <2>1, <2>2 DEF Told!vars, Heard
<1>6. CASE UNCHANGED vars
  BY <1>6 DEF vars, Told!vars
<1> QED
  BY <1>1, <1>2, <1>3, <1>4, <1>5, <1>6, CommitAccepts DEF Next, Told!Next

(* However lookups, expansions, commits and crashes of many requests       *)
(* interleave, each request is handled as if at one moment: accepted with  *)
(* its jobs, answered with the batch that has its key, or refused without  *)
(* effect (submit_batch.go:53).                                            *)
THEOREM IntakeImplemented == Spec => ImplementsIntake
<1>1. Init => AnswersInv /\ Told!Init
  BY DEF Init, AnswersInv, Deciding, Told!Init
<1>2. AnswersInv /\ RequestInv /\ [Next]_vars => AnswersInv'
  BY AnswersInvStep DEF RequestInv
<1>3. AnswersInv /\ RequestInv /\ [Next]_vars => [Told!Next]_(Told!vars)
  BY TellStep
<1> QED
  BY <1>1, <1>2, <1>3, RequestInvAlways, PTL DEF Spec, ImplementsIntake, Told!Spec
=============================================================================
