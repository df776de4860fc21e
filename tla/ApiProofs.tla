----------------------------- MODULE ApiProofs ------------------------------
(***************************************************************************)
(* Proofs of what a client of the HTTP interface is told: for any jobs,    *)
(* batches, limits and submissions, and whatever the scheduler does while  *)
(* the client reads without a transaction.                                 *)
(***************************************************************************)
EXTENDS Api, FiniteSetTheorems, SequenceTheorems, WellFoundedInduction, TLAPS

Ended == {"done", "canceled"}

(* What ends does so with all of its jobs, and only a canceled batch has   *)
(* canceled jobs.                                                          *)
TablesInv ==
  /\ state \in [Job -> {"absent", "pending", "running", "succeeded", "dead", "canceled"}]
  /\ batch \in [Batch -> {"absent", "open"} \cup Ended]
  /\ \A j \in Job : batch[BatchOf[j]] \in Ended => Life!Settled(j)
  /\ \A j \in Job : state[j] = "canceled" => batch[BatchOf[j]] = "canceled"

CanceledJobs(b) == {j \in JobsOf(b) : state[j] = "canceled"}

(* What the call has been told so far is still so. *)
GetInv ==
  call.op = "get" =>
    /\ call.of \in Batch
    /\ ~call.done /\ call.shown \in Ended => batch[call.of] \in Ended
    /\ DoneMeansSettled

CancelInv ==
  call.op = "cancel" => call.of \in Batch /\ CancelReplyIsTrue

RepliesInv == TablesInv /\ GetInv /\ CancelInv

-----------------------------------------------------------------------------
(* What has ended stays as it is. *)
EndedStay ==
  \A b \in Batch : batch[b] \in Ended =>
    batch'[b] = batch[b] /\ \A j \in JobsOf(b) : state'[j] = state[j]

LEMMA SchedulerKeepsTables ==
  ASSUME TablesInv, Scheduler
  PROVE  TablesInv' /\ EndedStay
<1> USE ApiAssumption DEF TablesInv, EndedStay, Ended, JobsOf, Life!Settled
<1>1. ASSUME NEW b \in Batch, Dispatch(b) PROVE TablesInv' /\ EndedStay
  BY <1>1 DEF Dispatch, Life!Dispatch
<1>2. ASSUME NEW b \in Batch, Close(b) PROVE TablesInv' /\ EndedStay
  BY <1>2 DEF Close, Life!Close
<1>3. ASSUME NEW b \in Batch, Cancel(b) PROVE TablesInv' /\ EndedStay
  BY <1>3 DEF Cancel, Life!Cancel
<1>4. ASSUME NEW j \in Job, Start(j) PROVE TablesInv' /\ EndedStay
  BY <1>4 DEF Start, Life!Start
<1>5. ASSUME NEW j \in Job, Finish(j) PROVE TablesInv' /\ EndedStay
  BY <1>5 DEF Finish, Life!Finish
<1>6. ASSUME NEW j \in Job, Miss(j) PROVE TablesInv' /\ EndedStay
  BY <1>6 DEF Miss, Life!Miss
<1> QED
  BY <1>1, <1>2, <1>3, <1>4, <1>5, <1>6 DEF Scheduler

-----------------------------------------------------------------------------
LEMMA DisjointCounts ==
  ASSUME NEW A, NEW B, IsFiniteSet(A), IsFiniteSet(B), A \cap B = {}
  PROVE  IsFiniteSet(A \cup B) /\ Cardinality(A \cup B) = Cardinality(A) + Cardinality(B)
<1>1. Cardinality(A \cap B) = 0
  BY FS_EmptySet
<1>2. Cardinality(A) \in Nat /\ Cardinality(B) \in Nat
  BY FS_CardinalityType
<1>3. /\ IsFiniteSet(A \cup B)
      /\ Cardinality(A \cup B) = Cardinality(A) + Cardinality(B) - Cardinality(A \cap B)
  BY FS_Union
<1> QED
  BY <1>1, <1>2, <1>3

(* The three counts of a batch whose jobs are settled add up. *)
LEMMA SettledAddUp ==
  ASSUME NEW b \in Batch, \A j \in JobsOf(b) : Life!Settled(j)
  PROVE  Progress(b)["succeeded"] + Progress(b)["dead"] + Progress(b)["canceled"]
           = Cardinality(JobsOf(b))
<1> DEFINE A == {j \in JobsOf(b) : state[j] = "succeeded"}
           B == {j \in JobsOf(b) : state[j] = "dead"}
           C == {j \in JobsOf(b) : state[j] = "canceled"}
<1>1. IsFiniteSet(JobsOf(b))
  BY ApiAssumption, FS_Subset DEF JobsOf
<1>2. IsFiniteSet(A) /\ IsFiniteSet(B) /\ IsFiniteSet(C)
  BY <1>1, FS_Subset
<1>3. A \cap B = {} /\ (A \cup B) \cap C = {}
  OBVIOUS
<1>4. (A \cup B) \cup C = JobsOf(b)
  BY DEF Life!Settled
<1>5. Progress(b)["succeeded"] = Cardinality(A) /\ Progress(b)["dead"] = Cardinality(B)
      /\ Progress(b)["canceled"] = Cardinality(C)
  BY DEF Progress
<1> HIDE DEF A, B, C
<1>6. IsFiniteSet(A \cup B) /\ Cardinality(A \cup B) = Cardinality(A) + Cardinality(B)
  BY <1>2, <1>3, DisjointCounts
<1>7. Cardinality((A \cup B) \cup C) = Cardinality(A \cup B) + Cardinality(C)
  BY <1>2, <1>3, <1>6, DisjointCounts
<1> QED
  BY <1>4, <1>5, <1>6, <1>7

(* What a step of the scheduler leaves of the call's outcome. *)
LEMMA SchedulerKeepsReplies ==
  ASSUME RepliesInv, Scheduler
  PROVE  RepliesInv'
<1>1. TablesInv' /\ EndedStay /\ call' = call
  BY SchedulerKeepsTables DEF RepliesInv, Scheduler
<1>2. GetInv'
  BY <1>1 DEF RepliesInv, GetInv, DoneMeansSettled, Answered, EndedStay, JobsOf
<1>3. CancelInv'
  <2> SUFFICES ASSUME call.op = "cancel", call.done PROVE CancelReplyIsTrue'
    BY <1>1 DEF RepliesInv, CancelInv, CancelReplyIsTrue, Answered
  <2>1. call.of \in Batch /\ CancelReplyIsTrue
    BY DEF RepliesInv, CancelInv
  <2>2. CASE call.status = 200
    <3>1. batch[call.of] = "canceled"
      BY <2>1, <2>2 DEF CancelReplyIsTrue, Answered
    <3>2. batch'[call.of] = "canceled" /\ \A j \in JobsOf(call.of) : state'[j] = state[j]
      BY <1>1, <2>1, <3>1 DEF EndedStay, Ended
    <3>3. {j \in JobsOf(call.of) : state[j] = "canceled"}
            = {j \in JobsOf(call.of) : state'[j] = "canceled"}
      BY <3>2
    <3> QED
      BY <1>1, <2>1, <2>2, <3>2, <3>3 DEF CancelReplyIsTrue, Answered, JobsOf
  <2>3. CASE call.status # 200
    BY <1>1, <2>1, <2>3 DEF CancelReplyIsTrue, Answered, EndedStay, Ended
  <2> QED
    BY <2>2, <2>3
<1> QED
  BY <1>1, <1>2, <1>3 DEF RepliesInv

LEMMA CancelKeepsReplies ==
  ASSUME RepliesInv, NEW b \in Batch, CancelBatch(b)
  PROVE  RepliesInv'
<1> DEFINE answer(status, n) ==
      call' = [op |-> "cancel", done |-> TRUE, of |-> b, status |-> status, canceled |-> n]
<1>1. CASE UNCHANGED tables /\ batch[b] = "absent" /\ answer(404, 0)
  BY <1>1 DEF RepliesInv, TablesInv, GetInv, CancelInv, CancelReplyIsTrue, Answered, tables, Life!Settled
<1>2. CASE UNCHANGED tables /\ batch[b] \in Ended /\ answer(409, 0)
  BY <1>2 DEF RepliesInv, TablesInv, GetInv, CancelInv, CancelReplyIsTrue, Answered, tables, Ended, Life!Settled
<1>3. CASE Cancel(b) /\ answer(200, CanceledCount(b))
  <2>1. TablesInv'
    <3>1. TablesInv
      BY DEF RepliesInv
    <3> QED
      BY <1>3, <3>1, ApiAssumption DEF Cancel, Life!Cancel, TablesInv, Ended, Life!Settled
  <2>2. {j \in JobsOf(b) : ~Life!Settled(j)} = {j \in JobsOf(b) : state'[j] = "canceled"}
    <3>1. \A j \in JobsOf(b) : state[j] # "canceled"
      BY <1>3 DEF RepliesInv, TablesInv, JobsOf, Cancel, Life!Cancel
    <3>2. \A j \in JobsOf(b) :
            state'[j] = IF Life!Settled(j) THEN state[j] ELSE "canceled"
      BY <1>3 DEF JobsOf, Cancel, Life!Cancel
    <3> QED
      BY <3>1, <3>2
  <2>3. batch'[b] = "canceled"
    BY <1>3 DEF Cancel, Life!Cancel, RepliesInv, TablesInv
  <2>4. CancelReplyIsTrue'
    BY <1>3, <2>2, <2>3 DEF CancelReplyIsTrue, Answered, CanceledCount, JobsOf
  <2> QED
    BY <1>3, <2>1, <2>4 DEF RepliesInv, GetInv, CancelInv
<1> QED
  BY <1>1, <1>2, <1>3 DEF CancelBatch, Ended

(* The second read of a batch that was shown as ended finds all jobs       *)
(* settled.                                                                *)
LEMMA GetKeepsReplies ==
  ASSUME RepliesInv, GetProgress
  PROVE  RepliesInv'
<1>1. /\ call.op = "get" /\ ~call.done /\ call.of \in Batch /\ UNCHANGED tables
      /\ call.shown \in Ended => batch[call.of] \in Ended
      /\ call' = [op |-> "get", done |-> TRUE, of |-> call.of, status |-> 200,
                  shown |-> call.shown, progress |-> Progress(call.of)]
  BY DEF GetProgress, RepliesInv, GetInv
<1>2. TablesInv'
  BY <1>1 DEF RepliesInv, TablesInv, tables, Life!Settled
<1>3. ASSUME call.shown \in Ended
      PROVE  Progress(call.of)["succeeded"] + Progress(call.of)["dead"] + Progress(call.of)["canceled"]
               = Cardinality(JobsOf(call.of))
  <2>1. \A j \in JobsOf(call.of) : Life!Settled(j)
    BY <1>1, <1>3 DEF RepliesInv, TablesInv, JobsOf
  <2> QED
    BY <1>1, <2>1, SettledAddUp
<1>4. DoneMeansSettled'
  BY <1>1, <1>3 DEF DoneMeansSettled, Answered, Ended, JobsOf
<1> QED
  BY <1>1, <1>2, <1>4 DEF RepliesInv, GetInv, CancelInv

LEMMA RepliesInvStep == RepliesInv /\ [Next]_vars => RepliesInv'
<1> SUFFICES ASSUME RepliesInv, [Next]_vars PROVE RepliesInv'
  OBVIOUS
<1>1. ASSUME UNCHANGED tables PROVE TablesInv'
  BY <1>1 DEF RepliesInv, TablesInv, tables, Life!Settled
<1>2. ASSUME UNCHANGED tables, call'.op \notin {"get", "cancel"} PROVE RepliesInv'
  BY <1>1, <1>2 DEF RepliesInv, GetInv, CancelInv
<1>3. CASE NextCall
  BY <1>2, <1>3 DEF NextCall
<1>4. ASSUME NEW r \in Submission, SubmitBatch(r) PROVE RepliesInv'
  BY <1>2, <1>4 DEF SubmitBatch
<1>5. ASSUME NEW b \in Batch, GetBatch(b) PROVE RepliesInv'
  BY <1>1, <1>5 DEF GetBatch, RepliesInv, GetInv, CancelInv, DoneMeansSettled, Answered, tables
<1>6. ASSUME NEW kind \in {"jobs", "batches", "events"}, NEW b \in Batch, NEW param \in LimitParam,
             List(kind, b, param)
      PROVE  RepliesInv'
  BY <1>2, <1>6 DEF List
<1>7. CASE NextPage
  <2>1. UNCHANGED tables /\ call.op \in {"jobs", "batches", "events"}
    BY <1>7 DEF NextPage
  <2>2. PICK seen, done : call' = [call EXCEPT !.seen = seen, !.done = done]
    BY <1>7 DEF NextPage
  <2>3. call'.op = call.op
    BY <2>2
  <2> QED
    BY <1>2, <2>1, <2>3
<1>8. CASE UNCHANGED vars
  <2>1. UNCHANGED <<state, batch, call>>
    BY <1>8 DEF vars
  <2> QED
    BY <2>1 DEF RepliesInv, TablesInv, GetInv, CancelInv, DoneMeansSettled, CancelReplyIsTrue,
                Answered, JobsOf, Life!Settled
<1> QED
  BY <1>3, <1>4, <1>5, <1>6, <1>7, <1>8, SchedulerKeepsReplies, CancelKeepsReplies, GetKeepsReplies
     DEF Next, Client

LEMMA RepliesInvAlways == Spec => []RepliesInv
<1>1. Init => RepliesInv
  BY ApiAssumption DEF Init, Life!Init, RepliesInv, TablesInv, GetInv, CancelInv, Ended, Life!Settled
<1> QED
  BY <1>1, RepliesInvStep, PTL DEF Spec

(* A batch that is shown as closed is shown with all of its jobs settled,  *)
(* although batch and counts are two reads (query_batch.go:26).            *)
THEOREM DoneIsSettled == Spec => []DoneMeansSettled
<1>1. RepliesInv => DoneMeansSettled
  BY DEF RepliesInv, GetInv, DoneMeansSettled, Answered
<1> QED
  BY <1>1, RepliesInvAlways, PTL

(* A cancel answered 200 has taken effect, with exactly the jobs it        *)
(* counted, and stays; one answered 409 found the batch closed             *)
(* (cancel_batch.go:14).                                                   *)
THEOREM CancelIsTrue == Spec => []CancelReplyIsTrue
<1>1. RepliesInv => CancelReplyIsTrue
  BY DEF RepliesInv, CancelInv, CancelReplyIsTrue, Answered
<1> QED
  BY <1>1, RepliesInvAlways, PTL

-----------------------------------------------------------------------------
(* Lemmas about listings in an order. *)

(* How many members of S come no later than j by f: the place of j.        *)
Place(S, f, j) == Cardinality({i \in S : f[i] <= f[j]})

(* Places are 1 to the number of members, each of one member.              *)
IntegerRanks(S, f) ==
  /\ IsFiniteSet(S) /\ \A i \in S : f[i] \in Int
  /\ \A i, j \in S : f[i] = f[j] => i = j

PlacesRun(S, f) ==
  /\ Cardinality(S) \in Nat
  /\ \A j \in S : Place(S, f, j) \in 1 .. Cardinality(S)
  /\ \A i, j \in S : Place(S, f, i) = Place(S, f, j) => i = j
  /\ \A n \in 1 .. Cardinality(S) : \E j \in S : Place(S, f, j) = n

LEMMA PlacesAreRanks ==
  ASSUME NEW S, NEW f, IntegerRanks(S, f)
  PROVE  PlacesRun(S, f)
<1> USE DEF IntegerRanks, PlacesRun
<1> DEFINE N == Cardinality(S)
           before(j) == {i \in S : f[i] <= f[j]}
           place == [j \in S |-> Cardinality(before(j))]
<1>1. N \in Nat
  BY FS_CardinalityType
<1> HIDE DEF N
<1>2. ASSUME NEW j \in S
      PROVE  before(j) \subseteq S /\ IsFiniteSet(before(j)) /\ place[j] \in 1 .. N
  <2>1. before(j) \in SUBSET S /\ j \in before(j)
    OBVIOUS
  <2>2. IsFiniteSet(before(j)) /\ Cardinality(before(j)) <= N
    BY <2>1, FS_Subset DEF N
  <2>3. Cardinality(before(j)) \in Nat /\ Cardinality(before(j)) # 0
    BY <2>1, <2>2, FS_CardinalityType, FS_EmptySet
  <2> QED
    BY <1>1, <2>1, <2>2, <2>3
<1>3. ASSUME NEW i \in S, NEW j \in S, place[i] = place[j], f[i] <= f[j]
      PROVE  i = j
  <2>1. before(i) \in SUBSET before(j)
    BY <1>3
  <2>2. before(j) = before(i)
    <3>1. Cardinality(before(j)) = Cardinality(before(i)) /\ IsFiniteSet(before(j))
      BY <1>2, <1>3
    <3> HIDE DEF before
    <3> QED
      BY <2>1, <3>1, FS_Subset
  <2>3. f[j] <= f[i]
    BY <2>2
  <2> QED
    BY <1>3, <2>3
<1>4. \A i, j \in S : place[i] = place[j] => i = j
  <2> SUFFICES ASSUME NEW i \in S, NEW j \in S, place[i] = place[j] PROVE i = j
    OBVIOUS
  <2>1. f[i] <= f[j] \/ f[j] <= f[i]
    OBVIOUS
  <2> HIDE DEF place
  <2> QED
    BY <1>3, <2>1
<1>5. \A n \in 1 .. N : \E j \in S : place[j] = n
  <2>1. place \in [S -> 1 .. N]
    BY <1>2
  <2>2. place \in Injection(S, 1 .. N)
    <3> HIDE DEF place
    <3> QED
      BY <1>4, <2>1 DEF Injection, IsInjective
  <2>3. IsFiniteSet(1 .. N) /\ Cardinality(1 .. N) = Cardinality(S)
    BY <1>1, FS_Interval DEF N
  <2> HIDE DEF place
  <2>4. place \in Surjection(S, 1 .. N)
    BY <2>2, <2>3, FS_Injection
  <2> QED
    BY <2>4 DEF Surjection
<1>6. \A j \in S : place[j] = Place(S, f, j)
  BY DEF Place
<1> HIDE DEF place
<1> QED
  BY <1>1, <1>2, <1>4, <1>5, <1>6 DEF N

-----------------------------------------------------------------------------
(* Submissions: the reply is the one its request deserves. *)
SubmitInv ==
  call.op = "submit" => call.request \in Submission /\ call.reply = SubmitReply(call.request)

LEMMA SubmitInvStep == SubmitInv /\ [Next]_vars => SubmitInv'
<1> SUFFICES ASSUME SubmitInv, [Next]_vars PROVE SubmitInv'
  OBVIOUS
<1>1. ASSUME NEW r \in Submission, SubmitBatch(r) PROVE SubmitInv'
  BY <1>1 DEF SubmitBatch, SubmitInv
<1>2. ASSUME NEW b \in Batch, CancelBatch(b) \/ GetBatch(b) PROVE SubmitInv'
  <2>1. call'.op \in {"cancel", "get"}
    BY <1>2 DEF CancelBatch, GetBatch
  <2> QED
    BY <2>1 DEF SubmitInv
<1>3. CASE NextCall \/ GetProgress
  BY <1>3 DEF NextCall, GetProgress, SubmitInv
<1>4. ASSUME NEW kind \in {"jobs", "batches", "events"}, NEW b \in Batch, NEW param \in LimitParam,
             List(kind, b, param)
      PROVE  SubmitInv'
  BY <1>4 DEF List, SubmitInv
<1>5. CASE NextPage
  BY <1>5 DEF NextPage, SubmitInv
<1>6. CASE Scheduler \/ UNCHANGED vars
  <2>1. UNCHANGED call
    BY <1>6 DEF Scheduler, vars
  <2> QED
    BY <2>1 DEF SubmitInv
<1> QED
  BY <1>1, <1>2, <1>3, <1>4, <1>5, <1>6 DEF Next, Client

(* A user's accepted submission makes jobs for the user alone, whatever    *)
(* the scope and the list it names (identity.go:31).                       *)
THEOREM UsersServeThemselves == Spec => []UsersScheduleThemselves
<1>1. Init => SubmitInv
  BY DEF Init, SubmitInv
<1>2. SubmitInv => UsersScheduleThemselves
  <2> SUFFICES ASSUME SubmitInv, Answered("submit"), call.request.actor \in {"", "user"}
               PROVE  call.reply.targets \in {<<>>, <<call.request.subject>>}
    BY DEF UsersScheduleThemselves
  <2> DEFINE r == call.request
             t == resolveTrigger(r)
  <2>1. call.reply = SubmitReply(r)
    BY DEF SubmitInv, Answered
  <2>2. t.kind = "user" /\ t.subject = r.subject
    BY DEF resolveTrigger
  <2> DEFINE accepted == [status |-> 202, targets |-> Expand(r.scopeKind, r.ref, t),
                          attempts |-> withDefaults(r.retries)]
  <2>3. SubmitReply(r) \in {BadRequest, Duplicate} \/ (Permitted(r) /\ SubmitReply(r) = accepted)
    BY DEF SubmitReply
  <2>4. BadRequest.targets = <<>> /\ Duplicate.targets = <<>>
    BY DEF BadRequest, Duplicate
  <2>5. ASSUME Permitted(r) PROVE accepted.targets = <<r.subject>>
    <3>1. r.scopeKind = "self"
      BY <2>2, <2>5 DEF Permitted, authorizeScope
    <3>2. Expand(r.scopeKind, r.ref, t) = <<t.subject>>
      BY <3>1 DEF Expand
    <3> QED
      BY <2>2, <3>2
  <2> HIDE DEF accepted, r, t
  <2>6. call.reply.targets \in {<<>>, <<r.subject>>}
    BY <2>1, <2>3, <2>4, <2>5
  <2> QED
    BY <2>6 DEF r
<1> QED
  BY <1>1, <1>2, SubmitInvStep, PTL DEF Spec

-----------------------------------------------------------------------------
(* The list of an explicit scope.  The loop over its characters computes   *)
(* the fields, whatever the list: its invariant is ScanInv below.          *)

(* Induction over the naturals, for a set. *)
LEMMA EveryNatural ==
  ASSUME NEW T, 0 \in T, \A n \in Nat : n \in T => n + 1 \in T
  PROVE  Nat \subseteq T
<1> SUFFICES ASSUME Nat \ T # {} PROVE FALSE
  OBVIOUS
<1>1. PICK m \in Nat \ T : \A i \in Nat \ T : ~(<<i, m>> \in OpToRel(<, Nat))
  BY NatLessThanWellFounded, WFMin
<1>2. \A i \in Nat \ T : ~(i < m)
  BY <1>1 DEF OpToRel
<1>3. m - 1 \in Nat /\ m - 1 < m /\ (m - 1) + 1 = m
  OBVIOUS
<1> QED
  BY <1>2, <1>3

NothingScanned == [start |-> 0, out |-> <<>>]
IsScan(scan, s, last) ==
  scan = [i \in 0 .. last |-> IF i = 0 THEN NothingScanned ELSE ScanStep(s, scan[i - 1], i)]

LEMMA ScanExists ==
  ASSUME NEW s, NEW last \in Nat
  PROVE  \E scan : IsScan(scan, s, last)
<1> DEFINE T == {n \in Nat : \E scan : IsScan(scan, s, n)}
<1>1. 0 \in T
  <2>1. IsScan([i \in 0 .. 0 |-> NothingScanned], s, 0)
    BY DEF IsScan
  <2> QED
    BY <2>1
<1>2. ASSUME NEW n \in Nat, n \in T PROVE n + 1 \in T
  <2>1. PICK f : IsScan(f, s, n)
    BY <1>2
  <2> DEFINE g == [i \in 0 .. n + 1 |-> IF i = n + 1 THEN ScanStep(s, f[n], n + 1) ELSE f[i]]
  <2>2. ASSUME NEW i \in 0 .. n + 1
        PROVE  g[i] = IF i = 0 THEN NothingScanned ELSE ScanStep(s, g[i - 1], i)
    <3>1. CASE i = n + 1
      <4>1. i # 0 /\ i - 1 = n /\ n \in 0 .. n + 1 /\ n # n + 1
        BY <3>1
      <4> QED
        BY <3>1, <4>1
    <3>2. CASE i # n + 1
      <4>1. i \in 0 .. n /\ g[i] = f[i]
        BY <3>2
      <4>2. f[i] = IF i = 0 THEN NothingScanned ELSE ScanStep(s, f[i - 1], i)
        BY <2>1, <4>1 DEF IsScan
      <4>3. i # 0 => i - 1 \in 0 .. n + 1 /\ i - 1 # n + 1 /\ g[i - 1] = f[i - 1]
        BY <4>1
      <4> HIDE DEF g
      <4> QED
        BY <4>1, <4>2, <4>3
    <3> QED
      BY <3>1, <3>2
  <2>3. IsScan(g, s, n + 1)
    <3>1. g = [i \in 0 .. n + 1 |-> g[i]]
      OBVIOUS
    <3> HIDE DEF g
    <3> QED
      BY <2>2, <3>1 DEF IsScan
  <2> QED
    BY <2>3
<1> HIDE DEF T
<1>3. Nat \subseteq T
  BY <1>1, <1>2, EveryNatural
<1> QED
  BY <1>3 DEF T

(* The function the loop is written as exists, and is what it says.        *)
LEMMA ScannedIs ==
  ASSUME NEW s, NEW last \in Nat
  PROVE  \E scan : IsScan(scan, s, last) /\ Scanned(s, last) = scan[last].out
<1> DEFINE scan == CHOOSE f : IsScan(f, s, last)
<1>1. IsScan(scan, s, last)
  BY ScanExists
<1>2. Scanned(s, last) = scan[last].out
  BY DEF Scanned, IsScan, NothingScanned
<1> QED
  BY <1>1, <1>2

(* The two characters that the loop looks for. *)
Comma(s, i) == s[i] = ","
Blank(s, i) == s[i] = " "

LEMMA FieldStartsAre ==
  ASSUME NEW Char, NEW s \in Seq(Char)
  PROVE  FieldStarts(s) =
           {i \in 1 .. Len(s) :
              /\ ~Comma(s, i) /\ ~Blank(s, i)
              /\ \E k \in 0 .. i - 1 : (k = 0 \/ Comma(s, k)) /\ \A n \in k + 1 .. i - 1 : Blank(s, n)}
<1>1. DOMAIN s = 1 .. Len(s)
  BY LenProperties
<1> QED
  BY <1>1 DEF FieldStarts, Comma, Blank

LEMMA FieldEndIs ==
  ASSUME NEW s, NEW a
  PROVE  FieldEnd(s, a) =
           CHOOSE k \in a .. Len(s) :
             (\A n \in a .. k : ~Comma(s, n)) /\ (k = Len(s) \/ Comma(s, k + 1))
  BY DEF FieldEnd, Comma

LEMMA CommaIsNotBlank == ASSUME NEW s, NEW i PROVE ~(Comma(s, i) /\ Blank(s, i))
  BY DEF Comma, Blank

(* FieldNo(s, i): how many fields start at the characters up to i. *)
Rank(S, i) == Cardinality({m \in S : m <= i})
FieldNo(s, i) == Rank(FieldStarts(s), i)

LEMMA RanksOfIntegers ==
  ASSUME NEW S, IsFiniteSet(S), S \subseteq Int
  PROVE  /\ Cardinality(S) \in Nat
         /\ \A j \in S : Rank(S, j) \in 1 .. Cardinality(S)
         /\ \A i, j \in S : Rank(S, i) = Rank(S, j) => i = j
         /\ \A n \in 1 .. Cardinality(S) : \E j \in S : Rank(S, j) = n
<1>1. PICK f : f = [i \in S |-> i]
  OBVIOUS
<1>2. \A i \in S : f[i] \in Int
  BY <1>1
<1>3. \A i, j \in S : f[i] = f[j] => i = j
  BY <1>1
<1>4. \A j \in S : Place(S, f, j) = Rank(S, j)
  <2> SUFFICES ASSUME NEW j \in S
               PROVE  {i \in S : f[i] <= f[j]} = {m \in S : m <= j}
    BY DEF Place, Rank
  <2> QED
    BY <1>1
<1>5. IntegerRanks(S, f)
  BY <1>2, <1>3 DEF IntegerRanks
<1>6. PlacesRun(S, f)
  BY <1>5, PlacesAreRanks
<1> QED
  BY <1>4, <1>6 DEF PlacesRun

LEMMA FieldsNumbered ==
  ASSUME NEW Char, NEW s \in Seq(Char)
  PROVE  /\ FieldStarts(s) \subseteq 1 .. Len(s) /\ IsFiniteSet(FieldStarts(s))
         /\ Cardinality(FieldStarts(s)) \in Nat
         /\ \A i \in FieldStarts(s) : FieldNo(s, i) \in 1 .. Cardinality(FieldStarts(s))
         /\ \A i, m \in FieldStarts(s) : FieldNo(s, i) = FieldNo(s, m) => i = m
         /\ \A n \in 1 .. Cardinality(FieldStarts(s)) :
              \E i \in FieldStarts(s) : FieldNo(s, i) = n
<1>1. FieldStarts(s) \subseteq 1 .. Len(s)
  BY FieldStartsAre
<1>2. IsFiniteSet(FieldStarts(s))
  BY <1>1, FS_Interval, FS_Subset
<1>3. FieldStarts(s) \subseteq Int
  BY <1>1
<1> QED
  BY <1>1, <1>2, <1>3, RanksOfIntegers DEF FieldNo

LEMMA FieldsCounted ==
  ASSUME NEW Char, NEW s \in Seq(Char), NEW i \in Nat
  PROVE  /\ FieldNo(s, i) \in Nat
         /\ FieldNo(s, i + 1) = FieldNo(s, i) + (IF i + 1 \in FieldStarts(s) THEN 1 ELSE 0)
         /\ FieldNo(s, 0) = 0 /\ FieldNo(s, Len(s)) = Cardinality(FieldStarts(s))
<1> DEFINE S == FieldStarts(s)
           upTo == {m \in S : m <= i}
<1>1. S \subseteq 1 .. Len(s) /\ IsFiniteSet(S)
  BY FieldsNumbered
<1>2. IsFiniteSet(upTo) /\ Cardinality(upTo) \in Nat
  BY <1>1, FS_Subset, FS_CardinalityType
<1> DEFINE next == {m \in S : m <= i + 1}
<1>3. next = IF i + 1 \in S THEN upTo \cup {i + 1} ELSE upTo
  BY <1>1
<1>4. i + 1 \notin upTo
  BY <1>1
<1>5. {m \in S : m <= 0} = {} /\ {m \in S : m <= Len(s)} = S
  BY <1>1
<1> HIDE DEF S, upTo, next
<1>6. Cardinality(next) = Cardinality(upTo) + (IF i + 1 \in S THEN 1 ELSE 0)
  <2>1. Cardinality(upTo \cup {i + 1}) = Cardinality(upTo) + 1
    BY <1>2, <1>4, FS_AddElement
  <2>2. CASE i + 1 \in S
    BY <1>3, <2>1, <2>2
  <2>3. CASE i + 1 \notin S
    BY <1>2, <1>3, <2>3
  <2> QED
    BY <1>2, <2>2, <2>3
<1> QED
  BY <1>2, <1>5, <1>6, FS_EmptySet DEF S, upTo, next, FieldNo, Rank

(* While the loop is inside a field, no other starts, and the field ends   *)
(* before the next comma.                                                  *)
LEMMA OpenFieldIsLast ==
  ASSUME NEW Char, NEW s \in Seq(Char), NEW a \in Nat, NEW i \in Nat,
         a \in FieldStarts(s), a <= i, i <= Len(s), \A n \in a .. i : ~Comma(s, n)
  PROVE  /\ \A m \in FieldStarts(s) : m <= i => m <= a
         /\ i = Len(s) \/ Comma(s, i + 1) => FieldEnd(s, a) = i
<1>1. a \in 1 .. Len(s) /\ ~Blank(s, a) /\ i \in Nat /\ Len(s) \in Nat
  <2>1. Len(s) \in Nat /\ a \in 1 .. Len(s)
    BY FieldsNumbered, LenProperties
  <2>2. ~Blank(s, a)
    BY FieldStartsAre
  <2> QED
    BY <2>1, <2>2
<1>2. ASSUME NEW m \in FieldStarts(s), m <= i, a < m PROVE FALSE
  <2>1. m \in 1 .. Len(s)
    BY FieldsNumbered
  <2>2. PICK k \in 0 .. m - 1 : (k = 0 \/ Comma(s, k)) /\ \A n \in k + 1 .. m - 1 : Blank(s, n)
    BY FieldStartsAre
  <2>3. a \notin k + 1 .. m - 1
    BY <1>1, <2>2
  <2>4. k \in a .. i /\ k # 0
    BY <1>1, <1>2, <2>1, <2>3
  <2> QED
    BY <2>2, <2>4
<1>3. ASSUME i = Len(s) \/ Comma(s, i + 1) PROVE FieldEnd(s, a) = i
  <2> DEFINE Ends(k) == (\A n \in a .. k : ~Comma(s, n)) /\ (k = Len(s) \/ Comma(s, k + 1))
  <2>1. i \in a .. Len(s) /\ Ends(i)
    BY <1>1, <1>3
  <2>2. ASSUME NEW k \in a .. Len(s), Ends(k) PROVE k = i
    <3>1. k \in Nat
      BY <1>1
    <3>2. CASE k < i
      <4>1. k + 1 \in a .. i /\ k # Len(s)
        BY <1>1, <3>1, <3>2
      <4> QED
        BY <2>2, <4>1
    <3>3. CASE i < k
      <4>1. i + 1 \in a .. k /\ i # Len(s)
        BY <1>1, <3>1, <3>3
      <4> QED
        BY <1>3, <2>2, <4>1
    <3> QED
      BY <1>1, <3>1, <3>2, <3>3
  <2>3. FieldEnd(s, a) = CHOOSE k \in a .. Len(s) : Ends(k)
    BY FieldEndIs
  <2> HIDE DEF Ends
  <2> QED
    BY <2>1, <2>2, <2>3
<1>4. \A m \in FieldStarts(s) : m \in Nat
  BY FieldsNumbered
<1> QED
  BY <1>1, <1>2, <1>3, <1>4

(* What the loop knows after the character at i: the fields that have      *)
(* ended so far; and either where the open field starts, or that only      *)
(* blanks came since the last comma.                                       *)
FieldsOut(s, out, i, open) ==
  \A m \in FieldStarts(s) :
    m <= i /\ m # open => out[FieldNo(s, m)] = SubSeq(s, m, FieldEnd(s, m))

ScanInv(Char, s, acc, i) ==
  /\ acc \in [start : 0 .. Len(s), out : Seq(Seq(Char))]
  /\ acc.start = 0 =>
       \E k \in 0 .. i : (k = 0 \/ Comma(s, k)) /\ \A n \in k + 1 .. i : Blank(s, n)
  /\ acc.start # 0 =>
       acc.start \in FieldStarts(s) /\ acc.start <= i /\ \A n \in acc.start .. i : ~Comma(s, n)
  /\ Len(acc.out) = FieldNo(s, i) - (IF acc.start = 0 THEN 0 ELSE 1)
  /\ FieldsOut(s, acc.out, i, acc.start)

(* At a comma, or the end, the open field is put out. *)
LEMMA FieldCloses ==
  ASSUME NEW Char, NEW s \in Seq(Char), NEW i \in 0 .. Len(s), NEW acc, ScanInv(Char, s, acc, i),
         i = Len(s) \/ Comma(s, i + 1)
  PROVE  LET out == IF acc.start = 0 THEN acc.out
                    ELSE Append(acc.out, SubSeq(s, acc.start, i))
         IN out \in Seq(Seq(Char)) /\ Len(out) = FieldNo(s, i) /\ FieldsOut(s, out, i, 0)
<1> DEFINE a == acc.start
           x == SubSeq(s, a, i)
<1>1. /\ a \in 0 .. Len(s) /\ acc.out \in Seq(Seq(Char)) /\ FieldNo(s, i) \in Nat
      /\ \A m \in FieldStarts(s) : m \in 1 .. Len(s) /\ FieldNo(s, m) \in Nat \ {0}
      /\ Len(s) \in Nat /\ i \in Nat
  <2>1. Len(s) \in Nat /\ i \in Nat
    BY LenProperties
  <2>2. a \in 0 .. Len(s) /\ acc.out \in Seq(Seq(Char))
    BY DEF ScanInv
  <2>3. FieldNo(s, i) \in Nat
    BY <2>1, FieldsCounted
  <2>4. \A m \in FieldStarts(s) : m \in 1 .. Len(s) /\ FieldNo(s, m) \in Nat \ {0}
    BY FieldsNumbered
  <2> QED
    BY <2>1, <2>2, <2>3, <2>4
<1>2. CASE a = 0
  BY <1>1, <1>2 DEF ScanInv
<1>3. CASE a # 0
  <2>1. /\ a \in FieldStarts(s) /\ a <= i /\ i <= Len(s) /\ a \in Nat /\ i \in Nat
        /\ \A n \in a .. i : ~Comma(s, n)
        /\ Len(acc.out) = FieldNo(s, i) - 1 /\ FieldsOut(s, acc.out, i, a)
    BY <1>1, <1>3 DEF ScanInv
  <2> HIDE DEF a
  <2>2. (\A m \in FieldStarts(s) : m <= i => m <= a) /\ FieldEnd(s, a) = i
    BY <2>1, OpenFieldIsLast
  <2>3. FieldNo(s, a) = FieldNo(s, i)
    <3>1. \A m \in FieldStarts(s) : m <= a <=> m <= i
      BY <1>1, <2>1, <2>2
    <3>2. {m \in FieldStarts(s) : m <= a} = {m \in FieldStarts(s) : m <= i}
      BY <3>1
    <3> QED
      BY <3>2 DEF FieldNo, Rank
  <2>4. x \in Seq(Char)
    <3>1. \A n \in a .. i : s[n] \in Char
      BY <1>1, <2>1
    <3> QED
      BY <1>1, <3>1, SubSeqProperties
  <2> HIDE DEF x
  <2>5. /\ Append(acc.out, x) \in Seq(Seq(Char)) /\ Len(Append(acc.out, x)) = FieldNo(s, i)
        /\ \A n \in 1 .. FieldNo(s, i) - 1 : Append(acc.out, x)[n] = acc.out[n]
        /\ Append(acc.out, x)[FieldNo(s, i)] = x
    <3>1. Len(acc.out) + 1 = FieldNo(s, i)
      BY <1>1, <2>1
    <3>2. acc.out \in Seq(Seq(Char))
      BY <1>1
    <3> HIDE DEF a
    <3> QED
      BY <3>1, <3>2, <2>1, <2>4, AppendProperties
  <2>6. ASSUME NEW m \in FieldStarts(s), m <= i, m # a
        PROVE  FieldNo(s, m) \in 1 .. FieldNo(s, i) - 1
    <3>1. {n \in FieldStarts(s) : n <= m} \in SUBSET {n \in FieldStarts(s) : n <= a}
      BY <1>1, <2>2, <2>6
    <3>2. IsFiniteSet({n \in FieldStarts(s) : n <= a})
      BY FieldsNumbered, FS_Subset
    <3>3. FieldNo(s, m) <= FieldNo(s, a)
      BY <3>1, <3>2, FS_Subset DEF FieldNo, Rank
    <3>4. FieldNo(s, m) # FieldNo(s, a)
      BY <2>1, <2>6, FieldsNumbered
    <3> QED
      BY <1>1, <2>3, <3>3, <3>4
  <2>7. FieldsOut(s, Append(acc.out, x), i, 0)
    <3> SUFFICES ASSUME NEW m \in FieldStarts(s), m <= i
                 PROVE  Append(acc.out, x)[FieldNo(s, m)] = SubSeq(s, m, FieldEnd(s, m))
      BY DEF FieldsOut
    <3>1. CASE m = a
      BY <2>2, <2>3, <2>5, <3>1 DEF x
    <3>2. CASE m # a
      BY <2>1, <2>5, <2>6, <3>2 DEF FieldsOut
    <3> QED
      BY <3>1, <3>2
  <2> QED
    BY <1>3, <2>5, <2>7 DEF a, x
<1> QED
  BY <1>2, <1>3

LEMMA ScanStepIs ==
  ASSUME NEW s, NEW acc, NEW i
  PROVE  ScanStep(s, acc, i) =
           IF i > Len(s) \/ Comma(s, i)
           THEN [start |-> 0, out |-> IF acc.start = 0 THEN acc.out
                                      ELSE Append(acc.out, SubSeq(s, acc.start, i - 1))]
           ELSE IF ~Blank(s, i) /\ acc.start = 0 THEN [acc EXCEPT !.start = i] ELSE acc
  BY DEF ScanStep, Comma, Blank

LEMMA ScanStepKeeps ==
  ASSUME NEW Char, NEW s \in Seq(Char), NEW i \in Nat, i < Len(s),
         NEW acc, ScanInv(Char, s, acc, i)
  PROVE  ScanInv(Char, s, ScanStep(s, acc, i + 1), i + 1)
<1> DEFINE p == i + 1
           next == ScanStep(s, acc, p)
           Starts == FieldStarts(s)
<1>1. Len(s) \in Nat /\ p \in 1 .. Len(s) /\ i \in 0 .. Len(s) /\ p - 1 = i /\ ~(p > Len(s))
  BY LenProperties
<1>2. /\ acc \in [start : 0 .. Len(s), out : Seq(Seq(Char))]
      /\ acc.start \in Nat /\ acc.out \in Seq(Seq(Char))
  BY <1>1 DEF ScanInv
<1>3. FieldNo(s, i) \in Nat /\ FieldNo(s, p) = FieldNo(s, i) + (IF p \in Starts THEN 1 ELSE 0)
  BY FieldsCounted
<1>4. \A m \in Starts : m \in Nat \ {0} /\ (m <= p /\ m # p => m <= i)
  BY FieldsNumbered
<1>5. CASE Comma(s, p)
  <2> DEFINE out == IF acc.start = 0 THEN acc.out ELSE Append(acc.out, SubSeq(s, acc.start, i))
  <2>1. next = [start |-> 0, out |-> out]
    BY <1>1, <1>5, ScanStepIs
  <2>2. out \in Seq(Seq(Char)) /\ Len(out) = FieldNo(s, i) /\ FieldsOut(s, out, i, 0)
    BY <1>1, <1>5, FieldCloses
  <2>3. p \notin Starts
    BY <1>5, FieldStartsAre
  <2> HIDE DEF next, out, Starts, p
  <2>4. FieldNo(s, p) = FieldNo(s, i)
    BY <1>3, <2>3
  <2>5. FieldsOut(s, out, p, 0)
    BY <1>4, <2>2, <2>3 DEF FieldsOut, Starts
  <2>6. next.start = 0 /\ next.out = out /\ next \in [start : 0 .. Len(s), out : Seq(Seq(Char))]
    BY <1>1, <2>1, <2>2
  <2>7. p \in 0 .. p /\ \A n \in p + 1 .. p : Blank(s, n)
    BY <1>1
  <2>8. ScanInv(Char, s, next, p)
    BY <1>3, <1>5, <2>2, <2>4, <2>5, <2>6, <2>7 DEF ScanInv
  <2> QED
    BY <2>8 DEF next, p
<1>6. CASE ~Comma(s, p) /\ acc.start # 0
  <2> DEFINE a == acc.start
  <2>1. next = acc
    BY <1>1, <1>6, ScanStepIs
  <2>2. a \in Starts /\ a <= i /\ (\A n \in a .. i : ~Comma(s, n)) /\ FieldsOut(s, acc.out, i, a)
        /\ Len(acc.out) = FieldNo(s, i) - 1
    BY <1>6 DEF ScanInv
  <2>3. \A n \in a .. p : ~Comma(s, n)
    <3> SUFFICES ASSUME NEW n \in a .. p PROVE ~Comma(s, n)
      OBVIOUS
    <3>1. n = p \/ n \in a .. i
      BY <1>1, <1>2
    <3> QED
      BY <1>6, <2>2, <3>1
  <2> HIDE DEF next, Starts, p, a
  <2>4. \A m \in Starts : m <= p => m <= a
    <3>1. a \in Nat /\ p \in Nat /\ a <= p /\ p <= Len(s)
      BY <1>1, <1>2, <2>2 DEF a, p
    <3>2. a \in FieldStarts(s)
      BY <2>2 DEF Starts
    <3> QED
      BY <2>3, <3>1, <3>2, OpenFieldIsLast DEF Starts
  <2>5. p \notin Starts /\ a <= p
    BY <1>1, <1>2, <2>2, <2>4 DEF a
  <2>6. FieldNo(s, p) = FieldNo(s, i) /\ FieldsOut(s, acc.out, p, a)
    BY <1>3, <1>4, <2>2, <2>5 DEF FieldsOut, Starts
  <2>7. ScanInv(Char, s, acc, p)
    BY <1>2, <1>6, <2>2, <2>3, <2>5, <2>6 DEF ScanInv, a, Starts
  <2> QED
    BY <2>1, <2>7 DEF next, p
<1>7. CASE ~Comma(s, p) /\ acc.start = 0 /\ Blank(s, p)
  <2>1. next = acc
    BY <1>1, <1>7, ScanStepIs
  <2>2. p \notin Starts
    BY <1>7, FieldStartsAre
  <2>3. PICK k \in 0 .. i : (k = 0 \/ Comma(s, k)) /\ \A n \in k + 1 .. i : Blank(s, n)
    BY <1>7 DEF ScanInv
  <2>4. k \in 0 .. p /\ \A n \in k + 1 .. p : Blank(s, n)
    <3>1. \A n \in k + 1 .. p : n = p \/ n \in k + 1 .. i
      OBVIOUS
    <3> QED
      BY <1>7, <2>3, <3>1
  <2>5. FieldsOut(s, acc.out, i, acc.start) /\ Len(acc.out) = FieldNo(s, i)
    BY <1>3, <1>7 DEF ScanInv
  <2> HIDE DEF next, Starts, p
  <2>6. FieldNo(s, p) = FieldNo(s, i) /\ FieldsOut(s, acc.out, p, acc.start)
    BY <1>3, <1>4, <2>2, <2>5 DEF FieldsOut, Starts
  <2>7. ScanInv(Char, s, acc, p)
    BY <1>2, <1>3, <1>7, <2>3, <2>4, <2>5, <2>6 DEF ScanInv
  <2> QED
    BY <2>1, <2>7 DEF next, p
<1>8. CASE ~Comma(s, p) /\ acc.start = 0 /\ ~Blank(s, p)
  <2>1. next = [acc EXCEPT !.start = p]
    BY <1>1, <1>8, ScanStepIs
  <2>2. PICK k \in 0 .. i : (k = 0 \/ Comma(s, k)) /\ \A n \in k + 1 .. i : Blank(s, n)
    BY <1>8 DEF ScanInv
  <2>3. p \in Starts
    BY <1>1, <1>8, <2>2, FieldStartsAre
  <2>4. FieldsOut(s, acc.out, i, 0) /\ Len(acc.out) = FieldNo(s, i)
    BY <1>3, <1>8 DEF ScanInv
  <2>5. \A n \in p .. p : ~Comma(s, n)
    BY <1>8
  <2>6. /\ next.start = p /\ next.out = acc.out
        /\ next \in [start : 0 .. Len(s), out : Seq(Seq(Char))]
    BY <1>1, <1>2, <2>1
  <2> HIDE DEF next, Starts, p
  <2>7. Len(next.out) = FieldNo(s, p) - 1 /\ FieldsOut(s, next.out, p, p)
    BY <1>3, <1>4, <2>3, <2>4, <2>6 DEF FieldsOut, Starts
  <2>8. p \in Nat \ {0} /\ p <= p
    BY <1>1
  <2>9. ScanInv(Char, s, next, p)
    BY <2>3, <2>5, <2>6, <2>7, <2>8 DEF ScanInv, Starts
  <2> QED
    BY <2>9 DEF next, p
<1> QED
  BY <1>5, <1>6, <1>7, <1>8

LEMMA ScannedFields ==
  ASSUME NEW Char, NEW s \in Seq(Char)
  PROVE  /\ splitAndTrim(s) \in Seq(Seq(Char))
         /\ Len(splitAndTrim(s)) = Cardinality(FieldStarts(s))
         /\ \A m \in FieldStarts(s) :
              splitAndTrim(s)[FieldNo(s, m)] = SubSeq(s, m, FieldEnd(s, m))
<1> DEFINE L == Len(s)
<1>1. L \in Nat
  BY LenProperties
<1>2. PICK scan : IsScan(scan, s, L + 1) /\ splitAndTrim(s) = scan[L + 1].out
  <2>1. L + 1 \in Nat
    BY <1>1
  <2> QED
    BY <2>1, ScannedIs DEF splitAndTrim
<1> HIDE DEF L
<1>3. \A i \in 0 .. L + 1 : scan[i] = IF i = 0 THEN NothingScanned ELSE ScanStep(s, scan[i - 1], i)
  BY <1>2 DEF IsScan
<1> DEFINE T == {n \in Nat : n <= L => ScanInv(Char, s, scan[n], n)}
<1>4. 0 \in T
  <2>1. scan[0] = NothingScanned
    BY <1>1, <1>3
  <2>2. /\ NothingScanned \in [start : 0 .. L, out : Seq(Seq(Char))] /\ Len(NothingScanned.out) = 0
        /\ NothingScanned.start = 0
    BY <1>1 DEF NothingScanned
  <2>3. FieldNo(s, 0) = 0 /\ \A m \in FieldStarts(s) : ~(m <= 0)
    BY FieldsCounted, FieldsNumbered
  <2>4. 0 \in 0 .. 0 /\ \A n \in 0 + 1 .. 0 : Blank(s, n)
    OBVIOUS
  <2>5. FieldsOut(s, NothingScanned.out, 0, 0)
    BY <2>3 DEF FieldsOut
  <2>6. ScanInv(Char, s, NothingScanned, 0)
    BY <2>2, <2>3, <2>4, <2>5 DEF ScanInv, L
  <2> QED
    BY <2>1, <2>6
<1>5. ASSUME NEW n \in Nat, n \in T PROVE n + 1 \in T
  <2> SUFFICES ASSUME n + 1 <= L PROVE ScanInv(Char, s, scan[n + 1], n + 1)
    OBVIOUS
  <2>1. n < L /\ n <= L /\ n + 1 \in 0 .. L + 1 /\ n + 1 # 0 /\ (n + 1) - 1 = n
    BY <1>1
  <2>2. ScanInv(Char, s, scan[n], n)
    BY <1>5, <2>1
  <2>3. scan[n + 1] = ScanStep(s, scan[n], n + 1)
    BY <1>3, <2>1
  <2> QED
    BY <2>1, <2>2, <2>3, ScanStepKeeps DEF L
<1> HIDE DEF T
<1>6. Nat \subseteq T
  BY <1>4, <1>5, EveryNatural
<1> DEFINE acc == scan[L]
<1>7. ScanInv(Char, s, acc, L)
  BY <1>1, <1>6 DEF T
<1>8. scan[L + 1] = ScanStep(s, acc, L + 1)
  <2>1. L + 1 \in 0 .. L + 1 /\ L + 1 # 0 /\ (L + 1) - 1 = L
    BY <1>1
  <2> QED
    BY <1>3, <2>1
<1> HIDE DEF acc
<1> DEFINE out == IF acc.start = 0 THEN acc.out ELSE Append(acc.out, SubSeq(s, acc.start, L))
<1>9. scan[L + 1].out = out
  <2>1. L + 1 > L /\ (L + 1) - 1 = L
    BY <1>1
  <2>2. L + 1 > Len(s)
    BY <2>1 DEF L
  <2>3. ScanStep(s, acc, L + 1) =
          [start |-> 0, out |-> IF acc.start = 0 THEN acc.out
                                ELSE Append(acc.out, SubSeq(s, acc.start, (L + 1) - 1))]
    BY <2>2, ScanStepIs
  <2>4. scan[L + 1] = [start |-> 0, out |-> IF acc.start = 0 THEN acc.out
                                            ELSE Append(acc.out, SubSeq(s, acc.start, L))]
    BY <1>8, <2>1, <2>3
  <2> QED
    BY <2>4
<1>10. out \in Seq(Seq(Char)) /\ Len(out) = FieldNo(s, L) /\ FieldsOut(s, out, L, 0)
  <2>1. L \in 0 .. Len(s) /\ L = Len(s)
    BY <1>1 DEF L
  <2> QED
    BY <1>7, <2>1, FieldCloses
<1> HIDE DEF out
<1>11. FieldNo(s, L) = Cardinality(FieldStarts(s)) /\ \A m \in FieldStarts(s) : m <= L /\ m # 0
  <2>1. FieldNo(s, L) = Cardinality(FieldStarts(s))
    BY FieldsCounted DEF L
  <2>2. \A m \in FieldStarts(s) : m <= L /\ m # 0
    BY <1>1, FieldsNumbered DEF L
  <2> QED
    BY <2>1, <2>2
<1> QED
  BY <1>2, <1>9, <1>10, <1>11 DEF FieldsOut

LEMMA SplitIsFields ==
  ASSUME NEW Char, NEW s \in Seq(Char)
  PROVE  splitAndTrim(s) = Fields(s)
<1> DEFINE C == Cardinality(FieldStarts(s))
           start(n) == CHOOSE i \in FieldStarts(s) : FieldNo(s, i) = n
           split == splitAndTrim(s)
<1>1. Fields(s) = [n \in 1 .. C |-> SubSeq(s, start(n), FieldEnd(s, start(n)))]
  BY DEF Fields, FieldNo, Rank
<1>2. \A n \in 1 .. C : start(n) \in FieldStarts(s) /\ FieldNo(s, start(n)) = n
  BY FieldsNumbered
<1>3. split \in Seq(Seq(Char)) /\ Len(split) = C
  BY ScannedFields
<1> HIDE DEF start
<1>4. \A n \in 1 .. C : split[n] = SubSeq(s, start(n), FieldEnd(s, start(n)))
  BY <1>2, ScannedFields
<1> HIDE DEF split, C
<1>5. split = [n \in 1 .. C |-> split[n]]
  BY <1>3
<1> QED
  BY <1>1, <1>4, <1>5 DEF split

(* A submission that is accepted as new asks for exactly the fields of its *)
(* list, at least one, and for at least one try of each: nothing that the  *)
(* client named is lost, and nothing is made up (expander/static.go:50,    *)
(* job.go withDefaults).                                                   *)
THEOREM AcceptedAsAsked == Spec => []AcceptedIsWhatWasAsked
<1>1. Init => SubmitInv
  BY DEF Init, SubmitInv
<1>2. SubmitInv => AcceptedIsWhatWasAsked
  <2> SUFFICES ASSUME SubmitInv, Answered("submit"), call.reply.status = 202,
                      call.request.scopeKind = "explicit", ~call.request.known
               PROVE  /\ call.reply.targets = Fields(call.request.ref)
                      /\ call.reply.targets # <<>> /\ call.reply.attempts >= 1
    BY DEF AcceptedIsWhatWasAsked
  <2> DEFINE r == call.request
             targets == Expand(r.scopeKind, r.ref, resolveTrigger(r))
             accepted == [status |-> 202, targets |-> targets, attempts |-> withDefaults(r.retries)]
  <2>1. call.reply = SubmitReply(r) /\ r.ref \in Seq(STRING) /\ r.retries \in Int
    BY SubmissionAssumption DEF SubmitInv, Answered
  <2>2. SubmitReply(r) = BadRequest \/ (SubmitReply(r) = accepted /\ targets # <<>>)
    BY DEF SubmitReply
  <2>3. SubmitReply(r) # BadRequest
    BY <2>1 DEF BadRequest
  <2>4. targets = splitAndTrim(r.ref)
    BY DEF Expand
  <2>5. targets = Fields(r.ref)
    BY <2>1, <2>4, SplitIsFields
  <2>6. withDefaults(r.retries) >= 1
    <3>1. DefaultAttempts \in Nat \ {0}
      BY RequestAssumption
    <3>2. \A n \in Int : withDefaults(n) >= 1
      BY <3>1 DEF withDefaults
    <3> QED
      BY <2>1, <3>2
  <2>7. accepted.targets = targets /\ accepted.attempts = withDefaults(r.retries)
    OBVIOUS
  <2> HIDE DEF r, targets, accepted
  <2>8. call.reply.targets = targets /\ call.reply.attempts = withDefaults(r.retries)
    BY <2>1, <2>2, <2>3, <2>7
  <2> QED
    BY <2>2, <2>3, <2>5, <2>6, <2>8 DEF r
<1> QED
  BY <1>1, <1>2, SubmitInvStep, PTL DEF Spec

-----------------------------------------------------------------------------
(* Pages. *)
EventKind == {"batch.created", "batch.completed", "batch.canceled",
              "job.claimed", "job.succeeded", "job.failed", "job.dead"}
Event == EventKind \X (Job \cup Batch)

LogInv ==
  /\ trail \in [Batch -> Seq(Event)]
  /\ listing \in Seq(Batch)

(* What is written down is never rewritten. *)
LogGrows ==
  \A b \in Batch : \E new \in Seq(Event) : trail'[b] = trail[b] \o new

LEMMA LoggedGrows ==
  ASSUME LogInv, NEW b \in Batch, NEW event \in Event, Logged(b, <<event>>)
  PROVE  trail' \in [Batch -> Seq(Event)] /\ LogGrows
<1>1. <<event>> \in Seq(Event) /\ <<>> \in Seq(Event)
  OBVIOUS
<1>2. trail' = [trail EXCEPT ![b] = trail[b] \o <<event>>]
  BY DEF Logged
<1>3. trail[b] \o <<event>> \in Seq(Event)
  BY <1>1, ConcatProperties DEF LogInv
<1>4. ASSUME NEW x \in Batch PROVE \E new \in Seq(Event) : trail'[x] = trail[x] \o new
  <2>1. CASE x = b
    BY <1>1, <1>2, <2>1 DEF LogInv
  <2>2. CASE x # b
    <3>1. trail'[x] = trail[x] /\ trail[x] \in Seq(Event)
      BY <1>2, <2>2 DEF LogInv
    <3>2. trail'[x] = trail[x] \o <<>>
      BY <3>1, ConcatEmptySeq
    <3> QED
      BY <1>1, <3>2
  <2> QED
    BY <2>1, <2>2
<1> QED
  BY <1>2, <1>3, <1>4 DEF LogInv, LogGrows

LEMMA SchedulerLogs ==
  ASSUME LogInv, Scheduler
  PROVE  trail' \in [Batch -> Seq(Event)] /\ LogGrows
<1>1. \A j \in Job : BatchOf[j] \in Batch
  BY ApiAssumption
<1> DEFINE Logs == \E x \in Batch, event \in Event : Logged(x, <<event>>)
<1>2. ASSUME NEW x \in Batch, NEW name \in EventKind, NEW y \in Job \cup Batch,
             Logged(x, <<<<name, y>>>>)
      PROVE  Logs
  <2>1. <<name, y>> \in Event
    BY DEF Event
  <2> QED
    BY <1>2, <2>1
<1>3. ASSUME NEW b \in Batch, Dispatch(b) \/ Close(b) \/ Cancel(b) PROVE Logs
  <2>1. PICK name \in {"batch.created", "batch.completed", "batch.canceled"} :
          Logged(b, <<<<name, b>>>>)
    BY <1>3, Zenon DEF Dispatch, Close, Cancel
  <2>2. name \in EventKind
    BY DEF EventKind
  <2> HIDE DEF Logs
  <2> QED
    BY <1>2, <2>1, <2>2
<1>4. ASSUME NEW j \in Job, Start(j) \/ Finish(j) \/ Miss(j) PROVE Logs
  <2>1. PICK name \in {"job.claimed", "job.succeeded", "job.failed", "job.dead"} :
          Logged(BatchOf[j], <<<<name, j>>>>)
    BY <1>4, Zenon DEF Start, Finish, Miss
  <2>2. name \in EventKind
    BY DEF EventKind
  <2> HIDE DEF Logs
  <2> QED
    BY <1>1, <1>2, <2>1, <2>2
<1> HIDE DEF Logs
<1>5. Logs
  BY <1>3, <1>4 DEF Scheduler
<1> QED
  BY <1>5, LoggedGrows DEF Logs

PageCall(kind, Row) ==
  [op : {kind}, done : BOOLEAN, of : Batch, param : LimitParam, had : Seq(Row), seen : Seq(Row)]

(* What one page adds to what was seen: the rows that follow, some if any  *)
(* are left.                                                               *)
Follows(page, rows, n) ==
  \E k \in n .. Len(rows) : page = SubSeq(rows, n + 1, k) /\ (k = n => n = Len(rows))

LEMMA PageFollows ==
  ASSUME NEW Row, NEW rows \in Seq(Row), NEW n \in 0 .. Len(rows),
         NEW kind, NEW param \in LimitParam
  PROVE  Follows(Page(rows, Limit(kind, param), n), rows, n)
<1> DEFINE limit == Limit(kind, param)
           to == n + normalizeLimit(limit)
           k == IF to > Len(rows) THEN Len(rows) ELSE to
<1>0. /\ DefaultLimit \in Nat \ {0} /\ EventLimit \in Nat \ {0} /\ MaxLimit \in Nat \ {0}
  BY RequestAssumption
<1>1. limit \in Int
  <2>1. CASE param = <<>>
    BY <1>0, <2>1 DEF Limit, atoiOr
  <2>2. CASE param # <<>>
    <3>1. param[1] \in Int
      <4>1. param \in Seq(Int)
        BY ApiAssumption
      <4> QED
        BY <2>2, <4>1
    <3>2. limit = param[1]
      BY <2>2 DEF Limit, atoiOr
    <3> QED
      BY <3>1, <3>2
  <2> QED
    BY <2>1, <2>2
<1>2. normalizeLimit(limit) \in Nat \ {0}
  <2> HIDE DEF limit
  <2> QED
    BY <1>0, <1>1 DEF normalizeLimit
<1>3. Len(rows) \in Nat
  OBVIOUS
<1>4. k \in n .. Len(rows) /\ (k = n => n = Len(rows))
  BY <1>2, <1>3
<1>5. Page(rows, limit, n) = SubSeq(rows, n + 1, k)
  <2>1. ~(n < 0)
    OBVIOUS
  <2> HIDE DEF limit
  <2> QED
    BY <2>1 DEF Page
<1> QED
  BY <1>4, <1>5 DEF Follows

EventInv ==
  /\ LogInv
  /\ call.op = "events" =>
       /\ call \in PageCall("events", Event)
       /\ \E n \in 0 .. Len(trail[call.of]) : call.seen = SubSeq(trail[call.of], 1, n)

(* A prefix of what is written down stays one.                             *)
LEMMA PrefixStays ==
  ASSUME NEW s \in Seq(Event), NEW new \in Seq(Event), NEW n \in 0 .. Len(s)
  PROVE  SubSeq(s \o new, 1, n) = SubSeq(s, 1, n) /\ Len(s \o new) = Len(s) + Len(new)
<1>1. CASE n = 0
  BY <1>1, SubSeqEmpty, ConcatProperties
<1>2. CASE n # 0
  BY <1>2, SubSeqOfConcat1, ConcatProperties
<1> QED
  BY <1>1, <1>2

LEMMA SchedulerKeepsEvents ==
  ASSUME EventInv, Scheduler, listing' \in Seq(Batch)
  PROVE  EventInv'
<1>1. trail' \in [Batch -> Seq(Event)] /\ LogGrows /\ call' = call
  BY SchedulerLogs DEF EventInv, Scheduler
<1>2. ASSUME call.op = "events"
      PROVE  \E n \in 0 .. Len(trail'[call.of]) : call.seen = SubSeq(trail'[call.of], 1, n)
  <2>1. call.of \in Batch
    BY <1>2 DEF EventInv, PageCall
  <2>2. PICK n \in 0 .. Len(trail[call.of]) : call.seen = SubSeq(trail[call.of], 1, n)
    BY <1>2 DEF EventInv
  <2>3. PICK new \in Seq(Event) : trail'[call.of] = trail[call.of] \o new
    BY <1>1, <2>1 DEF LogGrows
  <2>4. trail[call.of] \in Seq(Event)
    BY <2>1 DEF EventInv, LogInv
  <2>5. call.seen = SubSeq(trail'[call.of], 1, n) /\ n \in 0 .. Len(trail'[call.of])
    BY <2>2, <2>3, <2>4, PrefixStays
  <2> QED
    BY <2>5
<1> QED
  BY <1>1, <1>2 DEF EventInv, LogInv

LEMMA NextPageKeepsEvents ==
  ASSUME EventInv, NextPage
  PROVE  EventInv'
<1>1. UNCHANGED <<trail, listing>>
  BY DEF NextPage, tables
<1> SUFFICES ASSUME call'.op = "events"
             PROVE  /\ call' \in PageCall("events", Event)
                    /\ \E n \in 0 .. Len(trail[call.of]) : call'.seen = SubSeq(trail[call.of], 1, n)
                    /\ call'.of = call.of
  BY <1>1 DEF EventInv, LogInv
<1> DEFINE rows == trail[call.of]
           page == Page(rows, Limit("events", call.param), Len(call.seen))
<1>2. call.op = "events"
  <2>1. PICK seen, done : call' = [call EXCEPT !.seen = seen, !.done = done]
    BY DEF NextPage
  <2> QED
    BY <2>1
<1>3. call \in PageCall("events", Event) /\ rows \in Seq(Event) /\ Len(rows) \in Nat
  BY <1>2 DEF EventInv, LogInv, PageCall
<1>4. PICK n \in 0 .. Len(rows) : call.seen = SubSeq(rows, 1, n)
  BY <1>2 DEF EventInv
<1>5. Len(call.seen) = n
  BY <1>3, <1>4
<1>6. PICK k \in n .. Len(rows) : page = SubSeq(rows, n + 1, k)
  <2>1. call.param \in LimitParam
    BY <1>3 DEF PageCall
  <2> HIDE DEF rows
  <2>2. Follows(Page(rows, Limit("events", call.param), n), rows, n)
    BY <1>3, <2>1, PageFollows
  <2> QED
    BY <1>5, <2>2 DEF Follows
<1>7. call.seen \o page = SubSeq(rows, 1, k) /\ SubSeq(rows, 1, k) \in Seq(Event)
  <2>1. 1 \in 1 .. Len(rows) + 1 /\ n \in 1 - 1 .. Len(rows)
    BY <1>3
  <2>2. SubSeq(rows, 1, n) \o SubSeq(rows, n + 1, k) = SubSeq(rows, 1, k)
    BY <1>3, <2>1, ConcatAdjacentSubSeq
  <2>3. \A i \in 1 .. k : rows[i] \in Event
    BY <1>3, <1>6
  <2>4. SubSeq(rows, 1, k) \in Seq(Event)
    BY <1>3, <1>6, <2>3, SubSeqProperties
  <2> QED
    BY <1>4, <1>6, <2>2, <2>4
<1>8. call' = [call EXCEPT !.seen = call.seen \o page, !.done = page = <<>>]
  BY <1>2 DEF NextPage, Rows
<1> HIDE DEF page, rows
<1>9. call' \in PageCall("events", Event) /\ call'.seen = call.seen \o page /\ call'.of = call.of
  BY <1>3, <1>7, <1>8 DEF PageCall
<1>10. k \in 0 .. Len(rows)
  BY <1>3, <1>4, <1>6
<1> QED
  BY <1>7, <1>9, <1>10 DEF rows

-----------------------------------------------------------------------------
(* The listing of batches.  New rows only push the others back: what stood *)
(* among the first n rows and is among them still has been seen.           *)
InTable == \A i \in DOMAIN listing : batch[listing[i]] # "absent"

BatchPageInv ==
  call.op = "batches" =>
    /\ call \in PageCall("batches", Batch)
    /\ ToSet(call.had) \subseteq ToSet(listing) /\ Len(call.seen) <= Len(listing)
    /\ \A i \in DOMAIN listing : i <= Len(call.seen) /\ listing[i] \in ToSet(call.had) =>
         listing[i] \in ToSet(call.seen)
    /\ PagesMissNoBatch

ListingInv == listing \in Seq(Batch) /\ InTable /\ BatchPageInv

LEMMA InsertedAt ==
  ASSUME NEW s \in Seq(Batch), NEW k \in 1 .. Len(s) + 1, NEW b \in Batch
  PROVE  /\ InsertAt(s, k, b) \in Seq(Batch) /\ Len(InsertAt(s, k, b)) = Len(s) + 1
         /\ \A i \in 1 .. Len(s) + 1 :
              InsertAt(s, k, b)[i] = IF i < k THEN s[i] ELSE IF i = k THEN b ELSE s[i - 1]
<1> DEFINE u == SubSeq(s, 1, k - 1)
           v == SubSeq(s, k, Len(s))
<1>1. /\ u \in Seq(Batch) /\ Len(u) = k - 1 /\ \A i \in 1 .. k - 1 : u[i] = s[i]
  <2>1. \A i \in 1 .. k - 1 : s[i] \in Batch
    OBVIOUS
  <2> QED
    BY <2>1, SubSeqProperties
<1>2. /\ v \in Seq(Batch) /\ Len(v) = Len(s) - k + 1
      /\ \A i \in 1 .. Len(s) - k + 1 : v[i] = s[k + i - 1]
  <2>1. \A i \in k .. Len(s) : s[i] \in Batch
    OBVIOUS
  <2> QED
    BY <2>1, SubSeqProperties
<1> HIDE DEF u, v
<1>3. /\ <<b>> \in Seq(Batch) /\ Len(<<b>>) = 1 /\ <<b>>[1] = b
  OBVIOUS
<1>4. /\ u \o <<b>> \in Seq(Batch) /\ Len(u \o <<b>>) = k
      /\ \A i \in 1 .. k : (u \o <<b>>)[i] = IF i < k THEN s[i] ELSE b
  BY <1>1, <1>3, ConcatProperties
<1> DEFINE w == u \o <<b>>
<1> HIDE DEF w
<1>5. /\ w \in Seq(Batch) /\ Len(w) = k
      /\ \A i \in 1 .. k : w[i] = IF i < k THEN s[i] ELSE b
  BY <1>4 DEF w
<1>6. /\ w \o v \in Seq(Batch) /\ Len(w \o v) = Len(s) + 1
      /\ \A i \in 1 .. Len(s) + 1 :
           (w \o v)[i] = IF i < k THEN s[i] ELSE IF i = k THEN b ELSE s[i - 1]
  <2>1. /\ w \o v \in Seq(Batch) /\ Len(w \o v) = Len(w) + Len(v)
        /\ \A i \in 1 .. Len(w) + Len(v) : (w \o v)[i] = IF i <= Len(w) THEN w[i] ELSE v[i - Len(w)]
    BY <1>2, <1>5, ConcatProperties
  <2>2. Len(w) + Len(v) = Len(s) + 1
    BY <1>2, <1>5
  <2>3. ASSUME NEW i \in 1 .. Len(s) + 1
        PROVE  (w \o v)[i] = IF i < k THEN s[i] ELSE IF i = k THEN b ELSE s[i - 1]
    <3>1. CASE i <= k
      BY <1>5, <2>1, <2>2, <3>1
    <3>2. CASE i > k
      <4>1. i - k \in 1 .. Len(s) - k + 1 /\ k + (i - k) - 1 = i - 1
        BY <3>2
      <4> QED
        BY <1>2, <1>5, <2>1, <2>2, <3>2, <4>1
    <3>3. i <= k \/ i > k
      OBVIOUS
    <3> QED
      BY <3>1, <3>2, <3>3
  <2> QED
    BY <2>1, <2>2, <2>3
<1> QED
  BY <1>6 DEF InsertAt, u, v, w

LEMMA SchedulerKeepsBatchPages ==
  ASSUME TablesInv, ListingInv, Scheduler
  PROVE  ListingInv'
<1>1. call' = call
  BY DEF Scheduler
<1>2. ASSUME listing' = listing, \A b \in Batch : batch[b] # "absent" => batch'[b] # "absent"
      PROVE  ListingInv'
  <2>1. \A i \in DOMAIN listing : listing[i] \in Batch
    BY DEF ListingInv
  <2>2. InTable'
    BY <1>2, <2>1 DEF ListingInv, InTable
  <2> QED
    BY <1>1, <1>2, <2>2 DEF ListingInv, BatchPageInv, PagesMissNoBatch, Answered
<1>3. ASSUME NEW b \in Batch, Dispatch(b) PROVE ListingInv'
  <2>1. PICK k \in 1 .. Len(listing) + 1 : listing' = InsertAt(listing, k, b)
    BY <1>3 DEF Dispatch
  <2>2. batch[b] = "absent" /\ batch' = [batch EXCEPT ![b] = "open"]
    BY <1>3 DEF Dispatch, Life!Dispatch
  <2>3. listing \in Seq(Batch) /\ Len(listing) \in Nat
    BY DEF ListingInv
  <2>4. /\ listing' \in Seq(Batch) /\ Len(listing') = Len(listing) + 1
        /\ \A i \in 1 .. Len(listing) + 1 :
             listing'[i] = IF i < k THEN listing[i] ELSE IF i = k THEN b ELSE listing[i - 1]
    <3> DEFINE t == InsertAt(listing, k, b)
    <3>1. /\ t \in Seq(Batch) /\ Len(t) = Len(listing) + 1
          /\ \A i \in 1 .. Len(listing) + 1 :
               t[i] = IF i < k THEN listing[i] ELSE IF i = k THEN b ELSE listing[i - 1]
      BY <2>3, InsertedAt
    <3>2. listing' = t
      BY <2>1
    <3> HIDE DEF t
    <3> QED
      BY <3>1, <3>2
  <2>5. \A i \in 1 .. Len(listing) : listing[i] \in Batch /\ batch[listing[i]] # "absent"
    BY <2>3 DEF ListingInv, InTable
  <2>6. InTable'
    <3> SUFFICES ASSUME NEW i \in 1 .. Len(listing) + 1 PROVE batch'[listing'[i]] # "absent"
      BY <2>4 DEF InTable
    <3>1. CASE i < k
      BY <2>2, <2>3, <2>4, <2>5, <3>1 DEF TablesInv
    <3>2. CASE i = k
      BY <2>2, <2>3, <2>4, <3>2 DEF TablesInv
    <3>3. CASE i > k
      <4>1. i - 1 \in 1 .. Len(listing) /\ listing'[i] = listing[i - 1]
        BY <2>3, <2>4, <3>3
      <4> QED
        BY <2>2, <2>5, <4>1 DEF TablesInv
    <3>4. i < k \/ i = k \/ i > k
      BY <2>3
    <3> QED
      BY <3>1, <3>2, <3>3, <3>4
  <2>7. ASSUME call.op = "batches" PROVE BatchPageInv'
    <3>1. /\ call \in PageCall("batches", Batch) /\ PagesMissNoBatch
          /\ ToSet(call.had) \subseteq ToSet(listing) /\ Len(call.seen) <= Len(listing)
          /\ \A i \in 1 .. Len(listing) : i <= Len(call.seen) /\ listing[i] \in ToSet(call.had) =>
               listing[i] \in ToSet(call.seen)
      BY <2>3, <2>7 DEF ListingInv, BatchPageInv
    <3>2. Len(call.seen) \in Nat
      BY <3>1 DEF PageCall
    <3>3. b \notin ToSet(call.had)
      <4>1. b \notin ToSet(listing)
        BY <2>2, <2>3, <2>5 DEF ToSet
      <4> QED
        BY <3>1, <4>1
    <3>4. ToSet(listing) \subseteq ToSet(listing')
      <4>1. ASSUME NEW i \in 1 .. Len(listing)
            PROVE  \E n \in 1 .. Len(listing) + 1 : listing'[n] = listing[i]
        <5>1. CASE i < k
          <6>1. i \in 1 .. Len(listing) + 1 /\ listing'[i] = listing[i]
            BY <2>3, <2>4, <5>1
          <6> QED
            BY <6>1
        <5>2. CASE i >= k
          <6>1. i + 1 \in 1 .. Len(listing) + 1 /\ listing'[i + 1] = listing[i]
            BY <2>3, <2>4, <5>2
          <6> QED
            BY <6>1
        <5>3. i < k \/ i >= k
          BY <2>3
        <5> QED
          BY <5>1, <5>2, <5>3
      <4>2. DOMAIN listing = 1 .. Len(listing) /\ DOMAIN listing' = 1 .. Len(listing) + 1
        BY <2>3, <2>4
      <4> QED
        BY <4>1, <4>2 DEF ToSet
    <3>5. ASSUME NEW i \in 1 .. Len(listing) + 1,
                 i <= Len(call.seen), listing'[i] \in ToSet(call.had)
          PROVE  listing'[i] \in ToSet(call.seen)
      <4>1. CASE i < k
        BY <2>3, <2>4, <3>1, <3>5, <4>1
      <4>2. CASE i = k
        BY <2>4, <3>3, <3>5, <4>2
      <4>3. CASE i > k
        <5>1. i - 1 \in 1 .. Len(listing) /\ listing'[i] = listing[i - 1] /\ i - 1 <= Len(call.seen)
          BY <2>3, <2>4, <3>2, <3>5, <4>3
        <5> QED
          BY <3>1, <3>5, <5>1
      <4>4. i < k \/ i = k \/ i > k
        BY <2>3
      <4> QED
        BY <4>1, <4>2, <4>3, <4>4
    <3>6. PagesMissNoBatch'
      BY <1>1, <3>1 DEF PagesMissNoBatch, Answered
    <3>7. DOMAIN listing' = 1 .. Len(listing) + 1 /\ Len(call.seen) <= Len(listing')
      BY <2>3, <2>4, <3>1, <3>2
    <3> QED
      BY <1>1, <3>1, <3>4, <3>5, <3>6, <3>7 DEF BatchPageInv
  <2> QED
    BY <1>1, <2>4, <2>6, <2>7 DEF ListingInv, BatchPageInv
<1>4. ASSUME NEW b \in Batch, Close(b) \/ Cancel(b) PROVE ListingInv'
  BY <1>2, <1>4 DEF Close, Cancel, Life!Close, Life!Cancel, TablesInv
<1>5. ASSUME NEW j \in Job, Start(j) \/ Finish(j) \/ Miss(j) PROVE ListingInv'
  BY <1>2, <1>5 DEF Start, Finish, Miss, Life!Start, Life!Finish, Life!Miss
<1> QED
  BY <1>3, <1>4, <1>5 DEF Scheduler

(* What was seen and the next page, row by row.                            *)
Extends(s, page, rows) ==
  \E k \in Len(s) .. Len(rows) :
    /\ s \o page \in Seq(Batch) /\ Len(s \o page) = k
    /\ \A i \in 1 .. k : (s \o page)[i] = IF i <= Len(s) THEN s[i] ELSE rows[i]
    /\ page = <<>> => k = Len(rows)

LEMMA PageExtends ==
  ASSUME NEW rows \in Seq(Batch), NEW s \in Seq(Batch), Len(s) <= Len(rows),
         NEW param \in LimitParam, NEW page, page = Page(rows, Limit("batches", param), Len(s))
  PROVE  Extends(s, page, rows)
<1> DEFINE n == Len(s)
<1>1. n \in 0 .. Len(rows) /\ n \in Nat /\ Len(rows) \in Nat
  OBVIOUS
<1> HIDE DEF n
<1>2. PICK k \in n .. Len(rows) : page = SubSeq(rows, n + 1, k) /\ (k = n => n = Len(rows))
  <2>1. Follows(Page(rows, Limit("batches", param), n), rows, n)
    BY <1>1, PageFollows
  <2> QED
    BY <2>1 DEF n, Follows
<1>3. k \in Int /\ n <= k /\ k <= Len(rows)
  BY <1>1, <1>2
<1>4. page \in Seq(Batch) /\ Len(page) = k - n /\ \A i \in 1 .. k - n : page[i] = rows[n + i]
  <2>1. \A i \in n + 1 .. k : rows[i] \in Batch
    BY <1>1, <1>3
  <2> DEFINE p == SubSeq(rows, n + 1, k)
  <2>2. /\ p \in Seq(Batch) /\ Len(p) = IF n + 1 <= k THEN k - (n + 1) + 1 ELSE 0
        /\ \A i \in 1 .. k - (n + 1) + 1 : p[i] = rows[(n + 1) + i - 1]
    <3>1. n + 1 \in Int
      BY <1>1
    <3> QED
      BY <1>3, <2>1, <3>1, SubSeqProperties
  <2> HIDE DEF p
  <2>3. Len(p) = k - n /\ k - (n + 1) + 1 = k - n
    BY <1>1, <1>3, <2>2
  <2>4. \A i \in 1 .. k - n : (n + 1) + i - 1 = n + i
    BY <1>1, <1>3
  <2>5. p = page
    BY <1>2 DEF p
  <2> QED
    BY <2>2, <2>3, <2>4, <2>5
<1>5. /\ s \o page \in Seq(Batch) /\ Len(s \o page) = n + (k - n)
      /\ \A i \in 1 .. n + (k - n) : (s \o page)[i] = IF i <= n THEN s[i] ELSE page[i - n]
  BY <1>4, ConcatProperties DEF n
<1>6. n + (k - n) = k
  BY <1>1, <1>3
<1>7. ASSUME NEW i \in 1 .. k PROVE (s \o page)[i] = IF i <= n THEN s[i] ELSE rows[i]
  <2>1. CASE i <= n
    BY <1>5, <1>6, <2>1
  <2>2. CASE ~(i <= n)
    <3>1. i - n \in 1 .. k - n /\ n + (i - n) = i
      BY <1>1, <1>3, <2>2
    <3> QED
      BY <1>4, <1>5, <1>6, <2>2, <3>1
  <2> QED
    BY <2>1, <2>2
<1>8. page = <<>> => k = Len(rows)
  BY <1>1, <1>2, <1>3, <1>4
<1> QED
  BY <1>2, <1>5, <1>6, <1>7, <1>8 DEF n, Extends

LEMMA NextPageKeepsBatchPages ==
  ASSUME ListingInv, NextPage
  PROVE  ListingInv'
<1>1. UNCHANGED <<listing, batch>>
  BY DEF NextPage, tables
<1>2. listing \in Seq(Batch) /\ Len(listing) \in Nat /\ DOMAIN listing = 1 .. Len(listing)
  BY DEF ListingInv
<1> SUFFICES ASSUME call'.op = "batches" PROVE BatchPageInv'
  BY <1>1 DEF ListingInv, InTable, BatchPageInv
<1> DEFINE page == Page(listing, Limit("batches", call.param), Len(call.seen))
           seen == call.seen \o page
<1>3. call.op = "batches"
  <2>1. PICK s, d : call' = [call EXCEPT !.seen = s, !.done = d]
    BY DEF NextPage
  <2> QED
    BY <2>1
<1>4. /\ call \in PageCall("batches", Batch)
      /\ ToSet(call.had) \subseteq ToSet(listing) /\ Len(call.seen) <= Len(listing)
      /\ \A i \in 1 .. Len(listing) : i <= Len(call.seen) /\ listing[i] \in ToSet(call.had) =>
           listing[i] \in ToSet(call.seen)
  BY <1>2, <1>3 DEF ListingInv, BatchPageInv
<1>5. call' = [call EXCEPT !.seen = seen, !.done = page = <<>>]
  BY <1>3 DEF NextPage, Rows, BatchRows
<1>6. call.seen \in Seq(Batch) /\ Len(call.seen) \in Nat /\ call.param \in LimitParam
  BY <1>4 DEF PageCall
<1> DEFINE n == Len(call.seen)
<1>7. n \in Nat /\ n <= Len(listing)
  BY <1>4, <1>6
<1>8. PICK k \in n .. Len(listing) :
        /\ seen \in Seq(Batch) /\ Len(seen) = k
        /\ \A i \in 1 .. k : seen[i] = IF i <= n THEN call.seen[i] ELSE listing[i]
        /\ page = <<>> => k = Len(listing)
  <2> DEFINE s == call.seen
             param == call.param
             rows == listing
  <2>1. /\ rows \in Seq(Batch) /\ s \in Seq(Batch) /\ Len(s) <= Len(rows) /\ param \in LimitParam
        /\ page = Page(rows, Limit("batches", param), Len(s))
    BY <1>2, <1>4, <1>6
  <2> HIDE DEF s, param, rows, page
  <2>2. Extends(s, page, rows)
    BY <2>1, PageExtends
  <2> QED
    BY <2>2 DEF s, rows, Extends
<1> HIDE DEF seen, page
<1>9. k \in Int /\ n <= k /\ k <= Len(listing)
  <2> HIDE DEF n
  <2> QED
    BY <1>2, <1>7, SMTT(30)
<1>10. ToSet(call.seen) \subseteq ToSet(seen)
  <2>1. \A i \in 1 .. n : i \in 1 .. k /\ seen[i] = call.seen[i]
    BY <1>7, <1>8, <1>9
  <2>2. DOMAIN call.seen = 1 .. n /\ DOMAIN seen = 1 .. k
    BY <1>6, <1>8
  <2> QED
    BY <2>1, <2>2 DEF ToSet
<1>11. \A i \in 1 .. k : listing[i] \in ToSet(call.had) => listing[i] \in ToSet(seen)
  <2> SUFFICES ASSUME NEW i \in 1 .. k, listing[i] \in ToSet(call.had)
               PROVE  listing[i] \in ToSet(seen)
    OBVIOUS
  <2>1. CASE i <= n
    <3>1. i \in 1 .. Len(listing)
      BY <1>2, <1>9
    <3> QED
      BY <1>4, <1>10, <2>1, <3>1
  <2>2. CASE ~(i <= n)
    <3>1. seen[i] = listing[i] /\ i \in DOMAIN seen
      BY <1>8, <2>2
    <3> QED
      BY <3>1 DEF ToSet
  <2> QED
    BY <2>1, <2>2
<1>12. /\ call' \in PageCall("batches", Batch) /\ call'.seen = seen
       /\ call'.had = call.had /\ call'.done = (page = <<>>)
  BY <1>4, <1>5, <1>8 DEF PageCall
<1>13. page = <<>> => ToSet(call.had) \subseteq ToSet(seen)
  <2> SUFFICES ASSUME page = <<>> PROVE ToSet(call.had) \subseteq ToSet(seen)
    OBVIOUS
  <2>1. k = Len(listing)
    BY <1>8
  <2> QED
    BY <1>2, <1>4, <1>11, <2>1 DEF ToSet
<1>14. PagesMissNoBatch'
  BY <1>12, <1>13 DEF PagesMissNoBatch, Answered
<1>15. \A i \in 1 .. Len(listing) : i <= k /\ listing[i] \in ToSet(call.had) => listing[i] \in ToSet(seen)
  BY <1>2, <1>9, <1>11
<1> QED
  BY <1>1, <1>2, <1>4, <1>8, <1>9, <1>12, <1>14, <1>15 DEF BatchPageInv

-----------------------------------------------------------------------------
(* The listing of a batch's jobs.  A batch's jobs come all at once and     *)
(* never go, and their order never changes.                                *)

(* The place of a job in the listing is one for each job.                  *)
LEMMA JobsListed ==
  ASSUME NEW b
  PROVE  /\ JobRows(b) \in Seq(Job) /\ Len(JobRows(b)) = Cardinality(JobsStored(b))
         /\ \A m, n \in 1 .. Len(JobRows(b)) : JobRows(b)[m] = JobRows(b)[n] => m = n
         /\ ToSet(JobRows(b)) = JobsStored(b)
<1> DEFINE S == JobsStored(b)
           N == Cardinality(S)
           place(j) == Place(S, JobOrder, j)
           rows == [n \in 1 .. N |-> CHOOSE j \in S : place(j) = n]
<1>1. JobRows(b) = rows
  BY DEF JobRows, Place
<1>2. /\ S \subseteq Job /\ IsFiniteSet(S) /\ \A j \in S : JobOrder[j] \in Int
      /\ \A i, j \in S : JobOrder[i] = JobOrder[j] => i = j
  <2>1. S \subseteq Job
    BY DEF JobsStored, JobsOf
  <2> QED
    BY <2>1, ApiAssumption, FS_Subset DEF IsInjective
<1> HIDE DEF S
<1>3. /\ N \in Nat
      /\ \A j \in S : place(j) \in 1 .. N
      /\ \A i, j \in S : place(i) = place(j) => i = j
      /\ \A n \in 1 .. N : \E j \in S : place(j) = n
  BY <1>2, PlacesAreRanks DEF IntegerRanks, PlacesRun
<1> HIDE DEF N, place
<1>4. \A n \in 1 .. N : rows[n] \in S /\ place(rows[n]) = n
  BY <1>3
<1>5. \A j \in S : place(j) \in 1 .. N /\ rows[place(j)] = j
  BY <1>3, <1>4
<1>6. DOMAIN rows = 1 .. N /\ rows \in Seq(Job) /\ Len(rows) = N
  <2>1. rows \in [1 .. N -> Job]
    BY <1>2, <1>4
  <2> HIDE DEF rows
  <2> QED
    BY <1>3, <2>1
<1> HIDE DEF rows
<1>7. ToSet(rows) = S
  BY <1>4, <1>5, <1>6 DEF ToSet
<1>8. \A m, n \in 1 .. N : rows[m] = rows[n] => m = n
  BY <1>4
<1> QED
  BY <1>1, <1>6, <1>7, <1>8 DEF S, N

(* What was read of a listing, and the page after it.                      *)
GrowsTo(rows, n, page, Row) ==
  \E k \in n .. Len(rows) :
    /\ SubSeq(rows, 1, n) \o page = SubSeq(rows, 1, k)
    /\ SubSeq(rows, 1, k) \in Seq(Row) /\ Len(SubSeq(rows, 1, k)) = k
    /\ page = <<>> => k = Len(rows)

LEMMA PrefixGrows ==
  ASSUME NEW Row, NEW rows \in Seq(Row), NEW n \in 0 .. Len(rows),
         NEW kind, NEW param \in LimitParam,
         NEW page, page = Page(rows, Limit(kind, param), n)
  PROVE  GrowsTo(rows, n, page, Row)
<1>1. PICK k \in n .. Len(rows) : page = SubSeq(rows, n + 1, k) /\ (k = n => n = Len(rows))
  <2>1. Follows(page, rows, n)
    BY PageFollows
  <2> QED
    BY <2>1 DEF Follows
<1>2. Len(rows) \in Nat /\ n \in Nat /\ k \in Nat /\ n <= k /\ k <= Len(rows)
  BY <1>1
<1>3. SubSeq(rows, 1, n) \o page = SubSeq(rows, 1, k)
  <2>1. 1 \in 1 .. Len(rows) + 1 /\ n \in 1 - 1 .. Len(rows)
    BY <1>2
  <2> QED
    BY <1>1, <2>1, ConcatAdjacentSubSeq
<1>4. SubSeq(rows, 1, k) \in Seq(Row) /\ Len(SubSeq(rows, 1, k)) = k
  <2>1. \A i \in 1 .. k : rows[i] \in Row
    BY <1>2
  <2> QED
    BY <1>2, <2>1, SubSeqProperties
<1>5. page = <<>> => k = Len(rows)
  <2>1. Len(page) = k - n
    <3>1. \A i \in n + 1 .. k : rows[i] \in Row
      BY <1>2
    <3>2. Len(SubSeq(rows, n + 1, k)) = IF n + 1 <= k THEN k - (n + 1) + 1 ELSE 0
      BY <1>2, <3>1, SubSeqProperties
    <3> QED
      BY <1>1, <1>2, <3>2
  <2> QED
    BY <1>1, <1>2, <2>1
<1> QED
  BY <1>1, <1>3, <1>4, <1>5 DEF GrowsTo

(* A batch's jobs are stored with it. *)
StoredWithBatch == \A j \in Job : state[j] = "absent" <=> batch[BatchOf[j]] = "absent"

JobPageInv ==
  call.op = "jobs" =>
    /\ call \in PageCall("jobs", Job)
    /\ call.had \in {<<>>, JobRows(call.of)}
    /\ \E n \in 0 .. Len(JobRows(call.of)) : call.seen = SubSeq(JobRows(call.of), 1, n)
    /\ call.done => call.had = <<>> \/ call.seen = JobRows(call.of)

JobsInv == StoredWithBatch /\ JobPageInv

LEMMA StoredAtOnce ==
  ASSUME TablesInv, StoredWithBatch,
         \/ \E b \in Batch : Dispatch(b) \/ Close(b) \/ Cancel(b)
         \/ \E j \in Job : Start(j) \/ Finish(j) \/ Miss(j)
  PROVE  /\ StoredWithBatch'
         /\ \A b \in Batch : JobsStored(b)' = JobsStored(b) \/ JobsStored(b) = {}
<1> USE ApiAssumption DEF TablesInv, StoredWithBatch, JobsStored, JobsOf, Life!Settled, Ended
<1> DEFINE Goal == /\ StoredWithBatch'
                   /\ \A b \in Batch : JobsStored(b)' = JobsStored(b) \/ JobsStored(b) = {}
<1>1. ASSUME NEW b \in Batch, Dispatch(b) PROVE Goal
  <2>1. /\ batch' = [batch EXCEPT ![b] = "open"]
        /\ state' = [j \in Job |-> IF BatchOf[j] = b THEN "pending" ELSE state[j]]
        /\ batch[b] = "absent"
    BY <1>1 DEF Dispatch, Life!Dispatch
  <2>2. JobsStored(b) = {}
    BY <2>1
  <2>3. ASSUME NEW x \in Batch, x # b PROVE JobsStored(x)' = JobsStored(x)
    BY <2>1, <2>3
  <2>4. StoredWithBatch'
    BY <2>1
  <2> QED
    BY <2>2, <2>3, <2>4
<1>2. ASSUME NEW b \in Batch, Close(b) PROVE Goal
  <2>1. /\ batch' = [x \in Batch |-> IF x \in {b} THEN "done" ELSE batch[x]]
        /\ state' = state /\ batch[b] = "open"
    BY <1>2 DEF Close, Life!Close
  <2> QED
    BY <2>1
<1>3. ASSUME NEW b \in Batch, Cancel(b) PROVE Goal
  <2>1. /\ batch' = [batch EXCEPT ![b] = "canceled"] /\ batch[b] = "open"
        /\ state' = [j \in Job |-> IF BatchOf[j] = b /\ ~Life!Settled(j)
                                   THEN "canceled" ELSE state[j]]
    BY <1>3 DEF Cancel, Life!Cancel
  <2>2. \A j \in Job : state'[j] = "absent" <=> state[j] = "absent"
    BY <2>1
  <2> QED
    BY <2>1, <2>2
<1>4. ASSUME NEW j \in Job, Start(j) \/ Finish(j) \/ Miss(j) PROVE Goal
  <2>1. batch' = batch /\ \A i \in Job : state'[i] = "absent" <=> state[i] = "absent"
    BY <1>4 DEF Start, Finish, Miss, Life!Start, Life!Finish, Life!Miss
  <2> QED
    BY <2>1
<1> QED
  BY <1>1, <1>2, <1>3, <1>4

LEMMA JobRowsType == \A x : JobRows(x) \in Seq(Job)
BY JobsListed

(* Only a listing that was empty changes. *)
LEMMA JobRowsStay ==
  ASSUME NEW b \in Batch, JobsStored(b)' = JobsStored(b) \/ JobsStored(b) = {}
  PROVE  JobRows(b)' = JobRows(b) \/ JobRows(b) = <<>>
<1>1. CASE JobsStored(b)' = JobsStored(b)
  BY <1>1 DEF JobRows
<1>2. CASE JobsStored(b) = {}
  <2>1. JobRows(b) \in Seq(Job) /\ Len(JobRows(b)) = 0
    BY <1>2, JobsListed, FS_EmptySet
  <2> QED
    BY <2>1
<1> QED
  BY <1>1, <1>2

LEMMA SchedulerKeepsJobPages ==
  ASSUME TablesInv, JobsInv, Scheduler
  PROVE  JobsInv'
<1>1. /\ call' = call /\ StoredWithBatch'
      /\ \A b \in Batch : JobsStored(b)' = JobsStored(b) \/ JobsStored(b) = {}
  BY StoredAtOnce DEF JobsInv, Scheduler
<1> SUFFICES ASSUME call.op = "jobs" PROVE JobPageInv'
  BY <1>1 DEF JobsInv, JobPageInv
<1> DEFINE b == call.of
<1>2. /\ call \in PageCall("jobs", Job) /\ b \in Batch
      /\ call.had \in {<<>>, JobRows(b)}
      /\ \E n \in 0 .. Len(JobRows(b)) : call.seen = SubSeq(JobRows(b), 1, n)
      /\ call.done => call.had = <<>> \/ call.seen = JobRows(b)
  BY DEF JobsInv, JobPageInv, PageCall
<1>3. CASE JobRows(b)' = JobRows(b)
  BY <1>1, <1>2, <1>3 DEF JobPageInv
<1>4. CASE JobRows(b) = <<>>
  <2>1. call.had = <<>> /\ call.seen = <<>>
    BY <1>2, <1>4, SubSeqEmpty
  <2>2. JobRows(b)' \in Seq(Job)
    <3>1. (\A x : JobRows(x) \in Seq(Job))'
      BY JobRowsType, PTL
    <3> QED
      BY <3>1
  <2>3. SubSeq(JobRows(b)', 1, 0) = <<>> /\ 0 \in 0 .. Len(JobRows(b)')
    BY <2>2, SubSeqEmpty
  <2> QED
    BY <1>1, <1>2, <2>1, <2>3 DEF JobPageInv
<1> QED
  BY <1>1, <1>2, <1>3, <1>4, JobRowsStay

LEMMA NextPageKeepsJobPages ==
  ASSUME JobsInv, NextPage
  PROVE  JobsInv'
<1>1. UNCHANGED <<state, batch>>
  BY DEF NextPage, tables
<1> SUFFICES ASSUME call'.op = "jobs" PROVE JobPageInv'
  BY <1>1 DEF JobsInv, StoredWithBatch, JobPageInv
<1>2. call.op = "jobs"
  <2>1. PICK seen, done : call' = [call EXCEPT !.seen = seen, !.done = done]
    BY DEF NextPage
  <2> QED
    BY <2>1
<1> DEFINE b == call.of
           rows == JobRows(b)
           page == Page(rows, Limit("jobs", call.param), Len(call.seen))
<1>3. /\ call \in PageCall("jobs", Job) /\ rows \in Seq(Job) /\ Len(rows) \in Nat
      /\ call.had \in {<<>>, rows}
  BY <1>2, JobsListed DEF JobsInv, JobPageInv
<1>4. PICK n \in 0 .. Len(rows) : call.seen = SubSeq(rows, 1, n)
  BY <1>2 DEF JobsInv, JobPageInv
<1>5. Len(call.seen) = n /\ call.param \in LimitParam
  BY <1>3, <1>4 DEF PageCall
<1>6. PICK k \in n .. Len(rows) :
        /\ call.seen \o page = SubSeq(rows, 1, k)
        /\ SubSeq(rows, 1, k) \in Seq(Job) /\ Len(SubSeq(rows, 1, k)) = k
        /\ page = <<>> => k = Len(rows)
  <2>0. page = Page(rows, Limit("jobs", call.param), n)
    BY <1>5
  <2> HIDE DEF rows, page
  <2>1. GrowsTo(rows, n, page, Job)
    BY <1>3, <1>5, <2>0, PrefixGrows
  <2> QED
    BY <1>4, <2>1 DEF GrowsTo
<1>7. call' = [call EXCEPT !.seen = call.seen \o page, !.done = page = <<>>]
  BY <1>2 DEF NextPage, Rows
<1>8. JobRows(call.of)' = rows
  <2>1. call'.of = call.of
    BY <1>3, <1>7 DEF PageCall
  <2> QED
    BY <1>1, <2>1 DEF JobRows, JobsStored, JobsOf
<1> HIDE DEF rows, page
<1>9. k \in 0 .. Len(rows) /\ SubSeq(rows, 1, Len(rows)) = rows
  BY <1>3, <1>6, SubSeqFull
<1>10. /\ call' \in PageCall("jobs", Job) /\ call'.had = call.had
       /\ call'.seen = SubSeq(rows, 1, k) /\ call'.done = (page = <<>>)
  BY <1>3, <1>6, <1>7 DEF PageCall
<1>11. call'.done => call'.seen = rows
  BY <1>6, <1>9, <1>10
<1> QED
  BY <1>3, <1>8, <1>9, <1>10, <1>11 DEF JobPageInv

LEMMA ListKeepsJobPages ==
  ASSUME JobsInv, NEW kind \in {"jobs", "batches", "events"}, NEW b \in Batch,
         NEW param \in LimitParam, List(kind, b, param)
  PROVE  JobsInv'
<1>1. /\ call' = [op |-> kind, done |-> FALSE, of |-> b, param |-> param,
                  had |-> Rows(kind, b), seen |-> <<>>]
      /\ UNCHANGED <<state, batch>>
  BY DEF List, tables
<1> SUFFICES ASSUME kind = "jobs" PROVE JobPageInv'
  BY <1>1 DEF JobsInv, StoredWithBatch, JobPageInv
<1>2. Rows(kind, b) = JobRows(b) /\ JobRows(b) \in Seq(Job)
  BY JobsListed DEF Rows
<1>3. call'.of = b /\ JobRows(call.of)' = JobRows(b)
  <2>1. call'.of = b
    BY <1>1
  <2> QED
    BY <1>1, <2>1 DEF JobRows, JobsStored, JobsOf
<1>4. SubSeq(JobRows(b), 1, 0) = <<>> /\ 0 \in 0 .. Len(JobRows(b))
  BY <1>2, SubSeqEmpty
<1>5. /\ call' \in PageCall("jobs", Job) /\ call'.had = JobRows(b) /\ call'.seen = <<>>
      /\ ~call'.done
  BY <1>1, <1>2 DEF PageCall
<1> QED
  BY <1>3, <1>4, <1>5 DEF JobPageInv

LEMMA JobsInvStep == TablesInv /\ JobsInv /\ [Next]_vars => JobsInv'
<1> SUFFICES ASSUME TablesInv, JobsInv, [Next]_vars PROVE JobsInv'
  OBVIOUS
<1>1. ASSUME UNCHANGED tables, call'.op # "jobs" PROVE JobsInv'
  BY <1>1 DEF JobsInv, StoredWithBatch, JobPageInv, tables
<1>2. ASSUME NEW kind \in {"jobs", "batches", "events"}, NEW b \in Batch, NEW param \in LimitParam,
             List(kind, b, param)
      PROVE  JobsInv'
  BY <1>2, ListKeepsJobPages
<1>3. CASE NextCall \/ GetProgress
  BY <1>1, <1>3 DEF NextCall, GetProgress
<1>4. ASSUME NEW r \in Submission, SubmitBatch(r) PROVE JobsInv'
  BY <1>1, <1>4 DEF SubmitBatch
<1>5. ASSUME NEW b \in Batch, GetBatch(b) PROVE JobsInv'
  BY <1>1, <1>5 DEF GetBatch
<1>6. ASSUME NEW b \in Batch, CancelBatch(b) PROVE JobsInv'
  <2>1. call'.op = "cancel"
    BY <1>6 DEF CancelBatch
  <2>2. CASE UNCHANGED tables
    BY <1>1, <2>1, <2>2
  <2>3. CASE Cancel(b)
    <3>1. StoredWithBatch'
      BY <2>3, StoredAtOnce DEF JobsInv
    <3> QED
      BY <2>1, <3>1 DEF JobsInv, JobPageInv
  <2> QED
    BY <1>6, <2>2, <2>3 DEF CancelBatch
<1>7. CASE UNCHANGED vars
  <2>1. UNCHANGED <<state, batch, call>>
    BY <1>7 DEF vars
  <2>2. JobRows(call.of)' = JobRows(call.of)
    BY <2>1 DEF JobRows, JobsStored, JobsOf
  <2> QED
    BY <2>1, <2>2 DEF JobsInv, StoredWithBatch, JobPageInv
<1> QED
  BY <1>2, <1>3, <1>4, <1>5, <1>6, <1>7, SchedulerKeepsJobPages, NextPageKeepsJobPages
     DEF Next, Client

(* A client that pages through the jobs of a batch meets each exactly      *)
(* once, for pages of any size and whatever becomes of the jobs meanwhile  *)
(* (job_repo.go:147).                                                      *)
THEOREM JobsAreListedOnce == Spec => []PagesListEachJobOnce
<1>1. Init => JobsInv
  <2> SUFFICES ASSUME Init PROVE JobsInv
    OBVIOUS
  <2> QED
    BY ApiAssumption DEF Init, Life!Init, JobsInv, StoredWithBatch, JobPageInv
<1>2. RepliesInv => TablesInv
  BY DEF RepliesInv
<1>3. JobsInv => PagesListEachJobOnce
  <2> SUFFICES ASSUME JobsInv, call.op = "jobs"
               PROVE  /\ IsInjective(call.seen)
                      /\ call.done => ToSet(call.had) \subseteq ToSet(call.seen)
    BY DEF PagesListEachJobOnce
  <2> DEFINE rows == JobRows(call.of)
  <2>1. /\ rows \in Seq(Job) /\ \A m, n \in 1 .. Len(rows) : rows[m] = rows[n] => m = n
    BY JobsListed
  <2>2. PICK n \in 0 .. Len(rows) : call.seen = SubSeq(rows, 1, n)
    BY DEF JobsInv, JobPageInv
  <2>3. /\ call.had \in {<<>>, rows}
        /\ call.done => call.had = <<>> \/ call.seen = rows
    BY DEF JobsInv, JobPageInv
  <2> HIDE DEF rows
  <2>4. DOMAIN call.seen = 1 .. n /\ \A i \in 1 .. n : call.seen[i] = rows[i] /\ i \in 1 .. Len(rows)
    BY <2>1, <2>2
  <2>5. IsInjective(call.seen)
    BY <2>1, <2>4 DEF IsInjective
  <2>6. ToSet(<<>>) = {}
    BY DEF ToSet
  <2> QED
    BY <2>3, <2>5, <2>6
<1> QED
  BY <1>1, <1>2, <1>3, RepliesInvAlways, JobsInvStep, PTL DEF Spec

-----------------------------------------------------------------------------
PagesInv == EventInv /\ ListingInv

LEMMA ListKeepsPages ==
  ASSUME PagesInv, NEW kind \in {"jobs", "batches", "events"}, NEW b \in Batch,
         NEW param \in LimitParam, List(kind, b, param)
  PROVE  PagesInv'
<1>1. /\ call' = [op |-> kind, done |-> FALSE, of |-> b, param |-> param,
                  had |-> Rows(kind, b), seen |-> <<>>]
      /\ UNCHANGED <<batch, listing, trail>>
  BY DEF List, tables
<1>2. trail[b] \in Seq(Event) /\ listing \in Seq(Batch)
  BY DEF PagesInv, EventInv, ListingInv, LogInv
<1>3. ASSUME kind = "events"
      PROVE  /\ call' \in PageCall("events", Event)
             /\ \E n \in 0 .. Len(trail[b]) : call'.seen = SubSeq(trail[b], 1, n)
  <2>1. Rows(kind, b) = trail[b]
    BY <1>3 DEF Rows
  <2>2. SubSeq(trail[b], 1, 0) = <<>> /\ 0 \in 0 .. Len(trail[b])
    BY <1>2, SubSeqEmpty
  <2> QED
    BY <1>1, <1>2, <1>3, <2>1, <2>2 DEF PageCall
<1>4. ASSUME kind = "batches" PROVE BatchPageInv'
  <2>1. Rows(kind, b) = listing
    BY <1>4 DEF Rows, BatchRows
  <2>2. call' \in PageCall("batches", Batch) /\ ~call'.done
    BY <1>1, <1>2, <1>4, <2>1 DEF PageCall
  <2>3. \A i \in DOMAIN listing : ~(i <= Len(call'.seen)) /\ Len(call'.seen) <= Len(listing)
    BY <1>1, <1>2
  <2>4. ToSet(call'.had) = ToSet(listing) /\ Len(call'.seen) = 0 /\ Len(listing) \in Nat
    BY <1>1, <1>2, <2>1
  <2> QED
    BY <1>1, <2>2, <2>3, <2>4 DEF BatchPageInv, PagesMissNoBatch, Answered
<1>5. EventInv'
  BY <1>1, <1>3 DEF PagesInv, EventInv, LogInv
<1>6. ListingInv'
  BY <1>1, <1>4 DEF PagesInv, ListingInv, InTable, BatchPageInv
<1> QED
  BY <1>5, <1>6 DEF PagesInv

LEMMA PagesInvStep == TablesInv /\ PagesInv /\ [Next]_vars => PagesInv'
<1> SUFFICES ASSUME TablesInv, PagesInv, [Next]_vars PROVE PagesInv'
  OBVIOUS
<1>1. ASSUME UNCHANGED tables, call'.op \notin {"events", "batches"} PROVE PagesInv'
  BY <1>1 DEF PagesInv, EventInv, LogInv, ListingInv, InTable, BatchPageInv, tables
<1>2. CASE Scheduler
  <2>1. ListingInv'
    BY <1>2, SchedulerKeepsBatchPages DEF PagesInv
  <2> QED
    BY <1>2, <2>1, SchedulerKeepsEvents DEF PagesInv, ListingInv
<1>3. CASE NextPage
  BY <1>3, NextPageKeepsEvents, NextPageKeepsBatchPages DEF PagesInv
<1>4. ASSUME NEW kind \in {"jobs", "batches", "events"}, NEW b \in Batch, NEW param \in LimitParam,
             List(kind, b, param)
      PROVE  PagesInv'
  BY <1>4, ListKeepsPages
<1>5. CASE NextCall \/ GetProgress
  BY <1>1, <1>5 DEF NextCall, GetProgress
<1>6. ASSUME NEW r \in Submission, SubmitBatch(r) PROVE PagesInv'
  BY <1>1, <1>6 DEF SubmitBatch
<1>7. ASSUME NEW b \in Batch, GetBatch(b) PROVE PagesInv'
  BY <1>1, <1>7 DEF GetBatch
<1>8. ASSUME NEW b \in Batch, CancelBatch(b) PROVE PagesInv'
  <2>1. call'.op = "cancel"
    BY <1>8 DEF CancelBatch
  <2>2. CASE UNCHANGED tables
    BY <1>1, <2>1, <2>2
  <2>3. CASE Cancel(b)
    <3>1. trail' \in [Batch -> Seq(Event)] /\ listing' = listing
      <4>1. <<"batch.canceled", b>> \in Event /\ Logged(b, <<<<"batch.canceled", b>>>>)
        BY <2>3 DEF Cancel, Event, EventKind
      <4> QED
        BY <2>3, <4>1, LoggedGrows DEF PagesInv, EventInv, Cancel
    <3>2. EventInv'
      BY <2>1, <3>1 DEF PagesInv, EventInv, ListingInv, LogInv
    <3>3. InTable'
      <4>1. \A i \in DOMAIN listing : listing[i] \in Batch
        BY DEF PagesInv, ListingInv
      <4> QED
        BY <2>3, <3>1, <4>1 DEF PagesInv, ListingInv, InTable, TablesInv, Cancel, Life!Cancel
    <3> QED
      BY <2>1, <3>1, <3>2, <3>3 DEF PagesInv, ListingInv, BatchPageInv
  <2> QED
    BY <1>8, <2>2, <2>3 DEF CancelBatch
<1>9. CASE UNCHANGED vars
  BY <1>9 DEF vars, PagesInv, EventInv, LogInv, ListingInv, InTable, BatchPageInv, PagesMissNoBatch,
              Answered
<1> QED
  BY <1>2, <1>3, <1>4, <1>5, <1>6, <1>7, <1>8, <1>9 DEF Next, Client

LEMMA PagesInvAlways == Spec => []PagesInv
<1>1. Init => PagesInv
  <2> SUFFICES ASSUME Init PROVE PagesInv
    OBVIOUS
  <2>1. listing = <<>> /\ trail = [b \in Batch |-> <<>>] /\ call.op = "none"
    BY DEF Init
  <2> QED
    BY <2>1 DEF PagesInv, EventInv, LogInv, ListingInv, InTable, BatchPageInv
<1>2. RepliesInv => TablesInv
  BY DEF RepliesInv
<1> QED
  BY <1>1, <1>2, RepliesInvAlways, PagesInvStep, PTL DEF Spec

(* A client that pages through the batches misses none that was there when *)
(* it began, for pages of any size and any number of batches that come in  *)
(* at any place meanwhile (batch_repo.go:84).                              *)
THEOREM NoBatchIsMissed == Spec => []PagesMissNoBatch
<1>1. PagesInv => PagesMissNoBatch
  BY DEF PagesInv, ListingInv, BatchPageInv, PagesMissNoBatch, Answered
<1> QED
  BY <1>1, PagesInvAlways, PTL

(* The pages of an audit trail add up to a prefix of it, for pages of any  *)
(* size, while it grows (event_repo.go:29).                                *)
THEOREM EventPagesAddUp == Spec => []EventPagesArePrefix
<1>1. PagesInv => EventPagesArePrefix
  <2> SUFFICES ASSUME PagesInv, call.op = "events" PROVE IsPrefix(call.seen, trail[call.of])
    BY DEF EventPagesArePrefix
  <2>1. call.of \in Batch /\ trail[call.of] \in Seq(Event)
    BY DEF PagesInv, EventInv, LogInv, PageCall
  <2>2. PICK n \in 0 .. Len(trail[call.of]) : call.seen = SubSeq(trail[call.of], 1, n)
    BY DEF PagesInv, EventInv
  <2>3. Len(call.seen) = n
    BY <2>1, <2>2
  <2>4. SubSeq(call.seen, 1, n) = call.seen
    <3>1. \A i \in 1 .. n : trail[call.of][i] \in Event
      BY <2>1, <2>2
    <3>2. call.seen \in Seq(Event)
      BY <2>1, <2>2, <3>1, SubSeqProperties
    <3> QED
      BY <2>3, <3>2, SubSeqFull
  <2> QED
    BY <2>1, <2>2, <2>3, <2>4 DEF IsPrefix
<1> QED
  BY <1>1, PagesInvAlways, PTL
=============================================================================
