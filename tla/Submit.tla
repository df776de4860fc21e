------------------------------- MODULE Submit -------------------------------
(***************************************************************************)
(* Submission and its idempotency (internal/usecase/submit_batch.go with   *)
(* the inserts and unique indexes of the store).  A request looks its key  *)
(* up outside any transaction, expands its scope, which may take long, and *)
(* only then inserts the batch and its jobs; requests interleave between   *)
(* these steps, and the server may crash.                                  *)
(*                                                                         *)
(* A key is a sequence of tokens, of which ":" is one, so that joining     *)
(* keys keeps what matters of joining strings.  <<>> is the empty key.     *)
(* The batch a request creates is named by the request.                    *)
(***************************************************************************)
EXTENDS Integers, Sequences, FiniteSets

CONSTANTS
  Request,
  Key,       \* Key[r]: the idempotency_key of the request
  Kind,      \* Kind[r]: its job_kind
  Targets,   \* Targets[r]: the refs its scope expands to, repetitions kept
  NoReply

(* A reply names a batch, how many jobs were enqueued and whether the      *)
(* batch was there before; "error" is any error, "conflict" the unique     *)
(* index refusing the batch (HTTP 500), "lost" a connection cut.           *)
Accepted == [status : {"accepted"}, batch : Request, enqueued : Nat, duplicate : BOOLEAN]
Failure == [status : {"error", "conflict", "lost"}]

ASSUME SubmitAssumption ==
  /\ NoReply \notin Accepted \cup Failure
  /\ \A r \in Request : /\ Key[r] \in Seq(STRING)
                        /\ Kind[r] \in Seq(STRING) \ {<<>>}  \* "job kind is empty"
                        /\ Targets[r] \in Seq(Seq(STRING))

VARIABLES
  pc,       \* pc[r]: "new", "expand", "commit", "answer" or "done"
  created,  \* the requests whose batch is in the batches table
  jobs,     \* the jobs table: <<r, i>> is the job of request r's i-th target
  reply     \* reply[r]: what the client is told

vars == <<pc, created, jobs, reply>>

Failed(status) == [status |-> status]

Init ==
  /\ pc = [r \in Request |-> "new"]
  /\ created = {}
  /\ jobs = {}
  /\ reply = [r \in Request |-> NoReply]

-----------------------------------------------------------------------------
(* FindByIdempotencyKey: whatever the state of the batch found. *)
FindByIdempotencyKey(k) == {b \in created : Key[b] = k}

(* Slip: the batch's key is left out of the job's. *)
MutDeriveWithoutBatch(batchKey, kind, ref) ==
  IF batchKey = <<>> THEN <<>> ELSE kind \o <<":">> \o ref
deriveIdempotencyKey(batchKey, kind, ref) ==
  IF batchKey = <<>> THEN <<>> ELSE batchKey \o <<":">> \o kind \o <<":">> \o ref

JobKey(j) == deriveIdempotencyKey(Key[j[1]], Kind[j[1]], Targets[j[1]][j[2]])
NewJobs(r) == {<<r, i>> : i \in DOMAIN Targets[r]}

(* Slip: ON CONFLICT skips the statement's whole batch of rows. *)
MutInsertAllOrNothing(r) ==
  IF \E j \in NewJobs(r), k \in jobs : JobKey(j) # <<>> /\ JobKey(k) = JobKey(j)
  THEN {} ELSE NewJobs(r)
(* Slip: no unique index on jobs.idempotency_key. *)
MutInsertRegardless(r) == NewJobs(r)
(* InsertMany: ON CONFLICT DO NOTHING, row by row, against the table and   *)
(* the rows inserted before; the empty key never conflicts.                *)
InsertMany(r) ==
  {j \in NewJobs(r) :
     \/ JobKey(j) = <<>>
     \/ /\ \A k \in jobs : JobKey(k) # JobKey(j)
        /\ \A k \in NewJobs(r) : k[2] < j[2] => JobKey(k) # JobKey(j)}

(* Slip: no unique index on batches.idempotency_key. *)
MutNoKeyTaken(k) == FALSE
(* uq_batches_idempotency refuses a second batch of a non-empty key. *)
KeyTaken(k) == k # <<>> /\ FindByIdempotencyKey(k) # {}

-----------------------------------------------------------------------------
(* The check before the work: answer with the batch that is there. *)
FindsDuplicate(r) ==
  /\ pc[r] = "new"
  /\ Key[r] # <<>>
  /\ \E b \in FindByIdempotencyKey(Key[r]) :
       reply' = [reply EXCEPT ![r] = [status |-> "accepted", batch |-> b, enqueued |-> 0,
                                      duplicate |-> TRUE]]
  /\ pc' = [pc EXCEPT ![r] = "answer"]
  /\ UNCHANGED <<created, jobs>>

FindsNothing(r) ==
  /\ pc[r] = "new"
  /\ Key[r] = <<>> \/ FindByIdempotencyKey(Key[r]) = {}
  /\ pc' = [pc EXCEPT ![r] = "expand"]
  /\ UNCHANGED <<created, jobs, reply>>

Expand(r) ==
  /\ pc[r] = "expand"
  /\ Targets[r] # <<>>
  /\ pc' = [pc EXCEPT ![r] = "commit"]
  /\ UNCHANGED <<created, jobs, reply>>

(* Slips: the reply counts the targets, or takes the skipped ones off once *)
(* more.                                                                   *)
MutEnqueuedTargets(r) == Len(Targets[r])
MutEnqueuedLessSkipped(r) == Cardinality(InsertMany(r)) - Len(Targets[r])
Enqueued(r) == Cardinality(InsertMany(r))

(* The transaction: batch, jobs and event, all or nothing. *)
Commit(r) ==
  /\ pc[r] = "commit"
  /\ ~KeyTaken(Key[r])
  /\ created' = created \cup {r}
  /\ jobs' = jobs \cup InsertMany(r)
  /\ reply' = [reply EXCEPT ![r] = [status |-> "accepted", batch |-> r,
                                    enqueued |-> Enqueued(r), duplicate |-> FALSE]]
  /\ pc' = [pc EXCEPT ![r] = "answer"]

(* Batches().Create fails on the unique index; the error has no domain     *)
(* meaning and becomes an internal server error.                           *)
CommitConflicts(r) ==
  /\ pc[r] = "commit"
  /\ KeyTaken(Key[r])
  /\ reply' = [reply EXCEPT ![r] = Failed("conflict")]
  /\ pc' = [pc EXCEPT ![r] = "answer"]
  /\ UNCHANGED <<created, jobs>>

(* Invalid input, an empty scope, a failing query or a rolled back         *)
(* transaction: nothing is stored.                                         *)
RequestFails(r) ==
  /\ pc[r] \in {"new", "expand", "commit"}
  /\ reply' = [reply EXCEPT ![r] = Failed("error")]
  /\ pc' = [pc EXCEPT ![r] = "answer"]
  /\ UNCHANGED <<created, jobs>>

Answer(r) ==
  /\ pc[r] = "answer"
  /\ pc' = [pc EXCEPT ![r] = "done"]
  /\ UNCHANGED <<created, jobs, reply>>

(* Slip: without a transaction, a crash cuts an insert in two. *)
MutCrashCutsInsert ==
  LET cut == {r \in Request : pc[r] \in {"expand", "commit", "answer"}}
  IN /\ cut # {}
     /\ pc' = [r \in Request |-> IF r \in cut THEN "done" ELSE pc[r]]
     /\ reply' = [r \in Request |-> IF r \in cut THEN Failed("lost") ELSE reply[r]]
     /\ created' = created \cup {r \in cut : pc[r] = "commit" /\ ~KeyTaken(Key[r])}
     /\ UNCHANGED jobs

(* The server dies: requests under way are cut, what was committed stays. *)
ServerCrash ==
  LET cut == {r \in Request : pc[r] \in {"expand", "commit", "answer"}}
  IN /\ cut # {}
     /\ pc' = [r \in Request |-> IF r \in cut THEN "done" ELSE pc[r]]
     /\ reply' = [r \in Request |-> IF r \in cut THEN Failed("lost") ELSE reply[r]]
     /\ UNCHANGED <<created, jobs>>

Next ==
  \/ \E r \in Request :
       \/ FindsDuplicate(r) \/ FindsNothing(r) \/ Expand(r) \/ Commit(r) \/ CommitConflicts(r)
       \/ RequestFails(r) \/ Answer(r)
  \/ ServerCrash

Spec == Init /\ [][Next]_vars

-----------------------------------------------------------------------------
(* Type invariant. *)
TypeOK ==
  /\ pc \in [Request -> {"new", "expand", "commit", "answer", "done"}]
  /\ created \subseteq Request
  /\ jobs \subseteq UNION {NewJobs(r) : r \in Request}
  /\ reply \in [Request -> Accepted \cup Failure \cup {NoReply}]

(* However requests with one key interleave between the check and the      *)
(* insert, the table has one batch for it (batch.go:30).                   *)
OneBatchPerKey ==
  \A a, b \in created : Key[a] # <<>> /\ Key[a] = Key[b] => a = b

(* No derived key is in the table twice, even when one submission names a  *)
(* target twice (job.go:52).                                               *)
OneJobPerKey ==
  \A j, k \in jobs : JobKey(j) # <<>> /\ JobKey(j) = JobKey(k) => j = k

(* A duplicate suppressed is a target served: each target of a stored      *)
(* batch has a job with its derived key, its own or an earlier one.        *)
EveryTargetHasItsJob ==
  \A r \in created : \A j \in NewJobs(r) :
    j \in jobs \/ (JobKey(j) # <<>> /\ \E k \in jobs : JobKey(k) = JobKey(j))

(* The client is told the truth: an accepted submission names a stored     *)
(* batch of the request's own key, and the jobs reported as enqueued are   *)
(* in the table (SubmitBatchOutput).                                       *)
ReplyIsTrue ==
  \A r \in Request :
    reply[r] # NoReply /\ reply[r].status = "accepted" =>
      /\ reply[r].batch \in created
      /\ Key[reply[r].batch] = Key[r]
      /\ reply[r].duplicate <=> reply[r].batch # r
      /\ reply[r].enqueued = Cardinality({j \in jobs : j[1] = r})

(* Batches of different keys do not interfere, as long as no key has a     *)
(* ":" in it: a target of one is never suppressed for a job of another     *)
(* (submit_batch.go:136).                                                  *)
Plain(k) == k # <<>> /\ \A i \in DOMAIN k : k[i] # ":"
KeysDoNotInterfere ==
  \A r \in created : \A j \in NewJobs(r), k \in jobs :
    Plain(Key[r]) /\ Plain(Key[k[1]]) /\ JobKey(k) = JobKey(j) => k[1] = r

(* Submission implements Intake: between the lookup and the transaction    *)
(* other requests come and go, and yet each request is answered as if it   *)
(* had been handled at one moment (submit_batch.go:53).                    *)
Told == INSTANCE Intake WITH
          batches <- created, work <- jobs, answer <- reply, NoAnswer <- NoReply,
          heard <- {r \in Request : pc[r] = "done"}
ImplementsIntake == Told!Spec

-----------------------------------------------------------------------------
(* What a document says and the code does not keep. *)

(* No batch is left without a job of its own, as the comment at            *)
(* submit_batch.go:62 says of the check before the work: such a batch      *)
(* shows a total that its progress never reaches.                          *)
NoOrphanBatch == \A r \in created : \E j \in jobs : j[1] = r

(* README.md:433: submitting a key again returns the batch that is there,  *)
(* so a request is never refused because its key is taken.                 *)
RepeatedKeyIsAnswered ==
  \A r \in Request : reply[r] # NoReply => reply[r].status # "conflict"
=============================================================================
