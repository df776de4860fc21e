-------------------------------- MODULE Api ---------------------------------
(***************************************************************************)
(* A client of the HTTP interface, while the scheduler goes on behind it.  *)
(* What goes on is the life of jobs and batches (Lifecycle), which the     *)
(* scheduler implements, and with it the audit trail and the order in      *)
(* which listings put the rows.                                            *)
(*                                                                         *)
(* Each read is a query of its own, outside any transaction.  The client   *)
(* makes one call after another; how it turns pages is its own affair: it  *)
(* advances by what it received, until it receives nothing.                *)
(***************************************************************************)
EXTENDS Requests, FiniteSets

CONSTANTS
  Job, Batch, BatchOf, MaxAttempts,
  JobOrder,   \* JobOrder[j]: where (created_at, id) puts job j among all
  Submission, \* the submissions the client may send
  LimitParam  \* the limits it may ask for

(* Decoded from JSON: a string, taken as its characters, and a number. *)
ASSUME SubmissionAssumption ==
  \A r \in Submission : r.ref \in Seq(STRING) /\ r.retries \in Int

ASSUME ApiAssumption ==
  /\ IsFiniteSet(Job) /\ BatchOf \in [Job -> Batch]
  /\ JobOrder \in [Job -> Int] /\ IsInjective(JobOrder)  \* ids are unique
  /\ LimitParam \subseteq Seq(Int)  \* <<>> when there is none

VARIABLES
  state, tries, batch,  \* as in Lifecycle
  listing,  \* the batches, latest created_at first
  trail,    \* trail[b]: the job_events of batch b in the order of their id
  call      \* the client's call under way, or the last one with its outcome

Life == INSTANCE Lifecycle

tables == <<state, tries, batch, listing, trail>>
vars == <<state, tries, batch, listing, trail, call>>

JobsOf(b) == {j \in Job : BatchOf[j] = b}

Init ==
  /\ Life!Init
  /\ listing = <<>>
  /\ trail = [b \in Batch |-> <<>>]
  /\ call = [op |-> "none"]

-----------------------------------------------------------------------------
(* The scheduler behind the interface. *)

(* Slip: events are listed by the clock reading they carry, which is older *)
(* than their transaction.                                                 *)
MutLoggedByTime(b, events) ==
  \E i \in 1 .. Len(trail[b]) + 1 :
    trail' = [trail EXCEPT ![b] = SubSeq(@, 1, i - 1) \o events \o SubSeq(@, i, Len(@))]

(* Transactions run one by one, and ids grow with them. *)
Logged(b, events) == trail' = [trail EXCEPT ![b] = @ \o events]

(* created_at is a clock reading from before the transaction. *)
Dispatch(b) ==
  /\ Life!Dispatch(b)
  /\ \E i \in 1 .. Len(listing) + 1 : listing' = InsertAt(listing, i, b)
  /\ Logged(b, <<<<"batch.created", b>>>>)

Start(j) == Life!Start(j) /\ Logged(BatchOf[j], <<<<"job.claimed", j>>>>) /\ UNCHANGED listing

Finish(j) == Life!Finish(j) /\ Logged(BatchOf[j], <<<<"job.succeeded", j>>>>) /\ UNCHANGED listing

Miss(j) ==
  /\ Life!Miss({j})
  /\ Logged(BatchOf[j], <<<<IF tries[j] < MaxAttempts[j] THEN "job.failed" ELSE "job.dead", j>>>>)
  /\ UNCHANGED listing

Close(b) == Life!Close({b}) /\ Logged(b, <<<<"batch.completed", b>>>>) /\ UNCHANGED listing

Cancel(b) == Life!Cancel(b) /\ Logged(b, <<<<"batch.canceled", b>>>>) /\ UNCHANGED listing

Scheduler ==
  /\ \/ \E b \in Batch : Dispatch(b) \/ Close(b) \/ Cancel(b)
     \/ \E j \in Job : Start(j) \/ Finish(j) \/ Miss(j)
  /\ UNCHANGED call

-----------------------------------------------------------------------------
(* The calls that are answered at once. *)

Ready == call.op = "none"

NextCall ==
  /\ call.op # "none" /\ call.done
  /\ call' = [op |-> "none"]
  /\ UNCHANGED tables

SubmitBatch(r) ==
  /\ Ready
  /\ call' = [op |-> "submit", done |-> TRUE, request |-> r, reply |-> SubmitReply(r)]
  /\ UNCHANGED tables

(* Slip: the number of all jobs. *)
MutCanceledCountAll(b) == Cardinality(JobsOf(b))

(* The rows CancelByBatch affects. *)
CanceledCount(b) == Cardinality({j \in JobsOf(b) : ~Life!Settled(j)})

(* With an identity resolveTrigger accepts; nobody asks whose batch it is. *)
(* The two errors of the use case: not found, illegal transition.          *)
CancelBatch(b) ==
  /\ Ready
  /\ LET answer(status, n) ==
           call' = [op |-> "cancel", done |-> TRUE, of |-> b, status |-> status, canceled |-> n]
     IN \/ batch[b] = "absent" /\ answer(404, 0) /\ UNCHANGED tables
        \/ batch[b] \in {"done", "canceled"} /\ answer(409, 0) /\ UNCHANGED tables
        \/ Cancel(b) /\ answer(200, CanceledCount(b))

-----------------------------------------------------------------------------
(* QueryBatch.Get: the batch, then the counts of its jobs. *)

(* Slip: a state the switch forgets. *)
MutProgressNoDead(b) ==
  [s \in {"pending", "running", "succeeded", "dead", "canceled"} |->
     IF s = "dead" THEN 0 ELSE Cardinality({j \in JobsOf(b) : state[j] = s})]

Progress(b) ==
  [s \in {"pending", "running", "succeeded", "dead", "canceled"} |->
     Cardinality({j \in JobsOf(b) : state[j] = s})]

GetBatch(b) ==
  /\ Ready
  /\ call' = IF batch[b] = "absent"
             THEN [op |-> "get", done |-> TRUE, of |-> b, status |-> 404]
             ELSE [op |-> "get", done |-> FALSE, of |-> b, shown |-> batch[b]]
  /\ UNCHANGED tables

GetProgress ==
  /\ call.op = "get" /\ ~call.done
  /\ call' = [op |-> "get", done |-> TRUE, of |-> call.of, status |-> 200,
              shown |-> call.shown, progress |-> Progress(call.of)]
  /\ UNCHANGED tables

-----------------------------------------------------------------------------
(* Listings: the rows of a batch's jobs, of all batches, of a batch's      *)
(* events.  An unknown batch has no rows; that is no error.                *)

JobsStored(b) == {j \in JobsOf(b) : state[j] # "absent"}

(* Slip: what runs first. *)
MutJobRowsRunningFirst(b) ==
  LET ahead(i, j) == \/ state[i] = "running" /\ state[j] # "running"
                     \/ /\ state[i] = "running" <=> state[j] = "running"
                        /\ JobOrder[i] <= JobOrder[j]
      place(j) == Cardinality({i \in JobsStored(b) : ahead(i, j)})
  IN [n \in 1 .. Cardinality(JobsStored(b)) |-> CHOOSE j \in JobsStored(b) : place(j) = n]

(* ORDER BY created_at, id. *)
JobRows(b) ==
  LET place(j) == Cardinality({i \in JobsStored(b) : JobOrder[i] <= JobOrder[j]})
  IN [n \in 1 .. Cardinality(JobsStored(b)) |-> CHOOSE j \in JobsStored(b) : place(j) = n]

(* Slip: what is open first. *)
MutBatchRowsOpenFirst(b) ==
  LET open(x) == batch[x] = "open"
      closed(x) == batch[x] # "open"
  IN SelectSeq(listing, open) \o SelectSeq(listing, closed)

(* The listing without a filter. *)
BatchRows(b) == listing

Rows(kind, b) ==
  CASE kind = "jobs" -> JobRows(b)
    [] kind = "batches" -> BatchRows(b)
    [] kind = "events" -> trail[b]

Limit(kind, param) == atoiOr(param, IF kind = "events" THEN EventLimit ELSE DefaultLimit)

(* had: the rows that were there when the client began. *)
List(kind, b, param) ==
  /\ Ready
  /\ call' = [op |-> kind, done |-> FALSE, of |-> b, param |-> param,
              had |-> Rows(kind, b), seen |-> <<>>]
  /\ UNCHANGED tables

NextPage ==
  /\ call.op \in {"jobs", "batches", "events"} /\ ~call.done
  /\ LET page == Page(Rows(call.op, call.of), Limit(call.op, call.param), Len(call.seen))
     IN call' = [call EXCEPT !.seen = @ \o page, !.done = page = <<>>]
  /\ UNCHANGED tables

-----------------------------------------------------------------------------
Client ==
  \/ NextCall
  \/ \E r \in Submission : SubmitBatch(r)
  \/ \E b \in Batch : CancelBatch(b) \/ GetBatch(b)
  \/ GetProgress
  \/ \E kind \in {"jobs", "batches", "events"}, b \in Batch, param \in LimitParam :
       List(kind, b, param)
  \/ NextPage

Next == Scheduler \/ Client

Spec == Init /\ [][Next]_vars

-----------------------------------------------------------------------------
Answered(op) == call.op = op /\ call.done

(* A batch that is shown as closed is shown with all of its jobs settled,  *)
(* although batch and counts are two reads: the state is read first, and   *)
(* a closed batch has nothing left that could change (query_batch.go:26).  *)
DoneMeansSettled ==
  Answered("get") /\ call.status = 200 /\ call.shown \in {"done", "canceled"} =>
    call.progress["succeeded"] + call.progress["dead"] + call.progress["canceled"]
      = Cardinality(JobsOf(call.of))

(* A cancel that is answered 200 has taken effect and stays: the batch is  *)
(* canceled and exactly the jobs it counted are.  One that is answered 409 *)
(* found the batch closed (cancel_batch.go:14, errors.go:29).              *)
CancelReplyIsTrue ==
  Answered("cancel") =>
    /\ call.status = 200 =>
         /\ batch[call.of] = "canceled"
         /\ Cardinality({j \in JobsOf(call.of) : state[j] = "canceled"}) = call.canceled
    /\ call.status = 409 => batch[call.of] \in {"done", "canceled"}

(* A client that pages through the jobs of a batch meets each exactly      *)
(* once, whatever happens to them meanwhile (job_repo.go:147).             *)
PagesListEachJobOnce ==
  call.op = "jobs" =>
    /\ IsInjective(call.seen)
    /\ call.done => ToSet(call.had) \subseteq ToSet(call.seen)

(* A client that pages through the batches misses none that was there when *)
(* it began, though new ones shift the pages and may show it some twice    *)
(* (batch_repo.go:84).                                                     *)
PagesMissNoBatch == Answered("batches") => ToSet(call.had) \subseteq ToSet(call.seen)

(* The pages of a growing audit trail add up to a prefix of it: nothing is *)
(* skipped, repeated or out of order, although the time an event carries   *)
(* was read before its transaction waited (event_repo.go:29).              *)
EventPagesArePrefix == call.op = "events" => IsPrefix(call.seen, trail[call.of])

(* A user's submission, when it is accepted and new, makes jobs for the    *)
(* user alone (README.md:401, identity.go:31).                             *)
UsersScheduleThemselves ==
  Answered("submit") /\ call.request.actor \in {"", "user"} =>
    call.reply.targets \in {<<>>, <<call.request.subject>>}

(* The targets of an explicit scope are the fields of the list, in order,  *)
(* without the empty ones and the blanks before each (expander/static.go). *)
FieldStarts(s) ==
  {i \in DOMAIN s :
     /\ s[i] \notin {",", " "}
     /\ \E k \in 0 .. i - 1 : (k = 0 \/ s[k] = ",") /\ \A n \in k + 1 .. i - 1 : s[n] = " "}
FieldEnd(s, i) ==
  CHOOSE k \in i .. Len(s) : (\A n \in i .. k : s[n] # ",") /\ (k = Len(s) \/ s[k + 1] = ",")
Fields(s) ==
  LET place(i) == Cardinality({m \in FieldStarts(s) : m <= i})
      start(n) == CHOOSE i \in FieldStarts(s) : place(i) = n
  IN [n \in 1 .. Cardinality(FieldStarts(s)) |-> SubSeq(s, start(n), FieldEnd(s, start(n)))]
AcceptedIsWhatWasAsked ==
  Answered("submit") /\ call.reply.status = 202 /\ call.request.scopeKind = "explicit" =>
    call.request.known \/ /\ call.reply.targets = Fields(call.request.ref)
                          /\ call.reply.targets # <<>>
                          /\ call.reply.attempts >= 1
=============================================================================
