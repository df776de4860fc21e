------------------------------- MODULE Intake -------------------------------
(***************************************************************************)
(* What a client of submission is promised, without the lookup before the  *)
(* work, the expansion and the transaction:                                *)
(*                                                                         *)
(*   - a request takes effect at one moment or not at all: its batch and   *)
(*     the jobs it adds appear together;                                   *)
(*   - it is answered once, and the answer is fixed at that moment: a      *)
(*     batch of its own and the number of jobs added, the batch that had   *)
(*     its key already, or a refusal, which has no effect;                 *)
(*   - only a client whose connection is cut does not know which.          *)
(***************************************************************************)
EXTENDS Naturals, Sequences, FiniteSets

CONSTANTS
  Request,
  Key,      \* Key[r]: the idempotency key of the request, <<>> for none
  Targets,  \* Targets[r]: what it asks for
  NoAnswer

VARIABLES
  batches,  \* the requests that have a batch
  work,     \* <<r, i>> for the targets i that the batch of r added a job for
  answer,   \* answer[r]: NoAnswer, until it is decided
  heard     \* the requests that are over for their client

vars == <<batches, work, answer, heard>>

Undecided(r) == r \notin heard /\ answer[r] = NoAnswer
WithKeyOf(r) == {b \in batches : Key[r] # <<>> /\ Key[b] = Key[r]}

Init ==
  /\ batches = {}
  /\ work = {}
  /\ answer = [r \in Request |-> NoAnswer]
  /\ heard = {}

(* Targets that have their job already add none. *)
Accept(r) ==
  /\ Undecided(r)
  /\ WithKeyOf(r) = {}
  /\ batches' = batches \cup {r}
  /\ \E new \in SUBSET ({r} \X DOMAIN Targets[r]) :
       /\ work' = work \cup new
       /\ answer' = [answer EXCEPT ![r] = [status |-> "accepted", batch |-> r,
                                           enqueued |-> Cardinality(new), duplicate |-> FALSE]]
  /\ UNCHANGED heard

Repeat(r) ==
  /\ Undecided(r)
  /\ \E b \in WithKeyOf(r) :
       answer' = [answer EXCEPT ![r] = [status |-> "accepted", batch |-> b, enqueued |-> 0,
                                        duplicate |-> TRUE]]
  /\ UNCHANGED <<batches, work, heard>>

Refuse(r) ==
  /\ Undecided(r)
  /\ \/ answer' = [answer EXCEPT ![r] = [status |-> "error"]]
     \/ /\ WithKeyOf(r) # {}
        /\ answer' = [answer EXCEPT ![r] = [status |-> "conflict"]]
  /\ UNCHANGED <<batches, work, heard>>

Hear(r) ==
  /\ r \notin heard
  /\ answer[r] # NoAnswer
  /\ heard' = heard \cup {r}
  /\ UNCHANGED <<batches, work, answer>>

(* The clients of S are cut off, whether their requests had their effect   *)
(* or not.                                                                 *)
Cut(S) ==
  /\ S \cap heard = {}
  /\ answer' = [r \in Request |-> IF r \in S THEN [status |-> "lost"] ELSE answer[r]]
  /\ heard' = heard \cup S
  /\ UNCHANGED <<batches, work>>

Next ==
  \/ \E r \in Request : Accept(r) \/ Repeat(r) \/ Refuse(r) \/ Hear(r)
  \/ \E S \in SUBSET Request : Cut(S)

Spec == Init /\ [][Next]_vars
=============================================================================
