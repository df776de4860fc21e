------------------------------- MODULE Config -------------------------------
(***************************************************************************)
(* What a process makes of its environment variables (config.Load): the    *)
(* lanes of its topology and its durations.  A duration variable is <<d>>, *)
(* or <<>> when it is not set or cannot be parsed; both mean the default,  *)
(* so a typing error passes unnoticed.                                     *)
(***************************************************************************)
EXTENDS Integers, Sequences, SequencesExt

CONSTANTS
  DefaultLease,      \* 5 minutes
  DefaultInference,  \* 2 minutes
  DefaultReap,       \* 30 s
  DefaultPoll,       \* 1 s
  NoConfig           \* stands for an error: the process does not start

ASSUME DefaultsAssumption ==
  /\ {DefaultLease, DefaultInference, DefaultReap, DefaultPoll} \subseteq Nat \ {0}
  /\ DefaultInference < DefaultLease

envDuration(var, fallback) == IF var = <<>> THEN fallback ELSE var[1]

LaneIsValid(spec) ==
  /\ spec.name # ""
  /\ \/ spec.kind = "serial"
     \/ spec.kind = "pool" /\ spec.capacity >= 1
     \/ spec.kind = "rate_limited" /\ spec.capacity >= 1 /\ spec.rate > 0

(* A serial lane has capacity 1, whatever the specification says. *)
NewLane(spec) == IF spec.kind = "serial" THEN [spec EXCEPT !.capacity = 1] ELSE spec

NewTopology(specs) == [i \in DOMAIN specs |-> NewLane(specs[i])]

HasTopology(specs) ==
  /\ \A i \in DOMAIN specs : LaneIsValid(specs[i])
  /\ \A i, k \in DOMAIN specs : specs[i].name = specs[k].name => i = k

(* Slip: as long as the lease is long enough. *)
MutTimeoutFits(inference, lease) == inference <= lease
TimeoutFits(inference, lease) == inference < lease

(* The poll and the reap interval are taken as they are, zero and less too. *)
Load(env) ==
  LET inference == envDuration(env.inference, DefaultInference)
      lease == envDuration(env.lease, DefaultLease)
  IN IF env.parses /\ HasTopology(env.lanes) /\ TimeoutFits(inference, lease)
     THEN [lanes |-> NewTopology(env.lanes), inference |-> inference, lease |-> lease,
           reap |-> envDuration(env.reap, DefaultReap),
           poll |-> envDuration(env.poll, DefaultPoll)]
     ELSE NoConfig
=============================================================================
