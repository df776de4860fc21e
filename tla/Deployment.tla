----------------------------- MODULE Deployment -----------------------------
(***************************************************************************)
(* The two programs from their start to their end: each loads its          *)
(* configuration, migrates the database they share and serves, the worker  *)
(* with its pool and housekeeper and the server with its requests, until a *)
(* signal, a failure or a crash.  A supervisor starts them again, with     *)
(* whatever environment the operator has set by then.                      *)
(***************************************************************************)
EXTENDS Migration, WorkerPool

CONSTANTS
  Environment,  \* Environment[p]: the environments p may be started with
  MaxInFlight   \* bound: the requests the server handles at a time

Worker == "worker"
Server == "server"
ASSUME ProcessAssumption == Process = {Worker, Server}

LaneSpec == [name : STRING, kind : STRING, capacity : Int, rate : Int]
ASSUME EnvironmentAssumption ==
  \A p \in Process : Environment[p] \subseteq
    [parses : BOOLEAN, lanes : Seq(LaneSpec), lease : Seq(Int), inference : Seq(Int), reap : Seq(Int),
     poll : Seq(Duration)]
ASSUME PollAssumption == DefaultPoll \in Duration
ASSUME BoundAssumption ==
  MaxCapacity \in Nat /\ \A p \in Process : \A env \in Environment[p] : Load(env) # NoConfig =>
    /\ DOMAIN Load(env).lanes \subseteq Lane
    /\ \A i \in DOMAIN Load(env).lanes : Load(env).lanes[i].capacity <= MaxCapacity

VARIABLES
  phase,     \* phase[p]: "down", "boot" (open, migrate), "up", "stopping"
  config,    \* config[p]: what Load returned, NoConfig when down
  told,      \* told[p]: the process has received a signal
  inFlight   \* the requests the server is handling

deployVars == <<phase, config, told, inFlight>>
migrationVars == <<applied, recorded, boot>>
vars == <<applied, recorded, boot, lanes, idleDelay, canceled, slot, source, ticks, ahead, keeper,
          phase, config, told, inFlight>>

Init ==
  /\ MigrationInit
  /\ PoolInit
  /\ phase = [p \in Process |-> "down"]
  /\ config = [p \in Process |-> NoConfig]
  /\ told = [p \in Process |-> FALSE]
  /\ inFlight = 0

-----------------------------------------------------------------------------
(* run() until it serves.  A configuration that is refused ends it. *)
Start(p) ==
  /\ phase[p] = "down"
  /\ \E env \in Environment[p] :
       /\ Load(env) # NoConfig
       /\ config' = [config EXCEPT ![p] = Load(env)]
  /\ phase' = [phase EXCEPT ![p] = "boot"]
  /\ boot' = [boot EXCEPT ![p] = Begins]
  /\ UNCHANGED <<applied, recorded, told, inFlight>> /\ UNCHANGED poolVars

(* The context of the signal is that of the migration's queries. *)
Migrate(p) ==
  /\ phase[p] = "boot" /\ ~told[p]
  /\ MigrateStep(p)
  /\ UNCHANGED poolVars /\ UNCHANGED deployVars

(* The process is gone, and what it held in memory. *)
Gone(p) ==
  /\ phase' = [phase EXCEPT ![p] = "down"]
  /\ config' = [config EXCEPT ![p] = NoConfig]
  /\ told' = [told EXCEPT ![p] = FALSE]
  /\ boot' = [boot EXCEPT ![p] = NotMigrating]
  /\ UNCHANGED <<applied, recorded>>
  /\ IF p = Worker
     THEN /\ lanes' = <<>> /\ idleDelay' = 0 /\ canceled' = FALSE /\ keeper' = "none"
          /\ slot' = [s \in Slot |-> NoSlot]
          /\ source' = [l \in Lane |-> "none"]
          /\ ticks' = [l \in Lane |-> 0] /\ ahead' = [l \in Lane |-> 0]
          /\ UNCHANGED inFlight
     ELSE inFlight' = 0 /\ UNCHANGED poolVars

(* Migrate reports an error: the signal, or a version someone else has     *)
(* recorded meanwhile.                                                     *)
MigrateFails(p) ==
  /\ phase[p] = "boot"
  /\ told[p] \/ RecordConflicts(p)
  /\ Gone(p)

WorkerUp ==
  /\ phase[Worker] = "boot" /\ boot[Worker].pc = "done"
  /\ config[Worker].reap > 0
  /\ phase' = [phase EXCEPT ![Worker] = IF told[Worker] THEN "stopping" ELSE "up"]
  /\ boot' = [boot EXCEPT ![Worker] = NotMigrating]
  /\ StartPool(config[Worker].lanes, config[Worker].poll, told[Worker])
  /\ UNCHANGED <<applied, recorded, config, told, inFlight>>

(* NewTicker panics for an interval that is not positive; Load has let it  *)
(* pass.                                                                   *)
HousekeeperPanics ==
  /\ phase[Worker] = "boot" /\ boot[Worker].pc = "done"
  /\ config[Worker].reap <= 0
  /\ Gone(Worker)

ServerUp ==
  /\ phase[Server] = "boot" /\ boot[Server].pc = "done"
  /\ phase' = [phase EXCEPT ![Server] = IF told[Server] THEN "stopping" ELSE "up"]
  /\ boot' = [boot EXCEPT ![Server] = NotMigrating]
  /\ UNCHANGED <<applied, recorded, config, told, inFlight>> /\ UNCHANGED poolVars

-----------------------------------------------------------------------------
(* The server.  It cannot listen (any more), and ends; or it answers       *)
(* requests, those that came before the signal also after it.              *)
ListenFails == phase[Server] = "up" /\ Gone(Server)

Accept ==
  /\ phase[Server] = "up" /\ inFlight < MaxInFlight
  /\ inFlight' = inFlight + 1
  /\ UNCHANGED <<phase, config, told>> /\ UNCHANGED migrationVars /\ UNCHANGED poolVars

Respond ==
  /\ inFlight > 0
  /\ inFlight' = inFlight - 1
  /\ UNCHANGED <<phase, config, told>> /\ UNCHANGED migrationVars /\ UNCHANGED poolVars

(* Shutdown returns when nothing is in flight. *)
ShutdownDone == phase[Server] = "stopping" /\ inFlight = 0 /\ Gone(Server)

(* ... or after SCHED_SHUTDOWN_TIMEOUT. *)
ShutdownTimeout == phase[Server] = "stopping" /\ Gone(Server)

-----------------------------------------------------------------------------
Work == PoolStep /\ UNCHANGED migrationVars /\ UNCHANGED deployVars

WorkerExits == phase[Worker] = "stopping" /\ AllReturned /\ Gone(Worker)

Signal(p) ==
  /\ phase[p] \in {"boot", "up"} /\ ~told[p]
  /\ told' = [told EXCEPT ![p] = TRUE]
  /\ phase' = [phase EXCEPT ![p] = IF @ = "up" THEN "stopping" ELSE @]
  /\ canceled' = (canceled \/ (p = Worker /\ phase[p] = "up"))
  /\ UNCHANGED <<config, inFlight, lanes, idleDelay, slot, source, ticks, ahead, keeper>>
  /\ UNCHANGED migrationVars

Crash(p) == phase[p] # "down" /\ Gone(p)

Next ==
  \/ \E p \in Process : Start(p) \/ Migrate(p) \/ MigrateFails(p) \/ Signal(p) \/ Crash(p)
  \/ WorkerUp \/ HousekeeperPanics \/ Work \/ WorkerExits
  \/ ServerUp \/ ListenFails \/ Accept \/ Respond \/ ShutdownDone \/ ShutdownTimeout

(* What the code's goroutines go on to do unless the process is gone; an   *)
(* executor heeds its context, and the housekeeper's select, which finds   *)
(* the context done round after round, takes that branch in the end.       *)
Fairness ==
  /\ \A p \in Process : WF_vars(Migrate(p) \/ MigrateFails(p))
  /\ WF_vars(WorkerUp \/ HousekeeperPanics \/ WorkerExits)
  /\ WF_vars(ServerUp \/ ShutdownDone \/ ShutdownTimeout)
  /\ \A s \in Slot : WF_vars(SlotStep(s) /\ UNCHANGED <<migrationVars, deployVars>>)
  /\ \A l \in Lane : WF_vars(SourceCanceled(l) /\ UNCHANGED <<migrationVars, deployVars>>)
  /\ WF_vars(KeeperRound /\ UNCHANGED <<migrationVars, deployVars>>)
  /\ SF_vars(KeeperCanceled /\ UNCHANGED <<migrationVars, deployVars>>)

Spec == Init /\ [][Next]_vars /\ Fairness

-----------------------------------------------------------------------------
(* A process that serves finds every table: whatever crash or signal cut a *)
(* migration short, and whoever migrated at the same time, no version is   *)
(* recorded whose statements did not all take effect (migrate.go).         *)
RunningOnSchema ==
  \A p \in Process : phase[p] \in {"up", "stopping"} =>
    \A m \in Migrations : m \in recorded /\ applied[m] = Statements[m]

(* A process that has been let start has lanes told apart by name, each    *)
(* with a capacity it can use, a rate where it is limited, and executions  *)
(* that end before their lease (config.go:99, lane.go:30).                 *)
SoundConfig(c) ==
  /\ c.inference < c.lease
  /\ IsInjective([i \in DOMAIN c.lanes |-> c.lanes[i].name])
  /\ \A i \in DOMAIN c.lanes :
       /\ c.lanes[i].capacity >= 1
       /\ c.lanes[i].kind = "serial" => c.lanes[i].capacity = 1
       /\ c.lanes[i].kind = "rate_limited" => c.lanes[i].rate > 0
RunningConfigIsSound == \A p \in Process : phase[p] # "down" => SoundConfig(config[p])

(* A lane keeps the slots its capacity asks for until the process is told  *)
(* to stop, whatever its executors and the store do: no error takes a      *)
(* goroutine out of the pool (pool.go:126).                                *)
Alive(s) == slot[s].pc \notin {"none", "returned"}
SlotsStayUntilSignal ==
  phase[Worker] \in {"up", "stopping"} /\ ~canceled =>
    \A l \in DOMAIN config[Worker].lanes :
      Cardinality({s \in Slot : s[1] = l /\ Alive(s)}) = config[Worker].lanes[l].capacity

(* A rate-limited lane starts no more jobs than its ticker ticks, however  *)
(* many slots wait and however long it was idle, but for the tick the      *)
(* ticker holds and the one the source has in hand (pool.go:53).           *)
RateKept == \A l \in Lane : ahead[l] <= 2

(* However often the store fails, a slot never waits longer than its poll  *)
(* interval or MaxDelay, whichever is longer, so that it is back soon when *)
(* the store is; if the interval is one that Load should have asked for,   *)
(* positive and at most MaxDelay, it never waits less than that either.    *)
(* One success forgets the failures (pool.go:109, pool.go:160).            *)
DelaysBounded ==
  phase[Worker] \in {"up", "stopping"} =>
    LET poll == config[Worker].poll
    IN \A s \in Slot : slot[s].pc # "none" =>
         /\ slot[s].delay = poll \/ slot[s].delay <= MaxDelay
         /\ poll \in 1 .. MaxDelay => slot[s].delay >= poll
         /\ slot[s].pc = "idle" => slot[s].delay = poll

(* Whenever a process is told to stop it ends, wherever it is: none of its *)
(* goroutines is left waiting for another that is gone (cmd/worker/main.go *)
(* :79, cmd/server/main.go:92).                                            *)
StopTerminates == \A p \in Process : told[p] ~> phase[p] = "down"
=============================================================================
