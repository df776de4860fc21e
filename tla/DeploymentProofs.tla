-------------------------- MODULE DeploymentProofs --------------------------
(***************************************************************************)
(* Proofs about the two programs and the database they migrate: for any    *)
(* migrations, environments, topologies and bounds.                        *)
(***************************************************************************)
EXTENDS Deployment, FiniteSetTheorems, TLAPS

(* What the database and the processes that migrate it know of each other. *)
SchemaTyped ==
  /\ applied \in [Migrations -> Nat]
  /\ recorded \subseteq Migrations
  /\ boot \in [Process -> [pc : {"none", "check", "apply", "record", "done"}, at : Nat, stmt : Nat]]
  /\ phase \in [Process -> {"down", "boot", "up", "stopping"}]

RecordsTrue ==
  /\ \A m \in Migrations : applied[m] <= Statements[m]
  /\ \A m \in recorded : applied[m] = Statements[m]

(* A process migrates in order: what comes before has been recorded, by it *)
(* or by another.                                                          *)
BootKnows(p) ==
  /\ boot[p].pc \in {"check", "apply", "record"} =>
       /\ boot[p].at \in Migrations
       /\ \A m \in Migrations : m < boot[p].at => m \in recorded
  /\ boot[p].pc = "apply" => /\ boot[p].stmt \in 1 .. Statements[boot[p].at]
                             /\ applied[boot[p].at] >= boot[p].stmt - 1
  /\ boot[p].pc = "record" => applied[boot[p].at] = Statements[boot[p].at]
  /\ boot[p].pc = "done" => recorded = Migrations
  /\ phase[p] \in {"up", "stopping"} => recorded = Migrations

SchemaInv == SchemaTyped /\ RecordsTrue /\ \A p \in Process : BootKnows(p)

-----------------------------------------------------------------------------
(* What each step of the two programs means for the migration alone: it    *)
(* has no part in it, or ends a process, or is one of the steps of Migrate.*)
LEMMA StatementsAreCounted ==
  /\ Migrations = 1 .. Len(Statements) /\ Len(Statements) \in Nat \ {0}
  /\ \A m \in Migrations : Statements[m] \in Nat \ {0}
<1>1. Statements \in Seq(Nat \ {0}) /\ Statements # <<>>
  BY MigrationAssumption
<1>2. Len(Statements) \in Nat /\ Len(Statements) # 0 /\ Migrations = 1 .. Len(Statements)
  BY <1>1 DEF Migrations
<1> QED
  BY <1>1, <1>2 DEF Migrations

LEMMA GoneKeepsSchema ==
  ASSUME SchemaInv, NEW p \in Process, Gone(p)
  PROVE  SchemaInv'
<1>1. SchemaTyped'
  BY DEF SchemaInv, SchemaTyped, Gone, NotMigrating
<1>2. RecordsTrue'
  BY DEF SchemaInv, RecordsTrue, Gone
<1>3. ASSUME NEW q \in Process PROVE BootKnows(q)'
  <2>1. CASE q = p
    <3>1. boot'[q].pc = "none" /\ phase'[q] = "down"
      BY <2>1 DEF SchemaInv, SchemaTyped, Gone, NotMigrating
    <3> QED
      BY <3>1 DEF BootKnows
  <2>2. CASE q # p
    <3>1. /\ boot'[q] = boot[q] /\ phase'[q] = phase[q]
          /\ recorded' = recorded /\ applied' = applied
      BY <2>2 DEF SchemaInv, SchemaTyped, Gone
    <3> QED
      BY <3>1 DEF SchemaInv, BootKnows
  <2> QED BY <2>1, <2>2
<1> QED BY <1>1, <1>2, <1>3 DEF SchemaInv

LEMMA CheckKeepsSchema ==
  ASSUME SchemaInv, NEW p \in Process, phase[p] = "boot", CheckMigration(p),
         UNCHANGED deployVars
  PROVE  SchemaInv'
<1> DEFINE m == boot[p].at
<1>1. /\ m \in Migrations /\ \A k \in Migrations : k < m => k \in recorded
      /\ boot[p] \in [pc : {"none", "check", "apply", "record", "done"}, at : Nat, stmt : Nat]
      /\ boot' = [boot EXCEPT ![p] = boot'[p]] /\ UNCHANGED <<applied, recorded, phase>>
      /\ boot'[p] = IF m \in recorded THEN Following(m) ELSE [boot[p] EXCEPT !.pc = "apply", !.stmt = 1]
  BY DEF SchemaInv, SchemaTyped, BootKnows, CheckMigration, deployVars
<1>2. /\ boot'[p] \in [pc : {"none", "check", "apply", "record", "done"}, at : Nat, stmt : Nat]
      /\ BootKnows(p)'
  <2>1. CASE m \in recorded /\ m = Len(Statements)
    <3>1. boot'[p] = Migrated
      BY <1>1, <2>1 DEF Following
    <3>2. recorded = Migrations
      <4>1. ASSUME NEW k \in Migrations PROVE k \in recorded
        <5>1. k \in Nat /\ k <= m /\ m \in Nat
          BY <2>1, StatementsAreCounted
        <5> QED
          BY <1>1, <2>1, <5>1
      <4> QED
        BY <4>1 DEF SchemaInv, SchemaTyped
    <3> QED
      BY <1>1, <3>1, <3>2 DEF BootKnows, Migrated
  <2>2. CASE m \in recorded /\ m # Len(Statements)
    <3>1. boot'[p] = [pc |-> "check", at |-> m + 1, stmt |-> 0] /\ m + 1 \in Migrations /\ m \in Nat
      BY <1>1, <2>2, StatementsAreCounted DEF Following
    <3>2. \A k \in Migrations : k < m + 1 => k \in recorded
      BY <1>1, <2>2, StatementsAreCounted
    <3> QED
      BY <1>1, <3>1, <3>2 DEF BootKnows
  <2>3. CASE m \notin recorded
    <3>1. boot'[p] = [boot[p] EXCEPT !.pc = "apply", !.stmt = 1]
      BY <1>1, <2>3
    <3>2. /\ boot'[p] \in [pc : {"none", "check", "apply", "record", "done"}, at : Nat, stmt : Nat]
          /\ boot'[p].pc = "apply" /\ boot'[p].at = m /\ boot'[p].stmt = 1
      <4> DEFINE b == boot[p]
                 c == boot'[p]
      <4>1. /\ b \in [pc : {"none", "check", "apply", "record", "done"}, at : Nat, stmt : Nat]
            /\ c = [b EXCEPT !.pc = "apply", !.stmt = 1] /\ m = b.at
        BY <1>1, <3>1
      <4> HIDE DEF b, c, m
      <4>2. /\ c \in [pc : {"none", "check", "apply", "record", "done"}, at : Nat, stmt : Nat]
            /\ c.pc = "apply" /\ c.at = m /\ c.stmt = 1
        BY <4>1
      <4> QED
        BY <4>2 DEF c
    <3>3. 1 \in 1 .. Statements[m] /\ applied[m] >= 1 - 1
      BY <1>1, StatementsAreCounted DEF SchemaInv, SchemaTyped
    <3> QED
      BY <1>1, <3>2, <3>3 DEF BootKnows
  <2> QED BY <2>1, <2>2, <2>3
<1>3. SchemaTyped' /\ RecordsTrue'
  BY <1>1, <1>2 DEF SchemaInv, SchemaTyped, RecordsTrue
<1>4. ASSUME NEW q \in Process PROVE BootKnows(q)'
  <2>1. CASE q # p
    <3>1. boot'[q] = boot[q]
      BY <1>1, <2>1 DEF SchemaInv, SchemaTyped
    <3> QED
      BY <1>1, <3>1 DEF SchemaInv, BootKnows
  <2> QED BY <1>2, <2>1
<1> QED BY <1>3, <1>4 DEF SchemaInv

(* A statement takes effect once, however often it is run.                 *)
LEMMA ApplyKeepsSchema ==
  ASSUME SchemaInv, NEW p \in Process, phase[p] = "boot", ApplyStatement(p),
         UNCHANGED deployVars
  PROVE  SchemaInv'
<1> DEFINE m == boot[p].at
           n == boot[p].stmt
<1>1. /\ boot[p] \in [pc : {"none", "check", "apply", "record", "done"}, at : Nat, stmt : Nat]
      /\ m \in Migrations /\ n \in 1 .. Statements[m] /\ applied[m] >= n - 1
      /\ \A k \in Migrations : k < m => k \in recorded
      /\ applied' = [applied EXCEPT ![m] = applied'[m]]
      /\ applied'[m] = IF applied[m] < n THEN n ELSE applied[m]
      /\ boot' = [boot EXCEPT ![p] = boot'[p]]
      /\ boot'[p] = IF n = Statements[m] THEN [boot[p] EXCEPT !.pc = "record"]
                    ELSE [boot[p] EXCEPT !.stmt = n + 1]
      /\ UNCHANGED <<recorded, phase>>
      /\ boot[p].pc = "apply"
  <2>1. /\ boot \in [Process -> [pc : {"none", "check", "apply", "record", "done"}, at : Nat, stmt : Nat]]
        /\ applied \in [Migrations -> Nat] /\ boot[p].pc = "apply"
    BY DEF SchemaInv, SchemaTyped, ApplyStatement
  <2>2. /\ m \in Migrations /\ n \in 1 .. Statements[m] /\ applied[m] >= n - 1
        /\ \A k \in Migrations : k < m => k \in recorded
    BY <2>1 DEF SchemaInv, BootKnows
  <2>3. applied' = [applied EXCEPT ![m] = IF applied[m] < n THEN n ELSE applied[m]]
    BY DEF ApplyStatement
  <2>4. UNCHANGED <<recorded, phase>>
    BY DEF ApplyStatement, deployVars
  <2>5. boot'[p] = IF n = Statements[m] THEN [boot[p] EXCEPT !.pc = "record"]
                  ELSE [boot[p] EXCEPT !.stmt = n + 1]
    BY <2>1 DEF ApplyStatement
  <2>6. boot' = [boot EXCEPT ![p] = boot'[p]]
    BY <2>1 DEF ApplyStatement
  <2> HIDE DEF m, n
  <2>7. applied'[m] = IF applied[m] < n THEN n ELSE applied[m]
    BY <2>1, <2>2, <2>3
  <2> QED
    BY <2>1, <2>2, <2>3, <2>4, <2>5, <2>6, <2>7
<1>2. Statements[m] \in Nat /\ applied[m] \in Nat /\ applied[m] <= Statements[m] /\ n \in Nat
  BY <1>1, StatementsAreCounted DEF SchemaInv, SchemaTyped, RecordsTrue
<1>3. /\ applied'[m] \in Nat /\ applied'[m] <= Statements[m]
      /\ applied'[m] >= n /\ applied'[m] >= applied[m]
      /\ \A k \in Migrations : k # m => applied'[k] = applied[k]
  BY <1>1, <1>2 DEF SchemaInv, SchemaTyped
<1>4. \A k \in Migrations : applied'[k] >= applied[k] /\ applied'[k] <= Statements[k]
  BY <1>3, <1>2, StatementsAreCounted DEF SchemaInv, SchemaTyped, RecordsTrue
<1>5. /\ boot'[p] \in [pc : {"none", "check", "apply", "record", "done"}, at : Nat, stmt : Nat]
      /\ BootKnows(p)'
  <2>1. CASE n = Statements[m]
    <3>1. /\ boot'[p] \in [pc : {"none", "check", "apply", "record", "done"}, at : Nat, stmt : Nat]
          /\ boot'[p].pc = "record" /\ boot'[p].at = m
      BY <1>1, <2>1
    <3>2. applied'[m] = Statements[m]
      BY <1>2, <1>3, <2>1
    <3> QED
      BY <1>1, <3>1, <3>2 DEF SchemaInv, BootKnows
  <2>2. CASE n # Statements[m]
    <3>1. /\ boot'[p] \in [pc : {"none", "check", "apply", "record", "done"}, at : Nat, stmt : Nat]
          /\ boot'[p].pc = "apply" /\ boot'[p].at = m /\ boot'[p].stmt = n + 1
      BY <1>1, <1>2, <2>2
    <3>2. n + 1 \in 1 .. Statements[m] /\ applied'[m] >= (n + 1) - 1
      BY <1>1, <1>2, <1>3, <2>2
    <3> QED
      BY <1>1, <3>1, <3>2 DEF SchemaInv, BootKnows
  <2> QED BY <2>1, <2>2
<1>6. SchemaTyped'
  BY <1>1, <1>3, <1>5 DEF SchemaInv, SchemaTyped
<1>7. RecordsTrue'
  <2>1. ASSUME NEW k \in recorded PROVE applied'[k] = Statements[k]
    <3>1. /\ k \in Migrations /\ applied[k] = Statements[k]
          /\ applied'[k] \in Nat /\ Statements[k] \in Nat
      BY <1>6, StatementsAreCounted DEF SchemaInv, SchemaTyped, RecordsTrue
    <3> QED
      BY <1>4, <3>1
  <2> QED
    BY <1>1, <1>4, <2>1 DEF RecordsTrue
<1>8. ASSUME NEW q \in Process, q # p PROVE BootKnows(q)'
  <2>1. boot'[q] = boot[q] /\ phase' = phase /\ recorded' = recorded
    BY <1>1, <1>8 DEF SchemaInv, SchemaTyped
  <2>2. ASSUME boot[q].pc = "apply" PROVE applied'[boot[q].at] >= boot[q].stmt - 1
    <3>1. /\ boot[q].at \in Migrations /\ applied[boot[q].at] >= boot[q].stmt - 1
          /\ boot[q].stmt \in Nat
      BY <2>2, StatementsAreCounted DEF SchemaInv, SchemaTyped, BootKnows
    <3>2. applied[boot[q].at] \in Nat /\ applied'[boot[q].at] \in Nat
      BY <1>6, <3>1 DEF SchemaInv, SchemaTyped
    <3> QED
      BY <1>4, <3>1, <3>2
  <2>3. ASSUME boot[q].pc = "record" PROVE applied'[boot[q].at] = Statements[boot[q].at]
    <3>1. boot[q].at \in Migrations /\ applied[boot[q].at] = Statements[boot[q].at]
      BY <2>3 DEF SchemaInv, BootKnows
    <3>2. Statements[boot[q].at] \in Nat /\ applied'[boot[q].at] \in Nat
      BY <1>6, <3>1, StatementsAreCounted DEF SchemaTyped
    <3> QED
      BY <1>4, <3>1, <3>2
  <2> QED
    BY <2>1, <2>2, <2>3 DEF SchemaInv, BootKnows
<1> QED BY <1>5, <1>6, <1>7, <1>8 DEF SchemaInv

LEMMA RecordKeepsSchema ==
  ASSUME SchemaInv, NEW p \in Process, phase[p] = "boot", RecordMigration(p),
         UNCHANGED deployVars
  PROVE  SchemaInv'
<1> DEFINE m == boot[p].at
<1>1. /\ boot[p].pc = "record" /\ m \in Migrations /\ applied[m] = Statements[m]
      /\ \A k \in Migrations : k < m => k \in recorded
      /\ recorded' = recorded \cup {m} /\ UNCHANGED <<applied, phase>>
      /\ boot' = [boot EXCEPT ![p] = boot'[p]] /\ boot'[p] = Following(m)
  BY DEF SchemaInv, SchemaTyped, BootKnows, RecordMigration, deployVars
<1>2. /\ boot'[p] \in [pc : {"none", "check", "apply", "record", "done"}, at : Nat, stmt : Nat]
      /\ BootKnows(p)'
  <2>1. CASE m = Len(Statements)
    <3>1. boot'[p] = Migrated
      BY <1>1, <2>1 DEF Following
    <3>2. recorded' = Migrations
      <4>1. ASSUME NEW k \in Migrations PROVE k \in recorded'
        <5>1. k \in Nat /\ k <= m /\ m \in Nat
          BY <2>1, StatementsAreCounted
        <5> QED
          BY <1>1, <5>1
      <4> QED
        BY <1>1, <4>1 DEF SchemaInv, SchemaTyped
    <3> QED
      BY <1>1, <3>1, <3>2 DEF BootKnows, Migrated
  <2>2. CASE m # Len(Statements)
    <3>1. boot'[p] = [pc |-> "check", at |-> m + 1, stmt |-> 0] /\ m + 1 \in Migrations /\ m \in Nat
      BY <1>1, <2>2, StatementsAreCounted DEF Following
    <3>2. \A k \in Migrations : k < m + 1 => k \in recorded'
      BY <1>1, <2>2, StatementsAreCounted
    <3> QED
      BY <1>1, <3>1, <3>2 DEF BootKnows
  <2> QED BY <2>1, <2>2
<1>3. SchemaTyped' /\ RecordsTrue'
  BY <1>1, <1>2 DEF SchemaInv, SchemaTyped, RecordsTrue
<1>4. ASSUME NEW q \in Process, q # p PROVE BootKnows(q)'
  <2>1. /\ boot'[q] = boot[q] /\ phase' = phase /\ applied' = applied
        /\ recorded \subseteq recorded' /\ recorded' \subseteq Migrations
    BY <1>1, <1>4 DEF SchemaInv, SchemaTyped
  <2> QED
    BY <2>1 DEF SchemaInv, BootKnows
<1> QED BY <1>2, <1>3, <1>4 DEF SchemaInv

(* A process serves only when its migration is over.                       *)
LEMMA UpKeepsSchema ==
  ASSUME SchemaInv, NEW p \in Process, boot[p].pc = "done",
         NEW s \in {"up", "stopping"}, phase' = [phase EXCEPT ![p] = s],
         boot' = [boot EXCEPT ![p] = NotMigrating], UNCHANGED <<applied, recorded>>
  PROVE  SchemaInv'
<1>1. SchemaTyped' /\ RecordsTrue'
  BY DEF SchemaInv, SchemaTyped, RecordsTrue, NotMigrating
<1>2. ASSUME NEW q \in Process PROVE BootKnows(q)'
  <2>1. CASE q = p
    BY <2>1 DEF SchemaInv, SchemaTyped, BootKnows, NotMigrating
  <2>2. CASE q # p
    <3>1. boot'[q] = boot[q] /\ phase'[q] = phase[q]
      BY <2>2 DEF SchemaInv, SchemaTyped
    <3> QED
      BY <3>1 DEF SchemaInv, BootKnows
  <2> QED BY <2>1, <2>2
<1> QED BY <1>1, <1>2 DEF SchemaInv

LEMMA SchemaInvInit == Init => SchemaInv
<1> SUFFICES ASSUME Init PROVE SchemaInv
  OBVIOUS
<1>1. SchemaTyped
  BY DEF Init, MigrationInit, SchemaTyped, NotMigrating
<1>2. RecordsTrue
  BY StatementsAreCounted DEF Init, MigrationInit, RecordsTrue
<1>3. \A p \in Process : BootKnows(p)
  BY DEF Init, MigrationInit, BootKnows, NotMigrating
<1> QED
  BY <1>1, <1>2, <1>3 DEF SchemaInv

LEMMA IdleKeepsSchema ==
  ASSUME SchemaInv, UNCHANGED <<applied, recorded, boot, phase>>
  PROVE  SchemaInv'
BY DEF SchemaInv, SchemaTyped, RecordsTrue, BootKnows

LEMMA SchemaInvStep == SchemaInv /\ [Next]_vars => SchemaInv'
<1> SUFFICES ASSUME SchemaInv, [Next]_vars PROVE SchemaInv'
  OBVIOUS
<1> USE ProcessAssumption
<1>1. ASSUME NEW p \in Process, Start(p) PROVE SchemaInv'
  <2>1. SchemaTyped' /\ RecordsTrue'
    BY <1>1 DEF SchemaInv, SchemaTyped, RecordsTrue, Start, Begins
  <2>2. BootKnows(p)'
    BY <1>1, StatementsAreCounted DEF SchemaInv, SchemaTyped, BootKnows, Start, Begins
  <2>3. ASSUME NEW q \in Process, q # p PROVE BootKnows(q)'
    <3>1. /\ boot'[q] = boot[q] /\ phase'[q] = phase[q]
          /\ recorded' = recorded /\ applied' = applied
      BY <1>1, <2>3 DEF SchemaInv, SchemaTyped, Start
    <3> QED
      BY <3>1 DEF SchemaInv, BootKnows
  <2> QED
    BY <2>1, <2>2, <2>3 DEF SchemaInv
<1>2. ASSUME NEW p \in Process, Migrate(p) PROVE SchemaInv'
  BY <1>2, CheckKeepsSchema, ApplyKeepsSchema, RecordKeepsSchema DEF Migrate, MigrateStep
<1>3. ASSUME NEW p \in Process, MigrateFails(p) \/ Crash(p) PROVE SchemaInv'
  BY <1>3, GoneKeepsSchema DEF MigrateFails, Crash
<1>4. ASSUME NEW p \in Process, Signal(p) PROVE SchemaInv'
  <2>1. UNCHANGED <<applied, recorded, boot>>
    BY <1>4 DEF Signal, migrationVars
  <2>2. /\ phase' \in [Process -> {"down", "boot", "up", "stopping"}]
        /\ \A q \in Process : phase'[q] \in {"up", "stopping"} => phase[q] \in {"up", "stopping"}
    BY <1>4 DEF SchemaInv, SchemaTyped, Signal
  <2> QED
    BY <2>1, <2>2 DEF SchemaInv, SchemaTyped, RecordsTrue, BootKnows
<1>5. ASSUME WorkerUp PROVE SchemaInv'
  <2> DEFINE s == IF told[Worker] THEN "stopping" ELSE "up"
  <2>1. /\ s \in {"up", "stopping"} /\ Worker \in Process /\ boot[Worker].pc = "done"
        /\ phase' = [phase EXCEPT ![Worker] = s] /\ boot' = [boot EXCEPT ![Worker] = NotMigrating]
        /\ UNCHANGED <<applied, recorded>>
    BY <1>5 DEF WorkerUp
  <2> HIDE DEF s
  <2> QED
    BY <2>1, UpKeepsSchema
<1>6. ASSUME ServerUp PROVE SchemaInv'
  <2> DEFINE s == IF told[Server] THEN "stopping" ELSE "up"
  <2>1. /\ s \in {"up", "stopping"} /\ Server \in Process /\ boot[Server].pc = "done"
        /\ phase' = [phase EXCEPT ![Server] = s] /\ boot' = [boot EXCEPT ![Server] = NotMigrating]
        /\ UNCHANGED <<applied, recorded>>
    BY <1>6 DEF ServerUp
  <2> HIDE DEF s
  <2> QED
    BY <2>1, UpKeepsSchema
<1>7. ASSUME HousekeeperPanics \/ WorkerExits PROVE SchemaInv'
  <2>1. Worker \in Process /\ Gone(Worker)
    BY <1>7 DEF HousekeeperPanics, WorkerExits
  <2> QED
    BY <2>1, GoneKeepsSchema
<1>8. ASSUME ListenFails \/ ShutdownDone \/ ShutdownTimeout PROVE SchemaInv'
  <2>1. Server \in Process /\ Gone(Server)
    BY <1>8 DEF ListenFails, ShutdownDone, ShutdownTimeout
  <2> QED
    BY <2>1, GoneKeepsSchema
<1>9. ASSUME Work \/ Accept \/ Respond \/ UNCHANGED vars PROVE SchemaInv'
  <2>1. UNCHANGED <<applied, recorded, boot, phase>>
    BY <1>9 DEF Work, Accept, Respond, vars, migrationVars, deployVars
  <2> QED
    BY <2>1, IdleKeepsSchema
<1> QED
  BY <1>1, <1>2, <1>3, <1>4, <1>5, <1>6, <1>7, <1>8, <1>9 DEF Next

(* No process serves on a schema that is not whole, whatever migrations    *)
(* there are and however crashes, signals and the other process cut them   *)
(* short (migrate.go, cmd/worker/main.go:49, cmd/server/main.go:106).      *)
THEOREM SchemaIsWhole == Spec => []RunningOnSchema
<1>1. SchemaInv => RunningOnSchema
  BY DEF SchemaInv, RecordsTrue, BootKnows, RunningOnSchema
<1> QED
  BY <1>1, SchemaInvInit, SchemaInvStep, PTL DEF Spec

-----------------------------------------------------------------------------
(* The pool's rate and delays. *)

(* What a rate-limited lane has in store: what it is ahead by, the tick    *)
(* its ticker holds, and the token its source offers.                      *)
InHand(l) == IF source[l] = "offer" THEN 1 ELSE 0

RateInv ==
  /\ source \in [Lane -> {"none", "wait", "offer", "returned"}]
  /\ ticks \in [Lane -> {0, 1}] /\ ahead \in [Lane -> Nat]
  /\ \A l \in Lane : ahead[l] + ticks[l] + InHand(l) <= 2

SlotState ==
  [pc : {"none", "loop", "token", "claim", "run", "idle", "retry", "returned"}, delay : Duration]

(* A slot waits as long as its pool is told to, or has backed off: then at *)
(* most MaxDelay, and no less than it is told if that is within bounds.    *)
WaitsWithin(r, poll) ==
  /\ r.delay = poll \/ r.delay <= MaxDelay
  /\ poll \in 1 .. MaxDelay => r.delay >= poll
  /\ r.pc = "idle" => r.delay = poll

DelayInv ==
  /\ idleDelay \in Duration
  /\ slot \in [Slot -> SlotState]
  /\ \A s \in Slot : slot[s].pc # "none" => WaitsWithin(slot[s], idleDelay)

LEMMA RateInvStep == RateInv /\ [Next]_vars => RateInv'
<1> SUFFICES ASSUME RateInv, [Next]_vars PROVE RateInv'
  OBVIOUS
<1>1. ASSUME UNCHANGED <<source, ticks, ahead>> PROVE RateInv'
  BY <1>1 DEF RateInv, InHand
<1>3. ASSUME NEW p \in Process, Gone(p) PROVE RateInv'
  <2>1. CASE p = Worker
    BY <1>3, <2>1 DEF Gone, RateInv, InHand
  <2>2. CASE p # Worker
    BY <1>1, <1>3, <2>2 DEF Gone, poolVars
  <2> QED BY <2>1, <2>2
<1>4. ASSUME WorkerUp PROVE RateInv'
  BY <1>4 DEF WorkerUp, StartPool, RateInv, InHand
<1>5. ASSUME NEW l \in Lane, TickerFires(l) PROVE RateInv'
  <2>1. /\ source' = source /\ ticks' = [ticks EXCEPT ![l] = 1]
        /\ ahead' = [ahead EXCEPT ![l] = IF ahead[l] = 0 THEN 0 ELSE ahead[l] - 1]
    BY <1>5 DEF TickerFires
  <2> QED
    BY <2>1 DEF RateInv, InHand
<1>6. ASSUME NEW l \in Lane, TakeTick(l) PROVE RateInv'
  BY <1>6 DEF TakeTick, RateInv, InHand
<1>7. ASSUME NEW l \in Lane, HandOver(l) PROVE RateInv'
  <2>1. PICK S \in Served(l) : ahead' = [ahead EXCEPT ![l] = ahead[l] + Cardinality(S)]
    BY <1>7 DEF HandOver
  <2>2. Cardinality(S) = 1
    BY <2>1, FS_Singleton DEF Served
  <2>3. source[l] = "offer" /\ source' = [source EXCEPT ![l] = "wait"] /\ ticks' = ticks
    BY <1>7 DEF HandOver
  <2> QED
    BY <2>1, <2>2, <2>3 DEF RateInv, InHand
<1>8. ASSUME NEW l \in Lane, DropToken(l) \/ SourceCanceled(l) PROVE RateInv'
  BY <1>8 DEF DropToken, SourceCanceled, RateInv, InHand
<1>9. ASSUME NEW s \in Slot, SlotStep(s) PROVE RateInv'
  <2>1. UNCHANGED <<source, ticks, ahead>>
    BY <1>9 DEF SlotStep, LoopTop, TokenCanceled, SleepEnds, ClaimReturns, RunReturns
  <2> QED
    BY <1>1, <2>1
<1>10. ASSUME KeeperRound \/ KeeperCanceled PROVE RateInv'
  BY <1>1, <1>10 DEF KeeperRound, KeeperCanceled
<1>11. ASSUME Work PROVE RateInv'
  BY <1>5, <1>6, <1>7, <1>8, <1>9, <1>10, <1>11 DEF Work, PoolStep, SourceStep
<1>12. ASSUME NEW p \in Process, Start(p) \/ Migrate(p) \/ Signal(p) PROVE RateInv'
  BY <1>1, <1>12 DEF Start, Migrate, Signal, poolVars
<1>13. ASSUME ServerUp \/ Accept \/ Respond \/ UNCHANGED vars PROVE RateInv'
  BY <1>1, <1>13 DEF ServerUp, Accept, Respond, poolVars, vars
<1> QED
  BY <1>3, <1>4, <1>11, <1>12, <1>13, ProcessAssumption
     DEF Next, MigrateFails, Crash, HousekeeperPanics, WorkerExits, ListenFails, ShutdownDone,
         ShutdownTimeout

(* A rate-limited lane is never more than two jobs ahead of its ticker,    *)
(* for any number of slots (pool.go:53, pool.go:94).                       *)
THEOREM RateIsKept == Spec => []RateKept
<1>1. Init => RateInv
  BY DEF Init, PoolInit, RateInv, InHand
<1>2. RateInv => RateKept
  BY DEF RateInv, RateKept, InHand
<1> QED
  BY <1>1, <1>2, RateInvStep, PTL DEF Spec

(* Where a goroutine of the pool goes, its delay stays.                    *)
LEMMA GotoKeepsDelays ==
  ASSUME DelayInv, NEW s \in Slot, slot[s].pc # "none",
         NEW pc \in {"loop", "token", "claim", "run", "retry", "returned"},
         Goto(s, pc), UNCHANGED idleDelay
  PROVE  DelayInv'
<1>1. slot[s] \in SlotState /\ WaitsWithin(slot[s], idleDelay)
  BY DEF DelayInv
<1>2. PICK r : r = [slot[s] EXCEPT !.pc = pc]
  OBVIOUS
<1>3. r \in SlotState /\ WaitsWithin(r, idleDelay)
  <2>1. r \in SlotState /\ r.pc = pc /\ r.delay = slot[s].delay
    BY <1>1, <1>2 DEF SlotState
  <2> QED
    BY <1>1, <2>1 DEF WaitsWithin
<1>4. slot' = [slot EXCEPT ![s] = r]
  BY <1>2 DEF Goto
<1> QED
  BY <1>3, <1>4 DEF DelayInv

LEMMA SetKeepsDelays ==
  ASSUME DelayInv, NEW s \in Slot, NEW r \in SlotState, WaitsWithin(r, idleDelay),
         slot' = [slot EXCEPT ![s] = r], UNCHANGED idleDelay
  PROVE  DelayInv'
BY DEF DelayInv

(* Doubling may go past the range of a duration, and never leaves it.      *)
LEMMA NextBackoffIsBounded ==
  ASSUME NEW d \in Duration
  PROVE  /\ nextBackoff(d) \in Duration /\ nextBackoff(d) <= MaxDelay
         /\ \A poll \in 1 .. MaxDelay : d \in poll .. MaxDelay => nextBackoff(d) >= poll
<1>1. Doubled(d) \in Duration
  BY DelayAssumption DEF Doubled, Duration
<1>2. nextBackoff(d) \in Duration /\ nextBackoff(d) <= MaxDelay
  BY <1>1, DelayAssumption DEF nextBackoff, Duration
<1>3. ASSUME NEW poll \in 1 .. MaxDelay, d \in poll .. MaxDelay PROVE nextBackoff(d) >= poll
  <2>1. Doubled(d) = 2 * d /\ 2 * d >= poll
    BY <1>3, DelayAssumption DEF Doubled
  <2> QED
    BY <2>1, DelayAssumption DEF nextBackoff
<1> QED
  BY <1>2, <1>3

LEMMA BackoffKeepsDelays ==
  ASSUME DelayInv, NEW s \in Slot, slot[s].pc # "none", UNCHANGED idleDelay,
         slot' = [slot EXCEPT ![s] = [pc |-> "loop", delay |-> nextBackoff(slot[s].delay)]]
  PROVE  DelayInv'
<1> DEFINE d == slot[s].delay
<1>1. slot[s] \in SlotState /\ WaitsWithin(slot[s], idleDelay) /\ idleDelay \in Duration
  BY DEF DelayInv
<1>2. d \in Duration
  BY <1>1 DEF SlotState
<1>3. PICK r : r = [pc |-> "loop", delay |-> nextBackoff(d)]
  OBVIOUS
<1>4. r \in SlotState /\ r.pc = "loop" /\ r.delay = nextBackoff(d)
  BY <1>2, <1>3, NextBackoffIsBounded DEF SlotState
<1>5. idleDelay \in 1 .. MaxDelay => d \in idleDelay .. MaxDelay
  BY <1>1, <1>2 DEF WaitsWithin, Duration
<1>6. WaitsWithin(r, idleDelay)
  BY <1>2, <1>4, <1>5, NextBackoffIsBounded DEF WaitsWithin
<1> QED
  BY <1>3, <1>4, <1>6, SetKeepsDelays

LEMMA ReturnsKeepsDelays ==
  ASSUME DelayInv, NEW s \in Slot, slot[s].pc # "none", NEW outcome, Returns(s, outcome),
         UNCHANGED idleDelay
  PROVE  DelayInv'
<1>1. CASE ErrorOf(outcome) = "context"
  <2>1. Goto(s, "returned")
    BY <1>1 DEF Returns, Goto
  <2> QED
    BY <2>1, GotoKeepsDelays
<1>2. CASE ErrorOf(outcome) = "store"
  <2>1. Goto(s, "retry")
    BY <1>2 DEF Returns, Goto
  <2> QED
    BY <2>1, GotoKeepsDelays
<1>3. CASE ErrorOf(outcome) \notin {"context", "store"}
  <2> DEFINE r == [pc |-> IF outcome \in RunOutcome THEN "loop" ELSE "idle", delay |-> idleDelay]
  <2>1. slot' = [slot EXCEPT ![s] = r]
    BY <1>3 DEF Returns
  <2>2. r \in SlotState /\ r.delay = idleDelay
    BY DEF SlotState, DelayInv
  <2> HIDE DEF r
  <2>3. WaitsWithin(r, idleDelay)
    BY <2>2 DEF WaitsWithin, DelayInv, Duration
  <2> QED
    BY <2>1, <2>2, <2>3, SetKeepsDelays
<1> QED BY <1>1, <1>2, <1>3

LEMMA SlotStepKeepsDelays ==
  ASSUME DelayInv, NEW s \in Slot, SlotStep(s)
  PROVE  DelayInv'
<1>0. slot[s].pc # "none" /\ UNCHANGED idleDelay
  BY DEF SlotStep, LoopTop, TokenCanceled, TokenWaitEnds, SleepEnds, ClaimReturns, RunReturns
<1>1. ASSUME LoopTop(s) PROVE DelayInv'
  BY <1>0, <1>1, GotoKeepsDelays DEF LoopTop
<1>2. ASSUME TokenCanceled(s) PROVE DelayInv'
  BY <1>0, <1>2, GotoKeepsDelays DEF TokenCanceled
<1>3. ASSUME SleepEnds(s) PROVE DelayInv'
  <2>1. CASE Goto(s, "returned") \/ Goto(s, "loop")
    BY <1>0, <2>1, GotoKeepsDelays
  <2>2. CASE slot' = [slot EXCEPT ![s] = [pc |-> "loop", delay |-> nextBackoff(slot[s].delay)]]
    BY <1>0, <2>2, BackoffKeepsDelays
  <2> QED
    BY <1>3, <2>1, <2>2 DEF SleepEnds
<1>4. ASSUME NEW outcome, ClaimReturns(s, outcome) PROVE DelayInv'
  BY <1>0, <1>4, GotoKeepsDelays, ReturnsKeepsDelays DEF ClaimReturns
<1>5. ASSUME NEW outcome, RunReturns(s, outcome) PROVE DelayInv'
  BY <1>0, <1>5, ReturnsKeepsDelays DEF RunReturns
<1> QED
  BY <1>1, <1>2, <1>3, <1>4, <1>5 DEF SlotStep

(* The pool's poll interval is that of the configuration it runs with.     *)
PollInv ==
  /\ phase = [p \in Process |-> phase[p]] /\ config = [p \in Process |-> config[p]]
  /\ \A p \in Process : phase[p] # "down" => config[p].poll \in Duration
  /\ phase[Worker] \in {"up", "stopping"} => idleDelay = config[Worker].poll

LEMMA LoadedPollIsADuration ==
  ASSUME NEW p \in Process, NEW env \in Environment[p], Load(env) # NoConfig
  PROVE  Load(env).poll \in Duration
<1>1. Load(env).poll = envDuration(env.poll, DefaultPoll)
  BY DEF Load
<1>2. env.poll \in Seq(Duration)
  BY EnvironmentAssumption
<1> QED
  BY <1>1, <1>2, PollAssumption DEF envDuration

LEMMA PollInvStep == PollInv /\ [Next]_vars => PollInv'
<1> SUFFICES ASSUME PollInv, [Next]_vars PROVE PollInv'
  OBVIOUS
<1> USE ProcessAssumption
<1>1. ASSUME UNCHANGED <<phase, config, idleDelay>> PROVE PollInv'
  BY <1>1 DEF PollInv
<1>2. ASSUME NEW p \in Process, Start(p) PROVE PollInv'
  <2>1. PICK env \in Environment[p] :
          Load(env) # NoConfig /\ config' = [config EXCEPT ![p] = Load(env)]
    BY <1>2 DEF Start
  <2>2. Load(env).poll \in Duration
    BY <2>1, LoadedPollIsADuration
  <2>3. /\ phase[p] = "down" /\ phase' = [phase EXCEPT ![p] = "boot"]
        /\ UNCHANGED idleDelay
    BY <1>2 DEF Start, poolVars
  <2> QED
    BY <2>1, <2>2, <2>3 DEF PollInv
<1>3. ASSUME NEW p \in Process, Gone(p) PROVE PollInv'
  <2>1. /\ phase' = [phase EXCEPT ![p] = "down"] /\ config' = [config EXCEPT ![p] = NoConfig]
        /\ p # Worker => UNCHANGED idleDelay
    BY <1>3 DEF Gone, poolVars
  <2> QED
    BY <2>1 DEF PollInv
<1>4. ASSUME WorkerUp PROVE PollInv'
  <2>1. /\ phase[Worker] = "boot" /\ UNCHANGED config /\ idleDelay' = config[Worker].poll
        /\ phase' = [phase EXCEPT ![Worker] = IF told[Worker] THEN "stopping" ELSE "up"]
    BY <1>4 DEF WorkerUp, StartPool
  <2> QED
    BY <2>1 DEF PollInv
<1>5. ASSUME ServerUp PROVE PollInv'
  <2>1. /\ phase[Server] = "boot" /\ UNCHANGED <<config, idleDelay>>
        /\ phase' = [phase EXCEPT ![Server] = IF told[Server] THEN "stopping" ELSE "up"]
    BY <1>5 DEF ServerUp, poolVars
  <2> QED
    BY <2>1 DEF PollInv, Worker, Server
<1>6. ASSUME NEW p \in Process, Signal(p) PROVE PollInv'
  <2>1. /\ phase[p] # "down" /\ UNCHANGED <<config, idleDelay>>
        /\ phase' = [phase EXCEPT ![p] = IF phase[p] = "up" THEN "stopping" ELSE phase[p]]
    BY <1>6 DEF Signal
  <2>2. \A q \in Process : phase'[q] # "down" => phase[q] # "down"
    BY <2>1 DEF PollInv
  <2>3. phase'[Worker] \in {"up", "stopping"} => phase[Worker] \in {"up", "stopping"}
    BY <2>1 DEF PollInv
  <2> QED
    BY <2>1, <2>2, <2>3 DEF PollInv
<1>7. ASSUME Work PROVE PollInv'
  <2>1. PoolStep /\ UNCHANGED <<phase, config>>
    BY <1>7 DEF Work, deployVars
  <2>2. idleDelay' = idleDelay
    BY <2>1 DEF PoolStep, SlotStep, LoopTop, TokenCanceled, SleepEnds, ClaimReturns, RunReturns,
                SourceStep, TickerFires, TakeTick, HandOver, DropToken, SourceCanceled,
                KeeperRound, KeeperCanceled
  <2> QED
    BY <1>1, <2>1, <2>2
<1>8. ASSUME NEW p \in Process, Migrate(p) PROVE PollInv'
  BY <1>1, <1>8 DEF Migrate, deployVars, poolVars
<1>9. ASSUME Accept \/ Respond \/ UNCHANGED vars PROVE PollInv'
  BY <1>1, <1>9 DEF Accept, Respond, vars, poolVars
<1> QED
  BY <1>2, <1>3, <1>4, <1>5, <1>6, <1>7, <1>8, <1>9
     DEF Next, MigrateFails, Crash, HousekeeperPanics, WorkerExits, ListenFails, ShutdownDone,
         ShutdownTimeout

(* A pool that is not running has no slots, one that starts has them wait  *)
(* as they are told.                                                       *)
LEMMA FreshPoolKeepsDelays ==
  ASSUME idleDelay' \in Duration,
         \A s \in Slot : slot'[s] \in {NoSlot, [pc |-> "loop", delay |-> idleDelay']},
         slot' = [s \in Slot |-> slot'[s]]
  PROVE  DelayInv'
<1>1. NoSlot \in SlotState /\ NoSlot.pc = "none"
  BY DelayAssumption DEF NoSlot, SlotState, Duration
<1>2. [pc |-> "loop", delay |-> idleDelay'] \in SlotState
  BY DEF SlotState
<1>3. WaitsWithin([pc |-> "loop", delay |-> idleDelay'], idleDelay')
  BY DEF WaitsWithin, Duration
<1>4. slot' \in [Slot -> SlotState]
  BY <1>1, <1>2
<1>5. \A s \in Slot : slot'[s].pc # "none" => WaitsWithin(slot'[s], idleDelay')
  BY <1>1, <1>3
<1> QED
  BY <1>4, <1>5 DEF DelayInv, WaitsWithin

LEMMA DelayInvStep == PollInv /\ DelayInv /\ [Next]_vars => DelayInv'
<1> SUFFICES ASSUME PollInv, DelayInv, [Next]_vars PROVE DelayInv'
  OBVIOUS
<1>1. ASSUME UNCHANGED <<slot, idleDelay>> PROVE DelayInv'
  BY <1>1 DEF DelayInv, WaitsWithin
<1>3. ASSUME NEW p \in Process, Gone(p) PROVE DelayInv'
  <2>1. CASE p = Worker
    <3>1. slot' = [s \in Slot |-> NoSlot] /\ idleDelay' = 0
      BY <1>3, <2>1 DEF Gone
    <3>2. idleDelay' \in Duration
      BY <3>1, DelayAssumption DEF Duration
    <3> QED
      BY <3>1, <3>2, FreshPoolKeepsDelays
  <2>2. CASE p # Worker
    BY <1>1, <1>3, <2>2 DEF Gone, poolVars
  <2> QED BY <2>1, <2>2
<1>4. ASSUME WorkerUp PROVE DelayInv'
  <2>1. /\ phase[Worker] = "boot" /\ idleDelay' = config[Worker].poll
        /\ slot' = [s \in Slot |->
              IF s[1] \in DOMAIN config[Worker].lanes /\ s[2] <= config[Worker].lanes[s[1]].capacity
              THEN [pc |-> "loop", delay |-> config[Worker].poll] ELSE NoSlot]
    BY <1>4 DEF WorkerUp, StartPool
  <2>2. idleDelay' \in Duration
    BY <2>1, ProcessAssumption DEF PollInv
  <2> QED
    BY <2>1, <2>2, FreshPoolKeepsDelays
<1>5. ASSUME NEW l \in Lane, HandOver(l) PROVE DelayInv'
  <2>1. PICK S \in Served(l) :
          slot' = [s \in Slot |-> IF s \in S THEN [slot[s] EXCEPT !.pc = "claim"] ELSE slot[s]]
    BY <1>5 DEF HandOver
  <2>2. \A s \in S : s \in Slot /\ slot[s].pc = "token"
    BY <2>1 DEF Served, Waiting
  <2>3. idleDelay' = idleDelay
    BY <1>5 DEF HandOver
  <2>4. ASSUME NEW s \in Slot
        PROVE  slot'[s] \in SlotState /\ (slot'[s].pc # "none" => WaitsWithin(slot'[s], idleDelay))
    <3>1. slot[s] \in SlotState /\ (slot[s].pc # "none" => WaitsWithin(slot[s], idleDelay))
      BY DEF DelayInv
    <3>2. CASE s \in S
      <4>1. PICK r : r = [slot[s] EXCEPT !.pc = "claim"]
        OBVIOUS
      <4>2. r \in SlotState /\ r.pc = "claim" /\ r.delay = slot[s].delay
        BY <3>1, <4>1 DEF SlotState
      <4>3. slot'[s] = r /\ WaitsWithin(slot[s], idleDelay)
        BY <2>1, <2>2, <3>1, <3>2, <4>1
      <4> QED
        BY <4>2, <4>3 DEF WaitsWithin
    <3>3. CASE s \notin S
      BY <2>1, <3>1, <3>3
    <3> QED BY <3>2, <3>3
  <2>5. slot' \in [Slot -> SlotState]
    BY <2>1, <2>4
  <2> QED
    BY <2>3, <2>4, <2>5 DEF DelayInv, WaitsWithin
<1>6. ASSUME NEW l \in Lane, TickerFires(l) \/ TakeTick(l) \/ DropToken(l) \/ SourceCanceled(l)
      PROVE  DelayInv'
  BY <1>1, <1>6 DEF TickerFires, TakeTick, DropToken, SourceCanceled
<1>7. ASSUME KeeperRound \/ KeeperCanceled PROVE DelayInv'
  BY <1>1, <1>7 DEF KeeperRound, KeeperCanceled
<1>8. ASSUME Work PROVE DelayInv'
  BY <1>5, <1>6, <1>7, <1>8, SlotStepKeepsDelays DEF Work, PoolStep, SourceStep
<1>9. ASSUME NEW p \in Process, Start(p) \/ Migrate(p) \/ Signal(p) PROVE DelayInv'
  BY <1>1, <1>9 DEF Start, Migrate, Signal, poolVars
<1>10. ASSUME ServerUp \/ Accept \/ Respond \/ UNCHANGED vars PROVE DelayInv'
  BY <1>1, <1>10 DEF ServerUp, Accept, Respond, poolVars, vars
<1> QED
  BY <1>3, <1>4, <1>8, <1>9, <1>10, ProcessAssumption
     DEF Next, MigrateFails, Crash, HousekeeperPanics, WorkerExits, ListenFails, ShutdownDone,
         ShutdownTimeout

LEMMA PollAndDelayInit == Init => PollInv /\ DelayInv
<1> SUFFICES ASSUME Init PROVE PollInv /\ DelayInv
  OBVIOUS
<1>1. PollInv
  BY ProcessAssumption DEF Init, PollInv
<1>2. /\ slot = [s \in Slot |-> NoSlot] /\ idleDelay = 0
      /\ NoSlot \in SlotState /\ NoSlot.pc = "none" /\ 0 \in Duration
  BY DelayAssumption DEF Init, PoolInit, NoSlot, SlotState, Duration
<1>3. DelayInv
  BY <1>2 DEF DelayInv
<1> QED
  BY <1>1, <1>3

(* For every poll interval that can be set, also one that Load should have *)
(* refused: however often the store fails a slot never waits longer than   *)
(* the interval or MaxDelay; from an interval within 1 .. MaxDelay no slot *)
(* ever waits less than it, so none spins on a store that is down; and one *)
(* success forgets the failures (config.go:74, pool.go:109, pool.go:160).  *)
THEOREM DelaysAreBounded == Spec => []DelaysBounded
<1>1. PollInv /\ DelayInv => DelaysBounded
  BY DEF PollInv, DelayInv, WaitsWithin, DelaysBounded
<1> QED
  BY <1>1, PollAndDelayInit, PollInvStep, DelayInvStep, PTL DEF Spec

-----------------------------------------------------------------------------
(* What Load lets pass. *)

LEMMA NewLaneIsUsable ==
  ASSUME NEW spec \in LaneSpec, LaneIsValid(spec)
  PROVE  /\ NewLane(spec).name = spec.name
         /\ NewLane(spec).capacity >= 1
         /\ NewLane(spec).kind = "serial" => NewLane(spec).capacity = 1
         /\ NewLane(spec).kind = "rate_limited" => NewLane(spec).rate > 0
<1>1. CASE spec.kind = "serial"
  <2>1. NewLane(spec) = [spec EXCEPT !.capacity = 1]
    BY <1>1 DEF NewLane
  <2>2. /\ NewLane(spec).name = spec.name /\ NewLane(spec).capacity = 1
        /\ NewLane(spec).kind = "serial"
    BY <1>1, <2>1 DEF LaneSpec
  <2> QED
    BY <2>2
<1>2. CASE spec.kind # "serial"
  BY <1>2 DEF NewLane, LaneIsValid, LaneSpec
<1> QED BY <1>1, <1>2

LEMMA LoadedConfigIsSound ==
  ASSUME NEW p \in Process, NEW env \in Environment[p], Load(env) # NoConfig
  PROVE  SoundConfig(Load(env))
<1> DEFINE c == Load(env)
           specs == env.lanes
<1>1. specs \in Seq(LaneSpec)
  BY EnvironmentAssumption
<1>2. /\ HasTopology(specs)
      /\ TimeoutFits(envDuration(env.inference, DefaultInference), envDuration(env.lease, DefaultLease))
      /\ c = [lanes |-> NewTopology(specs),
              inference |-> envDuration(env.inference, DefaultInference),
              lease |-> envDuration(env.lease, DefaultLease),
              reap |-> envDuration(env.reap, DefaultReap),
              poll |-> envDuration(env.poll, DefaultPoll)]
  BY DEF Load
<1>3. c.lanes = [i \in DOMAIN specs |-> NewLane(specs[i])] /\ c.inference < c.lease
  BY <1>2 DEF NewTopology, TimeoutFits
<1>4. \A i \in DOMAIN specs : /\ specs[i] \in LaneSpec /\ LaneIsValid(specs[i])
                              /\ NewLane(specs[i]).name = specs[i].name
  BY <1>1, <1>2, NewLaneIsUsable DEF HasTopology
<1>5. IsInjective([i \in DOMAIN c.lanes |-> c.lanes[i].name])
  BY <1>2, <1>3, <1>4 DEF HasTopology, IsInjective
<1>6. ASSUME NEW i \in DOMAIN c.lanes
      PROVE  /\ c.lanes[i].capacity >= 1
             /\ c.lanes[i].kind = "serial" => c.lanes[i].capacity = 1
             /\ c.lanes[i].kind = "rate_limited" => c.lanes[i].rate > 0
  BY <1>3, <1>4, NewLaneIsUsable
<1> QED
  BY <1>3, <1>5, <1>6 DEF SoundConfig

ConfigInv ==
  /\ phase = [p \in Process |-> phase[p]] /\ config = [p \in Process |-> config[p]]
  /\ RunningConfigIsSound

LEMMA ConfigInvStep == ConfigInv /\ [Next]_vars => ConfigInv'
<1> SUFFICES ASSUME ConfigInv, [Next]_vars PROVE ConfigInv'
  OBVIOUS
<1>1. ASSUME UNCHANGED <<phase, config>> PROVE ConfigInv'
  BY <1>1 DEF ConfigInv, RunningConfigIsSound
<1>2. ASSUME NEW p \in Process, Start(p) PROVE ConfigInv'
  <2>1. PICK env \in Environment[p] :
          Load(env) # NoConfig /\ config' = [config EXCEPT ![p] = Load(env)]
    BY <1>2 DEF Start
  <2>2. SoundConfig(Load(env))
    BY <2>1, LoadedConfigIsSound
  <2> QED
    BY <1>2, <2>1, <2>2 DEF Start, ConfigInv, RunningConfigIsSound
<1>3. ASSUME NEW p \in Process, Gone(p) PROVE ConfigInv'
  BY <1>3 DEF Gone, ConfigInv, RunningConfigIsSound
<1>4. ASSUME NEW p \in Process, phase[p] # "down",
             NEW s, phase' = [phase EXCEPT ![p] = s], config' = config
      PROVE  ConfigInv'
  BY <1>4 DEF ConfigInv, RunningConfigIsSound
<1>5. ASSUME WorkerUp \/ ServerUp PROVE ConfigInv'
  BY <1>4, <1>5, ProcessAssumption DEF WorkerUp, ServerUp
<1>6. ASSUME NEW p \in Process, Signal(p) PROVE ConfigInv'
  BY <1>4, <1>6 DEF Signal
<1>7. ASSUME NEW p \in Process, Migrate(p) PROVE ConfigInv'
  BY <1>1, <1>7 DEF Migrate, deployVars
<1>8. ASSUME Work \/ Accept \/ Respond \/ UNCHANGED vars PROVE ConfigInv'
  BY <1>1, <1>8 DEF Work, Accept, Respond, vars, deployVars
<1> QED
  BY <1>2, <1>3, <1>5, <1>6, <1>7, <1>8, ProcessAssumption
     DEF Next, MigrateFails, Crash, HousekeeperPanics, WorkerExits, ListenFails, ShutdownDone,
         ShutdownTimeout

(* No process runs with a configuration that cannot work, whatever its     *)
(* environment says (config.go:68).                                        *)
THEOREM ConfigIsSound == Spec => []RunningConfigIsSound
<1>1. Init => ConfigInv
  BY DEF Init, ConfigInv, RunningConfigIsSound
<1>2. ConfigInv => RunningConfigIsSound
  BY DEF ConfigInv
<1> QED
  BY <1>1, <1>2, ConfigInvStep, PTL DEF Spec

-----------------------------------------------------------------------------
(* The slots of the pool, while nothing has told it to stop. *)

Serving == phase[Worker] \in {"up", "stopping"} /\ ~canceled

Asked(s) == s[1] \in DOMAIN config[Worker].lanes /\ s[2] <= config[Worker].lanes[s[1]].capacity

FittingConfig(c) ==
  /\ DOMAIN c.lanes \subseteq Lane
  /\ \A i \in DOMAIN c.lanes : c.lanes[i].capacity \in 1 .. MaxCapacity

SlotsInv ==
  /\ phase = [p \in Process |-> phase[p]] /\ config = [p \in Process |-> config[p]]
  /\ \A p \in Process : phase[p] # "down" => FittingConfig(config[p])
  /\ Serving => \A s \in Slot : Alive(s) <=> Asked(s)

LEMMA LoadedConfigFits ==
  ASSUME NEW p \in Process, NEW env \in Environment[p], Load(env) # NoConfig
  PROVE  FittingConfig(Load(env))
<1> DEFINE c == Load(env)
           specs == env.lanes
<1>1. specs \in Seq(LaneSpec)
  BY EnvironmentAssumption
<1>2. HasTopology(specs) /\ c.lanes = [i \in DOMAIN specs |-> NewLane(specs[i])]
  BY DEF Load, NewTopology
<1>3. DOMAIN c.lanes \subseteq Lane /\ \A i \in DOMAIN c.lanes : c.lanes[i].capacity <= MaxCapacity
  BY BoundAssumption
<1>4. ASSUME NEW i \in DOMAIN c.lanes PROVE c.lanes[i].capacity \in 1 .. MaxCapacity
  <2>1. specs[i] \in LaneSpec /\ LaneIsValid(specs[i]) /\ c.lanes[i] = NewLane(specs[i])
    BY <1>1, <1>2 DEF HasTopology
  <2>2. NewLane(specs[i]).capacity \in Int
    BY <2>1 DEF NewLane, LaneSpec
  <2> QED
    BY <1>3, <2>1, <2>2, NewLaneIsUsable
<1> QED
  BY <1>3, <1>4 DEF FittingConfig

(* Only the canceled context makes a slot return.                          *)
LEMMA SlotsGoOn ==
  ASSUME DelayInv, ~canceled, PoolStep
  PROVE  \A s \in Slot : Alive(s)' <=> Alive(s)
<1>1. ASSUME slot' = slot PROVE \A s \in Slot : Alive(s)' <=> Alive(s)
  BY <1>1 DEF Alive
<1>2. ASSUME NEW s \in Slot, Alive(s), NEW r, r.pc \notin {"none", "returned"},
             slot' = [slot EXCEPT ![s] = r]
      PROVE  \A t \in Slot : Alive(t)' <=> Alive(t)
  BY <1>2 DEF Alive, DelayInv
<1>3. ASSUME NEW s \in Slot, Alive(s), NEW pc, pc \notin {"none", "returned"}, Goto(s, pc)
      PROVE  \A t \in Slot : Alive(t)' <=> Alive(t)
  BY <1>3 DEF Alive, DelayInv, Goto
<1>4. ASSUME NEW s \in Slot, Alive(s), NEW outcome, Returns(s, outcome)
      PROVE  \A t \in Slot : Alive(t)' <=> Alive(t)
  <2>1. ErrorOf(outcome) \in {"nil", "store"}
    BY DEF ErrorOf
  <2>2. CASE ErrorOf(outcome) = "store"
    <3>1. Goto(s, "retry")
      BY <1>4, <2>2 DEF Returns, Goto
    <3> QED
      BY <1>3, <1>4, <3>1
  <2>3. CASE ErrorOf(outcome) = "nil"
    <3> DEFINE r == [pc |-> IF outcome \in RunOutcome THEN "loop" ELSE "idle", delay |-> idleDelay]
    <3>1. slot' = [slot EXCEPT ![s] = r] /\ r.pc \notin {"none", "returned"}
      BY <1>4, <2>3 DEF Returns
    <3> HIDE DEF r
    <3> QED
      BY <1>2, <1>4, <3>1
  <2> QED BY <2>1, <2>2, <2>3
<1>5. ASSUME NEW s \in Slot, SlotStep(s) PROVE \A t \in Slot : Alive(t)' <=> Alive(t)
  <2>1. CASE LoopTop(s)
    BY <1>3, <2>1 DEF LoopTop, Alive
  <2>2. CASE TokenCanceled(s)
    BY <2>2 DEF TokenCanceled, TokenWaitEnds
  <2>3. CASE SleepEnds(s)
    <3>1. Alive(s)
      BY <2>3 DEF SleepEnds, Alive
    <3>2. CASE Goto(s, "loop")
      BY <1>3, <3>1, <3>2
    <3>3. CASE slot' = [slot EXCEPT ![s] = [pc |-> "loop", delay |-> nextBackoff(slot[s].delay)]]
      BY <1>2, <3>1, <3>3
    <3> QED
      BY <2>3, <3>2, <3>3 DEF SleepEnds
  <2>4. CASE \E outcome \in ClaimOutcome : ClaimReturns(s, outcome)
    <3>1. Alive(s)
      BY <2>4 DEF ClaimReturns, Alive
    <3> QED
      BY <1>3, <1>4, <2>4, <3>1 DEF ClaimReturns
  <2>5. CASE \E outcome \in RunOutcome : RunReturns(s, outcome)
    <3>1. Alive(s)
      BY <2>5 DEF RunReturns, Alive
    <3> QED
      BY <1>4, <2>5, <3>1 DEF RunReturns
  <2> QED
    BY <1>5, <2>1, <2>2, <2>3, <2>4, <2>5 DEF SlotStep, ClaimOutcome
<1>6. ASSUME NEW l \in Lane, HandOver(l) PROVE \A t \in Slot : Alive(t)' <=> Alive(t)
  <2>1. PICK S \in Served(l) :
          slot' = [s \in Slot |-> IF s \in S THEN [slot[s] EXCEPT !.pc = "claim"] ELSE slot[s]]
    BY <1>6 DEF HandOver
  <2>2. \A s \in S : s \in Slot /\ slot[s].pc = "token"
    BY <2>1 DEF Served, Waiting
  <2>3. ASSUME NEW t \in Slot PROVE Alive(t)' <=> Alive(t)
    <3>1. slot[t] \in SlotState
      BY DEF DelayInv
    <3>2. slot'[t] = IF t \in S THEN [slot[t] EXCEPT !.pc = "claim"] ELSE slot[t]
      BY <2>1
    <3>3. CASE t \in S
      <4>1. slot'[t].pc = "claim"
        BY <3>1, <3>2, <3>3 DEF SlotState
      <4>2. slot[t].pc = "token"
        BY <2>2, <3>3
      <4> QED
        BY <4>1, <4>2 DEF Alive
    <3>4. CASE t \notin S
      <4>1. slot'[t].pc = slot[t].pc
        BY <3>2, <3>4
      <4> QED
        BY <4>1 DEF Alive
    <3> QED BY <3>3, <3>4
  <2> QED
    BY <2>3
<1>7. ASSUME NEW l \in Lane, TickerFires(l) \/ TakeTick(l) \/ DropToken(l) \/ SourceCanceled(l)
      PROVE  slot' = slot
  BY <1>7 DEF TickerFires, TakeTick, DropToken, SourceCanceled
<1>8. ASSUME KeeperRound \/ KeeperCanceled PROVE slot' = slot
  BY <1>8 DEF KeeperRound, KeeperCanceled
<1> QED
  BY <1>1, <1>5, <1>6, <1>7, <1>8 DEF PoolStep, SourceStep

LEMMA SlotsInvStep == SlotsInv /\ DelayInv /\ [Next]_vars => SlotsInv'
<1> SUFFICES ASSUME SlotsInv, DelayInv, [Next]_vars PROVE SlotsInv'
  OBVIOUS
<1> USE ProcessAssumption
<1>1. ASSUME UNCHANGED <<phase, config, canceled, slot>> PROVE SlotsInv'
  BY <1>1 DEF SlotsInv, Serving, Alive, Asked
<1>2. ASSUME NEW p \in Process, Start(p) PROVE SlotsInv'
  <2>1. PICK env \in Environment[p] :
          Load(env) # NoConfig /\ config' = [config EXCEPT ![p] = Load(env)]
    BY <1>2 DEF Start
  <2>2. FittingConfig(Load(env))
    BY <2>1, LoadedConfigFits
  <2>3. /\ phase[p] = "down" /\ phase' = [phase EXCEPT ![p] = "boot"]
        /\ UNCHANGED <<canceled, slot>>
    BY <1>2 DEF Start, poolVars
  <2>4. \A q \in Process : phase'[q] # "down" => FittingConfig(config'[q])
    BY <2>1, <2>2, <2>3 DEF SlotsInv
  <2>5. Serving' => Serving /\ config'[Worker] = config[Worker]
    BY <2>1, <2>3 DEF SlotsInv, Serving
  <2> QED
    BY <2>1, <2>3, <2>4, <2>5 DEF SlotsInv, Alive, Asked
<1>3. ASSUME NEW p \in Process, Gone(p) PROVE SlotsInv'
  <2>1. /\ phase' = [phase EXCEPT ![p] = "down"] /\ config' = [config EXCEPT ![p] = NoConfig]
    BY <1>3 DEF Gone
  <2>2. CASE p = Worker
    BY <2>1, <2>2 DEF SlotsInv, Serving
  <2>3. CASE p # Worker
    <3>1. /\ UNCHANGED <<canceled, slot>>
          /\ config'[Worker] = config[Worker] /\ phase'[Worker] = phase[Worker]
      BY <1>3, <2>1, <2>3 DEF Gone, poolVars, SlotsInv
    <3> QED
      BY <2>1, <3>1 DEF SlotsInv, Serving, Alive, Asked
  <2> QED BY <2>2, <2>3
<1>4. ASSUME WorkerUp PROVE SlotsInv'
  <2>1. /\ phase[Worker] = "boot" /\ config' = config
        /\ phase' = [phase EXCEPT ![Worker] = IF told[Worker] THEN "stopping" ELSE "up"]
        /\ slot' = [s \in Slot |->
              IF s[1] \in DOMAIN config[Worker].lanes /\ s[2] <= config[Worker].lanes[s[1]].capacity
              THEN [pc |-> "loop", delay |-> config[Worker].poll] ELSE NoSlot]
    BY <1>4 DEF WorkerUp, StartPool
  <2>2. \A s \in Slot : Alive(s)' <=> Asked(s)'
    BY <2>1 DEF Alive, Asked, NoSlot
  <2> QED
    BY <2>1, <2>2 DEF SlotsInv
<1>5. ASSUME ServerUp PROVE SlotsInv'
  <2>1. /\ phase[Server] = "boot" /\ UNCHANGED <<config, canceled, slot>>
        /\ phase' = [phase EXCEPT ![Server] = IF told[Server] THEN "stopping" ELSE "up"]
    BY <1>5 DEF ServerUp, poolVars
  <2> QED
    BY <2>1 DEF SlotsInv, Serving, Alive, Asked, Worker, Server
<1>6. ASSUME NEW p \in Process, Signal(p) PROVE SlotsInv'
  <2>1. /\ phase[p] # "down" /\ UNCHANGED <<config, slot>>
        /\ phase' = [phase EXCEPT ![p] = IF phase[p] = "up" THEN "stopping" ELSE phase[p]]
        /\ canceled' = (canceled \/ (p = Worker /\ phase[p] = "up"))
    BY <1>6 DEF Signal
  <2>2. \A q \in Process : phase'[q] # "down" => FittingConfig(config'[q])
    BY <2>1 DEF SlotsInv
  <2>3. Serving' => Serving
    BY <2>1 DEF SlotsInv, Serving
  <2> QED
    BY <2>1, <2>2, <2>3 DEF SlotsInv, Alive, Asked
<1>7. ASSUME Work PROVE SlotsInv'
  <2>1. PoolStep /\ UNCHANGED <<phase, config>>
    BY <1>7 DEF Work, deployVars
  <2>2. canceled' = canceled
    BY <2>1 DEF PoolStep, SlotStep, LoopTop, TokenCanceled, SleepEnds, ClaimReturns, RunReturns,
                SourceStep, TickerFires, TakeTick, HandOver, DropToken, SourceCanceled,
                KeeperRound, KeeperCanceled
  <2>3. ~canceled => \A s \in Slot : Alive(s)' <=> Alive(s)
    BY <2>1, SlotsGoOn
  <2> QED
    BY <2>1, <2>2, <2>3 DEF SlotsInv, Serving, Asked
<1>8. ASSUME NEW p \in Process, Migrate(p) PROVE SlotsInv'
  BY <1>1, <1>8 DEF Migrate, deployVars, poolVars
<1>9. ASSUME Accept \/ Respond \/ UNCHANGED vars PROVE SlotsInv'
  BY <1>1, <1>9 DEF Accept, Respond, vars, poolVars
<1> QED
  BY <1>2, <1>3, <1>4, <1>5, <1>6, <1>7, <1>8, <1>9
     DEF Next, MigrateFails, Crash, HousekeeperPanics, WorkerExits, ListenFails, ShutdownDone,
         ShutdownTimeout

(* As many as the capacity of the lane.                                    *)
LEMMA AskedAreCounted ==
  ASSUME FittingConfig(config[Worker]), NEW l \in DOMAIN config[Worker].lanes
  PROVE  Cardinality({s \in Slot : s[1] = l /\ Asked(s)}) = config[Worker].lanes[l].capacity
<1> DEFINE n == config[Worker].lanes[l].capacity
           S == {s \in Slot : s[1] = l /\ Asked(s)}
           f == [i \in 1 .. n |-> <<l, i>>]
<1>1. l \in Lane /\ n \in 1 .. MaxCapacity
  BY DEF FittingConfig
<1>2. S = {<<l, i>> : i \in 1 .. n}
  <2>1. ASSUME NEW s \in S PROVE s \in {<<l, i>> : i \in 1 .. n}
    BY <1>1, BoundAssumption DEF Asked, Slot
  <2>2. ASSUME NEW i \in 1 .. n PROVE <<l, i>> \in S
    <3>1. i \in 1 .. MaxCapacity /\ i <= n
      BY <1>1, BoundAssumption
    <3>2. <<l, i>> \in Slot
      BY <1>1, <3>1 DEF Slot
    <3> QED
      BY <3>1, <3>2 DEF Asked
  <2> QED BY <2>1, <2>2
<1>3. f \in Bijection(1 .. n, S)
  <2>1. f \in [1 .. n -> S]
    BY <1>2
  <2>2. \A i, k \in 1 .. n : f[i] = f[k] => i = k
    OBVIOUS
  <2>3. \A s \in S : \E i \in 1 .. n : f[i] = s
    BY <1>2
  <2> QED
    BY <2>1, <2>2, <2>3 DEF Bijection, Injection, Surjection, IsInjective
<1>4. n \in Nat
  BY <1>1, BoundAssumption
<1>5. Cardinality(S) = n
  BY <1>3, <1>4, FS_CountingElements DEF ExistsBijection
<1> QED
  BY <1>5

(* While nothing has told the worker to stop, each lane has exactly the    *)
(* slots its capacity asks for: no outcome of an execution and no failure  *)
(* of the store ends one (pool.go:18, pool.go:126).                        *)
THEOREM SlotsStay == Spec => []SlotsStayUntilSignal
<1>1. Init => SlotsInv /\ PollInv /\ DelayInv
  BY PollAndDelayInit, ProcessAssumption DEF Init, PoolInit, SlotsInv, Serving
<1>2. SlotsInv => SlotsStayUntilSignal
  <2> SUFFICES ASSUME SlotsInv, Serving, NEW l \in DOMAIN config[Worker].lanes
               PROVE  Cardinality({s \in Slot : s[1] = l /\ Alive(s)})
                        = config[Worker].lanes[l].capacity
    BY DEF SlotsStayUntilSignal, Serving
  <2>1. {s \in Slot : s[1] = l /\ Alive(s)} = {s \in Slot : s[1] = l /\ Asked(s)}
    BY DEF SlotsInv
  <2>2. FittingConfig(config[Worker])
    BY ProcessAssumption DEF SlotsInv, Serving
  <2> QED
    BY <2>1, <2>2, AskedAreCounted
<1> QED
  BY <1>1, <1>2, SlotsInvStep, PollInvStep, DelayInvStep, PTL DEF Spec
=============================================================================
