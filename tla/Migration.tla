----------------------------- MODULE Migration ------------------------------
(***************************************************************************)
(* Migrate: every process of the system, on each start, brings the one     *)
(* database to the current schema.  No transaction spans its steps, each   *)
(* SQL statement commits by itself, and two processes may be at it at once.*)
(* All statements of a migration are CREATE ... IF NOT EXISTS, so running  *)
(* one again changes nothing; recording a version again violates the       *)
(* primary key.                                                            *)
(***************************************************************************)
EXTENDS Naturals, Sequences

CONSTANTS
  Process,
  Statements  \* Statements[m]: how many statements migration m has, by name order

Migrations == DOMAIN Statements

ASSUME MigrationAssumption == Statements # <<>> /\ Statements \in Seq(Nat \ {0})

VARIABLES
  applied,   \* applied[m]: the statements 1..applied[m] of m took effect
  recorded,  \* the versions in schema_migrations
  boot       \* boot[p]: where the Migrate of process p is

NotMigrating == [pc |-> "none", at |-> 0, stmt |-> 0]
Migrated == [pc |-> "done", at |-> 0, stmt |-> 0]

MigrationInit ==
  /\ applied = [m \in Migrations |-> 0]
  /\ recorded = {}
  /\ boot = [p \in Process |-> NotMigrating]

(* CREATE TABLE schema_migrations is idempotent and has no other effect. *)
Begins == [pc |-> "check", at |-> 1, stmt |-> 0]

Following(m) == IF m = Len(Statements) THEN Migrated ELSE [pc |-> "check", at |-> m + 1, stmt |-> 0]

(* Slip: the version is recorded as soon as it is found missing. *)
MutCheckMigrationRecords(p) ==
  /\ boot[p].pc = "check"
  /\ boot' = [boot EXCEPT ![p] = IF @.at \in recorded THEN Following(@.at)
                                 ELSE [@ EXCEPT !.pc = "apply", !.stmt = 1]]
  /\ recorded' = recorded \cup {boot[p].at}
  /\ UNCHANGED applied

CheckMigration(p) ==
  /\ boot[p].pc = "check"
  /\ boot' = [boot EXCEPT ![p] = IF @.at \in recorded THEN Following(@.at)
                                 ELSE [@ EXCEPT !.pc = "apply", !.stmt = 1]]
  /\ UNCHANGED <<applied, recorded>>

ApplyStatement(p) ==
  LET m == boot[p].at
      n == boot[p].stmt
  IN /\ boot[p].pc = "apply"
     /\ applied' = [applied EXCEPT ![m] = IF @ < n THEN n ELSE @]
     /\ boot' = [boot EXCEPT ![p] = IF n = Statements[m] THEN [@ EXCEPT !.pc = "record"]
                                    ELSE [@ EXCEPT !.stmt = n + 1]]
     /\ UNCHANGED recorded

RecordMigration(p) ==
  /\ boot[p].pc = "record" /\ boot[p].at \notin recorded
  /\ recorded' = recorded \cup {boot[p].at}
  /\ boot' = [boot EXCEPT ![p] = Following(@.at)]
  /\ UNCHANGED applied

(* Another process was faster: the insert violates the primary key and     *)
(* this process gives up its start.                                        *)
RecordConflicts(p) == boot[p].pc = "record" /\ boot[p].at \in recorded

MigrateStep(p) == CheckMigration(p) \/ ApplyStatement(p) \/ RecordMigration(p)
=============================================================================
