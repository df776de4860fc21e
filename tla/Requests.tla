------------------------------ MODULE Requests ------------------------------
(***************************************************************************)
(* What the server decides about one request before it touches a table:    *)
(* the identity it derives, what that identity may schedule, the targets   *)
(* of a scope, and the bounds of a page.                                   *)
(*                                                                         *)
(* Headers and fields are sequences of characters where their characters   *)
(* matter; a numeric query parameter is <<n>>, or <<>> when it is missing  *)
(* or not a number.                                                        *)
(***************************************************************************)
EXTENDS Integers, Sequences, SequencesExt

CONSTANTS
  LaneNames,        \* the lanes of the server's own topology
  DefaultAttempts,  \* 3
  DefaultLimit,     \* 50
  EventLimit,       \* 200, the default of the event listing
  MaxLimit          \* 500

ASSUME RequestAssumption ==
  /\ "" \notin LaneNames
  /\ {DefaultAttempts, DefaultLimit, EventLimit, MaxLimit} \subseteq Nat \ {0}
  /\ DefaultLimit <= MaxLimit

-----------------------------------------------------------------------------
(* Who asks, and for what. *)

TriggerKind == {"user", "admin", "event", "schedule"}

resolveTrigger(r) == [kind |-> IF r.actor = "" THEN "user" ELSE r.actor, subject |-> r.subject]

ValidTrigger(t) == t.kind \in TriggerKind /\ t.subject # <<>>

(* Slip: the scope is not looked at. *)
MutAuthorizeAnyone(t, scopeKind) == TRUE

authorizeScope(t, scopeKind) == t.kind = "user" => scopeKind = "self"

(* A field starts at its first character that is no space and ends before  *)
(* the next comma or behind the last character, which the loop takes for   *)
(* one: blanks behind a field stay part of it.                             *)
ScanStep(s, acc, i) ==
  IF i > Len(s) \/ s[i] = ","
  THEN [start |-> 0, out |-> IF acc.start = 0 THEN acc.out
                             ELSE Append(acc.out, SubSeq(s, acc.start, i - 1))]
  ELSE IF s[i] # " " /\ acc.start = 0 THEN [acc EXCEPT !.start = i] ELSE acc

Scanned(s, last) ==
  LET scan[i \in 0 .. last] ==
        IF i = 0 THEN [start |-> 0, out |-> <<>>] ELSE ScanStep(s, scan[i - 1], i)
  IN scan[last].out

(* Slip: the loop ends with the last character. *)
MutSplitForgetsLast(s) == Scanned(s, Len(s))
splitAndTrim(s) == Scanned(s, Len(s) + 1)

(* The targets of a scope, none for a scope the expander does not know. *)
Expand(scopeKind, ref, t) ==
  CASE scopeKind = "explicit" -> splitAndTrim(ref)
    [] scopeKind = "self" -> <<t.subject>>
    [] OTHER -> <<>>

withDefaults(attempts) == IF attempts <= 0 THEN DefaultAttempts ELSE attempts

-----------------------------------------------------------------------------
(* A submission r: [decodes, actor, subject, jobKind, lane, known, title,  *)
(* scopeKind, ref, retries]; `known': its key is that of a batch.  Every   *)
(* refusal is ErrInvalidArgument.                                          *)
BadRequest == [status |-> 400, targets |-> <<>>, attempts |-> 0]
Duplicate == [status |-> 202, targets |-> <<>>, attempts |-> 0]

Permitted(r) ==
  LET t == resolveTrigger(r)
  IN r.decodes /\ ValidTrigger(t) /\ authorizeScope(t, r.scopeKind)

SubmitReply(r) ==
  LET targets == Expand(r.scopeKind, r.ref, resolveTrigger(r))
  IN IF ~Permitted(r) \/ r.jobKind = "" \/ r.lane \notin LaneNames THEN BadRequest
     ELSE IF r.known THEN Duplicate
     ELSE IF r.title = "" \/ r.scopeKind = "" \/ targets = <<>> THEN BadRequest
     ELSE [status |-> 202, targets |-> targets, attempts |-> withDefaults(r.retries)]

-----------------------------------------------------------------------------
(* One page of a listing. *)

atoiOr(param, fallback) == IF param = <<>> THEN fallback ELSE param[1]

normalizeLimit(limit) ==
  IF limit <= 0 THEN DefaultLimit ELSE IF limit > MaxLimit THEN MaxLimit ELSE limit

(* SQLite takes a negative OFFSET for none. *)
Page(rows, limit, offset) ==
  LET from == IF offset < 0 THEN 0 ELSE offset
      to == from + normalizeLimit(limit)
  IN SubSeq(rows, from + 1, IF to > Len(rows) THEN Len(rows) ELSE to)
=============================================================================
