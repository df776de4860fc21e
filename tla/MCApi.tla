------------------------------- MODULE MCApi --------------------------------
(* A small instance of the HTTP interface for TLC. *)
EXTENDS Api, TLC

CONSTANTS j1, j2, b1, b2

MCJobs == {j1, j2}
MCBatches == {b1, b2}
MCBatchOf == j1 :> b1 @@ j2 :> b1
(* Both jobs, of which one is retried, in one batch; the other batch has   *)
(* none, like one whose jobs another batch's keys suppressed.              *)
MCMaxAttempts == j1 :> 2 @@ j2 :> 1
MCJobOrder == j1 :> 1 @@ j2 :> 2

(* Pages of one row (the default, and what 0 stands for), of two (the most *)
(* a page may have, when more is asked for), and the events' own default.  *)
MCLimits == {<<>>, <<0>>, <<9>>}

MCLanes == {"ml"}

(* Every list of up to three characters; every identity and scope, with a  *)
(* key that is known or not; and each other field at its edges.            *)
Plain == [decodes |-> TRUE, actor |-> "admin", subject |-> <<"u">>, jobKind |-> "clip",
          lane |-> "ml", known |-> FALSE, title |-> "t", scopeKind |-> "explicit",
          ref |-> <<"a", ",", " ", "a">>, retries |-> 2]
Lists == {[Plain EXCEPT !.ref = s] : s \in UNION {[1 .. n -> {"a", ",", " "}] : n \in 0 .. 3}}
Identities ==
  {[Plain EXCEPT !.actor = a, !.scopeKind = k, !.known = n] :
     a \in {"", "user", "admin", "root"}, k \in {"", "self", "explicit", "album"}, n \in BOOLEAN}
Edges ==
  {[Plain EXCEPT !.decodes = FALSE], [Plain EXCEPT !.subject = <<>>], [Plain EXCEPT !.jobKind = ""],
   [Plain EXCEPT !.lane = ""], [Plain EXCEPT !.lane = "cpu"], [Plain EXCEPT !.title = ""],
   [Plain EXCEPT !.retries = 0], [Plain EXCEPT !.retries = -1]}
MCSubmissions == Lists \cup Identities \cup Edges
=============================================================================
