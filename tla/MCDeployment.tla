---------------------------- MODULE MCDeployment ----------------------------
(* A worker and a server on one database for TLC. *)
EXTENDS Deployment, TLC

CONSTANTS none

Both == {"worker", "server"}

(* Two migrations, of two statements and one. *)
TwoMigrations == <<2, 1>>

Spec1(name, kind, capacity, rate) ==
  [name |-> name, kind |-> kind, capacity |-> capacity, rate |-> rate]

(* A rate-limited lane of two slots; a serial lane that asks for none.     *)
Limit == <<Spec1("api", "rate_limited", 2, 1)>>
Serial == <<Spec1("ml", "serial", 0, 0)>>

Env(lanesVar, lease, inference, reap) ==
  [parses |-> TRUE, lanes |-> lanesVar, lease |-> lease, inference |-> inference, reap |-> reap,
   poll |-> <<>>]
Polling(poll) == [Env(Serial, <<>>, <<>>, <<>>) EXCEPT !.poll = poll]

(* What Load refuses. *)
Refused ==
  {Env(Limit, <<1>>, <<1>>, <<>>), Env(Limit, <<1>>, <<>>, <<>>),
   Env(<<Spec1("api", "rate_limited", 1, 0)>>, <<>>, <<>>, <<>>),
   Env(<<Spec1("", "serial", 1, 0)>>, <<>>, <<>>, <<>>),
   Env(<<Spec1("io", "pool", 0, 0)>>, <<>>, <<>>, <<>>),
   Env(<<Spec1("io", "shared", 1, 0)>>, <<>>, <<>>, <<>>),
   Env(Serial \o Serial, <<>>, <<>>, <<>>),
   [Env(Serial, <<>>, <<>>, <<>>) EXCEPT !.parses = FALSE]}

(* The worker is also started with other lanes, with an interval its       *)
(* housekeeper panics at, and with poll intervals that nothing checks:     *)
(* none, one below zero, and more than MaxDelay.                           *)
Environments ==
  "worker" :> Refused \cup {Env(Limit, <<>>, <<>>, <<>>), Env(Serial, <<2>>, <<1>>, <<>>),
                            Env(Serial, <<>>, <<>>, <<0>>),
                            Polling(<<0>>), Polling(<<-3>>), Polling(<<3>>)}
  @@ "server" :> Refused \cup {Env(Limit, <<>>, <<>>, <<>>)}
=============================================================================
