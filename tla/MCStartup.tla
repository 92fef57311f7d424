------------------------------ MODULE MCStartup -----------------------------
(***************************************************************************)
(* Values of Startup's constants for TLC.                                  *)
(***************************************************************************)
EXTENDS Startup

Given(value) == [given |-> TRUE, parses |-> TRUE, value |-> value]
Misspelt     == [given |-> TRUE, parses |-> FALSE, value |-> 0]
NotGiven     == [given |-> FALSE, parses |-> FALSE, value |-> 0]

\* The backend of docker-compose.yml; one without Redis and with values that do
\* not parse or are not positive; one whose limit is refused.
Composed == [driver |-> "postgres", secret |-> 32, redis |-> TRUE, limit |-> Given(240),
             durations |-> [d \in DOMAIN Defaults |-> NotGiven]]
Lean     == [driver |-> "", secret |-> 0, redis |-> FALSE, limit |-> Misspelt,
             durations |-> [d \in DOMAIN Defaults |-> Given(0)]]
Refused  == [Composed EXCEPT !.limit = Given(5)]

Sound    == {Composed, Lean}
AnyEnviron == {Composed, Lean, Refused}

UsersAndGenerators == <<"users", "generators">>
KeepsUsers         == {"users"}
=============================================================================
