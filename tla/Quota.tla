------------------------------- MODULE Quota --------------------------------
(***************************************************************************)
(* What the counters of the rate limiter promise: each grants at most      *)
(* Limit requests, and a request is granted once, by one counter.          *)
(***************************************************************************)
EXTENDS Naturals, FiniteSets

CONSTANTS Requests, Counters, None, Limit

VARIABLE granted  \* granted[r]: the counter that let request r through, or None

GrantedBy(c) == {r \in Requests : granted[r] = c}

Init == granted = [r \in Requests |-> None]

Grant(r, c) ==
  /\ granted[r] = None
  /\ Cardinality(GrantedBy(c)) < Limit
  /\ granted' = [granted EXCEPT ![r] = c]

Next == \E r \in Requests, c \in Counters : Grant(r, c)

Spec == Init /\ [][Next]_granted
=============================================================================
