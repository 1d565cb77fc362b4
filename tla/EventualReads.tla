-------------------------- MODULE EventualReads --------------------------
(***************************************************************************)
(* The handler on a store that reads eventually consistently, as           *)
(* DynamoDBStore does (dynamodb_store.go:119-164): a Load may return a     *)
(* composition the key had before the last writes.  Every step is          *)
(* RunFunction's; only what a Load finds is open.                          *)
(***************************************************************************)
EXTENDS RunFunction, FiniteSets

CONSTANT MaxPast  \* bound on the compositions of a key that can be read at a time

ASSUME EventualReadsAssumption == MaxPast \in Nat \ {0}

VARIABLE past  \* what a Load of each key may find: the present and some of before

laggingVars == <<vars, past>>

LaggingInit ==
  /\ Init
  /\ past = [k \in Keys |-> {store[k]}]

LoadLagging(c, rq) ==
  \E k \in Keys : \E found \in past[k] : LoadFound(c, k, rq, found)

Calling(c) ==
  \/ \E rq \in Requests :
       \/ Skip(c, rq)
       \/ LoadLagging(c, rq)
       \/ \E k \in Keys : PurgeComposition(c, k, rq) \/ LoadFails(c, k, rq)
  \/ Continue(c)
  \/ Abandon(c)
  \/ Return(c)

\* What is written can be read from then on, what was before still for a while.
Remember ==
  /\ past' = [k \in Keys |-> past[k] \cup {store'[k]}]
  /\ \A k \in Keys : Cardinality(past'[k]) <= MaxPast

\* The last replica has caught up.
Replicate(k) ==
  /\ past[k] # {store[k]}
  /\ past' = [past EXCEPT ![k] = {store[k]}]
  /\ UNCHANGED vars

LaggingNext ==
  \/ \E c \in Calls : Calling(c) /\ Remember
  \/ \E k \in Keys : Replicate(k)

LaggingSpec == LaggingInit /\ [][LaggingNext]_laggingVars
===========================================================================
