--------------------------- MODULE AtomicStore ---------------------------
(***************************************************************************)
(* What ResourceStore (store.go) promises: Save, Load, Purge and           *)
(* DeleteResource each take effect at one moment between call and answer,  *)
(* and on one composition only.  An operation that answers with an error   *)
(* may have taken effect or not.  A Load may return what the composition   *)
(* was a while ago; a store without such lag is one whose past is always   *)
(* its present.                                                            *)
(***************************************************************************)
EXTENDS ResourceData

CONSTANTS
  Clients,  \* calls of the function that share the store
  Keys,     \* composition keys of one cluster ID
  Saves     \* the compositions a client may save

Operation ==
  [kind : {"Load", "Purge"}, key : Keys]
  \cup [kind : {"Save"}, key : Keys, resources : Saves]
  \cup [kind : {"DeleteResource"}, key : Keys, resource : Resources]

\* The operation of an idle client.
NoOperation == CHOOSE o \in Operation : o.kind = "Load"

VARIABLES
  store,  \* [Keys -> Composition]
  past,   \* what a Load of each key may return: the present and some of before
  at,     \* "idle", "pending" before and "taken" after the effect
  op,     \* the operation of each client, NoOperation while idle
  got     \* what a Load that has taken effect will return

atomicVars == <<store, past, at, op, got>>

\* The composition of the operation's key after the operation.
Result(o, composition) ==
  CASE o.kind = "Load" -> composition
    [] o.kind = "Save" -> o.resources
    [] o.kind = "Purge" -> EmptyComposition
    [] o.kind = "DeleteResource" -> [composition EXCEPT ![o.resource] = NoData]

AtomicInit ==
  /\ store \in [Keys -> {EmptyComposition} \cup Saves]
  /\ past = [k \in Keys |-> {store[k]}]
  /\ at = [c \in Clients |-> "idle"]
  /\ op = [c \in Clients |-> NoOperation]
  /\ got = [c \in Clients |-> EmptyComposition]

\* What is written can be read from then on; what was before, only until the
\* store has caught up.
Remember ==
  \A k \in Keys : store'[k] \in past'[k] /\ past'[k] \subseteq past[k] \cup {store'[k]}

CatchUp == Remember /\ UNCHANGED <<store, at, op, got>>

Invoke(c, o) ==
  /\ at[c] = "idle"
  /\ at' = [at EXCEPT ![c] = "pending"]
  /\ op' = [op EXCEPT ![c] = o]
  /\ UNCHANGED <<store, past, got>>

Effect(c) ==
  /\ store' = [store EXCEPT ![op[c].key] = Result(op[c], @)]
  /\ Remember

Take(c) ==
  /\ at[c] = "pending"
  /\ Effect(c)
  /\ at' = [at EXCEPT ![c] = "taken"]
  /\ IF op[c].kind = "Load"
     THEN \E found \in past[op[c].key] : got' = [got EXCEPT ![c] = found]
     ELSE UNCHANGED got
  /\ UNCHANGED op

End(c) ==
  /\ at' = [at EXCEPT ![c] = "idle"]
  /\ op' = [op EXCEPT ![c] = NoOperation]
  /\ got' = [got EXCEPT ![c] = EmptyComposition]

Answer(c) == at[c] = "taken" /\ End(c) /\ UNCHANGED <<store, past>>

\* An error, without and with effect.
Refuse(c) == at[c] = "pending" /\ End(c) /\ UNCHANGED <<store, past>>
Lose(c) == at[c] = "pending" /\ End(c) /\ Effect(c)

AtomicNext ==
  \/ CatchUp
  \/ \E c \in Clients :
       \/ \E o \in Operation : Invoke(c, o)
       \/ Take(c) \/ Answer(c) \/ Refuse(c) \/ Lose(c)

AtomicSpec == AtomicInit /\ [][AtomicNext]_atomicVars
===========================================================================
