----------------------- MODULE ConfigMapStoreProofs -----------------------
(***************************************************************************)
(* What holds of a ConfigMap whatever its clients do at once, and that     *)
(* ConfigMapStore implements AtomicStore as long as no Save comes at once  *)
(* with a purge or a deletion while the ConfigMap may run empty            *)
(* (~Crowded): for every set of clients, keys, resources and names, all    *)
(* lengths of the keys and all settled data.                               *)
(***************************************************************************)
EXTENDS ConfigMapStore, TLAPS

\* Where a client stands in AtomicStore: its operation takes effect with its
\* last API call.
Stands(c) ==
  IF at[c] = "idle" THEN "idle" ELSE IF at[c] = "answer" THEN "taken" ELSE "pending"

Standing == [c \in Clients |-> Stands(c)]
Present == [k \in Keys |-> {configMap.data[k]}]

Abstract ==
  INSTANCE AtomicStore WITH store <- configMap.data, past <- Present, at <- Standing

---------------------------------------------------------------------------
(* What is sound of a client, whatever the others do at once: an Update of  *)
(* an older ConfigMap is refused, a Create finds none, and a Delete, which  *)
(* has no precondition, was begun when the Get had seen no other data.      *)

Sound(c) ==
  /\ at[c] # "idle" => op[c].key \notin Settled
  /\ at[c] = "load" => op[c].kind \in {"Load", "DeleteResource"}
  /\ at[c] \in {"save", "purge", "create", "update", "delete"} => op[c].kind # "Load"
  /\ at[c] \in {"save", "create"} => writing[c] # EmptyComposition
  /\ at[c] \in {"purge", "delete"} => writing[c] = EmptyComposition
  /\ at[c] = "create" => snapshot[c] = NoKeys
  /\ at[c] = "update" => Written(c).data # NoKeys
  /\ at[c] = "update" /\ fresh[c] => snapshot[c] = configMap.data
  /\ at[c] = "delete" =>
       \A k \in Keys \ {op[c].key} : snapshot[c][k] = EmptyComposition

SoundInv == ConfigMapTypeOK /\ \A c \in Clients : Sound(c)

---------------------------------------------------------------------------
(* Data and operations *)

LEMMA NothingType ==
  /\ NoData \in Data /\ EmptyComposition \in Composition
  /\ NoKeys \in [Keys -> Composition]
BY DEF NoData, Data, ExtName, ObjName, EmptyComposition, Composition, NoKeys

LEMMA SomeKey == Keys # {}
BY ConfigMapAssumption

LEMMA OperationType ==
  ASSUME NEW o \in Operation
  PROVE  /\ o.key \in Keys
         /\ o.kind \in {"Load", "Purge", "Save", "DeleteResource"}
         /\ o.kind = "Save" => o.resources \in Composition /\ o.resources # EmptyComposition
         /\ o.kind = "DeleteResource" => o.resource \in Resources
BY ConfigMapAssumption DEF Operation

LEMMA NoOperationType == NoOperation \in Operation
<1>1. PICK k \in Keys : TRUE
  BY SomeKey
<1>2. [kind |-> "Load", key |-> k] \in Operation
  BY <1>1 DEF Operation
<1> QED
  BY <1>2 DEF NoOperation

LEMMA FirstPlaceCases ==
  ASSUME NEW o \in Operation
  PROVE  /\ o.kind \in {"Load", "DeleteResource"} => FirstPlace(o) = "load"
         /\ o.kind = "Save" => FirstPlace(o) = "save"
         /\ o.kind = "Purge" => FirstPlace(o) = "purge"
BY OperationType DEF FirstPlace

---------------------------------------------------------------------------
(* Writes *)

Writes(c) == Create(c) \/ Update(c) \/ Delete(c)

LEMMA WrittenType ==
  ASSUME ConfigMapTypeOK, NEW c \in Clients
  PROVE  /\ Written(c).exists = TRUE
         /\ Written(c).data = [snapshot[c] EXCEPT ![op[c].key] = writing[c]]
         /\ Written(c).data \in [Keys -> Composition]
         /\ Written(c) \in [exists : BOOLEAN, data : [Keys -> Composition]]
BY OperationType DEF Written, ConfigMapTypeOK

\* How a write ends: it is refused, or it lands.  What it leaves differs from
\* what was there in its own composition only, unless it is a Delete.
Leaves(c) ==
  \/ End(c)
  \/ /\ Go(c, "answer")
     /\ snapshot' = [snapshot EXCEPT ![c] = NoKeys]
     /\ writing' = [writing EXCEPT ![c] = EmptyComposition]
     /\ UNCHANGED <<op, got>>

Refused(c) == End(c) /\ fresh' = [fresh EXCEPT ![c] = FALSE] /\ UNCHANGED configMap

Lands(c, written) ==
  /\ configMap' = written
  /\ fresh' = [d \in Clients |-> d # c /\ fresh[d] /\ written = configMap]

Proper(written) ==
  /\ written \in [exists : BOOLEAN, data : [Keys -> Composition]]
  /\ written.exists <=> written.data # NoKeys

OwnOnly(c, written) ==
  written.data = [configMap.data EXCEPT ![op[c].key] = writing[c]]

Lasting(c, written) ==
  /\ Proper(written)
  /\ \/ OwnOnly(c, written)
     \/ at[c] = "delete" /\ written = NoConfigMap

LEMMA CreateLasting ==
  ASSUME SoundInv, NEW c \in Clients, Create(c), ~configMap.exists
  PROVE  Lasting(c, Written(c))
<1>1. /\ op[c].key \in Keys /\ writing[c] \in Composition /\ configMap.data = NoKeys
  BY OperationType DEF SoundInv, ConfigMapTypeOK
<1>2. snapshot[c] = NoKeys /\ writing[c] # EmptyComposition
  BY DEF Create, SoundInv, Sound
<1>3. /\ Written(c).exists = TRUE
      /\ Written(c).data = [configMap.data EXCEPT ![op[c].key] = writing[c]]
      /\ Written(c) \in [exists : BOOLEAN, data : [Keys -> Composition]]
  BY <1>1, <1>2, WrittenType DEF SoundInv
<1>4. [NoKeys EXCEPT ![op[c].key] = writing[c]] # NoKeys
  <2>1. NoKeys[op[c].key] = EmptyComposition
    BY <1>1 DEF NoKeys
  <2>2. [NoKeys EXCEPT ![op[c].key] = writing[c]][op[c].key] = writing[c]
    BY <1>1, NothingType
  <2> QED
    BY <1>2, <2>1, <2>2
<1> QED
  BY <1>1, <1>3, <1>4 DEF Lasting, Proper, OwnOnly

LEMMA UpdateLasting ==
  ASSUME SoundInv, NEW c \in Clients, Update(c), fresh[c]
  PROVE  Lasting(c, Written(c))
<1>1. Written(c).data # NoKeys /\ snapshot[c] = configMap.data
  BY DEF Update, SoundInv, Sound
<1> QED
  BY <1>1, WrittenType DEF SoundInv, Lasting, Proper, OwnOnly

LEMMA WriteLasting ==
  ASSUME SoundInv, NEW c \in Clients, Writes(c)
  PROVE  /\ Leaves(c)
         /\ Refused(c) \/ \E written : Lands(c, written) /\ Lasting(c, written)
<1>1. ASSUME NEW allowed, NEW written, Write(c, allowed, written)
      PROVE  Leaves(c) /\ (Refused(c) \/ (allowed /\ Lands(c, written)))
  BY <1>1 DEF Write, Leaves, Refused, Lands
<1>2. CASE Create(c)
  <2>1. Leaves(c) /\ (Refused(c) \/ (~configMap.exists /\ Lands(c, Written(c))))
    BY <1>1, <1>2 DEF Create
  <2> QED
    BY <1>2, <2>1, CreateLasting
<1>3. CASE Update(c)
  <2>1. Leaves(c) /\ (Refused(c) \/ (fresh[c] /\ Lands(c, Written(c))))
    BY <1>1, <1>3 DEF Update, UpdateAllowed
  <2> QED
    BY <1>3, <2>1, UpdateLasting
<1>4. CASE Delete(c)
  <2>1. Leaves(c) /\ (Refused(c) \/ Lands(c, NoConfigMap))
    BY <1>1, <1>4 DEF Delete
  <2>2. Lasting(c, NoConfigMap)
    BY <1>4, NothingType DEF Delete, NoConfigMap, Lasting, Proper
  <2> QED
    BY <2>1, <2>2
<1> QED
  BY <1>2, <1>3, <1>4 DEF Writes

---------------------------------------------------------------------------
(* It stays sound *)

LEMMA InitSound == Init => SoundInv
<1> SUFFICES ASSUME Init PROVE SoundInv
  OBVIOUS
<1>1. /\ configMap \in [exists : BOOLEAN, data : [Keys -> Composition]]
      /\ configMap.exists <=> configMap.data # NoKeys
  <2>1. CASE configMap = NoConfigMap
    BY <2>1, NothingType DEF NoConfigMap
  <2>2. CASE configMap # NoConfigMap
    <3>1. PICK s \in Saves :
            configMap = [exists |-> Settled # {},
                         data |-> [k \in Keys |-> IF k \in Settled THEN s
                                                  ELSE EmptyComposition]]
      BY <2>2 DEF Init
    <3>2. s \in Composition /\ s # EmptyComposition
      BY ConfigMapAssumption
    <3>3. configMap.data \in [Keys -> Composition]
      BY <3>1, <3>2, NothingType
    <3>4. Settled # {} <=> configMap.data # NoKeys
      BY <3>1, <3>2, ConfigMapAssumption DEF NoKeys
    <3> QED
      BY <3>1, <3>3, <3>4
  <2> QED
    BY <2>1, <2>2
<1>2. ConfigMapTypeOK
  BY <1>1, NothingType, NoOperationType DEF Init, ConfigMapTypeOK, Places
<1>3. \A c \in Clients : Sound(c)
  BY DEF Init, Sound
<1> QED
  BY <1>2, <1>3 DEF SoundInv

\* What a step of one client leaves of another: its locals, and that nobody
\* has written since it has read.
LEMMA OtherSound ==
  ASSUME NEW d \in Clients, Sound(d),
         at'[d] = at[d], op'[d] = op[d], snapshot'[d] = snapshot[d],
         writing'[d] = writing[d],
         fresh'[d] => fresh[d] /\ configMap' = configMap
  PROVE  Sound(d)'
<1>1. Written(d)' = Written(d)
  BY DEF Written
<1> QED
  BY <1>1 DEF Sound

LEMMA InvokeSound ==
  ASSUME SoundInv, NEW c \in Clients, NEW o \in Operation, Invoke(c, o)
  PROVE  SoundInv'
<1>1. /\ at' = [at EXCEPT ![c] = FirstPlace(o)]
      /\ op' = [op EXCEPT ![c] = o]
      /\ writing' = [writing EXCEPT ![c] =
                       IF o.kind = "Save" THEN o.resources ELSE EmptyComposition]
      /\ UNCHANGED <<configMap, snapshot, fresh, got>>
  BY DEF Invoke
<1>2. ConfigMapTypeOK'
  <2>1. FirstPlace(o) \in Places
    BY FirstPlaceCases, OperationType DEF Places
  <2> QED
    BY <1>1, <2>1, OperationType, NothingType DEF SoundInv, ConfigMapTypeOK
<1>3. ASSUME NEW d \in Clients PROVE Sound(d)'
  <2>1. CASE d # c
    BY <1>1, <2>1, OtherSound DEF SoundInv, ConfigMapTypeOK
  <2>2. CASE d = c
    <3>1. /\ at'[c] = FirstPlace(o) /\ op'[c] = o
          /\ writing'[c] = IF o.kind = "Save" THEN o.resources ELSE EmptyComposition
          /\ o.key \notin Settled
      BY <1>1 DEF Invoke, SoundInv, ConfigMapTypeOK
    <3> QED
      BY <2>2, <3>1, FirstPlaceCases, OperationType DEF Sound
  <2> QED
    BY <2>1, <2>2
<1> QED
  BY <1>2, <1>3 DEF SoundInv

\* An operation that ends without having written.
LEMMA EndSound ==
  ASSUME SoundInv, NEW c \in Clients, End(c), UNCHANGED configMap,
         fresh' = fresh \/ fresh' = [fresh EXCEPT ![c] = FALSE]
  PROVE  SoundInv'
<1>1. ConfigMapTypeOK'
  BY NothingType, NoOperationType DEF End, SoundInv, ConfigMapTypeOK, Places
<1>2. ASSUME NEW d \in Clients PROVE Sound(d)'
  <2>1. CASE d # c
    BY <2>1, OtherSound DEF End, SoundInv, ConfigMapTypeOK
  <2>2. CASE d = c
    BY <2>2 DEF End, SoundInv, ConfigMapTypeOK, Sound
  <2> QED
    BY <2>1, <2>2
<1> QED
  BY <1>1, <1>2 DEF SoundInv

Gets(c) == LoadGet(c) \/ DeleteGet(c) \/ SaveGet(c) \/ PurgeGet(c)

LEMMA GetFrame ==
  ASSUME SoundInv, NEW c \in Clients, Gets(c)
  PROVE  /\ \A d \in Clients \ {c} :
              /\ at'[d] = at[d] /\ op'[d] = op[d] /\ snapshot'[d] = snapshot[d]
              /\ writing'[d] = writing[d] /\ fresh'[d] = fresh[d]
         /\ op' = op /\ configMap' = configMap /\ at[c] # "idle"
BY DEF Gets, LoadGet, DeleteGet, SaveGet, PurgeGet, Go, Keep, SoundInv, ConfigMapTypeOK

LEMMA GetSound ==
  ASSUME SoundInv, NEW c \in Clients, Gets(c)
  PROVE  SoundInv'
<1>0. /\ op[c] \in Operation /\ configMap.data \in [Keys -> Composition]
      /\ Sound(c) /\ op[c].key \in Keys
  BY OperationType DEF SoundInv, ConfigMapTypeOK
<1>1. op' = op /\ configMap' = configMap /\ at[c] # "idle"
  BY GetFrame
<1>2. ASSUME NEW d \in Clients \ {c} PROVE Sound(d)'
  BY <1>1, GetFrame, OtherSound DEF SoundInv
<1>3. CASE LoadGet(c)
  <2>1. ConfigMapTypeOK'
    BY <1>0, <1>3 DEF LoadGet, Go, SoundInv, ConfigMapTypeOK, Places
  <2>2. Sound(c)'
    BY <1>0, <1>1, <1>3 DEF LoadGet, Go, SoundInv, ConfigMapTypeOK, Sound
  <2> QED
    BY <1>2, <2>1, <2>2 DEF SoundInv
<1>4. CASE DeleteGet(c)
  <2> DEFINE left == [configMap.data[op[c].key] EXCEPT ![op[c].resource] = NoData]
  <2>1. left \in Composition
    BY <1>0, NothingType DEF Composition
  <2>2. /\ at' = [at EXCEPT ![c] = IF left = EmptyComposition THEN "purge" ELSE "save"]
        /\ writing' = [writing EXCEPT ![c] = left]
        /\ UNCHANGED <<configMap, op, snapshot, fresh, got>>
        /\ op[c].kind = "DeleteResource"
    BY <1>4 DEF DeleteGet, Go
  <2> HIDE DEF left
  <2>3. ConfigMapTypeOK'
    BY <2>1, <2>2 DEF SoundInv, ConfigMapTypeOK, Places
  <2>4. Sound(c)'
    BY <1>0, <1>1, <2>2 DEF SoundInv, ConfigMapTypeOK, Sound
  <2> QED
    BY <1>2, <2>3, <2>4 DEF SoundInv
<1>5. CASE SaveGet(c) \/ PurgeGet(c)
  <2>1. /\ snapshot'[c] = configMap.data /\ writing' = writing /\ got' = got
        /\ snapshot' \in [Clients -> [Keys -> Composition]]
        /\ fresh' \in [Clients -> BOOLEAN]
    BY <1>0, <1>5 DEF SaveGet, PurgeGet, Keep, SoundInv, ConfigMapTypeOK
  <2>2. ConfigMapTypeOK'
    BY <1>1, <1>5, <2>1 DEF SaveGet, PurgeGet, Go, SoundInv, ConfigMapTypeOK, Places
  <2>3. Sound(c)'
    <3>1. CASE SaveGet(c)
      <4>1. /\ at'[c] = IF configMap.exists THEN "update" ELSE "create"
            /\ op[c].kind # "Load" /\ writing[c] # EmptyComposition
        BY <1>0, <3>1 DEF SaveGet, Go, SoundInv, ConfigMapTypeOK, Sound
      <4>2. at'[c] = "create" => snapshot'[c] = NoKeys
        BY <2>1, <4>1 DEF SoundInv, ConfigMapTypeOK
      <4>3. Written(c)'.data # NoKeys
        <5>1. Written(c)'.data[op[c].key] = writing[c]
          BY <1>0, <1>1, <2>1 DEF Written
        <5> QED
          BY <1>0, <4>1, <5>1 DEF NoKeys
      <4> QED
        BY <1>0, <1>1, <2>1, <4>1, <4>2, <4>3 DEF Sound
    <3>2. CASE PurgeGet(c)
      <4>1. /\ at'[c] = IF ~configMap.exists THEN "answer"
                        ELSE IF LeavesNothing(c) THEN "delete" ELSE "update"
            /\ op[c].kind # "Load" /\ writing[c] = EmptyComposition
        BY <1>0, <3>2 DEF PurgeGet, Go, SoundInv, ConfigMapTypeOK, Sound
      <4>2. at'[c] = "update" => Written(c)'.data # NoKeys
        BY <1>1, <2>1, <4>1 DEF Written, LeavesNothing
      <4>3. at'[c] = "delete" =>
              \A k \in Keys \ {op[c].key} : snapshot'[c][k] = EmptyComposition
        BY <1>0, <2>1, <4>1 DEF LeavesNothing, NoKeys
      <4> QED
        BY <1>0, <1>1, <2>1, <4>1, <4>2, <4>3 DEF Sound
    <3> QED
      BY <1>5, <3>1, <3>2
  <2> QED
    BY <1>2, <2>2, <2>3 DEF SoundInv
<1> QED
  BY <1>3, <1>4, <1>5 DEF Gets

LEMMA LandingFrame ==
  ASSUME SoundInv, NEW c \in Clients, Writes(c), Leaves(c)
  PROVE  /\ \A d \in Clients \ {c} :
              /\ at'[d] = at[d] /\ op'[d] = op[d] /\ snapshot'[d] = snapshot[d]
              /\ writing'[d] = writing[d]
         /\ at[c] \in {"create", "update", "delete"}
         /\ at'[c] = "idle" \/ (at'[c] = "answer" /\ op'[c] = op[c])
BY DEF Writes, Create, Update, Delete, Leaves, End, Go, SoundInv, ConfigMapTypeOK

LEMMA WriteSound ==
  ASSUME SoundInv, NEW c \in Clients, Writes(c)
  PROVE  SoundInv'
<1>1. Leaves(c) /\ (Refused(c) \/ \E written : Lands(c, written) /\ Lasting(c, written))
  BY WriteLasting
<1>2. CASE Refused(c)
  BY <1>2, EndSound DEF Refused
<1>3. CASE \E written : Lands(c, written) /\ Lasting(c, written)
  <2>1. PICK written : Lands(c, written) /\ Lasting(c, written)
    BY <1>3
  <2>2. ConfigMapTypeOK'
    <3>1. /\ configMap' \in [exists : BOOLEAN, data : [Keys -> Composition]]
          /\ configMap'.exists <=> configMap'.data # NoKeys
          /\ fresh' \in [Clients -> BOOLEAN]
      BY <2>1 DEF Lands, Lasting, Proper, SoundInv, ConfigMapTypeOK
    <3>2. /\ at' \in [Clients -> Places] /\ op' \in [Clients -> Operation]
          /\ snapshot' \in [Clients -> [Keys -> Composition]]
          /\ writing' \in [Clients -> Composition] /\ got' \in [Clients -> Composition]
      <4>1. CASE End(c)
        BY <4>1, NothingType, NoOperationType DEF End, SoundInv, ConfigMapTypeOK, Places
      <4>2. CASE ~End(c)
        <5>1. /\ at' = [at EXCEPT ![c] = "answer"]
              /\ snapshot' = [snapshot EXCEPT ![c] = NoKeys]
              /\ writing' = [writing EXCEPT ![c] = EmptyComposition]
              /\ op' = op /\ got' = got
          BY <1>1, <4>2 DEF Leaves, Go
        <5>2. "answer" \in Places
          BY DEF Places
        <5> QED
          BY <5>1, <5>2, NothingType DEF SoundInv, ConfigMapTypeOK
      <4> QED
        BY <4>1, <4>2
    <3> QED
      BY <3>1, <3>2 DEF ConfigMapTypeOK
  <2>3. ASSUME NEW d \in Clients PROVE Sound(d)'
    <3>1. \A e \in Clients : fresh'[e] => e # c /\ fresh[e] /\ configMap' = configMap
      BY <2>1 DEF Lands
    <3>2. CASE d # c
      BY <1>1, <3>1, <3>2, LandingFrame, OtherSound DEF SoundInv
    <3>3. CASE d = c
      BY <1>1, <3>3, LandingFrame DEF SoundInv, Sound
    <3> QED
      BY <3>2, <3>3
  <2> QED
    BY <2>2, <2>3 DEF SoundInv
<1> QED
  BY <1>1, <1>2, <1>3

LEMMA NextCases ==
  ASSUME Next
  PROVE  \E c \in Clients :
           \/ \E o \in Operation : Invoke(c, o)
           \/ Answer(c) \/ GetFails(c) \/ Gets(c) \/ Writes(c)
BY DEF Next, Gets, Writes

LEMMA SoundStep == SoundInv /\ [Next]_vars => SoundInv'
<1> SUFFICES ASSUME SoundInv, [Next]_vars PROVE SoundInv'
  OBVIOUS
<1>1. CASE Next
  <2>1. PICK c \in Clients :
          \/ \E o \in Operation : Invoke(c, o)
          \/ Answer(c) \/ GetFails(c) \/ Gets(c) \/ Writes(c)
    BY <1>1, NextCases
  <2>2. CASE Answer(c) \/ GetFails(c)
    BY <2>2, EndSound DEF Answer, GetFails
  <2> QED
    BY <2>1, <2>2, InvokeSound, GetSound, WriteSound
<1>2. CASE UNCHANGED vars
  BY <1>2 DEF vars, locals, SoundInv, ConfigMapTypeOK, Sound, Written
<1> QED
  BY <1>1, <1>2

LEMMA SoundInvariant == Spec => []SoundInv
BY InitSound, SoundStep, PTL DEF Spec

\* A ConfigMap exists exactly while it holds data, whatever clients do at once
\* and whatever the API calls answer (configmap_store.go:181-199).
THEOREM ConfigMapTypeCorrect == Spec => []ConfigMapTypeOK
BY SoundInvariant, PTL DEF SoundInv

\* The step of a client changes the data of its own composition, or it is the
\* Delete at the end of a purge and its Get had seen no other data.
Changes(c, k) ==
  /\ at[c] # "idle" /\ at'[c] # at[c]
  /\ \/ op[c].key = k
     \/ /\ at[c] = "delete" /\ configMap' = NoConfigMap
        /\ snapshot[c][k] = EmptyComposition

OthersLoseOnlyUnseen ==
  [][\A k \in Keys : configMap.data[k] # configMap'.data[k] =>
       \E c \in Clients : Changes(c, k)]_vars

\* However many clients are at work at once, and on however many compositions:
\* the data of a composition nobody works on change by one step only, the
\* Delete of an emptied ConfigMap, and only if they were stored between its Get
\* and that Delete (configmap_store.go:178-194).
THEOREM LossesWereUnseen == Spec => OthersLoseOnlyUnseen
<1>1. ASSUME SoundInv, Next, NEW k \in Keys, configMap.data[k] # configMap'.data[k]
      PROVE  \E c \in Clients : Changes(c, k)
  <2>1. PICK c \in Clients : Writes(c)
    BY <1>1 DEF Next, Writes, Invoke, Answer, GetFails, LoadGet, DeleteGet, SaveGet, PurgeGet
  <2>2. Leaves(c) /\ (Refused(c) \/ \E written : Lands(c, written) /\ Lasting(c, written))
    BY <1>1, <2>1, WriteLasting
  <2>3. PICK written : Lands(c, written) /\ Lasting(c, written)
    BY <1>1, <2>2 DEF Refused
  <2>4. at[c] # "idle" /\ at'[c] # at[c]
    BY <1>1, <2>1, <2>2, LandingFrame
  <2>5. CASE OwnOnly(c, written)
    <3>1. op[c].key = k
      BY <1>1, <2>3, <2>5 DEF Lands, OwnOnly, SoundInv, ConfigMapTypeOK
    <3> QED
      BY <2>4, <3>1 DEF Changes
  <2>6. CASE op[c].key # k /\ at[c] = "delete" /\ written = NoConfigMap
    <3>1. snapshot[c][k] = EmptyComposition /\ configMap' = NoConfigMap
      BY <1>1, <2>3, <2>6 DEF Lands, SoundInv, Sound
    <3> QED
      BY <2>4, <2>6, <3>1 DEF Changes
  <2> QED
    BY <2>3, <2>4, <2>5, <2>6 DEF Lasting, Changes
<1>2. SoundInv /\ [Next]_vars =>
        [\A k \in Keys : configMap.data[k] # configMap'.data[k] =>
           \E c \in Clients : Changes(c, k)]_vars
  BY <1>1
<1> QED
  BY <1>2, SoundInvariant, PTL DEF Spec, OthersLoseOnlyUnseen

---------------------------------------------------------------------------
(* Without the clash of a Save with what may delete the ConfigMap.  A       *)
(* client that is about to write holds what its operation leaves of its     *)
(* composition, and a client about to delete the ConfigMap is still alone   *)
(* in it: those at work with it have nothing there and store nothing,       *)
(* unless settled data keep the ConfigMap alive, and then it deletes none.  *)

Left(c) ==
  CASE op[c].kind = "Save" -> op[c].resources
    [] op[c].kind = "Purge" -> EmptyComposition
    [] op[c].kind = "DeleteResource" ->
         [configMap.data[op[c].key] EXCEPT ![op[c].resource] = NoData]
    [] OTHER -> configMap.data[op[c].key]

IsAlone(c) ==
  \A k \in Keys \ {op[c].key} : configMap.data[k] = EmptyComposition

Exact(c) ==
  /\ at[c] \in {"save", "purge", "create", "update", "delete"} => writing[c] = Left(c)
  /\ at[c] = "delete" => IsAlone(c)

Apart ==
  \A c, d \in Clients :
    c # d /\ at[c] # "idle" /\ at[d] # "idle" =>
      op[c].key # op[d].key /\ (KeptAlive \/ ~Clash(op[c], op[d]))

ConfigMapInv == SoundInv /\ (\A c \in Clients : Exact(c)) /\ Apart

LEMMA LeftCases ==
  ASSUME NEW c
  PROVE  /\ op[c].kind = "Save" => Left(c) = op[c].resources
         /\ op[c].kind = "Purge" => Left(c) = EmptyComposition
         /\ op[c].kind = "DeleteResource" =>
              Left(c) = [configMap.data[op[c].key] EXCEPT ![op[c].resource] = NoData]
BY DEF Left

\* A composition is what an operation leaves of it only as far as its own key
\* goes.
LEMMA LeftFrame ==
  ASSUME NEW c, op'[c] = op[c], configMap'.data[op[c].key] = configMap.data[op[c].key]
  PROVE  Left(c)' = Left(c)
BY DEF Left

\* Who may delete the ConfigMap is no Save.
LEMMA DeletersEmpty ==
  ASSUME ConfigMapInv, NEW c \in Clients, at[c] = "delete"
  PROVE  Empties(op[c])
<1>1. op[c] \in Operation /\ op[c].kind # "Load" /\ Left(c) = EmptyComposition
  BY DEF ConfigMapInv, SoundInv, ConfigMapTypeOK, Sound, Exact
<1> QED
  BY <1>1, LeftCases, OperationType DEF Empties

\* What is written beside a client about to delete the ConfigMap is nothing.
LEMMA AloneWithDelete ==
  ASSUME ConfigMapInv, NEW c \in Clients, NEW d \in Clients, c # d,
         at[c] \in {"create", "update", "delete"}, at[d] = "delete"
  PROVE  writing[c] = EmptyComposition
<1>1. /\ op[c] \in Operation /\ op[d] \in Operation /\ op[c].key \in Keys
      /\ op[c].key # op[d].key /\ (KeptAlive \/ ~Clash(op[c], op[d]))
      /\ op[d].key \notin Settled /\ IsAlone(d)
      /\ op[c].kind # "Load" /\ writing[c] = Left(c)
  BY OperationType DEF ConfigMapInv, SoundInv, ConfigMapTypeOK, Sound, Exact, Apart
<1>2. ~KeptAlive
  BY <1>1, ConfigMapAssumption DEF KeptAlive, IsAlone
<1>3. op[c].kind # "Save"
  BY <1>1, <1>2, DeletersEmpty DEF Clash
<1>4. configMap.data[op[c].key] = EmptyComposition
  BY <1>1 DEF IsAlone
<1>5. CASE op[c].kind = "Purge"
  BY <1>1, <1>5, LeftCases
<1>6. CASE op[c].kind = "DeleteResource"
  <2>1. Left(c) = [EmptyComposition EXCEPT ![op[c].resource] = NoData]
    BY <1>4, <1>6, LeftCases
  <2> QED
    BY <1>1, <2>1 DEF EmptyComposition
<1> QED
  BY <1>1, <1>3, <1>5, <1>6, OperationType

\* So every write has the effect of its operation.
Effective(c, written) == Proper(written) /\ OwnOnly(c, written)

LEMMA WriteEffect ==
  ASSUME ConfigMapInv, NEW c \in Clients, Writes(c)
  PROVE  /\ Leaves(c)
         /\ Refused(c) \/ \E written : Lands(c, written) /\ Effective(c, written)
<1>1. Leaves(c) /\ (Refused(c) \/ \E written : Lands(c, written) /\ Lasting(c, written))
  BY WriteLasting DEF ConfigMapInv
<1>2. at[c] = "delete" => OwnOnly(c, NoConfigMap)
  <2> SUFFICES ASSUME at[c] = "delete" PROVE OwnOnly(c, NoConfigMap)
    OBVIOUS
  <2>1. /\ op[c].key \in Keys /\ configMap.data \in [Keys -> Composition]
        /\ IsAlone(c) /\ writing[c] = EmptyComposition
    BY OperationType DEF ConfigMapInv, SoundInv, ConfigMapTypeOK, Sound, Exact
  <2>2. NoKeys = [configMap.data EXCEPT ![op[c].key] = writing[c]]
    BY <2>1 DEF IsAlone, NoKeys
  <2> QED
    BY <2>2 DEF NoConfigMap, OwnOnly
<1> QED
  BY <1>1, <1>2 DEF Lasting, Effective

LEMMA InitInv == Init => ConfigMapInv
BY InitSound DEF Init, ConfigMapInv, Exact, Apart

\* What a step of one client leaves of another.
LEMMA OtherExact ==
  ASSUME ConfigMapInv, NEW c \in Clients, NEW d \in Clients, d # c,
         at'[d] = at[d], op'[d] = op[d], writing'[d] = writing[d],
         \/ configMap' = configMap
         \/ /\ at[c] \in {"create", "update", "delete"}
            /\ configMap'.data = [configMap.data EXCEPT ![op[c].key] = writing[c]]
  PROVE  Exact(d)'
<1>1. /\ Exact(d) /\ op[d].key \in Keys /\ op[c].key \in Keys
      /\ configMap.data \in [Keys -> Composition]
  BY OperationType DEF ConfigMapInv, SoundInv, ConfigMapTypeOK
<1>2. CASE at[d] = "idle"
  BY <1>2 DEF Exact
<1>3. CASE at[d] # "idle"
  <2>1. configMap'.data[op[d].key] = configMap.data[op[d].key]
    BY <1>1, <1>3 DEF ConfigMapInv, Apart
  <2>2. Left(d)' = Left(d)
    BY <2>1, LeftFrame
  <2>3. at[d] = "delete" => IsAlone(d)'
    BY <1>1, AloneWithDelete DEF Exact, IsAlone
  <2> QED
    BY <1>1, <2>2, <2>3 DEF Exact
<1> QED
  BY <1>2, <1>3

\* Settled data stay, so that clients stay apart.
LEMMA ApartStays ==
  ASSUME ConfigMapInv, NEW c \in Clients,
         \A d \in Clients \ {c} : at'[d] = at[d] /\ op'[d] = op[d],
         \/ at'[c] = "idle"
         \/ at[c] # "idle" /\ op'[c] = op[c],
         \/ configMap' = configMap
         \/ /\ at[c] # "idle"
            /\ \A k \in Keys \ {op[c].key} : configMap'.data[k] = configMap.data[k]
  PROVE  Apart'
<1>1. KeptAlive => KeptAlive'
  <2>1. at[c] # "idle" => op[c].key \notin Settled
    BY DEF ConfigMapInv, SoundInv, Sound
  <2> QED
    BY <2>1, ConfigMapAssumption DEF KeptAlive
<1>2. ASSUME NEW d \in Clients, NEW e \in Clients, d # e,
             at'[d] # "idle", at'[e] # "idle"
      PROVE  op'[d].key # op'[e].key /\ (KeptAlive' \/ ~Clash(op'[d], op'[e]))
  <2>1. at[d] # "idle" /\ at[e] # "idle" /\ op'[d] = op[d] /\ op'[e] = op[e]
    BY <1>2
  <2> QED
    BY <1>1, <1>2, <2>1 DEF ConfigMapInv, Apart
<1>3. ASSUME NEW d, NEW e PROVE Clash(op[d], op[e])' <=> Clash(op'[d], op'[e])
  BY DEF Clash, Empties
<1> QED
  BY <1>2, <1>3 DEF Apart

LEMMA InvokeInv ==
  ASSUME ConfigMapInv, ~Crowded, NEW c \in Clients, NEW o \in Operation, Invoke(c, o)
  PROVE  ConfigMapInv'
<1>1. /\ at' = [at EXCEPT ![c] = FirstPlace(o)]
      /\ op' = [op EXCEPT ![c] = o]
      /\ writing' = [writing EXCEPT ![c] =
                       IF o.kind = "Save" THEN o.resources ELSE EmptyComposition]
      /\ UNCHANGED <<configMap, snapshot, fresh, got>>
  BY DEF Invoke
<1>2. ASSUME NEW d \in Clients PROVE Exact(d)'
  <2>1. CASE d # c
    BY <1>1, <2>1, OtherExact DEF ConfigMapInv, SoundInv, ConfigMapTypeOK
  <2>2. CASE d = c
    <3>1. /\ at'[c] = FirstPlace(o) /\ op'[c] = o
          /\ writing'[c] = IF o.kind = "Save" THEN o.resources ELSE EmptyComposition
      BY <1>1 DEF ConfigMapInv, SoundInv, ConfigMapTypeOK
    <3>2. /\ o.kind = "Save" => Left(c)' = o.resources
          /\ o.kind = "Purge" => Left(c)' = EmptyComposition
      BY <3>1 DEF Left
    <3> QED
      BY <2>2, <3>1, <3>2, FirstPlaceCases, OperationType DEF Exact
  <2> QED
    BY <2>1, <2>2
<1>3. Apart'
  <2>1. \A d \in Clients \ {c} :
          at[d] # "idle" => op[d].key # o.key /\ (KeptAlive \/ ~Clash(o, op[d]))
    BY DEF Invoke
  <2>2. \A d \in Clients : /\ at'[d] = IF d = c THEN FirstPlace(o) ELSE at[d]
                           /\ op'[d] = IF d = c THEN o ELSE op[d]
    BY <1>1 DEF ConfigMapInv, SoundInv, ConfigMapTypeOK
  <2>3. KeptAlive' <=> KeptAlive
    BY <1>1 DEF KeptAlive
  <2>4. ASSUME NEW d \in Clients, NEW e \in Clients, d # e,
               at'[d] # "idle", at'[e] # "idle"
        PROVE  op'[d].key # op'[e].key /\ (KeptAlive' \/ ~Clash(op'[d], op'[e]))
    BY <2>1, <2>2, <2>3, <2>4 DEF ConfigMapInv, Apart, Clash
  <2>5. ASSUME NEW d, NEW e PROVE Clash(op[d], op[e])' <=> Clash(op'[d], op'[e])
    BY DEF Clash, Empties
  <2> QED
    BY <2>4, <2>5 DEF Apart
<1> QED
  BY <1>2, <1>3, InvokeSound DEF ConfigMapInv

\* An operation that ends without having written.
LEMMA EndInv ==
  ASSUME ConfigMapInv, NEW c \in Clients, End(c), UNCHANGED configMap,
         fresh' = fresh \/ fresh' = [fresh EXCEPT ![c] = FALSE]
  PROVE  ConfigMapInv'
<1>1. SoundInv'
  BY EndSound DEF ConfigMapInv
<1>2. ASSUME NEW d \in Clients PROVE Exact(d)'
  <2>1. CASE d # c
    BY <2>1, OtherExact DEF End, ConfigMapInv, SoundInv, ConfigMapTypeOK
  <2>2. CASE d = c
    BY <2>2 DEF End, ConfigMapInv, SoundInv, ConfigMapTypeOK, Exact
  <2> QED
    BY <2>1, <2>2
<1>3. Apart'
  BY ApartStays DEF End, ConfigMapInv, SoundInv, ConfigMapTypeOK
<1> QED
  BY <1>1, <1>2, <1>3 DEF ConfigMapInv

LEMMA GetInv ==
  ASSUME ConfigMapInv, NEW c \in Clients, Gets(c)
  PROVE  ConfigMapInv'
<1>1. SoundInv /\ SoundInv'
  BY GetSound DEF ConfigMapInv
<1>2. op' = op /\ configMap' = configMap /\ at[c] # "idle"
  BY <1>1, GetFrame
<1>3. ASSUME NEW d \in Clients \ {c} PROVE Exact(d)'
  BY <1>1, <1>2, GetFrame, OtherExact
<1>4. Apart'
  BY <1>1, <1>2, GetFrame, ApartStays
<1>5. Exact(c)'
  <2>1. Left(c)' = Left(c)
    BY <1>2, LeftFrame
  <2>2. CASE LoadGet(c)
    BY <1>1, <2>2 DEF LoadGet, Go, SoundInv, ConfigMapTypeOK, Exact
  <2>3. CASE DeleteGet(c)
    <3>1. /\ writing'[c] = [configMap.data[op[c].key] EXCEPT ![op[c].resource] = NoData]
          /\ op[c].kind = "DeleteResource" /\ at'[c] \in {"purge", "save"}
      BY <1>1, <2>3 DEF DeleteGet, Go, SoundInv, ConfigMapTypeOK
    <3> QED
      BY <2>1, <3>1, LeftCases DEF Exact
  <2>4. CASE SaveGet(c) \/ PurgeGet(c)
    <3>1. writing'[c] = Left(c)'
      BY <2>1, <2>4 DEF SaveGet, PurgeGet, ConfigMapInv, Exact
    <3>2. at'[c] = "delete" => IsAlone(c)'
      <4>1. at'[c] = "delete" => PurgeGet(c) /\ LeavesNothing(c)
        BY <1>1, <2>4 DEF SaveGet, PurgeGet, Go, SoundInv, ConfigMapTypeOK
      <4>2. LeavesNothing(c) => IsAlone(c)
        BY <1>1, OperationType DEF LeavesNothing, IsAlone, NoKeys, SoundInv, ConfigMapTypeOK
      <4> QED
        BY <1>2, <4>1, <4>2 DEF IsAlone
    <3> QED
      BY <3>1, <3>2 DEF Exact
  <2> QED
    BY <2>2, <2>3, <2>4 DEF Gets
<1> QED
  BY <1>1, <1>3, <1>4, <1>5 DEF ConfigMapInv

LEMMA WriteInv ==
  ASSUME ConfigMapInv, NEW c \in Clients, Writes(c)
  PROVE  ConfigMapInv'
<1>1. Leaves(c) /\ (Refused(c) \/ \E written : Lands(c, written) /\ Effective(c, written))
  BY WriteEffect
<1>2. CASE Refused(c)
  BY <1>2, EndInv DEF Refused
<1>3. CASE \E written : Lands(c, written) /\ Effective(c, written)
  <2>1. configMap'.data = [configMap.data EXCEPT ![op[c].key] = writing[c]]
    BY <1>3 DEF Lands, Effective, OwnOnly
  <2>2. SoundInv /\ SoundInv' /\ configMap.data \in [Keys -> Composition]
    BY WriteSound DEF ConfigMapInv, SoundInv, ConfigMapTypeOK
  <2>3. ASSUME NEW d \in Clients PROVE Exact(d)'
    <3>1. CASE d # c
      BY <1>1, <2>1, <2>2, <3>1, LandingFrame, OtherExact
    <3>2. CASE d = c
      BY <1>1, <2>2, <3>2, LandingFrame DEF Exact
    <3> QED
      BY <3>1, <3>2
  <2>4. Apart'
    BY <1>1, <2>1, <2>2, LandingFrame, ApartStays
  <2> QED
    BY <2>2, <2>3, <2>4 DEF ConfigMapInv
<1> QED
  BY <1>1, <1>2, <1>3

LEMMA InvStep ==
  ASSUME ~Crowded PROVE ConfigMapInv /\ [Next]_vars => ConfigMapInv'
<1> SUFFICES ASSUME ConfigMapInv, [Next]_vars PROVE ConfigMapInv'
  OBVIOUS
<1>1. CASE Next
  <2>1. PICK c \in Clients :
          \/ \E o \in Operation : Invoke(c, o)
          \/ Answer(c) \/ GetFails(c) \/ Gets(c) \/ Writes(c)
    BY <1>1, NextCases
  <2>2. CASE Answer(c) \/ GetFails(c)
    BY <2>2, EndInv DEF Answer, GetFails
  <2> QED
    BY <2>1, <2>2, InvokeInv, GetInv, WriteInv
<1>2. CASE UNCHANGED vars
  <2>1. SoundInv'
    BY <1>2, SoundStep DEF ConfigMapInv
  <2> QED
    BY <1>2, <2>1 DEF vars, locals, ConfigMapInv, Exact, Left, IsAlone, Apart, KeptAlive,
       Clash, Empties
<1> QED
  BY <1>1, <1>2

LEMMA ConfigMapInvariant == ASSUME ~Crowded PROVE Spec => []ConfigMapInv
BY InitInv, InvStep, PTL DEF Spec

\* A step changes the data of one composition at most, and only while an
\* operation on it is under way (store.go:23, configmap_store.go:171), unless a
\* Save comes at once with a purge or a deletion that may empty the ConfigMap.
THEOREM DataOfOthersAreKept == ASSUME ~Crowded PROVE Spec => OthersKeepTheirData
<1>1. ConfigMapInv /\ [Next]_vars =>
        [\A k \in Keys : configMap.data[k] # configMap'.data[k] =>
           \E c \in Clients : at[c] # "idle" /\ op[c].key = k /\ at'[c] # at[c]]_vars
  <2> SUFFICES ASSUME ConfigMapInv, Next, NEW k \in Keys,
                      configMap.data[k] # configMap'.data[k]
               PROVE  \E c \in Clients : at[c] # "idle" /\ op[c].key = k /\ at'[c] # at[c]
    OBVIOUS
  <2>1. PICK c \in Clients : Writes(c)
    BY DEF Next, Writes, Invoke, Answer, GetFails, LoadGet, DeleteGet, SaveGet, PurgeGet
  <2>2. Leaves(c) /\ \E written : Lands(c, written) /\ Effective(c, written)
    BY <2>1, WriteEffect DEF Refused
  <2>3. op[c].key = k
    BY <2>2 DEF Lands, Effective, OwnOnly, ConfigMapInv, SoundInv, ConfigMapTypeOK
  <2>4. at[c] # "idle" /\ at'[c] # at[c]
    BY <2>1, <2>2, LandingFrame DEF ConfigMapInv
  <2> QED
    BY <2>3, <2>4
<1> QED
  BY <1>1, ConfigMapInvariant, PTL DEF Spec, OthersKeepTheirData

---------------------------------------------------------------------------
(* Refinement *)

LEMMA SameNames ==
  /\ Abstract!NoOperation = NoOperation /\ Abstract!Operation = Operation
  /\ Abstract!EmptyComposition = EmptyComposition /\ Abstract!NoData = NoData
BY DEF Abstract!NoOperation, Abstract!Operation, NoOperation, Operation,
   Abstract!EmptyComposition, EmptyComposition, Abstract!NoData, NoData

LEMMA StandingMoves ==
  ASSUME NEW c \in Clients, \A d \in Clients \ {c} : at'[d] = at[d]
  PROVE  Standing' = [Standing EXCEPT ![c] = Stands(c)']
BY DEF Standing, Stands

LEMMA PastMoves == Abstract!Remember
BY DEF Abstract!Remember, Present

LEMMA ResultCases ==
  ASSUME NEW o \in Operation, NEW composition
  PROVE  /\ o.kind = "Load" => Abstract!Result(o, composition) = composition
         /\ o.kind = "Save" => Abstract!Result(o, composition) = o.resources
         /\ o.kind = "Purge" => Abstract!Result(o, composition) = EmptyComposition
         /\ o.kind = "DeleteResource" =>
              Abstract!Result(o, composition) = [composition EXCEPT ![o.resource] = NoData]
BY OperationType, SameNames DEF Abstract!Result

\* What a client will write is what its operation is to do.
LEMMA LeftIsResult ==
  ASSUME ConfigMapInv, NEW c \in Clients, op[c].kind # "Load"
  PROVE  Left(c) = Abstract!Result(op[c], configMap.data[op[c].key])
<1>1. op[c] \in Operation
  BY DEF ConfigMapInv, SoundInv, ConfigMapTypeOK
<1> QED
  BY <1>1, OperationType, ResultCases, LeftCases

LEMMA InvokeImplements ==
  ASSUME ConfigMapInv, NEW c \in Clients, NEW o \in Operation, Invoke(c, o)
  PROVE  Abstract!Invoke(c, o)
<1>1. Standing' = [Standing EXCEPT ![c] = Stands(c)']
  BY StandingMoves DEF Invoke, ConfigMapInv, SoundInv, ConfigMapTypeOK
<1>2. Standing[c] = "idle" /\ Stands(c)' = "pending"
  BY FirstPlaceCases, OperationType DEF Invoke, ConfigMapInv, SoundInv, ConfigMapTypeOK,
     Standing, Stands
<1> QED
  BY <1>1, <1>2 DEF Invoke, Abstract!Invoke, Present

LEMMA EndImplements ==
  ASSUME ConfigMapInv, NEW c \in Clients, End(c), UNCHANGED configMap, at[c] # "idle"
  PROVE  Abstract!Answer(c) \/ Abstract!Refuse(c)
<1>1. Standing' = [Standing EXCEPT ![c] = Stands(c)']
  BY StandingMoves DEF End, ConfigMapInv, SoundInv, ConfigMapTypeOK
<1>2. Standing[c] \in {"pending", "taken"} /\ Stands(c)' = "idle"
  BY DEF End, ConfigMapInv, SoundInv, ConfigMapTypeOK, Standing, Stands
<1>3. Abstract!End(c)
  BY <1>1, <1>2, SameNames DEF End, Abstract!End
<1>4. Present' = Present
  BY DEF Present
<1> QED
  BY <1>2, <1>3, <1>4 DEF Abstract!Answer, Abstract!Refuse

\* An effect on the ConfigMap is the operation's.
LEMMA EffectImplements ==
  ASSUME ConfigMapInv, NEW c \in Clients,
         configMap'.data = [configMap.data EXCEPT ![op[c].key] = writing[c]],
         op[c].kind # "Load", writing[c] = Left(c)
  PROVE  Abstract!Effect(c)
BY LeftIsResult, PastMoves DEF Abstract!Effect

LEMMA GetImplements ==
  ASSUME ConfigMapInv, NEW c \in Clients,
         LoadGet(c) \/ DeleteGet(c) \/ SaveGet(c) \/ PurgeGet(c)
  PROVE  Abstract!Take(c) \/ UNCHANGED Abstract!atomicVars
<1>1. /\ op' = op /\ configMap' = configMap /\ Standing[c] = "pending"
      /\ \A d \in Clients \ {c} : at'[d] = at[d]
  BY DEF LoadGet, DeleteGet, SaveGet, PurgeGet, Go, Standing, Stands, ConfigMapInv,
     SoundInv, ConfigMapTypeOK
<1>2. Standing' = [Standing EXCEPT ![c] = Stands(c)'] /\ Present' = Present
  BY <1>1, StandingMoves DEF Present
<1>3. /\ op[c] \in Operation /\ op[c].key \in Keys
      /\ configMap.data \in [Keys -> Composition]
  BY OperationType DEF ConfigMapInv, SoundInv, ConfigMapTypeOK
<1>4. CASE LoadGet(c)
  <2>1. op[c].kind = "Load" /\ got' = [got EXCEPT ![c] = configMap.data[op[c].key]]
        /\ Stands(c)' = "taken"
    BY <1>4 DEF LoadGet, Go, Stands, ConfigMapInv, SoundInv, ConfigMapTypeOK
  <2>2. Abstract!Effect(c)
    BY <1>1, <1>3, <2>1, ResultCases, PastMoves DEF Abstract!Effect
  <2>3. \E found \in Present[op[c].key] : got' = [got EXCEPT ![c] = found]
    BY <1>3, <2>1 DEF Present
  <2> QED
    BY <1>1, <1>2, <2>1, <2>2, <2>3 DEF Abstract!Take
<1>5. CASE PurgeGet(c) /\ at'[c] = "answer"
  <2>1. /\ op[c].kind # "Load" /\ writing[c] = Left(c) /\ writing[c] = EmptyComposition
        /\ got' = got
    BY <1>5 DEF PurgeGet, ConfigMapInv, SoundInv, Sound, Exact
  <2>2. configMap.data = NoKeys
    BY <1>5 DEF PurgeGet, Go, ConfigMapInv, SoundInv, ConfigMapTypeOK
  <2>3. configMap'.data = [configMap.data EXCEPT ![op[c].key] = writing[c]]
    BY <1>1, <1>3, <2>1, <2>2 DEF NoKeys
  <2>4. Abstract!Effect(c)
    BY <2>1, <2>3, EffectImplements
  <2>5. Stands(c)' = "taken"
    BY <1>5 DEF Stands
  <2> QED
    BY <1>1, <1>2, <2>1, <2>4, <2>5 DEF Abstract!Take
<1>6. CASE ~LoadGet(c) /\ ~(PurgeGet(c) /\ at'[c] = "answer")
  <2>1. Stands(c)' = "pending" /\ got' = got
    BY <1>6 DEF DeleteGet, SaveGet, PurgeGet, Go, Stands, ConfigMapInv, SoundInv, ConfigMapTypeOK
  <2>2. Standing' = Standing
    BY <1>1, <1>2, <2>1 DEF Standing
  <2> QED
    BY <1>1, <1>2, <2>1, <2>2 DEF Abstract!atomicVars
<1> QED
  BY <1>4, <1>5, <1>6

LEMMA WriteImplements ==
  ASSUME ConfigMapInv, NEW c \in Clients, Writes(c)
  PROVE  \/ Abstract!Take(c) \/ Abstract!Lose(c)
         \/ Abstract!Answer(c) \/ Abstract!Refuse(c)
<1>1. Leaves(c) /\ (Refused(c) \/ \E written : Lands(c, written) /\ Effective(c, written))
  BY WriteEffect
<1>2. /\ at[c] \in {"create", "update", "delete"}
      /\ op[c].kind # "Load" /\ writing[c] = Left(c)
  BY DEF Writes, Create, Update, Delete, ConfigMapInv, SoundInv, Sound, Exact
<1>3. CASE Refused(c)
  BY <1>2, <1>3, EndImplements DEF Refused
<1>4. CASE \E written : Lands(c, written) /\ Effective(c, written)
  <2>1. Abstract!Effect(c)
    BY <1>2, <1>4, EffectImplements DEF Lands, Effective, OwnOnly
  <2>2. Standing' = [Standing EXCEPT ![c] = Stands(c)'] /\ Standing[c] = "pending"
    BY <1>1, <1>2, StandingMoves DEF Leaves, End, Go, ConfigMapInv, SoundInv, ConfigMapTypeOK,
       Standing, Stands
  <2>3. CASE End(c)
    <3>1. Stands(c)' = "idle"
      BY <2>3 DEF End, Stands, ConfigMapInv, SoundInv, ConfigMapTypeOK
    <3>2. Abstract!End(c)
      BY <2>2, <2>3, <3>1, SameNames DEF End, Abstract!End
    <3> QED
      BY <2>1, <2>2, <3>2 DEF Abstract!Lose
  <2>4. CASE ~End(c)
    <3>1. Stands(c)' = "taken" /\ UNCHANGED <<op, got>>
      BY <1>1, <2>4 DEF Leaves, Go, Stands, ConfigMapInv, SoundInv, ConfigMapTypeOK
    <3> QED
      BY <1>2, <2>1, <2>2, <3>1 DEF Abstract!Take
  <2> QED
    BY <2>3, <2>4
<1> QED
  BY <1>1, <1>3, <1>4

LEMMA InitImplements == Init => Abstract!AtomicInit
<1> SUFFICES ASSUME Init PROVE Abstract!AtomicInit
  OBVIOUS
<1>1. configMap.data \in [Keys -> {EmptyComposition} \cup Saves]
  <2>1. CASE configMap = NoConfigMap
    BY <2>1 DEF NoConfigMap, NoKeys
  <2>2. CASE configMap # NoConfigMap
    BY <2>2 DEF Init
  <2> QED
    BY <2>1, <2>2
<1>2. Standing = [c \in Clients |-> "idle"]
  BY DEF Init, Standing, Stands
<1> QED
  BY <1>1, <1>2, SameNames DEF Init, Abstract!AtomicInit, Present

LEMMA StepImplements ==
  ConfigMapInv /\ [Next]_vars => [Abstract!AtomicNext]_(Abstract!atomicVars)
<1> SUFFICES ASSUME ConfigMapInv, [Next]_vars
             PROVE  Abstract!AtomicNext \/ UNCHANGED Abstract!atomicVars
  OBVIOUS
<1>1. CASE Next
  <2>1. PICK c \in Clients :
          \/ \E o \in Operation : Invoke(c, o)
          \/ Answer(c) \/ GetFails(c)
          \/ LoadGet(c) \/ DeleteGet(c) \/ SaveGet(c) \/ PurgeGet(c)
          \/ Create(c) \/ Update(c) \/ Delete(c)
    BY <1>1 DEF Next
  <2>2. CASE \E o \in Operation : Invoke(c, o)
    BY <2>2, InvokeImplements, SameNames DEF Abstract!AtomicNext
  <2>3. CASE Answer(c) \/ GetFails(c)
    BY <2>3, EndImplements DEF Answer, GetFails, Abstract!AtomicNext
  <2>4. CASE LoadGet(c) \/ DeleteGet(c) \/ SaveGet(c) \/ PurgeGet(c)
    BY <2>4, GetImplements DEF Abstract!AtomicNext
  <2>5. CASE Create(c) \/ Update(c) \/ Delete(c)
    BY <2>5, WriteImplements DEF Writes, Abstract!AtomicNext
  <2> QED
    BY <2>1, <2>2, <2>3, <2>4, <2>5
<1>2. CASE UNCHANGED vars
  BY <1>2 DEF vars, locals, Abstract!atomicVars, Standing, Stands, Present
<1> QED
  BY <1>1, <1>2

\* Each operation on a ConfigMap takes effect at one moment and on its own
\* composition, although it takes several API calls on one shared object, as
\* long as no Save comes at once with a purge or a deletion that may empty the
\* ConfigMap (configmap_store.go:36-292).
THEOREM ConfigMapImplementsStore ==
  ASSUME ~Crowded PROVE Spec => Abstract!AtomicSpec
BY InitImplements, ConfigMapInvariant, StepImplements, PTL DEF Spec, Abstract!AtomicSpec
===========================================================================
