----------------------- MODULE EventualReadsProofs -----------------------
(***************************************************************************)
(* What holds of the handler even when a Load may return old data, for     *)
(* every set of calls, keys, resources, names and requests, every number   *)
(* of faults and every bound on the old data.                              *)
(***************************************************************************)
EXTENDS EventualReads, ResponseProofs

\* The types, and that whatever a Load may find is a composition.
LaggingInv == TypeOK /\ past \in [Keys -> SUBSET Composition]

LEMMA CallingIsTyped ==
  ASSUME LaggingInv, NEW c \in Calls, Calling(c) PROVE TypeOK'
<1>1. CASE \E rq \in Requests : LoadLagging(c, rq)
  <2>1. PICK rq \in Requests, k \in Keys : \E found \in past[k] : LoadFound(c, k, rq, found)
    BY <1>1 DEF LoadLagging
  <2>2. past[k] \subseteq Composition
    BY <2>1 DEF LaggingInv
  <2> QED
    BY <2>1, <2>2, RunFunctionAssumption, StartType DEF LaggingInv
<1>2. CASE \E rq \in Requests :
             \/ Skip(c, rq)
             \/ \E k \in Keys : PurgeComposition(c, k, rq) \/ LoadFails(c, k, rq)
  <2>1. PICK rq \in Requests, k \in Keys :
          Skip(c, rq) \/ PurgeComposition(c, k, rq) \/ LoadFails(c, k, rq)
    BY <1>2, RunFunctionAssumption
  <2> QED
    BY <2>1, EmptyCompositionType, RunFunctionAssumption, StartType DEF LaggingInv
<1>3. CASE Continue(c) \/ Abandon(c) \/ Return(c)
  BY <1>3, ContinueIsTyped DEF LaggingInv
<1> QED
  BY <1>1, <1>2, <1>3 DEF Calling

LEMMA LaggingStep == LaggingInv /\ [LaggingNext]_laggingVars => LaggingInv'
<1> SUFFICES ASSUME LaggingInv, [LaggingNext]_laggingVars PROVE LaggingInv'
  OBVIOUS
<1>1. CASE \E c \in Calls : Calling(c) /\ Remember
  <2>1. TypeOK'
    BY <1>1, CallingIsTyped
  <2>2. past' \in [Keys -> SUBSET Composition]
    BY <1>1, <2>1 DEF Remember, LaggingInv, TypeOK
  <2> QED
    BY <2>1, <2>2 DEF LaggingInv
<1>2. CASE \E k \in Keys : Replicate(k)
  <2>1. PICK k \in Keys : Replicate(k)
    BY <1>2
  <2>2. TypeOK'
    BY <2>1 DEF Replicate, LaggingInv, TypeOK, vars, local
  <2>3. past' \in [Keys -> SUBSET Composition]
    BY <2>1 DEF Replicate, LaggingInv, TypeOK
  <2> QED
    BY <2>2, <2>3 DEF LaggingInv
<1>3. CASE UNCHANGED laggingVars
  BY <1>3 DEF laggingVars, LaggingInv, TypeOK, vars, local
<1> QED
  BY <1>1, <1>2, <1>3 DEF LaggingNext

LEMMA LaggingInvariant == LaggingSpec => []LaggingInv
<1>1. LaggingInit => LaggingInv
  BY InitType DEF LaggingInit, LaggingInv, TypeOK
<1> QED
  BY <1>1, LaggingStep, PTL DEF LaggingSpec

\* Types survive reads that lag behind (dynamodb_store.go:119-164).
THEOREM LaggingTypeCorrect == LaggingSpec => []TypeOK
BY LaggingInvariant, PTL DEF LaggingInv

\* On a store with lagging reads, too, a name that nobody asked to remove is
\* lost only to a call that had not seen it (dynamodb_store.go:119-164,
\* fn.go:1276-1298, 987-1004).
THEOREM SeenNamesAreKeptLagging == LaggingSpec => OnlyUnseenNamesAreLost
<1>1. LaggingInv /\ [LaggingNext]_laggingVars =>
        [\A k \in Keys, r \in Resources : Loses(k, r) =>
           \E c \in Calls :
             \/ pc[c] = "idle" /\ pc'[c] # "idle"
             \/ pc[c] = "deleting" /\ key[c] = k /\ r \in pending[c] \ pending'[c]
             \/ Unseen(c, k, r)]_vars
  <2> SUFFICES ASSUME LaggingInv, [LaggingNext]_laggingVars, vars' # vars,
                      NEW k \in Keys, NEW r \in Resources, Loses(k, r)
               PROVE  \E c \in Calls :
                        \/ pc[c] = "idle" /\ pc'[c] # "idle"
                        \/ /\ pc[c] = "deleting" /\ key[c] = k
                           /\ r \in pending[c] \ pending'[c]
                        \/ Unseen(c, k, r)
    OBVIOUS
  <2>1. PICK c \in Calls : Calling(c)
    BY DEF LaggingNext, laggingVars, Replicate
  <2>2. CASE \E rq \in Requests : LoadLagging(c, rq)
    BY <2>2, CallLosesUnseen DEF LoadLagging, LaggingInv
  <2>3. CASE ~\E rq \in Requests : LoadLagging(c, rq)
    BY <2>1, <2>3, CallLosesUnseen DEF Calling, LaggingInv
  <2> QED
    BY <2>2, <2>3
<1> QED
  BY <1>1, LaggingInvariant, PTL DEF LaggingSpec, OnlyUnseenNamesAreLost

LEMMA CallingIsOrdinary ==
  ASSUME LaggingInv, OrdinaryRequests, NEW c \in Calls, Calling(c)
  PROVE  OrdinaryStep(c)
<1>1. CASE \E rq \in Requests :
             \/ Skip(c, rq) \/ LoadLagging(c, rq)
             \/ \E k \in Keys : PurgeComposition(c, k, rq) \/ LoadFails(c, k, rq)
  <2>1. PICK rq \in Requests :
             \/ Skip(c, rq) \/ LoadLagging(c, rq)
             \/ \E k \in Keys : PurgeComposition(c, k, rq) \/ LoadFails(c, k, rq)
    BY <1>1
  <2>2. rq \in Request /\ Ordinary(rq)
    BY RunFunctionAssumption DEF OrdinaryRequests
  <2>3. CASE LoadLagging(c, rq)
    BY <2>2, <2>3, StartIsOrdinary DEF LoadLagging, LaggingInv
  <2>4. CASE ~LoadLagging(c, rq)
    BY <2>1, <2>2, <2>4, StartIsOrdinary, DefaultsType, EmptyCompositionType
  <2> QED
    BY <2>3, <2>4
<1>2. CASE Continue(c) \/ Abandon(c) \/ Return(c)
  BY <1>2, ContinueIsOrdinary
<1> QED
  BY <1>1, <1>2 DEF Calling

LEMMA LaggingReady ==
  ASSUME OrdinaryRequests PROVE LaggingSpec => []ReadyInv
<1>1. LaggingInit => ReadyInv
  BY DEF LaggingInit, Init, ReadyInv, Running
<1>2. LaggingInv /\ ReadyInv /\ [LaggingNext]_laggingVars => ReadyInv'
  <2> SUFFICES ASSUME LaggingInv, ReadyInv, [LaggingNext]_laggingVars PROVE ReadyInv'
    OBVIOUS
  <2>1. CASE \E c \in Calls : Calling(c) /\ Remember
    BY <2>1, CallingIsOrdinary, ReadyStep DEF LaggingInv
  <2>2. CASE UNCHANGED vars
    BY <2>2 DEF vars, local, ReadyInv, Running, Ready
  <2> QED
    BY <2>1, <2>2 DEF LaggingNext, Replicate, laggingVars
<1> QED
  BY <1>1, <1>2, LaggingInvariant, PTL DEF LaggingSpec

\* What a deletion could not take out of the store is tried again even when
\* the Load before it returned old data (fn.go:905-930, dynamodb_store.go:119-164).
THEOREM DeletesAreRetriedLagging ==
  ASSUME OrdinaryRequests PROVE LaggingSpec => FailedDeleteIsRetried
<1>1. LaggingInv /\ ReadyInv /\ [LaggingNext]_laggingVars =>
        [\A c \in Calls, r \in Resources :
           (Answers(c) /\ desired[c][r].deleted
              /\ ~ShouldProcess(desired[c][r], mode[c].scope)) =>
             \/ store'[key[c]][r].ext = None
             \/ desired'[c][r].storedExt # None]_vars
  <2> SUFFICES ASSUME LaggingInv, ReadyInv, [LaggingNext]_laggingVars, vars' # vars,
                      NEW d \in Calls, NEW r \in Resources,
                      Answers(d), desired[d][r].deleted,
                      ~ShouldProcess(desired[d][r], mode[d].scope)
               PROVE  \/ store'[key[d]][r].ext = None
                      \/ desired'[d][r].storedExt # None
    OBVIOUS
  <2>1. PICK c \in Calls : Calling(c)
    BY DEF LaggingNext, laggingVars, Replicate
  <2> QED
    BY <2>1, CallingIsOrdinary, RetryStep DEF LaggingInv
<1> QED
  BY <1>1, LaggingInvariant, LaggingReady, PTL DEF LaggingSpec, FailedDeleteIsRetried
===========================================================================
