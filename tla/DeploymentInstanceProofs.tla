---------------------- MODULE DeploymentInstanceProofs ----------------------
(***************************************************************************)
(* Proofs about DeploymentInstance, for any number of rows and of          *)
(* concurrent requests and any subset of the faults.                       *)
(***************************************************************************)
EXTENDS DeploymentInstance, TLAPS

\* A creator up to the UPDATE that makes its row active.
Building == {"provision", "applying", "applied", "provisionFailed", "persist"}

\* What a worker knows about its row and resources, from where it is in the code.
Control ==
    \A w \in Workers :
        /\ pc[w] = "create" => status[inst[w]] = "absent" /\ inst[w] \in keys
        /\ pc[w] \in Building => status[inst[w]] = "provisioning" /\ inst[w] \in keys
        /\ pc[w] \in {"applied", "persist"} => cloud[inst[w]] = "up"
        /\ pc[w] = "persist" => inst[w] \in kubeconfigs
        /\ pc[w] = "unready" => status[inst[w]] # "absent"
        /\ pc[w] = "guard" => status[inst[w]] \notin {"absent", "provisioning"}
        /\ pc[w] \in TearingDown \cup {"unkey"} => inst[w] \in condemned
        /\ pc[w] \in {"destroyed", "removed", "terminate", "unkey"} => cloud[inst[w]] = "none"

\* The creating side of an instance is one worker, and that worker is alone.
CreatorIsAlone ==
    \A w, v \in Workers :
        pc[w] \in Building \cup {"create"} /\ inst[v] = inst[w] => v = w

\* A teardown only ever starts on a row that has been provisioned.
CondemnedIsPast == \A i \in condemned : status[i] \notin {"absent", "provisioning"}

\* The inductive invariant. DELETE leaves no mark in the row, so what keeps a
\* teardown away from an active row is the history CondemnedIsPast and Control
\* speak of.
IndInv ==
    /\ TypeOK /\ AtMostOneLive /\ Control /\ CreatorIsAlone /\ CondemnedIsPast
    /\ Recoverable /\ ActiveIsUsable

-----------------------------------------------------------------------------
(* The invariant is inductive                                              *)

\* Nothing exists in the initial state.
LEMMA InitInv == Init => IndInv
  BY NoneAssumption
  DEF Init, RunnerInit, IndInv, TypeOK, RunnerTypeOK, AtMostOneLive, Control, CreatorIsAlone,
      CondemnedIsPast, Recoverable, ActiveIsUsable, Live, Statuses, PCs, Provisioning,
      TearingDown, Building

\* A request begins: POST draws a name no one holds, DELETE reads a row that
\* nobody is building.
LEMMA RequestInv ==
    ASSUME NEW w \in Workers, NEW i \in Instances, IndInv,
           CreateRead(w, i) \/ DeleteRead(w, i)
    PROVE  IndInv'
  <1> USE NoneAssumption DEF IndInv, TypeOK, RunnerTypeOK, AtMostOneLive, Control,
        CreatorIsAlone, CondemnedIsPast, Recoverable, ActiveIsUsable, Live, Statuses, PCs,
        Provisioning, TearingDown, Building, own, columns, world
  <1>1. CASE CreateRead(w, i)
    BY <1>1 DEF CreateRead, DrawName, Start
  <1>2. CASE DeleteRead(w, i)
    BY <1>2 DEF DeleteRead, Start
  <1> QED BY <1>1, <1>2

\* The INSERT takes the free slot; the other two outcomes give the name back.
LEMMA CreateInv ==
    ASSUME NEW w \in Workers, IndInv, CreateStep(w)
    PROVE  IndInv'
  <1> USE NoneAssumption DEF IndInv, TypeOK, RunnerTypeOK, AtMostOneLive, Control,
        CreatorIsAlone, CondemnedIsPast, Recoverable, ActiveIsUsable, Live, Statuses, PCs,
        Provisioning, TearingDown, Building, own, columns, world
  <1>1. CASE Insert(w)
    BY <1>1 DEF Insert, Goto, InsertRow
  <1>2. CASE InsertConflict(w)
    BY <1>2 DEF InsertConflict, DropKey, Return
  <1>3. CASE InsertFails(w)
    BY <1>3 DEF InsertFails, DropKey, Return, DbFails, AckLost, InsertRow
  <1> QED BY <1>1, <1>2, <1>3 DEF CreateStep

\* The goroutine of POST works on a row nobody else touches.
LEMMA ProvisionInv ==
    ASSUME NEW w \in Workers, IndInv, ProvisionStep(w)
    PROVE  IndInv'
  <1> USE NoneAssumption DEF IndInv, TypeOK, RunnerTypeOK, AtMostOneLive, Control,
        CreatorIsAlone, CondemnedIsPast, Recoverable, ActiveIsUsable, Live, Statuses, PCs,
        Provisioning, TearingDown, Building, own, columns, world
  <1>1. CASE Prepare(w) /\ UNCHANGED own
    BY <1>1 DEF Prepare, Goto, MakeWorkspace
  <1>2. CASE ApplyCreates(w) /\ UNCHANGED own
    BY <1>2 DEF ApplyCreates
  <1>3. CASE ApplySucceeds(w) /\ UNCHANGED own
    BY <1>3 DEF ApplySucceeds, Goto
  <1>4. CASE ApplyFails(w) /\ UNCHANGED own
    BY <1>4 DEF ApplyFails, Goto
  <1>5. CASE OutputFails(w) /\ UNCHANGED own
    BY <1>5 DEF OutputFails, Goto
  <1>6. CASE CaptureKubeconfig(w)
    BY <1>6 DEF CaptureKubeconfig, Goto
  <1>7. CASE NotReady(w)
    BY <1>7 DEF NotReady, Goto
  <1>8. CASE MarkProvisioned(w)
    BY <1>8 DEF MarkProvisioned, MarkProvisionedRow, Return
  <1>9. CASE MarkProvisionedFails(w)
    BY <1>9 DEF MarkProvisionedFails, MarkProvisionedRow, Goto
  <1> QED
    BY <1>1, <1>2, <1>3, <1>4, <1>5, <1>6, <1>7, <1>8, <1>9 DEF ProvisionStep, ApplyStep

\* Recording a failure never revives a row and never makes one active.
LEMMA FailureInv ==
    ASSUME NEW w \in Workers, IndInv, FailureStep(w)
    PROVE  IndInv'
  <1> USE NoneAssumption DEF IndInv, TypeOK, RunnerTypeOK, AtMostOneLive, Control,
        CreatorIsAlone, CondemnedIsPast, Recoverable, ActiveIsUsable, Live, Statuses, PCs,
        Provisioning, TearingDown, Building, own, columns, world
  <1>1. CASE RecordFailure(w)
    BY <1>1 DEF RecordFailure, Return, MarkRow
  <1>2. CASE RecordFailureFails(w)
    BY <1>2 DEF RecordFailureFails, Return
  <1> QED BY <1>1, <1>2 DEF FailureStep

\* The guard lets a teardown begin, and the row is condemned.
LEMMA GuardInv ==
    ASSUME NEW w \in Workers, IndInv, Guard(w)
    PROVE  IndInv'
  <1> USE NoneAssumption DEF IndInv, TypeOK, RunnerTypeOK, AtMostOneLive, Control,
        CreatorIsAlone, CondemnedIsPast, Recoverable, ActiveIsUsable, Live, Statuses, PCs,
        Provisioning, TearingDown, Building, own, columns, world
  <1>1. CASE GuardPasses(w)
    BY <1>1 DEF GuardPasses, Goto
  <1>2. CASE GuardRefuses(w)
    BY <1>2 DEF GuardRefuses, Return
  <1> QED BY <1>1, <1>2 DEF Guard

\* A teardown gives up the state file, the row and the key only once the
\* resources are gone.
LEMMA DeleteInv ==
    ASSUME NEW w \in Workers, IndInv, DeleteStep(w)
    PROVE  IndInv'
  <1> USE NoneAssumption DEF IndInv, TypeOK, RunnerTypeOK, AtMostOneLive, Control,
        CreatorIsAlone, CondemnedIsPast, Recoverable, ActiveIsUsable, Live, Statuses, PCs,
        Provisioning, TearingDown, Building, own, columns, world
  <1>1. CASE PrepareDestroy(w) /\ UNCHANGED own
    BY <1>1 DEF PrepareDestroy, Goto, MakeWorkspace
  <1>2. CASE DestroyRemoves(w) /\ UNCHANGED own
    BY <1>2 DEF DestroyRemoves
  <1>3. CASE DestroySucceeds(w) /\ UNCHANGED own
    BY <1>3 DEF DestroySucceeds, Goto
  <1>4. CASE DestroyFails(w) /\ UNCHANGED own
    BY <1>4 DEF DestroyFails, Goto
  <1>5. CASE RemoveWorkspace(w) /\ UNCHANGED own
    BY <1>5 DEF RemoveWorkspace, Goto
  <1>6. CASE RemoveWorkspaceFails(w) /\ UNCHANGED own
    BY <1>6 DEF RemoveWorkspaceFails, Goto
  <1>7. CASE RemoveKey(w) /\ UNCHANGED own
    BY <1>7 DEF RemoveKey, DropKey, Return
  <1>8. CASE RemoveKubeconfig(w)
    BY <1>8 DEF RemoveKubeconfig, Goto
  <1>9. CASE MarkTerminated(w)
    BY <1>9 DEF MarkTerminated, MarkRow, Goto
  <1>10. CASE MarkTerminatedFails(w)
    BY <1>10 DEF MarkTerminatedFails, MarkRow, Return
  <1> QED
    BY <1>1, <1>2, <1>3, <1>4, <1>5, <1>6, <1>7, <1>8, <1>9, <1>10 DEF DeleteStep, DestroyStep

\* An expired context changes no store, and a crash forgets every worker.
LEMMA EnvironmentInv ==
    ASSUME IndInv, (\E w \in Workers : Timeout(w)) \/ Crash
    PROVE  IndInv'
  <1> USE NoneAssumption DEF IndInv, TypeOK, RunnerTypeOK, AtMostOneLive, Control,
        CreatorIsAlone, CondemnedIsPast, Recoverable, ActiveIsUsable, Live, Statuses, PCs,
        Provisioning, TearingDown, Building, own, columns, world
  <1>1. CASE \E w \in Workers : Timeout(w)
    BY <1>1 DEF Timeout, Expire, OnDeadline
  <1>2. CASE Crash
    BY <1>2 DEF Crash, Die
  <1> QED BY <1>1, <1>2

\* Every step of the system preserves the invariant.
LEMMA NextInv == IndInv /\ [Next]_vars => IndInv'
  <1> SUFFICES ASSUME IndInv, [Next]_vars PROVE IndInv'
    OBVIOUS
  <1>1. ASSUME NEW w \in Workers, Request(w) PROVE IndInv'
    BY <1>1, RequestInv DEF Request
  <1>2. ASSUME NEW w \in Workers, OwnStep(w) \/ Guard(w) PROVE IndInv'
    BY <1>2, CreateInv, ProvisionInv, FailureInv, GuardInv, DeleteInv DEF OwnStep
  <1>3. ASSUME (\E w \in Workers : Timeout(w)) \/ Crash PROVE IndInv'
    BY <1>3, EnvironmentInv
  <1>4. CASE UNCHANGED vars
    BY <1>4 DEF vars, own, world, control, IndInv, TypeOK, RunnerTypeOK, AtMostOneLive, Control,
       CreatorIsAlone, CondemnedIsPast, Recoverable, ActiveIsUsable, Live
  <1> QED BY <1>1, <1>2, <1>3, <1>4 DEF Next

\* The invariant holds in every reachable state.
THEOREM Invariance == Spec => []IndInv
  <1> QED BY InitInv, NextInv, PTL DEF Spec

-----------------------------------------------------------------------------
(* What follows from the invariant                                         *)

\* Type correctness of the model of the deploymentinstance module.
THEOREM TypeCorrect == Spec => []TypeOK
  <1>1. IndInv => TypeOK
    BY DEF IndInv
  <1> QED BY <1>1, Invariance, PTL

\* The singleton rule of deploymentinstance, for any number of requests.
THEOREM OneLiveInstance == Spec => []AtMostOneLive
  <1>1. IndInv => AtMostOneLive
    BY DEF IndInv
  <1> QED BY <1>1, Invariance, PTL

\* No AWS resource is ever orphaned, though any number of teardowns overlap.
THEOREM NothingOrphaned == Spec => []Recoverable
  <1>1. IndInv => Recoverable
    BY DEF IndInv
  <1> QED BY <1>1, Invariance, PTL

\* An active instance nobody tears down has its host and its kubeconfig.
THEOREM ActiveHasHost == Spec => []ActiveIsUsable
  <1>1. IndInv => ActiveIsUsable
    BY DEF IndInv
  <1> QED BY <1>1, Invariance, PTL

\* terraform apply and terraform destroy never meet in one workspace.
THEOREM ApplyUndisturbed == Spec => []ApplyIsAlone
  <1>1. IndInv => ApplyIsAlone
    BY DEF IndInv, CreatorIsAlone, Building, ApplyIsAlone
  <1> QED BY <1>1, Invariance, PTL

-----------------------------------------------------------------------------
(* A terminated row is final                                               *)

\* Every UPDATE spares a terminated row, and a creator's row is not terminated.
LEMMA TerminatedStep == IndInv /\ [Next]_vars => [TerminatedUnchanged]_vars
  <1> SUFFICES ASSUME IndInv, Next PROVE TerminatedUnchanged
    BY DEF vars
  <1> USE NoneAssumption DEF IndInv, TypeOK, RunnerTypeOK, Control, Live, Building,
        TerminatedUnchanged, own, columns
  <1>1. ASSUME NEW w \in Workers, Request(w) \/ Timeout(w) \/ Crash \/ Guard(w)
        PROVE TerminatedUnchanged
    BY <1>1 DEF Request, CreateRead, DeleteRead, Timeout, Crash, Guard, GuardPasses, GuardRefuses
  <1>2. ASSUME NEW w \in Workers, CreateStep(w) PROVE TerminatedUnchanged
    BY <1>2 DEF CreateStep, Insert, InsertConflict, InsertFails, InsertRow
  <1>3. ASSUME NEW w \in Workers, ProvisionStep(w) PROVE TerminatedUnchanged
    BY <1>3 DEF ProvisionStep, CaptureKubeconfig, NotReady, MarkProvisioned,
       MarkProvisionedFails, MarkProvisionedRow
  <1>4. ASSUME NEW w \in Workers, FailureStep(w) \/ DeleteStep(w) PROVE TerminatedUnchanged
    BY <1>4 DEF FailureStep, RecordFailure, RecordFailureFails, DeleteStep, RemoveKubeconfig,
       MarkTerminated, MarkTerminatedFails, MarkRow
  <1> QED BY <1>1, <1>2, <1>3, <1>4 DEF Next, OwnStep, Crash

\* No late goroutine revives a row once it is terminated.
THEOREM TerminatedRowsFinal == Spec => TerminatedIsFinal
  <1> QED BY Invariance, TerminatedStep, PTL DEF Spec, TerminatedIsFinal

-----------------------------------------------------------------------------
(* DeploymentInstance implements InstanceSlot                              *)

\* The initial states correspond.
LEMMA SlotInit == Init => Slot!Init
  BY DEF Init, RunnerInit, Slot!Init, slotStatus

\* What a client cannot see: no status and no teardown, no change in the set of
\* instances that own resources.
LEMMA HiddenStep ==
    ASSUME UNCHANGED <<status, condemned>>,
           \A i \in Instances : cloud'[i] = "none" <=> cloud[i] = "none"
    PROVE  UNCHANGED Slot!vars
  BY DEF Slot!vars, slotStatus

\* A change of one row is a change of one record of the slot.
LEMMA OneRow ==
    ASSUME NEW i \in Instances,
           \A j \in Instances \ {i} :
              status'[j] = status[j] /\ (j \in condemned' <=> j \in condemned)
    PROVE  slotStatus' = [slotStatus EXCEPT ![i] = slotStatus'[i]]
  BY DEF slotStatus

\* A step of one instance is a step of InstanceSlot.
LEMMA SlotActions ==
    ASSUME NEW i \in Instances,
           \/ Slot!Register(i) \/ Slot!Build(i) \/ Slot!Provisioned(i) \/ Slot!Fail(i)
           \/ Slot!StartDelete(i) \/ Slot!Release(i) \/ Slot!Retire(i)
    PROVE  Slot!Next
  BY DEF Slot!Next

\* POST and the provisioning goroutine: Register, Build, Provisioned.
LEMMA SlotCreateStep ==
    ASSUME NEW w \in Workers, IndInv, CreateStep(w) \/ ProvisionStep(w)
    PROVE  [Slot!Next]_(Slot!vars)
  <1>i. PICK i \in Instances : inst[w] = i
    BY DEF CreateStep, ProvisionStep, ApplyStep, Insert, InsertConflict, InsertFails, Prepare,
       ApplyCreates, ApplySucceeds, ApplyFails, OutputFails, CaptureKubeconfig, NotReady,
       MarkProvisioned, MarkProvisionedFails, IndInv, TypeOK, RunnerTypeOK
  <1> SUFFICES Slot!Register(i) \/ Slot!Build(i) \/ Slot!Provisioned(i) \/ UNCHANGED Slot!vars
    BY SlotActions
  <1> USE DEF IndInv, TypeOK, RunnerTypeOK, Control, CondemnedIsPast, Live, Building, own,
        columns, world
  <1>1. CASE Insert(w) \/ InsertFails(w)
    <2>1. CASE UNCHANGED columns
      BY <1>1, <2>1, HiddenStep DEF Insert, InsertFails, DropKey
    <2>2. CASE Live = {} /\ InsertRow(i)
      <3>1. slotStatus' = [slotStatus EXCEPT ![i] = slotStatus'[i]]
        BY <1>1, <2>2, OneRow DEF Insert, InsertFails, InsertRow
      <3>2. slotStatus[i] = "absent" /\ slotStatus'[i] = "provisioning"
        BY <1>1, <1>i, <2>2 DEF Insert, InsertFails, InsertRow, slotStatus
      <3>3. \A j \in Instances : slotStatus[j] \in {"absent", "deleted"}
        BY <2>2 DEF slotStatus
      <3> QED
        BY <1>1, <3>1, <3>2, <3>3 DEF Insert, InsertFails, DropKey, Slot!Register, Slot!Occupies
    <2> QED BY <1>1, <1>i, <2>1, <2>2 DEF Insert, InsertFails
  <1>2. CASE ApplyCreates(w) /\ UNCHANGED own
    BY <1>2, <1>i DEF ApplyCreates, slotStatus, Slot!Build
  <1>3. CASE MarkProvisioned(w) \/ MarkProvisionedFails(w)
    <2>1. CASE UNCHANGED columns
      BY <1>3, <2>1, HiddenStep DEF MarkProvisioned, MarkProvisionedFails
    <2>2. CASE MarkProvisionedRow(i)
      <3>1. slotStatus' = [slotStatus EXCEPT ![i] = slotStatus'[i]]
        BY <1>3, <2>2, OneRow DEF MarkProvisioned, MarkProvisionedFails, MarkProvisionedRow
      <3>2. slotStatus[i] = "provisioning" /\ slotStatus'[i] = "running" /\ cloud[i] = "up"
        BY <1>3, <1>i, <2>2
        DEF MarkProvisioned, MarkProvisionedFails, MarkProvisionedRow, slotStatus
      <3> QED
        BY <1>3, <3>1, <3>2 DEF MarkProvisioned, MarkProvisionedFails, Slot!Provisioned
    <2> QED BY <1>3, <1>i, <2>1, <2>2 DEF MarkProvisioned, MarkProvisionedFails
  <1>4. CASE \/ InsertConflict(w) \/ CaptureKubeconfig(w) \/ NotReady(w)
             \/ UNCHANGED own /\ (Prepare(w) \/ ApplySucceeds(w) \/ ApplyFails(w) \/ OutputFails(w))
    BY <1>4, <1>i, HiddenStep
    DEF InsertConflict, DropKey, CaptureKubeconfig, NotReady, Prepare, ApplySucceeds, ApplyFails,
        OutputFails
  <1> QED BY <1>1, <1>2, <1>3, <1>4 DEF CreateStep, ProvisionStep, ApplyStep

\* DELETE, its goroutine and the recorded failures: StartDelete, Release, Retire
\* and Fail.
LEMMA SlotDeleteStep ==
    ASSUME NEW w \in Workers, IndInv, Guard(w) \/ DeleteStep(w) \/ FailureStep(w)
    PROVE  [Slot!Next]_(Slot!vars)
  <1>i. PICK i \in Instances : inst[w] = i
    BY DEF Guard, GuardPasses, GuardRefuses, DeleteStep, DestroyStep, FailureStep,
       PrepareDestroy, DestroyRemoves, DestroySucceeds, DestroyFails, RemoveWorkspace,
       RemoveWorkspaceFails, RemoveKey, RemoveKubeconfig, MarkTerminated, MarkTerminatedFails,
       RecordFailure, RecordFailureFails, IndInv, TypeOK, RunnerTypeOK
  <1> SUFFICES \/ Slot!StartDelete(i) \/ Slot!Release(i)
               \/ Slot!Retire(i) \/ Slot!Fail(i) \/ UNCHANGED Slot!vars
    BY SlotActions
  <1> USE DEF IndInv, TypeOK, RunnerTypeOK, Control, CondemnedIsPast, Recoverable, Live,
        Statuses, Building, TearingDown, own, columns, world
  <1>1. CASE Guard(w)
    <2>1. CASE GuardRefuses(w)
      BY <2>1, HiddenStep DEF GuardRefuses
    <2>2. CASE GuardPasses(w)
      <3>1. slotStatus' = [slotStatus EXCEPT ![i] = slotStatus'[i]]
        BY <1>i, <2>2, OneRow DEF GuardPasses
      <3>2. \/ slotStatus[i] = "running" /\ slotStatus'[i] = "deleting"
            \/ slotStatus'[i] = slotStatus[i]
        BY <1>i, <2>2 DEF GuardPasses, slotStatus
      <3>3. slotStatus = [slotStatus EXCEPT ![i] = slotStatus[i]]
        BY DEF slotStatus
      <3> QED
        BY <2>2, <3>1, <3>2, <3>3 DEF GuardPasses, Slot!vars, Slot!StartDelete
    <2> QED BY <1>1, <2>1, <2>2 DEF Guard
  <1>2. CASE DestroySucceeds(w) /\ UNCHANGED own
    BY <1>2, <1>i, HiddenStep DEF DestroySucceeds, slotStatus, Slot!Release
  <1>3. CASE MarkTerminated(w) \/ MarkTerminatedFails(w)
    <2>1. CASE UNCHANGED status
      BY <1>3, <2>1, HiddenStep DEF MarkTerminated, MarkTerminatedFails
    <2>2. CASE i \in Live /\ status' = [status EXCEPT ![i] = "terminated"]
      <3>1. slotStatus' = [slotStatus EXCEPT ![i] = slotStatus'[i]]
        BY <1>3, <2>2, OneRow DEF MarkTerminated, MarkTerminatedFails
      <3>2. slotStatus[i] \in {"deleting", "failed"} /\ slotStatus'[i] = "deleted"
        BY <1>3, <1>i, <2>2 DEF MarkTerminated, MarkTerminatedFails, slotStatus
      <3>3. cloud[i] = "none" /\ UNCHANGED cloud
        BY <1>3, <1>i DEF MarkTerminated, MarkTerminatedFails
      <3> QED
        BY <3>1, <3>2, <3>3 DEF Slot!Retire
    <2> QED BY <1>3, <1>i, <2>1, <2>2 DEF MarkTerminated, MarkTerminatedFails, MarkRow
  <1>4. CASE RecordFailure(w) \/ RecordFailureFails(w)
    <2>1. CASE UNCHANGED status
      BY <1>4, <2>1, HiddenStep DEF RecordFailure, RecordFailureFails
    <2>2. CASE i \in Live /\ status' = [status EXCEPT ![i] = "failed"]
      <3>1. slotStatus' = [slotStatus EXCEPT ![i] = slotStatus'[i]]
        BY <1>4, <2>2, OneRow DEF RecordFailure, RecordFailureFails
      <3>2. /\ slotStatus[i] \in {"provisioning", "running", "deleting", "failed"}
            /\ slotStatus'[i] = "failed"
        BY <1>4, <1>i, <2>2 DEF RecordFailure, RecordFailureFails, slotStatus
      <3>3. slotStatus = [slotStatus EXCEPT ![i] = slotStatus[i]]
        BY DEF slotStatus
      <3> QED
        BY <1>4, <3>1, <3>2, <3>3 DEF RecordFailure, RecordFailureFails, Slot!vars, Slot!Fail
    <2> QED BY <1>4, <1>i, <2>1, <2>2 DEF RecordFailure, RecordFailureFails, MarkRow
  <1>5. CASE \/ RemoveKubeconfig(w)
             \/ /\ UNCHANGED own
                /\ \/ PrepareDestroy(w) \/ DestroyRemoves(w) \/ DestroyFails(w)
                   \/ RemoveWorkspace(w) \/ RemoveWorkspaceFails(w) \/ RemoveKey(w)
    BY <1>5, <1>i, HiddenStep
    DEF RemoveKubeconfig, PrepareDestroy, DestroyRemoves, DestroyFails, RemoveWorkspace,
        RemoveWorkspaceFails, RemoveKey, DropKey
  <1> QED BY <1>1, <1>2, <1>3, <1>4, <1>5 DEF DeleteStep, DestroyStep, FailureStep

\* Every step of the component is a step of InstanceSlot or invisible.
LEMMA SlotNext == IndInv /\ [Next]_vars => [Slot!Next]_(Slot!vars)
  <1> SUFFICES ASSUME IndInv, [Next]_vars PROVE [Slot!Next]_(Slot!vars)
    OBVIOUS
  <1>1. ASSUME NEW w \in Workers, Request(w) \/ Timeout(w) \/ Crash
        PROVE UNCHANGED Slot!vars
    BY <1>1, HiddenStep
    DEF Request, CreateRead, DrawName, DeleteRead, Timeout, Expire, Crash, Die, own, world
  <1>2. CASE UNCHANGED vars
    BY <1>2, HiddenStep DEF vars, own, world
  <1>3. CASE Next
    BY <1>1, <1>3, SlotCreateStep, SlotDeleteStep DEF Next, OwnStep, Crash, Die
  <1> QED BY <1>2, <1>3

\* The deploymentinstance module keeps the promises of InstanceSlot.
THEOREM SlotImplemented == Spec => ImplementsSlot
  <1> QED BY SlotInit, SlotNext, Invariance, PTL DEF Spec, ImplementsSlot, Slot!Spec
=============================================================================
