-------------------------- MODULE DbInstanceProofs --------------------------
(***************************************************************************)
(* Proofs about DbInstance, for any number of rows and of concurrent       *)
(* requests and any subset of the faults.                                  *)
(***************************************************************************)
EXTENDS DbInstance, TLAPS

\* What a worker knows about the row and the resources it works on, from where
\* it is in the code.
Control ==
    \A w \in Workers :
        /\ pc[w] = "create" => status[inst[w]] = "absent" /\ inst[w] \in keys
        /\ pc[w] \in Provisioning => status[inst[w]] = "provisioning" /\ inst[w] \in keys
        /\ pc[w] = "applied" => cloud[inst[w]] = "up"
        /\ pc[w] \in TearingDown \cup {"await", "delete", "unkey"} =>
              status[inst[w]] \notin {"absent", "provisioning"}
        /\ pc[w] \in TearingDown \cup {"unkey"} => status[inst[w]] # "running"
        /\ pc[w] \in {"destroyed", "removed", "unkey"} => cloud[inst[w]] = "none"

\* The creating side of an instance is one worker, and that worker is alone.
CreatorIsAlone ==
    \A w, v \in Workers :
        pc[w] \in Provisioning \cup {"create"} /\ inst[v] = inst[w] => v = w

\* The inductive invariant. Recoverable is not inductive by itself: that apply
\* is never overtaken by a destroy needs CreatorIsAlone, and that the state file
\* and the row go only after the resources needs Control.
IndInv ==
    TypeOK /\ AtMostOneLive /\ Control /\ CreatorIsAlone /\ Recoverable /\ RunningIsUp
-----------------------------------------------------------------------------
(* The invariant is inductive. Each lemma below takes one family of steps; *)
(* its leaves cite the action and the helpers the action is built from.    *)

\* The initial state satisfies the invariant: nothing exists.
LEMMA InitInv == Init => IndInv
  BY NoneAssumption
  DEF Init, RunnerInit, IndInv, TypeOK, RunnerTypeOK, AtMostOneLive, Control, CreatorIsAlone, Recoverable,
      RunningIsUp, Live, Statuses, PCs, Provisioning, TearingDown

\* A request begins: POST draws a name no one holds, DELETE reads a row that
\* nobody is provisioning.
LEMMA RequestInv ==
    ASSUME NEW w \in Workers, NEW i \in Instances, IndInv,
           CreateCount(w, i) \/ DeleteRead(w, i)
    PROVE  IndInv'
  <1> USE NoneAssumption DEF IndInv, TypeOK, RunnerTypeOK, AtMostOneLive, Control, CreatorIsAlone,
        Recoverable, RunningIsUp, Live, Statuses, PCs, Provisioning, TearingDown, rows, world
  <1>1. CASE CreateCount(w, i)
    BY <1>1 DEF CreateCount, DrawName, Start
  <1>2. CASE DeleteRead(w, i)
    BY <1>2 DEF DeleteRead, Start
  <1> QED BY <1>1, <1>2

\* What POST does to the invariant: the INSERT takes the free slot, and
\* the other two outcomes give the name back.
LEMMA CreateInv ==
    ASSUME NEW w \in Workers, IndInv, CreateStep(w)
    PROVE  IndInv'
  <1> USE NoneAssumption DEF IndInv, TypeOK, RunnerTypeOK, AtMostOneLive, Control, CreatorIsAlone,
        Recoverable, RunningIsUp, Live, Statuses, PCs, Provisioning, TearingDown, rows, world
  <1>1. CASE Insert(w)
    BY <1>1 DEF Insert, Goto, InsertRow
  <1>2. CASE InsertConflict(w)
    BY <1>2 DEF InsertConflict, DropKey, Return
  <1>3. CASE InsertFails(w)
    BY <1>3 DEF InsertFails, DropKey, Return, DbFails, AckLost, InsertRow
  <1> QED BY <1>1, <1>2, <1>3 DEF CreateStep

\* The goroutine of POST works on a row nobody else touches.
LEMMA ProvisionInv ==
    ASSUME NEW w \in Workers, IndInv, ProvisionStep(w)
    PROVE  IndInv'
  <1> USE NoneAssumption DEF IndInv, TypeOK, RunnerTypeOK, AtMostOneLive, Control, CreatorIsAlone,
        Recoverable, RunningIsUp, Live, Statuses, PCs, Provisioning, TearingDown, rows, world
  <1>1. CASE Prepare(w) /\ UNCHANGED rows
    BY <1>1 DEF Prepare, Goto, MakeWorkspace
  <1>2. CASE ApplyCreates(w) /\ UNCHANGED rows
    BY <1>2 DEF ApplyCreates
  <1>3. CASE ApplySucceeds(w) /\ UNCHANGED rows
    BY <1>3 DEF ApplySucceeds, Goto
  <1>4. CASE ApplyFails(w) /\ UNCHANGED rows
    BY <1>4 DEF ApplyFails, Goto
  <1>5. CASE OutputFails(w) /\ UNCHANGED rows
    BY <1>5 DEF OutputFails, Goto
  <1>6. CASE MarkProvisioned(w)
    BY <1>6 DEF MarkProvisioned, Goto, MarkProvisionedRow
  <1>7. CASE MarkProvisionedFails(w)
    BY <1>7 DEF MarkProvisionedFails, Return, DbFails, AckLost, MarkProvisionedRow
  <1> QED BY <1>1, <1>2, <1>3, <1>4, <1>5, <1>6, <1>7 DEF ProvisionStep, ApplyStep

\* Recording a failure changes a row only from a transient state.
LEMMA FailureInv ==
    ASSUME NEW w \in Workers, IndInv, FailureStep(w)
    PROVE  IndInv'
  <1> USE NoneAssumption DEF IndInv, TypeOK, RunnerTypeOK, AtMostOneLive, Control, CreatorIsAlone,
        Recoverable, RunningIsUp, Live, Statuses, PCs, Provisioning, TearingDown, rows, world
  <1>1. CASE RecordFailure(w)
    BY <1>1 DEF RecordFailure, Return, MarkStatus
  <1>2. CASE RecordFailureFails(w)
    BY <1>2 DEF RecordFailureFails, Return
  <1> QED BY <1>1, <1>2 DEF FailureStep

\* The readiness poll changes the container column and the message, 
\* nothing the invariant reads.
LEMMA AwaitInv ==
    ASSUME NEW w \in Workers, IndInv, AwaitStep(w)
    PROVE  IndInv'
  <1> USE NoneAssumption DEF IndInv, TypeOK, RunnerTypeOK, AtMostOneLive, Control, CreatorIsAlone,
        Recoverable, RunningIsUp, Live, Statuses, PCs, Provisioning, TearingDown, rows, world
  <1>1. CASE PostgresAnswers(w)
    BY <1>1 DEF PostgresAnswers, Return, MarkContainerStatus
  <1>2. CASE PostgresGivenUp(w)
    BY <1>2 DEF PostgresGivenUp, Return, MarkContainerStatus
  <1>3. CASE ContainerStatusFails(w)
    BY <1>3 DEF ContainerStatusFails, Return
  <1> QED BY <1>1, <1>2, <1>3 DEF AwaitStep

\* A teardown gives up the state file, the row
\* and the key only once the resources are gone.
LEMMA DeleteInv ==
    ASSUME NEW w \in Workers, IndInv, DeleteStep(w) \/ TeardownHook(w)
    PROVE  IndInv'
  <1> USE NoneAssumption DEF IndInv, TypeOK, RunnerTypeOK, AtMostOneLive, Control, CreatorIsAlone,
        Recoverable, RunningIsUp, Live, Statuses, PCs, Provisioning, TearingDown, rows, world
  <1>1. CASE DeleteMark(w)
    BY <1>1 DEF DeleteMark, Goto, Return, MarkStatus
  <1>2. CASE DeleteMarkFails(w)
    BY <1>2 DEF DeleteMarkFails, Return, DbFails, AckLost, MarkStatus
  <1>3. CASE TeardownHook(w)
    BY <1>3 DEF TeardownHook, Goto
  <1>4. CASE PrepareDestroy(w) /\ UNCHANGED rows
    BY <1>4 DEF PrepareDestroy, Goto, MakeWorkspace
  <1>5. CASE DestroyRemoves(w) /\ UNCHANGED rows
    BY <1>5 DEF DestroyRemoves
  <1>6. CASE DestroySucceeds(w) /\ UNCHANGED rows
    BY <1>6 DEF DestroySucceeds, Goto
  <1>7. CASE DestroyFails(w) /\ UNCHANGED rows
    BY <1>7 DEF DestroyFails, Goto
  <1>8. CASE RemoveWorkspace(w) /\ UNCHANGED rows
    BY <1>8 DEF RemoveWorkspace, Goto
  <1>9. CASE RemoveWorkspaceFails(w) /\ UNCHANGED rows
    BY <1>9 DEF RemoveWorkspaceFails, Goto
  <1>10. CASE SoftDelete(w)
    BY <1>10 DEF SoftDelete, Goto, SoftDeleteRow
  <1>11. CASE SoftDeleteFails(w)
    BY <1>11 DEF SoftDeleteFails, Return, DbFails, AckLost, SoftDeleteRow
  <1>12. CASE RemoveKey(w) /\ UNCHANGED rows
    BY <1>12 DEF RemoveKey, DropKey, Return
  <1> QED BY <1>1, <1>2, <1>3, <1>4, <1>5, <1>6, <1>7, <1>8, <1>9, <1>10, <1>11, <1>12 DEF DeleteStep, DestroyStep

\* An expired context changes no store, and a crash forgets every worker: the
\* obligations of Control and CreatorIsAlone fall away with them.
LEMMA EnvironmentInv ==
    ASSUME IndInv, (\E w \in Workers : Timeout(w)) \/ Crash
    PROVE  IndInv'
  <1> USE NoneAssumption DEF IndInv, TypeOK, RunnerTypeOK, AtMostOneLive, Control, CreatorIsAlone,
        Recoverable, RunningIsUp, Live, Statuses, PCs, Provisioning, TearingDown, rows, world
  <1>1. CASE \E w \in Workers : Timeout(w)
    BY <1>1 DEF Timeout, Expire
  <1>2. CASE Crash
    BY <1>2 DEF Crash, Die
  <1> QED BY <1>1, <1>2

\* Every step of the system preserves the invariant.
LEMMA NextInv == IndInv /\ [Next]_vars => IndInv'
  <1> SUFFICES ASSUME IndInv, [Next]_vars PROVE IndInv'
    OBVIOUS
  <1>1. CASE Next
    <2>1. ASSUME NEW w \in Workers, Request(w) PROVE IndInv'
      BY <2>1, RequestInv DEF Request
    <2>2. ASSUME NEW w \in Workers, WorkerStep(w) PROVE IndInv'
      BY <2>2, CreateInv, ProvisionInv, FailureInv, AwaitInv, DeleteInv
      DEF WorkerStep, OwnStep
    <2>3. ASSUME (\E w \in Workers : Timeout(w)) \/ Crash PROVE IndInv'
      BY <2>3, EnvironmentInv
    <2> QED BY <1>1, <2>1, <2>2, <2>3 DEF Next
  <1>2. CASE UNCHANGED vars
    BY <1>2 DEF vars, IndInv, TypeOK, RunnerTypeOK, AtMostOneLive, Control, CreatorIsAlone,
       Recoverable, RunningIsUp, Live
  <1> QED BY <1>1, <1>2

\* The invariant holds in every reachable state.
THEOREM Invariance == Spec => []IndInv
  <1> QED BY InitInv, NextInv, PTL DEF Spec

-----------------------------------------------------------------------------
(* What follows from the invariant                                         *)

\* Type correctness of the model of the dbinstance module.
THEOREM TypeCorrect == Spec => []TypeOK
  <1>1. IndInv => TypeOK
    BY DEF IndInv
  <1> QED BY <1>1, Invariance, PTL

\* The singleton rule of db_instances, for any number of concurrent requests.
THEOREM OneLiveInstance == Spec => []AtMostOneLive
  <1>1. IndInv => AtMostOneLive
    BY DEF IndInv
  <1> QED BY <1>1, Invariance, PTL

\* No AWS resource is ever orphaned: the live row, the state file and the key
\* pair outlast it under every fault and every interleaving of teardowns.
THEOREM NothingOrphaned == Spec => []Recoverable
  <1>1. IndInv => Recoverable
    BY DEF IndInv
  <1> QED BY <1>1, Invariance, PTL

\* A running row always has its complete host.
THEOREM RunningHasHost == Spec => []RunningIsUp
  <1>1. IndInv => RunningIsUp
    BY DEF IndInv
  <1> QED BY <1>1, Invariance, PTL

\* terraform apply and terraform destroy never meet in one workspace.
THEOREM ApplyUndisturbed == Spec => []ApplyIsAlone
  <1>1. IndInv => ApplyIsAlone
    BY DEF IndInv, CreatorIsAlone, ApplyIsAlone
  <1> QED BY <1>1, Invariance, PTL

-----------------------------------------------------------------------------
(* Without faults no row is abandoned                                      *)

\* Driven is inductive once it is known that no context has expired.
Undisturbed == Driven /\ expired = {}

\* A step of one worker leaves the goroutines of the other rows where they are,
\* and ends its own only after its row has left the transient state.
LEMMA DrivenStep ==
    ASSUME Faults = {}, IndInv, Undisturbed, [Next]_vars
    PROVE  Undisturbed'
  <1> USE NoneAssumption DEF IndInv, TypeOK, RunnerTypeOK, Control, CreatorIsAlone, Driven, Undisturbed, Live,
        Statuses, PCs, Provisioning, TearingDown, rows, world
  <1>1. ASSUME NEW w \in Workers, Request(w) PROVE Undisturbed'
    BY <1>1 DEF Request, CreateCount, DrawName, DeleteRead, Start
  <1>2. ASSUME NEW w \in Workers, CreateStep(w) PROVE Undisturbed'
    BY <1>2 DEF CreateStep, Insert, InsertConflict, InsertFails, DropKey, InsertRow, Goto, Return,
       DbFails, AckLost
  <1>3. ASSUME NEW w \in Workers, ProvisionStep(w) PROVE Undisturbed'
    BY <1>3 DEF ProvisionStep, ApplyStep, Prepare, ApplyCreates, ApplySucceeds, ApplyFails, OutputFails,
       MarkProvisioned, MarkProvisionedFails, MarkProvisionedRow, Goto, Return, DbFails, AckLost
  <1>4. ASSUME NEW w \in Workers, FailureStep(w) PROVE Undisturbed'
    BY <1>4 DEF FailureStep, RecordFailure, RecordFailureFails, MarkStatus, Return, DbFails
  <1>5. ASSUME NEW w \in Workers, AwaitStep(w) PROVE Undisturbed'
    BY <1>5 DEF AwaitStep, PostgresAnswers, PostgresGivenUp, ContainerStatusFails,
       MarkContainerStatus, Return, DbFails
  <1>6. ASSUME NEW w \in Workers, DeleteStep(w) \/ TeardownHook(w) PROVE Undisturbed'
    BY <1>6 DEF DeleteStep, DestroyStep, DeleteMark, DeleteMarkFails, TeardownHook, PrepareDestroy,
       DestroyRemoves, DestroySucceeds, DestroyFails, RemoveWorkspace, RemoveWorkspaceFails,
       SoftDelete, SoftDeleteFails, RemoveKey, DropKey, MarkStatus, SoftDeleteRow, Goto, Return,
       DbFails, AckLost
  <1>7. CASE UNCHANGED vars
    BY <1>7 DEF vars
  <1> QED BY <1>1, <1>2, <1>3, <1>4, <1>5, <1>6, <1>7 DEF Next, WorkerStep, OwnStep, Timeout, Expire, Crash, Die

\* If the database answers, no context expires and the process lives, every row
\* in provisioning or deleting has a goroutine at work on it.
THEOREM NothingAbandoned ==
    ASSUME Faults = {}
    PROVE  Spec => []Driven
  <1>1. Init => Undisturbed
    BY DEF Init, RunnerInit, Driven, Undisturbed
  <1>2. IndInv /\ Undisturbed /\ [Next]_vars => Undisturbed'
    BY DrivenStep
  <1>3. Undisturbed => Driven
    BY DEF Undisturbed
  <1> QED BY <1>1, <1>2, <1>3, Invariance, PTL DEF Spec

-----------------------------------------------------------------------------
(* A soft-deleted row is final                                             *)

\* Every step either leaves the columns alone or changes a row that is live:
\* the WHERE clause of each UPDATE, and Control for the row being created.
LEMMA DeletedStep == IndInv /\ [Next]_vars => [DeletedUnchanged]_vars
  <1> SUFFICES ASSUME IndInv, Next PROVE DeletedUnchanged
    BY DEF vars
  <1> USE DEF IndInv, TypeOK, RunnerTypeOK, Control, Live, Provisioning, DeletedUnchanged, rows
  <1>1. ASSUME NEW w \in Workers, Request(w) \/ Timeout(w) \/ Crash PROVE DeletedUnchanged
    BY <1>1 DEF Request, CreateCount, DrawName, DeleteRead, Timeout, Expire, Crash, Die
  <1>2. ASSUME NEW w \in Workers, CreateStep(w) PROVE DeletedUnchanged
    BY <1>2, NoneAssumption DEF CreateStep, Insert, InsertConflict, InsertFails, DropKey, InsertRow
  <1>3. ASSUME NEW w \in Workers, ProvisionStep(w) PROVE DeletedUnchanged
    BY <1>3, NoneAssumption DEF ProvisionStep, ApplyStep, Prepare, ApplyCreates, ApplySucceeds, ApplyFails,
       OutputFails, MarkProvisioned, MarkProvisionedFails, MarkProvisionedRow
  <1>4. ASSUME NEW w \in Workers, FailureStep(w) PROVE DeletedUnchanged
    BY <1>4, NoneAssumption DEF FailureStep, RecordFailure, RecordFailureFails, MarkStatus
  <1>5. ASSUME NEW w \in Workers, AwaitStep(w) PROVE DeletedUnchanged
    BY <1>5, NoneAssumption DEF AwaitStep, PostgresAnswers, PostgresGivenUp,
       ContainerStatusFails, MarkContainerStatus
  <1>6. ASSUME NEW w \in Workers, DeleteStep(w) \/ TeardownHook(w) PROVE DeletedUnchanged
    BY <1>6, NoneAssumption DEF DeleteStep, DestroyStep, DeleteMark, DeleteMarkFails, TeardownHook,
       PrepareDestroy, DestroyRemoves, DestroySucceeds, DestroyFails, RemoveWorkspace,
       RemoveWorkspaceFails, SoftDelete, SoftDeleteFails, RemoveKey, DropKey, MarkStatus, SoftDeleteRow
  <1> QED BY <1>1, <1>2, <1>3, <1>4, <1>5, <1>6 DEF Next, WorkerStep, OwnStep, Crash, Die

\* No late goroutine changes a row once it is soft deleted.
THEOREM DeletedRowsFinal == Spec => DeletedIsFinal
  <1> QED BY Invariance, DeletedStep, PTL DEF Spec, DeletedIsFinal

-----------------------------------------------------------------------------
(* DbInstance implements InstanceSlot                                      *)

\* The initial states correspond.
LEMMA SlotInit == Init => Slot!Init
  BY DEF Init, RunnerInit, Slot!Init

\* The steps that a client cannot see: they change neither a status nor the set
\* of instances that own resources.
LEMMA HiddenStep ==
    ASSUME IndInv, UNCHANGED status,
           \A i \in Instances : cloud'[i] = "none" <=> cloud[i] = "none"
    PROVE  UNCHANGED Slot!vars
  BY DEF Slot!vars

\* A step of one instance is a step of InstanceSlot.
LEMMA SlotActions ==
    ASSUME NEW i \in Instances,
           \/ Slot!Register(i) \/ Slot!Build(i) \/ Slot!Provisioned(i) \/ Slot!Fail(i)
           \/ Slot!StartDelete(i) \/ Slot!Release(i) \/ Slot!Retire(i)
    PROVE  Slot!Next
  BY DEF Slot!Next

\* POST and the provisioning goroutine: Register, Build, Provisioned.
LEMMA SlotCreateStep ==
    ASSUME NEW w \in Workers, IndInv, CreateStep(w) \/ ProvisionStep(w)
    PROVE  [Slot!Next]_(Slot!vars)
  <1>i. PICK i \in Instances : inst[w] = i
    BY DEF CreateStep, ProvisionStep, ApplyStep, Insert, InsertConflict, InsertFails, DropKey, Prepare,
       ApplyCreates, ApplySucceeds, ApplyFails, OutputFails, MarkProvisioned,
       MarkProvisionedFails, IndInv, TypeOK, RunnerTypeOK
  <1> SUFFICES \/ Slot!Register(i) \/ Slot!Build(i)
               \/ Slot!Provisioned(i) \/ UNCHANGED Slot!vars
    BY SlotActions
  <1> USE DEF IndInv, TypeOK, RunnerTypeOK, Control, Live, Provisioning, rows, world
  <1>1. CASE Insert(w) \/ InsertFails(w)
    BY <1>1, <1>i, HiddenStep DEF Insert, InsertFails, DropKey, InsertRow, Slot!Register, Slot!Occupies
  <1>2. CASE ApplyCreates(w) /\ UNCHANGED rows
    BY <1>2, <1>i DEF ApplyCreates, Slot!Build
  <1>3. CASE MarkProvisioned(w) \/ MarkProvisionedFails(w)
    BY <1>3, <1>i, HiddenStep
    DEF MarkProvisioned, MarkProvisionedFails, MarkProvisionedRow, Slot!Provisioned
  <1>4. CASE \/ InsertConflict(w)
             \/ UNCHANGED rows /\ (Prepare(w) \/ ApplySucceeds(w) \/ ApplyFails(w) \/ OutputFails(w))
    BY <1>4, <1>i, HiddenStep DEF InsertConflict, DropKey, Prepare, ApplySucceeds, ApplyFails, OutputFails
  <1> QED BY <1>1, <1>2, <1>3, <1>4 DEF CreateStep, ProvisionStep, ApplyStep

\* DELETE, its goroutine and the failures both goroutines record: StartDelete,
\* Release, Retire and Fail.
LEMMA SlotDeleteStep ==
    ASSUME NEW w \in Workers, IndInv, DeleteStep(w) \/ TeardownHook(w) \/ FailureStep(w)
    PROVE  [Slot!Next]_(Slot!vars)
  <1>i. PICK i \in Instances : inst[w] = i
    BY DEF DeleteStep, DestroyStep, FailureStep, DeleteMark, DeleteMarkFails, TeardownHook, PrepareDestroy,
       DestroyRemoves, DestroySucceeds, DestroyFails, RemoveWorkspace, RemoveWorkspaceFails,
       SoftDelete, SoftDeleteFails, RemoveKey, DropKey, RecordFailure, RecordFailureFails,
       IndInv, TypeOK, RunnerTypeOK
  <1> SUFFICES \/ Slot!StartDelete(i) \/ Slot!Release(i)
               \/ Slot!Retire(i) \/ Slot!Fail(i) \/ UNCHANGED Slot!vars
    BY SlotActions
  <1> USE DEF IndInv, TypeOK, RunnerTypeOK, Control, Recoverable, Live, Statuses, Provisioning,
        TearingDown, rows, world
  <1>1. CASE DeleteMark(w) \/ DeleteMarkFails(w)
    BY <1>1, <1>i, HiddenStep DEF DeleteMark, DeleteMarkFails, MarkStatus, Slot!StartDelete
  <1>2. CASE DestroySucceeds(w) /\ UNCHANGED rows
    BY <1>2, <1>i, HiddenStep DEF DestroySucceeds, Slot!Release
  <1>3. CASE SoftDelete(w) \/ SoftDeleteFails(w)
    BY <1>3, <1>i, HiddenStep DEF SoftDelete, SoftDeleteFails, SoftDeleteRow, Slot!Retire
  <1>4. CASE RecordFailure(w) \/ RecordFailureFails(w)
    BY <1>4, <1>i, HiddenStep DEF RecordFailure, RecordFailureFails, MarkStatus, Slot!Fail
  <1>5. CASE \/ TeardownHook(w)
             \/ /\ UNCHANGED rows
                /\ \/ PrepareDestroy(w) \/ DestroyRemoves(w) \/ DestroyFails(w)
                   \/ RemoveWorkspace(w) \/ RemoveWorkspaceFails(w) \/ RemoveKey(w)
    BY <1>5, <1>i, HiddenStep
    DEF TeardownHook, PrepareDestroy, DestroyRemoves, DestroyFails, RemoveWorkspace,
        RemoveWorkspaceFails, RemoveKey, DropKey
  <1> QED BY <1>1, <1>2, <1>3, <1>4, <1>5 DEF DeleteStep, DestroyStep, FailureStep

\* Every step of the component is a step of InstanceSlot or invisible.
LEMMA SlotNext == IndInv /\ [Next]_vars => [Slot!Next]_(Slot!vars)
  <1> SUFFICES ASSUME IndInv, [Next]_vars PROVE [Slot!Next]_(Slot!vars)
    OBVIOUS
  <1>1. ASSUME NEW w \in Workers, Request(w) \/ Timeout(w) \/ Crash \/ AwaitStep(w)
        PROVE UNCHANGED Slot!vars
    BY <1>1, HiddenStep
    DEF Request, CreateCount, DrawName, DeleteRead, Timeout, Expire, Crash, Die, AwaitStep, PostgresAnswers,
        PostgresGivenUp, ContainerStatusFails, MarkContainerStatus, rows, world
  <1>2. CASE UNCHANGED vars
    BY <1>2, HiddenStep DEF vars
  <1>3. CASE Next
    BY <1>1, <1>3, SlotCreateStep, SlotDeleteStep DEF Next, WorkerStep, OwnStep, Crash, Die
  <1> QED BY <1>2, <1>3

\* The dbinstance module keeps the promises of InstanceSlot.
THEOREM SlotImplemented == Spec => ImplementsSlot
  <1> QED BY SlotInit, SlotNext, Invariance, PTL DEF Spec, ImplementsSlot, Slot!Spec
=============================================================================
