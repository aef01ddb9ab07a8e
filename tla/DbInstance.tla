----------------------------- MODULE DbInstance -----------------------------
(***************************************************************************)
(* The dbinstance module: POST and DELETE /db-instances, the goroutine     *)
(* each of them leaves behind, the db_instances row, the Terraform         *)
(* workspace on disk, the SSH key pair and the AWS resources.              *)
(* The host itself is HostRunner's.                                        *)
(***************************************************************************)
EXTENDS HostRunner

VARIABLES
    status, container, message, deleted   \* the columns of db_instances

rows == <<status, container, message, deleted>>
vars == <<status, container, message, deleted, keys, workspace, cloud,
          pc, inst, expired>>

Statuses == {"absent", "provisioning", "running", "failed", "deleting", "deleted"}

Provisioning == {"provision", "applying", "applied", "provisionFailed"}
TearingDown == {"hook", "destroy", "destroying", "destroyed", "destroyFailed", "removed"}
PCs == {"idle", "create", "await", "delete", "unkey"} \cup Provisioning \cup TearingDown

\* Rows with deleted_at IS NULL.
Live == {i \in Instances : status[i] # "absent" /\ i \notin deleted}

Init ==
    /\ status = [i \in Instances |-> "absent"]
    /\ container = [i \in Instances |-> "pending"]
    /\ message = [i \in Instances |-> "none"]
    /\ deleted = {}
    /\ RunnerInit

-----------------------------------------------------------------------------
(* The SQL statements.                                                     *)

InsertRow(i) ==
    /\ status' = [status EXCEPT ![i] = "provisioning"]
    /\ container' = [container EXCEPT ![i] = "pending"]
    /\ message' = [message EXCEPT ![i] = "none"]
    /\ UNCHANGED deleted

\* Mutant: the WHERE clause forgets deleted_at IS NULL.
MarkStatusOfDeletedRows(i, s, m) ==
    /\ status' = [status EXCEPT ![i] = s]
    /\ message' = [message EXCEPT ![i] = m]
    /\ UNCHANGED <<container, deleted>>

MarkStatus(i, s, m) ==
    /\ status' = IF i \in Live THEN [status EXCEPT ![i] = s] ELSE status
    /\ message' = IF i \in Live THEN [message EXCEPT ![i] = m] ELSE message
    /\ UNCHANGED <<container, deleted>>

MarkContainerStatus(i, s, m) ==
    /\ container' = IF i \in Live THEN [container EXCEPT ![i] = s] ELSE container
    /\ message' = IF i \in Live THEN [message EXCEPT ![i] = m] ELSE message
    /\ UNCHANGED <<status, deleted>>

\* Mutant: SoftDelete sets deleted_at and forgets the status.
SoftDeleteKeepsStatus(i) ==
    /\ deleted' = IF i \in Live THEN deleted \cup {i} ELSE deleted
    /\ UNCHANGED <<status, container, message>>

SoftDeleteRow(i) ==
    /\ status' = IF i \in Live THEN [status EXCEPT ![i] = "deleted"] ELSE status
    /\ deleted' = IF i \in Live THEN deleted \cup {i} ELSE deleted
    /\ UNCHANGED <<container, message>>

-----------------------------------------------------------------------------
(* POST /db-instances                                                      *)

\* CountActive found no live row, a fresh random name was drawn and its key
\* pair written.
CreateCount(w, i) ==
    /\ Live = {}
    /\ status[i] = "absent"
    /\ DrawName(w, i)
    /\ UNCHANGED rows

\* Mutant: no unique index behind the count check.
InsertUnindexed(w) ==
    /\ pc[w] = "create"
    /\ InsertRow(inst[w])
    /\ Goto(w, "provision")
    /\ UNCHANGED world

\* The INSERT: uq_single_active_db_instance admits one live row.
Insert(w) ==
    /\ pc[w] = "create"
    /\ Live = {}
    /\ InsertRow(inst[w])
    /\ Goto(w, "provision")
    /\ UNCHANGED world

\* Another request inserted first: unique violation, the key pair is removed.
InsertConflict(w) ==
    /\ pc[w] = "create"
    /\ Live # {}
    /\ DropKey(w)
    /\ UNCHANGED rows

\* The INSERT errors, possibly after it committed; nobody provisions the row.
InsertFails(w) ==
    /\ pc[w] = "create"
    /\ DbFails(w)
    /\ \/ UNCHANGED rows
       \/ AckLost(w) /\ Live = {} /\ InsertRow(inst[w])
    /\ DropKey(w)

-----------------------------------------------------------------------------
(* provisionAsync and the Terraform apply                                  *)

MarkProvisionedRow(i) ==
    /\ status' = [status EXCEPT ![i] = "running"]
    /\ message' = [message EXCEPT ![i] = "none"]
    /\ UNCHANGED <<container, deleted>>

\* awaitPostgres runs on a context of its own, of ReadinessTimeout.
MarkProvisioned(w) ==
    /\ pc[w] = "applied"
    /\ w \notin expired
    /\ inst[w] \in Live
    /\ MarkProvisionedRow(inst[w])
    /\ Goto(w, "await")
    /\ UNCHANGED world

\* The error (no live row is one) is only logged and the goroutine ends.
MarkProvisionedFails(w) ==
    /\ pc[w] = "applied"
    /\ inst[w] \in Live => DbFails(w)
    /\ \/ UNCHANGED rows
       \/ AckLost(w) /\ inst[w] \in Live /\ MarkProvisionedRow(inst[w])
    /\ Return(w)
    /\ UNCHANGED world

\* Mutant: the error is logged and the row left as it is.
FailureOnlyLogged(w) ==
    /\ pc[w] \in {"provisionFailed", "destroyFailed"}
    /\ Return(w)
    /\ UNCHANGED <<rows, world>>

\* setStatus(failed, stderr) after a failed apply or a failed destroy.
RecordFailure(w) ==
    /\ pc[w] \in {"provisionFailed", "destroyFailed"}
    /\ w \notin expired
    /\ MarkStatus(inst[w], "failed", "terraform")
    /\ Return(w)
    /\ UNCHANGED world

\* The same ctx that ended terraform ends the statement that would say so.
RecordFailureFails(w) ==
    /\ pc[w] \in {"provisionFailed", "destroyFailed"}
    /\ DbFails(w)
    /\ Return(w)
    /\ UNCHANGED <<rows, world>>

-----------------------------------------------------------------------------
(* awaitPostgres                                                           *)

\* The port answers: something must still be there to answer. The UPDATE runs on
\* the ctx of the polling, which may have expired since.
PostgresAnswers(w) ==
    /\ pc[w] = "await"
    /\ w \notin expired
    /\ cloud[inst[w]] # "none"
    /\ MarkContainerStatus(inst[w], "running", "none")
    /\ Return(w)
    /\ UNCHANGED world

\* Mutant: the readiness timeout is only logged.
GivingUpOnlyLogged(w) ==
    /\ pc[w] = "await"
    /\ Return(w)
    /\ UNCHANGED <<rows, world>>

\* The loop sees the readiness timeout, and says so on a context that does not
\* expire; or the instance has no address.
PostgresGivenUp(w) ==
    /\ pc[w] = "await"
    /\ MarkContainerStatus(inst[w], "failed", "container")
    /\ Return(w)
    /\ UNCHANGED world

\* The error is only logged.
ContainerStatusFails(w) ==
    /\ pc[w] = "await"
    /\ DbFails(w)
    /\ Return(w)
    /\ UNCHANGED <<rows, world>>

-----------------------------------------------------------------------------
(* DELETE /db-instances/:id                                                *)

\* Mutant: the busy check is gone.
DeleteUnchecked(w, i) ==
    /\ i \in Live
    /\ Start(w, i, "delete")
    /\ UNCHANGED <<rows, world>>

\* Mutant: only a running instance can be deleted.
DeleteRunningOnly(w, i) ==
    /\ i \in Live
    /\ status[i] = "running"
    /\ Start(w, i, "delete")
    /\ UNCHANGED <<rows, world>>

\* GetByID, then the busy check on the row that was read.
DeleteRead(w, i) ==
    /\ i \in Live
    /\ status[i] \notin {"provisioning", "deleting"}
    /\ Start(w, i, "delete")
    /\ UNCHANGED <<rows, world>>

\* Mutant: the teardown starts without marking the row.
DeleteUnmarked(w) ==
    /\ pc[w] = "delete"
    /\ Goto(w, "hook")
    /\ UNCHANGED <<rows, world>>

\* setStatus(deleting) whatever the status is by now; ErrNotFound if deleted.
DeleteMark(w) ==
    /\ pc[w] = "delete"
    /\ IF inst[w] \in Live
       THEN MarkStatus(inst[w], "deleting", "none") /\ Goto(w, "hook")
       ELSE UNCHANGED rows /\ Return(w)
    /\ UNCHANGED world

\* The statement errors, possibly after it committed: no goroutine is started.
DeleteMarkFails(w) ==
    /\ pc[w] = "delete"
    /\ DbFails(w)
    /\ \/ UNCHANGED rows
       \/ AckLost(w) /\ MarkStatus(inst[w], "deleting", "none")
    /\ Return(w)
    /\ UNCHANGED world

\* The cascade of the databases module; its error is only a warning.
TeardownHook(w) ==
    /\ pc[w] = "hook"
    /\ Goto(w, "destroy")
    /\ UNCHANGED <<rows, world>>

\* The number of rows SoftDelete changed is ignored.
SoftDelete(w) ==
    /\ pc[w] = "removed"
    /\ w \notin expired
    /\ SoftDeleteRow(inst[w])
    /\ Goto(w, "unkey")
    /\ UNCHANGED world

SoftDeleteFails(w) ==
    /\ pc[w] = "removed"
    /\ DbFails(w)
    /\ \/ UNCHANGED rows
       \/ AckLost(w) /\ SoftDeleteRow(inst[w])
    /\ Return(w)
    /\ UNCHANGED world

-----------------------------------------------------------------------------
(* The environment                                                         *)

\* ProvisionTimeout, or ReadinessTimeout.
Timeout(w) ==
    /\ pc[w] \in Provisioning \cup TearingDown \cup {"await"}
    /\ Expire(w)
    /\ UNCHANGED rows

Crash == Die /\ UNCHANGED rows

-----------------------------------------------------------------------------

Request(w) == \E i \in Instances : CreateCount(w, i) \/ DeleteRead(w, i)

CreateStep(w) == Insert(w) \/ InsertConflict(w) \/ InsertFails(w)

ProvisionStep(w) ==
    \/ ApplyStep(w) /\ UNCHANGED rows
    \/ MarkProvisioned(w) \/ MarkProvisionedFails(w)

FailureStep(w) == RecordFailure(w) \/ RecordFailureFails(w)

AwaitStep(w) == PostgresAnswers(w) \/ PostgresGivenUp(w) \/ ContainerStatusFails(w)

DeleteStep(w) ==
    \/ DeleteMark(w) \/ DeleteMarkFails(w)
    \/ DestroyStep(w) /\ UNCHANGED rows
    \/ SoftDelete(w) \/ SoftDeleteFails(w)

\* The steps that stay within this module; TeardownHook calls another one.
OwnStep(w) ==
    CreateStep(w) \/ ProvisionStep(w) \/ FailureStep(w) \/ AwaitStep(w) \/ DeleteStep(w)

WorkerStep(w) == OwnStep(w) \/ TeardownHook(w)

Next ==
    \/ \E w \in Workers : Request(w) \/ WorkerStep(w) \/ Timeout(w)
    \/ Crash

Spec == Init /\ [][Next]_vars

\* Requests and goroutines that have begun are scheduled until they return.
FairSpec == Spec /\ \A w \in Workers : WF_vars(WorkerStep(w))

-----------------------------------------------------------------------------
(* Properties                                                              *)

\* Every variable stays in its domain, and deleted_at is set exactly on rows of
\* status 'deleted'.
TypeOK ==
    /\ status \in [Instances -> Statuses]
    /\ container \in [Instances -> {"pending", "running", "failed"}]
    /\ message \in [Instances -> {"none", "terraform", "container"}]
    /\ deleted = {i \in Instances : status[i] = "deleted"}
    /\ pc \in [Workers -> PCs]
    /\ RunnerTypeOK

\* "Only one live DB Instance may exist at a time", however many POSTs passed
\* the count check together.
AtMostOneLive == \A i, j \in Live : i = j

\* Whatever exists in AWS keeps what a teardown of it needs: a live row, by which
\* DELETE finds it, the state file in its workspace and its key pair, across
\* crashes, timeouts and overlapping teardowns. DELETE need not accept the row
\* yet: it answers ErrBusy to one in provisioning or deleting, where a crash or
\* an expired context leaves it for good (see ProvisioningEnds).
Recoverable ==
    \A i \in Instances :
        cloud[i] # "none" => i \in Live /\ workspace[i] = "tracked" /\ i \in keys

\* A row says running only while its host is complete: no teardown of it has
\* begun to remove anything, and no failed apply was recorded as success.
RunningIsUp == \A i \in Instances : status[i] = "running" => cloud[i] = "up"

\* While a goroutine provisions an instance nothing else works on it: apply and
\* destroy never run on one workspace together.
ApplyIsAlone ==
    \A w, v \in Workers :
        pc[w] \in Provisioning /\ inst[v] = inst[w] => v = w

\* Once soft deleted a row never changes again, however late the goroutines
\* that still hold it report.
DeletedUnchanged ==
    \A i \in deleted :
        /\ i \in deleted'
        /\ status'[i] = status[i]
        /\ container'[i] = container[i]
        /\ message'[i] = message[i]

\* Deleted rows are unchanged by every step.
DeletedIsFinal == [][DeletedUnchanged]_vars

\* The client's view: the component implements InstanceSlot.
Slot == INSTANCE InstanceSlot
            WITH host <- {i \in Instances : cloud[i] # "none"},
                 Failable <- {"provisioning", "deleting"}

\* The dbinstance module only ever shows the lifecycle InstanceSlot allows.
ImplementsSlot == Slot!Spec

\* Without faults a row in a transient state has a goroutine at work on it: no
\* interleaving of requests abandons a row in provisioning or deleting, the two
\* states DELETE refuses.
Driven ==
    \A i \in Instances :
        /\ status[i] = "provisioning" =>
              \E w \in Workers : inst[w] = i /\ pc[w] \in Provisioning
        /\ status[i] = "deleting" =>
              \E w \in Workers : inst[w] = i /\ pc[w] \in TearingDown

\* Without faults a client polling a provisioning row sees running or failed.
ProvisioningEnds ==
    \A i \in Instances : status[i] = "provisioning" ~> status[i] \in {"running", "failed"}

\* Without faults an accepted DELETE ends in deleted or failed.
DeletingEnds ==
    \A i \in Instances : status[i] = "deleting" ~> status[i] \in {"deleted", "failed"}

\* A running instance gets an answer about its container.
ContainerReported ==
    \A i \in Instances :
        status[i] = "running" ~> (container[i] # "pending" \/ status[i] # "running")

\* "Deletion is also how you recreate an instance, including after a failed
\* provision": a client that keeps asking for deletion, with a Terraform that
\* does not fail for ever, always gets the slot back.
ClientInsists == SF_vars(\E w \in Workers, i \in Instances : DeleteRead(w, i))
DestroyEventuallyWorks ==
    /\ SF_vars(\E w \in Workers : DestroySucceeds(w) /\ UNCHANGED rows)
    /\ SF_vars(\E w \in Workers : RemoveWorkspace(w) /\ UNCHANGED rows)
FreedIfInsisted == (ClientInsists /\ DestroyEventuallyWorks) => []<>(Live = {})
=============================================================================
