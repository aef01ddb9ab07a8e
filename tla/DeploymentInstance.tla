------------------------- MODULE DeploymentInstance -------------------------
(***************************************************************************)
(* The deploymentinstance module: POST and DELETE /deployment-instance,    *)
(* the goroutine each of them leaves behind, the deploymentinstance row    *)
(* and the kubeconfig file. The host itself is HostRunner's. It differs    *)
(* from dbinstance where it hurts: DELETE marks nothing, an instance is    *)
(* active while it is being destroyed, and the provisioning goroutine goes *)
(* on to wait for k3s and to fetch its kubeconfig.                         *)
(***************************************************************************)
EXTENDS HostRunner

VARIABLES
    status,        \* the status column, "absent" before the INSERT
    referenced,    \* rows that were given a credentials_ref
    kubeconfigs,   \* names with a file in the credentials directory
    condemned      \* history: rows whose teardown was started

columns == <<status, referenced>>
own == <<status, referenced, kubeconfigs, condemned>>
vars == <<own, world, control>>

Statuses == {"absent", "provisioning", "active", "failed", "terminated"}

\* Labels of provisionAsync and of destroyAsync.
Provisioning ==
    {"provision", "applying", "applied", "provisionFailed", "persist", "unready"}
TearingDown ==
    {"destroy", "destroying", "destroyed", "destroyFailed", "removed", "terminate"}
PCs == {"idle", "create", "guard", "unkey"} \cup Provisioning \cup TearingDown

\* Where an expired context matters: provisionAsync runs terraform and records
\* its failure on it. From awaitK3s on it uses fresh ones, and so does
\* destroyAsync once terraform has failed, which DestroyFails covers.
OnDeadline == {"provision", "applying", "provisionFailed"}

\* Rows that GetLive can return.
Live == {i \in Instances : status[i] \notin {"absent", "terminated"}}

Init ==
    /\ RunnerInit
    /\ status = [i \in Instances |-> "absent"]
    /\ referenced = {}
    /\ kubeconfigs = {}
    /\ condemned = {}

-----------------------------------------------------------------------------
(* The SQL statements                                                      *)

\* Mutant: the default of the status column is another word.
InsertRowPending(i) ==
    /\ status' = [status EXCEPT ![i] = "pending"]
    /\ UNCHANGED referenced

InsertRow(i) ==
    /\ status' = [status EXCEPT ![i] = "provisioning"]
    /\ UNCHANGED referenced

\* Mutant: the UPDATEs without their status <> 'terminated'.
MarkAnyRow(i, s) == status' = [status EXCEPT ![i] = s]

\* The UPDATEs of status do nothing to a terminated row.
MarkRow(i, s) == status' = IF i \in Live THEN [status EXCEPT ![i] = s] ELSE status

-----------------------------------------------------------------------------
(* POST /deployment-instance                                               *)

\* GetLive found no row; a live one is returned or refused without a change.
CreateRead(w, i) ==
    /\ Live = {}
    /\ status[i] = "absent"
    /\ DrawName(w, i)
    /\ UNCHANGED own

\* Mutant: no unique index behind GetLive.
InsertUnindexed(w) ==
    /\ pc[w] = "create"
    /\ InsertRow(inst[w])
    /\ Goto(w, "provision")
    /\ UNCHANGED <<world, kubeconfigs, condemned>>

\* The INSERT: uq_single_live_deploymentinstance admits one live row.
Insert(w) ==
    /\ pc[w] = "create"
    /\ Live = {}
    /\ InsertRow(inst[w])
    /\ Goto(w, "provision")
    /\ UNCHANGED <<world, kubeconfigs, condemned>>

InsertConflict(w) ==
    /\ pc[w] = "create"
    /\ Live # {}
    /\ DropKey(w)
    /\ UNCHANGED own

\* The INSERT errors, possibly after it committed; nobody provisions the row.
InsertFails(w) ==
    /\ pc[w] = "create"
    /\ DbFails(w)
    /\ \/ UNCHANGED columns
       \/ AckLost(w) /\ Live = {} /\ InsertRow(inst[w])
    /\ DropKey(w)
    /\ UNCHANGED <<kubeconfigs, condemned>>

-----------------------------------------------------------------------------
(* provisionAsync, after the Terraform apply                               *)

\* Mutant: awaitK3s and captureKubeconfig are skipped.
CaptureNothing(w) ==
    /\ pc[w] = "applied"
    /\ Goto(w, "persist")
    /\ UNCHANGED <<own, world>>

\* awaitK3s, then captureKubeconfig copies the file over SSH: something must
\* still be there to answer.
CaptureKubeconfig(w) ==
    /\ pc[w] = "applied"
    /\ cloud[inst[w]] # "none"
    /\ kubeconfigs' = kubeconfigs \cup {inst[w]}
    /\ Goto(w, "persist")
    /\ UNCHANGED <<columns, condemned, world>>

\* The readiness timeout, or an error of SSH or of the credentials directory.
NotReady(w) ==
    /\ pc[w] = "applied"
    /\ Goto(w, "unready")
    /\ UNCHANGED <<own, world>>

MarkProvisionedRow(i) ==
    /\ status' = [status EXCEPT ![i] = "active"]
    /\ referenced' = referenced \cup {i}

MarkProvisioned(w) ==
    /\ pc[w] = "persist"
    /\ inst[w] \in Live
    /\ MarkProvisionedRow(inst[w])
    /\ Return(w)
    /\ UNCHANGED <<kubeconfigs, condemned, world>>

\* An error makes the row failed, even if the UPDATE had committed.
MarkProvisionedFails(w) ==
    /\ pc[w] = "persist"
    /\ inst[w] \in Live => "db" \in Faults
    /\ \/ UNCHANGED columns
       \/ "db" \in Faults /\ inst[w] \in Live /\ MarkProvisionedRow(inst[w])
    /\ Goto(w, "unready")
    /\ UNCHANGED <<kubeconfigs, condemned, world>>

\* recordFailure: only a failed apply is recorded with the ctx that may have
\* ended it.
RecordFailure(w) ==
    /\ \/ pc[w] \in {"unready", "destroyFailed"}
       \/ pc[w] = "provisionFailed" /\ w \notin expired
    /\ MarkRow(inst[w], "failed")
    /\ Return(w)
    /\ UNCHANGED <<referenced, kubeconfigs, condemned, world>>

RecordFailureFails(w) ==
    /\ \/ pc[w] \in {"unready", "destroyFailed"} /\ "db" \in Faults
       \/ pc[w] = "provisionFailed" /\ DbFails(w)
    /\ Return(w)
    /\ UNCHANGED <<own, world>>

-----------------------------------------------------------------------------
(* DELETE /deployment-instance                                             *)

\* Mutant: the busy check is gone.
DeleteUnchecked(w, i) ==
    /\ i \in Live
    /\ Start(w, i, "guard")
    /\ UNCHANGED <<own, world>>

\* GetLive and the busy check. The credentials_ref read here stays what it is:
\* it is written once, before the row leaves "provisioning".
DeleteRead(w, i) ==
    /\ i \in Live
    /\ status[i] # "provisioning"
    /\ Start(w, i, "guard")
    /\ UNCHANGED <<own, world>>

\* The delete guard counts no deployments; the row is not marked.
GuardPasses(w) ==
    /\ pc[w] = "guard"
    /\ condemned' = condemned \cup {inst[w]}
    /\ Goto(w, "destroy")
    /\ UNCHANGED <<columns, kubeconfigs, world>>

\* ErrActiveDeployments, or the count fails.
GuardRefuses(w) ==
    /\ pc[w] = "guard"
    /\ Return(w)
    /\ UNCHANGED <<own, world>>

\* A failed removal is only a warning.
RemoveKubeconfig(w) ==
    /\ pc[w] = "removed"
    /\ kubeconfigs' \in {kubeconfigs, kubeconfigs \ (referenced \cap {inst[w]})}
    /\ Goto(w, "terminate")
    /\ UNCHANGED <<columns, condemned, world>>

MarkTerminated(w) ==
    /\ pc[w] = "terminate"
    /\ MarkRow(inst[w], "terminated")
    /\ Goto(w, "unkey")
    /\ UNCHANGED <<referenced, kubeconfigs, condemned, world>>

MarkTerminatedFails(w) ==
    /\ pc[w] = "terminate"
    /\ "db" \in Faults
    /\ \/ UNCHANGED status
       \/ MarkRow(inst[w], "terminated")
    /\ Return(w)
    /\ UNCHANGED <<referenced, kubeconfigs, condemned, world>>

-----------------------------------------------------------------------------
(* The environment                                                         *)

Timeout(w) ==
    /\ pc[w] \in OnDeadline
    /\ Expire(w)
    /\ UNCHANGED own

Crash == Die /\ UNCHANGED own

-----------------------------------------------------------------------------

Request(w) == \E i \in Instances : CreateRead(w, i) \/ DeleteRead(w, i)

CreateStep(w) == Insert(w) \/ InsertConflict(w) \/ InsertFails(w)

ProvisionStep(w) ==
    \/ ApplyStep(w) /\ UNCHANGED own
    \/ CaptureKubeconfig(w) \/ NotReady(w)
    \/ MarkProvisioned(w) \/ MarkProvisionedFails(w)

FailureStep(w) == RecordFailure(w) \/ RecordFailureFails(w)

Guard(w) == GuardPasses(w) \/ GuardRefuses(w)

DeleteStep(w) ==
    \/ DestroyStep(w) /\ UNCHANGED own
    \/ RemoveKubeconfig(w) \/ MarkTerminated(w) \/ MarkTerminatedFails(w)

\* The steps that stay within this module; the guard calls another one.
OwnStep(w) == CreateStep(w) \/ ProvisionStep(w) \/ FailureStep(w) \/ DeleteStep(w)

Next ==
    \/ \E w \in Workers : Request(w) \/ OwnStep(w) \/ Guard(w) \/ Timeout(w)
    \/ Crash

Spec == Init /\ [][Next]_vars

-----------------------------------------------------------------------------
(* Properties                                                              *)

\* Every variable stays in its domain.
TypeOK ==
    /\ status \in [Instances -> Statuses]
    /\ referenced \subseteq Instances
    /\ kubeconfigs \subseteq Instances
    /\ condemned \subseteq Instances
    /\ pc \in [Workers -> PCs]
    /\ RunnerTypeOK

\* "Only one is allowed at a time", however many POSTs found no live row.
AtMostOneLive == \A i, j \in Live : i = j

\* Whatever exists in AWS keeps what a teardown of it needs: a live row, by which
\* DELETE finds it, the state file in its workspace and its key pair. DELETE need
\* not accept the row: it refuses one that is left in provisioning.
Recoverable ==
    \A i \in Instances :
        cloud[i] # "none" => i \in Live /\ workspace[i] = "tracked" /\ i \in keys

\* An active row that nobody has begun to tear down is what POST /deployments
\* takes it for: its host is complete and its kubeconfig can be loaded.
ActiveIsUsable ==
    \A i \in Instances :
        status[i] = "active" /\ i \notin condemned =>
            cloud[i] = "up" /\ i \in referenced \cap kubeconfigs

\* While a goroutine provisions an instance no teardown touches its workspace:
\* only an instance whose apply is over can be condemned.
ApplyIsAlone ==
    \A w, v \in Workers :
        /\ pc[w] \in {"provision", "applying", "applied"}
        /\ inst[v] = inst[w]
        => v = w

\* Once terminated a row never changes again, whatever overlapping teardowns
\* and late failures report.
TerminatedUnchanged ==
    \A i \in Instances : status[i] = "terminated" => status'[i] = "terminated"
TerminatedIsFinal == [][TerminatedUnchanged]_vars

\* The client's view: a condemned instance is one in "deleting".
slotStatus ==
    [i \in Instances |->
        IF status[i] = "terminated" THEN "deleted"
        ELSE IF status[i] = "active" THEN IF i \in condemned THEN "deleting" ELSE "running"
        ELSE status[i]]

Slot == INSTANCE InstanceSlot
            WITH status <- slotStatus,
                 host <- {i \in Instances : cloud[i] # "none"},
                 Failable <- {"provisioning", "running", "deleting"}

\* Though DELETE marks no row, what can be observed follows InstanceSlot, where
\* a row may also fail from "running": its UPDATE had committed unnoticed.
ImplementsSlot == Slot!Spec
=============================================================================
