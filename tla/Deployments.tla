---------------------------- MODULE Deployments ----------------------------
(***************************************************************************)
(* The deployment module on top of deploymentinstance: POST and DELETE     *)
(* /deployments, the goroutine that watches a rollout, the deployment rows *)
(* and the workloads in the k3s cluster of an instance. The composition    *)
(* shares the variables of DeploymentInstance: a request reads the         *)
(* instance row, the delete guard counts deployments, and the workloads go *)
(* with their host.                                                        *)
(***************************************************************************)
EXTENDS DeploymentInstance, Naturals, FiniteSets

CONSTANTS
    Clients,         \* concurrent requests to /deployments, with their watchers
    Deployments,     \* rows of deployment
    Keys,            \* pairs of a Kubernetes namespace and a deployment name
    Namespace,       \* the namespace of each key
    Default,         \* the namespace that cannot be deleted
    MaxDeployments   \* deploymentinstance.max_deployments

ASSUME NamespaceAssumption == DOMAIN Namespace = Keys
ASSUME MaxAssumption == MaxDeployments \in Nat \ {0} /\ IsFiniteSet(Clients)

VARIABLES
    db,        \* rows of deployment
    cluster,   \* per instance: the workloads <<namespace, name>> that exist
    ending,    \* per instance: the namespaces that Kubernetes is removing
    task,      \* per client: where it is and what it carries
    suspect    \* history: <<instance, key>> whose rows and workload may differ

dVars == <<db, cluster, ending, task, suspect>>
allVars == <<vars, dVars>>

NoRow == [status |-> "absent", inst |-> None, key |-> None]
Idle == [pc |-> "idle", inst |-> None, key |-> None, id |-> None]

\* Rows a SELECT by id finds, and those that hold capacity and their name.
Stored == {d \in Deployments : db[d].status \notin {"absent", "deleted"}}
Holding(i) == {d \in Stored : db[d].inst = i /\ db[d].status # "failed"}
Named(i, k) == {d \in Holding(i) : db[d].key = k}

\* GetActiveDeploymentInstance, and the checks on what it returns.
Serving(i) == i \in Live /\ status[i] = "active" /\ i \in referenced

Busy(c) == task[c].pc # "idle"
Creating == {"count", "insert", "mark", "apply"}
Deleting == {"locate", "unapply", "namespace", "erase"}

\* Deleting one of the keys may remove the workload of the other.
Collide(k, l) == k = l \/ (Namespace[k] = Namespace[l] /\ Namespace[k] # Default)

DInit ==
    /\ Init
    /\ db = [d \in Deployments |-> NoRow]
    /\ cluster = [i \in Instances |-> {}]
    /\ ending = [i \in Instances |-> {}]
    /\ task = [c \in Clients |-> Idle]
    /\ suspect = {}

-----------------------------------------------------------------------------
(* Control of a client                                                     *)

Continue(c, label) == task' = [task EXCEPT ![c].pc = label] /\ UNCHANGED suspect
Finish(c) == task' = [task EXCEPT ![c] = Idle] /\ UNCHANGED suspect

\* Whatever a client that stops half way, or meets another one, may have touched.
Doubt(i, k) == {i} \X {l \in Keys : Collide(k, l)}
Doubts(C) ==
    UNION {IF task[c].inst = None THEN {} ELSE Doubt(task[c].inst, task[c].key) : c \in C}

Abandon(c) ==
    /\ task' = [task EXCEPT ![c] = Idle]
    /\ suspect' = suspect \cup Doubts({c})

\* Another request at work on the key, or deleting what collides with it.
CreateMeets(c, k) ==
    \E e \in Clients \ {c} : Busy(e) /\
        (task[e].key = k \/ (task[e].pc \in Deleting /\ Collide(task[e].key, k)))

\* Another request or row has a workload that the deletion may remove.
DeleteMeets(c) ==
    \/ \E e \in Clients \ {c} : Busy(e) /\ Collide(task[e].key, task[c].key)
    \/ \E d \in Stored \ {task[c].id} : Collide(db[d].key, task[c].key)

\* Mutant: no unique index behind the name.
SetStatusUnindexed(d, s) ==
    db' = IF d \in Stored THEN [db EXCEPT ![d].status = s] ELSE db

\* The partial unique index refuses to bring a second row of a key back to life.
Clashes(d, s) == s # "failed" /\ Named(db[d].inst, db[d].key) \ {d} # {}

\* UPDATE deployment SET status WHERE id: whatever the row's status is.
SetStatus(d, s) ==
    db' = IF d \in Stored /\ ~Clashes(d, s) THEN [db EXCEPT ![d].status = s] ELSE db

-----------------------------------------------------------------------------
(* POST /deployments                                                       *)

\* An active instance with credentials. Bound: one unused row is left for each
\* request in flight.
CreateRequest(c, i, k) ==
    /\ ~Busy(c)
    /\ Serving(i)
    /\ Cardinality({e \in Clients : task[e].pc \in Creating})
          < Cardinality({d \in Deployments : db[d] = NoRow})
    /\ task' = [task EXCEPT ![c] = [pc |-> "count", inst |-> i, key |-> k, id |-> None]]
    /\ suspect' = IF CreateMeets(c, k) THEN suspect \cup Doubt(i, k) ELSE suspect
    /\ UNCHANGED <<vars, db, cluster, ending>>

\* Mutant: the capacity is not counted.
AdmitUncounted(c) ==
    /\ task[c].pc = "count"
    /\ Continue(c, "insert")
    /\ UNCHANGED <<vars, db, cluster, ending>>

\* CountActiveByInstanceID is below max_deployments.
Admit(c) ==
    /\ task[c].pc = "count"
    /\ Cardinality(Holding(task[c].inst)) < MaxDeployments
    /\ Continue(c, "insert")
    /\ UNCHANGED <<vars, db, cluster, ending>>

\* ErrCapacityReached, ErrRegistryNotFound, ErrRepoNotFound or invalid input.
Refuse(c) ==
    /\ task[c].pc = "count"
    /\ Finish(c)
    /\ UNCHANGED <<vars, db, cluster, ending>>

\* Mutant: the row does not say whose capacity it takes.
NewRowUnplaced(t) == [status |-> "pending", inst |-> t.id, key |-> t.key]

NewRow(t) == [status |-> "pending", inst |-> t.inst, key |-> t.key]

\* uq_live_deployment_instance_namespace_name admits one live row of a key.
InsertDeployment(c, d) ==
    /\ task[c].pc = "insert"
    /\ db[d] = NoRow
    /\ Named(task[c].inst, task[c].key) = {}
    /\ db' = [db EXCEPT ![d] = NewRow(task[c])]
    /\ task' = [task EXCEPT ![c].pc = "mark", ![c].id = d]
    /\ UNCHANGED <<vars, cluster, ending, suspect>>

\* ErrNameTaken, or an error of the database.
InsertDeploymentFails(c) ==
    /\ task[c].pc = "insert"
    /\ Named(task[c].inst, task[c].key) # {} \/ "db" \in Faults
    /\ Finish(c)
    /\ UNCHANGED <<vars, db, cluster, ending>>

InsertDeploymentLost(c, d) ==
    /\ task[c].pc = "insert"
    /\ "db" \in Faults
    /\ db[d] = NoRow
    /\ Named(task[c].inst, task[c].key) = {}
    /\ db' = [db EXCEPT ![d] = NewRow(task[c])]
    /\ Finish(c)
    /\ UNCHANGED <<vars, cluster, ending>>

\* CreateRevision and MarkDeploying.
MarkDeploying(c) ==
    /\ task[c].pc = "mark"
    /\ task[c].id \in Stored /\ ~Clashes(task[c].id, "deploying")
    /\ SetStatus(task[c].id, "deploying")
    /\ Continue(c, "apply")
    /\ UNCHANGED <<vars, cluster, ending>>

\* The row is gone or its name taken, or an error of the database: the request
\* returns and leaves the row as it is.
MarkDeployingFails(c) ==
    /\ task[c].pc = "mark"
    /\ \/ task[c].id \notin Stored \/ Clashes(task[c].id, "deploying")
       \/ "db" \in Faults
    /\ \/ UNCHANGED db
       \/ "db" \in Faults /\ SetStatus(task[c].id, "deploying")
    /\ Finish(c)
    /\ UNCHANGED <<vars, cluster, ending>>

\* A namespace on its way out admits no new object.
Applied(c) ==
    LET i == task[c].inst  k == task[c].key IN
    /\ cloud[i] # "none"
    /\ k \in cluster[i] \/ Namespace[k] \notin ending[i]
    /\ cluster' = [cluster EXCEPT ![i] = @ \cup {k}]

\* ApplyManifest creates the namespace and the workload.
ApplyManifest(c) ==
    /\ task[c].pc = "apply"
    /\ task[c].inst \in kubeconfigs
    /\ Applied(c)
    /\ Continue(c, "watch")
    /\ UNCHANGED <<vars, db, ending>>

\* NewClient or one of the objects fails, perhaps after the workload was made.
ApplyManifestFails(c) ==
    /\ task[c].pc = "apply"
    /\ UNCHANGED cluster \/ Applied(c)
    /\ Continue(c, "failed")
    /\ UNCHANGED <<vars, db, ending>>

-----------------------------------------------------------------------------
(* watchRollout                                                            *)

\* Every replica is available.
SeeRunning(c) ==
    /\ task[c].pc = "watch"
    /\ task[c].key \in cluster[task[c].inst]
    /\ Continue(c, "running")
    /\ UNCHANGED <<vars, db, cluster, ending>>

\* No such workload, an error of the API, or the rollout timeout.
SeeFailure(c) ==
    /\ task[c].pc = "watch"
    /\ Continue(c, "failed")
    /\ UNCHANGED <<vars, db, cluster, ending>>

\* MarkStatus whatever the row says by now; its error is only logged.
Report(c) ==
    /\ task[c].pc \in {"running", "failed"}
    /\ SetStatus(task[c].id, task[c].pc)
    /\ Finish(c)
    /\ UNCHANGED <<vars, cluster, ending>>

ReportFails(c) ==
    /\ task[c].pc \in {"running", "failed"}
    /\ "db" \in Faults
    /\ Abandon(c)
    /\ UNCHANGED <<vars, db, cluster, ending>>

-----------------------------------------------------------------------------
(* DELETE /deployments/:id                                                 *)

DeleteRequest(c, d) ==
    /\ ~Busy(c)
    /\ d \in Stored
    /\ task' = [task EXCEPT ![c] = [pc |-> "locate", inst |-> None, key |-> db[d].key, id |-> d]]
    /\ UNCHANGED <<vars, db, cluster, ending, suspect>>

\* The instance that is active now, not the one the row names.
Locate(c, i) ==
    /\ task[c].pc = "locate"
    /\ Serving(i)
    /\ task' = [task EXCEPT ![c].pc = "unapply", ![c].inst = i]
    /\ suspect' = IF DeleteMeets(c) THEN suspect \cup Doubt(i, task[c].key) ELSE suspect
    /\ UNCHANGED <<vars, db, cluster, ending>>

\* ErrNoActiveDeploymentInstance, or the registry row is gone.
LocateFails(c) ==
    /\ task[c].pc = "locate"
    /\ Finish(c)
    /\ UNCHANGED <<vars, db, cluster, ending>>

\* What a DELETE of one object does in the cluster: the workload goes, and with
\* the namespace, which is only marked, goes everything in it. Kubernetes refuses
\* to delete the default namespace.
WorkloadDeleted(c) ==
    /\ cloud[task[c].inst] # "none"
    /\ cluster' = [cluster EXCEPT ![task[c].inst] = @ \ {task[c].key}]
    /\ UNCHANGED ending
NamespaceMarked(c) ==
    /\ Namespace[task[c].key] # Default
    /\ cloud[task[c].inst] # "none"
    /\ ending' = [ending EXCEPT ![task[c].inst] = @ \cup {Namespace[task[c].key]}]
    /\ UNCHANGED cluster

\* DeleteManifest, last object first: the workload before the namespace.
DeleteWorkload(c) ==
    /\ task[c].pc = "unapply"
    /\ task[c].inst \in kubeconfigs
    /\ WorkloadDeleted(c)
    /\ Continue(c, "namespace")
    /\ UNCHANGED <<vars, db>>

DeleteNamespace(c) ==
    /\ task[c].pc = "namespace"
    /\ NamespaceMarked(c)
    /\ Continue(c, "erase")
    /\ UNCHANGED <<vars, db>>

\* Mutant: a refused or failed DELETE of an object is passed over.
DeleteErrorIgnored(c) ==
    /\ task[c].pc = "unapply"
    /\ Continue(c, "erase")
    /\ UNCHANGED <<vars, db, cluster, ending>>

\* Mutant: the failure is answered but not recorded.
DeleteFailureUnrecorded(c) ==
    /\ task[c].pc \in {"unapply", "namespace"}
    /\ Finish(c)
    /\ UNCHANGED <<vars, db, cluster, ending>>

\* A DELETE of an object fails, before or after Kubernetes acted on it.
DeleteManifestFails(c) ==
    /\ \/ /\ task[c].pc \in {"unapply", "namespace"}
          /\ UNCHANGED <<cluster, ending>>
       \/ task[c].pc = "unapply" /\ WorkloadDeleted(c)
       \/ task[c].pc = "namespace" /\ NamespaceMarked(c)
    /\ Continue(c, "failed")
    /\ UNCHANGED <<vars, db>>

EraseRow(c) ==
    /\ task[c].pc = "erase"
    /\ db' = IF task[c].id \in Stored THEN [db EXCEPT ![task[c].id].status = "deleted"] ELSE db
    /\ Finish(c)
    /\ UNCHANGED <<vars, cluster, ending>>

EraseRowFails(c) ==
    /\ task[c].pc = "erase"
    /\ "db" \in Faults
    /\ Abandon(c)
    /\ UNCHANGED <<vars, db, cluster, ending>>

-----------------------------------------------------------------------------
(* Kubernetes                                                              *)

\* A marked namespace loses its workloads one by one, and goes when it is empty.
WorkloadGoes(i, k) ==
    /\ k \in cluster[i] /\ Namespace[k] \in ending[i]
    /\ cluster' = [cluster EXCEPT ![i] = @ \ {k}]
    /\ UNCHANGED <<vars, db, ending, task, suspect>>

NamespaceGoes(i) ==
    /\ \E n \in ending[i] :
          /\ \A k \in cluster[i] : Namespace[k] # n
          /\ ending' = [ending EXCEPT ![i] = @ \ {n}]
    /\ UNCHANGED <<vars, db, cluster, task, suspect>>

-----------------------------------------------------------------------------

CreateDeployment(c) ==
    \/ \E i \in Instances, k \in Keys : CreateRequest(c, i, k)
    \/ Admit(c) \/ Refuse(c)
    \/ \E d \in Deployments : InsertDeployment(c, d) \/ InsertDeploymentLost(c, d)
    \/ InsertDeploymentFails(c)
    \/ MarkDeploying(c) \/ MarkDeployingFails(c)
    \/ ApplyManifest(c) \/ ApplyManifestFails(c)

WatchRollout(c) == SeeRunning(c) \/ SeeFailure(c) \/ Report(c) \/ ReportFails(c)

DeleteDeployment(c) ==
    \/ \E d \in Deployments : DeleteRequest(c, d)
    \/ \E i \in Instances : Locate(c, i)
    \/ LocateFails(c)
    \/ DeleteWorkload(c) \/ DeleteNamespace(c) \/ DeleteManifestFails(c)
    \/ EraseRow(c) \/ EraseRowFails(c)

Kubernetes ==
    \E i \in Instances : NamespaceGoes(i) \/ \E k \in Keys : WorkloadGoes(i, k)

\* The delete guard the server wires: no deployment holds the instance.
DeleteGuard(w) ==
    \/ GuardPasses(w) /\ Holding(inst[w]) = {}
    \/ GuardRefuses(w) /\ (Holding(inst[w]) # {} \/ "db" \in Faults)

\* A step of deploymentinstance; a host that goes takes its workloads with it.
InstanceStep ==
    /\ \E w \in Workers : Request(w) \/ OwnStep(w) \/ DeleteGuard(w) \/ Timeout(w)
    /\ cluster' = [i \in Instances |-> IF cloud'[i] = "none" THEN {} ELSE cluster[i]]
    /\ ending' = [i \in Instances |-> IF cloud'[i] = "none" THEN {} ELSE ending[i]]
    /\ UNCHANGED <<db, task, suspect>>

\* One process serves both modules; watchers die with it.
ProcessCrash ==
    /\ "crash" \in Faults
    /\ \/ Crash
       \/ (\E c \in Clients : Busy(c)) /\ (\A w \in Workers : pc[w] = "idle") /\ UNCHANGED vars
    /\ task' = [c \in Clients |-> Idle]
    /\ suspect' = suspect \cup Doubts({c \in Clients : Busy(c)})
    /\ UNCHANGED <<db, cluster, ending>>

DNext ==
    \/ \E c \in Clients : CreateDeployment(c) \/ WatchRollout(c) \/ DeleteDeployment(c)
    \/ Kubernetes
    \/ InstanceStep
    \/ ProcessCrash

DSpec == DInit /\ [][DNext]_allVars

-----------------------------------------------------------------------------
(* Properties                                                              *)

DPCs == {"idle", "watch", "running", "failed"} \cup Creating \cup Deleting

\* Every variable stays in its domain; a client carries a key while it is busy.
DTypeOK ==
    /\ TypeOK
    /\ db \in [Deployments -> {NoRow} \cup
                 [status : {"pending", "deploying", "running", "failed", "deleted"},
                  inst : Instances, key : Keys]]
    /\ cluster \in [Instances -> SUBSET Keys]
    /\ ending \in [Instances -> SUBSET ({Namespace[k] : k \in Keys} \ {Default})]
    /\ task \in [Clients -> {Idle} \cup
                   [pc : DPCs \ {"idle"}, inst : Instances \cup {None}, key : Keys,
                    id : Deployments \cup {None}]]
    /\ suspect \subseteq Instances \X Keys

\* However many requests, watchers and failed deletions report on rows of one
\* key, at most one of them holds the name on its instance.
HolderUnique == \A i \in Instances, k \in Keys : Cardinality(Named(i, k)) <= 1

\* Creates that count together overrun max_deployments by fewer than there are
\* clients: what the unlocked count of Create is worth.
CapacityOverrunBounded ==
    \A i \in Instances : Cardinality(Holding(i)) <= MaxDeployments + Cardinality(Clients) - 1

Touched(i, k) == \E c \in Clients : Busy(c) /\ task[c].inst = i /\ Collide(task[c].key, k)

\* A running row has its workload, unless a request or a crash is known to have
\* parted them, or its host is being torn down.
RunningIsBacked ==
    \A d \in Deployments :
        LET i == db[d].inst  k == db[d].key IN
        db[d].status = "running" /\ i \notin condemned /\ <<i, k>> \notin suspect /\ ~Touched(i, k)
            => k \in cluster[i]

\* A workload in a cluster has a row by which it can be deleted, unless a request
\* or a crash is known to have parted them: a failed DELETE keeps the row.
WorkloadAccounted ==
    \A i \in Instances : \A k \in cluster[i] :
        <<i, k>> \notin suspect => \E d \in Stored : db[d].inst = i /\ db[d].key = k

\* What the delete guard is for: no deployment holds a terminated instance.
GuardHolds == \A i \in Instances : status[i] = "terminated" => Holding(i) = {}
=============================================================================
