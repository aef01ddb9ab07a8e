------------------------- MODULE DeploymentsProofs -------------------------
(***************************************************************************)
(* Proofs about Deployments, for any number of instances, workers,         *)
(* requests, rows and keys, any namespaces and any subset of the faults.   *)
(* Those about the instance alone carry over from DeploymentInstanceProofs,*)
(* since the composition implements DeploymentInstance.                    *)
(***************************************************************************)
EXTENDS Deployments, DeploymentInstanceProofs, FiniteSetTheorems

\* A creator or watcher whose row may yet come to life, a DELETE that has the
\* cluster in hand, and one whose workload is gone but not its row.
Making == {"mark", "apply", "watch", "running"}
Located == {"unapply", "namespace", "erase"}
Unbacked == {"namespace", "erase", "failed"}
HasRow == Making \cup Located \cup {"locate", "failed"}

Target(c) == <<task[c].inst, task[c].key>>
RowType ==
    {NoRow} \cup [status : {"pending", "deploying", "running", "failed", "deleted"},
                 inst : Instances, key : Keys]

\* uq_live_deployment_instance_namespace_name.
OneHolder ==
    \A d, e \in Stored :
        /\ db[d].status # "failed" /\ db[e].status # "failed"
        /\ db[d].inst = db[e].inst /\ db[d].key = db[e].key
        => d = e

\* Rows and requests belong to instances that have been provisioned.
Placed ==
    /\ \A d \in Deployments : db[d] # NoRow => status[db[d].inst] \notin {"absent", "provisioning"}
    /\ \A c \in Clients :
          task[c].inst # None => status[task[c].inst] \notin {"absent", "provisioning"}

\* A request that has a row knows its key; a DELETE may work on another host than
\* the one the row names, but only once that one has been terminated.
CarriesItsRow ==
    \A c \in Clients :
        /\ Busy(c) /\ task[c].pc # "locate" => task[c].inst \in Instances
        /\ task[c].pc \in HasRow =>
              /\ task[c].id \in Deployments
              /\ db[task[c].id] # NoRow /\ db[task[c].id].key = task[c].key
        /\ task[c].pc \in Making => db[task[c].id].inst = task[c].inst
        /\ task[c].pc \in Located =>
              \/ db[task[c].id].inst = task[c].inst
              \/ status[db[task[c].id].inst] = "terminated"

\* A row is made by one request.
OneMaker ==
    \A c, e \in Clients :
        task[c].pc \in Making /\ task[e].pc \in Making /\ task[c].id = task[e].id => c = e

\* A DELETE that may remove the workload of another request or row has made it
\* suspect, and so has a POST that began beside it.
Met ==
    \A e \in Clients : task[e].pc \in Located =>
        /\ \A c \in Clients \ {e} :
              Busy(c) /\ task[c].inst = task[e].inst /\ Collide(task[e].key, task[c].key) =>
                 Target(c) \in suspect
        /\ \A d \in Stored \ {task[e].id} :
              db[d].inst = task[e].inst /\ Collide(task[e].key, db[d].key) =>
                 <<db[d].inst, db[d].key>> \in suspect

\* A host that is gone has no workloads.
Hosted == \A i \in Instances : cloud[i] = "none" => cluster[i] = {}

\* What a request that met nobody knows: a creator's row is there, a watcher's
\* workload is still there, a deleted workload is still gone.
Informed ==
    \A c \in Clients : Target(c) \notin suspect =>
        /\ task[c].pc \in Making /\ status[task[c].inst] # "terminated" => task[c].id \in Stored
        /\ task[c].pc = "running" /\ task[c].inst \notin condemned =>
              task[c].key \in cluster[task[c].inst]
        /\ task[c].pc \in {"namespace", "erase"} => task[c].key \notin cluster[task[c].inst]

\* A running row has its workload until the DELETE of that row has removed it.
BackedOrDeleting ==
    \A d \in Stored : LET i == db[d].inst  k == db[d].key IN
        db[d].status = "running" /\ i \notin condemned /\ <<i, k>> \notin suspect =>
            \/ k \in cluster[i]
            \/ \E c \in Clients :
                  task[c].pc \in Unbacked /\ task[c].id = d /\ task[c].inst = i

\* The requests that can still bring a row of instance i to take capacity: those
\* past the count, and those whose row a DELETE that went wrong has made failed.
Claims(i) ==
    {c \in Clients :
        /\ task[c].inst = i
        /\ \/ task[c].pc = "insert"
           \/ task[c].pc \in Making /\ task[c].id \in Stored /\ db[task[c].id].status = "failed"}

\* What takes capacity and what may yet take it are bounded together.
Counted ==
    /\ IsFiniteSet(Stored)
    /\ \A i \in Instances :
          Cardinality(Holding(i)) + Cardinality(Claims(i)) <= MaxDeployments + Cardinality(Clients) - 1

\* A workload that goes with its namespace is known to part from its row.
Leaving ==
    \A i \in Instances : \A k \in cluster[i] :
        Namespace[k] \in ending[i] => <<i, k>> \in suspect

\* The inductive invariant, beside the one of DeploymentInstance.
DInv ==
    /\ DTypeOK /\ OneHolder /\ Placed /\ CarriesItsRow /\ OneMaker /\ Met
    /\ Hosted /\ Informed /\ BackedOrDeleting /\ WorkloadAccounted /\ Counted /\ Leaving

-----------------------------------------------------------------------------
(* Counting                                                                *)

\* What a step may do to the capacity of instance i: take nothing new; take up a
\* claim; give capacity up for at most one claim; or let a request past the count.
Keeps(i) == Holding(i)' \subseteq Holding(i) /\ Claims(i)' \subseteq Claims(i)
Takes(i) ==
    \E c \in Claims(i), d \in Deployments :
        Holding(i)' \subseteq Holding(i) \cup {d} /\ Claims(i)' \subseteq Claims(i) \ {c}
Yields(i) ==
    \E d \in Holding(i), c \in Clients :
        Holding(i)' \subseteq Holding(i) \ {d} /\ Claims(i)' \subseteq Claims(i) \cup {c}
Admits(i) == Cardinality(Holding(i)) < MaxDeployments /\ Holding(i)' \subseteq Holding(i)

\* One element joins a set and one leaves the other: the total does not grow.
LEMMA Exchange ==
    ASSUME NEW A, NEW B, NEW A2, NEW B2, NEW x, NEW y \in B,
           IsFiniteSet(A), IsFiniteSet(B), A2 \subseteq A \cup {x}, B2 \subseteq B \ {y}
    PROVE  Cardinality(A2) + Cardinality(B2) <= Cardinality(A) + Cardinality(B)
  <1>1. /\ IsFiniteSet(A \cup {x}) /\ Cardinality(A \cup {x}) <= Cardinality(A) + 1
        /\ Cardinality(A) \in Nat /\ Cardinality(A \cup {x}) \in Nat
    <2>1. Cardinality(A) \in Nat
      BY FS_CardinalityType
    <2>2. /\ IsFiniteSet(A \cup {x})
          /\ Cardinality(A \cup {x}) \in {Cardinality(A), Cardinality(A) + 1}
      BY FS_AddElement
    <2> QED BY <2>1, <2>2
  <1>2. /\ IsFiniteSet(B \ {y}) /\ Cardinality(B \ {y}) = Cardinality(B) - 1
        /\ Cardinality(B) \in Nat /\ Cardinality(B \ {y}) \in Nat
    BY FS_RemoveElement, FS_CardinalityType
  <1>3. /\ Cardinality(A2) <= Cardinality(A \cup {x}) /\ Cardinality(A2) \in Nat
        /\ Cardinality(B2) <= Cardinality(B \ {y}) /\ Cardinality(B2) \in Nat
    BY <1>1, <1>2, FS_Subset, FS_CardinalityType
  <1> QED BY <1>1, <1>2, <1>3

\* A step that does one of the four to every instance stays within the bound.
LEMMA CountStep ==
    ASSUME Counted, IsFiniteSet(Stored'),
           \A i \in Instances : Keeps(i) \/ Takes(i) \/ Yields(i) \/ Admits(i)
    PROVE  Counted'
  <1> SUFFICES ASSUME NEW i \in Instances
               PROVE  Cardinality(Holding(i)') + Cardinality(Claims(i)')
                         <= MaxDeployments + Cardinality(Clients) - 1
    BY DEF Counted
  <1> DEFINE H == Holding(i)
             H2 == Holding(i)'
             C == Claims(i)
             C2 == Claims(i)'
  <1>1. Keeps(i) \/ Takes(i) \/ Yields(i) \/ Admits(i)
    OBVIOUS
  <1>2. /\ IsFiniteSet(H) /\ IsFiniteSet(C) /\ IsFiniteSet(H2) /\ IsFiniteSet(C2)
        /\ IsFiniteSet(Clients) /\ Cardinality(C2) <= Cardinality(Clients)
    <2>1. H \subseteq Stored /\ H2 \subseteq Stored' /\ C \subseteq Clients /\ C2 \subseteq Clients
      BY DEF Holding, Claims
    <2> QED
      BY <2>1, FS_Subset, MaxAssumption DEF Counted
  <1>3. /\ Cardinality(H) \in Nat /\ Cardinality(C) \in Nat /\ Cardinality(H2) \in Nat
        /\ Cardinality(C2) \in Nat /\ Cardinality(Clients) \in Nat /\ MaxDeployments \in Nat
    BY <1>2, FS_CardinalityType, MaxAssumption
  <1>4. Cardinality(H) + Cardinality(C) <= MaxDeployments + Cardinality(Clients) - 1
    BY DEF Counted
  <1>5. CASE Keeps(i)
    <2>1. Cardinality(H2) <= Cardinality(H) /\ Cardinality(C2) <= Cardinality(C)
      BY <1>2, <1>5, FS_Subset DEF Keeps
    <2> QED BY <1>3, <1>4, <2>1
  <1>6. CASE Takes(i)
    <2>1. PICK c \in C, d \in Deployments : H2 \subseteq H \cup {d} /\ C2 \subseteq C \ {c}
      BY <1>6 DEF Takes
    <2>2. Cardinality(H2) + Cardinality(C2) <= Cardinality(H) + Cardinality(C)
      BY <1>2, <2>1, Exchange
    <2> QED BY <1>3, <1>4, <2>2
  <1>7. CASE Yields(i)
    <2>1. PICK d \in H, c \in Clients : H2 \subseteq H \ {d} /\ C2 \subseteq C \cup {c}
      BY <1>7 DEF Yields
    <2>2. Cardinality(C2) + Cardinality(H2) <= Cardinality(C) + Cardinality(H)
      BY <1>2, <2>1, Exchange
    <2> QED BY <1>3, <1>4, <2>2
  <1>8. CASE Admits(i)
    <2>1. Cardinality(H2) <= Cardinality(H) /\ Cardinality(H) < MaxDeployments
      BY <1>2, <1>8, FS_Subset DEF Admits
    <2> QED BY <1>2, <1>3, <2>1
  <1> HIDE DEF H, H2, C, C2
  <1> QED BY <1>1, <1>5, <1>6, <1>7, <1>8

-----------------------------------------------------------------------------
(* What the actions do                                                     *)

\* What deploymentinstance may do to an instance that serves requests.
LEMMA HostMoves ==
    ASSUME IndInv, [Next]_vars
    PROVE  /\ condemned \subseteq condemned'
           /\ \A i \in Instances :
                 /\ status[i] \notin {"absent", "provisioning"} =>
                       status'[i] \notin {"absent", "provisioning"}
                 /\ status[i] = "terminated" => status'[i] = "terminated"
                 /\ cloud[i] # "none" /\ cloud'[i] = "none" => i \in condemned
  <1>1. CASE UNCHANGED vars
    BY <1>1 DEF vars, own, world
  <1>2. CASE Next
    <2> USE NoneAssumption DEF IndInv, TypeOK, RunnerTypeOK, Control, Live, Building, TearingDown,
          own, columns, world
    <2>1. ASSUME NEW w \in Workers, Request(w) \/ Timeout(w) \/ Crash \/ Guard(w)
          PROVE  /\ condemned \subseteq condemned' /\ UNCHANGED <<status, cloud>>
      BY <2>1 DEF Request, CreateRead, DeleteRead, DrawName, Timeout, Expire, Crash, Die, Guard,
         GuardPasses, GuardRefuses
    <2>2. ASSUME NEW w \in Workers, CreateStep(w)
          PROVE  /\ UNCHANGED <<condemned, cloud>>
                 /\ \A i \in Instances : status'[i] # status[i] => status[i] = "absent"
      BY <2>2 DEF CreateStep, Insert, InsertConflict, InsertFails, InsertRow, DropKey
    <2>3. ASSUME NEW w \in Workers, ProvisionStep(w)
          PROVE  /\ UNCHANGED condemned
                 /\ \A i \in Instances : cloud'[i] = "none" => cloud[i] = "none"
                 /\ \A i \in Instances : status'[i] # status[i] => status[i] = "provisioning"
      BY <2>3 DEF ProvisionStep, ApplyStep, Prepare, ApplyCreates, ApplySucceeds, ApplyFails, OutputFails,
         CaptureKubeconfig, NotReady, MarkProvisioned, MarkProvisionedFails, MarkProvisionedRow
    <2>4. ASSUME NEW w \in Workers, FailureStep(w)
          PROVE  /\ UNCHANGED <<condemned, cloud>>
                 /\ \A i \in Instances : status'[i] # status[i] => i \in Live /\ status'[i] = "failed"
      BY <2>4 DEF FailureStep, RecordFailure, RecordFailureFails, MarkRow
    <2>5. ASSUME NEW w \in Workers, DeleteStep(w)
          PROVE  /\ UNCHANGED condemned
                 /\ \A i \in Instances : cloud'[i] # cloud[i] => i \in condemned
                 /\ \A i \in Instances : status'[i] # status[i] => i \in Live /\ status'[i] = "terminated"
      BY <2>5 DEF DeleteStep, DestroyStep, PrepareDestroy, DestroyRemoves, DestroySucceeds, DestroyFails,
         RemoveWorkspace, RemoveWorkspaceFails, RemoveKey, DropKey, RemoveKubeconfig, MarkTerminated,
         MarkTerminatedFails, MarkRow
    <2> HIDE DEF IndInv, TypeOK, RunnerTypeOK, Control
    <2> QED
      BY <1>2, <2>1, <2>2, <2>3, <2>4, <2>5 DEF Next, OwnStep, Crash, Die
  <1> QED BY <1>1, <1>2

\* A request that stops half way makes what it worked on suspect.
LEMMA DoubtsHold ==
    ASSUME DTypeOK, NEW C, C \subseteq Clients
    PROVE  /\ Doubts(C) \subseteq Instances \X Keys
           /\ \A c \in C : Busy(c) /\ task[c].inst # None => Target(c) \in Doubts(C)
  <1>1. \A c \in Clients : Busy(c) => task[c].inst \in Instances \cup {None} /\ task[c].key \in Keys
    BY DEF DTypeOK, Idle, Busy
  <1>2. \A c \in Clients : task[c].inst # None => Busy(c)
    BY DEF DTypeOK, Idle, Busy, DPCs, Creating, Deleting
  <1> QED
    BY <1>1, <1>2 DEF Doubts, Doubt, Collide, Target

\* Where a stored row and a request with a row belong.
LEMMA RowsKnown ==
    ASSUME DTypeOK, CarriesItsRow
    PROVE  /\ \A d \in Stored : db[d] # NoRow /\ db[d].inst \in Instances /\ db[d].key \in Keys
           /\ \A c \in Clients : task[c].pc \in Unbacked \cup Located =>
                 task[c].id \in Deployments /\ db[task[c].id].key = task[c].key
  BY DEF DTypeOK, CarriesItsRow, Stored, NoRow, Unbacked, Located, HasRow

\* The UPDATE of a status changes no other column, and stores or removes no row.
LEMMA StatusSet ==
    ASSUME DTypeOK, NEW d \in Deployments, NEW s \in {"deploying", "running", "failed"}, SetStatus(d, s)
    PROVE  /\ db' \in [Deployments -> RowType]
           /\ \A e \in Deployments :
                 /\ db'[e].inst = db[e].inst /\ db'[e].key = db[e].key
                 /\ db'[e] = NoRow <=> db[e] = NoRow
                 /\ \/ db'[e].status = db[e].status
                    \/ e = d /\ d \in Stored /\ ~Clashes(d, s) /\ db'[e].status = s
           /\ d \in Stored /\ s = "failed" => db'[d].status = "failed"
           /\ Stored' = Stored
  <1>1. CASE d \in Stored /\ ~Clashes(d, s)
    <2>1. db' = [db EXCEPT ![d].status = s] /\ db[d] # NoRow
      BY <1>1 DEF SetStatus, Stored, NoRow
    <2>2. /\ db' \in [Deployments -> RowType]
          /\ \A e \in Deployments :
                /\ db'[e].inst = db[e].inst /\ db'[e].key = db[e].key
                /\ db'[e] = NoRow <=> db[e] = NoRow
                /\ e # d => db'[e] = db[e]
          /\ db'[d].status = s
      BY <2>1 DEF DTypeOK, RowType, NoRow
    <2>3. Stored' = Stored
      BY <1>1, <2>2 DEF Stored
    <2> QED
      BY <1>1, <2>2, <2>3
  <1>2. CASE ~(d \in Stored /\ ~Clashes(d, s))
    BY <1>2 DEF SetStatus, Clashes, DTypeOK, RowType, Stored
  <1> QED BY <1>1, <1>2

-----------------------------------------------------------------------------
(* POST /deployments and its watcher preserve the invariant                *)

\* A request that meets a DELETE of its key is suspect from the start.
LEMMA CreateRequestInv ==
    ASSUME DInv, IndInv, NEW c \in Clients, NEW i \in Instances, NEW k \in Keys, CreateRequest(c, i, k)
    PROVE  DInv'
  <1>a. /\ task' = [task EXCEPT ![c] = [pc |-> "count", inst |-> i, key |-> k, id |-> None]]
        /\ task[c].pc = "idle" /\ status[i] = "active"
        /\ UNCHANGED <<vars, db, cluster, ending>>
    BY DEF CreateRequest, Busy, Serving
  <1>b. /\ suspect \subseteq suspect' /\ suspect' \subseteq Instances \X Keys
        /\ \A e \in Clients \ {c} :
              Busy(e) /\ task[e].pc \in Deleting /\ Collide(task[e].key, k) => <<i, k>> \in suspect'
    <2>1. /\ suspect' = IF CreateMeets(c, k) THEN suspect \cup Doubt(i, k) ELSE suspect
          /\ Doubt(i, k) \subseteq Instances \X Keys /\ <<i, k>> \in Doubt(i, k)
      BY DEF CreateRequest, Doubt, Collide
    <2>2. suspect \subseteq Instances \X Keys
      BY DEF DInv, DTypeOK
    <2> QED
      BY <2>1, <2>2 DEF CreateMeets
  <1>c. /\ \A e \in Clients \ {c} : task'[e] = task[e]
        /\ task'[c].pc = "count" /\ task'[c].inst = i /\ task'[c].key = k
    BY <1>a DEF DInv, DTypeOK
  <1>1. DTypeOK'
    BY <1>a, <1>b, <1>c
    DEF DInv, vars, own, world, control, RunnerTypeOK, DPCs, Creating, DTypeOK, TypeOK
  <1>2. OneHolder'
    BY <1>a, <1>b, <1>c DEF DInv, Stored, OneHolder
  <1>3. Placed'
    BY <1>a, <1>b, <1>c DEF DInv, vars, own, Placed
  <1>4. CarriesItsRow'
    BY <1>a, <1>b, <1>c DEF DInv, vars, own, HasRow, Making, Located, Busy, CarriesItsRow
  <1>5. OneMaker'
    BY <1>a, <1>b, <1>c DEF DInv, Making, Idle, OneMaker
  <1>6. Met'
    BY <1>a, <1>b, <1>c DEF DInv, Deleting, Located, Busy, Stored, Target, Met
  <1>7. Hosted'
    BY <1>a, <1>b, <1>c DEF DInv, vars, world, Hosted
  <1>8. Informed'
    BY <1>a, <1>b, <1>c DEF DInv, vars, own, Making, Target, Stored, Idle, NoRow, Informed
  <1>9. BackedOrDeleting'
    BY <1>a, <1>b, <1>c DEF DInv, vars, own, Unbacked, Stored, Target, Idle, NoRow, BackedOrDeleting
  <1>10. WorkloadAccounted'
    BY <1>a, <1>b, <1>c DEF DInv, Stored, WorkloadAccounted
  <1>11. Counted'
    <2>1. Stored' \subseteq Stored /\ \A j \in Instances : Keeps(j)
      BY <1>a, <1>c DEF Keeps, Holding, Claims, Stored, Making, Idle
    <2> QED
      BY <2>1, CountStep, FS_Subset DEF DInv, Counted
  <1>12. Leaving'
    BY <1>a, <1>b DEF DInv, Leaving
  <1> QED
    BY <1>1, <1>2, <1>3, <1>4, <1>5, <1>6, <1>7, <1>8, <1>9, <1>10, <1>11, <1>12 DEF DInv

\* A request that is refused, or finds its row gone, changes no row.
LEMMA LeavesInv ==
    ASSUME DInv, IndInv, NEW c \in Clients,
           \/ Refuse(c) \/ InsertDeploymentFails(c) \/ ReportFails(c)
           \/ LocateFails(c) \/ EraseRowFails(c)
    PROVE  DInv'
  <1>a. task' = [task EXCEPT ![c] = Idle] /\ UNCHANGED <<vars, db, cluster, ending>>
    BY DEF Refuse, InsertDeploymentFails, ReportFails, LocateFails, EraseRowFails, Finish, Abandon
  <1>b. /\ suspect \subseteq suspect' /\ suspect' \subseteq Instances \X Keys
        /\ task[c].pc \in Unbacked => Target(c) \in suspect'
    <2>1. \/ suspect' = suspect /\ task[c].pc \notin Unbacked
          \/ suspect' = suspect \cup Doubts({c}) /\ task[c].pc \in {"running", "failed", "erase"}
      BY DEF Refuse, InsertDeploymentFails, ReportFails, LocateFails, EraseRowFails, Finish, Abandon,
         Unbacked
    <2>2. /\ suspect \subseteq Instances \X Keys /\ Doubts({c}) \subseteq Instances \X Keys
          /\ Busy(c) /\ task[c].inst # None => Target(c) \in Doubts({c})
      BY DoubtsHold DEF DInv, DTypeOK
    <2>3. task[c].pc \in {"running", "failed", "erase"} => Busy(c) /\ task[c].inst # None
      BY NoneAssumption DEF DInv, CarriesItsRow, Busy
    <2> QED
      BY <2>1, <2>2, <2>3
  <1>c. /\ \A e \in Clients \ {c} : task'[e] = task[e]
        /\ task'[c] = Idle
    BY <1>a DEF DInv, DTypeOK
  <1>1. DTypeOK'
    BY <1>a, <1>b, <1>c DEF DInv, vars, own, world, control, RunnerTypeOK, DTypeOK, TypeOK
  <1>2. OneHolder'
    BY <1>a, <1>b, <1>c DEF DInv, Stored, OneHolder
  <1>3. Placed'
    BY <1>a, <1>b, <1>c DEF DInv, vars, own, Idle, Placed
  <1>4. CarriesItsRow'
    BY <1>a, <1>b, <1>c DEF DInv, vars, own, HasRow, Making, Located, Busy, Idle, CarriesItsRow
  <1>5. OneMaker'
    BY <1>a, <1>b, <1>c DEF DInv, Making, Idle, OneMaker
  <1>6. Met'
    BY <1>a, <1>b, <1>c DEF DInv, Located, Busy, Stored, Target, Idle, NoRow, Met
  <1>7. Hosted'
    BY <1>a, <1>b, <1>c DEF DInv, vars, world, Hosted
  <1>8. Informed'
    BY <1>a, <1>b, <1>c DEF DInv, vars, own, Making, Target, Stored, Idle, NoRow, Informed
  <1>9. BackedOrDeleting'
    <2>1. \A e \in Clients, d \in Stored :
              task[e].pc \in Unbacked /\ task[e].id = d /\ task[e].inst = db[d].inst =>
                 Target(e) = <<db[d].inst, db[d].key>>
      BY RowsKnown DEF DInv, Target
    <2>2. UNCHANGED <<db, condemned, cluster>>
      BY <1>a DEF vars, own
    <2> QED
      BY <1>b, <1>c, <2>1, <2>2 DEF DInv, Stored, BackedOrDeleting
  <1>10. WorkloadAccounted'
    BY <1>a, <1>b, <1>c DEF DInv, Stored, WorkloadAccounted
  <1>11. Counted'
    <2>1. Stored' \subseteq Stored /\ \A i \in Instances : Keeps(i)
      BY <1>a, <1>c, NoneAssumption DEF Keeps, Holding, Claims, Stored, Idle
    <2> QED
      BY <2>1, CountStep, FS_Subset DEF DInv, Counted
  <1>12. Leaving'
    BY <1>a, <1>b DEF DInv, Leaving
  <1> QED
    BY <1>1, <1>2, <1>3, <1>4, <1>5, <1>6, <1>7, <1>8, <1>9, <1>10, <1>11, <1>12 DEF DInv

\* A request that only moves on has left rows and cluster as they were.
LEMMA MovesOnInv ==
    ASSUME DInv, IndInv, NEW c \in Clients,
           Admit(c) \/ SeeRunning(c) \/ SeeFailure(c)
    PROVE  DInv'
  <1>a. UNCHANGED <<vars, db, cluster, ending, suspect>>
    BY DEF Admit, SeeRunning, SeeFailure, Continue
  <1>b. \E label \in {"insert", "running", "failed"} :
           /\ task' = [task EXCEPT ![c].pc = label]
           /\ \/ task[c].pc = "count" /\ label = "insert"
              \/ task[c].pc = "watch" /\ label = "running" /\ task[c].key \in cluster[task[c].inst]
              \/ task[c].pc = "watch" /\ label = "failed"
    BY DEF Admit, SeeRunning, SeeFailure, Continue
  <1>c. /\ \A e \in Clients \ {c} : task'[e] = task[e]
        /\ task'[c].inst = task[c].inst /\ task'[c].key = task[c].key /\ task'[c].id = task[c].id
        /\ \/ task[c].pc = "count" /\ task'[c].pc = "insert"
           \/ task[c].pc = "watch" /\ task'[c].pc = "running" /\ task[c].key \in cluster[task[c].inst]
           \/ task[c].pc = "watch" /\ task'[c].pc = "failed"
    BY <1>b DEF DInv, DTypeOK, Idle
  <1>1. DTypeOK'
    BY <1>a, <1>b, <1>c
    DEF DInv, vars, own, world, control, RunnerTypeOK, Idle, DPCs, Creating, DTypeOK, TypeOK
  <1>2. OneHolder'
    BY <1>a, <1>b, <1>c DEF DInv, Stored, OneHolder
  <1>3. Placed'
    BY <1>a, <1>b, <1>c DEF DInv, vars, own, Placed
  <1>4. CarriesItsRow'
    BY <1>a, <1>b, <1>c DEF DInv, vars, own, HasRow, Making, Located, Busy, CarriesItsRow
  <1>5. OneMaker'
    BY <1>a, <1>b, <1>c DEF DInv, Making, Idle, OneMaker
  <1>6. Met'
    BY <1>a, <1>b, <1>c DEF DInv, Located, Busy, Stored, Target, Idle, NoRow, Met
  <1>7. Hosted'
    BY <1>a, <1>b, <1>c DEF DInv, vars, world, Hosted
  <1>8. Informed'
    BY <1>a, <1>b, <1>c DEF DInv, vars, own, Making, Target, Stored, Idle, NoRow, Informed
  <1>9. BackedOrDeleting'
    BY <1>a, <1>b, <1>c DEF DInv, vars, own, Unbacked, Stored, Target, Idle, NoRow, BackedOrDeleting
  <1>10. WorkloadAccounted'
    BY <1>a, <1>b, <1>c DEF DInv, Stored, WorkloadAccounted
  <1>11. Counted'
    <2>1. Stored' = Stored /\ \A i \in Instances : Holding(i)' = Holding(i)
      BY <1>a DEF Stored, Holding
    <2>2. CASE Admit(c)
      <3>1. Cardinality(Holding(task[c].inst)) < MaxDeployments /\ task'[c].inst = task[c].inst
        BY <1>c, <2>2 DEF Admit
      <3>2. \A i \in Instances \ {task[c].inst} : Keeps(i)
        BY <1>a, <1>c, <2>1, <3>1 DEF Keeps, Claims
      <3>3. task[c].inst \in Instances => Admits(task[c].inst)
        BY <2>1, <3>1 DEF Admits
      <3> QED
        BY <2>1, <3>2, <3>3, CountStep DEF DInv, Counted
    <2>3. CASE SeeRunning(c) \/ SeeFailure(c)
      <3>1. task[c].pc # "count"
        BY <2>3 DEF SeeRunning, SeeFailure
      <3>2. \A i \in Instances : Claims(i)' \subseteq Claims(i)
        BY <1>a, <1>c, <3>1 DEF Claims, Making, Stored
      <3> QED
        BY <2>1, <3>2, CountStep DEF DInv, Counted, Keeps
    <2> QED BY <2>2, <2>3
  <1>12. Leaving'
    BY <1>a DEF DInv, Leaving
  <1> QED
    BY <1>1, <1>2, <1>3, <1>4, <1>5, <1>6, <1>7, <1>8, <1>9, <1>10, <1>11, <1>12 DEF DInv

\* The unique index admits one row of a name; the request becomes its maker.
LEMMA InsertInv ==
    ASSUME DInv, IndInv, NEW c \in Clients, NEW d \in Deployments,
           InsertDeployment(c, d) \/ InsertDeploymentLost(c, d)
    PROVE  DInv'
  <1>a. /\ task[c].pc = "insert" /\ db[d] = NoRow /\ Named(task[c].inst, task[c].key) = {}
        /\ db' = [db EXCEPT ![d] = NewRow(task[c])]
        /\ UNCHANGED <<vars, cluster, ending, suspect>>
        /\ \/ task' = [task EXCEPT ![c].pc = "mark", ![c].id = d]
           \/ task' = [task EXCEPT ![c] = Idle]
    BY DEF InsertDeployment, InsertDeploymentLost, Finish
  <1>b. task[c].inst \in Instances /\ task[c].key \in Keys
    BY <1>a DEF DInv, DTypeOK, CarriesItsRow, Busy, Idle
  <1>c. /\ \A e \in Clients \ {c} : task'[e] = task[e]
        /\ \/ task'[c] = Idle
           \/ /\ task'[c].pc = "mark" /\ task'[c].id = d
              /\ task'[c].inst = task[c].inst /\ task'[c].key = task[c].key
    BY <1>a DEF DInv, DTypeOK, Idle
  <1>d. /\ db'[d] = [status |-> "pending", inst |-> task[c].inst, key |-> task[c].key]
        /\ \A e \in Deployments \ {d} : db'[e] = db[e]
        /\ Stored' = Stored \cup {d} /\ d \notin Stored
    BY <1>a, <1>b DEF DInv, DTypeOK, NewRow, Stored, NoRow
  <1>e. \A e \in Clients : task[e].pc \in HasRow => task[e].id # d
    BY <1>a DEF DInv, CarriesItsRow
  <1>1. DTypeOK'
    BY <1>a, <1>b, <1>c, <1>d, <1>e
    DEF DInv, vars, own, world, control, RunnerTypeOK, Idle, DPCs, Creating, DTypeOK, TypeOK
  <1>2. OneHolder'
    BY <1>a, <1>b, <1>c, <1>d, <1>e DEF DInv, Named, Holding, OneHolder
  <1>3. Placed'
    <2>1. UNCHANGED status
      BY <1>a DEF vars, own
    <2>2. status[task[c].inst] \notin {"absent", "provisioning"}
      BY <1>b, NoneAssumption DEF DInv, Placed
    <2> QED
      BY <1>c, <1>d, <2>1, <2>2 DEF DInv, Placed, Idle
  <1>4. CarriesItsRow'
    BY <1>a, <1>b, <1>c, <1>d, <1>e
    DEF DInv, vars, own, HasRow, Making, Located, Busy, Idle, NoRow, CarriesItsRow
  <1>5. OneMaker'
    BY <1>a, <1>b, <1>c, <1>d, <1>e DEF DInv, HasRow, Making, Idle, OneMaker
  <1>6. Met'
    BY <1>a, <1>b, <1>c, <1>d, <1>e DEF DInv, Located, Busy, Target, Idle, Met
  <1>7. Hosted'
    BY <1>a, <1>b, <1>c, <1>d, <1>e DEF DInv, vars, world, Hosted
  <1>8. Informed'
    BY <1>a, <1>b, <1>c, <1>d, <1>e DEF DInv, vars, own, Making, Target, Idle, Informed
  <1>9. BackedOrDeleting'
    BY <1>a, <1>b, <1>c, <1>d, <1>e DEF DInv, vars, own, Unbacked, BackedOrDeleting
  <1>10. WorkloadAccounted'
    BY <1>a, <1>b, <1>c, <1>d, <1>e DEF DInv, WorkloadAccounted
  <1>11. Counted'
    <2>1. IsFiniteSet(Stored')
      BY <1>d, FS_AddElement DEF DInv, Counted
    <2>2. \A e \in Clients : task[e].pc \in Making => task[e].id # d
      BY <1>e DEF HasRow
    <2>3. \A i \in Instances : Holding(i)' \subseteq Holding(i) \cup (IF i = task[c].inst THEN {d} ELSE {})
      <3>1. \A e \in Stored : e \in Deployments \ {d}
        BY <1>d DEF Stored
      <3> QED
        BY <1>d, <3>1 DEF Holding
    <2>4. \A i \in Instances : Claims(i)' \subseteq Claims(i) \ {c}
      <3>1. \A e \in Clients \ {c} :
               task[e].pc \in Making /\ task[e].id \in Stored' /\ db'[task[e].id].status = "failed"
               => task[e].id \in Stored /\ db[task[e].id].status = "failed"
        BY <1>d, <2>2 DEF Stored
      <3>2. \A i \in Instances : c \notin Claims(i)'
        BY <1>c, <1>d DEF Claims, Making, Idle
      <3>3. \A i \in Instances, e \in Clients \ {c} : e \in Claims(i)' => e \in Claims(i)
        BY <1>c, <3>1 DEF Claims
      <3>4. \A i \in Instances : Claims(i)' \subseteq Clients
        BY DEF Claims
      <3> QED
        BY <3>2, <3>3, <3>4
    <2>5. c \in Claims(task[c].inst)
      BY <1>a DEF Claims
    <2>6. \A i \in Instances : Keeps(i) \/ Takes(i)
      BY <2>3, <2>4, <2>5 DEF Keeps, Takes
    <2> QED
      BY <2>1, <2>6, CountStep DEF DInv
  <1>12. Leaving'
    BY <1>a DEF DInv, Leaving
  <1> QED
    BY <1>1, <1>2, <1>3, <1>4, <1>5, <1>6, <1>7, <1>8, <1>9, <1>10, <1>11, <1>12 DEF DInv

-----------------------------------------------------------------------------
(* DELETE /deployments/:id preserves it, up to the deletion of the manifest*)

\* A DELETE carries the key of its row.
LEMMA DeleteRequestInv ==
    ASSUME DInv, IndInv, NEW c \in Clients, NEW d \in Deployments, DeleteRequest(c, d)
    PROVE  DInv'
  <1>a. /\ task' = [task EXCEPT ![c] = [pc |-> "locate", inst |-> None, key |-> db[d].key, id |-> d]]
        /\ task[c].pc = "idle" /\ UNCHANGED <<vars, db, cluster, ending, suspect>>
    BY DEF DeleteRequest, Busy
  <1>b. db[d] # NoRow /\ db[d].key \in Keys
    BY DEF DeleteRequest, Stored, NoRow, DInv, DTypeOK
  <1>c. /\ \A e \in Clients \ {c} : task'[e] = task[e]
        /\ task'[c] = [pc |-> "locate", inst |-> None, key |-> db[d].key, id |-> d]
    BY <1>a DEF DInv, DTypeOK
  <1>1. DTypeOK'
    BY <1>a, <1>b, <1>c
    DEF DInv, vars, own, world, control, RunnerTypeOK, DPCs, Deleting, DTypeOK, TypeOK
  <1>2. OneHolder'
    BY <1>a, <1>b, <1>c DEF DInv, Stored, OneHolder
  <1>3. Placed'
    BY <1>a, <1>b, <1>c DEF DInv, vars, own, Placed
  <1>4. CarriesItsRow'
    BY <1>a, <1>b, <1>c DEF DInv, vars, own, Making, Located, Busy, CarriesItsRow
  <1>5. OneMaker'
    BY <1>a, <1>b, <1>c DEF DInv, Making, Idle, OneMaker
  <1>6. Met'
    BY <1>a, <1>b, <1>c, NoneAssumption
    DEF DInv, CarriesItsRow, Located, Busy, Stored, Target, Idle, Met
  <1>7. Hosted'
    BY <1>a, <1>b, <1>c DEF DInv, vars, world, Hosted
  <1>8. Informed'
    BY <1>a, <1>b, <1>c DEF DInv, vars, own, Making, Target, Stored, Idle, Informed
  <1>9. BackedOrDeleting'
    BY <1>a, <1>b, <1>c DEF DInv, vars, own, Unbacked, Stored, Idle, BackedOrDeleting
  <1>10. WorkloadAccounted'
    BY <1>a, <1>b, <1>c DEF DInv, Stored, WorkloadAccounted
  <1>11. Counted'
    <2>1. Stored' \subseteq Stored /\ \A i \in Instances : Keeps(i)
      BY <1>a, <1>c DEF Keeps, Holding, Claims, Stored, Making, Idle
    <2> QED
      BY <2>1, CountStep, FS_Subset DEF DInv, Counted
  <1>12. Leaving'
    BY <1>a DEF DInv, Leaving
  <1> QED
    BY <1>1, <1>2, <1>3, <1>4, <1>5, <1>6, <1>7, <1>8, <1>9, <1>10, <1>11, <1>12 DEF DInv

\* The active instance is the row's, or the row's has been terminated.
LEMMA LocateInv ==
    ASSUME DInv, IndInv, NEW c \in Clients, NEW i \in Instances, Locate(c, i)
    PROVE  DInv'
  <1>a. /\ task' = [task EXCEPT ![c].pc = "unapply", ![c].inst = i]
        /\ task[c].pc = "locate" /\ UNCHANGED <<vars, db, cluster, ending>>
    BY DEF Locate
  <1>b. task[c].id \in Deployments /\ db[task[c].id] # NoRow /\ task[c].key \in Keys
    BY <1>a DEF DInv, DTypeOK, CarriesItsRow, HasRow, Idle
  <1>c. /\ \A e \in Clients \ {c} : task'[e] = task[e]
        /\ task'[c].pc = "unapply" /\ task'[c].inst = i
        /\ task'[c].key = task[c].key /\ task'[c].id = task[c].id
    BY <1>a DEF DInv, DTypeOK, Idle
  <1>d. /\ suspect \subseteq suspect' /\ suspect' \subseteq Instances \X Keys
        /\ \A e \in Clients \ {c} : Busy(e) /\ Collide(task[c].key, task[e].key) =>
              <<i, task[c].key>> \in suspect' /\ <<i, task[e].key>> \in suspect'
        /\ \A d \in Stored \ {task[c].id} :
              Collide(task[c].key, db[d].key) => <<i, db[d].key>> \in suspect'
    <2>1. /\ suspect' = IF DeleteMeets(c) THEN suspect \cup Doubt(i, task[c].key) ELSE suspect
          /\ Doubt(i, task[c].key) \subseteq Instances \X Keys
      BY DEF Locate, Doubt
    <2>2. \A l \in Keys : Collide(task[c].key, l) => <<i, l>> \in Doubt(i, task[c].key)
      BY DEF Doubt
    <2>3. /\ \A e \in Clients : Busy(e) => task[e].key \in Keys
          /\ \A d \in Stored : db[d].key \in Keys
          /\ suspect \subseteq Instances \X Keys
      BY DEF DInv, DTypeOK, Busy, Idle, Stored, NoRow
    <2>4. \A k, l \in Keys : Collide(k, k) /\ (Collide(k, l) => Collide(l, k))
      BY DEF Collide
    <2> QED
      BY <1>b, <2>1, <2>2, <2>3, <2>4 DEF DeleteMeets
  <1>e. db[task[c].id].inst = i \/ status[db[task[c].id].inst] = "terminated"
    <2>1. status[db[task[c].id].inst] # "absent" /\ db[task[c].id].inst \in Instances
      BY <1>b DEF DInv, Placed, DTypeOK
    <2>2. i \in Live /\ AtMostOneLive /\ status[i] = "active"
      BY DEF Locate, Serving, IndInv
    <2> QED
      BY <2>1, <2>2 DEF AtMostOneLive, Live
  <1>f. status[i] = "active"
    BY DEF Locate, Serving
  <1>g. \A e \in Clients : Busy(e)' => Busy(e)
    BY <1>a, <1>c DEF Busy
  <1>1. DTypeOK'
    <2>1. task' \in [Clients -> {Idle} \cup
                   [pc : DPCs \ {"idle"}, inst : Instances \cup {None}, key : Keys,
                    id : Deployments \cup {None}]]
      <3>1. task[c] \in [pc : DPCs \ {"idle"}, inst : Instances \cup {None}, key : Keys,
                         id : Deployments \cup {None}]
        BY <1>a DEF DInv, DTypeOK, Idle
      <3>2. "unapply" \in DPCs \ {"idle"}
        BY DEF DPCs, Deleting
      <3> QED
        BY <1>a, <3>1, <3>2 DEF DInv, DTypeOK
    <2>2. TypeOK'
      BY <1>a DEF DInv, DTypeOK, TypeOK, RunnerTypeOK, vars, own, world, control
    <2> QED
      BY <1>a, <1>d, <2>1, <2>2 DEF DInv, DTypeOK
  <1>2. OneHolder'
    BY <1>a, <1>b, <1>c, <1>d, <1>e, <1>f DEF DInv, Stored, OneHolder
  <1>3. Placed'
    BY <1>a, <1>b, <1>c, <1>d, <1>e, <1>f DEF DInv, vars, own, Placed
  <1>4. CarriesItsRow'
    BY <1>a, <1>b, <1>c, <1>d, <1>e, <1>f
    DEF DInv, vars, own, HasRow, Making, Busy, DTypeOK, CarriesItsRow
  <1>5. OneMaker'
    BY <1>c DEF DInv, Making, OneMaker
  <1>6. Met'
    BY <1>a, <1>b, <1>c, <1>d, <1>e, <1>f, <1>g DEF DInv, DTypeOK, Busy, Stored, Target, Idle, Met
  <1>7. Hosted'
    BY <1>a, <1>b, <1>c, <1>d, <1>e, <1>f DEF DInv, vars, world, Hosted
  <1>8. Informed'
    <2>1. UNCHANGED <<status, condemned, db, cluster>>
      BY <1>a DEF vars, own
    <2> QED
      BY <1>c, <1>d, <2>1 DEF DInv, Making, Target, Stored, Informed
  <1>9. BackedOrDeleting'
    <2>1. UNCHANGED <<status, condemned, db, cluster>>
      BY <1>a DEF vars, own
    <2>2. task[c].pc \notin Unbacked
      BY <1>a DEF Unbacked
    <2> QED
      BY <1>c, <1>d, <2>1, <2>2 DEF DInv, Stored, BackedOrDeleting
  <1>10. WorkloadAccounted'
    BY <1>a, <1>b, <1>c, <1>d, <1>e, <1>f DEF DInv, Stored, WorkloadAccounted
  <1>11. Counted'
    <2>1. Stored' \subseteq Stored /\ \A j \in Instances : Keeps(j)
      BY <1>a, <1>c DEF Keeps, Holding, Claims, Stored, Making, Idle
    <2> QED
      BY <2>1, CountStep, FS_Subset DEF DInv, Counted
  <1>12. Leaving'
    BY <1>a, <1>d DEF DInv, Leaving
  <1> QED
    BY <1>1, <1>2, <1>3, <1>4, <1>5, <1>6, <1>7, <1>8, <1>9, <1>10, <1>11, <1>12 DEF DInv

-----------------------------------------------------------------------------
(* What both do to a row and to the cluster                                *)

\* A status is written by the maker of the row or by its DELETE.
LEMMA ReportsInv ==
    ASSUME DInv, IndInv, NEW c \in Clients,
           MarkDeploying(c) \/ MarkDeployingFails(c) \/ Report(c)
    PROVE  DInv'
  <1> DEFINE s == IF task[c].pc = "mark" THEN "deploying" ELSE task[c].pc
             r == task[c].id
  <1>a. /\ task[c].pc \in {"mark", "running", "failed"}
        /\ UNCHANGED <<vars, cluster, ending, suspect>>
        /\ \/ task' = [task EXCEPT ![c].pc = "apply"] /\ task[c].pc = "mark"
           \/ task' = [task EXCEPT ![c] = Idle]
    BY DEF MarkDeploying, MarkDeployingFails, Report, Continue, Finish
  <1>b. r \in Deployments /\ (task[c].pc # "failed" => db[r].inst = task[c].inst) /\ db[r].key = task[c].key
    BY <1>a DEF DInv, CarriesItsRow, HasRow, Making
  <1>c. /\ \A e \in Clients \ {c} : task'[e] = task[e]
        /\ \/ task'[c] = Idle
           \/ /\ task[c].pc = "mark" /\ task'[c].pc = "apply" /\ task'[c].id = r
              /\ task'[c].inst = task[c].inst /\ task'[c].key = task[c].key
    BY <1>a DEF DInv, DTypeOK, Idle
  <1>d. /\ db' \in [Deployments -> RowType]
        /\ \A e \in Deployments :
              /\ db'[e].inst = db[e].inst /\ db'[e].key = db[e].key
              /\ db'[e] = NoRow <=> db[e] = NoRow
              /\ \/ db'[e].status = db[e].status
                 \/ e = r /\ r \in Stored /\ ~Clashes(r, s) /\ db'[e].status = s
        /\ r \in Stored /\ task[c].pc = "failed" => db'[r].status = "failed"
        /\ Stored' = Stored
    <2>1. CASE SetStatus(r, s)
      BY <1>a, <1>b, <2>1, StatusSet DEF DInv
    <2>2. CASE UNCHANGED db /\ task[c].pc # "failed"
      BY <2>2 DEF DInv, DTypeOK, RowType, Stored
    <2> QED
      BY <1>a, <2>1, <2>2 DEF MarkDeploying, MarkDeployingFails, Report
  <1> HIDE DEF s, r
  <1>1. DTypeOK'
    BY <1>a, <1>b, <1>c, <1>d
    DEF DInv, vars, own, world, control, RunnerTypeOK, RowType, Idle, DPCs, Creating, DTypeOK,
        TypeOK
  <1>2. OneHolder'
    BY <1>a, <1>b, <1>c, <1>d DEF DInv, Clashes, Named, Holding, Stored, OneHolder
  <1>3. Placed'
    BY <1>a, <1>b, <1>c, <1>d DEF DInv, vars, own, Idle, Placed
  <1>4. CarriesItsRow'
    BY <1>a, <1>b, <1>c, <1>d
    DEF DInv, vars, own, r, HasRow, Making, Located, Busy, Idle, CarriesItsRow
  <1>5. OneMaker'
    BY <1>a, <1>b, <1>c, <1>d DEF DInv, r, Making, Idle, OneMaker
  <1>6. Met'
    BY <1>a, <1>b, <1>c, <1>d DEF DInv, Located, Busy, Stored, Target, Idle, Met
  <1>7. Hosted'
    BY <1>a, <1>b, <1>c, <1>d DEF DInv, vars, world, Hosted
  <1>8. Informed'
    BY <1>a, <1>b, <1>c, <1>d DEF DInv, vars, own, r, Making, Target, Idle, Informed
  <1>9. BackedOrDeleting'
    BY <1>a, <1>b, <1>c, <1>d
    DEF DInv, vars, own, Informed, s, r, Unbacked, Stored, Target, BackedOrDeleting
  <1>10. WorkloadAccounted'
    BY <1>a, <1>b, <1>c, <1>d DEF DInv, Stored, WorkloadAccounted
  <1>11. Counted'
    <2>1. /\ Stored' = Stored /\ r \in Deployments
          /\ \A d \in Stored : db'[d].inst = db[d].inst
          /\ \A d \in Stored : d # r => (db'[d].status = "failed" <=> db[d].status = "failed")
      BY <1>b, <1>d DEF Stored
    <2>2. CASE r \in Stored => (db'[r].status = "failed" <=> db[r].status = "failed")
      <3>1. \A d \in Stored : db'[d].status = "failed" <=> db[d].status = "failed"
        BY <2>1, <2>2
      <3>2. \A i \in Instances : Holding(i)' \subseteq Holding(i)
        BY <2>1, <3>1 DEF Holding
      <3>3. \A i \in Instances : Claims(i)' \subseteq Claims(i)
        <4>1. \A i \in Instances, e \in Clients \ {c} : e \in Claims(i)' => e \in Claims(i)
          BY <1>c, <2>1, <3>1 DEF Claims
        <4>2. \A i \in Instances : c \in Claims(i)' => c \in Claims(i)
          BY <1>c, <2>1, <3>1, NoneAssumption DEF Claims, Making, Idle, r
        <4> QED
          BY <4>1, <4>2 DEF Claims
      <3>4. \A i \in Instances : Keeps(i)
        BY <3>2, <3>3 DEF Keeps
      <3> QED
        BY <1>d, <3>4, CountStep DEF DInv, Counted
    <2>3. CASE r \in Stored /\ db'[r].status = "failed" /\ db[r].status # "failed"
      <3>1. \A i \in Instances : Holding(i)' \subseteq Holding(i) \ {r}
        BY <2>1, <2>3 DEF Holding
      <3>2. \A i \in Instances : \A e \in Claims(i)' \ Claims(i) :
               e \in Clients /\ task[e].pc \in Making /\ task[e].id = r /\ task[e].inst = i
        <4>1. \A i \in Instances, e \in Clients \ {c} : e \in Claims(i)' /\ e \notin Claims(i) =>
                 task[e].pc \in Making /\ task[e].id = r /\ task[e].inst = i
          BY <1>c, <2>1 DEF Claims
        <4>2. \A i \in Instances : c \in Claims(i)' =>
                 task[c].pc \in Making /\ task[c].id = r /\ task[c].inst = i
          BY <1>c, NoneAssumption DEF Claims, Making, Idle, r
        <4> QED
          BY <4>1, <4>2 DEF Claims
      <3>3. \E m \in Clients : \A i \in Instances : Claims(i)' \subseteq Claims(i) \cup {m}
        <4>1. CASE \E m \in Clients : task[m].pc \in Making /\ task[m].id = r
          BY <3>2, <4>1 DEF DInv, OneMaker
        <4>2. CASE ~\E m \in Clients : task[m].pc \in Making /\ task[m].id = r
          BY <3>2, <4>2
        <4> QED BY <4>1, <4>2
      <3>4. \A i \in Instances : i # db[r].inst => Claims(i)' \subseteq Claims(i)
        BY <3>2 DEF DInv, CarriesItsRow
      <3>5. \A i \in Instances : i = db[r].inst => r \in Holding(i)
        BY <2>3 DEF Holding
      <3>6. \A i \in Instances : Keeps(i) \/ Yields(i)
        BY <3>1, <3>3, <3>4, <3>5 DEF Keeps, Yields
      <3> QED
        BY <1>d, <3>6, CountStep DEF DInv, Counted
    <2>4. CASE r \in Stored /\ db'[r].status # "failed" /\ db[r].status = "failed"
      <3>1. task[c].pc \in {"mark", "running"}
        BY <1>a, <1>d, <2>4
      <3>2. \A i \in Instances : Holding(i)' \subseteq Holding(i) \cup (IF i = task[c].inst THEN {r} ELSE {})
        BY <1>b, <2>1, <3>1 DEF Holding
      <3>3. c \in Claims(task[c].inst)
        BY <2>4, <3>1 DEF Claims, Making, r
      <3>4. \A i \in Instances : Claims(i)' \subseteq Claims(i) \ {c}
        BY <1>c, <1>d, <2>1, <2>4, NoneAssumption DEF Claims, Idle, Making
      <3>5. \A i \in Instances : Keeps(i) \/ Takes(i)
        BY <1>b, <3>2, <3>3, <3>4 DEF Keeps, Takes
      <3> QED
        BY <1>d, <3>5, CountStep DEF DInv, Counted
    <2> QED
      BY <2>2, <2>3, <2>4
  <1>12. Leaving'
    BY <1>a DEF DInv, Leaving
  <1> QED
    BY <1>1, <1>2, <1>3, <1>4, <1>5, <1>6, <1>7, <1>8, <1>9, <1>10, <1>11, <1>12 DEF DInv

\* The workload of a row arrives.
LEMMA AppliesInv ==
    ASSUME DInv, IndInv, NEW c \in Clients, ApplyManifest(c) \/ ApplyManifestFails(c)
    PROVE  DInv'
  <1>a. /\ task[c].pc = "apply" /\ UNCHANGED <<vars, db, ending, suspect>>
        /\ \E label \in {"watch", "failed"} : task' = [task EXCEPT ![c].pc = label]
        /\ \/ UNCHANGED cluster
           \/ /\ cloud[task[c].inst] # "none"
              /\ \/ task[c].key \in cluster[task[c].inst]
                 \/ Namespace[task[c].key] \notin ending[task[c].inst]
              /\ cluster' = [cluster EXCEPT ![task[c].inst] = @ \cup {task[c].key}]
    BY DEF ApplyManifest, ApplyManifestFails, Applied, Continue
  <1>b. /\ task[c].inst \in Instances /\ task[c].key \in Keys /\ Busy(c)
        /\ task[c].id \in Deployments
        /\ db[task[c].id].inst = task[c].inst /\ db[task[c].id].key = task[c].key
    BY <1>a DEF DInv, DTypeOK, CarriesItsRow, Busy, Idle, HasRow, Making
  <1>c. /\ \A e \in Clients \ {c} : task'[e] = task[e]
        /\ task'[c].inst = task[c].inst /\ task'[c].key = task[c].key /\ task'[c].id = task[c].id
        /\ task'[c].pc \in {"watch", "failed"}
    BY <1>a DEF DInv, DTypeOK, Idle
  <1>d. /\ \A i \in Instances : cluster[i] \subseteq cluster'[i]
        /\ \A i \in Instances : \A k \in cluster'[i] \ cluster[i] :
              /\ i = task[c].inst /\ k = task[c].key
              /\ cloud[i] # "none" /\ status[i] # "terminated" /\ Namespace[k] \notin ending[i]
        /\ cluster' \in [Instances -> SUBSET Keys]
    <2>1. \A i \in Instances : cloud[i] # "none" => status[i] # "terminated"
      BY DEF IndInv, Recoverable, Live
    <2> QED
      BY <1>a, <1>b, <2>1 DEF DInv, DTypeOK
  <1>1. DTypeOK'
    BY <1>a, <1>b, <1>c, <1>d
    DEF DInv, vars, own, world, control, RunnerTypeOK, Idle, DPCs, DTypeOK, TypeOK
  <1>2. OneHolder'
    BY <1>a, <1>b, <1>c, <1>d DEF DInv, Stored, OneHolder
  <1>3. Placed'
    BY <1>a, <1>b, <1>c, <1>d DEF DInv, vars, own, Placed
  <1>4. CarriesItsRow'
    BY <1>a, <1>b, <1>c, <1>d DEF DInv, vars, own, HasRow, Making, Busy, CarriesItsRow
  <1>5. OneMaker'
    BY <1>a, <1>b, <1>c, <1>d DEF DInv, Making, Idle, OneMaker
  <1>6. Met'
    BY <1>a, <1>b, <1>c, <1>d DEF DInv, Located, Busy, Stored, Target, Idle, NoRow, Met
  <1>7. Hosted'
    BY <1>a, <1>b, <1>c, <1>d DEF DInv, vars, world, Hosted
  <1>8. Informed'
    BY <1>a, <1>b, <1>c, <1>d
    DEF DInv, vars, own, Met, Located, Collide, CarriesItsRow, Busy, Making, Target, Stored,
        Idle, Informed
  <1>9. BackedOrDeleting'
    <2>1. UNCHANGED <<condemned, db, suspect>>
      BY <1>a DEF vars, own
    <2>2. task[c].pc \notin Unbacked
      BY <1>a DEF Unbacked
    <2>3. \A d \in Stored : db[d].inst \in Instances
      BY RowsKnown DEF DInv
    <2> QED
      BY <1>c, <1>d, <2>1, <2>2, <2>3 DEF DInv, Stored, BackedOrDeleting
  <1>10. WorkloadAccounted'
    BY <1>a, <1>b, <1>c, <1>d DEF DInv, Informed, Target, Making, Stored, WorkloadAccounted
  <1>11. Counted'
    <2>1. Stored' \subseteq Stored /\ \A i \in Instances : Keeps(i)
      BY <1>a, <1>c DEF Keeps, Holding, Claims, Stored, Making, Idle
    <2> QED
      BY <2>1, CountStep, FS_Subset DEF DInv, Counted
  <1>12. Leaving'
    BY <1>a, <1>b, <1>d DEF DInv, DTypeOK, Leaving
  <1> QED
    BY <1>1, <1>2, <1>3, <1>4, <1>5, <1>6, <1>7, <1>8, <1>9, <1>10, <1>11, <1>12 DEF DInv

\* A namespace that is marked takes only workloads that are suspect: what has a
\* row is another's, and what this DELETE works on is gone already.
LEMMA Marked ==
    ASSUME DInv, NEW c \in Clients, task[c].pc = "namespace", NamespaceMarked(c),
           NEW k \in cluster[task[c].inst], Namespace[k] = Namespace[task[c].key],
           task[c].inst \in Instances
    PROVE  <<task[c].inst, k>> \in suspect
  <1>1. Collide(task[c].key, k) /\ task[c].pc \in Located
    BY DEF Collide, NamespaceMarked, Located
  <1>2. SUFFICES ASSUME <<task[c].inst, k>> \notin suspect PROVE FALSE
    OBVIOUS
  <1>3. PICK d \in Stored : db[d].inst = task[c].inst /\ db[d].key = k
    BY <1>2 DEF DInv, WorkloadAccounted
  <1>4. d = task[c].id
    BY <1>1, <1>2, <1>3 DEF DInv, Met
  <1>5. k = task[c].key
    BY <1>1, <1>3, <1>4, RowsKnown DEF DInv
  <1> QED BY <1>2, <1>5 DEF DInv, Informed, Target

\* What a DELETE does in the cluster of its instance, whether it hears of it or not.
LEMMA DeletesInv ==
    ASSUME DInv, IndInv, NEW c \in Clients,
           DeleteWorkload(c) \/ DeleteNamespace(c) \/ DeleteManifestFails(c)
    PROVE  DInv'
  <1>a. /\ UNCHANGED <<vars, db, suspect>>
        /\ task[c].pc \in {"unapply", "namespace"}
        /\ \E label \in {"namespace", "erase", "failed"} : task' = [task EXCEPT ![c].pc = label]
    BY DEF DeleteWorkload, DeleteNamespace, DeleteManifestFails, Continue
  <1>b. /\ task[c].inst \in Instances /\ task[c].key \in Keys /\ Busy(c)
        /\ task[c].id \in Deployments /\ db[task[c].id].key = task[c].key
    BY <1>a DEF DInv, DTypeOK, CarriesItsRow, Busy, Idle, HasRow, Located
  <1>c. /\ \A e \in Clients \ {c} : task'[e] = task[e]
        /\ task'[c].inst = task[c].inst /\ task'[c].key = task[c].key /\ task'[c].id = task[c].id
        /\ task'[c].pc \in {"namespace", "erase", "failed"}
    BY <1>a DEF DInv, DTypeOK, Idle
  <1>d. /\ cluster' \in [Instances -> SUBSET Keys]
        /\ \A i \in Instances : cluster'[i] \subseteq cluster[i]
        /\ \A i \in Instances : \A k \in cluster[i] \ cluster'[i] :
              i = task[c].inst /\ Collide(task[c].key, k)
    <2>1. UNCHANGED cluster \/ cluster' = [cluster EXCEPT ![task[c].inst] = @ \ {task[c].key}]
      BY DEF DeleteWorkload, DeleteNamespace, DeleteManifestFails, WorkloadDeleted, NamespaceMarked
    <2> QED
      BY <1>b, <2>1 DEF DInv, DTypeOK, Collide
  <1>e. task'[c].pc \in {"namespace", "erase"} /\ Target(c) \notin suspect =>
           task[c].key \notin cluster'[task[c].inst]
    <2>1. CASE DeleteWorkload(c)
      BY <1>b, <2>1 DEF DeleteWorkload, WorkloadDeleted, DInv, DTypeOK
    <2>2. CASE DeleteNamespace(c)
      BY <2>2 DEF DeleteNamespace, NamespaceMarked, DInv, Informed
    <2>3. CASE DeleteManifestFails(c)
      BY <1>c, <2>3 DEF DeleteManifestFails, Continue, DInv, DTypeOK
    <2> QED
      BY <2>1, <2>2, <2>3
  <1>f. /\ ending' \in [Instances -> SUBSET ({Namespace[k] : k \in Keys} \ {Default})]
        /\ \A i \in Instances : \A k \in cluster[i] :
              Namespace[k] \in ending'[i] => Namespace[k] \in ending[i] \/ <<i, k>> \in suspect
    <2>1. CASE UNCHANGED ending
      BY <2>1 DEF DInv, DTypeOK
    <2>2. CASE task[c].pc = "namespace" /\ NamespaceMarked(c)
      <3>1. /\ Namespace[task[c].key] # Default
            /\ ending' = [ending EXCEPT ![task[c].inst] = @ \cup {Namespace[task[c].key]}]
        BY <2>2 DEF NamespaceMarked
      <3>2. ending' \in [Instances -> SUBSET ({Namespace[k] : k \in Keys} \ {Default})]
        BY <1>b, <3>1 DEF DInv, DTypeOK
      <3>3. \A k \in cluster[task[c].inst] :
               Namespace[k] = Namespace[task[c].key] => <<task[c].inst, k>> \in suspect
        BY <1>b, <2>2, Marked
      <3> QED
        BY <1>b, <3>1, <3>2, <3>3 DEF DInv, DTypeOK
    <2> QED
      BY <2>1, <2>2 DEF DeleteWorkload, DeleteNamespace, DeleteManifestFails, WorkloadDeleted
  <1>1. DTypeOK'
    BY <1>a, <1>b, <1>c, <1>d, <1>f
    DEF DInv, vars, own, world, control, RunnerTypeOK, Idle, DPCs, Deleting, DTypeOK, TypeOK
  <1>2. OneHolder'
    BY <1>a, <1>b, <1>c, <1>d DEF DInv, Stored, OneHolder
  <1>3. Placed'
    BY <1>a, <1>b, <1>c, <1>d DEF DInv, vars, own, Placed
  <1>4. CarriesItsRow'
    BY <1>a, <1>b, <1>c, <1>d DEF DInv, vars, own, HasRow, Making, Located, Busy, CarriesItsRow
  <1>5. OneMaker'
    BY <1>a, <1>b, <1>c, <1>d DEF DInv, Making, Idle, OneMaker
  <1>6. Met'
    BY <1>a, <1>b, <1>c, <1>d DEF DInv, Located, Busy, Stored, Target, Idle, NoRow, Met
  <1>7. Hosted'
    BY <1>a, <1>b, <1>c, <1>d DEF DInv, vars, world, Hosted
  <1>8. Informed'
    <2>1. UNCHANGED <<status, condemned, db, suspect>>
      BY <1>a DEF vars, own
    <2>2. \A e \in Clients \ {c} :
             task[e].pc = "running" /\ task[e].key \in cluster[task[e].inst] /\ Target(e) \notin suspect =>
                task[e].key \in cluster'[task[e].inst]
      BY <1>a, <1>d DEF DInv, Met, Located, CarriesItsRow, Busy
    <2>3. \A e \in Clients \ {c} :
             task[e].pc \in {"namespace", "erase"} /\ task[e].key \notin cluster[task[e].inst] =>
                task[e].key \notin cluster'[task[e].inst]
      BY <1>d DEF DInv, CarriesItsRow, Busy
    <2> SUFFICES ASSUME NEW e \in Clients, Target(e)' \notin suspect'
                 PROVE  (/\ task[e].pc \in Making /\ status[task[e].inst] # "terminated" => task[e].id \in Stored
                         /\ task[e].pc = "running" /\ task[e].inst \notin condemned =>
                               task[e].key \in cluster[task[e].inst]
                         /\ task[e].pc \in {"namespace", "erase"} => task[e].key \notin cluster[task[e].inst])'
      BY DEF Informed
    <2>4. CASE e = c
      BY <1>c, <1>e, <2>1, <2>4 DEF Making, Target
    <2>5. CASE e # c
      <3>1. task'[e] = task[e] /\ Target(e) \notin suspect
        BY <1>c, <2>1, <2>5 DEF Target
      <3>2. Stored' = Stored
        BY <2>1 DEF Stored
      <3> QED
        BY <2>1, <2>2, <2>3, <2>5, <3>1, <3>2 DEF DInv, Informed
    <2> QED
      BY <2>4, <2>5
  <1>9. BackedOrDeleting'
    <2>1. UNCHANGED <<condemned, db, suspect>>
      BY <1>a DEF vars, own
    <2>2. \A d \in Stored : db[d].inst \in Instances /\ db[d].key \in Keys
      BY RowsKnown DEF DInv
    <2>3. \A d \in Stored : <<db[d].inst, db[d].key>> \notin suspect /\ db[d].key \in cluster[db[d].inst] =>
              \/ db[d].key \in cluster'[db[d].inst]
              \/ d = task[c].id /\ db[d].inst = task[c].inst
      BY <1>a, <1>d, <2>2 DEF DInv, Met, Located
    <2>4. \A e \in Clients : task[e].pc \in Unbacked =>
              task'[e].pc \in Unbacked /\ task'[e].id = task[e].id /\ task'[e].inst = task[e].inst
      BY <1>c DEF Unbacked
    <2>5. task'[c].pc \in Unbacked
      BY <1>c DEF Unbacked
    <2> QED
      BY <1>c, <2>1, <2>3, <2>4, <2>5 DEF DInv, Stored, BackedOrDeleting
  <1>10. WorkloadAccounted'
    BY <1>a, <1>b, <1>c, <1>d DEF DInv, Stored, WorkloadAccounted
  <1>11. Counted'
    <2>1. Stored' \subseteq Stored /\ \A i \in Instances : Keeps(i)
      BY <1>a, <1>c DEF Keeps, Holding, Claims, Stored, Making, Idle
    <2> QED
      BY <2>1, CountStep, FS_Subset DEF DInv, Counted
  <1>12. Leaving'
    BY <1>a, <1>d, <1>f DEF DInv, Leaving
  <1> QED
    BY <1>1, <1>2, <1>3, <1>4, <1>5, <1>6, <1>7, <1>8, <1>9, <1>10, <1>11, <1>12 DEF DInv

\* The row goes after its workload.
LEMMA EraseRowInv ==
    ASSUME DInv, IndInv, NEW c \in Clients, EraseRow(c)
    PROVE  DInv'
  <1> DEFINE r == task[c].id
  <1>a. /\ task[c].pc = "erase" /\ task' = [task EXCEPT ![c] = Idle]
        /\ UNCHANGED <<vars, cluster, ending, suspect>>
        /\ db' = IF r \in Stored THEN [db EXCEPT ![r].status = "deleted"] ELSE db
    BY DEF EraseRow, Finish
  <1>b. /\ r \in Deployments /\ db[r].key = task[c].key /\ task[c].inst \in Instances /\ task[c].key \in Keys
        /\ db[r].inst = task[c].inst \/ status[db[r].inst] = "terminated"
        /\ db[r].inst \in Instances
    BY <1>a DEF DInv, DTypeOK, CarriesItsRow, Busy, HasRow, Located, Idle
  <1>c. /\ \A e \in Clients \ {c} : task'[e] = task[e]
        /\ task'[c] = Idle
    BY <1>a DEF DInv, DTypeOK
  <1>d. /\ db' \in [Deployments -> RowType]
        /\ \A e \in Deployments :
              /\ db'[e].inst = db[e].inst /\ db'[e].key = db[e].key
              /\ db'[e] = NoRow <=> db[e] = NoRow
              /\ e # r => db'[e] = db[e]
        /\ Stored' = Stored \ {r}
    BY <1>a, <1>b DEF DInv, DTypeOK, RowType, Stored, NoRow
  <1>e. \A i \in Instances : status[i] = "terminated" => cluster[i] = {}
    BY DEF IndInv, Recoverable, Live, DInv, Hosted
  <1> HIDE DEF r
  <1>1. DTypeOK'
    BY <1>a, <1>b, <1>c, <1>d, <1>e
    DEF DInv, vars, own, world, control, RunnerTypeOK, DTypeOK, TypeOK
  <1>2. OneHolder'
    BY <1>a, <1>b, <1>c, <1>d, <1>e DEF DInv, OneHolder
  <1>3. Placed'
    BY <1>a, <1>b, <1>c, <1>d, <1>e DEF DInv, vars, own, Idle, Placed
  <1>4. CarriesItsRow'
    BY <1>a, <1>b, <1>c, <1>d, <1>e
    DEF DInv, vars, own, HasRow, Making, Located, Busy, Idle, CarriesItsRow
  <1>5. OneMaker'
    BY <1>a, <1>b, <1>c, <1>d, <1>e DEF DInv, Making, Idle, OneMaker
  <1>6. Met'
    <2>1. \A d \in Stored' : d \in Stored /\ db'[d].inst = db[d].inst /\ db'[d].key = db[d].key
      BY <1>d DEF Stored
    <2>2. \A e \in Clients :
             Busy(e)' \/ task'[e].pc \in Located => e # c /\ task'[e] = task[e]
      BY <1>c DEF Busy, Located, Idle
    <2>3. Met /\ UNCHANGED suspect
      BY <1>a DEF DInv
    <2> QED
      BY <2>1, <2>2, <2>3 DEF Busy, Target, Met
  <1>7. Hosted'
    BY <1>a, <1>b, <1>c, <1>d, <1>e DEF DInv, vars, world, Hosted
  <1>8. Informed'
    <2>1. UNCHANGED <<status, condemned, cluster, suspect>>
      BY <1>a DEF vars, own
    <2>2. \A e \in Clients \ {c} :
              /\ task[e].pc \in Making /\ Target(e) \notin suspect /\ status[task[e].inst] # "terminated"
              => task[e].id # r
      <3> SUFFICES ASSUME NEW e \in Clients \ {c}, task[e].pc \in Making, task[e].id = r,
                          status[task[e].inst] # "terminated"
                   PROVE  Target(e) \in suspect
        OBVIOUS
      <3>1. db[r].inst = task[e].inst /\ db[r].key = task[e].key /\ Busy(e)
        BY DEF DInv, CarriesItsRow, HasRow, Making, Busy
      <3>2. task[e].inst = task[c].inst /\ Collide(task[c].key, task[e].key)
        BY <1>b, <3>1 DEF Collide
      <3> QED
        BY <1>a, <3>1, <3>2 DEF DInv, Met, Located
    <2> QED
      BY <1>c, <1>d, <2>1, <2>2 DEF DInv, Target, Making, Idle, Informed
  <1>9. BackedOrDeleting'
    <2>1. UNCHANGED <<condemned, cluster, suspect>>
      BY <1>a DEF vars, own
    <2>2. \A d \in Stored' : d \in Stored /\ d # r /\ db'[d] = db[d]
      BY <1>d DEF Stored
    <2> QED
      BY <1>c, <2>1, <2>2 DEF DInv, r, BackedOrDeleting
  <1>10. WorkloadAccounted'
    <2>1. \A i \in Instances : \A k \in cluster[i] :
              <<i, k>> \notin suspect => ~(db[r].inst = i /\ db[r].key = k)
      BY <1>a, <1>b, <1>e DEF DInv, Informed, Target
    <2>2. \A d \in Stored \ {r} : d \in Stored' /\ db'[d] = db[d]
      BY <1>d DEF Stored
    <2> QED
      BY <1>a, <2>1, <2>2 DEF DInv, WorkloadAccounted
  <1>11. Counted'
    <2>1. \A d \in Stored' : d \in Stored /\ db'[d] = db[d]
      BY <1>d DEF Stored
    <2>2. \A i \in Instances : Keeps(i)
      BY <1>c, <1>d, <2>1, NoneAssumption DEF Keeps, Holding, Claims, Making, Idle
    <2> QED
      BY <2>1, <2>2, CountStep, FS_Subset DEF DInv, Counted
  <1>12. Leaving'
    BY <1>a DEF DInv, Leaving
  <1> QED
    BY <1>1, <1>2, <1>3, <1>4, <1>5, <1>6, <1>7, <1>8, <1>9, <1>10, <1>11, <1>12 DEF DInv

-----------------------------------------------------------------------------
(* The steps of deploymentinstance and a crash preserve it                 *)

\* A host that disappears is condemned, and takes its workloads with it.
LEMMA InstanceStepInv ==
    ASSUME DInv, IndInv, IndInv', InstanceStep
    PROVE  DInv'
  <1>a. /\ [Next]_vars /\ UNCHANGED <<db, task, suspect>>
        /\ cluster' = [i \in Instances |-> IF cloud'[i] = "none" THEN {} ELSE cluster[i]]
        /\ ending' = [i \in Instances |-> IF cloud'[i] = "none" THEN {} ELSE ending[i]]
    BY DEF InstanceStep, Next, DeleteGuard, Guard
  <1>b. /\ condemned \subseteq condemned'
        /\ \A i \in Instances :
              /\ status[i] \notin {"absent", "provisioning"} =>
                    status'[i] \notin {"absent", "provisioning"}
              /\ status[i] = "terminated" => status'[i] = "terminated"
              /\ i \notin condemned' => cluster'[i] = cluster[i]
              /\ cluster'[i] \subseteq cluster[i]
    BY <1>a, HostMoves DEF DInv, Hosted
  <1>c. /\ \A c \in Clients : Busy(c) /\ task[c].pc # "locate" => task[c].inst \in Instances
        /\ \A d \in Deployments : db[d] # NoRow => db[d].inst \in Instances
        /\ Stored' = Stored
    BY <1>a DEF DInv, CarriesItsRow, DTypeOK, Stored
  <1>1. DTypeOK'
    BY <1>a, <1>b, <1>c DEF DInv, DTypeOK, IndInv
  <1>2. OneHolder'
    BY <1>a, <1>b, <1>c DEF DInv, OneHolder
  <1>3. Placed'
    BY <1>a, <1>b, <1>c DEF DInv, Idle, DTypeOK, Placed
  <1>4. CarriesItsRow'
    BY <1>a, <1>b, <1>c DEF DInv, HasRow, Busy, CarriesItsRow
  <1>5. OneMaker'
    BY <1>a, <1>b, <1>c DEF DInv, Idle, OneMaker
  <1>6. Met'
    BY <1>a, <1>b, <1>c DEF DInv, Busy, Target, Idle, Met
  <1>7. Hosted'
    BY <1>a, <1>b, <1>c DEF Hosted
  <1>8. Informed'
    BY <1>a, <1>b, <1>c DEF DInv, Busy, Making, Target, Idle, Informed
  <1>9. BackedOrDeleting'
    BY <1>a, <1>b, <1>c DEF DInv, Stored, Target, Idle, NoRow, BackedOrDeleting
  <1>10. WorkloadAccounted'
    BY <1>a, <1>b, <1>c DEF DInv, WorkloadAccounted
  <1>11. Counted'
    <2>1. Stored' \subseteq Stored /\ \A i \in Instances : Keeps(i)
      BY <1>a DEF Keeps, Holding, Claims, Stored, Idle
    <2> QED
      BY <2>1, CountStep, FS_Subset DEF DInv, Counted
  <1>12. Leaving'
    BY <1>a DEF DInv, Leaving
  <1> QED
    BY <1>1, <1>2, <1>3, <1>4, <1>5, <1>6, <1>7, <1>8, <1>9, <1>10, <1>11, <1>12 DEF DInv

\* What goes with its namespace is suspect already.
LEMMA KubernetesInv ==
    ASSUME DInv, IndInv, Kubernetes
    PROVE  DInv'
  <1>a. UNCHANGED <<vars, db, task, suspect>>
    BY DEF Kubernetes, NamespaceGoes, WorkloadGoes
  <1>b. /\ cluster' \in [Instances -> SUBSET Keys]
        /\ ending' \in [Instances -> SUBSET ({Namespace[k] : k \in Keys} \ {Default})]
        /\ \A i \in Instances : cluster'[i] \subseteq cluster[i] /\ ending'[i] \subseteq ending[i]
        /\ \A i \in Instances : \A k \in cluster[i] \ cluster'[i] : <<i, k>> \in suspect
    <2>1. ASSUME NEW i \in Instances, NEW k \in Keys, WorkloadGoes(i, k)
          PROVE  /\ cluster' = [cluster EXCEPT ![i] = @ \ {k}] /\ UNCHANGED ending
                 /\ <<i, k>> \in suspect
      BY <2>1 DEF WorkloadGoes, DInv, Leaving
    <2>2. ASSUME NEW i \in Instances, NamespaceGoes(i)
          PROVE  UNCHANGED cluster /\ \E n : ending' = [ending EXCEPT ![i] = @ \ {n}]
      BY <2>2 DEF NamespaceGoes
    <2>3. CASE \E i \in Instances : NamespaceGoes(i)
      BY <2>2, <2>3 DEF DInv, DTypeOK
    <2>4. CASE \E i \in Instances, k \in Keys : WorkloadGoes(i, k)
      <3>1. PICK j \in Instances, l \in Keys : WorkloadGoes(j, l)
        BY <2>4
      <3>2. /\ cluster' = [cluster EXCEPT ![j] = @ \ {l}] /\ UNCHANGED ending
            /\ <<j, l>> \in suspect
        BY <2>1, <3>1
      <3> QED
        BY <3>2 DEF DInv, DTypeOK
    <2> QED
      BY <2>3, <2>4 DEF Kubernetes
  <1>c. /\ \A c \in Clients : task[c].pc \in {"running", "namespace", "erase"} => task[c].inst \in Instances
        /\ \A d \in Stored : db[d].inst \in Instances
    BY RowsKnown DEF DInv, CarriesItsRow, Busy
  <1>1. DTypeOK'
    BY <1>a, <1>b DEF DInv, vars, own, world, control, RunnerTypeOK, DTypeOK, TypeOK
  <1>2. OneHolder'
    BY <1>a DEF DInv, Stored, OneHolder
  <1>3. Placed'
    BY <1>a DEF DInv, vars, own, Placed
  <1>4. CarriesItsRow'
    BY <1>a DEF DInv, vars, own, Busy, CarriesItsRow
  <1>5. OneMaker'
    BY <1>a DEF DInv, OneMaker
  <1>6. Met'
    BY <1>a DEF DInv, Busy, Stored, Target, Met
  <1>7. Hosted'
    BY <1>a, <1>b DEF DInv, vars, world, Hosted
  <1>8. Informed'
    BY <1>a, <1>b, <1>c DEF DInv, vars, own, Stored, Target, Informed
  <1>9. BackedOrDeleting'
    BY <1>a, <1>b, <1>c DEF DInv, vars, own, Stored, BackedOrDeleting
  <1>10. WorkloadAccounted'
    BY <1>a, <1>b DEF DInv, Stored, WorkloadAccounted
  <1>11. Counted'
    <2>1. Stored' = Stored /\ \A i \in Instances : Keeps(i)
      BY <1>a DEF Keeps, Holding, Claims, Stored
    <2> QED
      BY <2>1, CountStep DEF DInv, Counted
  <1>12. Leaving'
    BY <1>a, <1>b DEF DInv, Leaving
  <1> QED
    BY <1>1, <1>2, <1>3, <1>4, <1>5, <1>6, <1>7, <1>8, <1>9, <1>10, <1>11, <1>12 DEF DInv

\* A crash makes suspect every key a request was at work on.
LEMMA ProcessCrashInv ==
    ASSUME DInv, IndInv, IndInv', ProcessCrash
    PROVE  DInv'
  <1>a. /\ UNCHANGED <<own, world, db, cluster, ending>>
        /\ task' = [c \in Clients |-> Idle]
        /\ suspect' = suspect \cup Doubts({c \in Clients : Busy(c)})
    BY DEF ProcessCrash, Crash, Die, vars
  <1>b. /\ suspect \subseteq suspect' /\ suspect' \subseteq Instances \X Keys
        /\ \A c \in Clients : task[c].pc \in Unbacked => Target(c) \in suspect'
    <2>1. /\ Doubts({c \in Clients : Busy(c)}) \subseteq Instances \X Keys
          /\ \A c \in Clients : Busy(c) /\ task[c].inst # None => Target(c) \in Doubts({e \in Clients : Busy(e)})
      BY DoubtsHold DEF DInv
    <2>2. \A c \in Clients : task[c].pc \in Unbacked => Busy(c) /\ task[c].inst # None
      BY NoneAssumption DEF DInv, CarriesItsRow, Unbacked, Busy
    <2>3. suspect \subseteq Instances \X Keys
      BY DEF DInv, DTypeOK
    <2> QED
      BY <1>a, <2>1, <2>2, <2>3
  <1>1. DTypeOK'
    BY <1>a, <1>b DEF DInv, DTypeOK, IndInv
  <1>2. OneHolder'
    BY <1>a, <1>b DEF DInv, Stored, OneHolder
  <1>3. Placed'
    BY <1>a, <1>b DEF DInv, own, Idle, Placed
  <1>4. CarriesItsRow'
    BY <1>a, <1>b DEF HasRow, Making, Located, Busy, Idle, CarriesItsRow
  <1>5. OneMaker'
    BY <1>a, <1>b DEF Making, Idle, OneMaker
  <1>6. Met'
    BY <1>a, <1>b DEF Located, Idle, Met
  <1>7. Hosted'
    BY <1>a, <1>b DEF DInv, world, Hosted
  <1>8. Informed'
    BY <1>a, <1>b DEF Making, Idle, Informed
  <1>9. BackedOrDeleting'
    <2>1. \A e \in Clients, d \in Stored :
              task[e].pc \in Unbacked /\ task[e].id = d /\ task[e].inst = db[d].inst =>
                 Target(e) = <<db[d].inst, db[d].key>>
      BY RowsKnown DEF DInv, Target
    <2>2. UNCHANGED <<db, condemned, cluster>>
      BY <1>a DEF own
    <2> QED
      BY <1>b, <2>1, <2>2 DEF DInv, Stored, BackedOrDeleting
  <1>10. WorkloadAccounted'
    BY <1>a, <1>b DEF DInv, Stored, WorkloadAccounted
  <1>11. Counted'
    <2>1. Stored' \subseteq Stored /\ \A i \in Instances : Keeps(i)
      BY <1>a, NoneAssumption DEF Keeps, Holding, Claims, Stored, Idle
    <2> QED
      BY <2>1, CountStep, FS_Subset DEF DInv, Counted
  <1>12. Leaving'
    BY <1>a, <1>b DEF DInv, Leaving
  <1> QED
    BY <1>1, <1>2, <1>3, <1>4, <1>5, <1>6, <1>7, <1>8, <1>9, <1>10, <1>11, <1>12 DEF DInv

-----------------------------------------------------------------------------
(* The theorems                                                            *)

\* Nothing is deployed in the initial state.
LEMMA DInitInv == DInit => DInv
  <1> SUFFICES ASSUME DInit PROVE DInv
    OBVIOUS
  <1>1. Stored = {} /\ \A i \in Instances : Holding(i) = {} /\ Claims(i) = {}
    BY NoneAssumption DEF DInit, Stored, NoRow, Holding, Claims, Idle, Making
  <1>2. Counted
    <2>1. Cardinality(Clients) \in Nat /\ MaxDeployments \in Nat \ {0}
      BY MaxAssumption, FS_CardinalityType
    <2>2. IsFiniteSet({}) /\ Cardinality({}) = 0
      BY FS_EmptySet
    <2> SUFFICES ASSUME NEW i \in Instances
                 PROVE  Cardinality(Holding(i)) + Cardinality(Claims(i))
                           <= MaxDeployments + Cardinality(Clients) - 1
      BY <1>1, <2>2 DEF Counted
    <2>3. Cardinality(Holding(i)) = 0 /\ Cardinality(Claims(i)) = 0
      BY <1>1, <2>2
    <2> QED
      BY <2>1, <2>3
  <1>3. DTypeOK
    BY InitInv DEF DInit, DTypeOK, IndInv
  <1>4. Placed /\ CarriesItsRow /\ OneMaker /\ Met
    BY DEF DInit, Placed, CarriesItsRow, OneMaker, Met, Idle, Busy, Making, Located, HasRow, NoRow
  <1>5. OneHolder /\ Hosted /\ Informed /\ BackedOrDeleting /\ WorkloadAccounted /\ Leaving
    BY <1>1 DEF DInit, OneHolder, Hosted, Informed, BackedOrDeleting, WorkloadAccounted, Leaving, Idle,
       Making
  <1> QED BY <1>2, <1>3, <1>4, <1>5 DEF DInv

\* Every step of the composition is one of DeploymentInstance or leaves it alone.
LEMMA InstanceUnderneath == [DNext]_allVars => [Next]_vars
  <1> SUFFICES ASSUME [DNext]_allVars PROVE [Next]_vars
    OBVIOUS
  <1>1. ASSUME NEW c \in Clients, CreateDeployment(c) PROVE UNCHANGED vars
    BY <1>1 DEF CreateDeployment, CreateRequest, Admit, Refuse, InsertDeployment, InsertDeploymentLost,
       InsertDeploymentFails, MarkDeploying, MarkDeployingFails, ApplyManifest, ApplyManifestFails
  <1>2. ASSUME NEW c \in Clients, WatchRollout(c) PROVE UNCHANGED vars
    BY <1>2 DEF WatchRollout, SeeRunning, SeeFailure, Report, ReportFails
  <1>3. ASSUME NEW c \in Clients, DeleteDeployment(c) PROVE UNCHANGED vars
    BY <1>3 DEF DeleteDeployment, DeleteRequest, Locate, LocateFails, DeleteWorkload, DeleteNamespace,
       DeleteManifestFails, EraseRow, EraseRowFails
  <1>7. CASE Kubernetes
    BY <1>7 DEF Kubernetes, NamespaceGoes, WorkloadGoes
  <1>4. CASE InstanceStep
    BY <1>4 DEF InstanceStep, Next, DeleteGuard, Guard
  <1>5. CASE ProcessCrash
    BY <1>5 DEF ProcessCrash, Next
  <1>6. CASE UNCHANGED allVars
    BY <1>6 DEF allVars
  <1> QED BY <1>1, <1>2, <1>3, <1>4, <1>5, <1>6, <1>7 DEF DNext

\* Every step of the composition preserves the invariant.
LEMMA DNextInv == DInv /\ IndInv /\ IndInv' /\ [DNext]_allVars => DInv'
  <1> SUFFICES ASSUME DInv, IndInv, IndInv', [DNext]_allVars PROVE DInv'
    OBVIOUS
  <1>1. ASSUME NEW c \in Clients, CreateDeployment(c) PROVE DInv'
    BY <1>1, CreateRequestInv, LeavesInv, MovesOnInv, InsertInv, ReportsInv, AppliesInv
    DEF CreateDeployment
  <1>2. ASSUME NEW c \in Clients, WatchRollout(c) PROVE DInv'
    BY <1>2, LeavesInv, MovesOnInv, ReportsInv DEF WatchRollout
  <1>3. ASSUME NEW c \in Clients, DeleteDeployment(c) PROVE DInv'
    BY <1>3, LeavesInv, DeleteRequestInv, LocateInv, DeletesInv, EraseRowInv
    DEF DeleteDeployment
  <1>4. CASE UNCHANGED allVars
    BY <1>4
    DEF allVars, dVars, vars, own, world, control, DInv, DTypeOK, TypeOK, RunnerTypeOK, OneHolder, Placed,
        CarriesItsRow, OneMaker, Met, Hosted, Informed, BackedOrDeleting, WorkloadAccounted, Counted,
        Leaving, Stored, Holding, Claims, Busy, Target
  <1> QED
    BY <1>1, <1>2, <1>3, <1>4, KubernetesInv, InstanceStepInv, ProcessCrashInv DEF DNext

\* The deployment module leaves deploymentinstance what it is: whatever holds of
\* every behaviour of DeploymentInstance holds of the composition.
THEOREM InstanceImplemented == DSpec => Spec
  <1>1. DInit => Init
    BY DEF DInit
  <1> QED
    BY <1>1, InstanceUnderneath, PTL DEF DSpec, Spec

\* Both invariants hold in every reachable state.
THEOREM DeploymentInvariant == DSpec => [](IndInv /\ DInv)
  <1>1. DSpec => []IndInv
    BY InstanceImplemented, Invariance, PTL
  <1> QED
    BY <1>1, DInitInv, DNextInv, PTL DEF DSpec

\* The variables of the composition keep their types.
THEOREM DeploymentTypeCorrect == DSpec => []DTypeOK
  <1>1. DInv => DTypeOK
    BY DEF DInv
  <1> QED BY <1>1, DeploymentInvariant, PTL

\* One row at most holds a name on an instance, whoever reports what on failed
\* rows of that name.
THEOREM OneHolderOfAName == DSpec => []HolderUnique
  <1>1. DInv => HolderUnique
    <2> SUFFICES ASSUME DInv, NEW i \in Instances, NEW k \in Keys
                 PROVE  Cardinality(Named(i, k)) <= 1
      BY DEF HolderUnique
    <2>1. \A d, e \in Named(i, k) : d = e
      BY DEF DInv, OneHolder, Named, Holding
    <2>2. CASE Named(i, k) = {}
      BY <2>2, FS_EmptySet
    <2>3. CASE \E d : Named(i, k) = {d}
      BY <2>3, FS_Singleton
    <2> QED
      BY <2>1, <2>2, <2>3
  <1> QED BY <1>1, DeploymentInvariant, PTL

\* A row that says running has its workload, or a request is at work on the name.
THEOREM RunningHasWorkload == DSpec => []RunningIsBacked
  <1>1. DInv => RunningIsBacked
    <2> SUFFICES ASSUME DInv, NEW d \in Deployments, db[d].status = "running",
                        db[d].inst \notin condemned, <<db[d].inst, db[d].key>> \notin suspect,
                        ~Touched(db[d].inst, db[d].key)
                 PROVE  db[d].key \in cluster[db[d].inst]
      BY DEF RunningIsBacked
    <2>1. d \in Stored
      BY DEF Stored
    <2>2. \A c \in Clients : ~(task[c].pc \in Unbacked /\ task[c].id = d /\ task[c].inst = db[d].inst)
      BY DEF DInv, CarriesItsRow, HasRow, Located, Unbacked, Touched, Collide, Busy
    <2> QED
      BY <2>1, <2>2 DEF DInv, BackedOrDeleting
  <1> QED BY <1>1, DeploymentInvariant, PTL

\* What runs in a cluster can be deleted through the portal.
THEOREM WorkloadHasRow == DSpec => []WorkloadAccounted
  <1>1. DInv => WorkloadAccounted
    BY DEF DInv
  <1> QED BY <1>1, DeploymentInvariant, PTL

\* The unlocked count lets fewer requests past max_deployments than there are.
THEOREM CapacityOverrun == DSpec => []CapacityOverrunBounded
  <1>1. DInv => CapacityOverrunBounded
    <2> SUFFICES ASSUME DInv, NEW i \in Instances
                 PROVE  Cardinality(Holding(i)) <= MaxDeployments + Cardinality(Clients) - 1
      BY DEF CapacityOverrunBounded
    <2>1. Holding(i) \subseteq Stored /\ Claims(i) \subseteq Clients
      BY DEF Holding, Claims
    <2>2. IsFiniteSet(Holding(i)) /\ IsFiniteSet(Claims(i))
      BY <2>1, FS_Subset, MaxAssumption DEF DInv, Counted
    <2> QED
      BY <2>2, FS_CardinalityType, MaxAssumption DEF DInv, Counted
  <1> QED BY <1>1, DeploymentInvariant, PTL
=============================================================================
