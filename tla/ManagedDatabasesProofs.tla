----------------------- MODULE ManagedDatabasesProofs -----------------------
(***************************************************************************)
(* Proofs about ManagedDatabases, for any number of instances, workers,    *)
(* requests and rows. Those about the instance alone carry over from       *)
(* DbInstanceProofs, since the composition implements DbInstance.          *)
(***************************************************************************)
EXTENDS ManagedDatabases, DbInstanceProofs, FiniteSetTheorems

Stored == {d \in Databases : db[d].status = "active"}
Target(c) == <<task[c].inst, task[c].name>>

\* Rows and requests belong to instances that have been provisioned.
Placed ==
    /\ \A d \in Stored : status[db[d].inst] \notin {"absent", "provisioning"}
    /\ \A c \in Clients : Busy(c) => status[task[c].inst] \notin {"absent", "provisioning"}

\* A request works on a name alone, unless the name is suspect.
Solo ==
    \A c, e \in Clients :
        c # e /\ Busy(c) /\ Busy(e) /\ Target(e) = Target(c) => Target(c) \in suspect

\* What a request that is under way on a name that is not suspect knows of it.
KnowsItsName(c) ==
    LET i == task[c].inst  n == task[c].name IN
    /\ task[c].pc \in {"remote", "insert", "rollback"} /\ <<i, n>> \notin suspect =>
          Named(i, n) = {}
    /\ task[c].pc = "insert" /\ <<i, n>> \notin suspect /\ status[i] = "running" =>
          n \in remote[i]
    /\ task[c].pc \in {"lookup", "drop", "forget"} =>
          db[task[c].id] # NoRow /\ db[task[c].id].inst = i /\ db[task[c].id].name = n
    /\ task[c].pc \in {"lookup", "drop", "forget"} /\ <<i, n>> \notin suspect /\ status[i] = "running" =>
          task[c].id \in Stored

Informed == \A c \in Clients : KnowsItsName(c)

\* A stored row has its database until the DELETE of that row has dropped it.
BackedOrForgotten ==
    \A d \in Stored : LET i == db[d].inst  n == db[d].name IN
        status[i] = "running" /\ <<i, n>> \notin suspect =>
            n \in remote[i] \/ \E c \in Clients : task[c].pc = "forget" /\ task[c].id = d

\* The inductive invariant, beside the one of DbInstance. Backed is not inductive:
\* that a rollback drops nobody's database needs Solo and Informed.
MDInv == MDTypeOK /\ NamesUnique /\ Placed /\ Solo /\ Informed /\ BackedOrForgotten

-----------------------------------------------------------------------------
(* Lemmas about the operators, and what dbinstance does meanwhile          *)

\* A row comes to running only from provisioning, and never back there.
LEMMA StatusMoves ==
    ASSUME IndInv, [Next]_vars, NEW i \in Instances
    PROVE  /\ status'[i] = "running" => status[i] \in {"running", "provisioning"}
           /\ status[i] \notin {"absent", "provisioning"} =>
                 status'[i] \notin {"absent", "provisioning"}
  <1>1. [Slot!Next]_(Slot!vars)
    BY SlotNext
  <1> QED
    BY <1>1 DEF IndInv, TypeOK, Slot!Next, Slot!vars, Slot!Register, Slot!Build, Slot!Provisioned,
       Slot!Fail, Slot!StartDelete, Slot!Release, Slot!Retire

\* A worker leaves the hook only through TeardownHook.
LEMMA HookStays ==
    ASSUME IndInv, NEW w \in Workers, Request(w) \/ OwnStep(w) \/ Timeout(w),
           NEW v \in Workers, pc[v] = "hook"
    PROVE  pc'[v] = "hook"
  <1> USE DEF IndInv, TypeOK, Goto, Return, Start
  <1>1. CASE Request(w)
    BY <1>1 DEF Request, CreateCount, DeleteRead, DrawName
  <1>2. CASE CreateStep(w)
    BY <1>2 DEF CreateStep, Insert, InsertConflict, InsertFails, DropKey
  <1>3. CASE ProvisionStep(w)
    BY <1>3 DEF ProvisionStep, ApplyStep, Prepare, ApplyCreates, ApplySucceeds, ApplyFails, OutputFails,
       MarkProvisioned, MarkProvisionedFails
  <1>4. CASE FailureStep(w) \/ AwaitStep(w)
    BY <1>4 DEF FailureStep, RecordFailure, RecordFailureFails, AwaitStep, PostgresAnswers,
       PostgresGivenUp, ContainerStatusFails
  <1>5. CASE DeleteStep(w)
    BY <1>5 DEF DeleteStep, DestroyStep, DeleteMark, DeleteMarkFails, PrepareDestroy, DestroyRemoves,
       DestroySucceeds, DestroyFails, RemoveWorkspace, RemoveWorkspaceFails, RemoveKey, DropKey,
       SoftDelete, SoftDeleteFails
  <1>6. CASE Timeout(w)
    BY <1>6 DEF Timeout, Expire
  <1> QED BY <1>1, <1>2, <1>3, <1>4, <1>5, <1>6 DEF OwnStep

\* A soft delete changes the status of the rows it finds and nothing else.
LEMMA SoftDeleted ==
    ASSUME MDTypeOK, NEW D, D \subseteq Stored, db' = Deleted(D)
    PROVE  /\ \A d \in Databases :
                 /\ db'[d].inst = db[d].inst /\ db'[d].name = db[d].name /\ db'[d].size = db[d].size
                 /\ db'[d].status = IF d \in D THEN "deleted" ELSE db[d].status
                 /\ db[d] # NoRow => db'[d] # NoRow
           /\ db' \in [Databases -> {NoRow} \cup
                 [status : {"active", "deleted"}, inst : Instances, name : Names, size : Sizes]]
           /\ Stored' = Stored \ D
  BY DEF MDTypeOK, Deleted, NoRow, Stored

\* A DELETE under way carries the name in its row.
LEMMA DeletesItsRow ==
    ASSUME MDInv, NEW c \in Clients, task[c].pc \in {"lookup", "drop", "forget"}
    PROVE  /\ task[c].id \in Databases
           /\ db[task[c].id] # NoRow /\ Target(c) = <<db[task[c].id].inst, db[task[c].id].name>>
  <1>1. task[c].id \in Databases
    BY DEF MDInv, MDTypeOK, Idle, Creating
  <1>2. KnowsItsName(c)
    BY DEF MDInv, Informed
  <1> QED
    BY <1>1, <1>2 DEF KnowsItsName, Target

-----------------------------------------------------------------------------
(* POST /databases preserves the invariant                                 *)

\* A second request for a name makes the name suspect.
LEMMA CreateRequestInv ==
    ASSUME MDInv, IndInv, NEW c \in Clients, NEW i \in Instances, NEW n \in Names,
           NEW z \in Sizes, CreateRequest(c, i, n, z)
    PROVE  MDInv'
  <1> USE DEF MDInv, CreateRequest, Begin, vars
  <1>1. MDTypeOK'
    BY DEF Creating, MDTypeOK
  <1>2. NamesUnique'
    BY DEF NamesUnique
  <1>3. Placed'
    BY DEF Ready, Busy, Stored, Placed
  <1>4. Solo'
    BY DEF Busy, Target, Solo
  <1>5. Informed'
    BY DEF Named, Active, Stored, KnowsItsName, Informed
  <1>6. BackedOrForgotten'
    BY DEF Busy, Stored, BackedOrForgotten
  <1> QED BY <1>1, <1>2, <1>3, <1>4, <1>5, <1>6

\* The quota check touches nothing.
LEMMA AdmitInv ==
    ASSUME MDInv, IndInv, NEW c \in Clients, Admit(c)
    PROVE  MDInv'
  <1> USE DEF MDInv, Admit, Continue, vars
  <1>1. MDTypeOK'
    BY DEF Idle, Creating, Busy, Target, MDTypeOK
  <1>2. NamesUnique'
    BY DEF NamesUnique
  <1>3. Placed'
    BY DEF Busy, Stored, Placed
  <1>4. Solo'
    BY DEF Busy, Target, Solo
  <1>5. Informed'
    BY DEF Named, Active, Stored, KnowsItsName, Informed
  <1>6. BackedOrForgotten'
    BY DEF Stored, BackedOrForgotten
  <1> QED BY <1>1, <1>2, <1>3, <1>4, <1>5, <1>6

\* A request past the check has found no row of its name.
LEMMA CheckNameInv ==
    ASSUME MDInv, IndInv, NEW c \in Clients, CheckName(c)
    PROVE  MDInv'
  <1> USE DEF MDInv, CheckName, Continue, vars
  <1>1. MDTypeOK'
    BY DEF Idle, Creating, Busy, Target, MDTypeOK
  <1>2. NamesUnique'
    BY DEF NamesUnique
  <1>3. Placed'
    BY DEF Busy, Stored, Placed
  <1>4. Solo'
    BY DEF Busy, Target, Solo
  <1>5. Informed'
    BY DEF Named, Active, Stored, KnowsItsName, Informed
  <1>6. BackedOrForgotten'
    BY DEF Stored, BackedOrForgotten
  <1> QED BY <1>1, <1>2, <1>3, <1>4, <1>5, <1>6

\* A refused request has touched nothing.
LEMMA RefuseInv ==
    ASSUME MDInv, IndInv, NEW c \in Clients, Refuse(c)
    PROVE  MDInv'
  <1> USE DEF MDInv, Refuse, Finish, vars
  <1>1. MDTypeOK'
    BY DEF MDTypeOK
  <1>2. NamesUnique'
    BY DEF NamesUnique
  <1>3. Placed'
    BY DEF Idle, Busy, Stored, Placed
  <1>4. Solo'
    BY DEF Idle, Busy, Target, Solo
  <1>5. Informed'
    BY DEF Named, Active, Idle, Stored, KnowsItsName, Informed
  <1>6. BackedOrForgotten'
    BY DEF Stored, BackedOrForgotten
  <1> QED BY <1>1, <1>2, <1>3, <1>4, <1>5, <1>6

\* The server has the database before the row is stored.
LEMMA RemoteCreateInv ==
    ASSUME MDInv, IndInv, NEW c \in Clients, RemoteCreate(c)
    PROVE  MDInv'
  <1> USE DEF MDInv, RemoteCreate, Continue, vars
  <1>1. MDTypeOK'
    BY DEF Idle, NoRow, Creating, Busy, Target, Stored, Present, TypeOK, MDTypeOK
  <1>2. NamesUnique'
    BY DEF NamesUnique
  <1>3. Placed'
    BY DEF Busy, Stored, Placed
  <1>4. Solo'
    BY DEF Busy, Target, Solo
  <1>5. Informed'
    BY DEF Named, Active, Idle, Stored, Present, KnowsItsName, MDTypeOK, Informed
  <1>6. BackedOrForgotten'
    BY DEF Stored, Present, BackedOrForgotten
  <1> QED BY <1>1, <1>2, <1>3, <1>4, <1>5, <1>6

\* The database that a failed POST may leave behind has no row.
LEMMA RemoteCreateFailsInv ==
    ASSUME MDInv, IndInv, NEW c \in Clients, RemoteCreateFails(c)
    PROVE  MDInv'
  <1> USE DEF MDInv, RemoteCreateFails, Finish, vars
  <1>1. MDTypeOK'
    BY DEF Idle, Present, MDTypeOK
  <1>2. NamesUnique'
    BY DEF NamesUnique
  <1>3. Placed'
    BY DEF Idle, Busy, Stored, Placed
  <1>4. Solo'
    BY DEF Idle, Busy, Target, Solo
  <1>5. Informed'
    BY DEF Named, Active, Idle, Stored, Present, KnowsItsName, MDTypeOK, Informed
  <1>6. BackedOrForgotten'
    BY DEF Idle, NoRow, Creating, Busy, Stored, Present, MDTypeOK, BackedOrForgotten
  <1> QED BY <1>1, <1>2, <1>3, <1>4, <1>5, <1>6

\* The row of a name alone finds the database its request has made.
LEMMA InsertDatabaseInv ==
    ASSUME MDInv, IndInv, NEW c \in Clients, NEW d \in Databases, InsertDatabase(c, d)
    PROVE  MDInv'
  <1> USE DEF MDInv, InsertDatabase, Finish, vars
  <1>1. MDTypeOK'
    BY DEF Idle, NewRow, MDTypeOK
  <1>2. NamesUnique'
    BY DEF Named, Active, NewRow, NamesUnique
  <1>3. Placed'
    BY DEF Idle, Busy, Stored, NewRow, Placed
  <1>4. Solo'
    BY DEF Idle, Busy, Target, Solo
  <1>5. Informed'
    BY DEF Named, Active, Idle, Busy, Target, Stored, NewRow, KnowsItsName, Solo, MDTypeOK, Informed
  <1>6. BackedOrForgotten'
    BY NoneAssumption
    DEF Named, NoRow, Busy, Stored, NewRow, KnowsItsName, TypeOK, RunnerTypeOK, IndInv,
        Informed, Placed, BackedOrForgotten
  <1> QED BY <1>1, <1>2, <1>3, <1>4, <1>5, <1>6

\* A request that is not alone on its name, or whose name is taken, rolls back.
LEMMA InsertDatabaseFailsInv ==
    ASSUME MDInv, IndInv, NEW c \in Clients, InsertDatabaseFails(c)
    PROVE  MDInv'
  <1> USE DEF MDInv, InsertDatabaseFails, Continue, vars
  <1>1. MDTypeOK'
    BY DEF Idle, Creating, MDTypeOK
  <1>2. NamesUnique'
    BY DEF NamesUnique
  <1>3. Placed'
    BY DEF Busy, Stored, Placed
  <1>4. Solo'
    BY DEF Busy, Target, Solo
  <1>5. Informed'
    BY DEF Named, Active, Stored, KnowsItsName, Informed
  <1>6. BackedOrForgotten'
    BY DEF Stored, BackedOrForgotten
  <1> QED BY <1>1, <1>2, <1>3, <1>4, <1>5, <1>6

\* A row whose acknowledgement is lost is suspect: the rollback drops its database.
LEMMA InsertDatabaseLostInv ==
    ASSUME MDInv, IndInv, NEW c \in Clients, NEW d \in Databases, InsertDatabaseLost(c, d)
    PROVE  MDInv'
  <1> USE DEF MDInv, InsertDatabaseLost, vars
  <1>1. MDTypeOK'
    BY DEF Idle, Creating, Busy, Target, Stored, NewRow, MDTypeOK
  <1>2. NamesUnique'
    BY DEF Named, Active, NewRow, NamesUnique
  <1>3. Placed'
    BY DEF Busy, Stored, NewRow, Placed
  <1>4. Solo'
    BY DEF Busy, Target, Solo
  <1>5. Informed'
    BY DEF Named, Active, Stored, NewRow, KnowsItsName, Informed
  <1>6. BackedOrForgotten'
    BY NoneAssumption
    DEF Ready, Live, Named, Active, NoRow, Stored, NewRow, KnowsItsName, MDTypeOK,
        BackedOrForgotten
  <1> QED BY <1>1, <1>2, <1>3, <1>4, <1>5, <1>6

\* What a rollback drops belongs to no row, or is suspect.
LEMMA RollbackInv ==
    ASSUME MDInv, IndInv, NEW c \in Clients, Rollback(c)
    PROVE  MDInv'
  <1> USE DEF MDInv, Rollback, Finish, vars
  <1>1. MDTypeOK'
    BY DEF Dropped, MDTypeOK
  <1>2. NamesUnique'
    BY DEF NamesUnique
  <1>3. Placed'
    BY DEF Idle, Busy, Stored, Placed
  <1>4. Solo'
    BY DEF Idle, Busy, Target, Solo
  <1>5. Informed'
    BY DEF Named, Active, Idle, Busy, Target, Stored, Dropped, KnowsItsName, Solo, MDTypeOK,
       Informed
  <1>6. BackedOrForgotten'
    <2>1. /\ task[c].pc = "rollback" /\ task' = [task EXCEPT ![c] = Idle]
          /\ remote' \in {remote, [remote EXCEPT ![task[c].inst] = @ \ {task[c].name}]}
          /\ UNCHANGED <<status, db, suspect>>
      BY DEF Rollback, Finish, Dropped, vars
    <2>2. \A d \in Stored : <<db[d].inst, db[d].name>> \notin suspect =>
              <<db[d].inst, db[d].name>> # <<task[c].inst, task[c].name>>
      BY <2>1 DEF MDInv, Informed, KnowsItsName, Named, Active, Stored
    <2>3. \A d \in Stored : db[d].inst \in Instances
      BY DEF Stored, NoRow, MDInv, MDTypeOK
    <2>4. \A e \in Clients : task[e].pc = "forget" => task'[e] = task[e]
      BY <2>1 DEF MDInv, MDTypeOK
    <2>5. \A d \in Stored : <<db[d].inst, db[d].name>> \notin suspect /\ db[d].name \in remote[db[d].inst] =>
              db[d].name \in remote'[db[d].inst]
      BY <2>1, <2>2, <2>3 DEF MDInv, MDTypeOK
    <2> QED
      BY <2>1, <2>4, <2>5 DEF MDInv, BackedOrForgotten, Stored
  <1> QED BY <1>1, <1>2, <1>3, <1>4, <1>5, <1>6

-----------------------------------------------------------------------------
(* DELETE /databases/:id preserves it                                      *)

\* A DELETE carries the instance and the name of its row.
LEMMA DeleteRequestInv ==
    ASSUME MDInv, IndInv, NEW c \in Clients, NEW d \in Databases, DeleteRequest(c, d)
    PROVE  MDInv'
  <1> USE DEF MDInv, DeleteRequest, Begin, vars
  <1>1. MDTypeOK'
    BY DEF NoRow, MDTypeOK
  <1>2. NamesUnique'
    BY DEF NamesUnique
  <1>3. Placed'
    BY DEF Busy, Stored, Placed
  <1>4. Solo'
    BY DEF Busy, Target, Solo
  <1>5. Informed'
    BY DEF Named, Active, NoRow, Busy, Stored, KnowsItsName, Informed
  <1>6. BackedOrForgotten'
    BY DEF Busy, Stored, BackedOrForgotten
  <1> QED BY <1>1, <1>2, <1>3, <1>4, <1>5, <1>6

\* Looking for the host touches nothing; where none is ready, the DELETE answers
\* for the row from now on.
LEMMA LookupHostInv ==
    ASSUME MDInv, IndInv, NEW c \in Clients, LookupHost(c)
    PROVE  MDInv'
  <1>a. PICK t \in {"drop", "forget"} :
           task[c].pc = "lookup" /\ task' = [task EXCEPT ![c].pc = t]
    BY DEF LookupHost, Continue
  <1>b. UNCHANGED <<status, pc, db, remote, pending, cascading, suspect>>
    BY DEF LookupHost, Continue, vars
  <1>1. MDTypeOK'
    BY <1>a, <1>b, NoneAssumption DEF Idle, Creating, MDInv, MDTypeOK
  <1>c. /\ \A e \in Clients \ {c} : task'[e] = task[e]
        /\ task'[c].pc = t /\ task'[c].id = task[c].id
        /\ task'[c].inst = task[c].inst /\ task'[c].name = task[c].name
    BY <1>a DEF MDInv, MDTypeOK
  <1>2. NamesUnique'
    BY <1>b DEF MDInv, NamesUnique
  <1>3. Placed'
    BY <1>a, <1>b, <1>c DEF MDInv, Busy, Stored, Placed
  <1>4. Solo'
    BY <1>a, <1>b, <1>c DEF MDInv, Busy, Target, Solo
  <1>5. Informed'
    BY <1>a, <1>b, <1>c DEF MDInv, Named, Active, Stored, KnowsItsName, Informed
  <1>6. BackedOrForgotten'
    BY <1>a, <1>b, <1>c DEF MDInv, Stored, BackedOrForgotten
  <1> QED BY <1>1, <1>2, <1>3, <1>4, <1>5, <1>6 DEF MDInv

\* From now on the DELETE answers for the row.
LEMMA DropRemoteInv ==
    ASSUME MDInv, IndInv, NEW c \in Clients, DropRemote(c)
    PROVE  MDInv'
  <1> USE DEF MDInv, DropRemote, Continue, vars
  <1>1. MDTypeOK'
    <2>1. remote' \in [Instances -> SUBSET Names]
      BY DEF Dropped, Idle, MDTypeOK
    <2> QED
      BY <2>1, NoneAssumption DEF Idle, Creating, MDTypeOK
  <1>2. NamesUnique'
    BY DEF NamesUnique
  <1>3. Placed'
    BY DEF Busy, Stored, Placed
  <1>4. Solo'
    BY DEF Busy, Target, Solo
  <1>5. Informed'
    BY DEF Named, Active, Idle, Creating, Stored, Dropped, KnowsItsName, MDTypeOK, Informed
  <1>6. BackedOrForgotten'
    BY DEF NoRow, Creating, Stored, Dropped, KnowsItsName, Informed, NamesUnique, MDTypeOK,
       BackedOrForgotten
  <1> QED BY <1>1, <1>2, <1>3, <1>4, <1>5, <1>6

\* The statement has committed, whatever the client heard of it.
Forgets(c) ==
    /\ task[c].pc = "forget"
    /\ db' = Deleted({task[c].id} \cap Active(task[c].inst))
    /\ task' = [task EXCEPT ![c] = Idle]
    /\ suspect' \in {suspect, suspect \cup {Target(c)}}
    /\ UNCHANGED <<status, pc, remote, pending, cascading>>

\* A row goes with the DELETE that is past its attempt to drop the database.
LEMMA ForgottenInv ==
    ASSUME MDInv, IndInv, NEW c \in Clients, Forgets(c)
    PROVE  MDInv'
  <1> DEFINE D == {task[c].id} \cap Active(task[c].inst)
  <1>a. D \subseteq Stored /\ D \subseteq {task[c].id} /\ db' = Deleted(D)
    BY DEF Active, Stored, Forgets
  <1> HIDE DEF D
  <1>b. /\ \A d \in Databases :
              db'[d].inst = db[d].inst /\ db'[d].name = db[d].name /\ (db[d] # NoRow => db'[d] # NoRow)
        /\ db' \in [Databases -> {NoRow} \cup
                 [status : {"active", "deleted"}, inst : Instances, name : Names, size : Sizes]]
        /\ Stored' = Stored \ D
    BY <1>a, SoftDeleted DEF MDInv
  <1>c. /\ task[c].pc = "forget" /\ task' = [task EXCEPT ![c] = Idle]
        /\ UNCHANGED <<status, pc, remote, pending, cascading>>
        /\ suspect \subseteq suspect' /\ suspect' \subseteq Instances \X Names
    BY DEF Forgets, Target, MDInv, MDTypeOK, Idle
  <1>d. /\ \A e \in Clients \ {c} : task'[e] = task[e]
        /\ task'[c].pc = "idle"
    BY <1>c DEF MDInv, MDTypeOK, Idle
  <1>1. MDTypeOK'
    BY <1>b, <1>c DEF MDInv, MDTypeOK
  <1>2. NamesUnique'
    BY <1>b DEF MDInv, NamesUnique, Stored
  <1>3. Placed'
    <2>1. \A d \in Stored' : d \in Stored /\ db'[d].inst = db[d].inst
      BY <1>b DEF Stored
    <2> QED
      BY <1>c, <1>d, <2>1 DEF MDInv, Placed, Busy
  <1>4. Solo'
    BY <1>c, <1>d DEF MDInv, Solo, Busy, Target
  <1>5. Informed'
    <2>4. \A e \in Clients \ {c} :
            task[e].pc \in {"lookup", "drop", "forget"}
              /\ <<task[e].inst, task[e].name>> \notin suspect => task[e].id # task[c].id
      BY <1>c, DeletesItsRow DEF MDInv, Solo, Busy, Target
    <2>5. \A e \in Clients \ {c} :
            task[e].pc \in {"lookup", "drop", "forget"} => task[e].id \in Databases
      BY DeletesItsRow
    <2> SUFFICES ASSUME NEW e \in Clients \ {c} PROVE KnowsItsName(e)'
      BY <1>d DEF Informed, KnowsItsName
    <2>6. KnowsItsName(e)
      BY DEF MDInv, Informed
    <2>7. Named(task[e].inst, task[e].name)' \subseteq Named(task[e].inst, task[e].name)
      BY <1>b, <1>d DEF Named, Active, Stored
    <2>8. /\ task'[e] = task[e] /\ UNCHANGED <<status, remote>>
          /\ <<task[e].inst, task[e].name>> \notin suspect' => <<task[e].inst, task[e].name>> \notin suspect
      BY <1>c, <1>d
    <2> QED
      BY <1>a, <1>b, <2>4, <2>5, <2>6, <2>7, <2>8 DEF KnowsItsName
  <1>6. BackedOrForgotten'
    <2>1. \A d \in Stored' : d \in Stored /\ db'[d].inst = db[d].inst /\ db'[d].name = db[d].name
      BY <1>b DEF Stored
    <2>2. \A d \in Stored' : status[db[d].inst] = "running" /\ <<db[d].inst, db[d].name>> \notin suspect
              /\ db[d].name \notin remote[db[d].inst] => d # task[c].id
      <3>1. task[c].inst = db[task[c].id].inst /\ task[c].id \in Databases
        BY <1>c, DeletesItsRow DEF Target
      <3> QED
        BY <3>1, <1>b DEF D, Active, Stored
    <2> QED
      BY <1>c, <1>d, <2>1, <2>2 DEF MDInv, BackedOrForgotten
  <1> QED BY <1>1, <1>2, <1>3, <1>4, <1>5, <1>6 DEF MDInv

\* The statement that works.
LEMMA ForgetRowInv ==
    ASSUME MDInv, IndInv, NEW c \in Clients, ForgetRow(c)
    PROVE  MDInv'
  BY ForgottenInv DEF Forgets, ForgetRow, Finish, vars

\* The statement that errors: the row has gone all the same, or it is suspect.
LEMMA ForgetRowFailsInv ==
    ASSUME MDInv, IndInv, NEW c \in Clients, ForgetRowFails(c)
    PROVE  MDInv'
  <1>a. CASE db' = Deleted({task[c].id} \cap Active(task[c].inst))
    BY <1>a, ForgottenInv DEF Forgets, ForgetRowFails, Target, vars
  <1>b. CASE UNCHANGED db
    <2> USE <1>b DEF MDInv, ForgetRowFails, vars
    <2>1. MDTypeOK'
      BY DEF Idle, MDTypeOK
    <2>2. NamesUnique'
      BY DEF NamesUnique
    <2>3. Placed'
      BY DEF Idle, Busy, Stored, Placed
    <2>4. Solo'
      BY DEF Idle, Busy, Target, Solo
    <2>5. Informed'
      BY DEF Named, Active, Idle, Stored, KnowsItsName, Informed
    <2>6. BackedOrForgotten'
      <3>1. /\ task[c].pc = "forget"
            /\ suspect' = suspect \cup {Target(c)}
            /\ \A e \in Clients \ {c} : task'[e] = task[e]
            /\ UNCHANGED <<status, db, remote>>
        BY DEF Target, MDTypeOK
      <3>2. Target(c) = <<db[task[c].id].inst, db[task[c].id].name>>
        BY <3>1, DeletesItsRow
      <3> QED
        BY <3>1, <3>2 DEF BackedOrForgotten, Stored
    <2> QED BY <2>1, <2>2, <2>3, <2>4, <2>5, <2>6
  <1> QED BY <1>a, <1>b DEF ForgetRowFails

-----------------------------------------------------------------------------
(* The cascade, the steps of dbinstance and a crash preserve it            *)

\* Listing the rows changes none of them.
LEMMA CascadeListInv ==
    ASSUME MDInv, IndInv, NEW w \in Workers, CascadeList(w)
    PROVE  MDInv'
  <1> USE DEF MDInv, CascadeList, vars
  <1>1. MDTypeOK'
    BY DEF Active, MDTypeOK
  <1>2. NamesUnique'
    BY DEF NamesUnique
  <1>3. Placed'
    BY DEF Busy, Stored, Placed
  <1>4. Solo'
    BY DEF Busy, Target, Solo
  <1>5. Informed'
    BY DEF Named, Active, Stored, KnowsItsName, Informed
  <1>6. BackedOrForgotten'
    BY DEF Stored, BackedOrForgotten
  <1> QED BY <1>1, <1>2, <1>3, <1>4, <1>5, <1>6

\* The cascade works where nothing runs any more.
LEMMA CascadeDropInv ==
    ASSUME MDInv, IndInv, NEW w \in Workers, NEW d \in Databases, CascadeDrop(w, d)
    PROVE  MDInv'
  <1> USE DEF MDInv, CascadeDrop, vars
  <1>1. MDTypeOK'
    BY DEF Idle, Creating, Dropped, MDTypeOK
  <1>2. NamesUnique'
    BY DEF NamesUnique
  <1>3. Placed'
    BY DEF Busy, Stored, Placed
  <1>4. Solo'
    BY DEF Busy, Target, Solo
  <1>5. Informed'
    BY NoneAssumption
    DEF Named, Active, Idle, Stored, Dropped, Control, TearingDown, KnowsItsName, IndInv,
        MDTypeOK, Informed
  <1>6. BackedOrForgotten'
    <2>1. /\ status[inst[w]] # "running"
          /\ remote' \in {remote, [remote EXCEPT ![inst[w]] = @ \ {db[d].name}]}
          /\ UNCHANGED <<status, db, task, suspect>>
      BY DEF CascadeDrop, Dropped, vars, MDInv, MDTypeOK, IndInv, Control, TearingDown
    <2>2. \A e \in Stored : db[e].inst \in Instances
      BY DEF Stored, NoRow, MDInv, MDTypeOK
    <2>3. \A e \in Stored : status[db[e].inst] = "running" => remote'[db[e].inst] = remote[db[e].inst]
      BY <2>1, <2>2 DEF MDInv, MDTypeOK
    <2> QED
      BY <2>1, <2>3 DEF MDInv, BackedOrForgotten, Stored
  <1> QED BY <1>1, <1>2, <1>3, <1>4, <1>5, <1>6

\* The rows that the cascade deletes belong to an instance on its way out.
LEMMA CascadeForgetInv ==
    ASSUME MDInv, IndInv, NEW w \in Workers, CascadeForget(w)
    PROVE  MDInv'
  <1>a. status[inst[w]] # "running" /\ pc[w] = "hook" /\ pending[w] = {}
    BY DEF IndInv, Control, TearingDown, CascadeForget, TeardownHook
  <1>b. /\ UNCHANGED <<status, inst, remote, task, pending, suspect>>
        /\ pc' = [pc EXCEPT ![w] = "destroy"]
        /\ cascading' = cascading \ {w}
    BY DEF CascadeForget, TeardownHook, Goto, rows
  <1>c. /\ \A d \in Databases :
              db'[d].inst = db[d].inst /\ db'[d].name = db[d].name /\ (db[d] # NoRow => db'[d] # NoRow)
        /\ Stored' \subseteq Stored /\ \A d \in Stored \ Stored' : db[d].inst = inst[w]
        /\ db' \in [Databases -> {NoRow} \cup
              [status : {"active", "deleted"}, inst : Instances, name : Names, size : Sizes]]
    <2>1. Active(inst[w]) \subseteq Stored /\ \A d \in Active(inst[w]) : db[d].inst = inst[w]
      BY DEF Active, Stored
    <2>2. CASE db' = Deleted(Active(inst[w]))
      BY <2>1, <2>2, SoftDeleted DEF MDInv
    <2>3. CASE UNCHANGED db
      BY <2>3 DEF Stored, MDInv, MDTypeOK
    <2> QED
      BY <2>2, <2>3 DEF CascadeForget
  <1>1. MDTypeOK'
    BY <1>a, <1>b, <1>c DEF MDInv, MDTypeOK, IndInv, TypeOK
  <1>2. NamesUnique'
    BY <1>c DEF MDInv, NamesUnique, Stored
  <1>3. Placed'
    <2>1. \A d \in Stored' : d \in Stored /\ db'[d].inst = db[d].inst
      BY <1>c DEF Stored
    <2> QED
      BY <1>b, <2>1 DEF MDInv, Placed, Busy
  <1>4. Solo'
    BY <1>b DEF MDInv, Solo, Busy, Target
  <1>5. Informed'
    <2> SUFFICES ASSUME NEW c \in Clients PROVE KnowsItsName(c)'
      BY DEF Informed
    <2>1. KnowsItsName(c)
      BY DEF MDInv, Informed
    <2>2. Named(task[c].inst, task[c].name)' \subseteq Named(task[c].inst, task[c].name)
      BY <1>b, <1>c DEF Named, Active, Stored
    <2>3. task[c].pc \in {"lookup", "drop", "forget"} => task[c].id \in Databases
      BY DeletesItsRow
    <2> QED
      BY <1>a, <1>b, <1>c, <2>1, <2>2, <2>3 DEF KnowsItsName
  <1>6. BackedOrForgotten'
    <2>1. \A d \in Stored' : d \in Stored /\ db'[d].inst = db[d].inst /\ db'[d].name = db[d].name
      BY <1>c DEF Stored
    <2> QED
      BY <1>b, <2>1 DEF MDInv, BackedOrForgotten
  <1> QED BY <1>1, <1>2, <1>3, <1>4, <1>5, <1>6 DEF MDInv

\* An instance that runs keeps its host, and so its databases.
LEMMA InstanceStepInv ==
    ASSUME MDInv, IndInv, IndInv', InstanceStep
    PROVE  MDInv'
  <1> USE DEF MDInv, InstanceStep, vars
  <1>a. [Next]_vars
    BY DEF Next, WorkerStep
  <1>b. \A i \in Instances :
           /\ status'[i] = "running" => status[i] \in {"running", "provisioning"}
           /\ status[i] \notin {"absent", "provisioning"} => status'[i] \notin {"absent", "provisioning"}
    BY <1>a, StatusMoves
  <1>1. MDTypeOK'
    BY HookStays, <1>a, <1>b DEF MDTypeOK
  <1>2. NamesUnique'
    BY <1>a, <1>b DEF NamesUnique
  <1>3. Placed'
    BY <1>a, <1>b DEF Idle, NoRow, Busy, Stored, MDTypeOK, Placed
  <1>4. Solo'
    BY <1>a, <1>b DEF Busy, Target, Solo
  <1>5. Informed'
    BY <1>a, <1>b
    DEF Named, Active, Idle, Busy, Stored, RunningIsUp, KnowsItsName, IndInv, Placed, MDTypeOK,
        Informed
  <1>6. BackedOrForgotten'
    BY NoneAssumption, <1>a, <1>b
    DEF Ready, Live, NoRow, Stored, RunningIsUp, KnowsItsName, IndInv, Placed, MDTypeOK,
        BackedOrForgotten
  <1> QED BY <1>1, <1>2, <1>3, <1>4, <1>5, <1>6

\* A crash makes suspect every name a request was at work on.
LEMMA ProcessCrashInv ==
    ASSUME MDInv, IndInv, IndInv', ProcessCrash
    PROVE  MDInv'
  <1> USE DEF MDInv, ProcessCrash, Crash, Die, vars
  <1>1. MDTypeOK'
    BY DEF Idle, Busy, MDTypeOK
  <1>2. NamesUnique'
    BY DEF NamesUnique
  <1>3. Placed'
    BY DEF Idle, Busy, Stored, rows, Placed
  <1>4. Solo'
    BY DEF Idle, Busy, Solo
  <1>5. Informed'
    BY DEF Idle, KnowsItsName, Informed
  <1>6. BackedOrForgotten'
    <2>1. suspect \subseteq suspect' /\ UNCHANGED <<status, db, remote>>
      BY DEF ProcessCrash, Crash, rows
    <2>2. \A c \in Clients :
            task[c].pc = "forget" => <<db[task[c].id].inst, db[task[c].id].name>> \in suspect'
      <3>1. \A c \in Clients : Busy(c) => Target(c) \in suspect'
        BY DEF ProcessCrash, Target
      <3> QED
        BY <3>1, DeletesItsRow DEF Busy
    <2> QED
      BY <2>1, <2>2 DEF MDInv, BackedOrForgotten, Stored
  <1> QED BY <1>1, <1>2, <1>3, <1>4, <1>5, <1>6

-----------------------------------------------------------------------------
(* The theorems                                                            *)

\* There is neither a row nor a request in the initial state.
LEMMA MDInitInv == MDInit => MDInv
  BY NoneAssumption
  DEF MDInit, MDInv, MDTypeOK, NamesUnique, Placed, Solo, Informed, KnowsItsName,
      BackedOrForgotten, Stored, Busy, Idle, NoRow

\* Every step of the composition is a step of DbInstance or leaves it alone.
LEMMA InstanceUnderneath == [MDNext]_allVars => [Next]_vars
  <1> SUFFICES ASSUME [MDNext]_allVars PROVE [Next]_vars
    OBVIOUS
  <1>1. ASSUME NEW c \in Clients, ClientStep(c) PROVE UNCHANGED vars
    BY <1>1
    DEF ClientStep, CreateRequest, Admit, CheckName, Refuse, RemoteCreate, RemoteCreateFails,
        InsertDatabase, InsertDatabaseLost, InsertDatabaseFails, Rollback, DeleteRequest, LookupHost,
        DropRemote, ForgetRow, ForgetRowFails
  <1>2. ASSUME NEW w \in Workers, CascadeStep(w) PROVE UNCHANGED vars \/ TeardownHook(w)
    BY <1>2 DEF CascadeStep, CascadeList, CascadeDrop, CascadeForget
  <1>3. CASE InstanceStep
    BY <1>3 DEF InstanceStep, Next, WorkerStep
  <1>4. CASE ProcessCrash
    BY <1>4 DEF ProcessCrash, Next
  <1>5. CASE UNCHANGED allVars
    BY <1>5 DEF allVars
  <1> QED BY <1>1, <1>2, <1>3, <1>4, <1>5 DEF MDNext, Next, WorkerStep

\* Every step preserves the invariant.
LEMMA MDNextInv == MDInv /\ IndInv /\ IndInv' /\ [MDNext]_allVars => MDInv'
  <1> SUFFICES ASSUME MDInv, IndInv, IndInv', [MDNext]_allVars PROVE MDInv'
    OBVIOUS
  <1>1. ASSUME NEW c \in Clients, ClientStep(c) PROVE MDInv'
    BY <1>1, CreateRequestInv, AdmitInv, CheckNameInv, RefuseInv, RemoteCreateInv,
       RemoteCreateFailsInv, InsertDatabaseInv, InsertDatabaseFailsInv, InsertDatabaseLostInv,
       RollbackInv, DeleteRequestInv, LookupHostInv, DropRemoteInv, ForgetRowInv, ForgetRowFailsInv DEF ClientStep
  <1>2. ASSUME NEW w \in Workers, CascadeStep(w) PROVE MDInv'
    BY <1>2, CascadeListInv, CascadeDropInv, CascadeForgetInv DEF CascadeStep
  <1>3. CASE UNCHANGED allVars
    BY <1>3
    DEF allVars, mdVars, vars, rows, control, MDInv, MDTypeOK, NamesUnique, Placed, Solo, Informed,
        KnowsItsName, BackedOrForgotten, Stored, Busy, Target, Named, Active
  <1> QED BY <1>1, <1>2, <1>3, InstanceStepInv, ProcessCrashInv DEF MDNext

\* The databases module leaves dbinstance what it is: whatever holds of every
\* behaviour of DbInstance holds of the composition.
THEOREM InstanceImplemented == MDSpec => Spec
  <1>1. MDInit => Init
    BY DEF MDInit
  <1> QED BY <1>1, InstanceUnderneath, PTL DEF MDSpec, Spec

\* Both invariants hold in every reachable state.
THEOREM DatabasesInvariant == MDSpec => [](IndInv /\ MDInv)
  <1>1. MDSpec => []IndInv
    BY InstanceImplemented, Invariance, PTL
  <1> QED BY <1>1, MDInitInv, MDNextInv, PTL DEF MDSpec

\* The variables of the composition keep their types.
THEOREM DatabasesTypeCorrect == MDSpec => []MDTypeOK
  <1>1. MDInv => MDTypeOK
    BY DEF MDInv
  <1> QED BY <1>1, DatabasesInvariant, PTL

\* Two requests never store the same name, though neither locks anything between
\* the check and the INSERT.
THEOREM OneDatabaseOfAName == MDSpec => []NamesUnique
  <1>1. MDInv => NamesUnique
    BY DEF MDInv
  <1> QED BY <1>1, DatabasesInvariant, PTL

\* A stored database of a running instance exists in its server, with the listed
\* exceptions: a rollback, a DELETE and the cascade drop nobody else's database.
THEOREM DatabaseExists == MDSpec => []Backed
  <1>1. ASSUME MDInv PROVE Backed
    <2>1. \A c \in Clients, d \in Stored : task[c].pc = "forget" /\ task[c].id = d =>
             <<task[c].inst, task[c].name>> = <<db[d].inst, db[d].name>>
      BY <1>1, DeletesItsRow DEF Target
    <2> QED
      BY <1>1, <2>1 DEF MDInv, BackedOrForgotten, Stored, Backed
  <1> QED BY <1>1, DatabasesInvariant, PTL

\* A step that deletes the row of a database is the DELETE of that row, or the
\* cascade of its own instance.
LEMMA TeardownStep ==
    ASSUME MDInv, IndInv, [MDNext]_allVars, NEW d \in Databases,
           db[d].status = "active", db'[d].status = "deleted"
    PROVE  \/ \E c \in Clients : task[c].pc = "forget" /\ task[c].id = d
           \/ /\ status[db[d].inst] # "running"
              /\ \E w \in Workers : pc[w] = "hook" /\ inst[w] = db[d].inst
  <1>1. ASSUME NEW c \in Clients, ClientStep(c)
        PROVE  task[c].pc = "forget" /\ task[c].id = d
    <2>1. CASE ForgetRow(c) \/ ForgetRowFails(c)
      BY <2>1 DEF ForgetRow, ForgetRowFails, Deleted
    <2>2. CASE ~(ForgetRow(c) \/ ForgetRowFails(c))
      <3>1. UNCHANGED db \/ \E e \in Databases : db' = [db EXCEPT ![e] = NewRow(task[c])]
        BY <1>1, <2>2
        DEF ClientStep, CreateRequest, Admit, CheckName, Refuse, RemoteCreate, RemoteCreateFails,
            InsertDatabase, InsertDatabaseLost, InsertDatabaseFails, Rollback, DeleteRequest,
            LookupHost, DropRemote
      <3> QED
        BY <3>1 DEF MDInv, MDTypeOK, NewRow
    <2> QED BY <2>1, <2>2
  <1>2. ASSUME NEW w \in Workers, CascadeStep(w)
        PROVE  status[db[d].inst] # "running" /\ pc[w] = "hook" /\ inst[w] = db[d].inst
    <2>1. CascadeForget(w) /\ pc[w] = "hook" /\ db' = Deleted(Active(inst[w]))
      BY <1>2 DEF CascadeStep, CascadeList, CascadeDrop, CascadeForget, TeardownHook
    <2>2. inst[w] = db[d].inst
      BY <2>1 DEF Deleted, Active
    <2>3. status[inst[w]] # "running"
      BY <2>1 DEF IndInv, Control, TearingDown
    <2> QED BY <2>1, <2>2, <2>3
  <1>3. CASE InstanceStep \/ ProcessCrash \/ UNCHANGED allVars
    BY <1>3 DEF InstanceStep, ProcessCrash, allVars, mdVars
  <1> QED BY <1>1, <1>2, <1>3 DEF MDNext

\* A row of metadata is deleted only by a DELETE of that row which is past its
\* attempt to drop the database (whether or not it was dropped), or by the cascade
\* of the row's own instance, which is not running then.
THEOREM MetadataDeletedByOwner == MDSpec => OnlyItsOwnTeardown
  <1>1. IndInv /\ MDInv /\ [MDNext]_allVars =>
          [\A d \in Databases :
              db[d].status = "active" /\ db'[d].status = "deleted" =>
                \/ \E c \in Clients : task[c].pc = "forget" /\ task[c].id = d
                \/ /\ status[db[d].inst] # "running"
                   /\ \E w \in Workers : pc[w] = "hook" /\ inst[w] = db[d].inst]_allVars
    BY TeardownStep
  <1> QED BY <1>1, DatabasesInvariant, PTL DEF MDSpec, OnlyItsOwnTeardown

-----------------------------------------------------------------------------
(* The capacity                                                            *)

\* Requests past the quota check whose row is still to come.
Admitted(i) == {c \in Clients : task[c].pc \in {"name", "remote", "insert"} /\ task[c].inst = i}

\* What the quota and one overrunning request per client come to.
Most == Capacity + MaxSize * (Cardinality(Clients) - 1)

\* What is stored, what one of the admitted requests brings and what the others
\* may bring at most stay within the bound.
Room ==
    \A i \in Instances :
        /\ IsFiniteSet(Units(Active(i)))
        /\ Allocated(i) <= Most
        /\ Admitted(i) # {} =>
              \E c \in Admitted(i) :
                  Allocated(i) + task[c].size + MaxSize * (Cardinality(Admitted(i)) - 1) <= Most

\* What a step may do to the space of instance i: bring nothing new, admit a
\* request within the quota, or store what an admitted request asked for.
Keeps(i) ==
    /\ Units(Active(i))' \subseteq Units(Active(i))
    /\ Admitted(i)' \subseteq Admitted(i)
    /\ \A c \in Admitted(i)' : task'[c].size = task[c].size
Admits(i) ==
    /\ Units(Active(i))' \subseteq Units(Active(i))
    /\ \E c \in Admitted(i)' : task'[c].size = task[c].size /\ Allocated(i) + task[c].size <= Capacity
Stores(i) ==
    \E c \in Admitted(i), d \in Databases :
        /\ Units(Active(i))' \subseteq Units(Active(i)) \cup ({d} \X (1 .. task[c].size))
        /\ Admitted(i)' = Admitted(i) \ {c}
        /\ \A e \in Admitted(i)' : task'[e].size = task[e].size

\* Multiplication by m is monotone, by steps of at least m.
LEMMA Times ==
    ASSUME NEW m \in Nat, NEW a \in Nat, NEW b \in Nat, a <= b
    PROVE  m * a \in Nat /\ m * b \in Nat /\ m * a <= m * b /\ (a < b => m * a + m <= m * b)
  <1>1. PICK k \in Nat : b = a + k
    <2>1. b - a \in Nat /\ b = a + (b - a)
      OBVIOUS
    <2> QED BY <2>1
  <1>2. m * b = m * a + m * k /\ m * a \in Nat /\ m * k \in Nat
    BY <1>1
  <1>3. k # 0 => m * k >= m
    <2> SUFFICES ASSUME k # 0 PROVE m * k >= m
      OBVIOUS
    <2>1. k - 1 \in Nat /\ m * k = m * (k - 1) + m /\ m * (k - 1) \in Nat
      OBVIOUS
    <2> QED BY <2>1
  <1> QED BY <1>1, <1>2, <1>3

\* A row adds at most its size.
LEMMA Grows ==
    ASSUME NEW U, IsFiniteSet(U), NEW d, NEW z \in Nat, NEW V, V \subseteq U \cup ({d} \X (1 .. z))
    PROVE  IsFiniteSet(V) /\ Cardinality(V) <= Cardinality(U) + z
  <1>1. IsFiniteSet({d} \X (1 .. z)) /\ Cardinality({d} \X (1 .. z)) = z
    <2>1. IsFiniteSet({d}) /\ Cardinality({d}) = 1
      BY FS_Singleton
    <2>2. IsFiniteSet(1 .. z) /\ Cardinality(1 .. z) = z
      BY FS_Interval
    <2>3. /\ IsFiniteSet({d} \X (1 .. z))
          /\ Cardinality({d} \X (1 .. z)) = Cardinality({d}) * Cardinality(1 .. z)
      BY <2>1, <2>2, FS_Product
    <2> QED BY <2>1, <2>2, <2>3
  <1> DEFINE W == {d} \X (1 .. z)
  <1>2. /\ IsFiniteSet(U \cup W)
        /\ Cardinality(U \cup W) = Cardinality(U) + Cardinality(W) - Cardinality(U \cap W)
        /\ IsFiniteSet(U \cap W)
    BY <1>1, FS_Union, FS_Intersection
  <1>3. Cardinality(U) \in Nat /\ Cardinality(U \cap W) \in Nat
    BY <1>2, FS_CardinalityType
  <1>4. IsFiniteSet(V) /\ Cardinality(V) <= Cardinality(U \cup W) /\ Cardinality(V) \in Nat
    BY <1>2, FS_Subset, FS_CardinalityType
  <1> QED BY <1>1, <1>2, <1>3, <1>4

\* A step that does one of the three to every instance stays within the bound.
LEMMA RoomStep ==
    ASSUME Room, MDTypeOK, MDTypeOK', \A i \in Instances : Keeps(i) \/ Admits(i) \/ Stores(i)
    PROVE  Room'
  <1> SUFFICES ASSUME NEW i \in Instances
               PROVE  (/\ IsFiniteSet(Units(Active(i)))
                       /\ Allocated(i) <= Most
                       /\ Admitted(i) # {} =>
                             \E c \in Admitted(i) :
                                 Allocated(i) + task[c].size + MaxSize * (Cardinality(Admitted(i)) - 1) <= Most)'
    BY DEF Room
  <1> DEFINE U == Units(Active(i))
             U2 == Units(Active(i))'
             P == Admitted(i)
             P2 == Admitted(i)'
             A == Allocated(i)
             A2 == Allocated(i)'
             p == Cardinality(Admitted(i))
             p2 == Cardinality(Admitted(i)')
             n == Cardinality(Clients)
             s(c) == task[c].size
             s2(c) == task'[c].size
             B == Most
             N == Capacity + MaxSize * (Cardinality(Clients) - 1)
  <1>1. /\ IsFiniteSet(U) /\ A = Cardinality(U) /\ A2 = Cardinality(U2) /\ A \in Nat
        /\ A <= B
        /\ P # {} => \E c \in P : A + s(c) + MaxSize * (p - 1) <= B
    BY FS_CardinalityType DEF Room, Allocated
  <1>2. /\ IsFiniteSet(P) /\ IsFiniteSet(P2) /\ p \in Nat /\ p2 \in Nat
        /\ (P # {} => p >= 1) /\ (P2 # {} => p2 >= 1) /\ p2 <= n /\ n \in Nat \ {0}
    <2>1. P \subseteq Clients /\ P2 \subseteq Clients
      BY DEF Admitted
    <2>2. /\ IsFiniteSet(P) /\ IsFiniteSet(P2) /\ p2 <= n /\ p \in Nat /\ p2 \in Nat /\ n \in Nat
      BY <2>1, ClientsAssumption, FS_Subset, FS_CardinalityType
    <2>3. (p = 0 <=> P = {}) /\ (p2 = 0 <=> P2 = {}) /\ n # 0
      BY <2>2, ClientsAssumption, FS_EmptySet
    <2> QED BY <2>2, <2>3
  <1>3. /\ \A c \in P : s(c) \in Nat /\ s(c) <= MaxSize
        /\ \A c \in P2 : s2(c) \in Nat /\ s2(c) <= MaxSize
        /\ MaxSize \in Nat /\ Capacity \in Nat
    BY SizesAssumption, CapacityAssumption, NoneAssumption DEF Admitted, MDTypeOK, Sizes, Idle
  <1>4. B = N /\ MaxSize * (n - 1) \in Nat /\ B \in Nat /\ B' = B
    <2>1. MaxSize * (n - 1) \in Nat
      BY <1>2, <1>3, Times
    <2> QED BY <1>3, <2>1 DEF Most
  <1> SUFFICES /\ IsFiniteSet(U2) /\ A2 <= B
               /\ P2 # {} => \E c \in P2 : A2 + s2(c) + MaxSize * (p2 - 1) <= B
    BY <1>4
  <1> HIDE DEF U, U2, P, P2, A, A2, p, p2, n, B, s, s2
  <1>5. CASE Keeps(i)
    <2>1. IsFiniteSet(U2) /\ A2 <= A /\ A2 \in Nat /\ p2 <= p /\ P2 \subseteq P
      BY <1>1, <1>2, <1>5, FS_Subset, FS_CardinalityType DEF Keeps, U, U2, P, P2, p, p2
    <2> SUFFICES ASSUME P2 # {} PROVE \E c \in P2 : A2 + s2(c) + MaxSize * (p2 - 1) <= B
      BY <1>1, <1>4, <2>1
    <2>2. PICK c \in P : A + s(c) + MaxSize * (p - 1) <= B
      BY <1>1, <2>1
    <2>3. p2 - 1 \in Nat /\ p - 1 \in Nat /\ p2 - 1 <= p - 1
      BY <1>2, <2>1
    <2>4. CASE c \in P2
      <3>1. s2(c) = s(c)
        BY <1>5, <2>4 DEF Keeps, P2, s, s2
      <3>2. MaxSize * (p2 - 1) \in Nat /\ MaxSize * (p - 1) \in Nat /\ MaxSize * (p2 - 1) <= MaxSize * (p - 1)
        BY <1>3, <2>3, Times
      <3> QED
        BY <1>1, <1>3, <1>4, <2>1, <2>2, <2>4, <3>1, <3>2
    <2>5. CASE c \notin P2
      <3>1. PICK e \in P2 : TRUE
        OBVIOUS
      <3>2. p2 < p
        <4>1. p2 = p => P2 = P
          BY <1>2, <2>1, FS_Subset DEF p, p2, P, P2
        <4> QED BY <1>2, <2>1, <2>5, <4>1
      <3>3. /\ MaxSize * (p2 - 1) \in Nat /\ MaxSize * (p - 1) \in Nat
            /\ MaxSize * (p2 - 1) + MaxSize <= MaxSize * (p - 1)
        <4>1. p2 - 1 < p - 1
          BY <1>2, <3>2
        <4> QED BY <1>3, <2>3, <4>1, Times
      <3> QED
        BY <1>1, <1>3, <1>4, <2>1, <2>2, <3>1, <3>3
    <2> QED BY <2>4, <2>5
  <1>6. CASE Admits(i)
    <2>1. IsFiniteSet(U2) /\ A2 <= A /\ A2 \in Nat
      BY <1>1, <1>6, FS_Subset, FS_CardinalityType DEF Admits, U, U2
    <2>2. PICK c \in P2 : s2(c) = s(c) /\ A + s(c) <= Capacity
      BY <1>6 DEF Admits, P2, s, s2, A
    <2>3. p2 - 1 \in Nat /\ n - 1 \in Nat /\ p2 - 1 <= n - 1
      BY <1>2
    <2>4. MaxSize * (p2 - 1) \in Nat /\ MaxSize * (p2 - 1) <= MaxSize * (n - 1)
      BY <1>3, <2>3, Times
    <2> QED
      BY <1>1, <1>3, <1>4, <2>1, <2>2, <2>4 DEF n
  <1>7. CASE Stores(i)
    <2>1. PICK c \in P, d \in Databases :
             /\ U2 \subseteq U \cup ({d} \X (1 .. s(c)))
             /\ P2 = P \ {c}
             /\ \A e \in P2 : s2(e) = s(e)
      BY <1>7 DEF Stores, U, U2, P, P2, s, s2
    <2>2. IsFiniteSet(U2) /\ A2 <= A + s(c) /\ A2 \in Nat /\ p2 = p - 1
      <3>1. IsFiniteSet(U2) /\ Cardinality(U2) <= Cardinality(U) + s(c)
        BY <1>1, <1>3, <2>1, Grows
      <3>2. Cardinality(P2) = Cardinality(P) - 1
        BY <1>2, <2>1, FS_RemoveElement
      <3> QED BY <1>1, <3>1, <3>2, FS_CardinalityType DEF p, p2, P, P2
    <2>3. PICK w \in P : A + s(w) + MaxSize * (p - 1) <= B
      BY <1>1
    <2>4. MaxSize * (p - 1) \in Nat
      BY <1>2, <1>3, Times
    <2>5. CASE w = c
      <3>1. A2 <= B
        BY <1>1, <1>3, <1>4, <2>2, <2>3, <2>4, <2>5
      <3>2. ASSUME NEW e \in P2 PROVE A2 + s2(e) + MaxSize * (p2 - 1) <= B
        <4>1. /\ MaxSize * (p2 - 1) \in Nat /\ MaxSize * (p2 - 1) + MaxSize <= MaxSize * (p - 1)
          <5>1. p2 - 1 \in Nat /\ p - 1 \in Nat /\ p2 - 1 < p - 1
            BY <1>2, <2>2
          <5> QED BY <1>3, <5>1, Times
        <4> QED
          BY <1>1, <1>3, <1>4, <2>2, <2>3, <2>4, <2>5, <4>1
      <3> QED BY <2>2, <3>1, <3>2
    <2>6. CASE w # c
      <3>1. w \in P2 /\ s2(w) = s(w)
        BY <2>1, <2>6
      <3>2. /\ MaxSize * (p2 - 1) \in Nat /\ MaxSize * (p2 - 1) + MaxSize <= MaxSize * (p - 1)
        <4>1. p2 - 1 \in Nat /\ p - 1 \in Nat /\ p2 - 1 < p - 1
          BY <1>2, <2>2, <3>1
        <4> QED BY <1>3, <4>1, Times
      <3> QED
        BY <1>1, <1>3, <1>4, <2>2, <2>3, <2>4, <3>1, <3>2
    <2> QED BY <2>5, <2>6
  <1> QED BY <1>5, <1>6, <1>7

\* A step that leaves the rows alone, and admits nobody, keeps the space.
LEMMA RoomKept ==
    ASSUME UNCHANGED db,
           \A c \in Clients :
              task'[c].pc \in {"name", "remote", "insert"} =>
                 task[c].pc \in {"name", "remote", "insert"} /\ task'[c].inst = task[c].inst /\ task'[c].size = task[c].size
    PROVE  \A i \in Instances : Keeps(i)
  BY DEF Keeps, Units, Active, Admitted

\* What a soft delete leaves takes no more space than before.
LEMMA RoomForgotten ==
    ASSUME MDTypeOK, NEW D, D \subseteq Stored, db' = Deleted(D)
    PROVE  \A i \in Instances : Units(Active(i))' \subseteq Units(Active(i))
  <1>1. \A d \in Databases : db'[d].size = db[d].size
    BY SoftDeleted
  <1>2. \A i \in Instances : Active(i)' \subseteq Active(i)
    BY SoftDeleted DEF Active
  <1>3. \A i \in Instances : Active(i) \subseteq Databases
    BY DEF Active
  <1> QED BY <1>1, <1>2, <1>3 DEF Units

\* A step of a request does one of the three to every instance.
LEMMA ClientRoom ==
    ASSUME MDInv, NEW c \in Clients, ClientStep(c)
    PROVE  \A i \in Instances : Keeps(i) \/ Admits(i) \/ Stores(i)
  <1>1. CASE Admit(c)
    <2>1. /\ \A e \in Clients \ {c} : task'[e] = task[e]
          /\ task'[c].pc = "name" /\ task'[c].inst = task[c].inst /\ task'[c].size = task[c].size
          /\ UNCHANGED db /\ Allocated(task[c].inst) + task[c].size <= Capacity
      BY <1>1 DEF Admit, Continue, MDInv, MDTypeOK, Idle
    <2>2. \A i \in Instances : Units(Active(i))' = Units(Active(i))
      BY <2>1 DEF Units, Active
    <2>3. \A i \in Instances : i # task[c].inst => Keeps(i)
      BY <2>1, <2>2 DEF Keeps, Admitted
    <2>4. \A i \in Instances : i = task[c].inst => Admits(i)
      BY <2>1, <2>2 DEF Admits, Admitted
    <2> QED BY <2>3, <2>4
  <1>2. ASSUME NEW d \in Databases, InsertDatabase(c, d) \/ InsertDatabaseLost(c, d)
        PROVE  \A i \in Instances : Keeps(i) \/ Admits(i) \/ Stores(i)
    <2>1. /\ \A e \in Clients \ {c} : task'[e] = task[e]
          /\ task[c].pc = "insert" /\ task'[c].pc \in {"idle", "rollback"}
          /\ db[d] = NoRow /\ db' = [db EXCEPT ![d] = NewRow(task[c])]
      BY <1>2 DEF InsertDatabase, InsertDatabaseLost, Finish, MDInv, MDTypeOK, Idle
    <2>2. /\ \A e \in Databases \ {d} : db'[e] = db[e]
          /\ db'[d].size = task[c].size /\ db'[d].inst = task[c].inst
      BY <2>1 DEF MDInv, MDTypeOK, NewRow
    <2>3. \A i \in Instances :
             Active(i)' \subseteq Active(i) \cup (IF i = task[c].inst THEN {d} ELSE {}) /\ d \notin Active(i)
      BY <2>1, <2>2 DEF Active, NoRow
    <2>4. \A i \in Instances : Units(Active(i))' \subseteq
             Units(Active(i)) \cup (IF i = task[c].inst THEN {d} \X (1 .. task[c].size) ELSE {})
      BY <2>2, <2>3 DEF Units, Active
    <2>5. \A i \in Instances : Admitted(i)' = Admitted(i) \ {c}
      BY <2>1 DEF Admitted
    <2>6. \A e \in Clients \ {c} : task'[e].size = task[e].size
      BY <2>1
    <2>7. \A i \in Instances : i # task[c].inst => Keeps(i)
      BY <2>4, <2>5, <2>6 DEF Keeps, Admitted
    <2>8. \A i \in Instances : i = task[c].inst => Stores(i)
      BY <2>1, <2>4, <2>5, <2>6 DEF Stores, Admitted
    <2> QED BY <2>7, <2>8
  <1>3. CASE (ForgetRow(c) \/ ForgetRowFails(c)) /\ ~UNCHANGED db
    <2>1. /\ \A e \in Clients \ {c} : task'[e] = task[e]
          /\ task'[c] = Idle
          /\ db' = Deleted({task[c].id} \cap Active(task[c].inst))
      BY <1>3 DEF ForgetRow, ForgetRowFails, Finish, MDInv, MDTypeOK
    <2>2. {task[c].id} \cap Active(task[c].inst) \subseteq Stored
      BY DEF Active, Stored
    <2>3. \A i \in Instances : Units(Active(i))' \subseteq Units(Active(i))
      BY <2>1, <2>2, RoomForgotten DEF MDInv
    <2> QED BY <2>1, <2>3 DEF Keeps, Admitted, Idle
  <1>4. CASE \/ \E i \in Instances, n \in Names, z \in Sizes : CreateRequest(c, i, n, z)
             \/ \E d \in Databases : DeleteRequest(c, d)
             \/ CheckName(c) \/ Refuse(c) \/ RemoteCreate(c) \/ RemoteCreateFails(c)
             \/ InsertDatabaseFails(c) \/ Rollback(c) \/ LookupHost(c) \/ DropRemote(c)
             \/ (ForgetRow(c) \/ ForgetRowFails(c)) /\ UNCHANGED db
    <2>1. /\ UNCHANGED db
          /\ \A e \in Clients \ {c} : task'[e] = task[e]
          /\ task'[c].pc \in {"name", "remote", "insert"} =>
                 /\ task[c].pc \in {"name", "remote", "insert"}
                 /\ task'[c].inst = task[c].inst /\ task'[c].size = task[c].size
      <3> USE DEF MDInv, MDTypeOK, Begin, Continue, Finish, Idle
      <3>1. ASSUME NEW i \in Instances, NEW n \in Names, NEW z \in Sizes, CreateRequest(c, i, n, z)
            PROVE  UNCHANGED db /\ (\A e \in Clients \ {c} : task'[e] = task[e]) /\ task'[c].pc = "admit"
        BY <3>1 DEF CreateRequest
      <3>2. ASSUME NEW d \in Databases, DeleteRequest(c, d)
            PROVE  /\ UNCHANGED db /\ \A e \in Clients \ {c} : task'[e] = task[e]
                   /\ task'[c].pc = "lookup"
        BY <3>2 DEF DeleteRequest
      <3>3. CASE Refuse(c) \/ RemoteCreateFails(c) \/ Rollback(c)
        BY <3>3 DEF Refuse, RemoteCreateFails, Rollback
      <3>4. CASE InsertDatabaseFails(c) \/ DropRemote(c) \/ LookupHost(c)
        BY <3>4 DEF InsertDatabaseFails, DropRemote, LookupHost
      <3>5. CASE RemoteCreate(c) \/ CheckName(c)
        BY <3>5 DEF RemoteCreate, CheckName
      <3>6. CASE (ForgetRow(c) \/ ForgetRowFails(c)) /\ UNCHANGED db
        BY <3>6 DEF ForgetRow, ForgetRowFails
      <3> QED BY <1>4, <3>1, <3>2, <3>3, <3>4, <3>5, <3>6
    <2> QED BY <2>1, RoomKept
  <1> QED BY <1>1, <1>2, <1>3, <1>4 DEF ClientStep

\* Every step does.
LEMMA NextRoom ==
    ASSUME MDInv, [MDNext]_allVars
    PROVE  \A i \in Instances : Keeps(i) \/ Admits(i) \/ Stores(i)
  <1>1. ASSUME NEW w \in Workers, CascadeForget(w) PROVE \A i \in Instances : Keeps(i)
    <2>1. Active(inst[w]) \subseteq Stored /\ Deleted({}) = db
      BY DEF Active, Stored, Deleted, MDInv, MDTypeOK
    <2>2. \E D : D \subseteq Stored /\ db' = Deleted(D)
      BY <1>1, <2>1 DEF CascadeForget
    <2>3. \A i \in Instances : Units(Active(i))' \subseteq Units(Active(i))
      BY <2>2, RoomForgotten DEF MDInv
    <2> QED BY <1>1, <2>3 DEF Keeps, Admitted, CascadeForget
  <1>2. ASSUME NEW w \in Workers, CascadeList(w) \/ \E d \in Databases : CascadeDrop(w, d)
        PROVE  \A i \in Instances : Keeps(i)
    <2>1. UNCHANGED <<db, task>>
      BY <1>2 DEF CascadeList, CascadeDrop
    <2> QED BY <2>1, RoomKept
  <1>3. CASE InstanceStep \/ ProcessCrash \/ UNCHANGED allVars
    <2>1. /\ UNCHANGED db
          /\ UNCHANGED task \/ task' = [c \in Clients |-> Idle]
      BY <1>3 DEF InstanceStep, ProcessCrash, allVars, mdVars
    <2> QED BY <2>1, RoomKept DEF Idle
  <1> QED BY <1>1, <1>2, <1>3, ClientRoom DEF MDNext, CascadeStep

\* Nothing is stored or admitted in the initial state.
LEMMA InitRoom == MDInit => Room
  <1> SUFFICES ASSUME MDInit, NEW i \in Instances
               PROVE  IsFiniteSet(Units(Active(i))) /\ Allocated(i) <= Most /\ Admitted(i) = {}
    BY DEF Room
  <1>1. Active(i) = {} /\ Admitted(i) = {}
    BY DEF MDInit, Active, Admitted, NoRow, Idle
  <1>2. Units(Active(i)) = {}
    BY <1>1 DEF Units
  <1>3. IsFiniteSet(Units(Active(i))) /\ Allocated(i) = 0
    BY <1>2, FS_EmptySet DEF Allocated
  <1>4. Cardinality(Clients) - 1 \in Nat
    BY ClientsAssumption, FS_CardinalityType, FS_EmptySet
  <1>5. Most \in Nat
    BY <1>4, SizesAssumption, CapacityAssumption, Times DEF Most
  <1> QED BY <1>1, <1>3, <1>5

\* Requests that are admitted together overrun the capacity, but by less than one
\* database of the largest size for each client.
THEOREM QuotaOverrun == MDSpec => []OverrunBounded
  <1>1. MDInv /\ MDInv' /\ Room /\ [MDNext]_allVars => Room'
    BY NextRoom, RoomStep DEF MDInv
  <1>2. Room => OverrunBounded
    BY DEF Room, OverrunBounded, Most
  <1> QED BY <1>1, <1>2, InitRoom, DatabasesInvariant, PTL DEF MDSpec
=============================================================================
