-------------------------- MODULE ManagedDatabases --------------------------
(***************************************************************************)
(* The databases module on top of the dbinstance module: POST and DELETE   *)
(* /databases against the PostgreSQL server of the live instance, and the  *)
(* cascade that the server wires into the teardown hook of dbinstance.     *)
(* The composition shares the variables of DbInstance: a request reads the *)
(* instance row, and the databases on a host go when the host goes.        *)
(***************************************************************************)
EXTENDS DbInstance, Naturals, FiniteSets

CONSTANTS
    Clients,     \* concurrent requests to /databases
    Databases,   \* rows of managed_databases
    Names,       \* database names
    MinSize,     \* MinSizeMB and MaxSizeMB, in some unit of space
    MaxSize,
    Capacity     \* StorageGb * 1000, in that unit

ASSUME SizesAssumption == MinSize \in Nat \ {0} /\ MaxSize \in Nat
ASSUME CapacityAssumption == Capacity \in Nat
ASSUME ClientsAssumption == IsFiniteSet(Clients) /\ Clients # {}

VARIABLES
    db,          \* rows of managed_databases
    remote,      \* databases that exist in the PostgreSQL server of an instance
    task,        \* per client: where its request is and what it carries
    pending,     \* per worker in the hook: rows it listed and has yet to drop
    cascading,   \* workers in the hook that have listed the rows
    suspect      \* history: names whose row and server may have parted

mdVars == <<db, remote, task, pending, cascading, suspect>>
allVars == <<vars, mdVars>>

\* Sizes that pass validation.
Sizes == MinSize .. MaxSize

NoRow == [status |-> "absent", inst |-> None, name |-> None, size |-> 0]
Idle == [pc |-> "idle", inst |-> None, name |-> None, size |-> 0, id |-> None]

\* Rows with status 'active' and deleted_at IS NULL; the code writes no status
\* but active and deleted.
Active(i) == {d \in Databases : db[d].status = "active" /\ db[d].inst = i}
Named(i, n) == {d \in Active(i) : db[d].name = n}

\* SUM(allocated_mb): the units of space of the rows in D, numbered row by row.
Units(D) == UNION {{d} \X (1 .. db[d].size) : d \in D}
Allocated(i) == Cardinality(Units(Active(i)))

\* The row reads running on both status axes.
Ready(i) == i \in Live /\ status[i] = "running" /\ container[i] = "running"

Creating == {"admit", "name", "remote", "insert", "rollback"}
Busy(c) == task[c].pc # "idle"

MDInit ==
    /\ Init
    /\ db = [d \in Databases |-> NoRow]
    /\ remote = [i \in Instances |-> {}]
    /\ task = [c \in Clients |-> Idle]
    /\ pending = [w \in Workers |-> {}]
    /\ cascading = {}
    /\ suspect = {}

-----------------------------------------------------------------------------
(* Control of a client                                                     *)

\* Two requests for one name in flight together make the name suspect.
Begin(c, t) ==
    /\ ~Busy(c)
    /\ task' = [task EXCEPT ![c] = t]
    /\ suspect' =
          IF \E e \in Clients : Busy(e) /\ task[e].inst = t.inst /\ task[e].name = t.name
          THEN suspect \cup {<<t.inst, t.name>>} ELSE suspect

Continue(c, label) == task' = [task EXCEPT ![c].pc = label] /\ UNCHANGED suspect
Finish(c) == task' = [task EXCEPT ![c] = Idle] /\ UNCHANGED suspect

Present(i, n) == [remote EXCEPT ![i] = @ \cup {n}]
Dropped(i, n) == [remote EXCEPT ![i] = @ \ {n}]

-----------------------------------------------------------------------------
(* POST /databases                                                         *)

\* Validated input, and an instance that is ready. Bound: one unused row is
\* left for each request in flight.
CreateRequest(c, i, n, z) ==
    /\ Ready(i)
    /\ Cardinality({e \in Clients : task[e].pc \in Creating})
          < Cardinality({d \in Databases : db[d] = NoRow})
    /\ Begin(c, [pc |-> "admit", inst |-> i, name |-> n, size |-> z, id |-> None])
    /\ UNCHANGED <<vars, db, remote, pending, cascading>>

\* Mutant: the quota check is off by the new database's own size.
AdmitIgnoringOwnSize(c) ==
    /\ task[c].pc = "admit"
    /\ Allocated(task[c].inst) <= Capacity
    /\ Continue(c, "name")
    /\ UNCHANGED <<vars, db, remote, pending, cascading>>

\* The quota check, on the sum of the sizes.
Admit(c) ==
    /\ task[c].pc = "admit"
    /\ Allocated(task[c].inst) + task[c].size <= Capacity
    /\ Continue(c, "name")
    /\ UNCHANGED <<vars, db, remote, pending, cascading>>

\* GetByName finds no row.
CheckName(c) ==
    /\ task[c].pc = "name"
    /\ Named(task[c].inst, task[c].name) = {}
    /\ Continue(c, "remote")
    /\ UNCHANGED <<vars, db, remote, pending, cascading>>

\* ErrQuotaExceeded, ErrAlreadyExists, or a read fails; no address; no password.
Refuse(c) ==
    /\ task[c].pc \in {"admit", "name"}
    /\ Finish(c)
    /\ UNCHANGED <<vars, db, remote, pending, cascading>>

\* CREATE DATABASE; one that already exists is taken over.
RemoteCreate(c) ==
    /\ task[c].pc = "remote"
    /\ cloud[task[c].inst] # "none"
    /\ remote' = Present(task[c].inst, task[c].name)
    /\ Continue(c, "insert")
    /\ UNCHANGED <<vars, db, pending, cascading>>

\* An error from the server, before CREATE DATABASE or after it: the request
\* returns at once and drops nothing.
RemoteCreateFails(c) ==
    /\ task[c].pc = "remote"
    /\ \/ UNCHANGED remote
       \/ cloud[task[c].inst] # "none" /\ remote' = Present(task[c].inst, task[c].name)
    /\ Finish(c)
    /\ UNCHANGED <<vars, db, pending, cascading>>

\* Mutant: a row starts in a status the code never leaves.
NewRowPending(t) == [status |-> "pending", inst |-> t.inst, name |-> t.name, size |-> t.size]

NewRow(t) == [status |-> "active", inst |-> t.inst, name |-> t.name, size |-> t.size]

\* Mutant: no unique index on (db_instance_id, name).
InsertDatabaseUnindexed(c, d) ==
    /\ task[c].pc = "insert"
    /\ db[d] = NoRow
    /\ db' = [db EXCEPT ![d] = NewRow(task[c])]
    /\ Finish(c)
    /\ UNCHANGED <<vars, remote, pending, cascading>>

InsertDatabase(c, d) ==
    /\ task[c].pc = "insert"
    /\ db[d] = NoRow
    /\ Named(task[c].inst, task[c].name) = {}
    /\ db' = [db EXCEPT ![d] = NewRow(task[c])]
    /\ Finish(c)
    /\ UNCHANGED <<vars, remote, pending, cascading>>

\* uq_managed_database_instance_name, or an error of the database; either way
\* the remote database is dropped next.
InsertDatabaseFails(c) ==
    /\ task[c].pc = "insert"
    /\ Named(task[c].inst, task[c].name) # {} \/ "db" \in Faults
    /\ Continue(c, "rollback")
    /\ UNCHANGED <<vars, db, remote, pending, cascading>>

\* The row is committed and its acknowledgement lost.
InsertDatabaseLost(c, d) ==
    /\ task[c].pc = "insert"
    /\ "db" \in Faults
    /\ db[d] = NoRow
    /\ Named(task[c].inst, task[c].name) = {}
    /\ db' = [db EXCEPT ![d] = NewRow(task[c])]
    /\ task' = [task EXCEPT ![c].pc = "rollback"]
    /\ suspect' = suspect \cup {<<task[c].inst, task[c].name>>}
    /\ UNCHANGED <<vars, remote, pending, cascading>>

\* The error of the rollback is discarded.
Rollback(c) ==
    /\ task[c].pc = "rollback"
    /\ remote' \in {remote, Dropped(task[c].inst, task[c].name)}
    /\ Finish(c)
    /\ UNCHANGED <<vars, db, pending, cascading>>

-----------------------------------------------------------------------------
(* DELETE /databases/:id                                                   *)

\* GetByID.
DeleteRequest(c, d) ==
    /\ db[d].status = "active"
    /\ Begin(c, [pc |-> "lookup", inst |-> db[d].inst, name |-> db[d].name, size |-> 0, id |-> d])
    /\ UNCHANGED <<vars, db, remote, pending, cascading>>

\* The database is not dropped on an instance that is not ready or cannot be
\* read, nor without an address and a password.
LookupHost(c) ==
    /\ task[c].pc = "lookup"
    /\ \/ Ready(task[c].inst) /\ Continue(c, "drop")
       \/ Continue(c, "forget")
    /\ UNCHANGED <<vars, db, remote, pending, cascading>>

\* Mutant: DELETE drops whatever database was created last.
DropElsewhere(c) ==
    /\ task[c].pc = "drop"
    /\ \E n \in remote[task[c].inst] : remote' = Dropped(task[c].inst, n)
    /\ Continue(c, "forget")
    /\ UNCHANGED <<vars, db, pending, cascading>>

\* DROP DATABASE; its error is only a warning.
DropRemote(c) ==
    /\ task[c].pc = "drop"
    /\ remote' \in {remote, Dropped(task[c].inst, task[c].name)}
    /\ Continue(c, "forget")
    /\ UNCHANGED <<vars, db, pending, cascading>>

Deleted(D) == [d \in Databases |-> IF d \in D THEN [db[d] EXCEPT !.status = "deleted"] ELSE db[d]]

ForgetRow(c) ==
    /\ task[c].pc = "forget"
    /\ db' = Deleted({task[c].id} \cap Active(task[c].inst))
    /\ Finish(c)
    /\ UNCHANGED <<vars, remote, pending, cascading>>

\* The statement errors, possibly after it committed.
ForgetRowFails(c) ==
    /\ task[c].pc = "forget"
    /\ "db" \in Faults
    /\ db' \in {db, Deleted({task[c].id} \cap Active(task[c].inst))}
    /\ task' = [task EXCEPT ![c] = Idle]
    /\ suspect' = suspect \cup {<<task[c].inst, task[c].name>>}
    /\ UNCHANGED <<vars, remote, pending, cascading>>

-----------------------------------------------------------------------------
(* TeardownInstanceDatabases, called by destroyAsync through the hook      *)

\* List the active databases; nothing is dropped without a host or a password.
CascadeList(w) ==
    /\ pc[w] = "hook" /\ w \notin cascading
    /\ \E D \in {Active(inst[w]), {}} : pending' = [pending EXCEPT ![w] = D]
    /\ cascading' = cascading \cup {w}
    /\ UNCHANGED <<vars, db, remote, task, suspect>>

CascadeDrop(w, d) ==
    /\ d \in pending[w]
    /\ pending' = [pending EXCEPT ![w] = @ \ {d}]
    /\ remote' \in {remote, Dropped(inst[w], db[d].name)}
    /\ UNCHANGED <<vars, db, task, cascading, suspect>>

\* SoftDeleteByInstanceID: also the rows that were inserted since the list. The
\* hook returns and the destroy goes on whether or not this worked.
CascadeForget(w) ==
    /\ w \in cascading /\ pending[w] = {}
    /\ \/ w \notin expired /\ db' = Deleted(Active(inst[w]))
       \/ DbFails(w) /\ UNCHANGED db
    /\ cascading' = cascading \ {w}
    /\ TeardownHook(w)
    /\ UNCHANGED <<remote, task, pending, suspect>>

-----------------------------------------------------------------------------

ClientStep(c) ==
    \/ \E i \in Instances, n \in Names, z \in Sizes : CreateRequest(c, i, n, z)
    \/ \E d \in Databases : DeleteRequest(c, d) \/ InsertDatabase(c, d) \/ InsertDatabaseLost(c, d)
    \/ Admit(c) \/ CheckName(c) \/ Refuse(c) \/ RemoteCreate(c) \/ RemoteCreateFails(c)
    \/ InsertDatabaseFails(c) \/ Rollback(c)
    \/ LookupHost(c) \/ DropRemote(c) \/ ForgetRow(c) \/ ForgetRowFails(c)

CascadeStep(w) ==
    \/ CascadeList(w) \/ CascadeForget(w)
    \/ \E d \in Databases : CascadeDrop(w, d)

\* A step of dbinstance; a host that goes takes its databases with it.
InstanceStep ==
    /\ \E w \in Workers : Request(w) \/ OwnStep(w) \/ Timeout(w)
    /\ remote' = [i \in Instances |-> IF cloud'[i] = "none" THEN {} ELSE remote[i]]
    /\ UNCHANGED <<db, task, pending, cascading, suspect>>

\* One process serves both modules.
ProcessCrash ==
    /\ Crash
    /\ task' = [c \in Clients |-> Idle]
    /\ pending' = [w \in Workers |-> {}]
    /\ cascading' = {}
    /\ suspect' = suspect \cup {<<task[c].inst, task[c].name>> : c \in {e \in Clients : Busy(e)}}
    /\ UNCHANGED <<db, remote>>

MDNext ==
    \/ \E c \in Clients : ClientStep(c)
    \/ \E w \in Workers : CascadeStep(w)
    \/ InstanceStep
    \/ ProcessCrash

MDSpec == MDInit /\ [][MDNext]_allVars

-----------------------------------------------------------------------------
(* Properties                                                              *)

\* Every variable stays in its domain, and only a worker inside the hook has
\* rows left to drop.
MDTypeOK ==
    /\ db \in [Databases -> {NoRow} \cup
                 [status : {"active", "deleted"}, inst : Instances, name : Names, size : Sizes]]
    /\ remote \in [Instances -> SUBSET Names]
    /\ task \in [Clients -> {Idle} \cup
                   [pc : Creating, inst : Instances, name : Names, size : Sizes, id : {None}] \cup
                   [pc : {"lookup", "drop", "forget"}, inst : Instances, name : Names, size : {0}, id : Databases]]
    /\ pending \in [Workers -> SUBSET Databases]
    /\ cascading \subseteq {w \in Workers : pc[w] = "hook"}
    /\ \A w \in Workers : pending[w] # {} => w \in cascading
    /\ suspect \subseteq Instances \X Names

\* One live database of a name per instance, though the check and the INSERT
\* are separate and the remote server is asked in between.
NamesUnique ==
    \A d, e \in Databases :
        db[d].status = "active" /\ db[e].status = "active"
          /\ db[d].inst = db[e].inst /\ db[d].name = db[e].name => d = e

\* The quota check and the INSERT are not atomic, so the quota can be overrun,
\* but only by the requests that were admitted before the last one was stored.
OverrunBounded ==
    \A i \in Instances :
        Allocated(i) <= Capacity + MaxSize * (Cardinality(Clients) - 1)

\* A stored database of a running instance exists in its server. The only ways
\* to part the two are two requests for one name in flight together, a row
\* written or kept after an error of the database, and a crash in between.
Backed ==
    \A d \in Databases :
        LET i == db[d].inst
            n == db[d].name
        IN  /\ db[d].status = "active"
            /\ status[i] = "running"
            /\ <<i, n>> \notin suspect
            /\ \A c \in Clients : <<task[c].inst, task[c].name>> # <<i, n>>
            => n \in remote[i]

\* A row of metadata is deleted only by a DELETE of that row which is past its
\* attempt to drop the database (it may have been skipped, or have failed), or in
\* the teardown hook of the row's own instance, which is not running then.
OnlyItsOwnTeardown ==
    [][\A d \in Databases :
          db[d].status = "active" /\ db'[d].status = "deleted" =>
            \/ \E c \in Clients : task[c].pc = "forget" /\ task[c].id = d
            \/ /\ status[db[d].inst] # "running"
               /\ \E w \in Workers : pc[w] = "hook" /\ inst[w] = db[d].inst]_allVars

\* "databases are dropped and metadata cleaned when instance is destroyed".
CascadeComplete == \A i \in deleted : Active(i) = {}
=============================================================================
