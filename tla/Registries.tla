----------------------------- MODULE Registries -----------------------------
(***************************************************************************)
(* The registry module: rows of registries that stand for repositories on  *)
(* Docker Hub. POST looks for a live row of the name, asks the hub and     *)
(* inserts the row last; DELETE asks the hub and soft deletes the row      *)
(* last, so the order that keeps the two together is the opposite of that  *)
(* of the repo module, and what a broken request leaves is a repository    *)
(* without a row.                                                          *)
(*                                                                         *)
(* Docker Hub is external. It keeps one repository under a name, refuses   *)
(* to create a second one, deletes by name (the client takes 404 for       *)
(* success), and may act on a request after the client has given up.       *)
(***************************************************************************)
EXTENDS FiniteSets

CONSTANTS
    Clients,      \* concurrent requests to /registries
    Registries,   \* identifiers of rows; a repository bears that of its request
    Names,        \* a Docker Hub namespace with a name
    Slug,         \* the name the hub gives to what is asked for under a name
    None,         \* no value
    Faults        \* subset of {"lost", "cut"}

ASSUME SlugAssumption == Slug \in [Names -> Names]
ASSUME NoneAssumption == None \notin Registries \cup Names

VARIABLES
    rows,     \* the table registries
    hub,      \* per name: the repository Docker Hub has, or None
    calls,    \* requests the hub may still act on, with nobody waiting
    task,     \* per client: where it is and what it carries
    parted    \* history: rows and repositories known to have been parted

gVars == <<rows, hub, calls, task, parted>>

NoRow == [status |-> "none", name |-> None]
Idle == [pc |-> "idle", id |-> None, name |-> None]
Statuses == {"active", "failed", "archived"}

\* WHERE deleted_at IS NULL.
Live == {r \in Registries : rows[r].status \in Statuses}
Named(n) == {r \in Live : rows[r].name = n}

GInit ==
    /\ rows = [r \in Registries |-> NoRow]
    /\ hub = [n \in Names |-> None]
    /\ calls = {}
    /\ task = [c \in Clients |-> Idle]
    /\ parted = {}

Goto(c, label) == task' = [task EXCEPT ![c].pc = label]
Return(c) == task' = [task EXCEPT ![c] = Idle]
Part(R) == parted' = parted \cup R
Call(op, c) == [op |-> op, id |-> task[c].id, name |-> task[c].name]

\* Something else will remove what the hub has under n, or come to a live row
\* whose DELETE will.
Aimed(n) ==
    \/ Named(n) # {}
    \/ \E e \in Clients : task[e].pc \in {"insert", "unhub"} /\ task[e].name = n
    \/ \E x \in calls : x.op = "delete" /\ x.name = n

Unused(r) == rows[r] = NoRow /\ (\A e \in Clients : task[e].id # r) /\ r \notin parted

-----------------------------------------------------------------------------
(* POST /registries                                                        *)

\* resolveNamespace, and GetRegistryByName finds none of the name asked for. From
\* there on the request carries the name of the hub's answer, which is the row's.
CheckName(c, n, r) ==
    /\ task[c] = Idle
    /\ Unused(r)
    /\ Named(n) = {}
    /\ task' = [task EXCEPT ![c] = [pc |-> "hub", id |-> r, name |-> Slug[n]]]
    /\ UNCHANGED <<rows, hub, calls, parted>>

HubCreates(c) ==
    /\ task[c].pc = "hub"
    /\ hub[task[c].name] = None
    /\ hub' = [hub EXCEPT ![task[c].name] = task[c].id]
    /\ Goto(c, "insert")
    /\ Part(IF Aimed(task[c].name) THEN {task[c].id} ELSE {})
    /\ UNCHANGED <<rows, calls>>

\* The login fails, the name exists on the hub, or the settings are rejected.
HubRefuses(c) ==
    /\ task[c].pc = "hub"
    /\ Return(c)
    /\ UNCHANGED <<rows, hub, calls, parted>>

\* The 15 s of the HTTP client pass, or the answer cannot be read.
HubUnanswered(c) ==
    /\ task[c].pc \in {"hub", "unhub"}
    /\ "lost" \in Faults
    /\ calls' = calls \cup {Call(IF task[c].pc = "hub" THEN "create" ELSE "delete", c)}
    /\ Return(c)
    /\ Part({task[c].id})
    /\ UNCHANGED <<rows, hub>>

\* uq_registry_provider_namespace_name admits one live row of a name.
InsertRegistry(c) ==
    /\ task[c].pc = "insert"
    /\ Named(task[c].name) = {}
    /\ rows' = [rows EXCEPT ![task[c].id] = [status |-> "active", name |-> task[c].name]]
    /\ Return(c)
    /\ UNCHANGED <<hub, calls, parted>>

\* ErrRegistryTaken: the repository just made stays on the hub.
InsertFails(c) ==
    /\ task[c].pc = "insert"
    /\ Named(task[c].name) # {}
    /\ Return(c)
    /\ Part({task[c].id})
    /\ UNCHANGED <<rows, hub, calls>>

-----------------------------------------------------------------------------
(* PUT and DELETE /registries/:id                                          *)

Update(r, s) ==
    /\ r \in Live
    /\ rows' = [rows EXCEPT ![r].status = s]
    /\ UNCHANGED <<hub, calls, task, parted>>

DeleteRead(c, r) ==
    /\ task[c] = Idle
    /\ r \in Live
    /\ task' = [task EXCEPT ![c] = [pc |-> "unhub", id |-> r, name |-> rows[r].name]]
    /\ UNCHANGED <<rows, hub, calls, parted>>

\* Whatever repository has the name by now; 404 is as good.
HubDeletes(c) ==
    /\ task[c].pc = "unhub"
    /\ hub' = [hub EXCEPT ![task[c].name] = None]
    /\ Goto(c, "erase")
    /\ UNCHANGED <<rows, calls, parted>>

\* Mutant: the row goes although the hub kept the repository.
HubDeleteErrorIgnored(c) ==
    /\ task[c].pc = "unhub"
    /\ Goto(c, "erase")
    /\ UNCHANGED <<rows, hub, calls, parted>>

HubDeleteFails(c) ==
    /\ task[c].pc = "unhub"
    /\ Return(c)
    /\ UNCHANGED <<rows, hub, calls, parted>>

\* Mutant: the soft delete clears the name with the row.
SoftDeleteAll(c) ==
    /\ task[c].pc = "erase"
    /\ rows' = IF task[c].id \in Live
               THEN [rows EXCEPT ![task[c].id] = [status |-> "deleted", name |-> None]] ELSE rows
    /\ Return(c)
    /\ UNCHANGED <<hub, calls, parted>>

\* Mutant: only an active registry is soft deleted.
SoftDeleteActive(c) ==
    /\ task[c].pc = "erase"
    /\ rows' = IF rows[task[c].id].status = "active"
               THEN [rows EXCEPT ![task[c].id].status = "deleted"] ELSE rows
    /\ Return(c)
    /\ UNCHANGED <<hub, calls, parted>>

\* No live row is ErrNotFound.
SoftDelete(c) ==
    /\ task[c].pc = "erase"
    /\ rows' = IF task[c].id \in Live THEN [rows EXCEPT ![task[c].id].status = "deleted"] ELSE rows
    /\ Return(c)
    /\ UNCHANGED <<hub, calls, parted>>

-----------------------------------------------------------------------------
(* Faults                                                                  *)

\* The client disconnects, the database fails, or the process ends.
Cut(c) ==
    /\ "cut" \in Faults
    /\ task[c] # Idle
    /\ Return(c)
    /\ \/ UNCHANGED calls
       \/ task[c].pc = "hub" /\ calls' = calls \cup {Call("create", c)}
       \/ task[c].pc = "unhub" /\ calls' = calls \cup {Call("delete", c)}
    /\ Part({task[c].id})
    /\ UNCHANGED <<rows, hub>>

\* The hub acts on a request nobody waits for.
LateCall(x) ==
    /\ calls' = calls \ {x}
    /\ hub' = IF x.op = "delete" THEN [hub EXCEPT ![x.name] = None]
              ELSE IF hub[x.name] = None THEN [hub EXCEPT ![x.name] = x.id]
              ELSE hub
    /\ UNCHANGED <<rows, task, parted>>

-----------------------------------------------------------------------------

CreateRegistry(c) ==
    \/ \E n \in Names, r \in Registries : CheckName(c, n, r)
    \/ HubCreates(c) \/ HubRefuses(c) \/ HubUnanswered(c)
    \/ InsertRegistry(c) \/ InsertFails(c)

DeleteRegistry(c) ==
    \/ \E r \in Registries : DeleteRead(c, r)
    \/ HubDeletes(c) \/ HubDeleteFails(c) \/ SoftDelete(c)

GNext ==
    \/ \E c \in Clients : CreateRegistry(c) \/ DeleteRegistry(c) \/ Cut(c)
    \/ \E r \in Registries, s \in Statuses : Update(r, s)
    \/ \E x \in calls : LateCall(x)

GSpec == GInit /\ [][GNext]_gVars

-----------------------------------------------------------------------------
(* Properties                                                              *)

\* Every variable stays in its domain, and a busy client has a row and a name.
GTypeOK ==
    /\ rows \in [Registries -> {NoRow} \cup [status : Statuses \cup {"deleted"}, name : Names]]
    /\ hub \in [Names -> Registries \cup {None}]
    /\ calls \subseteq [op : {"create", "delete"}, id : Registries, name : Names]
    /\ task \in [Clients -> {Idle} \cup
                   [pc : {"hub", "insert", "unhub", "erase"}, id : Registries, name : Names]]
    /\ parted \subseteq Registries

Touched(r) == \E c \in Clients : task[c].id = r

\* A live registry has its repository on the hub, unless a DELETE of it lost its
\* answer or was cut off, or a DELETE was already aimed at the name when the
\* repository was made: no DELETE of another row takes it away.
RegistryExists ==
    \A r \in Live \ parted : ~Touched(r) => hub[rows[r].name] = r

\* A repository the portal made has a live row, by which it can be deleted and
\* its name used again: no DELETE and no POST that the hub refuses leaves one
\* without. A POST does when it loses the hub's answer, is cut off before the
\* INSERT, or has met another row or request for the name it was given.
RepositoryListed ==
    \A n \in Names : LET r == hub[n] IN
        r # None /\ r \notin parted /\ ~Touched(r) => r \in Live /\ rows[r].name = n
=============================================================================
