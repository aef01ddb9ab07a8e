-------------------------- MODULE RegistriesProofs --------------------------
(***************************************************************************)
(* Proofs about Registries, for any number of rows, names and requests and *)
(* any subset of the faults.                                               *)
(***************************************************************************)
EXTENDS Registries, TLAPS

Making == {"hub", "insert"}
Removing == {"unhub", "erase"}

\* A request that makes a registry has its identifier to itself and no row yet;
\* one that removes a registry carries the name in its row.
CarriesItsRow ==
    \A c \in Clients :
        /\ task[c].pc \in Making =>
              rows[task[c].id] = NoRow /\ \A e \in Clients \ {c} : task[e].id # task[c].id
        /\ task[c].pc = "hub" => task[c].id \notin parted
        /\ task[c].pc \in Removing =>
              rows[task[c].id] # NoRow /\ rows[task[c].id].name = task[c].name

\* uq_registry_provider_namespace_name.
NameUnique == \A r, s \in Live : rows[r].name = rows[s].name => r = s

\* Nobody but r is about to take what the hub has under n away.
NotTargeted(r, n) ==
    /\ \A e \in Clients : task[e].pc = "unhub" /\ task[e].name = n => task[e].id = r
    /\ \A x \in calls : ~(x.op = "delete" /\ x.name = n)

\* What a POST has made is still there when it comes to store the row, and nobody
\* competes for the name.
MadeIsKept ==
    \A c \in Clients :
        task[c].pc = "insert" /\ task[c].id \notin parted =>
            /\ hub[task[c].name] = task[c].id
            /\ Named(task[c].name) = {}
            /\ \A e \in Clients \ {c} : ~(task[e].pc = "insert" /\ task[e].name = task[c].name)
            /\ NotTargeted(task[c].id, task[c].name)

\* What a live row stands for is there until a DELETE of that row has removed it.
ListedIsKept ==
    \A r \in Live \ parted :
        /\ \/ hub[rows[r].name] = r
           \/ \E c \in Clients : task[c].pc = "erase" /\ task[c].id = r
        /\ NotTargeted(r, rows[r].name)

\* What the hub has is listed or about to be, and it is neither once the DELETE
\* has removed it.
KeptIsListed ==
    /\ \A n \in Names :
          hub[n] # None /\ hub[n] \notin parted =>
              \/ hub[n] \in Named(n)
              \/ \E c \in Clients :
                    task[c].pc = "insert" /\ task[c].id = hub[n] /\ task[c].name = n
    /\ \A c \in Clients :
          task[c].pc = "erase" /\ task[c].id \notin parted =>
              \A n \in Names : hub[n] # task[c].id

\* Requests that nobody waits for are known to have parted row and repository.
LateIsParted == \A x \in calls : x.id \in parted

\* The inductive invariant. Neither RegistryExists nor RepositoryListed is
\* inductive: the first needs that no other request aims at the name, the second
\* that an identifier is used by one POST.
GInv ==
    /\ GTypeOK /\ CarriesItsRow /\ NameUnique
    /\ MadeIsKept /\ ListedIsKept /\ KeptIsListed /\ LateIsParted

-----------------------------------------------------------------------------
(* POST /registries preserves the invariant.                                *)

\* The identifier a POST draws is held by nobody and stands for nothing.
LEMMA CheckNameInv ==
    ASSUME GInv, NEW c \in Clients, NEW n \in Names, NEW r \in Registries, CheckName(c, n, r)
    PROVE  GInv'
  <1> USE DEF GInv, CheckName
  <1>1. GTypeOK'
    BY SlugAssumption DEF GTypeOK
  <1>2. CarriesItsRow'
    BY DEF Removing, Unused, CarriesItsRow
  <1>3. NameUnique'
    BY DEF Live, NameUnique
  <1>4. MadeIsKept'
    BY DEF NotTargeted, Named, Live, MadeIsKept
  <1>5. ListedIsKept'
    BY DEF NotTargeted, Idle, Live, ListedIsKept
  <1>6. KeptIsListed'
    BY DEF Idle, Named, Live, KeptIsListed
  <1>7. LateIsParted'
    BY DEF LateIsParted
  <1> QED BY <1>1, <1>2, <1>3, <1>4, <1>5, <1>6, <1>7

\* What is made under a name that something else aims at is parted at once; the
\* rest is kept and not targeted.
LEMMA HubCreatesInv ==
    ASSUME GInv, NEW c \in Clients, HubCreates(c)
    PROVE  GInv'
  <1> USE DEF GInv, HubCreates, Goto, Part
  <1>1. GTypeOK'
    BY DEF Idle, GTypeOK
  <1>2. CarriesItsRow'
    BY DEF Removing, Making, GTypeOK, CarriesItsRow
  <1>3. NameUnique'
    BY DEF Live, NameUnique
  <1>4. MadeIsKept'
    BY NoneAssumption DEF NotTargeted, Idle, Named, Live, Aimed, GTypeOK, MadeIsKept
  <1>5. ListedIsKept'
    BY NoneAssumption DEF NotTargeted, Live, ListedIsKept
  <1>6. KeptIsListed'
    BY DEF Making, Named, Live, CarriesItsRow, GTypeOK, KeptIsListed
  <1>7. LateIsParted'
    BY DEF LateIsParted
  <1> QED BY <1>1, <1>2, <1>3, <1>4, <1>5, <1>6, <1>7

\* A refused POST leaves the identifier as it found it.
LEMMA HubRefusesInv ==
    ASSUME GInv, NEW c \in Clients, HubRefuses(c)
    PROVE  GInv'
  <1> USE DEF GInv, HubRefuses, Return
  <1>1. GTypeOK'
    BY DEF GTypeOK
  <1>2. CarriesItsRow'
    BY NoneAssumption DEF Removing, Making, Idle, GTypeOK, CarriesItsRow
  <1>3. NameUnique'
    BY DEF Live, NameUnique
  <1>4. MadeIsKept'
    BY DEF NotTargeted, Idle, Named, Live, MadeIsKept
  <1>5. ListedIsKept'
    BY DEF NotTargeted, Idle, Live, ListedIsKept
  <1>6. KeptIsListed'
    BY DEF Idle, Named, Live, KeptIsListed
  <1>7. LateIsParted'
    BY DEF LateIsParted
  <1> QED BY <1>1, <1>2, <1>3, <1>4, <1>5, <1>6, <1>7

\* The hub may still act on what is now parted.
LEMMA HubUnansweredInv ==
    ASSUME GInv, NEW c \in Clients, HubUnanswered(c)
    PROVE  GInv'
  <1> USE DEF GInv, HubUnanswered, Return, Part, Call
  <1>1. GTypeOK'
    BY DEF Idle, GTypeOK
  <1>2. CarriesItsRow'
    BY NoneAssumption DEF Removing, Making, Idle, GTypeOK, CarriesItsRow
  <1>3. NameUnique'
    BY DEF Live, NameUnique
  <1>4. MadeIsKept'
    BY DEF NotTargeted, Idle, Named, Live, MadeIsKept
  <1>5. ListedIsKept'
    BY DEF NotTargeted, Idle, Live, ListedIsKept
  <1>6. KeptIsListed'
    BY DEF Idle, Named, Live, KeptIsListed
  <1>7. LateIsParted'
    BY DEF LateIsParted
  <1> QED BY <1>1, <1>2, <1>3, <1>4, <1>5, <1>6, <1>7

\* The row that a POST stores takes over what MadeIsKept says of the POST.
LEMMA InsertRegistryInv ==
    ASSUME GInv, NEW c \in Clients, InsertRegistry(c)
    PROVE  GInv'
  <1> USE DEF GInv, InsertRegistry, Return
  <1>1. GTypeOK'
    BY DEF Idle, Statuses, GTypeOK
  <1>2. CarriesItsRow'
    BY NoneAssumption DEF Removing, Making, Idle, GTypeOK, CarriesItsRow
  <1>3. NameUnique'
    BY DEF Named, Live, NameUnique
  <1>4. MadeIsKept'
    BY DEF NotTargeted, Idle, Named, Live, GTypeOK, MadeIsKept
  <1>5. ListedIsKept'
    BY DEF NotTargeted, Idle, Live, MadeIsKept, ListedIsKept
  <1>6. KeptIsListed'
    BY DEF Making, NoRow, Idle, Named, Live, Statuses, CarriesItsRow, GTypeOK, KeptIsListed
  <1>7. LateIsParted'
    BY DEF LateIsParted
  <1> QED BY <1>1, <1>2, <1>3, <1>4, <1>5, <1>6, <1>7

\* The repository of the loser of a race is parted.
LEMMA InsertFailsInv ==
    ASSUME GInv, NEW c \in Clients, InsertFails(c)
    PROVE  GInv'
  <1> USE DEF GInv, InsertFails, Return, Part
  <1>1. GTypeOK'
    BY DEF Live, LateIsParted, MadeIsKept, GTypeOK
  <1>2. CarriesItsRow'
    BY NoneAssumption DEF Removing, Making, Idle, GTypeOK, CarriesItsRow
  <1>3. NameUnique'
    BY DEF Live, NameUnique
  <1>4. MadeIsKept'
    BY DEF NotTargeted, Idle, Named, Live, MadeIsKept
  <1>5. ListedIsKept'
    BY DEF NotTargeted, Idle, Live, ListedIsKept
  <1>6. KeptIsListed'
    BY DEF Idle, Named, Live, KeptIsListed
  <1>7. LateIsParted'
    BY DEF LateIsParted
  <1> QED BY <1>1, <1>2, <1>3, <1>4, <1>5, <1>6, <1>7

-----------------------------------------------------------------------------
(* PUT and DELETE /registries/:id preserve it.                              *)

\* A PUT changes neither the name nor whether the row is live.
LEMMA UpdateInv ==
    ASSUME GInv, NEW r \in Registries, NEW s \in Statuses, Update(r, s)
    PROVE  GInv'
  <1> USE DEF GInv, Update
  <1>1. GTypeOK'
    BY DEF NoRow, Live, Statuses, GTypeOK
  <1>2. CarriesItsRow'
    BY DEF NoRow, Live, Statuses, CarriesItsRow
  <1>3. NameUnique'
    BY DEF Live, NameUnique
  <1>4. MadeIsKept'
    BY DEF NotTargeted, Named, Live, MadeIsKept
  <1>5. ListedIsKept'
    BY DEF NotTargeted, Live, ListedIsKept
  <1>6. KeptIsListed'
    BY DEF Named, Live, KeptIsListed
  <1>7. LateIsParted'
    BY DEF LateIsParted
  <1> QED BY <1>1, <1>2, <1>3, <1>4, <1>5, <1>6, <1>7

\* The DELETE of a live row targets no other: names are unique.
LEMMA DeleteReadInv ==
    ASSUME GInv, NEW c \in Clients, NEW r \in Registries, DeleteRead(c, r)
    PROVE  GInv'
  <1> USE DEF GInv, DeleteRead
  <1>1. GTypeOK'
    BY DEF NoRow, Live, Statuses, GTypeOK
  <1>2. CarriesItsRow'
    BY DEF Making, NoRow, Live, Statuses, CarriesItsRow
  <1>3. NameUnique'
    BY DEF Live, NameUnique
  <1>4. MadeIsKept'
    BY DEF NotTargeted, Named, Live, MadeIsKept
  <1>5. ListedIsKept'
    BY DEF NotTargeted, Idle, Live, NameUnique, ListedIsKept
  <1>6. KeptIsListed'
    BY DEF Idle, Named, Live, KeptIsListed
  <1>7. LateIsParted'
    BY DEF LateIsParted
  <1> QED BY <1>1, <1>2, <1>3, <1>4, <1>5, <1>6, <1>7

\* What the hub removes is what the request was aimed at, or parted.
LEMMA HubDeletesInv ==
    ASSUME GInv, NEW c \in Clients, HubDeletes(c)
    PROVE  GInv'
  <1> USE DEF GInv, HubDeletes, Goto
  <1>1. GTypeOK'
    BY DEF Idle, GTypeOK
  <1>2. CarriesItsRow'
    BY DEF Removing, Making, CarriesItsRow
  <1>3. NameUnique'
    BY DEF Live, NameUnique
  <1>4. MadeIsKept'
    BY DEF NotTargeted, Making, Named, Live, CarriesItsRow, MadeIsKept
  <1>5. ListedIsKept'
    BY DEF NotTargeted, Live, GTypeOK, ListedIsKept
  <1>6. KeptIsListed'
    BY NoneAssumption DEF Removing, Making, Idle, Named, Live, CarriesItsRow, GTypeOK, KeptIsListed
  <1>7. LateIsParted'
    BY DEF LateIsParted
  <1> QED BY <1>1, <1>2, <1>3, <1>4, <1>5, <1>6, <1>7

\* A DELETE that the hub refuses leaves the row listed.
LEMMA HubDeleteFailsInv ==
    ASSUME GInv, NEW c \in Clients, HubDeleteFails(c)
    PROVE  GInv'
  <1> USE DEF GInv, HubDeleteFails, Return
  <1>1. GTypeOK'
    BY DEF GTypeOK
  <1>2. CarriesItsRow'
    BY NoneAssumption DEF Removing, Making, Idle, GTypeOK, CarriesItsRow
  <1>3. NameUnique'
    BY DEF Live, NameUnique
  <1>4. MadeIsKept'
    BY DEF NotTargeted, Idle, Named, Live, MadeIsKept
  <1>5. ListedIsKept'
    BY DEF NotTargeted, Idle, Live, ListedIsKept
  <1>6. KeptIsListed'
    BY DEF Idle, Named, Live, KeptIsListed
  <1>7. LateIsParted'
    BY DEF LateIsParted
  <1> QED BY <1>1, <1>2, <1>3, <1>4, <1>5, <1>6, <1>7

\* The row goes after its repository.
LEMMA SoftDeleteInv ==
    ASSUME GInv, NEW c \in Clients, SoftDelete(c)
    PROVE  GInv'
  <1> USE DEF GInv, SoftDelete, Return
  <1>1. GTypeOK'
    BY DEF NoRow, Live, Statuses, GTypeOK
  <1>2. CarriesItsRow'
    BY NoneAssumption DEF Removing, Making, NoRow, Idle, GTypeOK, CarriesItsRow
  <1>3. NameUnique'
    BY DEF Live, NameUnique
  <1>4. MadeIsKept'
    BY DEF NotTargeted, Idle, Named, Live, MadeIsKept
  <1>5. ListedIsKept'
    BY DEF NotTargeted, Idle, Live, Statuses, GTypeOK, ListedIsKept
  <1>6. KeptIsListed'
    BY DEF Idle, Named, Live, KeptIsListed
  <1>7. LateIsParted'
    BY DEF LateIsParted
  <1> QED BY <1>1, <1>2, <1>3, <1>4, <1>5, <1>6, <1>7

-----------------------------------------------------------------------------
(* Faults preserve it.                                                      *)

\* A request cut off parts what it worked on.
LEMMA CutInv ==
    ASSUME GInv, NEW c \in Clients, Cut(c)
    PROVE  GInv'
  <1> USE DEF GInv, Cut, Return, Part, Call
  <1>1. GTypeOK'
    BY DEF GTypeOK
  <1>2. CarriesItsRow'
    BY NoneAssumption DEF Removing, Making, Idle, GTypeOK, CarriesItsRow
  <1>3. NameUnique'
    BY DEF Live, NameUnique
  <1>4. MadeIsKept'
    BY DEF NotTargeted, Idle, Named, Live, MadeIsKept
  <1>5. ListedIsKept'
    BY DEF NotTargeted, Idle, Live, ListedIsKept
  <1>6. KeptIsListed'
    BY DEF Idle, Named, Live, KeptIsListed
  <1>7. LateIsParted'
    BY DEF LateIsParted
  <1> QED BY <1>1, <1>2, <1>3, <1>4, <1>5, <1>6, <1>7

\* A late call creates what is parted, and targets nothing that is not.
LEMMA LateCallInv ==
    ASSUME GInv, NEW x \in calls, LateCall(x)
    PROVE  GInv'
  <1> USE DEF GInv, LateCall
  <1>1. GTypeOK'
    BY DEF GTypeOK
  <1>2. CarriesItsRow'
    BY DEF CarriesItsRow
  <1>3. NameUnique'
    BY DEF Live, NameUnique
  <1>4. MadeIsKept'
    BY NoneAssumption DEF NotTargeted, Idle, Named, Live, GTypeOK, MadeIsKept
  <1>5. ListedIsKept'
    BY NoneAssumption DEF NotTargeted, Live, ListedIsKept
  <1>6. KeptIsListed'
    BY NoneAssumption DEF Idle, Named, Live, LateIsParted, GTypeOK, KeptIsListed
  <1>7. LateIsParted'
    BY DEF LateIsParted
  <1> QED BY <1>1, <1>2, <1>3, <1>4, <1>5, <1>6, <1>7

-----------------------------------------------------------------------------
(* The theorems                                                            *)

\* The initial state satisfies the invariant: the tables and the hub are empty.
LEMMA InitInv == GInit => GInv
  BY NoneAssumption
  DEF GInit, GInv, GTypeOK, CarriesItsRow, NameUnique, MadeIsKept, ListedIsKept, KeptIsListed,
      LateIsParted, Making, Removing, Idle, NoRow, Statuses, Live

\* Every step preserves it.
LEMMA NextInv == GInv /\ [GNext]_gVars => GInv'
  <1> SUFFICES ASSUME GInv, [GNext]_gVars PROVE GInv'
    OBVIOUS
  <1>1. ASSUME NEW c \in Clients, CreateRegistry(c) PROVE GInv'
    BY <1>1, CheckNameInv, HubCreatesInv, HubRefusesInv, HubUnansweredInv, InsertRegistryInv,
       InsertFailsInv DEF CreateRegistry
  <1>2. ASSUME NEW c \in Clients, DeleteRegistry(c) PROVE GInv'
    BY <1>2, DeleteReadInv, HubDeletesInv, HubDeleteFailsInv, SoftDeleteInv DEF DeleteRegistry
  <1>3. ASSUME NEW r \in Registries, NEW s \in Statuses, Update(r, s) PROVE GInv'
    BY <1>3, UpdateInv
  <1>4. ASSUME NEW c \in Clients, Cut(c) PROVE GInv'
    BY <1>4, CutInv
  <1>5. ASSUME NEW x \in calls, LateCall(x) PROVE GInv'
    BY <1>5, LateCallInv
  <1>6. CASE UNCHANGED gVars
    BY <1>6
    DEF gVars, GInv, GTypeOK, CarriesItsRow, NameUnique, MadeIsKept, ListedIsKept, KeptIsListed,
        LateIsParted, NotTargeted, Live, Named
  <1> QED BY <1>1, <1>2, <1>3, <1>4, <1>5, <1>6 DEF GNext

\* The invariant holds in every reachable state.
THEOREM RegistryInvariant == GSpec => []GInv
  <1> QED BY InitInv, NextInv, PTL DEF GSpec

\* The variables of the registry module keep their types.
THEOREM RegistryTypeCorrect == GSpec => []GTypeOK
  <1>1. GInv => GTypeOK
    BY DEF GInv
  <1> QED BY <1>1, RegistryInvariant, PTL

\* A live registry has its repository on Docker Hub, whatever else is requested
\* at the same time, unless one of the listed events parted them.
THEOREM RegistryHasRepository == GSpec => []RegistryExists
  <1>1. GInv => RegistryExists
    BY DEF GInv, ListedIsKept, RegistryExists, Touched
  <1> QED BY <1>1, RegistryInvariant, PTL

\* A repository the portal made can be found and deleted through its row, with
\* the same exceptions.
THEOREM RepositoryHasRegistry == GSpec => []RepositoryListed
  <1>1. GInv => RepositoryListed
    BY NoneAssumption DEF GInv, GTypeOK, KeptIsListed, RepositoryListed, Touched, Named
  <1> QED BY <1>1, RegistryInvariant, PTL
=============================================================================
