------------------------- MODULE RepositoriesProofs -------------------------
(***************************************************************************)
(* Proofs about Repositories, for any sets of requests, rows, owners and   *)
(* names, any owners GitHub gives them and any faults.                     *)
(***************************************************************************)
EXTENDS Repositories, TLAPS

\* A request that has GitHub to ask carries the full name to ask about.
NamedTask ==
    \A c \in Clients :
        task[c].pc \in {"mark", "create", "activate", "unhub"} => task[c].full \in FullNames

\* What uq_repo_provider_owner_name guarantees.
KeysUnique == \A r, s \in Stored : r # s => rows[s].owner # rows[r].owner \/ rows[s].name # rows[r].name

\* A row that records a repository bears the owner GitHub gave it.
OwnerIsGitHubs == \A r \in Stored : rows[r].full # None => rows[r].owner = rows[r].full[1]

\* The inductive invariant: NamesakesAreRenamed needs the unique key and the
\* owner, which Activate changes and Update leaves.
RInv == RTypeOK /\ NamedTask /\ KeysUnique /\ OwnerIsGitHubs

-----------------------------------------------------------------------------

\* No row, no repository and no request.
LEMMA RInitInv == RInit => RInv
  BY DEF RInit, RInv, RTypeOK, NamedTask, KeysUnique, OwnerIsGitHubs, NoRow, Idle, Stored, Making

\* The UPDATE of a status leaves the key and the full name of every row.
LEMMA SetStatusRows ==
    ASSUME NEW r \in Repos, NEW s \in {"creating", "failed"}, SetStatus(r, s), RInv
    PROVE  /\ rows' \in [Repos -> {NoRow, [NoRow EXCEPT !.status = "gone"]} \cup
                   [status : {"pending", "creating", "active", "failed"} \cup Edits,
                    owner : Owners, name : Names, full : FullNames \cup {None}]]
           /\ Stored' = Stored
           /\ \A t \in Stored : rows'[t].owner = rows[t].owner /\ rows'[t].name = rows[t].name
                                  /\ rows'[t].full = rows[t].full
  BY DEF SetStatus, RInv, RTypeOK, Stored, NoRow

\* Only the request itself moves on, and the rows keep what the unique key and
\* GitHub's owner are about.
LEMMA RowsKept ==
    ASSUME RInv, RTypeOK', NamedTask', Stored' \subseteq Stored,
           \A t \in Stored' : rows'[t].owner = rows[t].owner /\ rows'[t].name = rows[t].name
                                /\ rows'[t].full = rows[t].full
    PROVE  RInv'
  BY DEF RInv, KeysUnique, OwnerIsGitHubs

\* The steps of POST.
LEMMA CreateInv ==
    ASSUME NEW c \in Clients, RInv, CreateRepo(c)
    PROVE  RInv'
  <1> USE DEF RTypeOK, NamedTask, Goto, Return, Part, Drop, Idle, Making
  <1>0. RTypeOK /\ NamedTask
    BY DEF RInv
  <1>1. ASSUME NEW r \in Repos, NEW o \in Owners, NEW n \in Wanted, Insert(c, r, o, n) PROVE RInv'
    <2>1. n \in Names /\ <<Login[o], Slug[n]>> \in FullNames
      BY LoginAssumption, SlugAssumption, WantedAssumption DEF FullNames
    <2>2. RTypeOK'
      BY <1>0, <1>1, <2>1 DEF Insert
    <2>3. NamedTask'
      BY <1>0, <1>1, <2>1 DEF Insert
    <2>4. /\ Stored' = Stored \cup {r} /\ r \notin Stored
          /\ \A t \in Stored : rows'[t] = rows[t]
          /\ rows'[r].owner = o /\ rows'[r].name = n /\ rows'[r].full = None
      BY <1>0, <1>1 DEF Insert, Stored, NoRow
    <2>5. KeyFree(r, o, n)
      BY <1>1 DEF Insert
    <2>6. KeysUnique'
      BY <2>4, <2>5 DEF KeysUnique, KeyFree, RInv
    <2>7. OwnerIsGitHubs'
      BY <2>4 DEF OwnerIsGitHubs, RInv
    <2> QED
      BY <2>2, <2>3, <2>6, <2>7 DEF RInv
  <1>2. CASE MarkCreating(c)
    <2>1. task[c].id \in Repos
      BY <1>0, <1>2 DEF MarkCreating
    <2>2. SetStatus(task[c].id, "creating")
      BY <1>2 DEF MarkCreating
    <2>3. /\ task' \in {[task EXCEPT ![c].pc = "create"], [task EXCEPT ![c] = Idle]}
          /\ task[c].pc = "mark" /\ UNCHANGED <<github, calls, parted, dropped, reopened>>
      BY <1>2 DEF MarkCreating
    <2>4. task' \in [Clients -> {Idle} \cup
                   [pc : Making \cup {"unhub", "erase"}, id : Repos, full : FullNames \cup {None}]]
      BY <1>0, <2>3
    <2>5. NamedTask'
      BY <1>0, <2>3
    <2>6. RTypeOK'
      <3> USE DEF RTypeOK
      <3> HIDE DEF Making, Idle
      <3> QED
        BY <1>0, <2>1, <2>2, <2>3, <2>4, SetStatusRows
    <2> QED
      BY <2>1, <2>2, <2>5, <2>6, SetStatusRows, RowsKept
  <1>3. CASE GitHubCreates(c) \/ GitHubRefuses(c) \/ GitHubUnanswered(c) \/ ActivateFails(c)
    <2>1. rows' = rows
      BY <1>3 DEF GitHubCreates, GitHubRefuses, GitHubUnanswered, ActivateFails
    <2>2. RTypeOK' /\ NamedTask'
      <3>1. CASE GitHubCreates(c)
        BY <1>0, <3>1 DEF GitHubCreates
      <3>2. CASE GitHubRefuses(c)
        BY <1>0, <3>2 DEF GitHubRefuses
      <3>3. CASE GitHubUnanswered(c)
        BY <1>0, <3>3 DEF GitHubUnanswered
      <3>4. CASE ActivateFails(c)
        BY <1>0, <3>4 DEF ActivateFails
      <3> QED
        BY <1>3, <3>1, <3>2, <3>3, <3>4
    <2> QED
      BY <2>1, <2>2, RowsKept DEF Stored
  <1>4. CASE Fail(c)
    <2>1. task[c].id \in Repos
      BY <1>0, <1>4 DEF Fail
    <2>2. SetStatus(task[c].id, "failed")
      BY <1>4 DEF Fail
    <2>3. RTypeOK' /\ NamedTask'
      BY <1>0, <1>4, <2>1, <2>2, SetStatusRows DEF Fail
    <2> QED
      BY <2>1, <2>2, <2>3, SetStatusRows, RowsKept
  <1>5. CASE Activate(c)
    <2> DEFINE r == task[c].id
               f == task[c].full
    <2>1. r \in Stored /\ r \in Repos /\ f \in FullNames /\ KeyFree(r, f[1], rows[r].name)
      BY <1>0, <1>5 DEF Activate, Stored
    <2>2. f[1] \in Owners
      BY <2>1 DEF FullNames
    <2>3. rows' = [rows EXCEPT ![r].status = "active", ![r].owner = f[1], ![r].full = f]
      BY <1>5 DEF Activate
    <2>4. rows[r] \in [status : {"pending", "creating", "active", "failed"} \cup Edits,
                        owner : Owners, name : Names, full : FullNames \cup {None}]
      BY <1>0, <2>1 DEF Stored, NoRow
    <2>5. /\ \A t \in Repos \ {r} : rows'[t] = rows[t]
          /\ rows'[r].owner = f[1] /\ rows'[r].name = rows[r].name /\ rows'[r].full = f
          /\ rows'[r].status = "active"
      BY <1>0, <2>1, <2>3, <2>4
    <2>6. rows' \in [Repos -> {NoRow, [NoRow EXCEPT !.status = "gone"]} \cup
                   [status : {"pending", "creating", "active", "failed"} \cup Edits,
                    owner : Owners, name : Names, full : FullNames \cup {None}]]
      BY <1>0, <2>1, <2>2, <2>3, <2>4
    <2>7. RTypeOK' /\ NamedTask'
      BY <1>0, <1>5, <2>6 DEF Activate
    <2>8. Stored' = Stored
      BY <2>1, <2>5 DEF Stored
    <2>9. KeysUnique'
      BY <2>1, <2>5, <2>8 DEF KeysUnique, KeyFree, RInv, Stored
    <2>10. OwnerIsGitHubs'
      BY <2>1, <2>5, <2>8 DEF OwnerIsGitHubs, RInv, Stored
    <2> QED
      BY <2>7, <2>9, <2>10 DEF RInv
  <1> QED
    BY <1>1, <1>2, <1>3, <1>4, <1>5 DEF CreateRepo

\* The UPDATE of PUT: the unique key decides, and the owner stays.
LEMMA UpdateInv ==
    ASSUME NEW r \in Repos, NEW n \in Names, NEW s \in Edits, RInv, Update(r, n, s)
    PROVE  RInv'
  <1>1. RTypeOK /\ r \in Stored /\ KeyFree(r, rows[r].owner, n)
    BY DEF Update, RInv
  <1>2. rows[r] \in [status : {"pending", "creating", "active", "failed"} \cup Edits,
                      owner : Owners, name : Names, full : FullNames \cup {None}]
    BY <1>1 DEF RTypeOK, Stored, NoRow
  <1>3. rows' = [rows EXCEPT ![r].name = n, ![r].status = s]
    BY DEF Update
  <1>4. /\ \A t \in Repos \ {r} : rows'[t] = rows[t]
        /\ rows'[r].owner = rows[r].owner /\ rows'[r].name = n /\ rows'[r].full = rows[r].full
        /\ rows'[r].status = s
    BY <1>1, <1>2, <1>3 DEF RTypeOK
  <1>5. rows' \in [Repos -> {NoRow, [NoRow EXCEPT !.status = "gone"]} \cup
                   [status : {"pending", "creating", "active", "failed"} \cup Edits,
                    owner : Owners, name : Names, full : FullNames \cup {None}]]
    BY <1>1, <1>2, <1>3 DEF RTypeOK
  <1>6. RTypeOK' /\ NamedTask'
    BY <1>1, <1>5 DEF Update, RInv, RTypeOK, NamedTask
  <1>7. Stored' = Stored
    BY <1>1, <1>4, EditsAssumption DEF Stored
  <1>8. KeysUnique'
    BY <1>1, <1>4, <1>7 DEF KeysUnique, KeyFree, RInv, Stored
  <1>9. OwnerIsGitHubs'
    BY <1>1, <1>4, <1>7 DEF OwnerIsGitHubs, RInv, Stored
  <1> QED
    BY <1>6, <1>8, <1>9 DEF RInv

\* The steps of DELETE: the row of the request goes, and no other changes.
LEMMA DeleteInv ==
    ASSUME NEW c \in Clients, RInv, DeleteRepo(c)
    PROVE  RInv'
  <1> USE DEF RTypeOK, NamedTask, Goto, Return, Part, Drop, Idle, Making
  <1>0. RTypeOK /\ NamedTask
    BY DEF RInv
  <1>1. CASE EraseRow(c)
    <2>1. task[c].id \in Repos
      BY <1>0, <1>1 DEF EraseRow
    <2>2. RTypeOK' /\ NamedTask'
      BY <1>0, <1>1, <2>1 DEF EraseRow
    <2>3. Stored' \subseteq Stored /\ \A t \in Stored' : rows'[t] = rows[t]
      BY <1>0, <1>1, <2>1 DEF EraseRow, Stored, NoRow
    <2> QED
      BY <2>2, <2>3, RowsKept
  <1>2. ASSUME NEW r \in Repos, DeleteRead(c, r) PROVE RInv'
    <2>1. rows[r].full # None => rows[r].full \in FullNames
      BY <1>0, <1>2 DEF DeleteRead, Stored, NoRow
    <2>2. RTypeOK' /\ NamedTask'
      BY <1>0, <1>2, <2>1 DEF DeleteRead
    <2> QED
      BY <1>2, <2>2, RowsKept DEF DeleteRead, Stored
  <1>3. ASSUME \/ GitHubDeletes(c) \/ GitHubDeleteFails(c) \/ GitHubDeleteUnanswered(c)
               \/ EraseRefused(c)
        PROVE  RInv'
    <2>1. RTypeOK' /\ NamedTask'
      <3>1. CASE GitHubDeletes(c)
        BY <1>0, <3>1 DEF GitHubDeletes
      <3>2. CASE GitHubDeleteFails(c)
        BY <1>0, <3>2 DEF GitHubDeleteFails
      <3>3. CASE GitHubDeleteUnanswered(c)
        BY <1>0, <3>3 DEF GitHubDeleteUnanswered
      <3>4. CASE EraseRefused(c)
        BY <1>0, <3>4 DEF EraseRefused
      <3> QED
        BY <1>3, <3>1, <3>2, <3>3, <3>4
    <2>2. rows' = rows
      BY <1>3 DEF GitHubDeletes, GitHubDeleteFails, GitHubDeleteUnanswered, EraseRefused
    <2> QED
      BY <2>1, <2>2, RowsKept DEF Stored
  <1> QED
    BY <1>1, <1>2, <1>3 DEF DeleteRepo

\* A request that is cut off, and GitHub acting late, touch no row.
LEMMA FaultInv ==
    ASSUME RInv, (\E c \in Clients : Cut(c)) \/ (\E x \in calls : LateCall(x))
    PROVE  RInv'
  <1> USE DEF RTypeOK, NamedTask
  <1>0. RTypeOK /\ NamedTask
    BY DEF RInv
  <1>1. ASSUME NEW c \in Clients, Cut(c) PROVE RTypeOK' /\ NamedTask' /\ rows' = rows
    BY <1>0, <1>1 DEF Cut, Return, Part, Drop, Idle, Making
  <1>2. ASSUME NEW x \in calls, LateCall(x) PROVE RTypeOK' /\ NamedTask' /\ rows' = rows
    <2>1. x.id \in Repos /\ x.full \in FullNames
      BY <1>0
    <2> QED
      BY <1>0, <1>2, <2>1 DEF LateCall
  <1> QED
    BY <1>1, <1>2, RowsKept DEF Stored

\* The invariant is inductive.
THEOREM RepositoryInvariant == RSpec => []RInv
  <1>1. RInv /\ [RNext]_rVars => RInv'
    <2> SUFFICES ASSUME RInv, [RNext]_rVars PROVE RInv'
      OBVIOUS
    <2>1. CASE UNCHANGED rVars
      BY <2>1 DEF rVars, RInv, RTypeOK, NamedTask, KeysUnique, OwnerIsGitHubs, Stored
    <2> QED
      BY <2>1, CreateInv, DeleteInv, UpdateInv, FaultInv DEF RNext
  <1> QED
    BY <1>1, RInitInv, PTL DEF RSpec

\* The variables of the repository module keep their types.
THEOREM RepositoryTypeCorrect == RSpec => []RTypeOK
  BY RepositoryInvariant, PTL DEF RInv

\* Two rows come to name one repository on GitHub only through a rename,
\* whatever owners GitHub gives to what the portal asks for.
THEOREM NamesakesRenamed == RSpec => []NamesakesAreRenamed
  <1>1. RInv => NamesakesAreRenamed
    BY DEF RInv, KeysUnique, OwnerIsGitHubs, NamesakesAreRenamed
  <1> QED
    BY <1>1, RepositoryInvariant, PTL

-----------------------------------------------------------------------------

\* Row r is unfinished now, and client c, if it works on r, does so after the step.
KeepsWork(r, c) ==
    /\ r \in Stored \ (dropped \cup reopened)
    /\ rows[r].status \in {"pending", "creating"}
    /\ \A e \in Clients \ {c} : task'[e] = task[e]
    /\ task[c].id = r /\ task[c].pc \in Making => task'[c].id = r /\ task'[c].pc \in Making

\* Then somebody works on it after the step.
LEMMA WorkKept ==
    ASSUME NEW r, NEW c \in Clients, UnfinishedIsWorkedOn, KeepsWork(r, c)
    PROVE  \E d \in Clients : task'[d].id = r /\ task'[d].pc \in Making
  <1>1. PICK d \in Clients : task[d].id = r /\ task[d].pc \in Making
    BY DEF UnfinishedIsWorkedOn, KeepsWork
  <1> QED
    BY <1>1 DEF KeepsWork

\* Whoever stops working on a row in pending or creating has settled it or is
\* one of the requests that could not.
LEMMA UnfinishedStep ==
    ASSUME RInv, UnfinishedIsWorkedOn, RNext
    PROVE  UnfinishedIsWorkedOn'
  <1> SUFFICES ASSUME NEW r \in Stored' \ (dropped' \cup reopened'), rows'[r].status \in {"pending", "creating"}
               PROVE  \E d \in Clients : task'[d].id = r /\ task'[d].pc \in Making
    BY DEF UnfinishedIsWorkedOn
  <1> DEFINE Worked == \E d \in Clients : task'[d].id = r /\ task'[d].pc \in Making
  <1> USE DEF Goto, Return, Part, Drop, Making, Idle
  <1>0. RTypeOK /\ r \in Repos
    BY DEF RInv, Stored
  <1>1. ASSUME NEW c \in Clients, NEW q \in Repos, NEW o \in Owners, NEW n \in Wanted,
               Insert(c, q, o, n)
        PROVE  Worked
    <2>1. r # q => KeepsWork(r, c)
      BY <1>0, <1>1 DEF Insert, KeepsWork, Stored, RTypeOK
    <2>2. r = q => Worked
      BY <1>0, <1>1 DEF Insert, RTypeOK
    <2> QED
      BY <2>1, <2>2, WorkKept
  <1>2. ASSUME NEW c \in Clients, MarkCreating(c) PROVE Worked
    <2>1. r # task[c].id => KeepsWork(r, c)
      BY <1>0, <1>2 DEF MarkCreating, SetStatus, KeepsWork, Stored, RTypeOK
    <2>2. r = task[c].id => Worked
      BY <1>0, <1>2 DEF MarkCreating, SetStatus, Stored, RTypeOK
    <2> QED
      BY <2>1, <2>2, WorkKept
  <1>3. ASSUME NEW c \in Clients,
               GitHubCreates(c) \/ GitHubRefuses(c) \/ GitHubUnanswered(c) \/ ActivateFails(c)
        PROVE  Worked
    <2>1. KeepsWork(r, c)
      BY <1>0, <1>3 DEF GitHubCreates, GitHubRefuses, GitHubUnanswered, ActivateFails,
         KeepsWork, Stored, RTypeOK
    <2> QED
      BY <2>1, WorkKept
  <1>4. ASSUME NEW c \in Clients, Fail(c) \/ Activate(c) PROVE Worked
    <2>1. task[c].id \in Repos
      BY <1>0, <1>4 DEF Fail, Activate, RTypeOK
    <2>2. r # task[c].id /\ rows'[r] = rows[r]
      <3>1. CASE Fail(c)
        <4>1. CASE task[c].id \in Stored
          BY <1>0, <3>1, <2>1, <4>1 DEF Fail, SetStatus, RTypeOK
        <4>2. CASE task[c].id \notin Stored
          BY <3>1, <4>2 DEF Fail, SetStatus, Stored
        <4> QED
          BY <4>1, <4>2
      <3>2. CASE Activate(c)
        BY <1>0, <3>2, <2>1 DEF Activate, RTypeOK
      <3> QED
        BY <1>4, <3>1, <3>2
    <2>3. KeepsWork(r, c)
      BY <1>0, <1>4, <2>2 DEF Fail, Activate, KeepsWork, Stored, RTypeOK
    <2> QED
      BY <2>3, WorkKept
  <1>5. ASSUME NEW q \in Repos, NEW n \in Names, NEW s \in Edits, Update(q, n, s) PROVE Worked
    <2>1. r # q /\ rows'[r] = rows[r]
      <3>1. r = q => rows'[r].status = s
        BY <1>0, <1>5 DEF Update, RTypeOK, Stored
      <3>2. s \in {"pending", "creating"} => q \in reopened'
        BY <1>5 DEF Update
      <3> QED
        BY <1>0, <1>5, <3>1, <3>2 DEF Update, RTypeOK, Stored
    <2>2. r \in Stored \ (dropped \cup reopened) /\ rows[r].status \in {"pending", "creating"}
      BY <1>0, <1>5, <2>1 DEF Update, Stored
    <2>3. PICK d \in Clients : task[d].id = r /\ task[d].pc \in Making
      BY <2>2 DEF UnfinishedIsWorkedOn
    <2> QED
      BY <1>5, <2>3 DEF Update
  <1>6. ASSUME NEW c \in Clients, DeleteRepo(c) PROVE Worked
    <2>1. task[c].pc \notin Making /\ UNCHANGED <<dropped, reopened>>
      BY <1>6 DEF DeleteRepo, DeleteRead, GitHubDeletes, GitHubDeleteFails, GitHubDeleteUnanswered,
         EraseRow, EraseRefused
    <2>2. \A e \in Clients \ {c} : task'[e] = task[e]
      BY <1>0, <1>6 DEF DeleteRepo, DeleteRead, GitHubDeletes, GitHubDeleteFails,
         GitHubDeleteUnanswered, EraseRow, EraseRefused, RTypeOK
    <2>3. r \in Stored /\ rows'[r] = rows[r]
      <3>1. CASE EraseRow(c)
        <4>1. task[c].id \in Repos
          BY <1>0, <3>1 DEF EraseRow, RTypeOK
        <4> QED
          BY <1>0, <3>1, <4>1 DEF EraseRow, Stored, RTypeOK, NoRow
      <3>2. CASE rows' = rows
        BY <3>2 DEF Stored
      <3> QED
        BY <1>6, <3>1, <3>2 DEF DeleteRepo, DeleteRead, GitHubDeletes, GitHubDeleteFails,
           GitHubDeleteUnanswered, EraseRefused
    <2>4. KeepsWork(r, c)
      BY <2>1, <2>2, <2>3 DEF KeepsWork
    <2> QED
      BY <2>4, WorkKept
  <1>7. ASSUME NEW c \in Clients, Cut(c) PROVE Worked
    <2>1. KeepsWork(r, c)
      BY <1>0, <1>7 DEF Cut, KeepsWork, Stored, RTypeOK
    <2> QED
      BY <2>1, WorkKept
  <1>8. ASSUME NEW x \in calls, LateCall(x) PROVE Worked
    <2>1. r \in Stored \ (dropped \cup reopened) /\ rows[r].status \in {"pending", "creating"}
      BY <1>8 DEF LateCall, Stored
    <2>2. PICK d \in Clients : task[d].id = r /\ task[d].pc \in Making
      BY <2>1 DEF UnfinishedIsWorkedOn
    <2> QED
      BY <1>8, <2>2 DEF LateCall
  <1> QED
    BY <1>1, <1>2, <1>3, <1>4, <1>5, <1>6, <1>7, <1>8 DEF RNext, CreateRepo

\* No row is left in pending or creating unobserved, whatever GitHub answers and
\* whatever a PUT asks for: but for the rows a PUT itself put there, and those
\* whose POST was cut off or refused by the unique key.
THEOREM UnfinishedWorkedOn == RSpec => []UnfinishedIsWorkedOn
  <1>1. RInit => UnfinishedIsWorkedOn
    BY DEF RInit, UnfinishedIsWorkedOn, Stored, NoRow
  <1>2. RInv /\ UnfinishedIsWorkedOn /\ [RNext]_rVars => UnfinishedIsWorkedOn'
    <2>1. ASSUME RInv, UnfinishedIsWorkedOn, UNCHANGED rVars PROVE UnfinishedIsWorkedOn'
      BY <2>1 DEF rVars, UnfinishedIsWorkedOn, Stored
    <2> QED
      BY <2>1, UnfinishedStep
  <1> QED
    BY <1>1, <1>2, RepositoryInvariant, PTL DEF RSpec

-----------------------------------------------------------------------------
(* Rows and the repositories on GitHub                                     *)

\* A busy request has a row in hand that has been stored once; what a DELETE asks
\* GitHub to remove is what that row records.
CarriesItsRow ==
    \A c \in Clients : task[c].pc # "idle" =>
        /\ rows[task[c].id] # NoRow
        /\ task[c].id \in Stored =>
              /\ task[c].pc \in Making => rows[task[c].id].full = None
              /\ task[c].pc = "unhub" => rows[task[c].id].full = task[c].full

\* A row is made by one request.
OneMaker ==
    \A c, e \in Clients :
        task[c].pc \in Making /\ task[e].pc \in Making /\ task[c].id = task[e].id => c = e

\* A row that is being made records nothing yet, and no DELETE is at work on it.
MadeAlone ==
    \A c \in Clients : task[c].pc \in Making /\ task[c].id \notin parted =>
        /\ task[c].id \in Stored /\ rows[task[c].id].full = None
        /\ \A e \in Clients : task[e].pc \in {"unhub", "erase"} => task[e].id # task[c].id

\* Nobody but r is about to take what GitHub has under f away, or to record it.
NotTargeted(f, r) ==
    /\ \A s \in Stored \ {r} : rows[s].full # f
    /\ \A e \in Clients : task[e].pc \in {"activate", "unhub"} /\ task[e].full = f => task[e].id = r
    /\ \A x \in calls : ~(x.op = "delete" /\ x.full = f)

\* What a POST has made is still there when it comes to record it.
MadeIsKept ==
    \A c \in Clients : task[c].pc = "activate" /\ task[c].id \notin parted =>
        github[task[c].full] = task[c].id /\ NotTargeted(task[c].full, task[c].id)

\* What a row records is there until a DELETE of that row has removed it.
RecordedIsKept ==
    \A r \in Stored \ parted : rows[r].full # None =>
        \/ github[rows[r].full] = r /\ NotTargeted(rows[r].full, r)
        \/ \E c \in Clients : task[c].pc = "erase" /\ task[c].id = r

\* What GitHub has is recorded, or about to be by the POST that made it, or its row
\* is still there, since that POST ended early.
KeptIsRecorded ==
    \A f \in FullNames : github[f] # None /\ github[f] \notin parted =>
        \/ github[f] \in Stored /\ rows[github[f]].full = f
        \/ github[f] \in Stored \cap dropped /\ rows[github[f]].full = None
        \/ \E c \in Clients :
              task[c].pc = "activate" /\ task[c].id = github[f] /\ task[c].full = f

\* A row about to be erased has no repository any more.
ErasedIsGone ==
    \A c \in Clients : task[c].pc = "erase" /\ task[c].id \notin parted =>
        \A f \in FullNames : github[f] # task[c].id

\* What nobody waits for any more is known to have parted row and repository.
LateIsParted == \A x \in calls : x.id \in parted

\* A POST that ended early is the last to have worked on its row.
DroppedIsLeft ==
    \A r \in dropped : /\ rows[r] # NoRow
                       /\ \A c \in Clients : task[c].pc \in Making => task[c].id # r

\* The inductive invariant about GitHub, beside RInv. RecordedExists is not
\* inductive: that GitHub deletes under one full name needs NotTargeted, and
\* that a row is erased after its repository needs ErasedIsGone.
HInv ==
    /\ CarriesItsRow /\ OneMaker /\ MadeAlone /\ MadeIsKept /\ RecordedIsKept
    /\ KeptIsRecorded /\ ErasedIsGone /\ LateIsParted /\ DroppedIsLeft

-----------------------------------------------------------------------------
(* POST, PUT and DELETE of /repos preserve the invariant                   *)

\* A new row records nothing, and nobody else is at work on it.
LEMMA InsertKept ==
    ASSUME RInv, RInv', HInv, NEW c \in Clients, NEW r \in Repos, NEW o \in Owners,
           NEW n \in Wanted, Insert(c, r, o, n)
    PROVE  HInv'
  <1>a. /\ \A e \in Clients \ {c} : task'[e] = task[e]
        /\ task'[c] = [pc |-> "mark", id |-> r, full |-> <<Login[o], Slug[n]>>]
        /\ task[c].pc = "idle" /\ UNCHANGED <<github, calls, parted, dropped>>
    BY DEF Insert, Idle, RInv, RTypeOK
  <1>b. /\ \A t \in Repos \ {r} : rows'[t] = rows[t]
        /\ rows[r] = NoRow /\ rows'[r].full = None /\ rows'[r] # NoRow
        /\ Stored' = Stored \cup {r} /\ r \notin Stored
    BY DEF Insert, NoRow, Stored, RInv, RTypeOK
  <1>t. /\ Stored \cup dropped \subseteq Repos
        /\ \A e \in Clients : task[e].pc # "idle" => task[e].id \in Repos
        /\ \A f \in FullNames : github[f] \in Repos \cup {None}
        /\ \A e \in Clients : task[e].pc \in {"activate", "unhub"} => task[e].full \in FullNames
        /\ None \notin FullNames /\ None \notin Repos
        /\ \A t \in Stored : rows[t].full \in FullNames \cup {None} /\ rows[t] # NoRow
    BY NoneAssumption DEF FullNames, NamedTask, Stored, NoRow, Idle, RInv, RTypeOK
  <1>1. CarriesItsRow'
    BY <1>a, <1>b, <1>t DEF HInv, Idle, CarriesItsRow
  <1>2. OneMaker'
    BY <1>a, <1>b, <1>t DEF HInv, Making, Idle, CarriesItsRow, OneMaker
  <1>3. MadeAlone'
    BY <1>a, <1>b, <1>t DEF HInv, Idle, CarriesItsRow, MadeAlone
  <1>4. MadeIsKept'
    BY <1>a, <1>b, <1>t DEF HInv, Idle, NotTargeted, MadeIsKept
  <1>5. RecordedIsKept'
    BY <1>a, <1>b, <1>t DEF HInv, Idle, NotTargeted, RecordedIsKept
  <1>6. KeptIsRecorded'
    BY <1>a, <1>b, <1>t DEF HInv, Idle, KeptIsRecorded
  <1>7. ErasedIsGone'
    BY <1>a, <1>b, <1>t DEF HInv, Idle, ErasedIsGone
  <1>8. LateIsParted'
    BY <1>a, <1>b, <1>t DEF HInv, LateIsParted
  <1>9. DroppedIsLeft'
    BY <1>a, <1>b, <1>t DEF HInv, Making, Idle, DroppedIsLeft
  <1> QED BY <1>1, <1>2, <1>3, <1>4, <1>5, <1>6, <1>7, <1>8, <1>9 DEF HInv

\* Until GitHub has answered, a POST changes nothing but its own row's status.
LEMMA RequestKept ==
    ASSUME RInv, RInv', HInv, NEW c \in Clients,
           MarkCreating(c) \/ GitHubRefuses(c) \/ GitHubUnanswered(c) \/ Fail(c)
    PROVE  HInv'
  <1>a. /\ \A e \in Clients \ {c} : task'[e] = task[e]
        /\ task[c].pc \in {"mark", "create", "fail"}
        /\ \/ task'[c] = Idle
           \/ task'[c].pc \in {"create", "fail"} /\ task'[c].id = task[c].id /\ task'[c].full = task[c].full
    BY DEF MarkCreating, GitHubRefuses, GitHubUnanswered, Fail, Goto, Return, RInv, RTypeOK
  <1>b. /\ UNCHANGED <<github, dropped>> /\ parted \subseteq parted'
        /\ \A x \in calls' \ calls : x.op = "create" /\ x.id \in parted'
    BY DEF MarkCreating, GitHubRefuses, GitHubUnanswered, Fail, Part
  <1>c. /\ Stored' = Stored
        /\ \A t \in Repos : rows'[t].full = rows[t].full /\ (rows'[t] = NoRow <=> rows[t] = NoRow)
    <2>1. task[c].id \in Repos
      BY <1>a DEF RInv, RTypeOK, Idle
    <2>2. rows' = rows \/ \E s \in {"creating", "failed"} : SetStatus(task[c].id, s)
      BY DEF MarkCreating, GitHubRefuses, GitHubUnanswered, Fail
    <2>3. CASE rows' = rows
      BY <2>3 DEF Stored
    <2>4. ASSUME NEW s \in {"creating", "failed"}, SetStatus(task[c].id, s), task[c].id \in Stored
          PROVE  /\ Stored' = Stored
                 /\ \A t \in Repos : rows'[t].full = rows[t].full /\ (rows'[t] = NoRow <=> rows[t] = NoRow)
      <3>1. rows' = [rows EXCEPT ![task[c].id].status = s]
        BY <2>4 DEF SetStatus
      <3>2. /\ \A t \in Repos \ {task[c].id} : rows'[t] = rows[t]
            /\ rows'[task[c].id].full = rows[task[c].id].full /\ rows'[task[c].id].status = s
        BY <2>1, <2>4, <3>1 DEF RInv, RTypeOK
      <3> QED
        BY <2>1, <2>4, <3>2 DEF Stored, NoRow
    <2> QED
      BY <2>2, <2>3, <2>4 DEF SetStatus
  <1>t. /\ Stored \cup dropped \subseteq Repos
        /\ \A e \in Clients : task[e].pc # "idle" => task[e].id \in Repos
        /\ \A f \in FullNames : github[f] \in Repos \cup {None}
        /\ \A e \in Clients : task[e].pc \in {"activate", "unhub"} => task[e].full \in FullNames
        /\ None \notin FullNames /\ None \notin Repos
        /\ \A t \in Stored : rows[t].full \in FullNames \cup {None} /\ rows[t] # NoRow
    BY NoneAssumption DEF FullNames, NamedTask, Stored, NoRow, Idle, RInv, RTypeOK
  <1>1. CarriesItsRow'
    BY <1>a, <1>b, <1>c, <1>t DEF HInv, Idle, Making, CarriesItsRow
  <1>2. OneMaker'
    BY <1>a, <1>b, <1>c, <1>t DEF HInv, Making, Idle, OneMaker
  <1>3. MadeAlone'
    BY <1>a, <1>b, <1>c, <1>t DEF HInv, Making, Idle, MadeAlone
  <1>4. MadeIsKept'
    BY <1>a, <1>b, <1>c, <1>t DEF HInv, Idle, NotTargeted, MadeIsKept
  <1>5. RecordedIsKept'
    BY <1>a, <1>b, <1>c, <1>t DEF HInv, Idle, NotTargeted, RecordedIsKept
  <1>6. KeptIsRecorded'
    BY <1>a, <1>b, <1>c, <1>t DEF HInv, KeptIsRecorded
  <1>7. ErasedIsGone'
    BY <1>a, <1>b, <1>c, <1>t DEF HInv, Idle, ErasedIsGone
  <1>8. LateIsParted'
    BY <1>a, <1>b, <1>c, <1>t DEF HInv, LateIsParted
  <1>9. DroppedIsLeft'
    BY <1>a, <1>b, <1>c, <1>t DEF HInv, Making, Idle, DroppedIsLeft
  <1> QED BY <1>1, <1>2, <1>3, <1>4, <1>5, <1>6, <1>7, <1>8, <1>9 DEF HInv

\* What is made under a full name that something else aims at is parted at once; the
\* rest is kept and not targeted.
LEMMA CreatesKept ==
    ASSUME RInv, RInv', HInv, NEW c \in Clients, GitHubCreates(c)
    PROVE  HInv'
  <1>a. /\ \A e \in Clients \ {c} : task'[e] = task[e]
        /\ task[c].pc = "create" /\ task'[c].pc = "activate"
        /\ task'[c].id = task[c].id /\ task'[c].full = task[c].full
        /\ UNCHANGED <<rows, calls, dropped>>
    BY DEF GitHubCreates, Goto, RInv, RTypeOK
  <1>b. /\ task[c].full \in FullNames /\ task[c].id \in Repos /\ github[task[c].full] = None
        /\ github'[task[c].full] = task[c].id
        /\ \A f \in FullNames \ {task[c].full} : github'[f] = github[f]
    BY <1>a DEF GitHubCreates, RInv, RTypeOK
  <1>c. /\ parted \subseteq parted'
        /\ task[c].id \notin parted' => ~Aimed(task[c].full, task[c].id)
    BY DEF GitHubCreates, Part
  <1>t. /\ Stored \cup dropped \subseteq Repos
        /\ \A e \in Clients : task[e].pc # "idle" => task[e].id \in Repos
        /\ \A f \in FullNames : github[f] \in Repos \cup {None}
        /\ \A e \in Clients : task[e].pc \in {"activate", "unhub"} => task[e].full \in FullNames
        /\ None \notin FullNames /\ None \notin Repos
        /\ \A t \in Stored : rows[t].full \in FullNames \cup {None} /\ rows[t] # NoRow
    BY NoneAssumption DEF FullNames, NamedTask, Stored, NoRow, Idle, RInv, RTypeOK
  <1>1. CarriesItsRow'
    BY <1>a, <1>b, <1>c, <1>t DEF HInv, Stored, Idle, Making, CarriesItsRow
  <1>2. OneMaker'
    BY <1>a, <1>b, <1>c, <1>t DEF HInv, Making, Idle, OneMaker
  <1>3. MadeAlone'
    BY <1>a, <1>b, <1>c, <1>t DEF HInv, Making, Idle, Stored, MadeAlone
  <1>4. MadeIsKept'
    BY <1>a, <1>b, <1>c, <1>t DEF HInv, Idle, Stored, NotTargeted, Aimed, MadeIsKept
  <1>5. RecordedIsKept'
    BY <1>a, <1>b, <1>c, <1>t DEF HInv, Idle, Stored, NotTargeted, RecordedIsKept
  <1>6. KeptIsRecorded'
    BY <1>a, <1>b, <1>c, <1>t DEF HInv, Idle, Stored, KeptIsRecorded
  <1>7. ErasedIsGone'
    BY <1>a, <1>b, <1>c, <1>t DEF HInv, Making, Idle, MadeAlone, ErasedIsGone
  <1>8. LateIsParted'
    BY <1>a, <1>b, <1>c, <1>t DEF HInv, LateIsParted
  <1>9. DroppedIsLeft'
    BY <1>a, <1>b, <1>c, <1>t DEF HInv, Making, DroppedIsLeft
  <1> QED BY <1>1, <1>2, <1>3, <1>4, <1>5, <1>6, <1>7, <1>8, <1>9 DEF HInv

\* The row that a POST activates takes over what MadeIsKept says of the POST.
LEMMA ActivatesKept ==
    ASSUME RInv, RInv', HInv, NEW c \in Clients, Activate(c)
    PROVE  HInv'
  <1>a. /\ \A e \in Clients \ {c} : task'[e] = task[e]
        /\ task[c].pc = "activate" /\ task'[c] = Idle
        /\ UNCHANGED <<github, calls, parted, dropped>>
    BY DEF Activate, Return, RInv, RTypeOK
  <1>b. /\ task[c].full \in FullNames /\ task[c].id \in Stored /\ task[c].id \in Repos
        /\ Stored' = Stored
        /\ \A t \in Repos \ {task[c].id} : rows'[t] = rows[t]
        /\ rows'[task[c].id].full = task[c].full /\ rows'[task[c].id] # NoRow
    <2> DEFINE r == task[c].id
    <2>1. rows' = [rows EXCEPT ![r].status = "active", ![r].owner = task[c].full[1], ![r].full = task[c].full]
      BY DEF Activate
    <2>2. r \in Stored /\ r \in Repos /\ task[c].full \in FullNames
      BY <1>a DEF Activate, Stored, RInv, NamedTask
    <2>3. /\ \A t \in Repos \ {r} : rows'[t] = rows[t]
          /\ rows'[r].full = task[c].full /\ rows'[r].status = "active"
      BY <2>1, <2>2 DEF RInv, RTypeOK, Stored, NoRow
    <2> QED
      BY <2>2, <2>3 DEF Stored, NoRow
  <1>t. /\ Stored \cup dropped \subseteq Repos
        /\ \A e \in Clients : task[e].pc # "idle" => task[e].id \in Repos
        /\ \A f \in FullNames : github[f] \in Repos \cup {None}
        /\ \A e \in Clients : task[e].pc \in {"activate", "unhub"} => task[e].full \in FullNames
        /\ None \notin FullNames /\ None \notin Repos
        /\ \A t \in Stored : rows[t].full \in FullNames \cup {None} /\ rows[t] # NoRow
    BY NoneAssumption DEF FullNames, NamedTask, Stored, NoRow, Idle, RInv, RTypeOK
  <1>1. CarriesItsRow'
    BY <1>a, <1>b, <1>t DEF HInv, Idle, Making, OneMaker, CarriesItsRow
  <1>2. OneMaker'
    BY <1>a, <1>b, <1>t DEF HInv, Making, Idle, OneMaker
  <1>3. MadeAlone'
    BY <1>a, <1>b, <1>t DEF HInv, Making, Idle, OneMaker, MadeAlone
  <1>4. MadeIsKept'
    BY <1>a, <1>b, <1>t DEF HInv, Idle, NotTargeted, MadeIsKept
  <1>5. RecordedIsKept'
    BY <1>a, <1>b, <1>t DEF HInv, Idle, NotTargeted, MadeIsKept, RecordedIsKept
  <1>6. KeptIsRecorded'
    BY <1>a, <1>b, <1>t DEF HInv, Making, MadeAlone, DroppedIsLeft, KeptIsRecorded
  <1>7. ErasedIsGone'
    BY <1>a, <1>b, <1>t DEF HInv, Idle, ErasedIsGone
  <1>8. LateIsParted'
    BY <1>a, <1>b, <1>t DEF HInv, LateIsParted
  <1>9. DroppedIsLeft'
    BY <1>a, <1>b, <1>t DEF HInv, Making, Idle, DroppedIsLeft
  <1> QED BY <1>1, <1>2, <1>3, <1>4, <1>5, <1>6, <1>7, <1>8, <1>9 DEF HInv

\* A PUT changes neither what a row records nor who works on it.
LEMMA UpdateKept ==
    ASSUME RInv, RInv', HInv, NEW r \in Repos, NEW n \in Names, NEW s \in Edits,
           Update(r, n, s)
    PROVE  HInv'
  <1>a. /\ UNCHANGED <<github, calls, task, parted, dropped>>
        /\ Stored' = Stored
        /\ \A t \in Repos : rows'[t].full = rows[t].full /\ (rows'[t] = NoRow <=> rows[t] = NoRow)
    <2>1. rows' = [rows EXCEPT ![r].name = n, ![r].status = s] /\ r \in Stored
      BY DEF Update
    <2>2. /\ \A t \in Repos \ {r} : rows'[t] = rows[t]
          /\ rows'[r].full = rows[r].full /\ rows'[r].status = s /\ r \in Repos
      BY <2>1 DEF RInv, RTypeOK
    <2>3. s \notin {"none", "gone"}
      BY EditsAssumption
    <2>4. UNCHANGED <<github, calls, task, parted, dropped>>
      BY DEF Update
    <2>5. rows'[r] # NoRow /\ rows[r] # NoRow
      <3>1. NoRow.status = "none"
        BY DEF NoRow
      <3>2. rows[r].status # "none"
        BY <2>1 DEF Stored
      <3> QED
        BY <2>2, <2>3, <3>1, <3>2
    <2>6. Stored' = Stored
      BY <2>1, <2>2, <2>3 DEF Stored
    <2> QED
      BY <2>2, <2>4, <2>5, <2>6
  <1>t. /\ Stored \cup dropped \subseteq Repos
        /\ \A e \in Clients : task[e].pc # "idle" => task[e].id \in Repos
        /\ \A f \in FullNames : github[f] \in Repos \cup {None}
        /\ \A e \in Clients : task[e].pc \in {"activate", "unhub"} => task[e].full \in FullNames
        /\ None \notin FullNames /\ None \notin Repos
        /\ \A t \in Stored : rows[t].full \in FullNames \cup {None} /\ rows[t] # NoRow
    BY NoneAssumption DEF FullNames, NamedTask, Stored, NoRow, Idle, RInv, RTypeOK
  <1>1. CarriesItsRow'
    BY <1>a, <1>t DEF HInv, Idle, CarriesItsRow
  <1>2. OneMaker'
    BY <1>a, <1>t DEF HInv, Idle, OneMaker
  <1>3. MadeAlone'
    BY <1>a, <1>t DEF HInv, Idle, MadeAlone
  <1>4. MadeIsKept'
    BY <1>a, <1>t DEF HInv, Idle, NotTargeted, MadeIsKept
  <1>5. RecordedIsKept'
    BY <1>a, <1>t DEF HInv, Idle, NotTargeted, RecordedIsKept
  <1>6. KeptIsRecorded'
    BY <1>a, <1>t DEF HInv, Idle, KeptIsRecorded
  <1>7. ErasedIsGone'
    BY <1>a, <1>t DEF HInv, Idle, ErasedIsGone
  <1>8. LateIsParted'
    BY <1>a, <1>t DEF HInv, LateIsParted
  <1>9. DroppedIsLeft'
    BY <1>a, <1>t DEF HInv, DroppedIsLeft
  <1> QED BY <1>1, <1>2, <1>3, <1>4, <1>5, <1>6, <1>7, <1>8, <1>9 DEF HInv

\* A DELETE that skips GitHub parts the row from what GitHub has of it.
LEMMA DeleteReadKept ==
    ASSUME RInv, RInv', HInv, NEW c \in Clients, NEW r \in Repos, DeleteRead(c, r)
    PROVE  HInv'
  <1>a. /\ \A e \in Clients \ {c} : task'[e] = task[e]
        /\ task[c].pc = "idle" /\ task'[c].id = r
        /\ UNCHANGED <<rows, github, calls, dropped>>
    BY DEF DeleteRead, Idle, RInv, RTypeOK
  <1>b. /\ r \in Stored /\ parted \subseteq parted'
        /\ \/ task'[c].pc = "unhub" /\ task'[c].full = rows[r].full /\ rows[r].full # None
           \/ task'[c].pc = "erase" /\ r \in parted'
    BY DEF DeleteRead, Part, RInv, RTypeOK
  <1>t. /\ Stored \cup dropped \subseteq Repos
        /\ \A e \in Clients : task[e].pc # "idle" => task[e].id \in Repos
        /\ \A f \in FullNames : github[f] \in Repos \cup {None}
        /\ \A e \in Clients : task[e].pc \in {"activate", "unhub"} => task[e].full \in FullNames
        /\ None \notin FullNames /\ None \notin Repos
        /\ \A t \in Stored : rows[t].full \in FullNames \cup {None} /\ rows[t] # NoRow
    BY NoneAssumption DEF FullNames, NamedTask, Stored, NoRow, Idle, RInv, RTypeOK
  <1>1. CarriesItsRow'
    BY <1>a, <1>b, <1>t DEF HInv, Stored, Idle, Making, CarriesItsRow
  <1>2. OneMaker'
    BY <1>a, <1>b, <1>t DEF HInv, Making, Idle, OneMaker
  <1>3. MadeAlone'
    BY <1>a, <1>b, <1>t DEF HInv, Making, Idle, Stored, CarriesItsRow, MadeAlone
  <1>4. MadeIsKept'
    BY <1>a, <1>b, <1>t DEF HInv, Idle, Stored, NotTargeted, MadeIsKept
  <1>5. RecordedIsKept'
    BY <1>a, <1>b, <1>t DEF HInv, Idle, Stored, NotTargeted, RecordedIsKept
  <1>6. KeptIsRecorded'
    BY <1>a, <1>b, <1>t DEF HInv, Idle, Stored, KeptIsRecorded
  <1>7. ErasedIsGone'
    BY <1>a, <1>b, <1>t DEF HInv, Idle, ErasedIsGone
  <1>8. LateIsParted'
    BY <1>a, <1>b, <1>t DEF HInv, LateIsParted
  <1>9. DroppedIsLeft'
    BY <1>a, <1>b, <1>t DEF HInv, Making, Idle, DroppedIsLeft
  <1> QED BY <1>1, <1>2, <1>3, <1>4, <1>5, <1>6, <1>7, <1>8, <1>9 DEF HInv

\* What GitHub removes is what the request's row records, or parted.
LEMMA DeletesKept ==
    ASSUME RInv, RInv', HInv, NEW c \in Clients, GitHubDeletes(c)
    PROVE  HInv'
  <1>a. /\ \A e \in Clients \ {c} : task'[e] = task[e]
        /\ task[c].pc = "unhub" /\ task'[c].pc = "erase" /\ task'[c].id = task[c].id
        /\ UNCHANGED <<rows, calls, parted, dropped>>
    BY DEF GitHubDeletes, Goto, RInv, RTypeOK
  <1>b. /\ task[c].full \in FullNames /\ github'[task[c].full] = None
        /\ \A f \in FullNames \ {task[c].full} : github'[f] = github[f]
    BY <1>a DEF GitHubDeletes, RInv, RTypeOK
  <1>t. /\ Stored \cup dropped \subseteq Repos
        /\ \A e \in Clients : task[e].pc # "idle" => task[e].id \in Repos
        /\ \A f \in FullNames : github[f] \in Repos \cup {None}
        /\ \A e \in Clients : task[e].pc \in {"activate", "unhub"} => task[e].full \in FullNames
        /\ None \notin FullNames /\ None \notin Repos
        /\ \A t \in Stored : rows[t].full \in FullNames \cup {None} /\ rows[t] # NoRow
    BY NoneAssumption DEF FullNames, NamedTask, Stored, NoRow, Idle, RInv, RTypeOK
  <1>1. CarriesItsRow'
    BY <1>a, <1>b, <1>t DEF HInv, Stored, Idle, Making, CarriesItsRow
  <1>2. OneMaker'
    BY <1>a, <1>b, <1>t DEF HInv, Making, Idle, OneMaker
  <1>3. MadeAlone'
    BY <1>a, <1>b, <1>t DEF HInv, Making, Idle, Stored, MadeAlone
  <1>4. MadeIsKept'
    BY <1>a, <1>b, <1>t DEF HInv, Making, Idle, Stored, NotTargeted, MadeAlone, MadeIsKept
  <1>5. RecordedIsKept'
    BY <1>a, <1>b, <1>t DEF HInv, Idle, Stored, NotTargeted, RecordedIsKept
  <1>6. KeptIsRecorded'
    BY <1>a, <1>b, <1>t DEF HInv, Idle, Stored, KeptIsRecorded
  <1>7. ErasedIsGone'
    BY <1>a, <1>b, <1>t
    DEF HInv, Making, Idle, MadeAlone, KeptIsRecorded, CarriesItsRow, ErasedIsGone
  <1>8. LateIsParted'
    BY <1>a, <1>b, <1>t DEF HInv, LateIsParted
  <1>9. DroppedIsLeft'
    BY <1>a, <1>b, <1>t DEF HInv, Making, DroppedIsLeft
  <1> QED BY <1>1, <1>2, <1>3, <1>4, <1>5, <1>6, <1>7, <1>8, <1>9 DEF HInv

\* A request that ends early parts what it had half done.
LEMMA LeavesKept ==
    ASSUME RInv, RInv', HInv, NEW c \in Clients,
           \/ ActivateFails(c) \/ GitHubDeleteFails(c) \/ GitHubDeleteUnanswered(c)
           \/ EraseRefused(c) \/ Cut(c)
    PROVE  HInv'
  <1>a. /\ \A e \in Clients \ {c} : task'[e] = task[e]
        /\ task'[c] = Idle /\ UNCHANGED <<rows, github>>
    BY DEF ActivateFails, GitHubDeleteFails, GitHubDeleteUnanswered, EraseRefused, Cut, Return,
       RInv, RTypeOK
  <1>b. /\ parted \subseteq parted'
        /\ task[c].pc = "erase" => task[c].id \in parted'
        /\ task[c].pc = "activate" => task[c].id \in dropped'
    BY DEF ActivateFails, GitHubDeleteFails, GitHubDeleteUnanswered, EraseRefused, Cut, Part, Drop,
       Making
  <1>c. \A x \in calls' \ calls :
           x.id \in parted' /\ (x.op = "delete" => task[c].pc = "unhub" /\ x.full = task[c].full /\ x.id = task[c].id)
    BY DEF ActivateFails, GitHubDeleteFails, GitHubDeleteUnanswered, EraseRefused, Cut, Part
  <1>d. /\ dropped \subseteq dropped'
        /\ \A r \in dropped' \ dropped : r = task[c].id /\ task[c].pc \in Making
    BY DEF ActivateFails, GitHubDeleteFails, GitHubDeleteUnanswered, EraseRefused, Cut, Drop, Making
  <1>t. /\ Stored \cup dropped \subseteq Repos
        /\ \A e \in Clients : task[e].pc # "idle" => task[e].id \in Repos
        /\ \A f \in FullNames : github[f] \in Repos \cup {None}
        /\ \A e \in Clients : task[e].pc \in {"activate", "unhub"} => task[e].full \in FullNames
        /\ None \notin FullNames /\ None \notin Repos
        /\ \A t \in Stored : rows[t].full \in FullNames \cup {None} /\ rows[t] # NoRow
    BY NoneAssumption DEF FullNames, NamedTask, Stored, NoRow, Idle, RInv, RTypeOK
  <1>1. CarriesItsRow'
    BY <1>a, <1>b, <1>c, <1>t DEF HInv, Stored, Idle, CarriesItsRow
  <1>2. OneMaker'
    BY <1>a, <1>b, <1>c, <1>t DEF HInv, Making, Idle, OneMaker
  <1>3. MadeAlone'
    BY <1>a, <1>b, <1>c, <1>t DEF HInv, Making, Idle, Stored, MadeAlone
  <1>4. MadeIsKept'
    BY <1>a, <1>b, <1>c, <1>t DEF HInv, Idle, Stored, NotTargeted, MadeIsKept
  <1>5. RecordedIsKept'
    BY <1>a, <1>b, <1>c, <1>t DEF HInv, Idle, Stored, NotTargeted, RecordedIsKept
  <1>6. KeptIsRecorded'
    BY <1>a, <1>b, <1>d, <1>t DEF HInv, Making, Stored, MadeAlone, KeptIsRecorded
  <1>7. ErasedIsGone'
    BY <1>a, <1>b, <1>c, <1>t DEF HInv, Idle, ErasedIsGone
  <1>8. LateIsParted'
    BY <1>a, <1>b, <1>c, <1>t DEF HInv, LateIsParted
  <1>9. DroppedIsLeft'
    BY <1>a, <1>b, <1>c, <1>d, <1>t DEF HInv, Making, Idle, CarriesItsRow, OneMaker, DroppedIsLeft
  <1> QED BY <1>1, <1>2, <1>3, <1>4, <1>5, <1>6, <1>7, <1>8, <1>9 DEF HInv

\* The row goes after its repository.
LEMMA ErasesKept ==
    ASSUME RInv, RInv', HInv, NEW c \in Clients, EraseRow(c)
    PROVE  HInv'
  <1>a. /\ \A e \in Clients \ {c} : task'[e] = task[e]
        /\ task[c].pc = "erase" /\ task'[c] = Idle
        /\ UNCHANGED <<github, calls, parted, dropped>>
    BY DEF EraseRow, Return, RInv, RTypeOK
  <1>b. /\ Stored' = Stored \ {task[c].id}
        /\ \A t \in Repos \ {task[c].id} : rows'[t] = rows[t]
        /\ \A t \in Repos : rows[t] # NoRow => rows'[t] # NoRow
    BY DEF EraseRow, Stored, NoRow, RInv, RTypeOK
  <1>t. /\ Stored \cup dropped \subseteq Repos
        /\ \A e \in Clients : task[e].pc # "idle" => task[e].id \in Repos
        /\ \A f \in FullNames : github[f] \in Repos \cup {None}
        /\ \A e \in Clients : task[e].pc \in {"activate", "unhub"} => task[e].full \in FullNames
        /\ None \notin FullNames /\ None \notin Repos
        /\ \A t \in Stored : rows[t].full \in FullNames \cup {None} /\ rows[t] # NoRow
    BY NoneAssumption DEF FullNames, NamedTask, Stored, NoRow, Idle, RInv, RTypeOK
  <1>1. CarriesItsRow'
    BY <1>a, <1>b, <1>t DEF HInv, Idle, CarriesItsRow
  <1>2. OneMaker'
    BY <1>a, <1>b, <1>t DEF HInv, Making, Idle, OneMaker
  <1>3. MadeAlone'
    BY <1>a, <1>b, <1>t DEF HInv, Making, Idle, MadeAlone
  <1>4. MadeIsKept'
    BY <1>a, <1>b, <1>t DEF HInv, Idle, NotTargeted, MadeIsKept
  <1>5. RecordedIsKept'
    BY <1>a, <1>b, <1>t DEF HInv, Idle, NotTargeted, RecordedIsKept
  <1>6. KeptIsRecorded'
    BY <1>a, <1>b, <1>t DEF HInv, ErasedIsGone, KeptIsRecorded
  <1>7. ErasedIsGone'
    BY <1>a, <1>b, <1>t DEF HInv, Idle, ErasedIsGone
  <1>8. LateIsParted'
    BY <1>a, <1>b, <1>t DEF HInv, LateIsParted
  <1>9. DroppedIsLeft'
    BY <1>a, <1>b, <1>t DEF HInv, Making, Idle, DroppedIsLeft
  <1> QED BY <1>1, <1>2, <1>3, <1>4, <1>5, <1>6, <1>7, <1>8, <1>9 DEF HInv

\* A late call makes what is parted, and removes nothing that is not.
LEMMA LateKept ==
    ASSUME RInv, RInv', HInv, NEW x \in calls, LateCall(x)
    PROVE  HInv'
  <1>a. /\ UNCHANGED <<rows, task, parted, dropped>> /\ calls' \subseteq calls /\ x.full \in FullNames
        /\ x.id \in parted /\ x.id \in Repos
    BY DEF LateCall, HInv, LateIsParted, RInv, RTypeOK
  <1>b. /\ \A f \in FullNames \ {x.full} : github'[f] = github[f]
        /\ \/ x.op = "delete" /\ github'[x.full] = None
           \/ github[x.full] = None /\ github'[x.full] = x.id
           \/ github' = github
    BY <1>a DEF LateCall, RInv, RTypeOK
  <1>t. /\ Stored \cup dropped \subseteq Repos
        /\ \A e \in Clients : task[e].pc # "idle" => task[e].id \in Repos
        /\ \A f \in FullNames : github[f] \in Repos \cup {None}
        /\ \A e \in Clients : task[e].pc \in {"activate", "unhub"} => task[e].full \in FullNames
        /\ None \notin FullNames /\ None \notin Repos
        /\ \A t \in Stored : rows[t].full \in FullNames \cup {None} /\ rows[t] # NoRow
    BY NoneAssumption DEF FullNames, NamedTask, Stored, NoRow, Idle, RInv, RTypeOK
  <1>1. CarriesItsRow'
    BY <1>a, <1>b, <1>t DEF HInv, Stored, Idle, CarriesItsRow
  <1>2. OneMaker'
    BY <1>a, <1>b, <1>t DEF HInv, Idle, OneMaker
  <1>3. MadeAlone'
    BY <1>a, <1>b, <1>t DEF HInv, Idle, Stored, MadeAlone
  <1>4. MadeIsKept'
    BY <1>a, <1>b, <1>t DEF HInv, Idle, Stored, NotTargeted, MadeIsKept
  <1>5. RecordedIsKept'
    BY <1>a, <1>b, <1>t DEF HInv, Idle, Stored, NotTargeted, RecordedIsKept
  <1>6. KeptIsRecorded'
    BY <1>a, <1>b, <1>t DEF HInv, Idle, Stored, KeptIsRecorded
  <1>7. ErasedIsGone'
    BY <1>a, <1>b, <1>t DEF HInv, Idle, ErasedIsGone
  <1>8. LateIsParted'
    BY <1>a, <1>b, <1>t DEF HInv, LateIsParted
  <1>9. DroppedIsLeft'
    BY <1>a, <1>b, <1>t DEF HInv, DroppedIsLeft
  <1> QED BY <1>1, <1>2, <1>3, <1>4, <1>5, <1>6, <1>7, <1>8, <1>9 DEF HInv

-----------------------------------------------------------------------------
(* The theorems about GitHub                                               *)

\* There is neither a row nor a repository in the initial state.
LEMMA HInitInv == RInit => HInv
  BY NoneAssumption
  DEF RInit, HInv, CarriesItsRow, OneMaker, MadeAlone, MadeIsKept, RecordedIsKept, KeptIsRecorded,
      ErasedIsGone, LateIsParted, DroppedIsLeft, Stored, NoRow, Idle, Making

\* Every step preserves the invariant.
LEMMA HNextInv == RInv /\ RInv' /\ HInv /\ [RNext]_rVars => HInv'
  <1> SUFFICES ASSUME RInv, RInv', HInv, [RNext]_rVars PROVE HInv'
    OBVIOUS
  <1>1. ASSUME NEW c \in Clients, CreateRepo(c) PROVE HInv'
    BY <1>1, InsertKept, RequestKept, CreatesKept, ActivatesKept, LeavesKept DEF CreateRepo
  <1>2. ASSUME NEW c \in Clients, DeleteRepo(c) PROVE HInv'
    BY <1>2, DeleteReadKept, DeletesKept, LeavesKept, ErasesKept DEF DeleteRepo
  <1>3. ASSUME NEW c \in Clients, Cut(c) PROVE HInv'
    BY <1>3, LeavesKept
  <1>4. ASSUME NEW r \in Repos, NEW n \in Names, NEW s \in Edits, Update(r, n, s) PROVE HInv'
    BY <1>4, UpdateKept
  <1>5. ASSUME NEW x \in calls, LateCall(x) PROVE HInv'
    BY <1>5, LateKept
  <1>6. CASE UNCHANGED rVars
    BY <1>6
    DEF rVars, HInv, CarriesItsRow, OneMaker, MadeAlone, MadeIsKept, RecordedIsKept, KeptIsRecorded,
        ErasedIsGone, LateIsParted, DroppedIsLeft, NotTargeted, Stored
  <1> QED BY <1>1, <1>2, <1>3, <1>4, <1>5, <1>6 DEF RNext

\* Rows and repositories stay together as HInv says in every reachable state.
THEOREM RecordsInvariant == RSpec => [](RInv /\ HInv)
  <1> QED BY RepositoryInvariant, HInitInv, HNextInv, PTL DEF RSpec

\* A row that records a repository has it, unless one of the listed events parted
\* them: no DELETE or PUT of another row takes it away.
THEOREM RecordHasRepository == RSpec => []RecordedExists
  <1>1. HInv => RecordedExists
    BY DEF HInv, RecordedIsKept, RecordedExists, Touched
  <1> QED BY <1>1, RecordsInvariant, PTL

\* The row of a repository the portal made is there and records it, unless its POST
\* was kept from completing the row, or one of the listed events parted them.
THEOREM RepositoryHasRecord == RSpec => []RepositoryRecorded
  <1>1. HInv => RepositoryRecorded
    BY DEF HInv, KeptIsRecorded, RepositoryRecorded, Touched
  <1> QED BY <1>1, RecordsInvariant, PTL
=============================================================================
