---------------------------- MODULE Repositories ----------------------------
(***************************************************************************)
(* The repo module: rows of repos that mirror repositories on GitHub.      *)
(* POST stores the row first, asks GitHub second and completes the row     *)
(* third; DELETE asks GitHub first and removes the row second; PUT edits   *)
(* the row alone. Nothing locks a row while GitHub is asked.               *)
(*                                                                         *)
(* GitHub is external. It keeps one repository under a full name, deletes  *)
(* by full name, answers 404 (which the client takes for success) when     *)
(* there is none, and may act on a request after the client has given up.  *)
(***************************************************************************)
EXTENDS FiniteSets

CONSTANTS
    Clients,   \* concurrent requests to /repos
    Repos,     \* identifiers of rows; a repository bears that of its request
    Owners,    \* organizations and portal usernames
    Names,     \* repository names
    Wanted,    \* the names among them that a POST asks for
    Login,     \* the GitHub owner of what is created for each of Owners
    Slug,      \* the name GitHub gives to what is asked for under a name
    Edits,     \* the statuses a PUT gives a row, among those it may
    None,      \* no value
    Faults     \* subset of {"lost", "cut"}

ASSUME LoginAssumption == Login \in [Owners -> Owners]
ASSUME SlugAssumption == Slug \in [Names -> Names]
ASSUME WantedAssumption == Wanted \subseteq Names
ASSUME EditsAssumption == Edits \subseteq {"pending", "creating", "active", "failed", "archived"}
ASSUME NoneAssumption == None \notin Repos \cup (Owners \X Names)

VARIABLES
    rows,     \* the table repos
    github,   \* per full name: the repository GitHub has, or None
    calls,    \* requests GitHub may still act on, with nobody waiting
    task,     \* per client: where it is and what it carries
    parted,   \* history: rows and repositories known to have been parted
    dropped,  \* history: rows whose POST ended before it could say how
    reopened  \* history: rows a PUT has put back into pending or creating

rVars == <<rows, github, calls, task, parted, dropped, reopened>>

FullNames == Owners \X Names

NoRow == [status |-> "none", owner |-> None, name |-> None, full |-> None]
Idle == [pc |-> "idle", id |-> None, full |-> None]

Stored == {r \in Repos : rows[r].status \notin {"none", "gone"}}
Making == {"mark", "create", "fail", "activate"}

\* uq_repo_provider_owner_name, over every row but r.
KeyFree(r, o, n) == \A s \in Stored \ {r} : rows[s].owner # o \/ rows[s].name # n

RInit ==
    /\ rows = [r \in Repos |-> NoRow]
    /\ github = [f \in FullNames |-> None]
    /\ calls = {}
    /\ task = [c \in Clients |-> Idle]
    /\ parted = {}
    /\ dropped = {}
    /\ reopened = {}

Goto(c, label) == task' = [task EXCEPT ![c].pc = label]
Return(c) == task' = [task EXCEPT ![c] = Idle]
Part(R) == parted' = parted \cup R
Drop(R) == dropped' = dropped \cup R

\* Mutant: the UPDATE brings a removed row back.
SetStatusOfAnyRow(r, s) == rows' = [rows EXCEPT ![r].status = s]

\* UPDATE repos SET status WHERE id, which also clears or sets error_message.
SetStatus(r, s) == rows' = IF r \in Stored THEN [rows EXCEPT ![r].status = s] ELSE rows

\* Something other than row r will remove what GitHub has under f, or come to a
\* row whose DELETE will.
Aimed(f, r) ==
    \/ \E s \in Stored \ {r} : rows[s].full = f
    \/ \E e \in Clients : task[e].pc \in {"activate", "unhub"} /\ task[e].full = f
    \/ \E x \in calls : x.op = "delete" /\ x.full = f

-----------------------------------------------------------------------------
(* POST /repos                                                             *)

\* The row is stored before GitHub hears of the repository.
Insert(c, r, o, n) ==
    /\ task[c] = Idle
    /\ rows[r] = NoRow
    /\ KeyFree(r, o, n)
    /\ rows' = [rows EXCEPT ![r] =
                  [status |-> "pending", owner |-> o, name |-> n, full |-> None]]
    /\ task' = [task EXCEPT ![c] = [pc |-> "mark", id |-> r, full |-> <<Login[o], Slug[n]>>]]
    /\ UNCHANGED <<github, calls, parted, dropped, reopened>>

MarkCreating(c) ==
    /\ task[c].pc = "mark"
    /\ SetStatus(task[c].id, "creating")
    /\ IF task[c].id \in Stored THEN Goto(c, "create") ELSE Return(c)
    /\ UNCHANGED <<github, calls, parted, dropped, reopened>>

\* createRepositoryFromTemplate: the answer bears GitHub's owner and name.
GitHubCreates(c) ==
    /\ task[c].pc = "create"
    /\ github[task[c].full] = None
    /\ github' = [github EXCEPT ![task[c].full] = task[c].id]
    /\ Goto(c, "activate")
    /\ Part(IF Aimed(task[c].full, task[c].id) THEN {task[c].id} ELSE {})
    /\ UNCHANGED <<rows, calls, dropped, reopened>>

\* No token is configured, or GitHub refuses: the name exists, the template is
\* not accessible, the credentials do not suffice.
GitHubRefuses(c) ==
    /\ task[c].pc = "create"
    /\ Goto(c, "fail")
    /\ UNCHANGED <<rows, github, calls, parted, dropped, reopened>>

\* The 15 s of the HTTP client pass, or the answer cannot be read.
GitHubUnanswered(c) ==
    /\ task[c].pc = "create"
    /\ "lost" \in Faults
    /\ calls' = calls \cup {[op |-> "create", id |-> task[c].id, full |-> task[c].full]}
    /\ Goto(c, "fail")
    /\ Part({task[c].id})
    /\ UNCHANGED <<rows, github, dropped, reopened>>

\* Mutant: the failure is answered but not recorded.
FailUnrecorded(c) ==
    /\ task[c].pc = "fail"
    /\ Return(c)
    /\ UNCHANGED <<rows, github, calls, parted, dropped, reopened>>

Fail(c) ==
    /\ task[c].pc = "fail"
    /\ SetStatus(task[c].id, "failed")
    /\ Return(c)
    /\ UNCHANGED <<github, calls, parted, dropped, reopened>>

\* Mutant: the owner stays the one of the request.
ActivateAsRequested(c) ==
    LET r == task[c].id IN
    /\ task[c].pc = "activate"
    /\ r \in Stored
    /\ rows' = [rows EXCEPT ![r].status = "active", ![r].full = task[c].full]
    /\ Return(c)
    /\ UNCHANGED <<github, calls, parted, dropped, reopened>>

\* ActivateRepo makes GitHub's owner the row's, and so may meet the unique key.
Activate(c) ==
    LET r == task[c].id  f == task[c].full IN
    /\ task[c].pc = "activate"
    /\ r \in Stored
    /\ KeyFree(r, f[1], rows[r].name)
    /\ rows' = [rows EXCEPT ![r].status = "active", ![r].owner = f[1], ![r].full = f]
    /\ Return(c)
    /\ UNCHANGED <<github, calls, parted, dropped, reopened>>

\* The row is gone or the key taken: the repository stays on GitHub, and the row,
\* which does not record it, in creating.
ActivateFails(c) ==
    LET r == task[c].id IN
    /\ task[c].pc = "activate"
    /\ r \notin Stored \/ ~KeyFree(r, task[c].full[1], rows[r].name)
    /\ Return(c)
    /\ Drop({r})
    /\ UNCHANGED <<rows, github, calls, parted, reopened>>

-----------------------------------------------------------------------------
(* PUT and DELETE /repos/:id                                               *)

\* One UPDATE by id; GitHub is not told.
Update(r, n, s) ==
    /\ r \in Stored
    /\ KeyFree(r, rows[r].owner, n)
    /\ rows' = [rows EXCEPT ![r].name = n, ![r].status = s]
    /\ reopened' = IF s \in {"pending", "creating"} THEN reopened \cup {r} ELSE reopened \ {r}
    /\ UNCHANGED <<github, calls, task, parted, dropped>>

\* Mutant: whatever bears the name a row asked for is deleted on GitHub.
DeleteReadAnyRow(c, r) ==
    /\ task[c] = Idle
    /\ r \in Stored
    /\ task' = [task EXCEPT ![c] =
                  [pc |-> "unhub", id |-> r, full |-> <<Login[rows[r].owner], rows[r].name>>]]
    /\ UNCHANGED <<rows, github, calls, parted, dropped, reopened>>

\* Only an active row with an external_id is deleted on GitHub: the DELETE of any
\* other leaves behind what GitHub has, or is about to have, of its POST.
DeleteRead(c, r) ==
    LET recorded == rows[r].full # None
        active == rows[r].status = "active" IN
    /\ task[c] = Idle
    /\ r \in Stored
    /\ task' = [task EXCEPT ![c] =
                  IF active /\ recorded THEN [pc |-> "unhub", id |-> r, full |-> rows[r].full]
                  ELSE [pc |-> "erase", id |-> r, full |-> None]]
    /\ Part(IF active /\ recorded THEN {} ELSE {r})
    /\ UNCHANGED <<rows, github, calls, dropped, reopened>>

\* Whatever repository has the full name by now; 404 is as good.
GitHubDeletes(c) ==
    /\ task[c].pc = "unhub"
    /\ github' = [github EXCEPT ![task[c].full] = None]
    /\ Goto(c, "erase")
    /\ UNCHANGED <<rows, calls, parted, dropped, reopened>>

\* Mutant: the row goes although GitHub kept the repository.
GitHubDeleteErrorIgnored(c) ==
    /\ task[c].pc = "unhub"
    /\ Goto(c, "erase")
    /\ UNCHANGED <<rows, github, calls, parted, dropped, reopened>>

GitHubDeleteFails(c) ==
    /\ task[c].pc = "unhub"
    /\ Return(c)
    /\ UNCHANGED <<rows, github, calls, parted, dropped, reopened>>

GitHubDeleteUnanswered(c) ==
    /\ task[c].pc = "unhub"
    /\ "lost" \in Faults
    /\ calls' = calls \cup {[op |-> "delete", id |-> task[c].id, full |-> task[c].full]}
    /\ Return(c)
    /\ Part({task[c].id})
    /\ UNCHANGED <<rows, github, dropped, reopened>>

\* DELETE FROM repos WHERE id; no row is ErrNotFound.
EraseRow(c) ==
    /\ task[c].pc = "erase"
    /\ rows' = IF task[c].id \in Stored
               THEN [rows EXCEPT ![task[c].id] = [NoRow EXCEPT !.status = "gone"]] ELSE rows
    /\ Return(c)
    /\ UNCHANGED <<github, calls, parted, dropped, reopened>>

\* The foreign key of a deployment holds the row whose repository is gone.
EraseRefused(c) ==
    /\ task[c].pc = "erase"
    /\ task[c].id \in Stored
    /\ Return(c)
    /\ Part({task[c].id})
    /\ UNCHANGED <<rows, github, calls, dropped, reopened>>

-----------------------------------------------------------------------------
(* Faults                                                                  *)

\* The client disconnects, the database fails, or the process ends: every call
\* uses the context of the request, so whatever was left to do stays undone.
Cut(c) ==
    LET op == IF task[c].pc = "create" THEN "create" ELSE "delete" IN
    /\ "cut" \in Faults
    /\ task[c] # Idle
    /\ Return(c)
    /\ \/ UNCHANGED calls
       \/ /\ task[c].pc \in {"create", "unhub"}
          /\ calls' = calls \cup {[op |-> op, id |-> task[c].id, full |-> task[c].full]}
    /\ Part(IF task[c].pc \in {"mark", "fail", "activate"} THEN {} ELSE {task[c].id})
    /\ Drop(IF task[c].pc \in Making THEN {task[c].id} ELSE {})
    /\ UNCHANGED <<rows, github, reopened>>

\* GitHub acts on a request nobody waits for.
LateCall(x) ==
    /\ calls' = calls \ {x}
    /\ github' = IF x.op = "delete" THEN [github EXCEPT ![x.full] = None]
                 ELSE IF github[x.full] = None THEN [github EXCEPT ![x.full] = x.id]
                 ELSE github
    /\ UNCHANGED <<rows, task, parted, dropped, reopened>>

-----------------------------------------------------------------------------

CreateRepo(c) ==
    \/ \E r \in Repos, o \in Owners, n \in Wanted : Insert(c, r, o, n)
    \/ MarkCreating(c)
    \/ GitHubCreates(c) \/ GitHubRefuses(c) \/ GitHubUnanswered(c)
    \/ Fail(c) \/ Activate(c) \/ ActivateFails(c)

DeleteRepo(c) ==
    \/ \E r \in Repos : DeleteRead(c, r)
    \/ GitHubDeletes(c) \/ GitHubDeleteFails(c) \/ GitHubDeleteUnanswered(c)
    \/ EraseRow(c) \/ EraseRefused(c)

RNext ==
    \/ \E c \in Clients : CreateRepo(c) \/ DeleteRepo(c) \/ Cut(c)
    \/ \E r \in Repos, n \in Names, s \in Edits : Update(r, n, s)
    \/ \E x \in calls : LateCall(x)

RSpec == RInit /\ [][RNext]_rVars

-----------------------------------------------------------------------------
(* Properties                                                              *)

\* Every variable stays in its domain, and a busy client has a row in hand.
RTypeOK ==
    /\ rows \in [Repos -> {NoRow, [NoRow EXCEPT !.status = "gone"]} \cup
                   [status : {"pending", "creating", "active", "failed"} \cup Edits,
                    owner : Owners, name : Names, full : FullNames \cup {None}]]
    /\ github \in [FullNames -> Repos \cup {None}]
    /\ calls \subseteq [op : {"create", "delete"}, id : Repos, full : FullNames]
    /\ task \in [Clients -> {Idle} \cup
                   [pc : Making \cup {"unhub", "erase"}, id : Repos, full : FullNames \cup {None}]]
    /\ parted \cup dropped \cup reopened \subseteq Repos

Touched(r) == \E c \in Clients : task[c].id = r

\* A row that records a repository has it, unless one of these events parted
\* them: a DELETE of the row whose answer was lost, which was cut off or refused
\* by the foreign key, or a DELETE that was already aimed at the name when the
\* repository was made. No DELETE or PUT of another row takes it away.
RecordedExists ==
    \A r \in Stored \ parted :
        rows[r].full # None /\ ~Touched(r) => github[rows[r].full] = r

\* The row of a repository the portal made is there until a DELETE, and records
\* it, which is how DELETE finds it. A POST that GitHub refused, or that met
\* another, leaves none behind. Two rows keep their repository unrecorded: the
\* one the unique key, or a cut, kept Activate from completing (dropped). Those
\* with no claim are in parted: the answer to the creation was lost, the request
\* for it cut off, a DELETE aimed at the name already, or a DELETE of the row
\* read it when it was not active (which does not go to GitHub), or lost its own
\* answer, was cut off or refused.
RepositoryRecorded ==
    \A f \in FullNames : LET r == github[f] IN
        r # None /\ r \notin parted /\ ~Touched(r) =>
            /\ r \in Stored
            /\ rows[r].full = f \/ (r \in dropped /\ rows[r].full = None)

\* Two rows record one full name only if one bears another name in the portal,
\* after a PUT or because GitHub named it otherwise: the unique key covers the
\* portal's names, and Activate brings the owner in line with GitHub's. It is
\* what keeps DELETE, which goes by full name, off the repository of another row.
NamesakesAreRenamed ==
    \A r, s \in Stored :
        r # s /\ rows[r].full = rows[s].full /\ rows[r].full # None =>
            \E t \in {r, s} : rows[t].name # rows[t].full[2]

\* A row is pending or creating only while a request works on it, unless that
\* request was cut off, the unique key kept it from activating the row, or a PUT
\* asked for the status: GitHub refusing or not answering leaves no row unfinished.
UnfinishedIsWorkedOn ==
    \A r \in Stored \ (dropped \cup reopened) :
        rows[r].status \in {"pending", "creating"} =>
            \E c \in Clients : task[c].id = r /\ task[c].pc \in Making
=============================================================================
