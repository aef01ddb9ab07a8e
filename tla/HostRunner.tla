----------------------------- MODULE HostRunner -----------------------------
(***************************************************************************)
(* What dbinstance and deploymentinstance have in common: a host on AWS    *)
(* that Terraform builds and destroys, its workspace directory, its SSH    *)
(* key pair, and the requests and goroutines that work on it.              *)
(*                                                                         *)
(* A worker is one HTTP request and the goroutine it spawns; it is reused  *)
(* once both have returned. Every shared store (row, workspace, key, AWS)  *)
(* is touched one step at a time, so requests and goroutines interleave    *)
(* wherever the code holds no lock, which is everywhere. The actions here  *)
(* leave the rows to the component that uses them.                         *)
(***************************************************************************)
CONSTANTS
    Instances,   \* rows; also the random name, workspace and key name of each
    Workers,     \* request slots
    None,        \* the instance of an idle worker
    Faults       \* the faults of the environment this instance allows

ASSUME NoneAssumption == None \notin Instances
ASSUME FaultsAssumption == Faults \subseteq {"db", "timeout", "crash"}

VARIABLES
    keys,        \* names with a key pair in the key directory
    workspace,   \* the workspace directory: none, empty, or with a state file
    cloud,       \* what exists in AWS: none, partial, up
    pc, inst,    \* per worker: where it is, the instance it serves
    expired      \* workers whose context (of ProvisionTimeout, or a later one) has expired

world == <<keys, workspace, cloud>>
control == <<pc, inst, expired>>

RunnerInit ==
    /\ keys = {}
    /\ workspace = [i \in Instances |-> "none"]
    /\ cloud = [i \in Instances |-> "none"]
    /\ pc = [w \in Workers |-> "idle"]
    /\ inst = [w \in Workers |-> None]
    /\ expired = {}

-----------------------------------------------------------------------------
(* Control of a worker                                                     *)

Goto(w, label) ==
    /\ pc' = [pc EXCEPT ![w] = label]
    /\ UNCHANGED <<inst, expired>>

Start(w, i, label) ==
    /\ pc[w] = "idle"
    /\ pc' = [pc EXCEPT ![w] = label]
    /\ inst' = [inst EXCEPT ![w] = i]
    /\ UNCHANGED expired

Return(w) ==
    /\ pc' = [pc EXCEPT ![w] = "idle"]
    /\ inst' = [inst EXCEPT ![w] = None]
    /\ expired' = expired \ {w}

\* A statement run on the ctx of worker w fails: always once ctx has expired.
DbFails(w) == "db" \in Faults \/ w \in expired

\* The acknowledgement of a committed statement is lost.
AckLost(w) == "db" \in Faults /\ w \notin expired

\* generateName and sshkey.Ensure: a fresh random name gets its key pair.
DrawName(w, i) ==
    /\ i \notin keys /\ \A v \in Workers : inst[v] # i
    /\ Start(w, i, "create")
    /\ keys' = keys \cup {i}
    /\ UNCHANGED <<workspace, cloud>>

\* sshkey.Remove, and nothing is left to do. That it fails is at most a warning.
DropKey(w) ==
    /\ keys' \in {keys, keys \ {inst[w]}}
    /\ Return(w)
    /\ UNCHANGED <<workspace, cloud>>

-----------------------------------------------------------------------------
(* Runner.Apply                                                            *)

\* Runner.prepare makes the workspace directory.
MakeWorkspace(i) ==
    workspace' = [workspace EXCEPT ![i] = IF @ = "none" THEN "empty" ELSE @]

Prepare(w) ==
    /\ pc[w] = "provision"
    /\ MakeWorkspace(inst[w])
    /\ Goto(w, "applying")
    /\ UNCHANGED <<keys, cloud>>

\* terraform has created its first resource and recorded it in the state file.
ApplyCreates(w) ==
    /\ pc[w] = "applying"
    /\ cloud[inst[w]] = "none"
    /\ cloud' = [cloud EXCEPT ![inst[w]] = "partial"]
    /\ workspace' = [workspace EXCEPT ![inst[w]] = "tracked"]
    /\ UNCHANGED <<keys, pc, inst, expired>>

ApplySucceeds(w) ==
    /\ pc[w] = "applying"
    /\ w \notin expired
    /\ cloud[inst[w]] # "none"
    /\ cloud' = [cloud EXCEPT ![inst[w]] = "up"]
    /\ Goto(w, "applied")
    /\ UNCHANGED <<keys, workspace>>

\* Mutant: provisionAsync goes on after an error.
ApplyErrorIgnored(w) ==
    /\ pc[w] = "applying"
    /\ Goto(w, "applied")
    /\ UNCHANGED world

\* init or apply fails, or ctx expires and stops terraform half way.
ApplyFails(w) ==
    /\ pc[w] = "applying"
    /\ Goto(w, "provisionFailed")
    /\ UNCHANGED world

\* apply built everything but reading its outputs fails.
OutputFails(w) ==
    /\ pc[w] = "applying"
    /\ cloud[inst[w]] # "none"
    /\ cloud' = [cloud EXCEPT ![inst[w]] = "up"]
    /\ Goto(w, "provisionFailed")
    /\ UNCHANGED <<keys, workspace>>

-----------------------------------------------------------------------------
(* Runner.Destroy and RemoveWorkspace                                      *)

PrepareDestroy(w) ==
    /\ pc[w] = "destroy"
    /\ MakeWorkspace(inst[w])
    /\ Goto(w, "destroying")
    /\ UNCHANGED <<keys, cloud>>

\* terraform has removed some of what the state file tracks.
DestroyRemoves(w) ==
    /\ pc[w] = "destroying"
    /\ workspace[inst[w]] = "tracked" /\ cloud[inst[w]] = "up"
    /\ cloud' = [cloud EXCEPT ![inst[w]] = "partial"]
    /\ UNCHANGED <<keys, workspace, pc, inst, expired>>

\* Everything the state file tracks is gone; an empty directory tracks nothing.
DestroySucceeds(w) ==
    /\ pc[w] = "destroying"
    /\ w \notin expired
    /\ cloud' = [cloud EXCEPT ![inst[w]] =
                    IF workspace[inst[w]] = "tracked" THEN "none" ELSE @]
    /\ Goto(w, "destroyed")
    /\ UNCHANGED <<keys, workspace>>

\* Mutant: provisioner.destroy goes on to RemoveWorkspace after a failed destroy.
DestroyFailureIgnored(w) ==
    /\ pc[w] = "destroying"
    /\ Goto(w, "destroyed")
    /\ UNCHANGED world

\* The state lock of another destroy, an AWS error, or ctx expires.
DestroyFails(w) ==
    /\ pc[w] = "destroying"
    /\ Goto(w, "destroyFailed")
    /\ UNCHANGED world

RemoveWorkspace(w) ==
    /\ pc[w] = "destroyed"
    /\ workspace' = [workspace EXCEPT ![inst[w]] = "none"]
    /\ Goto(w, "removed")
    /\ UNCHANGED <<keys, cloud>>

RemoveWorkspaceFails(w) ==
    /\ pc[w] = "destroyed"
    /\ Goto(w, "destroyFailed")
    /\ UNCHANGED world

\* The key pair goes last, once the row is retired.
RemoveKey(w) ==
    /\ pc[w] = "unkey"
    /\ DropKey(w)

-----------------------------------------------------------------------------
(* The environment                                                         *)

\* The ctx of a goroutine expires. The component says where a goroutine depends
\* on one.
Expire(w) ==
    /\ "timeout" \in Faults
    /\ expired' = expired \cup {w}
    /\ UNCHANGED <<world, pc, inst>>

\* The process dies, or Run returns: it waits for requests, not for goroutines.
\* Nothing looks for unfinished rows when the process starts again.
Die ==
    /\ "crash" \in Faults
    /\ \E w \in Workers : pc[w] # "idle"
    /\ pc' = [w \in Workers |-> "idle"]
    /\ inst' = [w \in Workers |-> None]
    /\ expired' = {}
    /\ UNCHANGED world

-----------------------------------------------------------------------------

ApplyStep(w) ==
    \/ Prepare(w) \/ ApplyCreates(w) \/ ApplySucceeds(w) \/ ApplyFails(w) \/ OutputFails(w)

DestroyStep(w) ==
    \/ PrepareDestroy(w) \/ DestroyRemoves(w) \/ DestroySucceeds(w) \/ DestroyFails(w)
    \/ RemoveWorkspace(w) \/ RemoveWorkspaceFails(w) \/ RemoveKey(w)

\* Every variable stays in its domain, and a worker serves an instance exactly
\* while it is busy.
RunnerTypeOK ==
    /\ keys \subseteq Instances
    /\ workspace \in [Instances -> {"none", "empty", "tracked"}]
    /\ cloud \in [Instances -> {"none", "partial", "up"}]
    /\ inst \in [Workers -> Instances \cup {None}]
    /\ \A w \in Workers : inst[w] = None <=> pc[w] = "idle"
    /\ expired \subseteq {w \in Workers : pc[w] # "idle"}
=============================================================================
