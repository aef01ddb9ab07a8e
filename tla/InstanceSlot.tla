---------------------------- MODULE InstanceSlot ----------------------------
(***************************************************************************)
(* What dbinstance and deploymentinstance promise to whoever watches their *)
(* records and the AWS resources behind them: at most one record is live,  *)
(* AWS resources come into being only while their record says              *)
(* "provisioning", a record says "running" only when its host was built,   *)
(* and a record is retired only when nothing is left behind in AWS.        *)
(* The steps below are the only changes a client can ever see.             *)
(***************************************************************************)
CONSTANTS
    Instances,
    Failable    \* the states of a record that a failure may end

VARIABLES
    status,   \* the status per record, "absent" before the INSERT
    host      \* the instances that own resources in AWS

vars == <<status, host>>

Occupies(i) == status[i] \notin {"absent", "deleted"}

Init ==
    /\ status = [i \in Instances |-> "absent"]
    /\ host = {}

\* The single slot is taken.
Register(i) ==
    /\ status[i] = "absent"
    /\ \A j \in Instances : ~Occupies(j)
    /\ status' = [status EXCEPT ![i] = "provisioning"]
    /\ UNCHANGED host

\* AWS resources appear, and only on behalf of a record being provisioned.
Build(i) ==
    /\ status[i] = "provisioning"
    /\ host' = host \cup {i}
    /\ UNCHANGED status

Provisioned(i) ==
    /\ status[i] = "provisioning"
    /\ i \in host
    /\ status' = [status EXCEPT ![i] = "running"]
    /\ UNCHANGED host

Fail(i) ==
    /\ status[i] \in Failable
    /\ status' = [status EXCEPT ![i] = "failed"]
    /\ UNCHANGED host

StartDelete(i) ==
    /\ status[i] \in {"running", "failed"}
    /\ status' = [status EXCEPT ![i] = "deleting"]
    /\ UNCHANGED host

\* The last AWS resource is gone.
Release(i) ==
    /\ status[i] \in {"deleting", "failed"}
    /\ host' = host \ {i}
    /\ UNCHANGED status

\* The slot is given back: nothing may be left in AWS. A record leaves "failed"
\* this way when two teardowns of it overlapped and the other one had failed.
Retire(i) ==
    /\ status[i] \in {"deleting", "failed"}
    /\ i \notin host
    /\ status' = [status EXCEPT ![i] = "deleted"]
    /\ UNCHANGED host

Next ==
    \E i \in Instances :
        \/ Register(i) \/ Build(i) \/ Provisioned(i) \/ Fail(i)
        \/ StartDelete(i) \/ Release(i) \/ Retire(i)

Spec == Init /\ [][Next]_vars
=============================================================================
