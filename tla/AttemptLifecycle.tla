--------------------------- MODULE AttemptLifecycle ---------------------------
(***************************************************************************)
(* What report generation promises of one case, without workers, locks,    *)
(* designs or storage: attempts are numbered, at most one is running, each *)
(* ends once and for ever, and those that succeeded, and no others, can be *)
(* downloaded.                                                             *)
(***************************************************************************)
EXTENDS Integers

CONSTANT MaxAttempts   \* bound: generation attempts of the case

VARIABLES
    status,        \* status of each attempt, "NONE" before it is made
    downloadable   \* the attempts whose artifact can be downloaded

lifecycleVars == <<status, downloadable>>

AttemptId == 1 .. MaxAttempts
AttemptStatus == {"NONE", "RUNNING", "SUCCEEDED", "FAILED", "CANCELLED"}

LifecycleInit ==
    /\ status = [a \in AttemptId |-> "NONE"]
    /\ downloadable = {}

\* Attempts are made in the order of their numbers, one at a time.
Begin(a) ==
    /\ status[a] = "NONE"
    /\ \A b \in AttemptId : b < a => status[b] \notin {"NONE", "RUNNING"}
    /\ status' = [status EXCEPT ![a] = "RUNNING"]
    /\ UNCHANGED downloadable

Succeed(a) ==
    /\ status[a] = "RUNNING"
    /\ status' = [status EXCEPT ![a] = "SUCCEEDED"]
    /\ downloadable' = downloadable \cup {a}

\* The attempt fails or a member cancels it.
End(a) ==
    /\ status[a] = "RUNNING"
    /\ \E outcome \in {"FAILED", "CANCELLED"} :
         status' = [status EXCEPT ![a] = outcome]
    /\ UNCHANGED downloadable

LifecycleNext == \E a \in AttemptId : Begin(a) \/ Succeed(a) \/ End(a)

LifecycleSpec == LifecycleInit /\ [][LifecycleNext]_lifecycleVars
=============================================================================
