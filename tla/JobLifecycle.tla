---------------------------- MODULE JobLifecycle ----------------------------
(***************************************************************************)
(* What a background-job queue promises its callers, without queues,       *)
(* workers, locks or clocks: a submitted job is tried until it succeeds or *)
(* MaxRetries retries have failed, one try at a time.  Only the shutdown   *)
(* of the queue excuses it from giving a job up.                           *)
(***************************************************************************)
EXTENDS Naturals

CONSTANTS Jobs, MaxRetries

VARIABLES
    status,  \* what became of each job
    tries,   \* how often it was tried
    open     \* FALSE once the queue is shut down

lifecycleVars == <<status, tries, open>>

LifecycleInit ==
    /\ status = [j \in Jobs |-> "new"]
    /\ tries = [j \in Jobs |-> 0]
    /\ open = TRUE

Submit(j) ==
    /\ status[j] = "new"
    /\ status' = [status EXCEPT ![j] = IF open THEN "pending" ELSE "refused"]
    /\ UNCHANGED <<tries, open>>

Try(j) ==
    /\ status[j] = "pending"
    /\ tries[j] <= MaxRetries
    /\ status' = [status EXCEPT ![j] = "running"]
    /\ tries' = [tries EXCEPT ![j] = @ + 1]
    /\ UNCHANGED open

Succeed(j) ==
    /\ status[j] = "running"
    /\ status' = [status EXCEPT ![j] = "done"]
    /\ UNCHANGED <<tries, open>>

Fail(j) ==
    /\ status[j] = "running"
    /\ status' = [status EXCEPT ![j] =
                     IF tries[j] > MaxRetries THEN "dead"
                     ELSE IF open THEN "pending" ELSE "lost"]
    /\ UNCHANGED <<tries, open>>

ShutDown ==
    /\ open
    /\ open' = FALSE
    /\ UNCHANGED <<status, tries>>

LifecycleNext ==
    \/ \E j \in Jobs : Submit(j) \/ Try(j) \/ Succeed(j) \/ Fail(j)
    \/ ShutDown

Lifecycle == LifecycleInit /\ [][LifecycleNext]_lifecycleVars
=============================================================================
