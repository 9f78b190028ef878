---------------------------- MODULE JobExecution ----------------------------
(***************************************************************************)
(* What the job scheduler promises about one row of JobSandbox, whatever   *)
(* becomes of pollers, queues and processes: the service of the row is     *)
(* started at most once, by one instance, and runs there to its end or to  *)
(* the end of that process.  JobScheduler implements this specification    *)
(* as long as nobody calls resetJob.                                       *)
(***************************************************************************)
CONSTANTS Instances, NoInstance, Jobs

VARIABLES phase, \* what has become of the row's one execution
          site   \* the instance the service is running at

execution == <<phase, site>>

ExecutionTypeOK == /\ phase \in [Jobs -> {"none", "waiting", "running", "ended"}]
                   /\ site \in [Jobs -> Instances \cup {NoInstance}]

Init == /\ phase = [j \in Jobs |-> "none"]
        /\ site = [j \in Jobs |-> NoInstance]

\* The row is inserted.
Insert(j) == /\ phase[j] = "none"
             /\ phase' = [phase EXCEPT ![j] = "waiting"]
             /\ UNCHANGED site

\* The service starts; the row of the next occurrence may be inserted with it.
Start(j, i) == /\ phase[j] = "waiting"
               /\ site' = [site EXCEPT ![j] = i]
               /\ \/ phase' = [phase EXCEPT ![j] = "running"]
                  \/ \E k \in Jobs \ {j} :
                       /\ phase[k] = "none"
                       /\ phase' = [phase EXCEPT ![j] = "running", ![k] = "waiting"]

\* The service returns; a retry may be inserted with it.
End(j) == /\ phase[j] = "running"
          /\ site' = [site EXCEPT ![j] = NoInstance]
          /\ \/ phase' = [phase EXCEPT ![j] = "ended"]
             \/ \E k \in Jobs \ {j} :
                  /\ phase[k] = "none"
                  /\ phase' = [phase EXCEPT ![j] = "ended", ![k] = "waiting"]

\* The process ends, and with it every service that was running there.
Lose(i) == /\ phase' = [j \in Jobs |-> IF phase[j] = "running" /\ site[j] = i THEN "ended" ELSE phase[j]]
           /\ site' = [j \in Jobs |-> IF site[j] = i THEN NoInstance ELSE site[j]]

Next == \/ \E j \in Jobs : Insert(j) \/ End(j)
        \/ \E j \in Jobs, i \in Instances : Start(j, i)
        \/ \E i \in Instances : Lose(i)

Spec == Init /\ [][Next]_execution
=============================================================================
