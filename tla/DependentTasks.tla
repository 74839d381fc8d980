--------------------------- MODULE DependentTasks ---------------------------
(***************************************************************************)
(* What asynchronous tasks with dependencies promise                       *)
(* (src/taskflowlite/core/executor.hpp, async_task.hpp): a task is started *)
(* at most once, after the tasks it depends on were started; its body runs *)
(* once, after theirs have finished.                                       *)
(***************************************************************************)
EXTENDS Naturals

CONSTANT Tasks

VARIABLES
  status,     \* "Idle", "Running" (started) or "Finished"
  needs,      \* the tasks each one depends on
  bodies      \* how many threads execute the body of each

dtVars == <<status, needs, bodies>>

DTInit ==
  /\ status = [t \in Tasks |-> "Idle"]
  /\ needs = [t \in Tasks |-> {}]
  /\ bodies = [t \in Tasks |-> 0]

Start(t) ==
  /\ status[t] = "Idle"
  /\ \E D \in SUBSET (Tasks \ {t}) :
       /\ \A d \in D : status[d] # "Idle"
       /\ needs' = [needs EXCEPT ![t] = D]
  /\ status' = [status EXCEPT ![t] = "Running"]
  /\ UNCHANGED bodies

Begin(t) ==
  /\ status[t] = "Running" /\ bodies[t] = 0
  /\ \A d \in needs[t] : status[d] = "Finished"
  /\ bodies' = [bodies EXCEPT ![t] = 1]
  /\ UNCHANGED <<status, needs>>

End(t) ==
  /\ status[t] = "Running" /\ bodies[t] = 1
  /\ bodies' = [bodies EXCEPT ![t] = 0]
  /\ status' = [status EXCEPT ![t] = "Finished"]
  /\ UNCHANGED needs

DTNext == \E t \in Tasks : Start(t) \/ Begin(t) \/ End(t)

DTSpec == DTInit /\ [][DTNext]_dtVars
=============================================================================
