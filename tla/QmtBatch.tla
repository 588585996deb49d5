------------------------------- MODULE QmtBatch -------------------------------
(***************************************************************************)
(* What the queue mode promises of a batch of files, with no queue, no     *)
(* thread and no counter in sight: files are taken up in the order of the  *)
(* command line, each is written once or lost to a failure, and the call   *)
(* returns normally only when every one of them has been written.          *)
(***************************************************************************)
EXTENDS Integers

CONSTANT FileCnt
File == 0 .. FileCnt - 1

VARIABLES
  stage,    \* "todo", "open", "done" or "lost", for each file
  outcome   \* "running", "returned" or "exit"

batch == <<stage, outcome>>

Init == stage = [f \in File |-> "todo"] /\ outcome = "running"

Move(f, from, to) ==
  /\ outcome = "running"
  /\ stage[f] = from
  /\ stage' = [stage EXCEPT ![f] = to]
  /\ UNCHANGED outcome

Claim(f)  == (\A g \in 0 .. f - 1 : stage[g] # "todo") /\ Move(f, "todo", "open")
Finish(f) == Move(f, "open", "done")
Lose(f)   == Move(f, "open", "lost")

End(how) == outcome = "running" /\ outcome' = how /\ UNCHANGED stage

Return == (\A f \in File : stage[f] = "done") /\ End("returned")
Exit   == End("exit")

Next == (\E f \in File : Claim(f) \/ Finish(f) \/ Lose(f)) \/ Return \/ Exit

Spec == Init /\ [][Next]_batch
=============================================================================
