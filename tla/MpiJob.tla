------------------------------- MODULE MpiJob -------------------------------
(***************************************************************************)
(* What the MPI mode promises, with no message in sight: the filtered      *)
(* image is written at most once and whole, a process leaves the job       *)
(* normally only when the job is decided, and once one process has died    *)
(* no other leaves normally.  An image that was not computed is written    *)
(* only when a process has lost part of its work without a word.           *)
(***************************************************************************)
EXTENDS Naturals

VARIABLES
  rank,      \* the processes of the job
  decided,   \* rank 0 has been through everything, or nobody has the image
  file,      \* what is on disk: "nothing", the "filtered" image or a "garbled" one
  state,     \* "running", "left" or "dead", for each process
  lost       \* a process has not computed all of its rows

mpiJob == <<rank, decided, file, state, lost>>

Init ==
  /\ 0 \in rank /\ decided = FALSE /\ file = "nothing"
  /\ state = [r \in rank |-> "running"] /\ lost = FALSE

(* The write itself may fail, which nobody is told.                        *)
Decide ==
  /\ ~decided /\ \A r \in rank : state[r] # "left"
  /\ state[0] = "running"
  /\ decided' = TRUE
  /\ \/ file' \in {"filtered", "nothing"}
     \/ lost' /\ file' = "garbled"
  /\ UNCHANGED <<rank, state>>

Leave(r) ==
  /\ decided /\ state[r] = "running"
  /\ \A q \in rank : state[q] # "dead"
  /\ state' = [state EXCEPT ![r] = "left"]
  /\ UNCHANGED <<rank, decided, file>>

Die(r) ==
  /\ state[r] = "running" /\ \A q \in rank : state[q] # "left"
  /\ state' = [state EXCEPT ![r] = "dead"]
  /\ UNCHANGED <<rank, decided, file>>

Lose == lost' /\ UNCHANGED <<rank, decided, file, state>>

Next == (lost => lost') /\ (Decide \/ Lose \/ \E r \in rank : Leave(r) \/ Die(r))

Spec == Init /\ [][Next]_mpiJob
=============================================================================
