----------------------------- MODULE MCJobQueue -----------------------------
(* Model-checking instances of JobQueue. *)
EXTENDS JobQueue, TLC

(* Rows, workers and slots are interchangeable: sound for safety runs only. *)
Symmetry == Permutations(Job) \cup Permutations(Worker) \cup Permutations(Slot)
=============================================================================
