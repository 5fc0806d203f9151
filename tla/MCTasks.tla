------------------------------ MODULE MCTasks ------------------------------
(* The kernel task and two created ones, in rings of four slots. *)
EXTENDS Tasks

MCValues == 0 .. 2
=============================================================================
