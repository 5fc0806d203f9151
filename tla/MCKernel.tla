------------------------------ MODULE MCKernel ------------------------------
(***************************************************************************)
(* The three ways to a timer; a compiler that moves the test out of the     *)
(* halt loop, and a disk controller with the PIT, which interrupts it most. *)
(* A line grows by two characters; four keys are two commands, or more      *)
(* characters than a line holds.                                            *)
(***************************************************************************)
EXTENDS Kernel

Machine(tsc_freq, tsc_deadline, ahci, hoisted) ==
  [tsc_freq |-> tsc_freq, tsc_deadline |-> tsc_deadline, ahci |-> ahci, hoisted |-> hoisted]

MCMachines ==
  { Machine(TRUE, TRUE, FALSE, TRUE), Machine(FALSE, TRUE, FALSE, FALSE),
    Machine(FALSE, FALSE, TRUE, FALSE) }

MCCommands == {"kexit", "enable_pit", "enable_apic"}
=============================================================================
