------------------------------ MODULE MCSleep ------------------------------
(* Every processor there is; three-tick sleeps, three rounds. *)
EXTENDS Sleep

MCProcessors ==
  [tsc_freq_known : BOOLEAN, apic : BOOLEAN, apic_tsc_deadline : BOOLEAN,
   tsc_invariant : BOOLEAN, calibration_agrees : BOOLEAN]
=============================================================================
