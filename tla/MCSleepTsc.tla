----------------------------- MODULE MCSleepTsc -----------------------------
(* A processor that has the TSC-deadline timer, with a frequency reported   *)
(* by the boot loader.                                                      *)
EXTENDS Sleep

MCProcessors ==
  {[tsc_freq_known |-> TRUE, apic |-> TRUE, apic_tsc_deadline |-> TRUE,
    tsc_invariant |-> TRUE, calibration_agrees |-> TRUE]}
=============================================================================
