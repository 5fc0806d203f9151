------------------------------- MODULE Sleep -------------------------------
(***************************************************************************)
(* ksleep (lethe-kernel/cpu/sleep.c) with the timer interrupts that end it  *)
(* (apic_timer_isr and pic_timer_isr of misc/config.c), the choice of the   *)
(* timer at boot (enable_apic), and the caller that sleeps in a loop,       *)
(* naive_key_released of misc/keyboard.c.                                   *)
(*                                                                         *)
(* The processor checks ticks and executes hlt in two instructions, and an  *)
(* interrupt may come in between.  The PIT interrupts periodically; the     *)
(* local APIC in TSC-deadline mode interrupts once per deadline.            *)
(***************************************************************************)
EXTENDS Integers

CONSTANTS
  Processors,    \* what init_config_cpuid and the boot loader may report
  Milliseconds,  \* 10: the length of one sleep
  Rounds         \* 50: how often naive_key_released sleeps

ASSUME ProcessorsAssumption ==
  Processors \subseteq [tsc_freq_known : BOOLEAN, apic : BOOLEAN, apic_tsc_deadline : BOOLEAN,
                        tsc_invariant : BOOLEAN, calibration_agrees : BOOLEAN]
ASSUME SleepAssumption == Milliseconds \in Nat \ {0} /\ Rounds \in Nat \ {0}

VARIABLES
  cpu,      \* the processor: a member of Processors
  timer,    \* kernel_config.timers.timer_source
  ticks,
  armed,    \* a TSC deadline is set and has not passed
  pc,       \* where naive_key_released and ksleep are
  counter,  \* sleep_counter
  key,      \* KB_STATUS of the key: it is down
  fired     \* history: timer interrupts since ksleep began

vars == <<cpu, timer, ticks, armed, pc, counter, key, fired>>

PIT == 1  \* timer_source 0b001
TSC == 2  \* timer_source 0b010
-----------------------------------------------------------------------------
(* enable_apic: with a known TSC frequency the deadline timer is used       *)
(* without another look at the processor; without one it has to be          *)
(* supported, and two calibrations have to agree.                           *)
TimerSource(p) ==
  IF p.tsc_freq_known THEN TSC
  ELSE IF ~(p.apic /\ p.apic_tsc_deadline /\ p.tsc_invariant) THEN PIT
  ELSE IF p.calibration_agrees THEN TSC
  ELSE 0

Init ==
  /\ cpu \in Processors
  /\ timer = TimerSource(cpu)
  /\ ticks = 0
  /\ armed = FALSE
  /\ pc = "idle"
  /\ counter = 0
  /\ key \in BOOLEAN
  /\ fired = 0

(* naive_key_released: nothing to wait for unless the key is down. *)
naive_key_released ==
  /\ pc = "idle"
  /\ key
  /\ counter' = 0
  /\ pc' = "ksleep"
  /\ UNCHANGED <<cpu, timer, ticks, armed, key, fired>>

ksleep ==
  /\ pc = "ksleep"
  /\ ticks' = IF timer = TSC THEN 1 ELSE Milliseconds
  /\ pc' = IF timer = TSC THEN "deadline" ELSE "check"
  /\ fired' = 0
  /\ UNCHANGED <<cpu, timer, armed, counter, key>>

(* Writing the MSR of a timer that the processor does not have is a fault.  *)
set_tsc_deadline ==
  /\ pc = "deadline"
  /\ armed' = cpu.apic_tsc_deadline
  /\ pc' = IF cpu.apic_tsc_deadline THEN "check" ELSE "fault"
  /\ UNCHANGED <<cpu, timer, ticks, counter, key, fired>>

(* Variant: any wake-up ends the sleep, "if" in place of "while". *)
CheckTicks_Once ==
  /\ pc = "check"
  /\ pc' = IF ticks > 0 /\ fired = 0 THEN "hlt" ELSE "poll"
  /\ UNCHANGED <<cpu, timer, ticks, armed, counter, key, fired>>

(* while (ticks > 0) hlt *)
CheckTicks ==
  /\ pc = "check"
  /\ pc' = IF ticks > 0 THEN "hlt" ELSE "poll"
  /\ UNCHANGED <<cpu, timer, ticks, armed, counter, key, fired>>

Hlt ==
  /\ pc = "hlt"
  /\ pc' = "halted"
  /\ UNCHANGED <<cpu, timer, ticks, armed, counter, key, fired>>

(* Variant: the rounds are not counted. *)
PollKey_Uncounted ==
  /\ pc = "poll"
  /\ pc' = IF key THEN "ksleep" ELSE "idle"
  /\ UNCHANGED <<cpu, timer, ticks, armed, counter, key, fired>>

(* The rest of the loop body in naive_key_released. *)
PollKey ==
  /\ pc = "poll"
  /\ IF key /\ counter + 1 < Rounds
     THEN pc' = "ksleep" /\ counter' = counter + 1
     ELSE pc' = "idle" /\ counter' = 0
  /\ UNCHANGED <<cpu, timer, ticks, armed, key, fired>>

(* Any interrupt ends a hlt. *)
Wake == pc' = IF pc = "halted" THEN "check" ELSE pc

Need == IF timer = TSC THEN 1 ELSE Milliseconds

Count == fired' = IF fired < Need THEN fired + 1 ELSE fired

pic_timer_isr ==
  /\ timer = PIT
  /\ ticks' = IF ticks > 0 THEN ticks - 1 ELSE ticks
  /\ Count
  /\ Wake
  /\ UNCHANGED <<cpu, timer, armed, counter, key>>

apic_timer_isr ==
  /\ armed
  /\ armed' = FALSE
  /\ ticks' = 0
  /\ Count
  /\ Wake
  /\ UNCHANGED <<cpu, timer, counter, key>>

(* kb_handle_key as far as this key is concerned. *)
keyboard_isr ==
  /\ key' = ~key
  /\ Wake
  /\ UNCHANGED <<cpu, timer, ticks, armed, counter, fired>>

Processor == naive_key_released \/ ksleep \/ set_tsc_deadline \/ CheckTicks \/ Hlt \/ PollKey

Next == Processor \/ pic_timer_isr \/ apic_timer_isr \/ keyboard_isr

(* The processor keeps executing, the PIT keeps interrupting and a deadline *)
(* that is set passes.  Nobody has to type.                                 *)
Fairness ==
  /\ WF_vars(ksleep \/ set_tsc_deadline \/ CheckTicks \/ Hlt \/ PollKey)
  /\ WF_vars(pic_timer_isr)
  /\ WF_vars(apic_timer_isr)

Spec == Init /\ [][Next]_vars /\ Fairness
-----------------------------------------------------------------------------
(* ticks never exceeds what a sleep sets it to. *)
TypeOK ==
  /\ cpu \in Processors
  /\ timer \in {0, PIT, TSC}
  /\ ticks \in 0 .. Milliseconds
  /\ armed \in BOOLEAN
  /\ pc \in {"idle", "ksleep", "deadline", "check", "hlt", "halted", "poll", "fault"}
  /\ counter \in 0 .. (Rounds - 1)
  /\ key \in BOOLEAN
  /\ fired \in 0 .. Milliseconds

(* ksleep never returns early: not before as many milliseconds have passed  *)
(* on the PIT, nor before the deadline of this very sleep, although ticks   *)
(* is shared with every other sleep and every interrupt wakes the loop.     *)
SleepsLongEnough == pc = "poll" => fired >= Need

(* On the PIT naive_key_released always comes back: an interrupt between    *)
(* the check of ticks and the hlt delays it by one period.                  *)
KeyWaitEndsOnPIT == (timer = PIT /\ pc # "idle") ~> (pc = "idle")

(* keyboard.c:17: "we wait for up to 500 ms", checking "if the key was       *)
(* released every 10ms": naive_key_released comes back, whatever the timer. *)
KeyWaitEnds == (pc # "idle") ~> (pc = "idle")
=============================================================================
