------------------------------- MODULE Kernel -------------------------------
(***************************************************************************)
(* The kernel from kmain (lethe-kernel/kernel.c) to its halt loop, and the  *)
(* interrupts that come in between: the handler table (cpu/idt.c, isr.c),   *)
(* the I/O APIC and local APIC (acpi/ioapic.c, lapic.c), message signalled  *)
(* interrupts (pci/msi.c, ahci.c), the functions of misc/config.c that      *)
(* change all of these, and the keyboard handler, which edits the shell's   *)
(* line and calls the function whose name was typed (misc/keyboard.c,       *)
(* misc/shell.c).                                                           *)
(*                                                                         *)
(* The call stack holds what kmain, and every handler that interrupted it,  *)
(* have still to execute: one item per statement that changes state.        *)
(* Handlers start with interrupts disabled, but one that calls sti can be   *)
(* interrupted.  The machine has an APIC; the code supports nothing else.   *)
(* Its disk controller is idle and does not interrupt when the kernel finds *)
(* it; module Ahci has the controllers that do.                             *)
(***************************************************************************)
EXTENDS ShellOps, Sequences

CONSTANTS
  Machines,  \* what processor, boot loader, devices and compiler may be
  Commands,  \* the functions whose names are typed
  MaxKeys    \* bound: the keys that are pressed

(* The functions that are modelled: those of misc/config.c, and kexit. *)
ASSUME KernelAssumption ==
  /\ Machines \subseteq [tsc_freq : BOOLEAN, tsc_deadline : BOOLEAN, ahci : BOOLEAN, hoisted : BOOLEAN]
  /\ Commands \subseteq {"kexit", "enable_pit", "enable_apic"}
  /\ MaxKeys \in Nat

VARIABLES
  machine,  \* a member of Machines
  stack,    \* the call stack, kmain first
  cpu,      \* the interrupt flag, and whether a hlt is waiting
  apic,     \* enabled, requested, in service; the lines that are not masked
  isr_handler_table,  \* the vectors that have a handler
  kernel_config,
  devices,  \* PIT, keyboard controller and disk controller
  shell,
  ticked,   \* the PIT has ticked since a statement was executed outside its handler
  early,    \* history: a key was handled half way through init_shell
  fault     \* why the kernel has stopped

vars == <<machine, stack, cpu, apic, isr_handler_table, kernel_config, devices,
          shell, ticked, early, fault>>

Number == [timer |-> 32, keyboard |-> 33, pit |-> 34, ahci |-> 121]
Vectors == DOMAIN Number

Keys == {"char", "backspace", "enter", "release"}
-----------------------------------------------------------------------------
Do(f) == <<f, "">>

init_kb_status == << <<"unmask", "keyboard">>, <<"register", "keyboard">> >>

enable_tasking == << Do("MAYBE_CLI"), Do("MAYBE_STI") >>

enable_interrupts == << Do("sti"), Do("interrupts_enabled") >>

enable_pit ==
  << Do("MAYBE_CLI"), Do("pit_init"), <<"unmask", "pit">>, <<"register", "pit">>,
     <<"source", "pit">>, Do("MAYBE_STI") >>

(* enable_apic once the frequency of the TSC is known.  The deadlines that   *)
(* apic_timer_isr serves are those of ksleep, and nothing here sleeps.      *)
UseTsc ==
  << <<"register", "timer">>, <<"mask", "pit">>, <<"unregister", "pit">>, <<"source", "tsc">>,
     Do("MAYBE_STI") >>

(* With a known frequency there is no other test; the PIT is used where the *)
(* TSC cannot be.                                                           *)
enable_apic ==
  << Do("MAYBE_CLI") >> \o
  (IF kernel_config.tsc_freq THEN UseTsc
   ELSE IF ~machine.tsc_deadline THEN enable_pit
   ELSE << Do("calibrate") >>)

(* Variant: the controller is told to interrupt before it is mapped. *)
init_ahci_GhcFirst ==
  IF machine.ahci
  THEN << Do("enable_msi"), <<"register", "ahci">>, Do("ghc"), Do("send_cmd"), Do("abar") >>
  ELSE <<>>

init_ahci ==
  IF machine.ahci
  THEN << Do("enable_msi"), <<"register", "ahci">>, Do("abar"), Do("ghc"), Do("send_cmd") >>
  ELSE <<>>

init_shell == << Do("enabled"), Do("shell_cur"), Do("shell_size"), Do("shell_cmd") >>

kmain ==
  init_kb_status \o enable_tasking \o << Do("enable_apic") >> \o enable_interrupts \o
  << Do("init_ahci") >> \o init_shell \o << Do("check") >>

(* Variant: only the keyboard's interrupt is acknowledged. *)
Handler_NoEoi(v) ==
  IF v = "keyboard" THEN << Do("kb_handle_key"), Do("eoi"), Do("iret") >> ELSE << Do("iret") >>

(* interrupt_common, interrupt_handler and what it calls. *)
Handler(v) ==
  (IF v = "keyboard" THEN << Do("kb_handle_key") >> ELSE <<>>) \o << Do("eoi"), Do("iret") >>

(* The APIC may as well be enabled at first; disabled, it keeps or drops a  *)
(* request, and so does no less.                                            *)
Init ==
  /\ machine \in Machines
  /\ stack = << kmain >>
  /\ cpu = [iflag |-> FALSE, hlt |-> FALSE]
  /\ apic = [on |-> FALSE, irr |-> {}, isr |-> {}, unmasked |-> {}]
  /\ isr_handler_table = {}
  /\ kernel_config = [kexit |-> FALSE, interrupts_enabled |-> FALSE, timer_source |-> {},
                      tsc_freq |-> machine.tsc_freq]
  /\ devices = [pit |-> "off", key |-> "none", pressed |-> 0,
                msi |-> FALSE, abar |-> FALSE, ghc |-> FALSE, busy |-> FALSE]
  /\ shell = NoShell
  /\ ticked = FALSE
  /\ early = FALSE
  /\ fault = "none"

Alive == fault = "none" /\ stack # <<>>

Highest(S) == {v \in S : \A w \in S : Number[w] <= Number[v]}

Class(v) == Number[v] \div 16

(* The processor takes the highest request if its class is above those in   *)
(* service, and takes it before the next statement.                         *)
Deliverable ==
  {v \in Highest(apic.irr) : cpu.iflag /\ apic.on /\ \A w \in apic.isr : Class(v) > Class(w)}

Running == Alive /\ ~cpu.hlt /\ Deliverable = {}

Frame == Len(stack)
MaxFrame == MaxKeys + 2

At(s) == Running /\ Head(stack[Frame]) = s

(* The statement is executed, or replaced by the body of what it calls. *)
Call(body) ==
  /\ stack' = [stack EXCEPT ![Frame] = body \o Tail(@)]
  /\ ticked' = FALSE

Go == Call(<<>>)
-----------------------------------------------------------------------------
ioapic_enable_irq(v) ==
  /\ At(<<"unmask", v>>) /\ Go
  /\ apic' = [apic EXCEPT !.unmasked = @ \union {v}]
  /\ UNCHANGED <<machine, cpu, isr_handler_table, kernel_config, devices, shell, early, fault>>

ioapic_disable_irq(v) ==
  /\ At(<<"mask", v>>) /\ Go
  /\ apic' = [apic EXCEPT !.unmasked = @ \ {v}]
  /\ UNCHANGED <<machine, cpu, isr_handler_table, kernel_config, devices, shell, early, fault>>

register_handler(v) ==
  /\ At(<<"register", v>>) /\ Go
  /\ isr_handler_table' = isr_handler_table \union {v}
  /\ UNCHANGED <<machine, cpu, apic, kernel_config, devices, shell, early, fault>>

unregister_handler(v) ==
  /\ At(<<"unregister", v>>) /\ Go
  /\ isr_handler_table' = isr_handler_table \ {v}
  /\ UNCHANGED <<machine, cpu, apic, kernel_config, devices, shell, early, fault>>

MaybeCli ==
  /\ At(Do("MAYBE_CLI")) /\ Go
  /\ IF kernel_config.interrupts_enabled
     THEN cpu' = [cpu EXCEPT !.iflag = FALSE] /\ apic' = [apic EXCEPT !.on = FALSE]
     ELSE UNCHANGED <<cpu, apic>>
  /\ UNCHANGED <<machine, isr_handler_table, kernel_config, devices, shell, early, fault>>

(* sti, and MAYBE_STI once interrupts_enabled is set. *)
Sti ==
  /\ At(Do("sti")) \/ At(Do("MAYBE_STI"))
  /\ Go
  /\ IF At(Do("sti")) \/ kernel_config.interrupts_enabled
     THEN cpu' = [cpu EXCEPT !.iflag = TRUE] /\ apic' = [apic EXCEPT !.on = TRUE]
     ELSE UNCHANGED <<cpu, apic>>
  /\ UNCHANGED <<machine, isr_handler_table, kernel_config, devices, shell, early, fault>>

(* The assignments to kernel_config: enable_interrupts, enable_pit,          *)
(* enable_apic and the command kexit.                                       *)
SetConfig(step, value) ==
  /\ At(step) /\ Go
  /\ kernel_config' = value
  /\ UNCHANGED <<machine, cpu, apic, isr_handler_table, devices, shell, early, fault>>

SetInterruptsEnabled ==
  SetConfig(Do("interrupts_enabled"), [kernel_config EXCEPT !.interrupts_enabled = TRUE])

SourceIsPit ==
  SetConfig(<<"source", "pit">>, [kernel_config EXCEPT !.timer_source = @ \union {"pit"}])

SourceIsTsc ==
  SetConfig(<<"source", "tsc">>, [kernel_config EXCEPT !.timer_source = (@ \ {"pit"}) \union {"tsc"}])

kexit == SetConfig(Do("kexit"), [kernel_config EXCEPT !.kexit = TRUE])

(* The functions that are called for what they do to the configuration. *)
CallFunction ==
  /\ \/ At(Do("enable_apic")) /\ Call(enable_apic)
     \/ At(Do("enable_pit")) /\ Call(enable_pit)
     \/ At(Do("init_ahci")) /\ Call(init_ahci)
  /\ UNCHANGED <<machine, cpu, apic, isr_handler_table, kernel_config, devices, shell, early, fault>>

(* calibrate_tsc_slow, twice, with the PIT counting down once.  If the two  *)
(* results are far apart enable_apic returns there and then.                *)
calibrate_tsc_slow ==
  /\ At(Do("calibrate"))
  /\ devices' = [devices EXCEPT !.pit = "once"]
  /\ \/ Call(UseTsc) /\ kernel_config' = [kernel_config EXCEPT !.tsc_freq = TRUE]
     \/ Go /\ UNCHANGED kernel_config
  /\ UNCHANGED <<machine, cpu, apic, isr_handler_table, shell, early, fault>>

(* What is written to the devices. *)
SetDevice ==
  /\ \/ /\ At(Do("pit_init")) /\ Go
        /\ devices' = [devices EXCEPT !.pit = "rate"]
     \/ /\ At(Do("enable_msi")) /\ Go
        /\ devices' = [devices EXCEPT !.msi = TRUE]
     \/ /\ At(Do("abar")) /\ Go
        /\ devices' = [devices EXCEPT !.abar = TRUE]
     \/ /\ At(Do("ghc")) /\ Go
        /\ devices' = [devices EXCEPT !.ghc = TRUE]
     \/ /\ At(Do("send_cmd")) /\ Go
        /\ devices' = [devices EXCEPT !.busy = TRUE]
  /\ UNCHANGED <<machine, cpu, apic, isr_handler_table, kernel_config, shell, early, fault>>

(* The assignments of init_shell, in its order. *)
InitShell ==
  /\ \/ At(Do("enabled")) /\ Go /\ shell' = [shell EXCEPT !.enabled = TRUE]
     \/ At(Do("shell_cur")) /\ Go /\ shell' = [shell EXCEPT !.cur = 0]
     \/ At(Do("shell_size")) /\ Go /\ shell' = [shell EXCEPT !.size = Line]
     \/ At(Do("shell_cmd")) /\ Go /\ shell' = [shell EXCEPT !.capacity = Line]
  /\ UNCHANGED <<machine, cpu, apic, isr_handler_table, kernel_config, devices, early, fault>>

(* The halt loop.  kexit is not volatile: the compiler may read it once and *)
(* keep what it has read.                                                   *)
Check ==
  /\ \/ At(Do("check")) /\ Call(IF kernel_config.kexit THEN << Do("shutdown") >>
                                ELSE << Do("hlt"), Do(IF machine.hoisted THEN "again" ELSE "check") >>)
     \/ At(Do("again")) /\ Call(<< Do("hlt"), Do("again") >>)
  /\ UNCHANGED <<machine, cpu, apic, isr_handler_table, kernel_config, devices, shell, early, fault>>

(* Variant: the processor halts with interrupts disabled. *)
Hlt_Cli ==
  /\ At(Do("hlt")) /\ Go
  /\ cpu' = [iflag |-> FALSE, hlt |-> TRUE]
  /\ UNCHANGED <<machine, apic, isr_handler_table, kernel_config, devices, shell, early, fault>>

Hlt ==
  /\ At(Do("hlt")) /\ Go
  /\ cpu' = [cpu EXCEPT !.hlt = TRUE]
  /\ UNCHANGED <<machine, apic, isr_handler_table, kernel_config, devices, shell, early, fault>>

shutdown ==
  /\ At(Do("shutdown"))
  /\ stack' = <<>>
  /\ UNCHANGED <<machine, cpu, apic, isr_handler_table, kernel_config, devices, shell, ticked, early, fault>>
-----------------------------------------------------------------------------
(* The keyboard handler.  A store through the NULL pointer is a page fault,  *)
(* after which the kernel halts; one outside a buffer is made.              *)
KeyIs(k) == At(Do("kb_handle_key")) /\ devices.key = k

InInitShell == Head(stack[1]) \in {Do("shell_size"), Do("shell_cmd")}

Taken ==
  /\ devices' = [devices EXCEPT !.key = "none"]
  /\ early' = (early \/ InInitShell)

(* Nothing to read, or a key that stands for no character. *)
NoChar ==
  /\ KeyIs("none") \/ KeyIs("release")
  /\ Go /\ Taken
  /\ UNCHANGED <<machine, cpu, apic, isr_handler_table, kernel_config, shell, fault>>

PushChar ==
  /\ KeyIs("char")
  /\ Go /\ Taken
  /\ shell' = push_char(shell)
  /\ fault' = IF IsNull(Grown(shell)) THEN "push_char" ELSE "none"
  /\ UNCHANGED <<machine, cpu, apic, isr_handler_table, kernel_config>>

DelChar ==
  /\ KeyIs("backspace")
  /\ Go /\ Taken
  /\ shell' = del_char(shell)
  /\ fault' = IF IsNull(shell) THEN "del_char" ELSE "none"
  /\ UNCHANGED <<machine, cpu, apic, isr_handler_table, kernel_config>>

Clearing == IF IsNull(shell) /\ shell.size > 0 THEN "memset" ELSE "none"

(* execute_command.  Before init_shell, and on an empty line, there is      *)
(* nothing to call; a name that is not known calls nothing either.          *)
ExecuteCommand ==
  /\ KeyIs("enter")
  /\ Taken
  /\ \/ /\ ~shell.enabled \/ shell.cur = 0
        /\ Go
        /\ shell' = Emptied(shell)
        /\ fault' = Clearing
     \/ /\ shell.enabled /\ shell.cur # 0
        /\ \E body \in {<<>>} \union {<< Do(c) >> : c \in Commands} : Call(body \o << Do("fini") >>)
        /\ shell' = Terminated(shell)
        /\ fault' = IF IsNull(shell) THEN "execute_command" ELSE "none"
  /\ UNCHANGED <<machine, cpu, apic, isr_handler_table, kernel_config>>

Fini ==
  /\ At(Do("fini")) /\ Go
  /\ shell' = Emptied(shell)
  /\ fault' = Clearing
  /\ UNCHANGED <<machine, cpu, apic, isr_handler_table, kernel_config, devices, early>>

lapic_send_eoi ==
  /\ At(Do("eoi"))
  /\ stack' = [stack EXCEPT ![Frame] = Tail(@)]
  /\ apic' = [apic EXCEPT !.isr = @ \ Highest(@)]
  /\ UNCHANGED <<machine, cpu, isr_handler_table, kernel_config, devices, shell, ticked, early, fault>>

(* The end of interrupt_common: the flag is what it was, set. *)
Iret ==
  /\ At(Do("iret"))
  /\ stack' = SubSeq(stack, 1, Frame - 1)
  /\ cpu' = [cpu EXCEPT !.iflag = TRUE]
  /\ UNCHANGED <<machine, apic, isr_handler_table, kernel_config, devices, shell, ticked, early, fault>>
-----------------------------------------------------------------------------
(* The hardware.  An APIC that is disabled may keep a request or drop it.   *)
Request(v) ==
  LET kept == [apic EXCEPT !.irr = @ \union {v}]
  IN  apic' \in IF apic.on THEN {kept} ELSE {kept, apic}

PressKey(k) ==
  /\ Alive
  /\ devices.key = "none" /\ devices.pressed < MaxKeys
  /\ devices' = [devices EXCEPT !.key = k, !.pressed = @ + 1]
  /\ IF "keyboard" \in apic.unmasked THEN Request("keyboard") ELSE UNCHANGED apic
  /\ UNCHANGED <<machine, stack, cpu, isr_handler_table, kernel_config, shell, ticked, early, fault>>

(* A tick is a millisecond: what the handler interrupts gets further before *)
(* the next one.                                                            *)
PitTick ==
  /\ Alive
  /\ devices.pit # "off" /\ "pit" \in apic.unmasked /\ ~ticked
  /\ ticked' = TRUE
  /\ devices' = [devices EXCEPT !.pit = IF @ = "once" THEN "off" ELSE @]
  /\ Request("pit")
  /\ UNCHANGED <<machine, stack, cpu, isr_handler_table, kernel_config, shell, early, fault>>

(* The controller has finished the command. *)
AhciInterrupt ==
  /\ Alive
  /\ devices.msi /\ devices.ghc /\ devices.busy
  /\ devices' = [devices EXCEPT !.busy = FALSE]
  /\ Request("ahci")
  /\ UNCHANGED <<machine, stack, cpu, isr_handler_table, kernel_config, shell, ticked, early, fault>>

(* interrupt_handler calls what is in the table, and ahci_irq looks at abar. *)
Missing(v) ==
  IF v \notin isr_handler_table THEN v
  ELSE IF v = "ahci" /\ ~devices.abar THEN "ABAR uninitialized"
  ELSE "none"

Interrupt(v) ==
  /\ Alive
  /\ v \in Deliverable
  /\ apic' = [apic EXCEPT !.irr = @ \ {v}, !.isr = @ \union {v}]
  /\ cpu' = [iflag |-> FALSE, hlt |-> FALSE]
  /\ stack' = Append(stack, Handler(v))
  /\ fault' = Missing(v)
  /\ UNCHANGED <<machine, isr_handler_table, kernel_config, devices, shell, ticked, early>>

TakeInterrupt == \E v \in Vectors : Interrupt(v)

Processor ==
  \/ \E v \in Vectors : ioapic_enable_irq(v) \/ ioapic_disable_irq(v)
                        \/ register_handler(v) \/ unregister_handler(v)
  \/ MaybeCli \/ Sti \/ SetInterruptsEnabled \/ SourceIsPit \/ SourceIsTsc \/ kexit
  \/ CallFunction \/ calibrate_tsc_slow \/ SetDevice
  \/ InitShell \/ Check \/ Hlt \/ shutdown
  \/ NoChar \/ PushChar \/ DelChar \/ ExecuteCommand \/ Fini \/ lapic_send_eoi \/ Iret

Next ==
  \/ Processor
  \/ TakeInterrupt
  \/ \E k \in Keys : PressKey(k)
  \/ PitTick \/ AhciInterrupt

(* The processor keeps executing and the PIT ticking.  Nobody has to type.  *)
Fairness == WF_vars(Processor \/ TakeInterrupt) /\ WF_vars(PitTick)

Spec == Init /\ [][Next]_vars /\ Fairness
-----------------------------------------------------------------------------
(* Nothing is executed past the end of a function, and handlers nest no     *)
(* deeper than there are keys and two other devices.                        *)
TypeOK ==
  /\ machine \in Machines
  /\ cpu \in [iflag : BOOLEAN, hlt : BOOLEAN]
  /\ apic \in [on : BOOLEAN, irr : SUBSET Vectors, isr : SUBSET Vectors,
               unmasked : SUBSET {"keyboard", "pit"}]
  /\ isr_handler_table \subseteq Vectors
  /\ kernel_config \in [kexit : BOOLEAN, interrupts_enabled : BOOLEAN,
                        timer_source : SUBSET {"pit", "tsc"}, tsc_freq : BOOLEAN]
  /\ devices \in [pit : {"off", "rate", "once"}, key : Keys \union {"none"}, pressed : 0 .. MaxKeys,
                  msi : BOOLEAN, abar : BOOLEAN, ghc : BOOLEAN, busy : BOOLEAN]
  /\ shell \in [enabled : BOOLEAN, capacity : Nat, size : Nat, cur : Int,
                stray : SUBSET (Writers \X {"below", "above"})]
  /\ ticked \in BOOLEAN
  /\ early \in BOOLEAN
  /\ fault \in Vectors \union {"none", "ABAR uninitialized", "push_char", "del_char",
                            "execute_command", "memset"}
  /\ Frame <= MaxFrame
  /\ \A f \in 1 .. Frame : stack[f] # <<>>

(* However interrupts fall between the steps that set them up, the keyboard *)
(* and the disk controller find their handler and what it needs.  The PIT   *)
(* finds none only if enable_apic took it away with a tick outstanding.     *)
HandlersAreReady ==
  /\ TypeOK
  /\ fault \notin {"keyboard", "ahci", "ABAR uninitialized"}
  /\ fault = "pit" => kernel_config.timer_source = {"tsc"}

(* shell_size is never more than there is, unless a key comes while         *)
(* init_shell has set the cursor but not the size, or the size but not the  *)
(* buffer: nothing is stored above the buffer, except the zero that ends a  *)
(* full line, one character above it.  Below the buffer something is stored *)
(* only once a backspace has been, which takes one on an empty line.        *)
LineStaysInBuffer ==
  /\ ~early => /\ \A f \in Writers : <<f, "above">> \in shell.stray => f = "execute_command"
               /\ shell.cur <= shell.capacity + 1
  /\ (\E f \in Writers : <<f, "below">> \in shell.stray) => <<"del_char", "below">> \in shell.stray

(* enable_apic may give up with the APIC disabled only while it has a TSC   *)
(* to calibrate.                                                            *)
MayCalibrate == machine.tsc_deadline /\ ~kernel_config.tsc_freq

(* A key whose interrupt was requested is read: every handler acknowledges  *)
(* its interrupt, and whoever disables the APIC enables it again.           *)
KeyIsRead ==
  ("keyboard" \in apic.irr /\ ~MayCalibrate) ~> ("keyboard" \notin apic.irr \/ ~Alive)

PitTicks == devices.pit = "rate" /\ "pit" \in apic.unmasked

(* Once kexit is set the kernel ends, unless the PIT stops ticking or the   *)
(* compiler has moved the test out of the loop: an interrupt between test   *)
(* and hlt only delays the end until the next tick.                         *)
ExitsOnPIT ==
  (kernel_config.kexit /\ PitTicks /\ ~machine.hoisted) ~> (~Alive \/ ~PitTicks)
=============================================================================
