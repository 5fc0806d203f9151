-------------------------------- MODULE Ahci --------------------------------
(***************************************************************************)
(* init_ahci of ahci.c after the scan of module Pci: the kernel finds the   *)
(* controller, programs its MSI capability (msi.c), enables it and sends a  *)
(* command to the disk on every port, while the controller stops its        *)
(* engines, completes what the firmware left behind, and interrupts.        *)
(***************************************************************************)
EXTENDS Pci

CONSTANTS
  Ports,      \* the ports: 32
  CmdSlots,   \* the command slots of a port: 32
  SpinMax     \* how often a busy disk is polled: 1000000

ASSUME SlotsAssumption == Ports \in Nat /\ CmdSlots \in Nat \ {0} /\ SpinMax \in Nat \ {0}

Slots == 0 .. (CmdSlots - 1)

(* A port, with what its registers point to: a command table that is page   *)
(* aligned, and the command list and the receive area, which may be in a    *)
(* page that is mapped already.                                             *)
ahci_port_t ==
  [impl : BOOLEAN, up : BOOLEAN, ata : BOOLEAN, st : BOOLEAN, fre : BOOLEAN, cr : BOOLEAN, fr : BOOLEAN,
   busy : BOOLEAN, ie : BOOLEAN, ci : SUBSET Slots, sact : SUBSET Slots, is : SUBSET {"fis", "error"},
   aligned : BOOLEAN, mapped : BOOLEAN]

(* The registers of a capability, and the list of them as the kernel reads  *)
(* it: every link leads to a capability or is 0.                            *)
Capabilities == [id : STRING, next : Nat, wide : BOOLEAN]

ASSUME CapsAssumption ==
  \A m \in Machines :
    LET registers == DOMAIN m.caps
    IN  /\ registers \subseteq Nat \ {0}
        /\ m.stale \in Capabilities /\ m.caps \in [registers -> Capabilities]
        /\ m.first \in registers \union {0}
        /\ \A c \in registers : (IF c \in {16, 17} THEN m.stale ELSE m.caps[c]).next \in registers \union {0}

ASSUME PortsAssumption ==
  \A m \in Machines : m.ports \in [0 .. (Ports - 1) -> ahci_port_t] /\ m.ie \in BOOLEAN

VARIABLES
  pc,        \* where init_ahci is
  cap,       \* the register of the capability looked at
  msi,       \* the configuration registers that have been written
  handler,   \* ahci_irq is registered for the vector
  abar,      \* the registers of the controller have been mapped
  ghcIe,     \* bit 1 of ghc: the controller may interrupt
  port,      \* the registers of each port
  p,         \* the port that init_port works on
  slot,      \* the slot send_cmd has chosen
  spin,      \* the polls of the busy bits
  device_list

vars == <<machine, buses, devices, scan, pc, cap, msi, handler, abar, ghcIe, port, p, slot, spin, device_list>>
kernelVars == <<machine, buses, devices, scan, pc, cap, msi, handler, abar, ghcIe, p, slot, spin, device_list>>
Unit == <<machine, buses, devices, scan>>

Dead == {"returned", "aborted", "halted", "panicked"}

(* The ports, and bit 1 of ghc, are as the firmware left them. *)
Init ==
  /\ InitPci
  /\ pc = "scan" /\ cap = 0 /\ msi = {} /\ handler = FALSE /\ abar = FALSE /\ ghcIe = machine.ie
  /\ port = machine.ports
  /\ p = 0 /\ slot = 0 /\ spin = 0 /\ device_list = <<>>

init_pci ==
  /\ pc = "scan"
  /\ IF scan = <<>> THEN pc' = "locate" /\ UNCHANGED Unit ELSE Scan /\ UNCHANGED pc
  /\ UNCHANGED <<cap, msi, handler, abar, ghcIe, port, p, slot, spin, device_list>>

Locate ==
  LET handle == locate_pci_device("ahci", 0)
  IN  /\ pc = "locate"
      /\ IF handle = 0 \/ ~pci_compare_value(0)
         THEN pc' = "returned" /\ UNCHANGED cap
         ELSE pc' = (IF machine.first = 0 THEN "map" ELSE "walk") /\ cap' = machine.first
      /\ UNCHANGED <<Unit, msi, handler, abar, ghcIe, port, p, slot, spin, device_list>>

(* check_msi_capability: one capability of the list. *)
check_msi_capability ==
  LET reg == get_register_value(cap)
  IN  /\ pc = "walk"
      /\ IF reg.id \in {"msi", "msix"}
         THEN pc' = "enable" /\ UNCHANGED cap
         ELSE pc' = (IF reg.next = 0 THEN "map" ELSE "walk") /\ cap' = reg.next
      /\ UNCHANGED <<Unit, msi, handler, abar, ghcIe, port, p, slot, spin, device_list>>

set_register_value(reg) == msi' = msi \union {reg}

(* Variant: the handler is not registered. *)
enable_msi_NoHandler ==
  LET reg   == get_register_value(cap)
      order == <<cap + 3, cap + 1, cap + 2, cap>>
      done  == Cardinality(msi)
  IN  /\ pc = "enable"
      /\ CASE reg.id = "msix" -> pc' = "map" /\ UNCHANGED <<msi, handler>>
           [] reg.id = "msi" /\ ~reg.wide -> pc' = "aborted" /\ UNCHANGED <<msi, handler>>
           [] reg.id = "msi" /\ reg.wide /\ done < 4 ->
                set_register_value(order[done + 1]) /\ UNCHANGED <<pc, handler>>
           [] reg.id = "msi" /\ reg.wide /\ done = 4 ->
                pc' = "map" /\ UNCHANGED <<msi, handler>>
      /\ UNCHANGED <<Unit, cap, abar, ghcIe, port, p, slot, spin, device_list>>

(* enable_msi: data, address, upper address, and then the enable bit.  A    *)
(* controller without 64 bit addresses is given up.                         *)
enable_msi ==
  LET reg   == get_register_value(cap)
      order == <<cap + 3, cap + 1, cap + 2, cap>>
      done  == Cardinality(msi)
  IN  /\ pc = "enable"
      /\ CASE reg.id = "msix" -> pc' = "map" /\ UNCHANGED <<msi, handler>>
           [] reg.id = "msi" /\ ~reg.wide -> pc' = "aborted" /\ UNCHANGED <<msi, handler>>
           [] reg.id = "msi" /\ reg.wide /\ done < 4 ->
                set_register_value(order[done + 1]) /\ UNCHANGED <<pc, handler>>
           [] reg.id = "msi" /\ reg.wide /\ done = 4 ->
                handler' = TRUE /\ pc' = "map" /\ UNCHANGED msi
      /\ UNCHANGED <<Unit, cap, abar, ghcIe, port, p, slot, spin, device_list>>

(* The registers are mapped and the controller is told to interrupt. *)
Map ==
  /\ pc = "map"
  /\ abar' = TRUE /\ pc' = "ghc"
  /\ UNCHANGED <<Unit, cap, msi, handler, ghcIe, port, p, slot, spin, device_list>>

EnableController ==
  /\ pc = "ghc"
  /\ ghcIe' = TRUE /\ pc' = "port"
  /\ UNCHANGED <<Unit, cap, msi, handler, abar, port, p, slot, spin, device_list>>

(* The end of the loop, and the ports it passes over. *)
enumerate_ahci_devices ==
  /\ pc = "port"
  /\ \/ p = Ports /\ pc' = "returned" /\ UNCHANGED p
     \/ p < Ports /\ ~(port[p].impl /\ port[p].up) /\ p' = p + 1 /\ UNCHANGED pc
  /\ UNCHANGED <<Unit, cap, msi, handler, abar, ghcIe, port, slot, spin, device_list>>

(* init_port of a port that is up.  map_page panics on a page that is       *)
(* mapped.                                                                  *)
init_port ==
  /\ pc = "port" /\ p < Ports /\ port[p].impl /\ port[p].up
  /\ IF port[p].mapped THEN pc' = "panicked" /\ UNCHANGED <<p, device_list>>
     ELSE /\ device_list' = <<p>> \o device_list
          /\ IF port[p].ata THEN pc' = "st" /\ UNCHANGED p ELSE p' = p + 1 /\ UNCHANGED pc
  /\ UNCHANGED <<Unit, cap, msi, handler, abar, ghcIe, port, slot, spin>>

SendVars == <<Unit, cap, msi, handler, abar, ghcIe, p, device_list>>

(* stop_cmd: ST is cleared, which makes the controller drop what is issued. *)
ClearST ==
  /\ pc = "st"
  /\ port' = [port EXCEPT ![p].st = FALSE, ![p].ci = {}, ![p].sact = {}]
  /\ pc' = "fre"
  /\ UNCHANGED <<SendVars, slot, spin>>

(* Variant: the bit of the receive engine is not cleared. *)
ClearFRE_No ==
  /\ pc = "fre"
  /\ pc' = "cr"
  /\ UNCHANGED <<SendVars, port, slot, spin>>

ClearFRE ==
  /\ pc = "fre"
  /\ port' = [port EXCEPT ![p].fre = FALSE]
  /\ pc' = "cr"
  /\ UNCHANGED <<SendVars, slot, spin>>

(* The loop of stop_cmd: CR is read until it is clear, then FR, and again   *)
(* from CR when FR is set.                                                  *)
WaitCR ==
  /\ pc = "cr" /\ ~port[p].cr
  /\ pc' = "fr"
  /\ UNCHANGED <<SendVars, port, slot, spin>>

(* Variant: FR is not read. *)
WaitFR_No ==
  /\ pc = "fr"
  /\ pc' = "slot"
  /\ UNCHANGED <<SendVars, port, slot, spin>>

WaitFR ==
  /\ pc = "fr"
  /\ pc' = IF port[p].fr THEN "cr" ELSE "slot"
  /\ UNCHANGED <<SendVars, port, slot, spin>>

find_cmdslot ==
  LET free == Slots \ (port[p].sact \union port[p].ci)
  IN  IF free = {} THEN -1 ELSE CHOOSE s \in free : \A t \in free : s <= t

(* send_cmd: is is written with 0, which clears none of its bits (a bit is  *)
(* cleared by writing 1 to it), all interrupts are enabled, and the first   *)
(* free slot is taken.                                                      *)
TakeSlot ==
  /\ pc = "slot"
  /\ port' = [port EXCEPT ![p].ie = TRUE]
  /\ slot' = find_cmdslot
  /\ pc' = IF find_cmdslot = -1 THEN "aborted" ELSE "table"
  /\ UNCHANGED <<SendVars, spin>>

get_cmd_table ==
  /\ pc = "table"
  /\ pc' = IF port[p].aligned THEN "spin" ELSE "aborted"
  /\ spin' = 0
  /\ UNCHANGED <<SendVars, port, slot>>

Spin ==
  /\ pc = "spin"
  /\ IF port[p].busy /\ spin < SpinMax THEN spin' = spin + 1 /\ UNCHANGED pc
     ELSE pc' = (IF spin = SpinMax THEN "aborted" ELSE "issue") /\ UNCHANGED spin
  /\ UNCHANGED <<SendVars, port, slot>>

(* The engine is not running: the bit may stay or be ignored. *)
Issue ==
  /\ pc = "issue"
  /\ \E ci \in {{slot}, {}} : port' = [port EXCEPT ![p].ci = @ \union ci]
  /\ pc' = "poll"
  /\ UNCHANGED <<SendVars, slot, spin>>

Poll ==
  /\ pc = "poll"
  /\ IF slot \notin port[p].ci THEN pc' = "port" /\ p' = p + 1
     ELSE /\ "fis" \in port[p].is
          /\ pc' = "halted" /\ UNCHANGED p
  /\ UNCHANGED <<Unit, cap, msi, handler, abar, ghcIe, device_list, port, slot, spin>>
-----------------------------------------------------------------------------
(* The controller and the disks. *)
StopEngine(q) ==
  /\ port[q].cr /\ ~port[q].st
  /\ port' = [port EXCEPT ![q].cr = FALSE]
  /\ UNCHANGED kernelVars

StopReceive(q) ==
  /\ port[q].fr /\ ~port[q].fre
  /\ port' = [port EXCEPT ![q].fr = FALSE]
  /\ UNCHANGED kernelVars

Complete(q) ==
  /\ port[q].st /\ port[q].cr
  /\ \E c \in port[q].ci : \E flag \in {"fis", "error"} :
       port' = [port EXCEPT ![q].ci = @ \ {c}, ![q].is = @ \union {flag}, ![q].busy = FALSE]
  /\ UNCHANGED kernelVars

GetReady(q) ==
  /\ port[q].busy
  /\ port' = [port EXCEPT ![q].busy = FALSE]
  /\ UNCHANGED kernelVars

(* The controller requests an interrupt while a port has an enabled one. *)
Interrupts(q) == ghcIe /\ cap \in msi /\ port[q].ie /\ port[q].is # {}

(* An interrupt: without a handler interrupt_handler calls through NULL,    *)
(* which ends in a page fault; the handler panics without its registers and *)
(* on an error.  One that only logs changes nothing.                        *)
ahci_irq ==
  /\ pc \notin Dead
  /\ \E q \in 0 .. (Ports - 1) : Interrupts(q) /\ (~handler \/ ~abar \/ "error" \in port[q].is)
  /\ pc' = IF handler THEN "panicked" ELSE "halted"
  /\ UNCHANGED <<Unit, cap, msi, handler, abar, ghcIe, port, p, slot, spin, device_list>>

Kernel ==
  \/ init_pci \/ Locate \/ check_msi_capability \/ enable_msi \/ Map \/ EnableController
  \/ enumerate_ahci_devices \/ init_port \/ ClearST \/ ClearFRE \/ WaitCR \/ WaitFR
  \/ TakeSlot \/ get_cmd_table \/ Spin \/ Issue \/ Poll

Controller(q) == StopEngine(q) \/ StopReceive(q) \/ Complete(q) \/ GetReady(q)

Next == Kernel \/ ahci_irq \/ \E q \in 0 .. (Ports - 1) : Controller(q)

(* The kernel's thread goes on, and an engine that was told to stop stops. *)
Fairness == /\ WF_vars(Kernel)
            /\ \A q \in 0 .. (Ports - 1) : WF_vars(StopEngine(q)) /\ WF_vars(StopReceive(q))

Spec == Init /\ [][Next]_vars /\ Fairness
-----------------------------------------------------------------------------
(* Where the MSI capability of the controller really is. *)
MsiRegs == UNION {r .. (r + 3) : r \in {c \in DOMAIN machine.caps : machine.caps[c].id = "msi"}}

(* Configuration registers are written only inside an MSI capability of the *)
(* controller, unless a capability lies in the two registers of which the   *)
(* copy holds nothing (get_register_value, check_msi_capability).           *)
WritesOnlyMsi == {16, 17} \cap DOMAIN machine.caps = {} => msi \subseteq MsiRegs

(* When the controller interrupts, the message has its address and its      *)
(* data, the handler is registered, and the pointer that the handler would  *)
(* panic without is set (enable_msi, init_ahci, ahci_irq).  Only on a       *)
(* machine whose firmware left the interrupts of the controller enabled can *)
(* one come before the handler or the pointer, and only until init_ahci has *)
(* mapped the registers: enable_msi sets the enable bit before it registers *)
(* the handler, and the registers are mapped after both.                    *)
HandlerIsReady ==
  pc \notin Dead =>
    \A q \in 0 .. (Ports - 1) :
      Interrupts(q) => /\ cap .. (cap + 3) \subseteq msi
                       /\ (handler /\ abar) \/ (machine.ie /\ pc \in {"enable", "map"})

(* A command is put together and issued only while both engines of the port *)
(* stand still, into a slot that neither the controller nor the disk uses,  *)
(* though both go on while send_cmd looks at one register after the other.  *)
IssuesIntoFreeSlot ==
  pc \in {"table", "spin", "issue"} =>
    ~port[p].cr /\ ~port[p].fr /\ slot \notin port[p].ci \union port[p].sact

(* stop_cmd has no time limit; it ends because an engine that was told to   *)
(* stop stops, unless an interrupt of the port ends in a panic.             *)
StopEnds == pc \in {"st", "fre", "cr", "fr"} ~> pc \notin {"st", "fre", "cr", "fr"}
=============================================================================
